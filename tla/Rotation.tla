------------------------------ MODULE Rotation ------------------------------
(***************************************************************************)
(* The choice of replicas in handleAllocChunk of both masters,             *)
(* nodes[(i + j) % len(nodes)]: it goes round the list of online nodes,    *)
(* which is at least as long as there are replicas, and never meets        *)
(* itself.                                                                 *)
(***************************************************************************)
EXTENDS Integers, TLAPS

\* Less than one round apart, remainders differ.
LEMMA RoundTrip ==
  ASSUME NEW n \in Nat \ {0}, NEW a \in Nat, NEW b \in Nat,
         a < b, b < a + n
  PROVE  a % n # b % n
<1>1. PICK qa \in Int : a = qa * n + (a % n)
  <2>1. a = (a \div n) * n + (a % n) /\ a \div n \in Int
    OBVIOUS
  <2>. QED BY <2>1
<1>2. PICK qb \in Int : b = qb * n + (b % n)
  <2>1. b = (b \div n) * n + (b % n) /\ b \div n \in Int
    OBVIOUS
  <2>. QED BY <2>1
<1>3. SUFFICES ASSUME a % n = b % n PROVE FALSE
  OBVIOUS
<1>4. a % n \in Nat
  OBVIOUS
<1>5. b - a = (qb - qa) * n
  BY <1>1, <1>2, <1>3, <1>4
<1>6. DEFINE d == qb - qa
<1>7. d \in Int /\ d * n > 0 /\ d * n < n
  BY <1>5
<1>. HIDE DEF d
<1>8. CASE d <= 0
  <2>1. d * n <= 0
    BY <1>7, <1>8
  <2>. QED BY <1>7, <2>1
<1>9. CASE d >= 1
  <2>1. d * n >= n
    BY <1>7, <1>9
  <2>. QED BY <1>7, <2>1
<1>. QED BY <1>7, <1>8, <1>9

\* Of r places in a row, no two have the same remainder.
LEMMA RoundApart ==
  ASSUME NEW n \in Nat \ {0}, NEW r \in Nat, r <= n, NEW i \in Nat,
         NEW j \in 1 .. r, NEW k \in 1 .. r,
         (i + j - 1) % n = (i + k - 1) % n
  PROVE  j = k
<1>. DEFINE a == i + j - 1
            b == i + k - 1
<1>1. a \in Nat /\ b \in Nat /\ b - a = k - j /\ b < a + n /\ a < b + n
  OBVIOUS
<1>. HIDE DEF a, b
<1>2. CASE a < b
  BY <1>1, <1>2, RoundTrip DEF a, b
<1>3. CASE b < a
  BY <1>1, <1>3, RoundTrip DEF a, b
<1>. QED BY <1>1, <1>2, <1>3

=============================================================================
