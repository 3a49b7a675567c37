----------------------------- MODULE WALProofs -----------------------------
(***************************************************************************)
(* Proofs about the write-ahead log: what it promises stays, whatever      *)
(* fails, and its files implement the durable log, for every number of     *)
(* appends and files.                                                      *)
(***************************************************************************)
EXTENDS WAL, TLAPS

\* A record has the number of one append that has begun; one with the number
\* of the append at work is that append's.
Numbered ==
    /\ \A r \in disk : r.number \in 1 .. next
    /\ \A r \in disk : r.number = next => phase \in {"length", "data"}
    /\ \A r, s \in disk : r.number = s.number => r = s
    /\ \A n \in promised : n < next

\* The files of the records are those of the directory, and no file is newer
\* than the open one.
FilesInPlace ==
    /\ \A r \in disk : r.file <= newest
    /\ newest <= sequence
    /\ fd # "unlinked"
    /\ fd = "open" => sequence = newest

\* An append at work has its place in the open file and has written there
\* what its phase says.
AtWork ==
    /\ phase # "idle" => fd = "open" /\ next <= MaxAppends
    /\ next >= 1
    /\ phase = "length" => Piece(FALSE) \in disk
    /\ phase = "data" => \E r \in disk : r.number = next /\ r.whole /\ r.file = sequence

IInv == TypeOK /\ Numbered /\ FilesInPlace /\ AtWork /\ PromisedSynced /\ InOrder

\* What the lemmas take for granted of the step's first state.
DiskFacts == Numbered /\ FilesInPlace /\ PromisedSynced /\ InOrder

\* A first state that satisfies everything.
LEMMA InitInv == Init => IInv
  BY DEF Init, IInv, TypeOK, Record, Numbered, FilesInPlace, AtWork,
         PromisedSynced, InOrder

\* A step that changes no record, no name of a file and promises nothing
\* keeps what is said of the records, if no number is given twice.
LEMMA SameDisk ==
  ASSUME TypeOK, DiskFacts, AtWork,
         UNCHANGED <<disk, promised>>,
         next' \in Nat, next' >= next,
         next' = next /\ phase \in {"length", "data"} => phase' \in {"length", "data"}
  PROVE  Numbered' /\ PromisedSynced' /\ InOrder'
<1>1. Numbered'
  BY DEF DiskFacts, Numbered, TypeOK, Record, AtWork
<1>2. PromisedSynced' /\ InOrder'
  BY DEF DiskFacts, PromisedSynced, InOrder
<1>. QED BY <1>1, <1>2

\* Syncing changes the records in nothing but synced, and only to TRUE.
LEMMA SyncedSame ==
  ASSUME TypeOK
  PROVE  /\ Synced(disk) \in SUBSET Record
         /\ \A r \in disk : \E s \in Synced(disk) :
                /\ s.file = r.file /\ s.number = r.number /\ s.whole = r.whole
                /\ r.synced => s.synced
                /\ fd = "open" /\ r.file = sequence => s.synced
         /\ \A s \in Synced(disk) : \E r \in disk :
                s.file = r.file /\ s.number = r.number /\ s.whole = r.whole
         /\ (\A r, s \in disk : r.number = s.number => r = s)
                => \A r, s \in Synced(disk) : r.number = s.number => r = s
<1>. DEFINE S(r) == [r EXCEPT !.synced = @ \/ (fd = "open" /\ r.file = sequence)]
<1>1. ASSUME NEW r \in disk
      PROVE  /\ S(r) \in Record
             /\ S(r).file = r.file /\ S(r).number = r.number /\ S(r).whole = r.whole
             /\ r.synced => S(r).synced
             /\ fd = "open" /\ r.file = sequence => S(r).synced
  BY <1>1 DEF TypeOK, Record
<1>2. Synced(disk) = {S(r) : r \in disk}
  BY DEF Synced
<1>3. \A s \in Synced(disk) : \E r \in disk : s = S(r)
  BY <1>2
<1>4. \A r \in disk : S(r) \in Synced(disk)
  BY <1>2
<1>. HIDE DEF S
<1>5. Synced(disk) \in SUBSET Record
  BY <1>1, <1>3
<1>6. \A s \in Synced(disk) : \E r \in disk :
          s.file = r.file /\ s.number = r.number /\ s.whole = r.whole
  BY <1>1, <1>3
<1>7. \A r \in disk : \E s \in Synced(disk) :
          /\ s.file = r.file /\ s.number = r.number /\ s.whole = r.whole
          /\ r.synced => s.synced
          /\ fd = "open" /\ r.file = sequence => s.synced
  BY <1>1, <1>4
<1>8. ASSUME \A r, s \in disk : r.number = s.number => r = s,
             NEW r \in Synced(disk), NEW s \in Synced(disk), r.number = s.number
      PROVE  r = s
  BY <1>1, <1>3, <1>8
<1>. QED BY <1>5, <1>6, <1>7, <1>8

LEMMA SyncKeeps ==
  ASSUME TypeOK, DiskFacts,
         disk' = Synced(disk),
         UNCHANGED <<newest, sequence, fd>>
  PROVE  /\ disk' \in SUBSET Record
         /\ \A r \in disk' : r.number \in 1 .. next
         /\ \A r \in disk' : r.number = next => phase \in {"length", "data"}
         /\ \A r, s \in disk' : r.number = s.number => r = s
         /\ \A r \in disk' : r.file <= newest
         /\ \A n \in promised : \E r \in disk' : r.number = n /\ r.whole /\ r.synced
         /\ InOrder'
<1>. USE DEF DiskFacts
<1>1. disk' \in SUBSET Record
  BY SyncedSame
<1>2. /\ \A r \in disk' : r.number \in 1 .. next
      /\ \A r \in disk' : r.number = next => phase \in {"length", "data"}
      /\ \A r \in disk' : r.file <= newest
  BY SyncedSame DEF Numbered, FilesInPlace
<1>3. \A r, s \in disk' : r.number = s.number => r = s
  BY SyncedSame DEF Numbered
<1>4. \A n \in promised : \E r \in disk' : r.number = n /\ r.whole /\ r.synced
  BY SyncedSame DEF PromisedSynced
<1>5. InOrder'
  BY SyncedSame DEF InOrder
<1>. QED BY <1>1, <1>2, <1>3, <1>4, <1>5

\* A power loss: every record that is left was on the disk, whole ones as
\* they were, and what was synced is left.
LEMMA PowerLossDisk ==
  ASSUME TypeOK, DiskFacts, PowerLoss
  PROVE  /\ disk' \in SUBSET Record
         /\ \A s \in disk' : \E r \in disk :
                s.file = r.file /\ s.number = r.number /\ (s.whole => r.whole)
         /\ \A r \in disk : r.synced => r \in disk'
         /\ \A r, s \in disk' : r.number = s.number => r = s
<1>. DEFINE unsynced == {r \in disk : ~r.synced}
            C(r) == [r EXCEPT !.whole = FALSE]
<1>0. PICK kept \in SUBSET unsynced : \E cut \in SUBSET kept :
          disk' = ((disk \ unsynced) \union (kept \ cut)) \union {C(r) : r \in cut}
  BY DEF PowerLoss
<1>1. PICK cut \in SUBSET kept :
          disk' = ((disk \ unsynced) \union (kept \ cut)) \union {C(r) : r \in cut}
  BY <1>0
<1>2. \A r \in disk : /\ C(r) \in Record /\ ~C(r).whole
                      /\ C(r).file = r.file /\ C(r).number = r.number
  BY DEF TypeOK, Record
<1>. HIDE DEF C
<1>3. ASSUME NEW s \in disk'
      PROVE  \/ s \in disk /\ s \notin cut
             \/ \E r \in cut : s = C(r)
  BY <1>1, <1>3
<1>4. cut \subseteq disk
  BY <1>1
<1>5. disk' \in SUBSET Record
  BY <1>2, <1>3, <1>4 DEF TypeOK
<1>6. \A s \in disk' : \E r \in disk :
          s.file = r.file /\ s.number = r.number /\ (s.whole => r.whole)
  BY <1>2, <1>3, <1>4
<1>7. \A r \in disk : r.synced => r \in disk'
  BY <1>1
<1>8. \A r, s \in disk' : r.number = s.number => r = s
  <2>. SUFFICES ASSUME NEW r \in disk', NEW s \in disk', r.number = s.number
                PROVE  r = s
    OBVIOUS
  <2>1. \A x, y \in disk : x.number = y.number => x = y
    BY DEF DiskFacts, Numbered
  <2>2. CASE r \in disk /\ r \notin cut /\ s \in disk /\ s \notin cut
    BY <2>1, <2>2
  <2>3. CASE r \in disk /\ r \notin cut /\ \E x \in cut : s = C(x)
    BY <1>2, <1>4, <2>1, <2>3
  <2>4. CASE s \in disk /\ s \notin cut /\ \E x \in cut : r = C(x)
    BY <1>2, <1>4, <2>1, <2>4
  <2>5. CASE (\E x \in cut : r = C(x)) /\ (\E x \in cut : s = C(x))
    BY <1>2, <1>4, <2>1, <2>5
  <2>. QED BY <1>3, <2>2, <2>3, <2>4, <2>5
<1>. QED BY <1>5, <1>6, <1>7, <1>8

\* The record of the append at work is put on the disk, or made whole.
LEMMA PieceKeeps ==
  ASSUME TypeOK, DiskFacts, next >= 1,
         fd = "open", NEW w \in BOOLEAN,
         disk' = {r \in disk : r.number # next} \union {Piece(w)},
         UNCHANGED <<newest, sequence, fd, promised>>
  PROVE  /\ disk' \in SUBSET Record
         /\ \A r \in disk' : r.number \in 1 .. next
         /\ \A r, s \in disk' : r.number = s.number => r = s
         /\ \A n \in promised : n < next
         /\ FilesInPlace'
         /\ PromisedSynced'
         /\ InOrder'
         /\ Piece(w) \in disk'
<1>1. /\ Piece(w) \in Record /\ Piece(w).number = next
      /\ Piece(w).file = sequence /\ Piece(w).whole = w
  BY DEF Piece, Record, TypeOK
<1>. HIDE DEF Piece
<1>. USE DEF DiskFacts
<1>2. disk' \in SUBSET Record
  BY <1>1 DEF TypeOK
<1>3. \A r \in disk' : r.number \in 1 .. next
  BY <1>1 DEF Numbered, TypeOK
<1>4. \A r, s \in disk' : r.number = s.number => r = s
  BY <1>1 DEF Numbered
<1>5. FilesInPlace'
  BY <1>1 DEF FilesInPlace, TypeOK
<1>6. PromisedSynced' /\ \A n \in promised : n < next
  BY <1>1 DEF PromisedSynced, Numbered
<1>7. InOrder'
  <2>. SUFFICES ASSUME NEW r \in disk', NEW s \in disk', r.file < s.file
                PROVE  r.number < s.number
    BY DEF InOrder
  <2>1. CASE r \in disk /\ s \in disk
    BY <2>1 DEF InOrder
  <2>2. CASE r = Piece(w)
    BY <1>1, <2>2 DEF FilesInPlace, TypeOK, Record
  <2>3. CASE r \in disk /\ r.number # next /\ s = Piece(w)
    BY <1>1, <2>3 DEF Numbered, TypeOK, Record
  <2>. QED BY <2>1, <2>2, <2>3
<1>. QED BY <1>1, <1>2, <1>3, <1>4, <1>5, <1>6, <1>7

LEMMA TypeStep == TypeOK /\ Next => TypeOK'
<1>. SUFFICES ASSUME TypeOK, Next PROVE TypeOK'
  OBVIOUS
<1>. Piece(TRUE) \in Record /\ Piece(FALSE) \in Record
  BY DEF Piece, Record, TypeOK
<1>. next + 1 \in Nat /\ sequence + 1 \in Nat
  BY DEF TypeOK
<1>1. \A r \in Record : [r EXCEPT !.whole = FALSE] \in Record
  BY DEF Record
<1>2. Synced(disk) \in SUBSET Record
  BY SyncedSame
<1>. HIDE DEF Piece
<1>. USE <1>1 DEF TypeOK
<1>3. CASE AppendInPlace \/ AppendRotates
  BY <1>3 DEF AppendInPlace, AppendRotates
<1>4. CASE RotationFails \/ AppendRefused \/ SyncFails
  BY <1>4 DEF RotationFails, AppendRefused, SyncFails, Fail
<1>5. CASE WriteLength
  BY <1>5 DEF WriteLength, Written
<1>6. CASE WriteData
  BY <1>6 DEF WriteData, Written
<1>7. CASE WriteFails
  BY <1>7 DEF WriteFails, Written, Fail
<1>8. CASE SyncAnswers
  BY <1>2, <1>8 DEF SyncAnswers
<1>9. CASE SyncCall \/ Close
  BY <1>2, <1>9 DEF SyncCall, Close
<1>10. CASE Crash \/ Open
  <2>1. CASE Crash
    BY <2>1 DEF Crash
  <2>2. CASE Open
    BY <2>2 DEF Open
  <2>. QED BY <1>10, <2>1, <2>2
<1>11. CASE PowerLoss
  <2>. DEFINE unsynced == {r \in disk : ~r.synced}
  <2>1. PICK kept \in SUBSET unsynced : \E cut \in SUBSET kept :
            disk' = ((disk \ unsynced) \union (kept \ cut))
                        \union {[r EXCEPT !.whole = FALSE] : r \in cut}
    BY <1>11 DEF PowerLoss
  <2>2. disk' \in SUBSET Record
    BY <2>1
  <2>. QED BY <1>11, <2>2 DEF PowerLoss
<1>12. ASSUME NEW before \in 1 .. MaxFiles + 1, Truncate(before)
       PROVE  TypeOK'
  BY <1>12 DEF Truncate
<1>. QED
  BY <1>3, <1>4, <1>5, <1>6, <1>7, <1>8, <1>9, <1>10, <1>11, <1>12 DEF Next

\* The invariant is kept by every step, when no caller truncates the open file.
LEMMA StepInv ==
  ASSUME KeepOpen, IInv, Next
  PROVE  IInv'
<1>. USE DEF DiskFacts
<1>1. TypeOK /\ DiskFacts /\ AtWork /\ TypeOK'
  BY TypeStep DEF IInv
<1>2. CASE AppendInPlace \/ AppendRotates \/ RotationFails \/ AppendRefused
  <2>1. /\ UNCHANGED <<disk, promised>>
        /\ next' \in Nat /\ next' >= next
        /\ phase = "idle"
    BY <1>1, <1>2 DEF AppendInPlace, AppendRotates, RotationFails, AppendRefused,
                      Fail, TypeOK
  <2>2. Numbered' /\ PromisedSynced' /\ InOrder'
    BY <1>1, <2>1, SameDisk
  <2>3. FilesInPlace'
    BY <1>1, <1>2 DEF AppendInPlace, AppendRotates, RotationFails, AppendRefused,
                      FilesInPlace, Fail, TypeOK, Record
  <2>4. AtWork'
    <3>1. next' >= 1 /\ phase' \in {"idle", "room"}
      BY <1>1, <1>2 DEF AppendInPlace, AppendRotates, RotationFails, AppendRefused,
                        AtWork, Fail, TypeOK
    <3>2. phase' # "idle" => fd' = "open" /\ next' <= MaxAppends
      BY <1>1, <1>2 DEF AppendInPlace, AppendRotates, RotationFails, AppendRefused,
                        FilesInPlace, Fail, TypeOK
    <3>. QED BY <3>1, <3>2 DEF AtWork
  <2>. QED BY <1>1, <2>2, <2>3, <2>4 DEF IInv
<1>3. CASE WriteLength \/ WriteData
  <2>1. /\ fd = "open" /\ next >= 1 /\ next <= MaxAppends
        /\ UNCHANGED <<newest, sequence, fd, next, promised>>
    BY <1>1, <1>3 DEF WriteLength, WriteData, AtWork
  <2>2. PICK w \in BOOLEAN :
            /\ disk' = {r \in disk : r.number # next} \union {Piece(w)}
            /\ w = FALSE => phase' = "length"
            /\ w = TRUE => phase' = "data"
    <3>1. Piece(FALSE).number = next
      BY DEF Piece
    <3>2. CASE WriteLength
      <4>1. \A r \in disk : r.number # next
        BY <1>1, <3>2 DEF Numbered, WriteLength
      <4>. QED BY <2>1, <3>2, <4>1 DEF WriteLength, Written
    <3>3. CASE WriteData
      <4>1. Piece(FALSE) \in disk /\ \A r \in disk : r.number = next => r = Piece(FALSE)
        BY <1>1, <3>1, <3>3 DEF AtWork, WriteData, Numbered
      <4>2. disk \ {Piece(FALSE)} = {r \in disk : r.number # next}
        BY <3>1, <4>1
      <4>. QED BY <2>1, <3>3, <4>2 DEF WriteData, Written
    <3>. QED BY <1>3, <3>2, <3>3
  <2>3. /\ Piece(w).number = next /\ Piece(w).file = sequence /\ Piece(w).whole = w
    BY <2>1 DEF Piece
  <2>4. /\ \A r \in disk' : r.number \in 1 .. next
        /\ \A r, s \in disk' : r.number = s.number => r = s
        /\ \A n \in promised : n < next
        /\ FilesInPlace' /\ PromisedSynced' /\ InOrder'
        /\ Piece(w) \in disk'
    BY <1>1, <2>1, <2>2, PieceKeeps
  <2>5. Numbered'
    BY <2>1, <2>2, <2>4 DEF Numbered
  <2>6. AtWork'
    <3>1. CASE w = FALSE
      <4>1. phase' = "length" /\ Piece(FALSE)' \in disk'
        BY <2>1, <2>2, <2>4, <3>1 DEF Piece
      <4>. QED BY <2>1, <4>1 DEF AtWork
    <3>2. CASE w = TRUE
      BY <2>1, <2>2, <2>3, <2>4, <3>2 DEF AtWork
    <3>. QED BY <3>1, <3>2
  <2>. QED BY <1>1, <2>4, <2>5, <2>6 DEF IInv
<1>4. CASE WriteFails
  <2>1. /\ next' = next + 1 /\ phase' = "idle" /\ next >= 1
        /\ UNCHANGED <<newest, sequence, fd, promised>> /\ fd = "open"
    BY <1>1, <1>4 DEF WriteFails, Fail, AtWork
  <2>2. CASE disk' = disk
    <3>1. next' \in Nat /\ next' >= next /\ next' # next
      BY <1>1, <2>1 DEF TypeOK
    <3>2. Numbered' /\ PromisedSynced' /\ InOrder'
      BY <1>1, <2>1, <2>2, <3>1, SameDisk
    <3>3. FilesInPlace' /\ AtWork'
      BY <1>1, <2>1, <2>2, <3>1 DEF FilesInPlace, AtWork, TypeOK
    <3>. QED BY <1>1, <3>2, <3>3 DEF IInv
  <2>3. CASE phase = "room" /\ disk' = disk \union {Piece(FALSE)}
    <3>1. \A r \in disk : r.number # next
      BY <1>1, <2>3 DEF Numbered
    <3>2. disk' = {r \in disk : r.number # next} \union {Piece(FALSE)}
      BY <2>3, <3>1
    <3>3. /\ \A r \in disk' : r.number \in 1 .. next
          /\ \A r, s \in disk' : r.number = s.number => r = s
          /\ \A n \in promised : n < next
          /\ FilesInPlace' /\ PromisedSynced' /\ InOrder'
      BY <1>1, <2>1, <3>2, PieceKeeps
    <3>4. Numbered' /\ AtWork'
      BY <1>1, <2>1, <3>3 DEF Numbered, AtWork, TypeOK
    <3>. QED BY <1>1, <3>3, <3>4 DEF IInv
  <2>. QED BY <1>4, <2>1, <2>2, <2>3 DEF WriteFails, Written
<1>5. CASE SyncFails
  <2>1. /\ next' = next + 1 /\ phase' = "idle"
        /\ UNCHANGED <<disk, newest, sequence, fd, promised>>
    BY <1>5 DEF SyncFails, Fail
  <2>2. next' \in Nat /\ next' >= next /\ next' # next
    BY <1>1, <2>1 DEF TypeOK
  <2>3. Numbered' /\ PromisedSynced' /\ InOrder'
    BY <1>1, <2>1, <2>2, SameDisk
  <2>4. FilesInPlace' /\ AtWork'
    BY <1>1, <2>1, <2>2 DEF FilesInPlace, AtWork, TypeOK
  <2>. QED BY <1>1, <2>3, <2>4 DEF IInv
<1>6. CASE SyncAnswers \/ SyncCall \/ Close
  <2>1. /\ disk' = Synced(disk) /\ UNCHANGED <<newest, sequence>>
        /\ phase' = "idle" /\ next' >= next /\ fd' \in {fd, "none"}
        /\ next' = next => phase = "idle"
    BY <1>1, <1>6 DEF SyncAnswers, SyncCall, Close, TypeOK
  <2>2. FilesInPlace' /\ AtWork'
    BY <1>1, <2>1, SyncedSame DEF FilesInPlace, AtWork, TypeOK
  <2>3. InOrder'
    BY <1>1, <2>1, SyncedSame DEF InOrder
  <2>4. Numbered'
    <3>1. /\ \A r \in disk' : r.number \in 1 .. next'
          /\ \A r \in disk' : r.number = next' => phase' \in {"length", "data"}
      BY <1>1, <2>1, SyncedSame DEF Numbered, TypeOK
    <3>2. \A r, s \in disk' : r.number = s.number => r = s
      BY <1>1, <2>1, SyncedSame DEF Numbered
    <3>3. \A n \in promised' : n < next'
      BY <1>1, <1>6 DEF SyncAnswers, SyncCall, Close, Numbered, TypeOK
    <3>. QED BY <3>1, <3>2, <3>3 DEF Numbered
  <2>5. PromisedSynced'
    <3>1. \A n \in promised : \E r \in disk' : r.number = n /\ r.whole /\ r.synced
      BY <1>1, <2>1, SyncedSame DEF PromisedSynced
    <3>2. CASE SyncAnswers
      <4>1. PICK r \in disk : r.number = next /\ r.whole /\ r.file = sequence
        BY <1>1, <3>2 DEF AtWork, SyncAnswers
      <4>2. fd = "open"
        BY <1>1, <3>2 DEF AtWork, SyncAnswers
      <4>3. \E s \in disk' : s.number = next /\ s.whole /\ s.synced
        BY <1>1, <2>1, <4>1, <4>2, SyncedSame
      <4>. QED BY <3>1, <3>2, <4>3 DEF SyncAnswers, PromisedSynced
    <3>3. CASE SyncCall \/ Close
      BY <3>1, <3>3 DEF SyncCall, Close, PromisedSynced
    <3>. QED BY <1>6, <3>2, <3>3
  <2>. QED BY <1>1, <2>2, <2>3, <2>4, <2>5 DEF IInv
<1>7. CASE Crash \/ Open
  <2>1. /\ UNCHANGED <<disk, promised>> /\ phase' = "idle" /\ next' \in Nat
        /\ next' >= next
        /\ next' = next => phase = "idle"
    BY <1>1, <1>7 DEF Crash, Open, TypeOK, AtWork
  <2>2. Numbered' /\ PromisedSynced' /\ InOrder'
    BY <1>1, <2>1, SameDisk
  <2>3. FilesInPlace'
    <3>1. CASE Crash
      BY <1>1, <3>1 DEF Crash, FilesInPlace
    <3>2. CASE Open
      BY <1>1, <3>2 DEF Open, FilesInPlace, TypeOK, Record
    <3>. QED BY <1>7, <3>1, <3>2
  <2>4. AtWork'
    BY <1>1, <2>1 DEF AtWork, TypeOK
  <2>. QED BY <1>1, <2>2, <2>3, <2>4 DEF IInv
<1>8. CASE PowerLoss
  <2>1. /\ phase' = "idle" /\ next' \in Nat /\ next' >= next /\ fd' = "none"
        /\ next' = next => phase = "idle"
        /\ UNCHANGED <<newest, sequence, promised>>
    BY <1>1, <1>8 DEF PowerLoss, TypeOK
  <2>2. Numbered'
    <3>1. /\ \A r \in disk' : r.number \in 1 .. next'
          /\ \A r \in disk' : r.number = next' => phase' \in {"length", "data"}
      BY <1>1, <1>8, <2>1, PowerLossDisk DEF Numbered, TypeOK
    <3>2. \A r, s \in disk' : r.number = s.number => r = s
      BY <1>1, <1>8, PowerLossDisk
    <3>3. \A n \in promised' : n < next'
      BY <1>1, <2>1 DEF Numbered, TypeOK
    <3>. QED BY <3>1, <3>2, <3>3 DEF Numbered
  <2>3. FilesInPlace' /\ AtWork'
    BY <1>1, <1>8, <2>1, PowerLossDisk DEF FilesInPlace, AtWork, TypeOK
  <2>4. PromisedSynced' /\ InOrder'
    BY <1>1, <1>8, <2>1, PowerLossDisk DEF PromisedSynced, InOrder
  <2>. QED BY <1>1, <2>2, <2>3, <2>4 DEF IInv
<1>9. ASSUME NEW before \in 1 .. MaxFiles + 1, Truncate(before)
      PROVE  IInv'
  <2>1. /\ disk' \subseteq disk /\ promised' \subseteq promised
        /\ phase = "idle" /\ fd' = fd /\ UNCHANGED <<sequence, phase, next>>
    BY <1>1, <1>9 DEF Truncate, TypeOK
  <2>2. Numbered' /\ InOrder' /\ AtWork'
    BY <1>1, <2>1 DEF Numbered, InOrder, AtWork
  <2>3. FilesInPlace'
    BY <1>1, <1>9, <2>1 DEF FilesInPlace, Truncate, TypeOK, Record
  <2>4. PromisedSynced'
    BY <1>1, <1>9 DEF PromisedSynced, Truncate
  <2>. QED BY <1>1, <2>2, <2>3, <2>4 DEF IInv
<1>. QED
  BY <1>2, <1>3, <1>4, <1>5, <1>6, <1>7, <1>8, <1>9 DEF Next

\* A step that changes nothing keeps everything.
LEMMA StutterInv ==
  ASSUME IInv, UNCHANGED vars
  PROVE  IInv'
BY DEF vars, IInv, TypeOK, Numbered, FilesInPlace, AtWork, PromisedSynced, InOrder,
       Piece

\* As long as nobody truncates the open file, an answered append is whole and
\* synced in a file that a reader opens, until it is truncated.
THEOREM Kept == ASSUME KeepOpen PROVE Spec => []PromisedSynced
<1>1. IInv /\ [Next]_vars => IInv'
  BY StepInv, StutterInv
<1>2. IInv => PromisedSynced
  BY DEF IInv
<1>. QED BY <1>1, <1>2, InitInv, PTL DEF Spec

\* The files are read in the order of the appends.
THEOREM ReadInOrder == ASSUME KeepOpen PROVE Spec => []InOrder
<1>1. IInv /\ [Next]_vars => IInv'
  BY StepInv, StutterInv
<1>2. IInv => InOrder
  BY DEF IInv
<1>. QED BY <1>1, <1>2, InitInv, PTL DEF Spec

----------------------------------------------------------------------------
\* The refinement.

\* A step that leaves the whole records and the promises as they are is a
\* stutter of the durable log, or spoils it.
LEMMA SpoilOrStutter ==
  ASSUME Entries' = Entries, UNCHANGED promised, Readable' => Readable
  PROVE  [Durable!Next]_(Durable!vars)
<1>1. CASE Readable' = Readable
  BY <1>1 DEF Durable!vars
<1>2. CASE Readable' = FALSE
  BY <1>2 DEF Durable!Next, Durable!Spoil
<1>3. Readable \in BOOLEAN /\ Readable' \in BOOLEAN
  BY DEF Readable
<1>. QED BY <1>1, <1>2, <1>3

\* Same records, and no torn record put to rest.
LEMMA SameRecords ==
  ASSUME UNCHANGED <<disk, promised>>,
         phase = "length" => (phase' = "length" /\ next' = next) \/ phase' = "idle",
         phase' = "length" => phase = "length" /\ next' = next
  PROVE  [Durable!Next]_(Durable!vars)
<1>1. Entries' = Entries
  BY DEF Entries
<1>2. Readable' => Readable
  BY DEF Readable, Torn, InProgress
<1>. QED BY <1>1, <1>2, SpoilOrStutter

LEMMA StepImplements ==
  ASSUME KeepOpen, IInv, [Next]_vars
  PROVE  [Durable!Next]_(Durable!vars)
<1>. USE DEF DiskFacts
<1>1. TypeOK /\ DiskFacts /\ AtWork
  BY DEF IInv
<1>2. CASE UNCHANGED vars
  BY <1>2, SameRecords DEF vars, TypeOK
<1>3. CASE \/ AppendInPlace \/ AppendRotates \/ RotationFails \/ AppendRefused
           \/ SyncFails \/ Crash \/ Open
  <2>1. /\ UNCHANGED <<disk, promised>>
        /\ phase' = "length" => phase = "length" /\ next' = next
        /\ phase = "length" => (phase' = "length" /\ next' = next) \/ phase' = "idle"
    BY <1>1, <1>3 DEF AppendInPlace, AppendRotates, RotationFails, AppendRefused,
       SyncFails, Crash, Open, Fail
  <2>. QED BY <2>1, SameRecords
<1>4. Piece(FALSE).whole = FALSE /\ Piece(FALSE).number = next
      /\ Piece(TRUE).whole = TRUE /\ Piece(TRUE).number = next
  BY DEF Piece
<1>5. CASE WriteLength
  <2>1. /\ disk' = disk \union {Piece(FALSE)}
        /\ phase = "room" /\ phase' = "length" /\ UNCHANGED <<next, promised>>
    BY <1>1, <1>5 DEF WriteLength, Written, AtWork
  <2>2. Entries' = Entries
    BY <1>4, <2>1 DEF Entries
  <2>3. Readable' => Readable
    BY <1>1, <2>1 DEF Readable, Torn, InProgress, Numbered
  <2>. QED BY <2>1, <2>2, <2>3, SpoilOrStutter
<1>6. CASE WriteData
  <2>1. /\ disk' = (disk \ {Piece(FALSE)}) \union {Piece(TRUE)}
        /\ phase = "length" /\ phase' = "data" /\ UNCHANGED <<next, promised>>
        /\ next \in 1 .. MaxAppends /\ Piece(FALSE) \in disk
    <3>1. phase = "length" /\ fd = "open" /\ Piece(FALSE) \in disk
      BY <1>1, <1>6 DEF WriteData, AtWork
    <3>2. next \in 1 .. MaxAppends
      BY <1>1, <3>1, BoundsAssumption DEF AtWork, TypeOK
    <3>. QED BY <1>6, <3>1, <3>2 DEF WriteData, Written
  <2>2. Entries' = Entries \union {next}
    BY <1>4, <2>1 DEF Entries
  <2>3. \A m \in Entries : m < next
    <3>1. \A r \in disk : r.number = next => r = Piece(FALSE)
      BY <1>1, <1>4, <2>1 DEF Numbered
    <3>2. \A r \in disk : r.whole => r.number # next
      BY <1>4, <3>1
    <3>3. \A r \in disk : r.number \in 1 .. next
      BY <1>1 DEF Numbered
    <3>4. \A r \in disk : r.whole => r.number < next
      BY <1>1, <3>2, <3>3 DEF TypeOK
    <3>. QED BY <3>4 DEF Entries
  <2>4. Readable' = Readable
    <3>1. \A r \in disk : r.number = next <=> r = Piece(FALSE)
      BY <1>1, <1>4, <2>1 DEF Numbered
    <3>2. Torn' = Torn
      BY <1>4, <2>1, <3>1 DEF Torn, InProgress
    <3>. QED BY <3>2 DEF Readable
  <2>5. Durable!Append
    BY <2>1, <2>2, <2>3, <2>4 DEF Durable!Append
  <2>. QED BY <2>5 DEF Durable!Next
<1>7. CASE WriteFails
  <2>1. /\ disk' \in {disk, disk \union {Piece(FALSE)}}
        /\ phase' = "idle" /\ UNCHANGED promised
        /\ phase # "room" => disk' = disk
    BY <1>1, <1>7 DEF WriteFails, Written, AtWork, Fail
  <2>2. Entries' = Entries
    BY <1>4, <2>1 DEF Entries
  <2>3. Readable' => Readable
    BY <2>1 DEF Readable, Torn, InProgress
  <2>. QED BY <2>1, <2>2, <2>3, SpoilOrStutter
<1>8. CASE SyncAnswers \/ SyncCall \/ Close
  <2>1. disk' = Synced(disk) /\ phase # "length" /\ phase' # "length"
    BY <1>1, <1>8 DEF SyncAnswers, SyncCall, Close
  <2>2. Entries' = Entries
    BY <1>1, <2>1, SyncedSame DEF Entries
  <2>3. Readable' = Readable
    BY <1>1, <2>1, SyncedSame DEF Readable, Torn, InProgress
  <2>4. CASE UNCHANGED promised
    BY <2>2, <2>3, <2>4, SpoilOrStutter
  <2>5. CASE SyncAnswers
    <3>1. next \in Entries /\ promised' = promised \union {next}
      BY <1>1, <2>5 DEF AtWork, SyncAnswers, Entries
    <3>. QED BY <2>2, <2>3, <3>1 DEF Durable!Next, Durable!Promise
  <2>. QED BY <1>8, <2>4, <2>5 DEF SyncCall, Close
<1>9. CASE PowerLoss
  <2>1. Entries' \in SUBSET Entries
    BY <1>1, <1>9, PowerLossDisk DEF Entries
  <2>2. promised' = promised /\ promised \subseteq Entries'
    BY <1>1, <1>9, PowerLossDisk DEF PowerLoss, PromisedSynced, Entries
  <2>3. Readable' \in BOOLEAN
    BY DEF Readable
  <2>. QED BY <2>1, <2>2, <2>3 DEF Durable!Next, Durable!Lose
<1>10. ASSUME NEW before \in 1 .. MaxFiles + 1, Truncate(before)
       PROVE  Durable!Truncate
  <2>1. /\ disk' = {r \in disk : r.file >= before}
        /\ promised' = promised \ {r.number : r \in disk \ disk'}
        /\ phase = "idle" /\ UNCHANGED <<phase, next>>
    BY <1>10 DEF Truncate
  <2>2. Entries' \in SUBSET Entries
    BY <2>1 DEF Entries
  <2>3. ASSUME NEW gone \in Entries \ Entries', NEW kept \in Entries'
        PROVE  gone < kept
    <3>1. PICK r \in disk : r.whole /\ r.number = gone
      BY <2>3 DEF Entries
    <3>2. PICK s \in disk' : s.whole /\ s.number = kept
      BY <2>3 DEF Entries
    <3>3. r \notin disk'
      BY <2>3, <3>1 DEF Entries
    <3>4. r.file < s.file
      BY <1>1, <1>10, <2>1, <3>1, <3>2, <3>3, BoundsAssumption DEF TypeOK, Record
    <3>. QED BY <1>1, <2>1, <3>1, <3>2, <3>4 DEF InOrder
  <2>4. promised' = promised \intersect Entries'
    <3>1. ASSUME NEW n \in promised, n \notin {r.number : r \in disk \ disk'}
          PROVE  n \in Entries'
      BY <1>1, <3>1 DEF PromisedSynced, Entries
    <3>2. ASSUME NEW n \in Entries' PROVE n \notin {r.number : r \in disk \ disk'}
      BY <1>1, <2>1, <3>2 DEF Entries, Numbered
    <3>. QED BY <2>1, <3>1, <3>2
  <2>5. (Readable => Readable') /\ Readable' \in BOOLEAN
    BY <2>1 DEF Readable, Torn, InProgress
  <2>. QED BY <2>2, <2>3, <2>4, <2>5 DEF Durable!Truncate
<1>. QED
  BY <1>2, <1>3, <1>5, <1>6, <1>7, <1>8, <1>9, <1>10 DEF Next, Durable!Next

\* The write-ahead log implements the durable log: it grows at its end only,
\* loses nothing it has promised, and is truncated from its beginning, for
\* every number of appends, files, failures, crashes and power losses, as
\* long as nobody truncates the open file.
THEOREM Refinement == ASSUME KeepOpen PROVE Spec => ImplementsDurableLog
<1>1. Init => Durable!Init
  BY DEF Init, Durable!Init, Entries, Readable, Torn
<1>2. IInv /\ [Next]_vars => IInv'
  BY StepInv, StutterInv
<1>3. IInv /\ [Next]_vars => [Durable!Next]_(Durable!vars)
  BY StepImplements
<1>. QED
  BY <1>1, <1>2, <1>3, InitInv, PTL DEF Spec, ImplementsDurableLog, Durable!Spec
=============================================================================
