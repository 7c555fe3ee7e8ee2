-------------------------- MODULE DeadLetterProofs ---------------------------
(***************************************************************************)
(* Theorems about DeadLetterStore, for any number of writers, records,     *)
(* topics and days: a replay that runs while records are being written     *)
(* returns what it promises.                                               *)
(***************************************************************************)
EXTENDS DeadLetterStore, TLAPS, SequenceTheorems

Records == [by : Writers, n : Nat, file : Days, day : Days, topic : Topics,
            mentions : SUBSET Topics]
Pieces == [rec : Records, whole : BOOLEAN]

WriteType ==
  /\ today \in Days
  /\ files \in [Days -> Seq(Pieces)]
  /\ writer \in [Writers -> {"idle", "dated", "stamped", "appending"}]
  /\ record \in [Writers -> Records \cup {None}]
  /\ count \in [Writers -> Nat]
  /\ write_lock \in Writers \cup {None}

ReadType ==
  /\ reader \in {"idle", "reading", "done"}
  /\ query \in [topic : Topics \cup {NoFilter}, since : Days, max_count : Nat]
  /\ to_read \subseteq Days /\ pos \in Nat
  /\ results \in Seq(SUBSET Pieces) /\ before \subseteq Records

\* A thread that is in persist has its own latest record in hand, and holds the
\* lock exactly while it appends.
InPersist ==
  \A w \in Writers :
     /\ writer[w] # "idle" => record[w] \in Records /\ record[w].by = w /\ record[w].n = count[w]
     /\ writer[w] = "appending" <=> write_lock = w

\* A record is in the file that it names, and is older than one that its writer
\* has in hand but not yet begun to append.
FilesNamed ==
  \A d \in Days : \A i \in DOMAIN files[d] :
     LET rec == files[d][i].rec IN
       /\ rec.file = d
       /\ rec.n <= count[rec.by]
       /\ writer[rec.by] \in {"dated", "stamped"} => rec.n # count[rec.by]

\* No record is in a file twice.
NoRepetition ==
  \A d \in Days : \A i, j \in DOMAIN files[d] :
     /\ files[d][i].rec.by = files[d][j].rec.by
     /\ files[d][i].rec.n = files[d][j].rec.n
     => i = j

\* A record on disk, and the first part of one.
Whole(w) == Piece(w, TRUE)
Half(w) == Piece(w, FALSE)

\* Its writer is at work on a record.
InHand(rec) == writer[rec.by] = "appending" /\ record[rec.by] = rec

\* A record that its writer is at work on is the last of its file, and not yet
\* whole.  Any other that is not whole was given up.
InHandLast ==
  /\ \A d \in Days : \A i \in DOMAIN files[d] :
       InHand(files[d][i].rec) => ~files[d][i].whole /\ i = Len(files[d])
  /\ \A w \in Writers : writer[w] = "appending" =>
       /\ files[record[w].file] # <<>>
       /\ files[record[w].file][Len(files[record[w].file])] = Half(w)

\* Between two replays there is nothing to read.
IdleReader == reader = "idle" => to_read = {} /\ pos = 0 /\ results = <<>> /\ before = {}

WholeOf(rec) == [rec |-> rec, whole |-> TRUE]

\* What was on disk when the replay began is there still.
BeforeStored ==
  \A rec \in before : \E i \in DOMAIN files[rec.file] : files[rec.file][i] = WholeOf(rec)

\* The records that the replay has still to come to.
StillAhead(rec) ==
  /\ rec.file \in to_read
  /\ Current(rec.file) =>
       \E i \in DOMAIN files[rec.file] : i > pos /\ files[rec.file][i] = WholeOf(rec)

\* Nothing is left out ...
Complete ==
  Len(results) < query.max_count =>
    \A rec \in before :
       Asked(rec, query) => \/ \E k \in DOMAIN results : WholeOf(rec) \in results[k]
                            \/ StillAhead(rec)

\* ... nothing is read before its turn ...
ReadSoFar ==
  \A k \in DOMAIN results : \A p \in results[k] :
     LET rec == p.rec IN
       /\ \A e \in to_read : rec.file <= e
       /\ \E i \in DOMAIN files[rec.file] :
            files[rec.file][i].rec = rec /\ (rec.file \in to_read => i <= pos)

\* ... and what was read is as ReplayExact says, line by line ...
LineRight(line, asked, old) ==
  /\ \E p \in line : Qualifies(p.rec, asked)
  /\ \A p, q \in line : p.whole /\ q.whole => p = q
  /\ \A p \in line : ~p.whole => p.rec \notin old

\* ... and one line after another.
InOrder(line, next) == \A p \in line, q \in next : p.rec # q.rec /\ p.rec.file <= q.rec.file

ResultsRight ==
  /\ Len(results) <= query.max_count
  /\ \A i \in DOMAIN results : LineRight(results[i], query, before)
  /\ \A i, j \in DOMAIN results : i < j => InOrder(results[i], results[j])

\* A replay that is over has no file left, or as many lines as it was asked for.
Over == reader = "done" => to_read = {} \/ Len(results) >= query.max_count

StoreInv == WriteType /\ InPersist /\ FilesNamed /\ NoRepetition /\ InHandLast

ReplayInv ==
  /\ ReadType /\ IdleReader /\ BeforeStored /\ Complete /\ ReadSoFar /\ ResultsRight /\ Over

IInv == StoreInv /\ ReplayInv

USE StoreAssumption

-----------------------------------------------------------------------------
(* What a writer does to a file                                            *)

\* A line at the end of a file, and another in place of the last one.
Longer(s, x, t) == t = Append(s, x)
Completed(s, x, t) == t = [s EXCEPT ![Len(s)] = x]

LEMMA AppendLine ==
  ASSUME NEW S, NEW s \in Seq(S), NEW x \in S, NEW t, Longer(s, x, t)
  PROVE  /\ t \in Seq(S) /\ Len(s) \in Nat /\ Len(t) = Len(s) + 1
         /\ t # <<>> /\ t[Len(s) + 1] = x
         /\ Len(s) + 1 \in DOMAIN t
         /\ \A i \in DOMAIN s : i \in DOMAIN t /\ t[i] = s[i]
         /\ \A i \in DOMAIN t : i \in DOMAIN s \/ i = Len(s) + 1
<1>1. DOMAIN s = 1..Len(s) /\ Len(s) \in Nat
  BY LenProperties
<1>0. t = Append(s, x)
  BY DEF Longer
<1>2. t \in Seq(S) /\ Len(t) = Len(s) + 1
  BY <1>0, AppendProperties
<1>3. DOMAIN t = 1..(Len(s) + 1)
  BY <1>2, LenProperties
<1>4. t # <<>>
  BY <1>1, <1>2, EmptySeq
<1> QED
  BY <1>0, <1>1, <1>2, <1>3, <1>4, AppendProperties

LEMMA ReplaceLast ==
  ASSUME NEW s \in Seq(Pieces), s # <<>>, NEW x \in Pieces,
         NEW t, Completed(s, x, t)
  PROVE  /\ t \in Seq(Pieces) /\ Len(t) = Len(s) /\ DOMAIN t = DOMAIN s
         /\ t[Len(s)] = x /\ Len(s) \in DOMAIN s
         /\ \A i \in DOMAIN s : i # Len(s) => t[i] = s[i]
<1>1. DOMAIN s = 1..Len(s) /\ Len(s) \in Nat \ {0} /\ Len(s) \in DOMAIN s
  BY LenProperties, EmptySeq
<1>2. t \in Seq(Pieces) /\ Len(t) = Len(s)
  BY <1>1, ExceptSeq DEF Completed
<1> QED
  BY <1>1, <1>2 DEF Completed

\* The parts of a line have their types.
LEMMA LineTyped ==
  ASSUME WriteType, NEW d \in Days, NEW i \in DOMAIN files[d]
  PROVE  /\ files[d] \in Seq(Pieces) /\ files[d][i] \in Pieces
         /\ i \in Nat /\ i \in 1..Len(files[d]) /\ Len(files[d]) \in Nat
         /\ files[d][i].rec \in Records /\ files[d][i].whole \in BOOLEAN
         /\ files[d][i].rec.by \in Writers /\ files[d][i].rec.n \in Nat
         /\ files[d][i].rec.file \in Days
<1>1. files[d] \in Seq(Pieces)
  BY DEF WriteType
<1>2. i \in 1..Len(files[d]) /\ Len(files[d]) \in Nat
  BY <1>1, LenProperties
<1>3. files[d][i] \in Pieces
  BY <1>1, <1>2, ElementOfSeq
<1>4. files[d][i].rec \in Records /\ files[d][i].whole \in BOOLEAN
  BY <1>3 DEF Pieces
<1> QED
  BY <1>1, <1>2, <1>3, <1>4 DEF Records

\* What BeginAppend leaves in the files.
LEMMA Begins ==
  ASSUME StoreInv, NEW w \in Writers, BeginAppend(w)
  PROVE  /\ record[w] \in Records /\ record[w].file \in Days /\ record[w].by = w
         /\ record[w].n = count[w] /\ Half(w) \in Pieces
         /\ files' \in [Days -> Seq(Pieces)]
         /\ \A d \in Days : d # record[w].file => files'[d] = files[d]
         /\ Longer(files[record[w].file], Half(w), files'[record[w].file])
<1>1. record[w] \in Records /\ record[w].by = w /\ record[w].n = count[w]
  BY DEF StoreInv, WriteType, InPersist, BeginAppend
<1>2. record[w].file \in Days /\ Half(w) \in Pieces
  BY <1>1 DEF Records, Pieces, Half, Whole, Piece
<1>3. files \in [Days -> Seq(Pieces)]
  BY DEF StoreInv, WriteType
<1>4. files' = [files EXCEPT ![record[w].file] = Append(files[record[w].file], Half(w))]
  BY DEF BeginAppend, Half
<1>5. Longer(files[record[w].file], Half(w), files'[record[w].file])
  BY <1>2, <1>3, <1>4 DEF Longer
<1>6. \A d \in Days : d # record[w].file => files'[d] = files[d]
  BY <1>3, <1>4
<1>7. files'[record[w].file] \in Seq(Pieces)
  <2>1. files[record[w].file] \in Seq(Pieces)
    BY <1>2, <1>3
  <2> QED
    BY <1>2, <1>5, <2>1, AppendLine
<1>8. files' \in [Days -> Seq(Pieces)]
  BY <1>2, <1>3, <1>4, <1>7
<1> QED
  BY <1>1, <1>2, <1>5, <1>6, <1>8

\* What EndAppend leaves in the files.
LEMMA Ends ==
  ASSUME StoreInv, NEW w \in Writers, EndAppend(w)
  PROVE  /\ record[w] \in Records /\ record[w].file \in Days /\ record[w].by = w
         /\ record[w].n = count[w] /\ Whole(w) \in Pieces
         /\ files' \in [Days -> Seq(Pieces)]
         /\ \A d \in Days : d # record[w].file => files'[d] = files[d]
         /\ files[record[w].file] # <<>>
         /\ files[record[w].file][Len(files[record[w].file])] = Half(w)
         /\ Completed(files[record[w].file], Whole(w), files'[record[w].file])
<1>1. record[w] \in Records /\ record[w].by = w /\ record[w].n = count[w]
  BY DEF StoreInv, WriteType, InPersist, EndAppend
<1>2. record[w].file \in Days /\ Whole(w) \in Pieces
  BY <1>1 DEF Records, Pieces, Half, Whole, Piece
<1>3. files \in [Days -> Seq(Pieces)]
  BY DEF StoreInv, WriteType
<1>4. /\ files[record[w].file] # <<>>
      /\ files[record[w].file][Len(files[record[w].file])] = Half(w)
  BY DEF StoreInv, InHandLast, EndAppend
<1>5. files' = [files EXCEPT ![record[w].file] =
                   [files[record[w].file] EXCEPT ![Len(files[record[w].file])] = Whole(w)]]
  BY DEF EndAppend, Whole
<1>6. Completed(files[record[w].file], Whole(w), files'[record[w].file])
  BY <1>2, <1>3, <1>5 DEF Completed
<1>7. \A d \in Days : d # record[w].file => files'[d] = files[d]
  BY <1>3, <1>5
<1>8. files'[record[w].file] \in Seq(Pieces)
  BY <1>2, <1>3, <1>4, <1>6, ReplaceLast
<1>9. files' \in [Days -> Seq(Pieces)]
  BY <1>2, <1>3, <1>5, <1>8
<1> QED
  BY <1>1, <1>2, <1>4, <1>6, <1>7, <1>9

\* Records are never taken out of a file, changed or moved; one that is whole, or
\* given up by its writer, does not change at all.
Grows ==
  \A d \in Days : \A i \in DOMAIN files[d] :
     /\ i \in DOMAIN files'[d]
     /\ files'[d][i].rec = files[d][i].rec
     /\ files[d][i].whole \/ ~InHand(files[d][i].rec) => files'[d][i] = files[d][i]

\* Both parts of an append make a file grow.
LEMMA FilesGrow ==
  ASSUME StoreInv, NEW w \in Writers, BeginAppend(w) \/ EndAppend(w)
  PROVE  Grows
<1> SUFFICES ASSUME NEW d \in Days, NEW i \in DOMAIN files[d]
             PROVE  /\ i \in DOMAIN files'[d]
                    /\ files'[d][i].rec = files[d][i].rec
                    /\ files[d][i].whole \/ ~InHand(files[d][i].rec) =>
                         files'[d][i] = files[d][i]
  BY DEF Grows
<1>0. files \in [Days -> Seq(Pieces)]
  BY DEF StoreInv, WriteType
<1>1. CASE BeginAppend(w)
  <2>1. CASE d # record[w].file
    <3>1. files'[d] = files[d]
      BY <1>1, <2>1, Begins
    <3> QED
      BY <3>1
  <2>2. CASE d = record[w].file
    <3>1. /\ files[d] \in Seq(Pieces) /\ Half(w) \in Pieces
          /\ Longer(files[d], Half(w), files'[d])
      BY <1>0, <1>1, <2>2, Begins
    <3>2. i \in DOMAIN files'[d] /\ files'[d][i] = files[d][i]
      BY <3>1, AppendLine
    <3> QED
      BY <3>2
  <2> QED
    BY <2>1, <2>2
<1>2. CASE EndAppend(w)
  <2>1. CASE d # record[w].file
    <3>1. files'[d] = files[d]
      BY <1>2, <2>1, Ends
    <3> QED
      BY <3>1
  <2>2. CASE d = record[w].file
    <3>1. /\ files[d] \in Seq(Pieces) /\ files[d] # <<>> /\ Whole(w) \in Pieces
          /\ Completed(files[d], Whole(w), files'[d])
          /\ files[d][Len(files[d])] = Half(w)
      BY <1>0, <1>2, <2>2, Ends
    <3>2. /\ i \in DOMAIN files'[d]
          /\ i # Len(files[d]) => files'[d][i] = files[d][i]
          /\ files'[d][Len(files[d])] = Whole(w)
      BY <3>1, ReplaceLast
    <3>3. CASE i = Len(files[d])
      <4>1. /\ files[d][i].rec = record[w] /\ files'[d][i].rec = record[w]
            /\ files[d][i].whole = FALSE
        BY <3>1, <3>2, <3>3 DEF Half, Whole, Piece
      <4>2. InHand(files[d][i].rec)
        <5>1. record[w].by = w
          BY <1>2, Ends
        <5> QED
          BY <1>2, <4>1, <5>1 DEF InHand, EndAppend
      <4> QED
        BY <3>2, <4>1, <4>2
    <3> QED
      BY <3>2, <3>3
  <2> QED
    BY <2>1, <2>2
<1> QED
  BY <1>1, <1>2

-----------------------------------------------------------------------------
(* The files are in order                                                  *)

\* A step that leaves the writers alone.
LEMMA StoreUnchanged == StoreInv /\ UNCHANGED <<today, writeVars>> => StoreInv'
BY DEF StoreInv, WriteType, InPersist, FilesNamed, NoRepetition, InHandLast, InHand, Half,
   Whole, Piece, writeVars

\* Midnight changes no file and no record in the writing.
LEMMA MidnightStores == StoreInv /\ Midnight => StoreInv'
<1> SUFFICES ASSUME StoreInv, Midnight
             PROVE  StoreInv'
  OBVIOUS
<1>1. WriteType'
  BY DEF StoreInv, WriteType, Midnight, writeVars, Days
<1> QED
  BY <1>1 DEF StoreInv, InPersist, FilesNamed, NoRepetition, InHandLast, InHand, Half, Whole, Piece,
     Midnight, writeVars

\* A record that begins is newer than what its writer has stored.
LEMMA PickFileStores ==
  ASSUME StoreInv, NEW w \in Writers, NEW topic \in Topics, NEW mentions \in SUBSET Topics,
         PickFile(w, topic, mentions)
  PROVE  StoreInv'
<1> DEFINE r == [by |-> w, n |-> count[w] + 1, file |-> today, day |-> today,
                 topic |-> topic, mentions |-> mentions]
<1>0. WriteType
  BY DEF StoreInv
<1>1. r \in Records /\ r.by = w /\ r.n = count[w] + 1
  BY <1>0 DEF WriteType, Records
<1>2. record' = [record EXCEPT ![w] = r]
  BY DEF PickFile
<1> HIDE DEF r
<1>3. WriteType'
  BY <1>0, <1>1, <1>2 DEF WriteType, PickFile
<1>4. InPersist'
  BY <1>0, <1>1, <1>2 DEF StoreInv, WriteType, InPersist, PickFile
<1>5. FilesNamed'
  <2> SUFFICES ASSUME NEW d \in Days, NEW i \in DOMAIN files[d]
               PROVE  /\ files[d][i].rec.file = d
                      /\ files[d][i].rec.n <= count'[files[d][i].rec.by]
                      /\ writer'[files[d][i].rec.by] \in {"dated", "stamped"} =>
                           files[d][i].rec.n # count'[files[d][i].rec.by]
    BY DEF FilesNamed, PickFile
  <2>1. files[d][i].rec.by \in Writers /\ files[d][i].rec.n \in Nat
    BY <1>0, LineTyped
  <2>2. count[files[d][i].rec.by] \in Nat /\ count[w] \in Nat
    BY <1>0, <2>1 DEF WriteType
  <2> QED
    BY <1>0, <2>1, <2>2 DEF StoreInv, WriteType, FilesNamed, PickFile
<1>6. NoRepetition'
  BY DEF StoreInv, NoRepetition, PickFile
<1>7. InHandLast'
  <2>1. \A v \in Writers : writer'[v] = "appending" =>
          v # w /\ writer[v] = "appending" /\ record'[v] = record[v]
    BY <1>0, <1>2 DEF WriteType, PickFile
  <2>2. \A v \in Writers : writer[v] = "appending" =>
          v # w /\ writer'[v] = "appending" /\ record'[v] = record[v]
    BY <1>0, <1>2 DEF WriteType, PickFile
  <2>3. \A d \in Days : \A i \in DOMAIN files[d] : files[d][i].rec.by \in Writers
    BY <1>0, LineTyped
  <2> QED
    BY <2>1, <2>2, <2>3 DEF StoreInv, InHandLast, InHand, Half, Whole, Piece, PickFile
<1> QED
  BY <1>3, <1>4, <1>5, <1>6, <1>7 DEF StoreInv

\* The second look at the clock changes only the record's time stamp.
LEMMA StampStores ==
  ASSUME StoreInv, NEW w \in Writers, Stamp(w)
  PROVE  StoreInv'
<1>0. WriteType
  BY DEF StoreInv
<1>1. record[w] \in Records /\ record[w].by = w /\ record[w].n = count[w]
  BY DEF StoreInv, InPersist, Stamp
<1> DEFINE r == [record[w] EXCEPT !.day = today]
<1>2. r \in Records /\ r.by = w /\ r.n = count[w]
  BY <1>0, <1>1 DEF WriteType, Records
<1>3. /\ record' = [record EXCEPT ![w] = r]
      /\ writer[w] = "dated" /\ writer' = [writer EXCEPT ![w] = "stamped"]
      /\ UNCHANGED <<today, files, count, write_lock>>
  BY DEF Stamp
<1> HIDE DEF r
<1>4. WriteType'
  BY <1>0, <1>2, <1>3 DEF WriteType
<1>5. InPersist'
  BY <1>0, <1>2, <1>3 DEF StoreInv, WriteType, InPersist
<1>6. /\ \A v \in Writers :
           writer'[v] \in {"dated", "stamped"} => writer[v] \in {"dated", "stamped"}
      /\ \A v \in Writers : writer'[v] = "appending" <=> writer[v] = "appending"
      /\ \A v \in Writers : writer[v] = "appending" => record'[v] = record[v]
  BY <1>0, <1>3 DEF WriteType
<1>7. \A d \in Days : \A i \in DOMAIN files[d] : files[d][i].rec.by \in Writers
  BY <1>0, LineTyped
<1>8. FilesNamed'
  BY <1>6, <1>7 DEF StoreInv, FilesNamed, Stamp
<1>9. NoRepetition'
  BY DEF StoreInv, NoRepetition, Stamp
<1>10. InHandLast'
  BY <1>6, <1>7 DEF StoreInv, InHandLast, InHand, Half, Whole, Piece, Stamp
<1> QED
  BY <1>4, <1>5, <1>8, <1>9, <1>10 DEF StoreInv

\* A record that cannot be written leaves no trace.
LEMMA PersistFailsStores ==
  ASSUME StoreInv, NEW w \in Writers, PersistFails(w)
  PROVE  StoreInv'
<1>0. WriteType
  BY DEF StoreInv
<1>4. WriteType'
  BY <1>0 DEF WriteType, PersistFails
<1>5. InPersist'
  BY <1>0 DEF StoreInv, WriteType, InPersist, PersistFails
<1>6. /\ \A v \in Writers :
           writer'[v] \in {"dated", "stamped"} => writer[v] \in {"dated", "stamped"}
      /\ \A v \in Writers : writer'[v] = "appending" <=> writer[v] = "appending"
      /\ \A v \in Writers : writer[v] = "appending" => record'[v] = record[v]
  BY <1>0 DEF WriteType, PersistFails
<1>7. \A d \in Days : \A i \in DOMAIN files[d] : files[d][i].rec.by \in Writers
  BY <1>0, LineTyped
<1>8. FilesNamed'
  BY <1>6, <1>7 DEF StoreInv, FilesNamed, PersistFails
<1>9. NoRepetition'
  BY DEF StoreInv, NoRepetition, PersistFails
<1>10. InHandLast'
  BY <1>6, <1>7 DEF StoreInv, InHandLast, InHand, Half, Whole, Piece, PersistFails
<1> QED
  BY <1>4, <1>5, <1>8, <1>9, <1>10 DEF StoreInv

\* A record of which the rest cannot be written stays in part, and nobody has it in
\* hand.
LEMMA AppendFailsStores ==
  ASSUME StoreInv, NEW w \in Writers, AppendFails(w)
  PROVE  StoreInv'
<1>0. WriteType
  BY DEF StoreInv
<1>4. WriteType'
  BY <1>0 DEF WriteType, AppendFails
<1>5. InPersist'
  BY <1>0 DEF StoreInv, WriteType, InPersist, AppendFails
<1>6. /\ \A v \in Writers :
           writer'[v] \in {"dated", "stamped"} => writer[v] \in {"dated", "stamped"}
      /\ \A v \in Writers : writer'[v] = "appending" =>
           writer[v] = "appending" /\ record'[v] = record[v]
  BY <1>0 DEF WriteType, AppendFails
<1>7. \A d \in Days : \A i \in DOMAIN files[d] : files[d][i].rec.by \in Writers
  BY <1>0, LineTyped
<1>8. FilesNamed'
  BY <1>6, <1>7 DEF StoreInv, FilesNamed, AppendFails
<1>9. NoRepetition'
  BY DEF StoreInv, NoRepetition, AppendFails
<1>10. InHandLast'
  BY <1>6, <1>7 DEF StoreInv, InHandLast, InHand, Half, Whole, Piece, AppendFails
<1> QED
  BY <1>4, <1>5, <1>8, <1>9, <1>10 DEF StoreInv

\* The lock is free, so that nobody is at work on a record when another one begins.
LEMMA BeginStores ==
  ASSUME StoreInv, NEW w \in Writers, BeginAppend(w)
  PROVE  StoreInv'
<1> DEFINE f == record[w].file
<1>0. WriteType /\ WriteType'
  <2>1. WriteType
    BY DEF StoreInv
  <2> QED
    BY <2>1, Begins DEF WriteType, BeginAppend
<1>1. /\ record[w] \in Records /\ f \in Days /\ record[w].by = w /\ record[w].n = count[w]
      /\ files[f] \in Seq(Pieces) /\ Half(w) \in Pieces
      /\ Longer(files[f], Half(w), files'[f])
      /\ \A d \in Days : d # f => files'[d] = files[d]
  BY <1>0, Begins DEF WriteType
<1>2. /\ Len(files[f]) \in Nat /\ Len(files'[f]) = Len(files[f]) + 1
      /\ files'[f][Len(files[f]) + 1] = Half(w)
      /\ \A i \in DOMAIN files[f] : i \in DOMAIN files'[f] /\ files'[f][i] = files[f][i]
      /\ \A i \in DOMAIN files'[f] : i \in DOMAIN files[f] \/ i = Len(files[f]) + 1
  BY <1>1, AppendLine
<1> HIDE DEF f
<1>3. /\ writer[w] = "stamped" /\ write_lock = None /\ writer' = [writer EXCEPT ![w] = "appending"]
      /\ write_lock' = w /\ record' = record /\ count' = count
  BY DEF BeginAppend
<1>4. \A v \in Writers : writer[v] # "appending"
  BY <1>3 DEF StoreInv, InPersist
<1>5. InPersist'
  BY <1>0, <1>1, <1>3, <1>4 DEF StoreInv, InPersist, WriteType
<1>6. Half(w).rec = record[w] /\ Half(w).whole = FALSE
  BY DEF Half, Whole, Piece
<1>7. FilesNamed'
  <2> SUFFICES ASSUME NEW d \in Days, NEW i \in DOMAIN files'[d]
               PROVE  /\ files'[d][i].rec.file = d
                      /\ files'[d][i].rec.n <= count[files'[d][i].rec.by]
                      /\ writer'[files'[d][i].rec.by] \in {"dated", "stamped"} =>
                           files'[d][i].rec.n # count[files'[d][i].rec.by]
    BY <1>3 DEF FilesNamed
  <2>1. CASE i \in DOMAIN files[d]
    <3>1. files'[d][i] = files[d][i]
      BY <1>1, <1>2, <2>1
    <3>2. files[d][i].rec.by \in Writers
      BY <1>0, <2>1, LineTyped
    <3>3. writer'[files[d][i].rec.by] \in {"dated", "stamped"} =>
            writer[files[d][i].rec.by] \in {"dated", "stamped"}
      BY <1>0, <1>3, <3>2 DEF WriteType
    <3> QED
      BY <2>1, <3>1, <3>3 DEF StoreInv, FilesNamed
  <2>2. CASE i \notin DOMAIN files[d]
    <3>1. d = f /\ i = Len(files[f]) + 1
      BY <1>1, <1>2, <2>2
    <3>2. files'[d][i].rec = record[w]
      BY <1>2, <1>6, <3>1
    <3>3. writer'[w] = "appending" /\ count[w] \in Nat
      BY <1>0, <1>3 DEF WriteType
    <3>4. record[w].file = d /\ record[w].n = count[w] /\ record[w].by = w
      BY <1>1, <3>1 DEF f
    <3> QED
      BY <3>2, <3>3, <3>4
  <2> QED
    BY <2>1, <2>2
<1>8. NoRepetition'
  <2> SUFFICES ASSUME NEW d \in Days, NEW i \in DOMAIN files'[d], NEW j \in DOMAIN files'[d],
                      files'[d][i].rec.by = files'[d][j].rec.by,
                      files'[d][i].rec.n = files'[d][j].rec.n
               PROVE  i = j
    BY DEF NoRepetition
  <2>0. \A k \in DOMAIN files[d] :
          files'[d][k] = files[d][k] /\ ~(files[d][k].rec.by = w /\ files[d][k].rec.n = count[w])
    <3> SUFFICES ASSUME NEW k \in DOMAIN files[d]
                 PROVE  /\ files'[d][k] = files[d][k]
                        /\ ~(files[d][k].rec.by = w /\ files[d][k].rec.n = count[w])
      OBVIOUS
    <3>1. files'[d][k] = files[d][k]
      BY <1>1, <1>2
    <3>2. writer[files[d][k].rec.by] \in {"dated", "stamped"} =>
            files[d][k].rec.n # count[files[d][k].rec.by]
      BY DEF StoreInv, FilesNamed
    <3> QED
      BY <1>3, <3>1, <3>2
  <2>1. \A k \in DOMAIN files'[d] : k \notin DOMAIN files[d] =>
          k = Len(files[f]) + 1 /\ files'[d][k].rec.by = w /\ files'[d][k].rec.n = count[w]
    BY <1>1, <1>2, <1>6
  <2> QED
    BY <2>0, <2>1 DEF StoreInv, NoRepetition
<1>9. InHandLast'
  <2>1. ASSUME NEW d \in Days, NEW i \in DOMAIN files'[d],
               writer'[files'[d][i].rec.by] = "appending",
               record'[files'[d][i].rec.by] = files'[d][i].rec
        PROVE  ~files'[d][i].whole /\ i = Len(files'[d])
    <3>0. files'[d][i].rec.by \in Writers
      <4>1. files'[d] \in Seq(Pieces)
        BY <1>0 DEF WriteType
      <4>2. files'[d][i] \in Pieces
        BY <4>1, LenProperties, ElementOfSeq
      <4> QED
        BY <4>2 DEF Pieces, Records
    <3>1. i \notin DOMAIN files[d]
      <4> SUFFICES ASSUME i \in DOMAIN files[d]
                   PROVE  FALSE
        OBVIOUS
      <4>1. files'[d][i] = files[d][i]
        BY <1>1, <1>2
      <4>2. /\ writer'[files[d][i].rec.by] = "appending"
            /\ record[files[d][i].rec.by] = files[d][i].rec
        BY <1>3, <2>1, <4>1
      <4>3. files[d][i].rec.by = w
        BY <1>0, <1>3, <1>4, <3>0, <4>1, <4>2 DEF WriteType
      <4>4. files[d][i].rec.n # count[w]
        BY <1>3, <4>3 DEF StoreInv, FilesNamed
      <4> QED
        BY <1>1, <4>2, <4>3, <4>4
    <3>2. d = f /\ i = Len(files[f]) + 1
      BY <1>1, <1>2, <3>1
    <3> QED
      BY <1>2, <1>6, <3>2
  <2>2. ASSUME NEW v \in Writers, writer'[v] = "appending"
        PROVE  /\ files'[record'[v].file] # <<>>
               /\ files'[record'[v].file][Len(files'[record'[v].file])] = Half(v)'
    <3>1. v = w
      BY <1>0, <1>3, <1>4, <2>2 DEF WriteType
    <3>2. record'[v].file = f /\ Half(v)' = Half(w)
      BY <1>3, <3>1 DEF f, Half, Whole, Piece
    <3>3. files'[f] # <<>> /\ files'[f][Len(files'[f])] = Half(w)
      BY <1>1, <1>2, AppendLine
    <3> QED
      BY <3>2, <3>3
  <2> QED
    BY <2>1, <2>2 DEF InHandLast, InHand
<1> QED
  BY <1>0, <1>5, <1>7, <1>8, <1>9 DEF StoreInv

\* The line that is completed is the writer's own, because no other line began
\* since.
LEMMA EndStores ==
  ASSUME StoreInv, NEW w \in Writers, EndAppend(w)
  PROVE  StoreInv'
<1> DEFINE f == record[w].file
<1>0. WriteType /\ WriteType'
  <2>1. WriteType
    BY DEF StoreInv
  <2> QED
    BY <2>1, Ends DEF WriteType, EndAppend
<1>1. /\ record[w] \in Records /\ f \in Days /\ record[w].by = w /\ record[w].n = count[w]
      /\ files[f] \in Seq(Pieces) /\ files[f] # <<>> /\ Whole(w) \in Pieces
      /\ files[f][Len(files[f])] = Half(w)
      /\ Completed(files[f], Whole(w), files'[f])
      /\ \A d \in Days : d # f => files'[d] = files[d]
  BY <1>0, Ends DEF WriteType
<1>2. /\ Len(files'[f]) = Len(files[f]) /\ DOMAIN files'[f] = DOMAIN files[f]
      /\ files'[f][Len(files[f])] = Whole(w) /\ Len(files[f]) \in DOMAIN files[f]
      /\ \A i \in DOMAIN files[f] : i # Len(files[f]) => files'[f][i] = files[f][i]
  BY <1>1, ReplaceLast
<1>3. /\ writer[w] = "appending" /\ writer' = [writer EXCEPT ![w] = "idle"]
      /\ write_lock' = None /\ record' = [record EXCEPT ![w] = None] /\ count' = count
  BY DEF EndAppend
<1>4. /\ Whole(w).rec = record[w] /\ Whole(w).whole = TRUE
      /\ Half(w).rec = record[w] /\ Half(w).whole = FALSE
  BY DEF Whole, Half, Piece
<1>5. /\ write_lock = w
      /\ \A v \in Writers : v # w => writer[v] # "appending"
  BY <1>3 DEF StoreInv, InPersist
<1>6. /\ \A v \in Writers : writer'[v] # "appending"
      /\ \A v \in Writers : v # w => writer'[v] = writer[v] /\ record'[v] = record[v]
      /\ writer'[w] = "idle"
  BY <1>0, <1>3, <1>5 DEF WriteType
<1>7. InPersist'
  BY <1>3, <1>6 DEF StoreInv, InPersist
<1>8. \A d \in Days : DOMAIN files'[d] = DOMAIN files[d] /\ Len(files'[d]) = Len(files[d])
  BY <1>1, <1>2
<1>9. \A d \in Days : \A i \in DOMAIN files[d] : files'[d][i].rec = files[d][i].rec
  BY <1>1, <1>2, <1>4
<1> HIDE DEF f
<1>10. FilesNamed'
  <2> SUFFICES ASSUME NEW d \in Days, NEW i \in DOMAIN files[d]
               PROVE  /\ files[d][i].rec.file = d
                      /\ files[d][i].rec.n <= count[files[d][i].rec.by]
                      /\ writer'[files[d][i].rec.by] \in {"dated", "stamped"} =>
                           files[d][i].rec.n # count[files[d][i].rec.by]
    BY <1>3, <1>8, <1>9 DEF FilesNamed
  <2>1. files[d][i].rec.by \in Writers
    BY <1>0, LineTyped
  <2>2. writer'[files[d][i].rec.by] \in {"dated", "stamped"} =>
          writer[files[d][i].rec.by] \in {"dated", "stamped"}
    BY <1>6, <2>1
  <2> QED
    BY <2>2 DEF StoreInv, FilesNamed
<1>11. NoRepetition'
  BY <1>8, <1>9 DEF StoreInv, NoRepetition
<1>12. InHandLast'
  <2>1. \A d \in Days : \A i \in DOMAIN files'[d] : files'[d][i].rec.by \in Writers
    BY <1>0, <1>8, <1>9, LineTyped
  <2> QED
    BY <1>6, <2>1 DEF InHandLast, InHand
<1> QED
  BY <1>0, <1>7, <1>10, <1>11, <1>12 DEF StoreInv

\* A step of replay leaves the files alone; a step of persist, or midnight, leaves
\* replay alone, and the files only grow.
LEMMA WhoChangesWhat ==
  ASSUME StoreInv, [Next]_vars
  PROVE  /\ StoreInv'
         /\ \/ Replaying /\ UNCHANGED <<today, writeVars>>
            \/ Grows /\ UNCHANGED readVars
<1>1. CASE Midnight
  BY <1>1, MidnightStores DEF Midnight, Grows, writeVars
<1>2. CASE Replaying
  <2>1. UNCHANGED <<today, writeVars>>
    BY <1>2 DEF Replaying, Replay, ReadLine, NextFile, CannotOpen, CannotList, ReplayReturns, Answer
  <2> QED
    BY <1>2, <2>1, StoreUnchanged
<1>3. ASSUME NEW w \in Writers, Persisting(w)
      PROVE  StoreInv' /\ Grows /\ UNCHANGED readVars
  <2>1. CASE Stamp(w)
    BY <2>1, StampStores DEF Stamp, Grows
  <2>2. CASE BeginAppend(w)
    BY <2>2, BeginStores, FilesGrow DEF BeginAppend
  <2>3. CASE EndAppend(w)
    BY <2>3, EndStores, FilesGrow DEF EndAppend
  <2>4. CASE PersistFails(w)
    BY <2>4, PersistFailsStores DEF PersistFails, Grows
  <2>5. CASE AppendFails(w)
    BY <2>5, AppendFailsStores DEF AppendFails, Grows
  <2> QED
    BY <1>3, <2>1, <2>2, <2>3, <2>4, <2>5 DEF Persisting
<1>4. ASSUME NEW w \in Writers, NEW topic \in Topics, NEW mentions \in SUBSET Topics,
             PickFile(w, topic, mentions)
      PROVE  StoreInv' /\ Grows /\ UNCHANGED readVars
  BY <1>4, PickFileStores DEF PickFile, Grows
<1>5. CASE UNCHANGED vars
  BY <1>5, StoreUnchanged DEF vars, Grows, writeVars
<1> QED
  BY <1>1, <1>2, <1>3, <1>4, <1>5 DEF Next

-----------------------------------------------------------------------------
(* replay                                                                  *)

\* The parts of a record have their types.
LEMMA RecordTyped ==
  ASSUME NEW rec \in Records
  PROVE  rec.by \in Writers /\ rec.file \in Days /\ rec.file \in Nat /\ rec.n \in Nat
BY DEF Records, Days

\* The parts of a result have their types.
LEMMA ResultTyped ==
  ASSUME ReadType, NEW k \in DOMAIN results, NEW p \in results[k]
  PROVE  /\ p \in Pieces /\ p.rec \in Records /\ p.whole \in BOOLEAN
         /\ k \in 1..Len(results) /\ Len(results) \in Nat
<1>1. results \in Seq(SUBSET Pieces)
  BY DEF ReadType
<1>2. k \in 1..Len(results) /\ Len(results) \in Nat
  BY <1>1, LenProperties
<1>3. p \in Pieces
  <2>1. results[k] \in SUBSET Pieces
    BY <1>1, <1>2, ElementOfSeq
  <2> QED
    BY <2>1
<1> QED
  BY <1>2, <1>3 DEF Pieces

\* What replay is asked for, it may return.
LEMMA AskedQualifies ==
  ASSUME NEW rec \in Records, NEW q, Asked(rec, q)
  PROVE  Qualifies(rec, q)
BY DEF Asked, Qualifies, Names, Records

\* What a writer does changes nothing for a replay under way.
LEMMA GrowthHarmless ==
  ASSUME StoreInv, ReplayInv, Grows, UNCHANGED readVars
  PROVE  ReplayInv'
<1>0. /\ reader' = reader /\ query' = query /\ to_read' = to_read /\ pos' = pos
      /\ results' = results /\ before' = before
  BY DEF readVars
<1>1. ReadType' /\ IdleReader' /\ ResultsRight' /\ Over'
  BY <1>0 DEF ReplayInv, ReadType, IdleReader, ResultsRight, LineRight, InOrder, Over
<1>2. BeforeStored'
  <2> SUFFICES ASSUME NEW rec \in before
               PROVE  \E i \in DOMAIN files'[rec.file] : files'[rec.file][i] = WholeOf(rec)
    BY <1>0 DEF BeforeStored
  <2>1. rec.file \in Days
    BY RecordTyped DEF ReplayInv, ReadType
  <2>2. PICK i \in DOMAIN files[rec.file] : files[rec.file][i] = WholeOf(rec)
    BY DEF ReplayInv, BeforeStored
  <2>3. files[rec.file][i].whole
    BY <2>2 DEF WholeOf
  <2> QED
    BY <2>1, <2>2, <2>3 DEF Grows
<1>3. Complete'
  <2> SUFFICES ASSUME Len(results) < query.max_count, NEW rec \in before, Asked(rec, query)
               PROVE  \/ \E k \in DOMAIN results : WholeOf(rec) \in results[k]
                      \/ StillAhead(rec)'
    BY <1>0 DEF Complete
  <2>1. rec.file \in Days
    BY RecordTyped DEF ReplayInv, ReadType
  <2>2. CASE StillAhead(rec)
    <3>1. ASSUME Current(rec.file)
          PROVE  \E i \in DOMAIN files'[rec.file] : i > pos /\ files'[rec.file][i] = WholeOf(rec)
      <4>1. PICK i \in DOMAIN files[rec.file] : i > pos /\ files[rec.file][i] = WholeOf(rec)
        BY <2>2, <3>1 DEF StillAhead
      <4>2. files[rec.file][i].whole
        BY <4>1 DEF WholeOf
      <4> QED
        BY <2>1, <4>1, <4>2 DEF Grows
    <3> QED
      BY <1>0, <2>2, <3>1 DEF StillAhead, Current
  <2> QED
    BY <2>2 DEF ReplayInv, Complete
<1>4. ReadSoFar'
  <2> SUFFICES ASSUME NEW k \in DOMAIN results, NEW p \in results[k]
               PROVE  /\ \A e \in to_read : p.rec.file <= e
                      /\ \E i \in DOMAIN files'[p.rec.file] :
                           /\ files'[p.rec.file][i].rec = p.rec
                           /\ p.rec.file \in to_read => i <= pos
    BY <1>0 DEF ReadSoFar
  <2>1. p.rec.file \in Days
    BY ResultTyped, RecordTyped DEF ReplayInv
  <2>2. PICK i \in DOMAIN files[p.rec.file] :
               files[p.rec.file][i].rec = p.rec /\ (p.rec.file \in to_read => i <= pos)
    BY DEF ReplayInv, ReadSoFar
  <2> QED
    BY <2>1, <2>2 DEF Grows, ReplayInv, ReadSoFar
<1> QED
  BY <1>1, <1>2, <1>3, <1>4 DEF ReplayInv

\* The beginning: everything in before lies ahead.
LEMMA ReplayBegins ==
  ASSUME StoreInv, ReplayInv, NEW topic \in Topics \cup {NoFilter}, NEW since \in Days,
         NEW max_count \in MaxCounts, Replay(topic, since, max_count)
  PROVE  ReplayInv'
<1>1. /\ reader = "idle" /\ reader' = "reading" /\ pos = 0 /\ pos' = 0
      /\ results = <<>> /\ results' = <<>> /\ files' = files
      /\ query' = [topic |-> topic, since |-> since, max_count |-> max_count]
      /\ to_read' = {d \in Days : files[d] # <<>>}
      /\ before' = UNION {Stored(d) : d \in Days}
  BY DEF Replay, ReplayInv, IdleReader, writeVars
<1>2. ASSUME NEW rec \in before'
      PROVE  /\ rec \in Records /\ rec.file \in to_read'
             /\ \E i \in DOMAIN files[rec.file] : i > 0 /\ files[rec.file][i] = WholeOf(rec)
  <2>1. PICK d \in Days : rec \in Stored(d)
    BY <1>1, <1>2
  <2>2. PICK i \in DOMAIN files[d] : files[d][i].whole /\ files[d][i].rec = rec
    BY <2>1 DEF Stored
  <2>3. /\ files[d][i] \in Pieces /\ rec \in Records /\ i \in 1..Len(files[d])
        /\ files[d] \in Seq(Pieces)
    BY <2>2, LineTyped DEF StoreInv
  <2>4. rec.file = d
    BY <2>2 DEF StoreInv, FilesNamed
  <2>5. files[d][i] = WholeOf(rec)
    BY <2>2, <2>3 DEF Pieces, WholeOf
  <2>6. files[d] # <<>>
    BY <2>3, EmptySeq
  <2>7. i > 0
    BY <2>3
  <2> QED
    BY <1>1, <2>3, <2>4, <2>5, <2>6, <2>7
<1>3. ReadType'
  <2>1. query' \in [topic : Topics \cup {NoFilter}, since : Days, max_count : Nat]
    BY <1>1
  <2>2. to_read' \subseteq Days /\ before' \subseteq Records
    BY <1>1, <1>2
  <2>3. results' \in Seq(SUBSET Pieces) /\ pos' \in Nat /\ reader' \in {"idle", "reading", "done"}
    BY <1>1, EmptySeq
  <2> QED
    BY <2>1, <2>2, <2>3 DEF ReadType
<1>4. BeforeStored'
  BY <1>1, <1>2 DEF BeforeStored
<1>5. Complete'
  BY <1>1, <1>2 DEF Complete, StillAhead
<1>6. DOMAIN results' = {} /\ Len(results') = 0
  BY <1>1
<1>7. IdleReader' /\ ReadSoFar' /\ Over'
  BY <1>1, <1>6 DEF IdleReader, ReadSoFar, Over
<1>8. ResultsRight'
  <2>1. query'.max_count \in Nat
    BY <1>1
  <2> QED
    BY <1>6, <2>1 DEF ResultsRight
<1> QED
  BY <1>3, <1>4, <1>5, <1>7, <1>8 DEF ReplayInv

\* What a replay has found stays right when it goes on to the next file, as long
\* as nothing that it must find is left behind in file d.
LEMMA GoingOn ==
  ASSUME StoreInv, ReplayInv, NEW d \in Days, Current(d), Finished(d), files' = files,
         results' = results, query' = query, before' \subseteq before, GoesOn,
         \A rec \in before' : rec.file = d /\ Asked(rec, query) => ~StillAhead(rec)
  PROVE  BeforeStored' /\ Complete' /\ ReadSoFar'
<1>0. ReadType /\ BeforeStored /\ Complete /\ ReadSoFar /\ Len(results) < query.max_count
  BY DEF ReplayInv, GoesOn
<1>1. to_read' = to_read \ {d} /\ pos' = 0
  BY DEF Finished
<1>2. BeforeStored'
  BY <1>0 DEF BeforeStored
<1>3. Complete'
  <2> SUFFICES ASSUME NEW rec \in before', Asked(rec, query),
                      ~\E k \in DOMAIN results : WholeOf(rec) \in results[k]
               PROVE  StillAhead(rec)'
    BY DEF Complete
  <2>1. StillAhead(rec)
    BY <1>0 DEF Complete
  <2>2. rec.file # d /\ rec.file \in to_read'
    BY <1>1, <2>1 DEF StillAhead
  <2>3. PICK i \in DOMAIN files[rec.file] : files[rec.file][i] = WholeOf(rec)
    BY <1>0 DEF BeforeStored
  <2>4. rec.file \in Days
    BY <1>0, RecordTyped DEF ReadType
  <2>5. i > 0
    <3>1. i \in 1..Len(files[rec.file])
      BY <2>4, LineTyped DEF StoreInv
    <3> QED
      BY <3>1
  <2> QED
    BY <1>1, <2>2, <2>3, <2>5 DEF StillAhead
<1>4. ReadSoFar'
  <2> SUFFICES ASSUME NEW k \in DOMAIN results, NEW p \in results[k]
               PROVE  /\ \A e \in to_read' : p.rec.file <= e
                      /\ \E i \in DOMAIN files[p.rec.file] :
                           /\ files[p.rec.file][i].rec = p.rec
                           /\ p.rec.file \in to_read' => i <= pos'
    BY DEF ReadSoFar
  <2>1. \A e \in to_read : p.rec.file <= e
    BY <1>0 DEF ReadSoFar
  <2>2. PICK i \in DOMAIN files[p.rec.file] : files[p.rec.file][i].rec = p.rec
    BY <1>0 DEF ReadSoFar
  <2>3. p.rec.file \notin to_read'
    <3>1. p.rec.file \in Nat /\ d \in Nat
      BY <1>0, ResultTyped, RecordTyped DEF Days
    <3>2. p.rec.file <= d /\ \A e \in to_read : d <= e
      BY <2>1 DEF Current
    <3> QED
      BY <1>1, <3>1, <3>2
  <2> QED
    BY <1>1, <2>1, <2>2, <2>3
<1> QED
  BY <1>2, <1>3, <1>4

\* The remaining parts of the invariant, for the steps that add no result.
LEMMA SameResults ==
  ASSUME ReplayInv, reader = "reading", reader' = reader, query' = query, results' = results,
         to_read' \subseteq to_read, pos' \in Nat, before' \subseteq before
  PROVE  ReadType' /\ IdleReader' /\ ResultsRight' /\ Over'
<1>1. ReadType'
  BY DEF ReplayInv, ReadType
<1>2. IdleReader' /\ Over'
  BY DEF IdleReader, Over
<1>3. ResultsRight'
  BY DEF ReplayInv, ResultsRight, LineRight, InOrder
<1> QED
  BY <1>1, <1>2, <1>3

\* A file that is left has been read to its end, or is too old to qualify.
LEMMA NextFileKeeps ==
  ASSUME StoreInv, ReplayInv, NEW d \in Days, NextFile(d)
  PROVE  ReplayInv'
<1>1. /\ GoesOn /\ Current(d) /\ Finished(d) /\ (d < query.since \/ pos = Len(files[d]))
      /\ files' = files /\ reader' = reader /\ query' = query
      /\ results' = results /\ before' = before
  BY DEF NextFile, writeVars
<1>2. ASSUME NEW rec \in before', rec.file = d, Asked(rec, query)
      PROVE  ~StillAhead(rec)
  <2>1. d \in Nat /\ query.since \in Nat
    BY DEF ReplayInv, ReadType, Days
  <2>2. pos = Len(files[d])
    BY <1>1, <1>2, <2>1 DEF Asked
  <2>3. ASSUME NEW i \in DOMAIN files[d], i > pos
        PROVE  FALSE
    BY <2>2, <2>3, LineTyped DEF StoreInv
  <2> QED
    BY <1>1, <1>2, <2>3 DEF StillAhead
<1>3. BeforeStored' /\ Complete' /\ ReadSoFar'
  BY <1>1, <1>2, GoingOn
<1>4. to_read' \subseteq to_read /\ pos' \in Nat /\ reader = "reading"
  BY <1>1 DEF Finished, GoesOn
<1> QED
  BY <1>1, <1>3, <1>4, SameResults DEF ReplayInv

\* A file that cannot be opened owes the replay nothing.
LEMMA CannotOpenKeeps ==
  ASSUME StoreInv, ReplayInv, NEW d \in Days, CannotOpen(d)
  PROVE  ReplayInv'
<1>1. /\ GoesOn /\ Current(d) /\ Finished(d)
      /\ files' = files /\ reader' = reader /\ query' = query
      /\ results' = results /\ before' = {rec \in before : rec.file # d}
  BY DEF CannotOpen, writeVars
<1>3. BeforeStored' /\ Complete' /\ ReadSoFar'
  BY <1>1, GoingOn
<1>4. to_read' \subseteq to_read /\ pos' \in Nat /\ reader = "reading"
  BY <1>1 DEF Finished, GoesOn
<1> QED
  BY <1>1, <1>3, <1>4, SameResults DEF ReplayInv

\* The records of the line that is read are new ones, of the file at hand; only the
\* last can be whole, and the others were not on disk when the replay began.
LEMMA LineIsNew ==
  ASSUME StoreInv, ReplayInv, NEW d \in Days, Current(d), NEW k \in (pos + 1)..Len(files[d]),
         LineEnds(d, k), NEW p \in LineTo(d, k)
  PROVE  /\ p \in Pieces /\ p.rec \in Records /\ p.rec.file = d
         /\ \E i \in DOMAIN files[d] : files[d][i] = p /\ i <= k
         /\ \A j \in DOMAIN results : \A q \in results[j] :
              q.rec # p.rec /\ q.rec.file <= p.rec.file
         /\ p.whole => p = files[d][k]
         /\ ~p.whole => p.rec \notin before
<1>0. ReadType /\ WriteType /\ pos \in Nat
  BY DEF StoreInv, ReplayInv, ReadType
<1>1. DOMAIN files[d] = 1..Len(files[d]) /\ Len(files[d]) \in Nat
  <2>1. files[d] \in Seq(Pieces)
    BY <1>0 DEF WriteType
  <2> QED
    BY <2>1, LenProperties
<1>2. PICK n \in (pos + 1)..k : p = files[d][n]
  BY DEF LineTo
<1>3. n \in DOMAIN files[d] /\ n > pos /\ n <= k /\ n \in Nat /\ k \in Nat
  BY <1>0, <1>1, <1>2
<1>4. p \in Pieces /\ p.rec \in Records
  BY <1>0, <1>2, <1>3, LineTyped
<1>5. p.rec.file = d
  BY <1>2, <1>3 DEF StoreInv, FilesNamed
<1>6. ASSUME NEW j \in DOMAIN files[d], files[d][j].rec = p.rec
      PROVE  j = n
  BY <1>2, <1>3, <1>6 DEF StoreInv, NoRepetition
<1>7. ASSUME NEW j \in DOMAIN results, NEW q \in results[j]
      PROVE  q.rec # p.rec /\ q.rec.file <= p.rec.file
  <2>1. q.rec.file <= d
    BY DEF ReplayInv, ReadSoFar, Current
  <2>2. ASSUME q.rec = p.rec
        PROVE  FALSE
    <3>1. PICK i \in DOMAIN files[q.rec.file] :
                 files[q.rec.file][i].rec = q.rec /\ (q.rec.file \in to_read => i <= pos)
      BY DEF ReplayInv, ReadSoFar
    <3>2. q.rec.file = d /\ d \in to_read
      BY <1>5, <2>2 DEF Current
    <3>3. i \in DOMAIN files[d] /\ files[d][i].rec = p.rec /\ i <= pos
      BY <2>2, <3>1, <3>2
    <3>4. i = n
      BY <1>6, <3>3
    <3> QED
      BY <1>0, <1>3, <3>3, <3>4
  <2> QED
    BY <1>5, <2>1, <2>2
<1>8. ASSUME p.whole
      PROVE  p = files[d][k]
  <2>1. ~(n \in (pos + 1)..(k - 1))
    BY <1>2, <1>8 DEF LineEnds
  <2>2. n = k
    BY <1>0, <1>3, <2>1
  <2> QED
    BY <1>2, <2>2
<1>9. ASSUME ~p.whole, p.rec \in before
      PROVE  FALSE
  <2>1. PICK i \in DOMAIN files[d] : files[d][i] = WholeOf(p.rec)
    BY <1>5, <1>9 DEF ReplayInv, BeforeStored
  <2>2. files[d][i].rec = p.rec /\ files[d][i].whole
    BY <2>1 DEF WholeOf
  <2>3. i = n
    BY <1>6, <2>2
  <2> QED
    BY <1>2, <1>9, <2>2, <2>3
<1> QED
  BY <1>2, <1>3, <1>4, <1>5, <1>7, <1>8, <1>9

\* A line that is read goes to the end of the results if its topic is found.
LEMMA ReadLineKeeps ==
  ASSUME StoreInv, ReplayInv, NEW d \in Days, ReadLine(d)
  PROVE  ReplayInv'
<1>0. ReadType /\ WriteType /\ ReadSoFar /\ ResultsRight /\ Complete /\ BeforeStored
  BY DEF StoreInv, ReplayInv
<1>1. /\ reader = "reading" /\ Len(results) < query.max_count /\ Current(d)
      /\ d >= query.since
      /\ files' = files /\ reader' = reader /\ query' = query /\ before' = before
  BY DEF ReadLine, GoesOn, writeVars
<1>2. PICK k \in (pos + 1)..Len(files[d]) :
             /\ LineEnds(d, k)
             /\ \/ MayShow(LineTo(d, k), query.topic) /\ results' = Append(results, LineTo(d, k))
                \/ ~Shows(LineTo(d, k), query.topic) /\ results' = results
             /\ \/ files[d][k].whole /\ pos' = k /\ to_read' = to_read
                \/ ~files[d][k].whole /\ Finished(d)
  BY DEF ReadLine
<1> DEFINE line == LineTo(d, k)
           last == files[d][k]
<1>3. /\ pos \in Nat /\ Len(files[d]) \in Nat /\ k \in Nat /\ k > pos /\ d \in Nat
      /\ k \in DOMAIN files[d] /\ DOMAIN files[d] = 1..Len(files[d])
  <2>1. files[d] \in Seq(Pieces) /\ pos \in Nat
    BY <1>0 DEF WriteType, ReadType
  <2>2. DOMAIN files[d] = 1..Len(files[d]) /\ Len(files[d]) \in Nat
    BY <2>1, LenProperties
  <2> QED
    BY <1>2, <2>1, <2>2 DEF Days
<1>4. /\ last \in line
      /\ \A p \in line :
           /\ p \in Pieces /\ p.rec \in Records /\ p.rec.file = d
           /\ \E i \in DOMAIN files[d] : files[d][i] = p /\ i <= k
           /\ \A j \in DOMAIN results : \A q \in results[j] :
                q.rec # p.rec /\ q.rec.file <= p.rec.file
           /\ p.whole => p = last
           /\ ~p.whole => p.rec \notin before
      /\ ~last.whole => k = Len(files[d])
  <2>1. last \in line
    BY <1>3 DEF LineTo
  <2>2. ~last.whole => k = Len(files[d])
    BY <1>2 DEF LineEnds
  <2> QED
    BY <1>1, <1>2, <2>1, <2>2, LineIsNew
<1>5. /\ results' = Append(results, line) \/ (~Shows(line, query.topic) /\ results' = results)
      /\ results' = Append(results, line) \/ results' = results
      /\ \/ last.whole /\ pos' = k /\ to_read' = to_read
         \/ ~last.whole /\ to_read' = to_read \ {d} /\ pos' = 0
  BY <1>2 DEF Finished
<1>6. results' # results => LineRight(line, query, before)
  <2> SUFFICES ASSUME results' # results
               PROVE  \E p \in line : Qualifies(p.rec, query)
    BY <1>4 DEF LineRight
  <2>1. MayShow(line, query.topic)
    BY <1>2
  <2>2. PICK p \in line : query.topic = NoFilter \/ Names(p.rec, query.topic)
    BY <1>4, <2>1 DEF MayShow
  <2> QED
    BY <1>1, <1>4, <2>2 DEF Qualifies
<1>7. ASSUME last.whole, Asked(last.rec, query)
      PROVE  results' = Append(results, line) /\ WholeOf(last.rec) \in line
  <2>1. last \in Pieces /\ last.rec \in Records
    BY <1>4
  <2>2. last = WholeOf(last.rec)
    BY <1>7, <2>1 DEF Pieces, WholeOf
  <2>3. Shows(line, query.topic)
    BY <1>4, <1>7, <2>1, AskedQualifies DEF Shows, Qualifies
  <2> QED
    BY <1>4, <1>5, <2>2, <2>3
<1>8. results \in Seq(SUBSET Pieces) /\ query.max_count \in Nat /\ Len(results) \in Nat
  BY <1>0, LenProperties DEF ReadType
<1>9. line \in SUBSET Pieces
  BY <1>4
<1> HIDE DEF line, last
<1>10. /\ results' \in Seq(SUBSET Pieces) /\ Len(results') <= query.max_count
       /\ \A i \in DOMAIN results : i \in DOMAIN results' /\ results'[i] = results[i]
       /\ \A i \in DOMAIN results' : i \notin DOMAIN results =>
            results' # results /\ i = Len(results) + 1 /\ results'[i] = line
       /\ results' = Append(results, line) => \E i \in DOMAIN results' : results'[i] = line
  <2>1. CASE results' = Append(results, line)
    <3> DEFINE Lines == SUBSET Pieces
    <3>0. results \in Seq(Lines) /\ line \in Lines
      BY <1>8, <1>9
    <3>1. Longer(results, line, results')
      BY <2>1 DEF Longer
    <3> HIDE DEF Lines
    <3>2. /\ results' \in Seq(Lines) /\ Len(results') = Len(results) + 1
          /\ results'[Len(results) + 1] = line /\ Len(results) + 1 \in DOMAIN results'
          /\ \A i \in DOMAIN results : i \in DOMAIN results' /\ results'[i] = results[i]
          /\ \A i \in DOMAIN results' : i \in DOMAIN results \/ i = Len(results) + 1
      BY <3>0, <3>1, AppendLine
    <3>3. results' # results
      BY <1>8, <3>2
    <3>4. results' \in Seq(SUBSET Pieces)
      BY <3>2 DEF Lines
    <3> QED
      BY <1>1, <1>8, <2>1, <3>2, <3>3, <3>4
  <2>2. CASE results' = results /\ results' # Append(results, line)
    BY <1>1, <1>8, <2>2
  <2> QED
    BY <1>5, <2>1, <2>2
<1>11. ReadType'
  <2>1. pos' \in Nat /\ to_read' \subseteq to_read
    BY <1>3, <1>5
  <2> QED
    BY <1>0, <1>1, <1>10, <2>1 DEF ReadType
<1>12. IdleReader' /\ Over' /\ BeforeStored'
  BY <1>0, <1>1 DEF IdleReader, Over, BeforeStored
<1>13. ResultsRight'
  <2>1. ASSUME NEW i \in DOMAIN results'
        PROVE  LineRight(results'[i], query, before)
    BY <1>0, <1>6, <1>10 DEF ResultsRight
  <2>2. ASSUME NEW i \in DOMAIN results', NEW j \in DOMAIN results', i < j
        PROVE  InOrder(results'[i], results'[j])
    <3>0. /\ DOMAIN results = 1..Len(results) /\ DOMAIN results' = 1..Len(results')
          /\ Len(results') \in Nat
      BY <1>8, <1>10, LenProperties
    <3>1. i \in DOMAIN results
      <4>1. i \notin DOMAIN results => i = Len(results) + 1
        BY <1>10, <2>2
      <4>2. j \in 1..Len(results) \/ j = Len(results) + 1
        BY <1>10, <2>2, <3>0
      <4>3. i # Len(results) + 1
        BY <1>8, <2>2, <3>0, <4>2
      <4> QED
        BY <4>1, <4>3
    <3>2. results'[i] = results[i]
      BY <1>10, <3>1
    <3>3. CASE j \in DOMAIN results
      <4>1. results'[j] = results[j]
        BY <1>10, <3>3
      <4> QED
        BY <1>0, <2>2, <3>1, <3>2, <3>3, <4>1 DEF ResultsRight
    <3>4. CASE j \notin DOMAIN results
      <4>1. results'[j] = line
        BY <1>10, <2>2, <3>4
      <4> QED
        BY <1>4, <3>1, <3>2, <4>1 DEF InOrder
    <3> QED
      BY <3>3, <3>4
  <2> QED
    BY <1>1, <1>10, <2>1, <2>2 DEF ResultsRight
<1>14. Complete'
  <2> SUFFICES ASSUME NEW rec \in before, Asked(rec, query),
                      ~\E i \in DOMAIN results' : WholeOf(rec) \in results'[i]
               PROVE  StillAhead(rec)'
    BY <1>1 DEF Complete
  <2>1. StillAhead(rec)
    <3>1. ~\E i \in DOMAIN results : WholeOf(rec) \in results[i]
      BY <1>10
    <3> QED
      BY <1>0, <1>1, <3>1 DEF Complete
  <2>2. last # WholeOf(rec)
    <3> SUFFICES ASSUME last = WholeOf(rec)
                 PROVE  FALSE
      OBVIOUS
    <3>1. last.whole /\ last.rec = rec
      BY DEF WholeOf
    <3> QED
      BY <1>7, <1>10, <3>1
  <2>3. rec \in Records /\ rec.file \in Days /\ rec.file \in Nat
    BY <1>0, RecordTyped DEF ReadType
  <2>4. ASSUME rec.file = d
        PROVE  \E i \in DOMAIN files[d] : i > k /\ files[d][i] = WholeOf(rec)
    <3>1. PICK i \in DOMAIN files[d] : i > pos /\ files[d][i] = WholeOf(rec)
      BY <1>1, <2>1, <2>4 DEF StillAhead
    <3>2. i # k
      BY <2>2, <3>1 DEF last
    <3>3. ~(i \in (pos + 1)..(k - 1))
      <4>1. files[d][i].whole
        BY <3>1 DEF WholeOf
      <4> QED
        BY <1>2, <4>1 DEF LineEnds
    <3>4. i \in Nat
      BY <1>3
    <3> QED
      BY <1>3, <3>1, <3>2, <3>3, <3>4
  <2>5. CASE last.whole
    <3>1. pos' = k /\ to_read' = to_read
      BY <1>5, <2>5
    <3>2. ASSUME Current(rec.file)
          PROVE  rec.file = d
      <4>1. d <= rec.file /\ rec.file <= d
        BY <1>1, <3>2 DEF Current
      <4> QED
        BY <1>3, <2>3, <4>1
    <3>3. Current(rec.file)' <=> Current(rec.file)
      BY <3>1 DEF Current
    <3>4. Current(rec.file)' =>
            \E i \in DOMAIN files'[rec.file] : i > pos' /\ files'[rec.file][i] = WholeOf(rec)
      BY <1>1, <2>4, <3>1, <3>2, <3>3
    <3> QED
      BY <2>1, <3>1, <3>4 DEF StillAhead
  <2>6. CASE ~last.whole
    <3>1. pos' = 0 /\ to_read' = to_read \ {d} /\ k = Len(files[d])
      BY <1>4, <1>5, <2>6
    <3>2. rec.file # d
      <4> SUFFICES ASSUME rec.file = d
                   PROVE  FALSE
        OBVIOUS
      <4>1. PICK i \in DOMAIN files[d] : i > k
        BY <2>4
      <4> QED
        BY <1>3, <3>1, <4>1
    <3>3. PICK i \in DOMAIN files[rec.file] : files[rec.file][i] = WholeOf(rec)
      BY <1>0 DEF BeforeStored
    <3>4. i > 0
      <4>1. i \in 1..Len(files[rec.file]) /\ Len(files[rec.file]) \in Nat
        BY <1>0, <2>3, LineTyped
      <4> QED
        BY <4>1
    <3> QED
      BY <1>1, <2>1, <3>1, <3>2, <3>3, <3>4 DEF StillAhead
  <2> QED
    BY <2>5, <2>6
<1>15. ReadSoFar'
  <2> SUFFICES ASSUME NEW j \in DOMAIN results', NEW p \in results'[j]
               PROVE  /\ \A e \in to_read' : p.rec.file <= e
                      /\ \E i \in DOMAIN files[p.rec.file] :
                           /\ files[p.rec.file][i].rec = p.rec
                           /\ p.rec.file \in to_read' => i <= pos'
    BY <1>1 DEF ReadSoFar
  <2>0. to_read' \subseteq to_read
    BY <1>5
  <2>1. CASE j \in DOMAIN results
    <3>0. p \in results[j]
      BY <1>10, <2>1
    <3>1. p.rec.file \in Nat /\ p.rec.file \in Days
      BY <1>0, <2>1, <3>0, ResultTyped, RecordTyped
    <3>2. \A e \in to_read : p.rec.file <= e
      BY <1>0, <2>1, <3>0 DEF ReadSoFar
    <3>3. PICK i \in DOMAIN files[p.rec.file] :
                 files[p.rec.file][i].rec = p.rec /\ (p.rec.file \in to_read => i <= pos)
      BY <1>0, <2>1, <3>0 DEF ReadSoFar
    <3>4. i \in Nat
      BY <1>0, <3>1, LineTyped
    <3>5. p.rec.file \in to_read' => i <= pos'
      <4>1. CASE last.whole
        BY <1>3, <1>5, <3>3, <3>4, <4>1
      <4>2. CASE ~last.whole
        <5>1. p.rec.file <= d /\ \A e \in to_read : d <= e
          BY <1>1, <3>2 DEF Current
        <5>2. to_read' = to_read \ {d}
          BY <1>5, <4>2
        <5> QED
          BY <1>3, <3>1, <5>1, <5>2
      <4> QED
        BY <4>1, <4>2
    <3> QED
      BY <2>0, <3>2, <3>3, <3>5
  <2>2. CASE j \notin DOMAIN results
    <3>1. p \in line
      BY <1>10, <2>2
    <3>2. p.rec.file = d
      BY <1>4, <3>1
    <3>3. \A e \in to_read' : d <= e
      BY <1>1, <2>0 DEF Current
    <3>4. PICK i \in DOMAIN files[d] : files[d][i] = p /\ i <= k
      BY <1>4, <3>1
    <3>5. d \in to_read' => pos' = k
      BY <1>5
    <3> QED
      BY <3>2, <3>3, <3>4, <3>5
  <2> QED
    BY <2>1, <2>2
<1> QED
  BY <1>11, <1>12, <1>13, <1>14, <1>15 DEF ReplayInv

\* No step of a replay breaks the invariant.
LEMMA ReplayingKeeps ==
  ASSUME StoreInv, ReplayInv, Replaying, UNCHANGED <<today, writeVars>>
  PROVE  ReplayInv'
<1>0. files' = files
  BY DEF writeVars
<1>1. ASSUME NEW topic \in Topics \cup {NoFilter}, NEW since \in Days,
             NEW max_count \in MaxCounts, Replay(topic, since, max_count)
      PROVE  ReplayInv'
  BY <1>1, ReplayBegins
<1>2. ASSUME NEW d \in Days, ReadLine(d) \/ NextFile(d) \/ CannotOpen(d)
      PROVE  ReplayInv'
  BY <1>2, ReadLineKeeps, NextFileKeeps, CannotOpenKeeps
<1>3. CASE CannotList \/ ReplayReturns
  <2>1. /\ query' = query /\ to_read' = to_read /\ pos' = pos /\ results' = results
        /\ before' = before /\ reader' = "done"
        /\ to_read = {} \/ Len(results) >= query.max_count
    BY <1>3 DEF CannotList, ReplayReturns, ReplayInv, IdleReader
  <2>2. ReadType' /\ IdleReader' /\ Over'
    BY <2>1 DEF ReplayInv, ReadType, IdleReader, Over
  <2>3. BeforeStored' /\ Complete' /\ ReadSoFar' /\ ResultsRight'
    BY <1>0, <2>1 DEF ReplayInv, BeforeStored, Complete, StillAhead, Current, ReadSoFar,
       ResultsRight, LineRight, InOrder
  <2> QED
    BY <2>2, <2>3 DEF ReplayInv
<1>4. CASE Answer
  <2>1. /\ reader' = "idle" /\ query' = NoQuery /\ to_read' = {} /\ pos' = 0
        /\ results' = <<>> /\ before' = {}
    BY <1>4 DEF Answer
  <2>2. NoQuery \in [topic : Topics \cup {NoFilter}, since : Days, max_count : Nat]
    BY DEF NoQuery, Days
  <2>3. results' \in Seq(SUBSET Pieces) /\ DOMAIN results' = {} /\ Len(results') = 0
    BY <2>1
  <2>4. ReadType'
    BY <2>1, <2>2, <2>3 DEF ReadType
  <2>5. query'.max_count \in Nat
    BY <2>1, <2>2
  <2>6. IdleReader' /\ Over' /\ BeforeStored' /\ Complete' /\ ReadSoFar'
    BY <2>1, <2>3 DEF IdleReader, Over, BeforeStored, Complete, ReadSoFar
  <2>7. ResultsRight'
    BY <2>3, <2>5 DEF ResultsRight
  <2> QED
    BY <2>4, <2>6, <2>7 DEF ReplayInv
<1> QED
  BY <1>1, <1>2, <1>3, <1>4 DEF Replaying

-----------------------------------------------------------------------------
(* The theorems                                                            *)

\* The empty store satisfies the invariant ...
LEMMA InitHolds == Init => IInv
<1> SUFFICES ASSUME Init
             PROVE  IInv
  OBVIOUS
<1>1. WriteType
  BY DEF Init, WriteType, Days
<1>2. \A d \in Days : DOMAIN files[d] = {}
  BY DEF Init
<1>3. InPersist
  BY DEF Init, InPersist
<1>4. FilesNamed /\ NoRepetition /\ InHandLast
  BY <1>2 DEF Init, FilesNamed, NoRepetition, InHandLast
<1>5. NoQuery \in [topic : Topics \cup {NoFilter}, since : Days, max_count : Nat]
      /\ NoQuery.max_count = 0
  BY DEF NoQuery, Days
<1>6. results \in Seq(SUBSET Pieces) /\ DOMAIN results = {} /\ Len(results) = 0
  BY DEF Init
<1>7. ReadType
  BY <1>5, <1>6 DEF Init, ReadType
<1>8. IdleReader /\ Over /\ BeforeStored /\ Complete /\ ReadSoFar
  BY <1>6 DEF Init, IdleReader, Over, BeforeStored, Complete, ReadSoFar
<1>9. ResultsRight
  BY <1>5, <1>6 DEF Init, ResultsRight
<1> QED
  BY <1>1, <1>3, <1>4, <1>7, <1>8, <1>9 DEF IInv, StoreInv, ReplayInv

\* ... every step keeps it ...
LEMMA NextHolds == IInv /\ [Next]_vars => IInv'
BY WhoChangesWhat, GrowthHarmless, ReplayingKeeps DEF IInv

\* ... so it always holds.
LEMMA IInvAlways == Spec => []IInv
BY InitHolds, NextHolds, PTL DEF Spec

\* replay takes no lock, and yet what it returns while both writers append, or fail in
\* the middle, holds every record that was on disk and asked for, each once, in the
\* order of the files; a record cut short was not on disk when the replay began
\* (dead_letter_store.cpp, replay and persist).
THEOREM ReplayIsExact == Spec => []ReplayExact
<1>1. IInv => ReplayExact
  <2> SUFFICES ASSUME IInv, reader = "done"
               PROVE  ReplayExact
    BY DEF ReplayExact
  <2>1. ResultsRight /\ Complete /\ ReadType
    BY DEF IInv, ReplayInv
  <2>2. Len(results) \in Nat /\ query.max_count \in Nat /\ Len(results) <= query.max_count
    BY <2>1, LenProperties DEF ReadType, ResultsRight
  <2>3. ASSUME NEW rec \in before, Len(results) # query.max_count, Asked(rec, query)
        PROVE  \E i \in DOMAIN results : WholeOf(rec) \in results[i]
    <3>1. to_read = {}
      BY <2>2, <2>3 DEF IInv, ReplayInv, Over
    <3> QED
      BY <2>1, <2>2, <2>3, <3>1 DEF Complete, StillAhead
  <2> QED
    BY <2>1, <2>3 DEF ReplayExact, ResultsRight, LineRight, InOrder, WholeOf
<1> QED
  BY <1>1, IInvAlways, PTL

\* What is stored stays stored: persist never changes or moves a record, and one that
\* is whole, or that its writer gave up, never changes, whichever writers are at work
\* (dead_letter_store.cpp, persist).
THEOREM FilesOnlyGrow == Spec => [][Grows]_files
<1>1. IInv /\ [Next]_vars => [Grows]_files
  BY WhoChangesWhat DEF IInv, writeVars
<1> QED
  BY <1>1, IInvAlways, PTL DEF Spec

\* Writers that append, and fail, leave the files in order: a record is in the file of
\* the day on which persist was called, once, and the one that a writer is at work on
\* is the last of its file, so that the rest of it cannot get into another one
\* (dead_letter_store.cpp, persist).
THEOREM FilesInOrder == Spec => [](FilesNamed /\ NoRepetition /\ InHandLast)
<1>1. IInv => FilesNamed /\ NoRepetition /\ InHandLast
  BY DEF IInv, StoreInv
<1> QED
  BY <1>1, IInvAlways, PTL
=============================================================================
