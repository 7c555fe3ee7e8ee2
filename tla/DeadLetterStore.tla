--------------------------- MODULE DeadLetterStore ---------------------------
(***************************************************************************)
(* The dead-letter store of the C++ engine (dead_letter_store.cpp), to     *)
(* which the job router and the event egress worker write and from which   *)
(* the admin worker reads.                                                 *)
(*                                                                         *)
(* persist picks the file by today's date, stamps the record, and appends  *)
(* it under _write_lock; a long record reaches the file in two parts, and  *)
(* the second one may fail.  The newline comes last: what follows a record *)
(* that was cut short is on the same line.  replay takes no lock and reads *)
(* line by line, while the files grow.  Time is the date; midnight may     *)
(* strike anywhere.                                                        *)
(***************************************************************************)
EXTENDS Naturals, Sequences

CONSTANTS
  Writers,      \* the job router and the egress worker
  Topics,       \* their topics, and what replay is asked for
  Escape,       \* the text that JSON writes for a topic: most, but not all, as they are
  LastDay,      \* bound: midnights
  MaxRecords,   \* bound: records a writer persists
  MaxCounts,    \* values of replay's max_count
  NoFilter, None

ASSUME StoreAssumption ==
  /\ LastDay \in Nat \ {0} /\ MaxRecords \in Nat /\ MaxCounts \subseteq Nat
  /\ NoFilter \notin Topics /\ None \notin Writers

Days == 1..LastDay

VARIABLES
  today,
  files,       \* the .jsonl files, by date: records, whole or cut short
  writer,      \* where a thread is in persist
  record,      \* the record it builds, with the file it goes to
  count,       \* calls of persist so far
  write_lock,  \* who holds _write_lock
  \* replay
  reader,      \* whether a replay is under way
  query,       \* its arguments
  to_read,     \* files it has yet to finish
  pos,         \* records it has read of the first of them
  results,     \* lines found so far; a line is the set of the records in it
  before       \* the records on disk when it began, of files it could open

writeVars == <<files, writer, record, count, write_lock>>
readVars == <<reader, query, to_read, pos, results, before>>
vars == <<today, writeVars, readVars>>

NoQuery == [topic |-> NoFilter, since |-> 1, max_count |-> 0]

Init ==
  /\ today = 1
  /\ files = [d \in Days |-> <<>>]
  /\ writer = [w \in Writers |-> "idle"]
  /\ record = [w \in Writers |-> None]
  /\ count = [w \in Writers |-> 0]
  /\ write_lock = None
  /\ reader = "idle" /\ query = NoQuery
  /\ to_read = {} /\ pos = 0 /\ results = <<>> /\ before = {}

Midnight ==
  /\ today < LastDay
  /\ today' = today + 1
  /\ UNCHANGED <<writeVars, readVars>>

-----------------------------------------------------------------------------
(* persist                                                                 *)

\* today_str names the file.  The message is part of the record; of it, only the
\* topics that its payload mentions under the key "topic" matter to replay.
PickFile(w, topic, mentions) ==
  /\ writer[w] = "idle" /\ count[w] < MaxRecords
  /\ count' = [count EXCEPT ![w] = @ + 1]
  /\ record' = [record EXCEPT ![w] = [by |-> w, n |-> count[w] + 1, file |-> today, day |-> today,
                                      topic |-> topic, mentions |-> mentions]]
  /\ writer' = [writer EXCEPT ![w] = "dated"]
  /\ UNCHANGED <<today, files, write_lock, readVars>>

\* A second look at the clock, for the time stamp in the record.
Stamp(w) ==
  /\ writer[w] = "dated"
  /\ record' = [record EXCEPT ![w].day = today]
  /\ writer' = [writer EXCEPT ![w] = "stamped"]
  /\ UNCHANGED <<today, files, count, write_lock, readVars>>

\* A whole record ends with a newline, a part of one does not.
Piece(w, all) == [rec |-> record[w], whole |-> all]

\* The first part of the record reaches the file.
BeginAppend(w) ==
  /\ writer[w] = "stamped" /\ write_lock = None
  /\ write_lock' = w
  /\ files' = [files EXCEPT ![record[w].file] = Append(@, Piece(w, FALSE))]
  /\ writer' = [writer EXCEPT ![w] = "appending"]
  /\ UNCHANGED <<today, record, count, readVars>>

\* The rest follows at the end of the file.
EndAppend(w) ==
  /\ writer[w] = "appending"
  /\ files' = [files EXCEPT ![record[w].file] = [@ EXCEPT ![Len(@)] = Piece(w, TRUE)]]
  /\ write_lock' = None
  /\ record' = [record EXCEPT ![w] = None]
  /\ writer' = [writer EXCEPT ![w] = "idle"]
  /\ UNCHANGED <<today, count, readVars>>

\* The rest cannot be written (the disk is full): nobody looks at the stream, and
\* the part stays in the file.  After a crash in the middle of persist the files are
\* the same.
AppendFails(w) ==
  /\ writer[w] = "appending"
  /\ write_lock' = None
  /\ record' = [record EXCEPT ![w] = None]
  /\ writer' = [writer EXCEPT ![w] = "idle"]
  /\ UNCHANGED <<today, files, count, readVars>>

\* The directory or the file cannot be written: a line on standard error.
PersistFails(w) ==
  /\ writer[w] = "stamped" /\ write_lock = None
  /\ record' = [record EXCEPT ![w] = None]
  /\ writer' = [writer EXCEPT ![w] = "idle"]
  /\ UNCHANGED <<today, files, count, write_lock, readVars>>

-----------------------------------------------------------------------------
(* replay                                                                  *)

\* The topic filter looks for "topic": "..." anywhere in the line, and does not
\* escape what it looks for: it finds a topic whose text in JSON is the one asked
\* for, and the payload, too, may have a key of this name.  (A filter with quotes
\* that spans two fields of the line is left out.)
Names(rec, topic) == \E t \in rec.mentions \cup {rec.topic} : Escape[t] = topic

\* A line with part of a record may or may not have the topic in that part.
MayShow(line, topic) == topic = NoFilter \/ \E p \in line : Names(p.rec, topic)
Shows(line, topic) == topic = NoFilter \/ \E p \in line : p.whole /\ Names(p.rec, topic)

\* The records that are in file d as a whole.
Stored(d) == {files[d][i].rec : i \in {i \in DOMAIN files[d] : files[d][i].whole}}

Replay(topic, since, max_count) ==
  /\ reader = "idle"
  /\ query' = [topic |-> topic, since |-> since, max_count |-> max_count]
  /\ to_read' = {d \in Days : files[d] # <<>>}
  /\ before' = UNION {Stored(d) : d \in Days}
  /\ reader' = "reading"
  /\ UNCHANGED <<today, writeVars, pos, results>>

\* The directory cannot be listed: replay returns nothing.
CannotList ==
  /\ reader = "idle"
  /\ reader' = "done"
  /\ UNCHANGED <<today, writeVars, query, to_read, pos, results, before>>

\* Mutant of Current: the directory's own order.
CurrentAsListed(d) == d \in to_read /\ \A e \in to_read : d >= e

\* The files are sorted by name.
Current(d) == d \in to_read /\ \A e \in to_read : d <= e

GoesOn == reader = "reading" /\ Len(results) < query.max_count

Finished(d) == to_read' = to_read \ {d} /\ pos' = 0

\* A line goes to the end of the first whole record, or of the file.  A line that
\* ends with the file leaves the stream at its end, and what is appended later
\* stays unread.
LineEnds(d, k) ==
  /\ files[d][k].whole \/ k = Len(files[d])
  /\ \A i \in (pos + 1)..(k - 1) : ~files[d][i].whole

LineTo(d, k) == {files[d][i] : i \in (pos + 1)..k}

ReadLine(d) ==
  /\ GoesOn /\ Current(d) /\ d >= query.since
  /\ \E k \in (pos + 1)..Len(files[d]) :
       /\ LineEnds(d, k)
       /\ \/ MayShow(LineTo(d, k), query.topic) /\ results' = Append(results, LineTo(d, k))
          \/ ~Shows(LineTo(d, k), query.topic) /\ results' = results
       /\ \/ files[d][k].whole /\ pos' = k /\ to_read' = to_read
          \/ ~files[d][k].whole /\ Finished(d)
  /\ UNCHANGED <<today, writeVars, reader, query, before>>

\* A file that is too old, or of which all lines are read.
NextFile(d) ==
  /\ GoesOn /\ Current(d) /\ (d < query.since \/ pos = Len(files[d]))
  /\ Finished(d)
  /\ UNCHANGED <<today, writeVars, reader, query, results, before>>

\* A file that cannot be opened is passed over.
CannotOpen(d) ==
  /\ GoesOn /\ Current(d) /\ d >= query.since /\ pos = 0
  /\ Finished(d)
  /\ before' = {rec \in before : rec.file # d}
  /\ UNCHANGED <<today, writeVars, reader, query, results>>

ReplayReturns ==
  /\ reader = "reading" /\ (to_read = {} \/ Len(results) >= query.max_count)
  /\ reader' = "done"
  /\ UNCHANGED <<today, writeVars, query, to_read, pos, results, before>>

\* The admin worker sends what replay returned.
Answer ==
  /\ reader = "done"
  /\ reader' = "idle"
  /\ query' = NoQuery /\ to_read' = {} /\ pos' = 0 /\ results' = <<>> /\ before' = {}
  /\ UNCHANGED <<today, writeVars>>

-----------------------------------------------------------------------------
Persisting(w) ==
  Stamp(w) \/ BeginAppend(w) \/ EndAppend(w) \/ AppendFails(w) \/ PersistFails(w)

Replaying ==
  \/ \E topic \in Topics \cup {NoFilter}, since \in Days, max_count \in MaxCounts :
       Replay(topic, since, max_count)
  \/ \E d \in Days : ReadLine(d) \/ NextFile(d) \/ CannotOpen(d)
  \/ CannotList \/ ReplayReturns \/ Answer

Next ==
  \/ Midnight
  \/ \E w \in Writers :
       \/ Persisting(w)
       \/ \E topic \in Topics, mentions \in SUBSET Topics : PickFile(w, topic, mentions)
  \/ Replaying

Spec == Init /\ [][Next]_vars

-----------------------------------------------------------------------------
(* Properties                                                              *)

\* A record that replay is asked for: of a day that is not too old, and of the topic
\* in question if that is one that JSON writes as it is.
Asked(rec, q) ==
  /\ rec.file >= q.since
  /\ q.topic = NoFilter \/ (rec.topic = q.topic /\ Escape[q.topic] = q.topic)

\* A record for which a line may be returned.
Qualifies(rec, q) == rec.file >= q.since /\ (q.topic = NoFilter \/ Names(rec, q.topic))

\* A replay returns, while records are being written, every record that was on
\* disk as a whole when it began and that it is asked for, or as many lines as it was
\* asked for; also a record that shares its line with others that were cut short.
\* Each record is returned once, the oldest file first, at most one whole record in a
\* line, and no line without a record that qualifies.  A record of which a part is
\* returned was not on disk as a whole when the replay began.  Not found are the
\* records of a topic that JSON does not write as it is.
ReplayExact ==
  reader = "done" =>
    /\ \A i \in DOMAIN results : \E p \in results[i] : Qualifies(p.rec, query)
    /\ \A rec \in before :
         \/ Len(results) = query.max_count
         \/ Asked(rec, query) =>
              \E i \in DOMAIN results : [rec |-> rec, whole |-> TRUE] \in results[i]
    /\ \A i, j \in DOMAIN results : i < j =>
         \A p \in results[i], q \in results[j] : p.rec # q.rec /\ p.rec.file <= q.rec.file
    /\ \A i \in DOMAIN results : \A p, q \in results[i] : p.whole /\ q.whole => p = q
    /\ \A i \in DOMAIN results : \A p \in results[i] : ~p.whole => p.rec \notin before
=============================================================================
