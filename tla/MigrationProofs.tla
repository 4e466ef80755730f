--------------------------- MODULE MigrationProofs ---------------------------
(***************************************************************************)
(* Theorems about the JSONL store and the migration, for any number of     *)
(* threads, events, crashes and failed writes.                             *)
(***************************************************************************)
EXTENDS Migration, SequenceTheorems, TLAPS

-----------------------------------------------------------------------------
(* Types. *)

Events == [seq : Nat, id : Ids, created : BOOLEAN]

\* What can stand behind the last newline of a file.
Tails == {Clean, Torn} \cup {Whole(e) : e \in Events}
Files == [lines : Seq(Events), tail : Tails]

Writers == [thread : Threads, at : {"open", "write", "written"},
            event : {<<e>> : e \in Events}, first : {"line", "newline"}]

StoreOK ==
  /\ file \in [Threads -> Files]
  /\ place \in [Threads -> {"none", "active", "backup"}]
  /\ server \in {"off", "jsonl", "sqlite"}
  /\ writer \in Writers \cup {NoWriter}
  /\ acked \in [Threads -> SUBSET Events]
  /\ nextId \in Nat \ {0}

Migrations == [at : {"off", "read", "import", "move"}, todo : SUBSET Threads,
               found : SUBSET Threads]

MoveOK == /\ rows \in [Threads -> Seq(Events)] /\ read \in [Threads -> Seq(Events)]
          /\ migration \in Migrations

TypeInv == StoreOK /\ MoveOK

-----------------------------------------------------------------------------
(* What a reader of a thread's file gets. *)

Log(t) == ParsedEvents(file[t])

\* Numbers without gaps, and nothing in the file of a thread that does not exist.
FileInv == \A t \in Threads : Parses(file[t]) /\ (place[t] = "none" => file[t] = EmptyFile)

\* What the lock holder is about to write continues the log, or is its end.
Continues(w) ==
  LET f == file[w.thread]
      e == w.event[1]
  IN  /\ w.at = "open" => /\ e.seq = Len(ParsedEvents(f)) + 1
                          /\ w.first = "line" => f.tail.is = "clean"
                          /\ w.first = "newline" => f.tail.is = "whole"
      /\ w.at = "write" => /\ w.first = "newline" => f.tail.is = "whole"
                           /\ w.first = "newline" \/ f.tail.is # "whole" =>
                                e.seq = Len(ParsedEvents(f)) + 1
                           /\ w.first = "line" /\ f.tail.is = "whole" => f.tail.event = <<e>>
      /\ w.at = "written" => Holds(ParsedEvents(f), e)

WriteInv == writer.at # "idle" => Continues(writer) /\ place[writer.thread] # "none"

StoreInv == FileInv /\ WriteInv /\ AckedEventsKept

-----------------------------------------------------------------------------
(* What the migration has read, imported and moved. *)

\* What was read of a file is numbered without gaps and still there.
ReadInv == \A t \in Threads : \A i \in DOMAIN read[t] : read[t][i].seq = i /\ Holds(Log(t), read[t][i])

\* SQLite has what was read of the thread.
Has(t) == \A i \in DOMAIN read[t] : Holds(rows[t], read[t][i])

\* A file that was not there at the listing has not been read, unless it was moved before.
FoundInv ==
  /\ \A t \in Threads : place[t] = "none" => read[t] = <<>>
  /\ Running => \A t \in Threads \ migration.found : place[t] = "active" => read[t] = <<>>
  /\ migration.at \in {"read", "import"} =>
       migration.todo \subseteq migration.found /\ \A t \in migration.found : place[t] = "active"

\* Nothing is moved before everything is imported.
ImportInv ==
  /\ migration.at = "import" => \A t \in migration.found \ migration.todo : Has(t)
  /\ migration.at = "move" => \A t \in migration.found : Has(t)
  /\ \A t \in Threads : place[t] = "backup" => Has(t)

MoveInv == ReadInv /\ FoundInv /\ ImportInv

-----------------------------------------------------------------------------
(* Files. *)

\* The trailing bytes are nothing, rubbish, or one event.
LEMMA TailForms ==
  ASSUME NEW f \in Files
  PROVE  /\ f.lines \in Seq(Events) /\ f.tail.is \in {"clean", "torn", "whole"}
         /\ f.tail.is # "whole" => ParsedEvents(f) = f.lines
         /\ f.tail.is = "whole" => \E e \in Events : /\ f.tail.event = <<e>>
                                                     /\ ParsedEvents(f) = Append(f.lines, e)
         /\ ParsedEvents(f) \in Seq(Events)
<1>0. f.lines \in Seq(Events) /\ f.tail \in Tails
  BY DEF Files
<1>1. CASE f.tail = Clean \/ f.tail = Torn
  <2>1. f.tail.is # "whole" /\ f.tail.event = <<>> /\ f.tail.is \in {"clean", "torn", "whole"}
    BY <1>1 DEF Clean, Torn
  <2>2. f.lines \o <<>> = f.lines
    BY <1>0, ConcatEmptySeq
  <2> QED BY <1>0, <2>1, <2>2 DEF ParsedEvents
<1>2. ASSUME NEW e \in Events, f.tail = Whole(e)
      PROVE  /\ f.tail.is = "whole" /\ f.tail.event = <<e>>
             /\ ParsedEvents(f) = Append(f.lines, e) /\ Append(f.lines, e) \in Seq(Events)
  <2>1. f.tail.is = "whole" /\ f.tail.event = <<e>>
    BY <1>2 DEF Whole
  <2>2. f.lines \o <<e>> = Append(f.lines, e)
    BY <1>0, AppendIsConcat
  <2> QED BY <1>0, <2>1, <2>2 DEF ParsedEvents
<1>3. f.tail = Clean \/ f.tail = Torn \/ \E e \in Events : f.tail = Whole(e)
  BY <1>0 DEF Tails
<1> QED BY SMTT(30), <1>1, <1>2, <1>3

\* The next number follows the length of the log.
LEMMA NextSeqFollows ==
  ASSUME NEW f \in Files, Parses(f)
  PROVE  NextSeq(f) = Len(ParsedEvents(f)) + 1
<1> DEFINE p == ParsedEvents(f)
<1>0. p \in Seq(Events)
  BY TailForms
<1>1. CASE p = <<>>
  BY <1>1 DEF NextSeq
<1>2. CASE p # <<>>
  <2>1. Len(p) \in DOMAIN p
    BY <1>0, <1>2, LenProperties
  <2>2. p[Len(p)].seq = Len(p)
    BY <2>1 DEF Parses
  <2> QED BY <1>2, <2>2 DEF NextSeq, Last
<1> QED BY <1>1, <1>2

\* A log that is continued by an event with the next number stays in order and keeps
\* what it has.
LEMMA LogContinued ==
  ASSUME NEW s \in Seq(Events), \A i \in DOMAIN s : s[i].seq = i,
         NEW e \in Events, e.seq = Len(s) + 1
  PROVE  /\ \A i \in DOMAIN Append(s, e) : Append(s, e)[i].seq = i
         /\ Holds(Append(s, e), e)
         /\ \A d : Holds(s, d) => Holds(Append(s, e), d)
<1> DEFINE n == Len(s)
           c == Append(s, e)
<1>1. /\ n \in Nat /\ DOMAIN s = 1..n /\ DOMAIN c = 1..(n + 1)
      /\ c[n + 1] = e /\ \A i \in 1..n : c[i] = s[i]
  BY AppendProperties, LenProperties
<1> HIDE DEF n, c
<1>2. e.seq = n + 1
  BY DEF n
<1>3. ASSUME NEW i \in DOMAIN c PROVE c[i].seq = i
  <2>1. CASE i = n + 1
    BY <1>1, <1>2, <2>1
  <2>2. CASE i # n + 1
    <3>1. i \in 1..n
      BY <1>1, <1>3, <2>2
    <3> QED BY <1>1, <3>1
  <2> QED BY <2>1, <2>2
<1>4. Holds(c, e)
  BY <1>1, <1>2 DEF Holds
<1>5. ASSUME NEW d, Holds(s, d) PROVE Holds(c, d)
  <2>1. d.seq \in 1..n /\ s[d.seq] = d
    BY <1>1, <1>5 DEF Holds
  <2> QED BY <1>1, <2>1 DEF Holds
<1> QED BY <1>3, <1>4, <1>5 DEF c

-----------------------------------------------------------------------------
(* What a step does to the files. *)

SameLogs == \A t \in Threads : ParsedEvents(file'[t]) = Log(t)

Grows(t, e) ==
  /\ e.seq = Len(Log(t)) + 1
  /\ ParsedEvents(file'[t]) = Append(Log(t), e)
  /\ \A s \in Threads : s # t => file'[s] = file[s]

\* A file is replaced by one that reads the same.
LEMMA FileReplaced ==
  ASSUME StoreOK, NEW t \in Threads, NEW g \in Files, file' = [file EXCEPT ![t] = g],
         ParsedEvents(g) = Log(t)
  PROVE  SameLogs /\ file' \in [Threads -> Files] /\ file'[t] = g
<1>1. file \in [Threads -> Files]
  BY DEF StoreOK
<1> QED BY <1>1 DEF SameLogs, Log

\* Changing the tail of a file.
LEMMA TailReplaced ==
  ASSUME NEW f \in Files, NEW x \in Tails
  PROVE  /\ [f EXCEPT !.tail = x] \in Files
         /\ [f EXCEPT !.tail = x].tail = x /\ [f EXCEPT !.tail = x].lines = f.lines
BY DEF Files

\* A file of given lines.
LEMMA FileOf ==
  ASSUME NEW l \in Seq(Events)
  PROVE  /\ [lines |-> l, tail |-> Clean] \in Files
         /\ ParsedEvents([lines |-> l, tail |-> Clean]) = l
         /\ [lines |-> l, tail |-> Clean].tail.is = "clean"
<1>1. [lines |-> l, tail |-> Clean] \in Files
  BY DEF Files, Tails
<1>2. [lines |-> l, tail |-> Clean].tail.is = "clean"
  BY DEF Clean
<1> QED BY <1>1, <1>2, TailForms

\* Who holds the lock writes one event.
LEMMA WriterForm ==
  ASSUME StoreOK, writer.at # "idle"
  PROVE  /\ writer \in Writers /\ writer.thread \in Threads
         /\ writer.event[1] \in Events /\ writer.event = <<writer.event[1]>>
         /\ file[writer.thread] \in Files
<1>1. writer \in Writers
  BY DEF StoreOK, NoWriter
<1>2. writer.thread \in Threads /\ writer.event \in {<<e>> : e \in Events}
  BY <1>1 DEF Writers
<1>3. PICK e \in Events : writer.event = <<e>>
  BY <1>2
<1> QED BY <1>1, <1>2, <1>3 DEF StoreOK

\* Creating a thread, whose file is empty already, does not show.
LEMMA CreateFile ==
  ASSUME StoreOK, StoreInv, NEW t \in Threads, CreateThread(t)
  PROVE  SameLogs /\ file' \in [Threads -> Files] /\ file'[t] = EmptyFile
<1>1. EmptyFile \in Files /\ file[t] = EmptyFile
  <2>1. <<>> \in Seq(Events)
    OBVIOUS
  <2> QED BY <2>1, FileOf DEF EmptyFile, CreateThread, StoreInv, FileInv
<1>2. file' = [file EXCEPT ![t] = EmptyFile]
  BY DEF CreateThread
<1> QED BY <1>1, <1>2, FileReplaced DEF Log

\* The repair cuts off only what is no event.
LEMMA RepairFile ==
  ASSUME StoreOK, NEW t \in Threads, AppendEvent(t)
  PROVE  /\ SameLogs /\ file' \in [Threads -> Files]
         /\ file[t].tail.is \in {"clean", "torn"} => file'[t].tail.is = "clean"
         /\ file[t].tail.is = "whole" => file'[t].tail.is = "whole"
<1>0. file[t] \in Files /\ file \in [Threads -> Files]
  BY DEF StoreOK
<1>1. CASE file[t].tail.is = "torn"
  <2> DEFINE g == [file[t] EXCEPT !.tail = Clean]
  <2>1. file' = [file EXCEPT ![t] = g]
    BY <1>1 DEF AppendEvent, AppendRepairing
  <2>2. Clean \in Tails /\ Clean.is = "clean"
    BY DEF Tails, Clean
  <2>3. g \in Files /\ g.tail = Clean /\ g.lines = file[t].lines
    BY <1>0, <2>2, TailReplaced
  <2> HIDE DEF g
  <2>4. ParsedEvents(g) = g.lines
    BY <2>2, <2>3, TailForms
  <2>5. Log(t) = file[t].lines
    BY <1>0, <1>1, TailForms DEF Log
  <2>6. SameLogs /\ file' \in [Threads -> Files] /\ file'[t] = g
    BY <2>1, <2>3, <2>4, <2>5, FileReplaced
  <2> QED BY <1>1, <2>2, <2>3, <2>6
<1>2. CASE file[t].tail.is # "torn"
  <2>1. file' = file
    BY <1>2 DEF AppendEvent, AppendRepairing
  <2> QED BY <1>0, <1>2, <2>1 DEF SameLogs, Log
<1> QED BY <1>1, <1>2

\* The four pieces of a write: only the one that completes the line shows.
LEMMA PieceFile ==
  ASSUME StoreOK, StoreInv, WritePiece
  PROVE  /\ file' \in [Threads -> Files]
         /\ \/ /\ SameLogs
               /\ \/ writer.first = "newline" /\ file'[writer.thread].tail.is = "clean"
                  \/ writer.first = "line" /\ file'[writer.thread].tail.is = "torn"
                     /\ file[writer.thread].tail.is = "clean" /\ UNCHANGED writer
                  \/ writer.first = "line" /\ Holds(ParsedEvents(file'[writer.thread]), writer.event[1])
                     /\ writer' = [writer EXCEPT !.at = "written"]
            \/ /\ Grows(writer.thread, writer.event[1])
               /\ file'[writer.thread].tail = Whole(writer.event[1])
               /\ writer.first = "line" /\ UNCHANGED writer
<1> DEFINE t == writer.thread
           f == file[t]
           e == writer.event[1]
<1>0. /\ writer.at = "write" /\ writer \in Writers /\ t \in Threads /\ e \in Events
      /\ writer.event = <<e>> /\ f \in Files
  BY WriterForm DEF WritePiece
<1>1. /\ writer.first = "newline" => f.tail.is = "whole"
      /\ writer.first = "newline" \/ f.tail.is # "whole" => e.seq = Len(ParsedEvents(f)) + 1
      /\ writer.first = "line" /\ f.tail.is = "whole" => f.tail.event = <<e>>
      /\ Parses(f)
  BY <1>0 DEF StoreInv, WriteInv, Continues, FileInv
<1>2. /\ f.lines \in Seq(Events) /\ f.tail.is \in {"clean", "torn", "whole"}
      /\ f.tail.is # "whole" => ParsedEvents(f) = f.lines
      /\ f.tail.is = "whole" => \E d \in Events : f.tail.event = <<d>> /\ ParsedEvents(f) = Append(f.lines, d)
  BY <1>0, TailForms
<1>3. ASSUME f.tail.is = "whole"
      PROVE  /\ f.tail.event[1] \in Events /\ ParsedEvents(f) = Append(f.lines, f.tail.event[1])
             /\ Append(f.lines, f.tail.event[1]) \in Seq(Events)
  BY <1>2, <1>3, AppendProperties
<1>4. CASE /\ writer.first = "newline"
           /\ file' = [file EXCEPT ![t] = [lines |-> Append(f.lines, f.tail.event[1]), tail |-> Clean]]
  <2> DEFINE l == Append(f.lines, f.tail.event[1])
             g == [lines |-> l, tail |-> Clean]
  <2>1. l \in Seq(Events) /\ ParsedEvents(f) = l
    BY <1>1, <1>3, <1>4
  <2>2. g \in Files /\ ParsedEvents(g) = l /\ g.tail.is = "clean"
    BY <2>1, FileOf
  <2> HIDE DEF g
  <2>3. SameLogs /\ file' \in [Threads -> Files] /\ file'[t] = g
    BY <1>0, <1>4, <2>1, <2>2, FileReplaced DEF Log, g
  <2> QED BY <1>4, <2>2, <2>3
<1>5. CASE /\ writer.first = "line" /\ f.tail.is = "clean"
           /\ file' = [file EXCEPT ![t].tail = Torn] /\ UNCHANGED writer
  <2> DEFINE g == [f EXCEPT !.tail = Torn]
  <2>1. Torn \in Tails /\ Torn.is = "torn"
    BY DEF Tails, Torn
  <2>2. g \in Files /\ g.tail = Torn /\ g.lines = f.lines
    BY <1>0, <2>1, TailReplaced
  <2>3. file' = [file EXCEPT ![t] = g]
    BY <1>5
  <2> HIDE DEF g
  <2>4. ParsedEvents(g) = g.lines
    BY <2>1, <2>2, TailForms
  <2>5. SameLogs /\ file' \in [Threads -> Files] /\ file'[t] = g
    <3>1. ParsedEvents(g) = Log(t)
      BY <1>2, <1>5, <2>2, <2>4 DEF Log
    <3> QED BY <1>0, <2>2, <2>3, <3>1, FileReplaced
  <2> QED BY <1>5, <2>1, <2>2, <2>5
<1>6. CASE /\ writer.first = "line" /\ f.tail.is = "torn"
           /\ file' = [file EXCEPT ![t].tail = Whole(e)] /\ UNCHANGED writer
  <2> DEFINE g == [f EXCEPT !.tail = Whole(e)]
  <2>1. Whole(e) \in Tails /\ Whole(e).is = "whole" /\ Whole(e).event = <<e>>
    BY <1>0 DEF Tails, Whole
  <2>2. g \in Files /\ g.tail = Whole(e) /\ g.lines = f.lines
    BY <1>0, <2>1, TailReplaced
  <2>3. file' = [file EXCEPT ![t] = g]
    BY <1>6
  <2> HIDE DEF g
  <2>4. PICK d \in Events : g.tail.event = <<d>> /\ ParsedEvents(g) = Append(g.lines, d)
    BY <2>1, <2>2, TailForms
  <2>5. d = e
    BY <2>1, <2>2, <2>4
  <2>6. file' \in [Threads -> Files] /\ file'[t] = g /\ \A s \in Threads : s # t => file'[s] = file[s]
    BY <1>0, <2>2, <2>3 DEF StoreOK
  <2>7. Grows(t, e)
    BY <1>1, <1>2, <1>6, <2>2, <2>4, <2>5, <2>6 DEF Grows, Log
  <2> QED BY <1>6, <2>2, <2>6, <2>7
<1>7. CASE /\ writer.first = "line" /\ f.tail.is = "whole"
           /\ file' = [file EXCEPT ![t] = [lines |-> Append(f.lines, e), tail |-> Clean]]
           /\ writer' = [writer EXCEPT !.at = "written"]
  <2> DEFINE l == Append(f.lines, e)
             g == [lines |-> l, tail |-> Clean]
  <2>0. f.tail.event[1] = e
    BY <1>1, <1>7
  <2>1. l \in Seq(Events) /\ ParsedEvents(f) = l
    BY <1>3, <1>7, <2>0
  <2>2. g \in Files /\ ParsedEvents(g) = l /\ g.tail.is = "clean"
    BY <2>1, FileOf
  <2> HIDE DEF g
  <2>3. SameLogs /\ file' \in [Threads -> Files] /\ file'[t] = g
    BY <1>0, <1>7, <2>1, <2>2, FileReplaced DEF Log, g
  <2>4. Len(f.lines) + 1 \in DOMAIN l /\ l[Len(f.lines) + 1] = e
    BY <1>0, <1>2, AppendProperties, LenProperties
  <2>5. e.seq = Len(f.lines) + 1
    BY <1>1, <2>1, <2>4 DEF Parses
  <2>6. Holds(l, e)
    BY <2>4, <2>5 DEF Holds
  <2> QED BY <1>7, <2>2, <2>3, <2>6
<1> QED BY <1>4, <1>5, <1>6, <1>7 DEF WritePiece

-----------------------------------------------------------------------------
(* Types are kept. *)

\* A new event has the next identity.
LEMMA NewEvent ==
  ASSUME StoreOK, nextId <= MaxEvents, NEW n \in Nat, NEW c \in BOOLEAN
  PROVE  [seq |-> n, id |-> nextId, created |-> c] \in Events
<1>1. nextId \in Ids
  BY StoreAssumption DEF StoreOK, Ids
<1> QED BY <1>1, Zenon DEF Events

\* The store's own variables keep their types.
LEMMA StoreStep ==
  ASSUME TypeInv, StoreInv, [Next]_vars
  PROVE  StoreOK'
<1>0. StoreOK /\ nextId \in Nat \ {0} /\ nextId + 1 \in Nat \ {0}
  BY DEF TypeInv, StoreOK
<1>1. ASSUME NEW t \in Threads, CreateThread(t)
      PROVE  StoreOK'
  <2>1. file' \in [Threads -> Files]
    BY <1>0, <1>1, CreateFile
  <2>2. [seq |-> 1, id |-> nextId, created |-> TRUE] \in Events
    BY <1>0, <1>1, NewEvent DEF CreateThread
  <2>3. writer' \in Writers
    BY <1>1, <2>2 DEF CreateThread, Writers
  <2> QED BY <1>0, <1>1, <2>1, <2>3 DEF CreateThread, StoreOK
<1>2. ASSUME NEW t \in Threads, AppendEvent(t)
      PROVE  StoreOK'
  <2>1. file' \in [Threads -> Files]
    BY <1>0, <1>2, RepairFile
  <2>2. file[t] \in Files /\ Parses(file[t])
    BY <1>0, <1>2 DEF StoreOK, AppendEvent, AppendRepairing
  <2>3. NextSeq(file[t]) \in Nat
    BY <2>2, NextSeqFollows, TailForms, LenProperties
  <2>4. [seq |-> NextSeq(file[t]), id |-> nextId, created |-> FALSE] \in Events
    BY <1>0, <1>2, <2>3, NewEvent DEF AppendEvent, AppendRepairing
  <2>5. writer' \in Writers
    BY <1>2, <2>4 DEF AppendEvent, AppendRepairing, Writers
  <2> QED BY <1>0, <1>2, <2>1, <2>5 DEF AppendEvent, AppendRepairing, StoreOK
<1>3. ASSUME NEW w \in {"open", "write", "written"}, writer.at # "idle"
      PROVE  [writer EXCEPT !.at = w] \in Writers /\ [writer EXCEPT !.first = "line"] \in Writers
  <2>1. writer \in Writers
    BY <1>0, <1>3, WriterForm
  <2> QED BY <2>1 DEF Writers
<1>4. CASE OpenForAppend
  <2>1. writer' \in Writers \cup {NoWriter}
    BY <1>3, <1>4 DEF OpenForAppend
  <2> QED BY <1>0, <1>4, <2>1 DEF OpenForAppend, StoreOK
<1>5. CASE WritePiece
  <2>1. file' \in [Threads -> Files]
    BY <1>0, <1>5, PieceFile
  <2>2. writer' \in Writers
    <3>1. writer.at # "idle" /\ writer \in Writers
      BY <1>0, <1>5, WriterForm DEF WritePiece
    <3> QED BY <1>3, <1>5, <3>1 DEF WritePiece
  <2> QED BY <1>0, <1>5, <2>1, <2>2 DEF WritePiece, StoreOK
<1>6. CASE Acknowledge
  <2>1. writer.at # "idle"
    BY <1>6 DEF Acknowledge
  <2>2. writer.thread \in Threads /\ writer.event[1] \in Events
    BY <1>0, <2>1, WriterForm
  <2>3. acked' \in [Threads -> SUBSET Events]
    BY <1>0, <1>6, <2>2 DEF Acknowledge, StoreOK
  <2> QED BY <1>0, <1>6, <2>3 DEF Acknowledge, StoreOK
<1>7. CASE WriteFails \/ StartJsonlServer \/ StopServer \/ CrashServer
  BY <1>0, <1>7 DEF WriteFails, StartJsonlServer, StopServer, CrashServer, StoreOK
<1>8. CASE UNCHANGED storeVars
  BY <1>0, <1>8 DEF storeVars, StoreOK
<1>9. ASSUME NEW t \in Threads, MoveFile(t)
      PROVE  StoreOK'
  BY <1>0, <1>9 DEF MoveFile, StoreOK
<1>10. CASE CrashMigration \/ RollBack \/ StartSqliteServer
  BY <1>0, <1>10 DEF CrashMigration, RollBack, StartSqliteServer, StoreOK
<1>11. ASSUME NEW t \in Threads, SqliteAppend(t)
       PROVE  StoreOK'
  <2>1. Len(rows[t]) + 1 \in Nat
    BY LenProperties DEF TypeInv, MoveOK
  <2>2. [seq |-> Len(rows[t]) + 1, id |-> nextId, created |-> FALSE] \in Events
    BY <1>0, <1>11, <2>1, NewEvent DEF SqliteAppend
  <2>3. acked' \in [Threads -> SUBSET Events]
    BY <1>0, <1>11, <2>2 DEF SqliteAppend, StoreOK
  <2> QED BY <1>0, <1>11, <2>3 DEF SqliteAppend, StoreOK
<1> QED
  BY <1>1, <1>2, <1>4, <1>5, <1>6, <1>7, <1>8, <1>9, <1>10, <1>11
     DEF Next, JsonlStep, MigrationStep, StartMigration, OpenDatabase, MakeBackup, MigrationDone,
         ReadThread, ImportThread, Importing, vars

\* A migration with other fields.
LEMMA MigrationWith ==
  ASSUME NEW m \in Migrations, NEW a \in {"off", "read", "import", "move"},
         NEW d \in SUBSET Threads
  PROVE  /\ [m EXCEPT !.todo = d] \in Migrations
         /\ [m EXCEPT !.at = a, !.todo = d] \in Migrations
<1>1. [m EXCEPT !.todo = d] \in Migrations
  BY DEF Migrations
<1>2. [m EXCEPT !.at = a, !.todo = d] \in Migrations
  BY DEF Migrations
<1> QED BY <1>1, <1>2

\* A migration that is not running.
LEMMA EndedOK == Ended \in Migrations
BY DEF Ended, Migrations

\* So do the rows and the migrating process.
LEMMA MoveStep ==
  ASSUME TypeInv, [Next]_vars
  PROVE  MoveOK'
<1>0. /\ MoveOK /\ migration \in Migrations /\ rows \in [Threads -> Seq(Events)] /\ file \in [Threads -> Files]
      /\ read \in [Threads -> Seq(Events)]
  BY DEF TypeInv, MoveOK, StoreOK
<1>1. migration.todo \in SUBSET Threads /\ migration.found \in SUBSET Threads /\ Active \in SUBSET Threads
  BY <1>0 DEF Migrations, Active
<1>2. CASE UNCHANGED <<rows, migration, read>>
  BY <1>0, <1>2 DEF MoveOK
<1>3. CASE migration' = Ended /\ UNCHANGED <<rows, read>>
  BY <1>0, <1>3, EndedOK DEF MoveOK
<1>4. CASE StartMigration
  <2>1. migration' = [at |-> "read", todo |-> Active, found |-> Active]
    BY <1>4 DEF StartMigration, Ended
  <2>2. migration' \in Migrations
    BY <1>1, <2>1 DEF Migrations
  <2> QED BY <1>0, <1>4, <2>2 DEF StartMigration, MoveOK
<1>5. ASSUME NEW t \in Threads, ReadThread(t)
      PROVE  MoveOK'
  <2>1. ParsedEvents(file[t]) \in Seq(Events) /\ migration.todo \ {t} \in SUBSET Threads
    BY <1>0, <1>1, TailForms
  <2>2. migration' = [migration EXCEPT !.todo = migration.todo \ {t}]
    BY <1>5 DEF ReadThread
  <2>3. migration' \in Migrations
    BY <1>0, <2>1, <2>2, MigrationWith
  <2>4. read' \in [Threads -> Seq(Events)]
    BY <1>0, <1>5, <2>1 DEF ReadThread
  <2> QED BY <1>0, <1>5, <2>3, <2>4 DEF ReadThread, MoveOK
<1>6. CASE OpenDatabase \/ MakeBackup \/ MigrationDone
  <2>1. \/ migration' = Ended
        \/ migration' = [migration EXCEPT !.at = "import", !.todo = migration.found]
        \/ migration' = [migration EXCEPT !.at = "move", !.todo = Active]
    BY <1>6 DEF OpenDatabase, MakeBackup, MigrationDone
  <2>2. migration' \in Migrations
    <3>1. [migration EXCEPT !.at = "import", !.todo = migration.found] \in Migrations
      BY <1>0, <1>1, MigrationWith
    <3>2. [migration EXCEPT !.at = "move", !.todo = Active] \in Migrations
      BY <1>0, <1>1, MigrationWith
    <3> QED BY <2>1, <3>1, <3>2, EndedOK
  <2> QED BY <1>0, <1>6, <2>2 DEF OpenDatabase, MakeBackup, MigrationDone, MoveOK
<1>7. ASSUME NEW t \in Threads, migration' = [migration EXCEPT !.todo = migration.todo \ {t}]
      PROVE  migration' \in Migrations
  <2>1. migration.todo \ {t} \in SUBSET Threads
    BY <1>1
  <2> QED BY <1>0, <1>7, <2>1, MigrationWith
<1>8. ASSUME NEW t \in Threads, ImportThread(t)
      PROVE  MoveOK'
  <2>1. CASE InsertThread(t)
    <3>1. read[t] \in Seq(Events)
      BY <1>0
    <3>2. rows' \in [Threads -> Seq(Events)]
      BY <1>0, <2>1, <3>1 DEF InsertThread
    <3> QED BY <1>0, <1>7, <1>8, <2>1, <3>2 DEF ImportThread, Importing, InsertThread, Imported, MoveOK
  <2>2. CASE SameThread(t)
    BY <1>0, <1>7, <1>8, <2>2 DEF ImportThread, Importing, SameThread, Imported, MoveOK
  <2>3. CASE OtherThread(t)
    BY <1>3, <1>8, <2>3 DEF ImportThread, Importing, OtherThread
  <2> QED BY <1>8, <2>1, <2>2, <2>3 DEF ImportThread
<1>9. ASSUME NEW t \in Threads, MoveFile(t)
      PROVE  MoveOK'
  BY <1>0, <1>7, <1>9 DEF MoveFile, MoveOK
<1>10. ASSUME NEW t \in Threads, SqliteAppend(t)
       PROVE  MoveOK'
  <2>1. rows[t] \in Seq(Events) /\ Len(rows[t]) + 1 \in Nat /\ StoreOK
    BY <1>0, LenProperties DEF TypeInv
  <2>2. [seq |-> Len(rows[t]) + 1, id |-> nextId, created |-> FALSE] \in Events
    BY <1>10, <2>1, NewEvent DEF SqliteAppend
  <2>3. Append(rows[t], [seq |-> Len(rows[t]) + 1, id |-> nextId, created |-> FALSE]) \in Seq(Events)
    BY <2>1, <2>2, AppendProperties
  <2>4. rows' \in [Threads -> Seq(Events)]
    BY <1>0, <1>10, <2>3 DEF SqliteAppend
  <2> QED BY <1>0, <1>10, <2>4 DEF SqliteAppend, MoveOK
<1> QED
  BY <1>2, <1>3, <1>4, <1>5, <1>6, <1>8, <1>9, <1>10
     DEF Next, MigrationStep, CrashMigration, RollBack, StartSqliteServer, vars

-----------------------------------------------------------------------------
(* The log of every thread only grows, by events with the next number. *)

\* Every step leaves all logs as they are, or one of them grows by one event.
LEMMA LogsStep ==
  ASSUME TypeInv, StoreInv, [Next]_vars
  PROVE  SameLogs \/ \E t \in Threads, e \in Events : Grows(t, e)
<1>0. StoreOK
  BY DEF TypeInv
<1>1. ASSUME NEW t \in Threads, CreateThread(t) \/ AppendEvent(t)
      PROVE  SameLogs
  BY <1>0, <1>1, CreateFile, RepairFile
<1>2. CASE WritePiece
  <2>1. writer.thread \in Threads /\ writer.event[1] \in Events
    BY <1>0, <1>2, WriterForm DEF WritePiece
  <2>2. SameLogs \/ Grows(writer.thread, writer.event[1])
    BY <1>0, <1>2, PieceFile
  <2> QED BY <2>1, <2>2
<1>3. CASE UNCHANGED file
  BY <1>3 DEF SameLogs, Log
<1> QED
  BY <1>1, <1>2, <1>3
     DEF Next, JsonlStep, MigrationStep, StartMigration, OpenDatabase, MakeBackup, MigrationDone,
         ReadThread, ImportThread, Importing, vars, storeVars, OpenForAppend, Acknowledge,
         WriteFails, StartJsonlServer, StopServer, CrashServer, MoveFile, CrashMigration, RollBack,
         StartSqliteServer, SqliteAppend

\* What a log holds it keeps, and its numbers stay without gaps.
LEMMA LogsKept ==
  ASSUME TypeInv, StoreInv, [Next]_vars, NEW t \in Threads
  PROVE  /\ Parses(file'[t])
         /\ \A d : Holds(Log(t), d) => Holds(ParsedEvents(file'[t]), d)
<1>0. Log(t) \in Seq(Events) /\ \A i \in DOMAIN Log(t) : Log(t)[i].seq = i
  <2>1. file[t] \in Files /\ Parses(file[t])
    BY DEF TypeInv, StoreOK, StoreInv, FileInv
  <2> QED BY <2>1, TailForms DEF Log, Parses
<1>1. CASE ParsedEvents(file'[t]) = Log(t)
  BY <1>0, <1>1 DEF Parses
<1>2. ASSUME NEW e \in Events, Grows(t, e)
      PROVE  /\ Parses(file'[t])
             /\ \A d : Holds(Log(t), d) => Holds(ParsedEvents(file'[t]), d)
  <2>1. ParsedEvents(file'[t]) = Append(Log(t), e) /\ e.seq = Len(Log(t)) + 1
    BY <1>2 DEF Grows
  <2>2. /\ \A i \in DOMAIN Append(Log(t), e) : Append(Log(t), e)[i].seq = i
        /\ \A d : Holds(Log(t), d) => Holds(Append(Log(t), e), d)
    BY <1>0, <2>1, LogContinued
  <2> QED BY <2>1, <2>2 DEF Parses
<1>3. ASSUME NEW s \in Threads, NEW e \in Events, Grows(s, e), s # t
      PROVE  ParsedEvents(file'[t]) = Log(t)
  BY <1>3 DEF Grows, Log
<1> QED BY <1>1, <1>2, <1>3, LogsStep DEF SameLogs

\* Files are readable, and the file of a thread that does not exist is empty.
LEMMA FileStep ==
  ASSUME TypeInv, StoreInv, [Next]_vars
  PROVE  FileInv'
<1>0. StoreOK /\ FileInv /\ file \in [Threads -> Files] /\ place \in [Threads -> {"none", "active", "backup"}]
  BY DEF TypeInv, StoreInv, StoreOK
<1>1. \A t \in Threads : Parses(file'[t])
  BY LogsKept
<1>2. ASSUME NEW t \in Threads, place'[t] = "none"
      PROVE  file'[t] = EmptyFile
  <2>1. ASSUME NEW s \in Threads, CreateThread(s) PROVE s # t /\ place[t] = "none" /\ file'[t] = file[t]
    BY <1>0, <1>2, <2>1 DEF CreateThread
  <2>2. ASSUME NEW s \in Threads, AppendEvent(s) PROVE s # t /\ place[t] = "none" /\ file'[t] = file[t]
    BY <1>0, <1>2, <2>2 DEF AppendEvent, AppendRepairing
  <2>3. CASE WritePiece
    <3>1. writer.thread \in Threads /\ UNCHANGED place
      BY <1>0, <2>3, WriterForm DEF WritePiece
    <3>2. \A s \in Threads : s # writer.thread => file'[s] = file[s]
      BY <1>0, <2>3, <3>1 DEF WritePiece
    <3>3. CASE writer.thread # t
      BY <1>0, <1>2, <3>1, <3>2, <3>3 DEF FileInv
    <3>4. CASE writer.thread = t
      <4>1. place[t] = "none"
        BY <1>2, <3>1
      <4>2. place[writer.thread] # "none"
        BY <2>3 DEF StoreInv, WriteInv, WritePiece
      <4> QED BY <3>4, <4>1, <4>2
    <3> QED BY <3>3, <3>4
  <2>4. CASE UNCHANGED file /\ UNCHANGED place
    BY <1>0, <1>2, <2>4 DEF FileInv
  <2>5. CASE UNCHANGED file /\ (RollBack \/ \E s \in Threads : MoveFile(s))
    BY <1>0, <1>2, <2>5 DEF FileInv, RollBack, MoveFile
  <2> QED
    BY <1>0, <2>1, <2>2, <2>3, <2>4, <2>5
       DEF FileInv, Next, JsonlStep, MigrationStep, StartMigration, OpenDatabase, MakeBackup, MigrationDone,
           ReadThread, ImportThread, Importing, vars, storeVars, OpenForAppend, Acknowledge,
           WriteFails, StartJsonlServer, StopServer, CrashServer, MoveFile, CrashMigration, RollBack,
           StartSqliteServer, SqliteAppend
<1> QED BY <1>1, <1>2 DEF FileInv

\* What the lock holder writes continues the log.
LEMMA WriteStep ==
  ASSUME TypeInv, StoreInv, [Next]_vars
  PROVE  WriteInv'
<1>0. /\ StoreOK /\ FileInv /\ file \in [Threads -> Files]
      /\ place \in [Threads -> {"none", "active", "backup"}]
  BY DEF TypeInv, StoreInv, StoreOK
<1>1. ASSUME NEW t \in Threads, CreateThread(t)
      PROVE  WriteInv'
  <2>1. file'[t] = EmptyFile /\ place'[t] = "active"
    BY <1>0, <1>1, CreateFile DEF CreateThread
  <2>2. <<>> \in Seq(Events)
    OBVIOUS
  <2>3. ParsedEvents(file'[t]) = <<>> /\ file'[t].tail.is = "clean"
    BY <2>1, <2>2, FileOf DEF EmptyFile
  <2>4. /\ writer'.thread = t /\ writer'.at = "write" /\ writer'.first = "line"
        /\ writer'.event[1].seq = 1
    BY <1>1 DEF CreateThread
  <2>5. Len(<<>>) + 1 = 1
    OBVIOUS
  <2> QED BY <2>1, <2>3, <2>4, <2>5 DEF WriteInv, Continues
<1>2. ASSUME NEW t \in Threads, AppendEvent(t)
      PROVE  WriteInv'
  <2>1. file[t] \in Files /\ Parses(file[t])
    BY <1>0 DEF FileInv
  <2>2. file[t].tail.is \in {"clean", "torn", "whole"}
    BY <2>1, TailForms
  <2>3. ParsedEvents(file'[t]) = ParsedEvents(file[t])
    BY <1>0, <1>2, RepairFile DEF SameLogs, Log
  <2>4. /\ file[t].tail.is \in {"clean", "torn"} => file'[t].tail.is = "clean"
        /\ file[t].tail.is = "whole" => file'[t].tail.is = "whole"
    BY <1>0, <1>2, RepairFile
  <2>5. /\ writer'.thread = t /\ writer'.at = "open" /\ writer'.event[1].seq = NextSeq(file[t])
        /\ writer'.first = IF file[t].tail.is \in {"torn"} \cup {"clean"} THEN "line" ELSE "newline"
        /\ place'[t] # "none"
    BY <1>2 DEF AppendEvent, AppendRepairing
  <2>6. writer'.event[1].seq = Len(ParsedEvents(file'[t])) + 1
    BY <2>1, <2>3, <2>5, NextSeqFollows
  <2> QED BY <2>2, <2>4, <2>5, <2>6 DEF WriteInv, Continues
<1>3. CASE UNCHANGED <<file, writer>> /\ \A t \in Threads : place[t] # "none" => place'[t] # "none"
  <2>1. writer.at # "idle" => writer.thread \in Threads
    BY <1>0, WriterForm
  <2> QED BY <1>3, <2>1 DEF StoreInv, WriteInv, Continues
<1>4. CASE writer' = NoWriter
  BY <1>4 DEF WriteInv, NoWriter
<1>5. CASE OpenForAppend
  <2>1. CASE writer' = [writer EXCEPT !.at = "write"] /\ UNCHANGED <<file, place>> /\ writer.at = "open"
    <3>1. writer \in Writers /\ Continues(writer) /\ place[writer.thread] # "none"
      BY <1>0, <2>1, WriterForm DEF StoreInv, WriteInv
    <3>2. /\ writer'.at = "write" /\ writer'.thread = writer.thread /\ writer'.event = writer.event
          /\ writer'.first = writer.first /\ writer.first \in {"line", "newline"}
      BY <2>1, <3>1 DEF Writers
    <3> QED BY <2>1, <3>1, <3>2 DEF WriteInv, Continues
  <2> QED BY <1>4, <1>5, <2>1 DEF OpenForAppend
<1>6. CASE WritePiece
  <2>1. /\ writer \in Writers /\ writer.at = "write" /\ writer.thread \in Threads
        /\ writer.event = <<writer.event[1]>> /\ writer.first \in {"line", "newline"}
        /\ UNCHANGED place /\ place[writer.thread] # "none" /\ Continues(writer)
    BY <1>0, <1>6, WriterForm DEF WritePiece, Writers, StoreInv, WriteInv
  <2>2. CASE SameLogs /\ writer.first = "newline" /\ file'[writer.thread].tail.is = "clean"
    <3>1. writer' = [writer EXCEPT !.first = "line"]
      BY <1>6, <2>2 DEF WritePiece
    <3>2. /\ writer'.at = "write" /\ writer'.thread = writer.thread /\ writer'.event = writer.event
          /\ writer'.first = "line"
      BY <2>1, <3>1 DEF Writers
    <3>3. ParsedEvents(file'[writer.thread]) = ParsedEvents(file[writer.thread])
      BY <2>1, <2>2 DEF SameLogs, Log
    <3>4. writer.event[1].seq = Len(ParsedEvents(file[writer.thread])) + 1
      BY <2>1, <2>2 DEF Continues
    <3> QED BY <2>1, <2>2, <3>2, <3>3, <3>4 DEF WriteInv, Continues
  <2>3. CASE /\ SameLogs /\ writer.first = "line" /\ file'[writer.thread].tail.is = "torn"
             /\ file[writer.thread].tail.is = "clean" /\ UNCHANGED writer
    <3>1. ParsedEvents(file'[writer.thread]) = ParsedEvents(file[writer.thread])
      BY <2>1, <2>3 DEF SameLogs, Log
    <3>2. writer.event[1].seq = Len(ParsedEvents(file[writer.thread])) + 1
      BY <2>1, <2>3 DEF Continues
    <3> QED BY <2>1, <2>3, <3>1, <3>2 DEF WriteInv, Continues
  <2>4. CASE /\ Holds(ParsedEvents(file'[writer.thread]), writer.event[1])
             /\ writer' = [writer EXCEPT !.at = "written"]
    <3>1. /\ writer'.at = "written" /\ writer'.thread = writer.thread /\ writer'.event = writer.event
      BY <2>1, <2>4 DEF Writers
    <3> QED BY <2>1, <2>4, <3>1 DEF WriteInv, Continues
  <2>5. CASE /\ file'[writer.thread].tail = Whole(writer.event[1])
             /\ writer.first = "line" /\ UNCHANGED writer
    <3>1. file'[writer.thread].tail.is = "whole" /\ file'[writer.thread].tail.event = <<writer.event[1]>>
      BY <2>5 DEF Whole
    <3> QED BY <2>1, <2>5, <3>1 DEF WriteInv, Continues
  <2> QED BY <1>0, <1>6, <2>2, <2>3, <2>4, <2>5, PieceFile
<1>7. CASE RollBack \/ \E s \in Threads : MoveFile(s)
  BY <1>0, <1>3, <1>7 DEF RollBack, MoveFile
<1> QED
  BY <1>1, <1>2, <1>3, <1>4, <1>5, <1>6, <1>7
     DEF Next, JsonlStep, MigrationStep, StartMigration, OpenDatabase, MakeBackup, MigrationDone,
         ReadThread, ImportThread, Importing, vars, storeVars, Acknowledge,
         WriteFails, StartJsonlServer, StopServer, CrashServer, CrashMigration,
         StartSqliteServer, SqliteAppend

\* What SQLite has of a thread it keeps.
LEMMA RowsKept ==
  ASSUME TypeInv, [Next]_vars, NEW t \in Threads
  PROVE  \A d : Holds(rows[t], d) => Holds(rows'[t], d)
<1>0. rows \in [Threads -> Seq(Events)] /\ rows[t] \in Seq(Events) /\ StoreOK
  BY DEF TypeInv, MoveOK
<1>1. CASE rows'[t] = rows[t]
  BY <1>1
<1>2. CASE rows[t] = <<>>
  <2>1. DOMAIN rows[t] = {}
    BY <1>2
  <2> QED BY <2>1 DEF Holds
<1>3. ASSUME NEW e \in Events, rows'[t] = Append(rows[t], e)
      PROVE  \A d : Holds(rows[t], d) => Holds(rows'[t], d)
  <2> DEFINE n == Len(rows[t])
  <2>1. /\ n \in Nat /\ DOMAIN rows[t] = 1..n /\ DOMAIN rows'[t] = 1..(n + 1)
        /\ \A i \in 1..n : rows'[t][i] = rows[t][i]
    BY <1>0, <1>3, AppendProperties, LenProperties
  <2> HIDE DEF n
  <2>2. \A i \in 1..n : i \in 1..(n + 1)
    BY <2>1
  <2> QED BY <2>1, <2>2 DEF Holds
<1>4. ASSUME NEW s \in Threads, SqliteAppend(s)
      PROVE  rows'[t] = rows[t] \/ \E e \in Events : rows'[t] = Append(rows[t], e)
  <2> DEFINE e == [seq |-> Len(rows[s]) + 1, id |-> nextId, created |-> FALSE]
  <2>1. Len(rows[s]) + 1 \in Nat
    BY <1>0, LenProperties
  <2>2. e \in Events
    BY <1>0, <1>4, <2>1, NewEvent DEF SqliteAppend
  <2>3. rows' = [rows EXCEPT ![s] = Append(rows[s], e)]
    BY <1>4 DEF SqliteAppend
  <2> HIDE DEF e
  <2> QED BY <1>0, <2>2, <2>3
<1>5. ASSUME NEW s \in Threads, ImportThread(s)
      PROVE  rows'[t] = rows[t] \/ rows[t] = <<>>
  BY <1>0, <1>5 DEF ImportThread, InsertThread, SameThread, OtherThread
<1> QED
  BY <1>1, <1>2, <1>3, <1>4, <1>5
     DEF Next, MigrationStep, StartMigration, OpenDatabase, MakeBackup, MigrationDone,
         ReadThread, MoveFile, CrashMigration, RollBack, StartSqliteServer, vars

\* Events whose append has returned are kept.
LEMMA AckedStep ==
  ASSUME TypeInv, StoreInv, [Next]_vars
  PROVE  AckedEventsKept'
<1>0. /\ StoreOK /\ AckedEventsKept /\ acked \in [Threads -> SUBSET Events]
      /\ rows \in [Threads -> Seq(Events)]
  BY DEF TypeInv, StoreInv, StoreOK, MoveOK
<1>1. ASSUME NEW t \in Threads, NEW d, Holds(Log(t), d) \/ Holds(rows[t], d)
      PROVE  Holds(ParsedEvents(file'[t]), d) \/ Holds(rows'[t], d)
  BY <1>1, LogsKept, RowsKept
<1>2. ASSUME NEW t \in Threads, NEW d \in acked[t]
      PROVE  Holds(ParsedEvents(file'[t]), d) \/ Holds(rows'[t], d)
  BY <1>0, <1>1, <1>2 DEF AckedEventsKept, Log
<1>3. CASE UNCHANGED acked
  BY <1>2, <1>3 DEF AckedEventsKept
<1>4. CASE Acknowledge
  <2>1. writer.thread \in Threads /\ Holds(Log(writer.thread), writer.event[1])
    BY <1>0, <1>4, WriterForm DEF Acknowledge, StoreInv, WriteInv, Continues, Log
  <2>2. acked' = [acked EXCEPT ![writer.thread] = acked[writer.thread] \cup {writer.event[1]}]
    BY <1>4 DEF Acknowledge
  <2>3. \A t \in Threads : \A d \in acked'[t] :
           d \in acked[t] \/ (t = writer.thread /\ d = writer.event[1])
    BY <1>0, <2>1, <2>2
  <2>4. \A t \in Threads : \A d \in acked'[t] : Holds(ParsedEvents(file'[t]), d) \/ Holds(rows'[t], d)
    BY <1>1, <1>2, <2>1, <2>3
  <2> QED BY <2>4 DEF AckedEventsKept
<1>5. ASSUME NEW s \in Threads, SqliteAppend(s)
      PROVE  AckedEventsKept'
  <2> DEFINE e == [seq |-> Len(rows[s]) + 1, id |-> nextId, created |-> FALSE]
  <2>1. /\ Len(rows[s]) + 1 \in Nat /\ rows[s] \in Seq(Events) /\ e.seq = Len(rows[s]) + 1
        /\ rows' = [rows EXCEPT ![s] = Append(rows[s], e)]
        /\ acked' = [acked EXCEPT ![s] = acked[s] \cup {e}]
    BY <1>0, <1>5, LenProperties DEF SqliteAppend
  <2>2. e \in Events
    BY <1>0, <1>5, <2>1, NewEvent DEF SqliteAppend
  <2> HIDE DEF e
  <2>3. Len(rows[s]) + 1 \in DOMAIN Append(rows[s], e) /\ Append(rows[s], e)[Len(rows[s]) + 1] = e
    BY <2>1, <2>2, AppendProperties, LenProperties
  <2>4. Holds(rows'[s], e)
    BY <1>0, <2>1, <2>3 DEF Holds
  <2>5. \A t \in Threads : \A d \in acked'[t] : d \in acked[t] \/ (t = s /\ d = e)
    BY <1>0, <2>1
  <2>6. \A t \in Threads : \A d \in acked'[t] : Holds(ParsedEvents(file'[t]), d) \/ Holds(rows'[t], d)
    BY <1>2, <2>4, <2>5
  <2> QED BY <2>6 DEF AckedEventsKept
<1> QED
  BY <1>3, <1>4, <1>5
     DEF Next, JsonlStep, MigrationStep, StartMigration, OpenDatabase, MakeBackup, MigrationDone,
         ReadThread, ImportThread, Importing, vars, storeVars, OpenForAppend, CreateThread,
         AppendEvent, AppendRepairing, WritePiece, MoveFile, RollBack,
         WriteFails, StartJsonlServer, StopServer, CrashServer, CrashMigration,
         StartSqliteServer

-----------------------------------------------------------------------------
(* The theorems about the files. *)

\* The empty store has the types and the invariant.
LEMMA StoreInit ==
  ASSUME Init
  PROVE  TypeInv /\ StoreInv
<1>1. <<>> \in Seq(Events)
  OBVIOUS
<1>2. EmptyFile \in Files /\ ParsedEvents(EmptyFile) = <<>>
  BY <1>1, FileOf DEF EmptyFile
<1>3. StoreOK
  BY <1>2 DEF Init, JsonlInit, StoreOK
<1>4. MoveOK
  BY <1>1, EndedOK DEF Init, MoveOK
<1>5. Parses(EmptyFile)
  BY <1>2 DEF Parses
<1>6. FileInv
  BY <1>5 DEF Init, JsonlInit, FileInv
<1>7. WriteInv
  BY DEF Init, JsonlInit, WriteInv, NoWriter
<1>8. AckedEventsKept
  BY DEF Init, JsonlInit, AckedEventsKept
<1> QED BY <1>3, <1>4, <1>6, <1>7, <1>8 DEF TypeInv, StoreInv

\* They hold in every reachable state.
LEMMA StoreAlways == Spec => [](TypeInv /\ StoreInv)
<1>1. Init => TypeInv /\ StoreInv
  BY StoreInit
<1>2. TypeInv /\ StoreInv /\ [Next]_vars => (TypeInv /\ StoreInv)'
  <2> SUFFICES ASSUME TypeInv, StoreInv, [Next]_vars
               PROVE  (TypeInv /\ StoreInv)'
    OBVIOUS
  <2>1. TypeInv'
    BY StoreStep, MoveStep DEF TypeInv
  <2>2. StoreInv'
    BY FileStep, WriteStep, AckedStep DEF StoreInv
  <2> QED BY <2>1, <2>2
<1> QED BY <1>1, <1>2, PTL DEF Spec

\* Every file parses, whatever was torn, repaired and torn again: what parse_log
\* and validate_envelope demand of a thread before anything else can be done with it.
THEOREM FilesReadable == Spec => []FilesStayReadable
<1>1. TypeInv /\ StoreInv => FilesStayReadable
  BY DEF StoreInv, FileInv, FilesStayReadable
<1> QED BY <1>1, StoreAlways, PTL

\* An event whose append has returned stays in the thread's file or in its rows,
\* under its number, through crashes of server and migration and through rollbacks
\* (append_event, import_thread, migrate_jsonl_to_sqlite).
THEOREM AckedKept == Spec => []AckedEventsKept
<1>1. TypeInv /\ StoreInv => AckedEventsKept
  BY DEF StoreInv
<1> QED BY <1>1, StoreAlways, PTL

\* The files implement the abstract log: a reader sees events added at the end of a
\* thread, one at a time and with the next number, and nothing else ever happens.
THEOREM FilesImplementLog == Spec => FilesAreLogs
<1> DEFINE logs == [t \in Threads |-> ParsedEvents(file[t])]
<1>1. Init => FileLog!Init
  <2>1. <<>> \in Seq(Events)
    OBVIOUS
  <2>2. ParsedEvents(EmptyFile) = <<>>
    BY <2>1, FileOf DEF EmptyFile
  <2> QED BY <2>2 DEF Init, JsonlInit, FileLog!Init
<1>2. TypeInv /\ StoreInv /\ [Next]_vars => [FileLog!Next]_(logs)
  <2> SUFFICES ASSUME TypeInv, StoreInv, [Next]_vars
               PROVE  logs' = logs \/ FileLog!Next
    OBVIOUS
  <2>1. CASE SameLogs
    BY <2>1 DEF SameLogs, Log
  <2>2. ASSUME NEW t \in Threads, NEW e \in Events, Grows(t, e)
        PROVE  FileLog!Next
    <3>1. logs'[t] = Append(logs[t], e) /\ e.seq = Len(logs[t]) + 1
      BY <2>2 DEF Grows, Log
    <3>2. \A s \in Threads : s # t => logs'[s] = logs[s]
      BY <2>2 DEF Grows
    <3>3. e = [seq |-> Len(logs[t]) + 1, id |-> e.id, created |-> e.created]
      BY <3>1 DEF Events
    <3>4. e.id \in Ids /\ e.created \in BOOLEAN
      BY DEF Events
    <3>5. logs' = [logs EXCEPT ![t] = Append(logs[t], e)]
      BY <3>1, <3>2
    <3>6. FileLog!Add(t, e.id, e.created)
      BY <3>3, <3>5 DEF FileLog!Add
    <3> QED BY <3>4, <3>6 DEF FileLog!Next
  <2> QED BY <2>1, <2>2, LogsStep
<1> QED BY <1>1, <1>2, StoreAlways, PTL DEF Spec, FilesAreLogs, FileLog!Spec

-----------------------------------------------------------------------------
(* What is moved. *)

\* What was read of a file stays in it.
LEMMA ReadStep ==
  ASSUME TypeInv, StoreInv, MoveInv, [Next]_vars
  PROVE  ReadInv'
<1>0. /\ read \in [Threads -> Seq(Events)] /\ ReadInv
      /\ \A t \in Threads : Log(t) \in Seq(Events) /\ \A i \in DOMAIN Log(t) : Log(t)[i].seq = i
  <2>1. \A t \in Threads : file[t] \in Files /\ Parses(file[t])
    BY DEF TypeInv, StoreOK, StoreInv, FileInv
  <2> QED BY <2>1, TailForms DEF Log, Parses, TypeInv, MoveOK, MoveInv
<1>1. ASSUME NEW t \in Threads, read'[t] = read[t] \/ read'[t] = Log(t)
      PROVE  \A i \in DOMAIN read'[t] : read'[t][i].seq = i /\ Holds(Log(t), read'[t][i])
  BY <1>0, <1>1 DEF ReadInv, Holds
<1>2. ASSUME NEW t \in Threads, read'[t] = read[t] \/ read'[t] = Log(t)
      PROVE  \A i \in DOMAIN read'[t] : read'[t][i].seq = i /\ Holds(ParsedEvents(file'[t]), read'[t][i])
  BY <1>1, <1>2, LogsKept
<1>3. \A t \in Threads : read'[t] = read[t] \/ read'[t] = Log(t)
  <2>1. CASE read' = read
    BY <2>1
  <2>2. ASSUME NEW t \in Threads, ReadThread(t)
        PROVE  \A s \in Threads : read'[s] = read[s] \/ read'[s] = Log(s)
    BY <1>0, <2>2 DEF ReadThread, Log
  <2> QED BY <2>1, <2>2 DEF Next, MigrationStep, StartMigration, OpenDatabase, MakeBackup, MigrationDone,
             ImportThread, Importing, MoveFile, CrashMigration, RollBack, StartSqliteServer, SqliteAppend, vars
<1> QED BY <1>2, <1>3 DEF ReadInv, Log

\* What SQLite has of a thread it keeps, as long as the file is not read again.
LEMMA HasKept ==
  ASSUME TypeInv, [Next]_vars, NEW t \in Threads, Has(t), read'[t] = read[t]
  PROVE  Has(t)'
BY RowsKept DEF Has

\* A thread whose rows are what was read of its file is imported.
LEMMA HasImported ==
  ASSUME ReadInv, NEW t \in Threads, read'[t] = read[t], rows'[t] = read[t]
  PROVE  Has(t)'
<1>1. ASSUME NEW i \in DOMAIN read[t] PROVE Holds(rows'[t], read'[t][i])
  BY DEF ReadInv, Holds
<1> QED BY <1>1 DEF Has

\* The files that were found and the files that were read.
LEMMA FoundStep ==
  ASSUME TypeInv, MoveInv, [Next]_vars
  PROVE  FoundInv'
<1>0. /\ FoundInv /\ migration \in Migrations /\ place \in [Threads -> {"none", "active", "backup"}]
      /\ read \in [Threads -> Seq(Events)] /\ Active = {t \in Threads : place[t] = "active"}
  BY DEF MoveInv, TypeInv, StoreOK, MoveOK, Active
<1>1. CASE UNCHANGED <<place, migration, read>>
  BY <1>0, <1>1 DEF FoundInv, Running
<1>2. CASE migration' = Ended /\ UNCHANGED <<place, read>>
  BY <1>0, <1>2 DEF FoundInv, Running, Ended
<1>3. ASSUME NEW t \in Threads, CreateThread(t), UNCHANGED <<migration, read>>
      PROVE  FoundInv'
  BY <1>0, <1>3 DEF FoundInv, Running, CreateThread
<1>4. CASE StartMigration
  <2>1. migration' = [at |-> "read", todo |-> Active, found |-> Active] /\ UNCHANGED <<place, read>>
    BY <1>4 DEF StartMigration, Ended, storeVars
  <2> QED BY <1>0, <2>1 DEF FoundInv, Running
<1>5. ASSUME NEW t \in Threads, ReadThread(t)
      PROVE  FoundInv'
  <2>1. /\ migration.at = "read" /\ t \in migration.todo
        /\ migration'.at = "read" /\ migration'.todo = migration.todo \ {t} /\ migration'.found = migration.found
        /\ place' = place /\ \A s \in Threads : s # t => read'[s] = read[s]
    BY <1>0, <1>5 DEF ReadThread, Migrations, storeVars
  <2>2. t \in migration.found /\ place[t] = "active"
    BY <1>0, <2>1 DEF FoundInv
  <2> QED BY <1>0, <2>1, <2>2 DEF FoundInv, Running
<1>6. CASE OpenDatabase \/ MakeBackup
  <2>1. CASE migration' = Ended
    BY <1>2, <1>6, <2>1 DEF OpenDatabase, MakeBackup, storeVars
  <2>2. CASE migration' # Ended
    <3>1. /\ migration.at \in {"read", "import"} /\ migration'.found = migration.found /\ UNCHANGED <<place, read>>
          /\ migration'.at = "import" => migration'.todo = migration.found
          /\ migration'.at \in {"import", "move"}
      BY <1>0, <1>6, <2>2 DEF OpenDatabase, MakeBackup, Migrations, storeVars
    <3> QED BY <1>0, <3>1 DEF FoundInv, Running
  <2> QED BY <2>1, <2>2
<1>7. ASSUME NEW t \in Threads, ImportThread(t)
      PROVE  FoundInv'
  <2>1. CASE migration' = Ended
    BY <1>2, <1>7, <2>1 DEF ImportThread, Importing, storeVars
  <2>2. CASE Imported(t)
    <3>1. /\ migration.at = "import" /\ migration'.at = "import" /\ migration'.found = migration.found
          /\ migration'.todo = migration.todo \ {t} /\ UNCHANGED <<place, read>>
      BY <1>0, <1>7, <2>2 DEF ImportThread, Importing, Imported, Migrations, storeVars
    <3> QED BY <1>0, <3>1 DEF FoundInv, Running
  <2> QED BY <1>7, <2>1, <2>2 DEF ImportThread, InsertThread, SameThread, OtherThread
<1>8. ASSUME NEW t \in Threads, MoveFile(t)
      PROVE  FoundInv'
  <2>1. /\ migration.at = "move" /\ migration'.at = "move" /\ migration'.found = migration.found /\ read' = read
        /\ place'[t] = "backup" /\ \A s \in Threads : s # t => place'[s] = place[s]
    BY <1>0, <1>8 DEF MoveFile, Migrations
  <2> QED BY <1>0, <2>1 DEF FoundInv, Running
<1>9. CASE RollBack
  <2>1. /\ ~Running /\ migration' = migration /\ read' = read
        /\ \A t \in Threads : place'[t] = "none" => place[t] = "none"
    BY <1>0, <1>9 DEF RollBack
  <2> QED BY <1>0, <2>1 DEF FoundInv, Running
<1> QED
  BY <1>1, <1>2, <1>3, <1>4, <1>5, <1>6, <1>7, <1>8, <1>9
     DEF Next, JsonlStep, MigrationStep, MigrationDone, vars, storeVars, OpenForAppend, Acknowledge,
         AppendEvent, AppendRepairing, WritePiece, WriteFails, StartJsonlServer, StopServer, CrashServer,
         CrashMigration, StartSqliteServer, SqliteAppend

\* Everything that was read is imported before anything is moved.
LEMMA ImportStep ==
  ASSUME TypeInv, MoveInv, [Next]_vars
  PROVE  ImportInv'
<1>0. /\ FoundInv /\ ReadInv /\ ImportInv /\ migration \in Migrations
      /\ place \in [Threads -> {"none", "active", "backup"}]
      /\ read \in [Threads -> Seq(Events)] /\ rows \in [Threads -> Seq(Events)]
      /\ migration.found \subseteq Threads
  BY DEF MoveInv, TypeInv, StoreOK, MoveOK, Migrations
<1>1. ASSUME NEW t \in Threads, Has(t), read'[t] = read[t] PROVE Has(t)'
  BY <1>1, HasKept
<1>2. ASSUME UNCHANGED <<migration, read>>, \A t \in Threads : place'[t] = "backup" => place[t] = "backup"
      PROVE  ImportInv'
  BY <1>0, <1>1, <1>2 DEF ImportInv
<1>3. ASSUME migration'.at \in {"off", "read"}, UNCHANGED <<place, read>>
      PROVE  ImportInv'
  BY <1>0, <1>1, <1>3 DEF ImportInv
<1>4. ASSUME NEW t \in Threads, ReadThread(t)
      PROVE  ImportInv'
  <2>1. /\ migration.at = "read" /\ t \in migration.todo /\ migration'.at = "read"
        /\ place' = place /\ \A s \in Threads : s # t => read'[s] = read[s]
    BY <1>0, <1>4 DEF ReadThread, Migrations, storeVars
  <2>2. place[t] = "active"
    BY <1>0, <2>1 DEF FoundInv
  <2> QED BY <1>0, <1>1, <2>1, <2>2 DEF ImportInv
<1>5. CASE OpenDatabase \/ MakeBackup
  <2>1. CASE migration' = Ended
    BY <1>3, <1>5, <2>1 DEF OpenDatabase, MakeBackup, storeVars, Ended
  <2>2. CASE migration' # Ended
    <3>1. CASE OpenDatabase
      <4>1. /\ migration'.found = migration.found /\ UNCHANGED <<place, read>>
            /\ migration'.at = "import" /\ migration'.todo = migration.found
        BY <1>0, <2>2, <3>1 DEF OpenDatabase, Migrations, storeVars
      <4> QED BY <1>0, <1>1, <4>1 DEF ImportInv
    <3>2. CASE MakeBackup
      <4>1. /\ migration'.found = migration.found /\ UNCHANGED <<place, read>>
            /\ migration'.at = "move" /\ migration.at = "import" /\ migration.todo = {}
        BY <1>0, <3>2 DEF MakeBackup, Migrations, storeVars
      <4> QED BY <1>0, <1>1, <4>1 DEF ImportInv
    <3> QED BY <1>5, <3>1, <3>2
  <2> QED BY <2>1, <2>2
<1>6. ASSUME NEW t \in Threads, ImportThread(t)
      PROVE  ImportInv'
  <2>1. CASE migration' = Ended
    BY <1>3, <1>6, <2>1 DEF ImportThread, Importing, storeVars, Ended
  <2>2. CASE Imported(t)
    <3>1. /\ migration.at = "import" /\ migration'.at = "import" /\ migration'.found = migration.found
          /\ migration'.todo = migration.todo \ {t} /\ UNCHANGED <<place, read>>
      BY <1>0, <1>6, <2>2 DEF ImportThread, Importing, Imported, Migrations, storeVars
    <3>2. CASE rows'[t] = read[t]
      <4>1. Has(t)'
        BY <1>0, <3>1, <3>2, HasImported
      <4> QED BY <1>0, <1>1, <3>1, <4>1 DEF ImportInv
    <3>3. CASE rows'[t] # read[t]
      BY <1>0, <1>6, <2>2, <3>1, <3>3
         DEF ImportThread, InsertThread, SameThread, OtherThread, Imported, Ended
    <3> QED BY <3>2, <3>3
  <2> QED BY <1>6, <2>1, <2>2 DEF ImportThread, InsertThread, SameThread, OtherThread
<1>7. ASSUME NEW t \in Threads, MoveFile(t)
      PROVE  ImportInv'
  <2>1. /\ migration.at = "move" /\ migration'.at = "move" /\ migration'.found = migration.found /\ read' = read
        /\ \A s \in Threads : s # t => place'[s] = place[s]
    BY <1>0, <1>7 DEF MoveFile, Migrations
  <2>2. Has(t)
    <3>1. CASE t \in migration.found
      BY <1>0, <2>1, <3>1 DEF ImportInv
    <3>2. CASE t \notin migration.found
      <4>1. place[t] = "active" \/ place[t] = "none" => DOMAIN read[t] = {}
        BY <1>0, <2>1, <3>2 DEF FoundInv, Running
      <4> QED BY <1>0, <4>1 DEF ImportInv, Has
    <3> QED BY <3>1, <3>2
  <2> QED BY <1>0, <1>1, <2>1, <2>2 DEF ImportInv
<1>8. CASE RollBack
  BY <1>0, <1>2, <1>8 DEF RollBack
<1>9. ASSUME NEW t \in Threads, CreateThread(t), UNCHANGED <<migration, read>>
      PROVE  ImportInv'
  BY <1>0, <1>2, <1>9 DEF CreateThread
<1>10. CASE StartMigration \/ MigrationDone \/ CrashMigration
  <2>1. migration' = [at |-> "read", todo |-> Active, found |-> Active] \/ migration' = Ended
    BY <1>10 DEF StartMigration, MigrationDone, CrashMigration, Ended
  <2>2. migration'.at \in {"off", "read"}
    BY <2>1 DEF Ended
  <2> QED BY <1>3, <1>10, <2>2 DEF StartMigration, MigrationDone, CrashMigration, storeVars
<1>11. CASE UNCHANGED <<place, migration, read>>
  BY <1>2, <1>11
<1> QED
  BY <1>4, <1>5, <1>6, <1>7, <1>8, <1>9, <1>10, <1>11
     DEF Next, JsonlStep, MigrationStep, vars, storeVars,
         OpenForAppend, Acknowledge, AppendEvent, AppendRepairing, WritePiece, WriteFails, StartJsonlServer,
         StopServer, CrashServer, StartSqliteServer, SqliteAppend

\* Whatever servers run meanwhile, what a moved file has and SQLite lacks was written
\* after the migration had read the file (migrate_jsonl_to_sqlite reads everything, then
\* imports everything, then moves; import_thread refuses a thread that differs).
THEOREM OnlyLaterUnimported == Spec => []UnimportedIsLater
<1>1. Init => MoveInv
  <2>1. ASSUME Init PROVE MoveInv
    <3>1. \A t \in Threads : read[t] = <<>> /\ DOMAIN read[t] = {} /\ place[t] = "none"
      BY <2>1 DEF Init, JsonlInit
    <3>2. migration.at = "off"
      BY <2>1 DEF Init, Ended
    <3> QED BY <3>1, <3>2 DEF MoveInv, ReadInv, FoundInv, ImportInv, Running, Has
  <2> QED BY <2>1
<1>2. TypeInv /\ StoreInv /\ MoveInv /\ [Next]_vars => MoveInv'
  BY ReadStep, FoundStep, ImportStep DEF MoveInv
<1>3. TypeInv /\ StoreInv /\ MoveInv => UnimportedIsLater
  <2> SUFFICES ASSUME TypeInv, StoreInv, MoveInv, NEW t \in Threads, place[t] = "backup",
                      NEW i \in DOMAIN Log(t), ~(i > Len(read[t]))
               PROVE  Holds(rows[t], Log(t)[i])
    BY DEF UnimportedIsLater, Log
  <2>1. file[t] \in Files /\ read[t] \in Seq(Events) /\ Log(t)[i].seq = i
    BY DEF TypeInv, StoreOK, MoveOK, StoreInv, FileInv, Parses, Log
  <2>2. Log(t) \in Seq(Events)
    BY <2>1, TailForms DEF Log
  <2>3. i \in DOMAIN read[t]
    <3>1. i \in 1..Len(Log(t)) /\ Len(read[t]) \in Nat /\ DOMAIN read[t] = 1..Len(read[t])
      BY <2>1, <2>2, LenProperties
    <3> QED BY <3>1
  <2>4. read[t][i].seq = i /\ Holds(Log(t), read[t][i]) /\ Holds(rows[t], read[t][i])
    BY <2>3 DEF MoveInv, ReadInv, ImportInv, Has
  <2>5. read[t][i] = Log(t)[i]
    BY <2>4 DEF Holds
  <2> QED BY <2>4, <2>5
<1> QED BY <1>1, <1>2, <1>3, StoreAlways, PTL DEF Spec
=============================================================================
