------------------------------ MODULE JsonlStore ------------------------------
(***************************************************************************)
(* The JSONL store (store/jsonl.rs): one file per thread, one line per     *)
(* event, written by one process under its mutation lock. A write reaches  *)
(* the file piece by piece, and the process may die, or the disk be full,  *)
(* after any piece; the next append repairs the end of the file.           *)
(***************************************************************************)
EXTENDS Naturals, Sequences, FiniteSets, SequencesExt

CONSTANTS Threads,      \* thread ids
          NoThread,
          MaxEvents,    \* bound: events that are ever written
          MaxFaults     \* bound: crashes and failed writes

ASSUME StoreAssumption == NoThread \notin Threads /\ MaxEvents \in Nat /\ MaxFaults \in Nat

VARIABLES file,     \* [lines, tail] of every thread, its place aside
          place,    \* "none", "active" (in the store's directory) or "backup"
          server,   \* "off", or the back end of the process that serves
          writer,   \* the append or creation that holds the lock
          acked,    \* history: the events whose append has returned, per thread
          nextId,   \* history: identity of the next event
          faults    \* history: crashes and failed writes so far

storeVars == <<file, place, server, writer, acked, nextId, faults>>

Ids == 1..MaxEvents
Event == [seq : 1..MaxEvents, id : Ids, created : BOOLEAN]

\* The bytes behind the last newline: none, a line without its newline (an
\* event), or something that does not parse.
Clean == [is |-> "clean", event |-> <<>>]
Torn == [is |-> "torn", event |-> <<>>]
Whole(e) == [is |-> "whole", event |-> <<e>>]

EmptyFile == [lines |-> <<>>, tail |-> Clean]
NoWriter == [thread |-> NoThread, at |-> "idle", event |-> <<>>, first |-> "line"]
Idle == writer.at = "idle"

JsonlInit ==
    /\ file = [t \in Threads |-> EmptyFile]
    /\ place = [t \in Threads |-> "none"]
    /\ server = "off"
    /\ writer = NoWriter
    /\ acked = [t \in Threads |-> {}]
    /\ nextId = 1
    /\ faults = 0

-----------------------------------------------------------------------------
(* Reading a file. *)

\* parse_log: the complete lines, and the trailing bytes when they are a whole
\* event. validate_envelope refuses a gap or a repetition in the numbers.
ParsedEvents(f) == f.lines \o f.tail.event
Parses(f) == \A i \in DOMAIN ParsedEvents(f) : ParsedEvents(f)[i].seq = i

\* reconstruct_thread needs a first event that is thread_created.
Reconstructs(f) == /\ Parses(f)
                   /\ ParsedEvents(f) # <<>>
                   /\ ParsedEvents(f)[1].created

-----------------------------------------------------------------------------
(* Writing, under the mutation lock. *)

\* Faulty form of the next: the trailing bytes are forgotten.
NextSeqOfLines(f) == Len(f.lines) + 1

NextSeq(f) == IF ParsedEvents(f) = <<>> THEN 1 ELSE Last(ParsedEvents(f)).seq + 1

\* create_thread: the file is created, empty, and the first event is to be written.
CreateThread(t) ==
    /\ server = "jsonl" /\ Idle
    /\ place[t] = "none" /\ nextId <= MaxEvents
    /\ place' = [place EXCEPT ![t] = "active"]
    /\ file' = [file EXCEPT ![t] = EmptyFile]
    /\ writer' = [thread |-> t, at |-> "write", first |-> "line",
                  event |-> <<[seq |-> 1, id |-> nextId, created |-> TRUE]>>]
    /\ nextId' = nextId + 1
    /\ UNCHANGED <<server, acked, faults>>

\* append_event up to the repair: read, parse, choose the seq; a line that does
\* not parse is cut off, a missing newline is put before the new line. Clients
\* know only threads whose creation has returned.
AppendRepairing(t, cut) ==
    /\ server = "jsonl" /\ Idle
    /\ place[t] = "active" /\ acked[t] # {} /\ nextId <= MaxEvents
    /\ Parses(file[t])
    /\ writer' = [thread |-> t, at |-> "open",
                  first |-> IF file[t].tail.is \in cut \cup {"clean"} THEN "line" ELSE "newline",
                  event |-> <<[seq |-> NextSeq(file[t]), id |-> nextId, created |-> FALSE]>>]
    /\ file' = IF file[t].tail.is \in cut THEN [file EXCEPT ![t].tail = Clean] ELSE file
    /\ nextId' = nextId + 1
    /\ UNCHANGED <<place, server, acked, faults>>
\* Faulty form of the next: an event that only misses its newline is cut off too.
AppendEventCuttingAll(t) == AppendRepairing(t, {"torn", "whole"})
AppendEvent(t) == AppendRepairing(t, {"torn"})

\* The file is opened for appending; a file that has been moved away is not found.
OpenForAppend ==
    /\ writer.at = "open"
    /\ writer' = IF place[writer.thread] = "active" THEN [writer EXCEPT !.at = "write"] ELSE NoWriter
    /\ UNCHANGED <<file, place, server, acked, nextId, faults>>

\* write_all, piece by piece: the newline that was missing, a part of the line,
\* the rest of it, its newline.
WritePiece ==
    LET t == writer.thread
        f == file[t]
        e == writer.event[1]
    IN  /\ writer.at = "write"
        /\ \/ /\ writer.first = "newline"
              /\ file' = [file EXCEPT ![t] = [lines |-> Append(f.lines, f.tail.event[1]), tail |-> Clean]]
              /\ writer' = [writer EXCEPT !.first = "line"]
           \/ /\ writer.first = "line" /\ f.tail.is = "clean"
              /\ file' = [file EXCEPT ![t].tail = Torn] /\ UNCHANGED writer
           \/ /\ writer.first = "line" /\ f.tail.is = "torn"
              /\ file' = [file EXCEPT ![t].tail = Whole(e)] /\ UNCHANGED writer
           \/ /\ writer.first = "line" /\ f.tail.is = "whole"
              /\ file' = [file EXCEPT ![t] = [lines |-> Append(f.lines, e), tail |-> Clean]]
              /\ writer' = [writer EXCEPT !.at = "written"]
        /\ UNCHANGED <<place, server, acked, nextId, faults>>

\* flush has returned, and so does the operation.
Acknowledge ==
    /\ writer.at = "written"
    /\ acked' = [acked EXCEPT ![writer.thread] = @ \cup {writer.event[1]}]
    /\ writer' = NoWriter
    /\ UNCHANGED <<file, place, server, nextId, faults>>

\* A write or flush fails: the caller gets an error, the bytes stay.
WriteFails ==
    /\ ~Idle /\ faults < MaxFaults
    /\ writer' = NoWriter
    /\ faults' = faults + 1
    /\ UNCHANGED <<file, place, server, acked, nextId>>

StartJsonlServer ==
    /\ server = "off"
    /\ server' = "jsonl"
    /\ UNCHANGED <<file, place, writer, acked, nextId, faults>>

\* The serving process ends between two operations.
StopServer ==
    /\ server # "off" /\ Idle
    /\ server' = "off"
    /\ UNCHANGED <<file, place, writer, acked, nextId, faults>>

CrashServer ==
    /\ server # "off" /\ faults < MaxFaults
    /\ server' = "off"
    /\ writer' = NoWriter
    /\ faults' = faults + 1
    /\ UNCHANGED <<file, place, acked, nextId>>

JsonlStep ==
    \/ \E t \in Threads : CreateThread(t) \/ AppendEvent(t)
    \/ OpenForAppend \/ WritePiece \/ Acknowledge \/ WriteFails
    \/ StartJsonlServer \/ StopServer \/ CrashServer

-----------------------------------------------------------------------------
(* Properties of the files. *)

\* Whatever was torn, repaired and torn again, every file can be read: its
\* numbers have no gap and no repetition (parse_log refuses the whole thread
\* otherwise, and list_threads and a migration with it).
FilesStayReadable == \A t \in Threads : Parses(file[t])

\* A reader of a thread's file sees a log that only grows at its end, by events
\* with the next number: torn writes, repairs and crashes do not show.
FileLog == INSTANCE EventLog WITH entries <- [t \in Threads |-> ParsedEvents(file[t])]
FilesAreLogs == FileLog!Spec
=============================================================================
