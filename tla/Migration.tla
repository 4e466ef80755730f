------------------------------ MODULE Migration ------------------------------
(***************************************************************************)
(* The JSONL store, the SQLite store and the command that moves threads    *)
(* from one to the other (store/migrate.rs, import_thread): a process of   *)
(* its own that lists, reads, imports and moves files one by one, may die  *)
(* between any two of these steps, and is run again. A server may be       *)
(* started on either store, before it or while it runs: the SQLite file is *)
(* locked by whoever has it open, the JSONL directory has no lock.         *)
(***************************************************************************)
EXTENDS JsonlStore

VARIABLES rows,      \* events of each thread in SQLite, none if it is not there
          migration, \* the migrating process: where it is, what is left to do
          read       \* what it has read of each file; a history once it has ended

vars == <<storeVars, rows, migration, read>>

Ended == [at |-> "off", todo |-> {}, found |-> {}]

TypeOK ==
    /\ file \in [Threads -> [lines : Seq(Event), tail : [is : {"clean", "torn", "whole"}, event : Seq(Event)]]]
    /\ place \in [Threads -> {"none", "active", "backup"}]
    /\ server \in {"off", "jsonl", "sqlite"}
    /\ writer.thread \in Threads \cup {NoThread}
    /\ writer.at \in {"idle", "open", "write", "written"}
    /\ acked \in [Threads -> SUBSET Event]
    /\ rows \in [Threads -> Seq(Event)]
    /\ migration.at \in {"off", "read", "import", "move"}
    /\ migration.todo \subseteq Threads /\ migration.found \subseteq Threads
    /\ read \in [Threads -> Seq(Event)]
    /\ nextId \in 1..(MaxEvents + 1) /\ faults \in 0..MaxFaults

Init == /\ JsonlInit
        /\ rows = [t \in Threads |-> <<>>]
        /\ migration = Ended
        /\ read = [t \in Threads |-> <<>>]

Running == migration.at # "off"
\* The migration opens the database once everything has been read.
HasDatabase == migration.at \in {"import", "move"}
Active == {t \in Threads : place[t] = "active"}

-----------------------------------------------------------------------------
(* The migrating process. *)

\* list_threads: one file that is not a thread fails the whole listing.
StartMigration ==
    /\ ~Running
    /\ \A t \in Active : Reconstructs(file[t])
    /\ migration' = [Ended EXCEPT !.at = "read", !.todo = Active, !.found = Active]
    /\ UNCHANGED <<storeVars, rows, read>>

ReadThread(t) ==
    /\ migration.at = "read" /\ t \in migration.todo
    /\ migration' = [migration EXCEPT !.todo = @ \ {t}]
    /\ read' = [read EXCEPT ![t] = ParsedEvents(file[t])]
    /\ UNCHANGED <<storeVars, rows>>

\* SqliteStore::open takes the lock or fails at once.
OpenDatabase ==
    /\ migration.at = "read" /\ migration.todo = {}
    /\ migration' = IF server = "sqlite" THEN Ended
                    ELSE [migration EXCEPT !.at = "import", !.todo = migration.found]
    /\ UNCHANGED <<storeVars, rows, read>>

\* import_thread, one transaction: a thread that is there already must be the
\* same, event for event; if it is not, the migration ends with an error.
Importing(t) == migration.at = "import" /\ t \in migration.todo /\ UNCHANGED <<storeVars, read>>
Imported(t) == migration' = [migration EXCEPT !.todo = @ \ {t}]

InsertThread(t) ==
    /\ rows[t] = <<>>
    /\ rows' = [rows EXCEPT ![t] = read[t]]
    /\ Imported(t)
SameThread(t) ==
    /\ rows[t] # <<>> /\ rows[t] = read[t]
    /\ Imported(t) /\ UNCHANGED rows
OtherThread(t) ==
    /\ rows[t] # <<>> /\ rows[t] # read[t]
    /\ migration' = Ended /\ UNCHANGED rows

\* Faulty forms of the next: the import replaces what is there; goes on to the
\* next thread when it differs; refuses what is there even if it is the same.
ImportThreadReplacing(t) ==
    Importing(t) /\ rows' = [rows EXCEPT ![t] = read[t]] /\ Imported(t)
ImportThreadSkipping(t) ==
    Importing(t) /\ (InsertThread(t) \/ (rows[t] # <<>> /\ Imported(t) /\ UNCHANGED rows))
ImportThreadOnce(t) ==
    Importing(t) /\ (InsertThread(t) \/ (rows[t] # <<>> /\ migration' = Ended /\ UNCHANGED rows))
ImportThread(t) == Importing(t) /\ (InsertThread(t) \/ SameThread(t) \/ OtherThread(t))

\* All imported: the backup directory is made and the store's directory is read
\* again; whatever is there by now is moved, file by file.
MakeBackup ==
    /\ migration.at = "import" /\ migration.todo = {}
    /\ migration' = [migration EXCEPT !.at = "move", !.todo = Active]
    /\ UNCHANGED <<storeVars, rows, read>>

MoveFile(t) ==
    /\ migration.at = "move" /\ t \in migration.todo
    /\ place' = [place EXCEPT ![t] = "backup"]
    /\ migration' = [migration EXCEPT !.todo = @ \ {t}]
    /\ UNCHANGED <<file, server, writer, acked, nextId, faults, rows, read>>

MigrationDone ==
    /\ migration.at = "move" /\ migration.todo = {}
    /\ migration' = Ended
    /\ UNCHANGED <<storeVars, rows, read>>

CrashMigration ==
    /\ Running /\ faults < MaxFaults
    /\ migration' = Ended
    /\ faults' = faults + 1
    /\ UNCHANGED <<file, place, server, writer, acked, nextId, rows, read>>

\* The operator's rollback: the files are copied back from the backup.
RollBack ==
    /\ server = "off" /\ ~Running /\ faults < MaxFaults
    /\ \E t \in Threads : place[t] = "backup"
    /\ place' = [t \in Threads |-> IF place[t] = "backup" THEN "active" ELSE place[t]]
    /\ faults' = faults + 1
    /\ UNCHANGED <<file, server, writer, acked, nextId, rows, migration, read>>

-----------------------------------------------------------------------------
(* A server on the SQLite store; its appends are transactions. *)

StartSqliteServer ==
    /\ server = "off" /\ ~HasDatabase
    /\ server' = "sqlite"
    /\ UNCHANGED <<file, place, writer, acked, nextId, faults, rows, migration, read>>

SqliteAppend(t) ==
    LET e == [seq |-> Len(rows[t]) + 1, id |-> nextId, created |-> FALSE]
    IN  /\ server = "sqlite" /\ nextId <= MaxEvents
        /\ rows[t] # <<>>
        /\ rows' = [rows EXCEPT ![t] = Append(@, e)]
        /\ acked' = [acked EXCEPT ![t] = @ \cup {e}]
        /\ nextId' = nextId + 1
        /\ UNCHANGED <<file, place, server, writer, faults, migration, read>>

-----------------------------------------------------------------------------
MigrationStep ==
    \/ StartMigration \/ OpenDatabase \/ MakeBackup \/ MigrationDone
    \/ \E t \in Threads : ReadThread(t) \/ ImportThread(t) \/ MoveFile(t)

Next ==
    \/ JsonlStep /\ UNCHANGED <<rows, migration, read>>
    \/ MigrationStep \/ CrashMigration \/ RollBack \/ StartSqliteServer
    \/ \E t \in Threads : SqliteAppend(t)

Spec == Init /\ [][Next]_vars

\* The operator repeats the command and does not leave a server on for ever, and
\* a process that can go on does; nobody has to start a server or to write.
FairSpec ==
    /\ Spec
    /\ SF_vars(StartMigration)
    /\ WF_vars(MigrationStep)
    /\ WF_vars(StopServer /\ UNCHANGED <<rows, migration, read>>)
    /\ WF_vars((OpenForAppend \/ WritePiece \/ Acknowledge) /\ UNCHANGED <<rows, migration, read>>)

-----------------------------------------------------------------------------
(* Properties. *)

Holds(events, e) == e.seq \in DOMAIN events /\ events[e.seq] = e

\* An event whose append has returned is in the thread's file or in its rows,
\* under the number that was returned, through torn writes, repairs, crashes of
\* the server and of the migration, repetitions and rollbacks.
AckedEventsKept ==
    \A t \in Threads : \A e \in acked[t] : Holds(ParsedEvents(file[t]), e) \/ Holds(rows[t], e)

\* What a moved file has and SQLite lacks was written after the migration had
\* read the file: whatever it read, also of a thread that was there already, is
\* imported before anything is moved, and stays as it was read.
UnimportedIsLater ==
    \A t \in Threads : place[t] = "backup" =>
        \A i \in DOMAIN ParsedEvents(file[t]) :
            Holds(rows[t], ParsedEvents(file[t])[i]) \/ i > Len(read[t])

\* "锁定本地 store，扫描并校验所有 Thread" (v0.5-continuity.md, the first step of the
\* migration): nothing is written to a file between its reading and its move, so
\* SQLite has every event that was acknowledged of a file that is moved away.
\* Nothing locks the JSONL directory, and the move takes whatever is there.
MovedFilesAreImported ==
    \A t \in Threads : place[t] = "backup" => \A e \in acked[t] : Holds(rows[t], e)

\* What makes every repetition fail: a file whose thread_created never got
\* there, or a thread that one of the stores has appended to since its import.
Refused == \E t \in Active :
              \/ ~Reconstructs(file[t])
              \/ rows[t] # <<>> /\ rows[t] # ParsedEvents(file[t])

\* An interrupted migration can be repeated: if from some time on it runs with
\* the servers stopped, in the end everything has been moved, unless a
\* repetition is refused for one of these two reasons.
RepeatedMigrationFinishes ==
    <>[](Running => server = "off") => <>[](Active = {} \/ Refused)
=============================================================================
