---------------------------- MODULE EvidenceProofs ----------------------------
(***************************************************************************)
(* Proofs about Evidence. A reference in the log leads to its artifact,    *)
(* whichever threads store the same content at the same time and wherever  *)
(* a write breaks off. The graph rebuilt from the log holds what the       *)
(* results of the log show, in full or cut to an excerpt, with the results *)
(* that showed it; and the answer to a query keeps what was seen first.    *)
(***************************************************************************)
EXTENDS Evidence, SequenceLaws

Tasks == [at : {"idle", "check", "open", "write", "emit"}, payload : SUBSET Payloads]

\* An entry is a message or a failure, which shows no result, or one result.
Shown(p) == IF p \in Large THEN ArtifactTopologyProjection(p) ELSE {p}
Plain == [content : {{}}, shows : {{}}, evidence : {{}}, alert : Alerts \cup {None}, at : Nat]
Emitted(p) == [content : {{p}}, shows : {Shown(p)}, evidence : {{n} : n \in Nat}, alert : {None}, at : Nat]
Entries == Plain \cup UNION {Emitted(p) : p \in Payloads}

TypeInv ==
    /\ log \in [Threads -> Seq(Entries)]
    /\ task \in [Threads -> Tasks]
    /\ artifact \in [Large -> {"none", "part", "whole"}]
    /\ clock \in Nat /\ nextId \in Nat

\* A task has one result on its way, which is large while it is being stored,
\* and whose file exists once the task has opened it or found it.
TaskInv ==
    \A t \in Threads : task[t].at # "idle" =>
        \E p \in Payloads :
            /\ task[t].payload = {p}
            /\ task[t].at # "emit" => p \in Large
            /\ task[t].at \in {"write", "emit"} /\ p \in Large => artifact[p] # "none"

\* Somebody is writing this artifact.
BeingWritten(d) == \E t \in Threads : task[t].at = "write" /\ task[t].payload = {d}

\* A file that is there in part is being written, or its write broke off.
PartInv == \A d \in Large : artifact[d] = "part" => d \in cut \/ BeingWritten(d)

\* What the log refers to exists.
LogInv == \A t \in Threads : \A i \in DOMAIN log[t] :
              \A p \in log[t][i].content \cap Large : artifact[p] # "none"

Inv == TypeInv /\ TaskInv /\ PartInv /\ LogInv
-----------------------------------------------------------------------------
(* What the operators of the model are worth under the invariant. *)

\* The payload of a task that has one result is that result.
LEMMA PayloadIs ==
  ASSUME NEW t, NEW p, task[t].payload = {p}
  PROVE  Payload(t) = p
  BY DEF Payload

\* A task that is at work has one payload, of which TaskInv speaks.
LEMMA AtWork ==
  ASSUME TypeInv, TaskInv, NEW t \in Threads, task[t].at # "idle"
  PROVE  /\ Payload(t) \in Payloads
         /\ task[t] = [at |-> task[t].at, payload |-> {Payload(t)}] /\ task[t].payload = {Payload(t)}
         /\ task[t].at # "emit" => Payload(t) \in Large
         /\ task[t].at \in {"write", "emit"} /\ Payload(t) \in Large => artifact[Payload(t)] # "none"
<1>1. PICK p \in Payloads :
         /\ task[t].payload = {p}
         /\ task[t].at # "emit" => p \in Large
         /\ task[t].at \in {"write", "emit"} /\ p \in Large => artifact[p] # "none"
  BY DEF TaskInv
<1>2. Payload(t) = p
  BY <1>1, PayloadIs
<1>3. task[t] \in Tasks
  BY DEF TypeInv
<1>4. task[t] = [at |-> task[t].at, payload |-> {p}]
  BY <1>1, <1>3 DEF Tasks
<1> QED BY <1>1, <1>2, <1>4

\* The writers of an artifact, as the model has them, are those of PartInv.
LEMMA WritersAre ==
  ASSUME TypeInv, TaskInv, NEW d
  PROVE  /\ \A t \in Writers(d) : t \in Threads /\ task[t].at = "write" /\ task[t].payload = {d}
         /\ \A t \in Threads : task[t].at = "write" /\ task[t].payload = {d} => t \in Writers(d)
         /\ BeingWritten(d) <=> Writers(d) # {}
<1>1. ASSUME NEW t \in Writers(d)
      PROVE  t \in Threads /\ task[t].at = "write" /\ task[t].payload = {d}
  <2>1. t \in Threads /\ task[t].at = "write" /\ Payload(t) = d
    BY <1>1 DEF Writers, At
  <2>2. task[t] = [at |-> task[t].at, payload |-> {d}]
    BY <2>1, AtWork
  <2> QED BY <2>1, <2>2
<1>2. ASSUME NEW t \in Threads, task[t].at = "write", task[t].payload = {d}
      PROVE  t \in Writers(d)
  BY <1>2, PayloadIs DEF Writers, At
<1>3. BeingWritten(d) <=> Writers(d) # {}
  BY <1>1, <1>2 DEF BeingWritten
<1> QED BY <1>1, <1>2, <1>3

\* An entry whose references exist may be added to a log.
LEMMA EntryAdded ==
  ASSUME TypeInv, LogInv, NEW t \in Threads, NEW e \in Entries, AppendEntry(t, e),
         \A p \in e.content \cap Large : artifact[p] # "none", artifact' = artifact
  PROVE  log' \in [Threads -> Seq(Entries)] /\ LogInv'
<1>1. log' = [log EXCEPT ![t] = Append(log[t], e)]
  BY DEF AppendEntry
<1>2. log[t] \in Seq(Entries) /\ log \in [Threads -> Seq(Entries)]
  BY DEF TypeInv
<1>3. Append(log[t], e) \in Seq(Entries)
  BY <1>2, AppendProperties
<1>4. log' \in [Threads -> Seq(Entries)]
  BY <1>1, <1>2, <1>3
<1>5. ASSUME NEW u \in Threads, NEW i \in DOMAIN log'[u], NEW p \in log'[u][i].content \cap Large
      PROVE  artifact[p] # "none"
  <2>1. CASE u = t
    <3>1. log'[u] = Append(log[t], e)
      BY <1>1, <1>2, <2>1
    <3>2. Len(log[t]) \in Nat /\ DOMAIN log[t] = 1..Len(log[t]) /\ DOMAIN log'[u] = 1..(Len(log[t]) + 1)
      BY <1>2, <3>1, LenProperties, AppendProperties
    <3>3. CASE i = Len(log[t]) + 1
      BY <1>2, <1>5, <3>1, <3>3, AppendProperties
    <3>4. CASE i # Len(log[t]) + 1
      <4>1. i \in 1..Len(log[t])
        BY <1>5, <3>2, <3>4
      <4>2. log'[u][i] = log[t][i]
        BY <1>2, <3>1, <4>1, AppendProperties
      <4> QED BY <1>5, <3>2, <4>1, <4>2 DEF LogInv
    <3> QED BY <3>3, <3>4
  <2>2. CASE u # t
    BY <1>1, <1>2, <1>5, <2>2 DEF LogInv
  <2> QED BY <2>1, <2>2
<1>6. LogInv'
  BY <1>5 DEF LogInv
<1> QED BY <1>4, <1>6

\* Files that stay keep what the logs refer to.
LEMMA FilesKept ==
  ASSUME TypeInv, LogInv, log' = log,
         \A d \in Large : artifact[d] # "none" => artifact'[d] # "none"
  PROVE  LogInv'
<1>1. ASSUME NEW t \in Threads, NEW i \in DOMAIN log[t], NEW p \in log[t][i].content \cap Large
      PROVE  artifact'[p] # "none"
  BY <1>1 DEF LogInv
<1> QED BY <1>1 DEF LogInv

\* A task that neither writes nor comes to write leaves the writers alone.
LEMMA NoWriter ==
  ASSUME TypeInv, PartInv, NEW t \in Threads, NEW to, task' = [task EXCEPT ![t] = to],
         task[t].at # "write", artifact' = artifact, cut' = cut
  PROVE  PartInv'
<1>1. ASSUME NEW d \in Large, BeingWritten(d)
      PROVE  BeingWritten(d)'
  <2>1. PICK u \in Threads : task[u].at = "write" /\ task[u].payload = {d}
    BY <1>1 DEF BeingWritten
  <2>2. task'[u] = task[u]
    BY <2>1 DEF TypeInv
  <2> QED BY <2>1, <2>2 DEF BeingWritten
<1> QED BY <1>1 DEF PartInv

\* A task that moves keeps TaskInv when its new place is as TaskInv says.
LEMMA TaskMoved ==
  ASSUME TypeInv, TaskInv, NEW t \in Threads, NEW to \in Tasks, task' = [task EXCEPT ![t] = to],
         \A d \in Large : artifact[d] # "none" => artifact'[d] # "none",
         to.at # "idle" =>
            \E p \in Payloads :
                /\ to.payload = {p}
                /\ to.at # "emit" => p \in Large
                /\ to.at \in {"write", "emit"} /\ p \in Large => artifact'[p] # "none"
  PROVE  task' \in [Threads -> Tasks] /\ TaskInv'
<1>1. task' \in [Threads -> Tasks]
  BY DEF TypeInv
<1>2. ASSUME NEW u \in Threads, task'[u].at # "idle"
      PROVE  \E p \in Payloads :
                /\ task'[u].payload = {p}
                /\ task'[u].at # "emit" => p \in Large
                /\ task'[u].at \in {"write", "emit"} /\ p \in Large => artifact'[p] # "none"
  <2>1. CASE u = t
    <3>1. task'[u] = to
      BY <2>1 DEF TypeInv
    <3> QED BY <1>2, <3>1
  <2>2. CASE u # t
    <3>1. task'[u] = task[u]
      BY <2>2 DEF TypeInv
    <3> QED BY <1>2, <3>1 DEF TaskInv
  <2> QED BY <2>1, <2>2
<1> QED BY <1>1, <1>2 DEF TaskInv

\* To stand at another place is to have a new record with the same payload.
LEMMA GoMoves ==
  ASSUME TypeInv, TaskInv, NEW t \in Threads, task[t].at # "idle", NEW where, Go(t, where)
  PROVE  task' = [task EXCEPT ![t] = [at |-> where, payload |-> {Payload(t)}]]
<1>1. task[t] = [at |-> task[t].at, payload |-> {Payload(t)}]
  BY AtWork
<1>2. [task[t] EXCEPT !.at = where] = [at |-> where, payload |-> {Payload(t)}]
  BY <1>1
<1>3. task' = [task EXCEPT ![t] = [task[t] EXCEPT !.at = where]]
  BY DEF Go
<1> QED BY <1>2, <1>3
-----------------------------------------------------------------------------
(* The steps. *)

\* Messages and failed tools add entries that refer to nothing.
LEMMA PlainEntry ==
  ASSUME Inv, NEW t \in Threads, NEW s \in Alerts \cup {None},
         AppendEntry(t, Entry({}, {}, {}, s)), UNCHANGED <<task, artifact, clock, nextId, cut, faults>>
  PROVE  Inv'
<1>1. Entry({}, {}, {}, s) \in Entries /\ Entry({}, {}, {}, s).content = {}
  BY DEF Entry, Entries, Plain, Inv, TypeInv
<1>2. log' \in [Threads -> Seq(Entries)] /\ LogInv'
  BY <1>1, EntryAdded DEF Inv
<1> QED BY <1>2 DEF Inv, TypeInv, TaskInv, PartInv, BeingWritten

\* A result that has come in is stored or emitted.
LEMMA ToolReturnedStep ==
  ASSUME Inv, NEW t \in Threads, NEW p \in Payloads, ToolReturned(t, p)
  PROVE  Inv'
<1> DEFINE to == [at |-> IF p \in Large THEN "check" ELSE "emit", payload |-> {p}]
<1>1. to \in Tasks /\ to.payload = {p} /\ to.at \in {"check", "emit"} /\ (to.at # "emit" <=> p \in Large)
  BY DEF Tasks
<1>2. task' = [task EXCEPT ![t] = to] /\ task[t].at = "idle"
  BY DEF ToolReturned, At
<1>3. UNCHANGED <<log, artifact, clock, nextId, cut>>
  BY DEF ToolReturned
<1> HIDE DEF to
<1>4. task' \in [Threads -> Tasks] /\ TaskInv'
  BY <1>1, <1>2, <1>3, TaskMoved DEF Inv
<1>5. PartInv'
  BY <1>2, <1>3, NoWriter DEF Inv
<1>6. LogInv'
  BY <1>3, FilesKept DEF Inv
<1> QED BY <1>3, <1>4, <1>5, <1>6 DEF Inv, TypeInv

\* put_in refuses, finds the file, or goes to open it.
LEMMA PutInStep ==
  ASSUME Inv, NEW t \in Threads, PutIn(t)
  PROVE  Inv'
<1>1. task[t].at = "check" /\ UNCHANGED <<log, artifact, clock, nextId, cut>>
  BY DEF PutIn, PutUnder, At
<1>2. Payload(t) \in Payloads /\ Payload(t) \in Large
  BY <1>1, AtWork DEF Inv
<1>3. ASSUME NEW to \in Tasks, task' = [task EXCEPT ![t] = to],
             \/ to = Idle
             \/ to = [at |-> "emit", payload |-> {Payload(t)}] /\ artifact[Payload(t)] # "none"
             \/ to = [at |-> "open", payload |-> {Payload(t)}]
      PROVE  Inv'
  <2>1. to.at # "idle" =>
            \E p \in Payloads :
                /\ to.payload = {p}
                /\ to.at # "emit" => p \in Large
                /\ to.at \in {"write", "emit"} /\ p \in Large => artifact'[p] # "none"
    BY <1>1, <1>2, <1>3 DEF Idle
  <2>2. task' \in [Threads -> Tasks] /\ TaskInv'
    BY <1>1, <1>3, <2>1, TaskMoved DEF Inv
  <2>3. PartInv'
    BY <1>1, <1>3, NoWriter DEF Inv
  <2>4. LogInv'
    BY <1>1, FilesKept DEF Inv
  <2> QED BY <1>1, <2>2, <2>3, <2>4 DEF Inv, TypeInv
<1>4. CASE task' = [task EXCEPT ![t] = Idle]
  <2>1. Idle \in Tasks
    BY DEF Idle, Tasks
  <2> QED BY <1>3, <1>4, <2>1
<1>5. CASE Go(t, IF artifact[Payload(t)] = "none" THEN "open" ELSE "emit")
  <2>1. CASE artifact[Payload(t)] = "none"
    <3>1. task' = [task EXCEPT ![t] = [at |-> "open", payload |-> {Payload(t)}]]
      BY <1>1, <1>5, <2>1, GoMoves DEF Inv
    <3>2. [at |-> "open", payload |-> {Payload(t)}] \in Tasks
      BY <1>2 DEF Tasks
    <3> QED BY <1>3, <3>1, <3>2
  <2>2. CASE artifact[Payload(t)] # "none"
    <3>1. task' = [task EXCEPT ![t] = [at |-> "emit", payload |-> {Payload(t)}]]
      BY <1>1, <1>5, <2>2, GoMoves DEF Inv
    <3>2. [at |-> "emit", payload |-> {Payload(t)}] \in Tasks
      BY <1>2 DEF Tasks
    <3> QED BY <1>3, <2>2, <3>1, <3>2
  <2> QED BY <2>1, <2>2
<1> QED BY <1>4, <1>5 DEF PutIn, PutUnder

\* Whoever opens the file is its writer.
LEMMA OpenArtifactStep ==
  ASSUME Inv, NEW t \in Threads, OpenArtifact(t)
  PROVE  Inv'
<1> DEFINE to == [at |-> "write", payload |-> {Payload(t)}]
           p == Payload(t)
<1>1. task[t].at = "open" /\ UNCHANGED <<log, clock, nextId, cut>>
      /\ artifact' = [artifact EXCEPT ![p] = "part"]
  BY DEF OpenArtifact, At
<1>2. p \in Payloads /\ p \in Large
  BY <1>1, AtWork DEF Inv
<1>3. task' = [task EXCEPT ![t] = to]
  BY <1>1, GoMoves DEF Inv, OpenArtifact
<1>4. to \in Tasks /\ to.at = "write" /\ to.payload = {p}
  BY <1>2 DEF Tasks
<1> HIDE DEF to, p
<1>5. artifact' \in [Large -> {"none", "part", "whole"}] /\ artifact'[p] = "part"
      /\ \A d \in Large : d # p => artifact'[d] = artifact[d]
  BY <1>1, <1>2 DEF Inv, TypeInv
<1>6. \A d \in Large : artifact[d] # "none" => artifact'[d] # "none"
  BY <1>5
<1>7. task' \in [Threads -> Tasks] /\ TaskInv'
  BY <1>2, <1>3, <1>4, <1>5, <1>6, TaskMoved DEF Inv
<1>8. LogInv'
  BY <1>1, <1>6, FilesKept DEF Inv
<1>9. ASSUME NEW d \in Large, artifact'[d] = "part"
      PROVE  d \in cut' \/ BeingWritten(d)'
  <2>1. CASE d = p
    <3>1. task'[t] = to
      BY <1>3 DEF Inv, TypeInv
    <3> QED BY <1>4, <2>1, <3>1 DEF BeingWritten
  <2>2. CASE d # p
    <3>1. d \in cut \/ BeingWritten(d)
      BY <1>5, <1>9, <2>2 DEF Inv, PartInv
    <3>2. CASE BeingWritten(d)
      <4>1. PICK u \in Threads : task[u].at = "write" /\ task[u].payload = {d}
        BY <3>2 DEF BeingWritten
      <4>2. task'[u] = task[u]
        BY <1>1, <1>3, <4>1 DEF Inv, TypeInv
      <4> QED BY <4>1, <4>2 DEF BeingWritten
    <3> QED BY <1>1, <3>1, <3>2
  <2> QED BY <2>1, <2>2
<1>10. PartInv'
  BY <1>9 DEF PartInv
<1> QED BY <1>1, <1>5, <1>7, <1>8, <1>10 DEF Inv, TypeInv

\* A write fills the file, unless another writer is left.
LEMMA WriteArtifactStep ==
  ASSUME Inv, NEW t \in Threads, WriteArtifact(t)
  PROVE  Inv'
<1> DEFINE to == [at |-> "emit", payload |-> {Payload(t)}]
           p == Payload(t)
<1>1. task[t].at = "write" /\ UNCHANGED <<log, clock, nextId, cut>>
  BY DEF WriteArtifact, At
<1>2. p \in Payloads /\ p \in Large /\ artifact[p] # "none" /\ task[t].payload = {p}
  BY <1>1, AtWork DEF Inv
<1>3. task' = [task EXCEPT ![t] = to]
  BY <1>1, GoMoves DEF Inv, WriteArtifact
<1>4. to \in Tasks /\ to.at = "emit" /\ to.payload = {p}
  BY <1>2 DEF Tasks
<1>5. PICK content \in {"whole", "part"} : artifact' = [artifact EXCEPT ![p] = content]
                                      /\ (content = "part" => Writers(p) # {t})
  BY DEF WriteArtifact
<1> HIDE DEF to, p
<1>6. artifact' \in [Large -> {"none", "part", "whole"}] /\ artifact'[p] = content
      /\ \A d \in Large : d # p => artifact'[d] = artifact[d]
  BY <1>2, <1>5 DEF Inv, TypeInv
<1>7. \A d \in Large : artifact[d] # "none" => artifact'[d] # "none"
  BY <1>5, <1>6
<1>8. artifact'[p] # "none"
  BY <1>5, <1>6
<1>9. task' \in [Threads -> Tasks] /\ TaskInv'
  BY <1>2, <1>3, <1>4, <1>7, <1>8, TaskMoved DEF Inv
<1>10. LogInv'
  BY <1>1, <1>7, FilesKept DEF Inv
<1>11. ASSUME NEW d \in Large, artifact'[d] = "part"
       PROVE  d \in cut' \/ BeingWritten(d)'
  <2>1. ASSUME NEW u \in Threads, u # t, task[u].at = "write", task[u].payload = {d}
        PROVE  BeingWritten(d)'
    <3>1. task'[u] = task[u]
      BY <1>3, <2>1 DEF Inv, TypeInv
    <3> QED BY <2>1, <3>1 DEF BeingWritten
  <2>2. CASE d = p
    <3>1. t \in Writers(p) /\ Writers(p) # {t}
      BY <1>1, <1>2, <1>5, <1>6, <1>11, <2>2, WritersAre DEF Inv
    <3>2. PICK u \in Writers(p) : u # t
      BY <3>1
    <3> QED BY <2>1, <2>2, <3>2, WritersAre DEF Inv
  <2>3. CASE d # p
    <3>1. d \in cut \/ BeingWritten(d)
      BY <1>6, <1>11, <2>3 DEF Inv, PartInv
    <3>2. CASE BeingWritten(d)
      <4>1. PICK u \in Threads : task[u].at = "write" /\ task[u].payload = {d}
        BY <3>2 DEF BeingWritten
      <4>2. u # t
        BY <1>2, <2>3, <4>1
      <4> QED BY <2>1, <4>1, <4>2
    <3> QED BY <1>1, <3>1, <3>2
  <2> QED BY <2>2, <2>3
<1>12. PartInv'
  BY <1>11 DEF PartInv
<1> QED BY <1>1, <1>6, <1>9, <1>10, <1>12 DEF Inv, TypeInv

\* A write that breaks off is remembered by `cut`.
LEMMA WriteFailsStep ==
  ASSUME Inv, NEW t \in Threads, WriteFails(t)
  PROVE  Inv'
<1>1. task[t].at = "write" /\ task' = [task EXCEPT ![t] = Idle] /\ cut' = cut \cup {Payload(t)}
      /\ UNCHANGED <<log, artifact, clock, nextId>>
  BY DEF WriteFails, At
<1>2. task[t].payload = {Payload(t)}
  BY <1>1, AtWork DEF Inv
<1>3. Idle \in Tasks /\ Idle.at = "idle"
  BY DEF Idle, Tasks
<1>4. task' \in [Threads -> Tasks] /\ TaskInv'
  BY <1>1, <1>3, TaskMoved DEF Inv
<1>5. LogInv'
  BY <1>1, FilesKept DEF Inv
<1>6. ASSUME NEW d \in Large, artifact'[d] = "part"
      PROVE  d \in cut' \/ BeingWritten(d)'
  <2>1. d \in cut \/ BeingWritten(d)
    BY <1>1, <1>6 DEF Inv, PartInv
  <2>2. CASE BeingWritten(d)
    <3>1. PICK u \in Threads : task[u].at = "write" /\ task[u].payload = {d}
      BY <2>2 DEF BeingWritten
    <3>2. CASE u = t
      BY <1>1, <1>2, <3>1, <3>2
    <3>3. CASE u # t
      <4>1. task'[u] = task[u]
        BY <1>1, <3>3 DEF Inv, TypeInv
      <4> QED BY <3>1, <4>1 DEF BeingWritten
    <3> QED BY <3>2, <3>3
  <2> QED BY <1>1, <2>1, <2>2
<1>7. PartInv'
  BY <1>6 DEF PartInv
<1> QED BY <1>1, <1>4, <1>5, <1>7 DEF Inv, TypeInv

\* What is emitted refers to a file that TaskInv knows to exist.
LEMMA EmitToolCompletedStep ==
  ASSUME Inv, NEW t \in Threads, EmitToolCompleted(t)
  PROVE  Inv'
<1> DEFINE p == Payload(t)
           shows == IF p \in Large THEN ArtifactTopologyProjection(p) ELSE {p}
           e == Entry({p}, shows, {nextId}, None)
<1>1. task[t].at = "emit" /\ AppendEntry(t, e) /\ task' = [task EXCEPT ![t] = Idle]
      /\ nextId' = nextId + 1 /\ UNCHANGED <<artifact, clock, cut>>
  BY DEF EmitToolCompleted, At
<1>2. p \in Payloads /\ (p \in Large => artifact[p] # "none")
  BY <1>1, AtWork DEF Inv
<1>3. shows = Shown(p)
  BY DEF Shown
<1>4. nextId \in Nat /\ clock \in Nat
  BY DEF Inv, TypeInv
<1>5. e \in Entries /\ e.content = {p}
  <2> HIDE DEF p, shows
  <2>1. e \in Emitted(p) /\ e.content = {p}
    BY <1>3, <1>4 DEF Entry, Emitted
  <2> HIDE DEF e
  <2> QED BY <1>2, <2>1 DEF Entries
<1> HIDE DEF e, p, shows
<1>6. log' \in [Threads -> Seq(Entries)] /\ LogInv'
  BY <1>1, <1>2, <1>5, EntryAdded DEF Inv
<1>7. Idle \in Tasks /\ Idle.at = "idle"
  BY DEF Idle, Tasks
<1>8. task' \in [Threads -> Tasks] /\ TaskInv'
  BY <1>1, <1>7, TaskMoved DEF Inv
<1>9. PartInv'
  BY <1>1, NoWriter DEF Inv
<1> QED BY <1>1, <1>4, <1>6, <1>8, <1>9 DEF Inv, TypeInv

\* A crash cuts everything that is being written.
LEMMA CrashStep ==
  ASSUME Inv, Crash
  PROVE  Inv'
<1>1. task' = [t \in Threads |-> Idle] /\ cut' = cut \cup {d \in Large : Writers(d) # {}}
      /\ UNCHANGED <<log, artifact, clock, nextId>>
  BY DEF Crash
<1>2. Idle \in Tasks /\ Idle.at = "idle"
  BY DEF Idle, Tasks
<1>3. task' \in [Threads -> Tasks] /\ TaskInv'
  BY <1>1, <1>2 DEF TaskInv
<1>4. LogInv'
  BY <1>1, FilesKept DEF Inv
<1>5. ASSUME NEW d \in Large, artifact'[d] = "part"
      PROVE  d \in cut'
  <2>1. d \in cut \/ BeingWritten(d)
    BY <1>1, <1>5 DEF Inv, PartInv
  <2>2. BeingWritten(d) => Writers(d) # {}
    BY WritersAre DEF Inv
  <2> QED BY <1>1, <2>1, <2>2
<1>6. PartInv'
  BY <1>5 DEF PartInv
<1> QED BY <1>1, <1>3, <1>4, <1>6 DEF Inv, TypeInv

\* Every step keeps the invariant.
LEMMA StepKeeps ==
  ASSUME Inv, [Next]_vars
  PROVE  Inv'
<1>1. ASSUME NEW t \in Threads, ToolFailed(t)
      PROVE  Inv'
  BY <1>1, PlainEntry DEF ToolFailed
<1>2. ASSUME NEW t \in Threads, NEW s \in Alerts, UserMessage(t, s)
      PROVE  Inv'
  BY <1>2, PlainEntry DEF UserMessage
<1>3. ASSUME UNCHANGED <<log, task, artifact, nextId, cut>>, clock' \in Nat
      PROVE  Inv'
  <2>1. TypeInv'
    BY <1>3 DEF Inv, TypeInv
  <2>2. TaskInv'
    BY <1>3 DEF Inv, TaskInv
  <2>3. PartInv'
    BY <1>3 DEF Inv, PartInv, BeingWritten
  <2>4. LogInv'
    BY <1>3 DEF Inv, LogInv
  <2> QED BY <2>1, <2>2, <2>3, <2>4 DEF Inv
<1>4. CASE Tick \/ UNCHANGED vars
  <2>1. clock \in Nat
    BY DEF Inv, TypeInv
  <2> QED BY <1>3, <1>4, <2>1 DEF Tick, vars
<1> QED
  BY <1>1, <1>2, <1>4, ToolReturnedStep, PutInStep, OpenArtifactStep, WriteArtifactStep,
     WriteFailsStep, EmitToolCompletedStep, CrashStep DEF Next

\* At first there is nothing.
LEMMA InvInit ==
  ASSUME Init
  PROVE  Inv
<1>1. Idle \in Tasks /\ Idle.at = "idle"
  BY DEF Idle, Tasks
<1>2. TypeInv
  <2>1. <<>> \in Seq(Entries)
    OBVIOUS
  <2> QED BY <1>1, <2>1 DEF Init, TypeInv
<1>3. TaskInv
  BY <1>1 DEF Init, TaskInv
<1>4. PartInv
  BY DEF Init, PartInv
<1>5. LogInv
  BY DEF Init, LogInv
<1> QED BY <1>2, <1>3, <1>4, <1>5 DEF Inv

-----------------------------------------------------------------------------
(* References. *)

\* For any number of threads, results, crashes and failed writes: whatever the
\* log refers to is in the artifact store, and is there in part only while it is
\* being written or after a write of it broke off (emit_tool_result, put_in).
THEOREM ReferencesLead == Spec => []ReferencesResolve
<1>1. Inv => ReferencesResolve
  <2> SUFFICES ASSUME Inv, NEW t \in Threads, NEW e \in ToSet(log[t]), NEW p \in e.content \cap Large
               PROVE  /\ artifact[p] # "none"
                      /\ artifact[p] = "part" => p \in cut \/ Writers(p) # {}
    BY DEF ReferencesResolve, GetIn
  <2>1. PICK i \in DOMAIN log[t] : e = log[t][i]
    BY DEF ToSet
  <2>2. artifact[p] # "none"
    BY <2>1 DEF Inv, LogInv
  <2>3. artifact[p] = "part" => p \in cut \/ BeingWritten(p)
    BY DEF Inv, PartInv
  <2>4. BeingWritten(p) <=> Writers(p) # {}
    BY WritersAre DEF Inv
  <2> QED BY <2>2, <2>3, <2>4
<1> QED BY <1>1, InvInit, StepKeeps, PTL DEF Spec

-----------------------------------------------------------------------------
(* Graphs. What a graph says is a set of facts: a relation and a result that *)
(* shows it.                                                                  *)

\* An id is a kind and a name, or the key and the label of a selector; the
\* provers do not know that a literal is a STRING.
KindNames == STRING \cup {"service", "selector"}
Ids == KindNames \X (Names \cup (Names \X Names))
RelationNames == {"owns", "selects", "calls"}
Nodes == [id : Ids, evidence : SUBSET Nat]
Edges(now) == {e \in [from : Ids, to : Ids, relation : RelationNames, source : {"kubernetes", "trace"},
                      evidence : SUBSET Nat, expires : {now + Ttl}] :
                 e.evidence # {} /\ (e.source = "trace" <=> e.relation = "calls")}

KeyOf(e) == <<e.from, e.to, e.relation>>
Keys == Ids \X Ids \X RelationNames
Facts(edges) == {x \in Keys \X Nat : \E i \in DOMAIN edges : KeyOf(edges[i]) = x[1] /\ x[2] \in edges[i].evidence}

\* The id stands for a node that some result shows.
Evidenced(nodes, id) == \E k \in DOMAIN nodes : nodes[k].id = id /\ nodes[k].evidence # {}

\* No node and no edge is there twice, and results show the ends of every edge.
NodesFine(nodes) ==
  nodes \in Seq(Nodes) /\ \A i, j \in DOMAIN nodes : nodes[i].id = nodes[j].id => i = j
EdgesFine(edges, now) ==
  edges \in Seq(Edges(now)) /\ \A i, j \in DOMAIN edges : KeyOf(edges[i]) = KeyOf(edges[j]) => i = j
EndsFine(nodes, edges) ==
  \A i \in DOMAIN edges : Evidenced(nodes, edges[i].from) /\ Evidenced(nodes, edges[i].to)
Graphs(now) == {g \in [nodes : Seq(Nodes), edges : Seq(Edges(now))] :
                  NodesFine(g.nodes) /\ EdgesFine(g.edges, now) /\ EndsFine(g.nodes, g.edges)}

\* What upsert_node does to the nodes.
Upserted(nodes, id, ev, new) ==
  \/ /\ \A i \in DOMAIN nodes : nodes[i].id # id
     /\ new = Append(nodes, [id |-> id, evidence |-> ev])
  \/ \E i \in DOMAIN nodes :
       nodes[i].id = id /\ new = [nodes EXCEPT ![i].evidence = @ \cup ev]

\* It leaves them fine.
LEMMA NodeUpserted ==
  ASSUME NEW nodes, NodesFine(nodes), NEW id \in Ids, NEW ev \in SUBSET Nat, NEW new,
         Upserted(nodes, id, ev, new)
  PROVE  /\ NodesFine(new)
         /\ \A x : Evidenced(nodes, x) => Evidenced(new, x)
         /\ ev # {} => Evidenced(new, id)
<1>1. nodes \in Seq(Nodes) /\ \A i, j \in DOMAIN nodes : nodes[i].id = nodes[j].id => i = j
  BY DEF NodesFine
<1>2. CASE (\A i \in DOMAIN nodes : nodes[i].id # id) /\ new = Append(nodes, [id |-> id, evidence |-> ev])
  <2> DEFINE node == [id |-> id, evidence |-> ev]
             n == Len(nodes)
  <2>1. node \in Nodes /\ node.id = id /\ node.evidence = ev /\ n \in Nat
    BY <1>1 DEF Nodes
  <2>2. new = Append(nodes, node) /\ DOMAIN nodes = 1..n
    BY <1>1, <1>2
  <2> HIDE DEF node
  <2>3. new \in Seq(Nodes) /\ DOMAIN new = 1..(n + 1) /\ new[n + 1] = node /\ \A i \in 1..n : new[i] = nodes[i]
    <3>1. new \in Seq(Nodes) /\ Len(new) = n + 1
      BY <1>1, <2>1, <2>2
    <3>2. DOMAIN new = 1..(n + 1)
      BY <3>1
    <3>3. new[n + 1] = node /\ \A i \in 1..n : new[i] = nodes[i]
      BY <1>1, <2>1, <2>2
    <3> QED BY <3>1, <3>2, <3>3
  <2> HIDE DEF n
  <2>4. ASSUME NEW i \in DOMAIN new, NEW j \in DOMAIN new, new[i].id = new[j].id
        PROVE  i = j
    <3>1. i \in 1..n \/ i = n + 1
      BY <2>1, <2>3
    <3>2. j \in 1..n \/ j = n + 1
      BY <2>1, <2>3
    <3> QED BY <1>1, <1>2, <2>1, <2>2, <2>3, <2>4, <3>1, <3>2
  <2>5. ASSUME NEW x, Evidenced(nodes, x) PROVE Evidenced(new, x)
    <3>1. PICK k \in DOMAIN nodes : nodes[k].id = x /\ nodes[k].evidence # {}
      BY <2>5 DEF Evidenced
    <3>2. k \in DOMAIN new /\ new[k] = nodes[k]
      BY <2>1, <2>2, <2>3
    <3> QED BY <3>1, <3>2 DEF Evidenced
  <2>6. ev # {} => Evidenced(new, id)
    <3>1. n + 1 \in DOMAIN new
      BY <2>1, <2>3
    <3> QED BY <2>1, <2>3, <3>1 DEF Evidenced
  <2> QED BY <2>3, <2>4, <2>5, <2>6 DEF NodesFine
<1>3. ASSUME NEW i \in DOMAIN nodes, nodes[i].id = id, new = [nodes EXCEPT ![i].evidence = @ \cup ev]
      PROVE  /\ NodesFine(new)
             /\ \A x : Evidenced(nodes, x) => Evidenced(new, x)
             /\ ev # {} => Evidenced(new, id)
  <2> DEFINE node == [nodes[i] EXCEPT !.evidence = @ \cup ev]
  <2>1. nodes[i] \in Nodes
    BY <1>1
  <2>2. node \in Nodes /\ node.id = id /\ node.evidence = nodes[i].evidence \cup ev
    BY <1>3, <2>1 DEF Nodes
  <2>3. new = [nodes EXCEPT ![i] = node]
    BY <1>3
  <2> HIDE DEF node
  <2>4. new \in Seq(Nodes) /\ DOMAIN new = DOMAIN nodes /\ new[i] = node
        /\ \A j \in DOMAIN nodes : j # i => new[j] = nodes[j]
    BY <1>1, <2>2, <2>3
  <2>5. \A j \in DOMAIN nodes : new[j].id = nodes[j].id /\ nodes[j].evidence \subseteq new[j].evidence
    BY <1>3, <2>2, <2>4
  <2>6. NodesFine(new)
    BY <1>1, <2>4, <2>5 DEF NodesFine
  <2>7. ASSUME NEW x, Evidenced(nodes, x) PROVE Evidenced(new, x)
    <3>1. PICK k \in DOMAIN nodes : nodes[k].id = x /\ nodes[k].evidence # {}
      BY <2>7 DEF Evidenced
    <3>2. new[k].id = x /\ new[k].evidence # {} /\ k \in DOMAIN new
      BY <2>4, <2>5, <3>1
    <3> QED BY <3>2 DEF Evidenced
  <2>8. ev # {} => Evidenced(new, id)
    BY <2>2, <2>4 DEF Evidenced
  <2> QED BY <2>6, <2>7, <2>8
<1> QED BY <1>2, <1>3 DEF Upserted

\* upsert_node keeps a graph fine, and shows its node if there is evidence.
LEMMA UpsertNodeKeeps ==
  ASSUME NEW now, NEW g \in Graphs(now), NEW id \in Ids, NEW ev \in SUBSET Nat
  PROVE  /\ UpsertNode(g, id, ev) \in Graphs(now)
         /\ UpsertNode(g, id, ev).edges = g.edges
         /\ \A x : Evidenced(g.nodes, x) => Evidenced(UpsertNode(g, id, ev).nodes, x)
         /\ ev # {} => Evidenced(UpsertNode(g, id, ev).nodes, id)
<1> DEFINE nodes == g.nodes
           I == {i \in 1..Len(nodes) : nodes[i].id = id}
           h == UpsertNode(g, id, ev)
<1>1. /\ g \in [nodes : Seq(Nodes), edges : Seq(Edges(now))]
      /\ NodesFine(nodes) /\ EdgesFine(g.edges, now) /\ EndsFine(nodes, g.edges)
  BY DEF Graphs
<1>2. nodes \in Seq(Nodes) /\ DOMAIN nodes = 1..Len(nodes) /\ Len(nodes) \in Nat
  BY <1>1
<1>3. SelectInSeq(nodes, LAMBDA n : n.id = id) = IF I # {} THEN Min(I) ELSE 0
  BY DEF SelectInSeq
<1>4. h.edges = g.edges /\ Upserted(nodes, id, ev, h.nodes) /\ h = [nodes |-> h.nodes, edges |-> h.edges]
  <2>1. CASE I = {}
    <3>1. h = [g EXCEPT !.nodes = Append(nodes, [id |-> id, evidence |-> ev])]
      BY <1>3, <2>1 DEF UpsertNode
    <3>2. \A i \in DOMAIN nodes : nodes[i].id # id
      BY <1>2, <2>1
    <3> HIDE DEF h, I
    <3> QED BY <1>1, <3>1, <3>2 DEF Upserted
  <2>2. CASE I # {}
    <3>1. Min(I) \in I
      <4>1. I \in SUBSET (1..Len(nodes))
        OBVIOUS
      <4> HIDE DEF I
      <4> QED BY <1>2, <2>2, <4>1, FirstPosition
    <3>2. Min(I) \in DOMAIN nodes /\ nodes[Min(I)].id = id /\ Min(I) # 0
      BY <1>2, <3>1
    <3>3. h = [g EXCEPT !.nodes = [nodes EXCEPT ![Min(I)].evidence = @ \cup ev]]
      <4> HIDE DEF I
      <4> QED BY <1>3, <2>2, <3>2 DEF UpsertNode
    <3> HIDE DEF h, I
    <3>4. h.nodes = [nodes EXCEPT ![Min(I)].evidence = @ \cup ev]
      BY <1>1, <3>3
    <3> QED BY <1>1, <3>2, <3>3, <3>4 DEF Upserted
  <2> QED BY <2>1, <2>2
<1> HIDE DEF h, nodes, I
<1>5. /\ NodesFine(h.nodes)
      /\ \A x : Evidenced(nodes, x) => Evidenced(h.nodes, x)
      /\ ev # {} => Evidenced(h.nodes, id)
  BY <1>1, <1>4, NodeUpserted
<1>6. EndsFine(h.nodes, h.edges)
  BY <1>1, <1>4, <1>5 DEF EndsFine
<1>7. h.nodes \in Seq(Nodes) /\ h.edges \in Seq(Edges(now))
  BY <1>1, <1>4, <1>5 DEF NodesFine, EdgesFine
<1>8. h \in Graphs(now)
  BY <1>1, <1>4, <1>5, <1>6, <1>7 DEF Graphs
<1> QED BY <1>4, <1>5, <1>8 DEF h, nodes

\* What an edge says.
FactsOf(e) == {x \in Keys \X Nat : KeyOf(e) = x[1] /\ x[2] \in e.evidence}

\* What push_edge does to the edges.
Pushed(edges, e, new) ==
  \/ /\ \A i \in DOMAIN edges : KeyOf(edges[i]) # KeyOf(e)
     /\ new = Append(edges, e)
  \/ \E i \in DOMAIN edges :
       /\ KeyOf(edges[i]) = KeyOf(e)
       /\ new = [edges EXCEPT ![i] = [e EXCEPT !.evidence = @ \cup edges[i].evidence]]

\* It adds what the edge says, and no edge with other ends.
LEMMA EdgePushed ==
  ASSUME NEW now, NEW edges, EdgesFine(edges, now), NEW e \in Edges(now), NEW new, Pushed(edges, e, new)
  PROVE  /\ EdgesFine(new, now)
         /\ Facts(new) = Facts(edges) \cup FactsOf(e)
         /\ \A i \in DOMAIN new : \/ new[i].from = e.from /\ new[i].to = e.to
                                  \/ \E j \in DOMAIN edges : new[i].from = edges[j].from /\ new[i].to = edges[j].to
<1>1. edges \in Seq(Edges(now)) /\ \A i, j \in DOMAIN edges : KeyOf(edges[i]) = KeyOf(edges[j]) => i = j
  BY DEF EdgesFine
<1>2. CASE (\A i \in DOMAIN edges : KeyOf(edges[i]) # KeyOf(e)) /\ new = Append(edges, e)
  <2> DEFINE n == Len(edges)
  <2>1. n \in Nat /\ DOMAIN edges = 1..n
    BY <1>1
  <2>2. new \in Seq(Edges(now)) /\ DOMAIN new = 1..(n + 1) /\ new[n + 1] = e /\ \A i \in 1..n : new[i] = edges[i]
    <3>1. new \in Seq(Edges(now)) /\ Len(new) = n + 1
      BY <1>1, <1>2
    <3>2. DOMAIN new = 1..(n + 1)
      BY <3>1
    <3>3. new[n + 1] = e /\ \A i \in 1..n : new[i] = edges[i]
      BY <1>1, <1>2
    <3> QED BY <3>1, <3>2, <3>3
  <2> HIDE DEF n
  <2>3. \A i \in DOMAIN new : i \in 1..n \/ i = n + 1
    BY <2>1, <2>2
  <2>4. \A i \in 1..n : i \in DOMAIN new
    BY <2>1, <2>2
  <2>5. n + 1 \in DOMAIN new
    BY <2>1, <2>2
  <2>6. EdgesFine(new, now)
    <3>1. ASSUME NEW i \in DOMAIN new, NEW j \in DOMAIN new, KeyOf(new[i]) = KeyOf(new[j])
          PROVE  i = j
      <4>1. CASE i \in 1..n /\ j \in 1..n
        BY <1>1, <2>1, <2>2, <3>1, <4>1
      <4>2. CASE i = n + 1 /\ j \in 1..n
        BY <1>2, <2>1, <2>2, <3>1, <4>2
      <4>3. CASE j = n + 1 /\ i \in 1..n
        BY <1>2, <2>1, <2>2, <3>1, <4>3
      <4> QED BY <2>3, <4>1, <4>2, <4>3
    <3> QED BY <2>2, <3>1 DEF EdgesFine
  <2>7. ASSUME NEW x \in Keys \X Nat
        PROVE  x \in Facts(new) <=> x \in Facts(edges) \/ x \in FactsOf(e)
    <3>1. x \in Facts(new) <=> \E i \in DOMAIN new : KeyOf(new[i]) = x[1] /\ x[2] \in new[i].evidence
      BY DEF Facts
    <3>2. x \in Facts(edges) <=> \E i \in 1..n : KeyOf(edges[i]) = x[1] /\ x[2] \in edges[i].evidence
      BY <2>1 DEF Facts
    <3>3. x \in FactsOf(e) <=> KeyOf(e) = x[1] /\ x[2] \in e.evidence
      BY DEF FactsOf
    <3> QED BY <2>2, <2>3, <2>4, <2>5, <3>1, <3>2, <3>3
  <2>8. Facts(new) \subseteq Keys \X Nat /\ Facts(edges) \subseteq Keys \X Nat /\ FactsOf(e) \subseteq Keys \X Nat
    BY DEF Facts, FactsOf
  <2>9. Facts(new) = Facts(edges) \cup FactsOf(e)
    BY <2>7, <2>8
  <2>10. \A i \in DOMAIN new : \/ new[i].from = e.from /\ new[i].to = e.to
                               \/ \E j \in DOMAIN edges : new[i].from = edges[j].from /\ new[i].to = edges[j].to
    BY <2>1, <2>2, <2>3
  <2> QED BY <2>6, <2>9, <2>10
<1>3. ASSUME NEW i \in DOMAIN edges, KeyOf(edges[i]) = KeyOf(e),
             new = [edges EXCEPT ![i] = [e EXCEPT !.evidence = @ \cup edges[i].evidence]]
      PROVE  /\ EdgesFine(new, now)
             /\ Facts(new) = Facts(edges) \cup FactsOf(e)
             /\ \A k \in DOMAIN new : \/ new[k].from = e.from /\ new[k].to = e.to
                                      \/ \E j \in DOMAIN edges : new[k].from = edges[j].from /\ new[k].to = edges[j].to
  <2> DEFINE f == [e EXCEPT !.evidence = @ \cup edges[i].evidence]
  <2>1. edges[i] \in Edges(now)
    BY <1>1
  <2>2. /\ f \in Edges(now) /\ f.from = e.from /\ f.to = e.to /\ f.relation = e.relation
        /\ f.evidence = e.evidence \cup edges[i].evidence
    BY <2>1 DEF Edges
  <2>3. KeyOf(f) = KeyOf(e)
    BY <2>2 DEF KeyOf
  <2>4. new = [edges EXCEPT ![i] = f]
    BY <1>3
  <2> HIDE DEF f
  <2>5. new \in Seq(Edges(now)) /\ DOMAIN new = DOMAIN edges /\ new[i] = f
        /\ \A j \in DOMAIN edges : j # i => new[j] = edges[j]
    BY <1>1, <2>2, <2>4
  <2>6. \A j \in DOMAIN edges : KeyOf(new[j]) = KeyOf(edges[j])
    BY <1>3, <2>3, <2>5
  <2>7. EdgesFine(new, now)
    BY <1>1, <2>5, <2>6 DEF EdgesFine
  <2>8. ASSUME NEW x \in Keys \X Nat
        PROVE  x \in Facts(new) <=> x \in Facts(edges) \/ x \in FactsOf(e)
    <3>1. x \in Facts(new) <=> \E k \in DOMAIN edges : KeyOf(new[k]) = x[1] /\ x[2] \in new[k].evidence
      BY <2>5 DEF Facts
    <3>2. x \in Facts(edges) <=> \E k \in DOMAIN edges : KeyOf(edges[k]) = x[1] /\ x[2] \in edges[k].evidence
      BY DEF Facts
    <3>3. x \in FactsOf(e) <=> KeyOf(e) = x[1] /\ x[2] \in e.evidence
      BY DEF FactsOf
    <3>4. ASSUME NEW k \in DOMAIN edges, KeyOf(new[k]) = x[1], x[2] \in new[k].evidence
          PROVE  x \in Facts(edges) \/ x \in FactsOf(e)
      <4>1. CASE k = i
        BY <1>3, <2>2, <2>3, <2>5, <3>2, <3>3, <3>4, <4>1
      <4>2. CASE k # i
        BY <2>5, <3>2, <3>4, <4>2
      <4> QED BY <4>1, <4>2
    <3>5. ASSUME NEW k \in DOMAIN edges, KeyOf(edges[k]) = x[1], x[2] \in edges[k].evidence
          PROVE  x \in Facts(new)
      <4>1. CASE k = i
        BY <1>3, <2>2, <2>3, <2>5, <3>1, <3>5, <4>1
      <4>2. CASE k # i
        BY <2>5, <3>1, <3>5, <4>2
      <4> QED BY <4>1, <4>2
    <3>6. x \in FactsOf(e) => x \in Facts(new)
      BY <1>3, <2>2, <2>3, <2>5, <3>1, <3>3
    <3> QED BY <3>1, <3>2, <3>4, <3>5, <3>6
  <2>9. Facts(new) \subseteq Keys \X Nat /\ Facts(edges) \subseteq Keys \X Nat /\ FactsOf(e) \subseteq Keys \X Nat
    BY DEF Facts, FactsOf
  <2>10. Facts(new) = Facts(edges) \cup FactsOf(e)
    BY <2>8, <2>9
  <2>11. \A k \in DOMAIN new : \/ new[k].from = e.from /\ new[k].to = e.to
                               \/ \E j \in DOMAIN edges : new[k].from = edges[j].from /\ new[k].to = edges[j].to
    BY <2>2, <2>5
  <2> QED BY <2>7, <2>10, <2>11
<1> QED BY <1>2, <1>3 DEF Pushed

\* Edges are the same when they have the same ends and relation: the relation
\* says which source the edge is from.
LEMMA SameIsKey ==
  ASSUME NEW now, NEW e \in Edges(now), NEW f \in Edges(now)
  PROVE  SameEdge(e, f) <=> KeyOf(f) = KeyOf(e)
BY DEF Edges, SameEdge, KeyOf

\* push_edge is the change of the edges above.
LEMMA PushEdgeIs ==
  ASSUME NEW now, NEW g \in Graphs(now), NEW e \in Edges(now)
  PROVE  /\ Pushed(g.edges, e, PushEdge(g, e).edges)
         /\ PushEdge(g, e) = [nodes |-> g.nodes, edges |-> PushEdge(g, e).edges]
<1> DEFINE edges == g.edges
           repeated == {f \in ToSet(edges) : SameEdge(e, f)}
           new == [e EXCEPT !.evidence = @ \cup UNION {f.evidence : f \in repeated}]
           I == {i \in 1..Len(edges) : SameEdge(new, edges[i])}
           h == PushEdge(g, e)
<1>1. g \in [nodes : Seq(Nodes), edges : Seq(Edges(now))] /\ EdgesFine(edges, now)
  BY DEF Graphs
<1>2. edges \in Seq(Edges(now)) /\ DOMAIN edges = 1..Len(edges) /\ Len(edges) \in Nat
      /\ \A i, j \in DOMAIN edges : KeyOf(edges[i]) = KeyOf(edges[j]) => i = j
  BY <1>1 DEF EdgesFine
<1>3. \A i \in DOMAIN edges : edges[i] \in Edges(now)
  BY <1>2
<1>4. \A i \in DOMAIN edges : SameEdge(e, edges[i]) <=> KeyOf(edges[i]) = KeyOf(e)
  BY <1>3, SameIsKey
<1>5. new.from = e.from /\ new.to = e.to /\ new.relation = e.relation /\ new.source = e.source
  BY DEF Edges
<1>6. \A f : SameEdge(new, f) <=> SameEdge(e, f)
  <2> HIDE DEF new
  <2> QED BY <1>5 DEF SameEdge
<1>7. SelectInSeq(edges, LAMBDA f : SameEdge(new, f)) = IF I # {} THEN Min(I) ELSE 0
  BY DEF SelectInSeq
<1>8. h = PutEdge(g, new)
  BY DEF PushEdge
<1>9. CASE I = {}
  <2>1. \A i \in DOMAIN edges : KeyOf(edges[i]) # KeyOf(e)
    <3> HIDE DEF new
    <3> QED BY <1>2, <1>4, <1>6, <1>9
  <2>2. repeated = {}
    BY <1>4, <2>1 DEF ToSet
  <2>3. new = e
    <3>1. UNION {f.evidence : f \in repeated} = {}
      BY <2>2
    <3>2. [e EXCEPT !.evidence = @ \cup {}] = e
      BY DEF Edges
    <3> HIDE DEF repeated
    <3> QED BY <3>1, <3>2
  <2>4. PutEdge(g, new) = [g EXCEPT !.edges = Append(edges, new)]
    <3> HIDE DEF new
    <3> QED BY <1>7, <1>9 DEF PutEdge
  <2>5. h = [g EXCEPT !.edges = Append(edges, e)]
    <3> HIDE DEF new, h
    <3> QED BY <1>8, <2>3, <2>4
  <2> HIDE DEF new, h, I
  <2>6. h.edges = Append(edges, e) /\ h = [nodes |-> g.nodes, edges |-> h.edges]
    BY <1>1, <2>5
  <2> QED BY <2>1, <2>6 DEF Pushed, h
<1>10. CASE I # {}
  <2>1. Min(I) \in I
    <3>1. I \in SUBSET (1..Len(edges))
      OBVIOUS
    <3> HIDE DEF I
    <3> QED BY <1>2, <1>10, <3>1, FirstPosition
  <2>2. PICK i : i = Min(I)
    OBVIOUS
  <2>3. i \in DOMAIN edges /\ SameEdge(new, edges[i]) /\ i # 0
    <3>1. i \in I
      <4> HIDE DEF I
      <4> QED BY <2>1, <2>2
    <3> HIDE DEF new
    <3> QED BY <1>2, <3>1
  <2>4. KeyOf(edges[i]) = KeyOf(e)
    <3> HIDE DEF new
    <3> QED BY <1>4, <1>6, <2>3
  <2>5. repeated = {edges[i]}
    <3>1. \A f : f \in repeated <=> \E j \in DOMAIN edges : f = edges[j] /\ KeyOf(edges[j]) = KeyOf(e)
      BY <1>4 DEF ToSet
    <3>2. \A j \in DOMAIN edges : KeyOf(edges[j]) = KeyOf(e) => j = i
      <4> HIDE DEF new, repeated
      <4> QED BY <1>2, <2>3, <2>4
    <3> HIDE DEF new, repeated
    <3> QED BY <2>3, <2>4, <3>1, <3>2
  <2>6. new = [e EXCEPT !.evidence = @ \cup edges[i].evidence]
    <3>1. UNION {f.evidence : f \in repeated} = edges[i].evidence
      <4> HIDE DEF repeated
      <4> QED BY <2>5
    <3> HIDE DEF repeated
    <3> QED BY <3>1
  <2>7. PutEdge(g, new) = [g EXCEPT !.edges[i] = new]
    <3> HIDE DEF new, I
    <3> QED BY <1>7, <1>10, <2>2, <2>3 DEF PutEdge
  <2>8. h = [g EXCEPT !.edges = [edges EXCEPT ![i] = new]]
    <3> HIDE DEF new, h, I
    <3> QED BY <1>8, <2>7
  <2>9. h.edges = [edges EXCEPT ![i] = new] /\ h = [nodes |-> g.nodes, edges |-> h.edges]
    <3> HIDE DEF new, h, I
    <3> QED BY <1>1, <2>8
  <2> HIDE DEF new, h, I, repeated
  <2>10. h.edges = [edges EXCEPT ![i] = [e EXCEPT !.evidence = @ \cup edges[i].evidence]]
    BY <2>6, <2>9
  <2> QED BY <2>3, <2>4, <2>9, <2>10 DEF Pushed, h
<1> QED BY <1>9, <1>10

\* An edge that comes with its ends keeps a graph fine and adds what it says.
LEMMA RelateKeeps ==
  ASSUME NEW now, NEW g \in Graphs(now), NEW e \in Edges(now)
  PROVE  /\ Relate(g, e) \in Graphs(now)
         /\ Facts(Relate(g, e).edges) = Facts(g.edges) \cup FactsOf(e)
<1> DEFINE a == UpsertNode(g, e.from, e.evidence)
           b == UpsertNode(a, e.to, e.evidence)
           h == PushEdge(b, e)
<1>1. e.from \in Ids /\ e.to \in Ids /\ e.evidence \in SUBSET Nat /\ e.evidence # {}
  BY DEF Edges
<1>2. a \in Graphs(now) /\ a.edges = g.edges /\ Evidenced(a.nodes, e.from)
  BY <1>1, UpsertNodeKeeps
<1> HIDE DEF a
<1>3. b \in Graphs(now) /\ b.edges = g.edges /\ Evidenced(b.nodes, e.from) /\ Evidenced(b.nodes, e.to)
  BY <1>1, <1>2, UpsertNodeKeeps
<1>4. Relate(g, e) = h
  BY DEF Relate, a
<1> HIDE DEF b
<1>5. Pushed(b.edges, e, h.edges) /\ h = [nodes |-> b.nodes, edges |-> h.edges]
  BY <1>3, PushEdgeIs
<1> HIDE DEF h
<1>6. NodesFine(b.nodes) /\ EdgesFine(b.edges, now) /\ EndsFine(b.nodes, b.edges)
  BY <1>3 DEF Graphs
<1>7. /\ EdgesFine(h.edges, now)
      /\ Facts(h.edges) = Facts(b.edges) \cup FactsOf(e)
      /\ \A i \in DOMAIN h.edges :
            \/ h.edges[i].from = e.from /\ h.edges[i].to = e.to
            \/ \E j \in DOMAIN b.edges : h.edges[i].from = b.edges[j].from /\ h.edges[i].to = b.edges[j].to
  BY <1>5, <1>6, EdgePushed
<1>8. h.nodes = b.nodes
  BY <1>5
<1>9. EndsFine(h.nodes, h.edges)
  BY <1>3, <1>6, <1>7, <1>8 DEF EndsFine
<1>10. h.nodes \in Seq(Nodes) /\ h.edges \in Seq(Edges(now))
  BY <1>6, <1>7, <1>8 DEF NodesFine, EdgesFine
<1>11. h \in Graphs(now)
  BY <1>5, <1>6, <1>7, <1>8, <1>9, <1>10 DEF Graphs
<1> QED BY <1>3, <1>4, <1>7, <1>11

\* What is shown: a node and an edge, each or neither.
SightSet(now) == [node : {{}} \cup {{i} : i \in Ids}, edge : {{}} \cup {{e} : e \in Edges(now)},
                  evidence : SUBSET Nat]
SightFacts(s) == UNION {FactsOf(e) : e \in s.edge}

\* To observe it keeps a graph fine and adds what it says.
LEMMA ObserveKeeps ==
  ASSUME NEW now, NEW g \in Graphs(now), NEW s \in SightSet(now)
  PROVE  /\ Observe(g, s) \in Graphs(now)
         /\ Facts(Observe(g, s).edges) = Facts(g.edges) \cup SightFacts(s)
<1> DEFINE h == IF s.node = {} THEN g ELSE UpsertNode(g, The(s.node), s.evidence)
<1>1. /\ s.node = {} \/ \E i \in Ids : s.node = {i}
      /\ s.edge = {} \/ \E e \in Edges(now) : s.edge = {e}
      /\ s.evidence \in SUBSET Nat
  BY DEF SightSet
<1>2. h \in Graphs(now) /\ h.edges = g.edges
  <2>1. CASE s.node = {}
    BY <2>1
  <2>2. ASSUME NEW i \in Ids, s.node = {i} PROVE h \in Graphs(now) /\ h.edges = g.edges
    <3>1. The(s.node) = i
      BY <2>2 DEF The
    <3>2. h = UpsertNode(g, i, s.evidence)
      BY <2>2, <3>1
    <3> HIDE DEF h
    <3> QED BY <1>1, <3>2, UpsertNodeKeeps
  <2> QED BY <1>1, <2>1, <2>2
<1>3. Observe(g, s) = IF s.edge = {} THEN h ELSE Relate(h, The(s.edge))
  BY DEF Observe
<1> HIDE DEF h
<1>4. CASE s.edge = {}
  <2>1. SightFacts(s) = {}
    BY <1>4 DEF SightFacts
  <2> QED BY <1>2, <1>3, <1>4, <2>1
<1>5. ASSUME NEW e \in Edges(now), s.edge = {e}
      PROVE  /\ Observe(g, s) \in Graphs(now)
             /\ Facts(Observe(g, s).edges) = Facts(g.edges) \cup SightFacts(s)
  <2>1. The(s.edge) = e
    BY <1>5 DEF The
  <2>2. Observe(g, s) = Relate(h, e)
    BY <1>3, <1>5, <2>1
  <2>3. SightFacts(s) = FactsOf(e)
    BY <1>5 DEF SightFacts
  <2> QED BY <1>2, <2>2, <2>3, RelateKeeps
<1> QED BY <1>1, <1>4, <1>5

ObserveFcn(now) == [g \in Graphs(now) |-> [s \in SightSet(now) |-> Observe(g, s)]]

\* The fold of what is shown is the fold of this function.
LEMMA ObserveFold ==
  ASSUME NEW now, NEW b \in Graphs(now), NEW s \in Seq(SightSet(now))
  PROVE  /\ Folding(Graphs(now), SightSet(now), ObserveFcn(now), b, s)
         /\ FoldLeft(Observe, b, s) = Folded(ObserveFcn(now), b, s)
<1> DEFINE n == Len(s)
           V == Graphs(now)
           E == SightSet(now)
           G == ObserveFcn(now)
           Eq(h) == h = [T \in SUBSET (1..n) |-> IF T = {} THEN b ELSE Observe(h[T \ {Max(T)}], s[Max(T)])]
<1>0. \A v \in V, e \in E : G[v][e] = Observe(v, e)
  BY DEF ObserveFcn
<1>1. Closed(G, V, E)
  <2> HIDE DEF G
  <2> QED BY <1>0, ObserveKeeps DEF Closed
<1> HIDE DEF G, V, E
<1>2. n \in Nat /\ s \in [1..n -> E] /\ DOMAIN s = 1..n /\ s \in Seq(E) /\ b \in V
  BY DEF V, E
<1>3. PICK h \in [SUBSET (1..n) -> V] : Solves(h, n, b, G, s)
  <2> HIDE DEF n
  <2> QED BY <1>1, <1>2, SolutionExists
<1>4. ASSUME NEW T \in SUBSET (1..n), T # {}
      PROVE  G[h[T \ {Max(T)}]][s[Max(T)]] = Observe(h[T \ {Max(T)}], s[Max(T)])
  <2>1. Max(T) \in 1..n
    <3> HIDE DEF n
    <3>1. Max(T) \in T
      BY <1>2, <1>4, MaxPosition
    <3> QED BY <3>1
  <2>2. T \ {Max(T)} \in SUBSET (1..n)
    OBVIOUS
  <2>3. h[T \ {Max(T)}] \in V
    BY <2>2
  <2>4. s[Max(T)] \in E
    BY <1>2, <2>1
  <2> QED BY <1>0, <2>3, <2>4
<1>5. Eq(h)
  BY <1>3, <1>4 DEF Solves
<1>6. Eq(CHOOSE g : Eq(g))
  <2> HIDE DEF Eq
  <2> QED BY <1>5, Zenon
<1>7. PICK g : Eq(g) /\ FoldLeft(Observe, b, s) = g[1..n]
  <2>1. FoldLeft(Observe, b, s) = (CHOOSE g : Eq(g))[1..n]
    BY <1>2 DEF FoldLeft, MapThenFoldSet
  <2> HIDE DEF Eq
  <2> QED BY <1>6, <2>1
<1>8. \A T \in SUBSET (1..n) : g[T] = IF T = {} THEN b ELSE Observe(g[T \ {Max(T)}], s[Max(T)])
  BY <1>7
<1>9. g[{}] = b
  BY <1>8
<1>10. ASSUME NEW m \in 1..n, g[1..(m - 1)] \in V
       PROVE  g[1..m] = G[g[1..(m - 1)]][s[m]]
  <2>1. g[1..m] = Observe(g[1..(m - 1)], s[m])
    BY <1>2, <1>8, MaxSegment
  <2>2. s[m] \in E
    BY <1>2
  <2> QED BY <1>0, <1>10, <2>1, <2>2
<1>11. Segments(g, V, b, G, s)
  BY <1>9, <1>10 DEF Segments
<1>12. Folding(V, E, G, b, s)
  BY <1>1, <1>2 DEF Folding
<1>13. g[1..Len(s)] = Folded(G, b, s)
  <2> HIDE DEF n, Eq
  <2> QED BY <1>11, <1>12, FoldedSegments
<1> QED BY <1>7, <1>12, <1>13 DEF V, E, G

-----------------------------------------------------------------------------
(* What a result shows. *)

\* What a sequence of sights says, and the relations it speaks of.
SeqFacts(s) == UNION {SightFacts(s[i]) : i \in DOMAIN s}
Says(s) == {k \in Keys : \E i \in DOMAIN s : \E e \in s[i].edge : KeyOf(e) = k}

\* Every edge that is shown has this evidence.
AllFrom(s, ev) == \A i \in DOMAIN s : \A e \in s[i].edge : e.evidence = ev

\* The facts of one result: its relations, with its id.
With(relations, ev) == {x \in Keys \X Nat : x[1] \in relations /\ x[2] \in ev}

\* Sights of one result.
SightsOf(s, ev, relations, now) == s \in Seq(SightSet(now)) /\ AllFrom(s, ev) /\ Says(s) = relations

\* What they say is what the relations are.
LEMMA SightsSay ==
  ASSUME NEW now, NEW s, NEW ev, NEW relations, SightsOf(s, ev, relations, now)
  PROVE  SeqFacts(s) = With(relations, ev)
<1>1. s \in Seq(SightSet(now)) /\ AllFrom(s, ev) /\ Says(s) = relations
  BY DEF SightsOf
<1>2. ASSUME NEW x \in Keys \X Nat
      PROVE  x \in SeqFacts(s) <=> x \in With(relations, ev)
  <2>1. x \in SeqFacts(s) <=> \E i \in DOMAIN s : \E e \in s[i].edge : x \in FactsOf(e)
    BY DEF SeqFacts, SightFacts
  <2>2. \A e : x \in FactsOf(e) <=> KeyOf(e) = x[1] /\ x[2] \in e.evidence
    BY DEF FactsOf
  <2>3. x[1] \in Keys
    OBVIOUS
  <2>4. x[1] \in Says(s) <=> \E i \in DOMAIN s : \E e \in s[i].edge : KeyOf(e) = x[1]
    BY <2>3 DEF Says
  <2>5. \A i \in DOMAIN s : \A e \in s[i].edge : e.evidence = ev
    BY <1>1 DEF AllFrom
  <2>6. x \in With(relations, ev) <=> x[1] \in Says(s) /\ x[2] \in ev
    BY <1>1 DEF With
  <2> QED BY <2>1, <2>2, <2>4, <2>5, <2>6
<1>3. SeqFacts(s) \subseteq Keys \X Nat
  BY DEF SeqFacts, SightFacts, FactsOf
<1>4. With(relations, ev) \subseteq Keys \X Nat
  BY DEF With
<1> QED BY <1>2, <1>3, <1>4

\* Sights one after the other say what either says.
LEMMA SightsJoin ==
  ASSUME NEW now, NEW ev, NEW s, NEW t, NEW R, NEW Q, SightsOf(s, ev, R, now), SightsOf(t, ev, Q, now)
  PROVE  SightsOf(s \o t, ev, R \cup Q, now)
<1> DEFINE u == s \o t
<1>1. /\ s \in Seq(SightSet(now)) /\ AllFrom(s, ev) /\ Says(s) = R
      /\ t \in Seq(SightSet(now)) /\ AllFrom(t, ev) /\ Says(t) = Q
  BY DEF SightsOf
<1>2. /\ u \in Seq(SightSet(now))
      /\ \A i \in DOMAIN u : \/ i \in DOMAIN s /\ u[i] = s[i]
                             \/ \E j \in DOMAIN t : u[i] = t[j]
      /\ \A i \in DOMAIN s : i \in DOMAIN u /\ u[i] = s[i]
      /\ \A j \in DOMAIN t : \E i \in DOMAIN u : u[i] = t[j]
  BY <1>1, Concatenated
<1> HIDE DEF u
<1>3. AllFrom(u, ev)
  BY <1>1, <1>2 DEF AllFrom
<1>4. ASSUME NEW k \in Keys PROVE k \in Says(u) <=> k \in Says(s) \/ k \in Says(t)
  BY <1>2 DEF Says
<1>5. Says(u) \subseteq Keys /\ Says(s) \subseteq Keys /\ Says(t) \subseteq Keys
  BY DEF Says
<1>6. Says(u) = R \cup Q
  BY <1>1, <1>4, <1>5
<1> QED BY <1>2, <1>3, <1>6 DEF SightsOf, u

\* No sights say nothing, and neither does a node.
LEMMA SightsNone ==
  ASSUME NEW now, NEW ev
  PROVE  SightsOf(<<>>, ev, {}, now)
BY DEF SightsOf, AllFrom, Says

\* A node that is seen says nothing of relations.
LEMMA SightsNode ==
  ASSUME NEW now, NEW ev \in SUBSET Nat, NEW id \in Ids, NEW any
  PROVE  SightsOf(<<Sight({id}, {}, ev)>>, any, {}, now)
<1> DEFINE v == Sight({id}, {}, ev)
<1>1. v \in SightSet(now) /\ v.edge = {}
  BY DEF Sight, SightSet
<1> HIDE DEF v
<1>2. <<v>> \in Seq(SightSet(now)) /\ DOMAIN <<v>> = {1} /\ <<v>>[1] = v
  BY <1>1
<1>3. AllFrom(<<v>>, any)
  BY <1>1, <1>2 DEF AllFrom
<1>4. Says(<<v>>) = {}
  BY <1>1, <1>2 DEF Says
<1>5. SightsOf(<<v>>, any, {}, now)
  BY <1>2, <1>3, <1>4 DEF SightsOf
<1> QED BY <1>5 DEF v

\* Sights that M makes of the elements of a sequence, one of each; Rel names the
\* relations that each shows.
Makes(M, R, ev, Rel, now) ==
  /\ M \in [R -> SightSet(now)]
  /\ \A x \in R : \A e \in M[x].edge : e.evidence = ev
  /\ \A x \in R : \A k : k \in Rel[x] <=> k \in Keys /\ \E e \in M[x].edge : KeyOf(e) = k
Made(s, r, M) == s = [i \in DOMAIN r |-> M[r[i]]]
Shows(Rel, r) == UNION {Rel[r[i]] : i \in DOMAIN r}

\* They say what each shows.
LEMMA SightsEach ==
  ASSUME NEW now, NEW ev, NEW R, NEW r \in Seq(R), NEW M, NEW Rel, Makes(M, R, ev, Rel, now), NEW s, Made(s, r, M)
  PROVE  SightsOf(s, ev, Shows(Rel, r), now)
<1> USE DEF Makes, Made
<1>1. DOMAIN r = 1..Len(r) /\ Len(r) \in Nat /\ \A i \in DOMAIN r : r[i] \in R
  OBVIOUS
<1>2. s \in Seq(SightSet(now)) /\ DOMAIN s = DOMAIN r /\ \A i \in DOMAIN r : s[i] = M[r[i]]
  <2>1. s \in [1..Len(r) -> SightSet(now)]
    BY <1>1
  <2> QED BY <1>1, <2>1
<1>3. AllFrom(s, ev)
  BY <1>1, <1>2 DEF AllFrom
<1>4. Says(s) = Shows(Rel, r)
  <2>1. \A k : k \in Says(s) <=> k \in Keys /\ \E i \in DOMAIN r : \E e \in M[r[i]].edge : KeyOf(e) = k
    BY <1>2 DEF Says
  <2>2. \A k : k \in Shows(Rel, r) <=> \E i \in DOMAIN r : k \in Rel[r[i]]
    BY DEF Shows
  <2>3. \A i \in DOMAIN r : \A k : k \in Rel[r[i]] <=> k \in Keys /\ \E e \in M[r[i]].edge : KeyOf(e) = k
    BY <1>1
  <2>4. \A k : k \in Says(s) <=> k \in Shows(Rel, r)
    BY <2>1, <2>2, <2>3
  <2> QED BY <2>4
<1> QED BY <1>2, <1>3, <1>4 DEF SightsOf

ObjectRelations == {"owns", "selects"}

\* The edges of an object.
LEMMA EdgeType ==
  ASSUME NEW now, NEW from \in Ids, NEW to \in Ids, NEW ev \in SUBSET Nat, ev # {},
         NEW relation \in ObjectRelations
  PROVE  /\ Edge(from, to, relation, "kubernetes", ev, now) \in Edges(now)
         /\ Edge(from, to, relation, "kubernetes", ev, now).evidence = ev
         /\ KeyOf(Edge(from, to, relation, "kubernetes", ev, now)) = <<from, to, relation>>
         /\ <<from, to, relation>> \in Keys
BY DEF Edge, Edges, KeyOf, Keys, RelationNames, ObjectRelations

\* The edges of a trace.
LEMMA CallType ==
  ASSUME NEW now, NEW from \in Ids, NEW to \in Ids, NEW ev \in SUBSET Nat, ev # {}
  PROVE  /\ Edge(from, to, "calls", "trace", ev, now) \in Edges(now)
         /\ Edge(from, to, "calls", "trace", ev, now).evidence = ev
         /\ KeyOf(Edge(from, to, "calls", "trace", ev, now)) = <<from, to, "calls">>
         /\ <<from, to, "calls">> \in Keys
BY DEF Edge, Edges, KeyOf, Keys, RelationNames

\* The four kinds of relations a result may show.
OwnsOf(p) == {<<o, <<p.kind, p.name>>, "owns">> : o \in IF p.name = None THEN {} ELSE ToSet(p.owners)}
SelectsOf(p) == {<<<<p.kind, p.name>>, <<"selector", s>>, "selects">> :
                   s \in IF p.kind = "Service" /\ p.name # None THEN ToSet(p.selector) ELSE {}}
CallsOf(p) == {<<<<"service", x.client>>, <<"service", x.server>>, "calls">> :
                 x \in {y \in ToSet(p.traces) : None \notin {y.client, y.server}}}
ServicesOf(p) == Where(p.batches, LAMBDA s : s # None)
FollowsOf(p) == {<<<<"service", ServicesOf(p)[i]>>, <<"service", ServicesOf(p)[i + 1]>>, "calls">> :
                   i \in 1..(Len(ServicesOf(p)) - 1)}

\* There are no others.
LEMMA RelationsAre ==
  ASSUME NEW p
  PROVE  Relations(p) = OwnsOf(p) \cup SelectsOf(p) \cup CallsOf(p) \cup FollowsOf(p)
BY DEF Relations, OwnsOf, SelectsOf, CallsOf, FollowsOf, ServicesOf

\* The names an object or a service can have, and a span of a trace.
Named == Names \ {None}
Pairs == Named \X Named
Spans == [root : Names, client : Names, server : Names]

\* A name that is cut stays a name, and names nothing only if it did.
LEMMA ResultParts ==
  ASSUME NEW p \in Results
  PROVE  /\ p.tool \in {"k8s_get", "trace_search", "other"} /\ p.name \in Names /\ p.service \in Names
         /\ p.owners \in Seq(STRING \X Named) /\ p.selector \in Seq(Pairs)
         /\ p.traces \in Seq(Spans) /\ p.batches \in Seq(Names)
         /\ p.tool = "k8s_get" => p.kind \in STRING /\ p.traces = <<>> /\ p.batches = <<>>
         /\ p.tool # "k8s_get" => p.name = None
         /\ p.tool = "other" => p.traces = <<>> /\ p.batches = <<>>
<1>1. None \in Names
  BY TopologyAssumption
<1>2. <<>> \in Seq(STRING \X Named) /\ <<>> \in Seq(Pairs) /\ <<>> \in Seq(Spans) /\ <<>> \in Seq(Names)
  OBVIOUS
<1>3. CASE p \in [tool : {"k8s_get"}, kind : STRING, name : Names,
                  owners : Seq(STRING \X (Names \ {None})), selector : Seq((Names \ {None}) \X (Names \ {None})),
                  traces : {<<>>}, batches : {<<>>}, service : {None}]
  BY <1>1, <1>2, <1>3 DEF Named, Pairs
<1>4. CASE p \in [tool : {"trace_search"}, kind : {None}, name : {None}, owners : {<<>>}, selector : {<<>>},
                  traces : Seq([root : Names, client : Names, server : Names]), batches : Seq(Names), service : {None}]
  BY <1>1, <1>2, <1>4 DEF Spans
<1>5. CASE p \in [tool : {"other"}, kind : {None}, name : {None}, owners : {<<>>}, selector : {<<>>},
                  traces : {<<>>}, batches : {<<>>}, service : Names]
  BY <1>1, <1>2, <1>5
<1> QED BY <1>3, <1>4, <1>5 DEF Results

\* A kind and a name are an id.
LEMMA IdType ==
  ASSUME NEW name \in Named
  PROVE  <<"service", name>> \in Ids /\ name \in Names /\ name # None
<1>1. "service" \in KindNames
  BY DEF KindNames
<1>2. name \in Names /\ name # None
  BY DEF Named
<1> QED BY <1>1, <1>2 DEF Ids

\* A key and a label make the id of a selector.
LEMMA SelectorId ==
  ASSUME NEW pair \in Pairs
  PROVE  <<"selector", pair>> \in Ids
<1>1. "selector" \in KindNames
  BY DEF KindNames
<1>2. pair \in Names \cup (Names \X Names)
  BY DEF Pairs, Named
<1> QED BY <1>1, <1>2 DEF Ids

\* A test selects elements that pass it, all of them.
LEMMA ServicesNamed ==
  ASSUME NEW p \in Results
  PROVE  ServicesOf(p) \in Seq(Named)
<1> DEFINE b == p.batches
           I == {i \in DOMAIN b : b[i] # None}
<1>1. b \in Seq(Names)
  BY ResultParts
<1>2. ServicesOf(p) = Keep(b, I)
  BY DEF ServicesOf, Where
<1>3. Keep(b, I) \in Seq(Names)
  BY <1>1, KeepType
<1>4. PICK m : Selects(m, b, I)
  BY <1>1, KeepMap
<1>5. \A j \in 1..Len(Keep(b, I)) : Keep(b, I)[j] # None
  BY <1>4 DEF Selects
<1> HIDE DEF b, I
<1>6. Keep(b, I) \in [1..Len(Keep(b, I)) -> Named] /\ Len(Keep(b, I)) \in Nat
  BY <1>3, <1>5 DEF Named
<1> QED BY <1>2, <1>6

\* Where there are no services, none follow each other.
LEMMA NoFollows ==
  ASSUME NEW p, p.batches = <<>>
  PROVE  FollowsOf(p) = {}
<1>1. ServicesOf(p) = <<>>
  BY KeepEmpty DEF ServicesOf, Where
<1>2. 1..(Len(<<>>) - 1) = {}
  OBVIOUS
<1> QED BY <1>1, <1>2 DEF FollowsOf

\* Without traces there are no calls.
LEMMA NoCalls ==
  ASSUME NEW p, p.traces = <<>>
  PROVE  CallsOf(p) = {}
<1>1. ToSet(<<>>) = {}
  BY DEF ToSet
<1> QED BY <1>1 DEF CallsOf

\* project_k8s_object shows the relations of the object.
LEMMA K8sSights ==
  ASSUME NEW now, NEW ev \in SUBSET Nat, ev # {}, NEW p \in Results, p.tool = "k8s_get"
  PROVE  SightsOf(ProjectK8sObject(p, ev, now), ev, Relations(p), now)
<1> DEFINE node == <<p.kind, p.name>>
           Related(from, to, relation) == Sight({}, {Edge(from, to, relation, "kubernetes", ev, now)}, ev)
           owns == Each(p.owners, LAMBDA o : Related(o, node, "owns"))
           selects == Each(p.selector, LAMBDA s : Related(node, <<"selector", s>>, "selects"))
           first == <<Sight({node}, {}, ev)>>
<1>1. /\ p.name \in Names /\ p.kind \in STRING /\ p.traces = <<>> /\ p.batches = <<>>
      /\ p.owners \in Seq(STRING \X Named) /\ p.selector \in Seq(Pairs)
  BY ResultParts
<1>2. Relations(p) = OwnsOf(p) \cup SelectsOf(p)
  BY <1>1, RelationsAre, NoCalls, NoFollows
<1>3. ProjectK8sObject(p, ev, now) =
        IF p.name = None THEN <<>>
        ELSE first \o owns \o IF p.kind = "Service" THEN selects ELSE <<>>
  BY DEF ProjectK8sObject
<1>4. node \in Ids
  BY <1>1 DEF Ids, KindNames
<1>5. \A from, to \in Ids, relation \in ObjectRelations :
         /\ Related(from, to, relation) \in SightSet(now)
         /\ \A e \in Related(from, to, relation).edge : e.evidence = ev /\ KeyOf(e) = <<from, to, relation>>
         /\ \E e \in Related(from, to, relation).edge : KeyOf(e) = <<from, to, relation>>
         /\ <<from, to, relation>> \in Keys
  <2> TAKE from, to \in Ids, relation \in ObjectRelations
  <2> DEFINE e == Edge(from, to, relation, "kubernetes", ev, now)
  <2>2. e \in Edges(now) /\ e.evidence = ev /\ KeyOf(e) = <<from, to, relation>> /\ <<from, to, relation>> \in Keys
    BY EdgeType
  <2> HIDE DEF e
  <2>3. Related(from, to, relation) = [node |-> {}, edge |-> {e}, evidence |-> ev]
    BY DEF Sight, e
  <2>4. [node |-> {}, edge |-> {e}, evidence |-> ev] \in SightSet(now)
    BY <2>2 DEF SightSet
  <2> HIDE DEF Related
  <2> QED BY <2>2, <2>3, <2>4
<1>a. "owns" \in ObjectRelations /\ "selects" \in ObjectRelations
  BY DEF ObjectRelations
<1> HIDE DEF Related
<1>6. SightsOf(owns, ev, {<<o, node, "owns">> : o \in ToSet(p.owners)}, now)
  <2> DEFINE R == STRING \X Named
             M == [o \in R |-> Related(o, node, "owns")]
             Rel == [o \in R |-> {<<o, node, "owns">>}]
  <2>1. R \subseteq Ids
    BY DEF Ids, KindNames, Named
  <2>a. \A x \in R :
         /\ Related(x, node, "owns") \in SightSet(now)
         /\ \A e \in Related(x, node, "owns").edge : e.evidence = ev /\ KeyOf(e) = <<x, node, "owns">>
         /\ \E e \in Related(x, node, "owns").edge : KeyOf(e) = <<x, node, "owns">>
         /\ <<x, node, "owns">> \in Keys
    <3> HIDE DEF node, R
    <3> QED BY <1>4, <1>5, <1>a, <2>1
  <2>2. Makes(M, R, ev, Rel, now)
    <3>1. M \in [R -> SightSet(now)] /\ \A x \in R : \A e \in M[x].edge : e.evidence = ev
      <4> HIDE DEF node, R
      <4> QED BY <2>a
    <3>2. \A x \in R : \A k : k \in Rel[x] <=> k \in Keys /\ \E e \in M[x].edge : KeyOf(e) = k
      <4>1. \A x \in R : M[x] = Related(x, node, "owns") /\ Rel[x] = {<<x, node, "owns">>}
        OBVIOUS
      <4> HIDE DEF M, Rel, R, node
      <4>2. ASSUME NEW x \in R, NEW k
            PROVE  k \in Rel[x] <=> k \in Keys /\ \E e \in M[x].edge : KeyOf(e) = k
        <5> DEFINE key == <<x, node, "owns">>
                   E == Related(x, node, "owns").edge
        <5>1. M[x].edge = E /\ Rel[x] = {key}
          BY <4>1
        <5>2. (\A e \in E : KeyOf(e) = key) /\ (\E e \in E : KeyOf(e) = key) /\ key \in Keys
          BY <2>a
        <5> HIDE DEF key, E
        <5> QED BY <5>1, <5>2
      <4> QED BY <4>2
    <3> HIDE DEF M, R, Rel
    <3> QED BY <3>1, <3>2 DEF Makes
  <2>3. Made(owns, p.owners, M)
    BY <1>1 DEF Each, Made
  <2>4. SightsOf(owns, ev, Shows(Rel, p.owners), now)
    <3>1. p.owners \in Seq(R)
      BY <1>1
    <3> HIDE DEF M, R, Rel, owns
    <3> QED BY <2>2, <2>3, <3>1, SightsEach
  <2>5. Shows(Rel, p.owners) = {<<o, node, "owns">> : o \in ToSet(p.owners)}
    <3>1. \A i \in DOMAIN p.owners : Rel[p.owners[i]] = {<<p.owners[i], node, "owns">>}
      BY <1>1
    <3> HIDE DEF R, Rel, node
    <3> QED BY <3>1 DEF Shows, ToSet
  <2> QED BY <2>4, <2>5
<1>7. SightsOf(selects, ev, {<<node, <<"selector", s>>, "selects">> : s \in ToSet(p.selector)}, now)
  <2> DEFINE M == [s \in Pairs |-> Related(node, <<"selector", s>>, "selects")]
             Rel == [s \in Pairs |-> {<<node, <<"selector", s>>, "selects">>}]
  <2>1. \A s \in Pairs : <<"selector", s>> \in Ids
    BY SelectorId
  <2>a. \A x \in Pairs :
         /\ Related(node, <<"selector", x>>, "selects") \in SightSet(now)
         /\ \A e \in Related(node, <<"selector", x>>, "selects").edge : e.evidence = ev /\ KeyOf(e) = <<node, <<"selector", x>>, "selects">>
         /\ \E e \in Related(node, <<"selector", x>>, "selects").edge : KeyOf(e) = <<node, <<"selector", x>>, "selects">>
         /\ <<node, <<"selector", x>>, "selects">> \in Keys
    <3> HIDE DEF node
    <3> QED BY <1>4, <1>5, <1>a, <2>1
  <2>2. Makes(M, Pairs, ev, Rel, now)
    <3>1. M \in [Pairs -> SightSet(now)] /\ \A x \in Pairs : \A e \in M[x].edge : e.evidence = ev
      <4> HIDE DEF node
      <4> QED BY <2>a
    <3>2. \A x \in Pairs : \A k : k \in Rel[x] <=> k \in Keys /\ \E e \in M[x].edge : KeyOf(e) = k
      <4>1. \A x \in Pairs : M[x] = Related(node, <<"selector", x>>, "selects") /\ Rel[x] = {<<node, <<"selector", x>>, "selects">>}
        OBVIOUS
      <4> HIDE DEF M, Rel, node
      <4>2. ASSUME NEW x \in Pairs, NEW k
            PROVE  k \in Rel[x] <=> k \in Keys /\ \E e \in M[x].edge : KeyOf(e) = k
        <5> DEFINE key == <<node, <<"selector", x>>, "selects">>
                   E == Related(node, <<"selector", x>>, "selects").edge
        <5>1. M[x].edge = E /\ Rel[x] = {key}
          BY <4>1
        <5>2. (\A e \in E : KeyOf(e) = key) /\ (\E e \in E : KeyOf(e) = key) /\ key \in Keys
          BY <2>a
        <5> HIDE DEF key, E
        <5> QED BY <5>1, <5>2
      <4> QED BY <4>2
    <3> HIDE DEF M, Rel
    <3> QED BY <3>1, <3>2 DEF Makes
  <2>3. Made(selects, p.selector, M)
    BY <1>1 DEF Each, Made
  <2>4. SightsOf(selects, ev, Shows(Rel, p.selector), now)
    <3> HIDE DEF M, Rel, selects
    <3> QED BY <1>1, <2>2, <2>3, SightsEach
  <2>5. Shows(Rel, p.selector) = {<<node, <<"selector", s>>, "selects">> : s \in ToSet(p.selector)}
    <3>1. \A i \in DOMAIN p.selector : Rel[p.selector[i]] = {<<node, <<"selector", p.selector[i]>>, "selects">>}
      BY <1>1
    <3> HIDE DEF Rel, node
    <3> QED BY <3>1 DEF Shows, ToSet
  <2> QED BY <2>4, <2>5
<1>8. SightsOf(first, ev, {}, now)
  BY <1>4, SightsNode
<1>9. SightsOf(<<>>, ev, {}, now)
  BY SightsNone
<1>10. CASE p.name = None
  <2>1. OwnsOf(p) = {} /\ SelectsOf(p) = {}
    BY <1>10 DEF OwnsOf, SelectsOf
  <2> HIDE DEF first, owns, selects
  <2> QED BY <1>2, <1>3, <1>9, <1>10, <2>1
<1>11. CASE p.name # None
  <2>1. OwnsOf(p) = {<<o, node, "owns">> : o \in ToSet(p.owners)}
    BY <1>11 DEF OwnsOf
  <2>2. SelectsOf(p) = IF p.kind = "Service" THEN {<<node, <<"selector", s>>, "selects">> : s \in ToSet(p.selector)} ELSE {}
    BY <1>11 DEF SelectsOf
  <2> HIDE DEF first, owns, selects, node
  <2>3. SightsOf(first \o owns, ev, {} \cup OwnsOf(p), now)
    BY <1>6, <1>8, <2>1, SightsJoin
  <2>4. SightsOf(IF p.kind = "Service" THEN selects ELSE <<>>, ev, SelectsOf(p), now)
    BY <1>7, <1>9, <2>2
  <2>5. SightsOf(first \o owns \o IF p.kind = "Service" THEN selects ELSE <<>>, ev, ({} \cup OwnsOf(p)) \cup SelectsOf(p), now)
    BY <2>3, <2>4, SightsJoin
  <2>6. ({} \cup OwnsOf(p)) \cup SelectsOf(p) = Relations(p)
    BY <1>2
  <2> QED BY <1>3, <1>11, <2>5, <2>6
<1> QED BY <1>10, <1>11

\* The neighbours in a sequence.
LEMMA WindowsAre ==
  ASSUME NEW S, NEW s \in Seq(S)
  PROVE  /\ Windows(s) \in Seq(S \X S)
         /\ DOMAIN Windows(s) = 1..(Len(s) - 1)
         /\ \A i \in 1..(Len(s) - 1) : Windows(s)[i] = <<s[i], s[i + 1]>>
<1>1. CASE s = <<>>
  <2>1. Windows(s) = <<>> /\ Len(s) = 0
    BY <1>1 DEF Windows
  <2>2. 1..(0 - 1) = {} /\ DOMAIN <<>> = {} /\ <<>> \in Seq(S \X S)
    OBVIOUS
  <2> QED BY <2>1, <2>2
<1>2. CASE s # <<>>
  <2> DEFINE n == Len(s) - 1
             w == [i \in 1..n |-> <<s[i], s[i + 1]>>]
  <2>1. n \in Nat
    BY <1>2
  <2>2. Windows(s) = w
    BY <1>2 DEF Windows
  <2>3. \A i \in 1..n : s[i] \in S /\ s[i + 1] \in S
    OBVIOUS
  <2>4. w \in [1..n -> S \X S] /\ \A i \in 1..n : w[i] = <<s[i], s[i + 1]>>
    BY <2>3
  <2> HIDE DEF n, w
  <2>5. w \in Seq(S \X S) /\ DOMAIN w = 1..n
    BY <2>1, <2>4
  <2> QED BY <2>2, <2>4, <2>5 DEF n
<1> QED BY <1>1, <1>2

\* project_trace shows the calls of the traces and of the services in a row.
LEMMA TraceSights ==
  ASSUME NEW now, NEW ev \in SUBSET Nat, ev # {}, NEW p \in Results, p.tool = "trace_search"
  PROVE  SightsOf(ProjectTrace(p, ev, now), ev, Relations(p), now)
<1> DEFINE Id(name) == <<"service", name>>
           Call(from, to) == Edge(<<"service", from>>, <<"service", to>>, "calls", "trace", ev, now)
           Trace(t) == Sight(IF t.root = None THEN {} ELSE {<<"service", t.root>>},
                             IF None \in {t.client, t.server} THEN {} ELSE {Call(t.client, t.server)}, ev)
           services == ServicesOf(p)
           Follow(w) == Sight({}, {Call(w[1], w[2])}, ev)
           traced == Each(p.traces, Trace)
           calls == Each(Windows(services), Follow)
<1>1. p.name = None /\ p.traces \in Seq(Spans) /\ services \in Seq(Named)
  BY ResultParts, ServicesNamed
<1>2. Relations(p) = CallsOf(p) \cup FollowsOf(p)
  <2>1. OwnsOf(p) = {} /\ SelectsOf(p) = {}
    BY <1>1 DEF OwnsOf, SelectsOf
  <2> QED BY <2>1, RelationsAre
<1>3. ProjectTrace(p, ev, now) = traced \o calls
  BY DEF ProjectTrace, ServicesOf
<1>4. \A from, to \in Named :
         /\ Call(from, to) \in Edges(now) /\ Call(from, to).evidence = ev
         /\ KeyOf(Call(from, to)) = <<Id(from), Id(to), "calls">> /\ <<Id(from), Id(to), "calls">> \in Keys
  <2> TAKE from, to \in Named
  <2>1. Id(from) \in Ids /\ Id(to) \in Ids
    BY IdType
  <2>2. PICK f \in Ids, t \in Ids : f = Id(from) /\ t = Id(to)
    BY <2>1
  <2>4. /\ Edge(f, t, "calls", "trace", ev, now) \in Edges(now)
        /\ Edge(f, t, "calls", "trace", ev, now).evidence = ev
        /\ KeyOf(Edge(f, t, "calls", "trace", ev, now)) = <<f, t, "calls">>
        /\ <<f, t, "calls">> \in Keys
    BY CallType
  <2>5. Call(from, to) = Edge(Id(from), Id(to), "calls", "trace", ev, now)
    OBVIOUS
  <2> HIDE DEF Call, Id
  <2> QED BY <2>2, <2>4, <2>5
<1> HIDE DEF Call
<1>5. SightsOf(traced, ev, CallsOf(p), now)
  <2> DEFINE M == [t \in Spans |-> Trace(t)]
             Rel == [t \in Spans |-> IF None \in {t.client, t.server} THEN {}
                                     ELSE {<<Id(t.client), Id(t.server), "calls">>}]
  <2>1. Makes(M, Spans, ev, Rel, now)
    <3>1. ASSUME NEW t \in Spans
          PROVE  /\ M[t] \in SightSet(now)
                 /\ \A e \in M[t].edge : e.evidence = ev
                 /\ \A k : k \in Rel[t] <=> k \in Keys /\ \E e \in M[t].edge : KeyOf(e) = k
      <4> DEFINE node == IF t.root = None THEN {} ELSE {<<"service", t.root>>}
                 edge == IF None \in {t.client, t.server} THEN {} ELSE {Call(t.client, t.server)}
      <4>1. t.root \in Names /\ t.client \in Names /\ t.server \in Names
        BY DEF Spans
      <4>2. M[t] = [node |-> node, edge |-> edge, evidence |-> ev]
        BY DEF Sight
      <4>3. node \in {{}} \cup {{i} : i \in Ids}
        BY <4>1, IdType DEF Named
      <4>4. CASE None \in {t.client, t.server}
        <5>1. edge = {} /\ Rel[t] = {}
          BY <4>4
        <5> HIDE DEF M, Rel, node, edge
        <5>2. M[t].edge = {} /\ M[t] \in SightSet(now)
          BY <4>2, <4>3, <5>1 DEF SightSet
        <5> QED BY <5>1, <5>2
      <4>5. CASE None \notin {t.client, t.server}
        <5> DEFINE e == Call(t.client, t.server)
                   key == <<Id(t.client), Id(t.server), "calls">>
        <5>1. edge = {e} /\ Rel[t] = {key}
          BY <4>5
        <5>2. t.client \in Named /\ t.server \in Named
          BY <4>1, <4>5 DEF Named
        <5>3. e \in Edges(now) /\ e.evidence = ev /\ KeyOf(e) = key /\ key \in Keys
          BY <1>4, <5>2
        <5> HIDE DEF M, Rel, node, edge, e, key
        <5>4. M[t].edge = {e} /\ M[t] \in SightSet(now)
          BY <4>2, <4>3, <5>1, <5>3 DEF SightSet
        <5> QED BY <5>1, <5>3, <5>4
      <4> QED BY <4>4, <4>5
    <3>2. M \in [Spans -> SightSet(now)]
      <4>1. \A t \in Spans : Trace(t) \in SightSet(now)
        BY <3>1
      <4> HIDE DEF Trace
      <4> QED BY <4>1
    <3> HIDE DEF M, Rel
    <3> QED BY <3>1, <3>2 DEF Makes
  <2>2. Made(traced, p.traces, M)
    <3>1. \A i \in DOMAIN p.traces : p.traces[i] \in Spans
      BY <1>1
    <3> HIDE DEF Trace
    <3> QED BY <3>1 DEF Each, Made
  <2>3. SightsOf(traced, ev, Shows(Rel, p.traces), now)
    <3> HIDE DEF M, Rel, traced
    <3> QED BY <1>1, <2>1, <2>2, SightsEach
  <2>4. Shows(Rel, p.traces) = CallsOf(p)
    <3>1. \A i \in DOMAIN p.traces : \A k : k \in Rel[p.traces[i]] <=>
             /\ None \notin {p.traces[i].client, p.traces[i].server}
             /\ k = <<Id(p.traces[i].client), Id(p.traces[i].server), "calls">>
      <4>1. \A t \in Spans : \A k : k \in Rel[t] <=> /\ None \notin {t.client, t.server}
                                                   /\ k = <<Id(t.client), Id(t.server), "calls">>
        OBVIOUS
      <4>2. \A i \in DOMAIN p.traces : p.traces[i] \in Spans
        BY <1>1
      <4> HIDE DEF Rel, Id
      <4> QED BY <4>1, <4>2
    <3>2. \A k : k \in Shows(Rel, p.traces) <=> \E i \in DOMAIN p.traces : k \in Rel[p.traces[i]]
      BY DEF Shows
    <3>3. \A k : k \in CallsOf(p) <=>
             \E i \in DOMAIN p.traces : /\ None \notin {p.traces[i].client, p.traces[i].server}
                                        /\ k = <<Id(p.traces[i].client), Id(p.traces[i].server), "calls">>
      BY DEF CallsOf, ToSet
    <3> HIDE DEF Rel, Id
    <3>4. \A k : k \in Shows(Rel, p.traces) <=> k \in CallsOf(p)
      BY <3>1, <3>2, <3>3
    <3> QED BY <3>4
  <2> QED BY <2>3, <2>4
<1>6. SightsOf(calls, ev, FollowsOf(p), now)
  <2> DEFINE R == Named \X Named
             w == Windows(services)
             M == [x \in R |-> Follow(x)]
             Rel == [x \in R |-> {<<Id(x[1]), Id(x[2]), "calls">>}]
  <2>1. /\ w \in Seq(R) /\ DOMAIN w = 1..(Len(services) - 1)
        /\ \A i \in 1..(Len(services) - 1) : w[i] = <<services[i], services[i + 1]>>
    BY <1>1, WindowsAre
  <2>2. Makes(M, R, ev, Rel, now)
    <3>1. ASSUME NEW x \in R
          PROVE  /\ M[x] \in SightSet(now)
                 /\ \A e \in M[x].edge : e.evidence = ev
                 /\ \A k : k \in Rel[x] <=> k \in Keys /\ \E e \in M[x].edge : KeyOf(e) = k
      <4> DEFINE e == Call(x[1], x[2])
                 key == <<Id(x[1]), Id(x[2]), "calls">>
      <4>1. x[1] \in Named /\ x[2] \in Named
        OBVIOUS
      <4>2. M[x] = [node |-> {}, edge |-> {e}, evidence |-> ev] /\ Rel[x] = {key}
        BY DEF Sight
      <4>3. e \in Edges(now) /\ e.evidence = ev /\ KeyOf(e) = key /\ key \in Keys
        BY <1>4, <4>1
      <4> HIDE DEF M, Rel, e, key
      <4>4. M[x].edge = {e} /\ M[x] \in SightSet(now)
        BY <4>2, <4>3 DEF SightSet
      <4> QED BY <4>2, <4>3, <4>4
    <3>2. M \in [R -> SightSet(now)]
      <4>1. \A x \in R : Follow(x) \in SightSet(now)
        BY <3>1
      <4> HIDE DEF Follow, R
      <4> QED BY <4>1
    <3> HIDE DEF M, Rel, R
    <3> QED BY <3>1, <3>2 DEF Makes
  <2>3. Made(calls, w, M)
    <3>1. \A i \in DOMAIN w : w[i] \in R
      <4> HIDE DEF w, R
      <4> QED BY <2>1
    <3> HIDE DEF Follow, R
    <3> QED BY <3>1 DEF Each, Made
  <2>4. SightsOf(calls, ev, Shows(Rel, w), now)
    <3> HIDE DEF M, Rel, calls, w, R
    <3> QED BY <2>1, <2>2, <2>3, SightsEach
  <2>5. Shows(Rel, w) = FollowsOf(p)
    <3>1. \A i \in 1..(Len(services) - 1) : Rel[w[i]] = {<<Id(services[i]), Id(services[i + 1]), "calls">>}
      <4>1. ASSUME NEW i \in 1..(Len(services) - 1)
            PROVE  Rel[w[i]] = {<<Id(services[i]), Id(services[i + 1]), "calls">>}
        <5>1. w[i] = <<services[i], services[i + 1]>> /\ w[i] \in R
          <6> HIDE DEF w, R
          <6> QED BY <2>1
        <5>2. Rel[w[i]] = {<<Id(w[i][1]), Id(w[i][2]), "calls">>}
          <6> HIDE DEF w, R, Id
          <6> QED BY <5>1
        <5> HIDE DEF w, R, Rel, services
        <5> QED BY <5>1, <5>2
      <4> QED BY <4>1
    <3>2. \A k : k \in Shows(Rel, w) <=> \E i \in 1..(Len(services) - 1) : k \in Rel[w[i]]
      <4> HIDE DEF Rel, w, services
      <4> QED BY <2>1 DEF Shows
    <3>3. \A k : k \in FollowsOf(p) <=>
             \E i \in 1..(Len(services) - 1) : k = <<Id(services[i]), Id(services[i + 1]), "calls">>
      BY DEF FollowsOf
    <3> HIDE DEF Rel, w, Id, services
    <3>4. \A k : k \in Shows(Rel, w) <=> k \in FollowsOf(p)
      BY <3>1, <3>2, <3>3
    <3> QED BY <3>4
  <2> QED BY <2>4, <2>5
<1> HIDE DEF traced, calls
<1>7. SightsOf(traced \o calls, ev, CallsOf(p) \cup FollowsOf(p), now)
  BY <1>5, <1>6, SightsJoin
<1> QED BY <1>2, <1>3, <1>7

\* A service that is seen says nothing of relations.
LEMMA ServiceSights ==
  ASSUME NEW now, NEW ev \in SUBSET Nat, NEW name \in Names, NEW any
  PROVE  SightsOf(ProjectService(name, ev), any, {}, now)
<1>1. CASE name = None
  BY <1>1, SightsNone DEF ProjectService
<1>2. CASE name # None
  <2>1. <<"service", name>> \in Ids
    BY <1>2, IdType DEF Named
  <2>2. PICK id \in Ids : id = <<"service", name>>
    BY <2>1
  <2>3. ProjectService(name, ev) = <<Sight({id}, {}, ev)>>
    BY <1>2, <2>2 DEF ProjectService
  <2> QED BY <2>3, SightsNode
<1> QED BY <1>1, <1>2

\* Whatever a result is, the topology is shown its relations.
LEMMA PayloadSights ==
  ASSUME NEW now, NEW ev \in SUBSET Nat, ev # {}, NEW p \in Results
  PROVE  SightsOf(ProjectPayload(p, ev, now), ev, Relations(p), now)
<1>1. p.tool \in {"k8s_get", "trace_search", "other"} /\ p.service \in Names
  BY ResultParts
<1>2. CASE p.tool = "k8s_get"
  <2>1. ProjectPayload(p, ev, now) = ProjectK8sObject(p, ev, now)
    BY <1>2 DEF ProjectPayload
  <2> QED BY <1>2, <2>1, K8sSights
<1>3. CASE p.tool = "trace_search"
  <2>1. ProjectPayload(p, ev, now) = ProjectTrace(p, ev, now)
    BY <1>3 DEF ProjectPayload
  <2> QED BY <1>3, <2>1, TraceSights
<1>4. CASE p.tool = "other"
  <2>1. ProjectPayload(p, ev, now) = ProjectService(p.service, ev)
    BY <1>4 DEF ProjectPayload
  <2>2. p.traces = <<>> /\ p.batches = <<>> /\ p.name = None
    BY <1>4, ResultParts
  <2>3. OwnsOf(p) = {} /\ SelectsOf(p) = {}
    BY <2>2 DEF OwnsOf, SelectsOf
  <2>4. Relations(p) = {}
    BY <2>2, <2>3, NoCalls, NoFollows, RelationsAre
  <2> QED BY <1>1, <2>1, <2>4, ServiceSights
<1> QED BY <1>1, <1>2, <1>3, <1>4

\* What the log keeps is within its limits and no two keys are cut to one, so that
\* the excerpt is all of it.
Apart(p) == \A i, j \in DOMAIN p.selector : Bounded[p.selector[i][1]] = Bounded[p.selector[j][1]] => i = j
Within(p) == Apart(p) /\ \A s \in {p.owners, p.selector, p.traces, p.batches} : Len(s) <= MaxProjected

\* The relations with their names cut; the excerpt shows some of them, and all of
\* them if everything fits.
Shortened(relations) == {ShortenRelation(r) : r \in relations}
Cuts(shown, relations, all) == shown \subseteq Shortened(relations) /\ (all => shown = Shortened(relations))

\* This holds for two kinds of relations if it does for each.
LEMMA CutsJoin ==
  ASSUME NEW all, NEW A, NEW B, NEW P, NEW Q, Cuts(A, P, all), Cuts(B, Q, all)
  PROVE  Cuts(A \cup B, P \cup Q, all)
<1>1. Shortened(P \cup Q) = Shortened(P) \cup Shortened(Q)
  BY DEF Shortened
<1> HIDE DEF Shortened
<1> QED BY <1>1 DEF Cuts

\* take(n) keeps the beginning.
LEMMA TakeIs ==
  ASSUME NEW S, NEW s \in Seq(S)
  PROVE  /\ Take(s) \in Seq(S) /\ Len(Take(s)) <= Len(s)
         /\ \A i \in 1..Len(Take(s)) : Take(s)[i] = s[i]
         /\ Len(s) <= MaxProjected => Take(s) = s
         /\ Take(s) = <<>> => s = <<>>
<1> DEFINE n == IF Len(s) < MaxProjected THEN Len(s) ELSE MaxProjected
<1>1. MaxProjected \in Nat /\ MaxProjected > 0 /\ Len(s) \in Nat
  BY TopologyAssumption
<1>2. n \in 0..Len(s) /\ (Len(s) <= MaxProjected => n = Len(s)) /\ (n = 0 => Len(s) = 0)
  BY <1>1
<1>3. Take(s) = SubSeq(s, 1, n)
  BY DEF Take
<1> HIDE DEF n
<1>4. Take(s) \in Seq(S) /\ Len(Take(s)) = n /\ \A i \in 1..n : Take(s)[i] = s[i]
  <2>1. n \in Nat /\ n <= Len(s) /\ 1 \in 1..(Len(s) + 1)
    BY <1>1, <1>2
  <2> QED BY <1>1, <1>3, <2>1, SubSeqProperties
<1>5. n = Len(s) => Take(s) = s
  BY <1>4, SeqEqual
<1>6. Take(s) = <<>> => s = <<>>
  BY <1>1, <1>2, <1>4, EmptySeq
<1> QED BY <1>1, <1>2, <1>4, <1>5, <1>6

\* Names that are cut are names.
LEMMA BoundedNames ==
  ASSUME NEW n \in Names
  PROVE  /\ Bounded[n] \in Names /\ (Bounded[n] = None <=> n = None)
         /\ n \in Named => Bounded[n] \in Named
BY TopologyAssumption DEF Named

\* The beginning of s that an excerpt takes, each element cut by C.
CutBy(r, s, C) == r = [i \in DOMAIN Take(s) |-> C[Take(s)[i]]]

\* r holds elements of s cut by C, and all of them if an excerpt has room for s.
CutHolds(r, s, C) ==
    /\ ToSet(r) \subseteq {C[x] : x \in ToSet(s)}
    /\ Len(s) <= MaxProjected => ToSet(r) = {C[x] : x \in ToSet(s)}

\* What a cut sequence holds: the elements of the beginning, each cut by C.
LEMMA CutElements ==
  ASSUME NEW S, NEW s \in Seq(S), NEW C \in [S -> S], NEW r, CutBy(r, s, C)
  PROVE  r \in Seq(S) /\ CutHolds(r, s, C)
<1> DEFINE t == Take(s)
<1>1. /\ t \in Seq(S) /\ Len(t) <= Len(s) /\ \A i \in 1..Len(t) : t[i] = s[i]
      /\ Len(s) <= MaxProjected => t = s
  BY TakeIs
<1>2. r = [i \in DOMAIN t |-> C[t[i]]]
  BY DEF CutBy
<1> HIDE DEF t
<1>3. DOMAIN t = 1..Len(t) /\ Len(t) \in Nat /\ Len(s) \in Nat /\ DOMAIN s = 1..Len(s)
  BY <1>1
<1>4. r \in [1..Len(t) -> S] /\ \A i \in 1..Len(t) : r[i] = C[t[i]]
  BY <1>1, <1>2, <1>3
<1>5. r \in Seq(S)
  BY <1>3, <1>4
<1>6. \A x : x \in ToSet(r) <=> \E i \in 1..Len(t) : x = C[t[i]]
  BY <1>4 DEF ToSet
<1>7. \A i \in 1..Len(t) : i \in DOMAIN s
  BY <1>1, <1>3
<1>8. \A x : x \in {C[y] : y \in ToSet(s)} <=> \E i \in DOMAIN s : x = C[s[i]]
  BY DEF ToSet
<1>9. ToSet(r) \subseteq {C[x] : x \in ToSet(s)}
  BY <1>1, <1>6, <1>7, <1>8
<1>10. ASSUME Len(s) <= MaxProjected PROVE ToSet(r) = {C[x] : x \in ToSet(s)}
  BY <1>1, <1>3, <1>6, <1>8, <1>10
<1> QED BY <1>5, <1>9, <1>10 DEF CutHolds

\* No two pairs have the same key.
OneByOne(pairs) == \A i, j \in DOMAIN pairs : pairs[i][1] = pairs[j][1] => i = j

\* What a map of pairs holds: some of them, and all if no key is repeated.
LEMMA Collected ==
  ASSUME NEW s \in Seq(Pairs)
  PROVE  /\ Collect(s) \in Seq(Pairs) /\ ToSet(Collect(s)) \subseteq ToSet(s)
         /\ OneByOne(s) => Collect(s) = s
<1> DEFINE I == {i \in DOMAIN s : \A j \in DOMAIN s : j > i => s[j][1] # s[i][1]}
<1>1. Collect(s) = Keep(s, I)
  BY DEF Collect
<1>2. ASSUME OneByOne(s) PROVE 1..Len(s) \subseteq I
  <2>1. DOMAIN s = 1..Len(s) /\ Len(s) \in Nat
    OBVIOUS
  <2>2. ASSUME NEW i \in DOMAIN s, NEW j \in DOMAIN s, j > i PROVE s[j][1] # s[i][1]
    <3>1. i # j
      BY <2>1, <2>2
    <3> QED BY <1>2, <3>1 DEF OneByOne
  <2> QED BY <2>1, <2>2
<1> HIDE DEF I
<1>3. Keep(s, I) \in Seq(Pairs)
  BY KeepType
<1>4. \A x : x \in ToSet(Keep(s, I)) <=> \E i \in DOMAIN s : i \in I /\ s[i] = x
  BY KeepElements
<1>5. ToSet(Keep(s, I)) \subseteq ToSet(s)
  BY <1>4 DEF ToSet
<1>6. OneByOne(s) => Keep(s, I) = s
  BY <1>2, KeepAll
<1> QED BY <1>1, <1>3, <1>5, <1>6

\* The excerpt of an object.
LEMMA K8sExcerpt ==
  ASSUME NEW p \in Results, p.tool = "k8s_get", p.name # None,
         NEW q, q \in K8sArtifactProjection(p)
  PROVE  q \in Results /\ Cuts(Relations(q), Relations(p), Within(p))
<1> DEFINE OwnCut == [o \in STRING \X Named |-> <<o[1], Bounded[o[2]]>>]
           PairCut == [s \in Pairs |-> <<Bounded[s[1]], Bounded[s[2]]>>]
           owners == Each(Take(p.owners), LAMBDA o : <<o[1], Bounded[o[2]]>>)
           pairs == Each(Take(p.selector), LAMBDA s : <<Bounded[s[1]], Bounded[s[2]]>>)
           selector == Collect(pairs)
<1>1. /\ p.name \in Names /\ p.kind \in STRING /\ p.traces = <<>> /\ p.batches = <<>>
      /\ p.owners \in Seq(STRING \X Named) /\ p.selector \in Seq(Pairs)
  BY ResultParts
<1>2. p \in [tool : {"k8s_get"}, kind : STRING, name : Names,
             owners : Seq(STRING \X Named), selector : Seq(Pairs),
             traces : {<<>>}, batches : {<<>>}, service : {None}]
  BY DEF Results, Named, Pairs
<1>3. Take(p.owners) \in Seq(STRING \X Named) /\ Take(p.selector) \in Seq(Pairs)
  BY <1>1, TakeIs
<1>4. PairCut \in [Pairs -> Pairs] /\ OwnCut \in [STRING \X Named -> STRING \X Named]
  <2>1. \A n \in Named : Bounded[n] \in Named
    BY BoundedNames DEF Named
  <2> QED BY <2>1 DEF Pairs
<1>5. CutBy(owners, p.owners, OwnCut)
  <2> DEFINE t == Take(p.owners)
  <2>1. \A i \in DOMAIN t : t[i] \in STRING \X Named
    BY <1>3
  <2>2. owners = [i \in DOMAIN t |-> <<t[i][1], Bounded[t[i][2]]>>]
    BY DEF Each
  <2> HIDE DEF t
  <2>3. \A i \in DOMAIN t : OwnCut[t[i]] = <<t[i][1], Bounded[t[i][2]]>>
    BY <2>1
  <2> QED BY <2>2, <2>3 DEF CutBy, t
<1>6. CutBy(pairs, p.selector, PairCut)
  <2> DEFINE t == Take(p.selector)
  <2>1. \A i \in DOMAIN t : t[i] \in Pairs
    BY <1>3
  <2>2. pairs = [i \in DOMAIN t |-> <<Bounded[t[i][1]], Bounded[t[i][2]]>>]
    BY DEF Each
  <2> HIDE DEF t
  <2>3. \A i \in DOMAIN t : PairCut[t[i]] = <<Bounded[t[i][1]], Bounded[t[i][2]]>>
    BY <2>1
  <2> QED BY <2>2, <2>3 DEF CutBy, t
<1>7. q = [p EXCEPT !.name = Bounded[@], !.owners = owners, !.selector = selector]
  BY DEF K8sArtifactProjection
<1>a. ASSUME Within(p), NEW i \in DOMAIN pairs, NEW j \in DOMAIN pairs, pairs[i][1] = pairs[j][1]
      PROVE  i = j
  <2> DEFINE t == Take(p.selector)
  <2>1. t = p.selector
    BY <1>1, <1>a, TakeIs DEF Within
  <2>2. DOMAIN pairs = DOMAIN p.selector /\ \A n \in DOMAIN pairs : pairs[n][1] = Bounded[p.selector[n][1]]
    BY <2>1 DEF Each
  <2> HIDE DEF pairs, t
  <2> QED BY <1>a, <2>2 DEF Within, Apart
<1> HIDE DEF owners, pairs, selector, OwnCut, PairCut
<1>8. /\ owners \in Seq(STRING \X Named)
      /\ ToSet(owners) \subseteq {OwnCut[x] : x \in ToSet(p.owners)}
      /\ Len(p.owners) <= MaxProjected => ToSet(owners) = {OwnCut[x] : x \in ToSet(p.owners)}
  <2>1. owners \in Seq(STRING \X Named) /\ CutHolds(owners, p.owners, OwnCut)
    BY <1>1, <1>4, <1>5, CutElements
  <2> QED BY <2>1 DEF CutHolds
<1>9. /\ selector \in Seq(Pairs)
      /\ ToSet(selector) \subseteq {PairCut[x] : x \in ToSet(p.selector)}
      /\ Within(p) => ToSet(selector) = {PairCut[x] : x \in ToSet(p.selector)}
  <2>1. pairs \in Seq(Pairs) /\ CutHolds(pairs, p.selector, PairCut)
    BY <1>1, <1>4, <1>6, CutElements
  <2>2. /\ Collect(pairs) \in Seq(Pairs) /\ ToSet(Collect(pairs)) \subseteq ToSet(pairs)
        /\ OneByOne(pairs) => Collect(pairs) = pairs
    BY <2>1, Collected
  <2>3. Within(p) => OneByOne(pairs) /\ Len(p.selector) <= MaxProjected
    BY <1>a DEF Within, OneByOne
  <2> QED BY <2>1, <2>2, <2>3 DEF CutHolds, selector
<1>10. Bounded[p.name] \in Names /\ Bounded[p.name] # None
  BY <1>1, BoundedNames
<1>11. /\ q \in [tool : {"k8s_get"}, kind : STRING, name : Names,
                 owners : Seq(STRING \X Named), selector : Seq(Pairs),
                 traces : {<<>>}, batches : {<<>>}, service : {None}]
       /\ q.kind = p.kind /\ q.name = Bounded[p.name] /\ q.owners = owners /\ q.selector = selector
       /\ q.traces = <<>> /\ q.batches = <<>>
  BY <1>2, <1>7, <1>8, <1>9, <1>10
<1>12. q \in Results
  BY <1>11 DEF Results, Named, Pairs
<1>13. Cuts(OwnsOf(q), OwnsOf(p), Within(p))
  <2> DEFINE node == <<p.kind, p.name>>
             cut1 == <<p.kind, Bounded[p.name]>>
  <2>1. OwnsOf(p) = {<<o, node, "owns">> : o \in ToSet(p.owners)}
    BY DEF OwnsOf
  <2>2. OwnsOf(q) = {<<o, cut1, "owns">> : o \in ToSet(owners)}
    BY <1>10, <1>11 DEF OwnsOf
  <2>3. \A o \in ToSet(p.owners) : Shorten(o) = OwnCut[o]
    <3>1. \A o \in ToSet(p.owners) : o \in STRING \X Named
      BY <1>1 DEF ToSet
    <3> QED BY <3>1 DEF Shorten, OwnCut
  <2>4. Shorten(node) = cut1
    BY DEF Shorten
  <2> HIDE DEF node, cut1
  <2>5. Shortened(OwnsOf(p)) = {<<OwnCut[o], cut1, "owns">> : o \in ToSet(p.owners)}
    <3>1. \A y : y \in Shortened(OwnsOf(p)) <=> \E r \in OwnsOf(p) : y = ShortenRelation(r)
      BY DEF Shortened
    <3>2. \A r : r \in OwnsOf(p) <=> \E o \in ToSet(p.owners) : r = <<o, node, "owns">>
      BY <2>1
    <3>4. \A y : y \in Shortened(OwnsOf(p)) <=> \E o \in ToSet(p.owners) : y = <<Shorten(o), Shorten(node), "owns">>
      <4>1. ASSUME NEW y, y \in Shortened(OwnsOf(p)) PROVE \E o \in ToSet(p.owners) : y = <<Shorten(o), Shorten(node), "owns">>
        <5>1. PICK r \in OwnsOf(p) : y = ShortenRelation(r)
          BY <3>1, <4>1
        <5>2. PICK o \in ToSet(p.owners) : r = <<o, node, "owns">>
          BY <3>2
        <5> QED BY <5>1, <5>2 DEF ShortenRelation
      <4>2. ASSUME NEW y, NEW o \in ToSet(p.owners), y = <<Shorten(o), Shorten(node), "owns">> PROVE y \in Shortened(OwnsOf(p))
        <5> DEFINE r == <<o, node, "owns">>
        <5>1. r \in OwnsOf(p) /\ y = ShortenRelation(r)
          BY <3>2, <4>2 DEF ShortenRelation
        <5> HIDE DEF r
        <5> QED BY <3>1, <5>1
      <4> QED BY <4>1, <4>2
    <3>5. \A y : y \in Shortened(OwnsOf(p)) <=> \E o \in ToSet(p.owners) : y = <<OwnCut[o], cut1, "owns">>
      BY <2>3, <2>4, <3>4
    <3> QED BY <3>5
  <2>6. Within(p) => Len(p.owners) <= MaxProjected
    BY DEF Within
  <2> QED BY <1>8, <2>2, <2>5, <2>6 DEF Cuts
<1>14. Cuts(SelectsOf(q), SelectsOf(p), Within(p))
  <2> DEFINE node == <<p.kind, p.name>>
             cut1 == <<p.kind, Bounded[p.name]>>
  <2>1. CASE p.kind # "Service"
    <3>1. SelectsOf(p) = {} /\ SelectsOf(q) = {}
      BY <1>11, <2>1 DEF SelectsOf
    <3> QED BY <3>1 DEF Cuts, Shortened
  <2>2. CASE p.kind = "Service"
    <3>1. SelectsOf(p) = {<<node, <<"selector", s>>, "selects">> : s \in ToSet(p.selector)}
      BY <2>2 DEF SelectsOf
    <3>2. SelectsOf(q) = {<<cut1, <<"selector", s>>, "selects">> : s \in ToSet(selector)}
      BY <1>10, <1>11, <2>2 DEF SelectsOf
    <3>3. \A s \in ToSet(p.selector) : ShortenSelector(<<"selector", s>>) = <<"selector", PairCut[s]>>
      <4>1. \A s \in ToSet(p.selector) : s \in Pairs
        BY <1>1 DEF ToSet
      <4> QED BY <4>1 DEF ShortenSelector, PairCut
    <3>4. Shorten(node) = cut1
      BY DEF Shorten
    <3> HIDE DEF node, cut1
    <3>5. Shortened(SelectsOf(p)) = {<<cut1, <<"selector", PairCut[s]>>, "selects">> : s \in ToSet(p.selector)}
      <4>1. \A y : y \in Shortened(SelectsOf(p)) <=> \E r \in SelectsOf(p) : y = ShortenRelation(r)
        BY DEF Shortened
      <4>2. \A r : r \in SelectsOf(p) <=> \E s \in ToSet(p.selector) : r = <<node, <<"selector", s>>, "selects">>
        BY <3>1
      <4>4. \A y : y \in Shortened(SelectsOf(p)) <=> \E s \in ToSet(p.selector) : y = <<Shorten(node), ShortenSelector(<<"selector", s>>), "selects">>
        <5>1. ASSUME NEW y, y \in Shortened(SelectsOf(p)) PROVE \E s \in ToSet(p.selector) : y = <<Shorten(node), ShortenSelector(<<"selector", s>>), "selects">>
          <6>1. PICK r \in SelectsOf(p) : y = ShortenRelation(r)
            BY <4>1, <5>1
          <6>2. PICK s \in ToSet(p.selector) : r = <<node, <<"selector", s>>, "selects">>
            BY <4>2
          <6> QED BY <6>1, <6>2 DEF ShortenRelation
        <5>2. ASSUME NEW y, NEW s \in ToSet(p.selector), y = <<Shorten(node), ShortenSelector(<<"selector", s>>), "selects">> PROVE y \in Shortened(SelectsOf(p))
          <6> DEFINE r == <<node, <<"selector", s>>, "selects">>
          <6>1. r \in SelectsOf(p) /\ y = ShortenRelation(r)
            BY <4>2, <5>2 DEF ShortenRelation
          <6> HIDE DEF r
          <6> QED BY <4>1, <6>1
        <5> QED BY <5>1, <5>2
      <4>5. \A y : y \in Shortened(SelectsOf(p)) <=>
               \E s \in ToSet(p.selector) : y = <<cut1, <<"selector", PairCut[s]>>, "selects">>
        <5>1. \A s \in ToSet(p.selector) : <<Shorten(node), ShortenSelector(<<"selector", s>>), "selects">>
                                           = <<cut1, <<"selector", PairCut[s]>>, "selects">>
          BY <3>3, <3>4
        <5>2. ASSUME NEW y
              PROVE  (\E s \in ToSet(p.selector) : y = <<Shorten(node), ShortenSelector(<<"selector", s>>), "selects">>)
                       <=> \E s \in ToSet(p.selector) : y = <<cut1, <<"selector", PairCut[s]>>, "selects">>
          BY <5>1, Zenon
        <5>3. ASSUME NEW y
              PROVE  y \in Shortened(SelectsOf(p)) <=>
                       \E s \in ToSet(p.selector) : y = <<cut1, <<"selector", PairCut[s]>>, "selects">>
          <6>1. y \in Shortened(SelectsOf(p)) <=>
                   \E s \in ToSet(p.selector) : y = <<Shorten(node), ShortenSelector(<<"selector", s>>), "selects">>
            BY <4>4, Zenon
          <6> HIDE DEF node, cut1
          <6> QED BY <5>2, <6>1
        <5> QED BY <5>3
      <4> QED BY <4>5
    <3> QED BY <1>9, <3>2, <3>5 DEF Cuts
  <2> QED BY <2>1, <2>2
<1>15. Relations(p) = OwnsOf(p) \cup SelectsOf(p) /\ Relations(q) = OwnsOf(q) \cup SelectsOf(q)
  BY <1>1, <1>11, RelationsAre, NoCalls, NoFollows
<1> QED BY <1>12, <1>13, <1>14, <1>15, CutsJoin

Speaks(t) == {t.root, t.client, t.server} # {None}
SpansOf(p) == Where(p.traces, LAMBDA t : {t.root, t.client, t.server} # {None})

\* The spans that the excerpt is taken from.
LEMMA SpansAre ==
  ASSUME NEW p \in Results
  PROVE  /\ SpansOf(p) \in Seq(Spans) /\ Len(SpansOf(p)) <= Len(p.traces)
         /\ \A x : x \in ToSet(SpansOf(p)) <=> x \in ToSet(p.traces) /\ Speaks(x)
<1> DEFINE I == {i \in DOMAIN p.traces : Speaks(p.traces[i])}
<1>1. p.traces \in Seq(Spans)
  BY ResultParts
<1>2. SpansOf(p) = Keep(p.traces, I)
  BY DEF SpansOf, Where, Speaks
<1>3. \A i \in DOMAIN p.traces : i \in I <=> Speaks(p.traces[i])
  OBVIOUS
<1> HIDE DEF I
<1>4. Keep(p.traces, I) \in Seq(Spans) /\ Len(Keep(p.traces, I)) <= Len(p.traces)
  BY <1>1, KeepType, KeepMap
<1>5. \A x : x \in ToSet(Keep(p.traces, I)) <=> \E i \in DOMAIN p.traces : i \in I /\ p.traces[i] = x
  BY <1>1, KeepElements
<1>6. \A x : x \in ToSet(p.traces) <=> \E i \in DOMAIN p.traces : p.traces[i] = x
  BY DEF ToSet
<1> QED BY <1>2, <1>3, <1>4, <1>5, <1>6

\* A call is between services that are named.
Calls(t) == None \notin {t.client, t.server}

\* The calls a result shows are those of its traces that name both ends.
LEMMA CallsAre ==
  ASSUME NEW p
  PROVE  \A y : y \in CallsOf(p) <=>
            \E t \in ToSet(p.traces) : Calls(t) /\ y = <<<<"service", t.client>>, <<"service", t.server>>, "calls">>
BY DEF CallsOf, Calls

\* The relations of calls, cut.
LEMMA CallsCut ==
  ASSUME NEW p
  PROVE  \A y : y \in Shortened(CallsOf(p)) <=>
            \E t \in ToSet(p.traces) :
               Calls(t) /\ y = <<<<"service", Bounded[t.client]>>, <<"service", Bounded[t.server]>>, "calls">>
<1>1. \A y : y \in Shortened(CallsOf(p)) <=> \E r \in CallsOf(p) : y = ShortenRelation(r)
  BY DEF Shortened
<1>2. ASSUME NEW y, y \in Shortened(CallsOf(p))
      PROVE  \E t \in ToSet(p.traces) :
                Calls(t) /\ y = <<<<"service", Bounded[t.client]>>, <<"service", Bounded[t.server]>>, "calls">>
  <2>1. PICK r \in CallsOf(p) : y = ShortenRelation(r)
    BY <1>1, <1>2
  <2>2. PICK t \in ToSet(p.traces) : Calls(t) /\ r = <<<<"service", t.client>>, <<"service", t.server>>, "calls">>
    BY CallsAre
  <2>3. y = <<<<"service", Bounded[t.client]>>, <<"service", Bounded[t.server]>>, "calls">>
    BY <2>1, <2>2 DEF ShortenRelation, Shorten
  <2> QED BY <2>2, <2>3
<1>3. ASSUME NEW y, NEW t \in ToSet(p.traces), Calls(t),
             y = <<<<"service", Bounded[t.client]>>, <<"service", Bounded[t.server]>>, "calls">>
      PROVE  y \in Shortened(CallsOf(p))
  <2> DEFINE r == <<<<"service", t.client>>, <<"service", t.server>>, "calls">>
  <2>1. r \in CallsOf(p)
    BY <1>3, CallsAre
  <2>2. y = ShortenRelation(r)
    BY <1>3 DEF ShortenRelation, Shorten
  <2> HIDE DEF r
  <2> QED BY <1>1, <2>1, <2>2
<1> QED BY <1>2, <1>3

\* Services in a row, as a set of relations.
LEMMA FollowsAre ==
  ASSUME NEW p
  PROVE  /\ \A y : y \in FollowsOf(p) <=> \E i \in 1..(Len(ServicesOf(p)) - 1) :
               y = <<<<"service", ServicesOf(p)[i]>>, <<"service", ServicesOf(p)[i + 1]>>, "calls">>
         /\ \A y : y \in Shortened(FollowsOf(p)) <=> \E i \in 1..(Len(ServicesOf(p)) - 1) :
               y = <<<<"service", Bounded[ServicesOf(p)[i]]>>, <<"service", Bounded[ServicesOf(p)[i + 1]]>>, "calls">>
<1> DEFINE s == ServicesOf(p)
           I == 1..(Len(s) - 1)
<1>0. \A y : y \in FollowsOf(p) <=> \E i \in I : y = <<<<"service", s[i]>>, <<"service", s[i + 1]>>, "calls">>
  BY DEF FollowsOf
<1>1. \A y : y \in Shortened(FollowsOf(p)) <=> \E r \in FollowsOf(p) : y = ShortenRelation(r)
  BY DEF Shortened
<1> HIDE DEF s, I
<1>2. ASSUME NEW y, y \in Shortened(FollowsOf(p))
      PROVE  \E i \in I : y = <<<<"service", Bounded[s[i]]>>, <<"service", Bounded[s[i + 1]]>>, "calls">>
  <2>1. PICK r \in FollowsOf(p) : y = ShortenRelation(r)
    BY <1>1, <1>2
  <2>2. PICK i \in I : r = <<<<"service", s[i]>>, <<"service", s[i + 1]>>, "calls">>
    BY <1>0
  <2>3. y = <<<<"service", Bounded[s[i]]>>, <<"service", Bounded[s[i + 1]]>>, "calls">>
    BY <2>1, <2>2 DEF ShortenRelation, Shorten
  <2> QED BY <2>3
<1>3. ASSUME NEW y, NEW i \in I, y = <<<<"service", Bounded[s[i]]>>, <<"service", Bounded[s[i + 1]]>>, "calls">>
      PROVE  y \in Shortened(FollowsOf(p))
  <2> DEFINE r == <<<<"service", s[i]>>, <<"service", s[i + 1]>>, "calls">>
  <2>1. r \in FollowsOf(p)
    BY <1>0
  <2>2. y = ShortenRelation(r)
    BY <1>3 DEF ShortenRelation, Shorten
  <2> HIDE DEF r
  <2> QED BY <1>1, <2>1, <2>2
<1>4. \A y : y \in Shortened(FollowsOf(p)) <=> \E i \in I :
         y = <<<<"service", Bounded[s[i]]>>, <<"service", Bounded[s[i + 1]]>>, "calls">>
  BY <1>2, <1>3
<1> QED BY <1>0, <1>4 DEF s, I

\* The excerpt of traces.
LEMMA TraceExcerpt ==
  ASSUME NEW p \in Results, p.tool = "trace_search", NEW q, q \in TraceArtifactProjection(p)
  PROVE  q \in Results /\ Cuts(Relations(q), Relations(p), Within(p))
<1> DEFINE SpanCut == [t \in Spans |-> [root |-> Bounded[t.root], client |-> Bounded[t.client], server |-> Bounded[t.server]]]
           NameCut == [n \in Named |-> Bounded[n]]
           spans == SpansOf(p)
           services == ServicesOf(p)
           traces == Each(Take(spans), LAMBDA t : [root |-> Bounded[t.root], client |-> Bounded[t.client], server |-> Bounded[t.server]])
           batches == Each(Take(services), LAMBDA s : Bounded[s])
<1>1. /\ p.traces \in Seq(Spans) /\ p.batches \in Seq(Names) /\ p.name = None
      /\ spans \in Seq(Spans) /\ services \in Seq(Named) /\ Len(spans) <= Len(p.traces)
      /\ \A x : x \in ToSet(spans) <=> x \in ToSet(p.traces) /\ Speaks(x)
  BY ResultParts, SpansAre, ServicesNamed
<1>2. p \in [tool : {"trace_search"}, kind : {None}, name : {None}, owners : {<<>>}, selector : {<<>>},
             traces : Seq(Spans), batches : Seq(Names), service : {None}]
  BY DEF Results, Spans
<1>3. Take(spans) \in Seq(Spans) /\ Take(services) \in Seq(Named)
  BY <1>1, TakeIs
<1>4. NameCut \in [Named -> Named] /\ SpanCut \in [Spans -> Spans]
  <2>1. \A n \in Named : Bounded[n] \in Named
    BY BoundedNames DEF Named
  <2>2. \A n \in Names : Bounded[n] \in Names
    BY BoundedNames
  <2> QED BY <2>1, <2>2 DEF Spans
<1>5. CutBy(traces, spans, SpanCut)
  <2> DEFINE t == Take(spans)
  <2>1. \A i \in DOMAIN t : t[i] \in Spans
    BY <1>3
  <2>2. traces = [i \in DOMAIN t |-> [root |-> Bounded[t[i].root], client |-> Bounded[t[i].client], server |-> Bounded[t[i].server]]]
    BY DEF Each
  <2> HIDE DEF t, traces
  <2>3. \A i \in DOMAIN t : SpanCut[t[i]] = [root |-> Bounded[t[i].root], client |-> Bounded[t[i].client], server |-> Bounded[t[i].server]]
    BY <2>1
  <2> HIDE DEF SpanCut
  <2>4. traces = [i \in DOMAIN t |-> SpanCut[t[i]]]
    BY <2>2, <2>3
  <2> QED BY <2>4 DEF CutBy, t
<1>6. CutBy(batches, services, NameCut)
  <2> DEFINE t == Take(services)
  <2>1. \A i \in DOMAIN t : t[i] \in Named
    BY <1>3
  <2>2. batches = [i \in DOMAIN t |-> Bounded[t[i]]]
    BY DEF Each
  <2> HIDE DEF t
  <2> QED BY <2>1, <2>2 DEF CutBy, t
<1>7. q = [p EXCEPT !.traces = traces, !.batches = batches]
  BY DEF TraceArtifactProjection, SpansOf, ServicesOf
<1> HIDE DEF traces, batches, SpanCut, NameCut, spans, services
<1>8. /\ traces \in Seq(Spans)
      /\ ToSet(traces) \subseteq {SpanCut[x] : x \in ToSet(spans)}
      /\ Len(spans) <= MaxProjected => ToSet(traces) = {SpanCut[x] : x \in ToSet(spans)}
  <2>1. traces \in Seq(Spans) /\ CutHolds(traces, spans, SpanCut)
    BY <1>1, <1>4, <1>5, CutElements
  <2> QED BY <2>1 DEF CutHolds
<1>9. batches \in Seq(Named)
  BY <1>1, <1>4, <1>6, CutElements
<1>10. batches \in Seq(Names)
  BY <1>9 DEF Named
<1>11. /\ q \in [tool : {"trace_search"}, kind : {None}, name : {None}, owners : {<<>>}, selector : {<<>>},
                 traces : Seq(Spans), batches : Seq(Names), service : {None}]
       /\ q.traces = traces /\ q.batches = batches /\ q.name = None
  BY <1>2, <1>7, <1>8, <1>10
<1>12. q \in Results
  BY <1>11 DEF Results, Spans
<1>13. Cuts(CallsOf(q), CallsOf(p), Within(p))
  <2>1. ASSUME NEW x \in Spans
        PROVE  /\ SpanCut[x].client = Bounded[x.client] /\ SpanCut[x].server = Bounded[x.server]
               /\ Calls(SpanCut[x]) <=> Calls(x)
               /\ Calls(x) => Speaks(x)
    <3>1. SpanCut[x].client = Bounded[x.client] /\ SpanCut[x].server = Bounded[x.server]
      BY DEF SpanCut
    <3>2. x.client \in Names /\ x.server \in Names
      BY DEF Spans
    <3>3. Calls(SpanCut[x]) <=> Calls(x)
      BY <3>1, <3>2, BoundedNames DEF Calls
    <3> QED BY <3>1, <3>3 DEF Calls, Speaks
  <2>2. \A x \in ToSet(p.traces) : x \in Spans
    BY <1>1 DEF ToSet
  <2>3. \A y : y \in CallsOf(q) <=> \E t \in ToSet(traces) :
           Calls(t) /\ y = <<<<"service", t.client>>, <<"service", t.server>>, "calls">>
    BY <1>11, CallsAre
  <2>4. ASSUME NEW y, y \in CallsOf(q) PROVE y \in Shortened(CallsOf(p))
    <3>1. PICK t \in ToSet(traces) : Calls(t) /\ y = <<<<"service", t.client>>, <<"service", t.server>>, "calls">>
      BY <2>3, <2>4
    <3>2. PICK x \in ToSet(spans) : t = SpanCut[x]
      BY <1>8
    <3>3. x \in ToSet(p.traces) /\ x \in Spans
      BY <1>1, <2>2
    <3> QED BY <2>1, <3>1, <3>2, <3>3, CallsCut
  <2>5. ASSUME Within(p), NEW y, y \in Shortened(CallsOf(p)) PROVE y \in CallsOf(q)
    <3>1. PICK x \in ToSet(p.traces) :
             Calls(x) /\ y = <<<<"service", Bounded[x.client]>>, <<"service", Bounded[x.server]>>, "calls">>
      BY <2>5, CallsCut
    <3>2. x \in Spans /\ x \in ToSet(spans)
      BY <1>1, <2>1, <2>2, <3>1
    <3>3. Len(p.traces) <= MaxProjected
      BY <2>5 DEF Within
    <3>4. Len(spans) <= MaxProjected
      <4>1. Len(spans) \in Nat /\ Len(p.traces) \in Nat /\ MaxProjected \in Nat
        BY <1>1, TopologyAssumption
      <4> QED BY <1>1, <3>3, <4>1
    <3>5. SpanCut[x] \in ToSet(traces)
      BY <1>8, <3>2, <3>4
    <3> QED BY <2>1, <2>3, <3>1, <3>2, <3>5
  <2> QED BY <2>4, <2>5 DEF Cuts
<1>14. Cuts(FollowsOf(q), FollowsOf(p), Within(p))
  <2> DEFINE t == Take(services)
             n == Len(t)
  <2>1. /\ t \in Seq(Named) /\ Len(t) <= Len(services) /\ \A i \in 1..Len(t) : t[i] = services[i]
        /\ Len(services) <= MaxProjected => t = services
    BY <1>1, TakeIs
  <2>2. batches = [i \in DOMAIN t |-> NameCut[t[i]]]
    BY <1>6 DEF CutBy
  <2> HIDE DEF t
  <2>3. n \in Nat /\ DOMAIN t = 1..n /\ Len(services) \in Nat /\ n <= Len(services)
    BY <1>1, <2>1
  <2>4. Len(batches) = n
    BY <1>9, <2>2, <2>3
  <2>5. \A i \in 1..n : batches[i] = Bounded[services[i]]
    <3>1. \A i \in 1..n : services[i] \in Named
      BY <1>1, <2>3
    <3> QED BY <2>1, <2>2, <2>3, <3>1 DEF NameCut
  <2>6. ServicesOf(q) = batches
    <3> DEFINE I == {i \in DOMAIN batches : batches[i] # None}
    <3>1. ServicesOf(q) = Keep(batches, I)
      BY <1>11 DEF ServicesOf, Where
    <3>2. 1..Len(batches) \subseteq I
      BY <1>9 DEF Named
    <3> HIDE DEF I
    <3> QED BY <1>9, <3>1, <3>2, KeepAll
  <2>7. \A y : y \in FollowsOf(q) <=> \E i \in 1..(n - 1) :
           y = <<<<"service", batches[i]>>, <<"service", batches[i + 1]>>, "calls">>
    <3>1. \A y : y \in FollowsOf(q) <=> \E i \in 1..(Len(ServicesOf(q)) - 1) :
             y = <<<<"service", ServicesOf(q)[i]>>, <<"service", ServicesOf(q)[i + 1]>>, "calls">>
      BY FollowsAre
    <3> HIDE DEF n
    <3> QED BY <2>4, <2>6, <3>1, Zenon
  <2>8. \A i \in 1..(n - 1) : i \in 1..n /\ i + 1 \in 1..n /\ i \in 1..(Len(services) - 1)
    BY <2>3
  <2> HIDE DEF n
  <2>9. \A y : y \in FollowsOf(q) <=> \E i \in 1..(n - 1) :
           y = <<<<"service", Bounded[services[i]]>>, <<"service", Bounded[services[i + 1]]>>, "calls">>
    <3>1. \A i \in 1..(n - 1) : batches[i] = Bounded[services[i]] /\ batches[i + 1] = Bounded[services[i + 1]]
      BY <2>5, <2>8
    <3>2. \A i \in 1..(n - 1) : <<<<"service", batches[i]>>, <<"service", batches[i + 1]>>, "calls">>
             = <<<<"service", Bounded[services[i]]>>, <<"service", Bounded[services[i + 1]]>>, "calls">>
      BY <3>1, Zenon
    <3>3. ASSUME NEW y, NEW i \in 1..(n - 1)
          PROVE  y = <<<<"service", batches[i]>>, <<"service", batches[i + 1]>>, "calls">> <=>
                 y = <<<<"service", Bounded[services[i]]>>, <<"service", Bounded[services[i + 1]]>>, "calls">>
      BY <3>2, Zenon
    <3>4. ASSUME NEW y, y \in FollowsOf(q)
          PROVE  \E i \in 1..(n - 1) :
                    y = <<<<"service", Bounded[services[i]]>>, <<"service", Bounded[services[i + 1]]>>, "calls">>
      <4>1. PICK i \in 1..(n - 1) : y = <<<<"service", batches[i]>>, <<"service", batches[i + 1]>>, "calls">>
        BY <2>7, <3>4
      <4> QED BY <3>3, <4>1
    <3>5. ASSUME NEW y, NEW i \in 1..(n - 1),
                 y = <<<<"service", Bounded[services[i]]>>, <<"service", Bounded[services[i + 1]]>>, "calls">>
          PROVE  y \in FollowsOf(q)
      <4>1. y = <<<<"service", batches[i]>>, <<"service", batches[i + 1]>>, "calls">>
        BY <3>3, <3>5
      <4> QED BY <2>7, <4>1, Zenon
    <3> QED BY <3>4, <3>5
  <2>10. \A y : y \in Shortened(FollowsOf(p)) <=> \E i \in 1..(Len(services) - 1) :
           y = <<<<"service", Bounded[services[i]]>>, <<"service", Bounded[services[i + 1]]>>, "calls">>
    BY FollowsAre DEF services
  <2>11. Within(p) => n = Len(services)
    <3>1. Within(p) => Len(p.batches) <= MaxProjected
      BY DEF Within
    <3>2. Len(services) <= Len(p.batches)
      BY <1>1, KeepMap DEF services, ServicesOf, Where
    <3>3. Len(p.batches) \in Nat /\ MaxProjected \in Nat
      BY <1>1, TopologyAssumption
    <3>4. Within(p) => Len(services) <= MaxProjected
      BY <2>3, <3>1, <3>2, <3>3
    <3> QED BY <2>1, <3>4 DEF n
  <2> QED BY <2>8, <2>9, <2>10, <2>11 DEF Cuts
<1>15. Relations(p) = CallsOf(p) \cup FollowsOf(p) /\ Relations(q) = CallsOf(q) \cup FollowsOf(q)
  <2>1. OwnsOf(p) = {} /\ SelectsOf(p) = {} /\ OwnsOf(q) = {} /\ SelectsOf(q) = {}
    BY <1>1, <1>11 DEF OwnsOf, SelectsOf
  <2> QED BY <2>1, RelationsAre
<1> QED BY <1>12, <1>13, <1>14, <1>15, CutsJoin

\* Of a result that has no excerpt the log misses nothing.
LEMMA NothingToCut ==
  ASSUME NEW p \in Results, Excerpt(p) = {}
  PROVE  Relations(p) = {}
<1>1. /\ p.tool \in {"k8s_get", "trace_search", "other"}
      /\ p.tool = "k8s_get" => p.traces = <<>> /\ p.batches = <<>>
      /\ p.tool # "k8s_get" => p.name = None
      /\ p.tool = "other" => p.traces = <<>> /\ p.batches = <<>>
  BY ResultParts
<1>2. p.name = None
  <2>1. CASE p.tool = "k8s_get"
    BY <2>1 DEF Excerpt, K8sArtifactProjection
  <2> QED BY <1>1, <2>1
<1>3. OwnsOf(p) = {} /\ SelectsOf(p) = {}
  BY <1>2 DEF OwnsOf, SelectsOf
<1>4. CASE p.tool # "trace_search"
  BY <1>1, <1>3, <1>4, RelationsAre, NoCalls, NoFollows
<1>5. CASE p.tool = "trace_search"
  <2>1. Take(SpansOf(p)) = <<>> /\ Take(ServicesOf(p)) = <<>>
    <3>1. TraceArtifactProjection(p) = {}
      BY <1>5 DEF Excerpt
    <3> QED BY <3>1 DEF TraceArtifactProjection, SpansOf, ServicesOf
  <2>2. /\ SpansOf(p) \in Seq(Spans) /\ ServicesOf(p) \in Seq(Named)
        /\ \A x : x \in ToSet(SpansOf(p)) <=> x \in ToSet(p.traces) /\ Speaks(x)
    BY SpansAre, ServicesNamed
  <2>3. SpansOf(p) = <<>> /\ ServicesOf(p) = <<>>
    BY <2>1, <2>2, TakeIs
  <2>4. \A x \in ToSet(p.traces) : ~Speaks(x)
    <3>1. ToSet(<<>>) = {}
      BY DEF ToSet
    <3> QED BY <2>2, <2>3, <3>1
  <2>5. CallsOf(p) = {}
    BY <2>4, CallsAre DEF Calls, Speaks
  <2>6. FollowsOf(p) = {}
    <3>1. 1..(Len(<<>>) - 1) = {}
      OBVIOUS
    <3> QED BY <2>3, <3>1 DEF FollowsOf
  <2> QED BY <1>3, <2>5, <2>6, RelationsAre
<1> QED BY <1>4, <1>5

\* The relations of what is shown of a result, and those the result has.
ShownRelations(p) == UNION {Relations(q) : q \in Shown(p)}
TrueRelations(p) == IF p \in Large THEN Shortened(Relations(p)) ELSE Relations(p)

\* The excerpt of the result is all of it, and it is there.
KeptWhole(p) == Within(p) /\ Excerpt(p) \cap TooLong = {}

\* What is shown of a result is a result, of which no relation is made up and,
\* within the limits, none is missing.
LEMMA ShownIs ==
  ASSUME NEW p \in Payloads
  PROVE  /\ Shown(p) = {} \/ \E q \in Results : Shown(p) = {q}
         /\ ShownRelations(p) \subseteq TrueRelations(p)
         /\ (p \in Large => KeptWhole(p)) => ShownRelations(p) = TrueRelations(p)
<1>1. p \in Results
  BY EvidenceAssumption
<1>2. CASE p \notin Large
  <2>1. Shown(p) = {p}
    BY <1>2 DEF Shown
  <2>2. ShownRelations(p) = Relations(p) /\ TrueRelations(p) = Relations(p)
    BY <1>2, <2>1 DEF ShownRelations, TrueRelations
  <2> QED BY <1>1, <2>1, <2>2
<1>3. CASE p \in Large
  <2>1. /\ Shown(p) = Excerpt(p) \ TooLong /\ TrueRelations(p) = Shortened(Relations(p))
        /\ KeptWhole(p) => Within(p) /\ Excerpt(p) \cap TooLong = {}
    BY <1>3 DEF Shown, ArtifactTopologyProjection, TrueRelations, KeptWhole
  <2>2. CASE Excerpt(p) = {}
    <3>1. Relations(p) = {}
      BY <1>1, <2>2, NothingToCut
    <3>2. ShownRelations(p) = {} /\ TrueRelations(p) = {}
      BY <2>1, <2>2, <3>1 DEF ShownRelations, Shortened
    <3> QED BY <2>1, <2>2, <3>2
  <2>3. ASSUME Excerpt(p) # {}
        PROVE  \E q \in Results : Excerpt(p) = {q} /\ Cuts(Relations(q), Relations(p), Within(p))
    <3>1. p.tool \in {"k8s_get", "trace_search", "other"}
      BY <1>1, ResultParts
    <3>2. CASE p.tool = "k8s_get"
      <4>1. Excerpt(p) = K8sArtifactProjection(p)
        BY <3>2 DEF Excerpt
      <4>2. p.name # None
        BY <2>3, <4>1 DEF K8sArtifactProjection
      <4>3. PICK q : K8sArtifactProjection(p) = {q}
        BY <4>2 DEF K8sArtifactProjection
      <4>4. q \in K8sArtifactProjection(p)
        BY <4>3
      <4>5. q \in Results /\ Cuts(Relations(q), Relations(p), Within(p))
        BY <1>1, <3>2, <4>2, <4>4, K8sExcerpt
      <4> QED BY <4>1, <4>3, <4>5
    <3>3. CASE p.tool = "trace_search"
      <4>1. Excerpt(p) = TraceArtifactProjection(p)
        BY <3>3 DEF Excerpt
      <4>2. PICK q : q \in TraceArtifactProjection(p)
        BY <2>3, <4>1
      <4>3. TraceArtifactProjection(p) = {q}
        BY <4>2 DEF TraceArtifactProjection
      <4>4. q \in Results /\ Cuts(Relations(q), Relations(p), Within(p))
        BY <1>1, <3>3, <4>2, TraceExcerpt
      <4> QED BY <4>1, <4>3, <4>4
    <3>4. CASE p.tool = "other"
      BY <2>3, <3>4 DEF Excerpt
    <3> QED BY <3>1, <3>2, <3>3, <3>4
  <2>4. CASE Excerpt(p) # {}
    <3>1. PICK q \in Results : Excerpt(p) = {q} /\ Cuts(Relations(q), Relations(p), Within(p))
      BY <2>3, <2>4
    <3>2. CASE q \in TooLong
      <4>1. Shown(p) = {} /\ ~KeptWhole(p)
        BY <2>1, <3>1, <3>2
      <4>2. ShownRelations(p) = {}
        BY <4>1 DEF ShownRelations
      <4> QED BY <1>3, <4>1, <4>2
    <3>3. CASE q \notin TooLong
      <4>1. Shown(p) = {q}
        BY <2>1, <3>1, <3>3
      <4>2. ShownRelations(p) = Relations(q)
        BY <4>1 DEF ShownRelations
      <4> QED BY <1>3, <2>1, <3>1, <4>1, <4>2 DEF Cuts
    <3> QED BY <3>2, <3>3
  <2> QED BY <2>2, <2>4
<1> QED BY <1>2, <1>3

-----------------------------------------------------------------------------
(* The graph of a log. *)

\* What an entry says: the relations it shows, with the id of its result.
EntryFacts(e) == With(UNION {Relations(q) : q \in e.shows}, e.evidence)
LogFacts(l) == UNION {EntryFacts(l[i]) : i \in DOMAIN l}

\* An entry is what it shows, and the service of an alert.
LEMMA EntrySights ==
  ASSUME NEW now, NEW e \in Entries
  PROVE  SightsOf(Sights(e, now), e.evidence, UNION {Relations(q) : q \in e.shows}, now)
<1> DEFINE R == UNION {Relations(q) : q \in e.shows}
           a == IF e.shows = {} THEN <<>> ELSE ProjectPayload(The(e.shows), e.evidence, now)
           b == ProjectService(e.alert, {})
<1>1. /\ e.alert \in Names
      /\ e.shows = {} \/ \E q \in Results : e.shows = {q}
      /\ e.shows # {} => e.evidence \in SUBSET Nat /\ e.evidence # {}
  <2>1. CASE e \in Plain
    BY <2>1, TopologyAssumption, EvidenceAssumption DEF Plain
  <2>2. ASSUME NEW p \in Payloads, e \in Emitted(p)
        PROVE  /\ e.alert \in Names /\ e.evidence \in SUBSET Nat /\ e.evidence # {}
               /\ e.shows = {} \/ \E q \in Results : e.shows = {q}
    <3>1. e.shows = Shown(p) /\ e.alert = None /\ \E n \in Nat : e.evidence = {n}
      BY <2>2 DEF Emitted
    <3>2. None \in Names
      BY TopologyAssumption
    <3> QED BY <3>1, <3>2, ShownIs
  <2> QED BY <2>1, <2>2 DEF Entries, Plain
<1>2. SightsOf(a, e.evidence, R, now)
  <2>1. CASE e.shows = {}
    <3>1. a = <<>> /\ R = {}
      BY <2>1
    <3> HIDE DEF a, R
    <3> QED BY <3>1, SightsNone
  <2>2. ASSUME NEW q \in Results, e.shows = {q} PROVE SightsOf(a, e.evidence, R, now)
    <3>1. The(e.shows) = q /\ R = Relations(q)
      BY <2>2 DEF The
    <3>2. a = ProjectPayload(q, e.evidence, now)
      BY <2>2, <3>1
    <3> HIDE DEF a, R
    <3> QED BY <1>1, <2>2, <3>1, <3>2, PayloadSights
  <2> QED BY <1>1, <2>1, <2>2
<1>3. SightsOf(b, e.evidence, {}, now)
  <2>1. {} \in SUBSET Nat
    OBVIOUS
  <2> QED BY <1>1, <2>1, ServiceSights
<1>4. Sights(e, now) = a \o b
  BY DEF Sights
<1> HIDE DEF a, b, R
<1>5. SightsOf(a \o b, e.evidence, R \cup {}, now)
  BY <1>2, <1>3, SightsJoin
<1>6. R \cup {} = R
  OBVIOUS
<1> QED BY <1>4, <1>5, <1>6 DEF R

\* To project an entry keeps a graph fine and adds what the entry says.
LEMMA EntryProjected ==
  ASSUME NEW now, NEW g \in Graphs(now), NEW e \in Entries
  PROVE  /\ ProjectEntry(g, e, now) \in Graphs(now)
         /\ Facts(ProjectEntry(g, e, now).edges) = Facts(g.edges) \cup EntryFacts(e)
<1> DEFINE s == Sights(e, now)
           R == UNION {Relations(q) : q \in e.shows}
           G == ObserveFcn(now)
           F == [v \in Graphs(now) |-> Facts(v.edges)]
           O == [x \in SightSet(now) |-> SightFacts(x)]
<1>1. SightsOf(s, e.evidence, R, now)
  BY EntrySights
<1>2. s \in Seq(SightSet(now))
  BY <1>1 DEF SightsOf
<1>3. SeqFacts(s) = EntryFacts(e)
  <2>1. EntryFacts(e) = With(R, e.evidence)
    BY DEF EntryFacts
  <2> HIDE DEF s, R
  <2> QED BY <1>1, <2>1, SightsSay
<1> HIDE DEF s, R
<1>4. Folding(Graphs(now), SightSet(now), G, g, s) /\ FoldLeft(Observe, g, s) = Folded(G, g, s)
  BY <1>2, ObserveFold
<1>5. \A v \in Graphs(now), x \in SightSet(now) : F[G[v][x]] = F[v] \cup O[x]
  <2> TAKE v \in Graphs(now), x \in SightSet(now)
  <2>1. G[v][x] = Observe(v, x)
    BY DEF ObserveFcn
  <2>2. Observe(v, x) \in Graphs(now) /\ Facts(Observe(v, x).edges) = Facts(v.edges) \cup SightFacts(x)
    BY ObserveKeeps
  <2> QED BY <2>1, <2>2
<1>6. UNION {O[s[i]] : i \in DOMAIN s} = SeqFacts(s)
  <2>1. \A i \in DOMAIN s : O[s[i]] = SightFacts(s[i])
    BY <1>2
  <2> HIDE DEF O
  <2> QED BY <2>1 DEF SeqFacts
<1>7. \A v \in Graphs(now) : F[v] = Facts(v.edges)
  OBVIOUS
<1> HIDE DEF G, F, O
<1>8. Folded(G, g, s) \in Graphs(now)
  BY <1>4, FoldedType
<1>9. F[Folded(G, g, s)] = F[g] \cup UNION {O[s[i]] : i \in DOMAIN s}
  BY <1>4, <1>5, FoldedGathers
<1>10. ProjectEntry(g, e, now) = Folded(G, g, s)
  BY <1>4 DEF ProjectEntry, s
<1> QED BY <1>3, <1>6, <1>7, <1>8, <1>9, <1>10

ProjectFcn(now) == [g \in Graphs(now) |-> [e \in Entries |-> ProjectEntry(g, e, now)]]

\* The fold over a log is the fold of this function.
LEMMA ProjectFold ==
  ASSUME NEW now, NEW b \in Graphs(now), NEW s \in Seq(Entries)
  PROVE  /\ Folding(Graphs(now), Entries, ProjectFcn(now), b, s)
         /\ FoldLeft(LAMBDA a, x : ProjectEntry(a, x, now), b, s) = Folded(ProjectFcn(now), b, s)
<1> DEFINE n == Len(s)
           V == Graphs(now)
           E == Entries
           G == ProjectFcn(now)
           Eq(h) == h = [T \in SUBSET (1..n) |-> IF T = {} THEN b ELSE ProjectEntry(h[T \ {Max(T)}], s[Max(T)], now)]
<1>0. \A v \in V, e \in E : G[v][e] = ProjectEntry(v, e, now)
  BY DEF ProjectFcn
<1>1. Closed(G, V, E)
  <2> HIDE DEF G
  <2> QED BY <1>0, EntryProjected DEF Closed
<1> HIDE DEF G, V, E
<1>2. n \in Nat /\ s \in [1..n -> E] /\ DOMAIN s = 1..n /\ s \in Seq(E) /\ b \in V
  BY DEF V, E
<1>3. PICK h \in [SUBSET (1..n) -> V] : Solves(h, n, b, G, s)
  <2> HIDE DEF n
  <2> QED BY <1>1, <1>2, SolutionExists
<1>4. ASSUME NEW T \in SUBSET (1..n), T # {}
      PROVE  G[h[T \ {Max(T)}]][s[Max(T)]] = ProjectEntry(h[T \ {Max(T)}], s[Max(T)], now)
  <2>1. Max(T) \in 1..n
    <3> HIDE DEF n
    <3>1. Max(T) \in T
      BY <1>2, <1>4, MaxPosition
    <3> QED BY <3>1
  <2>2. T \ {Max(T)} \in SUBSET (1..n)
    OBVIOUS
  <2>3. h[T \ {Max(T)}] \in V
    BY <2>2
  <2>4. s[Max(T)] \in E
    BY <1>2, <2>1
  <2> QED BY <1>0, <2>3, <2>4
<1>5. Eq(h)
  BY <1>3, <1>4 DEF Solves
<1>6. Eq(CHOOSE g : Eq(g))
  <2> HIDE DEF Eq
  <2> QED BY <1>5, Zenon
<1>7. PICK g : Eq(g) /\ FoldLeft(LAMBDA a, x : ProjectEntry(a, x, now), b, s) = g[1..n]
  <2>1. FoldLeft(LAMBDA a, x : ProjectEntry(a, x, now), b, s) = (CHOOSE g : Eq(g))[1..n]
    BY <1>2 DEF FoldLeft, MapThenFoldSet
  <2> HIDE DEF Eq
  <2> QED BY <1>6, <2>1
<1>8. \A T \in SUBSET (1..n) : g[T] = IF T = {} THEN b ELSE ProjectEntry(g[T \ {Max(T)}], s[Max(T)], now)
  BY <1>7
<1>9. g[{}] = b
  BY <1>8
<1>10. ASSUME NEW m \in 1..n, g[1..(m - 1)] \in V
       PROVE  g[1..m] = G[g[1..(m - 1)]][s[m]]
  <2>1. g[1..m] = ProjectEntry(g[1..(m - 1)], s[m], now)
    BY <1>2, <1>8, MaxSegment
  <2>2. s[m] \in E
    BY <1>2
  <2> QED BY <1>0, <1>10, <2>1, <2>2
<1>11. Segments(g, V, b, G, s)
  BY <1>9, <1>10 DEF Segments
<1>12. Folding(V, E, G, b, s)
  BY <1>1, <1>2 DEF Folding
<1>13. g[1..Len(s)] = Folded(G, b, s)
  <2> HIDE DEF n, Eq
  <2> QED BY <1>11, <1>12, FoldedSegments
<1> QED BY <1>7, <1>12, <1>13 DEF V, E, G

\* The graph before its edges are sorted.
Gathered(l, now) == FoldLeft(LAMBDA a, x : ProjectEntry(a, x, now), NoGraph, l)

\* The graph of a log is fine and says what the entries say.
LEMMA LogGraph ==
  ASSUME NEW now, NEW l \in Seq(Entries)
  PROVE  Gathered(l, now) \in Graphs(now) /\ Facts(Gathered(l, now).edges) = LogFacts(l)
<1> DEFINE G == ProjectFcn(now)
           b == NoGraph
           F == [v \in Graphs(now) |-> Facts(v.edges)]
           O == [x \in Entries |-> EntryFacts(x)]
<1>1. b \in Graphs(now) /\ b.edges = <<>>
  <2>1. b = [nodes |-> <<>>, edges |-> <<>>] /\ b.nodes = <<>> /\ b.edges = <<>>
    BY DEF NoGraph
  <2>2. NodesFine(<<>>) /\ EdgesFine(<<>>, now) /\ EndsFine(<<>>, <<>>)
    BY DEF NodesFine, EdgesFine, EndsFine
  <2>3. <<>> \in Seq(Nodes) /\ <<>> \in Seq(Edges(now))
    OBVIOUS
  <2> HIDE DEF b
  <2>4. b \in [nodes : Seq(Nodes), edges : Seq(Edges(now))]
    BY <2>1, <2>3
  <2> QED BY <2>1, <2>2, <2>4 DEF Graphs
<1>2. Facts(<<>>) = {}
  BY DEF Facts
<1> HIDE DEF b
<1>3. /\ Folding(Graphs(now), Entries, G, b, l)
      /\ FoldLeft(LAMBDA a, x : ProjectEntry(a, x, now), b, l) = Folded(G, b, l)
  BY <1>1, ProjectFold
<1>4. \A v \in Graphs(now), x \in Entries : F[G[v][x]] = F[v] \cup O[x]
  <2> TAKE v \in Graphs(now), x \in Entries
  <2>1. G[v][x] = ProjectEntry(v, x, now)
    BY DEF ProjectFcn
  <2>2. ProjectEntry(v, x, now) \in Graphs(now) /\ Facts(ProjectEntry(v, x, now).edges) = Facts(v.edges) \cup EntryFacts(x)
    BY EntryProjected
  <2> QED BY <2>1, <2>2
<1>5. UNION {O[l[i]] : i \in DOMAIN l} = LogFacts(l)
  <2>1. \A i \in DOMAIN l : O[l[i]] = EntryFacts(l[i])
    OBVIOUS
  <2> HIDE DEF O
  <2> QED BY <2>1 DEF LogFacts
<1>6. \A v \in Graphs(now) : F[v] = Facts(v.edges)
  OBVIOUS
<1> HIDE DEF G, F, O
<1>7. Folded(G, b, l) \in Graphs(now)
  BY <1>3, FoldedType
<1>8. F[Folded(G, b, l)] = F[b] \cup UNION {O[l[i]] : i \in DOMAIN l}
  <2>1. Folding(Graphs(now), Entries, G, b, l)
    BY <1>3
  <2> QED BY <1>4, <2>1, FoldedGathers
<1>9. Gathered(l, now) = Folded(G, b, l)
  BY <1>3 DEF Gathered, b
<1>10. F[b] = {}
  BY <1>1, <1>2, <1>6
<1>11. F[Folded(G, b, l)] = LogFacts(l)
  BY <1>5, <1>8, <1>10
<1>12. F[Folded(G, b, l)] = Facts(Folded(G, b, l).edges)
  BY <1>6, <1>7
<1> QED BY <1>7, <1>9, <1>11, <1>12

\* Edges in another order, none missing.
Reordered(edges, new) ==
  /\ \A i \in DOMAIN new : \E j \in DOMAIN edges : new[i] = edges[j]
  /\ \A j \in DOMAIN edges : \E i \in DOMAIN new : new[i] = edges[j]

\* Sorting the edges by their source is no more than that.
LEMMA EdgesSorted ==
  ASSUME NEW now, NEW edges, EdgesFine(edges, now)
  PROVE  EdgesFine(SortEdges(edges), now) /\ Reordered(edges, SortEdges(edges))
<1> DEFINE I == {i \in DOMAIN edges : edges[i].source = "trace"}
           J == {i \in DOMAIN edges : edges[i].source # "trace"}
           A == Keep(edges, I)
           B == Keep(edges, J)
           new == SortEdges(edges)
<1>1. edges \in Seq(Edges(now)) /\ \A i, j \in DOMAIN edges : KeyOf(edges[i]) = KeyOf(edges[j]) => i = j
  BY DEF EdgesFine
<1>2. new = A \o B
  BY DEF SortEdges, Where
<1>3. (\A i \in DOMAIN edges : i \in I \/ i \in J) /\ \A i : ~(i \in I /\ i \in J)
  OBVIOUS
<1> HIDE DEF I, J
<1>4. A \in Seq(Edges(now)) /\ B \in Seq(Edges(now))
  BY <1>1, KeepType
<1>5. (\E m : Selects(m, edges, I)) /\ \E m : Selects(m, edges, J)
  BY <1>1, KeepMap
<1>6. PICK mA : Selects(mA, edges, I)
  BY <1>5
<1>7. PICK mB : Selects(mB, edges, J)
  BY <1>5
<1> DEFINE a == Len(A)
           b == Len(B)
           n == Len(edges)
<1>8. /\ mA \in [1..a -> 1..n]
      /\ \A j \in 1..a : mA[j] \in I /\ A[j] = edges[mA[j]]
      /\ \A i, j \in 1..a : i < j => mA[i] < mA[j]
      /\ \A i \in 1..n : i \in I => \E j \in 1..a : mA[j] = i
  BY <1>6 DEF Selects
<1>9. /\ mB \in [1..b -> 1..n]
      /\ \A j \in 1..b : mB[j] \in J /\ B[j] = edges[mB[j]]
      /\ \A i, j \in 1..b : i < j => mB[i] < mB[j]
      /\ \A i \in 1..n : i \in J => \E j \in 1..b : mB[j] = i
  BY <1>7 DEF Selects
<1>10. a \in Nat /\ b \in Nat /\ n \in Nat /\ DOMAIN edges = 1..n
  BY <1>1, <1>4
<1>11. new \in Seq(Edges(now)) /\ DOMAIN new = 1..(a + b)
  <2>1. A \o B \in Seq(Edges(now)) /\ Len(A \o B) = a + b
    BY <1>4, ConcatProperties
  <2> HIDE DEF A, B, a, b, new
  <2>2. new \in Seq(Edges(now)) /\ Len(new) = a + b
    BY <1>2, <2>1
  <2> QED BY <2>2
<1>12. \A i \in 1..(a + b) : new[i] = IF i <= a THEN A[i] ELSE B[i - a]
  BY <1>2, <1>4, ConcatProperties
<1> HIDE DEF new, A, B, a, b, n
<1> DEFINE at == [i \in 1..(a + b) |-> IF i <= a THEN mA[i] ELSE mB[i - a]]
<1>13. \A i \in 1..(a + b) : \/ i \in 1..a /\ i <= a
                             \/ ~(i <= a) /\ i - a \in 1..b
  BY <1>10
<1>14. \A i \in 1..(a + b) : at[i] \in 1..n /\ new[i] = edges[at[i]]
  BY <1>8, <1>9, <1>12, <1>13
<1>15. ASSUME NEW i \in 1..(a + b), NEW j \in 1..(a + b), at[i] = at[j] PROVE i = j
  <2>1. CASE i \in 1..a /\ j \in 1..a
    <3>1. mA[i] = mA[j]
      BY <1>10, <1>15, <2>1
    <3>2. mA[i] \in Nat /\ mA[j] \in Nat
      BY <1>8, <2>1
    <3>3. ~(i < j) /\ ~(j < i)
      <4> HIDE DEF at
      <4> QED BY <1>8, <2>1, <3>1, <3>2
    <3> QED BY <1>10, <2>1, <3>3
  <2>2. CASE ~(i <= a) /\ ~(j <= a)
    <3>1. mB[i - a] = mB[j - a]
      BY <1>15, <2>2
    <3>2. i - a \in 1..b /\ j - a \in 1..b
      BY <1>13, <2>2
    <3>3. mB[i - a] \in Nat /\ mB[j - a] \in Nat
      BY <1>9, <3>2
    <3>4. ~(i - a < j - a) /\ ~(j - a < i - a)
      <4> HIDE DEF at
      <4> QED BY <1>9, <3>1, <3>2, <3>3
    <3> QED BY <1>10, <3>4
  <2>3. CASE i \in 1..a /\ ~(j <= a)
    <3>1. at[i] \in I /\ at[j] \in J
      BY <1>8, <1>9, <1>13, <2>3
    <3> HIDE DEF at
    <3> QED BY <1>3, <1>15, <3>1
  <2>4. CASE ~(i <= a) /\ j \in 1..a
    <3>1. at[i] \in J /\ at[j] \in I
      BY <1>8, <1>9, <1>13, <2>4
    <3> HIDE DEF at
    <3> QED BY <1>3, <1>15, <3>1
  <2> HIDE DEF at
  <2> QED BY <1>13, <2>1, <2>2, <2>3, <2>4
<1>16. ASSUME NEW j \in 1..n PROVE \E i \in 1..(a + b) : at[i] = j
  <2>1. CASE j \in I
    <3>1. PICK i \in 1..a : mA[i] = j
      BY <1>8, <2>1
    <3>2. i \in 1..(a + b) /\ i <= a
      BY <1>10
    <3> QED BY <3>1, <3>2
  <2>2. CASE j \in J
    <3>1. PICK i \in 1..b : mB[i] = j
      BY <1>9, <2>2
    <3>2. a + i \in 1..(a + b) /\ ~(a + i <= a) /\ (a + i) - a = i
      BY <1>10
    <3> QED BY <3>1, <3>2
  <2> QED BY <1>3, <1>10, <2>1, <2>2
<1> HIDE DEF at
<1>17. Reordered(edges, new)
  <2>1. ASSUME NEW i \in DOMAIN new PROVE \E j \in DOMAIN edges : new[i] = edges[j]
    BY <1>10, <1>11, <1>14
  <2>2. ASSUME NEW j \in DOMAIN edges PROVE \E i \in DOMAIN new : new[i] = edges[j]
    <3>1. PICK i \in 1..(a + b) : at[i] = j
      BY <1>10, <1>16
    <3> QED BY <1>11, <1>14, <3>1
  <2> QED BY <2>1, <2>2 DEF Reordered
<1>18. EdgesFine(new, now)
  <2>1. ASSUME NEW i \in DOMAIN new, NEW j \in DOMAIN new, KeyOf(new[i]) = KeyOf(new[j]) PROVE i = j
    BY <1>1, <1>10, <1>11, <1>14, <1>15, <2>1
  <2> QED BY <1>11, <2>1 DEF EdgesFine
<1> QED BY <1>17, <1>18 DEF new

\* The graph of the topology: fine, and what the log says.
LEMMA TopologyIs ==
  ASSUME NEW now, NEW l \in Seq(Entries)
  PROVE  /\ ProjectTopology(l, now) \in Graphs(now)
         /\ Facts(ProjectTopology(l, now).edges) = LogFacts(l)
<1> DEFINE h == Gathered(l, now)
           g == ProjectTopology(l, now)
           new == SortEdges(h.edges)
<1>1. h \in Graphs(now) /\ Facts(h.edges) = LogFacts(l)
  BY LogGraph
<1>2. g = [h EXCEPT !.edges = new]
  BY DEF ProjectTopology, Gathered
<1> HIDE DEF h, g
<1>3. /\ h \in [nodes : Seq(Nodes), edges : Seq(Edges(now))]
      /\ NodesFine(h.nodes) /\ EdgesFine(h.edges, now) /\ EndsFine(h.nodes, h.edges)
  BY <1>1 DEF Graphs
<1>4. EdgesFine(new, now) /\ Reordered(h.edges, new)
  BY <1>3, EdgesSorted
<1> HIDE DEF new
<1>5. g.nodes = h.nodes /\ g.edges = new /\ g = [nodes |-> h.nodes, edges |-> new]
  BY <1>2, <1>3
<1>6. EndsFine(h.nodes, new)
  BY <1>3, <1>4 DEF EndsFine, Reordered
<1>7. new \in Seq(Edges(now))
  BY <1>4 DEF EdgesFine
<1>8. g \in [nodes : Seq(Nodes), edges : Seq(Edges(now))]
  BY <1>3, <1>5, <1>7
<1>9. g \in Graphs(now)
  BY <1>3, <1>4, <1>5, <1>6, <1>8 DEF Graphs
<1>10. \A x : x \in Facts(new) <=> x \in Facts(h.edges)
  BY <1>4 DEF Reordered, Facts
<1>11. Facts(new) = LogFacts(l)
  BY <1>1, <1>10
<1> QED BY <1>5, <1>9, <1>11 DEF g

\* Relations of a result are relations of the model.
LEMMA RelationsTyped ==
  ASSUME NEW p \in Results
  PROVE  Relations(p) \subseteq Keys
<1>1. SightsOf(ProjectPayload(p, {0}, 0), {0}, Relations(p), 0)
  <2>1. {0} \in SUBSET Nat /\ {0} # {}
    OBVIOUS
  <2>2. PICK ev \in SUBSET Nat : ev # {} /\ ev = {0}
    BY <2>1
  <2>3. PICK now : now = 0
    OBVIOUS
  <2>4. SightsOf(ProjectPayload(p, ev, now), ev, Relations(p), now)
    BY <2>2, PayloadSights
  <2> QED BY <2>2, <2>3, <2>4
<1> QED BY <1>1 DEF SightsOf, Says

\* What an entry says is one of the relations it stands for, with the id of its
\* result; and everything it stands for, if its result was kept whole.
LEMMA EntrySays ==
  ASSUME NEW e \in Entries
  PROVE  /\ \A x \in EntryFacts(e) : e.evidence = {x[2]} /\ x[1] \in RelationsOf(e)
         /\ Complete(e) => \A r \in RelationsOf(e) :
               r \in Keys /\ \E n \in Nat : e.evidence = {n} /\ <<r, n>> \in EntryFacts(e)
<1>1. CASE e \in Plain
  <2>1. e.content = {} /\ e.shows = {}
    BY <1>1 DEF Plain
  <2>2. EntryFacts(e) = {} /\ RelationsOf(e) = {}
    BY <2>1 DEF EntryFacts, With, RelationsOf
  <2> QED BY <2>2
<1>2. ASSUME NEW p \in Payloads, e \in Emitted(p)
      PROVE  /\ \A x \in EntryFacts(e) : e.evidence = {x[2]} /\ x[1] \in RelationsOf(e)
             /\ Complete(e) => \A r \in RelationsOf(e) :
                   r \in Keys /\ \E n \in Nat : e.evidence = {n} /\ <<r, n>> \in EntryFacts(e)
  <2>1. e.content = {p} /\ e.shows = Shown(p) /\ \E n \in Nat : e.evidence = {n}
    BY <1>2 DEF Emitted
  <2>2. PICK n \in Nat : e.evidence = {n}
    BY <2>1
  <2>3. RelationsOf(e) = TrueRelations(p)
    BY <2>1 DEF RelationsOf, TrueRelations, Shortened
  <2>4. \A x : x \in EntryFacts(e) <=> x \in Keys \X Nat /\ x[1] \in ShownRelations(p) /\ x[2] = n
    BY <2>1, <2>2 DEF EntryFacts, With, ShownRelations
  <2>5. /\ Shown(p) = {} \/ \E q \in Results : Shown(p) = {q}
        /\ ShownRelations(p) \subseteq TrueRelations(p)
        /\ (p \in Large => KeptWhole(p)) => ShownRelations(p) = TrueRelations(p)
    BY ShownIs
  <2>6. ShownRelations(p) \subseteq Keys
    BY <2>5, RelationsTyped DEF ShownRelations
  <2>7. Complete(e) => (p \in Large => KeptWhole(p))
    BY <2>1 DEF Complete, KeptWhole, Within, Apart
  <2>8. ASSUME Complete(e), NEW r \in RelationsOf(e)
        PROVE  r \in Keys /\ <<r, n>> \in EntryFacts(e)
    <3>1. r \in ShownRelations(p) /\ r \in Keys
      BY <2>3, <2>5, <2>6, <2>7, <2>8
    <3> QED BY <2>4, <3>1
  <2>9. \A x \in EntryFacts(e) : e.evidence = {x[2]} /\ x[1] \in RelationsOf(e)
    BY <2>2, <2>3, <2>4, <2>5
  <2> QED BY <2>2, <2>8, <2>9
<1> QED BY <1>1, <1>2 DEF Entries

\* The graph of one thread.
SeenBy(l, now) ==
    LET g == ProjectTopology(l, now)
        Key(e) == <<e.from, e.to, e.relation>>
        edges == ToSet(g.edges)
    IN  /\ Cardinality(NodeIds(g)) = Len(g.nodes)
        /\ Cardinality({Key(e) : e \in edges}) = Len(g.edges)
        /\ \A e \in edges : {e.from, e.to} \subseteq NodeIds(g) /\ e.evidence # {}
        /\ \A e \in edges : \A v \in e.evidence :
              \E x \in ToSet(l) : x.evidence = {v} /\ Key(e) \in RelationsOf(x)
        /\ \A x \in ToSet(l) : Complete(x) =>
              \A r \in RelationsOf(x) : \E e \in edges : Key(e) = r /\ x.evidence \subseteq e.evidence

\* It is what was seen.
LEMMA GraphSeen ==
  ASSUME NEW now, NEW l \in Seq(Entries)
  PROVE  SeenBy(l, now)
<1> DEFINE g == ProjectTopology(l, now)
           edges == ToSet(g.edges)
<1>1. g \in Graphs(now) /\ Facts(g.edges) = LogFacts(l)
  BY TopologyIs
<1> HIDE DEF g
<1>2. /\ g.nodes \in Seq(Nodes) /\ \A i, j \in DOMAIN g.nodes : g.nodes[i].id = g.nodes[j].id => i = j
      /\ g.edges \in Seq(Edges(now)) /\ \A i, j \in DOMAIN g.edges : KeyOf(g.edges[i]) = KeyOf(g.edges[j]) => i = j
      /\ \A i \in DOMAIN g.edges : Evidenced(g.nodes, g.edges[i].from) /\ Evidenced(g.nodes, g.edges[i].to)
  BY <1>1 DEF Graphs, NodesFine, EdgesFine, EndsFine
<1>3. /\ DOMAIN g.nodes = 1..Len(g.nodes) /\ Len(g.nodes) \in Nat
      /\ DOMAIN g.edges = 1..Len(g.edges) /\ Len(g.edges) \in Nat
  BY <1>2
<1>4. \A e \in edges : e \in Edges(now) /\ \E i \in DOMAIN g.edges : e = g.edges[i]
  BY <1>2 DEF ToSet
<1>5. Cardinality(NodeIds(g)) = Len(g.nodes)
  <2> DEFINE n == Len(g.nodes)
             f == [i \in 1..n |-> g.nodes[i].id]
  <2>2. DOMAIN f = 1..n /\ f = [i \in 1..n |-> f[i]] /\ \A i \in 1..n : f[i] = g.nodes[i].id
    OBVIOUS
  <2>3. \A y : y \in NodeIds(g) <=> \E i \in 1..n : g.nodes[i].id = y
    BY <1>3 DEF NodeIds, ToSet
  <2> HIDE DEF f
  <2>4. \A i, j \in 1..n : f[i] = f[j] => i = j
    BY <1>2, <1>3, <2>2
  <2>5. \A y : y \in NodeIds(g) <=> \E i \in 1..n : f[i] = y
    BY <2>2, <2>3
  <2>6. n \in Nat
    BY <1>3
  <2> HIDE DEF n
  <2>7. Counts(f, n, NodeIds(g))
    BY <2>2, <2>4, <2>5 DEF Counts
  <2>8. Cardinality(NodeIds(g)) = n
    BY <2>6, <2>7, Counted
  <2> QED BY <2>8 DEF n
<1>6. Cardinality({KeyOf(e) : e \in edges}) = Len(g.edges)
  <2> DEFINE n == Len(g.edges)
             f == [i \in 1..n |-> KeyOf(g.edges[i])]
             T == {KeyOf(e) : e \in edges}
  <2>1. \A y : y \in T <=> \E i \in 1..n : KeyOf(g.edges[i]) = y
    BY <1>3 DEF ToSet
  <2> HIDE DEF T
  <2>2. DOMAIN f = 1..n /\ f = [i \in 1..n |-> f[i]] /\ \A i \in 1..n : f[i] = KeyOf(g.edges[i])
    OBVIOUS
  <2> HIDE DEF f
  <2>3. \A i, j \in 1..n : f[i] = f[j] => i = j
    BY <1>2, <1>3, <2>2
  <2>4. \A y : y \in T <=> \E i \in 1..n : f[i] = y
    BY <2>1, <2>2
  <2>5. n \in Nat
    BY <1>3
  <2> HIDE DEF n
  <2>6. Counts(f, n, T)
    BY <2>2, <2>3, <2>4 DEF Counts
  <2>7. Cardinality(T) = n
    BY <2>5, <2>6, Counted
  <2> QED BY <2>7 DEF n, T
<1> HIDE DEF edges
<1>7. ASSUME NEW e \in edges PROVE {e.from, e.to} \subseteq NodeIds(g) /\ e.evidence # {}
  <2>1. e.evidence # {}
    BY <1>4 DEF Edges
  <2>2. Evidenced(g.nodes, e.from) /\ Evidenced(g.nodes, e.to)
    BY <1>2, <1>4
  <2> QED BY <2>1, <2>2 DEF Evidenced, NodeIds, ToSet
<1>8. ASSUME NEW e \in edges, NEW v \in e.evidence
      PROVE  \E x \in ToSet(l) : x.evidence = {v} /\ KeyOf(e) \in RelationsOf(x)
  <2>1. e \in Edges(now)
    BY <1>4
  <2>2. KeyOf(e) \in Keys /\ v \in Nat
    BY <2>1 DEF Edges, KeyOf, Keys
  <2> DEFINE x == <<KeyOf(e), v>>
  <2>3. x \in Keys \X Nat /\ x[1] = KeyOf(e) /\ x[2] = v
    BY <2>2
  <2> HIDE DEF x
  <2>4. x \in Facts(g.edges)
    BY <1>4, <2>3 DEF Facts
  <2>5. PICK i \in DOMAIN l : x \in EntryFacts(l[i])
    BY <1>1, <2>4 DEF LogFacts
  <2>6. l[i] \in Entries /\ l[i] \in ToSet(l)
    BY DEF ToSet
  <2>7. l[i].evidence = {x[2]} /\ x[1] \in RelationsOf(l[i])
    BY <2>5, <2>6, EntrySays
  <2> QED BY <2>3, <2>6, <2>7
<1>9. ASSUME NEW x \in ToSet(l), Complete(x), NEW r \in RelationsOf(x)
      PROVE  \E e \in edges : KeyOf(e) = r /\ x.evidence \subseteq e.evidence
  <2>1. PICK i \in DOMAIN l : x = l[i]
    BY DEF ToSet
  <2>2. x \in Entries
    BY <2>1
  <2>3. PICK n \in Nat : r \in Keys /\ x.evidence = {n} /\ <<r, n>> \in EntryFacts(x)
    BY <1>9, <2>2, EntrySays
  <2>4. <<r, n>> \in Facts(g.edges)
    BY <1>1, <2>1, <2>3 DEF LogFacts
  <2>5. PICK j \in DOMAIN g.edges : KeyOf(g.edges[j]) = r /\ n \in g.edges[j].evidence
    BY <2>4 DEF Facts
  <2>6. g.edges[j] \in edges
    BY DEF edges, ToSet
  <2> QED BY <2>3, <2>5, <2>6
<1> QED BY <1>5, <1>6, <1>7, <1>8, <1>9 DEF SeenBy, KeyOf, g, edges

\* For any number of threads and results, any names, limits and failures: the
\* graph that project_topology makes of a log, of inline results and excerpts
\* alike, has no relation that no result shows, misses none of a result that was
\* kept whole, names for every relation the results that show it, and holds
\* nothing twice.
THEOREM GraphsAreWhatWasSeen == Spec => []GraphIsWhatWasSeen
<1>1. Inv => GraphIsWhatWasSeen
  <2> SUFFICES ASSUME Inv, NEW t \in Threads PROVE SeenBy(log[t], clock)
    BY DEF GraphIsWhatWasSeen, SeenBy
  <2>1. log[t] \in Seq(Entries)
    BY DEF Inv, TypeInv
  <2> QED BY <2>1, GraphSeen
<1> QED BY <1>1, InvInit, StepKeeps, PTL DEF Spec

-----------------------------------------------------------------------------
(* The query. *)

\* The positions of the nodes the search starts from.
SeedPositions(nodes) ==
  LET evidenced == {i \in DOMAIN nodes : nodes[i].evidence # {}}
  IN  IF Keep(nodes, evidenced) = <<>> THEN DOMAIN nodes ELSE evidenced
SeedNodes(nodes) == Keep(nodes, SeedPositions(nodes))

\* They are these nodes, by their ids, and all ends of edges are among them.
LEMMA SeedsAre ==
  ASSUME NEW now, NEW g \in Graphs(now)
  PROVE  /\ SeedNodes(g.nodes) \in Seq(Nodes)
         /\ Len(SeedNodes(g.nodes)) <= Len(g.nodes)
         /\ Seeds(g) = [j \in 1..Len(SeedNodes(g.nodes)) |-> SeedNodes(g.nodes)[j].id]
         /\ \A id : Neighbours(g, id) \subseteq ToSet(Seeds(g))
<1> DEFINE nodes == g.nodes
           evidenced == {i \in DOMAIN nodes : nodes[i].evidence # {}}
           E == Keep(nodes, evidenced)
           J == SeedPositions(nodes)
           B == SeedNodes(nodes)
           seeds == Seeds(g)
<1>1. nodes \in Seq(Nodes) /\ EndsFine(nodes, g.edges)
  BY DEF Graphs
<1>2. J = IF E = <<>> THEN DOMAIN nodes ELSE evidenced
  BY DEF SeedPositions
<1>3. B = Keep(nodes, J)
  BY DEF SeedNodes
<1>4. seeds = [j \in DOMAIN (IF E = <<>> THEN nodes ELSE E) |-> (IF E = <<>> THEN nodes ELSE E)[j].id]
  BY DEF Seeds, Each, Where
<1>5. \A i : i \in evidenced <=> i \in DOMAIN nodes /\ nodes[i].evidence # {}
  OBVIOUS
<1> HIDE DEF nodes, evidenced, J, B, seeds
<1>6. B = IF E = <<>> THEN nodes ELSE E
  <2>1. CASE E = <<>>
    <3>1. J = DOMAIN nodes /\ 1..Len(nodes) \subseteq J
      BY <1>1, <1>2, <2>1
    <3>2. Keep(nodes, J) = nodes
      BY <1>1, <3>1, KeepAll
    <3> QED BY <1>3, <2>1, <3>2
  <2>2. CASE E # <<>>
    BY <1>2, <1>3, <2>2
  <2> QED BY <2>1, <2>2
<1>7. B \in Seq(Nodes) /\ Len(B) <= Len(nodes)
  BY <1>1, <1>3, KeepType, KeepMap
<1>8. seeds = [j \in 1..Len(B) |-> B[j].id]
  <2>1. seeds = [j \in DOMAIN B |-> B[j].id]
    BY <1>4, <1>6
  <2> QED BY <1>7, <2>1
<1>9. \A id : Evidenced(nodes, id) => id \in ToSet(seeds)
  <2> SUFFICES ASSUME NEW id, Evidenced(nodes, id) PROVE id \in ToSet(seeds)
    OBVIOUS
  <2>1. PICK k \in DOMAIN nodes : nodes[k].id = id /\ nodes[k].evidence # {}
    BY DEF Evidenced
  <2>2. k \in J
    BY <1>2, <1>5, <2>1
  <2>3. \A x : x \in ToSet(B) <=> \E i \in DOMAIN nodes : i \in J /\ nodes[i] = x
    BY <1>1, <1>3, KeepElements
  <2>4. nodes[k] \in ToSet(B)
    BY <2>1, <2>2, <2>3
  <2>5. PICK j \in DOMAIN B : B[j] = nodes[k]
    BY <2>4 DEF ToSet
  <2>6. j \in 1..Len(B)
    BY <1>7
  <2> QED BY <1>8, <2>1, <2>5, <2>6 DEF ToSet
<1>10. ASSUME NEW id PROVE Neighbours(g, id) \subseteq ToSet(seeds)
  <2>1. ASSUME NEW x \in Neighbours(g, id) PROVE \E e \in ToSet(g.edges) : x = e.to \/ x = e.from
    BY DEF Neighbours
  <2>2. \A e \in ToSet(g.edges) : Evidenced(nodes, e.to) /\ Evidenced(nodes, e.from)
    BY <1>1 DEF EndsFine, ToSet
  <2> QED BY <1>9, <2>1, <2>2
<1> QED BY <1>7, <1>8, <1>10 DEF nodes, B, seeds

\* The state of the search when k of the seeds have been visited.
Visited(seeds, k) ==
  [kept |-> {seeds[j] : j \in 1..k},
   seen |-> ToSet(seeds),
   queue |-> [j \in 1..(Len(seeds) - k) |-> [id |-> seeds[k + j], distance |-> 0]]]
SearchLoop(g, depth, limit, s) ==
  IF s.queue = <<>> \/ Cardinality(s.kept) >= limit THEN s ELSE VisitNext(g, s, depth)

\* Seeds are ids, each once, and have no neighbours but each other.
SeedsFine(g, seeds) ==
  /\ seeds \in Seq(Ids)
  /\ \A i, j \in 1..Len(seeds) : seeds[i] = seeds[j] => i = j
  /\ \A id : Neighbours(g, id) \subseteq ToSet(seeds)

\* Each turn of the loop takes one seed more, until none is left or there are
\* enough: nothing else ever gets into the queue.
LEMMA SeedVisited ==
  ASSUME NEW g, NEW seeds, SeedsFine(g, seeds), NEW depth, NEW limit \in Nat,
         NEW k \in Nat, k <= Len(seeds), k <= limit
  PROVE  SearchLoop(g, depth, limit, Visited(seeds, k)) =
           Visited(seeds, IF k < Len(seeds) /\ k < limit THEN k + 1 ELSE k)
<1> DEFINE n == Len(seeds)
           s == Visited(seeds, k)
           Item == [id : Ids, distance : Nat]
           q == [j \in 1..(n - k) |-> [id |-> seeds[k + j], distance |-> 0]]
           kept == {seeds[j] : j \in 1..k}
<1>1. /\ seeds \in Seq(Ids) /\ n \in Nat
      /\ \A i, j \in 1..n : seeds[i] = seeds[j] => i = j
      /\ \A id : Neighbours(g, id) \subseteq ToSet(seeds)
  BY DEF SeedsFine
<1>2. s.kept = kept /\ s.seen = ToSet(seeds) /\ s.queue = q
  BY DEF Visited
<1>3. q \in Seq(Item) /\ Len(q) = n - k /\ \A j \in 1..(n - k) : q[j] = [id |-> seeds[k + j], distance |-> 0]
  <2>1. n - k \in Nat /\ \A j \in 1..(n - k) : k + j \in 1..n
    BY <1>1
  <2>2. q \in [1..(n - k) -> Item]
    BY <1>1, <2>1
  <2>3. \A j \in 1..(n - k) : q[j] = [id |-> seeds[k + j], distance |-> 0]
    OBVIOUS
  <2> DEFINE m == n - k
  <2>4. m \in Nat /\ q \in [1..m -> Item]
    BY <2>1, <2>2
  <2> HIDE DEF n, Item, q, m
  <2>5. q \in Seq(Item) /\ Len(q) = m
    BY <2>4
  <2> QED BY <2>3, <2>5 DEF m
<1>4. Cardinality(kept) = k
  <2> DEFINE f == [j \in 1..k |-> seeds[j]]
  <2>1. \A y : y \in kept <=> \E j \in 1..k : f[j] = y
    OBVIOUS
  <2>2. \A j \in 1..k : j \in 1..n
    BY <1>1
  <2>3. \A i, j \in 1..k : f[i] = f[j] => i = j
    BY <1>1, <2>2
  <2>4. DOMAIN f = 1..k /\ f = [j \in 1..k |-> f[j]]
    OBVIOUS
  <2> HIDE DEF f, kept
  <2>5. Counts(f, k, kept)
    BY <2>1, <2>3, <2>4 DEF Counts
  <2> QED BY <2>5, Counted
<1>5. SearchLoop(g, depth, limit, s) = IF q = <<>> \/ k >= limit THEN s ELSE VisitNext(g, s, depth)
  BY <1>2, <1>4 DEF SearchLoop
<1> HIDE DEF s, q, kept, Item
<1>6. q = <<>> <=> k = n
  <2> HIDE DEF n
  <2> QED BY <1>1, <1>3, EmptySeq
<1>7. CASE ~(k < n /\ k < limit)
  <2>1. k = n \/ k >= limit
    BY <1>1, <1>7
  <2> QED BY <1>5, <1>6, <1>7, <2>1 DEF s
<1>8. CASE k < n /\ k < limit
  <2>1. SearchLoop(g, depth, limit, s) = Visit(g, s, depth, 1)
    <3>1. q # <<>> /\ ~(k >= limit)
      BY <1>1, <1>6, <1>8
    <3> QED BY <1>5, <3>1 DEF VisitNext
  <2>2. 1 \in 1..(n - k) /\ k + 1 \in Nat /\ k + 1 <= n
    BY <1>1, <1>8
  <2>3. q[1].id = seeds[k + 1]
    <3>1. q[1] = [id |-> seeds[k + 1], distance |-> 0]
      <4> HIDE DEF n
      <4> QED BY <1>3, <2>2
    <3> QED BY <3>1
  <2> DEFINE rest == [j \in 1..(n - (k + 1)) |-> [id |-> seeds[(k + 1) + j], distance |-> 0]]
  <2>4. RemoveAt(q, 1) = rest
    <3>1. q # <<>>
      BY <1>6, <1>8
    <3>2. RemoveAt(q, 1) = [j \in 1..(Len(q) - 1) |-> q[j + 1]]
      BY <1>3, <3>1, HeadRemoved
    <3>3. Len(q) - 1 = n - (k + 1)
      BY <1>1, <1>3
    <3>4. \A j \in 1..(n - (k + 1)) : j + 1 \in 1..(n - k) /\ k + (j + 1) = (k + 1) + j
      BY <1>1
    <3>5. \A j \in 1..(n - (k + 1)) : q[j + 1] = [id |-> seeds[(k + 1) + j], distance |-> 0]
      BY <1>3, <3>4
    <3> HIDE DEF n
    <3> QED BY <3>2, <3>3, <3>5
  <2>5. rest \in Seq(Item)
    <3>1. n - (k + 1) \in Nat /\ \A j \in 1..(n - (k + 1)) : (k + 1) + j \in 1..n
      BY <1>1, <2>2
    <3>2. rest \in [1..(n - (k + 1)) -> Item]
      BY <1>1, <3>1 DEF Item
    <3> HIDE DEF n, rest
    <3> QED BY <3>1, <3>2
  <2>6. kept \cup {seeds[k + 1]} = {seeds[j] : j \in 1..(k + 1)}
    <3>1. 1..(k + 1) = 1..k \cup {k + 1}
      OBVIOUS
    <3> QED BY <3>1 DEF kept
  <2>7. Visit(g, s, depth, 1) =
          [kept |-> s.kept \cup {q[1].id},
           seen |-> s.seen \cup {},
           queue |-> RemoveAt(q, 1) \o <<>>]
    <3> DEFINE d == s.queue[1].distance
               new == IF d >= depth THEN {} ELSE Neighbours(g, s.queue[1].id) \ s.seen
               Put(set) == [i \in DOMAIN SetToSeq(set) |-> [id |-> SetToSeq(set)[i], distance |-> d + 1]]
    <3>1. Visit(g, s, depth, 1) =
            [kept |-> s.kept \cup {s.queue[1].id}, seen |-> s.seen \cup new, queue |-> RemoveAt(s.queue, 1) \o Put(new)]
      BY DEF Visit, Each
    <3>2. new = {}
      BY <1>1, <1>2
    <3>3. Put({}) = <<>>
      BY NothingInOrder
    <3> HIDE DEF new, Put
    <3> QED BY <1>2, <3>1, <3>2, <3>3
  <2> HIDE DEF rest
  <2>8. rest \o <<>> = rest
    BY <2>5
  <2>9. Visit(g, s, depth, 1) = [kept |-> {seeds[j] : j \in 1..(k + 1)}, seen |-> ToSet(seeds), queue |-> rest]
    BY <1>2, <2>3, <2>4, <2>6, <2>7, <2>8
  <2>10. Visit(g, s, depth, 1) = Visited(seeds, k + 1)
    BY <2>9 DEF Visited, rest
  <2> QED BY <1>8, <2>1, <2>10 DEF s, n
<1> QED BY <1>7, <1>8

SearchFcn(g, depth, limit, V, E) == [s \in V |-> [x \in E |-> SearchLoop(g, depth, limit, s)]]

\* The loop, which does not look at the nodes that count its turns.
Search(g, depth, limit, b, s) == FoldLeft(LAMBDA a, x : SearchLoop(g, depth, limit, a), b, s)

\* The fold of the loop is the fold of this function.
LEMMA SearchFold ==
  ASSUME NEW q, NEW depth, NEW limit, NEW V, NEW E, Closed(SearchFcn(q, depth, limit, V, E), V, E),
         NEW b \in V, NEW s \in Seq(E)
  PROVE  /\ Folding(V, E, SearchFcn(q, depth, limit, V, E), b, s)
         /\ Search(q, depth, limit, b, s) = Folded(SearchFcn(q, depth, limit, V, E), b, s)
<1> DEFINE n == Len(s)
           G == SearchFcn(q, depth, limit, V, E)
           Eq(h) == h = [T \in SUBSET (1..n) |-> IF T = {} THEN b ELSE SearchLoop(q, depth, limit, h[T \ {Max(T)}])]
<1>0. \A v \in V, e \in E : G[v][e] = SearchLoop(q, depth, limit, v)
  BY DEF SearchFcn
<1>1. Closed(G, V, E)
  OBVIOUS
<1> HIDE DEF G
<1>2. n \in Nat /\ s \in [1..n -> E] /\ DOMAIN s = 1..n /\ s \in Seq(E) /\ b \in V
  OBVIOUS
<1>3. PICK h \in [SUBSET (1..n) -> V] : Solves(h, n, b, G, s)
  <2> HIDE DEF n
  <2> QED BY <1>1, <1>2, SolutionExists
<1>4. ASSUME NEW T \in SUBSET (1..n), T # {}
      PROVE  G[h[T \ {Max(T)}]][s[Max(T)]] = SearchLoop(q, depth, limit, h[T \ {Max(T)}])
  <2>1. Max(T) \in 1..n
    <3> HIDE DEF n
    <3>1. Max(T) \in T
      BY <1>2, <1>4, MaxPosition
    <3> QED BY <3>1
  <2>2. T \ {Max(T)} \in SUBSET (1..n)
    OBVIOUS
  <2>3. h[T \ {Max(T)}] \in V
    BY <2>2
  <2>4. s[Max(T)] \in E
    BY <1>2, <2>1
  <2> QED BY <1>0, <2>3, <2>4
<1>5. Eq(h)
  BY <1>3, <1>4 DEF Solves
<1>6. Eq(CHOOSE g : Eq(g))
  <2> HIDE DEF Eq
  <2> QED BY <1>5, Zenon
<1>7. PICK g : Eq(g) /\ FoldLeft(LAMBDA a, x : SearchLoop(q, depth, limit, a), b, s) = g[1..n]
  <2>1. FoldLeft(LAMBDA a, x : SearchLoop(q, depth, limit, a), b, s) = (CHOOSE g : Eq(g))[1..n]
    BY <1>2 DEF FoldLeft, MapThenFoldSet
  <2> HIDE DEF Eq
  <2> QED BY <1>6, <2>1
<1>8. \A T \in SUBSET (1..n) : g[T] = IF T = {} THEN b ELSE SearchLoop(q, depth, limit, g[T \ {Max(T)}])
  BY <1>7
<1>9. g[{}] = b
  BY <1>8
<1>10. ASSUME NEW m \in 1..n, g[1..(m - 1)] \in V
       PROVE  g[1..m] = G[g[1..(m - 1)]][s[m]]
  <2>1. g[1..m] = SearchLoop(q, depth, limit, g[1..(m - 1)])
    BY <1>2, <1>8, MaxSegment
  <2>2. s[m] \in E
    BY <1>2
  <2> QED BY <1>0, <1>10, <2>1, <2>2
<1>11. Segments(g, V, b, G, s)
  BY <1>9, <1>10 DEF Segments
<1>12. Folding(V, E, G, b, s)
  BY <1>1, <1>2 DEF Folding
<1>13. g[1..Len(s)] = Folded(G, b, s)
  <2> HIDE DEF n, Eq
  <2> QED BY <1>11, <1>12, FoldedSegments
<1> QED BY <1>7, <1>12, <1>13 DEF Search, G

Smaller(m, n) == IF m < n THEN m ELSE n

\* Different seeds are different nodes.
LEMMA SeedsDistinct ==
  ASSUME NEW now, NEW g \in Graphs(now)
  PROVE  SeedsFine(g, Seeds(g))
<1> DEFINE nodes == g.nodes
           B == SeedNodes(nodes)
           J == SeedPositions(nodes)
           seeds == Seeds(g)
<1>1. /\ B \in Seq(Nodes) /\ seeds = [j \in 1..Len(B) |-> B[j].id]
      /\ \A id : Neighbours(g, id) \subseteq ToSet(seeds)
  BY SeedsAre
<1>2. nodes \in Seq(Nodes) /\ \A i, j \in DOMAIN nodes : nodes[i].id = nodes[j].id => i = j
  BY DEF Graphs, NodesFine
<1>3. B = Keep(nodes, J)
  BY DEF SeedNodes
<1> HIDE DEF nodes, J, seeds
<1>4. PICK m : Selects(m, nodes, J)
  BY <1>2, KeepMap
<1>5. /\ m \in [1..Len(B) -> 1..Len(nodes)]
      /\ \A j \in 1..Len(B) : B[j] = nodes[m[j]]
      /\ \A i, j \in 1..Len(B) : i < j => m[i] < m[j]
  BY <1>3, <1>4 DEF Selects
<1> HIDE DEF B
<1>6. Len(B) \in Nat /\ DOMAIN nodes = 1..Len(nodes)
  BY <1>1, <1>2
<1>7. ASSUME NEW i \in 1..Len(B), NEW j \in 1..Len(B), B[i].id = B[j].id PROVE i = j
  <2>1. m[i] = m[j]
    BY <1>2, <1>5, <1>6, <1>7
  <2>2. m[i] \in Nat /\ m[j] \in Nat
    BY <1>5
  <2>3. ~(i < j) /\ ~(j < i)
    BY <1>5, <2>1, <2>2
  <2> QED BY <1>6, <2>3
<1>8. seeds \in Seq(Ids) /\ Len(seeds) = Len(B)
  <2>1. \A j \in 1..Len(B) : B[j] \in Nodes
    BY <1>1
  <2>2. \A j \in 1..Len(B) : B[j].id \in Ids
    BY <2>1 DEF Nodes
  <2>3. seeds \in [1..Len(B) -> Ids]
    BY <1>1, <2>2
  <2> QED BY <1>6, <2>3
<1>9. \A i, j \in 1..Len(seeds) : seeds[i] = seeds[j] => i = j
  BY <1>1, <1>7, <1>8
<1> QED BY <1>1, <1>8, <1>9 DEF SeedsFine, seeds

\* The search keeps the first seeds, as many as it may.
LEMMA FirstKept ==
  ASSUME NEW now, NEW g \in Graphs(now), NEW depth, NEW limit \in Nat
  PROVE  Kept(g, depth, limit) = {Seeds(g)[j] : j \in 1..Smaller(Len(Seeds(g)), limit)}
<1> DEFINE seeds == Seeds(g)
           K == Smaller(Len(seeds), limit)
           V == {Visited(seeds, k) : k \in 0..K}
           E == Nodes
           G == SearchFcn(g, depth, limit, V, E)
           b == Visited(seeds, 0)
           r == g.nodes
<1>1. r \in Seq(E)
  BY DEF Graphs
<1>2. SeedsFine(g, seeds)
  BY SeedsDistinct
<1>3. Len(seeds) \in Nat /\ Len(r) \in Nat /\ Len(seeds) <= Len(r)
  <2>1. SeedNodes(r) \in Seq(Nodes) /\ Len(SeedNodes(r)) <= Len(r) /\ seeds = [j \in 1..Len(SeedNodes(r)) |-> SeedNodes(r)[j].id]
    BY SeedsAre
  <2>2. seeds \in Seq(Ids)
    BY <1>2 DEF SeedsFine
  <2>3. Len(SeedNodes(r)) \in Nat
    BY <2>1
  <2> DEFINE m == Len(SeedNodes(r))
  <2> HIDE DEF m, seeds
  <2>4. DOMAIN seeds = 1..m /\ DOMAIN seeds = 1..Len(seeds) /\ Len(seeds) \in Nat
    BY <2>1, <2>2 DEF m
  <2>5. Len(seeds) = m
    BY <2>3, <2>4 DEF m
  <2> QED BY <1>1, <2>1, <2>4, <2>5 DEF m
<1>4. K \in Nat /\ K <= Len(seeds) /\ K <= limit /\ \A k \in 0..K : k < Len(seeds) /\ k < limit <=> k < K
  BY <1>3 DEF Smaller
<1> HIDE DEF seeds, K, E, r
<1>5. ASSUME NEW k \in 0..K
      PROVE  SearchLoop(g, depth, limit, Visited(seeds, k)) = Visited(seeds, IF k < K THEN k + 1 ELSE k)
  <2>1. k \in Nat /\ k <= Len(seeds) /\ k <= limit
    BY <1>3, <1>4
  <2>2. SearchLoop(g, depth, limit, Visited(seeds, k)) =
          Visited(seeds, IF k < Len(seeds) /\ k < limit THEN k + 1 ELSE k)
    BY <1>2, <2>1, SeedVisited
  <2> QED BY <1>4, <2>2
<1>6. \A k \in 0..K : Visited(seeds, k) \in V
  OBVIOUS
<1>7. \A k \in 0..K, x \in E : G[Visited(seeds, k)][x] = Visited(seeds, IF k < K THEN k + 1 ELSE k)
  BY <1>5, <1>6 DEF SearchFcn
<1>8. \A v \in V : \E k \in 0..K : v = Visited(seeds, k)
  OBVIOUS
<1> HIDE DEF V, G
<1>9. \A k \in 0..K : (IF k < K THEN k + 1 ELSE k) \in 0..K
  BY <1>4
<1>10. Closed(G, V, E)
  BY <1>6, <1>7, <1>8, <1>9 DEF Closed
<1>11. b \in V
  BY <1>4, <1>6
<1> HIDE DEF b
<1>12. ASSUME NEW s \in Seq(E)
       PROVE  Folding(V, E, G, b, s) /\ Search(g, depth, limit, b, s) = Folded(G, b, s)
  <2>1. Closed(SearchFcn(g, depth, limit, V, E), V, E)
    BY <1>10 DEF G
  <2>2. /\ Folding(V, E, SearchFcn(g, depth, limit, V, E), b, s)
        /\ Search(g, depth, limit, b, s) = Folded(SearchFcn(g, depth, limit, V, E), b, s)
    BY <1>11, <2>1, SearchFold
  <2> QED BY <2>2 DEF G
<1> DEFINE P == {s \in Seq(E) : Folded(G, b, s) = Visited(seeds, Smaller(Len(s), K))}
<1>13. <<>> \in P
  <2>1. Folded(G, b, <<>>) = b /\ <<>> \in Seq(E) /\ Len(<<>>) = 0
    BY FoldedEmpty
  <2>2. Smaller(0, K) = 0
    BY <1>4 DEF Smaller
  <2> QED BY <2>1, <2>2 DEF b
<1>14. ASSUME NEW s \in Seq(E), NEW x \in E, s \in P PROVE Append(s, x) \in P
  <2> DEFINE k == Smaller(Len(s), K)
             u == Append(s, x)
  <2>1. u \in Seq(E) /\ Len(u) = Len(s) + 1 /\ Len(s) \in Nat
    OBVIOUS
  <2>2. k \in 0..K /\ Smaller(Len(s) + 1, K) = IF k < K THEN k + 1 ELSE k
    BY <1>4, <2>1 DEF Smaller
  <2>3. Folded(G, b, s) = Visited(seeds, k)
    BY <1>14
  <2> HIDE DEF k
  <2>4. Folding(V, E, G, b, s)
    BY <1>12
  <2>5. Folded(G, b, u) = G[Folded(G, b, s)][x]
    BY <2>4, FoldedAppend
  <2> HIDE DEF u
  <2>6. Folded(G, b, u) = Visited(seeds, Smaller(Len(u), K))
    BY <1>7, <2>1, <2>2, <2>3, <2>5
  <2> QED BY <2>1, <2>6 DEF u
<1>15. Folded(G, b, r) = Visited(seeds, Smaller(Len(r), K))
  <2> HIDE DEF P
  <2>1. Seq(E) \subseteq P
    BY <1>13, <1>14, SeqInduct
  <2> QED BY <1>1, <2>1 DEF P
<1>16. Smaller(Len(r), K) = K
  BY <1>3, <1>4 DEF Smaller
<1>17. Search(g, depth, limit, b, r) = Visited(seeds, K)
  BY <1>1, <1>12, <1>15, <1>16
<1>18. Kept(g, depth, limit) = Search(g, depth, limit, b, r).kept
  <2>1. b = [kept |-> {}, seen |-> ToSet(seeds), queue |-> Each(seeds, LAMBDA id : [id |-> id, distance |-> 0])]
    <3>1. Len(seeds) - 0 = Len(seeds) /\ \A j \in 1..Len(seeds) : 0 + j = j
      BY <1>3
    <3>2. DOMAIN seeds = 1..Len(seeds)
      BY <1>2 DEF SeedsFine
    <3>3. {seeds[j] : j \in 1..0} = {}
      OBVIOUS
    <3> DEFINE q == [j \in 1..(Len(seeds) - 0) |-> [id |-> seeds[0 + j], distance |-> 0]]
               q0 == Each(seeds, LAMBDA id : [id |-> id, distance |-> 0])
    <3>4. q0 = [j \in 1..Len(seeds) |-> [id |-> seeds[j], distance |-> 0]]
      BY <3>2 DEF Each
    <3>5. q = [j \in 1..Len(seeds) |-> [id |-> seeds[j], distance |-> 0]]
      BY <3>1
    <3>6. b = [kept |-> {seeds[j] : j \in 1..0}, seen |-> ToSet(seeds), queue |-> q]
      BY DEF b, Visited
    <3> HIDE DEF q, q0
    <3>7. b = [kept |-> {}, seen |-> ToSet(seeds), queue |-> q0]
      BY <3>3, <3>4, <3>5, <3>6
    <3> QED BY <3>7 DEF q0
  <2> QED BY <2>1 DEF Kept, Search, SearchLoop, seeds, r
<1>19. Visited(seeds, K).kept = {seeds[j] : j \in 1..K}
  BY DEF Visited
<1> QED BY <1>17, <1>18, <1>19 DEF K, seeds

\* The parts of an answer.
NodesIn(nodes, allowed) == Where(nodes, LAMBDA n : n.id \in allowed)
EdgesIn(edges, allowed) == Where(edges, LAMBDA e : {e.from, e.to} \subseteq allowed)
IdsIn(nodes) == Each(nodes, LAMBDA n : n.id)
Current(g, now) == [g EXCEPT !.edges = Where(@, LAMBDA e : TRUE \/ e.expires > now)]
Answer(g, depth, limit) ==
  LET allowed == Kept(g, AtLeastOne(depth), AtLeastOne(limit))
  IN  [nodes |-> NodesIn(g.nodes, allowed), edges |-> EdgesIn(g.edges, allowed)]

\* The nodes of an answer: the first seeds.
LEMMA FirstNodes ==
  ASSUME NEW now, NEW g \in Graphs(now), NEW K \in Nat, K <= Len(Seeds(g)), NEW allowed,
         allowed = {Seeds(g)[j] : j \in 1..K}
  PROVE  /\ NodesIn(g.nodes, allowed) \in Seq(Nodes) /\ Len(NodesIn(g.nodes, allowed)) = K
         /\ \A j \in 1..K : NodesIn(g.nodes, allowed)[j].id = Seeds(g)[j]
<1> DEFINE nodes == g.nodes
           J == SeedPositions(nodes)
           B == SeedNodes(nodes)
           seeds == Seeds(g)
           I == {i \in DOMAIN nodes : nodes[i].id \in allowed}
           A == Keep(nodes, I)
<1>1. /\ B \in Seq(Nodes) /\ seeds = [j \in 1..Len(B) |-> B[j].id]
  BY SeedsAre
<1>2. nodes \in Seq(Nodes) /\ \A i, j \in DOMAIN nodes : nodes[i].id = nodes[j].id => i = j
  BY DEF Graphs, NodesFine
<1>3. /\ seeds \in Seq(Ids)
      /\ \A i, j \in 1..Len(seeds) : seeds[i] = seeds[j] => i = j
  BY SeedsDistinct DEF SeedsFine
<1>4. B = Keep(nodes, J) /\ J \subseteq DOMAIN nodes
  BY DEF SeedNodes, SeedPositions
<1>5. NodesIn(g.nodes, allowed) = A
  BY DEF NodesIn, Where
<1>6. \A i : i \in I <=> i \in DOMAIN nodes /\ nodes[i].id \in allowed
  OBVIOUS
<1> HIDE DEF nodes, J, seeds, I, A
<1>7. PICK m : Selects(m, nodes, J)
  BY <1>2, KeepMap
<1>8. /\ m \in [1..Len(B) -> 1..Len(nodes)]
      /\ \A j \in 1..Len(B) : m[j] \in J /\ B[j] = nodes[m[j]]
      /\ \A i, j \in 1..Len(B) : i < j => m[i] < m[j]
      /\ \A i \in 1..Len(nodes) : i \in J => \E j \in 1..Len(B) : m[j] = i
  BY <1>4, <1>7 DEF Selects
<1> HIDE DEF B
<1>9. Len(B) \in Nat /\ DOMAIN nodes = 1..Len(nodes) /\ Len(nodes) \in Nat
  BY <1>1, <1>2
<1>10. Len(seeds) = Len(B) /\ \A j \in 1..Len(B) : seeds[j] = B[j].id
  <2>1. DOMAIN seeds = 1..Len(B) /\ DOMAIN seeds = 1..Len(seeds) /\ Len(seeds) \in Nat
    BY <1>1, <1>3
  <2>2. Len(seeds) = Len(B)
    BY <1>9, <2>1
  <2> QED BY <1>1, <2>2
<1>11. \A x : x \in allowed <=> \E j \in 1..K : x = seeds[j]
  BY DEF seeds
<1>12. K <= Len(B) /\ \A j \in 1..K : j \in 1..Len(B) /\ j \in 1..Len(seeds)
  <2>1. K <= Len(seeds)
    BY DEF seeds
  <2> QED BY <1>9, <1>10, <2>1
<1>13. \A j \in 1..Len(B) : B[j].id \in allowed <=> j \in 1..K
  <2> TAKE j \in 1..Len(B)
  <2>1. ASSUME B[j].id \in allowed PROVE j \in 1..K
    <3>1. PICK i \in 1..K : seeds[j] = seeds[i]
      BY <1>10, <1>11, <2>1
    <3>2. j = i
      BY <1>3, <1>10, <1>12, <3>1
    <3> QED BY <3>2
  <2>2. ASSUME j \in 1..K PROVE B[j].id \in allowed
    BY <1>10, <1>11, <2>2
  <2> QED BY <2>1, <2>2
<1>14. \A i \in I : \E j \in 1..K : m[j] = i
  <2> TAKE i \in I
  <2>1. PICK j \in 1..K : nodes[i].id = seeds[j]
    BY <1>6, <1>11
  <2>2. j \in 1..Len(B) /\ seeds[j] = nodes[m[j]].id /\ m[j] \in DOMAIN nodes
    BY <1>8, <1>9, <1>10, <1>12
  <2>3. m[j] = i
    BY <1>2, <1>6, <2>1, <2>2
  <2> QED BY <2>3
<1>15. \A j \in 1..K : m[j] \in I
  BY <1>6, <1>8, <1>9, <1>12, <1>13
<1>16. Leads(I, J)
  <2>1. I \subseteq J
    BY <1>8, <1>12, <1>14
  <2>2. J \subseteq Nat
    BY <1>4, <1>9
  <2>3. ASSUME NEW i \in J, NEW k \in I, i <= k PROVE i \in I
    <3>1. PICK b \in 1..K : m[b] = k
      BY <1>14
    <3>2. PICK a \in 1..Len(B) : m[a] = i
      BY <1>4, <1>8, <1>9
    <3>3. ~(b < a)
      <4>1. b \in 1..Len(B) /\ m[a] \in Nat /\ m[b] \in Nat
        <5>1. b \in 1..Len(B)
          BY <1>12
        <5>2. \A j \in 1..Len(B) : m[j] \in Nat
          BY <1>8
        <5> QED BY <5>1, <5>2
      <4>2. ~(m[b] < m[a])
        BY <2>3, <3>1, <3>2, <4>1
      <4> QED BY <1>8, <4>1, <4>2
    <3>4. a \in 1..K
      BY <1>9, <3>3
    <3> QED BY <1>15, <3>2, <3>4
  <2> QED BY <2>1, <2>2, <2>3 DEF Leads
<1>17. A \in Seq(Nodes) /\ Begins(A, B)
  BY <1>2, <1>4, <1>16, KeepType, KeepBegins DEF A
<1>18. Len(A) \in Nat /\ Len(A) <= Len(B) /\ \A j \in 1..Len(A) : A[j] = B[j]
  BY <1>17 DEF Begins
<1>19. \A x : x \in ToSet(A) <=> \E i \in DOMAIN nodes : i \in I /\ nodes[i] = x
  BY <1>2, KeepElements DEF A
<1>20. ASSUME NEW j \in 1..Len(A) PROVE j \in 1..K
  <2>1. A[j] \in ToSet(A)
    BY <1>17 DEF ToSet
  <2>2. A[j].id \in allowed
    BY <1>6, <1>19, <2>1
  <2>3. j \in 1..Len(B) /\ A[j] = B[j]
    BY <1>9, <1>18
  <2> QED BY <1>13, <2>2, <2>3
<1>21. ASSUME NEW j \in 1..K PROVE j \in 1..Len(A)
  <2>1. m[j] \in I /\ B[j] = nodes[m[j]] /\ j \in 1..Len(B) /\ m[j] \in DOMAIN nodes
    BY <1>8, <1>9, <1>12, <1>15
  <2>2. B[j] \in ToSet(A)
    BY <1>19, <2>1
  <2>3. PICK i \in 1..Len(A) : B[j] = A[i]
    BY <1>17, <2>2 DEF ToSet
  <2>4. i \in 1..Len(B) /\ B[i] = B[j]
    BY <1>9, <1>18, <2>3
  <2>5. i = j
    BY <1>3, <1>10, <2>1, <2>4
  <2> QED BY <2>5
<1>22. Len(A) = K
  BY <1>18, <1>20, <1>21
<1> QED BY <1>5, <1>10, <1>12, <1>17, <1>18, <1>22 DEF seeds

\* The answer for one thread, one depth and one limit.
Answered(g, depth, limit, now) ==
  LET seeds == Seeds(g)
      q == QueryTopology(g, depth, limit, TRUE, now)
      first == SubSeq(seeds, 1, IF Len(seeds) < limit THEN Len(seeds) ELSE limit)
  IN  IdsIn(q.nodes) = first /\ q.edges = EdgesIn(g.edges, ToSet(first))

\* It is the first of what was seen.
LEMMA FirstAnswered ==
  ASSUME NEW now \in Nat, NEW g \in Graphs(now), NEW depth, NEW limit \in Nat, limit # 0
  PROVE  Answered(g, depth, limit, now)
<1> DEFINE seeds == Seeds(g)
           K == Smaller(Len(seeds), limit)
           first == SubSeq(seeds, 1, K)
           allowed == Kept(g, AtLeastOne(depth), limit)
           q == QueryTopology(g, depth, limit, TRUE, now)
           A == NodesIn(g.nodes, allowed)
<1>1. g \in [nodes : Seq(Nodes), edges : Seq(Edges(now))]
  BY DEF Graphs
<1>2. Current(g, now) = g
  <2> DEFINE I == {i \in DOMAIN g.edges : TRUE \/ g.edges[i].expires > now}
  <2>1. Where(g.edges, LAMBDA e : TRUE \/ e.expires > now) = Keep(g.edges, I)
    BY DEF Where
  <2>2. g.edges \in Seq(Edges(now))
    BY <1>1
  <2>4. 1..Len(g.edges) \subseteq I
    BY <2>2
  <2> HIDE DEF I
  <2>5. Keep(g.edges, I) = g.edges
    BY <2>2, <2>4, KeepAll
  <2>6. Current(g, now) = [g EXCEPT !.edges = g.edges]
    BY <2>1, <2>5 DEF Current
  <2> QED BY <1>1, <2>6
<1>3. AtLeastOne(limit) = limit
  BY DEF AtLeastOne
<1>4. q = [nodes |-> A, edges |-> EdgesIn(g.edges, allowed)]
  <2>1. q = Answer(Current(g, now), depth, limit)
    BY DEF QueryTopology, Answer, Current, NodesIn, EdgesIn
  <2>2. q = Answer(g, depth, limit)
    BY <1>2, <2>1
  <2> QED BY <1>3, <2>2 DEF Answer
<1>5. allowed = {seeds[j] : j \in 1..K}
  BY FirstKept
<1>6. seeds \in Seq(Ids) /\ Len(seeds) \in Nat
  BY SeedsDistinct DEF SeedsFine
<1>7. K \in Nat /\ K <= Len(seeds)
  BY <1>6 DEF Smaller
<1> HIDE DEF seeds, K, q
<1>8. first \in Seq(Ids) /\ Len(first) = K /\ \A j \in 1..K : first[j] = seeds[j]
  BY <1>6, <1>7, SubSeqProperties
<1> HIDE DEF first
<1>9. ToSet(first) = allowed
  BY <1>5, <1>8 DEF ToSet
<1> HIDE DEF allowed
<1>10. A \in Seq(Nodes) /\ Len(A) = K /\ \A j \in 1..K : A[j].id = seeds[j]
  <2>1. K <= Len(Seeds(g)) /\ allowed = {Seeds(g)[j] : j \in 1..K}
    BY <1>5, <1>7 DEF seeds
  <2> QED BY <1>7, <2>1, FirstNodes DEF seeds
<1> HIDE DEF A
<1>11. IdsIn(A) = first
  <2> DEFINE ids == [j \in DOMAIN A |-> A[j].id]
  <2>1. IdsIn(A) = ids
    BY DEF IdsIn, Each
  <2>2. DOMAIN A = 1..K /\ DOMAIN first = 1..K /\ first = [j \in DOMAIN first |-> first[j]]
    BY <1>8, <1>10
  <2>3. ids = first
    BY <1>8, <1>10, <2>2
  <2> QED BY <2>1, <2>3
<1>12. q.nodes = A /\ q.edges = EdgesIn(g.edges, ToSet(first))
  BY <1>4, <1>9
<1>13. first = SubSeq(seeds, 1, IF Len(seeds) < limit THEN Len(seeds) ELSE limit)
  BY DEF first, K, Smaller
<1> QED BY <1>11, <1>12, <1>13 DEF Answered, q, seeds

\* For any number of threads and results: whatever shows a relation is evidence
\* for both its ends, so that the search of query_topology never finds a node it
\* did not start from, and an answer that may have stale edges has the nodes with
\* evidence that were seen first with all edges between them.
THEOREM AnswersAreFirstSeen == Spec => []QueryIsFirstSeen
<1>1. Inv => QueryIsFirstSeen
  <2> SUFFICES ASSUME Inv, NEW t \in Threads, NEW limit \in 1..3
               PROVE  Answered(ProjectTopology(log[t], clock), DefaultDepth, limit, clock)
    BY DEF QueryIsFirstSeen, Answered, IdsIn, EdgesIn
  <2>1. log[t] \in Seq(Entries) /\ clock \in Nat /\ limit \in Nat /\ limit # 0
    BY DEF Inv, TypeInv
  <2>2. ProjectTopology(log[t], clock) \in Graphs(clock)
    BY <2>1, TopologyIs
  <2> QED BY <2>1, <2>2, FirstAnswered
<1> QED BY <1>1, InvInit, StepKeeps, PTL DEF Spec
=============================================================================
