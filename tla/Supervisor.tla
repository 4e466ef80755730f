------------------------------ MODULE Supervisor ------------------------------
(***************************************************************************)
(* A custom tool (extensions/custom.rs) and its supervisor                 *)
(* (extensions/supervisor.rs): a child process per attempt, fed through    *)
(* stdin, raced against the call's cancellation and the tool's timeout,    *)
(* and started again after a failure. The runtime may drop the whole call  *)
(* at any await; what the child does in the meantime is external.          *)
(***************************************************************************)
EXTENDS Naturals

CONSTANTS Jobs,      \* calls of the custom tool
          Restarts   \* max_restarts of its configuration

ASSUME SupervisorAssumption == Restarts \in Nat

VARIABLES job,       \* [at, attempts, child, result] of every call
          cancelled, \* the call's cancellation token
          replaced,  \* the executable is no longer the one that was hashed
          acts       \* history: children of the call that acted: none, one, more

runVars == <<job, cancelled, replaced, acts>>

\* ChildSupervisor::new.
MaxRestarts == IF Restarts < 5 THEN Restarts ELSE 5

RunTypeOK ==
    /\ job \in [Jobs -> [at : {"idle", "launch", "stdin", "wait", "drain", "ended"},
                         attempts : 0..MaxRestarts,
                         child : {"none", "running", "acted", "exited", "killed"},
                         result : {"none", "ok", "cancelled", "timeout", "tool", "policy",
                                   "protocol", "dropped"}]]
    /\ cancelled \in [Jobs -> BOOLEAN] /\ replaced \in BOOLEAN
    /\ acts \in [Jobs -> 0..2]

RunInit ==
    /\ job = [j \in Jobs |-> [at |-> "idle", attempts |-> 0, child |-> "none", result |-> "none"]]
    /\ cancelled = [j \in Jobs |-> FALSE] /\ replaced = FALSE
    /\ acts = [j \in Jobs |-> 0]

Alive(j) == job[j].child \in {"running", "acted"}
JobActive(j) == job[j].at \notin {"idle", "ended"}
\* kill and kill_on_drop: a child that is gone already is left alone.
Killed(j) == IF Alive(j) THEN "killed" ELSE job[j].child

Step(j, at, child) ==
    /\ job' = [job EXCEPT ![j].at = at, ![j].child = child]
    /\ UNCHANGED <<cancelled, replaced, acts>>
End(j, result, child) ==
    /\ job' = [job EXCEPT ![j].at = "ended", ![j].child = child, ![j].result = result]
    /\ UNCHANGED <<cancelled, replaced, acts>>

\* run_once after a failed attempt; all of Timeout and Tool is retryable.
Again(j, child, attempts) ==
    /\ job' = [job EXCEPT ![j].at = "launch", ![j].child = child, ![j].attempts = attempts]
    /\ UNCHANGED <<cancelled, replaced, acts>>
\* Faulty forms of the next: one attempt more than allowed; attempts not counted.
FailedOnceMore(j, result, child) ==
    IF job[j].attempts <= MaxRestarts /\ ~cancelled[j] THEN Again(j, child, job[j].attempts + 1)
    ELSE End(j, result, child)
FailedUncounted(j, result, child) ==
    IF job[j].attempts < MaxRestarts /\ ~cancelled[j] THEN Again(j, child, job[j].attempts)
    ELSE End(j, result, child)
Failed(j, result, child) ==
    IF job[j].attempts < MaxRestarts /\ ~cancelled[j] THEN Again(j, child, job[j].attempts + 1)
    ELSE End(j, result, child)

-----------------------------------------------------------------------------
(* The call. *)

\* ToolRegistry::execute refuses a cancelled call, CustomJsonTool::execute an
\* executable with another hash (or none).
Execute(j) ==
    /\ job[j].at = "idle"
    /\ \/ cancelled[j] /\ End(j, "cancelled", "none")
       \/ ~cancelled[j] /\ replaced /\ End(j, "policy", "none")
       \/ ~cancelled[j] /\ ~replaced /\ Step(j, "launch", "none")

\* invoke: the process starts, or not.
Launch(j) ==
    /\ job[j].at = "launch"
    /\ Step(j, "stdin", "running") \/ Failed(j, "tool", "none")

\* The arguments are written once the child has read what the pipe does not hold: no
\* time limit and no cancellation ends this wait. A child that closed its end fails
\* the attempt.
WriteStdin(j) ==
    /\ job[j].at = "stdin"
    /\ Step(j, "wait", job[j].child) \/ Failed(j, "tool", Killed(j))

\* The select, biased to the cancellation.
WaitCancelled(j) ==
    /\ job[j].at = "wait" /\ cancelled[j]
    /\ End(j, "cancelled", Killed(j))

\* Faulty form of the next: the child is not killed.
WaitTimedOutLeaving(j) ==
    /\ job[j].at = "wait" /\ ~cancelled[j]
    /\ Failed(j, "timeout", job[j].child)
WaitTimedOut(j) ==
    /\ job[j].at = "wait" /\ ~cancelled[j]
    /\ Failed(j, "timeout", Killed(j))

WaitExited(j) ==
    /\ job[j].at = "wait" /\ ~cancelled[j] /\ job[j].child = "exited"
    /\ Step(j, "drain", "exited")

\* The output, up to its end: whoever inherited the pipes from the child can keep them
\* open, and nothing limits this wait either. The exit status first; then, outside run_once, JSON that parses
\* (output that was cut at its limit does not) and has the declared type.
Drain(j) ==
    /\ job[j].at = "drain"
    /\ Failed(j, "tool", "exited") \/ \E result \in {"ok", "protocol"} : End(j, result, "exited")

\* execute_tool: the turn is cancelled, or the runtime's tool_timeout is over;
\* the call is dropped where it is and the child with it.
DropJob(j) ==
    /\ JobActive(j)
    /\ End(j, "dropped", Killed(j))

CancelJob(j) ==
    /\ ~cancelled[j]
    /\ cancelled' = [cancelled EXCEPT ![j] = TRUE]
    /\ UNCHANGED <<job, replaced, acts>>

\* The supervisor's own steps, and those that wait for the pipes of a child.
JobStep(j) == Launch(j) \/ WaitCancelled(j) \/ WaitTimedOut(j) \/ WaitExited(j)
AwaitPipes(j) == WriteStdin(j) \/ Drain(j)

-----------------------------------------------------------------------------
(* The child and its executable, external. *)

ChildActs(j) ==
    /\ job[j].child = "running"
    /\ job' = [job EXCEPT ![j].child = "acted"]
    /\ acts' = [acts EXCEPT ![j] = IF @ = 2 THEN 2 ELSE @ + 1]
    /\ UNCHANGED <<cancelled, replaced>>

ChildExits(j) ==
    /\ Alive(j)
    /\ job' = [job EXCEPT ![j].child = "exited"]
    /\ UNCHANGED <<cancelled, replaced, acts>>

ReplaceBinary ==
    /\ ~replaced
    /\ replaced' = TRUE
    /\ UNCHANGED <<job, cancelled, acts>>

-----------------------------------------------------------------------------
(* Properties. *)

\* No child outlives its attempt, whichever way the attempt ends: an error, a
\* timeout, a cancellation, the call dropped by the runtime. So a call never has
\* two children at work (start_kill, kill_on_drop).
NoChildLeftBehind == \A j \in Jobs : Alive(j) => job[j].at \in {"stdin", "wait"}
=============================================================================
