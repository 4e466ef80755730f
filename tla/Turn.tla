-------------------------------- MODULE Turn --------------------------------
(***************************************************************************)
(* One turn of a thread: the agent loop, tool approval, checkpoints, and   *)
(* what recovery and resume make of a turn that was interrupted            *)
(* (src/runtime/agent.rs, src/runtime/recovery.rs, src/policy/mod.rs, the  *)
(* turns, checkpoints, approvals and leases tables of src/store/sqlite.rs, *)
(* and the turn routes of src/server).                                     *)
(*                                                                         *)
(* The runner is the task the server spawns for a turn or for a resume of  *)
(* it; ActiveTurns admits one per thread.  Operators are the handlers of   *)
(* POST /approvals/{id}.  Between any two store calls the other side may   *)
(* run or the process may die.  Of the thread's events the model keeps the *)
(* ones that decide something: tool results and the end of the turn.  The  *)
(* others (deltas, proposals, authorizations) are written with the step    *)
(* they belong to.                                                         *)
(***************************************************************************)
EXTENDS Integers, FiniteSets, Sequences

CONSTANTS
  Calls,       \* tool calls the model may make; an approval has the id of its call
  NoCall,
  Tool,        \* the descriptor of the tool each call names
  RequestHash, \* approval_request_hash of each call: tool, arguments, schema
  Operators,   \* approval handlers in progress at once
  ResumeKeys,  \* Idempotency-Key values clients use; bounds the resumes
  MaxSteps,    \* config.runtime.max_steps
  TurnSlots,   \* config.runtime.max_concurrent_turns
  MaxBatch,    \* bound: tool calls in one model response
  MaxCrashes   \* bound: process deaths

Effects == {"observe", "change_reversible", "change_irreversible", "external_side_effect"}
Recoveries == {"unset", "none_needed", "idempotent", "needs_reconciliation"}

Descriptors ==
  [enabled : BOOLEAN, effect : Effects, recovery : Recoveries,
   builtinExec : BOOLEAN, trustedLocal : BOOLEAN]

ASSUME TurnAssumption ==
  /\ NoCall \notin Calls
  /\ Tool \in [Calls -> Descriptors]
  /\ DOMAIN RequestHash = Calls
  /\ MaxSteps \in Nat \ {0}
  /\ TurnSlots \in Nat \ {0}
  /\ MaxBatch \in Nat \ {0}
  /\ MaxCrashes \in Nat

\* PolicyEngine::evaluate_capability.
EvaluateCapability(d) ==
  CASE ~d.enabled -> "deny"
    [] d.enabled /\ d.effect = "observe" -> "allow"
    [] d.enabled /\ d.effect = "external_side_effect" ->
         IF d.builtinExec \/ d.trustedLocal THEN "ask" ELSE "deny"
    [] OTHER -> "deny"

\* tool_is_retryable.
ToolIsRetryable(d) ==
  /\ d.recovery # "needs_reconciliation"
  /\ d.recovery = "idempotent" \/ d.effect = "observe"

Asks(c) == EvaluateCapability(Tool[c]) = "ask"
Retryable(c) == ToolIsRetryable(Tool[c])

VARIABLES
  phase,       \* of the process: "up" or "down"
  active,      \* the thread's entry in ActiveTurns
  cancelled,   \* the turn's cancellation token
  others,      \* the permits of turn_slots that turns of other threads hold
  pc, mode,    \* where the runner is; "fresh" for run_turn, "resume" for resume_turn
  cur,         \* the tool call it works on
  waitFor,     \* the approval it waits for or acts on
  queue,       \* tool calls of the response it has still to make
  steps,       \* model steps it has still to make
  verdict,     \* the decision it received
  result,      \* how run_turn_inner ended
  row,         \* turns.status
  lease,       \* the turn's row in leases: "none", "live" or "expired"
  checkpoint,  \* the turn's last checkpoint
  approvals,   \* approvals.status of each call's approval
  asked,       \* the order the approvals were inserted in
  late,        \* the approvals whose expires_at has passed
  resumeOps,   \* the idempotency keys in resume_ops
  mailbox,     \* ApprovalBroker: the entry and the one-shot channel of each approval
  completed,   \* per call: how many ToolCompleted events the thread holds
  terminals,   \* how many TurnCompleted, TurnFailed and TurnCancelled events it holds
  op,          \* what each operator's handler is about to do
  proposed,    \* history: calls the model has made
  started,     \* history: how often each call's tool was started
  consented,   \* history: calls whose approval an operator granted
  crashes

runnerVars   == <<pc, mode, cur, waitFor, queue, steps, verdict, result>>
turnVars     == <<row, lease, checkpoint, resumeOps>>
approvalVars == <<approvals, asked, late>>
eventVars    == <<completed, terminals>>
historyVars  == <<proposed, started, consented>>
processVars  == <<phase, active, cancelled, others>>

vars == <<runnerVars, turnVars, approvalVars, eventVars, historyVars, processVars,
          mailbox, op, crashes>>

Checkpoints ==
  [phase : {"none", "queued", "model_running", "waiting_approval", "tool_running",
            "tool_completed", "completed"},
   call : Calls \cup {NoCall}]

Locations ==
  {"idle", "admit", "start", "queued", "model", "complete", "tool", "ask_checkpoint",
   "wait", "settle", "run_checkpoint", "run", "running", "result", "result_checkpoint",
   "done_checkpoint", "done", "readmit", "reapprove", "reexpire", "restore", "rewait",
   "resettle", "close", "release", "announce"}

TypeOK ==
  /\ phase \in {"up", "down"}
  /\ active \in BOOLEAN /\ cancelled \in BOOLEAN /\ verdict \in BOOLEAN
  /\ others \in 0..TurnSlots
  /\ pc \in Locations
  /\ mode \in {"fresh", "resume"}
  /\ cur \in Calls \cup {NoCall} /\ waitFor \in Calls \cup {NoCall}
  /\ queue \in Seq(Calls)
  /\ steps \in 0..MaxSteps
  /\ result \in {"ok", "cancelled", "failed"}
  /\ row \in {"none", "running", "waiting_approval", "interrupted", "needs_reconciliation",
              "completed", "failed", "cancelled"}
  /\ lease \in {"none", "live", "expired"}
  /\ checkpoint \in Checkpoints
  /\ approvals \in [Calls -> {"none", "pending", "approved", "rejected", "expired"}]
  /\ asked \in Seq(Calls)
  /\ late \subseteq Calls
  /\ resumeOps \subseteq ResumeKeys
  /\ mailbox \in [Calls -> {"absent", "waiting", "yes", "no", "dead"}]
  /\ completed \in [Calls -> Nat]
  /\ terminals \in Nat
  /\ op \in [Operators -> [at : {"idle", "put", "notify"}, call : Calls \cup {NoCall},
                           to : {"approved", "rejected", "expired"}]]
  /\ proposed \subseteq Calls
  /\ started \in [Calls -> Nat]
  /\ consented \subseteq Calls
  /\ crashes \in Nat

-----------------------------------------------------------------------------
(* recovery.rs *)

\* Faulty form: the thread's results are not looked at.
ResumePolicyForgetsResults ==
  CASE checkpoint.phase = "completed" -> "none"
    [] checkpoint.phase = "waiting_approval" -> "wait_approval"
    [] checkpoint.phase = "tool_completed" -> "skip_completed_tool"
    [] checkpoint.phase = "tool_running" ->
         IF Retryable(checkpoint.call) THEN "retry_observe" ELSE "reconcile"
    [] OTHER -> "replay_model"

\* classify_checkpoint and classify_tool_running: the resume policy.
ResumePolicy ==
  LET c == checkpoint.call
  IN  CASE checkpoint.phase = "completed" -> "none"
        [] checkpoint.phase = "waiting_approval" -> "wait_approval"
        [] checkpoint.phase = "tool_completed" -> "skip_completed_tool"
        [] checkpoint.phase = "tool_running" ->
             IF c = NoCall THEN "replay_model"
             ELSE IF completed[c] > 0 THEN "skip_completed_tool"
             ELSE IF Retryable(c) THEN "retry_observe"
             ELSE "reconcile"
        [] OTHER -> "replay_model"

\* The status the same classification gives the turn.
RecoveredStatus ==
  CASE checkpoint.phase = "none" -> "interrupted"
    [] ResumePolicy = "none" -> "completed"
    [] ResumePolicy = "reconcile" -> "needs_reconciliation"
    [] ResumePolicy = "wait_approval" -> "waiting_approval"
    [] OTHER -> "interrupted"

\* approval_for_turn: pending before approved before rejected before expired, and
\* the earlier of two that tie (the sort is stable).
StatusOrder == [pending |-> 0, approved |-> 1, rejected |-> 2, expired |-> 3]

ApprovalForTurn ==
  LET Before(i, j) ==
        \/ StatusOrder[approvals[asked[i]]] < StatusOrder[approvals[asked[j]]]
        \/ StatusOrder[approvals[asked[i]]] = StatusOrder[approvals[asked[j]]] /\ i <= j
  IN  asked[CHOOSE i \in DOMAIN asked : \A j \in DOMAIN asked : Before(i, j)]

-----------------------------------------------------------------------------
(* The runner. *)

Goto(l) == pc' = l

\* Leaves run_turn_inner with a result: run_turn records it, resume_turn does not.
Finish(r) == /\ result' = r
             /\ Goto(IF mode = "fresh" THEN "close" ELSE "release")

\* write_checkpoint: the lease is refreshed, then the checkpoint inserted.
WriteCheckpoint(p, c) ==
  /\ checkpoint' = [phase |-> p, call |-> c]
  /\ lease' = "live"

\* The runner stops listening on an approval's channel.
Deafen(c) ==
  mailbox' = [mailbox EXCEPT ![c] = IF @ = "waiting" THEN "dead" ELSE "absent"]

\* POST /threads/{id}/turns: the server takes the thread's slot and spawns run_turn.
CreateTurn ==
  /\ phase = "up" /\ ~active /\ row = "none" /\ lease = "none" /\ terminals = 0
  /\ active' = TRUE /\ cancelled' = FALSE
  /\ Goto("admit") /\ mode' = "fresh" /\ steps' = MaxSteps
  /\ UNCHANGED <<cur, waitFor, queue, verdict, result, turnVars, approvalVars, eventVars,
                 historyVars, phase, others, mailbox, op, crashes>>

\* A permit of turn_slots is free.
SlotFree == others < TurnSlots

\* The turn gets a permit, enters the thread and takes the turn's lease.
Admit ==
  /\ pc = "admit" /\ SlotFree
  /\ lease' = "live"
  /\ Goto("start")
  /\ UNCHANGED <<mode, cur, waitFor, queue, steps, verdict, result, row, checkpoint,
                 resumeOps, approvalVars, eventVars, historyVars, processVars, mailbox, op,
                 crashes>>

\* Cancelled while waiting for a permit: there is no turn record yet.
CancelledBeforeAdmission ==
  /\ pc = "admit" /\ cancelled
  /\ result' = "cancelled"
  /\ Goto("announce")
  /\ UNCHANGED <<mode, cur, waitFor, queue, steps, verdict, turnVars, approvalVars,
                 eventVars, historyVars, processVars, mailbox, op, crashes>>

\* upsert_turn, then the user message and TurnStarted.
StartTurn ==
  /\ pc = "start"
  /\ row' = "running"
  /\ Goto("queued")
  /\ UNCHANGED <<mode, cur, waitFor, queue, steps, verdict, result, lease, checkpoint,
                 resumeOps, approvalVars, eventVars, historyVars, processVars, mailbox, op,
                 crashes>>

CheckpointQueued ==
  /\ pc = "queued"
  /\ WriteCheckpoint("queued", NoCall)
  /\ Goto("model")
  /\ UNCHANGED <<mode, cur, waitFor, queue, steps, verdict, result, row, resumeOps,
                 approvalVars, eventVars, historyVars, processVars, mailbox, op, crashes>>

\* Faulty form: one step too many.
BeginStepTooMany ==
  /\ pc = "model"
  /\ steps' = steps - 1
  /\ WriteCheckpoint("model_running", NoCall)
  /\ Goto("complete")
  /\ UNCHANGED <<mode, cur, waitFor, queue, verdict, result, row, resumeOps, approvalVars,
                 eventVars, historyVars, processVars, mailbox, op, crashes>>

\* The head of the step loop.
BeginStep ==
  /\ pc = "model" /\ steps > 0
  /\ steps' = steps - 1
  /\ WriteCheckpoint("model_running", NoCall)
  /\ Goto("complete")
  /\ UNCHANGED <<mode, cur, waitFor, queue, verdict, result, row, resumeOps, approvalVars,
                 eventVars, historyVars, processVars, mailbox, op, crashes>>

MaxStepsExceeded ==
  /\ pc = "model" /\ steps = 0
  /\ Finish("failed")
  /\ UNCHANGED <<mode, cur, waitFor, queue, steps, verdict, turnVars, approvalVars,
                 eventVars, historyVars, processVars, mailbox, op, crashes>>

\* The model answers with tool calls it has not made before.
ModelCallsTools ==
  /\ pc = "complete"
  /\ \E n \in 1..MaxBatch : \E calls \in [1..n -> Calls \ proposed] :
       /\ \A i, j \in 1..n : calls[i] = calls[j] => i = j
       /\ queue' = calls
       /\ proposed' = proposed \cup {calls[i] : i \in 1..n}
  /\ Goto("tool")
  /\ UNCHANGED <<mode, cur, waitFor, steps, verdict, result, turnVars, approvalVars,
                 eventVars, started, consented, processVars, mailbox, op, crashes>>

\* The model answers without a tool call.
ModelConcludes ==
  /\ pc = "complete"
  /\ Goto("done_checkpoint")
  /\ UNCHANGED <<mode, cur, waitFor, queue, steps, verdict, result, turnVars, approvalVars,
                 eventVars, historyVars, processVars, mailbox, op, crashes>>

\* The provider fails or times out, or the turn is cancelled meanwhile.
ModelFails ==
  /\ pc = "complete"
  /\ \/ Finish("failed")
     \/ cancelled /\ Finish("cancelled")
  /\ UNCHANGED <<mode, cur, waitFor, queue, steps, verdict, turnVars, approvalVars,
                 eventVars, historyVars, processVars, mailbox, op, crashes>>

\* execute_tool up to the policy's decision.  An approval to ask for is entered in the
\* broker and the store.
ProposeTool ==
  /\ pc = "tool"
  /\ LET c == Head(queue)
     IN  /\ cur' = c
         /\ queue' = Tail(queue)
         /\ \/ /\ EvaluateCapability(Tool[c]) = "deny"
               /\ Goto("result") /\ UNCHANGED <<waitFor, approvals, asked, mailbox>>
            \/ /\ EvaluateCapability(Tool[c]) = "allow"
               /\ Goto("run_checkpoint") /\ UNCHANGED <<waitFor, approvals, asked, mailbox>>
            \/ /\ EvaluateCapability(Tool[c]) = "ask"
               /\ Goto("ask_checkpoint")
               /\ waitFor' = c
               /\ approvals' = [approvals EXCEPT ![c] = "pending"]
               /\ asked' = Append(asked, c)
               /\ mailbox' = [mailbox EXCEPT ![c] = "waiting"]
  /\ UNCHANGED <<mode, steps, verdict, result, turnVars, late, eventVars, historyVars,
                 processVars, op, crashes>>

\* The waiting_approval checkpoint, then ApprovalRequired.
CheckpointWaiting ==
  /\ pc = "ask_checkpoint"
  /\ WriteCheckpoint("waiting_approval", cur)
  /\ Goto("wait")
  /\ UNCHANGED <<mode, cur, waitFor, queue, steps, verdict, result, row, resumeOps,
                 approvalVars, eventVars, historyVars, processVars, mailbox, op, crashes>>

\* The operator's decision arrives.
ReceiveDecision ==
  /\ pc = "wait"
  /\ mailbox[cur] \in {"yes", "no"}
  /\ verdict' = (mailbox[cur] = "yes")
  /\ mailbox' = [mailbox EXCEPT ![cur] = "absent"]
  /\ Goto("settle")
  /\ UNCHANGED <<mode, cur, waitFor, queue, steps, result, turnVars, approvalVars, eventVars,
                 historyVars, processVars, op, crashes>>

\* Faulty form: the wait has no deadline, as the resumed one has none.
ApprovalNeverTimesOut == FALSE

\* approval_ttl passes first: whatever the record says, it becomes expired.
ApprovalTimesOut ==
  /\ pc = "wait"
  /\ cur \in late
  /\ approvals' = [approvals EXCEPT ![cur] = "expired"]
  /\ verdict' = FALSE
  /\ Deafen(cur)
  /\ Goto("settle")
  /\ UNCHANGED <<mode, cur, waitFor, queue, steps, result, turnVars, asked, late, eventVars,
                 historyVars, processVars, op, crashes>>

CancelledWaiting ==
  /\ pc \in {"wait", "rewait"} /\ cancelled
  /\ Deafen(waitFor)
  /\ Finish("cancelled")
  /\ UNCHANGED <<mode, cur, waitFor, queue, steps, verdict, turnVars, approvalVars,
                 eventVars, historyVars, processVars, op, crashes>>

\* The decision goes on record; ApprovalResolved and ToolAuthorized follow.  The
\* descriptor is compared with what was approved, but a process never changes its tools.
SettleApproval ==
  /\ pc = "settle"
  /\ approvals' = [approvals EXCEPT ![cur] =
                     IF verdict THEN "approved"
                     ELSE IF @ = "expired" THEN "expired" ELSE "rejected"]
  /\ Goto(IF verdict THEN "run_checkpoint" ELSE "result")
  /\ UNCHANGED <<mode, cur, waitFor, queue, steps, verdict, result, turnVars, asked, late,
                 eventVars, historyVars, processVars, mailbox, op, crashes>>

\* Faulty form: the tool is started without a checkpoint that says so.
CheckpointRunningSkipped ==
  /\ pc = "run_checkpoint"
  /\ Goto("run")
  /\ UNCHANGED <<mode, cur, waitFor, queue, steps, verdict, result, turnVars, approvalVars,
                 eventVars, historyVars, processVars, mailbox, op, crashes>>

CheckpointRunning ==
  /\ pc = "run_checkpoint"
  /\ WriteCheckpoint("tool_running", cur)
  /\ Goto("run")
  /\ UNCHANGED <<mode, cur, waitFor, queue, steps, verdict, result, row, resumeOps,
                 approvalVars, eventVars, historyVars, processVars, mailbox, op, crashes>>

StartTool ==
  /\ pc = "run"
  /\ started' = [started EXCEPT ![cur] = @ + 1]
  /\ Goto("running")
  /\ UNCHANGED <<mode, cur, waitFor, queue, steps, verdict, result, turnVars, approvalVars,
                 eventVars, proposed, consented, processVars, mailbox, op, crashes>>

\* The tool returns, fails or times out: each has a result.
ToolReturns ==
  /\ pc = "running"
  /\ Goto("result")
  /\ UNCHANGED <<mode, cur, waitFor, queue, steps, verdict, result, turnVars, approvalVars,
                 eventVars, historyVars, processVars, mailbox, op, crashes>>

CancelledRunning ==
  /\ pc = "running" /\ cancelled
  /\ Finish("cancelled")
  /\ UNCHANGED <<mode, cur, waitFor, queue, steps, verdict, turnVars, approvalVars,
                 eventVars, historyVars, processVars, mailbox, op, crashes>>

\* emit_tool_result: the event first, the checkpoint after.
EmitToolCompleted ==
  /\ pc = "result"
  /\ completed' = [completed EXCEPT ![cur] = @ + 1]
  /\ Goto("result_checkpoint")
  /\ UNCHANGED <<mode, cur, waitFor, queue, steps, verdict, result, turnVars, approvalVars,
                 terminals, historyVars, processVars, mailbox, op, crashes>>

CheckpointToolCompleted ==
  /\ pc = "result_checkpoint"
  /\ WriteCheckpoint("tool_completed", NoCall)
  /\ cur' = NoCall /\ waitFor' = NoCall /\ verdict' = FALSE
  /\ Goto(IF queue = <<>> THEN "model" ELSE "tool")
  /\ UNCHANGED <<mode, queue, steps, result, row, resumeOps, approvalVars, eventVars,
                 historyVars, processVars, mailbox, op, crashes>>

CheckpointCompleted ==
  /\ pc = "done_checkpoint"
  /\ WriteCheckpoint("completed", NoCall)
  /\ Goto("done")
  /\ UNCHANGED <<mode, cur, waitFor, queue, steps, verdict, result, row, resumeOps,
                 approvalVars, eventVars, historyVars, processVars, mailbox, op, crashes>>

EmitTurnCompleted ==
  /\ pc = "done"
  /\ terminals' = terminals + 1
  /\ Finish("ok")
  /\ UNCHANGED <<mode, cur, waitFor, queue, steps, verdict, turnVars, approvalVars,
                 completed, historyVars, processVars, mailbox, op, crashes>>

\* run_turn: the result goes into the turn's record ...
CloseTurn ==
  /\ pc = "close"
  /\ row' = IF result = "ok" THEN "completed" ELSE result
  /\ Goto("release")
  /\ UNCHANGED <<mode, cur, waitFor, queue, steps, verdict, result, lease, checkpoint,
                 resumeOps, approvalVars, eventVars, historyVars, processVars, mailbox, op,
                 crashes>>

\* The runner's task ends and the server forgets it.
Leave ==
  /\ active' = FALSE /\ cancelled' = FALSE
  /\ pc' = "idle" /\ mode' = "fresh" /\ cur' = NoCall /\ waitFor' = NoCall /\ queue' = <<>> /\ steps' = 0
  /\ verdict' = FALSE /\ result' = "ok"

\* ... the lease is released; a resume ends here, whatever its result ...
ReleaseLease ==
  /\ pc = "release"
  /\ lease' = "none"
  /\ IF mode = "fresh" /\ result # "ok"
       THEN Goto("announce") /\ UNCHANGED <<active, cancelled, mode, cur, waitFor, queue, steps,
                                            verdict, result>>
       ELSE Leave
  /\ UNCHANGED <<row, checkpoint, resumeOps, approvalVars, eventVars, historyVars, phase,
                 others, mailbox, op, crashes>>

\* ... and TurnCancelled or TurnFailed is the last thing a turn writes.
AnnounceEnd ==
  /\ pc = "announce"
  /\ terminals' = terminals + 1
  /\ Leave
  /\ UNCHANGED <<turnVars, approvalVars, completed, historyVars, phase, others, mailbox,
                 op, crashes>>

-----------------------------------------------------------------------------
(* resume_turn and resume_pending_tool. *)

\* POST /turns/{id}/resume: the thread's slot is taken and resume_turn spawned, which
\* reads the report again and remembers the key before anything else.  A key that is
\* known gets the old report and changes nothing; the key of a resume that goes on to
\* fail stays known.
ResumeTurn(k) ==
  /\ phase = "up" /\ ~active
  /\ checkpoint.phase # "none" /\ ResumePolicy # "reconcile"
  /\ k \notin resumeOps
  /\ resumeOps' = resumeOps \cup {k}
  /\ active' = TRUE /\ cancelled' = FALSE
  /\ Goto("readmit") /\ mode' = "resume" /\ steps' = MaxSteps
  /\ UNCHANGED <<cur, waitFor, queue, verdict, result, row, lease, checkpoint, approvalVars,
                 eventVars, historyVars, phase, others, mailbox, op, crashes>>

\* acquire_lease refuses a lease that has not run out, and the resume is over.
LeaseHeld ==
  /\ pc = "readmit" /\ SlotFree /\ lease = "live"
  /\ Leave
  /\ UNCHANGED <<turnVars, approvalVars, eventVars, historyVars, phase, others, mailbox,
                 op, crashes>>

\* A process that was started again may have another schema for the tool, or no tool.
SchemaMayDiffer == crashes > 0

\* The lease is taken and the resume policy says where to go on; a permit is waited for
\* without heeding cancellation, and kept during the wait for an approval.
Readmit ==
  /\ pc = "readmit" /\ SlotFree /\ lease # "live"
  /\ lease' = "live"
  /\ \/ /\ ResumePolicy = "retry_observe"
        /\ cur' = checkpoint.call
        /\ Goto("run_checkpoint") \/ (SchemaMayDiffer /\ Goto("result"))
     \/ /\ ResumePolicy = "wait_approval"
        /\ cur' = checkpoint.call /\ Goto("reapprove")
     \/ /\ ResumePolicy \notin {"retry_observe", "wait_approval"}
        /\ cur' = NoCall /\ Goto("model")
  /\ UNCHANGED <<mode, waitFor, queue, steps, verdict, result, row, checkpoint, resumeOps,
                 approvalVars, eventVars, historyVars, processVars, mailbox, op, crashes>>

\* Faulty form: any approval of the turn will do.
ApprovalCoversAny(a) == TRUE

\* What an approval on record allows: the pending operation must be what was approved.
ApprovalCovers(a) == RequestHash[a] = RequestHash[cur]

\* approval_for_turn, and what its status asks for.
Reapprove ==
  /\ pc = "reapprove"
  /\ LET a == ApprovalForTurn
     IN  /\ waitFor' = a
         /\ \/ approvals[a] = "approved" /\ ApprovalCovers(a)
               /\ Goto("run_checkpoint") /\ UNCHANGED result
            \/ /\ approvals[a] = "approved"
               /\ ~ApprovalCovers(a) \/ SchemaMayDiffer
               /\ Finish("failed")
            \/ approvals[a] \in {"rejected", "expired"} /\ Goto("result") /\ UNCHANGED result
            \/ approvals[a] = "pending" /\ a \in late /\ Goto("reexpire") /\ UNCHANGED result
            \/ approvals[a] = "pending" /\ a \notin late /\ Goto("restore") /\ UNCHANGED result
  /\ UNCHANGED <<mode, cur, queue, steps, verdict, turnVars, approvalVars, eventVars,
                 historyVars, processVars, mailbox, op, crashes>>

\* A pending approval whose time has passed is put as expired, and the call rejected.
Reexpire ==
  /\ pc = "reexpire"
  /\ approvals' = [approvals EXCEPT ![waitFor] = "expired"]
  /\ Goto("result")
  /\ UNCHANGED <<mode, cur, waitFor, queue, steps, verdict, result, turnVars, asked, late,
                 eventVars, historyVars, processVars, mailbox, op, crashes>>

\* ApprovalBroker::restore: a new channel, in place of any old one.
RestoreApproval ==
  /\ pc = "restore"
  /\ mailbox' = [mailbox EXCEPT ![waitFor] = "waiting"]
  /\ Goto("rewait")
  /\ UNCHANGED <<mode, cur, waitFor, queue, steps, verdict, result, turnVars, approvalVars,
                 eventVars, historyVars, processVars, op, crashes>>

\* The resumed wait ends with a decision or a cancellation; it has no time limit.
ReceiveLateDecision ==
  /\ pc = "rewait"
  /\ mailbox[waitFor] \in {"yes", "no"}
  /\ verdict' = (mailbox[waitFor] = "yes")
  /\ mailbox' = [mailbox EXCEPT ![waitFor] = "absent"]
  /\ Goto("resettle")
  /\ UNCHANGED <<mode, cur, waitFor, queue, steps, result, turnVars, approvalVars, eventVars,
                 historyVars, processVars, op, crashes>>

\* The decision is put over the record as it was read, whatever it says by now.
ResettleApproval ==
  /\ pc = "resettle"
  /\ approvals' = [approvals EXCEPT ![waitFor] = IF verdict THEN "approved" ELSE "rejected"]
  /\ \/ verdict /\ ApprovalCovers(waitFor) /\ Goto("run_checkpoint") /\ UNCHANGED result
     \/ verdict /\ (~ApprovalCovers(waitFor) \/ SchemaMayDiffer) /\ Finish("failed")
     \/ ~verdict /\ Goto("result") /\ UNCHANGED result
  /\ UNCHANGED <<mode, cur, waitFor, queue, steps, verdict, turnVars, asked, late, eventVars,
                 historyVars, processVars, mailbox, op, crashes>>

-----------------------------------------------------------------------------
(* Operators: AgentRuntime::resolve_approval, three store and broker calls. *)

\* The record is read: only a pending approval can be decided, and not too late.
ReadApproval(o, c) ==
  /\ phase = "up" /\ op[o].at = "idle" /\ approvals[c] = "pending"
  /\ \E to \in IF c \in late THEN {"expired"} ELSE {"approved", "rejected"} :
       op' = [op EXCEPT ![o] = [at |-> "put", call |-> c, to |-> to]]
  /\ UNCHANGED <<runnerVars, turnVars, approvalVars, eventVars, historyVars, processVars,
                 mailbox, crashes>>

\* put_approval: what was read is not compared with what is there.
PutApproval(o) ==
  /\ op[o].at = "put"
  /\ approvals' = [approvals EXCEPT ![op[o].call] = op[o].to]
  /\ consented' = IF op[o].to = "approved" THEN consented \cup {op[o].call} ELSE consented
  /\ op' = [op EXCEPT ![o].at = "notify"]
  /\ UNCHANGED <<runnerVars, turnVars, asked, late, eventVars, proposed, started,
                 processVars, mailbox, crashes>>

\* ApprovalBroker::resolve takes the entry; the answer is lost if nobody listens.
NotifyApproval(o) ==
  /\ op[o].at = "notify"
  /\ mailbox' = [mailbox EXCEPT ![op[o].call] =
                   CASE @ = "waiting" -> IF op[o].to = "approved" THEN "yes" ELSE "no"
                     [] @ = "dead" -> "absent"
                     [] OTHER -> @]
  /\ op' = [op EXCEPT ![o] = [at |-> "idle", call |-> NoCall, to |-> "expired"]]
  /\ UNCHANGED <<runnerVars, turnVars, approvalVars, eventVars, historyVars, processVars,
                 crashes>>

-----------------------------------------------------------------------------
(* Clients, clocks and the process. *)

\* POST /turns/{id}/interrupt.
InterruptTurn ==
  /\ phase = "up" /\ active /\ ~cancelled
  /\ cancelled' = TRUE
  /\ UNCHANGED <<runnerVars, turnVars, approvalVars, eventVars, historyVars, phase, active,
                 others, mailbox, op, crashes>>

\* A lease runs out; the model looks only where acquire_lease might.
LeaseExpires ==
  /\ lease = "live" /\ pc \in {"idle", "readmit"}
  /\ lease' = "expired"
  /\ UNCHANGED <<runnerVars, row, checkpoint, resumeOps, approvalVars, eventVars,
                 historyVars, processVars, mailbox, op, crashes>>

\* expires_at passes; the model looks only where somebody still might.
ApprovalExpires(c) ==
  /\ approvals[c] = "pending" \/ (pc \in {"wait", "rewait"} /\ waitFor = c)
  /\ c \notin late
  /\ late' = late \cup {c}
  /\ UNCHANGED <<runnerVars, turnVars, approvals, asked, eventVars, historyVars, processVars,
                 mailbox, op, crashes>>

\* Turns of other threads take permits of turn_slots and give them back.
HoldsSlot == pc \notin {"idle", "admit", "readmit", "announce"}

OtherTurnStarts ==
  /\ phase = "up"
  /\ others + (IF HoldsSlot THEN 1 ELSE 0) < TurnSlots
  /\ others' = others + 1
  /\ UNCHANGED <<runnerVars, turnVars, approvalVars, eventVars, historyVars, phase, active,
                 cancelled, mailbox, op, crashes>>

OtherTurnEnds ==
  /\ others > 0
  /\ others' = others - 1
  /\ UNCHANGED <<runnerVars, turnVars, approvalVars, eventVars, historyVars, phase, active,
                 cancelled, mailbox, op, crashes>>

\* The process dies; what is not in the store is gone.
Crash ==
  /\ phase = "up" /\ crashes < MaxCrashes
  /\ crashes' = crashes + 1
  /\ phase' = "down"
  /\ others' = 0
  /\ Leave
  /\ mailbox' = [c \in Calls |-> "absent"]
  /\ op' = [o \in Operators |-> [at |-> "idle", call |-> NoCall, to |-> "expired"]]
  /\ UNCHANGED <<turnVars, approvalVars, eventVars, historyVars>>

\* recover, before the server listens: approvals that ran out, then the open turn.
Recover ==
  /\ phase = "down"
  /\ phase' = "up"
  /\ approvals' = [c \in Calls |->
                     IF approvals[c] = "pending" /\ c \in late THEN "expired" ELSE approvals[c]]
  /\ IF row \in {"none", "completed", "failed", "cancelled"}
       THEN UNCHANGED <<row, lease>>
       ELSE row' = RecoveredStatus /\ lease' = "none"
  /\ UNCHANGED <<runnerVars, checkpoint, resumeOps, asked, late, eventVars, historyVars,
                 active, cancelled, others, mailbox, op, crashes>>

-----------------------------------------------------------------------------

Init ==
  /\ phase = "up" /\ active = FALSE /\ cancelled = FALSE /\ others = 0
  /\ pc = "idle" /\ mode = "fresh" /\ cur = NoCall /\ waitFor = NoCall
  /\ queue = <<>> /\ steps = 0 /\ verdict = FALSE /\ result = "ok"
  /\ row = "none" /\ lease = "none" /\ resumeOps = {}
  /\ checkpoint = [phase |-> "none", call |-> NoCall]
  /\ approvals = [c \in Calls |-> "none"] /\ asked = <<>> /\ late = {}
  /\ mailbox = [c \in Calls |-> "absent"]
  /\ completed = [c \in Calls |-> 0] /\ terminals = 0
  /\ op = [o \in Operators |-> [at |-> "idle", call |-> NoCall, to |-> "expired"]]
  /\ proposed = {} /\ started = [c \in Calls |-> 0] /\ consented = {}
  /\ crashes = 0

\* A step of the task that runs the turn.
RunnerStep ==
  \/ Admit \/ CancelledBeforeAdmission \/ StartTurn \/ CheckpointQueued \/ BeginStep
  \/ MaxStepsExceeded \/ ModelCallsTools \/ ModelConcludes \/ ModelFails \/ ProposeTool
  \/ CheckpointWaiting \/ ReceiveDecision \/ ApprovalTimesOut \/ CancelledWaiting
  \/ SettleApproval \/ CheckpointRunning \/ StartTool \/ ToolReturns \/ CancelledRunning
  \/ EmitToolCompleted \/ CheckpointToolCompleted \/ CheckpointCompleted
  \/ EmitTurnCompleted \/ CloseTurn \/ ReleaseLease \/ AnnounceEnd
  \/ LeaseHeld \/ Readmit \/ Reapprove \/ Reexpire \/ RestoreApproval
  \/ ReceiveLateDecision \/ ResettleApproval

Next ==
  \/ RunnerStep
  \/ CreateTurn
  \/ \E k \in ResumeKeys : ResumeTurn(k)
  \/ \E o \in Operators, c \in Calls : ReadApproval(o, c)
  \/ \E o \in Operators : PutApproval(o) \/ NotifyApproval(o)
  \/ InterruptTurn \/ LeaseExpires \/ OtherTurnStarts \/ OtherTurnEnds
  \/ \E c \in Calls : ApprovalExpires(c)
  \/ Crash \/ Recover

Spec == Init /\ [][Next]_vars

\* Tasks that can run do (tokio), every model and tool call is under a timeout, the
\* semaphore serves those who wait in order, and clocks run.  Nobody has to answer,
\* interrupt, resume or crash, and no other turn has to end: a resumed one may wait for
\* an approval, and keep its permit, for ever.
FairSpec ==
  /\ Spec
  /\ WF_vars(RunnerStep) /\ SF_vars(Admit) /\ WF_vars(Recover)
  /\ \A c \in Calls : WF_vars(ApprovalExpires(c))

-----------------------------------------------------------------------------
(* Properties. *)

\* A tool whose effect cannot be repeated is started at most once, whatever crashes,
\* resumes and late decisions come after it (classify_tool_running, write_checkpoint
\* before the start in execute_tool).
UnrepeatableStartedAtMostOnce ==
  \A c \in Calls : ~Retryable(c) => started[c] <= 1

\* A tool that asks runs only if an operator granted that very call (resolve_approval,
\* execute_tool's Ask branch, resume_pending_tool).
OnlyConsentedToolsRun ==
  \A c \in Calls : Asks(c) /\ started[c] > 0 => c \in consented

\* A call whose tool ran with nobody asked has one result in the thread at most, even
\* when the process dies between the event and the checkpoint (emit_tool_result,
\* completed_tools).
ResultRecordedOnce ==
  \A c \in Calls : ~Asks(c) => completed[c] <= 1

\* Once the thread holds a call's result, its tool is not started again: "a durable
\* ToolResult continues from the next model step" (classify_checkpoint).
ResultSettlesCall ==
  [][\A c \in Calls : completed[c] > 0 => started'[c] = started[c]]_vars

\* A turn that was started ends, since the model, the tools and the approvals it waits
\* for all have a time limit (run_turn), unless turns of other threads keep every permit
\* of turn_slots for ever and nobody interrupts it.
FreshTurnEnds ==
  \/ (pc # "idle" /\ mode = "fresh") ~> (pc = "idle")
  \/ <>[](pc = "admit" /\ ~cancelled /\ ~SlotFree)

\* A resumed turn stops waiting for an approval that has expired (resume_pending_tool).
ExpiredApprovalReleasesResume ==
  (pc = "rewait" /\ waitFor \in late) ~> (pc # "rewait")
=============================================================================
