----------------------------- MODULE TurnProofs -----------------------------
(***************************************************************************)
(* Theorems about Turn, for any calls and tools the model names, any       *)
(* number of operators, resumes, steps and crashes.                        *)
(***************************************************************************)
EXTENDS Turn, SequenceTheorems, WellFoundedInduction, TLAPS

-----------------------------------------------------------------------------
(* Type correctness.  The types are split by what the actions touch; the   *)
(* Boolean variables stand apart.                                          *)

RunnerOK ==
  /\ pc \in Locations
  /\ mode \in {"fresh", "resume"}
  /\ cur \in Calls \cup {NoCall} /\ waitFor \in Calls \cup {NoCall}
  /\ queue \in Seq(Calls)
  /\ steps \in 0..MaxSteps
  /\ result \in {"ok", "cancelled", "failed"}

StoreOK ==
  /\ row \in {"none", "running", "waiting_approval", "interrupted", "needs_reconciliation",
              "completed", "failed", "cancelled"}
  /\ lease \in {"none", "live", "expired"}
  /\ checkpoint \in Checkpoints
  /\ resumeOps \subseteq ResumeKeys
  /\ approvals \in [Calls -> {"none", "pending", "approved", "rejected", "expired"}]
  /\ asked \in Seq(Calls)
  /\ late \subseteq Calls
  /\ completed \in [Calls -> Nat]
  /\ terminals \in Nat

ProcessOK ==
  /\ phase \in {"up", "down"}
  /\ others \in 0..TurnSlots
  /\ mailbox \in [Calls -> {"absent", "waiting", "yes", "no", "dead"}]
  /\ op \in [Operators -> [at : {"idle", "put", "notify"}, call : Calls \cup {NoCall},
                           to : {"approved", "rejected", "expired"}]]
  /\ crashes \in Nat

HistoryOK ==
  /\ proposed \subseteq Calls
  /\ started \in [Calls -> Nat]
  /\ consented \subseteq Calls

FlagsOK == active \in BOOLEAN /\ cancelled \in BOOLEAN /\ verdict \in BOOLEAN

\* The parts make up the whole.
LEMMA TypeParts == TypeOK <=> RunnerOK /\ StoreOK /\ ProcessOK /\ HistoryOK /\ FlagsOK
BY DEF TypeOK, RunnerOK, StoreOK, ProcessOK, HistoryOK, FlagsOK

\* The runner works on a call.
Holding == {"ask_checkpoint", "wait", "settle", "run_checkpoint", "run", "running", "result",
            "result_checkpoint", "reapprove", "reexpire", "restore", "rewait", "resettle"}

\* It waits for an approval or acts on one: of its own, or of the turn it resumes.
Asking == {"ask_checkpoint", "wait", "settle"}
Reasking == {"reapprove", "reexpire", "restore", "rewait", "resettle"}

\* Its response may have calls left to make.
Batched == {"tool", "ask_checkpoint", "wait", "settle", "run_checkpoint", "run", "running",
            "result", "result_checkpoint", "close", "release", "announce"}

\* What the runner, the checkpoint and the operators must have in hand.
HandsFull ==
  /\ pc \in Holding => cur \in Calls
  /\ pc \in Asking => waitFor = cur
  /\ pc \in Reasking \ {"reapprove"} => waitFor \in Calls
  /\ pc # "idle" => active
  /\ pc = "tool" => queue # <<>>
  /\ pc \notin Batched => queue = <<>>
  /\ checkpoint.phase \in {"waiting_approval", "tool_running"} => checkpoint.call \in Calls
  /\ pc \in Reasking => checkpoint = [phase |-> "waiting_approval", call |-> cur]
  /\ pc \in {"run", "running"} => checkpoint = [phase |-> "tool_running", call |-> cur]
  /\ \A o \in Operators : op[o].at # "idle" => op[o].call \in Calls

\* There is an approval for a resume to look at.
Askable ==
  /\ checkpoint.phase = "waiting_approval" \/ pc = "ask_checkpoint" => asked # <<>>
  /\ \A i \in DOMAIN asked : approvals[asked[i]] # "none"

Fresh(c) == started[c] = 0 /\ completed[c] = 0

\* Nothing has been done for a call that is still to be made.
QueueFresh ==
  /\ \A c \in Calls \ proposed : Fresh(c)
  /\ \A i \in DOMAIN queue : queue[i] \in proposed /\ Fresh(queue[i])
  /\ \A i, j \in DOMAIN queue : queue[i] = queue[j] => i = j
  /\ pc \in Holding => cur \in proposed /\ \A i \in DOMAIN queue : queue[i] # cur
  /\ checkpoint.phase \in {"waiting_approval", "tool_running"} => checkpoint.call \in proposed

\* Which tools may still be started, and which results recorded.
CurFresh ==
  /\ pc \in Asking => Asks(cur) /\ started[cur] = 0
  /\ checkpoint.phase = "waiting_approval" =>
       Asks(checkpoint.call) /\ started[checkpoint.call] = 0
  /\ pc \in {"run_checkpoint", "run"} /\ ~Retryable(cur) => started[cur] = 0
  /\ pc \in {"run_checkpoint", "run", "running", "result"} /\ ~Asks(cur) => completed[cur] = 0

StartInv == QueueFresh /\ CurFresh /\ UnrepeatableStartedAtMostOnce /\ ResultRecordedOnce

\* Where a consent is on its way.
ConsentInv ==
  /\ \A c \in Calls : approvals[c] = "approved" \/ mailbox[c] = "yes" => c \in consented
  /\ \A o \in Operators : op[o].at = "notify" /\ op[o].to = "approved" => op[o].call \in consented
  /\ pc = "settle" /\ verdict => cur \in consented
  /\ pc = "resettle" /\ verdict => waitFor \in consented
  /\ pc \in {"run_checkpoint", "run"} /\ Asks(cur) => cur \in consented
  /\ checkpoint.phase = "tool_running" /\ Asks(checkpoint.call) => checkpoint.call \in consented
  /\ OnlyConsentedToolsRun

-----------------------------------------------------------------------------
(* The approval a resume acts on. *)

\* Every set of naturals that is not empty has a least element.
LEMMA LeastNat ==
  ASSUME NEW S \in SUBSET Nat, S # {}
  PROVE  \E m \in S : \A k \in S : m <= k
<1>1. \E m \in S : \A k \in S : <<k, m>> \notin OpToRel(<, Nat)
  BY NatLessThanWellFounded, WFMin, Zenon
<1>2. \A k, m \in Nat : k < m => <<k, m>> \in OpToRel(<, Nat)
  BY DEF OpToRel
<1>3. \E m \in S : \A k \in S : ~(k < m)
  BY <1>1, <1>2, Zenon
<1> QED BY <1>3

\* approval_for_turn finds an approval of the turn when there is one: the status that
\* comes first, and the earliest approval that has it.
LEMMA ApprovalForTurnIsACall ==
  ASSUME StoreOK, asked # <<>>,
         \A i \in DOMAIN asked : approvals[asked[i]] # "none"
  PROVE  ApprovalForTurn \in Calls
<1> DEFINE Rank(i) == StatusOrder[approvals[asked[i]]]
           Of(r) == {i \in DOMAIN asked : Rank(i) = r}
           Before(i, j) == Rank(i) < Rank(j) \/ (Rank(i) = Rank(j) /\ i <= j)
<1>1. DOMAIN asked \in SUBSET Nat /\ DOMAIN asked # {}
  BY DEF StoreOK
<1>2. \A i \in DOMAIN asked : asked[i] \in Calls /\ Rank(i) \in {0, 1, 2, 3}
  BY DEF StoreOK, StatusOrder
<1>3. \E i \in DOMAIN asked : \A j \in DOMAIN asked : Before(i, j)
  <2>1. ASSUME NEW r \in {0, 1, 2, 3}, Of(r) # {}, \A s \in {0, 1, 2, 3} : s < r => Of(s) = {}
        PROVE  \E i \in DOMAIN asked : \A j \in DOMAIN asked : Before(i, j)
    <3>1. PICK i \in Of(r) : \A j \in Of(r) : i <= j
      BY <1>1, <2>1, LeastNat
    <3>2. \A j \in DOMAIN asked : Before(i, j)
      BY <1>1, <1>2, <2>1, <3>1
    <3> QED BY <3>1, <3>2
  <2>2. Of(0) # {} \/ Of(1) # {} \/ Of(2) # {} \/ Of(3) # {}
    BY <1>1, <1>2
  <2> QED BY <2>1, <2>2
<1>4. (CHOOSE i \in DOMAIN asked : \A j \in DOMAIN asked : Before(i, j)) \in DOMAIN asked
  BY <1>3
<1> QED BY <1>2, <1>4 DEF ApprovalForTurn

-----------------------------------------------------------------------------
(* What a step leaves alone. *)

\* Only a model response, a start and a granted approval write history.
LEMMA HistoryFrame ==
  ASSUME [Next]_vars
  PROVE  \/ UNCHANGED historyVars
         \/ ModelCallsTools \/ StartTool \/ \E o \in Operators : PutApproval(o)
BY DEF Next, RunnerStep, vars, runnerVars, turnVars, approvalVars, eventVars, historyVars,
  processVars, Admit, CancelledBeforeAdmission, StartTurn, CheckpointQueued, BeginStep,
  MaxStepsExceeded, ModelCallsTools, ModelConcludes, ModelFails, ProposeTool,
  CheckpointWaiting, ReceiveDecision, ApprovalTimesOut, CancelledWaiting, SettleApproval,
  CheckpointRunning, StartTool, ToolReturns, CancelledRunning, EmitToolCompleted,
  CheckpointToolCompleted, CheckpointCompleted, EmitTurnCompleted, CloseTurn, ReleaseLease,
  AnnounceEnd, LeaseHeld, Readmit, Reapprove, Reexpire, RestoreApproval,
  ReceiveLateDecision, ResettleApproval, CreateTurn, ResumeTurn, ReadApproval, PutApproval,
  NotifyApproval, InterruptTurn, LeaseExpires, OtherTurnStarts, OtherTurnEnds, ApprovalExpires, Crash, Recover, Leave

\* The steps that write the approvals of the store.
LEMMA ApprovalFrame ==
  ASSUME [Next]_vars
  PROVE  \/ UNCHANGED <<approvals, asked>>
         \/ ProposeTool \/ ApprovalTimesOut \/ SettleApproval \/ Reexpire \/ ResettleApproval
         \/ Recover \/ \E o \in Operators : PutApproval(o)
BY DEF Next, RunnerStep, vars, runnerVars, turnVars, approvalVars, eventVars, historyVars,
  processVars, Admit, CancelledBeforeAdmission, StartTurn, CheckpointQueued, BeginStep,
  MaxStepsExceeded, ModelCallsTools, ModelConcludes, ModelFails, ProposeTool,
  CheckpointWaiting, ReceiveDecision, ApprovalTimesOut, CancelledWaiting, SettleApproval,
  CheckpointRunning, StartTool, ToolReturns, CancelledRunning, EmitToolCompleted,
  CheckpointToolCompleted, CheckpointCompleted, EmitTurnCompleted, CloseTurn, ReleaseLease,
  AnnounceEnd, LeaseHeld, Readmit, Reapprove, Reexpire, RestoreApproval,
  ReceiveLateDecision, ResettleApproval, CreateTurn, ResumeTurn, ReadApproval, PutApproval,
  NotifyApproval, InterruptTurn, LeaseExpires, OtherTurnStarts, OtherTurnEnds, ApprovalExpires, Crash, Recover, Leave

\* The steps that write the checkpoint: one for an approval, the others for something else.
LEMMA CheckpointFrame ==
  ASSUME [Next]_vars
  PROVE  \/ UNCHANGED checkpoint
         \/ CheckpointWaiting
         \/ CheckpointQueued \/ BeginStep \/ CheckpointRunning \/ CheckpointToolCompleted
         \/ CheckpointCompleted
BY DEF Next, RunnerStep, vars, runnerVars, turnVars, approvalVars, eventVars, historyVars,
  processVars, Admit, CancelledBeforeAdmission, StartTurn, CheckpointQueued, BeginStep,
  MaxStepsExceeded, ModelCallsTools, ModelConcludes, ModelFails, ProposeTool,
  CheckpointWaiting, ReceiveDecision, ApprovalTimesOut, CancelledWaiting, SettleApproval,
  CheckpointRunning, StartTool, ToolReturns, CancelledRunning, EmitToolCompleted,
  CheckpointToolCompleted, CheckpointCompleted, EmitTurnCompleted, CloseTurn, ReleaseLease,
  AnnounceEnd, LeaseHeld, Readmit, Reapprove, Reexpire, RestoreApproval,
  ReceiveLateDecision, ResettleApproval, CreateTurn, ResumeTurn, ReadApproval, PutApproval,
  NotifyApproval, InterruptTurn, LeaseExpires, OtherTurnStarts, OtherTurnEnds, ApprovalExpires, Crash, Recover, Leave

\* The steps that write results, the end of the turn and the resume keys.
LEMMA EventFrame ==
  ASSUME [Next]_vars
  PROVE  \/ UNCHANGED <<completed, terminals, resumeOps>>
         \/ EmitToolCompleted \/ EmitTurnCompleted \/ AnnounceEnd
         \/ \E k \in ResumeKeys : ResumeTurn(k)
BY DEF Next, RunnerStep, vars, runnerVars, turnVars, approvalVars, eventVars, historyVars,
  processVars, Admit, CancelledBeforeAdmission, StartTurn, CheckpointQueued, BeginStep,
  MaxStepsExceeded, ModelCallsTools, ModelConcludes, ModelFails, ProposeTool,
  CheckpointWaiting, ReceiveDecision, ApprovalTimesOut, CancelledWaiting, SettleApproval,
  CheckpointRunning, StartTool, ToolReturns, CancelledRunning, EmitToolCompleted,
  CheckpointToolCompleted, CheckpointCompleted, EmitTurnCompleted, CloseTurn, ReleaseLease,
  AnnounceEnd, LeaseHeld, Readmit, Reapprove, Reexpire, RestoreApproval,
  ReceiveLateDecision, ResettleApproval, CreateTurn, ResumeTurn, ReadApproval, PutApproval,
  NotifyApproval, InterruptTurn, LeaseExpires, OtherTurnStarts, OtherTurnEnds, ApprovalExpires, Crash, Recover, Leave

\* The steps of the operators, the broker and the process.
LEMMA ProcessFrame ==
  ASSUME [Next]_vars
  PROVE  \/ UNCHANGED <<phase, others, mailbox, op, crashes>>
         \/ OtherTurnStarts \/ OtherTurnEnds
         \/ ProposeTool \/ ReceiveDecision \/ ApprovalTimesOut \/ CancelledWaiting
         \/ RestoreApproval \/ ReceiveLateDecision \/ Crash \/ Recover
         \/ \E o \in Operators, c \in Calls : ReadApproval(o, c)
         \/ \E o \in Operators : PutApproval(o) \/ NotifyApproval(o)
BY DEF Next, RunnerStep, vars, runnerVars, turnVars, approvalVars, eventVars, historyVars,
  processVars, Admit, CancelledBeforeAdmission, StartTurn, CheckpointQueued, BeginStep,
  MaxStepsExceeded, ModelCallsTools, ModelConcludes, ModelFails, ProposeTool,
  CheckpointWaiting, ReceiveDecision, ApprovalTimesOut, CancelledWaiting, SettleApproval,
  CheckpointRunning, StartTool, ToolReturns, CancelledRunning, EmitToolCompleted,
  CheckpointToolCompleted, CheckpointCompleted, EmitTurnCompleted, CloseTurn, ReleaseLease,
  AnnounceEnd, LeaseHeld, Readmit, Reapprove, Reexpire, RestoreApproval,
  ReceiveLateDecision, ResettleApproval, CreateTurn, ResumeTurn, ReadApproval, PutApproval,
  NotifyApproval, InterruptTurn, LeaseExpires, OtherTurnStarts, OtherTurnEnds, ApprovalExpires, Crash, Recover, Leave

\* The call a proposal is about, and the approval it may ask for.
LEMMA ProposeApproval ==
  ASSUME RunnerOK, StoreOK, HandsFull, ProposeTool
  PROVE  LET c == Head(queue)
         IN  /\ c \in Calls
             /\ \/ UNCHANGED <<approvals, asked>>
                \/ /\ approvals' = [approvals EXCEPT ![c] = "pending"]
                   /\ asked' = Append(asked, c)
BY DEF RunnerOK, HandsFull, ProposeTool

\* An approval that is asked for is the last of those on record.
LEMMA ProposeAsked ==
  ASSUME RunnerOK, StoreOK, HandsFull, ProposeTool
  PROVE  /\ approvals' \in [Calls -> {"none", "pending", "approved", "rejected", "expired"}]
         /\ asked' \in Seq(Calls)
         /\ Askable => \A i \in DOMAIN asked' : approvals'[asked'[i]] # "none"
<1> DEFINE c == Head(queue)
<1>1. c \in Calls
  BY ProposeApproval
<1>2. CASE UNCHANGED <<approvals, asked>>
  BY <1>2 DEF StoreOK, Askable
<1>3. CASE approvals' = [approvals EXCEPT ![c] = "pending"] /\ asked' = Append(asked, c)
  <2> HIDE DEF c
  <2>1. /\ asked' \in Seq(Calls) /\ DOMAIN asked' = 1..(Len(asked) + 1)
        /\ \A i \in 1..Len(asked) : asked'[i] = asked[i]
        /\ asked'[Len(asked) + 1] = c
    BY <1>1, <1>3, AppendProperties DEF StoreOK
  <2>2. /\ approvals' \in [Calls -> {"none", "pending", "approved", "rejected", "expired"}]
        /\ approvals'[c] = "pending"
        /\ \A d \in Calls : approvals'[d] # approvals[d] => approvals'[d] = "pending"
    BY <1>1, <1>3 DEF StoreOK
  <2>3. \A i \in 1..Len(asked) : asked[i] \in Calls
    BY DEF StoreOK
  <2>4. ASSUME Askable, NEW i \in 1..(Len(asked) + 1)
        PROVE  approvals'[asked'[i]] # "none"
    <3>1. CASE i = Len(asked) + 1
      BY <2>1, <2>2, <3>1
    <3>2. CASE i \in 1..Len(asked)
      BY SMTT(30), <2>1, <2>2, <2>3, <2>4, <3>2 DEF Askable, StoreOK
    <3> QED BY <3>1, <3>2 DEF StoreOK
  <2> QED BY <2>1, <2>2, <2>4
<1> QED BY <1>2, <1>3, ProposeApproval

-----------------------------------------------------------------------------
(* Every step keeps the types. *)

\* The runner's own variables.
LEMMA RunnerTyped ==
  ASSUME RunnerOK, StoreOK, HandsFull, Askable, [Next]_vars
  PROVE  RunnerOK'
<1> USE TurnAssumption DEF RunnerOK, Locations, Goto, Finish, WriteCheckpoint, Deafen,
  Leave, runnerVars, turnVars, approvalVars, eventVars, historyVars, processVars
<1>1. CASE Admit
  BY <1>1 DEF Admit
<1>2. CASE CancelledBeforeAdmission
  <2>1. /\ result' = "cancelled" /\ pc' = "announce"
        /\ UNCHANGED <<mode, cur, waitFor, queue, steps>>
    BY <1>2 DEF CancelledBeforeAdmission
  <2> QED BY <2>1
<1>3. CASE StartTurn
  BY <1>3 DEF StartTurn
<1>4. CASE CheckpointQueued
  BY <1>4 DEF CheckpointQueued
<1>5. CASE BeginStep
  BY <1>5 DEF BeginStep
<1>6. CASE MaxStepsExceeded
  BY <1>6 DEF MaxStepsExceeded
<1>7. CASE ModelCallsTools
  BY <1>7 DEF ModelCallsTools
<1>8. CASE ModelConcludes
  BY <1>8 DEF ModelConcludes
<1>9. CASE ModelFails
  BY <1>9 DEF ModelFails
<1>10. CASE ProposeTool
  BY <1>10 DEF ProposeTool, HandsFull
<1>11. CASE CheckpointWaiting
  BY <1>11 DEF CheckpointWaiting
<1>12. CASE ReceiveDecision
  BY <1>12 DEF ReceiveDecision
<1>13. CASE ApprovalTimesOut
  BY <1>13 DEF ApprovalTimesOut
<1>14. CASE CancelledWaiting
  BY <1>14 DEF CancelledWaiting
<1>15. CASE SettleApproval
  BY <1>15 DEF SettleApproval
<1>16. CASE CheckpointRunning
  BY <1>16 DEF CheckpointRunning
<1>17. CASE StartTool
  BY <1>17 DEF StartTool
<1>18. CASE ToolReturns
  BY <1>18 DEF ToolReturns
<1>19. CASE CancelledRunning
  BY <1>19 DEF CancelledRunning
<1>20. CASE EmitToolCompleted
  BY <1>20 DEF EmitToolCompleted
<1>21. CASE CheckpointToolCompleted
  BY <1>21 DEF CheckpointToolCompleted
<1>22. CASE CheckpointCompleted
  BY <1>22 DEF CheckpointCompleted
<1>23. CASE EmitTurnCompleted
  BY <1>23 DEF EmitTurnCompleted
<1>24. CASE CloseTurn
  BY <1>24 DEF CloseTurn
<1>25. CASE ReleaseLease
  <2>1. CASE Leave
    BY <2>1
  <2>2. CASE Goto("announce") /\ UNCHANGED <<mode, cur, waitFor, queue, steps, result>>
    BY <2>2
  <2> QED BY <1>25, <2>1, <2>2 DEF ReleaseLease
<1>26. CASE AnnounceEnd
  BY <1>26 DEF AnnounceEnd
<1>27. CASE LeaseHeld
  BY <1>27 DEF LeaseHeld
<1>28. CASE Readmit
  BY <1>28 DEF Readmit, HandsFull, StoreOK, Checkpoints, ResumePolicy
<1>29. CASE Reapprove
  <2>1. ApprovalForTurn \in Calls
    BY <1>29, ApprovalForTurnIsACall DEF Reapprove, HandsFull, Askable, Reasking
  <2> QED BY <1>29, <2>1 DEF Reapprove
<1>30. CASE Reexpire
  BY <1>30 DEF Reexpire
<1>31. CASE RestoreApproval
  BY <1>31 DEF RestoreApproval
<1>32. CASE ReceiveLateDecision
  BY <1>32 DEF ReceiveLateDecision
<1>33. CASE ResettleApproval
  BY <1>33 DEF ResettleApproval
<1>34. CASE CreateTurn
  BY <1>34 DEF CreateTurn
<1>35. ASSUME NEW k \in ResumeKeys, ResumeTurn(k) PROVE RunnerOK'
  BY <1>35 DEF ResumeTurn
<1>36. ASSUME NEW o \in Operators, NEW c \in Calls, ReadApproval(o, c) PROVE RunnerOK'
  BY <1>36 DEF ReadApproval
<1>37. ASSUME NEW o \in Operators, PutApproval(o) PROVE RunnerOK'
  BY <1>37 DEF PutApproval
<1>38. ASSUME NEW o \in Operators, NotifyApproval(o) PROVE RunnerOK'
  BY <1>38 DEF NotifyApproval
<1>39. CASE InterruptTurn
  BY <1>39 DEF InterruptTurn
<1>40. CASE LeaseExpires \/ OtherTurnStarts \/ OtherTurnEnds
  BY <1>40 DEF LeaseExpires, OtherTurnStarts, OtherTurnEnds
<1>41. ASSUME NEW c \in Calls, ApprovalExpires(c) PROVE RunnerOK'
  BY <1>41 DEF ApprovalExpires
<1>42. CASE Crash
  BY <1>42 DEF Crash
<1>43. CASE Recover
  BY <1>43 DEF Recover
<1>44. CASE UNCHANGED vars
  BY <1>44 DEF vars
<1> QED BY <1>1, <1>2, <1>3, <1>4, <1>5, <1>6, <1>7, <1>8, <1>9, <1>10, <1>11, <1>12, <1>13,
  <1>14, <1>15, <1>16, <1>17, <1>18, <1>19, <1>20, <1>21, <1>22, <1>23, <1>24, <1>25, <1>26,
  <1>27, <1>28, <1>29, <1>30, <1>31, <1>32, <1>33, <1>34, <1>35, <1>36, <1>37, <1>38, <1>39,
  <1>40, <1>41, <1>42, <1>43, <1>44 DEF Next, RunnerStep

\* The store.
LEMMA StoreTyped ==
  ASSUME RunnerOK, StoreOK, ProcessOK, HandsFull, [Next]_vars
  PROVE  StoreOK'
<1>1. completed' \in [Calls -> Nat] /\ terminals' \in Nat /\ resumeOps' \subseteq ResumeKeys
  <2> USE DEF StoreOK, HandsFull, RunnerOK, Holding, turnVars, eventVars
  <2>1. CASE EmitToolCompleted
    BY <2>1 DEF EmitToolCompleted
  <2>2. CASE EmitTurnCompleted
    BY <2>2 DEF EmitTurnCompleted
  <2>3. CASE AnnounceEnd
    BY <2>3 DEF AnnounceEnd
  <2>4. ASSUME NEW k \in ResumeKeys, ResumeTurn(k)
        PROVE  completed' \in [Calls -> Nat] /\ terminals' \in Nat /\ resumeOps' \subseteq ResumeKeys
    BY <2>4 DEF ResumeTurn
  <2> QED BY EventFrame, <2>1, <2>2, <2>3, <2>4 DEF StoreOK
<1>2. /\ approvals' \in [Calls -> {"none", "pending", "approved", "rejected", "expired"}]
      /\ asked' \in Seq(Calls)
  <2> USE TurnAssumption DEF StoreOK, HandsFull, RunnerOK, ProcessOK, Holding, Asking, Reasking
  <2>1. CASE ProposeTool
    BY <2>1, ProposeAsked
  <2>2. CASE ApprovalTimesOut
    BY <2>2 DEF ApprovalTimesOut
  <2>3. CASE SettleApproval
    BY <2>3 DEF SettleApproval
  <2>4. CASE Reexpire
    BY <2>4 DEF Reexpire
  <2>5. CASE ResettleApproval
    BY <2>5 DEF ResettleApproval
  <2>6. CASE Recover
    BY <2>6 DEF Recover
  <2>7. ASSUME NEW o \in Operators, PutApproval(o)
        PROVE  /\ approvals' \in [Calls -> {"none", "pending", "approved", "rejected", "expired"}]
               /\ asked' \in Seq(Calls)
    BY <2>7 DEF PutApproval
  <2> QED BY ApprovalFrame, <2>1, <2>2, <2>3, <2>4, <2>5, <2>6, <2>7 DEF StoreOK
<1>3. late' \subseteq Calls
  BY DEF StoreOK, Next, RunnerStep, vars, approvalVars, Admit, CancelledBeforeAdmission,
    StartTurn, CheckpointQueued, BeginStep, MaxStepsExceeded, ModelCallsTools,
    ModelConcludes, ModelFails, ProposeTool, CheckpointWaiting, ReceiveDecision,
    ApprovalTimesOut, CancelledWaiting, SettleApproval, CheckpointRunning, StartTool,
    ToolReturns, CancelledRunning, EmitToolCompleted, CheckpointToolCompleted,
    CheckpointCompleted, EmitTurnCompleted, CloseTurn, ReleaseLease, AnnounceEnd, LeaseHeld,
    Readmit, Reapprove, Reexpire, RestoreApproval, ReceiveLateDecision, ResettleApproval,
    CreateTurn, ResumeTurn, ReadApproval, PutApproval, NotifyApproval, InterruptTurn,
    LeaseExpires, OtherTurnStarts, OtherTurnEnds, ApprovalExpires, Crash, Recover, Leave
<1>4. /\ row' \in {"none", "running", "waiting_approval", "interrupted",
                   "needs_reconciliation", "completed", "failed", "cancelled"}
      /\ lease' \in {"none", "live", "expired"}
  BY DEF StoreOK, RunnerOK, Next, RunnerStep, vars, turnVars, WriteCheckpoint,
    RecoveredStatus, Admit, CancelledBeforeAdmission, StartTurn, CheckpointQueued,
    BeginStep, MaxStepsExceeded, ModelCallsTools, ModelConcludes, ModelFails, ProposeTool,
    CheckpointWaiting, ReceiveDecision, ApprovalTimesOut, CancelledWaiting, SettleApproval,
    CheckpointRunning, StartTool, ToolReturns, CancelledRunning, EmitToolCompleted,
    CheckpointToolCompleted, CheckpointCompleted, EmitTurnCompleted, CloseTurn,
    ReleaseLease, AnnounceEnd, LeaseHeld, Readmit, Reapprove, Reexpire, RestoreApproval,
    ReceiveLateDecision, ResettleApproval, CreateTurn, ResumeTurn, ReadApproval,
    PutApproval, NotifyApproval, InterruptTurn, LeaseExpires, OtherTurnStarts, OtherTurnEnds, ApprovalExpires, Crash,
    Recover, Leave
<1>5. checkpoint' \in Checkpoints
  <2>1. CASE UNCHANGED checkpoint
    BY <2>1 DEF StoreOK
  <2>2. CASE CheckpointWaiting \/ CheckpointRunning
    BY <2>2 DEF RunnerOK, Checkpoints, WriteCheckpoint, CheckpointWaiting, CheckpointRunning
  <2>3. CASE CheckpointQueued \/ BeginStep \/ CheckpointToolCompleted \/ CheckpointCompleted
    BY <2>3 DEF Checkpoints, WriteCheckpoint, CheckpointQueued, BeginStep,
      CheckpointToolCompleted, CheckpointCompleted
  <2> QED BY CheckpointFrame, <2>1, <2>2, <2>3
<1> QED BY <1>1, <1>2, <1>3, <1>4, <1>5 DEF StoreOK

\* The process, the broker and the operators.
LEMMA ProcessTyped ==
  ASSUME RunnerOK, ProcessOK, HandsFull, [Next]_vars
  PROVE  ProcessOK'
<1> USE TurnAssumption DEF ProcessOK, RunnerOK, HandsFull, Holding, Asking, Reasking,
  Deafen, processVars
<1>1. CASE ProposeTool
  BY <1>1 DEF ProposeTool
<1>2. CASE ReceiveDecision
  BY <1>2 DEF ReceiveDecision
<1>3. CASE ApprovalTimesOut
  BY <1>3 DEF ApprovalTimesOut
<1>4. CASE CancelledWaiting
  BY <1>4 DEF CancelledWaiting
<1>5. CASE RestoreApproval
  BY <1>5 DEF RestoreApproval
<1>6. CASE ReceiveLateDecision
  BY <1>6 DEF ReceiveLateDecision
<1>7. CASE Crash
  BY <1>7 DEF Crash
<1>8. CASE Recover
  BY <1>8 DEF Recover
<1>9. ASSUME NEW o \in Operators, NEW c \in Calls, ReadApproval(o, c) PROVE ProcessOK'
  BY <1>9 DEF ReadApproval
<1>10. ASSUME NEW o \in Operators, PutApproval(o) PROVE ProcessOK'
  BY <1>10 DEF PutApproval
<1>11. ASSUME NEW o \in Operators, NotifyApproval(o) PROVE ProcessOK'
  BY <1>11 DEF NotifyApproval
<1>12. CASE OtherTurnStarts
  BY <1>12 DEF OtherTurnStarts
<1>13. CASE OtherTurnEnds
  BY <1>13 DEF OtherTurnEnds
<1> QED BY ProcessFrame, <1>1, <1>2, <1>3, <1>4, <1>5, <1>6, <1>7, <1>8, <1>9, <1>10, <1>11,
  <1>12, <1>13 DEF vars

\* History.
LEMMA HistoryTyped ==
  ASSUME RunnerOK, ProcessOK, HistoryOK, HandsFull, [Next]_vars
  PROVE  HistoryOK'
<1> USE DEF HistoryOK, HandsFull, RunnerOK, ProcessOK, Holding
<1>1. CASE ModelCallsTools
  BY <1>1 DEF ModelCallsTools
<1>2. CASE StartTool
  BY <1>2 DEF StartTool
<1>3. ASSUME NEW o \in Operators, PutApproval(o) PROVE HistoryOK'
  BY <1>3 DEF PutApproval
<1> QED BY HistoryFrame, <1>1, <1>2, <1>3 DEF historyVars

\* The Boolean variables.
LEMMA FlagsTyped ==
  ASSUME FlagsOK, [Next]_vars
  PROVE  FlagsOK'
BY DEF FlagsOK, Next, RunnerStep, vars, runnerVars, processVars, Admit,
  CancelledBeforeAdmission, StartTurn, CheckpointQueued, BeginStep, MaxStepsExceeded,
  ModelCallsTools, ModelConcludes, ModelFails, ProposeTool, CheckpointWaiting,
  ReceiveDecision, ApprovalTimesOut, CancelledWaiting, SettleApproval, CheckpointRunning,
  StartTool, ToolReturns, CancelledRunning, EmitToolCompleted, CheckpointToolCompleted,
  CheckpointCompleted, EmitTurnCompleted, CloseTurn, ReleaseLease, AnnounceEnd, LeaseHeld,
  Readmit, Reapprove, Reexpire, RestoreApproval, ReceiveLateDecision, ResettleApproval,
  CreateTurn, ResumeTurn, ReadApproval, PutApproval, NotifyApproval, InterruptTurn,
  LeaseExpires, OtherTurnStarts, OtherTurnEnds, ApprovalExpires, Crash, Recover, Leave

\* A turn whose checkpoint waits for an approval has one.
LEMMA AskableKept ==
  ASSUME RunnerOK, StoreOK, ProcessOK, HandsFull, Askable, [Next]_vars
  PROVE  Askable'
<1>1. asked # <<>> => asked' # <<>>
  <2> USE DEF StoreOK, RunnerOK, HandsFull
  <2>1. CASE ProposeTool
    BY <2>1 DEF ProposeTool
  <2>2. CASE ApprovalTimesOut
    BY <2>2 DEF ApprovalTimesOut
  <2>3. CASE SettleApproval
    BY <2>3 DEF SettleApproval
  <2>4. CASE Reexpire
    BY <2>4 DEF Reexpire
  <2>5. CASE ResettleApproval
    BY <2>5 DEF ResettleApproval
  <2>6. CASE Recover
    BY <2>6 DEF Recover
  <2>7. ASSUME NEW o \in Operators, PutApproval(o) PROVE asked # <<>> => asked' # <<>>
    BY <2>7 DEF PutApproval
  <2> QED BY ApprovalFrame, <2>1, <2>2, <2>3, <2>4, <2>5, <2>6, <2>7 DEF StoreOK
<1>2. checkpoint'.phase = "waiting_approval" \/ pc' = "ask_checkpoint" => asked' # <<>>
  <2>1. pc' = "ask_checkpoint" => asked' # <<>>
    BY SMTT(30), <1>1 DEF Askable, StoreOK, RunnerOK, Checkpoints, HandsFull, Next, RunnerStep, vars,
      runnerVars, turnVars, approvalVars, WriteCheckpoint, Goto, Finish, Admit,
      CancelledBeforeAdmission, StartTurn, CheckpointQueued, BeginStep, MaxStepsExceeded,
      ModelCallsTools, ModelConcludes, ModelFails, ProposeTool, CheckpointWaiting,
      ReceiveDecision, ApprovalTimesOut, CancelledWaiting, SettleApproval, CheckpointRunning,
      StartTool, ToolReturns, CancelledRunning, EmitToolCompleted, CheckpointToolCompleted,
      CheckpointCompleted, EmitTurnCompleted, CloseTurn, ReleaseLease, AnnounceEnd, LeaseHeld,
      Readmit, Reapprove, Reexpire, RestoreApproval, ReceiveLateDecision, ResettleApproval,
      CreateTurn, ResumeTurn, ReadApproval, PutApproval, NotifyApproval, InterruptTurn,
      LeaseExpires, OtherTurnStarts, OtherTurnEnds, ApprovalExpires, Crash, Recover, Leave
  <2>2. checkpoint'.phase = "waiting_approval" => asked' # <<>>
    <3>1. CASE UNCHANGED checkpoint
      BY <1>1, <3>1 DEF Askable
    <3>2. CASE CheckpointWaiting
      BY <1>1, <3>2 DEF CheckpointWaiting, Askable
    <3>3. CASE \/ CheckpointQueued \/ BeginStep \/ CheckpointRunning \/ CheckpointToolCompleted
               \/ CheckpointCompleted
      BY <3>3 DEF CheckpointQueued, BeginStep, CheckpointRunning, CheckpointToolCompleted,
        CheckpointCompleted, WriteCheckpoint
    <3> QED BY <3>1, <3>2, <3>3, CheckpointFrame
  <2> QED BY <2>1, <2>2
<1>3. \A i \in DOMAIN asked' : approvals'[asked'[i]] # "none"
  <2> USE DEF Askable, StoreOK, RunnerOK, ProcessOK, HandsFull, Holding, Asking, Reasking
  <2>1. CASE ProposeTool
    BY <2>1, ProposeAsked
  <2>2. CASE ApprovalTimesOut
    BY <2>2 DEF ApprovalTimesOut
  <2>3. CASE SettleApproval
    BY <2>3 DEF SettleApproval
  <2>4. CASE Reexpire
    BY <2>4 DEF Reexpire
  <2>5. CASE ResettleApproval
    BY <2>5 DEF ResettleApproval
  <2>6. CASE Recover
    BY <2>6 DEF Recover
  <2>7. ASSUME NEW o \in Operators, PutApproval(o)
        PROVE  \A i \in DOMAIN asked' : approvals'[asked'[i]] # "none"
    BY <2>7 DEF PutApproval
  <2> QED BY ApprovalFrame, <2>1, <2>2, <2>3, <2>4, <2>5, <2>6, <2>7 DEF StoreOK
<1> QED BY <1>2, <1>3 DEF Askable

\* What the runner has in hand.
LEMMA HandsKept ==
  ASSUME RunnerOK, StoreOK, ProcessOK, HandsFull, Askable, [Next]_vars
  PROVE  HandsFull'
<1> USE TurnAssumption DEF HandsFull, RunnerOK, StoreOK, ProcessOK, Checkpoints, Holding,
  Asking, Reasking, Batched, Goto, Finish, WriteCheckpoint, Deafen, Leave, runnerVars,
  turnVars, approvalVars, eventVars, historyVars, processVars
<1>1. CASE Admit
  BY <1>1 DEF Admit
<1>2. CASE CancelledBeforeAdmission
  BY <1>2 DEF CancelledBeforeAdmission
<1>3. CASE StartTurn
  BY <1>3 DEF StartTurn
<1>4. CASE CheckpointQueued
  BY <1>4 DEF CheckpointQueued
<1>5. CASE BeginStep
  BY <1>5 DEF BeginStep
<1>6. CASE MaxStepsExceeded
  BY <1>6 DEF MaxStepsExceeded
<1>7. CASE ModelCallsTools
  BY <1>7 DEF ModelCallsTools
<1>8. CASE ModelConcludes
  BY <1>8 DEF ModelConcludes
<1>9. CASE ModelFails
  BY <1>9 DEF ModelFails
<1>10. CASE ProposeTool
  BY <1>10 DEF ProposeTool
<1>11. CASE CheckpointWaiting
  BY <1>11 DEF CheckpointWaiting
<1>12. CASE ReceiveDecision
  BY <1>12 DEF ReceiveDecision
<1>13. CASE ApprovalTimesOut
  BY <1>13 DEF ApprovalTimesOut
<1>14. CASE CancelledWaiting
  BY <1>14 DEF CancelledWaiting
<1>15. CASE SettleApproval
  BY <1>15 DEF SettleApproval
<1>16. CASE CheckpointRunning
  BY <1>16 DEF CheckpointRunning
<1>17. CASE StartTool
  BY <1>17 DEF StartTool
<1>18. CASE ToolReturns
  BY <1>18 DEF ToolReturns
<1>19. CASE CancelledRunning
  BY <1>19 DEF CancelledRunning
<1>20. CASE EmitToolCompleted
  BY <1>20 DEF EmitToolCompleted
<1>21. CASE CheckpointToolCompleted
  BY <1>21 DEF CheckpointToolCompleted
<1>22. CASE CheckpointCompleted
  BY <1>22 DEF CheckpointCompleted
<1>23. CASE EmitTurnCompleted
  BY <1>23 DEF EmitTurnCompleted
<1>24. CASE CloseTurn
  BY <1>24 DEF CloseTurn
<1>25. CASE ReleaseLease
  BY <1>25 DEF ReleaseLease
<1>26. CASE AnnounceEnd
  BY <1>26 DEF AnnounceEnd
<1>27. CASE LeaseHeld
  BY <1>27 DEF LeaseHeld
<1>28. CASE Readmit
  BY <1>28 DEF Readmit, ResumePolicy
<1>29. CASE Reapprove
  <2>1. ApprovalForTurn \in Calls
    BY <1>29, ApprovalForTurnIsACall DEF Reapprove, Askable
  <2> QED BY <1>29, <2>1 DEF Reapprove
<1>30. CASE Reexpire
  BY <1>30 DEF Reexpire
<1>31. CASE RestoreApproval
  BY <1>31 DEF RestoreApproval
<1>32. CASE ReceiveLateDecision
  BY <1>32 DEF ReceiveLateDecision
<1>33. CASE ResettleApproval
  BY <1>33 DEF ResettleApproval
<1>34. CASE CreateTurn
  <2>1. pc = "idle"
    BY <1>34 DEF CreateTurn
  <2> QED BY <1>34, <2>1 DEF CreateTurn
<1>35. ASSUME NEW k \in ResumeKeys, ResumeTurn(k) PROVE HandsFull'
  <2>1. pc = "idle"
    BY <1>35 DEF ResumeTurn
  <2> QED BY <1>35, <2>1 DEF ResumeTurn
<1>36. ASSUME NEW o \in Operators, NEW c \in Calls, ReadApproval(o, c) PROVE HandsFull'
  BY <1>36 DEF ReadApproval
<1>37. ASSUME NEW o \in Operators, PutApproval(o) PROVE HandsFull'
  BY <1>37 DEF PutApproval
<1>38. ASSUME NEW o \in Operators, NotifyApproval(o) PROVE HandsFull'
  BY <1>38 DEF NotifyApproval
<1>39. CASE InterruptTurn
  BY <1>39 DEF InterruptTurn
<1>40. CASE LeaseExpires \/ OtherTurnStarts \/ OtherTurnEnds
  BY <1>40 DEF LeaseExpires, OtherTurnStarts, OtherTurnEnds
<1>41. ASSUME NEW c \in Calls, ApprovalExpires(c) PROVE HandsFull'
  BY <1>41 DEF ApprovalExpires
<1>42. CASE Crash
  BY <1>42 DEF Crash
<1>43. CASE Recover
  BY <1>43 DEF Recover
<1>44. CASE UNCHANGED vars
  BY <1>44 DEF vars
<1> QED BY <1>1, <1>2, <1>3, <1>4, <1>5, <1>6, <1>7, <1>8, <1>9, <1>10, <1>11, <1>12, <1>13,
  <1>14, <1>15, <1>16, <1>17, <1>18, <1>19, <1>20, <1>21, <1>22, <1>23, <1>24, <1>25, <1>26,
  <1>27, <1>28, <1>29, <1>30, <1>31, <1>32, <1>33, <1>34, <1>35, <1>36, <1>37, <1>38, <1>39,
  <1>40, <1>41, <1>42, <1>43, <1>44 DEF Next, RunnerStep

-----------------------------------------------------------------------------
(* Nothing that cannot be repeated is started twice. *)

\* The first call of the queue is taken from it; the others are other calls.
LEMMA ProposeQueue ==
  ASSUME RunnerOK, HandsFull, QueueFresh, ProposeTool
  PROVE  QueueFresh'
<1>1. queue \in Seq(Calls) /\ queue # <<>>
  BY DEF RunnerOK, HandsFull, ProposeTool
<1>2. Head(queue) = queue[1] /\ Tail(queue) \in Seq(Calls) /\ Len(Tail(queue)) = Len(queue) - 1
  BY <1>1
<1>3. \A i \in 1..(Len(queue) - 1) : Tail(queue)[i] = queue[i + 1]
  BY <1>1
<1>4. /\ cur' = queue[1] /\ queue' = Tail(queue)
      /\ UNCHANGED <<checkpoint, proposed, started, completed>>
  BY <1>2 DEF ProposeTool, turnVars, eventVars, historyVars
<1>5. /\ Len(queue) \in Nat /\ 1 \in DOMAIN queue
      /\ \A i \in DOMAIN queue' : i # 0 /\ i + 1 \in DOMAIN queue /\ queue'[i] = queue[i + 1]
  BY <1>1, <1>2, <1>3, <1>4
<1>6. /\ cur' \in proposed
      /\ \A i \in DOMAIN queue' : queue'[i] # cur' /\ queue'[i] \in proposed /\ Fresh(queue'[i])
  BY <1>4, <1>5 DEF QueueFresh
<1>7. \A i, j \in DOMAIN queue' : queue'[i] = queue'[j] => i = j
  <2> SUFFICES ASSUME NEW i \in DOMAIN queue', NEW j \in DOMAIN queue', queue'[i] = queue'[j]
               PROVE  i = j
    OBVIOUS
  <2>1. i + 1 = j + 1
    BY <1>5 DEF QueueFresh
  <2> QED BY <1>2, <1>4, <2>1
<1> QED BY <1>4, <1>6, <1>7 DEF QueueFresh, Fresh

\* The calls still to be made are new, and none is made twice.
LEMMA QueueFreshKept ==
  ASSUME RunnerOK, StoreOK, HistoryOK, HandsFull, QueueFresh, [Next]_vars
  PROVE  QueueFresh'
<1> USE TurnAssumption DEF QueueFresh, Fresh, RunnerOK, StoreOK, HistoryOK, HandsFull,
  Checkpoints, Holding, Asking, Reasking, Batched, Goto, Finish, WriteCheckpoint, Deafen,
  Leave, runnerVars, turnVars, approvalVars, eventVars, historyVars, processVars
<1>1. CASE Admit
  BY <1>1 DEF Admit
<1>2. CASE CancelledBeforeAdmission
  BY <1>2 DEF CancelledBeforeAdmission
<1>3. CASE StartTurn
  BY <1>3 DEF StartTurn
<1>4. CASE CheckpointQueued
  BY <1>4 DEF CheckpointQueued
<1>5. CASE BeginStep
  BY <1>5 DEF BeginStep
<1>6. CASE MaxStepsExceeded
  BY <1>6 DEF MaxStepsExceeded
<1>7. CASE ModelCallsTools
  BY <1>7 DEF ModelCallsTools
<1>8. CASE ModelConcludes
  BY <1>8 DEF ModelConcludes
<1>9. CASE ModelFails
  BY <1>9 DEF ModelFails
<1>10. CASE ProposeTool
  BY <1>10, ProposeQueue
<1>11. CASE CheckpointWaiting
  BY <1>11 DEF CheckpointWaiting
<1>12. CASE ReceiveDecision
  BY <1>12 DEF ReceiveDecision
<1>13. CASE ApprovalTimesOut
  BY <1>13 DEF ApprovalTimesOut
<1>14. CASE CancelledWaiting
  BY <1>14 DEF CancelledWaiting
<1>15. CASE SettleApproval
  BY <1>15 DEF SettleApproval
<1>16. CASE CheckpointRunning
  BY <1>16 DEF CheckpointRunning
<1>17. CASE StartTool
  BY <1>17 DEF StartTool
<1>18. CASE ToolReturns
  BY <1>18 DEF ToolReturns
<1>19. CASE CancelledRunning
  BY <1>19 DEF CancelledRunning
<1>20. CASE EmitToolCompleted
  BY <1>20 DEF EmitToolCompleted
<1>21. CASE CheckpointToolCompleted
  BY <1>21 DEF CheckpointToolCompleted
<1>22. CASE CheckpointCompleted
  BY <1>22 DEF CheckpointCompleted
<1>23. CASE EmitTurnCompleted
  BY <1>23 DEF EmitTurnCompleted
<1>24. CASE CloseTurn
  BY <1>24 DEF CloseTurn
<1>25. CASE ReleaseLease
  <2>1. CASE Leave
    BY <1>25, <2>1 DEF ReleaseLease
  <2>2. CASE Goto("announce") /\ UNCHANGED <<cur, queue>>
    BY <1>25, <2>2 DEF ReleaseLease
  <2> QED BY <1>25, <2>1, <2>2 DEF ReleaseLease
<1>26. CASE AnnounceEnd
  BY <1>26 DEF AnnounceEnd
<1>27. CASE LeaseHeld
  BY <1>27 DEF LeaseHeld
<1>28. CASE Readmit
  BY SMTT(30), <1>28 DEF Readmit, ResumePolicy
<1>29. CASE Reapprove
  BY <1>29 DEF Reapprove
<1>30. CASE Reexpire
  BY <1>30 DEF Reexpire
<1>31. CASE RestoreApproval
  BY <1>31 DEF RestoreApproval
<1>32. CASE ReceiveLateDecision
  BY <1>32 DEF ReceiveLateDecision
<1>33. CASE ResettleApproval
  BY <1>33 DEF ResettleApproval
<1>34. CASE CreateTurn
  BY <1>34 DEF CreateTurn
<1>35. ASSUME NEW k \in ResumeKeys, ResumeTurn(k) PROVE QueueFresh'
  BY <1>35 DEF ResumeTurn
<1>36. ASSUME NEW o \in Operators, NEW c \in Calls, ReadApproval(o, c) PROVE QueueFresh'
  BY <1>36 DEF ReadApproval
<1>37. ASSUME NEW o \in Operators, PutApproval(o) PROVE QueueFresh'
  BY <1>37 DEF PutApproval
<1>38. ASSUME NEW o \in Operators, NotifyApproval(o) PROVE QueueFresh'
  BY <1>38 DEF NotifyApproval
<1>39. CASE InterruptTurn
  BY <1>39 DEF InterruptTurn
<1>40. CASE LeaseExpires \/ OtherTurnStarts \/ OtherTurnEnds
  BY <1>40 DEF LeaseExpires, OtherTurnStarts, OtherTurnEnds
<1>41. ASSUME NEW c \in Calls, ApprovalExpires(c) PROVE QueueFresh'
  BY <1>41 DEF ApprovalExpires
<1>42. CASE Crash
  BY <1>42 DEF Crash
<1>43. CASE Recover
  BY <1>43 DEF Recover
<1>44. CASE UNCHANGED vars
  BY <1>44 DEF vars
<1> QED BY <1>1, <1>2, <1>3, <1>4, <1>5, <1>6, <1>7, <1>8, <1>9, <1>10, <1>11, <1>12, <1>13,
  <1>14, <1>15, <1>16, <1>17, <1>18, <1>19, <1>20, <1>21, <1>22, <1>23, <1>24, <1>25, <1>26,
  <1>27, <1>28, <1>29, <1>30, <1>31, <1>32, <1>33, <1>34, <1>35, <1>36, <1>37, <1>38, <1>39,
  <1>40, <1>41, <1>42, <1>43, <1>44 DEF Next, RunnerStep

\* What may be started has not been started, and what may be recorded has no result.
LEMMA CurFreshKept ==
  ASSUME RunnerOK, StoreOK, HistoryOK, HandsFull, QueueFresh, CurFresh, [Next]_vars
  PROVE  CurFresh'
<1> USE TurnAssumption DEF CurFresh, QueueFresh, Fresh, RunnerOK, StoreOK, HistoryOK,
  HandsFull, Checkpoints, Holding, Asking, Reasking, Batched, Goto, Finish, WriteCheckpoint,
  Deafen, Leave, runnerVars, turnVars, approvalVars, eventVars, historyVars, processVars
<1>1. CASE Admit
  BY <1>1 DEF Admit
<1>2. CASE CancelledBeforeAdmission
  BY <1>2 DEF CancelledBeforeAdmission
<1>3. CASE StartTurn
  BY <1>3 DEF StartTurn
<1>4. CASE CheckpointQueued
  BY <1>4 DEF CheckpointQueued
<1>5. CASE BeginStep
  BY <1>5 DEF BeginStep
<1>6. CASE MaxStepsExceeded
  BY <1>6 DEF MaxStepsExceeded
<1>7. CASE ModelCallsTools
  BY <1>7 DEF ModelCallsTools
<1>8. CASE ModelConcludes
  BY <1>8 DEF ModelConcludes
<1>9. CASE ModelFails
  BY <1>9 DEF ModelFails
<1>10. CASE ProposeTool
  BY <1>10 DEF ProposeTool, Asks
<1>11. CASE CheckpointWaiting
  BY <1>11 DEF CheckpointWaiting
<1>12. CASE ReceiveDecision
  BY <1>12 DEF ReceiveDecision
<1>13. CASE ApprovalTimesOut
  BY <1>13 DEF ApprovalTimesOut
<1>14. CASE CancelledWaiting
  BY <1>14 DEF CancelledWaiting
<1>15. CASE SettleApproval
  BY <1>15 DEF SettleApproval
<1>16. CASE CheckpointRunning
  BY <1>16 DEF CheckpointRunning
<1>17. CASE StartTool
  BY <1>17 DEF StartTool
<1>18. CASE ToolReturns
  BY <1>18 DEF ToolReturns
<1>19. CASE CancelledRunning
  BY <1>19 DEF CancelledRunning
<1>20. CASE EmitToolCompleted
  BY <1>20 DEF EmitToolCompleted
<1>21. CASE CheckpointToolCompleted
  BY <1>21 DEF CheckpointToolCompleted
<1>22. CASE CheckpointCompleted
  BY <1>22 DEF CheckpointCompleted
<1>23. CASE EmitTurnCompleted
  BY <1>23 DEF EmitTurnCompleted
<1>24. CASE CloseTurn
  BY <1>24 DEF CloseTurn
<1>25. CASE ReleaseLease
  BY <1>25 DEF ReleaseLease
<1>26. CASE AnnounceEnd
  BY <1>26 DEF AnnounceEnd
<1>27. CASE LeaseHeld
  BY <1>27 DEF LeaseHeld
<1>28. CASE Readmit
  BY SMTT(30), <1>28 DEF Readmit, ResumePolicy
<1>29. CASE Reapprove
  BY <1>29 DEF Reapprove
<1>30. CASE Reexpire
  BY <1>30 DEF Reexpire
<1>31. CASE RestoreApproval
  BY <1>31 DEF RestoreApproval
<1>32. CASE ReceiveLateDecision
  BY <1>32 DEF ReceiveLateDecision
<1>33. CASE ResettleApproval
  BY <1>33 DEF ResettleApproval
<1>34. CASE CreateTurn
  BY <1>34 DEF CreateTurn
<1>35. ASSUME NEW k \in ResumeKeys, ResumeTurn(k) PROVE CurFresh'
  BY <1>35 DEF ResumeTurn
<1>36. ASSUME NEW o \in Operators, NEW c \in Calls, ReadApproval(o, c) PROVE CurFresh'
  BY <1>36 DEF ReadApproval
<1>37. ASSUME NEW o \in Operators, PutApproval(o) PROVE CurFresh'
  BY <1>37 DEF PutApproval
<1>38. ASSUME NEW o \in Operators, NotifyApproval(o) PROVE CurFresh'
  BY <1>38 DEF NotifyApproval
<1>39. CASE InterruptTurn
  BY <1>39 DEF InterruptTurn
<1>40. CASE LeaseExpires \/ OtherTurnStarts \/ OtherTurnEnds
  BY <1>40 DEF LeaseExpires, OtherTurnStarts, OtherTurnEnds
<1>41. ASSUME NEW c \in Calls, ApprovalExpires(c) PROVE CurFresh'
  BY <1>41 DEF ApprovalExpires
<1>42. CASE Crash
  BY <1>42 DEF Crash
<1>43. CASE Recover
  BY <1>43 DEF Recover
<1>44. CASE UNCHANGED vars
  BY <1>44 DEF vars
<1> QED BY <1>1, <1>2, <1>3, <1>4, <1>5, <1>6, <1>7, <1>8, <1>9, <1>10, <1>11, <1>12, <1>13,
  <1>14, <1>15, <1>16, <1>17, <1>18, <1>19, <1>20, <1>21, <1>22, <1>23, <1>24, <1>25, <1>26,
  <1>27, <1>28, <1>29, <1>30, <1>31, <1>32, <1>33, <1>34, <1>35, <1>36, <1>37, <1>38, <1>39,
  <1>40, <1>41, <1>42, <1>43, <1>44 DEF Next, RunnerStep

\* A step keeps all of it.
LEMMA StartKept ==
  ASSUME RunnerOK, StoreOK, ProcessOK, HistoryOK, HandsFull, StartInv, [Next]_vars
  PROVE  StartInv'
<1>1. QueueFresh' /\ CurFresh'
  BY QueueFreshKept, CurFreshKept DEF StartInv
<1>2. UnrepeatableStartedAtMostOnce'
  <2>1. CASE ModelCallsTools
    BY <2>1 DEF ModelCallsTools, StartInv, UnrepeatableStartedAtMostOnce
  <2>2. CASE StartTool
    BY <2>2 DEF StartTool, StartInv, CurFresh, UnrepeatableStartedAtMostOnce, HandsFull, Holding,
      HistoryOK
  <2>3. ASSUME NEW o \in Operators, PutApproval(o) PROVE UnrepeatableStartedAtMostOnce'
    BY <2>3 DEF PutApproval, StartInv, UnrepeatableStartedAtMostOnce
  <2> QED BY HistoryFrame, <2>1, <2>2, <2>3 DEF historyVars, StartInv,
    UnrepeatableStartedAtMostOnce
<1>3. ResultRecordedOnce'
  <2>1. CASE EmitToolCompleted
    BY <2>1 DEF EmitToolCompleted, StartInv, CurFresh, ResultRecordedOnce, HandsFull, Holding,
      StoreOK
  <2>2. CASE EmitTurnCompleted
    BY <2>2 DEF EmitTurnCompleted, StartInv, ResultRecordedOnce, eventVars
  <2>3. CASE AnnounceEnd
    BY <2>3 DEF AnnounceEnd, StartInv, ResultRecordedOnce, eventVars
  <2>4. ASSUME NEW k \in ResumeKeys, ResumeTurn(k) PROVE ResultRecordedOnce'
    BY <2>4 DEF ResumeTurn, StartInv, ResultRecordedOnce, eventVars
  <2> QED BY EventFrame, <2>1, <2>2, <2>3, <2>4 DEF StartInv, ResultRecordedOnce
<1> QED BY <1>1, <1>2, <1>3 DEF StartInv

-----------------------------------------------------------------------------
(* Nothing runs that an operator did not grant. *)

\* approval_request_hash tells any two calls apart.
HashesDiffer == \A c, d \in Calls : RequestHash[c] = RequestHash[d] => c = d

\* The resumed turn acts on the approval it was given: that of its own call.
LEMMA CoversOwn ==
  ASSUME HashesDiffer, NEW a \in Calls, cur \in Calls, ApprovalCovers(a)
  PROVE  a = cur
BY DEF HashesDiffer, ApprovalCovers

\* Consent comes from an operator, and is not lost on its way to the runner.
LEMMA ConsentKept ==
  ASSUME HashesDiffer, RunnerOK, StoreOK, ProcessOK, HistoryOK, FlagsOK, HandsFull, Askable,
         ConsentInv, [Next]_vars
  PROVE  ConsentInv'
<1> USE TurnAssumption, CoversOwn DEF ConsentInv, OnlyConsentedToolsRun, RunnerOK, StoreOK,
  ProcessOK, HistoryOK, HandsFull, Checkpoints, Holding, Asking, Reasking, Goto, Finish,
  WriteCheckpoint, Deafen, Leave, runnerVars, turnVars, approvalVars, eventVars,
  historyVars, processVars
<1>1. CASE Admit
  BY <1>1 DEF Admit
<1>2. CASE CancelledBeforeAdmission
  BY <1>2 DEF CancelledBeforeAdmission
<1>3. CASE StartTurn
  BY <1>3 DEF StartTurn
<1>4. CASE CheckpointQueued
  BY <1>4 DEF CheckpointQueued
<1>5. CASE BeginStep
  BY <1>5 DEF BeginStep
<1>6. CASE MaxStepsExceeded
  BY <1>6 DEF MaxStepsExceeded
<1>7. CASE ModelCallsTools
  BY <1>7 DEF ModelCallsTools
<1>8. CASE ModelConcludes
  BY <1>8 DEF ModelConcludes
<1>9. CASE ModelFails
  BY <1>9 DEF ModelFails
<1>10. CASE ProposeTool
  BY <1>10 DEF ProposeTool, Asks
<1>11. CASE CheckpointWaiting
  BY <1>11 DEF CheckpointWaiting
<1>12. CASE ReceiveDecision
  BY <1>12 DEF ReceiveDecision
<1>13. CASE ApprovalTimesOut
  BY <1>13 DEF ApprovalTimesOut
<1>14. CASE CancelledWaiting
  BY <1>14 DEF CancelledWaiting
<1>15. CASE SettleApproval
  BY <1>15 DEF SettleApproval
<1>16. CASE CheckpointRunning
  BY <1>16 DEF CheckpointRunning
<1>17. CASE StartTool
  BY <1>17 DEF StartTool
<1>18. CASE ToolReturns
  BY <1>18 DEF ToolReturns
<1>19. CASE CancelledRunning
  BY <1>19 DEF CancelledRunning
<1>20. CASE EmitToolCompleted
  BY <1>20 DEF EmitToolCompleted
<1>21. CASE CheckpointToolCompleted
  BY <1>21 DEF CheckpointToolCompleted
<1>22. CASE CheckpointCompleted
  BY <1>22 DEF CheckpointCompleted
<1>23. CASE EmitTurnCompleted
  BY <1>23 DEF EmitTurnCompleted
<1>24. CASE CloseTurn
  BY <1>24 DEF CloseTurn
<1>25. CASE ReleaseLease
  BY <1>25 DEF ReleaseLease
<1>26. CASE AnnounceEnd
  BY <1>26 DEF AnnounceEnd
<1>27. CASE LeaseHeld
  BY <1>27 DEF LeaseHeld
<1>28. CASE Readmit
  BY <1>28 DEF Readmit, ResumePolicy
<1>29. CASE Reapprove
  <2>1. ApprovalForTurn \in Calls
    BY <1>29, ApprovalForTurnIsACall DEF Reapprove, Askable
  <2> QED BY <1>29, <2>1 DEF Reapprove
<1>30. CASE Reexpire
  BY <1>30 DEF Reexpire
<1>31. CASE RestoreApproval
  BY <1>31 DEF RestoreApproval
<1>32. CASE ReceiveLateDecision
  BY <1>32 DEF ReceiveLateDecision
<1>33. CASE ResettleApproval
  BY <1>33 DEF ResettleApproval
<1>34. CASE CreateTurn
  BY <1>34 DEF CreateTurn
<1>35. ASSUME NEW k \in ResumeKeys, ResumeTurn(k) PROVE ConsentInv'
  BY <1>35 DEF ResumeTurn
<1>36. ASSUME NEW o \in Operators, NEW c \in Calls, ReadApproval(o, c) PROVE ConsentInv'
  BY <1>36 DEF ReadApproval
<1>37. ASSUME NEW o \in Operators, PutApproval(o) PROVE ConsentInv'
  BY SMTT(30), <1>37 DEF PutApproval
<1>38. ASSUME NEW o \in Operators, NotifyApproval(o) PROVE ConsentInv'
  BY <1>38 DEF NotifyApproval
<1>39. CASE InterruptTurn
  BY <1>39 DEF InterruptTurn
<1>40. CASE LeaseExpires \/ OtherTurnStarts \/ OtherTurnEnds
  BY <1>40 DEF LeaseExpires, OtherTurnStarts, OtherTurnEnds
<1>41. ASSUME NEW c \in Calls, ApprovalExpires(c) PROVE ConsentInv'
  BY <1>41 DEF ApprovalExpires
<1>42. CASE Crash
  BY <1>42 DEF Crash
<1>43. CASE Recover
  BY <1>43 DEF Recover
<1>44. CASE UNCHANGED vars
  BY <1>44 DEF vars
<1> QED BY <1>1, <1>2, <1>3, <1>4, <1>5, <1>6, <1>7, <1>8, <1>9, <1>10, <1>11, <1>12, <1>13,
  <1>14, <1>15, <1>16, <1>17, <1>18, <1>19, <1>20, <1>21, <1>22, <1>23, <1>24, <1>25, <1>26,
  <1>27, <1>28, <1>29, <1>30, <1>31, <1>32, <1>33, <1>34, <1>35, <1>36, <1>37, <1>38, <1>39,
  <1>40, <1>41, <1>42, <1>43, <1>44 DEF Next, RunnerStep

-----------------------------------------------------------------------------
(* The theorems. *)

\* Types, with what makes them inductive.
TypeInv == RunnerOK /\ StoreOK /\ ProcessOK /\ HistoryOK /\ FlagsOK /\ HandsFull /\ Askable

\* A store without turns is well typed.
LEMMA TypeInvInit == Init => TypeInv
<1> SUFFICES ASSUME Init PROVE TypeInv
  OBVIOUS
<1>1. RunnerOK /\ StoreOK /\ ProcessOK /\ HistoryOK
  BY TurnAssumption DEF Init, RunnerOK, StoreOK, ProcessOK, HistoryOK, Locations,
    Checkpoints
<1>2. FlagsOK
  BY DEF Init, FlagsOK
<1>3. HandsFull /\ Askable
  BY DEF Init, HandsFull, Askable, Holding, Asking, Reasking, Batched
<1> QED BY <1>1, <1>2, <1>3 DEF TypeInv

\* Every step keeps the types.
LEMMA TypeInvStep == TypeInv /\ [Next]_vars => TypeInv'
BY RunnerTyped, StoreTyped, ProcessTyped, HistoryTyped, FlagsTyped, HandsKept, AskableKept
DEF TypeInv

\* Whatever the model calls, operators decide, clients resume and crashes interrupt, the
\* runner, the store and the broker hold what the code declares; the runner never acts on a
\* call or an approval it does not have (execute_tool, resume_pending_tool).
THEOREM TypeCorrect == Spec => []TypeOK
<1>1. TypeInv => TypeOK
  BY TypeParts DEF TypeInv
<1> QED BY <1>1, TypeInvInit, TypeInvStep, PTL DEF Spec

\* Nothing has been started in a store without turns.
LEMMA StartInit == Init => StartInv
BY DEF Init, StartInv, QueueFresh, CurFresh, Fresh, Holding, Asking,
  UnrepeatableStartedAtMostOnce, ResultRecordedOnce

\* The types and what may still be started, together.
LEMMA StartAlways == Spec => [](TypeInv /\ StartInv)
<1>1. TypeInv /\ StartInv /\ [Next]_vars => StartInv'
  BY StartKept DEF TypeInv
<1> QED BY <1>1, TypeInvInit, TypeInvStep, StartInit, PTL DEF Spec

\* A tool that cannot be repeated is started at most once: the tool_running checkpoint is
\* written before the start, and classify_tool_running refuses to start it again.
THEOREM UnrepeatableOnce == Spec => []UnrepeatableStartedAtMostOnce
<1>1. StartInv => UnrepeatableStartedAtMostOnce
  BY DEF StartInv
<1> QED BY <1>1, StartAlways, PTL

\* A call nobody was asked about has one result at most: the event goes before the
\* checkpoint, and the resume looks for the event (emit_tool_result, completed_tools).
THEOREM ResultOnce == Spec => []ResultRecordedOnce
<1>1. StartInv => ResultRecordedOnce
  BY DEF StartInv
<1> QED BY <1>1, StartAlways, PTL

\* Nobody has granted anything in a store without turns.
LEMMA ConsentInit == Init => ConsentInv
BY DEF Init, ConsentInv, OnlyConsentedToolsRun

\* When approval_request_hash tells the calls of a turn apart, a tool that asks runs only
\* with the consent an operator gave to that call, whichever way the decision reaches the
\* runner: the channel, the record, or both after a restart (execute_tool,
\* resume_pending_tool, resolve_approval).
THEOREM ConsentedOnly ==
  ASSUME HashesDiffer
  PROVE  Spec => []OnlyConsentedToolsRun
<1>1. TypeInv /\ ConsentInv /\ [Next]_vars => ConsentInv'
  BY HashesDiffer, ConsentKept DEF TypeInv
<1>2. ConsentInv => OnlyConsentedToolsRun
  BY DEF ConsentInv
<1> QED BY <1>1, <1>2, TypeInvInit, TypeInvStep, ConsentInit, PTL DEF Spec
=============================================================================
