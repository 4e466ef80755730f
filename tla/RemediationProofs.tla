-------------------------- MODULE RemediationProofs --------------------------
(***************************************************************************)
(* Theorems about Remediation, for any number of actions, requests and     *)
(* approvers, any configuration, and any number of drifts and crashes.     *)
(* With one approver at a time, moreover, every action moves along its     *)
(* status machine and sends one change at most: Remediation implements     *)
(* ActionLifecycle, and what is on record, in the audit log and in events  *)
(* never tells a different story.                                          *)
(***************************************************************************)
EXTENDS Remediation, TLAPS

-----------------------------------------------------------------------------
(* Records. *)

\* A new proposal is a record.
LEMMA BuiltIsRecord ==
  ASSUME NEW a \in ActionIds, NEW kind \in Kinds
  PROVE  BuildAction(a, kind) \in ActionRecords
BY DEF BuildAction, ActionRecords, Hashes, Statuses, Kinds

\* Giving a record another status changes its status only.
LEMMA StatusOfRecord ==
  ASSUME NEW rec \in ActionRecords, NEW s \in Statuses
  PROVE  /\ [rec EXCEPT !.status = s] \in ActionRecords
         /\ [rec EXCEPT !.status = s].status = s
         /\ [rec EXCEPT !.status = s].kind = rec.kind
         /\ [rec EXCEPT !.status = s].rv = rec.rv
         /\ [rec EXCEPT !.status = s].hash = rec.hash
         /\ [rec EXCEPT !.status = s].consumed = rec.consumed
BY DEF ActionRecords

\* So is what stands for an id without a row.
LEMMA AbsentIsRecord ==
  ASSUME NEW a \in ActionIds
  PROVE  AbsentRecord(a) \in ActionRecords
<1>1. BuildAction(a, "demo_fault_reset") \in ActionRecords
  BY BuiltIsRecord DEF Kinds
<1> QED BY <1>1 DEF AbsentRecord, ActionRecords, Statuses

\* So is the copy of a handler that runs nothing.
LEMMA BlankIsRecord == Blank \in ActionRecords
<1>1. PICK b \in ActionIds : b = CHOOSE a \in ActionIds : TRUE
  BY ConstantsAssumption
<1> QED BY <1>1, AbsentIsRecord DEF Blank

-----------------------------------------------------------------------------
(* Type correctness. *)

\* The part of TypeOK that is about the handlers.
HandlersOK ==
  /\ pc \in [Requests -> Locations]
  /\ on \in [Requests -> ActionIds \cup {NoAction}]
  /\ copy \in [Requests -> ActionRecords]
  /\ todo \in [Requests -> SUBSET StoreCalls]

\* The shapes of handler steps keep the types.
LEMMA BeginType ==
  ASSUME HandlersOK, NEW r \in Requests, NEW a \in ActionIds, NEW rec \in ActionRecords,
         NEW calls \in SUBSET StoreCalls, NEW l \in Locations, Begin(r, a, rec, calls, l)
  PROVE  HandlersOK'
BY DEF HandlersOK, Begin

\* ... giving the copy a status, with calls to make.
LEMMA ResolveType ==
  ASSUME HandlersOK, NEW r \in Requests, NEW rec \in ActionRecords,
         NEW calls \in SUBSET StoreCalls, NEW l \in Locations, Resolve(r, rec, calls, l)
  PROVE  HandlersOK'
BY DEF HandlersOK, Resolve

\* ... going on.
LEMMA GotoType ==
  ASSUME HandlersOK, NEW r \in Requests, NEW l \in Locations, Goto(r, l)
  PROVE  HandlersOK'
BY DEF HandlersOK, Goto

\* ... returning.
LEMMA ReleaseType ==
  ASSUME HandlersOK, NEW r \in Requests, Release(r)
  PROVE  HandlersOK'
BY BlankIsRecord DEF HandlersOK, Release, Locations

\* ... having made a store call.
LEMMA CalledType ==
  ASSUME HandlersOK, NEW r \in Requests, NEW call, Called(r, call)
  PROVE  HandlersOK'
<1>1. CASE todo[r] = {call} /\ pc[r] = "idle"
  BY <1>1, ReleaseType DEF Called
<1>2. CASE ~(todo[r] = {call} /\ pc[r] = "idle")
  BY <1>2 DEF HandlersOK, Called
<1> QED BY <1>1, <1>2

\* A forsaken change request is a change request.
LEMMA ForsakeType ==
  ASSUME wire \subseteq Messages, NEW rs \in SUBSET Requests, Forsake(rs)
  PROVE  wire' \subseteq Messages
<1> SUFFICES ASSUME NEW m \in wire' PROVE m \in Messages
  OBVIOUS
<1>1. CASE m \in wire
  BY <1>1
<1>2. CASE m \notin wire
  <2>1. PICK w \in wire : m = [w EXCEPT !.to = NoRequest]
    BY <1>2 DEF Forsake
  <2> QED BY <2>1 DEF Messages
<1> QED BY <1>1, <1>2

\* The types hold at the start.
LEMMA TypeInit == Init => TypeOK
<1> SUFFICES ASSUME Init PROVE TypeOK
  OBVIOUS
<1> QED BY AbsentIsRecord, BlankIsRecord, ConstantsAssumption
        DEF Init, TypeOK, Locations, Kinds, Statuses

\* The part that is about everything else.
RestOK ==
  /\ phase \in {"up", "down", "recovering"}
  /\ killSwitch \in BOOLEAN
  /\ mutationCount \in Nat
  /\ actions \in [ActionIds -> ActionRecords]
  /\ audited \in [ActionIds -> SUBSET Statuses]
  /\ announced \in [ActionIds -> Statuses]
  /\ unannounced \in ActionIds \cup {NoAction}
  /\ pastExpiry \subseteq ActionIds
  /\ target \in [Kinds -> [rv : Nat, asWanted : BOOLEAN]]
  /\ wire \subseteq Messages
  /\ sent \in [ActionIds -> Nat]
  /\ applied \in [ActionIds -> Nat]
  /\ granted \in [ActionIds -> SUBSET Hashes]
  /\ dropped \subseteq ActionIds
  /\ drift \in Nat
  /\ crashes \in Nat

\* The two parts make up the whole.
LEMMA TypeParts == TypeOK <=> HandlersOK /\ RestOK
BY DEF TypeOK, HandlersOK, RestOK

\* A handler that is somewhere, or has calls to make, works on an action.
Occupied == \A r \in Requests : pc[r] # "idle" \/ todo[r] # {} => on[r] \in ActionIds

\* No step leaves a handler at work on nothing.
LEMMA OccupiedStep ==
  ASSUME TypeOK, Occupied, [Next]_vars
  PROVE  Occupied'
<1> USE DEF Occupied
<1>1. ASSUME NEW r \in Requests, NEW a \in ActionIds, NEW rec, NEW calls, NEW l,
             Begin(r, a, rec, calls, l)
      PROVE  Occupied'
  BY <1>1 DEF Begin, TypeOK
<1>2. ASSUME NEW r \in Requests, NEW rec, NEW calls, NEW l, on[r] \in ActionIds,
             Resolve(r, rec, calls, l)
      PROVE  Occupied'
  BY <1>2 DEF Resolve, TypeOK
<1>3. ASSUME NEW r \in Requests, NEW l, on[r] \in ActionIds, Goto(r, l)
      PROVE  Occupied'
  BY <1>3 DEF Goto, TypeOK
<1>4. ASSUME NEW r \in Requests, Release(r)
      PROVE  Occupied'
  BY <1>4 DEF Release, TypeOK
<1>5. ASSUME NEW r \in Requests, NEW call, call \in todo[r], Called(r, call)
      PROVE  Occupied'
  BY <1>4, <1>5 DEF Called, TypeOK
<1>6. ASSUME UNCHANGED handlerVars
      PROVE  Occupied'
  BY <1>6 DEF handlerVars
<1>7. ASSUME NEW r \in Requests, HandlerStep(r)
      PROVE  Occupied'
  BY <1>2, <1>3, <1>4, <1>5, <1>7
     DEF HandlerStep, PutAction, AppendAudit, EmitAction, DryRunFailed, DryRunUncertain,
         DryRunPassed, ClaimExpired, ClaimRefused, ClaimAction, PreconditionsFailed,
         PreconditionsHold, RunnerReadFailed, RunnerRead, SendChange, ChangeAccepted,
         ChangeRefused, ChangeTimedOut, VerifyFailed, Verify, At, NeedsReconciliation
<1>8. ASSUME NEW r \in Requests, RequestArrives(r)
      PROVE  Occupied'
  BY <1>1, <1>8 DEF RequestArrives, ProposeActionPlan, ApproveTooLate, ApproveAction,
                    ExecuteAction
<1> QED
  BY <1>4, <1>6, <1>7, <1>8
     DEF Next, vars, DropRequest, TargetStep, ApplyChange, RefuseChange, TargetDrifts,
         ApprovalExpires, SetKillSwitch, Crash, Startup, Restart, RecoverAction,
         RecoverAnnounce, Serve, handlerVars

\* Every record a handler or recovery writes is one.
LEMMA HandlersStep ==
  ASSUME TypeOK, Occupied, [Next]_vars
  PROVE  HandlersOK'
<1>0. HandlersOK /\ RestOK
  BY TypeParts
<1>1. ASSUME NEW r \in Requests, HandlerStep(r)
      PROVE  HandlersOK'
  <2>1. copy[r] \in ActionRecords
    BY <1>0 DEF HandlersOK
  <2>2. /\ {} \in SUBSET StoreCalls /\ {"put"} \in SUBSET StoreCalls
        /\ {"emit"} \in SUBSET StoreCalls /\ {"put", "emit"} \in SUBSET StoreCalls
        /\ {"put", "audit", "emit"} \in SUBSET StoreCalls
    BY DEF StoreCalls
  <2>3. \A l \in {"idle", "dry", "claim", "check", "run", "mutate", "await", "verify"} :
          l \in Locations
    BY DEF Locations
  <2>4. \A s \in Statuses : [copy[r] EXCEPT !.status = s] \in ActionRecords
    BY <2>1, StatusOfRecord
  <2>5. {"invalid", "awaiting_approval", "stale", "executing", "needs_reconciliation",
         "succeeded", "rollback_proposed", "precondition_check"} \subseteq Statuses
    BY DEF Statuses
  <2>6. ASSUME PutAction(r) \/ AppendAudit(r) \/ EmitAction(r)
        PROVE  HandlersOK'
    BY <1>0, <2>6, CalledType DEF PutAction, AppendAudit, EmitAction
  <2>7. ASSUME DryRunFailed(r) \/ ClaimExpired(r) \/ ClaimRefused(r)
        PROVE  HandlersOK'
    BY <1>0, <2>7, ReleaseType DEF DryRunFailed, ClaimExpired, ClaimRefused
  <2>8. ASSUME NeedsReconciliation(r)
        PROVE  HandlersOK'
    BY <1>0, <2>2, <2>3, <2>4, <2>5, <2>8, ResolveType DEF NeedsReconciliation
  <2>9. ASSUME DryRunPassed(r)
        PROVE  HandlersOK'
    <3> DEFINE rec == [copy[r] EXCEPT !.status = "awaiting_approval",
                                      !.rv = DryRunPreconditions(copy[r].kind)]
               pinned == [rec EXCEPT !.hash = ActionRequestHash(on[r], rec)]
    <3>1. on[r] \in ActionIds
      BY <2>9 DEF Occupied, DryRunPassed, At
    <3>2. copy[r].kind \in Kinds /\ DryRunPreconditions(copy[r].kind) \in Nat
      BY <1>0, <2>1 DEF RestOK, DryRunPreconditions, ActionRecords
    <3>3. rec \in ActionRecords
      BY <2>1, <3>2 DEF ActionRecords, Statuses
    <3>4. ActionRequestHash(on[r], rec) \in Hashes
      BY <3>1, <3>3 DEF ActionRequestHash, Hashes, ActionRecords
    <3>5. pinned \in ActionRecords
      BY <3>3, <3>4 DEF ActionRecords
    <3>6. Resolve(r, pinned, {"put", "audit", "emit"}, "idle")
      BY <2>9 DEF DryRunPassed
    <3> QED BY <1>0, <2>2, <2>3, <3>5, <3>6, ResolveType
  <2>10. ASSUME ClaimAction(r)
         PROVE  HandlersOK'
    <3>1. on[r] \in ActionIds
      BY <2>10 DEF Occupied, ClaimAction, At
    <3>2. [actions[on[r]] EXCEPT !.status = "precondition_check"] \in ActionRecords
      BY <1>0, <2>5, <3>1, StatusOfRecord DEF RestOK
    <3> QED BY <1>0, <2>2, <2>3, <2>10, <3>2, ResolveType DEF ClaimAction
  <2>11. ASSUME DryRunUncertain(r) \/ PreconditionsFailed(r) \/ PreconditionsHold(r)
         PROVE  HandlersOK'
    BY <1>0, <2>2, <2>3, <2>4, <2>5, <2>11, ResolveType
       DEF DryRunUncertain, PreconditionsFailed, PreconditionsHold
  <2>12. ASSUME Verify(r)
         PROVE  HandlersOK'
    <3>1. PICK v \in Verified(copy[r].kind) :
            Resolve(r, [copy[r] EXCEPT !.status = IF v THEN "succeeded"
                                                        ELSE "rollback_proposed"],
                    {"put", "audit", "emit"}, "idle")
      BY <2>12 DEF Verify
    <3>2. (IF v THEN "succeeded" ELSE "rollback_proposed") \in Statuses
      BY <2>5
    <3> QED BY <1>0, <2>2, <2>3, <2>4, <3>1, <3>2, ResolveType
  <2>13. ASSUME RunnerRead(r) \/ SendChange(r) \/ ChangeAccepted(r)
         PROVE  HandlersOK'
    BY <1>0, <2>3, <2>13, GotoType DEF RunnerRead, SendChange, ChangeAccepted
  <2> QED BY <1>1, <2>6, <2>7, <2>8, <2>9, <2>10, <2>11, <2>12, <2>13
          DEF HandlerStep, RunnerReadFailed, ChangeRefused, ChangeTimedOut, VerifyFailed
<1>2. ASSUME NEW r \in Requests, RequestArrives(r)
      PROVE  HandlersOK'
  <2>1. \A kind \in Kinds, a \in ActionIds, s \in Statuses :
          [BuildAction(a, kind) EXCEPT !.status = s] \in ActionRecords
    BY BuiltIsRecord, StatusOfRecord
  <2>2. /\ {} \in SUBSET StoreCalls /\ {"put"} \in SUBSET StoreCalls
        /\ {"put", "audit", "emit"} \in SUBSET StoreCalls
        /\ {"idle", "dry", "claim"} \subseteq Locations
        /\ {"policy_denied", "dry_run", "expired", "authorized", "rejected"} \subseteq Statuses
        /\ Registered \subseteq Kinds
    BY ConstantsAssumption DEF StoreCalls, Locations, Statuses, Kinds
  <2>3. \A a \in ActionIds : actions[a] \in ActionRecords
    BY <1>0 DEF RestOK
  <2>4. ASSUME NEW a \in ActionIds, NEW kind \in Registered, ProposeActionPlan(r, a, kind)
        PROVE  HandlersOK'
    BY <1>0, <2>1, <2>2, <2>4, BeginType DEF ProposeActionPlan
  <2>5. ASSUME NEW a \in ActionIds, ApproveTooLate(r, a)
        PROVE  HandlersOK'
    BY <1>0, <2>2, <2>3, <2>5, BeginType, StatusOfRecord DEF ApproveTooLate
  <2>6. ASSUME NEW a \in ActionIds, NEW hash, NEW approved \in BOOLEAN,
               ApproveAction(r, a, hash, approved)
        PROVE  HandlersOK'
    <3> DEFINE s == IF approved THEN "authorized" ELSE "rejected"
               rec == [actions[a] EXCEPT !.status = s, !.consumed = approved]
    <3>1. s \in Statuses
      BY <2>2
    <3>2. rec \in ActionRecords
      BY <2>3, <3>1 DEF ActionRecords
    <3>3. Begin(r, a, rec, {"put", "audit", "emit"}, "idle")
      BY <2>6 DEF ApproveAction
    <3> QED BY <1>0, <2>2, <3>2, <3>3, BeginType
  <2>7. ASSUME NEW a \in ActionIds, ExecuteAction(r, a)
        PROVE  HandlersOK'
    BY <1>0, <2>2, <2>7, BeginType, BlankIsRecord DEF ExecuteAction
  <2> QED BY <1>2, <2>4, <2>5, <2>6, <2>7 DEF RequestArrives
<1>3. ASSUME NEW r \in Requests, DropRequest(r)
      PROVE  HandlersOK'
  BY <1>0, <1>3, ReleaseType DEF DropRequest
<1>4. ASSUME Crash
      PROVE  HandlersOK'
  BY <1>4, BlankIsRecord DEF Crash, HandlersOK, Locations
<1>5. ASSUME UNCHANGED handlerVars
      PROVE  HandlersOK'
  BY <1>0, <1>5 DEF handlerVars, HandlersOK
<1> QED
  BY <1>1, <1>2, <1>3, <1>4, <1>5
     DEF Next, vars, TargetStep, ApplyChange, RefuseChange, TargetDrifts, ApprovalExpires,
         SetKillSwitch, Startup, Restart, RecoverAction, RecoverAnnounce, Serve, handlerVars

\* Every write to the store, the network and the targets has the right shape.
LEMMA RestStep ==
  ASSUME TypeOK, Occupied, [Next]_vars
  PROVE  RestOK'
<1>0. HandlersOK /\ RestOK
  BY TypeParts
<1>1. ASSUME NEW r \in Requests, PutAction(r)
      PROVE  RestOK'
  BY <1>0, <1>1 DEF PutAction, Occupied, HandlersOK, RestOK, targetVars, historyVars,
                    countVars, processVars
<1>2. ASSUME NEW r \in Requests, AppendAudit(r)
      PROVE  RestOK'
  <2>1. on[r] \in ActionIds /\ copy[r].status \in Statuses
    BY <1>0, <1>2 DEF AppendAudit, Occupied, HandlersOK, ActionRecords
  <2> QED BY <1>0, <1>2, <2>1 DEF AppendAudit, RestOK, targetVars, historyVars, countVars,
                                  processVars
<1>3. ASSUME NEW r \in Requests, EmitAction(r)
      PROVE  RestOK'
  <2>1. on[r] \in ActionIds /\ copy[r].status \in Statuses
    BY <1>0, <1>3 DEF EmitAction, Occupied, HandlersOK, ActionRecords
  <2> QED BY <1>0, <1>3, <2>1 DEF EmitAction, RestOK, targetVars, historyVars, countVars,
                                  processVars
<1>4. ASSUME NEW r \in Requests, ClaimExpired(r) \/ ClaimAction(r)
      PROVE  RestOK'
  <2>1. on[r] \in ActionIds
    BY <1>4 DEF ClaimExpired, ClaimAction, At, Occupied
  <2>2. PICK s \in Statuses :
          actions' = [actions EXCEPT ![on[r]] = [actions[on[r]] EXCEPT !.status = s]]
    BY <1>4 DEF ClaimExpired, ClaimAction, Statuses
  <2>3. [actions[on[r]] EXCEPT !.status = s] \in ActionRecords
    BY <1>0, <2>1, StatusOfRecord DEF RestOK
  <2>4. actions' \in [ActionIds -> ActionRecords]
    BY <1>0, <2>2, <2>3 DEF RestOK
  <2> QED BY <1>0, <1>4, <2>4 DEF ClaimExpired, ClaimAction, RestOK, targetVars,
                                  historyVars, countVars, processVars
<1>5. ASSUME NEW r \in Requests, SendChange(r)
      PROVE  RestOK'
  <2> DEFINE m == [act |-> on[r], n |-> sent[on[r]], kind |-> copy[r].kind,
                   rv |-> copy[r].rv, hash |-> ActionRequestHash(on[r], copy[r]),
                   to |-> r, state |-> "sent"]
  <2>1. on[r] \in ActionIds
    BY <1>5 DEF SendChange, At, Occupied
  <2>2. copy[r].kind \in Kinds /\ copy[r].rv \in Nat /\ sent[on[r]] \in Nat
    BY <1>0, <2>1 DEF HandlersOK, RestOK, ActionRecords
  <2>3. ActionRequestHash(on[r], copy[r]) \in Hashes
    BY <2>1, <2>2 DEF ActionRequestHash, Hashes
  <2>4. m \in Messages
    BY <2>1, <2>2, <2>3 DEF Messages
  <2>5. wire' = wire \cup {m} /\ sent' = [sent EXCEPT ![on[r]] = @ + 1]
    BY <1>5 DEF SendChange
  <2>6. wire' \subseteq Messages /\ sent' \in [ActionIds -> Nat]
    BY <1>0, <2>1, <2>4, <2>5 DEF RestOK
  <2> QED BY <1>0, <1>5, <2>6 DEF SendChange, RestOK, storeVars, countVars, processVars
<1>6. ASSUME NEW r \in Requests, ChangeAccepted(r) \/ ChangeRefused(r) \/ ChangeTimedOut(r)
      PROVE  RestOK'
  <2>1. wire' \subseteq Messages
    BY <1>0, <1>6, ForsakeType DEF ChangeAccepted, ChangeRefused, ChangeTimedOut, RestOK
  <2> QED BY <1>0, <1>6, <2>1 DEF ChangeAccepted, ChangeRefused, ChangeTimedOut, RestOK,
                                  storeVars, historyVars, countVars, processVars
<1>7. ASSUME NEW r \in Requests, Verify(r)
      PROVE  RestOK'
  BY <1>0, <1>7 DEF Verify, RestOK, storeVars, targetVars, historyVars, countVars
<1>8. ASSUME NEW r \in Requests,
             \/ DryRunFailed(r) \/ DryRunUncertain(r) \/ DryRunPassed(r) \/ ClaimRefused(r)
             \/ PreconditionsFailed(r) \/ PreconditionsHold(r) \/ RunnerReadFailed(r)
             \/ RunnerRead(r) \/ VerifyFailed(r)
      PROVE  RestOK'
  BY <1>0, <1>8 DEF DryRunFailed, DryRunUncertain, DryRunPassed, ClaimRefused,
    PreconditionsFailed, PreconditionsHold, RunnerReadFailed, RunnerRead, VerifyFailed,
    RestOK, storeVars, targetVars, historyVars, countVars, processVars
<1>9. ASSUME NEW r \in Requests, RequestArrives(r)
      PROVE  RestOK'
  <2>1. ASSUME NEW a \in ActionIds, NEW hash \in ClientHashes(a), NEW approved \in BOOLEAN,
               ApproveAction(r, a, hash, approved)
        PROVE  RestOK'
    <3>1. hash \in Hashes
      BY <1>0, <2>1 DEF ApproveAction, MayDecide, RestOK, ActionRecords
    <3>2. granted' \in [ActionIds -> SUBSET Hashes]
      BY <1>0, <2>1, <3>1 DEF ApproveAction, RestOK
    <3> QED BY <1>0, <2>1, <3>2 DEF ApproveAction, RestOK, storeVars, targetVars,
                                    countVars, processVars
  <2>2. ASSUME NEW a \in ActionIds,
               \/ \E kind \in Registered : ProposeActionPlan(r, a, kind)
               \/ ApproveTooLate(r, a) \/ ExecuteAction(r, a)
        PROVE  RestOK'
    BY <1>0, <2>2 DEF ProposeActionPlan, ApproveTooLate, ExecuteAction, RestOK, storeVars,
                      targetVars, historyVars, countVars, processVars
  <2> QED BY <1>9, <2>1, <2>2 DEF RequestArrives
<1>10. ASSUME NEW r \in Requests, DropRequest(r)
       PROVE  RestOK'
  <2>1. wire' \subseteq Messages
    BY <1>0, <1>10, ForsakeType DEF DropRequest, RestOK
  <2>2. dropped' \subseteq ActionIds
    BY <1>0, <1>10 DEF DropRequest, RestOK, Occupied
  <2> QED BY <1>0, <1>10, <2>1, <2>2 DEF DropRequest, RestOK, storeVars, countVars,
                                         processVars
<1>11. ASSUME NEW m \in wire, ApplyChange(m) \/ RefuseChange(m)
       PROVE  RestOK'
  <2>1. m \in Messages
    BY <1>0 DEF RestOK
  <2>2. ASSUME NEW s \in {"applied", "refused"}, Answered(m, s)
        PROVE  wire' \subseteq Messages
    <3>1. [m EXCEPT !.state = s] \in Messages
      BY <2>1 DEF Messages
    <3> QED BY <1>0, <2>2, <3>1 DEF Answered, RestOK
  <2>3. CASE ApplyChange(m)
    <3>1. m.kind \in Kinds /\ m.act \in ActionIds
      BY <2>1 DEF Messages
    <3>2. target' \in [Kinds -> [rv : Nat, asWanted : BOOLEAN]]
      BY <1>0, <2>3, <3>1 DEF ApplyChange, RestOK
    <3>3. applied' \in [ActionIds -> Nat]
      BY <1>0, <2>3, <3>1 DEF ApplyChange, RestOK
    <3> QED BY <1>0, <2>2, <2>3, <3>2, <3>3 DEF ApplyChange, RestOK, storeVars,
                                                historyVars, countVars, processVars
  <2>4. CASE RefuseChange(m)
    BY <1>0, <2>2, <2>4 DEF RefuseChange, RestOK, storeVars, historyVars, countVars,
                            processVars
  <2> QED BY <1>11, <2>3, <2>4
<1>12. ASSUME NEW kind \in Registered, TargetDrifts(kind)
       PROVE  RestOK'
  <2>1. kind \in Kinds
    BY ConstantsAssumption DEF Kinds
  <2>2. target' \in [Kinds -> [rv : Nat, asWanted : BOOLEAN]]
    BY <1>0, <1>12, <2>1 DEF TargetDrifts, RestOK
  <2> QED BY <1>0, <1>12, <2>2 DEF TargetDrifts, RestOK, storeVars, historyVars, processVars
<1>13. ASSUME \/ \E a \in ActionIds : ApprovalExpires(a)
              \/ \E enabled \in BOOLEAN : SetKillSwitch(enabled)
       PROVE  RestOK'
  BY <1>0, <1>13 DEF ApprovalExpires, SetKillSwitch, RestOK, storeVars, targetVars,
                     historyVars, countVars, processVars
<1>14. ASSUME Crash
       PROVE  RestOK'
  <2>1. wire' \subseteq Messages
    BY <1>0, <1>14, ForsakeType DEF Crash, RestOK
  <2> QED BY <1>0, <1>14, <2>1 DEF Crash, RestOK, storeVars, historyVars
<1>15. ASSUME Restart \/ RecoverAnnounce \/ Serve
       PROVE  RestOK'
  <2>1. \A a \in ActionIds : actions[a].status \in Statuses
    BY <1>0 DEF RestOK, ActionRecords
  <2>2. announced' \in [ActionIds -> Statuses]
    BY <1>0, <1>15, <2>1 DEF Restart, RecoverAnnounce, Serve, RestOK, storeVars
  <2> QED BY <1>0, <1>15, <2>2, ConstantsAssumption
          DEF Restart, RecoverAnnounce, Serve, RestOK, storeVars, targetVars, historyVars,
              countVars
<1>16. ASSUME NEW a \in ActionIds, RecoverAction(a)
       PROVE  RestOK'
  <2>1. RecoveredStatus(a) \in Statuses
    BY <1>0 DEF RecoveredStatus, RestOK, ActionRecords, Statuses
  <2>2. [actions[a] EXCEPT !.status = RecoveredStatus(a)] \in ActionRecords
    BY <1>0, <2>1, StatusOfRecord DEF RestOK
  <2>3. actions' \in [ActionIds -> ActionRecords]
    BY <1>0, <1>16, <2>2 DEF RecoverAction, RestOK
  <2> QED BY <1>0, <1>16, <2>3 DEF RecoverAction, RestOK, targetVars, historyVars, countVars
<1>17. ASSUME UNCHANGED vars
       PROVE  RestOK'
  BY <1>0, <1>17 DEF vars, RestOK, storeVars, targetVars, historyVars, countVars, processVars
<1> QED
  BY <1>1, <1>2, <1>3, <1>4, <1>5, <1>6, <1>7, <1>8, <1>9, <1>10, <1>11, <1>12, <1>13,
     <1>14, <1>15, <1>16, <1>17
     DEF Next, HandlerStep, TargetStep, Startup

\* The type invariant of Remediation: whatever handlers race, requests drop and
\* processes die, the store, the handlers' copies and the network hold values of the
\* right shape (every write in remediation.rs, agent.rs recover and sqlite.rs).
THEOREM TypeCorrect == Spec => []TypeOK
<1>1. Init => TypeOK /\ Occupied
  BY TypeInit DEF Init, Occupied
<1>2. TypeOK /\ Occupied /\ [Next]_vars => TypeOK' /\ Occupied'
  BY HandlersStep, RestStep, OccupiedStep, TypeParts
     DEF TypeOK, HandlersOK, RestOK
<1> QED BY <1>1, <1>2, PTL DEF Spec

-----------------------------------------------------------------------------
(* A Kubernetes patch takes effect at most once. *)

\* A handler that executes works on an action that is on record; one in the dry run is
\* the first to know its action; what a handler is going to put is not a blank.  Its copy
\* differs from the record on file in status and approval only (at the claim it has not
\* read the record yet).
HandlerMatches(r) ==
  /\ pc[r] \notin {"idle", "dry"} => actions[on[r]].status # "absent"
  /\ pc[r] = "dry" => actions[on[r]].status = "absent" /\ todo[r] = {}
  /\ "put" \in todo[r] => copy[r].status # "absent"
  /\ todo[r] # {} => pc[r] # "claim"
  /\ on[r] \in ActionIds /\ pc[r] # "claim" /\ actions[on[r]].status # "absent" =>
       copy[r].kind = actions[on[r]].kind /\ copy[r].rv = actions[on[r]].rv

HandlersMatch == \A r \in Requests : HandlerMatches(r)

\* Only one handler proposes an action.
OneProposer ==
  \A r, s \in Requests :
    on[r] \in ActionIds /\ on[r] = on[s] /\ actions[on[r]].status = "absent" => r = s

\* Change requests carry the version on record, and there is none for an unknown action.
WireMatches ==
  \A m \in wire : /\ m.kind = actions[m.act].kind /\ m.rv = actions[m.act].rv
                  /\ actions[m.act].status # "absent"

\* The version has moved on once a patch took effect.
VersionSpent ==
  \A a \in ActionIds :
    /\ actions[a].status = "absent" => applied[a] = 0
    /\ actions[a].kind = "k8s_scale" =>
         /\ applied[a] <= 1
         /\ applied[a] = 1 => target["k8s_scale"].rv > actions[a].rv

\* The inductive invariant of K8sAppliedAtMostOnce.
PatchInv == HandlersMatch /\ OneProposer /\ WireMatches /\ VersionSpent

\* A transaction gives the record of b another status.
Restated(b, s) == actions' = [actions EXCEPT ![b] = [actions[b] EXCEPT !.status = s]]

\* What a step can do to the actions table.
LEMMA TableStep ==
  ASSUME Occupied, [Next]_vars
  PROVE  \/ UNCHANGED actions
         \/ \E r \in Requests : PutAction(r)
         \/ \E b \in ActionIds, s \in Statuses :
              s # "absent" /\ actions[b].status # "absent" /\ Restated(b, s)
<1>1. ASSUME NEW r \in Requests, ClaimExpired(r) \/ ClaimAction(r)
      PROVE  \E b \in ActionIds, s \in Statuses :
               s # "absent" /\ actions[b].status # "absent" /\ Restated(b, s)
  <2>1. on[r] \in ActionIds /\ actions[on[r]].status # "absent"
    BY <1>1 DEF ClaimExpired, ClaimAction, At, Occupied, Claimable
  <2>2. Restated(on[r], "expired") \/ Restated(on[r], "precondition_check")
    BY <1>1 DEF ClaimExpired, ClaimAction, Restated
  <2>3. {"expired", "precondition_check"} \subseteq Statuses
    BY DEF Statuses
  <2> QED BY <2>1, <2>2, <2>3
<1>2. ASSUME NEW b \in ActionIds, RecoverAction(b)
      PROVE  \E s \in Statuses :
               s # "absent" /\ actions[b].status # "absent" /\ Restated(b, s)
  <2>1. RecoveredStatus(b) \in Statuses \ {"absent"} /\ actions[b].status # "absent"
    BY <1>2 DEF RecoverAction, RecoveredStatus, Statuses, InFlight
  <2>2. Restated(b, RecoveredStatus(b))
    BY <1>2 DEF RecoverAction, Restated
  <2> QED BY <2>1, <2>2
<1>3. ASSUME NEW r \in Requests, HandlerStep(r), ~PutAction(r),
             ~ClaimExpired(r), ~ClaimAction(r)
      PROVE  UNCHANGED actions
  BY <1>3
     DEF HandlerStep, AppendAudit, EmitAction, DryRunFailed, DryRunUncertain, DryRunPassed,
         ClaimRefused, PreconditionsFailed, PreconditionsHold, RunnerReadFailed, RunnerRead,
         SendChange, ChangeAccepted, ChangeRefused, ChangeTimedOut, VerifyFailed, Verify,
         storeVars
<1>4. ASSUME NEW r \in Requests, RequestArrives(r) \/ DropRequest(r)
      PROVE  UNCHANGED actions
  BY <1>4 DEF RequestArrives, DropRequest, ProposeActionPlan, ApproveTooLate, ApproveAction,
              ExecuteAction, storeVars
<1>5. ASSUME \/ TargetStep \/ Crash \/ Restart \/ RecoverAnnounce \/ Serve
             \/ \E b \in ActionIds : ApprovalExpires(b)
             \/ \E enabled \in BOOLEAN : SetKillSwitch(enabled)
             \/ UNCHANGED vars
      PROVE  UNCHANGED actions
  BY <1>5 DEF TargetStep, ApplyChange, RefuseChange, TargetDrifts, Crash, Restart,
              RecoverAnnounce, Serve, ApprovalExpires, SetKillSwitch, vars, storeVars
<1> QED BY <1>1, <1>2, <1>3, <1>4, <1>5 DEF Next, Startup

\* A new status leaves the rest of the record, and the other records, alone.
LEMMA RestatedEffect ==
  ASSUME TypeOK, NEW b \in ActionIds, NEW s \in Statuses, Restated(b, s)
  PROVE  /\ actions'[b].status = s
         /\ actions'[b].kind = actions[b].kind /\ actions'[b].rv = actions[b].rv
         /\ actions'[b].hash = actions[b].hash
         /\ actions'[b].consumed = actions[b].consumed
         /\ \A a \in ActionIds : a # b => actions'[a] = actions[a]
<1> DEFINE rec == [actions[b] EXCEPT !.status = s]
<1>1. actions \in [ActionIds -> ActionRecords]
  BY DEF TypeOK
<1>2. /\ rec.status = s /\ rec.kind = actions[b].kind /\ rec.rv = actions[b].rv
      /\ rec.hash = actions[b].hash /\ rec.consumed = actions[b].consumed
  BY <1>1, StatusOfRecord
<1>3. actions' = [actions EXCEPT ![b] = rec]
  BY DEF Restated
<1> HIDE DEF rec
<1> QED BY <1>1, <1>2, <1>3

\* A put replaces one record by the handler's copy.
LEMMA PutEffect ==
  ASSUME TypeOK, Occupied, NEW r \in Requests, PutAction(r)
  PROVE  /\ on[r] \in ActionIds /\ "put" \in todo[r]
         /\ actions'[on[r]] = copy[r]
         /\ \A a \in ActionIds : a # on[r] => actions'[a] = actions[a]
<1>1. on[r] \in ActionIds
  BY DEF Occupied, PutAction
<1> QED BY <1>1 DEF PutAction, TypeOK

\* No step forgets an action, nor changes its kind or the version it names.
LEMMA RecordsKept ==
  ASSUME TypeOK, Occupied, HandlersMatch, [Next]_vars,
         NEW a \in ActionIds
  PROVE  /\ actions'[a].status = "absent" => actions[a].status = "absent"
         /\ actions[a].status # "absent" =>
              actions'[a].kind = actions[a].kind /\ actions'[a].rv = actions[a].rv
<1>1. ASSUME NEW r \in Requests, PutAction(r), on[r] = a
      PROVE  /\ copy[r].status # "absent"
             /\ actions[a].status # "absent" =>
                  copy[r].kind = actions[a].kind /\ copy[r].rv = actions[a].rv
  BY <1>1, PutEffect DEF HandlersMatch, HandlerMatches
<1>2. CASE \E r \in Requests : PutAction(r)
  BY <1>1, <1>2, PutEffect
<1>3. CASE \E b \in ActionIds, s \in Statuses :
             s # "absent" /\ actions[b].status # "absent" /\ Restated(b, s)
  BY <1>3, RestatedEffect
<1> QED BY <1>2, <1>3, TableStep

\* An action comes on record by the write of a handler that works on it.
LEMMA RecordAppears ==
  ASSUME TypeOK, Occupied, [Next]_vars, NEW a \in ActionIds,
         actions[a].status = "absent", actions'[a].status # "absent"
  PROVE  \E r \in Requests : PutAction(r) /\ on[r] = a
<1>1. ASSUME NEW b \in ActionIds, NEW s \in Statuses, actions[b].status # "absent",
             Restated(b, s)
      PROVE  FALSE
  BY <1>1, RestatedEffect
<1>2. PICK r \in Requests : PutAction(r)
  BY <1>1, TableStep
<1> QED BY <1>2, PutEffect

-----------------------------------------------------------------------------
(* What the shapes of handler steps do to the handler, and to the others.  *)

Untouched(s) ==
  pc'[s] = pc[s] /\ on'[s] = on[s] /\ copy'[s] = copy[s] /\ todo'[s] = todo[s]

OnlyOf(r) == \A s \in Requests : s # r => Untouched(s)

Returned(r) == pc'[r] = "idle" /\ on'[r] = NoAction /\ todo'[r] = {}

\* A request begins.
LEMMA BeginEffect ==
  ASSUME HandlersOK, NEW r \in Requests, NEW a, NEW rec, NEW calls, NEW l,
         Begin(r, a, rec, calls, l)
  PROVE  /\ pc'[r] = l /\ on'[r] = a /\ copy'[r] = rec /\ todo'[r] = calls
         /\ OnlyOf(r)
BY DEF HandlersOK, Begin, OnlyOf, Untouched

\* A handler gives its copy a status.
LEMMA ResolveEffect ==
  ASSUME HandlersOK, NEW r \in Requests, NEW rec, NEW calls, NEW l,
         Resolve(r, rec, calls, l)
  PROVE  /\ pc'[r] = l /\ on'[r] = on[r] /\ copy'[r] = rec /\ todo'[r] = calls
         /\ OnlyOf(r)
BY DEF HandlersOK, Resolve, OnlyOf, Untouched

\* A handler goes on.
LEMMA GotoEffect ==
  ASSUME HandlersOK, NEW r \in Requests, NEW l, Goto(r, l)
  PROVE  /\ pc'[r] = l /\ on'[r] = on[r] /\ copy'[r] = copy[r] /\ todo'[r] = todo[r]
         /\ OnlyOf(r)
BY DEF HandlersOK, Goto, OnlyOf, Untouched

\* A handler returns.
LEMMA ReleaseEffect ==
  ASSUME HandlersOK, NEW r \in Requests, Release(r)
  PROVE  Returned(r) /\ copy'[r] = Blank /\ OnlyOf(r)
BY DEF HandlersOK, Release, OnlyOf, Untouched, Returned

\* A handler has made a store call, and returns if that was all.
LEMMA CalledEffect ==
  ASSUME HandlersOK, NEW r \in Requests, NEW call, Called(r, call)
  PROVE  /\ \/ Returned(r) /\ copy'[r] = Blank
            \/ /\ pc'[r] = pc[r] /\ on'[r] = on[r] /\ copy'[r] = copy[r]
               /\ todo'[r] = todo[r] \ {call}
         /\ OnlyOf(r)
<1>1. CASE todo[r] = {call} /\ pc[r] = "idle"
  BY <1>1, ReleaseEffect DEF Called
<1>2. CASE ~(todo[r] = {call} /\ pc[r] = "idle")
  BY <1>2 DEF HandlersOK, Called, OnlyOf, Untouched
<1> QED BY <1>1, <1>2

-----------------------------------------------------------------------------
(* The handlers' copies match the records. *)

\* A handler that does not move keeps its match: only it could have put its action.
LEMMA OthersMatch ==
  ASSUME TypeOK, Occupied, HandlersMatch, OneProposer, [Next]_vars,
         NEW s \in Requests, Untouched(s)
  PROVE  HandlerMatches(s)'
<1>0. HandlersOK
  BY TypeParts
<1>1. ASSUME on[s] \in ActionIds, actions[on[s]].status = "absent"
      PROVE  actions'[on[s]].status = "absent"
  <2>1. SUFFICES ASSUME actions'[on[s]].status # "absent" PROVE FALSE
    OBVIOUS
  <2>2. PICK r \in Requests : PutAction(r) /\ on[r] = on[s]
    BY <1>1, <2>1, RecordAppears
  <2>3. r = s
    BY <1>1, <2>2 DEF OneProposer
  <2>4. "put" \in todo[s] /\ Called(s, "put")
    BY <2>2, <2>3 DEF PutAction
  <2>5. "put" \notin todo'[s]
    BY <1>0, <2>4, CalledEffect DEF Returned
  <2> QED BY <2>4, <2>5 DEF Untouched
<1>2. CASE on[s] \in ActionIds
  <2>1. /\ actions'[on[s]].status = "absent" => actions[on[s]].status = "absent"
        /\ actions[on[s]].status # "absent" =>
             /\ actions'[on[s]].kind = actions[on[s]].kind
             /\ actions'[on[s]].rv = actions[on[s]].rv
    BY <1>2, RecordsKept
  <2> QED BY <1>1, <1>2, <2>1 DEF HandlersMatch, HandlerMatches, Untouched
<1>3. CASE on[s] \notin ActionIds
  <2>1. pc[s] = "idle" /\ todo[s] = {}
    BY <1>3 DEF Occupied
  <2> QED BY <1>3, <2>1 DEF HandlerMatches, Untouched
<1> QED BY <1>2, <1>3

\* The handler that takes a step keeps its match.
LEMMA OwnMatch ==
  ASSUME TypeOK, Occupied, HandlersMatch, [Next]_vars, NEW r \in Requests, HandlerStep(r)
  PROVE  HandlerMatches(r)' /\ OnlyOf(r) /\ on'[r] \in {on[r], NoAction}
<1>0. HandlersOK /\ RestOK /\ HandlerMatches(r)
  BY TypeParts DEF HandlersMatch
<1>a. copy[r] \in ActionRecords
  BY <1>0 DEF HandlersOK
<1> DEFINE Good == HandlerMatches(r)' /\ OnlyOf(r) /\ on'[r] \in {on[r], NoAction}
<1>1. ASSUME Returned(r), OnlyOf(r)
      PROVE  Good
  BY <1>1, ConstantsAssumption DEF HandlerMatches, Returned
<1>2. ASSUME PutAction(r)
      PROVE  Good
  <2>1. /\ "put" \in todo[r] /\ Called(r, "put") /\ on[r] \in ActionIds
        /\ actions' = [actions EXCEPT ![on[r]] = copy[r]]
    BY <1>2 DEF PutAction, Occupied
  <2>2. actions'[on[r]] = copy[r]
    BY <1>0, <2>1 DEF RestOK
  <2>3. /\ OnlyOf(r)
        /\ \/ Returned(r)
           \/ /\ pc'[r] = pc[r] /\ on'[r] = on[r] /\ copy'[r] = copy[r]
              /\ todo'[r] = todo[r] \ {"put"}
    BY <1>0, <2>1, CalledEffect
  <2>4. CASE Returned(r)
    BY <1>1, <2>3, <2>4
  <2>5. CASE ~Returned(r)
    BY <1>0, <2>1, <2>2, <2>3, <2>5 DEF HandlerMatches
  <2> QED BY <2>4, <2>5
<1>3. ASSUME NEW call, call \in todo[r], Called(r, call), UNCHANGED actions
      PROVE  Good
  <2>1. /\ OnlyOf(r)
        /\ \/ Returned(r)
           \/ /\ pc'[r] = pc[r] /\ on'[r] = on[r] /\ copy'[r] = copy[r]
              /\ todo'[r] = todo[r] \ {call}
    BY <1>0, <1>3, CalledEffect
  <2>2. CASE Returned(r)
    BY <1>1, <2>1, <2>2
  <2>3. CASE ~Returned(r)
    BY <1>0, <1>3, <2>1, <2>3 DEF HandlerMatches
  <2> QED BY <2>2, <2>3
<1>4. ASSUME Release(r)
      PROVE  Good
  BY <1>0, <1>1, <1>4, ReleaseEffect
<1>5. ASSUME NEW s \in Statuses, s # "absent", NEW calls, NEW l \in {"idle", "run"},
             pc[r] # "claim", l = "run" => pc[r] # "dry" /\ pc[r] # "idle",
             Resolve(r, [copy[r] EXCEPT !.status = s], calls, l), UNCHANGED actions
      PROVE  Good
  <2> DEFINE rec == [copy[r] EXCEPT !.status = s]
  <2>1. rec.status = s /\ rec.kind = copy[r].kind /\ rec.rv = copy[r].rv
    BY <1>a, StatusOfRecord
  <2>2. /\ pc'[r] = l /\ on'[r] = on[r] /\ copy'[r] = rec /\ todo'[r] = calls
        /\ OnlyOf(r)
    BY <1>0, <1>5, ResolveEffect
  <2> HIDE DEF rec
  <2> QED BY <1>0, <1>5, <2>1, <2>2 DEF HandlerMatches
<1>6. ASSUME DryRunPassed(r)
      PROVE  Good
  <2> DEFINE wanted == [copy[r] EXCEPT !.status = "awaiting_approval",
                                       !.rv = DryRunPreconditions(copy[r].kind)]
             pinned == [wanted EXCEPT !.hash = ActionRequestHash(on[r], wanted)]
  <2>1. pinned.status = "awaiting_approval"
    BY <1>a DEF ActionRecords
  <2>2. /\ pc[r] = "dry" /\ Resolve(r, pinned, {"put", "audit", "emit"}, "idle")
        /\ UNCHANGED actions
    BY <1>6 DEF DryRunPassed, At, storeVars
  <2> HIDE DEF pinned
  <2>3. /\ pc'[r] = "idle" /\ on'[r] = on[r] /\ copy'[r] = pinned
        /\ OnlyOf(r)
    BY <1>0, <2>2, ResolveEffect
  <2>4. actions'[on'[r]].status = "absent"
    BY <1>0, <2>2, <2>3 DEF HandlerMatches
  <2> QED BY <2>1, <2>3, <2>4 DEF HandlerMatches
<1>7. ASSUME ClaimAction(r)
      PROVE  Good
  <2> DEFINE claimed == [actions[on[r]] EXCEPT !.status = "precondition_check"]
  <2>1. on[r] \in ActionIds
    BY <1>7 DEF ClaimAction, At, Occupied
  <2>2. actions[on[r]] \in ActionRecords /\ "precondition_check" \in Statuses
    BY <1>0, <2>1 DEF RestOK, Statuses
  <2>3. claimed.status = "precondition_check"
    BY <2>2, StatusOfRecord
  <2>4. Resolve(r, claimed, {"emit"}, "check") /\ actions' = [actions EXCEPT ![on[r]] = claimed]
    BY <1>7 DEF ClaimAction
  <2> HIDE DEF claimed
  <2>5. /\ pc'[r] = "check" /\ on'[r] = on[r] /\ copy'[r] = claimed /\ todo'[r] = {"emit"}
        /\ OnlyOf(r)
    BY <1>0, <2>4, ResolveEffect
  <2>6. actions'[on[r]] = claimed
    BY <1>0, <2>1, <2>4 DEF RestOK
  <2> QED BY <2>3, <2>5, <2>6 DEF HandlerMatches
<1>8. ASSUME NEW l \in {"mutate", "await", "verify"}, pc[r] \notin {"idle", "dry", "claim"},
             Goto(r, l), UNCHANGED actions
      PROVE  Good
  <2>1. /\ pc'[r] = l /\ on'[r] = on[r] /\ copy'[r] = copy[r] /\ todo'[r] = todo[r]
        /\ OnlyOf(r)
    BY <1>0, <1>8, GotoEffect
  <2> QED BY <1>0, <1>8, <2>1 DEF HandlerMatches
<1> HIDE DEF Good
<1>9. ASSUME AppendAudit(r) \/ EmitAction(r)
      PROVE  Good
  BY <1>3, <1>9 DEF AppendAudit, EmitAction
<1>10. ASSUME DryRunFailed(r) \/ ClaimExpired(r) \/ ClaimRefused(r)
       PROVE  Good
  BY <1>4, <1>10 DEF DryRunFailed, ClaimExpired, ClaimRefused
<1>11. /\ {"invalid", "stale", "executing", "needs_reconciliation", "succeeded",
           "rollback_proposed"} \subseteq Statuses
  BY DEF Statuses
<1>12. ASSUME DryRunUncertain(r) \/ PreconditionsFailed(r) \/ PreconditionsHold(r)
       PROVE  Good
  BY <1>5, <1>11, <1>12
     DEF DryRunUncertain, PreconditionsFailed, PreconditionsHold, At, storeVars
<1>13. ASSUME pc[r] # "claim", UNCHANGED actions, NeedsReconciliation(r)
       PROVE  Good
  BY <1>5, <1>11, <1>13 DEF NeedsReconciliation
<1>14. ASSUME RunnerReadFailed(r) \/ ChangeRefused(r) \/ ChangeTimedOut(r) \/ VerifyFailed(r)
       PROVE  Good
  BY <1>13, <1>14
     DEF RunnerReadFailed, ChangeRefused, ChangeTimedOut, VerifyFailed, At, storeVars
<1>15. ASSUME Verify(r)
       PROVE  Good
  <2>1. PICK v \in Verified(copy[r].kind) :
          Resolve(r, [copy[r] EXCEPT !.status = IF v THEN "succeeded"
                                                      ELSE "rollback_proposed"],
                  {"put", "audit", "emit"}, "idle")
    BY <1>15 DEF Verify
  <2>2. PICK s \in {"succeeded", "rollback_proposed"} :
          s = IF v THEN "succeeded" ELSE "rollback_proposed"
    OBVIOUS
  <2>3. Resolve(r, [copy[r] EXCEPT !.status = s], {"put", "audit", "emit"}, "idle")
    BY <2>1, <2>2
  <2>4. pc[r] # "claim" /\ UNCHANGED actions
    BY <1>15 DEF Verify, At, storeVars
  <2> QED BY <1>5, <1>11, <2>2, <2>3, <2>4
<1>16. ASSUME RunnerRead(r) \/ SendChange(r) \/ ChangeAccepted(r)
       PROVE  Good
  BY <1>8, <1>16 DEF RunnerRead, SendChange, ChangeAccepted, At, storeVars
<1>17. Good
  BY <1>2, <1>6, <1>7, <1>9, <1>10, <1>12, <1>14, <1>15, <1>16 DEF HandlerStep
<1> QED BY <1>17 DEF Good

\* A request begins on an action that is on record, or that no handler knows.
LEMMA ArrivalMatch ==
  ASSUME TypeOK, NEW r \in Requests, RequestArrives(r)
  PROVE  /\ HandlerMatches(r)' /\ OnlyOf(r)
         /\ on'[r] \in ActionIds
         /\ \/ actions'[on'[r]].status # "absent"
            \/ \A s \in Requests : on[s] # on'[r]
<1>0. HandlersOK /\ RestOK
  BY TypeParts
<1> DEFINE Good == /\ HandlerMatches(r)' /\ OnlyOf(r)
                   /\ on'[r] \in ActionIds
                   /\ \/ actions'[on'[r]].status # "absent"
                      \/ \A s \in Requests : on[s] # on'[r]
<1>1. ASSUME NEW a \in ActionIds, NEW rec, NEW calls, NEW l \in {"idle", "dry"},
             Begin(r, a, rec, calls, l), UNCHANGED actions,
             actions[a].status = "absent", rec.status # "absent", l = "dry" => calls = {},
             \A s \in Requests : on[s] # a
      PROVE  Good
  <2>1. /\ pc'[r] = l /\ on'[r] = a /\ copy'[r] = rec /\ todo'[r] = calls
        /\ OnlyOf(r)
    BY <1>0, <1>1, BeginEffect
  <2> QED BY <1>1, <2>1 DEF HandlerMatches
<1>2. ASSUME NEW a \in ActionIds, NEW rec, NEW calls,
             Begin(r, a, rec, calls, "idle"), UNCHANGED actions,
             actions[a].status # "absent", rec.status # "absent",
             rec.kind = actions[a].kind, rec.rv = actions[a].rv
      PROVE  Good
  <2>1. /\ pc'[r] = "idle" /\ on'[r] = a /\ copy'[r] = rec /\ todo'[r] = calls
        /\ OnlyOf(r)
    BY <1>0, <1>2, BeginEffect
  <2> QED BY <1>2, <2>1 DEF HandlerMatches
<1>3. ASSUME NEW a \in ActionIds, NEW kind \in Registered, ProposeActionPlan(r, a, kind)
      PROVE  Good
  <2> DEFINE denied == [BuildAction(a, kind) EXCEPT !.status = "policy_denied"]
             drafted == [BuildAction(a, kind) EXCEPT !.status = "dry_run"]
  <2>1. BuildAction(a, kind) \in ActionRecords
    BY ConstantsAssumption, BuiltIsRecord DEF Kinds
  <2>2. denied.status = "policy_denied" /\ drafted.status = "dry_run"
    BY <2>1, StatusOfRecord DEF Statuses
  <2>3. /\ \/ Begin(r, a, denied, {"put", "audit", "emit"}, "idle")
           \/ Begin(r, a, drafted, {}, "dry")
        /\ actions[a].status = "absent" /\ UNCHANGED actions
        /\ \A s \in Requests : on[s] # a
    BY <1>3 DEF ProposeActionPlan, storeVars
  <2> HIDE DEF denied, drafted, Good
  <2> QED BY <1>1, <2>2, <2>3
<1>4. ASSUME NEW a \in ActionIds, ApproveTooLate(r, a)
      PROVE  Good
  <2> DEFINE rec == [actions[a] EXCEPT !.status = "expired"]
  <2>1. actions[a] \in ActionRecords
    BY <1>0 DEF RestOK
  <2>2. rec.status = "expired" /\ rec.kind = actions[a].kind /\ rec.rv = actions[a].rv
    BY <2>1, StatusOfRecord DEF Statuses
  <2>3. /\ Begin(r, a, rec, {"put"}, "idle") /\ UNCHANGED actions
        /\ actions[a].status = "awaiting_approval"
    BY <1>4 DEF ApproveTooLate, storeVars
  <2> HIDE DEF rec, Good
  <2> QED BY <1>2, <2>2, <2>3
<1>5. ASSUME NEW a \in ActionIds, NEW hash, NEW approved \in BOOLEAN,
             ApproveAction(r, a, hash, approved)
      PROVE  Good
  <2> DEFINE s == IF approved THEN "authorized" ELSE "rejected"
             rec == [actions[a] EXCEPT !.status = s, !.consumed = approved]
  <2>1. actions[a] \in ActionRecords
    BY <1>0 DEF RestOK
  <2>2. rec.status = s /\ rec.kind = actions[a].kind /\ rec.rv = actions[a].rv
    BY <2>1 DEF ActionRecords
  <2>3. /\ Begin(r, a, rec, {"put", "audit", "emit"}, "idle") /\ UNCHANGED actions
        /\ actions[a].status = "awaiting_approval"
    BY <1>5 DEF ApproveAction, MayDecide, storeVars
  <2> HIDE DEF rec, Good
  <2>4. s # "absent"
    OBVIOUS
  <2> QED BY <1>2, <2>2, <2>3, <2>4
<1>6. ASSUME NEW a \in ActionIds, ExecuteAction(r, a)
      PROVE  Good
  <2>1. Begin(r, a, Blank, {}, "claim") /\ UNCHANGED actions /\ actions[a].status # "absent"
    BY <1>6 DEF ExecuteAction, storeVars
  <2>2. /\ pc'[r] = "claim" /\ on'[r] = a /\ todo'[r] = {} /\ OnlyOf(r)
    BY <1>0, <2>1, BeginEffect
  <2> QED BY <2>1, <2>2 DEF HandlerMatches
<1> HIDE DEF Good
<1>7. Good
  BY <1>3, <1>4, <1>5, <1>6 DEF RequestArrives
<1> QED BY <1>7 DEF Good

\* A step that no handler takes leaves each one alone, or ends it.
LEMMA OthersStep ==
  ASSUME TypeOK, [Next]_vars,
         \A r \in Requests : ~HandlerStep(r) /\ ~RequestArrives(r)
  PROVE  \A s \in Requests : Untouched(s) \/ Returned(s)
<1>0. HandlersOK
  BY TypeParts
<1> SUFFICES ASSUME NEW s \in Requests PROVE Untouched(s) \/ Returned(s)
  OBVIOUS
<1>1. ASSUME NEW r \in Requests, DropRequest(r)
      PROVE  Untouched(s) \/ Returned(s)
  BY <1>0, <1>1, ReleaseEffect DEF DropRequest, OnlyOf
<1>2. ASSUME Crash
      PROVE  Returned(s)
  BY <1>2 DEF Crash, Returned
<1>3. ASSUME UNCHANGED handlerVars
      PROVE  Untouched(s)
  BY <1>3 DEF handlerVars, Untouched
<1>4. ASSUME \/ TargetStep \/ Startup
             \/ \E a \in ActionIds : ApprovalExpires(a)
             \/ \E enabled \in BOOLEAN : SetKillSwitch(enabled)
             \/ UNCHANGED vars
      PROVE  UNCHANGED handlerVars
  BY <1>4 DEF TargetStep, ApplyChange, RefuseChange, TargetDrifts, Startup, Restart,
              RecoverAction, RecoverAnnounce, Serve, ApprovalExpires, SetKillSwitch, vars
<1> QED BY <1>1, <1>2, <1>3, <1>4 DEF Next

\* Every step keeps every match.
LEMMA HandlersMatchStep ==
  ASSUME TypeOK, Occupied, HandlersMatch, OneProposer, [Next]_vars
  PROVE  HandlersMatch'
<1> SUFFICES ASSUME NEW s \in Requests PROVE HandlerMatches(s)'
  BY DEF HandlersMatch
<1>1. ASSUME Returned(s)
      PROVE  HandlerMatches(s)'
  BY <1>1, ConstantsAssumption DEF Returned, HandlerMatches
<1>2. ASSUME NEW r \in Requests, HandlerStep(r) \/ RequestArrives(r)
      PROVE  HandlerMatches(s)'
  <2>1. HandlerMatches(r)' /\ OnlyOf(r)
    BY <1>2, OwnMatch, ArrivalMatch
  <2>2. CASE s = r
    BY <2>1, <2>2
  <2>3. CASE s # r
    BY <2>1, <2>3, OthersMatch DEF OnlyOf
  <2> QED BY <2>2, <2>3
<1>3. CASE \A r \in Requests : ~HandlerStep(r) /\ ~RequestArrives(r)
  BY <1>1, <1>3, OthersStep, OthersMatch
<1> QED BY <1>2, <1>3

\* Every step keeps proposers apart: a request begins on an action nobody works on.
LEMMA OneProposerStep ==
  ASSUME TypeOK, Occupied, HandlersMatch, OneProposer, [Next]_vars
  PROVE  OneProposer'
<1> SUFFICES ASSUME NEW r \in Requests, NEW s \in Requests, on'[r] \in ActionIds,
                    on'[r] = on'[s], actions'[on'[r]].status = "absent"
             PROVE  r = s
  BY DEF OneProposer
<1>1. actions[on'[r]].status = "absent"
  BY RecordsKept
<1>2. CASE on'[r] = on[r] /\ on'[s] = on[s]
  BY <1>1, <1>2 DEF OneProposer
<1>3. ASSUME NEW q \in Requests, HandlerStep(q)
      PROVE  on'[r] = on[r] /\ on'[s] = on[s]
  BY <1>3, OwnMatch, ConstantsAssumption DEF OnlyOf, Untouched
<1>4. ASSUME NEW q \in Requests, RequestArrives(q)
      PROVE  r = s
  <2>1. /\ OnlyOf(q) /\ on'[q] \in ActionIds
        /\ \/ actions'[on'[q]].status # "absent"
           \/ \A p \in Requests : on[p] # on'[q]
    BY <1>4, ArrivalMatch
  <2>2. CASE r # q /\ s # q
    BY <1>2, <2>1, <2>2 DEF OnlyOf, Untouched
  <2>3. CASE r = q /\ s # q
    BY <2>1, <2>3 DEF OnlyOf, Untouched
  <2>4. CASE r # q /\ s = q
    BY <2>1, <2>4 DEF OnlyOf, Untouched
  <2> QED BY <2>2, <2>3, <2>4
<1>5. CASE \A q \in Requests : ~HandlerStep(q) /\ ~RequestArrives(q)
  <2>1. (Untouched(r) \/ Returned(r)) /\ (Untouched(s) \/ Returned(s))
    BY <1>5, OthersStep
  <2>2. on'[r] = on[r] /\ on'[s] = on[s]
    BY <2>1, ConstantsAssumption DEF Untouched, Returned
  <2> QED BY <1>2, <2>2
<1> QED BY <1>2, <1>3, <1>4, <1>5

-----------------------------------------------------------------------------
(* The change requests under way. *)

\* Every change request under way was under way before, if for somebody else or in
\* another state, or has just been sent.
LEMMA WireStep ==
  ASSUME TypeOK, [Next]_vars, NEW m \in wire'
  PROVE  \/ \E w \in wire : m.act = w.act /\ m.kind = w.kind /\ m.rv = w.rv /\ m.hash = w.hash
         \/ \E r \in Requests :
              /\ SendChange(r) /\ m.act = on[r] /\ m.kind = copy[r].kind /\ m.rv = copy[r].rv
              /\ m.hash = ActionRequestHash(on[r], copy[r])
<1>0. RestOK
  BY TypeParts
<1> DEFINE Old == \E w \in wire : m.act = w.act /\ m.kind = w.kind /\ m.rv = w.rv /\ m.hash = w.hash
           New == \E r \in Requests :
              /\ SendChange(r) /\ m.act = on[r] /\ m.kind = copy[r].kind /\ m.rv = copy[r].rv
              /\ m.hash = ActionRequestHash(on[r], copy[r])
<1>1. ASSUME m \in wire
      PROVE  Old
  BY <1>1
<1>2. ASSUME NEW rs \in SUBSET Requests, Forsake(rs)
      PROVE  Old
  <2>1. CASE m \in wire
    BY <1>1, <2>1
  <2>2. CASE m \notin wire
    <3>1. PICK w \in wire : m = [w EXCEPT !.to = NoRequest]
      BY <1>2, <2>2 DEF Forsake
    <3>2. w \in Messages
      BY <1>0 DEF RestOK
    <3>3. m.act = w.act /\ m.kind = w.kind /\ m.rv = w.rv /\ m.hash = w.hash
      BY <3>1, <3>2 DEF Messages
    <3> QED BY <3>3
  <2> QED BY <2>1, <2>2
<1>3. ASSUME NEW w \in wire, NEW state, Answered(w, state)
      PROVE  Old
  <2>1. CASE m \in wire
    BY <1>1, <2>1
  <2>2. CASE m \notin wire
    <3>1. m = [w EXCEPT !.state = state]
      BY <1>3, <2>2 DEF Answered
    <3>2. w \in Messages
      BY <1>0 DEF RestOK
    <3>3. m.act = w.act /\ m.kind = w.kind /\ m.rv = w.rv /\ m.hash = w.hash
      BY <3>1, <3>2 DEF Messages
    <3> QED BY <3>3
  <2> QED BY <2>1, <2>2
<1>4. ASSUME NEW r \in Requests, SendChange(r)
      PROVE  Old \/ New
  <2>1. CASE m \in wire
    BY <1>1, <2>1
  <2>2. CASE m \notin wire
    <3>1. m.act = on[r] /\ m.kind = copy[r].kind /\ m.rv = copy[r].rv
          /\ m.hash = ActionRequestHash(on[r], copy[r])
      BY <1>4, <2>2 DEF SendChange
    <3> QED BY <1>4, <3>1
  <2> QED BY <2>1, <2>2
<1> HIDE DEF Old, New
<1>5. ASSUME NEW r \in Requests, HandlerStep(r)
      PROVE  Old \/ New
  <2>1. CASE SendChange(r)
    BY <1>4, <2>1
  <2>2. CASE ChangeTimedOut(r)
    BY <1>2, <2>2 DEF ChangeTimedOut
  <2>3. CASE ~SendChange(r) /\ ~ChangeTimedOut(r)
    <3>1. m \in wire
      BY <1>5, <2>3
         DEF HandlerStep, PutAction, AppendAudit, EmitAction, DryRunFailed, DryRunUncertain,
             DryRunPassed, ClaimExpired, ClaimRefused, ClaimAction, PreconditionsFailed,
             PreconditionsHold, RunnerReadFailed, RunnerRead, ChangeAccepted, ChangeRefused,
             VerifyFailed, Verify, targetVars
    <3> QED BY <1>1, <3>1
  <2> QED BY <2>1, <2>2, <2>3
<1>6. ASSUME NEW r \in Requests, RequestArrives(r)
      PROVE  Old
  BY <1>1, <1>6 DEF RequestArrives, ProposeActionPlan, ApproveTooLate, ApproveAction,
                    ExecuteAction, targetVars
<1>7. ASSUME (\E r \in Requests : DropRequest(r)) \/ Crash
      PROVE  Old
  BY <1>2, <1>7 DEF DropRequest, Crash
<1>8. ASSUME NEW w \in wire, ApplyChange(w) \/ RefuseChange(w)
      PROVE  Old
  BY <1>3, <1>8 DEF ApplyChange, RefuseChange
<1>9. ASSUME \/ \E kind \in Registered : TargetDrifts(kind)
             \/ Startup
             \/ \E a \in ActionIds : ApprovalExpires(a)
             \/ \E enabled \in BOOLEAN : SetKillSwitch(enabled)
             \/ UNCHANGED vars
      PROVE  Old
  BY <1>1, <1>9 DEF TargetDrifts, Startup, Restart, RecoverAction, RecoverAnnounce, Serve,
                    ApprovalExpires, SetKillSwitch, vars, targetVars
<1>10. Old \/ New
  BY <1>5, <1>6, <1>7, <1>8, <1>9 DEF Next, TargetStep
<1> QED BY <1>10 DEF Old, New

\* A request is sent with the kind and version on record, which stay.
LEMMA WireMatchesStep ==
  ASSUME TypeOK, Occupied, HandlersMatch, WireMatches, [Next]_vars
  PROVE  WireMatches'
<1> SUFFICES ASSUME NEW m \in wire'
             PROVE  /\ m.kind = actions'[m.act].kind /\ m.rv = actions'[m.act].rv
                    /\ actions'[m.act].status # "absent"
  BY DEF WireMatches
<1>0. HandlersOK /\ RestOK
  BY TypeParts
<1>1. ASSUME NEW w \in wire, m.act = w.act, m.kind = w.kind, m.rv = w.rv
      PROVE  /\ m.act \in ActionIds
             /\ m.kind = actions[m.act].kind /\ m.rv = actions[m.act].rv
             /\ actions[m.act].status # "absent"
  BY <1>0, <1>1 DEF WireMatches, RestOK, Messages
<1>2. ASSUME NEW r \in Requests, SendChange(r), m.act = on[r], m.kind = copy[r].kind,
             m.rv = copy[r].rv
      PROVE  /\ m.act \in ActionIds
             /\ m.kind = actions[m.act].kind /\ m.rv = actions[m.act].rv
             /\ actions[m.act].status # "absent"
  BY <1>2 DEF SendChange, At, Occupied, HandlersMatch, HandlerMatches
<1>3. /\ m.act \in ActionIds
      /\ m.kind = actions[m.act].kind /\ m.rv = actions[m.act].rv
      /\ actions[m.act].status # "absent"
  BY <1>1, <1>2, WireStep
<1> QED BY <1>3, RecordsKept

-----------------------------------------------------------------------------
(* The version the patches name is spent by the first that takes effect.   *)

\* A patch that takes effect names the current version, so none did before it; then
\* the version moves on, and nothing moves it back.
LEMMA VersionSpentStep ==
  ASSUME TypeOK, Occupied, HandlersMatch, WireMatches, VersionSpent, [Next]_vars
  PROVE  VersionSpent'
<1>0. RestOK
  BY TypeParts
<1>1. ASSUME NEW a \in ActionIds, applied'[a] = applied[a],
             target'["k8s_scale"].rv >= target["k8s_scale"].rv
      PROVE  /\ actions'[a].status = "absent" => applied'[a] = 0
             /\ actions'[a].kind = "k8s_scale" =>
                  /\ applied'[a] <= 1
                  /\ applied'[a] = 1 => target'["k8s_scale"].rv > actions'[a].rv
  <2>1. /\ actions'[a].status = "absent" => actions[a].status = "absent"
        /\ actions[a].status # "absent" =>
             actions'[a].kind = actions[a].kind /\ actions'[a].rv = actions[a].rv
    BY RecordsKept
  <2>2. /\ actions[a].status = "absent" => applied[a] = 0
        /\ actions[a].kind = "k8s_scale" =>
             /\ applied[a] <= 1
             /\ applied[a] = 1 => target["k8s_scale"].rv > actions[a].rv
    BY DEF VersionSpent
  <2>3. CASE actions[a].status = "absent"
    BY <1>1, <2>2, <2>3
  <2>4. CASE actions[a].status # "absent"
    <3>1. /\ target["k8s_scale"].rv \in Int /\ target'["k8s_scale"].rv \in Int
          /\ actions[a].rv \in Int
      <4>1. RestOK'
        BY RestStep
      <4> QED BY <1>0, <4>1 DEF RestOK, Kinds, ActionRecords
    <3> QED BY <1>1, <2>1, <2>2, <2>4, <3>1
  <2> QED BY <2>3, <2>4
<1>2. ASSUME UNCHANGED <<target, applied>>
      PROVE  VersionSpent'
  <2>1. target["k8s_scale"].rv \in Nat
    BY <1>0 DEF RestOK, Kinds
  <2>2. target'["k8s_scale"].rv >= target["k8s_scale"].rv
    BY <1>2, <2>1
  <2> QED BY <1>1, <1>2, <2>2 DEF VersionSpent
<1>3. ASSUME NEW kind \in Registered, TargetDrifts(kind)
      PROVE  VersionSpent'
  <2>1. target["k8s_scale"].rv \in Nat /\ target[kind].rv \in Nat
    BY <1>0, ConstantsAssumption DEF RestOK, Kinds
  <2>2. target'["k8s_scale"].rv >= target["k8s_scale"].rv
    BY <1>0, <1>3, <2>1 DEF TargetDrifts, RestOK, Kinds
  <2>3. UNCHANGED applied
    BY <1>3 DEF TargetDrifts
  <2> QED BY <1>1, <2>2, <2>3 DEF VersionSpent
<1>4. ASSUME NEW m \in wire, ApplyChange(m)
      PROVE  VersionSpent'
  <2>1. /\ m.act \in ActionIds /\ m.kind \in Kinds
        /\ m.kind = actions[m.act].kind /\ m.rv = actions[m.act].rv
        /\ actions[m.act].status # "absent"
    BY <1>0 DEF WireMatches, RestOK, Messages
  <2>2. /\ target["k8s_scale"].rv \in Nat /\ target[m.kind].rv \in Nat
        /\ applied[m.act] \in Nat
    BY <1>0, <2>1 DEF RestOK, Kinds
  <2>3. /\ target' = [target EXCEPT ![m.kind] = [rv |-> target[m.kind].rv + 1, asWanted |-> TRUE]]
        /\ applied' = [applied EXCEPT ![m.act] = applied[m.act] + 1]
        /\ UNCHANGED actions /\ Accepts(m)
    BY <1>4 DEF ApplyChange, storeVars
  <2>4. target'["k8s_scale"].rv >= target["k8s_scale"].rv
    BY <1>0, <2>1, <2>2, <2>3 DEF RestOK, Kinds
  <2>5. ASSUME NEW a \in ActionIds
        PROVE  /\ actions'[a].status = "absent" => applied'[a] = 0
               /\ actions'[a].kind = "k8s_scale" =>
                    /\ applied'[a] <= 1
                    /\ applied'[a] = 1 => target'["k8s_scale"].rv > actions'[a].rv
    <3>1. CASE a # m.act
      <4>1. applied'[a] = applied[a]
        BY <1>0, <2>3, <3>1 DEF RestOK
      <4> QED BY <1>1, <2>4, <4>1
    <3>2. CASE a = m.act /\ m.kind = "k8s_scale"
      <4>1. target["k8s_scale"].rv = actions[a].rv /\ actions[a].rv \in Nat
        BY <2>1, <2>2, <2>3, <3>2 DEF Accepts
      <4>2. /\ applied[a] <= 1
            /\ applied[a] = 1 => target["k8s_scale"].rv > actions[a].rv
        BY <2>1, <3>2 DEF VersionSpent
      <4>3. applied[a] = 0
        <5>1. applied[a] \in Nat /\ ~(target["k8s_scale"].rv > actions[a].rv)
          BY <2>2, <3>2, <4>1
        <5> QED BY <4>2, <5>1
      <4>4. applied'[a] = 1 /\ target'["k8s_scale"].rv = target["k8s_scale"].rv + 1
        BY <1>0, <2>1, <2>3, <3>2, <4>3 DEF RestOK
      <4> QED BY <2>1, <2>2, <2>3, <3>2, <4>1, <4>4
    <3>3. CASE a = m.act /\ m.kind # "k8s_scale"
      BY <2>1, <2>3, <3>3
    <3> QED BY <3>1, <3>2, <3>3
  <2> QED BY <2>5 DEF VersionSpent
<1>5. CASE UNCHANGED <<target, applied>>
  BY <1>2, <1>5
<1>6. ASSUME ~UNCHANGED <<target, applied>>
      PROVE  TargetStep
  <2>1. ASSUME NEW r \in Requests, HandlerStep(r)
        PROVE  FALSE
    BY <1>6, <2>1
       DEF HandlerStep, PutAction, AppendAudit, EmitAction, DryRunFailed, DryRunUncertain,
           DryRunPassed, ClaimExpired, ClaimRefused, ClaimAction, PreconditionsFailed,
           PreconditionsHold, RunnerReadFailed, RunnerRead, SendChange, ChangeAccepted,
           ChangeRefused, ChangeTimedOut, VerifyFailed, Verify, targetVars
  <2>2. ASSUME NEW r \in Requests, RequestArrives(r) \/ DropRequest(r)
        PROVE  FALSE
    BY <1>6, <2>2 DEF RequestArrives, ProposeActionPlan, ApproveTooLate, ApproveAction,
                      ExecuteAction, DropRequest, targetVars
  <2>3. ASSUME \/ Startup \/ Crash
               \/ \E a \in ActionIds : ApprovalExpires(a)
               \/ \E enabled \in BOOLEAN : SetKillSwitch(enabled)
               \/ UNCHANGED vars
        PROVE  FALSE
    BY <1>6, <2>3 DEF Startup, Restart, RecoverAction, RecoverAnnounce, Serve, Crash,
                      ApprovalExpires, SetKillSwitch, vars, targetVars
  <2> QED BY <2>1, <2>2, <2>3 DEF Next
<1>7. ASSUME NEW m \in wire, RefuseChange(m)
      PROVE  UNCHANGED <<target, applied>>
  BY <1>7 DEF RefuseChange
<1> QED BY <1>3, <1>4, <1>5, <1>6, <1>7 DEF TargetStep

\* PatchInv, with the types, is inductive.
LEMMA PatchInvInit == Init => TypeOK /\ Occupied /\ PatchInv
<1> SUFFICES ASSUME Init PROVE TypeOK /\ Occupied /\ PatchInv
  OBVIOUS
<1>1. TypeOK /\ Occupied
  BY TypeInit DEF Init, Occupied
<1>2. HandlersMatch
  BY ConstantsAssumption DEF Init, HandlersMatch, HandlerMatches
<1>3. OneProposer
  BY ConstantsAssumption DEF Init, OneProposer
<1>4. WireMatches /\ VersionSpent
  BY DEF Init, WireMatches, VersionSpent
<1> QED BY <1>1, <1>2, <1>3, <1>4 DEF PatchInv

\* ... and it is preserved by every step.
LEMMA PatchInvStep ==
  ASSUME TypeOK, Occupied, PatchInv, [Next]_vars
  PROVE  TypeOK' /\ Occupied' /\ PatchInv'
<1>1. TypeOK' /\ Occupied'
  BY HandlersStep, RestStep, OccupiedStep, TypeParts DEF TypeOK, HandlersOK, RestOK
<1>2. HandlersMatch /\ OneProposer /\ WireMatches /\ VersionSpent
  BY DEF PatchInv
<1>3. HandlersMatch' /\ OneProposer' /\ WireMatches' /\ VersionSpent'
  BY <1>2, HandlersMatchStep, OneProposerStep, WireMatchesStep, VersionSpentStep
<1> QED BY <1>1, <1>3 DEF PatchInv

\* A Kubernetes patch of an action takes effect at most once, for any number of racing
\* approvals and executions, of crashes, and of patches that arrive after their sender
\* gave up (execute_k8s_scale sends the resourceVersion the dry run pinned).
THEOREM PatchAtMostOnce == Spec => []K8sAppliedAtMostOnce
<1>1. TypeOK /\ Occupied /\ PatchInv /\ [Next]_vars => TypeOK' /\ Occupied' /\ PatchInv'
  BY PatchInvStep
<1>2. PatchInv => K8sAppliedAtMostOnce
  BY DEF PatchInv, VersionSpent, K8sAppliedAtMostOnce
<1> QED BY PatchInvInit, <1>1, <1>2, PTL DEF Spec

-----------------------------------------------------------------------------
(* Only approved changes are sent. *)

Executing == {"check", "run", "mutate", "await", "verify"}

\* An approval that is consumed on file was granted for the hash next to it.
RecordsGranted ==
  \A a \in ActionIds : actions[a].consumed => actions[a].hash \in granted[a]

\* So was one in a handler's copy; past the claim the copy has such an approval, and the
\* parameters and preconditions in it are the ones that hash stands for.
HandlerGranted(r) ==
  /\ on[r] \in ActionIds /\ copy[r].consumed => copy[r].hash \in granted[on[r]]
  /\ pc[r] = "dry" => ~copy[r].consumed
  /\ pc[r] \in Executing =>
       copy[r].consumed /\ ActionRequestHash(on[r], copy[r]) = copy[r].hash

HandlersGranted == \A r \in Requests : HandlerGranted(r)

\* The inductive invariant of OnlyApprovedChanges, on top of PatchInv.
GrantInv == RecordsGranted /\ HandlersGranted /\ OnlyApprovedChanges

\* A handler that has read no record holds no approval.
LEMMA BlankUnapproved == Blank.consumed = FALSE
BY DEF Blank, AbsentRecord, BuildAction

\* Approvals are never taken back, and only approve_action grants one.
LEMMA GrantsKept ==
  ASSUME TypeOK, [Next]_vars
  PROVE  \A a \in ActionIds : granted[a] \subseteq granted'[a]
<1>0. RestOK
  BY TypeParts
<1> SUFFICES ASSUME NEW b \in ActionIds PROVE granted[b] \subseteq granted'[b]
  OBVIOUS
<1>1. ASSUME NEW r \in Requests, RequestArrives(r)
      PROVE  granted[b] \subseteq granted'[b]
  <2>1. ASSUME NEW a \in ActionIds, NEW hash, NEW approved \in BOOLEAN,
               ApproveAction(r, a, hash, approved)
        PROVE  granted[b] \subseteq granted'[b]
    BY <1>0, <2>1 DEF ApproveAction, RestOK
  <2>2. ASSUME NEW a \in ActionIds,
               \/ \E kind \in Registered : ProposeActionPlan(r, a, kind)
               \/ ApproveTooLate(r, a) \/ ExecuteAction(r, a)
        PROVE  UNCHANGED granted
    BY <2>2 DEF ProposeActionPlan, ApproveTooLate, ExecuteAction, historyVars
  <2> QED BY <1>1, <2>1, <2>2 DEF RequestArrives
<1>2. ASSUME NEW r \in Requests, HandlerStep(r) \/ DropRequest(r)
      PROVE  UNCHANGED granted
  BY <1>2
     DEF HandlerStep, PutAction, AppendAudit, EmitAction, DryRunFailed, DryRunUncertain,
         DryRunPassed, ClaimExpired, ClaimRefused, ClaimAction, PreconditionsFailed,
         PreconditionsHold, RunnerReadFailed, RunnerRead, SendChange, ChangeAccepted,
         ChangeRefused, ChangeTimedOut, VerifyFailed, Verify, DropRequest, historyVars
<1>3. ASSUME \/ TargetStep \/ Startup \/ Crash
             \/ \E a \in ActionIds : ApprovalExpires(a)
             \/ \E enabled \in BOOLEAN : SetKillSwitch(enabled)
             \/ UNCHANGED vars
      PROVE  UNCHANGED granted
  BY <1>3 DEF TargetStep, ApplyChange, RefuseChange, TargetDrifts, Startup, Restart,
              RecoverAction, RecoverAnnounce, Serve, Crash, ApprovalExpires, SetKillSwitch,
              vars, historyVars
<1> QED BY <1>1, <1>2, <1>3 DEF Next

\* What is put was approved, and a new status keeps hash and approval together.
LEMMA RecordsGrantedStep ==
  ASSUME TypeOK, Occupied, RecordsGranted, HandlersGranted, [Next]_vars
  PROVE  RecordsGranted'
<1> SUFFICES ASSUME NEW a \in ActionIds, actions'[a].consumed
             PROVE  actions'[a].hash \in granted'[a]
  BY DEF RecordsGranted
<1>1. actions'[a].hash \in granted[a]
  <2>1. CASE \E r \in Requests : PutAction(r)
    BY <2>1, PutEffect DEF RecordsGranted, HandlersGranted, HandlerGranted
  <2>2. CASE \E b \in ActionIds, s \in Statuses : Restated(b, s)
    BY <2>2, RestatedEffect DEF RecordsGranted
  <2>3. CASE UNCHANGED actions
    BY <2>3 DEF RecordsGranted
  <2> QED BY <2>1, <2>2, <2>3, TableStep
<1> QED BY <1>1, GrantsKept

\* A handler that does not move keeps its approval.
LEMMA OthersGranted ==
  ASSUME TypeOK, HandlersGranted, [Next]_vars, NEW s \in Requests, Untouched(s)
  PROVE  HandlerGranted(s)'
BY GrantsKept DEF HandlersGranted, HandlerGranted, Untouched, ActionRequestHash

\* The handler that takes a step has the approval of the record it claimed.
LEMMA OwnGranted ==
  ASSUME TypeOK, Occupied, RecordsGranted, HandlersGranted, [Next]_vars,
         NEW r \in Requests, HandlerStep(r)
  PROVE  HandlerGranted(r)'
<1>0. HandlersOK /\ RestOK /\ HandlerGranted(r)
  BY TypeParts DEF HandlersGranted
<1>a. copy[r] \in ActionRecords
  BY <1>0 DEF HandlersOK
<1>b. on[r] \in ActionIds => granted[on[r]] \subseteq granted'[on[r]]
  BY GrantsKept
<1> DEFINE Good == HandlerGranted(r)'
<1>1. ASSUME Returned(r)
      PROVE  Good
  BY <1>1, ConstantsAssumption DEF HandlerGranted, Returned, Executing
<1>2. ASSUME NEW call, Called(r, call)
      PROVE  Good
  <2>1. \/ Returned(r)
        \/ pc'[r] = pc[r] /\ on'[r] = on[r] /\ copy'[r] = copy[r]
    BY <1>0, <1>2, CalledEffect
  <2>2. CASE pc'[r] = pc[r] /\ on'[r] = on[r] /\ copy'[r] = copy[r]
    BY <1>0, <1>b, <2>2 DEF HandlerGranted, ActionRequestHash
  <2> QED BY <1>1, <2>1, <2>2
<1>3. ASSUME NEW s \in Statuses, NEW calls, NEW l \in {"idle", "run"},
             l = "run" => pc[r] \in Executing,
             Resolve(r, [copy[r] EXCEPT !.status = s], calls, l)
      PROVE  Good
  <2> DEFINE rec == [copy[r] EXCEPT !.status = s]
  <2>1. /\ rec.kind = copy[r].kind /\ rec.rv = copy[r].rv /\ rec.hash = copy[r].hash
        /\ rec.consumed = copy[r].consumed
    BY <1>a, StatusOfRecord
  <2>2. pc'[r] = l /\ on'[r] = on[r] /\ copy'[r] = rec
    BY <1>0, <1>3, ResolveEffect
  <2> HIDE DEF rec
  <2> QED BY <1>0, <1>b, <1>3, <2>1, <2>2 DEF HandlerGranted, ActionRequestHash, Executing
<1>4. ASSUME DryRunPassed(r)
      PROVE  Good
  <2> DEFINE wanted == [copy[r] EXCEPT !.status = "awaiting_approval",
                                       !.rv = DryRunPreconditions(copy[r].kind)]
             pinned == [wanted EXCEPT !.hash = ActionRequestHash(on[r], wanted)]
  <2>1. pinned.consumed = copy[r].consumed
    BY <1>a DEF ActionRecords
  <2>2. pc[r] = "dry" /\ Resolve(r, pinned, {"put", "audit", "emit"}, "idle")
    BY <1>4 DEF DryRunPassed, At
  <2> HIDE DEF pinned
  <2>3. pc'[r] = "idle" /\ copy'[r] = pinned
    BY <1>0, <2>2, ResolveEffect
  <2>4. ~copy'[r].consumed
    BY <1>0, <2>1, <2>2, <2>3 DEF HandlerGranted
  <2> QED BY <2>3, <2>4 DEF HandlerGranted, Executing
<1>5. ASSUME ClaimAction(r)
      PROVE  Good
  <2> DEFINE claimed == [actions[on[r]] EXCEPT !.status = "precondition_check"]
  <2>1. on[r] \in ActionIds
    BY <1>5 DEF ClaimAction, At, Occupied
  <2>2. actions[on[r]] \in ActionRecords /\ "precondition_check" \in Statuses
    BY <1>0, <2>1 DEF RestOK, Statuses
  <2>3. /\ claimed.kind = actions[on[r]].kind /\ claimed.rv = actions[on[r]].rv
        /\ claimed.hash = actions[on[r]].hash
        /\ claimed.consumed = actions[on[r]].consumed
    BY <2>2, StatusOfRecord
  <2>4. Resolve(r, claimed, {"emit"}, "check")
    BY <1>5 DEF ClaimAction
  <2>5. /\ actions[on[r]].consumed
        /\ ActionRequestHash(on[r], actions[on[r]]) = actions[on[r]].hash
    BY <1>5 DEF ClaimAction
  <2> HIDE DEF claimed
  <2>6. pc'[r] = "check" /\ on'[r] = on[r] /\ copy'[r] = claimed
    BY <1>0, <2>4, ResolveEffect
  <2>7. actions[on[r]].hash \in granted'[on[r]]
    BY <1>b, <2>1, <2>5 DEF RecordsGranted
  <2> QED BY <2>3, <2>5, <2>6, <2>7 DEF HandlerGranted, ActionRequestHash
<1>6. ASSUME NEW l \in {"mutate", "await", "verify"}, pc[r] \in Executing, Goto(r, l)
      PROVE  Good
  <2>1. pc'[r] = l /\ on'[r] = on[r] /\ copy'[r] = copy[r]
    BY <1>0, <1>6, GotoEffect
  <2> QED BY <1>0, <1>b, <1>6, <2>1 DEF HandlerGranted, ActionRequestHash, Executing
<1> HIDE DEF Good
<1>7. ASSUME PutAction(r) \/ AppendAudit(r) \/ EmitAction(r)
      PROVE  Good
  BY <1>2, <1>7 DEF PutAction, AppendAudit, EmitAction
<1>8. ASSUME DryRunFailed(r) \/ ClaimExpired(r) \/ ClaimRefused(r)
      PROVE  Good
  BY <1>0, <1>1, <1>8, ReleaseEffect DEF DryRunFailed, ClaimExpired, ClaimRefused
<1>9. {"invalid", "stale", "executing", "needs_reconciliation", "succeeded",
       "rollback_proposed"} \subseteq Statuses
  BY DEF Statuses
<1>10. ASSUME DryRunUncertain(r) \/ PreconditionsFailed(r) \/ PreconditionsHold(r)
       PROVE  Good
  BY <1>3, <1>9, <1>10
     DEF DryRunUncertain, PreconditionsFailed, PreconditionsHold, At, Executing
<1>11. ASSUME NeedsReconciliation(r)
       PROVE  Good
  BY <1>3, <1>9, <1>11 DEF NeedsReconciliation
<1>12. ASSUME Verify(r)
       PROVE  Good
  <2>1. PICK v \in Verified(copy[r].kind) :
          Resolve(r, [copy[r] EXCEPT !.status = IF v THEN "succeeded"
                                                      ELSE "rollback_proposed"],
                  {"put", "audit", "emit"}, "idle")
    BY <1>12 DEF Verify
  <2>2. PICK s \in {"succeeded", "rollback_proposed"} :
          s = IF v THEN "succeeded" ELSE "rollback_proposed"
    OBVIOUS
  <2>3. Resolve(r, [copy[r] EXCEPT !.status = s], {"put", "audit", "emit"}, "idle")
    BY <2>1, <2>2
  <2> QED BY <1>3, <1>9, <2>2, <2>3
<1>13. ASSUME RunnerRead(r) \/ SendChange(r) \/ ChangeAccepted(r)
       PROVE  Good
  BY <1>6, <1>13 DEF RunnerRead, SendChange, ChangeAccepted, At, Executing
<1>14. Good
  BY <1>4, <1>5, <1>7, <1>8, <1>10, <1>11, <1>12, <1>13
     DEF HandlerStep, RunnerReadFailed, ChangeRefused, ChangeTimedOut, VerifyFailed
<1> QED BY <1>14 DEF Good

\* A request that begins has no approval, the one it reads, or the one it grants.
LEMMA ArrivalGranted ==
  ASSUME TypeOK, RecordsGranted, [Next]_vars, NEW r \in Requests, RequestArrives(r)
  PROVE  HandlerGranted(r)'
<1>0. HandlersOK /\ RestOK
  BY TypeParts
<1> DEFINE Good == HandlerGranted(r)'
<1>1. ASSUME NEW a \in ActionIds, NEW rec, NEW calls, NEW l \in {"idle", "dry", "claim"},
             Begin(r, a, rec, calls, l), ~rec.consumed
      PROVE  Good
  <2>1. pc'[r] = l /\ on'[r] = a /\ copy'[r] = rec
    BY <1>0, <1>1, BeginEffect
  <2> QED BY <1>1, <2>1 DEF HandlerGranted, Executing
<1>2. ASSUME NEW a \in ActionIds, NEW rec, NEW calls,
             Begin(r, a, rec, calls, "idle"), rec.consumed => rec.hash \in granted'[a]
      PROVE  Good
  <2>1. pc'[r] = "idle" /\ on'[r] = a /\ copy'[r] = rec
    BY <1>0, <1>2, BeginEffect
  <2> QED BY <1>2, <2>1 DEF HandlerGranted, Executing
<1>3. ASSUME NEW a \in ActionIds, NEW kind \in Registered, ProposeActionPlan(r, a, kind)
      PROVE  Good
  <2> DEFINE denied == [BuildAction(a, kind) EXCEPT !.status = "policy_denied"]
             drafted == [BuildAction(a, kind) EXCEPT !.status = "dry_run"]
  <2>1. BuildAction(a, kind) \in ActionRecords /\ ~BuildAction(a, kind).consumed
    BY ConstantsAssumption, BuiltIsRecord DEF Kinds, BuildAction
  <2>2. ~denied.consumed /\ ~drafted.consumed
    BY <2>1, StatusOfRecord DEF Statuses
  <2>3. \/ Begin(r, a, denied, {"put", "audit", "emit"}, "idle")
        \/ Begin(r, a, drafted, {}, "dry")
    BY <1>3 DEF ProposeActionPlan
  <2> HIDE DEF denied, drafted, Good
  <2> QED BY <1>1, <2>2, <2>3
<1>4. ASSUME NEW a \in ActionIds, ApproveTooLate(r, a)
      PROVE  Good
  <2> DEFINE rec == [actions[a] EXCEPT !.status = "expired"]
  <2>1. actions[a] \in ActionRecords
    BY <1>0 DEF RestOK
  <2>2. rec.consumed = actions[a].consumed /\ rec.hash = actions[a].hash
    BY <2>1, StatusOfRecord DEF Statuses
  <2>3. Begin(r, a, rec, {"put"}, "idle")
    BY <1>4 DEF ApproveTooLate
  <2> HIDE DEF rec, Good
  <2>4. rec.consumed => rec.hash \in granted'[a]
    BY <2>2, GrantsKept DEF RecordsGranted
  <2> QED BY <1>2, <2>3, <2>4
<1>5. ASSUME NEW a \in ActionIds, NEW hash, NEW approved \in BOOLEAN,
             ApproveAction(r, a, hash, approved)
      PROVE  Good
  <2> DEFINE s == IF approved THEN "authorized" ELSE "rejected"
             rec == [actions[a] EXCEPT !.status = s, !.consumed = approved]
  <2>1. actions[a] \in ActionRecords
    BY <1>0 DEF RestOK
  <2>2. rec.consumed = approved /\ rec.hash = actions[a].hash
    BY <2>1 DEF ActionRecords
  <2>3. /\ Begin(r, a, rec, {"put", "audit", "emit"}, "idle") /\ hash = actions[a].hash
        /\ granted' = [granted EXCEPT ![a] = IF approved THEN @ \cup {hash} ELSE @]
    BY <1>5 DEF ApproveAction, MayDecide
  <2> HIDE DEF rec, Good
  <2>4. approved => hash \in granted'[a]
    BY <1>0, <2>3 DEF RestOK
  <2> QED BY <1>2, <2>2, <2>3, <2>4
<1>6. ASSUME NEW a \in ActionIds, ExecuteAction(r, a)
      PROVE  Good
  <2>1. Begin(r, a, Blank, {}, "claim")
    BY <1>6 DEF ExecuteAction
  <2> HIDE DEF Good
  <2> QED BY <1>1, <2>1, BlankUnapproved
<1> HIDE DEF Good
<1>7. Good
  BY <1>3, <1>4, <1>5, <1>6 DEF RequestArrives
<1> QED BY <1>7 DEF Good

\* Every step keeps every handler's approval.
LEMMA HandlersGrantedStep ==
  ASSUME TypeOK, Occupied, HandlersMatch, RecordsGranted, HandlersGranted, [Next]_vars
  PROVE  HandlersGranted'
<1> SUFFICES ASSUME NEW s \in Requests PROVE HandlerGranted(s)'
  BY DEF HandlersGranted
<1>1. ASSUME Returned(s)
      PROVE  HandlerGranted(s)'
  BY <1>1, ConstantsAssumption DEF Returned, HandlerGranted, Executing
<1>2. ASSUME NEW r \in Requests, HandlerStep(r) \/ RequestArrives(r)
      PROVE  HandlerGranted(s)'
  <2>1. HandlerGranted(r)' /\ OnlyOf(r)
    BY <1>2, OwnMatch, ArrivalMatch, OwnGranted, ArrivalGranted
  <2>2. CASE s = r
    BY <2>1, <2>2
  <2>3. CASE s # r
    BY <2>1, <2>3, OthersGranted DEF OnlyOf
  <2> QED BY <2>2, <2>3
<1>3. CASE \A r \in Requests : ~HandlerStep(r) /\ ~RequestArrives(r)
  BY <1>1, <1>3, OthersStep, OthersGranted
<1> QED BY <1>2, <1>3

\* A request is sent past the claim, where the copy hashes to what was approved.
LEMMA OnlyApprovedStep ==
  ASSUME TypeOK, Occupied, HandlersGranted, OnlyApprovedChanges, [Next]_vars
  PROVE  OnlyApprovedChanges'
<1> SUFFICES ASSUME NEW m \in wire'
             PROVE  m.hash \in granted'[m.act]
  BY DEF OnlyApprovedChanges
<1>1. ASSUME NEW w \in wire, m.act = w.act, m.hash = w.hash
      PROVE  m.act \in ActionIds /\ m.hash \in granted[m.act]
  BY <1>1 DEF OnlyApprovedChanges, TypeOK, Messages
<1>2. ASSUME NEW r \in Requests, SendChange(r), m.act = on[r],
             m.hash = ActionRequestHash(on[r], copy[r])
      PROVE  m.act \in ActionIds /\ m.hash \in granted[m.act]
  <2>1. pc[r] = "mutate" /\ on[r] \in ActionIds
    BY <1>2 DEF SendChange, At, Occupied
  <2> QED BY <1>2, <2>1 DEF HandlersGranted, HandlerGranted, Executing
<1>3. m.act \in ActionIds /\ m.hash \in granted[m.act]
  BY <1>1, <1>2, WireStep
<1> QED BY <1>3, GrantsKept

\* Every change request under way carries the parameters, the preconditions and the
\* operation id that an operator approved by hash, whichever requests race, are dropped
\* or crash (approve_action and claim_action_for_execution compare the hashes).
THEOREM ChangesAreApproved == Spec => []OnlyApprovedChanges
<1>1. Init => GrantInv
  <2> SUFFICES ASSUME Init PROVE GrantInv
    OBVIOUS
  <2>1. \A a \in ActionIds : AbsentRecord(a).consumed = FALSE
    BY DEF AbsentRecord, BuildAction
  <2>2. RecordsGranted
    BY <2>1 DEF Init, RecordsGranted
  <2>3. HandlersGranted
    BY ConstantsAssumption DEF Init, HandlersGranted, HandlerGranted, Executing
  <2>4. OnlyApprovedChanges
    BY DEF Init, OnlyApprovedChanges
  <2> QED BY <2>2, <2>3, <2>4 DEF GrantInv
<1>2. TypeOK /\ Occupied /\ PatchInv /\ GrantInv /\ [Next]_vars => GrantInv'
  BY RecordsGrantedStep, HandlersGrantedStep, OnlyApprovedStep DEF GrantInv, PatchInv
<1>3. TypeOK /\ Occupied /\ PatchInv /\ [Next]_vars => TypeOK' /\ Occupied' /\ PatchInv'
  BY PatchInvStep
<1>4. GrantInv => OnlyApprovedChanges
  BY DEF GrantInv
<1> QED BY PatchInvInit, <1>1, <1>2, <1>3, <1>4, PTL DEF Spec

-----------------------------------------------------------------------------
(* What becomes of a change: the outcome in the audit log, the record, the    *)
(* status machine. The invariants first.                                     *)

Outcomes == {"succeeded", "rollback_proposed"}

\* An answer for a handler finds it waiting, on the same action, and is the only one;
\* what is answered as applied was applied.
AnswersFit ==
  /\ \A m \in wire : m.to # NoRequest =>
       m.to \in Requests /\ pc[m.to] = "await" /\ on[m.to] = m.act
  /\ \A m, w \in wire : m.to # NoRequest /\ m.to = w.to => m = w
  /\ \A m \in wire : m.state = "applied" => applied[m.act] >= 1

\* A handler that verifies, or has verified, does so on a change that was applied.
OutcomeReal(r) == on[r] \in ActionIds /\ (pc[r] = "verify" \/ copy[r].status \in Outcomes) =>
                    applied[on[r]] >= 1
OutcomesReal == \A r \in Requests : OutcomeReal(r)

\* The inductive invariant of AuditedOutcomeIsReal.
OutcomeInv == AnswersFit /\ OutcomesReal /\ AuditedOutcomeIsReal

\* A handler that is going to change what is on record about its action.
Owns(r) == pc[r] \notin {"idle", "claim"} \/ "put" \in todo[r]

\* At most one handler owns an action.
OneOwner == \A r, s \in Requests : Owns(r) /\ Owns(s) /\ on[r] = on[s] => r = s

\* The statuses from which put_action takes the record to status s.
PutsFrom(s) ==
  {f \in {"absent", "awaiting_approval", "precondition_check", "executing"} :
     \/ f = "absent" /\ s \in {"policy_denied", "invalid", "awaiting_approval"}
     \/ f = "awaiting_approval" /\ s \in {"authorized", "rejected", "expired"}
     \/ f = "precondition_check" /\ s \in {"executing", "stale"}
     \/ f = "executing" /\ s \in {"needs_reconciliation", "succeeded", "rollback_proposed"}}

\* What is on record fits where the handler of the action is: what it is about to put
\* is a legal move, what it has put is there, and before it sends nothing was sent.
OnCourse(r) ==
  LET s == copy[r].status
      recorded == actions[on[r]].status
  IN  /\ "put" \in todo[r] =>
           /\ recorded \in PutsFrom(s)
           /\ recorded = "awaiting_approval" => r \in Approvers
           /\ pc[r] = "idle" \/ (pc[r] = "run" /\ s = "executing")
           /\ s = "executing" => pc[r] = "run"
      /\ "put" \notin todo[r] =>
           /\ pc[r] = "dry" => recorded = "absent"
           /\ pc[r] = "check" => recorded = "precondition_check"
           /\ pc[r] \in {"run", "mutate", "await", "verify"} => recorded = "executing"
           /\ todo[r] # {} /\ IsTerminal(s) => recorded = s
      /\ pc[r] \in Executing => s \in {"precondition_check", "executing"}
      /\ pc[r] \in {"check", "run", "mutate"} => sent[on[r]] = 0
HandlersOnCourse == \A r \in Requests : OnCourse(r)

\* Recovery has the store to itself.
QuietUnlessUp == phase # "up" => \A r \in Requests : pc[r] = "idle" /\ todo[r] = {}

\* The statuses of an action that may have changed its target.
Begun == {"executing", "succeeded", "rollback_proposed", "needs_reconciliation"}
ChangesOnRecord ==
  \A a \in ActionIds :
    applied[a] > 0 \/ sent[a] # 0 \/ (\E m \in wire : m.act = a) => actions[a].status \in Begun

\* The inductive invariant of the lifecycle, with one approver.
SerialInv == QuietUnlessUp /\ OneOwner /\ HandlersOnCourse /\ ChangesOnRecord /\ FinalWordStands
-----------------------------------------------------------------------------
(* What handlers do, as far as these invariants look at it. *)

AllCalls == {"put", "audit", "emit"}

\* Handler r goes from one location to another, its copy has status s then, and these
\* store calls are before it.
Moves(r, from, to, s, calls) ==
  /\ pc[r] = from /\ todo[r] = {} /\ UNCHANGED actions
  /\ pc'[r] = to /\ on'[r] = on[r] /\ copy'[r].status = s /\ todo'[r] = calls

HandlerMove(r) ==
  \/ PutAction(r) \/ AppendAudit(r) \/ EmitAction(r)
  \/ Returned(r) /\ UNCHANGED actions /\ todo[r] = {} /\ pc[r] \in {"dry", "claim"}
  \/ ClaimExpired(r) /\ Returned(r)
  \/ /\ ClaimAction(r) /\ pc'[r] = "check" /\ on'[r] = on[r] /\ todo'[r] = {"emit"}
     /\ copy'[r].status = "precondition_check"
  \/ Moves(r, "dry", "idle", "invalid", {"put", "emit"})
  \/ Moves(r, "dry", "idle", "awaiting_approval", AllCalls)
  \/ Moves(r, "check", "idle", "stale", {"put", "emit"})
  \/ Moves(r, "check", "run", "executing", {"put", "emit"})
  \/ \E from \in {"run", "await", "verify"} :
       Moves(r, from, "idle", "needs_reconciliation", AllCalls)
  \/ Moves(r, "run", "mutate", copy[r].status, {})
  \/ SendChange(r) /\ Moves(r, "mutate", "await", copy[r].status, {})
  \/ ChangeAccepted(r) /\ Moves(r, "await", "verify", copy[r].status, {})
  \/ \E s \in Outcomes : Moves(r, "verify", "idle", s, AllCalls)

\* Every step of a handler is one of these.
LEMMA HandlerMoves ==
  ASSUME TypeOK, Occupied, NEW r \in Requests, HandlerStep(r)
  PROVE  OnlyOf(r) /\ HandlerMove(r)
<1>0. HandlersOK /\ RestOK
  BY TypeParts
<1>a. copy[r] \in ActionRecords
  BY <1>0 DEF HandlersOK
<1> DEFINE Good == OnlyOf(r) /\ HandlerMove(r)
<1>1. ASSUME NEW s \in Statuses, NEW calls, NEW from, NEW l,
             Resolve(r, [copy[r] EXCEPT !.status = s], calls, l), At(r, from), UNCHANGED actions
      PROVE  OnlyOf(r) /\ Moves(r, from, l, s, calls)
  <2> DEFINE rec == [copy[r] EXCEPT !.status = s]
  <2>1. rec.status = s
    BY <1>a, StatusOfRecord
  <2>2. Resolve(r, rec, calls, l)
    BY <1>1
  <2> HIDE DEF rec
  <2>3. /\ pc'[r] = l /\ on'[r] = on[r] /\ copy'[r] = rec /\ todo'[r] = calls
        /\ OnlyOf(r)
    BY <1>0, <2>2, ResolveEffect
  <2> QED BY <1>1, <2>1, <2>3 DEF Moves, At
<1>2. ASSUME NEW from, NEW l, Goto(r, l), At(r, from), UNCHANGED actions
      PROVE  OnlyOf(r) /\ Moves(r, from, l, copy[r].status, {})
  <2>1. /\ pc'[r] = l /\ on'[r] = on[r] /\ copy'[r] = copy[r] /\ todo'[r] = todo[r]
        /\ OnlyOf(r)
    BY <1>0, <1>2, GotoEffect
  <2> QED BY <1>2, <2>1 DEF Moves, At
<1>3. {"invalid", "stale", "executing", "needs_reconciliation", "succeeded",
       "rollback_proposed", "precondition_check"} \subseteq Statuses
  BY DEF Statuses
<1>4. ASSUME PutAction(r) \/ AppendAudit(r) \/ EmitAction(r)
      PROVE  Good
  <2>1. \E call : Called(r, call)
    BY <1>4 DEF PutAction, AppendAudit, EmitAction
  <2>2. OnlyOf(r)
    BY <1>0, <2>1, CalledEffect
  <2> QED BY <1>4, <2>2 DEF HandlerMove
<1>5. ASSUME DryRunFailed(r) \/ ClaimRefused(r)
      PROVE  Good
  <2>1. Release(r) /\ UNCHANGED actions /\ todo[r] = {} /\ pc[r] \in {"dry", "claim"}
    BY <1>5 DEF DryRunFailed, ClaimRefused, At, storeVars
  <2>2. Returned(r) /\ OnlyOf(r)
    BY <1>0, <2>1, ReleaseEffect
  <2> QED BY <2>1, <2>2 DEF HandlerMove
<1>6. ASSUME ClaimExpired(r)
      PROVE  Good
  <2>1. Returned(r) /\ OnlyOf(r)
    BY <1>0, <1>6, ReleaseEffect DEF ClaimExpired
  <2> QED BY <1>6, <2>1 DEF HandlerMove
<1>7. ASSUME ClaimAction(r)
      PROVE  Good
  <2> DEFINE rec == [actions[on[r]] EXCEPT !.status = "precondition_check"]
  <2>1. on[r] \in ActionIds
    BY <1>7 DEF ClaimAction, At, Occupied
  <2>2. actions[on[r]] \in ActionRecords
    BY <1>0, <2>1 DEF RestOK
  <2>3. rec.status = "precondition_check"
    BY <1>3, <2>2, StatusOfRecord
  <2>4. Resolve(r, rec, {"emit"}, "check")
    BY <1>7 DEF ClaimAction
  <2> HIDE DEF rec
  <2>5. /\ pc'[r] = "check" /\ on'[r] = on[r] /\ copy'[r] = rec /\ todo'[r] = {"emit"}
        /\ OnlyOf(r)
    BY <1>0, <2>4, ResolveEffect
  <2> QED BY <1>7, <2>3, <2>5 DEF HandlerMove
<1>8. ASSUME DryRunUncertain(r)
      PROVE  Good
  <2>1. OnlyOf(r) /\ Moves(r, "dry", "idle", "invalid", {"put", "emit"})
    BY <1>1, <1>3, <1>8 DEF DryRunUncertain, storeVars
  <2> QED BY <2>1 DEF HandlerMove
<1>9. ASSUME DryRunPassed(r)
      PROVE  Good
  <2> DEFINE wanted == [copy[r] EXCEPT !.status = "awaiting_approval",
                                       !.rv = DryRunPreconditions(copy[r].kind)]
             pinned == [wanted EXCEPT !.hash = ActionRequestHash(on[r], wanted)]
  <2>1. pinned.status = "awaiting_approval"
    BY <1>a DEF ActionRecords
  <2>2. Resolve(r, pinned, AllCalls, "idle") /\ At(r, "dry") /\ UNCHANGED actions
    BY <1>9 DEF DryRunPassed, storeVars, AllCalls
  <2> HIDE DEF pinned
  <2>3. /\ pc'[r] = "idle" /\ on'[r] = on[r] /\ copy'[r] = pinned /\ todo'[r] = AllCalls
        /\ OnlyOf(r)
    BY <1>0, <2>2, ResolveEffect
  <2>4. Moves(r, "dry", "idle", "awaiting_approval", AllCalls)
    BY <2>1, <2>2, <2>3 DEF Moves, At
  <2> QED BY <2>3, <2>4 DEF HandlerMove
<1>10. ASSUME PreconditionsFailed(r)
       PROVE  Good
  <2>1. OnlyOf(r) /\ Moves(r, "check", "idle", "stale", {"put", "emit"})
    BY <1>1, <1>3, <1>10 DEF PreconditionsFailed, storeVars
  <2> QED BY <2>1 DEF HandlerMove
<1>11. ASSUME PreconditionsHold(r)
       PROVE  Good
  <2>1. OnlyOf(r) /\ Moves(r, "check", "run", "executing", {"put", "emit"})
    BY <1>1, <1>3, <1>11 DEF PreconditionsHold, storeVars
  <2> QED BY <2>1 DEF HandlerMove
<1>12. ASSUME NEW from \in {"run", "await", "verify"}, At(r, from), NeedsReconciliation(r),
              UNCHANGED actions
       PROVE  Good
  <2>1. OnlyOf(r) /\ Moves(r, from, "idle", "needs_reconciliation", AllCalls)
    BY <1>1, <1>3, <1>12 DEF NeedsReconciliation, AllCalls
  <2> QED BY <2>1 DEF HandlerMove
<1>13. ASSUME RunnerReadFailed(r) \/ ChangeRefused(r) \/ ChangeTimedOut(r) \/ VerifyFailed(r)
       PROVE  Good
  <2>1. UNCHANGED actions /\ NeedsReconciliation(r) /\ \E from \in {"run", "await", "verify"} : At(r, from)
    BY <1>13 DEF RunnerReadFailed, ChangeRefused, ChangeTimedOut, VerifyFailed, storeVars
  <2> HIDE DEF Good
  <2> QED BY <1>12, <2>1
<1>14. ASSUME RunnerRead(r)
       PROVE  Good
  <2>1. OnlyOf(r) /\ Moves(r, "run", "mutate", copy[r].status, {})
    BY <1>2, <1>14 DEF RunnerRead, storeVars
  <2> QED BY <2>1 DEF HandlerMove
<1>15. ASSUME SendChange(r)
       PROVE  Good
  <2>1. OnlyOf(r) /\ Moves(r, "mutate", "await", copy[r].status, {})
    BY <1>2, <1>15 DEF SendChange, storeVars
  <2> QED BY <1>15, <2>1 DEF HandlerMove
<1>16. ASSUME ChangeAccepted(r)
       PROVE  Good
  <2>1. OnlyOf(r) /\ Moves(r, "await", "verify", copy[r].status, {})
    BY <1>2, <1>16 DEF ChangeAccepted, storeVars
  <2> QED BY <1>16, <2>1 DEF HandlerMove
<1>17. ASSUME Verify(r)
       PROVE  Good
  <2>1. PICK v \in Verified(copy[r].kind) :
          Resolve(r, [copy[r] EXCEPT !.status = IF v THEN "succeeded"
                                                      ELSE "rollback_proposed"],
                  AllCalls, "idle")
    BY <1>17 DEF Verify, AllCalls
  <2>2. PICK s \in Outcomes : s = IF v THEN "succeeded" ELSE "rollback_proposed"
    BY DEF Outcomes
  <2>3. Resolve(r, [copy[r] EXCEPT !.status = s], AllCalls, "idle")
    BY <2>1, <2>2
  <2>4. At(r, "verify") /\ UNCHANGED actions /\ s \in Statuses
    BY <1>3, <1>17 DEF Verify, storeVars, Outcomes
  <2>5. OnlyOf(r) /\ Moves(r, "verify", "idle", s, AllCalls)
    BY <1>1, <2>3, <2>4
  <2> QED BY <2>5 DEF HandlerMove
<1> HIDE DEF Good
<1>18. Good
  BY <1>4, <1>5, <1>6, <1>7, <1>8, <1>9, <1>10, <1>11, <1>13, <1>14, <1>15, <1>16, <1>17
     DEF HandlerStep
<1> QED BY <1>18 DEF Good

\* How a request begins: a proposal of an action that nobody knows, a decision on one
\* that awaits approval, or an execution.
ArrivalMove(r) ==
  /\ phase = "up" /\ pc[r] = "idle" /\ todo[r] = {} /\ UNCHANGED <<actions, sent>>
  /\ on'[r] \in ActionIds
  /\ \/ /\ actions[on'[r]].status = "absent" /\ \A s \in Requests : on[s] # on'[r]
        /\ \/ pc'[r] = "idle" /\ copy'[r].status = "policy_denied" /\ todo'[r] = AllCalls
           \/ pc'[r] = "dry" /\ copy'[r].status = "dry_run" /\ todo'[r] = {}
     \/ /\ actions[on'[r]].status = "awaiting_approval" /\ r \in Approvers
        /\ pc'[r] = "idle" /\ todo'[r] \in {{"put"}, AllCalls}
        /\ copy'[r].status \in {"expired", "authorized", "rejected"}
     \/ pc'[r] = "claim" /\ todo'[r] = {} /\ copy'[r].status = "absent"

\* Every request begins like this.
LEMMA ArrivalMoves ==
  ASSUME TypeOK, NEW r \in Requests, RequestArrives(r)
  PROVE  OnlyOf(r) /\ ArrivalMove(r)
<1>0. HandlersOK /\ RestOK
  BY TypeParts
<1>1. ASSUME NEW a \in ActionIds, NEW kind \in Registered, ProposeActionPlan(r, a, kind)
      PROVE  OnlyOf(r) /\ ArrivalMove(r)
  <2> DEFINE denied == [BuildAction(a, kind) EXCEPT !.status = "policy_denied"]
             drafted == [BuildAction(a, kind) EXCEPT !.status = "dry_run"]
  <2>1. BuildAction(a, kind) \in ActionRecords
    BY ConstantsAssumption, BuiltIsRecord DEF Kinds
  <2>2. denied.status = "policy_denied" /\ drafted.status = "dry_run"
    BY <2>1, StatusOfRecord DEF Statuses
  <2>3. /\ \/ Begin(r, a, denied, AllCalls, "idle")
           \/ Begin(r, a, drafted, {}, "dry")
        /\ actions[a].status = "absent" /\ UNCHANGED <<actions, sent>> /\ Free(r)
        /\ \A s \in Requests : on[s] # a
    BY <1>1 DEF ProposeActionPlan, storeVars, AllCalls, historyVars
  <2> HIDE DEF denied, drafted
  <2>4. /\ OnlyOf(r) /\ on'[r] = a
        /\ \/ pc'[r] = "idle" /\ copy'[r].status = "policy_denied" /\ todo'[r] = AllCalls
           \/ pc'[r] = "dry" /\ copy'[r].status = "dry_run" /\ todo'[r] = {}
    BY <1>0, <2>2, <2>3, BeginEffect
  <2> QED BY <2>3, <2>4 DEF ArrivalMove, Free
<1>2. ASSUME NEW a \in ActionIds, ApproveTooLate(r, a)
      PROVE  OnlyOf(r) /\ ArrivalMove(r)
  <2> DEFINE rec == [actions[a] EXCEPT !.status = "expired"]
  <2>1. actions[a] \in ActionRecords
    BY <1>0 DEF RestOK
  <2>2. rec.status = "expired"
    BY <2>1, StatusOfRecord DEF Statuses
  <2>3. /\ Begin(r, a, rec, {"put"}, "idle") /\ UNCHANGED <<actions, sent>> /\ Free(r)
        /\ actions[a].status = "awaiting_approval" /\ r \in Approvers
    BY <1>2 DEF ApproveTooLate, storeVars, historyVars
  <2> HIDE DEF rec
  <2>4. OnlyOf(r) /\ on'[r] = a /\ pc'[r] = "idle" /\ copy'[r] = rec /\ todo'[r] = {"put"}
    BY <1>0, <2>3, BeginEffect
  <2> QED BY <2>2, <2>3, <2>4 DEF ArrivalMove, Free
<1>3. ASSUME NEW a \in ActionIds, NEW hash, NEW approved \in BOOLEAN,
             ApproveAction(r, a, hash, approved)
      PROVE  OnlyOf(r) /\ ArrivalMove(r)
  <2> DEFINE s == IF approved THEN "authorized" ELSE "rejected"
             rec == [actions[a] EXCEPT !.status = s, !.consumed = approved]
  <2>1. actions[a] \in ActionRecords
    BY <1>0 DEF RestOK
  <2>2. rec.status = s
    BY <2>1 DEF ActionRecords
  <2>3. /\ Begin(r, a, rec, AllCalls, "idle") /\ UNCHANGED <<actions, sent>> /\ Free(r)
        /\ actions[a].status = "awaiting_approval" /\ r \in Approvers
    BY <1>3 DEF ApproveAction, MayDecide, storeVars, AllCalls
  <2>4. s \in {"authorized", "rejected"}
    OBVIOUS
  <2> HIDE DEF rec, s
  <2>5. OnlyOf(r) /\ on'[r] = a /\ pc'[r] = "idle" /\ copy'[r] = rec /\ todo'[r] = AllCalls
    BY <1>0, <2>3, BeginEffect
  <2> QED BY <2>2, <2>3, <2>4, <2>5 DEF ArrivalMove, Free
<1>4. ASSUME NEW a \in ActionIds, ExecuteAction(r, a)
      PROVE  OnlyOf(r) /\ ArrivalMove(r)
  <2>1. Begin(r, a, Blank, {}, "claim") /\ UNCHANGED <<actions, sent>> /\ Free(r)
    BY <1>4 DEF ExecuteAction, storeVars, historyVars
  <2>2. OnlyOf(r) /\ on'[r] = a /\ pc'[r] = "claim" /\ copy'[r] = Blank /\ todo'[r] = {}
    BY <1>0, <2>1, BeginEffect
  <2>3. Blank.status = "absent"
    BY DEF Blank, AbsentRecord, BuildAction
  <2> QED BY <2>1, <2>2, <2>3 DEF ArrivalMove, Free
<1> QED BY <1>1, <1>2, <1>3, <1>4 DEF RequestArrives
-----------------------------------------------------------------------------
(* An audited outcome is real. *)

\* Only a target applies changes, and none is taken back.
LEMMA AppliedGrows ==
  ASSUME TypeOK, [Next]_vars
  PROVE  /\ \A a \in ActionIds : applied[a] \in Nat /\ applied'[a] \in Nat /\ applied'[a] >= applied[a]
         /\ (\A m \in wire : ~ApplyChange(m)) => UNCHANGED applied
<1>0. RestOK
  BY TypeParts
<1>1. ASSUME NEW m \in wire, ApplyChange(m)
      PROVE  \A a \in ActionIds : applied[a] \in Nat /\ applied'[a] \in Nat /\ applied'[a] >= applied[a]
  <2>1. m.act \in ActionIds /\ applied \in [ActionIds -> Nat]
    BY <1>0 DEF RestOK, Messages
  <2>2. applied' = [applied EXCEPT ![m.act] = applied[m.act] + 1]
    BY <1>1 DEF ApplyChange
  <2> QED BY <2>1, <2>2
<1>2. ASSUME NEW r \in Requests, HandlerStep(r)
      PROVE  UNCHANGED applied
  BY <1>2
     DEF HandlerStep, PutAction, AppendAudit, EmitAction, DryRunFailed, DryRunUncertain,
         DryRunPassed, ClaimExpired, ClaimRefused, ClaimAction, PreconditionsFailed,
         PreconditionsHold, RunnerReadFailed, RunnerRead, SendChange, ChangeAccepted,
         ChangeRefused, ChangeTimedOut, VerifyFailed, Verify, targetVars
<1>3. ASSUME NEW r \in Requests, RequestArrives(r) \/ DropRequest(r)
      PROVE  UNCHANGED applied
  BY <1>3 DEF RequestArrives, ProposeActionPlan, ApproveTooLate, ApproveAction,
              ExecuteAction, DropRequest, targetVars
<1>4. ASSUME \/ Startup \/ Crash
             \/ \E m \in wire : RefuseChange(m)
             \/ \E kind \in Registered : TargetDrifts(kind)
             \/ \E a \in ActionIds : ApprovalExpires(a)
             \/ \E enabled \in BOOLEAN : SetKillSwitch(enabled)
             \/ UNCHANGED vars
      PROVE  UNCHANGED applied
  BY <1>4 DEF Startup, Restart, RecoverAction, RecoverAnnounce, Serve, Crash, RefuseChange,
              TargetDrifts, ApprovalExpires, SetKillSwitch, vars, targetVars
<1>5. (\A m \in wire : ~ApplyChange(m)) => UNCHANGED applied
  BY <1>2, <1>3, <1>4 DEF Next, TargetStep
<1>6. applied \in [ActionIds -> Nat]
  BY <1>0 DEF RestOK
<1>7. UNCHANGED applied =>
        \A a \in ActionIds : applied[a] \in Nat /\ applied'[a] \in Nat /\ applied'[a] >= applied[a]
  BY <1>6
<1> QED BY <1>1, <1>5, <1>7

\* What is on its way to handlers that stay where they are, and fewer of it, still fits.
LEMMA AnswersKept ==
  ASSUME TypeOK, AnswersFit, [Next]_vars,
         \A m \in wire' : m \in wire \/ (m.to = NoRequest /\ m.state = "sent"),
         \A m \in wire' : m.to # NoRequest => pc'[m.to] = pc[m.to] /\ on'[m.to] = on[m.to]
  PROVE  AnswersFit'
<1>1. ASSUME NEW m \in wire', m.to # NoRequest
      PROVE  m \in wire /\ m.to \in Requests /\ pc'[m.to] = "await" /\ on'[m.to] = m.act
  BY <1>1 DEF AnswersFit
<1>2. ASSUME NEW m \in wire', m.state = "applied"
      PROVE  applied'[m.act] >= 1
  <2>1. m \in wire /\ m.act \in ActionIds
    BY <1>2 DEF TypeOK, Messages
  <2>2. applied[m.act] >= 1
    BY <1>2, <2>1 DEF AnswersFit
  <2>3. applied[m.act] \in Nat /\ applied'[m.act] \in Nat /\ applied'[m.act] >= applied[m.act]
    BY <2>1, AppliedGrows
  <2> QED BY <2>2, <2>3
<1>3. \A m, w \in wire' : m.to # NoRequest /\ m.to = w.to => m = w
  BY <1>1 DEF AnswersFit
<1> QED BY <1>1, <1>2, <1>3 DEF AnswersFit

\* Nobody is told anything after he has given up.
LEMMA ForsakenFit ==
  ASSUME TypeOK, AnswersFit, [Next]_vars, NEW rs \in SUBSET Requests, Forsake(rs),
         \A s \in Requests : s \notin rs => pc'[s] = pc[s] /\ on'[s] = on[s]
  PROVE  AnswersFit'
<1>1. ASSUME NEW m \in wire'
      PROVE  (m \in wire /\ m.to \notin rs) \/ (m.to = NoRequest /\ m.state = "sent")
  <2>1. CASE m \in wire /\ m.to \notin rs
    BY <2>1
  <2>2. CASE ~(m \in wire /\ m.to \notin rs)
    <3>1. PICK w \in wire : m = [w EXCEPT !.to = NoRequest] /\ w.state = "sent"
      BY <2>2 DEF Forsake
    <3>2. w \in Messages
      BY DEF TypeOK
    <3>3. m.to = NoRequest /\ m.state = w.state
      BY <3>1, <3>2 DEF Messages
    <3> QED BY <3>1, <3>3
  <2> QED BY <2>1, <2>2
<1>2. \A m \in wire' : m.to # NoRequest => pc'[m.to] = pc[m.to] /\ on'[m.to] = on[m.to]
  BY <1>1 DEF AnswersFit
<1> QED BY <1>1, <1>2, AnswersKept

\* A target answers whoever waits for it.
LEMMA AnsweredFit ==
  ASSUME TypeOK, AnswersFit, [Next]_vars, UNCHANGED <<pc, on>>, NEW w \in wire, NEW st,
         Answered(w, st), st = "applied" => applied'[w.act] >= 1
  PROVE  AnswersFit'
<1> DEFINE v == [w EXCEPT !.state = st]
<1>1. w \in Messages
  BY DEF TypeOK
<1>2. v.to = w.to /\ v.act = w.act /\ v.state = st
  BY <1>1 DEF Messages
<1>3. wire' = (wire \ {w}) \cup (IF w.to = NoRequest THEN {} ELSE {v})
  BY DEF Answered
<1> HIDE DEF v
<1>4. ASSUME NEW m \in wire', m.to # NoRequest
      PROVE  m.to \in Requests /\ pc'[m.to] = "await" /\ on'[m.to] = m.act
  BY <1>2, <1>3, <1>4 DEF AnswersFit
<1>5. ASSUME NEW m \in wire', NEW x \in wire', m.to # NoRequest, m.to = x.to
      PROVE  m = x
  <2>1. CASE m \in wire \ {w} /\ x \in wire \ {w}
    BY <1>5, <2>1 DEF AnswersFit
  <2>2. CASE m \notin wire \ {w} \/ x \notin wire \ {w}
    BY <1>2, <1>3, <1>5, <2>2 DEF AnswersFit
  <2> QED BY <2>1, <2>2
<1>6. ASSUME NEW m \in wire', m.state = "applied"
      PROVE  applied'[m.act] >= 1
  <2>1. CASE m \in wire
    <3>1. m.act \in ActionIds /\ applied[m.act] >= 1
      BY <1>6, <2>1 DEF AnswersFit, TypeOK, Messages
    <3>2. applied[m.act] \in Nat /\ applied'[m.act] \in Nat /\ applied'[m.act] >= applied[m.act]
      BY <3>1, AppliedGrows
    <3> QED BY <3>1, <3>2
  <2>2. CASE m \notin wire
    BY <1>2, <1>3, <1>6, <2>2
  <2> QED BY <2>1, <2>2
<1> QED BY <1>4, <1>5, <1>6 DEF AnswersFit

\* A handler that does not wait for an answer has none on its way.
LEMMA NotWaiting ==
  ASSUME AnswersFit, NEW r, pc[r] # "await", r # NoRequest
  PROVE  \A m \in wire : m.to # r
BY DEF AnswersFit

\* A handler's step keeps its answers, takes the only one, or asks for a first one.
LEMMA OwnAnswers ==
  ASSUME TypeOK, Occupied, AnswersFit, [Next]_vars, NEW r \in Requests, HandlerStep(r)
  PROVE  AnswersFit'
<1>0. OnlyOf(r) /\ HandlersOK /\ r # NoRequest
  BY HandlerMoves, TypeParts, ConstantsAssumption
<1>1. \A s \in Requests : s # r => pc'[s] = pc[s] /\ on'[s] = on[s]
  BY <1>0 DEF OnlyOf, Untouched
<1>2. CASE SendChange(r)
  <2> DEFINE m == [act |-> on[r], n |-> sent[on[r]], kind |-> copy[r].kind,
                   rv |-> copy[r].rv, hash |-> ActionRequestHash(on[r], copy[r]),
                   to |-> r, state |-> "sent"]
  <2>1. wire' = wire \cup {m} /\ Goto(r, "await") /\ pc[r] = "mutate" /\ UNCHANGED applied
    BY <1>2 DEF SendChange, At
  <2>2. m.act = on[r] /\ m.to = r /\ m.state = "sent"
    OBVIOUS
  <2> HIDE DEF m
  <2>3. pc'[r] = "await" /\ on'[r] = on[r]
    BY <1>0, <2>1, GotoEffect
  <2>4. \A w \in wire : w.to # r
    BY <1>0, <2>1, NotWaiting
  <2>5. ASSUME NEW w \in wire', w.to # NoRequest
        PROVE  w.to \in Requests /\ pc'[w.to] = "await" /\ on'[w.to] = w.act
    BY <1>1, <2>1, <2>2, <2>3, <2>4, <2>5 DEF AnswersFit
  <2>6. \A w, x \in wire' : w.to # NoRequest /\ w.to = x.to => w = x
    BY <2>1, <2>2, <2>4 DEF AnswersFit
  <2>7. \A w \in wire' : w.state = "applied" => applied'[w.act] >= 1
    BY <2>1, <2>2 DEF AnswersFit
  <2> QED BY <2>5, <2>6, <2>7 DEF AnswersFit
<1>3. CASE ChangeAccepted(r) \/ ChangeRefused(r)
  <2>1. PICK m \in wire : m.to = r /\ wire' = wire \ {m}
    BY <1>3 DEF ChangeAccepted, ChangeRefused
  <2>2. \A w \in wire' : w \in wire /\ w.to # r
    BY <1>0, <2>1 DEF AnswersFit
  <2>3. \A w \in wire' : w.to # NoRequest => pc'[w.to] = pc[w.to] /\ on'[w.to] = on[w.to]
    BY <1>1, <2>2 DEF AnswersFit
  <2> QED BY <2>2, <2>3, AnswersKept
<1>4. CASE ChangeTimedOut(r)
  <2>1. Forsake({r}) /\ \A s \in Requests : s \notin {r} => pc'[s] = pc[s] /\ on'[s] = on[s]
    BY <1>1, <1>4 DEF ChangeTimedOut
  <2> QED BY <2>1, ForsakenFit
<1>5. CASE ~SendChange(r) /\ ~ChangeAccepted(r) /\ ~ChangeRefused(r) /\ ~ChangeTimedOut(r)
  <2>1. UNCHANGED wire
    BY <1>5
       DEF HandlerStep, PutAction, AppendAudit, EmitAction, DryRunFailed, DryRunUncertain,
           DryRunPassed, ClaimExpired, ClaimRefused, ClaimAction, PreconditionsFailed,
           PreconditionsHold, RunnerReadFailed, RunnerRead, VerifyFailed, Verify, targetVars
  <2>2. pc[r] = "await" => pc'[r] = pc[r] /\ on'[r] = on[r]
    <3>1. SUFFICES ASSUME pc[r] = "await" PROVE pc'[r] = pc[r] /\ on'[r] = on[r]
      OBVIOUS
    <3>2. \E call : Called(r, call)
      BY <1>5, <3>1
         DEF HandlerStep, PutAction, AppendAudit, EmitAction, DryRunFailed, DryRunUncertain,
             DryRunPassed, ClaimExpired, ClaimRefused, ClaimAction, PreconditionsFailed,
             PreconditionsHold, RunnerReadFailed, RunnerRead, VerifyFailed, Verify, At
    <3> QED BY <3>1, <3>2 DEF Called
  <2>3. \A w \in wire' : w.to # NoRequest => pc'[w.to] = pc[w.to] /\ on'[w.to] = on[w.to]
    BY <1>1, <2>1, <2>2 DEF AnswersFit
  <2> QED BY <2>1, <2>3, AnswersKept
<1> QED BY <1>2, <1>3, <1>4, <1>5

\* Every step keeps answers and handlers together.
LEMMA AnswersFitStep ==
  ASSUME TypeOK, Occupied, AnswersFit, [Next]_vars
  PROVE  AnswersFit'
<1>0. HandlersOK
  BY TypeParts
<1>1. ASSUME NEW r \in Requests, RequestArrives(r)
      PROVE  AnswersFit'
  <2>1. OnlyOf(r) /\ pc[r] = "idle" /\ r # NoRequest
    BY <1>1, ArrivalMoves, ConstantsAssumption DEF ArrivalMove
  <2>2. UNCHANGED wire
    BY <1>1 DEF RequestArrives, ProposeActionPlan, ApproveTooLate, ApproveAction, ExecuteAction,
                targetVars
  <2>3. \A w \in wire' : w.to # NoRequest => pc'[w.to] = pc[w.to] /\ on'[w.to] = on[w.to]
    BY <2>1, <2>2 DEF AnswersFit, OnlyOf, Untouched
  <2> QED BY <2>2, <2>3, AnswersKept
<1>2. ASSUME NEW r \in Requests, DropRequest(r)
      PROVE  AnswersFit'
  <2>1. OnlyOf(r) /\ Forsake({r})
    BY <1>0, <1>2, ReleaseEffect DEF DropRequest
  <2>2. \A s \in Requests : s \notin {r} => pc'[s] = pc[s] /\ on'[s] = on[s]
    BY <2>1 DEF OnlyOf, Untouched
  <2> QED BY <2>1, <2>2, ForsakenFit
<1>3. CASE Crash
  BY <1>3, ForsakenFit DEF Crash
<1>4. ASSUME NEW m \in wire, ApplyChange(m)
      PROVE  AnswersFit'
  <2>1. m.act \in ActionIds /\ applied \in [ActionIds -> Nat]
    BY DEF TypeOK, Messages
  <2>2. applied'[m.act] >= 1
    BY <1>4, <2>1 DEF ApplyChange
  <2> QED BY <1>4, <2>2, AnsweredFit DEF ApplyChange, handlerVars
<1>5. ASSUME NEW m \in wire, RefuseChange(m)
      PROVE  AnswersFit'
  BY <1>5, AnsweredFit DEF RefuseChange, handlerVars
<1>6. ASSUME UNCHANGED <<wire, pc, on>>
      PROVE  AnswersFit'
  BY <1>6, AnswersKept
<1>7. ASSUME \/ Startup
             \/ \E kind \in Registered : TargetDrifts(kind)
             \/ \E a \in ActionIds : ApprovalExpires(a)
             \/ \E enabled \in BOOLEAN : SetKillSwitch(enabled)
             \/ UNCHANGED vars
      PROVE  UNCHANGED <<wire, pc, on>>
  BY <1>7 DEF Startup, Restart, RecoverAction, RecoverAnnounce, Serve, TargetDrifts,
              ApprovalExpires, SetKillSwitch, vars, targetVars, handlerVars
<1> QED BY <1>1, <1>2, <1>3, <1>4, <1>5, <1>6, <1>7, OwnAnswers DEF Next, TargetStep

\* A handler comes to verify by an answer, and to an outcome by verifying.
LEMMA OutcomesRealStep ==
  ASSUME TypeOK, Occupied, AnswersFit, OutcomesReal, [Next]_vars
  PROVE  OutcomesReal'
<1> SUFFICES ASSUME NEW s \in Requests PROVE OutcomeReal(s)'
  BY DEF OutcomesReal
<1>0. HandlersOK /\ OutcomeReal(s)
  BY TypeParts DEF OutcomesReal
<1>1. ASSUME Returned(s)
      PROVE  OutcomeReal(s)'
  BY <1>1, ConstantsAssumption DEF Returned, OutcomeReal
<1>2. ASSUME on'[s] = on[s], applied[on[s]] >= 1
      PROVE  OutcomeReal(s)'
  <2>1. SUFFICES ASSUME on[s] \in ActionIds PROVE applied'[on[s]] >= 1
    BY <1>2 DEF OutcomeReal
  <2>2. /\ applied[on[s]] \in Nat /\ applied'[on[s]] \in Nat
        /\ applied'[on[s]] >= applied[on[s]]
    BY <2>1, AppliedGrows
  <2> QED BY <1>2, <2>2
<1>3. ASSUME on'[s] = on[s], pc'[s] = "verify" => pc[s] = "verify",
             copy'[s].status \in Outcomes => copy[s].status \in Outcomes
      PROVE  OutcomeReal(s)'
  <2>1. CASE on[s] \in ActionIds /\ (pc[s] = "verify" \/ copy[s].status \in Outcomes)
    BY <1>0, <1>2, <1>3, <2>1 DEF OutcomeReal
  <2>2. CASE ~(on[s] \in ActionIds /\ (pc[s] = "verify" \/ copy[s].status \in Outcomes))
    BY <1>3, <2>2 DEF OutcomeReal
  <2> QED BY <2>1, <2>2
<1>4. ASSUME Untouched(s)
      PROVE  OutcomeReal(s)'
  BY <1>3, <1>4 DEF Untouched
<1>5. ASSUME HandlerStep(s)
      PROVE  OutcomeReal(s)'
  <2>1. HandlerMove(s)
    BY <1>5, HandlerMoves
  <2>2. CASE PutAction(s) \/ AppendAudit(s) \/ EmitAction(s)
    <3>1. PICK call : Called(s, call)
      BY <2>2 DEF PutAction, AppendAudit, EmitAction
    <3>2. \/ Returned(s)
          \/ pc'[s] = pc[s] /\ on'[s] = on[s] /\ copy'[s] = copy[s]
      BY <1>0, <3>1, CalledEffect
    <3> QED BY <1>1, <1>3, <3>2
  <2>3. CASE Returned(s)
    BY <1>1, <2>3
  <2>4. ASSUME on'[s] = on[s], pc'[s] # "verify", copy'[s].status \notin Outcomes
        PROVE  OutcomeReal(s)'
    BY <1>3, <2>4
  <2>5. CASE ChangeAccepted(s)
    <3>1. PICK m \in wire : m.to = s /\ m.state = "applied"
      BY <2>5 DEF ChangeAccepted
    <3>2. on[s] = m.act /\ applied[m.act] >= 1
      BY <3>1, ConstantsAssumption DEF AnswersFit
    <3>3. on'[s] = on[s]
      BY <2>5 DEF ChangeAccepted, Goto
    <3> QED BY <1>2, <3>2, <3>3
  <2>6. ASSUME NEW o \in Outcomes, Moves(s, "verify", "idle", o, AllCalls)
        PROVE  OutcomeReal(s)'
    <3>1. on'[s] = on[s] /\ pc[s] = "verify"
      BY <2>6 DEF Moves
    <3>2. on[s] \in ActionIds
      BY <3>1 DEF Occupied
    <3> QED BY <1>0, <1>2, <3>1, <3>2 DEF OutcomeReal
  <2>7. \A x \in {"precondition_check", "invalid", "awaiting_approval", "stale", "executing",
                  "needs_reconciliation"} : x \notin Outcomes
    BY DEF Outcomes
  <2>8. ASSUME NEW from, NEW to \in {"idle", "run"}, NEW calls,
               NEW x \in {"invalid", "awaiting_approval", "stale", "executing",
                          "needs_reconciliation"},
               Moves(s, from, to, x, calls)
        PROVE  OutcomeReal(s)'
    BY <2>4, <2>7, <2>8 DEF Moves
  <2>9. ASSUME NEW from, NEW to \in {"mutate", "await"}, Moves(s, from, to, copy[s].status, {})
        PROVE  OutcomeReal(s)'
    BY <1>3, <2>9 DEF Moves
  <2>10. CASE ClaimAction(s) /\ pc'[s] = "check" /\ on'[s] = on[s]
              /\ copy'[s].status = "precondition_check"
    BY <2>4, <2>7, <2>10
  <2> QED BY <2>1, <2>2, <2>3, <2>5, <2>6, <2>8, <2>9, <2>10 DEF HandlerMove
<1>6. ASSUME RequestArrives(s)
      PROVE  OutcomeReal(s)'
  <2>1. pc'[s] # "verify" /\ copy'[s].status \notin Outcomes
    BY <1>6, ArrivalMoves DEF ArrivalMove, Outcomes
  <2> QED BY <2>1 DEF OutcomeReal
<1>7. ASSUME NEW r \in Requests, r # s, HandlerStep(r) \/ RequestArrives(r)
      PROVE  OutcomeReal(s)'
  BY <1>4, <1>7, HandlerMoves, ArrivalMoves DEF OnlyOf
<1>8. CASE \A r \in Requests : ~HandlerStep(r) /\ ~RequestArrives(r)
  BY <1>1, <1>4, <1>8, OthersStep
<1> QED BY <1>5, <1>6, <1>7, <1>8

\* What the audit log and the last event say changes by the calls of handlers, and by
\* recovery.
LEMMA WordsStep ==
  ASSUME TypeOK, Occupied, [Next]_vars
  PROVE  /\ \/ UNCHANGED audited
            \/ \E r \in Requests : AppendAudit(r)
         /\ \/ UNCHANGED announced
            \/ \E r \in Requests : EmitAction(r)
            \/ RecoverAnnounce
<1>1. ASSUME NEW r \in Requests, HandlerStep(r), ~AppendAudit(r), ~EmitAction(r)
      PROVE  UNCHANGED <<audited, announced>>
  BY <1>1
     DEF HandlerStep, PutAction, DryRunFailed, DryRunUncertain, DryRunPassed,
         ClaimExpired, ClaimRefused, ClaimAction, PreconditionsFailed, PreconditionsHold,
         RunnerReadFailed, RunnerRead, SendChange, ChangeAccepted, ChangeRefused,
         ChangeTimedOut, VerifyFailed, Verify, storeVars
<1>2. ASSUME NEW r \in Requests, AppendAudit(r)
      PROVE  UNCHANGED announced
  BY <1>2 DEF AppendAudit
<1>3. ASSUME NEW r \in Requests, EmitAction(r)
      PROVE  UNCHANGED audited
  BY <1>3 DEF EmitAction
<1>4. ASSUME NEW r \in Requests, RequestArrives(r) \/ DropRequest(r)
      PROVE  UNCHANGED <<audited, announced>>
  BY <1>4 DEF RequestArrives, ProposeActionPlan, ApproveTooLate, ApproveAction,
              ExecuteAction, DropRequest, storeVars
<1>5. ASSUME \/ TargetStep \/ Crash \/ Restart \/ Serve
             \/ \E a \in ActionIds : RecoverAction(a)
             \/ \E a \in ActionIds : ApprovalExpires(a)
             \/ \E enabled \in BOOLEAN : SetKillSwitch(enabled)
             \/ UNCHANGED vars
      PROVE  UNCHANGED <<audited, announced>>
  BY <1>5 DEF TargetStep, ApplyChange, RefuseChange, TargetDrifts, Crash, Restart, Serve,
              RecoverAction, ApprovalExpires, SetKillSwitch, vars, storeVars
<1>6. RecoverAnnounce => UNCHANGED audited
  BY DEF RecoverAnnounce
<1> QED BY <1>1, <1>2, <1>3, <1>4, <1>5, <1>6 DEF Next, Startup

\* An outcome is audited by the handler that has it.
LEMMA AuditedStep ==
  ASSUME TypeOK, Occupied, OutcomesReal, AuditedOutcomeIsReal, [Next]_vars
  PROVE  AuditedOutcomeIsReal'
<1> SUFFICES ASSUME NEW a \in ActionIds, audited'[a] \cap Outcomes # {}
             PROVE  applied'[a] >= 1
  BY DEF AuditedOutcomeIsReal, Outcomes
<1>0. applied[a] \in Nat /\ applied'[a] \in Nat /\ applied'[a] >= applied[a]
  BY AppliedGrows
<1>1. ASSUME audited[a] \cap Outcomes # {}
      PROVE  applied[a] >= 1
  BY <1>1 DEF AuditedOutcomeIsReal, Outcomes
<1>2. ASSUME NEW r \in Requests, AppendAudit(r)
      PROVE  applied[a] >= 1
  <2>1. on[r] \in ActionIds /\ audited \in [ActionIds -> SUBSET Statuses]
        /\ audited' = [audited EXCEPT ![on[r]] = audited[on[r]] \cup {copy[r].status}]
    BY <1>2 DEF AppendAudit, Occupied, TypeOK
  <2>2. CASE a = on[r] /\ copy[r].status \in Outcomes
    BY <2>1, <2>2 DEF OutcomesReal, OutcomeReal
  <2>3. CASE ~(a = on[r] /\ copy[r].status \in Outcomes)
    <3>1. audited[a] \cap Outcomes # {}
      BY <2>1, <2>3
    <3> QED BY <1>1, <3>1
  <2> QED BY <2>2, <2>3
<1>3. applied[a] >= 1
  BY <1>1, <1>2, WordsStep
<1> QED BY <1>0, <1>3

\* At first nothing has been done.
LEMMA OutcomeInit == Init => OutcomeInv
<1> SUFFICES ASSUME Init PROVE OutcomeInv
  OBVIOUS
<1>1. AnswersFit
  BY DEF Init, AnswersFit
<1>2. OutcomesReal
  BY ConstantsAssumption DEF Init, OutcomesReal, OutcomeReal
<1>3. AuditedOutcomeIsReal
  BY DEF Init, AuditedOutcomeIsReal
<1> QED BY <1>1, <1>2, <1>3 DEF OutcomeInv

\* An action whose audit log says that it succeeded, or that its rollback is proposed, did
\* change its target, for any number of racing approvals and executions, timeouts, late
\* answers, dropped requests and crashes (execute_action audits what the runner returned).
THEOREM AuditedAreReal == Spec => []AuditedOutcomeIsReal
<1>1. TypeOK /\ Occupied /\ OutcomeInv /\ [Next]_vars => OutcomeInv'
  BY AnswersFitStep, OutcomesRealStep, AuditedStep DEF OutcomeInv
<1>2. TypeOK /\ Occupied /\ PatchInv /\ [Next]_vars => TypeOK' /\ Occupied' /\ PatchInv'
  BY PatchInvStep
<1>3. OutcomeInv => AuditedOutcomeIsReal
  BY DEF OutcomeInv
<1> QED BY PatchInvInit, OutcomeInit, <1>1, <1>2, <1>3, PTL DEF Spec
-----------------------------------------------------------------------------
(* One approver: who changes what is on record. *)

\* What recovery, claims and puts may do to a status.
Legal(f, t) ==
  \/ f \in PutsFrom(t)
  \/ f = "authorized" /\ t \in {"expired", "precondition_check"}
  \/ f \in InFlight /\ t = "needs_reconciliation"

\* A final status is not left, and neither are those of an action that has begun.
LEMMA LegalFacts ==
  ASSUME NEW f, NEW t, Legal(f, t)
  PROVE  /\ ~IsTerminal(f)
         /\ f \in Begun => t \in Begun
         /\ StoreMove(f, t) /\ t \in Statuses
<1>1. ~IsTerminal(f) /\ t \in Statuses
  BY DEF Legal, PutsFrom, IsTerminal, InFlight, Statuses
<1>2. f \in Begun => t \in Begun
  BY DEF Legal, PutsFrom, InFlight, Begun
<1>3. CASE f = "absent"
  <2>1. t \in {"policy_denied", "invalid", "awaiting_approval"}
    BY <1>3 DEF Legal, PutsFrom, InFlight
  <2>2. CanTransition("proposed", "policy_denied") /\ CanTransition("proposed", "dry_run")
        /\ CanTransition("dry_run", "invalid") /\ CanTransition("dry_run", "awaiting_approval")
    BY DEF CanTransition
  <2>3. "dry_run" \in Transient /\ t \notin Transient
    BY <2>1 DEF Transient
  <2>4. CanTransition("proposed", t) \/ (CanTransition("proposed", "dry_run") /\ CanTransition("dry_run", t))
    BY <2>1, <2>2
  <2> QED BY <1>1, <1>2, <1>3, <2>3, <2>4 DEF StoreMove
<1>4. CASE f # "absent" /\ t \notin {"succeeded", "rollback_proposed"}
  <2>1. CanTransition(f, t) /\ t \notin Transient
    BY <1>4 DEF Legal, PutsFrom, InFlight, CanTransition, Transient
  <2> QED BY <1>1, <1>2, <1>4, <2>1 DEF StoreMove
<1>5. CASE t \in {"succeeded", "rollback_proposed"}
  <2>1. f = "executing" /\ t \notin Transient
    BY <1>5 DEF Legal, PutsFrom, InFlight, Transient
  <2>2. /\ CanTransition("executing", "verifying") /\ CanTransition("verifying", "succeeded")
        /\ CanTransition("verifying", "verification_failed")
        /\ CanTransition("verification_failed", "rollback_proposed")
    BY DEF CanTransition
  <2>3. "verifying" \in Transient /\ "verification_failed" \in Transient
    BY DEF Transient
  <2> QED BY <1>1, <1>2, <1>5, <2>1, <2>2, <2>3 DEF StoreMove
<1> QED BY <1>3, <1>4, <1>5

\* Who changes a record: the handler that puts it, the one that claims it, or recovery.
LEMMA TableMoves ==
  ASSUME TypeOK, Occupied, [Next]_vars
  PROVE  \/ UNCHANGED actions
         \/ \E r \in Requests : PutAction(r)
         \/ \E r \in Requests, s \in {"expired", "precondition_check"} :
              /\ ClaimExpired(r) \/ ClaimAction(r)
              /\ on[r] \in ActionIds /\ actions[on[r]].status = "authorized" /\ Restated(on[r], s)
         \/ \E b \in ActionIds : RecoverAction(b) /\ Restated(b, RecoveredStatus(b))
<1>1. ASSUME NEW r \in Requests, ClaimExpired(r) \/ ClaimAction(r)
      PROVE  /\ on[r] \in ActionIds /\ actions[on[r]].status = "authorized"
             /\ \E s \in {"expired", "precondition_check"} : Restated(on[r], s)
  BY <1>1 DEF ClaimExpired, ClaimAction, At, Occupied, Claimable, Restated
<1>2. ASSUME NEW b \in ActionIds, RecoverAction(b)
      PROVE  Restated(b, RecoveredStatus(b))
  BY <1>2 DEF RecoverAction, Restated
<1>3. ASSUME NEW r \in Requests, HandlerStep(r), ~PutAction(r), ~ClaimExpired(r), ~ClaimAction(r)
      PROVE  UNCHANGED actions
  BY <1>3
     DEF HandlerStep, AppendAudit, EmitAction, DryRunFailed, DryRunUncertain, DryRunPassed,
         ClaimRefused, PreconditionsFailed, PreconditionsHold, RunnerReadFailed, RunnerRead,
         SendChange, ChangeAccepted, ChangeRefused, ChangeTimedOut, VerifyFailed, Verify,
         storeVars
<1>4. ASSUME NEW r \in Requests, RequestArrives(r) \/ DropRequest(r)
      PROVE  UNCHANGED actions
  BY <1>4 DEF RequestArrives, DropRequest, ProposeActionPlan, ApproveTooLate, ApproveAction,
              ExecuteAction, storeVars
<1>5. ASSUME \/ TargetStep \/ Crash \/ Restart \/ RecoverAnnounce \/ Serve
             \/ \E b \in ActionIds : ApprovalExpires(b)
             \/ \E enabled \in BOOLEAN : SetKillSwitch(enabled)
             \/ UNCHANGED vars
      PROVE  UNCHANGED actions
  BY <1>5 DEF TargetStep, ApplyChange, RefuseChange, TargetDrifts, Crash, Restart,
              RecoverAnnounce, Serve, ApprovalExpires, SetKillSwitch, vars, storeVars
<1> QED BY <1>1, <1>2, <1>3, <1>4, <1>5 DEF Next, Startup

\* What recovery makes of a status, when it changes it.
LEMMA RecoveredIsLegal ==
  ASSUME NEW b \in ActionIds, RecoverAction(b)
  PROVE  /\ Legal(actions[b].status, RecoveredStatus(b)) /\ RecoveredStatus(b) \in Statuses
         /\ phase = "recovering"
<1>1. /\ RecoveredStatus(b) # actions[b].status /\ phase = "recovering"
  BY DEF RecoverAction
<1>2. \/ actions[b].status \in {"awaiting_approval", "authorized"} /\ RecoveredStatus(b) = "expired"
      \/ actions[b].status \in InFlight /\ RecoveredStatus(b) = "needs_reconciliation"
  BY <1>1 DEF RecoveredStatus
<1> QED BY <1>1, <1>2 DEF Legal, PutsFrom, Statuses

\* Every status that changes does so legally.
LEMMA RecordsMoveLegally ==
  ASSUME TypeOK, Occupied, HandlersOnCourse, [Next]_vars, NEW a \in ActionIds
  PROVE  actions'[a].status = actions[a].status \/ Legal(actions[a].status, actions'[a].status)
<1>1. ASSUME NEW r \in Requests, PutAction(r), on[r] = a
      PROVE  Legal(actions[a].status, actions'[a].status)
  <2>1. "put" \in todo[r] /\ actions'[a] = copy[r]
    BY <1>1, PutEffect
  <2>2. actions[a].status \in PutsFrom(copy[r].status)
    BY <1>1, <2>1 DEF HandlersOnCourse, OnCourse
  <2> QED BY <2>1, <2>2 DEF Legal
<1>2. CASE \E r \in Requests : PutAction(r)
  BY <1>1, <1>2, PutEffect
<1>3. ASSUME NEW r \in Requests, NEW s \in {"expired", "precondition_check"}, on[r] \in ActionIds,
             actions[on[r]].status = "authorized", Restated(on[r], s)
      PROVE  actions'[a].status = actions[a].status \/ Legal(actions[a].status, actions'[a].status)
  <2>1. s \in Statuses
    BY DEF Statuses
  <2>2. actions'[on[r]].status = s /\ (a # on[r] => actions'[a] = actions[a])
    BY <1>3, <2>1, RestatedEffect
  <2> QED BY <1>3, <2>2 DEF Legal
<1>4. ASSUME NEW b \in ActionIds, RecoverAction(b), Restated(b, RecoveredStatus(b))
      PROVE  actions'[a].status = actions[a].status \/ Legal(actions[a].status, actions'[a].status)
  BY <1>4, RecoveredIsLegal, RestatedEffect
<1> QED BY <1>2, <1>3, <1>4, TableMoves

\* Where an action is that somebody owns: in particular, it is not authorized.
LEMMA OwnedStatus ==
  ASSUME TypeOK, NEW r \in Requests, OnCourse(r), Owns(r)
  PROVE  /\ actions[on[r]].status \in {"absent", "awaiting_approval", "precondition_check", "executing"}
         /\ actions[on[r]].status = "awaiting_approval" => r \in Approvers
<1>1. CASE "put" \in todo[r]
  BY <1>1 DEF OnCourse, PutsFrom
<1>2. CASE "put" \notin todo[r]
  <2>1. pc[r] \in {"dry", "check", "run", "mutate", "await", "verify"}
    BY <1>2 DEF Owns, TypeOK, Locations
  <2> QED BY <1>2, <2>1 DEF OnCourse
<1> QED BY <1>1, <1>2

\* A handler that does not move owns nothing of which the status changes.
LEMMA OwnersUndisturbed ==
  ASSUME TypeOK, Occupied, SerialInv, [Next]_vars, NEW r \in Requests, Untouched(r), Owns(r)
  PROVE  on[r] \in ActionIds /\ actions'[on[r]].status = actions[on[r]].status
<1>0. HandlersOK /\ OnCourse(r) /\ QuietUnlessUp /\ OneOwner
  BY TypeParts DEF SerialInv, HandlersOnCourse
<1>1. on[r] \in ActionIds
  BY DEF Owns, Occupied
<1>2. ASSUME NEW s \in Requests, PutAction(s)
      PROVE  actions'[on[r]] = actions[on[r]]
  <2>1. "put" \in todo[s] /\ \A a \in ActionIds : a # on[s] => actions'[a] = actions[a]
    BY <1>2, PutEffect
  <2>2. s # r
    <3>1. SUFFICES ASSUME s = r PROVE FALSE
      OBVIOUS
    <3>2. Called(r, "put")
      BY <1>2, <3>1 DEF PutAction
    <3>3. "put" \notin todo'[r]
      BY <1>0, <3>2, CalledEffect DEF Returned
    <3> QED BY <2>1, <3>1, <3>3 DEF Untouched
  <2>3. on[s] # on[r]
    BY <1>0, <2>1, <2>2 DEF OneOwner, Owns
  <2> QED BY <1>1, <2>1, <2>3
<1>3. ASSUME NEW s \in Requests, NEW x \in {"expired", "precondition_check"}, on[s] \in ActionIds,
             actions[on[s]].status = "authorized", Restated(on[s], x)
      PROVE  actions'[on[r]] = actions[on[r]]
  <2>1. on[s] # on[r]
    BY <1>0, <1>3, OwnedStatus
  <2>2. x \in Statuses
    BY DEF Statuses
  <2> QED BY <1>1, <1>3, <2>1, <2>2, RestatedEffect
<1>4. ASSUME NEW b \in ActionIds, RecoverAction(b)
      PROVE  FALSE
  BY <1>0, <1>4, RecoveredIsLegal DEF QuietUnlessUp, Owns
<1> QED BY <1>1, <1>2, <1>3, <1>4, TableMoves

\* Change requests are sent by a handler, from the place before.
LEMMA SentStep ==
  ASSUME TypeOK, Occupied, [Next]_vars
  PROVE  \/ UNCHANGED sent
         \/ \E r \in Requests :
              /\ SendChange(r) /\ on[r] \in ActionIds /\ pc[r] = "mutate" /\ todo[r] = {}
              /\ sent' = [sent EXCEPT ![on[r]] = sent[on[r]] + 1] /\ UNCHANGED actions
<1>1. ASSUME NEW r \in Requests, SendChange(r)
      PROVE  /\ on[r] \in ActionIds /\ pc[r] = "mutate" /\ todo[r] = {}
             /\ sent' = [sent EXCEPT ![on[r]] = sent[on[r]] + 1] /\ UNCHANGED actions
  BY <1>1 DEF SendChange, At, Occupied, storeVars
<1>2. ASSUME NEW r \in Requests, HandlerStep(r), ~SendChange(r)
      PROVE  UNCHANGED sent
  BY <1>2
     DEF HandlerStep, PutAction, AppendAudit, EmitAction, DryRunFailed, DryRunUncertain,
         DryRunPassed, ClaimExpired, ClaimRefused, ClaimAction, PreconditionsFailed,
         PreconditionsHold, RunnerReadFailed, RunnerRead, ChangeAccepted,
         ChangeRefused, ChangeTimedOut, VerifyFailed, Verify, historyVars
<1>3. ASSUME NEW r \in Requests, RequestArrives(r) \/ DropRequest(r)
      PROVE  UNCHANGED sent
  BY <1>3 DEF RequestArrives, ProposeActionPlan, ApproveTooLate, ApproveAction,
              ExecuteAction, DropRequest, historyVars
<1>4. ASSUME \/ TargetStep \/ Crash \/ Startup
             \/ \E a \in ActionIds : ApprovalExpires(a)
             \/ \E enabled \in BOOLEAN : SetKillSwitch(enabled)
             \/ UNCHANGED vars
      PROVE  UNCHANGED sent
  BY <1>4 DEF TargetStep, ApplyChange, RefuseChange, TargetDrifts, Crash, Startup, Restart,
              RecoverAction, RecoverAnnounce, Serve, ApprovalExpires, SetKillSwitch, vars,
              historyVars
<1> QED BY <1>1, <1>2, <1>3, <1>4 DEF Next

\* The process goes down, starts and serves by steps of its own.
LEMMA PhaseStep ==
  ASSUME [Next]_vars
  PROVE  /\ UNCHANGED phase \/ Crash \/ Restart \/ Serve
         /\ \A r \in Requests : HandlerStep(r) \/ RequestArrives(r) => UNCHANGED phase
<1>1. ASSUME NEW r \in Requests, HandlerStep(r)
      PROVE  UNCHANGED phase
  BY <1>1
     DEF HandlerStep, PutAction, AppendAudit, EmitAction, DryRunFailed, DryRunUncertain,
         DryRunPassed, ClaimExpired, ClaimRefused, ClaimAction, PreconditionsFailed,
         PreconditionsHold, RunnerReadFailed, RunnerRead, SendChange, ChangeAccepted,
         ChangeRefused, ChangeTimedOut, VerifyFailed, Verify, processVars
<1>2. ASSUME NEW r \in Requests, RequestArrives(r) \/ DropRequest(r)
      PROVE  UNCHANGED phase
  BY <1>2 DEF RequestArrives, ProposeActionPlan, ApproveTooLate, ApproveAction,
              ExecuteAction, DropRequest, processVars
<1>3. ASSUME \/ TargetStep \/ RecoverAnnounce
             \/ \E a \in ActionIds : RecoverAction(a)
             \/ \E a \in ActionIds : ApprovalExpires(a)
             \/ \E enabled \in BOOLEAN : SetKillSwitch(enabled)
             \/ UNCHANGED vars
      PROVE  UNCHANGED phase
  BY <1>3 DEF TargetStep, ApplyChange, RefuseChange, TargetDrifts, RecoverAction,
              RecoverAnnounce, ApprovalExpires, SetKillSwitch, vars, processVars
<1> QED BY <1>1, <1>2, <1>3 DEF Next, Startup

\* A handler that takes a step is at work.
LEMMA StepsAtWork ==
  ASSUME NEW r \in Requests, HandlerStep(r)
  PROVE  pc[r] # "idle" \/ todo[r] # {}
BY DEF HandlerStep, PutAction, AppendAudit, EmitAction, DryRunFailed, DryRunUncertain,
       DryRunPassed, ClaimExpired, ClaimRefused, ClaimAction, PreconditionsFailed,
       PreconditionsHold, RunnerReadFailed, RunnerRead, SendChange, ChangeAccepted,
       ChangeRefused, ChangeTimedOut, VerifyFailed, Verify, At

\* No handler is at work while the process is not up.
LEMMA QuietStep ==
  ASSUME TypeOK, Occupied, QuietUnlessUp, [Next]_vars
  PROVE  QuietUnlessUp'
<1>1. ASSUME NEW r \in Requests, HandlerStep(r) \/ RequestArrives(r)
      PROVE  QuietUnlessUp'
  <2>1. phase = "up"
    BY <1>1, StepsAtWork, ArrivalMoves DEF QuietUnlessUp, ArrivalMove
  <2>2. phase' = "up"
    BY <1>1, <2>1, PhaseStep
  <2> QED BY <2>2 DEF QuietUnlessUp
<1>2. ASSUME \A r \in Requests : ~HandlerStep(r) /\ ~RequestArrives(r)
      PROVE  QuietUnlessUp'
  <2>1. \A s \in Requests : Untouched(s) \/ Returned(s)
    BY <1>2, OthersStep
  <2>2. phase # "up" => QuietUnlessUp'
    BY <2>1 DEF QuietUnlessUp, Untouched, Returned
  <2>3. CASE Crash
    BY <2>3 DEF Crash, QuietUnlessUp
  <2>4. CASE UNCHANGED phase \/ Restart \/ Serve
    BY <2>2, <2>4 DEF Restart, Serve, QuietUnlessUp
  <2> QED BY <2>3, <2>4, PhaseStep
<1> QED BY <1>1, <1>2

\* A handler comes to own an action by claiming it.
LEMMA OwnsStep ==
  ASSUME TypeOK, Occupied, NEW r \in Requests, HandlerStep(r), Owns(r)'
  PROVE  on'[r] = on[r] /\ (Owns(r) \/ ClaimAction(r))
<1>0. HandlersOK
  BY TypeParts
<1>1. ASSUME Returned(r)
      PROVE  FALSE
  BY <1>1 DEF Returned, Owns
<1>2. ASSUME PutAction(r) \/ AppendAudit(r) \/ EmitAction(r)
      PROVE  on'[r] = on[r] /\ Owns(r)
  <2>1. \E call : Called(r, call)
    BY <1>2 DEF PutAction, AppendAudit, EmitAction
  <2>2. pc'[r] = pc[r] /\ on'[r] = on[r] /\ todo'[r] \subseteq todo[r]
    BY <1>0, <1>1, <2>1, CalledEffect
  <2> QED BY <2>2 DEF Owns
<1>3. ASSUME NEW from, NEW l, NEW s, NEW calls, Moves(r, from, l, s, calls),
             from \notin {"idle", "claim"}
      PROVE  on'[r] = on[r] /\ Owns(r)
  BY <1>3 DEF Moves, Owns
<1> QED BY <1>1, <1>2, <1>3, HandlerMoves DEF HandlerMove

\* At most one handler owns an action: whoever proposes it, decides on it as the only
\* approver, or has claimed it.
LEMMA OneOwnerStep ==
  ASSUME TypeOK, Occupied, OneOwner, HandlersOnCourse, [Next]_vars,
         \A r, s \in Approvers : r = s
  PROVE  OneOwner'
<1> SUFFICES ASSUME NEW r \in Requests, NEW s \in Requests, r # s,
                    Owns(r)', Owns(s)', on'[r] = on'[s]
             PROVE  FALSE
  BY DEF OneOwner
<1>1. ASSUME NEW q \in Requests, Returned(q), Owns(q)'
      PROVE  FALSE
  BY <1>1 DEF Returned, Owns
<1>2. ASSUME NEW q \in Requests, Untouched(q), Owns(q)'
      PROVE  Owns(q) /\ on'[q] = on[q]
  BY <1>2 DEF Untouched, Owns
<1>3. ASSUME NEW q \in Requests, NEW p \in Requests, q # p, Untouched(p), Owns(p)', Owns(q)',
             HandlerStep(q), on'[q] = on'[p]
      PROVE  FALSE
  <2>1. on'[q] = on[q] /\ (Owns(q) \/ ClaimAction(q))
    BY <1>3, OwnsStep
  <2>2. Owns(p) /\ on'[p] = on[p]
    BY <1>2, <1>3
  <2>3. CASE Owns(q)
    BY <1>3, <2>1, <2>2, <2>3 DEF OneOwner
  <2>4. CASE ClaimAction(q)
    <3>1. actions[on[p]].status = "authorized"
      BY <1>3, <2>1, <2>2, <2>4 DEF ClaimAction, Claimable
    <3> QED BY <2>2, <3>1, OwnedStatus DEF HandlersOnCourse
  <2> QED BY <2>1, <2>3, <2>4
<1>4. ASSUME NEW q \in Requests, NEW p \in Requests, q # p, Untouched(p), Owns(p)', Owns(q)',
             RequestArrives(q), on'[q] = on'[p]
      PROVE  FALSE
  <2>1. ArrivalMove(q)
    BY <1>4, ArrivalMoves
  <2>2. Owns(p) /\ on'[p] = on[p]
    BY <1>2, <1>4
  <2>3. CASE actions[on'[q]].status = "awaiting_approval" /\ q \in Approvers
    BY <1>4, <2>2, <2>3, OwnedStatus DEF HandlersOnCourse
  <2>4. CASE \A x \in Requests : on[x] # on'[q]
    BY <1>4, <2>2, <2>4
  <2>5. CASE pc'[q] = "claim" /\ todo'[q] = {}
    BY <1>4, <2>5 DEF Owns
  <2> QED BY <2>1, <2>3, <2>4, <2>5 DEF ArrivalMove
<1>5. ASSUME NEW q \in Requests, HandlerStep(q) \/ RequestArrives(q)
      PROVE  FALSE
  <2>1. OnlyOf(q)
    BY <1>5, HandlerMoves, ArrivalMoves
  <2>2. CASE q = r
    BY <1>3, <1>4, <1>5, <2>1, <2>2 DEF OnlyOf
  <2>3. CASE q = s
    BY <1>3, <1>4, <1>5, <2>1, <2>3 DEF OnlyOf
  <2>4. CASE q # r /\ q # s
    <3>1. Owns(r) /\ on'[r] = on[r] /\ Owns(s) /\ on'[s] = on[s]
      BY <1>2, <2>1, <2>4 DEF OnlyOf
    <3> QED BY <3>1 DEF OneOwner
  <2> QED BY <2>2, <2>3, <2>4
<1>6. CASE \A q \in Requests : ~HandlerStep(q) /\ ~RequestArrives(q)
  <2>1. Owns(r) /\ on'[r] = on[r] /\ Owns(s) /\ on'[s] = on[s]
    BY <1>1, <1>2, <1>6, OthersStep
  <2> QED BY <2>1 DEF OneOwner
<1> QED BY <1>5, <1>6

\* A change request is counted when its handler goes from before the send to after it.
LEMMA SentByMover ==
  ASSUME TypeOK, Occupied, [Next]_vars, NEW a \in ActionIds, sent'[a] # sent[a]
  PROVE  \E q \in Requests : on[q] = a /\ pc[q] = "mutate" /\ pc'[q] = "await" /\ todo[q] = {}
<1>1. PICK q \in Requests :
        /\ SendChange(q) /\ on[q] \in ActionIds /\ pc[q] = "mutate" /\ todo[q] = {}
        /\ sent' = [sent EXCEPT ![on[q]] = sent[on[q]] + 1]
  BY SentStep
<1>2. pc'[q] = "await"
  BY <1>1, TypeParts, GotoEffect DEF SendChange
<1>3. on[q] = a
  BY <1>1 DEF TypeOK
<1> QED BY <1>1, <1>2, <1>3

\* A handler that does not move stays on course: nobody else touches what it owns, and
\* a final status on record stays.
LEMMA OthersOnCourse ==
  ASSUME TypeOK, Occupied, SerialInv, [Next]_vars, NEW r \in Requests, Untouched(r)
  PROVE  OnCourse(r)'
<1>0. HandlersOK /\ HandlersOnCourse /\ OnCourse(r) /\ OneOwner
  BY TypeParts DEF SerialInv, HandlersOnCourse
<1>1. pc'[r] = pc[r] /\ on'[r] = on[r] /\ copy'[r] = copy[r] /\ todo'[r] = todo[r]
  BY DEF Untouched
<1>2. CASE Owns(r)
  <2>1. on[r] \in ActionIds /\ actions'[on[r]].status = actions[on[r]].status
    BY <1>2, OwnersUndisturbed
  <2>2. sent'[on[r]] = sent[on[r]]
    <3>1. SUFFICES ASSUME sent'[on[r]] # sent[on[r]] PROVE FALSE
      OBVIOUS
    <3>2. PICK q \in Requests : on[q] = on[r] /\ pc[q] = "mutate" /\ pc'[q] = "await"
      BY <2>1, <3>1, SentByMover
    <3>3. q # r /\ Owns(q)
      BY <1>1, <3>2 DEF Owns
    <3> QED BY <1>0, <1>2, <3>2, <3>3 DEF OneOwner
  <2> QED BY <1>0, <1>1, <2>1, <2>2 DEF OnCourse
<1>3. CASE ~Owns(r)
  <2>1. pc[r] \in {"idle", "claim"} /\ "put" \notin todo[r]
    BY <1>3 DEF Owns
  <2>2. ASSUME todo[r] # {}, IsTerminal(copy[r].status)
        PROVE  actions'[on[r]].status = copy[r].status
    <3>1. on[r] \in ActionIds /\ actions[on[r]].status = copy[r].status
      BY <1>0, <2>1, <2>2 DEF OnCourse, Occupied
    <3>2. \/ actions'[on[r]].status = actions[on[r]].status
          \/ Legal(actions[on[r]].status, actions'[on[r]].status)
      BY <1>0, <3>1, RecordsMoveLegally
    <3> QED BY <2>2, <3>1, <3>2, LegalFacts
  <2> QED BY <1>1, <2>1, <2>2 DEF OnCourse, Executing
<1> QED BY <1>2, <1>3

\* A handler that has returned is not off course.
LEMMA ReturnedOnCourse ==
  ASSUME NEW r \in Requests, Returned(r)
  PROVE  OnCourse(r)'
BY DEF Returned, OnCourse, Executing

\* The handler that takes a step stays on course.
LEMMA OwnOnCourse ==
  ASSUME TypeOK, Occupied, SerialInv, [Next]_vars, NEW r \in Requests, HandlerStep(r)
  PROVE  OnCourse(r)'
<1>0. HandlersOK /\ OnCourse(r) /\ ChangesOnRecord
  BY TypeParts DEF SerialInv, HandlersOnCourse
<1>1. OnlyOf(r) /\ HandlerMove(r) /\ on[r] \in ActionIds
  BY HandlerMoves, StepsAtWork DEF Occupied
<1>2. ASSUME pc'[r] # "await"
      PROVE  sent'[on[r]] = sent[on[r]]
  BY <1>1, <1>2, SentByMover DEF OnlyOf, Untouched
<1>3. ASSUME PutAction(r)
      PROVE  OnCourse(r)'
  <2>1. "put" \in todo[r] /\ actions'[on[r]] = copy[r] /\ Called(r, "put")
    BY <1>3, PutEffect DEF PutAction
  <2>2. \/ Returned(r)
        \/ /\ pc'[r] = pc[r] /\ on'[r] = on[r] /\ copy'[r] = copy[r]
           /\ todo'[r] = todo[r] \ {"put"}
    BY <1>0, <2>1, CalledEffect
  <2>3. pc[r] = "idle" \/ (pc[r] = "run" /\ copy[r].status = "executing")
    BY <1>0, <2>1 DEF OnCourse
  <2>4. CASE Returned(r)
    BY <2>4, ReturnedOnCourse
  <2>5. CASE /\ pc'[r] = pc[r] /\ on'[r] = on[r] /\ copy'[r] = copy[r]
             /\ todo'[r] = todo[r] \ {"put"}
    <3>1. sent'[on[r]] = sent[on[r]]
      BY <1>2, <2>3, <2>5
    <3>2. pc[r] = "run" => sent[on[r]] = 0
      BY <1>0 DEF OnCourse
    <3>3. actions'[on'[r]].status = copy'[r].status
      BY <2>1, <2>5
    <3> QED BY <2>3, <2>5, <3>1, <3>2, <3>3 DEF OnCourse, Executing
  <2> QED BY <2>2, <2>4, <2>5
<1>4. ASSUME AppendAudit(r) \/ EmitAction(r)
      PROVE  OnCourse(r)'
  <2>1. "put" \notin todo[r] /\ UNCHANGED actions /\ todo[r] # {}
    BY <1>4 DEF AppendAudit, EmitAction
  <2>2. PICK call : Called(r, call)
    BY <1>4 DEF AppendAudit, EmitAction
  <2>3. CASE Returned(r)
    BY <2>3, ReturnedOnCourse
  <2>4. CASE /\ pc'[r] = pc[r] /\ on'[r] = on[r] /\ copy'[r] = copy[r]
             /\ todo'[r] = todo[r] \ {call}
    <3>1. pc[r] \in {"check", "run", "mutate"} => sent'[on'[r]] = 0
      BY <1>0, <1>2, <2>4 DEF OnCourse
    <3> QED BY <1>0, <2>1, <2>4, <3>1 DEF OnCourse
  <2> QED BY <1>0, <2>2, <2>3, <2>4, CalledEffect
<1>5. ASSUME ClaimAction(r), pc'[r] = "check", on'[r] = on[r], todo'[r] = {"emit"},
             copy'[r].status = "precondition_check"
      PROVE  OnCourse(r)'
  <2>1. actions[on[r]].status = "authorized" /\ Restated(on[r], "precondition_check")
    BY <1>5 DEF ClaimAction, Claimable, Restated
  <2>2. actions'[on'[r]].status = "precondition_check"
    BY <1>1, <1>5, <2>1, RestatedEffect DEF Statuses
  <2>3. sent[on[r]] = 0
    BY <1>0, <1>1, <2>1 DEF ChangesOnRecord, Begun
  <2>4. sent'[on'[r]] = 0
    BY <1>2, <1>5, <2>3
  <2> QED BY <1>5, <2>2, <2>4 DEF OnCourse, IsTerminal, Executing
<1>6. ASSUME NEW from, NEW l, NEW s, NEW calls, Moves(r, from, l, s, calls)
      PROVE  /\ pc[r] = from /\ todo[r] = {} /\ on'[r] = on[r]
             /\ actions'[on'[r]].status = actions[on[r]].status
             /\ pc'[r] = l /\ copy'[r].status = s /\ todo'[r] = calls
  BY <1>6 DEF Moves
<1>7. ASSUME \/ Moves(r, "dry", "idle", "invalid", {"put", "emit"})
             \/ Moves(r, "dry", "idle", "awaiting_approval", AllCalls)
             \/ Moves(r, "check", "idle", "stale", {"put", "emit"})
      PROVE  OnCourse(r)'
  <2>1. actions[on[r]].status = (IF pc[r] = "dry" THEN "absent" ELSE "precondition_check")
    BY <1>0, <1>7 DEF OnCourse, Moves
  <2>2. /\ actions'[on'[r]].status \in PutsFrom(copy'[r].status)
        /\ actions'[on'[r]].status # "awaiting_approval" /\ copy'[r].status # "executing"
    BY <1>6, <1>7, <2>1 DEF PutsFrom
  <2>3. "put" \in todo'[r] /\ pc'[r] = "idle"
    BY <1>6, <1>7 DEF AllCalls
  <2> QED BY <2>2, <2>3 DEF OnCourse, Executing
<1>8. ASSUME Moves(r, "check", "run", "executing", {"put", "emit"})
      PROVE  OnCourse(r)'
  <2>1. actions[on[r]].status = "precondition_check" /\ sent[on[r]] = 0
    BY <1>0, <1>8 DEF OnCourse, Moves
  <2>2. actions'[on'[r]].status \in PutsFrom(copy'[r].status)
        /\ actions'[on'[r]].status # "awaiting_approval"
    BY <1>6, <1>8, <2>1 DEF PutsFrom
  <2>3. "put" \in todo'[r] /\ pc'[r] = "run" /\ copy'[r].status = "executing"
    BY <1>6, <1>8
  <2>4. sent'[on'[r]] = 0
    BY <1>2, <1>6, <1>8, <2>1
  <2> QED BY <2>2, <2>3, <2>4 DEF OnCourse
<1>9. ASSUME NEW from \in {"run", "await", "verify"},
             NEW s \in {"needs_reconciliation", "succeeded", "rollback_proposed"},
             Moves(r, from, "idle", s, AllCalls)
      PROVE  OnCourse(r)'
  <2>1. actions[on[r]].status = "executing"
    BY <1>0, <1>9 DEF OnCourse, Moves
  <2>2. /\ actions'[on'[r]].status \in PutsFrom(copy'[r].status)
        /\ actions'[on'[r]].status # "awaiting_approval" /\ copy'[r].status # "executing"
    BY <1>6, <1>9, <2>1 DEF PutsFrom
  <2>3. "put" \in todo'[r] /\ pc'[r] = "idle"
    BY <1>6, <1>9 DEF AllCalls
  <2> QED BY <2>2, <2>3 DEF OnCourse, Executing
<1>10. ASSUME NEW from \in {"run", "mutate", "await"}, NEW l \in {"mutate", "await", "verify"},
              Moves(r, from, l, copy[r].status, {}), l = "mutate" => from = "run"
       PROVE  OnCourse(r)'
  <2>1. /\ actions[on[r]].status = "executing"
        /\ copy[r].status \in {"precondition_check", "executing"}
        /\ l = "mutate" => sent[on[r]] = 0
    BY <1>0, <1>10 DEF OnCourse, Moves, Executing
  <2>2. l = "mutate" => sent'[on'[r]] = 0
    BY <1>2, <1>6, <1>10, <2>1
  <2>3. /\ actions'[on'[r]].status = "executing" /\ pc'[r] = l /\ todo'[r] = {}
        /\ copy'[r].status = copy[r].status
    BY <1>6, <1>10, <2>1
  <2> QED BY <2>1, <2>2, <2>3 DEF OnCourse
<1>11. ASSUME Returned(r)
       PROVE  OnCourse(r)'
  BY <1>11, ReturnedOnCourse
<1> DEFINE Goal == OnCourse(r)'
<1>12. ASSUME \/ Moves(r, "run", "mutate", copy[r].status, {})
              \/ Moves(r, "mutate", "await", copy[r].status, {})
              \/ Moves(r, "await", "verify", copy[r].status, {})
       PROVE  Goal
  BY <1>10, <1>12
<1>13. ASSUME \/ \E from \in {"run", "await", "verify"} :
                   Moves(r, from, "idle", "needs_reconciliation", AllCalls)
              \/ \E s \in Outcomes : Moves(r, "verify", "idle", s, AllCalls)
       PROVE  Goal
  BY <1>9, <1>13 DEF Outcomes
<1> HIDE DEF Goal
<1>14. Goal
  BY <1>1, <1>3, <1>4, <1>5, <1>7, <1>8, <1>11, <1>12, <1>13 DEF HandlerMove, Goal
<1> QED BY <1>14 DEF Goal

\* A request begins on course.
LEMMA ArrivalOnCourse ==
  ASSUME TypeOK, NEW r \in Requests, RequestArrives(r)
  PROVE  OnCourse(r)'
<1>1. ArrivalMove(r)
  BY ArrivalMoves
<1>2. UNCHANGED actions
  BY <1>1 DEF ArrivalMove
<1>3. CASE pc'[r] \in {"dry", "claim"} /\ todo'[r] = {}
  <2>1. pc'[r] = "dry" => actions'[on'[r]].status = "absent"
    BY <1>1, <1>2 DEF ArrivalMove
  <2> QED BY <1>3, <2>1 DEF OnCourse, Executing
<1>4. CASE ~(pc'[r] \in {"dry", "claim"} /\ todo'[r] = {})
  <2>1. "put" \in todo'[r] /\ pc'[r] = "idle" /\ copy'[r].status # "executing"
    BY <1>1, <1>4 DEF ArrivalMove, AllCalls
  <2>2. /\ actions'[on'[r]].status \in PutsFrom(copy'[r].status)
        /\ actions'[on'[r]].status = "awaiting_approval" => r \in Approvers
    BY <1>1, <1>2, <1>4 DEF ArrivalMove, PutsFrom
  <2> QED BY <2>1, <2>2 DEF OnCourse, Executing
<1> QED BY <1>3, <1>4

\* All handlers stay on course.
LEMMA OnCourseStep ==
  ASSUME TypeOK, Occupied, SerialInv, [Next]_vars
  PROVE  HandlersOnCourse'
<1> SUFFICES ASSUME NEW r \in Requests PROVE OnCourse(r)'
  BY DEF HandlersOnCourse
<1>1. ASSUME NEW q \in Requests, HandlerStep(q) \/ RequestArrives(q)
      PROVE  OnCourse(r)'
  <2>1. CASE q = r
    BY <1>1, <2>1, OwnOnCourse, ArrivalOnCourse
  <2>2. CASE q # r
    <3>1. Untouched(r)
      BY <1>1, <2>2, HandlerMoves, ArrivalMoves DEF OnlyOf
    <3> QED BY <3>1, OthersOnCourse
  <2> QED BY <2>1, <2>2
<1>2. CASE \A q \in Requests : ~HandlerStep(q) /\ ~RequestArrives(q)
  BY <1>2, OthersStep, OthersOnCourse, ReturnedOnCourse
<1> QED BY <1>1, <1>2

\* A change leaves while its action is on record as executing.
LEMMA SenderExecuting ==
  ASSUME HandlersOnCourse, NEW r \in Requests, pc[r] = "mutate", todo[r] = {}
  PROVE  actions[on[r]].status = "executing" /\ sent[on[r]] = 0
BY DEF HandlersOnCourse, OnCourse

\* An action with a change sent, under way or made is on record as begun.
LEMMA ChangesOnRecordStep ==
  ASSUME TypeOK, Occupied, SerialInv, [Next]_vars
  PROVE  ChangesOnRecord'
<1>0. HandlersOnCourse /\ ChangesOnRecord
  BY DEF SerialInv
<1> SUFFICES ASSUME NEW a \in ActionIds,
                    applied'[a] > 0 \/ sent'[a] # 0 \/ (\E m \in wire' : m.act = a)
             PROVE  actions'[a].status \in Begun
  BY DEF ChangesOnRecord
<1>1. ASSUME actions[a].status \in Begun
      PROVE  actions'[a].status \in Begun
  BY <1>0, <1>1, RecordsMoveLegally, LegalFacts
<1>2. ASSUME applied'[a] > 0
      PROVE  applied[a] > 0 \/ \E m \in wire : m.act = a
  <2>1. CASE \E m \in wire : ApplyChange(m)
    <3>1. PICK m \in wire : applied' = [applied EXCEPT ![m.act] = @ + 1]
      BY <2>1 DEF ApplyChange
    <3> QED BY <1>2, <3>1 DEF TypeOK
  <2>2. CASE \A m \in wire : ~ApplyChange(m)
    BY <1>2, <2>2, AppliedGrows
  <2> QED BY <2>1, <2>2
<1>3. ASSUME NEW q \in Requests, SendChange(q), on[q] = a
      PROVE  actions[a].status = "executing"
  BY <1>0, <1>3, SenderExecuting DEF SendChange, At
<1>4. ASSUME sent'[a] # sent[a]
      PROVE  actions[a].status = "executing"
  BY <1>0, <1>4, SentByMover, SenderExecuting
<1>5. ASSUME NEW m \in wire', m.act = a
      PROVE  (\E w \in wire : w.act = a) \/ actions[a].status = "executing"
  BY <1>3, <1>5, WireStep
<1>6. actions[a].status \in Begun
  <2>1. ASSUME applied[a] > 0 \/ sent[a] # 0 \/ \E m \in wire : m.act = a
        PROVE  actions[a].status \in Begun
    BY <1>0, <2>1 DEF ChangesOnRecord
  <2>2. "executing" \in Begun
    BY DEF Begun
  <2>3. CASE applied'[a] > 0
    BY <1>2, <2>1, <2>3
  <2>4. CASE sent'[a] # 0
    BY <1>4, <2>1, <2>2, <2>4
  <2>5. CASE \E m \in wire' : m.act = a
    BY <1>5, <2>1, <2>2, <2>5
  <2> QED BY <2>3, <2>4, <2>5
<1> QED BY <1>1, <1>6

\* Audit and events give a final status that is on record, and it stays.
LEMMA FinalWordStep ==
  ASSUME TypeOK, Occupied, SerialInv, [Next]_vars
  PROVE  FinalWordStands'
<1>0. HandlersOnCourse /\ FinalWordStands
  BY DEF SerialInv
<1> SUFFICES ASSUME NEW a \in ActionIds, NEW s \in Statuses, IsTerminal(s),
                    announced'[a] = s \/ s \in audited'[a]
             PROVE  actions'[a].status = s
  BY DEF FinalWordStands, IsTerminal
<1>1. ASSUME actions[a].status = s
      PROVE  actions'[a].status = s
  BY <1>0, <1>1, RecordsMoveLegally, LegalFacts
<1>2. ASSUME announced[a] = s \/ s \in audited[a]
      PROVE  actions[a].status = s
  BY <1>0, <1>2 DEF FinalWordStands
<1>3. ASSUME NEW r \in Requests, "put" \notin todo[r], todo[r] # {}, on[r] = a,
             copy[r].status = s
      PROVE  actions[a].status = s
  BY <1>0, <1>3 DEF HandlersOnCourse, OnCourse
<1>4. ASSUME NEW r \in Requests, AppendAudit(r), s \in audited'[a]
      PROVE  actions[a].status = s
  <2>1. /\ "put" \notin todo[r] /\ todo[r] # {}
        /\ audited' = [audited EXCEPT ![on[r]] = audited[on[r]] \cup {copy[r].status}]
    BY <1>4 DEF AppendAudit
  <2>2. s \in audited[a] \/ (on[r] = a /\ copy[r].status = s)
    BY <1>4, <2>1 DEF TypeOK
  <2> QED BY <1>2, <1>3, <2>1, <2>2
<1>5. ASSUME NEW r \in Requests, EmitAction(r), announced'[a] = s
      PROVE  actions[a].status = s
  <2>1. /\ "put" \notin todo[r] /\ todo[r] # {}
        /\ announced' = [announced EXCEPT ![on[r]] = copy[r].status]
    BY <1>5 DEF EmitAction
  <2>2. announced[a] = s \/ (on[r] = a /\ copy[r].status = s)
    BY <1>5, <2>1 DEF TypeOK
  <2> QED BY <1>2, <1>3, <2>1, <2>2
<1>6. ASSUME RecoverAnnounce, announced'[a] = s
      PROVE  actions[a].status = s
  <2>1. announced' = [announced EXCEPT ![unannounced] = actions[unannounced].status]
    BY <1>6 DEF RecoverAnnounce
  <2>2. announced[a] = s \/ (unannounced = a /\ actions[a].status = s)
    BY <1>6, <2>1 DEF TypeOK
  <2> QED BY <1>2, <2>2
<1>7. actions[a].status = s
  BY <1>2, <1>4, <1>5, <1>6, WordsStep
<1> QED BY <1>1, <1>7

\* At first nobody has done anything.
LEMMA SerialInit == Init => SerialInv
<1> SUFFICES ASSUME Init PROVE SerialInv
  OBVIOUS
<1>1. \A r \in Requests : pc[r] = "idle" /\ todo[r] = {}
  BY DEF Init
<1>2. QuietUnlessUp /\ OneOwner
  BY <1>1 DEF QuietUnlessUp, OneOwner, Owns
<1>3. HandlersOnCourse
  BY <1>1 DEF HandlersOnCourse, OnCourse, Executing
<1>4. ChangesOnRecord
  BY DEF Init, ChangesOnRecord
<1>5. FinalWordStands
  BY DEF Init, FinalWordStands, IsTerminal
<1> QED BY <1>2, <1>3, <1>4, <1>5 DEF SerialInv

\* With one approver, every step keeps the invariant.
LEMMA SerialStep ==
  ASSUME TypeOK, Occupied, SerialInv, [Next]_vars, \A r, s \in Approvers : r = s
  PROVE  SerialInv'
<1>1. QuietUnlessUp /\ OneOwner /\ HandlersOnCourse
  BY DEF SerialInv
<1>2. QuietUnlessUp' /\ OneOwner'
  BY <1>1, QuietStep, OneOwnerStep
<1>3. HandlersOnCourse' /\ ChangesOnRecord' /\ FinalWordStands'
  BY OnCourseStep, ChangesOnRecordStep, FinalWordStep
<1> QED BY <1>2, <1>3 DEF SerialInv

\* The invariants hold in every state.
LEMMA SerialAlways ==
  ASSUME \A r, s \in Approvers : r = s
  PROVE  Spec => [](TypeOK /\ Occupied /\ SerialInv)
<1>1. TypeOK /\ Occupied /\ SerialInv /\ [Next]_vars => SerialInv'
  BY SerialStep
<1>2. TypeOK /\ Occupied /\ PatchInv /\ [Next]_vars => TypeOK' /\ Occupied' /\ PatchInv'
  BY PatchInvStep
<1> QED BY PatchInvInit, SerialInit, <1>1, <1>2, PTL DEF Spec

\* With one approver at a time, no interleaving of requests, drop, crash, recovery or late
\* message leaves an action whose change is under way, or made, on record as one that did
\* not happen (execute_action puts `executing' before the runner, recover keeps it).
THEOREM ChangesKeptOnRecord ==
  ASSUME \A r, s \in Approvers : r = s
  PROVE  Spec => []ChangeStaysOnRecord
<1>1. SerialInv => ChangeStaysOnRecord
  BY DEF SerialInv, ChangesOnRecord, ChangeStaysOnRecord, Begun
<1> QED BY <1>1, SerialAlways, PTL

\* With one approver at a time, a final status that an event or the audit log has given is
\* the status on record from then on (put_action precedes append_audit and emit_action).
THEOREM FinalWords ==
  ASSUME \A r, s \in Approvers : r = s
  PROVE  Spec => []FinalWordStands
<1>1. SerialInv => FinalWordStands
  BY DEF SerialInv
<1> QED BY <1>1, SerialAlways, PTL
-----------------------------------------------------------------------------
(* One approver: the refinement. *)

\* The status machine of the abstract specification is the same.
LEMMA SameMachine ==
  ASSUME NEW f, NEW t, StoreMove(f, t)
  PROVE  Lifecycle!StoreMove(f, t)
<1>1. \A x, y : Lifecycle!CanTransition(x, y) <=> CanTransition(x, y)
  BY DEF Lifecycle!CanTransition, CanTransition
<1>2. Lifecycle!Transient = Transient
  BY DEF Lifecycle!Transient, Transient
<1> QED BY <1>1, <1>2 DEF Lifecycle!StoreMove, StoreMove

\* A step changes the record of one action at most.
LEMMA OneRecordMoves ==
  ASSUME TypeOK, Occupied, [Next]_vars
  PROVE  \/ UNCHANGED actions
         \/ \E b \in ActionIds : \A a \in ActionIds : a # b => actions'[a] = actions[a]
<1>1. ASSUME NEW b \in ActionIds, NEW s \in Statuses, Restated(b, s)
      PROVE  \A a \in ActionIds : a # b => actions'[a] = actions[a]
  BY <1>1, RestatedEffect
<1>2. {"expired", "precondition_check"} \subseteq Statuses
  BY DEF Statuses
<1> QED BY <1>1, <1>2, PutEffect, RecoveredIsLegal, TableMoves

\* Every step is a legal move of one action, the one change request of an action that is
\* executing, or neither.
LEMMA LifecycleStep ==
  ASSUME TypeOK, Occupied, SerialInv, [Next]_vars
  PROVE  [Lifecycle!Next]_(Lifecycle!lifecycleVars)
<1>0. HandlersOnCourse /\ sent \in [ActionIds -> Nat]
  BY DEF SerialInv, TypeOK
<1> DEFINE status == [a \in ActionIds |-> actions[a].status]
<1>1. CASE UNCHANGED actions /\ UNCHANGED sent
  BY <1>1 DEF Lifecycle!lifecycleVars
<1>2. CASE UNCHANGED actions /\ ~UNCHANGED sent
  <2>1. PICK r \in Requests :
          /\ on[r] \in ActionIds /\ pc[r] = "mutate" /\ todo[r] = {}
          /\ sent' = [sent EXCEPT ![on[r]] = sent[on[r]] + 1]
    BY <1>2, SentStep
  <2>2. actions[on[r]].status = "executing" /\ sent[on[r]] = 0
    BY <1>0, <2>1, SenderExecuting
  <2>3. sent' = [sent EXCEPT ![on[r]] = 1]
    BY <2>1, <2>2
  <2>4. Lifecycle!Send(on[r])
    BY <1>2, <2>1, <2>2, <2>3 DEF Lifecycle!Send
  <2> QED BY <2>1, <2>4 DEF Lifecycle!Next
<1>3. CASE ~UNCHANGED actions
  <2>1. UNCHANGED sent
    BY <1>3, SentStep
  <2>2. PICK b \in ActionIds : \A a \in ActionIds : a # b => actions'[a] = actions[a]
    BY <1>3, OneRecordMoves
  <2>3. CASE actions'[b].status = actions[b].status
    <3>1. status' = status
      BY <2>2, <2>3
    <3> QED BY <2>1, <3>1 DEF Lifecycle!lifecycleVars
  <2>4. CASE actions'[b].status # actions[b].status
    <3>1. Legal(actions[b].status, actions'[b].status)
      BY <1>0, <2>4, RecordsMoveLegally
    <3>2. actions'[b].status \in Statuses /\ Lifecycle!StoreMove(actions[b].status, actions'[b].status)
      BY <3>1, LegalFacts, SameMachine
    <3>3. Statuses = Lifecycle!Statuses
      BY DEF Statuses, Lifecycle!Statuses
    <3>4. status' = [status EXCEPT ![b] = actions'[b].status]
      BY <2>2
    <3>5. Lifecycle!Move(b)
      BY <2>1, <3>2, <3>3, <3>4 DEF Lifecycle!Move
    <3> QED BY <3>5 DEF Lifecycle!Next
  <2> QED BY <2>3, <2>4
<1> QED BY <1>1, <1>2, <1>3

\* With one approver at a time, handlers, drops, crashes, recovery, timeouts and late
\* messages together do what ActionLifecycle says of every action: its status on record
\* moves along the status machine of src/action/mod.rs, a final one stays, and at most one
\* change request is ever sent, while the action is on record as executing.
THEOREM LifecycleImplemented ==
  ASSUME \A r, s \in Approvers : r = s
  PROVE  Spec => ImplementsLifecycle
<1>1. Init => Lifecycle!Init
  BY DEF Init, Lifecycle!Init, AbsentRecord, BuildAction
<1>2. TypeOK /\ Occupied /\ SerialInv /\ [Next]_vars => [Lifecycle!Next]_(Lifecycle!lifecycleVars)
  BY LifecycleStep
<1> QED BY <1>1, <1>2, SerialAlways, PTL DEF Spec, ImplementsLifecycle, Lifecycle!Spec
=============================================================================
