----------------------------- MODULE Remediation -----------------------------
(***************************************************************************)
(* Remediation actions: propose, approve, execute, verify and recover      *)
(* (src/runtime/remediation.rs, src/action/runner.rs, the actions and      *)
(* audit tables of src/store/sqlite.rs).                                   *)
(*                                                                         *)
(* Every HTTP request runs its handler on a copy of the record and shares  *)
(* nothing with the other handlers but the store, whose calls are atomic   *)
(* (one connection behind a mutex) and between any two of which another    *)
(* handler may run, the client may disconnect, or the process may die.     *)
(* The targets (a demo service, a Kubernetes workload) are external: a     *)
(* change request sent to one may be applied, refused, lost, or applied    *)
(* after its sender has given up on it.                                    *)
(***************************************************************************)
EXTENDS ActionStatus, Integers, FiniteSets

CONSTANTS
  ActionIds,          \* identifiers the proposals can draw
  Requests,           \* HTTP handlers that can be in progress at once
  Approvers,          \* those that may be POST /actions/{id}/approve
  NoAction, NoRequest,
  Registered,         \* the tools the workspace has: demo fault reset, k8s scale
  RemediationEnabled, \* config.remediation.enabled
  WorkspaceAllows,    \* allow_remediation, and max_effect is not observe
  KillSwitchConfig,   \* config.remediation.kill_switch
  RequestsDrop,       \* bound: whether a request can end before its handler does
  MaxDrift,           \* bound: changes others make to the targets
  MaxCrashes          \* bound: process deaths

ASSUME ConstantsAssumption ==
  /\ Approvers \subseteq Requests
  /\ ActionIds # {} /\ NoAction \notin ActionIds
  /\ NoRequest \notin Requests
  /\ Registered \subseteq {"demo_fault_reset", "k8s_scale"}
  /\ RemediationEnabled \in BOOLEAN
  /\ WorkspaceAllows \in BOOLEAN
  /\ KillSwitchConfig \in BOOLEAN
  /\ RequestsDrop \in BOOLEAN
  /\ MaxDrift \in Nat
  /\ MaxCrashes \in Nat

VARIABLES
  phase,          \* of the process: "up", "down", or "recovering" before it serves
  killSwitch,     \* RemediationRuntime.kill_switch, in memory
  mutationCount,  \* RemediationRuntime.mutation_count, in memory
  actions,        \* the actions table
  audited,        \* the statuses of an action the audit log holds
  announced,      \* the last status an ActionUpdated event gave, per action
  pc,             \* where each handler is
  on,             \* the action it works on
  copy,           \* its copy of the record
  todo,           \* the store calls it still has to make before it goes on
  unannounced,    \* the action recover() has rewritten but not yet announced
  pastExpiry,     \* the actions whose expires_at has passed
  target,         \* per kind: the object's version, and whether it is as wanted
  wire,           \* change requests, and their answers, under way
  sent,           \* history: change requests sent, per action
  applied,        \* history: change requests the target has applied, per action
  granted,        \* history: request hashes an operator approved
  dropped,        \* history: claimed actions a handler was dropped on since startup
  drift, crashes  \* bounded counters

storeVars   == <<actions, audited, announced>>
handlerVars == <<pc, on, copy, todo>>
targetVars  == <<target, wire, applied>>
historyVars == <<sent, granted, dropped>>
countVars   == <<drift, crashes>>
processVars == <<phase, killSwitch, mutationCount, unannounced>>

vars == <<storeVars, handlerVars, targetVars, historyVars, countVars, processVars,
          pastExpiry>>

-----------------------------------------------------------------------------
(* The record of an action, abstracted to what decides anything: the tool  *)
(* it calls, its status, whether its approval is consumed, the object      *)
(* version its preconditions name, and the request hash.                   *)

Kinds == {"demo_fault_reset", "k8s_scale"}

Hashes == [act : ActionIds, kind : Kinds, rv : Nat]

\* action_request_hash: injective in the fields it covers.  The operation id
\* makes two actions differ, the preconditions carry the version.
ActionRequestHash(a, rec) == [act |-> a, kind |-> rec.kind, rv |-> rec.rv]

ActionRecords ==
  [kind : Kinds, status : Statuses, consumed : BOOLEAN, rv : Nat, hash : Hashes]

\* build_action: the record a proposal starts from.  No version is known yet.
BuildAction(a, kind) ==
  [kind |-> kind, status |-> "proposed", consumed |-> FALSE, rv |-> 0,
   hash |-> [act |-> a, kind |-> kind, rv |-> 0]]

\* An id with no row.
AbsentRecord(a) == [BuildAction(a, "demo_fault_reset") EXCEPT !.status = "absent"]

\* dry_run_preconditions: only a Kubernetes action pins the version it saw.
DryRunPreconditions(kind) == IF kind = "k8s_scale" THEN target[kind].rv ELSE 0

Locations == {"idle", "dry", "claim", "check", "run", "mutate", "await", "verify"}
StoreCalls == {"put", "audit", "emit"}

Messages ==
  [act : ActionIds, n : Nat, kind : Kinds, rv : Nat, hash : Hashes,
   to : Requests \cup {NoRequest}, state : {"sent", "applied", "refused"}]

TypeOK ==
  /\ phase \in {"up", "down", "recovering"}
  /\ killSwitch \in BOOLEAN
  /\ mutationCount \in Nat
  /\ actions \in [ActionIds -> ActionRecords]
  /\ audited \in [ActionIds -> SUBSET Statuses]
  /\ announced \in [ActionIds -> Statuses]
  /\ pc \in [Requests -> Locations]
  /\ on \in [Requests -> ActionIds \cup {NoAction}]
  /\ copy \in [Requests -> ActionRecords]
  /\ todo \in [Requests -> SUBSET StoreCalls]
  /\ unannounced \in ActionIds \cup {NoAction}
  /\ pastExpiry \subseteq ActionIds
  /\ target \in [Kinds -> [rv : Nat, asWanted : BOOLEAN]]
  /\ wire \subseteq Messages
  /\ sent \in [ActionIds -> Nat]
  /\ applied \in [ActionIds -> Nat]
  /\ granted \in [ActionIds -> SUBSET Hashes]
  /\ dropped \subseteq ActionIds
  /\ drift \in Nat
  /\ crashes \in Nat

-----------------------------------------------------------------------------
(* Handlers. *)

Blank == AbsentRecord(CHOOSE a \in ActionIds : TRUE)

\* Handler r runs nothing and can take a request.
Free(r) == phase = "up" /\ pc[r] = "idle" /\ todo[r] = {}

\* Handler r is at location l and has made the store calls that precede it.
At(r, l) == pc[r] = l /\ todo[r] = {}

\* Handler r starts on action a with this copy of its record.
Begin(r, a, rec, calls, next) ==
  /\ on' = [on EXCEPT ![r] = a]
  /\ copy' = [copy EXCEPT ![r] = rec]
  /\ todo' = [todo EXCEPT ![r] = calls]
  /\ pc' = [pc EXCEPT ![r] = next]

\* Handler r gives its copy a status, makes these store calls and goes on at next.
Resolve(r, rec, calls, next) ==
  /\ copy' = [copy EXCEPT ![r] = rec]
  /\ todo' = [todo EXCEPT ![r] = calls]
  /\ pc' = [pc EXCEPT ![r] = next]
  /\ UNCHANGED on

Goto(r, next) == pc' = [pc EXCEPT ![r] = next] /\ UNCHANGED <<on, copy, todo>>

\* Handler r returns.
Release(r) ==
  /\ pc' = [pc EXCEPT ![r] = "idle"]
  /\ on' = [on EXCEPT ![r] = NoAction]
  /\ copy' = [copy EXCEPT ![r] = Blank]
  /\ todo' = [todo EXCEPT ![r] = {}]

\* One store call of r is done; a handler that was only finishing returns.
Called(r, call) ==
  IF todo[r] = {call} /\ pc[r] = "idle"
    THEN Release(r)
    ELSE todo' = [todo EXCEPT ![r] = @ \ {call}] /\ UNCHANGED <<pc, on, copy>>

\* put_action: an unconditional upsert of the whole record.
PutAction(r) ==
  /\ "put" \in todo[r]
  /\ actions' = [actions EXCEPT ![on[r]] = copy[r]]
  /\ Called(r, "put")
  /\ UNCHANGED <<audited, announced, targetVars, historyVars, countVars, processVars,
                 pastExpiry>>

\* append_audit.
AppendAudit(r) ==
  /\ "put" \notin todo[r] /\ "audit" \in todo[r]
  /\ audited' = [audited EXCEPT ![on[r]] = @ \cup {copy[r].status}]
  /\ Called(r, "audit")
  /\ UNCHANGED <<actions, announced, targetVars, historyVars, countVars, processVars,
                 pastExpiry>>

\* Faulty form: the event leaves before the record is written.
EmitActionFirst(r) ==
  /\ "emit" \in todo[r]
  /\ announced' = [announced EXCEPT ![on[r]] = copy[r].status]
  /\ Called(r, "emit")
  /\ UNCHANGED <<actions, audited, targetVars, historyVars, countVars, processVars,
                 pastExpiry>>

\* emit_action: an ActionUpdated event on the thread.
EmitAction(r) ==
  /\ todo[r] = {"emit"}
  /\ announced' = [announced EXCEPT ![on[r]] = copy[r].status]
  /\ Called(r, "emit")
  /\ UNCHANGED <<actions, audited, targetVars, historyVars, countVars, processVars,
                 pastExpiry>>

-----------------------------------------------------------------------------
(* propose_action_plan *)

\* evaluate_action for the two tools, both change_reversible.
EvaluateAction ==
  IF killSwitch \/ ~RemediationEnabled \/ ~WorkspaceAllows THEN "deny" ELSE "ask"

ProposeActionPlan(r, a, kind) ==
  /\ Free(r)
  /\ actions[a].status = "absent"
  /\ \A s \in Requests : on[s] # a
  /\ IF EvaluateAction = "deny"
       THEN Begin(r, a, [BuildAction(a, kind) EXCEPT !.status = "policy_denied"],
                  {"put", "audit", "emit"}, "idle")
       ELSE Begin(r, a, [BuildAction(a, kind) EXCEPT !.status = "dry_run"], {}, "dry")
  /\ UNCHANGED <<storeVars, targetVars, historyVars, countVars, processVars, pastExpiry>>

\* The dry run failed: nothing was written, the proposal is gone.
DryRunFailed(r) ==
  /\ At(r, "dry")
  /\ Release(r)
  /\ UNCHANGED <<storeVars, targetVars, historyVars, countVars, processVars, pastExpiry>>

\* The server-side dry run of a patch timed out; a demo dry run is a read.
DryRunUncertain(r) ==
  /\ At(r, "dry")
  /\ copy[r].kind = "k8s_scale"
  /\ Resolve(r, [copy[r] EXCEPT !.status = "invalid"], {"put", "emit"}, "idle")
  /\ UNCHANGED <<storeVars, targetVars, historyVars, countVars, processVars, pastExpiry>>

DryRunPassed(r) ==
  /\ At(r, "dry")
  /\ LET rec == [copy[r] EXCEPT !.status = "awaiting_approval",
                                !.rv = DryRunPreconditions(copy[r].kind)]
     IN  Resolve(r, [rec EXCEPT !.hash = ActionRequestHash(on[r], rec)],
                 {"put", "audit", "emit"}, "idle")
  /\ UNCHANGED <<storeVars, targetVars, historyVars, countVars, processVars, pastExpiry>>

-----------------------------------------------------------------------------
(* approve_action: reads the record, decides on the copy, writes the copy. *)

\* Hashes an operator's client may send: one of an action on record, or the one
\* this action had before its dry run.
ClientHashes(a) ==
  {actions[b].hash : b \in ActionIds} \cup {BuildAction(a, actions[a].kind).hash}

\* expire_if_needed: the record is rewritten, the request fails.
ApproveTooLate(r, a) ==
  /\ Free(r) /\ r \in Approvers
  /\ actions[a].status = "awaiting_approval"
  /\ a \in pastExpiry
  /\ Begin(r, a, [actions[a] EXCEPT !.status = "expired"], {"put"}, "idle")
  /\ UNCHANGED <<storeVars, targetVars, historyVars, countVars, processVars, pastExpiry>>

\* Faulty form: the client's hash is not compared.
MayDecideAnyHash(a, hash) ==
  /\ actions[a].status = "awaiting_approval"
  /\ a \notin pastExpiry
  /\ ~actions[a].consumed
  /\ ActionRequestHash(a, actions[a]) = actions[a].hash

\* The conditions under which approve_action binds a decision to the record it read.
MayDecide(a, hash) ==
  /\ actions[a].status = "awaiting_approval"
  /\ a \notin pastExpiry
  /\ ~actions[a].consumed
  /\ ActionRequestHash(a, actions[a]) = actions[a].hash
  /\ hash = actions[a].hash

ApproveAction(r, a, hash, approved) ==
  /\ Free(r) /\ r \in Approvers
  /\ MayDecide(a, hash)
  /\ Begin(r, a,
           [actions[a] EXCEPT !.status = IF approved THEN "authorized" ELSE "rejected",
                              !.consumed = approved],
           {"put", "audit", "emit"}, "idle")
  /\ granted' = [granted EXCEPT ![a] = IF approved THEN @ \cup {hash} ELSE @]
  /\ UNCHANGED <<storeVars, targetVars, sent, dropped, countVars, processVars, pastExpiry>>

-----------------------------------------------------------------------------
(* execute_action *)

\* The kill switch is read once, before the claim.
ExecuteAction(r, a) ==
  /\ Free(r)
  /\ actions[a].status # "absent"
  /\ ~killSwitch /\ RemediationEnabled
  /\ Begin(r, a, Blank, {}, "claim")
  /\ UNCHANGED <<storeVars, targetVars, historyVars, countVars, processVars, pastExpiry>>

\* Faulty form: a claim does not exclude a second one.
ClaimableTwice(rec) == rec.status \in {"authorized", "precondition_check"}

\* claim_action_for_execution, one immediate transaction.
Claimable(rec) == rec.status = "authorized"

ClaimExpired(r) ==
  /\ At(r, "claim")
  /\ Claimable(actions[on[r]]) /\ on[r] \in pastExpiry
  /\ actions' = [actions EXCEPT ![on[r]].status = "expired"]
  /\ Release(r)
  /\ UNCHANGED <<audited, announced, targetVars, historyVars, countVars, processVars,
                 pastExpiry>>

ClaimRefused(r) ==
  /\ At(r, "claim")
  /\ \/ ~Claimable(actions[on[r]])
     \/ /\ on[r] \notin pastExpiry
        /\ \/ ~actions[on[r]].consumed
           \/ ActionRequestHash(on[r], actions[on[r]]) # actions[on[r]].hash
  /\ Release(r)
  /\ UNCHANGED <<storeVars, targetVars, historyVars, countVars, processVars, pastExpiry>>

ClaimAction(r) ==
  /\ At(r, "claim")
  /\ LET a == on[r]
         rec == actions[a]
     IN  /\ Claimable(rec) /\ a \notin pastExpiry
         /\ rec.consumed
         /\ ActionRequestHash(a, rec) = rec.hash
         /\ actions' = [actions EXCEPT ![a].status = "precondition_check"]
         /\ Resolve(r, [rec EXCEPT !.status = "precondition_check"], {"emit"}, "check")
  /\ UNCHANGED <<audited, announced, targetVars, historyVars, countVars, processVars,
                 pastExpiry>>

\* The version comparison that both check_preconditions and execute_k8s_scale make.
VersionHolds(rec) == rec.kind = "k8s_scale" => target[rec.kind].rv = rec.rv

\* The version moved, or the read itself failed: either way Stale.
PreconditionsFailed(r) ==
  /\ At(r, "check")
  /\ copy[r].kind = "k8s_scale"
  /\ Resolve(r, [copy[r] EXCEPT !.status = "stale"], {"put", "emit"}, "idle")
  /\ UNCHANGED <<storeVars, targetVars, historyVars, countVars, processVars, pastExpiry>>

\* Faulty form: execution begins without being put on record.
PreconditionsHoldUnrecorded(r) ==
  /\ At(r, "check")
  /\ VersionHolds(copy[r])
  /\ Resolve(r, [copy[r] EXCEPT !.status = "executing"], {"emit"}, "run")
  /\ UNCHANGED <<storeVars, targetVars, historyVars, countVars, processVars, pastExpiry>>

PreconditionsHold(r) ==
  /\ At(r, "check")
  /\ VersionHolds(copy[r])
  /\ Resolve(r, [copy[r] EXCEPT !.status = "executing"], {"put", "emit"}, "run")
  /\ UNCHANGED <<storeVars, targetVars, historyVars, countVars, processVars, pastExpiry>>

\* A runner error or an unknown result once execution has begun.
NeedsReconciliation(r) ==
  Resolve(r, [copy[r] EXCEPT !.status = "needs_reconciliation"],
          {"put", "audit", "emit"}, "idle")

\* The runner's read before the change failed, or shows another version.
RunnerReadFailed(r) ==
  /\ At(r, "run")
  /\ NeedsReconciliation(r)
  /\ UNCHANGED <<storeVars, targetVars, historyVars, countVars, processVars, pastExpiry>>

RunnerRead(r) ==
  /\ At(r, "run")
  /\ VersionHolds(copy[r])
  /\ Goto(r, "mutate")
  /\ UNCHANGED <<storeVars, targetVars, historyVars, countVars, processVars, pastExpiry>>

\* Faulty form: the patch names the version the object has now.
SendChangeUnpinned(r) ==
  /\ At(r, "mutate")
  /\ LET a == on[r]
     IN  /\ wire' = wire \cup
               {[act |-> a, n |-> sent[a], kind |-> copy[r].kind,
                 rv |-> target[copy[r].kind].rv,
                 hash |-> ActionRequestHash(a, copy[r]), to |-> r, state |-> "sent"]}
         /\ sent' = [sent EXCEPT ![a] = @ + 1]
  /\ Goto(r, "await")
  /\ UNCHANGED <<storeVars, target, applied, granted, dropped, countVars, processVars,
                 pastExpiry>>

\* POST /debug/fault/normal, or the PATCH that names the resourceVersion.
SendChange(r) ==
  /\ At(r, "mutate")
  /\ LET a == on[r]
     IN  /\ wire' = wire \cup
               {[act |-> a, n |-> sent[a], kind |-> copy[r].kind, rv |-> copy[r].rv,
                 hash |-> ActionRequestHash(a, copy[r]), to |-> r, state |-> "sent"]}
         /\ sent' = [sent EXCEPT ![a] = @ + 1]
  /\ Goto(r, "await")
  /\ UNCHANGED <<storeVars, target, applied, granted, dropped, countVars, processVars,
                 pastExpiry>>

\* Nobody waits any more for what is under way to the handlers in rs: answers
\* vanish, requests not yet delivered may still reach the target.
Forsake(rs) ==
  wire' = {m \in wire : m.to \notin rs}
          \cup {[m EXCEPT !.to = NoRequest] : m \in {w \in wire : w.to \in rs /\ w.state = "sent"}}

ChangeAccepted(r) ==
  /\ At(r, "await")
  /\ \E m \in wire : m.to = r /\ m.state = "applied" /\ wire' = wire \ {m}
  /\ Goto(r, "verify")
  /\ UNCHANGED <<storeVars, target, applied, historyVars, countVars, processVars, pastExpiry>>

ChangeRefused(r) ==
  /\ At(r, "await")
  /\ \E m \in wire : m.to = r /\ m.state = "refused" /\ wire' = wire \ {m}
  /\ NeedsReconciliation(r)
  /\ UNCHANGED <<storeVars, target, applied, historyVars, countVars, processVars, pastExpiry>>

\* Faulty form: a timeout is taken for an answer.
ChangeTimedOutTrusted(r) ==
  /\ At(r, "await")
  /\ Forsake({r})
  /\ Goto(r, "verify")
  /\ UNCHANGED <<storeVars, target, applied, historyVars, countVars, processVars, pastExpiry>>

\* The answer did not come in time, or the connection broke.
ChangeTimedOut(r) ==
  /\ At(r, "await")
  /\ Forsake({r})
  /\ NeedsReconciliation(r)
  /\ UNCHANGED <<storeVars, target, applied, historyVars, countVars, processVars, pastExpiry>>

\* The read after the change failed: an error, although the change was made.
VerifyFailed(r) ==
  /\ At(r, "verify")
  /\ NeedsReconciliation(r)
  /\ UNCHANGED <<storeVars, targetVars, historyVars, countVars, processVars, pastExpiry>>

\* A workload scaled as wanted may still lack available replicas.
Verified(kind) ==
  IF kind = "k8s_scale" THEN {FALSE, target[kind].asWanted} ELSE {target[kind].asWanted}

Verify(r) ==
  /\ At(r, "verify")
  /\ \E verified \in Verified(copy[r].kind) :
       Resolve(r, [copy[r] EXCEPT !.status = IF verified THEN "succeeded"
                                                         ELSE "rollback_proposed"],
               {"put", "audit", "emit"}, "idle")
  /\ mutationCount' = mutationCount + 1
  /\ UNCHANGED <<storeVars, targetVars, historyVars, countVars, phase, killSwitch,
                 unannounced, pastExpiry>>

-----------------------------------------------------------------------------
(* The targets and the network.  A request that is lost is one never        *)
(* delivered; an answer that is lost is one its handler timed out on.       *)

\* The Kubernetes API refuses a patch whose resourceVersion is not the object's;
\* the demo endpoint takes every request.
Accepts(m) == m.kind = "k8s_scale" => target[m.kind].rv = m.rv

Answered(m, state) ==
  wire' = (wire \ {m}) \cup
          (IF m.to = NoRequest THEN {} ELSE {[m EXCEPT !.state = state]})

ApplyChange(m) ==
  /\ m.state = "sent"
  /\ Accepts(m)
  /\ target' = [target EXCEPT ![m.kind] = [rv |-> @.rv + 1, asWanted |-> TRUE]]
  /\ applied' = [applied EXCEPT ![m.act] = @ + 1]
  /\ Answered(m, "applied")
  /\ UNCHANGED <<storeVars, handlerVars, historyVars, countVars, processVars, pastExpiry>>

RefuseChange(m) ==
  /\ m.state = "sent"
  /\ ~Accepts(m)
  /\ Answered(m, "refused")
  /\ UNCHANGED <<storeVars, handlerVars, target, applied, historyVars, countVars,
                 processVars, pastExpiry>>

\* Somebody else changes a target.
TargetDrifts(kind) ==
  /\ drift < MaxDrift
  /\ drift' = drift + 1
  /\ \E b \in BOOLEAN :
       target' = [target EXCEPT ![kind] = [rv |-> @.rv + 1, asWanted |-> b]]
  /\ UNCHANGED <<storeVars, handlerVars, wire, applied, historyVars, crashes, processVars,
                 pastExpiry>>

-----------------------------------------------------------------------------
(* Time, operators, clients and the process. *)

ApprovalExpires(a) ==
  /\ actions[a].status # "absent"
  /\ pastExpiry' = pastExpiry \cup {a}
  /\ UNCHANGED <<storeVars, handlerVars, targetVars, historyVars, countVars, processVars>>

\* POST /remediation/kill-switch.
SetKillSwitch(enabled) ==
  /\ phase = "up"
  /\ killSwitch' = enabled
  /\ UNCHANGED <<storeVars, handlerVars, targetVars, historyVars, countVars, phase,
                 mutationCount, unannounced, pastExpiry>>

\* The client disconnects, and the server drops the handler's future; or a store
\* call fails, and the handler returns its error.
DropRequest(r) ==
  /\ RequestsDrop
  /\ ~(pc[r] = "idle" /\ todo[r] = {})
  /\ Release(r)
  /\ Forsake({r})
  /\ dropped' = IF actions[on[r]].status \in InFlight THEN dropped \cup {on[r]} ELSE dropped
  /\ UNCHANGED <<storeVars, target, applied, sent, granted, countVars, processVars,
                 pastExpiry>>

Crash ==
  /\ phase # "down"
  /\ crashes < MaxCrashes
  /\ crashes' = crashes + 1
  /\ phase' = "down"
  /\ pc' = [r \in Requests |-> "idle"]
  /\ on' = [r \in Requests |-> NoAction]
  /\ copy' = [r \in Requests |-> Blank]
  /\ todo' = [r \in Requests |-> {}]
  /\ Forsake(Requests)
  /\ unannounced' = NoAction
  /\ UNCHANGED <<storeVars, target, applied, historyVars, drift, killSwitch, mutationCount,
                 pastExpiry>>

\* build_runtime: the in-memory settings start from the configuration again.
Restart ==
  /\ phase = "down"
  /\ phase' = "recovering"
  /\ killSwitch' = KillSwitchConfig
  /\ mutationCount' = 0
  /\ dropped' = {}
  /\ UNCHANGED <<storeVars, handlerVars, targetVars, sent, granted, countVars, unannounced,
                 pastExpiry>>

\* Faulty forms: a status nobody can parse; claimed actions are forgotten.
RecoveredStatusUnknown(a) ==
  IF actions[a].status \in InFlight THEN "interrupted" ELSE actions[a].status

RecoveredStatusForgetsClaims(a) ==
  LET s == actions[a].status
  IN  IF s \in {"awaiting_approval", "authorized"} /\ a \in pastExpiry THEN "expired"
      ELSE IF s \in {"executing", "verifying"} THEN "needs_reconciliation"
      ELSE s

\* recover(): what becomes of a recovery candidate; any other action keeps its status.
RecoveredStatus(a) ==
  LET s == actions[a].status
  IN  IF s \in {"awaiting_approval", "authorized"} /\ a \in pastExpiry THEN "expired"
      ELSE IF s \in InFlight THEN "needs_reconciliation"
      ELSE s

RecoverAction(a) ==
  /\ phase = "recovering"
  /\ unannounced = NoAction
  /\ RecoveredStatus(a) # actions[a].status
  /\ actions' = [actions EXCEPT ![a].status = RecoveredStatus(a)]
  /\ unannounced' = a
  /\ UNCHANGED <<audited, announced, handlerVars, targetVars, historyVars, countVars, phase,
                 killSwitch, mutationCount, pastExpiry>>

RecoverAnnounce ==
  /\ unannounced # NoAction
  /\ announced' = [announced EXCEPT ![unannounced] = actions[unannounced].status]
  /\ unannounced' = NoAction
  /\ UNCHANGED <<actions, audited, handlerVars, targetVars, historyVars, countVars, phase,
                 killSwitch, mutationCount, pastExpiry>>

\* Only a runtime that has recovered everything is handed to the server.
Serve ==
  /\ phase = "recovering"
  /\ unannounced = NoAction
  /\ \A a \in ActionIds : RecoveredStatus(a) = actions[a].status
  /\ phase' = "up"
  /\ UNCHANGED <<storeVars, handlerVars, targetVars, historyVars, countVars, killSwitch,
                 mutationCount, unannounced, pastExpiry>>

-----------------------------------------------------------------------------
Init ==
  /\ phase = "up"
  /\ killSwitch = KillSwitchConfig
  /\ mutationCount = 0
  /\ actions = [a \in ActionIds |-> AbsentRecord(a)]
  /\ audited = [a \in ActionIds |-> {}]
  /\ announced = [a \in ActionIds |-> "absent"]
  /\ pc = [r \in Requests |-> "idle"]
  /\ on = [r \in Requests |-> NoAction]
  /\ copy = [r \in Requests |-> Blank]
  /\ todo = [r \in Requests |-> {}]
  /\ unannounced = NoAction
  /\ pastExpiry = {}
  /\ target = [k \in Kinds |-> [rv |-> 1, asWanted |-> FALSE]]
  /\ wire = {}
  /\ sent = [a \in ActionIds |-> 0]
  /\ applied = [a \in ActionIds |-> 0]
  /\ granted = [a \in ActionIds |-> {}]
  /\ dropped = {}
  /\ drift = 0
  /\ crashes = 0

\* The steps a handler takes by itself once its request has begun.
HandlerStep(r) ==
  \/ PutAction(r) \/ AppendAudit(r) \/ EmitAction(r)
  \/ DryRunFailed(r) \/ DryRunUncertain(r) \/ DryRunPassed(r)
  \/ ClaimExpired(r) \/ ClaimRefused(r) \/ ClaimAction(r)
  \/ PreconditionsFailed(r) \/ PreconditionsHold(r)
  \/ RunnerReadFailed(r) \/ RunnerRead(r)
  \/ SendChange(r) \/ ChangeAccepted(r) \/ ChangeRefused(r) \/ ChangeTimedOut(r)
  \/ VerifyFailed(r) \/ Verify(r)

RequestArrives(r) ==
  \E a \in ActionIds :
    \/ \E kind \in Registered : ProposeActionPlan(r, a, kind)
    \/ ApproveTooLate(r, a)
    \/ \E hash \in ClientHashes(a), approved \in BOOLEAN : ApproveAction(r, a, hash, approved)
    \/ ExecuteAction(r, a)

TargetStep ==
  \/ \E m \in wire : ApplyChange(m) \/ RefuseChange(m)
  \/ \E kind \in Registered : TargetDrifts(kind)

Startup == Restart \/ (\E a \in ActionIds : RecoverAction(a)) \/ RecoverAnnounce \/ Serve

Next ==
  \/ \E r \in Requests : HandlerStep(r) \/ RequestArrives(r) \/ DropRequest(r)
  \/ TargetStep
  \/ \E a \in ActionIds : ApprovalExpires(a)
  \/ \E enabled \in BOOLEAN : SetKillSwitch(enabled)
  \/ Crash
  \/ Startup

Spec == Init /\ [][Next]_vars

\* Handler r talks to a target.  The head of an answer has a time limit (send_json,
\* patch_replicas), its body has none (read_bounded_body), so the exchange may last.
Exchanging(r) ==
  /\ todo[r] = {}
  /\ \/ pc[r] \in {"dry", "run", "await", "verify"}
     \/ pc[r] = "check" /\ copy[r].kind = "k8s_scale"

\* The tokio runtime polls every handler that does not wait for a target, its store
\* calls return, and a dead process is started again and recovers.
FairSpec ==
  /\ Spec
  /\ \A r \in Requests : WF_vars(HandlerStep(r) /\ ~Exchanging(r))
  /\ WF_vars(Startup)

-----------------------------------------------------------------------------
(* Properties. *)

\* A Kubernetes patch of an action takes effect at most once, whatever the number
\* of approvals and executions that race, of crashes, and of patches that arrive
\* after their sender gave up: the resourceVersion of the dry run is in every
\* patch (execute_k8s_scale), and the first one to take effect moves it.
K8sAppliedAtMostOnce ==
  \A a \in ActionIds : actions[a].kind = "k8s_scale" => applied[a] <= 1

\* Every change request under way carries exactly the parameters, preconditions and
\* operation id an operator approved by hash (approve_action and
\* claim_action_for_execution recompute the hash).
OnlyApprovedChanges == \A m \in wire : m.hash \in granted[m.act]

\* An audit record `action.succeeded' or a rollback proposal means the target really
\* applied a change for that action (execute_action audits after the runner).
AuditedOutcomeIsReal ==
  \A a \in ActionIds :
    audited[a] \cap {"succeeded", "rollback_proposed"} # {} => applied[a] >= 1

\* A change that is under way or made is never on record as one that did not happen:
\* no interleaving of handlers, crash or recovery leaves such an action authorized,
\* stale, rejected or expired.
ChangeStaysOnRecord ==
  \A a \in ActionIds :
    applied[a] > 0 \/ (\E m \in wire : m.act = a) =>
      actions[a].status \in {"executing", "succeeded", "rollback_proposed",
                             "needs_reconciliation"}

\* A final status that clients were told by an event or that is in the audit log is
\* the status on record from then on (put_action precedes audit and emit_action).
FinalWordStands ==
  \A a \in ActionIds, s \in Statuses :
    IsTerminal(s) /\ (announced[a] = s \/ s \in audited[a]) => actions[a].status = s

\* The action as the abstract lifecycle sees it.
Lifecycle == INSTANCE ActionLifecycle
               WITH status <- [a \in ActionIds |-> actions[a].status]

\* With one approver at a time, requests, crashes and late messages together move
\* every action along the status machine only, and send at most one change request,
\* while the action is on record as executing.
ImplementsLifecycle == Lifecycle!Spec

\* A claimed action reaches a final status, by its executor or by recovery after a
\* crash, unless the client that asked for the execution went away, or a handler's
\* exchange with the target never ends (execute_action, recover).
ClaimedActionSettles ==
  \A a \in ActionIds :
    \/ actions[a].status \in InFlight ~> IsTerminal(actions[a].status) \/ a \in dropped
    \/ \E r \in Requests : <>[](on[r] = a /\ Exchanging(r))

\* What docs/phases/v0.6-safe-remediation.md says of approvals: consumed only once.
ApprovalConsumedOnce == \A a \in ActionIds : sent[a] <= 1

\* What the same document says of status changes: each is a durable event and an
\* audit record.  Claimed of every moment at which no handler is at work.
StatusChangesAudited ==
  (\A r \in Requests : Free(r)) =>
    \A a \in ActionIds :
      actions[a].status # "absent" =>
        actions[a].status \in audited[a] /\ announced[a] = actions[a].status
=============================================================================
