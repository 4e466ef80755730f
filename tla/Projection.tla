------------------------------ MODULE Projection ------------------------------
(***************************************************************************)
(* The views that are computed from a thread's event log: the thread's     *)
(* status, the items a client is shown (store/projection.rs), the bounded  *)
(* context a model is sent and the range a compaction covers               *)
(* (runtime/context.rs, AgentRuntime::maybe_compact).                      *)
(* A log is a sequence of events; an event's seq is its position.          *)
(***************************************************************************)
EXTENDS Selections, FiniteSets, SequencesExt

CONSTANTS Calls,        \* call ids the provider uses
          NoCall,       \* stands for the call of an event that has none
          MaxItems,     \* ContextBudget::max_items
          MaxToolCalls, \* ContextBudget::max_tool_calls
          MaxEvidence,  \* ContextBudget::max_evidence
          MaxBytes      \* ContextBudget::max_bytes; max_tokens and max_cost_micros
                        \* are counted from the same bytes

ASSUME BudgetAssumption == /\ {MaxItems, MaxToolCalls, MaxEvidence, MaxBytes} \subseteq Nat
                           /\ NoCall \notin Calls

\* One kind per variant of RuntimeEvent; "tool_progress" stands for the ones no
\* view looks at (AssistantDelta, ToolAuthorized, ToolExecutionStarted). Every
\* view reads ToolStarted, which only old logs have, as ToolProposed.
Kinds == {"thread_created", "user_message", "turn_started", "tool_progress",
          "assistant_completed", "tool_proposed", "tool_completed",
          "approval_required", "approval_resolved", "turn_completed",
          "turn_cancelled", "turn_failed", "context_compacted", "action_updated"}
ActionStatuses == {"awaiting_approval", "executing", "needs_reconciliation", "succeeded"}
\* "interrupted" is only ever written to a column, by recovery.
ThreadStatuses == {"idle", "running", "waiting_approval", "needs_reconciliation",
                   "interrupted", "failed"}

\* An event: its kind, the call it is about, the range a summary covers, the
\* number of a user's message and the status an action_updated reports.
Event == [kind : Kinds, call : Calls \cup {NoCall}, first : Nat, last : Nat,
          text : Nat, status : ActionStatuses \cup {"none"}]
Plain(k) == [kind |-> k, call |-> NoCall, first |-> 0, last |-> 0, text |-> 0, status |-> "none"]
OfCall(k, c) == [Plain(k) EXCEPT !.call = c]

Positions(log) == [i \in DOMAIN log |-> i]

-----------------------------------------------------------------------------
(* The thread's status and its title. *)

\* Faulty form: a cancelled turn leaves a status that only turns have.
StatusAfterCancelled(s, e) == IF e.kind = "turn_cancelled" THEN "cancelled" ELSE s

StatusAfter(s, e) ==
    CASE e.kind = "approval_required" -> "waiting_approval"
      [] e.kind \in {"approval_resolved", "turn_started"} -> "running"
      [] e.kind \in {"turn_completed", "turn_cancelled"} -> "idle"
      [] e.kind = "turn_failed" -> "failed"
      [] e.kind = "action_updated" ->
            (CASE e.status = "awaiting_approval" -> "waiting_approval"
               [] e.status = "needs_reconciliation" -> "needs_reconciliation"
               [] e.status = "succeeded" -> "idle"
               [] OTHER -> "running")
      [] OTHER -> s

\* The events after which the status is what they say, whatever it was before.
SetsStatus(e) == e.kind \in {"approval_required", "approval_resolved", "turn_started", "turn_completed",
                             "turn_cancelled", "turn_failed", "action_updated"}

ReconstructedStatus(log) == FoldLeft(StatusAfter, "idle", log)

\* 0 is no title; a title is the number of the message it is taken from.
TitleFromEvent(e) == IF e.kind = "user_message" THEN e.text ELSE 0
TitleOr(title, e) == IF title # 0 THEN title ELSE TitleFromEvent(e)

-----------------------------------------------------------------------------
(* The items of a thread (reconstruct_thread). *)

NewItem(e) == [kind |-> e.kind, call |-> e.call, decided |-> FALSE, status |-> e.status,
               first |-> e.first, last |-> e.last]
ItemKinds == {"user_message", "assistant_completed", "tool_proposed", "tool_completed",
              "context_compacted", "approval_required"}

\* A decision goes to the latest item of its approval, an action has one item.
ApplyEvent(items, e) ==
    LET approval == SelectLastInSeq(items, LAMBDA i : i.kind = "approval_required" /\ i.call = e.call)
        action == SelectLastInSeq(items, LAMBDA i : i.kind = "action_updated")
    IN  CASE e.kind \in ItemKinds -> Append(items, NewItem(e))
          [] e.kind = "approval_resolved" /\ approval # 0 -> [items EXCEPT ![approval].decided = TRUE]
          [] e.kind = "action_updated" /\ action # 0 -> [items EXCEPT ![action].status = e.status]
          [] e.kind = "action_updated" /\ action = 0 -> Append(items, NewItem(e))
          [] OTHER -> items

ReconstructedItems(log) == FoldLeft(ApplyEvent, <<>>, log)

-----------------------------------------------------------------------------
(* The items a model may be sent. *)

CompactedRanges(log) == {<<log[i].first, log[i].last>> :
                            i \in {j \in DOMAIN log : log[j].kind = "context_compacted"}}
IsCovered(seq, ranges) == \E r \in ranges : r[1] <= seq /\ seq <= r[2]

\* Events that become a model item of their own, without the summaries.
Contributes(e) == e.kind \in {"user_message", "assistant_completed", "tool_proposed", "tool_completed"}

ContributingSeqs(log) == Keep(Positions(log), {i \in DOMAIN log : Contributes(log[i])})

\* The seqs of the events that are model items, in order: those a summary has
\* not replaced, and every summary. An item is named by its seq.
ModelItems(log) ==
    LET ranges == CompactedRanges(log)
    IN  Keep(Positions(log), {i \in DOMAIN log : \/ log[i].kind = "context_compacted"
                                                 \/ Contributes(log[i]) /\ ~IsCovered(i, ranges)})

IsCall(log, i) == log[i].kind = "tool_proposed"
IsResult(log, i) == log[i].kind = "tool_completed"

\* Calls and results matched first come, first served per call id: the calls that
\* wait for their results and the pairs, by their positions in the sequence of items.
Match(log, items, acc, k) ==
    LET c == log[items[k]].call
    IN  CASE IsCall(log, items[k]) -> [acc EXCEPT !.pending[c] = Append(@, k)]
          [] IsResult(log, items[k]) /\ acc.pending[c] # <<>> ->
                [pending |-> [acc.pending EXCEPT ![c] = Tail(@)],
                 pairs |-> acc.pairs \cup {<<Head(acc.pending[c]), k>>}]
          [] OTHER -> acc
NoMatch == [pending |-> [c \in Calls |-> <<>>], pairs |-> {}]
Pairs(log, items) == FoldLeftDomain(LAMBDA acc, k : Match(log, items, acc, k), NoMatch, items).pairs

DropUnpaired(log, items) ==
    LET paired == UNION {{p[1], p[2]} : p \in Pairs(log, items)}
    IN  Keep(items, {k \in DOMAIN items : \/ k \in paired
                                          \/ ~IsCall(log, items[k]) /\ ~IsResult(log, items[k])})

\* What an item weighs: the output of a tool is the large one.
ItemBytes(log, i) == IF IsResult(log, i) THEN 2 ELSE 1

Fits(log, items) ==
    /\ Len(items) <= MaxItems
    /\ Cardinality({k \in DOMAIN items : IsCall(log, items[k])}) <= MaxToolCalls
    /\ Cardinality({k \in DOMAIN items : IsResult(log, items[k])}) <= MaxEvidence
    /\ FoldLeft(LAMBDA n, i : n + ItemBytes(log, i), 0, items) <= MaxBytes

From(items, k) == SubSeq(items, k, Len(items))

\* Behind every pair that a start at k would cut in two.
Behind(pairs, k) == {p[2] + 1 : p \in {q \in pairs : q[1] < k /\ k <= q[2]}}

\* Faulty form: the first start that fits, pairs cut or not.
TrimToFirstFit(log, items) ==
    LET start[k \in 1..(Len(items) + 1)] ==
            IF k > Len(items) \/ Fits(log, From(items, k)) THEN k ELSE start[k + 1]
    IN  From(items, start[1])

\* The loop of trim_pair_safe_suffix: a start that does not fit moves by one, one
\* that fits moves behind the pairs it would cut.
TrimPairSafeSuffix(log, items) ==
    LET pairs == Pairs(log, items)
        start[k \in 1..(Len(items) + 1)] ==
            IF k > Len(items) THEN k
            ELSE IF ~Fits(log, From(items, k)) THEN start[k + 1]
            ELSE IF Behind(pairs, k) = {} THEN k
            ELSE start[Max(Behind(pairs, k))]
    IN  From(items, start[1])

BuildModelContext(log, items) == TrimPairSafeSuffix(log, DropUnpaired(log, items))
ModelContext(log) == BuildModelContext(log, ModelItems(log))

-----------------------------------------------------------------------------
(* Compaction: maybe_compact counts how many items the context leaves out    *)
(* and covers as many contributing events, from the start of the log.        *)

NoRange == <<0, 0>>

\* Faulty form: what summaries cover already is not looked at.
CompactionRangeAgain(log) ==
    LET full == ModelItems(log)
        dropped == Len(full) - Len(BuildModelContext(log, full))
        contributing == ContributingSeqs(log)
        n == IF dropped < Len(contributing) THEN dropped ELSE Len(contributing)
    IN  IF n = 0 THEN NoRange ELSE <<contributing[1], contributing[n]>>

CompactionRange(log) ==
    LET full == ModelItems(log)
        dropped == Len(full) - Len(BuildModelContext(log, full))
        contributing == ContributingSeqs(log)
        n == IF dropped < Len(contributing) THEN dropped ELSE Len(contributing)
        range == <<contributing[1], contributing[n]>>
    IN  IF n = 0 \/ \E r \in CompactedRanges(log) : r[1] <= range[1] /\ range[2] <= r[2]
        THEN NoRange
        ELSE range

\* Faulty form: results are taken for traces of the turn.
InheritableWithoutResults(e) ==
    e.kind \notin {"tool_progress", "approval_required", "approval_resolved", "turn_started",
                   "turn_completed", "turn_cancelled", "turn_failed", "tool_completed"}

\* What a fork takes over (inheritable), and of which the first, the parent's own
\* thread_created, is skipped.
Inheritable(e) ==
    e.kind \notin {"tool_progress", "approval_required", "approval_resolved", "turn_started",
                   "turn_completed", "turn_cancelled", "turn_failed"}
Inherited(past) == Tail(Keep(past, {i \in DOMAIN past : Inheritable(past[i])}))
=============================================================================
