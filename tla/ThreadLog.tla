------------------------------ MODULE ThreadLog ------------------------------
(***************************************************************************)
(* Threads in the SQLite store: their event logs, the status and title     *)
(* columns kept beside them, their lineage, and the operations that write  *)
(* them: create_thread, append_event, fork_thread, the events a turn       *)
(* appends in the order of run_turn_inner, compaction included, and what   *)
(* recovery writes after a restart.                                        *)
(***************************************************************************)
EXTENDS Projection

CONSTANTS Threads,          \* thread ids
          Roots,            \* the ids create_thread makes up; the others are forks'
          NoThread,         \* the parent of a thread that is not a fork
          MaxEvents,        \* bound: events in all logs
          MaxRestarted,     \* bound: events in all logs when the process is restarted, or was
          MaxDetours,       \* bound: approvals, action updates and broken-off turns in a log
          TurnSlots,        \* turns that run at the same time (AgentRuntime::turn_slots)
          MaxOpen           \* bound: open turns when another one begins

ASSUME ThreadsAssumption == /\ NoThread \notin Threads /\ Roots \subseteq Threads
                            /\ {MaxEvents, MaxRestarted, MaxDetours, TurnSlots, MaxOpen} \subseteq Nat

VARIABLES log,      \* events of each thread; an empty log is a thread that does not exist
          status,   \* threads.status
          title,    \* threads.title
          lineage,  \* threads.parent_thread_id and forked_at_seq
          phase,    \* where the turn of each thread is, "off" without one
          open,     \* the turns whose row is open though nobody runs them
          recovered, \* history: the status recovery wrote and no event has replaced
          restarted \* the process has been started again

turnVars == <<phase, open, restarted>>
vars == <<log, status, title, lineage, recovered, turnVars>>

\* Where a turn is. The last three are a resumed turn's, whose pending call waits
\* for its approval, has it, or is run again.
Phases == {"off", "starting", "asked", "step", "model", "answer", "tool", "waiting", "decided",
           "asking", "settled", "retrying"}
Given == 99     \* the title a fork was given by its request

\* How a turn that broke off goes on (classify_checkpoint): from the model's call,
\* with its approval pending or decided, by running its call again, only after a
\* person has looked, or not at all, without a checkpoint.
Hows == {"replay", "ask", "go", "retry", "reconcile", "unsaved"}
Class(how) == CASE how \in {"ask", "go"} -> "waiting_approval"
                [] how = "reconcile" -> "needs_reconciliation"
                [] OTHER -> "interrupted"

\* call is the call the turn is busy with; fresh is whether it was started, not
\* resumed, in this process.
Turns == [at : Phases, call : Calls \cup {NoCall}, called : BOOLEAN, fresh : BOOLEAN]
OpenTurns == [how : Hows, call : Calls \cup {NoCall}]

TypeOK ==
    /\ log \in [Threads -> Seq(Event)]
    /\ status \in [Threads -> ThreadStatuses]
    /\ title \in [Threads -> Nat]
    /\ lineage \in [Threads -> [parent : Threads \cup {NoThread}, at : Nat]]
    /\ phase \in [Threads -> Turns]
    /\ open \in [Threads -> Seq(OpenTurns)]
    /\ recovered \in [Threads -> ThreadStatuses \cup {"none"}]
    /\ restarted \in BOOLEAN

Exists(t) == log[t] # <<>>
Off == [at |-> "off", call |-> NoCall, called |-> FALSE, fresh |-> FALSE]
At(t, where) == phase[t].at = where
Go(t, where) ==
    /\ phase' = [phase EXCEPT ![t].at = where]
    /\ UNCHANGED <<open, restarted>>
\* The same, and with the call that the turn is busy with from now on.
GoWith(t, where, c) ==
    /\ phase' = [phase EXCEPT ![t].at = where, ![t].call = c]
    /\ UNCHANGED <<open, restarted>>

Init ==
    /\ log = [t \in Threads |-> <<>>]
    /\ status = [t \in Threads |-> "idle"]
    /\ title = [t \in Threads |-> 0]
    /\ lineage = [t \in Threads |-> [parent |-> NoThread, at |-> 0]]
    /\ phase = [t \in Threads |-> Off]
    /\ open = [t \in Threads |-> <<>>]
    /\ recovered = [t \in Threads |-> "none"]
    /\ restarted = FALSE

-----------------------------------------------------------------------------
(* The store's operations. *)

Total == FoldLeft(LAMBDA n, t : n + Len(log[t]), 0, SetToSeq(Threads))

\* Bound: n more events are allowed.
Room(n) == Total + n <= IF restarted THEN MaxRestarted ELSE MaxEvents

\* What of a status that recovery wrote is left after events.
StillRecovered(r, events) == IF \E i \in DOMAIN events : SetsStatus(events[i]) THEN "none" ELSE r

\* One append_event after the other: the row, then the columns of the thread.
AppendEvents(t, events) ==
    /\ Room(Len(events))
    /\ log' = [log EXCEPT ![t] = @ \o events]
    /\ status' = [status EXCEPT ![t] = FoldLeft(StatusAfter, @, events)]
    /\ title' = [title EXCEPT ![t] = FoldLeft(TitleOr, @, events)]
    /\ recovered' = [recovered EXCEPT ![t] = StillRecovered(@, events)]
    /\ UNCHANGED lineage

CreateThread(t) ==
    /\ t \in Roots /\ ~Exists(t)
    /\ log' = [log EXCEPT ![t] = <<Plain("thread_created")>>]
    /\ status' = [status EXCEPT ![t] = "idle"]
    /\ title' = [title EXCEPT ![t] = 0]
    /\ UNCHANGED <<lineage, recovered, turnVars>>

\* Faulty form: the child's row starts with the parent's current status.
ForkThreadKeepsStatus(t, at, new, given) ==
    LET inherited == Inherited(SubSeq(log[t], 1, at))
    IN  /\ Exists(t) /\ new \notin Roots /\ ~Exists(new)
        /\ at \in 1..Len(log[t])
        /\ Room(1 + Len(inherited))
        /\ log' = [log EXCEPT ![new] = <<Plain("thread_created")>> \o inherited]
        /\ status' = [status EXCEPT ![new] = FoldLeft(StatusAfter, status[t], inherited)]
        /\ title' = [title EXCEPT ![new] = FoldLeft(TitleOr, given, inherited)]
        /\ lineage' = [lineage EXCEPT ![new] = [parent |-> t, at |-> at]]
        /\ UNCHANGED <<recovered, turnVars>>

\* fork_thread up to seq at: a thread_created of its own, then the inheritable
\* events of the parent, the first one aside, numbered anew.
ForkThread(t, at, new, given) ==
    LET inherited == Inherited(SubSeq(log[t], 1, at))
    IN  /\ Exists(t) /\ new \notin Roots /\ ~Exists(new)
        /\ at \in 1..Len(log[t])
        /\ Room(1 + Len(inherited))
        /\ log' = [log EXCEPT ![new] = <<Plain("thread_created")>> \o inherited]
        /\ status' = [status EXCEPT ![new] = FoldLeft(StatusAfter, "idle", inherited)]
        /\ title' = [title EXCEPT ![new] = FoldLeft(TitleOr, given, inherited)]
        /\ lineage' = [lineage EXCEPT ![new] = [parent |-> t, at |-> at]]
        /\ UNCHANGED <<recovered, turnVars>>

-----------------------------------------------------------------------------
(* What a turn appends. *)

OfKinds(t, kinds) == Cardinality({i \in DOMAIN log[t] : log[t][i].kind \in kinds})
Detours(t) == OfKinds(t, {"approval_required", "action_updated", "turn_cancelled", "turn_failed"})
UserMessages(t) == OfKinds(t, {"user_message"})

SlotFree == Cardinality({t \in Threads : ~At(t, "off")}) < TurnSlots

\* The turn has its slot and its lease, and its row says that it runs.
TurnStarts(t) ==
    /\ Exists(t)
    /\ At(t, "off") /\ SlotFree
    /\ FoldLeft(LAMBDA n, u : n + Len(open[u]), 0, SetToSeq(Threads)) <= MaxOpen
    /\ phase' = [phase EXCEPT ![t] = [Off EXCEPT !.at = "starting", !.fresh = TRUE]]
    /\ UNCHANGED <<log, status, title, lineage, recovered, open, restarted>>

UserAsks(t) ==
    /\ At(t, "starting")
    /\ AppendEvents(t, <<[Plain("user_message") EXCEPT !.text = UserMessages(t) + 1]>>)
    /\ Go(t, "asked")

TurnBegins(t) ==
    /\ At(t, "asked")
    /\ AppendEvents(t, <<Plain("turn_started")>>)
    /\ Go(t, "step")

\* maybe_compact, at the start of every step; what follows is the model's call
\* with the context of this log.
MaybeCompact(t) ==
    LET range == CompactionRange(log[t])
        summary == [Plain("context_compacted") EXCEPT !.first = range[1], !.last = range[2]]
    IN  /\ At(t, "step")
        /\ \/ range = NoRange /\ UNCHANGED <<log, status, title, lineage, recovered>>
           \/ range # NoRange /\ AppendEvents(t, <<summary>>)
        /\ phase' = [phase EXCEPT ![t].at = "model", ![t].called = FALSE]
        /\ UNCHANGED <<open, restarted>>

\* The model has been called, or has said something already.
Answering(t) == At(t, "model") \/ At(t, "answer")

\* Bound: one message in a row.
AssistantCompleted(t) ==
    /\ Answering(t)
    /\ Last(log[t]).kind # "assistant_completed"
    /\ AppendEvents(t, <<Plain("assistant_completed")>>)
    /\ GoWith(t, "answer", NoCall)

ToolProposed(t, c) ==
    /\ Answering(t)
    /\ AppendEvents(t, <<OfCall("tool_proposed", c)>>)
    /\ phase' = [phase EXCEPT ![t].at = "tool", ![t].call = c, ![t].called = TRUE]
    /\ UNCHANGED <<open, restarted>>

ApprovalRequired(t) ==
    /\ At(t, "tool") /\ Detours(t) < MaxDetours
    /\ AppendEvents(t, <<OfCall("approval_required", phase[t].call)>>)
    /\ Go(t, "waiting")

ApprovalResolved(t) ==
    /\ At(t, "waiting") \/ At(t, "asking")
    /\ AppendEvents(t, <<OfCall("approval_resolved", phase[t].call)>>)
    /\ Go(t, IF At(t, "waiting") THEN "decided" ELSE "settled")

\* The tool is authorized and started (progress), and its result is recorded. A
\* call that had to be approved is kept in mind: until the next checkpoint is
\* written the last one says that the turn waits for the approval.
ToolCompleted(t) ==
    /\ At(t, "tool") \/ At(t, "decided")
    /\ AppendEvents(t, <<OfCall("tool_progress", phase[t].call),
                         OfCall("tool_completed", phase[t].call)>>)
    /\ GoWith(t, "answer", IF At(t, "decided") THEN phase[t].call ELSE NoCall)

\* The answer has no more outputs: another step after a tool, or the end.
AnswerEnds(t) ==
    /\ Answering(t)
    /\ \/ /\ phase[t].called
          /\ GoWith(t, "step", NoCall)
          /\ UNCHANGED <<log, status, title, lineage, recovered>>
       \/ /\ ~phase[t].called
          /\ AppendEvents(t, <<Plain("turn_completed")>>)
          /\ phase' = [phase EXCEPT ![t] = Off]
          /\ UNCHANGED <<open, restarted>>

-----------------------------------------------------------------------------
(* Turns that break off, and recovery. *)

\* How a turn may go on that stops where t's is.
StopsAs(t) ==
    CASE phase[t].at \in {"starting", "asked"} -> {"unsaved"}
      [] phase[t].at = "tool" -> {"replay", "ask", "retry", "reconcile"}
      [] phase[t].at \in {"waiting", "asking"} -> {"ask", "go"}
      [] phase[t].at \in {"decided", "settled"} -> {"go", "retry", "reconcile"}
      [] phase[t].at = "retrying" -> {"retry"}
      [] OTHER -> IF phase[t].call = NoCall THEN {"replay"} ELSE {"replay", "go"}

\* The row is closed though no event says so: the turn's last checkpoint is its
\* end, or it has failed or been cancelled and has not said so yet.
RowClosed(t) == phase[t].fresh \/ (Answering(t) /\ ~phase[t].called)

\* What is left of t's turn when it stops without a word: at most one open row.
Remains(t) ==
    (IF At(t, "off") \/ RowClosed(t) THEN {<<>>} ELSE {})
    \cup (IF At(t, "off") THEN {}
          ELSE {<<[how |-> h, call |-> IF h \in {"replay", "unsaved"} THEN NoCall ELSE phase[t].call]>> :
                    h \in StopsAs(t)})

\* A turn is cancelled or fails. One that was started here says so, one that was
\* resumed does not: its row stays open.
TurnBreaksOff(t) ==
    /\ ~At(t, "off") /\ phase[t].fresh /\ Detours(t) < MaxDetours
    /\ \E k \in {"turn_cancelled", "turn_failed"} : AppendEvents(t, <<Plain(k)>>)
    /\ phase' = [phase EXCEPT ![t] = Off]
    /\ UNCHANGED <<open, restarted>>

ResumedTurnBreaksOff(t) ==
    /\ ~At(t, "off") /\ ~phase[t].fresh
    /\ \E left \in Remains(t) : open' = [open EXCEPT ![t] = @ \o left]
    /\ phase' = [phase EXCEPT ![t] = Off]
    /\ UNCHANGED <<log, status, title, lineage, recovered, restarted>>

\* A turn that is not let in, because it is cancelled while it waits for its slot
\* or because the thread has a turn already, says so in the thread's log.
TurnRefused(t) ==
    /\ Exists(t) /\ Detours(t) < MaxDetours
    /\ \E k \in {"turn_cancelled", "turn_failed"} : AppendEvents(t, <<Plain(k)>>)
    /\ UNCHANGED turnVars

\* recover goes through the open turns in no particular order; each writes its
\* class to the status column of its thread (upsert_turn) and no event.
Recover(stays) ==
    /\ status' \in [Threads -> ThreadStatuses]
    /\ \A t \in Threads :
           status'[t] \in IF stays[t] = <<>> THEN {status[t]}
                          ELSE {Class(stays[t][i].how) : i \in DOMAIN stays[t]}
    /\ recovered' = [t \in Threads |-> IF stays[t] = <<>> THEN recovered[t]
                                       ELSE status'[t]]

\* The process dies, whatever its turns are doing, and is started again.
Restart ==
    /\ Total <= MaxRestarted
    /\ restarted' = TRUE
    /\ \E left \in [Threads -> UNION {Remains(t) : t \in Threads}] :
           /\ \A t \in Threads : left[t] \in Remains(t)
           /\ open' = [t \in Threads |-> open[t] \o left[t]]
           /\ Recover(open')
    /\ phase' = [t \in Threads |-> Off]
    /\ UNCHANGED <<log, title, lineage>>

\* An open turn is resumed: from the model's call, or with its pending call.
ResumeTurn(t, i) ==
    LET turn == open[t][i]
    IN  /\ At(t, "off") /\ SlotFree
        /\ turn.how \notin {"reconcile", "unsaved"}
        /\ phase' = [phase EXCEPT ![t] =
               [Off EXCEPT !.call = turn.call,
                           !.at = CASE turn.how = "replay" -> "step"
                                    [] turn.how = "ask" -> "asking"
                                    [] turn.how = "go" -> "settled"
                                    [] OTHER -> "retrying"]]
        /\ open' = [open EXCEPT ![t] = RemoveAt(@, i)]
        /\ UNCHANGED <<log, status, title, lineage, recovered, restarted>>

\* The pending call has its result, without an event for the decision when that
\* was taken before the turn was resumed.
PendingCompleted(t) ==
    /\ phase[t].at \in {"asking", "settled", "retrying"}
    /\ AppendEvents(t, <<OfCall("tool_completed", phase[t].call)>>)
    /\ GoWith(t, "step", IF At(t, "retrying") THEN NoCall ELSE phase[t].call)

\* An action of the thread reports its status, whatever its turns do.
ActionUpdated(t, s) ==
    /\ Exists(t)
    /\ Detours(t) < MaxDetours
    /\ AppendEvents(t, <<[Plain("action_updated") EXCEPT !.status = s]>>)
    /\ UNCHANGED turnVars

Next ==
    \/ Restart
    \/ \E t \in Threads :
        \/ CreateThread(t) \/ TurnStarts(t) \/ UserAsks(t) \/ TurnBegins(t) \/ MaybeCompact(t)
        \/ AssistantCompleted(t) \/ ApprovalRequired(t) \/ ApprovalResolved(t)
        \/ ToolCompleted(t) \/ AnswerEnds(t) \/ PendingCompleted(t)
        \/ TurnBreaksOff(t) \/ ResumedTurnBreaksOff(t) \/ TurnRefused(t)
        \/ \E i \in DOMAIN open[t] : ResumeTurn(t, i)
        \/ \E c \in Calls : ToolProposed(t, c)
        \/ \E s \in ActionStatuses : ActionUpdated(t, s)
        \/ \E new \in Threads, at \in 1..MaxEvents, given \in {0, Given} : ForkThread(t, at, new, given)

Spec == Init /\ [][Next]_vars

-----------------------------------------------------------------------------
(* Properties. *)

FirstMessage(l) == LET i == SelectInSeq(l, LAMBDA e : e.kind = "user_message")
                   IN  IF i = 0 THEN 0 ELSE l[i].text

\* The status and title columns, kept up to date by every append and written
\* anew by a fork, agree with what get_thread and the JSONL store's listing
\* compute from the whole log (sqlite.rs append_event and fork_thread against
\* projection.rs reconstruct_thread and summary_from_thread). The one exception
\* is recovery, which writes the status without an event (upsert_turn): what it
\* wrote is there until the first event that says something else, through
\* messages, summaries, resumptions and results, and not longer.
ColumnsMatchLog ==
    \A t \in Threads : Exists(t) =>
        /\ status[t] = IF recovered[t] = "none" THEN ReconstructedStatus(log[t]) ELSE recovered[t]
        /\ title[t] \in {Given, FirstMessage(log[t])}
        /\ title[t] = Given => lineage[t].parent # NoThread

\* The listing shows of every thread the status that its log has
\* (docs/adr/0004: the log is the source of truth, the views are projections
\* that can be rebuilt from it).
ListingShowsLog ==
    \A t \in Threads : Exists(t) => status[t] = ReconstructedStatus(log[t])

\* Per call id, as many results as calls, and no result before its call.
Balanced(l, items) ==
    LET Count(k, c, Is(_, _)) ==
            Cardinality({j \in 1..k : Is(l, items[j]) /\ l[items[j]].call = c})
    IN  \A c \in Calls :
            /\ Count(Len(items), c, IsCall) = Count(Len(items), c, IsResult)
            /\ \A k \in DOMAIN items : Count(k, c, IsResult) <= Count(k, c, IsCall)

\* The context a model is sent has every call with its result and every result
\* with its call, is within the budget, and is the longest suffix of the
\* history's complete part that is (build_model_context: the start that skips
\* over straddling pairs skips no more than it must).
ContextIsLongestFit ==
    \A t \in Threads : Exists(t) =>
        LET l == log[t]
            complete == DropUnpaired(l, ModelItems(l))
            good == {k \in 1..(Len(complete) + 1) :
                        Balanced(l, From(complete, k)) /\ Fits(l, From(complete, k))}
        IN  /\ Balanced(l, complete)
            /\ ModelContext(l) = From(complete, CHOOSE k \in good : \A m \in good : k <= m)

\* The contributing events of a log, and those of them that summaries hide.
Contributing(l) == {i \in DOMAIN l : Contributes(l[i])}
Hidden(l) == {i \in Contributing(l) : IsCovered(i, CompactedRanges(l))}

\* A compaction makes progress: in a thread that is not a fork, a new summary
\* hides more than was hidden before, and what is hidden is a prefix of the
\* history, so the same range is never summarised again (the containment check
\* of maybe_compact, after any number of turns, crashes and compactions).
CompactionAdvances ==
    [][\A t \in Threads :
        (/\ lineage[t].parent = NoThread
         /\ Len(log'[t]) = Len(log[t]) + 1
         /\ Last(log'[t]).kind = "context_compacted") =>
            /\ Hidden(log[t]) \subseteq Hidden(log'[t]) /\ Hidden(log[t]) # Hidden(log'[t])
            /\ \A i \in Hidden(log'[t]), j \in Contributing(log'[t]) : j < i => j \in Hidden(log'[t])
      ]_vars

\* The items of a thread apart from approvals and actions, which change later.
Past(l) ==
    LET items == ReconstructedItems(l)
    IN  Keep(items, {k \in DOMAIN items : items[k].kind \notin {"approval_required", "action_updated"}})

\* A fork starts from what its parent showed at the seq it was forked at, and
\* keeps it, whatever parent and child go on to do (fork_thread, inheritable).
ForkSharesPast ==
    \A t \in Threads : lineage[t].parent # NoThread =>
        IsPrefix(Past(SubSeq(log[lineage[t].parent], 1, lineage[t].at)), Past(log[t]))

\* When the model is called, everything complete in the thread's history is in
\* its context or covered by a summary that is (docs/phases/v0.5-continuity.md:
\* the context builder uses the summary in place of the range it covers).
NothingForgotten ==
    \A t \in Threads : At(t, "model") =>
        LET l == log[t]
            context == ToSet(ModelContext(l))
            summarised == {<<l[i].first, l[i].last>> :
                              i \in {j \in context : l[j].kind = "context_compacted"}}
        IN  \A i \in ToSet(DropUnpaired(l, ContributingSeqs(l))) :
                i \in context \/ IsCovered(i, summarised)

\* A summary a fork inherits covers the same items in the fork as in the parent
\* (docs/phases/v0.5-continuity.md: a fork inherits valid summaries that cover
\* the same range). Items correspond by their rank.
ForkSummaryCoversSameItems ==
    \A t \in Threads : lineage[t].parent # NoThread =>
        LET past == SubSeq(log[lineage[t].parent], 1, lineage[t].at)
            inherited == SubSeq(log[t], 1, Len(Inherited(past)) + 1)
            Covered(l, ranges) == {Cardinality({j \in Contributing(l) : j <= i}) :
                                      i \in {k \in Contributing(l) : IsCovered(k, ranges)}}
        IN  Covered(log[t], CompactedRanges(inherited)) = Covered(past, CompactedRanges(past))
=============================================================================
