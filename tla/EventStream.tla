----------------------------- MODULE EventStream -----------------------------
(***************************************************************************)
(* One thread's durable events and the clients that follow them over SSE   *)
(* (append_event in src/store/sqlite.rs, emit in src/runtime/agent.rs,     *)
(* EventHub in src/server/mod.rs, thread_events in src/server/sse.rs, and  *)
(* publish_new_events with the action routes in src/server/routes.rs).     *)
(*                                                                         *)
(* An event has the position in the log for its sequence number.  It is    *)
(* first appended to the store, then sent on the thread's broadcast        *)
(* channel: by the turn that wrote it right away, by an action handler     *)
(* only once it has finished well.  A subscriber joins the channel, reads  *)
(* what the store holds, then follows the channel.                         *)
(***************************************************************************)
EXTENDS Integers, Sequences, SequencesExt

CONSTANTS
  Handlers,     \* action requests in progress at once
  Subscribers,  \* clients of GET /threads/{id}/events
  Filter,       \* the stream_kind each one asks for, or "any"
  Capacity,     \* of the broadcast channel: 256 in EventHub
  MaxEvents,    \* bound: events in the thread
  MaxCrashes    \* bound: process deaths

Kinds == {"domain", "delta"}

ASSUME StreamAssumption ==
  /\ Filter \in [Subscribers -> Kinds \cup {"any"}]
  /\ Capacity \in Nat \ {0}
  /\ MaxEvents \in Nat /\ MaxCrashes \in Nat

VARIABLES
  log,       \* the thread's rows in events: kind, and whether a turn or an action wrote it
  unsent,    \* the event the turn has appended and not yet sent, or 0
  handler,   \* per action request: what it is about to do
  channel,   \* what the broadcast channel retains: the last events sent, oldest first
  sub,       \* per subscriber: the state of its response stream
  delivered, \* per client: the sequence numbers it has received, over all connections
  from,      \* per client: the position it first asked for, or -1
  crashes

vars == <<log, unsent, handler, channel, sub, delivered, from, crashes>>

Idle == [at |-> "idle", after |-> 0, todo |-> <<>>]
Closed == [at |-> "off", unread |-> 0, last |-> 0, todo |-> {}]

TypeOK ==
  /\ log \in Seq([kind : Kinds, by : {"turn", "action"}])
  /\ unsent \in 0..Len(log)
  /\ handler \in [Handlers -> [at : {"idle", "working", "sending"}, after : Nat,
                               todo : Seq(Nat)]]
  /\ channel \in Seq(1..Len(log)) /\ Len(channel) <= Capacity
  /\ sub \in [Subscribers -> [at : {"off", "joined", "live", "lagged"},
                              unread : 0..(Capacity + 1), last : Nat, todo : SUBSET Nat]]
  /\ delivered \in [Subscribers -> Seq(1..Len(log))]
  /\ from \in [Subscribers -> Int]
  /\ crashes \in Nat

\* events_after.
EventsAfter(n) == [i \in 1..(Len(log) - n) |-> n + i]

Wanted(s, n) == Filter[s] \in {"any", log[n].kind}

\* The query's stream_kind is applied to what the store returns.  events_after is ordered by
\* seq, so that a stream which has read a set of events yields the least first.
WantedAfter(s, n) == {m \in (n + 1)..Len(log) : Wanted(s, m)}

\* Faulty form: the channel keeps everything.
SendUnbounded(n) ==
  /\ channel' = Append(channel, n)
  /\ sub' = [s \in Subscribers |->
               IF sub[s].at = "off" \/ sub[s].unread > Capacity THEN sub[s]
               ELSE [sub[s] EXCEPT !.unread = @ + 1]]

\* broadcast::Sender::send: the channel keeps the last Capacity events, and a receiver
\* with more than that unread has lost some.
Send(n) ==
  /\ channel' = SubSeq(Append(channel, n),
                       IF Len(channel) = Capacity THEN 2 ELSE 1, Len(channel) + 1)
  /\ sub' = [s \in Subscribers |->
               IF sub[s].at = "off" \/ sub[s].unread > Capacity THEN sub[s]
               ELSE [sub[s] EXCEPT !.unread = @ + 1]]

-----------------------------------------------------------------------------
(* Writers. *)

\* emit, first half: the append is one transaction.
TurnAppends(kind) ==
  /\ unsent = 0 /\ Len(log) < MaxEvents
  /\ log' = Append(log, [kind |-> kind, by |-> "turn"])
  /\ unsent' = Len(log) + 1
  /\ UNCHANGED <<handler, channel, sub, delivered, from, crashes>>

\* emit, second half.
TurnSends ==
  /\ unsent # 0
  /\ Send(unsent)
  /\ unsent' = 0
  /\ UNCHANGED <<log, handler, delivered, from, crashes>>

\* propose, approve or execute of an action: last_seq is read first ...
HandlerBegins(h) ==
  /\ handler[h].at = "idle"
  /\ handler' = [handler EXCEPT ![h] = [at |-> "working", after |-> Len(log), todo |-> <<>>]]
  /\ UNCHANGED <<log, unsent, channel, sub, delivered, from, crashes>>

\* ... emit_action appends and does not send ...
HandlerAppends(h) ==
  /\ handler[h].at = "working" /\ Len(log) < MaxEvents
  /\ log' = Append(log, [kind |-> "domain", by |-> "action"])
  /\ UNCHANGED <<unsent, handler, channel, sub, delivered, from, crashes>>

\* ... an error returns at once, with nothing sent ...
HandlerFails(h) ==
  /\ handler[h].at = "working"
  /\ handler' = [handler EXCEPT ![h] = Idle]
  /\ UNCHANGED <<log, unsent, channel, sub, delivered, from, crashes>>

\* ... and publish_new_events reads everything after last_seq, whoever wrote it,
HandlerPublishes(h) ==
  /\ handler[h].at = "working"
  /\ handler' = [handler EXCEPT ![h].at = "sending", ![h].todo = EventsAfter(handler[h].after)]
  /\ UNCHANGED <<log, unsent, channel, sub, delivered, from, crashes>>

\* and sends it, one by one.
HandlerSends(h) ==
  /\ handler[h].at = "sending"
  /\ IF handler[h].todo = <<>>
       THEN handler' = [handler EXCEPT ![h] = Idle] /\ UNCHANGED <<channel, sub>>
       ELSE /\ Send(Head(handler[h].todo))
            /\ handler' = [handler EXCEPT ![h].todo = Tail(@)]
  /\ UNCHANGED <<log, unsent, delivered, from, crashes>>

-----------------------------------------------------------------------------
(* Subscribers: thread_events and the client at its other end. *)

\* Faulty form: Last-Event-ID is ignored.
AfterQueryOnly(s) == from'[s]

\* A client that comes back sends the last id it has received.
After(s) == IF delivered[s] = <<>> THEN from'[s] ELSE Last(delivered[s])

\* A receiver on the channel hears what is sent from now on.
Subscribe(s) ==
  /\ sub[s].at = "off"
  /\ \E n \in IF from[s] = -1 THEN 0..Len(log) ELSE {from[s]} : from' = [from EXCEPT ![s] = n]
  /\ sub' = [sub EXCEPT ![s] = [at |-> "joined", unread |-> 0, last |-> After(s),
                                todo |-> {}]]
  /\ UNCHANGED <<log, unsent, handler, channel, delivered, crashes>>

\* The replay: what the store holds after the client's position.
Replay(s) ==
  /\ sub[s].at = "joined"
  /\ sub' = [sub EXCEPT ![s].at = "live", ![s].todo = WantedAfter(s, sub[s].last)]
  /\ UNCHANGED <<log, unsent, handler, channel, delivered, from, crashes>>

Deliver(s, n) == delivered' = [delivered EXCEPT ![s] = Append(@, n)]

\* One event of a replay goes out.
YieldReplayed(s) ==
  /\ sub[s].at = "live"
  /\ \E n \in sub[s].todo :
       /\ \A m \in sub[s].todo : n <= m
       /\ Deliver(s, n)
       /\ sub' = [sub EXCEPT ![s].todo = @ \ {n}, ![s].last = IF n > @ THEN n ELSE @]
  /\ UNCHANGED <<log, unsent, handler, channel, from, crashes>>

\* The channel has dropped what the receiver should have read next.
Lagging(s) == sub[s].unread > Capacity

\* recv: an event newer than the last one goes out if it is wanted and counts as seen
\* in any case; an older one is skipped.
Receive(s) ==
  /\ sub[s].at = "live" /\ sub[s].todo = {}
  /\ sub[s].unread > 0 /\ ~Lagging(s)
  /\ LET n == channel[Len(channel) - sub[s].unread + 1]
     IN  /\ sub' = [sub EXCEPT ![s].unread = @ - 1, ![s].last = IF n > @ THEN n ELSE @]
         /\ IF n > sub[s].last /\ Wanted(s, n) THEN Deliver(s, n) ELSE UNCHANGED delivered
  /\ UNCHANGED <<log, unsent, handler, channel, from, crashes>>

\* Faulty form: a lag is skipped over.
LagSkipped(s) ==
  /\ sub[s].at = "live" /\ sub[s].todo = {}
  /\ Lagging(s)
  /\ sub' = [sub EXCEPT ![s].unread = Capacity]
  /\ UNCHANGED <<log, unsent, handler, channel, delivered, from, crashes>>

\* recv: Lagged; the receiver goes on at the oldest event the channel still has.
Lag(s) ==
  /\ sub[s].at = "live" /\ sub[s].todo = {}
  /\ Lagging(s)
  /\ sub' = [sub EXCEPT ![s].at = "lagged", ![s].unread = Capacity]
  /\ UNCHANGED <<log, unsent, handler, channel, delivered, from, crashes>>

\* Faulty form: the position moves on before the store is read.
RefillFromNewest(s) ==
  /\ sub[s].at = "lagged"
  /\ sub' = [sub EXCEPT ![s].at = "live", ![s].todo = WantedAfter(s, Last(channel) - 1)]
  /\ UNCHANGED <<log, unsent, handler, channel, delivered, from, crashes>>

\* What it missed is read from the store.
Refill(s) ==
  /\ sub[s].at = "lagged"
  /\ sub' = [sub EXCEPT ![s].at = "live", ![s].todo = WantedAfter(s, sub[s].last)]
  /\ UNCHANGED <<log, unsent, handler, channel, delivered, from, crashes>>

\* The client goes away, or a read of the store fails and the stream ends.
Disconnect(s) ==
  /\ sub[s].at # "off"
  /\ sub' = [sub EXCEPT ![s] = Closed]
  /\ UNCHANGED <<log, unsent, handler, channel, delivered, from, crashes>>

\* The process dies, and with it the channel and everybody on it.
Crash ==
  /\ crashes < MaxCrashes
  /\ crashes' = crashes + 1
  /\ unsent' = 0
  /\ handler' = [h \in Handlers |-> Idle]
  /\ channel' = <<>>
  /\ sub' = [s \in Subscribers |-> Closed]
  /\ UNCHANGED <<log, delivered, from>>

-----------------------------------------------------------------------------
Init ==
  /\ log = <<>> /\ unsent = 0 /\ channel = <<>>
  /\ handler = [h \in Handlers |-> Idle]
  /\ sub = [s \in Subscribers |-> Closed]
  /\ delivered = [s \in Subscribers |-> <<>>]
  /\ from = [s \in Subscribers |-> -1]
  /\ crashes = 0

StreamStep(s) == Replay(s) \/ YieldReplayed(s) \/ Receive(s) \/ Lag(s) \/ Refill(s)

Next ==
  \/ \E kind \in Kinds : TurnAppends(kind)
  \/ TurnSends
  \/ \E h \in Handlers : HandlerBegins(h) \/ HandlerAppends(h) \/ HandlerFails(h)
                         \/ HandlerPublishes(h) \/ HandlerSends(h)
  \/ \E s \in Subscribers : Subscribe(s) \/ StreamStep(s) \/ Disconnect(s)
  \/ Crash

Spec == Init /\ [][Next]_vars

\* A turn that has appended sends; a stream whose client reads is polled.
FairSpec ==
  Spec /\ WF_vars(TurnSends) /\ \A s \in Subscribers : WF_vars(StreamStep(s))

-----------------------------------------------------------------------------
(* Properties. *)

\* No client receives an event twice or out of order, over all its connections, lags
\* and replays, and whoever publishes what twice (thread_events).
DeliveredInOrder ==
  \A s \in Subscribers : \A i, j \in DOMAIN delivered[s] :
    i < j => delivered[s][i] < delivered[s][j]

\* A client that has received an event has received every wanted one before it.
NoGaps ==
  \A s \in Subscribers : \A i \in DOMAIN delivered[s] :
    \A n \in (from[s] + 1)..delivered[s][i] :
      Wanted(s, n) => \E j \in DOMAIN delivered[s] : delivered[s][j] = n

TurnsOnly == \A n \in DOMAIN log : log[n].by = "turn"

\* While only turns write to the thread, a crash between append and send, a channel
\* that overflows and a client that reconnects lose nothing (emit, thread_events).
TurnEventsHaveNoGaps == TurnsOnly => NoGaps

\* ... and every event a turn writes reaches each client that stays connected.
TurnEventsArrive ==
  \A s \in Subscribers : \A n \in 1..MaxEvents :
    (/\ sub[s].at # "off" /\ n \in DOMAIN log /\ n > from[s] /\ Wanted(s, n))
      ~> (\/ \E i \in DOMAIN delivered[s] : delivered[s][i] = n
          \/ sub[s].at = "off" \/ ~TurnsOnly)
=============================================================================
