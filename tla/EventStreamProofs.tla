-------------------------- MODULE EventStreamProofs --------------------------
(***************************************************************************)
(* Theorems about EventStream, for any number of subscribers, action       *)
(* handlers, events and crashes, any filters and any channel capacity.     *)
(***************************************************************************)
EXTENDS EventStream, SequenceTheorems, TLAPS

-----------------------------------------------------------------------------
(* Type correctness. *)

LogOK ==
  /\ log \in Seq([kind : Kinds, by : {"turn", "action"}])
  /\ unsent \in 0..Len(log)
  /\ crashes \in Nat

\* What handlers and streams have read, and where they are, in a thread of n events.
HandlerRecords(n) ==
  [at : {"idle", "working", "sending"}, after : 0..n, todo : Seq(1..n)]

StreamRecords(n) ==
  [at : {"off", "joined", "live", "lagged"}, unread : 0..(Capacity + 1), last : 0..n,
   todo : SUBSET (1..n)]

HandlerOK == handler \in [Handlers -> HandlerRecords(Len(log))]

ChannelOK == channel \in Seq(1..Len(log)) /\ Len(channel) <= Capacity

StreamOK == sub \in [Subscribers -> StreamRecords(Len(log))]

ClientOK ==
  /\ delivered \in [Subscribers -> Seq(1..Len(log))]
  /\ from \in [Subscribers -> (-1)..Len(log)]

TypeInv == LogOK /\ HandlerOK /\ ChannelOK /\ StreamOK /\ ClientOK

-----------------------------------------------------------------------------
(* Order and gaps. *)

\* A client has received nothing beyond the position of its stream, and in order; a stream
\* reads only what lies beyond its position.
InOrder(s) ==
  /\ from[s] = -1 => delivered[s] = <<>> /\ sub[s].at = "off"
  /\ sub[s].at # "off" => \A i \in DOMAIN delivered[s] : delivered[s][i] <= sub[s].last
  /\ \A n \in sub[s].todo : n > sub[s].last
  /\ \A i, j \in DOMAIN delivered[s] : i < j => delivered[s][i] < delivered[s][j]

\* A receiver that does not lag has its unread events on the channel.
ReadBound(s) ==
  /\ sub[s].unread <= Capacity => sub[s].unread <= Len(channel)
  /\ sub[s].unread > Capacity => Len(channel) = Capacity

OrderInv == \A s \in Subscribers : InOrder(s) /\ ReadBound(s)

Got(s, n) == \E j \in DOMAIN delivered[s] : delivered[s][j] = n

Unread(s) == {p \in DOMAIN channel : p > Len(channel) - sub[s].unread}

\* The client has every wanted event up to the position of its stream.
SeenAll(s) ==
  sub[s].at # "off" => \A n \in (from[s] + 1)..sub[s].last : Wanted(s, n) => Got(s, n)

\* What is left of a replay starts at the position of the stream.
TodoClosed(s) ==
  \A n \in sub[s].todo :
    Wanted(s, n) /\ \A m \in (sub[s].last + 1)..n : Wanted(s, m) => m \in sub[s].todo

\* An event beyond the replay is yet to be sent, or is unread on the channel before
\* anything that would move the stream past it.
Queued(s, m) ==
  \E p \in Unread(s) : channel[p] = m /\ \A q \in Unread(s) : channel[q] > m => p < q

Covered(s) ==
  sub[s].at = "live" /\ ~Lagging(s) =>
    \A m \in (sub[s].last + 1)..Len(log) :
      Wanted(s, m) /\ m \notin sub[s].todo => m = unsent \/ Queued(s, m)

NoGapsFor(s) ==
  \A i \in DOMAIN delivered[s] :
    \A n \in (from[s] + 1)..delivered[s][i] : Wanted(s, n) => Got(s, n)

GapInv ==
  TurnsOnly =>
    /\ unsent # 0 => unsent = Len(log)
    /\ \A s \in Subscribers : NoGapsFor(s) /\ SeenAll(s) /\ TodoClosed(s) /\ Covered(s)

-----------------------------------------------------------------------------
(* Every step keeps the types. *)

\* The parts imply the whole.
LEMMA TypeParts == TypeInv => TypeOK
<1> SUFFICES ASSUME TypeInv PROVE TypeOK
  OBVIOUS
<1>1. Len(log) \in Nat
  BY DEF TypeInv, LogOK
<1>2. handler \in [Handlers -> [at : {"idle", "working", "sending"}, after : Nat,
                                todo : Seq(Nat)]]
  BY <1>1 DEF TypeInv, HandlerOK, HandlerRecords
<1>3. sub \in [Subscribers -> [at : {"off", "joined", "live", "lagged"},
                               unread : 0..(Capacity + 1), last : Nat, todo : SUBSET Nat]]
  BY <1>1 DEF TypeInv, StreamOK, StreamRecords
<1>4. from \in [Subscribers -> Int]
  BY <1>1 DEF TypeInv, ClientOK
<1> QED BY <1>2, <1>3, <1>4 DEF TypeOK, TypeInv, LogOK, ChannelOK, ClientOK

\* The log only grows: by an event, or not at all.
LEMMA LogGrows ==
  ASSUME LogOK, [Next]_vars
  PROVE  /\ Len(log) \in Nat /\ Len(log') \in Nat /\ Len(log) <= Len(log')
         /\ log' \in Seq([kind : Kinds, by : {"turn", "action"}])
         /\ \A n \in 1..Len(log) : log'[n] = log[n]
<1>1. CASE UNCHANGED log
  BY <1>1 DEF LogOK
<1>2. CASE \E e \in [kind : Kinds, by : {"turn", "action"}] : log' = Append(log, e)
  BY <1>2, AppendProperties DEF LogOK
<1> QED
  BY <1>1, <1>2 DEF Next, StreamStep, vars, TurnAppends, TurnSends, HandlerBegins,
    HandlerAppends, HandlerFails, HandlerPublishes, HandlerSends, Subscribe, Replay,
    YieldReplayed, Receive, Lag, Refill, Disconnect, Crash, Kinds

\* A sequence of events of a log is one of every longer log.
LEMMA SeqGrows ==
  ASSUME NEW m \in Nat, NEW n \in Nat, m <= n, NEW q \in Seq(1..m)
  PROVE  q \in Seq(1..n)
OBVIOUS

\* What is sent is the last thing on the channel, and one event is dropped for it when the
\* channel is full.
LEMMA SendChannel ==
  ASSUME ChannelOK, LogOK, NEW n \in 1..Len(log), Send(n)
  PROVE  LET d == IF Len(channel) = Capacity THEN 1 ELSE 0
         IN  /\ channel' \in Seq(1..Len(log))
             /\ Len(channel') = Len(channel) + 1 - d
             /\ Len(channel') <= Capacity
             /\ \A i \in 1..(Len(channel) - d) : channel'[i] = channel[i + d]
             /\ channel'[Len(channel')] = n
<1> DEFINE d == IF Len(channel) = Capacity THEN 1 ELSE 0
           q == Append(channel, n)
<1>1. /\ q \in Seq(1..Len(log)) /\ Len(q) = Len(channel) + 1
      /\ \A i \in 1..Len(channel) : q[i] = channel[i]
      /\ q[Len(channel) + 1] = n
  BY AppendProperties DEF ChannelOK
<1>2. d \in {0, 1} /\ 1 + d <= Len(channel) + 1 /\ Len(channel) \in Nat
      /\ Len(channel) + 1 - d <= Capacity
  BY StreamAssumption DEF ChannelOK
<1>3. channel' = SubSeq(q, 1 + d, Len(channel) + 1)
  BY DEF Send
<1>4. /\ channel' \in Seq(1..Len(log))
      /\ Len(channel') = Len(channel) + 1 - d
      /\ \A i \in 1..(Len(channel) + 1 - d) : channel'[i] = q[i + d]
  <2> HIDE DEF d, q
  <2> DEFINE E == 1..Len(log)
             m == 1 + d
             k == Len(channel) + 1
  <2>1. m \in Int /\ k \in Int /\ m <= k /\ \A i \in m..k : q[i] \in E
    BY <1>1, <1>2
  <2> HIDE DEF E, m, k
  <2>2. /\ SubSeq(q, m, k) \in Seq(E)
        /\ Len(SubSeq(q, m, k)) = k - m + 1
        /\ \A i \in 1..(k - m + 1) : SubSeq(q, m, k)[i] = q[m + i - 1]
    BY <2>1, SubSeqProperties
  <2>3. k - m + 1 = Len(channel) + 1 - d /\ \A i \in Int : m + i - 1 = i + d
    BY <1>2 DEF m, k
  <2>4. channel' = SubSeq(q, m, k)
    BY <1>3 DEF m, k
  <2>5. \A i \in 1..(Len(channel) + 1 - d) : channel'[i] = q[i + d]
    <3> TAKE i \in 1..(Len(channel) + 1 - d)
    <3>1. i \in Int /\ i \in 1..(k - m + 1)
      BY <1>2, <2>3
    <3>2. channel'[i] = q[m + i - 1]
      BY <2>2, <2>4, <3>1
    <3> QED BY <2>3, <3>1, <3>2
  <2> QED BY <2>2, <2>3, <2>4, <2>5 DEF E
<1>5. \A i \in 1..(Len(channel) - d) : channel'[i] = channel[i + d]
  <2> HIDE DEF d, q
  <2> TAKE i \in 1..(Len(channel) - d)
  <2>1. i \in 1..(Len(channel) + 1 - d) /\ i + d \in 1..Len(channel)
    BY <1>2
  <2>2. channel'[i] = q[i + d]
    BY <1>4, <2>1
  <2>3. q[i + d] = channel[i + d]
    BY <1>1, <2>1
  <2> QED BY <2>2, <2>3
<1>6. channel'[Len(channel')] = n
  <2> HIDE DEF d, q
  <2>1. Len(channel') \in 1..(Len(channel) + 1 - d) /\ Len(channel') + d = Len(channel) + 1
    BY <1>2, <1>4
  <2> QED BY <1>1, <1>4, <2>1
<1> QED BY <1>2, <1>4, <1>5, <1>6

\* What is an event of a thread stays one.
LEMMA RecordsGrow ==
  ASSUME NEW m \in Nat, NEW n \in Nat, m <= n
  PROVE  HandlerRecords(m) \subseteq HandlerRecords(n) /\ StreamRecords(m) \subseteq StreamRecords(n)
<1>1. Seq(1..m) \subseteq Seq(1..n) /\ 0..m \subseteq 0..n /\ 1..m \subseteq 1..n
  BY SeqGrows
<1> QED BY <1>1 DEF HandlerRecords, StreamRecords

\* What a writer sends is an event of the thread.
LEMMA SentIsEvent ==
  ASSUME TypeInv
  PROVE  /\ TurnSends => unsent \in 1..Len(log) /\ Send(unsent) /\ UNCHANGED log
         /\ \A h \in Handlers :
              HandlerSends(h) =>
                /\ UNCHANGED log
                /\ \/ UNCHANGED <<channel, sub>>
                   \/ /\ Head(handler[h].todo) \in 1..Len(log)
                      /\ Send(Head(handler[h].todo))
<1>1. TurnSends => unsent \in 1..Len(log) /\ Send(unsent) /\ UNCHANGED log
  BY DEF TypeInv, LogOK, TurnSends
<1>2. ASSUME NEW h \in Handlers, HandlerSends(h)
      PROVE  /\ UNCHANGED log
             /\ \/ UNCHANGED <<channel, sub>>
                \/ /\ Head(handler[h].todo) \in 1..Len(log)
                   /\ Send(Head(handler[h].todo))
  <2>1. handler[h].todo \in Seq(1..Len(log))
    BY DEF TypeInv, HandlerOK, HandlerRecords
  <2>2. handler[h].todo # <<>> => Head(handler[h].todo) \in 1..Len(log)
    BY <2>1
  <2> QED BY <1>2, <2>2 DEF HandlerSends
<1> QED BY <1>1, <1>2

\* The steps that write the channel and the streams.
LEMMA SendFrame ==
  ASSUME TypeInv, [Next]_vars
  PROVE  \/ UNCHANGED channel
         \/ Crash
         \/ UNCHANGED log /\ \E n \in 1..Len(log) : Send(n)
BY SentIsEvent DEF Next, StreamStep, vars, TurnAppends, HandlerBegins, HandlerAppends,
  HandlerFails, HandlerPublishes, Subscribe, Replay, YieldReplayed, Receive, Lag, Refill,
  Disconnect

\* A stream is touched by a send, by its own steps, or by a crash.
LEMMA StreamFrame ==
  ASSUME TypeInv, [Next]_vars
  PROVE  \/ UNCHANGED sub
         \/ UNCHANGED log /\ \E n \in 1..Len(log) : Send(n)
         \/ \E s \in Subscribers : Subscribe(s) \/ StreamStep(s) \/ Disconnect(s)
         \/ Crash
BY SentIsEvent DEF Next, vars, TurnAppends, HandlerBegins, HandlerAppends,
  HandlerFails, HandlerPublishes

\* The log and what the turn has yet to send.
LEMMA LogTyped ==
  ASSUME LogOK, [Next]_vars
  PROVE  LogOK'
<1>1. /\ Len(log) \in Nat /\ Len(log') \in Nat /\ Len(log) <= Len(log')
      /\ log' \in Seq([kind : Kinds, by : {"turn", "action"}])
  BY LogGrows
<1>2. unsent' \in 0..Len(log')
  <2>1. ASSUME NEW kind \in Kinds, TurnAppends(kind) PROVE unsent' \in 0..Len(log')
    BY <2>1 DEF TurnAppends, LogOK, Kinds
  <2>2. CASE unsent' = 0
    BY <1>1, <2>2
  <2>3. CASE UNCHANGED unsent
    BY <1>1, <2>3 DEF LogOK
  <2> QED
    BY <2>1, <2>2, <2>3 DEF Next, StreamStep, vars, TurnSends, HandlerBegins,
      HandlerAppends, HandlerFails, HandlerPublishes, HandlerSends, Subscribe, Replay,
      YieldReplayed, Receive, Lag, Refill, Disconnect, Crash
<1>3. crashes' \in Nat
  <2>1. UNCHANGED crashes \/ crashes' = crashes + 1
    BY DEF Next, StreamStep, vars, TurnAppends, TurnSends, HandlerBegins, HandlerAppends,
      HandlerFails, HandlerPublishes, HandlerSends, Subscribe, Replay, YieldReplayed, Receive,
      Lag, Refill, Disconnect, Crash
  <2> QED BY <2>1 DEF LogOK
<1> QED BY <1>1, <1>2, <1>3 DEF LogOK

\* The action handlers.
LEMMA HandlerTyped ==
  ASSUME TypeInv, [Next]_vars
  PROVE  HandlerOK'
<1> DEFINE R == HandlerRecords(Len(log'))
<1>1. handler \in [Handlers -> R] /\ Len(log) \in Nat /\ Len(log') \in Nat
  BY LogGrows, RecordsGrow DEF TypeInv, HandlerOK
<1>2. ASSUME UNCHANGED handler PROVE HandlerOK'
  BY <1>1, <1>2 DEF HandlerOK
<1>3. ASSUME NEW h \in Handlers, HandlerBegins(h) PROVE HandlerOK'
  BY <1>1, <1>3, EmptySeq DEF HandlerBegins, HandlerOK, HandlerRecords
<1>4. ASSUME NEW h \in Handlers, HandlerFails(h) PROVE HandlerOK'
  BY <1>1, <1>4 DEF HandlerFails, HandlerOK, HandlerRecords, Idle
<1>5. ASSUME NEW h \in Handlers, HandlerPublishes(h) PROVE HandlerOK'
  <2>1. handler[h].after \in 0..Len(log)
    BY DEF TypeInv, HandlerOK, HandlerRecords
  <2>2. EventsAfter(handler[h].after) \in Seq(1..Len(log))
    BY <1>1, <2>1 DEF EventsAfter
  <2>3. UNCHANGED log /\ handler[h] \in HandlerRecords(Len(log))
    BY <1>5 DEF HandlerPublishes, TypeInv, HandlerOK
  <2> DEFINE rec == [handler[h] EXCEPT !.at = "sending", !.todo = EventsAfter(handler[h].after)]
  <2>4. rec \in HandlerRecords(Len(log))
    BY <2>2, <2>3 DEF HandlerRecords
  <2>5. handler' = [handler EXCEPT ![h] = rec]
    BY <1>5 DEF HandlerPublishes
  <2> HIDE DEF rec
  <2> QED BY <1>1, <2>3, <2>4, <2>5 DEF HandlerOK
<1>6. ASSUME NEW h \in Handlers, HandlerSends(h) PROVE HandlerOK'
  <2>1. handler[h].todo \in Seq(1..Len(log))
    BY DEF TypeInv, HandlerOK, HandlerRecords
  <2>2. CASE handler[h].todo = <<>>
    <3>1. log' = log /\ handler' = [handler EXCEPT ![h] = Idle]
      BY <1>6, <2>2 DEF HandlerSends
    <3> QED BY <1>1, <3>1 DEF HandlerOK, HandlerRecords, Idle
  <2>3. CASE handler[h].todo # <<>>
    <3>1. Tail(handler[h].todo) \in Seq(1..Len(log))
      BY <2>1, <2>3, HeadTailProperties
    <3>2. log' = log /\ handler' = [handler EXCEPT ![h].todo = Tail(@)]
      BY <1>6, <2>3 DEF HandlerSends
    <3> QED BY <1>1, <3>1, <3>2 DEF HandlerOK, HandlerRecords
  <2> QED BY <2>2, <2>3
<1>7. CASE Crash
  BY <1>1, <1>7 DEF Crash, HandlerOK, HandlerRecords, Idle
<1> QED
  BY <1>2, <1>3, <1>4, <1>5, <1>6, <1>7 DEF Next, StreamStep, vars, TurnAppends, TurnSends,
    HandlerAppends, Subscribe, Replay, YieldReplayed, Receive, Lag, Refill, Disconnect

\* The channel.
LEMMA ChannelTyped ==
  ASSUME TypeInv, [Next]_vars
  PROVE  ChannelOK'
<1>1. CASE UNCHANGED channel
  BY <1>1, LogGrows, SeqGrows DEF TypeInv, ChannelOK
<1>2. CASE Crash
  BY <1>2, StreamAssumption DEF Crash, ChannelOK
<1>3. ASSUME UNCHANGED log, NEW n \in 1..Len(log), Send(n) PROVE ChannelOK'
  BY <1>3, SendChannel DEF TypeInv, ChannelOK
<1> QED BY <1>1, <1>2, <1>3, SendFrame

\* Giving a stream another state or backlog.
LEMMA StreamUpdate ==
  ASSUME NEW n \in Nat, Capacity \in Nat, NEW r \in StreamRecords(n),
         NEW a \in {"off", "joined", "live", "lagged"}, NEW u \in 0..(Capacity + 1)
  PROVE  [r EXCEPT !.at = a, !.unread = u] \in StreamRecords(n)
BY DEF StreamRecords

\* Giving a stream another backlog only.
LEMMA BacklogUpdate ==
  ASSUME NEW n \in Nat, Capacity \in Nat, NEW r \in StreamRecords(n), NEW u \in 0..(Capacity + 1)
  PROVE  [r EXCEPT !.unread = u] \in StreamRecords(n)
BY DEF StreamRecords

\* The event a receiver that does not lag reads next.
LEMMA NextUnread ==
  ASSUME TypeInv, NEW s \in Subscribers, ReadBound(s), Receive(s)
  PROVE  /\ channel[Len(channel) - sub[s].unread + 1] \in 1..Len(log)
         /\ Len(channel) - sub[s].unread + 1 \in Unread(s)
         /\ \A p \in Unread(s) : Len(channel) - sub[s].unread + 1 <= p
<1>1. sub[s].unread \in 1..Capacity
  BY StreamAssumption DEF Receive, Lagging, TypeInv, StreamOK, StreamRecords
<1>2. channel \in Seq(1..Len(log)) /\ sub[s].unread <= Len(channel)
  BY <1>1, StreamAssumption DEF TypeInv, ChannelOK, ReadBound
<1>3. Len(channel) - sub[s].unread + 1 \in DOMAIN channel
  BY <1>1, <1>2, StreamAssumption
<1>4. Len(channel) - sub[s].unread + 1 \in Unread(s)
  BY <1>1, <1>2, <1>3, StreamAssumption DEF Unread
<1>5. \A p \in Unread(s) : Len(channel) - sub[s].unread + 1 <= p
  BY <1>1, <1>2, StreamAssumption DEF Unread
<1> QED BY <1>2, <1>3, <1>4, <1>5

\* The streams.
LEMMA StreamTyped ==
  ASSUME TypeInv, \A s \in Subscribers : ReadBound(s), [Next]_vars
  PROVE  StreamOK'
<1> DEFINE R == StreamRecords(Len(log'))
<1>1. sub \in [Subscribers -> R] /\ Len(log) \in Nat /\ Len(log') \in Nat /\ Capacity \in Nat
  BY LogGrows, RecordsGrow, StreamAssumption DEF TypeInv, StreamOK
<1>2. CASE UNCHANGED sub
  BY <1>1, <1>2 DEF StreamOK
<1>3. ASSUME NEW n \in 1..Len(log), Send(n) PROVE StreamOK'
  <2>1. ASSUME NEW s \in Subscribers PROVE sub'[s] \in R
    <3>1. CASE sub'[s] = sub[s]
      BY <1>1, <3>1
    <3>2. CASE sub[s].unread <= Capacity /\ sub'[s] = [sub[s] EXCEPT !.unread = @ + 1]
      <4>1. sub[s] \in R /\ sub[s].unread + 1 \in 0..(Capacity + 1)
        BY <1>1, <3>2 DEF StreamRecords
      <4>2. sub'[s] = [sub[s] EXCEPT !.unread = sub[s].unread + 1]
        BY <3>2
      <4> QED BY <1>1, <4>1, <4>2, BacklogUpdate
    <3>3. sub'[s] = IF sub[s].at = "off" \/ sub[s].unread > Capacity THEN sub[s]
                    ELSE [sub[s] EXCEPT !.unread = @ + 1]
      BY <1>3 DEF Send
    <3>4. sub[s].unread \in Int
      BY <1>1 DEF StreamRecords
    <3> QED BY <1>1, <3>1, <3>2, <3>3, <3>4
  <2>2. sub' = [s \in Subscribers |-> sub'[s]]
    BY <1>3 DEF Send
  <2> HIDE DEF R
  <2>3. sub' \in [Subscribers -> R]
    BY <2>1, <2>2
  <2> QED BY <2>3 DEF StreamOK, R
<1>4. ASSUME NEW s \in Subscribers, NEW r \in R, sub' = [sub EXCEPT ![s] = r] PROVE StreamOK'
  <2> HIDE DEF R
  <2>1. sub' \in [Subscribers -> R]
    BY <1>1, <1>4
  <2> QED BY <2>1 DEF StreamOK, R
<1>5. ASSUME NEW s \in Subscribers, Subscribe(s) PROVE StreamOK'
  <2>1. After(s) \in 0..Len(log)
    <3>1. CASE delivered[s] = <<>>
      BY <3>1, <1>1, <1>5 DEF After, Subscribe, TypeInv, ClientOK
    <3>2. CASE delivered[s] # <<>>
      BY <3>2, <1>1 DEF After, Last, TypeInv, ClientOK
    <3> QED BY <3>1, <3>2
  <2>2. sub' = [sub EXCEPT ![s] = [at |-> "joined", unread |-> 0, last |-> After(s),
                                   todo |-> {}]] /\ UNCHANGED log
    BY <1>5 DEF Subscribe
  <2>3. [at |-> "joined", unread |-> 0, last |-> After(s), todo |-> {}] \in R
    BY <1>1, <2>1, <2>2 DEF StreamRecords
  <2> QED BY <1>4, <2>2, <2>3
<1>6. ASSUME NEW s \in Subscribers, Replay(s) \/ Refill(s) PROVE StreamOK'
  <2>1. /\ sub' = [sub EXCEPT ![s] = [sub[s] EXCEPT !.at = "live",
                                                    !.todo = WantedAfter(s, sub[s].last)]]
        /\ UNCHANGED log
    BY <1>6 DEF Replay, Refill
  <2>2. sub[s] \in R /\ WantedAfter(s, sub[s].last) \in SUBSET (1..Len(log'))
    BY <1>1, <2>1 DEF WantedAfter, StreamRecords
  <2>3. [sub[s] EXCEPT !.at = "live", !.todo = WantedAfter(s, sub[s].last)] \in R
    BY <1>1, <2>2 DEF StreamRecords
  <2> QED BY <1>4, <2>1, <2>3
<1>7. ASSUME NEW s \in Subscribers, YieldReplayed(s) PROVE StreamOK'
  <2>1. PICK n \in sub[s].todo :
          /\ sub' = [sub EXCEPT ![s] = [sub[s] EXCEPT !.todo = sub[s].todo \ {n},
                                          !.last = IF n > sub[s].last THEN n ELSE sub[s].last]]
          /\ UNCHANGED log
    BY <1>7 DEF YieldReplayed
  <2>2. /\ sub[s] \in R /\ sub[s].todo \ {n} \in SUBSET (1..Len(log'))
        /\ (IF n > sub[s].last THEN n ELSE sub[s].last) \in 0..Len(log')
    BY <1>1, <2>1 DEF StreamRecords
  <2>3. [sub[s] EXCEPT !.todo = sub[s].todo \ {n},
                       !.last = IF n > sub[s].last THEN n ELSE sub[s].last] \in R
    BY <1>1, <2>2 DEF StreamRecords
  <2> QED BY <1>4, <2>1, <2>3
<1>8. ASSUME NEW s \in Subscribers, Receive(s) PROVE StreamOK'
  <2> DEFINE n == channel[Len(channel) - sub[s].unread + 1]
  <2>1. n \in 1..Len(log)
    BY <1>8, NextUnread
  <2>2. /\ sub' = [sub EXCEPT ![s] = [sub[s] EXCEPT !.unread = sub[s].unread - 1,
                                        !.last = IF n > sub[s].last THEN n ELSE sub[s].last]]
        /\ UNCHANGED log
    BY <1>8 DEF Receive
  <2> HIDE DEF n
  <2>3. /\ sub[s] \in R /\ sub[s].unread - 1 \in 0..(Capacity + 1)
        /\ (IF n > sub[s].last THEN n ELSE sub[s].last) \in 0..Len(log')
    BY <1>1, <1>8, <2>1, <2>2 DEF Receive, StreamRecords
  <2>4. [sub[s] EXCEPT !.unread = sub[s].unread - 1,
                       !.last = IF n > sub[s].last THEN n ELSE sub[s].last] \in R
    BY <1>1, <2>3 DEF StreamRecords
  <2> QED BY <1>4, <2>2, <2>4
<1>11. ASSUME NEW s \in Subscribers, Lag(s) PROVE StreamOK'
  <2>1. sub' = [sub EXCEPT ![s] = [sub[s] EXCEPT !.at = "lagged", !.unread = Capacity]]
        /\ UNCHANGED log
    BY <1>11 DEF Lag
  <2>2. sub[s] \in R /\ Capacity \in 0..(Capacity + 1)
    BY <1>1
  <2>3. [sub[s] EXCEPT !.at = "lagged", !.unread = Capacity] \in R
    BY <1>1, <2>2, StreamUpdate
  <2> QED BY <1>4, <2>1, <2>3
<1>9. ASSUME NEW s \in Subscribers, Disconnect(s) PROVE StreamOK'
  BY <1>1, <1>9 DEF Disconnect, Closed, StreamOK, StreamRecords
<1>10. CASE Crash
  BY <1>1, <1>10 DEF Crash, Closed, StreamOK, StreamRecords
<1> QED
  BY <1>2, <1>3, <1>5, <1>6, <1>7, <1>8, <1>9, <1>10, <1>11, StreamFrame DEF StreamStep

\* What clients have received, and where they started.
LEMMA ClientTyped ==
  ASSUME TypeInv, \A s \in Subscribers : ReadBound(s), [Next]_vars
  PROVE  ClientOK'
<1>1. /\ delivered \in [Subscribers -> Seq(1..Len(log'))]
      /\ from \in [Subscribers -> (-1)..Len(log')]
      /\ Len(log) \in Nat /\ Len(log') \in Nat /\ Len(log) <= Len(log')
  BY LogGrows, SeqGrows DEF TypeInv, ClientOK
<1>2. from' \in [Subscribers -> (-1)..Len(log')]
  <2>1. ASSUME NEW s \in Subscribers, Subscribe(s) PROVE from' \in [Subscribers -> (-1)..Len(log')]
    BY <1>1, <2>1 DEF Subscribe
  <2> QED
    BY <1>1, <2>1 DEF Next, StreamStep, vars, TurnAppends, TurnSends, HandlerBegins,
      HandlerAppends, HandlerFails, HandlerPublishes, HandlerSends, Replay,
      YieldReplayed, Receive, Lag, Refill, Disconnect, Crash
<1>3. delivered' \in [Subscribers -> Seq(1..Len(log'))]
  <2>1. ASSUME NEW s \in Subscribers, NEW n \in 1..Len(log), Deliver(s, n)
        PROVE  delivered' \in [Subscribers -> Seq(1..Len(log'))]
    BY <1>1, <2>1, AppendProperties DEF Deliver
  <2>2. ASSUME NEW s \in Subscribers, YieldReplayed(s)
        PROVE  \E n \in 1..Len(log) : Deliver(s, n)
    BY <2>2 DEF YieldReplayed, TypeInv, StreamOK, StreamRecords
  <2>3. ASSUME NEW s \in Subscribers, Receive(s)
        PROVE  UNCHANGED delivered \/ \E n \in 1..Len(log) : Deliver(s, n)
    <3>1. channel[Len(channel) - sub[s].unread + 1] \in 1..Len(log)
      BY <2>3, NextUnread
    <3> QED BY <2>3, <3>1 DEF Receive
  <2> QED
    BY <1>1, <2>1, <2>2, <2>3 DEF Next, StreamStep, vars, TurnAppends, TurnSends,
      HandlerBegins, HandlerAppends, HandlerFails, HandlerPublishes, HandlerSends, Subscribe,
      Replay, Lag, Refill, Disconnect, Crash
<1> QED BY <1>2, <1>3 DEF ClientOK

-----------------------------------------------------------------------------
(* What a step does to one stream and its client. *)

Quiet(s) == sub'[s] = sub[s] /\ delivered'[s] = delivered[s] /\ from'[s] = from[s]

\* A step of another client, of a writer that sends, of this client, or of the process.
LEMMA StepOf ==
  ASSUME TypeInv, [Next]_vars, NEW s \in Subscribers
  PROVE  \/ Quiet(s) /\ UNCHANGED channel /\ ~TurnSends /\ ~Crash
         \/ /\ UNCHANGED <<log, delivered, from>>
            /\ \E n \in 1..Len(log) : Send(n) /\ (unsent' = unsent \/ n = unsent)
         \/ Subscribe(s) \/ StreamStep(s) \/ Disconnect(s)
         \/ Crash
<1>1. ASSUME NEW r \in Subscribers, r # s, Subscribe(r) \/ StreamStep(r) \/ Disconnect(r)
      PROVE  Quiet(s) /\ UNCHANGED channel
  BY <1>1 DEF Subscribe, StreamStep, Replay, YieldReplayed, Receive, Lag, Refill, Disconnect,
    Deliver, Quiet, TypeInv, StreamOK, ClientOK
<1>2. CASE TurnSends
  BY <1>2, SentIsEvent DEF TurnSends
<1>3. ASSUME NEW h \in Handlers, HandlerSends(h)
      PROVE  /\ UNCHANGED <<log, delivered, from, unsent>>
             /\ UNCHANGED <<channel, sub>> \/ \E n \in 1..Len(log) : Send(n)
  BY <1>3, SentIsEvent DEF HandlerSends
<1>4. CASE \/ \E kind \in Kinds : TurnAppends(kind)
           \/ \E h \in Handlers : HandlerBegins(h) \/ HandlerAppends(h) \/ HandlerFails(h)
                                  \/ HandlerPublishes(h)
           \/ UNCHANGED vars
  <2>1. Quiet(s) /\ UNCHANGED channel
    BY <1>4 DEF TurnAppends, HandlerBegins, HandlerAppends, HandlerFails, HandlerPublishes,
      vars, Quiet
  <2> QED BY <1>2, <2>1
<1>5. CASE ~TurnSends /\ ~Crash
  BY <1>1, <1>3, <1>4, <1>5 DEF Next, Quiet
<1> QED BY <1>2, <1>5

\* A send adds to the backlog of the streams that are open, and to nothing else of them.
LEMMA SendTo ==
  ASSUME TypeInv, NEW n, Send(n), NEW s \in Subscribers
  PROVE  /\ sub'[s].at = sub[s].at /\ sub'[s].last = sub[s].last /\ sub'[s].todo = sub[s].todo
         /\ sub'[s].unread = IF sub[s].at = "off" \/ sub[s].unread > Capacity
                               THEN sub[s].unread ELSE sub[s].unread + 1
<1>1. sub[s] \in StreamRecords(Len(log))
  BY DEF TypeInv, StreamOK
<1> QED BY <1>1 DEF Send, StreamRecords

\* A client that subscribes goes on after what it received last.
LEMMA SubscribeTo ==
  ASSUME TypeInv, NEW s \in Subscribers, Subscribe(s)
  PROVE  /\ sub[s].at = "off"
         /\ from'[s] \in 0..Len(log) /\ (from[s] # -1 => from'[s] = from[s])
         /\ sub'[s].at = "joined" /\ sub'[s].unread = 0 /\ sub'[s].todo = {}
         /\ sub'[s].last = IF delivered[s] = <<>> THEN from'[s]
                           ELSE delivered[s][Len(delivered[s])]
         /\ UNCHANGED <<log, unsent, channel, delivered>>
<1>1. /\ sub[s].at = "off" /\ UNCHANGED <<log, unsent, channel, delivered>>
      /\ from'[s] \in 0..Len(log) /\ (from[s] # -1 => from'[s] = from[s])
      /\ sub'[s] = [at |-> "joined", unread |-> 0, last |-> After(s), todo |-> {}]
  BY DEF Subscribe, TypeInv, StreamOK, ClientOK, LogOK
<1>2. After(s) = IF delivered[s] = <<>> THEN from'[s] ELSE delivered[s][Len(delivered[s])]
  BY DEF After, Last
<1> QED BY <1>1, <1>2

\* A replay and a refill read the same.
LEMMA ReadTo ==
  ASSUME TypeInv, NEW s \in Subscribers, Replay(s) \/ Refill(s)
  PROVE  /\ sub[s].at # "off"
         /\ sub'[s].at = "live" /\ sub'[s].last = sub[s].last
         /\ sub'[s].unread = sub[s].unread
         /\ sub'[s].todo = WantedAfter(s, sub[s].last)
         /\ UNCHANGED <<log, unsent, channel, delivered, from>>
<1>1. sub[s] \in StreamRecords(Len(log))
  BY DEF TypeInv, StreamOK
<1> QED BY <1>1 DEF Replay, Refill, StreamRecords, TypeInv, StreamOK

\* What goes out is the next thing the client has.
LEMMA YieldTo ==
  ASSUME TypeInv, NEW s \in Subscribers, InOrder(s), YieldReplayed(s)
  PROVE  \E n \in sub[s].todo :
           /\ \A m \in sub[s].todo : n <= m
           /\ n \in 1..Len(log) /\ n > sub[s].last
           /\ sub[s].at = "live" /\ sub'[s].at = "live"
           /\ sub'[s].last = n /\ sub'[s].todo = sub[s].todo \ {n}
           /\ sub'[s].unread = sub[s].unread
           /\ delivered'[s] = Append(delivered[s], n)
           /\ UNCHANGED <<log, unsent, channel, from>>
<1>1. sub[s] \in StreamRecords(Len(log))
  BY DEF TypeInv, StreamOK
<1>2. PICK n \in sub[s].todo :
        /\ \A m \in sub[s].todo : n <= m
        /\ Deliver(s, n)
        /\ sub' = [sub EXCEPT ![s].todo = @ \ {n}, ![s].last = IF n > @ THEN n ELSE @]
        /\ sub[s].at = "live" /\ UNCHANGED <<log, unsent, channel, from>>
  BY DEF YieldReplayed
<1>3. n \in 1..Len(log) /\ n > sub[s].last
  BY <1>1 DEF InOrder, StreamRecords
<1>4. /\ sub'[s].at = "live" /\ sub'[s].last = n /\ sub'[s].todo = sub[s].todo \ {n}
      /\ sub'[s].unread = sub[s].unread
  BY <1>1, <1>2, <1>3 DEF StreamRecords, TypeInv, StreamOK
<1>5. delivered'[s] = Append(delivered[s], n)
  BY <1>2 DEF Deliver, TypeInv, ClientOK
<1> QED BY <1>2, <1>3, <1>4, <1>5

\* An event of the channel goes out when it is newer than what the client has.
LEMMA ReceiveTo ==
  ASSUME TypeInv, NEW s \in Subscribers, ReadBound(s), Receive(s)
  PROVE  LET n == channel[Len(channel) - sub[s].unread + 1]
         IN  /\ n \in 1..Len(log)
             /\ sub[s].at = "live" /\ sub'[s].at = "live"
             /\ sub[s].todo = {} /\ sub'[s].todo = {}
             /\ sub[s].unread \in 1..Capacity /\ sub'[s].unread = sub[s].unread - 1
             /\ sub'[s].last = IF n > sub[s].last THEN n ELSE sub[s].last
             /\ delivered'[s] = IF n > sub[s].last /\ Wanted(s, n) THEN Append(delivered[s], n)
                                ELSE delivered[s]
             /\ UNCHANGED <<log, unsent, channel, from>>
<1> DEFINE n == channel[Len(channel) - sub[s].unread + 1]
<1>1. sub[s] \in StreamRecords(Len(log)) /\ n \in 1..Len(log)
  BY NextUnread DEF TypeInv, StreamOK
<1>2. /\ sub' = [sub EXCEPT ![s].unread = @ - 1, ![s].last = IF n > @ THEN n ELSE @]
      /\ IF n > sub[s].last /\ Wanted(s, n) THEN Deliver(s, n) ELSE UNCHANGED delivered
      /\ sub[s].at = "live" /\ sub[s].todo = {} /\ sub[s].unread > 0 /\ ~Lagging(s)
      /\ UNCHANGED <<log, unsent, channel, from>>
  BY DEF Receive
<1> HIDE DEF n
<1>3. /\ sub'[s].at = "live" /\ sub'[s].todo = {}
      /\ sub[s].unread \in 1..Capacity /\ sub'[s].unread = sub[s].unread - 1
      /\ sub'[s].last = IF n > sub[s].last THEN n ELSE sub[s].last
  BY <1>1, <1>2, StreamAssumption DEF StreamRecords, TypeInv, StreamOK, Lagging
<1>4. delivered'[s] = IF n > sub[s].last /\ Wanted(s, n) THEN Append(delivered[s], n)
                      ELSE delivered[s]
  BY <1>2 DEF Deliver, TypeInv, ClientOK
<1> QED BY <1>1, <1>2, <1>3, <1>4 DEF n

\* A receiver that lags goes on at the oldest event of the channel.
LEMMA LagTo ==
  ASSUME TypeInv, NEW s \in Subscribers, Lag(s)
  PROVE  /\ sub[s].at = "live" /\ sub'[s].at = "lagged" /\ Lagging(s)
         /\ sub'[s].last = sub[s].last /\ sub[s].todo = {} /\ sub'[s].todo = {}
         /\ sub'[s].unread = Capacity
         /\ UNCHANGED <<log, unsent, channel, delivered, from>>
<1>1. sub[s] \in StreamRecords(Len(log))
  BY DEF TypeInv, StreamOK
<1> QED BY <1>1 DEF Lag, StreamRecords, TypeInv, StreamOK

\* An event newer than the position of the stream keeps the order.
LEMMA AppendNewer ==
  ASSUME TypeInv, NEW s \in Subscribers, InOrder(s), sub[s].at # "off",
         NEW n \in 1..Len(log), n > sub[s].last, delivered'[s] = Append(delivered[s], n)
  PROVE  /\ \A i \in DOMAIN delivered'[s] : delivered'[s][i] <= n
         /\ \A i, j \in DOMAIN delivered'[s] : i < j => delivered'[s][i] < delivered'[s][j]
         /\ \A m : Got(s, m)' <=> Got(s, m) \/ m = n
<1> DEFINE d == delivered[s]
           e == delivered'[s]
<1>1. d \in Seq(1..Len(log)) /\ sub[s].last \in Nat
  BY DEF TypeInv, ClientOK, StreamOK, StreamRecords, LogOK
<1>2. /\ Len(d) \in Nat /\ DOMAIN d = 1..Len(d) /\ DOMAIN e = 1..(Len(d) + 1)
      /\ \A i \in 1..Len(d) : e[i] = d[i] /\ d[i] \in Nat /\ d[i] <= sub[s].last
      /\ e[Len(d) + 1] = n
  BY <1>1, AppendProperties DEF InOrder
<1>3. \A i \in DOMAIN d, j \in DOMAIN d : i < j => d[i] < d[j]
  BY DEF InOrder
<1> HIDE DEF d, e
<1>4. \A i \in DOMAIN e : i \in 1..Len(d) \/ i = Len(d) + 1
  BY <1>2
<1>5. \A m : (\E j \in DOMAIN e : e[j] = m) <=> (\E j \in DOMAIN d : d[j] = m) \/ m = n
  <2> TAKE m
  <2>1. Len(d) + 1 \in DOMAIN e /\ \A i \in 1..Len(d) : i \in DOMAIN e
    BY <1>2
  <2>2. ASSUME NEW j \in DOMAIN e, e[j] = m PROVE (\E i \in DOMAIN d : d[i] = m) \/ m = n
    BY <1>2, <1>4, <2>2
  <2>3. ASSUME NEW j \in DOMAIN d, d[j] = m PROVE \E i \in DOMAIN e : e[i] = m
    BY <1>2, <2>1, <2>3
  <2> QED BY <1>2, <2>1, <2>2, <2>3
<1>6. ASSUME NEW i \in DOMAIN e PROVE e[i] <= n
  <2>1. CASE i \in 1..Len(d)
    BY <1>1, <1>2, <2>1
  <2>2. CASE i = Len(d) + 1
    BY <1>2, <2>2
  <2> QED BY <1>4, <2>1, <2>2
<1>7. ASSUME NEW i \in DOMAIN e, NEW j \in DOMAIN e, i < j PROVE e[i] < e[j]
  <2>1. i \in 1..Len(d)
    BY <1>2, <1>7
  <2>2. CASE j \in 1..Len(d)
    BY <1>2, <1>3, <1>7, <2>1, <2>2
  <2>3. CASE j = Len(d) + 1
    BY <1>1, <1>2, <2>1, <2>3
  <2> QED BY <1>4, <2>2, <2>3
<1> QED BY <1>5, <1>6, <1>7 DEF Got, d, e

-----------------------------------------------------------------------------
(* Order. *)

\* A step keeps what a client receives in order.
LEMMA InOrderKept ==
  ASSUME TypeInv, OrderInv, [Next]_vars, NEW s \in Subscribers
  PROVE  InOrder(s)'
<1>0. InOrder(s) /\ ReadBound(s)
  BY DEF OrderInv
<1>1. CASE Quiet(s)
  BY <1>0, <1>1 DEF Quiet, InOrder
<1>2. ASSUME UNCHANGED <<log, delivered, from>>, NEW n, Send(n) PROVE InOrder(s)'
  BY <1>0, <1>2, SendTo DEF InOrder
<1>3. CASE Subscribe(s)
  <2> DEFINE d == delivered[s]
  <2>1. d \in Seq(1..Len(log)) /\ \A i, j \in DOMAIN d : i < j => d[i] < d[j]
    BY <1>0 DEF InOrder, TypeInv, ClientOK
  <2>2. d # <<>> => \A i \in DOMAIN d : d[i] <= d[Len(d)]
    <3> HIDE DEF d
    <3> QED BY <2>1
  <2>3. /\ from'[s] # -1 /\ sub'[s].todo = {} /\ delivered' = delivered
        /\ d # <<>> => sub'[s].last = d[Len(d)]
    <3>1. /\ from'[s] \in 0..Len(log) /\ UNCHANGED delivered
          /\ sub'[s].todo = {} /\ sub'[s].last = IF d = <<>> THEN from'[s] ELSE d[Len(d)]
      BY <1>3, SubscribeTo
    <3>2. Len(log) \in Nat
      BY DEF TypeInv, LogOK
    <3> HIDE DEF d
    <3> QED BY <3>1, <3>2
  <2>4. d = <<>> => DOMAIN d = {}
    OBVIOUS
  <2> QED BY <2>1, <2>2, <2>3, <2>4 DEF InOrder
<1>4. CASE Replay(s) \/ Refill(s)
  <2>1. \A n \in WantedAfter(s, sub[s].last) : n > sub[s].last
    BY DEF WantedAfter, TypeInv, StreamOK, StreamRecords, LogOK
  <2> QED BY <1>0, <1>4, <2>1, ReadTo DEF InOrder
<1>5. CASE YieldReplayed(s)
  <2>1. PICK n \in sub[s].todo :
          /\ \A m \in sub[s].todo : n <= m
          /\ n \in 1..Len(log) /\ n > sub[s].last
          /\ sub[s].at = "live" /\ sub'[s].at = "live"
          /\ sub'[s].last = n /\ sub'[s].todo = sub[s].todo \ {n}
          /\ delivered'[s] = Append(delivered[s], n)
          /\ UNCHANGED from
    BY <1>0, <1>5, YieldTo
  <2>2. /\ \A i \in DOMAIN delivered'[s] : delivered'[s][i] <= n
        /\ \A i, j \in DOMAIN delivered'[s] : i < j => delivered'[s][i] < delivered'[s][j]
    BY <1>0, <2>1, AppendNewer
  <2>3. from'[s] # -1
    BY <1>0, <2>1 DEF InOrder
  <2>4. \A m \in sub'[s].todo : m > n
    BY <2>1 DEF TypeInv, StreamOK, StreamRecords
  <2> QED BY <2>1, <2>2, <2>3, <2>4 DEF InOrder
<1>6. CASE Receive(s)
  <2> DEFINE n == channel[Len(channel) - sub[s].unread + 1]
  <2>1. /\ n \in 1..Len(log)
        /\ sub[s].at = "live" /\ sub'[s].at = "live" /\ sub'[s].todo = {}
        /\ sub'[s].last = IF n > sub[s].last THEN n ELSE sub[s].last
        /\ delivered'[s] = IF n > sub[s].last /\ Wanted(s, n) THEN Append(delivered[s], n)
                           ELSE delivered[s]
        /\ UNCHANGED from
    BY <1>0, <1>6, ReceiveTo
  <2> HIDE DEF n
  <2>2. sub[s].last \in Nat /\ delivered[s] \in Seq(1..Len(log)) /\ from'[s] # -1
    BY <1>0, <2>1 DEF InOrder, TypeInv, StreamOK, StreamRecords, ClientOK, LogOK
  <2>3. CASE n > sub[s].last /\ Wanted(s, n)
    <3>1. /\ \A i \in DOMAIN delivered'[s] : delivered'[s][i] <= n
          /\ \A i, j \in DOMAIN delivered'[s] : i < j => delivered'[s][i] < delivered'[s][j]
      BY <1>0, <2>1, <2>3, AppendNewer
    <3> QED BY <2>1, <2>2, <2>3, <3>1 DEF InOrder
  <2>4. CASE ~(n > sub[s].last /\ Wanted(s, n))
    <3>1. delivered'[s] = delivered[s] /\ sub[s].last <= sub'[s].last
      BY <2>1, <2>2, <2>4
    <3>2. \A i \in DOMAIN delivered[s] : delivered[s][i] \in Nat
      BY <2>2
    <3>3. \A i \in DOMAIN delivered[s] : delivered[s][i] <= sub'[s].last
      BY <1>0, <2>1, <2>2, <3>1, <3>2 DEF InOrder
    <3> QED BY <1>0, <2>1, <2>2, <3>1, <3>3 DEF InOrder
  <2> QED BY <2>3, <2>4
<1>7. CASE Lag(s)
  BY <1>0, <1>7, LagTo DEF InOrder
<1>8. CASE Disconnect(s) \/ Crash
  <2>1. sub'[s] = Closed /\ UNCHANGED <<delivered, from>>
    BY <1>8 DEF Disconnect, Crash, TypeInv, StreamOK
  <2> QED BY <1>0, <2>1 DEF InOrder, Closed
<1> QED BY <1>1, <1>2, <1>3, <1>4, <1>5, <1>6, <1>7, <1>8, StepOf DEF StreamStep

\* A step keeps the backlog of a receiver within the channel.
LEMMA ReadBoundKept ==
  ASSUME TypeInv, OrderInv, [Next]_vars, NEW s \in Subscribers
  PROVE  ReadBound(s)'
<1>0. /\ InOrder(s) /\ ReadBound(s) /\ Capacity \in Nat \ {0}
      /\ sub[s].unread \in Nat /\ Len(channel) \in Nat /\ Len(channel) <= Capacity
  BY StreamAssumption DEF OrderInv, TypeInv, StreamOK, StreamRecords, ChannelOK
<1>1. CASE Quiet(s) /\ UNCHANGED channel
  BY <1>0, <1>1 DEF Quiet, ReadBound
<1>2. ASSUME NEW n \in 1..Len(log), Send(n) PROVE ReadBound(s)'
  <2>1. Len(channel') = IF Len(channel) = Capacity THEN Capacity ELSE Len(channel) + 1
    BY <1>0, <1>2, SendChannel DEF TypeInv
  <2>2. sub'[s].unread \in {sub[s].unread, sub[s].unread + 1}
    BY <1>2, SendTo
  <2>3. sub[s].unread > Capacity => sub'[s].unread = sub[s].unread
    BY <1>2, SendTo
  <2> QED BY <1>0, <2>1, <2>2, <2>3 DEF ReadBound
<1>3. CASE Subscribe(s)
  <2>1. sub'[s].unread = 0 /\ UNCHANGED channel
    BY <1>3, SubscribeTo
  <2> QED BY <1>0, <2>1 DEF ReadBound
<1>4. CASE Replay(s) \/ Refill(s)
  BY <1>0, <1>4, ReadTo DEF ReadBound
<1>5. CASE YieldReplayed(s)
  BY <1>0, <1>5, YieldTo DEF ReadBound
<1>6. CASE Receive(s)
  <2>1. /\ sub[s].unread \in 1..Capacity /\ sub'[s].unread = sub[s].unread - 1
        /\ UNCHANGED channel
    BY <1>0, <1>6, ReceiveTo
  <2> QED BY <1>0, <2>1 DEF ReadBound
<1>7. CASE Lag(s)
  BY <1>0, <1>7, LagTo DEF ReadBound, Lagging
<1>8. CASE Disconnect(s) \/ Crash
  <2>1. sub'[s] = Closed /\ Len(channel') \in Nat
    BY <1>0, <1>8 DEF Disconnect, Crash, TypeInv, StreamOK
  <2> QED BY <1>0, <2>1 DEF ReadBound, Closed
<1> QED BY <1>1, <1>2, <1>3, <1>4, <1>5, <1>6, <1>7, <1>8, StepOf DEF StreamStep

-----------------------------------------------------------------------------
(* Gaps. *)

\* Whether an event is wanted does not change.
LEMMA WantedStays ==
  ASSUME TypeInv, [Next]_vars, NEW s \in Subscribers, NEW n \in 1..Len(log)
  PROVE  Wanted(s, n)' <=> Wanted(s, n)
BY LogGrows DEF Wanted, TypeInv

\* A thread only turns write to has always been one.
LEMMA TurnsOnlyBefore ==
  ASSUME TypeInv, [Next]_vars, TurnsOnly'
  PROVE  TurnsOnly /\ \A h \in Handlers : ~HandlerAppends(h)
<1>1. TurnsOnly
  BY LogGrows DEF TurnsOnly, TypeInv, LogOK
<1>2. ASSUME NEW h \in Handlers, HandlerAppends(h) PROVE FALSE
  <2>1. /\ log' = Append(log, [kind |-> "domain", by |-> "action"])
        /\ log \in Seq([kind : Kinds, by : {"turn", "action"}])
    BY <1>2 DEF HandlerAppends, TypeInv, LogOK
  <2>2. Len(log) + 1 \in DOMAIN log' /\ log'[Len(log) + 1] = [kind |-> "domain", by |-> "action"]
    BY <2>1 DEF Kinds
  <2> QED BY <2>2 DEF TurnsOnly
<1> QED BY <1>1, <1>2

\* Where the turn's own send stands.
LEMMA UnsentKept ==
  ASSUME TypeInv, GapInv, [Next]_vars, TurnsOnly'
  PROVE  /\ unsent' # 0 => unsent' = Len(log')
         /\ \/ UNCHANGED <<log, unsent>>
            \/ Crash
            \/ TurnSends
            \/ /\ unsent = 0 /\ Len(log') = Len(log) + 1 /\ unsent' = Len(log')
               /\ UNCHANGED <<channel, sub, delivered, from>>
<1>0. Len(log) \in Nat
  BY DEF TypeInv, LogOK
<1>1. unsent # 0 => unsent = Len(log)
  BY TurnsOnlyBefore DEF GapInv
<1>2. ASSUME NEW kind \in Kinds, TurnAppends(kind)
      PROVE  /\ unsent = 0 /\ Len(log') = Len(log) + 1 /\ unsent' = Len(log')
             /\ UNCHANGED <<channel, sub, delivered, from>>
  BY <1>2 DEF TurnAppends, TypeInv, LogOK, Kinds
<1>3. CASE Crash \/ TurnSends
  BY <1>3 DEF Crash, TurnSends
<1>4. CASE UNCHANGED <<log, unsent>>
  BY <1>1, <1>4
<1>5. \/ \E kind \in Kinds : TurnAppends(kind)
      \/ Crash \/ TurnSends \/ UNCHANGED <<log, unsent>>
  BY TurnsOnlyBefore DEF Next, StreamStep, vars, HandlerBegins, HandlerFails,
    HandlerPublishes, HandlerSends, Subscribe, Replay, YieldReplayed, Receive, Lag, Refill,
    Disconnect
<1> QED BY <1>2, <1>3, <1>4, <1>5

\* What the client of a stream has, and what the stream still has to read.
StreamGaps(s) == NoGapsFor(s) /\ SeenAll(s) /\ TodoClosed(s) /\ Covered(s)

\* Steps of others: the log may grow by the event the turn has yet to send.
LEMMA GapsQuiet ==
  ASSUME TypeInv, OrderInv, GapInv, [Next]_vars, TurnsOnly', NEW s \in Subscribers,
         StreamGaps(s), Quiet(s), UNCHANGED channel, ~TurnSends, ~Crash
  PROVE  StreamGaps(s)'
<1>0. /\ Len(log) \in Nat /\ Len(log') \in Nat /\ Len(log) <= Len(log')
      /\ sub[s] \in StreamRecords(Len(log)) /\ sub'[s] = sub[s]
      /\ delivered'[s] = delivered[s] /\ delivered[s] \in Seq(1..Len(log))
      /\ from'[s] = from[s] /\ from[s] \in Int
  BY LogGrows DEF TypeInv, StreamOK, ClientOK, Quiet, LogOK
<1>1. \A n \in 1..Len(log) : Wanted(s, n)' <=> Wanted(s, n)
  BY WantedStays
<1>2. \A n : Got(s, n)' <=> Got(s, n)
  BY <1>0 DEF Got
<1>3. from[s] = -1 => delivered[s] = <<>> /\ sub[s].at = "off"
  BY DEF OrderInv, InOrder
<1>4. NoGapsFor(s)'
  <2> SUFFICES ASSUME NEW i \in DOMAIN delivered[s], NEW n \in (from[s] + 1)..delivered[s][i],
                      Wanted(s, n)'
               PROVE  Got(s, n)
    BY <1>0, <1>2 DEF NoGapsFor
  <2>1. delivered[s] # <<>> /\ delivered[s][i] \in 1..Len(log)
    BY <1>0
  <2>2. from[s] >= 0
    BY <1>3, <2>1 DEF TypeInv, ClientOK
  <2>3. n \in 1..Len(log)
    BY <1>0, <2>1, <2>2
  <2> QED BY <1>1, <2>3 DEF NoGapsFor, StreamGaps
<1>5. SeenAll(s)'
  BY <1>0, <1>1, <1>2, <1>3 DEF SeenAll, StreamGaps, StreamRecords, TypeInv, ClientOK
<1>6. TodoClosed(s)'
  BY <1>0, <1>1 DEF TodoClosed, StreamGaps, StreamRecords
<1>7. Covered(s)'
  <2>1. \A m : Queued(s, m)' <=> Queued(s, m)
    BY <1>0 DEF Queued, Unread
  <2>2. Lagging(s)' <=> Lagging(s)
    BY <1>0 DEF Lagging
  <2>3. \/ UNCHANGED <<log, unsent>>
        \/ unsent = 0 /\ Len(log') = Len(log) + 1 /\ unsent' = Len(log')
    BY UnsentKept
  <2>4. ASSUME sub[s].at = "live", ~Lagging(s), NEW m \in (sub[s].last + 1)..Len(log'),
               Wanted(s, m)', m \notin sub[s].todo
        PROVE  m = unsent' \/ Queued(s, m)'
    <3>1. CASE m \in 1..Len(log)
      <4>1. m = unsent \/ Queued(s, m)
        BY <1>0, <1>1, <2>4, <3>1 DEF StreamGaps, Covered
      <4> QED BY <2>1, <2>3, <3>1, <4>1
    <3>2. CASE m \notin 1..Len(log)
      BY <1>0, <2>3, <2>4, <3>2 DEF StreamRecords
    <3> QED BY <3>1, <3>2
  <2> QED BY <1>0, <2>2, <2>4 DEF Covered
<1> QED BY <1>4, <1>5, <1>6, <1>7 DEF StreamGaps

\* A send: what was unread keeps its order, and the new event comes last.
LEMMA GapsSend ==
  ASSUME TypeInv, OrderInv, NEW s \in Subscribers, StreamGaps(s),
         unsent # 0 => unsent = Len(log),
         UNCHANGED <<log, delivered, from>>,
         NEW n \in 1..Len(log), Send(n), unsent' = unsent \/ n = unsent
  PROVE  StreamGaps(s)'
<1> DEFINE L == Len(channel)
           d == IF L = Capacity THEN 1 ELSE 0
           u == sub[s].unread
<1>0. /\ Len(log) \in Nat /\ L \in Nat /\ Capacity \in Nat \ {0} /\ u \in Nat /\ d \in {0, 1}
      /\ sub[s] \in StreamRecords(Len(log)) /\ ReadBound(s)
      /\ channel \in Seq(1..Len(log)) /\ DOMAIN channel = 1..L
  BY StreamAssumption DEF TypeInv, StreamOK, LogOK, ChannelOK, OrderInv, StreamRecords
<1>1. /\ sub'[s].at = sub[s].at /\ sub'[s].last = sub[s].last /\ sub'[s].todo = sub[s].todo
      /\ sub'[s].unread = IF sub[s].at = "off" \/ u > Capacity THEN u ELSE u + 1
  BY SendTo
<1>2. NoGapsFor(s)' /\ SeenAll(s)' /\ TodoClosed(s)'
  BY <1>1 DEF StreamGaps, NoGapsFor, SeenAll, TodoClosed, Got, Wanted
<1>3. Covered(s)'
  <2>1. SUFFICES ASSUME sub[s].at = "live", ~Lagging(s)',
                        NEW m \in (sub[s].last + 1)..Len(log),
                        Wanted(s, m), m \notin sub[s].todo
                 PROVE  m = unsent' \/ Queued(s, m)'
    BY <1>1 DEF Covered, Wanted
  <2>2. u <= Capacity /\ sub'[s].unread = u + 1 /\ u + 1 <= Capacity /\ u <= L
    <3>1. ~(sub'[s].unread > Capacity)
      BY <2>1 DEF Lagging
    <3>2. u <= Capacity => u <= L
      BY <1>0 DEF ReadBound
    <3> HIDE DEF L, d, u
    <3> QED BY <1>0, <1>1, <2>1, <3>1, <3>2
  <2>3. /\ channel' \in Seq(1..Len(log)) /\ Len(channel') = L + 1 - d
        /\ \A i \in 1..(L - d) : channel'[i] = channel[i + d]
        /\ channel'[L + 1 - d] = n
    BY SendChannel DEF TypeInv
  <2>4. DOMAIN channel' = 1..(L + 1 - d)
    BY <2>3
  <2> HIDE DEF L, d, u
  <2>5. Unread(s) = {p \in 1..L : p > L - u}
    BY <1>0 DEF Unread, L, u
  <2>6. Unread(s)' = {p \in 1..(L + 1 - d) : p > L - d - u}
    <3>0. L \in Int /\ d \in Int /\ u \in Int
      BY <1>0
    <3>1. Len(channel') - sub'[s].unread = L - d - u
      <4>1. Len(channel') = L + 1 - d /\ sub'[s].unread = u + 1
        BY <2>2, <2>3
      <4> QED BY <3>0, <4>1
    <3> QED BY <2>4, <3>1 DEF Unread
  <2>7. d = 1 => L = Capacity
    BY DEF d
  <2>8. ASSUME NEW p \in Unread(s)
        PROVE  p - d \in Unread(s)' /\ channel'[p - d] = channel[p] /\ p - d < L + 1 - d
    <3>0. L \in Int /\ u \in Int /\ d \in {0, 1} /\ Capacity \in Int
      BY <1>0
    <3>1. p \in 1..L /\ p > L - u
      BY <2>5
    <3>2. p - d \in 1..(L - d)
      <4>1. d = 1 => u + 1 <= L
        BY <2>2, <2>7
      <4> QED BY <3>0, <3>1, <4>1
    <3>3. p - d + d = p /\ p - d < L + 1 - d /\ p - d > L - d - u /\ p - d \in 1..(L + 1 - d)
      BY <3>0, <3>1, <3>2
    <3>4. channel'[p - d] = channel[p]
      BY <2>3, <3>2, <3>3
    <3>5. p - d \in Unread(s)'
      BY <2>6, <3>3
    <3> QED BY <3>3, <3>4, <3>5
  <2>9. ASSUME NEW q \in Unread(s)', q # L + 1 - d
        PROVE  q + d \in Unread(s) /\ channel'[q] = channel[q + d]
    <3>1. q \in 1..(L - d) /\ q > L - d - u
      BY <1>0, <2>6, <2>9
    <3> QED BY <1>0, <2>3, <2>5, <3>1
  <2>10. CASE Queued(s, m)
    <3>1. PICK p \in Unread(s) : channel[p] = m /\ \A q \in Unread(s) : channel[q] > m => p < q
      BY <2>10 DEF Queued
    <3>2. p - d \in Unread(s)' /\ channel'[p - d] = m
      BY <2>8, <3>1
    <3>3. ASSUME NEW q \in Unread(s)', channel'[q] > m PROVE p - d < q
      <4>1. CASE q = L + 1 - d
        BY <2>8, <4>1
      <4>2. CASE q # L + 1 - d
        <5>1. p < q + d
          BY <2>9, <3>1, <3>3, <4>2
        <5> QED BY <1>0, <2>5, <2>6, <5>1
      <4> QED BY <4>1, <4>2
    <3> QED BY <3>2, <3>3 DEF Queued
  <2>11. CASE m = unsent /\ n = unsent
    <3>1. m = Len(log)
      BY <1>0, <2>1, <2>11
    <3>2. L + 1 - d \in Unread(s)'
      BY <1>0, <2>6, <2>7
    <3>3. \A q \in Unread(s)' : channel'[q] \in 1..Len(log)
      BY <2>3, <2>4, <2>6
    <3>4. \A q \in Unread(s)' : ~(channel'[q] > m)
      BY <1>0, <3>1, <3>3
    <3> QED BY <2>3, <2>11, <3>2, <3>4 DEF Queued
  <2>12. m = unsent \/ Queued(s, m)
    BY <1>1, <2>1, <2>2, <1>0 DEF StreamGaps, Covered, Lagging, u
  <2> QED BY <2>10, <2>11, <2>12
<1> QED BY <1>2, <1>3 DEF StreamGaps

\* A client that comes back goes on where it was.
LEMMA GapsSubscribe ==
  ASSUME TypeInv, OrderInv, NEW s \in Subscribers, StreamGaps(s), Subscribe(s)
  PROVE  StreamGaps(s)'
<1> DEFINE d == delivered[s]
<1>1. /\ from'[s] \in 0..Len(log) /\ (from[s] # -1 => from'[s] = from[s])
      /\ sub'[s].at = "joined" /\ sub'[s].todo = {} /\ UNCHANGED <<log, delivered>>
      /\ sub'[s].last = IF d = <<>> THEN from'[s] ELSE d[Len(d)]
  BY SubscribeTo
<1>2. /\ d \in Seq(1..Len(log)) /\ (from[s] = -1 => d = <<>>) /\ Len(log) \in Nat
      /\ \A i \in DOMAIN d : \A n \in (from[s] + 1)..d[i] : Wanted(s, n) => Got(s, n)
  BY DEF TypeInv, ClientOK, OrderInv, InOrder, StreamGaps, NoGapsFor, LogOK
<1>3. \A n : (Got(s, n)' <=> Got(s, n)) /\ (Wanted(s, n)' <=> Wanted(s, n))
  BY <1>1 DEF Got, Wanted
<1>4. TodoClosed(s)' /\ Covered(s)'
  BY <1>1 DEF TodoClosed, Covered
<1>5. CASE d = <<>>
  <2>1. (from'[s] + 1)..sub'[s].last = {} /\ DOMAIN d = {}
    BY <1>1, <1>2, <1>5
  <2>2. SeenAll(s)'
    BY <2>1 DEF SeenAll
  <2>3. NoGapsFor(s)'
    BY <1>1, <2>1 DEF NoGapsFor
  <2> QED BY <1>4, <2>2, <2>3 DEF StreamGaps
<1>6. CASE d # <<>>
  <2>1. from'[s] = from[s] /\ Len(d) \in DOMAIN d /\ sub'[s].last = d[Len(d)]
    BY <1>1, <1>2, <1>6
  <2>2. SeenAll(s)'
    BY <1>2, <1>3, <2>1 DEF SeenAll
  <2>3. NoGapsFor(s)'
    BY <1>1, <1>2, <1>3, <2>1 DEF NoGapsFor
  <2> QED BY <1>4, <2>2, <2>3 DEF StreamGaps
<1> QED BY <1>5, <1>6

\* A replay and a refill read everything the client does not have.
LEMMA GapsRead ==
  ASSUME TypeInv, NEW s \in Subscribers, StreamGaps(s), Replay(s) \/ Refill(s)
  PROVE  StreamGaps(s)'
<1>1. /\ sub[s].at # "off" /\ sub'[s].at = "live" /\ sub'[s].last = sub[s].last
      /\ sub'[s].todo = WantedAfter(s, sub[s].last)
      /\ UNCHANGED <<log, unsent, channel, delivered, from>>
  BY ReadTo
<1>2. \A n : (Got(s, n)' <=> Got(s, n)) /\ (Wanted(s, n)' <=> Wanted(s, n))
  BY <1>1 DEF Got, Wanted
<1>3. NoGapsFor(s)' /\ SeenAll(s)'
  BY <1>1, <1>2 DEF StreamGaps, NoGapsFor, SeenAll
<1>4. sub[s].last \in Nat /\ Len(log) \in Nat
  BY DEF TypeInv, LogOK, StreamOK, StreamRecords
<1>5. \A m \in (sub[s].last + 1)..Len(log) : Wanted(s, m) => m \in sub'[s].todo
  BY <1>1 DEF WantedAfter
<1>6. \A n \in sub'[s].todo : n \in (sub[s].last + 1)..Len(log) /\ Wanted(s, n)
  BY <1>1 DEF WantedAfter
<1>7. TodoClosed(s)'
  BY <1>1, <1>2, <1>4, <1>5, <1>6 DEF TodoClosed
<1>8. Covered(s)'
  BY <1>1, <1>2, <1>5 DEF Covered
<1> QED BY <1>3, <1>7, <1>8 DEF StreamGaps

\* The next event of a replay.
LEMMA GapsYield ==
  ASSUME TypeInv, OrderInv, NEW s \in Subscribers, StreamGaps(s), YieldReplayed(s)
  PROVE  StreamGaps(s)'
<1>1. PICK n \in sub[s].todo :
        /\ \A m \in sub[s].todo : n <= m
        /\ n \in 1..Len(log) /\ n > sub[s].last
        /\ sub[s].at = "live" /\ sub'[s].at = "live"
        /\ sub'[s].last = n /\ sub'[s].todo = sub[s].todo \ {n}
        /\ sub'[s].unread = sub[s].unread
        /\ delivered'[s] = Append(delivered[s], n)
        /\ UNCHANGED <<log, unsent, channel, from>>
  BY YieldTo DEF OrderInv
<1>2. /\ \A i \in DOMAIN delivered'[s] : delivered'[s][i] <= n
      /\ \A m : Got(s, m)' <=> Got(s, m) \/ m = n
  BY <1>1, AppendNewer DEF OrderInv
<1>3. /\ \A m : Wanted(s, m)' <=> Wanted(s, m)
      /\ \A m : Queued(s, m)' <=> Queued(s, m)
      /\ Lagging(s)' <=> Lagging(s)
  BY <1>1 DEF Wanted, Queued, Unread, Lagging
<1>4. /\ sub[s].last \in Nat /\ Len(log) \in Nat /\ from[s] \in Int
      /\ sub[s].todo \subseteq 1..Len(log)
  BY DEF TypeInv, LogOK, StreamOK, StreamRecords, ClientOK
<1>5. \A m \in (from[s] + 1)..n : Wanted(s, m) => Got(s, m) \/ m = n
  <2> TAKE m \in (from[s] + 1)..n
  <2>1. CASE m <= sub[s].last
    BY <1>1, <1>4, <2>1 DEF StreamGaps, SeenAll
  <2>2. CASE m > sub[s].last
    BY <1>1, <1>4, <2>2 DEF StreamGaps, TodoClosed
  <2> QED BY <1>4, <2>1, <2>2
<1>6. SeenAll(s)'
  BY <1>1, <1>2, <1>3, <1>5 DEF SeenAll
<1>7. NoGapsFor(s)'
  <2>1. delivered'[s] \in Seq(1..Len(log))
    BY <1>1, AppendProperties DEF TypeInv, ClientOK
  <2>2. \A i \in DOMAIN delivered'[s] : delivered'[s][i] \in Int
    BY <2>1
  <2> QED BY <1>1, <1>2, <1>3, <1>4, <1>5, <2>2 DEF NoGapsFor
<1>8. TodoClosed(s)'
  BY <1>1, <1>3, <1>4 DEF StreamGaps, TodoClosed
<1>9. Covered(s)'
  <2>1. ASSUME ~Lagging(s), NEW m \in (n + 1)..Len(log), Wanted(s, m), m \notin sub'[s].todo
        PROVE  m = unsent \/ Queued(s, m)
    <3>1. m \in (sub[s].last + 1)..Len(log) /\ m \notin sub[s].todo
      BY <1>1, <1>4, <2>1
    <3> QED BY <1>1, <2>1, <3>1 DEF StreamGaps, Covered
  <2> QED BY <1>1, <1>3, <2>1 DEF Covered
<1> QED BY <1>6, <1>7, <1>8, <1>9 DEF StreamGaps

\* The next event of the channel: nothing wanted lies between it and what the client has.
LEMMA GapsReceive ==
  ASSUME TypeInv, OrderInv, NEW s \in Subscribers, StreamGaps(s), Receive(s),
         unsent # 0 => unsent = Len(log)
  PROVE  StreamGaps(s)'
<1> DEFINE f == Len(channel) - sub[s].unread + 1
           n == channel[f]
<1>1. /\ n \in 1..Len(log) /\ sub[s].at = "live" /\ sub'[s].at = "live"
      /\ sub[s].todo = {} /\ sub'[s].todo = {}
      /\ sub[s].unread \in 1..Capacity /\ sub'[s].unread = sub[s].unread - 1
      /\ sub'[s].last = IF n > sub[s].last THEN n ELSE sub[s].last
      /\ delivered'[s] = IF n > sub[s].last /\ Wanted(s, n) THEN Append(delivered[s], n)
                         ELSE delivered[s]
      /\ UNCHANGED <<log, unsent, channel, from>>
  BY ReceiveTo DEF OrderInv
<1>2. f \in Unread(s) /\ \A p \in Unread(s) : f <= p
  BY NextUnread DEF OrderInv
<1>3. /\ sub[s].last \in Nat /\ Len(log) \in Nat /\ from[s] \in Int /\ Len(channel) \in Nat
      /\ Capacity \in Nat /\ channel \in Seq(1..Len(log)) /\ ~Lagging(s)
      /\ delivered[s] \in Seq(1..Len(log)) /\ InOrder(s)
  <2>1. sub[s].last \in Nat
    BY DEF TypeInv, StreamOK, StreamRecords, LogOK
  <2>2. /\ Len(log) \in Nat /\ from[s] \in Int /\ delivered[s] \in Seq(1..Len(log))
    BY DEF TypeInv, LogOK, ClientOK
  <2>3. Len(channel) \in Nat /\ channel \in Seq(1..Len(log))
    BY DEF TypeInv, ChannelOK
  <2>4. Capacity \in Nat /\ ~Lagging(s) /\ InOrder(s)
    BY StreamAssumption DEF Receive, OrderInv
  <2> QED BY <2>1, <2>2, <2>3, <2>4
<1>4. \A m : Wanted(s, m)' <=> Wanted(s, m)
  BY <1>1 DEF Wanted
<1>5. ASSUME NEW m \in (sub[s].last + 1)..Len(log), Wanted(s, m), m < n PROVE FALSE
  <2>1. m = unsent \/ Queued(s, m)
    BY <1>1, <1>3, <1>5 DEF StreamGaps, Covered
  <2>2. CASE m = unsent
    <3>1. n \in 1..Len(log)
      BY <1>1
    <3>2. m \in Int /\ m # 0
      BY <1>3
    <3> HIDE DEF n
    <3> QED BY <1>3, <1>5, <2>2, <3>1, <3>2
  <2>3. CASE Queued(s, m)
    <3>1. PICK p \in Unread(s) : channel[p] = m /\ \A q \in Unread(s) : channel[q] > m => p < q
      BY <2>3 DEF Queued
    <3>2. channel[f] > m
      BY <1>1, <1>3, <1>5
    <3>3. p < f /\ f <= p
      BY <1>2, <3>1, <3>2
    <3>4. p \in Int /\ f \in Int
      BY <1>2, <1>3, <3>1 DEF Unread
    <3> HIDE DEF f
    <3> QED BY <3>3, <3>4
  <2> QED BY <2>1, <2>2, <2>3
<1>6. \A m : Got(s, m) \/ (m = n /\ n > sub[s].last /\ Wanted(s, n)) => Got(s, m)'
  <2> HIDE DEF n
  <2>1. CASE n > sub[s].last /\ Wanted(s, n)
    BY <1>1, <1>3, <2>1, AppendNewer
  <2>2. CASE ~(n > sub[s].last /\ Wanted(s, n))
    BY <1>1, <2>2 DEF Got
  <2> QED BY <2>1, <2>2
<1>7. \A m \in (from[s] + 1)..sub'[s].last : Wanted(s, m) => Got(s, m)'
  <2> TAKE m \in (from[s] + 1)..sub'[s].last
  <2> HIDE DEF n
  <2>1. CASE m <= sub[s].last
    BY <1>1, <1>3, <1>6, <2>1 DEF StreamGaps, SeenAll
  <2>2. CASE m > sub[s].last
    <3>1. n > sub[s].last /\ m <= n /\ m \in (sub[s].last + 1)..Len(log)
      BY <1>1, <1>3, <2>2
    <3> QED BY <1>1, <1>3, <1>5, <1>6, <3>1
  <2> QED BY <1>1, <1>3, <2>1, <2>2
<1>8. SeenAll(s)'
  BY <1>1, <1>4, <1>7 DEF SeenAll
<1>9. NoGapsFor(s)'
  <2> HIDE DEF n
  <2>1. \A i \in DOMAIN delivered'[s] :
          delivered'[s][i] \in Int /\ delivered'[s][i] <= sub'[s].last
    <3>1. CASE n > sub[s].last /\ Wanted(s, n)
      <4>1. delivered'[s] = Append(delivered[s], n) /\ sub'[s].last = n
        BY <1>1, <3>1
      <4>2. delivered'[s] \in Seq(1..Len(log))
        <5>1. n \in 1..Len(log) /\ delivered[s] \in Seq(1..Len(log))
          BY <1>1, <1>3
        <5> QED BY <4>1, <5>1, AppendProperties
      <4>3. \A i \in DOMAIN delivered'[s] : delivered'[s][i] <= n
        BY <1>1, <1>3, <3>1, <4>1, AppendNewer
      <4> QED BY <4>1, <4>2, <4>3
    <3>2. CASE ~(n > sub[s].last /\ Wanted(s, n))
      <4>1. delivered'[s] = delivered[s] /\ sub[s].last <= sub'[s].last /\ sub'[s].last \in Int
        BY <1>1, <1>3, <3>2
      <4>2. \A i \in DOMAIN delivered[s] :
              delivered[s][i] \in Int /\ delivered[s][i] <= sub[s].last
        BY <1>1, <1>3 DEF InOrder
      <4> QED BY <1>3, <4>1, <4>2
    <3> QED BY <3>1, <3>2
  <2>2. sub'[s].last \in Int
    BY <1>1, <1>3
  <2>3. ASSUME NEW i \in DOMAIN delivered'[s], NEW m \in (from[s] + 1)..delivered'[s][i]
        PROVE  m \in (from[s] + 1)..sub'[s].last
    BY <1>3, <2>1, <2>2
  <2>4. from'[s] = from[s]
    BY <1>1
  <2> QED BY <1>4, <1>7, <2>3, <2>4 DEF NoGapsFor
<1>10. TodoClosed(s)'
  BY <1>1 DEF TodoClosed
<1>11. Covered(s)'
  <2>1. SUFFICES ASSUME NEW m \in (sub'[s].last + 1)..Len(log), Wanted(s, m)
                 PROVE  m = unsent \/ Queued(s, m)'
    BY <1>1, <1>4 DEF Covered
  <2>2. m \in (sub[s].last + 1)..Len(log) /\ m # n
    <3>1. /\ n \in Int /\ sub[s].last \in Int /\ Len(log) \in Int
          /\ sub'[s].last = IF n > sub[s].last THEN n ELSE sub[s].last
      BY <1>1, <1>3
    <3> HIDE DEF n
    <3>2. sub'[s].last \in Int /\ sub'[s].last >= n /\ sub'[s].last >= sub[s].last
      BY <3>1
    <3> QED BY <2>1, <3>1, <3>2
  <2>3. CASE Queued(s, m)
    <3>1. PICK p \in Unread(s) : channel[p] = m /\ \A q \in Unread(s) : channel[q] > m => p < q
      BY <2>3 DEF Queued
    <3>0. /\ sub'[s].unread = sub[s].unread - 1 /\ sub[s].unread \in Int /\ UNCHANGED channel
          /\ Len(channel) \in Int /\ DOMAIN channel = 1..Len(channel)
      BY <1>1, <1>3
    <3>2. Unread(s)' \subseteq Unread(s)
      BY <3>0 DEF Unread
    <3>3. p \in Unread(s)'
      <4>1. p # f /\ f <= p /\ p \in DOMAIN channel
        BY <1>2, <2>2, <3>1 DEF Unread
      <4>2. p > Len(channel) - (sub[s].unread - 1)
        BY <3>0, <4>1
      <4> QED BY <3>0, <4>1, <4>2 DEF Unread
    <3> QED BY <1>1, <3>1, <3>2, <3>3 DEF Queued
  <2> QED BY <1>1, <1>3, <2>1, <2>2, <2>3 DEF StreamGaps, Covered
<1> QED BY <1>8, <1>9, <1>10, <1>11 DEF StreamGaps

\* A stream that lags or ends has received what it has received.
LEMMA GapsEnd ==
  ASSUME TypeInv, NEW s \in Subscribers, StreamGaps(s), Lag(s) \/ Disconnect(s) \/ Crash
  PROVE  StreamGaps(s)'
<1>1. /\ UNCHANGED <<log, delivered, from>> /\ sub'[s].todo = {}
      /\ \/ sub'[s].at = "off"
         \/ sub'[s].at = "lagged" /\ sub[s].at # "off" /\ sub'[s].last = sub[s].last
  <2>1. CASE Lag(s)
    BY <2>1, LagTo
  <2>2. CASE Disconnect(s) \/ Crash
    BY <2>2 DEF Disconnect, Crash, Closed, TypeInv, StreamOK
  <2> QED BY <2>1, <2>2
<1>2. \A n : (Got(s, n)' <=> Got(s, n)) /\ (Wanted(s, n)' <=> Wanted(s, n))
  BY <1>1 DEF Got, Wanted
<1>3. NoGapsFor(s)'
  BY <1>1, <1>2 DEF StreamGaps, NoGapsFor
<1>4. SeenAll(s)'
  BY <1>1, <1>2 DEF StreamGaps, SeenAll
<1> QED BY <1>1, <1>3, <1>4 DEF StreamGaps, TodoClosed, Covered

\* Every step keeps it.
LEMMA GapKept ==
  ASSUME TypeInv, OrderInv, GapInv, [Next]_vars
  PROVE  GapInv'
<1> SUFFICES ASSUME TurnsOnly'
             PROVE  /\ (unsent # 0 => unsent = Len(log))'
                    /\ \A s \in Subscribers : StreamGaps(s)'
  BY DEF GapInv, StreamGaps
<1>1. TurnsOnly
  BY TurnsOnlyBefore
<1>2. /\ unsent # 0 => unsent = Len(log)
      /\ \A s \in Subscribers : StreamGaps(s)
  BY <1>1 DEF GapInv, StreamGaps
<1>3. (unsent # 0 => unsent = Len(log))'
  BY UnsentKept
<1>4. ASSUME NEW s \in Subscribers PROVE StreamGaps(s)'
  <2>1. CASE Quiet(s) /\ UNCHANGED channel /\ ~TurnSends /\ ~Crash
    BY <1>2, <2>1, GapsQuiet
  <2>2. ASSUME UNCHANGED <<log, delivered, from>>,
               NEW n \in 1..Len(log), Send(n), unsent' = unsent \/ n = unsent
        PROVE  StreamGaps(s)'
    BY <1>2, <2>2, GapsSend
  <2>3. CASE Subscribe(s)
    BY <1>2, <2>3, GapsSubscribe
  <2>4. CASE Replay(s) \/ Refill(s)
    BY <1>2, <2>4, GapsRead
  <2>5. CASE YieldReplayed(s)
    BY <1>2, <2>5, GapsYield
  <2>6. CASE Receive(s)
    BY <1>2, <2>6, GapsReceive
  <2>7. CASE Lag(s) \/ Disconnect(s) \/ Crash
    BY <1>2, <2>7, GapsEnd
  <2> QED BY <2>1, <2>2, <2>3, <2>4, <2>5, <2>6, <2>7, StepOf DEF StreamStep
<1> QED BY <1>3, <1>4

-----------------------------------------------------------------------------
(* The theorems. *)

\* An empty thread nobody has subscribed to.
LEMMA AllInit == Init => TypeInv /\ OrderInv /\ GapInv
<1> SUFFICES ASSUME Init PROVE TypeInv /\ OrderInv /\ GapInv
  OBVIOUS
<1>1. Len(log) = 0 /\ Capacity \in Nat \ {0}
  BY StreamAssumption DEF Init
<1>2. LogOK /\ ChannelOK /\ ClientOK
  BY <1>1 DEF Init, LogOK, ChannelOK, ClientOK
<1>3. HandlerOK
  BY <1>1 DEF Init, HandlerOK, HandlerRecords, Idle
<1>4. StreamOK
  BY <1>1 DEF Init, StreamOK, StreamRecords, Closed
<1>5. OrderInv
  BY <1>1 DEF Init, OrderInv, InOrder, ReadBound, Closed
<1>6. GapInv
  BY <1>1 DEF Init, GapInv, NoGapsFor, SeenAll, TodoClosed, Covered, Closed
<1> QED BY <1>2, <1>3, <1>4, <1>5, <1>6 DEF TypeInv

\* Every step keeps the types and the order.
LEMMA OrderStep == TypeInv /\ OrderInv /\ [Next]_vars => (TypeInv /\ OrderInv)'
<1> SUFFICES ASSUME TypeInv, OrderInv, [Next]_vars PROVE (TypeInv /\ OrderInv)'
  OBVIOUS
<1>1. \A s \in Subscribers : ReadBound(s)
  BY DEF OrderInv
<1>2. LogOK'
  BY LogTyped DEF TypeInv
<1>3. HandlerOK' /\ ChannelOK' /\ StreamOK' /\ ClientOK'
  BY <1>1, HandlerTyped, ChannelTyped, StreamTyped, ClientTyped
<1>4. OrderInv'
  BY InOrderKept, ReadBoundKept DEF OrderInv
<1> QED BY <1>2, <1>3, <1>4 DEF TypeInv

\* Whoever writes, subscribes, lags, reconnects and crashes, a stream never reads beyond the
\* log, and a receiver never reads beyond the channel (thread_events, broadcast).
THEOREM TypeCorrect == Spec => []TypeOK
BY AllInit, OrderStep, TypeParts, PTL DEF Spec

\* No client receives an event twice or out of order, over all its connections, for every
\* interleaving of turns, action handlers that publish again what a turn has sent, lags,
\* refills, reconnects and crashes (thread_events).
THEOREM InOrderAlways == Spec => []DeliveredInOrder
<1>1. OrderInv => DeliveredInOrder
  BY DEF OrderInv, InOrder, DeliveredInOrder
<1> QED BY <1>1, AllInit, OrderStep, PTL DEF Spec

\* While only turns write to the thread no client misses an event it wants: not when the
\* channel overflows, nor when the process dies between append and send, nor when a handler
\* publishes what the turn is about to send (emit, publish_new_events, thread_events).
THEOREM NoGapsAlways == Spec => []TurnEventsHaveNoGaps
<1>1. GapInv => TurnEventsHaveNoGaps
  BY DEF GapInv, TurnEventsHaveNoGaps, NoGaps, NoGapsFor, Got
<1>2. TypeInv /\ OrderInv /\ GapInv /\ [Next]_vars => GapInv'
  BY GapKept
<1> QED BY <1>1, <1>2, AllInit, OrderStep, PTL DEF Spec
=============================================================================
