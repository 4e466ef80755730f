--------------------------- MODULE ThreadLogProofs ---------------------------
(***************************************************************************)
(* Theorems about ThreadLog, for any threads, calls, budget and bounds.    *)
(* What is computed from a log is a fold over it, or a selection from it:  *)
(* SequenceLaws has the laws of both.                                      *)
(***************************************************************************)
EXTENDS ThreadLog, SequenceLaws

-----------------------------------------------------------------------------
(* The status and the title that are folded from events. *)

StatusFcn == [v \in ThreadStatuses |-> [e \in Event |-> StatusAfter(v, e)]]
TitleFcn == [v \in Nat |-> [e \in Event |-> TitleOr(v, e)]]

\* A status stays one of the six, whatever the event.
LEMMA StatusAfterType ==
  ASSUME NEW s \in ThreadStatuses, NEW e \in Event
  PROVE  StatusAfter(s, e) \in ThreadStatuses
BY DEF StatusAfter, ThreadStatuses, Event, Kinds, ActionStatuses

\* A title is a number.
LEMMA TitleOrType ==
  ASSUME NEW v \in Nat, NEW e \in Event
  PROVE  TitleOr(v, e) \in Nat
BY DEF TitleOr, TitleFromEvent, Event

\* The fold of status_after over events (FoldLeft) is the fold of its function.
LEMMA StatusFold ==
  ASSUME NEW b \in ThreadStatuses, NEW s \in Seq(Event)
  PROVE  FoldLeft(StatusAfter, b, s) = Folded(StatusFcn, b, s)
<1> DEFINE n == Len(s)
           Eq(h) == h = [T \in SUBSET (1..n) |-> IF T = {} THEN b ELSE StatusAfter(h[T \ {Max(T)}], s[Max(T)])]
<1>1. Closed(StatusFcn, ThreadStatuses, Event)
  BY StatusAfterType DEF StatusFcn, Closed
<1>2. n \in Nat /\ s \in [1..n -> Event] /\ DOMAIN s = 1..n
  OBVIOUS
<1>3. PICK h \in [SUBSET (1..n) -> ThreadStatuses] : Solves(h, n, b, StatusFcn, s)
  <2> HIDE DEF n
  <2> QED BY <1>1, <1>2, SolutionExists
<1>4. ASSUME NEW T \in SUBSET (1..n), T # {}
      PROVE  StatusFcn[h[T \ {Max(T)}]][s[Max(T)]] = StatusAfter(h[T \ {Max(T)}], s[Max(T)])
  <2>1. Max(T) \in 1..n
    <3> HIDE DEF n
    <3>1. Max(T) \in T
      BY <1>2, <1>4, MaxPosition
    <3> QED BY <3>1
  <2>2. T \ {Max(T)} \in SUBSET (1..n)
    OBVIOUS
  <2>3. h[T \ {Max(T)}] \in ThreadStatuses
    BY <2>2
  <2>4. s[Max(T)] \in Event
    BY <1>2, <2>1
  <2> QED BY <2>3, <2>4 DEF StatusFcn
<1>5. Eq(h)
  BY <1>3, <1>4 DEF Solves
<1>6. Eq(CHOOSE g : Eq(g))
  <2> HIDE DEF Eq
  <2> QED BY <1>5, Zenon
<1>7. PICK g : Eq(g) /\ FoldLeft(StatusAfter, b, s) = g[1..n]
  <2>1. FoldLeft(StatusAfter, b, s) = (CHOOSE g : Eq(g))[1..n]
    BY <1>2 DEF FoldLeft, MapThenFoldSet
  <2> HIDE DEF Eq
  <2> QED BY <1>6, <2>1
<1>8. \A T \in SUBSET (1..n) : g[T] = IF T = {} THEN b ELSE StatusAfter(g[T \ {Max(T)}], s[Max(T)])
  BY <1>7
<1>9. g[{}] = b
  BY <1>8
<1>10. ASSUME NEW m \in 1..n, g[1..(m - 1)] \in ThreadStatuses
       PROVE  g[1..m] = StatusFcn[g[1..(m - 1)]][s[m]]
  <2>1. g[1..m] = StatusAfter(g[1..(m - 1)], s[m])
    BY <1>2, <1>8, MaxSegment
  <2>2. s[m] \in Event
    OBVIOUS
  <2> QED BY <1>10, <2>1, <2>2 DEF StatusFcn
<1>11. Segments(g, ThreadStatuses, b, StatusFcn, s)
  BY <1>9, <1>10 DEF Segments
<1>12. g[1..Len(s)] = Folded(StatusFcn, b, s)
  <2> HIDE DEF n, Eq
  <2>1. Folding(ThreadStatuses, Event, StatusFcn, b, s)
    BY <1>1 DEF Folding
  <2> QED BY <1>11, <2>1, FoldedSegments
<1> QED BY <1>7, <1>12

\* The same of the title.
LEMMA TitleFold ==
  ASSUME NEW b \in Nat, NEW s \in Seq(Event)
  PROVE  FoldLeft(TitleOr, b, s) = Folded(TitleFcn, b, s)
<1> DEFINE n == Len(s)
           Eq(h) == h = [T \in SUBSET (1..n) |-> IF T = {} THEN b ELSE TitleOr(h[T \ {Max(T)}], s[Max(T)])]
<1>1. Closed(TitleFcn, Nat, Event)
  BY TitleOrType DEF TitleFcn, Closed
<1>2. n \in Nat /\ s \in [1..n -> Event] /\ DOMAIN s = 1..n
  OBVIOUS
<1>3. PICK h \in [SUBSET (1..n) -> Nat] : Solves(h, n, b, TitleFcn, s)
  <2> HIDE DEF n
  <2> QED BY <1>1, <1>2, SolutionExists
<1>4. ASSUME NEW T \in SUBSET (1..n), T # {}
      PROVE  TitleFcn[h[T \ {Max(T)}]][s[Max(T)]] = TitleOr(h[T \ {Max(T)}], s[Max(T)])
  <2>1. Max(T) \in 1..n
    <3> HIDE DEF n
    <3>1. Max(T) \in T
      BY <1>2, <1>4, MaxPosition
    <3> QED BY <3>1
  <2>2. T \ {Max(T)} \in SUBSET (1..n)
    OBVIOUS
  <2>3. h[T \ {Max(T)}] \in Nat
    BY <2>2
  <2>4. s[Max(T)] \in Event
    BY <1>2, <2>1
  <2> QED BY <2>3, <2>4 DEF TitleFcn
<1>5. Eq(h)
  BY <1>3, <1>4 DEF Solves
<1>6. Eq(CHOOSE g : Eq(g))
  <2> HIDE DEF Eq
  <2> QED BY <1>5, Zenon
<1>7. PICK g : Eq(g) /\ FoldLeft(TitleOr, b, s) = g[1..n]
  <2>1. FoldLeft(TitleOr, b, s) = (CHOOSE g : Eq(g))[1..n]
    BY <1>2 DEF FoldLeft, MapThenFoldSet
  <2> HIDE DEF Eq
  <2> QED BY <1>6, <2>1
<1>8. \A T \in SUBSET (1..n) : g[T] = IF T = {} THEN b ELSE TitleOr(g[T \ {Max(T)}], s[Max(T)])
  BY <1>7
<1>9. g[{}] = b
  BY <1>8
<1>10. ASSUME NEW m \in 1..n, g[1..(m - 1)] \in Nat
       PROVE  g[1..m] = TitleFcn[g[1..(m - 1)]][s[m]]
  <2>1. g[1..m] = TitleOr(g[1..(m - 1)], s[m])
    BY <1>2, <1>8, MaxSegment
  <2>2. s[m] \in Event
    OBVIOUS
  <2> QED BY <1>10, <2>1, <2>2 DEF TitleFcn
<1>11. Segments(g, Nat, b, TitleFcn, s)
  BY <1>9, <1>10 DEF Segments
<1>12. g[1..Len(s)] = Folded(TitleFcn, b, s)
  <2> HIDE DEF n, Eq
  <2>1. Folding(Nat, Event, TitleFcn, b, s)
    BY <1>1 DEF Folding
  <2> QED BY <1>11, <2>1, FoldedSegments
<1> QED BY <1>7, <1>12

\* The status after events: of none, of one event more.
LEMMA StatusOver ==
  ASSUME NEW b \in ThreadStatuses, NEW s \in Seq(Event), NEW e \in Event
  PROVE  /\ FoldLeft(StatusAfter, b, s) \in ThreadStatuses
         /\ FoldLeft(StatusAfter, b, <<>>) = b
         /\ FoldLeft(StatusAfter, b, Append(s, e)) = StatusAfter(FoldLeft(StatusAfter, b, s), e)
<1>1. Closed(StatusFcn, ThreadStatuses, Event)
  BY StatusAfterType DEF StatusFcn, Closed
<1>2. <<>> \in Seq(Event) /\ Append(s, e) \in Seq(Event)
  OBVIOUS
<1>6. Folding(ThreadStatuses, Event, StatusFcn, b, s)
  BY <1>1 DEF Folding
<1>3. Folded(StatusFcn, b, s) \in ThreadStatuses
  BY <1>6, FoldedType
<1>4. Folded(StatusFcn, b, Append(s, e)) = StatusFcn[Folded(StatusFcn, b, s)][e]
  BY <1>6, FoldedAppend
<1>5. StatusFcn[Folded(StatusFcn, b, s)][e] = StatusAfter(Folded(StatusFcn, b, s), e)
  BY <1>3 DEF StatusFcn
<1> QED BY <1>2, <1>3, <1>4, <1>5, StatusFold, FoldedEmpty

\* The title after events: of none, of one event more.
LEMMA TitleOver ==
  ASSUME NEW b \in Nat, NEW s \in Seq(Event), NEW e \in Event
  PROVE  /\ FoldLeft(TitleOr, b, s) \in Nat
         /\ FoldLeft(TitleOr, b, <<>>) = b
         /\ FoldLeft(TitleOr, b, Append(s, e)) = TitleOr(FoldLeft(TitleOr, b, s), e)
<1>1. Closed(TitleFcn, Nat, Event)
  BY TitleOrType DEF TitleFcn, Closed
<1>2. <<>> \in Seq(Event) /\ Append(s, e) \in Seq(Event)
  OBVIOUS
<1>6. Folding(Nat, Event, TitleFcn, b, s)
  BY <1>1 DEF Folding
<1>3. Folded(TitleFcn, b, s) \in Nat
  BY <1>6, FoldedType
<1>4. Folded(TitleFcn, b, Append(s, e)) = TitleFcn[Folded(TitleFcn, b, s)][e]
  BY <1>6, FoldedAppend
<1>5. TitleFcn[Folded(TitleFcn, b, s)][e] = TitleOr(Folded(TitleFcn, b, s), e)
  BY <1>3 DEF TitleFcn
<1> QED BY <1>2, <1>3, <1>4, <1>5, TitleFold, FoldedEmpty

-----------------------------------------------------------------------------
(* The items of a thread. *)

Item == [kind : Kinds, call : Calls \cup {NoCall}, decided : BOOLEAN,
         status : ActionStatuses \cup {"none"}, first : Nat, last : Nat]

\* Items that change after they were made, and kinds whose items do not.
Changing == {"approval_required", "action_updated"}
PastKinds == ItemKinds \ {"approval_required"}

\* An event becomes an item of its kind.
LEMMA NewItemType ==
  ASSUME NEW e \in Event
  PROVE  NewItem(e) \in Item /\ NewItem(e).kind = e.kind
BY DEF NewItem, Item, Event

\* An item that is decided, or whose action has another status, keeps its kind.
LEMMA ItemChanged ==
  ASSUME NEW r \in Item, NEW e \in Event
  PROVE  /\ [r EXCEPT !.decided = TRUE] \in Item /\ [r EXCEPT !.decided = TRUE].kind = r.kind
         /\ [r EXCEPT !.status = e.status] \in Item /\ [r EXCEPT !.status = e.status].kind = r.kind
<1>1. [r EXCEPT !.decided = TRUE] \in Item /\ [r EXCEPT !.decided = TRUE].kind = r.kind
  BY DEF Item
<1>2. e.status \in ActionStatuses \cup {"none"}
  BY DEF Event
<1>3. [r EXCEPT !.status = e.status] \in Item /\ [r EXCEPT !.status = e.status].kind = r.kind
  BY <1>2 DEF Item
<1> QED BY <1>1, <1>3

\* One of the items is replaced by one of the same kind, which may change.
Touched(old, new) ==
  /\ new \in Seq(Item) /\ Len(new) = Len(old)
  /\ \A i \in 1..Len(old) : new[i] = old[i] \/ (old[i].kind \in Changing /\ new[i].kind = old[i].kind)

\* What an event does to the items: it adds one, or touches those that change.
LEMMA ApplyEventDoes ==
  ASSUME NEW items \in Seq(Item), NEW e \in Event
  PROVE  \/ e.kind \in ItemKinds \cup {"action_updated"} /\ ApplyEvent(items, e) = Append(items, NewItem(e))
         \/ e.kind \notin ItemKinds /\ Touched(items, ApplyEvent(items, e))
<1> DEFINE A == {i \in 1..Len(items) : items[i].kind = "approval_required" /\ items[i].call = e.call}
           U == {i \in 1..Len(items) : items[i].kind = "action_updated"}
           a == IF A # {} THEN Max(A) ELSE 0
           u == IF U # {} THEN Max(U) ELSE 0
<1>1. ApplyEvent(items, e) =
        CASE e.kind \in ItemKinds -> Append(items, NewItem(e))
          [] e.kind = "approval_resolved" /\ a # 0 -> [items EXCEPT ![a].decided = TRUE]
          [] e.kind = "action_updated" /\ u # 0 -> [items EXCEPT ![u].status = e.status]
          [] e.kind = "action_updated" /\ u = 0 -> Append(items, NewItem(e))
          [] OTHER -> items
  BY DEF ApplyEvent, SelectLastInSeq
<1>2. Len(items) \in Nat /\ A \in SUBSET (1..Len(items)) /\ U \in SUBSET (1..Len(items))
  OBVIOUS
<1>3. a # 0 => a \in 1..Len(items) /\ items[a].kind = "approval_required"
  <2>1. SUFFICES ASSUME A # {} PROVE a \in 1..Len(items) /\ items[a].kind = "approval_required"
    OBVIOUS
  <2>2. Max(A) \in A
    <3> HIDE DEF A
    <3> QED BY <1>2, <2>1, MaxPosition
  <2> QED BY <2>1, <2>2
<1>4. u # 0 => u \in 1..Len(items) /\ items[u].kind = "action_updated"
  <2>1. SUFFICES ASSUME U # {} PROVE u \in 1..Len(items) /\ items[u].kind = "action_updated"
    OBVIOUS
  <2>2. Max(U) \in U
    <3> HIDE DEF U
    <3> QED BY <1>2, <2>1, MaxPosition
  <2> QED BY <2>1, <2>2
<1> HIDE DEF a, u
<1>5. CASE e.kind \in ItemKinds
  BY <1>1, <1>5 DEF ItemKinds
<1>6. CASE e.kind = "approval_resolved" /\ a # 0
  <2>1. ApplyEvent(items, e) = [items EXCEPT ![a] = [items[a] EXCEPT !.decided = TRUE]]
    BY <1>1, <1>6 DEF ItemKinds
  <2>2. items[a] \in Item /\ a \in 1..Len(items) /\ items[a].kind = "approval_required"
    BY <1>3, <1>6
  <2> DEFINE r == [items[a] EXCEPT !.decided = TRUE]
  <2>3. r \in Item /\ r.kind = items[a].kind
    BY <2>2, ItemChanged
  <2> HIDE DEF r
  <2>4. [items EXCEPT ![a] = r] \in Seq(Item) /\ Len([items EXCEPT ![a] = r]) = Len(items)
    BY <2>2, <2>3, ExceptSeq
  <2>5. \A i \in 1..Len(items) : [items EXCEPT ![a] = r][i] = IF i = a THEN r ELSE items[i]
    BY <2>2
  <2>6. Touched(items, [items EXCEPT ![a] = r])
    BY <2>2, <2>3, <2>4, <2>5 DEF Touched, Changing
  <2> QED BY <1>6, <2>1, <2>6 DEF r, ItemKinds
<1>7. CASE e.kind = "action_updated" /\ u # 0
  <2>1. ApplyEvent(items, e) = [items EXCEPT ![u] = [items[u] EXCEPT !.status = e.status]]
    BY <1>1, <1>7 DEF ItemKinds
  <2>2. items[u] \in Item /\ u \in 1..Len(items) /\ items[u].kind = "action_updated"
    BY <1>4, <1>7
  <2> DEFINE r == [items[u] EXCEPT !.status = e.status]
  <2>3. r \in Item /\ r.kind = items[u].kind
    BY <2>2, ItemChanged
  <2> HIDE DEF r
  <2>4. [items EXCEPT ![u] = r] \in Seq(Item) /\ Len([items EXCEPT ![u] = r]) = Len(items)
    BY <2>2, <2>3, ExceptSeq
  <2>5. \A i \in 1..Len(items) : [items EXCEPT ![u] = r][i] = IF i = u THEN r ELSE items[i]
    BY <2>2
  <2>6. Touched(items, [items EXCEPT ![u] = r])
    BY <2>2, <2>3, <2>4, <2>5 DEF Touched, Changing
  <2> QED BY <1>7, <2>1, <2>6 DEF r, ItemKinds
<1>8. CASE e.kind = "action_updated" /\ u = 0
  BY <1>1, <1>8 DEF ItemKinds
<1>9. CASE /\ e.kind \notin ItemKinds
           /\ ~(e.kind = "approval_resolved" /\ a # 0)
           /\ e.kind # "action_updated"
  <2>1. ApplyEvent(items, e) = items
    BY <1>1, <1>9
  <2> QED BY <1>9, <2>1 DEF Touched
<1> QED BY <1>5, <1>6, <1>7, <1>8, <1>9

\* The items stay items.
LEMMA ApplyEventType ==
  ASSUME NEW items \in Seq(Item), NEW e \in Event
  PROVE  ApplyEvent(items, e) \in Seq(Item)
BY ApplyEventDoes, NewItemType DEF Touched

ItemsFcn == [v \in Seq(Item) |-> [e \in Event |-> ApplyEvent(v, e)]]

\* The fold of apply_event over events is the fold of its function.
LEMMA ItemsFold ==
  ASSUME NEW b \in Seq(Item), NEW s \in Seq(Event)
  PROVE  FoldLeft(ApplyEvent, b, s) = Folded(ItemsFcn, b, s)
<1> DEFINE n == Len(s)
           Eq(h) == h = [T \in SUBSET (1..n) |-> IF T = {} THEN b ELSE ApplyEvent(h[T \ {Max(T)}], s[Max(T)])]
<1>1. Closed(ItemsFcn, Seq(Item), Event)
  BY ApplyEventType DEF ItemsFcn, Closed
<1>2. n \in Nat /\ s \in [1..n -> Event] /\ DOMAIN s = 1..n
  OBVIOUS
<1>3. PICK h \in [SUBSET (1..n) -> Seq(Item)] : Solves(h, n, b, ItemsFcn, s)
  <2> HIDE DEF n
  <2> QED BY <1>1, <1>2, SolutionExists
<1>4. ASSUME NEW T \in SUBSET (1..n), T # {}
      PROVE  ItemsFcn[h[T \ {Max(T)}]][s[Max(T)]] = ApplyEvent(h[T \ {Max(T)}], s[Max(T)])
  <2>1. Max(T) \in 1..n
    <3> HIDE DEF n
    <3>1. Max(T) \in T
      BY <1>2, <1>4, MaxPosition
    <3> QED BY <3>1
  <2>2. T \ {Max(T)} \in SUBSET (1..n)
    OBVIOUS
  <2>3. h[T \ {Max(T)}] \in Seq(Item)
    BY <2>2
  <2>4. s[Max(T)] \in Event
    BY <1>2, <2>1
  <2> QED BY <2>3, <2>4 DEF ItemsFcn
<1>5. Eq(h)
  BY <1>3, <1>4 DEF Solves
<1>6. Eq(CHOOSE g : Eq(g))
  <2> HIDE DEF Eq
  <2> QED BY <1>5, Zenon
<1>7. PICK g : Eq(g) /\ FoldLeft(ApplyEvent, b, s) = g[1..n]
  <2>1. FoldLeft(ApplyEvent, b, s) = (CHOOSE g : Eq(g))[1..n]
    BY <1>2 DEF FoldLeft, MapThenFoldSet
  <2> HIDE DEF Eq
  <2> QED BY <1>6, <2>1
<1>8. \A T \in SUBSET (1..n) : g[T] = IF T = {} THEN b ELSE ApplyEvent(g[T \ {Max(T)}], s[Max(T)])
  BY <1>7
<1>9. g[{}] = b
  BY <1>8
<1>10. ASSUME NEW m \in 1..n, g[1..(m - 1)] \in Seq(Item)
       PROVE  g[1..m] = ItemsFcn[g[1..(m - 1)]][s[m]]
  <2>1. g[1..m] = ApplyEvent(g[1..(m - 1)], s[m])
    BY <1>2, <1>8, MaxSegment
  <2>2. s[m] \in Event
    OBVIOUS
  <2> QED BY <1>10, <2>1, <2>2 DEF ItemsFcn
<1>11. Segments(g, Seq(Item), b, ItemsFcn, s)
  BY <1>9, <1>10 DEF Segments
<1>12. g[1..Len(s)] = Folded(ItemsFcn, b, s)
  <2> HIDE DEF n, Eq
  <2>1. Folding(Seq(Item), Event, ItemsFcn, b, s)
    BY <1>1 DEF Folding
  <2> QED BY <1>11, <2>1, FoldedSegments
<1> QED BY <1>7, <1>12

\* The items of a log: of none, of one event more.
LEMMA ItemsOver ==
  ASSUME NEW s \in Seq(Event), NEW e \in Event
  PROVE  /\ ReconstructedItems(s) \in Seq(Item)
         /\ ReconstructedItems(<<>>) = <<>>
         /\ ReconstructedItems(Append(s, e)) = ApplyEvent(ReconstructedItems(s), e)
<1> DEFINE b == <<>>
<1>1. Closed(ItemsFcn, Seq(Item), Event)
  BY ApplyEventType DEF ItemsFcn, Closed
<1>2. <<>> \in Seq(Event) /\ Append(s, e) \in Seq(Event) /\ b \in Seq(Item)
  OBVIOUS
<1>3. \A q \in Seq(Event) : ReconstructedItems(q) = Folded(ItemsFcn, b, q)
  BY <1>2, ItemsFold DEF ReconstructedItems
<1> HIDE DEF b
<1>4. Folding(Seq(Item), Event, ItemsFcn, b, s)
  BY <1>1, <1>2 DEF Folding
<1>5. Folded(ItemsFcn, b, s) \in Seq(Item)
  BY <1>4, FoldedType
<1>6. Folded(ItemsFcn, b, Append(s, e)) = ItemsFcn[Folded(ItemsFcn, b, s)][e]
  BY <1>4, FoldedAppend
<1>7. ItemsFcn[Folded(ItemsFcn, b, s)][e] = ApplyEvent(Folded(ItemsFcn, b, s), e)
  BY <1>5 DEF ItemsFcn
<1>8. Folded(ItemsFcn, b, <<>>) = b
  BY FoldedEmpty
<1> QED BY <1>2, <1>3, <1>5, <1>6, <1>7, <1>8 DEF b

\* The items that do not change: of no events, of one event more.
LEMMA PastOver ==
  ASSUME NEW s \in Seq(Event), NEW e \in Event
  PROVE  /\ Past(s) \in Seq(Item)
         /\ Past(<<>>) = <<>>
         /\ Past(Append(s, e)) = IF e.kind \in PastKinds THEN Append(Past(s), NewItem(e)) ELSE Past(s)
<1> DEFINE Stable(v) == {k \in DOMAIN v : v[k].kind \notin Changing}
           old == ReconstructedItems(s)
           new == ReconstructedItems(Append(s, e))
<1>1. \A q : Past(q) = Keep(ReconstructedItems(q), Stable(ReconstructedItems(q)))
  BY DEF Past, Changing
<1>2. old \in Seq(Item) /\ ReconstructedItems(<<>>) = <<>> /\ new = ApplyEvent(old, e)
  BY ItemsOver
<1>3. Past(<<>>) = <<>>
  BY <1>1, <1>2, KeepEmpty
<1>4. Past(s) \in Seq(Item)
  BY <1>1, <1>2, KeepType
<1> DEFINE n == Len(old)
           x == NewItem(e)
<1>5. x \in Item /\ x.kind = e.kind
  BY NewItemType
<1> HIDE DEF old, new, x
<1>6. n \in Nat /\ DOMAIN old = 1..n
  BY <1>2
<1>7. ASSUME new = Append(old, x)
      PROVE  Past(Append(s, e)) = IF e.kind \notin Changing THEN Append(Past(s), x) ELSE Past(s)
  <2>1. new \in Seq(Item) /\ Len(new) = n + 1 /\ new[n + 1] = x /\ (\A i \in 1..n : new[i] = old[i]) /\ DOMAIN new = 1..(n + 1)
    BY <1>2, <1>5, <1>7
  <2>2. Keep(new, Stable(new)) = IF n + 1 \in Stable(new) THEN Append(Keep(old, Stable(new)), x) ELSE Keep(old, Stable(new))
    <3> HIDE DEF Stable
    <3> QED BY <1>2, <1>5, <1>7, KeepAppend
  <2>3. n + 1 \in Stable(new) <=> e.kind \notin Changing
    BY <1>5, <1>6, <2>1
  <2>4. \A i \in 1..n : i \in Stable(new) <=> i \in Stable(old)
    BY <1>6, <2>1
  <2>5. Keep(old, Stable(new)) = Keep(old, Stable(old))
    <3> HIDE DEF Stable
    <3> QED BY <1>2, <2>4, KeepSame
  <2>6. Past(Append(s, e)) = Keep(new, Stable(new)) /\ Past(s) = Keep(old, Stable(old))
    BY <1>1 DEF new, old
  <2> HIDE DEF Stable
  <2> QED BY <2>2, <2>3, <2>5, <2>6
<1>8. ASSUME Touched(old, new)
      PROVE  Past(Append(s, e)) = Past(s)
  <2>1. new \in Seq(Item) /\ Len(new) = n /\ DOMAIN new = 1..n
    BY <1>6, <1>8 DEF Touched
  <2>2. \A i \in 1..n : (i \in Stable(old) <=> i \in Stable(new)) /\ (i \in Stable(old) => old[i] = new[i])
    BY <1>6, <1>8, <2>1 DEF Touched
  <2>3. Keep(old, Stable(old)) = Keep(new, Stable(new))
    <3> HIDE DEF Stable
    <3> QED BY <1>2, <2>1, <2>2, KeepSame
  <2>4. Past(Append(s, e)) = Keep(new, Stable(new)) /\ Past(s) = Keep(old, Stable(old))
    BY <1>1 DEF new, old
  <2> HIDE DEF Stable
  <2> QED BY <2>3, <2>4
<1>9. \/ e.kind \in ItemKinds \cup {"action_updated"} /\ new = Append(old, x)
      \/ e.kind \notin ItemKinds /\ Touched(old, new)
  BY <1>2, ApplyEventDoes DEF x
<1>10. Past(Append(s, e)) = IF e.kind \in PastKinds THEN Append(Past(s), x) ELSE Past(s)
  <2>1. CASE e.kind \in ItemKinds \cup {"action_updated"} /\ new = Append(old, x)
    <3>1. e.kind \notin Changing <=> e.kind \in PastKinds
      BY <2>1 DEF PastKinds, ItemKinds, Changing
    <3> QED BY <1>7, <2>1, <3>1
  <2>2. CASE e.kind \notin ItemKinds /\ Touched(old, new)
    <3>1. e.kind \notin PastKinds
      BY <2>2 DEF PastKinds
    <3> QED BY <1>8, <2>2, <3>1
  <2> QED BY <1>9, <2>1, <2>2
<1> QED BY <1>3, <1>4, <1>10 DEF x

-----------------------------------------------------------------------------
(* Logs and the columns beside them. *)

Asked(l) == \E i \in DOMAIN l : l[i].kind = "user_message"
FirstAsked(l, i) == l[i].kind = "user_message" /\ \A j \in 1..(i - 1) : l[j].kind # "user_message"

\* What is true of every log: how it begins, whose calls it has, and that its
\* messages are numbered, the first one with 1.
LogOK(l) ==
  /\ l \in Seq(Event)
  /\ l # <<>> => l[1].kind = "thread_created"
  /\ \A i \in DOMAIN l : l[i].kind \in {"tool_proposed", "tool_completed"} => l[i].call \in Calls
  /\ \A i \in DOMAIN l : l[i].kind = "user_message" => l[i].text # 0
  /\ \A i \in DOMAIN l : FirstAsked(l, i) => l[i].text = 1

\* What may be appended to a log that exists.
Legal(l, e) ==
  /\ e \in Event
  /\ e.kind \in {"tool_proposed", "tool_completed"} => e.call \in Calls
  /\ e.kind = "user_message" => e.text # 0 /\ (~Asked(l) => e.text = 1)

\* The status column s is the log's, or what recovery wrote (r) and no event has replaced.
ColumnOK(l, s, r) ==
  /\ s \in ThreadStatuses /\ r \in ThreadStatuses \cup {"none"}
  /\ s = IF r = "none" THEN ReconstructedStatus(l) ELSE r

\* A log, its columns, and whether the thread has a parent.
ThreadOK(l, s, r, ti, parent) ==
  /\ LogOK(l)
  /\ ColumnOK(l, s, r)
  /\ ti \in {Given, FirstMessage(l)}
  /\ ti = Given => parent # NoThread

\* The first message: 0 of a log without one, 1 of a log with one.
LEMMA FirstMessageIs ==
  ASSUME NEW l, LogOK(l)
  PROVE  FirstMessage(l) = IF Asked(l) THEN 1 ELSE 0
<1> DEFINE I == {i \in 1..Len(l) : l[i].kind = "user_message"}
<1>1. FirstMessage(l) = IF (IF I # {} THEN Min(I) ELSE 0) = 0 THEN 0 ELSE l[IF I # {} THEN Min(I) ELSE 0].text
  BY DEF FirstMessage, SelectInSeq
<1>2. l \in Seq(Event) /\ DOMAIN l = 1..Len(l) /\ Len(l) \in Nat
  BY DEF LogOK
<1>3. CASE ~Asked(l)
  <2>1. I = {}
    BY <1>2, <1>3 DEF Asked
  <2> QED BY <1>1, <1>3, <2>1
<1>4. CASE Asked(l)
  <2>1. I # {} /\ I \in SUBSET Nat
    BY <1>2, <1>4 DEF Asked
  <2>2. \E x \in I : \A y \in I : x <= y
    <3> HIDE DEF I
    <3> QED BY <2>1, LeastNat
  <2>3. Min(I) = CHOOSE x \in I : \A y \in I : x <= y
    BY DEF Min
  <2>4. Min(I) \in I /\ \A y \in I : Min(I) <= y
    <3> HIDE DEF I
    <3> QED BY <2>2, <2>3, Zenon
  <2>5. Min(I) \in 1..Len(l) /\ FirstAsked(l, Min(I))
    <3>1. Min(I) \in 1..Len(l) /\ l[Min(I)].kind = "user_message"
      BY <2>4
    <3>2. ASSUME NEW j \in 1..(Min(I) - 1), l[j].kind = "user_message" PROVE FALSE
      <4>1. j \in I
        BY <1>2, <3>1, <3>2
      <4>2. Min(I) <= j
        <5> HIDE DEF I
        <5> QED BY <2>4, <4>1
      <4> HIDE DEF I
      <4> QED BY <1>2, <3>1, <4>2
    <3> HIDE DEF I
    <3> QED BY <3>1, <3>2 DEF FirstAsked
  <2>6. l[Min(I)].text = 1
    <3> HIDE DEF I
    <3> QED BY <1>2, <2>5 DEF LogOK
  <2>7. Min(I) # 0
    <3> HIDE DEF I
    <3> QED BY <2>5
  <2> QED BY <1>1, <1>4, <2>1, <2>6, <2>7
<1> QED BY <1>3, <1>4

\* What an append does to a log, position by position.
LEMMA Appended ==
  ASSUME NEW S, NEW l \in Seq(S), NEW e \in S
  PROVE  /\ Append(l, e) \in Seq(S) /\ Len(Append(l, e)) = Len(l) + 1 /\ Len(l) \in Nat
         /\ DOMAIN Append(l, e) = 1..(Len(l) + 1) /\ DOMAIN l = 1..Len(l)
         /\ Append(l, e)[Len(l) + 1] = e /\ \A i \in 1..Len(l) : Append(l, e)[i] = l[i]
OBVIOUS

\* There is a message after an append, or there was one before.
LEMMA AskedAppend ==
  ASSUME NEW l \in Seq(Event), NEW e \in Event
  PROVE  Asked(Append(l, e)) <=> Asked(l) \/ e.kind = "user_message"
<1> DEFINE m == Append(l, e)
           n == Len(l)
<1>1. m \in Seq(Event) /\ n \in Nat /\ DOMAIN m = 1..(n + 1) /\ DOMAIN l = 1..n /\ m[n + 1] = e /\ \A i \in 1..n : m[i] = l[i]
  BY Appended
<1> HIDE DEF m, n
<1>2. Asked(m) <=> Asked(l) \/ e.kind = "user_message"
  BY <1>1 DEF Asked
<1> QED BY <1>2 DEF m

\* A legal event keeps a log as it should be.
LEMMA LogExtended ==
  ASSUME NEW l, LogOK(l), NEW e, Legal(l, e), l # <<>>
  PROVE  LogOK(Append(l, e))
<1> DEFINE m == Append(l, e)
           n == Len(l)
<1>1. l \in Seq(Event) /\ e \in Event
  BY DEF LogOK, Legal
<1>2. m \in Seq(Event) /\ n \in Nat /\ DOMAIN m = 1..(n + 1) /\ DOMAIN l = 1..n /\ m[n + 1] = e /\ \A i \in 1..n : m[i] = l[i]
  BY <1>1, Appended
<1>3. n # 0 /\ 1 \in 1..n
  BY <1>1, <1>2, EmptySeq
<1> HIDE DEF m, n
<1>4. m[1].kind = "thread_created"
  BY <1>2, <1>3 DEF LogOK
<1>5. \A i \in DOMAIN m : m[i].kind \in {"tool_proposed", "tool_completed"} => m[i].call \in Calls
  BY <1>2 DEF LogOK, Legal
<1>6. \A i \in DOMAIN m : m[i].kind = "user_message" => m[i].text # 0
  BY <1>2 DEF LogOK, Legal
<1>7. ASSUME NEW i \in DOMAIN m, FirstAsked(m, i) PROVE m[i].text = 1
  <2>1. CASE i = n + 1
    <3>1. ~Asked(l)
      BY <1>2, <1>7, <2>1 DEF FirstAsked, Asked
    <3> QED BY <1>2, <1>7, <2>1, <3>1 DEF Legal, FirstAsked
  <2>2. CASE i # n + 1
    <3>1. i \in 1..n /\ m[i] = l[i] /\ \A j \in 1..(i - 1) : m[j] = l[j]
      BY <1>2, <2>2
    <3>2. FirstAsked(l, i)
      BY <1>7, <3>1 DEF FirstAsked
    <3> QED BY <1>2, <3>1, <3>2 DEF LogOK
  <2> QED BY <2>1, <2>2
<1>8. LogOK(m)
  BY <1>2, <1>4, <1>5, <1>6, <1>7 DEF LogOK
<1> QED BY <1>8 DEF m

\* A log without its last event was one, to which that event was legal.
LEMMA LogFront ==
  ASSUME NEW l \in Seq(Event), NEW e \in Event, LogOK(Append(l, e))
  PROVE  LogOK(l) /\ Legal(l, e)
<1> DEFINE m == Append(l, e)
           n == Len(l)
<1>1. m \in Seq(Event) /\ n \in Nat /\ DOMAIN m = 1..(n + 1) /\ DOMAIN l = 1..n /\ m[n + 1] = e /\ \A i \in 1..n : m[i] = l[i]
  BY Appended
<1>2. m # <<>> /\ (l # <<>> => 1 \in 1..n)
  <2>1. l # <<>> => n # 0
    BY EmptySeq
  <2> QED BY <1>1, <2>1
<1>3. LogOK(m)
  OBVIOUS
<1> HIDE DEF m, n
<1>4. l # <<>> => l[1].kind = "thread_created"
  BY <1>1, <1>2, <1>3 DEF LogOK
<1>5. \A i \in DOMAIN l : l[i].kind \in {"tool_proposed", "tool_completed"} => l[i].call \in Calls
  BY <1>1, <1>3 DEF LogOK
<1>6. \A i \in DOMAIN l : l[i].kind = "user_message" => l[i].text # 0
  BY <1>1, <1>3 DEF LogOK
<1>7. ASSUME NEW i \in DOMAIN l, FirstAsked(l, i) PROVE l[i].text = 1
  <2>1. i \in 1..(n + 1) /\ m[i] = l[i] /\ \A j \in 1..(i - 1) : m[j] = l[j]
    BY <1>1
  <2>2. FirstAsked(m, i)
    BY <1>7, <2>1 DEF FirstAsked
  <2> QED BY <1>1, <1>3, <2>1, <2>2 DEF LogOK
<1>8. LogOK(l)
  BY <1>4, <1>5, <1>6, <1>7 DEF LogOK
<1>9. n + 1 \in DOMAIN m
  BY <1>1
<1>10. ASSUME e.kind = "user_message", ~Asked(l) PROVE e.text = 1
  <2>1. \A j \in 1..((n + 1) - 1) : m[j].kind # "user_message"
    BY <1>1, <1>10 DEF Asked
  <2>2. FirstAsked(m, n + 1)
    BY <1>1, <1>10, <2>1 DEF FirstAsked
  <2> QED BY <1>1, <1>3, <1>9, <2>2 DEF LogOK
<1>11. Legal(l, e)
  BY <1>1, <1>3, <1>9, <1>10 DEF LogOK, Legal
<1> QED BY <1>8, <1>11

\* A log up to any of its events is a log.
LEMMA LogPrefix ==
  ASSUME NEW l, LogOK(l), NEW n \in 1..Len(l)
  PROVE  /\ LogOK(SubSeq(l, 1, n)) /\ SubSeq(l, 1, n) # <<>>
<1> DEFINE m == SubSeq(l, 1, n)
<1>1. l \in Seq(Event) /\ Len(l) \in Nat /\ DOMAIN l = 1..Len(l)
  BY DEF LogOK
<1>2. m \in Seq(Event) /\ DOMAIN m = 1..n /\ Len(m) = n /\ \A i \in 1..n : m[i] = l[i]
  BY <1>1, SubSeqProperties
<1> HIDE DEF m
<1>3. m # <<>> /\ n \in Nat /\ n # 0
  BY <1>2
<1>4. l # <<>> /\ m[1] = l[1]
  BY <1>1, <1>2, <1>3
<1>5. ASSUME NEW i \in DOMAIN m, FirstAsked(m, i) PROVE m[i].text = 1
  <2>1. i \in DOMAIN l /\ m[i] = l[i] /\ \A j \in 1..(i - 1) : m[j] = l[j]
    BY <1>1, <1>2, <1>3
  <2>2. FirstAsked(l, i)
    BY <1>5, <2>1 DEF FirstAsked
  <2> QED BY <2>1, <2>2 DEF LogOK
<1>6. \A i \in DOMAIN m : i \in DOMAIN l /\ m[i] = l[i]
  BY <1>1, <1>2
<1>7. LogOK(m)
  BY <1>2, <1>4, <1>5, <1>6 DEF LogOK
<1> QED BY <1>3, <1>7 DEF m

RecoveredAfter(r, e) == IF SetsStatus(e) THEN "none" ELSE r

\* An event that sets the status does so whatever it was, any other leaves it.
LEMMA StatusSet ==
  ASSUME NEW e \in Event, NEW s, NEW r
  PROVE  IF SetsStatus(e) THEN StatusAfter(s, e) = StatusAfter(r, e) ELSE StatusAfter(s, e) = s
<1>1. e.kind \in Kinds
  BY DEF Event
<1> QED BY <1>1 DEF SetsStatus, StatusAfter, Kinds

\* The status of a log that has one event more.
LEMMA ReconstructedAppend ==
  ASSUME NEW l \in Seq(Event), NEW e \in Event
  PROVE  /\ ReconstructedStatus(Append(l, e)) = StatusAfter(ReconstructedStatus(l), e)
         /\ ReconstructedStatus(l) \in ThreadStatuses /\ ReconstructedStatus(<<>>) = "idle"
<1>1. "idle" \in ThreadStatuses
  BY DEF ThreadStatuses
<1> QED BY <1>1, StatusOver DEF ReconstructedStatus

\* An append leaves the status in step with the log, or lets recovery's stand.
LEMMA ColumnAppend ==
  ASSUME NEW l \in Seq(Event), NEW s, NEW r, ColumnOK(l, s, r), NEW e \in Event
  PROVE  ColumnOK(Append(l, e), StatusAfter(s, e), RecoveredAfter(r, e))
<1>1. s \in ThreadStatuses /\ r \in ThreadStatuses \cup {"none"} /\ s = IF r = "none" THEN ReconstructedStatus(l) ELSE r
  BY DEF ColumnOK
<1>2. ReconstructedStatus(Append(l, e)) = StatusAfter(ReconstructedStatus(l), e) /\ StatusAfter(s, e) \in ThreadStatuses
  BY <1>1, ReconstructedAppend, StatusAfterType
<1>3. "none" \notin ThreadStatuses
  BY DEF ThreadStatuses
<1>4. CASE SetsStatus(e)
  <2>1. StatusAfter(s, e) = StatusAfter(ReconstructedStatus(l), e)
    BY <1>4, StatusSet
  <2> QED BY <1>2, <1>4, <2>1 DEF ColumnOK, RecoveredAfter
<1>5. CASE ~SetsStatus(e)
  <2>1. StatusAfter(s, e) = s /\ StatusAfter(ReconstructedStatus(l), e) = ReconstructedStatus(l)
    BY <1>5, StatusSet
  <2> QED BY <1>1, <1>2, <1>5, <2>1 DEF ColumnOK, RecoveredAfter
<1> QED BY <1>4, <1>5

\* An append leaves the columns in step with the log.
LEMMA Extended ==
  ASSUME NEW l, NEW s, NEW r, NEW ti, NEW parent, ThreadOK(l, s, r, ti, parent), NEW e, Legal(l, e), l # <<>>
  PROVE  ThreadOK(Append(l, e), StatusAfter(s, e), RecoveredAfter(r, e), TitleOr(ti, e), parent)
<1>1. LogOK(l) /\ l \in Seq(Event) /\ e \in Event
  BY DEF ThreadOK, LogOK, Legal
<1>2. LogOK(Append(l, e))
  BY <1>1, LogExtended
<1>3. ColumnOK(Append(l, e), StatusAfter(s, e), RecoveredAfter(r, e))
  BY <1>1, ColumnAppend DEF ThreadOK
<1>4. FirstMessage(l) = IF Asked(l) THEN 1 ELSE 0
  BY <1>1, FirstMessageIs
<1>5. FirstMessage(Append(l, e)) = IF Asked(Append(l, e)) THEN 1 ELSE 0
  BY <1>2, FirstMessageIs
<1>6. Asked(Append(l, e)) <=> Asked(l) \/ e.kind = "user_message"
  BY <1>1, AskedAppend
<1>7. TitleOr(ti, e) \in {Given, FirstMessage(Append(l, e))} /\ (TitleOr(ti, e) = Given => parent # NoThread)
  <2>1. CASE ti = Given
    BY <2>1 DEF TitleOr, Given, ThreadOK
  <2>2. CASE ti # Given /\ Asked(l)
    BY <1>4, <1>5, <1>6, <2>2 DEF TitleOr, ThreadOK, Given
  <2>3. CASE ti # Given /\ ~Asked(l)
    <3>1. ti = 0
      BY <1>4, <2>3 DEF ThreadOK
    <3>2. TitleOr(ti, e) = IF e.kind = "user_message" THEN e.text ELSE 0
      BY <3>1 DEF TitleOr, TitleFromEvent
    <3>3. e.kind = "user_message" => e.text = 1
      BY <2>3 DEF Legal
    <3> QED BY <1>5, <1>6, <2>3, <3>2, <3>3 DEF Given
  <2> QED BY <2>1, <2>2, <2>3
<1> QED BY <1>2, <1>3, <1>7 DEF ThreadOK

-----------------------------------------------------------------------------
(* Forks. *)

Kept(q) == Keep(q, {i \in DOMAIN q : Inheritable(q[i])})
Child(q) == <<Plain("thread_created")>> \o Inherited(q)

\* What is kept of a log with one event more.
LEMMA KeptAppend ==
  ASSUME NEW q \in Seq(Event), NEW e \in Event
  PROVE  /\ Kept(q) \in Seq(Event)
         /\ Kept(Append(q, e)) = IF Inheritable(e) THEN Append(Kept(q), e) ELSE Kept(q)
<1> DEFINE I(r) == {i \in DOMAIN r : Inheritable(r[i])}
           m == Append(q, e)
           n == Len(q)
<1>1. m \in Seq(Event) /\ n \in Nat /\ DOMAIN m = 1..(n + 1) /\ DOMAIN q = 1..n /\ m[n + 1] = e /\ \A i \in 1..n : m[i] = q[i]
  BY Appended
<1>2. Keep(m, I(m)) = IF n + 1 \in I(m) THEN Append(Keep(q, I(m)), e) ELSE Keep(q, I(m))
  <2> HIDE DEF I
  <2> QED BY KeepAppend
<1> HIDE DEF m, n
<1>3. n + 1 \in I(m) <=> Inheritable(e)
  BY <1>1
<1>4. \A i \in 1..n : i \in I(m) <=> i \in I(q)
  BY <1>1
<1>5. Keep(q, I(m)) = Keep(q, I(q))
  <2> HIDE DEF I
  <2> QED BY <1>4, KeepSame DEF n
<1>6. Keep(q, I(q)) \in Seq(Event)
  <2> HIDE DEF I
  <2> QED BY KeepType
<1>7. Kept(q) = Keep(q, I(q)) /\ Kept(m) = Keep(m, I(m))
  BY DEF Kept
<1> HIDE DEF I
<1>8. Kept(m) = IF Inheritable(e) THEN Append(Kept(q), e) ELSE Kept(q)
  BY <1>2, <1>3, <1>5, <1>7
<1> QED BY <1>6, <1>7, <1>8 DEF m

\* A log's first event is kept, so something is.
LEMMA KeptSome ==
  ASSUME NEW q, LogOK(q), q # <<>>
  PROVE  Kept(q) \in Seq(Event) /\ Kept(q) # <<>>
<1> DEFINE I == {i \in DOMAIN q : Inheritable(q[i])}
<1>1. q \in Seq(Event) /\ Len(q) \in Nat /\ DOMAIN q = 1..Len(q) /\ q[1].kind = "thread_created"
  BY DEF LogOK
<1>2. 1 \in 1..Len(q)
  BY <1>1, EmptySeq
<1>3. 1 \in I
  BY <1>1, <1>2 DEF Inheritable
<1>4. Kept(q) = Keep(q, I)
  BY DEF Kept
<1> HIDE DEF I
<1>5. PICK m : Selects(m, q, I)
  BY <1>1, KeepMap
<1>6. PICK j \in 1..Len(Keep(q, I)) : m[j] = 1
  BY <1>2, <1>3, <1>5 DEF Selects
<1>7. Keep(q, I) \in Seq(Event)
  BY <1>1, KeepType
<1>8. Keep(q, I) # <<>>
  <2>1. Len(Keep(q, I)) # 0
    BY <1>6
  <2> QED BY <2>1
<1> QED BY <1>4, <1>7, <1>8

\* What is inherited of a log with one event more.
LEMMA InheritedOver ==
  ASSUME NEW q, LogOK(q), q # <<>>, NEW e \in Event
  PROVE  /\ Inherited(q) \in Seq(Event)
         /\ Inherited(Append(q, e)) = IF Inheritable(e) THEN Append(Inherited(q), e) ELSE Inherited(q)
<1>1. q \in Seq(Event)
  BY DEF LogOK
<1>2. Kept(q) \in Seq(Event) /\ Kept(q) # <<>>
  BY KeptSome
<1>3. Kept(Append(q, e)) = IF Inheritable(e) THEN Append(Kept(q), e) ELSE Kept(q)
  BY <1>1, KeptAppend
<1>4. \A r : Inherited(r) = Tail(Kept(r))
  BY DEF Inherited, Kept
<1>5. \A k \in Seq(Event) : k # <<>> => Tail(k) \in Seq(Event) /\ Tail(Append(k, e)) = Append(Tail(k), e)
  BY HeadTailAppend
<1> QED BY <1>2, <1>3, <1>4, <1>5

\* A thread that only exists hands nothing on.
LEMMA InheritedFirst ==
  ASSUME NEW e \in Event, e.kind = "thread_created"
  PROVE  Inherited(<<e>>) = <<>>
<1>1. Kept(<<>>) = <<>>
  BY KeepEmpty DEF Kept
<1>2. <<>> \in Seq(Event) /\ <<e>> = Append(<<>>, e)
  OBVIOUS
<1>3. Inheritable(e)
  BY DEF Inheritable
<1>4. Kept(<<e>>) = <<e>>
  BY <1>1, <1>2, <1>3, KeptAppend
<1>5. Inherited(<<e>>) = Tail(Kept(<<e>>))
  BY DEF Inherited, Kept
<1> QED BY <1>4, <1>5

\* The log of a fork: it begins as every log, and grows with what is inherited.
LEMMA ChildOver ==
  ASSUME NEW q, LogOK(q), q # <<>>, NEW e \in Event
  PROVE  /\ Child(q) \in Seq(Event) /\ Child(q) # <<>>
         /\ Child(Append(q, e)) = IF Inheritable(e) THEN Append(Child(q), e) ELSE Child(q)
<1> DEFINE a == <<Plain("thread_created")>>
<1>1. a \in Seq(Event) /\ a # <<>>
  <2>1. Plain("thread_created") \in Event
    BY DEF Plain, Event, Kinds
  <2> QED BY <2>1
<1>2. Inherited(q) \in Seq(Event)
  BY InheritedOver
<1>3. Inherited(Append(q, e)) = IF Inheritable(e) THEN Append(Inherited(q), e) ELSE Inherited(q)
  BY InheritedOver
<1>4. \A r : Child(r) = a \o Inherited(r)
  BY DEF Child
<1> HIDE DEF a
<1>5. \A r \in Seq(Event) : a \o r \in Seq(Event) /\ a \o r # <<>> /\ a \o Append(r, e) = Append(a \o r, e)
  <2> TAKE r \in Seq(Event)
  <2>1. a \o r \in Seq(Event) /\ a \o r # <<>>
    BY <1>1
  <2>2. a \o Append(r, e) = Append(a \o r, e)
    BY <1>1
  <2> QED BY <2>1, <2>2
<1> QED BY <1>2, <1>3, <1>4, <1>5

\* What a fork of a log q is.
Forked(q, given, p) ==
  /\ ThreadOK(Child(q), FoldLeft(StatusAfter, "idle", Inherited(q)), "none", FoldLeft(TitleOr, given, Inherited(q)), p)
  /\ Past(Child(q)) = Past(q)
  /\ Asked(Child(q)) <=> Asked(q)

\* A thread whose log has just begun.
LEMMA Begun ==
  ASSUME NEW e \in Event, e.kind = "thread_created", NEW ti \in {0, Given}, NEW p, ti = Given => p # NoThread
  PROVE  /\ ThreadOK(<<e>>, "idle", "none", ti, p)
         /\ Past(<<e>>) = <<>>
         /\ ~Asked(<<e>>)
<1>1. <<e>> = Append(<<>>, e) /\ <<>> \in Seq(Event) /\ <<e>> \in Seq(Event) /\ DOMAIN <<e>> = 1..1 /\ <<e>>[1] = e
  OBVIOUS
<1>2. ~Asked(<<e>>)
  BY <1>1 DEF Asked
<1>3. LogOK(<<e>>)
  BY <1>1 DEF LogOK, FirstAsked
<1>4. FirstMessage(<<e>>) = 0
  BY <1>2, <1>3, FirstMessageIs
<1>5. ReconstructedStatus(<<e>>) = "idle"
  <2>1. "idle" \in ThreadStatuses
    BY DEF ThreadStatuses
  <2>2. FoldLeft(StatusAfter, "idle", Append(<<>>, e)) = StatusAfter(FoldLeft(StatusAfter, "idle", <<>>), e)
    BY <1>1, <2>1, StatusOver
  <2>4. FoldLeft(StatusAfter, "idle", <<>>) = "idle"
    BY <1>1, <2>1, StatusOver
  <2>3. StatusAfter("idle", e) = "idle"
    BY DEF StatusAfter, Event, Kinds
  <2> QED BY <1>1, <2>2, <2>3, <2>4 DEF ReconstructedStatus
<1>6. Past(<<e>>) = <<>>
  <2>1. e.kind \notin PastKinds
    BY DEF PastKinds, ItemKinds
  <2> QED BY <1>1, <2>1, PastOver
<1>7. ThreadOK(<<e>>, "idle", "none", ti, p)
  BY <1>3, <1>4, <1>5 DEF ThreadOK, ColumnOK, ThreadStatuses
<1> QED BY <1>2, <1>6, <1>7

\* One event more in the parent before it is forked.
LEMMA ForkedAppend ==
  ASSUME NEW q, LogOK(q), q # <<>>, NEW e, Legal(q, e), NEW given \in {0, Given}, NEW p, Forked(q, given, p)
  PROVE  Forked(Append(q, e), given, p)
<1>1. e \in Event /\ q \in Seq(Event) /\ Child(q) \in Seq(Event) /\ Child(q) # <<>> /\ Inherited(q) \in Seq(Event)
  BY ChildOver, InheritedOver DEF Legal, LogOK
<1>2. "idle" \in ThreadStatuses /\ given \in Nat
  BY DEF ThreadStatuses, Given
<1>3. CASE Inheritable(e)
  <2>1. Child(Append(q, e)) = Append(Child(q), e) /\ Inherited(Append(q, e)) = Append(Inherited(q), e)
    BY <1>1, <1>3, ChildOver, InheritedOver
  <2>2. Legal(Child(q), e)
    BY DEF Legal, Forked
  <2>3. ThreadOK(Append(Child(q), e), StatusAfter(FoldLeft(StatusAfter, "idle", Inherited(q)), e), "none",
                 TitleOr(FoldLeft(TitleOr, given, Inherited(q)), e), p)
    <3>1. ThreadOK(Child(q), FoldLeft(StatusAfter, "idle", Inherited(q)), "none", FoldLeft(TitleOr, given, Inherited(q)), p)
      BY DEF Forked
    <3>2. RecoveredAfter("none", e) = "none"
      BY DEF RecoveredAfter
    <3> QED BY <1>1, <2>2, <3>1, <3>2, Extended
  <2>4. FoldLeft(StatusAfter, "idle", Append(Inherited(q), e)) = StatusAfter(FoldLeft(StatusAfter, "idle", Inherited(q)), e)
    BY <1>1, <1>2, StatusOver
  <2>5. FoldLeft(TitleOr, given, Append(Inherited(q), e)) = TitleOr(FoldLeft(TitleOr, given, Inherited(q)), e)
    BY <1>1, <1>2, TitleOver
  <2>6. Past(Append(Child(q), e)) = Past(Append(q, e))
    <3>1. Past(Child(q)) = Past(q)
      BY DEF Forked
    <3> QED BY <1>1, <3>1, PastOver
  <2>7. Asked(Append(Child(q), e)) <=> Asked(Append(q, e))
    <3>1. Asked(Child(q)) <=> Asked(q)
      BY DEF Forked
    <3>2. Asked(Append(Child(q), e)) <=> Asked(Child(q)) \/ e.kind = "user_message"
      BY <1>1, AskedAppend
    <3>3. Asked(Append(q, e)) <=> Asked(q) \/ e.kind = "user_message"
      BY <1>1, AskedAppend
    <3> QED BY <3>1, <3>2, <3>3
  <2> QED BY <2>1, <2>3, <2>4, <2>5, <2>6, <2>7 DEF Forked
<1>4. CASE ~Inheritable(e)
  <2>1. Child(Append(q, e)) = Child(q) /\ Inherited(Append(q, e)) = Inherited(q)
    BY <1>1, <1>4, ChildOver, InheritedOver
  <2>2. e.kind \notin PastKinds /\ e.kind # "user_message"
    BY <1>4 DEF Inheritable, PastKinds, ItemKinds
  <2>3. Past(Append(q, e)) = Past(q)
    BY <1>1, <2>2, PastOver
  <2>4. Asked(Append(q, e)) <=> Asked(q)
    BY <1>1, <2>2, AskedAppend
  <2> QED BY <2>1, <2>3, <2>4 DEF Forked
<1> QED BY <1>3, <1>4

\* A fork of any log has its columns in step with its own log, and starts from
\* the past of that log.
LEMMA ForkedOK ==
  ASSUME NEW q, LogOK(q), q # <<>>, NEW given \in {0, Given}, NEW p, p # NoThread
  PROVE  Forked(q, given, p)
<1> DEFINE P == {r \in Seq(Event) : LogOK(r) /\ r # <<>> => Forked(r, given, p)}
<1>1. <<>> \in P
  OBVIOUS
<1>2. ASSUME NEW r \in Seq(Event), NEW e \in Event, r \in P PROVE Append(r, e) \in P
  <2>1. SUFFICES ASSUME LogOK(Append(r, e)) PROVE Forked(Append(r, e), given, p)
    OBVIOUS
  <2>2. LogOK(r) /\ Legal(r, e)
    BY <2>1, LogFront
  <2>3. CASE r = <<>>
    <3> DEFINE a == Plain("thread_created")
    <3>1. Append(r, e) = <<e>> /\ e.kind = "thread_created"
      <4>1. Append(r, e) = <<e>>
        BY <2>3
      <4>2. <<e>>[1] = e /\ <<e>> # <<>>
        OBVIOUS
      <4>3. LogOK(<<e>>)
        BY <2>1, <4>1
      <4> QED BY <4>1, <4>2, <4>3 DEF LogOK
    <3>2. a \in Event /\ a.kind = "thread_created"
      BY DEF Plain, Event, Kinds
    <3>3. Inherited(<<e>>) = <<>>
      BY <3>1, InheritedFirst
    <3> HIDE DEF a
    <3>4. Child(<<e>>) = <<a>>
      BY <3>3 DEF Child, a
    <3>5. /\ FoldLeft(StatusAfter, "idle", <<>>) = "idle" /\ FoldLeft(TitleOr, given, <<>>) = given
      <4>1. "idle" \in ThreadStatuses /\ given \in Nat /\ <<>> \in Seq(Event)
        BY DEF ThreadStatuses, Given
      <4> QED BY <4>1, StatusOver, TitleOver
    <3>6. ThreadOK(<<a>>, "idle", "none", given, p) /\ Past(<<a>>) = <<>> /\ ~Asked(<<a>>)
      BY <3>2, Begun
    <3>7. ThreadOK(<<e>>, "idle", "none", given, p) /\ Past(<<e>>) = <<>> /\ ~Asked(<<e>>)
      BY <3>1, Begun
    <3> QED BY <3>1, <3>3, <3>4, <3>5, <3>6, <3>7 DEF Forked
  <2>4. CASE r # <<>>
    BY <1>2, <2>2, <2>4, ForkedAppend
  <2> QED BY <2>3, <2>4
<1>3. Seq(Event) \subseteq P
  <2> HIDE DEF P
  <2> QED BY <1>1, <1>2, SeqInduct
<1>4. q \in Seq(Event)
  BY DEF LogOK
<1> QED BY <1>3, <1>4

-----------------------------------------------------------------------------
(* Calls and their results. *)

\* Items of a log, and the records that matching them goes through.
ItemsOf(items, l) == LogOK(l) /\ items \in Seq(1..Len(l))
Matches(n) == [pending : [Calls -> Seq(1..n)], pairs : SUBSET ((1..n) \X (1..n))]

\* An item is an event of the log, and a call or a result has a call id.
LEMMA ItemIs ==
  ASSUME NEW l, NEW items, ItemsOf(items, l), NEW k \in 1..Len(items)
  PROVE  /\ items[k] \in 1..Len(l) /\ l[items[k]] \in Event
         /\ IsCall(l, items[k]) => l[items[k]].call \in Calls /\ ~IsResult(l, items[k])
         /\ IsResult(l, items[k]) => l[items[k]].call \in Calls
<1>1. l \in Seq(Event) /\ items[k] \in 1..Len(l) /\ items[k] \in DOMAIN l
  BY DEF ItemsOf, LogOK
<1> QED BY <1>1 DEF ItemsOf, LogOK, IsCall, IsResult

\* What the next item does: a call waits, a result takes the call that has
\* waited longest, and everything else does nothing.
MatchStep(l, items, acc, k, m) ==
  LET c == l[items[k]].call
  IN  /\ m \in Matches(Len(items))
      /\ IsCall(l, items[k]) =>
            m.pairs = acc.pairs /\ m.pending = [acc.pending EXCEPT ![c] = Append(acc.pending[c], k)]
      /\ IsResult(l, items[k]) /\ acc.pending[c] # <<>> =>
            m.pairs = acc.pairs \cup {<<Head(acc.pending[c]), k>>} /\ m.pending = [acc.pending EXCEPT ![c] = Tail(acc.pending[c])]
      /\ ~IsCall(l, items[k]) /\ ~(IsResult(l, items[k]) /\ acc.pending[c] # <<>>) => m = acc

\* Match does that.
LEMMA MatchDoes ==
  ASSUME NEW l, NEW items, ItemsOf(items, l), NEW acc \in Matches(Len(items)), NEW k \in 1..Len(items)
  PROVE  MatchStep(l, items, acc, k, Match(l, items, acc, k))
<1> DEFINE N == Len(items)
           c == l[items[k]].call
           m == Match(l, items, acc, k)
           p == acc.pending
<1> SUFFICES MatchStep(l, items, acc, k, m)
  OBVIOUS
<1>1. N \in Nat /\ k \in 1..N
  BY DEF ItemsOf
<1>2. p \in [Calls -> Seq(1..N)] /\ acc.pairs \in SUBSET ((1..N) \X (1..N)) /\ acc = [pending |-> p, pairs |-> acc.pairs]
  BY DEF Matches
<1>3. CASE IsCall(l, items[k])
  <2>1. c \in Calls /\ ~IsResult(l, items[k])
    BY <1>3, ItemIs
  <2>2. m = [acc EXCEPT !.pending[c] = Append(@, k)]
    BY <1>3, <2>1 DEF Match
  <2>3. m.pairs = acc.pairs /\ m.pending = [p EXCEPT ![c] = Append(p[c], k)] /\ m = [pending |-> m.pending, pairs |-> m.pairs]
    BY <1>2, <2>2
  <2>4. [p EXCEPT ![c] = Append(p[c], k)] \in [Calls -> Seq(1..N)]
    <3>1. Append(p[c], k) \in Seq(1..N)
      BY <1>1, <1>2, <2>1
    <3> QED BY <1>2, <3>1
  <2>5. m \in Matches(N)
    BY <1>2, <2>3, <2>4 DEF Matches
  <2> HIDE DEF m
  <2> QED BY <1>3, <2>1, <2>3, <2>5 DEF MatchStep
<1>4. CASE IsResult(l, items[k]) /\ p[c] # <<>>
  <2>1. c \in Calls /\ ~IsCall(l, items[k])
    BY <1>4, ItemIs
  <2>2. m = [pending |-> [p EXCEPT ![c] = Tail(@)], pairs |-> acc.pairs \cup {<<Head(p[c]), k>>}]
    BY <1>4, <2>1 DEF Match
  <2>3. m.pending = [p EXCEPT ![c] = Tail(p[c])] /\ m.pairs = acc.pairs \cup {<<Head(p[c]), k>>}
    BY <2>2
  <2>4. Head(p[c]) \in 1..N /\ Tail(p[c]) \in Seq(1..N)
    BY <1>2, <1>4, <2>1, HeadTailProperties
  <2>5. m.pending \in [Calls -> Seq(1..N)]
    BY <1>2, <2>3, <2>4
  <2>6. m.pairs \in SUBSET ((1..N) \X (1..N))
    <3>1. <<Head(p[c]), k>> \in (1..N) \X (1..N)
      BY <1>1, <2>4
    <3> QED BY <1>2, <2>3, <3>1
  <2>7. m \in Matches(N)
    BY <2>2, <2>3, <2>5, <2>6 DEF Matches
  <2> HIDE DEF m
  <2> QED BY <1>4, <2>1, <2>3, <2>7 DEF MatchStep
<1>5. CASE ~IsCall(l, items[k]) /\ ~(IsResult(l, items[k]) /\ p[c] # <<>>)
  <2>1. m = acc
    BY <1>5 DEF Match
  <2> HIDE DEF m
  <2> QED BY <1>5, <2>1 DEF MatchStep
<1> QED BY <1>3, <1>4, <1>5

\* f is the record after each of the items.
MatchRun(f, l, items) ==
  /\ f \in [0..Len(items) -> Matches(Len(items))]
  /\ f[0] = NoMatch
  /\ \A k \in 1..Len(items) : f[k] = Match(l, items, f[k - 1], k)

\* Pairs are what the record after the last item has.
LEMMA PairsRun ==
  ASSUME NEW l, NEW items, ItemsOf(items, l)
  PROVE  \E f : MatchRun(f, l, items) /\ Pairs(l, items) = f[Len(items)].pairs
<1> DEFINE n == Len(items)
           V == Matches(n)
           E == 1..n
           s == [i \in 1..n |-> i]
           G == [v \in V |-> [e \in E |-> Match(l, items, v, e)]]
           Eq(h) == h = [T \in SUBSET (1..n) |-> IF T = {} THEN NoMatch ELSE Match(l, items, h[T \ {Max(T)}], s[Max(T)])]
<1>1. n \in Nat /\ s \in [1..n -> E] /\ DOMAIN s = 1..n /\ DOMAIN items = 1..n /\ s \in Seq(E) /\ Len(s) = n
  BY DEF ItemsOf
<1>2. Closed(G, V, E)
  <2>1. \A v \in V, e \in E : Match(l, items, v, e) \in V
    BY MatchDoes DEF MatchStep
  <2> HIDE DEF V, E
  <2> QED BY <2>1 DEF Closed
<1>3. NoMatch \in V
  BY DEF NoMatch, Matches
<1>4. \A v \in V, e \in E : G[v][e] = Match(l, items, v, e)
  OBVIOUS
<1>5. \A e \in E : s[e] = e
  OBVIOUS
<1> HIDE DEF V, G, s
<1>6. PICK h \in [SUBSET (1..n) -> V] : Solves(h, n, NoMatch, G, s)
  <2> HIDE DEF n, E
  <2> QED BY <1>1, <1>2, <1>3, SolutionExists
<1>7. ASSUME NEW T \in SUBSET (1..n), T # {}
      PROVE  G[h[T \ {Max(T)}]][s[Max(T)]] = Match(l, items, h[T \ {Max(T)}], s[Max(T)])
  <2>1. Max(T) \in 1..n
    <3> HIDE DEF n
    <3>1. Max(T) \in T
      BY <1>1, <1>7, MaxPosition
    <3> QED BY <3>1
  <2>2. T \ {Max(T)} \in SUBSET (1..n)
    OBVIOUS
  <2>3. h[T \ {Max(T)}] \in V
    BY <2>2
  <2> QED BY <1>1, <1>4, <2>1, <2>3
<1>8. Eq(h)
  BY <1>6, <1>7 DEF Solves
<1>9. Eq(CHOOSE g : Eq(g))
  <2> HIDE DEF Eq
  <2> QED BY <1>8, Zenon
<1>10. PICK g : Eq(g) /\ Pairs(l, items) = g[1..n].pairs
  <2>1. Pairs(l, items) = (CHOOSE g : Eq(g))[1..n].pairs
    BY <1>1 DEF Pairs, FoldLeftDomain, FoldLeft, MapThenFoldSet, s
  <2> HIDE DEF Eq
  <2> QED BY <1>9, <2>1
<1>11. \A T \in SUBSET (1..n) : g[T] = IF T = {} THEN NoMatch ELSE Match(l, items, g[T \ {Max(T)}], s[Max(T)])
  BY <1>10
<1>12. g[{}] = NoMatch
  BY <1>11
<1>13. ASSUME NEW m \in 1..n
       PROVE  g[1..m] = Match(l, items, g[1..(m - 1)], m)
  <2>1. Max(1..m) = m /\ (1..m) \ {Max(1..m)} = 1..(m - 1) /\ 1..m \in SUBSET (1..n) /\ 1..m # {}
    <3> HIDE DEF n
    <3> QED BY <1>1, MaxSegment
  <2>2. g[1..m] = Match(l, items, g[(1..m) \ {Max(1..m)}], s[Max(1..m)])
    BY <1>11, <2>1
  <2>3. s[m] = m
    BY <1>5
  <2> QED BY <2>1, <2>2, <2>3
<1> DEFINE f == [m \in 0..n |-> g[1..m]]
           P == {m \in 0..n : g[1..m] \in V}
<1>14. 0 \in P /\ f[0] = NoMatch
  <2>1. 1..0 = {} /\ 0 \in 0..n
    BY <1>1
  <2>2. g[1..0] = NoMatch /\ f[0] = g[1..0]
    BY <1>12, <2>1
  <2> HIDE DEF f
  <2> QED BY <1>3, <2>1, <2>2
<1>15. ASSUME NEW m \in 1..n, m - 1 \in P PROVE m \in P
  <2>1. g[1..(m - 1)] \in V
    BY <1>15
  <2>2. Match(l, items, g[1..(m - 1)], m) \in V
    BY <2>1, MatchDoes DEF V, MatchStep
  <2> QED BY <1>1, <1>13, <2>2
<1>16. 0..n \subseteq P
  <2> HIDE DEF P, n
  <2> QED BY <1>1, <1>14, <1>15, Induct
<1>17. f \in [0..n -> V]
  BY <1>16
<1>18. ASSUME NEW k \in 1..n PROVE f[k] = Match(l, items, f[k - 1], k)
  <2>1. k \in 0..n /\ k - 1 \in 0..n
    BY <1>1
  <2>2. f[k] = g[1..k] /\ f[k - 1] = g[1..(k - 1)]
    BY <2>1
  <2> HIDE DEF f
  <2> QED BY <1>13, <2>2
<1>19. f[n] = g[1..n]
  BY <1>1
<1> HIDE DEF f
<1>20. MatchRun(f, l, items)
  BY <1>14, <1>17, <1>18 DEF MatchRun, V
<1>21. Pairs(l, items) = f[n].pairs
  BY <1>10, <1>19
<1> QED BY <1>20, <1>21

\* The starts that trimming may stop at: the suffix fits and cuts no pair, or
\* nothing is left.
Starts(l, items) ==
  {k \in 1..(Len(items) + 1) : k > Len(items) \/ (Fits(l, From(items, k)) /\ Behind(Pairs(l, items), k) = {})}

\* A pair that a start would cut in two is cut by every start up to its result.
LEMMA BehindMax ==
  ASSUME NEW n \in Nat, NEW pairs \in SUBSET ((1..n) \X (1..n)), NEW k \in 1..n, Behind(pairs, k) # {}
  PROVE  /\ Max(Behind(pairs, k)) \in (k + 1)..(n + 1)
         /\ \A x \in k..(Max(Behind(pairs, k)) - 1) : Behind(pairs, x) # {}
<1> DEFINE B == Behind(pairs, k)
<1>1. \A b \in B : \E p \in pairs : p[1] < k /\ k <= p[2] /\ b = p[2] + 1
  BY DEF Behind
<1>2. B \in SUBSET ((k + 1)..(n + 1))
  <2>1. \A p \in pairs : p[1] \in 1..n /\ p[2] \in 1..n
    OBVIOUS
  <2> HIDE DEF B
  <2> QED BY <1>1, <2>1
<1>3. B \in SUBSET (1..(n + 1)) /\ B # {} /\ n + 1 \in Nat
  <2> HIDE DEF B
  <2>1. B # {}
    BY DEF B
  <2> QED BY <1>2, <2>1
<1>4. Max(B) \in B
  <2> HIDE DEF B
  <2> QED BY <1>3, MaxPosition
<1>5. PICK p \in pairs : p[1] < k /\ k <= p[2] /\ Max(B) = p[2] + 1
  BY <1>1, <1>4
<1>6. p[1] \in 1..n /\ p[2] \in 1..n
  OBVIOUS
<1>7. ASSUME NEW x \in k..(Max(B) - 1) PROVE Behind(pairs, x) # {}
  <2>1. p[1] < x /\ x <= p[2]
    <3> HIDE DEF B
    <3> QED BY <1>5, <1>6, <1>7
  <2>2. p[2] + 1 \in Behind(pairs, x)
    BY <2>1 DEF Behind
  <2> QED BY <2>2
<1>8. Max(B) \in (k + 1)..(n + 1)
  BY <1>2, <1>4
<1> QED BY <1>7, <1>8

\* The pairs of a sequence of items are pairs of its positions.
LEMMA PairsType ==
  ASSUME NEW l, NEW items, ItemsOf(items, l)
  PROVE  Len(items) \in Nat /\ Pairs(l, items) \in SUBSET ((1..Len(items)) \X (1..Len(items)))
<1>1. Len(items) \in Nat
  BY DEF ItemsOf
<1>2. PICK f : MatchRun(f, l, items) /\ Pairs(l, items) = f[Len(items)].pairs
  BY PairsRun
<1>3. f[Len(items)] \in Matches(Len(items))
  <2>1. Len(items) \in 0..Len(items)
    BY <1>1
  <2> QED BY <1>2, <2>1 DEF MatchRun
<1> QED BY <1>1, <1>2, <1>3 DEF Matches

\* trim_pair_safe_suffix stops at the first start it may stop at: the loop skips
\* only starts that do not fit or cut a pair.
LEMMA TrimIs ==
  ASSUME NEW l, NEW items, ItemsOf(items, l)
  PROVE  \E k \in Starts(l, items) : /\ \A m \in Starts(l, items) : k <= m
                                     /\ TrimPairSafeSuffix(l, items) = From(items, k)
<1> DEFINE L == Len(items)
           pairs == Pairs(l, items)
           Good == Starts(l, items)
           Step(h, k) == IF k > L THEN k
                         ELSE IF ~Fits(l, From(items, k)) THEN h[k + 1]
                         ELSE IF Behind(pairs, k) = {} THEN k
                         ELSE h[Max(Behind(pairs, k))]
           Eq(h) == h = [k \in 1..(L + 1) |-> Step(h, k)]
           Is(k, m) == m \in Good /\ m >= k /\ \A x \in Good : x >= k => m <= x
           g == [k \in 1..(L + 1) |-> CHOOSE m : Is(k, m)]
<1>1. L \in Nat /\ pairs \in SUBSET ((1..L) \X (1..L))
  BY PairsType
<1>2. /\ Good \in SUBSET (1..(L + 1)) /\ L + 1 \in Good
      /\ \A k \in 1..L : k \in Good <=> (Fits(l, From(items, k)) /\ Behind(pairs, k) = {})
  BY <1>1 DEF Starts
<1> HIDE DEF Good, L, pairs
<1>17. \A x \in Good : x \in Nat /\ x \in Int /\ x >= 1 /\ x <= L + 1
  BY <1>1, <1>2
<1>3. ASSUME NEW k \in 1..(L + 1) PROVE Is(k, g[k])
  <2> DEFINE T == {x \in Good : x >= k}
  <2>1. T \in SUBSET Nat /\ L + 1 \in T
    <3>1. L + 1 >= k /\ L + 1 \in Good
      BY <1>1, <1>2
    <3>2. \A x \in T : x \in Nat
      BY <1>17
    <3>3. L + 1 \in T
      BY <3>1
    <3> HIDE DEF T
    <3> QED BY <3>2, <3>3
  <2>2. PICK m \in T : \A x \in T : m <= x
    <3> HIDE DEF T
    <3> QED BY <2>1, LeastNat
  <2>3. Is(k, m)
    BY <2>2
  <2>4. g[k] = CHOOSE x : Is(k, x)
    BY DEF g
  <2> HIDE DEF Is, g
  <2> QED BY <2>3, <2>4, Zenon
<1>4. ASSUME NEW k \in 1..(L + 1), NEW m, Is(k, m) PROVE g[k] = m
  <2>1. Is(k, g[k])
    BY <1>3
  <2> HIDE DEF g
  <2>2. g[k] \in Nat /\ m \in Nat
    BY <1>4, <1>17, <2>1
  <2>3. g[k] <= m /\ m <= g[k]
    BY <1>4, <2>1
  <2> QED BY <2>2, <2>3
<1> HIDE DEF g
<1>5. ASSUME NEW k \in 1..(L + 1), NEW j \in k..(L + 1), \A x \in k..(j - 1) : x \notin Good PROVE g[k] = g[j]
  <2>1. j \in 1..(L + 1)
    BY <1>1
  <2>2. Is(j, g[j])
    BY <1>3, <2>1
  <2>3. \A x \in Good : x >= k => x >= j
    BY <1>1, <1>2, <1>5
  <2>4. Is(k, g[j])
    <3>1. g[j] \in Good /\ g[j] >= j /\ \A x \in Good : x >= j => g[j] <= x
      BY <2>2
    <3>2. g[j] >= k
      BY <1>1, <1>17, <3>1
    <3>3. \A x \in Good : x >= k => g[j] <= x
      BY <2>3, <3>1
    <3> QED BY <3>1, <3>2, <3>3
  <2> HIDE DEF Is
  <2> QED BY <1>4, <2>4
<1>6. ASSUME NEW k \in 1..L, Fits(l, From(items, k)), Behind(pairs, k) # {}
      PROVE  Max(Behind(pairs, k)) \in (k + 1)..(L + 1) /\ \A x \in k..(Max(Behind(pairs, k)) - 1) : x \notin Good
  <2>1. Max(Behind(pairs, k)) \in (k + 1)..(L + 1) /\ \A x \in k..(Max(Behind(pairs, k)) - 1) : Behind(pairs, x) # {}
    BY <1>1, <1>6, BehindMax
  <2>2. \A x \in k..(Max(Behind(pairs, k)) - 1) : x \in 1..L
    BY <1>1, <2>1
  <2> QED BY <1>2, <2>1, <2>2
<1>7. ASSUME NEW k \in 1..(L + 1) PROVE g[k] = Step(g, k)
  <2>1. CASE k > L
    <3>1. k = L + 1
      BY <1>1, <2>1
    <3>2. Is(k, k)
      BY <1>1, <1>2, <3>1
    <3>3. g[k] = k
      BY <1>4, <3>2
    <3> QED BY <2>1, <3>3
  <2>2. CASE k <= L /\ ~Fits(l, From(items, k))
    <3>1. k \in 1..L /\ k + 1 \in k..(L + 1) /\ \A x \in k..((k + 1) - 1) : x = k
      BY <1>1, <2>2
    <3>2. k \notin Good
      BY <1>2, <2>2, <3>1
    <3>3. g[k] = g[k + 1]
      BY <1>5, <3>1, <3>2
    <3> QED BY <1>1, <2>2, <3>3
  <2>3. CASE k <= L /\ Fits(l, From(items, k)) /\ Behind(pairs, k) = {}
    <3>1. k \in 1..L
      BY <1>1, <2>3
    <3>2. Is(k, k)
      BY <1>1, <1>2, <2>3, <3>1
    <3>3. g[k] = k
      BY <1>4, <3>2
    <3> QED BY <1>1, <2>3, <3>3
  <2>4. CASE k <= L /\ Fits(l, From(items, k)) /\ Behind(pairs, k) # {}
    <3> DEFINE j == Max(Behind(pairs, k))
    <3>1. k \in 1..L
      BY <1>1, <2>4
    <3>2. j \in (k + 1)..(L + 1) /\ \A x \in k..(j - 1) : x \notin Good
      BY <1>6, <2>4, <3>1
    <3> HIDE DEF j
    <3>3. j \in k..(L + 1)
      BY <1>1, <3>2
    <3>4. g[k] = g[j]
      BY <1>5, <3>2, <3>3
    <3> QED BY <1>1, <2>4, <3>4 DEF j
  <2> QED BY <1>1, <2>1, <2>2, <2>3, <2>4
<1>8. Eq(g)
  <2>1. g = [k \in 1..(L + 1) |-> g[k]]
    BY DEF g
  <2> HIDE DEF Step
  <2> QED BY <1>7, <2>1
<1>9. Eq(CHOOSE h : Eq(h))
  <2> HIDE DEF Eq
  <2> QED BY <1>8, Zenon
<1>10. PICK h : Eq(h) /\ TrimPairSafeSuffix(l, items) = From(items, h[1])
  <2>1. TrimPairSafeSuffix(l, items) = From(items, (CHOOSE h : Eq(h))[1])
    BY DEF TrimPairSafeSuffix, L, pairs
  <2> HIDE DEF Eq
  <2> QED BY <1>9, <2>1
<1>11. \A k \in 1..(L + 1) : h[k] = Step(h, k)
  <2>1. Eq(h)
    BY <1>10
  <2> HIDE DEF Step
  <2> QED BY <2>1
<1> DEFINE P == {d \in 0..L : \A k \in 1..(L + 1) : k >= (L + 1) - d => h[k] = g[k]}
<1>12. 0 \in P
  <2>1. ASSUME NEW k \in 1..(L + 1), k >= (L + 1) - 0 PROVE h[k] = g[k]
    <3>1. k > L
      BY <1>1, <2>1
    <3>2. h[k] = k /\ g[k] = k
      BY <1>7, <1>11, <3>1
    <3> QED BY <3>2
  <2> QED BY <1>1, <2>1
<1>13. ASSUME NEW d \in 1..L, d - 1 \in P PROVE d \in P
  <2>1. \A x \in 1..(L + 1) : x > (L + 1) - d => h[x] = g[x]
    BY <1>1, <1>13
  <2>2. ASSUME NEW k \in 1..(L + 1), k = (L + 1) - d PROVE h[k] = g[k]
    <3>1. k \in 1..L /\ k + 1 \in 1..(L + 1) /\ h[k + 1] = g[k + 1]
      BY <1>1, <2>1, <2>2
    <3>2. ASSUME Fits(l, From(items, k)), Behind(pairs, k) # {}
          PROVE  h[Max(Behind(pairs, k))] = g[Max(Behind(pairs, k))]
      <4> DEFINE j == Max(Behind(pairs, k))
      <4>1. j \in (k + 1)..(L + 1)
        BY <1>6, <3>1, <3>2
      <4> HIDE DEF j
      <4>2. h[j] = g[j]
        BY <1>1, <2>1, <2>2, <4>1
      <4> QED BY <4>2 DEF j
    <3>3. Step(h, k) = Step(g, k)
      BY <3>1, <3>2
    <3> QED BY <1>7, <1>11, <3>3
  <2>3. ASSUME NEW k \in 1..(L + 1), k >= (L + 1) - d PROVE h[k] = g[k]
    <3>1. k = (L + 1) - d \/ k > (L + 1) - d
      BY <1>1, <2>3
    <3> HIDE DEF P
    <3> QED BY <2>1, <2>2, <3>1
  <2> QED BY <1>1, <2>3
<1>14. h[1] = g[1]
  <2>1. 0..L \subseteq P
    <3> HIDE DEF P
    <3> QED BY <1>1, <1>12, <1>13, Induct
  <2>2. L \in 0..L /\ 1 \in 1..(L + 1) /\ 1 >= (L + 1) - L
    BY <1>1
  <2>3. L \in P
    <3> HIDE DEF P
    <3> QED BY <2>1, <2>2
  <2> QED BY <2>2, <2>3
<1>15. Is(1, g[1]) /\ 1 \in 1..(L + 1)
  BY <1>1, <1>3
<1>16. g[1] \in Good /\ \A m \in Good : g[1] <= m
  BY <1>1, <1>2, <1>15
<1> QED BY <1>10, <1>14, <1>16 DEF Good

-----------------------------------------------------------------------------
(* The range of a compaction. *)

\* A selection of positions, in order: those of I, each once.
LEMMA KeptPositions ==
  ASSUME NEW l, LogOK(l), NEW I
  PROVE  LET ps == Keep(Positions(l), I)
         IN  /\ ps \in Seq(1..Len(l))
             /\ \A j \in 1..Len(ps) : ps[j] \in I
             /\ \A i \in 1..Len(l) : i \in I => \E j \in 1..Len(ps) : ps[j] = i
             /\ \A i, j \in 1..Len(ps) : i < j => ps[i] < ps[j]
<1> DEFINE n == Len(l)
           s == Positions(l)
           ps == Keep(s, I)
<1>1. n \in Nat /\ DOMAIN l = 1..n
  BY DEF LogOK
<1>2. s \in Seq(1..n) /\ Len(s) = n /\ \A i \in 1..n : s[i] = i
  BY <1>1 DEF Positions
<1> HIDE DEF s, n
<1>3. ps \in Seq(1..n)
  BY <1>2, KeepType
<1>4. PICK m : Selects(m, s, I)
  BY <1>2, KeepMap
<1>5. /\ m \in [1..Len(ps) -> 1..n]
      /\ \A j \in 1..Len(ps) : m[j] \in I /\ ps[j] = s[m[j]]
      /\ \A i, j \in 1..Len(ps) : i < j => m[i] < m[j]
      /\ \A i \in 1..n : i \in I => \E j \in 1..Len(ps) : m[j] = i
  BY <1>2, <1>4 DEF Selects
<1> HIDE DEF ps
<1>6. \A j \in 1..Len(ps) : ps[j] = m[j]
  BY <1>2, <1>5
<1>7. /\ \A j \in 1..Len(ps) : ps[j] \in I
      /\ \A i, j \in 1..Len(ps) : i < j => ps[i] < ps[j]
      /\ \A i \in 1..n : i \in I => \E j \in 1..Len(ps) : ps[j] = i
  BY <1>5, <1>6
<1> QED BY <1>3, <1>7 DEF ps, s, n

\* The model items of a log are items of it, and so is what is left of them
\* without the calls and results that have no partner.
LEMMA ItemsAre ==
  ASSUME NEW l, LogOK(l)
  PROVE  /\ ItemsOf(ModelItems(l), l)
         /\ \A items : ItemsOf(items, l) => ItemsOf(DropUnpaired(l, items), l) /\ Len(DropUnpaired(l, items)) <= Len(items)
<1>1. ModelItems(l) \in Seq(1..Len(l))
  BY KeptPositions DEF ModelItems
<1>2. ASSUME NEW items, ItemsOf(items, l)
      PROVE  ItemsOf(DropUnpaired(l, items), l) /\ Len(DropUnpaired(l, items)) <= Len(items)
  <2>1. items \in Seq(1..Len(l))
    BY <1>2 DEF ItemsOf
  <2>2. \A I : Keep(items, I) \in Seq(1..Len(l)) /\ Len(Keep(items, I)) <= Len(items)
    BY <2>1, KeepType, KeepMap
  <2>3. DropUnpaired(l, items) \in Seq(1..Len(l)) /\ Len(DropUnpaired(l, items)) <= Len(items)
    BY <2>2 DEF DropUnpaired
  <2> QED BY <2>3 DEF ItemsOf
<1> QED BY <1>1, <1>2 DEF ItemsOf

\* A suffix of items, position by position.
LEMMA FromIs ==
  ASSUME NEW S, NEW items \in Seq(S), NEW k \in 1..(Len(items) + 1)
  PROVE  /\ From(items, k) \in Seq(S) /\ Len(From(items, k)) = Len(items) - k + 1
         /\ \A i \in 1..(Len(items) - k + 1) : From(items, k)[i] = items[k + i - 1]
<1>1. k \in Int /\ Len(items) \in Int /\ Len(items) \in Nat /\ \A i \in k..Len(items) : items[i] \in S
  OBVIOUS
<1>2. /\ SubSeq(items, k, Len(items)) \in Seq(S)
      /\ Len(SubSeq(items, k, Len(items))) = IF k <= Len(items) THEN Len(items) - k + 1 ELSE 0
      /\ \A i \in 1..(Len(items) - k + 1) : SubSeq(items, k, Len(items))[i] = items[k + i - 1]
  BY <1>1, SubSeqProperties
<1>3. k > Len(items) => Len(items) - k + 1 = 0
  BY <1>1
<1> QED BY <1>1, <1>2, <1>3 DEF From

\* The context is no longer than what it is built from.
LEMMA ContextLen ==
  ASSUME NEW l, NEW items, ItemsOf(items, l)
  PROVE  Len(BuildModelContext(l, items)) \in Nat /\ Len(BuildModelContext(l, items)) <= Len(items) /\ Len(items) \in Nat
<1> DEFINE d == DropUnpaired(l, items)
<1>1. LogOK(l) /\ Len(items) \in Nat
  BY DEF ItemsOf
<1>2. ItemsOf(d, l) /\ Len(d) <= Len(items)
  BY <1>1, ItemsAre
<1> HIDE DEF d
<1>3. d \in Seq(1..Len(l)) /\ Len(d) \in Nat
  BY <1>2 DEF ItemsOf
<1>4. PICK k \in Starts(l, d) : TrimPairSafeSuffix(l, d) = From(d, k)
  BY <1>2, TrimIs
<1>5. k \in 1..(Len(d) + 1)
  BY <1>4 DEF Starts
<1>6. Len(From(d, k)) = Len(d) - k + 1
  BY <1>3, <1>5, FromIs
<1>7. BuildModelContext(l, items) = From(d, k)
  BY <1>4 DEF BuildModelContext, d
<1> QED BY <1>1, <1>2, <1>3, <1>5, <1>6, <1>7

\* From the first contributing event of a log, to one, and within no other range.
IsRange(l, first, last) ==
  /\ first \in Contributing(l) /\ last \in Contributing(l)
  /\ \A j \in Contributing(l) : first <= j
  /\ \A r \in CompactedRanges(l) : ~(r[1] <= first /\ last <= r[2])

\* What maybe_compact covers is such a range.
LEMMA RangeIs ==
  ASSUME NEW l, LogOK(l), CompactionRange(l) # NoRange
  PROVE  IsRange(l, CompactionRange(l)[1], CompactionRange(l)[2])
<1> DEFINE full == ModelItems(l)
           context == BuildModelContext(l, full)
           dropped == Len(full) - Len(context)
           contributing == ContributingSeqs(l)
           n == IF dropped < Len(contributing) THEN dropped ELSE Len(contributing)
           range == <<contributing[1], contributing[n]>>
<1>1. Len(full) \in Nat /\ Len(context) \in Nat /\ Len(context) <= Len(full)
  BY ItemsAre, ContextLen
<1>2. /\ contributing \in Seq(1..Len(l))
      /\ \A j \in 1..Len(contributing) : contributing[j] \in Contributing(l)
      /\ \A i \in 1..Len(l) : i \in Contributing(l) => \E j \in 1..Len(contributing) : contributing[j] = i
      /\ \A i, j \in 1..Len(contributing) : i < j => contributing[i] < contributing[j]
  BY KeptPositions DEF ContributingSeqs, Contributing
<1>3. /\ CompactionRange(l) = range
      /\ n # 0
      /\ \A r \in CompactedRanges(l) : ~(r[1] <= range[1] /\ range[2] <= r[2])
  BY DEF CompactionRange
<1>4. CompactionRange(l)[1] = contributing[1] /\ CompactionRange(l)[2] = contributing[n]
  BY <1>3
<1>5. \A r \in CompactedRanges(l) : ~(r[1] <= contributing[1] /\ contributing[n] <= r[2])
  BY <1>3
<1> HIDE DEF contributing, full, context
<1>6. Len(contributing) \in Nat
  BY <1>2
<1>7. n \in 1..Len(contributing) /\ 1 \in 1..Len(contributing)
  BY <1>1, <1>3, <1>6
<1> HIDE DEF n
<1>8. ASSUME NEW j \in Contributing(l) PROVE contributing[1] <= j
  <2>1. j \in 1..Len(l)
    BY DEF Contributing, LogOK
  <2>2. PICK i \in 1..Len(contributing) : contributing[i] = j
    BY <1>2, <2>1
  <2>3. contributing[1] \in 1..Len(l) /\ contributing[i] \in 1..Len(l)
    BY <1>2, <1>7
  <2>4. CASE i = 1
    BY <2>2, <2>3, <2>4
  <2>5. CASE 1 < i
    BY <1>2, <1>7, <2>2, <2>3, <2>5
  <2> QED BY <1>6, <2>4, <2>5
<1> QED BY <1>2, <1>4, <1>5, <1>7, <1>8 DEF IsRange

-----------------------------------------------------------------------------
(* A thread that grows. *)

\* A prefix, position by position.
LEMMA PrefixIs ==
  ASSUME NEW S, NEW s \in Seq(S), NEW t \in Seq(S)
  PROVE  IsPrefix(s, t) <=> Len(s) <= Len(t) /\ \A i \in 1..Len(s) : s[i] = t[i]
<1> DEFINE n == Len(s)
<1>1. n \in Nat /\ n \in Int /\ 1 \in Int /\ Len(t) \in Nat
  OBVIOUS
<1>2. SubSeq(s, 1, n) = s
  BY SubSeqFull
<1>3. ASSUME n <= Len(t)
      PROVE  SubSeq(t, 1, n) \in Seq(S) /\ Len(SubSeq(t, 1, n)) = n /\ \A i \in 1..n : SubSeq(t, 1, n)[i] = t[i]
  <2>1. \A i \in 1..n : t[i] \in S
    BY <1>1, <1>3
  <2>2. /\ SubSeq(t, 1, n) \in Seq(S)
        /\ Len(SubSeq(t, 1, n)) = IF 1 <= n THEN n - 1 + 1 ELSE 0
        /\ \A i \in 1..(n - 1 + 1) : SubSeq(t, 1, n)[i] = t[1 + i - 1]
    <3> HIDE DEF n
    <3> QED BY <1>1, <2>1, SubSeqProperties
  <2> HIDE DEF n
  <2> QED BY <1>1, <2>2
<1>4. ASSUME n <= Len(t), \A i \in 1..n : s[i] = t[i] PROVE SubSeq(t, 1, n) = s
  BY <1>3, <1>4, SeqEqual
<1> QED BY <1>2, <1>3, <1>4 DEF IsPrefix

\* The past of a log is a prefix of the past of every longer one.
Grows(l, m) ==
  /\ l \in Seq(Event) /\ m \in Seq(Event) /\ Len(l) <= Len(m)
  /\ \A i \in 1..Len(l) : m[i] = l[i]
  /\ IsPrefix(Past(l), Past(m))

\* A log grows by an event.
LEMMA GrowsAppend ==
  ASSUME NEW l \in Seq(Event), NEW e \in Event
  PROVE  Grows(l, Append(l, e))
<1> DEFINE m == Append(l, e)
           p == Past(l)
           q == Past(m)
<1>1. m \in Seq(Event) /\ Len(l) <= Len(m) /\ \A i \in 1..Len(l) : m[i] = l[i]
  OBVIOUS
<1>2. p \in Seq(Item) /\ q \in Seq(Item) /\ q = IF e.kind \in PastKinds THEN Append(p, NewItem(e)) ELSE p
  BY <1>1, PastOver
<1>3. NewItem(e) \in Item
  BY NewItemType
<1> HIDE DEF p, q
<1>4. Len(p) <= Len(q) /\ \A i \in 1..Len(p) : p[i] = q[i]
  <2>1. CASE q = p
    BY <1>2, <2>1
  <2>2. CASE q = Append(p, NewItem(e))
    BY <1>2, <1>3, <2>2
  <2> QED BY <1>2, <2>1, <2>2
<1>5. IsPrefix(p, q)
  BY <1>2, <1>4, PrefixIs
<1> QED BY <1>1, <1>5 DEF Grows, p, q

\* Growing twice is growing.
LEMMA GrowsTwice ==
  ASSUME NEW k, NEW l, NEW m, Grows(k, l), Grows(l, m)
  PROVE  Grows(k, m)
<1> DEFINE p == Past(k)
           q == Past(l)
           r == Past(m)
<1>1. k \in Seq(Event) /\ l \in Seq(Event) /\ m \in Seq(Event)
  BY DEF Grows
<1>2. Len(k) <= Len(m) /\ \A i \in 1..Len(k) : m[i] = k[i]
  BY <1>1 DEF Grows
<1>3. p \in Seq(Item) /\ q \in Seq(Item) /\ r \in Seq(Item)
  <2>1. Plain("thread_created") \in Event
    BY DEF Plain, Event, Kinds
  <2> QED BY <1>1, <2>1, PastOver
<1>4. IsPrefix(p, q) /\ IsPrefix(q, r)
  BY DEF Grows
<1> HIDE DEF p, q, r
<1>5. Len(p) <= Len(q) /\ (\A i \in 1..Len(p) : p[i] = q[i]) /\ Len(q) <= Len(r) /\ (\A i \in 1..Len(q) : q[i] = r[i])
  BY <1>3, <1>4, PrefixIs
<1>6. Len(p) <= Len(r) /\ \A i \in 1..Len(p) : p[i] = r[i]
  BY <1>3, <1>5
<1>7. IsPrefix(p, r)
  BY <1>3, <1>6, PrefixIs
<1> QED BY <1>1, <1>2, <1>7 DEF Grows, p, r

\* Every summary of the log begins where its contributing events do.
FromStart(l) ==
  \A i \in DOMAIN l : l[i].kind = "context_compacted" =>
      l[i].first \in Contributing(l) /\ \A j \in Contributing(l) : l[i].first <= j

\* The contributing events of a log with one event more.
LEMMA ContributingAppend ==
  ASSUME NEW l \in Seq(Event), NEW e \in Event
  PROVE  /\ Contributing(Append(l, e)) = Contributing(l) \cup (IF Contributes(e) THEN {Len(l) + 1} ELSE {})
         /\ Contributing(l) \in SUBSET (1..Len(l))
<1> DEFINE m == Append(l, e)
           n == Len(l)
<1>1. n \in Nat /\ DOMAIN m = 1..(n + 1) /\ DOMAIN l = 1..n /\ m[n + 1] = e /\ \A i \in 1..n : m[i] = l[i]
  BY Appended
<1> HIDE DEF m, n
<1>2. Contributing(m) = Contributing(l) \cup (IF Contributes(e) THEN {n + 1} ELSE {})
  BY <1>1 DEF Contributing
<1>3. Contributing(l) \in SUBSET (1..n)
  BY <1>1 DEF Contributing
<1> QED BY <1>2, <1>3 DEF m, n

\* It stays so while events are appended whose summaries do.
LEMMA FromStartAppend ==
  ASSUME NEW l \in Seq(Event), FromStart(l), NEW e \in Event,
         e.kind = "context_compacted" => e.first \in Contributing(l) /\ \A j \in Contributing(l) : e.first <= j
  PROVE  FromStart(Append(l, e))
<1> DEFINE m == Append(l, e)
           n == Len(l)
           C == Contributing(l)
           D == Contributing(m)
<1>1. n \in Nat /\ DOMAIN m = 1..(n + 1) /\ DOMAIN l = 1..n /\ m[n + 1] = e /\ \A i \in 1..n : m[i] = l[i]
  BY Appended
<1>2. D = C \cup (IF Contributes(e) THEN {n + 1} ELSE {}) /\ C \in SUBSET (1..n)
  BY ContributingAppend
<1>3. \A i \in 1..n : l[i].kind = "context_compacted" => l[i].first \in C /\ \A j \in C : l[i].first <= j
  BY <1>1 DEF FromStart
<1> HIDE DEF m, n, C, D
<1>4. ASSUME NEW i \in DOMAIN m, m[i].kind = "context_compacted"
      PROVE  m[i].first \in C /\ \A j \in C : m[i].first <= j
  <2>1. CASE i = n + 1
    BY <1>1, <1>4, <2>1 DEF C
  <2>2. CASE i # n + 1
    <3>1. i \in 1..n /\ m[i] = l[i]
      BY <1>1, <2>2
    <3> QED BY <1>3, <1>4, <3>1
  <2> QED BY <2>1, <2>2
<1>5. ASSUME NEW f \in C, \A j \in C : f <= j PROVE f \in D /\ \A j \in D : f <= j
  <2>1. f \in 1..n
    BY <1>2
  <2>2. f <= n + 1
    BY <1>1, <2>1
  <2> QED BY <1>2, <1>5, <2>2
<1>6. FromStart(m)
  BY <1>4, <1>5 DEF FromStart, D
<1> QED BY <1>6 DEF m

\* A thread as it should be: its columns, and its summaries unless it is a fork.
Sound(l, s, r, ti, p) == ThreadOK(l, s, r, ti, p) /\ (p = NoThread => FromStart(l))

\* An event that may be appended to it.
Fine(l, e, p) ==
  /\ Legal(l, e)
  /\ p = NoThread /\ e.kind = "context_compacted" =>
        e.first \in Contributing(l) /\ \A j \in Contributing(l) : e.first <= j

\* What Sound says of the types.
LEMMA SoundType ==
  ASSUME NEW l, NEW s, NEW r, NEW ti, NEW p, Sound(l, s, r, ti, p)
  PROVE  l \in Seq(Event) /\ s \in ThreadStatuses /\ r \in ThreadStatuses \cup {"none"} /\ ti \in Nat
<1>1. LogOK(l) /\ ColumnOK(l, s, r) /\ ti \in {Given, FirstMessage(l)}
  BY DEF Sound, ThreadOK
<1>2. l \in Seq(Event)
  BY <1>1 DEF LogOK
<1>3. FirstMessage(l) \in Nat
  BY <1>1, FirstMessageIs
<1> QED BY <1>1, <1>2, <1>3 DEF Given, ColumnOK

\* One event more.
LEMMA SoundAppend ==
  ASSUME NEW l, NEW s, NEW r, NEW ti, NEW p, Sound(l, s, r, ti, p), l # <<>>, NEW e, Fine(l, e, p)
  PROVE  /\ Sound(Append(l, e), StatusAfter(s, e), RecoveredAfter(r, e), TitleOr(ti, e), p)
         /\ Grows(l, Append(l, e)) /\ Append(l, e) # <<>>
<1>1. l \in Seq(Event) /\ e \in Event
  BY DEF Sound, ThreadOK, LogOK, Fine, Legal
<1>2. ThreadOK(l, s, r, ti, p) /\ Legal(l, e)
  BY DEF Sound, Fine
<1>3. ThreadOK(Append(l, e), StatusAfter(s, e), RecoveredAfter(r, e), TitleOr(ti, e), p)
  BY <1>2, Extended
<1>4. p = NoThread => FromStart(Append(l, e))
  BY <1>1, FromStartAppend DEF Sound, Fine
<1>5. Grows(l, Append(l, e)) /\ Append(l, e) # <<>>
  BY <1>1, GrowsAppend
<1> QED BY <1>3, <1>4, <1>5 DEF Sound

\* What append_event, once or twice, leaves behind.
After(l, s, r, ti, p, events) ==
  /\ Sound(l \o events, FoldLeft(StatusAfter, s, events), StillRecovered(r, events), FoldLeft(TitleOr, ti, events), p)
  /\ Grows(l, l \o events) /\ l \o events # <<>>

\* What is left of recovery's status after one event.
LEMMA StillOne ==
  ASSUME NEW r, NEW e
  PROVE  StillRecovered(r, <<e>>) = RecoveredAfter(r, e)
<1>1. DOMAIN <<e>> = {1} /\ <<e>>[1] = e
  OBVIOUS
<1> QED BY <1>1 DEF StillRecovered, RecoveredAfter

\* What is left of recovery's status after two events.
LEMMA StillTwo ==
  ASSUME NEW r, NEW e, NEW f
  PROVE  StillRecovered(r, <<e, f>>) = RecoveredAfter(StillRecovered(r, <<e>>), f)
<1>1. DOMAIN <<e, f>> = {1, 2} /\ <<e, f>>[1] = e /\ <<e, f>>[2] = f
  OBVIOUS
<1>2. StillRecovered(r, <<e>>) = RecoveredAfter(r, e)
  BY StillOne
<1>3. StillRecovered(r, <<e, f>>) = IF SetsStatus(e) \/ SetsStatus(f) THEN "none" ELSE r
  BY <1>1 DEF StillRecovered
<1> QED BY <1>2, <1>3 DEF RecoveredAfter

\* One event is appended.
LEMMA AfterOne ==
  ASSUME NEW l, NEW s, NEW r, NEW ti, NEW p, Sound(l, s, r, ti, p), l # <<>>, NEW e, Fine(l, e, p)
  PROVE  After(l, s, r, ti, p, <<e>>)
<1>1. l \in Seq(Event) /\ s \in ThreadStatuses /\ ti \in Nat
  BY SoundType
<1>2. e \in Event /\ <<>> \in Seq(Event) /\ <<e>> = Append(<<>>, e)
  BY DEF Fine, Legal
<1>3. l \o <<e>> = Append(l, e)
  BY <1>1, <1>2, AppendIsConcat
<1>4. FoldLeft(StatusAfter, s, Append(<<>>, e)) = StatusAfter(FoldLeft(StatusAfter, s, <<>>), e) /\ FoldLeft(StatusAfter, s, <<>>) = s
  BY <1>1, <1>2, StatusOver
<1>5. FoldLeft(TitleOr, ti, Append(<<>>, e)) = TitleOr(FoldLeft(TitleOr, ti, <<>>), e) /\ FoldLeft(TitleOr, ti, <<>>) = ti
  BY <1>1, <1>2, TitleOver
<1>7. StillRecovered(r, <<e>>) = RecoveredAfter(r, e)
  BY StillOne
<1>6. Sound(Append(l, e), StatusAfter(s, e), RecoveredAfter(r, e), TitleOr(ti, e), p) /\ Grows(l, Append(l, e)) /\ Append(l, e) # <<>>
  BY SoundAppend
<1> QED BY <1>2, <1>3, <1>4, <1>5, <1>6, <1>7 DEF After

\* Two events are appended.
LEMMA AfterTwo ==
  ASSUME NEW l, NEW s, NEW r, NEW ti, NEW p, Sound(l, s, r, ti, p), l # <<>>,
         NEW e, Fine(l, e, p), NEW f, Fine(Append(l, e), f, p)
  PROVE  After(l, s, r, ti, p, <<e, f>>)
<1>1. l \in Seq(Event) /\ s \in ThreadStatuses /\ ti \in Nat
  BY SoundType
<1>2. e \in Event /\ f \in Event
  BY DEF Fine, Legal
<1>3. <<e>> \in Seq(Event) /\ <<e, f>> = Append(<<e>>, f)
  BY <1>2
<1>4. After(l, s, r, ti, p, <<e>>)
  BY AfterOne
<1>5. l \o <<e>> = Append(l, e) /\ l \o <<e, f>> = Append(l \o <<e>>, f)
  BY <1>1, <1>2
<1>6. FoldLeft(StatusAfter, s, Append(<<e>>, f)) = StatusAfter(FoldLeft(StatusAfter, s, <<e>>), f)
  BY <1>1, <1>2, <1>3, StatusOver
<1>7. FoldLeft(TitleOr, ti, Append(<<e>>, f)) = TitleOr(FoldLeft(TitleOr, ti, <<e>>), f)
  BY <1>1, <1>2, <1>3, TitleOver
<1> DEFINE m == l \o <<e>>
           s1 == FoldLeft(StatusAfter, s, <<e>>)
           t1 == FoldLeft(TitleOr, ti, <<e>>)
           r1 == StillRecovered(r, <<e>>)
<1>8. Sound(m, s1, r1, t1, p) /\ Grows(l, m) /\ m # <<>> /\ Fine(m, f, p)
  BY <1>4, <1>5 DEF After
<1> HIDE DEF m, s1, t1, r1
<1>9. Sound(Append(m, f), StatusAfter(s1, f), RecoveredAfter(r1, f), TitleOr(t1, f), p) /\ Grows(m, Append(m, f)) /\ Append(m, f) # <<>>
  BY <1>8, SoundAppend
<1>10. Grows(l, Append(m, f))
  BY <1>8, <1>9, GrowsTwice
<1>11. l \o <<e, f>> = Append(m, f)
  BY <1>5 DEF m
<1>12. StillRecovered(r, <<e, f>>) = RecoveredAfter(r1, f)
  BY StillTwo DEF r1
<1> QED BY <1>3, <1>6, <1>7, <1>9, <1>10, <1>11, <1>12 DEF After, s1, t1

-----------------------------------------------------------------------------
(* The invariant. *)

Lineage == [parent : Threads \cup {NoThread}, at : Nat]

\* What a fork of the thread whose log is l, at n, has to begin with.
Shares(l, n, child) == n \in 1..Len(l) /\ IsPrefix(Past(SubSeq(l, 1, n)), Past(child))

\* The tables: every thread is as it should be, and a fork has a parent that was
\* long enough when it was forked and whose past it shares.
StoreInv ==
  /\ log \in [Threads -> Seq(Event)] /\ status \in [Threads -> ThreadStatuses]
  /\ title \in [Threads -> Nat] /\ lineage \in [Threads -> Lineage]
  /\ recovered \in [Threads -> ThreadStatuses \cup {"none"}]
  /\ \A t \in Threads : Sound(log[t], status[t], recovered[t], title[t], lineage[t].parent)
  /\ \A t \in Threads : log[t] = <<>> => recovered[t] = "none"
  /\ \A t \in Threads : lineage[t].parent # NoThread =>
        log[t] # <<>> /\ Shares(log[lineage[t].parent], lineage[t].at, log[t])

\* Where a turn is busy with a call, and how it goes on with one.
Busy == {"tool", "waiting", "decided", "asking", "settled", "retrying"}
OpenOK(o) == o \in OpenTurns /\ (o.how \notin {"replay", "unsaved"} => o.call \in Calls)

\* The turns: only threads that exist have one, running or open, and one that is
\* busy with a call, or goes on with one, knows the call.
PhaseInv ==
  /\ phase \in [Threads -> Turns] /\ open \in [Threads -> Seq(OpenTurns)] /\ restarted \in BOOLEAN
  /\ \A t \in Threads : phase[t].at # "off" \/ open[t] # <<>> => log[t] # <<>>
  /\ \A t \in Threads : phase[t].at \in Busy => phase[t].call \in Calls
  /\ \A t \in Threads : \A i \in DOMAIN open[t] : OpenOK(open[t][i])

ThreadInv == StoreInv /\ PhaseInv

\* Prefixes of sequences of items.
LEMMA PrefixTwice ==
  ASSUME NEW p \in Seq(Item), NEW q \in Seq(Item), NEW r \in Seq(Item), IsPrefix(p, q), IsPrefix(q, r)
  PROVE  IsPrefix(p, r) /\ IsPrefix(p, p)
<1>1. Len(p) <= Len(q) /\ (\A i \in 1..Len(p) : p[i] = q[i]) /\ Len(q) <= Len(r) /\ (\A i \in 1..Len(q) : q[i] = r[i])
  BY PrefixIs
<1>2. Len(p) <= Len(r) /\ (\A i \in 1..Len(p) : p[i] = r[i]) /\ Len(p) <= Len(p)
  BY <1>1
<1> QED BY <1>2, PrefixIs

\* The past of a log is a sequence of items.
LEMMA PastType ==
  ASSUME NEW l \in Seq(Event)
  PROVE  Past(l) \in Seq(Item) /\ IsPrefix(Past(l), Past(l)) /\ Grows(l, l)
<1>1. Plain("thread_created") \in Event
  BY DEF Plain, Event, Kinds
<1>2. Past(l) \in Seq(Item)
  BY <1>1, PastOver
<1>3. IsPrefix(Past(l), Past(l))
  <2>1. Len(Past(l)) <= Len(Past(l))
    BY <1>2
  <2> QED BY <1>2, <2>1, PrefixIs
<1>4. Len(l) <= Len(l)
  OBVIOUS
<1> QED BY <1>2, <1>3, <1>4 DEF Grows

\* Parent and child grow, and what they share stays.
LEMMA SharesGrows ==
  ASSUME NEW k, NEW l, Grows(k, l), NEW c, NEW d, Grows(c, d), NEW n, Shares(k, n, c)
  PROVE  Shares(l, n, d)
<1>1. k \in Seq(Event) /\ l \in Seq(Event) /\ Len(k) <= Len(l) /\ (\A i \in 1..Len(k) : l[i] = k[i])
  BY DEF Grows
<1>2. n \in 1..Len(k) /\ n \in 1..Len(l) /\ n \in Nat
  BY <1>1 DEF Shares
<1>3. SubSeq(k, 1, n) \in Seq(Event) /\ Len(SubSeq(k, 1, n)) = n /\ \A i \in 1..n : SubSeq(k, 1, n)[i] = k[i]
  BY <1>1, <1>2
<1>4. SubSeq(l, 1, n) \in Seq(Event) /\ Len(SubSeq(l, 1, n)) = n /\ \A i \in 1..n : SubSeq(l, 1, n)[i] = l[i]
  BY <1>1, <1>2
<1>5. SubSeq(k, 1, n) = SubSeq(l, 1, n)
  <2>1. \A i \in 1..n : k[i] = l[i]
    BY <1>1, <1>2
  <2> QED BY <1>3, <1>4, <2>1, SeqEqual
<1> DEFINE p == Past(SubSeq(k, 1, n))
           q == Past(c)
           r == Past(d)
<1>6. p \in Seq(Item) /\ q \in Seq(Item) /\ r \in Seq(Item)
  BY <1>3, PastType DEF Grows
<1>7. IsPrefix(p, q) /\ IsPrefix(q, r)
  BY DEF Shares, Grows
<1>8. IsPrefix(p, r)
  <2> HIDE DEF p, q, r
  <2> QED BY <1>6, <1>7, PrefixTwice
<1> QED BY <1>2, <1>5, <1>8 DEF Shares

\* One thread of the store is written: its log grows, it is as it should be, and
\* a parent that it has is one whose past it shares.
LEMMA Written ==
  ASSUME StoreInv, NEW t \in Threads, NEW l, NEW s, NEW r, NEW ti, NEW g \in Lineage,
         log' = [log EXCEPT ![t] = l], status' = [status EXCEPT ![t] = s],
         recovered' = [recovered EXCEPT ![t] = r], title' = [title EXCEPT ![t] = ti], lineage' = [lineage EXCEPT ![t] = g],
         Sound(l, s, r, ti, g.parent), Grows(log[t], l), l # <<>>,
         g.parent # NoThread => Shares(log[g.parent], g.at, l)
  PROVE  StoreInv' /\ \A u \in Threads : log[u] # <<>> => log'[u] # <<>>
<1>1. l \in Seq(Event) /\ s \in ThreadStatuses /\ r \in ThreadStatuses \cup {"none"} /\ ti \in Nat
  BY SoundType
<1>2. /\ log' \in [Threads -> Seq(Event)] /\ status' \in [Threads -> ThreadStatuses]
      /\ title' \in [Threads -> Nat] /\ lineage' \in [Threads -> Lineage]
      /\ recovered' \in [Threads -> ThreadStatuses \cup {"none"}]
  BY <1>1 DEF StoreInv
<1>3. log'[t] = l /\ status'[t] = s /\ recovered'[t] = r /\ title'[t] = ti /\ lineage'[t] = g
  BY DEF StoreInv
<1>4. \A u \in Threads : u # t => log'[u] = log[u] /\ status'[u] = status[u] /\ recovered'[u] = recovered[u] /\ title'[u] = title[u] /\ lineage'[u] = lineage[u]
  BY DEF StoreInv
<1>5. \A u \in Threads : Sound(log'[u], status'[u], recovered'[u], title'[u], lineage'[u].parent)
  BY <1>3, <1>4 DEF StoreInv
<1>6. ASSUME NEW u \in Threads PROVE Grows(log[u], log'[u])
  <2>1. CASE u = t
    BY <1>3, <2>1
  <2>2. CASE u # t
    <3>1. log[u] \in Seq(Event)
      BY DEF StoreInv
    <3>2. Grows(log[u], log[u])
      BY <3>1, PastType
    <3> QED BY <1>4, <2>2, <3>2
  <2> QED BY <2>1, <2>2
<1>7. \A u \in Threads : log[u] # <<>> => log'[u] # <<>>
  BY <1>3, <1>4
<1>8. ASSUME NEW u \in Threads, lineage'[u].parent # NoThread
      PROVE  log'[u] # <<>> /\ Shares(log'[lineage'[u].parent], lineage'[u].at, log'[u])
  <2>1. CASE u = t
    <3>1. g.parent \in Threads
      BY <1>3, <1>8, <2>1 DEF Lineage
    <3>2. Shares(log[g.parent], g.at, l) /\ Grows(log[g.parent], log'[g.parent]) /\ Grows(l, l)
      BY <1>1, <1>3, <1>6, <1>8, <2>1, <3>1, PastType
    <3>3. Shares(log'[g.parent], g.at, l)
      BY <3>2, SharesGrows
    <3> QED BY <1>3, <2>1, <3>3
  <2>2. CASE u # t
    <3> DEFINE p == lineage[u].parent
    <3>1. p # NoThread /\ lineage'[u] = lineage[u] /\ p \in Threads
      BY <1>4, <1>8, <2>2 DEF StoreInv, Lineage
    <3>2. Shares(log[p], lineage[u].at, log[u]) /\ log[u] # <<>>
      BY <3>1 DEF StoreInv
    <3>3. Grows(log[p], log'[p]) /\ Grows(log[u], log'[u])
      BY <1>6, <3>1
    <3>4. Shares(log'[p], lineage[u].at, log'[u])
      BY <3>2, <3>3, SharesGrows
    <3> QED BY <1>7, <3>1, <3>2, <3>4
  <2> QED BY <2>1, <2>2
<1>10. \A u \in Threads : log'[u] = <<>> => recovered'[u] = "none"
  BY <1>3, <1>4 DEF StoreInv
<1>9. StoreInv'
  BY <1>2, <1>5, <1>8, <1>10 DEF StoreInv
<1> QED BY <1>7, <1>9

\* append_event keeps the store as it should be.
LEMMA AppendKeeps ==
  ASSUME StoreInv, NEW t \in Threads, NEW events, AppendEvents(t, events),
         After(log[t], status[t], recovered[t], title[t], lineage[t].parent, events)
  PROVE  StoreInv' /\ \A u \in Threads : log[u] # <<>> => log'[u] # <<>>
<1> DEFINE l == log[t] \o events
           s == FoldLeft(StatusAfter, status[t], events)
           ti == FoldLeft(TitleOr, title[t], events)
           r == StillRecovered(recovered[t], events)
           g == lineage[t]
<1>1. /\ log' = [log EXCEPT ![t] = l] /\ status' = [status EXCEPT ![t] = s]
      /\ title' = [title EXCEPT ![t] = ti] /\ lineage' = [lineage EXCEPT ![t] = g]
      /\ recovered' = [recovered EXCEPT ![t] = r]
  BY DEF AppendEvents, StoreInv
<1>2. g \in Lineage
  BY DEF StoreInv
<1>3. Sound(l, s, r, ti, g.parent) /\ Grows(log[t], l) /\ l # <<>>
  BY DEF After
<1>4. ASSUME g.parent # NoThread PROVE Shares(log[g.parent], g.at, l)
  <2>1. g.parent \in Threads
    BY <1>2, <1>4 DEF Lineage
  <2>2. log[g.parent] \in Seq(Event)
    BY <2>1 DEF StoreInv
  <2>3. Shares(log[g.parent], g.at, log[t])
    BY <1>4 DEF StoreInv
  <2>4. Grows(log[g.parent], log[g.parent])
    BY <2>2, PastType
  <2> HIDE DEF g, l
  <2> QED BY <1>3, <2>3, <2>4, SharesGrows
<1> HIDE DEF l, s, r, ti, g
<1> QED BY <1>1, <1>2, <1>3, <1>4, Written

-----------------------------------------------------------------------------
(* The invariant is inductive. *)

\* The calls, the messages and the summaries aside, every event is fine, and a
\* call or a result is fine that has its call.
LEMMA FineEvent ==
  ASSUME NEW l, NEW p, NEW e \in Event,
         e.kind \notin {"user_message", "context_compacted"},
         e.kind \in {"tool_proposed", "tool_completed"} => e.call \in Calls
  PROVE  Fine(l, e, p)
BY DEF Fine, Legal

\* The next message of a thread is numbered as it should be.
LEMMA FineMessage ==
  ASSUME StoreInv, NEW t \in Threads, NEW p
  PROVE  Fine(log[t], [Plain("user_message") EXCEPT !.text = UserMessages(t) + 1], p)
<1> DEFINE l == log[t]
           U == {i \in DOMAIN l : l[i].kind \in {"user_message"}}
           n == UserMessages(t) + 1
           e == [Plain("user_message") EXCEPT !.text = n]
<1>1. l \in Seq(Event) /\ DOMAIN l = 1..Len(l) /\ Len(l) \in Nat
  BY DEF StoreInv
<1>2. UserMessages(t) = Cardinality(U)
  BY DEF UserMessages, OfKinds
<1>3. IsFiniteSet(U)
  <2>1. U \in SUBSET Nat /\ \A u \in U : u <= Len(l)
    BY <1>1
  <2> HIDE DEF U
  <2> QED BY <1>1, <2>1, FS_BoundedSetOfNaturals
<1>4. Cardinality(U) \in Nat
  <2> HIDE DEF U
  <2> QED BY <1>3, FS_CardinalityType
<1>5. ~Asked(l) => U = {}
  BY DEF Asked
<1>6. ~Asked(l) => n = 1
  <2> HIDE DEF U, l
  <2> QED BY <1>2, <1>5, FS_EmptySet
<1>7. n \in Nat /\ n # 0
  <2> HIDE DEF U
  <2> QED BY <1>2, <1>4
<1> HIDE DEF n
<1>8. e \in Event /\ e.kind = "user_message" /\ e.text = n
  <2>1. "user_message" \in Kinds
    BY DEF Kinds
  <2> QED BY <1>7, <2>1 DEF Plain, Event
<1> HIDE DEF e, l
<1>9. Fine(l, e, p)
  BY <1>6, <1>7, <1>8 DEF Fine, Legal
<1> QED BY <1>9 DEF e, l, n

\* What StoreInv says of a thread that exists.
LEMMA ThreadSound ==
  ASSUME StoreInv, NEW t \in Threads
  PROVE  /\ Sound(log[t], status[t], recovered[t], title[t], lineage[t].parent) /\ LogOK(log[t])
         /\ log[t] \in Seq(Event) /\ lineage[t].parent \in Threads \cup {NoThread}
<1>1. Sound(log[t], status[t], recovered[t], title[t], lineage[t].parent)
  BY DEF StoreInv
<1>2. LogOK(log[t])
  BY <1>1 DEF Sound, ThreadOK
<1>3. log[t] \in Seq(Event) /\ lineage[t].parent \in Threads \cup {NoThread}
  BY DEF StoreInv, Lineage
<1> QED BY <1>1, <1>2, <1>3

\* The store is as it should be after a step, and no thread is lost.
StoreKept == StoreInv' /\ \A u \in Threads : log[u] # <<>> => log'[u] # <<>>

\* One event.
LEMMA OneEvent ==
  ASSUME StoreInv, NEW t \in Threads, Exists(t), NEW e, AppendEvents(t, <<e>>), Fine(log[t], e, lineage[t].parent)
  PROVE  StoreKept
<1>1. Sound(log[t], status[t], recovered[t], title[t], lineage[t].parent) /\ log[t] # <<>>
  BY ThreadSound DEF Exists
<1>2. After(log[t], status[t], recovered[t], title[t], lineage[t].parent, <<e>>)
  BY <1>1, AfterOne
<1> QED BY <1>2, AppendKeeps DEF StoreKept

\* Two events.
LEMMA TwoEvents ==
  ASSUME StoreInv, NEW t \in Threads, Exists(t), NEW e, NEW f, AppendEvents(t, <<e, f>>),
         Fine(log[t], e, lineage[t].parent), Fine(Append(log[t], e), f, lineage[t].parent)
  PROVE  StoreKept
<1>1. Sound(log[t], status[t], recovered[t], title[t], lineage[t].parent) /\ log[t] # <<>>
  BY ThreadSound DEF Exists
<1>2. After(log[t], status[t], recovered[t], title[t], lineage[t].parent, <<e, f>>)
  BY <1>1, AfterTwo
<1> QED BY <1>2, AppendKeeps DEF StoreKept

\* The store is not written.
LEMMA NotWritten ==
  ASSUME StoreInv, UNCHANGED <<log, status, title, lineage, recovered>>
  PROVE  StoreKept
BY DEF StoreKept, StoreInv

\* create_thread.
LEMMA CreateKeeps ==
  ASSUME StoreInv, NEW t \in Threads, CreateThread(t)
  PROVE  StoreKept
<1> DEFINE e == Plain("thread_created")
           g == lineage[t]
<1>1. e \in Event /\ e.kind = "thread_created"
  BY DEF Plain, Event, Kinds
<1>2. log[t] = <<>> /\ g \in Lineage
  BY DEF CreateThread, Exists, StoreInv
<1>3. g.parent = NoThread
  BY <1>2 DEF StoreInv
<1> HIDE DEF e
<1>4. ThreadOK(<<e>>, "idle", "none", 0, NoThread)
  <2>1. 0 \in {0, Given} /\ 0 # Given
    BY DEF Given
  <2> QED BY <1>1, <2>1, Begun
<1>5. FromStart(<<e>>)
  <2>1. DOMAIN <<e>> = 1..1 /\ <<e>>[1] = e
    OBVIOUS
  <2> QED BY <1>1, <2>1 DEF FromStart
<1>6. Sound(<<e>>, "idle", "none", 0, g.parent)
  BY <1>3, <1>4, <1>5 DEF Sound
<1>7. Grows(log[t], <<e>>)
  <2>1. <<e>> = Append(<<>>, e) /\ <<>> \in Seq(Event)
    OBVIOUS
  <2> QED BY <1>1, <1>2, <2>1, GrowsAppend
<1>8. <<e>> # <<>>
  OBVIOUS
<1>9. /\ log' = [log EXCEPT ![t] = <<e>>] /\ status' = [status EXCEPT ![t] = "idle"]
      /\ title' = [title EXCEPT ![t] = 0] /\ lineage' = [lineage EXCEPT ![t] = g]
  BY DEF CreateThread, StoreInv, e
<1>10. recovered' = [recovered EXCEPT ![t] = "none"]
  BY <1>2 DEF CreateThread, StoreInv
<1> HIDE DEF g
<1> QED BY <1>2, <1>3, <1>6, <1>7, <1>8, <1>9, <1>10, Written DEF StoreKept

\* fork_thread.
LEMMA ForkKeeps ==
  ASSUME StoreInv, NEW t \in Threads, NEW new \in Threads, NEW n, NEW given \in {0, Given}, ForkThread(t, n, new, given)
  PROVE  StoreKept
<1> DEFINE q == SubSeq(log[t], 1, n)
           l == Child(q)
           s == FoldLeft(StatusAfter, "idle", Inherited(q))
           ti == FoldLeft(TitleOr, given, Inherited(q))
           g == [parent |-> t, at |-> n]
<1>1. LogOK(log[t]) /\ n \in 1..Len(log[t]) /\ log[new] = <<>>
  BY ThreadSound DEF ForkThread, Exists
<1>2. LogOK(q) /\ q # <<>>
  BY <1>1, LogPrefix
<1>3. t # NoThread
  BY ThreadsAssumption
<1> HIDE DEF q
<1>4. Forked(q, given, t)
  BY <1>2, <1>3, ForkedOK
<1>5. ThreadOK(l, s, "none", ti, t) /\ Past(l) = Past(q)
  BY <1>4 DEF Forked
<1>6. g \in Lineage /\ g.parent = t /\ g.at = n
  <2>1. n \in Nat
    BY <1>1 DEF LogOK
  <2> QED BY <2>1 DEF Lineage
<1>7. Sound(l, s, "none", ti, g.parent)
  BY <1>3, <1>5, <1>6 DEF Sound
<1>8. l # <<>> /\ l \in Seq(Event)
  <2>1. Plain("thread_created") \in Event
    BY DEF Plain, Event, Kinds
  <2> QED BY <1>2, <2>1, ChildOver
<1>9. Grows(log[new], l)
  <2>1. Past(l) \in Seq(Item) /\ Past(<<>>) = <<>> /\ <<>> \in Seq(Event) /\ <<>> \in Seq(Item) /\ Len(<<>>) = 0
    <3>1. Plain("thread_created") \in Event /\ <<>> \in Seq(Event)
      BY DEF Plain, Event, Kinds
    <3> QED BY <1>8, <3>1, PastOver
  <2> HIDE DEF l
  <2>2. Len(<<>>) <= Len(l) /\ Len(<<>>) <= Len(Past(l)) /\ 1..Len(<<>>) = {}
    BY <1>8, <2>1
  <2>3. IsPrefix(<<>>, Past(l))
    BY <2>1, <2>2, PrefixIs
  <2> QED BY <1>1, <1>8, <2>1, <2>2, <2>3 DEF Grows
<1>10. Shares(log[g.parent], g.at, l)
  <2>1. q \in Seq(Event)
    BY <1>2 DEF LogOK
  <2>2. IsPrefix(Past(q), Past(q))
    BY <2>1, PastType
  <2> HIDE DEF l
  <2> QED BY <1>1, <1>5, <1>6, <2>2 DEF Shares, q
<1>11. /\ log' = [log EXCEPT ![new] = l] /\ status' = [status EXCEPT ![new] = s]
       /\ title' = [title EXCEPT ![new] = ti] /\ lineage' = [lineage EXCEPT ![new] = g]
  BY DEF ForkThread, Child, q
<1>12. recovered' = [recovered EXCEPT ![new] = "none"]
  BY <1>1 DEF ForkThread, StoreInv
<1> HIDE DEF l, s, ti, g
<1> QED BY <1>6, <1>7, <1>8, <1>9, <1>10, <1>11, <1>12, Written DEF StoreKept

\* The turn of a thread that exists gets a phase.
LEMMA PhaseSet ==
  ASSUME PhaseInv, StoreKept, NEW t \in Threads, NEW r \in Turns, phase' = [phase EXCEPT ![t] = r],
         UNCHANGED <<open, restarted>>, log[t] # <<>>, r.at \in Busy => r.call \in Calls
  PROVE  PhaseInv'
<1>1. phase' \in [Threads -> Turns] /\ phase'[t] = r /\ \A u \in Threads : u # t => phase'[u] = phase[u]
  BY DEF PhaseInv
<1>2. \A u \in Threads : phase'[u].at # "off" \/ open'[u] # <<>> => log'[u] # <<>>
  BY <1>1 DEF PhaseInv, StoreKept
<1>3. \A u \in Threads : phase'[u].at \in Busy => phase'[u].call \in Calls
  BY <1>1 DEF PhaseInv
<1>4. \A u \in Threads : \A i \in DOMAIN open'[u] : OpenOK(open'[u][i])
  BY DEF PhaseInv
<1>5. open' \in [Threads -> Seq(OpenTurns)] /\ restarted' \in BOOLEAN
  BY DEF PhaseInv
<1> QED BY <1>1, <1>2, <1>3, <1>4, <1>5 DEF PhaseInv

\* No turn moves.
LEMMA PhaseStays ==
  ASSUME PhaseInv, StoreKept, UNCHANGED turnVars
  PROVE  PhaseInv'
BY DEF PhaseInv, StoreKept, turnVars

\* A turn that is on belongs to a thread that exists.
LEMMA OnExists ==
  ASSUME PhaseInv, NEW t \in Threads, phase[t].at # "off"
  PROVE  Exists(t) /\ log[t] # <<>> /\ phase[t] \in Turns
BY DEF PhaseInv, Exists

\* The turn of t goes to r, and no other turn moves.
Moves(t, r) == r \in Turns /\ phase' = [phase EXCEPT ![t] = r] /\ UNCHANGED <<open, restarted>>

\* Go sets the phase, and only that.
LEMMA GoIs ==
  ASSUME PhaseInv, NEW t \in Threads, NEW p \in Phases, Go(t, p)
  PROVE  \E r \in Turns : r.at = p /\ r.call = phase[t].call /\ Moves(t, r)
<1> DEFINE r == [at |-> p, call |-> phase[t].call, called |-> phase[t].called, fresh |-> phase[t].fresh]
<1>1. phase[t] \in Turns /\ phase \in [Threads -> Turns]
  BY DEF PhaseInv
<1>2. r \in Turns /\ r.at = p /\ r.call = phase[t].call
  BY <1>1 DEF Turns
<1>3. phase' = [phase EXCEPT ![t] = r]
  <2>1. [phase[t] EXCEPT !.at = p] = r
    BY <1>1 DEF Turns
  <2> HIDE DEF r
  <2> QED BY <1>1, <2>1 DEF Go
<1> QED BY <1>2, <1>3 DEF Moves, Go

\* What the actions that set several fields of a turn make of it.
LEMMA TurnSet ==
  ASSUME NEW x \in Turns, NEW p \in Phases, NEW c \in Calls \cup {NoCall}
  PROVE  /\ [x EXCEPT !.at = p, !.call = c] = [at |-> p, call |-> c, called |-> x.called, fresh |-> x.fresh]
         /\ [x EXCEPT !.at = p, !.called = FALSE] = [at |-> p, call |-> x.call, called |-> FALSE, fresh |-> x.fresh]
         /\ [x EXCEPT !.at = p, !.call = c, !.called = TRUE] = [at |-> p, call |-> c, called |-> TRUE, fresh |-> x.fresh]
<1>1. ASSUME NEW y, y = [x EXCEPT !.at = p, !.call = c]
      PROVE  y = [at |-> p, call |-> c, called |-> x.called, fresh |-> x.fresh]
  <2>1. y \in Turns /\ y.at = p /\ y.call = c /\ y.called = x.called /\ y.fresh = x.fresh
    BY <1>1 DEF Turns
  <2> QED BY <2>1 DEF Turns
<1>2. ASSUME NEW y, y = [x EXCEPT !.at = p, !.called = FALSE]
      PROVE  y = [at |-> p, call |-> x.call, called |-> FALSE, fresh |-> x.fresh]
  <2>1. y \in Turns /\ y.at = p /\ y.call = x.call /\ y.called = FALSE /\ y.fresh = x.fresh
    BY <1>2 DEF Turns
  <2> QED BY <2>1 DEF Turns
<1>3. ASSUME NEW y, y = [x EXCEPT !.at = p, !.call = c, !.called = TRUE]
      PROVE  y = [at |-> p, call |-> c, called |-> TRUE, fresh |-> x.fresh]
  <2>1. y \in Turns /\ y.at = p /\ y.call = c /\ y.called = TRUE /\ y.fresh = x.fresh
    BY <1>3 DEF Turns
  <2> QED BY <2>1 DEF Turns
<1> QED BY <1>1, <1>2, <1>3

\* GoWith sets the phase and the call.
LEMMA GoWithIs ==
  ASSUME PhaseInv, NEW t \in Threads, NEW p \in Phases, NEW c \in Calls \cup {NoCall}, GoWith(t, p, c)
  PROVE  \E r \in Turns : r.at = p /\ r.call = c /\ Moves(t, r)
<1> DEFINE r == [at |-> p, call |-> c, called |-> phase[t].called, fresh |-> phase[t].fresh]
<1>1. phase[t] \in Turns /\ phase \in [Threads -> Turns]
  BY DEF PhaseInv
<1>2. r \in Turns /\ r.at = p /\ r.call = c
  BY <1>1 DEF Turns
<1>3. phase' = [phase EXCEPT ![t] = r]
  <2>1. [phase[t] EXCEPT !.at = p, !.call = c] = r
    BY <1>1, TurnSet
  <2> HIDE DEF r
  <2> QED BY <1>1, <2>1 DEF GoWith
<1> QED BY <1>2, <1>3 DEF Moves, GoWith

\* A turn that is on moves while the store is kept.
LEMMA MoveKeeps ==
  ASSUME ThreadInv, StoreKept, NEW t \in Threads, log[t] # <<>>, NEW r, Moves(t, r), r.at \in Busy => r.call \in Calls
  PROVE  ThreadInv'
<1>1. PhaseInv'
  BY PhaseSet DEF ThreadInv, Moves
<1> QED BY <1>1 DEF ThreadInv, StoreKept

\* A turn that is on appends one event that is fine, and goes to another phase.
LEMMA OnKeeps ==
  ASSUME ThreadInv, NEW t \in Threads, phase[t].at # "off", NEW e \in Event, AppendEvents(t, <<e>>),
         e.kind \notin {"user_message", "context_compacted"},
         e.kind \in {"tool_proposed", "tool_completed"} => e.call \in Calls,
         NEW r, Moves(t, r), r.at \in Busy => r.call \in Calls
  PROVE  ThreadInv'
<1>1. StoreInv /\ PhaseInv
  BY DEF ThreadInv
<1>2. Exists(t) /\ log[t] # <<>>
  BY <1>1, OnExists
<1>3. Fine(log[t], e, lineage[t].parent)
  BY FineEvent
<1>4. StoreKept
  BY <1>1, <1>2, <1>3, OneEvent
<1> QED BY <1>2, <1>4, MoveKeeps

\* A turn starts, its message is recorded, and it begins.
LEMMA TurnBeginsKeeps ==
  ASSUME ThreadInv, NEW t \in Threads, TurnStarts(t) \/ UserAsks(t) \/ TurnBegins(t)
  PROVE  ThreadInv'
<1>1. StoreInv /\ PhaseInv
  BY DEF ThreadInv
<1>2. {"starting", "asked", "step"} \subseteq Phases /\ {"starting", "asked", "step"} \cap Busy = {}
  BY DEF Phases, Busy
<1>3. CASE TurnStarts(t)
  <2> DEFINE r == [Off EXCEPT !.at = "starting", !.fresh = TRUE]
  <2>1. r \in Turns /\ r.at = "starting"
    BY DEF Off, Turns, Phases
  <2>2. phase' = [phase EXCEPT ![t] = r] /\ UNCHANGED <<open, restarted>> /\ log[t] # <<>>
    BY <1>3 DEF TurnStarts, Exists
  <2>3. StoreKept
    BY <1>1, <1>3, NotWritten DEF TurnStarts
  <2> HIDE DEF r
  <2>4. Moves(t, r)
    BY <2>1, <2>2 DEF Moves
  <2> QED BY <1>2, <2>1, <2>2, <2>3, <2>4, MoveKeeps
<1>4. CASE UserAsks(t)
  <2> DEFINE e == [Plain("user_message") EXCEPT !.text = UserMessages(t) + 1]
  <2>1. phase[t].at # "off" /\ AppendEvents(t, <<e>>) /\ Go(t, "asked")
    BY <1>4 DEF UserAsks, At
  <2>2. Exists(t) /\ log[t] # <<>>
    BY <1>1, <2>1, OnExists
  <2>3. Fine(log[t], e, lineage[t].parent)
    BY <1>1, FineMessage
  <2>4. PICK r \in Turns : r.at = "asked" /\ r.call = phase[t].call /\ Moves(t, r)
    BY <1>1, <1>2, <2>1, GoIs
  <2> HIDE DEF e
  <2>5. StoreKept
    BY <1>1, <2>1, <2>2, <2>3, OneEvent
  <2> QED BY <1>2, <2>2, <2>4, <2>5, MoveKeeps
<1>5. CASE TurnBegins(t)
  <2> DEFINE e == Plain("turn_started")
  <2>1. phase[t].at # "off" /\ AppendEvents(t, <<e>>) /\ Go(t, "step")
    BY <1>5 DEF TurnBegins, At
  <2>2. e \in Event /\ e.kind = "turn_started"
    BY DEF Plain, Event, Kinds
  <2>3. PICK r \in Turns : r.at = "step" /\ r.call = phase[t].call /\ Moves(t, r)
    BY <1>1, <1>2, <2>1, GoIs
  <2> HIDE DEF e
  <2> QED BY <1>2, <2>1, <2>2, <2>3, OnKeeps
<1> QED BY <1>3, <1>4, <1>5

\* A compaction, or none.
LEMMA MaybeCompactKeeps ==
  ASSUME ThreadInv, NEW t \in Threads, MaybeCompact(t)
  PROVE  ThreadInv'
<1> DEFINE range == CompactionRange(log[t])
           e == [Plain("context_compacted") EXCEPT !.first = range[1], !.last = range[2]]
           r == [at |-> "model", call |-> phase[t].call, called |-> FALSE, fresh |-> phase[t].fresh]
<1>1. StoreInv /\ PhaseInv /\ phase[t].at = "step"
  BY DEF ThreadInv, MaybeCompact, At
<1>2. Exists(t) /\ log[t] # <<>>
  BY <1>1, OnExists
<1>3. LogOK(log[t])
  BY <1>1, ThreadSound
<1>4. StoreKept
  <2>1. CASE UNCHANGED <<log, status, title, lineage, recovered>>
    BY <1>1, <2>1, NotWritten
  <2>2. CASE range # NoRange /\ AppendEvents(t, <<e>>)
    <3>1. IsRange(log[t], range[1], range[2])
      BY <1>3, <2>2, RangeIs
    <3> DEFINE a == range[1]
               b == range[2]
    <3>2. a \in Contributing(log[t]) /\ b \in Contributing(log[t]) /\ \A j \in Contributing(log[t]) : a <= j
      BY <3>1 DEF IsRange
    <3>3. a \in Nat /\ b \in Nat
      <4> HIDE DEF a, b
      <4> QED BY <1>3, <3>2 DEF Contributing, LogOK
    <3>4. e = [Plain("context_compacted") EXCEPT !.first = a, !.last = b]
      OBVIOUS
    <3> HIDE DEF a, b, e
    <3>5. e \in Event /\ e.kind = "context_compacted" /\ e.first = a
      BY <3>3, <3>4 DEF Plain, Event, Kinds
    <3>6. Fine(log[t], e, lineage[t].parent)
      BY <3>2, <3>5 DEF Fine, Legal
    <3> QED BY <1>1, <1>2, <2>2, <3>6, OneEvent
  <2> QED BY <2>1, <2>2 DEF MaybeCompact
<1>5. phase[t] \in Turns /\ phase \in [Threads -> Turns]
  BY <1>1 DEF PhaseInv
<1>6. r \in Turns /\ r.at = "model" /\ "model" \notin Busy
  BY <1>5 DEF Turns, Phases, Busy
<1>7. [phase[t] EXCEPT !.at = "model", !.called = FALSE] = r
  <2>1. NoCall \in Calls \cup {NoCall}
    OBVIOUS
  <2>2. PICK m \in Phases : m = "model"
    BY DEF Phases
  <2> QED BY <1>5, <2>1, <2>2, TurnSet
<1> HIDE DEF r
<1>8. Moves(t, r)
  BY <1>5, <1>6, <1>7 DEF MaybeCompact, Moves
<1> QED BY <1>2, <1>4, <1>6, <1>8, MoveKeeps

\* The answer of the model: a message, a call, its approval and its result.
LEMMA AnswerKeeps ==
  ASSUME ThreadInv, NEW t \in Threads,
         \/ AssistantCompleted(t)
         \/ \E c \in Calls : ToolProposed(t, c)
         \/ ApprovalRequired(t)
         \/ ApprovalResolved(t)
  PROVE  ThreadInv'
<1>1. PhaseInv /\ phase[t] \in Turns /\ phase \in [Threads -> Turns] /\ phase[t].call \in Calls \cup {NoCall}
  BY DEF ThreadInv, PhaseInv, Turns
<1>2. {"answer", "tool", "waiting", "decided", "settled"} \subseteq Phases /\ "answer" \notin Busy /\ {"tool", "waiting", "asking"} \subseteq Busy
  BY DEF Phases, Busy
<1>3. CASE AssistantCompleted(t)
  <2> DEFINE e == Plain("assistant_completed")
  <2>1. phase[t].at # "off" /\ AppendEvents(t, <<e>>) /\ GoWith(t, "answer", NoCall)
    BY <1>3 DEF AssistantCompleted, Answering, At
  <2>2. e \in Event /\ e.kind = "assistant_completed"
    BY DEF Plain, Event, Kinds
  <2>3. PICK r \in Turns : r.at = "answer" /\ r.call = NoCall /\ Moves(t, r)
    BY <1>1, <1>2, <2>1, GoWithIs
  <2> HIDE DEF e
  <2> QED BY <1>2, <2>1, <2>2, <2>3, OnKeeps
<1>4. ASSUME NEW c \in Calls, ToolProposed(t, c) PROVE ThreadInv'
  <2> DEFINE e == OfCall("tool_proposed", c)
             r == [at |-> "tool", call |-> c, called |-> TRUE, fresh |-> phase[t].fresh]
  <2>1. phase[t].at # "off" /\ AppendEvents(t, <<e>>)
    BY <1>4 DEF ToolProposed, Answering, At
  <2>2. e \in Event /\ e.kind = "tool_proposed" /\ e.call = c
    BY DEF Plain, OfCall, Event, Kinds
  <2>3. r \in Turns /\ r.call = c
    BY <1>1 DEF Turns, Phases
  <2>4. [phase[t] EXCEPT !.at = "tool", !.call = c, !.called = TRUE] = r
    <3>1. PICK m \in Phases : m = "tool"
      BY DEF Phases
    <3> QED BY <1>1, <3>1, TurnSet
  <2> HIDE DEF e, r
  <2>5. Moves(t, r)
    BY <1>1, <1>4, <2>3, <2>4 DEF ToolProposed, Moves
  <2> QED BY <2>1, <2>2, <2>3, <2>5, OnKeeps
<1>5. CASE ApprovalRequired(t)
  <2> DEFINE e == OfCall("approval_required", phase[t].call)
  <2>1. phase[t].at = "tool" /\ AppendEvents(t, <<e>>) /\ Go(t, "waiting")
    BY <1>5 DEF ApprovalRequired, At
  <2>2. e \in Event /\ e.kind = "approval_required"
    BY <1>1 DEF Plain, OfCall, Event, Kinds
  <2>3. PICK r \in Turns : r.at = "waiting" /\ r.call = phase[t].call /\ Moves(t, r)
    BY <1>1, <1>2, <2>1, GoIs
  <2>4. phase[t].call \in Calls
    BY <1>1, <1>2, <2>1 DEF PhaseInv
  <2> HIDE DEF e
  <2> QED BY <2>1, <2>2, <2>3, <2>4, OnKeeps
<1>6. CASE ApprovalResolved(t)
  <2> DEFINE e == OfCall("approval_resolved", phase[t].call)
             p == IF At(t, "waiting") THEN "decided" ELSE "settled"
  <2>1. phase[t].at \in {"waiting", "asking"} /\ AppendEvents(t, <<e>>) /\ Go(t, p)
    BY <1>6 DEF ApprovalResolved, At
  <2>2. e \in Event /\ e.kind = "approval_resolved"
    BY <1>1 DEF Plain, OfCall, Event, Kinds
  <2>3. p \in Phases
    BY <1>2
  <2> HIDE DEF e, p
  <2>4. PICK r \in Turns : r.at = p /\ r.call = phase[t].call /\ Moves(t, r)
    BY <1>1, <2>1, <2>3, GoIs
  <2>5. phase[t].call \in Calls
    BY <1>1, <1>2, <2>1 DEF PhaseInv
  <2> QED BY <2>1, <2>2, <2>4, <2>5, OnKeeps
<1> QED BY <1>3, <1>4, <1>5, <1>6

\* The result of a call, of this process or of one before it.
LEMMA ToolCompletedKeeps ==
  ASSUME ThreadInv, NEW t \in Threads, ToolCompleted(t) \/ PendingCompleted(t)
  PROVE  ThreadInv'
<1> DEFINE c == phase[t].call
           e == OfCall("tool_progress", c)
           f == OfCall("tool_completed", c)
<1>1. StoreInv /\ PhaseInv /\ phase[t] \in Turns /\ phase[t].at \in Busy
  BY DEF ThreadInv, PhaseInv, ToolCompleted, PendingCompleted, At, Busy
<1>2. c \in Calls /\ Exists(t) /\ log[t] # <<>> /\ phase[t].at # "off"
  BY <1>1, OnExists DEF PhaseInv, Busy
<1>3. {"answer", "step"} \subseteq Phases /\ {"answer", "step"} \cap Busy = {}
  BY DEF Phases, Busy
<1> HIDE DEF c
<1>4. e \in Event /\ e.kind = "tool_progress" /\ f \in Event /\ f.kind = "tool_completed" /\ f.call = c
  BY <1>2 DEF Plain, OfCall, Event, Kinds
<1>5. CASE ToolCompleted(t)
  <2> DEFINE d == IF At(t, "decided") THEN c ELSE NoCall
  <2>1. AppendEvents(t, <<e, f>>) /\ GoWith(t, "answer", d)
    BY <1>5 DEF ToolCompleted, c
  <2>2. d \in Calls \cup {NoCall}
    BY <1>2
  <2> HIDE DEF d, e, f
  <2>3. PICK r \in Turns : r.at = "answer" /\ r.call = d /\ Moves(t, r)
    BY <1>1, <1>3, <2>1, <2>2, GoWithIs
  <2>4. Fine(log[t], e, lineage[t].parent) /\ Fine(Append(log[t], e), f, lineage[t].parent)
    BY <1>2, <1>4, FineEvent
  <2>5. StoreKept
    BY <1>1, <1>2, <2>1, <2>4, TwoEvents
  <2> QED BY <1>2, <1>3, <2>3, <2>5, MoveKeeps
<1>6. CASE PendingCompleted(t)
  <2> DEFINE d == IF At(t, "retrying") THEN NoCall ELSE c
  <2>1. AppendEvents(t, <<f>>) /\ GoWith(t, "step", d)
    BY <1>6 DEF PendingCompleted, c
  <2>2. d \in Calls \cup {NoCall}
    BY <1>2
  <2> HIDE DEF d, e, f
  <2>3. PICK r \in Turns : r.at = "step" /\ r.call = d /\ Moves(t, r)
    BY <1>1, <1>3, <2>1, <2>2, GoWithIs
  <2> QED BY <1>2, <1>3, <1>4, <2>1, <2>3, OnKeeps
<1> QED BY <1>5, <1>6

\* The ends of a turn that say what happened.
LEMMA EndKeeps ==
  ASSUME ThreadInv, NEW t \in Threads, AnswerEnds(t) \/ TurnBreaksOff(t)
  PROVE  ThreadInv'
<1>1. StoreInv /\ PhaseInv /\ phase[t] \in Turns
  BY DEF ThreadInv, PhaseInv
<1>2. phase[t].at # "off"
  BY DEF AnswerEnds, Answering, TurnBreaksOff, At
<1>3. Exists(t) /\ log[t] # <<>>
  BY <1>1, <1>2, OnExists
<1>4. Off \in Turns /\ Off.at = "off" /\ {"off", "step"} \cap Busy = {} /\ "step" \in Phases
  BY DEF Off, Turns, Phases, Busy
<1>5. ASSUME GoWith(t, "step", NoCall), UNCHANGED <<log, status, title, lineage, recovered>> PROVE ThreadInv'
  <2>1. NoCall \in Calls \cup {NoCall}
    OBVIOUS
  <2>2. PICK r \in Turns : r.at = "step" /\ r.call = NoCall /\ Moves(t, r)
    BY <1>1, <1>4, <1>5, <2>1, GoWithIs
  <2>3. StoreKept
    BY <1>1, <1>5, NotWritten
  <2> QED BY <1>3, <1>4, <2>2, <2>3, MoveKeeps
<1>6. ASSUME NEW k \in {"turn_completed", "turn_cancelled", "turn_failed"}, AppendEvents(t, <<Plain(k)>>),
             phase' = [phase EXCEPT ![t] = Off], UNCHANGED <<open, restarted>>
      PROVE  ThreadInv'
  <2> DEFINE e == Plain(k)
  <2>1. e \in Event /\ e.kind = k
    BY DEF Plain, Event, Kinds
  <2>2. AppendEvents(t, <<e>>) /\ Moves(t, Off)
    BY <1>4, <1>6 DEF Moves
  <2> HIDE DEF e
  <2> QED BY <1>2, <1>4, <2>1, <2>2, OnKeeps
<1> QED BY <1>5, <1>6 DEF AnswerEnds, TurnBreaksOff

\* What is left of a turn is at most one row, which is as it should be.
LEMMA RemainsOK ==
  ASSUME PhaseInv, NEW t \in Threads, NEW left \in Remains(t)
  PROVE  /\ left \in Seq(OpenTurns) /\ \A i \in DOMAIN left : OpenOK(left[i])
         /\ left # <<>> => log[t] # <<>>
<1>1. CASE left = <<>>
  BY <1>1
<1>2. CASE left # <<>>
  <2>1. phase[t].at # "off"
    BY <1>2 DEF Remains, At
  <2> DEFINE Call(h) == IF h \in {"replay", "unsaved"} THEN NoCall ELSE phase[t].call
  <2>2. PICK h \in StopsAs(t) : left = <<[how |-> h, call |-> Call(h)]>>
    BY <1>2 DEF Remains
  <2>3. phase[t] \in Turns /\ (phase[t].at \in Busy => phase[t].call \in Calls)
    BY DEF PhaseInv
  <2>4. h \in Hows /\ (h \notin {"replay", "unsaved"} => phase[t].call \in Calls)
    <3>1. CASE phase[t].at \in Busy
      BY <2>3, <3>1 DEF StopsAs, Hows, Busy, Turns
    <3>2. CASE phase[t].at \in {"starting", "asked"}
      BY <2>3, <3>2 DEF StopsAs, Hows
    <3>3. CASE phase[t].at \notin Busy \cup {"starting", "asked"}
      <4>1. h \in IF phase[t].call = NoCall THEN {"replay"} ELSE {"replay", "go"}
        BY <3>3 DEF StopsAs, Busy
      <4>2. phase[t].call \in Calls \cup {NoCall}
        BY <2>3 DEF Turns
      <4> QED BY <4>1, <4>2 DEF Hows
    <3> QED BY <3>1, <3>2, <3>3
  <2> DEFINE o == [how |-> h, call |-> Call(h)]
  <2>5. Call(h) \in Calls \cup {NoCall} /\ (h \notin {"replay", "unsaved"} => Call(h) \in Calls)
    BY <2>4
  <2>6. OpenOK(o)
    <3> HIDE DEF Call
    <3> QED BY <2>4, <2>5 DEF OpenOK, OpenTurns
  <2>7. left = <<o>>
    BY <2>2
  <2> HIDE DEF o
  <2>8. o \in OpenTurns
    BY <2>6 DEF OpenOK
  <2>9. left \in Seq(OpenTurns) /\ DOMAIN left = {1} /\ left[1] = o
    BY <2>7, <2>8
  <2> QED BY <2>1, <2>6, <2>9 DEF PhaseInv
<1> QED BY <1>1, <1>2

\* Open turns, and what is left of one more.
LEMMA OpenMore ==
  ASSUME NEW a \in Seq(OpenTurns), NEW b \in Seq(OpenTurns), \A i \in DOMAIN a : OpenOK(a[i]), \A i \in DOMAIN b : OpenOK(b[i])
  PROVE  /\ a \o b \in Seq(OpenTurns) /\ \A i \in DOMAIN (a \o b) : OpenOK((a \o b)[i])
         /\ a \o b # <<>> => a # <<>> \/ b # <<>>
<1>1. a \o b \in Seq(OpenTurns) /\ Len(a) \in Nat /\ Len(b) \in Nat /\ DOMAIN (a \o b) = 1..(Len(a) + Len(b))
      /\ DOMAIN a = 1..Len(a) /\ DOMAIN b = 1..Len(b)
  OBVIOUS
<1>2. ASSUME NEW i \in 1..(Len(a) + Len(b)) PROVE OpenOK((a \o b)[i])
  <2>1. CASE i <= Len(a)
    <3>1. (a \o b)[i] = a[i] /\ i \in DOMAIN a
      BY <1>1, <1>2, <2>1
    <3> QED BY <3>1
  <2>2. CASE ~(i <= Len(a))
    <3>1. (a \o b)[i] = b[i - Len(a)] /\ i - Len(a) \in DOMAIN b
      BY <1>1, <1>2, <2>2
    <3> QED BY <3>1
  <2> QED BY <2>1, <2>2
<1>3. a = <<>> /\ b = <<>> => a \o b = <<>>
  OBVIOUS
<1> QED BY <1>1, <1>2, <1>3

\* A resumed turn breaks off, without a word.
LEMMA ResumedEndKeeps ==
  ASSUME ThreadInv, NEW t \in Threads, ResumedTurnBreaksOff(t)
  PROVE  ThreadInv'
<1>1. StoreInv /\ PhaseInv
  BY DEF ThreadInv
<1>2. PICK left \in Remains(t) : open' = [open EXCEPT ![t] = @ \o left]
  BY DEF ResumedTurnBreaksOff
<1>3. StoreKept
  BY <1>1, NotWritten DEF ResumedTurnBreaksOff
<1>4. left \in Seq(OpenTurns) /\ (\A i \in DOMAIN left : OpenOK(left[i])) /\ log[t] # <<>>
  <2>1. phase[t].at # "off"
    BY DEF ResumedTurnBreaksOff, At
  <2> QED BY <1>1, <1>2, <2>1, RemainsOK, OnExists
<1> DEFINE a == open[t]
           b == a \o left
<1>5. a \in Seq(OpenTurns) /\ \A i \in DOMAIN a : OpenOK(a[i])
  BY <1>1 DEF PhaseInv
<1>6. open \in [Threads -> Seq(OpenTurns)] /\ open' = [open EXCEPT ![t] = b]
  BY <1>1, <1>2 DEF PhaseInv
<1> HIDE DEF a
<1>7. b \in Seq(OpenTurns) /\ \A i \in DOMAIN b : OpenOK(b[i])
  BY <1>4, <1>5, OpenMore
<1> HIDE DEF b
<1>8. open' \in [Threads -> Seq(OpenTurns)] /\ open'[t] = b /\ \A u \in Threads : u # t => open'[u] = open[u]
  BY <1>6, <1>7
<1>9. phase \in [Threads -> Turns] /\ phase' = [phase EXCEPT ![t] = Off] /\ Off \in Turns /\ Off.at = "off" /\ "off" \notin Busy
  BY <1>1 DEF PhaseInv, ResumedTurnBreaksOff, Off, Turns, Phases, Busy
<1>10. phase' \in [Threads -> Turns] /\ phase'[t] = Off /\ \A u \in Threads : u # t => phase'[u] = phase[u]
  BY <1>9
<1>11. UNCHANGED <<log, restarted>>
  BY DEF ResumedTurnBreaksOff
<1>12. \A u \in Threads : phase'[u].at # "off" \/ open'[u] # <<>> => log'[u] # <<>>
  BY <1>1, <1>4, <1>8, <1>9, <1>10, <1>11 DEF PhaseInv
<1>13. \A u \in Threads : phase'[u].at \in Busy => phase'[u].call \in Calls
  BY <1>1, <1>9, <1>10 DEF PhaseInv
<1>14. \A u \in Threads : \A i \in DOMAIN open'[u] : OpenOK(open'[u][i])
  BY <1>1, <1>7, <1>8 DEF PhaseInv
<1>15. PhaseInv'
  BY <1>1, <1>8, <1>10, <1>11, <1>12, <1>13, <1>14 DEF PhaseInv
<1> QED BY <1>3, <1>15 DEF ThreadInv, StoreKept

\* A class is a status of threads.
LEMMA ClassIs ==
  ASSUME NEW h
  PROVE  Class(h) \in ThreadStatuses \ {"none"}
BY DEF Class, ThreadStatuses

\* The process is restarted: what is left of every turn is open, and the status
\* of every thread with an open turn is what recovery writes.
LEMMA RestartKeeps ==
  ASSUME ThreadInv, Restart
  PROVE  ThreadInv'
<1>1. StoreInv /\ PhaseInv
  BY DEF ThreadInv
<1>2. PICK left : /\ \A t \in Threads : left[t] \in Remains(t)
                  /\ open' = [t \in Threads |-> open[t] \o left[t]]
                  /\ Recover(open')
  BY DEF Restart
<1>3. ASSUME NEW t \in Threads
      PROVE  /\ open'[t] \in Seq(OpenTurns) /\ (\A i \in DOMAIN open'[t] : OpenOK(open'[t][i]))
             /\ open'[t] # <<>> => log[t] # <<>>
  <2> DEFINE a == open[t]
             b == left[t]
  <2>1. a \in Seq(OpenTurns) /\ (\A i \in DOMAIN a : OpenOK(a[i])) /\ (a # <<>> => log[t] # <<>>)
    BY <1>1 DEF PhaseInv
  <2>2. b \in Remains(t) /\ open'[t] = a \o b
    BY <1>2
  <2> HIDE DEF a, b
  <2>3. b \in Seq(OpenTurns) /\ (\A i \in DOMAIN b : OpenOK(b[i])) /\ (b # <<>> => log[t] # <<>>)
    BY <1>1, <2>2, RemainsOK
  <2>4. /\ a \o b \in Seq(OpenTurns) /\ \A i \in DOMAIN (a \o b) : OpenOK((a \o b)[i])
        /\ a \o b # <<>> => a # <<>> \/ b # <<>>
    BY <2>1, <2>3, OpenMore
  <2> QED BY <2>1, <2>2, <2>3, <2>4
<1>4. UNCHANGED <<log, title, lineage>> /\ phase' = [t \in Threads |-> Off] /\ restarted' \in BOOLEAN
  BY DEF Restart
<1>5. open' \in [Threads -> Seq(OpenTurns)]
  BY <1>2, <1>3
<1>6. Off \in Turns /\ Off.at = "off" /\ "off" \notin Busy
  BY DEF Off, Turns, Phases, Busy
<1>7. PhaseInv'
  BY <1>3, <1>4, <1>5, <1>6 DEF PhaseInv
<1> HIDE DEF PhaseInv
<1>8. ASSUME NEW t \in Threads
      PROVE  /\ ColumnOK(log[t], status'[t], recovered'[t])
             /\ log[t] = <<>> => recovered'[t] = "none"
  <2>1. ColumnOK(log[t], status[t], recovered[t]) /\ (log[t] = <<>> => recovered[t] = "none")
    BY <1>1 DEF StoreInv, Sound, ThreadOK
  <2>2. CASE open'[t] = <<>>
    <3>1. status'[t] = status[t] /\ recovered'[t] = recovered[t]
      BY <1>2, <2>2 DEF Recover
    <3> QED BY <2>1, <3>1
  <2>3. CASE open'[t] # <<>>
    <3>1. status'[t] \in {Class(open'[t][i].how) : i \in DOMAIN open'[t]} /\ recovered'[t] = status'[t]
      BY <1>2, <2>3 DEF Recover
    <3>2. status'[t] \in ThreadStatuses \ {"none"}
      BY <3>1, ClassIs
    <3> QED BY <1>3, <2>3, <3>1, <3>2 DEF ColumnOK
  <2> QED BY <2>2, <2>3
<1>9. status' \in [Threads -> ThreadStatuses] /\ recovered' \in [Threads -> ThreadStatuses \cup {"none"}]
  <2>1. status' \in [Threads -> ThreadStatuses] /\ recovered' = [t \in Threads |-> recovered'[t]]
    BY <1>2 DEF Recover
  <2>2. \A t \in Threads : recovered'[t] \in ThreadStatuses \cup {"none"}
    BY <1>8 DEF ColumnOK
  <2> QED BY <2>1, <2>2
<1>10. \A t \in Threads : Sound(log[t], status'[t], recovered'[t], title[t], lineage[t].parent)
  BY <1>1, <1>8 DEF StoreInv, Sound, ThreadOK
<1>11. StoreInv'
  BY <1>1, <1>4, <1>8, <1>9, <1>10 DEF StoreInv
<1> QED BY <1>7, <1>11 DEF ThreadInv

\* A turn is resumed.
LEMMA ResumeKeeps ==
  ASSUME ThreadInv, NEW t \in Threads, NEW i \in DOMAIN open[t], ResumeTurn(t, i)
  PROVE  ThreadInv'
<1> DEFINE a == open[t]
           o == a[i]
           p == CASE o.how = "replay" -> "step"
                  [] o.how = "ask" -> "asking"
                  [] o.how = "go" -> "settled"
                  [] OTHER -> "retrying"
           r == [Off EXCEPT !.call = o.call, !.at = p]
           b == RemoveAt(a, i)
<1>1. StoreInv /\ PhaseInv
  BY DEF ThreadInv
<1>2. a \in Seq(OpenTurns) /\ DOMAIN a = 1..Len(a) /\ Len(a) \in Nat /\ i \in 1..Len(a) /\ \A j \in DOMAIN a : OpenOK(a[j])
  BY <1>1 DEF PhaseInv
<1>3. log[t] # <<>>
  <2>1. a # <<>>
    BY <1>2
  <2> QED BY <1>1, <2>1 DEF PhaseInv
<1>4. StoreKept
  BY <1>1, NotWritten DEF ResumeTurn
<1>5. OpenOK(o) /\ o.how \notin {"reconcile", "unsaved"}
  BY <1>2 DEF ResumeTurn
<1>6. phase' = [phase EXCEPT ![t] = r] /\ open' = [open EXCEPT ![t] = b] /\ UNCHANGED <<log, restarted>>
  BY <1>1 DEF ResumeTurn, PhaseInv
<1> HIDE DEF o, a
<1>7. p \in Phases /\ p # "off" /\ (p \in Busy => o.call \in Calls) /\ o.call \in Calls \cup {NoCall}
  BY <1>5 DEF OpenOK, OpenTurns, Hows, Phases, Busy
<1> HIDE DEF p
<1>8. r \in Turns /\ r.at = p /\ r.call = o.call
  BY <1>7 DEF Off, Turns
<1> HIDE DEF r
<1>9. b \in Seq(OpenTurns) /\ \A j \in DOMAIN b : OpenOK(b[j])
  <2> DEFINE x == SubSeq(a, 1, i - 1)
             y == SubSeq(a, i + 1, Len(a))
  <2>1. x \in Seq(OpenTurns) /\ DOMAIN x = 1..(i - 1) /\ \A j \in 1..(i - 1) : x[j] = a[j]
    BY <1>2
  <2>2. y \in Seq(OpenTurns) /\ DOMAIN y = 1..(Len(a) - i) /\ \A j \in 1..(Len(a) - i) : y[j] = a[i + j]
    <3>1. \A j \in (i + 1)..Len(a) : a[j] \in OpenTurns
      BY <1>2
    <3>2. /\ y = [k \in 1..(Len(a) - (i + 1) + 1) |-> a[k + (i + 1) - 1]]
      BY <1>2 DEF SubSeq
    <3>3. y \in Seq(OpenTurns) /\ Len(y) = Len(a) - i
      BY <1>2
    <3> QED BY <1>2, <3>3
  <2>3. \A j \in DOMAIN x : OpenOK(x[j])
    BY <1>2, <2>1
  <2>4. \A j \in DOMAIN y : OpenOK(y[j])
    <3>1. \A j \in 1..(Len(a) - i) : i + j \in DOMAIN a
      BY <1>2
    <3> QED BY <1>2, <2>2, <3>1
  <2>5. b = x \o y
    BY DEF RemoveAt
  <2> HIDE DEF x, y, b
  <2> QED BY <2>1, <2>2, <2>3, <2>4, <2>5, OpenMore
<1> HIDE DEF b
<1>10. phase' \in [Threads -> Turns] /\ phase'[t] = r /\ \A u \in Threads : u # t => phase'[u] = phase[u]
  BY <1>1, <1>6, <1>8 DEF PhaseInv
<1>11. open' \in [Threads -> Seq(OpenTurns)] /\ open'[t] = b /\ \A u \in Threads : u # t => open'[u] = open[u]
  BY <1>1, <1>6, <1>9 DEF PhaseInv
<1>12. \A u \in Threads : phase'[u].at # "off" \/ open'[u] # <<>> => log'[u] # <<>>
  BY <1>1, <1>3, <1>6, <1>10, <1>11 DEF PhaseInv
<1>13. \A u \in Threads : phase'[u].at \in Busy => phase'[u].call \in Calls
  BY <1>1, <1>7, <1>8, <1>10 DEF PhaseInv
<1>14. \A u \in Threads : \A j \in DOMAIN open'[u] : OpenOK(open'[u][j])
  BY <1>1, <1>9, <1>11 DEF PhaseInv
<1>15. restarted' \in BOOLEAN
  BY <1>1, <1>6 DEF PhaseInv
<1>16. PhaseInv'
  BY <1>10, <1>11, <1>12, <1>13, <1>14, <1>15 DEF PhaseInv
<1> QED BY <1>4, <1>16 DEF ThreadInv, StoreKept

\* The steps that the thread's turn does not take: a thread is created or forked,
\* an action reports, another turn is refused.
LEMMA OutsideKeeps ==
  ASSUME ThreadInv, NEW t \in Threads,
         \/ CreateThread(t)
         \/ TurnRefused(t)
         \/ \E s \in ActionStatuses : ActionUpdated(t, s)
         \/ \E new \in Threads, at \in 1..MaxEvents, given \in {0, Given} : ForkThread(t, at, new, given)
  PROVE  ThreadInv'
<1>1. StoreInv /\ PhaseInv
  BY DEF ThreadInv
<1>2. UNCHANGED turnVars
  BY DEF CreateThread, TurnRefused, ActionUpdated, ForkThread
<1>3. StoreKept
  <2>1. CASE CreateThread(t)
    BY <1>1, <2>1, CreateKeeps
  <2>2. ASSUME NEW s \in ActionStatuses, ActionUpdated(t, s) PROVE StoreKept
    <3> DEFINE e == [Plain("action_updated") EXCEPT !.status = s]
    <3>1. e \in Event /\ e.kind = "action_updated"
      BY DEF Plain, Event, Kinds
    <3>2. Exists(t) /\ AppendEvents(t, <<e>>)
      BY <2>2 DEF ActionUpdated
    <3> HIDE DEF e
    <3>3. Fine(log[t], e, lineage[t].parent)
      BY <3>1, FineEvent
    <3> QED BY <1>1, <3>2, <3>3, OneEvent
  <2>3. ASSUME NEW new \in Threads, NEW at \in 1..MaxEvents, NEW given \in {0, Given}, ForkThread(t, at, new, given)
        PROVE  StoreKept
    BY <1>1, <2>3, ForkKeeps
  <2>4. CASE TurnRefused(t)
    <3>1. PICK k \in {"turn_cancelled", "turn_failed"} : AppendEvents(t, <<Plain(k)>>)
      BY <2>4 DEF TurnRefused
    <3> DEFINE e == Plain(k)
    <3>2. e \in Event /\ e.kind = k
      BY DEF Plain, Event, Kinds
    <3>3. Exists(t) /\ AppendEvents(t, <<e>>)
      BY <2>4, <3>1 DEF TurnRefused
    <3> HIDE DEF e
    <3>4. Fine(log[t], e, lineage[t].parent)
      BY <3>2, FineEvent
    <3> QED BY <1>1, <3>3, <3>4, OneEvent
  <2> QED BY <2>1, <2>2, <2>3, <2>4
<1>4. PhaseInv'
  BY <1>1, <1>2, <1>3, PhaseStays
<1> QED BY <1>3, <1>4 DEF ThreadInv, StoreKept

\* The invariant holds at the start.
LEMMA ThreadInvInit == Init => ThreadInv
<1> SUFFICES ASSUME Init PROVE ThreadInv
  OBVIOUS
<1>1. Sound(<<>>, "idle", "none", 0, NoThread)
  <2>1. <<>> \in Seq(Event) /\ DOMAIN <<>> = {} /\ "idle" \in ThreadStatuses /\ Plain("thread_created") \in Event
    BY DEF ThreadStatuses, Plain, Event, Kinds
  <2>2. LogOK(<<>>) /\ ~Asked(<<>>) /\ FromStart(<<>>)
    BY <2>1 DEF LogOK, Asked, FromStart
  <2>3. FirstMessage(<<>>) = 0
    BY <2>2, FirstMessageIs
  <2>4. ReconstructedStatus(<<>>) = "idle"
    BY <2>1, StatusOver DEF ReconstructedStatus
  <2>5. ColumnOK(<<>>, "idle", "none")
    BY <2>1, <2>4 DEF ColumnOK
  <2> QED BY <2>2, <2>3, <2>5 DEF Sound, ThreadOK, Given
<1>2. Off \in Turns /\ Off.at = "off" /\ "off" \notin Busy /\ <<>> \in Seq(OpenTurns) /\ DOMAIN <<>> = {}
  BY DEF Off, Turns, Phases, Busy
<1>3. PhaseInv
  BY <1>2 DEF Init, PhaseInv
<1>4. /\ log \in [Threads -> Seq(Event)] /\ status \in [Threads -> ThreadStatuses]
      /\ title \in [Threads -> Nat] /\ lineage \in [Threads -> Lineage]
      /\ recovered \in [Threads -> ThreadStatuses \cup {"none"}]
  BY DEF Init, ThreadStatuses, Lineage
<1>5. \A t \in Threads : log[t] = <<>> /\ status[t] = "idle" /\ recovered[t] = "none" /\ title[t] = 0 /\ lineage[t].parent = NoThread
  BY DEF Init
<1> QED BY <1>1, <1>3, <1>4, <1>5 DEF StoreInv, ThreadInv

\* Every step keeps it.
LEMMA ThreadInvNext == ThreadInv /\ [Next]_vars => ThreadInv'
<1> SUFFICES ASSUME ThreadInv, [Next]_vars PROVE ThreadInv'
  OBVIOUS
<1>1. CASE UNCHANGED vars
  BY <1>1 DEF vars, turnVars, ThreadInv, StoreInv, PhaseInv
<1>2. CASE Restart
  BY <1>2, RestartKeeps
<1>3. ASSUME NEW t \in Threads,
             \/ CreateThread(t)
             \/ TurnRefused(t)
             \/ \E s \in ActionStatuses : ActionUpdated(t, s)
             \/ \E new \in Threads, at \in 1..MaxEvents, given \in {0, Given} : ForkThread(t, at, new, given)
      PROVE ThreadInv'
  BY <1>3, OutsideKeeps
<1>4. ASSUME NEW t \in Threads, TurnStarts(t) \/ UserAsks(t) \/ TurnBegins(t) PROVE ThreadInv'
  BY <1>4, TurnBeginsKeeps
<1>5. ASSUME NEW t \in Threads, MaybeCompact(t) PROVE ThreadInv'
  BY <1>5, MaybeCompactKeeps
<1>6. ASSUME NEW t \in Threads,
             \/ AssistantCompleted(t)
             \/ \E c \in Calls : ToolProposed(t, c)
             \/ ApprovalRequired(t)
             \/ ApprovalResolved(t)
      PROVE ThreadInv'
  BY <1>6, AnswerKeeps
<1>7. ASSUME NEW t \in Threads, ToolCompleted(t) \/ PendingCompleted(t) PROVE ThreadInv'
  BY <1>7, ToolCompletedKeeps
<1>8. ASSUME NEW t \in Threads, AnswerEnds(t) \/ TurnBreaksOff(t) PROVE ThreadInv'
  BY <1>8, EndKeeps
<1>9. ASSUME NEW t \in Threads, ResumedTurnBreaksOff(t) PROVE ThreadInv'
  BY <1>9, ResumedEndKeeps
<1>10. ASSUME NEW t \in Threads, NEW i \in DOMAIN open[t], ResumeTurn(t, i) PROVE ThreadInv'
  BY <1>10, ResumeKeeps
<1> QED BY <1>1, <1>2, <1>3, <1>4, <1>5, <1>6, <1>7, <1>8, <1>9, <1>10 DEF Next

\* It holds in every state of every behaviour.
LEMMA ThreadInvariant == Spec => []ThreadInv
BY ThreadInvInit, ThreadInvNext, PTL DEF Spec

-----------------------------------------------------------------------------
(* What follows from it. *)

\* Every table of the store has its type in every state, the ranges of the
\* summaries included, whose ends maybe_compact takes from a list at a length it
\* computed from another.
THEOREM TypeCorrect == Spec => []TypeOK
<1>1. ThreadInv => TypeOK
  BY DEF ThreadInv, StoreInv, PhaseInv, TypeOK, Lineage, Turns
<1> QED BY <1>1, ThreadInvariant, PTL

\* The status and title columns, written by append_event and fork_thread one
\* event at a time, are what the whole log says, however often threads are
\* forked, compacted, broken off and resumed, but for the status that recovery
\* writes without an event, which the first event that sets one replaces.
THEOREM ColumnsFollowLog == Spec => []ColumnsMatchLog
<1>1. ThreadInv => ColumnsMatchLog
  BY DEF ThreadInv, StoreInv, Sound, ThreadOK, ColumnOK, ColumnsMatchLog
<1> QED BY <1>1, ThreadInvariant, PTL

\* A fork shows what its parent showed at the seq it was forked at, and goes on
\* doing so (fork_thread and inheritable drop no item and add none).
THEOREM ForksKeepPast == Spec => []ForkSharesPast
<1>1. ThreadInv => ForkSharesPast
  BY DEF ThreadInv, StoreInv, Shares, ForkSharesPast
<1> QED BY <1>1, ThreadInvariant, PTL

-----------------------------------------------------------------------------
(* Compactions. *)

\* What CompactionAdvances says of a log before and after a step.
Advance(l, m) ==
  /\ Hidden(l) \subseteq Hidden(m) /\ Hidden(l) # Hidden(m)
  /\ \A i \in Hidden(m), j \in Contributing(m) : j < i => j \in Hidden(m)

\* A summary of a range that is in no other hides more, and a prefix of the
\* contributing events.
LEMMA SummaryAdvances ==
  ASSUME NEW l, LogOK(l), FromStart(l), NEW e \in Event, e.kind = "context_compacted", IsRange(l, e.first, e.last)
  PROVE  Advance(l, Append(l, e))
<1> DEFINE m == Append(l, e)
           n == Len(l)
           C == Contributing(l)
           R == CompactedRanges(l)
           S == CompactedRanges(m)
           a == e.first
           b == e.last
<1>1. l \in Seq(Event)
  BY DEF LogOK
<1>2. m \in Seq(Event) /\ n \in Nat /\ DOMAIN m = 1..(n + 1) /\ DOMAIN l = 1..n /\ m[n + 1] = e /\ \A i \in 1..n : m[i] = l[i]
  BY <1>1, Appended
<1>3. Contributing(m) = C /\ C \in SUBSET (1..n)
  <2>1. ~Contributes(e)
    BY DEF Contributes
  <2> QED BY <1>1, <2>1, ContributingAppend
<1>4. S = R \cup {<<a, b>>}
  <2> HIDE DEF m, n
  <2>1. R = {<<l[i].first, l[i].last>> : i \in {j \in 1..n : l[j].kind = "context_compacted"}}
    BY <1>2 DEF CompactedRanges
  <2>2. S = {<<m[i].first, m[i].last>> : i \in {j \in 1..(n + 1) : m[j].kind = "context_compacted"}}
    BY <1>2 DEF CompactedRanges
  <2>3. {j \in 1..(n + 1) : m[j].kind = "context_compacted"} = {j \in 1..n : l[j].kind = "context_compacted"} \cup {n + 1}
    BY <1>2
  <2>4. \A i \in {j \in 1..n : l[j].kind = "context_compacted"} : m[i] = l[i]
    BY <1>2
  <2> QED BY <1>2, <2>1, <2>2, <2>3, <2>4
<1>5. /\ a \in C /\ b \in C
      /\ \A j \in C : a <= j
      /\ \A r \in R : ~(r[1] <= a /\ b <= r[2])
  BY DEF IsRange
<1>6. ASSUME NEW r \in R PROVE r[1] \in C /\ \A j \in C : r[1] <= j
  <2>1. PICK i \in DOMAIN l : l[i].kind = "context_compacted" /\ r = <<l[i].first, l[i].last>>
    BY DEF CompactedRanges
  <2>2. r[1] = l[i].first
    BY <2>1
  <2> QED BY <2>1, <2>2 DEF FromStart
<1>7. Hidden(l) = {i \in C : \E r \in R : r[1] <= i /\ i <= r[2]}
  BY DEF Hidden, IsCovered
<1>8. Hidden(m) = {i \in C : \E r \in S : r[1] <= i /\ i <= r[2]}
  BY <1>3 DEF Hidden, IsCovered
<1> HIDE DEF m, n, C, R, S, a, b
<1>9. Hidden(l) \subseteq Hidden(m)
  BY <1>4, <1>7, <1>8
<1>10. b \in Hidden(m)
  <2>1. <<a, b>>[1] = a /\ <<a, b>>[2] = b
    OBVIOUS
  <2>2. a <= b /\ b <= b
    BY <1>2, <1>3, <1>5
  <2> QED BY <1>4, <1>5, <1>8, <2>1, <2>2
<1>11. b \notin Hidden(l)
  <2>1. SUFFICES ASSUME NEW r \in R, r[1] <= b, b <= r[2] PROVE FALSE
    BY <1>7
  <2>2. r[1] <= a
    BY <1>5, <1>6
  <2> QED BY <1>5, <2>1, <2>2
<1>12. ASSUME NEW i \in Hidden(m), NEW j \in C, j < i PROVE j \in Hidden(m)
  <2>1. PICK r \in S : r[1] <= i /\ i <= r[2]
    BY <1>8
  <2>2. r[1] <= j
    <3>1. CASE r \in R
      BY <1>6, <3>1
    <3>2. CASE r = <<a, b>>
      BY <1>5, <3>2
    <3> QED BY <1>4, <3>1, <3>2
  <2>3. j <= r[2]
    <3>1. i \in 1..n /\ j \in 1..n
      BY <1>3, <1>8
    <3>2. r[2] \in Nat
      <4>1. CASE r = <<a, b>>
        BY <1>2, <1>3, <1>5, <4>1
      <4>2. CASE r \in R
        <5>1. PICK k \in DOMAIN l : r = <<l[k].first, l[k].last>>
          BY <4>2 DEF CompactedRanges, R
        <5>2. l[k] \in Event
          BY <1>1
        <5> QED BY <5>1, <5>2 DEF Event
      <4> QED BY <1>4, <4>1, <4>2
    <3> QED BY <1>2, <1>12, <2>1, <3>1, <3>2
  <2> QED BY <1>8, <2>2, <2>3
<1>13. Advance(l, m)
  BY <1>3, <1>9, <1>10, <1>11, <1>12 DEF Advance
<1> QED BY <1>13 DEF m

\* A step that appends one summary to a thread is a compaction of that thread.
Summarised(t) == Len(log'[t]) = Len(log[t]) + 1 /\ Last(log'[t]).kind = "context_compacted"

\* Events that are no summaries do not make a step one.
LEMMA NotSummarised ==
  ASSUME StoreInv, NEW t \in Threads, NEW u \in Threads, NEW events \in Seq(Event), AppendEvents(t, events),
         events # <<>>, Len(events) = 1 => events[1].kind # "context_compacted"
  PROVE  ~Summarised(u)
<1>1. log[u] \in Seq(Event) /\ log[t] \in Seq(Event) /\ Len(log[u]) \in Nat
  BY DEF StoreInv
<1>2. log'[t] = log[t] \o events /\ (u # t => log'[u] = log[u])
  BY DEF AppendEvents, StoreInv
<1>3. CASE u # t
  BY <1>1, <1>2, <1>3 DEF Summarised
<1>4. CASE u = t
  <2>1. SUFFICES ASSUME Summarised(t) PROVE FALSE
    BY <1>4
  <2>2. Len(log'[t]) = Len(log[t]) + Len(events)
    BY <1>1, <1>2
  <2>3. Len(events) = 1
    <3>1. Len(log[t]) \in Nat /\ Len(events) \in Nat
      BY <1>1
    <3>2. Len(log'[t]) = Len(log[t]) + 1
      BY <2>1 DEF Summarised
    <3>3. \A a, b \in Nat : a + b = a + 1 => b = 1
      OBVIOUS
    <3>4. Len(log[t]) + Len(events) = Len(log[t]) + 1
      BY <2>2, <3>2, Zenon
    <3> QED BY <3>1, <3>3, <3>4
  <2>4. Last(log'[t]) = events[1]
    <3>1. (log[t] \o events)[Len(log[t]) + 1] = IF Len(log[t]) + 1 <= Len(log[t]) THEN log[t][Len(log[t]) + 1]
                                                ELSE events[(Len(log[t]) + 1) - Len(log[t])]
      <4>1. Len(log[t]) + 1 \in 1..(Len(log[t]) + Len(events))
        BY <1>1, <2>3
      <4> QED BY <1>1, <4>1, ConcatProperties
    <3>2. (log[t] \o events)[Len(log[t]) + 1] = events[1]
      BY <1>1, <3>1
    <3> QED BY <1>2, <2>2, <2>3, <3>2 DEF Last
  <2> QED BY <2>1, <2>3, <2>4 DEF Summarised
<1> QED BY <1>3, <1>4

\* What maybe_compact appends is a range that is in no other.
LEMMA CompactsRange ==
  ASSUME ThreadInv, NEW t \in Threads, MaybeCompact(t), NEW u \in Threads, lineage[u].parent = NoThread, Summarised(u)
  PROVE  Advance(log[u], log'[u])
<1> DEFINE l == log[t]
           range == CompactionRange(l)
           e == [Plain("context_compacted") EXCEPT !.first = range[1], !.last = range[2]]
<1>1. StoreInv /\ LogOK(l) /\ log[u] \in Seq(Event) /\ l \in Seq(Event)
  BY ThreadSound DEF ThreadInv
<1>2. log' # log
  BY <1>1 DEF Summarised
<1>3. range # NoRange /\ AppendEvents(t, <<e>>)
  BY <1>2 DEF MaybeCompact
<1>4. u = t
  <2>1. u # t => log'[u] = log[u]
    BY <1>1, <1>3 DEF AppendEvents, StoreInv
  <2> QED BY <1>1, <2>1 DEF Summarised
<1>5. IsRange(l, range[1], range[2])
  BY <1>1, <1>3, RangeIs
<1>6. FromStart(l)
  BY <1>1, <1>4 DEF StoreInv, Sound
<1> DEFINE a == range[1]
           b == range[2]
<1>7. a \in Nat /\ b \in Nat
  <2>1. a \in Contributing(l) /\ b \in Contributing(l)
    BY <1>5 DEF IsRange
  <2> HIDE DEF a, b
  <2> QED BY <1>1, <2>1 DEF Contributing, LogOK
<1>8. e = [Plain("context_compacted") EXCEPT !.first = a, !.last = b]
  OBVIOUS
<1>9. log'[u] = l \o <<e>>
  BY <1>1, <1>3, <1>4 DEF AppendEvents, StoreInv
<1>10. IsRange(l, a, b)
  BY <1>5
<1> HIDE DEF a, b, e
<1>11. e \in Event /\ e.kind = "context_compacted" /\ e.first = a /\ e.last = b
  BY <1>7, <1>8 DEF Plain, Event, Kinds
<1>12. log'[u] = Append(l, e)
  BY <1>1, <1>9, <1>11
<1> HIDE DEF l, range
<1>13. Advance(l, Append(l, e))
  BY <1>1, <1>6, <1>10, <1>11, SummaryAdvances
<1> QED BY <1>4, <1>12, <1>13 DEF l

\* No other step appends a single summary.
LEMMA OnlyCompactionSummarises ==
  ASSUME ThreadInv, Next, NEW u \in Threads, Summarised(u)
  PROVE  \E t \in Threads : MaybeCompact(t)
<1> USE DEF ThreadInv
<1>1. \A t \in Threads : log[t] \in Seq(Event) /\ phase[t].call \in Calls \cup {NoCall}
  BY DEF StoreInv, PhaseInv, Turns
<1>2. log'[u] # log[u]
  BY <1>1 DEF Summarised
<1>3. ASSUME NEW t \in Threads, CreateThread(t) PROVE FALSE
  <2>1. log'[t] = <<Plain("thread_created")>> /\ (u # t => log'[u] = log[u])
    BY <1>1, <1>3 DEF CreateThread, StoreInv
  <2>2. Last(<<Plain("thread_created")>>).kind = "thread_created"
    BY DEF Last, Plain
  <2> QED BY <1>2, <2>1, <2>2 DEF Summarised
<1>4. ASSUME NEW t \in Threads, NEW new \in Threads, NEW n \in 1..MaxEvents, NEW given \in {0, Given},
             ForkThread(t, n, new, given)
      PROVE  FALSE
  <2> DEFINE q == SubSeq(log[t], 1, n)
             a == Plain("thread_created")
  <2>1. log'[new] = Child(q) /\ (u # new => log'[u] = log[u]) /\ log[new] = <<>> /\ n \in 1..Len(log[t])
    BY <1>1, <1>4 DEF ForkThread, StoreInv, Child, Exists
  <2>2. LogOK(q) /\ q # <<>>
    BY <2>1, ThreadSound, LogPrefix
  <2>3. a \in Event /\ a.kind = "thread_created"
    BY DEF Plain, Event, Kinds
  <2> HIDE DEF q
  <2>4. Inherited(q) \in Seq(Event) /\ Child(q) = <<a>> \o Inherited(q)
    BY <2>2, <2>3, InheritedOver DEF Child
  <2> HIDE DEF a
  <2>5. u = new /\ Len(Child(q)) = 1
    <3>1. u = new /\ Len(log'[new]) = Len(log[new]) + 1
      BY <1>2, <2>1 DEF Summarised
    <3> QED BY <2>1, <3>1
  <2>6. Child(q)[1] = a /\ Len(Child(q)) = 1 + Len(Inherited(q))
    BY <2>3, <2>4
  <2>7. Last(Child(q)) = a
    BY <2>5, <2>6 DEF Last
  <2> QED BY <2>1, <2>3, <2>5, <2>7 DEF Summarised
<1>5. ASSUME NEW t \in Threads, NEW e \in Event, e.kind # "context_compacted", AppendEvents(t, <<e>>) PROVE FALSE
  <2>1. <<e>> \in Seq(Event) /\ <<e>> # <<>> /\ <<e>>[1] = e
    OBVIOUS
  <2> QED BY <1>5, <2>1, NotSummarised
<1>6. ASSUME NEW t \in Threads, NEW e \in Event, NEW f \in Event, AppendEvents(t, <<e, f>>) PROVE FALSE
  <2>1. <<e, f>> \in Seq(Event) /\ <<e, f>> # <<>> /\ Len(<<e, f>>) # 1
    OBVIOUS
  <2> QED BY <1>6, <2>1, NotSummarised
<1>7. ASSUME NEW k \in Kinds, NEW c \in Calls \cup {NoCall}, NEW s \in ActionStatuses
      PROVE  /\ Plain(k) \in Event /\ Plain(k).kind = k
             /\ OfCall(k, c) \in Event /\ OfCall(k, c).kind = k
             /\ [Plain(k) EXCEPT !.status = s] \in Event /\ [Plain(k) EXCEPT !.status = s].kind = k
  BY DEF Plain, OfCall, Event, Kinds
<1>8. ASSUME NEW t \in Threads, NEW k \in Kinds \ {"context_compacted"},
             NEW c \in Calls \cup {NoCall}, NEW s \in ActionStatuses,
             \/ AppendEvents(t, <<Plain(k)>>)
             \/ AppendEvents(t, <<OfCall(k, c)>>)
             \/ AppendEvents(t, <<[Plain(k) EXCEPT !.status = s]>>)
      PROVE  FALSE
  <2>1. k \in Kinds /\ k # "context_compacted"
    OBVIOUS
  <2>2. CASE AppendEvents(t, <<Plain(k)>>)
    BY <1>5, <1>7, <2>1, <2>2
  <2>3. CASE AppendEvents(t, <<OfCall(k, c)>>)
    BY <1>5, <1>7, <2>1, <2>3
  <2>4. CASE AppendEvents(t, <<[Plain(k) EXCEPT !.status = s]>>)
    <3> DEFINE e == [Plain(k) EXCEPT !.status = s]
    <3>1. e \in Event /\ e.kind = k /\ AppendEvents(t, <<e>>)
      BY <1>7, <2>1, <2>4
    <3> HIDE DEF e
    <3> QED BY <1>5, <2>1, <3>1
  <2> QED BY <1>8, <2>2, <2>3, <2>4
<1>9. "executing" \in ActionStatuses /\ \A k \in {"assistant_completed", "tool_proposed", "tool_completed", "tool_progress",
           "approval_required", "approval_resolved", "turn_completed", "turn_cancelled", "turn_failed", "turn_started", "action_updated"} :
          k \in Kinds \ {"context_compacted"}
  BY DEF Kinds, ActionStatuses
<1>10. ASSUME NEW t \in Threads, UserAsks(t) PROVE FALSE
  <2> DEFINE e == [Plain("user_message") EXCEPT !.text = UserMessages(t) + 1]
  <2>1. Fine(log[t], e, NoThread)
    BY FineMessage
  <2>2. e \in Event /\ e.kind # "context_compacted"
    <3>1. e.kind = "user_message"
      BY DEF Plain
    <3> QED BY <2>1, <3>1 DEF Fine, Legal
  <2>3. AppendEvents(t, <<e>>)
    BY <1>10 DEF UserAsks
  <2> HIDE DEF e
  <2> QED BY <1>5, <2>2, <2>3
<1>11. ASSUME NEW t \in Threads, ToolCompleted(t) PROVE FALSE
  <2>1. OfCall("tool_progress", phase[t].call) \in Event /\ OfCall("tool_completed", phase[t].call) \in Event
    BY <1>1 DEF Plain, OfCall, Event, Kinds
  <2> QED BY <1>6, <1>11, <2>1 DEF ToolCompleted
<1>12. ASSUME NEW t \in Threads,
              \/ TurnBegins(t)
              \/ AssistantCompleted(t)
              \/ ApprovalRequired(t)
              \/ ApprovalResolved(t)
              \/ AnswerEnds(t)
              \/ PendingCompleted(t)
              \/ TurnBreaksOff(t)
              \/ TurnRefused(t)
       PROVE  FALSE
  <2>1. \/ UNCHANGED log
        \/ \E k \in Kinds \ {"context_compacted"} : AppendEvents(t, <<Plain(k)>>) \/ AppendEvents(t, <<OfCall(k, phase[t].call)>>)
    BY <1>9, <1>12 DEF TurnBegins, AssistantCompleted, ApprovalRequired, ApprovalResolved, AnswerEnds, PendingCompleted, TurnBreaksOff, TurnRefused
  <2> QED BY <1>1, <1>2, <1>8, <1>9, <2>1
<1>15. ASSUME Restart \/ \E t \in Threads : \/ TurnStarts(t)
                                           \/ ResumedTurnBreaksOff(t)
                                           \/ \E i \in DOMAIN open[t] : ResumeTurn(t, i)
       PROVE  FALSE
  BY <1>2, <1>15 DEF Restart, TurnStarts, ResumedTurnBreaksOff, ResumeTurn
<1>13. ASSUME NEW t \in Threads, NEW c \in Calls, ToolProposed(t, c) PROVE FALSE
  BY <1>8, <1>9, <1>13 DEF ToolProposed
<1>14. ASSUME NEW t \in Threads, NEW s \in ActionStatuses, ActionUpdated(t, s) PROVE FALSE
  <2>1. NoCall \in Calls \cup {NoCall}
    OBVIOUS
  <2> QED BY <1>8, <1>9, <1>14, <2>1 DEF ActionUpdated
<1> QED BY <1>3, <1>4, <1>10, <1>11, <1>12, <1>13, <1>14, <1>15 DEF Next

\* In a thread that is not a fork, every compaction hides events that none hid
\* before, and what is hidden is a prefix of the history: maybe_compact never
\* summarises the same range again, whatever happens in between.
THEOREM CompactionsAdvance == Spec => CompactionAdvances
<1>1. ASSUME ThreadInv, [Next]_vars
      PROVE  [\A t \in Threads :
                (/\ lineage[t].parent = NoThread
                 /\ Len(log'[t]) = Len(log[t]) + 1
                 /\ Last(log'[t]).kind = "context_compacted") =>
                    /\ Hidden(log[t]) \subseteq Hidden(log'[t]) /\ Hidden(log[t]) # Hidden(log'[t])
                    /\ \A i \in Hidden(log'[t]), j \in Contributing(log'[t]) : j < i => j \in Hidden(log'[t])
             ]_vars
  <2>1. SUFFICES ASSUME Next, NEW t \in Threads, lineage[t].parent = NoThread, Summarised(t)
                 PROVE  Advance(log[t], log'[t])
    BY <1>1 DEF Summarised, Advance
  <2>2. PICK u \in Threads : MaybeCompact(u)
    BY <1>1, <2>1, OnlyCompactionSummarises
  <2> QED BY <1>1, <2>1, <2>2, CompactsRange
<1> QED BY <1>1, ThreadInvariant, PTL DEF Spec, CompactionAdvances

-----------------------------------------------------------------------------
(* Which calls and results are paired. *)

Elements(s) == {s[j] : j \in 1..Len(s)}
Distinct(s) == \A i, j \in 1..Len(s) : s[i] = s[j] => i = j

\* An element more at the end of a queue.
LEMMA Queued ==
  ASSUME NEW S, NEW s \in Seq(S), Distinct(s), NEW x \in S, x \notin Elements(s)
  PROVE  Elements(Append(s, x)) = Elements(s) \cup {x} /\ Distinct(Append(s, x))
<1> DEFINE t == Append(s, x)
           n == Len(s)
<1>1. n \in Nat /\ Len(t) = n + 1 /\ t[n + 1] = x /\ \A i \in 1..n : t[i] = s[i]
  BY Appended
<1> HIDE DEF t, n
<1>2. Elements(t) = {t[j] : j \in 1..(n + 1)} /\ Elements(s) = {s[j] : j \in 1..n}
  BY <1>1 DEF Elements, n
<1>3. Elements(t) = Elements(s) \cup {x}
  BY <1>1, <1>2
<1>4. ASSUME NEW i \in 1..(n + 1), NEW j \in 1..(n + 1), t[i] = t[j] PROVE i = j
  <2>1. \A k \in 1..n : t[k] # x
    BY <1>1, <1>2
  <2>2. CASE i \in 1..n /\ j \in 1..n
    BY <1>1, <1>4, <2>2 DEF Distinct, n
  <2>3. CASE i = n + 1 \/ j = n + 1
    BY <1>1, <1>4, <2>1, <2>3
  <2> QED BY <1>1, <2>2, <2>3
<1>5. Distinct(t)
  BY <1>1, <1>4 DEF Distinct
<1> QED BY <1>3, <1>5 DEF t

\* The first element of a queue is taken.
LEMMA Dequeued ==
  ASSUME NEW S, NEW s \in Seq(S), Distinct(s), s # <<>>
  PROVE  /\ Head(s) \in Elements(s)
         /\ Elements(Tail(s)) = Elements(s) \ {Head(s)} /\ Distinct(Tail(s))
<1> DEFINE t == Tail(s)
           n == Len(s)
<1>1. n \in Nat /\ n # 0 /\ Len(t) = n - 1 /\ Head(s) = s[1] /\ \A i \in 1..(n - 1) : t[i] = s[i + 1]
  BY HeadTailProperties, EmptySeq
<1> HIDE DEF t, n
<1>2. Elements(t) = {t[j] : j \in 1..(n - 1)} /\ Elements(s) = {s[j] : j \in 1..n}
  BY <1>1 DEF Elements, n
<1>3. \A i, j \in 1..n : s[i] = s[j] => i = j
  BY DEF Distinct, n
<1>4. Head(s) \in Elements(s)
  BY <1>1, <1>2
<1>5. ASSUME NEW x \in Elements(t) PROVE x \in Elements(s) \ {Head(s)}
  <2>1. PICK j \in 1..(n - 1) : x = s[j + 1]
    BY <1>1, <1>2
  <2>2. j + 1 \in 1..n /\ 1 \in 1..n /\ j + 1 # 1
    BY <1>1
  <2> QED BY <1>1, <1>2, <1>3, <2>1, <2>2
<1>6. ASSUME NEW x \in Elements(s), x # Head(s) PROVE x \in Elements(t)
  <2>1. PICK j \in 1..n : x = s[j]
    BY <1>2
  <2>2. j # 1 /\ j - 1 \in 1..(n - 1) /\ (j - 1) + 1 = j
    BY <1>1, <1>6, <2>1
  <2>3. x = t[j - 1]
    BY <1>1, <2>1, <2>2
  <2> QED BY <1>2, <2>2, <2>3
<1>7. ASSUME NEW i \in 1..(n - 1), NEW j \in 1..(n - 1), t[i] = t[j] PROVE i = j
  <2>1. i + 1 \in 1..n /\ j + 1 \in 1..n /\ s[i + 1] = s[j + 1]
    BY <1>1, <1>7
  <2>2. i + 1 = j + 1
    BY <1>3, <2>1
  <2> QED BY <1>1, <2>2
<1>8. Distinct(t)
  BY <1>1, <1>7 DEF Distinct
<1>9. Elements(t) = Elements(s) \ {Head(s)}
  BY <1>5, <1>6
<1> QED BY <1>4, <1>8, <1>9 DEF t

\* The call id of an item.
CallOf(l, items, k) == l[items[k]].call

\* Pairs of a call and a later result with the same id, no item in two of them.
Paired(l, items, P) ==
  /\ \A p \in P : /\ p[1] \in 1..Len(items) /\ p[2] \in 1..Len(items) /\ p[1] < p[2]
                  /\ IsCall(l, items[p[1]]) /\ IsResult(l, items[p[2]])
                  /\ CallOf(l, items, p[1]) = CallOf(l, items, p[2])
  /\ \A p, q \in P : (p[1] = q[1] => p[2] = q[2]) /\ (p[2] = q[2] => p[1] = q[1])

\* What is true after k items: the pairs are pairs of those, the calls that wait
\* are calls with the id they wait under and in no pair, and every call waits or
\* is paired.
Matched(l, items, acc, k) ==
  /\ Paired(l, items, acc.pairs)
  /\ \A p \in acc.pairs : p[2] <= k
  /\ \A c \in Calls : Distinct(acc.pending[c])
  /\ \A c \in Calls : \A i \in Elements(acc.pending[c]) :
        /\ i \in 1..k /\ IsCall(l, items[i]) /\ CallOf(l, items, i) = c
        /\ \A p \in acc.pairs : p[1] # i
  /\ \A i \in 1..k : IsCall(l, items[i]) =>
        i \in Elements(acc.pending[CallOf(l, items, i)]) \/ \E p \in acc.pairs : p[1] = i

\* A call.
LEMMA MatchedCall ==
  ASSUME NEW l, NEW items, ItemsOf(items, l), NEW k \in 1..Len(items), NEW acc \in Matches(Len(items)),
         Matched(l, items, acc, k - 1), IsCall(l, items[k])
  PROVE  Matched(l, items, Match(l, items, acc, k), k)
<1> DEFINE N == Len(items)
           m == Match(l, items, acc, k)
           c == CallOf(l, items, k)
           q == acc.pending[c]
<1>1. N \in Nat /\ k \in 1..N /\ k - 1 \in Nat
  BY DEF ItemsOf
<1>2. c \in Calls
  BY ItemIs DEF CallOf
<1>3. m.pairs = acc.pairs /\ m.pending = [acc.pending EXCEPT ![c] = Append(q, k)]
  <2>1. MatchStep(l, items, acc, k, m)
    BY MatchDoes
  <2> HIDE DEF m
  <2> QED BY <2>1 DEF MatchStep, CallOf
<1>4. q \in Seq(1..N) /\ acc.pending \in [Calls -> Seq(1..N)]
  BY <1>2 DEF Matches
<1>5. /\ Paired(l, items, acc.pairs)
      /\ \A p \in acc.pairs : p[2] <= k - 1
      /\ \A d \in Calls : Distinct(acc.pending[d])
      /\ \A d \in Calls : \A i \in Elements(acc.pending[d]) :
            /\ i \in 1..(k - 1) /\ IsCall(l, items[i]) /\ CallOf(l, items, i) = d
            /\ \A p \in acc.pairs : p[1] # i
      /\ \A i \in 1..(k - 1) : IsCall(l, items[i]) =>
            i \in Elements(acc.pending[CallOf(l, items, i)]) \/ \E p \in acc.pairs : p[1] = i
  BY DEF Matched
<1> HIDE DEF m, N
<1>6. k \notin Elements(q)
  <2>1. \A i \in Elements(q) : i \in 1..(k - 1)
    BY <1>2, <1>5
  <2>2. k \notin 1..(k - 1)
    BY <1>1
  <2> QED BY <2>1, <2>2
<1>7. Elements(Append(q, k)) = Elements(q) \cup {k} /\ Distinct(Append(q, k))
  BY <1>1, <1>2, <1>4, <1>5, <1>6, Queued
<1>8. \A d \in Calls : m.pending[d] = IF d = c THEN Append(q, k) ELSE acc.pending[d]
  BY <1>2, <1>3, <1>4
<1>9. \A d \in Calls : Distinct(m.pending[d])
  BY <1>5, <1>7, <1>8
<1>10. \A p \in acc.pairs : p[1] # k /\ p[2] <= k
  <2>1. \A p \in acc.pairs : p[1] \in 1..N /\ p[2] \in 1..N /\ p[1] < p[2]
    BY <1>5 DEF Paired, N
  <2> QED BY <1>1, <1>5, <2>1
<1>11. ASSUME NEW d \in Calls, NEW i \in Elements(m.pending[d])
       PROVE  /\ i \in 1..k /\ IsCall(l, items[i]) /\ CallOf(l, items, i) = d
              /\ \A p \in acc.pairs : p[1] # i
  <2>1. CASE d = c /\ i = k
    BY <1>1, <1>10, <2>1
  <2>2. CASE ~(d = c /\ i = k)
    <3>1. i \in Elements(acc.pending[d])
      BY <1>7, <1>8, <1>11, <2>2
    <3> HIDE DEF c
    <3>2. /\ i \in 1..(k - 1) /\ IsCall(l, items[i]) /\ CallOf(l, items, i) = d
          /\ \A p \in acc.pairs : p[1] # i
      BY <1>5, <3>1
    <3>3. i \in 1..k
      BY <1>1, <3>2
    <3> QED BY <3>2, <3>3
  <2> QED BY <2>1, <2>2
<1>12. ASSUME NEW i \in 1..k, IsCall(l, items[i])
       PROVE  i \in Elements(m.pending[CallOf(l, items, i)]) \/ \E p \in acc.pairs : p[1] = i
  <2>1. CASE i = k
    BY <1>2, <1>7, <1>8, <2>1
  <2>2. CASE i # k
    <3>1. i \in 1..(k - 1)
      BY <1>1, <2>2
    <3>2. CallOf(l, items, i) \in Calls
      <4>1. i \in 1..N
        BY <1>1, <3>1
      <4> QED BY <1>12, <4>1, ItemIs DEF CallOf, N
    <3> DEFINE d == CallOf(l, items, i)
    <3>3. i \in Elements(acc.pending[d]) \/ \E p \in acc.pairs : p[1] = i
      BY <1>5, <1>12, <3>1
    <3>4. Elements(acc.pending[d]) \subseteq Elements(m.pending[d])
      <4>1. d \in Calls
        BY <3>2
      <4> HIDE DEF d
      <4> QED BY <1>7, <1>8, <4>1
    <3> QED BY <3>3, <3>4
  <2> QED BY <2>1, <2>2
<1>13. Matched(l, items, m, k)
  BY <1>3, <1>5, <1>9, <1>10, <1>11, <1>12 DEF Matched
<1> QED BY <1>13 DEF m

\* A result for which a call waits.
LEMMA MatchedResult ==
  ASSUME NEW l, NEW items, ItemsOf(items, l), NEW k \in 1..Len(items), NEW acc \in Matches(Len(items)),
         Matched(l, items, acc, k - 1), IsResult(l, items[k]), acc.pending[CallOf(l, items, k)] # <<>>
  PROVE  /\ Matched(l, items, Match(l, items, acc, k), k)
         /\ acc.pairs \subseteq Match(l, items, acc, k).pairs
         /\ \E p \in Match(l, items, acc, k).pairs : p[2] = k
<1> DEFINE N == Len(items)
           m == Match(l, items, acc, k)
           c == CallOf(l, items, k)
           q == acc.pending[c]
           h == Head(q)
<1>1. N \in Nat /\ k \in 1..N /\ k - 1 \in Nat
  BY DEF ItemsOf
<1>2. c \in Calls /\ ~IsCall(l, items[k])
  BY ItemIs DEF CallOf
<1>3. m.pairs = acc.pairs \cup {<<h, k>>} /\ m.pending = [acc.pending EXCEPT ![c] = Tail(q)]
  <2>1. MatchStep(l, items, acc, k, m)
    BY MatchDoes
  <2> HIDE DEF m
  <2> QED BY <2>1 DEF MatchStep, CallOf
<1>4. q \in Seq(1..N) /\ acc.pending \in [Calls -> Seq(1..N)] /\ q # <<>>
  BY <1>2 DEF Matches
<1>5. /\ Paired(l, items, acc.pairs)
      /\ \A p \in acc.pairs : p[2] <= k - 1
      /\ \A d \in Calls : Distinct(acc.pending[d])
      /\ \A d \in Calls : \A i \in Elements(acc.pending[d]) :
            /\ i \in 1..(k - 1) /\ IsCall(l, items[i]) /\ CallOf(l, items, i) = d
            /\ \A p \in acc.pairs : p[1] # i
      /\ \A i \in 1..(k - 1) : IsCall(l, items[i]) =>
            i \in Elements(acc.pending[CallOf(l, items, i)]) \/ \E p \in acc.pairs : p[1] = i
  BY DEF Matched
<1>6. h \in Elements(q) /\ Elements(Tail(q)) = Elements(q) \ {h} /\ Distinct(Tail(q))
  <2>1. Distinct(q)
    BY <1>2, <1>5
  <2> HIDE DEF q
  <2> QED BY <1>4, <2>1, Dequeued
<1>7. h \in 1..(k - 1) /\ IsCall(l, items[h]) /\ CallOf(l, items, h) = c /\ \A p \in acc.pairs : p[1] # h
  BY <1>2, <1>5, <1>6
<1> HIDE DEF m, N, h
<1>8. \A d \in Calls : m.pending[d] = IF d = c THEN Tail(q) ELSE acc.pending[d]
  BY <1>2, <1>3, <1>4
<1>9. \A d \in Calls : Distinct(m.pending[d])
  BY <1>5, <1>6, <1>8
<1>10. /\ \A p \in acc.pairs : /\ p[1] \in 1..N /\ p[2] \in 1..N /\ p[1] < p[2]
                               /\ IsCall(l, items[p[1]]) /\ IsResult(l, items[p[2]])
                               /\ CallOf(l, items, p[1]) = CallOf(l, items, p[2])
       /\ \A p, r \in acc.pairs : (p[1] = r[1] => p[2] = r[2]) /\ (p[2] = r[2] => p[1] = r[1])
  BY <1>5 DEF Paired, N
<1>11. /\ <<h, k>>[1] = h /\ <<h, k>>[2] = k
       /\ h \in 1..N /\ h < k
       /\ \A p \in acc.pairs : p[1] # h /\ p[2] # k /\ p[2] <= k
  <2>1. \A p \in acc.pairs : p[2] # k /\ p[2] <= k
    BY <1>1, <1>5, <1>10
  <2> QED BY <1>1, <1>7, <2>1
<1>12. Paired(l, items, m.pairs)
  <2>1. ASSUME NEW p \in m.pairs
        PROVE  /\ p[1] \in 1..N /\ p[2] \in 1..N /\ p[1] < p[2]
               /\ IsCall(l, items[p[1]]) /\ IsResult(l, items[p[2]])
               /\ CallOf(l, items, p[1]) = CallOf(l, items, p[2])
    <3>1. CASE p \in acc.pairs
      BY <1>10, <3>1
    <3>2. CASE p = <<h, k>>
      BY <1>1, <1>7, <1>11, <3>2
    <3> QED BY <1>3, <3>1, <3>2
  <2>2. ASSUME NEW p \in m.pairs, NEW r \in m.pairs
        PROVE  (p[1] = r[1] => p[2] = r[2]) /\ (p[2] = r[2] => p[1] = r[1])
    BY <1>3, <1>10, <1>11
  <2> QED BY <2>1, <2>2 DEF Paired, N
<1>13. \A p \in m.pairs : p[2] <= k
  BY <1>1, <1>3, <1>11
<1>14. ASSUME NEW d \in Calls, NEW i \in Elements(m.pending[d])
       PROVE  /\ i \in 1..k /\ IsCall(l, items[i]) /\ CallOf(l, items, i) = d
              /\ \A p \in m.pairs : p[1] # i
  <2>1. i \in Elements(acc.pending[d]) /\ (d = c => i # h)
    BY <1>6, <1>8, <1>14
  <2>2. /\ i \in 1..(k - 1) /\ IsCall(l, items[i]) /\ CallOf(l, items, i) = d
        /\ \A p \in acc.pairs : p[1] # i
    <3> HIDE DEF c
    <3> QED BY <1>5, <2>1
  <2>3. i # h
    BY <1>7, <2>1, <2>2
  <2>4. i \in 1..k
    BY <1>1, <2>2
  <2> QED BY <1>3, <1>11, <2>2, <2>3, <2>4
<1>15. ASSUME NEW i \in 1..k, IsCall(l, items[i])
       PROVE  i \in Elements(m.pending[CallOf(l, items, i)]) \/ \E p \in m.pairs : p[1] = i
  <2>1. i \in 1..(k - 1)
    BY <1>1, <1>2, <1>15
  <2> DEFINE d == CallOf(l, items, i)
  <2>2. d \in Calls
    <3>1. i \in 1..N
      BY <1>1, <2>1
    <3> QED BY <1>15, <3>1, ItemIs DEF CallOf, N
  <2>3. i \in Elements(acc.pending[d]) \/ \E p \in acc.pairs : p[1] = i
    BY <1>5, <1>15, <2>1
  <2> HIDE DEF d
  <2>4. CASE i = h
    BY <1>3, <1>11, <2>4
  <2>5. CASE i # h /\ i \in Elements(acc.pending[d])
    <3>1. i \in Elements(m.pending[d])
      BY <1>6, <1>8, <2>2, <2>5
    <3> QED BY <3>1 DEF d
  <2>6. CASE \E p \in acc.pairs : p[1] = i
    BY <1>3, <2>6
  <2> QED BY <2>3, <2>4, <2>5, <2>6
<1>16. Matched(l, items, m, k)
  BY <1>9, <1>12, <1>13, <1>14, <1>15 DEF Matched
<1>17. acc.pairs \subseteq m.pairs /\ \E p \in m.pairs : p[2] = k
  BY <1>3, <1>11
<1> QED BY <1>16, <1>17 DEF m

\* Any other item, and a result for which no call waits.
LEMMA MatchedOther ==
  ASSUME NEW l, NEW items, ItemsOf(items, l), NEW k \in 1..Len(items), NEW acc \in Matches(Len(items)),
         Matched(l, items, acc, k - 1), ~IsCall(l, items[k]),
         ~(IsResult(l, items[k]) /\ acc.pending[CallOf(l, items, k)] # <<>>)
  PROVE  Matched(l, items, Match(l, items, acc, k), k) /\ Match(l, items, acc, k) = acc
<1>1. Match(l, items, acc, k) = acc
  <2>1. MatchStep(l, items, acc, k, Match(l, items, acc, k))
    BY MatchDoes
  <2> QED BY <2>1 DEF MatchStep, CallOf
<1>2. k \in Nat /\ k \in 1..Len(items) /\ Len(items) \in Nat
  BY DEF ItemsOf
<1>3. \A i \in 1..(k - 1) : i \in 1..k
  BY <1>2
<1>4. \A i \in 1..k : i \in 1..(k - 1) \/ i = k
  BY <1>2
<1>5. \A p \in acc.pairs : p[2] <= k
  <2>1. \A p \in acc.pairs : p[2] \in 1..Len(items) /\ p[2] <= k - 1
    BY DEF Matched, Paired
  <2> QED BY <1>2, <2>1
<1> QED BY <1>1, <1>3, <1>4, <1>5 DEF Matched

\* The record after k items is Matched, and pairs are only added.
LEMMA MatchedRun ==
  ASSUME NEW l, NEW items, ItemsOf(items, l), NEW f, MatchRun(f, l, items)
  PROVE  \A k \in 0..Len(items) : Matched(l, items, f[k], k) /\ f[k].pairs \subseteq f[Len(items)].pairs
<1> DEFINE N == Len(items)
<1>1. N \in Nat
  BY DEF ItemsOf
<1>2. /\ f \in [0..N -> Matches(N)] /\ f[0] = NoMatch
      /\ \A k \in 1..N : f[k] = Match(l, items, f[k - 1], k) /\ f[k - 1] \in Matches(N)
  <2>1. \A k \in 1..N : k - 1 \in 0..N
    BY <1>1
  <2> QED BY <2>1 DEF MatchRun
<1> DEFINE P == {k \in 0..N : Matched(l, items, f[k], k)}
<1>3. 0 \in P
  <2>1. NoMatch.pairs = {} /\ \A c \in Calls : NoMatch.pending[c] = <<>>
    BY DEF NoMatch
  <2>2. Distinct(<<>>) /\ Elements(<<>>) = {}
    BY DEF Distinct, Elements
  <2>3. Matched(l, items, NoMatch, 0)
    BY <2>1, <2>2 DEF Matched, Paired
  <2> QED BY <1>1, <1>2, <2>3
<1>4. ASSUME NEW k \in 1..N, Matched(l, items, f[k - 1], k - 1)
      PROVE  Matched(l, items, f[k], k) /\ f[k - 1].pairs \subseteq f[k].pairs
  <2> DEFINE acc == f[k - 1]
  <2>1. acc \in Matches(N) /\ f[k] = Match(l, items, acc, k) /\ Matched(l, items, acc, k - 1)
    BY <1>2, <1>4
  <2> HIDE DEF acc
  <2>2. CASE IsCall(l, items[k])
    <3>1. Matched(l, items, Match(l, items, acc, k), k)
      BY <2>1, <2>2, MatchedCall
    <3>2. MatchStep(l, items, acc, k, Match(l, items, acc, k))
      BY <2>1, MatchDoes
    <3> QED BY <2>1, <2>2, <3>1, <3>2 DEF MatchStep, acc
  <2>3. CASE IsResult(l, items[k]) /\ acc.pending[CallOf(l, items, k)] # <<>>
    BY <2>1, <2>3, MatchedResult DEF acc
  <2>4. CASE ~IsCall(l, items[k]) /\ ~(IsResult(l, items[k]) /\ acc.pending[CallOf(l, items, k)] # <<>>)
    BY <2>1, <2>4, MatchedOther DEF acc
  <2> QED BY <2>2, <2>3, <2>4
<1>5. 0..N \subseteq P
  <2>1. \A k \in 1..N : k - 1 \in P => k \in P
    BY <1>1, <1>4
  <2> HIDE DEF P, N
  <2> QED BY <1>1, <1>3, <2>1, Induct
<1>6. \A k \in 0..N : Matched(l, items, f[k], k)
  BY <1>5
<1>7. \A k \in 1..N : f[k - 1].pairs \subseteq f[k].pairs
  <2>1. \A k \in 1..N : k - 1 \in 0..N
    BY <1>1
  <2> QED BY <1>4, <1>6, <2>1
<1> DEFINE Q == {d \in 0..N : f[N - d].pairs \subseteq f[N].pairs}
<1>8. 0 \in Q
  <2>1. N - 0 = N /\ 0 \in 0..N
    BY <1>1
  <2> HIDE DEF N
  <2> QED BY <2>1
<1>9. ASSUME NEW d \in 1..N, d - 1 \in Q PROVE d \in Q
  <2>1. N - (d - 1) \in 1..N /\ N - d = (N - (d - 1)) - 1 /\ d \in 0..N
    BY <1>1
  <2>2. f[N - (d - 1)].pairs \subseteq f[N].pairs
    BY <1>9
  <2>3. f[(N - (d - 1)) - 1].pairs \subseteq f[N - (d - 1)].pairs
    BY <1>7, <2>1
  <2>4. f[N - d].pairs \subseteq f[N].pairs
    BY <2>1, <2>2, <2>3
  <2> QED BY <2>1, <2>4
<1>10. 0..N \subseteq Q
  <2> HIDE DEF Q, N
  <2> QED BY <1>1, <1>8, <1>9, Induct
<1>11. ASSUME NEW k \in 0..N PROVE f[k].pairs \subseteq f[N].pairs
  <2>1. N - k \in 0..N /\ N - (N - k) = k
    BY <1>1
  <2>2. N - k \in Q
    <3> HIDE DEF Q
    <3> QED BY <1>10, <2>1
  <2> QED BY <2>1, <2>2
<1> QED BY <1>6, <1>11

-----------------------------------------------------------------------------
(* Balanced items are the ones that matching pairs completely. *)

\* The calls and the results with an id among the first k items.
CallsAt(l, items, k, c) == {j \in 1..k : IsCall(l, items[j]) /\ l[items[j]].call = c}
ResultsAt(l, items, k, c) == {j \in 1..k : IsResult(l, items[j]) /\ l[items[j]].call = c}

\* Balanced, in terms of these.
LEMMA BalancedIs ==
  ASSUME NEW l, NEW items
  PROVE  Balanced(l, items) <=>
            \A c \in Calls :
               /\ Cardinality(CallsAt(l, items, Len(items), c)) = Cardinality(ResultsAt(l, items, Len(items), c))
               /\ \A k \in DOMAIN items :
                     Cardinality(ResultsAt(l, items, k, c)) <= Cardinality(CallsAt(l, items, k, c))
BY Zenon DEF Balanced, CallsAt, ResultsAt

\* An injection counts, and one that misses an element counts strictly.
LEMMA Count ==
  ASSUME NEW n \in Nat, NEW A \in SUBSET (1..n), NEW B \in SUBSET (1..n), NEW f \in [A -> B],
         \A x, y \in A : f[x] = f[y] => x = y
  PROVE  /\ Cardinality(A) \in Nat /\ Cardinality(B) \in Nat /\ Cardinality(A) <= Cardinality(B)
         /\ (\E b \in B : \A a \in A : f[a] # b) => Cardinality(A) < Cardinality(B)
<1>1. IsFiniteSet(1..n)
  BY FS_Interval
<1>2. IsFiniteSet(A) /\ IsFiniteSet(B)
  BY <1>1, FS_Subset
<1>3. Cardinality(A) \in Nat /\ Cardinality(B) \in Nat
  BY <1>2, FS_CardinalityType
<1>4. f \in Injection(A, B)
  BY DEF Injection, IsInjective
<1>5. Cardinality(A) <= Cardinality(B) /\ (Cardinality(A) = Cardinality(B) <=> f \in Surjection(A, B))
  BY <1>2, <1>4, FS_Injection
<1>6. (\E b \in B : \A a \in A : f[a] # b) => f \notin Surjection(A, B)
  BY DEF Surjection
<1> QED BY <1>3, <1>5, <1>6

\* Every call in A has its result in B, and every result in B its call in A.
FirstsIn(l, items, P, n, A, B) ==
  /\ Paired(l, items, P) /\ n \in Nat /\ A \in SUBSET (1..n) /\ B \in SUBSET (1..n)
  /\ \A a \in A : \E p \in P : p[1] = a /\ p[2] \in B
SecondsIn(l, items, P, n, A, B) ==
  /\ Paired(l, items, P) /\ n \in Nat /\ A \in SUBSET (1..n) /\ B \in SUBSET (1..n)
  /\ \A b \in B : \E p \in P : p[2] = b /\ p[1] \in A

\* Calls whose results are in B are no more than B has, and fewer if B has a
\* result of none of them.
LEMMA FirstsCount ==
  ASSUME NEW l, NEW items, NEW P, NEW n, NEW A, NEW B, FirstsIn(l, items, P, n, A, B)
  PROVE  /\ Cardinality(A) \in Nat /\ Cardinality(B) \in Nat /\ Cardinality(A) <= Cardinality(B)
         /\ (\E b \in B : \A p \in P : p[1] \in A => p[2] # b) => Cardinality(A) < Cardinality(B)
<1> DEFINE Of(a, b) == b \in B /\ \E p \in P : p[1] = a /\ p[2] = b
           f == [a \in A |-> CHOOSE b : Of(a, b)]
<1>0. n \in Nat /\ A \in SUBSET (1..n) /\ B \in SUBSET (1..n) /\ Paired(l, items, P)
  BY DEF FirstsIn
<1>1. \A a \in A : \E b : Of(a, b)
  BY DEF FirstsIn
<1>2. \A a \in A : Of(a, f[a])
  BY <1>1
<1>3. f \in [A -> B]
  BY <1>2
<1> HIDE DEF f
<1>4. \A x, y \in A : f[x] = f[y] => x = y
  BY <1>0, <1>2 DEF Paired
<1>5. (\E b \in B : \A p \in P : p[1] \in A => p[2] # b) => \E b \in B : \A a \in A : f[a] # b
  BY <1>2
<1>6. /\ Cardinality(A) \in Nat /\ Cardinality(B) \in Nat /\ Cardinality(A) <= Cardinality(B)
      /\ (\E b \in B : \A a \in A : f[a] # b) => Cardinality(A) < Cardinality(B)
  BY <1>0, <1>3, <1>4, Count
<1> QED BY <1>5, <1>6

\* Results whose calls are in A are no more than A has, and fewer if A has a
\* call of none of them.
LEMMA SecondsCount ==
  ASSUME NEW l, NEW items, NEW P, NEW n, NEW A, NEW B, SecondsIn(l, items, P, n, A, B)
  PROVE  /\ Cardinality(A) \in Nat /\ Cardinality(B) \in Nat /\ Cardinality(B) <= Cardinality(A)
         /\ (\E a \in A : \A p \in P : p[2] \in B => p[1] # a) => Cardinality(B) < Cardinality(A)
<1> DEFINE Of(b, a) == a \in A /\ \E p \in P : p[1] = a /\ p[2] = b
           f == [b \in B |-> CHOOSE a : Of(b, a)]
<1>0. n \in Nat /\ A \in SUBSET (1..n) /\ B \in SUBSET (1..n) /\ Paired(l, items, P)
  BY DEF SecondsIn
<1>1. \A b \in B : \E a : Of(b, a)
  BY DEF SecondsIn
<1>2. \A b \in B : Of(b, f[b])
  BY <1>1
<1>3. f \in [B -> A]
  BY <1>2
<1> HIDE DEF f
<1>4. \A x, y \in B : f[x] = f[y] => x = y
  BY <1>0, <1>2 DEF Paired
<1>5. (\E a \in A : \A p \in P : p[2] \in B => p[1] # a) => \E a \in A : \A b \in B : f[b] # a
  BY <1>2
<1>6. /\ Cardinality(B) \in Nat /\ Cardinality(A) \in Nat /\ Cardinality(B) <= Cardinality(A)
      /\ (\E a \in A : \A b \in B : f[b] # a) => Cardinality(B) < Cardinality(A)
  BY <1>0, <1>3, <1>4, Count
<1> QED BY <1>5, <1>6

\* Pairs that every call and every result is in.
Complete(l, items, P) ==
  /\ Paired(l, items, P)
  /\ \A k \in 1..Len(items) : IsCall(l, items[k]) => \E p \in P : p[1] = k
  /\ \A k \in 1..Len(items) : IsResult(l, items[k]) => \E p \in P : p[2] = k

\* With such pairs the items are balanced.
LEMMA CompleteBalanced ==
  ASSUME NEW S, NEW l, NEW items \in Seq(S), NEW P, Complete(l, items, P)
  PROVE  Balanced(l, items)
<1> DEFINE N == Len(items)
<1>1. N \in Nat /\ DOMAIN items = 1..N
  OBVIOUS
<1>2. Paired(l, items, P)
  BY DEF Complete
<1>3. \A k : \A c : /\ CallsAt(l, items, k, c) \in SUBSET (1..k) /\ ResultsAt(l, items, k, c) \in SUBSET (1..k)
  BY DEF CallsAt, ResultsAt
<1>4. \A p \in P : p[1] \in 1..N /\ p[2] \in 1..N /\ p[1] < p[2]
  BY <1>2 DEF Paired
<1>5. ASSUME NEW c \in Calls, NEW k \in 1..N
      PROVE  \A b \in ResultsAt(l, items, k, c) : \E p \in P : p[2] = b /\ p[1] \in CallsAt(l, items, k, c)
  <2>1. SUFFICES ASSUME NEW b \in ResultsAt(l, items, k, c)
                 PROVE  \E p \in P : p[2] = b /\ p[1] \in CallsAt(l, items, k, c)
    OBVIOUS
  <2>2. b \in 1..k /\ b \in 1..N /\ IsResult(l, items[b]) /\ l[items[b]].call = c
    BY <1>1, <2>1 DEF ResultsAt
  <2>3. PICK p \in P : p[2] = b
    BY <2>2 DEF Complete
  <2>4. IsCall(l, items[p[1]]) /\ l[items[p[1]]].call = c
    BY <1>2, <2>2, <2>3 DEF Paired, CallOf
  <2>5. p[1] \in 1..k
    BY <1>1, <1>4, <2>2, <2>3
  <2> QED BY <2>3, <2>4, <2>5 DEF CallsAt
<1>6. ASSUME NEW c \in Calls
      PROVE  \A a \in CallsAt(l, items, N, c) : \E p \in P : p[1] = a /\ p[2] \in ResultsAt(l, items, N, c)
  <2>1. SUFFICES ASSUME NEW a \in CallsAt(l, items, N, c)
                 PROVE  \E p \in P : p[1] = a /\ p[2] \in ResultsAt(l, items, N, c)
    OBVIOUS
  <2>2. a \in 1..N /\ IsCall(l, items[a]) /\ l[items[a]].call = c
    BY <2>1 DEF CallsAt
  <2>3. PICK p \in P : p[1] = a
    BY <2>2 DEF Complete
  <2>4. IsResult(l, items[p[2]]) /\ l[items[p[2]]].call = c
    BY <1>2, <2>2, <2>3 DEF Paired, CallOf
  <2> QED BY <1>4, <2>3, <2>4 DEF ResultsAt
<1>7. ASSUME NEW c \in Calls, NEW k \in 1..N
      PROVE  Cardinality(ResultsAt(l, items, k, c)) <= Cardinality(CallsAt(l, items, k, c))
  <2>1. k \in Nat
    BY <1>1
  <2>2. SecondsIn(l, items, P, k, CallsAt(l, items, k, c), ResultsAt(l, items, k, c))
    BY <1>2, <1>3, <1>5, <2>1 DEF SecondsIn
  <2> QED BY <2>2, SecondsCount
<1>8. ASSUME NEW c \in Calls
      PROVE  Cardinality(CallsAt(l, items, N, c)) = Cardinality(ResultsAt(l, items, N, c))
  <2> DEFINE A == CallsAt(l, items, N, c)
             B == ResultsAt(l, items, N, c)
  <2>1. A \in SUBSET (1..N) /\ B \in SUBSET (1..N)
    BY <1>3
  <2>2. \A a \in A : \E p \in P : p[1] = a /\ p[2] \in B
    BY <1>6
  <2>3. \A b \in B : \E p \in P : p[2] = b /\ p[1] \in A
    <3>1. CASE N = 0
      BY <2>1, <3>1
    <3>2. CASE N \in 1..N
      BY <1>5, <3>2
    <3> QED BY <1>1, <3>1, <3>2
  <2> HIDE DEF A, B, N
  <2>4. Cardinality(A) \in Nat /\ Cardinality(B) \in Nat /\ Cardinality(A) <= Cardinality(B)
    <3>1. FirstsIn(l, items, P, N, A, B)
      BY <1>1, <1>2, <2>1, <2>2 DEF FirstsIn
    <3> QED BY <3>1, FirstsCount
  <2>5. Cardinality(B) <= Cardinality(A)
    <3>1. SecondsIn(l, items, P, N, A, B)
      BY <1>1, <1>2, <2>1, <2>3 DEF SecondsIn
    <3> QED BY <3>1, SecondsCount
  <2>6. Cardinality(A) = Cardinality(B)
    BY <2>4, <2>5
  <2> QED BY <2>6 DEF A, B
<1> QED BY <1>1, <1>7, <1>8, BalancedIs

\* What the last record of a run says: the pairs are pairs, every call waits or
\* is paired, and a result that is in no pair found no call waiting for it.
LEMMA PairsMatched ==
  ASSUME NEW l, NEW items, ItemsOf(items, l)
  PROVE  /\ Paired(l, items, Pairs(l, items))
         /\ \A k \in 1..Len(items) :
               IsResult(l, items[k]) /\ (\A p \in Pairs(l, items) : p[2] # k) =>
                  \E acc : Matched(l, items, acc, k - 1) /\ acc.pending[CallOf(l, items, k)] = <<>>
<1> DEFINE N == Len(items)
           Q == Pairs(l, items)
<1>1. PICK f : MatchRun(f, l, items) /\ Q = f[N].pairs
  BY PairsRun
<1>2. N \in Nat /\ N \in 0..N
  BY DEF ItemsOf
<1>3. \A k \in 0..N : Matched(l, items, f[k], k) /\ f[k].pairs \subseteq f[N].pairs
  BY <1>1, MatchedRun
<1>4. Paired(l, items, Q)
  BY <1>1, <1>2, <1>3 DEF Matched
<1>5. ASSUME NEW k \in 1..N, IsResult(l, items[k]), \A p \in Q : p[2] # k
      PROVE  \E acc : Matched(l, items, acc, k - 1) /\ acc.pending[CallOf(l, items, k)] = <<>>
  <2> DEFINE acc == f[k - 1]
  <2>1. k \in 0..N /\ k - 1 \in 0..N
    BY <1>2
  <2>2. acc \in Matches(N) /\ f[k] = Match(l, items, acc, k) /\ Matched(l, items, acc, k - 1)
    BY <1>1, <1>3, <2>1 DEF MatchRun
  <2>3. f[k].pairs \subseteq Q
    BY <1>1, <1>3, <2>1
  <2> HIDE DEF acc
  <2>4. acc.pending[CallOf(l, items, k)] # <<>> => \E p \in Match(l, items, acc, k).pairs : p[2] = k
    BY <1>5, <2>2, MatchedResult
  <2>5. acc.pending[CallOf(l, items, k)] = <<>>
    BY <1>5, <2>2, <2>3, <2>4
  <2> QED BY <2>2, <2>5
<1> QED BY <1>4, <1>5

\* Balanced items have a partner each: a result without one would be one more
\* result than there are calls before it, and then a call without one one more
\* call than there are results.
LEMMA BalancedComplete ==
  ASSUME NEW l, NEW items, ItemsOf(items, l), Balanced(l, items)
  PROVE  Complete(l, items, Pairs(l, items))
<1> DEFINE N == Len(items)
           Q == Pairs(l, items)
<1>1. N \in Nat /\ DOMAIN items = 1..N
  BY DEF ItemsOf
<1>2. \A c \in Calls :
         /\ Cardinality(CallsAt(l, items, N, c)) = Cardinality(ResultsAt(l, items, N, c))
         /\ \A k \in 1..N : Cardinality(ResultsAt(l, items, k, c)) <= Cardinality(CallsAt(l, items, k, c))
  BY <1>1, BalancedIs
<1>3. Paired(l, items, Q)
  BY PairsMatched
<1>4. \A k : \A c : /\ CallsAt(l, items, k, c) \in SUBSET (1..k) /\ ResultsAt(l, items, k, c) \in SUBSET (1..k)
  BY DEF CallsAt, ResultsAt
<1>5. ASSUME NEW k \in 1..N, IsResult(l, items[k]), \A p \in Q : p[2] # k PROVE FALSE
  <2> DEFINE c == CallOf(l, items, k)
             A == CallsAt(l, items, k, c)
             B == ResultsAt(l, items, k, c)
  <2>1. PICK acc : Matched(l, items, acc, k - 1) /\ acc.pending[c] = <<>>
    BY <1>5, PairsMatched
  <2>2. c \in Calls /\ ~IsCall(l, items[k])
    BY <1>5, ItemIs DEF CallOf
  <2>3. Paired(l, items, acc.pairs) /\ \A p \in acc.pairs : p[2] <= k - 1 /\ p[2] \in 1..N
    BY <2>1 DEF Matched, Paired
  <2>4. Elements(<<>>) = {}
    BY DEF Elements
  <2>5. k \in Nat /\ \A i \in 1..k : i = k \/ i \in 1..(k - 1)
    BY <1>1
  <2>6. ASSUME NEW a \in A PROVE \E p \in acc.pairs : p[1] = a /\ p[2] \in B
    <3>1. a \in 1..k /\ IsCall(l, items[a]) /\ CallOf(l, items, a) = c
      BY <2>6 DEF CallsAt, CallOf
    <3>2. a \in 1..(k - 1)
      BY <2>2, <2>5, <3>1
    <3>3. PICK p \in acc.pairs : p[1] = a
      BY <2>1, <2>4, <3>1, <3>2 DEF Matched
    <3>4. IsResult(l, items[p[2]]) /\ CallOf(l, items, p[2]) = c
      BY <2>3, <3>1, <3>3 DEF Paired
    <3>5. p[2] \in 1..k
      BY <1>1, <2>3, <2>5, <3>3
    <3> QED BY <3>3, <3>4, <3>5 DEF ResultsAt, CallOf
  <2>7. k \in B
    BY <1>5, <2>5 DEF ResultsAt, CallOf
  <2>8. \A p \in acc.pairs : p[2] # k
    BY <1>1, <2>3, <2>5
  <2>9. A \in SUBSET (1..k) /\ B \in SUBSET (1..k)
    BY <1>4
  <2>10. \E b \in B : \A p \in acc.pairs : p[1] \in A => p[2] # b
    BY <2>7, <2>8
  <2>11. \A a \in A : \E p \in acc.pairs : p[1] = a /\ p[2] \in B
    BY <2>6
  <2> DEFINE R == acc.pairs
  <2> HIDE DEF A, B, c, R
  <2>12. Cardinality(A) \in Nat /\ Cardinality(B) \in Nat /\ Cardinality(A) < Cardinality(B)
    <3>1. /\ Paired(l, items, R) /\ \E b \in B : \A p \in R : p[1] \in A => p[2] # b
          /\ \A a \in A : \E p \in R : p[1] = a /\ p[2] \in B
      BY <2>3, <2>10, <2>11 DEF R
    <3>2. FirstsIn(l, items, R, k, A, B)
      BY <2>5, <2>9, <3>1 DEF FirstsIn
    <3> QED BY <3>1, <3>2, FirstsCount
  <2>13. Cardinality(B) <= Cardinality(A)
    BY <1>2, <2>2 DEF A, B
  <2> QED BY <2>12, <2>13
<1>6. ASSUME NEW k \in 1..N, IsCall(l, items[k]), \A p \in Q : p[1] # k PROVE FALSE
  <2> DEFINE c == CallOf(l, items, k)
             A == CallsAt(l, items, N, c)
             B == ResultsAt(l, items, N, c)
  <2>1. c \in Calls
    BY <1>6, ItemIs DEF CallOf
  <2>2. ASSUME NEW b \in B PROVE \E p \in Q : p[2] = b /\ p[1] \in A
    <3>1. b \in 1..N /\ IsResult(l, items[b]) /\ CallOf(l, items, b) = c
      BY <2>2 DEF ResultsAt, CallOf
    <3>2. PICK p \in Q : p[2] = b
      BY <1>5, <3>1
    <3>3. p[1] \in 1..N /\ IsCall(l, items[p[1]]) /\ CallOf(l, items, p[1]) = c
      BY <1>3, <3>1, <3>2 DEF Paired
    <3> QED BY <3>2, <3>3 DEF CallsAt, CallOf
  <2>3. k \in A
    BY <1>6 DEF CallsAt, CallOf
  <2>4. A \in SUBSET (1..N) /\ B \in SUBSET (1..N)
    BY <1>4
  <2>5. \E a \in A : \A p \in Q : p[2] \in B => p[1] # a
    BY <1>6, <2>3
  <2>6. \A b \in B : \E p \in Q : p[2] = b /\ p[1] \in A
    BY <2>2
  <2> HIDE DEF A, B, c, Q, N
  <2>7. Cardinality(A) \in Nat /\ Cardinality(B) \in Nat /\ Cardinality(B) < Cardinality(A)
    <3>1. SecondsIn(l, items, Q, N, A, B)
      BY <1>1, <1>3, <2>4, <2>6 DEF SecondsIn
    <3> QED BY <2>5, <3>1, SecondsCount
  <2>8. Cardinality(A) = Cardinality(B)
    BY <1>2, <2>1 DEF A, B
  <2> QED BY <2>7, <2>8
<1> QED BY <1>3, <1>5, <1>6 DEF Complete

\* What drop_unpaired leaves is complete: the partner of what is left is left.
LEMMA DropComplete ==
  ASSUME NEW l, NEW items, ItemsOf(items, l)
  PROVE  \E P : Complete(l, DropUnpaired(l, items), P)
<1> DEFINE Q == Pairs(l, items)
           N == Len(items)
           paired == UNION {{p[1], p[2]} : p \in Q}
           I == {k \in DOMAIN items : \/ k \in paired
                                      \/ ~IsCall(l, items[k]) /\ ~IsResult(l, items[k])}
           d == Keep(items, I)
           n == Len(d)
           D == 1..n
<1>1. DropUnpaired(l, items) = d
  BY DEF DropUnpaired
<1>2. items \in Seq(1..Len(l)) /\ N \in Nat /\ DOMAIN items = 1..N
  BY DEF ItemsOf
<1>3. PICK m : Selects(m, items, I)
  <2> HIDE DEF I
  <2> QED BY <1>2, KeepMap
<1>4. n \in Nat
  <2>1. d \in Seq(1..Len(l))
    <3> HIDE DEF I
    <3> QED BY <1>2, KeepType
  <2> HIDE DEF d
  <2> QED BY <2>1
<1>5. /\ m \in [D -> 1..N]
      /\ \A j \in D : m[j] \in I /\ d[j] = items[m[j]]
      /\ \A i, j \in D : i < j => m[i] < m[j]
      /\ \A i \in 1..N : i \in I => \E j \in D : m[j] = i
  <2> HIDE DEF I
  <2> QED BY <1>3 DEF Selects
<1>6. Paired(l, items, Q)
  BY PairsMatched
<1>7. \A p \in Q : /\ p[1] \in 1..N /\ p[2] \in 1..N /\ p[1] < p[2]
                   /\ IsCall(l, items[p[1]]) /\ IsResult(l, items[p[2]])
                   /\ CallOf(l, items, p[1]) = CallOf(l, items, p[2])
  BY <1>6 DEF Paired
<1>8. \A p \in Q : p[1] \in I /\ p[2] \in I
  BY <1>2, <1>7
<1>9. \A k \in I : IsCall(l, items[k]) \/ IsResult(l, items[k]) => \E p \in Q : k = p[1] \/ k = p[2]
  OBVIOUS
<1>10. \A k \in 1..N : IsCall(l, items[k]) => ~IsResult(l, items[k])
  BY ItemIs
<1> HIDE DEF I, d, n, Q, N
<1>11. \A i, j \in D : m[i] = m[j] => i = j
  <2>1. \A i, j \in D : i < j \/ j < i \/ i = j
    BY <1>4
  <2>2. \A i, j \in D : m[i] \in Nat /\ m[j] \in Nat
    BY <1>2, <1>5
  <2> HIDE DEF D
  <2> QED BY <1>5, <2>1, <2>2
<1>12. \A i, j \in D : m[i] < m[j] => i < j
  <2>1. \A i, j \in D : i < j \/ j < i \/ i = j
    BY <1>4
  <2>2. \A i, j \in D : m[i] \in Nat /\ m[j] \in Nat
    BY <1>2, <1>5
  <2> HIDE DEF D
  <2> QED BY <1>5, <2>1, <2>2
<1> DEFINE Of(a, b) == \E q \in Q : q[1] = m[a] /\ q[2] = m[b]
           P == {p \in D \X D : Of(p[1], p[2])}
<1>13. \A p \in P : p[1] \in D /\ p[2] \in D /\ Of(p[1], p[2])
  OBVIOUS
<1>14. \A a, b \in D : Of(a, b) => \E p \in P : p[1] = a /\ p[2] = b
  <2>1. ASSUME NEW a \in D, NEW b \in D, Of(a, b) PROVE <<a, b>> \in P /\ <<a, b>>[1] = a /\ <<a, b>>[2] = b
    BY <2>1
  <2> HIDE DEF P, Of, D
  <2> QED BY <2>1
<1> HIDE DEF P, D
<1>15. \A a \in D : CallOf(l, d, a) = CallOf(l, items, m[a]) /\ d[a] = items[m[a]]
  BY <1>5 DEF CallOf
<1>16. ASSUME NEW p \in P
       PROVE  /\ p[1] \in D /\ p[2] \in D /\ p[1] < p[2]
              /\ IsCall(l, d[p[1]]) /\ IsResult(l, d[p[2]])
              /\ CallOf(l, d, p[1]) = CallOf(l, d, p[2])
  <2>1. p[1] \in D /\ p[2] \in D /\ Of(p[1], p[2])
    BY <1>13, <1>16
  <2>2. PICK q \in Q : q[1] = m[p[1]] /\ q[2] = m[p[2]]
    BY <2>1
  <2> QED BY <1>7, <1>12, <1>15, <2>1, <2>2
<1>17. ASSUME NEW p \in P, NEW r \in P
       PROVE  (p[1] = r[1] => p[2] = r[2]) /\ (p[2] = r[2] => p[1] = r[1])
  <2>1. p[1] \in D /\ p[2] \in D /\ r[1] \in D /\ r[2] \in D
    BY <1>13, <1>17
  <2>2. PICK q \in Q : q[1] = m[p[1]] /\ q[2] = m[p[2]]
    BY <1>13, <1>17
  <2>3. PICK s \in Q : s[1] = m[r[1]] /\ s[2] = m[r[2]]
    BY <1>13, <1>17
  <2>4. (q[1] = s[1] => q[2] = s[2]) /\ (q[2] = s[2] => q[1] = s[1])
    BY <1>6, <2>2, <2>3 DEF Paired
  <2> QED BY <1>11, <2>1, <2>2, <2>3, <2>4
<1>18. Paired(l, d, P)
  BY <1>16, <1>17 DEF Paired, D, n
<1>19. ASSUME NEW k \in D, IsCall(l, d[k]) PROVE \E p \in P : p[1] = k
  <2>1. m[k] \in I /\ m[k] \in 1..N /\ IsCall(l, items[m[k]])
    BY <1>5, <1>19
  <2>2. PICK q \in Q : m[k] = q[1] \/ m[k] = q[2]
    BY <1>9, <2>1
  <2>3. m[k] = q[1]
    BY <1>7, <1>10, <2>1, <2>2
  <2>4. PICK j \in D : m[j] = q[2]
    BY <1>5, <1>7, <1>8, <2>2
  <2>5. Of(k, j)
    BY <2>2, <2>3, <2>4
  <2> QED BY <1>14, <1>19, <2>4, <2>5
<1>20. ASSUME NEW k \in D, IsResult(l, d[k]) PROVE \E p \in P : p[2] = k
  <2>1. m[k] \in I /\ m[k] \in 1..N /\ IsResult(l, items[m[k]])
    BY <1>5, <1>20
  <2>2. PICK q \in Q : m[k] = q[1] \/ m[k] = q[2]
    BY <1>9, <2>1
  <2>3. m[k] = q[2]
    BY <1>7, <1>10, <2>1, <2>2
  <2>4. PICK j \in D : m[j] = q[1]
    BY <1>5, <1>7, <1>8, <2>2
  <2>5. Of(j, k)
    BY <2>2, <2>3, <2>4
  <2> QED BY <1>14, <1>20, <2>4, <2>5
<1>21. Complete(l, d, P)
  BY <1>18, <1>19, <1>20 DEF Complete, D, n
<1> QED BY <1>1, <1>21

\* The pairs within a suffix, by their positions in it.
Shifted(P, k) == {<<p[1] - k + 1, p[2] - k + 1>> : p \in {q \in P : k <= q[1]}}

\* What is in there.
LEMMA ShiftedIs ==
  ASSUME NEW P, NEW k
  PROVE  /\ \A r \in Shifted(P, k) : \E p \in P : k <= p[1] /\ r[1] = p[1] - k + 1 /\ r[2] = p[2] - k + 1
         /\ \A p \in P : k <= p[1] =>
               \E r \in Shifted(P, k) : r[1] = p[1] - k + 1 /\ r[2] = p[2] - k + 1
<1>1. ASSUME NEW p \in P, k <= p[1]
      PROVE  \E r \in Shifted(P, k) : r[1] = p[1] - k + 1 /\ r[2] = p[2] - k + 1
  <2> DEFINE a == p[1] - k + 1
             b == p[2] - k + 1
             r == <<a, b>>
  <2>1. r \in Shifted(P, k)
    BY <1>1 DEF Shifted
  <2> HIDE DEF a, b
  <2>2. r[1] = a /\ r[2] = b
    OBVIOUS
  <2> HIDE DEF r
  <2>3. \E x \in Shifted(P, k) : x[1] = a /\ x[2] = b
    BY <2>1, <2>2
  <2> QED BY <2>3 DEF a, b
<1>2. \A r \in Shifted(P, k) : \E p \in P : k <= p[1] /\ r[1] = p[1] - k + 1 /\ r[2] = p[2] - k + 1
  BY DEF Shifted
<1> QED BY <1>1, <1>2

\* They are pairs of the suffix, and with complete pairs every call of the suffix
\* is in one.
LEMMA SuffixPairs ==
  ASSUME NEW l, NEW items, ItemsOf(items, l), NEW P, Complete(l, items, P), NEW k \in 1..(Len(items) + 1)
  PROVE  /\ Paired(l, From(items, k), Shifted(P, k))
         /\ \A j \in 1..Len(From(items, k)) :
               IsCall(l, From(items, k)[j]) => \E p \in Shifted(P, k) : p[1] = j
<1> DEFINE N == Len(items)
           s == From(items, k)
           m == Len(s)
           R == Shifted(P, k)
<1>1. items \in Seq(1..Len(l)) /\ N \in Nat /\ k \in 1..(N + 1) /\ k \in Nat
  BY DEF ItemsOf
<1>2. m = N - k + 1 /\ m \in Nat /\ \A i \in 1..m : s[i] = items[k + i - 1]
  BY <1>1, FromIs
<1>3. Paired(l, items, P)
  BY DEF Complete
<1>4. \A p \in P : /\ p[1] \in 1..N /\ p[2] \in 1..N /\ p[1] < p[2]
                   /\ IsCall(l, items[p[1]]) /\ IsResult(l, items[p[2]])
                   /\ CallOf(l, items, p[1]) = CallOf(l, items, p[2])
  BY <1>3 DEF Paired
<1>5. \A r \in R : \E p \in P : k <= p[1] /\ r[1] = p[1] - k + 1 /\ r[2] = p[2] - k + 1
  BY ShiftedIs
<1>6. \A p \in P : k <= p[1] => \E r \in R : r[1] = p[1] - k + 1 /\ r[2] = p[2] - k + 1
  BY ShiftedIs
<1> HIDE DEF N, s, m, R
<1>7. ASSUME NEW i \in 1..N, k <= i
      PROVE  i - k + 1 \in 1..m /\ s[i - k + 1] = items[i] /\ CallOf(l, s, i - k + 1) = CallOf(l, items, i)
  <2>1. i - k + 1 \in 1..m /\ k + (i - k + 1) - 1 = i
    BY <1>1, <1>2, <1>7
  <2>2. s[i - k + 1] = items[i]
    BY <1>2, <2>1
  <2> QED BY <2>1, <2>2 DEF CallOf
<1>8. ASSUME NEW r \in R
      PROVE  /\ r[1] \in 1..m /\ r[2] \in 1..m /\ r[1] < r[2]
             /\ IsCall(l, s[r[1]]) /\ IsResult(l, s[r[2]])
             /\ CallOf(l, s, r[1]) = CallOf(l, s, r[2])
  <2>1. PICK p \in P : k <= p[1] /\ r[1] = p[1] - k + 1 /\ r[2] = p[2] - k + 1
    BY <1>5, <1>8
  <2> DEFINE a == p[1]
             b == p[2]
  <2>2. a \in 1..N /\ b \in 1..N /\ a < b /\ k <= a
    BY <1>4, <2>1
  <2>3. r[1] = a - k + 1 /\ r[2] = b - k + 1
    BY <2>1
  <2> HIDE DEF a, b
  <2>4. k <= b /\ r[1] < r[2]
    BY <1>1, <2>2, <2>3
  <2>5. IsCall(l, items[a]) /\ IsResult(l, items[b]) /\ CallOf(l, items, a) = CallOf(l, items, b)
    BY <1>4 DEF a, b
  <2>6. /\ r[1] \in 1..m /\ s[r[1]] = items[a] /\ CallOf(l, s, r[1]) = CallOf(l, items, a)
        /\ r[2] \in 1..m /\ s[r[2]] = items[b] /\ CallOf(l, s, r[2]) = CallOf(l, items, b)
    BY <1>7, <2>2, <2>3, <2>4
  <2> QED BY <2>4, <2>5, <2>6
<1>9. ASSUME NEW r \in R, NEW q \in R
      PROVE  (r[1] = q[1] => r[2] = q[2]) /\ (r[2] = q[2] => r[1] = q[1])
  <2>1. PICK p \in P : k <= p[1] /\ r[1] = p[1] - k + 1 /\ r[2] = p[2] - k + 1
    BY <1>5, <1>9
  <2>2. PICK o \in P : k <= o[1] /\ q[1] = o[1] - k + 1 /\ q[2] = o[2] - k + 1
    BY <1>5, <1>9
  <2>3. (p[1] = o[1] => p[2] = o[2]) /\ (p[2] = o[2] => p[1] = o[1])
    BY <1>3, <2>1, <2>2 DEF Paired
  <2>4. /\ p[1] \in 1..N /\ p[2] \in 1..N /\ o[1] \in 1..N /\ o[2] \in 1..N
    BY <1>4, <2>1, <2>2
  <2>5. \A x, y \in 1..N : x - k + 1 = y - k + 1 <=> x = y
    BY <1>1
  <2>6. (r[1] = q[1] <=> p[1] = o[1]) /\ (r[2] = q[2] <=> p[2] = o[2])
    <3>1. p[1] - k + 1 = o[1] - k + 1 <=> p[1] = o[1]
      BY <2>4, <2>5, Zenon
    <3>2. p[2] - k + 1 = o[2] - k + 1 <=> p[2] = o[2]
      BY <2>4, <2>5, Zenon
    <3> QED BY <2>1, <2>2, <3>1, <3>2, Zenon
  <2> QED BY <2>3, <2>6
<1>10. Paired(l, s, R)
  BY <1>8, <1>9 DEF Paired, m
<1>11. ASSUME NEW j \in 1..m, IsCall(l, s[j]) PROVE \E r \in R : r[1] = j
  <2>1. k + j - 1 \in 1..N /\ k <= k + j - 1 /\ (k + j - 1) - k + 1 = j
    BY <1>1, <1>2
  <2>2. IsCall(l, items[k + j - 1])
    BY <1>2, <1>11
  <2>3. PICK p \in P : p[1] = k + j - 1
    BY <2>1, <2>2 DEF Complete, N
  <2> QED BY <1>6, <2>1, <2>3
<1> QED BY <1>10, <1>11 DEF s, m, R

\* A suffix of complete items is balanced where it cuts no pair: a result whose
\* call is cut off is one more than the suffix has calls for.
LEMMA SuffixBalanced ==
  ASSUME NEW l, NEW items, ItemsOf(items, l), NEW P, Complete(l, items, P), NEW k \in 1..(Len(items) + 1)
  PROVE  Balanced(l, From(items, k)) <=> Behind(P, k) = {}
<1> DEFINE N == Len(items)
           s == From(items, k)
           m == Len(s)
           R == Shifted(P, k)
<1>1. items \in Seq(1..Len(l)) /\ N \in Nat /\ k \in 1..(N + 1) /\ k \in Nat
  BY DEF ItemsOf
<1>2. s \in Seq(1..Len(l)) /\ m = N - k + 1 /\ m \in Nat /\ \A i \in 1..m : s[i] = items[k + i - 1]
  BY <1>1, FromIs
<1>3. Paired(l, s, R) /\ \A j \in 1..m : IsCall(l, s[j]) => \E p \in R : p[1] = j
  BY <1>1, SuffixPairs
<1>4. \A p \in P : /\ p[1] \in 1..N /\ p[2] \in 1..N /\ p[1] < p[2]
                   /\ IsCall(l, items[p[1]]) /\ IsResult(l, items[p[2]])
                   /\ CallOf(l, items, p[1]) = CallOf(l, items, p[2])
  BY DEF Complete, Paired
<1>5. \A r \in R : \E p \in P : k <= p[1] /\ r[1] = p[1] - k + 1 /\ r[2] = p[2] - k + 1
  BY ShiftedIs
<1>6. \A p \in P : k <= p[1] => \E r \in R : r[1] = p[1] - k + 1 /\ r[2] = p[2] - k + 1
  BY ShiftedIs
<1>7. Behind(P, k) = {} <=> \A p \in P : ~(p[1] < k /\ k <= p[2])
  BY DEF Behind
<1> HIDE DEF N, s, m, R
<1>8. ASSUME Behind(P, k) = {} PROVE Balanced(l, s)
  <2>1. ASSUME NEW j \in 1..m, IsResult(l, s[j]) PROVE \E r \in R : r[2] = j
    <3>1. k + j - 1 \in 1..N /\ k <= k + j - 1 /\ (k + j - 1) - k + 1 = j
      BY <1>1, <1>2
    <3>2. IsResult(l, items[k + j - 1])
      BY <1>2, <2>1
    <3>3. PICK p \in P : p[2] = k + j - 1
      BY <3>1, <3>2 DEF Complete, N
    <3>4. k <= p[1]
      <4>1. p[1] \in 1..N /\ ~(p[1] < k /\ k <= p[2])
        BY <1>4, <1>7, <1>8, <3>3
      <4>2. k <= p[2]
        BY <3>1, <3>3
      <4>3. ~(p[1] < k)
        BY <4>1, <4>2
      <4>4. \A x \in 1..N : ~(x < k) => k <= x
        BY <1>1
      <4> QED BY <4>1, <4>3, <4>4
    <3> QED BY <1>6, <3>1, <3>3, <3>4
  <2>2. Complete(l, s, R)
    BY <1>3, <2>1 DEF Complete, m
  <2> QED BY <1>2, <2>2, CompleteBalanced
<1>9. ASSUME Balanced(l, s), NEW p \in P, p[1] < k, k <= p[2] PROVE FALSE
  <2> DEFINE i == p[2]
             b == i - k + 1
             c == CallOf(l, items, i)
             A == CallsAt(l, s, m, c)
             B == ResultsAt(l, s, m, c)
  <2>1. i \in 1..N /\ k <= i /\ IsResult(l, items[i])
    BY <1>4, <1>9
  <2>2. c \in Calls
    BY <2>1, ItemIs DEF CallOf, N
  <2>3. b \in 1..m /\ s[b] = items[i]
    <3>1. b \in 1..m /\ k + b - 1 = i
      <4> HIDE DEF i
      <4> QED BY <1>1, <1>2, <2>1
    <3> HIDE DEF b
    <3> QED BY <1>2, <3>1
  <2>4. b \in B
    BY <2>1, <2>3 DEF ResultsAt, CallOf
  <2>5. ASSUME NEW r \in R PROVE r[2] # b
    <3>1. PICK q \in P : k <= q[1] /\ r[2] = q[2] - k + 1
      BY <1>5, <2>5
    <3>2. q[1] \in Nat /\ q[2] \in Nat /\ p[1] \in Nat /\ p[2] \in Nat
      <4>1. q[1] \in 1..N /\ q[2] \in 1..N /\ p[1] \in 1..N /\ p[2] \in 1..N
        BY <1>4, <1>9, <3>1, Zenon
      <4>2. 1..N \subseteq Nat
        BY <1>1
      <4> QED BY <4>1, <4>2, Zenon
    <3>3. q[1] # p[1]
      BY <1>1, <1>9, <3>1, <3>2
    <3>4. q[2] # p[2]
      BY <1>9, <3>1, <3>3 DEF Complete, Paired
    <3> QED BY <1>1, <3>1, <3>2, <3>4
  <2>6. ASSUME NEW a \in A PROVE \E r \in R : r[1] = a /\ r[2] \in B
    <3>1. a \in 1..m /\ IsCall(l, s[a]) /\ CallOf(l, s, a) = c
      BY <2>6 DEF CallsAt, CallOf
    <3>2. PICK r \in R : r[1] = a
      BY <1>3, <3>1
    <3>3. r[2] \in 1..m /\ IsResult(l, s[r[2]]) /\ CallOf(l, s, r[2]) = c
      BY <1>3, <3>1, <3>2 DEF Paired, m
    <3> QED BY <3>2, <3>3 DEF ResultsAt, CallOf
  <2>7. A \in SUBSET (1..m) /\ B \in SUBSET (1..m)
    BY DEF CallsAt, ResultsAt
  <2>8. \E y \in B : \A r \in R : r[1] \in A => r[2] # y
    BY <2>4, <2>5
  <2>9. \A a \in A : \E r \in R : r[1] = a /\ r[2] \in B
    BY <2>6
  <2> HIDE DEF A, B, c, b, i
  <2>10. Cardinality(A) \in Nat /\ Cardinality(B) \in Nat /\ Cardinality(A) < Cardinality(B)
    <3>1. m \in Nat /\ Paired(l, s, R)
      BY <1>2, <1>3
    <3>2. FirstsIn(l, s, R, m, A, B)
      BY <2>7, <2>9, <3>1 DEF FirstsIn
    <3> QED BY <2>8, <3>2, FirstsCount
  <2>11. Cardinality(A) = Cardinality(B)
    BY <1>9, <2>2, BalancedIs DEF A, B, m
  <2> QED BY <2>10, <2>11
<1> QED BY <1>7, <1>8, <1>9 DEF s

\* Nothing fits every budget.
LEMMA NothingFits ==
  ASSUME NEW l
  PROVE  Fits(l, <<>>)
<1> DEFINE Eq(h) == h = [T \in SUBSET {} |-> IF T = {} THEN 0 ELSE h[T \ {Max(T)}] + ItemBytes(l, <<>>[Max(T)])]
           h == [T \in SUBSET {} |-> 0]
<1>1. \A T \in SUBSET {} : T = {}
  OBVIOUS
<1>2. Eq(h)
  BY <1>1
<1>3. Eq(CHOOSE g : Eq(g))
  <2> HIDE DEF Eq, h
  <2> QED BY <1>2, Zenon
<1>4. DOMAIN <<>> = {} /\ Len(<<>>) = 0
  OBVIOUS
<1>5. FoldLeft(LAMBDA n, i : n + ItemBytes(l, i), 0, <<>>) = (CHOOSE g : Eq(g))[{}]
  BY <1>4 DEF FoldLeft, MapThenFoldSet
<1>6. (CHOOSE g : Eq(g))[{}] = 0
  <2>1. PICK x : x = (CHOOSE g : Eq(g)) /\ Eq(x)
    <3> HIDE DEF Eq
    <3> QED BY <1>3
  <2>2. x[{}] = 0
    BY <2>1
  <2> HIDE DEF Eq
  <2> QED BY <2>1, <2>2
<1> HIDE DEF Eq
<1>7. FoldLeft(LAMBDA n, i : n + ItemBytes(l, i), 0, <<>>) = 0
  BY <1>5, <1>6, Zenon
<1>8. /\ Cardinality({k \in DOMAIN <<>> : IsCall(l, <<>>[k])}) = 0
      /\ Cardinality({k \in DOMAIN <<>> : IsResult(l, <<>>[k])}) = 0
  BY <1>4, FS_EmptySet
<1>9. MaxItems \in Nat /\ MaxToolCalls \in Nat /\ MaxEvidence \in Nat /\ MaxBytes \in Nat
  BY BudgetAssumption
<1>10. /\ 0 <= MaxItems /\ 0 <= MaxToolCalls /\ 0 <= MaxEvidence /\ 0 <= MaxBytes
  BY <1>9
<1> QED BY <1>4, <1>7, <1>8, <1>10 DEF Fits

\* The least element of a set of numbers is the one CHOOSE names.
LEMMA ChooseLeast ==
  ASSUME NEW S \in SUBSET Nat, NEW k \in S, \A m \in S : k <= m
  PROVE  (CHOOSE x \in S : \A m \in S : x <= m) = k
<1> DEFINE Is(x) == x \in S /\ \A m \in S : x <= m
<1>1. Is(k)
  OBVIOUS
<1>2. \A x : Is(x) => x = k
  <2>1. ASSUME NEW x, Is(x) PROVE x = k
    <3>1. x \in Nat /\ k \in Nat /\ x <= k /\ k <= x
      BY <2>1
    <3> QED BY <3>1
  <2> QED BY <2>1
<1>3. (CHOOSE x : Is(x)) = k
  <2> HIDE DEF Is
  <2> QED BY <1>1, <1>2
<1>4. (CHOOSE x \in S : \A m \in S : x <= m) = (CHOOSE x : Is(x))
  OBVIOUS
<1> QED BY <1>3, <1>4

\* The starts that trimming may stop at are those of the balanced suffixes that
\* fit.
LEMMA StartsAre ==
  ASSUME NEW l, NEW items, ItemsOf(items, l), Complete(l, items, Pairs(l, items))
  PROVE  Starts(l, items) =
            {k \in 1..(Len(items) + 1) : Balanced(l, From(items, k)) /\ Fits(l, From(items, k))}
<1> DEFINE N == Len(items)
           Q == Pairs(l, items)
<1>1. N \in Nat /\ items \in Seq(1..Len(l))
  BY DEF ItemsOf
<1>2. \A k \in 1..(N + 1) : Balanced(l, From(items, k)) <=> Behind(Q, k) = {}
  BY SuffixBalanced
<1>3. Behind(Q, N + 1) = {}
  <2>1. \A p \in Q : p[2] \in 1..N
    BY PairsType
  <2>2. \A p \in Q : ~(N + 1 <= p[2])
    BY <1>1, <2>1
  <2> QED BY <2>2 DEF Behind
<1>4. N + 1 \in 1..(N + 1) /\ \A k \in 1..(N + 1) : k > N <=> k = N + 1
  BY <1>1
<1>5. From(items, N + 1) = <<>>
  <2>1. From(items, N + 1) \in Seq(1..Len(l)) /\ Len(From(items, N + 1)) = N - (N + 1) + 1
    BY <1>1, <1>4, FromIs
  <2>2. Len(From(items, N + 1)) = 0
    BY <1>1, <2>1
  <2> QED BY <2>1, <2>2, EmptySeq
<1>6. Fits(l, From(items, N + 1))
  BY <1>5, NothingFits
<1> QED BY <1>2, <1>3, <1>4, <1>6 DEF Starts

\* build_model_context, for any items of a log: what drop_unpaired leaves is
\* balanced, and the context is its longest suffix that is balanced and fits.
LEMMA ContextIs ==
  ASSUME NEW l, LogOK(l)
  PROVE  LET complete == DropUnpaired(l, ModelItems(l))
             good == {k \in 1..(Len(complete) + 1) :
                         Balanced(l, From(complete, k)) /\ Fits(l, From(complete, k))}
         IN  /\ Balanced(l, complete)
             /\ ModelContext(l) = From(complete, CHOOSE k \in good : \A m \in good : k <= m)
<1> DEFINE d == DropUnpaired(l, ModelItems(l))
           good == {k \in 1..(Len(d) + 1) : Balanced(l, From(d, k)) /\ Fits(l, From(d, k))}
<1>1. ItemsOf(ModelItems(l), l) /\ ItemsOf(d, l)
  BY ItemsAre
<1>2. \E P : Complete(l, d, P)
  BY <1>1, DropComplete
<1>3. ModelContext(l) = TrimPairSafeSuffix(l, d)
  BY DEF ModelContext, BuildModelContext
<1> HIDE DEF d
<1>4. d \in Seq(1..Len(l)) /\ Len(d) \in Nat
  BY <1>1 DEF ItemsOf
<1>5. Balanced(l, d)
  BY <1>2, <1>4, CompleteBalanced
<1>6. Complete(l, d, Pairs(l, d))
  BY <1>1, <1>5, BalancedComplete
<1>7. Starts(l, d) = good
  BY <1>1, <1>6, StartsAre
<1>8. PICK k \in good : (\A m \in good : k <= m) /\ TrimPairSafeSuffix(l, d) = From(d, k)
  <2> HIDE DEF good
  <2> QED BY <1>1, <1>7, TrimIs
<1>9. good \in SUBSET Nat
  BY <1>4
<1>10. (CHOOSE x \in good : \A m \in good : x <= m) = k
  <2> HIDE DEF good
  <2> QED BY <1>8, <1>9, ChooseLeast
<1>11. ModelContext(l) = From(d, CHOOSE x \in good : \A m \in good : x <= m)
  <2> HIDE DEF good
  <2> QED BY <1>3, <1>8, <1>10
<1> QED BY <1>5, <1>11 DEF d

\* The context a model is sent has every call with its result and every result
\* with its call, fits the budget, and is the longest such suffix of the
\* history's complete part, after any number of turns, crashes, compactions and
\* forks (drop_unpaired and trim_pair_safe_suffix of runtime/context.rs).
THEOREM ContextsAreLongestFits == Spec => []ContextIsLongestFit
<1>1. ThreadInv => ContextIsLongestFit
  <2>1. SUFFICES ASSUME ThreadInv PROVE ContextIsLongestFit
    OBVIOUS
  <2>2. \A t \in Threads : LogOK(log[t])
    BY <2>1, ThreadSound DEF ThreadInv
  <2>3. ContextIsLongestFit
    BY <2>2, ContextIs DEF ContextIsLongestFit
  <2> QED BY <2>3
<1> QED BY <1>1, ThreadInvariant, PTL
=============================================================================
