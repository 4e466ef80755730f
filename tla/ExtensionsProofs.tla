--------------------------- MODULE ExtensionsProofs ---------------------------
(***************************************************************************)
(* Theorems about Extensions, for any configurations, any number of calls  *)
(* of MCP and custom tools, and any limit of restarts: first what every    *)
(* step of a stdio session keeps, then the supervised children, then the   *)
(* installation and the composition of the three.                          *)
(***************************************************************************)
EXTENDS Extensions, SequenceTheorems, WellFoundedInduction, TLAPS

-----------------------------------------------------------------------------
(* Types. *)

States == {"idle", "queued", "head", "body", "wait", "length", "payload", "glued", "ended"}
Busy == {"head", "body", "wait", "length", "payload", "glued"}
Inside == {"length", "payload", "glued"}
Outcomes == {"nothing", "answer", "refused", "error", "framing", "dropped"}

Someone == Requesters \cup {NoOne}
Parts == [part : PartNames, id : Nat, from : Someone, ok : BOOLEAN]

PipeOK ==
  /\ server \in {"none", "up", "down"}
  /\ inbox \in Seq(Parts) /\ outbox \in Seq(Parts)
  /\ accepted \subseteq [id : Nat, from : Someone]

ClientOK ==
  /\ nextId \in Nat \ {0}
  /\ lock \in Seq(Requesters)
  /\ req \in [Requesters -> [at : States, id : Nat]]
  /\ got \in [Requesters -> [is : Outcomes, from : Someone]]

CountOK == cut \in BOOLEAN /\ notices \in 0..MaxNotices

SessionType == PipeOK /\ ClientOK /\ CountOK

-----------------------------------------------------------------------------
(* Whose answer it is. *)

\* A frame with an id answers, or is, the request of the one who has that id.
OwnedIn(m, next, rs) ==
  m.id # 0 => m.id < next /\ \A r \in Requesters : rs[r].id = m.id => m.from = r
Owned(m) == OwnedIn(m, nextId, req)

\* An id is given once; a request that is on its way has one.
IdsOK ==
  /\ \A r \in Requesters : req[r].id < nextId /\ (req[r].at \in Busy => req[r].id # 0)
  /\ \A r, s \in Requesters : req[r].id = req[s].id /\ req[r].id # 0 => r = s

FramesOwned ==
  /\ \A i \in DOMAIN inbox : Owned(inbox[i])
  /\ \A i \in DOMAIN outbox : Owned(outbox[i])
  /\ \A q \in accepted : Owned(q)

OwnInv == IdsOK /\ FramesOwned /\ AnswerIsOwn

-----------------------------------------------------------------------------
(* Where the client is in the stream of answers. *)

\* Only the holder of the mutex is at the streams, and everybody else who wants
\* them waits for it.
MutexInv ==
  \A r \in Requesters :
    /\ req[r].at \in Busy => Holds(r)
    /\ Active(r) => \E i \in DOMAIN lock : lock[i] = r

\* What comes next when everything before it has been read.
Midway(at) == \E r \in Requesters : req[r].at = at
Expected == IF Midway("length") THEN "blank" ELSE IF Midway("payload") THEN "body" ELSE "length"

\* A part of an answer and the one behind it.
Behind(part) == IF part = "length" THEN "blank" ELSE IF part = "blank" THEN "body" ELSE "length"

\* Answers one behind the other, the first from this part on, the last one whole.
Ordered(s, first) ==
  /\ \A i \in 1..(Len(s) - 1) : s[i + 1].part = Behind(s[i].part)
  /\ s # <<>> => s[1].part = first /\ s[Len(s)].part = "body"

\* The answers on the pipe go on where the client is.
InStep == Ordered(outbox, Expected) /\ (Expected # "length" => outbox # <<>>)

StepInv ==
  ~cut => /\ InStep
          /\ \A r \in Requesters : req[r].at # "glued" /\ got[r].is # "framing"

SessionInv == SessionType /\ OwnInv /\ MutexInv /\ StepInv

-----------------------------------------------------------------------------
(* The operators. *)

\* A frame is a header and a body.
LEMMA FrameParts ==
  ASSUME NEW id \in Nat, NEW from \in Someone, NEW ok \in BOOLEAN
  PROVE  /\ Frame(id, from, ok) \in Seq(Parts) /\ Len(Frame(id, from, ok)) = 2
         /\ \A i \in 1..2 : Frame(id, from, ok)[i].id = id /\ Frame(id, from, ok)[i].from = from
         /\ \A i \in 1..2 : Frame(id, from, ok)[i] \in Parts
<1> DEFINE h == [part |-> "head", id |-> id, from |-> from, ok |-> ok]
           b == [part |-> "body", id |-> id, from |-> from, ok |-> ok]
<1>1. h \in Parts /\ b \in Parts
  BY Zenon DEF Parts, PartNames
<1>2. h.id = id /\ b.id = id /\ h.from = from /\ b.from = from
  OBVIOUS
<1>3. Frame(id, from, ok) = <<h, b>>
  BY DEF Frame
<1> HIDE DEF h, b
<1> QED BY <1>1, <1>2, <1>3

\* An answer is a line with a length, a blank line and a body.
LEMMA AnswerParts ==
  ASSUME NEW id \in Nat, NEW from \in Someone, NEW ok \in BOOLEAN
  PROVE  /\ Answer(id, from, ok) \in Seq(Parts) /\ Len(Answer(id, from, ok)) = 3
         /\ Answer(id, from, ok)[1].part = "length" /\ Answer(id, from, ok)[2].part = "blank"
         /\ Answer(id, from, ok)[3].part = "body"
         /\ \A i \in 1..3 : Answer(id, from, ok)[i].id = id /\ Answer(id, from, ok)[i].from = from
<1> DEFINE l == [part |-> "length", id |-> id, from |-> from, ok |-> ok]
           e == [part |-> "blank", id |-> id, from |-> from, ok |-> ok]
           b == [part |-> "body", id |-> id, from |-> from, ok |-> ok]
<1>1. l \in Parts /\ e \in Parts /\ b \in Parts
  BY Zenon DEF Parts, PartNames
<1>2. /\ l.part = "length" /\ e.part = "blank" /\ b.part = "body"
      /\ l.id = id /\ e.id = id /\ b.id = id /\ l.from = from /\ e.from = from /\ b.from = from
  OBVIOUS
<1>3. Answer(id, from, ok) = <<l, e, b>>
  BY DEF Answer
<1> HIDE DEF l, e, b
<1> QED BY <1>1, <1>2, <1>3

\* What a dropped read leaves: the same parts but for the name of the first.
LEMMA TornParts ==
  ASSUME NEW s \in Seq(Parts), NEW t \in Torn(s)
  PROVE  /\ t \in Seq(Parts) /\ Len(t) = Len(s)
         /\ \A i \in DOMAIN t : i \in DOMAIN s /\ t[i].id = s[i].id /\ t[i].from = s[i].from
<1>1. s # <<>> /\ \E p \in {"rest", "blank"} : t = [s EXCEPT ![1].part = p]
  BY DEF Torn
<1>2. PICK p \in {"rest", "blank"} : t = [s EXCEPT ![1].part = p]
  BY <1>1
<1>3. 1 \in DOMAIN s /\ DOMAIN s = 1..Len(s) /\ Len(s) \in Nat /\ s[1] \in Parts
      /\ s \in [1..Len(s) -> Parts]
  BY <1>1, LenProperties
<1> DEFINE q == [s[1] EXCEPT !.part = p]
<1>4. q \in Parts /\ q.id = s[1].id /\ q.from = s[1].from
  BY <1>2, <1>3 DEF Parts, PartNames
<1>5. t = [s EXCEPT ![1] = q]
  BY <1>2, <1>3
<1> HIDE DEF q
<1>6. t \in [1..Len(s) -> Parts] /\ t[1] = q /\ \A i \in 1..Len(s) : i # 1 => t[i] = s[i]
  BY <1>3, <1>4, <1>5
<1>7. t \in Seq(Parts) /\ Len(t) = Len(s)
  BY <1>3, <1>6
<1> QED BY <1>3, <1>4, <1>6, <1>7

\* Removing an element keeps the others, and the first unless it is the one removed.
LEMMA Removal ==
  ASSUME NEW S, NEW s \in Seq(S), NEW k \in DOMAIN s
  PROVE  /\ RemoveAt(s, k) \in Seq(S)
         /\ \A i \in DOMAIN s : i # k => \E j \in DOMAIN RemoveAt(s, k) : RemoveAt(s, k)[j] = s[i]
         /\ k # 1 => RemoveAt(s, k) # <<>> /\ RemoveAt(s, k)[1] = s[1]
<1> DEFINE l == SubSeq(s, 1, k - 1)
           t == SubSeq(s, k + 1, Len(s))
<1>0. Len(s) \in Nat /\ k \in 1..Len(s) /\ DOMAIN s = 1..Len(s)
  BY LenProperties
<1>1. l \in Seq(S) /\ Len(l) = k - 1 /\ \A i \in 1..(k - 1) : l[i] = s[i]
  BY <1>0, SubSeqProperties
<1>2. t \in Seq(S) /\ Len(t) = Len(s) - k /\ \A i \in 1..(Len(s) - k) : t[i] = s[i + k]
  BY <1>0, SubSeqProperties
<1>3. RemoveAt(s, k) = l \o t
  BY DEF RemoveAt
<1> HIDE DEF l, t
<1> DEFINE n == Len(s)
           c == l \o t
<1>4. c \in Seq(S) /\ Len(c) = Len(l) + Len(t)
      /\ \A i \in 1..(Len(l) + Len(t)) : c[i] = IF i <= Len(l) THEN l[i] ELSE t[i - Len(l)]
  BY <1>1, <1>2, ConcatProperties
<1> HIDE DEF c, n
<1>5. n \in Nat /\ k \in 1..n /\ DOMAIN s = 1..n /\ Len(l) = k - 1 /\ Len(t) = n - k
  BY <1>0, <1>1, <1>2 DEF n
<1>6. Len(c) = n - 1 /\ DOMAIN c = 1..(n - 1)
  BY <1>4, <1>5, LenProperties
<1>7. ASSUME NEW i \in 1..n, i # k
      PROVE  \E j \in DOMAIN c : c[j] = s[i]
  <2>1. CASE i < k
    <3>1. i \in DOMAIN c /\ i \in 1..(k - 1) /\ i \in 1..(Len(l) + Len(t)) /\ i <= Len(l)
      BY <1>5, <1>6, <1>7, <2>1
    <3> QED BY <3>1, <1>1, <1>4
  <2>2. CASE i > k
    <3> DEFINE j == i - 1
    <3>1. j \in DOMAIN c /\ j \in 1..(Len(l) + Len(t)) /\ ~(j <= Len(l)) /\ j - Len(l) = i - k
      BY <1>5, <1>6, <1>7, <2>2
    <3>2. i - k \in 1..(Len(s) - k) /\ (i - k) + k = i
      BY <1>5, <2>2 DEF n
    <3>3. c[j] = t[i - k] /\ t[i - k] = s[(i - k) + k]
      BY <3>1, <3>2, <1>2, <1>4
    <3> QED BY <3>1, <3>2, <3>3
  <2> QED BY <1>5, <1>7, <2>1, <2>2
<1>8. ASSUME k # 1 PROVE c # <<>> /\ c[1] = s[1]
  <2>1. 1 \in DOMAIN c /\ 1 \in 1..(Len(l) + Len(t)) /\ 1 <= Len(l) /\ 1 \in 1..(k - 1)
    BY <1>5, <1>6, <1>8
  <2> QED BY <2>1, <1>1, <1>4
<1> QED BY <1>3, <1>4, <1>5, <1>7, <1>8 DEF c

\* A requester moves to another state and keeps its id.
LEMMA Moved ==
  ASSUME ClientOK, NEW r \in Requesters, NEW x \in States, req' = [req EXCEPT ![r].at = x]
  PROVE  /\ req' \in [Requesters -> [at : States, id : Nat]]
         /\ req'[r].at = x
         /\ \A s \in Requesters : req'[s].id = req[s].id /\ (s # r => req'[s] = req[s])
<1>1. req \in [Requesters -> [at : States, id : Nat]]
  BY DEF ClientOK
<1> QED BY <1>1

\* A requester begins a request of its own.
LEMMA Begun ==
  ASSUME ClientOK, NEW r \in Requesters, NEW n \in Nat,
         req' = [req EXCEPT ![r] = [at |-> "head", id |-> n]]
  PROVE  /\ req' \in [Requesters -> [at : States, id : Nat]]
         /\ req'[r].at = "head" /\ req'[r].id = n
         /\ \A s \in Requesters : s # r => req'[s] = req[s]
<1>1. req \in [Requesters -> [at : States, id : Nat]]
  BY DEF ClientOK
<1>2. [at |-> "head", id |-> n] \in [at : States, id : Nat]
  BY DEF States
<1> QED BY <1>1, <1>2

\* The end of a request takes it from the mutex or from those who wait for it.
LEMMA Finished ==
  ASSUME ClientOK, MutexInv, NEW r \in Requesters, Active(r),
         NEW o \in [is : Outcomes, from : Someone], Finish(r, o)
  PROVE  /\ lock' \in Seq(Requesters)
         /\ \A s \in Requesters : s # r /\ Holds(s) => lock' # <<>> /\ lock'[1] = s
         /\ \A s \in Requesters : s # r /\ (\E i \in DOMAIN lock : lock[i] = s) =>
                                     \E i \in DOMAIN lock' : lock'[i] = s
         /\ req' \in [Requesters -> [at : States, id : Nat]]
         /\ req'[r].at = "ended"
         /\ \A s \in Requesters : req'[s].id = req[s].id /\ (s # r => req'[s] = req[s])
         /\ got' \in [Requesters -> [is : Outcomes, from : Someone]]
         /\ got'[r] = o /\ \A s \in Requesters : s # r => got'[s] = got[s]
<1> DEFINE k == Place(r)
<1>1. \E i \in DOMAIN lock : lock[i] = r
  BY DEF MutexInv
<1>2. k \in DOMAIN lock /\ lock[k] = r
  BY <1>1 DEF Place
<1>3. lock \in Seq(Requesters) /\ lock' = RemoveAt(lock, k)
  BY DEF ClientOK, Finish
<1> HIDE DEF k
<1>4. /\ lock' \in Seq(Requesters)
      /\ \A i \in DOMAIN lock : i # k => \E j \in DOMAIN lock' : lock'[j] = lock[i]
      /\ k # 1 => lock' # <<>> /\ lock'[1] = lock[1]
  BY <1>2, <1>3, Removal
<1>5. ASSUME NEW s \in Requesters, s # r, Holds(s) PROVE lock' # <<>> /\ lock'[1] = s
  BY <1>2, <1>4, <1>5 DEF Holds
<1>6. ASSUME NEW s \in Requesters, s # r, NEW i \in DOMAIN lock, lock[i] = s
      PROVE  \E j \in DOMAIN lock' : lock'[j] = s
  BY <1>2, <1>4, <1>6
<1>7. "ended" \in States /\ req' = [req EXCEPT ![r].at = "ended"]
  BY DEF States, Finish
<1>8. /\ got' \in [Requesters -> [is : Outcomes, from : Someone]]
      /\ got'[r] = o /\ \A s \in Requesters : s # r => got'[s] = got[s]
  BY DEF ClientOK, Finish
<1>9. /\ req' \in [Requesters -> [at : States, id : Nat]]
      /\ req'[r].at = "ended"
      /\ \A s \in Requesters : req'[s].id = req[s].id /\ (s # r => req'[s] = req[s])
  BY <1>7, Moved
<1> QED BY <1>4, <1>5, <1>6, <1>8, <1>9

\* Somebody who is at the streams is alone there.
LEMMA Alone ==
  ASSUME MutexInv, NEW r \in Requesters, NEW s \in Requesters,
         req[r].at \in Busy, req[s].at \in Busy
  PROVE  r = s
BY DEF MutexInv, Holds

-----------------------------------------------------------------------------
(* The steps, sorted by what they do to the requests. *)

\* Before the first call of a tool; only then a server is started.
CallsFresh == \A c \in Calls : req[c] = [at |-> "idle", id |-> 0]

\* Steps of the installation.
SetupStep ==
  \/ Spawn /\ CallsFresh
  \/ NotifyInitialized /\ CallsFresh /\ req[Setup].at = "ended"
  \/ KillServer

\* Steps that do not begin the call of a tool.
QuietStep ==
  \/ SetupStep
  \/ \E c \in Calls : DropCall(c)
  \/ \E r \in Requesters : ClientStep(r)
  \/ ServerStep \/ ServerNotifies \/ ServerExits
  \/ UNCHANGED mcpVars

SessionStep == QuietStep \/ \E c \in Calls : CallTool(c)

\* The request of r ends with o.
Ends(r, o) == Active(r) /\ o \in [is : Outcomes, from : Someone] /\ Finish(r, o)

\* The request of r goes on from one state to another.
Goes(r, x, y) ==
  req[r].at = x /\ req' = [req EXCEPT ![r].at = y] /\ UNCHANGED <<lock, got>>

\* What the steps of a requester do to requests and mutex.
ClientCase(r) ==
  \/ Request(r)
  \/ Goes(r, "head", "body") \/ Goes(r, "body", "wait") \/ Goes(r, "wait", "length")
  \/ Goes(r, "length", "payload") \/ Goes(r, "payload", "wait")
  \/ Goes(r, "wait", "wait") \/ Goes(r, "wait", "glued") \/ Goes(r, "glued", "wait")
  \/ \E o \in [is : Outcomes, from : Someone] : Ends(r, o)

\* Every step of a requester is one of these.
LEMMA ClientCases ==
  ASSUME SessionType, NEW r \in Requesters, ClientStep(r) \/ (r \in Calls /\ DropCall(r))
  PROVE  ClientCase(r)
<1>1. ASSUME NEW how \in Outcomes, Active(r), Fail(r, how)
      PROVE  ClientCase(r)
  <2>1. [is |-> how, from |-> NoOne] \in [is : Outcomes, from : Someone]
    BY DEF Someone
  <2> QED BY <1>1, <2>1 DEF ClientCase, Ends, Fail
<1>2. CASE Request(r)
  BY <1>2 DEF ClientCase
<1>3. CASE WriteHead(r)
  BY <1>1, <1>3 DEF WriteHead, WritePart, ClientCase, Goes, Outcomes, Active
<1>4. CASE WriteBody(r)
  BY <1>1, <1>4 DEF WriteBody, WritePart, ClientCase, Goes, Outcomes, Active
<1>5. CASE ReadLength(r) \/ ReadRest(r)
  BY <1>5 DEF ReadLength, ReadRest, ReadPart, ClientCase, Goes
<1>6. CASE ReadGlued(r) \/ ReadGluedLine(r)
  BY <1>6 DEF ReadGlued, ReadGluedLine, ReadPart, ClientCase, Goes
<1>7. CASE ReadBlank(r)
  BY <1>1, <1>7 DEF ReadBlank, ReadPart, ClientCase, Goes, Outcomes, Active
<1>8. CASE ReadBody(r)
  <2> DEFINE o == [is |-> IF Head(outbox).ok THEN "answer" ELSE "refused",
                   from |-> Head(outbox).from]
  <2>1. CASE req' = [req EXCEPT ![r].at = "wait"] /\ UNCHANGED <<lock, got>>
    BY <1>8, <2>1 DEF ReadBody, ReadBodyFor, ClientCase, Goes
  <2>2. CASE Finish(r, o)
    <3>1. Head(outbox) \in Parts
      BY <1>8, HeadTailProperties DEF ReadBody, ReadBodyFor, SessionType, PipeOK
    <3>2. Head(outbox).from \in Someone
      BY <3>1 DEF Parts
    <3>3. o \in [is : Outcomes, from : Someone]
      BY <3>2 DEF Outcomes
    <3>4. Active(r)
      BY <1>8 DEF ReadBody, ReadBodyFor, Active
    <3> QED BY <2>2, <3>3, <3>4 DEF ClientCase, Ends
  <2> QED BY <1>8, <2>1, <2>2 DEF ReadBody, ReadBodyFor
<1>9. CASE ReadClosed(r)
  BY <1>1, <1>9 DEF ReadClosed, Outcomes, Active
<1>10. CASE r \in Calls /\ DropCall(r)
  BY <1>1, <1>10 DEF DropCall, DropIf, Outcomes
<1> QED
  BY <1>2, <1>3, <1>4, <1>5, <1>6, <1>7, <1>8, <1>9, <1>10 DEF ClientStep

-----------------------------------------------------------------------------
(* Types are kept. *)

\* What an action leaves of the server's side of the pipes.
Reads(r) ==
  ReadLength(r) \/ ReadBlank(r) \/ ReadRest(r) \/ ReadGlued(r) \/ ReadGluedLine(r) \/ ReadBody(r)

\* A requester that is not writing or reading leaves the pipes alone.
LEMMA PipeCases ==
  ASSUME NEW r \in Requesters, ClientStep(r) \/ (r \in Calls /\ DropCall(r))
  PROVE  /\ UNCHANGED <<server, accepted, notices>>
         /\ \/ UNCHANGED inbox /\ (outbox' = outbox \/ outbox' \in Torn(outbox))
            \/ Reads(r) /\ outbox # <<>> /\ outbox' = Tail(outbox) /\ UNCHANGED inbox
            \/ /\ req[r].at \in Busy
               /\ UNCHANGED outbox
               /\ \E i \in 1..2 : inbox' = Append(inbox, Frame(req[r].id, r, TRUE)[i])
<1> DEFINE Quiet == UNCHANGED <<server, accepted, notices>>
           Still == UNCHANGED inbox /\ (outbox' = outbox \/ outbox' \in Torn(outbox))
           Read == Reads(r) /\ outbox # <<>> /\ outbox' = Tail(outbox) /\ UNCHANGED inbox
           Write == /\ req[r].at \in Busy
                    /\ UNCHANGED outbox
                    /\ \E i \in 1..2 : inbox' = Append(inbox, Frame(req[r].id, r, TRUE)[i])
<1>1. ASSUME Reads(r) PROVE Quiet /\ Read
  <2>1. Quiet /\ Read
    BY <1>1 DEF Reads, ReadLength, ReadBlank, ReadRest, ReadGlued, ReadGluedLine, ReadPart, ReadBody,
                ReadBodyFor
  <2> QED BY <2>1
<1>2. ASSUME Request(r) \/ ReadClosed(r) \/ DropCall(r) PROVE Quiet /\ Still
  <2>1. Quiet /\ Still
    BY <1>2 DEF Request, ReadClosed, DropCall, DropIf, Leftovers
  <2> QED BY <2>1
<1>3. ASSUME NEW part \in {"head", "body"}, NEW next, WritePart(r, part, next)
      PROVE  Quiet /\ (Still \/ Write)
  <2>1. Quiet /\ UNCHANGED outbox /\ req[r].at \in Busy
    BY <1>3 DEF WritePart, Busy
  <2>2. \/ UNCHANGED inbox
        \/ inbox' = Append(inbox, IF part = "head" THEN Frame(req[r].id, r, TRUE)[1]
                                  ELSE Frame(req[r].id, r, TRUE)[2])
    BY <1>3 DEF WritePart
  <2>3. UNCHANGED inbox \/ \E i \in 1..2 : inbox' = Append(inbox, Frame(req[r].id, r, TRUE)[i])
    <3>1. 1 \in 1..2 /\ 2 \in 1..2
      OBVIOUS
    <3> HIDE DEF Write
    <3> QED BY <2>2, <3>1, Zenon
  <2> QED BY <2>1, <2>3
<1> HIDE DEF Quiet, Still, Read, Write
<1>5. Quiet /\ (Still \/ Read \/ Write)
  BY <1>1, <1>2, <1>3 DEF ClientStep, WriteHead, WriteBody, Reads
<1> QED BY <1>5 DEF Quiet, Still, Read, Write

\* The pipes carry parts of frames.
LEMMA PipeStep ==
  ASSUME SessionType, SessionStep
  PROVE  PipeOK'
<1>0. inbox \in Seq(Parts) /\ outbox \in Seq(Parts) /\ accepted \subseteq [id : Nat, from : Someone]
  BY DEF SessionType, PipeOK
<1>1. \A s \in Seq(Parts) : s # <<>> => Tail(s) \in Seq(Parts) /\ Head(s) \in Parts
  BY HeadTailProperties
<1>2. CASE Spawn
  BY <1>2 DEF Spawn, PipeOK
<1>3. CASE NotifyInitialized
  <2>1. Frame(0, Setup, TRUE) \in Seq(Parts)
    BY FrameParts DEF Someone, Requesters
  <2>2. inbox \o Frame(0, Setup, TRUE) \in Seq(Parts)
    BY <1>0, <2>1, ConcatProperties
  <2> QED BY <1>0, <1>3, <2>2 DEF NotifyInitialized, PipeOK, SessionType
<1>4. CASE KillServer \/ ServerExits
  BY <1>0, <1>4 DEF KillServer, ServerExits, PipeOK
<1>5. CASE \E c \in Calls : CallTool(c)
  BY <1>0, <1>5 DEF CallTool, PipeOK, SessionType
<1>6. ASSUME NEW r \in Requesters, ClientStep(r) \/ (r \in Calls /\ DropCall(r))
      PROVE  PipeOK'
  <2>1. CASE UNCHANGED inbox /\ (outbox' = outbox \/ outbox' \in Torn(outbox))
    <3>1. outbox' \in Seq(Parts)
      BY <1>0, <2>1, TornParts
    <3> QED BY <1>0, <1>6, <2>1, <3>1, PipeCases DEF PipeOK, SessionType
  <2>2. CASE Reads(r) /\ outbox # <<>> /\ outbox' = Tail(outbox) /\ UNCHANGED inbox
    BY <1>0, <1>1, <1>6, <2>2, PipeCases DEF PipeOK, SessionType
  <2>3. ASSUME NEW i \in 1..2, inbox' = Append(inbox, Frame(req[r].id, r, TRUE)[i]),
               UNCHANGED outbox
        PROVE  PipeOK'
    <3>1. req[r].id \in Nat /\ r \in Someone
      BY DEF SessionType, ClientOK, Someone
    <3>2. Frame(req[r].id, r, TRUE)[i] \in Parts
      BY <3>1, FrameParts
    <3>3. inbox' \in Seq(Parts)
      BY <1>0, <2>3, <3>2, AppendProperties
    <3> QED BY <1>0, <1>6, <2>3, <3>3, PipeCases DEF PipeOK, SessionType
  <2> QED BY <1>6, <2>1, <2>2, <2>3, PipeCases
<1>7. CASE ServerReads
  <2>1. ASSUME NEW s \in Seq(Parts), Len(s) > 1 PROVE Tail(Tail(s)) \in Seq(Parts)
    <3>1. s # <<>> /\ Tail(s) \in Seq(Parts) /\ Len(Tail(s)) = Len(s) - 1
      BY <2>1, HeadTailProperties
    <3>2. Tail(s) # <<>>
      <4>1. Len(Tail(s)) # 0 /\ Len(<<>>) = 0
        BY <2>1, <3>1, LenProperties
      <4> QED BY <4>1, Zenon
    <3> QED BY <1>1, <3>1, <3>2
  <2>2. inbox # <<>> /\ (inbox' = Tail(inbox) \/ (Len(inbox) > 1 /\ inbox' = Tail(Tail(inbox))))
    BY <1>7 DEF ServerReads
  <2>3. inbox' \in Seq(Parts)
    BY <1>0, <1>1, <2>1, <2>2
  <2>4. 1 \in DOMAIN inbox /\ inbox[1] \in Parts
    BY <1>0, <2>2, LenProperties
  <2>5. [id |-> inbox[1].id, from |-> inbox[1].from] \in [id : Nat, from : Someone]
    BY <2>4 DEF Parts
  <2>6. accepted' \subseteq accepted \cup {[id |-> inbox[1].id, from |-> inbox[1].from]}
    BY <1>7 DEF ServerReads
  <2> QED BY <1>0, <1>7, <2>3, <2>5, <2>6 DEF ServerReads, PipeOK, SessionType
<1>8. ASSUME NEW q \in accepted, NEW ok \in BOOLEAN, ServerAnswers(q, ok)
      PROVE  PipeOK'
  <2>1. q.id \in Nat /\ q.from \in Someone
    BY <1>0
  <2>2. Answer(q.id, q.from, ok) \in Seq(Parts)
    BY <2>1, AnswerParts
  <2>3. outbox' \in Seq(Parts)
    BY <1>0, <1>8, <2>2, ConcatProperties DEF ServerAnswers
  <2> QED BY <1>0, <1>8, <2>3 DEF ServerAnswers, PipeOK, SessionType
<1>9. CASE ServerNotifies
  <2>1. Answer(0, NoOne, TRUE) \in Seq(Parts)
    BY AnswerParts DEF Someone
  <2>2. outbox' \in Seq(Parts)
    BY <1>0, <1>9, <2>1, ConcatProperties DEF ServerNotifies
  <2> QED BY <1>0, <1>9, <2>2 DEF ServerNotifies, PipeOK, SessionType
<1>10. CASE UNCHANGED mcpVars
  BY <1>0, <1>10 DEF mcpVars, PipeOK, SessionType
<1> QED
  BY <1>2, <1>3, <1>4, <1>5, <1>6, <1>7, <1>8, <1>9, <1>10
     DEF SessionStep, QuietStep, SetupStep, ServerStep, Requesters

\* The client's numbers, its mutex and its requests keep their types.
LEMMA ClientStepOK ==
  ASSUME SessionType, MutexInv, SessionStep
  PROVE  ClientOK'
<1>0. /\ ClientOK /\ nextId \in Nat \ {0} /\ nextId + 1 \in Nat \ {0} /\ 1 \in Nat /\ 2 \in Nat \ {0}
      /\ lock \in Seq(Requesters) /\ Setup \in Requesters
      /\ got \in [Requesters -> [is : Outcomes, from : Someone]]
      /\ Nothing \in [is : Outcomes, from : Someone]
  BY DEF SessionType, ClientOK, Requesters, Nothing, Outcomes, Someone
<1>1. <<Setup>> \in Seq(Requesters)
  BY <1>0
<1>2. CASE Spawn
  <2>1. req' = [req EXCEPT ![Setup] = [at |-> "head", id |-> 1]]
    BY <1>2 DEF Spawn
  <2>2. req' \in [Requesters -> [at : States, id : Nat]]
    BY <1>0, <2>1, Begun
  <2> QED BY <1>0, <1>1, <1>2, <2>2 DEF Spawn, ClientOK
<1>3. CASE NotifyInitialized
  <2>1. req' = [req EXCEPT ![Setup] = [at |-> "head", id |-> nextId]] /\ nextId \in Nat
    BY <1>0, <1>3 DEF NotifyInitialized
  <2>2. req' \in [Requesters -> [at : States, id : Nat]]
    BY <1>0, <2>1, Begun
  <2> QED BY <1>0, <1>1, <1>3, <2>2 DEF NotifyInitialized, ClientOK
<1>4. CASE UNCHANGED <<nextId, lock, req, got>>
  BY <1>0, <1>4 DEF ClientOK
<1>5. ASSUME NEW c \in Calls, CallTool(c)
      PROVE  ClientOK'
  <2>1. c \in Requesters /\ "queued" \in States
    BY DEF Requesters, States
  <2>2. req' \in [Requesters -> [at : States, id : Nat]]
    BY <1>0, <1>5, <2>1, Moved DEF CallTool
  <2>3. lock' \in Seq(Requesters)
    BY <1>0, <1>5, <2>1, AppendProperties DEF CallTool
  <2> QED BY <1>0, <1>5, <2>2, <2>3 DEF CallTool, ClientOK
<1>6. ASSUME NEW r \in Requesters, ClientStep(r) \/ (r \in Calls /\ DropCall(r))
      PROVE  ClientOK'
  <2>1. CASE Request(r)
    <3>1. req' = [req EXCEPT ![r] = [at |-> "head", id |-> nextId]] /\ nextId \in Nat
      BY <1>0, <2>1 DEF Request
    <3>2. req' \in [Requesters -> [at : States, id : Nat]]
      BY <1>0, <3>1, Begun
    <3> QED BY <1>0, <2>1, <3>2 DEF Request, ClientOK
  <2>2. ~Request(r) => nextId' = nextId
    BY <1>6 DEF ClientStep, DropCall, DropIf, WriteHead, WriteBody, WritePart, ReadLength, ReadBlank,
                ReadRest, ReadGlued, ReadGluedLine, ReadPart, ReadBody, ReadBodyFor, ReadClosed
  <2>3. ASSUME NEW x, NEW y \in States, Goes(r, x, y), ~Request(r)
        PROVE  ClientOK'
    <3>1. req' \in [Requesters -> [at : States, id : Nat]]
      BY <1>0, <2>3, Moved DEF Goes
    <3> QED BY <1>0, <2>2, <2>3, <3>1 DEF Goes, ClientOK
  <2>4. ASSUME NEW o \in [is : Outcomes, from : Someone], Ends(r, o), ~Request(r)
        PROVE  ClientOK'
    <3>1. /\ lock' \in Seq(Requesters) /\ req' \in [Requesters -> [at : States, id : Nat]]
          /\ got' \in [Requesters -> [is : Outcomes, from : Someone]]
      BY <1>0, <2>4, Finished DEF Ends
    <3> QED BY <1>0, <2>2, <2>4, <3>1 DEF ClientOK
  <2>5. ClientCase(r)
    BY <1>6, ClientCases
  <2> QED BY <2>1, <2>3, <2>4, <2>5 DEF ClientCase, States
<1> QED
  BY <1>2, <1>3, <1>4, <1>5, <1>6
     DEF SessionStep, QuietStep, SetupStep, ServerStep, Requesters, KillServer, ServerExits, ServerReads,
         ServerAnswers, ServerNotifies, mcpVars

\* So do the history variables.
LEMMA CountStep ==
  ASSUME SessionType, SessionStep
  PROVE  CountOK'
<1>1. notices \in 0..MaxNotices /\ MaxNotices \in Nat
  BY McpAssumption DEF SessionType, CountOK
<1>2. notices' \in 0..MaxNotices
  <2>1. CASE UNCHANGED notices
    BY <1>1, <2>1
  <2>2. CASE ServerNotifies
    BY <1>1, <2>2 DEF ServerNotifies
  <2> QED
    BY <2>1, <2>2, PipeCases DEF SessionStep, QuietStep, SetupStep, Spawn, NotifyInitialized, KillServer,
       CallTool, ServerStep, ServerReads, ServerAnswers, ServerExits, mcpVars, Requesters
<1>3. cut' \in BOOLEAN
  <2>1. CASE UNCHANGED cut
    BY <2>1 DEF SessionType, CountOK
  <2>2. ASSUME NEW c \in Calls, DropCall(c)
        PROVE  cut' \in BOOLEAN
    BY <2>2, Zenon DEF DropCall, DropIf
  <2> QED
    BY <2>1, <2>2 DEF SessionStep, QuietStep, SetupStep, Spawn, NotifyInitialized, KillServer,
       CallTool, ServerStep, ServerReads, ServerAnswers, ServerNotifies, ServerExits, mcpVars,
       ClientStep, Request, WriteHead, WriteBody, WritePart, ReadLength, ReadBlank, ReadRest,
       ReadGlued, ReadGluedLine, ReadPart, ReadBody, ReadBodyFor, ReadClosed
<1> QED BY <1>2, <1>3 DEF CountOK

-----------------------------------------------------------------------------
(* The mutex. *)

\* Only the holder of the mutex is at the streams, and who waits is in the queue.
LEMMA MutexStep ==
  ASSUME SessionType, MutexInv, SessionStep
  PROVE  MutexInv'
<1>0. ClientOK /\ Setup \in Requesters /\ nextId \in Nat /\ lock \in Seq(Requesters)
  BY DEF SessionType, ClientOK, Requesters
<1>1. ASSUME lock' = <<Setup>>, NEW n \in Nat, CallsFresh,
             req' = [req EXCEPT ![Setup] = [at |-> "head", id |-> n]]
      PROVE  MutexInv'
  <2>1. lock'[1] = Setup /\ lock' # <<>> /\ 1 \in DOMAIN lock'
    BY <1>1
  <2>2. \A s \in Requesters : s # Setup => req'[s] = req[s]
    BY <1>0, <1>1, Begun
  <2>3. ASSUME NEW s \in Requesters, s # Setup PROVE req'[s].at = "idle"
    BY <1>1, <2>2, <2>3 DEF CallsFresh, Requesters
  <2> QED BY <2>1, <2>3 DEF MutexInv, Holds, Active, Busy
<1>2. CASE SetupStep
  BY <1>0, <1>1, <1>2 DEF SetupStep, Spawn, NotifyInitialized, KillServer, MutexInv, Active, Holds
<1>3. CASE UNCHANGED <<lock, req>>
  BY <1>3 DEF MutexInv, Active, Holds
<1>4. ASSUME NEW c \in Calls, CallTool(c)
      PROVE  MutexInv'
  <2>1. c \in Requesters /\ "queued" \in States
    BY DEF Requesters, States
  <2>2. req'[c].at = "queued" /\ \A s \in Requesters : s # c => req'[s] = req[s]
    BY <1>0, <1>4, <2>1, Moved DEF CallTool
  <2>3. /\ DOMAIN lock = 1..Len(lock) /\ DOMAIN lock' = 1..(Len(lock) + 1) /\ Len(lock) \in Nat
        /\ lock'[Len(lock) + 1] = c /\ \A i \in 1..Len(lock) : lock'[i] = lock[i]
    BY <1>0, <1>4, <2>1, AppendProperties, LenProperties DEF CallTool
  <2>4. \A i \in DOMAIN lock : i \in DOMAIN lock' /\ lock'[i] = lock[i]
    BY <2>3
  <2>5. lock # <<>> => lock' # <<>> /\ lock'[1] = lock[1]
    BY <1>0, <2>3, LenProperties
  <2>6. \E i \in DOMAIN lock' : lock'[i] = c
    BY <2>3
  <2>7. ASSUME NEW s \in Requesters, s # c
        PROVE  /\ req'[s].at \in Busy => Holds(s)'
               /\ Active(s)' => \E i \in DOMAIN lock' : lock'[i] = s
    <3>1. req'[s].at = req[s].at
      BY <2>2, <2>7
    <3> QED BY <3>1, <2>4, <2>5 DEF MutexInv, Active, Holds
  <2> QED BY <2>2, <2>6, <2>7 DEF MutexInv, Busy
<1>5. ASSUME NEW r \in Requesters, ClientCase(r)
      PROVE  MutexInv'
  <2>1. CASE Request(r)
    <3>1. /\ req'[r].at = "head" /\ UNCHANGED lock /\ Holds(r) /\ req[r].at = "queued"
          /\ \A s \in Requesters : s # r => req'[s] = req[s]
      BY <1>0, <2>1, Begun DEF Request
    <3> QED BY <3>1 DEF MutexInv, Active, Holds
  <2>2. ASSUME NEW x \in Busy, NEW y \in Busy, Goes(r, x, y)
        PROVE  MutexInv'
    <3>1. y \in States
      BY DEF States, Busy
    <3>2. /\ req'[r].at = y /\ UNCHANGED lock /\ req[r].at \in Busy
          /\ \A s \in Requesters : s # r => req'[s] = req[s]
      BY <1>0, <2>2, <3>1, Moved DEF Goes
    <3> QED BY <3>2 DEF MutexInv, Active, Holds, Busy
  <2>3. ASSUME NEW o \in [is : Outcomes, from : Someone], Ends(r, o)
        PROVE  MutexInv'
    <3>1. /\ \A s \in Requesters : s # r /\ Holds(s) => lock' # <<>> /\ lock'[1] = s
          /\ \A s \in Requesters : s # r /\ (\E i \in DOMAIN lock : lock[i] = s) =>
                                      \E i \in DOMAIN lock' : lock'[i] = s
          /\ req'[r].at = "ended"
          /\ \A s \in Requesters : s # r => req'[s] = req[s]
      <4>1. Active(r) /\ Finish(r, o)
        BY <2>3 DEF Ends
      <4>2. req'[r].at = "ended" /\ \A s \in Requesters : s # r => req'[s] = req[s]
        BY <1>0, <4>1, Finished
      <4>3. \A s \in Requesters : s # r /\ Holds(s) => lock' # <<>> /\ lock'[1] = s
        BY <1>0, <4>1, Finished
      <4>4. \A s \in Requesters : s # r /\ (\E i \in DOMAIN lock : lock[i] = s) =>
                                      \E i \in DOMAIN lock' : lock'[i] = s
        BY <1>0, <4>1, Finished
      <4> QED BY <4>2, <4>3, <4>4
    <3>2. ASSUME NEW s \in Requesters, s # r
          PROVE  /\ req'[s].at \in Busy => Holds(s)'
                 /\ Active(s)' => \E i \in DOMAIN lock' : lock'[i] = s
      <4>1. req'[s].at = req[s].at
        BY <3>1, <3>2
      <4> QED BY <3>1, <3>2, <4>1 DEF MutexInv, Active, Holds
    <3> QED BY <3>1, <3>2 DEF MutexInv, Active, Busy
  <2> QED BY <1>5, <2>1, <2>2, <2>3 DEF ClientCase, Busy
<1>6. ASSUME NEW r \in Requesters, ClientStep(r) \/ (r \in Calls /\ DropCall(r))
      PROVE  MutexInv'
  BY <1>5, <1>6, ClientCases
<1> QED
  BY <1>2, <1>3, <1>4, <1>6
     DEF SessionStep, QuietStep, ServerStep, Requesters, ServerExits, ServerReads,
         ServerAnswers, ServerNotifies, mcpVars

-----------------------------------------------------------------------------
(* Every request is given its own answer. *)

\* What a step does to ids: nothing, or a requester takes the next one.
LEMMA IdCases ==
  ASSUME SessionInv, NEW r \in Requesters, ClientStep(r) \/ (r \in Calls /\ DropCall(r))
  PROVE  \/ /\ nextId' = nextId
            /\ \A s \in Requesters : req'[s].id = req[s].id
            /\ \A s \in Requesters : req'[s].at \in Busy => req[s].at \in Busy
         \/ /\ nextId' = nextId + 1 /\ req'[r].id = nextId
            /\ \A s \in Requesters : s # r => req'[s] = req[s]
<1>0. ClientOK /\ nextId \in Nat /\ MutexInv
  BY DEF SessionInv, SessionType, ClientOK
<1>1. CASE Request(r)
  BY <1>0, <1>1, Begun DEF Request
<1>2. ~Request(r) => nextId' = nextId
  BY DEF ClientStep, DropCall, DropIf, WriteHead, WriteBody, WritePart, ReadLength, ReadBlank,
         ReadRest, ReadGlued, ReadGluedLine, ReadPart, ReadBody, ReadBodyFor, ReadClosed
<1>3. ASSUME NEW x \in Busy, NEW y \in Busy, Goes(r, x, y)
      PROVE  /\ \A s \in Requesters : req'[s].id = req[s].id
             /\ \A s \in Requesters : req'[s].at \in Busy => req[s].at \in Busy
  <2>1. y \in States
    BY DEF States, Busy
  <2> QED BY <1>0, <1>3, <2>1, Moved DEF Goes
<1>4. ASSUME NEW o \in [is : Outcomes, from : Someone], Ends(r, o)
      PROVE  /\ \A s \in Requesters : req'[s].id = req[s].id
             /\ \A s \in Requesters : req'[s].at \in Busy => req[s].at \in Busy
  <2>1. "ended" \notin Busy
    BY DEF Busy
  <2> QED BY SMTT(30), <1>0, <1>4, <2>1, Finished DEF Ends
<1>5. ClientCase(r)
  BY ClientCases DEF SessionInv
<1> QED BY <1>1, <1>2, <1>3, <1>4, <1>5 DEF ClientCase, Busy

\* Ids stay unique.
LEMMA IdsStep ==
  ASSUME SessionInv, SessionStep
  PROVE  IdsOK'
<1>0. /\ ClientOK /\ Setup \in Requesters /\ nextId \in Nat \ {0} /\ IdsOK
      /\ \A r \in Requesters : req[r].id \in Nat
  BY DEF SessionInv, SessionType, ClientOK, Requesters, OwnInv
<1>1. CASE Spawn /\ CallsFresh
  <2>1. /\ nextId' = 2 /\ req'[Setup].id = 1
        /\ \A s \in Requesters : s # Setup => req'[s] = req[s]
    BY <1>0, <1>1, Begun DEF Spawn
  <2>2. \A s \in Requesters : s # Setup => req'[s].id = 0 /\ req'[s].at = "idle"
    BY <1>1, <2>1 DEF CallsFresh, Requesters
  <2> QED BY <2>1, <2>2 DEF IdsOK, Busy
<1>2. ASSUME NEW r \in Requesters, nextId' = nextId + 1, req'[r].id = nextId,
             \A s \in Requesters : s # r => req'[s] = req[s]
      PROVE  IdsOK'
  BY <1>0, <1>2 DEF IdsOK
<1>3. CASE NotifyInitialized
  <2>1. /\ nextId' = nextId + 1 /\ req'[Setup].id = nextId
        /\ \A s \in Requesters : s # Setup => req'[s] = req[s]
    BY <1>0, <1>3, Begun DEF NotifyInitialized
  <2> QED BY <1>0, <1>2, <2>1
<1>4. ASSUME nextId' = nextId, \A s \in Requesters : req'[s].id = req[s].id,
             \A s \in Requesters : req'[s].at \in Busy => req[s].at \in Busy
      PROVE  IdsOK'
  BY <1>0, <1>4 DEF IdsOK
<1>5. ASSUME NEW c \in Calls, CallTool(c)
      PROVE  IdsOK'
  <2>1. c \in Requesters /\ "queued" \in States /\ "queued" \notin Busy
    BY DEF Requesters, States, Busy
  <2> QED BY <1>0, <1>4, <1>5, <2>1, Moved DEF CallTool
<1>6. ASSUME NEW r \in Requesters, ClientStep(r) \/ (r \in Calls /\ DropCall(r))
      PROVE  IdsOK'
  BY <1>2, <1>4, <1>6, IdCases
<1>7. CASE UNCHANGED <<nextId, req>>
  BY <1>4, <1>7
<1> QED
  BY <1>1, <1>3, <1>5, <1>6, <1>7
     DEF SessionStep, QuietStep, SetupStep, ServerStep, Requesters, KillServer, ServerExits, ServerReads,
         ServerAnswers, ServerNotifies, mcpVars

\* A frame stays with its owner: the ids given later are larger.
LEMMA OwnedKept ==
  ASSUME SessionInv, SessionStep, ~Spawn, NEW m, m.id \in Nat, OwnedIn(m, nextId, req)
  PROVE  OwnedIn(m, nextId', req')
<1>0. /\ ClientOK /\ Setup \in Requesters /\ nextId \in Nat \ {0}
      /\ \A r \in Requesters : req[r].id \in Nat
  BY DEF SessionInv, SessionType, ClientOK, Requesters
<1>1. ASSUME NEW r \in Requesters, nextId' = nextId + 1, req'[r].id = nextId,
             \A s \in Requesters : s # r => req'[s] = req[s]
      PROVE  OwnedIn(m, nextId', req')
  BY <1>0, <1>1 DEF OwnedIn
<1>2. ASSUME nextId' = nextId, \A s \in Requesters : req'[s].id = req[s].id
      PROVE  OwnedIn(m, nextId', req')
  BY <1>0, <1>2 DEF OwnedIn
<1>3. CASE NotifyInitialized
  <2>1. /\ nextId' = nextId + 1 /\ req'[Setup].id = nextId
        /\ \A s \in Requesters : s # Setup => req'[s] = req[s]
    BY <1>0, <1>3, Begun DEF NotifyInitialized
  <2> QED BY <1>0, <1>1, <2>1
<1>4. ASSUME NEW c \in Calls, CallTool(c)
      PROVE  OwnedIn(m, nextId', req')
  <2>1. c \in Requesters /\ "queued" \in States
    BY DEF Requesters, States
  <2> QED BY <1>0, <1>2, <1>4, <2>1, Moved DEF CallTool
<1>5. ASSUME NEW r \in Requesters, ClientStep(r) \/ (r \in Calls /\ DropCall(r))
      PROVE  OwnedIn(m, nextId', req')
  BY <1>1, <1>2, <1>5, IdCases
<1>6. CASE UNCHANGED <<nextId, req>>
  BY <1>2, <1>6
<1> QED
  BY <1>3, <1>4, <1>5, <1>6
     DEF SessionStep, QuietStep, SetupStep, ServerStep, Requesters, KillServer, ServerExits, ServerReads,
         ServerAnswers, ServerNotifies, mcpVars

\* The parts a step adds to a pipe, and those it leaves there.
LEMMA PartsAfter ==
  ASSUME NEW s \in Seq(Parts)
  PROVE  /\ s # <<>> => Tail(s) \in Seq(Parts) /\ \A i \in DOMAIN Tail(s) : i + 1 \in DOMAIN s /\ Tail(s)[i] = s[i + 1]
         /\ \A p \in Parts : \A i \in DOMAIN Append(s, p) :
               (i \in DOMAIN s /\ Append(s, p)[i] = s[i]) \/ Append(s, p)[i] = p
         /\ \A t \in Seq(Parts) : \A i \in DOMAIN (s \o t) :
               \/ i \in DOMAIN s /\ (s \o t)[i] = s[i]
               \/ i - Len(s) \in DOMAIN t /\ (s \o t)[i] = t[i - Len(s)]
<1>0. Len(s) \in Nat /\ DOMAIN s = 1..Len(s)
  BY LenProperties
<1>1. ASSUME s # <<>>
      PROVE  Tail(s) \in Seq(Parts) /\ \A i \in DOMAIN Tail(s) : i + 1 \in DOMAIN s /\ Tail(s)[i] = s[i + 1]
  BY <1>0, <1>1, HeadTailProperties, LenProperties
<1>2. ASSUME NEW p \in Parts, NEW i \in DOMAIN Append(s, p)
      PROVE  (i \in DOMAIN s /\ Append(s, p)[i] = s[i]) \/ Append(s, p)[i] = p
  BY <1>0, AppendProperties
<1>3. ASSUME NEW t \in Seq(Parts), NEW i \in DOMAIN (s \o t)
      PROVE  \/ i \in DOMAIN s /\ (s \o t)[i] = s[i]
             \/ i - Len(s) \in DOMAIN t /\ (s \o t)[i] = t[i - Len(s)]
  <2>1. Len(t) \in Nat /\ DOMAIN t = 1..Len(t)
    BY LenProperties
  <2>2. i \in 1..(Len(s) + Len(t)) /\ (s \o t)[i] = IF i <= Len(s) THEN s[i] ELSE t[i - Len(s)]
    BY <1>0, <1>3, <2>1, ConcatProperties, LenProperties
  <2>3. CASE i <= Len(s)
    BY <1>0, <2>1, <2>2, <2>3
  <2>4. CASE ~(i <= Len(s))
    BY <1>0, <2>1, <2>2, <2>4
  <2> QED BY <2>3, <2>4
<1> QED BY <1>1, <1>2, <1>3

\* All parts on a pipe belong to their requests.
AllOwned(s, next, rs) == \A i \in DOMAIN s : OwnedIn(s[i], next, rs)

\* Taking parts from a pipe, or adding owned ones, keeps it so.
LEMMA OwnedPipes ==
  ASSUME NEW s \in Seq(Parts), NEW next, NEW rs, AllOwned(s, next, rs)
  PROVE  /\ s # <<>> => AllOwned(Tail(s), next, rs)
         /\ \A p \in Parts : OwnedIn(p, next, rs) => AllOwned(Append(s, p), next, rs)
         /\ \A t \in Seq(Parts) : AllOwned(t, next, rs) => AllOwned(s \o t, next, rs)
<1>1. ASSUME s # <<>> PROVE AllOwned(Tail(s), next, rs)
  BY <1>1, PartsAfter DEF AllOwned
<1>2. ASSUME NEW p \in Parts, OwnedIn(p, next, rs) PROVE AllOwned(Append(s, p), next, rs)
  BY <1>2, PartsAfter DEF AllOwned
<1>3. ASSUME NEW t \in Seq(Parts), AllOwned(t, next, rs) PROVE AllOwned(s \o t, next, rs)
  <2>1. \A i \in DOMAIN (s \o t) :
               \/ i \in DOMAIN s /\ (s \o t)[i] = s[i]
               \/ i - Len(s) \in DOMAIN t /\ (s \o t)[i] = t[i - Len(s)]
    BY PartsAfter
  <2> QED BY <1>3, <2>1, Zenon DEF AllOwned
<1> QED BY <1>1, <1>2, <1>3

\* Every frame stays with its owner, and new ones have one.
LEMMA FramesStep ==
  ASSUME SessionInv, SessionStep
  PROVE  FramesOwned'
<1>0. /\ inbox \in Seq(Parts) /\ outbox \in Seq(Parts)
      /\ accepted \subseteq [id : Nat, from : Someone] /\ Setup \in Someone /\ NoOne \in Someone
  BY DEF SessionInv, SessionType, PipeOK, Someone, Requesters
<1>1. CASE Spawn
  BY <1>1 DEF Spawn, FramesOwned
<1>2. CASE ~Spawn
  <2>1. AllOwned(inbox, nextId, req) /\ AllOwned(outbox, nextId, req)
        /\ \A q \in accepted : OwnedIn(q, nextId, req)
    BY DEF SessionInv, OwnInv, FramesOwned, AllOwned, Owned
  <2>2. ASSUME NEW s \in Seq(Parts), AllOwned(s, nextId, req) PROVE AllOwned(s, nextId', req')
    <3>1. ASSUME NEW i \in DOMAIN s PROVE OwnedIn(s[i], nextId', req')
      <4>1. s[i] \in Parts /\ OwnedIn(s[i], nextId, req)
        BY <2>2, LenProperties DEF AllOwned
      <4>2. s[i].id \in Nat
        BY <4>1 DEF Parts
      <4> QED BY <1>2, <4>1, <4>2, OwnedKept
    <3> QED BY <3>1 DEF AllOwned
  <2>3. \A q \in accepted : OwnedIn(q, nextId', req')
    <3>1. ASSUME NEW q \in accepted PROVE OwnedIn(q, nextId', req')
      <4>1. q.id \in Nat /\ OwnedIn(q, nextId, req)
        BY <1>0, <2>1
      <4> QED BY <1>2, <4>1, OwnedKept
    <3> QED BY <3>1
  <2>4. AllOwned(inbox, nextId', req') /\ AllOwned(outbox, nextId', req')
    BY <1>0, <2>1, <2>2
  <2>5. ASSUME AllOwned(inbox', nextId', req'), AllOwned(outbox', nextId', req'),
               \A q \in accepted' : OwnedIn(q, nextId', req')
        PROVE  FramesOwned'
    BY <2>5 DEF FramesOwned, AllOwned, Owned
  <2>6. /\ AllOwned(Frame(0, Setup, TRUE), nextId', req') /\ Frame(0, Setup, TRUE) \in Seq(Parts)
        /\ AllOwned(Answer(0, NoOne, TRUE), nextId', req') /\ Answer(0, NoOne, TRUE) \in Seq(Parts)
    <3>1. PICK id \in Nat : id = 0
      OBVIOUS
    <3> DEFINE f == Frame(id, Setup, TRUE)
               a == Answer(id, NoOne, TRUE)
    <3>0. PICK yes \in BOOLEAN : yes = TRUE
      OBVIOUS
    <3>a. /\ Frame(id, Setup, yes) \in Seq(Parts) /\ Len(Frame(id, Setup, yes)) = 2
          /\ \A i \in 1..2 : Frame(id, Setup, yes)[i].id = id
      BY <1>0, FrameParts
    <3>b. /\ Answer(id, NoOne, yes) \in Seq(Parts) /\ Len(Answer(id, NoOne, yes)) = 3
          /\ \A i \in 1..3 : Answer(id, NoOne, yes)[i].id = id
      BY <1>0, AnswerParts
    <3>2. f \in Seq(Parts) /\ Len(f) = 2 /\ \A i \in 1..2 : f[i].id = id
      BY <3>0, <3>a
    <3>3. a \in Seq(Parts) /\ Len(a) = 3 /\ \A i \in 1..3 : a[i].id = id
      BY <3>0, <3>b
    <3> HIDE DEF f, a
    <3>4. DOMAIN f = 1..2 /\ DOMAIN a = 1..3
      BY <3>2, <3>3, LenProperties
    <3>5. AllOwned(f, nextId', req') /\ AllOwned(a, nextId', req')
      BY <3>1, <3>2, <3>3, <3>4 DEF AllOwned, OwnedIn
    <3> QED BY <3>1, <3>2, <3>3, <3>5 DEF f, a
  <2>7. CASE NotifyInitialized
    <3>1. AllOwned(inbox \o Frame(0, Setup, TRUE), nextId', req')
      BY <1>0, <2>4, <2>6, OwnedPipes
    <3> QED BY <2>3, <2>4, <2>5, <2>7, <3>1 DEF NotifyInitialized
  <2>8. CASE ServerNotifies
    <3>1. AllOwned(outbox \o Answer(0, NoOne, TRUE), nextId', req')
      BY <1>0, <2>4, <2>6, OwnedPipes
    <3> QED BY <2>3, <2>4, <2>5, <2>8, <3>1 DEF ServerNotifies
  <2>9. ASSUME NEW q \in accepted, NEW ok \in BOOLEAN, ServerAnswers(q, ok)
        PROVE  FramesOwned'
    <3>1. q.id \in Nat /\ q.from \in Someone
      BY <1>0
    <3>2. /\ Answer(q.id, q.from, ok) \in Seq(Parts) /\ Len(Answer(q.id, q.from, ok)) = 3
          /\ \A i \in 1..3 : /\ Answer(q.id, q.from, ok)[i].id = q.id
                             /\ Answer(q.id, q.from, ok)[i].from = q.from
      BY <3>1, AnswerParts
    <3>3. DOMAIN Answer(q.id, q.from, ok) = 1..3
      BY <3>2, LenProperties
    <3>4. AllOwned(Answer(q.id, q.from, ok), nextId', req')
      BY <2>3, <3>2, <3>3 DEF AllOwned, OwnedIn
    <3>5. AllOwned(outbox \o Answer(q.id, q.from, ok), nextId', req')
      BY <1>0, <2>4, <3>2, <3>4, OwnedPipes
    <3> QED BY <2>3, <2>4, <2>5, <2>9, <3>5 DEF ServerAnswers
  <2>10. CASE ServerReads
    <3>1. inbox # <<>> /\ (inbox' = Tail(inbox) \/ (Len(inbox) > 1 /\ inbox' = Tail(Tail(inbox))))
      BY <2>10 DEF ServerReads
    <3>2. AllOwned(Tail(inbox), nextId', req') /\ Tail(inbox) \in Seq(Parts)
      BY <1>0, <2>4, <3>1, OwnedPipes, HeadTailProperties
    <3>3. Len(inbox) > 1 => Tail(inbox) # <<>>
      <4>1. Len(Tail(inbox)) = Len(inbox) - 1 /\ Len(inbox) \in Nat
        BY <1>0, <3>1, HeadTailProperties
      <4> DEFINE k == Len(inbox)
                 m == Len(Tail(inbox))
      <4>2. m = k - 1 /\ k \in Nat
        BY <4>1
      <4> HIDE DEF k, m
      <4>3. k > 1 => m # 0
        BY <4>2
      <4> QED BY <4>3 DEF k, m
    <3>4. Len(inbox) > 1 => AllOwned(Tail(Tail(inbox)), nextId', req')
      BY <3>2, <3>3, OwnedPipes
    <3>5. 1 \in DOMAIN inbox
      BY <1>0, <3>1, LenProperties
    <3>6. OwnedIn([id |-> inbox[1].id, from |-> inbox[1].from], nextId', req')
      BY <2>4, <3>5 DEF AllOwned, OwnedIn
    <3>7. accepted' \subseteq accepted \cup {[id |-> inbox[1].id, from |-> inbox[1].from]}
      BY <2>10 DEF ServerReads
    <3>8. \A q \in accepted' : OwnedIn(q, nextId', req')
      BY <2>3, <3>6, <3>7
    <3> QED BY <2>4, <2>5, <2>10, <3>1, <3>2, <3>4, <3>8 DEF ServerReads
  <2>11. ASSUME NEW r \in Requesters, ClientStep(r) \/ (r \in Calls /\ DropCall(r))
         PROVE  FramesOwned'
    <3>1. UNCHANGED accepted
      BY <2>11, PipeCases
    <3>2. CASE UNCHANGED inbox /\ (outbox' = outbox \/ outbox' \in Torn(outbox))
      <4>1. ASSUME outbox' \in Torn(outbox) PROVE AllOwned(outbox', nextId', req')
        <5>1. \A i \in DOMAIN outbox' : /\ i \in DOMAIN outbox /\ outbox'[i].id = outbox[i].id
                                        /\ outbox'[i].from = outbox[i].from
          BY <1>0, <4>1, TornParts
        <5> QED BY <2>4, <5>1 DEF AllOwned, OwnedIn
      <4> QED BY <2>3, <2>4, <2>5, <3>1, <3>2, <4>1
    <3>3. CASE outbox # <<>> /\ outbox' = Tail(outbox) /\ UNCHANGED inbox
      BY <1>0, <2>3, <2>4, <2>5, <3>1, <3>3, OwnedPipes
    <3>4. ASSUME req[r].at \in Busy, UNCHANGED outbox, NEW i \in 1..2,
                 inbox' = Append(inbox, Frame(req[r].id, r, TRUE)[i])
          PROVE  FramesOwned'
      <4>1. req[r].id \in Nat /\ r \in Someone
        BY DEF SessionInv, SessionType, ClientOK, Someone
      <4> DEFINE f == Frame(req[r].id, r, TRUE)
                 p == f[i]
      <4>2. f[i] \in Parts
        BY <4>1, FrameParts
      <4>3. f[i].id = req[r].id /\ f[i].from = r
        <5>1. \A ok \in BOOLEAN : /\ Frame(req[r].id, r, ok)[i].id = req[r].id
                                  /\ Frame(req[r].id, r, ok)[i].from = r
          BY <4>1, FrameParts
        <5> QED BY <5>1, Zenon
      <4> HIDE DEF f
      <4>4. p \in Parts /\ p.id = req[r].id /\ p.from = r
        BY <4>2, <4>3, Zenon
      <4> HIDE DEF p
      <4>5. OwnedIn(p, nextId, req)
        BY <4>4, <3>4 DEF OwnedIn, SessionInv, OwnInv, IdsOK
      <4>6. OwnedIn(p, nextId', req')
        BY <1>2, <4>1, <4>4, <4>5, OwnedKept
      <4>7. AllOwned(Append(inbox, p), nextId', req')
        BY <1>0, <2>4, <4>4, <4>6, OwnedPipes
      <4> QED BY <2>3, <2>4, <2>5, <3>1, <3>4, <4>7 DEF p, f
    <3> QED BY <2>11, <3>2, <3>3, <3>4, PipeCases
  <2>12. CASE UNCHANGED <<inbox, outbox, accepted>>
    BY <2>3, <2>4, <2>5, <2>12
  <2> QED
    BY <1>2, <2>7, <2>8, <2>9, <2>10, <2>11, <2>12
       DEF SessionStep, QuietStep, SetupStep, ServerStep, Requesters, KillServer, CallTool, ServerExits, mcpVars
<1> QED BY <1>1, <1>2

\* What a request is given is its own.
LEMMA AnswerStep ==
  ASSUME SessionInv, SessionStep
  PROVE  AnswerIsOwn'
<1>0. /\ ClientOK /\ MutexInv /\ AnswerIsOwn /\ Setup \in Requesters
      /\ got \in [Requesters -> [is : Outcomes, from : Someone]]
  BY DEF SessionInv, SessionType, ClientOK, Requesters, OwnInv
<1>1. ASSUME NEW r \in Requesters, NEW o, got' = [got EXCEPT ![r] = o],
             o.is \in {"answer", "refused"} => o.from = r
      PROVE  AnswerIsOwn'
  BY <1>0, <1>1 DEF AnswerIsOwn
<1>2. CASE Spawn \/ NotifyInitialized
  BY <1>0, <1>1, <1>2 DEF Spawn, NotifyInitialized, Nothing
<1>3. ASSUME NEW r \in Requesters, ReadBody(r)
      PROVE  AnswerIsOwn'
  <2>1. CASE UNCHANGED got
    BY <1>0, <2>1 DEF AnswerIsOwn
  <2>2. CASE Head(outbox).id = req[r].id
    <3>1. outbox # <<>> /\ outbox \in Seq(Parts) /\ req[r].at \in Busy
      BY <1>3 DEF ReadBody, ReadBodyFor, SessionInv, SessionType, PipeOK, Busy
    <3>2. Head(outbox) = outbox[1] /\ 1 \in DOMAIN outbox
      BY <3>1, LenProperties
    <3>3. Owned(outbox[1])
      BY <3>2 DEF SessionInv, OwnInv, FramesOwned
    <3>4. req[r].id # 0
      BY <3>1 DEF SessionInv, OwnInv, IdsOK
    <3>5. Head(outbox).from = r
      BY <2>2, <3>2, <3>3, <3>4 DEF Owned, OwnedIn
    <3>6. got' = [got EXCEPT ![r] = [is |-> IF Head(outbox).ok THEN "answer" ELSE "refused",
                                     from |-> Head(outbox).from]]
      BY <1>3, <2>2, <3>1 DEF ReadBody, ReadBodyFor, Finish
    <3> QED BY <1>1, <3>5, <3>6
  <2> QED BY <1>3, <2>1, <2>2 DEF ReadBody, ReadBodyFor
<1>4. ASSUME NEW r \in Requesters, NEW how \in {"error", "framing", "dropped"}, Fail(r, how)
      PROVE  AnswerIsOwn'
  BY <1>1, <1>4 DEF Fail, Finish
<1>5. CASE UNCHANGED got
  BY <1>0, <1>5 DEF AnswerIsOwn
<1>6. ASSUME NEW r \in Requesters, ClientStep(r) \/ (r \in Calls /\ DropCall(r))
      PROVE  AnswerIsOwn'
  BY <1>3, <1>4, <1>5, <1>6 DEF ClientStep, DropCall, DropIf, Request, WriteHead, WriteBody,
     WritePart, ReadLength, ReadBlank, ReadRest, ReadGlued, ReadGluedLine, ReadPart, ReadClosed
<1> QED
  BY <1>2, <1>5, <1>6
     DEF SessionStep, QuietStep, SetupStep, ServerStep, Requesters, KillServer, CallTool, ServerExits,
         ServerReads, ServerAnswers, ServerNotifies, mcpVars

-----------------------------------------------------------------------------
(* The client stays in step unless a call is dropped inside an answer. *)

\* What is behind the first part begins with the one that comes next.
LEMMA OrderedTail ==
  ASSUME NEW s \in Seq(Parts), s # <<>>, NEW first \in PartNames, Ordered(s, first)
  PROVE  /\ Ordered(Tail(s), Behind(first))
         /\ first # "body" => Tail(s) # <<>>
<1> DEFINE t == Tail(s)
           n == Len(s)
<1>0. /\ n \in Nat /\ n # 0 /\ t \in Seq(Parts) /\ Len(t) = n - 1
      /\ \A i \in 1..(n - 1) : t[i] = s[i + 1]
  BY HeadTailProperties, LenProperties
<1>1. /\ \A i \in 1..(n - 1) : s[i + 1].part = Behind(s[i].part)
      /\ s[1].part = first /\ s[n].part = "body"
  BY DEF Ordered
<1> HIDE DEF t, n
<1>3. t = <<>> <=> Len(t) = 0
  BY <1>0
<1>4. first # "body" => n > 1
  BY <1>0, <1>1
<1>5. ASSUME n > 1
      PROVE  t[1].part = Behind(first) /\ t[Len(t)].part = "body" /\ t # <<>>
  <2>1. 1 \in 1..(n - 1) /\ n - 1 \in 1..(n - 1) /\ (n - 1) + 1 = n /\ n - 1 # 0
    BY <1>0, <1>5
  <2>2. t[1] = s[1 + 1] /\ t[n - 1] = s[(n - 1) + 1] /\ s[1 + 1].part = Behind(s[1].part)
    BY <1>0, <1>1, <2>1
  <2> QED BY <1>0, <1>1, <1>3, <2>1, <2>2
<1>6. ASSUME NEW i \in 1..(Len(t) - 1) PROVE t[i + 1].part = Behind(t[i].part)
  <2>1. i \in 1..(n - 1) /\ i + 1 \in 1..(n - 1)
    BY <1>0, <1>6
  <2> QED BY <1>0, <1>1, <2>1
<1>8. ~(n > 1) => t = <<>>
  BY <1>0, <1>3
<1>9. Ordered(t, Behind(first))
  BY <1>5, <1>6, <1>8 DEF Ordered
<1> QED BY <1>4, <1>5, <1>9 DEF t

\* An answer can be added at the end.
LEMMA OrderedAnswer ==
  ASSUME NEW s \in Seq(Parts), NEW first, Ordered(s, first), first # "length" => s # <<>>,
         NEW f \in Seq(Parts), Len(f) = 3,
         f[1].part = "length", f[2].part = "blank", f[3].part = "body"
  PROVE  s \o f # <<>> /\ Ordered(s \o f, first)
<1> DEFINE n == Len(s)
           c == s \o f
<1>0. /\ n \in Nat /\ c \in Seq(Parts) /\ Len(c) = n + 3
      /\ \A i \in 1..(n + 3) : c[i] = IF i <= n THEN s[i] ELSE f[i - n]
  <2>1. /\ n \in Nat /\ c \in Seq(Parts) /\ Len(c) = n + Len(f)
        /\ \A i \in 1..(n + Len(f)) : c[i] = IF i <= n THEN s[i] ELSE f[i - n]
    BY ConcatProperties, LenProperties
  <2> HIDE DEF n, c
  <2> QED BY <2>1
<1>1. /\ \A i \in 1..(n - 1) : s[i + 1].part = Behind(s[i].part)
      /\ n # 0 => s[1].part = first /\ s[n].part = "body"
  BY DEF Ordered
<1>2. (c = <<>> <=> Len(c) = 0) /\ (s = <<>> <=> n = 0)
  BY <1>0
<1> HIDE DEF n, c
<1>3. c # <<>>
  BY <1>0, <1>2
<1>4. \A i \in 1..n : c[i] = s[i]
  BY <1>0
<1>5. c[n + 1].part = "length" /\ c[n + 2].part = "blank" /\ c[n + 3].part = "body"
  <2>1. /\ n + 1 \in 1..(n + 3) /\ n + 2 \in 1..(n + 3) /\ n + 3 \in 1..(n + 3)
        /\ ~(n + 1 <= n) /\ ~(n + 2 <= n) /\ ~(n + 3 <= n)
        /\ (n + 1) - n = 1 /\ (n + 2) - n = 2 /\ (n + 3) - n = 3
    BY <1>0
  <2> QED BY <1>0, <2>1
<1>6. ASSUME NEW i \in 1..(Len(c) - 1) PROVE c[i + 1].part = Behind(c[i].part)
  <2>1. CASE i < n
    <3>1. i \in 1..(n - 1) /\ i \in 1..n /\ i + 1 \in 1..n
      BY <1>0, <1>6, <2>1
    <3> QED BY <1>1, <1>4, <3>1
  <2>2. CASE i = n
    <3>1. i \in 1..n /\ n # 0
      BY <1>0, <1>6, <2>2
    <3>2. c[i] = s[n]
      BY <1>4, <2>2, <3>1
    <3> QED BY <1>1, <1>5, <2>2, <3>1, <3>2 DEF Behind
  <2>3. CASE i = n + 1
    <3>1. i + 1 = n + 2
      BY <1>0, <2>3
    <3> QED BY <1>5, <2>3, <3>1 DEF Behind
  <2>4. CASE i = n + 2
    <3>1. i + 1 = n + 3
      BY <1>0, <2>4
    <3> QED BY <1>5, <2>4, <3>1 DEF Behind
  <2> QED BY <1>0, <1>6, <2>1, <2>2, <2>3, <2>4
<1>7. n # 0 => c[1].part = first
  BY <1>0, <1>1, <1>4
<1>8. n = 0 => c[1].part = "length" /\ first = "length"
  <2>1. n = 0 => n + 1 = 1
    BY <1>0
  <2> QED BY <1>2, <1>5, <2>1
<1>9. c[Len(c)].part = "body"
  BY <1>0, <1>5
<1> QED BY <1>2, <1>3, <1>6, <1>7, <1>8, <1>9 DEF Ordered, c

\* A requester that is not inside an answer, before or after, changes nothing about it.
LEMMA ExpectedSame ==
  ASSUME NEW r \in Requesters, \A s \in Requesters : s # r => req'[s] = req[s],
         req[r].at \notin Inside, req'[r].at \notin Inside
  PROVE  Expected' = Expected
<1>1. \A s \in Requesters : req'[s].at = "length" <=> req[s].at = "length"
  BY DEF Inside
<1>2. \A s \in Requesters : req'[s].at = "payload" <=> req[s].at = "payload"
  BY DEF Inside
<1> QED BY <1>1, <1>2 DEF Expected, Midway

\* A requester at the streams decides by itself what comes next.
LEMMA ExpectedOf ==
  ASSUME MutexInv, NEW r \in Requesters, req[r].at \in Busy
  PROVE  Expected = IF req[r].at = "length" THEN "blank"
                    ELSE IF req[r].at = "payload" THEN "body" ELSE "length"
<1>1. \A s \in Requesters : req[s].at \in {"length", "payload"} => s = r
  BY Alone DEF Busy
<1> QED BY <1>1 DEF Expected, Midway

\* After a step of a requester that was at the streams and still is, or has left them.
LEMMA ExpectedAfter ==
  ASSUME MutexInv, NEW r \in Requesters, req[r].at \in Busy,
         \A s \in Requesters : s # r => req'[s] = req[s]
  PROVE  Expected' = IF req'[r].at = "length" THEN "blank"
                     ELSE IF req'[r].at = "payload" THEN "body" ELSE "length"
<1>1. \A s \in Requesters : s # r => req'[s].at \notin {"length", "payload"}
  BY Alone DEF Busy
<1> QED BY <1>1 DEF Expected, Midway

\* A part that was expected has been read.
LEMMA ReadInStep ==
  ASSUME MutexInv, InStep, NEW r \in Requesters, req[r].at \in Busy,
         outbox \in Seq(Parts), outbox # <<>>, outbox' = Tail(outbox),
         \A s \in Requesters : s # r => req'[s] = req[s],
         \/ req[r].at = "wait" /\ req'[r].at = "length"
         \/ req[r].at = "length" /\ req'[r].at = "payload"
         \/ req[r].at = "payload" /\ req'[r].at \notin Inside
  PROVE  InStep'
<1>1. Expected = IF req[r].at = "length" THEN "blank"
                 ELSE IF req[r].at = "payload" THEN "body" ELSE "length"
  BY ExpectedOf
<1>2. Expected \in PartNames /\ Ordered(outbox, Expected)
  BY <1>1 DEF PartNames, InStep
<1>3. Ordered(outbox', Behind(Expected)) /\ (Expected # "body" => outbox' # <<>>)
  BY <1>2, OrderedTail
<1>4. Expected' = Behind(Expected)
  BY <1>1, ExpectedAfter DEF Behind, Inside
<1>5. Behind(Expected) # "length" => Expected # "body"
  BY DEF Behind
<1> QED BY <1>3, <1>4, <1>5 DEF InStep

\* While no call has been dropped inside an answer, reading, writing and ending keep
\* the client in step.
LEMMA MidwayStep ==
  ASSUME SessionInv, ~cut, ~cut', NEW r \in Requesters,
         ClientStep(r) \/ (r \in Calls /\ DropCall(r))
  PROVE  /\ InStep'
         /\ \A s \in Requesters : req'[s].at # "glued" /\ got'[s].is # "framing"
<1>0. /\ ClientOK /\ MutexInv /\ InStep /\ outbox \in Seq(Parts)
      /\ \A s \in Requesters : req[s].at # "glued" /\ got[s].is # "framing"
  BY DEF SessionInv, SessionType, ClientOK, PipeOK, StepInv
<1>h. outbox # <<>> => Head(outbox) = outbox[1]
  BY <1>0
<1>1. ASSUME req[r].at = "wait", outbox # <<>> PROVE Head(outbox).part = "length"
  <2>1. Expected = "length"
    BY <1>0, <1>1, ExpectedOf DEF Busy
  <2> QED BY <1>0, <1>1, <1>h, <2>1 DEF InStep, Ordered
<1>2. ~ReadGlued(r) /\ ~ReadGluedLine(r) /\ ~ReadRest(r)
  BY <1>0, <1>1 DEF ReadGlued, ReadGluedLine, ReadRest
<1>3. CASE ReadLength(r)
  <2>1. /\ req[r].at = "wait" /\ outbox # <<>> /\ outbox' = Tail(outbox) /\ "length" \in States
        /\ req' = [req EXCEPT ![r].at = "length"] /\ UNCHANGED got
    BY <1>3 DEF ReadLength, ReadPart, States
  <2>2. req'[r].at = "length" /\ \A s \in Requesters : s # r => req'[s] = req[s]
    BY <1>0, <2>1, Moved
  <2>3. InStep'
    BY <1>0, <2>1, <2>2, ReadInStep DEF Busy
  <2> QED BY <1>0, <2>1, <2>2, <2>3
<1>4. CASE ReadBlank(r)
  <2>1. req[r].at = "length"
    BY <1>1, <1>4 DEF ReadBlank
  <2>2. /\ outbox # <<>> /\ outbox' = Tail(outbox) /\ "payload" \in States
        /\ req' = [req EXCEPT ![r].at = "payload"] /\ UNCHANGED got
    BY <1>4, <2>1 DEF ReadBlank, ReadPart, States
  <2>3. req'[r].at = "payload" /\ \A s \in Requesters : s # r => req'[s] = req[s]
    BY <1>0, <2>2, Moved
  <2>4. InStep'
    BY <1>0, <2>1, <2>2, <2>3, ReadInStep DEF Busy
  <2> QED BY <1>0, <2>2, <2>3, <2>4
<1>5. CASE ReadBody(r)
  <2>1. req[r].at = "payload" /\ outbox # <<>> /\ outbox' = Tail(outbox)
    BY <1>5 DEF ReadBody, ReadBodyFor
  <2>2. /\ \A s \in Requesters : s # r => req'[s] = req[s] /\ got'[s] = got[s]
        /\ req'[r].at \in {"wait", "ended"} /\ got'[r].is # "framing"
    <3>1. CASE req' = [req EXCEPT ![r].at = "wait"] /\ UNCHANGED got
      BY <1>0, <3>1, Moved DEF States
    <3>2. CASE /\ req' = [req EXCEPT ![r].at = "ended"]
               /\ got' = [got EXCEPT ![r] = [is |-> IF Head(outbox).ok THEN "answer" ELSE "refused",
                                             from |-> Head(outbox).from]]
      <4>1. /\ \A s \in Requesters : s # r => req'[s] = req[s]
            /\ req'[r].at = "ended"
        BY <1>0, <3>2, Moved DEF States
      <4>2. got \in [Requesters -> [is : Outcomes, from : Someone]]
        BY <1>0 DEF ClientOK
      <4> QED BY <3>2, <4>1, <4>2
    <3> QED BY <1>5, <3>1, <3>2 DEF ReadBody, ReadBodyFor, Finish
  <2>3. InStep'
    BY <1>0, <2>1, <2>2, ReadInStep DEF Busy, Inside
  <2> QED BY <1>0, <2>2, <2>3
<1>6. ASSUME outbox' = outbox, \A s \in Requesters : s # r => req'[s] = req[s],
             req[r].at \notin Inside, req'[r].at \notin Inside
      PROVE  InStep'
  BY <1>0, <1>6, ExpectedSame DEF InStep
<1>7. CASE Request(r)
  <2>1. /\ req'[r].at = "head" /\ \A s \in Requesters : s # r => req'[s] = req[s]
        /\ req[r].at = "queued" /\ outbox' = outbox /\ got' = got
    <3>1. nextId \in Nat
      BY <1>0 DEF ClientOK
    <3> QED BY <1>0, <1>7, <3>1, Begun DEF Request
  <2> QED BY <1>0, <1>6, <2>1 DEF Inside
<1>8. ASSUME NEW y \in {"body", "wait"}, req' = [req EXCEPT ![r].at = y], UNCHANGED <<got, outbox>>,
             req[r].at \notin Inside
      PROVE  /\ InStep'
             /\ \A s \in Requesters : req'[s].at # "glued" /\ got'[s].is # "framing"
  <2>1. y \in States /\ y \notin Inside
    BY DEF States, Inside
  <2>2. req'[r].at = y /\ \A s \in Requesters : s # r => req'[s] = req[s]
    BY <1>0, <1>8, <2>1, Moved
  <2> QED BY <1>0, <1>6, <1>8, <2>1, <2>2
<1>9. ASSUME NEW how \in {"error", "dropped"}, Fail(r, how), req[r].at \notin Inside, UNCHANGED outbox
      PROVE  /\ InStep'
             /\ \A s \in Requesters : req'[s].at # "glued" /\ got'[s].is # "framing"
  <2>1. /\ req' = [req EXCEPT ![r].at = "ended"] /\ "ended" \in States /\ "ended" \notin Inside
        /\ got' = [got EXCEPT ![r] = [is |-> how, from |-> NoOne]]
    BY <1>9 DEF Fail, Finish, States, Inside
  <2>2. req'[r].at = "ended" /\ \A s \in Requesters : s # r => req'[s] = req[s]
    BY <1>0, <2>1, Moved
  <2>3. got \in [Requesters -> [is : Outcomes, from : Someone]]
    BY <1>0 DEF ClientOK
  <2>4. \A s \in Requesters : got'[s].is # "framing"
    BY <1>0, <2>1, <2>3
  <2> QED BY <1>0, <1>6, <1>9, <2>1, <2>2, <2>4
<1>10. CASE WriteHead(r)
  BY <1>8, <1>9, <1>10 DEF WriteHead, WritePart, Inside
<1>11. CASE WriteBody(r)
  BY <1>8, <1>9, <1>11 DEF WriteBody, WritePart, Inside
<1>12. CASE ReadClosed(r)
  <2>1. outbox = <<>> /\ req[r].at \in Busy /\ Fail(r, "error") /\ UNCHANGED outbox
    BY <1>12 DEF ReadClosed, Busy
  <2>2. Expected = "length"
    BY <1>0, <2>1 DEF InStep
  <2>3. req[r].at \notin Inside
    BY <1>0, <2>1, <2>2, ExpectedOf DEF Inside
  <2> QED BY <1>9, <2>1, <2>3
<1>13. CASE DropCall(r)
  <2>1. req[r].at \notin Inside /\ outbox' = outbox
    BY <1>13, Zenon DEF DropCall, DropIf, Inside
  <2> QED BY <1>9, <1>13, <2>1 DEF DropCall, DropIf
<1> QED
  BY <1>2, <1>3, <1>4, <1>5, <1>7, <1>10, <1>11, <1>12, <1>13, <1>0 DEF ClientStep, Request

\* The client is in step with the stream, unless a call was dropped inside an answer.
LEMMA StreamStep ==
  ASSUME SessionInv, SessionStep
  PROVE  StepInv'
<1>0. /\ ClientOK /\ outbox \in Seq(Parts) /\ accepted \subseteq [id : Nat, from : Someone]
      /\ Setup \in Requesters
  BY DEF SessionInv, SessionType, PipeOK, Requesters
<1>1. cut => cut'
  BY Zenon DEF SessionStep, QuietStep, SetupStep, Spawn, NotifyInitialized, KillServer,
       CallTool, ServerStep, ServerReads, ServerAnswers, ServerNotifies, ServerExits, mcpVars,
       ClientStep, Request, WriteHead, WriteBody, WritePart, ReadLength, ReadBlank, ReadRest,
       ReadGlued, ReadGluedLine, ReadPart, ReadBody, ReadBodyFor, ReadClosed, DropCall, DropIf
<1>2. SUFFICES ASSUME ~cut, ~cut'
               PROVE  /\ InStep'
                      /\ \A s \in Requesters : req'[s].at # "glued" /\ got'[s].is # "framing"
  BY <1>1, Zenon DEF StepInv
<1>3. InStep /\ \A s \in Requesters : req[s].at # "glued" /\ got[s].is # "framing"
  BY <1>2 DEF SessionInv, StepInv
<1>4. \A s \in Requesters : s # Setup => s \in Calls
  BY DEF Requesters
<1>5. CASE SetupStep
  <2>1. CASE UNCHANGED <<req, got, outbox>>
    BY <1>3, <2>1 DEF InStep, Expected, Midway
  <2>2. ASSUME NEW n \in Nat, req' = [req EXCEPT ![Setup] = [at |-> "head", id |-> n]], CallsFresh,
               got' = [got EXCEPT ![Setup] = Nothing], outbox' = <<>> \/ (outbox' = outbox /\ req[Setup].at = "ended")
        PROVE  /\ InStep'
               /\ \A s \in Requesters : req'[s].at # "glued" /\ got'[s].is # "framing"
    <3>1. req'[Setup].at = "head" /\ \A s \in Requesters : s # Setup => req'[s] = req[s]
      BY <1>0, <2>2, Begun
    <3>2. \A s \in Requesters : s # Setup => req[s].at = "idle"
      BY <1>4, <2>2 DEF CallsFresh
    <3>3. Expected' = "length"
      BY <3>1, <3>2 DEF Expected, Midway
    <3>4. outbox' = <<>> \/ (outbox' = outbox /\ Expected = "length")
      BY <2>2, <3>2 DEF Expected, Midway
    <3>5. Ordered(<<>>, "length")
      BY DEF Ordered
    <3>6. InStep'
      BY <1>3, <3>3, <3>4, <3>5 DEF InStep
    <3>7. got \in [Requesters -> [is : Outcomes, from : Someone]]
      BY <1>0 DEF ClientOK
    <3> QED BY <1>3, <2>2, <3>1, <3>6, <3>7 DEF Nothing
  <2>3. nextId \in Nat /\ 1 \in Nat
    BY <1>0 DEF ClientOK
  <2> QED
    BY <1>5, <2>1, <2>2, <2>3 DEF SetupStep, Spawn, NotifyInitialized, KillServer
<1>6. ASSUME NEW c \in Calls, CallTool(c)
      PROVE  /\ InStep'
             /\ \A s \in Requesters : req'[s].at # "glued" /\ got'[s].is # "framing"
  <2>1. c \in Requesters /\ "queued" \in States
    BY DEF Requesters, States
  <2>2. /\ req'[c].at = "queued" /\ \A s \in Requesters : s # c => req'[s] = req[s]
        /\ req[c].at = "idle" /\ UNCHANGED <<got, outbox>>
    BY <1>0, <1>6, <2>1, Moved DEF CallTool
  <2>3. Expected' = Expected
    BY <2>1, <2>2, ExpectedSame DEF Inside
  <2> QED BY <1>3, <2>2, <2>3 DEF InStep
<1>7. ASSUME NEW id \in Nat, NEW from \in Someone, NEW ok \in BOOLEAN,
             outbox' = outbox \o Answer(id, from, ok), UNCHANGED <<req, got>>
      PROVE  /\ InStep'
             /\ \A s \in Requesters : req'[s].at # "glued" /\ got'[s].is # "framing"
  <2>1. /\ Answer(id, from, ok) \in Seq(Parts) /\ Len(Answer(id, from, ok)) = 3
        /\ Answer(id, from, ok)[1].part = "length" /\ Answer(id, from, ok)[2].part = "blank"
        /\ Answer(id, from, ok)[3].part = "body"
    BY AnswerParts
  <2>2. Expected' = Expected
    BY <1>7 DEF Expected, Midway
  <2>3. outbox' # <<>> /\ Ordered(outbox', Expected)
    BY <1>0, <1>3, <1>7, <2>1, OrderedAnswer DEF InStep
  <2> QED BY <1>3, <1>7, <2>2, <2>3 DEF InStep
<1>8. CASE ServerNotifies
  BY <1>7, <1>8 DEF ServerNotifies, Someone
<1>9. ASSUME NEW q \in accepted, NEW ok \in BOOLEAN, ServerAnswers(q, ok)
      PROVE  /\ InStep'
             /\ \A s \in Requesters : req'[s].at # "glued" /\ got'[s].is # "framing"
  <2>1. q.id \in Nat /\ q.from \in Someone
    BY <1>0
  <2> QED BY <1>7, <1>9, <2>1 DEF ServerAnswers
<1>10. CASE UNCHANGED <<req, got, outbox>>
  BY <1>3, <1>10 DEF InStep, Expected, Midway
<1> QED
  BY <1>2, <1>5, <1>6, <1>8, <1>9, <1>10, MidwayStep
     DEF SessionStep, QuietStep, ServerStep, Requesters, ServerExits, ServerReads, mcpVars

-----------------------------------------------------------------------------
(* Together. *)

\* Every step of a session keeps its invariant.
LEMMA SessionStepInv ==
  ASSUME SessionInv, SessionStep
  PROVE  SessionInv'
<1>1. SessionType /\ MutexInv
  BY DEF SessionInv
<1>2. SessionType'
  BY <1>1, PipeStep, ClientStepOK, CountStep DEF SessionType
<1>3. OwnInv'
  BY IdsStep, FramesStep, AnswerStep DEF OwnInv
<1> QED BY <1>1, <1>2, <1>3, MutexStep, StreamStep DEF SessionInv

\* No server, no requests.
LEMMA SessionInit == McpInit => SessionInv /\ CallsFresh
<1> SUFFICES ASSUME McpInit PROVE SessionInv /\ CallsFresh
  OBVIOUS
<1>1. \A r \in Requesters : req[r] = [at |-> "idle", id |-> 0] /\ got[r] = Nothing
  BY DEF McpInit
<1>2. SessionType
  <2>1. MaxNotices \in Nat
    BY McpAssumption
  <2>2. ClientOK
    BY DEF McpInit, ClientOK, States, Outcomes, Nothing, Someone
  <2>3. PipeOK
    BY DEF McpInit, PipeOK
  <2>4. CountOK
    <3>1. notices \in 0..MaxNotices
      BY <2>1 DEF McpInit
    <3> QED BY <3>1 DEF McpInit, CountOK
  <2> QED BY <2>2, <2>3, <2>4 DEF SessionType
<1>3. OwnInv
  <2>1. IdsOK
    BY <1>1 DEF McpInit, IdsOK, Busy
  <2>2. FramesOwned
    BY DEF McpInit, FramesOwned
  <2>3. AnswerIsOwn
    BY <1>1 DEF AnswerIsOwn, Nothing
  <2> QED BY <2>1, <2>2, <2>3 DEF OwnInv
<1>4. MutexInv
  BY <1>1 DEF MutexInv, Active, Busy
<1>5. StepInv
  BY <1>1 DEF McpInit, StepInv, InStep, Expected, Midway, Ordered, Nothing
<1>6. CallsFresh
  BY <1>1 DEF CallsFresh, Requesters
<1> QED BY <1>2, <1>3, <1>4, <1>5, <1>6 DEF SessionInv

\* Before the first call of a tool no call does anything.
LEMMA FreshStep ==
  ASSUME SessionInv, CallsFresh, QuietStep
  PROVE  CallsFresh'
<1>0. ClientOK /\ MutexInv /\ Setup \in Requesters /\ nextId \in Nat
  BY DEF SessionInv, SessionType, ClientOK, Requesters
<1>1. \A c \in Calls : c # Setup /\ c \in Requesters
  BY McpAssumption DEF Requesters
<1>2. ASSUME \A s \in Requesters : s # Setup => req'[s] = req[s]
      PROVE  CallsFresh'
  BY <1>1, <1>2 DEF CallsFresh
<1>3. ASSUME NEW r \in Requesters, ClientStep(r) \/ (r \in Calls /\ DropCall(r))
      PROVE  CallsFresh'
  <2>1. ClientCase(r)
    BY <1>3, ClientCases DEF SessionInv
  <2>2. r = Setup
    BY <2>1, <1>1 DEF CallsFresh, ClientCase, Request, Goes, Ends, Active, Requesters
  <2>3. CASE Request(r)
    BY <1>0, <1>2, <2>2, <2>3, Begun DEF Request
  <2>4. ASSUME NEW x, NEW y \in States, Goes(r, x, y) PROVE CallsFresh'
    BY <1>0, <1>2, <2>2, <2>4, Moved DEF Goes
  <2>5. ASSUME NEW o \in [is : Outcomes, from : Someone], Ends(r, o) PROVE CallsFresh'
    BY <1>0, <1>2, <2>2, <2>5, Finished DEF Ends
  <2> QED BY <2>1, <2>3, <2>4, <2>5 DEF ClientCase, States
<1>4. CASE SetupStep
  BY <1>0, <1>2, <1>4, Begun DEF SetupStep, Spawn, NotifyInitialized, KillServer
<1>5. CASE UNCHANGED req
  BY <1>2, <1>5
<1> QED
  BY <1>3, <1>4, <1>5 DEF QuietStep, ServerStep, Requesters, ServerExits, ServerReads,
     ServerAnswers, ServerNotifies, mcpVars

\* The invariant implies what the runs check of a session.
LEMMA SessionProperties == SessionInv => McpTypeOK /\ AnswerIsOwn /\ LostOnlyByCut
<1> SUFFICES ASSUME SessionInv PROVE McpTypeOK /\ AnswerIsOwn /\ LostOnlyByCut
  OBVIOUS
<1>1. AnswerIsOwn /\ LostOnlyByCut
  BY DEF SessionInv, OwnInv, StepInv, LostOnlyByCut
<1>2. \A i \in DOMAIN inbox : inbox[i].part \in PartNames
  <2>1. ASSUME NEW i \in DOMAIN inbox PROVE inbox[i].part \in PartNames
    <3>1. inbox[i] \in Parts
      BY LenProperties DEF SessionInv, SessionType, PipeOK
    <3> QED BY <3>1 DEF Parts
  <2> QED BY <2>1
<1>3. \A i \in DOMAIN outbox : outbox[i].part \in PartNames /\ outbox[i].id < nextId
  <2>1. ASSUME NEW i \in DOMAIN outbox PROVE outbox[i].part \in PartNames /\ outbox[i].id < nextId
    <3>1. outbox[i] \in Parts
      BY LenProperties DEF SessionInv, SessionType, PipeOK
    <3>2. outbox[i].part \in PartNames /\ outbox[i].id \in Nat /\ nextId \in Nat \ {0}
      BY <3>1 DEF Parts, SessionInv, SessionType, ClientOK
    <3>3. outbox[i].id # 0 => outbox[i].id < nextId
      BY DEF SessionInv, OwnInv, FramesOwned, Owned, OwnedIn
    <3> QED BY <3>2, <3>3
  <2> QED BY <2>1
<1>4. \A r \in Requesters : req[r].at \in States /\ req[r].id < nextId /\ got[r].is \in Outcomes
  <2>1. \A r \in Requesters : req[r].id < nextId
    BY DEF SessionInv, OwnInv, IdsOK
  <2>2. \A r \in Requesters : req[r].at \in States /\ got[r].is \in Outcomes
    BY DEF SessionInv, SessionType, ClientOK
  <2> QED BY <2>1, <2>2
<1>5. server \in {"none", "up", "down"} /\ lock \in Seq(Requesters)
  BY DEF SessionInv, SessionType, PipeOK, ClientOK
<1>6. cut \in BOOLEAN /\ notices \in 0..MaxNotices
  BY DEF SessionInv, SessionType, CountOK
<1>7. McpTypeOK
  BY <1>2, <1>3, <1>4, <1>5, <1>6 DEF McpTypeOK, States, Outcomes
<1> QED BY <1>1, <1>7


-----------------------------------------------------------------------------
(* Supervised children. *)

Places == {"idle", "launch", "stdin", "wait", "drain", "ended"}
Children == {"none", "running", "acted", "exited", "killed"}
Results == {"none", "ok", "cancelled", "timeout", "tool", "policy", "protocol", "dropped"}

JobRecords == [at : Places, attempts : 0..MaxRestarts, child : Children, result : Results]

\* A child is alive only while its attempt writes to it or waits for it; before and
\* after the attempts there is none.
Tidy(r) == r.child \in {"running", "acted"} => r.at \in {"stdin", "wait"}

JobInv == job \in [Jobs -> JobRecords] /\ \A j \in Jobs : Tidy(job[j])

\* Restarts are counted up to a limit of at most five.
LEMMA RestartLimit == MaxRestarts \in Nat
BY SupervisorAssumption DEF MaxRestarts

\* What a step may do to a call.
JobChange(j) ==
  /\ job' \in [Jobs -> JobRecords]
  /\ \A k \in Jobs : k # j => job'[k] = job[k]
  /\ Tidy(job'[j])

\* A record with other fields.
LEMMA OtherFields ==
  ASSUME NEW r \in JobRecords, NEW a \in Places, NEW c \in Children
  PROVE  /\ [r EXCEPT !.child = c] \in JobRecords
         /\ [r EXCEPT !.at = a, !.child = c] \in JobRecords
         /\ \A o \in Results : [r EXCEPT !.at = a, !.child = c, !.result = o] \in JobRecords
         /\ \A n \in 0..MaxRestarts : [r EXCEPT !.at = a, !.child = c, !.attempts = n] \in JobRecords
<1>1. [r EXCEPT !.child = c] \in JobRecords
  BY DEF JobRecords
<1>2. [r EXCEPT !.at = a, !.child = c] \in JobRecords
  BY DEF JobRecords
<1>3. ASSUME NEW o \in Results PROVE [r EXCEPT !.at = a, !.child = c, !.result = o] \in JobRecords
  BY DEF JobRecords
<1>4. ASSUME NEW n \in 0..MaxRestarts
      PROVE  [r EXCEPT !.at = a, !.child = c, !.attempts = n] \in JobRecords
  BY DEF JobRecords
<1> QED BY <1>1, <1>2, <1>3, <1>4

\* Changing one record so keeps the others.
LEMMA RecordChange ==
  ASSUME JobInv, NEW j \in Jobs, NEW r \in JobRecords, job' = [job EXCEPT ![j] = r], Tidy(r)
  PROVE  JobChange(j)
BY DEF JobInv, JobChange

\* A call's step changes its own record and keeps children tidy.
LEMMA JobStepChange ==
  ASSUME JobInv, NEW j \in Jobs,
         Execute(j) \/ JobStep(j) \/ AwaitPipes(j) \/ DropJob(j) \/ ChildActs(j) \/ ChildExits(j)
  PROVE  JobChange(j)
<1> DEFINE r == job[j]
<1>0. r \in JobRecords /\ Tidy(r) /\ MaxRestarts \in Nat
  BY RestartLimit DEF JobInv
<1>1. r.at \in Places /\ r.attempts \in 0..MaxRestarts /\ r.child \in Children /\ r.result \in Results
  BY <1>0 DEF JobRecords
<1>2. /\ Killed(j) \in {"none", "exited", "killed"}
      /\ r.at \notin {"stdin", "wait"} => r.child \in {"none", "exited", "killed"}
  BY <1>0, <1>1 DEF Killed, Alive, Tidy, Children
<1>3. ASSUME NEW a \in Places, NEW c \in Children,
             c \in {"running", "acted"} => a \in {"stdin", "wait"}, Step(j, a, c)
      PROVE  JobChange(j)
  <2>1. job' = [job EXCEPT ![j] = [r EXCEPT !.at = a, !.child = c]]
    BY <1>3 DEF Step
  <2>2. [r EXCEPT !.at = a, !.child = c] \in JobRecords
    BY <1>0, OtherFields
  <2>3. Tidy([r EXCEPT !.at = a, !.child = c])
    BY <1>0, <1>3 DEF Tidy, JobRecords
  <2> QED BY <2>1, <2>2, <2>3, RecordChange
<1>4. ASSUME NEW o \in {"ok", "cancelled", "timeout", "tool", "policy", "protocol", "dropped"},
             NEW c \in {"none", "exited", "killed"}, End(j, o, c)
      PROVE  JobChange(j)
  <2>1. job' = [job EXCEPT ![j] = [r EXCEPT !.at = "ended", !.child = c, !.result = o]]
    BY <1>4 DEF End
  <2>2. [r EXCEPT !.at = "ended", !.child = c, !.result = o] \in JobRecords
    <3>1. "ended" \in Places /\ c \in Children /\ o \in Results
      BY DEF Places, Children, Results
    <3> QED BY <1>0, <3>1, OtherFields
  <2>3. Tidy([r EXCEPT !.at = "ended", !.child = c, !.result = o])
    BY <1>0 DEF Tidy, JobRecords
  <2> QED BY <2>1, <2>2, <2>3, RecordChange
<1>5. ASSUME NEW o \in {"timeout", "tool"}, NEW c \in {"none", "exited", "killed"}, Failed(j, o, c)
      PROVE  JobChange(j)
  <2>1. CASE r.attempts < MaxRestarts /\ ~cancelled[j] /\ Again(j, c, r.attempts + 1)
    <3>1. r.attempts + 1 \in 0..MaxRestarts
      BY <1>0, <1>1, <2>1
    <3>2. job' = [job EXCEPT ![j] = [r EXCEPT !.at = "launch", !.child = c, !.attempts = r.attempts + 1]]
      BY <2>1 DEF Again
    <3>3. [r EXCEPT !.at = "launch", !.child = c, !.attempts = r.attempts + 1] \in JobRecords
      <4>1. "launch" \in Places /\ c \in Children
        BY DEF Places, Children
      <4> QED BY <1>0, <3>1, <4>1, OtherFields
    <3>4. Tidy([r EXCEPT !.at = "launch", !.child = c, !.attempts = r.attempts + 1])
      BY <1>0 DEF Tidy, JobRecords
    <3> QED BY <2>1, <3>2, <3>3, <3>4, RecordChange
  <2>2. CASE End(j, o, c)
    BY <1>4, <2>2
  <2> QED BY <1>5, <2>1, <2>2 DEF Failed
<1>6. CASE Execute(j)
  BY <1>3, <1>4, <1>6 DEF Execute, Places, Children
<1>7. CASE Launch(j)
  BY <1>3, <1>5, <1>7 DEF Launch, Places, Children
<1>8. CASE WriteStdin(j)
  BY <1>1, <1>2, <1>3, <1>5, <1>8 DEF WriteStdin, Places, Children
<1>9. CASE WaitCancelled(j) \/ DropJob(j)
  BY <1>2, <1>4, <1>9 DEF WaitCancelled, DropJob
<1>10. CASE WaitTimedOut(j)
  BY <1>2, <1>5, <1>10 DEF WaitTimedOut
<1>11. CASE WaitExited(j)
  BY <1>3, <1>11 DEF WaitExited, Places, Children
<1>12. CASE Drain(j)
  BY <1>4, <1>5, <1>12 DEF Drain
<1>13. CASE ChildActs(j) \/ ChildExits(j)
  <2>1. PICK c \in {"acted", "exited"} : job' = [job EXCEPT ![j] = [r EXCEPT !.child = c]]
    BY <1>13 DEF ChildActs, ChildExits
  <2>2. [r EXCEPT !.child = c] \in JobRecords
    <3>1. c \in Children /\ "ended" \in Places
      BY DEF Children, Places
    <3> QED BY <1>0, <3>1, OtherFields
  <2>3. r.child \in {"running", "acted"}
    BY <1>13 DEF ChildActs, ChildExits, Alive
  <2>4. Tidy([r EXCEPT !.child = c])
    BY <1>0, <2>3 DEF Tidy, JobRecords
  <2> QED BY <2>1, <2>2, <2>4, RecordChange
<1> QED
  BY <1>6, <1>7, <1>8, <1>9, <1>10, <1>11, <1>12, <1>13 DEF JobStep, AwaitPipes

TokensOK == cancelled \in [Jobs -> BOOLEAN] /\ replaced \in BOOLEAN

RunInv == JobInv /\ TokensOK /\ acts \in [Jobs -> 0..2]

\* Types of calls, tokens and history, and that no child is left behind, are kept.
LEMMA RunStep ==
  ASSUME RunInv, CustomStep \/ UNCHANGED runVars
  PROVE  RunInv'
<1>0. JobInv /\ job \in [Jobs -> JobRecords] /\ acts \in [Jobs -> 0..2]
  BY DEF RunInv, JobInv
<1>1. ASSUME NEW j \in Jobs, JobChange(j)
      PROVE  JobInv'
  BY <1>0, <1>1 DEF JobInv, JobChange
<1>2. ASSUME NEW j \in Jobs,
             Execute(j) \/ JobStep(j) \/ AwaitPipes(j) \/ DropJob(j) \/ ChildActs(j) \/ ChildExits(j)
      PROVE  JobInv' /\ UNCHANGED <<cancelled, replaced>>
  <2>1. JobInv'
    BY <1>0, <1>1, <1>2, JobStepChange
  <2>2. UNCHANGED <<cancelled, replaced>>
    BY <1>2 DEF Execute, JobStep, AwaitPipes, DropJob, ChildActs, ChildExits, Launch, WriteStdin, WaitCancelled,
       WaitTimedOut, WaitExited, Drain, Step, End, Failed, Again
  <2> QED BY <2>1, <2>2
<1>3. ASSUME UNCHANGED job PROVE JobInv'
  BY <1>0, <1>3 DEF JobInv
<1>4. JobInv'
  BY <1>2, <1>3 DEF CustomStep, CancelJob, ReplaceBinary, runVars
<1>5. acts' \in [Jobs -> 0..2]
  <2>1. CASE UNCHANGED acts
    BY <1>0, <2>1
  <2>2. ASSUME NEW j \in Jobs, ChildActs(j) PROVE acts' \in [Jobs -> 0..2]
    BY <1>0, <2>2 DEF ChildActs
  <2>3. ASSUME NEW j \in Jobs, Execute(j) \/ DropJob(j) \/ ChildExits(j)
        PROVE  UNCHANGED acts
    BY <2>3 DEF Execute, DropJob, ChildExits, End, Step
  <2>4. ASSUME NEW j \in Jobs, JobStep(j) \/ AwaitPipes(j)
        PROVE  UNCHANGED acts
    BY <2>4 DEF JobStep, AwaitPipes, Launch, WriteStdin, WaitCancelled, WaitTimedOut, WaitExited, Drain, Step,
       End, Failed, Again
  <2>5. ASSUME ReplaceBinary \/ \E j \in Jobs : CancelJob(j)
        PROVE  UNCHANGED acts
    BY <2>5 DEF CancelJob, ReplaceBinary
  <2> QED BY <2>1, <2>2, <2>3, <2>4, <2>5 DEF CustomStep, runVars
<1>6. TokensOK'
  <2>1. CASE UNCHANGED <<cancelled, replaced>>
    BY <2>1 DEF RunInv, TokensOK
  <2>2. ASSUME NEW j \in Jobs, CancelJob(j) PROVE TokensOK'
    BY <2>2 DEF RunInv, TokensOK, CancelJob
  <2>3. CASE ReplaceBinary
    BY <2>3 DEF RunInv, TokensOK, ReplaceBinary
  <2> QED BY <1>2, <2>1, <2>2, <2>3 DEF CustomStep, runVars
<1> QED BY <1>4, <1>5, <1>6 DEF RunInv

\* Nothing has been called yet.
LEMMA RunStart == RunInit => RunInv
<1> SUFFICES ASSUME RunInit PROVE RunInv
  OBVIOUS
<1>1. 0 \in 0..MaxRestarts
  BY RestartLimit
<1>2. JobInv
  BY <1>1 DEF RunInit, JobInv, JobRecords, Places, Children, Results, Tidy
<1>3. acts \in [Jobs -> 0..2]
  BY DEF RunInit
<1>4. TokensOK
  BY Zenon DEF RunInit, TokensOK
<1> QED BY <1>2, <1>3, <1>4 DEF RunInv

\* What the runs check of the supervisor.
LEMMA RunProperties == RunInv => RunTypeOK /\ NoChildLeftBehind
BY DEF RunInv, JobInv, TokensOK, RunTypeOK, NoChildLeftBehind, JobRecords, Places, Children,
       Results, Tidy, Alive

-----------------------------------------------------------------------------
(* What is registered. *)

\* Every set of naturals that has elements and a bound has a greatest element.
LEMMA GreatestNat ==
  ASSUME NEW n \in Nat, NEW S \in SUBSET (0..n), S # {}
  PROVE  \E m \in S : \A k \in S : k <= m
<1> DEFINE D == {n - k : k \in S}
<1>1. D \in SUBSET Nat /\ D # {}
  <2>1. \A k \in S : n - k \in Nat
    OBVIOUS
  <2> QED BY <2>1
<1> HIDE DEF D
<1>2. \E d \in D : \A k \in D : <<k, d>> \notin OpToRel(<, Nat)
  BY <1>1, NatLessThanWellFounded, WFMin, Zenon
<1>3. \A k, d \in Nat : k < d => <<k, d>> \in OpToRel(<, Nat)
  BY DEF OpToRel
<1>4. \E d \in D : \A k \in D : ~(k < d)
  BY <1>1, <1>2, <1>3, Zenon
<1>5. PICK d \in D : \A k \in D : ~(k < d)
  BY <1>4
<1>6. PICK m \in S : d = n - m
  BY DEF D
<1>7. ASSUME NEW k \in S PROVE k <= m
  <2>1. n - k \in D
    BY DEF D
  <2> QED BY <1>5, <1>6, <2>1
<1> QED BY <1>7

\* The loop over the tools of an entry registers only names that are free.
LEMMA AcceptedAreFree ==
  ASSUME NEW e, NEW tools, Len(tools) \in Nat
  PROVE  /\ Accepted(e, tools) \in 0..Len(tools)
         /\ \A i \in 1..Accepted(e, tools) : NameOf(e, tools[i]) \notin DOMAIN registry
<1> DEFINE F(n) == \A i \in 1..n :
                     /\ ~Refuses(registry, e, tools[i])
                     /\ \A k \in 1..(i - 1) : NameOf(e, tools[k]) # NameOf(e, tools[i])
           fits == {n \in 0..Len(tools) : F(n)}
<1>1. 0 \in fits
  OBVIOUS
<1>2. Accepted(e, tools) = CHOOSE n \in fits : \A m \in fits : m <= n
  BY DEF Accepted
<1> HIDE DEF F
<1>3. \E n \in fits : \A m \in fits : m <= n
  BY <1>1, GreatestNat
<1>4. Accepted(e, tools) \in fits
  BY <1>2, <1>3, Zenon
<1>5. F(Accepted(e, tools)) /\ Accepted(e, tools) \in 0..Len(tools)
  BY <1>4
<1> QED BY <1>5 DEF F, Refuses

\* The strictest of a declaration and an override is "observe" only if both are.
LEMMA StrictestObserves ==
  ASSUME NEW d \in Effects, NEW local \in SUBSET Effects, \A f, g \in local : f = g,
         EffectWith(d, local) = "observe"
  PROVE  {d} \cup local \subseteq {"observe"}
<1> DEFINE all == {d} \cup local
<1>1. \A e \in Effects : Rank[e] \in Nat /\ (Rank[e] <= Rank["observe"] => e = "observe")
  BY DEF Effects, Rank
<1>2. \E e \in all : \A f \in all : Rank[f] <= Rank[e]
  <2>1. CASE \A f \in local : Rank[f] <= Rank[d]
    BY <1>1, <2>1
  <2>2. CASE \E f \in local : ~(Rank[f] <= Rank[d])
    <3>1. PICK f \in local : ~(Rank[f] <= Rank[d])
      BY <2>2
    <3>2. all = {d, f} /\ Rank[f] \in Nat /\ Rank[d] \in Nat
      BY <1>1, <3>1
    <3> QED BY <3>1, <3>2
  <2> QED BY <2>1, <2>2
<1>3. EffectWith(d, local) = CHOOSE e \in all : \A f \in all : Rank[f] <= Rank[e]
  BY DEF EffectWith, Strictest
<1>4. \A f \in all : Rank[f] <= Rank["observe"]
  BY <1>2, <1>3
<1> QED BY <1>1, <1>4

\* The policy allows without asking only what observes.
LEMMA AllowedObserves ==
  ASSUME NEW effect, NEW trusted, Decision(effect, trusted) = "allow"
  PROVE  effect = "observe"
BY DEF Decision

-----------------------------------------------------------------------------
(* The installation. *)

InstallOK ==
  /\ config \in Configs
  /\ pos \in 1..(Len(config.entries) + 1)
  /\ phase \in Phases /\ (Started => phase = "next")
  /\ attempt \in 0..5
  /\ \A n \in DOMAIN registry : registry[n].owner \in 1..Len(config.entries)
  /\ DOMAIN summaries \subseteq 1..(pos - 1)

InstallInv == InstallOK /\ SummariesOwnTheirTools /\ UnaskedToolsObserve

\* The first n tools may be registered for the present entry: their names are free,
\* and if there are any their effect is known and within the ceiling.
Admissible(n, tools) ==
  /\ \A i \in 1..n : NameOf(Entry, tools[i]) \notin DOMAIN registry
  /\ n # 0 => /\ WithinCeiling(FinalEffect(Entry), config.ceiling)
              /\ Entry.kind # "custom" => Entry.effect # {}

\* An entry that is being installed is one of the configuration.
LEMMA EntryIsOK ==
  ASSUME InstallOK, ~Started
  PROVE  pos \in 1..Len(config.entries) /\ EntryOK(Entry) /\ Len(config.entries) \in Nat
<1>1. Len(config.entries) \in Nat /\ \A i \in 1..Len(config.entries) : EntryOK(config.entries[i])
  BY ConfigsAssumption DEF InstallOK
<1>2. pos \in 1..Len(config.entries)
  BY <1>1 DEF InstallOK, Started
<1> QED BY <1>1, <1>2 DEF Entry

\* The effect a tool is registered with is no milder than any declaration of it.
LEMMA FinalEffectObserves ==
  ASSUME NEW e, EntryOK(e), FinalEffect(e) = "observe", e.kind # "custom" => e.effect # {}
  PROVE  (IF e.kind = "custom" THEN {e.declared} ELSE {}) \cup e.effect \subseteq {"observe"}
<1>1. e.declared \in Effects /\ e.effect \in SUBSET Effects /\ \A f, g \in e.effect : f = g
  BY DEF EntryOK
<1>2. CASE e.kind = "custom"
  <2>1. EffectWith(e.declared, e.effect) = "observe"
    BY <1>2 DEF FinalEffect
  <2> QED BY <1>1, <1>2, <2>1, StrictestObserves
<1>3. CASE e.kind # "custom"
  <2>1. FinalEffect(e) \in e.effect
    BY <1>3 DEF FinalEffect
  <2> QED BY <1>1, <1>3, <2>1
<1> QED BY <1>2, <1>3

\* The end of an entry's installation keeps the registry in order.
LEMMA DoneStep ==
  ASSUME InstallInv, ~Started, NEW n \in Nat, NEW tools, Admissible(n, tools), Done(n, tools)
  PROVE  InstallInv'
<1> DEFINE new == {NameOf(Entry, tools[i]) : i \in 1..n}
           entry == [owner |-> pos,
                     declared |-> IF Entry.kind = "custom" THEN {Entry.declared} ELSE {},
                     effect |-> FinalEffect(Entry), trusted |-> Entry.trusted]
<1>0. /\ InstallOK /\ SummariesOwnTheirTools /\ UnaskedToolsObserve
      /\ pos \in 1..Len(config.entries) /\ EntryOK(Entry) /\ Len(config.entries) \in Nat
  BY EntryIsOK DEF InstallInv
<1>1. /\ registry' = [name \in DOMAIN registry \cup new |-> IF name \in new THEN entry ELSE registry[name]]
      /\ pos' = pos + 1 /\ phase' = "next" /\ attempt' = 0 /\ config' = config
  BY DEF Done, Registered, NextEntry
<1>2. new \cap DOMAIN registry = {}
  BY DEF Admissible
<1>3. new # {} => n # 0
  OBVIOUS
<1> HIDE DEF new
<1>4. /\ DOMAIN registry' = DOMAIN registry \cup new
      /\ \A name \in new : registry'[name] = entry
      /\ \A name \in DOMAIN registry : registry'[name] = registry[name]
  BY <1>1, <1>2
<1>5. InstallOK'
  <2>1. \A name \in DOMAIN registry' : registry'[name].owner \in 1..Len(config'.entries)
    <3>1. entry.owner = pos
      OBVIOUS
    <3> QED BY <1>0, <1>1, <1>4, <3>1 DEF InstallOK
  <2>2. DOMAIN summaries' = DOMAIN summaries \cup {pos}
    BY DEF Done
  <2>3. DOMAIN summaries' \subseteq 1..(pos' - 1)
    BY <1>0, <1>1, <2>2 DEF InstallOK
  <2>4. pos' \in 1..(Len(config'.entries) + 1)
    BY <1>0, <1>1
  <2> QED BY <1>0, <1>1, <2>1, <2>3, <2>4 DEF InstallOK, Phases
<1>6. SummariesOwnTheirTools'
  <2>1. ASSUME NEW i \in DOMAIN summaries', NEW name \in summaries'[i].tools
        PROVE  name \in DOMAIN registry' /\ registry'[name].owner = i
    <3>1. CASE i # pos
      <4>1. i \in DOMAIN summaries /\ summaries'[i] = summaries[i]
        BY <2>1, <3>1 DEF Done
      <4>2. name \in DOMAIN registry /\ registry[name].owner = i
        BY <1>0, <2>1, <4>1 DEF SummariesOwnTheirTools
      <4> QED BY <1>4, <4>2
    <3>2. CASE i = pos
      <4>1. summaries'[pos].tools \subseteq new
        BY <2>1, <3>2 DEF Done, new
      <4>2. name \in new
        BY <2>1, <3>2, <4>1
      <4>3. entry.owner = pos
        OBVIOUS
      <4> QED BY <1>4, <3>2, <4>2, <4>3
    <3> QED BY <3>1, <3>2
  <2> QED BY <2>1 DEF SummariesOwnTheirTools
<1>7. UnaskedToolsObserve'
  <2>1. ASSUME NEW name \in new
        PROVE  /\ WithinCeiling(entry.effect, config.ceiling)
               /\ Decision(entry.effect, entry.trusted) = "allow" =>
                    entry.declared \cup config.entries[entry.owner].effect \subseteq {"observe"}
    <3>1. /\ WithinCeiling(FinalEffect(Entry), config.ceiling)
          /\ Entry.kind # "custom" => Entry.effect # {}
      BY <1>3, <2>1 DEF Admissible
    <3>2. ASSUME Decision(FinalEffect(Entry), Entry.trusted) = "allow"
          PROVE  (IF Entry.kind = "custom" THEN {Entry.declared} ELSE {}) \cup Entry.effect \subseteq {"observe"}
      BY <1>0, <3>1, <3>2, AllowedObserves, FinalEffectObserves
    <3> QED BY <3>1, <3>2 DEF Entry
  <2>2. ASSUME NEW name \in DOMAIN registry
        PROVE  /\ WithinCeiling(registry[name].effect, config.ceiling)
               /\ Decision(registry[name].effect, registry[name].trusted) = "allow" =>
                    registry[name].declared \cup config.entries[registry[name].owner].effect \subseteq {"observe"}
    BY <1>0, <2>2 DEF UnaskedToolsObserve
  <2>3. ASSUME NEW name \in DOMAIN registry'
        PROVE  /\ WithinCeiling(registry'[name].effect, config'.ceiling)
               /\ Decision(registry'[name].effect, registry'[name].trusted) = "allow" =>
                    registry'[name].declared \cup config'.entries[registry'[name].owner].effect \subseteq {"observe"}
    <3> HIDE DEF entry
    <3>1. CASE name \in new
      BY <1>1, <1>4, <2>1, <3>1
    <3>2. CASE name \in DOMAIN registry
      BY <1>1, <1>4, <2>2, <3>2
    <3> QED BY <1>4, <2>3, <3>1, <3>2
  <2> QED BY <2>3 DEF UnaskedToolsObserve
<1> QED BY <1>5, <1>6, <1>7 DEF InstallInv

\* An entry that is disabled registers nothing.
LEMMA DisabledStep ==
  ASSUME InstallInv, ~Started, Disabled
  PROVE  InstallInv'
<1>1. Admissible(0, <<NoOne>>) /\ Done(0, <<NoOne>>)
  BY DEF Admissible, Disabled
<1> QED BY <1>1, DoneStep

\* A step of the installation happens before the program has started.
LEMMA Installing == InstallOK /\ (InstallStep \/ HttpStep) => ~Started
BY DEF InstallOK, InstallStep, HttpStep, SkipEntry, RefuseKind, InstallCustom, RefuseMcp, StartServer,
       SpawnAgain, RetrySpawn, ListTools, RegisterTools, InstallHttp, HttpFails, HttpHead,
       HttpInitialize, HttpList, At

\* The tools of an entry that the loop accepts are admissible.
LEMMA AcceptedAdmissible ==
  ASSUME InstallOK, ~Started
  PROVE  /\ Accepted(Entry, Entry.tools) \in Nat
         /\ WithinCeiling(FinalEffect(Entry), config.ceiling) /\ (Entry.kind = "custom" \/ HasMetadata(Entry))
              => Admissible(Accepted(Entry, Entry.tools), Entry.tools)
<1>1. Len(Entry.tools) \in Nat
  BY EntryIsOK DEF EntryOK
<1>2. /\ Accepted(Entry, Entry.tools) \in 0..Len(Entry.tools)
      /\ \A i \in 1..Accepted(Entry, Entry.tools) : NameOf(Entry, Entry.tools[i]) \notin DOMAIN registry
  BY <1>1, AcceptedAreFree
<1> QED BY <1>1, <1>2 DEF Admissible, HasMetadata

\* So are those of an MCP server, none of them if the ceiling is lower.
LEMMA RegistrableAdmissible ==
  ASSUME InstallOK, ~Started, HasMetadata(Entry)
  PROVE  Registrable(Entry) \in Nat /\ Admissible(Registrable(Entry), Entry.tools)
<1>1. CASE WithinCeiling(FinalEffect(Entry), config.ceiling)
  BY <1>1, AcceptedAdmissible DEF Registrable
<1>2. CASE ~WithinCeiling(FinalEffect(Entry), config.ceiling)
  <2>1. Registrable(Entry) = 0
    BY <1>2 DEF Registrable
  <2> QED BY <2>1 DEF Admissible
<1> QED BY <1>1, <1>2

\* Every step of the installation keeps its invariant.
LEMMA InstallStepInv ==
  ASSUME InstallInv, InstallStep \/ HttpStep
  PROVE  InstallInv'
<1>0. /\ InstallOK /\ ~Started /\ SummariesOwnTheirTools /\ UnaskedToolsObserve
      /\ pos \in 1..Len(config.entries) /\ EntryOK(Entry) /\ Len(config.entries) \in Nat
  BY Installing, EntryIsOK DEF InstallInv
<1>1. CASE Disabled
  BY <1>0, <1>1, DisabledStep
<1>2. ASSUME HasMetadata(Entry), Done(Registrable(Entry), Entry.tools)
      PROVE  InstallInv'
  BY <1>0, <1>2, RegistrableAdmissible, DoneStep
<1>3. ASSUME phase' \in Phases, attempt' \in 0..5, UNCHANGED <<config, pos, registry, summaries>>
      PROVE  InstallInv'
  <2>1. InstallOK'
    BY <1>0, <1>3 DEF InstallOK, Started
  <2>2. SummariesOwnTheirTools' /\ UnaskedToolsObserve'
    BY <1>0, <1>3 DEF SummariesOwnTheirTools, UnaskedToolsObserve
  <2> QED BY <2>1, <2>2 DEF InstallInv
<1>4. CASE SkipEntry
  <2>1. InstallOK'
    BY <1>0, <1>4 DEF SkipEntry, NextEntry, InstallOK, Phases
  <2>2. SummariesOwnTheirTools' /\ UnaskedToolsObserve'
    BY <1>0, <1>4 DEF SkipEntry, NextEntry, SummariesOwnTheirTools, UnaskedToolsObserve
  <2> QED BY <2>1, <2>2 DEF InstallInv
<1>5. CASE InstallCustom
  <2>1. CASE ~CustomRefused /\ Done(Accepted(Entry, Entry.tools), Entry.tools)
    <3>1. Entry.kind = "custom" /\ WithinCeiling(FinalEffect(Entry), config.ceiling)
      BY <1>5, <2>1 DEF InstallCustom, CustomRefused, FinalEffect
    <3> QED BY <1>0, <2>1, <3>1, AcceptedAdmissible, DoneStep
  <2> QED BY <1>1, <1>5, <2>1 DEF InstallCustom
<1>6. CASE RefuseKind \/ RefuseMcp
  BY <1>1, <1>6 DEF RefuseKind, RefuseMcp
<1>7. attempt \in 0..5
  BY <1>0 DEF InstallOK
<1>8. CASE StartServer \/ ListTools
  BY <1>3, <1>7, <1>8 DEF StartServer, ListTools, Phases
<1>9. CASE SpawnAgain
  <2>1. CASE /\ attempt < SpawnLimit /\ attempt' = attempt + 1
             /\ UNCHANGED <<config, pos, phase, registry, summaries>>
    <3>1. SpawnLimit <= 5 /\ SpawnLimit \in Nat
      BY <1>0 DEF SpawnLimit, EntryOK
    <3>2. attempt' \in 0..5
      BY <1>7, <2>1, <3>1
    <3>3. phase' \in Phases
      BY <1>0, <2>1 DEF InstallOK
    <3> QED BY <1>3, <2>1, <3>2, <3>3
  <2> QED BY <1>1, <1>9, <2>1 DEF SpawnAgain, RetrySpawn
<1>10. CASE RegisterTools
  BY <1>1, <1>2, <1>10 DEF RegisterTools
<1>11. CASE InstallHttp \/ HttpFails \/ HttpHead \/ HttpInitialize \/ HttpList
  BY <1>1, <1>2, <1>3, <1>7, <1>11 DEF InstallHttp, HttpFails, HttpHead, HttpInitialize, HttpList, Phases
<1> QED
  BY <1>4, <1>5, <1>6, <1>8, <1>9, <1>10, <1>11 DEF InstallStep, HttpStep

\* To a session, a step of the installation is a start, the next request, or the end.
LEMMA InstallOfSession ==
  ASSUME CallsFresh, InstallStep \/ HttpStep
  PROVE  QuietStep /\ UNCHANGED runVars
<1>1. QuietStep
  BY DEF QuietStep, SetupStep, InstallStep, HttpStep, SkipEntry, RefuseKind, InstallCustom, RefuseMcp,
       StartServer, SpawnAgain, RetrySpawn, ListTools, RegisterTools, InstallHttp, HttpFails,
       HttpHead, HttpInitialize, HttpList
<1>2. UNCHANGED runVars
  BY DEF InstallStep, HttpStep, SkipEntry, RefuseKind, InstallCustom, RefuseMcp,
       StartServer, SpawnAgain, RetrySpawn, ListTools, RegisterTools, InstallHttp, HttpFails,
       HttpHead, HttpInitialize, HttpList
<1> QED BY <1>1, <1>2

-----------------------------------------------------------------------------
(* All together: while the program starts, no tool is called. *)

Inv ==
  /\ InstallInv /\ SessionInv /\ RunInv
  /\ ~Started => CallsFresh

\* The program starts with nothing installed.
LEMMA InvInit == Init => Inv
<1> SUFFICES ASSUME Init PROVE Inv
  OBVIOUS
<1>1. SessionInv /\ CallsFresh /\ RunInv
  BY SessionInit, RunStart DEF Init
<1>2. Len(config.entries) \in Nat
  BY ConfigsAssumption DEF Init
<1>3. InstallOK
  BY <1>2 DEF Init, InstallOK, Phases
<1>4. SummariesOwnTheirTools /\ UnaskedToolsObserve
  BY DEF Init, SummariesOwnTheirTools, UnaskedToolsObserve
<1> QED BY <1>1, <1>3, <1>4 DEF Inv, InstallInv

\* Every step keeps the invariant.
LEMMA InvStep == Inv /\ [Next]_vars => Inv'
<1> SUFFICES ASSUME Inv, [Next]_vars PROVE Inv'
  OBVIOUS
<1>0. InstallInv /\ SessionInv /\ RunInv /\ (~Started => CallsFresh)
  BY DEF Inv
<1>1. ASSUME UNCHANGED installVars PROVE InstallInv' /\ (Started' <=> Started)
  BY <1>0, <1>1 DEF installVars, InstallInv, InstallOK, Started, SummariesOwnTheirTools,
     UnaskedToolsObserve
<1>2. ASSUME UNCHANGED mcpVars PROVE SessionInv' /\ (CallsFresh => CallsFresh')
  <2>1. QuietStep /\ SessionStep
    BY <1>2 DEF QuietStep, SessionStep
  <2> QED BY <1>0, <2>1, SessionStepInv, FreshStep
<1>3. CASE InstallStep \/ HttpStep
  <2>1. ~Started /\ CallsFresh
    BY <1>0, <1>3, Installing DEF InstallInv
  <2>2. QuietStep /\ SessionStep /\ UNCHANGED runVars
    BY <1>3, <2>1, InstallOfSession DEF SessionStep
  <2>3. SessionInv' /\ CallsFresh'
    BY <1>0, <2>1, <2>2, SessionStepInv, FreshStep
  <2>4. RunInv'
    BY <1>0, <2>2, RunStep
  <2> QED BY <1>0, <1>3, <2>3, <2>4, InstallStepInv DEF Inv
<1>4. CASE McpStep /\ UNCHANGED <<installVars, runVars>>
  <2>1. SessionStep
    BY <1>4 DEF McpStep, SessionStep, QuietStep
  <2>2. ~Started => QuietStep
    BY <1>4 DEF McpStep, QuietStep
  <2>3. SessionInv' /\ (~Started => CallsFresh')
    BY <1>0, <2>1, <2>2, SessionStepInv, FreshStep
  <2>4. RunInv'
    BY <1>0, <1>4, RunStep
  <2> QED BY <1>1, <1>4, <2>3, <2>4 DEF Inv
<1>5. CASE CustomStep /\ UNCHANGED <<installVars, mcpVars>>
  <2>1. RunInv'
    BY <1>0, <1>5, RunStep
  <2> QED BY <1>0, <1>1, <1>2, <1>5, <2>1 DEF Inv
<1>6. CASE UNCHANGED vars
  <2>1. UNCHANGED installVars /\ UNCHANGED mcpVars /\ UNCHANGED runVars
    BY <1>6 DEF vars
  <2>2. RunInv'
    BY <1>0, <2>1, RunStep
  <2> QED BY <1>0, <1>1, <1>2, <2>1, <2>2 DEF Inv
<1> QED BY <1>3, <1>4, <1>5, <1>6 DEF Next

\* It holds all the time.
LEMMA InvAlways == Spec => []Inv
BY InvInit, InvStep, PTL DEF Spec

\* Installation, session and supervised children keep their types: restarts of servers
\* and children stay within their limits, every owner of a tool is an entry of the
\* configuration.
THEOREM TypeCorrect == Spec => []TypeOK
<1>1. Inv => TypeOK
  BY SessionProperties, RunProperties DEF Inv, InstallInv, InstallOK, TypeOK
<1> QED BY <1>1, InvAlways, PTL

\* What a request on a stdio session is given is the server's answer to this request,
\* however calls of other threads, dropped calls and late answers interleave (request).
THEOREM AnswersAreOwn == Spec => []AnswerIsOwn
<1>1. Inv => AnswerIsOwn
  BY SessionProperties DEF Inv
<1> QED BY <1>1, InvAlways, PTL

\* Only a call dropped inside an answer, in its header or before the end of its body,
\* takes the client out of step with the stream (read).
THEOREM LostByCutOnly == Spec => []LostOnlyByCut
<1>1. Inv => LostOnlyByCut
  BY SessionProperties DEF Inv
<1> QED BY <1>1, InvAlways, PTL

\* No child outlives its attempt (start_kill, kill_on_drop).
THEOREM ChildrenGone == Spec => []NoChildLeftBehind
<1>1. Inv => NoChildLeftBehind
  BY RunProperties DEF Inv
<1> QED BY <1>1, InvAlways, PTL

\* Every capability a summary lists is registered, and by its own extension
\* (install_into, ToolRegistry::register).
THEOREM SummariesTrue == Spec => []SummariesOwnTheirTools
<1>1. Inv => SummariesOwnTheirTools
  BY DEF Inv, InstallInv
<1> QED BY <1>1, InvAlways, PTL

\* What runs without an approval only observes, by every declaration there is of it, and
\* nothing is above the ceiling of the workspace (apply_strictest,
\* enforce_workspace_ceiling, evaluate_capability).
THEOREM UnaskedObserve == Spec => []UnaskedToolsObserve
<1>1. Inv => UnaskedToolsObserve
  BY DEF Inv, InstallInv
<1> QED BY <1>1, InvAlways, PTL

=============================================================================
