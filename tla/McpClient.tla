------------------------------ MODULE McpClient ------------------------------
(***************************************************************************)
(* A stdio MCP session (extensions/mcp.rs): one child process, one client  *)
(* behind a mutex, JSON-RPC frames of a header and a body in both          *)
(* directions. The client numbers its requests and skips every answer that *)
(* is not its own. It reads a header line by line and then the body, each  *)
(* an await of its own. A tool call is a future that the runtime drops at  *)
(* a timeout or a cancellation, wherever it is: between the parts of a     *)
(* frame and inside a part too, and the next call goes on with the streams *)
(* as they are. The server is external: it answers in any order, sends     *)
(* notifications but no requests of its own, stays silent or exits. It     *)
(* writes a body as one line of JSON without a newline after it.           *)
(***************************************************************************)
EXTENDS Naturals, Sequences, SequencesExt

CONSTANTS Calls,       \* tool calls of all threads
          Setup,       \* the installation, which makes requests of its own
          NoOne,
          MaxNotices   \* bound: notifications the server sends

ASSUME McpAssumption == /\ Setup \notin Calls /\ NoOne \notin Calls \cup {Setup}
                        /\ MaxNotices \in Nat

VARIABLES server,    \* the child process: "none", "up" or "down"
          inbox,     \* frame parts on their way to the server
          outbox,    \* frame parts on their way to the client
          accepted,  \* requests the server has read and not answered
          nextId,
          lock,      \* the client's mutex: its holder, then who waits for it
          req,       \* [at, id] of every requester
          got,       \* how its request ended, and whose answer it was given
          cut,       \* history: a call was dropped inside an answer
          notices    \* history: notifications so far

mcpVars == <<server, inbox, outbox, accepted, nextId, lock, req, got, cut, notices>>

Requesters == Calls \cup {Setup}
Nothing == [is |-> "nothing", from |-> NoOne]

\* What the pipes carry: headers and bodies of requests; lines of headers, rests of such
\* lines, and bodies of answers.
PartNames == {"head", "length", "rest", "blank", "body"}

\* A frame as the client writes it: its header and its body. Who asked belongs to
\* the body.
Frame(id, from, ok) == << [part |-> "head", id |-> id, from |-> from, ok |-> ok],
                          [part |-> "body", id |-> id, from |-> from, ok |-> ok] >>

\* A frame as the client reads it: the Content-Length line, the blank line, the body.
Answer(id, from, ok) == << [part |-> "length", id |-> id, from |-> from, ok |-> ok],
                           [part |-> "blank", id |-> id, from |-> from, ok |-> ok],
                           [part |-> "body", id |-> id, from |-> from, ok |-> ok] >>

McpTypeOK ==
    /\ server \in {"none", "up", "down"}
    /\ \A i \in DOMAIN inbox : inbox[i].part \in PartNames
    /\ \A i \in DOMAIN outbox : outbox[i].part \in PartNames /\ outbox[i].id < nextId
    /\ lock \in Seq(Requesters)
    /\ \A r \in Requesters :
          /\ req[r].at \in {"idle", "queued", "head", "body",
                            "wait", "length", "payload", "glued", "ended"}
          /\ req[r].id < nextId
          /\ got[r].is \in {"nothing", "answer", "refused", "error", "framing", "dropped"}
    /\ cut \in BOOLEAN /\ notices \in 0..MaxNotices

McpInit ==
    /\ server = "none" /\ inbox = <<>> /\ outbox = <<>> /\ accepted = {}
    /\ nextId = 1 /\ lock = <<>> /\ cut = FALSE /\ notices = 0
    /\ req = [r \in Requesters |-> [at |-> "idle", id |-> 0]]
    /\ got = [r \in Requesters |-> Nothing]

Active(r) == req[r].at \notin {"idle", "ended"}
Holds(r) == lock # <<>> /\ lock[1] = r

\* Where a request is among those that have or want the mutex.
Place(r) == CHOOSE i \in DOMAIN lock : lock[i] = r

\* The request's future has ended: the mutex guard, or its place among those who
\* wait for it, goes with it.
Finish(r, outcome) ==
    /\ req' = [req EXCEPT ![r].at = "ended"]
    /\ got' = [got EXCEPT ![r] = outcome]
    /\ lock' = RemoveAt(lock, Place(r))
Fail(r, how) == Finish(r, [is |-> how, from |-> NoOne])

-----------------------------------------------------------------------------
(* The client. *)

\* McpStdioClient::spawn up to its first request: new pipes, ids from 1.
Spawn ==
    /\ server' = "up" /\ inbox' = <<>> /\ outbox' = <<>> /\ accepted' = {} /\ nextId' = 2
    /\ lock' = <<Setup>>
    /\ req' = [req EXCEPT ![Setup] = [at |-> "head", id |-> 1]]
    /\ got' = [got EXCEPT ![Setup] = Nothing]
    /\ UNCHANGED <<cut, notices>>

\* initialize has been answered: the client notifies initialized and goes on to
\* the request for the list of tools.
NotifyInitialized ==
    /\ server = "up"
    /\ inbox' = inbox \o Frame(0, Setup, TRUE)
    /\ nextId' = nextId + 1
    /\ lock' = <<Setup>>
    /\ req' = [req EXCEPT ![Setup] = [at |-> "head", id |-> nextId]]
    /\ got' = [got EXCEPT ![Setup] = Nothing]
    /\ UNCHANGED <<server, outbox, accepted, cut, notices>>

\* Drop for McpStdioClient.
KillServer == /\ server' = "down"
              /\ UNCHANGED <<inbox, outbox, accepted, nextId, lock, req, got, cut, notices>>

\* McpTool::execute: queue for the client, ...
CallTool(c) ==
    /\ req[c].at = "idle"
    /\ req' = [req EXCEPT ![c].at = "queued"]
    /\ lock' = Append(lock, c)
    /\ UNCHANGED <<server, inbox, outbox, accepted, nextId, got, cut, notices>>

\* ... take the next id, ...
Request(c) ==
    /\ req[c].at = "queued" /\ Holds(c)
    /\ req' = [req EXCEPT ![c] = [at |-> "head", id |-> nextId]]
    /\ nextId' = nextId + 1
    /\ UNCHANGED <<server, inbox, outbox, accepted, lock, got, cut, notices>>

\* ... and write the frame; a pipe without a reader refuses it.
WritePart(r, part, next) ==
    /\ req[r].at = part
    /\ \/ /\ server = "up"
          /\ LET f == Frame(req[r].id, r, TRUE)
             IN  inbox' = Append(inbox, IF part = "head" THEN f[1] ELSE f[2])
          /\ req' = [req EXCEPT ![r].at = next]
          /\ UNCHANGED <<lock, got>>
       \/ server = "down" /\ Fail(r, "error") /\ UNCHANGED inbox
    /\ UNCHANGED <<server, outbox, accepted, nextId, cut, notices>>
WriteHead(r) == WritePart(r, "head", "body")
WriteBody(r) == WritePart(r, "body", "wait")

\* The client takes the first part of what the server wrote and goes on at next.
ReadPart(r, next) ==
    /\ outbox' = Tail(outbox)
    /\ req' = [req EXCEPT ![r].at = next]
    /\ UNCHANGED <<server, inbox, accepted, nextId, lock, got, cut, notices>>

\* read: a line announces the length, which is kept in a local variable; ...
ReadLength(r) ==
    /\ req[r].at = "wait" /\ outbox # <<>> /\ Head(outbox).part = "length"
    /\ ReadPart(r, "length")

\* ... the blank line ends the headers; without a length it is an error.
\* Faulty form first: an answer that is not the request's own is skipped by its
\* header, its body is left.
ReadBlankSkipping(r) ==
    /\ req[r].at \in {"wait", "length"} /\ outbox # <<>> /\ Head(outbox).part = "blank"
    /\ \/ /\ req[r].at = "length"
          /\ ReadPart(r, IF Head(outbox).id = req[r].id THEN "payload" ELSE "wait")
       \/ /\ req[r].at = "wait"
          /\ outbox' = Tail(outbox) /\ Fail(r, "framing")
          /\ UNCHANGED <<server, inbox, accepted, nextId, cut, notices>>
ReadBlank(r) ==
    /\ req[r].at \in {"wait", "length"} /\ outbox # <<>> /\ Head(outbox).part = "blank"
    /\ \/ req[r].at = "length" /\ ReadPart(r, "payload")
       \/ /\ req[r].at = "wait"
          /\ outbox' = Tail(outbox) /\ Fail(r, "framing")
          /\ UNCHANGED <<server, inbox, accepted, nextId, cut, notices>>

\* What an earlier call left of a Content-Length line is a line like any other.
ReadRest(r) ==
    /\ req[r].at = "wait" /\ outbox # <<>> /\ Head(outbox).part = "rest"
    /\ ReadPart(r, "wait")

\* A body whose header an earlier call consumed has no newline: read_line takes
\* it as the beginning of a line ...
ReadGlued(r) ==
    /\ req[r].at = "wait" /\ outbox # <<>> /\ Head(outbox).part = "body"
    /\ ReadPart(r, "glued")

\* ... that ends with the next Content-Length line and announces nothing.
ReadGluedLine(r) ==
    /\ req[r].at = "glued" /\ outbox # <<>>
    /\ ReadPart(r, "wait")

\* The body: the request's own answer ends it, anything else is skipped.
ReadBodyFor(r, own) ==
    /\ req[r].at = "payload"
    /\ outbox # <<>>
    /\ outbox' = Tail(outbox)
    /\ IF own
       THEN Finish(r, [is |-> IF Head(outbox).ok THEN "answer" ELSE "refused",
                       from |-> Head(outbox).from])
       ELSE /\ req' = [req EXCEPT ![r].at = "wait"]
            /\ UNCHANGED <<lock, got>>
    /\ UNCHANGED <<server, inbox, accepted, nextId, cut, notices>>
\* Faulty form of the next: any answer will do.
ReadFirstBody(r) == ReadBodyFor(r, outbox # <<>> /\ Head(outbox).id # 0)
ReadBody(r) == ReadBodyFor(r, outbox # <<>> /\ Head(outbox).id = req[r].id)

ReadClosed(r) ==
    /\ req[r].at \in {"wait", "length", "payload", "glued"} /\ outbox = <<>> /\ server = "down"
    /\ Fail(r, "error")
    /\ UNCHANGED <<server, inbox, outbox, accepted, nextId, cut, notices>>

\* What read_line and read_exact leave when they are dropped: the stream as it is, or
\* without the beginning of its first part. Of a Content-Length line that leaves some
\* other line, or its end only; the rest of a blank line or a body is one still.
Torn(s) == IF s # <<>> /\ Head(s).part \in {"length", "rest"}
           THEN {[s EXCEPT ![1].part = p] : p \in {"rest", "blank"}} ELSE {}
Leftovers(c) ==
    {outbox} \cup (IF req[c].at \in {"wait", "length", "payload", "glued"} THEN Torn(outbox) ELSE {})

\* The future is dropped: the tool's own timeout, the runtime's, or a cancellation,
\* waiting for the mutex included. What it had read of an answer is lost with it; a
\* header it had written without its body, or a part of either, spoils the next frame.
DropIf(c, droppable) ==
    /\ c \in Calls /\ droppable
    /\ Fail(c, "dropped")
    /\ outbox' \in Leftovers(c)
    /\ cut' = (cut \/ req[c].at \in {"length", "payload", "glued"} \/ outbox' # outbox)
    /\ UNCHANGED <<server, inbox, accepted, nextId, notices>>
\* Faulty form of the next: the timeout is only for the mutex.
DropQueuedCall(c) == DropIf(c, req[c].at = "queued")
DropCall(c) == DropIf(c, Active(c))

ClientStep(r) ==
    \/ Request(r) \/ WriteHead(r) \/ WriteBody(r)
    \/ ReadLength(r) \/ ReadBlank(r) \/ ReadRest(r) \/ ReadGlued(r) \/ ReadGluedLine(r)
    \/ ReadBody(r) \/ ReadClosed(r)

-----------------------------------------------------------------------------
(* The server, external. *)

\* It reads a whole frame; a header that another header follows spoils both.
ServerReads ==
    /\ server = "up" /\ inbox # <<>>
    /\ \/ /\ Head(inbox).part = "body"
          /\ inbox' = Tail(inbox) /\ UNCHANGED accepted
       \/ /\ Len(inbox) > 1 /\ Head(inbox).part = "head" /\ inbox[2].part = "body"
          /\ inbox' = Tail(Tail(inbox))
          /\ accepted' = IF inbox[1].id = 0 THEN accepted
                         ELSE accepted \cup {[id |-> inbox[1].id, from |-> inbox[1].from]}
       \/ /\ Len(inbox) > 1 /\ Head(inbox).part = "head" /\ inbox[2].part = "head"
          /\ inbox' = Tail(Tail(inbox)) /\ UNCHANGED accepted
    /\ UNCHANGED <<server, outbox, nextId, lock, req, got, cut, notices>>

ServerAnswers(q, ok) ==
    /\ server = "up" /\ q \in accepted
    /\ outbox' = outbox \o Answer(q.id, q.from, ok)
    /\ accepted' = accepted \ {q}
    /\ UNCHANGED <<server, inbox, nextId, lock, req, got, cut, notices>>

ServerNotifies ==
    /\ server = "up" /\ notices < MaxNotices
    /\ outbox' = outbox \o Answer(0, NoOne, TRUE)
    /\ notices' = notices + 1
    /\ UNCHANGED <<server, inbox, accepted, nextId, lock, req, got, cut>>

ServerExits ==
    /\ server = "up"
    /\ server' = "down"
    /\ UNCHANGED <<inbox, outbox, accepted, nextId, lock, req, got, cut, notices>>

ServerStep == ServerReads \/ (\E q \in accepted, ok \in BOOLEAN : ServerAnswers(q, ok))

-----------------------------------------------------------------------------
(* Properties. *)

\* The answer a request is given is the server's answer to this request: not the
\* late answer to a call that was dropped before it, nor one for another thread that
\* shares the client (request compares ids and reads on). The server is taken to send
\* no requests of its own: request would take one with the same id for its answer.
AnswerIsOwn == \A r \in Requesters : got[r].is \in {"answer", "refused"} => got[r].from = r

\* A call fails for want of a Content-Length only because an earlier one was dropped
\* inside an answer: in a line of its header, between two, or before the body was
\* read to its end. Answers that are skipped, notifications, and calls dropped
\* before an answer begins, in the middle of writing too, leave the client in step.
LostOnlyByCut == (\E r \in Requesters : got[r].is = "framing") => cut
=============================================================================
