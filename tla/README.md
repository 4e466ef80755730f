# OpsCodex: TLA+ models, model checking and proofs

OpsCodex is a local-first AIOps agent runtime: one Rust process (`src/src/`) that
runs an agent loop of model and tool calls per thread, keeps every event in
SQLite, streams events to clients over SSE, asks operators for approval, and can
carry out structured remediation actions against a demo service or a Kubernetes
workload. This directory holds TLA+ modules translated from that code, TLC
configurations that check them on small instances, and TLAPS proofs of the
results that matter most for every instance.

## 1. The system

| Component | State it keeps | Operations | What makes it correct |
|---|---|---|---|
| Remediation (`runtime/remediation.rs`, `action/`) | `actions` and `audit` tables, kill switch and mutation count in memory | propose, approve, execute, kill switch, recovery | a change is made only as approved, at most once, and the record, the audit log and the events never tell a different story |
| Agent turn (`runtime/agent.rs`, `runtime/recovery.rs`) | `turns`, `checkpoints`, `leases`, `resume_ops`; the running task, the turn slots | create, step loop, tools, close, interrupt, resume, recover | no unrepeatable tool runs twice, results are recorded once, turns end |
| Approvals (`policy/mod.rs`) | `approvals` table; the broker's one-shot channels | request, restore, resolve, time out | a tool that asks runs only with its own consent |
| Event stream (`store/sqlite.rs`, `server/sse.rs`, `server/mod.rs`) | `events` table; a broadcast channel of 256 per thread | append, send, subscribe, replay, lag, refill | clients get every event, once, in order |
| Threads in the store (`store/sqlite.rs`, `store/projection.rs`) | `events`, `threads` (status, title, lineage) | create, append, fork; status, items and model items computed from the log | columns and log differ only by what recovery wrote, a fork keeps its parent's past |
| Context (`runtime/context.rs`, `maybe_compact`) | none (events) | pair, trim, compact | a call and its result stay together, the budget holds, compaction advances |
| JSONL store and migration (`store/jsonl.rs`, `store/migrate.rs`) | one file per thread; the database file and its lock | create, append, repair, read; list, import, move | nothing acknowledged is lost by a torn write, a crash or a repetition |
| Extensions (`extensions/`, `tools/registry.rs`) | registry, catalog, child processes, stdio sessions | install, call, restart, cancel | answers matched to requests, bounded restarts, no child left behind, no effect talked down |
| Evidence and topology (`evidence/`, `topology.rs`) | artifacts on disk; the graph is computed from the log | store, refer, excerpt; project, query | a reference leads to its content, the graph is what was seen |
| Connectors, model providers, workspaces, runbooks, config, CLI, telemetry, web, demo | mostly none | I/O, parsing, formatting | tested directly; constants or arbitrary outcomes of the modules here |

How they interact. HTTP handlers (axum) and spawned turn tasks (tokio) run
concurrently and share the store, the approval broker, the set of active turns
and the broadcast channels. The store has one connection behind a mutex, so each
store call is atomic and nothing larger is, unless the code opens a transaction.
An operator's decision reaches a waiting turn through the approvals table *and*
through the broker. The process can die between any two store calls;
`AgentRuntime::recover` runs to its end before the server listens. A handler is
dropped in the middle when its client goes away; a turn is not, since it is a
task of its own.

What is hard here: reads and unconditional writes of whole records with other
handlers in between, patches that arrive after their sender gave up, crashes
between an event and the checkpoint that goes with it, timeouts that race
answers, subscribers that lag, lines and artifacts that are half written,
futures dropped in the middle of a frame, children that act and then fail, and
waits without a limit: for the body of an answer, a turn slot, an approval after a
resume, a silent server, a child's pipes. `PROJECT.json` lists each hazard at its line with
the properties aimed at it.

## 2. Modules

| Module | Models | Used by |
|---|---|---|
| `ActionStatus` | the status machine of `action/mod.rs` | the next two |
| `ActionLifecycle` | abstract specification: what an action may ever do | refinement target of `Remediation` |
| `Remediation` | propose, approve, execute, verify, recover; targets and network | `MCRemediation`, `RemediationProofs` |
| `Turn` | one turn: slot, loop, tools, approvals, checkpoints, lease, resume, recovery | `MCTurn`, `TurnProofs` |
| `EventStream` | one thread's log, its broadcast channel, its subscribers | `MCEventStream`, `EventStreamProofs` |
| `Selections` | what the filters of the code keep of a sequence | `Projection`, `Topology` |
| `Projection` | the views of a log: status, items, model context, compaction range | `ThreadLog` |
| `ThreadLog` | threads, their columns, forks, the events of turns, restarts and resumed turns | `MCThreadLog`, `ThreadLogProofs` |
| `EventLog` | abstract specification: a log that grows at its end | refinement target of `JsonlStore` |
| `JsonlStore` | the files, written piece by piece | `Migration` |
| `Migration` | the migrating process beside servers on either store | `MCMigration`, `MigrationProofs` |
| `Capability` | effects, ceilings and the policy's decision | `Extensions` |
| `McpClient` | a stdio session: frames, ids, the client's mutex, dropped calls | `Extensions` |
| `Supervisor` | a custom tool: children, retries, cancellation | `Extensions` |
| `Extensions` | installation, then calls: the composition of the three | `MCExtensions`, `ExtensionsProofs` |
| `Topology` | the graph, the excerpt of large results, the query | `Evidence` |
| `Evidence` | results on their way into the log, the artifact store | `MCEvidence`, `EvidenceProofs` |
| `MC*` | values of constants and symmetry for TLC | the runs |
| `SequenceLaws` | lemmas: folds, selections, positions, counting | `ThreadLogProofs`, `EvidenceProofs` |
| `RemediationProofs`, `TurnProofs`, `EventStreamProofs`, `ThreadLogProofs`, `MigrationProofs`, `ExtensionsProofs`, `EvidenceProofs` | theorems about the module of that name | |

Definitions named `...Unpinned`, `...Skipped` and so on, marked *Faulty form*, are
plausible bugs: putting one in the place of the definition after it must break a
property (`PROJECT.json`, `mutants`).

### Remediation

Each element of `Requests` is an HTTP handler in progress. `pc[r]` is where it
is, `on[r]` its action, `copy[r]` the record it has read and modified, `todo[r]`
the store calls (put, audit, emit, in this order) it makes before it goes on.
Taking `approve_action` as an example: `ApproveAction` reads the record, checks
status, expiry, consumption and hashes (`MayDecide`), and sets the copy;
`PutAction`, `AppendAudit` and `EmitAction` are the three store calls that
follow, each a step of its own.

| Code | Actions |
|---|---|
| `propose_action_plan` | `ProposeActionPlan`, `DryRunFailed`, `DryRunUncertain`, `DryRunPassed` |
| `approve_action`, `expire_if_needed` | `ApproveAction`, `ApproveTooLate` |
| `execute_action`, `claim_action_for_execution` | `ExecuteAction`, `ClaimAction`, `ClaimExpired`, `ClaimRefused`, `PreconditionsHold`, `PreconditionsFailed` |
| `run_action`, `execute_k8s_scale`, `execute_demo_fault` | `RunnerRead`, `RunnerReadFailed`, `SendChange`, `ChangeAccepted`, `ChangeRefused`, `ChangeTimedOut`, `VerifyFailed`, `Verify` |
| `put_action`, `append_audit`, `emit_action` | `PutAction`, `AppendAudit`, `EmitAction` |
| `recover` (actions), `build_runtime` | `Restart`, `RecoverAction`, `RecoverAnnounce`, `Serve` |
| `set_kill_switch` | `SetKillSwitch` |
| outside the code | `ApplyChange`, `RefuseChange`, `TargetDrifts`, `ApprovalExpires`, `DropRequest`, `Crash` |

A request hash is the tuple of what it covers, so it is injective, as SHA-256 is
taken to be. The object's `resourceVersion` (with its UID) is a number; the
Kubernetes API refuses a patch that names another one. A change request on `wire`
stays there until the target applies or refuses it, also when nobody waits for
the answer any more (`Forsake`). `sent`, `applied`, `granted` and `dropped` are
history variables. A handler is `Exchanging` while it talks to a target: the head
of the answer has a time limit (`send_json`, `patch_replicas`), the body has none
(`read_bounded_body`), so nothing makes the exchange end.

### Turn

The runner is the task that executes a fresh turn (`mode = "fresh"`) or a resume
of it; `ActiveTurns` and `active_threads` admit one at a time, so the module has
one. Every location of `pc` lies between two store calls of
`run_turn`, `run_turn_inner`, `execute_tool`, `emit_tool_result` or
`resume_pending_tool`. Operators are handlers of `resolve_approval` in three
steps: read, put, notify. `mailbox` is the broker: an entry whose waiter listens
(`waiting`), one whose waiter has gone (`dead`), a decision that is on its way
(`yes`, `no`). The model's answer, the tool's outcome and the operators' decisions
are arbitrary. A store call that fails ends the runner like a crash without the
loss of the process; the module has the crash. `SchemaMayDiffer` lets a restarted
process find another schema for a pending tool. Turns of other threads appear as
the permits of `turn_slots` they hold (`others`, `OtherTurnStarts`,
`OtherTurnEnds`): a fresh turn waits for a permit or its cancellation (`Admit`,
`CancelledBeforeAdmission`), a resumed one for a permit only (`Readmit`), and both
keep it as long as they run, the wait for an approval included.

### EventStream

`log` is the thread's rows, `channel` the last `Capacity` events sent,
`sub[s].unread` what a receiver has not read yet (more than `Capacity` means that
it lags). A turn appends and sends (`emit`); an action handler reads `last_seq`,
appends, and only after it has succeeded sends everything later than that
(`publish_new_events`). `thread_events` subscribes first, then replays, then
follows, and goes back to the store after a lag. A client that reconnects sends
the last id it received.

### Projection and ThreadLog

A log is a sequence of events and an event's seq its position; an item of the
model's context is named by the seq it comes from. `StatusAfter`, `ApplyEvent`,
`ModelItems`, `DropUnpaired`, `TrimPairSafeSuffix`, `CompactionRange` and
`Inheritable` translate the functions of those names, `Keep` is the loop that
selects positions; an item weighs 1, a tool's
output 2. `ThreadLog` adds the store: `AppendEvents` keeps the columns as
`append_event` does, `ForkThread` writes a child in one transaction, and a turn
appends in the order of `run_turn_inner`, compacting at the start of every step,
and may be cancelled or fail at any point (`TurnBreaksOff`), be refused by
`run_turn` before it starts (`TurnRefused`), or be cut off by the death of the
process. Actions report their statuses in between.

`Restart` is that death and the recovery that follows it. A turn that stops leaves
its row open (`open`) together with how it can go on, which is what
`classify_checkpoint` makes of the last checkpoint and the log (`Hows`, `StopsAs`);
where the checkpoint is written after the event, both values are possible.
`upsert_turn` then sets the status column of the thread to the class of the turn,
`waiting_approval`, `needs_reconciliation` or `interrupted`, and appends no event
(`Recover`); of several open turns of a thread any may be the last. The history
variable `recovered` remembers what was written, until an event that gives a status
(`SetsStatus`) replaces it. `ResumeTurn` goes on from an open row, with the pending
call if there is one (`PendingCompleted`); a resumed turn that breaks off says
nothing, and its row stays open (`ResumedTurnBreaksOff`). `run_turn` closes a row
with `completed`, `cancelled` or `failed`, none of which `upsert_turn` copies to the
thread: the error `NeedsReconciliation` comes from resumed turns only, which have no
closing write.

`ContextIsLongestFit` compares the trimming loop with
a definition that does not mention pairs: of all suffixes that fit and have every
result after its call, the longest.

### JsonlStore and Migration

A file is its complete lines and the bytes after the last newline, which are
nothing, an event that lacks its newline, or something that does not parse.
`AppendEvent` reads, repairs and chooses the number; `OpenForAppend`,
`WritePiece` and `Acknowledge` are the steps of the write, and after each of
them the process may die or the disk be full. A reader's view of the files
implements `EventLog` (`FilesAreLogs`). `Migration` adds the rows of SQLite and
the command: `StartMigration`, `ReadThread`, `OpenDatabase`, `ImportThread`,
`MakeBackup`, `MoveFile`, `MigrationDone`; it may die anywhere and be run again,
servers may run before it, between its runs and while it runs, and an operator may
copy the backup back. The database is locked by whoever has it open. Nothing locks
the directory of the JSONL files, so a server may append to a file the migration has
already read; `read` is what it has read of each.

### Extensions

`Extensions` installs the entries of a configuration one after the other
(`install_into`), with the names, effects and ceilings of `Capability`; a stdio
server goes through `Spawn`, `initialize` and the list of tools, with restarts.
An HTTP server is sent two requests, each with a time limit up to the head of its
answer (`HttpFails`, `HttpHead`) and none for the body (`HttpInitialize`,
`HttpList`). Then tools are called. In `McpClient` a request is a header and a body,
and an answer a Content-Length line, a blank line and a body, since `read` awaits
each of them and keeps the length in a local variable. A call that is dropped leaves
the streams where they are, or, since `read_line` and `read_exact` give nothing back,
without the beginning of the next part (`Torn`): the next call may find the rest of a
line, a blank line without its length (the error of `ReadBlank`), or a body that it
takes for the beginning of a line (`ReadGlued`). In `Supervisor` every attempt has a child, which may act, exit
or hang; feeding it and draining its output wait for as long as the pipes make them
(`AwaitPipes`). Servers, children and the executable on disk are external.

### Topology and Evidence

A result is a record of what the topology looks at. `Evidence` follows
`emit_tool_result`: a large result is stored under its digest (`PutIn` checks the
quota and whether the file exists, `OpenArtifact` empties it, `WriteArtifact`
fills it), and the log keeps a reference and the excerpt
`ArtifactTopologyProjection`. The digest is the content itself, so it is
injective, as SHA-256 is taken to be. An excerpt keeps `MaxProjected` items of each
kind; its selectors are a map, so of keys that are the same once they are cut the
last one stays (`Collect`); and one that is longer than
`MAX_ARTIFACT_PROJECTION_BYTES` (the constant set `TooLong`) is dropped as a whole.
`Bounded` cuts names; in the instance a long
name is cut to one that another service has. What a result shows is a sequence of
nodes and edges (`ProjectPayload`), which `Observe` adds to the graph one after the
other; the code finds and adds each in one loop. Owners without a name, which
Kubernetes does not have, are left out.

## 3. Runs

Runs expected to pass:

| Run | Instance | Shows |
|---|---|---|
| `remediation_racing` | one k8s action, two handlers that can approve, execute and drop, one drift, one crash | `K8sAppliedAtMostOnce`, `OnlyApprovedChanges`, `AuditedOutcomeIsReal` |
| `remediation_serial` | one action of either kind, one approver, two handlers, one crash | `TypeOK`, `ChangeStaysOnRecord`, `FinalWordStands`, refinement `ImplementsLifecycle`, liveness `ClaimedActionSettles` |
| `turn` | one call per answer out of four kinds (never retried, retried, allowed, denied), two steps, one operator, one resume key, one turn slot that another thread may take, one crash | `TypeOK`, `UnrepeatableStartedAtMostOnce`, `OnlyConsentedToolsRun`, `ResultRecordedOnce`, liveness `FreshTurnEnds` |
| `event_stream` | a filtering client, an action handler, capacity 1, three events, one crash | `TypeOK`, `DeliveredInOrder`, `TurnEventsHaveNoGaps`, `TurnEventsArrive` |
| `thread_log` | a thread and a fork, one call id, ten events (six with a restart), a context of two items, one slot | `TypeOK`, `ColumnsMatchLog`, `ContextIsLongestFit`, `ForkSharesPast`, action property `CompactionAdvances` |
| `migration` | two threads, four events, two faults | `FilesStayReadable`, `AckedEventsKept`, `UnimportedIsLater`, refinement `FilesAreLogs`, liveness `RepeatedMigrationFinishes` |
| `extensions` | ten configurations, two stdio calls, one call of a custom tool, two restarts | `TypeOK`, `AnswerIsOwn`, `LostOnlyByCut`, `NoChildLeftBehind`, `SummariesOwnTheirTools`, `UnaskedToolsObserve`, liveness `StartupEndsOrAwaits`, `CallsEnd`, `JobsEnd` |
| `evidence` | two threads, seven kinds of results, two entries, one fault | `ReferencesResolve`, `GraphIsWhatWasSeen`, `QueryIsFirstSeen` |

Why the bounds are enough for the interesting cases: two handlers are the least
that race, and the handlers share nothing but one record at a time, so a second
action would only add independent work (its hash cannot match, which the mutant of
`OnlyApprovedChanges` exercises through the hash the action had before its dry
run). One crash leaves every state recovery can meet, and a handler may be
dropped at any point besides. Capacity 1 with three events makes a receiver lag, refill and lag
again. Counters without a bound in the code are bounded by `MaxDrift`,
`MaxCrashes`, `MaxEvents`, `MaxRestarted`, `MaxOpen`, `MaxBatch`, `MaxDetours`,
`MaxFaults`, `MaxNotices`, `MaxClock` and by the finite sets of calls and keys. Ten events with a context of
two items are two compactions in one thread or one and a fork; the same call id
comes again, so that calls and results are matched by order. The longest logs are
those of a process that is never restarted; with a restart, six events hold a turn
that waits for an approval, is recovered, resumed and breaks off again, beside a
fork. Four events on two
files with two faults tear a file, repair it, tear it again, and interrupt a
migration of both, with a server that writes meanwhile. Two calls on one server are
a call that is dropped inside an answer and one that loses its place, after the two
requests of the installation. One turn slot is the least that another thread can
keep from a turn. Two entries per log are
enough for one result to add evidence to what another showed; two threads race on
one artifact. Among the results are one whose traces exceed the items of an excerpt,
one whose selectors have keys that are cut to the same name, and one whose excerpt is
too long.

Runs that disagree with a document (each is in `PROJECT.json`, `findings`):

| Run | Document | What the code does |
|---|---|---|
| `remediation_double_approval` | v0.6: an approval is consumed only once | two concurrent approvals, with an execution between them, lead to a second execution |
| `turn_repeated` | README: every call requires explicit approval | a repeated call may run on the first one's approval after a crash |
| `extensions_repeated` | OPERATIONS, ADR 0008: side effects with an unknown outcome are not retried | the supervisor starts a custom tool again after a timeout or an error, side effects or not |
| `migration_moved` | v0.5: the migration locks the local store | only the SQLite file is locked: a running JSONL server has an event acknowledged that is moved away with its file and is not in SQLite |

`turn_repeated` checks a property of `turn`, which holds there because
all calls differ in their hashes; the pair shows exactly what the consent rests
on. Likewise `K8sAppliedAtMostOnce` holds in the very runs in which
`ApprovalConsumedOnce` fails: the version pinned by the dry run protects the
workload even when approvals race. `migration_moved` is the complement of
`UnimportedIsLater`, which holds with servers running: what SQLite lacks was written
after the file had been read, and `AckedEventsKept` says that the backup has it.

### Further observations

Each of the following is a property of a module that TLC refutes with the
configuration named; they are not among the runs.

| Configuration | Property | What the code does |
|---|---|---|
| `RemediationAudit.cfg` | `StatusChangesAudited` (v0.6: every status change is an event and an audit record) | expiry writes neither |
| `TurnExpiry.cfg` | `ExpiredApprovalReleasesResume` (v0.5: expired approvals are rejected) | a resumed turn's wait has no time limit |
| `TurnResult.cfg` | `ResultSettlesCall` (v0.5: a stored result is never followed by another execution) | a result stored for a timed-out approval does not stop a resume |
| `EventStreamActions.cfg` | `NoGaps` (ADR 0001: at-least-once) | a client that has seen a later event never gets an action's earlier ones |
| `ThreadLogCompaction.cfg` | `NothingForgotten` (v0.5: a summary takes the place of its range) | the summary itself takes room and pushes out an item that no summary covers |
| `ThreadLogFork.cfg` | `ForkSummaryCoversSameItems` (v0.5: a fork inherits summaries of the same range) | the ranges keep the parent's numbers while the events get new ones |
| `ThreadLogColumns.cfg` | `ListingShowsLog` (ADR 0004, decision 1: events are the source of truth, the views of threads can be rebuilt from them) | recovery writes the status column without an event, so the listing shows a status that the log does not give |
| `ExtensionsStartup.cfg` | `StartupEnds` (v0.4, lines 130 and 182: a failed or hung extension blocks no workspace and does not break the runtime) | `spawn` waits for a stdio server, and `mcp_http_call` for the body of an answer, without a time limit: a silent server holds the startup up |
| `EvidenceExpired.cfg` | `ExpiredEdgesHidden` (v0.3, lines 85 and 160: expired edges do not enter the context) | edges are stamped when the graph is computed, so none ever expires |

What modelling showed besides: an extension that fails at a later tool is listed
as disabled while its first tools stay registered and callable; a stdio client that was dropped inside an answer, or whose server died, is
never started again and its health stays as it was; answers as single lines of
JSON are never recognised, since every such line contains a colon; a change is
denied by the policy where an external side effect of a trusted extension is only
asked for; the hash of a custom tool's executable is compared once, before the
restarts; a thread file whose creation broke off makes every listing and every
migration of the directory fail; a thread that was appended to after its import
makes every repetition fail; an artifact whose write broke off is taken for
complete by every later result with the same content; the depth of a topology
query has no influence, against the default depth of v0.3, line 85, since every node
with an edge has evidence and the search starts from all of those (`SeedVisited`);
`DELIVERY_CONTRACT.md`, line 156, asks for a timeout and a cancellation on all
external I/O, which the waits named under *Fairness* do not have; of requests that a
server sends by itself, which the model leaves out, one with the id of a pending
request would be taken for its answer.

### Fairness

What waits without a limit in the code is not fair here, and the property says what
it allows in its place.

* `Remediation!FairSpec`: weak fairness of each handler's own steps except while it
  is `Exchanging` (tokio polls a future that can go on, store calls return; the body
  of a target's answer may never end, and the token that could cancel the wait is
  nobody's) and of startup (a dead process is restarted; a deployment's concern, stated
  because `ClaimedActionSettles` speaks of recovery). A claimed action settles, its
  client has gone, or some exchange about it lasts for ever.
* `Turn!FairSpec`: weak fairness of the runner, of recovery and of the approval clock,
  strong fairness of `Admit`, since tokio's semaphore serves those who wait in order.
  No operator has to answer, no client to interrupt or resume, and no other turn has
  to give its slot back: a resumed one may wait for an approval for ever. So
  `FreshTurnEnds` says that a turn ends unless all slots are kept from it for good
  and nobody interrupts it.
* `EventStream!FairSpec`: a turn that has appended sends, a stream whose client reads
  is polled.
* `Migration!FairSpec`: the operator repeats the command (strong fairness, since a
  crash may come between any two tries) and does not leave a server on for ever, a
  process that can go on does. `RepeatedMigrationFinishes` assumes besides that from
  some time on the command runs with the servers stopped.
* `Extensions!FairSpec`: the program's own steps and its timers: of a stdio call, of
  an HTTP request up to the head of its answer, of a child that runs. Nothing is
  assumed of servers and children, at no time. `StartupEndsOrAwaits` allows the
  startup to wait for one server, `JobsEnd` allows one attempt to hang in `AwaitPipes`;
  that the runtime drops a custom tool's call after its own time limit is not assumed.

Nothing is assumed of targets, action handlers, operators who approve, or clients.
`CHECK_DEADLOCK FALSE` is set wherever the system
really stops once the work is done and the bounds are used up (all but
`Remediation`).

## 4. Proofs

Every theorem holds for all values of the constants that the module's named
assumption allows: any number of actions, handlers, calls, threads, subscribers,
crashes and faults. A hypothesis beyond that is part of the theorem's statement
and named below. Each invariant step is proved action by action, on lemmas that
say once what a kind of step does to a table, a handler or a file.

| Theorem | States | Hypothesis |
|---|---|---|
| `RemediationProofs!TypeCorrect` | `[]TypeOK` | |
| `RemediationProofs!PatchAtMostOnce` | `[]K8sAppliedAtMostOnce` | |
| `RemediationProofs!ChangesAreApproved` | `[]OnlyApprovedChanges` | |
| `RemediationProofs!AuditedAreReal` | `[]AuditedOutcomeIsReal` | |
| `RemediationProofs!ChangesKeptOnRecord` | `[]ChangeStaysOnRecord` | one approver |
| `RemediationProofs!FinalWords` | `[]FinalWordStands` | one approver |
| `RemediationProofs!LifecycleImplemented` | refinement `ImplementsLifecycle` | one approver |
| `TurnProofs!TypeCorrect` | `[]TypeOK` | |
| `TurnProofs!UnrepeatableOnce` | `[]UnrepeatableStartedAtMostOnce` | |
| `TurnProofs!ResultOnce` | `[]ResultRecordedOnce` | |
| `TurnProofs!ConsentedOnly` | `[]OnlyConsentedToolsRun` | `HashesDiffer` |
| `EventStreamProofs!TypeCorrect` | `[]TypeOK` | |
| `EventStreamProofs!InOrderAlways` | `[]DeliveredInOrder` | |
| `EventStreamProofs!NoGapsAlways` | `[]TurnEventsHaveNoGaps` | |
| `ThreadLogProofs!TypeCorrect` | `[]TypeOK` | |
| `ThreadLogProofs!ColumnsFollowLog` | `[]ColumnsMatchLog` | |
| `ThreadLogProofs!ForksKeepPast` | `[]ForkSharesPast` | |
| `ThreadLogProofs!CompactionsAdvance` | action property `CompactionAdvances` | |
| `ThreadLogProofs!ContextsAreLongestFits` | `[]ContextIsLongestFit` | |
| `MigrationProofs!FilesReadable` | `[]FilesStayReadable` | |
| `MigrationProofs!AckedKept` | `[]AckedEventsKept` | |
| `MigrationProofs!FilesImplementLog` | refinement `FilesAreLogs` | |
| `MigrationProofs!OnlyLaterUnimported` | `[]UnimportedIsLater` | |
| `ExtensionsProofs!TypeCorrect` | `[]TypeOK` | |
| `ExtensionsProofs!AnswersAreOwn` | `[]AnswerIsOwn` | |
| `ExtensionsProofs!LostByCutOnly` | `[]LostOnlyByCut` | |
| `ExtensionsProofs!ChildrenGone` | `[]NoChildLeftBehind` | |
| `ExtensionsProofs!SummariesTrue` | `[]SummariesOwnTheirTools` | |
| `ExtensionsProofs!UnaskedObserve` | `[]UnaskedToolsObserve` | |
| `EvidenceProofs!ReferencesLead` | `[]ReferencesResolve` | |
| `EvidenceProofs!GraphsAreWhatWasSeen` | `[]GraphIsWhatWasSeen` | |
| `EvidenceProofs!AnswersAreFirstSeen` | `[]QueryIsFirstSeen` | |

The hypotheses are what the code rests on, and a run shows what happens without
them: with two approvers an approval is used twice
(`remediation_double_approval`), with equal hashes one call runs on the consent
given to another (`turn_repeated`).

### Remediation

* `TypeCorrect`. `TypeOK` alone is not inductive: a handler
  that has something to do works on an action (`Occupied`), or else its store
  calls would write outside the table.
* `PatchAtMostOnce`. Every copy a
  handler holds agrees with the record on kind, version and hash (`HandlersMatch`),
  and so does every request on the wire (`WireMatches`); an action that is not on
  record belongs to its one proposer (`OneProposer`); and once a patch has been
  applied the object's version is beyond the one the action pinned (`VersionSpent`),
  so no other patch of that action can be accepted. The status is not part of the
  argument: it holds although approvals can race.
* `ChangesAreApproved`. On top of the former: a
  record that is authorized or further (`RecordsGranted`), and a handler past its
  claim or about to put an authorized record (`HandlersGranted`), carry a hash that
  has been granted.
* `AuditedAreReal`. An answer on the wire finds its handler waiting, is the only one
  for it, and says `applied` only of what was applied (`AnswersFit`); so a handler
  that verifies, or holds a good outcome, does so on a change that was made
  (`OutcomesReal`). Timeouts, drops and crashes `Forsake` the answer, which keeps a
  late one from reaching the handler's next request.
* The three theorems with one approver rest on `SerialInv`. A handler owns its action
  from the moment it will change the record (`Owns`), at most one does (`OneOwner`:
  a proposer owns what is not on record, the approver what awaits approval, the
  claimer what it has claimed), the record is where the owner believes it to be
  (`HandlersOnCourse`), and recovery has the store to itself (`QuietUnlessUp`). Then
  every write is a legal move (`RecordsMoveLegally`, `LegalFacts`), a final status is
  not left, and an action whose change was sent has begun (`ChangesOnRecord`).
  `LifecycleStep` maps every step to `Move`, to `Send`, or to a stutter of
  `ActionLifecycle`. `OneOwner` is exactly what a second approver breaks.

### Turn

`TypeInv` strengthens `TypeOK` with what a location implies: the runner has its
call (`HandsFull`), and a checkpoint that waits names an approval that was asked
(`Askable`). `StartInv` says that nothing was done yet for a call that is still in
the queue (`QueueFresh`), and that a call before its start has not been started
unless it may be repeated (`CurFresh`, which also speaks of the checkpoint, since a
resume goes on from it). `ConsentInv` follows a consent on its way: row, mailbox,
an operator about to notify, the verdict, the checkpoint. The resumed runner takes
an approval by its hash, and only `HashesDiffer` makes that the one of its own
call (`CoversOwn`).

### EventStream

`OrderInv`: a client has received, in order, nothing beyond the position of its
stream, and a stream reads only beyond it, so an event published twice is passed
over; a receiver's backlog fits the channel or counts as lagged (`ReadBound`).
`GapInv`, while only turns write: up to its position the client has everything it
wants (`SeenAll`), the rest of a replay starts there (`TodoClosed`), and every
later event is in that rest, in the unread part of the channel, lost to a lag
that a refill will make good, or about to be sent (`Covered`). The position alone
would not do: it says nothing of what lies between it and the channel.

### ThreadLog

What a thread shows is computed from its log by folds, selections and recursive
functions, whose laws are those of `SequenceLaws`. The induction theorems of the
library take an operator as a parameter; there an induction is over a set of
naturals (`LeastNat`, `Induct`, `SeqInduct`) and the operator of a fold is a
function of functions (`Folded`, `FoldedAppend`), to which a lemma per view
relates `FoldLeft` (`StatusFold`, `ItemsFold`, `PairsRun`). `KeepMap` says what
`Keep` selects, in order and each once.

* `ThreadInv` is `StoreInv` and `PhaseInv`. `StoreInv`: every log is `Sound`, that
  is it begins with its creation, its calls have ids, its messages are numbered
  (`LogOK`), its columns are what its events give or recovery wrote (`ThreadOK`,
  `ColumnOK`), and, unless the thread is a fork, what summaries cover is a prefix of
  what they may cover (`FromStart`); a fork's past begins with its parent's at the
  fork (`Shares`). The columns alone are not inductive: the title of a fork is given
  or the first message's, and a later message must not take its place
  (`FirstMessageIs`); and an event that gives no status must leave one that recovery
  wrote, while one that gives it must not depend on it (`SetsStatus`). `PhaseInv`
  gives a turn that is busy with a call, and an open turn that goes on with one, its
  call, and neither is there in a thread that does not exist, so that recovery never
  writes the column of one. A step appends one or two events, makes a thread, or
  recovers (`AppendKeeps`, `CreateKeeps`, `ForkKeeps`).
* `CompactionsAdvance`. `RangeIs` says which range a compaction covers: it begins
  with the first contributing event and is in no summary's range; with `FromStart`
  it hides more (`SummaryAdvances`). Only `MaybeCompact` summarises
  (`OnlyCompactionSummarises`). Forks are left out because their ranges keep the
  parent's numbers (section 3).
* `ContextsAreLongestFits` holds for any log. Matching in order keeps every call
  either waiting or paired, and never a call in two pairs (`Matched`, by induction
  over the items). Counting with the pairs as an injection shows that balanced
  items are exactly those that matching pairs completely (`CompleteBalanced`,
  `BalancedComplete`), that what `drop_unpaired` leaves is complete
  (`DropComplete`), and that a suffix of it is balanced where it cuts no pair
  (`SuffixBalanced`). `TrimIs` says that the loop stops at the first such start
  that fits, since a jump behind a pair passes only starts that cut it
  (`BehindMax`).

### Migration and the JSONL files

`StoreInv`: every file parses (`FileInv`), what the lock holder writes continues the
log of its file, or is already its end (`WriteInv`, by the piece it is at), and
acknowledged events are kept. `LogsStep` says that a step leaves what readers see
or appends one event at the end; the refinement follows. `MoveInv`, for
`OnlyLaterUnimported`, holds with servers that write at any time: what was read of a
file is still in it (`ReadInv`), a file that was not listed has not been read
(`FoundInv`), and nothing is moved before SQLite has what was read of every file
(`ImportInv`). Without `FoundInv` a file that appears after the listing would be moved
with a reading that some earlier run has left.

### Extensions

`Inv` joins three invariants. `InstallInv` is the registry, with the properties
themselves; it rests on `ConfigsAssumption`, the shape of configurations. `RunInv`
is about the calls of custom tools: a child runs only while its attempt feeds it or
waits (`Tidy`). `SessionInv` is about the stdio session: an id
is given out once, and every frame, accepted request or answer under it belongs to
the call that drew it (`OwnInv`); only the holder of the mutex is at the streams
(`MutexInv`); and until a call is cut off inside an answer, the three parts of answers
follow each other in the pipe, beginning with what the client will read next and
ending with a body (`StepInv`).
Calls are untouched until the installation is over. The module has one session, as
the run does.

### Evidence

`Inv`: a task stores one result, whose file exists once the task has opened or found
it (`TaskInv`); a file that is there in part is being written or its write broke off
(`PartInv`); what a log refers to exists (`LogInv`). That is `ReferencesLead`. The
other two follow from the shape of what a log may hold (`TypeInv`, `Entries`: an
entry that has a result shows it, or its excerpt if it is large), by what the
functions of `topology.rs` make of any such log.

* `GraphsAreWhatWasSeen`. What the graph says is a set of facts, the pairs of a
  relation (`KeyOf`: both ends and the kind) and a result's id; what a log says is
  one too (`LogFacts`). `LogGraph` proves by induction over the log that they are
  the same set. The induction needs `Graphs`, the shape of a graph that is built: no
  node and no edge twice, both ends of an edge among the nodes, evidence on both
  ends, and the source of an edge given by its relation. The last is what makes
  `push_edge`, which looks for the source too, find the edge it repeats. The code
  puts an edge in the place of the one found: `EdgePushed` and `RelateKeeps` say
  that this adds the facts of the edge and takes none away. `ObserveKeeps` is a step
  of the building, `EdgesSorted` says that sorting loses nothing. For a large result the
  step from what the log shows to what the result holds is `ShownIs`: an
  excerpt shows relations of the result with their names cut, and all of them
  where the result is within the limits (`Cuts`): its items are few enough
  (`Within`), no two keys of its selectors are cut to one, so that `Collect` keeps
  all of them (`Apart`, `Collected`), and its excerpt is not too long (`KeptWhole`).
* `AnswersAreFirstSeen`. In a graph of that shape every node with an edge has
  evidence, so all neighbours of a seed are seeds (`SeedVisited`). The search
  therefore only takes the seeds from its queue, one after the other
  (`SearchFold`, `FirstKept`), and the nodes and edges that the code keeps are
  those of the first seeds (`FirstNodes`, `FirstAnswered`). The property is about
  queries at the default depth that ask for stale edges too; of expiry it says
  nothing (section 3). `FirstAnswered` holds for every depth and every limit.

### Only model-checked

* Liveness (`ClaimedActionSettles`, `FreshTurnEnds`, `TurnEventsArrive`,
  `RepeatedMigrationFinishes`, `StartupEndsOrAwaits`, `CallsEnd`, `JobsEnd`): fairness
  and `ENABLED` are out of the prover's reach.
* The violations of section 3, which are refuted, not proved.

## 5. Plan

Done: `ActionStatus`, `ActionLifecycle`, `Remediation`, `Turn`, `EventStream`,
`Projection` and `ThreadLog`, `JsonlStore` and `Migration`, `Capability`,
`McpClient`, `Supervisor` and `Extensions`, `Topology` and `Evidence`, in the order
of what a mistake would cost, and the proofs of their safety properties. Next:

1. `TurnAdmission`: turns of several threads in full, where `Turn` has the slots the
   others hold, and leases and fencing tokens between two processes on one database.
2. `AuditChain`: the hash chain and its verification.

## 6. Not modelled

Model providers, connectors, redaction and diagnosis texts, workspaces, runbooks,
skills, configuration, CLI, telemetry, the web client and the demo are I/O,
parsing and formatting with no protocol of their own; the modules take every
outcome they can have as a nondeterministic choice or a constant. Within the
modelled parts: wording and layout of events and summaries, claims attached to an
action plan, usage counters, the environment a child is given, the bodies of HTTP
calls to MCP servers, the export of threads to JSONL, the in-memory artifact
store, schema versions of events and of the database. `PROJECT.json` gives the
reason per component.

## 7. Running

    tlc -workers 2 -config RemediationSerial.cfg MCRemediation
    for m in Remediation Turn EventStream ThreadLog Migration Extensions Evidence
    do tlapm ${m}Proofs.tla; done
    tlapm SequenceLaws.tla
