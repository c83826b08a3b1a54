# Ivory Tower: TLA+ models and proofs

Ivory Tower is a research workbench on a source fork of Eclipse Theia. Its own
code is the `ivory-*` packages: a headless runtime of an HTTP API, a worker,
a PostgreSQL database with graphile-worker's job queue in it, and an immutable
object store, with the domain, policy and protocol libraries beside them. Theia
itself is vendored unchanged (`docs/adr-002-runtime-topology.md`); of it only the
connection between the front end and its back end is modelled, over which
everything the user sees goes.

This directory models how these parts behave when several requests, workers,
deliveries, reconnects and failures meet. TLC checks the models on small instances, and
TLAPS proves the main safety properties for instances of any size.

Paths below are relative to `src/packages/` unless they start with `docs/` or
`scripts/`.

## 1. The system

### Components

| component | state it keeps | operations | hard behaviour | what makes it correct |
|---|---|---|---|---|
| Execution domain (`ivory-tower-domain/src/execution.ts`) | none | table of statuses and transitions | none of its own | the stores move as the table allows |
| PostgreSQL store (`ivory-tower-infrastructure/src/postgres-execution-store.ts`, migration 001) | a row and an event log for each execution | createAndEnqueue, markRunning, updateProgress, complete, fail, retry, cancelRunning, cancel, reads | transactions of many processes in any order; commits whose answer is lost | row and log agree; terminal rows stay; a recorded cancel is not overtaken |
| Execution service and HTTP endpoints (`ivory-tower-application/src/execution-service.ts`, `ivory-tower-api/src/api-server.ts`) | requests in flight | POST and DELETE `/v1/executions` | racing requests with one key, lost requests, requests sent again | one execution for each key, one answer, its job published |
| Worker processor (`ivory-tower-worker/src/execution-processor.ts`, `start.ts`) | one `process()` call for each slot, a monitor, two abort signals | claim, check, handler, recheck, complete, retry, fail, cancel | cancels, shutdowns and crashes between any two awaited calls; two deliveries at once | one handler at a time; the execution ends |
| Job queue (`ivory-tower-infrastructure/src/graphile-worker-adapter.ts`; graphile-worker is external) | a job for each execution, its lock and its attempts | add, fetch, complete, fail, free a lock | at-least-once delivery, exhausted attempts | what waits has a delivery to come, or was given up only after it was tried |
| Event stream (`streamEvents` in `api-server.ts`) | a cursor for each connection | open, poll (two reads), end, resume | the execution moves between the two reads; cut connections | nothing skipped, nothing told twice, the stream ends and only when it may |
| In-memory store (`in-memory-execution-store.ts`) | maps | those of the PostgreSQL store | none: one turn for each call | does what the PostgreSQL store does |
| Source intake (`uploadSource` in `api-server.ts`, `filesystem-object-store.ts`, `s3-object-store.ts`, `persistSource`) | immutable objects by content hash, one record for each hash | upload, putImmutable, persistSource, getByContentHash | racing uploads of one content, a crash between object and record, half-written files | an object never changes; a record names an object that is there; uploading again works |
| Content policy, admission and egress (`ivory-tower-content-policy`, `*-policy.ts`) | none, but egress reads the source record | decide admission, authorize egress | egress uses a decision made earlier, for another upload of the same bytes | nothing leaves that was not permitted to, on the rights of one admission |
| Research protocol (`research-protocol-service.ts`, `in-memory-research-protocol-store.ts`) | versions, artifacts, runs, exports | create, revise, branch, promote, snapshot, export, attach, admit a run | reads followed by whole-record writes, several calls at once | snapshots do not change; a version is exported once; lineage leads back; a successor accounts for what it succeeds |
| Migration and readiness (`node/migrate.ts`, `schema-readiness.ts`, `runtime-readiness.ts`) | the ledger of applied migrations | migrate, check | processes that start together; a crash between two sets of migrations | each migration applied once, in order; ready means migrated |
| Theia's connection (`core/src/browser/messaging/ws-connection-source.ts`, `core/src/node/messaging/websocket-frontend-connection-service.ts`, `core/src/common/messaging/socket-write-buffer.ts`, `core/src/common/message-rpc/rpc-protocol.ts`) | the front end's channel and its pending requests, the back end's contexts and timeouts, a buffer on each side | connect, negotiate, reconnect, request, reply, close, time out | each end notices a broken link when it will; a timeout races a reconnect; what is buffered outlives its channel | no context out of reach; no request dropped, repeated or given to another context; both ends joined again |
| Conversion handler (`runtime-handlers.ts`, `docling-http-conversion-adapter.ts`) | none | one handler: read source, call Docling, store the artifact | runs again after a crash or retry | running again gives the same artifact |
| Identity (`ivory-identity`) | none | identifiers, aliases, canonical preimages, digests | none: pure functions | different content, different preimage |
| Configuration, redaction, telemetry, health widget, scripts | none | parsing, formatting | none | unit tests decide it |

### How they meet

A client's POST runs `ExecutionService.create`, whose database calls interleave
with those of every other request. Its last call inserts the row, the first
event and the job in one transaction. A worker slot is handed the job by
graphile and runs `ExecutionProcessor.process`, which talks to the row through
store calls only; a random lease token drawn by the delivery guards each of its
writes. graphile settles the job by how the promise of `process` ended, in a
transaction of its own. A client's DELETE changes the row whenever it comes. The
worker learns of it by reading the status: before the handler, after it, in
the `catch`, and every second from a monitor that aborts the handler. A client
that watches polls the row, or opens an event stream, which polls for it.

The processes of the runtime share nothing but the database and the object store. Its
hard behaviour lies in the order in which their transactions and their writes take effect.

The research protocol service is a library that nothing in the runtime calls yet: its
calls meet in its store. Theia's front end and back end meet over Socket.IO alone,
whose messages arrive in order on one link and are lost with it.

## 2. The modules

```
ExecutionDomain        statuses, events, the table of transitions
  ExecutionContract    what an execution promises its client (abstract)
  ExecutionStore       rows, log            the store's transactions
  GraphileQueue        job                  external, as the adapter uses it
  Environment          faults               which faults, and how many
ExecutionService       req                  extends store, queue, environment
ExecutionProcessor     proc                 extends store, queue, environment
ExecutionRuntime       both over one database; the properties
  MCExecutionRuntime          symmetry for TLC
  ExecutionRuntime_proofs     types, finality, refinement, mutual exclusion
  ExecutionAnswers_proofs     idempotent creation
  ExecutionLog_proofs         what the log tells, attempts, dispatch
EventStream            conn, held           extends domain, environment;
                                            the executions are an INSTANCE of
                                            ExecutionContract
  EventStream_proofs          what a reader holds
ImmutableObjects       what putImmutable promises (abstract)
ObjectStore            objects, put         the two object stores
ContentPolicy          the two gates of the admission policy, as functions
  ContentPolicy_proofs        what they permit
SourceIntake           records, upload,     extends ObjectStore, ContentPolicy,
                       conversion, granted   environment
  MCSourceIntake              keys, bytes and metadata for TLC
  SourceIntake_proofs         immutability, records, their objects and their rights,
                              admitted bytes, finished conversions, races on S3
ResearchProtocol       versions, artifacts, runs, exports, call
  MCResearchProtocol          symmetry for TLC
  ResearchProtocol_proofs     snapshots, exports, lineage, successors
FrontendConnection     front, socket, byFrontend, context, timer, ...
  FrontendConnection_proofs   types, contexts and their requests, closed channels
```

**ExecutionContract** is what a client can rely on: a status and a history of
events for each execution, which change together and in eight ways. There are no
workers, leases, jobs or keys in it. `ExecutionRuntime` is shown to implement it
(`ImplementsContract`), and `EventStream` is built on it in place of the runtime,
so that what is shown of the stream holds over the real runtime too.

**ExecutionStore**: one operator for each method, each one step because each
method is one transaction. The `WHERE` clause is the guard and the
`UPDATE` with its events is the effect. A method that returns `false` is one whose
guard is false; the caller then says what happens. The event's sequence number is
its position in `log`: `next_event_sequence` is bumped on the locked row in the
same transaction. `progress`, `result`, `failure`, timestamps and
`lease_until` are left out: no guard reads them.

**GraphileQueue**: the library is external. The model has what the adapter relies
on: one job for each execution with `max_attempts`; fetching locks it and counts
an attempt; a resolved promise deletes it, a rejected one puts it back if it is
still locked for that delivery; a lock outlives its worker and is freed after
four hours. The backoff between attempts is not modelled, so a delivery may come
at any time.

**ExecutionService**: `create` in three steps, for its three awaited calls
(`Find`, `TryInsert`, `Refind`). A failing call either was rolled back or was
committed unseen (`LostInsert`). A client that was refused or answered may ask
again with any key. `ids.next()` is a random UUID, so `FreshId` picks one that
nobody has.

**ExecutionProcessor**: `process` with one step for each awaited call (`proc.pc`
names the call it is about to make), the monitor (`Poll`), the shutdown signal
and its relay (`Shutdown`), failing calls (`DatabaseFault`) and death (`Crash`).
The handler is any handler: it may report progress, return, or throw something
retryable or not, whether it heeds its abort signal or not. What the code reads in the same
turn as the answer of a call (`signal.aborted`, `handlerController.signal.aborted`)
is read in the same step. The random lease token of a delivery is modelled as the job's
attempt number at its fetch: like the token it differs between any two
deliveries of one execution.

**EventStream**: a connection with its cursor (`last`), the result of the first read
of a poll (`drained`) and the program point. `held` is a history variable, the sequence numbers the
reader received over all its connections. A poll is two steps, `Read` and `Ask`,
and the execution goes on between them. A cut may fall inside a batch that is
being written, and delivers any prefix of it.

**ImmutableObjects** is what the port `ObjectStorePort` promises its callers: an object is
written once and whole, and a call that is answered has its own bytes there.
Nothing is promised of a call that throws.

**ObjectStore**: `putImmutable` of the store that `environment.ts` chose
(`backend`), one step for each call it makes. Both look first (`Look`). The filesystem
store then creates the file with `wx` (`Create`) and fills it (`Close`), and
what is between the two is `Partial`: other calls may read it, and a crash may leave it.
The S3 store writes with `If-None-Match: *` (`PutObject`) and looks again at a
412 (`LookAgain`). A call may throw (`Throw`), done or not done, or be sent again by
the S3 client; a process may die (`Stop`). Contents stand for their SHA-256. An S3
service that answers 409 to racing writes would be a `Throw`.

**SourceIntake**: `uploadSource` (`Send`, `Admit`, the steps of the store,
`PersistSource`) for clients that send again when they were not answered, and the
conversion handler (`Load`, `Convert`, the steps of the store, `Finish`), which the queue
may run again. `Admit` decides with `DecideAdmission` on what the headers of the request
say and on the topology the process runs in, and `PersistSource` records that decision
with the source. `Authorize` is `ContentAwareAllowlistedEgressPolicy.authorize`: it
goes by the recorded decision. Docling
is external: it converts what it was sent or fails; `Release` says that it may
answer differently another time, since the parser version in the key comes from the job and
not from Docling.

**ContentPolicy**: `decideAdmission` and what it calls, over content classes, routes,
topologies and rights bases; no state.

**ResearchProtocol**: each call of the service as its reads and its writes, one step for
what runs between two awaits. A call reads a version, perhaps a listing of versions or
of artifacts, and saves a whole record later, when other calls have come between
(`call` holds what it read). The store runs one call at a time and refuses to write
over an export snapshot. The fields of a version that mean something to a reviewer are one
value, its `content`; ids are drawn fresh. `known` is a history variable: the versions
and artifacts there were when a call began.

**FrontendConnection**: the Socket.IO client reconnects for ever, each time on a new
`socket`, and greets with an initial connect or a reconnect (`Negotiation`). The back end
keeps a context for each front end id (`byFrontend`), closes the one a new initial
connect replaces (`Discarded`), moves a context to the socket of a reconnect, and on a
`disconnect` closes it at once, after a timeout, or never, as it was configured.
Either end buffers while it has no link (`Buffered`) and sends the buffer as one message when
the link is back (`Flushed`), of which the receiver parses the first (`RequestArrives`,
`ReplyArrives`). When the context is gone the front end reloads or closes its channel, which
rejects what is pending (`Rejected`). A context and a channel are named by the socket they
were made on. `lost` and `late` are history variables: the requests that went down with a
link or behind another message, and whether the back end heard a greeting or a
disconnect of a socket after its front end had greeted on a later one.

### Definitions kept for mutation

Definitions with a comment that starts with "Regression" are mutated forms of the
definition after them, each a mistake that code could plausibly make. They are
used by no specification. Replacing the definition by its mutated form makes TLC
report the property that `PROJECT.json` names for it.

## 3. The runs

Runs of the runtime use `MCExecutionRuntime`, those of the stream `EventStream`,
those of the intake `MCSourceIntake`, `protocol` uses `MCResearchProtocol` and
`connection` uses `FrontendConnection`.

| run | shows | instance |
|---|---|---|
| `create` | `KeysAreIndexed`, `AnswersAgree`, `OneAcceptance` | 3 clients, 2 keys, 4 ids, 3 faults of the API or the database |
| `deliveries` | `TypeOK`, `LeaseIsHeld`, `HandlersAreExclusive`, `LogTellsStatus`, `HistoryIsLegal`, `AttemptsAreLogged`, `TerminalIsFinal`, `CancelWins`, `ImplementsContract` | 1 execution, 2 slots, 3 attempts, 2 faults of any worker kind, overruns included |
| `live` | `QueuedIsDispatched`, `EveryExecutionEnds`, `CancelIsSeen` | as before, fair, 3 faults, without overruns |
| `stream` | `TypeOK`, `NothingSkipped`, `NothingTwice`, `EndsAreTerminal`, `StreamsEnd`, `ToldInTheEnd` | fair, 2 readers, one of each way to resume, 4 events, 3 connections each, 1 fault |
| `intake` | `TypeOK`, `RecordedIsStored`, `OneSource`, `GrantsRestOnOneAdmission`, `OnlyAdmitted`, `KeepsItsPromise`, `DoneIsStored`, `RaceIsHarmless`, `UploadsEnd` | fair, 2 clients that upload one content, 2 requests each, 1 conversion run twice, both backends, 1 fault |
| `protocol` | `TypeOK`, `OneExport`, `RunsFit`, `LineageIsSound`, `VersionsOnlyAdvance`, `SuccessorsFollow` | 2 clients, 5 calls, 3 versions, 2 contents, 1 artifact |
| `connection` | `TypeOK`, `ContextsAreApart`, `NothingVanishes`, `JoinedAtLast` | fair, 2 requests, 2 breaks, every configuration of `reloadOnReconnect` and `frontendConnectionTimeout` |

Five runs each find a counterexample to what a document, a comment or an assertion
of the repository says:

| run | says | the code |
|---|---|---|
| `crashed_worker` | ADR-002: worker lease, "Heartbeat and requeue" | nothing reads `lease_until`; the redelivery of a running execution is refused by `markRunning`, `process` returns, the job is deleted: running for ever |
| `late_cancel` | `execution-processor.ts:105`: the lease-guarded terminal write remains the source of truth | a cancel after the last look at the status makes that write return `false`, which nobody reads: cancelling for ever |
| `stream_end` | `scripts/verify-ivory-runtime.mjs:183`: a stream read to its end holds the terminal event | events first, status second: an execution that ends in between loses its last events on this stream |
| `intake_race` | ADR-002: "Retry idempotent writes by content hash", the filesystem store has "the same immutable contract" | two uploads of the same bytes: the second reads a half-written file and is refused for "different content", or meets EEXIST |
| `stream_header` | ADR-002: reconnect through `Last-Event-ID` | the id is `<execution>:<sequence>`, `Number()` of it is `NaN`, the log is replayed from its start |

`deliveries` states the legal histories over the log (`HistoryIsLegal`) and not over
`CanTransition`, because `retry` takes a running execution back to queued, which the table
(`execution.ts:53`) does not have; this store never consults it. The theorem
`TableIsFollowed` says that this is the only move outside the table. `EveryExecutionEnds` and
`QueuedIsDispatched` allow a job that has used up its deliveries (`Exhausted`): the processor has no
limit of its own, graphile never fetches such a job again, and the row stays queued; the run `live`
reaches this by three retryable failures. `QueuedIsDispatched` allows it only of an execution that
was tried (`GivenUp`): every delivery was a claim of it, but for one for each fault. `EveryExecutionEnds` excuses besides
an execution that was asked to cancel and, once a fault has happened, all of them, because
of `late_cancel` and `crashed_worker`: it is about the retry in two transactions without a fault.
`QueuedIsDispatched`, in the same run, holds through faults, so the crash between the two
transactions is covered by it alone.
The contract lets an execution go from running to cancelled at once, because a
worker that is told to stop cancels what it runs. `CancelIsSeen` is what
does hold of cancelling: a request recorded while the worker has a look at the status to come.
`ToldInTheEnd` is what does hold of ended streams: a reader that
comes back gets the rest. `QueuedIsDispatched` excludes overruns: when graphile
frees the lock of a worker that lives, the second delivery may delete the job
under the first, whose retry then leaves the row queued without a job.

`RaceIsHarmless` and `UploadsEnd` are about S3 because of `intake_race`: on the filesystem a
crash in the middle of a write leaves a part of a file that refuses its source from
then on, and a conversion that was asked for before its source was recorded may
read such a part. `RecordedIsStored` holds on both, so a conversion of a source that
was recorded reads all of it.

`JoinedAtLast` is about front ends that reload when their context is gone, which the
product configures (`reloadOnReconnect`). One that does not, and whose answer to an initial
connect was lost after a refused reconnect, asks for a reconnect next time and is told that
it succeeded, while its channel is closed: it never opens another. `JoinedAtLast` and parts of the other
two properties excuse `late`: when the `disconnect` of a replaced socket is handled after the
reconnect, it detaches or closes, by front end id, the context that has moved on. Of that
behaviour only `OneContext`, the first half of `ContextsAreApart`, says what holds through it.

### Seen on the way

What the models show of the code without a run of its own:

- `validateIvoryTowerEnvironment` accepts the topologies `vendorHosted` and `selfHosted`,
  the policy asks for `selfHostedAtResearchOrganization`: in the runtime the exception
  for research organizations is never available (`ResearchExceptionAvailable`).
- `POST /v1/sources` states no rights basis, so licensed content is always refused
  (theorem `UploadsAreOfTheSafeSubset`).
- Two revisions that race take the same version number on one branch: `SuccessorsFollow`
  says that a number is greater than all there were, not that it is unique.
- An artifact attached between the listing and the save of a revision is not among its
  affected artifacts; `SuccessorsFollow` covers those attached before the call.
- A version that was made a snapshot by `snapshot` can no longer be exported.
- Of a flushed buffer the receiver parses the first message, so the callers of the
  others wait for ever; so do those whose message went down with a link, since the
  protocol has no timeout (`lost`).

### Bounds, and why they are enough

- `Execution` in `deliveries` has one element: no store call touches more than
  one execution, slots and jobs of different executions share nothing, and the
  properties are about one execution each. `create` has more, for there the
  executions meet in the index of keys. It needs as many ids as keys plus clients less one, since an id that was
  drawn and lost is not drawn again.
- `Worker` has two slots: the hazards are between the holder of an execution and one
  stale or second delivery. The proofs cover any number.
- `MaxAttempts` is 3 where the code has 25. Three give a
  first, a second and a stale delivery, and exhaustion.
- `MaxReports` is 1: a report before and after a cancel, and one refused.
- `MaxFaults` is 1 to 3. Every hazard listed needs one or two. An overrun followed
  by a crash, or a crash during a redelivery, fit.
- `Kind` has a kind with a handler and one without.
- `MaxEvents` is 4: queued, running, progress, complete, or queued, running,
  cancelling, cancelled. That gives batches of zero, one and several events; the
  proofs cover any number. `MaxOpens` is 3: a
  first stream, one resumed in the middle, one resumed after the end, and more
  connections than `stream` has faults, so that a reader always has one left.
- `Content` has one element in `intake`: keys of different contents share nothing, and
  the races are between calls for one key. Two clients with two requests each give a
  race, a repetition, and a repetition in a race; `MaxSends` is more than the number of
  faults, so that a client has a request left. Two runs and two releases make a
  conversion meet its own artifact, the same or a different one. The proofs
  cover any number.
- `VersionId` in `protocol` has three elements: a first version, and two successors that race
  or follow one another. Five calls are two that race and what must have been done before
  and is done after: a promotion before a snapshot, a snapshot before an export. The
  proofs cover any number. Deadlock is not checked there: ids and calls are used up.
- `MaxBreaks` in `connection` is 2, and a break costs at most two sockets, so there are five: a
  first connection, a reconnect, and a reconnect that comes while the
  disconnect of the one before is not yet noticed. Two requests
  are in a buffer together, or one in a buffer and one on its way. Deadlock is not checked:
  a connection with nothing to say is at rest. The proofs cover any number.
- In the configuration of `intake` deadlock is not checked: clients and handlers
  stop when they have their answers or have used up their requests.
- In the configurations of `EventStream` deadlock is not checked: when the execution is
  over and every reader has used up its connections, there is nothing left to do.
  In the other configurations it is checked, and a client may always ask again.

### Fairness

`FairSpec` of `ExecutionRuntime` has weak fairness of each client's request in
flight, of each slot's own steps and its fetches, and of the freeing of locks. Node
runs the continuation of every call that came back, and slots poll for jobs. A handler
ends because the Docling adapter aborts its call after two minutes. graphile
frees locks that are too old. Nothing obliges a client to ask, a handler to
report, the monitor to poll in time, or a fault to happen.
`FairSpec` of `EventStream` has weak fairness of each connection's polling (the
interval ticks, the database answers) and of a reader's opening a stream when it
has none, which is what an `EventSource` does. Executions need not move.
`FairSpec` of `SourceIntake` has weak fairness of each request's steps and of a client
that was not answered sending its upload again, which ADR-002 asks of clients ("Retry
idempotent writes by content hash"). Conversions need not run.
`FairSpec` of `FrontendConnection` has weak fairness of the client's reconnecting, which
Socket.IO does for ever (`ws-connection-source.ts` sets `reconnection` and no limit), of each end
noticing a broken link by its ping timeout, and of either end handling what arrived. Breaks
are bounded, so links last in the end. Nothing obliges a front end to make a request, a handler to reply or a
timer to fire.
`ResearchProtocol` has no fairness: its service has no liveness of its own.

## 4. The proofs

All for any sets of clients, keys, executions, workers, readers, contents, conversions,
versions, artifacts and requests, any number of breaks and any bounds, from the named assumptions in the modules only (`None` is no element of
the other sets, `MaxAttempts` is positive, bounds are naturals, `Handled` are
kinds, ids of versions are finitely many).

| theorem | states | along |
|---|---|---|
| `TypeCorrect` | `[]TypeOK` of the runtime | inductive as it stands; one lemma for each process, one step for each action |
| `TerminalStays`, `CancelStays` | the action properties `TerminalIsFinal`, `CancelWins` | `StoreGuards`: every step that changes row or log is a store operation, and each operation's guard excludes the statuses concerned |
| `RuntimeImplementsContract` | `ImplementsContract` | `StoreImplements`: every store operation is a step of the contract under the mapping of rows to statuses and logs to histories; the other steps stutter |
| `TableIsFollowed` | every step of the runtime moves each status as `CanTransition` allows, or is a retry | the steps of `ExecutionContract`, which the refinement shows to be all there are |
| `HandlersExclude`, `OwnerHolds` | `HandlersAreExclusive`, `LeaseIsHeld` | see below |
| `Idempotent`, `OneExecutionPerKey`, `OneCreation` | `AnswersAgree`, `KeysAreIndexed`, `OneAcceptance` | see below |
| `LogTells`, `HistoryStaysLegal` | `LogTellsStatus`, `HistoryIsLegal` | every step of the contract keeps both (`ContractTells`); the refinement carries them to the runtime |
| `AttemptsCount` | `AttemptsAreLogged` | see below |
| `QueuedHasDelivery` | `QueuedIsDispatched`, if no lock is freed under a worker that runs | see below |
| `StoreImplementsPort`, `IntakeKeepsObjects` | `KeepsItsPromise`, of the stores and of the runtime | see below |
| `IntakeTyped`, `RecordsNameObjects`, `OneSourceForAll` | `TypeOK`, `RecordedIsStored`, `OneSource` of the intake | see below |
| `AdmittedOnly`, `DoneMeansStored`, `RacesDoNoHarm` | the action property `OnlyAdmitted`; `DoneIsStored`, `RaceIsHarmless` | see below |
| `GrantsRest` | `GrantsRestOnOneAdmission` | see below |
| `Decided`, `TransferNeedsIngest`, `NoBasisIfRefused`, `RefusedWhatever`, `TopologyDecidesTheExceptionAlone`, `UploadsAreOfTheSafeSubset` | of the admission policy: a decision permits both, ingest alone or neither; no transfer without ingest; a basis exactly where something is permitted; refused classes stay refused; the topology matters to the exception alone; uploads are of the safe subset | cases of the classes and bases |
| `SnapshotsStand`, `SuccessorsAccount` | the action properties `VersionsOnlyAdvance`, `SuccessorsFollow` of the protocol | see below |
| `ProtocolTypes`, `ExportsOnce`, `RunsGoOnFitting`, `LineageLeadsBack` | `TypeOK`, `OneExport`, `RunsFit`, `LineageIsSound` | see below |
| `ConnectionTypes`, `ContextsAreReachable` | `TypeOK` and the first half of `ContextsAreApart`, `OneContext` | see below |
| `ContextsStayApart` | all of `ContextsAreApart` | see below |
| `NobodyWaitsOnAClosedChannel` | a pending request is one of the channel that is open, the first part of `NothingVanishes` | see below |
| `MessagesSurvive` | all of `NothingVanishes` | see below |
| `StreamSkipsNothing`, `StreamTellsOnce`, `StreamEndsWithExecution` | `NothingSkipped`, `NothingTwice`, `EndsAreTerminal` | see below |
| `StreamTypeCorrect` | `TypeOK` of the stream | see below |

**HandlersExclude.** That two deliveries are never both past their claim is not
inductive: a claim must be known to fail while another delivery is past its own. The
invariant adds `LeaseIsHeld`: the row of a worker past its claim carries that
worker's lease and is running or cancelling, or it is terminal. A claim needs a
queued row, which is neither, so no one is past a claim of that execution when one
succeeds. The proof considers the worker that moves (`OwnerStep`) apart from those that look on
(`BystanderStep`), whose row may be touched only by an operation that holds
their lease (`WriteEffect`). It shows that the guards on the status already fence
a second delivery: it uses no fact about the
uniqueness of tokens.

**Idempotent.** The three properties are inductive together with the types: answers stay
right because keys are indexed, and a second 202 would need a second insertion
under the key.

**AttemptsCount.** That an execution is claimed at most once for each delivery is not inductive:
a claim adds one to `rows[e].attempt` without a new delivery. `LeaseInv` counts the deliveries
that have had their try, `Spent(e)`: those of `1 .. job[e].attempts` no worker holds before its
claim. A row has no more attempts than those are. A fetch adds a delivery that is not yet spent; a claim
spends one, since no two workers hold the same delivery and none a number the job has not
reached; a worker that dies or ends before its claim spends it for nothing. For the first half, `Counted`, the lemma
`ClaimsAppended` says what one more event does to the number of claims of a log, and `AttemptEffect` that an
operation of the store counts an attempt exactly when it writes the event of a claim.

**QueuedHasDelivery.** `retry` puts the row back before graphile is told, and the job of a
resolved delivery is deleted after its last write. So the invariant adds that every
delivery under way has the lock of its job (`Alone`), and that one about to resolve has left its
execution out of the queue (`NothingLeft`, from `SettledNotQueued`: its last
write took the row further, or was refused because the row is over or cancelling, which `LeaseIsHeld`
gives). Without `Alone` it is false, and `Alone` is what an overrun breaks: then
the job may be deleted by a second delivery while the first retries. The theorem therefore
assumes that `Faults` has no `"overrun"`, as the run `live` does; a handler ends within minutes,
graphile frees a lock after four hours. The invariant
`JobIsKept` says that the job is ready or locked, and a ready job is fetchable or exhausted. That
an exhausted one was tried takes another: `TriedInv` accounts for the deliveries of an execution that is queued or
in the hands of a worker past its claim: they are no more than its claims and the faults (`Tried`), but
for one that is about to claim (`Due`). A claim adds an attempt, a fault that keeps a delivery of a queued
execution from its claim adds itself, and a refused claim is of an execution that is not queued. A fetch
adds a delivery, and `Alone` gives that no other is under way then.

**The stream.** What a reader received is without gaps because, while connected,
it has received every number up to `last`; and a cursor taken from the last
number received is covered for the same reason. The invariant says both (`Followed`). For a reader that
resumes by `?after`, it says that what was received is exactly `1..n` in order, and
`last` is `n` (`Counted`). The lemma `Joined` describes a received sequence with a
further batch, and `JoinedGapless` and `JoinedInOrder` carry the invariant over it.
`ContractStep` supplies what the stream needs of the execution: a terminal status
stays. The types need besides that no number beyond the log is sent (`Bounded`).

**The object stores.** That an object is never written over is not inductive for the
filesystem store, whose files pass through `Partial`: `OneWriter` adds that the file of a call that
is writing is `Partial` and no other call is writing it, so that what `Close` completes was no
object before; `StoredIsThere` adds that what was answered is there. `Shapes` sums up
what a step of a call may do, `ServeStep` turns each shape into a step of the port.

**The intake.** `StoreSteps` shows that the runtime uses the store as its callers may, which
carries `KeepsItsPromise` over. For the records, `IntakeInv` adds that whatever is being stored
under the key of a source is that source (`PutsFit`), that a request awaits a
call for its own content (`UploadPuts`), and that a request that was answered has a
record (`Answered`). For the rights, `RightsInv` adds that a decision a request carries, and one
a record carries, is the policy's decision on the request whose id goes with it.
`UploadCalls` and `ConversionCalls` say that nobody is in a call of the store but a request that was
admitted and a conversion that await it, for their own object: this gives `OnlyAdmitted` and
`DoneIsStored`, and is what keeps a late write of a process that stopped out of the picture, as its
call dies with it. For races on S3 the invariant adds that S3 never shows part of an object
(`WholeOnS3`), so that what an upload finds under its key is the content it brings (`SameContent`), and
that until a fault no upload's call is refused, and a call that was told 412 finds the object
there (`Harmless`).

**The research protocol.** The invariant joins the three properties of states with what a call
in flight knows: what it read differs from the version there is now by
its stage at most (`CallsInv`, with the types in `BaseInv`), what it listed covers all there was
when it began (`KnownInv`), and only operations that list await a listing (`ListingInv`). A version is written again only by a call that read it, so its content and its lineage
stay, and its stage can only have moved forward; that a call about to save an export is
alone needs that the version was not a snapshot when it saved it as one.

**The connection.** `OneContext` is not inductive: that closing the context of a front end id
leaves none open under it needs that `byFrontend` names contexts of that very id
(`MapIsRight`), and that a new context takes no name in use needs that a socket makes one
at its first greeting only (`NoneBeforeGreeting`). That nobody waits on a closed channel
needs that requests pend on the front end's present channel only (`PendingIsOpen`), and
`Linked` ties the front end's socket to those there have been, for the types.

That contexts do not do each other's requests (`ContextsStayApart`) depends on who is heard on which socket. A
request goes to the context of the socket it arrives on, so `OnTheWay` says that the channel of
every request on a socket has that socket as its *heir* (`Heir`): of the same front end id,
no earlier, and serving that channel's context or nothing yet. `HeirStays` is the core. A
socket comes to serve something at its first greeting: at an initial connect, which
`Quiet` excludes between a channel and its heirs, or at a reconnect, which gives it the context
the map holds. That this is the channel's own needs that the map leads to a context its own
front end introduced (`MapIsTheirs`) and to the last of them (`Latest`), and that is so only as long as
greetings are handled in the order of the sockets: hence `late`. What the front end has buffered is of its open channel
(`InBuffer`), which has the present socket as heir (`OpenChannel`), so a reconnect that flushes it keeps
`OnTheWay`; `WorkStep` says that a context gets requests from a socket it serves alone.

That a message is in one place (`MessagesSurvive`) is proved of places and not of counts: a place is
a buffer, the handlers of a context or one direction of one socket, and `Once` says that one place
has the message once and the others do not have it. Every step either leaves each place as empty
and as single as it was (`OnceStays`) or takes the message from one to another (`OnceMoves`); `OneCopy`
turns `Once` into the count. `CopyInv` is the invariant: who is `Alive`, pending with an open context and
not lost, has `Once`. Its hard step is a message that arrives where no context listens, which drops it
without a trace. `HearInv` excludes this: a socket the back end has not greeted has its greeting still
to come, before any request (`FirstGreets`), one it has greeted and that no later one overtook is the socket
of the context it serves (`Served`), and who was refused has no context any more (`Refused`). A request
not yet sent is nowhere, for which `AnswersKnown` adds that no reply is to an idle request.

Every safety property of the passing runs is proved, but for one assumption: `QueuedHasDelivery` takes it that no lock is freed under a worker that runs. Checked by TLC and not proved: liveness (`EveryExecutionEnds`,
`CancelIsSeen`, `StreamsEnd`, `ToldInTheEnd`, `UploadsEnd`, `JoinedAtLast`) is out of the
prover's reach and stays with TLC.

## 5. Not modelled

- Values: progress figures, results, failures, payloads, timestamps.
- `lease_until`: written, never read by the code.
- `GraphileWorkerQueueAdapter.enqueue` and the store's `appendEvent`: no caller
  in the runtime.
- `GET` of an execution: one read that changes nothing.
- Two API processes that hold one connection pool each: a client here stands for a
  connection whichever process serves it.
- A serialization failure of PostgreSQL is a `DatabaseFault`.
- Retries of a read inside `monitorCancellation`: the monitor may look late or never,
  which is what a failed read comes to.
- Size limits of uploads, and `admission-policy.ts`, which `start.ts` does not choose.
- A caller of `authorize`: the runtime has none, the model lets anyone ask at any time.
- The posture of claims, the difference of two versions and the reads of the research
  protocol.
- Of Theia's connection: the several services on one channel (one stands for all), requests of
  the back end, notifications, cancelling of requests, and Electron's transport. A listener of
  the front end for the answer to a greeting (`ws-connection-source.ts:95` and `119`) that is left
  over when that answer was lost, and runs as well on the answer to the next.
- Migration: one transaction under one advisory lock, then graphile-worker's own
  migrations, which the repository does not hold.
- The rest of Theia: vendored, an application framework of many thousand files whose state is
  that of its user interface.
- Progress reports and abort signals inside the conversion handler: they are those
  of any handler in `ExecutionProcessor`.
- The components marked "not modelled" in `PROJECT.json`, with the reason there.

## 6. Plan

In this order:

1. The in-memory store as a second implementation of `ExecutionContract`.
2. Requests of the back end in `FrontendConnection`: both ends number their requests anew on a new
   channel, so a late reply must not settle another request of the same number.
