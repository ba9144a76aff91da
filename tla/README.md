# TetherDB in TLA+

TetherDB replicates rows from a source database to a sink: a *source* node reads
the changes of a SQL Server database and sends them, batch by batch, over a
WebSocket to a *sink* node, which applies them to Postgres. This directory holds
TLA+ modules of the parts that carry this logic, the TLC configurations that
check them, and proofs for the TLA+ proof system. Paths below are relative to
the root of the repository; `changes.go`, `initialsync.go`, `probe.go` and
`sqlserver.go` are in `internal/connector/sqlserver`, `apply.go` and
`postgres.go` in `internal/connector/postgres`, `dialer.go`, `listener.go`,
`conn.go` and `messages.go` in `internal/transport`, `config.go` in
`internal/config`, `connector.go` in `internal/connector`, `main.go` in
`cmd/tetherdb`.

1. [Inventory](#1-inventory)
2. [Modules](#2-modules)
3. [Runs](#3-runs)
4. [Fairness](#4-fairness)
5. [Proofs](#5-proofs)
6. [Where code and documentation disagree](#6-where-code-and-documentation-disagree)
7. [What is not modelled](#7-what-is-not-modelled)
8. [Plan](#8-plan)

## 1. Inventory

| Part | State it keeps | Operations | What is hard | What makes it correct |
|---|---|---|---|---|
| `Dialer` (dialer.go, conn.go, messages.go) | channels `send`, `Acks`, `Nacks`; in a stream `inflight`, `recvCh`, `recvErr`; the attempt count | `Run`, `runOnce`, `stream` and its reader goroutine, `SendBatch` | three goroutines; a connection lost at any point; cancellation while blocked; full channels; reconnection with batches in flight | no accepted batch is lost; an Ack means committed; nothing is sent again after its Ack; a cancelled `Run` returns; readers exit |
| `Listener` (listener.go) | the HTTP server, one goroutine per connection | `Start`, `handleWS` | the handler of a dead connection goes on beside the next one; connections outlive the server that `Start` closes | only what the sink publishes is served; both ends agree on the outcome of the handshake; the link delivers while its connection lives |
| change stream (changes.go) | `cursor`, `pending` | `Changes`, `Next`, `Cursor`, `Close` | commits between two queries of a fetch; failing in the middle of one; resuming after a crash; change records cleaned up | nothing skipped before the persisted position; rows only move forwards; every change arrives |
| initial sync (initialsync.go) | the open query, the persisted last key | `InitialSync`, `Next`, `Close` | no snapshot; resuming; the handoff to the change stream | after the handoff the consumer has the table |
| Postgres writer (apply.go, postgres.go) | the pool; one transaction per call | `Apply`, `applyBatch`, `execUpsert`, `execDelete`, `Probe`, `New`, `Close` | the answer to COMMIT lost; copies of one batch applied concurrently; failing rollbacks | all of a batch or nothing; repeating a batch changes nothing |
| connector contracts (internal/connector/connector.go) | none | interfaces `Reader`, `ChangeStream`, `RowStream`, `Writer` | | the promises in their comments |
| probe (probe.go) | `mechanism` | `Probe`, the check of each table, the choice between CDC and Change Tracking | one query at a time against a database that changes; the choice may change between two runs, under a persisted cursor | a node that runs has the tables it publishes and a mechanism that is on, CDC if it can |
| SQL Server connector (sqlserver.go) | the pool | `New`, `Close`, `retryWithBackoff` (nothing calls it) | the ping after `sql.Open` fails | the pool is closed by `New`, or by who gets it |
| configuration (config.go) | none | `Load`, `Validate`, roles of a node | values that come from the environment; two places that check the same values | what validation accepts the connectors accept, but for what is listed in section 6 |
| node entrypoint (main.go) | `cancel`, the deferred calls of `Close`, the goroutine of `run` | `Start`, `Stop`, `run` | failing at any of nine steps of `Start`; a server that does not answer | what was opened is closed; `Start` returns; `Stop` ends `run` |
| pipeline engine, state layer, management API | | specified in docs/specs/tetherdb.md, not in the source | | |

How they meet: the engine (once written) reads rows from `InitialSync` and then
changes from `Changes`, groups them in batches, calls `Dialer.SendBatch` and
waits on `Acks` and `Nacks`; the dialer and the listener exchange `Hello`,
`HelloAck`, `ChangeBatch`, `Ack`, `Nack`; the listener calls a `ConnHandler`,
which receives batches, calls `Writer.Apply`, and answers. Nothing in the source
connects the connectors to the transport yet, so the two callers (at the source
and at the sink) are modelled from the comments that say what they must do, and
marked external in `PROJECT.json`. The entrypoint opens and probes the
connectors and then only waits.

`PROJECT.json` lists, under `hazards`, each place in this code where something
can go wrong that a test would hardly reach, with the properties that cover it.

## 2. Modules

```
 Conn ── Dialer ───┐                         SourceDB ─┬─ ChangeStream ── MCChangeStream
   └─── Listener ─ Sink ─ Transport ─┬─ MCTransport    │        ⇓ Feed
                              ⇓      │                 └─ InitialSync ── MCInitialSync
                           Delivery  │
                                     │               PostgresWriter ── MCPostgresWriter
              TransportProofs ───────┘                     ⇓ Writer
                └─ CopyProofs
                     └─ DeliveryProofs               Config ── Node ─┬─ MCNode
                                                                     └─ NodeProofs
   NatSets ─┬─ ChangeStreamProofs (of ChangeStream)
            ├─ InitialSyncProofs (of InitialSync)
            └─ PostgresWriterProofs (of PostgresWriter)

   ── EXTENDS, to the right and downwards
   ⇓  implements (INSTANCE, checked as a PROPERTY)
```

### The link between two nodes

**Conn** is the wire: per connection a queue of frames in each direction, the
two ends, which close independently, and the connections the network has cut.
A message is a type and a batch id; `HelloAck` is split by its `Accepted` field.
A write to a dead connection either fails or succeeds locally and is lost (both,
as TCP does). Reading from a connection whose peer has closed returns the frames
that are left and then an error; when the peer closed over unread data, or the
connection is cut, the frames may be lost.

**Dialer** is dialer.go with one program counter for `Run` (`pc`), one per
reader goroutine (`reader[c]`), and the channels as bounded sequences:

| Code | Model |
|---|---|
| `Run`, its loop and backoff | `RunStart`, `BackoffElapsed`, `BackoffCancelled`, `NextAttempt` |
| `runOnce`: dial, Hello, HelloAck | `Dial`, `DialFails`, `SendHello`(`Fails`), `RecvEnter`, `RecvHelloAck`(`Fails`) |
| its return, with the deferred `Close` | `Lost` |
| `stream`: the cases of the select | `StreamCancelled`, `StreamRecvErr`, `StreamAnswer` and `Deliver`, `StreamTake` and `WriteBatch`(`Fails`) |
| `requeue` | `Requeued` |
| the reader goroutine | `ReaderEnter`, `ReaderRecv`, `ReaderPut`, `ReaderFails` |
| `SendBatch` | `SendBatch` |

A case of the select that goes on to block (writing a frame, delivering an
answer on a channel) is two actions, since everything else can run in between.
`Recv` looks at its context, then blocks: `RecvEnter` and the receive proper are
two actions for that reason. `attempt` saturates at `MaxAttempt`, where the
backoff no longer grows.

**Listener** is `Start` and `handleWS`. `Start` serves (`Serve`) and returns at
any moment (`ServerReturns`: it could not bind, or its context was cancelled).
Then nothing is upgraded any more, but closing an `http.Server` does not touch
the connections that were: their goroutines go on. The tables the sink publishes
are chosen when a behaviour starts (`published`), so one run has sinks that
accept the dialer's subscription and sinks that do not. Sending the `HelloAck`
and calling the handler are one action (`Accept`), as nothing of the connection
changes in between. **Sink** is the `ConnHandler` that the comment in
listener.go asks for, with `Apply` by its contract (`Writer`): it commits, or it
fails, or it commits and says that it failed. All batches write one row, so that
the order of application shows in `row`.

**Transport** composes them with the caller at the source, which leaves at most
`Window` batches unanswered and sends a batch again after its Nack.
docs/specs/tetherdb.md 5.6 describes `Window = 1`; `SendBatch` itself does not
enforce it. **Delivery** is what the link promises with `Window = 1`: batches are
committed in order, at least once, and confirmed after they are committed. It
stops promising progress when `Run` is cancelled, or once `Start` has returned
*and* the last connection is gone (`Abandoned`): until then the link delivers.
`Copies` says where a batch can be between `SendBatch` and its Ack, twelve
places; the proofs count with it. `Blocked(c)` is a reader goroutine that holds
an answer while `recvCh` is full: if `stream` has returned by then, it stays for
good (section 6).

### The source database

**SourceDB** stands for SQL Server: a log of committed row changes. A position in
the log is both the LSN of CDC and the version of Change Tracking. A change
record may be cleaned up when more than `Retention` newer ones exist.
`CDCRecords`, `NowAsLSN` and `ChangeTable` are the server's functions that the
two statements call: the change records in a window of the log, the position of
the time of the query, and the newest change of each row since a version. One
commit changes one row.

**ChangeStream** is changes.go: `Changes`, the loop of `Next` (`Pop`,
`ReadVersion`, one `QueryTable` per table, `FetchReturns`, `FetchFails`), the
wait of an empty fetch (`PollCancelled` is its only end), and `Cursor` as the
consumer uses it (`Persist`). Commits interleave with every one of these steps.
The consumer persists a position after each change, as the interface says
(`Lagged = FALSE`), or only once `Cursor()` has moved on from it (`Lagged =
TRUE`). When `Next` fails it calls it again; opening a new stream from
`Cursor()` comes to the same, as nothing is pending when a fetch fails.
**Feed** is what a stream promises: each row moves through its versions,
forwards only; with CDC no version is left out. What a restart delivers again is
no step of a feed: `at[r]` is the newest version of row r that has been
processed. The mechanism is chosen when a behaviour starts (`mechanism`).

The text of both statements is not what the code around them needs
(`claim_queries`): the window of the CDC statement starts at `GETDATE()`, after
the maximum LSN where it ends, and the Change Tracking statement joins on a
literal placeholder. So the text is a variable of its own, `statements`, chosen
when a behaviour starts. With `"written"` the window starts at `NowAsLSN`
(`WindowStart`), the placeholder is refused, and so may the empty window be
(`StatementFails`). With `"meant"` the window starts at the cursor, as the comment
of `fetchCDCForTable` says, and the join is on the primary key. Everything else
is the same code. What `stream` shows of the progress of the code, it shows of
`"meant"`; what it shows of safety holds of both.

`Captured` tells whether CDC had captured a change before the behaviour starts.
If not, the maximum LSN is NULL, the position the empty string, and `NoPosition`
takes it for no cursor (section 6). The runs and theorems have `Captured = TRUE`.

**InitialSync** is initialsync.go: the query runs at the server row by row
(`ServerReads`) with up to `Buffer` rows in the driver, `Next` returns them, the
consumer writes a row and persists its key. A key is a tuple of columns;
`pkCols` are the columns that `primaryKeyColumns` returns, in its order. Errors of
`Next` and crashes lead back to `InitialSync` with the persisted key. After the
last row the change stream takes over; `from` is taken before the scan
(`CursorFirst = TRUE`) or after it. `CatchUp` is one call of `Next` that finds
something, and what the consumer makes of it: `Fetched` are the change records
that the statement of the mechanism returns, as it is meant, from those that the
cleanup has left, and `Told(k)` says whether they tell the consumer how row `k` is
now. Change Tracking has no key for a row that is gone. The steps within that call
are ChangeStream's.

### The sink database

**PostgresWriter** is `Apply`, `applyBatch`, `execUpsert` and `execDelete` with
several callers, against Postgres as far as they need it: read committed, a lock
per written row until the end of the transaction, and a transaction whose client
is gone keeps its locks until the server notices. A change is an upsert, a
`touch` (an insert with no column but its key: `ON CONFLICT DO NOTHING`), a
delete, or of an op the code does not know; `pk` is FALSE for a change without a
key. **Writer** is the contract: all or nothing, at one moment, before `nil` is
returned. PostgresWriter has one assumption on its callers, that no handler
still holds an *earlier* batch; that the transport does not guarantee this is the run
`claim_duplicate`.

### A node

**Config** is config.go as operators: the sections of the file with the values
that the checks tell apart, `Interpolate` (each reference to a variable becomes
its value, which may be anything, and is empty when the variable is not set), `Validate` with one operator per section, the
predicates for the optional parts, and beside them what `sqlserver.New`,
`postgres.New` and the probe ask of the same values (`SourceConfigOK`,
`SinkConfigOK`, `SplitTable`).

**Node** is one process after another. `pc` is where `Start` is:

| Code | Model |
|---|---|
| `config.Load` | `Load`, `LoadFails` |
| `sqlserver.New`: `validateConfig` and `sql.Open`, then the ping | `OpenSource`; `PingSource`, `PingSourceFails` |
| `Probe`: one turn of its loop per table, then `detectMechanism` | `CheckTable`, `TablesChecked`; `DetectCDC`, `DetectCT`; `QueryFails` |
| `postgres.New`, its ping, `Probe` | `OpenSink`; `PingSink`, `PingSinkFails`; `ProbeSink` |
| `go p.run(ctx)`; the return of `Start` with its deferred `Close` calls | `Launch`; `Return` |
| `Stop`, `run` | `Stop`, `RunReturns` |

Every query is a step, between any two of which somebody may create or drop a
table or turn a mechanism on or off (`ChangeDatabase`), and the process may be
killed and started again with the same file (`Restart`). Which values variables
of the environment hold is chosen at each `Load`.

MC modules give the constants values that a `.cfg` cannot write, and state the
claims that a `violation` run refutes. Operators named as a *faulty variant* are
mutations of the definition after them; no run uses them, and each is listed in
`PROJECT.json` with the property that notices it.

## 3. Runs

Run `tlc -config X.cfg M` with the names below. Sizes are distinct states.

### Properties that hold

| Run (module) | Shows | Bounds, states |
|---|---|---|
| `transport_one` (MCTransport) | one batch outstanding: `NoBatchLost`, `AckMeansCommitted`, `AckedNeverResent`, `AnswerHasRoom`, `ReadersHaveRoom`; with a sink that publishes all or part of the subscription, `StreamsOnlyToHandler`, `OnlyPublishedCommitted`; `CancelStopsRun`; and `LinkSpec`, `LinkLiveSpec`, the refinement of Delivery and of its liveness | 3 batches, 2 connections of which 1 may break, 2 failing `Apply`s, all channels of size 1; 196,020 |
| `transport_pipelined` (MCTransport) | two batches outstanding: `AckedNeverResent`, `AnswerHasRoom` and `WiresAreShort` for a window that is not 1; `HandshakeInv`, `AckInv`, `CopyInv`, the inductive invariants of the proofs; and `ReadersExit` with a window larger than `recvCh`: abandoned readers exit, but for those that are `Blocked`, which happens here | 2 batches, 2 connections of which 1 may break, 1 failing `Apply`, channels of size 2, `recvCh` of 1; 608,542 |
| `stream` (MCChangeStream) | `SavedIsProcessed`, `DrainedMirrors`: by CDC and by Change Tracking, with the statements as written and as meant, nothing is skipped by failing fetches, crashes or commits between the queries, for the consumer that persists late; `FeedSpec`, the refinement of Feed: every row moves forwards only; `FeedCompletes`, its liveness with the statements as meant: every row arrives at its last version | 3 tables of one row of which 2 are subscribed, 3 commits of which the cleanup spares the newest, 2 failing queries, 1 crash; 584,278 |
| `sync` (MCInitialSync) | `SyncedMirrors`, `SyncEnds`, and for a key of one column `ResumeSkipsDelivered`, the change cursor taken first, by CDC and by Change Tracking | 3 rows, a key of one column or of two, 3 commits of which the cleanup spares the newest, 2 rows in the driver, 2 errors or crashes; 573,246 |
| `apply` (MCPostgresWriter) | `TableIsPrefix`, `ContractSpec`, the refinement of Writer, and `EveryBatchApplied`: no lock, copy or lost transaction stops the sink before the batch that Postgres refuses, of which nothing ever becomes visible | 3 handlers, 5 batches over 2 rows, the last one refused, 3 faults; 12,811 |
| `node` (MCNode) | `NothingLeaks`, `EveryPoolHasACloser`: whichever step of `Start` fails, every pool is closed; `RunsOnWhatIsThere`; `RefusedOnlyIfOverlooked`: validation and the connectors agree on every configuration but a known few; `StartReturns`, `StopEndsRun` | files with any of the optional sections, of which one at most has one field that is unusual; 2 tables, 1 change of the database, 1 restart; the variables of the environment, each by itself, empty, valid, malformed or too long; 469,184 |

`transport_one`, `stream`, `sync`, `apply` and `node` also check the type invariants of
their modules. TLC's check for deadlock is on in every run.

Why the bounds are enough to see the interesting cases. *Transport:* a
connection that breaks lets a batch be lost and delivered a second time, with
the handler of the dead connection still running; three batches are one that is
answered, one in doubt and the next; capacities of 1 make every channel full,
and with a window of 2 a `recvCh` of 1 overflows, as the 4 of the code do with a
window of 5. A batch that is lost twice needs a third connection, which the runs
leave to the proofs. *ChangeStream:* two tables are one query that succeeds and
one that fails; the third is a change that is none of the stream's; with three
commits a row changes between two queries, between two fetches, and again
before the cleanup has spared only the newest record; two failures are one in
each half of the fetch, before and after the crash. *InitialSync:* three rows put
a change behind, at and ahead of the scan, and three commits are one during the
scan, one before a resumption and one that the cleanup spares; the two columns
of the key are in another order by name than in the table.
*PostgresWriter:* three handlers are two copies of a batch and a lost
transaction. *Node:* the rules of validation look at one section each, but for
subscriptions, which are compared with the connector's tables; so files in which
one field is unusual meet each rule, and the combinations of optional sections
meet the rest. One change of the database falls between any two queries of
`Probe`. The proofs have no such bounds.

The bounds are `MaxBatch`, `MaxBreaks`, `MaxFaults`, `MaxAttempt`, `MaxCommits`,
`MaxCrashes`, `MaxChanges`, `MaxRestarts`, `Buffer`; each is named where it is
declared, and each limits only how often something happens. `Retention` and the capacities are parameters of
the system.

Four things are excepted by name, because the code does lose them or wait for
ever (section 6): what the cleanup has discarded before it was read (`i > purged`
in `SavedIsProcessed`, `Untold` in `DrainedMirrors` and `SyncedMirrors`); a deletion
that comes by Change Tracking (`Untold`); progress with the statements as they
are written (`FeedCompletes`); and a reader left behind with more answers than
`recvCh` holds (`Blocked` in `ReadersExit`).

### Claims that do not hold

Each of these runs checks one claim of a comment or a document and TLC finds a
behaviour of the code that contradicts it.

| Run | Claim | What the code does |
|---|---|---|
| `claim_requeue` | "If the connection is lost while a batch is in-flight …, the batch is re-queued" (dialer.go:167) | only the batch written last is remembered; with two outstanding the first is lost |
| `claim_duplicate` | idempotent apply handles duplicate delivery (docs/specs/tetherdb.md:169) | a handler left over from a lost connection applies an old batch after newer ones: a row goes back |
| `claim_resume` | `Cursor` is "the opaque position of the most recently returned change" (connector.go:100) | it is the end of the batch; persisted after a change, it skips the rest of the batch |
| `claim_poll` | `Next` "blocks until one is available" (connector.go:97) | after an empty fetch it waits for its context only |
| `claim_queries` | `fetchCDCForTable` reads the changes "between fromLSN and toLSN" (changes.go:146), "no change is skipped" (changes.go:25) | as the two statements are written no change is ever returned: the window of CDC is empty or refused, the join of Change Tracking refused |
| `claim_handoff` | call `InitialSync` per table, "then Changes" (connector.go:110) | a change behind the scan is in neither |

The consumers of the passing runs are therefore the ones these findings call
for: one batch outstanding, positions persisted one batch late, a deadline on
every call of `Next`, the change cursor taken before the initial sync; and where
progress is claimed, the statements are the ones `claim_queries` calls for.

## 4. Fairness

* *Transport* (`FairSpec`): weak fairness of the caller, of `Run`, of every
  reader goroutine and of every goroutine of the sink (the Go scheduler runs
  what can run, and every one of these loops), and strong fairness of
  `Connect`: a dial that is tried again and again while the sink is up succeeds
  at last. No fairness of `Cancel` or `Break`; the last connection cannot break,
  since a link that is cut for ever delivers nothing. The sink's `Start` gets to
  serve if it does not return, and nothing makes it return. That the sink is
  fair is an assumption that `CancelStopsRun` needs (section 6).
* *ChangeStream* (`DeadlineSpec`): weak fairness of the stream and its consumer,
  and of `PollCancelled`, that is, each call of `Next` has a deadline.
  `PatientSpec` is without that, for `claim_poll`. No fairness of the
  applications, the cleanup, failures or crashes.
* *InitialSync* (`FairSpec`): weak fairness of the sync and the query; errors,
  crashes and commits are bounded and not fair.
* *PostgresWriter* (`FairSpec`): weak fairness of every handler in `Apply`, of
  some handler calling it, and of the server noticing lost clients.
* *Node* (`FairSpec`): weak fairness of `Proceed`, that is of `Start` going on
  by itself or with the answer of a server, and of `run`. No failure, change of
  the database, `Stop` or restart is fair. That servers answer is an assumption:
  `Start` pings and queries with contexts that have no deadline.

No fairness says that a process fails: in every run any of them may crash or
stop where its own component models that (`Cancel`, `Break`, `ServerReturns`,
`Crash`, `Stop`). The safety properties are checked in the same runs; fairness does
not restrict the reachable states.

## 5. Proofs

Eight modules hold proofs. Every invariant that a run checks, and every
refinement but for its liveness, is a theorem, for every value of the constants
that satisfies the named assumptions and with no bound on the length of a
behaviour. The assumptions:

* link: `ConnAssumption`, `DialerAssumption`, `SinkAssumption`,
  `TransportAssumption` (the capacities, the window and the number of batches are
  positive, the other bounds naturals);
* node: `NodeAssumption` (its configurations are configurations);
* source: `SourceDBAssumption`, `StreamAssumption`, `SyncAssumption` (bounds are
  naturals, tables and operations what they are called), and `KeyAssumption`:
  two rows that agree on the columns of a primary key are the same row, and the
  values of these columns are ordered, as the server orders them, like numbers;
* Postgres: `WriterAssumption` (batches are sequences of changes; `NoRow` is no
  content).

Where a theorem asks more, it says so: `Window = 1`, `Lagged` (the consumer
persists one batch late), `CursorFirst` (it takes its change cursor before the
scan) and `Captured` (CDC had captured a change before the stream starts). Without
these TLC finds counterexamples: `claim_requeue`, `claim_resume`, `claim_handoff`,
and for `Captured` the run `stream` with `Captured = FALSE`, where
`SavedIsProcessed` fails.

| Module | Theorem | States |
|---|---|---|
| TransportProofs | `TypeCorrect` | `TypeOK`; in particular no channel holds more than its capacity and `attempt` never leaves the range of the delays |
| | `HandshakeAgreement` | `StreamsOnlyToHandler`: the dialer streams only on a connection that the listener has given to its handler |
| | `AcksAreTrue` | `AckMeansCommitted`, for every window |
| | `OnlyPublished` | `OnlyPublishedCommitted` |
| | `Invariance`, `HandshakeHolds`, `AcksUnderWay` | the inductive invariant `Inv` and its parts, which the first three rest on |
| CopyProofs | `CopiesCounted` | `CopyInv`: never two copies of a batch on its way out and back, for every window |
| | `NeverResent` | `AckedNeverResent`, for every window |
| | `AnswersHaveRoom` | `AnswerHasRoom`, if `Window <= RespCap` |
| | `WiresShort` | `WiresAreShort`, for every window |
| | `ReadersRoom` | `ReadersHaveRoom`: no reader is left behind if `Window <= RecvCap` |
| DeliveryProofs | `NothingLost` | `NoBatchLost`, if `Window = 1` |
| | `LinkImplementsDelivery` | `Spec => LinkSpec`, if `Window = 1`: the link refines Delivery |
| | `OnlyLastInDoubt` | `OneInDoubt`, if `Window = 1`: the sink has the batches in order and without a gap, and the caller has the Ack of all but the last |
| NodeProofs | `PoolsAreClosed`, `ClosersAreKnown` | `NothingLeaks`, `EveryPoolHasACloser` |
| | `ProbeIsSound` | `RunsOnWhatIsThere` |
| | `ValidationAgrees` | `RefusedOnlyIfOverlooked`, for every configuration, not only the ones that TLC tries |
| | `TypeCorrect`, `Invariance` | the types and the inductive invariant of a node |
| PostgresWriterProofs | `ReapplyChangesNothing` | applying any batch to the table that has it already changes nothing |
| | `TypeCorrect` | `TypeOK` |
| | `TableIsAPrefix` | `TableIsPrefix`, for any number of handlers, batches and faults |
| | `KeepsContract` | `Spec => ContractSpec`: Apply refines Writer |
| ChangeStreamProofs | `TypeCorrect` | `TypeOK` |
| | `NothingSkipped` | `SavedIsProcessed`, if `Lagged` and `Captured`, with the statements as written and as meant |
| | `ImplementsFeed` | `Spec => FeedSpec`, if `Lagged` and `Captured`: the stream refines Feed |
| | `DrainedIsCurrent` | `DrainedMirrors`, if `Lagged` and `Captured` |
| | `CaughtUpIsCurrent` | if `Lagged` and `Captured`, at the end of the log the rows at the consumer are those of the source, but for what could not be told |
| InitialSyncProofs | `TypeCorrect` | `TypeOK` |
| | `ResumeGoesOn` | `ResumeSkipsDelivered` |
| | `SyncIsComplete` | `SyncedMirrors`, if `CursorFirst`, for any key, table, mechanism and number of interruptions: the consumer has the table, but for rows whose last change record was cleaned up and for deletions under Change Tracking (`Untold`) |
| NatSets | `SetInduction` | induction over a set of numbers, which the three modules above use |

### TransportProofs

`Inv` is `TypeOK /\ HandshakeInv /\ AckInv`, and none of the three is inductive
without the others:

* `StreamsOnlyToHandler` holds when an acceptance is received only if there is
  no acceptance on a connection that has no handler, which needs what a
  listener finds on its wire in each state (`HandshakeOn`): one `hello`, first;
  then only batches. So a handler never finds anything but a batch, which the
  types of `work` need as well.
* `AckMeansCommitted` needs every Ack on its way to be of a committed batch:
  in the handler, on the wire, with the reader, in `recvCh`, in delivery, in
  `d.Acks` (`AckInv`). `Truthful`, the messages that may be there, only grows,
  because `applied` does; the lemmas on frames say so once.
* `OnlyPublishedCommitted` has an invariant of its own, `SubscriptionInv`, over
  the types: what is accepted, let alone served, is published.

Wires are described by the alphabet of their messages (`down[c] \in
Seq(Truthful)`), so that `Head`, `Tail` and `Append` are handled by a few lemmas
for all queues. Each part has one lemma per component (`Dialer`, readers, sink,
caller) with one step per action.

### CopyProofs

`Copies` distributes the batches over twelve places between `SendBatch` and its
Ack. `OneCopy` says that no batch is in two of them or twice in one; what is left
of a connection that is lost does not count, since nobody listens to it. Three
more parts make it inductive:

* `InflightInv`: the batch that `inflight` remembers is in no place from where it
  would be sent again. Otherwise the requeue after a loss would make a second
  copy. It needs that an answer clears `inflight` only when it is the answer to
  that batch (dialer.go:209).
* `FreshInv`: a connection that starts to stream carries no batch. This is what
  the handshake is good for here: `Greets` says that there is one `Hello` and
  at most one answer on it.
* `WindowInv`: an unanswered batch is less than `Window` behind the newest.

Each place is a set of ids, so a step is one of three kinds: a batch goes from
one place to another (`Move`), enters (`Enter`), or is forgotten (`Shrink`);
every action is one of them, and the lemma of that kind does the rest. The
bounds of `AnswersHaveRoom` and `WiresShort` are then an argument by pigeonholes:
a queue without repetition, of unanswered batches, is not longer than there are
unanswered batches. `ReadersRoom` needs them of a stream that has ended, too, where
`Copies` counts nothing. `RoomInv` carries the bound over: while the connection
streams, `StreamFits` counts what is in `down`, in the hands of the reader and in
`recvCh`; when `stream` returns, `runOnce` closes the connection, and a closed one
carries no further answer (`PutClosed`).

### DeliveryProofs

With `Window = 1` all places together hold one batch. `HeldInv` adds to
`NoBatchLost` that `resp` is empty but while it is delivered; a loss can then
only strike `inflight`, which is requeued. For a larger window this step fails,
and `claim_requeue` shows how. The refinement needs `SubmittedInv` besides: the
handler that outlives its connection holds only batches that were submitted, so
that a commit of it is either the one outstanding batch (`Commit`), or one that
is committed already and a stutter; and that `Abandoned` is never revoked
(`AbandonedStays`). `OnlyLastInDoubt` is an invariant of Delivery, a few lines of
case analysis; by the refinement it is one of the link, whose own steps its proof
need not look at.

### NodeProofs

`NothingLeaks` is about the end of `Start` and says nothing of the steps before.
The invariant goes step by step instead: `PoolInv` says which pools are open and
which are deferred at each place, `LoadInv` what `Load` has validated,
`ProbeInv` that the published tables are the ones still to check and the ones
that were found, and `ClearedInv` what is known once the connector, and then the
sink, has been passed. `PlaceInv` is where the error and the goroutine of `run`
can be. `Todo`, the tables left to check, is a set, so that the loop needs no
induction.

### NatSets

The library's theorem of induction takes a predicate as its parameter, which the
provers cannot instantiate. `SetInduction` takes a *set* of numbers instead, and
follows from the library's fact that `<` is well-founded: what is to be shown of
every `n` becomes membership in `{n \in Nat : ...}`. That is enough for the
recursive functions of these modules (`Upto`, `TableAfter`, `InOrder`): each is
shown to satisfy its own recursion, and then what it computes, by this induction.
`Max` of a bounded set comes from here, too.

### PostgresWriterProofs

The core is a fact about batches alone. While a batch is applied to a table that
may hold it already, the transaction's rows are neither the old table nor the
new one. `Catching` says what they are, row by row: after `n` changes, row `k` is
what the first `n` changes make of it, or a later change of the batch settles it
whatever it is now, or it is what the *whole* batch makes of it. `CatchingStep`
moves this one change forwards, and after the last one all rows are those of the
new table. `ReapplyChangesNothing` is the case of a table that had it all.

`IInv` then is `TypeInv`, `JobInv` (all calls under way are of one batch, the
last one answered or the next), `TxInv` (a transaction has brought its rows as
far as `Catching` says; one that has committed has its batch in the table), and
`TableInv` (the table holds `done` batches, or one more that Postgres can apply).
The third part of `TableInv`, that the next batch is not in the table while a
copy of the last one runs, is what the assumption on the callers (section 2) is
for: without it a late copy would take the table back. The proof nowhere uses
the row locks: of two copies either may commit first, since they write the same.
Locks matter for `EveryBatchApplied` only.

### ChangeStreamProofs

`NothingSkipped` needs to know at every step where each change is. `PosInv`
orders the positions (`saved <= known <= cursor <= upto`), and `CoverInv` follows a
version: up to the position that is persisted next, it has been processed; up to
the cursor, it or a later one of its row is in the queue; up to `upto`, its table
is still to be queried or it has been collected; or else it is none of the
stream's, or was purged. A failed fetch forgets what was collected and leaves
the cursor, a crash forgets the queue and returns to `saved`, and the same
sentence is true again.

`ImplementsFeed` adds `RealInv` (what is queued is a change of the log, of a
subscribed row) and, for CDC, `OrderInv`: before a change comes, in the queue or
at the consumer, every earlier one of its row that is kept. After a crash the
queue is empty and the rows at the consumer are ahead of `saved`; what then
comes again is no step of the feed. `RealInv` also says that the statements as
they are written collect nothing, so that for them the cursor never moves.

`DrainedIsCurrent` is about contents. `FreshInv` says what each row at the
consumer will be when the changes that are left in the queue have been
processed: the last change of a row `Leaves` it as it is at the cursor or later,
a row without one in the queue is so already, and during a fetch the same holds
of `upto` for the tables already queried. Change Tracking gives the content *now*, so
"or later" is needed; the version is read before the queries (changes.go:246),
and the proof step of `QueryTable` is where that order is needed.

### InitialSyncProofs

`ScanInv` says what the scan is: rows in the driver rise strictly, lie between
the persisted key and `mark`, and the row that `Next` has returned comes before
them. `ResumeGoesOn` follows from it, and `Before` has to be transitive.

For `SyncIsComplete` the idea is `SyncInv`: a row that no commit has changed
since the cursor was taken is at the consumer as it is, or it is absent there and
on its way (`OnItsWay`: in the driver, in the hands of the consumer, or still
ahead of the scan). A row that has changed may be anything, since the stream will
bring it. When a scan ends nothing is ahead, so what is not at the consumer does
not exist. Errors and crashes put the scan back to the persisted key; whatever is
lost on its way was after that key, so it is ahead again: this is the step that
needs `ScanInv`. With `StreamInv` the same goes on for the stream: a row that no
commit has changed since the position the stream has reached is at the consumer
as it is, or is `Untold`. The step is `CatchUp`: a row that has changed is fetched
by either mechanism, since its newest change record is behind the cursor, and the
consumer is told; if not (`NotTold`), the record was purged, or the row is gone and
the mechanism is Change Tracking. That the fetch of several tables, with commits
between its queries, comes to what one `CatchUp` does is `CaughtUpIsCurrent`.

### What is only model-checked

Liveness, which the prover does not handle (nor does it handle `ENABLED`):
`CancelStopsRun`, `ReadersExit` (its safety half, `ReadersHaveRoom`, is proved),
`FeedCompletes`, the liveness in `LinkLiveSpec`, `SyncEnds`, `EveryBatchApplied`, `StartReturns`, `StopEndsRun`. The claims that
do not hold are TLC's by nature.

## 6. Where code and documentation disagree

Besides the findings above, these were met while modelling. The first six are
losses, leaks or waits of the running system; the modules have the behaviour, and
the properties say what they except.

* The reader goroutine of `stream` sends to `recvCh` without a select
  (dialer.go:179), and nobody receives once `stream` has returned. It blocks for
  ever, with its connection and messages, if it holds an answer when the 4 places
  of `recvCh` are taken, that is if more than 4 answers have come on one
  connection that `stream` had not taken. A caller that leaves 5 batches
  unanswered, which `SendBatch` allows, can meet it at every loss of a connection.
  `ReadersExit` excepts exactly this (`Blocked`), and without the exception TLC
  finds it violated in `transport_pipelined`; up to 4 unanswered batches it cannot
  happen (`ReadersRoom`).
* Before CDC has captured its first change `fn_cdc_get_max_lsn()` is NULL, which
  `currentMaxLSN` formats as the empty string (changes.go:235-239). A consumer
  that persists that position and passes it to `Changes` after a restart has "no
  cursor" (changes.go:43), so the stream starts at the position of that moment and
  skips what was committed before it. `stream` with `Captured = FALSE` has the
  counterexample.
* A Change Tracking deletion takes its key from the columns of the table
  (changes.go:349), which the `LEFT JOIN` leaves null for a row that is gone. It
  names no row, and the row stays at the sink. connector.go:27 says "PK is
  always populated and identifies the row".
* By the same line of connector.go, inserts and updates should have a PK; both
  scans leave it nil (changes.go:209, 344), and the Postgres writer builds its
  conflict target from it (apply.go:36). In ChangeStream `pk` is `"nil"` there;
  in PostgresWriter such a change is one that Postgres refuses.
* Nothing compares a cursor with the oldest change record the server still has,
  so a stream that resumes after the cleanup goes on behind the gap, where the
  server does not refuse the query.
* `Recv` looks at its context, then blocks without a deadline (conn.go:74). A
  cancelled `Run` that waits for a `HelloAck` returns only when the sink answers
  or closes; PRPs/websocket-transport.md:203 says that cancellation "exits the
  loop immediately".
* With a composite key a resumed initial sync returns the whole table again
  (initialsync.go:141); initialsync.go:19 says that rows at or below `LastPK` are
  skipped. `sync` shows that it does no harm.
* `SendBatch` returns as soon as the batch is in the channel; dialer.go:111 says
  that it "blocks until the connection is established and the batch has been
  written".
* "Rejection is permanent" (dialer.go:157), but `Run` dials again.
* Callers "must not call Send and Recv concurrently on the same Conn"
  (conn.go:14). `stream` does, and gorilla/websocket allows it: the comment is
  wrong.
* The two statements of changes.go, apart from what `claim_queries` shows: `N'all
  with mask'` is none of the filters of `fn_cdc_get_all_changes`, and the LSN is
  passed as a string of hexadecimal digits, which the server does not convert to
  the LSN it was. The modules take neither into account.
* The comment of `primaryKeyColumns` (initialsync.go:95) says ordinal order; the
  query orders by column name. All scans use the same order, so `sync` finds
  nothing wrong with it.
* A `LastPK` without the key column makes the resumed scan compare with nothing
  and return no rows.
* All columns of a CDC row, its `__$` metadata included, end up in `After`
  and `PK`.
* The DSN: postgres.go:16 and PRPs/postgres-writer.md:52 contradict each other.
* A batch that Postgres refuses is answered with a Nack and retried for ever;
  everything behind it waits (`apply` shows that at least nothing of it becomes
  visible).
* `d.Acks <- m` does not look at the context. With one batch outstanding there
  is always room (`AnswerHasRoom`); a caller that stops consuming with 16
  answers behind would keep `Run` from returning.
* `attempt` is not reset by a successful connection.
* `http.Server.Close` does not close upgraded connections, the context of a
  handler is never cancelled, and `handleWS` does not close the connection when
  its handler returns. Transport has this; `Abandoned` says what is left of the
  promises of a link whose listener has returned.
* The set of published tables of a node that is only a sink is nil, and then a
  listener that is given it rejects every table.
* A cursor does not say which mechanism it belongs to. When a restart finds CDC
  switched on, or off, the persisted one is handed to the other query. A CDC
  position, a string of hexadecimal digits, is no number to `ParseInt`
  (changes.go:251) and every `Next` fails; if its digits happen to be decimal
  and to fit, it is a huge version, `curVer <= fromVer` holds, and the stream is
  silent. A version that is handed to the CDC query is compared with LSNs in
  whatever way the server converts it. `mechanism` does not change within a
  behaviour of ChangeStream.
* Validation and the connectors do not agree on everything
  (`Overlooked` in Node has the complete list, which `ValidationAgrees` proves):
  an empty database, a host of more than 253 characters, a table without a
  schema, and the port of a sink that has no DSN pass `Validate` and are refused
  when the node starts. `TestLoad_ValidSourceNode` calls a file valid that the
  probe refuses.
* "Ignored when Instance is set" (config.go:106, of `Port`): `validateConnector`
  checks it nevertheless.
* `Start` "returns immediately" (main.go:135), but it pings and queries both
  servers first, without a deadline. `StartReturns` assumes that they answer.
* `Stop` cancels the context "causing run() to return", and itself returns
  without waiting for it. `StopEndsRun` is therefore a liveness property.
* After a successful `Start` no connector is open: the deferred calls of
  `Close` run when it returns, whether or not it fails. The engine will have to
  open them again.
* The roles of a node overlap (a source may be a relay), and a node with a
  connector and neither connections nor `[listen]`, which can do nothing, passes
  `Validate`.

## 7. What is not modelled

* SQL Server, Postgres and TCP are external. They are modelled as far as the
  code depends on them, from how it uses them.
* The pipeline engine, the state layer and the management API: they are
  described in docs/specs/tetherdb.md and are not in the source. The callers at
  the source and at the sink follow the comments of the code that they would
  call. An end-to-end composition would model that document, so there is none.
* A restart of the *dialer's* node: nothing that it would resume from is
  persisted by the source. Restarts of the consumers of ChangeStream and
  InitialSync are modelled with the cursors the interfaces define; crashes of
  the sink in PostgresWriter; restarts of a node's process in Node.
* A change of the mechanism under a persisted cursor (section 6): the positions
  of the two mechanisms are numbers of two different logs, and no code persists
  a cursor yet.
* TCP back-pressure: the wire is not bounded. `WiresAreShort`, which is proved,
  bounds the messages on a connection by `Window`, both directions together; it
  does not bound their bytes, so a window of very large batches may still fill
  the buffers of the network.
* A sink that is silent without closing: the sink of every run answers or
  closes in the end.
* A table without a primary key: its query has no `ORDER BY` (initialsync.go:146),
  its rows have no name for the consumer to persist, and a resumed scan starts
  over. `KeyAssumption` leaves it out.
* A listener without a `Handler` (listener.go:159), which accepts a connection and
  then does nothing with it.
* References to the environment outside the fields of `Referable`, and variables
  whose value changes what the file says around it.
* `retryWithBackoff` (sqlserver.go): nothing calls it.
* The subcommands of `main()`, which hand over to kardianos/service; the roles
  `IsSourceNode`, `IsSinkNode`, `IsRelayNode`, which nothing calls; `Redacted*`.
* TLS, beyond whether `Start` gets to serve.
* Payloads, JSON, the text of DSNs and SQL, logging.

## 8. Plan

Done: the link with its listener's life (Conn, Dialer, Listener, Sink,
Transport, Delivery), the change stream (SourceDB, ChangeStream, Feed), the
initial sync, the Postgres writer (PostgresWriter, Writer), the node and its
configuration (Config, Node); proofs of every safety property that the runs check
and of the refinements of Delivery, Feed and Writer.

Next:

1. More of what follows from the abstract specifications, as `OnlyLastInDoubt`
   follows from Delivery: what a consumer of Feed and a caller of Writer may rely
   on.
2. InitialSync composed with ChangeStream, step by step, in place of `CatchUp`.
3. When the engine exists: `Pipeline`, the change stream, the link and the writer
   end to end, which implements a replica that follows the source; the mechanism
   together with the cursor; restarts of the source's node.
