# A specification of scamper-client-go

`scamper-client-go` runs traceroutes through the scamper program, either one
child process per measurement (`legacy/`) or through the control socket of a
scamper daemon (`socket/`), on top of an execution layer that both share
(`internal/run`). These modules specify the control session, its reconnects, the
execution layer, the process-per-attempt client, and the way of a
configuration through the command line to scamper and of scamper's records back.

To check a run: `tlc -config <run>.cfg <module>.tla` (the module of each run is
in the table below). To check the proofs: `tlapm <module>.tla` for each of the
modules named `...Proofs`.

## The system

| Component | State | Operations | Talks to |
|---|---|---|---|
| connection (`socket/session.go`) | `replyQ`, `ids`, `writeCh`, `dead`, the once of `fail`; per job `done`/`ch`, `canceled`, `id` | `writeLoop`, `readLoop` (`handleLine`, `handleData`, `bindID`, `consumeReply`, `failNextReply`), `enqueueHalt`, `fail` | daemon (socket), callers (`writeCh`, `job.ch`, `dead`), supervisor (`dead`) |
| session (`socket/session.go`, `reconnect.go`) | `conn`, `readyCh`, `gen`, `closed`/`closeCh`, `sem` | `trace`, `waitReady`, `halt`, `supervise`, `dial`, `setConn`, `clearConn`, `Close` | connections, callers, `internal/run` |
| reconnect policy (`internal/core/types.go`) | the supervisor's `backoff` | `Normalized`, `Next` | `supervise` |
| single-target execution (`internal/run/run.go`) | attempt counter, last error, per-attempt context | `Trace`, `sleepCtx`, `retryBackoff`, `core.IsRetryable` | an `OnceFunc`: `session.trace` or a child process |
| batch execution (`internal/run/run.go`) | `jobs`, result slots, `completed`, `batchCtx` | submit loop, workers, final pass | `Trace`, the caller's context, metrics and progress callbacks |
| legacy client (`legacy/client.go`) | `closed`; per attempt a child process | `New`, `Trace`, `TraceBatch`, `once`, `Close` | `internal/run`, scamper processes |
| socket client (`socket/client.go`, `scheduler.go`) | none of its own | `New`, `Trace`, `TraceBatch`, `once`, `Close` | session, `internal/run` |
| configuration (`internal/core/config.go`) | pointers and two slices per `TraceConfig` | setters, `Option`, `ExtraArgs`, `Clone`, `Validate`, `Build`, `BuildArgv`, `ValidateToken` | application, both `once` |
| result parser (`internal/parser/json.go`) | none | `ParseTrace`, `convert`, `buildMetadata` | reader, legacy client |
| options, aliases (`option.go`, ... in the root and `internal/core`) | none | one field each | front ends |

A measurement in socket mode: a worker of `Batch` (or the application) calls
`run.Trace`, which calls `session.trace` once per attempt. `trace` takes a slot
of the semaphore, waits for a connection, puts a request into `writeCh` and
waits for the job's result, the end of its context, `dead` or `closeCh`. The
writer registers the request in `replyQ` and sends it. The reader pops `replyQ`
for every `OK id-N`, `OK halted` and `ERR`, binds ids to jobs, and completes the
job of a `DATA`. A read or write error, a framing error or `Close` calls `fail`,
which completes every job of the two tables and closes `dead`; the supervisor
then withdraws the connection, sleeps, dials, and publishes the next one.

In legacy mode the `OnceFunc` starts `scamper -I "<line>"`, waits for it, looks at the context
first, at the exit second, and parses the output last. The line is the
one that the writer sends in socket mode.

What is hard here:

- **Concurrency.** Callers, one writer, one reader, the supervisor and `Close`
  share a connection through two mutexes and several channels, and `fail` may
  run on three of these goroutines. `select` chooses freely among ready cases,
  so that "after" is often only "usually after".
- **Order.** Replies carry no reference to their command: correctness rests on
  `replyQ` being exactly the list of outstanding replies. `DATA` comes in any
  order, and daemon ids start again at 1 on each connection.
- **Failure.** The daemon may refuse, vanish at any point, send what cannot be
  parsed or framed; a dial may fail; a halt may be dropped on a full queue.
- **Time.** Contexts end at any moment: while waiting for a slot, for a
  connection, for room in the queue, before the id is known, while the result is
  being delivered. `Batch` cancels its own context while workers retry.
- **Aliasing and text.** A configuration is shared by an application and the attempts of a
  batch, and cloned through slices that `append` may extend in place. The
  argument vector becomes one line of words, for a daemon and for `-I` alike.
- **Numbers.** Retry counts, shifts and float multiplications that overflow.

What makes each part correct:

- connection: a reply goes to the command it answers and `DATA` to the caller of
  its task; a failed connection tells its jobs why before it is seen dead; no
  job is told nothing;
- session: no wakeup is lost, a given-up task is halted and only it, everything
  stops after `Close`, everything returns when the daemon answers;
- backoff: between 1 and the cap, above its floor, never sooner after one more
  failure;
- `Trace`: as many attempts as asked and no fewer; its error is the last one's;
- `Batch`: one outcome per target in its own slot, counted once; stopped only
  for a reason; returns, whatever scamper does, if it has a timeout;
- legacy client: at most one process per worker, none left behind; the kill of a process is not
  mistaken for its failure;
- configuration: a clone and its original do not touch each other; scamper reads just
  what was asked;
- parser: both modes make the same result of the same output.

## The modules

| Module | Models | Uses |
|---|---|---|
| `ControlSocket` | the daemon and the socket, as the code under `socket/` uses them (external) | |
| `Connection` | `job`, `connection`: writer, reader, `fail` | extends `ControlSocket` |
| `Session` | callers of `trace`, `supervise`, `Close`; the whole specification and its properties | extends `Connection`, instantiates `Measurement` |
| `Measurement` | abstract: what `trace` promises its callers | |
| `SessionProofs` | theorems about `Session`: types and wakeups | extends `Session` |
| `DeliveryProofs` | the life of a connection, the one a job belongs to, `SpecificError` | extends `SessionProofs` |
| `ReplyProofs` | replies, ids and results: `ReplyAlignment`, `ExactDelivery`, `HaltsOwnTask`; `Session` implements `Measurement` | extends `DeliveryProofs` |
| `TableProofs` | the id table and the halts: `CancelNotForgotten`, `IdTable` | extends `ReplyProofs` |
| `RunTrace` | `run.Trace`, several calls under one parent context | |
| `Batch` | `run.Batch` over `RunTrace` | extends `RunTrace`, instantiates `WorkerPool` |
| `WorkerPool` | abstract: what `run.Batch` promises its caller | |
| `BatchProofs` | theorems about `RunTrace` and `Batch`, which implements `WorkerPool` | extends `Batch` |
| `LegacyClient` | `legacy/client.go`, its `once` in the place of the attempts of `Batch` | extends `Batch` |
| `LegacyProofs` | theorems about `LegacyClient`, which implements `Batch` | extends `LegacyClient`, `BatchProofs` |
| `Reconnect` | `ReconnectPolicy` and the waits of `supervise` | |
| `RetryDelay` | `retryBackoff` along the attempts of one call | |
| `WaitProofs` | theorems about both waits | extends `Reconnect`, `RetryDelay` |
| `TraceConfig` | `TraceConfig` values over a heap of arrays: setters, `Option`, `ExtraArgs`, `Clone` | |
| `CommandLine` | `Validate`, `Build`, `BuildArgv`, the joined line, and how scamper reads it | |
| `ResultParser` | `ParseTrace`, `convert`, `buildMetadata`, `MergeMetadata`, and how each mode applies them | |
| `Attempt` | one call from the configuration to the result, its attempts, and an application that goes on configuring | extends the three above |
| `AttemptProofs` | theorems about `TraceConfig` and `Attempt`: slices and clones, the configuration in use, results | extends `Attempt` |
| `MCSession`, `MCWaits`, `MCAttempt` | symmetry, sets of arguments, and the two waiting loops side by side, for TLC | |

### ControlSocket

Each direction of connection `g` is a bounded FIFO: `toDaemon[g]` of commands,
`toClient[g]` of frames. Lines are abstracted to what the reader distinguishes:
`okid`, `halted`, `err`, the three fates of a `DATA` (`final`, `inprogress`, and
`garbage`, which the parser refuses), `noise` for every line that is skipped
(`MORE`, a bare `OK`, blank and unknown lines, `DATA` without an id), and `bad`
for what cannot be framed. A frame also carries, as history, the job it is really
about (`of`) and the number of replies sent so far (`n`); no action of the client
reads either, except to record what a job was given. The constant `Events` switches on
optional behaviour of the environment (refusals, losses, cancellations, `Close`,
...), so that each run asks its own question at a size that can be explored.

The daemon answers in order, one reply per command, and confirms a halt with
`OK halted` or refuses it with `ERR`, as the package comment of `protocol.go`
and the fake daemon of `session_test.go` have it. What had arrived when the
client closes its end may be in the reader's buffer or not: `CloseSocket` keeps
any prefix.

### Connection

One action per critical section of `c.mu` or `j.mu`, or per channel operation:

- writer: `WriterTake` (receive and `trackReply`), `WriterSend`, `WriterError`,
  `WriterQuit`. `WriterTake` stays possible on a dead connection, because
  `select` may prefer `writeCh`.
- reader: `ReadOkId`, `SetId`, `HaltIfCanceled` are the three sections of
  `bindID`; `ReadErr` then `ReadDeliver`, and `ReadData`, `TakeData`, `ReadDeliver`,
  are the sections of `failNextReply` and `handleData`, with other goroutines in
  between; `ReadHalted`, `ReadNoise`, `ReadBad`, `ReadEnd`.
- `fail`: `Fail` closes the socket and takes both tables; `FailDeliver` completes
  one job at a time, in any order; `FailDone` closes `dead`. A second caller only
  waits (`sync.Once`), which for the writer and reader is indistinguishable from
  stopping.

`complete` has two steps: under `j.mu` it sets `done`, for the first result only (`FailDeliver`,
`ReadDeliver`, which choose `ch[j]`), and after the unlock it sends the result (`FailSend`,
`ReadSend`). In between (`Sending`) another `complete` finds the job done and passes it over, while the caller
finds the channel empty (`Delivered` is false). So `fail` may meet a job whose result the reader is about to send,
skip it, and close `dead` before the result is there: the caller may then return the weak error,
one more way to `finding_late_result`.
After a give-up, `HaltIfCanceled` and the caller's `SendHalt` may both send the halt, when the mark falls between
`setID` and the reader's check; `CancelNotForgotten` is that at least one of them does.

### Session

`pc[j]` follows one call of `trace`: `idle`, `sem`, `lookup`, `parked` or `woken`
(waiting for `readyCh`), `submit`, `await`, `mark` and `halt` (the two sections of
`session.halt`), `done`. A job is one attempt: a retry by `run.Trace` is a new
call and is one of the other jobs. `super` and `closer` are the program counters of
`supervise` and `Close`. A `readyCh` is the flag `ready`: `Lookup` reads it with
`conn` under `s.mu`; `Publish`, in one step, closes it and moves every caller parked on it.
The handshake of `attach` is part of the dial, which succeeds or fails; a failed
handshake has used up a generation, a failed connect has not. The session starts
as `newSession` leaves it after a first dial that succeeded (otherwise there is
no client).

A context has no state: its case in a `select` is an action that may happen any
time (`GivesUp`) when the run allows `"cancel"`.

`Measurement` knows no connection, goroutine, queue or id: a call is new, pending or returned;
it returns the outcome of its own task, the end of its context, `closed` after `Close`, or
an error about its connection that agrees with what ended that connection.
`KeepsPromise` is that `Session` implements it: `call`, `answer` and `fate` are read off `pc`, `outcome`
and the `cause` of the connection of the call. `IdTable` relates the reader's `ids` to
the daemon's tasks: an id in the table is its own job's, whose last
`DATA` is still to come or on its way or whose caller has given up; a running task is in the table or its `OK` is on its way.

### RunTrace and Batch

`RunTrace` has one record of the loop of `run.Trace` per target: inside `once`
(`call`), between attempts (`sleep`), returned. `once` returns success, an error of
its own, the error of the parent context if that has ended, or the deadline of
its own timeout. `Batch` adds the submit loop (`submitter`, `next`), the workers
and the caller's context. The retry count is one of the set `Retries`, chosen in `Init`. `results[t]` is the error of slot `t`, `"stopped"` for
`ErrBatchStopped`. In a `select` with a free queue and an ended context
both cases are possible. After `WaitForWorkers` the final pass takes a step per slot (`PassSlot`) and reads the caller's
context each time, as `run.go:207-211` does: a context that ends during the pass leaves earlier slots with
`ErrBatchStopped` and later ones with its error. Durations, progress and result callbacks
are left out, `OnSubmit` is kept as the set `submitted`.

`WorkerPool` has neither queue nor goroutines, retries nor contexts: a target waits, runs on one
of `Size` workers, is done with an outcome or refused, and the pool returns when none runs.
`ImplementsPool` maps a target to `running` while a worker is in `Trace` with it. A target that was not
measured ends, each for itself, as stopped or with the error of the caller's context; what the final pass has
written so far is not shown before `Batch` returns (`Shown`).

### LegacyClient

`LegacyClient` replaces the attempt, which `Batch` takes as a contract, by what `once` does:
`BadArgv`, `StartProcess` (no process is made for a context that has ended), then `ProcessEnds`, or
`Expire` or the end of the parent and `Kill`, and `OnceReturns`, which waits for the process,
looks at the context, at the exit, and at the output, in this order. The context may end after the process
did and before it is looked at. `ImplementsBatch` is the specification of `Batch`
itself: every behaviour with processes is one of `Batch`, so the properties
of `Batch` and `WorkerPool` carry over. `Trace` is a batch of one target without the pool.

### TraceConfig, CommandLine, ResultParser, Attempt

A `TraceConfig` is a set of fields, an unset one absent, and two slices into `heap`; `append`
writes in place if the array has room, else it allocates with spare room from the set `Spare`. A setter replaces
a pointer, so that scalars need no heap. `Table` has one row per field: flag and values
`Validate` lets through; `Build` renders the rows in its order. A token is one
of a few; `Odd` gives the words that an empty one, one with a blank and one with a line break
fall into when the vector is joined. `ScamperReads` is external: flags, values, rest, as a `getopt` loop over words.
`Requested` is the reference `AskedIsSent` compares it with, written from the table of
`docs/trace-config-design.md`, and independent of order, words and quoting.

`Attempt` follows one call: the application makes, clones and changes configurations, hands one
to `Trace` or `TraceBatch`, and goes on with the others; each attempt
validates, builds and sends again, scamper writes records, a result
or another attempt follows. The configuration in use is not changed, as the type's comment asks.

### Reconnect and RetryDelay

`Reconnect` has the supervisor's loop with the waits that `Session` leaves out:
the multiplier is a fraction, a random draw is any value of its range, and a
float beyond `int64` becomes the least or the largest duration, which is what the
usual processors do. Rounding in `float64` is left out: it matters only for waits
beyond 2^53 ns, 104 days. `RetryDelay` computes the shift by doubling with
wraparound in integers of `Width` bits. It is checked with 200, 5000 and 24 bits in place of 2*10^8 ns,
5*10^9 ns and 64 bits: what matters is that once a shift can overflow the power
of two that divides the value exceeds the cap. `DelayAssumption` says so as `Base * Cap <= IntMax`
(10^18 < 2^63; 10^6 < 2^23): a multiple of 2^k that is neither 0 nor negative is at least 2^k, and
`Base * 2^k` overflows only when 2^k > `Cap`. `Cap * 120 <= IntMax` keeps the jitter from overflowing. `MCWaits` runs both at once; they share nothing.

## The runs

All bounds are in the `.cfg` files. `PipeCap` and `WriteCap` of 1 or 2 make
queues full and empty all the time (256 in the code); two jobs are enough for a
reply, id or result to reach the wrong one, for one to hold what the other waits
for, and for one to be submitted while another is halted; two connections for an id to be
reused and for a stale halt, wakeup or withdrawal to hit the wrong one.

| Run (module) | Asks | Properties |
|---|---|---|
| `session_loss` (`MCSession`) | two calls, two connections, loss, cancellation | `TypeOK`, `NoLostWakeup`, `HaltsOwnTask`, `SpecificError`, `KeepsPromise` |
| `session_daemon` (`MCSession`) | all the daemon may send, halts and refusals; pipes of 2, so that a frame can follow its `OK halted` | `ReplyAlignment`, `ExactDelivery`, `CancelNotForgotten`, `IdTable`, `KeepsPromise` |
| `session_shutdown` (`MCSession`) | `Close` against a call, a loss, a sleep and a dial; one call, since calls do not influence the supervisor | `CloseStopsEverything`, `LossReleasesCallers`, `ReplyAlignment`, `SpecificError`, `KeepsPromise` |
| `session_served` (`MCSession`) | a daemon that keeps answering, pipes and write queue of one entry, two calls that may be cancelled | `EveryCallReturns` |
| `batch_stop` (`Batch`) | 2 workers, 3 targets, a queue of 2 and `DropOnBackpressure`, attempts with a timeout of their own, one retry or a retry count that overflows, `StopOnError`, the caller's context | `TypeOK`, `EveryTargetAccounted`, `StoppedForAReason`, `CancelHasCause`, `GivesUpOnlyWhenItMust`, `ImplementsPool` |
| `legacy_batch` (`LegacyClient`) | 1 worker, 3 targets (one refused), a queue of 1 on which the submitter waits, processes that succeed, fail, hang or are killed, timeouts, a retry, stop, cancellation, `Close` | `EveryTargetAccounted`, `StoppedForAReason`, `KilledIsNotRejected`, `ProcessPool`, `ImplementsBatch`, `HungScamperIsSurvived` |
| `waits` (`MCWaits`) | multiplier 5/2, jitter, overflow of the product; 26 waits of a retry loop: overflow, negative and zero shifts | `TypeOK`, `BackoffKeepsItsFloor`, `FailuresNeverHurry`, `DelayInBounds`, `DelayGrows` |
| `command` (`MCAttempt`) | two configurations, three calls that change one, a field of each kind, odd tokens, one call with two attempts | `AskedIsSent`, `RefusedForCause`, `ModesAgree`, `UserIdComesBack`, `ClonesAreIndependent` |

In `command`, three changes are what it takes to relate two fields, or to fill a slice, clone it and append
to both; the spare room of 2 is so that a pair of extra arguments fits into a shared array. The
fields that the run sets are one of each kind: text, number, truncated time, a switch (on and off), the two pairs `Validate` relates,
one that is empty, and the two that scamper's answer depends on. Outside the run are targets that begin with a
dash, which `ValidateToken` lets through and scamper would read as a flag, and extra arguments other than
a known flag with its value: `ExtraArgs` passes them through as they are, and the code does not check what they mean.

In `session_served` two calls make four commands, their two traces and two halts. `MaxInflight` is 0, so that both are under way at
once: three commands fill `toDaemon`, the writer's hands and `writeCh`, while the reader stands at its check
with a halt to queue and the daemon cannot answer into a full `toClient`. A reader that waited for room in
`writeCh` would close this circle, once both callers have given up; the two calls return all the same, by their contexts, so
`EveryCallReturns` asks in addition that what is in `writeCh` goes out. The run is without the
semaphore; that a waiting call gets its slot follows from the return of its holder, which gives it back by `defer`.

The runs named `finding_*` each violate one property that states what a document
or comment says; `PROJECT.json` quotes it:

| Run | The code does | Instead of |
|---|---|---|
| `finding_misdelivery` | after `Close` has emptied `replyQ`, the writer registers one more request and a reply or `DATA` still in the reader's buffer reaches the wrong job | one-to-one `OK` and precise `DATA` |
| `finding_window` | a timed-out call frees its slot while its task runs | at most `MaxInflight` tasks at the daemon |
| `finding_late_result` | the reader holds a job that `fail` therefore cannot complete: its caller gets the weak error, and the result comes later | results before `dead` |
| `finding_stopped` | queued targets of a stopped batch end with `context.Canceled` | `ErrBatchStopped` |

Further differences between code and documents that the modules show, without a run of
their own:

- `trace`'s `select` chooses between `closeCh` and `dead`, and `Close` closes both: a
  call ended by `Close` may return `ErrDaemonUnavailable` instead of the
  `ClientClosedError` of `docs/socket-design.md:165` (`GiveUp`).
- `OnSubmit` is called for a target that is then dropped; `types.go:209` says for one that
  enters the queue (`CallOnSubmit`, `Drop`).
- Any deadline becomes a `TimeoutError` with the target's timeout, the deadline of the caller's
  own context included; `errors.go:53` says the target's (`ReturnLast`).
- With a multiplier below 2 and jitter, waits can fall below `MinBackoff`, with a multiplier
  of 1 down to a nanosecond; `docs/socket-design.md:102` speaks of a lower bound
  (`NextBackoff`, and the premise of `BackoffKeepsItsFloor`).
- `retryBackoff` applies the jitter after the cap: 6s, where `run.go:230` says 5s. The bound of
  `DelayInBounds` is the cap with its jitter, so that it does not object to this.
- `legacy.Client.Close` sets a flag that only the entry of a call reads: a batch in progress
  goes on and starts processes; `docs/api-design.md:43` says that `Close` frees connections and processes
  (`Close` of `LegacyClient`). During a batch it changes the flag alone, so that the run
  `legacy_batch` has it in every state and no property could tell.
- With `Stream`, the legacy client takes the first trace record, which may be a snapshot; the socket
  client skips it (`LegacyResult`, `SocketResult`, and the premise of `ModesAgree`).
- `Squeries` without `GapLimit` passes `Validate` with any value, although scamper's gap limit
  is then 5 and `docs/trace-config-design.md:66` asks for less than that (`Validate`).
- A `Wait` below one second is sent as `-w 0` (`Rendered`).

Where the first finding is about `Close` the safety properties except it by
`cause = "closed"`, so that they hold everything else to the full claim.

Deadlock is checked in every run but `command`, where a call that has got its
result or was refused has nothing left to do. Elsewhere the only states in which nothing may happen
are `AtRest` (everything has stopped, or an open client that nobody uses),
a returned batch or one refused by a closed client, a closed supervisor, and the last attempt of `RetryDelay`.

## Fairness

`ClientFairness`: each goroutine takes a step if it continuously can (the Go
scheduler); the supervisor's sleep is left through `closeCh` if it is met
closed again and again (`select` is uniformly random), hence one strong fairness.
Nothing is assumed of the daemon, of contexts or of the application, so
`CloseStopsEverything` and `LossReleasesCallers` hold whatever they do. In
`session_served` alone the daemon is fair (`DaemonFairness`): it goes on
answering commands and finishes the tasks it accepted; strongly, because the room it needs
comes and goes.
`LegacyFairSpec`: workers and submitter, which includes the kill of a process whose context has
ended, and the timers of attempts are weakly fair. A scamper process is not: it may hang for ever, and
`HungScamperIsSurvived` holds all the same, because every attempt has a timeout.
Nothing is assumed of `Close` and of the caller's context.

## What is proved

For every value of the constants, from the named assumptions on them
(`SocketAssumption`, `WriteCapAssumption`, `InflightAssumption`, `RunAssumption`,
`BatchAssumption`, `LegacyAssumption`, `ReconnectAssumption`, `DelayAssumption`,
`ConfigAssumption`, `AttemptAssumption`): any number of calls,
connections, ids, targets, workers, retries and configurations, any capacity, and whatever events the
environment has. The assumptions only give types, but for three: `BatchAssumption` says that targets
are numbered `1..N`, as slots are, `LegacyAssumption` that `OnceErrors` has the errors
`once` returns, and `DelayAssumption` what was said of `RetryDelay` above, which the constants of
the code satisfy.

### The session

| Theorem | Says | Rests on |
|---|---|---|
| `TypeCorrect` | `TypeOK` | itself: one lemma per component (daemon, writer, reader, `fail`, callers, supervisor, `Close`) |
| `NoWakeupIsLost` | `NoLostWakeup` | `WakeupInv` |
| `ConnectionLife` | `LifeInv` | itself |
| `JobHasOneConnection` | `OwnedInv` | `LifeInv` |
| `SpecificErrorFirst` | `SpecificError` | `WeakInv`, `LifeInv` |
| `RepliesInOrder`, `RepliesFindTheirJob` | `AlignInv`, `ReplyAlignment` | `LifeInv` |
| `IdsAreTrue`, `ResultsReachTheirCaller`, `HaltsStopOwnTask` | `DeliveryInv`, `ExactDelivery`, `HaltsOwnTask` | `LifeInv`, `OwnedInv`, `AlignInv` |
| `TablesAreTidy`, `NoHaltIsForgotten`, `NothingIsLeaked` | `TableInv`, `CancelNotForgotten`, `IdTable` | all of the above |
| `PromiseMapping`, `SessionKeepsPromise` | `PromiseInv`, `KeepsPromise` | `LifeInv`, `OwnedInv`, `DeliveryInv` |

None of the properties is inductive as it stands. What each needs:

- `WakeupInv`: `ready` holds exactly while a connection is published, and the one the
  supervisor watches is the published one. Otherwise `DialSucceeds` might close a channel twice.
- `LifeInv`: a connection that was not dialled is as it was made, has a cause from the
  moment `fail` begins, and `fail` owes nothing once it is over. A caller settles for the
  weak error only on a dead connection, so `fail` no longer holds its specific one: `SpecificError`.
- `OwnedInv`: whatever a connection has in its queues, tables and frames, at its goroutines
  or at the daemon, was submitted to it and to no other. Without it a redial could mix jobs up.
- `AlignInv`: on an open connection `replyQ` has an entry for each reply the daemon still owes
  or the reader has not handled, and the one a reply finds is the one of its command. The
  position of a reply in the stream gives its position in the queue (`InLine`), that of a
  command on its way the position behind all of these. `ReplyAlignment` speaks of the frames
  alone, and a popped entry would leave it without the commands in between.
- `DeliveryInv`: a frame, an entry of `ids`, what the reader holds and the id of a job name
  the same task, and a halt that of a job marked as given up. That a reader on a dying
  connection does not pop a foreign job (`Cut`) is the argument the code relies on: only
  `Close` ends a connection whose writer and reader both go on, which is `finding_misdelivery`.
- `TableInv`: a job is in one place between `writeCh` and the task list (`Apart`), nothing
  follows its answer (`Ended`), `OK id-N` is the first frame with its id and finds the table
  free (`OkFirst`, `Fresh`), the id of a running task is in a frame, at the reader or at its
  job, and its entry in the table or on its way (`Learned`), an entry has its reason
  (`Cleared`), and the halt of a given-up task is somewhere between caller, reader, queue and
  socket, or was reported lost (`Chased`, `HaltKnown`). `Cleared` depends on the frames still to
  be read, and `Chased` on the reader's steps between `setID` and its check, so that neither
  `IdTable` nor `CancelNotForgotten` is inductive alone.
- `PromiseInv`: a call is decided exactly when it is past its last `select`, and what a job
  was told is the daemon's or the cause of its own connection. With it each step of the session is
  a step of `Measurement` or a stutter (`AsBegin`, `AsReturn`, `AsBreak`, `AsStutter`).

### The execution layer

| Theorem | Says | Rests on |
|---|---|---|
| `BatchTypeCorrect` | `TypeOK` | itself |
| `NoEarlySurrender` | `GivesUpOnlyWhenItMust` | `SurrenderInv` |
| `PoolIsSound` | `PoolInv` | `TypeOK` |
| `CancelIsJustified`, `NoTargetIsLost`, `StoppedIsJustified` | `CancelHasCause`, `EveryTargetAccounted`, `StoppedForAReason` | `PoolInv` |
| `BatchIsAPool` | `ImplementsPool` | `PoolInv` |
| `ProcessesAreTracked` | `TypeOK` and `LegacyInv` | itself |
| `LegacyImplementsBatch` | `ImplementsBatch` | `LegacyInv` |
| `LegacyLosesNoTarget` | `EveryTargetAccounted`, `StoppedForAReason` of `LegacySpec` | `LegacyImplementsBatch` |
| `KilledIsTold`, `ProcessesAreBounded` | `KilledIsNotRejected`, `ProcessPool` | `LegacyInv`, `PoolInv` by `LegacyImplementsBatch` |

- `SurrenderInv`: a call sleeps only on an error. That a loop is entered at all when the retry
  count is the largest integer and its increment overflows is `AtLeastOneAttempt`.
- `PoolInv`: targets are announced and queued in order (`Ordered`); a queued one is in the queue,
  with exactly one worker, or in its slot (`Placed`); the other slots are untouched (`Untaken`);
  `completed` counts dropped and stored targets (`Tally`); a worker leaves only an empty, closed
  queue, and the final pass begins when all have (`Ending`); a slot the pass has left
  as stopped is that of a dropped target or has a fatal result to answer for it (`Passed`), although the caller's context may end
  while the pass goes on; a context the batch itself ended has a fatal error in a slot behind it
  (`Caused`). The properties speak of a returned batch; `PoolInv` says what holds on the way.
- `LegacyInv`: a process is alive inside a call only, a killed one has a context that ended,
  and a `CommandError` is about one that was not killed.

`LegacyIsAPool`: by `LegacyImplementsBatch` and `BatchIsAPool`, the legacy client implements
`WorkerPool`.

### The waits

`BackoffTypeCorrect`, `BackoffFloor`, `BackoffGrows` in `Reconnect`: by the bounds of each stage
of `Next` (`ScaledBounds`, `CappedBounds`, `JitteredBounds`, `NextBackoffBounds`); the
invariant is `TypeOK` with the floor.

`DelaysStayInBounds` and `DelaysGrow` in `RetryDelay`, for every attempt and every width. Both
follow from `ExponentIs`: `retryBackoff` before the jitter is `Base * 2^(n-1)` up to `Cap`, as if
integers had no end. Why that is so in spite of the wraparound is `ShiftInv`, by induction on the
shift: while `Base * 2^k` fits, the shift is that number; below the width it is a multiple of 2^k;
from the width on it is 0. So a shift that overflowed is at most 0, or beyond the cap, and
`d <= 0 || d > 5*time.Second` catches both.
`PowerOf2` and `Shifted` are recursive functions, which the provers know as a `CHOOSE` only. `Iteration`
shows that such a function exists, by taking it as the union of its finite beginnings, and
`Counting` gives the induction, as the absence of a smallest exception (`SmallestOf`, from the
library's well-founded order of the naturals).

### The way of the data

| Theorem | Says | Rests on |
|---|---|---|
| `ArraysStayOwn` | `ConfigInv` | itself |
| `CloneIndependence` | `ClonesAreIndependent` | `ConfigInv` |
| `CallsKeepTheirConfig` | `CallInv` | `ConfigInv` |
| `RefusalHasCause` | `RefusedForCause` | `CallInv` |
| `LinesSayWhatWasAsked` | `LineOfAsked` | `CallInv` |
| `ClientsAgree`, `UserIdReturns` | `ModesAgree`, `UserIdComesBack`, as long as `AskedIsSent` holds | `CallInv`, `AnswerInv` |

- `ConfigInv`: every slice lies in its array, and no two slices, of one configuration or of two, share
  an array that has room (`ArraysAreOwn`). Otherwise `append` could write in place where
  another slice reads, and `ClonesAreIndependent` would last only until the next
  `Option` or `ExtraArgs`. The lemmas `AppendInPlace` and `AppendInCopy` say what the two outcomes of `append` leave
  alone, `AppendExtends` what they add.
- `CallInv`: the configuration in use exists and has the value it had when the call began, and
  that value passed if the call is a batch. That it cannot change is `ConfigInv` again: the
  application configures only others, and theirs are other arrays.
- `LineOfAsked`: the words of an attempt are the command line of that value, for a target that
  passed. This is the part of `AskedIsSent` that depends on what happens in between; the rest
  is what scamper makes of one command line, an operator's value.
- `AnswerInv`: the output is one that scamper gives for what was asked. Of such an output each client takes the
  record that ends the trace (`OutputShape`, `EndingsParsed`, `ResultOf`). That the line
  says what was asked is the condition `[]AskedIsSent` of the two theorems, which the run
  `command` checks.

### Only model-checked

- All liveness (`CloseStopsEverything`, `LossReleasesCallers`, `EveryCallReturns`,
  `HungScamperIsSurvived`): the prover has no rule for fairness.
- `AskedIsSent`, beyond `LineOfAsked`: it reads the words of a line with `FoldLeft` and makes them with `FlattenSeq`,
  whose definitions take an operator or recur over a sequence, and the digits of a number come from `ToString`, of
  which the provers know nothing, not even that they do not begin with a dash.

## Not modelled

- options and aliases (a field each), examples, scripts, logging and metrics (but `OnSubmit`).
- Hops, durations and times of results: copied, never decided upon.
- The search for the scamper binary in `legacy.New`.
- The coupling of `run.Trace` with `session.trace` in one state space: `Session` has
  calls that begin at any time, in any number, which includes an attempt that follows a failed
  one, and `Measurement` and the attempts of `RunTrace` meet at the contract of `OnceFunc`.
- The memory model: the code's critical sections are taken as atomic steps.
- A daemon that breaks its protocol beyond `garbage`, `noise` and `bad`.

## Plan

In order of weight:

1. Done: the control session (`ControlSocket`, `Connection`, `Session`), with type
   correctness and the wakeup theorem.
2. Done: the execution layer (`RunTrace`, `Batch`), the waits (`Reconnect`, `RetryDelay`).
3. Done: `Measurement` and `WorkerPool`, and the refinements `KeepsPromise`, `ImplementsPool`, `ImplementsBatch`.
4. Done: `LegacyClient`; the data path `TraceConfig`, `CommandLine`, `ResultParser`, `Attempt`.
5. Done: proofs of every safety property of `Session`, `Batch`, `LegacyClient`, `Reconnect` and
   `RetryDelay`, of those of `Attempt` but `AskedIsSent`, and of the three refinements.
6. Left: `AskedIsSent` for every configuration. It would take a reading of words and numbers that the provers
   can follow: rules for `FoldLeft` and `FlattenSeq` on sequences that grow by one, and digits in place of `ToString`.
