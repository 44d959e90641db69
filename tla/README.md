# Verification of taurus-pro-storage

TLA+ models of `taurus-pro-storage` (Go), model-checked with TLC and proved
about with TLAPS. Paths below are relative to `src/`.

## 1. The system

The repository is a library with three packages, and the tools that accept its
releases.

| component | source | state | operations |
|---|---|---|---|
| Redis Stream engine | `pkg/queue/engine/redis_stream.go` | the keys of one queue in Redis: stream `ready` with its consumer group, sorted sets `delayed`, `leases`, `failed`, hashes `m:<id>`, strings `d:<id>` | Enqueue, Receive, Ack, Renew, Retry, Fail, ListFailed, ReplayFailed; each is one Lua script |
| in-memory engine | `pkg/queue/engine/memory_engine.go` | the same tasks in a map, a FIFO of ready ids, tombstones; one mutex | the same operations, and Close |
| queue manager | `pkg/queue/manager.go` | status, two contexts, a wait group, workers with a renewal goroutine each | Start, Stop, AddData, AddDataWithID, worker loop, renew loop, settle |
| configuration | `pkg/queue/config.go` | none | merge with defaults, retry delay |
| legacy engines | `pkg/queue/engine/channel_engine.go`, `redis_engine.go` | channels and a delay map; Redis lists and a sorted set | push, pop, batch pop, delayed push and pop, Close |
| distributed lock | `pkg/redisx/redis.go` 433-592 | one key with an expiry | Lock, TryLock, RenewLock, Unlock |
| Redis wrapper | the rest of `pkg/redisx/redis.go` | a client | forwards commands |
| database registry and repository | `pkg/db/db.go`, `pkg/db/dao/repository.go` | a map of open connections under a lock; a repository keeps one of them | InitDB, GetDB, CloseDB; statements, transactions, page walks |
| DSN, loggers, errors | `pkg/db/dsn.go`, `*/logger.go`, `pkg/queue/common` | none of their own | build strings, write files, classify errors |
| gate run | `scripts/readiness/cmd/gate/main.go`, `env.go`, `scripts/readiness/dockerx` | the docker objects of a run and the manifest that lists them, in memory and in a file | run, cleanup |
| gate scenarios and ledger | `scripts/readiness/cmd/gate/scenarios.go`, `faults.go`, `sc.go`, `scripts/readiness/ledger` | a queue under test, consumers in processes of their own, a ledger for each process | six scenarios, `Validate` |
| other gate commands | `soak.go`, `contract.go`, `script.go`, verify, mutate, negative | files | long runs and fixed scripts of calls |

How they interact. A manager owns one reliable engine (`NewManager`). Its
workers call `Receive`, run the processor while a second goroutine calls
`Renew`, and settle the delivery with `Ack`, `Retry` or `Fail`. Producers call
`Enqueue` through `AddData` and `AddDataWithID`. Several managers, in several
processes, share one Redis queue and meet only there. Everything that survives
a process is in Redis. The lock, the legacy engines and the database packages
stand on their own. The gate builds nothing but on top of the library: it starts
Redis in docker, runs managers against it, breaks something, and judges what it
finds in its ledgers and in the queue.

What is hard. In the Redis engine every operation is atomic, so the difficulty
is between operations: a reply can be lost after its script ran, go-redis sends
an unanswered script again, a holder can pause beyond its lease and come back,
several keys must agree after each of nine scripts, and Redis does not roll a
failing script back. In the manager it is the race of processor, renewal and
Stop. In the lock it is a late or repeated script and a window the client has to
compute for itself; in the registry a check followed by a separate write; in the
legacy engines a pop that cannot be undone. The gate must remove what it made and
nothing else although any command, write or the gate itself may fail, and must
neither pass a queue that lost a task nor fail one that did not. `hazards` in
`PROJECT.json` lists each of these at its line, with the properties about it.

## 2. Modules

| module | what it is |
|---|---|
| `ReliableQueue` | the promise of the `ReliableEngine` interface: tasks that wait, are claimed under a lease, or are retained as failed |
| `RedisStreamEngine` | the Redis Stream engine, one action per script, with its properties and the refinement mapping |
| `MemoryEngine` | the in-memory engine, one action per method, and its refinement mapping |
| `QueueManager` | the manager over the operations of `ReliableQueue` |
| `RedisLock` | the distributed lock and the clients that use it |
| `LegacyEngines` | both implementations of the old `Engine` interface |
| `Database` | the registry of connections and what is done with a connection |
| `GateRun` | one run of the gate, and a clean-up after a killed one |
| `Acceptance` | one scenario of the gate, from its submissions to its verdict |
| `MC...` | the instances TLC checks: symmetries, and values a cfg cannot hold |
| `...Proofs` | theorems about the module of that name |

`ReliableQueue` knows no clock: it keeps what is left of each delay, lease and
retention, so that it can stand under the manager as it is (its variables are
the manager's `task`, `doneLeft`, `issued`) and the engines, which keep
deadlines, map to it by subtraction. What the manager relies on is what the
engines are checked to promise.

### RedisStreamEngine

State. `rec` holds the hashes `m:<id>` (fields `s h dd n r rp tok e` keep their
names; `d`, `err`, `c`, `fa` are payload and display data). `tomb` holds the
strings `d:<id>` with their expiry. `stream` is the set of entries of `ready`;
`lastEid`, `delivered` and `pel` are the last generated id, the group's
last-delivered-id and its pending list. `delayed`, `leases` and `failed` map an
id to its score. `clock` is Redis `TIME`.

On the client side `open` holds the tokens of Receive calls that have no answer
yet and may be sent again, and `issued` every delivery ever handed to a caller.
A delivery may be used at any time and any number of times, which covers
repeated, late and missing calls and the crash of a holder. With `LateRuns` Redis
may also run a transmission of a Receive after another of its transmissions has
been answered, at any later time; without it such a transmission is taken to be
lost. The run takes it that way; with `LateRuns = TRUE` in its cfg TLC finds
`HolderIsLatestClaim` violated (section 5), and all theorems but two hold with it too.

`confirmed`, `settled` and `doneAt` are history variables; no guard reads them.

`Receive` is one action with the three steps of the script: the batch `F` of due
retries gets new stream entries, an expired lease is taken over, or the first
unread entry is claimed. An unsound record ends the script at the step that meets
it, with the writes of earlier steps in place. Redis orders members of equal
score by name; here every order is possible.

Abstractions. Payloads are compared by hash in the code and are model values here.
Wrong key types (WRONGTYPE) are not modelled: they need foreign writes to the
queue's keys and change nothing. Counters run to `MaxCount`, which stands for the
int64 limit. Ids of stream entries are consecutive numbers. The clock is taken not
to go back.

### MemoryEngine

`msgs`, `ready` and `done` are the map, the FIFO of ready ids and the
tombstones of the code; every method begins with the pruning it calls. `clock`
is `time.Now`, which here too is taken not to go back. A delivery may be used at
any time, as above. The mutex makes each method atomic. Capacity bounds
unfinished tasks, as in the code. Close is modelled as the flag that Enqueue and
Receive read (`memory_engine.go` 99, 133); the other methods go on after it.

### QueueManager

The unit of time is the renewal interval, a third of the lease. `worker` is the
point each worker goroutine has reached in `workOnce` and `handle` (`pc`), with
the delivery it holds, the result of the processor and the value of `leaseLost`
it has read; `renewal` is the renewal goroutine of the same worker: `age` is the
time since `lastOK`, `sent` since `sentAt`, `due` a ticker that has fired, `lost`
and `cancel` the shared flag and context. `claimStop` and `procStop` are the two
contexts of the manager, `stop` is the point the single successful Stop call has
reached, `drained` the channel it waits on.

A call to the engine is two steps, its execution and its answer; in between
anything may happen, and either may fail (`MaxFaults`). `settle` is two steps:
`Decide` reads the verdict on the lease and procCtx (407), `SettleExecuted` is the
call of Ack, Retry or Fail (421, 429); Stop may cancel procCtx in between. A
processor may return anything at any moment, cancelled or not, or never. Closing
the engine keeps no late call out of Redis, whose `Close` does nothing, so that an
Enqueue or a Receive that had passed its check of the status is still executed.
`cut`, a history variable, says whether Stop had cancelled when the processor
returned. `Crash` ends the process; its successor starts with the queue as it is.
A producer's call is one step: one that is cut off after the engine has taken the
task leaves a task no producer was told of, which the queue treats like any other,
and AddData's next attempt draws a fresh id.

`Punctual` separates the two readings of time: FALSE lets time pass between any
two steps, TRUE lets it pass only when no goroutine has work to do and no call is
older than `CallTime`. Polls and sleeps last one interval.

Abstractions. A token is the worker that drew it, as a worker has at most one
delivery. A call that has failed on the client side is not executed later: late
execution is covered in the models of the engines. Tasks are submitted once, by
AddData; deduplication is the engines'. An empty payload and a bad id are
refused before anything happens.

### RedisLock

`key` is the lock key: its owner, the value it carries and its time to live.
`net` holds the scripts that may still reach Redis, which may run any number of
ticks after the client has given them up, a bounded number of times once more, or
never. A client follows the usage example at the end of the file: a new lockValue
for each acquisition, renewal while it works, Unlock at the end. `window` is the
time for which it may rely on the lock, counted from the moment the last
successful request was sent, as the client cannot know when it ran. TryLock's
rounds use one value; a client may give up or die anywhere. Time is relative (what is
left of the expiry, how long a request has been under way).

Abstractions. One lock key; foreign writes to it are left out. A lockValue is the
client and a number.

### LegacyEngines

`kind` chooses the engine, as both have the same methods. `queue` is the buffer
of the channel or the Redis list, `delayed` the delay map or the sorted set.
`call` is what each caller is in the middle of: what it still wants and what it
has taken. On the channel engine a call looks its channel up first and then
waits, so that Close may come in between; on the Redis engine each command is one
step, `PopDelayed` is the two it consists of, and the reply of a command
may be lost or the command sent again. `gone` collects what left the engine
and reached nobody. Due times are cut to seconds on both sides.

An entry is its bytes (`data`), its due time, and a number that tells apart what
was written twice. Redis does not know the number: ZADD replaces the member of the
same bytes, and the ZREM of `PopDelayed` deletes whatever has the bytes it read,
also when they have been delayed again since.

Abstractions. One queue with its delay queue.

### Database

`registry` is `dbConnections`, `conn` whether a connection has been opened and
closed, `repo` what each caller's repository keeps, `slots` the callers that keep
a connection of a pool busy. InitDB looks, opens without the lock with its
retries, looks again and registers or closes what came second. CloseDB empties
the registry and then closes one connection after the other, while statements and
transactions of others are under way. A connection is `dropped` where an error
leaves it open and nobody has it any more: gorm.Open fails at its ping with the
pool made, db.DB() fails after a successful open (217-219), or it fails in CloseDB,
which then goes on with the next one (433-436).

`rows` is one table, whose rows are known by their primary key. PaginateQuery
sends LIMIT and OFFSET without ORDER BY. `keyed` says whether this database gives
rows in the order of their key all the same, as SQLite and MySQL mostly do; where
it does not, a page is any set of rows of the size its offset leaves, whatever the
page before it was. The rows of a transaction appear at its commit, so that in key
order too a walk may have them shifted under it.

Abstractions. SQL is inserts, deletes and everything else; a statement may fail
for any reason at any time. All connections lead to the same table. Methods of
the repository that differ in their SQL only are the same action.

### GateRun

`mem` and `disk` are the manifest in memory and in its file, `label` whose labels
each docker object carries, `stage` where the process stands in `cmdRun`,
`runAll`, `runGuarded`, `removeInst` and `finish`. A creation is three steps: the
command, the label check, the entry in the manifest. Any command and any write
may fail, a signal or the deadline may come at any moment, and the process may be
killed, after which `gate cleanup` runs on the file that is left. Objects of the
same name may be there from elsewhere, and so may the manifest of an earlier run.

Abstractions. An instance is its volume and its container. The body of a scenario
is its result (the scenarios themselves are `Acceptance`). Processes a scenario
leaves behind are a result of `Finish`. A reply of docker that names an unexpected
object (`dockerx.go` 368, 408) ends a creation unregistered, as a failing command
does whose object cannot be found again.

### Acceptance

The six scenarios share their steps, and `Plan` lists them in order: `plan` is
what lies ahead of this one, and a step is enabled when it comes first. `role` is
what the scenario expects of each task. A ledger is kept as what
`Validate` gathers from it (how often a run began and ended, what submissions
were told, which final states and checks were recorded), as its verdict does not
depend on the order of records. The queue under test is external: it does
what `ReliableQueue` promises, or misbehaves (loses, repeats, invents,
changes the state of a task) up to `MaxFaults` times in all, together with
failing commands and ledger writes. A renewal is refused when memory is full or the
task is no longer held, in every scenario: the run is cancelled and ends without an
acknowledgement. `ran`, `fin`, `cut` (tasks a run of which lost its claim) and
`corrupt` are what really happened; no step of the gate reads them. `Validate` is
compared with them.

Abstractions. Payload hashes are right or wrong. Deadlines of the scenarios are
taken as generous: a wait ends with all it waited for, or once nothing can still
happen (`Hopeless`). A lease that nobody disputes is renewed in time. Latencies and
call counts are not part of the verdict.

## 3. Runs

| run | asks | bounds |
|---|---|---|
| `redis_stream` | do the five keys agree, is only the current holder able to settle, is no lease cut short, are failed tasks kept, does cleaning up after a vanished record cut off a live one; is every script one operation of `ReliableQueue`; is a confirmed payload ever lost, a completed id accepted again too early | 2 ids, 2 payloads, 2 Receive tokens each resent any number of times, clock 0..2, lease 2, window and retention 1, counters to 2 so that the limit is met, batches of 1 so that they are cut, scan limit 1, one record may vanish |
| `memory_engine` | do map and ready list agree, is every method one operation of `ReliableQueue` | 3 ids, capacity 2, lease, window and retention 1, delays -1 and 1, clock 0..2, 3 tokens, with Close and a full queue |
| `manager_leases` | is the local lease inside the queue's, is a task lost, is a verdict final | 1 task, 2 workers, 1 retry, 1 failing call, 1 crash, any timing |
| `manager_stop` | what Stop leaves behind, wherever it hits; does it come back; do the workers end; is an error that Stop caused left alone wherever its cancel falls | 1 task, 1 worker, 1 retry, 1 failing call, any timing, fairness for Stop only (and, inside `WorkersLeave`, for the goroutines) |
| `manager_told` | how late a lost lease is noticed | 1 task, 2 workers, 2 failing calls, punctual, calls of up to one interval |
| `manager_live` | does every task settle | 1 task, 2 workers, 1 retry, 3 failing calls (a whole lease without a renewal), 1 crash, punctual, calls at once |
| `redis_lock` | do two clients ever rely on the lock at once; does a renewal bring an expired lock back | 2 clients, expiry of 2 ticks, 3 lock values, 1 repeated script |
| `legacy_engines` | is every entry in the engine or handed out, except for the losses the code has; is one given twice; is one given too early | 2 callers, 3 entries of 2 payloads, batches of 2, half-second ticks, capacity 1, 1 lost reply |
| `legacy_overlap` (violation) | does an entry go to one caller when two `PopDelayed` overlap | 2 callers, 2 entries, no lost reply |
| `database` | does an overlap of InitDB and CloseDB, with the errors of both, leave a connection nobody has, or replace one; does a page walk see each row once where rows come in key order; does it get as many as it counted in any order | 2 callers, 1 name, 2 attempts, 3 connections, a pool of 1, 2 rows on pages of 2, 1 more to come |
| `gate_run` | is anything foreign removed, anything of the run forgotten, any verdict wrong | 2 scenarios on the main instance, 1 with its own, 2 faults, a signal or the deadline, a kill |
| `acceptance` | does a scenario that passes tell the truth; is a queue that behaves ever failed; does a scenario end | every scenario, 2 tasks, 1 worker that is killed, 1 misbehaviour, failing command or failing write |

Why the bounds are enough. Two ids let one task take the place of another in every
index and let order matter; two tokens let a task be claimed, lost and taken over, the
late holder being still there. A claim counts up, and the counters allow two in one
life of a task, so that one end of a lease is all a task can meet; the clock covers
it, and windows and retentions that start at any of its first ticks and end. The runs
of the engines check safety and assume no fairness. In the manager one task and two
workers give every race about a claim (the manager keeps no state that spans tasks),
one worker is enough for Stop, which knows the workers by their wait group only, and
ages are told apart up to the bound `MaxAge`, which lies beyond every comparison made
with them. Three lock values let a client come back after another has taken over,
while its old scripts are under way. Three entries let `count` cut a second in two
while another entry waits. One name, two callers and three connections let an InitDB
be overtaken by a CloseDB and a second InitDB, with one lost by an error on the way.
Pages of two and up to three rows give a walk a full page, a short one and one to be
cut differently. Two faults in the gate let the remedy of a failure fail too. In
`acceptance` one fault at a time is what a defective queue is met with; how far
several can hide each other is left to the theorem, which allows any number (section 5
has its one limit).

`CHECK_DEADLOCK` is off in `acceptance` only, where a verdict ends the run. In the
others something can always happen: a producer may submit, time may pass, a call may
start, and an ended gate run steps in place.

Fairness. `StopSpec` assumes that the goroutine of Stop goes on and nothing else:
its timers bound both waits. `Fairness` (of `FairSpec`, and the premise of
`WorkersLeave`) assumes that goroutines which can go on
do (weak fairness, the Go scheduler), that a processor returns, that a select
with two ready cases does not pick the same one for ever (strong fairness of
`RenewalEnds`; Go picks at random), and that time passes (strong fairness of
`Tick`, which is not enabled while a punctual goroutine has work). `manager_live`
also needs goroutines on time: if every lease ran out before its renewal, a task
would be passed on for ever, and a takeover does not count as a retry.
`Acceptance` assumes that the gate's process and the workers of its consumers go
on; misbehaviour and failures are never fair.

## 4. Proofs

Each `...Proofs` module proves its theorems for every value of the constants allowed
by the named assumption of the module it is about.

`RedisStreamEngineProofs` (`ConstantsAssumption`: finite set of ids, natural
durations, positive limits):

* `TypeCorrect`: `TypeOK` is inductive. The part with content is the counters: the
  check before each `HINCRBY` keeps them under the limit.
* `FencingCorrect`: `HolderIsLatestClaim`. It is not inductive; `FenceInv` adds
  that the token of every delivery handed out belongs to a call that is over, so
  that no later claim can carry it. It assumes `~LateRuns`: with them it is false
  (section 5).
* `NoEarlyTakeoverCorrect`: the action property, from `TypeOK` alone.
* `HomesCorrect`: `HomesConsistent`. The inductive form `IndexInv` (`ScoreInv` for
  the records and the sorted sets, `EntryInv` for the stream and the pending list)
  adds that entry ids grow, that the group's cursor lies between the unread entries
  and the claimed ones, and that no two entries share a task. Receive passes through
  a state in which due retries are ready and nothing is claimed yet, so both take
  the state as arguments: `PromoteIndex` takes them to that state, `AddEntry`,
  `DropEntry`, `ReadEntry` and `SameEntries` are the moves of the stream every
  script is made of.
* `LiveReachableCorrect`: `LiveReachable`, with any number of records vanishing.
  `LiveInv` keeps of `IndexInv` what survives that: only the live tasks' side of
  each index, and that the ids of new entries are new.
* `OnlyHolderSettlesCorrect`, `FailedRetainedCorrect`: these follow from what a step may do to one record. `Added`, `Granted`, `Concluded`, `Pruned`,
  `Replayed`, `Vanished` are the moves of a record that matter, and the lemma about
  `Lives` proves that there are no others; each result then looks at each move once.
  `FailedRetained` speaks of two steps: none removes a failed task before its time,
  and the Fail that puts a task there keeps it (`FailNew`), as `IndexInv` leaves no
  old score of a claimed task in `failed`. It names the one exception the script has: a
  record has vanished, and an outdated score of the same id is in `failed` (section 5).
* `NoSilentLossCorrect`: `NoSilentLoss`, by `KeptInv`, which adds that a tombstone
  answers only for a payload that is settled or has been submitted again.
* `DedupCorrect`: `DedupHonoured`, by `DoneInv` (the tombstone of a completed id
  outlives the window).
* `RefinementCorrect`: the engine implements `ReliableQueue`, by a step of the
  abstract queue, or a stutter, for each script. It assumes `~LateRuns`, and the
  property itself speaks of the steps up to which no record has vanished: when one
  does, as if somebody deleted the key, a promise about the task cannot be kept by
  any script.

`QueueManagerProofs` proves all safety properties of the manager, for every finite,
non-empty set of workers, every set of tasks, any timing and any number of faults
and crashes (`ManagerAssumption`). The lemmas `...Effect` say what each operation of
`ReliableQueue` does to the task table. `WorkerInv` is the inductive part, one
conjunct per worker:

* `Cover`: while the local lease runs, the worker holds its claim and what is left
  of the lease in the queue makes up for its local age; the same for `sentAt` once a
  renewal has been executed. It gives `LeaseCovered`.
* `Budget`: the retry count of the delivery is that of the task, so that the check
  in `settle` bounds the one in the queue (`TypeOK`).
* `Result`: a result nil of a current claim has been recorded. It gives `NoLoss`:
  only the holder can acknowledge, and `ReplayFailed`, which resets the record,
  applies to tasks without a holder.
* `Verdict`: after the join, what the worker has read of `leaseLost` is final. With
  `CutInv`, which follows what Stop had cancelled when the processor returned through
  `Decide` to the call, it gives `VerdictStands`.

`Bystander` is the lemma that carries the interference: a worker keeps its part of
the invariant when its task is untouched, or was not its own any more. `StopInv`
adds where Stop can be with which outcome, and that every delivery is in the hands
of a worker at a point of `handle`; it gives `StopClean`. `ToldInv` says how old the
local lease can be before the renewal goroutine runs, while it waits and while it
calls, and that it leaves the processor only cancelled; it gives `ToldSoon`, for
punctual goroutines and calls of at most one interval (`ASSUME Punctual, CallTime <=
1`, as in `manager_told`). With slower ones the processor can be told any time
later.

`MemoryEngineProofs`: `TypeOK`, `ReadyExact`, and the refinement of `ReliableQueue`.
Every method updates map and list in two writes, and promotion appends any order of
the due ids, so the lemmas are about lists without repetition: appending, removing,
filtering, and appending another such list. `Drawn`, which bounds retries by tokens
drawn, makes the types inductive. The refinement is proved without further
hypotheses: each method is one step of the abstract queue or a stutter; `FreshInv`
says that a ready task has nothing to wait for and that the next token is a new one.

`RedisLockProofs`: `MutualExclusion` and `NoRevival`. `WindowCovered` says that the
key carries the value of a client whose window is open and outlives the window,
`AnswerCovered` the same of an answer under way, and `UnlockIsLast` that an Unlock
under way never carries a value still in use, which is where a new value for every
acquisition is needed.

`LegacyEnginesProofs`: `Accounted`, `GivenOnce` and `NotEarly`, for both engines.
`Stock` is all that has been written and is accounted for; `Apart` says that
numbers are drawn once, that the due time tells a pushed entry from a delayed one,
and that what a `PopDelayed` has read stays in the stock until it is handed out;
`EmptyHanded` that only a caller that takes holds something. `Accounted` has a
second half, `BytesKept`: while the Redis engine has lost no reply, whatever a
ZADD or a ZREM dropped for its bytes leaves an entry of the same bytes in the
engine or handed out. `GivenOnce` has what the ZREM does achieve: what was given
is out of the engine, nobody gets it twice, and two callers get it only in two
`PopDelayed` that overlap. `RipeInv` says that what a caller has taken or read so
far was ripe then, for `NotEarly`; cutting both times to seconds errs by less than
one (`SecondsClose`).

`DatabaseProofs`: `NoLeak`, `NeverReplaced`, `WalkComplete` and `WalkCounts`. A
connection is open exactly as long as somebody has it; the ones dropped by an
error are told apart from those and only those. `OneOwner` gives each open
connection one owner, the registry or one caller that is about to register,
discard or close it; `Opening` says what an InitDB under way knows. In a database
of any order a page has the length its offset leaves, and that alone gives
`WalkCounts`. In key order the page walk counts rows: `Rank` lemmas say how the
place of a row changes when another is inserted before it, after it, or deleted,
and `WalkInv` says that a steady walk has seen once what lies on the pages read,
and no row beyond them.

`GateRunProofs`: `OwnAccounted`, `CleanExit`, `PassMeansAll`, `ForeignSafe`,
`NoFalseAlarm`. `Control` says what holds at each stage, `Known` where each object
of the run is written down, `Swept` that `CleanupAll` still has it ahead or has met
an error, `Judged` that each mishap has left a failed result. `Quiet` says of a run
that meets no fault that its manifests agree with what exists, that what it has to
remove is all there is and can be removed, and that only a scenario whose body
failed has a failed result.

`AcceptanceProofs`: `PassIsSound` and `NoFalseAlarm`, for any number of tasks,
workers and faults, on top of the types (in which the ledger never shows more runs
than there were, and nothing runs without a consumer). `SoundInv` relates the
ledger to what happened:

* `OnPlan`: what is left of the plan is an end of the plan of its kind. `Apart`:
  only the scenario that fills memory up has a full one.
* `CountsMean`, `FirstServed`, `ChecksMean`: what the counts of the ledger say about
  the runs while its writer works; that a task that has been run was run to its end,
  lost its claim, or is being run by its owner; and what the checks that passed have
  established.
* `First` and `Second`: the kill scenario with no misbehaviour of the queue, or
  with one and the ledger of the killed process whole. Before the kill (`Begins`)
  only that one can make a task claimed twice or a claimed one something else;
  without it every begun run is still under way, so that as many as there are
  workers leave none out of a ledger that is torn. After it (`Repeated`) no run is
  missing from the ledgers, each task was run `n` times before, and `n = 2` is the
  misbehaviour.

`PeaceInv` is for `NoFalseAlarm`. `Placed` says what each step of a plan without
faults finds: which consumer is up, whether memory is full, that nothing is held
before the kill and that the ledger writes. Then, for a run that is
`Calm` (no fault, and memory that was full has refused something once it had
occasion), that no check has failed, that each check is passed or still ahead
(`Checked`), and of each task (`Fine`):

* `Orderly`: who renews it runs it or is about to; it was run once, and once more if
  the killed consumer held it; where memory was full, any number of times, as its
  acknowledgement may have been refused.
* `Expected`, `Answered`, `Pending`, `Polled`: its state follows from its role and the
  step; so do the answers to its submission, what is left to submit or wait for, and
  the final states the polls have seen.

At the last step these give every rule of `Validate`. A run at full memory that
refuses nothing is outside the theorem: the gate fails it, by its check
`oom_rejected_some_submits`.

The scenarios compare sums with numbers of tasks. `Total` is therefore defined as
the size of a set of pairs, and the lemmas `Units...` and `Total...` say how it
follows the counts.

Only model-checked: liveness (`StopTerminates`, `WorkersLeave`, `TasksSettle`,
`ScenarioEnds`), which is out of the prover's reach. Every safety property of the runs
is proved.
Nothing is proved about recursive definitions.

## 5. Observations

One run shows the code differ from what a comment of it says, `legacy_overlap`: the
comment at `redis_engine.go` 226 says that the ZREM of `PopDelayed` avoids double
processing; two overlapping calls return the same entry to both callers, as neither
looks at what its ZREM removed. `GivenOnce` says that this is the only way two callers
can get one entry.

Four other places where the code does less than a comment of it says are built into the
models, and the properties name them as exceptions:

* `Receive` draws its token once per call, and when the reply is late go-redis sends the
  script again with it, so that one token can stand for two claims. As long as a
  transmission is not run after the answer of another, the fence does not suffer, as a
  token is handed out at most once: `HolderIsLatestClaim`, checked and proved. But if
  Redis runs the first transmission after the second was answered and its lease is
  over, it claims the task anew under the token the old holder has, who can then settle
  a claim that is not his. `reliable.go` 11-12 says that each claim has a token of its
  own and an old one cannot change a new claim.
* `failScript` collects the outdated members of `failed` before it adds its own task
  (286-296). If a record vanished and left an old score of that id there, the task is
  among them and is deleted with its record at the moment it fails, where `reliable.go`
  70 says that Fail retains it. This is the exception in `FailedRetained`.
* The ZREM of `PopDelayed` names bytes: an entry delayed again with the same bytes since
  they were read is deleted with them, although it was not fetched (`redis_engine.go`
  231) and is not due. `Accounted` counts it among the losses.
* PaginateQuery asks for no order (`db.go` 382), so that a walk over a table nobody
  changes may read one row twice and another never; the comment at 400 says that all
  data has been read. It has counted as many records as there are (`WalkCounts`);
  `WalkComplete` is about databases that give rows in key order.

Worth knowing besides:

* gorm.Open that fails at its ping, db.DB() that fails after it, and db.DB() that fails
  in CloseDB each leave a pool open that nobody has (`db.go` 189-219, 433-436). No
  document promises otherwise; `NoLeak` says that these are the only ways.
* `renewLoop` judges the local lease only after a Renew has failed (`manager.go`
  375), and that call may hang for an interval; until then the processor runs on
  while another worker may have the task. `ToldSoon` bounds the delay by that
  interval; `VerdictStands` says that the result is then worth nothing.
* `Validate` does not read how a run ended: one that lost its claim and was cancelled
  counts as processed, in every scenario, when the queue says that the task is done.
  `PassIsSound` asks for a completed run of each task or a lost claim.
* `scConsumerKill` counts the runs of the process it kills and not their tasks
  (`faults.go` 239-247), and allows runs without an end. Two faults can therefore
  make up for each other: one task handed to two workers of that process and later
  taken for done, or a task taken from a run of that process whose next run its
  torn ledger does not show. `PassIsSound` is stated for one misbehaviour there,
  with that ledger whole.
* A signal that arrives after `finish` has looked at its context does not change
  the exit code of the run.
* The legacy engines lose an entry when the reply to a pop is lost, when a
  `BatchPopNonBlocking` is cancelled half-way, or when the same bytes are delayed
  again before they are due (one member of the sorted set) or while a `PopDelayed` is
  about to delete them. `Accounted` says that there is no other way until Close.
* An error that a processor returned before Stop cancelled it may be settled after the
  cancel, as `settle` looks at procCtx once, before it calls the engine. `VerdictStands`
  says that an error from after the cancel never is.

## 6. Not modelled

* Queue configuration: defaults and range checks before anything runs, and the
  retry delay, a function of one number.
* Redis wrapper: each method forwards its command. `setWithKeepTTL`, which reads
  a time to live and then writes, is the one with two steps.
* DSN, loggers, errors: strings and files.
* The soak, contract and script scenarios of the gate and its verify, mutate and
  negative commands: workload, statistics and text over the same queue and ledger.
  The parent watch of consumer processes and their reaping, beyond what `GateRun`
  says of processes left behind.
* Read-only operations (ListFailed, GetStatus, GetStats, DbList).
* Liveness of the engines: the manager's is checked over `ReliableQueue`, which
  hands tasks out in any order, so that fairness among tasks is not asked.

## 7. Plan

1. `setWithKeepTTL` with concurrent writers and expiry.
2. A consumer process of the kill scenario with its parent watch, between
   `GateRun` and `Acceptance`.
