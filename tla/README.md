# TLA+ models of kratos-kit

kratos-kit is a multi-module Go toolkit around the Kratos framework. This directory holds TLA+
models of the parts of it whose correctness depends on the order in which goroutines, timers, Redis
commands, remote calls and callers act, the TLC configurations that check them, and proofs checked by TLAPS.

- [1. The system's parts](#1-the-systems-parts)
- [2. Modules and how they correspond to the code](#2-modules-and-how-they-correspond-to-the-code)
- [3. Runs, bounds and what they show](#3-runs-bounds-and-what-they-show)
- [4. Fairness](#4-fairness)
- [5. Proofs](#5-proofs)
- [6. Findings](#6-findings)
- [7. What is only model-checked, and what is not modelled](#7-what-is-only-model-checked-and-what-is-not-modelled)
- [8. Plan](#8-plan)

`PROJECT.json` lists the components, the runs, one mutant for each property, the source lines each
definition stands for, the findings, the hazards of the code and the theorems.

## 1. The system's parts

The repository is a library. An application picks modules, wires them with `bootstrap`, and Kratos
drives their `Start` and `Stop`. The parts meet through shared objects (a Redis connection, a cache,
the in-process registry of `runtime`) and through callbacks. Most modules are thin adapters of external
clients; the table lists the parts with state of their own first.

| Part | State | Operations | What is hard | What makes it correct |
|---|---|---|---|---|
| `locker/memory` | map of reference-counted one-slot channels under a mutex | `Acquire`, `Release` | the mutex and the channel are used in separate steps; entries come and go while pointers to them live | one live lease per key, no entry lost or leaked, a refusal only for a live lease |
| `locker/redis` | a key with a TTL, a refreshing goroutine | `Acquire`, refresh, `Release` | TTL against refresh, failed refreshes | a holder whose lease is lost learns of it before it expires |
| `transport/hptimer` | heap and index of tasks, a context, a one-slot wakeup channel | `AddTask`, `UpsertTask`, `RemoveTask`, `Start`, `Stop`, the loop `run` | sleeping against pushes, repeating tasks re-added after their callback, `Stop` during a callback | no lost wakeup, one task per ID, removed tasks do not run, a stopped engine stays quiet |
| `queue/memory` | map of channels, running flag, wait counter; plans of delayed messages beside a timer engine | `Append`, `Register`, `Run`, `Shutdown`, `Schedule`, `Cancel` | a consumer re-sends to its own channel; two maps (plans and timer) kept in step without a lock | messages neither lost nor duplicated, handlers do not outlive `Run`, one plan per ID |
| `queue/redis` (delayed) | a sorted set and a hash in Redis, a lock key per member | `Schedule`, `Cancel`, the dispatcher of each instance | several instances, lock expiry, crashes between commands | no plan lost, duplicates only after faults |
| `queue/redis`, `queue/redisqueue` | a stream and its consumer group in Redis; a bounded local queue, poll, reclaim and work goroutines | `Append`, `Register`, `Run`, `Shutdown` | at-least-once delivery, reclaiming, trimming, the order in which goroutines end | acknowledged means handled, shutdown drains and returns |
| `transport/sse` | per stream: subscribers, replay log, event channel, quit channel | `Publish`, `TryPublish`, subscribe, disconnect, `RemoveStream`, automatic removal | one goroutine feeds bounded channels of handlers that may leave at any time | each subscriber gets a gap-free sequence; nobody sends on a closed channel or waits for ever |
| `auth/data` (user tokens) | per session a marker key with a TTL and a field of the user's index hash | login, rotate, check, revoke one or all, prune | every operation is several cache calls; a rotation reads, changes and saves a record whole; the marker and the tokens expire separately | a revocation is final and reaches every session, open sessions stay listed, a check was right at some moment |
| rate limiters (`cache/memory`, `cache/redis`) | per key a summary of past requests (count, level or log) with an expiry, a sweep | `TakeRateLimits` with five algorithms, `TakeTokenBuckets` | the clock is read before the lock; a summary expires or is swept; all keys of a group or none | the summary decides as the full history would; a refusal's retry time is right |
| `cache/memory`, `cache/redis`, `cache/local` | maps with expiry under locks, or Redis | get, set, increment, hash fields, `GetDel` | expiry at the boundary differs between them | an expired value is not returned, a one-time value is returned once |
| `registry/etcd` | the current lease object and heartbeat; a key bound to a lease in etcd; a watch stream | `Register`, `Deregister`, heartbeat, watch | roll-back of a failed registration, heartbeat against deregistration, calls given up that still take effect, streams that break | a registered service stays listed, a deregistered one does not come back, a watcher sees the latest set |
| `broker`, `broker/mqtt`, `broker/nats`, `transport/mqtt` | connection, registry of subscribers, started flags | `Connect`, `Disconnect`, `Subscribe`, `Unsubscribe`, connection callbacks | callbacks of the client library against `Disconnect` and `Subscribe` | an active subscription survives a reconnection, a cancelled one does not |
| `transport/cron`, `keepalive`, `queue`, `mcp` | started and stopped flags | `Start`, `Stop` | `Stop` before, during and twice after `Start` | a stopped server stays stopped, `Stop` waits for the work |
| `health`, `retry` | none | check, retry | time-outs against late answers; arithmetic at its limits | aggregation and back-off match their definitions |
| `captcha`, `secretcrypto`, `oauth` | entries of the cache | issue, verify | read-then-delete | a one-time value is accepted once |
| everything else | configuration only | construct, call, close | nothing of its own | – |

"Everything else" is the configuration sources, the loggers, telemetry, object stores, key providers,
notification senders, authentication engines, database clients, workflow and AI clients, code
generators and static pages. Each is listed in `PROJECT.json` with the reason why it has no model.

How the modelled parts interact:

- `queue/memory` keeps its delayed messages in an `hptimer` engine. `MemoryDelayed` takes the engine as
  `HPTimer` shows it to behave (one task per ID, a popped task can no longer be removed).
- `NewQueue` makes a `queue/memory` or a `queue/redis`; module `Delayed` composes their delayed parts: a behaviour
  is one of either.
- `queue/redis` wraps a `redisqueue` consumer and runs the dispatcher of delayed messages beside it.
  `RedisDelayed` models the dispatchers of several instances, `RedisQueue` one consumer and the lifetime
  of the dispatcher, which `Run` and `Shutdown` of both share.
- `NewLocker` makes a `locker/memory` or a `locker/redis`, which share one contract, module `TryLock`. Module
  `Locker` composes the two the same way, and implements the contract whichever was made. A leased lock keeps it only
  while it is renewed in time: such a lease is what stands for the owner in the contract.
- `auth/data` keeps its sessions in whichever cache the application configures. `UserToken` starts with the
  memory cache or with Redis and models the calls it makes as each of the two carries them out.

## 2. Modules and how they correspond to the code

Common conventions. A section under a mutex, a channel operation and a Redis command (or transaction)
are atomic steps, because the code makes them so; a goroutine may be preempted between any two of them.
A program counter per goroutine names the points it can stop at. Variables and actions have the names of
the fields and functions they model. Data that no property looks at (payload contents, header fields,
log lines) is left out. A definition commented `mutant` is a wrong variant used to test a property and is
not part of the specification.

**`TryLock`** is the contract of `locker/contract`: a key has an owner or is free, `Obtain` needs a free
key, `GiveUp` its owner. **`Locker`** maps either locker to it (`leaseOf`): the owner of a key is the goroutine that has
the memory lock, or the lease of the Redis lock that is live and served in time (`sure`).

**`MemoryLocker`** (`locker/memory/memory.go`). `locks` is the map; `refs` and `sem` are the two fields of
a `keyLock` at each address of `Objs`; `pc`, `key` and `cur` say where each goroutine is and which pointer
its closure has captured. `AcquireExisting` and `AcquireNew` are the first critical section, `Take` and
`Busy` the `select`, `NotObtained` the clean-up of a refused call, `ReleaseDrain` and `ReleaseCountOut` the
two halves of `releaseFn`, `ReleaseAgain` a further `Release` of a lease that was already released. An address may be allocated again once
neither the map nor a goroutine points to it, as the garbage collector allows.

**`RedisLocker`** (`locker/redis/redis.go`). `holder` and `left` are the key in Redis and its time to live; a lease
stands for the random token it puts into the key, and `Gone` for a token whose lease nobody has any more.
`Obtain` and `NewLease` are the two ends of `Acquire`; `Refresh`, `Refreshed`, `RefreshFails` and
`StopRefreshing` the goroutine of `newLease`; `Release`, `Drained` and `Delete` the function `Release` runs once.
`ParentEnds` is the caller's context, `Abandon` an `Acquire` or `Release` that reports an error and leaves the key, or a
process that dies. `Pass` lets a unit of time pass: the key, every ticker and every call under way get older. All
times are relative, so the clock needs no bound. `prompt` says whether Redis and the scheduler always
answer within `Patience`; it is chosen at the start, and the timed properties are about leases served in time (`Served`): of a prompt behaviour, and
with a term the renewal fits into.

**`HPTimer`** (`transport/hptimer`). `pending` and `at` are the heap and the index, which the code changes
together; `cancelled` holds the tasks whose context is done; `wakeup` is the one-slot channel. The loop is
split where it releases the mutex: `LoopNoTask` and `LoopSleep` end in a `select`, `LoopResume` is a
`select` that returns, `LoopPop` takes a due task, `LoopFire` starts its callback, `CallbackReturns` ends
it, `Repeat` is `handleRepeatTask`. `UpsertRemove` and `UpsertAdd` are the two critical sections of `UpsertTask`;
`StopCancel`, `StopSection` and `StopWait` those of `Stop`. A cron task is a repeating task with another way to
compute its next time.

**`MemoryQueue`** (`queue/memory/memory.go`, streams). Channels are numbers, since two of them may be made
for one stream. `AppendHit`, `AppendMiss` and `AppendStore` are the look-up and the store under the read
lock; `Send` is the goroutine that carries a message into its channel; a consumer receives (from the
buffer, from a carrier or from a re-sending consumer), handles, backs off and re-sends.

**`DelayedMessages`** declares what the two delayed queues share: versions (one per call of `Schedule`), the
IDs they are planned under, and which version has which ID. Both modules below extend it.

**`MemoryDelayed`** (same file, delayed messages). `plans` is the map, `heap` and `firing` the engine.
`MemorySchedule`, `ScheduleReplace`, `ScheduleAdd` and `ScheduleStore` are the four accesses of `Schedule`,
`MemoryCancel` is `Cancel`, `CallbackClear` and `CallbackAppend` are the two accesses of the callback. Its
variables and `MemorySpec` have names of their own, so that one module can prove about both delayed queues.
`outcome` is what callers have been told: a version that was accepted and not yet triggered when a `Cancel` of its ID
returned is "cancelled". `exposed` is history: the accepted versions that waited without a plan, because an
older callback of their ID deleted it or a concurrent `Cancel` had taken it.

**`RedisDelayed`** (`queue/redis/redis.go`, 180-310). Each command is a step: `Scan`, `Claim` (`SET NX`),
`Read` (`HGET`), `DropScore` (the `ZREM` after an `HGET` that found nothing), `AppendToStream` (`XADD`), `RemovePlan`,
`Unlock` (the deferred `DEL`). `Fail` is an error, a cancelled context or the death of the instance between two of
them; `LockExpires` may come at any time, as a fault if its holder still works. A plan comes due at some moment after
it was stored. `overlapped` is history: the plans stored while an instance was between an `HGET` of their ID and the
removal that follows it.

**`Delayed`** (`queue/queue.go`) starts with one of the two and takes its steps.

**`RedisQueue`** (`queue/redisqueue/consumer.go` and the life cycle of `queue/redis/redis.go`). `stream`,
`delivered`, `pending` and `overdue` are what Redis knows of the entries, and what the group has not been given
yet (`Unread`) is what follows the last delivered entry of the stream; `queue` is the local one. `Poll*`,
`Reclaim*` and the worker actions are the three goroutines, `Register`, `Run`, `Enter`, `Prepare`,
`CloseQueue`, `StopConsumer` and the `*Returns` the wrappers around them. `Shutdown` may come at any moment; one that
comes when `start` has launched the consumer and the consumer has not set `running` is "overlooked". What Redis itself does (trimming,
idle times) is modelled from how the code uses it and marked external.

**`SSEStream`** (`transport/sse`). One stream. `RegisterSub`, `Replay`, `TakeEvent`, `Deliver`, `Deregister`
and `Quit` are the cases of `run`'s `select` and their inner loops, `Publish`/`Send`/`GiveUpSend` a waiting
publisher, `Admit` to `ChannelClosed` an HTTP handler, `LeaveClosed` to `AutoRemove` the goroutine that
watches its request.

**`RateLimit`** (`cache/memory/rate_limit.go`, the Lua script of `cache/redis/rate_limit.go`). `items` holds the
summary of each key with its expiry. `TokenBucket` to `LeakyBucket` are the five algorithms as operators that
return a verdict and the next summary; `Judge` is the loop over a group of keys that stores all or nothing.
In the memory cache a call is two steps, `ReadClock` and the critical section `Section` with its sweep; in
Redis it is one, `Script`. `admitted`, `newest` and `late` are history: the reference definitions `HasRoom`
and the retry time are written over the times of all requests let through, without any summary.

**`UserToken`** (`auth/data/user_token.go`). `marker` is the time the session key expires, `index` the user's
hash. Each cache call is a step: `Mark` and `List` of a login; `Look`, `Load`, `Store` and `Extend` of a
rotation; `Unmark` and `Unlist` of a revocation; `Snapshot` and one `Sift` per entry of `getTokenSessions`, which
keeps `mu` (`indexMu`) throughout, as a check or a `RemoveToken` uses it. `Exists`, `Set`, `Expire` and the rest are
the cache, with the differences of the two: the memory cache lets an expired key lie until somebody looks
and takes a term that is over for no expiry, while Redis's `EXPIRE` gets whole seconds, cut down (`WholeSeconds`, with
`Second` the ticks in one; `late` is what `time.Until` loses of a tick). `Fail` is a cache call that returns an error. `status`, `mixed`,
`duty` and `truths` are history.

**`EtcdRegistry`** (`registry/etcd`). `Swap`, `Grant`, `Put` and their failures are `Register`; `Delete` and `Cancel`
are `Deregister`. `beats` has a record for every heartbeat ever started: the lease it keeps, whether its
channel is open, its tries and the lease its current attempt was granted. `key` and `alive` are what etcd has,
`late` the `Put`s whose caller has given up. `FirstGet` to `ReWatchFails` are `watcher.Next`: a read, or the opening of a new
stream, may fail, and has then used up what called for it (`watch.failed`). `Deregister` stops the heartbeat of the latest
registration whichever service it is given, as the code does; with `r.lease` nil it would only delete a key, and the
guard `hasLease` leaves that call out (a bound). etcd's own steps are
modelled from how the code uses it and marked external. Closing a `Lease` object changes nothing the code
uses it for, since keep-alive runs on the client; so `hasLease` only says whether `r.lease` is nil.

Every `MC*` module only gives constants their values.

## 3. Runs, bounds and what they show

| Run | Instance | Distinct states | Shows |
|---|---|---|---|
| `locker` | memory: 3 goroutines, 2 keys, 6 addresses; Redis: 2 leases, terms of 1 and 3 seconds, prompt or not | 112 thousand | exclusion, exact lifetime of map entries, releases that never block, justified refusals; a live lease owns its key, a lost one is cancelled, `Release` returns, a key left behind becomes free; both implement `TryLock` |
| `hptimer` | 2 callers, a repeating task, a one-shot task with its ID, another task, time 0..1, one loop | 171 thousand | no lost wakeup, one task per ID, removed tasks do not run, repeaters stay, a stopped engine is quiet, due tasks leave the heap, `Stop` returns |
| `memory_queue` | 2 messages, 2 producers, 2 consumers, 1 `Run`, 2 `Shutdown`s, capacities 0 and 2, 1 retry | 64 thousand | one copy of each message until it is settled, no handler after `Run`, messages settle, `Run` returns |
| `delayed` | 3 messages under 2 IDs; memory: 2 callers; Redis: 2 instances, 1 fault | 504 thousand | what `Cancel` answered is final; no plan lost, duplicates paid for by faults, every due plan delivered or withdrawn |
| `sse_stream` | 2 requests, 2 events (one numbered, one perhaps blank), channels of capacity 1, with and without replay; the first event's own ID is the one a count would give the second | 162 thousand | gap-free order, no send on a closed channel, nobody waits for ever |
| `redis_queue` | 2 messages, 1 worker, local queue of 1, trimming to 1, 1 fault, 1 failing call per message | 302 thousand | at-least-once handling, repeats have a cause, the queue is closed once and after its senders, shutdown drains and gets through |
| `rate_limit` | 2 keys, every algorithm alone and in groups, both caches, time 0..5 | 732 thousand | the summaries decide as the full history would, whatever expires or is swept; retry times are right |
| `user_token` | 2 sessions, 2 requests at a time, 4 calls, both caches, terms of 1 and 2 seconds, time 0..3 | 1.73 million (with symmetry) | revocations are final and reach every session, open sessions stay listed, markers cover their tokens, checks are honest |
| `etcd_registry` | 2 services, 2 heartbeats, 3 leases, 2 tries, 2 faults, 1 watcher | 994 thousand | a kept lease keeps its key listed, stale entries vanish for good, current ones come back, a waiting watcher is current unless its last read failed |

Three more runs, `memory_delayed_cancel`, `redis_delayed_replace` and `rate_limit_overtaken`, end in a counterexample
on purpose; section 6 describes them.

Why these bounds are enough to meet the interesting cases:

- *Locker.* Three goroutines on one key are what it takes for an old holder, a new holder and a waiter to
  overlap while an entry is deleted and allocated again; the second key lets addresses be reused across
  keys. `AddressesSuffice` in `MCLocker` keeps the number of addresses from ever blocking an `Acquire`.
  In Redis one key is enough, as keys do not meet. Two leases are an old and a new holder. A second is two
  units, so that a term of one second (2) is over at its first tick and one of three (6) is not; a call of a prompt
  Redis takes up to one unit, and one of the other Redis any time.
- *Timer.* Two tasks share an ID so that upserts replace and refusals happen; two callers suffice for a
  stop during an upsert or two stops. Time 0 and 1 (`MaxTime`) distinguish due from not due, and the
  repeating task can fire more than once. One loop is what a single engine has before `Stop`; the proofs
  cover any number.
- *Memory queue.* `PoolNums` holds the default capacity 0 and one with room for all messages. `MaxErrors`
  is 1 instead of 3: what matters is that a message is retried and then given up. Streams share nothing but
  the map, so one of them is enough.
- *Delayed messages.* Three messages under two IDs give a replacement and an unrelated member in one batch. In memory
  two callers overlap a `Schedule` or a `Cancel` with another and both with the timer; the third message is the older
  one whose callback is running. In Redis two instances meet at every command. `MaxFaults` bounds crashes, failed commands and early expiries together,
  and `MaxFails` the failing calls of each message.
- *Streams.* Capacity 1 (64 in the code) makes every channel full as soon as it is used, which is when
  senders wait. `UnknownId` is a `Last-Event-ID` the stream has never sent.
- *Stream consumer.* `MaxLen` 1 with two messages makes trimming happen; `BufferSize` 1 makes the local queue
  full. `Orderly` restricts the application to the calls the documentation shows: `Run` after `Register`, and
  neither after a `Shutdown`, which itself may come at any time.
- *Rate limits.* One caller reads the clock at any time and enters the section at any later one before its next
  call, which gives every sequence of decision times that no other call overtakes; `rate_limit_overtaken` has
  two. Windows of 2 and 3 and limits of 2 let time 5 reach the window after next, in which the counter of the
  previous one has just been dropped; `Interval` 3 (a minute in the code) makes a sweep fall between requests.
- *Sessions.* Two requests overlap at every cache call; a second session shows that pruning and revoking one
  leave the other alone. An access token ends before its refresh token and within the grace period
  (`AccessTTL` 1, `RefreshTTL` 2, `Grace` 1), so rotations, grace and expiry all meet by `MaxTime` 3. A tick is a
  second (`Second` 1), and an `Expire` that reads the clock late in it (`late`) already loses a whole one. A run with
  three requests at a time (2.8 million states) found nothing else.
- *etcd.* Two heartbeats are an old one and its successor. Three leases give one registration and two attempts to
  renew it, or two registrations and one attempt. Two faults give a lost channel and a lost answer, or two failed reads, in a row.

Deadlock is not checked where the modelled program may stop: callers use each task, message or event once
and then have nothing left to do. `locker` has no such end and is checked for deadlock.

Each property has a mutant in `PROJECT.json`: a definition of the model changed the way a bug would change
it (a dropped guard, a missing signal, a swapped order), under which the property fails on the run's own
configuration.

## 4. Fairness

Fairness is weak and only given to code that the Go scheduler, the clock or Redis will run. Nobody is ever
forced to call an operation, and no fault is ever forced to happen.

- *Timer*: the clock advances, the loop takes its steps (including: a callback returns, unless `AwaitsCtx`
  says that it waits for its context), a started call continues.
- *Memory queue*: carriers, consumers (handlers return, back-offs end) and calls already begun continue.
- *Redis, delayed*: a dispatcher goes on, and the lock of a member whose holder has gone expires.
- *Streams*: some goroutine that can step does. Every goroutine of the instance has finitely many steps, so
  this is as strong as fairness to each of them and much cheaper to check. Writes to clients return.
- *Stream consumer*: each goroutine goes on, commands and handlers return, a blocking read returns after
  `BlockingTimeout`, and the idle time of an entry that no goroutine of the process holds grows past
  `VisibilityTimeout`.
- *etcd*: the caller and every heartbeat go on (an attempt that hangs is given up after three seconds), a lease
  that is not kept expires, a late `Put` is applied or lost. Nothing is assumed of the
  watcher's user, who calls `Next` when he likes.
- *Redis lock*: time passes, a call is answered or given up, and each goroutine goes on. The `select` of the
  renewing goroutine may find a tick and the cancelled context at the same time, over and over while Redis is slow;
  Go chooses at random, so it takes the context some time (`SF` of `StopRefreshing`; `WF` does not say so).

`MemoryLocker`, `MemoryDelayed`, `RateLimit` and `UserToken` are checked for safety only and state no fairness.

## 5. Proofs

TLC settles small instances; the theorems hold for every value of the constants that satisfies the named
assumptions of the modules.

**`LockerProofs`** proves about both lockers and about the module that composes them.
For the in-process one (`Invariance`, `Exclusion`, `EntryLifetime`, `ReleaseReady`, `RefusalJustified`,
`Refinement`) the theorems hold for any finite set of goroutines and any keys and addresses (`ProcsFinite`,
`NoneIsFresh`). Mutual exclusion is not inductive: two holders of one key are excluded because they hold the
slot of one channel, and it is one channel because the map entry stays while anybody is counted in. The
inductive invariant `IInv` therefore says that a counted goroutine's pointer is the map's entry for its key
(`CountedPointsToEntry`), that different keys have different entries (`EntriesDistinct`), that `refs` is
exactly the number of users of an address (`RefsExact`), that an entry has users (`EntryUsed`), and that a
taken slot has exactly one holder (`OneHolder`, `SlotMeansHolder`, `ReleaseNeverBlocks`). The count needs lemmas
about the cardinality of a set that gains or loses an element. `Refinement` maps the initial state to the
contract's and every step to a step or a stutter of `TryLock` (with the goroutines alone as owners).

For the leased one (`RedisInvariance`, `RenewalInTime`) they hold for any leases, terms and patience, with or
without fairness (`HoldersDiffer`, `Units`): they are stated for `RedisInit /\ [][RedisNext]_redisVars`. The
inductive invariant is a time budget (`TimeLeft`): while `Acquire` is being answered the key has its whole term
less the time of the call; while the goroutine waits it lives longer than until the next tick and a call after
it; while a renewal is under way, longer than what is left of the call. `IntervalBound` says that three
intervals fit into a term of three seconds or more, which makes the budget hold again after each renewal.
`KeepsForm` shows which goroutine a live context has.

`EitherIsSafe` carries both over to `LockerSpec`, the locker that `NewLocker` makes of either kind, and
`EitherKeepsContract` shows that it implements `TryLock`: one abstract lock whose owner is a goroutine or a lease served
in time. The time budget says that the key names every sure lease, so there is one at most, and a Redis step that makes
a lease sure leaves the key as it is (`SureFromAcquire`): no lease was sure before it. Every other step keeps the sure
lease or takes it away (`SureComesAndGoes`), so it is never passed on.

**`HPTimerProofs`** (`Invariance`, `TypesHold`, `IdsUnique`, `WakeupsKept`, `QuietAfterStop`, `RepeatersStay`,
`RemovedStaysOut`), for any tasks, callers and loops, and any bound on the clock. Two facts carry the rest. A
task value is in one place at a time, in a caller's hand, in the heap or in a loop (`OwnedOnce`,
`HandlesHeld`), so re-adding a repeating task cannot make a second copy. And until somebody calls `Stop` at
most one loop exists (`OneEngine`), so nobody else consumes its wakeup signal and a signal sent between its
unlock and its `select` is still there when it sleeps. `RepeatingStays` further needs
`OvertakenNotLast`: when a task that is being fired finds another task under its ID, that one was added
later, which is the case in which the code drops the older. `RemovedStaysOut` is an action property:
removal cancels the context (`RemovedCancelled`), and `LoopFire` looks at it.

**`UserTokenProofs`** (`Invariance`, `RevocationIsFinal`, `OpenStaysListed`, `RemovalIsComplete`,
`ChecksStayHonest`, `TokensAreCovered`), for any sessions, requests and terms and both caches (`NoneIsFresh`, `NoneIsNoToken`).
The marker of a session is only ever made by its login. The invariant says that a login
is alone with its session (`OpeningAlone`), that everybody else works on sessions whose login has returned
(`WorkingOnStarted`), that such a session is listed as long as its marker is stored, expired or not
(`MarkedIsListed`), and that a revoked one has no marker (`RevokedIsUnmarked`): so nothing later brings it back.
`DutyAhead` says where a `RemoveToken` still has a session before it. `ChecksStayHonest` adds that whoever
sifts holds `indexMu` (`LockHeld`), hence what it found is still in the index when it answers, and that
each answer still possible was right at some moment (`JudgedSoFar`). `TokensAreCovered` needs a third layer, `MInv`:
a session that no two rotations shared has at most one under way (`OneRotation`); the marker covers its record
except between the two calls of a rotation that save the one and extend the other (`Covered`), because a login
sets the marker for the term of its record (`MarkedForTerm`) and what a rotation has saved is still listed when it
comes to its `Expire` (`SavedIsListed`). In Redis the marker may end a second early (`Lag`), which is what
`WholeSecondsTerm` bounds: the term `EXPIRE` is given is short by less than a second and the late reading of the clock.

**`MemoryQueueProofs`** (`Invariance`, `InOnePlace`), for any streams, callers and channel capacities and finitely
many messages and consumers (`Finitely`, which bounds the channels ever made; the proof of the bound is
`ChansSuffice`: a channel is made for an `Append` or by a consumer). `OneCopy` counts the places of a
message, but the induction does not count: the invariant says that a message occurs once in the buffers
(`StoredOnce`), in one hand (`TakenOnce`), that buffers, carriers and hands do not overlap (`Apart`), and that
before the shutdown an accepted message which is not settled is in one of them (`NoneDropped`). `Wired`
ties every program counter to the channel it uses. `DrainedForGood` is inductive together with `Stopping`: the wait
counter is `running`, and only a `Shutdown` takes both back.

**`DelayedProofs`** (`CancelKept`, `PlansKept`, `DeliveriesPaid`), for any callers, messages, IDs and
number of faults and any finite set of instances (`IdOfVersion`, `NoneIsFresh`, `InstancesAreFinite`).
In memory `CancelIsFinal` needs to know why a `Cancel` that finds no plan may answer nil: an accepted message that waits
in the timer, unless it is `exposed`, has a plan, or a `Cancel` that has taken the plan and not yet the task. Beneath it, a
version is in one place, a caller's hand, the heap or the loop's (`OnePlace`, `CallerHolds`), and each caller has a
version of its own (`OwnMessage`). In Redis, `NothingLost` needs to know that a dispatcher which holds an older plan of
an ID, or has found none, is the reason for the exception the property makes (`OlderInHand`).
`DuplicatesNeedFaults` is a matter of accounts: the holders of a lock beyond the one it admits are paid for by
faults (`HoldersPaid`), a plan that is still stored has been delivered only by holders that are or a fault
that was (`PlanPaid`), and so has a plan that only a dispatcher has in its hand (`ReadersPaid`).

**`SSEStreamProofs`** (`GapFree`, `ClosedIsRemoved`), for any handlers, publishers, events and capacities
(`EventAttributes`, `RunPoints`, `Capacities`, `UnknownIsNoId`). `InStep` says how far each subscriber has come: what it was sent is the log
from its starting point up to the last event, except for the one `run` has in its hand and has not offered
it yet. `GapFree` assumes `[]OwnIdIsFresh`: a publisher may set an event's ID itself, and if it takes one that
the log already has, a `Last-Event-ID` no longer says which of the two events the client saw. The IDs the
stream gives are proved to be new (`NextIndexIsFresh`), so nothing is assumed of them. `ClosedIsRemoved` needs
no hypothesis: a request that `run` has not registered yet is neither in the list nor closed, and it is registered
once (`ChannelInv`).

**`RedisQueueProofs`** (`DeliveredAtLeastOnce`, `ShutdownIsOrderly`, `RepeatsPaid`), for any workers, messages, buffer
and stream lengths and numbers of faults (`Sizes`, `SomebodyWorks`, `Bounds`). Three invariants build on
each other. `AckedInv` says that what is in the local memory was handed out by Redis (`HandedOut`);
`DeliveredAtLeastOnce` follows for any order of the application's calls. `ShutdownInv` adds `Lifecycle`, which
relates the goroutines' ends to the wait groups, the queue's closing and the calls under way. `RepeatInv` adds the
account of the handler calls: those made, and every copy of a message that is on its way to a handler, are
covered by the first delivery, the failures and the faults (`Paid`); a message that waits in the pending list
with nobody holding it has that much credit left (`Owed`); nothing has happened yet to a message Redis has not
handed out (`Unseen`). Copies in the queue are counted, with lemmas about a sequence that gains or loses an element
(`OneMore`, `OneLess`). The last two theorems assume `Orderly`, the constant under which the run checks the
same properties: `Run` comes after `Register`, and neither after a `Shutdown`.

**`EtcdRegistryProofs`** (`Invariance`, `ListingKept`, `WatcherKept`), for any services and any number of heartbeats,
leases, tries and faults (`FirstIsService`, `Bounds`). The invariant says that only the latest heartbeat may be uncancelled
(`OneUncancelled`), that every lease a heartbeat knows has been granted (`LeasesGranted`), and with the two
properties themselves that this heartbeat's lease is the key's unless something given up has overtaken it, and that
what the watcher has not seen is announced or was lost by a `Next` that failed.

The proofs have one lemma per action (or group of actions) with one step per conjunct that it can disturb, and
conjuncts it does not touch collected in a last step; `MemoryQueueProofs`, whose actions are small, has one lemma
per conjunct with a step per action.

## 6. Findings

Three times a text of the repository says something the code does not do. Each run checks that one statement and
ends in a counterexample.

- `memory_delayed_cancel`: the callback of an older task deletes the plan of its ID, also when a `Schedule` has put a
  newer task under it meanwhile. `Cancel` then finds no plan and answers nil, and the newer message is appended. For
  the same reason a further `Schedule` of that ID is refused instead of replacing it.
- `redis_delayed_replace`: a `Schedule` between a dispatcher's `HGET` and the removal that follows is removed with
  the plan it replaced and never delivered, although it returned no error. If the `HGET` found nothing, only the
  score goes and the payload stays without one, which is never delivered either.
- `rate_limit_overtaken`: the memory limiter reads the clock before it takes the mutex. A call that read it just
  before a window ended and enters after calls of the next window resets that window's count, and so does the
  next call of the newer window: more requests pass than the limit allows, although the comment says that the
  limits are judged and updated atomically.

Known limitations that a property is stated around, or that a reader of the models should know of:

- *`hptimer`*: a task being fired is in neither heap nor index, so `Stop` and `RemoveTask` do not cancel its
  context, although the README of `hptimer` tells callbacks to wait for `ctx.Done()`; `Stop` then waits for a
  callback that waits for `Stop`. The same happens to a callback that calls `Stop`. In the run callbacks return by
  themselves; the constant `AwaitsCtx` makes them wait, and `StopReturns`, a part of `EngineMovesOn`, then fails.
  `Stop` cancels the engine's only context: an engine started again accepts tasks that never fire.
- *`queue/memory`*: two first `Append`s to a stream each make a channel under the read lock; the second store
  replaces the first, whose message stays where no consumer looks. `AttendedMessageSettles` is about the
  channel consumers look at. It also needs a channel with room: a consumer that re-sends to its own full or
  unbuffered channel waits for itself.
- *`queue/memory`, delayed*: two `Cancel`s of one ID share the work, and the second may answer nil while the first
  has not removed the task yet; `CancelIsFinal` leaves out these messages and those of the finding (`exposed`).
- *`queue/redis`*: if creating the consumer group fails once after `Register`, a later `Run` starts a second
  dispatcher and overwrites the first one's cancel function; `Shutdown` waits for it for ever. And a `Shutdown` that
  comes between `start` and the moment the consumer sets `running` stops nothing: the consumer goes on and
  `Shutdown` waits for ever. The `defer cleanup()` of `queue/README.md` allows the call at
  any time. `ShutdownGetsThrough` names both cases.
- *`transport/sse`*: `run` may wait for ever for room in the channel of a subscriber whose handler has left
  (`Jammed`, the alternative of `NobodyWaitsForEver`). A publisher that sets an ID which the log already has makes
  a reconnecting client resume after the first event with that ID; `GapFree` excludes it by hypothesis.
- *`auth/data`*: of two overlapping rotations of one session the later save undoes the earlier one's token, and
  its `Expire` may shorten the marker; `MarkerCoversTokens` leaves such sessions out (`mixed`). An access token
  rotated twice within the grace period ends at the second rotation, since only one previous token is kept. In
  the memory cache an `Expire` whose term is already over makes the marker permanent. In Redis an `Expire` gets
  `time.Until` cut down to whole seconds, so after a rotation the marker ends up to a second before the refresh token,
  and the session is refused and pruned for that second (`Lag` in `MarkerCoversTokens`).
- *`locker/redis`*: the goroutine renews a second after `Acquire` at the earliest, so a lease with a term of a second
  or less loses its key before its first renewal, while its context is still live; the renewal then fails and
  cancels it. `LiveLeaseOwnsKey` is about terms of three seconds or more.
- *`registry/etcd`*: a `Put` given up after three seconds may be applied after the next attempt's, and a `Delete`
  may be applied although `Deregister` reports an error; the key then no longer follows the heartbeat
  (`overtaken`). A heartbeat that runs out of tries, or whose new channel closes before its first answer, ends
  without a report, and the service stays unlisted until it is registered again. A `Register` that fails has
  already stopped the heartbeat of the registration before it, and a `Deregister` stops the current heartbeat also when
  it is given another service. A `Next` of a watcher whose read fails has used up the event, or replaced the
  broken stream: unless there is another change, the next one waits and the watcher stays stale (`watch.failed`).

## 7. What is only model-checked, and what is not modelled

Every invariant that a passing run checks is stated by a theorem. Only model-checked are:

- the liveness properties (`LeasesSettle`, `EngineMovesOn`, `AttendedMessageSettles`, `RunReturns`, `DueIsDelivered`,
  `NobodyWaitsForEver`, `EveryMessageHandled`, `ShutdownGetsThrough`, `OnlyCurrentListed`,
  `CurrentStaysListed`): the prover does not reason about fairness and `ENABLED` here;
- `DecisionsMatchHistory` and `RetryIsHonest` of `RateLimit`, two action properties that compare five
  algorithms with cardinalities of histories.

`TypeOK` documents the values the variables take; except for `RateLimit`'s it is a part of the proved
invariants, and no run spends its time on it.

Left out of the modelled components, on purpose:

- panics and their recovery, other than a handler's failure and a second `close` of a channel;
- wall-clock durations: a time-out, an expiry or a due time is an event that may happen, ordered by what the
  code guarantees. Only `HPTimer`, `RateLimit`, `UserToken` and `RedisLocker` have a clock, because they compute with times;
- consumer names, message ID arithmetic and option defaults of `redisqueue`; the text format of events;
- the ten-second limit of `hptimer`'s server wrapper, and a callback that calls `Stop` (it waits for itself);
- tokens without a session in `auth/data` (a `Set` and a `Del` of one key each) and the text of tokens;
- the arguments `TakeRateLimits` refuses before it looks at any state, and its arithmetic in nanoseconds: times
  and levels are whole numbers with exact fractions (`num`/`den`);
- several goroutines that register with one etcd `Registry`, and the end of its context;
- the memory model: the modelled parts share state only under locks and channels.

The components without a model, and why, are in `PROJECT.json`. They fall into three groups: adapters
whose state lives in an external client or store (registries other than etcd, configuration sources, databases,
workflow engines, object stores), stateless code (construction of servers, encodings, redaction), and
components the plan below still has ahead.

## 8. Plan

Done, in this order: `TryLock` and `MemoryLocker` with proofs; `HPTimer` with proofs; `MemoryQueue` and
`MemoryDelayed`; `RedisDelayed`, composed with it in `Delayed`; `SSEStream`; `RedisQueue`; `RateLimit`; `UserToken` with proofs; `EtcdRegistry`;
`RedisLocker` with proofs, composed with `MemoryLocker` in `Locker`; then the proofs about `EtcdRegistry`, `Locker`, the two
delayed queues, `SSEStream`, `MemoryQueue` and `RedisQueue`.

The set of runs is kept small enough to be checked in one go, so a new module takes the place of a
counterexample run whose finding is described above, or shares a run with a module it composes with, and
shallow properties give way to deeper ones. Still ahead, most important first:

1. `MqttBroker` (`broker/mqtt`, `transport/mqtt`): connection callbacks, subscriptions, disconnect.
2. `ServerLifecycle`: the start/stop flags that `cron`, `queue`, `hptimer`'s server and `keepalive` share,
   as one parameterised module with the servers as instances.
3. `Algorithms`: back-off with its overflow guards and health aggregation, as operators checked against
   reference definitions over bounded inputs.

Theorems worth proving next: `RetryIsHonest` and then `DecisionsMatchHistory` of `RateLimit`; an abstract
specification of a work queue that both `MemoryQueue` and `RedisQueue` implement (a message is accepted, handled
perhaps several times, and settled); and that `HPTimer` implements the engine `MemoryDelayed` assumes.
