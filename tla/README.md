# Formal verification of AoEo

AoEo is a Go SDK that sends chat requests to several LLM providers: it picks a
provider with a router, limits how many requests are under way with a weighted
semaphore that can be resized while in use, retries and falls back, streams
answers, records every call, replaces personal data by pseudonyms, and reloads its
configuration at run time. This directory holds TLA+ models of the parts where that
concurrency can go wrong, the TLC runs that check them and the TLAPS proofs about
them. `PROJECT.json` is the index: components, runs, hazards, findings, theorems,
and for every definition the lines of Go it stands for.

Paths below are relative to `src/`.

## 1. The system

    callers (SDK, server/handler_*.go)                 config/watcher.go
        |  Client (client.go) delegates                     | ApplyConfig
        v                                                   v
    Scheduler (internal/engine/scheduler.go) ---- mu RWMutex, providers, availCache
        |-- semaphore (semaphore.go)      slots for requests to providers
        |-- router    (core/router.go)    order of the available providers
        |-- hooks     (core/interceptor.go) before / after / per chunk / stream done
        |-- DoRetry   (retry_impl.go)     attempts at one provider
        |-- history   (history.go) --chan--> storage workers --> storage/base.go
        |-- health loop (scheduler.go 331-412)
        v
    providers (providers/providers.go)    circuit breaker, HTTP, stream goroutine

| Component | State it keeps | Operations | What is hard about it | What makes it correct |
|---|---|---|---|---|
| Adaptive semaphore `internal/engine/semaphore.go` | `maxConc`, `inUse` (atomics), the queue of waiters with their channels, `mu` | `AcquireN`, `ReleaseN`, `setMaxConc`, cancellation of a wait | a lock-free fast path beside a locked slow path; resizing below what is in use; cancelling a wait that has just been granted | slots are neither lost nor invented; free slots and a waiter that fits do not coexist for long; the capacity is exceeded by a bounded amount only |
| Provider registry `internal/engine/scheduler.go` | `providers`, `mu`, `rrIndex`, `availCache` and its expiry | `ApplyConfig`, `ProviderStatus`, `AvailableProviders`, picking for a call | an index computed from one snapshot is used on another; a cache filled from an old list; two locks taken one after the other | capacity and list agree; no panic; readers see an installed list soon |
| Calls `scheduler.go`, `audit.go`, `retry_impl.go` | local state of each call; `closed` | `ChatComplete`, `...WithRouter`, `...WithFallback`, `...Dual`, `Audit`, `TestProvider`, `Close` | slots held over errors, panics and nested attempts; calls that outlive `Close` | slots follow the requests; hooks come in pairs; history and result tell what happened |
| History `history.go` | ring (`buf`, `head`, `count`), channel to the workers, `storage`, `closed` | `Record`, `Clear`, `SetStorage`, reads, `Close` | full queue, wrap-around, `Close` while records are queued | the ring is the latest records in order; every record reaches the storage at most once, and is stored, queued, or counted as dropped |
| SQL storage `storage/base.go` and drivers | tables | `RecordCall`, `GetProviderStats`, ... | aggregation over currencies | the statistics cover all calls |
| Streams `internal/engine/stream.go`, `providers/providers.go` | two buffered channels, two goroutines, `streamCtx`, `streamWg` | open, forward, cancel, time out, `Close` | whoever stops receiving must not leave a sender behind | chunks in order and without gaps; slot back in the end; goroutines end |
| Circuit breaker `providers/providers.go` 213-312 | `failCount`, `failUntil`, window of 20 results | `RecordFailure`, `RecordSuccess`, `Available` | several atomics changed in separate steps | opens at the threshold, closes on success |
| Health loop `scheduler.go` 331-412 | `healthCheckStop`, `healthCheckWG`, `healthCheckMu` | `StartHealthCheck`, one tick | start racing `Close`; events | one loop at most, none after `Close` |
| Routers `core/router.go` | `rrIndex` and the weighted counter, latencies, weights | `Select`, `SelectSequence` | counters that wrap, zero weights, nobody available | equal or weighted shares; a sequence of the available providers |
| Requests: `core/types.go` `Clone`, `internal/engine/prompt.go`, `core/interceptor.go`, `server/converter.go` | the caller's messages; templates, hooks and provider prompts, each replaced while calls run | copy, inject, hooks, send | slices share arrays; one request used by several calls and by several providers of a fallback | the caller's messages stay as they are; each provider gets them with its templates, once |
| Privacy gateway and store `privacy/*.go`, `privacy/store/pebble.go` | sessions: pseudonym <-> original | before / after / per chunk | lookups and inserts as separate calls that may fail; one value inside another; pseudonyms cut by chunk borders | nothing that was detected leaves; what comes back is restored |
| Detector load balancer `privacy/model/*.go` | backends with health, latency, counter | `Detect`, `DetectBatch`, health loop, `Close` | several writers of `healthy`; a lock-free moving average; a wrapping counter | a call fails only when no backend was usable all along; the marks follow the backends |
| Config watcher `config/watcher.go`, `config/config.go` | `stopCh`, `running`, last modification time | `Start`, `Stop`, poll, load | the file changes between `Stat` and read; a poller that misses its `Stop` | the last change is applied; pollers end |
| Client, options, rest of the server, CLI | none of their own, or request-local | conversion and delegation | none that concurrency makes | unit tests |

Interactions that matter: the registry sets the capacity of the semaphore
(`ApplyConfig` calls `setMaxConc`); every call and every stream takes slots and
must return them on every path; every call ends with a `Record`, which sends on the
history's channel, which `Close` closes; the wrapper of a stream and the provider's
goroutine share one channel; the health loop and calls share the breaker's atomics;
the watcher drives `ApplyConfig`; the privacy gateway is a hook of the
chain and asks the load balancer what to hide; templates, hooks and prompts change what
every call sends. `PROJECT.json` lists the hazards that follow, each
at the line where it bites.

## 2. Modules

| Module | Models | Steps |
|---|---|---|
| `Semaphore` | `semaphore.go`, whole | one per atomic operation or critical section boundary |
| `SemaphoreProperties`, `SchedulerProofs` | what must hold of it; proofs about it and about `Requests` | |
| `Registry` | list, cache, `ApplyConfig`, picking | one per lock acquisition, per read of shared state, per store |
| `RegistryProperties`, `RegistryProofs` | | |
| `Calls` | all request/answer calls and `Close` | one per acquire, hook chain, request, answer, record, release |
| `CallsProperties`, `CallsProofs` | | |
| `HistoryLog` | abstract: an append-only log with a bounded view of its end | |
| `History` | ring, channel, workers, storage; refines `HistoryLog` | one per critical section and per channel operation |
| `HistoryProperties`, `HistoryProofs` | | |
| `Stream` | caller/wrapper, producer, two channels, contexts, `Close` | one per channel operation |
| `StreamProperties`, `StreamProofs` | | |
| `Breaker` | the breaker of one provider, the calls that drive it, and the health loop with `StartHealthCheck` and `Close` | one per atomic operation, mutex acquisition, event |
| `BreakerProperties`, `BreakerProofs` | | |
| `Routers` | the five strategies and `BuildRouter`, as operators over a counter, availability and health | pure |
| `Requests` (extends `Routers`) | from the caller's request to what each provider is sent: copies, templates, hooks, prompts, conversion of posted messages | one per copy, injection, hook chain, send, and per replacement of templates, hooks or a prompt |
| `RequestsProperties` | proofs in `SchedulerProofs` | |
| `Pseudonyms` | values, pseudonyms, and the replacement of one by the other, as operators over sequences of words | pure |
| `Privacy` (extends `Pseudonyms`) | the gateway over the store of one session | one per call of the store, per request or answer passed on, per chunk |
| `PrivacyProperties`, `PrivacyProofs` | | |
| `LatencyCell` | abstract: a moving average that takes each measurement at one instant | |
| `Detector` | adapter, load balancer, HTTP retries, health loop; its averages refine `LatencyCell` | one per atomic access, attempt, probe |
| `DetectorProperties`, `DetectorProofs` | | |
| `Configuration` | `LoadConfig`: variables, defaults, validation, as operators | pure |
| `Watcher` (extends `Configuration`) | `Start`, `Stop` and the pollers over a file that changes | one per critical section, look at the file, select, callback |
| `WatcherProperties` | | |
| `MC*` | values of the constants for TLC | |

How a module's state maps to the code is said at its VARIABLES and, line by line, in
`PROJECT.json` "map". The conventions are the same everywhere:

* `pc` (`at` in `Requests`) is where a goroutine is; its values are named after what the code does next.
  A critical section is one step when nothing in it can be seen or disturbed from
  outside; where a lock-free access exists (the fast path of the semaphore, `rrIndex`)
  the section is split at every atomic operation.
* `ctx.Done()` is membership in a set that only grows. A `select` with several ready
  cases takes any of them, as Go does.
* A provider answers with any outcome. Errors are `transient` (what `IsRetryableError`
  accepts) or `permanent`; texts are not modelled.
* A Go panic is a step to a label of its own: `Registry` lets it kill the caller with
  the read lock held, `Calls` runs the deferred functions as `recover` does.

**Composition.** The modules meet at narrow points and each takes the other side as
an assumption that the other one establishes. `Calls` and `Stream` assume of the semaphore less than `Semaphore` shows: an `Acquire` may
be granted at any moment, beyond the capacity too, since the real one exceeds it (by
one request at most, `OvershootBounded`), while a newcomer on the fast path races a grant
or a shrink. What these modules state of slots is therefore about what is taken, never about the capacity. What they
need is that a slot that fits is granted in the end (weak fairness of `Acquire /\ Fits`), which `ServedOnceUncontended`
gives where nobody cancels. Where somebody does, `sem_cancel_lost_wakeup` refutes it, and so `Calls` has `forgotten`: whoever stops
waiting may leave any of the other waiters asleep, until the next release. The weak fairness of `Stream` does not say so, as
its properties are about streams that have opened. `Calls` takes any member of `Orders` as
the providers picked (`Registry` has how one is picked); `Calls` keeps of the history
only whether its channel is closed, `History` has the rest; `Registry` keeps of the
semaphore its capacity. `Calls` says how often and in which order hooks and requests happen
and nothing of their content, `Requests` has the content and none of the slots, retries and results; its
routing is that of `Routers`, with its panic on a negative index (`RoutePanics`), the dual call that finds no second provider and goes
on as a chat (`degraded`), and the audit that asks its primary only. `Privacy` takes any subset of the values of a text as what
the detector found, which covers every way in which `Detector` may answer or fail.

## 3. Runs

| Run | Instance | States | Shows |
|---|---|---|---|
| `sem_safety` | 3 goroutines of weights 1 and 2, capacity from {0,2,3}, all cancellable | 604,686 | slots in use are exactly those of the holders and of the grants under way (`SlotsAccounted`); `inUse` exceeds the largest capacity by one request at most (`OvershootBounded`); nobody waits without being in the queue or granted (`NobodyForgotten`). 0 is a capacity `setMaxConc` must turn into 1. |
| `sem_wakeup` | the same without cancellation | 38,238 | no state at rest has a head of the queue that fits (`NoLostWakeup`); a waiter is served once nobody contends (`ServedOnceUncontended`) |
| `registry` | 1 caller, 2 appliers, 4 installs of lists of 2, 1 and 0 providers | 84,693 | capacity matches the installed list whenever no writer is inside (`CapacityMatchesProviders`); a panic needs a list that shrank in between (`PanicOnlyAfterShrink`); `ApplyConfig` returns unless a panicked reader holds the lock (`ApplyReturnsUnlessLeaked`); once installs stop, readers see the last list after the cache expired (`Converges`) |
| `calls` | 2 calls of any of the 5 kinds, 2 providers, 2 slots, 1 retry, one call cancellable | 331,621 | slots equal what the calls hold on every path (`SlotsMatchCalls`); no more requests out than slots taken (`OutboundWithinSlots`); the records say what the providers answered (`HistoryFaithful`), and so does what the call makes of the answers, which only the hooks after a chat or a fallback may replace, a panic excepted (`ResultFaithful`); hooks pair up in chats and fallbacks, and not in dual calls (`HooksPaired`); nobody is asked more than 1 + MaxRetries times (`AsksBounded`); every call returns, unless the semaphore has forgotten it beside free slots after a cancellation (`EveryCallReturns`) |
| `history` | ring of 2, queue of 1, 2 workers, 3 records, 1 reader | 161,694 | every record is exactly one of stored, queued, in a worker's hands, lost (`Accounted`); reads see the log's end in order (`ImplementsLog`); after `Close` the queue drains (`DrainsAfterClose`) |
| `stream` | 1 stream, 4 chunks, buffers of 2 and 1 | 18,735 | slots follow streams, and only a panic in picking or in the provider, before the `Release` is deferred, keeps one for good (`SlotsMatchStreams`); the consumer gets 1, 2, 3, ... without gap or repetition, an error at the end only (`ChunksInOrder`); every opened stream ends and gives its slot back, however little the consumer reads (`StreamEnds`); the producer ends except when it is stuck in one of its two plain sends (`ProducerEndsUnlessStuck`) |
| `breaker` | 1 caller, 1 controller, 2 identities for loops, threshold 2, cooldown 2 | 64,982 | counter, cooldown and events agree at rest unless a success has overlapped a failure (`ConsistentUnlessMixed`); none reaches a provider after `Close` (`SilentAfterClose`); the provider becomes available time and again unless health checks keep failing it (`CooldownEnds`); `StartHealthCheck` and `Close` return (`StoppingEnds`) |
| `requests` | 2 calls of any of 5 kinds with one request, 2 providers, 7 routings, 2 lists of templates, 2 chains of hooks, 1 replacement meanwhile, counters of 4 bits | 1,437,303 | the caller's messages stay as they are, but for a dual call's hooks that edit in place (`CallerUntouched`); what reaches a provider is the caller's messages in order, each matching template and the prompt once and in place, the marks of the hooks that ran in order (`SentFaithful`); the round robin and the weighted router give each provider its share, the round robin as long as its index is not negative (`SharesFair`) |
| `privacy` | 2 requests of one session, values of which one contains another, pools of 1 and 2 pseudonyms, 1 failing call | 105,446 | no word of a detected value leaves, unless two of the values can lie across each other (`NothingDetectedLeaves`); both directions of the store agree unless two requests raced (`DirectionsAgree`); an answer that repeats the request is restored exactly (`RestoredExactly`), and a stream keeps on completing to what the user wrote unless a chunk begins or ends within a pseudonym (`StreamRestored`); the search for a pseudonym ends unless there is none left (`RequestEnds`) |
| `detector` | a batch of two texts and a single one, 2 backends of which one flips once, counter that wraps after 4 | 570,266 | a stage fails only if every backend was down, or marked by somebody else, at some time, or its context ended (`FailoverComplete`); no measurement is lost (`ImplementsCell`); the marks converge to the backends (`HealthConverges`) |
| `watcher` | 2 goroutines that start and stop, 2 starts, 2 edits, 3 documents or none | 275,957 | the last usable change of the file is applied (`ChangesApplied`); after the last `Stop` every poller ends (`PollersEnd`), unless overlapping `Stop`s panic |

One run's property fails, a statement of the repository that the code does not keep:
`sem_cancel_lost_wakeup`. DESIGN.md:189 says that cancelling a wait avoids lost wake-ups; TLC
shows a waiter cancelled after its grant that returns the slots (semaphore.go:148) and wakes nobody: free
slots, a waiting head, and no one to look.

The other disagreements between the code and what it says of itself are listed, with the lines of
both, under "findings" in `PROJECT.json`. Most of them are the exceptions that the properties above
have to name: a panic after the list shrank, a stream that panics with its slot, a waiter forgotten after a cancellation, a stuck
producer, a dual call's hooks, an empty request whose array is shared, mappings that a request does not hand on, a `Stop` that
overlaps another, a round robin that has counted to 2^63. Others are comments that say more than the code does: that a system template
replaces the caller's system message (it is put before it), that any change of a file's time is a reload (only a newer one is).

**Why the bounds are enough.** Semaphore: three goroutines are the least with a
holder, a queued waiter and a newcomer on the fast path at once, and weights 1 and 2 give a
head that does not fit while its successor would; four add only more of the same.
Registry: a panic needs one list change between two reads, a stale cache one fill that
spans an install; two appliers give both at once and the exclusion of writers; `MaxInstalls`
and `RRPeriod` cap the number of installs and the round-robin counter (the proofs
do not have these bounds in their way: they hold for every value). Calls: two calls and two slots contend for the last slot, and a
dual call with an audit shows that needing two slots does not deadlock (with a capacity of 1 a dual call waits until it is cancelled); two providers
make a fallback with one failure and one success. History: a ring of 2 wraps with the
third record; a queue of 1 is full with the second; two workers reorder. Stream: four
chunks exceed the two buffers together (2 + 1), so that both sides block; streams
interact through the slots and `Close` only. Two streams at
once are beyond a run of reasonable length; the proofs of `StreamProofs` hold for any number. Breaker: a caller
and a loop are the two reporters whose reports can overlap, the threshold is above 1 so that there are failures that do not open,
and two loop identities are the least for an old loop beside a new one. The counter saturates at the threshold: the code compares it
with 0 and with the threshold only.

Requests: two calls are the least that share an array, and a dual call or a fallback makes two copies by itself;
the shapes are a conversation without room behind it and an empty request with room, the two ends of what
`append` and `Clone` tell apart. One replacement (`edits` is at most 1) can fall between any two steps of both
calls; templates cover the three positions, a wildcard and a name and a model that match one provider
only. With 4 bits the counters wrap after 16 calls. `SharesFair` looks at runs of up to 8 calls, from every value of the weighted
router's counter, and for the round robin from every value below half the range that leaves room for the run. What it says of the round robin does not depend on the width; the slack of three
calls for the weighted router is what these few bits give and not a bound for 64. One routing starts where the index of the
round robin is negative, so that a call panics there. `Golden` is the odd number next to the same fraction of the range as in the code. Privacy:
two values of different lengths, one inside the other, are the least for the longest-first order to matter,
two requests for the races of the store, and a pool of one pseudonym runs dry. One failing
call can be any of them. Detector: a batch and a single call are the two forms of a stage, two
backends are one to fail and one to fail over to. A text that no backend accepts is the call whose
context ends: both fail everywhere. Watcher: two goroutines overlap `Start` and `Stop` in all ways, two starts give an old
poller beside a new one, two edits one change before and one after a look at the file. Every edit is
assumed to give the file a newer time than the last: one that does not, an edit within the resolution of the file
system's clock or an older file moved back, is never seen by the code (watcher.go:122), a finding.

Deadlock is checked in `sem_wakeup` and `breaker`, where goroutines work for ever. In
`sem_safety` everybody may rightly wait: at capacity 1 a request of 2 slots is never
granted (a hazard without a property: the code has no answer to it other than the
caller's cancellation). In the other modules work is finite and a state without
a next step is the ordinary end: every call has returned, every record is made, the
scheduler is closed. There `EveryCallReturns`, `ApplyReturnsUnlessLeaked`, `DrainsAfterClose`,
`StreamEnds`, `RequestEnds` and `PollersEnd` tell a good end from a deadlock.

**Fairness**, the least that the properties need:

* `Semaphore`: weak fairness of the steps of a goroutine that runs, strong fairness of
  taking `mu`, which Go's `sync.Mutex` gives by its starvation mode. Holders release: the
  scheduler defers `Release`.
* `Registry`: weak fairness of appliers and callers, and of time passing (`Expire`).
  No fairness lets an installation happen.
* `Calls`: weak fairness of every call's steps, including the answer of a provider, which
  always comes: a provider call runs under a timeout. What fits is granted, unless the waiter is forgotten. A router that panics
  on a sequence is never made to, and neither is a grant beyond the capacity.
* `History`: weak fairness of the workers. Nothing is assumed of callers or readers.
* `Breaker`: weak fairness of reports, loop steps, the waits of `stopHealthCheck` and the clock; strong fairness of
  taking `healthCheckMu` and of the loop's leaving through its stop channel, since Go's
  `select` chooses among ready cases at random. No call has to be made and no controller has to act.
* `Stream`: weak fairness of opening, of a grant that fits, of the wrapper, of the timeout of `streamCtx`, and of the producer, whose
  receive from the network is guaranteed to return only when `streamCtx` is done. Nothing is
  assumed of the consumer: it may stop reading for ever.
* `Privacy`: weak fairness of the steps of a request. The search for a pseudonym is one step to a free one: the
  draws are random and independent, and one of them is free in the end if any is.
* `Detector`: weak fairness of the health loop: its checks run under a timeout, and a ticker ticks. Nothing is assumed of calls.
* `Watcher`: weak fairness of the rest of a `Start` or `Stop` that has begun and of pollers; strong fairness of a poller's
  leaving through its closed channel, as for the health loop. No `Start`, `Stop` or edit has to happen.

`Requests` has safety properties only.

## 4. Proofs

The theorems hold for every value of the constants that meets the module's ASSUME;
the provers check them without the bounds of the runs.

**SchedulerProofs.** What goroutines share in the scheduler, first the semaphore: `TypeCorrect` and mutual exclusion come from one invariant
(`MutexInv`: who is in the critical section holds `mu`, and a waker has a head).
`SlotsAreAccounted` counts the slots as the pairs (goroutine, number up to its weight); its
lemmas are about how that set's cardinality changes when the row of one goroutine does. `OvershootIsBounded` needs to know that a
check that was good when made is still good, but for the fast path that
may have come in between (`CheckStillGood`). `NobodyIsForgotten` rests on `QueueInv`: queue entries are distinct
and are the waiters not yet granted. `NoWakeupIsLost` assumes that no context is
cancelled (Cancellable = {}), as the run above shows that it must; the invariant
`StaleIsCovered` says that whenever the head would fit, some goroutine is on its way
to look.

Then the request of a caller. `CallerKeepsMessages` proves `CallerUntouched` for any number of calls and providers and any hooks
and templates. The property only looks at the array of the caller and is not inductive: a step that edits a slice keeps it
only if that slice is not the array. `CopiesInv` says which slices have an array of their own: a fallback's request from its copy to
its hooks, and every leg from its copy to its send; a request that is no copy is the array in full, so that `Clone` does copy it.
All of it holds as long as no dual call has edited in place (`Tamperers`, which only grows). TLC checked the invariant on
the instance of the run. One lemma per helper says that a view of a copy stays one and leaves the array
(`EditedKeeps`, `AppendedKeeps`, `InjectOneKeeps`, `RunHookKeeps`), and `FoldKeeps` carries that over chains and lists of any
length. A leg is indexed by its turn in the order of the call, so that the proof needs nothing about what routers compute, and
the three ways a hook can edit (`RunHook`) are exclusive, as in the code.

`CallsSendAlone` goes on from there: what a leg holds when it is ready to be sent is what the call's hooks, the templates for its
provider and its later hooks make of the request when nobody else is around (`Sent`: `Hooked` and `Templated` apply them to messages
in an array of their own). The invariant `FlowInv` follows the request through its call: the request of a call once its
early hooks have run, the copy before and after the injector, and the copy after its hooks, with the hooks that have run.
`Legs` says which legs exist: of a single call only one, so that the hooks of a leg are those of the call. The step of another call
changes nothing of this (`FlowElsewhere`), because what a slice shows is in its own array or in the part of the caller's array that
`CopiesInv` keeps as it was; and two views of copies with the same messages have the same messages after any chain or list
(`FoldAlike`), whatever else differs. TLC checked `FlowInv` on the run's instance too.

`RequestsAssumption` says that messages, hooks and templates come in sequences, nothing else. The theorems about the two parts share no variable;
they are in one module because both are about the scheduler.

**RegistryProofs.** `LockInv` (readers and writer by where everybody is)
gives `OneWriterAtATime`; with the section of the writer it gives `CapacityFollowsProviders`;
`StatusInv` relates a snapshot held by a caller to the list installed when it was
taken, hence `PanicNeedsShrink`. `NoPanicAtFixedLength` is the practical reading: if every
configuration has as many providers as the first, no caller panics.

**CallsProofs.** `ControlInv` says which label goes with which kind of call, hence how many
slots a call holds at each label; `SlotsNeverLeak` follows by counting the pairs
(call, slot it holds), one lemma for each way a row of that set changes. `RequestsAreBounded`: a call
never waits for more providers than it holds slots, so that the requests under way map one-to-one
into the slots taken, however many the semaphore grants. `PanicsComeFromPickOrHistory` adds to the control invariant where a
call may be while its result is a panic, since the deferred steps still follow: a panic that reaches a caller comes from a
closed history with a storage, or from the picking (an index past a list that shrank, a router's code), before any provider was asked.

What a call has done is a function of a few things: `PathInv` says, for each label and each kind of call, which
providers have a verdict, how many attempts each has seen, which records exist, how often each hook has run, and what
the result may be. What a caller is told beside it, after hooks that may replace it,
is `HandedInv`. `PathInv` is stated as predicates over plain values (`OrderAt`, `VerdictsAt`, `TriesAt`, `RecordsAt`, `HooksAt`,
`ResultAt`), so that a step is proved on the values it changes. The type invariant and
`ResultFaithful`, `HistoryFaithful`, `HooksPaired` and `AsksBounded` are read off it. They need it because each relates ends
of a call to what happened several steps before, for instance a record to the provider the call fell back from.

**HistoryProofs.** `RingIsFilled`: the indices of the ring stay in range and the newest `count` slots are filled, whatever
its size (the step is arithmetic modulo the size). With it, `RingImplementsLog` shows that a record and a `Clear` are steps
of `HistoryLog`, a read under the lock is its filter of the newest records, and everything else is a stutter.
`PlaceInv` says where a record can be (queued once, held by one worker, saved, lost) and that these exclude each other; `RecordsAreAccounted`
follows. The type of `shown`, which the code computes with a filter, is left to TLC.

**StreamProofs.** `PipeInv` relates the five places of a chunk (source, channel, hand of the wrapper, second
channel, consumer): each holds consecutive numbers and starts where the next one ends, up to an error, which is last, or a
context that is done, after which chunks may be dropped. `ChunksStayInOrder` needs all five; `OnlyPanicsLoseSlots` counts
streams by their labels, those that panicked with their slot included; `TypeCorrect` bounds the buffers by their sizes and the
semaphore's counter from below only, as nothing bounds it from above here; `HooksRunOnce` says when the closing hooks have run.

**BreakerProofs.** `OneLoopOnly`: a loop starts only when all others are off, and nothing else turns one on.
`SilentWhenClosed`: from the moment `Close` is past its wait, `closed` is set, and a loop looks at it between
its ticker and the provider. `ConsistentBreaker` divides time into phases: while reports do not mix, either nobody
is inside `RecordSuccess` or nobody inside `RecordFailure`; in a phase of failures the counter is at the threshold and the
one who still has to store or to announce is known, in a phase of successes whoever
has to announce the recovery is (`Recovers`).

**DetectorProofs.** `OrderComplete` shows that each strategy yields every healthy backend: permutations by
counting, rotations by arithmetic modulo the number of backends, wherever the counter stands. `FailoverIsComplete` follows from
`FailoverInv`: the backends that worked all along and were marked by nobody else are still ahead in the order of the call,
and the one it is about to mark is not among them. `MeasurementsKept` is the refinement of `LatencyCell`: a swap whose comparison
succeeds is one step of the cell, and nothing else changes a latency.

**PrivacyProofs.** `NothingLeaves` is about texts of any length, so it needs to know what `FlattenSeq`, `FoldLeft` and
`Substitute` compute. The library's induction rules take an operator as a parameter and cannot be used; the module proves its own
rule for a *set* of natural numbers (`Induction`: a set with 0 that is closed under successor is `Nat`), from the well-foundedness of the
finite sets, and with it states each recursive definition by its steps (`FlattenIs`, `FoldIs`, `SubstituteIs`). The argument
is one of covering: every word of the text lies in an occurrence of one of its values
(`FlattenCovers`); replacing the longest of the values detected leaves every word that is not harmless in an occurrence of a value that is still
to be replaced (`SubstituteCovers`), since no occurrence that is left can contain the one replaced, being
no longer, nor lie across it; so after the last one all words are harmless (`PseudonymizeHides`).
`Gone` carries the fact to the states after the request has left, `Unraced` says where the mappings in the log come from and is all
that `DirectionsHold` needs.

The attempt at this proof corrected the property. It used to be stated without a condition on the values, and the run found no
exception because its values do not produce one: sorting by length (pseudonymizer.go:92-95) protects a value that lies *within* another, but
not values that lie *across* each other. With `a b` and `a b a` both detected, the text that has one after the other, `a b a b a`, loses its first three words to
a pseudonym, and `b a` is left. `Separable` excludes that case and no other: all texts of up to three of five
values, interlocking ones included, keep the property as it now stands and break it without the condition.

`RestorationHolds` and `StreamHolds` are about the way back. What the user wrote and what leaves are the same row of tiles
seen from two sides (`Tiled`): a plain word is a tile that is the same on both, a mask is a value on one side and its pseudonym on the other.
Replacing a value puts masks in place of plain words (`SubstituteMasks`, `PseudonymizeTiles`), restoring a pseudonym takes the masks of
one value away (`SubstituteUnmasks`, `RestoreTiles`, in whatever order the mappings come), and when none is left
both sides are equal. That `ReplaceAll` meets exactly the masks, wherever the scan stands, is what `Apart` gives: each pseudonym has a word that
the user did not write, and none shares a word with another pseudonym or another value detected; what the session
maps besides is out of the way by `Undone`. For streams `Cut` splits a row of
tiles at the end of a chunk, which is possible unless a pseudonym lies across it. Neither property
is inductive; `Restorable` adds what a request must still know when the answer comes: its mappings are among the replacements it sent
with, spans are values of its text, no pseudonym is empty (an empty one would match everywhere), a request that left as it was written is the text
itself, and nothing is delivered before it was sent. TLC checked `Restorable` on the instance of the run.

Planning these proofs corrected both properties. Restoring with all mappings of
a session undoes more than the request did when a word the user writes is a pseudonym that an earlier request drew: with
`a` mapped to `b` before and `b` to `c` now, `c` comes back as `b` and then as `a`. The code's comment knows it as over-restoration
(pseudonymizer.go 193-194) and prefers the request's own mappings for that reason; `Undone` says when restoring by session is exact.
And a chunk that *begins* within a pseudonym can leave what the user has seen as it should be by chance, so that
`StreamRestored` is about the words still to come as well (`OnTrack`).

The type invariants are proved (`History` except for `shown`; `Requests` and `Watcher` state none), and no run repeats them; so are
`OneWriterAtATime`, `OneLoopOnly`, `NoPanicAtFixedLength`, `PanicsComeFromPickOrHistory` and `HooksRunOnce`.

Only model-checked:

* everything temporal under fairness (`ServedOnceUncontended`, `Converges`, `ApplyReturnsUnlessLeaked`,
  `EveryCallReturns`, `DrainsAfterClose`, `StreamEnds`, `ProducerEndsUnlessStuck`, `CooldownEnds`, `StoppingEnds`,
  `RequestEnds`, `HealthConverges`, `ChangesApplied`, `PollersEnd`), which is beyond the prover;
* `SharesFair` of `Requests`: the share of a weighted provider depends on how evenly the multiples of `Golden` spread over the range,
  and for an arbitrary constant they do not; the run has the fraction of the range that the code has;
* `SentFaithful` of `Requests`: it recognizes a message by its words and a template by its content, which works on an
  instance where all of them differ and is no assumption the code justifies; its use of `SelectSeq` is out of the prover's reach too.
  What `CallsSendAlone` leaves to it is what the injector and the hooks do to one call's messages, one template at a time;
* the type of `shown` in `History`, for the same operator: tlapm has no definition of `SelectSeq` to expand. That a read shows what
  the log's filter would (`RingImplementsLog`) needs none, since both sides apply it to the same sequence.

What the operators of `Routers` and `Configuration` compute is checked on the instances only.

## 5. Not modelled

* The window of the last 20 results of a provider (providers.go 142-183), which feeds metrics only.
* Texts, prices, JSON, YAML and SQL: conversions, covered by the repository's unit tests. What the statistics of
  `storage/base.go` get wrong is a finding.
* The text matches of `IsRetryableError`: reduced to transient and permanent. Delays between retries and their jitter.
* The audit log and the privacy mappings of the SQL storage: single statements, whose atomicity is the database's.
* `ParseSSE`, a helper for debugging. The order of the chain after an answer: `Calls` runs the chain as a whole, and it
  hands over the result, another answer, or an error.
* Of the privacy package: construction, statistics, the policies, which no code applies, and the SQLite store that the Pebble
  store has replaced. Several sessions: their keys have different prefixes.
* Of the server: authentication, metrics and the administrative handlers, each of which is one call of the client or of
  `ApplyConfig`, whose concurrent use is in `Registry`. Overlapping reloads read the file outside
  any lock, so that the older configuration may be installed last.
* A provider without a name given to `NewScheduler`, which adds no slots (scheduler.go:183): `InitConfig` has none.
* The client facade, options, the command line, the Python sidecar: no state shared between requests.
* Memory order: Go's atomics are sequentially consistent, and the rest is under locks.

## 6. Plan

Modelled and checked, in the order of importance: semaphore, registry, calls, history, streams, breaker and health loop,
requests with routers, privacy, detector, watcher. Proved: every safety property that a run
checks, but for `SharesFair` and `SentFaithful`; the action properties; the refinements of `HistoryLog` and `LatencyCell`.

What is left:

1. `SentFaithful`, stated with the identity of messages and templates instead of their words, so that it holds
   for any content: after `CallsSendAlone`, a statement about `Hooked` and `Templated` alone.
2. `SharesFair` for the round robin alone, by counting the residues of consecutive numbers.
3. The operators of `Routers` and `Configuration` against reference definitions, for inputs beyond the instances.
