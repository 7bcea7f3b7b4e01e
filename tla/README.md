# Verification of go-cache-proxy

TLA+ models of the cache proxy in `src/`, the TLC runs that check them on small
instances, and proofs that TLAPS checks for every value of the constants.
`PROJECT.json` lists the runs, the theorems, the hazards and, for every
definition, the lines of the source it models.

## 1. The system

The proxy serves reads, writes and deletes of keys over HTTP (`internal/api`).
`internal/cache` looks a key up in an in-process cache, asks `internal/router`
for the backends that are responsible for it, passes each call by a circuit
breaker (`internal/circuit`) and calls the backend (`internal/storage/*`).
`internal/health` watches the backends; `internal/pubsub` and `internal/gossip`
carry invalidations between nodes; `cmd/server/main.go` wires it all up.

| Component | State | Operations | Talks to |
|---|---|---|---|
| api (`handler.go`) | none of its own | GET, POST, DELETE, HEAD of a key; status pages | cache service; HEAD a table of backends of its own |
| cache service (`cache.go`) | write-behind queue, fill goroutines, `stopChan` | Get, Set (cache-aside, write-through, write-behind, passthrough), Delete, InvalidateLocal, Close; the write-behind worker | local cache, router, breakers, backends |
| router (`router.go`) | backends by id, rules by priority, hint routes | GetBackend, GetBackendsForRead, SetRules, SetHintRoute, Register/UnregisterBackend | the health flags of the backends |
| load balancer (`loadbalancer.go`) | healthy backends, a counter, an unsynchronised rng | Next, AddBackend, SetBackends | nobody calls Next |
| circuit breaker (`circuitbreaker.go`) | state, three counters, `lastStateChange` | Allow, RecordSuccess, RecordFailure; Execute of the manager | cache service |
| memory backend (`memory.go`) | ristretto, a map of versions, a flag | Get, Set, Delete, Ping | it is the local cache, and also a backend of the router |
| redis, http, grpc backends | a flag, a client | Get, Set, Delete, Ping, with timeouts | external services |
| health checker (`healthchecker.go`) | runs of results, `evicted`, per backend | a gocron job per backend, Register/UnregisterBackend | Ping or a TCP dial, `SetHealthy` |
| pub/sub, gossip | handlers, a listener, a memberlist | Publish, Subscribe, Close, receive | other nodes; handlers call InvalidateLocal |
| main (`main.go`) | where it is | start-up in order, serving, Shutdown, the deferred Closes | all of them |
| configuration (`config.go`) | `instance` | Load, Get, hot reload | main.go, once |
| metrics, logger | counters, output | | nothing reads them |

What is hard here:

* **Interleavings.** Allow reads the breaker's state three times, twice without
  the lock. Value and version of the memory backend have separate locks. Lookups
  read flags that move. Checks of one backend overlap. Fills of the local cache
  run in goroutines of their own and land at any later time.
* **Failure.** A call of a remote backend can be refused, or done and reported as
  failed, or served after its caller has given up. A read falls over to the next
  backend of a list, and must not take an error for a miss.
* **Ordering.** A failed write-behind item sleeps outside the queue; a full queue
  is bypassed; Delete does not look at the queue.
* **Limits.** The half-open budget, the queue, the batch, the retry count, the
  size limit of values, the pool of response buffers.
* **Stopping.** Close drains a queue into which goroutines are still sending; the
  shutdown of the server closes one component after the other while handlers,
  listeners and fills may still run, and waits for each. A process may also be
  killed at any statement.
* **Nodes.** An invalidation is lost while a node is not subscribed or when a packet
  is; it must not be lost between its arrival and the local cache.

What makes each component correct is stated as the properties of section 4.

## 2. The modules

| Module | Models | How state and actions correspond |
|---|---|---|
| `CircuitBreaker` | one breaker and the goroutines in Execute | Allow is cut at each of its reads: `ReadState` (under RLock), `CheckTimeout` (unlocked), `Transition` (under Lock), `Reread` (after Unlock), `TryHalfOpen`. `RecordSuccess`, `RecordFailure` hold the lock and are one step. The clock is the flag `timedOut`. |
| `GuardedCall` | the five call sites of `cache.go` | `Execute` around a function that returns nil, then the call of the backend, of which the breaker hears nothing |
| `Router` | the table and both lookups | `registered`, `rules`, `hintRoutes`; a pattern or hash rule is the set of keys it matches. The lookups are operators whose value is the *set* of results the code may return, because `sort.Slice` and the range over a map leave an order open. |
| `LoadBalancer` | how Next chooses | EXTENDS `Router`; the lists of backends as `SetBackends` keeps them, repeated backends included, the draws of weightedRandom and the turns of roundRobin, as operators over every table |
| `RouterLookup` | one lookup as the loops of the code | one backend a step, while `FlagMoves` changes health flags between the steps |
| `CacheService` | Get, Set, Delete, InvalidateLocal, health, expiry | EXTENDS `Router`; a request is a sequence of steps, one call of the local cache, the router or a backend each; `fills` are the goroutines under way |
| `Handler` | the answers of the HTTP API | EXTENDS `CacheService`: `Code` is the chain of `errors.Is` that turns a result into a status |
| `WriteBehind` | the write-behind mode | `queue`, `batch`, `worker` are the channel, slice and place of the worker; `sleeping` the retry goroutines |
| `MemoryBackend` | value and version of one key | two steps per Get, Set, Delete, one per lock; `Evict` is ristretto |
| `KVRegister` | what `cache.go` relies on in a remote `storage.Backend` | the abstract specification: a register per key whose Sets and Deletes take effect once, at one moment, before an answer of nil, perhaps after an error, never after ErrBackendUnhealthy |
| `HTTPBackend` | Get, Set, Delete of the http backend | the pool of response buffers with their owners; requests under way, answers that come late; the service is external. Implements `KVRegister`. |
| `RedisBackend` | Get, Set, Delete, Ping's flag of the redis backend | one transaction per call on `val` and `ver`, two Redis keys that expire separately; Redis is external. Implements `KVRegister`. |
| `HealthChecker` | one registered backend | `StartCheck`, `Probe` (without a lock), `ReportSuccess`/`ReportFailure` (under `hc.mu`), overlapping |
| `Invalidation` | `pubsub.go` and `gossip.go` on every node | `listener` is the goroutine of startListener, `members` the memberlists, `calls` the handler goroutines; what Redis and the network hold is in `stream` and `packets` |
| `Server` | `main.go` on every node | EXTENDS `Invalidation`; `main` is the statement a process is at, from start-up to the last deferred Close; `queue` and `worker` are the write-behind queue, reduced to one try per write |
| `*_proofs` | | the theorems about `CircuitBreaker` and `GuardedCall`, `CacheService` with `Handler`, `Router`, `RouterLookup` and `LoadBalancer`, `HTTPBackend`, `RedisBackend`, `MemoryBackend`, `HealthChecker`, `WriteBehind`, `Server` |
| `MC*` | | the tables, rules, ids and symmetry of the runs |

How they compose:

* `Handler` over `CacheService` over `Router` is the path of a request. `CacheService`
  uses the lookups of `Router` as atomic steps; `RouterLookup` justifies that by
  showing, by TLC and by proof, that the loops compute these operators when flags
  stand still (`AgreesWhenSteady`) and that a moving flag hides no backend but its
  own (`HidesOnlyItsOwn`, `PassesOverNone`).
* `CacheService` and `WriteBehind` leave the breaker out; `GuardedAdmitsEveryCall` is
  the proof that they may.
* `CacheService` treats a backend call as one step with the outcomes done, done and
  reported as failed, or refused; `MemoryBackend` opens that step for the local
  cache, and `KVRegister` says what is behind it for a remote one: `HTTPBackend`
  and `RedisBackend` are shown to implement it by a refinement mapping, checked by
  TLC and proved.
* `Server` joins main, both invalidation channels and the write-behind queue, on
  several nodes; `WriteBehind` has the batches and retries that `Server` leaves out.

## 3. Abstractions

* A value is the number of the operation that wrote it; a key, a hint, a backend
  are members of small sets; a large value is a Boolean. Formatting, logging and
  metrics are left out.
* The clock of the breaker, the ticker of the worker, the sleep of a retry and the
  timeouts are actions that may happen at any time they are enabled.
* ristretto may reject a new item, silently or not, and may drop one at any time.
* Clients may go on calling after Close: `srv.Shutdown` gives up after 30 s while
  handlers still run.
* `CacheService` has remote calls that take effect before they return;
  `HTTPBackend` and `RedisBackend` show that a timed-out Set may take effect later.
* fasthttp, go-redis, Redis, memberlist, gocron and ristretto are modelled from how
  the code uses them and are marked external in the map.
* A node of `Server` is killed at any statement and does not come back: what a new
  process starts with is the initial state, and it shares no state with the old one.
* The program never calls Publish. In `Invalidation` any node may, for any key, so
  that the channels have something to carry. A lost gossip packet is one that is
  never sent to that member.
* No key of `RedisBackend` is the version key of another one.
* The run of consecutive results in `HealthChecker` saturates at its threshold,
  which is all the code compares it with.

## 4. The runs

Deadlock is switched off where the bound on operations lets the system stop
(`MaxOps`); there the last state is the end of the bounded history, not a fault.

**Passing**

| Run | Bounds | What it shows |
|---|---|---|
| `breaker` | 3 goroutines; thresholds 2, 2, 1 | `ProbesBounded`, `StateMoves`, `HalfOpenHasWayOut`, `LeavesHalfOpen`, and the inductive invariant `IInv`, of which `TypeOK` and `CountersFitState` are parts. SuccessThreshold = HalfOpenMaxCalls + 1 is the most the code can satisfy; three goroutines allow two in the open branch together with one that probes. |
| `router` | 3 backends (two of equal weight), 2 keys, 1 hint, all registrations, rule lists with overlaps, equal priorities, a black- and a whitelist; lists of the load balancer of up to 3 entries (`MaxList`), backends repeated or not | the lookups fail only when all backends are down (`FailsOnlyWhenAllDown`), list none twice (`NoBackendTwice`), agree for reads and writes (`ReadsWhereItWrites`), follow priorities (`PriorityDecides`); stepwise they do so whatever flags move (`AgreesWhenSteady`, `HidesOnlyItsOwn`, `PassesOverNone`); the load balancer gives each entry of its list its share (`SpreadsFairly`) |
| `cache` | 2 requests at a time over local + master + slave, 1 key, both modes, small and large values, versions, expiry, invalidations, failing calls, changes of health | `NoFalseMiss`, `NoDirtyRead`, `BigStaysOut`; `ReadsByPriority`: a read is answered by the backend the rules put first of those that hold the key and are up all the while, though flags and entries change between its calls; and of the API `RefusedStaysLocal`: a write answered 503 has left the backend the router named as it was, and its value is no further than the local cache; a Set answered 409 is nowhere. What the run does not say: a 503 does not mean that nothing has changed. A cache-aside Set and every Delete go to the local cache before the backend is called, so the local cache has changed by then, and the value of such a Set can be read from it. Nor does an answer of 200 mean that a value is kept: a Set that ristretto drops in silence is answered like any other. Two concurrent requests with their fills and failovers interleave completely; a third is not needed for any of the pairs (request, request), (request, fill), (request, environment). |
| `behind` | 2 clients, 3 operations, queue 1, batch 2, 1 retry | `Accounted`: one copy of a queued write until it is settled; `RetriesBounded`, `FirstTriesInOrder`, `DrainedOnClose`; `Settles`, `CloseReturns`. The queue is exceeded, the batch is filled and not filled, the retry limit is reached, Close comes at every moment. |
| `memory_versions` | 3 callers, 5 calls, 1 key | `VersionNotBehind` |
| `http` | 2 callers, 2 keys, 2 buffers, 3 calls, JSON bodies | `OwnBytes`, `ImplementsRegister`; no buffer is leaked (`TypeOK`). Two buffers make reuse by another key's answer, wanted or late, happen. |
| `redis` | 2 callers, 1 key, 4 calls | `ImplementsRegister`, `VersionOfItsValue`. Two Sets, a Delete and a Get meet; either half of the key expires between any two of them. |
| `health_tcp` | 2 overlapping checks, thresholds 3 and 2 as in configs/config.yaml | `SidesChangeOnRuns`, `FlagFollowsEviction`; `DownIsTakenOut`, `UpIsPutBack` |
| `cluster` | 2 nodes, 1 key, 1 message, 1 write-behind Set, one node that is stopped or killed | `DoomedIsOnItsWay`: no invalidation is lost inside a node; `AckedIsTriedAtExit`; `ExitsUnlessStalled`: a shutdown ends, however late Redis confirms the subscription, unless it never does (`NeverAnswered`, a `<>[]`); `DoomedIsDropped`: what was sent to a node drops its copy there, by gossip without exception, by Pub/Sub with that one. One message is enough to be on its way while its receiver starts, subscribes, stops or dies. |

**Violations: what a document says and the code does not do**

| Run | Property | The disagreement |
|---|---|---|
| `cache_stale_delete` | `FreshAfterDelete` | a fill that was started by a Get lands after the Delete and brings the value back |
| `behind_order` | `AgreeWhenQuiet` | a retried write overwrites a newer one in the backend |
| `http_raw` | `OwnBytes` | a body that is no JSON object is returned as a slice of a released buffer, which the next response overwrites |

The modules state further promises of `PROMPT.txt` and `configs/config.yaml`, below
the properties that hold, under a heading that says so. TLC refutes each of them
under a configuration like those above, with the formula as INVARIANT (or
PROPERTY): `ProbeLimit` (callers of the open branch are outside
half_open_max_calls), `CanRecover` (HalfOpenMaxCalls = 0: half-open for ever),
`OpensOnFailures` (GuardedCall: every call site reports a success before it makes
the call), `BlacklistHonoured`, `SpreadByWeight` (Router),
`FreshAfterWriteThrough`, `FreshAfterPassthrough`, `BigNeverLocal`,
`StaleUpdateRejected`, `UncontendedUpdateAccepted` (CacheService),
`ExistsTellsTruth` (Handler: HEAD looks in a table nobody fills), `DeleteIsFinal`
(WriteBehind), `VersionIdentifiesValue`, `EveryValueHasVersion`, `VersionsGrow`
(MemoryBackend), `VersionsDiffer` (RedisBackend: the numbering restarts when the
version key goes), `EvictedNotRouted` (HealthChecker: Ping sets the flag itself),
`DrainFindsBackends` (Server: the backends are closed before the queue is drained
into them), `ServingHears` (Server: main serves before Redis has confirmed the
subscription, and goes on if it never does).

Every property of a passing run has a mutant: an operator beside the definition
it changes, the way a plausible bug would, under which TLC finds the property
violated. Such an operator is no part of the specification.

## 5. Fairness

* `CircuitBreaker!FairSpec`: weak fairness of each goroutine's Execute. Calls keep
  arriving and Go runs every goroutine. Nothing is assumed of outcomes or of the
  timeout.
* `WriteBehind!FairSpec`: weak fairness of the worker and of the resends together.
  Clients, fills and Close owe nothing. The worker's select chooses among its ready
  cases at random; that it finally takes `stopChan` is certain here because the
  operations are bounded, so the queue does not stay full for ever.
* `Server!FairSpec`: weak fairness, for each node, of main, of the write-behind
  worker, of a listener that has its confirmation, of the handler goroutines, and of
  memberlist handing over a packet that is on its way. Nothing is assumed of Redis,
  of Receive (it has no deadline), of the signal or of the clients. Hence the
  exception `NeverAnswered` in `ExitsUnlessStalled` and in the Pub/Sub half of
  `DoomedIsDropped`: a listener that is from some moment on in Receive for good. One
  that Redis lets wait, but answers in the end, is excused from nothing.
* `HealthChecker!FairSpec`: weak fairness of each check, which gocron starts over
  and over. The backend itself may change at any time; the liveness properties are
  about one that has settled.

## 6. What is proved

`CircuitBreaker_proofs`, for every finite set of callers and all natural
thresholds:

* `BreakerInvariant`: `Spec => []IInv`. The properties are not inductive: that a
  half-open breaker has a way out needs to know that each spent unit of the budget
  is a counted success or a call under way, and that the budget is not overdrawn
  needs the states and counters to fit. `IInv` is the conjunction of `TypeOK`,
  `CountersFitState`, `ProbesBounded` and that account. The proof has two parts:
  `StepTypeCounters` for what no count of callers disturbs, and `StepAccounts`,
  where `MoveWorking` and `MoveOpening` turn each move of one goroutine into a
  change by one of the cardinalities.
* `BreakerTypeOK`, `BreakerCounters`, `BreakerProbesBounded`, `BreakerHasWayOut`
  follow from it; `BreakerProbesAtMost` is the bound of
  HalfOpenMaxCalls + |Callers| calls a half-open period admits.
* `BreakerStateMoves`: the action property `StateMoves`.

* `GuardedAdmitsEveryCall`, about `GuardedCall`, from the invariant that the breaker
  is closed, no failure is counted and every goroutine is outside Execute's other
  branches. It takes the place of a run: `OpensOnFailures` is what one would expect.

`CacheService_proofs`, for any processes, backends, keys, rules, modes, versions and
number of requests. `CacheInvariant` (`CInv`) has one part per question, and none is
inductive alone: `Control` (a request is at a place of its kind, and while it runs no
backend has carried it out), `Apart` (no two processes serve one request, so no other
step can make an answer already given untrue), `Clean` and `Small` (what backends and
fills hold), `Outcomes` (an "unhealthy" was not written, a "mismatch" is nowhere),
`Contained` (the value of a request its backend did not take is nowhere but, after a
cache-aside Set, in the local cache or in a fill on its way there: fills and reads only
spread what is there), `Misses` (the list of a Get that has met no error still names
every backend that could have served it all along, which needs that a list of the
router is a bijection onto the backends that are up). The calls of a backend enter through `LocalCall`, `BackendCall` and
`BesideWrite`: each writes one entry, with the value of the request, nothing, or what
was there. From it:

* `CacheNoDirtyRead`, `CacheNoFalseMiss`, `CacheBigStaysOut`, and, through the status
  codes, `HandlerRefusedStaysLocal`.
* `CacheReadsByPriority`. Of a table whose rules stand by priority (`TableStands`),
  every read list is in the order of the ranks, and a backend that outranks another
  has the lesser rank (`RankByPriority`); so what is left of the list is `Ordered`
  while the Get goes through it, and by `Misses` a backend that has held the key all
  along is still in it.
* `CacheTypes`, under the hypothesis that there is a key (an idle process holds a
  request with an arbitrary one).
* `CacheWritesAreRouted`: a write is always routed, to a registered backend. The memory
  backend is registered and its flag never falls (`TableStands`), so the branch of
  Set and Delete that returns the error of `GetBackend` is dead in the service as
  main builds it.

The same module proves what the run `router` checks, for any backends, weights,
rules, hint routes, tables and movements of the flags. `LookupInvariant`
(`LookupInv`) follows the two loops step by step. A lookup that misses a backend or
disagrees with the operators of `Router` does so at its end, by what it passed
earlier, so the invariant speaks of the part of the table already passed:

* `Leads`: a lookup for a write has passed no place, in the hint route followed by
  the rules, of a backend that was up all along. From it `LookupPassesOverNone`, and
  half of the agreement.
* `Visited`, `KeepsHeaviest`: the range over the map has taken those it visited and
  found up, and keeps the heaviest of them. While the range runs, every backend is
  either still in `left` or accounted for.
* `Ranked`: a read list stands in the order of the ranks `Router` gives, and has every
  backend whose rank lies behind the lookup. A list without duplicates that has every
  backend that is up, in that order, is one of the `Orderings`.
* `Once`, `Sorted` and `LookupTypes`: the backends returned are within `everUp`, the
  flags that are up contain `alwaysUp`, and nothing is found before the first hit.
* `WriteEnds` and `ReadEnds` say what holds of a result and stays true while flags move
  after it.

From it:

* `LookupNoBackendTwice`, `LookupHidesOnlyItsOwn`, `LookupPassesOverNone`,
  `LookupAgreesWhenSteady`.
* `RouterPriorityDecides`, from `ByPriorityOf`: SetRules leaves the rules in descending
  order, so the first hit is the one of highest priority.
* `RouterFailsOnlyWhenAllDown`: the fallback needs a heaviest backend of a finite set,
  which exists (`HeaviestOf`).
* `RouterReadsWhereItWrites`: in any table the backend that a hint or a rule decides on
  has the least rank of those that are up (`DecidedComesFirst`), so it is the first of
  every read list.
* `LoadBalancerSpreadsFairly`: the loop of `getHealthyBackends` makes a list of
  backends of a list of backends, with repetitions (`HealthyList`); the running sums of their
  shares cut the draws into intervals, one of the length of its share for each place
  (`DrawsOf`); and the turns visit every place (`TurnsVisitAll`).

Three of these need an induction the library's theorems cannot give, since those
take an operator as a parameter. `InductionUpTo` states induction up to n of a *set*
of numbers instead, and is proved from the least number of its complement;
`StepwiseExists` gives from it the function a loop computes, and `HeaviestOf` takes
the least cardinality of a set without a heaviest member.

`HTTPBackend_proofs`, for any callers, keys, buffers and number of calls, under the
hypothesis that the service answers with JSON objects (`Formats \subseteq {"json"}`;
the run `http_raw` shows that it is needed):

* `HTTPInvariant`: requests, answers and buffers belong together by their numbers
  (`Matched`, `HeldAnswered`), every answer and every buffer a caller holds is a
  truth about its call (`Truthful`), and every value under a key was set for that
  key. None of this is in `OwnBytes`, which is not inductive without it.
* `HTTPOwnBytes` follows; `HTTPImplementsRegister` maps every step to a step of
  `KVRegister` or a stutter, with the invariant as the reason why an "ok" may be
  confirmed (its number is in `applied`) and a value returned (it is in `seen`).
* `HTTPLeaksNoBuffer` is `TypeOK`, and takes no hypothesis on the formats: from
  `Traffic` (the numbers again) and `Pool`, a buffer is either free or with exactly
  one caller that is still looking at it.

`RedisBackend_proofs`, for any callers, keys and calls: `RedisInvariant` (`RInv`: the
numbers identify transactions, a value with both halves carries the version its own
Set gave the key, a reply says what has happened), from it `RedisVersionOfItsValue`
and the refinement `RedisImplementsRegister`.

`MemoryBackend_proofs`: `MemoryVersionNotBehind`, from `MInv`: the version map is
ahead of the value stored, of the value a Set is about to store and of the value a
Get has read and not yet labelled.

`HealthChecker_proofs`, for any number of overlapping checks and any thresholds:
`HealthFlagFollows` and `HealthSidesChangeOnRuns`, from `HealthInv`, which says that
a run that is counted is a run that was reported.

`WriteBehind_proofs`, for any clients, keys, numbers of operations and sizes of
queue, batch and retry count. `BehindInvariant` is about the *line*, the batch with
the queue behind it: an unsettled write has one copy, in the line or asleep
(`OneCopy`); a copy knows how often its write was tried (`Counted`); the untried
writes stand in the line in the order of their arrival (`InOrder`); what was due when
Close was called is in the last batch until it is tried (`Draining`). Receive moves
an item within the line and so disturbs nothing (`LineMoves`); an arrival and a resend
make it longer, a try makes it shorter. From it `BehindAccounted`,
`BehindRetriesBounded`, `BehindFirstTriesInOrder`, `BehindDrainedOnClose`, and with
`Bounds` on top of it `BehindTypes`: the channel is never over its capacity.

`Server_proofs`, for any nodes, keys and bounds: `ServerTriesAcked`, from `ExitInv`
(the worker returns with an empty queue, and what is queued later is late), and
`ServerLosesNoInvalidation`, from `DropInv`, which follows each message from Redis or
the network to the handler.

The assumptions are those of the modules: callers of the breaker are finite,
thresholds and sizes are naturals (the code validates none of them, and a negative
one is not modelled), so is the length of a load balancer's list (`MaxList`), the queue and the batch hold at least one item.

Every invariant and every safety property that a passing run checks is proved. Only
model-checked is liveness: `LeavesHalfOpen` of the breaker, `Settles` and
`CloseReturns` of the write-behind path, `DownIsTakenOut` and `UpIsPutBack` of the
health checker, `ExitsUnlessStalled` and `DoomedIsDropped` of the server. Liveness
under fairness is out of the reach of the prover. The three runs that show a
disagreement with a doc are counterexamples and have nothing to prove.

## 7. Not modelled

* Metrics and logging have no effect on the rest.
* Configuration and hot reload: main loads the file once and passes its parts on.
  The watcher replaces a variable that nothing reads afterwards.
* `HashKey`, `isWhitelisted`, `isBlacklisted`, `HealthChecker.UnregisterBackend` and
  `Exists` of the backends are called by nobody; random and least-connections of the
  load balancer follow the pattern of roundRobin, and Next is called by nobody.
  `SetHintRoute` and Publish are called by nobody either and are modelled all the
  same, since the components are made of them.
* The grpc backend is what `CacheService` sees of it, a call with three outcomes. Its
  messages are no protobuf messages: against a real server every Invoke fails in the
  codec, so there is no data behaviour to model.
* Requests answered 400 before anything is called, and the status pages.
* Which backends main creates, and that one which fails at start-up is missing for
  good: every model starts with some table.
* Broadcast queueing and the state exchange of gossip are empty functions;
  membership itself is memberlist's.

## 8. Plan

What is left, in the order of its weight:

1. `CacheService` over `KVRegister` instead of calls that take effect before they
   return: a timed-out Set that lands after a newer one.
2. `Server` with the retries of `WriteBehind` instead of one try per write, and a
   killed node that starts again.
3. The remaining choices of the load balancer.
