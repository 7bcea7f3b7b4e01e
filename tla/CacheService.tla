---------------------------- MODULE CacheService ----------------------------
(***************************************************************************)
(* Get, Set and Delete of internal/cache/cache.go over the local cache and *)
(* the backends the router selects.  Requests run concurrently, each a     *)
(* sequence of steps: one call of the local cache, of the router or of a   *)
(* backend per step.  The fills of the local cache run in goroutines of    *)
(* their own and land at any later time.                                   *)
(*                                                                         *)
(* The write-behind mode is in WriteBehind.  The circuit breaker is left   *)
(* out: GuardedCall shows that as cache.go uses it, it admits every call.  *)
(* A value is the number of the request that wrote it.                     *)
(***************************************************************************)
EXTENDS Router

CONSTANTS
  Procs,            \* goroutines that serve requests
  Local,            \* the memory backend main.go uses as the local cache
  Rules,            \* the routing rules of the configuration
  Flaky,            \* backends whose calls may fail and whose health may change
  MaxOps,           \* bound on the requests served
  Events,           \* what happens besides the steps of requests already started
  Modes,            \* modes a Set may ask for
  BigValues,        \* {FALSE} or BOOLEAN: may a Set carry len(value) > maxValueSize
  Versions,         \* versions a request may carry; 0 is no version check
  EnableVersioning  \* config.CacheConfig.EnableVersioning

ASSUME CacheAssumption ==
  /\ Local \in Backends
  /\ Flaky \subseteq Backends \ {Local}  \* a memory backend's Ping always succeeds
  /\ Rules \in Seq(Rule)
  /\ MaxOps \in Nat
  /\ Modes \subseteq {"cache-aside", "write-through"}
  /\ BigValues \subseteq BOOLEAN
  /\ Versions \subseteq Nat
  /\ EnableVersioning \in BOOLEAN

VARIABLES
  store,    \* store[b][k]: the value backend b holds for k
  version,  \* version[b][k]: the version backend b keeps for k
  fills,    \* go func() { localCache.Set(ctx, entry) }() not yet run
  pc,       \* pc[p]: the next call of the request p serves
  req,      \* req[p]: that request
  todo,     \* todo[p]: backends the router returned, still to call
  lastErr,  \* lastErr[p]: the last error a backend gave Get p, or "none"
  result,   \* result[p]: what the last request of p returned
  ops,      \* requests started
  written,  \* history: Sets and Deletes that changed the value or the version their
            \* backend keeps
  viaLocal, \* history: requests the router sent to the local cache
  aside,    \* history: Sets and Deletes that have been to the local cache first
  acked,    \* history: acked[k], the last acknowledged Set or Delete of k
  held      \* history: held[p], backends that could serve p's Get all along

dataVars == <<store, version, fills>>
procVars == <<pc, req, todo, lastErr, result, ops>>
histVars == <<written, viaLocal, aside, acked>>
cacheVars == <<routerVars, dataVars, procVars, histVars, held>>

Absent == [op |-> 0, big |-> FALSE]
Has(b, k) == store[b][k] # Absent

Errors == {"unhealthy", "error"}  \* ErrBackendUnhealthy, and any other

NoRequest == [op |-> 0, kind |-> "none", key |-> CHOOSE k \in Keys : TRUE,
              skip |-> FALSE, version |-> 0, mode |-> "none", big |-> FALSE,
              floor |-> [op |-> 0, how |-> "none"], basis |-> 0]
NoResult == [kind |-> "none", status |-> "none", val |-> Absent, version |-> 0]

Init ==
  /\ registered = Backends
  /\ healthy = [b \in Backends |-> TRUE]
  /\ rules \in ByPriority(Rules)
  /\ hintRoutes = [h \in Hints |-> <<>>]
  /\ store = [b \in Backends |-> [k \in Keys |-> Absent]]
  /\ version = [b \in Backends |-> [k \in Keys |-> 0]]
  /\ fills = {}
  /\ pc = [p \in Procs |-> "idle"]
  /\ req = [p \in Procs |-> NoRequest]
  /\ todo = [p \in Procs |-> <<>>]
  /\ lastErr = [p \in Procs |-> "none"]
  /\ result = [p \in Procs |-> NoResult]
  /\ ops = 0
  /\ written = {}
  /\ viaLocal = {}
  /\ aside = {}
  /\ acked = [k \in Keys |-> [op |-> 0, how |-> "none"]]
  /\ held = [p \in Procs |-> {}]

Key(p) == req[p].key
Value(p) == [op |-> req[p].op, big |-> req[p].big]
Goto(p, label) == pc' = [pc EXCEPT ![p] = label]

Return(p, status, val, ver) ==
  /\ Goto(p, "idle")
  /\ result' = [result EXCEPT ![p] =
       [kind |-> req[p].kind, status |-> status, val |-> val, version |-> ver]]

Fail(p, status) == Return(p, status, Absent, 0)

-----------------------------------------------------------------------------
(* What one call of a backend may do: the entry it leaves and its answer *)

\* MemoryBackend.Set: the version moves first, and it moves even when
\* ristretto drops the new item (an error) or rejects it unannounced.
MemorySet(k, val) ==
  {[err |-> "none", val |-> val, ver |-> version[Local][k] + 1]}
    \cup (IF Has(Local, k) THEN {}
          ELSE {[err |-> e, val |-> Absent, ver |-> version[Local][k] + 1] : e \in {"none", "error"}})

\* The backend has nothing to show for the call.
Unchanged(b, k, e) == [err |-> e, val |-> store[b][k], ver |-> version[b][k]]

\* Set of a remote backend.  It is one transaction there; an error may be
\* reported before or after it took place.
RemoteSet(b, k, val) ==
  LET applied(e) == [err |-> e, val |-> val, ver |-> version[b][k] + 1]
  IN IF b \in Flaky THEN {applied("none"), applied("error"), Unchanged(b, k, "error")}
     ELSE {applied("none")}

\* Set of a backend: ErrBackendUnhealthy when the flag is down by now, or the
\* call, which redis, http and grpc bound by a timeout.
SetOutcomes(b, k, val) ==
  IF ~healthy[b] THEN {Unchanged(b, k, "unhealthy")}
  ELSE IF b = Local THEN MemorySet(k, val) ELSE RemoteSet(b, k, val)

DeleteCountsDown(b, k) ==
  {[err |-> "none", val |-> Absent, ver |-> version[b][k] - 1]}
\* Delete of a backend forgets the value and the version.
DeleteOutcomes(b, k) ==
  LET applied(e) == [err |-> e, val |-> Absent, ver |-> 0]
  IN IF ~healthy[b] THEN {Unchanged(b, k, "unhealthy")}
     ELSE IF b \in Flaky THEN {applied("none"), applied("error"), Unchanged(b, k, "error")}
     ELSE {applied("none")}

\* Get of a backend: the entry, ErrKeyNotFound, an error of its own, or
\* ErrBackendUnhealthy.
GetOutcomes(b, k) ==
  IF ~healthy[b] THEN {"unhealthy"}
  ELSE {IF Has(b, k) THEN "found" ELSE "missing"} \cup (IF b \in Flaky THEN {"error"} ELSE {})

Leave(b, k, r) ==
  /\ store' = [store EXCEPT ![b][k] = r.val]
  /\ version' = [version EXCEPT ![b][k] = r.ver]

-----------------------------------------------------------------------------
(* Requests *)

Start(p, request, label) ==
  /\ pc[p] = "idle"
  /\ ops < MaxOps
  /\ ops' = ops + 1
  /\ req' = [req EXCEPT ![p] = request]
  /\ todo' = [todo EXCEPT ![p] = <<>>]
  /\ lastErr' = [lastErr EXCEPT ![p] = "none"]
  /\ result' = [result EXCEPT ![p] = NoResult]
  /\ Goto(p, label)
  /\ UNCHANGED <<routerVars, dataVars, histVars>>

StartGet(p) ==
  /\ "get" \in Events
  /\ \E k \in Keys, skip \in BOOLEAN, ver \in Versions :
       Start(p, [NoRequest EXCEPT !.op = ops + 1, !.kind = "get", !.key = k,
                   !.skip = skip, !.version = ver, !.floor = acked[k]],
             IF skip THEN "getRoute" ELSE "getLocal")

\* The entry b holds is served unless the request asked for another version.
MatchesVersion(p, b) ==
  EnableVersioning /\ req[p].version > 0 => version[b][Key(p)] = req[p].version

Serve(p, b) ==
  IF MatchesVersion(p, b)
    THEN Return(p, "ok", store[b][Key(p)], version[b][Key(p)])
    ELSE Fail(p, "mismatch")

GetLocal(p) ==
  /\ pc[p] = "getLocal"
  /\ IF Has(Local, Key(p))
       THEN Serve(p, Local)
       ELSE Goto(p, "getRoute") /\ UNCHANGED result
  /\ UNCHANGED <<routerVars, dataVars, histVars, req, todo, lastErr, ops>>

GetRouteByMap(p) ==
  /\ pc[p] = "getRoute"
  /\ \E s \in Orderings(UpSet) :
       /\ todo' = [todo EXCEPT ![p] = s]
       /\ IF s = <<>>
            THEN Fail(p, "unhealthy")
            ELSE Goto(p, "getTry") /\ UNCHANGED result
  /\ UNCHANGED <<routerVars, dataVars, histVars, req, lastErr, ops>>
GetRoute(p) ==
  /\ pc[p] = "getRoute"
  /\ \E s \in GetBackendsForRead(Key(p), NoHint) :
       /\ todo' = [todo EXCEPT ![p] = s]
       /\ IF s = <<>>
            THEN Fail(p, "unhealthy")
            ELSE Goto(p, "getTry") /\ UNCHANGED result
  /\ UNCHANGED <<routerVars, dataVars, histVars, req, lastErr, ops>>

FillAfterAnyGet(p, b) == MatchesVersion(p, b) /\ ~req[p].skip
\* A value read from a backend is copied to the local cache unless the
\* request bypasses the cache or the value is too large for it.
FillAfterGet(p, b) ==
  MatchesVersion(p, b) /\ ~req[p].skip /\ ~store[b][Key(p)].big

GetFound(p) ==
  /\ pc[p] = "getTry" /\ todo[p] # <<>>
  /\ LET b == Head(todo[p]) IN
       /\ "found" \in GetOutcomes(b, Key(p))
       /\ Serve(p, b)
       /\ fills' = IF FillAfterGet(p, b)
                     THEN fills \cup {[op |-> req[p].op, key |-> Key(p), val |-> store[b][Key(p)]]}
                     ELSE fills
  /\ UNCHANGED <<routerVars, histVars, store, version, req, todo, lastErr, ops>>

GetTryNextNoLastErr(p) ==
  /\ pc[p] = "getTry" /\ todo[p] # <<>>
  /\ GetOutcomes(Head(todo[p]), Key(p)) \ {"found"} # {}
  /\ todo' = [todo EXCEPT ![p] = Tail(@)]
  /\ UNCHANGED <<routerVars, dataVars, histVars, pc, req, lastErr, result, ops>>
\* Any answer but a value moves on to the next backend; the last error
\* other than ErrKeyNotFound is remembered.
GetTryNext(p) ==
  /\ pc[p] = "getTry" /\ todo[p] # <<>>
  /\ \E answer \in GetOutcomes(Head(todo[p]), Key(p)) \ {"found"} :
       lastErr' = [lastErr EXCEPT ![p] = IF answer = "missing" THEN @ ELSE answer]
  /\ todo' = [todo EXCEPT ![p] = Tail(@)]
  /\ UNCHANGED <<routerVars, dataVars, histVars, pc, req, result, ops>>

GetGiveUp(p) ==
  /\ pc[p] = "getTry" /\ todo[p] = <<>>
  /\ Fail(p, IF lastErr[p] = "none" THEN "notfound" ELSE lastErr[p])
  /\ UNCHANGED <<routerVars, dataVars, histVars, req, todo, lastErr, ops>>

\* Where a Set goes once the version check is passed.
AfterCheck(mode) == IF mode = "cache-aside" THEN "setLocal" ELSE "route"

StartSet(p) ==
  /\ "set" \in Events
  /\ \E k \in Keys, mode \in Modes, big \in BigValues, ver \in Versions :
       Start(p, [NoRequest EXCEPT !.op = ops + 1, !.kind = "set", !.key = k,
                   !.mode = IF big THEN "passthrough" ELSE mode,
                   !.big = big, !.version = ver,
                   !.basis = IF result[p].kind = "get" /\ Key(p) = k
                               THEN result[p].version ELSE 0],
             IF big THEN "route"
             ELSE IF ver > 0 THEN "setCheck" ELSE AfterCheck(mode))

\* opts.CheckVersion: only an entry of the local cache is compared.
CheckVersion(p) ==
  /\ pc[p] = "setCheck"
  /\ IF Has(Local, Key(p)) /\ version[Local][Key(p)] # req[p].version
       THEN Fail(p, "mismatch")
       ELSE Goto(p, AfterCheck(req[p].mode)) /\ UNCHANGED result
  /\ UNCHANGED <<routerVars, dataVars, histVars, req, todo, lastErr, ops>>

\* setCacheAside writes the local cache first and only logs an error of it.
SetLocal(p) ==
  /\ pc[p] = "setLocal"
  /\ \E r \in SetOutcomes(Local, Key(p), Value(p)) : Leave(Local, Key(p), r)
  /\ aside' = aside \cup {req[p].op}
  /\ Goto(p, "route")
  /\ UNCHANGED <<routerVars, fills, written, viaLocal, acked, req, todo, lastErr, result, ops>>

StartDelete(p) ==
  /\ "delete" \in Events
  /\ \E k \in Keys :
       Start(p, [NoRequest EXCEPT !.op = ops + 1, !.kind = "delete", !.key = k],
             "deleteLocal")

\* Delete empties the local cache first and ignores its error.
DeleteLocal(p) ==
  /\ pc[p] = "deleteLocal"
  /\ \E r \in DeleteOutcomes(Local, Key(p)) : Leave(Local, Key(p), r)
  /\ aside' = aside \cup {req[p].op}
  /\ Goto(p, "route")
  /\ UNCHANGED <<routerVars, fills, written, viaLocal, acked, req, todo, lastErr, result, ops>>

\* GetBackend for a Set or a Delete.  It cannot fail here: the local cache is
\* registered and always healthy.
RouteWrite(p) ==
  /\ pc[p] = "route"
  /\ IF GetBackend(Key(p), NoHint) = {}
       THEN Fail(p, "unhealthy") /\ UNCHANGED <<todo, viaLocal>>
       ELSE \E b \in GetBackend(Key(p), NoHint) :
              /\ todo' = [todo EXCEPT ![p] = <<b>>]
              /\ Goto(p, "backend")
              /\ viaLocal' = IF b = Local THEN viaLocal \cup {req[p].op} ELSE viaLocal
              /\ UNCHANGED result
  /\ UNCHANGED <<routerVars, dataVars, req, lastErr, ops, written, aside, acked>>

Acknowledge(p) ==
  acked' = [acked EXCEPT ![Key(p)] =
    [op |-> req[p].op, how |-> IF req[p].kind = "delete" THEN "delete" ELSE req[p].mode]]

\* Any error of backend.Set is returned to the caller.
Succeeded(r) == r.err = "none"

\* history only: the call has changed what b keeps for k, whatever it answers.
Took(b, k) == store'[b][k] # store[b][k] \/ version'[b][k] # version[b][k]

FillAlways(p, ok) == req[p].mode = "write-through"
\* setWriteThrough fills the local cache once the backend has the value.
FillAfterSet(p, ok) == ok /\ req[p].mode = "write-through"

SetBackend(p) ==
  /\ pc[p] = "backend" /\ req[p].kind = "set"
  /\ LET b == Head(todo[p]) IN
     \E r \in SetOutcomes(b, Key(p), Value(p)) :
       /\ Leave(b, Key(p), r)
       /\ written' = IF Took(b, Key(p)) THEN written \cup {req[p].op} ELSE written
       /\ fills' = IF FillAfterSet(p, Succeeded(r))
                     THEN fills \cup {[op |-> req[p].op, key |-> Key(p), val |-> Value(p)]}
                     ELSE fills
       /\ IF Succeeded(r)
            THEN Return(p, "ok", Value(p), 0) /\ Acknowledge(p)
            ELSE Fail(p, r.err) /\ UNCHANGED acked
  /\ UNCHANGED <<routerVars, req, todo, lastErr, ops, viaLocal, aside>>

DeleteBackend(p) ==
  /\ pc[p] = "backend" /\ req[p].kind = "delete"
  /\ LET b == Head(todo[p]) IN
     \E r \in DeleteOutcomes(b, Key(p)) :
       /\ Leave(b, Key(p), r)
       /\ written' = IF Took(b, Key(p)) THEN written \cup {req[p].op} ELSE written
       /\ IF Succeeded(r) THEN Return(p, "ok", Absent, 0) /\ Acknowledge(p)
                        ELSE Fail(p, r.err) /\ UNCHANGED acked
  /\ UNCHANGED <<routerVars, fills, req, todo, lastErr, ops, viaLocal, aside>>

-----------------------------------------------------------------------------
(* What happens beside the requests *)

\* A fill goroutine runs.
Fill ==
  \E f \in fills :
    /\ \E r \in SetOutcomes(Local, f.key, f.val) : Leave(Local, f.key, r)
    /\ fills' = fills \ {f}
    /\ UNCHANGED <<routerVars, procVars, histVars>>

\* InvalidateLocal, the handler of Pub/Sub and gossip messages.
InvalidateLocal ==
  /\ "invalidate" \in Events
  /\ \E k \in Keys :
       /\ Has(Local, k) \/ version[Local][k] > 0
       /\ \E r \in DeleteOutcomes(Local, k) : Leave(Local, k, r)
  /\ UNCHANGED <<routerVars, fills, procVars, histVars>>

\* A TTL runs out, or ristretto evicts.  A remote backend's version expires
\* with its value, the map of versions of the memory backend keeps its entry.
Expire ==
  /\ "expire" \in Events
  /\ \E b \in Backends, k \in Keys :
       /\ Has(b, k)
       /\ Leave(b, k, [val |-> Absent, ver |-> IF b = Local THEN version[b][k] ELSE 0])
  /\ UNCHANGED <<routerVars, fills, procVars, histVars>>

\* The health checker moves a backend's flag.
HealthChange ==
  /\ \E b \in Flaky : SetHealthy(b, ~healthy[b])
  /\ UNCHANGED <<dataVars, procVars, histVars>>

Request(p) ==
  \/ GetLocal(p) \/ GetRoute(p) \/ GetFound(p) \/ GetTryNext(p) \/ GetGiveUp(p)
  \/ CheckVersion(p) \/ SetLocal(p) \/ DeleteLocal(p)
  \/ RouteWrite(p) \/ SetBackend(p) \/ DeleteBackend(p)

\* history only: a backend drops out of held[p] when it is down or without
\* the key at any moment since the Get of p began.
TrackHeld ==
  held' = [p \in Procs |->
    IF pc[p] = "idle" /\ pc'[p] = "idle" THEN held[p]
    ELSE IF req'[p].kind # "get" THEN {}
    ELSE {b \in (IF pc[p] = "idle" THEN Backends ELSE held[p]) :
            healthy'[b] /\ store'[b][req'[p].key] # Absent}]

Next ==
  /\ \/ \E p \in Procs : StartGet(p) \/ StartSet(p) \/ StartDelete(p) \/ Request(p)
     \/ Fill \/ InvalidateLocal \/ Expire \/ HealthChange
  /\ TrackHeld

Spec == Init /\ [][Next]_cacheVars

-----------------------------------------------------------------------------
(* Properties *)

OpIds == 0 .. MaxOps
Vals == [op : OpIds, big : BOOLEAN]
Labels == {"idle", "getLocal", "getRoute", "getTry", "setCheck", "setLocal",
           "deleteLocal", "route", "backend"}

\* The variables keep their types: an entry of any backend, and of every fill
\* under way, is the value of some request, and versions never go below zero.
TypeOK ==
  /\ RouterTypeOK
  /\ store \in [Backends -> [Keys -> Vals]]
  /\ version \in [Backends -> [Keys -> Nat]]
  /\ fills \subseteq [op : OpIds, key : Keys, val : Vals]
  /\ pc \in [Procs -> Labels]
  /\ DOMAIN req = Procs
  /\ \A p \in Procs : req[p].op \in OpIds /\ req[p].key \in Keys
  /\ todo \in [Procs -> Seq(Backends)]
  /\ lastErr \in [Procs -> Errors \cup {"none"}]
  /\ ops \in OpIds
  /\ written \subseteq OpIds /\ viaLocal \subseteq OpIds /\ aside \subseteq OpIds
  /\ held \in [Procs -> SUBSET Backends]

\* A Get answers "not found" only if no healthy backend held the key all the
\* while: no order of the list, failing backend, pending fill or change of
\* health makes a key that is there look deleted (cache.go Get, lastErr).
NoFalseMiss ==
  \A p \in Procs :
    result[p].kind = "get" /\ result[p].status = "notfound" => held[p] = {}

\* What the local cache or a fill holds, and what a Get returns, is the value of
\* a Set whose backend took it, or of one that setCacheAside wrote to the local
\* cache itself: neither a fill nor a read list makes a Set visible that left its
\* backend as it was.
NoDirtyRead ==
  LET clean == written \cup aside \cup {0} IN
  /\ \A k \in Keys : store[Local][k].op \in clean
  /\ \A f \in fills : f.val.op \in clean
  /\ \A p \in Procs : result[p].kind = "get" => result[p].val.op \in clean

\* A large value gets into the local cache only when the router itself names
\* the local cache as the backend of its key, never by a fill.
BigStaysOut ==
  \A k \in Keys : store[Local][k].big => store[Local][k].op \in viaLocal

\* Some rule gives k to c with a higher priority than any gives it to b.
Outranks(k, c, b) ==
  LET GivenTo(d) == {i \in DOMAIN rules : /\ k \in rules[i].keys
                                         /\ rules[i].strategy # "blacklist"
                                         /\ rules[i].backend = d}
  IN \E i \in GivenTo(c) : \A j \in GivenTo(b) : rules[j].priority < rules[i].priority

\* PROMPT.txt:5, of a master and a slave the rules decide which is hit: a read
\* that has met no error is not answered from a copy while a backend of higher
\* priority has been up and has held the key all the while, although the read
\* list is made before the calls and flags and entries change in between.
ReadsByPriority ==
  [][\A p \in Procs :
       pc[p] = "getTry" /\ todo[p] # <<>> /\ pc'[p] = "idle" /\ lastErr[p] = "none" =>
         \A c \in held[p] : ~Outranks(Key(p), c, Head(todo[p]))]_cacheVars

-----------------------------------------------------------------------------
(* What PROMPT.txt promises and the code does not keep.  With one process the *)
(* requests are sequential: a Get that begins after the acknowledgement of a  *)
(* Set or a Delete must not return an older value.                            *)

Stale(p) ==
  /\ result[p].kind = "get" /\ result[p].status = "ok"
  /\ result[p].val.op < req[p].floor.op

\* PROMPT.txt:7, write-through is strongly consistent.
FreshAfterWriteThrough ==
  \A p \in Procs : ~(Stale(p) /\ req[p].floor.how = "write-through")

\* PROMPT.txt:11, a large value goes straight to the backend, past the cache;
\* PROMPT.txt:3, the caller need not wonder whether it reads the latest one.
FreshAfterPassthrough ==
  \A p \in Procs : ~(Stale(p) /\ req[p].floor.how = "passthrough")

\* PROMPT.txt:3, the same after a Delete.
FreshAfterDelete ==
  \A p \in Procs : ~(Stale(p) /\ req[p].floor.how = "delete")

\* PROMPT.txt:11, a value over the threshold is not cached in memory.
BigNeverLocal == \A k \in Keys : ~store[Local][k].big

\* PROMPT.txt:7, a Set whose version is not the current one is rejected: when
\* its backend holds the key, it holds that version.
StaleUpdateRejected ==
  [][\A p \in Procs :
       LET b == Head(todo[p]) IN
       /\ pc[p] = "backend" /\ req[p].kind = "set" /\ req[p].version > 0
       /\ pc'[p] = "idle" /\ result'[p].status = "ok"
       /\ Has(b, Key(p))
       => version[b][Key(p)] = req[p].version]_cacheVars

\* PROMPT.txt:7, the other direction: the version a Get has just returned is
\* accepted when nothing else was written since.
UncontendedUpdateAccepted ==
  \A p \in Procs :
    /\ result[p].kind = "set"
    /\ result[p].status = "mismatch"
    => req[p].version # req[p].basis
=============================================================================
