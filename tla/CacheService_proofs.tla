------------------------ MODULE CacheService_proofs ------------------------
(***************************************************************************)
(* Proofs about Router, RouterLookup, LoadBalancer, CacheService and       *)
(* Handler, for any goroutines, backends, keys, rules, hint routes,        *)
(* weights, modes, versions and number of requests.                        *)
(***************************************************************************)
EXTENDS Handler, RouterLookup, LoadBalancer, FiniteSetTheorems, WellFoundedInduction, TLAPS

-----------------------------------------------------------------------------
(* The inductive invariant *)

\* TypeOK, save that an idle process of a system without keys has no key.
Types ==
  /\ RouterTypeOK /\ registered = Backends
  /\ store \in [Backends -> [Keys -> Vals]]
  /\ version \in [Backends -> [Keys -> Nat]]
  /\ fills \subseteq [op : OpIds, key : Keys, val : Vals]
  /\ pc \in [Procs -> Labels]
  /\ DOMAIN req = Procs /\ DOMAIN result = Procs
  /\ todo \in [Procs -> Seq(Backends)]
  /\ lastErr \in [Procs -> Errors \cup {"none"}]
  /\ ops \in OpIds
  /\ written \subseteq 0 .. ops /\ viaLocal \subseteq 0 .. ops /\ aside \subseteq 0 .. ops

\* Which requests may be at which place.
Fits(label, request) ==
  /\ label \in {"getLocal", "getRoute", "getTry"} => request.kind = "get"
  /\ label \in {"setCheck", "setLocal"} => request.kind = "set" /\ ~request.big
  /\ label = "setLocal" => request.mode = "cache-aside"
  /\ label = "deleteLocal" => request.kind = "delete"
  /\ label \in {"route", "backend"} => request.kind \in {"set", "delete"}

\* A large value goes past the cache.
Sound(request) ==
  /\ request.big \in BOOLEAN
  /\ request.big => request.mode = "passthrough"

\* A request under way has not been carried out, and is at a place of its kind.
Control ==
  \A p \in Procs :
    /\ req[p].op \in 0 .. ops /\ Sound(req[p]) /\ Fits(pc[p], req[p])
    /\ pc[p] # "idle" =>
         /\ req[p].op # 0 /\ req[p].op \notin written
         /\ req[p].key \in Keys
         /\ result[p] = NoResult
    /\ pc[p] = "setCheck" => req[p].op \notin aside
    /\ pc[p] = "backend" =>
         todo[p] # <<>> /\ (Head(todo[p]) = Local => req[p].op \in viaLocal)

\* No two processes serve the same request.
Apart ==
  \A p, q \in Procs : p # q /\ req[p].op = req[q].op => req[p].op = 0

\* What may be seen: a value a backend was asked to store and did not refuse.
Visible == written \cup aside \cup {0}

\* Nothing else is in a backend, on its way to the local cache or in an answer.
Clean ==
  /\ \A b \in Backends, k \in Keys : store[b][k].op \in Visible
  /\ \A f \in fills : f.val.op \in Visible
  /\ \A p \in Procs : result[p].kind = "get" => result[p].val.op \in Visible

\* No fill brings a large value.
Small == BigStaysOut /\ \A f \in fills : ~f.val.big

\* What a Set or a Delete has returned says what became of it.
Outcomes ==
  \A p \in Procs :
    result[p].kind \in {"set", "delete"} =>
      /\ req[p].op # 0
      /\ result[p].status = "unhealthy" => req[p].op \notin written
      /\ result[p].status = "mismatch" => req[p].op \notin written \cup aside

\* A fill is on its way with the value of the last request of p.
Carried(p) == \E f \in fills : f.val.op = req[p].op

\* The value of a request that its backend did not take is nowhere, unless the
\* request is a cache-aside Set, and then nowhere but in the local cache.
Contained ==
  \A p \in Procs :
    req[p].op # 0 /\ req[p].op \notin written =>
      /\ Holders(p) \subseteq {Local}
      /\ Holders(p) # {} \/ Carried(p) => req[p].op \in aside /\ req[p].mode = "cache-aside"

\* A Get that has met no error yet has every backend that could serve it still
\* before it.
Misses ==
  /\ held \in [Procs -> SUBSET Backends]
  /\ NoFalseMiss
  /\ \A p \in Procs :
       pc[p] = "getTry" /\ lastErr[p] = "none" =>
         \A b \in held[p] : \E i \in DOMAIN todo[p] : todo[p][i] = b

\* All of it; no part is inductive alone.
CInv == Types /\ Control /\ Apart /\ Clean /\ Small /\ Outcomes /\ Contained /\ Misses

-----------------------------------------------------------------------------
(* The steps, seen from outside *)

\* Nobody but p moves, and p keeps its request.
OfRequest(p) ==
  /\ UNCHANGED <<routerVars, req, ops>>
  /\ \A q \in Procs \ {p} :
       /\ pc'[q] = pc[q] /\ todo'[q] = todo[q]
       /\ lastErr'[q] = lastErr[q] /\ result'[q] = result[q]

\* What a call that was to leave val under k in b may leave and answer: success
\* means that the version has moved, and an answer that the flag is down that
\* nothing has happened.
Honest(b, k, val, r) ==
  /\ r.err \in {"none", "error", "unhealthy"}
  /\ r.val \in {val, Absent, store[b][k]}
  /\ r.ver \in Nat
  /\ r.err = "none" => r.ver # version[b][k]
  /\ r.val = val => r.ver # version[b][k] \/ r.val = store[b][k]
  /\ r.err = "unhealthy" => r.val = store[b][k] /\ r.ver = version[b][k]

\* The value 0 of an absent entry is a value.
LEMMA AbsentVal == Absent \in Vals /\ Absent.op = 0 /\ Absent.big = FALSE /\ Local \in Backends
  BY CacheAssumption DEF Absent, Vals, OpIds

\* Set of any backend answers honestly.
LEMMA SetHonest ==
  ASSUME Types, NEW b \in Backends, NEW k \in Keys, NEW val \in Vals, NEW r \in SetOutcomes(b, k, val)
  PROVE  Honest(b, k, val, r)
<1>1. version[b][k] \in Nat /\ version[b][k] + 1 \in Nat /\ version[b][k] + 1 # version[b][k]
  BY DEF Types
<1>2. CASE ~healthy[b]
  BY <1>1, <1>2 DEF SetOutcomes, Unchanged, Honest
<1>3. CASE healthy[b] /\ b = Local
  BY <1>1, <1>3 DEF SetOutcomes, MemorySet, Honest
<1>4. CASE healthy[b] /\ b # Local
  BY <1>1, <1>4 DEF SetOutcomes, RemoteSet, Unchanged, Honest
<1>. QED  BY <1>2, <1>3, <1>4

\* So does Delete.
LEMMA DeleteHonest ==
  ASSUME Types, NEW b \in Backends, NEW k \in Keys, NEW r \in DeleteOutcomes(b, k)
  PROVE  /\ r.err \in {"none", "error", "unhealthy"}
         /\ r.val \in {Absent, store[b][k]} /\ r.ver \in Nat
         /\ r.err = "unhealthy" => r.val = store[b][k] /\ r.ver = version[b][k]
<1>1. version[b][k] \in Nat
  BY DEF Types
<1>. QED  BY <1>1 DEF DeleteOutcomes, Unchanged

\* A call writes the one entry it is about.
LEMMA LeaveOne ==
  ASSUME Types, NEW b \in Backends, NEW k \in Keys, NEW r, r.val \in Vals, r.ver \in Nat,
         Leave(b, k, r)
  PROVE  /\ store' \in [Backends -> [Keys -> Vals]]
         /\ version' \in [Backends -> [Keys -> Nat]]
         /\ \A c \in Backends, j \in Keys :
              store'[c][j] = IF c = b /\ j = k THEN r.val ELSE store[c][j]
BY DEF Types, Leave

\* An entry that is unchanged leaves no trace.
LEMMA LeaveNothing ==
  ASSUME Types, NEW b \in Backends, NEW k \in Keys, NEW r, Leave(b, k, r),
         r.val = store[b][k], r.ver = version[b][k]
  PROVE  store' = store /\ version' = version
<1>1. store[b] = [store[b] EXCEPT ![k] = r.val] /\ version[b] = [version[b] EXCEPT ![k] = r.ver]
  BY DEF Types
<1>. QED  BY <1>1 DEF Types, Leave

\* A new request has a number of its own and is sent to a place of its kind.
Begins(p, request, label) ==
  /\ Start(p, request, label)
  /\ request.op = ops + 1 /\ request.key \in Keys
  /\ Sound(request) /\ Fits(label, request) /\ label \in Labels \ {"idle", "getTry", "backend"}

\* Get, Set and Delete start requests of that form.
LEMMA StartBegins ==
  ASSUME NEW p \in Procs, StartGet(p) \/ StartSet(p) \/ StartDelete(p)
  PROVE  \E request, label : Begins(p, request, label)
<1>1. CASE StartGet(p)
  <2>1. PICK k \in Keys, skip \in BOOLEAN, ver \in Versions :
          Start(p, [NoRequest EXCEPT !.op = ops + 1, !.kind = "get", !.key = k,
                      !.skip = skip, !.version = ver, !.floor = acked[k]],
                IF skip THEN "getRoute" ELSE "getLocal")
    BY <1>1 DEF StartGet
  <2>. DEFINE R == [NoRequest EXCEPT !.op = ops + 1, !.kind = "get", !.key = k,
                      !.skip = skip, !.version = ver, !.floor = acked[k]]
              L == IF skip THEN "getRoute" ELSE "getLocal"
  <2>2. Begins(p, R, L)
    BY <2>1 DEF Begins, NoRequest, Sound, Fits, Labels
  <2>. HIDE DEF R, L
  <2>. QED  BY <2>2
<1>2. CASE StartSet(p)
  <2>1. PICK k \in Keys, mode \in Modes, big \in BigValues, ver \in Versions :
          Start(p, [NoRequest EXCEPT !.op = ops + 1, !.kind = "set", !.key = k,
                      !.mode = IF big THEN "passthrough" ELSE mode,
                      !.big = big, !.version = ver,
                      !.basis = IF result[p].kind = "get" /\ Key(p) = k
                                  THEN result[p].version ELSE 0],
                IF big THEN "route" ELSE IF ver > 0 THEN "setCheck" ELSE AfterCheck(mode))
    BY <1>2 DEF StartSet
  <2>2. big \in BOOLEAN
    BY CacheAssumption
  <2>. DEFINE R == [NoRequest EXCEPT !.op = ops + 1, !.kind = "set", !.key = k,
                      !.mode = IF big THEN "passthrough" ELSE mode,
                      !.big = big, !.version = ver,
                      !.basis = IF result[p].kind = "get" /\ Key(p) = k
                                  THEN result[p].version ELSE 0]
              L == IF big THEN "route" ELSE IF ver > 0 THEN "setCheck" ELSE AfterCheck(mode)
  <2>3. Begins(p, R, L)
    BY <2>1, <2>2 DEF Begins, NoRequest, Sound, Fits, Labels, AfterCheck
  <2>. HIDE DEF R, L
  <2>. QED  BY <2>3
<1>3. CASE StartDelete(p)
  <2>1. PICK k \in Keys :
          Start(p, [NoRequest EXCEPT !.op = ops + 1, !.kind = "delete", !.key = k], "deleteLocal")
    BY <1>3 DEF StartDelete
  <2>. DEFINE R == [NoRequest EXCEPT !.op = ops + 1, !.kind = "delete", !.key = k]
  <2>2. Begins(p, R, "deleteLocal")
    BY <2>1 DEF Begins, NoRequest, Sound, Fits, Labels
  <2>. HIDE DEF R
  <2>. QED  BY <2>2
<1>. QED  BY <1>1, <1>2, <1>3

\* A step of a request concerns the process that serves it.
LEMMA RequestAlone ==
  ASSUME Types, NEW p \in Procs, Request(p)
  PROVE  OfRequest(p)
<1>. USE DEF OfRequest, Types, routerVars, dataVars, histVars, Goto, Return, Fail, Serve
<1>1. CASE GetLocal(p) \/ GetRoute(p) \/ GetFound(p)
  BY <1>1 DEF GetLocal, GetRoute, GetFound
<1>2. CASE GetTryNext(p) \/ GetGiveUp(p)
  BY <1>2 DEF GetTryNext, GetGiveUp
<1>3. CASE CheckVersion(p) \/ SetLocal(p) \/ DeleteLocal(p)
  BY <1>3 DEF CheckVersion, SetLocal, DeleteLocal
<1>4. CASE RouteWrite(p)
  BY <1>4 DEF RouteWrite
<1>5. CASE SetBackend(p) \/ DeleteBackend(p)
  BY <1>5 DEF SetBackend, DeleteBackend
<1>. QED  BY <1>1, <1>2, <1>3, <1>4, <1>5 DEF Request

\* The steps that are nobody's.
Beside == Fill \/ InvalidateLocal \/ Expire \/ HealthChange

\* The lists of a read name each backend that is up, and only those.
LEMMA ReadList ==
  ASSUME RouterTypeOK, NEW k, NEW h, NEW s \in GetBackendsForRead(k, h)
  PROVE  /\ s \in Seq(Backends) /\ \A i \in DOMAIN s : s[i] \in UpSet
         /\ \A b \in UpSet : \E i \in DOMAIN s : s[i] = b
         /\ DOMAIN s \subseteq Nat \ {0} /\ (UpSet # {} => 1 \in DOMAIN s)
<1>1. UpSet \subseteq Backends /\ IsFiniteSet(UpSet)
  BY RouterAssumption, FS_Subset DEF UpSet, RouterTypeOK
<1>. DEFINE n == Cardinality(UpSet)
<1>2. n \in Nat /\ IsFiniteSet(1 .. n) /\ Cardinality(1 .. n) = n
  BY <1>1, FS_CardinalityType, FS_Interval
<1>3. s \in [1 .. n -> UpSet] /\ \A i, j \in DOMAIN s : i # j => s[i] # s[j]
  BY DEF GetBackendsForRead, Orderings
<1>4. s \in Injection(1 .. n, UpSet)
  BY <1>3 DEF Injection, IsInjective
<1>5. s \in Surjection(1 .. n, UpSet)
  BY <1>1, <1>2, <1>4, FS_Injection
<1>6. \A b \in UpSet : \E i \in 1 .. n : s[i] = b
  BY <1>5 DEF Surjection
<1>7. s \in Seq(Backends)
  BY <1>1, <1>2, <1>3
<1>8. DOMAIN s \subseteq Nat \ {0} /\ (UpSet # {} => 1 \in DOMAIN s)
  BY <1>2, <1>3, <1>6
<1>. QED  BY <1>3, <1>6, <1>7, <1>8

\* The first of a set of places is one of them.
LEMMA FirstOfIn ==
  ASSUME NEW I \in SUBSET Nat, I # {}
  PROVE  FirstOf(I) \in I /\ \A j \in I : FirstOf(I) <= j
<1>. DEFINE less == {pair \in Nat \X Nat : pair[1] < pair[2]}
<1>1. IsWellFoundedOn(less, Nat)
  BY NatLessThanWellFounded DEF OpToRel
<1>2. \A i, j \in Nat : i < j => <<i, j>> \in less
  OBVIOUS
<1>. HIDE DEF less
<1>3. PICK i \in I : \A j \in I : ~(<<j, i>> \in less)
  BY <1>1, WFMin
<1>4. ASSUME NEW j \in I PROVE i <= j
  <2>1. i \in Nat /\ j \in Nat /\ ~(j < i)
    BY <1>2, <1>3
  <2>. QED  BY <2>1
<1>. QED  BY <1>4 DEF FirstOf

\* A write goes to a registered backend, whatever decides.
LEMMA WriteTarget ==
  ASSUME Types, NEW k, NEW b \in GetBackend(k, NoHint)
  PROVE  b \in Backends
<1>1. HintHits(NoHint) = {}
  BY DEF HintHits, Route
<1>2. ASSUME RuleHits(k) # {} PROVE rules[FirstOf(RuleHits(k))].backend \in Backends
  <2>1. rules \in Seq(Rule)
    BY DEF Types, RouterTypeOK
  <2>2. RuleHits(k) \in SUBSET Nat
    BY <2>1 DEF RuleHits
  <2>3. FirstOf(RuleHits(k)) \in RuleHits(k)
    BY <1>2, <2>2, FirstOfIn
  <2>. QED  BY <2>3 DEF RuleHits, Up, Types
<1>3. Fallback \subseteq Backends
  BY DEF Fallback, UpSet, Types
<1>. QED  BY <1>1, <1>2, <1>3 DEF GetBackend

-----------------------------------------------------------------------------
(* Types *)

\* Requests start with the types of requests.
LEMMA TypesStart ==
  ASSUME Types, NEW p \in Procs, NEW request, NEW label, Begins(p, request, label)
  PROVE  Types'
<1>1. ops' = ops + 1 /\ ops' \in OpIds /\ 0 .. ops \subseteq 0 .. ops'
  BY CacheAssumption DEF Begins, Start, Types, OpIds
<1>2. <<>> \in Seq(Backends)
  OBVIOUS
<1>. QED
  BY <1>1, <1>2 DEF Begins, Start, Types, RouterTypeOK, Goto, Errors,
                    routerVars, dataVars, histVars

\* The value a process works on is a value.
LEMMA ValueTyped ==
  ASSUME Types, Control, NEW p \in Procs
  PROVE  /\ Value(p) \in Vals /\ Value(p).op = req[p].op /\ Value(p).big = req[p].big
         /\ req[p].op \in OpIds /\ req[p].op \in 0 .. ops
         /\ pc[p] # "idle" => Key(p) \in Keys
         /\ pc[p] \in {"getTry", "backend"} /\ todo[p] # <<>> =>
              Head(todo[p]) \in Backends /\ Tail(todo[p]) \in Seq(Backends)
<1>1. 0 .. ops \subseteq OpIds
  BY CacheAssumption DEF Types, OpIds
<1>2. todo[p] \in Seq(Backends)
  BY DEF Types
<1>3. todo[p] # <<>> => Head(todo[p]) \in Backends /\ Tail(todo[p]) \in Seq(Backends)
  BY <1>2
<1>4. req[p].op \in 0 .. ops /\ req[p].big \in BOOLEAN /\ (pc[p] # "idle" => Key(p) \in Keys)
  BY DEF Control, Sound, Key
<1>. QED  BY <1>1, <1>3, <1>4 DEF Value, Vals

\* The steps of a Get.
LEMMA TypesGet ==
  ASSUME Types, Control, NEW p \in Procs,
         GetLocal(p) \/ GetRoute(p) \/ GetFound(p) \/ GetTryNext(p) \/ GetGiveUp(p)
  PROVE  Types'
<1>. USE DEF Types, RouterTypeOK, routerVars, dataVars, histVars, Goto, Return, Fail, Serve
<1>1. CASE GetLocal(p)
  BY <1>1 DEF GetLocal, Labels
<1>2. CASE GetRoute(p)
  <2>1. PICK s \in GetBackendsForRead(Key(p), NoHint) :
          todo' = [todo EXCEPT ![p] = s]
    BY <1>2 DEF GetRoute
  <2>2. s \in Seq(Backends)
    BY ReadList DEF Types
  <2>3. todo' \in [Procs -> Seq(Backends)]
    BY <2>1, <2>2
  <2>. QED  BY <1>2, <2>3 DEF GetRoute, Labels
<1>3. CASE GetFound(p)
  <2>1. req[p].op \in OpIds /\ Key(p) \in Keys /\ Head(todo[p]) \in Backends
    BY <1>3, ValueTyped DEF GetFound
  <2>2. fills' \subseteq [op : OpIds, key : Keys, val : Vals]
    BY <1>3, <2>1 DEF GetFound
  <2>. QED  BY <1>3, <2>2 DEF GetFound, Labels
<1>4. CASE GetTryNext(p)
  <2>1. PICK answer \in GetOutcomes(Head(todo[p]), Key(p)) \ {"found"} :
          lastErr' = [lastErr EXCEPT ![p] = IF answer = "missing" THEN @ ELSE answer]
    BY <1>4 DEF GetTryNext
  <2>2. lastErr' \in [Procs -> Errors \cup {"none"}]
    BY <2>1 DEF GetOutcomes, Errors
  <2>3. todo' \in [Procs -> Seq(Backends)]
    BY <1>4, ValueTyped DEF GetTryNext
  <2>. QED  BY <1>4, <2>2, <2>3 DEF GetTryNext
<1>5. CASE GetGiveUp(p)
  BY <1>5 DEF GetGiveUp, Labels
<1>. QED  BY <1>1, <1>2, <1>3, <1>4, <1>5

-----------------------------------------------------------------------------
(* What is written, and what is said about it *)

\* One call leaves r under k in b: what was there, nothing, or val.
Writes(b, k, val, r) ==
  /\ Leave(b, k, r)
  /\ r.val \in Vals /\ r.ver \in Nat
  /\ r.val \in {val, Absent, store[b][k]}

\* setCacheAside and Delete on the local cache: nothing but the entry and the
\* history of such calls moves.
LocalCall(p, r) ==
  /\ Writes(Local, Key(p), Value(p), r)
  /\ r.val = Value(p) => r.val = store[Local][Key(p)]
       \/ (req[p].op \in aside' /\ ~r.val.big /\ req[p].mode = "cache-aside")
  /\ aside' \in {aside, aside \cup {req[p].op}}
  /\ pc[p] # "idle" /\ req[p].kind \in {"set", "delete"}
  /\ Goto(p, "route")
  /\ UNCHANGED <<routerVars, fills, written, viaLocal, req, todo, lastErr, result, ops>>

\* Set and Delete of the backend the router named: what they leave is counted as
\* written, and a Set that fills the local cache has been.
BackendCall(p, r) ==
  /\ pc[p] = "backend" /\ req[p].kind \in {"set", "delete"}
  /\ Writes(Head(todo[p]), Key(p), Value(p), r)
  /\ r.val = Value(p) => r.val = store[Head(todo[p])][Key(p)] \/ req[p].op \in written'
  /\ written' \in {written, written \cup {req[p].op}}
  /\ fills' # fills =>
       /\ fills' = fills \cup {[op |-> req[p].op, key |-> Key(p), val |-> Value(p)]}
       /\ req[p].op \in written' /\ req[p].mode = "write-through"
  /\ Goto(p, "idle")
  /\ DOMAIN result' = Procs /\ \A q \in Procs \ {p} : result'[q] = result[q]
  /\ result'[p].kind = req[p].kind /\ result'[p].status \in {"ok", "error", "unhealthy"}
  /\ result'[p].status = "unhealthy" => written' = written
  /\ UNCHANGED <<routerVars, req, todo, lastErr, ops, viaLocal, aside>>

\* What the local steps of setCacheAside and Delete do.
LEMMA SetLocalCalls ==
  ASSUME Types, Control, NEW p \in Procs, SetLocal(p) \/ DeleteLocal(p)
  PROVE  \E r : LocalCall(p, r)
<1>1. /\ pc[p] # "idle" /\ Key(p) \in Keys /\ Value(p) \in Vals /\ Local \in Backends
      /\ store[Local][Key(p)] \in Vals /\ Absent \in Vals
      /\ Value(p).op = req[p].op /\ Value(p).op # Absent.op /\ Value(p).big = req[p].big
  <2>1. pc[p] # "idle" /\ req[p].op # 0
    BY DEF SetLocal, DeleteLocal, Control
  <2>. QED  BY <2>1, ValueTyped, AbsentVal DEF Types
<1>2. CASE SetLocal(p)
  <2>1. PICK r \in SetOutcomes(Local, Key(p), Value(p)) : Leave(Local, Key(p), r)
    BY <1>2 DEF SetLocal
  <2>2. Honest(Local, Key(p), Value(p), r)
    BY <1>1, SetHonest
  <2>3. req[p].kind = "set" /\ ~req[p].big /\ req[p].mode = "cache-aside"
    BY <1>2 DEF SetLocal, Control, Fits
  <2>4. LocalCall(p, r)
    BY <1>1, <1>2, <2>1, <2>2, <2>3 DEF SetLocal, LocalCall, Writes, Honest
  <2>. QED  BY <2>4
<1>3. CASE DeleteLocal(p)
  <2>1. PICK r \in DeleteOutcomes(Local, Key(p)) : Leave(Local, Key(p), r)
    BY <1>3 DEF DeleteLocal
  <2>2. r.val \in {Absent, store[Local][Key(p)]} /\ r.ver \in Nat
    BY <1>1, DeleteHonest
  <2>3. req[p].kind = "delete"
    BY <1>3 DEF DeleteLocal, Control, Fits
  <2>4. LocalCall(p, r)
    BY <1>1, <1>3, <2>1, <2>2, <2>3 DEF DeleteLocal, LocalCall, Writes
  <2>. QED  BY <2>4
<1>. QED  BY <1>2, <1>3

\* A call that leaves an entry as it was has not been taken, one that moves its
\* version has.
LEMMA TookIff ==
  ASSUME Types, NEW b \in Backends, NEW k \in Keys, NEW r, Leave(b, k, r), r.val \in Vals, r.ver \in Nat
  PROVE  /\ r.val = store[b][k] /\ r.ver = version[b][k] => ~Took(b, k)
         /\ r.ver # version[b][k] => Took(b, k)
<1>1. version'[b][k] = r.ver
  BY DEF Types, Leave
<1>2. r.val = store[b][k] /\ r.ver = version[b][k] => store' = store /\ version' = version
  BY LeaveNothing
<1>. QED  BY <1>1, <1>2 DEF Took

\* What the call of the backend does for a Set, whatever it answers.
LEMMA SetBackendCalls ==
  ASSUME Types, Control, NEW p \in Procs, SetBackend(p)
  PROVE  \E r : BackendCall(p, r)
<1>. DEFINE b == Head(todo[p])
<1>1. /\ pc[p] = "backend" /\ Key(p) \in Keys /\ Value(p) \in Vals /\ b \in Backends
      /\ store[b][Key(p)] \in Vals /\ Absent \in Vals
  <2>1. pc[p] = "backend" /\ todo[p] # <<>>
    BY DEF SetBackend, Control
  <2>. QED  BY <2>1, ValueTyped, AbsentVal DEF Types
<1>2. PICK r \in SetOutcomes(b, Key(p), Value(p)) :
        /\ Leave(b, Key(p), r)
        /\ written' = IF Took(b, Key(p)) THEN written \cup {req[p].op} ELSE written
        /\ fills' = IF FillAfterSet(p, Succeeded(r))
                     THEN fills \cup {[op |-> req[p].op, key |-> Key(p), val |-> Value(p)]}
                     ELSE fills
        /\ IF Succeeded(r)
             THEN Return(p, "ok", Value(p), 0) /\ Acknowledge(p)
             ELSE Fail(p, r.err) /\ UNCHANGED acked
  BY DEF SetBackend
<1>. HIDE DEF b
<1>3. Honest(b, Key(p), Value(p), r)
  BY <1>1, SetHonest
<1>4. r.val \in Vals /\ r.ver \in Nat
  BY <1>1, <1>3 DEF Honest
<1>5. /\ r.err = "unhealthy" => ~Took(b, Key(p))
      /\ r.err = "none" => Took(b, Key(p))
      /\ r.val = Value(p) => r.val = store[b][Key(p)] \/ Took(b, Key(p))
  BY <1>1, <1>2, <1>3, <1>4, TookIff DEF Honest
<1>6. /\ DOMAIN result' = Procs /\ \A q \in Procs \ {p} : result'[q] = result[q]
      /\ result'[p].kind = req[p].kind /\ result'[p].status \in {"ok", "error", "unhealthy"}
      /\ result'[p].status = "unhealthy" => written' = written
  <2>1. r.err \in {"none", "error", "unhealthy"}
    BY <1>3 DEF Honest
  <2>2. CASE Succeeded(r)
    BY <1>2, <1>5, <2>2 DEF Succeeded, Return, Types
  <2>3. CASE ~Succeeded(r)
    BY <1>2, <1>5, <2>1, <2>3 DEF Succeeded, Fail, Return, Types
  <2>. QED  BY <2>2, <2>3
<1>7. Goto(p, "idle")
  BY <1>2 DEF Return, Fail
<1>8. fills' # fills =>
       /\ fills' = fills \cup {[op |-> req[p].op, key |-> Key(p), val |-> Value(p)]}
       /\ req[p].op \in written' /\ req[p].mode = "write-through"
  BY <1>2, <1>5 DEF FillAfterSet, Succeeded
<1>9. Writes(b, Key(p), Value(p), r)
  BY <1>2, <1>3, <1>4 DEF Writes, Honest
<1>10. /\ req[p].kind \in {"set", "delete"}
       /\ written' \in {written, written \cup {req[p].op}}
       /\ UNCHANGED <<routerVars, req, todo, lastErr, ops, viaLocal, aside>>
  BY <1>2 DEF SetBackend
<1>11. r.val = Value(p) => r.val = store[b][Key(p)] \/ req[p].op \in written'
  BY <1>2, <1>5
<1>12. BackendCall(p, r)
  BY <1>1, <1>6, <1>7, <1>8, <1>9, <1>10, <1>11 DEF BackendCall, b
<1>. QED  BY <1>12

\* And for a Delete.
LEMMA DeleteBackendCalls ==
  ASSUME Types, Control, NEW p \in Procs, DeleteBackend(p)
  PROVE  \E r : BackendCall(p, r)
<1>. DEFINE b == Head(todo[p])
<1>1. /\ pc[p] = "backend" /\ Key(p) \in Keys /\ Value(p) \in Vals /\ b \in Backends
      /\ store[b][Key(p)] \in Vals /\ Absent \in Vals
      /\ Value(p) # Absent
  <2>1. pc[p] = "backend" /\ todo[p] # <<>> /\ req[p].op # 0
    BY DEF DeleteBackend, Control
  <2>. QED  BY <2>1, ValueTyped, AbsentVal DEF Types
<1>2. PICK r \in DeleteOutcomes(b, Key(p)) :
        /\ Leave(b, Key(p), r)
        /\ written' = IF Took(b, Key(p)) THEN written \cup {req[p].op} ELSE written
        /\ IF Succeeded(r) THEN Return(p, "ok", Absent, 0) /\ Acknowledge(p)
                           ELSE Fail(p, r.err) /\ UNCHANGED acked
  BY DEF DeleteBackend
<1>. HIDE DEF b
<1>3. /\ r.err \in {"none", "error", "unhealthy"}
      /\ r.val \in {Absent, store[b][Key(p)]} /\ r.ver \in Nat /\ r.val \in Vals
      /\ r.err = "unhealthy" => r.val = store[b][Key(p)] /\ r.ver = version[b][Key(p)]
  BY <1>1, DeleteHonest
<1>4. r.err = "unhealthy" => ~Took(b, Key(p))
  BY <1>1, <1>2, <1>3, TookIff
<1>5. /\ DOMAIN result' = Procs /\ \A q \in Procs \ {p} : result'[q] = result[q]
      /\ result'[p].kind = req[p].kind /\ result'[p].status \in {"ok", "error", "unhealthy"}
      /\ result'[p].status = "unhealthy" => written' = written
  <2>1. CASE Succeeded(r)
    BY <1>2, <1>4, <2>1 DEF Succeeded, Return, Types
  <2>2. CASE ~Succeeded(r)
    BY <1>2, <1>3, <1>4, <2>2 DEF Succeeded, Fail, Return, Types
  <2>. QED  BY <2>1, <2>2
<1>6. Goto(p, "idle") /\ written' \in {written, written \cup {req[p].op}}
  BY <1>2 DEF Return, Fail
<1>7. Writes(b, Key(p), Value(p), r) /\ (r.val = Value(p) => r.val = store[b][Key(p)])
  BY <1>1, <1>2, <1>3 DEF Writes
<1>8. /\ req[p].kind \in {"set", "delete"} /\ fills' = fills
      /\ UNCHANGED <<routerVars, req, todo, lastErr, ops, viaLocal, aside>>
  BY DEF DeleteBackend
<1>9. BackendCall(p, r)
  BY <1>1, <1>5, <1>6, <1>7, <1>8 DEF BackendCall, b
<1>. QED  BY <1>9

\* A fill, an invalidation and an expiry write one entry of a backend, and no
\* value that was not there or on its way.
BesideWrite(b, k, r) ==
  /\ Leave(b, k, r)
  /\ r.val \in Vals /\ r.ver \in Nat
  /\ r.val \in {Absent, store[b][k]} \cup {f.val : f \in fills}
  /\ fills' \subseteq fills
  /\ UNCHANGED <<routerVars, procVars, histVars>>

\* That is all they do.
LEMMA BesideWrites ==
  ASSUME Types, Fill \/ InvalidateLocal \/ Expire
  PROVE  \E b \in Backends, k \in Keys : \E r : BesideWrite(b, k, r)
<1>1. CASE Fill
  <2>1. PICK f \in fills : \E r \in SetOutcomes(Local, f.key, f.val) :
          /\ Leave(Local, f.key, r) /\ fills' = fills \ {f}
          /\ UNCHANGED <<routerVars, procVars, histVars>>
    BY <1>1 DEF Fill
  <2>2. PICK r \in SetOutcomes(Local, f.key, f.val) :
          /\ Leave(Local, f.key, r) /\ fills' = fills \ {f}
          /\ UNCHANGED <<routerVars, procVars, histVars>>
    BY <2>1
  <2>3. f.key \in Keys /\ f.val \in Vals /\ Local \in Backends /\ store[Local][f.key] \in Vals
    BY AbsentVal DEF Types
  <2>4. Honest(Local, f.key, f.val, r)
    BY <2>3, SetHonest
  <2>5. BesideWrite(Local, f.key, r)
    BY <2>2, <2>3, <2>4, AbsentVal DEF BesideWrite, Honest
  <2>. QED  BY <2>3, <2>5
<1>2. CASE InvalidateLocal
  <2>1. PICK k \in Keys : \E r \in DeleteOutcomes(Local, k) : Leave(Local, k, r)
    BY <1>2 DEF InvalidateLocal
  <2>2. PICK r \in DeleteOutcomes(Local, k) : Leave(Local, k, r)
    BY <2>1
  <2>3. Local \in Backends /\ store[Local][k] \in Vals
    BY AbsentVal DEF Types
  <2>4. r.val \in {Absent, store[Local][k]} /\ r.ver \in Nat
    BY <2>3, DeleteHonest
  <2>5. BesideWrite(Local, k, r)
    BY <1>2, <2>2, <2>3, <2>4, AbsentVal DEF BesideWrite, InvalidateLocal
  <2>. QED  BY <2>3, <2>5
<1>3. CASE Expire
  <2>1. PICK b \in Backends, k \in Keys :
          Leave(b, k, [val |-> Absent, ver |-> IF b = Local THEN version[b][k] ELSE 0])
    BY <1>3 DEF Expire
  <2>. DEFINE r == [val |-> Absent, ver |-> IF b = Local THEN version[b][k] ELSE 0]
  <2>2. BesideWrite(b, k, r)
    BY <1>3, <2>1, AbsentVal DEF BesideWrite, Expire, Types
  <2>. QED  BY <2>2
<1>. QED  BY <1>1, <1>2, <1>3

-----------------------------------------------------------------------------
(* Every step keeps the types *)

\* A call of a backend leaves values of the right type, in one entry.
LEMMA TypesWrite ==
  ASSUME Types, NEW b \in Backends, NEW k \in Keys, NEW val, NEW r, Writes(b, k, val, r)
  PROVE  /\ store' \in [Backends -> [Keys -> Vals]] /\ version' \in [Backends -> [Keys -> Nat]]
         /\ \A c \in Backends, j \in Keys :
              store'[c][j] = IF c = b /\ j = k THEN r.val ELSE store[c][j]
BY LeaveOne DEF Writes

\* The steps of Set and Delete.
LEMMA TypesSet ==
  ASSUME Types, Control, NEW p \in Procs,
         CheckVersion(p) \/ SetLocal(p) \/ DeleteLocal(p) \/ RouteWrite(p)
           \/ SetBackend(p) \/ DeleteBackend(p)
  PROVE  Types'
<1>. USE DEF Types, RouterTypeOK, routerVars, dataVars, histVars, Goto
<1>0. /\ req[p].op \in 0 .. ops /\ Value(p) \in Vals
      /\ pc[p] # "idle" => Key(p) \in Keys
  BY ValueTyped
<1>1. CASE CheckVersion(p)
  BY <1>1 DEF CheckVersion, Return, Fail, Labels, AfterCheck
<1>2. CASE SetLocal(p) \/ DeleteLocal(p)
  <2>1. PICK r : LocalCall(p, r)
    BY <1>2, SetLocalCalls
  <2>2. Local \in Backends /\ Key(p) \in Keys
    BY <1>0, <2>1, AbsentVal DEF LocalCall
  <2>3. store' \in [Backends -> [Keys -> Vals]] /\ version' \in [Backends -> [Keys -> Nat]]
    BY <2>1, <2>2, TypesWrite DEF LocalCall
  <2>. QED  BY <1>0, <2>1, <2>3 DEF LocalCall, Labels
<1>3. CASE RouteWrite(p)
  <2>1. CASE GetBackend(Key(p), NoHint) = {}
    BY <1>3, <2>1 DEF RouteWrite, Return, Fail, Labels
  <2>2. CASE GetBackend(Key(p), NoHint) # {}
    <3>1. PICK b \in GetBackend(Key(p), NoHint) :
            /\ todo' = [todo EXCEPT ![p] = <<b>>]
            /\ Goto(p, "backend")
            /\ viaLocal' = IF b = Local THEN viaLocal \cup {req[p].op} ELSE viaLocal
            /\ UNCHANGED result
      BY <1>3, <2>2 DEF RouteWrite
    <3>2. <<b>> \in Seq(Backends)
      BY WriteTarget
    <3>3. todo' \in [Procs -> Seq(Backends)]
      BY <3>1, <3>2
    <3>. QED  BY <1>0, <1>3, <3>1, <3>3 DEF RouteWrite, Labels
  <2>. QED  BY <2>1, <2>2
<1>4. CASE SetBackend(p) \/ DeleteBackend(p)
  <2>1. PICK r : BackendCall(p, r)
    BY <1>4, SetBackendCalls, DeleteBackendCalls
  <2>2. Head(todo[p]) \in Backends /\ Key(p) \in Keys
    BY <1>0, <2>1, ValueTyped DEF BackendCall, Control
  <2>3. store' \in [Backends -> [Keys -> Vals]] /\ version' \in [Backends -> [Keys -> Nat]]
    BY <2>1, <2>2, TypesWrite DEF BackendCall
  <2>4. req[p].op \in OpIds
    BY ValueTyped
  <2>5. fills' \subseteq [op : OpIds, key : Keys, val : Vals]
    BY <1>0, <2>1, <2>2, <2>4 DEF BackendCall
  <2>. QED  BY <1>0, <2>1, <2>3, <2>5 DEF BackendCall, Labels
<1>. QED  BY <1>1, <1>2, <1>3, <1>4

\* The steps beside the requests.
LEMMA TypesBeside ==
  ASSUME Types, Beside
  PROVE  Types'
<1>1. ASSUME NEW b \in Backends, NEW k \in Keys, NEW r, BesideWrite(b, k, r)
      PROVE  Types'
  <2>1. store' \in [Backends -> [Keys -> Vals]] /\ version' \in [Backends -> [Keys -> Nat]]
    BY <1>1, LeaveOne DEF BesideWrite
  <2>. QED  BY <1>1, <2>1 DEF BesideWrite, Types, RouterTypeOK, routerVars, procVars, histVars
<1>2. CASE HealthChange
  BY <1>2, CacheAssumption
  DEF HealthChange, SetHealthy, Types, RouterTypeOK, dataVars, procVars, histVars
<1>. QED  BY <1>1, <1>2, BesideWrites DEF Beside

-----------------------------------------------------------------------------
(* Every step keeps the control *)

\* A request is given a number nobody has.
LEMMA ControlStart ==
  ASSUME Types, Control, Apart, NEW p \in Procs, NEW request, NEW label, Begins(p, request, label)
  PROVE  Control' /\ Apart'
<1>1. ops \in Nat /\ ops' = ops + 1 /\ ops' # 0 /\ ops' \notin 0 .. ops /\ ops' \in 0 .. ops'
      /\ 0 .. ops \subseteq 0 .. ops'
  BY CacheAssumption DEF Begins, Start, Types, OpIds
<1>2. /\ req' = [req EXCEPT ![p] = request] /\ request.op = ops' /\ request.key \in Keys
      /\ Sound(request) /\ Fits(label, request) /\ label \notin {"idle", "getTry", "backend"}
      /\ pc' = [pc EXCEPT ![p] = label] /\ result' = [result EXCEPT ![p] = NoResult]
      /\ todo' = [todo EXCEPT ![p] = <<>>]
      /\ UNCHANGED <<written, aside, viaLocal>>
  BY DEF Begins, Start, Goto, histVars
<1>3. req'[p] = request /\ pc'[p] = label /\ result'[p] = NoResult
      /\ \A q \in Procs \ {p} : req'[q] = req[q] /\ pc'[q] = pc[q] /\ result'[q] = result[q]
                                /\ todo'[q] = todo[q]
  BY <1>2 DEF Types
<1>4. ops' \notin written /\ ops' \notin aside
  BY <1>1 DEF Types
<1>5. Control'
  BY <1>1, <1>2, <1>3, <1>4 DEF Control
<1>6. Apart'
  BY <1>1, <1>2, <1>3 DEF Apart, Control
<1>. QED  BY <1>5, <1>6

\* What the other processes and the histories keep while p moves.
LEMMA ControlOthers ==
  ASSUME Types, Control, Apart, NEW p \in Procs, OfRequest(p), pc[p] # "idle",
         written' \in {written, written \cup {req[p].op}},
         aside' \in {aside, aside \cup {req[p].op}}, viaLocal \subseteq viaLocal',
         /\ Fits(pc'[p], req[p]) /\ pc'[p] # "setCheck"
         /\ pc'[p] # "idle" => written' = written /\ result'[p] = NoResult
         /\ pc'[p] = "backend" =>
              todo'[p] # <<>> /\ (Head(todo'[p]) = Local => req[p].op \in viaLocal')
  PROVE  Control' /\ Apart'
<1>1. Apart'
  BY DEF Apart, OfRequest
<1>2. ASSUME NEW q \in Procs \ {p}, pc[q] # "idle" 
      PROVE  req[q].op \notin written' /\ (pc[q] = "setCheck" => req[q].op \notin aside')
  <2>1. req[q].op \notin written /\ req[q].op # 0 /\ (pc[q] = "setCheck" => req[q].op \notin aside)
    BY <1>2 DEF Control
  <2>2. req[q].op # req[p].op
    BY <2>1 DEF Apart
  <2>. QED  BY <2>1, <2>2
<1>3. Control'
  BY <1>2 DEF Control, OfRequest
<1>. QED  BY <1>1, <1>3

\* A step of a request keeps its place, its kind and its number together.
LEMMA ControlRequest ==
  ASSUME Types, Control, Apart, NEW p \in Procs, Request(p)
  PROVE  Control' /\ Apart'
<1>. USE DEF Goto, Return, Fail, Serve, histVars, Types
<1>0. OfRequest(p)
  BY RequestAlone
<1>1. CASE GetLocal(p) \/ GetRoute(p) \/ GetFound(p) \/ GetTryNext(p) \/ GetGiveUp(p)
  <2>1. /\ pc[p] \in {"getLocal", "getRoute", "getTry"} /\ UNCHANGED <<written, aside, viaLocal>>
        /\ pc'[p] \in {"idle", "getRoute", "getTry"}
        /\ pc'[p] # "idle" => result'[p] = result[p]
    BY <1>1 DEF GetLocal, GetRoute, GetFound, GetTryNext, GetGiveUp
  <2>2. req[p].kind = "get" /\ result[p] = NoResult
    BY <2>1 DEF Control, Fits
  <2>. QED  BY <1>0, <2>1, <2>2, ControlOthers DEF Fits
<1>2. CASE CheckVersion(p)
  <2>1. /\ pc[p] = "setCheck" /\ UNCHANGED <<written, aside, viaLocal>>
        /\ pc'[p] \in {"idle", "setLocal", "route"}
        /\ pc'[p] # "idle" => result'[p] = result[p]
        /\ pc'[p] = "setLocal" => req[p].mode = "cache-aside"
    BY <1>2 DEF CheckVersion, AfterCheck
  <2>2. req[p].kind = "set" /\ ~req[p].big /\ result[p] = NoResult
    BY <2>1 DEF Control, Fits
  <2>. QED  BY <1>0, <2>1, <2>2, ControlOthers DEF Fits
<1>3. CASE SetLocal(p) \/ DeleteLocal(p)
  <2>1. PICK r : LocalCall(p, r)
    BY <1>3, SetLocalCalls
  <2>2. pc[p] # "idle" /\ pc'[p] = "route" /\ req[p].kind \in {"set", "delete"}
        /\ UNCHANGED <<written, viaLocal, result>> /\ result[p] = NoResult
        /\ aside' \in {aside, aside \cup {req[p].op}}
    BY <2>1 DEF LocalCall, Control
  <2>. QED  BY <1>0, <2>2, ControlOthers DEF Fits
<1>4. CASE RouteWrite(p)
  <2>1. pc[p] = "route" /\ req[p].kind \in {"set", "delete"} /\ UNCHANGED <<written, aside>>
        /\ result[p] = NoResult
    BY <1>4 DEF RouteWrite, Control, Fits
  <2>2. CASE GetBackend(Key(p), NoHint) = {}
    <3>1. pc'[p] = "idle" /\ UNCHANGED viaLocal
      BY <1>4, <2>2 DEF RouteWrite
    <3>. QED  BY <1>0, <2>1, <3>1, ControlOthers DEF Fits
  <2>3. CASE GetBackend(Key(p), NoHint) # {}
    <3>1. PICK b \in GetBackend(Key(p), NoHint) :
            /\ todo' = [todo EXCEPT ![p] = <<b>>]
            /\ Goto(p, "backend")
            /\ viaLocal' = IF b = Local THEN viaLocal \cup {req[p].op} ELSE viaLocal
            /\ UNCHANGED result
      BY <1>4, <2>3 DEF RouteWrite
    <3>2. /\ todo'[p] = <<b>> /\ <<b>> # <<>> /\ Head(<<b>>) = b
          /\ pc'[p] = "backend" /\ result'[p] = NoResult
          /\ viaLocal \subseteq viaLocal' /\ (b = Local => req[p].op \in viaLocal')
      BY <2>1, <3>1
    <3>. QED  BY <1>0, <2>1, <3>2, ControlOthers DEF Fits
  <2>. QED  BY <2>2, <2>3
<1>5. CASE SetBackend(p) \/ DeleteBackend(p)
  <2>1. PICK r : BackendCall(p, r)
    BY <1>5, SetBackendCalls, DeleteBackendCalls
  <2>2. /\ pc[p] = "backend" /\ pc'[p] = "idle" /\ UNCHANGED <<viaLocal, aside>>
        /\ written' \in {written, written \cup {req[p].op}}
    BY <2>1 DEF BackendCall
  <2>. QED  BY <1>0, <2>2, ControlOthers DEF Fits
<1>. QED  BY <1>1, <1>2, <1>3, <1>4, <1>5 DEF Request

\* The steps beside the requests touch no request.
LEMMA BesideAlone ==
  ASSUME Types, Beside
  PROVE  UNCHANGED <<registered, procVars, histVars>>
<1>1. ASSUME NEW b \in Backends, NEW k \in Keys, NEW r, BesideWrite(b, k, r)
      PROVE  UNCHANGED <<registered, procVars, histVars>>
  BY <1>1 DEF BesideWrite, routerVars
<1>2. CASE HealthChange
  BY <1>2 DEF HealthChange, SetHealthy
<1>. QED  BY <1>1, <1>2, BesideWrites DEF Beside

-----------------------------------------------------------------------------
(* Every step keeps the values that are seen clean, and large ones out *)

\* A started request has brought nothing and returned nothing yet.
LEMMA DataStart ==
  ASSUME Types, Clean, Small, Outcomes, NEW p \in Procs, NEW request, NEW label, Control, Apart,
         Begins(p, request, label)
  PROVE  Clean' /\ Small' /\ Outcomes'
<1>1. /\ UNCHANGED <<store, fills, written, aside, viaLocal>>
      /\ result'[p].kind = "none"
      /\ \A q \in Procs \ {p} : result'[q] = result[q] /\ req'[q] = req[q]
  BY DEF Begins, Start, Types, dataVars, histVars, NoResult
<1>2. Visible' = Visible
  BY <1>1 DEF Visible
<1>3. Clean'
  BY <1>1, <1>2 DEF Clean
<1>4. Small'
  BY <1>1 DEF Small, BigStaysOut
<1>5. Outcomes'
  BY <1>1 DEF Outcomes
<1>. QED  BY <1>3, <1>4, <1>5

\* A Get returns, and puts on its way to the local cache, what a backend holds.
LEMMA DataGet ==
  ASSUME Types, Control, Clean, Small, Outcomes, NEW p \in Procs,
         GetLocal(p) \/ GetRoute(p) \/ GetFound(p) \/ GetTryNext(p) \/ GetGiveUp(p)
  PROVE  Clean' /\ Small' /\ Outcomes'
<1>1. /\ UNCHANGED <<routerVars, req, store, written, aside, viaLocal>>
      /\ pc[p] \in {"getLocal", "getRoute", "getTry"}
  BY DEF GetLocal, GetRoute, GetFound, GetTryNext, GetGiveUp, dataVars, histVars
<1>2. req[p].kind = "get" /\ Key(p) \in Keys /\ result[p] = NoResult
  BY <1>1 DEF Control, Fits, Key
<1>3. Visible' = Visible /\ Absent.op \in Visible
  BY <1>1, AbsentVal DEF Visible
<1>4. /\ result'[p] = NoResult \/ result'[p].kind = "get"
      /\ result'[p].kind = "get" => result'[p].val.op \in Visible
  <2>. USE DEF Serve, Return, Fail, Types, NoResult
  <2>1. ASSUME NEW b \in Backends, Serve(p, b)
        PROVE  result'[p].kind = "get" /\ result'[p].val.op \in Visible
    BY <1>2, <1>3, <2>1 DEF Clean
  <2>2. ASSUME NEW status, Fail(p, status)
        PROVE  result'[p].kind = "get" /\ result'[p].val.op \in Visible
    BY <1>2, <1>3, <2>2
  <2>3. CASE GetLocal(p)
    BY <1>2, <2>1, <2>3, AbsentVal DEF GetLocal
  <2>4. CASE GetRoute(p) \/ GetGiveUp(p) \/ GetTryNext(p)
    BY <1>2, <2>2, <2>4 DEF GetRoute, GetGiveUp, GetTryNext
  <2>5. CASE GetFound(p)
    <3>1. Head(todo[p]) \in Backends
      BY <2>5, ValueTyped DEF GetFound
    <3>. QED  BY <2>1, <2>5, <3>1 DEF GetFound
  <2>. QED  BY <2>3, <2>4, <2>5
<1>5. \A q \in Procs \ {p} : result'[q] = result[q]
  BY RequestAlone DEF OfRequest, Request
<1>6. \A f \in fills' : f \in fills \/ (f.val.op \in Visible /\ ~f.val.big)
  <2>1. CASE GetFound(p)
    <3>1. Head(todo[p]) \in Backends
      BY <2>1, ValueTyped DEF GetFound
    <3>2. store[Head(todo[p])][Key(p)].op \in Visible
      BY <1>2, <3>1 DEF Clean
    <3>. QED  BY <2>1, <3>2 DEF GetFound, FillAfterGet
  <2>2. CASE ~GetFound(p)
    BY <2>2 DEF GetLocal, GetRoute, GetTryNext, GetGiveUp, dataVars
  <2>. QED  BY <2>1, <2>2
<1>7. Clean'
  BY <1>1, <1>3, <1>4, <1>5, <1>6 DEF Clean, NoResult
<1>8. Small'
  BY <1>1, <1>6 DEF Small, BigStaysOut
<1>9. Outcomes'
  BY <1>1, <1>4, <1>5 DEF Outcomes, NoResult
<1>. QED  BY <1>7, <1>8, <1>9

\* CheckVersion and RouteWrite return errors, and mark the requests the router
\* sends to the local cache.
LEMMA DataAsk ==
  ASSUME Types, Control, Clean, Small, Outcomes, NEW p \in Procs, CheckVersion(p) \/ RouteWrite(p)
  PROVE  Clean' /\ Small' /\ Outcomes'
<1>1. /\ UNCHANGED <<req, store, fills, written, aside>> /\ viaLocal \subseteq viaLocal'
      /\ pc[p] # "idle" /\ req[p].kind \in {"set", "delete"}
  BY DEF CheckVersion, RouteWrite, dataVars, histVars, Control, Fits
<1>2. req[p].op # 0 /\ req[p].op \notin written /\ result[p].kind = "none"
  BY <1>1 DEF Control, NoResult
<1>3. \/ result'[p].kind = "none"
      \/ /\ result'[p].kind = req[p].kind
         /\ result'[p].status = "mismatch" => req[p].op \notin aside
  <2>1. ASSUME NEW status, Fail(p, status)
        PROVE  result'[p].kind = req[p].kind /\ result'[p].status = status
    BY <2>1 DEF Fail, Return, Types
  <2>2. CASE CheckVersion(p)
    <3>1. req[p].op \notin aside
      BY <2>2 DEF CheckVersion, Control
    <3>. QED  BY <1>2, <2>1, <2>2, <3>1 DEF CheckVersion
  <2>3. CASE RouteWrite(p)
    BY <1>2, <2>1, <2>3 DEF RouteWrite
  <2>. QED  BY <2>2, <2>3
<1>4. \A q \in Procs \ {p} : result'[q] = result[q]
  BY RequestAlone DEF OfRequest, Request
<1>5. Visible' = Visible
  BY <1>1 DEF Visible
<1>6. Clean'
  BY <1>1, <1>3, <1>4, <1>5 DEF Clean
<1>7. Small'
  BY <1>1 DEF Small, BigStaysOut
<1>8. Outcomes'
  BY <1>1, <1>2, <1>3, <1>4 DEF Outcomes
<1>. QED  BY <1>6, <1>7, <1>8

\* The local writes of setCacheAside are small, and count as seen.
LEMMA DataLocal ==
  ASSUME Types, Control, Apart, Clean, Small, Outcomes, NEW p \in Procs,
         SetLocal(p) \/ DeleteLocal(p)
  PROVE  Clean' /\ Small' /\ Outcomes'
<1>1. PICK r : LocalCall(p, r)
  BY SetLocalCalls
<1>2. Local \in Backends /\ Key(p) \in Keys /\ Value(p).op = req[p].op
  BY <1>1, AbsentVal, ValueTyped DEF LocalCall
<1>3. \A c \in Backends, j \in Keys :
        store'[c][j] = IF c = Local /\ j = Key(p) THEN r.val ELSE store[c][j]
  BY <1>1, <1>2, TypesWrite DEF LocalCall
<1>4. Visible \subseteq Visible' /\ UNCHANGED <<fills, req, result, written, viaLocal>>
  BY <1>1 DEF LocalCall, Visible
<1>5. r.val.op \in Visible' /\ (~r.val.big \/ r.val = store[Local][Key(p)])
  <2>1. CASE r.val = store[Local][Key(p)]
    BY <1>2, <1>4, <2>1 DEF Clean
  <2>2. CASE r.val = Absent
    BY <2>2, AbsentVal DEF Visible
  <2>3. CASE r.val = Value(p) /\ r.val # store[Local][Key(p)]
    BY <1>1, <1>2, <2>3 DEF LocalCall, Visible
  <2>. QED  BY <1>1, <2>1, <2>2, <2>3 DEF LocalCall, Writes
<1>6. Clean'
  BY <1>3, <1>4, <1>5 DEF Clean
<1>7. Small'
  BY <1>2, <1>3, <1>4, <1>5 DEF Small, BigStaysOut
<1>8. Outcomes'
  <2>1. req[p].op # 0 /\ result[p].kind = "none" /\ aside' \subseteq aside \cup {req[p].op}
    BY <1>1 DEF LocalCall, Control, NoResult
  <2>2. \A q \in Procs \ {p} : req[q].op # req[p].op
    BY <2>1 DEF Apart
  <2>. QED  BY <1>4, <2>1, <2>2 DEF Outcomes
<1>. QED  BY <1>6, <1>7, <1>8

\* What a backend keeps of a Set counts as written, and a large value is in the
\* local cache only if the router sent it there.
LEMMA DataBackend ==
  ASSUME Types, Control, Apart, Clean, Small, Outcomes, NEW p \in Procs,
         SetBackend(p) \/ DeleteBackend(p)
  PROVE  Clean' /\ Small' /\ Outcomes'
<1>1. PICK r : BackendCall(p, r)
  BY SetBackendCalls, DeleteBackendCalls
<1>2. PICK b \in Backends : b = Head(todo[p])
  BY <1>1, ValueTyped DEF BackendCall, Control
<1>3. /\ Key(p) \in Keys /\ Value(p).op = req[p].op /\ Value(p).big = req[p].big
      /\ req[p].op # 0 /\ req[p].op \notin written
      /\ b = Local => req[p].op \in viaLocal
  BY <1>1, <1>2, ValueTyped DEF BackendCall, Control
<1>4. \A c \in Backends, j \in Keys :
        store'[c][j] = IF c = b /\ j = Key(p) THEN r.val ELSE store[c][j]
  BY <1>1, <1>2, <1>3, TypesWrite DEF BackendCall
<1>5. /\ Visible \subseteq Visible' /\ UNCHANGED <<req, aside, viaLocal>>
      /\ \A q \in Procs \ {p} : result'[q] = result[q]
      /\ written \subseteq written' /\ written' \subseteq written \cup {req[p].op}
  BY <1>1 DEF BackendCall, Visible
<1>6. /\ r.val.op \in Visible'
      /\ r.val.big /\ b = Local => r.val.op \in viaLocal
  <2>1. CASE r.val = store[b][Key(p)]
    BY <1>2, <1>3, <1>5, <2>1 DEF Clean, Small, BigStaysOut
  <2>2. CASE r.val = Absent
    BY <2>2, AbsentVal DEF Visible
  <2>3. CASE r.val = Value(p) /\ r.val # store[b][Key(p)]
    BY <1>1, <1>2, <1>3, <2>3 DEF BackendCall, Visible
  <2>. QED  BY <1>1, <1>2, <2>1, <2>2, <2>3 DEF BackendCall, Writes
<1>7. \A f \in fills' : f \in fills \/ (f.val.op \in Visible' /\ ~f.val.big)
  <2>1. req[p].mode = "write-through" => ~req[p].big
    BY DEF Control, Sound
  <2>. QED  BY <1>1, <1>3, <2>1 DEF BackendCall, Visible
<1>8. Clean'
  <2>1. result'[p].kind # "get"
    BY <1>1 DEF BackendCall
  <2>. QED  BY <1>4, <1>5, <1>6, <1>7, <2>1 DEF Clean
<1>9. Small'
  BY <1>3, <1>4, <1>5, <1>6, <1>7, AbsentVal DEF Small, BigStaysOut
<1>10. Outcomes'
  <2>1. ASSUME NEW q \in Procs \ {p}, result[q].kind \in {"set", "delete"}
        PROVE  req[q].op \in written' <=> req[q].op \in written
    <3>1. req[q].op # req[p].op
      BY <1>3 DEF Apart
    <3>. QED  BY <1>5, <3>1
  <2>2. /\ result'[p].status # "mismatch"
        /\ result'[p].status = "unhealthy" => req[p].op \notin written'
    BY <1>1, <1>3 DEF BackendCall
  <2>. QED  BY <1>3, <1>5, <2>1, <2>2 DEF Outcomes
<1>. QED  BY <1>8, <1>9, <1>10

\* Fills, invalidations and expiries spread what is there.
LEMMA DataBeside ==
  ASSUME Types, Clean, Small, Outcomes, Beside
  PROVE  Clean' /\ Small' /\ Outcomes'
<1>0. UNCHANGED <<req, result, written, aside, viaLocal>> /\ Visible' = Visible
  BY BesideAlone DEF procVars, histVars, Visible
<1>1. Outcomes'
  BY <1>0 DEF Outcomes
<1>2. ASSUME NEW b \in Backends, NEW k \in Keys, NEW r, BesideWrite(b, k, r)
      PROVE  Clean' /\ Small'
  <2>1. \A c \in Backends, j \in Keys :
          store'[c][j] = IF c = b /\ j = k THEN r.val ELSE store[c][j]
    BY <1>2, LeaveOne DEF BesideWrite
  <2>2. /\ r.val.op \in Visible
        /\ ~r.val.big \/ r.val = store[b][k]
    BY <1>2, AbsentVal DEF BesideWrite, Clean, Small, Visible
  <2>3. fills' \subseteq fills
    BY <1>2 DEF BesideWrite
  <2>. QED  BY <1>0, <2>1, <2>2, <2>3, AbsentVal DEF Clean, Small, BigStaysOut
<1>3. CASE HealthChange
  <2>1. UNCHANGED <<store, fills>>
    BY <1>3 DEF HealthChange, dataVars
  <2>2. Clean'
    BY <1>0, <2>1 DEF Clean
  <2>3. Small'
    BY <1>0, <2>1 DEF Small, BigStaysOut
  <2>. QED  BY <1>1, <2>2, <2>3
<1>. QED  BY <1>1, <1>2, <1>3, BesideWrites DEF Beside

-----------------------------------------------------------------------------
(* No refused value spreads *)

\* A new request has no value anywhere.
LEMMA ContainedStart ==
  ASSUME Types, Clean, Contained, NEW p \in Procs, NEW request, NEW label,
         Begins(p, request, label)
  PROVE  Contained'
<1>1. /\ UNCHANGED <<store, fills, written, aside>>
      /\ req'[p].op = ops + 1 /\ \A q \in Procs \ {p} : req'[q] = req[q]
  BY DEF Begins, Start, Types, dataVars, histVars
<1>2. ops + 1 \notin Visible
  BY CacheAssumption DEF Types, Visible, OpIds
<1>3. /\ \A b \in Backends, k \in Keys : store[b][k].op # ops + 1
      /\ \A f \in fills : f.val.op # ops + 1
  BY <1>2 DEF Clean
<1>4. Holders(p)' = {} /\ ~Carried(p)'
  BY <1>1, <1>3 DEF Holders, Carried
<1>5. \A q \in Procs \ {p} : Holders(q)' = Holders(q) /\ Carried(q)' = Carried(q)
  BY <1>1 DEF Holders, Carried
<1>. QED  BY <1>1, <1>4, <1>5 DEF Contained

\* How far the value of q may get in a step.
Spreads(q) ==
  /\ \A b \in Backends, k \in Keys :
       store'[b][k].op = req[q].op =>
         \/ store[b][k].op = req[q].op
         \/ b = Local /\ (Carried(q) \/ (req[q].op \in aside' /\ req[q].mode = "cache-aside"))
  /\ \A f \in fills' : f.val.op = req[q].op => Carried(q) \/ Holders(q) # {}

\* A step that lets no value get further keeps it contained.
LEMMA ContainedStep ==
  ASSUME Contained, req' = req, written \subseteq written', aside \subseteq aside',
         \A q \in Procs : req[q].op # 0 /\ req[q].op \notin written' => Spreads(q)
  PROVE  Contained'
<1>. SUFFICES ASSUME NEW q \in Procs, req[q].op # 0, req[q].op \notin written'
              PROVE  /\ Holders(q)' \subseteq {Local}
                     /\ Holders(q)' # {} \/ Carried(q)' =>
                          req[q].op \in aside' /\ req[q].mode = "cache-aside"
  BY DEF Contained
<1>1. /\ Holders(q) \subseteq {Local}
      /\ Holders(q) # {} \/ Carried(q) => req[q].op \in aside /\ req[q].mode = "cache-aside"
  BY DEF Contained
<1>2. Spreads(q)
  OBVIOUS
<1>3. ASSUME NEW b \in Holders(q)'
      PROVE  b = Local /\ req[q].op \in aside' /\ req[q].mode = "cache-aside"
  <2>1. PICK k \in Keys : b \in Backends /\ store'[b][k].op = req[q].op
    BY <1>3 DEF Holders
  <2>2. CASE store[b][k].op = req[q].op
    <3>1. b \in Holders(q)
      BY <2>1, <2>2 DEF Holders
    <3>. QED  BY <1>1, <3>1
  <2>3. CASE store[b][k].op # req[q].op
    BY <1>1, <1>2, <2>1, <2>3 DEF Spreads
  <2>. QED  BY <2>2, <2>3
<1>4. ASSUME Carried(q)' PROVE req[q].op \in aside' /\ req[q].mode = "cache-aside"
  <2>1. PICK f \in fills' : f.val.op = req[q].op
    BY <1>4 DEF Carried
  <2>. QED  BY <1>1, <1>2, <2>1 DEF Spreads
<1>. QED  BY <1>3, <1>4

\* What the steps of a request write, or put on its way, is its own value, one its
\* backend has taken, or one that the backend it comes from holds.
LEMMA ContainedRequest ==
  ASSUME Types, Control, Apart, Contained, NEW p \in Procs, Request(p)
  PROVE  Contained'
<1>1. req' = req
  BY RequestAlone DEF OfRequest
<1>2. \A q \in Procs \ {p} : req[q].op # 0 => req[q].op # req[p].op
  BY DEF Apart
<1>3. CASE GetFound(p)
  <2>1. Head(todo[p]) \in Backends /\ Key(p) \in Keys
    BY <1>3, ValueTyped DEF GetFound
  <2>2. /\ UNCHANGED <<store, written, aside>>
        /\ \A f \in fills' : f \in fills \/ f.val = store[Head(todo[p])][Key(p)]
    BY <1>3 DEF GetFound, histVars
  <2>3. \A q \in Procs : Spreads(q)
    BY <2>1, <2>2 DEF Spreads, Carried, Holders
  <2>. QED  BY <1>1, <2>2, <2>3, ContainedStep
<1>4. CASE GetLocal(p) \/ GetRoute(p) \/ GetTryNext(p) \/ GetGiveUp(p)
             \/ CheckVersion(p) \/ RouteWrite(p)
  <2>1. UNCHANGED <<store, fills, written, aside>>
    BY <1>4 DEF GetLocal, GetRoute, GetTryNext, GetGiveUp, CheckVersion, RouteWrite,
                dataVars, histVars
  <2>2. \A q \in Procs : Spreads(q)
    BY <2>1 DEF Spreads, Carried
  <2>. QED  BY <1>1, <2>1, <2>2, ContainedStep
<1>5. CASE SetLocal(p) \/ DeleteLocal(p)
  <2>1. PICK r : LocalCall(p, r)
    BY <1>5, SetLocalCalls
  <2>2. Local \in Backends /\ Key(p) \in Keys /\ Value(p).op = req[p].op /\ req[p].op # 0
    BY <2>1, AbsentVal, ValueTyped DEF LocalCall, Control
  <2>3. \A c \in Backends, j \in Keys :
          store'[c][j] = IF c = Local /\ j = Key(p) THEN r.val ELSE store[c][j]
    BY <2>1, <2>2, TypesWrite DEF LocalCall
  <2>4. written' = written /\ fills' = fills /\ aside \subseteq aside'
    BY <2>1 DEF LocalCall
  <2>5. \/ r.val = Absent \/ r.val = store[Local][Key(p)]
        \/ r.val = Value(p) /\ req[p].op \in aside' /\ req[p].mode = "cache-aside"
    BY <2>1 DEF LocalCall, Writes
  <2>6. ASSUME NEW q \in Procs, req[q].op # 0 PROVE Spreads(q)
    <3>1. r.val.op = req[q].op =>
            \/ store[Local][Key(p)].op = req[q].op
            \/ req[q].op \in aside' /\ req[q].mode = "cache-aside"
      BY <1>2, <2>2, <2>5, <2>6, AbsentVal
    <3>. QED  BY <2>2, <2>3, <2>4, <3>1 DEF Spreads, Carried
  <2>. QED  BY <1>1, <2>4, <2>6, ContainedStep
<1>6. CASE SetBackend(p) \/ DeleteBackend(p)
  <2>1. PICK r : BackendCall(p, r)
    BY <1>6, SetBackendCalls, DeleteBackendCalls
  <2>2. PICK b \in Backends : b = Head(todo[p])
    BY <2>1, ValueTyped DEF BackendCall, Control
  <2>3. Key(p) \in Keys /\ Value(p).op = req[p].op /\ req[p].op # 0
    BY <2>1, ValueTyped DEF BackendCall, Control
  <2>4. \A c \in Backends, j \in Keys :
          store'[c][j] = IF c = b /\ j = Key(p) THEN r.val ELSE store[c][j]
    BY <2>1, <2>2, <2>3, TypesWrite DEF BackendCall
  <2>5. written \subseteq written' /\ aside' = aside
    BY <2>1 DEF BackendCall
  <2>6. \/ r.val = Absent \/ r.val = store[b][Key(p)]
        \/ r.val = Value(p) /\ req[p].op \in written'
    BY <2>1, <2>2 DEF BackendCall, Writes
  <2>7. \A f \in fills' : f \in fills \/ (f.val = Value(p) /\ req[p].op \in written')
    BY <2>1 DEF BackendCall
  <2>8. ASSUME NEW q \in Procs, req[q].op # 0, req[q].op \notin written' PROVE Spreads(q)
    <3>1. r.val.op = req[q].op => store[b][Key(p)].op = req[q].op
      BY <2>3, <2>6, <2>8, AbsentVal
    <3>2. \A f \in fills' : f.val.op = req[q].op => f \in fills
      BY <2>3, <2>7, <2>8
    <3>. QED  BY <2>3, <2>4, <3>1, <3>2 DEF Spreads, Carried
  <2>. QED  BY <1>1, <2>5, <2>8, ContainedStep
<1>. QED  BY <1>3, <1>4, <1>5, <1>6 DEF Request

\* A fill puts into the local cache what it has been carrying.
LEMMA ContainedBeside ==
  ASSUME Types, Contained, Beside
  PROVE  Contained'
<1>1. UNCHANGED <<req, written, aside>>
  BY BesideAlone DEF procVars, histVars
<1>2. CASE Fill
  <2>1. PICK f \in fills : \E r \in SetOutcomes(Local, f.key, f.val) :
          Leave(Local, f.key, r) /\ fills' = fills \ {f}
    BY <1>2 DEF Fill
  <2>2. PICK r \in SetOutcomes(Local, f.key, f.val) :
          Leave(Local, f.key, r) /\ fills' = fills \ {f}
    BY <2>1
  <2>3. f.key \in Keys /\ f.val \in Vals /\ Local \in Backends /\ store[Local][f.key] \in Vals
    BY AbsentVal DEF Types
  <2>4. r.val \in {f.val, Absent, store[Local][f.key]} /\ r.val \in Vals /\ r.ver \in Nat
    BY <2>3, SetHonest, AbsentVal DEF Honest
  <2>5. \A c \in Backends, j \in Keys :
          store'[c][j] = IF c = Local /\ j = f.key THEN r.val ELSE store[c][j]
    BY <2>2, <2>3, <2>4, LeaveOne
  <2>6. ASSUME NEW q \in Procs, req[q].op # 0 PROVE Spreads(q)
    <3>1. r.val.op = req[q].op => store[Local][f.key].op = req[q].op \/ Carried(q)
      BY <2>4, <2>6, AbsentVal DEF Carried
    <3>. QED  BY <2>2, <2>3, <2>5, <3>1 DEF Spreads, Carried
  <2>. QED  BY <1>1, <2>6, ContainedStep
<1>3. CASE InvalidateLocal \/ Expire
  <2>1. \E b \in Backends, k \in Keys : \E r : Leave(b, k, r) /\ r.val \in {Absent, store[b][k]}
                                                /\ r.val \in Vals /\ r.ver \in Nat
    <3>1. CASE InvalidateLocal
      <4>1. PICK k \in Keys : \E r \in DeleteOutcomes(Local, k) : Leave(Local, k, r)
        BY <3>1 DEF InvalidateLocal
      <4>2. PICK r \in DeleteOutcomes(Local, k) : Leave(Local, k, r)
        BY <4>1
      <4>3. Local \in Backends /\ store[Local][k] \in Vals
        BY AbsentVal DEF Types
      <4>4. r.val \in {Absent, store[Local][k]} /\ r.ver \in Nat
        BY <4>3, DeleteHonest
      <4>5. r.val \in Vals
        BY <4>3, <4>4, AbsentVal
      <4>. QED  BY <4>2, <4>3, <4>4, <4>5
    <3>2. CASE Expire
      <4>1. PICK b \in Backends, k \in Keys :
              Leave(b, k, [val |-> Absent, ver |-> IF b = Local THEN version[b][k] ELSE 0])
        BY <3>2 DEF Expire
      <4>2. PICK r : r = [val |-> Absent, ver |-> IF b = Local THEN version[b][k] ELSE 0]
        OBVIOUS
      <4>3. r.val = Absent /\ r.val \in Vals /\ r.ver \in Nat
        BY <4>2, AbsentVal DEF Types
      <4>. QED  BY <4>1, <4>2, <4>3
    <3>. QED  BY <1>3, <3>1, <3>2
  <2>2. PICK b \in Backends, k \in Keys : \E r : Leave(b, k, r) /\ r.val \in {Absent, store[b][k]}
                                                /\ r.val \in Vals /\ r.ver \in Nat
    BY <2>1
  <2>3. \E v \in {Absent, store[b][k]} : \A c \in Backends, j \in Keys :
          store'[c][j] = IF c = b /\ j = k THEN v ELSE store[c][j]
    BY <2>2, LeaveOne
  <2>4. fills' = fills
    BY <1>3 DEF InvalidateLocal, Expire
  <2>5. ASSUME NEW q \in Procs, req[q].op # 0 PROVE Spreads(q)
    BY <2>3, <2>4, <2>5, AbsentVal DEF Spreads, Carried
  <2>. QED  BY <1>1, <2>5, ContainedStep
<1>4. CASE HealthChange
  <2>1. UNCHANGED <<store, fills>>
    BY <1>4 DEF HealthChange, dataVars
  <2>2. \A q \in Procs : Spreads(q)
    BY <2>1 DEF Spreads, Carried
  <2>. QED  BY <1>1, <2>2, ContainedStep
<1>. QED  BY <1>2, <1>3, <1>4 DEF Beside

-----------------------------------------------------------------------------
(* No false miss *)

\* The backends that could serve a Get only become fewer while it runs, and
\* each of them is up and has the key.
LEMMA HeldShrinks ==
  ASSUME Types, Types', Misses, TrackHeld
  PROVE  /\ held' \in [Procs -> SUBSET Backends]
         /\ \A p \in Procs :
              /\ pc[p] = "idle" /\ pc'[p] = "idle" => held'[p] = held[p]
              /\ pc[p] # "idle" => held'[p] \subseteq held[p]
              /\ pc[p] # "idle" => \A b \in held'[p] : healthy'[b] /\ store'[b][req'[p].key] # Absent
BY DEF TrackHeld, Misses

\* What the list of a Get must still name.
StillNamed(p) ==
  pc[p] = "getTry" /\ lastErr[p] = "none" =>
    \A b \in held[p] : \E i \in DOMAIN todo[p] : todo[p][i] = b

\* A process that does not move.
LEMMA MissesOthers ==
  ASSUME Types, Types', Misses, TrackHeld, NEW q \in Procs,
         pc'[q] = pc[q], todo'[q] = todo[q], lastErr'[q] = lastErr[q], result'[q] = result[q],
         Control
  PROVE  /\ result'[q].kind = "get" /\ result'[q].status = "notfound" => held'[q] = {}
         /\ StillNamed(q)'
<1>1. held'[q] \subseteq held[q]
  BY HeldShrinks
<1>. QED  BY <1>1 DEF Misses, NoFalseMiss, StillNamed

\* A request that starts has returned nothing.
LEMMA MissesStart ==
  ASSUME Types, Types', Misses, TrackHeld, Control, NEW p \in Procs, NEW request, NEW label,
         Begins(p, request, label)
  PROVE  Misses'
<1>1. /\ result'[p].kind = "none" /\ pc'[p] # "getTry"
      /\ \A q \in Procs \ {p} : pc'[q] = pc[q] /\ todo'[q] = todo[q]
                                /\ lastErr'[q] = lastErr[q] /\ result'[q] = result[q]
  BY DEF Begins, Start, Goto, Types, NoResult
<1>2. held' \in [Procs -> SUBSET Backends]
  BY HeldShrinks
<1>. QED  BY <1>1, <1>2, MissesOthers DEF Misses, NoFalseMiss, StillNamed

\* The reads of the list and of its backends, one after the other.
LEMMA MissesRequest ==
  ASSUME Types, Types', Misses, TrackHeld, Control, Control', NEW p \in Procs, Request(p)
  PROVE  Misses'
<1>. USE DEF Goto, Return, Fail, Serve, dataVars, routerVars
<1>1. OfRequest(p) /\ UNCHANGED <<registered, healthy, req>>
  BY RequestAlone DEF OfRequest
<1>2. held' \in [Procs -> SUBSET Backends]
  BY HeldShrinks
<1>3. ASSUME NEW q \in Procs \ {p}
      PROVE  /\ result'[q].kind = "get" /\ result'[q].status = "notfound" => held'[q] = {}
             /\ StillNamed(q)'
  BY <1>1, MissesOthers DEF OfRequest
<1>4. pc[p] # "idle" /\ result[p] = NoResult
  <2>1. pc[p] # "idle"
    BY DEF Request, GetLocal, GetRoute, GetFound, GetTryNext, GetGiveUp, CheckVersion,
           SetLocal, DeleteLocal, RouteWrite, SetBackend, DeleteBackend
  <2>. QED  BY <2>1 DEF Control
<1>5. /\ held'[p] \subseteq held[p]
      /\ \A b \in held'[p] : b \in Backends /\ healthy'[b] /\ store'[b][req'[p].key] # Absent
  BY <1>2, <1>4, HeldShrinks
<1>6. /\ result'[p].kind = "get" /\ result'[p].status = "notfound" => held'[p] = {}
      /\ StillNamed(p)'
  <2>1. CASE GetLocal(p)
    BY <1>4, <2>1 DEF GetLocal, Types, StillNamed, NoResult
  <2>2. CASE GetRoute(p)
    <3>1. PICK s \in GetBackendsForRead(Key(p), NoHint) :
            /\ todo' = [todo EXCEPT ![p] = s]
            /\ IF s = <<>> THEN Fail(p, "unhealthy") ELSE Goto(p, "getTry") /\ UNCHANGED result
      BY <2>2 DEF GetRoute
    <3>2. todo'[p] = s /\ \A b \in Backends : healthy[b] => \E i \in DOMAIN s : s[i] = b
      BY <3>1, ReadList DEF Types, UpSet
    <3>3. StillNamed(p)'
      BY <1>1, <1>5, <3>2 DEF StillNamed
    <3>4. result'[p].kind # "get" \/ result'[p].status # "notfound"
      BY <1>4, <3>1 DEF Types, NoResult
    <3>. QED  BY <3>3, <3>4
  <2>3. CASE GetFound(p)
    BY <1>4, <2>3 DEF GetFound, Types, StillNamed, NoResult
  <2>4. CASE GetTryNext(p)
    <3>1. PICK answer \in GetOutcomes(Head(todo[p]), Key(p)) \ {"found"} :
            lastErr' = [lastErr EXCEPT ![p] = IF answer = "missing" THEN @ ELSE answer]
      BY <2>4 DEF GetTryNext
    <3>2. PICK b \in Backends : b = Head(todo[p])
      BY <2>4, ValueTyped DEF GetTryNext
    <3>3. CASE answer = "missing"
      <4>1. ~Has(b, Key(p)) /\ b \notin held'[p]
        <5>1. ~Has(b, Key(p))
          BY <3>1, <3>2, <3>3 DEF GetOutcomes
        <5>2. store' = store /\ req' = req
          BY <2>4 DEF GetTryNext
        <5>. QED  BY <1>5, <5>1, <5>2 DEF Has, Key
      <4>2. lastErr'[p] = lastErr[p] /\ pc'[p] = pc[p] /\ todo'[p] = Tail(todo[p]) /\ result' = result
        BY <2>4, <3>1, <3>3 DEF GetTryNext, Types
      <4>3. ASSUME NEW c \in held'[p], pc[p] = "getTry", lastErr[p] = "none"
            PROVE  \E i \in DOMAIN Tail(todo[p]) : Tail(todo[p])[i] = c
        <5>1. PICK i \in DOMAIN todo[p] : todo[p][i] = c
          BY <1>5, <4>3 DEF Misses
        <5>2. todo[p] \in Seq(Backends) /\ i # 1
          BY <3>2, <4>1, <5>1 DEF Types
        <5>3. i - 1 \in DOMAIN Tail(todo[p]) /\ Tail(todo[p])[i - 1] = todo[p][i]
          BY <5>1, <5>2
        <5>. QED  BY <5>1, <5>3
      <4>. QED  BY <1>4, <4>2, <4>3 DEF StillNamed, NoResult
    <3>4. CASE answer # "missing"
      <4>1. lastErr'[p] # "none" /\ result' = result
        BY <2>4, <3>1, <3>4 DEF GetTryNext, GetOutcomes, Types
      <4>. QED  BY <1>4, <4>1 DEF StillNamed, NoResult
    <3>. QED  BY <3>3, <3>4
  <2>5. CASE GetGiveUp(p)
    <3>1. CASE lastErr[p] = "none"
      <4>1. held[p] = {}
        BY <2>5, <3>1 DEF GetGiveUp, Misses
      <4>. QED  BY <1>5, <2>5, <4>1 DEF GetGiveUp, StillNamed, Types
    <3>2. CASE lastErr[p] # "none"
      BY <2>5, <3>2 DEF GetGiveUp, StillNamed, Types, Errors
    <3>. QED  BY <3>1, <3>2
  <2>6. CASE CheckVersion(p) \/ SetLocal(p) \/ DeleteLocal(p) \/ RouteWrite(p)
               \/ SetBackend(p) \/ DeleteBackend(p)
    <3>1. req[p].kind \in {"set", "delete"}
      BY <2>6 DEF CheckVersion, SetLocal, DeleteLocal, RouteWrite, SetBackend, DeleteBackend,
                  Control, Fits
    <3>2. pc'[p] # "getTry"
      BY <1>1, <3>1 DEF Control, Fits
    <3>3. result'[p] = NoResult \/ result'[p].kind = req[p].kind
      BY <1>4, <2>6 DEF CheckVersion, SetLocal, DeleteLocal, RouteWrite, SetBackend, DeleteBackend,
                        Types
    <3>. QED  BY <3>1, <3>2, <3>3 DEF StillNamed, NoResult
  <2>. QED  BY <2>1, <2>2, <2>3, <2>4, <2>5, <2>6 DEF Request
<1>. QED  BY <1>2, <1>3, <1>6 DEF Misses, NoFalseMiss, StillNamed

\* Steps beside the requests only take backends out of the account.
LEMMA MissesBeside ==
  ASSUME Types, Types', Misses, TrackHeld, Control, Beside
  PROVE  Misses'
<1>1. UNCHANGED <<pc, todo, lastErr, result>>
  BY BesideAlone DEF procVars
<1>2. held' \in [Procs -> SUBSET Backends]
  BY HeldShrinks
<1>. QED  BY <1>1, <1>2, MissesOthers DEF Misses, NoFalseMiss, StillNamed

-----------------------------------------------------------------------------
(* The theorems *)

\* SetRules keeps the rules it is given, in descending order of priority.
LEMMA ByPriorityOf ==
  ASSUME NEW rs \in Seq(Rule), NEW s \in ByPriority(rs)
  PROVE  /\ s \in Seq(Rule)
         /\ \A i, j \in DOMAIN s : i < j => s[i].priority >= s[j].priority
<1>1. DOMAIN rs = 1 .. Len(rs) /\ Len(rs) \in Nat
  OBVIOUS
<1>2. Cardinality(DOMAIN rs) = Len(rs)
  BY <1>1, FS_Interval
<1>3. PICK p \in Orderings(DOMAIN rs) :
        /\ s = [i \in DOMAIN rs |-> rs[p[i]]]
        /\ \A i, j \in DOMAIN rs : i < j => rs[p[i]].priority >= rs[p[j]].priority
  BY DEF ByPriority
<1>4. p \in [1 .. Len(rs) -> 1 .. Len(rs)]
  BY <1>1, <1>2, <1>3 DEF Orderings
<1>5. \A i \in 1 .. Len(rs) : s[i] = rs[p[i]] /\ s[i] \in Rule
  BY <1>1, <1>3, <1>4
<1>6. DOMAIN s = 1 .. Len(rs) /\ s = [i \in 1 .. Len(rs) |-> s[i]]
  BY <1>1, <1>3
<1>. QED  BY <1>1, <1>3, <1>5, <1>6

\* A fresh service: no request, no entry, all backends up.
LEMMA InitCInv == Init => CInv
<1>. SUFFICES ASSUME Init PROVE CInv
  OBVIOUS
<1>1. MaxOps \in Nat /\ 0 \in OpIds /\ 0 \in 0 .. 0
  BY CacheAssumption DEF OpIds
<1>2. Types
  <2>1. rules \in Seq(Rule)
    BY CacheAssumption, ByPriorityOf DEF Init
  <2>2. <<>> \in Seq(Backends)
    OBVIOUS
  <2>. QED  BY <1>1, <2>1, <2>2, AbsentVal DEF Init, Types, RouterTypeOK, Labels
<1>3. Control /\ Apart
  BY <1>1 DEF Init, Control, Apart, NoRequest, Sound, Fits
<1>4. Clean /\ Small /\ Outcomes
  BY AbsentVal DEF Init, Clean, Small, Outcomes, BigStaysOut, Visible, NoResult
<1>5. Contained
  BY DEF Init, Contained, NoRequest
<1>6. Misses
  BY DEF Init, Misses, NoFalseMiss, NoResult
<1>. QED  BY <1>2, <1>3, <1>4, <1>5, <1>6 DEF CInv

\* Every step keeps the invariant: a start, a step of a request, or one beside.
LEMMA StepCInv == CInv /\ [Next]_cacheVars => CInv'
<1>. SUFFICES ASSUME CInv, [Next]_cacheVars PROVE CInv'
  OBVIOUS
<1>0. Types /\ Control /\ Apart /\ Clean /\ Small /\ Outcomes /\ Contained /\ Misses
  BY DEF CInv
<1>1. ASSUME NEW p \in Procs, StartGet(p) \/ StartSet(p) \/ StartDelete(p), TrackHeld
      PROVE  CInv'
  <2>1. PICK request, label : Begins(p, request, label)
    BY <1>1, StartBegins
  <2>2. Types' /\ Control' /\ Apart'
    BY <1>0, <2>1, TypesStart, ControlStart
  <2>3. Clean' /\ Small' /\ Outcomes'
    BY <1>0, <2>1, DataStart
  <2>4. Contained'
    BY <1>0, <2>1, ContainedStart
  <2>5. Misses'
    BY <1>0, <1>1, <2>1, <2>2, MissesStart
  <2>. QED  BY <2>2, <2>3, <2>4, <2>5 DEF CInv
<1>2. ASSUME NEW p \in Procs, Request(p), TrackHeld
      PROVE  CInv'
  <2>1. Types'
    BY <1>0, <1>2, TypesGet, TypesSet DEF Request
  <2>2. Control' /\ Apart'
    BY <1>0, <1>2, ControlRequest
  <2>3. Clean' /\ Small' /\ Outcomes'
    BY <1>0, <1>2, DataGet, DataAsk, DataLocal, DataBackend DEF Request
  <2>4. Contained'
    BY <1>0, <1>2, ContainedRequest
  <2>5. Misses'
    BY <1>0, <1>2, <2>1, <2>2, MissesRequest
  <2>. QED  BY <2>1, <2>2, <2>3, <2>4, <2>5 DEF CInv
<1>3. ASSUME Beside, TrackHeld PROVE CInv'
  <2>1. Types'
    BY <1>0, <1>3, TypesBeside
  <2>2. Control' /\ Apart'
    BY <1>0, <1>3, BesideAlone DEF procVars, histVars, Control, Apart
  <2>3. Clean' /\ Small' /\ Outcomes'
    BY <1>0, <1>3, DataBeside
  <2>4. Contained'
    BY <1>0, <1>3, ContainedBeside
  <2>5. Misses'
    BY <1>0, <1>3, <2>1, MissesBeside
  <2>. QED  BY <2>1, <2>2, <2>3, <2>4, <2>5 DEF CInv
<1>4. CASE UNCHANGED cacheVars
  <2>. USE <1>0, <1>4 DEF cacheVars, routerVars, dataVars, procVars, histVars
  <2>1. Types'
    BY DEF Types, RouterTypeOK
  <2>2. Control' /\ Apart'
    BY DEF Control, Apart
  <2>3. Clean' /\ Small' /\ Outcomes'
    BY DEF Clean, Small, BigStaysOut, Outcomes, Visible
  <2>4. Contained'
    BY DEF Contained, Holders, Carried
  <2>5. Misses'
    BY DEF Misses, NoFalseMiss
  <2>. QED  BY <2>1, <2>2, <2>3, <2>4, <2>5 DEF CInv
<1>. QED  BY <1>1, <1>2, <1>3, <1>4 DEF Next, Beside

\* The inductive invariant of Get, Set and Delete of the cache service.
THEOREM CacheInvariant == Spec => []CInv
  BY InitCInv, StepCInv, PTL DEF Spec

\* With at least one key, the variables keep their types.
THEOREM CacheTypes ==
  ASSUME Keys # {}
  PROVE  Spec => []TypeOK
<1>. DEFINE KeysOK == \A p \in Procs : req[p].key \in Keys
<1>1. Init => KeysOK
  BY DEF Init, NoRequest
<1>2. CInv /\ KeysOK /\ [Next]_cacheVars => KeysOK'
  <2>. SUFFICES ASSUME CInv, KeysOK, [Next]_cacheVars PROVE KeysOK'
    OBVIOUS
  <2>1. Types
    BY DEF CInv
  <2>2. ASSUME NEW p \in Procs, StartGet(p) \/ StartSet(p) \/ StartDelete(p) PROVE KeysOK'
    <3>1. PICK request, label : Begins(p, request, label)
      BY <2>2, StartBegins
    <3>. QED  BY <2>1, <3>1 DEF Begins, Start, Types
  <2>3. ASSUME NEW p \in Procs, Request(p) PROVE KeysOK'
    BY <2>1, <2>3, RequestAlone DEF OfRequest
  <2>4. CASE Beside
    BY <2>1, <2>4, BesideAlone DEF procVars
  <2>5. CASE UNCHANGED cacheVars
    BY <2>5 DEF cacheVars, procVars
  <2>. QED  BY <2>2, <2>3, <2>4, <2>5 DEF Next, Beside
<1>3. CInv /\ KeysOK => TypeOK
  <2>. SUFFICES ASSUME CInv, KeysOK PROVE TypeOK
    OBVIOUS
  <2>1. 0 .. ops \subseteq OpIds
    BY CacheAssumption DEF CInv, Types, OpIds
  <2>. QED  BY <2>1 DEF CInv, Types, Control, Misses, TypeOK
<1>. HIDE DEF KeysOK
<1>. QED  BY CacheInvariant, <1>1, <1>2, <1>3, PTL DEF Spec

\* What the local cache, a fill or the answer to a Get holds was stored by a
\* backend, or put into the local cache by setCacheAside
\* (CacheService!NoDirtyRead; cache.go Get, setWriteThrough).
THEOREM CacheNoDirtyRead == Spec => []NoDirtyRead
<1>1. CInv => NoDirtyRead
  BY AbsentVal DEF CInv, Clean, Visible, NoDirtyRead
<1>. QED  BY <1>1, CacheInvariant, PTL

\* "Not found" is never said of a key that a healthy backend held all the while
\* (CacheService!NoFalseMiss; cache.go Get, router.go GetBackendsForRead).
THEOREM CacheNoFalseMiss == Spec => []NoFalseMiss
<1>1. CInv => NoFalseMiss
  BY DEF CInv, Misses
<1>. QED  BY <1>1, CacheInvariant, PTL

\* A large value is in the local cache only where the router named it as the
\* backend (CacheService!BigStaysOut; cache.go Set, Get).
THEOREM CacheBigStaysOut == Spec => []BigStaysOut
<1>1. CInv => BigStaysOut
  BY DEF CInv, Small
<1>. QED  BY <1>1, CacheInvariant, PTL

\* The value of a Set that is answered 503 is in no backend, but for the local cache
\* after a cache-aside Set; of a Set that is answered 409 in none at all; and the
\* backend the router named is as it was (Handler!RefusedStaysLocal; handler.go Set,
\* Delete, cache.go Set, setCacheAside, Delete).
THEOREM HandlerRefusedStaysLocal == Spec => []RefusedStaysLocal
<1>1. CInv => RefusedStaysLocal
  <2>. SUFFICES ASSUME CInv, NEW p \in Procs
                PROVE  /\ Answered(p, {"set", "delete"}, StatusServiceUnavailable) =>
                            /\ req[p].op \notin written
                            /\ Holders(p) \subseteq IF req[p].mode = "cache-aside" THEN {Local} ELSE {}
                       /\ Answered(p, {"set"}, StatusConflict) =>
                            req[p].op \notin written /\ Holders(p) = {}
    BY DEF RefusedStaysLocal
  <2>. USE DEF Answered, Code, StatusOK, StatusNotFound, StatusConflict,
               StatusInternalServerError, StatusServiceUnavailable
  <2>1. ASSUME Answered(p, {"set", "delete"}, StatusServiceUnavailable)
        PROVE  /\ req[p].op \notin written
               /\ Holders(p) \subseteq IF req[p].mode = "cache-aside" THEN {Local} ELSE {}
    <3>1. result[p].status = "unhealthy" /\ result[p].kind \in {"set", "delete"}
      BY <2>1
    <3>. QED  BY <3>1 DEF CInv, Outcomes, Contained
  <2>2. ASSUME Answered(p, {"set"}, StatusConflict)
        PROVE  req[p].op \notin written /\ Holders(p) = {}
    <3>1. result[p].status = "mismatch" /\ result[p].kind = "set"
      BY <2>2
    <3>. QED  BY <3>1 DEF CInv, Outcomes, Contained
  <2>. QED  BY <2>1, <2>2
<1>. QED  BY <1>1, CacheInvariant, PTL

-----------------------------------------------------------------------------
(* The router's two lookups *)

\* The backend a hint or a rule decides on comes before every other that is up.
LEMMA DecidedComesFirst ==
  ASSUME RouterTypeOK, NEW k \in Keys, NEW h \in AllHints, HintHits(h) \cup RuleHits(k) # {}
  PROVE  \E b \in UpSet :
           /\ GetBackend(k, h) = {b}
           /\ Rank(k, h, b) \in Nat
           /\ \A c \in UpSet \ {b} : Rank(k, h, c) \in Nat /\ Rank(k, h, b) < Rank(k, h, c)
<1>. DEFINE hintAt(c) == {i \in HintHits(h) : Route(h)[i] = c}
            ruleAt(c) == {i \in RuleHits(k) : rules[i].backend = c}
            H == Len(Route(h))
            N == Len(rules)
<1>1. rules \in Seq(Rule) /\ Route(h) \in Seq(Backends)
  BY DEF RouterTypeOK, Route, AllHints
<1>2. H \in Nat /\ N \in Nat /\ HintHits(h) \subseteq 1 .. H /\ RuleHits(k) \subseteq 1 .. N
  BY <1>1 DEF HintHits, RuleHits
<1>3. \A c : hintAt(c) \in SUBSET Nat /\ ruleAt(c) \in SUBSET Nat
  BY <1>2
<1>4. ASSUME NEW c
      PROVE  Rank(k, h, c) = IF hintAt(c) # {} THEN FirstOf(hintAt(c))
                             ELSE IF ruleAt(c) # {} THEN H + FirstOf(ruleAt(c))
                             ELSE H + N + 1
  BY DEF Rank
<1>5. ASSUME NEW c
      PROVE  /\ hintAt(c) # {} => FirstOf(hintAt(c)) \in hintAt(c)
             /\ ruleAt(c) # {} => FirstOf(ruleAt(c)) \in ruleAt(c)
  BY <1>3, FirstOfIn
<1>. HIDE DEF H, N
<1>6. CASE HintHits(h) # {}
  <2>1. PICK m \in HintHits(h) : m = FirstOf(HintHits(h)) /\ \A j \in HintHits(h) : m <= j
    <3>1. HintHits(h) \in SUBSET Nat
      BY <1>2
    <3>. QED  BY <1>6, <3>1, FirstOfIn
  <2>2. PICK b \in UpSet : b = Route(h)[m]
    BY <2>1 DEF HintHits, Up, UpSet
  <2>3. GetBackend(k, h) = {b}
    BY <1>6, <2>1, <2>2 DEF GetBackend
  <2>4. Rank(k, h, b) = m /\ m \in 1 .. H
    <3>1. m \in hintAt(b)
      BY <2>1, <2>2
    <3>2. FirstOf(hintAt(b)) <= m /\ m <= FirstOf(hintAt(b)) /\ FirstOf(hintAt(b)) \in Nat /\ m \in Nat
      BY <1>2, <1>3, <1>5, <2>1, <3>1, FirstOfIn
    <3>. HIDE DEF hintAt, ruleAt
    <3>3. FirstOf(hintAt(b)) = m
      BY <3>2
    <3>. QED  BY <1>2, <1>4, <3>1, <3>3
  <2>5. ASSUME NEW c \in UpSet \ {b}
        PROVE  Rank(k, h, c) \in Nat /\ m < Rank(k, h, c)
    <3>1. CASE hintAt(c) # {}
      <4>1. FirstOf(hintAt(c)) \in HintHits(h) /\ Route(h)[FirstOf(hintAt(c))] = c
        BY <1>5, <3>1
      <4>2. FirstOf(hintAt(c)) \in Nat /\ m <= FirstOf(hintAt(c)) /\ FirstOf(hintAt(c)) # m
        BY <1>2, <2>1, <2>2, <4>1
      <4>. HIDE DEF hintAt, ruleAt
      <4>. QED  BY <1>4, <2>4, <3>1, <4>2
    <3>2. CASE hintAt(c) = {}
      <4>1. ruleAt(c) # {} => FirstOf(ruleAt(c)) \in 1 .. N
        BY <1>2, <1>5
      <4>. HIDE DEF hintAt, ruleAt
      <4>. QED  BY <1>2, <1>4, <2>4, <3>2, <4>1
    <3>. QED  BY <3>1, <3>2
  <2>. QED  BY <2>3, <2>4, <2>5
<1>7. CASE HintHits(h) = {}
  <2>0. \A c : hintAt(c) = {}
    BY <1>7
  <2>1. PICK m \in RuleHits(k) : m = FirstOf(RuleHits(k)) /\ \A j \in RuleHits(k) : m <= j
    <3>1. RuleHits(k) \in SUBSET Nat /\ RuleHits(k) # {}
      BY <1>2, <1>7
    <3>. QED  BY <3>1, FirstOfIn
  <2>2. PICK b \in UpSet : b = rules[m].backend
    BY <2>1 DEF RuleHits, Up, UpSet
  <2>3. GetBackend(k, h) = {b}
    BY <1>7, <2>1, <2>2 DEF GetBackend
  <2>4. Rank(k, h, b) = H + m /\ m \in 1 .. N
    <3>1. m \in ruleAt(b)
      BY <2>1, <2>2
    <3>2. FirstOf(ruleAt(b)) <= m /\ m <= FirstOf(ruleAt(b)) /\ FirstOf(ruleAt(b)) \in Nat /\ m \in Nat
      BY <1>2, <1>3, <1>5, <2>1, <3>1, FirstOfIn
    <3>. HIDE DEF hintAt, ruleAt
    <3>3. FirstOf(ruleAt(b)) = m
      BY <3>2
    <3>. QED  BY <1>2, <1>4, <2>0, <3>1, <3>3
  <2>5. ASSUME NEW c \in UpSet \ {b}
        PROVE  Rank(k, h, c) \in Nat /\ H + m < Rank(k, h, c)
    <3>1. CASE ruleAt(c) # {}
      <4>1. FirstOf(ruleAt(c)) \in RuleHits(k) /\ rules[FirstOf(ruleAt(c))].backend = c
        BY <1>5, <3>1
      <4>2. FirstOf(ruleAt(c)) \in Nat /\ m <= FirstOf(ruleAt(c)) /\ FirstOf(ruleAt(c)) # m
        BY <1>2, <2>1, <2>2, <4>1
      <4>. HIDE DEF hintAt, ruleAt
      <4>. QED  BY <1>2, <1>4, <2>0, <2>4, <3>1, <4>2
    <3>2. CASE ruleAt(c) = {}
      <4>. HIDE DEF hintAt, ruleAt
      <4>. QED  BY <1>2, <1>4, <2>0, <2>4, <3>2
    <3>. QED  BY <3>1, <3>2
  <2>6. H + m \in Nat
    BY <1>2, <2>4
  <2>. QED  BY <2>3, <2>4, <2>5, <2>6
<1>. QED  BY <1>6, <1>7

\* Where a hint or a rule decides, the read list begins with the target of a write.
LEMMA DecidesAlike == RouterTypeOK => ReadsWhereItWrites
<1>. SUFFICES ASSUME RouterTypeOK, NEW k \in Keys, NEW h \in AllHints,
                     HintHits(h) \cup RuleHits(k) # {},
                     NEW s \in GetBackendsForRead(k, h)
              PROVE  GetBackend(k, h) = {s[1]}
  BY DEF ReadsWhereItWrites
<1>1. PICK b \in UpSet :
        /\ GetBackend(k, h) = {b}
        /\ Rank(k, h, b) \in Nat
        /\ \A c \in UpSet \ {b} : Rank(k, h, c) \in Nat /\ Rank(k, h, b) < Rank(k, h, c)
  BY DecidedComesFirst
<1>2. PICK i \in DOMAIN s : s[i] = b
  BY ReadList
<1>3. 1 \in DOMAIN s /\ s[1] \in UpSet /\ i \in Nat /\ i # 0
  BY <1>1, ReadList
<1>4. 1 < i => Rank(k, h, s[1]) <= Rank(k, h, b)
  BY <1>2, <1>3 DEF GetBackendsForRead
<1>5. s[1] = b
  <2>1. CASE i = 1
    BY <1>2, <2>1
  <2>2. CASE 1 < i
    <3>1. Rank(k, h, s[1]) <= Rank(k, h, b)
      BY <1>4, <2>2
    <3>2. ASSUME s[1] # b PROVE FALSE
      <4>1. Rank(k, h, s[1]) \in Nat /\ Rank(k, h, b) < Rank(k, h, s[1]) /\ Rank(k, h, b) \in Nat
        BY <1>1, <1>3, <3>2
      <4>. QED  BY <3>1, <4>1
    <3>. QED  BY <3>2
  <2>. QED  BY <1>3, <2>1, <2>2
<1>. QED  BY <1>1, <1>5

-----------------------------------------------------------------------------
(* The lookups step by step *)

\* How many backends the hint route of the call names.
Hinted == Len(Route(call.hint))

\* Where the lookup is in the hint route followed by the rules.
Reached ==
  IF loop = "hint" THEN place
  ELSE IF loop = "rule" THEN Hinted + place
  ELSE Hinted + Len(rules) + 1

\* What is returned was up during the lookup; idle, nothing is kept.
LookupTypes ==
  /\ RouterTypeOK
  /\ loop \in {"idle", "hint", "rule", "rest", "done"}
  /\ call.read \in BOOLEAN
  /\ loop # "idle" => call.key \in Keys /\ call.hint \in AllHints
  /\ loop = "hint" => place \in 1 .. Hinted + 1
  /\ loop = "rule" => place \in 1 .. Len(rules) + 1
  /\ left \subseteq registered /\ found \in Seq(everUp)
  /\ alwaysUp \subseteq UpSet /\ everUp \subseteq registered
  /\ loop = "idle" => /\ place = 1 /\ left = {} /\ found = <<>> /\ ~call.read
                      /\ alwaysUp = {} /\ everUp = {}
  /\ loop # "idle" => UpSet \subseteq everUp

\* The rules are in descending order of priority.
Sorted ==
  \A i, j \in DOMAIN rules : i < j => rules[i].priority >= rules[j].priority

\* A lookup for a write stops at the first backend that is up.
Once ==
  /\ NoBackendTwice
  /\ ~call.read /\ loop \in {"hint", "rule"} => found = <<>>

\* A lookup for a write has passed no place of a backend that was up all along.
Leads ==
  ~call.read /\ loop \in {"hint", "rule", "rest"} =>
    \A b \in alwaysUp : \A i \in Places(b) : Reached <= i

\* The range over the map has taken those it visited and found up.
Visited ==
  loop = "rest" =>
    \A b \in alwaysUp \ left : found # <<>> /\ (call.read => Seen(b))

\* The fallback keeps the heaviest so far.
KeepsHeaviest ==
  loop = "rest" /\ ~call.read /\ Steady /\ found # <<>> =>
    \A c \in UpSet \ left : Weight[c] <= Weight[found[1]]

\* The place of b in the read list the operators of Router give.
RankOf(b) == Rank(call.key, call.hint, b)

\* The read list so far is in that order, and has every backend whose place is
\* behind the lookup.
Ranked ==
  call.read /\ Steady /\ loop # "idle" =>
    /\ \A b \in UpSet : Seen(b) \/ Reached <= RankOf(b)
    /\ \A i \in DOMAIN found : \A b : found[i] = b => RankOf(b) <= Reached
    /\ \A i, j \in DOMAIN found : \A b, c :
         i < j /\ found[i] = b /\ found[j] = c => RankOf(b) <= RankOf(c)

\* A hit of the hint route is a place of its backend, and so is one of a rule.
LEMMA HitsArePlaces ==
  ASSUME LookupTypes, loop # "idle"
  PROVE  /\ Hinted \in Nat /\ Len(rules) \in Nat /\ DOMAIN rules = 1 .. Len(rules)
         /\ DOMAIN Route(call.hint) = 1 .. Hinted
         /\ \A i \in DOMAIN Route(call.hint) : Route(call.hint)[i] \in Backends
         /\ \A i \in DOMAIN rules : rules[i] \in Rule
         /\ \A i \in HintHits(call.hint) :
              i \in 1 .. Hinted /\ Route(call.hint)[i] \in UpSet /\ i \in Places(Route(call.hint)[i])
         /\ \A i \in RuleHits(call.key) :
              /\ i \in 1 .. Len(rules) /\ rules[i].backend \in UpSet
              /\ Hinted + i \in Places(rules[i].backend)
         /\ \A b : \A i \in Places(b) : i \in Nat /\ i \in 1 .. Hinted + Len(rules)
<1>1. Route(call.hint) \in Seq(Backends)
  <2>1. <<>> \in Seq(Backends)
    OBVIOUS
  <2>. QED  BY <2>1 DEF LookupTypes, RouterTypeOK, Route, AllHints
<1>2. rules \in Seq(Rule)
  BY DEF LookupTypes, RouterTypeOK
<1>3. /\ Hinted \in Nat /\ Len(rules) \in Nat /\ DOMAIN rules = 1 .. Len(rules)
      /\ DOMAIN Route(call.hint) = 1 .. Hinted
      /\ \A i \in DOMAIN Route(call.hint) : Route(call.hint)[i] \in Backends
      /\ \A i \in DOMAIN rules : rules[i] \in Rule
  BY <1>1, <1>2 DEF Hinted
<1>4. \A i \in HintHits(call.hint) :
        i \in 1 .. Hinted /\ Route(call.hint)[i] \in UpSet /\ i \in Places(Route(call.hint)[i])
  BY <1>3 DEF HintHits, Up, UpSet, Places
<1>5. \A i \in RuleHits(call.key) :
        /\ i \in 1 .. Len(rules) /\ rules[i].backend \in UpSet
        /\ Hinted + i \in Places(rules[i].backend)
  BY <1>3 DEF RuleHits, Up, UpSet, Places, Decides, Hinted
<1>6. \A b : \A i \in Places(b) : i \in Nat /\ i \in 1 .. Hinted + Len(rules)
  <2>. SUFFICES ASSUME NEW b, NEW i \in Places(b)
                PROVE  i \in Nat /\ i \in 1 .. Hinted + Len(rules)
    OBVIOUS
  <2>1. i \in 1 .. Hinted \/ \E j \in 1 .. Len(rules) : i = Hinted + j
    BY <1>3 DEF Places, Hinted
  <2>. QED  BY <1>3, <2>1
<1>. QED  BY <1>3, <1>4, <1>5, <1>6

\* What the operators of Router say depends on the table and on who is up.
LEMMA SameTable ==
  ASSUME rules' = rules, hintRoutes' = hintRoutes, call' = call
  PROVE  /\ Hinted' = Hinted /\ Route(call.hint)' = Route(call.hint)
         /\ \A b : Places(b)' = Places(b) /\ FirstPlace(b)' = FirstPlace(b)
         /\ UpSet' = UpSet =>
              /\ \A b : RankOf(b)' = RankOf(b)
              /\ GetBackend(call.key, call.hint)' = GetBackend(call.key, call.hint)
<1>1. Hinted' = Hinted /\ Route(call.hint)' = Route(call.hint)
  BY DEF Hinted, Route
<1>2. \A b : Places(b)' = Places(b)
  BY DEF Places, Route, Decides
<1>3. \A b : FirstPlace(b)' = FirstPlace(b)
  BY <1>2 DEF FirstPlace, Route
<1>4. ASSUME UpSet' = UpSet
      PROVE  /\ \A b : RankOf(b)' = RankOf(b)
             /\ GetBackend(call.key, call.hint)' = GetBackend(call.key, call.hint)
  <2>1. HintHits(call.hint) = {i \in DOMAIN Route(call.hint) : Route(call.hint)[i] \in UpSet}
    BY DEF HintHits, Up, UpSet
  <2>2. HintHits(call.hint)' = {i \in DOMAIN Route(call.hint)' : Route(call.hint)'[i] \in UpSet'}
    BY DEF HintHits, Up, UpSet
  <2>3. RuleHits(call.key) =
          {i \in DOMAIN rules : call.key \in rules[i].keys /\ rules[i].strategy # "blacklist"
                                /\ rules[i].backend \in UpSet}
    BY DEF RuleHits, Up, UpSet
  <2>4. RuleHits(call.key)' =
          {i \in DOMAIN rules' : call'.key \in rules'[i].keys /\ rules'[i].strategy # "blacklist"
                                 /\ rules'[i].backend \in UpSet'}
    BY DEF RuleHits, Up, UpSet
  <2>5. HintHits(call.hint)' = HintHits(call.hint) /\ RuleHits(call.key)' = RuleHits(call.key)
    BY <1>1, <1>4, <2>1, <2>2, <2>3, <2>4
  <2>6. \A b : RankOf(b)' = RankOf(b)
    BY <1>1, <2>5 DEF RankOf, Rank
  <2>7. GetBackend(call.key, call.hint)' = GetBackend(call.key, call.hint)
    BY <1>1, <1>4, <2>5 DEF GetBackend, Fallback
  <2>. QED  BY <2>6, <2>7
<1>. QED  BY <1>1, <1>2, <1>3, <1>4

\* What the loops take is up, and so was up during the lookup.
LEMMA OfferTypes ==
  ASSUME LookupTypes, loop # "idle", NEW b, Offer(b), everUp' = everUp
  PROVE  found' \in Seq(everUp')
<1>1. Up(b) => b \in everUp
  BY DEF LookupTypes, Up, UpSet
<1>. QED  BY <1>1 DEF LookupTypes, Offer, Take

\* The steps of a lookup.
LEMMA StepTypes ==
  ASSUME LookupTypes, Sorted,
         TryHint \/ EndOfHints \/ TryRule \/ EndOfRules \/ VisitRest \/ EndOfRest
  PROVE  /\ LookupTypes' /\ Sorted' /\ loop # "idle"
         /\ UNCHANGED <<registered, healthy, rules, hintRoutes, call, alwaysUp, everUp>>
         /\ UpSet' = UpSet
<1>1. loop # "idle" /\ UNCHANGED routerVars /\ UNCHANGED <<call, alwaysUp, everUp>> /\ call' = call
  BY DEF TryHint, EndOfHints, TryRule, EndOfRules, VisitRest, EndOfRest, progress, Offer
<1>2. Hinted' = Hinted /\ Route(call.hint)' = Route(call.hint) /\ UpSet' = UpSet
  BY <1>1, SameTable DEF routerVars, UpSet
<1>3. RouterTypeOK' /\ Sorted'
  BY <1>1 DEF LookupTypes, RouterTypeOK, Sorted, routerVars
<1>4. Hinted \in Nat /\ Len(rules) \in Nat /\ DOMAIN rules = 1 .. Len(rules)
      /\ DOMAIN Route(call.hint) = 1 .. Hinted /\ rules' = rules
  BY <1>1, HitsArePlaces DEF routerVars
<1>5. found' \in Seq(everUp')
  <2>1. CASE TryHint
    BY <1>1, <2>1, OfferTypes DEF TryHint
  <2>2. CASE TryRule
    <3>1. CASE Decides(rules[place])
      BY <1>1, <2>2, <3>1, OfferTypes DEF TryRule
    <3>2. CASE ~Decides(rules[place])
      BY <1>1, <2>2, <3>2 DEF TryRule, LookupTypes
    <3>. QED  BY <3>1, <3>2
  <2>3. CASE VisitRest
    <3>1. PICK b \in left : IF ~healthy[b] THEN UNCHANGED found
                            ELSE IF call.read THEN Take(b)
                            ELSE found' = IF Heavier(b) THEN <<b>> ELSE found
      BY <2>3 DEF VisitRest
    <3>2. healthy[b] => b \in everUp
      BY <1>1 DEF LookupTypes, UpSet
    <3>3. healthy[b] => Append(found, b) \in Seq(everUp) /\ <<b>> \in Seq(everUp)
      BY <3>2 DEF LookupTypes
    <3>. QED  BY <1>1, <3>1, <3>3 DEF LookupTypes, Take
  <2>4. CASE EndOfHints \/ EndOfRules \/ EndOfRest
    BY <2>4 DEF EndOfHints, EndOfRules, EndOfRest, progress, LookupTypes
  <2>. QED  BY <2>1, <2>2, <2>3, <2>4
<1>6. /\ loop' \in {"hint", "rule", "rest", "done"}
      /\ loop' = "hint" => place' \in 1 .. Hinted + 1
      /\ loop' = "rule" => place' \in 1 .. Len(rules) + 1
  <2>1. CASE TryHint
    BY <1>4, <2>1 DEF TryHint, Offer
  <2>2. CASE EndOfHints
    BY <1>4, <2>2 DEF EndOfHints
  <2>3. CASE TryRule
    BY <1>4, <2>3 DEF TryRule, Offer
  <2>4. CASE EndOfRules \/ VisitRest \/ EndOfRest
    BY <2>4 DEF EndOfRules, VisitRest, EndOfRest
  <2>. QED  BY <2>1, <2>2, <2>3, <2>4
<1>7. left' \subseteq registered'
  BY <1>1 DEF LookupTypes, routerVars, TryHint, EndOfHints, TryRule, EndOfRules, VisitRest,
              EndOfRest, progress
<1>. QED  BY <1>1, <1>2, <1>3, <1>4, <1>5, <1>6, <1>7 DEF LookupTypes, AllHints, routerVars

\* The table changes between lookups only, and its rules are sorted again.
LEMMA TableTypes ==
  ASSUME LookupTypes, Sorted, TableChanges
  PROVE  LookupTypes' /\ Sorted' /\ loop' = "idle" /\ found' = <<>>
<1>1. /\ loop = "idle" /\ found = <<>> /\ alwaysUp = {} /\ everUp = {}
      /\ UNCHANGED <<loop, call, progress, alwaysUp, everUp>>
  BY DEF TableChanges, LookupTypes
<1>2. RouterTypeOK' /\ Sorted'
  <2>1. ASSUME NEW b \in Backends, RegisterBackend(b) \/ UnregisterBackend(b)
        PROVE  RouterTypeOK' /\ Sorted'
    BY <2>1 DEF RegisterBackend, UnregisterBackend, LookupTypes, RouterTypeOK, Sorted
  <2>2. ASSUME NEW rs \in RuleConfigs, SetRules(rs)
        PROVE  RouterTypeOK' /\ Sorted'
    <3>1. rs \in Seq(Rule) /\ RouterTypeOK
      BY RouterAssumption DEF LookupTypes
    <3>2. rules' \in ByPriority(rs)
      BY <2>2 DEF SetRules
    <3>3. rules' \in Seq(Rule) /\ \A i, j \in DOMAIN rules' : i < j => rules'[i].priority >= rules'[j].priority
      BY <3>1, <3>2, ByPriorityOf
    <3>4. [h \in Hints |-> <<>>] \in [Hints -> Seq(Backends)]
      OBVIOUS
    <3>. QED  BY <2>2, <3>1, <3>3, <3>4 DEF SetRules, RouterTypeOK, Sorted
  <2>3. ASSUME NEW h \in Hints, NEW ids \in HintConfigs, SetHintRoute(h, ids)
        PROVE  RouterTypeOK' /\ Sorted'
    <3>1. ids \in Seq(Backends) /\ RouterTypeOK
      BY RouterAssumption DEF LookupTypes
    <3>. QED  BY <2>3, <3>1 DEF SetHintRoute, RouterTypeOK, Sorted
  <2>. QED  BY <2>1, <2>2, <2>3 DEF TableChanges
<1>. QED  BY <1>1, <1>2 DEF LookupTypes, progress

\* A lookup begins with the backends that are up.
LEMMA BeginTypes ==
  ASSUME LookupTypes, Sorted, Begin
  PROVE  /\ LookupTypes' /\ Sorted' /\ loop' = "hint" /\ place' = 1 /\ found' = <<>>
         /\ UNCHANGED routerVars
<1>1. /\ loop = "idle" /\ place = 1 /\ found = <<>> /\ left = {} /\ UNCHANGED routerVars
      /\ UNCHANGED progress /\ loop' = "hint" /\ alwaysUp' = UpSet /\ everUp' = UpSet
      /\ call'.read \in BOOLEAN /\ call'.key \in Keys /\ call'.hint \in AllHints
  BY DEF Begin, LookupTypes, AllHints
<1>2. RouterTypeOK' /\ Sorted' /\ UpSet' = UpSet
  BY <1>1 DEF LookupTypes, RouterTypeOK, Sorted, routerVars, UpSet
<1>3. Hinted' \in Nat
  <2>1. Route(call.hint)' \in Seq(Backends)
    <3>1. <<>> \in Seq(Backends)
      OBVIOUS
    <3>. QED  BY <1>1, <1>2, <3>1 DEF RouterTypeOK, Route, AllHints
  <2>. QED  BY <2>1 DEF Hinted
<1>4. <<>> \in Seq(everUp')
  OBVIOUS
<1>5. 1 \in 1 .. Hinted' + 1 /\ everUp' \subseteq registered' /\ left' \subseteq registered'
  BY <1>1, <1>2, <1>3 DEF UpSet, progress
<1>. QED  BY <1>1, <1>2, <1>4, <1>5 DEF LookupTypes, progress

\* The result is returned, and nothing of the lookup is kept.
LEMMA ReturnTypes ==
  ASSUME LookupTypes, Sorted, ReturnResult
  PROVE  LookupTypes' /\ Sorted' /\ loop' = "idle" /\ found' = <<>>
<1>1. RouterTypeOK' /\ Sorted'
  BY DEF ReturnResult, LookupTypes, RouterTypeOK, Sorted, routerVars
<1>. QED  BY <1>1 DEF ReturnResult, NoCall, LookupTypes

\* A flag that moves is that of a backend that is not up all along then.
LEMMA FlagTypes ==
  ASSUME LookupTypes, Sorted, FlagMoves
  PROVE  /\ LookupTypes' /\ Sorted' /\ alwaysUp' \subseteq alwaysUp /\ everUp \subseteq everUp'
         /\ registered' = registered /\ rules' = rules /\ hintRoutes' = hintRoutes
         /\ UNCHANGED <<loop, call, progress>>
         /\ loop # "idle" /\ Steady' => UNCHANGED alwaysUp /\ Steady /\ UpSet' = UpSet
<1>1. PICK b \in Backends :
        /\ SetHealthy(b, ~healthy[b])
        /\ IF loop = "idle" THEN UNCHANGED <<alwaysUp, everUp>>
           ELSE /\ alwaysUp' = alwaysUp \ {b}
                /\ everUp' = everUp \cup ({b} \cap registered)
        /\ UNCHANGED <<loop, call, progress>>
  BY DEF FlagMoves
<1>2. /\ registered' = registered /\ rules' = rules /\ hintRoutes' = hintRoutes
      /\ healthy' = [healthy EXCEPT ![b] = ~healthy[b]]
      /\ UNCHANGED <<loop, call, progress>>
  BY <1>1 DEF SetHealthy
<1>3. RouterTypeOK' /\ Sorted'
  BY <1>2 DEF LookupTypes, RouterTypeOK, Sorted
<1>4. \A c \in Backends \ {b} : healthy'[c] = healthy[c]
  BY <1>2 DEF LookupTypes, RouterTypeOK
<1>5. registered \subseteq Backends /\ registered \ {b} \subseteq Backends \ {b}
  BY DEF LookupTypes, RouterTypeOK
<1>6. UpSet' \ {b} = UpSet \ {b} /\ UpSet' \subseteq UpSet \cup ({b} \cap registered)
      /\ (b \notin registered => UpSet' = UpSet)
  BY <1>2, <1>4, <1>5 DEF UpSet
<1>7. alwaysUp' \subseteq alwaysUp /\ everUp \subseteq everUp'
  BY <1>1
<1>8. LookupTypes'
  <2>1. CASE loop = "idle"
    <3>1. alwaysUp = {} /\ everUp = {} /\ alwaysUp' = {} /\ everUp' = {}
      BY <1>1, <2>1 DEF LookupTypes
    <3>. QED  BY <1>2, <1>3, <2>1, <3>1 DEF LookupTypes, progress
  <2>2. CASE loop # "idle"
    <3>1. alwaysUp' = alwaysUp \ {b} /\ everUp' = everUp \cup ({b} \cap registered)
      BY <1>1, <2>2
    <3>2. alwaysUp' \subseteq UpSet' /\ UpSet' \subseteq everUp' /\ everUp' \subseteq registered'
      BY <1>2, <1>6, <2>2, <3>1 DEF LookupTypes
    <3>3. found' \in Seq(everUp')
      BY <1>2, <1>7 DEF LookupTypes, progress
    <3>4. Hinted' = Hinted
      BY <1>2 DEF Hinted, Route
    <3>. QED  BY <1>2, <1>3, <2>2, <3>2, <3>3, <3>4 DEF LookupTypes, progress
  <2>. QED  BY <2>1, <2>2
<1>9. ASSUME loop # "idle", Steady'
      PROVE  UNCHANGED alwaysUp /\ Steady /\ UpSet' = UpSet
  <2>1. alwaysUp' = alwaysUp \ {b} /\ everUp' = everUp \cup ({b} \cap registered) /\ alwaysUp' = everUp'
    BY <1>1, <1>9 DEF Steady
  <2>2. b \notin registered
    BY <2>1
  <2>3. b \notin alwaysUp /\ b \notin everUp
    BY <2>2 DEF LookupTypes, UpSet
  <2>. QED  BY <1>6, <2>1, <2>2, <2>3 DEF Steady
<1>. QED  BY <1>2, <1>3, <1>7, <1>8, <1>9

-----------------------------------------------------------------------------
(* One part of the invariant after the other *)

\* What is appended is new.
LEMMA TakeFacts ==
  ASSUME LookupTypes, NEW b, Take(b)
  PROVE  /\ found = <<>> => found' = <<b>>
         /\ found' # <<>>
         /\ ~Seen(b) => /\ Len(found') = Len(found) + 1 /\ found'[Len(found) + 1] = b
                        /\ DOMAIN found' = 1 .. Len(found) + 1
                        /\ \A i \in DOMAIN found : found'[i] = found[i] /\ i # Len(found) + 1
         /\ Seen(b) => found' = found
         /\ Len(found) \in Nat /\ DOMAIN found = 1 .. Len(found)
         /\ \A c : Seen(c)' <=> Seen(c) \/ c = b
<1>1. found \in Seq(everUp) /\ Len(found) \in Nat /\ DOMAIN found = 1 .. Len(found)
  BY DEF LookupTypes
<1>2. CASE Seen(b)
  <2>0. found = <<>> => Len(found) = 0
    OBVIOUS
  <2>1. found' = found /\ found # <<>>
    <3>1. found' = found
      BY <1>2 DEF Take
    <3>2. PICK i \in DOMAIN found : found[i] = b
      BY <1>2 DEF Seen
    <3>3. Len(found) # 0
      BY <1>1, <3>2
    <3>. QED  BY <2>0, <3>1, <3>3
  <2>. QED  BY <1>1, <1>2, <2>1 DEF Seen
<1>3. CASE ~Seen(b)
  <2>1. found' = Append(found, b)
    BY <1>3 DEF Take
  <2>2. /\ Len(found') = Len(found) + 1 /\ found'[Len(found) + 1] = b
        /\ DOMAIN found' = 1 .. Len(found) + 1
        /\ \A i \in DOMAIN found : found'[i] = found[i] /\ i # Len(found) + 1
    BY <1>1, <2>1
  <2>3. found' # <<>> /\ (found = <<>> => found' = <<b>>)
    <3>1. found' = <<>> => Len(found') = 0
      OBVIOUS
    <3>2. Append(<<>>, b) = <<b>>
      OBVIOUS
    <3>3. Len(found') # 0
      BY <1>1, <2>2
    <3>4. found = <<>> => found' = <<b>>
      BY <2>1, <3>2
    <3>. QED  BY <3>1, <3>3, <3>4
  <2>4. ASSUME NEW c PROVE Seen(c)' <=> Seen(c) \/ c = b
    BY <1>1, <2>2 DEF Seen
  <2>. QED  BY <1>1, <1>3, <2>2, <2>3, <2>4
<1>. QED  BY <1>2, <1>3

\* A read list that takes a backend has none twice.
LEMMA TakeOnce ==
  ASSUME LookupTypes, Once, NEW b, Take(b)
  PROVE  \A i, j \in DOMAIN found' : i # j => found'[i] # found'[j]
<1>1. CASE Seen(b)
  BY <1>1, TakeFacts DEF Once, NoBackendTwice
<1>2. CASE ~Seen(b)
  BY <1>2, TakeFacts DEF Once, NoBackendTwice, Seen
<1>. QED  BY <1>1, <1>2

\* What an offer at a place of the hint route or of the rules does.
LEMMA OfferFacts ==
  ASSUME LookupTypes, Once, loop \in {"hint", "rule"}, NEW b, Offer(b), call' = call
  PROVE  /\ Once'
         /\ Up(b) => Take(b)
         /\ call.read => loop' = loop
         /\ ~call.read /\ Up(b) => found' = <<b>> /\ loop' = "done"
         /\ ~Up(b) => found' = found /\ loop' = loop
<1>1. /\ Up(b) => Take(b)
      /\ call.read => loop' = loop
      /\ ~Up(b) => found' = found /\ loop' = loop
      /\ ~call.read /\ Up(b) => loop' = "done"
  BY DEF Offer
<1>2. ~call.read => found = <<>>
  BY DEF Once
<1>3. ~call.read /\ Up(b) => found' = <<b>>
  BY <1>1, <1>2, TakeFacts
<1>4. Once'
  <2>1. CASE Up(b) /\ call.read
    BY <1>1, <2>1, TakeOnce DEF Once, NoBackendTwice
  <2>2. CASE Up(b) /\ ~call.read
    <3>1. found' = <<b>> /\ loop' = "done"
      BY <1>1, <1>3, <2>2
    <3>2. DOMAIN found' = {1} /\ Len(found') = 1
      BY <3>1
    <3>. QED  BY <3>1, <3>2 DEF Once, NoBackendTwice
  <2>3. CASE ~Up(b)
    BY <1>1, <2>3 DEF Once, NoBackendTwice
  <2>. QED  BY <2>1, <2>2, <2>3
<1>. QED  BY <1>1, <1>3, <1>4

\* What the range does with the backend it visits.
LEMMA VisitFacts ==
  ASSUME LookupTypes, Once, VisitRest
  PROVE  \E b \in left :
           /\ left' = left \ {b} /\ b \in registered
           /\ ~healthy[b] => found' = found
           /\ healthy[b] => b \in UpSet /\ found' # <<>>
           /\ healthy[b] /\ call.read => Take(b)
           /\ healthy[b] /\ ~call.read => found' = IF Heavier(b) THEN <<b>> ELSE found
           /\ loop = "rest" /\ loop' = "rest" /\ call' = call
<1>1. PICK b \in left :
        /\ left' = left \ {b}
        /\ IF ~healthy[b] THEN UNCHANGED found
           ELSE IF call.read THEN Take(b)
           ELSE found' = IF Heavier(b) THEN <<b>> ELSE found
  BY DEF VisitRest
<1>2. b \in registered /\ loop = "rest" /\ loop' = "rest" /\ call' = call
  BY DEF LookupTypes, VisitRest
<1>3. healthy[b] => b \in UpSet
  BY <1>2 DEF UpSet
<1>4. healthy[b] /\ call.read => found' # <<>>
  BY <1>1, TakeFacts
<1>5. healthy[b] /\ ~call.read => found' # <<>>
  BY <1>1 DEF Heavier
<1>. QED  BY <1>1, <1>2, <1>3, <1>4, <1>5

\* No step lists a backend twice.
LEMMA StepOnce ==
  ASSUME LookupTypes, Sorted, Once,
         TryHint \/ EndOfHints \/ TryRule \/ EndOfRules \/ VisitRest \/ EndOfRest
  PROVE  Once'
<1>0. call' = call
  BY StepTypes
<1>1. CASE TryHint
  BY <1>0, <1>1, OfferFacts DEF TryHint
<1>2. CASE TryRule
  <2>1. CASE Decides(rules[place])
    BY <1>0, <1>2, <2>1, OfferFacts DEF TryRule
  <2>2. CASE ~Decides(rules[place])
    BY <1>0, <1>2, <2>2 DEF TryRule, Once, NoBackendTwice
  <2>. QED  BY <2>1, <2>2
<1>3. CASE VisitRest
  <2>1. PICK b \in left :
           /\ ~healthy[b] => found' = found
           /\ healthy[b] /\ call.read => Take(b)
           /\ healthy[b] /\ ~call.read => found' = IF Heavier(b) THEN <<b>> ELSE found
           /\ loop' = "rest"
    BY <1>3, VisitFacts
  <2>2. CASE found' = found
    BY <1>0, <2>1, <2>2 DEF Once, NoBackendTwice
  <2>3. CASE found' = <<b>>
    <3>1. DOMAIN found' = {1} /\ Len(found') = 1
      BY <2>3
    <3>. QED  BY <1>0, <2>1, <3>1 DEF Once, NoBackendTwice
  <2>4. CASE Take(b) /\ call.read
    BY <1>0, <2>1, <2>4, TakeOnce DEF Once, NoBackendTwice
  <2>. QED  BY <2>1, <2>2, <2>3, <2>4
<1>4. CASE EndOfHints \/ EndOfRules \/ EndOfRest
  BY <1>0, <1>4 DEF EndOfHints, EndOfRules, EndOfRest, progress, Once, NoBackendTwice
<1>. QED  BY <1>1, <1>2, <1>3, <1>4

\* No step of a write passes a place of a backend that was up all along.
LEMMA StepLeads ==
  ASSUME LookupTypes, Sorted, Once, Leads,
         TryHint \/ EndOfHints \/ TryRule \/ EndOfRules \/ VisitRest \/ EndOfRest
  PROVE  Leads'
<1>. SUFFICES ASSUME ~call.read, loop' \in {"hint", "rule", "rest"},
                     NEW b \in alwaysUp', NEW i \in Places(b)'
              PROVE  Reached' <= i
  BY StepTypes DEF Leads
<1>1. /\ loop # "idle" /\ call' = call /\ b \in alwaysUp /\ b \in UpSet /\ Up(b)
      /\ rules' = rules /\ hintRoutes' = hintRoutes
  BY StepTypes DEF LookupTypes, Up, UpSet
<1>2. i \in Places(b) /\ Hinted' = Hinted
  BY <1>1, SameTable
<1>3. /\ Hinted \in Nat /\ Len(rules) \in Nat /\ DOMAIN rules = 1 .. Len(rules)
      /\ DOMAIN Route(call.hint) = 1 .. Hinted
      /\ i \in Nat /\ i \in 1 .. Hinted + Len(rules)
  BY <1>1, <1>2, HitsArePlaces
<1>4. loop \in {"hint", "rule", "rest"} => Reached <= i
  BY <1>1, <1>2 DEF Leads
<1>5. CASE TryHint
  <2>1. /\ loop = "hint" /\ loop' = "hint" /\ place \in 1 .. Hinted /\ place' = place + 1
        /\ ~Up(Route(call.hint)[place])
    BY <1>1, <1>3, <1>5, OfferFacts DEF TryHint
  <2>2. i # place
    <3>1. ASSUME i = place PROVE FALSE
      <4>1. i \in DOMAIN Route(call.hint) => Route(call.hint)[i] = b
        BY <1>2, <1>3 DEF Places, Hinted
      <4>. QED  BY <1>1, <1>3, <2>1, <3>1, <4>1
    <3>. QED  BY <3>1
  <2>. QED  BY <1>3, <1>4, <2>1, <2>2 DEF Reached
<1>6. CASE EndOfHints
  <2>1. loop = "hint" /\ loop' = "rule" /\ place' = 1 /\ place = Hinted + 1
    BY <1>3, <1>6 DEF EndOfHints, LookupTypes
  <2>. QED  BY <1>1, <1>2, <1>3, <1>4, <2>1 DEF Reached
<1>7. CASE TryRule
  <2>1. /\ loop = "rule" /\ loop' = "rule" /\ place \in 1 .. Len(rules) /\ place' = place + 1
        /\ Decides(rules[place]) => ~Up(rules[place].backend)
    <3>1. loop = "rule" /\ place \in 1 .. Len(rules) /\ place' = place + 1
      BY <1>3, <1>7 DEF TryRule
    <3>2. Decides(rules[place]) => ~Up(rules[place].backend) /\ loop' = loop
      BY <1>1, <1>7, <3>1, OfferFacts DEF TryRule
    <3>3. ~Decides(rules[place]) => loop' = loop
      BY <1>7 DEF TryRule
    <3>. QED  BY <3>1, <3>2, <3>3
  <2>2. i # Hinted + place
    <3>1. ASSUME i = Hinted + place PROVE FALSE
      <4>1. PICK j \in DOMAIN rules : Decides(rules[j]) /\ rules[j].backend = b /\ i = Hinted + j
        BY <1>2, <1>3, <2>1, <3>1 DEF Places, Hinted
      <4>2. j = place
        BY <1>3, <2>1, <3>1, <4>1
      <4>. QED  BY <1>1, <2>1, <4>1, <4>2
    <3>. QED  BY <3>1
  <2>. QED  BY <1>1, <1>2, <1>3, <1>4, <2>1, <2>2 DEF Reached
<1>8. CASE EndOfRules
  <2>1. loop = "rule" /\ loop' = "rest" /\ place = Len(rules) + 1
    BY <1>3, <1>8 DEF EndOfRules, LookupTypes
  <2>. QED  BY <1>1, <1>2, <1>3, <1>4, <2>1 DEF Reached
<1>9. CASE VisitRest \/ EndOfRest
  BY <1>1, <1>2, <1>4, <1>9 DEF VisitRest, EndOfRest, Reached
<1>. QED  BY <1>5, <1>6, <1>7, <1>8, <1>9

\* A write that has passed no place passes no hit.
LEMMA LeadsHits ==
  ASSUME LookupTypes, Leads, ~call.read, Steady, loop \in {"hint", "rule", "rest"}
  PROVE  /\ UpSet = alwaysUp /\ everUp = alwaysUp
         /\ \A i \in HintHits(call.hint) : Reached <= i
         /\ \A i \in RuleHits(call.key) : Reached <= Hinted + i
<1>1. UpSet = alwaysUp /\ everUp = alwaysUp
  BY DEF LookupTypes, Steady
<1>. QED  BY <1>1, HitsArePlaces DEF Leads

\* The range over the map keeps the heaviest, and misses none that stays up.
LEMMA StepVisited ==
  ASSUME LookupTypes, Sorted, Once, Visited, KeepsHeaviest,
         TryHint \/ EndOfHints \/ TryRule \/ EndOfRules \/ VisitRest \/ EndOfRest
  PROVE  Visited' /\ KeepsHeaviest'
<1>1. /\ call' = call /\ UNCHANGED <<alwaysUp, everUp>> /\ UpSet' = UpSet
      /\ alwaysUp \subseteq UpSet /\ UpSet \subseteq everUp /\ UpSet \subseteq registered
  BY StepTypes DEF LookupTypes, UpSet
<1>2. CASE TryHint \/ EndOfHints \/ TryRule \/ EndOfRest
  <2>1. loop' # "rest"
    BY <1>2 DEF TryHint, EndOfHints, TryRule, EndOfRest, Offer
  <2>. QED  BY <2>1 DEF Visited, KeepsHeaviest
<1>3. CASE EndOfRules
  <2>1. left' = registered /\ found' = found
    BY <1>3 DEF EndOfRules
  <2>. QED  BY <1>1, <2>1 DEF Visited, KeepsHeaviest
<1>4. CASE VisitRest
  <2>1. PICK b \in left :
          /\ left' = left \ {b} /\ b \in registered
          /\ ~healthy[b] => found' = found
          /\ healthy[b] => b \in UpSet /\ found' # <<>>
          /\ healthy[b] /\ call.read => Take(b)
          /\ healthy[b] /\ ~call.read => found' = IF Heavier(b) THEN <<b>> ELSE found
          /\ loop = "rest" /\ loop' = "rest"
    BY <1>4, VisitFacts
  <2>2. found # <<>> => found' # <<>>
    BY <2>1
  <2>3. ~healthy[b] => b \notin UpSet
    BY DEF UpSet
  <2>4. Visited'
    <3>. SUFFICES ASSUME NEW c \in alwaysUp \ left'
                  PROVE  found' # <<>> /\ (call.read => Seen(c)')
      BY <1>1 DEF Visited
    <3>1. c \in UpSet /\ (c = b \/ c \in alwaysUp \ left)
      BY <1>1, <2>1
    <3>2. CASE c = b
      <4>1. healthy[b]
        BY <2>3, <3>1, <3>2
      <4>. QED  BY <2>1, <3>2, <4>1, TakeFacts
    <3>3. CASE c \in alwaysUp \ left
      <4>1. found # <<>> /\ (call.read => Seen(c))
        BY <2>1, <3>3 DEF Visited
      <4>2. CASE call.read /\ healthy[b]
        BY <2>1, <4>1, <4>2, TakeFacts
      <4>3. CASE ~(call.read /\ healthy[b])
        BY <2>1, <2>2, <4>1, <4>3 DEF Seen
      <4>. QED  BY <4>2, <4>3
    <3>. QED  BY <3>1, <3>2, <3>3
  <2>5. KeepsHeaviest'
    <3>. SUFFICES ASSUME ~call.read, Steady, found' # <<>>, NEW c \in UpSet \ left'
                  PROVE  Weight[c] <= Weight[found'[1]]
      BY <1>1 DEF KeepsHeaviest, Steady
    <3>1. UpSet = alwaysUp /\ c \in Backends /\ Weight[c] \in Int /\ b \in Backends /\ Weight[b] \in Int
      BY <1>1, <2>1, RouterAssumption DEF Steady, LookupTypes, RouterTypeOK, UpSet
    <3>2. found # <<>> => found[1] \in Backends /\ Weight[found[1]] \in Int
      <4>1. found # <<>> => found[1] \in everUp
        BY DEF LookupTypes
      <4>. QED  BY <4>1, RouterAssumption DEF LookupTypes, RouterTypeOK
    <3>3. c # b => c \in UpSet \ left
      BY <2>1
    <3>4. c # b => found # <<>> /\ Weight[c] <= Weight[found[1]]
      BY <2>1, <3>1, <3>3 DEF Visited, KeepsHeaviest
    <3>5. CASE ~healthy[b]
      BY <2>1, <2>3, <3>4, <3>5
    <3>6. CASE healthy[b] /\ Heavier(b)
      <4>1. found' = <<b>> /\ found'[1] = b
        BY <2>1, <3>6
      <4>2. found # <<>> => Weight[found[1]] < Weight[b]
        BY <3>1, <3>2, <3>6 DEF Heavier
      <4>. QED  BY <3>1, <3>2, <3>4, <4>1, <4>2
    <3>7. CASE healthy[b] /\ ~Heavier(b)
      <4>1. found' = found /\ found # <<>> /\ Weight[b] <= Weight[found[1]]
        BY <2>1, <3>1, <3>2, <3>7 DEF Heavier
      <4>. QED  BY <3>4, <4>1
    <3>. QED  BY <3>5, <3>6, <3>7
  <2>. QED  BY <2>4, <2>5
<1>. QED  BY <1>2, <1>3, <1>4

\* A write that stops at a place of the hint route or of the rules.
LEMMA StopsRight ==
  ASSUME LookupTypes, Leads, ~call.read, loop \in {"hint", "rule"},
         NEW b, Up(b), Reached \in Places(b),
         loop = "hint" => place \in HintHits(call.hint) /\ b = Route(call.hint)[place],
         loop = "rule" => place \in RuleHits(call.key) /\ b = rules[place].backend
  PROVE  /\ \A c \in alwaysUp : FirstPlace(b) <= FirstPlace(c)
         /\ Steady => b \in GetBackend(call.key, call.hint)
<1>1. /\ Hinted \in Nat /\ Len(rules) \in Nat
      /\ \A c : Places(c) \in SUBSET Nat /\ \A i \in Places(c) : i \in 1 .. Hinted + Len(rules)
      /\ HintHits(call.hint) \in SUBSET Nat /\ RuleHits(call.key) \in SUBSET Nat
      /\ \A i \in HintHits(call.hint) : i \in 1 .. Hinted
      /\ \A i \in RuleHits(call.key) : i \in 1 .. Len(rules)
  BY HitsArePlaces
<1>2. Reached \in Nat /\ Reached \in 1 .. Hinted + Len(rules)
  BY <1>1
<1>3. FirstPlace(b) \in Nat /\ FirstPlace(b) <= Reached
  BY <1>1, FirstOfIn DEF FirstPlace
<1>4. ASSUME NEW c \in alwaysUp PROVE FirstPlace(b) <= FirstPlace(c)
  <2>1. Places(c) # {} => FirstOf(Places(c)) \in Places(c)
    BY <1>1, FirstOfIn
  <2>2. Places(c) # {} => FirstPlace(c) \in Nat /\ Reached <= FirstPlace(c)
    BY <1>1, <2>1 DEF Leads, FirstPlace
  <2>3. Places(c) = {} => FirstPlace(c) = Hinted + Len(rules) + 1
    BY DEF FirstPlace, Hinted
  <2>. QED  BY <1>1, <1>2, <1>3, <2>2, <2>3
<1>5. ASSUME Steady PROVE b \in GetBackend(call.key, call.hint)
  <2>1. /\ \A i \in HintHits(call.hint) : Reached <= i
        /\ \A i \in RuleHits(call.key) : Reached <= Hinted + i
    BY <1>5, LeadsHits
  <2>2. CASE loop = "hint"
    <3>1. FirstOf(HintHits(call.hint)) = place
      <4>1. FirstOf(HintHits(call.hint)) \in HintHits(call.hint) /\ FirstOf(HintHits(call.hint)) <= place
        BY <1>1, <2>2, FirstOfIn
      <4>2. place <= FirstOf(HintHits(call.hint))
        BY <2>1, <2>2, <4>1 DEF Reached
      <4>. QED  BY <1>1, <2>2, <4>1, <4>2
    <3>. QED  BY <2>2, <3>1 DEF GetBackend
  <2>3. CASE loop = "rule"
    <3>1. Reached = Hinted + place /\ place \in 1 .. Len(rules)
      BY <1>1, <2>3 DEF Reached
    <3>2. HintHits(call.hint) = {}
      <4>. SUFFICES ASSUME NEW i \in HintHits(call.hint) PROVE FALSE
        OBVIOUS
      <4>. QED  BY <1>1, <2>1, <3>1
    <3>3. FirstOf(RuleHits(call.key)) = place
      <4>1. FirstOf(RuleHits(call.key)) \in RuleHits(call.key) /\ FirstOf(RuleHits(call.key)) <= place
        BY <1>1, <2>3, FirstOfIn
      <4>2. Hinted + place <= Hinted + FirstOf(RuleHits(call.key))
        BY <2>1, <3>1, <4>1
      <4>. QED  BY <1>1, <2>3, <4>1, <4>2
    <3>. QED  BY <2>3, <3>2, <3>3 DEF GetBackend
  <2>. QED  BY <2>2, <2>3
<1>. QED  BY <1>4, <1>5

\* What a finished write has.
WriteEnds ==
  Finished /\ ~call.read =>
    /\ found = <<>> => alwaysUp = {}
    /\ \A c : found = <<c>> => \A b \in alwaysUp : FirstPlace(c) <= FirstPlace(b)
    /\ Steady /\ found = <<>> => GetBackend(call.key, call.hint) = {}
    /\ \A c : Steady /\ found = <<c>> => c \in GetBackend(call.key, call.hint)

\* An offer for a write that the backend takes ends it well.
LEMMA OfferEnds ==
  ASSUME LookupTypes, Sorted, Once, Leads, loop \in {"hint", "rule"},
         UNCHANGED <<rules, hintRoutes, call, alwaysUp, everUp>>, UpSet' = UpSet,
         NEW b, Offer(b), Reached \in Places(b),
         Up(b) /\ loop = "hint" => place \in HintHits(call.hint) /\ b = Route(call.hint)[place],
         Up(b) /\ loop = "rule" => place \in RuleHits(call.key) /\ b = rules[place].backend
  PROVE  WriteEnds'
<1>. SUFFICES ASSUME loop' = "done", ~call.read PROVE WriteEnds'
  BY DEF WriteEnds, Finished
<1>1. Up(b) /\ found' = <<b>>
  BY OfferFacts
<1>2. found' # <<>> /\ \A c : found' = <<c>> => c = b
  BY <1>1
<1>3. /\ \A c \in alwaysUp : FirstPlace(b) <= FirstPlace(c)
      /\ Steady => b \in GetBackend(call.key, call.hint)
  BY <1>1, StopsRight
<1>4. \A c \in alwaysUp' : FirstPlace(b)' <= FirstPlace(c)'
  BY <1>3, SameTable
<1>5. Steady' => b \in GetBackend(call.key, call.hint)'
  BY <1>3, SameTable DEF Steady
<1>. QED  BY <1>2, <1>4, <1>5 DEF WriteEnds

\* Every lookup for a write ends well.
LEMMA StepWriteEnds ==
  ASSUME LookupTypes, Sorted, Once, Leads, Visited, KeepsHeaviest, WriteEnds,
         TryHint \/ EndOfHints \/ TryRule \/ EndOfRules \/ VisitRest \/ EndOfRest
  PROVE  WriteEnds'
<1>1. /\ UNCHANGED <<rules, hintRoutes, call, alwaysUp, everUp>> /\ UpSet' = UpSet
      /\ loop # "idle" /\ call' = call /\ rules' = rules /\ hintRoutes' = hintRoutes
  BY StepTypes
<1>2. /\ Hinted \in Nat /\ Len(rules) \in Nat /\ DOMAIN rules = 1 .. Len(rules)
      /\ DOMAIN Route(call.hint) = 1 .. Hinted
  BY <1>1, HitsArePlaces
<1>3. CASE TryHint
  <2>1. /\ loop = "hint" /\ place \in DOMAIN Route(call.hint) /\ Offer(Route(call.hint)[place])
        /\ Reached = place
    BY <1>3 DEF TryHint, Reached
  <2>2. Reached \in Places(Route(call.hint)[place])
    BY <2>1 DEF Places
  <2>3. Up(Route(call.hint)[place]) => place \in HintHits(call.hint)
    BY <2>1 DEF HintHits
  <2>. QED  BY <1>1, <2>1, <2>2, <2>3, OfferEnds
<1>4. CASE TryRule
  <2>1. /\ loop = "rule" /\ place \in DOMAIN rules /\ Reached = Hinted + place
        /\ Decides(rules[place]) => Offer(rules[place].backend)
        /\ ~Decides(rules[place]) => loop' = loop
    BY <1>4 DEF TryRule, Reached
  <2>2. CASE Decides(rules[place])
    <3>1. Reached \in Places(rules[place].backend)
      BY <1>2, <2>1, <2>2 DEF Places, Hinted
    <3>2. Up(rules[place].backend) => place \in RuleHits(call.key)
      BY <2>1, <2>2 DEF RuleHits, Decides
    <3>. QED  BY <1>1, <2>1, <2>2, <3>1, <3>2, OfferEnds
  <2>3. CASE ~Decides(rules[place])
    BY <2>1, <2>3 DEF WriteEnds, Finished
  <2>. QED  BY <2>2, <2>3
<1>5. CASE EndOfHints \/ EndOfRules \/ VisitRest
  <2>1. loop' # "done"
    BY <1>5 DEF EndOfHints, EndOfRules, VisitRest
  <2>. QED  BY <2>1 DEF WriteEnds, Finished
<1>6. CASE EndOfRest
  <2>. SUFFICES ASSUME ~call.read PROVE WriteEnds'
    BY <1>1 DEF WriteEnds
  <2>1. /\ loop = "rest" /\ left = {} /\ found' = found
    BY <1>6 DEF EndOfRest, progress
  <2>2. alwaysUp # {} => found # <<>>
    BY <2>1 DEF Visited
  <2>3. Reached = Hinted + Len(rules) + 1
    BY <2>1 DEF Reached
  <2>4. ASSUME NEW b \in alwaysUp PROVE FirstPlace(b) = Hinted + Len(rules) + 1
    <3>1. Places(b) = {}
      <4>. SUFFICES ASSUME NEW i \in Places(b) PROVE FALSE
        OBVIOUS
      <4>1. i \in Nat /\ i \in 1 .. Hinted + Len(rules) /\ Reached <= i
        BY <1>1, <2>1, HitsArePlaces DEF Leads
      <4>. QED  BY <1>2, <2>3, <4>1
    <3>. QED  BY <3>1 DEF FirstPlace, Hinted
  <2>5. \A b : FirstPlace(b) \in Nat /\ FirstPlace(b) <= Hinted + Len(rules) + 1
    <3>1. ASSUME NEW b, Places(b) # {}
          PROVE  FirstOf(Places(b)) \in Nat /\ FirstOf(Places(b)) <= Hinted + Len(rules) + 1
      <4>1. Places(b) \in SUBSET Nat /\ \A i \in Places(b) : i \in 1 .. Hinted + Len(rules)
        BY <1>1, HitsArePlaces
      <4>2. FirstOf(Places(b)) \in Places(b)
        BY <3>1, <4>1, FirstOfIn
      <4>. QED  BY <1>2, <4>1, <4>2
    <3>. QED  BY <1>2, <3>1 DEF FirstPlace, Hinted
  <2>6. ASSUME Steady
        PROVE  /\ found = <<>> => GetBackend(call.key, call.hint) = {}
               /\ found # <<>> => found[1] \in GetBackend(call.key, call.hint)
    <3>1. /\ UpSet = alwaysUp /\ everUp = alwaysUp
          /\ \A i \in HintHits(call.hint) : Reached <= i /\ i \in 1 .. Hinted
          /\ \A i \in RuleHits(call.key) : Reached <= Hinted + i /\ i \in 1 .. Len(rules)
      BY <1>1, <2>1, <2>6, LeadsHits, HitsArePlaces
    <3>2. HintHits(call.hint) = {}
      <4>. SUFFICES ASSUME NEW i \in HintHits(call.hint) PROVE FALSE
        OBVIOUS
      <4>. QED  BY <1>2, <2>3, <3>1
    <3>3. RuleHits(call.key) = {}
      <4>. SUFFICES ASSUME NEW i \in RuleHits(call.key) PROVE FALSE
        OBVIOUS
      <4>. QED  BY <1>2, <2>3, <3>1
    <3>4. GetBackend(call.key, call.hint) = Fallback
      BY <3>2, <3>3 DEF GetBackend
    <3>5. found = <<>> => Fallback = {}
      BY <2>2, <3>1 DEF Fallback
    <3>6. found # <<>> => found[1] \in UpSet /\ \A c \in UpSet : Weight[c] <= Weight[found[1]]
      <4>1. found # <<>> => found[1] \in everUp
        BY DEF LookupTypes
      <4>. QED  BY <2>1, <2>6, <3>1, <4>1 DEF KeepsHeaviest
    <3>. QED  BY <3>4, <3>5, <3>6 DEF Fallback
  <2>7. \A c : \A b \in alwaysUp' : FirstPlace(c)' <= FirstPlace(b)'
    BY <1>1, <2>4, <2>5, SameTable
  <2>8. /\ Steady' /\ found' = <<>> => GetBackend(call.key, call.hint)' = {}
        /\ \A c : Steady' /\ found' = <<c>> => c \in GetBackend(call.key, call.hint)'
    <3>1. \A c : found = <<c>> => found # <<>> /\ found[1] = c
      OBVIOUS
    <3>. QED  BY <1>1, <2>1, <2>6, <3>1, SameTable DEF Steady
  <2>. QED  BY <1>1, <2>1, <2>2, <2>7, <2>8 DEF WriteEnds
<1>. QED  BY <1>3, <1>4, <1>5, <1>6

\* Where Rank puts a backend: never behind a hit that names it, and before the
\* last place only where a hit names it.
LEMMA RankFacts ==
  ASSUME RouterTypeOK, NEW k \in Keys, NEW h \in AllHints, NEW b
  PROVE  /\ Rank(k, h, b) \in Nat /\ Rank(k, h, b) \in 1 .. Len(Route(h)) + Len(rules) + 1
         /\ \A i \in HintHits(h) : Route(h)[i] = b => Rank(k, h, b) <= i
         /\ \A i \in RuleHits(k) : rules[i].backend = b => Rank(k, h, b) <= Len(Route(h)) + i
         /\ Rank(k, h, b) <= Len(Route(h)) =>
              Rank(k, h, b) \in HintHits(h) /\ Route(h)[Rank(k, h, b)] = b
         /\ \A i \in 1 .. Len(rules) : Rank(k, h, b) = Len(Route(h)) + i =>
              i \in RuleHits(k) /\ rules[i].backend = b
<1>1. Route(h) \in Seq(Backends)
  <2>1. <<>> \in Seq(Backends)
    OBVIOUS
  <2>. QED  BY <2>1 DEF RouterTypeOK, Route, AllHints
<1>2. /\ Len(Route(h)) \in Nat /\ Len(rules) \in Nat
      /\ DOMAIN rules = 1 .. Len(rules) /\ DOMAIN Route(h) = 1 .. Len(Route(h))
  BY <1>1 DEF RouterTypeOK
<1>3. PICK hintAt : hintAt = {i \in HintHits(h) : Route(h)[i] = b}
  OBVIOUS
<1>4. PICK ruleAt : ruleAt = {i \in RuleHits(k) : rules[i].backend = b}
  OBVIOUS
<1>5. Rank(k, h, b) = IF hintAt # {} THEN FirstOf(hintAt)
                      ELSE IF ruleAt # {} THEN Len(Route(h)) + FirstOf(ruleAt)
                      ELSE Len(Route(h)) + Len(rules) + 1
  BY <1>3, <1>4 DEF Rank
<1>6. /\ hintAt \in SUBSET Nat /\ \A i \in hintAt : i \in 1 .. Len(Route(h))
      /\ ruleAt \in SUBSET Nat /\ \A i \in ruleAt : i \in 1 .. Len(rules)
      /\ \A i \in HintHits(h) : i \in 1 .. Len(Route(h))
      /\ \A i \in RuleHits(k) : i \in 1 .. Len(rules)
  BY <1>2, <1>3, <1>4 DEF HintHits, RuleHits
<1>7. CASE hintAt # {}
  <2>1. /\ FirstOf(hintAt) \in hintAt /\ \A i \in hintAt : FirstOf(hintAt) <= i
        /\ Rank(k, h, b) = FirstOf(hintAt)
    BY <1>5, <1>6, <1>7, FirstOfIn
  <2>2. FirstOf(hintAt) \in 1 .. Len(Route(h)) /\ FirstOf(hintAt) \in HintHits(h)
        /\ Route(h)[FirstOf(hintAt)] = b
    BY <1>3, <1>6, <2>1
  <2>3. \A i \in HintHits(h) : Route(h)[i] = b => Rank(k, h, b) <= i
    BY <1>3, <2>1
  <2>4. \A i \in RuleHits(k) : Rank(k, h, b) <= Len(Route(h)) + i
    BY <1>2, <1>6, <2>1, <2>2
  <2>5. /\ Rank(k, h, b) \in Nat /\ Rank(k, h, b) \in 1 .. Len(Route(h)) + Len(rules) + 1
        /\ Rank(k, h, b) \in HintHits(h) /\ Route(h)[Rank(k, h, b)] = b
        /\ \A i \in 1 .. Len(rules) : Rank(k, h, b) # Len(Route(h)) + i
    BY <1>2, <2>1, <2>2
  <2>. QED  BY <2>3, <2>4, <2>5
<1>8. CASE hintAt = {} /\ ruleAt # {}
  <2>1. /\ FirstOf(ruleAt) \in ruleAt /\ \A i \in ruleAt : FirstOf(ruleAt) <= i
        /\ Rank(k, h, b) = Len(Route(h)) + FirstOf(ruleAt)
    BY <1>5, <1>6, <1>8, FirstOfIn
  <2>2. FirstOf(ruleAt) \in 1 .. Len(rules) /\ FirstOf(ruleAt) \in RuleHits(k)
        /\ rules[FirstOf(ruleAt)].backend = b
    BY <1>4, <1>6, <2>1
  <2>3. \A i \in HintHits(h) : Route(h)[i] # b
    BY <1>3, <1>8
  <2>4. \A i \in RuleHits(k) : rules[i].backend = b => Rank(k, h, b) <= Len(Route(h)) + i
    BY <1>2, <1>4, <1>6, <2>1
  <2>. QED  BY <1>2, <2>1, <2>2, <2>3, <2>4
<1>9. CASE hintAt = {} /\ ruleAt = {}
  <2>1. Rank(k, h, b) = Len(Route(h)) + Len(rules) + 1
    BY <1>5, <1>9
  <2>2. (\A i \in HintHits(h) : Route(h)[i] # b) /\ (\A i \in RuleHits(k) : rules[i].backend # b)
    BY <1>3, <1>4, <1>9
  <2>. QED  BY <1>2, <2>1, <2>2
<1>. QED  BY <1>7, <1>8, <1>9

\* A read that takes a backend of the rank it has reached stays in order.
LEMMA TakeRanked ==
  ASSUME LookupTypes, Ranked, call.read, Steady, loop # "idle",
         NEW b, Take(b), b \in UpSet, RankOf(b) <= Reached
  PROVE  /\ \A i \in DOMAIN found' : RankOf(found'[i]) <= Reached
         /\ \A i, j \in DOMAIN found' : i < j => RankOf(found'[i]) <= RankOf(found'[j])
<1>1. /\ \A i \in DOMAIN found : RankOf(found[i]) <= Reached
      /\ \A i, j \in DOMAIN found : i < j => RankOf(found[i]) <= RankOf(found[j])
      /\ Seen(b) \/ Reached <= RankOf(b)
  BY DEF Ranked
<1>2. CASE Seen(b)
  BY <1>1, <1>2, TakeFacts
<1>3. CASE ~Seen(b)
  <2>1. /\ found'[Len(found) + 1] = b /\ Len(found) \in Nat
        /\ DOMAIN found' = 1 .. Len(found) + 1 /\ DOMAIN found = 1 .. Len(found)
        /\ \A i \in DOMAIN found : found'[i] = found[i]
    BY <1>3, TakeFacts
  <2>2. RankOf(b) \in Nat /\ Reached \in Nat
    <3>1. Reached \in Nat
      BY HitsArePlaces DEF Reached, LookupTypes
    <3>2. RankOf(b) \in Nat
      BY RankFacts DEF RankOf, LookupTypes
    <3>. QED  BY <3>1, <3>2
  <2>3. RankOf(b) = Reached
    BY <1>1, <1>3, <2>2
  <2>4. \A i \in DOMAIN found' : i \in DOMAIN found \/ i = Len(found) + 1
    BY <2>1
  <2>5. \A i \in DOMAIN found' : RankOf(found'[i]) <= Reached
    <3>1. ASSUME NEW i \in DOMAIN found' PROVE RankOf(found'[i]) <= Reached
      <4>1. CASE i \in DOMAIN found
        BY <1>1, <2>1, <4>1
      <4>2. CASE i = Len(found) + 1
        <5>1. found'[i] = b
          BY <2>1, <4>2
        <5>. QED  BY <5>1
      <4>. QED  BY <2>4, <4>1, <4>2
    <3>. QED  BY <3>1
  <2>6. ASSUME NEW i \in DOMAIN found', NEW j \in DOMAIN found', i < j
        PROVE  RankOf(found'[i]) <= RankOf(found'[j])
    <3>1. i \in DOMAIN found /\ found'[i] = found[i] /\ RankOf(found[i]) <= Reached
      BY <1>1, <2>1, <2>4, <2>6
    <3>2. CASE j \in DOMAIN found
      BY <1>1, <2>1, <2>6, <3>1, <3>2
    <3>3. CASE j = Len(found) + 1
      <4>1. found'[j] = b /\ RankOf(found'[j]) = Reached
        BY <2>1, <2>3, <3>3
      <4>. QED  BY <3>1, <4>1
    <3>. QED  BY <2>4, <3>2, <3>3
  <2>. QED  BY <2>5, <2>6
<1>. QED  BY <1>2, <1>3

\* A step of a read keeps the list in the order of the ranks.
LEMMA StepRanked ==
  ASSUME LookupTypes, Sorted, Once, Ranked,
         TryHint \/ EndOfHints \/ TryRule \/ EndOfRules \/ VisitRest \/ EndOfRest
  PROVE  Ranked'
<1>1. /\ UNCHANGED <<rules, hintRoutes, call, alwaysUp, everUp>> /\ UpSet' = UpSet
      /\ loop # "idle" /\ call' = call /\ rules' = rules /\ hintRoutes' = hintRoutes
  BY StepTypes
<1>. SUFFICES ASSUME call.read, Steady PROVE Ranked'
  BY <1>1 DEF Ranked, Steady
<1>2. /\ \A b : RankOf(b)' = RankOf(b)
      /\ Hinted' = Hinted /\ Len(rules)' = Len(rules)
  BY <1>1, SameTable
<1>3. /\ Hinted \in Nat /\ Len(rules) \in Nat /\ DOMAIN rules = 1 .. Len(rules)
      /\ DOMAIN Route(call.hint) = 1 .. Hinted
      /\ call.key \in Keys /\ call.hint \in AllHints /\ RouterTypeOK
  BY <1>1, HitsArePlaces DEF LookupTypes
<1>4. \A b :
        /\ RankOf(b) \in Nat /\ RankOf(b) <= Hinted + Len(rules) + 1
        /\ \A i \in HintHits(call.hint) : Route(call.hint)[i] = b => RankOf(b) <= i
        /\ \A i \in RuleHits(call.key) : rules[i].backend = b => RankOf(b) <= Hinted + i
        /\ RankOf(b) <= Hinted =>
             RankOf(b) \in HintHits(call.hint) /\ Route(call.hint)[RankOf(b)] = b
        /\ \A i \in 1 .. Len(rules) : RankOf(b) = Hinted + i =>
             i \in RuleHits(call.key) /\ rules[i].backend = b
  BY <1>3, RankFacts DEF RankOf, Hinted
<1>5. /\ \A b \in UpSet : Seen(b) \/ Reached <= RankOf(b)
      /\ \A i \in DOMAIN found : RankOf(found[i]) <= Reached
      /\ \A i, j \in DOMAIN found : i < j => RankOf(found[i]) <= RankOf(found[j])
  BY <1>1 DEF Ranked
<1>6. Reached \in Nat
  BY <1>3 DEF Reached, LookupTypes
<1>7. ASSUME found' = found, Reached' \in Nat, Reached <= Reached',
             \A b \in UpSet : Reached <= RankOf(b) => Reached' <= RankOf(b)
      PROVE  Ranked'
  <2>1. \A b \in UpSet' : Seen(b)' \/ Reached' <= RankOf(b)'
    BY <1>1, <1>2, <1>5, <1>7 DEF Seen
  <2>2. \A i \in DOMAIN found' : \A b : found'[i] = b => RankOf(b)' <= Reached'
    BY <1>2, <1>4, <1>5, <1>6, <1>7
  <2>3. \A i, j \in DOMAIN found' : \A b, c :
          i < j /\ found'[i] = b /\ found'[j] = c => RankOf(b)' <= RankOf(c)'
    BY <1>2, <1>5, <1>7
  <2>. QED  BY <2>1, <2>2, <2>3 DEF Ranked
<1>8. ASSUME NEW b \in UpSet, Take(b), RankOf(b) <= Reached,
             Reached' \in Nat, Reached <= Reached',
             \A c \in UpSet \ {b} : Reached <= RankOf(c) => Reached' <= RankOf(c)
      PROVE  Ranked'
  <2>1. /\ \A i \in DOMAIN found' : RankOf(found'[i]) <= Reached
        /\ \A i, j \in DOMAIN found' : i < j => RankOf(found'[i]) <= RankOf(found'[j])
    BY <1>1, <1>8, TakeRanked
  <2>2. \A c : Seen(c)' <=> Seen(c) \/ c = b
    BY <1>8, TakeFacts
  <2>3. \A c \in UpSet' : Seen(c)' \/ Reached' <= RankOf(c)'
    BY <1>1, <1>2, <1>5, <1>8, <2>2
  <2>4. \A i \in DOMAIN found' : \A c : found'[i] = c => RankOf(c)' <= Reached'
    BY <1>2, <1>4, <1>6, <1>8, <2>1
  <2>5. \A i, j \in DOMAIN found' : \A c, d :
          i < j /\ found'[i] = c /\ found'[j] = d => RankOf(c)' <= RankOf(d)'
    BY <1>2, <2>1
  <2>. QED  BY <2>3, <2>4, <2>5 DEF Ranked
<1>9. CASE TryHint
  <2>1. /\ loop = "hint" /\ loop' = "hint" /\ place \in 1 .. Hinted /\ place' = place + 1
        /\ Reached = place /\ Reached' = place + 1 /\ Offer(Route(call.hint)[place])
    <3>1. /\ loop = "hint" /\ place \in 1 .. Hinted /\ place' = place + 1
          /\ Offer(Route(call.hint)[place])
      BY <1>3, <1>9 DEF TryHint
    <3>2. loop' = "hint"
      BY <3>1 DEF Offer
    <3>. QED  BY <3>1, <3>2 DEF Reached
  <2>2. ASSUME NEW c \in UpSet, Reached <= RankOf(c), ~(Reached' <= RankOf(c))
        PROVE  c = Route(call.hint)[place] /\ place \in HintHits(call.hint)
    <3>1. RankOf(c) = place
      BY <1>4, <2>1, <2>2
    <3>. QED  BY <1>3, <1>4, <2>1, <3>1
  <2>3. CASE Up(Route(call.hint)[place])
    <3>1. /\ Take(Route(call.hint)[place]) /\ Route(call.hint)[place] \in UpSet
          /\ place \in HintHits(call.hint)
      BY <1>3, <2>1, <2>3 DEF Offer, Up, UpSet, HintHits
    <3>2. RankOf(Route(call.hint)[place]) <= Reached
      BY <1>4, <2>1, <3>1
    <3>. QED  BY <1>8, <2>1, <2>2, <3>1, <3>2
  <2>4. CASE ~Up(Route(call.hint)[place])
    <3>1. found' = found /\ place \notin HintHits(call.hint)
      BY <2>1, <2>4 DEF Offer, HintHits
    <3>. QED  BY <1>7, <2>1, <2>2, <3>1
  <2>. QED  BY <2>3, <2>4
<1>10. CASE TryRule
  <2>1. /\ loop = "rule" /\ loop' = "rule" /\ place \in 1 .. Len(rules) /\ place' = place + 1
        /\ Reached = Hinted + place /\ Reached' = Hinted + (place + 1)
        /\ Decides(rules[place]) => Offer(rules[place].backend)
        /\ ~Decides(rules[place]) => found' = found
    <3>1. /\ loop = "rule" /\ place \in 1 .. Len(rules) /\ place' = place + 1
          /\ Decides(rules[place]) => Offer(rules[place].backend)
          /\ ~Decides(rules[place]) => found' = found /\ loop' = loop
      BY <1>3, <1>10 DEF TryRule
    <3>2. loop' = "rule"
      BY <3>1 DEF Offer
    <3>. QED  BY <1>2, <3>1, <3>2 DEF Reached
  <2>2. ASSUME NEW c \in UpSet, Reached <= RankOf(c), ~(Reached' <= RankOf(c))
        PROVE  c = rules[place].backend /\ place \in RuleHits(call.key)
    <3>1. RankOf(c) = Hinted + place
      <4>1. /\ RankOf(c) \in Nat /\ Hinted \in Nat /\ place \in Nat
            /\ Hinted + place <= RankOf(c) /\ ~(Hinted + (place + 1) <= RankOf(c))
        BY <1>3, <1>4, <2>1, <2>2
      <4>. QED  BY <4>1
    <3>. QED  BY <1>3, <1>4, <2>1, <3>1
  <2>3. CASE Decides(rules[place]) /\ Up(rules[place].backend)
    <3>1. /\ Take(rules[place].backend) /\ rules[place].backend \in UpSet
          /\ place \in RuleHits(call.key)
      BY <1>3, <2>1, <2>3 DEF Offer, Up, UpSet, RuleHits, Decides
    <3>2. RankOf(rules[place].backend) <= Reached
      BY <1>4, <2>1, <3>1
    <3>3. Reached' \in Nat /\ Reached <= Reached'
      BY <1>3, <2>1
    <3>. QED  BY <1>8, <2>2, <3>1, <3>2, <3>3
  <2>4. CASE ~(Decides(rules[place]) /\ Up(rules[place].backend))
    <3>1. found' = found /\ place \notin RuleHits(call.key)
      BY <2>1, <2>4 DEF Offer, RuleHits, Decides
    <3>2. Reached' \in Nat /\ Reached <= Reached'
      BY <1>3, <2>1
    <3>. QED  BY <1>7, <2>2, <3>1, <3>2
  <2>. QED  BY <2>3, <2>4
<1>11. CASE EndOfHints
  <2>1. found' = found /\ loop = "hint" /\ loop' = "rule" /\ place' = 1 /\ place = Hinted + 1
    BY <1>3, <1>11 DEF EndOfHints, LookupTypes
  <2>2. Reached' = Reached
    BY <1>2, <2>1 DEF Reached
  <2>. QED  BY <1>6, <1>7, <2>1, <2>2
<1>12. CASE EndOfRules
  <2>1. found' = found /\ loop = "rule" /\ loop' = "rest" /\ place = Len(rules) + 1
    BY <1>3, <1>12 DEF EndOfRules, LookupTypes
  <2>2. Reached' = Reached
    BY <1>2, <1>3, <2>1 DEF Reached
  <2>. QED  BY <1>6, <1>7, <2>1, <2>2
<1>13. CASE VisitRest
  <2>1. PICK b \in left :
          /\ ~healthy[b] => found' = found
          /\ healthy[b] => b \in UpSet
          /\ healthy[b] /\ call.read => Take(b)
          /\ loop = "rest" /\ loop' = "rest"
    BY <1>13, VisitFacts
  <2>2. Reached' = Reached /\ Reached = Hinted + Len(rules) + 1
    BY <1>2, <2>1 DEF Reached
  <2>3. CASE healthy[b]
    BY <1>4, <1>6, <1>8, <2>1, <2>2, <2>3
  <2>4. CASE ~healthy[b]
    BY <1>6, <1>7, <2>1, <2>2, <2>4
  <2>. QED  BY <2>3, <2>4
<1>14. CASE EndOfRest
  <2>1. found' = found /\ loop = "rest" /\ loop' = "done"
    BY <1>14 DEF EndOfRest, progress
  <2>2. Reached' = Reached
    BY <1>2, <2>1 DEF Reached
  <2>. QED  BY <1>6, <1>7, <2>1, <2>2
<1>. QED  BY <1>9, <1>10, <1>11, <1>12, <1>13, <1>14

\* What a finished read has.
ReadEnds == Finished /\ call.read => \A b \in alwaysUp : Seen(b)

\* A read ends with the range over the map.
LEMMA StepReadEnds ==
  ASSUME LookupTypes, Sorted, Once, Visited, ReadEnds,
         TryHint \/ EndOfHints \/ TryRule \/ EndOfRules \/ VisitRest \/ EndOfRest
  PROVE  ReadEnds'
<1>1. call' = call /\ UNCHANGED alwaysUp
  BY StepTypes
<1>2. CASE EndOfRest
  BY <1>1, <1>2 DEF EndOfRest, ReadEnds, Visited, Seen, progress
<1>3. CASE TryHint \/ EndOfHints \/ TryRule \/ EndOfRules \/ VisitRest
  <2>1. call.read => loop' # "done"
    BY <1>3 DEF TryHint, EndOfHints, TryRule, EndOfRules, VisitRest, Offer
  <2>. QED  BY <1>1, <2>1 DEF ReadEnds, Finished
<1>. QED  BY <1>2, <1>3

\* The inductive invariant.
LookupInv ==
  /\ LookupTypes /\ Sorted /\ Once
  /\ Leads /\ Visited /\ KeepsHeaviest /\ Ranked
  /\ WriteEnds /\ ReadEnds

\* Between lookups there is nothing to say of a lookup.
LEMMA NothingIdle ==
  ASSUME LookupTypes', Sorted', loop' = "idle", found' = <<>>
  PROVE  LookupInv'
<1>1. DOMAIN found' = {} /\ Len(found') = 0
  OBVIOUS
<1>2. Once'
  BY <1>1 DEF Once, NoBackendTwice
<1>. QED
  BY <1>2 DEF LookupInv, Leads, Visited, KeepsHeaviest, Ranked, WriteEnds, ReadEnds, Finished

\* A lookup begins before every place and every rank.
LEMMA BeginInv ==
  ASSUME LookupInv, Begin
  PROVE  LookupInv'
<1>1. /\ LookupTypes' /\ Sorted' /\ loop' = "hint" /\ place' = 1 /\ found' = <<>>
      /\ UNCHANGED routerVars
  BY BeginTypes DEF LookupInv
<1>2. DOMAIN found' = {} /\ Len(found') = 0
  BY <1>1
<1>3. Once'
  BY <1>1, <1>2 DEF Once, NoBackendTwice
<1>4. Reached' = 1
  BY <1>1 DEF Reached
<1>5. PICK k \in Keys, h \in AllHints, read \in BOOLEAN :
        call' = [read |-> read, key |-> k, hint |-> h]
  BY DEF Begin, AllHints
<1>6. RouterTypeOK
  BY DEF LookupInv, LookupTypes
<1>7. Leads'
  <2>. SUFFICES ASSUME NEW b, NEW i \in Places(b)' PROVE 1 <= i
    BY <1>4 DEF Leads
  <2>1. Route(h) \in Seq(Backends) /\ rules \in Seq(Rule)
    <3>1. <<>> \in Seq(Backends)
      OBVIOUS
    <3>. QED  BY <1>6, <3>1 DEF RouterTypeOK, Route, AllHints
  <2>2. DOMAIN Route(h) = 1 .. Len(Route(h)) /\ Len(Route(h)) \in Nat
        /\ DOMAIN rules = 1 .. Len(rules) /\ Len(rules) \in Nat
    BY <2>1
  <2>3. rules' = rules /\ Route(call.hint)' = Route(h)
    BY <1>1, <1>5 DEF routerVars, Route
  <2>4. i \in DOMAIN Route(h) \/ \E j \in DOMAIN rules : i = Len(Route(h)) + j
    BY <2>3 DEF Places
  <2>. QED  BY <2>2, <2>4
<1>8. Ranked'
  <2>1. ASSUME NEW b PROVE 1 <= RankOf(b)'
    <3>1. Rank(k, h, b) \in Nat /\ 1 <= Rank(k, h, b)
      <4>1. Rank(k, h, b) \in Nat /\ Rank(k, h, b) \in 1 .. Len(Route(h)) + Len(rules) + 1
        BY <1>6, RankFacts
      <4>2. Len(Route(h)) + Len(rules) + 1 \in Int \/ 1 <= Rank(k, h, b)
        BY <4>1
      <4>. QED  BY <4>1
    <3>2. RankOf(b)' = Rank(k, h, b)
      <4>1. registered' = registered /\ healthy' = healthy /\ rules' = rules /\ hintRoutes' = hintRoutes
        BY <1>1 DEF routerVars
      <4>2. call'.key = k /\ call'.hint = h
        BY <1>5
      <4>. QED  BY <4>1, <4>2 DEF RankOf, Rank, HintHits, RuleHits, Route, Up
    <3>. QED  BY <3>1, <3>2
  <2>. QED  BY <1>2, <1>4, <2>1 DEF Ranked
<1>. QED
  BY <1>1, <1>3, <1>7, <1>8 DEF LookupInv, Visited, KeepsHeaviest, WriteEnds, ReadEnds, Finished

\* A flag that moves does not disturb a lookup.
LEMMA FlagInv ==
  ASSUME LookupInv, FlagMoves
  PROVE  LookupInv'
<1>1. /\ LookupTypes' /\ Sorted' /\ alwaysUp' \subseteq alwaysUp /\ everUp \subseteq everUp'
      /\ registered' = registered /\ rules' = rules /\ hintRoutes' = hintRoutes
      /\ UNCHANGED <<loop, call, progress>>
      /\ loop # "idle" /\ Steady' => UNCHANGED alwaysUp /\ Steady /\ UpSet' = UpSet
  BY FlagTypes DEF LookupInv
<1>2. loop' = loop /\ call' = call /\ place' = place /\ left' = left /\ found' = found
  BY <1>1 DEF progress
<1>3. /\ Hinted' = Hinted
      /\ \A b : Places(b)' = Places(b) /\ FirstPlace(b)' = FirstPlace(b)
      /\ UpSet' = UpSet =>
           /\ \A b : RankOf(b)' = RankOf(b)
           /\ GetBackend(call.key, call.hint)' = GetBackend(call.key, call.hint)
  BY <1>1, <1>2, SameTable
<1>4. Reached' = Reached
  BY <1>1, <1>2, <1>3 DEF Reached
<1>5. Once'
  BY <1>2 DEF LookupInv, Once, NoBackendTwice
<1>6. Leads'
  BY <1>1, <1>2, <1>3, <1>4 DEF LookupInv, Leads
<1>7. Visited'
  BY <1>1, <1>2 DEF LookupInv, Visited, Seen
<1>8. KeepsHeaviest'
  BY <1>1, <1>2 DEF LookupInv, KeepsHeaviest
<1>9. Ranked'
  <2>. SUFFICES ASSUME call.read, Steady', loop # "idle" PROVE Ranked'
    BY <1>2 DEF Ranked
  <2>1. UpSet' = UpSet /\ Steady /\ \A b : RankOf(b)' = RankOf(b)
    BY <1>1, <1>3
  <2>. QED  BY <1>2, <1>4, <2>1 DEF LookupInv, Ranked, Seen
<1>10. WriteEnds'
  <2>. SUFFICES ASSUME loop = "done", ~call.read PROVE WriteEnds'
    BY <1>2 DEF WriteEnds, Finished
  <2>. QED  BY <1>1, <1>2, <1>3 DEF LookupInv, WriteEnds, Finished
<1>11. ReadEnds'
  BY <1>1, <1>2 DEF LookupInv, ReadEnds, Finished, Seen
<1>. QED
  BY <1>1, <1>5, <1>6, <1>7, <1>8, <1>9, <1>10, <1>11 DEF LookupInv

\* The invariant holds at the start.
LEMMA InitLookupInv == LookupInit => LookupInv
<1>. SUFFICES ASSUME LookupInit PROVE LookupInv
  OBVIOUS
<1>1. /\ registered = {} /\ healthy = [b \in Backends |-> TRUE] /\ rules = <<>>
      /\ hintRoutes = [h \in Hints |-> <<>>]
      /\ loop = "idle" /\ ~call.read /\ place = 1 /\ left = {} /\ found = <<>>
      /\ alwaysUp = {} /\ everUp = {}
  BY DEF LookupInit, RouterInit, NoCall
<1>2. <<>> \in Seq(Backends) /\ <<>> \in Seq(Rule) /\ <<>> \in Seq(everUp)
  OBVIOUS
<1>3. RouterTypeOK
  BY <1>1, <1>2 DEF RouterTypeOK
<1>4. DOMAIN rules = {} /\ DOMAIN found = {} /\ Len(found) = 0
  BY <1>1
<1>5. LookupTypes /\ Sorted
  <2>1. call.read \in BOOLEAN
    BY DEF LookupInit, NoCall
  <2>. QED  BY <1>1, <1>2, <1>3, <1>4, <2>1 DEF LookupTypes, Sorted
<1>6. Once
  BY <1>1, <1>4 DEF Once, NoBackendTwice
<1>. QED
  BY <1>1, <1>5, <1>6 DEF LookupInv, Leads, Visited, KeepsHeaviest, Ranked, WriteEnds, ReadEnds, Finished

\* Every step preserves the invariant.
LEMMA StepLookupInv == LookupInv /\ [LookupNext]_lookupVars => LookupInv'
<1>. SUFFICES ASSUME LookupInv, [LookupNext]_lookupVars PROVE LookupInv'
  OBVIOUS
<1>1. CASE TableChanges
  BY <1>1, TableTypes, NothingIdle DEF LookupInv
<1>2. CASE FlagMoves
  BY <1>2, FlagInv
<1>3. CASE Begin
  BY <1>3, BeginInv
<1>4. CASE ReturnResult
  BY <1>4, ReturnTypes, NothingIdle DEF LookupInv
<1>5. CASE TryHint \/ EndOfHints \/ TryRule \/ EndOfRules \/ VisitRest \/ EndOfRest
  <2>1. LookupTypes' /\ Sorted'
    BY <1>5, StepTypes DEF LookupInv
  <2>2. Once' /\ Leads'
    BY <1>5, StepOnce, StepLeads DEF LookupInv
  <2>3. Visited' /\ KeepsHeaviest'
    BY <1>5, StepVisited DEF LookupInv
  <2>4. Ranked'
    BY <1>5, StepRanked DEF LookupInv
  <2>5. WriteEnds' /\ ReadEnds'
    BY <1>5, StepWriteEnds, StepReadEnds DEF LookupInv
  <2>. QED  BY <2>1, <2>2, <2>3, <2>4, <2>5 DEF LookupInv
<1>6. CASE UNCHANGED lookupVars
  <2>1. /\ UNCHANGED <<registered, healthy, rules, hintRoutes, loop, call, place, left, found, alwaysUp, everUp>>
        /\ rules' = rules /\ hintRoutes' = hintRoutes /\ call' = call
    BY <1>6 DEF lookupVars, routerVars, progress
  <2>2. UpSet' = UpSet
    BY <2>1 DEF UpSet
  <2>3. /\ Hinted' = Hinted
        /\ \A b : Places(b)' = Places(b) /\ FirstPlace(b)' = FirstPlace(b) /\ RankOf(b)' = RankOf(b)
        /\ GetBackend(call.key, call.hint)' = GetBackend(call.key, call.hint)
    BY <2>1, <2>2, SameTable
  <2>4. Reached' = Reached
    BY <2>1, <2>3 DEF Reached
  <2>5. LookupTypes' /\ Sorted' /\ Once'
    BY <2>1, <2>2, <2>3 DEF LookupInv, LookupTypes, RouterTypeOK, Sorted, Once, NoBackendTwice
  <2>6. Leads' /\ Visited' /\ KeepsHeaviest'
    BY <2>1, <2>2, <2>3, <2>4 DEF LookupInv, Leads, Visited, KeepsHeaviest, Steady, Seen
  <2>7. Ranked'
    BY <2>1, <2>2, <2>3, <2>4 DEF LookupInv, Ranked, Steady, Seen
  <2>8. WriteEnds' /\ ReadEnds'
    BY <2>1, <2>2, <2>3 DEF LookupInv, WriteEnds, ReadEnds, Finished, Steady, Seen
  <2>. QED  BY <2>5, <2>6, <2>7, <2>8 DEF LookupInv
<1>. QED  BY <1>1, <1>2, <1>3, <1>4, <1>5, <1>6 DEF LookupNext

\* The invariant of the lookups, for every table, call and movement of the flags.
THEOREM LookupInvariant == LookupSpec => []LookupInv
<1>. QED  BY InitLookupInv, StepLookupInv, PTL DEF LookupSpec

\* No result lists a backend twice: the sets seen of GetBackendsForRead and the early
\* returns of GetBackend.
THEOREM LookupNoBackendTwice == LookupSpec => []NoBackendTwice
<1>1. LookupInv => NoBackendTwice
  BY DEF LookupInv, Once
<1>. QED  BY <1>1, LookupInvariant, PTL

\* A finished write has one backend or none.
LEMMA WriteFound ==
  ASSUME LookupTypes, Once, ~call.read, found # <<>>
  PROVE  found = <<found[1]>> /\ found[1] \in everUp
<1>1. found \in Seq(everUp) /\ Len(found) \in Nat /\ Len(found) <= 1
  BY DEF LookupTypes, Once, NoBackendTwice
<1>2. Len(found) = 1
  <2>1. PICK n \in Nat : n = Len(found) /\ n <= 1
    BY <1>1
  <2>2. n # 0
    BY <1>1, <2>1
  <2>. QED  BY <2>1, <2>2
<1>. QED  BY <1>1, <1>2

\* Whatever flags move during a lookup, it hides no backend that is up all along,
\* and returns none that never was.
THEOREM LookupHidesOnlyItsOwn == LookupSpec => []HidesOnlyItsOwn
<1>1. LookupInv => HidesOnlyItsOwn
  <2>. SUFFICES ASSUME LookupInv, Finished PROVE HidesOnlyItsOwn
    BY DEF HidesOnlyItsOwn
  <2>1. \A i \in DOMAIN found : found[i] \in everUp
    BY DEF LookupInv, LookupTypes
  <2>2. call.read => \A b \in alwaysUp : Seen(b)
    BY DEF LookupInv, ReadEnds
  <2>3. ASSUME found = <<>> PROVE alwaysUp = {}
    <3>1. CASE call.read
      <4>1. DOMAIN found = {}
        BY <2>3
      <4>. QED  BY <2>2, <3>1, <4>1 DEF Seen
    <3>2. CASE ~call.read
      BY <2>3, <3>2 DEF LookupInv, WriteEnds
    <3>. QED  BY <3>1, <3>2
  <2>. QED  BY <2>1, <2>2, <2>3 DEF HidesOnlyItsOwn
<1>. QED  BY <1>1, LookupInvariant, PTL

\* A write goes past no backend that is up all along, in the order of the hint
\* route and the rules.
THEOREM LookupPassesOverNone == LookupSpec => []PassesOverNone
<1>1. LookupInv => PassesOverNone
  <2>. SUFFICES ASSUME LookupInv, Finished, ~call.read, found # <<>>
                PROVE  \A b \in alwaysUp : FirstPlace(found[1]) <= FirstPlace(b)
    BY DEF PassesOverNone
  <2>1. found = <<found[1]>>
    BY WriteFound DEF LookupInv
  <2>. QED  BY <2>1 DEF LookupInv, WriteEnds
<1>. QED  BY <1>1, LookupInvariant, PTL

\* The rule that decides has the highest priority of those that match and whose
\* backend is up: SetRules sorts and the loop stops at the first.
THEOREM RouterPriorityDecides == LookupSpec => []PriorityDecides
<1>1. LookupInv => PriorityDecides
  <2>. SUFFICES ASSUME LookupInv, NEW k \in Keys, NEW i \in RuleHits(k)
                PROVE  rules[i].priority <= rules[FirstOf(RuleHits(k))].priority
    BY DEF PriorityDecides
  <2>1. rules \in Seq(Rule)
    BY DEF LookupInv, LookupTypes, RouterTypeOK
  <2>2. RuleHits(k) \in SUBSET Nat /\ RuleHits(k) \subseteq DOMAIN rules
    BY <2>1 DEF RuleHits
  <2>3. PICK m \in RuleHits(k) : m = FirstOf(RuleHits(k)) /\ m <= i
    BY <2>2, FirstOfIn
  <2>4. m \in Nat /\ i \in Nat /\ m \in DOMAIN rules /\ i \in DOMAIN rules
        /\ rules[m].priority \in Int /\ rules[i].priority \in Int
    <3>1. m \in DOMAIN rules /\ i \in DOMAIN rules /\ m \in Nat /\ i \in Nat
      BY <2>2
    <3>2. rules[m] \in Rule /\ rules[i] \in Rule
      BY <2>1, <3>1
    <3>. QED  BY <3>1, <3>2 DEF Rule
  <2>5. m < i => rules[m].priority >= rules[i].priority
    BY <2>4 DEF LookupInv, Sorted
  <2>6. m = i => rules[m].priority = rules[i].priority
    OBVIOUS
  <2>. QED  BY <2>3, <2>4, <2>5, <2>6
<1>. QED  BY <1>1, LookupInvariant, PTL

\* A list of distinct elements that has every element of a finite set, and no other,
\* is an ordering of the set.
LEMMA ListOfAll ==
  ASSUME NEW S, IsFiniteSet(S), NEW s \in Seq(S),
         \A i, j \in DOMAIN s : i # j => s[i] # s[j],
         \A c \in S : \E i \in DOMAIN s : s[i] = c
  PROVE  s \in Orderings(S)
<1>1. Len(s) \in Nat /\ DOMAIN s = 1 .. Len(s) /\ s \in [1 .. Len(s) -> S]
  OBVIOUS
<1>2. s \in Bijection(1 .. Len(s), S)
  BY <1>1 DEF Bijection, Injection, Surjection, IsInjective
<1>3. Cardinality(S) = Len(s)
  <2>1. ExistsBijection(1 .. Len(s), S)
    BY <1>2 DEF ExistsBijection
  <2>. QED  BY <1>1, <2>1, FS_CountingElements
<1>. QED  BY <1>1, <1>3 DEF Orderings

\* The loops compute what the operators of Router say, when no flag moves: the atomic
\* lookups of CacheService are those of the code.
THEOREM LookupAgreesWhenSteady == LookupSpec => []AgreesWhenSteady
<1>1. LookupInv => AgreesWhenSteady
  <2>. SUFFICES ASSUME LookupInv, Finished, Steady
                PROVE  IF call.read THEN found \in GetBackendsForRead(call.key, call.hint)
                       ELSE IF found = <<>> THEN GetBackend(call.key, call.hint) = {}
                       ELSE found[1] \in GetBackend(call.key, call.hint)
    BY DEF AgreesWhenSteady
  <2>1. UpSet = everUp /\ alwaysUp = everUp /\ loop # "idle"
    BY DEF LookupInv, LookupTypes, Steady, Finished
  <2>2. CASE call.read
    <3>1. found \in Seq(UpSet) /\ \A i, j \in DOMAIN found : i # j => found[i] # found[j]
      BY <2>1 DEF LookupInv, LookupTypes, Once, NoBackendTwice
    <3>2. \A c \in UpSet : \E i \in DOMAIN found : found[i] = c
      BY <2>1, <2>2 DEF LookupInv, ReadEnds, Seen
    <3>3. IsFiniteSet(UpSet)
      <4>1. UpSet \subseteq Backends
        BY DEF LookupInv, LookupTypes, RouterTypeOK, UpSet
      <4>. QED  BY <4>1, RouterAssumption, FS_Subset
    <3>4. found \in Orderings(UpSet)
      BY <3>1, <3>2, <3>3, ListOfAll
    <3>5. \A i, j \in DOMAIN found : i < j => RankOf(found[i]) <= RankOf(found[j])
      BY <2>1, <2>2 DEF LookupInv, Ranked
    <3>. QED  BY <2>2, <3>4, <3>5 DEF GetBackendsForRead, RankOf
  <2>3. CASE ~call.read
    <3>1. found # <<>> => found = <<found[1]>>
      BY <2>3, WriteFound DEF LookupInv
    <3>. QED  BY <2>3, <3>1 DEF LookupInv, WriteEnds
  <2>. QED  BY <2>2, <2>3
<1>. QED  BY <1>1, LookupInvariant, PTL

-----------------------------------------------------------------------------
(* No lookup fails while a backend is up *)

\* A finite set that is not empty has a heaviest element: one that had none of
\* the least size would have a smaller one without.
LEMMA HeaviestOf ==
  ASSUME NEW S, IsFiniteSet(S), S # {}, NEW f, \A x \in S : f[x] \in Int
  PROVE  \E x \in S : \A y \in S : f[y] <= f[x]
<1>. DEFINE Top(T) == \E x \in T : \A y \in T : f[y] <= f[x]
            Sizes == {n \in Nat : \E T \in SUBSET S : T # {} /\ Cardinality(T) = n /\ ~Top(T)}
<1>. SUFFICES ASSUME ~Top(S) PROVE FALSE
  OBVIOUS
<1>1. Cardinality(S) \in Sizes
  BY FS_CardinalityType
<1>2. PICK n \in Sizes : \A m \in Sizes : n <= m
  <2>1. Sizes \in SUBSET Nat /\ Sizes # {}
    BY <1>1
  <2>. HIDE DEF Sizes
  <2>. QED  BY <2>1, FirstOfIn
<1>3. PICK T \in SUBSET S : T # {} /\ Cardinality(T) = n /\ ~Top(T)
  BY <1>2
<1>4. PICK x \in T : TRUE
  BY <1>3
<1>5. IsFiniteSet(T) /\ n \in Nat
  BY <1>2, <1>3, FS_Subset
<1>6. Cardinality(T \ {x}) = n - 1 /\ Cardinality(T \ {x}) \in Nat
  BY <1>3, <1>4, <1>5, FS_RemoveElement, FS_CardinalityType
<1>7. CASE T \ {x} = {}
  <2>1. \A y \in T : y = x
    BY <1>7
  <2>2. Top(T)
    BY <1>4, <2>1
  <2>. QED  BY <1>3, <2>2
<1>8. CASE T \ {x} # {}
  <2>1. Top(T \ {x})
    <3>1. n - 1 \notin Sizes
      BY <1>2, <1>5
    <3>2. T \ {x} \in SUBSET S
      OBVIOUS
    <3>. HIDE DEF Top
    <3>. QED  BY <1>6, <1>8, <3>1, <3>2
  <2>2. PICK y \in T \ {x} : \A z \in T \ {x} : f[z] <= f[y]
    BY <2>1
  <2>3. f[x] \in Int /\ f[y] \in Int /\ \A z \in T : f[z] \in Int
    BY <1>4, <2>2
  <2>4. CASE f[x] <= f[y]
    <3>1. \A z \in T : f[z] <= f[y]
      BY <2>2, <2>4
    <3>2. Top(T)
      BY <2>2, <3>1
    <3>. QED  BY <1>3, <3>2
  <2>5. CASE ~(f[x] <= f[y])
    <3>1. \A z \in T : f[z] <= f[x]
      BY <2>2, <2>3, <2>5
    <3>2. Top(T)
      BY <1>4, <3>1
    <3>. QED  BY <1>3, <3>2
  <2>. QED  BY <2>4, <2>5
<1>. QED  BY <1>7, <1>8

\* A lookup finds a backend exactly when one is up: hint, rules and fallback together
\* leave none out.
LEMMA FindsOneUp == RouterTypeOK => FailsOnlyWhenAllDown
<1>. SUFFICES ASSUME RouterTypeOK, NEW k \in Keys, NEW h \in AllHints
              PROVE  GetBackend(k, h) = {} <=> UpSet = {}
  BY DEF FailsOnlyWhenAllDown
<1>1. HintHits(h) # {} => UpSet # {} /\ GetBackend(k, h) # {}
  BY DEF HintHits, Up, UpSet, GetBackend
<1>2. RuleHits(k) # {} => UpSet # {} /\ (HintHits(h) = {} => GetBackend(k, h) # {})
  BY DEF RuleHits, Up, UpSet, GetBackend
<1>3. UpSet # {} => Fallback # {}
  <2>1. UpSet \subseteq Backends
    BY DEF RouterTypeOK, UpSet
  <2>2. IsFiniteSet(UpSet) /\ \A b \in UpSet : Weight[b] \in Int
    BY <2>1, RouterAssumption, FS_Subset
  <2>3. UpSet # {} => \E b \in UpSet : \A c \in UpSet : Weight[c] <= Weight[b]
    BY <2>2, HeaviestOf
  <2>. QED  BY <2>3 DEF Fallback
<1>4. Fallback # {} => UpSet # {}
  BY DEF Fallback
<1>. QED  BY <1>1, <1>2, <1>3, <1>4 DEF GetBackend

\* No table, however its rules and hint routes point at backends that are down,
\* hides a healthy backend from a lookup.
THEOREM RouterFailsOnlyWhenAllDown == LookupSpec => []FailsOnlyWhenAllDown
<1>1. LookupInv => FailsOnlyWhenAllDown
  BY FindsOneUp DEF LookupInv, LookupTypes
<1>. QED  BY <1>1, LookupInvariant, PTL

-----------------------------------------------------------------------------
(* The load balancer *)

\* Induction from 0 to L, over the set of numbers for which a fact holds.
LEMMA InductionUpTo ==
  ASSUME NEW L \in Nat, NEW A, 0 \in A,
         \A n \in 0 .. L : n # L /\ n \in A => n + 1 \in A
  PROVE  \A n \in 0 .. L : n \in A
<1>. DEFINE Out == {n \in 0 .. L : n \notin A}
<1>. SUFFICES ASSUME Out # {} PROVE FALSE
  OBVIOUS
<1>1. PICK n \in Out : \A m \in Out : n <= m
  <2>1. Out \in SUBSET Nat
    OBVIOUS
  <2>. HIDE DEF Out
  <2>. QED  BY <2>1, FirstOfIn
<1>2. n \in Nat /\ n # 0 /\ n \in 0 .. L
  BY <1>1
<1>3. n - 1 \in 0 .. L /\ n - 1 # L /\ ~(n <= n - 1) /\ (n - 1) + 1 = n
  BY <1>2
<1>4. n - 1 \in A
  BY <1>1, <1>3
<1>. QED  BY <1>1, <1>3, <1>4

\* f is a at 0, and each further value comes from the one before.
Stepwise(f, n, a, step) == f[0] = a /\ \A i \in 1 .. n : f[i] = step[<<i, f[i - 1]>>]

\* A function defined step by step from 0 to L exists.
LEMMA StepwiseExists ==
  ASSUME NEW L \in Nat, NEW V, NEW a \in V, NEW step,
         \A i \in 1 .. L : \A x \in V : step[<<i, x>>] \in V
  PROVE  \E f \in [0 .. L -> V] : Stepwise(f, L, a, step)
<1>. DEFINE Good(n, f) == Stepwise(f, n, a, step)
            A == {n \in 0 .. L : \E f \in [0 .. n -> V] : Good(n, f)}
<1>1. 0 \in A
  <2>1. PICK f : f = [i \in 0 .. 0 |-> a]
    OBVIOUS
  <2>2. f \in [0 .. 0 -> V] /\ f[0] = a
    BY <2>1
  <2>3. Good(0, f)
    BY <2>2 DEF Stepwise
  <2>. HIDE DEF Good
  <2>. QED  BY <2>2, <2>3
<1>2. ASSUME NEW n \in 0 .. L, n # L, n \in A PROVE n + 1 \in A
  <2>1. PICK f \in [0 .. n -> V] : Good(n, f)
    BY <1>2
  <2>2. n + 1 \in 1 .. L /\ n \in 0 .. n /\ n + 1 \in 0 .. L /\ n \in Nat
    BY <1>2
  <2>3. step[<<n + 1, f[n]>>] \in V
    BY <2>1, <2>2
  <2>4. PICK g : g = [i \in 0 .. n + 1 |-> IF i = n + 1 THEN step[<<n + 1, f[n]>>] ELSE f[i]]
    OBVIOUS
  <2>5. g \in [0 .. n + 1 -> V]
    BY <2>2, <2>3, <2>4
  <2>6. \A i \in 0 .. n : g[i] = f[i]
    BY <2>2, <2>4
  <2>7. g[n + 1] = step[<<n + 1, g[n]>>]
    <3>1. n + 1 \in 0 .. n + 1
      BY <2>2
    <3>2. g[n + 1] = step[<<n + 1, f[n]>>]
      BY <2>4, <3>1
    <3>. QED  BY <2>2, <2>6, <3>2
  <2>8. ASSUME NEW i \in 1 .. n + 1 PROVE g[i] = step[<<i, g[i - 1]>>]
    <3>1. CASE i = n + 1
      <4>1. i - 1 = n
        BY <2>2, <3>1
      <4>. QED  BY <2>7, <3>1, <4>1
    <3>2. CASE i # n + 1
      <4>1. i \in 1 .. n /\ i \in 0 .. n /\ i - 1 \in 0 .. n
        BY <2>2, <3>2
      <4>. QED  BY <2>1, <2>6, <4>1 DEF Stepwise
    <3>. QED  BY <3>1, <3>2
  <2>9. g[0] = a
    BY <2>1, <2>2, <2>6 DEF Stepwise
  <2>10. Good(n + 1, g)
    BY <2>8, <2>9 DEF Stepwise
  <2>. HIDE DEF Good
  <2>. QED  BY <2>2, <2>5, <2>10
<1>3. \A n \in 0 .. L : n \in A
  <2>. HIDE DEF A
  <2>. QED  BY <1>1, <1>2, InductionUpTo
<1>4. L \in A
  BY <1>3
<1>. QED  BY <1>4

\* The sums of weightedRandom.
LEMMA UpToSums ==
  ASSUME NEW s \in Seq(Backends)
  PROVE  /\ UpTo(s) \in [0 .. Len(s) -> Int] /\ UpTo(s)[0] = 0
         /\ \A i \in 1 .. Len(s) : /\ Share(s[i]) \in Int /\ Share(s[i]) >= 1
                                   /\ UpTo(s)[i] = UpTo(s)[i - 1] + Share(s[i])
<1>. DEFINE L == Len(s)
            Sums(f) == f = [i \in 0 .. L |-> IF i = 0 THEN 0 ELSE f[i - 1] + Share(s[i])]
<1>1. L \in Nat /\ \A i \in 1 .. L : s[i] \in Backends
  OBVIOUS
<1>2. \A i \in 1 .. L : Share(s[i]) \in Int /\ Share(s[i]) >= 1
  <2>1. \A i \in 1 .. L : Weight[s[i]] \in Int
    BY <1>1, RouterAssumption
  <2>. QED  BY <2>1 DEF Share
<1>3. \E f : Sums(f)
  <2>1. PICK step : step = [p \in (1 .. L) \X Int |-> p[2] + Share(s[p[1]])]
    OBVIOUS
  <2>2. \A i \in 1 .. L : \A x \in Int : step[<<i, x>>] \in Int
    BY <1>2, <2>1
  <2>3. \E f \in [0 .. L -> Int] : Stepwise(f, L, 0, step)
    <3>. HIDE DEF L, Sums
    <3>1. PICK V : V = Int
      OBVIOUS
    <3>2. 0 \in V /\ \A i \in 1 .. L : \A x \in V : step[<<i, x>>] \in V
      BY <2>2, <3>1
    <3>3. \E f \in [0 .. L -> V] : Stepwise(f, L, 0, step)
      BY <1>1, <3>2, StepwiseExists
    <3>. QED  BY <3>1, <3>3
  <2>4. PICK f \in [0 .. L -> Int] : f[0] = 0 /\ \A i \in 1 .. L : f[i] = step[<<i, f[i - 1]>>]
    BY <2>3 DEF Stepwise
  <2>5. ASSUME NEW i \in 0 .. L PROVE f[i] = IF i = 0 THEN 0 ELSE f[i - 1] + Share(s[i])
    <3>1. CASE i = 0
      BY <2>4, <3>1
    <3>2. CASE i # 0
      <4>1. i \in 1 .. L /\ i - 1 \in 0 .. L
        BY <1>1, <3>2
      <4>2. f[i - 1] \in Int /\ f[i] = step[<<i, f[i - 1]>>]
        BY <2>4, <4>1
      <4>. QED  BY <2>1, <3>2, <4>1, <4>2
    <3>. QED  BY <3>1, <3>2
  <2>. QED  BY <2>4, <2>5
<1>4. Sums(UpTo(s))
  <2>1. UpTo(s) = CHOOSE f : Sums(f)
    BY DEF UpTo
  <2>. QED  BY <1>3, <2>1
<1>5. PICK f : f = UpTo(s)
  OBVIOUS
<1>6. f = [i \in 0 .. L |-> IF i = 0 THEN 0 ELSE f[i - 1] + Share(s[i])]
  BY <1>4, <1>5
<1>7. f[0] = 0 /\ \A i \in 1 .. L : f[i] = f[i - 1] + Share(s[i])
  <2>1. 0 \in 0 .. L /\ \A i \in 1 .. L : i \in 0 .. L /\ i # 0
    BY <1>1
  <2>. QED  BY <1>6, <2>1
<1>8. \A n \in 0 .. L : f[n] \in Int
  <2>. DEFINE A == {n \in 0 .. L : f[n] \in Int}
  <2>1. 0 \in A
    BY <1>1, <1>7
  <2>2. ASSUME NEW n \in 0 .. L, n # L, n \in A PROVE n + 1 \in A
    <3>1. n + 1 \in 1 .. L /\ (n + 1) - 1 = n /\ n + 1 \in 0 .. L /\ f[n] \in Int
      BY <1>1, <2>2
    <3>. QED  BY <1>2, <1>7, <3>1
  <2>3. \A n \in 0 .. L : n \in A
    <3>. HIDE DEF A, L
    <3>. QED  BY <1>1, <2>1, <2>2, InductionUpTo
  <2>. QED  BY <2>3
<1>9. f \in [0 .. L -> Int]
  BY <1>6, <1>8
<1>. QED  BY <1>2, <1>5, <1>7, <1>9

\* getHealthyBackends returns a list of backends.
LEMMA HealthyList ==
  ASSUME RouterTypeOK, NEW list \in Seq(Backends)
  PROVE  getHealthyBackends(list) \in Seq(Backends)
<1>. DEFINE L == Len(list)
            Kept(f) == f = [i \in 0 .. L |->
                              IF i = 0 THEN <<>>
                              ELSE IF healthy[list[i]] THEN Append(f[i - 1], list[i])
                              ELSE f[i - 1]]
<1>1. L \in Nat /\ DOMAIN list = 1 .. L /\ \A i \in 1 .. L : list[i] \in Backends
  OBVIOUS
<1>2. \E f : Kept(f)
  <2>1. PICK step : step = [p \in (1 .. L) \X Seq(Backends) |->
                              IF healthy[list[p[1]]] THEN Append(p[2], list[p[1]]) ELSE p[2]]
    OBVIOUS
  <2>2. \A i \in 1 .. L : \A x \in Seq(Backends) :
          /\ step[<<i, x>>] = IF healthy[list[i]] THEN Append(x, list[i]) ELSE x
          /\ step[<<i, x>>] \in Seq(Backends)
    BY <1>1, <2>1
  <2>3. \E f \in [0 .. L -> Seq(Backends)] : Stepwise(f, L, <<>>, step)
    <3>. HIDE DEF L, Kept
    <3>1. PICK V : V = Seq(Backends)
      OBVIOUS
    <3>2. <<>> \in V /\ \A i \in 1 .. L : \A x \in V : step[<<i, x>>] \in V
      BY <2>2, <3>1
    <3>3. \E f \in [0 .. L -> V] : Stepwise(f, L, <<>>, step)
      BY <1>1, <3>2, StepwiseExists
    <3>. QED  BY <3>1, <3>3
  <2>4. PICK f \in [0 .. L -> Seq(Backends)] :
          f[0] = <<>> /\ \A i \in 1 .. L : f[i] = step[<<i, f[i - 1]>>]
    BY <2>3 DEF Stepwise
  <2>5. ASSUME NEW i \in 0 .. L
        PROVE  f[i] = IF i = 0 THEN <<>>
                      ELSE IF healthy[list[i]] THEN Append(f[i - 1], list[i]) ELSE f[i - 1]
    <3>1. CASE i = 0
      BY <2>4, <3>1
    <3>2. CASE i # 0
      <4>1. i \in 1 .. L /\ i - 1 \in 0 .. L
        BY <1>1, <3>2
      <4>2. f[i - 1] \in Seq(Backends) /\ f[i] = step[<<i, f[i - 1]>>]
        BY <2>4, <4>1
      <4>. QED  BY <2>2, <3>2, <4>1, <4>2
    <3>. QED  BY <3>1, <3>2
  <2>. QED  BY <2>4, <2>5
<1>3. PICK f : Kept(f) /\ getHealthyBackends(list) = f[L]
  <2>1. getHealthyBackends(list) = (CHOOSE f : Kept(f))[L]
    BY DEF getHealthyBackends
  <2>. QED  BY <1>2, <2>1
<1>4. f[0] = <<>> /\ \A i \in 1 .. L :
        f[i] = IF healthy[list[i]] THEN Append(f[i - 1], list[i]) ELSE f[i - 1]
  <2>1. 0 \in 0 .. L /\ \A i \in 1 .. L : i \in 0 .. L /\ i # 0
    BY <1>1
  <2>. QED  BY <1>3, <2>1
<1>. DEFINE A == {n \in 0 .. L : f[n] \in Seq(Backends)}
<1>. HIDE DEF Kept
<1>5. 0 \in A
  <2>1. f[0] \in Seq(Backends) /\ 0 \in 0 .. L
    BY <1>1, <1>4
  <2>. QED  BY <2>1
<1>6. ASSUME NEW n \in 0 .. L, n # L, n \in A PROVE n + 1 \in A
  <2>1. n \in Nat /\ n + 1 \in 1 .. L /\ (n + 1) - 1 = n /\ n + 1 \in 0 .. L
    <3>. HIDE DEF A, L
    <3>. QED  BY <1>1, <1>6
  <2>2. f[n] \in Seq(Backends) /\ list[n + 1] \in Backends
    BY <1>1, <1>6, <2>1
  <2>3. f[n + 1] = IF healthy[list[n + 1]] THEN Append(f[n], list[n + 1]) ELSE f[n]
    BY <1>4, <2>1
  <2>4. f[n + 1] \in Seq(Backends)
    BY <2>2, <2>3
  <2>. QED  BY <2>1, <2>4
<1>7. L \in A
  <2>1. \A n \in 0 .. L : n \in A
    <3>. HIDE DEF A, L
    <3>. QED  BY <1>1, <1>5, <1>6, InductionUpTo
  <2>2. L \in 0 .. L
    BY <1>1
  <2>. HIDE DEF A
  <2>. QED  BY <2>1, <2>2
<1>. QED  BY <1>3, <1>7

\* The draws for which weightedRandom takes the backend at place i.
LEMMA DrawsOf ==
  ASSUME NEW s \in Seq(Backends), s # <<>>, NEW i \in DOMAIN s
  PROVE  /\ {r \in Draws(s) : WeightedPlace(s, r) = i} = UpTo(s)[i - 1] .. UpTo(s)[i] - 1
         /\ Cardinality({r \in Draws(s) : WeightedPlace(s, r) = i}) = Share(s[i])
<1>1. PICK L \in Nat : L = Len(s) /\ DOMAIN s = 1 .. L /\ L # 0
  <2>1. Len(s) \in Nat /\ DOMAIN s = 1 .. Len(s) /\ Len(s) # 0
    OBVIOUS
  <2>. QED  BY <2>1
<1>2. PICK u : u = UpTo(s)
  OBVIOUS
<1>3. /\ u[0] = 0 /\ \A n \in 0 .. L : u[n] \in Int
      /\ \A n \in 1 .. L : Share(s[n]) \in Int /\ Share(s[n]) >= 1 /\ u[n] = u[n - 1] + Share(s[n])
  BY <1>1, <1>2, UpToSums
<1>4. \A n \in 0 .. L : \A m \in 0 .. n : u[m] <= u[n]
  <2>. DEFINE A == {n \in 0 .. L : \A m \in 0 .. n : u[m] <= u[n]}
  <2>1. 0 \in A
    BY <1>3
  <2>2. ASSUME NEW n \in 0 .. L, n # L, n \in A PROVE n + 1 \in A
    <3>1. n + 1 \in 1 .. L /\ n + 1 \in 0 .. L /\ (n + 1) - 1 = n /\ n \in 0 .. n
      BY <2>2
    <3>2. u[n] \in Int /\ u[n + 1] \in Int /\ u[n] <= u[n + 1]
      BY <1>3, <3>1
    <3>3. ASSUME NEW m \in 0 .. n + 1 PROVE u[m] <= u[n + 1]
      <4>1. CASE m = n + 1
        BY <3>2, <4>1
      <4>2. CASE m # n + 1
        <5>1. m \in 0 .. n /\ m \in 0 .. L
          BY <3>1, <4>2
        <5>2. u[m] \in Int /\ u[m] <= u[n]
          BY <1>3, <2>2, <5>1
        <5>. QED  BY <3>2, <5>2
      <4>. QED  BY <4>1, <4>2
    <3>. QED  BY <3>1, <3>3
  <2>3. \A n \in 0 .. L : n \in A
    <3>. HIDE DEF A
    <3>. QED  BY <2>1, <2>2, InductionUpTo
  <2>. QED  BY <2>3
<1>5. /\ i \in 1 .. L /\ i - 1 \in 0 .. L /\ i \in 0 .. L /\ L \in 0 .. L
      /\ 0 \in 0 .. i - 1 /\ i \in 0 .. L
  BY <1>1
<1>6. /\ u[i - 1] \in Int /\ u[i] \in Int /\ u[L] \in Int
      /\ 0 <= u[i - 1] /\ u[i] <= u[L] /\ u[i] = u[i - 1] + Share(s[i])
      /\ Share(s[i]) \in Int /\ Share(s[i]) >= 1
  BY <1>3, <1>4, <1>5
<1>7. ASSUME NEW r \in 0 .. u[L] - 1
      PROVE  WeightedPlace(s, r) = i <=> r \in u[i - 1] .. u[i] - 1
  <2>1. r \in Int /\ 0 <= r /\ r < u[L]
    BY <1>6, <1>7
  <2>2. PICK below : below = {j \in 1 .. L : r - u[j] < 0}
    OBVIOUS
  <2>3. L \in below /\ below \in SUBSET Nat /\ \A j \in below : j \in 1 .. L
    BY <1>1, <1>6, <2>1, <2>2
  <2>4. PICK m \in below : m = FirstOf(below) /\ \A j \in below : m <= j
    BY <2>3, FirstOfIn
  <2>5. WeightedPlace(s, r) = m
    <3>1. {j \in DOMAIN s : r - UpTo(s)[j] < 0} = below
      BY <1>1, <1>2, <2>2
    <3>. QED  BY <2>3, <2>4, <3>1 DEF WeightedPlace
  <2>6. m \in 1 .. L /\ m - 1 \in 0 .. L /\ m \in 0 .. L
    BY <2>3
  <2>7. u[m] \in Int /\ u[m - 1] \in Int /\ r < u[m]
    BY <1>3, <2>1, <2>2, <2>6
  <2>8. u[m - 1] <= r
    <3>1. CASE m = 1
      BY <1>3, <2>1, <3>1
    <3>2. CASE m # 1
      <4>1. m - 1 \in 1 .. L /\ ~(m <= m - 1)
        BY <2>6, <3>2
      <4>2. m - 1 \notin below
        BY <2>4, <4>1
      <4>3. ~(r - u[m - 1] < 0)
        BY <2>2, <4>1, <4>2
      <4>. QED  BY <2>1, <2>7, <4>3
    <3>. QED  BY <3>1, <3>2
  <2>9. ASSUME r \in u[i - 1] .. u[i] - 1 PROVE m = i
    <3>1. r < u[i] /\ u[i - 1] <= r
      BY <1>6, <2>1, <2>9
    <3>2. i \in below
      BY <1>5, <1>6, <2>1, <2>2, <3>1
    <3>3. m <= i
      BY <2>4, <3>2
    <3>4. ASSUME m # i PROVE FALSE
      <4>1. m \in 0 .. i - 1
        BY <1>5, <2>6, <3>3, <3>4
      <4>2. u[m] <= u[i - 1]
        BY <1>4, <1>5, <4>1
      <4>. QED  BY <1>6, <2>1, <2>7, <3>1, <4>2
    <3>. QED  BY <3>4
  <2>10. m = i => r \in u[i - 1] .. u[i] - 1
    BY <1>6, <2>1, <2>7, <2>8
  <2>. QED  BY <2>5, <2>9, <2>10
<1>8. u[i - 1] .. u[i] - 1 \subseteq 0 .. u[L] - 1
  BY <1>6
<1>9. Draws(s) = 0 .. u[L] - 1
  BY <1>1, <1>2 DEF Draws
<1>10. {r \in Draws(s) : WeightedPlace(s, r) = i} = u[i - 1] .. u[i] - 1
  BY <1>7, <1>8, <1>9
<1>11. Cardinality(u[i - 1] .. u[i] - 1) = Share(s[i])
  <2>1. PICK a, b \in Int : a = u[i - 1] /\ b = u[i] - 1
    BY <1>6
  <2>2. ~(a > b) /\ b - a + 1 = Share(s[i])
    BY <1>6, <2>1
  <2>3. Cardinality(a .. b) = b - a + 1
    BY <2>2, FS_Interval
  <2>. QED  BY <2>1, <2>2, <2>3
<1>. QED  BY <1>2, <1>10, <1>11

\* As many turns of roundRobin as there are backends visit each of them.
LEMMA TurnsVisitAll ==
  ASSUME NEW s \in Seq(Backends), s # <<>>
  PROVE  {RoundRobinPlace(s, n) : n \in 1 .. Len(s)} = DOMAIN s
<1>1. PICK L \in Nat : L = Len(s) /\ DOMAIN s = 1 .. L /\ L # 0
  <2>1. Len(s) \in Nat /\ DOMAIN s = 1 .. Len(s) /\ Len(s) # 0
    OBVIOUS
  <2>. QED  BY <2>1
<1>2. \A n \in 1 .. L : RoundRobinPlace(s, n) = ((n + 1) % L) + 1
  BY <1>1 DEF RoundRobinPlace
<1>3. ASSUME NEW n \in 1 .. L PROVE ((n + 1) % L) + 1 \in 1 .. L
  <2>1. (n + 1) % L \in 0 .. L - 1
    BY <1>1
  <2>. QED  BY <1>1, <2>1
<1>4. ASSUME NEW i \in 1 .. L PROVE \E n \in 1 .. L : ((n + 1) % L) + 1 = i
  <2>1. CASE L = 1
    <3>1. (1 + 1) % L = 0
      BY <2>1
    <3>. QED  BY <2>1, <3>1
  <2>2. CASE L # 1 /\ i = 1
    <3>1. PICK n \in 1 .. L : n + 1 = L
      <4>1. L - 1 \in 1 .. L /\ (L - 1) + 1 = L
        BY <1>1, <2>2
      <4>. QED  BY <4>1
    <3>2. (n + 1) % L = 0
      BY <1>1, <3>1
    <3>. QED  BY <2>2, <3>2
  <2>3. CASE L # 1 /\ i = 2
    <3>1. (L + 1) % L = 1
      BY <1>1, <2>3
    <3>. QED  BY <1>1, <2>3, <3>1
  <2>4. CASE i # 1 /\ i # 2
    <3>1. i - 2 \in 1 .. L /\ (i - 2) + 1 = i - 1 /\ i - 1 \in 0 .. L - 1
      BY <2>4
    <3>2. (i - 1) % L = i - 1
      BY <1>1, <3>1
    <3>. QED  BY <3>1, <3>2
  <2>. QED  BY <2>1, <2>2, <2>3, <2>4
<1>5. \A n \in 1 .. L : RoundRobinPlace(s, n) \in 1 .. L
  BY <1>2, <1>3
<1>6. \A i \in 1 .. L : \E n \in 1 .. L : RoundRobinPlace(s, n) = i
  BY <1>2, <1>4
<1>. QED  BY <1>1, <1>5, <1>6

\* Next spreads by weight, and in turn, over any list of any table: no healthy entry
\* is starved at either end of the list, and none without weight.
THEOREM LoadBalancerSpreadsFairly == LookupSpec => []SpreadsFairly
<1>1. RouterTypeOK => SpreadsFairly
  <2>. SUFFICES ASSUME RouterTypeOK, NEW list \in Lists,
                       NEW s, s = getHealthyBackends(list), s # <<>>
                PROVE  /\ \A i \in DOMAIN s :
                            Cardinality({r \in Draws(s) : WeightedPlace(s, r) = i}) = Share(s[i])
                       /\ {RoundRobinPlace(s, n) : n \in 1 .. Len(s)} = DOMAIN s
    BY DEF SpreadsFairly
  <2>1. PICK n \in 0 .. MaxList : list \in [1 .. n -> registered]
    BY DEF Lists
  <2>2. list \in Seq(Backends)
    <3>1. n \in Nat /\ registered \subseteq Backends
      BY <2>1, LoadBalancerAssumption DEF RouterTypeOK
    <3>2. list \in [1 .. n -> Backends]
      BY <2>1, <3>1
    <3>. QED  BY <3>1, <3>2
  <2>3. s \in Seq(Backends)
    BY <2>2, HealthyList
  <2>4. \A i \in DOMAIN s :
          Cardinality({r \in Draws(s) : WeightedPlace(s, r) = i}) = Share(s[i])
    BY <2>3, DrawsOf
  <2>. QED  BY <2>3, <2>4, TurnsVisitAll
<1>2. LookupInv => RouterTypeOK
  BY DEF LookupInv, LookupTypes
<1>. QED  BY <1>1, <1>2, LookupInvariant, PTL

\* Where a hint or a rule decides, a read tries first the backend a write of the
\* key goes to, in every table of backends, rules and hints and whatever is up
\* (router.go GetBackend, GetBackendsForRead).
THEOREM RouterReadsWhereItWrites == LookupSpec => []ReadsWhereItWrites
<1>1. LookupInv => ReadsWhereItWrites
  BY DecidesAlike DEF LookupInv, LookupTypes
<1>. QED  BY <1>1, LookupInvariant, PTL

-----------------------------------------------------------------------------
(* The router of the running service *)

\* The routing of a write never fails: some backend is up, and it is registered.
WritesAreRouted ==
  \A k \in Keys : GetBackend(k, NoHint) # {} /\ GetBackend(k, NoHint) \subseteq Backends

\* The memory backend stays up, and the rules stay as SetRules has sorted them.
TableStands == healthy[Local] /\ Sorted

\* SetRules sorts, and the memory backend is up from the start.
LEMMA InitTableStands == Init => TableStands
<1>. SUFFICES ASSUME Init PROVE TableStands
  OBVIOUS
<1>1. Rules \in Seq(Rule) /\ Local \in Backends
  BY CacheAssumption
<1>2. \A i, j \in DOMAIN rules : i < j => rules[i].priority >= rules[j].priority
  BY <1>1, ByPriorityOf DEF Init
<1>. QED  BY <1>1, <1>2 DEF Init, TableStands, Sorted

\* A request leaves the table alone.
LEMMA RequestLeavesTable ==
  ASSUME NEW p \in Procs, StartGet(p) \/ StartSet(p) \/ StartDelete(p) \/ Request(p)
  PROVE  UNCHANGED routerVars
<1>1. CASE StartGet(p) \/ StartSet(p) \/ StartDelete(p)
  <2>1. PICK request, label : Begins(p, request, label)
    BY <1>1, StartBegins
  <2>. QED  BY <2>1 DEF Begins, Start
<1>2. CASE GetLocal(p) \/ GetRoute(p) \/ GetFound(p) \/ GetTryNext(p) \/ GetGiveUp(p)
  BY <1>2 DEF GetLocal, GetRoute, GetFound, GetTryNext, GetGiveUp
<1>3. CASE CheckVersion(p) \/ SetLocal(p) \/ DeleteLocal(p)
  BY <1>3 DEF CheckVersion, SetLocal, DeleteLocal
<1>4. CASE RouteWrite(p) \/ SetBackend(p) \/ DeleteBackend(p)
  BY <1>4 DEF RouteWrite, SetBackend, DeleteBackend
<1>. QED  BY <1>1, <1>2, <1>3, <1>4 DEF Request

\* Only the flag of a flaky backend moves.
LEMMA StepTableStands == CInv /\ TableStands /\ [Next]_cacheVars => TableStands'
<1>. SUFFICES ASSUME CInv, TableStands, [Next]_cacheVars PROVE TableStands'
  OBVIOUS
<1>1. ASSUME UNCHANGED routerVars PROVE TableStands'
  BY <1>1 DEF TableStands, Sorted, routerVars
<1>2. CASE HealthChange
  <2>1. PICK b \in Flaky : SetHealthy(b, ~healthy[b])
    BY <1>2 DEF HealthChange
  <2>2. b # Local /\ Local \in Backends /\ healthy \in [Backends -> BOOLEAN]
    BY CacheAssumption DEF CInv, Types, RouterTypeOK
  <2>. QED  BY <2>1, <2>2 DEF SetHealthy, TableStands, Sorted
<1>3. CASE Fill \/ InvalidateLocal \/ Expire
  <2>1. UNCHANGED routerVars
    BY <1>3 DEF Fill, InvalidateLocal, Expire
  <2>. QED  BY <1>1, <2>1
<1>4. CASE \E p \in Procs : StartGet(p) \/ StartSet(p) \/ StartDelete(p) \/ Request(p)
  BY <1>1, <1>4, RequestLeavesTable
<1>5. CASE UNCHANGED cacheVars
  BY <1>1, <1>5 DEF cacheVars
<1>. QED  BY <1>2, <1>3, <1>4, <1>5 DEF Next

\* cache.go returns an error when GetBackend fails for a Set or a Delete; while the
\* memory backend is registered that branch is never taken, whatever the rules say
\* and whichever other backends are down.
THEOREM CacheWritesAreRouted == Spec => []WritesAreRouted
<1>1. CInv /\ TableStands => WritesAreRouted
  <2>. SUFFICES ASSUME CInv, TableStands, NEW k \in Keys
                PROVE  GetBackend(k, NoHint) # {} /\ GetBackend(k, NoHint) \subseteq Backends
    BY DEF WritesAreRouted
  <2>1. RouterTypeOK /\ Types
    BY DEF CInv, Types
  <2>2. Local \in UpSet
    BY <2>1, CacheAssumption DEF Types, TableStands, UpSet
  <2>3. GetBackend(k, NoHint) # {}
    BY <2>1, <2>2, FindsOneUp DEF FailsOnlyWhenAllDown, AllHints
  <2>. QED  BY <2>1, <2>3, WriteTarget
<1>. QED  BY <1>1, InitCInv, InitTableStands, StepCInv, StepTableStands, PTL DEF Spec

\* The read list of a Get is by priority.
Ordered ==
  \A p \in Procs :
    pc[p] = "getTry" =>
      \A i, j \in DOMAIN todo[p] : i < j => ~Outranks(Key(p), todo[p][j], todo[p][i])

\* Priorities are numbers.
LEMMA Priorities == RouterTypeOK => \A i \in DOMAIN rules : rules[i].priority \in Int
<1>. SUFFICES ASSUME RouterTypeOK, NEW i \in DOMAIN rules PROVE rules[i].priority \in Int
  OBVIOUS
<1>1. rules \in Seq(Rule)
  BY DEF RouterTypeOK
<1>2. rules[i] \in Rule
  BY <1>1
<1>. QED  BY <1>2 DEF Rule

\* No backend outranks itself.
LEMMA NotOverItself ==
  ASSUME RouterTypeOK, NEW k, NEW b
  PROVE  ~Outranks(k, b, b)
BY Priorities DEF Outranks

\* Where no hint is given a backend that is up comes before those it outranks.
LEMMA RankByPriority ==
  ASSUME RouterTypeOK, Sorted, NEW k, NEW b \in UpSet, NEW c \in UpSet, Outranks(k, c, b)
  PROVE  ~(Rank(k, NoHint, b) <= Rank(k, NoHint, c))
<1>. DEFINE ruleAt(d) == {i \in RuleHits(k) : rules[i].backend = d}
            N == Len(rules)
<1>1. rules \in Seq(Rule) /\ N \in Nat /\ DOMAIN rules = 1 .. N /\ RuleHits(k) \subseteq 1 .. N
  BY DEF RouterTypeOK, RuleHits
<1>2. \A i \in 1 .. N : rules[i].priority \in Int
  BY <1>1, Priorities
<1>3. ASSUME NEW d
      PROVE  Rank(k, NoHint, d) = IF ruleAt(d) # {} THEN 0 + FirstOf(ruleAt(d)) ELSE 0 + N + 1
  <2>1. Route(NoHint) = <<>> /\ HintHits(NoHint) = {} /\ Len(Route(NoHint)) = 0
    BY DEF HintHits, Route
  <2>. QED  BY <2>1 DEF Rank
<1>4. ASSUME NEW d, ruleAt(d) # {}
      PROVE  FirstOf(ruleAt(d)) \in ruleAt(d) /\ \A j \in ruleAt(d) : FirstOf(ruleAt(d)) <= j
  <2>1. ruleAt(d) \in SUBSET Nat
    BY <1>1
  <2>. QED  BY <1>4, <2>1, FirstOfIn
<1>5. \A d \in {b, c} : \A i \in 1 .. N :
        i \in ruleAt(d) <=> k \in rules[i].keys /\ rules[i].strategy # "blacklist" /\ rules[i].backend = d
  BY <1>1 DEF RuleHits, Up, UpSet
<1>6. PICK i \in ruleAt(c) : \A j \in ruleAt(b) : rules[j].priority < rules[i].priority
  <2>. HIDE DEF N
  <2>. QED  BY <1>1, <1>5 DEF Outranks
<1>7. i \in 1 .. N
  BY <1>1
<1>. HIDE DEF ruleAt, N
<1>8. FirstOf(ruleAt(c)) \in 1 .. N /\ FirstOf(ruleAt(c)) <= i
  BY <1>1, <1>4, <1>6 DEF ruleAt
<1>9. CASE ruleAt(b) = {}
  <2>1. Rank(k, NoHint, b) = N + 1 /\ Rank(k, NoHint, c) = FirstOf(ruleAt(c))
    BY <1>1, <1>3, <1>6, <1>8, <1>9
  <2>. QED  BY <1>1, <1>8, <2>1
<1>10. CASE ruleAt(b) # {}
  <2>1. PICK m \in 1 .. N : m = FirstOf(ruleAt(b)) /\ m \in ruleAt(b)
    BY <1>1, <1>4, <1>10 DEF ruleAt
  <2>2. rules[m].priority < rules[i].priority
    BY <1>6, <2>1
  <2>3. ~(m < i) /\ m # i
    BY <1>1, <1>2, <1>7, <2>2 DEF Sorted
  <2>4. Rank(k, NoHint, b) = m /\ Rank(k, NoHint, c) = FirstOf(ruleAt(c))
    BY <1>1, <1>3, <1>6, <1>8, <1>10, <2>1
  <2>5. m > i
    BY <1>1, <1>7, <2>1, <2>3
  <2>. QED  BY <1>1, <1>7, <1>8, <2>1, <2>4, <2>5
<1>. QED  BY <1>9, <1>10

\* A read list is by priority when it is made, and what is left of it stays so.
LEMMA StepOrdered ==
  CInv /\ CInv' /\ TableStands /\ Ordered /\ [Next]_cacheVars => Ordered'
<1>. SUFFICES ASSUME CInv, CInv', TableStands, Ordered, [Next]_cacheVars PROVE Ordered'
  OBVIOUS
<1>0. Types /\ Control /\ RouterTypeOK
  BY DEF CInv, Types
<1>1. ASSUME NEW q \in Procs, rules' = rules, req'[q] = req[q], todo'[q] = todo[q],
             pc'[q] = "getTry" => pc[q] = "getTry"
      PROVE  pc'[q] = "getTry" =>
               \A i, j \in DOMAIN todo'[q] : i < j => ~Outranks(Key(q), todo[q][j], todo[q][i])'
  BY <1>1 DEF Ordered, Outranks, Key
<1>2. ASSUME NEW p \in Procs, StartGet(p) \/ StartSet(p) \/ StartDelete(p) PROVE Ordered'
  <2>1. PICK request, label : Begins(p, request, label)
    BY <1>2, StartBegins
  <2>2. /\ rules' = rules /\ pc'[p] # "getTry"
        /\ \A q \in Procs \ {p} : pc'[q] = pc[q] /\ req'[q] = req[q] /\ todo'[q] = todo[q]
    BY <1>0, <2>1 DEF Begins, Start, Goto, routerVars, Types
  <2>. QED  BY <1>1, <2>2 DEF Ordered
<1>3. ASSUME NEW p \in Procs, Request(p) PROVE Ordered'
  <2>1. /\ rules' = rules /\ req' = req
        /\ \A q \in Procs \ {p} : pc'[q] = pc[q] /\ todo'[q] = todo[q]
    BY <1>0, <1>3, RequestAlone DEF OfRequest, routerVars
  <2>2. \A k, b, c : Outranks(k, c, b)' = Outranks(k, c, b)
    BY <2>1 DEF Outranks
  <2>3. pc'[p] = "getTry" =>
          \A i, j \in DOMAIN todo'[p] : i < j => ~Outranks(Key(p), todo'[p][j], todo'[p][i])
    <3>1. CASE GetRoute(p)
      <4>1. PICK s \in GetBackendsForRead(Key(p), NoHint) : todo'[p] = s
        BY <1>0, <3>1 DEF GetRoute, Types
      <4>2. /\ \A i \in DOMAIN s : s[i] \in UpSet
            /\ \A i, j \in DOMAIN s : i < j => Rank(Key(p), NoHint, s[i]) <= Rank(Key(p), NoHint, s[j])
        BY <1>0, ReadList DEF GetBackendsForRead
      <4>3. Sorted
        BY DEF TableStands
      <4>. QED  BY <1>0, <4>1, <4>2, <4>3, RankByPriority
    <3>2. CASE GetTryNext(p)
      <4>1. pc[p] = "getTry" /\ todo[p] # <<>> /\ todo'[p] = Tail(todo[p]) /\ todo[p] \in Seq(Backends)
        BY <1>0, <3>2 DEF GetTryNext, Types
      <4>2. \A i \in DOMAIN Tail(todo[p]) :
              i \in Nat /\ i + 1 \in DOMAIN todo[p] /\ Tail(todo[p])[i] = todo[p][i + 1]
        BY <4>1
      <4>3. \A i, j \in DOMAIN Tail(todo[p]) : i < j => i + 1 < j + 1
        BY <4>2
      <4>. QED  BY <4>1, <4>2, <4>3 DEF Ordered
    <3>3. CASE ~GetRoute(p) /\ ~GetTryNext(p)
      <4>1. pc'[p] # "getTry"
        BY <1>0, <1>3, <3>3
        DEF Request, GetLocal, GetFound, GetGiveUp, CheckVersion, SetLocal, DeleteLocal, RouteWrite,
            SetBackend, DeleteBackend, Serve, Return, Fail, Goto, AfterCheck, Types
      <4>. QED  BY <4>1
    <3>. QED  BY <3>1, <3>2, <3>3
  <2>. QED  BY <2>1, <2>2, <2>3 DEF Ordered, Key
<1>4. CASE Fill \/ InvalidateLocal \/ Expire
  BY <1>1, <1>4 DEF Fill, InvalidateLocal, Expire, procVars, routerVars, Ordered
<1>5. CASE HealthChange
  BY <1>1, <1>5 DEF HealthChange, SetHealthy, procVars, Ordered
<1>6. CASE UNCHANGED cacheVars
  BY <1>1, <1>6 DEF cacheVars, procVars, routerVars, Ordered
<1>. QED  BY <1>2, <1>3, <1>4, <1>5, <1>6 DEF Next

\* A read that has met no error is not answered from a backend while one that the
\* rules prefer for the key has been up and has held it since the read began
\* (CacheService!ReadsByPriority; cache.go Get, router.go GetBackendsForRead, SetRules).
THEOREM CacheReadsByPriority == Spec => ReadsByPriority
<1>. DEFINE OInv == CInv /\ TableStands /\ Ordered
<1>1. Init => OInv
  <2>1. Init => Ordered
    BY DEF Init, Ordered
  <2>. QED  BY <2>1, InitCInv, InitTableStands
<1>2. OInv /\ [Next]_cacheVars => OInv'
  BY StepCInv, StepTableStands, StepOrdered
<1>3. ASSUME OInv, NEW p \in Procs, pc[p] = "getTry", todo[p] # <<>>, lastErr[p] = "none",
             NEW c \in held[p]
      PROVE  ~Outranks(Key(p), c, Head(todo[p]))
  <2>1. RouterTypeOK /\ todo[p] \in Seq(Backends)
    BY <1>3 DEF CInv, Types
  <2>2. PICK i \in DOMAIN todo[p] : todo[p][i] = c
    BY <1>3 DEF CInv, Misses
  <2>3. Head(todo[p]) = todo[p][1] /\ 1 \in DOMAIN todo[p] /\ (i = 1 \/ 1 < i)
    BY <1>3, <2>1, <2>2
  <2>. QED  BY <1>3, <2>1, <2>2, <2>3, NotOverItself DEF Ordered
<1>4. OInv /\ [Next]_cacheVars =>
        [\A p \in Procs :
           pc[p] = "getTry" /\ todo[p] # <<>> /\ pc'[p] = "idle" /\ lastErr[p] = "none" =>
             \A c \in held[p] : ~Outranks(Key(p), c, Head(todo[p]))]_cacheVars
  BY <1>3
<1>. HIDE DEF OInv
<1>. QED  BY <1>1, <1>2, <1>4, PTL DEF Spec, ReadsByPriority
=============================================================================
