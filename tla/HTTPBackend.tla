----------------------------- MODULE HTTPBackend -----------------------------
(***************************************************************************)
(* Get, Set and Delete of internal/storage/http/http.go against a REST     *)
(* service.  DoTimeout sends a copy of the request and gives up after the  *)
(* timeout: what was sent stays under way and may be served later.  The    *)
(* body of a response lies in a buffer of fasthttp's pool; the deferred    *)
(* ReleaseResponse gives the buffer back, and the next response that       *)
(* arrives, wanted or late, may be read into it.                           *)
(*                                                                         *)
(* A value is the number of the call that set it, 0 is no value (also the  *)
(* text of an error response).  The service and the network are external.  *)
(***************************************************************************)
EXTENDS Integers, FiniteSets

CONSTANTS
  Callers,  \* goroutines of the cache service
  Keys,
  Buffers,  \* body buffers of the response pool
  Formats,  \* how the service writes the body of a value, of BodyFormats
  MaxOps    \* bound on the calls made

\* json: {"value": ...}, which json.Unmarshal copies out of the body;
\* raw: bytes that are no JSON object, returned as they are.
BodyFormats == {"json", "raw"}

Nobody == "nobody"

ASSUME HTTPAssumption ==
  /\ Buffers # {}
  /\ Nobody \notin Callers
  /\ Formats \subseteq BodyFormats
  /\ MaxOps \in Nat

VARIABLES
  healthy,  \* h.healthy
  pc, req,  \* req[c]: the call c makes; pc[c]: where it is, or the answer it got
  result,   \* result[c]: what the last call of c returned
  entry,    \* entry[c]: the entry Get returned to c
  buffer,   \* buffer[b]: the bytes in the buffer
  owner,    \* owner[b]: the caller whose response holds b, or Nobody
  cached,   \* cached[k]: the entry the local cache was filled with
  ops,      \* calls made
  store,    \* external: store[k], the value the service holds
  wire,     \* external: requests sent and not yet served
  answers,  \* external: answers not yet received
  sets,     \* history: the Sets that were sent
  applied,  \* history: the Sets and Deletes the service has carried out
  seen      \* history: seen[c], what the key has held since c's Get was sent

poolVars == <<buffer, owner>>
serviceVars == <<store, wire, answers>>
callVars == <<pc, req, result, entry>>
vars == <<healthy, callVars, poolVars, cached, ops, serviceVars, sets, applied, seen>>

Kinds == {"get", "set", "delete"}
Answered == {"ok", "notFound", "refused"}
NoReq == [op |-> 0, kind |-> "none", key |-> "none"]
Copy(n) == [in |-> "memory", value |-> n]
Alias(b) == [in |-> "buffer", of |-> b]

\* What one sees when looking at the entry now.
Bytes(e) == IF e.in = "memory" THEN e.value ELSE buffer[e.of]

Init ==
  /\ healthy = TRUE
  /\ pc = [c \in Callers |-> "idle"]
  /\ req = [c \in Callers |-> NoReq]
  /\ result = [c \in Callers |-> "none"]
  /\ entry = [c \in Callers |-> Copy(0)]
  /\ buffer = [b \in Buffers |-> 0]
  /\ owner = [b \in Buffers |-> Nobody]
  /\ cached = [k \in Keys |-> Copy(0)]
  /\ ops = 0
  /\ store = [k \in Keys |-> 0]
  /\ wire = {} /\ answers = {}
  /\ sets = {} /\ applied = {}
  /\ seen = [c \in Callers |-> {}]

Goto(c, label) == pc' = [pc EXCEPT ![c] = label]
Return(c, r) == result' = [result EXCEPT ![c] = r] /\ Goto(c, "idle")
Forget(c) == seen' = [seen EXCEPT ![c] = {}]

-----------------------------------------------------------------------------
(* The callers *)

\* The check of Healthy(); then DoTimeout sends the request.
Call(c, kind, k) ==
  LET r == [op |-> ops + 1, kind |-> kind, key |-> k] IN
  /\ pc[c] = "idle" /\ ops < MaxOps
  /\ ops' = ops + 1
  /\ req' = [req EXCEPT ![c] = r]
  /\ \/ /\ healthy
        /\ Goto(c, "waiting")
        /\ wire' = wire \cup {r}
        /\ sets' = IF kind = "set" THEN sets \cup {r} ELSE sets
        /\ seen' = [seen EXCEPT ![c] = IF kind = "get" THEN {store[k]} ELSE {}]
        /\ result' = [result EXCEPT ![c] = "none"]
     \/ /\ ~healthy
        /\ Return(c, "unhealthy")
        /\ UNCHANGED <<wire, sets, seen>>
  /\ UNCHANGED <<healthy, entry, poolVars, cached, store, answers, applied>>

Waits(c, a) == pc[c] = "waiting" /\ req[c].op = a.op

\* An answer is read into a buffer of the pool.  When its caller has given up,
\* the goroutine of DoTimeout releases the response at once.
Receive ==
  \E a \in answers, b \in Buffers :
    /\ owner[b] = Nobody
    /\ buffer' = [buffer EXCEPT ![b] = a.value]
    /\ \/ \E c \in Callers :
            Waits(c, a) /\ owner' = [owner EXCEPT ![b] = c] /\ Goto(c, a.status)
       \/ (\A c \in Callers : ~Waits(c, a)) /\ UNCHANGED <<owner, pc>>
    /\ answers' = answers \ {a}
    /\ UNCHANGED <<healthy, req, result, entry, cached, ops, store, wire, sets, applied, seen>>

\* DoTimeout returns an error, whatever has become of the request.
Timeout(c) ==
  /\ pc[c] = "waiting"
  /\ Return(c, "error")
  /\ Forget(c)
  /\ UNCHANGED <<healthy, req, entry, poolVars, cached, ops, serviceVars, sets, applied>>

ReleaseOnSuccess(c) ==
  owner' = [b \in Buffers |-> IF owner[b] = c /\ pc[c] = "ok" THEN Nobody ELSE owner[b]]
\* defer fasthttp.ReleaseResponse(resp), on every return.
Release(c) == owner' = [b \in Buffers |-> IF owner[b] = c THEN Nobody ELSE owner[b]]

DecodeInPlace(b) == {Alias(b)}
\* The entry made of a body: json.Unmarshal copies, "Value: body" does not.
Decode(b) ==
  {Copy(buffer[b]) : f \in Formats \cap {"json"}} \cup {Alias(b) : f \in Formats \cap {"raw"}}

\* Get on 200: the entry is the caller's, the buffer is the pool's again.
ReturnEntry(c) ==
  /\ pc[c] = "ok" /\ req[c].kind = "get"
  /\ \E b \in Buffers : \E e \in Decode(b) :
       owner[b] = c /\ entry' = [entry EXCEPT ![c] = e]
  /\ result' = [result EXCEPT ![c] = "ok"]
  /\ Goto(c, "serving")
  /\ Forget(c)
  /\ Release(c)
  /\ UNCHANGED <<healthy, req, buffer, cached, ops, serviceVars, sets, applied>>

StatusIgnored(kind, status) == IF kind = "get" THEN "notFound" ELSE "ok"
\* What the answer's status is to the caller: only Get knows 404.
Outcome(kind, status) ==
  CASE status = "ok"                        -> "ok"
    [] status = "notFound" /\ kind = "get"  -> "notFound"
    [] OTHER                                -> "error"

\* Every other return after an answer.
ReturnStatus(c) ==
  /\ pc[c] \in Answered
  /\ req[c].kind = "get" => pc[c] # "ok"
  /\ Return(c, Outcome(req[c].kind, pc[c]))
  /\ Forget(c)
  /\ Release(c)
  /\ UNCHANGED <<healthy, req, entry, buffer, cached, ops, serviceVars, sets, applied>>

\* The caller writes the entry out; the fill of the local cache keeps the
\* same slice, if it is accepted.
UseEntry(c) ==
  /\ pc[c] = "serving"
  /\ Goto(c, "idle")
  /\ entry' = [entry EXCEPT ![c] = Copy(0)]
  /\ cached' \in {cached, [cached EXCEPT ![req[c].key] = entry[c]]}
  /\ UNCHANGED <<healthy, req, result, poolVars, ops, serviceVars, sets, applied, seen>>

\* Ping, or the health checker, writes the flag.
SetHealthy ==
  /\ healthy' = ~healthy
  /\ UNCHANGED <<callVars, poolVars, cached, ops, serviceVars, sets, applied, seen>>

-----------------------------------------------------------------------------
(* The service: external.  A lost request is one that is never served, a     *)
(* lost answer one that is never received.                                   *)

Answer(r, status, value) ==
  answers' = answers \cup {[op |-> r.op, status |-> status, value |-> value]}

InCall(c) == pc[c] = "waiting" \/ pc[c] \in Answered

Hold(k, v) ==
  /\ store' = [store EXCEPT ![k] = v]
  /\ seen' = [c \in Callers |->
       IF InCall(c) /\ req[c].kind = "get" /\ req[c].key = k THEN seen[c] \cup {v} ELSE seen[c]]

\* A Get answers with the value; a Set or Delete is carried out and said to be,
\* or not (an error of the service after it has stored the value).
Serve ==
  \E r \in wire :
    /\ wire' = wire \ {r}
    /\ \/ /\ \/ Answer(r, "refused", 0)
             \/ r.kind # "set" /\ store[r.key] = 0 /\ Answer(r, "notFound", 0)
             \/ r.kind = "get" /\ store[r.key] # 0 /\ Answer(r, "ok", store[r.key])
          /\ UNCHANGED <<store, applied, seen>>
       \/ /\ r.kind # "get"
          /\ Hold(r.key, IF r.kind = "set" THEN r.op ELSE 0)
          /\ applied' = applied \cup {r.op}
          /\ \E status \in {"ok", "refused"} : Answer(r, status, 0)
    /\ UNCHANGED <<healthy, callVars, poolVars, cached, ops, sets>>

\* The ttl of a Set runs out.
Expire ==
  \E k \in Keys :
    /\ store[k] # 0
    /\ Hold(k, 0)
    /\ UNCHANGED <<healthy, callVars, poolVars, cached, ops, wire, answers, sets, applied>>

-----------------------------------------------------------------------------

Caller(c) == Timeout(c) \/ ReturnEntry(c) \/ ReturnStatus(c) \/ UseEntry(c)

Next ==
  \/ \E c \in Callers : Caller(c) \/ \E kind \in Kinds, k \in Keys : Call(c, kind, k)
  \/ Receive \/ Serve \/ Expire \/ SetHealthy

Spec == Init /\ [][Next]_vars

-----------------------------------------------------------------------------
(* Properties *)

WrittenTo(k) == {r.op : r \in {s \in sets : s.key = k}}
Held(c) == {b \in Buffers : owner[b] = c}

\* The variables keep their types, and a response is held by exactly the
\* callers that are looking at it: no return of Get, Set or Delete leaks one.
TypeOK ==
  /\ healthy \in BOOLEAN
  /\ pc \in [Callers -> {"idle", "waiting", "serving"} \cup Answered]
  /\ result \in [Callers -> {"none", "ok", "notFound", "error", "unhealthy"}]
  /\ buffer \in [Buffers -> 0 .. MaxOps]
  /\ owner \in [Buffers -> Callers \cup {Nobody}]
  /\ \A c \in Callers : Cardinality(Held(c)) = IF pc[c] \in Answered THEN 1 ELSE 0
  /\ store \in [Keys -> 0 .. MaxOps]
  /\ {r.op : r \in wire} \cap {a.op : a \in answers} = {}
  /\ applied \subseteq 1 .. ops

\* PROMPT.txt:3, the caller need not care whether the data have been swapped:
\* what Get returned, and what the local cache took over from it, stays a
\* value its own key was set to, whatever responses arrive meanwhile.
OwnBytes ==
  /\ \A c \in Callers : pc[c] = "serving" => Bytes(entry[c]) \in WrittenTo(req[c].key)
  /\ \A k \in Keys : Bytes(cached[k]) \in WrittenTo(k) \cup {0}

\* The register of KVRegister: a call is open from the request to the return, a
\* write is pending while its request is on the wire, and the answer to a Get is
\* what its caller sees in the entry while it serves it.
openCalls == [c \in Callers |-> IF InCall(c) THEN req[c] ELSE NoReq]
unserved == {r \in wire : r.kind # "get"}
returned == [c \in Callers |->
  [status |-> result[c], value |-> IF pc[c] = "serving" THEN Bytes(entry[c]) ELSE 0]]

Register == INSTANCE KVRegister WITH
  issued <- ops, call <- openCalls, pending <- unserved, done <- applied, answer <- returned

\* The backend keeps the promises of KVRegister whatever is lost, late, refused
\* or half done: nil is returned only for what has been carried out, "key not
\* found" only if the key was absent during the call and never for a timeout or
\* a refusal, and a Get's entry is one value the key held during the call and
\* stays so while it is served.
ImplementsRegister == Register!Spec
=============================================================================
