-------------------------- MODULE HTTPBackend_proofs --------------------------
(***************************************************************************)
(* HTTPBackend implements KVRegister, for every set of callers, keys and   *)
(* buffers, when the service answers with JSON objects; and an entry keeps *)
(* the bytes of its own key.  Whatever it answers with, no response buffer *)
(* is leaked.                                                              *)
(***************************************************************************)
EXTENDS HTTPBackend, FiniteSetTheorems, TLAPS

Request == [op : Nat, kind : Kinds, key : Keys]
AnswerOf == [op : Nat, status : Answered, value : Nat]
Places == {"idle", "waiting", "serving"} \cup Answered
Entries == [in : {"memory"}, value : Nat]

Types ==
  /\ pc \in [Callers -> Places]
  /\ req \in [Callers -> Request \cup {NoReq}]
  /\ result \in [Callers -> {"none", "ok", "notFound", "error", "unhealthy"}]
  /\ entry \in [Callers -> Entries]
  /\ buffer \in [Buffers -> Nat]
  /\ owner \in [Buffers -> Callers \cup {Nobody}]
  /\ cached \in [Keys -> Entries]
  /\ ops \in Nat
  /\ store \in [Keys -> Nat]
  /\ wire \subseteq Request
  /\ answers \subseteq AnswerOf
  /\ sets \subseteq Request
  /\ applied \subseteq Nat
  /\ seen \in [Callers -> SUBSET Nat]

Reading(c) == InCall(c) /\ req[c].kind = "get"

\* An open call has a request of its own, and the numbers of requests and
\* answers identify the call they belong to.
Matched ==
  /\ \A c \in Callers : InCall(c) => req[c] \in Request
  /\ \A c \in Callers : pc[c] = "serving" => req[c] \in Request
  /\ \A c \in Callers : req[c].op <= ops
  /\ \A r \in wire : r.op <= ops
  /\ \A a \in answers : a.op <= ops
  /\ \A r \in wire, c \in Callers : pc[c] = "waiting" /\ req[c].op = r.op => req[c] = r

\* A buffer is held while its caller looks at the answer in it.
HeldAnswered == \A b \in Buffers, c \in Callers : owner[b] = c => pc[c] \in Answered

\* What the status says of c's call is so.
Told(c, status) ==
  /\ status = "notFound" /\ req[c].kind = "get" => 0 \in seen[c]
  /\ status = "ok" /\ req[c].kind # "get" => req[c].op \in applied
Given(c, status, value) ==
  status = "ok" /\ req[c].kind = "get" => value # 0 /\ value \in seen[c]

Truthful ==
  /\ \A a \in answers, c \in Callers : Waits(c, a) => Told(c, a.status) /\ Given(c, a.status, a.value)
  /\ \A c \in Callers : pc[c] \in Answered => Told(c, pc[c])
  /\ \A b \in Buffers, c \in Callers : owner[b] = c => Given(c, pc[c], buffer[b])

\* A Get has seen what is there now.
SeesStore == \A c \in Callers : Reading(c) => store[req[c].key] \in seen[c]

\* Values are found under the key they were set for.
OwnKey ==
  /\ \A r \in wire : r.kind = "set" => r \in sets
  /\ \A k \in Keys : store[k] \in WrittenTo(k) \cup {0}
  /\ \A c \in Callers : Reading(c) => seen[c] \subseteq WrittenTo(req[c].key) \cup {0}
  /\ \A c \in Callers : pc[c] = "serving" => entry[c].value \in WrittenTo(req[c].key)
  /\ \A k \in Keys : cached[k].value \in WrittenTo(k) \cup {0}

HInv == Types /\ Matched /\ HeldAnswered /\ Truthful /\ SeesStore /\ OwnKey

-----------------------------------------------------------------------------

\* The invariant holds before the first call.
LEMMA HInit == Init => HInv
  BY HTTPAssumption DEF Init, HInv, Types, Matched, HeldAnswered, Truthful, SeesStore, OwnKey, Reading,
       InCall, Copy, Entries, Places, Answered, NoReq, Waits, WrittenTo

\* A call that is sent adds one request with a new number, one that is not adds nothing.
LEMMA CallKeeps ==
  ASSUME HInv, NEW c \in Callers, NEW kind \in Kinds, NEW k \in Keys, Call(c, kind, k), Formats \subseteq {"json"}
  PROVE  HInv'
<1> USE HTTPAssumption DEF HInv
<1> DEFINE r == [op |-> ops + 1, kind |-> kind, key |-> k]
<1>1. /\ r \in Request /\ r.op = ops + 1 /\ r.kind = kind /\ r.key = k
      /\ pc[c] = "idle" /\ ops' = ops + 1 /\ ops \in Nat
      /\ req' = [req EXCEPT ![c] = r]
      /\ UNCHANGED <<healthy, entry, buffer, owner, cached, store, answers, applied>>
  BY DEF Call, Types, Request, poolVars
<1>0. \A d \in Callers : req[d].op \in Nat /\ req[d].op < ops + 1
  BY <1>1 DEF Matched, Types, Request, NoReq
<1>2. CASE /\ healthy /\ pc' = [pc EXCEPT ![c] = "waiting"]
           /\ wire' = wire \cup {r}
           /\ sets' = IF kind = "set" THEN sets \cup {r} ELSE sets
           /\ seen' = [seen EXCEPT ![c] = IF kind = "get" THEN {store[k]} ELSE {}]
           /\ result' = [result EXCEPT ![c] = "none"]
  <2> HIDE DEF r
  <2>1. Types'
    <3>1. wire' \subseteq Request /\ sets' \subseteq Request
      BY <1>1, <1>2 DEF Types
    <3>2. seen' \in [Callers -> SUBSET Nat]
      BY <1>1, <1>2 DEF Types
    <3>. QED  BY <1>1, <1>2, <3>1, <3>2 DEF Types, Places
  <2>2. Matched'
    <3>1. \A d \in Callers : req'[d].op <= ops'
      BY <1>0, <1>1 DEF Types
    <3>2. (\A q \in wire' : q.op <= ops') /\ \A a \in answers' : a.op <= ops'
      BY <1>1, <1>2 DEF Matched, Types, Request, AnswerOf
    <3>3. \A d \in Callers : (InCall(d)' => req'[d] \in Request) /\ (pc'[d] = "serving" => req'[d] \in Request)
      BY <1>1, <1>2 DEF Matched, Types, InCall, Answered
    <3>4. ASSUME NEW q \in wire', NEW d \in Callers, pc'[d] = "waiting", req'[d].op = q.op
          PROVE  req'[d] = q
      <4>1. CASE q = r
        BY <1>0, <1>1, <1>2, <3>4, <4>1 DEF Types
      <4>2. CASE q \in wire
        <5>1. q.op # ops + 1
          BY <1>1, <4>2 DEF Matched, Types, Request
        <5>. QED  BY <1>1, <1>2, <3>4, <4>2, <5>1 DEF Matched, Types
      <4>. QED  BY <1>2, <4>1, <4>2
    <3>. QED  BY <3>1, <3>2, <3>3, <3>4 DEF Matched
  <2>3. HeldAnswered'
    BY <1>1, <1>2 DEF HeldAnswered, Types, Answered
  <2>4. Truthful'
    BY <1>1, <1>2 DEF Truthful, Matched, HeldAnswered, Types, Told, Given, Waits, Answered, AnswerOf
  <2>5. SeesStore'
    BY <1>1, <1>2 DEF SeesStore, Types, Reading, InCall, Answered
  <2>6. OwnKey'
    <3>1. sets \subseteq sets'
      BY <1>2
    <3>2. \A q \in Keys : WrittenTo(q) \subseteq WrittenTo(q)'
      BY <3>1 DEF WrittenTo
    <3>3. \A q \in wire' : q.kind = "set" => q \in sets'
      BY <1>1, <1>2 DEF OwnKey
    <3>4. \A d \in Callers : (Reading(d) => seen[d] \subseteq WrittenTo(req[d].key) \cup {0})'
      BY <1>1, <1>2, <3>2 DEF OwnKey, Reading, InCall, Answered, Types, Matched, Request
    <3>5. \A d \in Callers : (pc[d] = "serving" => entry[d].value \in WrittenTo(req[d].key))'
      BY <1>1, <1>2, <3>2 DEF OwnKey, Types, Matched, Request
    <3>. QED  BY <1>1, <3>2, <3>3, <3>4, <3>5 DEF OwnKey
  <2>. QED  BY <2>1, <2>2, <2>3, <2>4, <2>5, <2>6
<1>3. CASE /\ ~healthy /\ pc' = [pc EXCEPT ![c] = "idle"]
           /\ result' = [result EXCEPT ![c] = "unhealthy"]
           /\ UNCHANGED <<wire, sets, seen>>
  <2> HIDE DEF r
  <2>1. Types' /\ HeldAnswered'
    BY <1>1, <1>3 DEF HeldAnswered, Types, Places, Answered
  <2>2. Matched'
    <3>1. \A d \in Callers : req'[d].op <= ops'
      BY <1>0, <1>1 DEF Types
    <3>2. (\A q \in wire' : q.op <= ops') /\ \A a \in answers' : a.op <= ops'
      BY <1>1, <1>3 DEF Matched, Types, Request, AnswerOf
    <3>3. \A d \in Callers : (InCall(d)' => req'[d] \in Request) /\ (pc'[d] = "serving" => req'[d] \in Request)
      BY <1>1, <1>3 DEF Matched, Types, InCall, Answered
    <3>4. \A q \in wire', d \in Callers : pc'[d] = "waiting" /\ req'[d].op = q.op => req'[d] = q
      BY <1>1, <1>3 DEF Matched, Types
    <3>. QED  BY <3>1, <3>2, <3>3, <3>4 DEF Matched
  <2>3. Truthful' /\ SeesStore'
    BY <1>1, <1>3 DEF Truthful, SeesStore, HeldAnswered, Types, Told, Given, Waits, Reading, InCall, Answered
  <2>4. OwnKey'
    BY <1>1, <1>3 DEF OwnKey, Types, Reading, InCall, Answered, WrittenTo
  <2>. QED  BY <2>1, <2>2, <2>3, <2>4
<1>. QED  BY <1>2, <1>3 DEF Call, Goto, Return

\* A caller that gives up holds no buffer and leaves its request on the wire.
LEMMA TimeoutKeeps ==
  ASSUME HInv, NEW c \in Callers, Timeout(c), Formats \subseteq {"json"}
  PROVE  HInv'
<1> USE HTTPAssumption DEF HInv
<1>1. Types'
  BY DEF Timeout, Goto, Return, Forget, Types, Places, Answered, Entries, Request, AnswerOf, Copy, Kinds, NoReq, callVars, poolVars, serviceVars
<1>2. Matched'
  BY DEF Timeout, Goto, Return, Forget, Matched, Types, InCall, Request, Answered, NoReq, callVars, poolVars, serviceVars
<1>3. HeldAnswered'
  BY DEF Timeout, Goto, Return, Forget, HeldAnswered, Types, Answered, callVars, poolVars, serviceVars
<1>4. Truthful'
  BY DEF Timeout, Goto, Return, Forget, Truthful, Matched, HeldAnswered, SeesStore, Types, Told, Given, Waits, Reading, InCall, Answered, Request, NoReq, AnswerOf, callVars, poolVars, serviceVars
<1>5. SeesStore'
  BY DEF Timeout, Goto, Return, Forget, SeesStore, Truthful, Matched, Types, Reading, InCall, Answered, Request, NoReq, callVars, poolVars, serviceVars
<1>6. OwnKey'
  BY DEF Timeout, Goto, Return, Forget, OwnKey, Truthful, Matched, HeldAnswered, Types, Reading, InCall, Answered, Request, NoReq, WrittenTo, Given, Entries, Copy, callVars, poolVars, serviceVars
<1>. QED  BY <1>1, <1>2, <1>3, <1>4, <1>5, <1>6

\* The entry a Get returns was copied out of a buffer that held its own answer.
LEMMA ReturnEntryKeeps ==
  ASSUME HInv, NEW c \in Callers, ReturnEntry(c), Formats \subseteq {"json"}
  PROVE  HInv'
<1> USE HTTPAssumption DEF HInv
<1>1. Types'
  BY DEF ReturnEntry, Release, Decode, Goto, Return, Forget, Types, Places, Answered, Entries, Request, AnswerOf, Copy, Kinds, NoReq, callVars, poolVars, serviceVars
<1>2. Matched'
  BY DEF ReturnEntry, Release, Decode, Goto, Return, Forget, Matched, Types, InCall, Request, Answered, NoReq, callVars, poolVars, serviceVars
<1>3. HeldAnswered'
  BY DEF ReturnEntry, Release, Decode, Goto, Return, Forget, HeldAnswered, Types, Answered, callVars, poolVars, serviceVars
<1>4. Truthful'
  BY DEF ReturnEntry, Release, Decode, Goto, Return, Forget, Truthful, Matched, HeldAnswered, SeesStore, Types, Told, Given, Waits, Reading, InCall, Answered, Request, NoReq, AnswerOf, callVars, poolVars, serviceVars
<1>5. SeesStore'
  BY DEF ReturnEntry, Release, Decode, Goto, Return, Forget, SeesStore, Truthful, Matched, Types, Reading, InCall, Answered, Request, NoReq, callVars, poolVars, serviceVars
<1>6. OwnKey'
  BY DEF ReturnEntry, Release, Decode, Goto, Return, Forget, OwnKey, Truthful, Matched, HeldAnswered, Types, Reading, InCall, Answered, Request, NoReq, WrittenTo, Given, Entries, Copy, callVars, poolVars, serviceVars
<1>. QED  BY <1>1, <1>2, <1>3, <1>4, <1>5, <1>6

\* A caller that returns a status gives its one buffer back.
LEMMA ReturnStatusKeeps ==
  ASSUME HInv, NEW c \in Callers, ReturnStatus(c), Formats \subseteq {"json"}
  PROVE  HInv'
<1> USE HTTPAssumption DEF HInv
<1>1. Types'
  BY DEF ReturnStatus, Release, Outcome, Goto, Return, Forget, Types, Places, Answered, Entries, Request, AnswerOf, Copy, Kinds, NoReq, callVars, poolVars, serviceVars
<1>2. Matched'
  BY DEF ReturnStatus, Release, Outcome, Goto, Return, Forget, Matched, Types, InCall, Request, Answered, NoReq, callVars, poolVars, serviceVars
<1>3. HeldAnswered'
  BY DEF ReturnStatus, Release, Outcome, Goto, Return, Forget, HeldAnswered, Types, Answered, callVars, poolVars, serviceVars
<1>4. Truthful'
  BY DEF ReturnStatus, Release, Outcome, Goto, Return, Forget, Truthful, Matched, HeldAnswered, SeesStore, Types, Told, Given, Waits, Reading, InCall, Answered, Request, NoReq, AnswerOf, callVars, poolVars, serviceVars
<1>5. SeesStore'
  BY DEF ReturnStatus, Release, Outcome, Goto, Return, Forget, SeesStore, Truthful, Matched, Types, Reading, InCall, Answered, Request, NoReq, callVars, poolVars, serviceVars
<1>6. OwnKey'
  BY DEF ReturnStatus, Release, Outcome, Goto, Return, Forget, OwnKey, Truthful, Matched, HeldAnswered, Types, Reading, InCall, Answered, Request, NoReq, WrittenTo, Given, Entries, Copy, callVars, poolVars, serviceVars
<1>. QED  BY <1>1, <1>2, <1>3, <1>4, <1>5, <1>6

\* What the local cache takes over is a copy of a value of its key.
LEMMA UseEntryKeeps ==
  ASSUME HInv, NEW c \in Callers, UseEntry(c), Formats \subseteq {"json"}
  PROVE  HInv'
<1> USE HTTPAssumption DEF HInv
<1>1. Types'
  BY DEF UseEntry, Goto, Return, Forget, Types, Places, Answered, Entries, Request, AnswerOf, Copy, Kinds, NoReq, callVars, poolVars, serviceVars
<1>2. Matched'
  BY DEF UseEntry, Goto, Return, Forget, Matched, Types, InCall, Request, Answered, NoReq, callVars, poolVars, serviceVars
<1>3. HeldAnswered'
  BY DEF UseEntry, Goto, Return, Forget, HeldAnswered, Types, Answered, callVars, poolVars, serviceVars
<1>4. Truthful'
  BY DEF UseEntry, Goto, Return, Forget, Truthful, Matched, HeldAnswered, SeesStore, Types, Told, Given, Waits, Reading, InCall, Answered, Request, NoReq, AnswerOf, callVars, poolVars, serviceVars
<1>5. SeesStore'
  BY DEF UseEntry, Goto, Return, Forget, SeesStore, Truthful, Matched, Types, Reading, InCall, Answered, Request, NoReq, callVars, poolVars, serviceVars
<1>6. OwnKey'
  <2>1. \A q \in Keys : cached'[q].value \in WrittenTo(q) \cup {0}
    BY DEF UseEntry, OwnKey, Types, Matched, Request
  <2>. QED
    BY <2>1 DEF UseEntry, Goto, OwnKey, Types, Reading, InCall, Answered, WrittenTo, serviceVars
<1>. QED  BY <1>1, <1>2, <1>3, <1>4, <1>5, <1>6

\* An answer goes into a free buffer, and to its own caller or to nobody.
LEMMA ReceiveKeeps ==
  ASSUME HInv, Receive, Formats \subseteq {"json"}
  PROVE  HInv'
<1> USE HTTPAssumption DEF HInv
<1>1. PICK a \in answers, b \in Buffers :
        /\ owner[b] = Nobody
        /\ buffer' = [buffer EXCEPT ![b] = a.value]
        /\ \/ \E c \in Callers :
                Waits(c, a) /\ owner' = [owner EXCEPT ![b] = c] /\ Goto(c, a.status)
           \/ UNCHANGED <<owner, pc>>
        /\ answers' = answers \ {a}
        /\ UNCHANGED <<healthy, req, result, entry, cached, ops, store, wire, sets, applied, seen>>
  BY DEF Receive
<1>2. a.value \in Nat /\ a.status \in Answered
  BY <1>1 DEF Types, AnswerOf
<1>3. CASE UNCHANGED <<owner, pc>>
  <2>1. Types'
    BY <1>1, <1>2, <1>3 DEF Types
  <2>2. Matched' /\ HeldAnswered' /\ SeesStore' /\ OwnKey'
    BY <1>1, <1>3 DEF Matched, HeldAnswered, SeesStore, OwnKey, InCall, Reading, WrittenTo
  <2>3. Truthful'
    BY <1>1, <1>3 DEF Truthful, Types, Told, Given, Waits
  <2>. QED  BY <2>1, <2>2, <2>3
<1>4. ASSUME NEW c \in Callers, Waits(c, a), owner' = [owner EXCEPT ![b] = c],
             pc' = [pc EXCEPT ![c] = a.status]
      PROVE  HInv'
  <2>1. Types'
    BY <1>1, <1>2, <1>4 DEF Types, Places
  <2>2. pc[c] = "waiting" /\ pc'[c] \in Answered /\ \A d \in Callers \ {c} : pc'[d] = pc[d]
    BY <1>2, <1>4 DEF Types, Waits
  <2>3. \A d \in Callers : InCall(d)' = InCall(d)
    BY <2>2 DEF InCall
  <2>4. Matched' /\ SeesStore' /\ OwnKey'
    BY <1>1, <2>2, <2>3 DEF Matched, SeesStore, OwnKey, Reading, WrittenTo, Answered
  <2>5. HeldAnswered'
    BY <1>1, <1>4, <2>2 DEF HeldAnswered, Types
  <2>6. Truthful'
    BY <1>1, <1>2, <1>4, <2>2 DEF Truthful, HeldAnswered, Types, Told, Given, Waits, Answered
  <2>. QED  BY <2>1, <2>4, <2>5, <2>6
<1>. QED  BY <1>1, <1>3, <1>4 DEF Goto

\* The service turns one request into one answer, with a value its key has held.
LEMMA ServeKeeps ==
  ASSUME HInv, Serve, Formats \subseteq {"json"}
  PROVE  HInv'
<1> USE HTTPAssumption DEF HInv
<1>1. PICK r \in wire :
        /\ wire' = wire \ {r}
        /\ \/ /\ \/ Answer(r, "refused", 0)
                 \/ r.kind # "set" /\ store[r.key] = 0 /\ Answer(r, "notFound", 0)
                 \/ r.kind = "get" /\ store[r.key] # 0 /\ Answer(r, "ok", store[r.key])
              /\ UNCHANGED <<store, applied, seen>>
           \/ /\ r.kind # "get"
              /\ Hold(r.key, IF r.kind = "set" THEN r.op ELSE 0)
              /\ applied' = applied \cup {r.op}
              /\ \E status \in {"ok", "refused"} : Answer(r, status, 0)
        /\ UNCHANGED <<healthy, pc, req, result, entry, buffer, owner, cached, ops, sets>>
  BY DEF Serve, callVars, poolVars
<1>2. r \in Request /\ r.op \in Nat /\ r.key \in Keys /\ r.op <= ops
  BY DEF Types, Request, Matched
<1>3. PICK status \in Answered, value \in Nat :
        answers' = answers \cup {[op |-> r.op, status |-> status, value |-> value]}
  BY <1>1, <1>2 DEF Answer, Answered, Types
<1>4. Matched'
  BY <1>1, <1>2, <1>3 DEF Matched, InCall
<1>5. HeldAnswered'
  BY <1>1 DEF HeldAnswered
<1>6. Truthful' /\ SeesStore'
  BY <1>1, <1>2 DEF Truthful, HeldAnswered, SeesStore, Matched, Types, Told, Given, Waits, Reading, InCall,
       Answered, Answer, Hold, Request
<1>7. CASE UNCHANGED <<store, applied, seen>>
  <2>1. Types'
    BY <1>1, <1>2, <1>3, <1>7 DEF Types, AnswerOf
  <2>2. OwnKey'
    BY <1>1, <1>7 DEF OwnKey, Reading, InCall, WrittenTo
  <2>. QED  BY <1>4, <1>5, <1>6, <2>1, <2>2
<1>8. CASE /\ r.kind # "get"
           /\ Hold(r.key, IF r.kind = "set" THEN r.op ELSE 0)
           /\ applied' = applied \cup {r.op}
  <2> DEFINE v == IF r.kind = "set" THEN r.op ELSE 0
  <2>1. v \in Nat /\ v \in WrittenTo(r.key) \cup {0} /\ Hold(r.key, v)
    BY <1>2, <1>8 DEF OwnKey, WrittenTo
  <2> HIDE DEF v
  <2>2. Types'
    <3>1. store' \in [Keys -> Nat] /\ seen' \in [Callers -> SUBSET Nat]
      BY <1>2, <2>1 DEF Types, Hold
    <3>2. wire' \subseteq Request /\ applied' \subseteq Nat
      BY <1>1, <1>2, <1>8 DEF Types
    <3>3. [op |-> r.op, status |-> status, value |-> value] \in AnswerOf
      BY <1>2 DEF AnswerOf
    <3>4. answers' \subseteq AnswerOf
      BY <1>3, <3>3 DEF Types
    <3>. QED  BY <1>1, <3>1, <3>2, <3>4 DEF Types
  <2>3. \A k \in Keys : WrittenTo(k)' = WrittenTo(k)
    BY <1>1 DEF WrittenTo
  <2>4. \A k \in Keys : store'[k] \in WrittenTo(k) \cup {0}
    BY <1>2, <2>1 DEF OwnKey, Types, Hold
  <2>5. ASSUME NEW c \in Callers, Reading(c)
        PROVE  seen'[c] \subseteq WrittenTo(req[c].key) \cup {0}
    BY <1>2, <2>1, <2>5 DEF OwnKey, Types, Hold, Reading
  <2>6. OwnKey'
    BY <1>1, <2>3, <2>4, <2>5 DEF OwnKey, Types, Reading, InCall, Matched, Request
  <2>. QED  BY <1>4, <1>5, <1>6, <2>2, <2>6
<1>. QED  BY <1>1, <1>7, <1>8

\* An expiry changes what the service holds and nothing the callers have.
LEMMA ExpireKeeps ==
  ASSUME HInv, Expire, Formats \subseteq {"json"}
  PROVE  HInv'
<1> USE HTTPAssumption DEF HInv
<1>1. Types'
  BY DEF Expire, Hold, Goto, Return, Forget, Types, Places, Answered, Entries, Request, AnswerOf, Copy, Kinds, NoReq, callVars, poolVars, serviceVars
<1>2. Matched'
  BY DEF Expire, Hold, Goto, Return, Forget, Matched, Types, InCall, Request, Answered, NoReq, callVars, poolVars, serviceVars
<1>3. HeldAnswered'
  BY DEF Expire, Hold, Goto, Return, Forget, HeldAnswered, Types, Answered, callVars, poolVars, serviceVars
<1>4. Truthful'
  BY DEF Expire, Hold, Goto, Return, Forget, Truthful, Matched, HeldAnswered, SeesStore, Types, Told, Given, Waits, Reading, InCall, Answered, Request, NoReq, AnswerOf, callVars, poolVars, serviceVars
<1>5. SeesStore'
  BY DEF Expire, Hold, Goto, Return, Forget, SeesStore, Truthful, Matched, Types, Reading, InCall, Answered, Request, NoReq, callVars, poolVars, serviceVars
<1>6. OwnKey'
  BY DEF Expire, Hold, Goto, Return, Forget, OwnKey, Truthful, Matched, HeldAnswered, Types, Reading, InCall, Answered, Request, NoReq, WrittenTo, Given, Entries, Copy, callVars, poolVars, serviceVars
<1>. QED  BY <1>1, <1>2, <1>3, <1>4, <1>5, <1>6

\* Every step keeps the invariant.
LEMMA HStep ==
  ASSUME HInv, [Next]_vars, Formats \subseteq {"json"}
  PROVE  HInv'
<1>1. ASSUME NEW c \in Callers, Caller(c)
      PROVE  HInv'
  BY <1>1, TimeoutKeeps, ReturnEntryKeeps, ReturnStatusKeeps, UseEntryKeeps DEF Caller
<1>2. CASE SetHealthy
  BY <1>2 DEF SetHealthy, callVars, poolVars, serviceVars, HInv, Types, Matched, HeldAnswered, Truthful,
       SeesStore, OwnKey, Reading, InCall, Told, Given, Waits, WrittenTo
<1>3. CASE UNCHANGED vars
  BY <1>3 DEF vars, callVars, poolVars, serviceVars, HInv, Types, Matched, HeldAnswered, Truthful,
       SeesStore, OwnKey, Reading, InCall, Told, Given, Waits, WrittenTo
<1>. QED
  BY <1>1, <1>2, <1>3, CallKeeps, ReceiveKeeps, ServeKeeps, ExpireKeeps DEF Next

\* HTTPBackend!HInv: what lies behind the two theorems below.
THEOREM HTTPInvariant ==
  ASSUME Formats \subseteq {"json"}
  PROVE  Spec => []HInv
<1>1. HInv /\ [Next]_vars => HInv'
  BY HStep
<1>. QED  BY HInit, <1>1, PTL DEF Spec

\* What Get returned, and what the local cache took over from it, stays a value
\* its own key was set to, whatever responses arrive in the pool's buffers.
THEOREM HTTPOwnBytes ==
  ASSUME Formats \subseteq {"json"}
  PROVE  Spec => []OwnBytes
<1>1. HInv => OwnBytes
  BY DEF HInv, Types, OwnKey, OwnBytes, Bytes, Entries
<1>. QED  BY HTTPInvariant, <1>1, PTL

-----------------------------------------------------------------------------
(* The refinement *)

\* What the abstract variables are made of, for a caller that does not move.
LEMMA OpenTyped ==
  ASSUME Types
  PROVE  /\ openCalls \in [Callers -> Request \cup {NoReq}]
         /\ \A c \in Callers : openCalls[c] = IF InCall(c) THEN req[c] ELSE NoReq
         /\ \A c \in Callers : returned[c] =
              [status |-> result[c], value |-> IF pc[c] = "serving" THEN entry[c].value ELSE 0]
  BY DEF Types, openCalls, returned, Bytes, Entries

\* A caller's step changes the abstract functions at that caller only.
LEMMA OneCaller ==
  ASSUME Types, Types', NEW c \in Callers,
         \A d \in Callers \ {c} : /\ pc'[d] = pc[d] /\ req'[d] = req[d]
                                  /\ result'[d] = result[d] /\ entry'[d] = entry[d]
  PROVE  /\ openCalls' = [openCalls EXCEPT ![c] = IF InCall(c)' THEN req'[c] ELSE NoReq]
         /\ returned' = [returned EXCEPT ![c] = [status |-> result'[c],
                          value |-> IF pc'[c] = "serving" THEN entry'[c].value ELSE 0]]
<1>1. \A d \in Callers \ {c} : InCall(d)' = InCall(d)
  BY DEF InCall
<1>2. \A d \in Callers : openCalls'[d] = IF d = c THEN (IF InCall(c)' THEN req'[c] ELSE NoReq) ELSE openCalls[d]
  BY <1>1 DEF openCalls
<1>3. \A d \in Callers : returned'[d] =
        IF d = c THEN [status |-> result'[c], value |-> IF pc'[c] = "serving" THEN entry'[c].value ELSE 0]
                 ELSE returned[d]
  BY OpenTyped DEF returned, Types, Bytes, Entries
<1>4. /\ openCalls = [d \in Callers |-> openCalls[d]] /\ openCalls' = [d \in Callers |-> openCalls'[d]]
      /\ returned = [d \in Callers |-> returned[d]] /\ returned' = [d \in Callers |-> returned'[d]]
  BY DEF openCalls, returned
<1>. QED  BY <1>2, <1>3, <1>4

\* The first state is the register's first state.
LEMMA RInit == Init => Register!Init
<1> SUFFICES ASSUME Init PROVE Register!Init
  OBVIOUS
<1>1. openCalls = [c \in Callers |-> NoReq]
  BY DEF Init, openCalls, InCall, Answered
<1>2. unserved = {}
  BY DEF Init, unserved
<1>3. returned = [c \in Callers |-> [status |-> "none", value |-> 0]]
  BY DEF Init, returned
<1>. QED  BY <1>1, <1>2, <1>3 DEF Init, Register!Init, Register!NoCall, Register!NoAnswer, NoReq

\* A call is a Begin or a Reject of the register.
LEMMA RCall ==
  ASSUME HInv, HInv', NEW c \in Callers, NEW kind \in Kinds, NEW k \in Keys, Call(c, kind, k)
  PROVE  Register!Begin(c, kind, k) \/ Register!Reject(c)
<1> DEFINE r == [op |-> ops + 1, kind |-> kind, key |-> k]
<1>1. /\ pc[c] = "idle" /\ ops' = ops + 1 /\ req' = [req EXCEPT ![c] = r]
      /\ UNCHANGED <<entry, store, applied>>
      /\ Types /\ Types'
  BY DEF Call, HInv
<1>2. openCalls[c] = NoReq
  BY <1>1, OpenTyped DEF InCall, Answered
<1>3. CASE /\ pc' = [pc EXCEPT ![c] = "waiting"]
           /\ wire' = wire \cup {r}
           /\ seen' = [seen EXCEPT ![c] = IF kind = "get" THEN {store[k]} ELSE {}]
           /\ result' = [result EXCEPT ![c] = "none"]
  <2>1. /\ openCalls' = [openCalls EXCEPT ![c] = IF InCall(c)' THEN req'[c] ELSE NoReq]
        /\ returned' = [returned EXCEPT ![c] = [status |-> result'[c],
                          value |-> IF pc'[c] = "serving" THEN entry'[c].value ELSE 0]]
    BY <1>1, <1>3, OneCaller DEF Types
  <2>2. openCalls' = [openCalls EXCEPT ![c] = r]
    BY <1>1, <1>3, <2>1 DEF Types, InCall
  <2>3. returned' = [returned EXCEPT ![c] = [status |-> "none", value |-> 0]]
    BY <1>1, <1>3, <2>1 DEF Types
  <2>4. unserved' = IF kind = "get" THEN unserved ELSE unserved \cup {r}
    BY <1>3 DEF unserved
  <2>. QED  BY <1>1, <1>2, <1>3, <2>2, <2>3, <2>4 DEF Register!Begin, Register!NoCall, Register!NoAnswer, NoReq
<1>4. CASE /\ pc' = [pc EXCEPT ![c] = "idle"]
           /\ result' = [result EXCEPT ![c] = "unhealthy"]
           /\ UNCHANGED <<wire, seen>>
  <2>1. /\ openCalls' = [openCalls EXCEPT ![c] = IF InCall(c)' THEN req'[c] ELSE NoReq]
        /\ returned' = [returned EXCEPT ![c] = [status |-> result'[c],
                          value |-> IF pc'[c] = "serving" THEN entry'[c].value ELSE 0]]
    BY <1>1, <1>4, OneCaller DEF Types
  <2>2. openCalls' = openCalls
    BY <1>1, <1>2, <1>4, <2>1, OpenTyped DEF Types, InCall, Answered
  <2>3. returned' = [returned EXCEPT ![c] = [status |-> "unhealthy", value |-> 0]]
    BY <1>1, <1>4, <2>1 DEF Types
  <2>4. unserved' = unserved
    BY <1>4 DEF unserved
  <2>. QED  BY <1>1, <1>2, <1>4, <2>2, <2>3, <2>4 DEF Register!Reject, Register!NoCall, NoReq
<1>. QED  BY <1>3, <1>4 DEF Call, Goto, Return

\* A return of an open call with what it says.
LEMMA RReturn ==
  ASSUME HInv, HInv', NEW c \in Callers, NEW place \in {"idle", "serving"}, NEW value, NEW status, InCall(c),
         pc' = [pc EXCEPT ![c] = place], result' = [result EXCEPT ![c] = status],
         seen' = [seen EXCEPT ![c] = {}],
         IF place = "idle" THEN value = 0 /\ entry' = entry
                           ELSE entry' = [entry EXCEPT ![c] = Copy(value)],
         UNCHANGED <<req, ops, store, wire, applied>>
  PROVE  Register!Return(c, status, value)
<1>1. Types /\ Types' /\ Matched
  BY DEF HInv
<1>2. /\ openCalls' = [openCalls EXCEPT ![c] = IF InCall(c)' THEN req'[c] ELSE NoReq]
      /\ returned' = [returned EXCEPT ![c] = [status |-> result'[c],
                          value |-> IF pc'[c] = "serving" THEN entry'[c].value ELSE 0]]
  BY <1>1, OneCaller DEF Types
<1>3. openCalls' = [openCalls EXCEPT ![c] = NoReq]
  BY <1>1, <1>2 DEF Types, InCall, Answered
<1>4. returned' = [returned EXCEPT ![c] = [status |-> status, value |-> value]]
  <2>1. result'[c] = status /\ pc'[c] = place
    BY <1>1 DEF Types
  <2>2. (IF place = "serving" THEN entry'[c].value ELSE 0) = value
    BY <1>1 DEF Types, Copy
  <2>. QED  BY <1>2, <2>1, <2>2
<1>5. openCalls[c] # NoReq
  BY <1>1, OpenTyped DEF Matched, Request, Kinds, NoReq
<1>6. unserved' = unserved
  BY DEF unserved
<1>. QED  BY <1>3, <1>4, <1>5, <1>6 DEF Register!Return, Register!NoCall, NoReq

\* A return of Get, Set or Delete is a Return of the register, and the use of an entry a Use.
LEMMA RCaller ==
  ASSUME HInv, HInv', NEW c \in Callers, Caller(c), Formats \subseteq {"json"}
  PROVE  Register!Next
<1>1. Types /\ Types' /\ Truthful /\ Matched /\ HeldAnswered
  BY DEF HInv
<1>2. InCall(c) => openCalls[c] = req[c]
  BY <1>1, OpenTyped
<1>3. CASE Timeout(c)
  <2>1. InCall(c)
    BY <1>3 DEF Timeout, InCall
  <2>2. Register!Return(c, "error", 0)
    BY <1>3, <2>1, RReturn DEF Timeout, Return, Goto, Forget, poolVars, serviceVars
  <2>. QED  BY <2>2 DEF Register!Fail, Register!Next
<1>4. CASE ReturnEntry(c)
  <2>1. InCall(c) /\ req[c].kind = "get" /\ pc[c] = "ok"
    BY <1>4 DEF ReturnEntry, InCall, Answered
  <2>2. PICK b \in Buffers : owner[b] = c /\ entry' = [entry EXCEPT ![c] = Copy(buffer[b])]
    BY <1>4 DEF ReturnEntry, Decode
  <2>3. buffer[b] # 0 /\ buffer[b] \in seen[c]
    BY <1>1, <2>1, <2>2 DEF Truthful, Given
  <2>4. Register!Return(c, "ok", buffer[b])
    BY <1>4, <2>1, <2>2, RReturn DEF ReturnEntry, Goto, Forget, serviceVars
  <2>5. Register!Read(c)
    BY <1>2, <2>1, <2>3, <2>4 DEF Register!Read
  <2>. QED  BY <2>5 DEF Register!Next
<1>5. CASE ReturnStatus(c)
  <2>1. InCall(c) /\ pc[c] \in Answered /\ req[c] \in Request
    BY <1>1, <1>5 DEF ReturnStatus, InCall, Matched
  <2>2. Register!Return(c, Outcome(req[c].kind, pc[c]), 0)
    BY <1>5, <2>1, RReturn DEF ReturnStatus, Return, Goto, Forget, serviceVars
  <2>3. CASE pc[c] = "ok"
    <3>1. req[c].kind # "get" /\ Outcome(req[c].kind, pc[c]) = "ok"
      BY <1>5, <2>3 DEF ReturnStatus, Outcome
    <3>2. req[c].op \in applied
      BY <1>1, <2>1, <2>3, <3>1 DEF Truthful, Told
    <3>. QED  BY <1>2, <2>1, <2>2, <3>1, <3>2 DEF Register!Confirm, Register!Next
  <2>4. CASE pc[c] = "notFound" /\ req[c].kind = "get"
    <3>1. Outcome(req[c].kind, pc[c]) = "notFound"
      BY <2>4 DEF Outcome
    <3>2. 0 \in seen[c]
      BY <1>1, <2>1, <2>4 DEF Truthful, Told
    <3>3. Register!Read(c)
      BY <1>2, <2>1, <2>2, <2>4, <3>1, <3>2 DEF Register!Read
    <3>. QED  BY <3>3 DEF Register!Next
  <2>5. CASE pc[c] # "ok" /\ ~(pc[c] = "notFound" /\ req[c].kind = "get")
    <3>1. Outcome(req[c].kind, pc[c]) = "error"
      BY <2>5 DEF Outcome
    <3>. QED  BY <2>2, <3>1 DEF Register!Fail, Register!Next
  <2>. QED  BY <2>3, <2>4, <2>5
<1>6. CASE UseEntry(c)
  <2>1. /\ pc[c] = "serving" /\ pc' = [pc EXCEPT ![c] = "idle"]
        /\ entry' = [entry EXCEPT ![c] = Copy(0)]
        /\ UNCHANGED <<req, result, ops, store, wire, applied, seen>>
    BY <1>6 DEF UseEntry, Goto, serviceVars
  <2>2. /\ openCalls' = [openCalls EXCEPT ![c] = IF InCall(c)' THEN req'[c] ELSE NoReq]
        /\ returned' = [returned EXCEPT ![c] = [status |-> result'[c],
                          value |-> IF pc'[c] = "serving" THEN entry'[c].value ELSE 0]]
    BY <1>1, <2>1, OneCaller DEF Types
  <2>3. openCalls' = openCalls
    BY <1>1, <2>1, <2>2, OpenTyped DEF Types, InCall, Answered
  <2>4. returned' = [returned EXCEPT ![c].value = 0]
    <3>1. returned[c] = [status |-> result[c], value |-> entry[c].value]
      BY <1>1, <2>1, OpenTyped
    <3>2. [returned[c] EXCEPT !.value = 0] = [status |-> result[c], value |-> 0]
      BY <3>1
    <3>3. returned' = [returned EXCEPT ![c] = [status |-> result[c], value |-> 0]]
      BY <1>1, <2>1, <2>2 DEF Types
    <3>. QED  BY <3>2, <3>3
  <2>5. unserved' = unserved
    BY <2>1 DEF unserved
  <2>6. Register!Use(c)
    BY <2>1, <2>3, <2>4, <2>5 DEF Register!Use
  <2>. QED  BY <2>6 DEF Register!Next
<1>. QED  BY <1>3, <1>4, <1>5, <1>6 DEF Caller

\* The register does not see an answer arrive.
LEMMA RReceive ==
  ASSUME HInv, HInv', Receive
  PROVE  UNCHANGED Register!vars
<1>1. Types /\ Types'
  BY DEF HInv
<1>2. UNCHANGED <<req, result, entry, ops, store, wire, sets, applied, seen>>
  BY DEF Receive
<1>3. \A d \in Callers : InCall(d)' = InCall(d) /\ (pc'[d] = "serving") = (pc[d] = "serving")
  BY <1>1 DEF Receive, Types, Waits, Goto, InCall, AnswerOf, Answered
<1>4. openCalls' = openCalls /\ unserved' = unserved
  BY <1>2, <1>3 DEF openCalls, unserved
<1>5. returned' = returned
  BY <1>1, <1>2, <1>3 DEF returned, Types, Bytes, Entries
<1>. QED  BY <1>2, <1>4, <1>5 DEF Register!vars

\* A change of what a key holds, by the service.
LEMMA RHold ==
  ASSUME HInv, HInv', NEW k \in Keys, NEW v, Hold(k, v), UNCHANGED <<pc, req, result, entry, buffer, ops>>
  PROVE  Register!Hold(k, v)
<1>1. Types /\ Types' /\ Matched
  BY DEF HInv
<1>2. openCalls' = openCalls /\ returned' = returned
  BY DEF openCalls, returned, InCall, Bytes
<1>3. \A c \in Callers : (openCalls[c].kind = "get" /\ openCalls[c].key = k)
                           <=> (InCall(c) /\ req[c].kind = "get" /\ req[c].key = k)
  BY <1>1, OpenTyped DEF NoReq
<1>. QED  BY <1>2, <1>3 DEF Hold, Register!Hold

\* What the service does is a Perform or a Refuse, or a read the register does not see.
LEMMA RServe ==
  ASSUME HInv, HInv', Serve
  PROVE  Register!Next \/ UNCHANGED Register!vars
<1>1. PICK r \in wire :
        /\ wire' = wire \ {r}
        /\ \/ UNCHANGED <<store, applied, seen>>
           \/ /\ r.kind # "get"
              /\ Hold(r.key, IF r.kind = "set" THEN r.op ELSE 0)
              /\ applied' = applied \cup {r.op}
        /\ UNCHANGED <<healthy, pc, req, result, entry, buffer, owner, cached, ops, sets>>
  BY DEF Serve, callVars, poolVars
<1>2. r \in Request
  BY DEF HInv, Types
<1>3. openCalls' = openCalls /\ returned' = returned
  BY <1>1 DEF openCalls, returned, InCall, Bytes
<1>4. unserved' = unserved \ {r}
  BY <1>1 DEF unserved
<1>5. CASE r.kind = "get"
  BY <1>1, <1>3, <1>4, <1>5 DEF Register!vars, unserved
<1>6. CASE r.kind # "get" /\ UNCHANGED <<store, applied, seen>>
  <2>1. r \in unserved
    BY <1>6 DEF unserved
  <2>2. Register!Refuse(r)
    BY <1>1, <1>3, <1>4, <1>6 DEF Register!Refuse
  <2>. QED  BY <2>1, <2>2 DEF Register!Next
<1>7. CASE /\ r.kind # "get"
           /\ Hold(r.key, IF r.kind = "set" THEN r.op ELSE 0)
           /\ applied' = applied \cup {r.op}
  <2>1. r \in unserved
    BY <1>7 DEF unserved
  <2>2. Register!Hold(r.key, IF r.kind = "set" THEN r.op ELSE 0)
    BY <1>1, <1>2, <1>7, RHold DEF Request
  <2>3. Register!Perform(r)
    BY <1>4, <1>7, <2>2 DEF Register!Perform
  <2>. QED  BY <2>1, <2>3 DEF Register!Next
<1>. QED  BY <1>1, <1>5, <1>6, <1>7

\* Every step of the backend is a step of the register or leaves it alone.
LEMMA RStep ==
  ASSUME HInv, HInv', [Next]_vars, Formats \subseteq {"json"}
  PROVE  Register!Next \/ UNCHANGED Register!vars
<1>1. ASSUME NEW c \in Callers, NEW kind \in Kinds, NEW k \in Keys, Call(c, kind, k)
      PROVE  Register!Next
  BY <1>1, RCall DEF Register!Next, Register!Kinds, Kinds
<1>2. CASE Expire
  <2>1. PICK k \in Keys : Hold(k, 0) /\ UNCHANGED <<pc, req, result, entry, buffer, ops, wire, applied>>
    BY <1>2 DEF Expire, callVars, poolVars
  <2>2. Register!Hold(k, 0) /\ unserved' = unserved
    BY <2>1, RHold DEF unserved
  <2>. QED  BY <2>1, <2>2 DEF Register!Expire, Register!Next
<1>3. CASE SetHealthy \/ UNCHANGED vars
  BY <1>3 DEF SetHealthy, vars, callVars, poolVars, serviceVars, Register!vars, openCalls, unserved,
       returned, InCall, Bytes
<1>. QED  BY <1>1, <1>2, <1>3, RCaller, RReceive, RServe DEF Next

\* The http backend keeps the promises of the register whatever is lost, late,
\* refused or half done (HTTPBackend!ImplementsRegister).
THEOREM HTTPImplementsRegister ==
  ASSUME Formats \subseteq {"json"}
  PROVE  Spec => ImplementsRegister
<1>1. HInv /\ HInv' /\ [Next]_vars => [Register!Next]_(Register!vars)
  BY RStep
<1>. QED  BY HTTPInvariant, RInit, <1>1, PTL DEF Spec, ImplementsRegister, Register!Spec

-----------------------------------------------------------------------------
(* The pool, whatever the service answers with                               *)

\* A number stands for one request, which is on the wire or answered.
Traffic ==
  /\ ops \in 0 .. MaxOps /\ applied \subseteq 1 .. ops
  /\ store \in [Keys -> 0 .. MaxOps] /\ buffer \in [Buffers -> 0 .. MaxOps]
  /\ \A r \in wire : r.op \in 1 .. ops /\ r.key \in Keys
  /\ \A r, s \in wire : r.op = s.op => r = s
  /\ \A a \in answers : a.op \in 1 .. ops /\ a.status \in Answered /\ a.value \in 0 .. MaxOps
  /\ \A r \in wire, a \in answers : r.op # a.op

\* A caller that looks at an answer holds one buffer, and nobody else holds any.
Pool ==
  /\ healthy \in BOOLEAN
  /\ pc \in [Callers -> Places]
  /\ result \in [Callers -> {"none", "ok", "notFound", "error", "unhealthy"}]
  /\ owner \in [Buffers -> Callers \cup {Nobody}]
  /\ \A b \in Buffers, c \in Callers : owner[b] = c => pc[c] \in Answered
  /\ \A c \in Callers : pc[c] \in Answered => \E b \in Buffers : owner[b] = c
  /\ \A b, d \in Buffers : owner[b] = owner[d] /\ owner[b] # Nobody => b = d

\* A request gets the next number; the service answers it or loses it.
LEMMA TrafficKeeps ==
  ASSUME Traffic, [Next]_vars
  PROVE  Traffic'
<1>0. ops \in 0 .. MaxOps /\ MaxOps \in Nat /\ ops \in Nat
  BY HTTPAssumption DEF Traffic
<1>1. ASSUME NEW c \in Callers, NEW kind \in Kinds, NEW k \in Keys, Call(c, kind, k)
      PROVE  Traffic'
  <2>. PICK r : r = [op |-> ops + 1, kind |-> kind, key |-> k]
    OBVIOUS
  <2>1. /\ ops < MaxOps /\ ops' = ops + 1 /\ (wire' = wire \/ wire' = wire \cup {r})
        /\ UNCHANGED <<buffer, store, answers, applied>>
    BY <1>1 DEF Call, poolVars
  <2>2. /\ ops' \in 0 .. MaxOps /\ ops + 1 \in 1 .. ops'
        /\ \A n \in 1 .. ops : n \in 1 .. ops' /\ n # ops + 1
    BY <1>0, <2>1
  <2>3. r.op = ops + 1 /\ r.key \in Keys
    OBVIOUS
  <2>. QED  BY <2>1, <2>2, <2>3 DEF Traffic
<1>2. CASE Receive
  <2>1. PICK a \in answers, b \in Buffers :
          /\ buffer' = [buffer EXCEPT ![b] = a.value] /\ answers' = answers \ {a}
          /\ UNCHANGED <<ops, store, wire, applied>>
    BY <1>2 DEF Receive
  <2>. QED  BY <2>1 DEF Traffic
<1>3. CASE Serve
  <2>1. PICK r \in wire, status \in Answered, value \in 0 .. MaxOps :
          /\ wire' = wire \ {r} /\ Answer(r, status, value)
          /\ \/ UNCHANGED <<store, applied>>
             \/ /\ store' = [store EXCEPT ![r.key] = IF r.kind = "set" THEN r.op ELSE 0]
                /\ applied' = applied \cup {r.op}
          /\ UNCHANGED <<buffer, ops>>
    <3>1. PICK r \in wire : wire' = wire \ {r} /\ UNCHANGED <<buffer, ops>>
            /\ \/ /\ \/ Answer(r, "refused", 0)
                     \/ r.kind # "set" /\ store[r.key] = 0 /\ Answer(r, "notFound", 0)
                     \/ r.kind = "get" /\ store[r.key] # 0 /\ Answer(r, "ok", store[r.key])
                  /\ UNCHANGED <<store, applied>>
               \/ /\ Hold(r.key, IF r.kind = "set" THEN r.op ELSE 0)
                  /\ applied' = applied \cup {r.op}
                  /\ \E status \in {"ok", "refused"} : Answer(r, status, 0)
      BY <1>3 DEF Serve, poolVars
    <3>2. store[r.key] \in 0 .. MaxOps /\ 0 \in 0 .. MaxOps
      BY <1>0 DEF Traffic
    <3>. QED  BY <3>1, <3>2 DEF Hold, Answered
  <2>2. r.op \in 1 .. ops /\ r.op \in 0 .. MaxOps /\ 0 \in 0 .. MaxOps
    <3>1. r.op \in 1 .. ops
      BY DEF Traffic
    <3>. QED  BY <1>0, <3>1
  <2>3. answers' = answers \cup {[op |-> r.op, status |-> status, value |-> value]}
    BY <2>1 DEF Answer
  <2>4. \A q \in wire' : q \in wire /\ q.op # r.op
    BY <2>1 DEF Traffic
  <2>5. store' \in [Keys -> 0 .. MaxOps] /\ applied' \subseteq 1 .. ops
    BY <2>1, <2>2 DEF Traffic
  <2>6. \A q \in wire' : q.op \in 1 .. ops /\ q.key \in Keys
    BY <2>4 DEF Traffic
  <2>7. \A q, t \in wire' : q.op = t.op => q = t
    BY <2>4 DEF Traffic
  <2>8. \A a \in answers' : a \in answers \/ (a.op = r.op /\ a.status = status /\ a.value = value)
    BY <2>3
  <2>9. \A a \in answers' : a.op \in 1 .. ops /\ a.status \in Answered /\ a.value \in 0 .. MaxOps
    BY <2>2, <2>8 DEF Traffic
  <2>10. \A q \in wire', a \in answers' : q.op # a.op
    BY <2>4, <2>8 DEF Traffic
  <2>. QED  BY <2>1, <2>5, <2>6, <2>7, <2>9, <2>10 DEF Traffic
<1>4. CASE Expire
  BY <1>0, <1>4 DEF Expire, Hold, Traffic, poolVars, callVars
<1>5. ASSUME (\E c \in Callers : Caller(c)) \/ SetHealthy \/ UNCHANGED vars PROVE Traffic'
  <2>1. UNCHANGED <<ops, applied, store, buffer, wire, answers>>
    BY <1>5 DEF Caller, Timeout, ReturnEntry, ReturnStatus, UseEntry, SetHealthy, vars, poolVars, serviceVars
  <2>. QED  BY <2>1 DEF Traffic
<1>. QED  BY <1>1, <1>2, <1>3, <1>4, <1>5 DEF Next

\* Every return after an answer gives the buffer back, and no other step does.
LEMMA PoolKeeps ==
  ASSUME Traffic, Pool, [Next]_vars
  PROVE  Pool'
<1>0. Nobody \notin Callers
  BY HTTPAssumption
<1>1. ASSUME NEW c \in Callers, NEW kind \in Kinds, NEW k \in Keys, Call(c, kind, k)
      PROVE  Pool'
  BY <1>1 DEF Call, Goto, Return, Pool, Places, Answered, poolVars
<1>2. CASE Receive
  <2>1. PICK a \in answers, b \in Buffers :
          /\ owner[b] = Nobody
          /\ \/ \E c \in Callers :
                  Waits(c, a) /\ owner' = [owner EXCEPT ![b] = c] /\ pc' = [pc EXCEPT ![c] = a.status]
             \/ UNCHANGED <<owner, pc>>
          /\ UNCHANGED <<healthy, result>>
    BY <1>2 DEF Receive, Goto
  <2>2. a.status \in Answered
    BY DEF Traffic
  <2>3. ASSUME NEW c \in Callers, Waits(c, a), owner' = [owner EXCEPT ![b] = c], pc' = [pc EXCEPT ![c] = a.status]
        PROVE  Pool'
    <3>1. pc[c] \notin Answered /\ \A d \in Buffers : owner[d] # c
      BY <2>3 DEF Waits, Answered, Pool
    <3>. QED  BY <1>0, <2>1, <2>2, <2>3, <3>1 DEF Pool, Places
  <2>. QED  BY <2>1, <2>3 DEF Pool
<1>3. ASSUME NEW c \in Callers, Timeout(c) \/ UseEntry(c) PROVE Pool'
  BY <1>3 DEF Timeout, UseEntry, Goto, Return, Pool, Places, Answered, poolVars
<1>4. ASSUME NEW c \in Callers, ReturnEntry(c) \/ ReturnStatus(c) PROVE Pool'
  <2>1. /\ pc[c] \in Answered /\ UNCHANGED healthy
        /\ owner' = [b \in Buffers |-> IF owner[b] = c THEN Nobody ELSE owner[b]]
        /\ pc' = [pc EXCEPT ![c] = "serving"] \/ pc' = [pc EXCEPT ![c] = "idle"]
    BY <1>4 DEF ReturnEntry, ReturnStatus, Release, Return, Goto, Answered
  <2>2. result' \in [Callers -> {"none", "ok", "notFound", "error", "unhealthy"}]
    <3>1. \A kind, status : Outcome(kind, status) \in {"ok", "notFound", "error"}
      BY DEF Outcome
    <3>. QED  BY <1>4, <3>1 DEF ReturnEntry, ReturnStatus, Return, Pool
  <2>3. pc' \in [Callers -> Places] /\ pc'[c] \notin Answered /\ \A d \in Callers \ {c} : pc'[d] = pc[d]
    BY <2>1 DEF Pool, Places, Answered
  <2>. QED  BY <1>0, <2>1, <2>2, <2>3 DEF Pool
<1>5. CASE Serve \/ Expire \/ SetHealthy \/ UNCHANGED vars
  BY <1>5 DEF Serve, Expire, SetHealthy, Hold, vars, callVars, poolVars, Pool
<1>. QED  BY <1>1, <1>2, <1>3, <1>4, <1>5 DEF Next, Caller

\* Whatever the service answers with, a response is held by exactly the callers
\* that look at it: no return of Get, Set or Delete leaks one
\* (HTTPBackend!TypeOK; http.go:130, 191, 228).
THEOREM HTTPLeaksNoBuffer == Spec => []TypeOK
<1>1. Init => Traffic /\ Pool
  BY HTTPAssumption DEF Init, Traffic, Pool, Places, Answered
<1>2. Traffic /\ Pool /\ [Next]_vars => Traffic' /\ Pool'
  BY TrafficKeeps, PoolKeeps
<1>3. Traffic /\ Pool => TypeOK
  <2>. SUFFICES ASSUME Traffic, Pool PROVE TypeOK
    OBVIOUS
  <2>1. ASSUME NEW c \in Callers
        PROVE  Cardinality(Held(c)) = IF pc[c] \in Answered THEN 1 ELSE 0
    <3>1. CASE pc[c] \in Answered
      <4>1. PICK b \in Buffers : owner[b] = c
        BY <3>1 DEF Pool
      <4>2. Held(c) = {b}
        BY <4>1, HTTPAssumption DEF Held, Pool
      <4>. QED  BY <3>1, <4>2, FS_Singleton
    <3>2. CASE pc[c] \notin Answered
      <4>1. Held(c) = {}
        BY <3>2 DEF Held, Pool
      <4>. QED  BY <3>2, <4>1, FS_EmptySet
    <3>. QED  BY <3>1, <3>2
  <2>2. {r.op : r \in wire} \cap {a.op : a \in answers} = {}
    BY DEF Traffic
  <2>. QED  BY <2>1, <2>2 DEF TypeOK, Traffic, Pool, Places
<1>. QED  BY <1>1, <1>2, <1>3, PTL DEF Spec

=============================================================================
