-------------------------- MODULE RedisBackend_proofs --------------------------
(***************************************************************************)
(* RedisBackend implements KVRegister, and a Get returns the version of    *)
(* the value it returns, for every set of callers and keys.                *)
(***************************************************************************)
EXTENDS RedisBackend, TLAPS

Request == [op : Nat, kind : Kinds, key : Keys]
Replies == [err : BOOLEAN, val : Nat, ver : Nat]
Statuses == {"none", "ok", "notFound", "error", "unhealthy"}
Results == [status : Statuses, val : Nat, ver : Nat]

Types ==
  /\ pc \in [Callers -> {"idle", "waiting", "replied"}]
  /\ req \in [Callers -> Request \cup {NoReq}]
  /\ reply \in [Callers -> Replies]
  /\ result \in [Callers -> Results]
  /\ ops \in 0 .. MaxOps
  /\ val \in [Keys -> Nat] /\ ver \in [Keys -> Nat]
  /\ wire \subseteq Request
  /\ applied \subseteq Nat
  /\ seen \in [Callers -> SUBSET Nat]
  /\ gave \in [1 .. MaxOps -> Nat]

\* A caller that is not idle has a request of its own; a number stands for one
\* transaction, and none is executed twice.
Numbered ==
  /\ \A c \in Callers : pc[c] = "idle" <=> req[c] = NoReq
  /\ \A r \in wire : r.op \in 1 .. ops /\ r.op \notin applied
  /\ \A r, s \in wire : r.op = s.op => r = s
  /\ applied \subseteq 1 .. ops

\* What a pair of value and version shows to Get.
Pair(v, n) == IF v = 0 \/ n = 0 THEN 0 ELSE v

\* A value that has both halves carries the version its own Set gave the key.
Labelled(v, n, done, given) == (v # 0 => v \in done) /\ (v # 0 /\ n # 0 => n = given[v])

Labels ==
  /\ \A k \in Keys : Labelled(val[k], ver[k], applied, gave)
  /\ \A c \in Callers : Labelled(reply[c].val, reply[c].ver, applied, gave)
  /\ \A c \in Callers : Labelled(result[c].val, result[c].ver, applied, gave)
  /\ \A c \in Callers : result[c].val # 0 => result[c].ver # 0

\* A reply says what has happened.
Truthful ==
  \A c \in Callers :
    /\ pc[c] = "replied" /\ ~reply[c].err =>
         IF req[c].kind = "get" THEN Pair(reply[c].val, reply[c].ver) \in seen[c]
                                ELSE req[c].op \in applied
    /\ req[c].kind = "get" => Visible(req[c].key) \in seen[c]

RInv == Types /\ Numbered /\ Labels /\ Truthful

-----------------------------------------------------------------------------

\* The invariant holds before the first call.
LEMMA RInvInit == Init => RInv
<1>. SUFFICES ASSUME Init PROVE RInv
  OBVIOUS
<1>1. Types
  BY RedisAssumption DEF Init, Types, NoReply, Result, Results, Statuses, Replies
<1>2. Numbered
  BY DEF Init, Numbered
<1>3. Labels
  BY DEF Init, Labels, Labelled, NoReply, Result
<1>4. Truthful
  BY DEF Init, Truthful, NoReq
<1>. QED  BY <1>1, <1>2, <1>3, <1>4 DEF RInv

\* A call that is sent adds one transaction with a new number.
LEMMA CallKeeps ==
  ASSUME RInv, NEW c \in Callers, NEW kind \in Kinds, NEW k \in Keys, Call(c, kind, k)
  PROVE  RInv'
<1>. DEFINE r == [op |-> ops + 1, kind |-> kind, key |-> k]
<1>0. /\ pc[c] = "idle" /\ ops < MaxOps /\ ops' = ops + 1
      /\ UNCHANGED <<healthy, reply, val, ver, applied, gave>>
      /\ Types /\ Numbered /\ Labels /\ Truthful
  BY DEF Call, RInv
<1>1. r \in Request /\ r # NoReq /\ Visible(k) \in Nat
  BY <1>0 DEF Types, Request, Kinds, NoReq, Visible
<1>2. CASE /\ pc' = [pc EXCEPT ![c] = "waiting"]
           /\ req' = [req EXCEPT ![c] = r]
           /\ wire' = wire \cup {r}
           /\ seen' = [seen EXCEPT ![c] = IF kind = "get" THEN {Visible(k)} ELSE {}]
           /\ result' = [result EXCEPT ![c] = Result("none", NoReply)]
  <2>1. Types'
    <3>1. result' \in [Callers -> Results]
      BY <1>0, <1>2 DEF Types, Result, Results, Statuses, NoReply
    <3>2. seen' \in [Callers -> SUBSET Nat]
      BY <1>0, <1>1, <1>2 DEF Types
    <3>. QED  BY <1>0, <1>1, <1>2, <3>1, <3>2, RedisAssumption DEF Types
  <2>2. Numbered'
    BY <1>0, <1>1, <1>2 DEF Numbered, Types, Request
  <2>3. Labels'
    BY <1>0, <1>2 DEF Labels, Labelled, Types, Result, NoReply
  <2>4. Truthful'
    BY <1>0, <1>2 DEF Truthful, Types, Visible
  <2>. QED  BY <2>1, <2>2, <2>3, <2>4 DEF RInv
<1>3. CASE result' = [result EXCEPT ![c] = Result("unhealthy", NoReply)] /\ UNCHANGED <<pc, req, wire, seen>>
  <2>1. Types'
    BY <1>0, <1>3, RedisAssumption DEF Types, Result, Results, Statuses, NoReply
  <2>2. Numbered'
    BY <1>0, <1>3 DEF Numbered, Types, Request
  <2>3. Labels'
    BY <1>0, <1>3 DEF Labels, Labelled, Types, Result, NoReply
  <2>4. Truthful'
    BY <1>0, <1>3 DEF Truthful, Types, Visible
  <2>. QED  BY <2>1, <2>2, <2>3, <2>4 DEF RInv
<1>. QED  BY <1>2, <1>3 DEF Call

\* A return clears the call, and what it returns has its version.
LEMMA ReturnKeeps ==
  ASSUME RInv, NEW c \in Callers, NEW status \in Statuses, NEW r \in Replies, Return(c, status, r),
         Labelled(r.val, r.ver, applied, gave), r.val # 0 => r.ver # 0
  PROVE  RInv'
<1>0. Types /\ Numbered /\ Labels /\ Truthful
  BY DEF RInv
<1>1. Types'
  BY <1>0 DEF Return, Types, Result, Results, Replies, NoReply
<1>2. Numbered'
  BY <1>0 DEF Return, Numbered, Types
<1>3. Labels'
  BY <1>0 DEF Return, Labels, Labelled, Types, Result, NoReply
<1>4. Truthful'
  BY <1>0 DEF Return, Truthful, Types, Visible, NoReq
<1>. QED  BY <1>1, <1>2, <1>3, <1>4 DEF RInv

\* What the two returns of a call hand to Return.
LEMMA ReturnsGiven ==
  ASSUME RInv, NEW c \in Callers, Broken(c) \/ ReturnReply(c)
  PROVE  \E status \in Statuses, r \in Replies :
           /\ Return(c, status, r)
           /\ Labelled(r.val, r.ver, applied, gave) /\ (r.val # 0 => r.ver # 0)
           /\ \/ status = "error" /\ r.val = 0
              \/ status = "ok" /\ r.val = 0 /\ req[c].kind # "get" /\ req[c].op \in applied
              \/ /\ req[c].kind = "get" /\ r.val \in seen[c]
                 /\ status = IF r.val = 0 THEN "notFound" ELSE "ok"
<1>0. Types /\ Labels /\ Truthful
  BY DEF RInv
<1>1. NoReply \in Replies /\ Labelled(NoReply.val, NoReply.ver, applied, gave) /\ NoReply.val = 0
  BY DEF NoReply, Replies, Labelled
<1>2. CASE Broken(c)
  BY <1>1, <1>2 DEF Broken, Statuses
<1>3. CASE ReturnReply(c)
  <2>1. pc[c] = "replied" /\ reply[c] \in Replies /\ Labelled(reply[c].val, reply[c].ver, applied, gave)
    BY <1>0, <1>3 DEF ReturnReply, Types, Labels
  <2>2. CASE reply[c].err
    BY <1>1, <1>3, <2>2 DEF ReturnReply, Statuses
  <2>3. CASE ~reply[c].err /\ req[c].kind # "get"
    <3>1. Return(c, "ok", NoReply)
      BY <1>3, <2>3 DEF ReturnReply
    <3>2. req[c].op \in applied
      BY <1>0, <2>1, <2>3 DEF Truthful
    <3>. QED  BY <1>1, <2>3, <3>1, <3>2 DEF Statuses
  <2>4. CASE ~reply[c].err /\ req[c].kind = "get"
    <3>1. Return(c, GetStatus(reply[c]), IF GetStatus(reply[c]) = "ok" THEN reply[c] ELSE NoReply)
      BY <1>3, <2>4 DEF ReturnReply
    <3>2. Pair(reply[c].val, reply[c].ver) \in seen[c]
      BY <1>0, <2>1, <2>4 DEF Truthful
    <3>3. CASE reply[c].val = 0 \/ reply[c].ver = 0
      BY <1>1, <2>4, <3>1, <3>2, <3>3 DEF GetStatus, Pair, Statuses
    <3>4. CASE reply[c].val # 0 /\ reply[c].ver # 0
      BY <2>1, <2>4, <3>1, <3>2, <3>4 DEF GetStatus, Pair, Statuses
    <3>. QED  BY <3>3, <3>4
  <2>. QED  BY <2>2, <2>3, <2>4
<1>. QED  BY <1>2, <1>3

\* What the callers are told when a transaction has been executed.
LEMMA ReplyKeeps ==
  ASSUME Types, Numbered, NEW r \in wire, NEW answer \in Replies, ReplyTo(r, answer), UNCHANGED req
  PROVE  /\ pc' \in [Callers -> {"idle", "waiting", "replied"}]
         /\ reply' \in [Callers -> Replies]
         /\ \A c \in Callers : pc'[c] = "idle" <=> pc[c] = "idle"
         /\ \A c \in Callers : \/ req[c] = r /\ pc'[c] = "replied" /\ reply'[c] = answer
                               \/ pc'[c] = pc[c] /\ reply'[c] = reply[c]
BY DEF Types, ReplyTo

\* The rest of the account of a transaction that is off the wire.
LEMMA ServedNumbers ==
  ASSUME Types, Numbered, NEW r \in wire, wire' = wire \ {r}, UNCHANGED <<req, ops>>,
         \A c \in Callers : pc'[c] = "idle" <=> pc[c] = "idle",
         applied' = applied \/ applied' = applied \cup {r.op}
  PROVE  Numbered'
<1>1. applied' \subseteq 1 .. ops
  <2>1. applied \subseteq 1 .. ops /\ r.op \in 1 .. ops
    BY DEF Numbered
  <2>. QED  BY <2>1
<1>2. \A s \in wire' : s \in wire /\ s.op # r.op
  BY DEF Numbered
<1>3. \A s \in wire' : s.op \in 1 .. ops /\ s.op \notin applied'
  BY <1>2 DEF Numbered
<1>. QED  BY <1>1, <1>2, <1>3 DEF Numbered

\* A value that is there has been set, and a transaction that is not executed yet set none.
LEMMA NewNumber ==
  ASSUME Types, Numbered, NEW r \in wire, NEW v, NEW n, Labelled(v, n, applied, gave),
         applied' = applied \cup {r.op},
         gave' = gave \/ (\E new \in Nat : gave' = [gave EXCEPT ![r.op] = new])
  PROVE  Labelled(v, n, applied', gave')
<1>1. v # 0 => v \in applied /\ v # r.op
  BY DEF Numbered, Labelled
<1>2. v # 0 => v \in 1 .. MaxOps
  <2>1. applied \subseteq 1 .. MaxOps
    BY RedisAssumption DEF Types, Numbered
  <2>. QED  BY <1>1, <2>1
<1>3. v # 0 => gave'[v] = gave[v]
  BY <1>1, <1>2 DEF Types
<1>. QED  BY <1>1, <1>3 DEF Labelled

\* A transaction that Redis executes or turns down keeps the invariant.
LEMMA ExecuteKeeps ==
  ASSUME RInv, Execute
  PROVE  RInv'
<1>. PICK r \in wire :
       /\ ExecGet(r) \/ ExecSet(r) \/ ExecDelete(r) \/ Abort(r)
       /\ wire' = wire \ {r}
       /\ UNCHANGED <<healthy, req, result, ops>>
  BY DEF Execute
<1>0. /\ Types /\ Numbered /\ Labels /\ Truthful
      /\ r \in Request /\ r.op \in 1 .. MaxOps /\ r.op \in Nat /\ r.op # 0
  BY RedisAssumption DEF RInv, Types, Numbered, Request
<1>1. CASE ExecGet(r)
  <2>. DEFINE answer == [err |-> FALSE, val |-> val[r.key], ver |-> ver[r.key]]
  <2>1. /\ ReplyTo(r, answer) /\ answer \in Replies /\ r.kind = "get" /\ r.key \in Keys
        /\ UNCHANGED <<val, ver, applied, seen, gave>>
    BY <1>0, <1>1 DEF ExecGet, GetReplies, Types, Request, Replies
  <2>2. Types' /\ Numbered'
    BY <1>0, <2>1, ReplyKeeps, ServedNumbers DEF Types
  <2>3. Labels'
    BY <1>0, <2>1, ReplyKeeps DEF Labels, Labelled
  <2>4. Truthful'
    <3>. SUFFICES ASSUME NEW c \in Callers PROVE Truthful!(c)'
      BY DEF Truthful
    <3>1. req'[c].kind = "get" => Visible(req[c].key)' \in seen'[c]
      BY <1>0, <2>1 DEF Truthful, Visible
    <3>2. CASE req[c] = r /\ pc'[c] = "replied" /\ reply'[c] = answer
      BY <1>0, <2>1, <3>1, <3>2 DEF Truthful, Visible, Pair
    <3>3. CASE pc'[c] = pc[c] /\ reply'[c] = reply[c]
      BY <1>0, <2>1, <3>1, <3>3 DEF Truthful, Pair
    <3>. QED  BY <1>0, <2>1, <3>2, <3>3, ReplyKeeps
  <2>. QED  BY <2>2, <2>3, <2>4 DEF RInv
<1>2. CASE Abort(r)
  <2>. DEFINE answer == [NoReply EXCEPT !.err = TRUE]
  <2>1. /\ ReplyTo(r, answer) /\ answer \in Replies /\ answer.err /\ answer.val = 0
        /\ UNCHANGED <<val, ver, applied, seen, gave>>
    BY <1>2 DEF Abort, NoReply, Replies
  <2>2. Types' /\ Numbered'
    BY <1>0, <2>1, ReplyKeeps, ServedNumbers DEF Types
  <2>. HIDE DEF answer
  <2>3. Labels'
    <3>1. ASSUME NEW c \in Callers PROVE Labelled(reply'[c].val, reply'[c].ver, applied', gave')
      <4>1. CASE reply'[c] = answer
        BY <2>1, <4>1 DEF Labelled
      <4>2. CASE reply'[c] = reply[c]
        BY <1>0, <2>1, <4>2 DEF Labels
      <4>. QED  BY <1>0, <2>1, <4>1, <4>2, ReplyKeeps
    <3>. QED  BY <1>0, <2>1, <3>1 DEF Labels
  <2>4. Truthful'
    <3>. SUFFICES ASSUME NEW c \in Callers PROVE Truthful!(c)'
      BY DEF Truthful
    <3>1. req'[c].kind = "get" => Visible(req[c].key)' \in seen'[c]
      BY <1>0, <2>1 DEF Truthful, Visible
    <3>2. CASE req[c] = r /\ pc'[c] = "replied" /\ reply'[c] = answer
      BY <2>1, <3>1, <3>2
    <3>3. CASE pc'[c] = pc[c] /\ reply'[c] = reply[c]
      BY <1>0, <2>1, <3>1, <3>3 DEF Truthful
    <3>. QED  BY <1>0, <2>1, <3>2, <3>3, ReplyKeeps
  <2>. QED  BY <2>2, <2>3, <2>4 DEF RInv
<1>3. CASE ExecSet(r) \/ ExecDelete(r)
  <2>. DEFINE new == IF r.kind = "set" THEN r.op ELSE 0
  <2>1. /\ ReplyTo(r, NoReply) /\ NoReply \in Replies /\ NoReply.val = 0 /\ r.kind # "get" /\ r.key \in Keys
        /\ applied' = applied \cup {r.op}
        /\ Shows(r.key, new)
    BY <1>0, <1>3 DEF ExecSet, ExecDelete, NoReply, Replies, Request
  <2>2. /\ val' = [val EXCEPT ![r.key] = new]
        /\ ver' \in [Keys -> Nat] /\ \A k \in Keys \ {r.key} : ver'[k] = ver[k]
        /\ \/ new = r.op /\ ver'[r.key] # 0 /\ gave' = [gave EXCEPT ![r.op] = ver'[r.key]]
           \/ new = 0 /\ ver'[r.key] = 0 /\ gave' = gave
    <3>1. CASE ExecSet(r)
      <4>1. /\ new = r.op /\ val' = [val EXCEPT ![r.key] = r.op]
            /\ ver' = [ver EXCEPT ![r.key] = ver[r.key] + 1]
            /\ gave' = [gave EXCEPT ![r.op] = ver[r.key] + 1]
        BY <3>1 DEF ExecSet
      <4>2. ver[r.key] \in Nat /\ ver'[r.key] = ver[r.key] + 1
        BY <1>0, <2>1, <4>1 DEF Types
      <4>3. ver' \in [Keys -> Nat] /\ \A k \in Keys \ {r.key} : ver'[k] = ver[k]
        BY <1>0, <4>1, <4>2 DEF Types
      <4>4. ver'[r.key] # 0
        BY <4>2
      <4>5. gave' = [gave EXCEPT ![r.op] = ver'[r.key]]
        BY <4>1, <4>2, Zenon
      <4>. HIDE DEF new
      <4>. QED  BY <4>1, <4>3, <4>4, <4>5
    <3>2. CASE ExecDelete(r)
      BY <1>0, <2>1, <3>2 DEF ExecDelete, DelBoth, Types
    <3>. QED  BY <1>3, <3>1, <3>2
  <2>3. gave' = gave \/ (\E n \in Nat : gave' = [gave EXCEPT ![r.op] = n])
    BY <2>1, <2>2
  <2>4. Types'
    <3>1. seen' \in [Callers -> SUBSET Nat]
      BY <1>0, <2>1 DEF Shows, Types
    <3>2. gave' \in [1 .. MaxOps -> Nat]
      BY <1>0, <2>3 DEF Types
    <3>. QED  BY <1>0, <2>1, <2>2, <3>1, <3>2, ReplyKeeps DEF Types
  <2>5. Numbered'
    BY <1>0, <2>1, ReplyKeeps, ServedNumbers
  <2>6. Labels'
    <3>1. ASSUME NEW k \in Keys PROVE Labelled(val'[k], ver'[k], applied', gave')
      <4>1. CASE k # r.key
        <5>1. val'[k] = val[k] /\ ver'[k] = ver[k]
          BY <1>0, <2>2, <4>1 DEF Types
        <5>. QED  BY <1>0, <2>1, <2>3, <5>1, NewNumber DEF Labels
      <4>2. CASE k = r.key
        <5>1. val'[k] = new
          BY <1>0, <2>2, <4>2 DEF Types
        <5>2. new # 0 => new = r.op /\ ver'[k] = gave'[r.op]
          BY <1>0, <2>2, <4>2 DEF Types
        <5>. QED  BY <2>1, <5>1, <5>2 DEF Labelled
      <4>. QED  BY <4>1, <4>2
    <3>2. ASSUME NEW c \in Callers PROVE Labelled(reply'[c].val, reply'[c].ver, applied', gave')
      <4>1. CASE reply'[c] = NoReply
        BY <2>1, <4>1 DEF Labelled
      <4>2. CASE reply'[c] = reply[c]
        BY <1>0, <2>1, <2>3, <4>2, NewNumber DEF Labels
      <4>. QED  BY <1>0, <2>1, <4>1, <4>2, ReplyKeeps
    <3>3. ASSUME NEW c \in Callers PROVE Labelled(result'[c].val, result'[c].ver, applied', gave')
      BY <1>0, <2>1, <2>3, NewNumber DEF Labels
    <3>. QED  BY <1>0, <3>1, <3>2, <3>3 DEF Labels
  <2>7. Truthful'
    <3>. SUFFICES ASSUME NEW c \in Callers PROVE Truthful!(c)'
      BY DEF Truthful
    <3>1. applied \subseteq applied' /\ seen[c] \subseteq seen'[c]
      BY <1>0, <2>1 DEF Shows, Types
    <3>2. req'[c].kind = "get" => Visible(req[c].key)' \in seen'[c]
      <4>. SUFFICES ASSUME req[c].kind = "get" PROVE Visible(req[c].key)' \in seen'[c]
        OBVIOUS
      <4>1. req[c] \in Request
        BY <1>0 DEF Types, NoReq
      <4>2. CASE req[c].key = r.key
        <5>1. Visible(req[c].key)' = IF ver'[r.key] = 0 THEN 0 ELSE val'[r.key]
          BY <1>0, <4>2 DEF Visible
        <5>3. val'[r.key] = new /\ (ver'[r.key] = 0 => new = 0)
          BY <1>0, <2>1, <2>2 DEF Types
        <5>4. Visible(req[c].key)' = new
          BY <5>1, <5>3
        <5>2. new \in seen'[c]
          BY <1>0, <2>1, <4>2 DEF Shows, Types
        <5>. QED  BY <5>2, <5>4
      <4>3. CASE req[c].key # r.key
        <5>1. Visible(req[c].key)' = Visible(req[c].key)
          BY <1>0, <2>2, <4>1, <4>3 DEF Visible, Types, Request
        <5>. QED  BY <1>0, <3>1, <5>1 DEF Truthful
      <4>. QED  BY <4>2, <4>3
    <3>3. CASE req[c] = r /\ pc'[c] = "replied" /\ reply'[c] = NoReply
      BY <2>1, <3>2, <3>3
    <3>4. CASE pc'[c] = pc[c] /\ reply'[c] = reply[c]
      BY <1>0, <3>1, <3>2, <3>4 DEF Truthful, Pair
    <3>. QED  BY <1>0, <2>1, <3>3, <3>4, ReplyKeeps
  <2>. QED  BY <2>4, <2>5, <2>6, <2>7 DEF RInv
<1>. QED  BY <1>1, <1>2, <1>3

\* A key that loses its value or its version becomes absent as a whole.
LEMMA ExpireShows ==
  ASSUME Types, NEW k \in Keys, ExpireValue(k) \/ ExpireVersion(k)
  PROVE  /\ val' \in [Keys -> Nat] /\ ver' \in [Keys -> Nat]
         /\ val'[k] = 0 \/ ver'[k] = 0
         /\ \A j \in Keys : (val'[j] = val[j] \/ val'[j] = 0) /\ (ver'[j] = ver[j] \/ ver'[j] = 0)
         /\ \A j \in Keys \ {k} : val'[j] = val[j] /\ ver'[j] = ver[j]
<1>0. val \in [Keys -> Nat] /\ ver \in [Keys -> Nat]
  BY DEF Types
<1>1. CASE ExpireValue(k)
  BY <1>0, <1>1 DEF ExpireValue
<1>2. CASE ExpireVersion(k)
  BY <1>0, <1>2 DEF ExpireVersion
<1>. QED  BY <1>1, <1>2

\* An expiry or an eviction keeps the invariant.
LEMMA ExpireKeeps ==
  ASSUME RInv, Expire
  PROVE  RInv'
<1>. PICK k \in Keys :
       /\ ExpireValue(k) \/ ExpireVersion(k)
       /\ Shows(k, 0)
       /\ UNCHANGED <<healthy, pc, req, reply, result, ops, wire, applied, gave>>
  BY DEF Expire
<1>0. Types /\ Numbered /\ Labels /\ Truthful
  BY DEF RInv
<1>1. Types'
  <2>1. seen' \in [Callers -> SUBSET Nat]
    BY <1>0 DEF Shows, Types
  <2>. QED  BY <1>0, <2>1, ExpireShows DEF Types
<1>2. Numbered'
  BY <1>0 DEF Numbered
<1>3. Labels'
  <2>1. \A j \in Keys : Labelled(val'[j], ver'[j], applied, gave)
    BY <1>0, ExpireShows DEF Labels, Labelled
  <2>. QED  BY <1>0, <2>1 DEF Labels
<1>4. Truthful'
  <2>. SUFFICES ASSUME NEW c \in Callers PROVE Truthful!(c)'
    BY DEF Truthful
  <2>1. seen[c] \subseteq seen'[c]
    BY <1>0 DEF Shows, Types
  <2>2. ASSUME req[c].kind = "get" PROVE Visible(req[c].key)' \in seen'[c]
    <3>1. req[c].key \in Keys
      <4>1. req[c] \in Request
        BY <1>0, <2>2 DEF Types, NoReq
      <4>. QED  BY <4>1 DEF Request
    <3>2. CASE req[c].key = k
      <4>1. Visible(req[c].key)' = 0
        BY <1>0, <3>2, ExpireShows DEF Visible
      <4>. QED  BY <1>0, <2>2, <3>2, <4>1 DEF Shows, Types
    <3>3. CASE req[c].key # k
      <4>1. Visible(req[c].key)' = Visible(req[c].key)
        BY <1>0, <3>1, <3>3, ExpireShows DEF Visible
      <4>. QED  BY <1>0, <2>1, <2>2, <4>1 DEF Truthful
    <3>. QED  BY <3>2, <3>3
  <2>. QED  BY <1>0, <2>1, <2>2 DEF Truthful
<1>. QED  BY <1>1, <1>2, <1>3, <1>4 DEF RInv

\* Every step keeps the invariant.
LEMMA RInvStep ==
  ASSUME RInv, [Next]_vars
  PROVE  RInv'
<1>1. ASSUME NEW c \in Callers, Broken(c) \/ ReturnReply(c) PROVE RInv'
  <2>1. PICK status \in Statuses, r \in Replies :
          Return(c, status, r) /\ Labelled(r.val, r.ver, applied, gave) /\ (r.val # 0 => r.ver # 0)
    BY <1>1, ReturnsGiven
  <2>. QED  BY <2>1, ReturnKeeps
<1>2. ASSUME NEW c \in Callers, NEW kind \in Kinds, NEW k \in Keys, Call(c, kind, k) PROVE RInv'
  BY <1>2, CallKeeps
<1>3. CASE SetHealthy \/ UNCHANGED vars
  <2>1. UNCHANGED <<pc, req, reply, result, ops, val, ver, wire, applied, seen, gave>>
    BY <1>3 DEF SetHealthy, vars
  <2>2. Types' /\ Numbered' /\ Labels'
    BY <2>1 DEF RInv, Types, Numbered, Labels
  <2>3. Truthful'
    BY <2>1 DEF RInv, Truthful, Visible
  <2>. QED  BY <2>2, <2>3 DEF RInv
<1>. QED  BY <1>1, <1>2, <1>3, ExecuteKeeps, ExpireKeeps DEF Next

\* Replies are truthful, transactions are executed once, and values carry the
\* version of their own Set.
THEOREM RedisInvariant == Spec => []RInv
<1>1. RInv /\ [Next]_vars => RInv'
  BY RInvStep
<1>. QED  BY RInvInit, <1>1, PTL DEF Spec

\* A Get never returns a value with the version of another Set, though value
\* and version are two keys with lives of their own (RedisBackend!VersionOfItsValue).
THEOREM RedisVersionOfItsValue == Spec => []VersionOfItsValue
<1>1. RInv => VersionOfItsValue
  BY DEF RInv, Labels, Labelled, VersionOfItsValue
<1>. QED  BY RedisInvariant, <1>1, PTL

-----------------------------------------------------------------------------
(* The refinement                                                            *)

\* The register begins where the backend does.
LEMMA RInit == Init => Register!Init
BY DEF Init, Register!Init, visible, Visible, unserved, returned, NoReq, NoReply, Result,
  Register!NoCall, Register!NoAnswer

\* A call is a Begin, or a Reject when the backend is unhealthy.
LEMMA RCall ==
  ASSUME RInv, NEW c \in Callers, NEW kind \in Kinds, NEW k \in Keys, Call(c, kind, k)
  PROVE  Register!Begin(c, kind, k) \/ Register!Reject(c)
<1>. DEFINE r == [op |-> ops + 1, kind |-> kind, key |-> k]
<1>0. /\ req[c] = Register!NoCall /\ ops' = ops + 1
      /\ UNCHANGED <<val, ver, applied>> /\ visible' = visible
      /\ Types
  BY DEF Call, RInv, Numbered, NoReq, Register!NoCall, visible, Visible
<1>1. CASE /\ req' = [req EXCEPT ![c] = r]
           /\ wire' = wire \cup {r}
           /\ seen' = [seen EXCEPT ![c] = IF kind = "get" THEN {Visible(k)} ELSE {}]
           /\ result' = [result EXCEPT ![c] = Result("none", NoReply)]
  <2>1. unserved' = IF kind = "get" THEN unserved ELSE unserved \cup {r}
    BY <1>1 DEF unserved
  <2>2. returned' = [returned EXCEPT ![c] = Register!NoAnswer]
    BY <1>0, <1>1 DEF returned, Types, Result, NoReply, Register!NoAnswer
  <2>3. visible[k] = Visible(k)
    BY DEF visible
  <2>4. Register!Begin(c, kind, k)
    BY <1>0, <1>1, <2>1, <2>2, <2>3 DEF Register!Begin
  <2>. QED  BY <2>4
<1>2. CASE result' = [result EXCEPT ![c] = Result("unhealthy", NoReply)] /\ UNCHANGED <<pc, req, wire, seen>>
  <2>1. unserved' = unserved
    BY <1>2 DEF unserved
  <2>2. returned' = [returned EXCEPT ![c] = [status |-> "unhealthy", value |-> 0]]
    BY <1>0, <1>2 DEF returned, Types, Result, NoReply
  <2>3. Register!Reject(c)
    BY <1>0, <1>2, <2>1, <2>2 DEF Register!Reject
  <2>. QED  BY <2>3
<1>. QED  BY <1>1, <1>2 DEF Call

\* A return is a Confirm, a Read or a Fail.
LEMMA RReturn ==
  ASSUME RInv, NEW c \in Callers, Broken(c) \/ ReturnReply(c)
  PROVE  Register!Next
<1>. PICK status \in Statuses, r \in Replies :
       /\ Return(c, status, r)
       /\ \/ status = "error" /\ r.val = 0
          \/ status = "ok" /\ r.val = 0 /\ req[c].kind # "get" /\ req[c].op \in applied
          \/ /\ req[c].kind = "get" /\ r.val \in seen[c]
             /\ status = IF r.val = 0 THEN "notFound" ELSE "ok"
  BY ReturnsGiven
<1>1. Types /\ req[c] # Register!NoCall
  BY DEF RInv, Numbered, Broken, ReturnReply, NoReq, Register!NoCall
<1>2. Register!Return(c, status, r.val)
  <2>1. returned' = [returned EXCEPT ![c] = [status |-> status, value |-> r.val]]
    BY <1>1 DEF Return, returned, Types, Result
  <2>2. /\ req' = [req EXCEPT ![c] = Register!NoCall]
        /\ seen' = [seen EXCEPT ![c] = {}]
        /\ UNCHANGED <<visible, ops, unserved, applied>>
    BY DEF Return, visible, Visible, unserved, NoReq, Register!NoCall
  <2>. QED  BY <1>1, <2>1, <2>2 DEF Register!Return
<1>3. CASE status = "error" /\ r.val = 0
  BY <1>2, <1>3 DEF Register!Fail, Register!Next
<1>4. CASE status = "ok" /\ r.val = 0 /\ req[c].kind # "get" /\ req[c].op \in applied
  BY <1>2, <1>4 DEF Register!Confirm, Register!Next
<1>5. CASE req[c].kind = "get" /\ r.val \in seen[c] /\ status = IF r.val = 0 THEN "notFound" ELSE "ok"
  <2>1. Register!Read(c)
    BY <1>2, <1>5 DEF Register!Read
  <2>. QED  BY <2>1 DEF Register!Next
<1>. QED  BY <1>3, <1>4, <1>5

\* A key that shows something else is a Hold of the register.
LEMMA RHold ==
  ASSUME Types, NEW k \in Keys, NEW v, Shows(k, v), UNCHANGED <<req, result, ops>>,
         Visible(k)' = v, \A j \in Keys \ {k} : Visible(j)' = Visible(j)
  PROVE  Register!Hold(k, v)
<1>1. visible' = [visible EXCEPT ![k] = v]
  BY DEF visible
<1>2. returned' = returned
  BY DEF returned
<1>. QED  BY <1>1, <1>2 DEF Register!Hold, Shows

\* An executed transaction is a Perform, a Refuse, or a read the register does not see.
LEMMA RExecute ==
  ASSUME RInv, Execute
  PROVE  Register!Next \/ UNCHANGED Register!vars
<1>. PICK r \in wire :
       /\ ExecGet(r) \/ ExecSet(r) \/ ExecDelete(r) \/ Abort(r)
       /\ wire' = wire \ {r}
       /\ UNCHANGED <<healthy, req, result, ops>>
  BY DEF Execute
<1>0. Types /\ r \in Request /\ r.op # 0 /\ unserved' = unserved \ {r}
  BY DEF RInv, Types, Numbered, unserved
<1>1. CASE ExecGet(r) \/ Abort(r)
  <2>1. UNCHANGED <<visible, ops, req, applied, seen, returned>>
    BY <1>1 DEF ExecGet, Abort, visible, Visible, returned
  <2>2. CASE r.kind = "get"
    <3>1. unserved' = unserved
      BY <1>0, <2>2 DEF unserved
    <3>. QED  BY <2>1, <3>1 DEF Register!vars
  <2>3. CASE r.kind # "get"
    <3>1. r \in unserved
      BY <2>3 DEF unserved
    <3>2. Register!Refuse(r)
      BY <1>0, <2>1 DEF Register!Refuse
    <3>. QED  BY <3>1, <3>2 DEF Register!Next
  <2>. QED  BY <2>2, <2>3
<1>2. CASE ExecSet(r) \/ ExecDelete(r)
  <2>. DEFINE new == IF r.kind = "set" THEN r.op ELSE 0
  <2>1. r \in unserved /\ r.key \in Keys /\ applied' = applied \cup {r.op} /\ Shows(r.key, new)
    BY <1>0, <1>2 DEF ExecSet, ExecDelete, unserved, Request
  <2>2. Visible(r.key)' = new
    <3>1. CASE ExecSet(r)
      <4>1. val'[r.key] = r.op /\ ver'[r.key] = ver[r.key] + 1 /\ ver[r.key] \in Nat /\ new = r.op
        BY <1>0, <2>1, <3>1 DEF ExecSet, Types
      <4>2. ver'[r.key] # 0
        BY <4>1
      <4>. HIDE DEF new
      <4>. QED  BY <4>1, <4>2 DEF Visible
    <3>2. CASE ExecDelete(r)
      BY <1>0, <2>1, <3>2 DEF ExecDelete, DelBoth, Types, Visible
    <3>. QED  BY <1>2, <3>1, <3>2
  <2>3. \A j \in Keys \ {r.key} : Visible(j)' = Visible(j)
    BY <1>0, <1>2 DEF ExecSet, ExecDelete, DelBoth, Types, Visible
  <2>4. Register!Hold(r.key, new)
    <3>. HIDE DEF new
    <3>. QED  BY <1>0, <2>1, <2>2, <2>3, RHold
  <2>5. Register!Perform(r)
    BY <1>0, <2>1, <2>4 DEF Register!Perform
  <2>. QED  BY <2>1, <2>5 DEF Register!Next
<1>. QED  BY <1>1, <1>2

\* Every step of the backend is a step of the register or leaves it alone.
LEMMA RStep ==
  ASSUME RInv, [Next]_vars
  PROVE  Register!Next \/ UNCHANGED Register!vars
<1>1. ASSUME NEW c \in Callers, NEW kind \in Kinds, NEW k \in Keys, Call(c, kind, k)
      PROVE  Register!Next
  BY <1>1, RCall DEF Register!Next, Register!Kinds, Kinds
<1>2. CASE Expire
  <2>1. PICK k \in Keys :
          /\ ExpireValue(k) \/ ExpireVersion(k)
          /\ Shows(k, 0)
          /\ UNCHANGED <<req, result, ops, wire, applied>>
    BY <1>2 DEF Expire
  <2>2. Visible(k)' = 0 /\ \A j \in Keys \ {k} : Visible(j)' = Visible(j)
    BY <2>1, ExpireShows DEF RInv, Visible
  <2>3. Register!Hold(k, 0) /\ unserved' = unserved
    BY <2>1, <2>2, RHold DEF RInv, unserved
  <2>. QED  BY <2>1, <2>3 DEF Register!Expire, Register!Next
<1>3. CASE SetHealthy \/ UNCHANGED vars
  BY <1>3 DEF SetHealthy, vars, Register!vars, visible, Visible, unserved, returned
<1>. QED  BY <1>1, <1>2, <1>3, RReturn, RExecute DEF Next

\* The redis backend keeps the promises of the register whatever expires, is
\* evicted, refused, late or lost (RedisBackend!ImplementsRegister).
THEOREM RedisImplementsRegister == Spec => ImplementsRegister
<1>1. RInv /\ [Next]_vars => [Register!Next]_(Register!vars)
  BY RStep
<1>. QED  BY RedisInvariant, RInit, <1>1, PTL DEF Spec, ImplementsRegister, Register!Spec

=============================================================================
