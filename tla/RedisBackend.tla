----------------------------- MODULE RedisBackend -----------------------------
(***************************************************************************)
(* Get, Set, Delete and Ping of internal/storage/redis/redis.go.  A key    *)
(* and its version are two keys of Redis, read and written by one          *)
(* transaction (TxPipeline), with an expiry each: the version's is given   *)
(* in whole seconds, the value's is not, and Redis may evict either.       *)
(*                                                                         *)
(* A value is the number of the call that set it, 0 is no value and no     *)
(* version.  No key is the version key of another one.  Redis and          *)
(* go-redis are external: a connection whose caller has given up is        *)
(* closed, so a late reply reaches nobody.                                 *)
(***************************************************************************)
EXTENDS Integers

CONSTANTS
  Callers,  \* goroutines of the cache service
  Keys,
  MaxOps    \* bound on the calls made

ASSUME RedisAssumption == MaxOps \in Nat

VARIABLES
  healthy,  \* r.healthy
  pc, req,  \* req[c]: the call c makes; pc[c]: where it is
  reply,    \* reply[c]: what Exec is about to return to c
  result,   \* result[c]: what the last call of c returned
  ops,      \* calls made
  val, ver, \* external: the values of key and versionKey(key)
  wire,     \* external: transactions sent and not yet executed
  applied,  \* history: the Sets and Deletes Redis has executed
  seen,     \* history: seen[c], what c's Get could have read since it began
  gave      \* history: gave[n], the version that Set n gave its key

vars == <<healthy, pc, req, reply, result, ops, val, ver, wire, applied, seen, gave>>

Kinds == {"get", "set", "delete"}
NoReq == [op |-> 0, kind |-> "none", key |-> "none"]
NoReply == [err |-> FALSE, val |-> 0, ver |-> 0]
Result(status, r) == [status |-> status, val |-> r.val, ver |-> r.ver]

Init ==
  /\ healthy = TRUE
  /\ pc = [c \in Callers |-> "idle"]
  /\ req = [c \in Callers |-> NoReq]
  /\ reply = [c \in Callers |-> NoReply]
  /\ result = [c \in Callers |-> Result("none", NoReply)]
  /\ ops = 0
  /\ val = [k \in Keys |-> 0] /\ ver = [k \in Keys |-> 0]
  /\ wire = {} /\ applied = {}
  /\ seen = [c \in Callers |-> {}]
  /\ gave = [n \in 1 .. MaxOps |-> 0]

\* What a Get makes of the two keys.
Visible(k) == IF ver[k] = 0 THEN 0 ELSE val[k]

-----------------------------------------------------------------------------
(* The callers *)

\* The check of Healthy(), then Exec sends the transaction.
Call(c, kind, k) ==
  LET r == [op |-> ops + 1, kind |-> kind, key |-> k] IN
  /\ pc[c] = "idle" /\ ops < MaxOps
  /\ ops' = ops + 1
  /\ \/ /\ healthy
        /\ pc' = [pc EXCEPT ![c] = "waiting"]
        /\ req' = [req EXCEPT ![c] = r]
        /\ wire' = wire \cup {r}
        /\ seen' = [seen EXCEPT ![c] = IF kind = "get" THEN {Visible(k)} ELSE {}]
        /\ result' = [result EXCEPT ![c] = Result("none", NoReply)]
     \/ /\ ~healthy
        /\ result' = [result EXCEPT ![c] = Result("unhealthy", NoReply)]
        /\ UNCHANGED <<pc, req, wire, seen>>
  /\ UNCHANGED <<healthy, reply, val, ver, applied, gave>>

Return(c, status, r) ==
  /\ pc' = [pc EXCEPT ![c] = "idle"]
  /\ req' = [req EXCEPT ![c] = NoReq]
  /\ reply' = [reply EXCEPT ![c] = NoReply]
  /\ seen' = [seen EXCEPT ![c] = {}]
  /\ result' = [result EXCEPT ![c] = Result(status, r)]
  /\ UNCHANGED <<healthy, ops, val, ver, wire, applied, gave>>

\* A timeout or a broken connection, whatever has become of the transaction.
Broken(c) == pc[c] # "idle" /\ Return(c, "error", NoReply)

NilAsValue(r) == "ok"
\* Get: Exec returns Nil when one of its two GETs did.
GetStatus(r) == IF r.val = 0 \/ r.ver = 0 THEN "notFound" ELSE "ok"

\* Exec returns.
ReturnReply(c) ==
  /\ pc[c] = "replied"
  /\ LET r == reply[c] IN
     IF r.err THEN Return(c, "error", NoReply)
     ELSE IF req[c].kind # "get" THEN Return(c, "ok", NoReply)
     ELSE Return(c, GetStatus(r), IF GetStatus(r) = "ok" THEN r ELSE NoReply)

\* Ping, or the health checker, writes the flag.
SetHealthy ==
  /\ healthy' = ~healthy
  /\ UNCHANGED <<pc, req, reply, result, ops, val, ver, wire, applied, seen, gave>>

-----------------------------------------------------------------------------
(* Redis: external.  A lost transaction is one that is never executed.       *)

ReplyTo(r, answer) ==
  /\ pc' = [c \in Callers |-> IF pc[c] = "waiting" /\ req[c] = r THEN "replied" ELSE pc[c]]
  /\ reply' = [c \in Callers |-> IF pc[c] = "waiting" /\ req[c] = r THEN answer ELSE reply[c]]

\* Key k now shows v: whoever reads it may get that.
Shows(k, v) ==
  seen' = [c \in Callers |->
    IF req[c].kind = "get" /\ req[c].key = k THEN seen[c] \cup {v} ELSE seen[c]]

GetTwoTrips(k) ==
  {[err |-> FALSE, val |-> val[k], ver |-> v] : v \in {ver[k], ver[k] + 1}}
\* MULTI; GET key; GET key:version; EXEC.
GetReplies(k) == {[err |-> FALSE, val |-> val[k], ver |-> ver[k]]}

ExecGet(r) ==
  /\ r.kind = "get"
  /\ \E answer \in GetReplies(r.key) : ReplyTo(r, answer)
  /\ UNCHANGED <<val, ver, applied, seen, gave>>

\* MULTI; SET key; INCR key:version; EXPIRE key:version; EXEC.
ExecSet(r) ==
  /\ r.kind = "set"
  /\ val' = [val EXCEPT ![r.key] = r.op]
  /\ ver' = [ver EXCEPT ![r.key] = @ + 1]
  /\ gave' = [gave EXCEPT ![r.op] = ver[r.key] + 1]
  /\ applied' = applied \cup {r.op}
  /\ Shows(r.key, r.op)
  /\ ReplyTo(r, NoReply)

\* DEL of both keys.
DelBoth(k) == val' = [val EXCEPT ![k] = 0] /\ ver' = [ver EXCEPT ![k] = 0]

ExecDelete(r) ==
  /\ r.kind = "delete"
  /\ DelBoth(r.key)
  /\ applied' = applied \cup {r.op}
  /\ Shows(r.key, 0)
  /\ ReplyTo(r, NoReply)
  /\ UNCHANGED gave

\* Redis turns the transaction down as a whole.
Abort(r) ==
  /\ ReplyTo(r, [NoReply EXCEPT !.err = TRUE])
  /\ UNCHANGED <<val, ver, applied, seen, gave>>

Execute ==
  \E r \in wire :
    /\ ExecGet(r) \/ ExecSet(r) \/ ExecDelete(r) \/ Abort(r)
    /\ wire' = wire \ {r}
    /\ UNCHANGED <<healthy, req, result, ops>>

\* One of the two keys expires or is evicted, without the other.
ExpireValue(k) == val[k] # 0 /\ val' = [val EXCEPT ![k] = 0] /\ UNCHANGED ver
ExpireVersion(k) == ver[k] # 0 /\ ver' = [ver EXCEPT ![k] = 0] /\ UNCHANGED val

Expire ==
  \E k \in Keys :
    /\ ExpireValue(k) \/ ExpireVersion(k)
    /\ Shows(k, 0)
    /\ UNCHANGED <<healthy, pc, req, reply, result, ops, wire, applied, gave>>

-----------------------------------------------------------------------------

Next ==
  \/ \E c \in Callers :
       Broken(c) \/ ReturnReply(c) \/ \E kind \in Kinds, k \in Keys : Call(c, kind, k)
  \/ Execute \/ Expire \/ SetHealthy

Spec == Init /\ [][Next]_vars

-----------------------------------------------------------------------------
(* Properties *)

\* The variables keep their types, and no caller waits for a request that is
\* not its own.
TypeOK ==
  /\ healthy \in BOOLEAN
  /\ pc \in [Callers -> {"idle", "waiting", "replied"}]
  /\ \A c \in Callers : (req[c] = NoReq) = (pc[c] = "idle")
  /\ ops \in 0 .. MaxOps
  /\ val \in [Keys -> 0 .. MaxOps] /\ ver \in [Keys -> 0 .. MaxOps]
  /\ applied \subseteq 1 .. ops

\* The register of KVRegister holds what a Get can see.
visible == [k \in Keys |-> Visible(k)]
unserved == {r \in wire : r.kind # "get"}
returned == [c \in Callers |-> [status |-> result[c].status, value |-> result[c].val]]

Register == INSTANCE KVRegister WITH
  store <- visible, issued <- ops, call <- req, pending <- unserved, done <- applied,
  answer <- returned

\* Two Redis keys with lives of their own still make one register: whichever
\* of them goes first, the key is absent as a whole, a Set brings both back,
\* and nil is returned only for what has been executed.
ImplementsRegister == Register!Spec

\* The version a Get returns is the one that the Set of the very value it
\* returns gave the key, whatever Sets, Deletes and expiries come between.
VersionOfItsValue ==
  \A c \in Callers : result[c].val # 0 => result[c].ver = gave[result[c].val]

-----------------------------------------------------------------------------
(* PROMPT.txt:7, a key has a monotonically increasing version: what the code  *)
(* does not keep once the version key is deleted, expires or is evicted.      *)

\* Two Sets of one key never give it the same version.
VersionsDiffer ==
  \A m, n \in 1 .. MaxOps : m # n /\ gave[m] # 0 => gave[m] # gave[n]
=============================================================================
