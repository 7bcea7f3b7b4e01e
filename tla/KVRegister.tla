------------------------------ MODULE KVRegister ------------------------------
(***************************************************************************)
(* What cache.go relies on in a remote storage.Backend                     *)
(* (internal/storage/storage.go): a register per key.  A Set or Delete     *)
(* takes effect at most once, at one moment; when it returns nil that      *)
(* moment lies behind, when it returns an error it may still come, and     *)
(* when it returns ErrBackendUnhealthy it never comes.  A Get returns what *)
(* the key held at some moment of the call.                                *)
(*                                                                         *)
(* A value is the number of the call that set it, 0 is no value.  Keys may *)
(* expire at any time.                                                     *)
(***************************************************************************)
EXTENDS Integers

CONSTANTS Callers, Keys

VARIABLES
  store,    \* store[k]: what k holds
  issued,   \* calls begun
  call,     \* call[c]: the call c is in, or NoCall
  pending,  \* Sets and Deletes that have not taken effect
  done,     \* numbers of those that have
  seen,     \* seen[c]: what the key of c's Get has held since the call began
  answer    \* answer[c]: what the last call of c returned

vars == <<store, issued, call, pending, done, seen, answer>>

Kinds == {"get", "set", "delete"}
NoCall == [op |-> 0, kind |-> "none", key |-> "none"]
NoAnswer == [status |-> "none", value |-> 0]

Init ==
  /\ store = [k \in Keys |-> 0]
  /\ issued = 0
  /\ call = [c \in Callers |-> NoCall]
  /\ pending = {} /\ done = {}
  /\ seen = [c \in Callers |-> {}]
  /\ answer = [c \in Callers |-> NoAnswer]

-----------------------------------------------------------------------------

Begin(c, kind, k) ==
  LET r == [op |-> issued + 1, kind |-> kind, key |-> k] IN
  /\ call[c] = NoCall
  /\ issued' = issued + 1
  /\ call' = [call EXCEPT ![c] = r]
  /\ pending' = IF kind = "get" THEN pending ELSE pending \cup {r}
  /\ seen' = [seen EXCEPT ![c] = IF kind = "get" THEN {store[k]} ELSE {}]
  /\ answer' = [answer EXCEPT ![c] = NoAnswer]
  /\ UNCHANGED <<store, done>>

\* ErrBackendUnhealthy: nothing has been sent.
Reject(c) ==
  /\ call[c] = NoCall
  /\ issued' = issued + 1
  /\ answer' = [answer EXCEPT ![c] = [status |-> "unhealthy", value |-> 0]]
  /\ UNCHANGED <<store, call, pending, done, seen>>

Return(c, status, value) ==
  /\ call[c] # NoCall
  /\ call' = [call EXCEPT ![c] = NoCall]
  /\ seen' = [seen EXCEPT ![c] = {}]
  /\ answer' = [answer EXCEPT ![c] = [status |-> status, value |-> value]]
  /\ UNCHANGED <<store, issued, pending, done>>

Confirm(c) == call[c].kind # "get" /\ call[c].op \in done /\ Return(c, "ok", 0)

Read(c) ==
  /\ call[c].kind = "get"
  /\ \E v \in seen[c] : Return(c, IF v = 0 THEN "notFound" ELSE "ok", v)

Fail(c) == Return(c, "error", 0)

\* The caller is through with the entry it got.
Use(c) ==
  /\ answer' = [answer EXCEPT ![c].value = 0]
  /\ UNCHANGED <<store, issued, call, pending, done, seen>>

-----------------------------------------------------------------------------

Hold(k, v) ==
  /\ store' = [store EXCEPT ![k] = v]
  /\ seen' = [c \in Callers |->
       IF call[c].kind = "get" /\ call[c].key = k THEN seen[c] \cup {v} ELSE seen[c]]
  /\ UNCHANGED <<issued, call, answer>>

Perform(r) ==
  /\ pending' = pending \ {r}
  /\ done' = done \cup {r.op}
  /\ Hold(r.key, IF r.kind = "set" THEN r.op ELSE 0)

\* The service turns the request down: it never takes effect.
Refuse(r) ==
  /\ pending' = pending \ {r}
  /\ UNCHANGED <<store, issued, call, done, seen, answer>>

Expire(k) == Hold(k, 0) /\ UNCHANGED <<pending, done>>

Next ==
  \/ \E c \in Callers :
       \/ \E kind \in Kinds, k \in Keys : Begin(c, kind, k)
       \/ Reject(c) \/ Confirm(c) \/ Read(c) \/ Fail(c) \/ Use(c)
  \/ \E r \in pending : Perform(r) \/ Refuse(r)
  \/ \E k \in Keys : Expire(k)

Spec == Init /\ [][Next]_vars
=============================================================================
