--------------------------- MODULE MemoryBackend_proofs ---------------------------
(***************************************************************************)
(* What the order of the two locks of the memory backend buys: a version   *)
(* is never older than its value, for any number of callers and calls.     *)
(***************************************************************************)
EXTENDS MemoryBackend, TLAPS

Types ==
  /\ value \in 0 .. ops /\ ver \in Nat
  /\ pc \in [Procs -> {"idle", "getVersion", "store", "deleteVersion"}]
  /\ tmp \in [Procs -> 0 .. ops]
  /\ out \in [Procs -> [value : 0 .. ops, version : Nat]]
  /\ ops \in 0 .. MaxOps
  /\ own \in [Ops -> Nat]

\* Version ver is at least as new as value n.
Covers(v, n) == n # 0 => v >= own[n]

\* The map is ahead of what is stored, and of what a Set is about to store and
\* a Get is about to label.
Ahead ==
  /\ Covers(ver, value)
  /\ \A p \in Procs : pc[p] \in {"getVersion", "store"} => Covers(ver, tmp[p])
  /\ \A p \in Procs : Covers(out[p].version, out[p].value)

MInv == Types /\ Ahead

\* The invariant holds before the first call.
LEMMA MInit == Init => MInv
BY MemoryAssumption DEF Init, MInv, Types, Ahead, Covers, NoEntry, Ops

\* A call that starts leaves the values of the earlier ones in place.
LEMMA Started ==
  ASSUME Types, NEW p \in Procs, NEW kind, NEW next \in {"idle", "getVersion", "store", "deleteVersion"},
         NEW read \in 0 .. ops + 1, Start(p, kind, next, read)
  PROVE  /\ ops + 1 \in Ops /\ ops \in 0 .. MaxOps /\ ops' = ops + 1 /\ ops' \in 0 .. MaxOps
         /\ pc' \in [Procs -> {"idle", "getVersion", "store", "deleteVersion"}]
         /\ tmp' \in [Procs -> 0 .. ops']
         /\ value \in 0 .. ops' /\ out \in [Procs -> [value : 0 .. ops', version : Nat]]
         /\ pc'[p] = next /\ tmp'[p] = read
         /\ \A q \in Procs \ {p} : pc'[q] = pc[q] /\ tmp'[q] = tmp[q]
BY MemoryAssumption DEF Types, Start, Ops

\* Get reads the value first.
LEMMA GetValueKeeps == ASSUME MInv, NEW p \in Procs, GetValue(p) PROVE MInv'
<1>. DEFINE next == IF value = 0 THEN "idle" ELSE "getVersion"
<1>1. /\ Start(p, "get", next, value) /\ next \in {"idle", "getVersion", "store", "deleteVersion"}
      /\ value \in 0 .. ops + 1 /\ next # "store" /\ UNCHANGED <<value, ver, out, own>> /\ Types
  BY DEF GetValue, MInv, Types
<1>. HIDE DEF next
<1>2. Types' /\ tmp'[p] = value /\ \A q \in Procs \ {p} : pc'[q] = pc[q] /\ tmp'[q] = tmp[q]
  <2>1. /\ ops' \in 0 .. MaxOps /\ pc' \in [Procs -> {"idle", "getVersion", "store", "deleteVersion"}]
        /\ tmp' \in [Procs -> 0 .. ops'] /\ value \in 0 .. ops'
        /\ out \in [Procs -> [value : 0 .. ops', version : Nat]]
        /\ tmp'[p] = value /\ \A q \in Procs \ {p} : pc'[q] = pc[q] /\ tmp'[q] = tmp[q]
    BY <1>1, Started
  <2>. QED  BY <1>1, <2>1 DEF Types
<1>. QED  BY <1>1, <1>2 DEF MInv, Ahead, Covers

\* Get reads the version of the moment.
LEMMA GetVersionKeeps == ASSUME MInv, NEW p \in Procs, GetVersion(p) PROVE MInv'
BY DEF MInv, Types, Ahead, Covers, GetVersion, Finish

\* Set moves the version, for a value that nobody has yet.
LEMMA IncrementVersionKeeps == ASSUME MInv, NEW p \in Procs, IncrementVersion(p) PROVE MInv'
<1>1. /\ Start(p, "set", "store", ops + 1) /\ ops + 1 \in 0 .. ops + 1
      /\ ver' = ver + 1 /\ ver \in Nat
      /\ own' = [own EXCEPT ![ops + 1] = ver + 1]
      /\ UNCHANGED <<value, out>> /\ Types
  BY DEF IncrementVersion, MInv, Types
<1>2. \A n \in 0 .. ops : n # 0 => n \in Ops /\ own'[n] = own[n] /\ own[n] \in Nat
  BY <1>1, MemoryAssumption DEF Types, Ops
<1>3. own'[ops + 1] = ver'
  BY <1>1, Started DEF Types
<1>4. Types'
  <2>1. /\ ops' \in 0 .. MaxOps /\ pc' \in [Procs -> {"idle", "getVersion", "store", "deleteVersion"}]
        /\ tmp' \in [Procs -> 0 .. ops'] /\ value \in 0 .. ops'
        /\ out \in [Procs -> [value : 0 .. ops', version : Nat]]
    BY <1>1, Started
  <2>2. ver' \in Nat /\ own' \in [Ops -> Nat]
    <3>1. ver + 1 \in Nat /\ own \in [Ops -> Nat]
      BY <1>1 DEF Types
    <3>. QED  BY <1>1, <3>1
  <2>. QED  BY <1>1, <2>1, <2>2 DEF Types
<1>5. Covers(ver, value)'
  BY <1>1, <1>2 DEF MInv, Types, Ahead, Covers
<1>6. \A q \in Procs : pc'[q] \in {"getVersion", "store"} => Covers(ver, tmp[q])'
  <2>. SUFFICES ASSUME NEW q \in Procs, pc'[q] \in {"getVersion", "store"} PROVE Covers(ver, tmp[q])'
    OBVIOUS
  <2>1. CASE q = p
    BY <1>1, <1>3, <2>1, Started DEF Covers
  <2>2. CASE q # p
    <3>1. pc[q] = pc'[q] /\ tmp'[q] = tmp[q] /\ tmp[q] \in 0 .. ops
      BY <1>1, <2>2, Started DEF Types
    <3>2. Covers(ver, tmp[q])
      BY <3>1 DEF MInv, Ahead
    <3>. QED  BY <1>1, <1>2, <3>1, <3>2 DEF Covers
  <2>. QED  BY <2>1, <2>2
<1>7. \A q \in Procs : Covers(out[q].version, out[q].value)'
  BY <1>1, <1>2 DEF MInv, Types, Ahead, Covers
<1>. QED  BY <1>4, <1>5, <1>6, <1>7 DEF MInv, Ahead

\* Set stores the value, or ristretto does not.
LEMMA StoreKeeps == ASSUME MInv, NEW p \in Procs, Store(p) PROVE MInv'
BY DEF MInv, Types, Ahead, Covers, Store, Finish

\* Delete drops the value.
LEMMA DeleteValueKeeps == ASSUME MInv, NEW p \in Procs, DeleteValue(p) PROVE MInv'
<1>1. /\ Start(p, "delete", "deleteVersion", 0) /\ 0 \in 0 .. ops + 1
      /\ value' = 0 /\ UNCHANGED <<ver, out, own>> /\ Types
  BY DEF DeleteValue, MInv, Types
<1>2. /\ Types' /\ pc'[p] = "deleteVersion"
      /\ \A q \in Procs \ {p} : pc'[q] = pc[q] /\ tmp'[q] = tmp[q]
  <2>1. /\ ops' \in 0 .. MaxOps /\ pc' \in [Procs -> {"idle", "getVersion", "store", "deleteVersion"}]
        /\ tmp' \in [Procs -> 0 .. ops']
        /\ out \in [Procs -> [value : 0 .. ops', version : Nat]]
        /\ pc'[p] = "deleteVersion" /\ \A q \in Procs \ {p} : pc'[q] = pc[q] /\ tmp'[q] = tmp[q]
    BY <1>1, Started
  <2>. QED  BY <1>1, <2>1 DEF Types
<1>. QED  BY <1>1, <1>2 DEF MInv, Ahead, Covers

\* Delete restarts the numbering.
LEMMA DeleteVersionKeeps == ASSUME MInv, NEW p \in Procs, DeleteVersion(p) PROVE MInv'
BY MemoryAssumption DEF MInv, Types, Ahead, Covers, DeleteVersion, Finish, Ops

\* Every step keeps the invariant.
LEMMA MStep == MInv /\ [Next]_vars => MInv'
<1>. SUFFICES ASSUME MInv, [Next]_vars PROVE MInv'
  OBVIOUS
<1>1. CASE Evict
  BY <1>1 DEF MInv, Types, Ahead, Covers, Evict
<1>2. CASE UNCHANGED vars
  BY <1>2 DEF MInv, Types, Ahead, Covers, vars
<1>. QED  BY <1>1, <1>2, GetValueKeeps, GetVersionKeeps, IncrementVersionKeeps, StoreKeeps,
            DeleteValueKeeps, DeleteVersionKeeps DEF Next

\* Set moves the version before it stores and Get reads it after the value, so
\* no Get labels a value with a version older than its Set's (memory.go:114, 133).
THEOREM MemoryVersionNotBehind == Spec => []VersionNotBehind
<1>1. MInv => VersionNotBehind
  BY DEF MInv, Ahead, Covers, VersionNotBehind
<1>. QED  BY MInit, MStep, <1>1, PTL DEF Spec

=============================================================================
