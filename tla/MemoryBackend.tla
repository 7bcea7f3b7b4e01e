--------------------------- MODULE MemoryBackend ---------------------------
(***************************************************************************)
(* One key of the memory backend (internal/storage/memory/memory.go): its  *)
(* value in ristretto and its entry in the map of versions.  Each has a    *)
(* lock of its own and no operation holds both, so Get, Set and Delete are *)
(* two steps each.  A value is the number of the Set that wrote it.  The   *)
(* health flag is left out: Ping of this backend only ever sets it.        *)
(***************************************************************************)
EXTENDS Integers

CONSTANTS
  Procs,   \* goroutines that call the backend
  MaxOps,  \* bound on the calls
  Kinds    \* calls made, of {"get", "set", "delete"}

ASSUME MemoryAssumption == MaxOps \in Nat

VARIABLES
  value,  \* the value m.cache holds for the key, 0 for none
  ver,    \* m.versions[key], 0 when there is no entry
  pc,     \* pc[p]: "idle" or the second step p has still to take
  tmp,    \* tmp[p]: the value a Get has read, the number of a Set
  out,    \* out[p]: value and version returned by the last Get of p
  ops,    \* calls started
  own     \* history: own[n], the version incrementVersion gave the n-th call,
          \* 0 once a Delete has restarted the numbering

vars == <<value, ver, pc, tmp, out, ops, own>>

Ops == 1 .. MaxOps
NoEntry == [value |-> 0, version |-> 0]

Init ==
  /\ value = 0 /\ ver = 0 /\ ops = 0
  /\ pc = [p \in Procs |-> "idle"]
  /\ tmp = [p \in Procs |-> 0]
  /\ out = [p \in Procs |-> NoEntry]
  /\ own = [n \in Ops |-> 0]

Start(p, kind, next, read) ==
  /\ kind \in Kinds
  /\ pc[p] = "idle" /\ ops < MaxOps
  /\ ops' = ops + 1
  /\ pc' = [pc EXCEPT ![p] = next]
  /\ tmp' = [tmp EXCEPT ![p] = read]

Finish(p, at) ==
  /\ pc[p] = at
  /\ pc' = [pc EXCEPT ![p] = "idle"]
  /\ UNCHANGED <<tmp, ops>>

\* Get: m.cache.Get; a miss returns ErrKeyNotFound at once.
GetValue(p) ==
  /\ Start(p, "get", IF value = 0 THEN "idle" ELSE "getVersion", value)
  /\ UNCHANGED <<value, ver, out, own>>

\* Get: m.getVersion, the version of the moment.
GetVersion(p) ==
  /\ Finish(p, "getVersion")
  /\ out' = [out EXCEPT ![p] = [value |-> tmp[p], version |-> ver]]
  /\ UNCHANGED <<value, ver, own>>

IncrementUnlocked(p) ==
  /\ Start(p, "set", "store", ops + 1)
  /\ ver' \in {ver, ver + 1}
  /\ own' = [own EXCEPT ![ops + 1] = ver + 1]
  /\ UNCHANGED <<value, out>>
\* Set: m.incrementVersion.
IncrementVersion(p) ==
  /\ Start(p, "set", "store", ops + 1)
  /\ ver' = ver + 1
  /\ own' = [own EXCEPT ![ops + 1] = ver + 1]
  /\ UNCHANGED <<value, out>>

\* Set: m.cache.SetWithTTL.  A resident key is updated; ristretto may drop or
\* reject a new one, and the version has moved all the same.
Store(p) ==
  /\ Finish(p, "store")
  /\ \/ value' = tmp[p]
     \/ value = 0 /\ UNCHANGED value
  /\ UNCHANGED <<ver, out, own>>

\* Delete: m.cache.Del.
DeleteValue(p) ==
  /\ Start(p, "delete", "deleteVersion", 0)
  /\ value' = 0
  /\ UNCHANGED <<ver, out, own>>

\* Delete: m.deleteVersion.
DeleteVersion(p) ==
  /\ Finish(p, "deleteVersion")
  /\ ver' = 0
  /\ own' = [n \in Ops |-> 0]
  /\ UNCHANGED <<value, out>>

\* ristretto evicts the key or its TTL runs out; m.versions keeps its entry.
Evict ==
  /\ value # 0
  /\ value' = 0
  /\ UNCHANGED <<ver, pc, tmp, out, ops, own>>

Next ==
  \/ Evict
  \/ \E p \in Procs :
       \/ GetValue(p) \/ GetVersion(p) \/ IncrementVersion(p) \/ Store(p)
       \/ DeleteValue(p) \/ DeleteVersion(p)

Spec == Init /\ [][Next]_vars

-----------------------------------------------------------------------------
(* Properties *)

\* The variables keep their types; the version map never holds a negative
\* number, and a result is a value some Set stored with a version drawn.
TypeOK ==
  /\ value \in 0 .. MaxOps
  /\ ver \in 0 .. MaxOps
  /\ pc \in [Procs -> {"idle", "getVersion", "store", "deleteVersion"}]
  /\ tmp \in [Procs -> 0 .. MaxOps]
  /\ out \in [Procs -> [value : 0 .. MaxOps, version : 0 .. MaxOps]]
  /\ ops \in 0 .. MaxOps
  /\ own \in [Ops -> 0 .. MaxOps]

\* A Get never labels a value with a version older than the one its own Set
\* drew, unless a Delete restarted the numbering: Set moves the version before
\* it stores and Get reads it after the value.
VersionNotBehind ==
  \A p \in Procs : out[p].value # 0 => out[p].version >= own[out[p].value]

\* PROMPT.txt:7, comparing versions keeps a caller from using stale data: two
\* results with one version carry one value.
VersionIdentifiesValue ==
  \A p, q \in Procs :
    /\ out[p].version = out[q].version
    /\ out[p].value # 0 /\ out[q].value # 0
    => out[p].value = out[q].value

\* PROMPT.txt:7, every key has a version: a value that is at rest has one.
EveryValueHasVersion ==
  (\A p \in Procs : pc[p] = "idle") /\ value # 0 => ver > 0

\* PROMPT.txt:7, the version of a key grows monotonically: what a caller is
\* told never goes back.
VersionsGrow ==
  [][\A p \in Procs :
       out[p].version <= out'[p].version]_vars
=============================================================================
