---------------------------- MODULE WriteBehind ----------------------------
(***************************************************************************)
(* The write-behind path of internal/cache/cache.go: setWriteBehind, the   *)
(* bounded channel behind it, the worker that collects batches and writes  *)
(* them to the backend, the goroutines that sleep and requeue what failed, *)
(* the write-through fallback of a full queue, Delete, and Close.          *)
(*                                                                         *)
(* The clients are sequential.  A value is the number of the operation     *)
(* that wrote it, 0 is no value.  Routing and the backend are reduced to   *)
(* whether a write reaches the backend and what is reported of it; the     *)
(* circuit breaker admits every call (GuardedCall).                        *)
(***************************************************************************)
EXTENDS Integers, Sequences, FiniteSets

CONSTANTS
  Clients,
  Keys,
  QueueSize,  \* capacity of writeBehindQueue, 10000
  BatchSize,  \* 100
  MaxRetry,   \* 3
  MaxOps,     \* bound on the operations of the clients
  Kinds,      \* operations the clients call, of {"set", "delete"}
  Outcomes    \* what a backend call may do, of OutcomeKinds

\* stored: done and reported; late: done, but an error is reported (a timeout,
\* a broken connection); refused: not done (also: no healthy backend).
OutcomeKinds == {"stored", "late", "refused"}

ASSUME WriteBehindAssumption ==
  /\ QueueSize \in Nat \ {0}
  /\ BatchSize \in Nat \ {0}
  /\ MaxRetry \in Nat
  /\ MaxOps \in Nat
  /\ Outcomes \subseteq OutcomeKinds

VARIABLES
  queue,     \* writeBehindQueue
  batch,     \* the worker's batch, without the items already processed
  worker,    \* where the worker is
  sleeping,  \* items whose retry goroutine sleeps or is blocked in its send
  stopping,  \* stopChan is closed
  local,     \* the local cache
  backend,   \* the backend
  fills,     \* fills of the local cache by setWriteThrough not yet run
  pc, req,   \* the operation of each client
  ops,       \* operations started
  arrived,   \* history: operations in the order their items were queued
  tried,     \* history: operations in the order of their first attempt
  attempts,  \* history: attempts[n] to write the value of operation n
  settled,   \* history: settled[n] \in {"no", "stored", "given up"}
  dueAtStop, \* history: Len(arrived) when Close was called
  acked      \* history: acked[k], the last acknowledged operation on k

queueVars == <<queue, batch, worker, sleeping, stopping>>
dataVars == <<local, backend, fills>>
clientVars == <<pc, req, ops>>
trackVars == <<arrived, tried, attempts, settled>>
vars == <<queueVars, dataVars, clientVars, trackVars, dueAtStop, acked>>

Ops == 1 .. MaxOps
NoReq == [op |-> 0, key |-> CHOOSE k \in Keys : TRUE, kind |-> "none"]
Item(op, k, retry) == [op |-> op, key |-> k, retry |-> retry]

Init ==
  /\ queue = <<>> /\ batch = <<>> /\ worker = "select"
  /\ sleeping = {} /\ stopping = FALSE
  /\ local = [k \in Keys |-> 0]
  /\ backend = [k \in Keys |-> 0]
  /\ fills = {}
  /\ pc = [c \in Clients |-> "idle"]
  /\ req = [c \in Clients |-> NoReq]
  /\ ops = 0
  /\ arrived = <<>> /\ tried = <<>>
  /\ attempts = [n \in Ops |-> 0]
  /\ settled = [n \in Ops |-> "no"]
  /\ dueAtStop = 0
  /\ acked = [k \in Keys |-> NoReq]

-----------------------------------------------------------------------------
(* Clients *)

Goto(c, label) == pc' = [pc EXCEPT ![c] = label]
Acknowledge(c) == acked' = [acked EXCEPT ![req[c].key] = req[c]]

\* localCache.Set: a resident key is updated, a new one may be rejected.
LocalSet(k, n) ==
  \/ local' = [local EXCEPT ![k] = n]
  \/ local[k] = 0 /\ UNCHANGED local

Start(c, k, kind) ==
  /\ pc[c] = "idle"
  /\ kind \in Kinds
  /\ ops < MaxOps
  /\ ops' = ops + 1
  /\ req' = [req EXCEPT ![c] = [op |-> ops + 1, key |-> k, kind |-> kind]]
  /\ UNCHANGED <<queueVars, backend, fills, trackVars, dueAtStop, acked>>

\* setWriteBehind, first the local cache.
SetLocal(c, k) ==
  /\ Start(c, k, "set")
  /\ LocalSet(k, ops + 1)
  /\ Goto(c, "enqueue")

\* The select of setWriteBehind: the item goes to the queue,
Enqueue(c) ==
  /\ pc[c] = "enqueue"
  /\ Len(queue) < QueueSize
  /\ queue' = Append(queue, Item(req[c].op, req[c].key, 0))
  /\ arrived' = Append(arrived, req[c].op)
  /\ Acknowledge(c)
  /\ Goto(c, "idle")
  /\ UNCHANGED <<batch, worker, sleeping, stopping, dataVars, req, ops,
                 tried, attempts, settled, dueAtStop>>

DropWhenFull(c) ==
  /\ pc[c] = "enqueue"
  /\ Len(queue) = QueueSize
  /\ Acknowledge(c)
  /\ arrived' = Append(arrived, req[c].op)
  /\ Goto(c, "idle")
  /\ UNCHANGED <<queueVars, dataVars, req, ops, tried, attempts, settled, dueAtStop>>
\* or, when the queue is full, the caller itself writes through.
QueueFull(c) ==
  /\ pc[c] = "enqueue"
  /\ Len(queue) = QueueSize
  /\ Goto(c, "writeThrough")
  /\ UNCHANGED <<queueVars, dataVars, req, ops, trackVars, dueAtStop, acked>>

\* setWriteThrough: backend first, then a fill in a goroutine of its own.
WriteThrough(c) ==
  /\ pc[c] = "writeThrough"
  /\ Goto(c, "idle")
  /\ \E o \in Outcomes :
       /\ backend' = IF o = "refused" THEN backend
                     ELSE [backend EXCEPT ![req[c].key] = req[c].op]
       /\ IF o = "stored"
            THEN fills' = fills \cup {req[c]} /\ Acknowledge(c)
            ELSE UNCHANGED <<fills, acked>>
  /\ UNCHANGED <<queueVars, local, req, ops, trackVars, dueAtStop>>

Fill ==
  \E f \in fills :
    /\ LocalSet(f.key, f.op)
    /\ fills' = fills \ {f}
    /\ UNCHANGED <<queueVars, backend, clientVars, trackVars, dueAtStop, acked>>

\* Delete: the local cache, then the backend; the queue is not looked at.
DeleteLocal(c, k) ==
  /\ Start(c, k, "delete")
  /\ local' = [local EXCEPT ![k] = 0]
  /\ Goto(c, "delete")

DeleteBackend(c) ==
  /\ pc[c] = "delete"
  /\ Goto(c, "idle")
  /\ \E o \in Outcomes :
       /\ backend' = IF o = "refused" THEN backend
                     ELSE [backend EXCEPT ![req[c].key] = 0]
       /\ IF o = "stored" THEN Acknowledge(c) ELSE UNCHANGED acked
  /\ UNCHANGED <<queueVars, local, fills, req, ops, trackVars, dueAtStop>>

-----------------------------------------------------------------------------
(* The worker *)

ReceiveInFront ==
  /\ worker = "select" /\ queue # <<>>
  /\ batch' = <<Head(queue)>> \o batch
  /\ queue' = Tail(queue)
  /\ worker' = IF Len(batch) + 1 >= BatchSize THEN "flush" ELSE "select"
  /\ UNCHANGED <<sleeping, stopping, dataVars, clientVars, trackVars, dueAtStop, acked>>
\* case item := <-c.writeBehindQueue
Receive ==
  /\ worker = "select" /\ queue # <<>>
  /\ batch' = Append(batch, Head(queue))
  /\ queue' = Tail(queue)
  /\ worker' = IF Len(batch) + 1 >= BatchSize THEN "flush" ELSE "select"
  /\ UNCHANGED <<sleeping, stopping, dataVars, clientVars, trackVars, dueAtStop, acked>>

TickWhenFull ==
  /\ worker = "select" /\ Len(batch) >= BatchSize
  /\ worker' = "flush"
  /\ UNCHANGED <<queue, batch, sleeping, stopping, dataVars, clientVars, trackVars,
                 dueAtStop, acked>>
\* case <-ticker.C
Tick ==
  /\ worker = "select" /\ batch # <<>>
  /\ worker' = "flush"
  /\ UNCHANGED <<queue, batch, sleeping, stopping, dataVars, clientVars, trackVars,
                 dueAtStop, acked>>

StopDropsQueue ==
  /\ worker = "select" /\ stopping
  /\ worker' = IF batch = <<>> THEN "done" ELSE "lastFlush"
  /\ UNCHANGED <<queue, batch, sleeping, stopping, dataVars, clientVars, trackVars,
                 dueAtStop, acked>>
\* case <-c.stopChan
Stop ==
  /\ worker = "select" /\ stopping
  /\ worker' = "drain"
  /\ UNCHANGED <<queue, batch, sleeping, stopping, dataVars, clientVars, trackVars,
                 dueAtStop, acked>>

\* for len(c.writeBehindQueue) > 0: one item more,
DrainOne ==
  /\ worker = "drain" /\ queue # <<>>
  /\ batch' = Append(batch, Head(queue))
  /\ queue' = Tail(queue)
  /\ UNCHANGED <<worker, sleeping, stopping, dataVars, clientVars, trackVars,
                 dueAtStop, acked>>

DrainForever ==
  /\ worker = "drain" /\ queue = <<>> /\ batch # <<>>
  /\ worker' = "lastFlush"
  /\ UNCHANGED <<queue, batch, sleeping, stopping, dataVars, clientVars, trackVars,
                 dueAtStop, acked>>
\* or the queue is seen empty, once.
DrainEnd ==
  /\ worker = "drain" /\ queue = <<>>
  /\ worker' = IF batch = <<>> THEN "done" ELSE "lastFlush"
  /\ UNCHANGED <<queue, batch, sleeping, stopping, dataVars, clientVars, trackVars,
                 dueAtStop, acked>>

GiveUpLate(item) == item.retry > MaxRetry
GiveUp(item) == item.retry >= MaxRetry

\* After a failed attempt: the item sleeps in a goroutine, or it is logged
\* and forgotten.
AfterFailure(item) ==
  IF GiveUp(item)
    THEN settled' = [settled EXCEPT ![item.op] = "given up"] /\ UNCHANGED sleeping
    ELSE sleeping' = sleeping \cup {Item(item.op, item.key, item.retry + 1)} /\ UNCHANGED settled

\* processWriteBehindItem for the next item of the batch.
ProcessItem ==
  /\ worker \in {"flush", "lastFlush"}
  /\ LET item == Head(batch) IN
     \E o \in Outcomes :
       /\ backend' = IF o = "refused" THEN backend
                     ELSE [backend EXCEPT ![item.key] = item.op]
       /\ IF o = "stored"
            THEN settled' = [settled EXCEPT ![item.op] = "stored"] /\ UNCHANGED sleeping
            ELSE AfterFailure(item)
       /\ attempts' = [attempts EXCEPT ![item.op] = @ + 1]
       /\ tried' = IF item.retry = 0 THEN Append(tried, item.op) ELSE tried
  /\ batch' = Tail(batch)
  /\ worker' = CASE Len(batch) > 1                           -> worker
                 [] Len(batch) = 1 /\ worker = "flush"      -> "select"
                 [] Len(batch) = 1 /\ worker = "lastFlush"  -> "done"
  /\ UNCHANGED <<queue, stopping, local, fills, clientVars, arrived, dueAtStop, acked>>

\* A retry goroutine wakes up and its blocking send succeeds.
Resend ==
  \E item \in sleeping :
    /\ Len(queue) < QueueSize
    /\ queue' = Append(queue, item)
    /\ sleeping' = sleeping \ {item}
    /\ UNCHANGED <<batch, worker, stopping, dataVars, clientVars, trackVars, dueAtStop, acked>>

\* close(c.stopChan); wg.Wait() then waits for worker = "done".
Close ==
  /\ ~stopping
  /\ stopping' = TRUE
  /\ dueAtStop' = Len(arrived)
  /\ UNCHANGED <<queue, batch, worker, sleeping, dataVars, clientVars, trackVars, acked>>

Worker == Receive \/ Tick \/ Stop \/ DrainOne \/ DrainEnd \/ ProcessItem

Client(c) == Enqueue(c) \/ QueueFull(c) \/ WriteThrough(c) \/ DeleteBackend(c)

Next ==
  \/ \E c \in Clients :
       Client(c) \/ \E k \in Keys : SetLocal(c, k) \/ DeleteLocal(c, k)
  \/ Worker \/ Resend \/ Fill \/ Close

Spec == Init /\ [][Next]_vars

\* The scheduler runs the worker and the goroutines it has started; nobody is
\* obliged to call the service or to close it.
FairSpec == Spec /\ WF_vars(Worker) /\ WF_vars(Resend)

-----------------------------------------------------------------------------
(* Properties *)

Items == [op : Ops, key : Keys, retry : 0 .. MaxRetry]

\* The variables keep their types; the channel never exceeds its capacity, the
\* worker never flushes an empty batch and never collects a full one, and no
\* item is queued with more retries than MaxRetry.
TypeOK ==
  /\ queue \in Seq(Items) /\ Len(queue) <= QueueSize
  /\ batch \in Seq(Items)
  /\ worker \in {"select", "flush", "drain", "lastFlush", "done"}
  /\ worker \in {"flush", "lastFlush"} => batch # <<>>
  /\ worker = "select" => Len(batch) < BatchSize
  /\ sleeping \subseteq Items
  /\ stopping \in BOOLEAN
  /\ local \in [Keys -> 0 .. MaxOps] /\ backend \in [Keys -> 0 .. MaxOps]
  /\ pc \in [Clients -> {"idle", "enqueue", "writeThrough", "delete"}]
  /\ ops \in 0 .. MaxOps
  /\ arrived \in Seq(Ops) /\ tried \in Seq(Ops)
  /\ attempts \in [Ops -> Nat]
  /\ settled \in [Ops -> {"no", "stored", "given up"}]

\* How many copies of the write of operation n are on their way.
Copies(n) ==
  Cardinality({i \in DOMAIN queue : queue[i].op = n})
    + Cardinality({i \in DOMAIN batch : batch[i].op = n})
    + Cardinality({item \in sleeping : item.op = n})

Arrived == {arrived[i] : i \in DOMAIN arrived}

\* A write that was acknowledged by queueing it is never lost and never
\* doubled between the queue, the batch, the sleeping goroutines and the last
\* batch of a stopping worker: until it is stored or given up there is exactly
\* one copy of it, and none after.
Accounted ==
  \A n \in Ops :
    Copies(n) = IF n \in Arrived /\ settled[n] = "no" THEN 1 ELSE 0

\* A write is given up only after MaxRetry retries, and no write is tried
\* more often than that.
RetriesBounded ==
  \A n \in Ops :
    /\ attempts[n] <= MaxRetry + 1
    /\ settled[n] = "given up" => attempts[n] = MaxRetry + 1

\* First attempts are made in the order of the acknowledgements, batches and
\* the drain of Close included; only retries are reordered.
FirstTriesInOrder ==
  /\ Len(tried) <= Len(arrived)
  /\ \A i \in DOMAIN tried : tried[i] = arrived[i]

\* Close waits until every write queued before it has been tried once.
DrainedOnClose == worker = "done" => Len(tried) >= dueAtStop

\* While the service runs, a queued write is eventually stored or given up.
Settles ==
  \A n \in Ops : n \in Arrived ~> settled[n] # "no" \/ stopping

\* Close returns: the worker ends although retries and clients may still send.
CloseReturns == stopping ~> worker = "done"

Quiet ==
  /\ queue = <<>> /\ batch = <<>> /\ sleeping = {} /\ fills = {}
  /\ \A c \in Clients : pc[c] = "idle"
NoneGivenUp == \A n \in Ops : settled[n] # "given up"

-----------------------------------------------------------------------------
(* PROMPT.txt:3, the data of all copies are consistent, whichever copy holds  *)
(* them: what the code does not keep, already for one client.                 *)

\* When everything queued has been stored, the local cache and the backend
\* agree on a key that is in the cache.
AgreeWhenQuiet ==
  Quiet /\ NoneGivenUp =>
    \A k \in Keys : local[k] \in {0, backend[k]}

\* A key whose last acknowledged operation is a Delete is not in the backend.
DeleteIsFinal ==
  Quiet => \A k \in Keys : acked[k].kind = "delete" => backend[k] = 0
=============================================================================
