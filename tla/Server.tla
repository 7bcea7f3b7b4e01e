------------------------------- MODULE Server -------------------------------
(***************************************************************************)
(* The life of each node's process, cmd/server/main.go: start-up, serving, *)
(* and the shutdown, whose order is main's last statements and then its    *)
(* deferred calls, last first.  It composes main with the two invalidation *)
(* channels and with the write-behind queue of the cache service.          *)
(*                                                                         *)
(* A queued write is tried once here; WriteBehind has the batches and the  *)
(* retries.  Logger.Fatal and a second signal end the process like a kill. *)
(***************************************************************************)
EXTENDS Invalidation, FiniteSets

CONSTANTS
  MaxWrites,  \* MaxWrites[n]: bound on the write-behind Sets of n
  Mortal      \* bound: the nodes that are shut down or killed

ASSUME ServerAssumption ==
  /\ MaxWrites \in [Nodes -> Nat]
  /\ Mortal \subseteq Nodes

VARIABLES
  main,      \* main[n]: the statement of main.go n is at
  open,      \* nodes whose backends are open
  worker,    \* worker[n]: the write-behind worker
  finishing, \* nodes whose cache service has closed its stopChan
  active,    \* active[n]: write-behind Sets a handler of n is serving
  queue,     \* queue[n]: writes in the queue or the batch
  late,      \* history: late[n], writes queued after Shutdown had given up
  writes     \* writes[n]: Sets n has begun

nodeVars == <<main, open, worker, finishing>>
writeVars == <<active, queue, late, writes>>
vars == <<invVars, nodeVars, writeVars>>

Init ==
  /\ InvInit
  /\ main = [n \in Nodes |-> "boot"]
  /\ open = {} /\ finishing = {}
  /\ worker = [n \in Nodes |-> "off"]
  /\ active = [n \in Nodes |-> {}] /\ queue = [n \in Nodes |-> {}]
  /\ late = [n \in Nodes |-> {}]
  /\ writes = [n \in Nodes |-> 0]

Running(n) == main[n] \notin {"boot", "exited", "killed"}
Handling(n) == main[n] \in {"serving", "shutdown", "closeBackends", "closeGossip",
                            "closeRedis", "awaitListener", "closeService", "awaitWorker"}

At(n, here, there) ==
  /\ main[n] = here
  /\ main' = [main EXCEPT ![n] = there]

-----------------------------------------------------------------------------
(* Start-up *)

\* Load, the backends, the router's rules and the cache service with its worker.
Boot(n) ==
  /\ At(n, "boot", "redis")
  /\ open' = open \cup {n}
  /\ worker' = [worker EXCEPT ![n] = "running"]
  /\ UNCHANGED <<invVars, finishing, writeVars>>

\* Pub/Sub may be switched off.
BootRedis(n) ==
  /\ At(n, "redis", "gossip")
  /\ SubscribeRedis(n) \/ UNCHANGED invVars
  /\ UNCHANGED <<open, worker, finishing, writeVars>>

\* Gossip may be switched off, or its port may be taken: main warns and goes on.
BootGossip(n) ==
  /\ \/ At(n, "gossip", "subscribe") /\ StartGossip(n)
     \/ At(n, "gossip", "serving") /\ UNCHANGED invVars
  /\ UNCHANGED <<open, worker, finishing, writeVars>>

BootSubscribe(n) ==
  /\ At(n, "subscribe", "serving")
  /\ SubscribeGossip(n)
  /\ UNCHANGED <<open, worker, finishing, writeVars>>

-----------------------------------------------------------------------------
(* Requests, and the worker *)

\* setWriteBehind has written the local cache.
BeginSet(n) ==
  /\ main[n] = "serving" /\ writes[n] < MaxWrites[n]
  /\ writes' = [writes EXCEPT ![n] = @ + 1]
  /\ active' = [active EXCEPT ![n] = @ \cup {writes[n] + 1}]
  /\ UNCHANGED <<invVars, nodeVars, queue, late>>

\* It puts the item into the queue and the handler answers 200.
Queued(n) ==
  /\ Handling(n)
  /\ \E w \in active[n] :
       /\ active' = [active EXCEPT ![n] = @ \ {w}]
       /\ queue' = [queue EXCEPT ![n] = @ \cup {w}]
       /\ late' = [late EXCEPT ![n] = IF main[n] \in {"serving", "shutdown"} THEN @ ELSE @ \cup {w}]
  /\ UNCHANGED <<invVars, nodeVars, writes>>

\* The worker calls the backend for a queued write.
WorkerTries(n) ==
  /\ worker[n] = "running"
  /\ \E w \in queue[n] :
       /\ queue' = [queue EXCEPT ![n] = @ \ {w}]
  /\ UNCHANGED <<invVars, nodeVars, active, late, writes>>

ReturnAtOnce(n) == TRUE
\* On stopChan the worker empties the queue before it returns.
Drained(n) == queue[n] = {}

WorkerReturns(n) ==
  /\ worker[n] = "running" /\ n \in finishing
  /\ Drained(n)
  /\ worker' = [worker EXCEPT ![n] = "returned"]
  /\ UNCHANGED <<invVars, main, open, finishing, writeVars>>

-----------------------------------------------------------------------------
(* Shutdown *)

Signal(n) ==
  /\ n \in Mortal
  /\ At(n, "serving", "shutdown")
  /\ UNCHANGED <<invVars, open, worker, finishing, writeVars>>

\* srv.Shutdown waits for the handlers, or for 30 seconds.
ShutdownReturns(n) ==
  /\ At(n, "shutdown", "closeBackends")
  /\ UNCHANGED <<invVars, open, worker, finishing, writeVars>>

CloseBackends(n) ==
  /\ At(n, "closeBackends", "closeGossip")
  /\ open' = open \ {n}
  /\ UNCHANGED <<invVars, worker, finishing, writeVars>>

\* defer gp.Close()
DeferGossip(n) ==
  /\ At(n, "closeGossip", "closeRedis")
  /\ CloseGossip(n)
  /\ UNCHANGED <<open, worker, finishing, writeVars>>

\* defer ps.Close(): the stop, and the wait for the listener.
DeferRedis(n) ==
  /\ At(n, "closeRedis", "awaitListener")
  /\ CloseRedis(n)
  /\ UNCHANGED <<open, worker, finishing, writeVars>>

ListenerGone(n) == listener[n] \in {"none", "ended"}

AwaitListener(n) ==
  /\ ListenerGone(n)
  /\ At(n, "awaitListener", "closeService")
  /\ UNCHANGED <<invVars, open, worker, finishing, writeVars>>

\* defer cs.Close(): the same with the worker.
DeferService(n) ==
  /\ At(n, "closeService", "awaitWorker")
  /\ finishing' = finishing \cup {n}
  /\ UNCHANGED <<invVars, open, worker, writeVars>>

\* The process ends: its variables do not matter any more, but for the history.
End(n) ==
  /\ Vanish(n)
  /\ open' = open \ {n}
  /\ worker' = [worker EXCEPT ![n] = "off"]
  /\ active' = [active EXCEPT ![n] = {}]
  /\ UNCHANGED <<finishing, queue, late, writes>>

\* defer hc.Stop(), and main returns.
Exit(n) ==
  /\ worker[n] = "returned"
  /\ At(n, "awaitWorker", "exited")
  /\ End(n)

Kill(n) ==
  /\ n \in Mortal /\ Running(n)
  /\ main' = [main EXCEPT ![n] = "killed"]
  /\ End(n)

-----------------------------------------------------------------------------

Main(n) ==
  \/ Boot(n) \/ BootRedis(n) \/ BootGossip(n) \/ BootSubscribe(n)
  \/ ShutdownReturns(n) \/ CloseBackends(n) \/ DeferGossip(n) \/ DeferRedis(n)
  \/ AwaitListener(n) \/ DeferService(n) \/ Exit(n)

Listen(n) == Deliver(n) \/ ListenerStops(n)

Worker(n) == WorkerTries(n) \/ WorkerReturns(n)

\* The invalidation channels at work on a node that runs.
Channel(n) ==
  /\ Running(n)
  /\ \/ Registered(n) \/ Received(n) \/ ReceiveFails(n) \/ ConnectionBreaks(n)
     \/ Listen(n) \/ NotifyMsg(n) \/ RunHandler(n)
     \/ \E k \in Keys :
          \/ Handling(n) /\ (PublishRedis(n, k) \/ PublishGossip(n, k) \/ Fill(n, k))
          \/ Evict(n, k)
  /\ UNCHANGED <<nodeVars, writeVars>>

Next ==
  \E n \in Nodes :
    Main(n) \/ Signal(n) \/ Kill(n) \/ BeginSet(n) \/ Queued(n) \/ Worker(n) \/ Channel(n)

Spec == Init /\ [][Next]_vars

\* main, the listener, the worker and the handler goroutines run on; a packet
\* that is on its way arrives.  Nothing is assumed of Redis, of the signal or
\* of the clients.
FairSpec ==
  /\ Spec
  /\ \A n \in Nodes :
       /\ WF_vars(Main(n)) /\ WF_vars(Worker(n))
       /\ WF_vars(Listen(n) /\ UNCHANGED <<nodeVars, writeVars>>)
       /\ WF_vars(RunHandler(n) /\ UNCHANGED <<nodeVars, writeVars>>)
       /\ WF_vars(NotifyMsg(n) /\ UNCHANGED <<nodeVars, writeVars>>)

-----------------------------------------------------------------------------
(* Properties *)

\* A process that has shut down in order has called a backend for every write
\* it acknowledged, save those of handlers that outlived Shutdown's 30 seconds:
\* the deferred Close of the cache service drains the queue before main returns.
AckedIsTriedAtExit ==
  \A n \in Nodes : main[n] = "exited" => queue[n] \subseteq late[n]

\* Redis never answers the SUBSCRIBE of n: its listener is in Receive for good,
\* which no Close reaches.
NeverAnswered(n) == <>[](listener[n] = "subscribing")

\* A shutdown comes to its end, in whatever state it finds the listener and
\* however late Redis answers; only if it never does, main waits for ever.
ExitsUnlessStalled ==
  \A n \in Nodes :
    NeverAnswered(n) \/ (main[n] = "shutdown" ~> main[n] \in {"exited", "killed"})

DoomedVia(n, k, via) == {d \in DoomedAt(n, k) : d.via = via}

\* A copy that a message sent to its node should drop is dropped: by gossip
\* whatever Redis does, by Pub/Sub unless the listener never gets to read.
DoomedIsDropped ==
  \A n \in Nodes, k \in Keys :
    /\ DoomedVia(n, k, "gossip") # {} ~> DoomedVia(n, k, "gossip") = {}
    /\ NeverAnswered(n) \/ (DoomedVia(n, k, "redis") # {} ~> DoomedVia(n, k, "redis") = {})

-----------------------------------------------------------------------------
(* Documents promise, and the code does not keep *)

\* main.go:233, "Shutting down server...": an orderly shutdown writes what was
\* acknowledged.  The backends are closed before the queue is drained into them.
DrainFindsBackends ==
  \A n \in finishing : worker[n] = "running" /\ queue[n] # {} => n \in open

\* main.go:179, "Pub/Sub invalidation enabled": from then on the node hears the
\* messages.  Receive may still wait, or have failed for good.
ServingHears ==
  \A n \in Nodes : main[n] = "serving" /\ "redis" \in handlers[n] => n \in subscribed
=============================================================================
