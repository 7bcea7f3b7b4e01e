----------------------------- MODULE Invalidation -----------------------------
(***************************************************************************)
(* The two channels on which nodes tell each other to drop a key from      *)
(* their local caches: Redis Pub/Sub (internal/pubsub/pubsub.go) and       *)
(* gossip (internal/gossip/gossip.go).  Each node runs a listener and a    *)
(* memberlist; a message starts one goroutine per handler, and the handler *)
(* main.go subscribes is InvalidateLocal.                                  *)
(*                                                                         *)
(* Redis keeps the order of a channel and forgets what is published while  *)
(* a node is not subscribed.  Gossip packets are UDP: one that is lost is  *)
(* one that is not sent.  Nothing in the program calls Publish; here any   *)
(* node may, for any key.  A message that is no JSON is left out.          *)
(***************************************************************************)
EXTENDS Integers, Sequences

CONSTANTS
  Nodes,
  Keys,
  NodeID,     \* NodeID[n]: the id generateNodeID drew
  MaxPublish  \* bound on the messages published

ASSUME InvalidationAssumption == MaxPublish \in Nat

VARIABLES
  handlers,   \* handlers[n]: the channels on which n has subscribed its handler
  listener,   \* listener[n]: the goroutine of startListener
  stopped,    \* nodes whose RedisPubSub has closed its stopChan
  members,    \* nodes with a memberlist that has not left
  calls,      \* go h(key): handler goroutines not yet run
  copies,     \* copies[n]: the keys of which n's local cache holds a copy
  published,  \* messages published
  subscribed, \* external: nodes Redis delivers to
  stream,     \* external: stream[n]: messages delivered and not yet read by n
  packets,    \* external: gossip messages on their way
  doomed      \* history: copies that a message sent to their node should drop

invVars == <<handlers, listener, stopped, members, calls, copies, published,
             subscribed, stream, packets, doomed>>

Channels == {"redis", "gossip"}

InvInit ==
  /\ handlers = [n \in Nodes |-> {}]
  /\ listener = [n \in Nodes |-> "none"]
  /\ stopped = {} /\ members = {}
  /\ calls = {} /\ published = 0
  /\ copies = [n \in Nodes |-> {}]
  /\ subscribed = {} /\ packets = {} /\ doomed = {}
  /\ stream = [n \in Nodes |-> <<>>]

DoomedAt(n, k) == {d \in doomed : d.node = n /\ d.key = k}

\* The copies msg is meant to drop at those it is sent to.
Doom(to, via, msg) ==
  doomed' = doomed \cup
    {[node |-> n, key |-> msg.key, id |-> msg.id, via |-> via] :
       n \in {m \in to : msg.key \in copies[m] /\ NodeID[m] # msg.from}}

-----------------------------------------------------------------------------
(* Publish *)

Message(n, k) == [id |-> published + 1, key |-> k, from |-> NodeID[n]]

\* PUBLISH reaches every subscriber, or fails and reaches nobody.
PublishRedis(n, k) ==
  /\ published < MaxPublish
  /\ published' = published + 1
  /\ \E to \in {subscribed, {}} :
       /\ stream' = [m \in Nodes |->
            IF m \in to THEN Append(stream[m], Message(n, k)) ELSE stream[m]]
       /\ Doom(to, "redis", Message(n, k))
  /\ UNCHANGED <<handlers, listener, stopped, members, calls, copies, subscribed, packets>>

\* SendBestEffort to the members that are not this node.
PublishGossip(n, k) ==
  /\ n \in members
  /\ published < MaxPublish
  /\ published' = published + 1
  /\ \E to \in SUBSET {m \in members : NodeID[m] # NodeID[n]} :
       /\ packets' = packets \cup {[to |-> m, msg |-> Message(n, k)] : m \in to}
       /\ Doom(to, "gossip", Message(n, k))
  /\ UNCHANGED <<handlers, listener, stopped, members, calls, copies, subscribed, stream>>

-----------------------------------------------------------------------------
(* Subscribe *)

\* The first handler starts the listener.
SubscribeRedis(n) ==
  /\ handlers' = [handlers EXCEPT ![n] = @ \cup {"redis"}]
  /\ listener' = [listener EXCEPT ![n] = "subscribing"]
  /\ UNCHANGED <<stopped, members, calls, copies, published, subscribed, stream, packets, doomed>>

\* New creates the memberlist, and NotifyMsg may be called from then on.
StartGossip(n) ==
  /\ members' = members \cup {n}
  /\ UNCHANGED <<handlers, listener, stopped, calls, copies, published, subscribed, stream, packets, doomed>>

SubscribeGossip(n) ==
  /\ handlers' = [handlers EXCEPT ![n] = @ \cup {"gossip"}]
  /\ UNCHANGED <<listener, stopped, members, calls, copies, published, subscribed, stream, packets, doomed>>

-----------------------------------------------------------------------------
(* Messages arrive *)

\* One goroutine for the handler of the channel.
Dispatch(n, via, msg) ==
  calls' = IF via \in handlers[n]
             THEN calls \cup {[node |-> n, key |-> msg.key, id |-> msg.id, via |-> via]}
             ELSE calls

HandleOwnOnly(n, via, msg) ==
  IF msg.from = NodeID[n] THEN Dispatch(n, via, msg) ELSE UNCHANGED calls
\* A message of a node's own id is passed over.
Handle(n, via, msg) ==
  IF msg.from = NodeID[n] THEN UNCHANGED calls ELSE Dispatch(n, via, msg)

\* Redis registers the subscription, go-redis's own again after a reconnection.
Registered(n) ==
  /\ listener[n] \in {"subscribing", "listening"} /\ n \notin subscribed
  /\ subscribed' = subscribed \cup {n}
  /\ UNCHANGED <<handlers, listener, stopped, members, calls, copies, published, stream, packets, doomed>>

\* Receive returns the confirmation.  It has no deadline.
Received(n) ==
  /\ listener[n] = "subscribing" /\ n \in subscribed
  /\ listener' = [listener EXCEPT ![n] = "listening"]
  /\ UNCHANGED <<handlers, stopped, members, calls, copies, published, subscribed, stream, packets, doomed>>

\* Redis forgets the subscriber and what it has not read yet.
Forget(n) ==
  /\ subscribed' = subscribed \ {n}
  /\ stream' = [stream EXCEPT ![n] = <<>>]
  /\ doomed' = {d \in doomed : ~(d.node = n /\ d.via = "redis"
                                  /\ \E i \in 1 .. Len(stream[n]) : stream[n][i].id = d.id)}
  /\ UNCHANGED <<handlers, stopped, members, calls, copies, published, packets>>

\* The connection breaks; the listener does not notice.
ConnectionBreaks(n) ==
  /\ listener[n] = "listening" /\ n \in subscribed
  /\ Forget(n)
  /\ UNCHANGED listener

\* The deferred pubsub.Close.
EndListener(n) ==
  /\ listener' = [listener EXCEPT ![n] = "ended"]
  /\ Forget(n)

\* Receive returns an error: the goroutine ends and nothing starts it again.
ReceiveFails(n) == listener[n] = "subscribing" /\ EndListener(n)

ListenerStops(n) == listener[n] = "listening" /\ n \in stopped /\ EndListener(n)

Deliver(n) ==
  /\ listener[n] = "listening" /\ stream[n] # <<>>
  /\ stream' = [stream EXCEPT ![n] = Tail(@)]
  /\ Handle(n, "redis", Head(stream[n]))
  /\ UNCHANGED <<handlers, listener, stopped, members, copies, published, subscribed, packets, doomed>>

\* memberlist calls NotifyMsg, after Leave as well.
NotifyMsg(n) ==
  /\ \E p \in packets :
       /\ p.to = n
       /\ packets' = packets \ {p}
       /\ Handle(n, "gossip", p.msg)
  /\ UNCHANGED <<handlers, listener, stopped, members, copies, published, subscribed, stream, doomed>>

Drop(n, k) ==
  /\ copies' = [copies EXCEPT ![n] = @ \ {k}]
  /\ doomed' = doomed \ DoomedAt(n, k)

\* A handler goroutine runs InvalidateLocal.
RunHandler(n) ==
  /\ \E c \in calls :
       /\ c.node = n
       /\ calls' = calls \ {c}
       /\ Drop(n, c.key)
  /\ UNCHANGED <<handlers, listener, stopped, members, published, subscribed, stream, packets>>

\* A Get or a Set puts a copy into the local cache.
Fill(n, k) ==
  /\ k \notin copies[n]
  /\ copies' = [copies EXCEPT ![n] = @ \cup {k}]
  /\ UNCHANGED <<handlers, listener, stopped, members, calls, published, subscribed, stream, packets, doomed>>

\* ristretto evicts a copy, or its TTL runs out.
Evict(n, k) ==
  /\ k \in copies[n]
  /\ Drop(n, k)
  /\ UNCHANGED <<handlers, listener, stopped, members, calls, published, subscribed, stream, packets>>

\* The process ends, and with it its goroutines, connections and local cache.
Vanish(n) ==
  /\ handlers' = [handlers EXCEPT ![n] = {}]
  /\ listener' = [listener EXCEPT ![n] = "none"]
  /\ members' = members \ {n}
  /\ calls' = {c \in calls : c.node # n}
  /\ copies' = [copies EXCEPT ![n] = {}]
  /\ subscribed' = subscribed \ {n}
  /\ stream' = [stream EXCEPT ![n] = <<>>]
  /\ packets' = {p \in packets : p.to # n}
  /\ doomed' = {d \in doomed : d.node # n}
  /\ UNCHANGED <<stopped, published>>

-----------------------------------------------------------------------------
(* Close *)

CloseKeepsListening(n) == UNCHANGED stopped
CloseStop(n) == stopped' = stopped \cup {n}

\* RedisPubSub.Close closes stopChan; the wait for the listener is main's next step.
CloseRedis(n) ==
  /\ CloseStop(n)
  /\ UNCHANGED <<handlers, listener, members, calls, copies, published, subscribed, stream, packets, doomed>>

\* GossipProtocol.Close leaves the cluster; its stopChan nobody reads.
CloseGossip(n) ==
  /\ members' = members \ {n}
  /\ UNCHANGED <<handlers, listener, stopped, calls, copies, published, subscribed, stream, packets, doomed>>

-----------------------------------------------------------------------------
(* Properties *)

\* A copy that a message sent to its node should drop is gone, or the message
\* is still with Redis or the network, or its handler goroutine is under way:
\* no message is lost between the listener or NotifyMsg and InvalidateLocal,
\* on either channel, whatever the nodes start, stop and publish meanwhile.
DoomedIsOnItsWay ==
  \A d \in doomed :
    \/ d \in calls
    \/ d.via = "redis" /\ \E i \in 1 .. Len(stream[d.node]) : stream[d.node][i].id = d.id
    \/ d.via = "gossip" /\ \E p \in packets : p.to = d.node /\ p.msg.id = d.id
=============================================================================
