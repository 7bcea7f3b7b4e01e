----------------------------- MODULE Server_proofs -----------------------------
(***************************************************************************)
(* For every set of nodes and keys, and every bound: an orderly shutdown   *)
(* has tried the acknowledged writes, and no invalidation is lost between  *)
(* its arrival at a node and InvalidateLocal.                              *)
(***************************************************************************)
EXTENDS Server, TLAPS

\* The places of main before the HTTP server runs.
Booting == {"boot", "redis", "gossip", "subscribe"}

Statements == Booting \cup
  {"serving", "shutdown", "closeBackends", "closeGossip", "closeRedis", "awaitListener",
   "closeService", "awaitWorker", "exited", "killed"}

NodeTypes ==
  /\ main \in [Nodes -> Statements]
  /\ worker \in [Nodes -> {"off", "running", "returned"}]
  /\ queue \in [Nodes -> SUBSET Nat]
  /\ late \in [Nodes -> SUBSET Nat]
  /\ active \in [Nodes -> SUBSET Nat]
  /\ writes \in [Nodes -> Nat]

\* The worker returns with nothing in the queue, and what is queued after that
\* is late: the cache service closes only when Shutdown has returned.
Drain ==
  \A n \in Nodes :
    /\ n \in finishing => main[n] \in {"awaitWorker", "exited", "killed"}
    /\ worker[n] = "returned" => n \in finishing /\ queue[n] \subseteq late[n]
    /\ main[n] = "exited" => queue[n] \subseteq late[n]

ExitInv == NodeTypes /\ Drain

-----------------------------------------------------------------------------

\* The invariant holds before a node starts.
LEMMA ExitInit == Init => ExitInv
  BY DEF Init, ExitInv, NodeTypes, Drain, Statements, Booting

\* Start-up, the shutdown and the end of a node keep it.
LEMMA MainKeepsExit ==
  ASSUME ExitInv, NEW n \in Nodes, Main(n) \/ Signal(n) \/ Kill(n)
  PROVE  ExitInv'
<1>1. CASE Boot(n)
  BY <1>1 DEF ExitInv, NodeTypes, Statements, Booting, Drain, Boot, At, writeVars
<1>2. CASE BootRedis(n) \/ BootGossip(n) \/ BootSubscribe(n)
  BY <1>2 DEF ExitInv, NodeTypes, Statements, Booting, Drain, BootRedis, BootGossip, BootSubscribe, At, writeVars
<1>3. CASE ShutdownReturns(n) \/ CloseBackends(n) \/ DeferGossip(n) \/ DeferRedis(n) \/ AwaitListener(n)
           \/ Signal(n)
  BY <1>3 DEF ExitInv, NodeTypes, Statements, Booting, Drain, ShutdownReturns, CloseBackends, DeferGossip, DeferRedis,
       AwaitListener, Signal, At, writeVars
<1>4. CASE DeferService(n)
  BY <1>4 DEF ExitInv, NodeTypes, Statements, Booting, Drain, DeferService, At, writeVars
<1>5. CASE Exit(n)
  BY <1>5 DEF ExitInv, NodeTypes, Statements, Booting, Drain, Exit, End, At
<1>6. CASE Kill(n)
  BY <1>6 DEF ExitInv, NodeTypes, Statements, Booting, Drain, Kill, End
<1>. QED  BY <1>1, <1>2, <1>3, <1>4, <1>5, <1>6 DEF Main

\* So do the handlers and the worker.
LEMMA WritesKeepExit ==
  ASSUME ExitInv, NEW n \in Nodes, BeginSet(n) \/ Queued(n) \/ Worker(n)
  PROVE  ExitInv'
<1>1. CASE BeginSet(n)
  BY <1>1 DEF ExitInv, NodeTypes, Statements, Booting, Drain, BeginSet, nodeVars
<1>2. CASE Queued(n)
  BY <1>2 DEF ExitInv, NodeTypes, Statements, Booting, Drain, Queued, Handling, nodeVars
<1>3. CASE WorkerTries(n)
  BY <1>3 DEF ExitInv, NodeTypes, Statements, Booting, Drain, WorkerTries, nodeVars
<1>4. CASE WorkerReturns(n)
  BY <1>4 DEF ExitInv, NodeTypes, Statements, Booting, Drain, WorkerReturns, Drained, writeVars
<1>. QED  BY <1>1, <1>2, <1>3, <1>4 DEF Worker

\* The channels do not touch the writes.
LEMMA ExitStep == ExitInv /\ [Next]_vars => ExitInv'
<1>. SUFFICES ASSUME ExitInv, [Next]_vars PROVE ExitInv'
  OBVIOUS
<1>1. CASE UNCHANGED vars
  BY <1>1 DEF vars, nodeVars, writeVars, ExitInv, NodeTypes, Drain
<1>2. CASE Next
  <2>. PICK n \in Nodes :
         Main(n) \/ Signal(n) \/ Kill(n) \/ BeginSet(n) \/ Queued(n) \/ Worker(n) \/ Channel(n)
    BY <1>2 DEF Next
  <2>1. CASE Channel(n)
    BY <2>1 DEF Channel, nodeVars, writeVars, ExitInv, NodeTypes, Drain
  <2>. QED  BY <2>1, MainKeepsExit, WritesKeepExit
<1>. QED  BY <1>1, <1>2

\* Whatever the channels do and whenever a node is killed, an orderly shutdown
\* has tried every acknowledged write that was not late (main.go:169, cache.go:412).
THEOREM ServerTriesAcked == Spec => []AckedIsTriedAtExit
<1>1. ExitInv => AckedIsTriedAtExit
  BY DEF ExitInv, Drain, AckedIsTriedAtExit
<1>. QED  BY ExitInit, ExitStep, <1>1, PTL DEF Spec

-----------------------------------------------------------------------------
(* Invalidation messages *)

Messages == [id : Nat, key : Keys, from : {NodeID[n] : n \in Nodes}]
Calls == [node : Nodes, key : Keys, id : Nat, via : Channels]

ChannelTypes ==
  /\ handlers \in [Nodes -> SUBSET Channels]
  /\ listener \in [Nodes -> {"none", "subscribing", "listening", "ended"}]
  /\ members \subseteq Nodes /\ subscribed \subseteq Nodes
  /\ copies \in [Nodes -> SUBSET Keys]
  /\ published \in Nat
  /\ stream \in [Nodes -> Seq(Messages)]
  /\ packets \subseteq [to : Nodes, msg : Messages]
  /\ doomed \subseteq Calls

\* Who can be sent a message has its handler in place: a listener starts with
\* the handler, and while main boots the node has no copies that a gossip
\* message could miss.
Ready ==
  \A n \in Nodes :
    /\ listener[n] # "none" \/ n \in subscribed => "redis" \in handlers[n]
    /\ n \in members => main[n] = "subscribe" \/ "gossip" \in handlers[n]
    /\ main[n] \in Booting => copies[n] = {}

\* msg is another node's and drops what d is about.
Drops(d, msg) == msg.id = d.id /\ msg.key = d.key /\ msg.from # NodeID[d.node]

InStream(d) ==
  /\ d.via = "redis" /\ "redis" \in handlers[d.node]
  /\ \E i \in 1 .. Len(stream[d.node]) : Drops(d, stream[d.node][i])

InPacket(d) ==
  /\ d.via = "gossip" /\ "gossip" \in handlers[d.node]
  /\ \E p \in packets : p.to = d.node /\ Drops(d, p.msg)

Underway == \A d \in doomed : d \in calls \/ InStream(d) \/ InPacket(d)

DropInv == NodeTypes /\ ChannelTypes /\ Ready /\ Underway

\* The invariant holds before a node starts.
LEMMA DropInit == Init => DropInv
  BY DEF Init, InvInit, DropInv, NodeTypes, Statements, Booting, ChannelTypes, Channels, Ready, Underway

\* A node that leaves the channels and its doomed copies alone keeps them under way.
LEMMA NodesKeepDrop ==
  ASSUME DropInv, NodeTypes', UNCHANGED invVars,
         \A n \in Nodes : (main'[n] \in Booting => main[n] \in Booting)
                          /\ (main[n] = "subscribe" => main'[n] = "subscribe")
  PROVE  DropInv'
<1>1. ChannelTypes'
  BY DEF invVars, DropInv, ChannelTypes
<1>2. Ready'
  BY DEF invVars, DropInv, Ready, ChannelTypes
<1>3. Underway'
  BY DEF invVars, DropInv, Underway, InStream, InPacket, Drops
<1>. QED  BY <1>1, <1>2, <1>3 DEF DropInv

\* What a message dooms are copies of its key at nodes.
LEMMA DoomTyped ==
  ASSUME ChannelTypes, NEW to \in SUBSET Nodes, NEW via \in Channels, NEW n \in Nodes, NEW k \in Keys,
         Doom(to, via, Message(n, k))
  PROVE  doomed' \subseteq Calls
BY DEF Doom, ChannelTypes, Calls, Message

\* A published message is on its way to every copy it dooms.
LEMMA PublishKeepsDrop ==
  ASSUME DropInv, UNCHANGED <<nodeVars, writeVars>>, NEW n \in Nodes, NEW k \in Keys, Handling(n),
         PublishRedis(n, k) \/ PublishGossip(n, k)
  PROVE  DropInv'
<1>m. Message(n, k) \in Messages
  BY DEF Message, Messages, DropInv, ChannelTypes
<1>t. NodeTypes' /\ main' = main
  BY DEF DropInv, NodeTypes, nodeVars, writeVars
<1>1. CASE PublishRedis(n, k)
  <2>. PICK to \in {subscribed, {}} :
         /\ stream' = [m \in Nodes |->
              IF m \in to THEN Append(stream[m], Message(n, k)) ELSE stream[m]]
         /\ Doom(to, "redis", Message(n, k))
    BY <1>1 DEF PublishRedis
  <2>1. to \subseteq subscribed /\ subscribed \subseteq Nodes
    BY DEF DropInv, ChannelTypes
  <2>2. ChannelTypes'
    <3>1. stream' \in [Nodes -> Seq(Messages)]
      BY <1>m DEF DropInv, ChannelTypes
    <3>2. doomed' \subseteq Calls
      BY <2>1, DoomTyped DEF DropInv, ChannelTypes, Channels
    <3>. QED  BY <3>1, <3>2, <1>1 DEF PublishRedis, DropInv, ChannelTypes
  <2>3. Ready'
    BY <1>1, <1>t DEF PublishRedis, DropInv, Ready
  <2>4. Underway'
    <3>. SUFFICES ASSUME NEW d \in doomed' PROVE (d \in calls \/ InStream(d) \/ InPacket(d))'
      BY DEF Underway
    <3>1. CASE d \in doomed
      <4>1. InStream(d) => InStream(d)'
        <5>. SUFFICES ASSUME InStream(d) PROVE InStream(d)'
          OBVIOUS
        <5>1. d.node \in Nodes /\ stream[d.node] \in Seq(Messages)
          BY <3>1 DEF DropInv, ChannelTypes, Calls
        <5>2. PICK i \in 1 .. Len(stream[d.node]) : Drops(d, stream[d.node][i])
          BY DEF InStream
        <5>3. i \in 1 .. Len(stream'[d.node]) /\ stream'[d.node][i] = stream[d.node][i]
          BY <5>1, <5>2, <1>m
        <5>. QED  BY <5>2, <5>3, <1>1 DEF InStream, Drops, PublishRedis
      <4>2. InPacket(d) => InPacket(d)'
        BY <1>1 DEF InPacket, Drops, PublishRedis
      <4>. QED  BY <3>1, <4>1, <4>2, <1>1 DEF DropInv, Underway, PublishRedis
    <3>2. CASE d \notin doomed
      <4>1. /\ d.via = "redis" /\ d.node \in to /\ d.key = k
            /\ d.id = Message(n, k).id /\ NodeID[d.node] # Message(n, k).from
        BY <3>2 DEF Doom, Message
      <4>2. stream[d.node] \in Seq(Messages)
        BY <4>1, <2>1 DEF DropInv, ChannelTypes
      <4>3. stream'[d.node] = Append(stream[d.node], Message(n, k))
        BY <4>1, <2>1
      <4>4. Drops(d, stream'[d.node][Len(stream'[d.node])])
        BY <4>1, <4>2, <4>3, <1>m DEF Drops, Message
      <4>5. Len(stream'[d.node]) \in 1 .. Len(stream'[d.node])
        BY <4>2, <4>3, <1>m
      <4>6. "redis" \in handlers'[d.node]
        BY <4>1, <2>1, <1>1 DEF DropInv, Ready, PublishRedis
      <4>. QED  BY <4>1, <4>4, <4>5, <4>6 DEF InStream, Drops
    <3>. QED  BY <3>1, <3>2
  <2>. QED  BY <1>t, <2>2, <2>3, <2>4 DEF DropInv
<1>2. CASE PublishGossip(n, k)
  <2>. PICK to \in SUBSET {m \in members : NodeID[m] # NodeID[n]} :
         /\ packets' = packets \cup {[to |-> m, msg |-> Message(n, k)] : m \in to}
         /\ Doom(to, "gossip", Message(n, k))
    BY <1>2 DEF PublishGossip
  <2>1. to \subseteq members /\ members \subseteq Nodes
    BY DEF DropInv, ChannelTypes
  <2>2. ChannelTypes'
    <3>1. packets' \subseteq [to : Nodes, msg : Messages]
      BY <1>m, <2>1 DEF DropInv, ChannelTypes
    <3>2. doomed' \subseteq Calls
      BY <2>1, DoomTyped DEF DropInv, ChannelTypes, Channels
    <3>. QED  BY <3>1, <3>2, <1>2 DEF PublishGossip, DropInv, ChannelTypes
  <2>3. Ready'
    BY <1>2, <1>t DEF PublishGossip, DropInv, Ready
  <2>4. Underway'
    <3>. SUFFICES ASSUME NEW d \in doomed' PROVE (d \in calls \/ InStream(d) \/ InPacket(d))'
      BY DEF Underway
    <3>1. CASE d \in doomed
      BY <3>1, <1>2 DEF DropInv, Underway, InStream, InPacket, Drops, PublishGossip
    <3>2. CASE d \notin doomed
      <4>1. /\ d.via = "gossip" /\ d.node \in to /\ d.key = k /\ k \in copies[d.node]
            /\ d.id = Message(n, k).id /\ NodeID[d.node] # Message(n, k).from
        BY <3>2 DEF Doom, Message
      <4>2. "gossip" \in handlers'[d.node]
        BY <4>1, <2>1, <1>2 DEF DropInv, Ready, Booting, PublishGossip
      <4>3. [to |-> d.node, msg |-> Message(n, k)] \in packets'
        BY <4>1
      <4>4. Drops(d, Message(n, k))
        BY <4>1 DEF Drops, Message
      <4>. QED  BY <4>1, <4>2, <4>3, <4>4 DEF InPacket, Drops
    <3>. QED  BY <3>1, <3>2
  <2>. QED  BY <1>t, <2>2, <2>3, <2>4 DEF DropInv
<1>. QED  BY <1>1, <1>2

\* A node that stops listening takes the messages it has not read off the account.
LEMMA ForgetKeepsDrop ==
  ASSUME DropInv, UNCHANGED <<nodeVars, writeVars>>, NEW n \in Nodes,
         listener' \in [Nodes -> {"none", "subscribing", "listening", "ended"}],
         \A m \in Nodes : listener'[m] = "none" => listener[m] = "none",
         \A m \in Nodes : listener[m] = "none" => listener'[m] = "none",
         Forget(n)
  PROVE  DropInv'
<1>t. NodeTypes' /\ main' = main
  BY DEF DropInv, NodeTypes, nodeVars, writeVars
<1>1. ChannelTypes'
  <2>1. stream' \in [Nodes -> Seq(Messages)]
    BY DEF Forget, DropInv, ChannelTypes
  <2>. QED  BY <2>1 DEF Forget, DropInv, ChannelTypes
<1>2. Ready'
  BY <1>t DEF Forget, DropInv, Ready
<1>3. Underway'
  <2>. SUFFICES ASSUME NEW d \in doomed' PROVE (d \in calls \/ InStream(d) \/ InPacket(d))'
    BY DEF Underway
  <2>1. d \in doomed /\ d.node \in Nodes
    BY DEF Forget, DropInv, ChannelTypes, Calls
  <2>2. InPacket(d) => InPacket(d)'
    BY DEF InPacket, Drops, Forget
  <2>3. ASSUME InStream(d) PROVE InStream(d)'
    <3>1. d.node # n
      BY <2>3, <2>1 DEF InStream, Drops, Forget
    <3>2. stream'[d.node] = stream[d.node]
      BY <3>1, <2>1 DEF Forget, DropInv, ChannelTypes
    <3>. QED  BY <2>3, <3>2 DEF InStream, Drops, Forget
  <2>. QED  BY <2>1, <2>2, <2>3 DEF DropInv, Underway, Forget
<1>. QED  BY <1>t, <1>1, <1>2, <1>3 DEF DropInv

\* A message that is taken off the stream or the network starts its handlers.
LEMMA ArrivalKeepsDrop ==
  ASSUME DropInv, UNCHANGED <<nodeVars, writeVars>>, NEW n \in Nodes, Deliver(n) \/ NotifyMsg(n)
  PROVE  DropInv'
<1>t. NodeTypes' /\ main' = main
  BY DEF DropInv, NodeTypes, nodeVars, writeVars
<1>1. CASE Deliver(n)
  <2>1. stream[n] \in Seq(Messages) /\ stream[n] # <<>> /\ Head(stream[n]) = stream[n][1]
    BY <1>1 DEF Deliver, DropInv, ChannelTypes
  <2>2. ChannelTypes'
    <3>1. stream' \in [Nodes -> Seq(Messages)]
      BY <1>1, <2>1 DEF Deliver, DropInv, ChannelTypes
    <3>. QED  BY <3>1, <1>1 DEF Deliver, DropInv, ChannelTypes
  <2>3. Ready'
    BY <1>1, <1>t DEF Deliver, DropInv, Ready
  <2>4. Underway'
    <3>. SUFFICES ASSUME NEW d \in doomed' PROVE (d \in calls \/ InStream(d) \/ InPacket(d))'
      BY DEF Underway
    <3>1. d \in doomed /\ d \in Calls
      BY <1>1 DEF Deliver, DropInv, ChannelTypes
    <3>2. calls \subseteq calls'
      BY <1>1 DEF Deliver, Handle, Dispatch
    <3>3. InPacket(d) => InPacket(d)'
      BY <1>1 DEF InPacket, Drops, Deliver
    <3>4. ASSUME InStream(d) PROVE d \in calls' \/ InStream(d)'
      <4>. PICK i \in 1 .. Len(stream[d.node]) : Drops(d, stream[d.node][i])
        BY <3>4 DEF InStream
      <4>1. CASE d.node # n
        <5>1. stream'[d.node] = stream[d.node]
          BY <4>1, <3>1, <1>1 DEF Deliver, DropInv, ChannelTypes, Calls
        <5>. QED  BY <5>1, <3>4, <1>1 DEF InStream, Drops, Deliver
      <4>2. CASE d.node = n /\ i = 1
        <5>1. Drops(d, Head(stream[n])) /\ d.via = "redis" /\ "redis" \in handlers[n]
          BY <4>2, <2>1, <3>4 DEF InStream
        <5>2. d = [node |-> n, key |-> Head(stream[n]).key, id |-> Head(stream[n]).id, via |-> "redis"]
          BY <5>1, <4>2, <3>1 DEF Drops, Calls
        <5>3. Handle(n, "redis", Head(stream[n])) /\ Head(stream[n]).from # NodeID[n]
          BY <1>1, <5>1, <4>2 DEF Deliver, Drops
        <5>. QED  BY <5>1, <5>2, <5>3 DEF Handle, Dispatch
      <4>3. CASE d.node = n /\ i # 1
        <5>1. stream'[n] = Tail(stream[n])
          BY <1>1 DEF Deliver, DropInv, ChannelTypes
        <5>2. i - 1 \in 1 .. Len(stream'[n]) /\ stream'[n][i - 1] = stream[n][i]
          BY <5>1, <2>1, <4>3
        <5>3. Drops(d, stream'[n][i - 1])
          BY <5>2, <4>3
        <5>. QED  BY <5>2, <5>3, <4>3, <3>4, <1>1 DEF InStream, Drops, Deliver
      <4>. QED  BY <4>1, <4>2, <4>3
    <3>. QED  BY <3>1, <3>2, <3>3, <3>4 DEF DropInv, Underway
  <2>. QED  BY <1>t, <2>2, <2>3, <2>4 DEF DropInv
<1>2. CASE NotifyMsg(n)
  <2>. PICK p \in packets : p.to = n /\ packets' = packets \ {p} /\ Handle(n, "gossip", p.msg)
    BY <1>2 DEF NotifyMsg
  <2>1. ChannelTypes' /\ Ready'
    BY <1>2, <1>t DEF NotifyMsg, DropInv, ChannelTypes, Ready
  <2>2. Underway'
    <3>. SUFFICES ASSUME NEW d \in doomed' PROVE (d \in calls \/ InStream(d) \/ InPacket(d))'
      BY DEF Underway
    <3>1. d \in doomed /\ d \in Calls
      BY <1>2 DEF NotifyMsg, DropInv, ChannelTypes
    <3>2. calls \subseteq calls'
      BY DEF Handle, Dispatch
    <3>3. InStream(d) => InStream(d)'
      BY <1>2 DEF InStream, Drops, NotifyMsg
    <3>4. ASSUME InPacket(d) PROVE d \in calls' \/ InPacket(d)'
      <4>. PICK q \in packets : q.to = d.node /\ Drops(d, q.msg)
        BY <3>4 DEF InPacket
      <4>1. CASE q # p
        BY <4>1, <3>4, <1>2 DEF InPacket, Drops, NotifyMsg
      <4>2. CASE q = p
        <5>1. d = [node |-> n, key |-> p.msg.key, id |-> p.msg.id, via |-> "gossip"]
          BY <4>2, <3>1, <3>4 DEF Drops, Calls, InPacket
        <5>. QED  BY <5>1, <4>2, <3>4 DEF Handle, Dispatch, Drops, InPacket
      <4>. QED  BY <4>1, <4>2
    <3>. QED  BY <3>1, <3>2, <3>3, <3>4 DEF DropInv, Underway
  <2>. QED  BY <1>t, <2>1, <2>2 DEF DropInv
<1>. QED  BY <1>1, <1>2

\* A handler that runs drops its copy, which is doomed no more.
LEMMA RunHandlerKeepsDrop ==
  ASSUME DropInv, UNCHANGED <<nodeVars, writeVars>>, NEW n \in Nodes, RunHandler(n)
  PROVE  DropInv'
<1>t. NodeTypes' /\ main' = main
  BY DEF DropInv, NodeTypes, nodeVars, writeVars
<1>. PICK c \in calls : c.node = n /\ calls' = calls \ {c} /\ Drop(n, c.key)
  BY DEF RunHandler
<1>1. ChannelTypes'
  BY DEF RunHandler, Drop, DropInv, ChannelTypes
<1>2. Ready'
  BY <1>t DEF RunHandler, Drop, DropInv, ChannelTypes, Ready
<1>3. \A d \in doomed' : d \in doomed /\ d # c
  BY DEF Drop, DoomedAt
<1>4. Underway'
  BY <1>3 DEF RunHandler, DropInv, Underway, InStream, InPacket, Drops
<1>. QED  BY <1>t, <1>1, <1>2, <1>4 DEF DropInv

\* A copy that goes away is doomed no more, and a new one is not doomed yet.
LEMMA CopiesKeepDrop ==
  ASSUME DropInv, UNCHANGED <<nodeVars, writeVars>>, NEW n \in Nodes, NEW k \in Keys,
         Evict(n, k) \/ (Handling(n) /\ Fill(n, k))
  PROVE  DropInv'
<1>t. NodeTypes' /\ main' = main
  BY DEF DropInv, NodeTypes, nodeVars, writeVars
<1>1. CASE Evict(n, k)
  <2>1. ChannelTypes'
    BY <1>1 DEF Evict, Drop, DropInv, ChannelTypes
  <2>2. Ready'
    BY <1>1, <1>t DEF Evict, Drop, DropInv, ChannelTypes, Ready
  <2>3. Underway'
    BY <1>1 DEF Evict, Drop, DropInv, Underway, InStream, InPacket, Drops
  <2>. QED  BY <1>t, <2>1, <2>2, <2>3 DEF DropInv
<1>2. CASE Handling(n) /\ Fill(n, k)
  <2>1. ChannelTypes'
    BY <1>2 DEF Fill, DropInv, ChannelTypes
  <2>2. Ready'
    BY <1>2, <1>t DEF Fill, DropInv, ChannelTypes, Ready, Handling, Booting
  <2>3. Underway'
    BY <1>2 DEF Fill, DropInv, Underway, InStream, InPacket, Drops
  <2>. QED  BY <1>t, <2>1, <2>2, <2>3 DEF DropInv
<1>. QED  BY <1>1, <1>2

\* Subscriptions, the memberlist and the Closes keep what is under way.
LEMMA JoinKeepsDrop ==
  ASSUME DropInv, NodeTypes', NEW n \in Nodes,
         \/ BootRedis(n) /\ SubscribeRedis(n)
         \/ At(n, "gossip", "subscribe") /\ StartGossip(n)
         \/ BootSubscribe(n) \/ DeferGossip(n) \/ DeferRedis(n)
  PROVE  DropInv'
<1>1. CASE BootRedis(n) /\ SubscribeRedis(n)
  <2>1. ChannelTypes'
    BY <1>1 DEF SubscribeRedis, DropInv, ChannelTypes, Channels
  <2>2. Ready'
    BY <1>1 DEF BootRedis, At, SubscribeRedis, DropInv, NodeTypes, ChannelTypes, Ready, Booting
  <2>3. Underway'
    BY <1>1 DEF SubscribeRedis, DropInv, ChannelTypes, Calls, Underway, InStream, InPacket, Drops
  <2>. QED  BY <2>1, <2>2, <2>3 DEF DropInv
<1>2. CASE At(n, "gossip", "subscribe") /\ StartGossip(n)
  <2>1. ChannelTypes'
    BY <1>2 DEF StartGossip, DropInv, ChannelTypes
  <2>2. Ready'
    BY <1>2 DEF At, StartGossip, DropInv, NodeTypes, ChannelTypes, Ready, Booting
  <2>3. Underway'
    BY <1>2 DEF StartGossip, DropInv, Underway, InStream, InPacket, Drops
  <2>. QED  BY <2>1, <2>2, <2>3 DEF DropInv
<1>3. CASE BootSubscribe(n)
  <2>1. ChannelTypes'
    BY <1>3 DEF BootSubscribe, SubscribeGossip, DropInv, ChannelTypes, Channels
  <2>2. Ready'
    BY <1>3 DEF BootSubscribe, At, SubscribeGossip, DropInv, NodeTypes, ChannelTypes, Ready, Booting
  <2>3. Underway'
    BY <1>3 DEF BootSubscribe, SubscribeGossip, DropInv, ChannelTypes, Calls, Underway, InStream, InPacket, Drops
  <2>. QED  BY <2>1, <2>2, <2>3 DEF DropInv
<1>4. CASE DeferGossip(n) \/ DeferRedis(n)
  <2>1. ChannelTypes'
    BY <1>4 DEF DeferGossip, CloseGossip, DeferRedis, CloseRedis, DropInv, ChannelTypes
  <2>2. Ready'
    BY <1>4 DEF DeferGossip, CloseGossip, DeferRedis, CloseRedis, At, DropInv, NodeTypes, ChannelTypes, Ready, Booting
  <2>3. Underway'
    BY <1>4 DEF DeferGossip, CloseGossip, DeferRedis, CloseRedis, DropInv, Underway, InStream, InPacket, Drops
  <2>. QED  BY <2>1, <2>2, <2>3 DEF DropInv
<1>. QED  BY <1>1, <1>2, <1>3, <1>4

\* A process that ends takes its copies, and what was to drop them, along.
LEMMA EndKeepsDrop ==
  ASSUME DropInv, NodeTypes', NEW n \in Nodes, Exit(n) \/ Kill(n)
  PROVE  DropInv'
<1>0. Vanish(n)
  BY DEF Exit, Kill, End
<1>1. ChannelTypes'
  <2>1. stream' \in [Nodes -> Seq(Messages)]
    BY <1>0 DEF Vanish, DropInv, ChannelTypes
  <2>. QED  BY <1>0, <2>1 DEF Vanish, DropInv, ChannelTypes
<1>2. Ready'
  <2>1. main'[n] \notin Booting /\ \A m \in Nodes \ {n} : main'[m] = main[m]
    BY DEF Exit, Kill, At, DropInv, NodeTypes, Booting
  <2>. QED  BY <1>0, <2>1 DEF Vanish, DropInv, ChannelTypes, Ready
<1>3. Underway'
  <2>. SUFFICES ASSUME NEW d \in doomed' PROVE (d \in calls \/ InStream(d) \/ InPacket(d))'
    BY DEF Underway
  <2>1. d \in doomed /\ d.node \in Nodes /\ d.node # n
    BY <1>0 DEF Vanish, DropInv, ChannelTypes, Calls
  <2>2. handlers'[d.node] = handlers[d.node] /\ stream'[d.node] = stream[d.node]
    BY <1>0, <2>1 DEF Vanish, DropInv, ChannelTypes
  <2>3. d \in calls => d \in calls'
    BY <1>0, <2>1 DEF Vanish
  <2>4. InStream(d) => InStream(d)'
    BY <2>2 DEF InStream, Drops
  <2>5. InPacket(d) => InPacket(d)'
    BY <1>0, <2>1, <2>2 DEF Vanish, InPacket, Drops
  <2>. QED  BY <2>1, <2>3, <2>4, <2>5 DEF DropInv, Underway
<1>. QED  BY <1>1, <1>2, <1>3 DEF DropInv

\* Every step of the channels keeps the invariant.
LEMMA ChannelKeepsDrop ==
  ASSUME DropInv, NEW n \in Nodes, Channel(n)
  PROVE  DropInv'
<1>. UNCHANGED <<nodeVars, writeVars>>
  BY DEF Channel
<1>t. NodeTypes' /\ main' = main
  BY DEF DropInv, NodeTypes, nodeVars, writeVars
<1>1. CASE Registered(n) \/ Received(n)
  <2>1. ChannelTypes'
    BY <1>1 DEF Registered, Received, DropInv, ChannelTypes
  <2>2. Ready'
    BY <1>1, <1>t DEF Registered, Received, DropInv, ChannelTypes, Ready
  <2>3. Underway'
    BY <1>1 DEF Registered, Received, DropInv, Underway, InStream, InPacket, Drops
  <2>. QED  BY <1>t, <2>1, <2>2, <2>3 DEF DropInv
<1>2. CASE ReceiveFails(n) \/ ConnectionBreaks(n) \/ ListenerStops(n)
  <2>1. Forget(n)
    BY <1>2 DEF ReceiveFails, ConnectionBreaks, ListenerStops, EndListener
  <2>2. /\ listener' \in [Nodes -> {"none", "subscribing", "listening", "ended"}]
        /\ \A m \in Nodes : listener'[m] = "none" <=> listener[m] = "none"
    BY <1>2 DEF ReceiveFails, ConnectionBreaks, ListenerStops, EndListener, DropInv, ChannelTypes
  <2>. QED  BY <2>1, <2>2, ForgetKeepsDrop
<1>3. CASE Deliver(n) \/ NotifyMsg(n)
  BY <1>3, ArrivalKeepsDrop
<1>4. CASE RunHandler(n)
  BY <1>4, RunHandlerKeepsDrop
<1>5. ASSUME NEW k \in Keys,
             Evict(n, k) \/ (Handling(n) /\ (PublishRedis(n, k) \/ PublishGossip(n, k) \/ Fill(n, k)))
      PROVE  DropInv'
  BY <1>5, CopiesKeepDrop, PublishKeepsDrop
<1>. QED  BY <1>1, <1>2, <1>3, <1>4, <1>5 DEF Channel, Listen

\* Every step keeps the invariant.
LEMMA DropStep == DropInv /\ NodeTypes' /\ [Next]_vars => DropInv'
<1>. SUFFICES ASSUME DropInv, NodeTypes', [Next]_vars PROVE DropInv'
  OBVIOUS
<1>1. CASE UNCHANGED vars
  BY <1>1, NodesKeepDrop DEF vars, nodeVars
<1>2. CASE Next
  <2>. PICK n \in Nodes :
         Main(n) \/ Signal(n) \/ Kill(n) \/ BeginSet(n) \/ Queued(n) \/ Worker(n) \/ Channel(n)
    BY <1>2 DEF Next
  <2>1. CASE Channel(n)
    BY <2>1, ChannelKeepsDrop
  <2>2. CASE Exit(n) \/ Kill(n)
    BY <2>2, EndKeepsDrop
  <2>3. CASE \/ BootRedis(n) /\ SubscribeRedis(n)
             \/ At(n, "gossip", "subscribe") /\ StartGossip(n)
             \/ BootSubscribe(n) \/ DeferGossip(n) \/ DeferRedis(n)
    BY <2>3, JoinKeepsDrop
  <2>4. CASE \/ Boot(n)
             \/ BootRedis(n) /\ UNCHANGED invVars
             \/ At(n, "gossip", "serving") /\ UNCHANGED invVars
             \/ ShutdownReturns(n) \/ CloseBackends(n) \/ AwaitListener(n) \/ DeferService(n) \/ Signal(n)
    <3>1. UNCHANGED invVars
      BY <2>4 DEF Boot, ShutdownReturns, CloseBackends, AwaitListener, DeferService, Signal
    <3>2. \A m \in Nodes : (main'[m] \in Booting => main[m] \in Booting)
                           /\ (main[m] = "subscribe" => main'[m] = "subscribe")
      BY <2>4 DEF Boot, BootRedis, ShutdownReturns, CloseBackends, AwaitListener, DeferService, Signal,
           At, DropInv, NodeTypes, Booting
    <3>. QED  BY <3>1, <3>2, NodesKeepDrop
  <2>5. CASE BeginSet(n) \/ Queued(n) \/ Worker(n)
    <3>1. UNCHANGED invVars /\ main' = main
      BY <2>5 DEF BeginSet, Queued, Worker, WorkerTries, WorkerReturns, nodeVars
    <3>. QED  BY <3>1, NodesKeepDrop
  <2>6. CASE BootRedis(n)
    BY <2>3, <2>4, <2>6, Zenon DEF BootRedis
  <2>7. CASE BootGossip(n)
    BY <2>3, <2>4, <2>7, Zenon DEF BootGossip
  <2>8. CASE Main(n)
    <3>1. CASE Boot(n) \/ ShutdownReturns(n) \/ CloseBackends(n) \/ AwaitListener(n) \/ DeferService(n)
      BY <2>4, <3>1
    <3>2. CASE BootSubscribe(n) \/ DeferGossip(n) \/ DeferRedis(n)
      BY <2>3, <3>2
    <3>. QED  BY <2>2, <2>6, <2>7, <2>8, <3>1, <3>2 DEF Main
  <2>9. CASE Signal(n) \/ Kill(n)
    BY <2>2, <2>4, <2>9
  <2>. QED  BY <2>1, <2>5, <2>8, <2>9
<1>. QED  BY <1>1, <1>2

\* A message that was delivered is not lost before InvalidateLocal, on either
\* channel, whatever the nodes start, stop, publish and fill meanwhile
\* (pubsub.go:120-171, gossip.go:48-71).
THEOREM ServerLosesNoInvalidation == Spec => []DoomedIsOnItsWay
<1>1. DropInv => DoomedIsOnItsWay
  BY DEF DropInv, ChannelTypes, Calls, Underway, InStream, InPacket, Drops, DoomedIsOnItsWay
<1>2. ExitInv => NodeTypes
  BY DEF ExitInv
<1>. QED  BY ExitInit, ExitStep, DropInit, DropStep, <1>1, <1>2, PTL DEF Spec
=============================================================================
