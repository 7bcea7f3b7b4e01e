-------------------------- MODULE WriteBehind_proofs --------------------------
(***************************************************************************)
(* What the write-behind queue owes an acknowledged write, for any number  *)
(* of clients, keys and operations and any size of queue, batch and retry  *)
(* count: it is neither lost nor doubled, tried in its turn, given up only *)
(* after its retries, and tried before Close returns.                      *)
(***************************************************************************)
EXTENDS WriteBehind, FiniteSetTheorems, SequenceTheorems, TLAPS

Requests == [op : 0 .. MaxOps, key : Keys \cup {NoReq.key}, kind : {"none", "set", "delete"}]

Types ==
  /\ queue \in Seq(Items) /\ batch \in Seq(Items) /\ sleeping \subseteq Items
  /\ worker \in {"select", "flush", "drain", "lastFlush", "done"}
  /\ worker \in {"flush", "lastFlush"} => batch # <<>>
  /\ stopping \in BOOLEAN /\ dueAtStop \in Nat
  /\ pc \in [Clients -> {"idle", "enqueue", "writeThrough", "delete"}]
  /\ req \in [Clients -> Requests]
  /\ ops \in 0 .. MaxOps
  /\ arrived \in Seq(Ops) /\ tried \in Seq(Ops)
  /\ attempts \in [Ops -> Nat]
  /\ settled \in [Ops -> {"no", "stored", "given up"}]

\* Nothing has arrived twice, and what a client is about to queue has not arrived.
Numbered ==
  /\ \A c \in Clients : pc[c] # "idle" => req[c].op \in 1 .. ops /\ req[c].key \in Keys
  /\ \A c \in Clients : pc[c] = "enqueue" => req[c].op \notin Arrived
  /\ \A c, d \in Clients :
       pc[c] = "enqueue" /\ pc[d] = "enqueue" /\ req[c].op = req[d].op => c = d
  /\ Arrived \subseteq 1 .. ops
  /\ \A i, j \in 1 .. Len(arrived) : arrived[i] = arrived[j] => i = j

\* What the worker has in front of it: its batch, then the queue.
line == batch \o queue
Places == 1 .. Len(line)

Travels(n) == (\E i \in Places : line[i].op = n) \/ (\E s \in sleeping : s.op = n)

\* A write has one copy while it is not settled, and none after.
OneCopy ==
  /\ \A i, j \in Places : line[i].op = line[j].op => i = j
  /\ \A i \in Places, s \in sleeping : line[i].op # s.op
  /\ \A s, t \in sleeping : s.op = t.op => s = t
  /\ \A n \in Ops : Travels(n) <=> n \in Arrived /\ settled[n] = "no"
  /\ \A n \in Ops : settled[n] # "no" => n \in Arrived

\* An item knows how often its write has been tried.
Counted ==
  /\ \A i \in Places : attempts[line[i].op] = line[i].retry
  /\ \A s \in sleeping : attempts[s.op] = s.retry /\ s.retry > 0
  /\ \A n \in Ops : n \notin Arrived => attempts[n] = 0
  /\ \A n \in Ops : settled[n] = "stored" => attempts[n] <= MaxRetry + 1
  /\ \A n \in Ops : settled[n] = "given up" => attempts[n] = MaxRetry + 1

\* The arrivals that have not been tried.
Untried == {i \in 1 .. Len(arrived) : Len(tried) < i}
\* The j-th item of the line waits for the first attempt of the i-th arrival.
First(j, i) == line[j].retry = 0 /\ line[j].op = arrived[i]

\* The untried arrivals are in the line, in their order.
InOrder ==
  /\ Len(tried) <= Len(arrived)
  /\ \A i \in 1 .. Len(tried) : tried[i] = arrived[i]
  /\ \A i \in Untried : \E j \in Places : First(j, i)
  /\ \A j \in Places : line[j].retry = 0 =>
       \E i \in Untried :
         /\ First(j, i)
         /\ \A h \in Untried : h < i => \E g \in Places : g < j /\ First(g, h)

\* The last batch of a stopping worker holds what was due when Close was called.
Draining ==
  /\ dueAtStop <= Len(arrived)
  /\ worker \in {"drain", "lastFlush", "done"} => stopping
  /\ worker \in {"lastFlush", "done"} =>
       \A i \in Untried : i <= dueAtStop =>
         \E j \in 1 .. Len(batch) : batch[j].retry = 0 /\ batch[j].op = arrived[i]
  /\ worker = "done" => batch = <<>>

WInv == Types /\ Numbered /\ OneCopy /\ Counted /\ InOrder /\ Draining

-----------------------------------------------------------------------------
(* The line                                                                  *)

\* The line is the batch and behind it the queue.
LEMMA LineTypes ==
  ASSUME Types
  PROVE  /\ line \in Seq(Items) /\ Len(line) \in Nat
         /\ Len(line) = Len(batch) + Len(queue) /\ Len(batch) \in Nat /\ Len(queue) \in Nat
         /\ \A i \in 1 .. Len(batch) : i \in Places /\ line[i] = batch[i]
         /\ \A i \in Places : line[i] \in Items
<1>1. queue \in Seq(Items) /\ batch \in Seq(Items)
  BY DEF Types
<1>2. /\ line \in Seq(Items) /\ Len(line) = Len(batch) + Len(queue)
      /\ \A i \in 1 .. Len(batch) + Len(queue) :
           line[i] = IF i <= Len(batch) THEN batch[i] ELSE queue[i - Len(batch)]
  BY <1>1, ConcatProperties DEF line
<1>3. Len(batch) \in Nat /\ Len(queue) \in Nat /\ Len(line) \in Nat
  BY <1>1, <1>2, LenProperties
<1>4. \A i \in Places : line[i] \in Items
  BY <1>2, ElementOfSeq DEF Places
<1>. QED  BY <1>2, <1>3, <1>4 DEF Places

\* An item that is sent to the queue is the last of the line.
LEMMA LineGrows ==
  ASSUME Types, NEW item \in Items, queue' = Append(queue, item), UNCHANGED batch
  PROVE  /\ line' \in Seq(Items) /\ Len(line') = Len(line) + 1
         /\ \A i \in Places : line'[i] = line[i]
         /\ line'[Len(line) + 1] = item
         /\ Places' = Places \cup {Len(line) + 1} /\ Len(line) + 1 \notin Places
<1>1. queue \in Seq(Items) /\ batch \in Seq(Items) /\ line \in Seq(Items) /\ Len(line) \in Nat
  BY LineTypes DEF Types
<1>2. queue' = queue \o <<item>> /\ <<item>> \in Seq(Items)
  BY <1>1, AppendIsConcat
<1>3. line' = line \o <<item>>
  BY <1>1, <1>2, ConcatAssociative DEF line
<1>4. line' = Append(line, item)
  BY <1>1, <1>3, AppendIsConcat
<1>5. /\ line' \in Seq(Items) /\ Len(line') = Len(line) + 1
      /\ \A i \in 1 .. Len(line) : line'[i] = line[i]
      /\ line'[Len(line) + 1] = item
  BY <1>1, <1>4, AppendProperties
<1>. QED  BY <1>1, <1>5 DEF Places

\* The worker takes the first of the queue as the last of its batch.
LEMMA LineMoves ==
  ASSUME Types, queue # <<>>, batch' = Append(batch, Head(queue)), queue' = Tail(queue)
  PROVE  line' = line /\ queue' \in Seq(Items) /\ batch' \in Seq(Items)
<1>1. queue \in Seq(Items) /\ batch \in Seq(Items)
  BY DEF Types
<1>2. /\ Head(queue) \in Items /\ queue' \in Seq(Items) /\ Len(queue') = Len(queue) - 1
      /\ \A i \in 1 .. Len(queue') : queue'[i] = queue[i + 1]
      /\ Head(queue) = queue[1] /\ Len(queue) \in Nat \ {0} /\ Len(batch) \in Nat
  BY <1>1, HeadTailProperties, EmptySeq, LenProperties
<1>3. /\ batch' \in Seq(Items) /\ Len(batch') = Len(batch) + 1
      /\ \A i \in 1 .. Len(batch) : batch'[i] = batch[i]
      /\ batch'[Len(batch) + 1] = queue[1]
  BY <1>1, <1>2, AppendProperties
<1>4. /\ line \in Seq(Items) /\ Len(line) = Len(batch) + Len(queue)
      /\ \A i \in 1 .. Len(batch) + Len(queue) :
           line[i] = IF i <= Len(batch) THEN batch[i] ELSE queue[i - Len(batch)]
  BY <1>1, ConcatProperties DEF line
<1>5. /\ line' \in Seq(Items) /\ Len(line') = Len(batch') + Len(queue')
      /\ \A i \in 1 .. Len(batch') + Len(queue') :
           line'[i] = IF i <= Len(batch') THEN batch'[i] ELSE queue'[i - Len(batch')]
  BY <1>2, <1>3, ConcatProperties DEF line
<1>6. Len(line') = Len(line) /\ Len(batch') + Len(queue') = Len(line)
  BY <1>2, <1>3, <1>4, <1>5
<1>7. ASSUME NEW i \in 1 .. Len(line) PROVE line'[i] = line[i]
  <2>1. /\ line[i] = IF i <= Len(batch) THEN batch[i] ELSE queue[i - Len(batch)]
        /\ line'[i] = IF i <= Len(batch') THEN batch'[i] ELSE queue'[i - Len(batch')]
    BY <1>4, <1>5, <1>6
  <2>2. CASE i \in 1 .. Len(batch)
    <3>1. batch'[i] = batch[i] /\ i <= Len(batch) /\ i <= Len(batch')
      BY <1>2, <1>3, <2>2
    <3>. QED  BY <2>1, <3>1
  <2>3. CASE i = Len(batch) + 1
    <3>1. ~(i <= Len(batch)) /\ i - Len(batch) = 1 /\ i <= Len(batch')
      BY <1>2, <1>3, <2>3
    <3>. QED  BY <1>2, <1>3, <2>1, <2>3, <3>1
  <2>4. CASE i > Len(batch) + 1
    <3>. DEFINE j == i - Len(batch')
    <3>1. ~(i <= Len(batch)) /\ ~(i <= Len(batch')) /\ i - Len(batch) = j + 1
      BY <1>2, <1>3, <2>4
    <3>2. j \in 1 .. Len(queue')
      BY <1>2, <1>3, <1>6, <2>4
    <3>3. queue'[j] = queue[j + 1]
      BY <1>2, <3>2
    <3>4. line'[i] = queue'[j]
      BY <2>1, <3>1
    <3>5. line[i] = queue[j + 1]
      BY <2>1, <3>1
    <3>. QED  BY <3>3, <3>4, <3>5
  <2>. QED  BY <1>2, <2>2, <2>3, <2>4
<1>. QED  BY <1>2, <1>3, <1>4, <1>5, <1>6, <1>7, SeqEqual

\* The worker is through with the first of its batch.
LEMMA LineShrinks ==
  ASSUME Types, batch # <<>>, batch' = Tail(batch), UNCHANGED queue
  PROVE  /\ Head(batch) \in Items /\ Head(batch) = line[1] /\ 1 \in Places
         /\ batch' \in Seq(Items) /\ Len(batch') = Len(batch) - 1
         /\ \A i \in 1 .. Len(batch') : batch'[i] = batch[i + 1]
         /\ line' \in Seq(Items) /\ Len(line') = Len(line) - 1
         /\ \A i \in Places' : i + 1 \in Places /\ line'[i] = line[i + 1]
         /\ \A i \in Places \ {1} : i - 1 \in Places' /\ line'[i - 1] = line[i]
<1>1. queue \in Seq(Items) /\ batch \in Seq(Items)
  BY DEF Types
<1>2. /\ Head(batch) \in Items /\ batch' \in Seq(Items) /\ Len(batch') = Len(batch) - 1
      /\ \A i \in 1 .. Len(batch') : batch'[i] = batch[i + 1]
      /\ Head(batch) = batch[1] /\ Len(batch) \in Nat \ {0} /\ Len(queue) \in Nat
  BY <1>1, HeadTailProperties, EmptySeq, LenProperties
<1>4. /\ line \in Seq(Items) /\ Len(line) = Len(batch) + Len(queue)
      /\ \A i \in 1 .. Len(batch) + Len(queue) :
           line[i] = IF i <= Len(batch) THEN batch[i] ELSE queue[i - Len(batch)]
  BY <1>1, ConcatProperties DEF line
<1>5. /\ line' \in Seq(Items) /\ Len(line') = Len(batch') + Len(queue)
      /\ \A i \in 1 .. Len(batch') + Len(queue) :
           line'[i] = IF i <= Len(batch') THEN batch'[i] ELSE queue[i - Len(batch')]
  BY <1>1, <1>2, ConcatProperties DEF line
<1>6. ASSUME NEW i \in Places' PROVE i + 1 \in Places /\ line'[i] = line[i + 1]
  <2>1. i \in 1 .. Len(batch') + Len(queue) /\ i + 1 \in 1 .. Len(batch) + Len(queue)
    BY <1>2, <1>5, <1>6 DEF Places
  <2>2. /\ line[i + 1] = IF i + 1 <= Len(batch) THEN batch[i + 1] ELSE queue[(i + 1) - Len(batch)]
        /\ line'[i] = IF i <= Len(batch') THEN batch'[i] ELSE queue[i - Len(batch')]
        /\ (i + 1 <= Len(batch)) = (i <= Len(batch')) /\ (i + 1) - Len(batch) = i - Len(batch')
    BY <1>2, <1>4, <1>5, <2>1
  <2>3. i <= Len(batch') => batch'[i] = batch[i + 1]
    BY <1>2, <2>1
  <2>4. line'[i] = line[i + 1]
    BY <2>2, <2>3, Zenon
  <2>5. i + 1 \in Places
    BY <1>4, <2>1 DEF Places
  <2>. QED  BY <2>4, <2>5
<1>7. ASSUME NEW i \in Places \ {1} PROVE i - 1 \in Places' /\ line'[i - 1] = line[i]
  <2>1. i - 1 \in Places' /\ (i - 1) + 1 = i
    BY <1>2, <1>4, <1>5 DEF Places
  <2>. QED  BY <1>6, <2>1
<1>8. Head(batch) = line[1] /\ 1 \in Places /\ Len(line') = Len(line) - 1
  BY <1>2, <1>4, <1>5 DEF Places
<1>. QED  BY <1>2, <1>4, <1>5, <1>6, <1>7, <1>8

-----------------------------------------------------------------------------
(* An acknowledged write joins the queue                                     *)

\* What an arrival adds to the history.
LEMMA ArrivedGrows ==
  ASSUME Types, NEW n \in Ops, arrived' = Append(arrived, n)
  PROVE  /\ arrived' \in Seq(Ops) /\ Len(arrived) \in Nat /\ Len(arrived') = Len(arrived) + 1
         /\ \A i \in 1 .. Len(arrived) : arrived'[i] = arrived[i]
         /\ arrived'[Len(arrived) + 1] = n
         /\ Arrived' = Arrived \cup {n}
<1>1. arrived \in Seq(Ops)
  BY DEF Types
<1>2. /\ arrived' \in Seq(Ops) /\ Len(arrived) \in Nat /\ Len(arrived') = Len(arrived) + 1
      /\ \A i \in 1 .. Len(arrived) : arrived'[i] = arrived[i]
      /\ arrived'[Len(arrived) + 1] = n
      /\ DOMAIN arrived = 1 .. Len(arrived) /\ DOMAIN arrived' = 1 .. Len(arrived')
  BY <1>1, AppendProperties, LenProperties
<1>3. Arrived' = {arrived'[i] : i \in 1 .. Len(arrived) + 1} /\ Arrived = {arrived[i] : i \in 1 .. Len(arrived)}
  BY <1>2 DEF Arrived
<1>4. 1 .. Len(arrived) + 1 = (1 .. Len(arrived)) \cup {Len(arrived) + 1}
  BY <1>2
<1>. QED  BY <1>2, <1>3, <1>4

\* It has one copy.
LEMMA ArrivalKeepsCopies ==
  ASSUME Types, OneCopy, NEW item \in Items, item.op \notin Arrived,
         queue' = Append(queue, item), arrived' = Append(arrived, item.op), UNCHANGED <<batch, sleeping, settled>>
  PROVE  OneCopy'
<1>. DEFINE last == Len(line) + 1
<1>1. /\ \A i \in Places : line'[i] = line[i] /\ line[i] \in Items
      /\ line'[last] = item /\ Places' = Places \cup {last} /\ last \notin Places
  BY LineGrows, LineTypes
<1>2. item.op \in Ops /\ Arrived' = Arrived \cup {item.op}
  BY ArrivedGrows DEF Items
<1>3. settled[item.op] = "no" /\ ~Travels(item.op)
  BY <1>2 DEF OneCopy, Types
<1>. HIDE DEF last
<1>4. \A n \in Ops : Travels(n)' <=> Travels(n) \/ n = item.op
  BY <1>1 DEF Travels
<1>5. \A i, j \in Places' : line'[i].op = line'[j].op => i = j
  BY <1>1, <1>3 DEF OneCopy, Travels
<1>6. \A i \in Places', s \in sleeping : line'[i].op # s.op
  BY <1>1, <1>3 DEF OneCopy, Travels
<1>. QED  BY <1>2, <1>3, <1>4, <1>5, <1>6 DEF OneCopy

\* Its item counts no attempt.
LEMMA ArrivalKeepsCount ==
  ASSUME Types, Counted, NEW item \in Items, item.op \notin Arrived, item.retry = 0,
         queue' = Append(queue, item), arrived' = Append(arrived, item.op),
         UNCHANGED <<batch, sleeping, settled, attempts>>
  PROVE  Counted'
<1>. DEFINE last == Len(line) + 1
<1>1. /\ \A i \in Places : line'[i] = line[i]
      /\ line'[last] = item /\ Places' = Places \cup {last}
  BY LineGrows
<1>2. item.op \in Ops /\ Arrived' = Arrived \cup {item.op}
  BY ArrivedGrows DEF Items
<1>3. attempts[item.op] = 0
  BY <1>2 DEF Counted
<1>. HIDE DEF last
<1>4. \A i \in Places' : attempts[line'[i].op] = line'[i].retry
  BY <1>1, <1>3 DEF Counted
<1>. QED  BY <1>2, <1>4 DEF Counted

\* It is the last of those to be tried for the first time.
LEMMA ArrivalKeepsOrder ==
  ASSUME Types, InOrder, NEW item \in Items, item.retry = 0,
         queue' = Append(queue, item), arrived' = Append(arrived, item.op), UNCHANGED <<batch, tried>>
  PROVE  InOrder'
<1>. PICK last, next : last = Len(line) + 1 /\ next = Len(arrived) + 1
  OBVIOUS
<1>1. /\ \A j \in Places : line'[j] = line[j] /\ j < last
      /\ line'[last] = item /\ Places' = Places \cup {last} /\ last \notin Places
  BY LineGrows, LineTypes DEF Places
<1>2. /\ Len(arrived) \in Nat /\ Len(arrived') = next /\ arrived'[next] = item.op
      /\ \A i \in 1 .. Len(arrived) : arrived'[i] = arrived[i]
  BY ArrivedGrows DEF Items
<1>3. Len(tried) \in Nat
  BY LenProperties DEF Types
<1>4. Untried' = Untried \cup {next} /\ \A i \in Untried : i < next /\ arrived'[i] = arrived[i]
  BY <1>2, <1>3 DEF Untried, InOrder
<1>5. Len(tried) <= Len(arrived') /\ \A i \in 1 .. Len(tried) : tried[i] = arrived'[i]
  BY <1>2, <1>3 DEF InOrder
<1>6. /\ \A j \in Places, i \in Untried : First(j, i)' <=> First(j, i)
      /\ First(last, next)'
  BY <1>1, <1>2, <1>4 DEF First
<1>7. \A i \in Untried' : \E j \in Places' : First(j, i)'
  BY <1>1, <1>4, <1>6 DEF InOrder
<1>8. ASSUME NEW j \in Places', line'[j].retry = 0
      PROVE  \E i \in Untried' : /\ First(j, i)'
                                 /\ \A h \in Untried' : h < i => \E g \in Places' : g < j /\ First(g, h)'
  <2>1. CASE j = last
    <3>1. \A h \in Untried' : h < next => h \in Untried
      BY <1>2, <1>4
    <3>2. \A h \in Untried : \E g \in Places' : g < last /\ First(g, h)'
      BY <1>1, <1>6 DEF InOrder
    <3>. QED  BY <1>4, <1>6, <2>1, <3>1, <3>2
  <2>2. CASE j \in Places
    <3>1. PICK i \in Untried : First(j, i) /\ \A h \in Untried : h < i => \E g \in Places : g < j /\ First(g, h)
      BY <1>1, <1>8, <2>2 DEF InOrder
    <3>2. i < next /\ i \in Int
      BY <1>4 DEF Untried
    <3>3. \A h \in Untried' : h < i => h \in Untried
      BY <1>2, <1>4, <3>2
    <3>. QED  BY <1>1, <1>4, <1>6, <2>2, <3>1, <3>3
  <2>. QED  BY <1>1, <2>1, <2>2
<1>. QED  BY <1>5, <1>7, <1>8 DEF InOrder

-----------------------------------------------------------------------------
(* The worker tries an item                                                  *)

\* Arithmetic of the retries.
LEMMA Retries ==
  \A r, m \in Nat : r <= m =>
    /\ r + 1 <= m + 1 /\ r + 1 > 0 /\ r + 1 \in Nat
    /\ (r >= m => r = m) /\ (~(r >= m) => r < m) /\ (r < m => r + 1 \in 0 .. m)
OBVIOUS

\* What becomes of the item: it is stored, sleeps or is given up.
LEMMA Tried ==
  ASSUME Types, ProcessItem
  PROVE  \E item \in Items :
           /\ batch # <<>> /\ item = Head(batch) /\ item = line[1]
           /\ batch' = Tail(batch) /\ UNCHANGED queue
           /\ item.op \in Ops /\ item.retry \in Nat /\ item.retry <= MaxRetry
           /\ attempts' = [attempts EXCEPT ![item.op] = @ + 1]
           /\ tried' = IF item.retry = 0 THEN Append(tried, item.op) ELSE tried
           /\ \/ settled' = [settled EXCEPT ![item.op] = "stored"] /\ UNCHANGED sleeping
              \/ /\ item.retry = MaxRetry
                 /\ settled' = [settled EXCEPT ![item.op] = "given up"] /\ UNCHANGED sleeping
              \/ /\ item.retry < MaxRetry /\ UNCHANGED settled
                 /\ sleeping' = sleeping \cup {Item(item.op, item.key, item.retry + 1)}
<1>. DEFINE item == Head(batch)
<1>1. /\ batch # <<>> /\ batch' = Tail(batch) /\ UNCHANGED queue
      /\ attempts' = [attempts EXCEPT ![item.op] = @ + 1]
      /\ tried' = IF item.retry = 0 THEN Append(tried, item.op) ELSE tried
      /\ \/ settled' = [settled EXCEPT ![item.op] = "stored"] /\ UNCHANGED sleeping
         \/ AfterFailure(item)
  BY DEF ProcessItem, Types
<1>2. item \in Items /\ item = line[1]
  BY <1>1, LineShrinks
<1>. HIDE DEF item
<1>3. item.op \in Ops /\ item.retry \in Nat /\ item.retry <= MaxRetry
  BY <1>2, WriteBehindAssumption DEF Items
<1>4. AfterFailure(item) =>
        \/ /\ item.retry = MaxRetry
           /\ settled' = [settled EXCEPT ![item.op] = "given up"] /\ UNCHANGED sleeping
        \/ /\ item.retry < MaxRetry /\ UNCHANGED settled
           /\ sleeping' = sleeping \cup {Item(item.op, item.key, item.retry + 1)}
  <2>1. MaxRetry \in Nat
    BY WriteBehindAssumption
  <2>2. (item.retry >= MaxRetry => item.retry = MaxRetry) /\ (~(item.retry >= MaxRetry) => item.retry < MaxRetry)
    BY <1>3, <2>1, Retries
  <2>. QED  BY <2>2, Zenon DEF AfterFailure, GiveUp
<1>5. item = Head(batch)
  BY DEF item
<1>. QED  BY <1>1, <1>2, <1>3, <1>4, <1>5

\* The line without its first item.
LEMMA LineAfter ==
  ASSUME Types, batch # <<>>, batch' = Tail(batch), UNCHANGED queue
  PROVE  \A i \in Places' : i + 1 \in Places /\ i + 1 # 1 /\ line'[i] = line[i + 1] /\ line'[i] \in Items
<1>1. \A i \in Places' : i + 1 # 1
  BY DEF Places
<1>. QED  BY <1>1, LineShrinks, LineTypes

\* The copy that was tried is gone, or sleeps.
LEMMA TryKeepsCopies ==
  ASSUME Types, OneCopy, ProcessItem
  PROVE  OneCopy'
<1>item. PICK item \in Items :
       /\ batch # <<>> /\ item = line[1]
       /\ batch' = Tail(batch) /\ UNCHANGED queue
       /\ item.op \in Ops
       /\ \/ settled' = [settled EXCEPT ![item.op] = "stored"] /\ UNCHANGED sleeping
          \/ settled' = [settled EXCEPT ![item.op] = "given up"] /\ UNCHANGED sleeping
          \/ /\ UNCHANGED settled
             /\ sleeping' = sleeping \cup {Item(item.op, item.key, item.retry + 1)}
  BY Tried
<1>0. Arrived' = Arrived
  BY DEF ProcessItem, Arrived
<1>1. 1 \in Places /\ \A i \in Places \ {1} : i - 1 \in Places' /\ line'[i - 1] = line[i]
  BY <1>item, LineShrinks
<1>2. \A i \in Places' : i + 1 \in Places /\ i + 1 # 1 /\ line'[i] = line[i + 1]
  BY <1>item, LineAfter
<1>3. \A i, j \in Places' : line'[i].op = line'[j].op => i = j
  <2>. SUFFICES ASSUME NEW i \in Places', NEW j \in Places', line'[i].op = line'[j].op PROVE i = j
    OBVIOUS
  <2>1. i + 1 = j + 1
    BY <1>2 DEF OneCopy
  <2>. QED  BY <2>1 DEF Places
<1>4. \A i \in Places' : line'[i].op # item.op
  <2>. SUFFICES ASSUME NEW i \in Places' PROVE line'[i].op # item.op
    OBVIOUS
  <2>1. i + 1 \in Places /\ i + 1 # 1 /\ line'[i].op = line[i + 1].op
    BY <1>2
  <2>2. line[i + 1].op # line[1].op
    BY <1>1, <2>1 DEF OneCopy
  <2>. QED  BY <1>item, <2>1, <2>2
<1>5. \A n \in Ops : (\E i \in Places' : line'[i].op = n) <=> (\E i \in Places : line[i].op = n) /\ n # item.op
  <2>1. ASSUME NEW n \in Ops, NEW i \in Places', line'[i].op = n PROVE (\E j \in Places : line[j].op = n) /\ n # item.op
    BY <1>2, <1>4, <2>1
  <2>2. ASSUME NEW n \in Ops, n # item.op, NEW i \in Places, line[i].op = n PROVE \E j \in Places' : line'[j].op = n
    <3>1. i # 1
      BY <1>item, <2>2
    <3>. QED  BY <1>1, <2>2, <3>1
  <2>. QED  BY <2>1, <2>2
<1>6. \A s \in sleeping : s.op # item.op
  BY <1>item, <1>1 DEF OneCopy
<1>7. item.op \in Arrived /\ settled[item.op] = "no"
  BY <1>item, <1>1 DEF OneCopy, Travels
<1>8. CASE settled' = [settled EXCEPT ![item.op] = "stored"] /\ UNCHANGED sleeping
  <2>1. \A n \in Ops : Travels(n)' <=> Travels(n) /\ n # item.op
    BY <1>5, <1>6, <1>8 DEF Travels
  <2>2. \A n \in Ops : settled'[n] = IF n = item.op THEN "stored" ELSE settled[n]
    BY <1>item, <1>8 DEF Types
  <2>3. \A i \in Places', s \in sleeping' : line'[i].op # s.op
    <3>1. \A i \in Places', s \in sleeping : line'[i].op # s.op
      BY <1>2 DEF OneCopy
    <3>. QED  BY <1>8, <3>1
  <2>4. \A n \in Ops : Travels(n)' <=> n \in Arrived /\ settled'[n] = "no"
    BY <2>1, <2>2 DEF OneCopy
  <2>5. \A n \in Ops : settled'[n] # "no" => n \in Arrived
    BY <1>7, <2>2 DEF OneCopy
  <2>. QED  BY <1>0, <1>3, <1>8, <2>3, <2>4, <2>5 DEF OneCopy
<1>9. CASE settled' = [settled EXCEPT ![item.op] = "given up"] /\ UNCHANGED sleeping
  <2>1. \A n \in Ops : Travels(n)' <=> Travels(n) /\ n # item.op
    BY <1>5, <1>6, <1>9 DEF Travels
  <2>2. \A n \in Ops : settled'[n] = IF n = item.op THEN "given up" ELSE settled[n]
    BY <1>item, <1>9 DEF Types
  <2>3. \A i \in Places', s \in sleeping' : line'[i].op # s.op
    <3>1. \A i \in Places', s \in sleeping : line'[i].op # s.op
      BY <1>2 DEF OneCopy
    <3>. QED  BY <1>9, <3>1
  <2>4. \A n \in Ops : Travels(n)' <=> n \in Arrived /\ settled'[n] = "no"
    BY <2>1, <2>2 DEF OneCopy
  <2>5. \A n \in Ops : settled'[n] # "no" => n \in Arrived
    BY <1>7, <2>2 DEF OneCopy
  <2>. QED  BY <1>0, <1>3, <1>9, <2>3, <2>4, <2>5 DEF OneCopy
<1>10. CASE UNCHANGED settled /\ sleeping' = sleeping \cup {Item(item.op, item.key, item.retry + 1)}
  <2>. PICK again : again = Item(item.op, item.key, item.retry + 1)
    OBVIOUS
  <2>1. again.op = item.op /\ sleeping' = sleeping \cup {again}
    BY <1>10 DEF Item
  <2>2. \A n \in Ops : Travels(n)' <=> Travels(n)
    BY <1>item, <1>1, <1>5, <1>6, <2>1 DEF Travels
  <2>3. \A i \in Places', s \in sleeping' : line'[i].op # s.op
    BY <1>2, <1>4, <2>1 DEF OneCopy
  <2>4. \A s, u \in sleeping' : s.op = u.op => s = u
    BY <1>6, <2>1 DEF OneCopy
  <2>. QED  BY <1>0, <1>3, <1>10, <2>2, <2>3, <2>4 DEF OneCopy
<1>. QED  BY <1>item, <1>8, <1>9, <1>10

\* The attempt is counted.
LEMMA TryKeepsCount ==
  ASSUME Types, OneCopy, Counted, ProcessItem
  PROVE  Counted'
<1>item. PICK item \in Items :
       /\ batch # <<>> /\ item = line[1]
       /\ batch' = Tail(batch) /\ UNCHANGED queue
       /\ item.op \in Ops /\ item.retry \in Nat /\ item.retry <= MaxRetry
       /\ attempts' = [attempts EXCEPT ![item.op] = @ + 1]
       /\ \/ settled' = [settled EXCEPT ![item.op] = "stored"] /\ UNCHANGED sleeping
          \/ /\ item.retry = MaxRetry
             /\ settled' = [settled EXCEPT ![item.op] = "given up"] /\ UNCHANGED sleeping
          \/ /\ item.retry < MaxRetry /\ UNCHANGED settled
             /\ sleeping' = sleeping \cup {Item(item.op, item.key, item.retry + 1)}
  BY Tried
<1>0. Arrived' = Arrived
  BY DEF ProcessItem, Arrived
<1>1. 1 \in Places
  BY <1>item, LineShrinks
<1>2. \A i \in Places' : i + 1 \in Places /\ i + 1 # 1 /\ line'[i] = line[i + 1] /\ line'[i] \in Items
  BY <1>item, LineAfter
<1>3. attempts[item.op] = item.retry
  BY <1>item, <1>1 DEF Counted
<1>4. attempts'[item.op] = item.retry + 1 /\ \A n \in Ops \ {item.op} : attempts'[n] = attempts[n]
  BY <1>item, <1>3 DEF Types
<1>5. item.op \in Arrived
  BY <1>item, <1>1 DEF OneCopy, Travels
<1>6. \A i \in Places' : attempts'[line'[i].op] = line'[i].retry
  <2>. SUFFICES ASSUME NEW i \in Places' PROVE attempts'[line'[i].op] = line'[i].retry
    OBVIOUS
  <2>1. line'[i].op # item.op /\ line'[i].op \in Ops
    <3>1. i + 1 \in Places /\ i + 1 # 1 /\ line'[i].op = line[i + 1].op /\ line'[i] \in Items
      BY <1>2
    <3>2. line[i + 1].op # line[1].op
      BY <1>1, <3>1 DEF OneCopy
    <3>. QED  BY <1>item, <3>1, <3>2 DEF Items
  <2>2. attempts[line'[i].op] = line'[i].retry
    BY <1>2 DEF Counted
  <2>. QED  BY <1>4, <2>1, <2>2
<1>7. \A s \in sleeping : attempts'[s.op] = s.retry /\ s.retry > 0
  <2>1. \A s \in sleeping : s.op # item.op /\ s.op \in Ops
    BY <1>item, <1>1 DEF OneCopy, Types, Items
  <2>. QED  BY <1>4, <2>1 DEF Counted
<1>8. \A n \in Ops : n \notin Arrived' => attempts'[n] = 0
  BY <1>0, <1>4, <1>5 DEF Counted
<1>9. CASE UNCHANGED sleeping
  <2>1. \A n \in Ops \ {item.op} : settled'[n] = settled[n]
    BY <1>item, <1>9 DEF Types
  <2>2. item.retry + 1 <= MaxRetry + 1
    BY <1>item, WriteBehindAssumption, Retries
  <2>3. settled'[item.op] = "given up" => item.retry + 1 = MaxRetry + 1
    BY <1>item, <1>1, <1>9 DEF OneCopy, Travels, Types
  <2>4. \A n \in Ops : settled'[n] = "stored" => attempts'[n] <= MaxRetry + 1
    BY <1>4, <2>1, <2>2 DEF Counted
  <2>5. \A n \in Ops : settled'[n] = "given up" => attempts'[n] = MaxRetry + 1
    BY <1>4, <2>1, <2>3 DEF Counted
  <2>. QED  BY <1>6, <1>7, <1>8, <1>9, <2>4, <2>5 DEF Counted
<1>10. CASE UNCHANGED settled /\ sleeping' = sleeping \cup {Item(item.op, item.key, item.retry + 1)}
  <2>. PICK again : again = Item(item.op, item.key, item.retry + 1)
    OBVIOUS
  <2>1. again.op = item.op /\ again.retry = item.retry + 1 /\ sleeping' = sleeping \cup {again}
    BY <1>10 DEF Item
  <2>2. \A s \in sleeping' : attempts'[s.op] = s.retry /\ s.retry > 0
    <3>1. attempts'[again.op] = again.retry /\ again.retry > 0
      <4>1. item.retry + 1 > 0
        BY <1>item, WriteBehindAssumption, Retries
      <4>. QED  BY <1>4, <2>1, <4>1, Zenon
    <3>. QED  BY <1>7, <2>1, <3>1
  <2>3. settled'[item.op] = "no"
    BY <1>item, <1>1, <1>10 DEF OneCopy, Travels
  <2>4. \A n \in Ops : settled'[n] = "stored" => attempts'[n] <= MaxRetry + 1
    BY <1>4, <1>10, <2>3 DEF Counted
  <2>5. \A n \in Ops : settled'[n] = "given up" => attempts'[n] = MaxRetry + 1
    BY <1>4, <1>10, <2>3 DEF Counted
  <2>. QED  BY <1>6, <1>8, <2>2, <2>4, <2>5 DEF Counted
<1>. QED  BY <1>item, <1>9, <1>10

\* A first attempt goes to the oldest untried arrival, and a retry to none of them.
LEMMA TryServesOldest ==
  ASSUME Types, Numbered, OneCopy, InOrder, ProcessItem
  PROVE  /\ Untried' \subseteq Untried
         /\ \A i \in Untried' : ~First(1, i)
         /\ \A j \in Places \ {1}, i \in Untried : First(j, i) => i \in Untried'
         /\ Len(tried') <= Len(arrived) /\ \A i \in 1 .. Len(tried') : tried'[i] = arrived[i]
<1>item. PICK item \in Items :
       /\ batch # <<>> /\ item = line[1]
       /\ batch' = Tail(batch) /\ UNCHANGED queue
       /\ item.op \in Ops
       /\ tried' = IF item.retry = 0 THEN Append(tried, item.op) ELSE tried
  BY Tried
<1>0. /\ UNCHANGED arrived /\ arrived \in Seq(Ops) /\ tried \in Seq(Ops)
      /\ Len(arrived) \in Nat /\ Len(tried) \in Nat
  BY LenProperties DEF ProcessItem, Types
<1>1. 1 \in Places
  BY <1>item, LineShrinks
<1>2. \A i \in Places : i \in Int /\ i >= 1
  BY DEF Places
<1>3. \A i \in Untried : i \in 1 .. Len(arrived) /\ i \in Int
  BY DEF Untried
<1>4. CASE item.retry # 0
  <2>1. UNCHANGED tried /\ Untried' = Untried
    BY <1>item, <1>0, <1>4 DEF Untried
  <2>2. \A i \in Untried : ~First(1, i)
    BY <1>item, <1>4 DEF First
  <2>. QED  BY <2>1, <2>2 DEF InOrder
<1>5. CASE item.retry = 0
  <2>. PICK next : next = Len(tried) + 1
    OBVIOUS
  <2>1. PICK i \in Untried :
          First(1, i) /\ \A h \in Untried : h < i => \E g \in Places : g < 1 /\ First(g, h)
    BY <1>item, <1>1, <1>5 DEF InOrder
  <2>2. \A h \in Untried : ~(h < i)
    BY <1>2, <2>1
  <2>3. i = next
    BY <1>0, <2>2 DEF Untried
  <2>4. arrived[next] = item.op /\ next \in 1 .. Len(arrived)
    BY <1>item, <1>3, <2>1, <2>3 DEF First
  <2>5. /\ Len(tried') = next /\ tried'[next] = item.op
        /\ \A h \in 1 .. Len(tried) : tried'[h] = tried[h]
    BY <1>item, <1>0, <1>5, AppendProperties
  <2>6. Len(tried') <= Len(arrived) /\ \A h \in 1 .. Len(tried') : tried'[h] = arrived[h]
    <3>1. \A h \in 1 .. next : h = next \/ h \in 1 .. Len(tried)
      BY <1>0
    <3>. QED  BY <1>0, <2>4, <2>5, <3>1 DEF InOrder
  <2>7. Untried' = Untried \ {next}
    BY <1>0, <2>4, <2>5 DEF Untried
  <2>8. \A h \in Untried' : ~First(1, h)
    <3>1. \A h \in Untried' : h \in 1 .. Len(arrived) /\ h # next
      BY <1>3, <2>7
    <3>2. \A h \in Untried' : arrived[h] # item.op
      BY <2>4, <3>1 DEF Numbered
    <3>. QED  BY <1>item, <3>2 DEF First
  <2>9. \A j \in Places \ {1} : ~First(j, next)
    <3>1. \A j \in Places \ {1} : line[j].op # line[1].op
      BY <1>1 DEF OneCopy
    <3>. QED  BY <1>item, <2>4, <3>1 DEF First
  <2>. QED  BY <2>6, <2>7, <2>8, <2>9
<1>. QED  BY <1>4, <1>5

\* What is left in the line keeps its order.
LEMMA TryKeepsOrder ==
  ASSUME Types, Numbered, OneCopy, InOrder, ProcessItem
  PROVE  InOrder'
<1>item. PICK item \in Items :
       /\ batch # <<>> /\ item = line[1]
       /\ batch' = Tail(batch) /\ UNCHANGED queue
  BY Tried
<1>0. /\ UNCHANGED arrived /\ arrived \in Seq(Ops) /\ tried \in Seq(Ops)
      /\ Len(arrived) \in Nat /\ Len(tried) \in Nat
  BY LenProperties DEF ProcessItem, Types
<1>1. 1 \in Places /\ \A i \in Places \ {1} : i - 1 \in Places' /\ line'[i - 1] = line[i]
  BY <1>item, LineShrinks
<1>2. \A i \in Places' : i + 1 \in Places /\ i + 1 # 1 /\ line'[i] = line[i + 1] /\ i \in Int
  BY <1>item, LineAfter DEF Places
<1>3. \A i \in Places : i \in Int /\ i >= 1
  BY DEF Places
<1>4. /\ \A j \in Places', i \in 1 .. Len(arrived) : First(j, i)' <=> First(j + 1, i)
      /\ \A j \in Places \ {1}, i \in 1 .. Len(arrived) : First(j - 1, i)' <=> First(j, i)
  BY <1>0, <1>1, <1>2 DEF First
<1>5. \A i \in Untried : i \in 1 .. Len(arrived) /\ i \in Int
  BY DEF Untried
<1>6. /\ Untried' \subseteq Untried
      /\ \A i \in Untried' : ~First(1, i)
      /\ \A j \in Places \ {1}, i \in Untried : First(j, i) => i \in Untried'
      /\ Len(tried') <= Len(arrived) /\ \A i \in 1 .. Len(tried') : tried'[i] = arrived[i]
  BY TryServesOldest
<1>7. ASSUME NEW i \in Untried' PROVE \E j \in Places' : First(j, i)'
  <2>1. PICK j \in Places : First(j, i)
    BY <1>6 DEF InOrder
  <2>2. j \in Places \ {1} /\ i \in 1 .. Len(arrived)
    BY <1>5, <1>6, <2>1
  <2>3. j - 1 \in Places' /\ (First(j - 1, i)' <=> First(j, i))
    BY <1>1, <1>4, <2>2
  <2>. QED  BY <2>1, <2>3
<1>8. ASSUME NEW j \in Places', line'[j].retry = 0
      PROVE  \E i \in Untried' : /\ First(j, i)'
                                 /\ \A h \in Untried' : h < i => \E g \in Places' : g < j /\ First(g, h)'
  <2>1. j + 1 \in Places \ {1} /\ line[j + 1].retry = 0 /\ j \in Int
    BY <1>2, <1>8
  <2>2. PICK i \in Untried : /\ First(j + 1, i)
                             /\ \A h \in Untried : h < i => \E g \in Places : g < j + 1 /\ First(g, h)
    BY <2>1 DEF InOrder
  <2>3. i \in Untried' /\ First(j, i)'
    BY <1>4, <1>5, <1>6, <2>1, <2>2
  <2>4. ASSUME NEW h \in Untried', h < i PROVE \E g \in Places' : g < j /\ First(g, h)'
    <3>1. PICK g \in Places : g < j + 1 /\ First(g, h)
      BY <1>6, <2>2, <2>4
    <3>2. g \in Places \ {1} /\ g \in Int /\ h \in 1 .. Len(arrived)
      BY <1>3, <1>5, <1>6, <3>1
    <3>3. g - 1 \in Places' /\ (First(g - 1, h)' <=> First(g, h)) /\ g - 1 < j
      BY <1>1, <1>4, <2>1, <3>1, <3>2
    <3>. QED  BY <3>1, <3>3
  <2>. QED  BY <2>3, <2>4
<1>9. Len(tried)' <= Len(arrived)' /\ \A i \in 1 .. Len(tried') : tried'[i] = arrived'[i]
  BY <1>0, <1>6
<1>. QED  BY <1>7, <1>8, <1>9 DEF InOrder

-----------------------------------------------------------------------------
(* A retry joins the queue, and the steps the line does not notice           *)

\* A copy that wakes up moves to the end of the line.
LEMMA ResendKeepsLine ==
  ASSUME Types, OneCopy, Counted, InOrder, Resend
  PROVE  OneCopy' /\ Counted' /\ InOrder'
<1>item. PICK item \in sleeping : /\ queue' = Append(queue, item) /\ sleeping' = sleeping \ {item}
                              /\ UNCHANGED <<batch, arrived, tried, attempts, settled>>
  BY DEF Resend, trackVars
<1>. PICK last : last = Len(line) + 1
  OBVIOUS
<1>0. item \in Items /\ Arrived' = Arrived /\ Untried' = Untried
  BY <1>item DEF Types, Arrived, Untried
<1>1. /\ \A j \in Places : line'[j] = line[j]
      /\ line'[last] = item /\ Places' = Places \cup {last} /\ last \notin Places
  BY <1>item, <1>0, LineGrows
<1>2. \A i \in Places : line[i].op # item.op
  BY DEF OneCopy
<1>3. \A n \in Ops : Travels(n)' <=> Travels(n)
  <2>1. \A n \in Ops : (\E i \in Places' : line'[i].op = n) <=> (\E i \in Places : line[i].op = n) \/ n = item.op
    BY <1>1
  <2>2. \A n \in Ops : (\E s \in sleeping : s.op = n) <=> (\E s \in sleeping' : s.op = n) \/ n = item.op
    BY <1>item
  <2>. QED  BY <2>1, <2>2 DEF Travels
<1>4. OneCopy'
  <2>1. \A i, j \in Places' : line'[i].op = line'[j].op => i = j
    BY <1>1, <1>2 DEF OneCopy
  <2>2. \A i \in Places', s \in sleeping' : line'[i].op # s.op
    BY <1>item, <1>1 DEF OneCopy
  <2>. QED  BY <1>item, <1>0, <1>3, <2>1, <2>2 DEF OneCopy
<1>5. Counted'
  <2>1. \A i \in Places' : attempts[line'[i].op] = line'[i].retry
    BY <1>item, <1>1 DEF Counted
  <2>. QED  BY <1>item, <1>0, <2>1 DEF Counted
<1>6. InOrder'
  <2>1. item.retry # 0
    <3>1. item.retry > 0
      BY DEF Counted
    <3>2. item.retry \in 0 .. MaxRetry
      BY <1>0 DEF Items
    <3>. QED  BY <3>1, <3>2
  <2>2. \A j \in Places, i \in Untried : First(j, i)' <=> First(j, i)
    BY <1>item, <1>1 DEF First
  <2>3. \A i \in Untried : \E j \in Places' : First(j, i)'
    BY <1>1, <2>2 DEF InOrder
  <2>4. \A j \in Places' : line'[j].retry = 0 =>
          \E i \in Untried : First(j, i)' /\ \A h \in Untried : h < i => \E g \in Places' : g < j /\ First(g, h)'
    <3>. SUFFICES ASSUME NEW j \in Places', line'[j].retry = 0
                  PROVE  \E i \in Untried :
                           First(j, i)' /\ \A h \in Untried : h < i => \E g \in Places' : g < j /\ First(g, h)'
      OBVIOUS
    <3>1. j \in Places /\ line[j].retry = 0
      BY <1>1, <2>1
    <3>2. PICK i \in Untried : First(j, i) /\ \A h \in Untried : h < i => \E g \in Places : g < j /\ First(g, h)
      BY <3>1 DEF InOrder
    <3>. QED  BY <1>1, <2>2, <3>1, <3>2
  <2>. QED  BY <1>item, <1>0, <2>3, <2>4 DEF InOrder
<1>. QED  BY <1>4, <1>5, <1>6

\* What does not touch the line, the sleepers and the history keeps all three.
LEMMA LineStays ==
  ASSUME OneCopy, Counted, InOrder, UNCHANGED <<line, sleeping, arrived, tried, attempts, settled>>
  PROVE  OneCopy' /\ Counted' /\ InOrder'
<1>1. Arrived' = Arrived /\ Untried' = Untried /\ Places' = Places
  BY DEF Arrived, Untried, Places
<1>2. \A n : Travels(n)' <=> Travels(n)
  BY <1>1 DEF Travels
<1>3. \A i, j : First(j, i)' <=> First(j, i)
  BY DEF First
<1>4. OneCopy'
  BY <1>1, <1>2 DEF OneCopy
<1>5. Counted'
  BY <1>1 DEF Counted
<1>6. InOrder'
  BY <1>1, <1>3 DEF InOrder
<1>. QED  BY <1>4, <1>5, <1>6

-----------------------------------------------------------------------------
(* Types, numbers, and the drain of Close                                    *)

\* The invariant holds before the first operation.
LEMMA WInit == Init => WInv
<1>. SUFFICES ASSUME Init PROVE WInv
  OBVIOUS
<1>1. line = <<>> /\ Len(line) = 0 /\ Places = {}
  <2>1. batch = <<>> /\ queue = <<>>
    BY DEF Init
  <2>2. line = <<>>
    BY <2>1, ConcatEmptySeq, EmptySeq DEF line
  <2>. QED  BY <2>2 DEF Places
<1>2. arrived = <<>> /\ Len(arrived) = 0 /\ Arrived = {} /\ Untried = {} /\ tried = <<>> /\ Len(tried) = 0
  BY DEF Init, Arrived, Untried
<1>3. Types
  <2>1. 0 \in 0 .. MaxOps /\ NoReq \in Requests
    BY WriteBehindAssumption DEF NoReq, Requests
  <2>. QED  BY <2>1, EmptySeq DEF Init, Types
<1>4. Numbered
  BY <1>2 DEF Init, Numbered
<1>5. OneCopy
  BY <1>1, <1>2 DEF Init, OneCopy, Travels
<1>6. Counted
  BY <1>1 DEF Init, Counted
<1>7. InOrder
  BY <1>1, <1>2 DEF InOrder
<1>8. Draining
  BY <1>2 DEF Init, Draining
<1>. QED  BY <1>3, <1>4, <1>5, <1>6, <1>7, <1>8 DEF WInv

\* A client's step keeps the types and the numbers.
LEMMA ClientKeeps ==
  ASSUME Types, Numbered, NEW c \in Clients,
         Client(c) \/ \E k \in Keys : SetLocal(c, k) \/ DeleteLocal(c, k)
  PROVE  Types' /\ Numbered'
<1>1. CASE Enqueue(c)
  <2>1. /\ req[c].op \in Ops /\ req[c].key \in Keys /\ req[c].op \in 1 .. ops /\ req[c].op \notin Arrived
        /\ Item(req[c].op, req[c].key, 0) \in Items
    <3>1. req[c].op \in 1 .. ops /\ req[c].key \in Keys /\ req[c].op \notin Arrived
      BY <1>1 DEF Enqueue, Numbered
    <3>2. req[c].op \in Ops
      <4>1. ops \in 0 .. MaxOps /\ MaxOps \in Nat
        BY WriteBehindAssumption DEF Types
      <4>. QED  BY <3>1, <4>1 DEF Ops
    <3>3. 0 \in 0 .. MaxRetry
      BY WriteBehindAssumption
    <3>. QED  BY <3>1, <3>2, <3>3 DEF Item, Items
  <2>2. /\ queue' \in Seq(Items) /\ arrived' \in Seq(Ops) /\ Len(arrived') = Len(arrived) + 1 /\ Len(arrived) \in Nat
        /\ \A i \in 1 .. Len(arrived) : arrived'[i] = arrived[i]
        /\ arrived'[Len(arrived) + 1] = req[c].op /\ Arrived' = Arrived \cup {req[c].op}
    BY <1>1, <2>1, ArrivedGrows, AppendProperties DEF Enqueue, Types
  <2>3. /\ pc' = [pc EXCEPT ![c] = "idle"]
        /\ UNCHANGED <<batch, worker, sleeping, stopping, req, ops, tried, attempts, settled, dueAtStop>>
    BY <1>1 DEF Enqueue, Goto
  <2>4. Types'
    BY <2>2, <2>3 DEF Types
  <2>5. \A i \in 1 .. Len(arrived) : arrived[i] # req[c].op
    BY <2>1 , LenProperties DEF Arrived, Types
  <2>6. \A i, j \in 1 .. Len(arrived') : arrived'[i] = arrived'[j] => i = j
    <3>1. \A i \in 1 .. Len(arrived') : i \in 1 .. Len(arrived) \/ i = Len(arrived) + 1
      BY <2>2
    <3>. QED  BY <2>2, <2>5, <3>1 DEF Numbered
  <2>7. \A d \in Clients : pc'[d] # "idle" => d # c /\ pc[d] = pc'[d]
    BY <2>3 DEF Types
  <2>8. \A d \in Clients : pc'[d] = "enqueue" => req[d].op \notin Arrived'
    BY <1>1, <2>2, <2>7 DEF Numbered, Enqueue
  <2>9. \A d \in Clients : pc'[d] # "idle" => req'[d].op \in 1 .. ops' /\ req'[d].key \in Keys
    BY <2>3, <2>7 DEF Numbered
  <2>10. \A d, e \in Clients : pc'[d] = "enqueue" /\ pc'[e] = "enqueue" /\ req'[d].op = req'[e].op => d = e
    BY <2>3, <2>7 DEF Numbered
  <2>11. Arrived' \subseteq 1 .. ops'
    <3>1. Arrived \subseteq 1 .. ops
      BY DEF Numbered
    <3>. QED  BY <2>1, <2>2, <2>3, <3>1
  <2>. QED  BY <2>3, <2>4, <2>6, <2>8, <2>9, <2>10, <2>11 DEF Numbered
<1>2. CASE QueueFull(c) \/ WriteThrough(c) \/ DeleteBackend(c)
  <2>1. /\ pc' \in [Clients -> {"idle", "enqueue", "writeThrough", "delete"}]
        /\ pc[c] # "idle" /\ pc'[c] # "enqueue" /\ \A d \in Clients \ {c} : pc'[d] = pc[d]
        /\ UNCHANGED <<queueVars, req, ops, trackVars, dueAtStop>>
    BY <1>2 DEF QueueFull, WriteThrough, DeleteBackend, Goto, Types
  <2>2. Types'
    BY <2>1 DEF Types, queueVars, trackVars
  <2>3. Numbered'
    BY <2>1 DEF Numbered, Arrived, trackVars
  <2>. QED  BY <2>2, <2>3
<1>3. ASSUME NEW k \in Keys, SetLocal(c, k) \/ DeleteLocal(c, k) PROVE Types' /\ Numbered'
  <2>. PICK r : r = req'[c]
    OBVIOUS
  <2>1. /\ pc[c] = "idle" /\ pc' \in [Clients -> {"idle", "enqueue", "writeThrough", "delete"}]
        /\ \A d \in Clients \ {c} : pc'[d] = pc[d] /\ req'[d] = req[d]
        /\ ops \in Nat /\ ops' = ops + 1 /\ ops' \in 0 .. MaxOps
        /\ req' \in [Clients -> Requests] /\ r.op = ops + 1 /\ r.key \in Keys
        /\ UNCHANGED <<queueVars, trackVars, dueAtStop>>
    <3>1. /\ ops \in Nat /\ ops' = ops + 1 /\ ops' \in 0 .. MaxOps /\ pc[c] = "idle"
          /\ UNCHANGED <<queueVars, trackVars, dueAtStop>>
      <4>1. /\ ops < MaxOps /\ ops' = ops + 1 /\ pc[c] = "idle"
            /\ UNCHANGED <<queueVars, trackVars, dueAtStop>>
        BY <1>3 DEF SetLocal, DeleteLocal, Start
      <4>2. ops \in 0 .. MaxOps /\ MaxOps \in Nat
        BY WriteBehindAssumption DEF Types
      <4>. QED  BY <4>1, <4>2
    <3>2. PICK kind \in {"set", "delete"} : req' = [req EXCEPT ![c] = [op |-> ops + 1, key |-> k, kind |-> kind]]
      BY <1>3 DEF SetLocal, DeleteLocal, Start
    <3>3. [op |-> ops + 1, key |-> k, kind |-> kind] \in Requests
      BY <3>1 DEF Requests
    <3>4. /\ req' \in [Clients -> Requests] /\ r.op = ops + 1 /\ r.key \in Keys
          /\ \A d \in Clients \ {c} : req'[d] = req[d]
      BY <3>2, <3>3 DEF Types
    <3>5. /\ pc' \in [Clients -> {"idle", "enqueue", "writeThrough", "delete"}]
          /\ \A d \in Clients \ {c} : pc'[d] = pc[d]
      BY <1>3 DEF SetLocal, DeleteLocal, Goto, Types
    <3>. QED  BY <3>1, <3>4, <3>5
  <2>2. Types'
    BY <2>1 DEF Types, queueVars, trackVars
  <2>3. Arrived' = Arrived /\ ops + 1 \notin Arrived /\ Arrived \subseteq 1 .. ops' /\ UNCHANGED arrived
    <3>1. Arrived' = Arrived /\ UNCHANGED arrived
      BY <2>1 DEF Arrived, trackVars
    <3>2. Arrived \subseteq 1 .. ops
      BY DEF Numbered
    <3>. QED  BY <2>1, <3>1, <3>2
  <2>4. \A d \in Clients : pc'[d] # "idle" => req'[d].op \in 1 .. ops' /\ req'[d].key \in Keys
    BY <2>1 DEF Numbered
  <2>5. \A d \in Clients \ {c} : pc'[d] = "enqueue" => req'[d].op \in 1 .. ops
    BY <2>1 DEF Numbered
  <2>6. \A d \in Clients : pc'[d] = "enqueue" => req'[d].op \notin Arrived
    BY <2>1, <2>3 DEF Numbered
  <2>7. \A d, e \in Clients : pc'[d] = "enqueue" /\ pc'[e] = "enqueue" /\ req'[d].op = req'[e].op => d = e
    BY <2>1, <2>5 DEF Numbered
  <2>. QED  BY <2>2, <2>3, <2>4, <2>6, <2>7 DEF Numbered
<1>. QED  BY <1>1, <1>2, <1>3 DEF Client

\* The worker's steps, the retries and Close keep the types and the numbers.
LEMMA WorkerKeeps ==
  ASSUME Types, Numbered, Worker \/ Resend \/ Fill \/ Close \/ UNCHANGED vars
  PROVE  Types' /\ Numbered'
<1>1. Numbered'
  <2>1. UNCHANGED <<pc, req, ops, arrived>>
    BY DEF Worker, Receive, Tick, Stop, DrainOne, DrainEnd, ProcessItem, Resend, Fill, Close,
         clientVars, trackVars, vars
  <2>. QED  BY <2>1 DEF Numbered, Arrived
<1>2. CASE Receive \/ DrainOne
  <2>1. queue' \in Seq(Items) /\ batch' \in Seq(Items)
    BY <1>2, LineMoves DEF Receive, DrainOne
  <2>2. batch' # <<>>
    <3>1. batch \in Seq(Items) /\ Head(queue) \in Items
      BY <1>2, HeadTailProperties DEF Types, Receive, DrainOne
    <3>. QED  BY <1>2, <3>1, AppendProperties DEF Receive, DrainOne
  <2>3. /\ worker' \in {"select", "flush", "drain"}
        /\ UNCHANGED <<sleeping, stopping, dueAtStop, clientVars, trackVars>>
    BY <1>2 DEF Receive, DrainOne
  <2>. QED  BY <1>1, <2>1, <2>2, <2>3 DEF Types, clientVars, trackVars
<1>3. CASE Tick \/ Stop \/ DrainEnd \/ Fill \/ Close \/ UNCHANGED vars
  <2>1. /\ UNCHANGED <<queue, batch, sleeping, clientVars, trackVars>>
        /\ worker' \in {"select", "flush", "drain", "lastFlush", "done"}
        /\ worker' \in {"flush", "lastFlush"} => batch # <<>>
        /\ stopping' \in BOOLEAN
    BY <1>3 DEF Types, Tick, Stop, DrainEnd, Fill, Close, vars, queueVars
  <2>2. dueAtStop' \in Nat
    BY <1>3, LenProperties DEF Types, Tick, Stop, DrainEnd, Fill, Close, vars
  <2>. QED  BY <1>1, <2>1, <2>2 DEF Types, clientVars, trackVars
<1>4. CASE Resend
  <2>1. PICK item \in sleeping : /\ queue' = Append(queue, item) /\ sleeping' = sleeping \ {item}
                                /\ UNCHANGED <<batch, worker, stopping, dueAtStop, clientVars, trackVars>>
    BY <1>4 DEF Resend
  <2>2. queue' \in Seq(Items)
    BY <2>1, AppendProperties DEF Types
  <2>. QED  BY <1>1, <2>1, <2>2 DEF Types, clientVars, trackVars
<1>5. CASE ProcessItem
  <2>item. PICK item \in Items :
         /\ batch # <<>> /\ batch' = Tail(batch) /\ UNCHANGED queue
         /\ item.op \in Ops /\ item.retry \in Nat /\ item.retry <= MaxRetry
         /\ attempts' = [attempts EXCEPT ![item.op] = @ + 1]
         /\ tried' = IF item.retry = 0 THEN Append(tried, item.op) ELSE tried
         /\ \/ settled' = [settled EXCEPT ![item.op] = "stored"] /\ UNCHANGED sleeping
            \/ settled' = [settled EXCEPT ![item.op] = "given up"] /\ UNCHANGED sleeping
            \/ /\ item.retry < MaxRetry /\ UNCHANGED settled
               /\ sleeping' = sleeping \cup {Item(item.op, item.key, item.retry + 1)}
    BY <1>5, Tried
  <2>1. batch' \in Seq(Items) /\ Len(batch') = Len(batch) - 1 /\ Len(batch) \in Nat
    BY <2>item, LineShrinks, LineTypes
  <2>2. tried' \in Seq(Ops) /\ attempts' \in [Ops -> Nat] /\ settled' \in [Ops -> {"no", "stored", "given up"}]
    <3>1. tried' \in Seq(Ops)
      BY <2>item, AppendProperties DEF Types
    <3>2. attempts[item.op] + 1 \in Nat /\ attempts \in [Ops -> Nat]
      <4>1. attempts \in [Ops -> Nat] /\ attempts[item.op] \in Nat
        BY <2>item DEF Types
      <4>. QED  BY <4>1
    <3>3. attempts' \in [Ops -> Nat]
      BY <2>item, <3>2
    <3>4. settled' \in [Ops -> {"no", "stored", "given up"}]
      BY <2>item DEF Types
    <3>. QED  BY <3>1, <3>3, <3>4
  <2>3. sleeping' \subseteq Items
    <3>1. item.retry < MaxRetry => item.retry + 1 \in 0 .. MaxRetry
      BY <2>item, WriteBehindAssumption, Retries
    <3>2. item.retry < MaxRetry => Item(item.op, item.key, item.retry + 1) \in Items
      BY <2>item, <3>1 DEF Item, Items
    <3>. QED  BY <2>item, <3>2 DEF Types
  <2>4. /\ worker' \in {"select", "flush", "drain", "lastFlush", "done"}
        /\ worker' \in {"flush", "lastFlush"} => Len(batch) > 1
    <3>1. worker \in {"flush", "lastFlush"} /\ (Len(batch) > 1 \/ Len(batch) = 1)
      <4>1. Len(batch) # 0
        BY <2>item, EmptySeq DEF Types
      <4>. QED  BY <1>5, <2>1, <4>1 DEF ProcessItem
    <3>. QED  BY <1>5, <3>1 DEF ProcessItem
  <2>5. worker' \in {"flush", "lastFlush"} => batch' # <<>>
    <3>1. worker' \in {"flush", "lastFlush"} => Len(batch') # 0
      <4>1. Len(batch) > 1 => Len(batch') # 0
        BY <2>1
      <4>. QED  BY <2>4, <4>1
    <3>. QED  BY <3>1, EmptySeq
  <2>6. UNCHANGED <<stopping, dueAtStop, clientVars, arrived>>
    BY <1>5 DEF ProcessItem
  <2>. QED  BY <1>1, <2>item, <2>1, <2>2, <2>3, <2>4, <2>5, <2>6 DEF Types, clientVars
<1>. QED  BY <1>1, <1>2, <1>3, <1>4, <1>5 DEF Worker

\* What was due when Close was called is in the last batch until it is tried.
LEMMA DrainingStays ==
  ASSUME Draining, Types, UNCHANGED <<batch, worker, stopping, tried, dueAtStop>>,
         arrived' = arrived \/ \E n \in Ops : arrived' = Append(arrived, n)
  PROVE  Draining'
<1>1. /\ Len(arrived) \in Nat /\ Len(arrived') \in Nat /\ Len(arrived) <= Len(arrived')
      /\ \A i \in 1 .. Len(arrived) : arrived'[i] = arrived[i]
  <2>1. Len(arrived) \in Nat
    BY LenProperties DEF Types
  <2>2. CASE arrived' = arrived
    BY <2>1, <2>2
  <2>3. ASSUME NEW n \in Ops, arrived' = Append(arrived, n)
        PROVE  Len(arrived') = Len(arrived) + 1 /\ \A i \in 1 .. Len(arrived) : arrived'[i] = arrived[i]
    BY <2>3, ArrivedGrows
  <2>. QED  BY <2>1, <2>2, <2>3
<1>2. dueAtStop \in Nat /\ dueAtStop <= Len(arrived)
  BY DEF Draining, Types
<1>3. dueAtStop <= Len(arrived')
  BY <1>1, <1>2
<1>4. \A i \in Untried' : i <= dueAtStop => i \in Untried /\ arrived'[i] = arrived[i]
  BY <1>1, <1>2 DEF Untried
<1>. QED  BY <1>3, <1>4 DEF Draining

\* The drain ends with everything queued in the last batch, and trying it tries
\* what was due.
LEMMA DrainingKeeps ==
  ASSUME WInv, [Next]_vars
  PROVE  Draining'
<1>0. Types /\ Numbered /\ OneCopy /\ Counted /\ InOrder /\ Draining
  BY DEF WInv
<1>1. ASSUME NEW c \in Clients, Client(c) \/ \E k \in Keys : SetLocal(c, k) \/ DeleteLocal(c, k)
      PROVE  Draining'
  <2>1. UNCHANGED <<batch, worker, stopping, tried, dueAtStop>>
    BY <1>1 DEF Client, Enqueue, QueueFull, WriteThrough, DeleteBackend, SetLocal, DeleteLocal, Start,
         queueVars, trackVars
  <2>2. arrived' = arrived \/ \E n \in Ops : arrived' = Append(arrived, n)
    <3>1. CASE Enqueue(c)
      <4>1. req[c].op \in 1 .. ops /\ ops \in 0 .. MaxOps /\ MaxOps \in Nat
        BY <1>0, <3>1, WriteBehindAssumption DEF Enqueue, Numbered, Types
      <4>2. req[c].op \in Ops
        BY <4>1 DEF Ops
      <4>. QED  BY <3>1, <4>2 DEF Enqueue
    <3>2. CASE ~Enqueue(c)
      BY <1>1, <3>2 DEF Client, QueueFull, WriteThrough, DeleteBackend, SetLocal, DeleteLocal, Start, trackVars
    <3>. QED  BY <3>1, <3>2
  <2>. QED  BY <1>0, <2>1, <2>2, DrainingStays
<1>2. CASE Resend \/ Fill \/ UNCHANGED vars
  <2>1. UNCHANGED <<batch, worker, stopping, tried, dueAtStop, arrived>>
    BY <1>2 DEF Resend, Fill, vars, queueVars, trackVars
  <2>. QED  BY <1>0, <2>1, DrainingStays
<1>3. CASE Receive \/ Tick \/ Stop \/ DrainOne
  BY <1>0, <1>3 DEF Receive, Tick, Stop, DrainOne, Draining, trackVars
<1>4. CASE Close
  <2>1. /\ worker \notin {"drain", "lastFlush", "done"} /\ UNCHANGED <<worker, arrived>>
        /\ dueAtStop' = Len(arrived) /\ Len(arrived) \in Nat
    BY <1>0, <1>4, LenProperties DEF Close, Draining, Types, trackVars
  <2>. QED  BY <2>1 DEF Draining
<1>5. CASE DrainEnd
  <2>1. /\ queue = <<>> /\ UNCHANGED <<batch, stopping, arrived, tried, dueAtStop>> /\ stopping
        /\ worker' = IF batch = <<>> THEN "done" ELSE "lastFlush"
    BY <1>0, <1>5 DEF DrainEnd, Draining, trackVars
  <2>2. Len(queue) = 0
    BY <2>1
  <2>3. Places = 1 .. Len(batch) /\ \A j \in 1 .. Len(batch) : line[j] = batch[j]
    BY <1>0, <2>2, LineTypes DEF Places
  <2>4. \A i \in Untried : \E j \in 1 .. Len(batch) : batch[j].retry = 0 /\ batch[j].op = arrived[i]
    BY <1>0, <2>3 DEF InOrder, First
  <2>5. Untried' = Untried
    BY <2>1 DEF Untried
  <2>. QED  BY <1>0, <2>1, <2>4, <2>5 DEF Draining
<1>6. CASE ProcessItem
  <2>1. batch # <<>> /\ batch' = Tail(batch) /\ UNCHANGED <<queue, stopping, arrived, dueAtStop>>
    BY <1>0, <1>6 DEF ProcessItem, Types
  <2>2. /\ Len(batch') = Len(batch) - 1 /\ \A i \in 1 .. Len(batch') : batch'[i] = batch[i + 1]
        /\ \A j \in 1 .. Len(batch) : line[j] = batch[j]
        /\ Len(batch) \in Nat /\ batch' \in Seq(Items)
    BY <1>0, <2>1, LineShrinks, LineTypes
  <2>3. Untried' \subseteq Untried /\ \A i \in Untried' : ~First(1, i)
    BY <1>0, <1>6, TryServesOldest
  <2>4. worker' \in {"lastFlush", "done"} => worker = "lastFlush"
    <3>1. worker \in {"flush", "lastFlush"} /\ (Len(batch) > 1 \/ Len(batch) = 1)
      <4>1. Len(batch) # 0
        BY <2>1, EmptySeq DEF Types, WInv
      <4>. QED  BY <1>6, <2>2, <4>1 DEF ProcessItem
    <3>. QED  BY <1>6, <3>1 DEF ProcessItem
  <2>5. worker' = "done" => Len(batch) = 1
    <3>1. worker \in {"flush", "lastFlush"} /\ (Len(batch) > 1 \/ Len(batch) = 1)
      <4>1. Len(batch) # 0
        BY <2>1, EmptySeq DEF Types, WInv
      <4>. QED  BY <1>6, <2>2, <4>1 DEF ProcessItem
    <3>. QED  BY <1>6, <3>1 DEF ProcessItem
  <2>6. worker' # "drain"
    <3>1. worker \in {"flush", "lastFlush"} /\ (Len(batch) > 1 \/ Len(batch) = 1)
      <4>1. Len(batch) # 0
        BY <2>1, EmptySeq DEF Types, WInv
      <4>. QED  BY <1>6, <2>2, <4>1 DEF ProcessItem
    <3>. QED  BY <1>6, <3>1 DEF ProcessItem
  <2>7. worker' = "done" => batch' = <<>>
    <3>1. worker' = "done" => Len(batch') = 0
      <4>1. Len(batch) = 1 => Len(batch') = 0
        BY <2>2
      <4>. QED  BY <2>5, <4>1
    <3>. QED  BY <2>2, <3>1, EmptySeq
  <2>8. ASSUME worker = "lastFlush", NEW i \in Untried', i <= dueAtStop
        PROVE  \E j \in 1 .. Len(batch') : batch'[j].retry = 0 /\ batch'[j].op = arrived[i]
    <3>1. PICK j \in 1 .. Len(batch) : batch[j].retry = 0 /\ batch[j].op = arrived[i]
      BY <1>0, <2>3, <2>8 DEF Draining
    <3>2. j # 1
      BY <2>2, <2>3, <3>1 DEF First
    <3>3. j - 1 \in 1 .. Len(batch') /\ (j - 1) + 1 = j
      BY <2>2, <3>2
    <3>4. batch'[j - 1] = batch[j]
      BY <2>2, <3>3
    <3>. QED  BY <3>1, <3>3, <3>4
  <2>. QED  BY <1>0, <2>1, <2>4, <2>6, <2>7, <2>8 DEF Draining
<1>. QED  BY <1>1, <1>2, <1>3, <1>4, <1>5, <1>6 DEF Next, Worker

-----------------------------------------------------------------------------
(* The invariant, and what follows                                           *)

\* Every step keeps the line's part of the invariant.
LEMMA LineKeeps ==
  ASSUME WInv, [Next]_vars
  PROVE  OneCopy' /\ Counted' /\ InOrder'
<1>0. Types /\ Numbered /\ OneCopy /\ Counted /\ InOrder
  BY DEF WInv
<1>1. ASSUME NEW c \in Clients, Enqueue(c) PROVE OneCopy' /\ Counted' /\ InOrder'
  <2>. PICK item : item = Item(req[c].op, req[c].key, 0)
    OBVIOUS
  <2>1. /\ req[c].op \in 1 .. ops /\ req[c].key \in Keys /\ ops \in 0 .. MaxOps
        /\ MaxOps \in Nat /\ 0 \in 0 .. MaxRetry
    <3>1. req[c].op \in 1 .. ops /\ req[c].key \in Keys
      BY <1>0, <1>1 DEF Enqueue, Numbered
    <3>2. ops \in 0 .. MaxOps /\ MaxOps \in Nat
      BY <1>0, WriteBehindAssumption DEF Types
    <3>3. 0 \in 0 .. MaxRetry
      BY WriteBehindAssumption
    <3>. QED  BY <3>1, <3>2, <3>3
  <2>2. req[c].op \in Ops
    BY <2>1 DEF Ops
  <2>3. item \in Items /\ item.retry = 0 /\ item.op = req[c].op
    BY <2>1, <2>2 DEF Item, Items
  <2>4. item.op \notin Arrived
    BY <1>0, <1>1, <2>3 DEF Enqueue, Numbered
  <2>5. /\ queue' = Append(queue, item) /\ arrived' = Append(arrived, item.op)
        /\ UNCHANGED <<batch, sleeping, tried, attempts, settled>>
    BY <1>1, <2>3 DEF Enqueue
  <2>. QED  BY <1>0, <2>3, <2>4, <2>5, ArrivalKeepsCopies, ArrivalKeepsCount, ArrivalKeepsOrder
<1>2. CASE Resend
  BY <1>0, <1>2, ResendKeepsLine
<1>3. CASE ProcessItem
  BY <1>0, <1>3, TryKeepsCopies, TryKeepsCount, TryKeepsOrder
<1>4. CASE Receive \/ DrainOne
  <2>1. line' = line
    BY <1>0, <1>4, LineMoves DEF Receive, DrainOne
  <2>2. UNCHANGED <<sleeping, arrived, tried, attempts, settled>>
    BY <1>4 DEF Receive, DrainOne, trackVars
  <2>. QED  BY <1>0, <2>1, <2>2, LineStays
<1>5. ASSUME \/ Tick \/ Stop \/ DrainEnd \/ Fill \/ Close \/ UNCHANGED vars
             \/ \E c \in Clients :
                  \/ QueueFull(c) \/ WriteThrough(c) \/ DeleteBackend(c)
                  \/ \E k \in Keys : SetLocal(c, k) \/ DeleteLocal(c, k)
      PROVE  OneCopy' /\ Counted' /\ InOrder'
  <2>1. UNCHANGED <<queue, batch, sleeping, arrived, tried, attempts, settled>>
    BY <1>5 DEF Tick, Stop, DrainEnd, Fill, Close, QueueFull, WriteThrough, DeleteBackend, SetLocal,
         DeleteLocal, Start, vars, queueVars, trackVars
  <2>2. line' = line
    BY <2>1 DEF line
  <2>. QED  BY <1>0, <2>1, <2>2, LineStays
<1>. QED  BY <1>1, <1>2, <1>3, <1>4, <1>5 DEF Next, Client, Worker

\* Every step keeps the invariant.
LEMMA WStep == WInv /\ [Next]_vars => WInv'
<1>. SUFFICES ASSUME WInv, [Next]_vars PROVE WInv'
  OBVIOUS
<1>1. Types' /\ Numbered'
  BY ClientKeeps, WorkerKeeps DEF Next, WInv
<1>. QED  BY <1>1, LineKeeps, DrainingKeeps DEF WInv

\* The invariant holds for any number of clients, operations and retries.
THEOREM BehindInvariant == Spec => []WInv
BY WInit, WStep, PTL DEF Spec

\* A write has been tried MaxRetry + 1 times when it is given up, and never
\* more often (cache.go:327-347).
THEOREM BehindRetriesBounded == Spec => []RetriesBounded
<1>1. WInv => RetriesBounded
  <2>. SUFFICES ASSUME WInv, NEW n \in Ops
                PROVE  /\ attempts[n] <= MaxRetry + 1
                       /\ settled[n] = "given up" => attempts[n] = MaxRetry + 1
    BY DEF RetriesBounded
  <2>0. MaxRetry \in Nat
    BY WriteBehindAssumption
  <2>1. \A item \in Items : item.retry <= MaxRetry + 1
    <3>. SUFFICES ASSUME NEW item \in Items PROVE item.retry <= MaxRetry + 1
      OBVIOUS
    <3>1. item.retry \in 0 .. MaxRetry
      BY DEF Items
    <3>. QED  BY <2>0, <3>1
  <2>2. CASE n \notin Arrived
    <3>1. attempts[n] = 0 /\ settled[n] = "no"
      <4>1. attempts[n] = 0
        BY <2>2 DEF WInv, Counted
      <4>2. settled[n] = "no"
        BY <2>2 DEF WInv, OneCopy
      <4>. QED  BY <4>1, <4>2
    <3>2. 0 <= MaxRetry + 1
      BY <2>0
    <3>. QED  BY <3>1, <3>2
  <2>3. CASE n \in Arrived /\ settled[n] = "no"
    <3>1. Travels(n)
      BY <2>3 DEF WInv, OneCopy
    <3>2. \E item \in Items : attempts[n] = item.retry
      <4>1. CASE \E i \in Places : line[i].op = n
        BY <4>1, LineTypes DEF WInv, Counted
      <4>2. CASE \E s \in sleeping : s.op = n
        BY <4>2 DEF WInv, Counted, Types
      <4>. QED  BY <3>1, <4>1, <4>2 DEF Travels
    <3>. QED  BY <2>1, <2>3, <3>2
  <2>4. CASE settled[n] = "stored"
    BY <2>4 DEF WInv, Counted
  <2>5. CASE settled[n] = "given up"
    <3>1. attempts[n] = MaxRetry + 1
      BY <2>5 DEF WInv, Counted
    <3>. QED  BY <2>0, <3>1
  <2>6. settled[n] \in {"no", "stored", "given up"}
    BY DEF WInv, Types
  <2>. QED  BY <2>2, <2>3, <2>4, <2>5, <2>6
<1>. QED  BY BehindInvariant, <1>1, PTL

\* First attempts are made in the order of the acknowledgements, batches and the
\* drain of Close included (cache.go:285-318).
THEOREM BehindFirstTriesInOrder == Spec => []FirstTriesInOrder
<1>1. WInv => FirstTriesInOrder
  <2>. SUFFICES ASSUME WInv PROVE FirstTriesInOrder
    OBVIOUS
  <2>1. DOMAIN tried = 1 .. Len(tried)
    BY LenProperties DEF WInv, Types
  <2>. QED  BY <2>1 DEF WInv, InOrder, FirstTriesInOrder
<1>. QED  BY BehindInvariant, <1>1, PTL

\* When the worker has returned, every write queued before Close has been tried.
THEOREM BehindDrainedOnClose == Spec => []DrainedOnClose
<1>1. WInv => DrainedOnClose
  <2>. SUFFICES ASSUME WInv, worker = "done" PROVE Len(tried) >= dueAtStop
    BY DEF DrainedOnClose
  <2>1. /\ Len(tried) \in Nat /\ Len(arrived) \in Nat /\ dueAtStop \in Nat /\ dueAtStop <= Len(arrived)
        /\ batch = <<>>
    BY LenProperties DEF WInv, Types, Draining
  <2>2. Len(batch) = 0
    BY <2>1
  <2>3. dueAtStop \notin Untried
    BY <2>1, <2>2 DEF WInv, Draining
  <2>. QED  BY <2>1, <2>3 DEF Untried
<1>. QED  BY BehindInvariant, <1>1, PTL

\* The number of elements of a set of which all elements are equal.
LEMMA AtMostOne ==
  ASSUME NEW S, \A x, y \in S : x = y
  PROVE  Cardinality(S) = IF S = {} THEN 0 ELSE 1
<1>1. CASE S = {}
  BY <1>1, FS_EmptySet
<1>2. CASE S # {}
  <2>1. PICK x : S = {x}
    BY <1>2
  <2>. QED  BY <1>2, <2>1, FS_Singleton
<1>. QED  BY <1>1, <1>2

\* The queue is the line from behind the batch on.
LEMMA QueueInLine ==
  ASSUME Types
  PROVE  /\ \A i \in 1 .. Len(queue) : Len(batch) + i \in Places /\ line[Len(batch) + i] = queue[i]
         /\ \A p \in Places : p \in 1 .. Len(batch) \/ \E i \in 1 .. Len(queue) : p = Len(batch) + i
<1>1. /\ Len(line) = Len(batch) + Len(queue) /\ Len(batch) \in Nat /\ Len(queue) \in Nat
      /\ \A i \in 1 .. Len(batch) + Len(queue) :
           line[i] = IF i <= Len(batch) THEN batch[i] ELSE queue[i - Len(batch)]
  BY ConcatProperties, LineTypes DEF line, Types
<1>2. ASSUME NEW i \in 1 .. Len(queue)
      PROVE  Len(batch) + i \in Places /\ line[Len(batch) + i] = queue[i]
  <2>1. /\ Len(batch) + i \in 1 .. Len(batch) + Len(queue)
        /\ ~(Len(batch) + i <= Len(batch)) /\ (Len(batch) + i) - Len(batch) = i
    BY <1>1
  <2>. QED  BY <1>1, <2>1 DEF Places
<1>3. ASSUME NEW p \in Places
      PROVE  p \in 1 .. Len(batch) \/ \E i \in 1 .. Len(queue) : p = Len(batch) + i
  <2>1. p \in 1 .. Len(batch) + Len(queue)
    BY <1>1 DEF Places
  <2>2. p \in 1 .. Len(batch) \/ (p - Len(batch) \in 1 .. Len(queue) /\ p = Len(batch) + (p - Len(batch)))
    BY <1>1, <2>1
  <2>. QED  BY <2>2
<1>. QED  BY <1>2, <1>3

\* A write that is queued is neither lost nor doubled between the queue, the
\* batch and the sleeping goroutines (cache.go:285-347).
THEOREM BehindAccounted == Spec => []Accounted
<1>1. WInv => Accounted
  <2>. SUFFICES ASSUME WInv, NEW n \in Ops
                PROVE  Copies(n) = IF n \in Arrived /\ settled[n] = "no" THEN 1 ELSE 0
    BY DEF Accounted
  <2>. PICK Q, B, S : /\ Q = {i \in DOMAIN queue : queue[i].op = n}
                      /\ B = {i \in DOMAIN batch : batch[i].op = n}
                      /\ S = {item \in sleeping : item.op = n}
    OBVIOUS
  <2>0. Types /\ OneCopy /\ DOMAIN queue = 1 .. Len(queue) /\ DOMAIN batch = 1 .. Len(batch)
    BY LenProperties DEF WInv, Types
  <2>n. Len(batch) \in Nat /\ \A i, j \in Nat : /\ Len(batch) + i = Len(batch) + j => i = j
                                               /\ i <= Len(batch) /\ j > 0 => i # Len(batch) + j
    BY <2>0, LineTypes
  <2>1. \A i, j \in Q : i = j
    BY <2>0, <2>n, QueueInLine DEF OneCopy
  <2>2. \A i, j \in B : i = j
    BY <2>0, LineTypes DEF OneCopy
  <2>3. \A s, t \in S : s = t
    BY <2>0 DEF OneCopy
  <2>4. Q = {} \/ B = {}
    <3>. SUFFICES ASSUME NEW i \in Q, NEW j \in B PROVE FALSE
      OBVIOUS
    <3>1. /\ Len(batch) + i \in Places /\ line[Len(batch) + i].op = n
          /\ j \in Places /\ line[j].op = n
      BY <2>0, QueueInLine, LineTypes
    <3>2. j = Len(batch) + i
      BY <2>0, <3>1 DEF OneCopy
    <3>3. i \in 1 .. Len(queue) /\ j \in 1 .. Len(batch)
      BY <2>0
    <3>. QED  BY <2>n, <3>2, <3>3
  <2>5. (Q = {} /\ B = {}) \/ S = {}
    <3>1. \A i \in Q : Len(batch) + i \in Places /\ line[Len(batch) + i].op = n
      BY <2>0, QueueInLine
    <3>2. \A i \in B : i \in Places /\ line[i].op = n
      BY <2>0, LineTypes
    <3>. QED  BY <2>0, <3>1, <3>2 DEF OneCopy
  <2>6. Travels(n) <=> Q # {} \/ B # {} \/ S # {}
    <3>1. Travels(n) => Q # {} \/ B # {} \/ S # {}
      <4>1. ASSUME NEW p \in Places, line[p].op = n PROVE Q # {} \/ B # {}
        <5>1. CASE p \in 1 .. Len(batch)
          BY <2>0, <4>1, <5>1, LineTypes
        <5>2. ASSUME NEW i \in 1 .. Len(queue), p = Len(batch) + i PROVE Q # {}
          BY <2>0, <4>1, <5>2, QueueInLine
        <5>. QED  BY <2>0, <5>1, <5>2, QueueInLine
      <4>. QED  BY <4>1 DEF Travels
    <3>2. ASSUME NEW i \in Q PROVE Travels(n)
      BY <2>0, QueueInLine DEF Travels
    <3>3. ASSUME NEW i \in B PROVE Travels(n)
      BY <2>0, LineTypes DEF Travels
    <3>4. ASSUME NEW s \in S PROVE Travels(n)
      BY DEF Travels
    <3>. QED  BY <3>1, <3>2, <3>3, <3>4
  <2>7. Travels(n) <=> n \in Arrived /\ settled[n] = "no"
    BY <2>0 DEF OneCopy
  <2>8. /\ Cardinality(Q) = IF Q = {} THEN 0 ELSE 1
        /\ Cardinality(B) = IF B = {} THEN 0 ELSE 1
        /\ Cardinality(S) = IF S = {} THEN 0 ELSE 1
    BY <2>1, <2>2, <2>3, AtMostOne
  <2>9. Cardinality(Q) + Cardinality(B) + Cardinality(S) = IF Travels(n) THEN 1 ELSE 0
    BY <2>4, <2>5, <2>6, <2>8
  <2>. QED  BY <2>7, <2>9 DEF Copies
<1>. QED  BY BehindInvariant, <1>1, PTL

-----------------------------------------------------------------------------
(* The limits                                                                *)

\* The limits of the channel and the batch, and the types of the data.
Bounds ==
  /\ Len(queue) <= QueueSize
  /\ worker = "select" => Len(batch) < BatchSize
  /\ local \in [Keys -> 0 .. MaxOps] /\ backend \in [Keys -> 0 .. MaxOps]
  /\ \A f \in fills : f.op \in 0 .. MaxOps /\ f.key \in Keys

\* An item more in the queue, or one less, keeps it within its capacity.
LEMMA QueueBounded ==
  ASSUME Types, Len(queue) <= QueueSize,
         \/ \E item \in Items : Len(queue) < QueueSize /\ queue' = Append(queue, item)
         \/ queue # <<>> /\ queue' = Tail(queue)
         \/ UNCHANGED queue
  PROVE  Len(queue') <= QueueSize
<1>1. queue \in Seq(Items) /\ Len(queue) \in Nat /\ QueueSize \in Nat
  BY LenProperties, WriteBehindAssumption DEF Types
<1>2. CASE \E item \in Items : Len(queue) < QueueSize /\ queue' = Append(queue, item)
  BY <1>1, <1>2, AppendProperties
<1>3. CASE queue # <<>> /\ queue' = Tail(queue)
  BY <1>1, <1>3, HeadTailProperties
<1>. QED  BY <1>2, <1>3

\* What a client writes is the number of its own operation.
LEMMA ClientBounded ==
  ASSUME WInv, Bounds, NEW c \in Clients,
         Client(c) \/ \E k \in Keys : SetLocal(c, k) \/ DeleteLocal(c, k)
  PROVE  Bounds'
<1>0. ops \in 0 .. MaxOps /\ MaxOps \in Nat
  BY WriteBehindAssumption DEF WInv, Types
<1>1. pc[c] # "idle" => req[c].op \in 0 .. MaxOps /\ req[c].key \in Keys
  <2>1. pc[c] # "idle" => req[c].op \in 1 .. ops /\ req[c].key \in Keys
    BY DEF WInv, Numbered
  <2>. QED  BY <1>0, <2>1
<1>2. CASE Enqueue(c)
  <2>1. req[c].op \in 1 .. ops /\ req[c].key \in Keys /\ 0 \in 0 .. MaxRetry
    BY <1>2, WriteBehindAssumption DEF Enqueue, WInv, Numbered
  <2>2. req[c].op \in Ops
    BY <1>0, <2>1 DEF Ops
  <2>3. Item(req[c].op, req[c].key, 0) \in Items
    BY <2>1, <2>2 DEF Item, Items
  <2>4. Len(queue') <= QueueSize
    BY <1>2, <2>3, QueueBounded DEF Enqueue, WInv, Bounds
  <2>. QED  BY <1>2, <2>4 DEF Enqueue, Bounds, dataVars
<1>3. CASE QueueFull(c)
  BY <1>3 DEF QueueFull, Bounds, queueVars, dataVars
<1>4. CASE WriteThrough(c)
  <2>1. UNCHANGED <<queue, batch, worker, local>> /\ pc[c] # "idle"
    BY <1>4 DEF WriteThrough, queueVars
  <2>2. backend' = backend \/ backend' = [backend EXCEPT ![req[c].key] = req[c].op]
    BY <1>4 DEF WriteThrough
  <2>3. fills' = fills \/ fills' = fills \cup {req[c]}
    BY <1>4 DEF WriteThrough
  <2>. QED  BY <1>1, <2>1, <2>2, <2>3 DEF Bounds
<1>5. CASE DeleteBackend(c)
  <2>1. UNCHANGED <<queue, batch, worker, local, fills>>
    BY <1>5 DEF DeleteBackend, queueVars
  <2>2. backend' = backend \/ backend' = [backend EXCEPT ![req[c].key] = 0]
    BY <1>5 DEF DeleteBackend
  <2>. QED  BY <1>0, <2>1, <2>2 DEF Bounds
<1>6. ASSUME NEW k \in Keys, SetLocal(c, k) \/ DeleteLocal(c, k) PROVE Bounds'
  <2>1. UNCHANGED <<queue, batch, worker, backend, fills>> /\ ops < MaxOps
    BY <1>6 DEF SetLocal, DeleteLocal, Start, queueVars
  <2>2. local' = local \/ local' = [local EXCEPT ![k] = ops + 1] \/ local' = [local EXCEPT ![k] = 0]
    BY <1>6 DEF SetLocal, DeleteLocal, LocalSet
  <2>3. ops + 1 \in 0 .. MaxOps /\ 0 \in 0 .. MaxOps
    BY <1>0, <2>1
  <2>. QED  BY <2>1, <2>2, <2>3 DEF Bounds
<1>. QED  BY <1>2, <1>3, <1>4, <1>5, <1>6 DEF Client

\* A worker that goes back to its select has room in its batch.
LEMMA WorkerBounded ==
  ASSUME WInv, Bounds, Worker \/ Resend \/ Fill \/ Close
  PROVE  Bounds'
<1>0. /\ queue \in Seq(Items) /\ batch \in Seq(Items) /\ Len(batch) \in Nat
      /\ BatchSize \in Nat \ {0} /\ MaxOps \in Nat
  BY LenProperties, WriteBehindAssumption DEF WInv, Types
<1>1. CASE Receive
  <2>1. Head(queue) \in Items
    BY <1>0, <1>1, HeadTailProperties DEF Receive
  <2>2. batch' = Append(batch, Head(queue)) /\ Len(batch') = Len(batch) + 1
    BY <1>0, <1>1, <2>1, AppendProperties DEF Receive
  <2>3. worker' = "select" => Len(batch') < BatchSize
    <3>1. Len(batch) + 1 >= BatchSize \/ Len(batch) + 1 < BatchSize
      BY <1>0
    <3>. QED  BY <1>1, <2>2, <3>1 DEF Receive
  <2>4. Len(queue') <= QueueSize
    BY <1>1, QueueBounded DEF Receive, WInv, Bounds
  <2>. QED  BY <1>1, <2>3, <2>4 DEF Receive, Bounds, dataVars
<1>2. CASE DrainOne
  <2>1. Len(queue') <= QueueSize
    BY <1>2, QueueBounded DEF DrainOne, WInv, Bounds
  <2>. QED  BY <1>2, <2>1 DEF DrainOne, Bounds, dataVars
<1>3. CASE Tick \/ Stop \/ DrainEnd \/ Close
  BY <1>3 DEF Tick, Stop, DrainEnd, Close, Bounds, dataVars
<1>4. CASE Resend
  <2>1. Len(queue') <= QueueSize
    BY <1>4, QueueBounded DEF Resend, WInv, Types, Bounds
  <2>. QED  BY <1>4, <2>1 DEF Resend, Bounds, dataVars
<1>5. CASE Fill
  <2>1. PICK f \in fills : LocalSet(f.key, f.op) /\ fills' = fills \ {f} /\ UNCHANGED <<queueVars, backend>>
    BY <1>5 DEF Fill
  <2>2. local' = local \/ local' = [local EXCEPT ![f.key] = f.op]
    BY <2>1 DEF LocalSet
  <2>. QED  BY <2>1, <2>2 DEF Bounds, queueVars
<1>6. CASE ProcessItem
  <2>1. batch # <<>> /\ Head(batch) \in Items /\ Len(batch') = Len(batch) - 1
    BY <1>0, <1>6, LineShrinks DEF ProcessItem, WInv, Types
  <2>2. worker' = "select" => Len(batch) = 1
    <3>1. worker \in {"flush", "lastFlush"} /\ (Len(batch) > 1 \/ Len(batch) = 1)
      <4>1. Len(batch) # 0
        BY <1>0, <2>1, EmptySeq
      <4>2. Len(batch) > 1 \/ Len(batch) = 1
        <5>1. Len(batch) \in Nat
          BY <1>0
        <5>. QED  BY <4>1, <5>1
      <4>3. worker \in {"flush", "lastFlush"}
        BY <1>6 DEF ProcessItem
      <4>. QED  BY <4>2, <4>3
    <3>. QED  BY <1>6, <3>1 DEF ProcessItem
  <2>3. worker' = "select" => Len(batch') < BatchSize
    <3>1. Len(batch) = 1 => Len(batch) - 1 < BatchSize
      BY <1>0
    <3>. QED  BY <2>1, <2>2, <3>1
  <2>4. Head(batch).key \in Keys /\ Head(batch).op \in 0 .. MaxOps
    <3>1. Head(batch).key \in Keys /\ Head(batch).op \in 1 .. MaxOps
      BY <2>1 DEF Items, Ops
    <3>. QED  BY <1>0, <3>1
  <2>5. backend' = backend \/ backend' = [backend EXCEPT ![Head(batch).key] = Head(batch).op]
    BY <1>6 DEF ProcessItem
  <2>6. UNCHANGED <<queue, local, fills>>
    BY <1>6 DEF ProcessItem
  <2>. QED  BY <2>3, <2>4, <2>5, <2>6 DEF Bounds
<1>. QED  BY <1>1, <1>2, <1>3, <1>4, <1>5, <1>6 DEF Worker

\* The types, with the limits of the channel and of the batch (cache.go:74,
\* 401-435), for any number of clients and operations.
THEOREM BehindTypes == Spec => []TypeOK
<1>1. Init => Bounds
  BY WriteBehindAssumption, EmptySeq DEF Init, Bounds
<1>2. WInv /\ WInv' /\ Bounds /\ [Next]_vars => Bounds'
  <2>1. ASSUME Bounds, UNCHANGED vars PROVE Bounds'
    BY <2>1 DEF Bounds, vars, queueVars, dataVars
  <2>. QED  BY <2>1, ClientBounded, WorkerBounded DEF Next
<1>3. WInv /\ Bounds => TypeOK
  BY DEF WInv, Types, Bounds, TypeOK
<1>. QED  BY BehindInvariant, <1>1, <1>2, <1>3, PTL DEF Spec

=============================================================================
