------------------------ MODULE ConcurrentIterProofs ------------------------
(***************************************************************************)
(* What ConcurrentIter guarantees for every iterable and every size of the *)
(* buffer: invariants that say when the threads are where.                 *)
(***************************************************************************)
EXTENDS ConcurrentIter, TLAPS

\* How far the two threads are.
Phases ==
    /\ producer \in {"put", "check"} => supplied > 0
    /\ producer = "clear" => stop
    /\ consumer \in {"body", "get"} <=> outcome = "none"
    /\ consumer \in {"body", "get", "stop"} <=> ~stop

\* The iterable is asked once after the stop event at most, since the producer
\* that has done so finds the event set.
LateInv ==
    /\ ~stop => late = 0
    /\ producer = "next" => late = 0
    /\ late <= 1

\* As long as the consumer reads and the iterable has not failed, nothing has been
\* removed from the queue but what the consumer got.
Pending == IF producer = "put" THEN 1 ELSE 0
Reading ==
    /\ producer \in {"next", "put", "check", "putLast", "ended"}
    /\ producer = "putLast" => supplied = N
    /\ producer # "ended" =>
        /\ \A i \in 1 .. Len(queue) : queue[i].kind = "item"
        /\ Len(got) + Len(queue) + Pending = supplied
    /\ producer = "ended" =>
        /\ \A i \in 1 .. Len(queue) - 1 : queue[i].kind = "item"
        /\ Len(got) + Len(queue) = N + 1

EndInv ==
    /\ failed => producer \in {"clearError", "putError", "ended"}
    /\ producer \in {"clearError", "putError"} => failed
    /\ outcome = "none" /\ ~failed => Reading
    /\ outcome = "none" /\ failed => \A i \in 1 .. Len(queue) : queue[i].kind # "last"
    /\ outcome = "ended" => producer = "ended" /\ Len(got) = N /\ ~failed

IInv == TypeOK /\ Phases

-----------------------------------------------------------------------------
\* The queue has room for at least one message.
LEMMA Constants == N \in Nat /\ BufferSize \in Nat /\ BufferSize > 0
  BY ConcurrentIterAssumption DEF ConcurrentIterAssumption

\* Removing the head of a non-empty queue leaves the rest, one shorter.
LEMMA TailFacts ==
    ASSUME NEW S, NEW s \in Seq(S), s # <<>>
    PROVE  /\ Tail(s) \in Seq(S)
           /\ Len(Tail(s)) = Len(s) - 1
           /\ Len(s) \in Nat /\ Len(s) > 0
           /\ Head(s) \in S /\ Head(s) = s[1]
           /\ \A i \in 1 .. Len(s) - 1 : Tail(s)[i] = s[i + 1]
  OBVIOUS

\* Adding a message at the end of the queue.
LEMMA AppendFacts ==
    ASSUME NEW S, NEW s \in Seq(S), NEW m \in S
    PROVE  /\ Append(s, m) \in Seq(S)
           /\ Len(s) \in Nat
           /\ Len(Append(s, m)) = Len(s) + 1
           /\ \A i \in 1 .. Len(s) : Append(s, m)[i] = s[i]
           /\ Append(s, m)[Len(s) + 1] = m
  OBVIOUS

\* A step of clear() shortens the queue or finds it empty.
LEMMA ClearFacts ==
    ASSUME TypeOK, ClearMore \/ ClearEnd
    PROVE  /\ queue' \in Seq(Message)
           /\ Len(queue') \in Nat
           /\ Len(queue') < BufferSize
  <1>1. CASE queue = <<>>
    <2>1. queue' = <<>>  BY <1>1 DEF ClearMore, ClearEnd
    <2> QED  BY <2>1, Constants
  <1>2. CASE queue # <<>>
    <2>1. queue' = Tail(queue)  BY <1>2 DEF ClearMore, ClearEnd
    <2>2. queue \in Seq(Message) /\ Len(queue) <= BufferSize  BY DEF TypeOK
    <2>3. /\ queue' \in Seq(Message)
          /\ Len(queue') = Len(queue) - 1
          /\ Len(queue) \in Nat /\ Len(queue) > 0
      BY <1>2, <2>1, <2>2, TailFacts
    <2> QED  BY <2>2, <2>3, Constants
  <1> QED  BY <1>1, <1>2

\* The messages of the threads: the numbers of items are what they should be.
LEMMA Messages ==
    /\ \A n \in 1 .. N : Item(n) \in Message /\ Item(n).kind = "item"
    /\ Last \in Message /\ Last.kind = "last"
    /\ Error \in Message /\ Error.kind = "error"
    /\ \A m \in Message : m.kind = "item" => m.n \in 1 .. N
  BY DEF Message, Item, Last, Error

-----------------------------------------------------------------------------
\* The types and the phases of the threads hold at the start.
LEMMA InitIInv == Init => IInv
  <1> SUFFICES ASSUME Init PROVE TypeOK /\ Phases
    BY DEF IInv
  <1>1. queue \in Seq(Message) /\ Len(queue) = 0 /\ got \in Seq(1 .. N)
    BY DEF Init
  <1>2. TypeOK
    <2>1. stop \in BOOLEAN /\ failed \in BOOLEAN  BY DEF Init
    <2>2. supplied \in 0 .. N /\ late \in Nat  BY Constants DEF Init
    <2>3. Len(queue) <= BufferSize  BY <1>1, Constants
    <2> QED  BY <1>1, <2>1, <2>2, <2>3, Zenon DEF Init, TypeOK
  <1>3. Phases
    BY DEF Init, Phases
  <1> QED  BY <1>2, <1>3

\* Every step of either thread keeps them.
LEMMA NextIInv == IInv /\ [Next]_vars => IInv'
  <1> SUFFICES ASSUME TypeOK, Phases, [Next]_vars PROVE TypeOK' /\ Phases'
    BY DEF IInv
  <1>1. CASE NextItem
    <2>1. failed' \in BOOLEAN  BY <1>1 DEF NextItem, TypeOK
    <2>2. supplied' \in 0 .. N /\ late' \in Nat
      BY <1>1, Constants DEF NextItem, TypeOK
    <2>3. producer' \in {"put", "putLast", "clearError"}
      BY <1>1 DEF NextItem
    <2>4. TypeOK'
      BY <1>1, <2>1, <2>2, <2>3 DEF NextItem, TypeOK, consumerVars
    <2>5. producer' = "put" => supplied' > 0
      BY <1>1, Constants DEF NextItem, TypeOK
    <2>6. Phases'
      BY <1>1, <2>3, <2>5 DEF NextItem, Phases, consumerVars
    <2> QED  BY <2>4, <2>6
  <1>2. CASE PutItem
    <2>1. Item(supplied) \in Message  BY <1>2, Messages DEF PutItem, TypeOK, Phases
    <2>2. queue' \in Seq(Message) /\ Len(queue') <= BufferSize
      BY <1>2, <2>1, AppendFacts, Constants DEF PutItem, Put, TypeOK
    <2> QED  BY <1>2, <2>2 DEF PutItem, TypeOK, Phases, consumerVars
  <1>3. CASE CheckStop
    BY <1>3 DEF CheckStop, TypeOK, Phases, consumerVars
  <1>4. CASE ProducerClear
    <2>1. queue' \in Seq(Message) /\ Len(queue') <= BufferSize
      BY <1>4, ClearFacts, Constants DEF ProducerClear
    <2> QED  BY <1>4, <2>1 DEF ProducerClear, TypeOK, Phases, consumerVars
  <1>5. CASE PutLast
    <2>1. queue' \in Seq(Message) /\ Len(queue') <= BufferSize
      BY <1>5, Messages, AppendFacts, Constants DEF PutLast, Put, TypeOK
    <2> QED  BY <1>5, <2>1 DEF PutLast, TypeOK, Phases, consumerVars
  <1>6. CASE Ask
    BY <1>6 DEF Ask, TypeOK, Phases, producerVars
  <1>7. CASE Leave
    BY <1>7 DEF Leave, TypeOK, Phases, producerVars
  <1>8. CASE Get
    <2>1. /\ queue' \in Seq(Message) /\ Len(queue') <= BufferSize
          /\ Head(queue) \in Message
      BY <1>8, TailFacts, Constants DEF Get, TypeOK
    <2>2. got' \in Seq(1 .. N)
      <3>1. CASE Head(queue).kind = "item" /\ got' = Append(got, Head(queue).n)
        <4>1. Head(queue).n \in 1 .. N  BY <2>1, <3>1, Messages
        <4> QED  BY <3>1, <4>1, AppendFacts DEF TypeOK
      <3>2. CASE UNCHANGED got
        BY <3>2 DEF TypeOK
      <3> QED  BY <1>8, <3>1, <3>2 DEF Get
    <2> QED  BY <1>8, <2>1, <2>2 DEF Get, TypeOK, Phases, producerVars
  <1>9. CASE SetStop
    BY <1>9 DEF SetStop, TypeOK, Phases, producerVars
  <1>10. CASE ConsumerClear
    <2>1. queue' \in Seq(Message) /\ Len(queue') <= BufferSize
      BY <1>10, ClearFacts, Constants DEF ConsumerClear
    <2> QED  BY <1>10, <2>1 DEF ConsumerClear, TypeOK, Phases, producerVars
  <1>11. CASE JoinThread
    BY <1>11 DEF JoinThread, TypeOK, Phases, producerVars
  <1>12. CASE UNCHANGED vars
    BY <1>12 DEF vars, TypeOK, Phases
  <1> QED
    BY <1>1, <1>2, <1>3, <1>4, <1>5, <1>6, <1>7, <1>8, <1>9, <1>10, <1>11, <1>12
    DEF Next, ProducerStep, ConsumerStep

\* The variables keep their types, and the queue its bound.
THEOREM TypeCorrect == Spec => []TypeOK
  <1>1. IInv => TypeOK  BY DEF IInv
  <1> QED  BY <1>1, InitIInv, NextIInv, PTL DEF Spec

\* join cannot deadlock (utility.py, join): whoever waits for the producer has left
\* room for what it has still to put, for every size of the buffer.
THEOREM RoomForProducerCorrect == Spec => []RoomForProducer
  <1>1. Init => RoomForProducer  BY DEF Init, RoomForProducer
  <1>2. IInv /\ RoomForProducer /\ [Next]_vars => RoomForProducer'
    <2> SUFFICES ASSUME TypeOK, Phases, RoomForProducer, [Next]_vars
                 PROVE  RoomForProducer'
      BY DEF IInv
    <2>1. CASE ProducerClear
      BY <2>1, ClearFacts DEF ProducerClear, RoomForProducer, consumerVars
    <2>2. CASE ConsumerClear
      BY <2>2, ClearFacts DEF ConsumerClear, RoomForProducer, producerVars
    <2>3. CASE NextItem \/ PutItem \/ CheckStop \/ PutLast
      BY <2>3 DEF NextItem, PutItem, CheckStop, PutLast, RoomForProducer, Phases,
         TypeOK, consumerVars
    <2>4. CASE Ask \/ Leave \/ Get \/ SetStop \/ JoinThread
      BY <2>4, Zenon DEF Ask, Leave, Get, SetStop, JoinThread, RoomForProducer
    <2>5. CASE UNCHANGED vars
      BY <2>5 DEF vars, RoomForProducer
    <2> QED  BY <2>1, <2>2, <2>3, <2>4, <2>5 DEF Next, ProducerStep, ConsumerStep
  <1> QED  BY <1>1, <1>2, InitIInv, NextIInv, PTL DEF Spec

\* After the stop event the iterable gives one more item at most.
THEOREM StopsSoonCorrect == Spec => []StopsSoon
  <1>1. Init => LateInv  BY DEF Init, LateInv
  <1>2. IInv /\ LateInv /\ [Next]_vars => LateInv'
    <2> SUFFICES ASSUME TypeOK, Phases, LateInv, [Next]_vars PROVE LateInv'
      BY DEF IInv
    <2>1. CASE ProducerStep
      BY <2>1 DEF ProducerStep, NextItem, PutItem, CheckStop, ProducerClear, PutLast,
         LateInv, Phases, TypeOK, consumerVars
    <2>2. CASE ConsumerStep
      BY <2>2 DEF ConsumerStep, Ask, Leave, Get, SetStop, ConsumerClear, JoinThread,
         LateInv, Phases, TypeOK, producerVars
    <2>3. CASE UNCHANGED vars
      BY <2>3 DEF vars, LateInv
    <2> QED  BY <2>1, <2>2, <2>3 DEF Next
  <1>3. LateInv => StopsSoon  BY DEF LateInv, StopsSoon
  <1> QED  BY <1>1, <1>2, <1>3, InitIInv, NextIInv, PTL DEF Spec

\* What the consumer got and what is on its way to it add up, from the start.
LEMMA EndInvInit == Init => EndInv
  BY Constants DEF Init, EndInv, Reading, Pending

\* Every step of either thread keeps that.
LEMMA EndInvNext == IInv /\ EndInv /\ [Next]_vars => EndInv'
  <1> SUFFICES ASSUME TypeOK, Phases, EndInv, [Next]_vars PROVE EndInv'
    BY DEF IInv
  <1>0. /\ queue \in Seq(Message) /\ Len(queue) \in Nat /\ Len(got) \in Nat
        /\ got \in Seq(1 .. N)
    BY DEF TypeOK
  <1>1. CASE NextItem
    BY <1>0, <1>1, Constants DEF NextItem, EndInv, Reading, Pending, TypeOK,
       consumerVars
  <1>2. CASE PutItem
    <2>1. /\ Item(supplied) \in Message /\ Item(supplied).kind = "item"
      BY <1>2, Messages DEF PutItem, TypeOK, Phases
    <2>2. /\ Len(queue') = Len(queue) + 1
          /\ \A i \in 1 .. Len(queue) : queue'[i] = queue[i]
          /\ queue'[Len(queue) + 1].kind = "item"
      BY <1>0, <1>2, <2>1, AppendFacts DEF PutItem, Put
    <2> QED
      BY <1>0, <1>2, <2>2 DEF PutItem, EndInv, Reading, Pending, consumerVars
  <1>3. CASE CheckStop
    BY <1>0, <1>3 DEF CheckStop, EndInv, Reading, Pending, Phases, consumerVars
  <1>4. CASE ProducerClear
    <2>1. outcome = "none" => failed
      BY <1>4 DEF ProducerClear, EndInv, Reading
    <2>2. CASE queue = <<>>
      BY <1>0, <1>4, <2>1, <2>2
      DEF ProducerClear, ClearMore, ClearEnd, EndInv, consumerVars
    <2>3. CASE queue # <<>>
      <3>1. /\ Len(queue') = Len(queue) - 1 /\ Len(queue) > 0
            /\ \A i \in 1 .. Len(queue) - 1 : queue'[i] = queue[i + 1]
        BY <1>0, <1>4, <2>3, TailFacts DEF ProducerClear, ClearMore, ClearEnd
      <3> QED
        BY <1>0, <1>4, <2>1, <3>1 DEF ProducerClear, EndInv, consumerVars
    <2> QED  BY <2>2, <2>3
  <1>5. CASE PutLast
    <2>1. /\ Len(queue') = Len(queue) + 1
          /\ \A i \in 1 .. Len(queue) : queue'[i] = queue[i]
          /\ queue'[Len(queue) + 1] =
                  (IF producer = "putLast" THEN Last ELSE Error)
      BY <1>0, <1>5, AppendFacts, Messages DEF PutLast, Put
    <2>2. producer' = "ended" /\ UNCHANGED <<failed, outcome, got>>
      BY <1>5 DEF PutLast, consumerVars
    <2>3. CASE producer = "putLast"
      <3>1. ~failed  BY <2>3 DEF EndInv
      <3>2. CASE outcome = "none"
        <4>1. Len(got) + Len(queue) = N /\ producer # "ended"
          BY <1>0, <2>3, <3>1, <3>2, Constants DEF EndInv, Reading, Pending
        <4>2. \A i \in 1 .. Len(queue) : queue[i].kind = "item"
          BY <2>3, <3>1, <3>2, <4>1 DEF EndInv, Reading
        <4>3. \A i \in 1 .. Len(queue') - 1 : queue'[i].kind = "item"
          BY <1>0, <2>1, <4>2
        <4>4. Len(got') + Len(queue') = N + 1
          BY <1>0, <2>1, <2>2, <4>1, Constants
        <4>5. Reading'
          BY <2>2, <4>3, <4>4 DEF Reading
        <4> QED  BY <2>2, <3>1, <3>2, <4>5 DEF EndInv
      <3>3. CASE outcome # "none"
        BY <2>2, <2>3, <3>1, <3>3 DEF EndInv
      <3> QED  BY <3>2, <3>3
    <2>4. CASE producer = "putError"
      <3>1. failed /\ outcome # "ended"  BY <2>4 DEF EndInv
      <3>2. CASE outcome = "none"
        <4>1. \A i \in 1 .. Len(queue) : queue[i].kind # "last"
          BY <3>1, <3>2 DEF EndInv
        <4>2. queue'[Len(queue) + 1].kind # "last"
          BY <2>1, <2>4, Messages
        <4>3. \A i \in 1 .. Len(queue') : queue'[i].kind # "last"
          BY <1>0, <2>1, <4>1, <4>2
        <4> QED  BY <2>2, <3>1, <3>2, <4>3 DEF EndInv
      <3>3. CASE outcome # "none"
        BY <2>2, <3>1, <3>3 DEF EndInv
      <3> QED  BY <3>2, <3>3
    <2> QED  BY <1>5, <2>3, <2>4 DEF PutLast
  <1>6. CASE Get
    <2>1. /\ Len(queue') = Len(queue) - 1 /\ Len(queue) > 0
          /\ Head(queue) = queue[1]
          /\ \A i \in 1 .. Len(queue) - 1 : queue'[i] = queue[i + 1]
      BY <1>0, <1>6, TailFacts DEF Get
    <2>2. outcome = "none"  BY <1>6 DEF Get, Phases
    <2>3. CASE Head(queue).kind = "item" /\ got' = Append(got, Head(queue).n)
               /\ UNCHANGED outcome
      <3>1. Head(queue) \in Message  BY <1>0, <1>6, TailFacts DEF Get
      <3>2. Head(queue).n \in 1 .. N  BY <2>3, <3>1, Messages
      <3>3. Len(got') = Len(got) + 1
        BY <1>0, <2>3, <3>2, AppendFacts
      <3> QED
        BY <1>0, <1>6, <2>1, <2>2, <2>3, <3>3
        DEF Get, EndInv, Reading, Pending, producerVars
    <2>4. CASE Head(queue) = Last /\ outcome' = "ended" /\ UNCHANGED got
      <3>1. ~failed  BY <2>1, <2>2, <2>4, Messages DEF EndInv
      <3>2. producer = "ended"
        BY <2>1, <2>2, <2>4, <3>1, Messages DEF EndInv, Reading
      <3>3. Len(queue) = 1
        BY <1>0, <2>1, <2>2, <2>4, <3>1, <3>2, Messages DEF EndInv, Reading
      <3>4. Len(got) = N
        BY <1>0, <2>2, <3>1, <3>2, <3>3, Constants DEF EndInv, Reading
      <3>5. /\ outcome' = "ended" /\ ~failed' /\ producer' = "ended"
            /\ Len(got') = N
        BY <1>6, <2>4, <3>1, <3>2, <3>4 DEF Get, producerVars
      <3> QED  BY <3>5 DEF EndInv
    <2>5. CASE outcome' = "raised"
      BY <1>6, <2>5 DEF Get, EndInv, producerVars
    <2> QED  BY <1>6, <2>3, <2>4, <2>5 DEF Get
  <1>7. CASE Ask \/ SetStop \/ JoinThread
    BY <1>7 DEF Ask, SetStop, JoinThread, EndInv, Reading, Pending, producerVars
  <1>8. CASE Leave
    BY <1>8 DEF Leave, EndInv, Phases, producerVars
  <1>9. CASE ConsumerClear
    BY <1>9 DEF ConsumerClear, EndInv, Phases, producerVars
  <1>10. CASE UNCHANGED vars
    BY <1>10 DEF vars, EndInv, Reading, Pending
  <1> QED
    BY <1>1, <1>2, <1>3, <1>4, <1>5, <1>6, <1>7, <1>8, <1>9, <1>10
    DEF Next, ProducerStep, ConsumerStep

\* An iteration that ends without an exception has given every item, whatever the
\* producer has cleared away.
THEOREM EndIsEndCorrect == Spec => []EndIsEnd
  <1>1. EndInv => EndIsEnd  BY DEF EndInv, EndIsEnd
  <1> QED  BY <1>1, InitIInv, NextIInv, EndInvInit, EndInvNext, PTL DEF Spec

-----------------------------------------------------------------------------
\* As long as the consumer reads, the items in the queue follow what it got.
InOrder ==
    /\ NoGaps
    /\ failed => Fails
    /\ outcome = "none" =>
        \A i \in 1 .. Len(queue) : queue[i].kind = "item" => queue[i].n = Len(got) + i

\* Every step keeps that, unless the producer clears a queue of several items that
\* the consumer still reads.
LEMMA InOrderNext ==
    ASSUME BufferSize = 1 \/ ~Fails, TypeOK, TypeOK', Phases, EndInv, InOrder, [Next]_vars
    PROVE  InOrder'
  <1>0. /\ queue \in Seq(Message) /\ Len(queue) \in Nat /\ Len(queue) <= BufferSize
        /\ got \in Seq(1 .. N) /\ Len(got) \in Nat
    BY DEF TypeOK
  <1>1. CASE NextItem
    BY <1>0, <1>1 DEF NextItem, InOrder, NoGaps, consumerVars
  <1>2. CASE PutItem
    <2>1. Item(supplied) \in Message /\ Item(supplied).n = supplied
      BY <1>2, Messages DEF PutItem, TypeOK, Phases, Item
    <2>2. /\ Len(queue') = Len(queue) + 1
          /\ \A i \in 1 .. Len(queue) : queue'[i] = queue[i]
          /\ queue'[Len(queue) + 1].n = supplied
      BY <1>0, <1>2, <2>1, AppendFacts DEF PutItem, Put
    <2>3. outcome = "none" => supplied = Len(got) + Len(queue) + 1
      BY <1>0, <1>2 DEF PutItem, EndInv, Reading, Pending
    <2>4. UNCHANGED <<failed, outcome, got>>
      BY <1>2 DEF PutItem, consumerVars
    <2>5. ASSUME outcome = "none", NEW i \in 1 .. Len(queue'), queue'[i].kind = "item"
          PROVE  queue'[i].n = Len(got) + i
      <3>1. CASE i \in 1 .. Len(queue)
        BY <2>2, <2>5, <3>1 DEF InOrder
      <3>2. CASE i = Len(queue) + 1
        BY <1>0, <2>2, <2>3, <2>5, <3>2
      <3> QED  BY <1>0, <2>2, <3>1, <3>2
    <2> QED
      BY <2>4, <2>5 DEF InOrder, NoGaps
  <1>3. CASE CheckStop
    BY <1>3 DEF CheckStop, InOrder, NoGaps, consumerVars
  <1>4. CASE ProducerClear
    <2>1. ASSUME outcome = "none" PROVE Len(queue') = 0 \/ queue' = queue
      <3>1. BufferSize = 1
        BY <1>4, <2>1 DEF ProducerClear, EndInv, Reading, InOrder
      <3>2. Len(queue') \in Nat /\ Len(queue') < 1
        BY <1>4, <3>1, ClearFacts DEF ProducerClear
      <3> QED  BY <3>2
    <2> QED  BY <1>4, <2>1 DEF ProducerClear, InOrder, NoGaps, consumerVars
  <1>5. CASE PutLast
    <2>1. /\ Len(queue') = Len(queue) + 1
          /\ \A i \in 1 .. Len(queue) : queue'[i] = queue[i]
          /\ queue'[Len(queue) + 1].kind # "item"
      BY <1>0, <1>5, AppendFacts, Messages DEF PutLast, Put
    <2> QED  BY <1>0, <1>5, <2>1 DEF PutLast, InOrder, NoGaps, consumerVars
  <1>6. CASE Get
    <2>1. /\ Len(queue') = Len(queue) - 1 /\ Len(queue) > 0
          /\ Head(queue) = queue[1] /\ Head(queue) \in Message
          /\ \A i \in 1 .. Len(queue) - 1 : queue'[i] = queue[i + 1]
      BY <1>0, <1>6, TailFacts DEF Get
    <2>2. outcome = "none" /\ failed' = failed
      BY <1>6 DEF Get, Phases, producerVars
    <2>3. CASE Head(queue).kind = "item" /\ got' = Append(got, Head(queue).n)
      <3>1. Head(queue).n = Len(got) + 1 /\ Head(queue).n \in 1 .. N
        BY <1>0, <2>1, <2>2, <2>3, Messages DEF InOrder
      <3>2. /\ Len(got') = Len(got) + 1
            /\ \A i \in 1 .. Len(got) : got'[i] = got[i]
            /\ got'[Len(got) + 1] = Len(got) + 1
        BY <1>0, <2>3, <3>1, AppendFacts
      <3>3. NoGaps'
        BY <1>0, <3>2, AppendFacts, <2>3, <3>1 DEF InOrder, NoGaps
      <3>4. \A i \in 1 .. Len(queue') : queue'[i].kind = "item" => queue'[i].n = Len(got') + i
        BY <1>0, <2>1, <2>2, <3>2 DEF InOrder
      <3> QED  BY <2>2, <3>3, <3>4 DEF InOrder
    <2>4. CASE got' = got /\ outcome' # "none"
      BY <2>2, <2>4 DEF InOrder, NoGaps
    <2> QED  BY <1>6, <2>3, <2>4 DEF Get
  <1>7. CASE Ask \/ SetStop \/ JoinThread
    BY <1>7 DEF Ask, SetStop, JoinThread, InOrder, NoGaps, producerVars
  <1>8. CASE Leave
    BY <1>8 DEF Leave, InOrder, NoGaps, producerVars
  <1>9. CASE ConsumerClear
    BY <1>9 DEF ConsumerClear, InOrder, NoGaps, Phases, producerVars
  <1>10. CASE UNCHANGED vars
    BY <1>10 DEF vars, InOrder, NoGaps
  <1> QED
    BY <1>1, <1>2, <1>3, <1>4, <1>5, <1>6, <1>7, <1>8, <1>9, <1>10
    DEF Next, ProducerStep, ConsumerStep

\* With the default buffer of one item (utility.py, max_buffer_size), or an iterable
\* that does not fail, the consumer gets the first items of the iterable, in order
\* and without a gap, although the producer may empty the queue meanwhile.
THEOREM NoGapsCorrect ==
    ASSUME BufferSize = 1 \/ ~Fails
    PROVE  Spec => []NoGaps
  <1>1. Init => InOrder
    BY DEF Init, InOrder, NoGaps
  <1>2. IInv /\ IInv' /\ EndInv /\ InOrder /\ [Next]_vars => InOrder'
    BY InOrderNext DEF IInv
  <1>3. InOrder => NoGaps
    BY DEF InOrder
  <1> QED
    BY <1>1, <1>2, <1>3, InitIInv, NextIInv, EndInvInit, EndInvNext, PTL DEF Spec
=============================================================================
