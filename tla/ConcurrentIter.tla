--------------------------- MODULE ConcurrentIter ---------------------------
(***************************************************************************)
(* utility.ConcurrentIter: a background thread iterates over an iterable   *)
(* and hands the items to the consumer through a bounded queue.  Stream    *)
(* tasks read their input and write their output with it.  The consumer is *)
(* the body of "with ConcurrentIter(...) as it: for item in it", which may *)
(* leave early, by break or by an exception.                               *)
(***************************************************************************)
EXTENDS Naturals, Sequences

CONSTANTS
    N,          \* how many items the iterable has
    Fails,      \* may it raise an exception, before or after any of them?
    None,       \* the items (by number) that are None
    BufferSize  \* max_buffer_size

ASSUME ConcurrentIterAssumption ==
    /\ N \in Nat /\ Fails \in BOOLEAN
    /\ None \subseteq 1 .. N
    /\ BufferSize \in Nat \ {0}

VARIABLES
    queue,     \* the items between the two threads, by number, and a last message
    stop,      \* the stop event
    producer,  \* where _producer is
    supplied,  \* items the iterable has given
    failed,    \* has it raised an exception?
    consumer,  \* where the consumer is
    got,       \* the items the consumer has got
    outcome,   \* how the iteration ended for the consumer
    late       \* history: items the iterable gave after stop was set

vars == <<queue, stop, producer, supplied, failed, consumer, got, outcome, late>>
producerVars == <<producer, supplied, failed, late>>
consumerVars == <<stop, consumer, got, outcome>>

Item(n) == [kind |-> "item", n |-> n]
Last    == [kind |-> "last", n |-> 0]
Error   == [kind |-> "error", n |-> 0]
Message == {Item(n) : n \in 1 .. N} \cup {Last, Error}

Init ==
    /\ queue = <<>>
    /\ stop = FALSE
    /\ producer = "next"
    /\ supplied = 0
    /\ failed = FALSE
    /\ consumer = "body"
    /\ got = <<>>
    /\ outcome = "none"
    /\ late = 0

-----------------------------------------------------------------------------
\* clear() calls get_nowait until the queue is empty or the item is None.
ClearMore == queue # <<>> /\ Head(queue).n \notin None /\ queue' = Tail(queue)
ClearEnd ==
    \/ queue = <<>> /\ UNCHANGED queue
    \/ queue # <<>> /\ Head(queue).n \in None /\ queue' = Tail(queue)

\* mutant: the queue holds one item more.
PutOneMore(m) ==
    /\ Len(queue) <= BufferSize
    /\ queue' = Append(queue, m)

Put(m) ==
    /\ Len(queue) < BufferSize
    /\ queue' = Append(queue, m)

\* for item in self.__iterable
NextItem ==
    /\ producer = "next"
    /\ \/ /\ supplied < N
          /\ supplied' = supplied + 1
          /\ late' = IF stop THEN late + 1 ELSE late
          /\ producer' = "put"
          /\ UNCHANGED failed
       \/ /\ supplied = N
          /\ producer' = "putLast"
          /\ UNCHANGED <<supplied, failed, late>>
       \/ /\ Fails
          /\ failed' = TRUE
          /\ producer' = "clearError"
          /\ UNCHANGED <<supplied, late>>
    /\ UNCHANGED <<queue, consumerVars>>

PutItem ==
    /\ producer = "put"
    /\ Put(Item(supplied))
    /\ producer' = "check"
    /\ UNCHANGED <<supplied, failed, late, consumerVars>>

\* mutant: the stop event is not looked at.
CheckNothing ==
    /\ producer = "check"
    /\ producer' = "next"
    /\ UNCHANGED <<queue, supplied, failed, late, consumerVars>>

CheckStop ==
    /\ producer = "check"
    /\ producer' = IF stop THEN "clear" ELSE "next"
    /\ UNCHANGED <<queue, supplied, failed, late, consumerVars>>

\* clear() on the way out of the loop, and in the handler of an exception.
ProducerClear ==
    /\ producer \in {"clear", "clearError"}
    /\ \/ ClearMore /\ UNCHANGED producer
       \/ ClearEnd /\ producer' = IF producer = "clear" THEN "putLast" ELSE "putError"
    /\ UNCHANGED <<supplied, failed, late, consumerVars>>

\* mutant: the end is announced after an exception as well.
PutLastAlways ==
    /\ producer \in {"putLast", "putError"}
    /\ Put(Last)
    /\ producer' = "ended"
    /\ UNCHANGED <<supplied, failed, late, consumerVars>>

PutLast ==
    /\ producer \in {"putLast", "putError"}
    /\ Put(IF producer = "putLast" THEN Last ELSE Error)
    /\ producer' = "ended"
    /\ UNCHANGED <<supplied, failed, late, consumerVars>>

ProducerStep == NextItem \/ PutItem \/ CheckStop \/ ProducerClear \/ PutLast

-----------------------------------------------------------------------------
\* The body of the loop asks for the next item: the thread waits in queue.get.
Ask ==
    /\ consumer = "body"
    /\ consumer' = "get"
    /\ UNCHANGED <<queue, stop, got, outcome, producerVars>>

\* The body is left before the iteration is over.
Leave ==
    /\ consumer = "body"
    /\ outcome' = "left"
    /\ consumer' = "stop"
    /\ UNCHANGED <<queue, stop, got, producerVars>>

Get ==
    /\ consumer = "get" /\ queue # <<>>
    /\ queue' = Tail(queue)
    /\ \/ /\ Head(queue).kind = "item"
          /\ got' = Append(got, Head(queue).n)
          /\ consumer' = "body" /\ UNCHANGED outcome
       \/ /\ Head(queue) = Last
          /\ consumer' = "stop" /\ outcome' = "ended" /\ UNCHANGED got
       \/ /\ Head(queue) = Error
          /\ consumer' = "stop" /\ outcome' = "raised" /\ UNCHANGED got
    /\ UNCHANGED <<stop, producerVars>>

\* join(), of the generator or of __exit__, whichever comes first; a second call
\* finds the thread ended.
SetStop ==
    /\ consumer = "stop"
    /\ stop' = TRUE
    /\ consumer' = "clear"
    /\ UNCHANGED <<queue, got, outcome, producerVars>>

\* mutant: the thread is joined without making room in the queue.
ConsumerClearNothing ==
    /\ consumer = "clear"
    /\ consumer' = "join"
    /\ UNCHANGED <<queue, stop, got, outcome, producerVars>>

ConsumerClear ==
    /\ consumer = "clear"
    /\ \/ ClearMore /\ UNCHANGED consumer
       \/ ClearEnd /\ consumer' = "join"
    /\ UNCHANGED <<stop, got, outcome, producerVars>>

JoinThread ==
    /\ consumer = "join" /\ producer = "ended"
    /\ consumer' = "gone"
    /\ UNCHANGED <<queue, stop, got, outcome, producerVars>>

ConsumerStep == Ask \/ Leave \/ Get \/ SetStop \/ ConsumerClear \/ JoinThread

Next == ProducerStep \/ ConsumerStep

Spec == Init /\ [][Next]_vars

\* Both threads run.
FairSpec == Spec /\ WF_vars(ProducerStep) /\ WF_vars(ConsumerStep)

-----------------------------------------------------------------------------
TypeOK ==
    /\ queue \in Seq(Message)
    /\ Len(queue) <= BufferSize
    /\ stop \in BOOLEAN
    /\ producer \in {"next", "put", "check", "clear", "clearError",
                     "putLast", "putError", "ended"}
    /\ supplied \in 0 .. N /\ failed \in BOOLEAN /\ late \in Nat
    /\ consumer \in {"body", "get", "stop", "clear", "join", "gone"}
    /\ got \in Seq(1 .. N)
    /\ outcome \in {"none", "left", "ended", "raised"}

\* The items the consumer gets are the first ones of the iterable, in order and
\* without gaps, although both threads remove items from the queue.
NoGaps == \A i \in DOMAIN got : got[i] = i

\* An iteration that ends without an exception has given every item: neither the
\* exception of the iterable nor what is cleared away is taken for the end.
EndIsEnd == outcome = "ended" => Len(got) = N /\ ~failed

\* After the consumer has set the stop event, the iterable is asked for one more
\* item at most: a task that has failed does not go on reading its input.
StopsSoon == late <= 1

\* Once the consumer waits for the thread, nobody removes items any more but the
\* thread itself: there is room for what it still has to put.
RoomForProducer ==
    consumer = "join" /\ producer \in {"next", "put", "putLast", "putError"} =>
        Len(queue) < BufferSize

\* Whenever the consumer leaves, wherever the producer is, join returns: the
\* producer is not left waiting for room in the queue.
JoinReturns == consumer = "stop" ~> consumer = "gone"
=============================================================================
