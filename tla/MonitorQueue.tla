---------------------------- MODULE MonitorQueue ----------------------------
(***************************************************************************)
(* The blocking queue of src/common/queue.h, every queue of the server and *)
(* of the client.  Each method runs under one mutex, so a call that does   *)
(* not wait is one action; a call that waits on a condition variable is    *)
(* split where it gives the mutex up: it joins the wait set, and goes on   *)
(* only after a notification (or a spurious wake-up, which the C++         *)
(* condition variable allows) and after it got the mutex again.            *)
(***************************************************************************)
EXTENDS Naturals, Sequences

CONSTANTS
  Threads,   \* the threads that share the queue
  Values,    \* what is pushed
  MaxSize,   \* max_size
  NoValue    \* the argument slot of a thread that is not blocked in push

ASSUME MaxSizeAssumption == MaxSize \in Nat \ {0}
ASSUME NoValueAssumption == NoValue \notin Values

VARIABLES
  q,       \* std::queue q, oldest first
  closed,  \* bool closed
  pc,      \* pc[t]: where thread t is
  arg      \* arg[t]: the value of a push that waits

vars == <<q, closed, pc, arg>>

Waiting == {"wait_not_empty", "wait_not_full"}
Woken == {"woken_not_empty", "woken_not_full"}

Init ==
  /\ q = << >>
  /\ closed = FALSE
  /\ pc = [t \in Threads |-> "idle"]
  /\ arg = [t \in Threads |-> NoValue]

-----------------------------------------------------------------------------
\* is_not_empty.notify_all() and is_not_full.notify_all()
NotifyNotEmpty ==
  [t \in Threads |-> IF pc[t] = "wait_not_empty" THEN "woken_not_empty" ELSE pc[t]]
NotifyNotFull ==
  [t \in Threads |-> IF pc[t] = "wait_not_full" THEN "woken_not_full" ELSE pc[t]]

\* The tail of push and try_push: an empty queue wakes its consumers.
AfterPush == IF q = << >> THEN NotifyNotEmpty ELSE pc

\* Mutant: the size is compared after the element was taken.
AfterPop_TestsTooLate == IF Len(q) - 1 = MaxSize THEN NotifyNotFull ELSE pc

\* The tail of pop and try_pop: a full queue wakes its producers.
AfterPop == IF Len(q) = MaxSize THEN NotifyNotFull ELSE pc

\* push, and try_push, on an open queue with room
Push(t, v) ==
  /\ pc[t] = "idle" /\ ~closed /\ Len(q) # MaxSize
  /\ q' = Append(q, v)
  /\ pc' = AfterPush
  /\ UNCHANGED <<closed, arg>>

\* Mutant: the waiting push does not keep its value.
PushWaits_LosesValue(t, v) ==
  /\ pc[t] = "idle" /\ ~closed /\ Len(q) = MaxSize
  /\ pc' = [pc EXCEPT ![t] = "wait_not_full"]
  /\ UNCHANGED <<q, closed, arg>>

\* push on an open full queue: the call enters is_not_full.wait
PushWaits(t, v) ==
  /\ pc[t] = "idle" /\ ~closed /\ Len(q) = MaxSize
  /\ pc' = [pc EXCEPT ![t] = "wait_not_full"]
  /\ arg' = [arg EXCEPT ![t] = v]
  /\ UNCHANGED <<q, closed>>

\* Mutant: if instead of while around is_not_full.wait.
PushResumes_TestsOnce(t) ==
  /\ pc[t] = "woken_not_full"
  /\ q' = Append(q, arg[t])
  /\ pc' = [AfterPush EXCEPT ![t] = "idle"]
  /\ arg' = [arg EXCEPT ![t] = NoValue]
  /\ UNCHANGED closed

\* A woken push tests the size again; it does not look at closed again.
PushResumes(t) ==
  /\ pc[t] = "woken_not_full"
  /\ \/ /\ Len(q) = MaxSize
        /\ pc' = [pc EXCEPT ![t] = "wait_not_full"]
        /\ UNCHANGED <<q, arg>>
     \/ /\ Len(q) # MaxSize
        /\ q' = Append(q, arg[t])
        /\ pc' = [AfterPush EXCEPT ![t] = "idle"]
        /\ arg' = [arg EXCEPT ![t] = NoValue]
  /\ UNCHANGED closed

\* pop, and try_pop, on a queue that is not empty, closed or not
Pop(t) ==
  /\ pc[t] = "idle" /\ q # << >>
  /\ q' = Tail(q)
  /\ pc' = AfterPop
  /\ UNCHANGED <<closed, arg>>

\* pop on an open empty queue: the call enters is_not_empty.wait
PopWaits(t) ==
  /\ pc[t] = "idle" /\ q = << >> /\ ~closed
  /\ pc' = [pc EXCEPT ![t] = "wait_not_empty"]
  /\ UNCHANGED <<q, closed, arg>>

\* Mutant: a woken pop tests closed before the queue, and drops what is left.
PopResumes_ClosedFirst(t) ==
  /\ pc[t] = "woken_not_empty"
  /\ \/ /\ q = << >> /\ ~closed
        /\ pc' = [pc EXCEPT ![t] = "wait_not_empty"]
        /\ UNCHANGED q
     \/ /\ closed
        /\ pc' = [pc EXCEPT ![t] = "idle"]
        /\ UNCHANGED q
     \/ /\ q # << >> /\ ~closed
        /\ q' = Tail(q)
        /\ pc' = [AfterPop EXCEPT ![t] = "idle"]
  /\ UNCHANGED <<closed, arg>>

\* A woken pop tests the queue, then closed, again.
PopResumes(t) ==
  /\ pc[t] = "woken_not_empty"
  /\ \/ /\ q = << >> /\ ~closed
        /\ pc' = [pc EXCEPT ![t] = "wait_not_empty"]
        /\ UNCHANGED q
     \/ /\ q = << >> /\ closed
        /\ pc' = [pc EXCEPT ![t] = "idle"]
        /\ UNCHANGED q
     \/ /\ q # << >>
        /\ q' = Tail(q)
        /\ pc' = [AfterPop EXCEPT ![t] = "idle"]
  /\ UNCHANGED <<closed, arg>>

\* Mutant: close forgets the notification.
Close_Silent(t) ==
  /\ pc[t] = "idle" /\ ~closed
  /\ closed' = TRUE
  /\ UNCHANGED <<q, pc, arg>>

\* close wakes the consumers, not the producers.
Close(t) ==
  /\ pc[t] = "idle" /\ ~closed
  /\ closed' = TRUE
  /\ pc' = NotifyNotEmpty
  /\ UNCHANGED <<q, arg>>

\* Every call that throws at once (push, try_push and close on a closed
\* queue, pop and try_pop on a closed empty one) leaves the queue alone.
Throws(t) ==
  /\ pc[t] = "idle" /\ closed
  /\ UNCHANGED vars

\* The condition variable may return without a notification.
SpuriousWakeup(t) ==
  /\ pc[t] \in Waiting
  /\ pc' = [pc EXCEPT ![t] = IF @ = "wait_not_empty" THEN "woken_not_empty"
                                                     ELSE "woken_not_full"]
  /\ UNCHANGED <<q, closed, arg>>

Next ==
  \E t \in Threads :
    \/ PushResumes(t) \/ Pop(t) \/ PopWaits(t) \/ PopResumes(t)
    \/ Close(t) \/ Throws(t) \/ SpuriousWakeup(t)
    \/ \E v \in Values : Push(t, v) \/ PushWaits(t, v)

Spec == Init /\ [][Next]_vars

\* A notified thread gets the mutex: no critical section blocks while it
\* holds it.  Nothing obliges a thread to call a method, or a condition
\* variable to wake up on its own.
FairSpec ==
  /\ Spec
  /\ \A t \in Threads : WF_vars(PushResumes(t)) /\ WF_vars(PopResumes(t))

-----------------------------------------------------------------------------
TypeOK ==
  /\ q \in Seq(Values)
  /\ closed \in BOOLEAN
  /\ pc \in [Threads -> {"idle"} \cup Waiting \cup Woken]
  /\ arg \in [Threads -> Values \cup {NoValue}]
  /\ \A t \in Threads : pc[t] \in {"wait_not_full", "woken_not_full"} => arg[t] \in Values

\* The queue never grows past max_size, whichever producers were woken.
NeverOverfull == Len(q) <= MaxSize

\* No lost wake-up.  A consumer that waits without a notification waits for
\* a reason: the queue is empty and open.  A producer that does waits on a
\* full queue.  push and pop notify only on the empty and the full edge.
NoLostWakeup ==
  \A t \in Threads :
    /\ pc[t] = "wait_not_empty" => q = << >> /\ ~closed
    /\ pc[t] = "wait_not_full" => Len(q) = MaxSize

\* Once the queue is closed every blocked pop returns, with an element or
\* with ClosedQueue: what the sender thread's shutdown relies on.
PopsReturnAfterClose ==
  \A t \in Threads :
    (closed /\ pc[t] \in {"wait_not_empty", "woken_not_empty"}) ~> pc[t] = "idle"

Blocked ==
  [t \in Threads |->
     IF pc[t] = "idle" THEN "idle"
     ELSE IF pc[t] \in {"wait_not_empty", "woken_not_empty"} THEN "pop" ELSE "push"]

Channel == INSTANCE BlockingChannel WITH
             chan <- q, op <- Blocked, Capacity <- MaxSize

\* The monitor implements the blocking channel, its progress included: a
\* blocked call the content allows to complete is never forgotten.
ImplementsChannel == Channel!Spec

=============================================================================
