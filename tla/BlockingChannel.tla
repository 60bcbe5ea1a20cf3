--------------------------- MODULE BlockingChannel ---------------------------
(***************************************************************************)
(* What the queue of src/common/queue.h promises to the threads that share *)
(* it: a bounded FIFO channel whose senders and receivers may block.  No   *)
(* mutex, no condition variable, no notification: a blocked operation can  *)
(* complete as soon as the content of the channel allows it.               *)
(***************************************************************************)
EXTENDS Naturals, Sequences

CONSTANTS Threads, Values, Capacity, NoValue

VARIABLES
  chan,    \* the values in transit, oldest first
  closed,  \* the channel has been closed
  op,      \* op[t]: the operation t is blocked in, or "idle"
  arg      \* arg[t]: the value a blocked sender is holding

vars == <<chan, closed, op, arg>>

Init ==
  /\ chan = << >>
  /\ closed = FALSE
  /\ op = [t \in Threads |-> "idle"]
  /\ arg = [t \in Threads |-> NoValue]

Send(t, v) ==
  /\ op[t] = "idle" /\ ~closed /\ Len(chan) < Capacity
  /\ chan' = Append(chan, v)
  /\ UNCHANGED <<closed, op, arg>>

BlockSend(t, v) ==
  /\ op[t] = "idle" /\ ~closed /\ Len(chan) = Capacity
  /\ op' = [op EXCEPT ![t] = "push"]
  /\ arg' = [arg EXCEPT ![t] = v]
  /\ UNCHANGED <<chan, closed>>

FinishSend(t) ==
  /\ op[t] = "push" /\ Len(chan) < Capacity
  /\ chan' = Append(chan, arg[t])
  /\ op' = [op EXCEPT ![t] = "idle"]
  /\ arg' = [arg EXCEPT ![t] = NoValue]
  /\ UNCHANGED closed

Receive(t) ==
  /\ op[t] = "idle" /\ chan # << >>
  /\ chan' = Tail(chan)
  /\ UNCHANGED <<closed, op, arg>>

BlockReceive(t) ==
  /\ op[t] = "idle" /\ chan = << >> /\ ~closed
  /\ op' = [op EXCEPT ![t] = "pop"]
  /\ UNCHANGED <<chan, closed, arg>>

FinishReceive(t) ==
  /\ op[t] = "pop" /\ chan # << >>
  /\ chan' = Tail(chan)
  /\ op' = [op EXCEPT ![t] = "idle"]
  /\ UNCHANGED <<closed, arg>>

AbortReceive(t) ==
  /\ op[t] = "pop" /\ chan = << >> /\ closed
  /\ op' = [op EXCEPT ![t] = "idle"]
  /\ UNCHANGED <<chan, closed, arg>>

Close ==
  /\ ~closed
  /\ closed' = TRUE
  /\ UNCHANGED <<chan, op, arg>>

Next ==
  \/ Close
  \/ \E t \in Threads :
       \/ FinishSend(t) \/ Receive(t) \/ BlockReceive(t)
       \/ FinishReceive(t) \/ AbortReceive(t)
       \/ \E v \in Values : Send(t, v) \/ BlockSend(t, v)

SafeSpec == Init /\ [][Next]_vars

\* A blocked operation the channel can serve is served.
Spec ==
  /\ SafeSpec
  /\ \A t \in Threads : /\ WF_vars(FinishSend(t))
                        /\ WF_vars(FinishReceive(t) \/ AbortReceive(t))

=============================================================================
