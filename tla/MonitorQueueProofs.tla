------------------------- MODULE MonitorQueueProofs -------------------------
(***************************************************************************)
(* What MonitorQueue guarantees for any number of threads, any values and  *)
(* any capacity: types, the capacity bound, no lost wake-up, and that every*)
(* step is a step of the blocking channel.                                 *)
(***************************************************************************)
EXTENDS MonitorQueue, SequenceTheorems, TLAPS

\* The monitor's variables keep their types in every step: a waiting push
\* always still holds the value it will append.
THEOREM QueueTypes == Spec => []TypeOK
<1>1. Init => TypeOK
  <2> SUFFICES ASSUME Init PROVE TypeOK
    OBVIOUS
  <2>1. q \in Seq(Values)
    BY EmptySeq DEF Init
  <2> QED
    BY <2>1, NoValueAssumption DEF Init, TypeOK, Waiting, Woken
<1>2. TypeOK /\ [Next]_vars => TypeOK'
  <2> SUFFICES ASSUME TypeOK, [Next]_vars PROVE TypeOK'
    OBVIOUS
  <2> USE DEF TypeOK, Waiting, Woken
  <2>1. ASSUME NEW t \in Threads, NEW v \in Values, Push(t, v) PROVE TypeOK'
    BY <2>1 DEF Push, AfterPush, NotifyNotEmpty
  <2>2. ASSUME NEW t \in Threads, NEW v \in Values, PushWaits(t, v) PROVE TypeOK'
    BY <2>2 DEF PushWaits
  <2>3. ASSUME NEW t \in Threads, PushResumes(t) PROVE TypeOK'
    <3>1. AfterPush \in [Threads -> {"idle"} \cup Waiting \cup Woken]
      BY DEF AfterPush, NotifyNotEmpty
    <3>2. \A u \in Threads : AfterPush[u] \in {"wait_not_full", "woken_not_full"}
                            => arg[u] \in Values
      BY DEF AfterPush, NotifyNotEmpty
    <3>3. CASE Len(q) = MaxSize
      BY <2>3, <3>3 DEF PushResumes
    <3>4. CASE Len(q) # MaxSize
      <4>1. q' \in Seq(Values)
        <5>1. pc[t] = "woken_not_full" /\ q' = Append(q, arg[t])
          BY <2>3, <3>4 DEF PushResumes
        <5>2. q \in Seq(Values) /\ arg[t] \in Values
          BY <5>1
        <5> QED
          BY <5>1, <5>2, AppendProperties
      <4>2. /\ pc' \in [Threads -> {"idle"} \cup Waiting \cup Woken]
            /\ arg' \in [Threads -> Values \cup {NoValue}]
            /\ closed' \in BOOLEAN
        BY <2>3, <3>1, <3>4 DEF PushResumes
      <4>3. \A u \in Threads : pc'[u] \in {"wait_not_full", "woken_not_full"}
                              => arg'[u] \in Values
        BY <2>3, <3>1, <3>2, <3>4 DEF PushResumes
      <4> QED
        BY <4>1, <4>2, <4>3
    <3> QED
      BY <3>3, <3>4
  <2>4. ASSUME NEW t \in Threads, Pop(t) PROVE TypeOK'
    BY <2>4 DEF Pop, AfterPop, NotifyNotFull
  <2>5. ASSUME NEW t \in Threads, PopWaits(t) PROVE TypeOK'
    BY <2>5 DEF PopWaits
  <2>6. ASSUME NEW t \in Threads, PopResumes(t) PROVE TypeOK'
    <3>1. /\ AfterPop \in [Threads -> {"idle"} \cup Waiting \cup Woken]
          /\ \A u \in Threads : AfterPop[u] \in {"wait_not_full", "woken_not_full"}
                               => arg[u] \in Values
      BY DEF AfterPop, NotifyNotFull
    <3>2. CASE q = << >>
      BY <2>6, <3>2 DEF PopResumes
    <3>3. CASE q # << >>
      <4>1. q' \in Seq(Values)
        BY <2>6, <3>3 DEF PopResumes
      <4> QED
        BY <2>6, <3>1, <3>3, <4>1 DEF PopResumes
    <3> QED
      BY <3>2, <3>3
  <2>7. ASSUME NEW t \in Threads, Close(t) PROVE TypeOK'
    BY <2>7 DEF Close, NotifyNotEmpty
  <2>8. ASSUME NEW t \in Threads, SpuriousWakeup(t) PROVE TypeOK'
    BY <2>8 DEF SpuriousWakeup
  <2>9. CASE UNCHANGED vars
    BY <2>9 DEF vars
  <2> QED
    BY <2>1, <2>2, <2>3, <2>4, <2>5, <2>6, <2>7, <2>8, <2>9 DEF Next, Throws
<1> QED
  BY <1>1, <1>2, PTL DEF Spec

\* No push, and no woken push, takes the queue past max_size.
THEOREM QueueBounded == Spec => []NeverOverfull
<1>1. Init => NeverOverfull
  BY MaxSizeAssumption DEF Init, NeverOverfull
<1>2. TypeOK /\ NeverOverfull /\ [Next]_vars => NeverOverfull'
  <2> SUFFICES ASSUME TypeOK, NeverOverfull, [Next]_vars PROVE NeverOverfull'
    OBVIOUS
  <2> USE MaxSizeAssumption DEF TypeOK, NeverOverfull
  <2>1. ASSUME NEW t \in Threads, NEW v \in Values, Push(t, v) PROVE NeverOverfull'
    BY <2>1 DEF Push
  <2>2. ASSUME NEW t \in Threads, PushResumes(t) PROVE NeverOverfull'
    BY <2>2 DEF PushResumes
  <2>3. ASSUME NEW t \in Threads, Pop(t) \/ PopResumes(t) PROVE NeverOverfull'
    BY <2>3 DEF Pop, PopResumes
  <2>4. ASSUME UNCHANGED q PROVE NeverOverfull'
    BY <2>4
  <2> QED
    BY <2>1, <2>2, <2>3, <2>4
       DEF Next, vars, PushWaits, PopWaits, Close, Throws, SpuriousWakeup
<1> QED
  BY <1>1, <1>2, QueueTypes, PTL DEF Spec

\* A thread waits without a notification only while there is nothing for it
\* to do, for any number of producers and consumers.  Notifying only on the
\* empty and on the full edge is enough because notify_all empties the wait
\* set, and a wait starts only on that same edge.
THEOREM QueueWakesWaiters == Spec => []NoLostWakeup
<1>1. Init => NoLostWakeup
  BY DEF Init, NoLostWakeup
<1>2. TypeOK /\ NeverOverfull /\ NoLostWakeup /\ [Next]_vars => NoLostWakeup'
  <2> SUFFICES ASSUME TypeOK, NeverOverfull, NoLostWakeup, [Next]_vars
               PROVE NoLostWakeup'
    OBVIOUS
  <2> USE MaxSizeAssumption DEF TypeOK, NeverOverfull, NoLostWakeup, Waiting, Woken
  <2>1. ASSUME NEW t \in Threads, NEW v \in Values, Push(t, v) PROVE NoLostWakeup'
    BY <2>1 DEF Push, AfterPush, NotifyNotEmpty
  <2>2. ASSUME NEW t \in Threads, NEW v \in Values, PushWaits(t, v) PROVE NoLostWakeup'
    BY <2>2 DEF PushWaits
  <2>3. ASSUME NEW t \in Threads, PushResumes(t) PROVE NoLostWakeup'
    BY <2>3 DEF PushResumes, AfterPush, NotifyNotEmpty
  <2>4. ASSUME NEW t \in Threads, Pop(t) PROVE NoLostWakeup'
    BY <2>4 DEF Pop, AfterPop, NotifyNotFull
  <2>5. ASSUME NEW t \in Threads, PopWaits(t) PROVE NoLostWakeup'
    BY <2>5 DEF PopWaits
  <2>6. ASSUME NEW t \in Threads, PopResumes(t) PROVE NoLostWakeup'
    BY <2>6 DEF PopResumes, AfterPop, NotifyNotFull
  <2>7. ASSUME NEW t \in Threads, Close(t) PROVE NoLostWakeup'
    BY <2>7 DEF Close, NotifyNotEmpty
  <2>8. ASSUME NEW t \in Threads, SpuriousWakeup(t) PROVE NoLostWakeup'
    BY <2>8 DEF SpuriousWakeup
  <2>9. CASE UNCHANGED vars
    BY <2>9 DEF vars
  <2> QED
    BY <2>1, <2>2, <2>3, <2>4, <2>5, <2>6, <2>7, <2>8, <2>9 DEF Next, Throws
<1> QED
  BY <1>1, <1>2, QueueTypes, QueueBounded, PTL DEF Spec

-----------------------------------------------------------------------------
\* A woken pop completes or waits again, as a step of the channel or none.
LEMMA PopResumesRefines ==
  ASSUME TypeOK, NEW t \in Threads, PopResumes(t)
  PROVE  [Channel!Next]_Channel!vars
<1> USE DEF TypeOK, Waiting, Woken, Blocked
<1>1. CASE q = << >> /\ ~closed
  <2>1. Blocked' = Blocked
    BY <1>1 DEF PopResumes
  <2> QED
    BY <1>1, <2>1 DEF PopResumes, Channel!vars
<1>2. CASE q = << >> /\ closed
  <2>1. Channel!AbortReceive(t)
    BY <1>2 DEF PopResumes, Channel!AbortReceive
  <2> QED
    BY <2>1 DEF Channel!Next
<1>3. CASE q # << >>
  <2>1. Blocked' = [Blocked EXCEPT ![t] = "idle"]
    BY <1>3 DEF PopResumes, AfterPop, NotifyNotFull
  <2>2. Channel!FinishReceive(t)
    BY <1>3, <2>1 DEF PopResumes, Channel!FinishReceive
  <2> QED
    BY <2>2 DEF Channel!Next
<1> QED
  BY <1>1, <1>2, <1>3

\* A woken push completes or waits again, as a step of the channel or none.
LEMMA PushResumesRefines ==
  ASSUME TypeOK, NeverOverfull, NEW t \in Threads, PushResumes(t)
  PROVE  [Channel!Next]_Channel!vars
<1> USE MaxSizeAssumption DEF TypeOK, Waiting, Woken, Blocked
<1>1. CASE Len(q) = MaxSize
  <2>1. Blocked' = Blocked
    BY <1>1 DEF PushResumes
  <2> QED
    BY <1>1, <2>1 DEF PushResumes, Channel!vars
<1>2. CASE Len(q) # MaxSize
  <2>1. Blocked' = [Blocked EXCEPT ![t] = "idle"]
    BY <1>2 DEF PushResumes, AfterPush, NotifyNotEmpty
  <2>2. Len(q) < MaxSize
    BY <1>2 DEF NeverOverfull
  <2>3. Channel!FinishSend(t)
    BY <1>2, <2>1, <2>2 DEF PushResumes, Channel!FinishSend
  <2> QED
    BY <2>3 DEF Channel!Next
<1> QED
  BY <1>1, <1>2

\* Every behaviour of the monitor is one of the blocking channel: waits,
\* notifications and repeated tests are invisible, and each method takes
\* effect in one step.
THEOREM QueueImplementsChannel == Spec => Channel!SafeSpec
<1>1. Init => Channel!Init
  BY DEF Init, Channel!Init, Blocked
<1>2. TypeOK /\ NeverOverfull /\ [Next]_vars => [Channel!Next]_Channel!vars
  <2> SUFFICES ASSUME TypeOK, NeverOverfull, [Next]_vars
               PROVE  [Channel!Next]_Channel!vars
    OBVIOUS
  <2> USE MaxSizeAssumption DEF TypeOK, Waiting, Woken, Blocked
  <2>1. ASSUME NEW t \in Threads, NEW v \in Values, Push(t, v)
        PROVE  [Channel!Next]_Channel!vars
    <3>1. Blocked' = Blocked
      BY <2>1 DEF Push, AfterPush, NotifyNotEmpty
    <3>2. Channel!Send(t, v)
      BY <2>1, <3>1 DEF Push, Channel!Send, NeverOverfull
    <3> QED
      BY <3>2 DEF Channel!Next
  <2>2. ASSUME NEW t \in Threads, NEW v \in Values, PushWaits(t, v)
        PROVE  [Channel!Next]_Channel!vars
    <3>1. Channel!BlockSend(t, v)
      BY <2>2 DEF PushWaits, Channel!BlockSend
    <3> QED
      BY <3>1 DEF Channel!Next
  <2>3. ASSUME NEW t \in Threads, Pop(t) PROVE [Channel!Next]_Channel!vars
    <3>1. Blocked' = Blocked
      BY <2>3 DEF Pop, AfterPop, NotifyNotFull
    <3>2. Channel!Receive(t)
      BY <2>3, <3>1 DEF Pop, Channel!Receive
    <3> QED
      BY <3>2 DEF Channel!Next
  <2>4. ASSUME NEW t \in Threads, PopWaits(t) PROVE [Channel!Next]_Channel!vars
    <3>1. Channel!BlockReceive(t)
      BY <2>4 DEF PopWaits, Channel!BlockReceive
    <3> QED
      BY <3>1 DEF Channel!Next
  <2>5. ASSUME NEW t \in Threads, Close(t) PROVE [Channel!Next]_Channel!vars
    <3>1. Blocked' = Blocked
      BY <2>5 DEF Close, NotifyNotEmpty
    <3>2. Channel!Close
      BY <2>5, <3>1 DEF Close, Channel!Close
    <3> QED
      BY <3>2 DEF Channel!Next
  <2>6. ASSUME NEW t \in Threads, SpuriousWakeup(t) PROVE [Channel!Next]_Channel!vars
    <3>1. Blocked' = Blocked
      BY <2>6 DEF SpuriousWakeup
    <3> QED
      BY <2>6, <3>1 DEF SpuriousWakeup, Channel!vars
  <2>7. CASE UNCHANGED vars
    BY <2>7 DEF vars, Channel!vars
  <2> QED
    BY <2>1, <2>2, <2>3, <2>4, <2>5, <2>6, <2>7, PopResumesRefines, PushResumesRefines
       DEF Next, Throws
<1> QED
  BY <1>1, <1>2, QueueTypes, QueueBounded, PTL DEF Spec, Channel!SafeSpec

=============================================================================
