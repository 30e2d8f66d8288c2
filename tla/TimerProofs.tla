---------------------------- MODULE TimerProofs ----------------------------
(***************************************************************************)
(* Proofs about Timer, for any number of timers, any delays and periods.   *)
(***************************************************************************)
EXTENDS Timer, TLAPS

LEMMA InitTimerInv == Init => TimerInv
BY TimerAssumption DEF Init, TimerInv, TypeOK, NoDanglingReference,
   IdsAreFresh, QueuedIsAlive, CalledIsFlagged, Ids

\* Type correctness is inductive by itself.
LEMMA TypeStep == TypeOK /\ [Next]_vars => TypeOK'
<1> SUFFICES ASSUME TypeOK, [Next]_vars PROVE TypeOK'
  OBVIOUS
<1> USE TimerAssumption DEF TypeOK, timerVars
<1>1. ASSUME NEW t \in 0 .. now, NEW delay \in Delays, NEW per \in Periods,
             Create(t, delay, per)
      PROVE  TypeOK'
  <2>1. t + delay \in Nat /\ per \in Nat
    OBVIOUS
  <2> QED BY <1>1, <2>1 DEF Create, NewId, NotifyAll, Ids
<1>2. ASSUME NEW i \in Ids, Destroy(i) PROVE TypeOK'
  BY <1>2 DEF Destroy, NotifyAll, HandlerRuns
<1>3. CASE DestructorStarts
  BY <1>3 DEF DestructorStarts, NotifyAll
<1>4. CASE DestructorReturns
  BY <1>4 DEF DestructorReturns
<1>5. CASE Exit \/ WaitForWork \/ TimedWake \/ SpuriousWake
  BY <1>5 DEF Exit, WaitForWork, TimedWake, SpuriousWake
<1>6. CASE WaitForTimer
  BY <1>6 DEF WaitForTimer, First
<1>7. CASE Call
  BY <1>7 DEF Call, First
<1>8. CASE CallbackReturns
  <2>1. cur \in active => deadline[cur] + period[cur] \in Nat
    OBVIOUS
  <2> QED BY <1>8, <2>1 DEF CallbackReturns
<1>9. CASE Tick
  BY <1>9 DEF Tick
<1>10. CASE Over \/ UNCHANGED vars
  BY <1>10 DEF Over, vars
<1> QED
  BY <1>1, <1>2, <1>3, <1>4, <1>5, <1>6, <1>7, <1>8, <1>9, <1>10
     DEF Next, Worker

\* Type correctness, for every value of the constants.
THEOREM TimerTypeCorrect == Spec => []TypeOK
<1>1. Init => TypeOK
  BY InitTimerInv DEF TimerInv
<1> QED BY <1>1, TypeStep, PTL DEF Spec

\* The queue, the flags and the history fit together after every step, if
\* destroy() is called at most once for each timer.
LEMMA TimerInvStep ==
  ASSUME ~DestroyTwice, TimerInv, [Next]_vars
  PROVE  TimerInv'
<1> USE DEF TimerInv, NoDanglingReference, IdsAreFresh, QueuedIsAlive,
            CalledIsFlagged, timerVars
<1>1. TypeOK'
  BY TypeStep
<1>2. ASSUME NEW t \in 0 .. now, NEW delay \in Delays, NEW per \in Periods,
             Create(t, delay, per)
      PROVE  TimerInv'
  <2>1. /\ nextId \in Nat /\ nextId' = nextId + 1
        /\ active' = active \cup {nextId} /\ queue' = queue \cup {nextId}
        /\ UNCHANGED <<cur, running, destroyed>>
    BY <1>2 DEF Create, NewId, TypeOK
  <2>2. /\ wPc' = "callback" => wPc = "callback"
        /\ wPc' # "undefined"
    BY <1>2 DEF Create, NotifyAll
  <2>3. nextId \notin active \cup running \cup destroyed
    BY <2>1
  <2>4. IdsAreFresh'
    BY <2>1, TimerAssumption DEF TypeOK, Ids
  <2> QED BY <1>1, <2>1, <2>2, <2>3, <2>4
<1>3. ASSUME NEW i \in Ids, Destroy(i) PROVE TimerInv'
  <2>1. /\ i \in active /\ i \notin destroyed
        /\ destroyed' = destroyed \cup {i}
        /\ UNCHANGED <<cur, nextId>>
    BY <1>3 DEF Destroy
  <2>2. /\ wPc' = "callback" <=> wPc = "callback"
        /\ wPc' # "undefined"
    BY <1>3 DEF Destroy, NotifyAll
  <2>3. CASE i \in running
    BY <1>1, <1>3, <2>1, <2>2, <2>3 DEF Destroy, HandlerRuns
  <2>4. CASE i \notin running
    <3>1. /\ queue' = queue \ Erased(i) /\ active' = active \ {i}
          /\ running' = running
      BY <1>3, <2>4 DEF Destroy, HandlerRuns
    <3>2. i \notin queue'
      BY <3>1 DEF Erased
    <3>3. wPc = "callback" => cur # i
      BY <2>1, <2>4
    <3> QED BY <1>1, <2>1, <2>2, <3>1, <3>2, <3>3
  <2> QED BY <2>3, <2>4
<1>4. CASE DestructorStarts
  BY <1>1, <1>4 DEF DestructorStarts, NotifyAll
<1>5. CASE DestructorReturns
  BY <1>1, <1>5 DEF DestructorReturns
<1>6. CASE Exit \/ WaitForWork \/ WaitForTimer \/ TimedWake \/ SpuriousWake
  BY <1>1, <1>6 DEF Exit, WaitForWork, WaitForTimer, TimedWake, SpuriousWake
<1>7. CASE Call
  BY <1>1, <1>7 DEF Call, First
<1>8. CASE CallbackReturns
  BY <1>1, <1>8 DEF CallbackReturns, DestroyedMeanwhile
<1>9. CASE Tick
  BY <1>1, <1>9 DEF Tick
<1>10. CASE Over \/ UNCHANGED vars
  BY <1>1, <1>10 DEF Over, vars
<1> QED
  BY <1>2, <1>3, <1>4, <1>5, <1>6, <1>7, <1>8, <1>9, <1>10 DEF Next, Worker

\* The invariant holds in every behaviour.
THEOREM TimerInvHolds == ~DestroyTwice => (Spec => []TimerInv)
<1> SUFFICES ASSUME ~DestroyTwice PROVE Spec => []TimerInv
  OBVIOUS
<1>1. TimerInv /\ [Next]_vars => TimerInv'
  BY TimerInvStep
<1> QED BY <1>1, InitTimerInv, PTL DEF Spec

\* No reference in the queue, nor the worker's own, outlives its timer.
THEOREM NeverDangling == ~DestroyTwice => (Spec => []NoDanglingReference)
<1>1. TimerInv => NoDanglingReference
  BY DEF TimerInv
<1> QED BY <1>1, TimerInvHolds, PTL

\* A destroyed timer is not called again.
THEOREM NeverCalledAgain == ~DestroyTwice => (Spec => NoCallAfterDestroy)
<1>1. ASSUME TimerInv, [Next]_vars, wPc # "callback", wPc' = "callback"
      PROVE  cur' \notin destroyed
  <2>1. Call
    BY <1>1 DEF Next, Worker, Create, Destroy, NotifyAll, DestructorStarts,
       DestructorReturns, Exit, WaitForWork, WaitForTimer, CallbackReturns,
       TimedWake, SpuriousWake, Tick, Over, vars
  <2> QED BY <1>1, <2>1 DEF Call, First, TimerInv, QueuedIsAlive
<1>2. TimerInv /\ [Next]_vars =>
        [wPc # "callback" /\ wPc' = "callback" => cur' \notin destroyed]_vars
  BY <1>1
<1> QED BY <1>2, TimerInvHolds, PTL DEF Spec, NoCallAfterDestroy
=============================================================================
