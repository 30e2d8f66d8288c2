------------------------------- MODULE Timer -------------------------------
(***************************************************************************)
(* framework/timer: a thread that calls TimeoutElapsed() on the handlers   *)
(* of timers when they are due.  create(), destroy() and the destructor    *)
(* may be called from any thread, the handlers themselves included.  All   *)
(* of them work under one mutex, so a section between lock and unlock is   *)
(* one step; the worker alone keeps the mutex from one step to the next,   *)
(* when a handler has returned ("top").                                    *)
(*                                                                         *)
(* exists() changes nothing and is left out, and so is destroy() of an     *)
(* unknown id, which returns false.  The order of timers of equal deadline *)
(* (insertion) is left open.                                               *)
(***************************************************************************)
EXTENDS Integers, FiniteSets

CONSTANTS
  MaxTimers,    \* bound on the timers created
  MaxTime,      \* bound on the clock
  Delays,       \* values of msFromNow
  Periods,      \* values of msPeriod, 0 for a timer that elapses once
  DestroyTwice  \* whether destroy() may be called again for the same timer

ASSUME TimerAssumption ==
  /\ MaxTimers \in Nat \ {0} /\ MaxTime \in Nat
  /\ Delays \subseteq Nat /\ Periods \subseteq Nat
  /\ DestroyTwice \in BOOLEAN

VARIABLES
  wPc,        \* where threadStart() is
  cur,        \* the timer whose handler runs, or ran last
  now,        \* the clock, in milliseconds
  until,      \* the time passed to wait_until()
  nextId,
  active,     \* the keys of the map of timers; the others are freed
  queue,      \* the timers the multiset refers to
  deadline,   \* Instance::next
  period,
  running,    \* timers with Instance::running set
  dtor,       \* ~Timer(): "no", "joining" (done is set), "returned"
  destroyed   \* history: timers for which destroy() returned true

timerVars == <<nextId, active, queue, deadline, period, running>>
vars == <<wPc, cur, now, until, nextId, active, queue, deadline, period,
          running, dtor, destroyed>>

Ids == 1 .. MaxTimers

Init ==
  /\ wPc = "ready" /\ cur = 0 /\ now = 0 /\ until = 0
  /\ nextId = 1 /\ active = {} /\ queue = {} /\ running = {}
  /\ deadline = [i \in Ids |-> 0] /\ period = [i \in Ids |-> 0]
  /\ dtor = "no" /\ destroyed = {}

-----------------------------------------------------------------------------
(* The mutex and the condition variable.                                   *)

done == dtor # "no"

LockFree == wPc # "top"

\* Once ~Timer() has begun only a handler still under way may call.
MayCall == LockFree /\ (~done \/ wPc = "callback")

\* A plausible bug: notify_all() is left out.
NotifyNobody == wPc' = wPc

\* notify_all(): a waiting worker wakes and will ask for the mutex.
NotifyAll == wPc' = IF wPc \in {"waiting", "sleeping"} THEN "ready" ELSE wPc

-----------------------------------------------------------------------------
(* What other threads, and handlers, call.                                 *)

NewId == nextId

\* create(): the clock was read, at t, before the mutex was taken.
Create(t, delay, per) ==
  /\ MayCall
  /\ nextId \in Ids
  /\ nextId' = nextId + 1
  /\ active' = active \cup {NewId}
  /\ queue' = queue \cup {NewId}
  /\ deadline' = [deadline EXCEPT ![NewId] = t + delay]
  /\ period' = [period EXCEPT ![NewId] = per]
  /\ NotifyAll
  /\ UNCHANGED <<cur, now, until, running, dtor, destroyed>>

\* A plausible bug: the timer is freed and stays in the queue.
ErasedNothing(i) == {}

\* multiset::erase(key) removes every element that compares equal to the
\* key, and NextActiveComparator compares deadlines.
Erased(i) == {j \in queue : deadline[j] = deadline[i]}

\* A plausible bug: destroy() does not look at Instance::running.
HandlerRunsNever(i) == FALSE

HandlerRuns(i) == i \in running

\* destroy() of a timer whose handler runs flags it for the worker.
Destroy(i) ==
  /\ MayCall
  /\ i \in active
  /\ i \in destroyed => DestroyTwice
  /\ destroyed' = destroyed \cup {i}
  /\ \/ /\ HandlerRuns(i)
        /\ running' = running \ {i}
        /\ UNCHANGED <<active, queue>>
     \/ /\ ~HandlerRuns(i)
        /\ queue' = queue \ Erased(i)
        /\ active' = active \ {i}
        /\ UNCHANGED running
  /\ NotifyAll
  /\ UNCHANGED <<cur, now, until, nextId, deadline, period, dtor>>

DestructorStarts ==
  /\ dtor = "no" /\ LockFree
  /\ dtor' = "joining"
  /\ NotifyAll
  /\ UNCHANGED <<cur, now, until, timerVars, destroyed>>

DestructorReturns ==
  /\ dtor = "joining" /\ wPc = "exited"
  /\ dtor' = "returned"
  /\ UNCHANGED <<wPc, cur, now, until, timerVars, destroyed>>

-----------------------------------------------------------------------------
(* The worker.                                                             *)

First == {i \in queue : \A j \in queue : deadline[i] <= deadline[j]}

\* The three ends of an iteration of the loop that holds the mutex: leave,
\* wait for a notification, wait for the first timer, or call its handler.
AtTop == wPc \in {"ready", "top"}

Exit ==
  /\ AtTop /\ done
  /\ wPc' = "exited"
  /\ UNCHANGED <<cur, now, until, timerVars, dtor, destroyed>>

WaitForWork ==
  /\ AtTop /\ ~done /\ queue = {}
  /\ wPc' = "waiting"
  /\ UNCHANGED <<cur, now, until, timerVars, dtor, destroyed>>

WaitForTimer ==
  /\ AtTop /\ ~done
  /\ \E i \in First :
       /\ now < deadline[i]
       /\ until' = deadline[i]
  /\ wPc' = "sleeping"
  /\ UNCHANGED <<cur, now, timerVars, dtor, destroyed>>

Call ==
  /\ AtTop /\ ~done
  /\ \E i \in First :
       /\ now >= deadline[i]
       /\ cur' = i
       /\ queue' = queue \ {i}
       /\ running' = running \cup {i}
  /\ wPc' = "callback"
  /\ UNCHANGED <<now, until, nextId, active, deadline, period, dtor,
                 destroyed>>

\* A plausible bug: the worker does not look whether destroy() was called.
DestroyedNotAsked == FALSE

\* The flag destroy() leaves behind for a timer whose handler runs.
DestroyedMeanwhile == cur \notin running

\* The handler has returned and the worker has the mutex again.  A freed
\* timer (cur \notin active) is read all the same, unless the destructor has
\* begun: what happens then is undefined, and the model stops there.
CallbackReturns ==
  /\ wPc = "callback"
  /\ \/ /\ done
        /\ wPc' = "exited"
        /\ UNCHANGED timerVars
     \/ /\ ~done /\ cur \notin active
        /\ wPc' = "undefined"
        /\ UNCHANGED timerVars
     \/ /\ ~done /\ cur \in active /\ DestroyedMeanwhile
        /\ wPc' = "top"
        /\ active' = active \ {cur}
        /\ UNCHANGED <<nextId, queue, deadline, period, running>>
     \/ /\ ~done /\ cur \in active /\ ~DestroyedMeanwhile
        /\ wPc' = "top"
        /\ running' = running \ {cur}
        /\ \/ /\ period[cur] > 0
              /\ deadline' = [deadline EXCEPT ![cur] = @ + period[cur]]
              /\ queue' = queue \cup {cur}
              /\ UNCHANGED active
           \/ /\ period[cur] = 0
              /\ active' = active \ {cur}
              /\ UNCHANGED <<deadline, queue>>
        /\ UNCHANGED <<nextId, period>>
  /\ UNCHANGED <<cur, now, until, dtor, destroyed>>

\* wait_until() returns at its time.
TimedWake ==
  /\ wPc = "sleeping" /\ now >= until
  /\ wPc' = "ready"
  /\ UNCHANGED <<cur, now, until, timerVars, dtor, destroyed>>

\* Either wait may return without a reason.
SpuriousWake ==
  /\ wPc \in {"waiting", "sleeping"}
  /\ wPc' = "ready"
  /\ UNCHANGED <<cur, now, until, timerVars, dtor, destroyed>>

Tick ==
  /\ now < MaxTime
  /\ now' = now + 1
  /\ UNCHANGED <<wPc, cur, until, timerVars, dtor, destroyed>>

-----------------------------------------------------------------------------

Worker == Exit \/ WaitForWork \/ WaitForTimer \/ Call \/ CallbackReturns
            \/ TimedWake

\* The destructor has returned, or the behaviour is undefined.
Over == (dtor = "returned" \/ wPc = "undefined") /\ UNCHANGED vars

Next ==
  \/ \E t \in 0 .. now, delay \in Delays, per \in Periods :
       Create(t, delay, per)
  \/ \E i \in Ids : Destroy(i)
  \/ DestructorStarts \/ DestructorReturns
  \/ Worker \/ SpuriousWake \/ Tick
  \/ Over

Spec == Init /\ [][Next]_vars

\* The threads are scheduled, the clock advances and handlers return.
FairSpec ==
  /\ Spec
  /\ WF_vars(Worker) /\ WF_vars(DestructorReturns) /\ WF_vars(Tick)

-----------------------------------------------------------------------------
(* Properties.                                                             *)

\* Types, and the bounds of ids and of the clock.
TypeOK ==
  /\ wPc \in {"ready", "top", "waiting", "sleeping", "callback", "exited",
              "undefined"}
  /\ cur \in {0} \cup Ids
  /\ now \in Nat /\ until \in Nat
  /\ nextId \in 1 .. MaxTimers + 1
  /\ active \subseteq Ids /\ queue \subseteq Ids /\ running \subseteq Ids
  /\ deadline \in [Ids -> Nat] /\ period \in [Ids -> Nat]
  /\ dtor \in {"no", "joining", "returned"}
  /\ destroyed \subseteq Ids

\* The queue holds references into the map: none of them ever refers to a
\* freed timer, and neither does the worker when a handler returns, although
\* destroy() may come from any thread while the handler runs.
NoDanglingReference ==
  /\ queue \subseteq active
  /\ wPc = "callback" => cur \in active
  /\ wPc # "undefined"

\* The inductive invariant behind NoDanglingReference and NoCallAfterDestroy:
\* ids are fresh, a timer whose handler runs is not queued, and between call
\* and return Instance::running says exactly that destroy() has not come.
IdsAreFresh == \A i \in active \cup running \cup destroyed : i < nextId

QueuedIsAlive == queue \cap (running \cup destroyed) = {}

CalledIsFlagged ==
  wPc = "callback" =>
    /\ cur \notin queue
    /\ cur \in running <=> cur \notin destroyed

TimerInv ==
  TypeOK /\ NoDanglingReference /\ IdsAreFresh /\ QueuedIsAlive
    /\ CalledIsFlagged

\* Once destroy() has returned true the handler of that timer is not called
\* again, not even that of a periodic timer destroyed by its own handler or
\* in the middle of it.
NoCallAfterDestroy ==
  [][wPc # "callback" /\ wPc' = "callback" => cur' \notin destroyed]_vars

\* A timer does not stay in the queue when its time has come: every creation
\* that matters to the sleeping worker wakes it.
TimersLeaveQueue ==
  \A i \in Ids :
    (i \in queue /\ deadline[i] <= MaxTime) ~> (i \notin queue \/ done)

\* The destructor returns, whatever the worker was doing when it began.
DestructorEnds == (dtor = "joining") ~> (dtor = "returned")

\* What the comment at timer.cpp:40 says, "Mark it as running to handle racing
\* destroy": the worker never reads a timer that destroy() freed while the
\* handler ran.  False when destroy() is called twice meanwhile.
RacingDestroyHandled == wPc # "undefined"

\* What timer.h:113 says, "Queue is a set of references to Instance objects,
\* sorted by next": a timer that exists is in the queue, or its handler runs.
\* False: destroy() takes every timer of the same deadline out of the queue.
QueueIsComplete ==
  ~done => \A i \in active : i \in queue \/ (wPc = "callback" /\ cur = i)
=============================================================================
