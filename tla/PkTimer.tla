------------------------------- MODULE PkTimer -------------------------------
(***************************************************************************)
(* The PK time queue (pk_timer_core.c), the decrementer that drives it     *)
(* (ppe42_core.c) and the bottom half it runs in (ppe42_exceptions.S,      *)
(* pk_bh_core.c).                                                          *)
(*                                                                         *)
(* The queue is unordered; next_timeout is the earliest timeout in it, and *)
(* a scan of the queue recomputes it while interrupts are let in between   *)
(* any two timers.  Every critical section of the scan is one action;      *)
(* interrupt handlers, and the callbacks, call the API in between.         *)
(*                                                                         *)
(* Times are absolute.  A timeout may be in the past when it is scheduled: *)
(* pk_timer_schedule reads the clock before its critical section, and a    *)
(* thread may lose the processor in between.  Intervals are not zero, so a *)
(* callback schedules for later than the clock its pass has read.          *)
(***************************************************************************)
EXTENDS Naturals, SequencesExt

CONSTANTS
    Timer,
    MaxTime,         \* bound: the clock stops here, and nothing is scheduled later
    MaxDec,          \* the longest time the decrementer can be set to
    ThreadApis,      \* "schedule", "cancel": what threads call
    CallbackApis,    \* what timer callbacks call
    IsrApis,         \* what interrupt handlers call
    End,             \* the sentinel of the queue
    Null

ASSUME TimeAssumption == MaxTime \in Nat /\ MaxDec \in Nat \ {0}
ASSUME EndAssumption  == End \notin Timer /\ Null \notin Timer /\ End # Null

Time == 0 .. MaxTime
MAX  == MaxTime + 1      \* PK_TIMEBASE_MAX; for the decrementer: nothing armed

VARIABLES
    queue,          \* of the __pk_time_queue deque, first to last
    next_timeout,   \* __pk_time_queue.next_timeout
    cursor,         \* __pk_time_queue.cursor, Null for 0
    timeout,        \* of each timer
    now,            \* the timebase
    dec,            \* when the decrementer interrupts
    bhQueued,       \* pk_timer_bh is in _pk_bh_queue
    bh,             \* where bottom-half processing is; "none" in thread context
    timer_deque,    \* local of __pk_timer_bh_handler
    pass,           \* its local now: the clock when this pass began
    arming          \* its argument of __pk_schedule_hardware_timeout

tqVars == <<queue, next_timeout, cursor, timeout, dec>>
vars == <<queue, next_timeout, cursor, timeout, now, dec, bhQueued, bh, timer_deque, pass, arming>>

Pc == {"none", "pop", "test", "callback", "next", "enter", "unmark", "read", "arm", "leave", "wild"}

TypeOK ==
    /\ queue \in Seq(Timer) /\ IsInjective(queue)
    /\ next_timeout \in Time \cup {MAX} /\ cursor \in Timer \cup {End, Null}
    /\ timeout \in [Timer -> Time] /\ now \in Time /\ dec \in Time \cup {MAX}
    /\ bhQueued \in BOOLEAN /\ bh \in Pc
    /\ timer_deque \in Timer \cup {End, Null}
    /\ pass \in Time /\ arming \in Time \cup {MAX}

-----------------------------------------------------------------------------
(* The deque.                                                              *)

\* A timer is active when it is queued.
Queued == Range(queue)

First(q) == IF q = <<>> THEN End ELSE Head(q)

Position(q, t) == CHOOSE i \in DOMAIN q : q[i] = t

\* timer->next, for a queued timer.
After(q, t) == IF Position(q, t) = Len(q) THEN End ELSE q[Position(q, t) + 1]

\* pk_deque_delete.
Without(q, t) == RemoveAt(q, Position(q, t))

-----------------------------------------------------------------------------
(* The API, in thread, callback and interrupt context.                     *)

\* __pk_schedule_hardware_timeout: when the decrementer will interrupt.  A past
\* time is due at once, one too far away is approached in steps.
Deadline(t) == IF t = MAX THEN dec
               ELSE IF t <= now THEN now
               ELSE IF t - now > MaxDec THEN now + MaxDec ELSE t

\* Wrong: a timer that is queued is queued again.
Push_Always(q, t) == Append(q, t)

Push(q, t) == IF t \in Range(q) THEN q ELSE Append(q, t)

\* Wrong: while the queue is being scanned the new timeout is left to the scan.
Earlier_NotInScan(t) == t < next_timeout /\ cursor = Null

\* Does a timer scheduled for time t become the next to expire?
Earlier(t) == t < next_timeout

\* Wrong: the decrementer is set only when it is not running.
Arms_WhenIdle(t) == Earlier(t) /\ cursor = Null /\ dec = MAX

\* Is the decrementer set for it now, or at the end of the scan?
Arms(t) == Earlier(t) /\ cursor = Null

pk_timer_schedule(timer, t) ==
    /\ timeout' = [timeout EXCEPT ![timer] = t]
    /\ queue' = Push(queue, timer)
    /\ next_timeout' = IF Earlier(t) THEN t ELSE next_timeout
    /\ dec' = IF Arms(t) THEN Deadline(t) ELSE dec
    /\ UNCHANGED cursor

\* Wrong: the timer the scan goes to next is deleted under it.
CursorWithout_Same(timer) == cursor

\* The cursor when a timer leaves the queue.
CursorWithout(timer) == IF cursor = timer THEN After(queue, timer) ELSE cursor

pk_timer_cancel(timer) ==
    /\ timer \in Queued
    /\ cursor' = CursorWithout(timer)
    /\ queue' = Without(queue, timer)
    /\ UNCHANGED <<next_timeout, timeout, dec>>

\* A call of the API, by a caller that read the clock at the earliest at time since.
Call(apis, since) ==
    \E timer \in Timer :
        \/ "schedule" \in apis /\ \E t \in since + 1 .. MaxTime : pk_timer_schedule(timer, t)
        \/ "cancel" \in apis /\ pk_timer_cancel(timer)

-----------------------------------------------------------------------------
(* Interrupts.                                                             *)

\* An interrupt taken in thread context goes on to process the bottom halves; one
\* taken while they are processed returns there.
LeaveIrq == bh' = IF bh = "none" /\ bhQueued' THEN "pop" ELSE bh

\* __pk_timer_handler.  The decrementer runs on below zero and interrupts again
\* when it has wrapped around, later than all that is scheduled.
DecInterrupt ==
    /\ bh # "wild" /\ (now >= dec \/ now = MaxTime)
    /\ dec' = MAX /\ bhQueued' = TRUE
    /\ LeaveIrq
    /\ UNCHANGED <<queue, next_timeout, cursor, timeout, now, timer_deque, pass, arming>>

\* Another interrupt handler, which may use the API.
ExternalInterrupt ==
    /\ bh # "wild"
    /\ Call(IsrApis, 0) \/ UNCHANGED tqVars
    /\ UNCHANGED bhQueued
    /\ LeaveIrq
    /\ UNCHANGED <<now, timer_deque, pass, arming>>

-----------------------------------------------------------------------------
(* Bottom halves.                                                          *)

\* _pk_process_bh takes the next bottom half, or finds that there is none.
PopBh ==
    /\ bh = "pop"
    /\ bh' = IF bhQueued THEN "test" ELSE "leave"
    /\ bhQueued' = FALSE
    /\ UNCHANGED <<tqVars, now, timer_deque, pass, arming>>

\* Interrupts are disabled again and the interrupted thread, or the one that was
\* scheduled meanwhile, is resumed.
LeaveBh ==
    /\ bh = "leave" /\ bh' = "none"
    /\ UNCHANGED <<tqVars, now, bhQueued, timer_deque, pass, arming>>

\* The handler looks at one timer, at the clock of the pass: it is taken off the
\* queue and called back, or takes part in the next timeout.
Visit(t, clock, next) ==
    /\ cursor' = After(queue, t)
    /\ IF timeout[t] <= clock
         THEN queue' = Without(queue, t) /\ next_timeout' = next /\ bh' = "callback"
         ELSE /\ next_timeout' = IF timeout[t] < next THEN timeout[t] ELSE next
              /\ bh' = "next" /\ UNCHANGED queue
    /\ UNCHANGED <<timeout, dec, now, bhQueued, arming>>

\* The outer loop: a new pass over the queue, if the next timeout has come.
NewPass ==
    IF now >= next_timeout /\ queue # <<>>
      THEN Visit(First(queue), now, MAX) /\ timer_deque' = First(queue) /\ pass' = now
      ELSE /\ next_timeout' = IF now >= next_timeout THEN MAX ELSE next_timeout
           /\ bh' = "unmark"
           /\ UNCHANGED <<queue, cursor, timeout, dec, now, bhQueued, timer_deque, pass, arming>>

TestTime == bh = "test" /\ NewPass

\* The inner loop: back in the critical section with the timer read before it.  A
\* timer that was cancelled since has no next: the handler follows null pointers.
VisitTimer ==
    /\ bh = "enter" /\ timer_deque # End
    /\ IF timer_deque \in Queued
         THEN Visit(timer_deque, pass, next_timeout)
         ELSE bh' = "wild" /\ UNCHANGED <<tqVars, now, bhQueued, arming>>
    /\ UNCHANGED <<timer_deque, pass>>

EndOfPass == bh = "enter" /\ timer_deque = End /\ NewPass

\* A callback, which may use the API, returns.
Callback ==
    /\ bh = "callback" /\ bh' = "next"
    /\ Call(CallbackApis, pass) \/ UNCHANGED tqVars
    /\ UNCHANGED <<now, bhQueued, timer_deque, pass, arming>>

\* timer_deque = tq->cursor, outside of the critical section.
NextTimer ==
    /\ bh = "next" /\ bh' = "enter"
    /\ timer_deque' = cursor
    /\ UNCHANGED <<tqVars, now, bhQueued, pass, arming>>

\* The scan is over, and the decrementer set from a next_timeout read before it is
\* programmed, all with interrupts enabled.
Unmark ==
    /\ bh = "unmark" /\ bh' = "read"
    /\ cursor' = Null
    /\ UNCHANGED <<queue, next_timeout, timeout, dec, now, bhQueued, timer_deque, pass, arming>>

ReadTimeout ==
    /\ bh = "read" /\ bh' = "arm"
    /\ arming' = next_timeout
    /\ UNCHANGED <<tqVars, now, bhQueued, timer_deque, pass>>

Arm ==
    /\ bh = "arm" /\ bh' = "pop"
    /\ dec' = Deadline(arming)
    /\ UNCHANGED <<queue, next_timeout, cursor, timeout, now, bhQueued, timer_deque, pass, arming>>

pk_timer_bh_handler ==
    \/ TestTime \/ VisitTimer \/ EndOfPass \/ Callback
    \/ NextTimer \/ Unmark \/ ReadTimeout \/ Arm

-----------------------------------------------------------------------------
ThreadCall ==
    /\ bh = "none" /\ Call(ThreadApis, 0)
    /\ UNCHANGED <<now, bhQueued, bh, timer_deque, pass, arming>>

Tick ==
    /\ now < MaxTime /\ now' = now + 1
    /\ UNCHANGED <<tqVars, bhQueued, bh, timer_deque, pass, arming>>

Init ==
    /\ queue = <<>> /\ next_timeout = MAX /\ cursor = Null
    /\ timeout = [t \in Timer |-> 0]
    /\ now = 0 /\ dec = MAX
    /\ bhQueued = FALSE /\ bh = "none"
    /\ timer_deque = Null /\ pass = 0 /\ arming = MAX

Next == \/ ThreadCall \/ Tick \/ DecInterrupt \/ ExternalInterrupt
        \/ PopBh \/ LeaveBh \/ pk_timer_bh_handler

Spec == Init /\ [][Next]_vars

\* The clock and the decrementer run, and so does a bottom half.
Fairness == /\ WF_vars(Tick) /\ WF_vars(DecInterrupt)
            /\ WF_vars(PopBh \/ LeaveBh \/ pk_timer_bh_handler)

FairSpec == Spec /\ Fairness

-----------------------------------------------------------------------------
(* Properties.                                                             *)

\* The scan never goes to a timer that was cancelled under it.
ScanStaysInQueue == bh # "wild"

\* While threads run and no bottom half is queued, the decrementer interrupts no
\* later than the first queued timer expires, or in the steps it takes to get there.
HwArmed ==
    bh = "none" /\ ~bhQueued =>
        \A t \in Queued : dec <= timeout[t] \/ dec <= now

\* The same of every thread context, a queued bottom half or not: bottom halves are
\* processed before a thread is resumed.
BhServed == bh = "none" => \A t \in Queued : dec <= timeout[t] \/ dec <= now

\* Every timer that is scheduled is called back, or taken off the queue again.
TimerCalled == \A t \in Timer : t \in Queued ~> t \notin Queued
=============================================================================
