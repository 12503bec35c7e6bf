------------------------------ MODULE PkKernel ------------------------------
(***************************************************************************)
(* The PK kernel the firmware runs on: threads, priorities, semaphores and *)
(* thread timeouts (pk_thread_core.c, pk_thread_util.c,                    *)
(* pk_semaphore_core.c).                                                   *)
(*                                                                         *)
(* The kernel keeps its queues as bit masks of PRIORITIES and finds the    *)
(* thread through the priority map, so a bit that outlives its thread is   *)
(* given to whoever is mapped there next, or to nobody.  Every API is one  *)
(* critical section and one action; one that blocks is two, the second     *)
(* being what the thread does when it is switched back in.                 *)
(*                                                                         *)
(* Time is abstracted: a thread's timer may expire at any moment while it  *)
(* is queued (PkTimer models the queue).                                   *)
(***************************************************************************)
EXTENDS Naturals

CONSTANTS
    Thread,
    Priorities,          \* 0 is the highest
    Sem,
    InitialPriority,     \* what pk_thread_create was given
    max_count,           \* of every semaphore; 0 is no limit
    MaxCount,            \* bound: posts outstanding on a semaphore
    Apis,                \* the APIs the threads use
    IsrApis,             \* the APIs the interrupt handlers use
    None

ASSUME PriorityAssumption == /\ Priorities \subseteq Nat
                             /\ InitialPriority \in [Thread -> Priorities]
ASSUME CountAssumption    == max_count \in Nat /\ MaxCount \in Nat
ASSUME NoneAssumption     == None \notin Thread

State == {"MAPPED", "SUSPENDED_RUNNABLE", "SUSPENDED_BLOCKED", "COMPLETED", "DELETED"}
Flag  == {"SEMAPHORE_PEND", "TIMER_PEND", "TIMED_OUT"}

VARIABLES
    k,          \* the kernel's data structures
    current,    \* __pk_current_thread
    interrupt,  \* no thread has run since the latest interrupt
    firing,     \* the thread whose expired timer is being called back, or None
    at,         \* in which call each thread is
    granted,    \* threads a semaphore count was given to by their latest wakeup
    locked      \* threads left in a critical section by an API that returned

vars == <<k, current, interrupt, firing, at, granted, locked>>

Kernel == [state : [Thread -> State], priority : [Thread -> Priorities],
           flags : [Thread -> SUBSET Flag], semaphore : [Thread -> Sem \cup {None}],
           map : [Priorities -> Thread \cup {None}],
           run : SUBSET Priorities, pending : [Sem -> SUBSET Priorities],
           count : [Sem -> Nat], timers : SUBSET Thread]

TypeOK ==
    /\ k \in Kernel
    /\ interrupt \in BOOLEAN /\ current \in Thread \cup {None} /\ firing \in Thread \cup {None}
    /\ at \in [Thread -> {"run", "pend", "sleep"}]
    /\ granted \subseteq Thread /\ locked \subseteq Thread

-----------------------------------------------------------------------------
(* Queues, mapping and scheduling, on a kernel state.                      *)

\* __pk_thread_queue_min
Highest(q) == CHOOSE p \in q : \A r \in q : p <= r

is_active(s, t)   == s.state[t] \notin {"COMPLETED", "DELETED"}
is_mapped(s, t)   == s.state[t] = "MAPPED"
is_runnable(s, t) == s.priority[t] \in s.run

\* Wrong: a count is taken without looking whether there is one.
TakesCount_Unchecked(s, t) ==
    s.state[t] # "SUSPENDED_RUNNABLE" /\ "SEMAPHORE_PEND" \in s.flags[t]

\* Does mapping t give it a count of its semaphore?
TakesCount(s, t) ==
    /\ s.state[t] # "SUSPENDED_RUNNABLE" /\ "SEMAPHORE_PEND" \in s.flags[t]
    /\ s.count[s.semaphore[t]] > 0

\* Wrong: a thread that was blocked when it was suspended is resumed runnable.
Map_Runnable(s, t) ==
    [s EXCEPT !.map[s.priority[t]] = t, !.state[t] = "MAPPED", !.run = @ \cup {s.priority[t]}]

\* __pk_thread_map
Map(s, t) ==
    LET p == s.priority[t]
        mapped == [s EXCEPT !.map[p] = t, !.state[t] = "MAPPED"]
    IN  IF s.state[t] = "SUSPENDED_RUNNABLE" THEN [mapped EXCEPT !.run = @ \cup {p}]
        ELSE IF TakesCount(s, t)
               THEN [mapped EXCEPT !.run = @ \cup {p}, !.count[s.semaphore[t]] = @ - 1]
        ELSE IF "SEMAPHORE_PEND" \in s.flags[t]
               THEN [mapped EXCEPT !.pending[s.semaphore[t]] = @ \cup {p}]
        ELSE mapped

\* Wrong: a thread that is suspended stays in the queue of its semaphore.
Unmap_Pending(s, t) ==
    LET p == s.priority[t] IN
    [s EXCEPT !.map[p] = None, !.run = @ \ {p},
              !.state[t] = IF is_runnable(s, t) THEN "SUSPENDED_RUNNABLE"
                                                ELSE "SUSPENDED_BLOCKED"]

\* Wrong: a thread that is suspended stays in the run queue.
Unmap_Running(s, t) ==
    LET p == s.priority[t] IN
    IF is_runnable(s, t)
      THEN [s EXCEPT !.map[p] = None, !.state[t] = "SUSPENDED_RUNNABLE"]
      ELSE [s EXCEPT !.map[p] = None, !.state[t] = "SUSPENDED_BLOCKED",
                     !.pending = [x \in Sem |-> @[x] \ {p}]]

\* __pk_thread_unmap.  A runnable thread leaves the run queue only: one that has
\* timed out and not yet run stays in the queue of its semaphore.
Unmap(s, t) ==
    LET p == s.priority[t] IN
    IF is_runnable(s, t)
      THEN [s EXCEPT !.map[p] = None, !.run = @ \ {p}, !.state[t] = "SUSPENDED_RUNNABLE"]
    ELSE IF "SEMAPHORE_PEND" \in s.flags[t]
      THEN [s EXCEPT !.map[p] = None, !.state[t] = "SUSPENDED_BLOCKED",
                     !.pending[s.semaphore[t]] = @ \ {p}]
      ELSE [s EXCEPT !.map[p] = None, !.state[t] = "SUSPENDED_BLOCKED"]

\* __pk_schedule: the thread mapped at the highest runnable priority.
next_thread(s) == IF s.run = {} THEN None ELSE s.map[Highest(s.run)]

Install(s) == k' = s /\ current' = next_thread(s)

-----------------------------------------------------------------------------
(* Who may run.                                                            *)

\* __pk_thread_timeout panics on a thread that has completed or was deleted.
Panicked == firing # None /\ ~is_active(k, firing)

\* A thread is switched in with interrupts off and returns from its call first.
\* Before the switch every pending interrupt and expired timer is served
\* (check_for_ext_interrupt).
Interruptible ==
    /\ ~Panicked
    /\ interrupt \/ current \in {None} \cup {t \in Thread \ locked : at[t] = "run"}

\* Thread t, which is in call c, runs on.
RunsIn(t, c) == firing = None /\ current = t /\ at[t] = c /\ interrupt' = FALSE
Running(t) == RunsIn(t, "run")

\* An interrupt handler, or a thread, calls an API.
Calls(c, api) ==
    IF c = None THEN api \in IsrApis /\ Interruptible /\ interrupt' = TRUE
                ELSE api \in Apis /\ Running(c)

-----------------------------------------------------------------------------
(* Semaphores.                                                             *)

\* Wrong: the count goes up even though a thread is made runnable.
Post_Counts(s, sem) ==
    LET woken == IF s.pending[sem] = {} THEN {} ELSE {Highest(s.pending[sem])} IN
    [s EXCEPT !.pending[sem] = @ \ woken, !.run = @ \cup woken, !.count[sem] = @ + 1]

Post(s, sem) ==
    LET woken == IF s.pending[sem] = {} THEN {} ELSE {Highest(s.pending[sem])} IN
    [s EXCEPT !.pending[sem] = @ \ woken,
              !.run = @ \cup woken,
              !.count[sem] = IF woken = {} THEN @ + 1 ELSE @]

\* The threads mapped at a set of priorities.
At(s, q) == {s.map[p] : p \in q} \ {None}

\* pk_semaphore_post.  The overflow error returns inside the critical section.
pk_semaphore_post(c, sem) ==
    /\ Calls(c, "post") /\ k.count[sem] < MaxCount
    /\ Install(Post(k, sem))
    /\ granted' = granted \cup At(k, k.pending[sem] \ Post(k, sem).pending[sem])
    /\ locked' = IF c # None /\ max_count > 0 /\ k.count[sem] + 1 > max_count /\ k.pending[sem] = {}
                   THEN locked \cup {c} ELSE locked
    /\ UNCHANGED <<firing, at>>

pk_semaphore_release_all(c, sem) ==
    /\ Calls(c, "release_all")
    /\ Install([k EXCEPT !.run = @ \cup k.pending[sem], !.pending[sem] = {}])
    /\ granted' = granted \cup At(k, k.pending[sem])
    /\ UNCHANGED <<firing, at, locked>>

\* pk_semaphore_pend when there is a count to take, or nothing to wait for.
pk_semaphore_pend_now(t, sem) ==
    /\ Running(t)
    /\ IF k.count[sem] # 0 THEN Install([k EXCEPT !.count[sem] = @ - 1])
                           ELSE "no_wait" \in Apis /\ UNCHANGED <<k, current>>
    /\ UNCHANGED <<firing, at, granted, locked>>

\* pk_semaphore_pend when the caller has to wait, with a timeout or without.
pk_semaphore_pend(t, sem, timed) ==
    /\ Running(t) /\ k.count[sem] = 0
    /\ timed => "timeout" \in Apis
    /\ Install([k EXCEPT !.pending[sem] = @ \cup {k.priority[t]},
                         !.semaphore[t] = sem,
                         !.flags[t] = @ \cup {"SEMAPHORE_PEND"}
                                        \cup (IF timed THEN {"TIMER_PEND"} ELSE {}),
                         !.timers = IF timed THEN @ \cup {t} ELSE @,
                         !.run = @ \ {k.priority[t]}])
    /\ at' = [at EXCEPT ![t] = "pend"] /\ granted' = granted \ {t}
    /\ UNCHANGED <<firing, locked>>

\* The rest of pk_semaphore_pend, when the thread is switched back in: a timed-out
\* thread leaves the pending queue only now.
pk_semaphore_pend_return(t) ==
    /\ RunsIn(t, "pend")
    /\ Install([k EXCEPT
          !.flags[t] = IF "TIMER_PEND" \in @ THEN {} ELSE @ \ {"SEMAPHORE_PEND"},
          !.pending[k.semaphore[t]] =
              IF {"TIMER_PEND", "TIMED_OUT"} \subseteq k.flags[t] THEN @ \ {k.priority[t]} ELSE @,
          !.timers = IF "TIMER_PEND" \in k.flags[t] /\ "TIMED_OUT" \notin k.flags[t]
                       THEN @ \ {t} ELSE @])
    /\ at' = [at EXCEPT ![t] = "run"]
    /\ UNCHANGED <<firing, granted, locked>>

-----------------------------------------------------------------------------
(* Threads.                                                                *)

pk_sleep(t) ==
    /\ "sleep" \in Apis /\ Running(t)
    /\ Install([k EXCEPT !.timers = @ \cup {t}, !.flags[t] = @ \cup {"TIMER_PEND"},
                         !.run = @ \ {k.priority[t]}])
    /\ at' = [at EXCEPT ![t] = "sleep"] /\ granted' = granted \ {t}
    /\ UNCHANGED <<firing, locked>>

pk_sleep_return(t) ==
    /\ RunsIn(t, "sleep")
    /\ Install([k EXCEPT !.flags[t] = @ \ {"TIMER_PEND", "TIMED_OUT"}])
    /\ at' = [at EXCEPT ![t] = "run"]
    /\ UNCHANGED <<firing, granted, locked>>

\* A timer expires: it leaves the queue, then interrupts are let in.
TimerExpires(t) ==
    /\ Interruptible /\ firing = None /\ t \in k.timers
    /\ k' = [k EXCEPT !.timers = @ \ {t}]
    /\ firing' = t /\ interrupt' = TRUE
    /\ UNCHANGED <<current, at, granted, locked>>

\* Wrong: a blocked thread is marked timed out and not made runnable.
Timeout_NotRunnable(s, t) ==
    IF is_mapped(s, t) /\ ~is_runnable(s, t)
      THEN [s EXCEPT !.flags[t] = @ \cup {"TIMED_OUT"}]
    ELSE IF s.state[t] = "SUSPENDED_BLOCKED"
      THEN [s EXCEPT !.flags[t] = @ \cup {"TIMED_OUT"}, !.state[t] = "SUSPENDED_RUNNABLE"]
    ELSE s

Timeout(s, t) ==
    IF is_mapped(s, t) /\ ~is_runnable(s, t)
      THEN [s EXCEPT !.flags[t] = @ \cup {"TIMED_OUT"}, !.run = @ \cup {s.priority[t]}]
    ELSE IF s.state[t] = "SUSPENDED_BLOCKED"
      THEN [s EXCEPT !.flags[t] = @ \cup {"TIMED_OUT"}, !.state[t] = "SUSPENDED_RUNNABLE"]
    ELSE s

\* __pk_thread_timeout, the callback of every thread's timer.
pk_thread_timeout ==
    /\ firing # None /\ ~Panicked
    /\ Install(Timeout(k, firing))
    /\ firing' = None /\ interrupt' = TRUE
    /\ UNCHANGED <<at, granted, locked>>

pk_thread_resume(c, t) ==
    /\ Calls(c, "resume") /\ is_active(k, t) /\ ~is_mapped(k, t)
    /\ k.map[k.priority[t]] = None
    /\ Install(Map(k, t))
    /\ granted' = IF TakesCount(k, t) THEN granted \cup {t} ELSE granted
    /\ UNCHANGED <<firing, at, locked>>

pk_thread_suspend(c, t) ==
    /\ Calls(c, "suspend") /\ is_mapped(k, t)
    /\ Install(Unmap(k, t))
    /\ UNCHANGED <<firing, at, granted, locked>>

\* Wrong: the timer of a thread that is deleted stays queued.
Delete_Timed(s, t, final_state) ==
    [(IF is_mapped(s, t) THEN Unmap(s, t) ELSE s) EXCEPT !.state[t] = final_state]

Delete(s, t, final_state) ==
    [(IF is_mapped(s, t) THEN Unmap(s, t) ELSE s)
        EXCEPT !.timers = @ \ {t}, !.state[t] = final_state]

\* __pk_thread_delete, of another thread or of the caller itself (pk_complete).
pk_thread_delete(c, t, final_state) ==
    /\ Calls(c, "delete")
    /\ final_state = "COMPLETED" => c = t
    /\ Install(Delete(k, t, final_state))
    /\ UNCHANGED <<firing, at, granted, locked>>

pk_thread_priority_change(c, t, p) ==
    /\ Calls(c, "change") /\ p # k.priority[t]
    /\ IF is_mapped(k, t)
         THEN /\ k.map[p] = None
              /\ Install(Map([Unmap(k, t) EXCEPT !.priority[t] = p], t))
         ELSE Install([k EXCEPT !.priority[t] = p])
    /\ UNCHANGED <<firing, at, granted, locked>>

pk_thread_priority_swap(c, t, u) ==
    LET free(x, y) == is_mapped(k, x) /\ ~is_mapped(k, y) => k.map[k.priority[y]] = None
        UnmapIf(s, x) == IF is_mapped(k, x) THEN Unmap(s, x) ELSE s
        MapIf(s, x)   == IF is_mapped(k, x) THEN Map(s, x) ELSE s
        unmapped == UnmapIf(UnmapIf(k, t), u)
        swapped  == [unmapped EXCEPT !.priority[t] = k.priority[u], !.priority[u] = k.priority[t]]
    IN  /\ Calls(c, "change") /\ t # u
        /\ free(t, u) /\ free(u, t)
        /\ Install(MapIf(MapIf(swapped, t), u))
        /\ UNCHANGED <<firing, at, granted, locked>>

-----------------------------------------------------------------------------
\* pk_initialize and pk_thread_create, then pk_thread_resume of every thread whose
\* priority is free.
Init ==
    /\ \E m \in [Priorities -> Thread \cup {None}] :
        /\ \A p \in Priorities : IF \E t \in Thread : InitialPriority[t] = p
                                   THEN m[p] \in Thread /\ InitialPriority[m[p]] = p
                                   ELSE m[p] = None
        /\ k = [state |-> [t \in Thread |-> IF m[InitialPriority[t]] = t THEN "MAPPED"
                                                                     ELSE "SUSPENDED_RUNNABLE"],
                priority |-> InitialPriority,
                flags |-> [t \in Thread |-> {}], semaphore |-> [t \in Thread |-> None],
                map |-> m, run |-> {p \in Priorities : m[p] # None},
                pending |-> [s \in Sem |-> {}], count |-> [s \in Sem |-> 0],
                timers |-> {}]
    /\ current = next_thread(k)
    /\ interrupt = FALSE /\ firing = None
    /\ at = [t \in Thread |-> "run"]
    /\ granted = {} /\ locked = {}

Next ==
    \/ \E t \in Thread :
         \/ \E s \in Sem : pk_semaphore_pend_now(t, s) \/ \E b \in BOOLEAN : pk_semaphore_pend(t, s, b)
         \/ pk_semaphore_pend_return(t) \/ pk_sleep(t) \/ pk_sleep_return(t)
         \/ TimerExpires(t)
    \/ pk_thread_timeout
    \/ \E c \in Thread \cup {None} :
         \/ \E s \in Sem : pk_semaphore_post(c, s) \/ pk_semaphore_release_all(c, s)
         \/ \E t \in Thread :
              \/ pk_thread_resume(c, t) \/ pk_thread_suspend(c, t)
              \/ \E f \in {"COMPLETED", "DELETED"} : pk_thread_delete(c, t, f)
              \/ \E p \in Priorities : pk_thread_priority_change(c, t, p)
              \/ \E u \in Thread : pk_thread_priority_swap(c, t, u)

Spec == Init /\ [][Next]_vars

\* Timers that are queued expire however often their callback window is busy with
\* another (one scan takes every timer that is due), callbacks and switched-in
\* threads run on.
Fairness ==
    /\ \A t \in Thread : /\ SF_vars(TimerExpires(t))
                         /\ WF_vars(pk_semaphore_pend_return(t))
                         /\ WF_vars(pk_sleep_return(t))
    /\ WF_vars(pk_thread_timeout)

FairSpec == Spec /\ Fairness

-----------------------------------------------------------------------------
(* Properties.                                                             *)

\* "the queue of mapped runnable tasks": a priority in the run queue is somebody's.
\* __pk_schedule takes the idle thread for one that is nobody's, and whoever is
\* below it starves.
RunQueueMapped == \A p \in k.run : k.map[p] # None

\* Whoever a post would wake is mapped and waits for that very semaphore.
PendingWaits ==
    \A s \in Sem : \A p \in k.pending[s] :
        \E t \in Thread : k.map[p] = t /\ at[t] = "pend" /\ k.semaphore[t] = s

\* "If any threads are blocked on a semaphore the semaphore count is 0".
NoIdleWait == \A s \in Sem : k.pending[s] # {} => k.count[s] = 0

\* pk_semaphore_pend succeeds exactly when a count was given to the caller: no
\* post is lost on a call that reports a timeout, none is made up.
PendReturnsTruly ==
    [][\A t \in Thread : at[t] = "pend" /\ at'[t] = "run" =>
            ((t \in granted) <=> ("TIMED_OUT" \notin k.flags[t]))]_vars

\* The timer of a thread that completed or was deleted is never called back, so that
\* the kernel does not panic.
NoPanic == ~Panicked

\* The highest-priority thread returns from every call that has a timeout, unless a
\* semaphore overflowed and left its poster running with interrupts disabled.
TimedCallReturns ==
    \A t \in Thread : (\A u \in Thread \ {t} : InitialPriority[t] < InitialPriority[u]) =>
        ("TIMER_PEND" \in k.flags[t] ~> at[t] = "run" \/ locked # {})
=============================================================================
