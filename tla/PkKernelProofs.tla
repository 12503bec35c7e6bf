--------------------------- MODULE PkKernelProofs ---------------------------
(***************************************************************************)
(* What holds of the PK kernel for every set of threads, priorities and    *)
(* semaphores, and whichever APIs are used.                                *)
(***************************************************************************)
EXTENDS PkKernel, WellFoundedInduction, TLAPS

-----------------------------------------------------------------------------
(* The invariants, on a kernel state s.                                    *)

\* The priority map and the threads agree on who is mapped where.
MapAgrees(s) ==
    /\ \A t \in Thread : is_mapped(s, t) => s.map[s.priority[t]] = t
    /\ \A p \in Priorities : s.map[p] # None =>
            is_mapped(s, s.map[p]) /\ s.priority[s.map[p]] = p

\* A timer is queued for, and called back on, threads that are there.
TimersActive == /\ \A t \in k.timers : is_active(k, t)
                /\ firing # None => is_active(k, firing)

\* The processor is given to the thread that is to have it.
Scheduled == current = next_thread(k)

\* A thread could run if it were mapped.
Ready(s, t) == \/ is_mapped(s, t) /\ is_runnable(s, t)
               \/ s.state[t] = "SUSPENDED_RUNNABLE"

\* A priority in the run queue is somebody's.
RunMapped(s) == \A p \in s.run : s.map[p] # None

\* What the kernel knows of a thread follows from the call it is in.
FlagsFollow(s, a) ==
    \A t \in Thread :
        /\ a[t] = "run" => s.flags[t] = {}
        /\ a[t] = "pend" => s.flags[t] = {"SEMAPHORE_PEND"} /\ s.semaphore[t] \in Sem
        /\ a[t] = "sleep" => s.flags[t] \subseteq {"TIMER_PEND", "TIMED_OUT"}

\* A priority in the queue of a semaphore is that of a mapped thread that waits for
\* it, and is not in the run queue.
PendingOwned(s, a) ==
    \A x \in Sem : \A p \in s.pending[x] :
        /\ s.map[p] # None /\ p \notin s.run
        /\ a[s.map[p]] = "pend" /\ s.semaphore[s.map[p]] = x

\* The other way round: a mapped thread that waits and cannot run is in the queue.
WaitersQueued(s, a) ==
    \A t \in Thread : a[t] = "pend" /\ is_mapped(s, t) /\ ~is_runnable(s, t) =>
        s.priority[t] \in s.pending[s.semaphore[t]]

\* A semaphore threads wait for has no count.
CountOrWait(s) == \A x \in Sem : s.pending[x] # {} => s.count[x] = 0

\* A thread that waited for a semaphore and is ready was given a count.
ReadyGranted(s, a, g) == \A t \in Thread : a[t] = "pend" /\ Ready(s, t) => t \in g

\* A thread whose timer is queued, or is being called back, sleeps.
TimedSleep(s, a, f) ==
    /\ f \notin s.timers
    /\ \A t \in Thread : t \in s.timers \/ f = t => a[t] = "sleep" /\ ~Ready(s, t)

\* The queues, flags and timers of s are those of threads that are in the calls a, were
\* given the counts g, and one of which has the timer f being called back.
Consistent(s, a, g, f) ==
    /\ RunMapped(s) /\ FlagsFollow(s, a) /\ PendingOwned(s, a) /\ WaitersQueued(s, a)
    /\ CountOrWait(s) /\ ReadyGranted(s, a, g) /\ TimedSleep(s, a, f)

Calling == [Thread -> {"run", "pend", "sleep"}]

-----------------------------------------------------------------------------
(* Lemmas about the operators on kernel states.                            *)

\* __pk_thread_queue_min of a queue that is not empty is in the queue.
LEMMA HighestIn ==
  ASSUME NEW q \in SUBSET Nat, q # {}
  PROVE  Highest(q) \in q
<1>1. \E p \in q : \A r \in q : ~(<<r, p>> \in OpToRel(<, Nat))
  BY NatLessThanWellFounded, WFMin
<1>2. \E p \in q : \A r \in q : p <= r
  <2>1. PICK p \in q : \A r \in q : ~(<<r, p>> \in OpToRel(<, Nat))
    BY <1>1
  <2>2. \A r \in q : ~(r < p)
    BY <2>1 DEF OpToRel
  <2> QED BY <2>2
<1> QED BY <1>2 DEF Highest

\* The fields of a kernel state.
LEMMA KernelFields ==
  ASSUME NEW s \in Kernel
  PROVE  /\ s.state \in [Thread -> State] /\ s.priority \in [Thread -> Priorities]
         /\ s.flags \in [Thread -> SUBSET Flag] /\ s.semaphore \in [Thread -> Sem \cup {None}]
         /\ s.map \in [Priorities -> Thread \cup {None}] /\ s.run \in SUBSET Priorities
         /\ s.pending \in [Sem -> SUBSET Priorities] /\ s.count \in [Sem -> Nat]
         /\ s.timers \in SUBSET Thread
BY DEF Kernel

LEMMA NextThreadType ==
  ASSUME NEW s \in Kernel
  PROVE  /\ next_thread(s) \in Thread \cup {None}
         /\ next_thread(s) # None => \E p \in s.run : s.map[p] = next_thread(s)
<1>1. s.run \in SUBSET Nat
  BY KernelFields, PriorityAssumption
<1>2. s.run # {} => Highest(s.run) \in s.run
  BY <1>1, HighestIn
<1> QED BY <1>2, KernelFields DEF next_thread

\* What __pk_thread_map does to each of the kernel's structures.
Mapped(s, t, m) ==
    LET p == s.priority[t] IN
    /\ m \in Kernel
    /\ m.state = [s.state EXCEPT ![t] = "MAPPED"]
    /\ m.map = [s.map EXCEPT ![p] = t]
    /\ m.priority = s.priority /\ m.flags = s.flags /\ m.semaphore = s.semaphore
    /\ m.timers = s.timers
    /\ \/ /\ s.state[t] = "SUSPENDED_RUNNABLE"
          /\ m.run = s.run \cup {p} /\ m.count = s.count /\ m.pending = s.pending
       \/ /\ TakesCount(s, t)
          /\ m.run = s.run \cup {p} /\ m.count = [s.count EXCEPT ![s.semaphore[t]] = @ - 1]
          /\ m.pending = s.pending
       \/ /\ s.state[t] # "SUSPENDED_RUNNABLE" /\ ~TakesCount(s, t)
          /\ "SEMAPHORE_PEND" \in s.flags[t]
          /\ m.run = s.run /\ m.count = s.count
          /\ m.pending = [s.pending EXCEPT ![s.semaphore[t]] = @ \cup {p}]
       \/ /\ s.state[t] # "SUSPENDED_RUNNABLE" /\ "SEMAPHORE_PEND" \notin s.flags[t]
          /\ m.run = s.run /\ m.count = s.count /\ m.pending = s.pending

LEMMA MapFields ==
  ASSUME NEW s \in Kernel, NEW t \in Thread
  PROVE  Mapped(s, t, Map(s, t))
<1> DEFINE p == s.priority[t]
           m == Map(s, t)
           x == s.semaphore[t]
<1>0. p \in Priorities /\ "MAPPED" \in State
  BY KernelFields DEF State
<1>1. CASE s.state[t] = "SUSPENDED_RUNNABLE"
  <2>1. m = [[s EXCEPT !.map[p] = t, !.state[t] = "MAPPED"] EXCEPT !.run = @ \cup {p}]
    BY <1>1 DEF Map
  <2> HIDE DEF p, m
  <2>2. /\ m.state = [s.state EXCEPT ![t] = "MAPPED"] /\ m.map = [s.map EXCEPT ![p] = t]
        /\ m.priority = s.priority /\ m.flags = s.flags /\ m.semaphore = s.semaphore
        /\ m.timers = s.timers
        /\ m.run = s.run \cup {p} /\ m.count = s.count /\ m.pending = s.pending
    BY <1>0, <2>1 DEF Kernel
  <2>3. m \in Kernel
    BY <1>0, <2>1 DEF Kernel
  <2> QED BY <1>1, <2>2, <2>3, Zenon DEF Mapped, p, m
<1>2. CASE TakesCount(s, t)
  <2>1. m = [[s EXCEPT !.map[p] = t, !.state[t] = "MAPPED"]
               EXCEPT !.run = @ \cup {p}, !.count[x] = @ - 1]
    BY <1>2 DEF Map, TakesCount
  <2>2. [s.count EXCEPT ![x] = @ - 1] \in [Sem -> Nat]
    <3>1. s.count \in [Sem -> Nat] /\ s.count[x] > 0
      BY <1>2, KernelFields DEF TakesCount
    <3> HIDE DEF x
    <3>2. CASE x \in Sem
      BY <3>1, <3>2
    <3>3. CASE x \notin Sem
      <4>1. [s.count EXCEPT ![x] = @ - 1] = s.count
        BY <3>1, <3>3
      <4> QED BY <3>1, <4>1
    <3> QED BY <3>2, <3>3
  <2> HIDE DEF p, m, x
  <2>3. /\ m.state = [s.state EXCEPT ![t] = "MAPPED"] /\ m.map = [s.map EXCEPT ![p] = t]
        /\ m.priority = s.priority /\ m.flags = s.flags /\ m.semaphore = s.semaphore
        /\ m.timers = s.timers
        /\ m.run = s.run \cup {p} /\ m.count = [s.count EXCEPT ![x] = @ - 1]
        /\ m.pending = s.pending
    BY <1>0, <2>1 DEF Kernel
  <2>4. m \in Kernel
    BY <1>0, <2>1, <2>2 DEF Kernel
  <2> QED BY <1>2, <2>3, <2>4 DEF Mapped, p, m, x
<1>3. CASE s.state[t] # "SUSPENDED_RUNNABLE" /\ ~TakesCount(s, t) /\ "SEMAPHORE_PEND" \in s.flags[t]
  <2>1. m = [[s EXCEPT !.map[p] = t, !.state[t] = "MAPPED"] EXCEPT !.pending[x] = @ \cup {p}]
    BY <1>3 DEF Map
  <2> HIDE DEF p, m, x
  <2>2. [s.pending EXCEPT ![x] = @ \cup {p}] \in [Sem -> SUBSET Priorities]
    BY <1>0, KernelFields
  <2>3. /\ m.state = [s.state EXCEPT ![t] = "MAPPED"] /\ m.map = [s.map EXCEPT ![p] = t]
        /\ m.priority = s.priority /\ m.flags = s.flags /\ m.semaphore = s.semaphore
        /\ m.timers = s.timers
        /\ m.run = s.run /\ m.count = s.count
        /\ m.pending = [s.pending EXCEPT ![x] = @ \cup {p}]
    BY <1>0, <2>1 DEF Kernel
  <2>4. m \in Kernel
    BY <1>0, <2>1, <2>2 DEF Kernel
  <2> QED BY <1>3, <2>3, <2>4 DEF Mapped, p, m, x
<1>4. CASE s.state[t] # "SUSPENDED_RUNNABLE" /\ "SEMAPHORE_PEND" \notin s.flags[t]
  <2>1. m = [s EXCEPT !.map[p] = t, !.state[t] = "MAPPED"]
    BY <1>4 DEF Map, TakesCount
  <2> HIDE DEF p, m
  <2>2. /\ m \in Kernel
        /\ m.state = [s.state EXCEPT ![t] = "MAPPED"] /\ m.map = [s.map EXCEPT ![p] = t]
        /\ m.priority = s.priority /\ m.flags = s.flags /\ m.semaphore = s.semaphore
        /\ m.timers = s.timers
        /\ m.run = s.run /\ m.count = s.count /\ m.pending = s.pending
    BY <1>0, <2>1 DEF Kernel
  <2> QED BY <1>4, <2>2, Zenon DEF Mapped, p, m
<1> QED BY <1>1, <1>2, <1>3, <1>4

\* What __pk_thread_unmap does to each of the kernel's structures.
Unmapped(s, t, m) ==
    LET p == s.priority[t] IN
    /\ m \in Kernel
    /\ m.map = [s.map EXCEPT ![p] = None]
    /\ m.priority = s.priority /\ m.flags = s.flags /\ m.semaphore = s.semaphore
    /\ m.timers = s.timers /\ m.count = s.count
    /\ m.run = s.run \ {p}
    /\ \/ /\ p \in s.run
          /\ m.state = [s.state EXCEPT ![t] = "SUSPENDED_RUNNABLE"] /\ m.pending = s.pending
       \/ /\ p \notin s.run /\ "SEMAPHORE_PEND" \in s.flags[t]
          /\ m.state = [s.state EXCEPT ![t] = "SUSPENDED_BLOCKED"]
          /\ m.pending = [s.pending EXCEPT ![s.semaphore[t]] = @ \ {p}]
       \/ /\ p \notin s.run /\ "SEMAPHORE_PEND" \notin s.flags[t]
          /\ m.state = [s.state EXCEPT ![t] = "SUSPENDED_BLOCKED"]
          /\ m.pending = s.pending

LEMMA UnmapFields ==
  ASSUME NEW s \in Kernel, NEW t \in Thread
  PROVE  Unmapped(s, t, Unmap(s, t))
<1> DEFINE p == s.priority[t]
           m == Unmap(s, t)
           x == s.semaphore[t]
<1>0. p \in Priorities /\ {"SUSPENDED_RUNNABLE", "SUSPENDED_BLOCKED"} \subseteq State
  BY KernelFields DEF State
<1>1. CASE p \in s.run
  <2>1. m = [s EXCEPT !.map[p] = None, !.run = @ \ {p}, !.state[t] = "SUSPENDED_RUNNABLE"]
    BY <1>1 DEF Unmap, is_runnable
  <2> HIDE DEF p, m
  <2>2. /\ m \in Kernel
        /\ m.state = [s.state EXCEPT ![t] = "SUSPENDED_RUNNABLE"]
        /\ m.map = [s.map EXCEPT ![p] = None]
        /\ m.priority = s.priority /\ m.flags = s.flags /\ m.semaphore = s.semaphore
        /\ m.timers = s.timers /\ m.count = s.count
        /\ m.run = s.run \ {p} /\ m.pending = s.pending
    BY <1>0, <2>1 DEF Kernel
  <2> QED BY <1>1, <2>2 DEF Unmapped, p, m
<1>2. CASE p \notin s.run /\ "SEMAPHORE_PEND" \in s.flags[t]
  <2>1. m = [s EXCEPT !.map[p] = None, !.state[t] = "SUSPENDED_BLOCKED",
                      !.pending[x] = @ \ {p}]
    BY <1>2 DEF Unmap, is_runnable
  <2> HIDE DEF p, m, x
  <2>2. /\ m \in Kernel
        /\ m.state = [s.state EXCEPT ![t] = "SUSPENDED_BLOCKED"]
        /\ m.map = [s.map EXCEPT ![p] = None]
        /\ m.priority = s.priority /\ m.flags = s.flags /\ m.semaphore = s.semaphore
        /\ m.timers = s.timers /\ m.count = s.count
        /\ m.run = s.run /\ m.pending = [s.pending EXCEPT ![x] = @ \ {p}]
    BY <1>0, <2>1 DEF Kernel
  <2>3. s.run = s.run \ {p}
    BY <1>2
  <2> QED BY <1>2, <2>2, <2>3 DEF Unmapped, p, m, x
<1>3. CASE p \notin s.run /\ "SEMAPHORE_PEND" \notin s.flags[t]
  <2>1. m = [s EXCEPT !.map[p] = None, !.state[t] = "SUSPENDED_BLOCKED"]
    BY <1>3 DEF Unmap, is_runnable
  <2> HIDE DEF p, m
  <2>2. /\ m \in Kernel
        /\ m.state = [s.state EXCEPT ![t] = "SUSPENDED_BLOCKED"]
        /\ m.map = [s.map EXCEPT ![p] = None]
        /\ m.priority = s.priority /\ m.flags = s.flags /\ m.semaphore = s.semaphore
        /\ m.timers = s.timers /\ m.count = s.count
        /\ m.run = s.run /\ m.pending = s.pending
    BY <1>0, <2>1 DEF Kernel
  <2>3. s.run = s.run \ {p}
    BY <1>3
  <2> QED BY <1>3, <2>2, <2>3 DEF Unmapped, p, m
<1> QED BY <1>1, <1>2, <1>3

\* What a post does: a thread is woken, or the count goes up.
Posted(s, x, m) ==
    /\ m \in Kernel
    /\ m.state = s.state /\ m.map = s.map /\ m.priority = s.priority
    /\ m.flags = s.flags /\ m.semaphore = s.semaphore /\ m.timers = s.timers
    /\ \/ /\ s.pending[x] = {} /\ m.pending = s.pending /\ m.run = s.run
          /\ m.count = [s.count EXCEPT ![x] = @ + 1]
       \/ \E p \in s.pending[x] :
            /\ m.pending = [s.pending EXCEPT ![x] = @ \ {p}]
            /\ m.run = s.run \cup {p} /\ m.count = s.count

LEMMA PostFields ==
  ASSUME NEW s \in Kernel, NEW x \in Sem
  PROVE  Posted(s, x, Post(s, x))
<1> DEFINE m == Post(s, x)
           p == Highest(s.pending[x])
<1>1. CASE s.pending[x] = {}
  <2>1. m = [s EXCEPT !.pending[x] = @ \ {}, !.run = @ \cup {}, !.count[x] = @ + 1]
    BY <1>1 DEF Post
  <2> HIDE DEF m
  <2>2. /\ m.state = s.state /\ m.map = s.map /\ m.priority = s.priority
        /\ m.flags = s.flags /\ m.semaphore = s.semaphore /\ m.timers = s.timers
        /\ m.pending = [s.pending EXCEPT ![x] = @ \ {}] /\ m.run = s.run \cup {}
        /\ m.count = [s.count EXCEPT ![x] = @ + 1]
    BY <2>1 DEF Kernel
  <2>3. [s.pending EXCEPT ![x] = @ \ {}] = s.pending /\ s.run \cup {} = s.run
    BY KernelFields
  <2>4. [s.count EXCEPT ![x] = @ + 1] \in [Sem -> Nat]
    BY KernelFields
  <2>5. m \in Kernel
    BY <2>1, <2>3, <2>4 DEF Kernel
  <2> QED BY <1>1, <2>2, <2>3, <2>5 DEF Posted, m
<1>2. CASE s.pending[x] # {}
  <2>1. p \in s.pending[x] /\ p \in Priorities
    BY <1>2, HighestIn, KernelFields, PriorityAssumption
  <2>2. m = [s EXCEPT !.pending[x] = @ \ {p}, !.run = @ \cup {p}, !.count[x] = @]
    BY <1>2 DEF Post
  <2> HIDE DEF m, p
  <2>3. /\ m \in Kernel
        /\ m.state = s.state /\ m.map = s.map /\ m.priority = s.priority
        /\ m.flags = s.flags /\ m.semaphore = s.semaphore /\ m.timers = s.timers
        /\ m.pending = [s.pending EXCEPT ![x] = @ \ {p}]
        /\ m.run = s.run \cup {p} /\ m.count = [s.count EXCEPT ![x] = @]
    BY <2>1, <2>2 DEF Kernel
  <2>4. [s.count EXCEPT ![x] = @] = s.count
    BY KernelFields
  <2> QED BY <1>2, <2>1, <2>3, <2>4 DEF Posted, m
<1> QED BY <1>1, <1>2

\* What a timeout does: a blocked thread becomes ready.
TimedOut(s, t, m) ==
    LET p == s.priority[t] IN
    /\ m \in Kernel
    /\ m.map = s.map /\ m.priority = s.priority /\ m.semaphore = s.semaphore
    /\ m.pending = s.pending /\ m.count = s.count /\ m.timers = s.timers
    /\ \/ /\ is_mapped(s, t) /\ ~is_runnable(s, t)
          /\ m.flags = [s.flags EXCEPT ![t] = @ \cup {"TIMED_OUT"}]
          /\ m.run = s.run \cup {p} /\ m.state = s.state
       \/ /\ s.state[t] = "SUSPENDED_BLOCKED"
          /\ m.flags = [s.flags EXCEPT ![t] = @ \cup {"TIMED_OUT"}]
          /\ m.run = s.run /\ m.state = [s.state EXCEPT ![t] = "SUSPENDED_RUNNABLE"]
       \/ m.flags = s.flags /\ m.run = s.run /\ m.state = s.state

LEMMA TimeoutFields ==
  ASSUME NEW s \in Kernel, NEW t \in Thread
  PROVE  TimedOut(s, t, Timeout(s, t))
<1> DEFINE p == s.priority[t]
           m == Timeout(s, t)
<1>0. p \in Priorities /\ "SUSPENDED_RUNNABLE" \in State /\ "TIMED_OUT" \in Flag
  BY KernelFields DEF State, Flag
<1>1. CASE is_mapped(s, t) /\ ~is_runnable(s, t)
  <2>1. m = [s EXCEPT !.flags[t] = @ \cup {"TIMED_OUT"}, !.run = @ \cup {p}]
    BY <1>1 DEF Timeout
  <2> HIDE DEF p, m
  <2>2. /\ m \in Kernel
        /\ m.map = s.map /\ m.priority = s.priority /\ m.semaphore = s.semaphore
        /\ m.pending = s.pending /\ m.count = s.count /\ m.timers = s.timers
        /\ m.flags = [s.flags EXCEPT ![t] = @ \cup {"TIMED_OUT"}]
        /\ m.run = s.run \cup {p} /\ m.state = s.state
    BY <1>0, <2>1 DEF Kernel
  <2> QED BY <1>1, <2>2 DEF TimedOut, p, m
<1>2. CASE s.state[t] = "SUSPENDED_BLOCKED"
  <2>1. m = [s EXCEPT !.flags[t] = @ \cup {"TIMED_OUT"}, !.state[t] = "SUSPENDED_RUNNABLE"]
    BY <1>2 DEF Timeout, is_mapped
  <2> HIDE DEF p, m
  <2>2. /\ m \in Kernel
        /\ m.map = s.map /\ m.priority = s.priority /\ m.semaphore = s.semaphore
        /\ m.pending = s.pending /\ m.count = s.count /\ m.timers = s.timers
        /\ m.flags = [s.flags EXCEPT ![t] = @ \cup {"TIMED_OUT"}]
        /\ m.run = s.run /\ m.state = [s.state EXCEPT ![t] = "SUSPENDED_RUNNABLE"]
    BY <1>0, <2>1 DEF Kernel
  <2> QED BY <1>2, <2>2 DEF TimedOut, m
<1>3. CASE /\ ~(is_mapped(s, t) /\ ~is_runnable(s, t))
           /\ s.state[t] # "SUSPENDED_BLOCKED"
  <2>1. m = s
    BY <1>3 DEF Timeout
  <2> QED BY <2>1 DEF TimedOut
<1> QED BY <1>1, <1>2, <1>3

\* What __pk_thread_delete does, once the thread is unmapped.
Deleted(s, t, f, m) ==
    /\ m \in Kernel
    /\ m.map = s.map /\ m.priority = s.priority /\ m.semaphore = s.semaphore
    /\ m.pending = s.pending /\ m.count = s.count /\ m.flags = s.flags /\ m.run = s.run
    /\ m.timers = s.timers \ {t} /\ m.state = [s.state EXCEPT ![t] = f]

LEMMA DeleteFields ==
  ASSUME NEW s \in Kernel, NEW t \in Thread, NEW f \in {"COMPLETED", "DELETED"}
  PROVE  Deleted(IF is_mapped(s, t) THEN Unmap(s, t) ELSE s, t, f, Delete(s, t, f))
<1> DEFINE u == IF is_mapped(s, t) THEN Unmap(s, t) ELSE s
           m == Delete(s, t, f)
<1>1. u \in Kernel /\ f \in State
  BY UnmapFields DEF Unmapped, State
<1>2. m = [u EXCEPT !.timers = @ \ {t}, !.state[t] = f]
  BY DEF Delete
<1> HIDE DEF u, m
<1>3. Deleted(u, t, f, m)
  BY <1>1, <1>2 DEF Deleted, Kernel
<1> QED BY <1>3 DEF u, m

\* A new priority.
Prioritized(s, t, p, m) ==
    /\ m \in Kernel
    /\ m.state = s.state /\ m.map = s.map /\ m.semaphore = s.semaphore
    /\ m.pending = s.pending /\ m.count = s.count /\ m.flags = s.flags /\ m.run = s.run
    /\ m.timers = s.timers /\ m.priority = [s.priority EXCEPT ![t] = p]

LEMMA PriorityFields ==
  ASSUME NEW s \in Kernel, NEW t \in Thread, NEW p \in Priorities
  PROVE  Prioritized(s, t, p, [s EXCEPT !.priority[t] = p])
<1> DEFINE m == [s EXCEPT !.priority[t] = p]
<1>1. m = [s EXCEPT !.priority[t] = p]
  OBVIOUS
<1> HIDE DEF m
<1>2. Prioritized(s, t, p, m)
  BY <1>1 DEF Prioritized, Kernel
<1> QED BY <1>2 DEF m

\* The steps that change single fields of the kernel.
LEMMA PendNowFields ==
  ASSUME TypeOK, NEW t \in Thread, NEW x \in Sem, pk_semaphore_pend_now(t, x)
  PROVE  /\ k' \in Kernel
         /\ k'.state = k.state /\ k'.map = k.map /\ k'.priority = k.priority
         /\ k'.flags = k.flags /\ k'.semaphore = k.semaphore /\ k'.timers = k.timers
         /\ k'.pending = k.pending /\ k'.run = k.run
         /\ \A y \in Sem : k.count[y] = 0 => k'.count[y] = 0
         /\ current' = next_thread(k') \/ UNCHANGED <<k, current>>
<1>1. CASE k.count[x] # 0
  <2>1. k' = [k EXCEPT !.count[x] = @ - 1] /\ current' = next_thread(k')
    BY <1>1 DEF pk_semaphore_pend_now, Install
  <2>2. k \in Kernel /\ k.count \in [Sem -> Nat]
    BY KernelFields DEF TypeOK
  <2>3. [k.count EXCEPT ![x] = @ - 1] \in [Sem -> Nat]
    BY <1>1, <2>2
  <2>4. /\ k'.state = k.state /\ k'.map = k.map /\ k'.priority = k.priority
        /\ k'.flags = k.flags /\ k'.semaphore = k.semaphore /\ k'.timers = k.timers
        /\ k'.pending = k.pending /\ k'.run = k.run
        /\ k'.count = [k.count EXCEPT ![x] = @ - 1]
    BY <2>1, <2>2 DEF Kernel
  <2>5. k' \in Kernel
    BY <2>1, <2>2, <2>3 DEF Kernel
  <2> QED BY <1>1, <2>1, <2>2, <2>4, <2>5
<1>2. CASE k.count[x] = 0
  BY <1>2 DEF TypeOK, pk_semaphore_pend_now
<1> QED BY <1>1, <1>2

LEMMA PendFields ==
  ASSUME TypeOK, NEW t \in Thread, NEW x \in Sem, NEW timed \in BOOLEAN,
         pk_semaphore_pend(t, x, timed)
  PROVE  LET p == k.priority[t] IN
         /\ k' \in Kernel /\ current' = next_thread(k')
         /\ k'.state = k.state /\ k'.map = k.map /\ k'.priority = k.priority
         /\ k'.count = k.count
         /\ k'.pending = [k.pending EXCEPT ![x] = @ \cup {p}]
         /\ k'.semaphore = [k.semaphore EXCEPT ![t] = x]
         /\ k'.run = k.run \ {p}
         /\ ~timed => /\ k'.timers = k.timers
                      /\ k'.flags = [k.flags EXCEPT ![t] = @ \cup {"SEMAPHORE_PEND"}]
<1> DEFINE p == k.priority[t]
           fl == k.flags[t] \cup {"SEMAPHORE_PEND"} \cup (IF timed THEN {"TIMER_PEND"} ELSE {})
           ti == IF timed THEN k.timers \cup {t} ELSE k.timers
<1>1. k' = [k EXCEPT !.pending[x] = @ \cup {p}, !.semaphore[t] = x, !.flags[t] = fl,
                     !.timers = ti, !.run = @ \ {p}]
  BY DEF pk_semaphore_pend, Install, TypeOK, Kernel
<1>2. current' = next_thread(k')
  BY DEF pk_semaphore_pend, Install
<1>3. k \in Kernel /\ p \in Priorities /\ fl \in SUBSET Flag /\ ti \in SUBSET Thread
  BY KernelFields DEF TypeOK, Flag
<1>4. ~timed => ti = k.timers /\ fl = k.flags[t] \cup {"SEMAPHORE_PEND"}
  OBVIOUS
<1> HIDE DEF p, fl, ti
<1>5. /\ k'.state = k.state /\ k'.map = k.map /\ k'.priority = k.priority
      /\ k'.count = k.count /\ k'.timers = ti
      /\ k'.pending = [k.pending EXCEPT ![x] = @ \cup {p}]
      /\ k'.semaphore = [k.semaphore EXCEPT ![t] = x]
      /\ k'.flags = [k.flags EXCEPT ![t] = fl] /\ k'.run = k.run \ {p}
  BY <1>1, <1>3 DEF Kernel
<1>6. k' \in Kernel
  BY <1>1, <1>3 DEF Kernel
<1>7. ~timed => k'.flags = [k.flags EXCEPT ![t] = @ \cup {"SEMAPHORE_PEND"}]
  BY <1>4, <1>5, Zenon
<1> QED BY <1>2, <1>4, <1>5, <1>6, <1>7 DEF p

LEMMA PendTimers ==
  ASSUME TypeOK, NEW t \in Thread, NEW x \in Sem, NEW timed \in BOOLEAN,
         pk_semaphore_pend(t, x, timed)
  PROVE  k'.timers \subseteq k.timers \cup {t}
<1>1. k'.timers = IF timed THEN k.timers \cup {t} ELSE k.timers
  BY DEF pk_semaphore_pend, Install, TypeOK, Kernel
<1> QED BY <1>1

LEMMA PendReturnFields ==
  ASSUME TypeOK, NEW t \in Thread, pk_semaphore_pend_return(t)
  PROVE  LET p == k.priority[t]
             x == k.semaphore[t]
         IN
         /\ k' \in Kernel /\ current' = next_thread(k')
         /\ k'.state = k.state /\ k'.map = k.map /\ k'.priority = k.priority
         /\ k'.count = k.count /\ k'.semaphore = k.semaphore /\ k'.run = k.run
         /\ k'.timers \subseteq k.timers
         /\ "TIMER_PEND" \notin k.flags[t] =>
               /\ k'.pending = k.pending /\ k'.timers = k.timers
               /\ k'.flags = [k.flags EXCEPT ![t] = @ \ {"SEMAPHORE_PEND"}]
<1> DEFINE p == k.priority[t]
           x == k.semaphore[t]
           back == {"TIMER_PEND", "TIMED_OUT"} \subseteq k.flags[t]
           fl == IF "TIMER_PEND" \in k.flags[t] THEN {} ELSE k.flags[t] \ {"SEMAPHORE_PEND"}
           ti == IF "TIMER_PEND" \in k.flags[t] /\ "TIMED_OUT" \notin k.flags[t]
                   THEN k.timers \ {t} ELSE k.timers
           pe == IF back THEN k.pending[x] \ {p} ELSE k.pending[x]
<1>0. k \in Kernel /\ fl \in SUBSET Flag /\ ti \in SUBSET Thread /\ ti \subseteq k.timers
  BY KernelFields DEF TypeOK
<1>1. k' = [k EXCEPT !.flags[t] = fl, !.pending[x] = pe, !.timers = ti]
  BY <1>0 DEF pk_semaphore_pend_return, Install, Kernel
<1>2. current' = next_thread(k')
  BY DEF pk_semaphore_pend_return, Install
<1>3. "TIMER_PEND" \notin k.flags[t] =>
        /\ fl = k.flags[t] \ {"SEMAPHORE_PEND"} /\ pe = k.pending[x] /\ ti = k.timers
  OBVIOUS
<1>a. k.pending \in [Sem -> SUBSET Priorities] /\ (x \in Sem => pe \in SUBSET Priorities)
  BY <1>0, KernelFields
<1> HIDE DEF p, x, back, fl, ti, pe
<1>4. [k.pending EXCEPT ![x] = pe] \in [Sem -> SUBSET Priorities]
  BY <1>a
<1>5. [k.pending EXCEPT ![x] = k.pending[x]] = k.pending
  BY <1>a
<1>6. /\ k'.state = k.state /\ k'.map = k.map /\ k'.priority = k.priority
      /\ k'.count = k.count /\ k'.semaphore = k.semaphore /\ k'.run = k.run
      /\ k'.timers = ti
      /\ k'.flags = [k.flags EXCEPT ![t] = fl] /\ k'.pending = [k.pending EXCEPT ![x] = pe]
  BY <1>0, <1>1 DEF Kernel
<1>7. k' \in Kernel
  BY <1>0, <1>1, <1>4 DEF Kernel
<1>8. "TIMER_PEND" \notin k.flags[t] =>
        /\ k'.pending = k.pending /\ k'.timers = k.timers
        /\ k'.flags = [k.flags EXCEPT ![t] = @ \ {"SEMAPHORE_PEND"}]
  BY <1>0, <1>3, <1>5, <1>6
<1> QED BY <1>0, <1>2, <1>6, <1>7, <1>8

LEMMA SleepFields ==
  ASSUME TypeOK, NEW t \in Thread, pk_sleep(t)
  PROVE  /\ k' \in Kernel /\ current' = next_thread(k')
         /\ k'.state = k.state /\ k'.map = k.map /\ k'.priority = k.priority
         /\ k'.count = k.count /\ k'.semaphore = k.semaphore /\ k'.pending = k.pending
         /\ k'.run = k.run \ {k.priority[t]} /\ k'.timers = k.timers \cup {t}
         /\ k'.flags = [k.flags EXCEPT ![t] = @ \cup {"TIMER_PEND"}]
<1> DEFINE p == k.priority[t]
<1>1. k' = [k EXCEPT !.timers = @ \cup {t}, !.flags[t] = @ \cup {"TIMER_PEND"}, !.run = @ \ {p}]
  BY DEF pk_sleep, Install
<1>2. current' = next_thread(k')
  BY DEF pk_sleep, Install
<1>3. k \in Kernel /\ p \in Priorities
  BY KernelFields DEF TypeOK
<1> HIDE DEF p
<1>4. /\ k' \in Kernel
      /\ k'.state = k.state /\ k'.map = k.map /\ k'.priority = k.priority
      /\ k'.count = k.count /\ k'.semaphore = k.semaphore /\ k'.pending = k.pending
      /\ k'.run = k.run \ {p} /\ k'.timers = k.timers \cup {t}
      /\ k'.flags = [k.flags EXCEPT ![t] = @ \cup {"TIMER_PEND"}]
  BY <1>1, <1>3 DEF Kernel, Flag
<1> QED BY <1>2, <1>4 DEF p

LEMMA SleepReturnFields ==
  ASSUME TypeOK, NEW t \in Thread, pk_sleep_return(t)
  PROVE  /\ k' \in Kernel /\ current' = next_thread(k')
         /\ k'.state = k.state /\ k'.map = k.map /\ k'.priority = k.priority
         /\ k'.count = k.count /\ k'.semaphore = k.semaphore /\ k'.pending = k.pending
         /\ k'.run = k.run /\ k'.timers = k.timers
         /\ k'.flags = [k.flags EXCEPT ![t] = @ \ {"TIMER_PEND", "TIMED_OUT"}]
<1>1. k' = [k EXCEPT !.flags[t] = @ \ {"TIMER_PEND", "TIMED_OUT"}] /\ current' = next_thread(k')
  BY DEF pk_sleep_return, Install
<1> QED BY <1>1 DEF TypeOK, Kernel

LEMMA ExpireFields ==
  ASSUME TypeOK, NEW t \in Thread, TimerExpires(t)
  PROVE  /\ k' \in Kernel /\ UNCHANGED current
         /\ k'.state = k.state /\ k'.map = k.map /\ k'.priority = k.priority
         /\ k'.count = k.count /\ k'.semaphore = k.semaphore /\ k'.pending = k.pending
         /\ k'.run = k.run /\ k'.flags = k.flags /\ k'.timers = k.timers \ {t}
BY DEF TimerExpires, TypeOK, Kernel

LEMMA ReleaseFields ==
  ASSUME TypeOK, NEW c, NEW x \in Sem, pk_semaphore_release_all(c, x)
  PROVE  /\ k' \in Kernel /\ current' = next_thread(k')
         /\ k'.state = k.state /\ k'.map = k.map /\ k'.priority = k.priority
         /\ k'.count = k.count /\ k'.semaphore = k.semaphore /\ k'.timers = k.timers
         /\ k'.flags = k.flags
         /\ k'.run = k.run \cup k.pending[x] /\ k'.pending = [k.pending EXCEPT ![x] = {}]
<1>1. /\ k' = [k EXCEPT !.run = @ \cup k.pending[x], !.pending[x] = {}]
      /\ current' = next_thread(k')
  BY DEF pk_semaphore_release_all, Install
<1> QED BY <1>1 DEF TypeOK, Kernel

\* The states the priority changes go through.
LEMMA ChangeFields ==
  ASSUME TypeOK, NEW c, NEW t \in Thread, NEW p \in Priorities,
         pk_thread_priority_change(c, t, p)
  PROVE  /\ current' = next_thread(k')
         /\ \/ /\ is_mapped(k, t) /\ k.map[p] = None
               /\ \E u, v \in Kernel : /\ Unmapped(k, t, u) /\ Prioritized(u, t, p, v)
                                       /\ Mapped(v, t, k')
            \/ ~is_mapped(k, t) /\ Prioritized(k, t, p, k')
<1>0. k \in Kernel
  BY DEF TypeOK
<1>1. CASE is_mapped(k, t)
  <2> DEFINE u == Unmap(k, t)
             v == [u EXCEPT !.priority[t] = p]
  <2>1. k' = Map(v, t) /\ k.map[p] = None /\ current' = next_thread(k')
    BY <1>1 DEF pk_thread_priority_change, Install
  <2>2. Unmapped(k, t, u) /\ u \in Kernel
    BY <1>0, UnmapFields DEF Unmapped
  <2> HIDE DEF u
  <2>3. Prioritized(u, t, p, v) /\ v \in Kernel
    BY <2>2, PriorityFields DEF Prioritized
  <2> HIDE DEF v
  <2>4. Mapped(v, t, k')
    BY <2>1, <2>3, MapFields
  <2> QED BY <1>1, <2>1, <2>2, <2>3, <2>4
<1>2. CASE ~is_mapped(k, t)
  <2>1. k' = [k EXCEPT !.priority[t] = p] /\ current' = next_thread(k')
    BY <1>2 DEF pk_thread_priority_change, Install
  <2> QED BY <1>0, <1>2, <2>1, PriorityFields
<1> QED BY <1>1, <1>2

UnmappedIf(s, t, m) == IF is_mapped(k, t) THEN Unmapped(s, t, m) ELSE m = s
MappedIf(s, t, m)   == IF is_mapped(k, t) THEN Mapped(s, t, m) ELSE m = s

LEMMA SwapFields ==
  ASSUME TypeOK, NEW c, NEW t \in Thread, NEW u \in Thread, pk_thread_priority_swap(c, t, u)
  PROVE  /\ current' = next_thread(k') /\ t # u
         /\ is_mapped(k, t) /\ ~is_mapped(k, u) => k.map[k.priority[u]] = None
         /\ is_mapped(k, u) /\ ~is_mapped(k, t) => k.map[k.priority[t]] = None
         /\ \E a1, a2, a3, a4, a5 \in Kernel :
              /\ UnmappedIf(k, t, a1) /\ UnmappedIf(a1, u, a2)
              /\ Prioritized(a2, t, k.priority[u], a3) /\ Prioritized(a3, u, k.priority[t], a4)
              /\ MappedIf(a4, t, a5) /\ MappedIf(a5, u, k')
<1> DEFINE a1 == IF is_mapped(k, t) THEN Unmap(k, t) ELSE k
           a2 == IF is_mapped(k, u) THEN Unmap(a1, u) ELSE a1
           a3 == [a2 EXCEPT !.priority[t] = k.priority[u]]
           a4 == [a3 EXCEPT !.priority[u] = k.priority[t]]
           a5 == IF is_mapped(k, t) THEN Map(a4, t) ELSE a4
           a6 == IF is_mapped(k, u) THEN Map(a5, u) ELSE a5
<1>0. k \in Kernel /\ k.priority[t] \in Priorities /\ k.priority[u] \in Priorities
  BY KernelFields DEF TypeOK
<1>1. /\ t # u /\ current' = next_thread(k')
      /\ is_mapped(k, t) /\ ~is_mapped(k, u) => k.map[k.priority[u]] = None
      /\ is_mapped(k, u) /\ ~is_mapped(k, t) => k.map[k.priority[t]] = None
  BY DEF pk_thread_priority_swap, Install
<1>2. a4 = [a2 EXCEPT !.priority[t] = k.priority[u], !.priority[u] = k.priority[t]]
  OBVIOUS
<1>3. k' = a6
  BY <1>2 DEF pk_thread_priority_swap, Install
<1>a. ASSUME NEW s \in Kernel, NEW x \in Thread
      PROVE  Unmap(s, x) \in Kernel /\ Unmapped(s, x, Unmap(s, x))
  <2>1. Unmapped(s, x, Unmap(s, x))
    BY UnmapFields
  <2> QED BY <2>1 DEF Unmapped
<1>b. ASSUME NEW s \in Kernel, NEW x \in Thread
      PROVE  Map(s, x) \in Kernel /\ Mapped(s, x, Map(s, x))
  <2>1. Mapped(s, x, Map(s, x))
    BY MapFields
  <2> QED BY <2>1 DEF Mapped
<1>4. a1 \in Kernel /\ UnmappedIf(k, t, a1)
  BY <1>0, <1>a DEF UnmappedIf
<1> HIDE DEF a1
<1>5. a2 \in Kernel /\ UnmappedIf(a1, u, a2)
  BY <1>4, <1>a DEF UnmappedIf
<1> HIDE DEF a2
<1>6. a3 \in Kernel /\ Prioritized(a2, t, k.priority[u], a3)
  BY <1>0, <1>5, PriorityFields DEF Prioritized
<1> HIDE DEF a3
<1>7. a4 \in Kernel /\ Prioritized(a3, u, k.priority[t], a4)
  BY <1>0, <1>6, PriorityFields DEF Prioritized
<1> HIDE DEF a4
<1>8. a5 \in Kernel /\ MappedIf(a4, t, a5)
  BY <1>7, <1>b DEF MappedIf
<1> HIDE DEF a5
<1>9. a6 \in Kernel /\ MappedIf(a5, u, a6)
  BY <1>8, <1>b DEF MappedIf
<1> HIDE DEF a6
<1> QED BY <1>1, <1>3, <1>4, <1>5, <1>6, <1>7, <1>8, <1>9

-----------------------------------------------------------------------------
(* Type correctness.                                                       *)

LEMMA AtType ==
  ASSUME NEW s \in Kernel, NEW q \in SUBSET Priorities
  PROVE  At(s, q) \subseteq Thread
BY KernelFields DEF At

LEMMA TypeInit == Init => TypeOK
<1> SUFFICES ASSUME Init PROVE TypeOK
  OBVIOUS
<1>1. k \in Kernel
  BY PriorityAssumption DEF Init, Kernel, State
<1>2. current \in Thread \cup {None}
  BY <1>1, NextThreadType DEF Init
<1> QED BY <1>1, <1>2 DEF Init, TypeOK

\* Every step leaves a kernel state, and the thread __pk_schedule finds in it running.
LEMMA KernelStep ==
  ASSUME TypeOK, Next
  PROVE  /\ k' \in Kernel
         /\ current' = next_thread(k') \/ (UNCHANGED current /\ next_thread(k') = next_thread(k))
<1>0. k \in Kernel
  BY DEF TypeOK
<1>1. ASSUME NEW t \in Thread, NEW x \in Sem, pk_semaphore_pend_now(t, x)
      PROVE  /\ k' \in Kernel
             /\ current' = next_thread(k') \/ (UNCHANGED current /\ next_thread(k') = next_thread(k))
  BY <1>1, PendNowFields
<1>2. ASSUME NEW t \in Thread, NEW x \in Sem, NEW b \in BOOLEAN, pk_semaphore_pend(t, x, b)
      PROVE  k' \in Kernel /\ current' = next_thread(k')
  BY <1>2, PendFields
<1>3. ASSUME NEW t \in Thread, pk_semaphore_pend_return(t)
      PROVE  k' \in Kernel /\ current' = next_thread(k')
  BY <1>3, PendReturnFields
<1>4. ASSUME NEW t \in Thread, pk_sleep(t)
      PROVE  k' \in Kernel /\ current' = next_thread(k')
  BY <1>4, SleepFields
<1>5. ASSUME NEW t \in Thread, pk_sleep_return(t)
      PROVE  k' \in Kernel /\ current' = next_thread(k')
  BY <1>5, SleepReturnFields
<1>6. ASSUME NEW t \in Thread, TimerExpires(t)
      PROVE  k' \in Kernel /\ UNCHANGED current /\ next_thread(k') = next_thread(k)
  BY <1>6, ExpireFields DEF next_thread
<1>7. ASSUME pk_thread_timeout
      PROVE  k' \in Kernel /\ current' = next_thread(k')
  <2>1. firing \in Thread /\ k' = Timeout(k, firing) /\ current' = next_thread(k')
    BY <1>7 DEF pk_thread_timeout, Install, TypeOK
  <2>2. TimedOut(k, firing, k')
    BY <1>0, <2>1, TimeoutFields
  <2> QED BY <2>1, <2>2 DEF TimedOut
<1>8. ASSUME NEW c, NEW x \in Sem, pk_semaphore_post(c, x)
      PROVE  k' \in Kernel /\ current' = next_thread(k')
  <2>1. k' = Post(k, x) /\ current' = next_thread(k')
    BY <1>8 DEF pk_semaphore_post, Install
  <2>2. Posted(k, x, k')
    BY <1>0, <2>1, PostFields
  <2> QED BY <2>1, <2>2 DEF Posted
<1>9. ASSUME NEW c, NEW x \in Sem, pk_semaphore_release_all(c, x)
      PROVE  k' \in Kernel /\ current' = next_thread(k')
  BY <1>9, ReleaseFields
<1>10. ASSUME NEW c, NEW t \in Thread, pk_thread_resume(c, t)
       PROVE  k' \in Kernel /\ current' = next_thread(k')
  <2>1. k' = Map(k, t) /\ current' = next_thread(k')
    BY <1>10 DEF pk_thread_resume, Install
  <2>2. Mapped(k, t, k')
    BY <1>0, <2>1, MapFields
  <2> QED BY <2>1, <2>2 DEF Mapped
<1>11. ASSUME NEW c, NEW t \in Thread, pk_thread_suspend(c, t)
       PROVE  k' \in Kernel /\ current' = next_thread(k')
  <2>1. k' = Unmap(k, t) /\ current' = next_thread(k')
    BY <1>11 DEF pk_thread_suspend, Install
  <2>2. Unmapped(k, t, k')
    BY <1>0, <2>1, UnmapFields
  <2> QED BY <2>1, <2>2 DEF Unmapped
<1>12. ASSUME NEW c, NEW t \in Thread, NEW f \in {"COMPLETED", "DELETED"}, pk_thread_delete(c, t, f)
       PROVE  k' \in Kernel /\ current' = next_thread(k')
  <2>1. k' = Delete(k, t, f) /\ current' = next_thread(k')
    BY <1>12 DEF pk_thread_delete, Install
  <2>2. Deleted(IF is_mapped(k, t) THEN Unmap(k, t) ELSE k, t, f, k')
    BY <1>0, <2>1, DeleteFields
  <2> QED BY <2>1, <2>2 DEF Deleted
<1>13. ASSUME NEW c, NEW t \in Thread, NEW p \in Priorities, pk_thread_priority_change(c, t, p)
       PROVE  k' \in Kernel /\ current' = next_thread(k')
  <2>1. k' = k' /\ current' = next_thread(k')
    BY <1>13, ChangeFields
  <2>2. (\E v \in Kernel : Mapped(v, t, k')) \/ Prioritized(k, t, p, k')
    BY <1>13, ChangeFields
  <2> QED BY <2>1, <2>2 DEF Mapped, Prioritized
<1>14. ASSUME NEW c, NEW t \in Thread, NEW u \in Thread, pk_thread_priority_swap(c, t, u)
       PROVE  k' \in Kernel /\ current' = next_thread(k')
  <2>1. current' = next_thread(k') /\ \E v \in Kernel : MappedIf(v, u, k')
    BY <1>14, SwapFields
  <2> QED BY <2>1 DEF MappedIf, Mapped
<1> QED
  BY <1>1, <1>2, <1>3, <1>4, <1>5, <1>6, <1>7, <1>8, <1>9, <1>10, <1>11, <1>12, <1>13, <1>14
     DEF Next

\* What a step does to the rest of the state.
LEMMA RestType ==
  ASSUME TypeOK, Next
  PROVE  /\ interrupt' \in BOOLEAN /\ firing' \in Thread \cup {None}
         /\ at' \in [Thread -> {"run", "pend", "sleep"}]
         /\ granted' \subseteq Thread /\ locked' \subseteq Thread
<1>0. k \in Kernel /\ \A x \in Sem : k.pending[x] \in SUBSET Priorities
  BY KernelFields DEF TypeOK
<1> USE DEF TypeOK, Running, RunsIn, Calls
<1>1. ASSUME NEW t \in Thread,
             \/ \E x \in Sem : pk_semaphore_pend_now(t, x) \/ \E b \in BOOLEAN : pk_semaphore_pend(t, x, b)
             \/ pk_semaphore_pend_return(t) \/ pk_sleep(t) \/ pk_sleep_return(t)
             \/ TimerExpires(t)
      PROVE  /\ interrupt' \in BOOLEAN /\ firing' \in Thread \cup {None}
             /\ at' \in [Thread -> {"run", "pend", "sleep"}]
             /\ granted' \subseteq Thread /\ locked' \subseteq Thread
  BY <1>1 DEF pk_semaphore_pend_now, pk_semaphore_pend, pk_semaphore_pend_return, pk_sleep,
              pk_sleep_return, TimerExpires
<1>2. ASSUME pk_thread_timeout
      PROVE  /\ interrupt' \in BOOLEAN /\ firing' \in Thread \cup {None}
             /\ at' \in [Thread -> {"run", "pend", "sleep"}]
             /\ granted' \subseteq Thread /\ locked' \subseteq Thread
  BY <1>2 DEF pk_thread_timeout
<1>3. ASSUME NEW c \in Thread \cup {None}, NEW x \in Sem,
             pk_semaphore_post(c, x) \/ pk_semaphore_release_all(c, x)
      PROVE  /\ interrupt' \in BOOLEAN /\ firing' \in Thread \cup {None}
             /\ at' \in [Thread -> {"run", "pend", "sleep"}]
             /\ granted' \subseteq Thread /\ locked' \subseteq Thread
  <2>1. /\ At(k, k.pending[x] \ Post(k, x).pending[x]) \subseteq Thread
        /\ At(k, k.pending[x]) \subseteq Thread
    BY <1>0, AtType
  <2> QED BY <1>3, <2>1 DEF pk_semaphore_post, pk_semaphore_release_all
<1>4. ASSUME NEW c \in Thread \cup {None}, NEW t \in Thread,
             \/ pk_thread_resume(c, t) \/ pk_thread_suspend(c, t)
             \/ \E f \in {"COMPLETED", "DELETED"} : pk_thread_delete(c, t, f)
             \/ \E p \in Priorities : pk_thread_priority_change(c, t, p)
             \/ \E u \in Thread : pk_thread_priority_swap(c, t, u)
      PROVE  /\ interrupt' \in BOOLEAN /\ firing' \in Thread \cup {None}
             /\ at' \in [Thread -> {"run", "pend", "sleep"}]
             /\ granted' \subseteq Thread /\ locked' \subseteq Thread
  BY <1>4 DEF pk_thread_resume, pk_thread_suspend, pk_thread_delete, pk_thread_priority_change,
              pk_thread_priority_swap
<1> QED BY <1>1, <1>2, <1>3, <1>4 DEF Next

LEMMA TypeNext ==
  ASSUME TypeOK, [Next]_vars
  PROVE  TypeOK'
<1>1. CASE Next
  <2>1. k' \in Kernel /\ current' \in Thread \cup {None}
    BY <1>1, KernelStep, NextThreadType DEF TypeOK
  <2> QED BY <1>1, <2>1, RestType DEF TypeOK
<1>2. CASE UNCHANGED vars
  BY <1>2 DEF vars, TypeOK
<1> QED BY <1>1, <1>2

\* The kernel's structures stay typed, whichever APIs threads and interrupt handlers
\* use: no count goes below zero, and only a thread or the idle thread is scheduled.
THEOREM KernelTyped == Spec => []TypeOK
<1>1. TypeOK /\ [Next]_vars => TypeOK'
  BY TypeNext
<1> QED BY TypeInit, <1>1, PTL DEF Spec

-----------------------------------------------------------------------------
(* The priority map.                                                       *)

LEMMA MappedAgrees ==
  ASSUME NEW s \in Kernel, NEW t \in Thread, NEW m, Mapped(s, t, m), MapAgrees(s),
         ~is_mapped(s, t), s.map[s.priority[t]] = None
  PROVE  /\ MapAgrees(m)
         /\ \A u \in Thread \ {t} : is_mapped(m, u) <=> is_mapped(s, u)
         /\ \A p \in Priorities \ {s.priority[t]} : m.map[p] = s.map[p]
<1>1. /\ m.state = [s.state EXCEPT ![t] = "MAPPED"] /\ m.priority = s.priority
      /\ m.map = [s.map EXCEPT ![s.priority[t]] = t]
  BY DEF Mapped
<1> QED BY <1>1, KernelFields, NoneAssumption DEF MapAgrees, is_mapped

LEMMA UnmappedAgrees ==
  ASSUME NEW s \in Kernel, NEW t \in Thread, NEW m, Unmapped(s, t, m), MapAgrees(s),
         is_mapped(s, t)
  PROVE  /\ MapAgrees(m) /\ ~is_mapped(m, t) /\ is_active(m, t)
         /\ m.map[m.priority[t]] = None
         /\ \A u \in Thread \ {t} : m.state[u] = s.state[u]
         /\ \A p \in Priorities \ {s.priority[t]} : m.map[p] = s.map[p]
<1>1. /\ m.priority = s.priority /\ m.map = [s.map EXCEPT ![s.priority[t]] = None]
      /\ \/ m.state = [s.state EXCEPT ![t] = "SUSPENDED_RUNNABLE"]
         \/ m.state = [s.state EXCEPT ![t] = "SUSPENDED_BLOCKED"]
  BY DEF Unmapped
<1> QED BY <1>1, KernelFields, NoneAssumption DEF MapAgrees, is_mapped, is_active

LEMMA PrioritizedAgrees ==
  ASSUME NEW s \in Kernel, NEW t \in Thread, NEW p \in Priorities, NEW m,
         Prioritized(s, t, p, m), MapAgrees(s), ~is_mapped(s, t)
  PROVE  MapAgrees(m)
<1>1. m.state = s.state /\ m.priority = [s.priority EXCEPT ![t] = p] /\ m.map = s.map
  BY DEF Prioritized
<1> QED BY <1>1, KernelFields, NoneAssumption DEF MapAgrees, is_mapped

\* The priority change goes through states in which the map agrees, and finds the
\* priority it maps the thread at free.
LEMMA ChangeAgrees ==
  ASSUME TypeOK, MapAgrees(k), NEW c, NEW t \in Thread, NEW p \in Priorities,
         pk_thread_priority_change(c, t, p)
  PROVE  /\ MapAgrees(k') /\ \A u \in Thread : is_active(k', u) <=> is_active(k, u)
         /\ k'.timers = k.timers
         /\ \/ /\ is_mapped(k, t)
               /\ \E u, v \in Kernel :
                    /\ Unmapped(k, t, u) /\ MapAgrees(u) /\ ~is_mapped(u, t)
                    /\ Prioritized(u, t, p, v) /\ MapAgrees(v)
                    /\ ~is_mapped(v, t) /\ v.map[v.priority[t]] = None
                    /\ Mapped(v, t, k')
            \/ ~is_mapped(k, t) /\ Prioritized(k, t, p, k')
<1>0. k \in Kernel
  BY DEF TypeOK
<1>1. CASE is_mapped(k, t)
  <2>1. PICK u \in Kernel, v \in Kernel : /\ Unmapped(k, t, u) /\ Prioritized(u, t, p, v)
                                          /\ Mapped(v, t, k') /\ k.map[p] = None
    BY <1>1, ChangeFields
  <2>2. /\ MapAgrees(u) /\ ~is_mapped(u, t) /\ is_active(u, t)
        /\ u.map[u.priority[t]] = None
        /\ \A x \in Thread \ {t} : u.state[x] = k.state[x]
        /\ \A q \in Priorities \ {k.priority[t]} : u.map[q] = k.map[q]
        /\ u.priority = k.priority /\ u.timers = k.timers
    <3>1. u.priority = k.priority /\ u.timers = k.timers
      BY <2>1 DEF Unmapped
    <3> QED BY <1>0, <1>1, <2>1, <3>1, UnmappedAgrees
  <2>3. u.map[p] = None
    BY <2>1, <2>2
  <2>4. /\ v.priority = [u.priority EXCEPT ![t] = p] /\ v.map = u.map /\ v.state = u.state
        /\ v.timers = u.timers
    BY <2>1 DEF Prioritized
  <2>5. v.priority[t] = p /\ v.map[v.priority[t]] = None
    BY <2>3, <2>4, KernelFields
  <2>6. MapAgrees(v) /\ ~is_mapped(v, t)
    BY <2>1, <2>2, <2>4, PrioritizedAgrees DEF is_mapped
  <2>7. MapAgrees(k')
    BY <2>1, <2>5, <2>6, MappedAgrees
  <2>8. k'.state = [v.state EXCEPT ![t] = "MAPPED"] /\ k'.timers = v.timers
    BY <2>1 DEF Mapped
  <2>9. \A x \in Thread : is_active(k', x) <=> is_active(k, x)
    BY <1>0, <1>1, <2>2, <2>4, <2>8, KernelFields DEF is_active, is_mapped
  <2> QED BY <1>1, <2>1, <2>2, <2>4, <2>5, <2>6, <2>7, <2>8, <2>9
<1>2. CASE ~is_mapped(k, t)
  <2>1. Prioritized(k, t, p, k')
    BY <1>2, ChangeFields
  <2>2. k'.state = k.state /\ k'.timers = k.timers
    BY <2>1 DEF Prioritized
  <2>3. MapAgrees(k')
    BY <1>0, <1>2, <2>1, PrioritizedAgrees
  <2> QED BY <1>2, <2>1, <2>2, <2>3 DEF is_active
<1> QED BY <1>1, <1>2

\* A thread of a swap is off the map.
Off(s, t, m) ==
    /\ MapAgrees(m) /\ ~is_mapped(m, t) /\ m.priority = s.priority /\ m.timers = s.timers
    /\ is_active(m, t) <=> is_active(s, t)
    /\ is_mapped(s, t) => m.map[s.priority[t]] = None
    /\ \A u \in Thread \ {t} : m.state[u] = s.state[u]
    /\ \A p \in Priorities : m.map[p] = s.map[p] \/ m.map[p] = None

LEMMA OffMap ==
  ASSUME NEW s \in Kernel, NEW t \in Thread, NEW m \in Kernel, MapAgrees(s),
         IF is_mapped(s, t) THEN Unmapped(s, t, m) ELSE m = s
  PROVE  Off(s, t, m)
<1>1. CASE is_mapped(s, t)
  <2>1. Unmapped(s, t, m)
    BY <1>1
  <2>2. m.priority = s.priority /\ m.timers = s.timers
    BY <2>1 DEF Unmapped
  <2>3. is_active(s, t)
    BY <1>1 DEF is_mapped, is_active
  <2>4. s.priority[t] \in Priorities
    BY KernelFields
  <2> QED BY <1>1, <2>1, <2>2, <2>3, <2>4, UnmappedAgrees DEF Off
<1>2. CASE ~is_mapped(s, t)
  BY <1>2 DEF Off
<1> QED BY <1>1, <1>2

\* The same of the swap of two priorities.
LEMMA SwapAgrees ==
  ASSUME TypeOK, MapAgrees(k), NEW c, NEW t \in Thread, NEW u \in Thread,
         pk_thread_priority_swap(c, t, u)
  PROVE  /\ MapAgrees(k') /\ \A x \in Thread : is_active(k', x) <=> is_active(k, x)
         /\ k'.timers = k.timers /\ t # u
         /\ \E a1, a2, a3, a4, a5 \in Kernel :
              /\ UnmappedIf(k, t, a1) /\ MapAgrees(a1)
              /\ is_mapped(a1, u) <=> is_mapped(k, u)
              /\ UnmappedIf(a1, u, a2) /\ MapAgrees(a2)
              /\ Prioritized(a2, t, k.priority[u], a3) /\ MapAgrees(a3) /\ ~is_mapped(a2, t)
              /\ Prioritized(a3, u, k.priority[t], a4) /\ MapAgrees(a4) /\ ~is_mapped(a3, u)
              /\ MappedIf(a4, t, a5) /\ MapAgrees(a5) /\ ~is_mapped(a4, t)
              /\ is_mapped(k, t) => a4.map[a4.priority[t]] = None
              /\ MappedIf(a5, u, k') /\ ~is_mapped(a5, u)
              /\ is_mapped(k, u) => a5.map[a5.priority[u]] = None
<1> DEFINE pt == k.priority[t]
           pu == k.priority[u]
<1>0. k \in Kernel /\ pt \in Priorities /\ pu \in Priorities
  BY KernelFields DEF TypeOK
<1>1. /\ t # u
      /\ is_mapped(k, t) /\ ~is_mapped(k, u) => k.map[pu] = None
      /\ is_mapped(k, u) /\ ~is_mapped(k, t) => k.map[pt] = None
  BY SwapFields
<1>2. PICK a1 \in Kernel, a2 \in Kernel, a3 \in Kernel, a4 \in Kernel, a5 \in Kernel :
        /\ UnmappedIf(k, t, a1) /\ UnmappedIf(a1, u, a2)
        /\ Prioritized(a2, t, pu, a3) /\ Prioritized(a3, u, pt, a4)
        /\ MappedIf(a4, t, a5) /\ MappedIf(a5, u, k')
  BY SwapFields
<1>3. is_mapped(k, t) /\ is_mapped(k, u) => pt # pu
  BY <1>1 DEF MapAgrees
<1>4. Off(k, t, a1)
  BY <1>0, <1>2, OffMap DEF UnmappedIf
<1>5. is_mapped(a1, u) <=> is_mapped(k, u)
  BY <1>1, <1>4 DEF Off, is_mapped
<1>6. Off(a1, u, a2)
  BY <1>2, <1>4, <1>5, OffMap DEF UnmappedIf, Off
<1>7. /\ MapAgrees(a2) /\ ~is_mapped(a2, t) /\ ~is_mapped(a2, u)
      /\ a2.priority = k.priority /\ a2.timers = k.timers
      /\ \A x \in Thread : is_active(a2, x) <=> is_active(k, x)
      /\ \A x \in Thread \ {t, u} : a2.state[x] = k.state[x]
  BY <1>1, <1>4, <1>6 DEF Off, is_active, is_mapped
<1>8. is_mapped(k, t) \/ is_mapped(k, u) => a2.map[pt] = None /\ a2.map[pu] = None
  <2>1. \A q \in Priorities : (k.map[q] = None => a1.map[q] = None)
                              /\ (a1.map[q] = None => a2.map[q] = None)
    BY <1>4, <1>6 DEF Off
  <2>2. is_mapped(k, t) => a1.map[pt] = None
    BY <1>4 DEF Off
  <2>3. is_mapped(k, u) => a2.map[pu] = None
    BY <1>4, <1>5, <1>6 DEF Off
  <2> QED BY <1>0, <1>1, <2>1, <2>2, <2>3
<1>9. /\ a3.priority = [a2.priority EXCEPT ![t] = pu] /\ a3.map = a2.map
      /\ a3.state = a2.state /\ a3.timers = a2.timers
  BY <1>2 DEF Prioritized
<1>10. /\ a4.priority = [a3.priority EXCEPT ![u] = pt] /\ a4.map = a3.map
       /\ a4.state = a3.state /\ a4.timers = a3.timers
  BY <1>2 DEF Prioritized
<1>11. MapAgrees(a3) /\ ~is_mapped(a3, u)
  BY <1>0, <1>2, <1>7, <1>9, PrioritizedAgrees DEF is_mapped
<1>12. MapAgrees(a4) /\ ~is_mapped(a4, t) /\ ~is_mapped(a4, u)
  BY <1>0, <1>2, <1>7, <1>9, <1>10, <1>11, PrioritizedAgrees DEF is_mapped
<1>13. a4.priority[t] = pu /\ a4.priority[u] = pt
  BY <1>1, <1>9, <1>10, KernelFields
<1>14. is_mapped(k, t) => a4.map[a4.priority[t]] = None
  BY <1>8, <1>9, <1>10, <1>13
<1>15. /\ MapAgrees(a5) /\ ~is_mapped(a5, u) /\ a5.priority = a4.priority
       /\ a5.timers = a4.timers
       /\ \A x \in Thread : is_active(a5, x) <=> is_active(k, x)
  <2>1. CASE is_mapped(k, t)
    <3>1. Mapped(a4, t, a5)
      BY <1>2, <2>1 DEF MappedIf
    <3>2. /\ a5.priority = a4.priority /\ a5.timers = a4.timers
          /\ a5.state = [a4.state EXCEPT ![t] = "MAPPED"]
      BY <3>1 DEF Mapped
    <3>3. MapAgrees(a5)
      BY <1>12, <1>14, <2>1, <3>1, MappedAgrees
    <3>4. \A x \in Thread : is_active(a5, x) <=> is_active(k, x)
      <4>1. a4.state \in [Thread -> State] /\ a4.state = a2.state
        BY <1>9, <1>10, KernelFields
      <4>2. \A x \in Thread \ {t} : a5.state[x] = a2.state[x]
        BY <3>2, <4>1
      <4>3. a5.state[t] = "MAPPED"
        BY <3>2, <4>1
      <4> QED BY <1>7, <2>1, <4>2, <4>3 DEF is_active, is_mapped
    <3> QED BY <1>1, <1>12, <3>2, <3>3, <3>4, KernelFields DEF is_mapped
  <2>2. CASE ~is_mapped(k, t)
    <3>1. a5 = a4
      BY <1>2, <2>2 DEF MappedIf
    <3> QED BY <1>7, <1>9, <1>10, <1>12, <3>1 DEF is_active
  <2> QED BY <2>1, <2>2
<1>16. is_mapped(k, u) => a5.map[a5.priority[u]] = None
  <2>1. SUFFICES ASSUME is_mapped(k, u) PROVE a5.map[pt] = None
    BY <1>13, <1>15
  <2>2. a4.map[pt] = None
    BY <1>8, <1>9, <1>10, <2>1
  <2>3. CASE is_mapped(k, t)
    <3>1. a5.map = [a4.map EXCEPT ![a4.priority[t]] = t]
      BY <1>2, <2>3 DEF MappedIf, Mapped
    <3> QED BY <1>0, <1>3, <1>13, <2>1, <2>2, <2>3, <3>1, KernelFields
  <2>4. CASE ~is_mapped(k, t)
    BY <1>2, <2>2, <2>4 DEF MappedIf
  <2> QED BY <2>3, <2>4
<1>17. /\ MapAgrees(k') /\ \A x \in Thread : is_active(k', x) <=> is_active(k, x)
       /\ k'.timers = k.timers
  <2>1. CASE is_mapped(k, u)
    <3>1. Mapped(a5, u, k')
      BY <1>2, <2>1 DEF MappedIf
    <3>2. k'.timers = a5.timers /\ k'.state = [a5.state EXCEPT ![u] = "MAPPED"]
      BY <3>1 DEF Mapped
    <3>3. MapAgrees(k')
      BY <1>15, <1>16, <2>1, <3>1, MappedAgrees
    <3>4. \A x \in Thread : is_active(k', x) <=> is_active(k, x)
      BY <1>15, <2>1, <3>2, KernelFields DEF is_active, is_mapped
    <3> QED BY <1>7, <1>9, <1>10, <1>15, <3>2, <3>3, <3>4
  <2>2. CASE ~is_mapped(k, u)
    <3>1. k' = a5
      BY <1>2, <2>2 DEF MappedIf
    <3> QED BY <1>7, <1>9, <1>10, <1>15, <3>1
  <2> QED BY <2>1, <2>2
<1>18. MapAgrees(a1)
  BY <1>4 DEF Off
<1> QED BY <1>1, <1>2, <1>5, <1>7, <1>11, <1>12, <1>14, <1>15, <1>16, <1>17, <1>18

\* What the other steps leave of the map and of who is active.
LEMMA SameAgrees ==
  ASSUME NEW s \in Kernel, NEW m, MapAgrees(s),
         m.state = s.state, m.map = s.map, m.priority = s.priority
  PROVE  /\ MapAgrees(m)
         /\ \A x \in Thread : is_active(m, x) <=> is_active(s, x)
BY DEF MapAgrees, is_mapped, is_active

LEMMA TimedOutAgrees ==
  ASSUME NEW s \in Kernel, NEW t \in Thread, NEW m, TimedOut(s, t, m), MapAgrees(s)
  PROVE  /\ MapAgrees(m) /\ m.timers = s.timers
         /\ \A x \in Thread : is_active(m, x) <=> is_active(s, x)
<1>1. /\ m.map = s.map /\ m.priority = s.priority /\ m.timers = s.timers
      /\ \/ m.state = s.state
         \/ /\ s.state[t] = "SUSPENDED_BLOCKED"
            /\ m.state = [s.state EXCEPT ![t] = "SUSPENDED_RUNNABLE"]
  BY DEF TimedOut
<1> QED BY <1>1, KernelFields DEF MapAgrees, is_mapped, is_active

LEMMA DeletedAgrees ==
  ASSUME NEW s \in Kernel, NEW t \in Thread, NEW f \in {"COMPLETED", "DELETED"}, NEW m,
         MapAgrees(s), m = Delete(s, t, f)
  PROVE  /\ MapAgrees(m) /\ m.timers = s.timers \ {t}
         /\ \A x \in Thread \ {t} : is_active(m, x) <=> is_active(s, x)
<1> DEFINE u == IF is_mapped(s, t) THEN Unmap(s, t) ELSE s
<1>1. Deleted(u, t, f, m)
  BY DeleteFields
<1>2. u \in Kernel /\ (IF is_mapped(s, t) THEN Unmapped(s, t, u) ELSE u = s)
  <2>1. Unmapped(s, t, Unmap(s, t))
    BY UnmapFields
  <2>2. Unmap(s, t) \in Kernel
    BY <2>1 DEF Unmapped
  <2> QED BY <2>1, <2>2
<1> HIDE DEF u
<1>3. Off(s, t, u)
  BY <1>2, OffMap
<1>4. /\ MapAgrees(u) /\ ~is_mapped(u, t) /\ u.timers = s.timers
      /\ \A x \in Thread \ {t} : u.state[x] = s.state[x]
  BY <1>3 DEF Off
<1>5. /\ m.map = u.map /\ m.priority = u.priority /\ m.timers = u.timers \ {t}
      /\ m.state = [u.state EXCEPT ![t] = f]
  BY <1>1 DEF Deleted
<1>6. MapAgrees(m)
  BY <1>2, <1>4, <1>5, KernelFields DEF MapAgrees, is_mapped
<1> QED BY <1>2, <1>4, <1>5, <1>6, KernelFields DEF is_active

\* Whoever runs is mapped, and in the run queue.
LEMMA CurrentMapped ==
  ASSUME TypeOK, MapAgrees(k), Scheduled, current \in Thread
  PROVE  is_mapped(k, current) /\ is_runnable(k, current) /\ is_active(k, current)
<1>1. k \in Kernel
  BY DEF TypeOK
<1>2. PICK p \in k.run : k.map[p] = current
  BY <1>1, NextThreadType, NoneAssumption DEF Scheduled
<1>3. p \in Priorities
  BY <1>1, KernelFields
<1> QED BY <1>2, <1>3, NoneAssumption DEF MapAgrees, is_mapped, is_runnable, is_active

\* Steps that change neither the map nor a thread's state.
LEMMA QueueStepFields ==
  ASSUME TypeOK, Next
  PROVE  \/ k'.state = k.state /\ k'.map = k.map /\ k'.priority = k.priority
         \/ pk_thread_timeout
         \/ \E c \in Thread \cup {None}, t \in Thread :
              \/ pk_thread_resume(c, t) \/ pk_thread_suspend(c, t)
              \/ \E f \in {"COMPLETED", "DELETED"} : pk_thread_delete(c, t, f)
              \/ \E p \in Priorities : pk_thread_priority_change(c, t, p)
              \/ \E u \in Thread : pk_thread_priority_swap(c, t, u)
<1>1. ASSUME NEW c, NEW x \in Sem, pk_semaphore_post(c, x)
      PROVE  k'.state = k.state /\ k'.map = k.map /\ k'.priority = k.priority
  <2>1. Posted(k, x, k')
    BY <1>1, PostFields DEF pk_semaphore_post, Install, TypeOK
  <2> QED BY <2>1 DEF Posted
<1> QED
  BY <1>1, PendNowFields, PendFields, PendReturnFields, SleepFields, SleepReturnFields,
     ExpireFields, ReleaseFields
     DEF Next

LEMMA MapAgreesNext ==
  ASSUME TypeOK, MapAgrees(k), Next
  PROVE  MapAgrees(k')
<1>0. k \in Kernel
  BY DEF TypeOK
<1>1. CASE k'.state = k.state /\ k'.map = k.map /\ k'.priority = k.priority
  BY <1>0, <1>1, SameAgrees
<1>2. CASE pk_thread_timeout
  <2>1. firing \in Thread /\ k' = Timeout(k, firing)
    BY <1>2 DEF pk_thread_timeout, Install, TypeOK
  <2> QED BY <1>0, <2>1, TimeoutFields, TimedOutAgrees
<1>3. ASSUME NEW c, NEW t \in Thread, pk_thread_resume(c, t) PROVE MapAgrees(k')
  <2>1. k' = Map(k, t) /\ ~is_mapped(k, t) /\ k.map[k.priority[t]] = None
    BY <1>3 DEF pk_thread_resume, Install
  <2> QED BY <1>0, <2>1, MapFields, MappedAgrees
<1>4. ASSUME NEW c, NEW t \in Thread, pk_thread_suspend(c, t) PROVE MapAgrees(k')
  <2>1. k' = Unmap(k, t) /\ is_mapped(k, t)
    BY <1>4 DEF pk_thread_suspend, Install
  <2> QED BY <1>0, <2>1, UnmapFields, UnmappedAgrees
<1>5. ASSUME NEW c, NEW t \in Thread, NEW f \in {"COMPLETED", "DELETED"}, pk_thread_delete(c, t, f)
      PROVE  MapAgrees(k')
  <2>1. k' = Delete(k, t, f)
    BY <1>5 DEF pk_thread_delete, Install
  <2> QED BY <1>0, <2>1, DeletedAgrees
<1>6. ASSUME NEW c, NEW t \in Thread, NEW p \in Priorities, pk_thread_priority_change(c, t, p)
      PROVE  MapAgrees(k')
  BY <1>6, ChangeAgrees
<1>7. ASSUME NEW c, NEW t \in Thread, NEW u \in Thread, pk_thread_priority_swap(c, t, u)
      PROVE  MapAgrees(k')
  BY <1>7, SwapAgrees
<1> QED BY <1>1, <1>2, <1>3, <1>4, <1>5, <1>6, <1>7, QueueStepFields

LEMMA ScheduledNext ==
  ASSUME TypeOK, Scheduled, [Next]_vars
  PROVE  Scheduled'
<1>1. CASE Next
  <2>1. current' = next_thread(k') \/ (UNCHANGED current /\ next_thread(k') = next_thread(k))
    BY <1>1, KernelStep
  <2> QED BY <2>1 DEF Scheduled
<1>2. CASE UNCHANGED vars
  BY <1>2 DEF vars, Scheduled
<1> QED BY <1>1, <1>2

-----------------------------------------------------------------------------
(* No panic.                                                               *)

\* Who deletes a thread is no interrupt handler: no timer is being called back.
LEMMA TimersActiveNext ==
  ASSUME "delete" \notin IsrApis, TypeOK, MapAgrees(k), Scheduled, TimersActive, Next
  PROVE  TimersActive'
<1>0. k \in Kernel /\ k.timers \subseteq Thread
  BY KernelFields DEF TypeOK
<1>a. ASSUME k'.timers \subseteq k.timers, firing' \in {firing, None},
             \A x \in Thread : is_active(k', x) <=> is_active(k, x)
      PROVE  TimersActive'
  BY <1>0, <1>a DEF TimersActive, TypeOK
<1>b. ASSUME k'.timers \subseteq k.timers, firing' \in {firing, None}, k'.state = k.state
      PROVE  TimersActive'
  BY <1>a, <1>b DEF is_active
<1>c. ASSUME NEW t \in Thread, current = t, k'.timers \subseteq k.timers \cup {t},
             UNCHANGED firing, k'.state = k.state
      PROVE  TimersActive'
  <2>1. is_active(k, t)
    BY <1>c, CurrentMapped
  <2> QED BY <1>0, <1>c, <2>1 DEF TimersActive, TypeOK, is_active
<1>1. ASSUME NEW t \in Thread, NEW x \in Sem, pk_semaphore_pend_now(t, x)
      PROVE  TimersActive'
  <2>1. UNCHANGED firing
    BY <1>1 DEF pk_semaphore_pend_now
  <2> QED BY <1>1, <1>b, <2>1, PendNowFields
<1>2. ASSUME NEW t \in Thread, NEW x \in Sem, NEW b \in BOOLEAN, pk_semaphore_pend(t, x, b)
      PROVE  TimersActive'
  <2>1. UNCHANGED firing /\ current = t
    BY <1>2 DEF pk_semaphore_pend, Running, RunsIn
  <2>2. k'.state = k.state
    BY <1>2, PendFields
  <2>3. k'.timers \subseteq k.timers \cup {t}
    BY <1>2, PendTimers
  <2> QED BY <1>c, <2>1, <2>2, <2>3
<1>3. ASSUME NEW t \in Thread, pk_semaphore_pend_return(t)
      PROVE  TimersActive'
  <2>1. UNCHANGED firing
    BY <1>3 DEF pk_semaphore_pend_return
  <2> QED BY <1>3, <1>b, <2>1, PendReturnFields
<1>4. ASSUME NEW t \in Thread, pk_sleep(t)
      PROVE  TimersActive'
  <2>1. UNCHANGED firing /\ current = t
    BY <1>4 DEF pk_sleep, Running, RunsIn
  <2> QED BY <1>4, <1>c, <2>1, SleepFields
<1>5. ASSUME NEW t \in Thread, pk_sleep_return(t)
      PROVE  TimersActive'
  <2>1. UNCHANGED firing
    BY <1>5 DEF pk_sleep_return
  <2> QED BY <1>5, <1>b, <2>1, SleepReturnFields
<1>6. ASSUME NEW t \in Thread, TimerExpires(t)
      PROVE  TimersActive'
  <2>1. firing' = t /\ t \in k.timers
    BY <1>6 DEF TimerExpires
  <2>2. k'.timers \subseteq k.timers /\ k'.state = k.state
    BY <1>6, ExpireFields
  <2> QED BY <2>1, <2>2 DEF TimersActive, is_active
<1>7. ASSUME pk_thread_timeout
      PROVE  TimersActive'
  <2>1. firing \in Thread /\ k' = Timeout(k, firing) /\ firing' = None
    BY <1>7 DEF pk_thread_timeout, Install, TypeOK
  <2>2. TimedOut(k, firing, k')
    BY <1>0, <2>1, TimeoutFields
  <2> QED BY <1>0, <1>a, <2>1, <2>2, TimedOutAgrees
<1>8. ASSUME NEW c, NEW x \in Sem, pk_semaphore_post(c, x)
      PROVE  TimersActive'
  <2>1. k' = Post(k, x) /\ UNCHANGED firing
    BY <1>8 DEF pk_semaphore_post, Install
  <2>2. Posted(k, x, k')
    BY <1>0, <2>1, PostFields
  <2> QED BY <1>b, <2>1, <2>2 DEF Posted
<1>9. ASSUME NEW c, NEW x \in Sem, pk_semaphore_release_all(c, x)
      PROVE  TimersActive'
  <2>1. UNCHANGED firing
    BY <1>9 DEF pk_semaphore_release_all
  <2> QED BY <1>b, <1>9, <2>1, ReleaseFields
<1>10. ASSUME NEW c, NEW t \in Thread, pk_thread_resume(c, t)
       PROVE  TimersActive'
  <2>1. k' = Map(k, t) /\ UNCHANGED firing /\ is_active(k, t)
    BY <1>10 DEF pk_thread_resume, Install
  <2>2. Mapped(k, t, k')
    BY <1>0, <2>1, MapFields
  <2>3. k'.timers = k.timers /\ k'.state = [k.state EXCEPT ![t] = "MAPPED"]
    BY <2>2 DEF Mapped
  <2> QED BY <1>0, <1>a, <2>1, <2>3, KernelFields DEF is_active
<1>11. ASSUME NEW c, NEW t \in Thread, pk_thread_suspend(c, t)
       PROVE  TimersActive'
  <2>1. k' = Unmap(k, t) /\ UNCHANGED firing /\ is_mapped(k, t)
    BY <1>11 DEF pk_thread_suspend, Install
  <2>2. Unmapped(k, t, k')
    BY <1>0, <2>1, UnmapFields
  <2>3. k'.timers = k.timers
    BY <2>2 DEF Unmapped
  <2>4. is_active(k', t) /\ \A x \in Thread \ {t} : k'.state[x] = k.state[x]
    BY <1>0, <2>1, <2>2, UnmappedAgrees
  <2> QED BY <1>0, <1>a, <2>1, <2>3, <2>4 DEF is_active, is_mapped
<1>12. ASSUME NEW c \in Thread \cup {None}, NEW t \in Thread, NEW f \in {"COMPLETED", "DELETED"},
              pk_thread_delete(c, t, f)
       PROVE  TimersActive'
  <2>1. k' = Delete(k, t, f) /\ UNCHANGED firing /\ firing = None
    BY <1>12 DEF pk_thread_delete, Install, Calls, Running, RunsIn
  <2>2. k'.timers = k.timers \ {t} /\ \A x \in Thread \ {t} : is_active(k', x) <=> is_active(k, x)
    BY <1>0, <2>1, DeletedAgrees
  <2> QED BY <1>0, <2>1, <2>2 DEF TimersActive
<1>13. ASSUME NEW c, NEW t \in Thread, NEW p \in Priorities, pk_thread_priority_change(c, t, p)
       PROVE  TimersActive'
  <2>1. UNCHANGED firing
    BY <1>13 DEF pk_thread_priority_change
  <2> QED BY <1>a, <1>13, <2>1, ChangeAgrees
<1>14. ASSUME NEW c, NEW t \in Thread, NEW u \in Thread, pk_thread_priority_swap(c, t, u)
       PROVE  TimersActive'
  <2>1. UNCHANGED firing
    BY <1>14 DEF pk_thread_priority_swap
  <2> QED BY <1>a, <1>14, <2>1, SwapAgrees
<1> QED
  BY <1>1, <1>2, <1>3, <1>4, <1>5, <1>6, <1>7, <1>8, <1>9, <1>10, <1>11, <1>12, <1>13, <1>14
     DEF Next

LEMMA MapInit ==
  ASSUME Init
  PROVE  MapAgrees(k) /\ Scheduled /\ TimersActive
<1>1. PICK m \in [Priorities -> Thread \cup {None}] :
        /\ \A p \in Priorities : IF \E t \in Thread : InitialPriority[t] = p
                                   THEN m[p] \in Thread /\ InitialPriority[m[p]] = p
                                   ELSE m[p] = None
        /\ k.state = [t \in Thread |-> IF m[InitialPriority[t]] = t THEN "MAPPED"
                                                                    ELSE "SUSPENDED_RUNNABLE"]
        /\ k.priority = InitialPriority /\ k.map = m /\ k.timers = {}
  BY DEF Init
<1>2. ASSUME NEW t \in Thread PROVE is_mapped(k, t) <=> m[InitialPriority[t]] = t
  <2>1. k.state[t] = IF m[InitialPriority[t]] = t THEN "MAPPED" ELSE "SUSPENDED_RUNNABLE"
    BY <1>1
  <2> QED BY <2>1 DEF is_mapped
<1>4. \A p \in Priorities : m[p] # None => m[p] \in Thread /\ InitialPriority[m[p]] = p
  BY <1>1
<1>5. MapAgrees(k)
  <2>1. k.map = m /\ k.priority = InitialPriority
    BY <1>1
  <2>2. ASSUME NEW t \in Thread, is_mapped(k, t) PROVE k.map[k.priority[t]] = t
    BY <1>2, <2>1, <2>2
  <2>3. ASSUME NEW p \in Priorities, m[p] # None
        PROVE  is_mapped(k, m[p]) /\ InitialPriority[m[p]] = p
    BY <1>2, <1>4, <2>3
  <2> QED BY <2>1, <2>2, <2>3 DEF MapAgrees
<1>3. Scheduled /\ TimersActive
  BY <1>1 DEF Init, Scheduled, TimersActive
<1> QED BY <1>3, <1>5

\* The timer of a thread that completed or was deleted is never called back, so that
\* __pk_thread_timeout does not panic, with every API in use and with timeouts, as long
\* as no interrupt handler deletes a thread: one that did could do so between a timer's
\* expiry and its callback.
THEOREM NeverPanics ==
  ASSUME "delete" \notin IsrApis
  PROVE  Spec => []NoPanic
<1> DEFINE IInv == TypeOK /\ MapAgrees(k) /\ Scheduled /\ TimersActive
<1>1. Init => IInv
  BY TypeInit, MapInit
<1>2. IInv /\ [Next]_vars => IInv'
  <2> SUFFICES ASSUME IInv, [Next]_vars PROVE IInv'
    OBVIOUS
  <2>1. TypeOK' /\ Scheduled'
    BY TypeNext, ScheduledNext
  <2>2. MapAgrees(k)' /\ TimersActive'
    <3>1. CASE Next
      <4>1. MapAgrees(k')
        BY <3>1, MapAgreesNext
      <4>2. TimersActive'
        BY <3>1, TimersActiveNext
      <4> QED BY <4>1, <4>2
    <3>2. CASE UNCHANGED vars
      BY <3>2 DEF vars, TimersActive
    <3> QED BY <3>1, <3>2
  <2> QED BY <2>1, <2>2
<1>3. IInv => NoPanic
  BY DEF TimersActive, NoPanic, Panicked
<1> QED BY <1>1, <1>2, <1>3, PTL DEF Spec

-----------------------------------------------------------------------------
(* The queues hold who they should.                                        *)

\* A queued priority is nobody's but its owner's.
LEMMA FreeUnqueued ==
  ASSUME NEW s \in Kernel, NEW a, NEW g, NEW f, Consistent(s, a, g, f),
         NEW p \in Priorities, s.map[p] = None
  PROVE  p \notin s.run /\ \A x \in Sem : p \notin s.pending[x]
BY DEF Consistent, RunMapped, PendingOwned

LEMMA MappedConsistent ==
  ASSUME NEW s \in Kernel, NEW t \in Thread, NEW m, Mapped(s, t, m), MapAgrees(s),
         NEW a \in Calling, NEW g, NEW h, NEW f, Consistent(s, a, g, f),
         ~is_mapped(s, t), s.map[s.priority[t]] = None,
         g \subseteq h, TakesCount(s, t) => t \in h
  PROVE  Consistent(m, a, h, f)
<1> DEFINE p == s.priority[t]
<1>0. p \in Priorities
  BY KernelFields
<1>1. p \notin s.run /\ \A x \in Sem : p \notin s.pending[x]
  BY <1>0, FreeUnqueued
<1>2. /\ m.state = [s.state EXCEPT ![t] = "MAPPED"] /\ m.map = [s.map EXCEPT ![p] = t]
      /\ m.priority = s.priority /\ m.flags = s.flags /\ m.semaphore = s.semaphore
      /\ m.timers = s.timers
  BY DEF Mapped
<1>3. MapAgrees(m)
  BY MappedAgrees
<1>4. /\ m.state[t] = "MAPPED" /\ m.map[p] = t
      /\ \A u \in Thread \ {t} : m.state[u] = s.state[u]
      /\ \A q \in Priorities \ {p} : m.map[q] = s.map[q]
  BY <1>0, <1>2, KernelFields
<1>5. \A u \in Thread \ {t} : is_mapped(s, u) => s.priority[u] # p
  BY NoneAssumption DEF MapAgrees
<1>6. FlagsFollow(m, a)
  BY <1>2 DEF Consistent, FlagsFollow
<1>7. s.run \subseteq Priorities /\ \A x \in Sem : s.pending[x] \subseteq Priorities
  BY KernelFields
<1>8. "SEMAPHORE_PEND" \in s.flags[t] => a[t] = "pend" /\ s.semaphore[t] \in Sem
  BY DEF Consistent, FlagsFollow, Calling
<1>9. a[t] = "pend" => "SEMAPHORE_PEND" \in s.flags[t]
  BY DEF Consistent, FlagsFollow
<1> HIDE DEF p
<1>a. CASE \/ s.state[t] = "SUSPENDED_RUNNABLE" /\ m.count = s.count
           \/ TakesCount(s, t) /\ m.count = [s.count EXCEPT ![s.semaphore[t]] = @ - 1]
  <2>1. m.run = s.run \cup {p} /\ m.pending = s.pending
    BY <1>a DEF Mapped, TakesCount, p
  <2>2. RunMapped(m)
    BY <1>4, <1>7, <2>1, NoneAssumption DEF Consistent, RunMapped
  <2>3. PendingOwned(m, a)
    BY <1>1, <1>2, <1>4, <1>7, <2>1 DEF Consistent, PendingOwned
  <2>4. WaitersQueued(m, a)
    BY <1>2, <1>4, <1>5, <2>1 DEF Consistent, WaitersQueued, is_mapped, is_runnable, p
  <2>5. CountOrWait(m)
    <3>1. CASE m.count = s.count
      BY <2>1, <3>1 DEF Consistent, CountOrWait
    <3>2. CASE TakesCount(s, t) /\ m.count = [s.count EXCEPT ![s.semaphore[t]] = @ - 1]
      <4>1. s.semaphore[t] \in Sem /\ s.count[s.semaphore[t]] # 0
        BY <1>8, <3>2, KernelFields DEF TakesCount
      <4>2. s.pending[s.semaphore[t]] = {}
        BY <4>1 DEF Consistent, CountOrWait
      <4>3. \A x \in Sem : x # s.semaphore[t] => m.count[x] = s.count[x]
        BY <3>2, KernelFields
      <4> QED BY <2>1, <4>2, <4>3 DEF Consistent, CountOrWait
    <3> QED BY <1>a, <3>1, <3>2
  <2>6. t \in h \/ a[t] # "pend"
    BY <1>a DEF Consistent, ReadyGranted, Ready
  <2>7. \A u \in Thread \ {t} : Ready(m, u) <=> Ready(s, u)
    BY <1>2, <1>4, <1>5, <2>1 DEF Ready, is_mapped, is_runnable, p
  <2>8. ReadyGranted(m, a, h)
    BY <2>6, <2>7 DEF Consistent, ReadyGranted
  <2>9. t \notin s.timers /\ f # t
    <3>1. a[t] # "sleep" \/ Ready(s, t)
      BY <1>8, <1>a DEF Ready, TakesCount
    <3> QED BY <3>1 DEF Consistent, TimedSleep
  <2>10. TimedSleep(m, a, f)
    BY <1>2, <2>7, <2>9 DEF Consistent, TimedSleep
  <2> QED BY <1>6, <2>2, <2>3, <2>4, <2>5, <2>8, <2>10 DEF Consistent
<1>b. CASE /\ s.state[t] # "SUSPENDED_RUNNABLE" /\ ~TakesCount(s, t) /\ m.count = s.count
           /\ m.run = s.run
           /\ \/ /\ "SEMAPHORE_PEND" \in s.flags[t]
                 /\ m.pending = [s.pending EXCEPT ![s.semaphore[t]] = @ \cup {p}]
              \/ "SEMAPHORE_PEND" \notin s.flags[t] /\ m.pending = s.pending
  <2>1. /\ \A x \in Sem : x # s.semaphore[t] => m.pending[x] = s.pending[x]
        /\ a[t] = "pend" => m.pending[s.semaphore[t]] = s.pending[s.semaphore[t]] \cup {p}
        /\ a[t] # "pend" => m.pending = s.pending
    BY <1>8, <1>9, <1>b, KernelFields
  <2>2. a[t] = "pend" => s.count[s.semaphore[t]] = 0
    BY <1>8, <1>9, <1>b, KernelFields DEF TakesCount
  <2>3. ~Ready(m, t) /\ ~Ready(s, t)
    BY <1>1, <1>2, <1>4, <1>b DEF Ready, is_runnable, is_mapped, p
  <2>4. \A u \in Thread \ {t} : Ready(m, u) <=> Ready(s, u)
    BY <1>2, <1>4, <1>b DEF Ready, is_mapped, is_runnable
  <2>5. RunMapped(m)
    BY <1>1, <1>4, <1>7, <1>b DEF Consistent, RunMapped
  <2>6. PendingOwned(m, a)
    <3> SUFFICES ASSUME NEW x \in Sem, NEW q \in m.pending[x]
                 PROVE  /\ m.map[q] # None /\ q \notin m.run
                        /\ a[m.map[q]] = "pend" /\ m.semaphore[m.map[q]] = x
      BY DEF PendingOwned
    <3>1. CASE q \in s.pending[x]
      BY <1>1, <1>2, <1>4, <1>7, <1>b, <3>1 DEF Consistent, PendingOwned
    <3>2. CASE q \notin s.pending[x]
      <4>1. a[t] = "pend" /\ x = s.semaphore[t] /\ q = p
        BY <2>1, <3>2
      <4> QED BY <1>1, <1>2, <1>4, <1>b, <4>1, NoneAssumption
    <3> QED BY <3>1, <3>2
  <2>7. WaitersQueued(m, a)
    <3> SUFFICES ASSUME NEW u \in Thread, a[u] = "pend", is_mapped(m, u), ~is_runnable(m, u)
                 PROVE  m.priority[u] \in m.pending[m.semaphore[u]]
      BY DEF WaitersQueued
    <3>1. CASE u = t
      BY <1>2, <2>1, <3>1 DEF p
    <3>2. CASE u # t
      <4>1. s.priority[u] \in s.pending[s.semaphore[u]] /\ s.semaphore[u] \in Sem
        BY <1>2, <1>4, <1>b, <3>2 DEF Consistent, WaitersQueued, FlagsFollow, is_mapped, is_runnable
      <4> QED BY <1>2, <2>1, <4>1
    <3> QED BY <3>1, <3>2
  <2>8. CountOrWait(m)
    BY <1>b, <2>1, <2>2 DEF Consistent, CountOrWait
  <2>9. ReadyGranted(m, a, h)
    BY <2>3, <2>4 DEF Consistent, ReadyGranted
  <2>10. TimedSleep(m, a, f)
    BY <1>2, <2>3, <2>4 DEF Consistent, TimedSleep
  <2> QED BY <1>6, <2>5, <2>6, <2>7, <2>8, <2>9, <2>10 DEF Consistent
<1> QED
  <2>1. \/ s.state[t] = "SUSPENDED_RUNNABLE" /\ m.count = s.count
        \/ TakesCount(s, t) /\ m.count = [s.count EXCEPT ![s.semaphore[t]] = @ - 1]
        \/ /\ s.state[t] # "SUSPENDED_RUNNABLE" /\ ~TakesCount(s, t) /\ m.count = s.count
           /\ m.run = s.run
           /\ \/ /\ "SEMAPHORE_PEND" \in s.flags[t]
                 /\ m.pending = [s.pending EXCEPT ![s.semaphore[t]] = @ \cup {p}]
              \/ "SEMAPHORE_PEND" \notin s.flags[t] /\ m.pending = s.pending
    <3>1. "SEMAPHORE_PEND" \notin s.flags[t] => ~TakesCount(s, t)
      BY DEF TakesCount
    <3> HIDE DEF TakesCount
    <3> QED BY <3>1 DEF Mapped, p
  <2> QED BY <1>a, <1>b, <2>1

LEMMA UnmappedConsistent ==
  ASSUME NEW s \in Kernel, NEW t \in Thread, NEW m, Unmapped(s, t, m), MapAgrees(s),
         NEW a \in Calling, NEW g, NEW f, Consistent(s, a, g, f), is_mapped(s, t)
  PROVE  Consistent(m, a, g, f) /\ ~TakesCount(m, t)
<1> DEFINE p == s.priority[t]
<1>0. p \in Priorities /\ s.map[p] = t
  BY KernelFields DEF MapAgrees
<1>1. /\ m.map = [s.map EXCEPT ![p] = None] /\ m.run = s.run \ {p}
      /\ m.priority = s.priority /\ m.flags = s.flags /\ m.semaphore = s.semaphore
      /\ m.timers = s.timers /\ m.count = s.count
  BY DEF Unmapped
<1>2. /\ m.state[t] = IF p \in s.run THEN "SUSPENDED_RUNNABLE" ELSE "SUSPENDED_BLOCKED"
      /\ \A u \in Thread \ {t} : m.state[u] = s.state[u]
  BY KernelFields DEF Unmapped
<1>3. \A q \in Priorities \ {p} : m.map[q] = s.map[q]
  BY <1>0, <1>1, KernelFields
<1>4. \A u \in Thread \ {t} : is_mapped(s, u) => s.priority[u] # p
  BY <1>0 DEF MapAgrees
<1>5. /\ "SEMAPHORE_PEND" \in s.flags[t] => a[t] = "pend" /\ s.semaphore[t] \in Sem
      /\ a[t] = "pend" => "SEMAPHORE_PEND" \in s.flags[t]
  BY DEF Consistent, FlagsFollow, Calling
<1>6. s.run \subseteq Priorities /\ \A x \in Sem : s.pending[x] \subseteq Priorities
  BY KernelFields
<1>7. \A x \in Sem : m.pending[x] = s.pending[x] \ {p}
  <2> TAKE x \in Sem
  <2>1. CASE m.pending = s.pending /\ p \in s.run
    BY <2>1 DEF Consistent, PendingOwned
  <2>2. CASE /\ "SEMAPHORE_PEND" \in s.flags[t]
             /\ m.pending = [s.pending EXCEPT ![s.semaphore[t]] = @ \ {p}]
    <3>1. x # s.semaphore[t] => p \notin s.pending[x]
      BY <1>0 DEF Consistent, PendingOwned
    <3> QED BY <2>2, <3>1, KernelFields
  <2>3. CASE m.pending = s.pending /\ "SEMAPHORE_PEND" \notin s.flags[t]
    <3>1. a[t] # "pend"
      BY <1>5, <2>3
    <3>2. p \notin s.pending[x]
      BY <1>0, <3>1 DEF Consistent, PendingOwned
    <3> QED BY <2>3, <3>2
  <2> QED BY <2>1, <2>2, <2>3 DEF Unmapped
<1> HIDE DEF p
<1>8. RunMapped(m)
  BY <1>1, <1>3, <1>6 DEF Consistent, RunMapped
<1>9. FlagsFollow(m, a)
  BY <1>1 DEF Consistent, FlagsFollow
<1>10. PendingOwned(m, a)
  BY <1>1, <1>3, <1>6, <1>7 DEF Consistent, PendingOwned
<1>11. WaitersQueued(m, a)
  <2> SUFFICES ASSUME NEW u \in Thread, a[u] = "pend", is_mapped(m, u), ~is_runnable(m, u)
               PROVE  m.priority[u] \in m.pending[m.semaphore[u]]
    BY DEF WaitersQueued
  <2>1. u # t
    BY <1>2 DEF is_mapped
  <2>2. is_mapped(s, u) /\ s.priority[u] # p
    BY <1>2, <1>4, <2>1 DEF is_mapped
  <2>3. ~is_runnable(s, u)
    BY <1>1, <2>2 DEF is_runnable
  <2>4. s.semaphore[u] \in Sem /\ s.priority[u] \in s.pending[s.semaphore[u]]
    BY <2>2, <2>3 DEF Consistent, WaitersQueued, FlagsFollow
  <2> QED BY <1>1, <1>7, <2>2, <2>4
<1>12. CountOrWait(m)
  BY <1>1, <1>7 DEF Consistent, CountOrWait
<1>13. \A u \in Thread : Ready(m, u) <=> Ready(s, u)
  <2> TAKE u \in Thread
  <2>1. CASE u = t
    BY <1>2, <2>1 DEF Ready, is_mapped, is_runnable, p
  <2>2. CASE u # t
    BY <1>1, <1>2, <1>4, <2>2 DEF Ready, is_mapped, is_runnable
  <2> QED BY <2>1, <2>2
<1>14. ReadyGranted(m, a, g) /\ TimedSleep(m, a, f)
  BY <1>1, <1>13 DEF Consistent, ReadyGranted, TimedSleep
<1>15. ~TakesCount(m, t)
  <2> SUFFICES ASSUME TakesCount(m, t) PROVE FALSE
    OBVIOUS
  <2>1. a[t] = "pend" /\ p \notin s.run /\ s.semaphore[t] \in Sem
    BY <1>1, <1>2, <1>5 DEF TakesCount
  <2>2. p \in s.pending[s.semaphore[t]]
    BY <2>1 DEF Consistent, WaitersQueued, is_runnable, p
  <2>3. s.count[s.semaphore[t]] = 0
    BY <2>1, <2>2 DEF Consistent, CountOrWait
  <2> QED BY <1>1, <2>3 DEF TakesCount
<1> QED BY <1>8, <1>9, <1>10, <1>11, <1>12, <1>14, <1>15 DEF Consistent

\* Steps on a thread that is not mapped: a new priority, and the end of a deletion.
LEMMA PrioritizedConsistent ==
  ASSUME NEW s \in Kernel, NEW t \in Thread, NEW p \in Priorities, NEW m,
         Prioritized(s, t, p, m), ~is_mapped(s, t),
         NEW a, NEW g, NEW f, Consistent(s, a, g, f)
  PROVE  Consistent(m, a, g, f)
<1>1. /\ m.state = s.state /\ m.map = s.map /\ m.semaphore = s.semaphore
      /\ m.pending = s.pending /\ m.count = s.count /\ m.flags = s.flags /\ m.run = s.run
      /\ m.timers = s.timers /\ \A u \in Thread \ {t} : m.priority[u] = s.priority[u]
  BY KernelFields DEF Prioritized
<1>2. \A u \in Thread : Ready(m, u) <=> Ready(s, u)
  BY <1>1 DEF Ready, is_mapped, is_runnable
<1>3. WaitersQueued(m, a)
  BY <1>1 DEF Consistent, WaitersQueued, is_mapped, is_runnable
<1>4. RunMapped(m) /\ FlagsFollow(m, a) /\ PendingOwned(m, a) /\ CountOrWait(m)
  BY <1>1 DEF Consistent, RunMapped, FlagsFollow, PendingOwned, CountOrWait
<1>5. ReadyGranted(m, a, g) /\ TimedSleep(m, a, f)
  BY <1>1, <1>2 DEF Consistent, ReadyGranted, TimedSleep
<1> QED BY <1>3, <1>4, <1>5 DEF Consistent

LEMMA DeletedConsistent ==
  ASSUME NEW s \in Kernel, NEW t \in Thread, NEW d \in {"COMPLETED", "DELETED"}, NEW m,
         Deleted(s, t, d, m), ~is_mapped(s, t),
         NEW a, NEW g, NEW f, Consistent(s, a, g, f)
  PROVE  Consistent(m, a, g, f)
<1>1. /\ m.map = s.map /\ m.semaphore = s.semaphore /\ m.priority = s.priority
      /\ m.pending = s.pending /\ m.count = s.count /\ m.flags = s.flags /\ m.run = s.run
      /\ m.timers = s.timers \ {t}
      /\ m.state[t] = d /\ \A u \in Thread \ {t} : m.state[u] = s.state[u]
  BY KernelFields DEF Deleted
<1>2. \A u \in Thread : Ready(m, u) => Ready(s, u)
  BY <1>1 DEF Ready, is_mapped, is_runnable
<1>3. WaitersQueued(m, a)
  BY <1>1 DEF Consistent, WaitersQueued, is_mapped, is_runnable
<1>4. RunMapped(m) /\ FlagsFollow(m, a) /\ PendingOwned(m, a) /\ CountOrWait(m)
  BY <1>1 DEF Consistent, RunMapped, FlagsFollow, PendingOwned, CountOrWait
<1>5. ReadyGranted(m, a, g) /\ TimedSleep(m, a, f)
  BY <1>1, <1>2 DEF Consistent, ReadyGranted, TimedSleep
<1> QED BY <1>3, <1>4, <1>5 DEF Consistent

\* The inductive invariant, when no thread pends with a timeout.
KInv == TypeOK /\ MapAgrees(k) /\ Scheduled /\ Consistent(k, at, granted, firing)

\* What the invariant says of the thread that runs.
LEMMA RunnerFacts ==
  ASSUME KInv, NEW t \in Thread, current = t
  PROVE  /\ k \in Kernel /\ k.priority[t] \in Priorities /\ k.priority[t] \in k.run
         /\ k.map[k.priority[t]] = t /\ is_mapped(k, t) /\ Ready(k, t)
         /\ t \notin k.timers /\ firing # t
         /\ \A x \in Sem : k.priority[t] \notin k.pending[x]
         /\ \A u \in Thread \ {t} : is_mapped(k, u) => k.priority[u] # k.priority[t]
<1>1. k \in Kernel /\ k.priority[t] \in Priorities
  BY KernelFields DEF KInv, TypeOK
<1>2. is_mapped(k, t) /\ is_runnable(k, t)
  BY CurrentMapped DEF KInv
<1>3. k.priority[t] \in k.run /\ Ready(k, t)
  BY <1>2 DEF is_runnable, Ready
<1>4. k.map[k.priority[t]] = t
  BY <1>2 DEF KInv, MapAgrees
<1>5. \A u \in Thread \ {t} : is_mapped(k, u) => k.priority[u] # k.priority[t]
  BY <1>4 DEF KInv, MapAgrees
<1>6. t \notin k.timers /\ firing # t
  BY <1>3 DEF KInv, Consistent, TimedSleep
<1>7. \A x \in Sem : k.priority[t] \notin k.pending[x]
  BY <1>3 DEF KInv, Consistent, PendingOwned
<1> QED BY <1>1, <1>2, <1>3, <1>4, <1>5, <1>6, <1>7

LEMMA PendNowConsistent ==
  ASSUME KInv, NEW t \in Thread, NEW x \in Sem, pk_semaphore_pend_now(t, x)
  PROVE  Consistent(k, at, granted, firing)'
<1>1. UNCHANGED <<at, granted, firing>>
  BY DEF pk_semaphore_pend_now
<1>2. /\ k'.state = k.state /\ k'.map = k.map /\ k'.priority = k.priority
      /\ k'.flags = k.flags /\ k'.semaphore = k.semaphore /\ k'.timers = k.timers
      /\ k'.pending = k.pending /\ k'.run = k.run
      /\ \A y \in Sem : k.count[y] = 0 => k'.count[y] = 0
  BY PendNowFields DEF KInv
<1> QED
  BY <1>1, <1>2
     DEF KInv, Consistent, RunMapped, FlagsFollow, PendingOwned, WaitersQueued, CountOrWait,
         ReadyGranted, TimedSleep, Ready, is_mapped, is_runnable

LEMMA PendConsistent ==
  ASSUME "timeout" \notin Apis, KInv, NEW t \in Thread, NEW x \in Sem, NEW b \in BOOLEAN,
         pk_semaphore_pend(t, x, b)
  PROVE  Consistent(k, at, granted, firing)'
<1> DEFINE p == k.priority[t]
<1>1. /\ current = t /\ at[t] = "run" /\ k.count[x] = 0 /\ ~b
      /\ at' = [at EXCEPT ![t] = "pend"] /\ granted' = granted \ {t} /\ firing' = firing
  BY DEF pk_semaphore_pend, Running, RunsIn
<1>2. /\ k'.state = k.state /\ k'.map = k.map /\ k'.priority = k.priority
      /\ k'.count = k.count
      /\ k'.pending = [k.pending EXCEPT ![x] = @ \cup {p}]
      /\ k'.semaphore = [k.semaphore EXCEPT ![t] = x]
      /\ k'.run = k.run \ {p}
      /\ k'.timers = k.timers /\ k'.flags = [k.flags EXCEPT ![t] = @ \cup {"SEMAPHORE_PEND"}]
  BY <1>1, PendFields DEF KInv
<1>3. /\ k \in Kernel /\ p \in Priorities /\ k.map[p] = t
      /\ t \notin k.timers /\ firing # t
      /\ \A u \in Thread \ {t} : is_mapped(k, u) => k.priority[u] # p
  BY <1>1, RunnerFacts
<1>4. /\ at \in Calling /\ at'[t] = "pend" /\ \A u \in Thread \ {t} : at'[u] = at[u]
  BY <1>1 DEF KInv, TypeOK, Calling
<1>5. /\ k'.semaphore[t] = x /\ \A u \in Thread \ {t} : k'.semaphore[u] = k.semaphore[u]
      /\ k'.flags[t] = {"SEMAPHORE_PEND"} /\ \A u \in Thread \ {t} : k'.flags[u] = k.flags[u]
      /\ k'.pending[x] = k.pending[x] \cup {p}
      /\ \A y \in Sem \ {x} : k'.pending[y] = k.pending[y]
  <2>1. k.flags[t] = {}
    BY <1>1 DEF KInv, Consistent, FlagsFollow
  <2> QED BY <1>2, <1>3, <2>1, KernelFields
<1>6. \A y \in Sem : k.pending[y] \subseteq Priorities
  BY <1>3, KernelFields
<1> HIDE DEF p
<1>7. RunMapped(k')
  BY <1>2 DEF KInv, Consistent, RunMapped
<1>8. FlagsFollow(k', at')
  BY <1>4, <1>5 DEF KInv, Consistent, FlagsFollow
<1>9. PendingOwned(k', at')
  <2> SUFFICES ASSUME NEW y \in Sem, NEW q \in k'.pending[y]
               PROVE  /\ k'.map[q] # None /\ q \notin k'.run
                      /\ at'[k'.map[q]] = "pend" /\ k'.semaphore[k'.map[q]] = y
    BY DEF PendingOwned
  <2>1. CASE q \in k.pending[y]
    <3>1. /\ k.map[q] # None /\ q \notin k.run /\ at[k.map[q]] = "pend"
          /\ k.semaphore[k.map[q]] = y
      BY <2>1 DEF KInv, Consistent, PendingOwned
    <3>2. k.map[q] \in Thread /\ k.map[q] # t
      BY <1>1, <1>3, <1>6, <2>1, <3>1, KernelFields
    <3> QED BY <1>2, <1>4, <1>5, <3>1, <3>2
  <2>2. CASE q \notin k.pending[y]
    <3>1. q = p /\ y = x
      BY <1>5, <2>2
    <3> QED BY <1>2, <1>3, <1>4, <1>5, <3>1, NoneAssumption
  <2> QED BY <2>1, <2>2
<1>10. WaitersQueued(k', at')
  <2> SUFFICES ASSUME NEW u \in Thread, at'[u] = "pend", is_mapped(k', u), ~is_runnable(k', u)
               PROVE  k'.priority[u] \in k'.pending[k'.semaphore[u]]
    BY DEF WaitersQueued
  <2>1. CASE u = t
    BY <1>2, <1>5, <2>1 DEF p
  <2>2. CASE u # t
    <3>1. at[u] = "pend" /\ is_mapped(k, u) /\ ~is_runnable(k, u)
      BY <1>2, <1>3, <1>4, <2>2 DEF is_mapped, is_runnable
    <3>2. k.priority[u] \in k.pending[k.semaphore[u]] /\ k.semaphore[u] \in Sem
      BY <3>1 DEF KInv, Consistent, WaitersQueued, FlagsFollow
    <3> QED BY <1>2, <1>5, <2>2, <3>2
  <2> QED BY <2>1, <2>2
<1>11. CountOrWait(k')
  BY <1>1, <1>2, <1>5 DEF KInv, Consistent, CountOrWait
<1>12. ~Ready(k', t) /\ \A u \in Thread \ {t} : Ready(k', u) <=> Ready(k, u)
  <2>1. k.state[t] = "MAPPED"
    BY <1>1, RunnerFacts DEF is_mapped
  <2> QED BY <1>2, <1>3, <2>1 DEF Ready, is_mapped, is_runnable, p
<1>13. ReadyGranted(k', at', granted')
  BY <1>1, <1>4, <1>12 DEF KInv, Consistent, ReadyGranted
<1>14. TimedSleep(k', at', firing')
  BY <1>1, <1>2, <1>3, <1>4, <1>12 DEF KInv, Consistent, TimedSleep
<1> QED BY <1>7, <1>8, <1>9, <1>10, <1>11, <1>13, <1>14 DEF Consistent

\* A thread is switched back in and returns: it is in no queue and has no timer.
LEMMA ReturnConsistent ==
  ASSUME KInv, NEW t \in Thread, pk_semaphore_pend_return(t) \/ pk_sleep_return(t)
  PROVE  Consistent(k, at, granted, firing)'
<1>1. /\ current = t /\ at' = [at EXCEPT ![t] = "run"] /\ UNCHANGED <<firing, granted>>
  BY DEF pk_semaphore_pend_return, pk_sleep_return, RunsIn
<1>2. /\ k \in Kernel /\ k.map[k.priority[t]] = t
      /\ t \notin k.timers /\ firing # t
      /\ \A x \in Sem : k.priority[t] \notin k.pending[x]
      /\ Ready(k, t)
  BY <1>1, RunnerFacts
<1>3. at \in Calling /\ at'[t] = "run" /\ \A u \in Thread \ {t} : at'[u] = at[u]
  BY <1>1 DEF KInv, TypeOK, Calling
<1>4. /\ k'.state = k.state /\ k'.map = k.map /\ k'.priority = k.priority
      /\ k'.count = k.count /\ k'.semaphore = k.semaphore /\ k'.pending = k.pending
      /\ k'.run = k.run /\ k'.timers = k.timers
      /\ k'.flags[t] = {} /\ \A u \in Thread \ {t} : k'.flags[u] = k.flags[u]
  <2>0. k.flags \in [Thread -> SUBSET Flag] /\ TypeOK
    BY <1>2, KernelFields DEF KInv
  <2>1. CASE pk_semaphore_pend_return(t)
    <3>1. k.flags[t] = {"SEMAPHORE_PEND"}
      BY <2>1 DEF KInv, Consistent, FlagsFollow, pk_semaphore_pend_return, RunsIn
    <3>2. "TIMER_PEND" \notin k.flags[t]
      BY <3>1
    <3>3. /\ k'.state = k.state /\ k'.map = k.map /\ k'.priority = k.priority
          /\ k'.count = k.count /\ k'.semaphore = k.semaphore /\ k'.run = k.run
          /\ k'.pending = k.pending /\ k'.timers = k.timers
          /\ k'.flags = [k.flags EXCEPT ![t] = @ \ {"SEMAPHORE_PEND"}]
      BY <2>0, <2>1, <3>2, PendReturnFields
    <3> QED BY <2>0, <3>1, <3>3
  <2>2. CASE pk_sleep_return(t)
    <3>1. k.flags[t] \subseteq {"TIMER_PEND", "TIMED_OUT"}
      BY <2>2 DEF KInv, Consistent, FlagsFollow, pk_sleep_return, RunsIn
    <3> QED BY <2>0, <2>2, <3>1, SleepReturnFields
  <2> QED BY <2>1, <2>2
<1>5. \A u \in Thread : Ready(k', u) <=> Ready(k, u)
  BY <1>4 DEF Ready, is_mapped, is_runnable
<1>6. RunMapped(k') /\ CountOrWait(k')
  BY <1>4 DEF KInv, Consistent, RunMapped, CountOrWait
<1>7. FlagsFollow(k', at')
  BY <1>3, <1>4 DEF KInv, Consistent, FlagsFollow
<1>8. PendingOwned(k', at')
  <2> SUFFICES ASSUME NEW y \in Sem, NEW q \in k.pending[y]
               PROVE  /\ k.map[q] # None /\ q \notin k.run
                      /\ at'[k.map[q]] = "pend" /\ k.semaphore[k.map[q]] = y
    BY <1>4 DEF PendingOwned
  <2>1. /\ k.map[q] # None /\ q \notin k.run /\ at[k.map[q]] = "pend"
        /\ k.semaphore[k.map[q]] = y
    BY DEF KInv, Consistent, PendingOwned
  <2>2. q \in Priorities /\ k.map[q] \in Thread
    BY <1>2, <2>1, KernelFields
  <2>3. k.map[q] # t
    BY <1>2, <2>1, <2>2 DEF KInv, MapAgrees
  <2> QED BY <1>3, <2>1, <2>2, <2>3
<1>9. WaitersQueued(k', at')
  BY <1>3, <1>4 DEF KInv, Consistent, WaitersQueued, is_mapped, is_runnable
<1>10. ReadyGranted(k', at', granted')
  BY <1>1, <1>3, <1>5 DEF KInv, Consistent, ReadyGranted
<1>11. TimedSleep(k', at', firing')
  BY <1>1, <1>2, <1>3, <1>4, <1>5 DEF KInv, Consistent, TimedSleep
<1> QED BY <1>6, <1>7, <1>8, <1>9, <1>10, <1>11 DEF Consistent

LEMMA SleepConsistent ==
  ASSUME KInv, NEW t \in Thread, pk_sleep(t)
  PROVE  Consistent(k, at, granted, firing)'
<1> DEFINE p == k.priority[t]
<1>1. /\ current = t /\ at[t] = "run" /\ firing = None
      /\ at' = [at EXCEPT ![t] = "sleep"] /\ granted' = granted \ {t} /\ firing' = firing
  BY DEF pk_sleep, Running, RunsIn
<1>2. /\ k'.state = k.state /\ k'.map = k.map /\ k'.priority = k.priority
      /\ k'.count = k.count /\ k'.semaphore = k.semaphore /\ k'.pending = k.pending
      /\ k'.run = k.run \ {p} /\ k'.timers = k.timers \cup {t}
      /\ k'.flags = [k.flags EXCEPT ![t] = @ \cup {"TIMER_PEND"}]
  BY SleepFields DEF KInv
<1>3. /\ k \in Kernel /\ p \in Priorities /\ k.map[p] = t
      /\ \A u \in Thread \ {t} : is_mapped(k, u) => k.priority[u] # p
  BY <1>1, RunnerFacts
<1>4. at \in Calling /\ at'[t] = "sleep" /\ \A u \in Thread \ {t} : at'[u] = at[u]
  BY <1>1 DEF KInv, TypeOK, Calling
<1>5. k'.flags[t] = {"TIMER_PEND"} /\ \A u \in Thread \ {t} : k'.flags[u] = k.flags[u]
  <2>1. k.flags[t] = {}
    BY <1>1 DEF KInv, Consistent, FlagsFollow
  <2> QED BY <1>2, <1>3, <2>1, KernelFields
<1> HIDE DEF p
<1>6. RunMapped(k') /\ CountOrWait(k')
  BY <1>2 DEF KInv, Consistent, RunMapped, CountOrWait
<1>7. FlagsFollow(k', at')
  BY <1>2, <1>4, <1>5 DEF KInv, Consistent, FlagsFollow
<1>8. PendingOwned(k', at')
  <2> SUFFICES ASSUME NEW y \in Sem, NEW q \in k.pending[y]
               PROVE  /\ k.map[q] # None /\ q \notin k.run
                      /\ at'[k.map[q]] = "pend" /\ k.semaphore[k.map[q]] = y
    BY <1>2 DEF PendingOwned
  <2>1. /\ k.map[q] # None /\ q \notin k.run /\ at[k.map[q]] = "pend"
        /\ k.semaphore[k.map[q]] = y
    BY DEF KInv, Consistent, PendingOwned
  <2>2. q \in Priorities /\ k.map[q] \in Thread
    BY <1>3, <2>1, KernelFields
  <2> QED BY <1>1, <1>4, <2>1, <2>2
<1>9. WaitersQueued(k', at')
  BY <1>2, <1>3, <1>4 DEF KInv, Consistent, WaitersQueued, is_mapped, is_runnable
<1>10. ~Ready(k', t) /\ \A u \in Thread \ {t} : Ready(k', u) <=> Ready(k, u)
  <2>1. k.state[t] = "MAPPED"
    BY <1>1, RunnerFacts DEF is_mapped
  <2> QED BY <1>2, <1>3, <2>1 DEF Ready, is_mapped, is_runnable, p
<1>11. ReadyGranted(k', at', granted')
  BY <1>1, <1>4, <1>10 DEF KInv, Consistent, ReadyGranted
<1>12. TimedSleep(k', at', firing')
  BY <1>1, <1>2, <1>4, <1>10, NoneAssumption DEF KInv, Consistent, TimedSleep
<1> QED BY <1>6, <1>7, <1>8, <1>9, <1>11, <1>12 DEF Consistent

LEMMA ExpireConsistent ==
  ASSUME KInv, NEW t \in Thread, TimerExpires(t)
  PROVE  Consistent(k, at, granted, firing)'
<1>1. firing = None /\ t \in k.timers /\ firing' = t /\ UNCHANGED <<at, granted>>
  BY DEF TimerExpires
<1>2. /\ k'.state = k.state /\ k'.map = k.map /\ k'.priority = k.priority
      /\ k'.count = k.count /\ k'.semaphore = k.semaphore /\ k'.pending = k.pending
      /\ k'.run = k.run /\ k'.flags = k.flags /\ k'.timers = k.timers \ {t}
  BY ExpireFields DEF KInv
<1>3. \A u \in Thread : Ready(k', u) <=> Ready(k, u)
  BY <1>2 DEF Ready, is_mapped, is_runnable
<1>4. /\ RunMapped(k') /\ FlagsFollow(k', at') /\ PendingOwned(k', at')
      /\ WaitersQueued(k', at') /\ CountOrWait(k')
  BY <1>1, <1>2
     DEF KInv, Consistent, RunMapped, FlagsFollow, PendingOwned, WaitersQueued, CountOrWait,
         is_mapped, is_runnable
<1>5. ReadyGranted(k', at', granted') /\ TimedSleep(k', at', firing')
  BY <1>1, <1>2, <1>3 DEF KInv, Consistent, ReadyGranted, TimedSleep
<1> QED BY <1>4, <1>5 DEF Consistent

\* The timer called back is that of a thread that sleeps.
LEMMA TimeoutConsistent ==
  ASSUME KInv, pk_thread_timeout
  PROVE  Consistent(k, at, granted, firing)'
<1>1. /\ firing \in Thread /\ k' = Timeout(k, firing) /\ firing' = None
      /\ UNCHANGED <<at, granted>> /\ k \in Kernel
  BY DEF pk_thread_timeout, Install, KInv, TypeOK
<1>2. PICK t \in Thread : t = firing
  BY <1>1
<1>3. TimedOut(k, t, k')
  BY <1>1, <1>2, TimeoutFields
<1>4. at[t] = "sleep" /\ ~Ready(k, t) /\ t \notin k.timers
  BY <1>2 DEF KInv, Consistent, TimedSleep
<1>5. /\ k'.map = k.map /\ k'.priority = k.priority /\ k'.semaphore = k.semaphore
      /\ k'.pending = k.pending /\ k'.count = k.count /\ k'.timers = k.timers
      /\ \A u \in Thread \ {t} : k'.state[u] = k.state[u] /\ k'.flags[u] = k.flags[u]
      /\ k'.flags[t] \subseteq k.flags[t] \cup {"TIMED_OUT"}
      /\ is_mapped(k', t) <=> is_mapped(k, t)
      /\ \/ k'.run = k.run
         \/ is_mapped(k, t) /\ k'.run = k.run \cup {k.priority[t]}
  BY <1>1, <1>3, KernelFields DEF TimedOut, is_mapped
<1>6. \A u \in Thread \ {t} : is_mapped(k, u) /\ is_mapped(k, t) => k.priority[u] # k.priority[t]
  BY DEF KInv, MapAgrees
<1>7. \A u \in Thread \ {t} : Ready(k', u) <=> Ready(k, u)
  BY <1>5, <1>6 DEF Ready, is_mapped, is_runnable
<1>8. is_mapped(k, t) => k.map[k.priority[t]] = t
  BY DEF KInv, MapAgrees
<1>9. RunMapped(k') /\ CountOrWait(k')
  BY <1>5, <1>8, NoneAssumption DEF KInv, Consistent, RunMapped, CountOrWait
<1>10. FlagsFollow(k', at')
  BY <1>1, <1>4, <1>5 DEF KInv, Consistent, FlagsFollow
<1>11. PendingOwned(k', at')
  <2>1. is_mapped(k, t) => \A x \in Sem : k.priority[t] \notin k.pending[x]
    BY <1>4, <1>8 DEF KInv, Consistent, PendingOwned
  <2> QED BY <1>1, <1>5, <2>1 DEF KInv, Consistent, PendingOwned
<1>12. WaitersQueued(k', at')
  BY <1>1, <1>4, <1>5 DEF KInv, Consistent, WaitersQueued, is_mapped, is_runnable
<1>13. ReadyGranted(k', at', granted')
  BY <1>1, <1>4, <1>7 DEF KInv, Consistent, ReadyGranted
<1>14. TimedSleep(k', at', firing')
  <2>1. None \notin k.timers
    BY <1>1, NoneAssumption, KernelFields
  <2> QED BY <1>1, <1>4, <1>5, <1>7, <2>1, NoneAssumption DEF KInv, Consistent, TimedSleep
<1> QED BY <1>9, <1>10, <1>11, <1>12, <1>13, <1>14 DEF Consistent

\* A post and a release wake the threads at the priorities W of a semaphore's queue, and
\* give them a count.
Woken(s, x, W, m) ==
    /\ W \subseteq s.pending[x] /\ m \in Kernel
    /\ m.state = s.state /\ m.map = s.map /\ m.priority = s.priority /\ m.flags = s.flags
    /\ m.semaphore = s.semaphore /\ m.timers = s.timers
    /\ m.pending = [s.pending EXCEPT ![x] = @ \ W] /\ m.run = s.run \cup W
    /\ \A y \in Sem : m.pending[y] # {} => m.count[y] = s.count[y]

LEMMA WakeConsistent ==
  ASSUME NEW s \in Kernel, NEW a \in Calling, NEW g, NEW h, NEW f, MapAgrees(s),
         Consistent(s, a, g, f), NEW x \in Sem, NEW W, NEW m, Woken(s, x, W, m),
         g \subseteq h, At(s, W) \subseteq h
  PROVE  Consistent(m, a, h, f)
<1>a. /\ W \subseteq s.pending[x] /\ m \in Kernel
      /\ m.state = s.state /\ m.map = s.map /\ m.priority = s.priority /\ m.flags = s.flags
      /\ m.semaphore = s.semaphore /\ m.timers = s.timers
      /\ m.pending = [s.pending EXCEPT ![x] = @ \ W] /\ m.run = s.run \cup W
      /\ \A y \in Sem : m.pending[y] # {} => m.count[y] = s.count[y]
  BY DEF Woken
<1>b. \A p \in W : s.map[p] = None \/ s.map[p] \in h
  BY DEF At
<1> USE <1>a, <1>b
<1>1. \A y \in Sem : m.pending[y] = IF y = x THEN s.pending[x] \ W ELSE s.pending[y]
  BY KernelFields
<1>2. \A p \in W : /\ p \in Priorities /\ s.map[p] # None /\ s.map[p] \in Thread
                   /\ a[s.map[p]] = "pend" /\ s.semaphore[s.map[p]] = x
  <2>1. \A p \in W : p \in Priorities /\ s.map[p] # None /\ a[s.map[p]] = "pend"
                     /\ s.semaphore[s.map[p]] = x
    BY KernelFields DEF Consistent, PendingOwned
  <2> QED BY <2>1, KernelFields
<1>3. \A u \in Thread : is_mapped(s, u) => s.map[s.priority[u]] = u
  BY DEF MapAgrees
<1>4. \A u \in Thread : Ready(m, u) => \/ Ready(s, u)
                                       \/ u \in h /\ a[u] = "pend"
  BY <1>2, <1>3 DEF Ready, is_mapped, is_runnable
<1>5. RunMapped(m)
  BY <1>2 DEF Consistent, RunMapped
<1>6. FlagsFollow(m, a)
  BY DEF Consistent, FlagsFollow
<1>7. PendingOwned(m, a)
  <2>1. ASSUME NEW y \in Sem, NEW q \in m.pending[y]
        PROVE  q \notin W /\ q \in s.pending[y]
    <3>1. q \in s.pending[y]
      BY <1>1
    <3>2. CASE y = x
      BY <1>1, <3>1, <3>2
    <3>3. CASE y # x
      BY <1>2, <3>1, <3>3 DEF Consistent, PendingOwned
    <3> QED BY <3>1, <3>2, <3>3
  <2> QED BY <2>1 DEF Consistent, PendingOwned
<1>8. WaitersQueued(m, a)
  <2> SUFFICES ASSUME NEW u \in Thread, a[u] = "pend", is_mapped(m, u), ~is_runnable(m, u)
               PROVE  m.priority[u] \in m.pending[m.semaphore[u]]
    BY DEF WaitersQueued
  <2>1. is_mapped(s, u) /\ ~is_runnable(s, u) /\ s.priority[u] \notin W
    BY DEF is_mapped, is_runnable
  <2>2. s.priority[u] \in s.pending[s.semaphore[u]] /\ s.semaphore[u] \in Sem
    BY <2>1 DEF Consistent, WaitersQueued, FlagsFollow
  <2> QED BY <1>1, <2>1, <2>2
<1>9. CountOrWait(m)
  BY <1>1 DEF Consistent, CountOrWait
<1>10. ReadyGranted(m, a, h) /\ TimedSleep(m, a, f)
  BY <1>4 DEF Consistent, ReadyGranted, TimedSleep
<1> QED BY <1>5, <1>6, <1>7, <1>8, <1>9, <1>10 DEF Consistent

LEMMA PostConsistent ==
  ASSUME KInv, NEW c, NEW x \in Sem, pk_semaphore_post(c, x)
  PROVE  Consistent(k, at, granted, firing)'
<1>1. /\ k' = Post(k, x) /\ UNCHANGED <<at, firing>>
      /\ granted' = granted \cup At(k, k.pending[x] \ k'.pending[x])
  BY DEF pk_semaphore_post, Install
<1>2. k \in Kernel /\ MapAgrees(k) /\ at \in Calling /\ Consistent(k, at, granted, firing)
  BY DEF KInv, TypeOK, Calling
<1>3. Posted(k, x, k')
  BY <1>1, <1>2, PostFields
<1>4. /\ k' \in Kernel
      /\ k'.state = k.state /\ k'.map = k.map /\ k'.priority = k.priority
      /\ k'.flags = k.flags /\ k'.semaphore = k.semaphore /\ k'.timers = k.timers
  BY <1>3 DEF Posted
<1>5. CASE /\ k.pending[x] = {} /\ k'.pending = k.pending /\ k'.run = k.run
           /\ k'.count = [k.count EXCEPT ![x] = @ + 1]
  <2>1. \A y \in Sem : k'.pending[y] # {} => k'.count[y] = k.count[y]
    BY <1>2, <1>5, KernelFields
  <2>2. k'.pending = [k.pending EXCEPT ![x] = @ \ {}] /\ k'.run = k.run \cup {}
    BY <1>2, <1>5, KernelFields
  <2>3. Woken(k, x, {}, k')
    BY <1>4, <2>1, <2>2 DEF Woken
  <2>4. granted \subseteq granted' /\ At(k, {}) \subseteq granted'
    BY <1>1 DEF At
  <2>5. Consistent(k', at, granted', firing)
    BY <1>2, <2>3, <2>4, WakeConsistent
  <2> QED BY <1>1, <2>5
<1>6. ASSUME NEW p \in k.pending[x], k'.pending = [k.pending EXCEPT ![x] = @ \ {p}],
             k'.run = k.run \cup {p}, k'.count = k.count
      PROVE  Consistent(k, at, granted, firing)'
  <2>1. k.pending[x] \ k'.pending[x] = {p}
    BY <1>2, <1>6, KernelFields
  <2>2. granted \subseteq granted' /\ At(k, {p}) \subseteq granted'
    BY <1>1, <2>1
  <2>3. Woken(k, x, {p}, k')
    BY <1>4, <1>6 DEF Woken
  <2>4. Consistent(k', at, granted', firing)
    BY <1>2, <2>2, <2>3, WakeConsistent
  <2> QED BY <1>1, <2>4
<1> QED BY <1>3, <1>5, <1>6 DEF Posted

LEMMA ReleaseConsistent ==
  ASSUME KInv, NEW c, NEW x \in Sem, pk_semaphore_release_all(c, x)
  PROVE  Consistent(k, at, granted, firing)'
<1>1. UNCHANGED <<at, firing>> /\ granted' = granted \cup At(k, k.pending[x])
  BY DEF pk_semaphore_release_all
<1>2. k \in Kernel /\ MapAgrees(k) /\ at \in Calling /\ Consistent(k, at, granted, firing)
  BY DEF KInv, TypeOK, Calling
<1>3. /\ k' \in Kernel
      /\ k'.state = k.state /\ k'.map = k.map /\ k'.priority = k.priority
      /\ k'.count = k.count /\ k'.semaphore = k.semaphore /\ k'.timers = k.timers
      /\ k'.flags = k.flags
      /\ k'.run = k.run \cup k.pending[x] /\ k'.pending = [k.pending EXCEPT ![x] = {}]
  BY ReleaseFields DEF KInv
<1>4. k'.pending = [k.pending EXCEPT ![x] = @ \ k.pending[x]]
  BY <1>3
<1>5. Woken(k, x, k.pending[x], k')
  BY <1>3, <1>4 DEF Woken
<1>6. granted \subseteq granted' /\ At(k, k.pending[x]) \subseteq granted'
  BY <1>1
<1>7. Consistent(k', at, granted', firing)
  BY <1>2, <1>5, <1>6, WakeConsistent
<1> QED BY <1>1, <1>7

LEMMA ResumeConsistent ==
  ASSUME KInv, NEW c, NEW t \in Thread, pk_thread_resume(c, t)
  PROVE  Consistent(k, at, granted, firing)'
<1>1. /\ k' = Map(k, t) /\ ~is_mapped(k, t) /\ k.map[k.priority[t]] = None
      /\ granted' = (IF TakesCount(k, t) THEN granted \cup {t} ELSE granted)
      /\ UNCHANGED <<at, firing>>
  BY DEF pk_thread_resume, Install
<1>2. k \in Kernel /\ MapAgrees(k) /\ at \in Calling /\ Consistent(k, at, granted, firing)
  BY DEF KInv, TypeOK, Calling
<1>3. Mapped(k, t, k')
  BY <1>1, <1>2, MapFields
<1>4. granted \subseteq granted' /\ (TakesCount(k, t) => t \in granted')
  BY <1>1
<1>5. Consistent(k', at, granted', firing)
  BY <1>1, <1>2, <1>3, <1>4, MappedConsistent
<1> QED BY <1>1, <1>5

LEMMA SuspendConsistent ==
  ASSUME KInv, NEW c, NEW t \in Thread, pk_thread_suspend(c, t)
  PROVE  Consistent(k, at, granted, firing)'
<1>1. k' = Unmap(k, t) /\ is_mapped(k, t) /\ UNCHANGED <<at, granted, firing>>
  BY DEF pk_thread_suspend, Install
<1>2. k \in Kernel /\ MapAgrees(k) /\ at \in Calling /\ Consistent(k, at, granted, firing)
  BY DEF KInv, TypeOK, Calling
<1>3. Unmapped(k, t, k')
  BY <1>1, <1>2, UnmapFields
<1>4. Consistent(k', at, granted, firing)
  BY <1>1, <1>2, <1>3, UnmappedConsistent
<1> QED BY <1>1, <1>4

LEMMA DeleteConsistent ==
  ASSUME KInv, NEW c, NEW t \in Thread, NEW d \in {"COMPLETED", "DELETED"},
         pk_thread_delete(c, t, d)
  PROVE  Consistent(k, at, granted, firing)'
<1> DEFINE u == IF is_mapped(k, t) THEN Unmap(k, t) ELSE k
<1>1. k' = Delete(k, t, d) /\ UNCHANGED <<at, granted, firing>>
  BY DEF pk_thread_delete, Install
<1>2. k \in Kernel /\ MapAgrees(k) /\ at \in Calling /\ Consistent(k, at, granted, firing)
  BY DEF KInv, TypeOK, Calling
<1>3. Deleted(u, t, d, k')
  BY <1>1, <1>2, DeleteFields
<1>4. Unmapped(k, t, Unmap(k, t))
  BY <1>2, UnmapFields
<1>5. Unmap(k, t) \in Kernel
  BY <1>4 DEF Unmapped
<1>6. u \in Kernel /\ ~is_mapped(u, t) /\ Consistent(u, at, granted, firing)
  <2>1. CASE is_mapped(k, t)
    <3>1. ~is_mapped(Unmap(k, t), t)
      BY <1>2, <1>4, <2>1, UnmappedAgrees
    <3>2. Consistent(Unmap(k, t), at, granted, firing)
      BY <1>2, <1>4, <2>1, UnmappedConsistent
    <3> QED BY <1>5, <2>1, <3>1, <3>2
  <2>2. CASE ~is_mapped(k, t)
    BY <1>2, <2>2
  <2> QED BY <2>1, <2>2
<1> HIDE DEF u
<1>7. Consistent(k', at, granted, firing)
  BY <1>3, <1>6, DeletedConsistent
<1> QED BY <1>1, <1>7

\* A thread that is unmapped at one priority and mapped at another takes no count.
LEMMA ChangeConsistent ==
  ASSUME KInv, NEW c, NEW t \in Thread, NEW p \in Priorities, pk_thread_priority_change(c, t, p)
  PROVE  Consistent(k, at, granted, firing)'
<1>1. UNCHANGED <<at, granted, firing>>
  BY DEF pk_thread_priority_change
<1>2. /\ k \in Kernel /\ MapAgrees(k) /\ at \in Calling /\ Consistent(k, at, granted, firing)
      /\ TypeOK
  BY DEF KInv, TypeOK, Calling
<1>3. CASE is_mapped(k, t)
  <2>1. PICK u \in Kernel, v \in Kernel :
               /\ Unmapped(k, t, u) /\ MapAgrees(u) /\ ~is_mapped(u, t)
               /\ Prioritized(u, t, p, v) /\ MapAgrees(v)
               /\ ~is_mapped(v, t) /\ v.map[v.priority[t]] = None
               /\ Mapped(v, t, k')
    BY <1>2, <1>3, ChangeAgrees
  <2>2. Consistent(u, at, granted, firing) /\ ~TakesCount(u, t)
    BY <1>2, <1>3, <2>1, UnmappedConsistent
  <2>3. Consistent(v, at, granted, firing)
    BY <2>1, <2>2, PrioritizedConsistent
  <2>4. ~TakesCount(v, t)
    <3>1. v.state = u.state /\ v.flags = u.flags /\ v.count = u.count /\ v.semaphore = u.semaphore
      BY <2>1 DEF Prioritized
    <3> QED BY <2>2, <3>1 DEF TakesCount
  <2>5. Consistent(k', at, granted, firing)
    BY <1>2, <2>1, <2>3, <2>4, MappedConsistent
  <2> QED BY <1>1, <2>5
<1>4. CASE ~is_mapped(k, t)
  <2>1. Prioritized(k, t, p, k')
    BY <1>2, <1>4, ChangeAgrees
  <2>2. Consistent(k', at, granted, firing)
    BY <1>2, <1>4, <2>1, PrioritizedConsistent
  <2> QED BY <1>1, <2>2
<1> QED BY <1>3, <1>4

LEMMA SwapConsistent ==
  ASSUME KInv, NEW c, NEW t \in Thread, NEW u \in Thread, pk_thread_priority_swap(c, t, u)
  PROVE  Consistent(k, at, granted, firing)'
<1>1. UNCHANGED <<at, granted, firing>>
  BY DEF pk_thread_priority_swap
<1>2. /\ k \in Kernel /\ MapAgrees(k) /\ at \in Calling /\ Consistent(k, at, granted, firing)
      /\ TypeOK /\ k.priority[t] \in Priorities /\ k.priority[u] \in Priorities
  BY KernelFields DEF KInv, TypeOK, Calling
<1>3. t # u
  BY <1>2, SwapAgrees
<1>4. PICK a1 \in Kernel, a2 \in Kernel, a3 \in Kernel, a4 \in Kernel, a5 \in Kernel :
        /\ UnmappedIf(k, t, a1) /\ MapAgrees(a1)
        /\ is_mapped(a1, u) <=> is_mapped(k, u)
        /\ UnmappedIf(a1, u, a2) /\ MapAgrees(a2)
        /\ Prioritized(a2, t, k.priority[u], a3) /\ MapAgrees(a3) /\ ~is_mapped(a2, t)
        /\ Prioritized(a3, u, k.priority[t], a4) /\ MapAgrees(a4) /\ ~is_mapped(a3, u)
        /\ MappedIf(a4, t, a5) /\ MapAgrees(a5) /\ ~is_mapped(a4, t)
        /\ is_mapped(k, t) => a4.map[a4.priority[t]] = None
        /\ MappedIf(a5, u, k') /\ ~is_mapped(a5, u)
        /\ is_mapped(k, u) => a5.map[a5.priority[u]] = None
  BY <1>2, SwapAgrees
<1>5. Consistent(a1, at, granted, firing) /\ (is_mapped(k, t) => ~TakesCount(a1, t))
  BY <1>2, <1>4, UnmappedConsistent DEF UnmappedIf
<1>6. Consistent(a2, at, granted, firing) /\ (is_mapped(k, u) => ~TakesCount(a2, u))
  BY <1>2, <1>4, <1>5, UnmappedConsistent DEF UnmappedIf
<1>7. Consistent(a3, at, granted, firing)
  BY <1>2, <1>4, <1>6, PrioritizedConsistent
<1>8. Consistent(a4, at, granted, firing)
  BY <1>2, <1>4, <1>7, PrioritizedConsistent
<1>9. /\ a2.flags = a1.flags /\ a2.count = a1.count /\ a2.semaphore = a1.semaphore
      /\ a2.state[t] = a1.state[t]
  <2>1. CASE is_mapped(k, u)
    <3>1. Unmapped(a1, u, a2)
      BY <1>4, <2>1 DEF UnmappedIf
    <3>2. a2.flags = a1.flags /\ a2.count = a1.count /\ a2.semaphore = a1.semaphore
      BY <3>1 DEF Unmapped
    <3>3. a2.state[t] = a1.state[t]
      BY <1>3, <1>4, <2>1, <3>1, UnmappedAgrees
    <3> QED BY <3>2, <3>3
  <2>2. CASE ~is_mapped(k, u)
    BY <1>4, <2>2 DEF UnmappedIf
  <2> QED BY <2>1, <2>2
<1>10. /\ a4.flags = a2.flags /\ a4.count = a2.count /\ a4.semaphore = a2.semaphore
       /\ a4.state = a2.state
  BY <1>4 DEF Prioritized
<1>11. is_mapped(k, t) => ~TakesCount(a4, t)
  BY <1>5, <1>9, <1>10 DEF TakesCount
<1>12. is_mapped(k, u) => ~TakesCount(a4, u)
  BY <1>6, <1>10 DEF TakesCount
<1>13. /\ Consistent(a5, at, granted, firing)
       /\ is_mapped(k, u) => ~TakesCount(a5, u)
  <2>1. CASE is_mapped(k, t)
    <3>1. Mapped(a4, t, a5) /\ ~TakesCount(a4, t)
      BY <1>4, <1>11, <2>1 DEF MappedIf
    <3>2. Consistent(a5, at, granted, firing)
      BY <1>2, <1>4, <1>8, <2>1, <3>1, MappedConsistent
    <3>3. /\ a5.flags = a4.flags /\ a5.count = a4.count /\ a5.semaphore = a4.semaphore
          /\ a5.state = [a4.state EXCEPT ![t] = "MAPPED"]
      BY <3>1 DEF Mapped
    <3>4. a5.state[u] = a4.state[u]
      BY <1>3, <3>3, KernelFields
    <3> QED BY <1>12, <3>2, <3>3, <3>4 DEF TakesCount
  <2>2. CASE ~is_mapped(k, t)
    BY <1>4, <1>8, <1>12, <2>2 DEF MappedIf
  <2> QED BY <2>1, <2>2
<1>14. Consistent(k', at, granted, firing)
  <2>1. CASE is_mapped(k, u)
    <3>1. Mapped(a5, u, k') /\ ~TakesCount(a5, u)
      BY <1>4, <1>13, <2>1 DEF MappedIf
    <3> QED BY <1>2, <1>4, <1>13, <2>1, <3>1, MappedConsistent
  <2>2. CASE ~is_mapped(k, u)
    BY <1>4, <1>13, <2>2 DEF MappedIf
  <2> QED BY <2>1, <2>2
<1> QED BY <1>1, <1>14

LEMMA KInit ==
  ASSUME Init
  PROVE  KInv
<1>1. /\ TypeOK /\ MapAgrees(k) /\ Scheduled /\ TimersActive
  BY TypeInit, MapInit
<1>2. PICK m \in [Priorities -> Thread \cup {None}] :
        /\ k.flags = [t \in Thread |-> {}] /\ k.map = m
        /\ k.run = {p \in Priorities : m[p] # None}
        /\ k.pending = [s \in Sem |-> {}] /\ k.timers = {}
  BY DEF Init
<1>3. at = [t \in Thread |-> "run"] /\ firing = None
  BY DEF Init
<1>4. RunMapped(k) /\ CountOrWait(k)
  BY <1>2 DEF RunMapped, CountOrWait
<1>5. FlagsFollow(k, at)
  BY <1>2, <1>3 DEF FlagsFollow
<1>6. PendingOwned(k, at)
  BY <1>2 DEF PendingOwned
<1>7. WaitersQueued(k, at) /\ ReadyGranted(k, at, granted)
  BY <1>3 DEF WaitersQueued, ReadyGranted
<1>8. TimedSleep(k, at, firing)
  BY <1>2, <1>3, NoneAssumption DEF TimedSleep
<1> QED BY <1>1, <1>4, <1>5, <1>6, <1>7, <1>8 DEF KInv, Consistent

LEMMA ConsistentNext ==
  ASSUME "timeout" \notin Apis, KInv, Next
  PROVE  Consistent(k, at, granted, firing)'
<1>1. ASSUME NEW t \in Thread, NEW x \in Sem, pk_semaphore_pend_now(t, x)
      PROVE  Consistent(k, at, granted, firing)'
  BY <1>1, PendNowConsistent
<1>2. ASSUME NEW t \in Thread, NEW x \in Sem, NEW b \in BOOLEAN, pk_semaphore_pend(t, x, b)
      PROVE  Consistent(k, at, granted, firing)'
  BY <1>2, PendConsistent
<1>3. ASSUME NEW t \in Thread, pk_semaphore_pend_return(t) \/ pk_sleep_return(t)
      PROVE  Consistent(k, at, granted, firing)'
  BY <1>3, ReturnConsistent
<1>4. ASSUME NEW t \in Thread, pk_sleep(t)
      PROVE  Consistent(k, at, granted, firing)'
  BY <1>4, SleepConsistent
<1>5. ASSUME NEW t \in Thread, TimerExpires(t)
      PROVE  Consistent(k, at, granted, firing)'
  BY <1>5, ExpireConsistent
<1>6. ASSUME pk_thread_timeout
      PROVE  Consistent(k, at, granted, firing)'
  BY <1>6, TimeoutConsistent
<1>7. ASSUME NEW c, NEW x \in Sem, pk_semaphore_post(c, x)
      PROVE  Consistent(k, at, granted, firing)'
  BY <1>7, PostConsistent
<1>8. ASSUME NEW c, NEW x \in Sem, pk_semaphore_release_all(c, x)
      PROVE  Consistent(k, at, granted, firing)'
  BY <1>8, ReleaseConsistent
<1>9. ASSUME NEW c, NEW t \in Thread, pk_thread_resume(c, t)
      PROVE  Consistent(k, at, granted, firing)'
  BY <1>9, ResumeConsistent
<1>10. ASSUME NEW c, NEW t \in Thread, pk_thread_suspend(c, t)
       PROVE  Consistent(k, at, granted, firing)'
  BY <1>10, SuspendConsistent
<1>11. ASSUME NEW c, NEW t \in Thread, NEW d \in {"COMPLETED", "DELETED"}, pk_thread_delete(c, t, d)
       PROVE  Consistent(k, at, granted, firing)'
  BY <1>11, DeleteConsistent
<1>12. ASSUME NEW c, NEW t \in Thread, NEW p \in Priorities, pk_thread_priority_change(c, t, p)
       PROVE  Consistent(k, at, granted, firing)'
  BY <1>12, ChangeConsistent
<1>13. ASSUME NEW c, NEW t \in Thread, NEW u \in Thread, pk_thread_priority_swap(c, t, u)
       PROVE  Consistent(k, at, granted, firing)'
  BY <1>13, SwapConsistent
<1> QED
  BY <1>1, <1>2, <1>3, <1>4, <1>5, <1>6, <1>7, <1>8, <1>9, <1>10, <1>11, <1>12, <1>13 DEF Next

LEMMA KInvNext ==
  ASSUME "timeout" \notin Apis, KInv, [Next]_vars
  PROVE  KInv'
<1>1. TypeOK' /\ Scheduled'
  BY TypeNext, ScheduledNext DEF KInv
<1>2. MapAgrees(k)' /\ Consistent(k, at, granted, firing)'
  <2>1. CASE Next
    <3>1. MapAgrees(k')
      BY <2>1, MapAgreesNext DEF KInv
    <3> QED BY <2>1, <3>1, ConsistentNext
  <2>2. CASE UNCHANGED vars
    BY <2>2 DEF vars, KInv
  <2> QED BY <2>1, <2>2
<1> QED BY <1>1, <1>2 DEF KInv

LEMMA KInvAlways ==
  ASSUME "timeout" \notin Apis
  PROVE  Spec => []KInv
<1>1. KInv /\ [Next]_vars => KInv'
  BY KInvNext
<1> QED BY KInit, <1>1, PTL DEF Spec

\* "The queue of mapped runnable tasks": a priority in the run queue is somebody's, so
\* that __pk_schedule never takes the idle thread for one that can run, whoever suspends,
\* deletes or moves whom, from threads and from interrupt handlers.
THEOREM RunQueueIsMapped ==
  ASSUME "timeout" \notin Apis
  PROVE  Spec => []RunQueueMapped
<1>1. KInv => RunQueueMapped
  BY DEF KInv, Consistent, RunMapped, RunQueueMapped
<1> QED BY <1>1, KInvAlways, PTL

\* Whoever pk_semaphore_post wakes is mapped and waits for that semaphore: no bit of a
\* pending queue outlives the wait it stands for.
THEOREM PostWakesAWaiter ==
  ASSUME "timeout" \notin Apis
  PROVE  Spec => []PendingWaits
<1>1. KInv => PendingWaits
  <2> SUFFICES ASSUME KInv, NEW s \in Sem, NEW p \in k.pending[s]
               PROVE  \E t \in Thread : k.map[p] = t /\ at[t] = "pend" /\ k.semaphore[t] = s
    BY DEF PendingWaits
  <2>1. k.map[p] # None /\ at[k.map[p]] = "pend" /\ k.semaphore[k.map[p]] = s
    BY DEF KInv, Consistent, PendingOwned
  <2>2. k.map[p] \in Thread
    BY <2>1, KernelFields DEF KInv, TypeOK
  <2> QED BY <2>1, <2>2
<1> QED BY <1>1, KInvAlways, PTL

\* "If any threads are blocked on a semaphore the semaphore count is 0": no thread waits
\* for a count that is there, after any suspension, resumption or change of priority.
THEOREM NobodyWaitsForACount ==
  ASSUME "timeout" \notin Apis
  PROVE  Spec => []NoIdleWait
<1>1. KInv => NoIdleWait
  BY DEF KInv, Consistent, CountOrWait, NoIdleWait
<1> QED BY <1>1, KInvAlways, PTL

\* A thread goes from one call to another by blocking and by returning.
LEMMA CallSteps ==
  ASSUME Next
  PROVE  \/ UNCHANGED at
         \/ \E u \in Thread : pk_semaphore_pend_return(u) \/ pk_sleep_return(u)
         \/ \E u \in Thread, x \in Sem, b \in BOOLEAN : pk_semaphore_pend(u, x, b)
         \/ \E u \in Thread : pk_sleep(u)
<1>1. ASSUME NEW u \in Thread,
             TimerExpires(u) \/ \E x \in Sem : pk_semaphore_pend_now(u, x)
      PROVE  UNCHANGED at
  BY <1>1 DEF TimerExpires, pk_semaphore_pend_now
<1>2. pk_thread_timeout => UNCHANGED at
  BY DEF pk_thread_timeout
<1>3. ASSUME NEW c, NEW x \in Sem, pk_semaphore_post(c, x) \/ pk_semaphore_release_all(c, x)
      PROVE  UNCHANGED at
  <2>1. pk_semaphore_post(c, x) => UNCHANGED at
    BY DEF pk_semaphore_post
  <2>2. pk_semaphore_release_all(c, x) => UNCHANGED at
    BY DEF pk_semaphore_release_all
  <2> QED BY <1>3, <2>1, <2>2
<1>4. ASSUME NEW c, NEW t \in Thread,
             \/ pk_thread_resume(c, t) \/ pk_thread_suspend(c, t)
             \/ \E d \in {"COMPLETED", "DELETED"} : pk_thread_delete(c, t, d)
             \/ \E p \in Priorities : pk_thread_priority_change(c, t, p)
             \/ \E v \in Thread : pk_thread_priority_swap(c, t, v)
      PROVE  UNCHANGED at
  BY <1>4 DEF pk_thread_resume, pk_thread_suspend, pk_thread_delete, pk_thread_priority_change,
              pk_thread_priority_swap
<1> QED BY <1>1, <1>2, <1>3, <1>4 DEF Next

\* pk_semaphore_pend returns to a caller exactly when a post, a release or its resumption
\* gave it the semaphore: no wakeup is made up and none is lost.
THEOREM PendTakesWhatWasGiven ==
  ASSUME "timeout" \notin Apis
  PROVE  Spec => PendReturnsTruly
<1>1. KInv /\ [Next]_vars =>
        [\A t \in Thread : at[t] = "pend" /\ at'[t] = "run" =>
              ((t \in granted) <=> ("TIMED_OUT" \notin k.flags[t]))]_vars
  <2> SUFFICES ASSUME KInv, Next, NEW t \in Thread, at[t] = "pend", at'[t] = "run"
               PROVE  (t \in granted) <=> ("TIMED_OUT" \notin k.flags[t])
    OBVIOUS
  <2>1. at \in Calling
    BY DEF KInv, TypeOK, Calling
  <2>2. k.flags[t] = {"SEMAPHORE_PEND"}
    BY DEF KInv, Consistent, FlagsFollow
  <2>3. current = t
    <3>1. ASSUME NEW u \in Thread, at' = [at EXCEPT ![u] = "run"] PROVE u = t
      BY <2>1, <3>1
    <3>2. ASSUME NEW u \in Thread, NEW c \in {"pend", "sleep"}, at' = [at EXCEPT ![u] = c]
          PROVE  FALSE
      BY <2>1, <3>2
    <3>3. CASE \E u \in Thread : pk_semaphore_pend_return(u) \/ pk_sleep_return(u)
      BY <3>1, <3>3 DEF pk_semaphore_pend_return, pk_sleep_return, RunsIn
    <3>4. CASE \E u \in Thread, x \in Sem, b \in BOOLEAN : pk_semaphore_pend(u, x, b)
      BY <3>2, <3>4 DEF pk_semaphore_pend
    <3>5. CASE \E u \in Thread : pk_sleep(u)
      BY <3>2, <3>5 DEF pk_sleep
    <3>6. UNCHANGED at => FALSE
      OBVIOUS
    <3> QED BY <3>3, <3>4, <3>5, <3>6, CallSteps
  <2>4. t \in granted
    BY <2>3, RunnerFacts DEF KInv, Consistent, ReadyGranted
  <2> QED BY <2>2, <2>4
<1> QED BY <1>1, KInvAlways, PTL DEF Spec, PendReturnsTruly

=============================================================================
