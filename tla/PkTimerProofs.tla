---------------------------- MODULE PkTimerProofs ----------------------------
(***************************************************************************)
(* What holds of the time queue for every set of timers and every bound.   *)
(***************************************************************************)
EXTENDS PkTimer, SequenceTheorems, TLAPS

-----------------------------------------------------------------------------
(* The invariants.                                                         *)

\* The labels between the critical sections of a pass over the queue.
Scanning == {"callback", "next", "enter"}

\* The scan goes on in the queue: at the cursor and, once it has been read, at the
\* timer taken from it.
CursorInQueue ==
    /\ bh \in Scanning => cursor \in Queued \cup {End}
    /\ bh = "enter" => timer_deque \in Queued \cup {End}
    /\ bh # "wild"

\* A cancelled timer in the handler's hands has left the queue for good; otherwise
\* it still is where the cursor is.  Outside of a pass nothing is being scanned.
CursorRead ==
    /\ bh \in Scanning => cursor \in Queued \cup {End}
    /\ bh = "enter" => timer_deque = cursor \/ timer_deque \in Timer \ Queued
    /\ bh = "unmark" => cursor \in {Null, End}
    /\ bh \notin Scanning \cup {"unmark", "wild"} => cursor = Null

\* The scan has left position i of the deque behind when its cursor is c.
Behind(q, c, i) == \A j \in 1 .. i : q[j] # c

\* The timers the scan has left behind expire no earlier than next_timeout; outside
\* of a scan that is all of them.
Earliest(scan) ==
    \A i \in DOMAIN queue :
        (scan => Behind(queue, cursor, i)) => next_timeout <= timeout[queue[i]]

NextIsEarliest == bh # "wild" => Earliest(bh \in Scanning)

\* The decrementer is set for next_timeout unless the bottom half that will set it is
\* queued or running.
Armed ==
    /\ bh \in {"none", "pop", "leave"} => bhQueued \/ dec <= next_timeout \/ dec <= now
    /\ bh = "arm" => arming = next_timeout

-----------------------------------------------------------------------------
(* Lemmas about the deque.                                                 *)

Deque == {q \in Seq(Timer) : IsInjective(q)}

\* A queued timer is at one position.
LEMMA PositionOf ==
  ASSUME NEW q \in Deque, NEW t \in Range(q)
  PROVE  /\ Position(q, t) \in 1 .. Len(q) /\ q[Position(q, t)] = t
         /\ \A i \in 1 .. Len(q) : q[i] = t => i = Position(q, t)
<1>1. q \in Seq(Timer) /\ DOMAIN q = 1 .. Len(q)
  BY DEF Deque
<1>2. \E i \in DOMAIN q : q[i] = t
  BY DEF Range
<1>3. Position(q, t) \in DOMAIN q /\ q[Position(q, t)] = t
  BY <1>2 DEF Position
<1> QED BY <1>1, <1>3 DEF Deque, IsInjective

\* What pk_deque_delete leaves: the other timers, in the order they were in.
LEMMA WithoutAt ==
  ASSUME NEW q \in Deque, NEW t \in Range(q)
  PROVE  /\ Without(q, t) \in Seq(Timer) /\ Len(Without(q, t)) = Len(q) - 1
         /\ \A i \in 1 .. Len(q) - 1 :
              Without(q, t)[i] = IF i < Position(q, t) THEN q[i] ELSE q[i + 1]
<1> DEFINE p == Position(q, t)
<1>1. p \in 1 .. Len(q) /\ q \in Seq(Timer) /\ Len(q) \in Nat
  BY PositionOf DEF Deque
<1> HIDE DEF p
<1> DEFINE a == SubSeq(q, 1, p - 1)
           b == SubSeq(q, p + 1, Len(q))
<1>2. /\ a \in Seq(Timer) /\ Len(a) = p - 1
      /\ \A i \in 1 .. p - 1 : a[i] = q[i]
  BY <1>1
<1>3. /\ b \in Seq(Timer) /\ Len(b) = Len(q) - p
      /\ \A i \in 1 .. Len(q) - p : b[i] = q[p + i]
  BY <1>1
<1> DEFINE c == a \o b
<1>4. Without(q, t) = c
  BY DEF Without, RemoveAt, p
<1> HIDE DEF a, b
<1>5. /\ c \in Seq(Timer) /\ Len(c) = Len(q) - 1
      /\ \A i \in 1 .. Len(q) - 1 : c[i] = IF i <= Len(a) THEN a[i] ELSE b[i - Len(a)]
  <2>1. /\ c \in Seq(Timer) /\ Len(c) = Len(a) + Len(b)
        /\ \A i \in 1 .. Len(a) + Len(b) : c[i] = IF i <= Len(a) THEN a[i] ELSE b[i - Len(a)]
    BY <1>2, <1>3, ConcatProperties
  <2>2. Len(a) + Len(b) = Len(q) - 1
    BY <1>1, <1>2, <1>3
  <2> QED BY <2>1, <2>2
<1> HIDE DEF c
<1>6. ASSUME NEW i \in 1 .. Len(q) - 1, i < p PROVE c[i] = q[i]
  BY <1>1, <1>2, <1>5, <1>6
<1>7. ASSUME NEW i \in 1 .. Len(q) - 1, ~(i < p) PROVE c[i] = q[i + 1]
  <2>1. i - Len(a) \in 1 .. Len(q) - p /\ ~(i <= Len(a)) /\ p + (i - Len(a)) = i + 1
    BY <1>1, <1>2, <1>7
  <2>2. b[i - Len(a)] = q[p + (i - Len(a))]
    BY <1>3, <2>1
  <2> QED BY <1>5, <2>1, <2>2
<1>8. \A i \in 1 .. Len(q) - 1 : c[i] = IF i < p THEN q[i] ELSE q[i + 1]
  BY <1>6, <1>7
<1> QED BY <1>4, <1>5, <1>8 DEF p

\* The same of the set of queued timers.
LEMMA WithoutRange ==
  ASSUME NEW q \in Deque, NEW t \in Range(q)
  PROVE  /\ Without(q, t) \in Deque
         /\ Range(Without(q, t)) = Range(q) \ {t}
<1> DEFINE p == Position(q, t)
           w == Without(q, t)
<1>1. /\ p \in 1 .. Len(q) /\ q[p] = t /\ q \in Seq(Timer) /\ Len(q) \in Nat
      /\ \A i, j \in 1 .. Len(q) : q[i] = q[j] => i = j
  BY PositionOf DEF Deque, IsInjective
<1>2. /\ w \in Seq(Timer) /\ Len(w) = Len(q) - 1
      /\ \A i \in 1 .. Len(q) - 1 : w[i] = IF i < p THEN q[i] ELSE q[i + 1]
  BY WithoutAt
<1> HIDE DEF p, w
<1>3. w \in Deque
  <2>1. ASSUME NEW i \in 1 .. Len(w), NEW j \in 1 .. Len(w), w[i] = w[j] PROVE i = j
    BY <1>1, <1>2, <2>1
  <2> QED BY <1>2, <2>1 DEF Deque, IsInjective
<1>4. ASSUME NEW x \in Range(w) PROVE x \in Range(q) \ {t}
  <2>1. PICK i \in 1 .. Len(w) : w[i] = x
    BY <1>2, <1>4 DEF Range
  <2>2. \E j \in 1 .. Len(q) : q[j] = x /\ j # p
    BY <1>1, <1>2, <2>1
  <2> QED BY <1>1, <2>2 DEF Range
<1>5. ASSUME NEW x \in Range(q) \ {t} PROVE x \in Range(w)
  <2>1. PICK i \in 1 .. Len(q) : q[i] = x
    BY <1>1, <1>5 DEF Range
  <2>2. i # p
    BY <1>1, <1>5, <2>1
  <2>3. \E j \in 1 .. Len(w) : w[j] = x
    <3>1. CASE i < p
      <4>1. i \in 1 .. Len(w) /\ w[i] = x
        BY <1>1, <1>2, <2>1, <3>1
      <4> QED BY <4>1
    <3>2. CASE i > p
      <4>1. i - 1 \in 1 .. Len(w) /\ w[i - 1] = x
        BY <1>1, <1>2, <2>1, <3>2
      <4> QED BY <4>1
    <3> QED BY <1>1, <2>2, <3>1, <3>2
  <2> QED BY <1>2, <2>3 DEF Range
<1> QED BY <1>3, <1>4, <1>5 DEF w

\* The timer after a queued one is another queued one, or there is none.
LEMMA AfterInQueue ==
  ASSUME NEW q \in Deque, NEW t \in Range(q)
  PROVE  After(q, t) \in (Range(q) \ {t}) \cup {End}
<1> DEFINE p == Position(q, t)
<1>1. /\ p \in 1 .. Len(q) /\ q[p] = t /\ q \in Seq(Timer) /\ Len(q) \in Nat
      /\ \A i \in 1 .. Len(q) : q[i] = t => i = p
  BY PositionOf DEF Deque
<1>2. After(q, t) = IF p = Len(q) THEN End ELSE q[p + 1]
  BY DEF After
<1> HIDE DEF p
<1>3. p # Len(q) => p + 1 \in 1 .. Len(q) /\ q[p + 1] # t
  BY <1>1
<1> QED BY <1>1, <1>2, <1>3 DEF Range

\* pk_deque_push_back of a timer that is not queued.
LEMMA PushQueues ==
  ASSUME NEW q \in Deque, NEW t \in Timer
  PROVE  /\ Push(q, t) \in Deque /\ Range(Push(q, t)) = Range(q) \cup {t}
         /\ Len(Push(q, t)) \in {Len(q), Len(q) + 1}
         /\ \A i \in 1 .. Len(q) : Push(q, t)[i] = q[i]
         /\ Len(Push(q, t)) = Len(q) + 1 => Push(q, t)[Len(q) + 1] = t
<1>1. q \in Seq(Timer) /\ Len(q) \in Nat /\ DOMAIN q = 1 .. Len(q)
  BY DEF Deque
<1>2. CASE t \in Range(q)
  <2>1. Push(q, t) = q /\ Range(q) = Range(q) \cup {t}
    BY <1>2 DEF Push
  <2> DEFINE n == Len(q)
  <2>2. n \in Nat
    BY <1>1
  <2> HIDE DEF n
  <2>3. n # n + 1
    BY <2>2
  <2>4. Len(Push(q, t)) = Len(q) /\ Len(q) # Len(q) + 1
    BY <2>1, <2>3 DEF n
  <2> QED BY <2>1, <2>4
<1>3. CASE t \notin Range(q)
  <2> DEFINE a == Append(q, t)
  <2>1. /\ a \in Seq(Timer) /\ Len(a) = Len(q) + 1 /\ DOMAIN a = 1 .. Len(q) + 1
        /\ \A i \in 1 .. Len(q) : a[i] = q[i]
        /\ a[Len(q) + 1] = t
    BY <1>1
  <2>2. Push(q, t) = a
    BY <1>3 DEF Push
  <2> HIDE DEF a
  <2>3. \A i \in 1 .. Len(q) : q[i] # t
    BY <1>1, <1>3 DEF Range
  <2>4. a \in Deque
    BY <1>1, <2>1, <2>3 DEF Deque, IsInjective
  <2>5. Range(a) = Range(q) \cup {t}
    BY <1>1, <2>1 DEF Range
  <2> QED BY <1>1, <2>1, <2>2, <2>4, <2>5
<1> QED BY <1>2, <1>3

LEMMA FirstQueued ==
  ASSUME NEW q \in Deque, q # <<>>
  PROVE  First(q) \in Range(q) /\ Position(q, First(q)) = 1 /\ Len(q) >= 1
<1>1. q \in Seq(Timer) /\ Len(q) \in Nat /\ DOMAIN q = 1 .. Len(q) /\ Len(q) >= 1
  BY DEF Deque
<1>2. First(q) = q[1] /\ 1 \in DOMAIN q
  BY <1>1 DEF First
<1>3. First(q) \in Range(q)
  BY <1>2 DEF Range
<1> QED BY <1>1, <1>2, <1>3, PositionOf

\* When a timer is deleted the scan has left behind what it had left behind before.
LEMMA BehindWithout ==
  ASSUME NEW q \in Deque, NEW t \in Range(q), NEW c, NEW d,
         c = t => d = After(q, t), c # t => d = c,
         NEW i \in 1 .. Len(Without(q, t)), Behind(Without(q, t), d, i)
  PROVE  \E k \in 1 .. Len(q) : q[k] = Without(q, t)[i] /\ Behind(q, c, k)
<1> DEFINE p == Position(q, t)
           w == Without(q, t)
<1>1. /\ p \in 1 .. Len(q) /\ q[p] = t /\ Len(q) \in Nat
      /\ \A j \in 1 .. Len(q) : q[j] = t => j = p
  BY PositionOf DEF Deque
<1>2. /\ Len(w) = Len(q) - 1
      /\ \A j \in 1 .. Len(q) - 1 : w[j] = IF j < p THEN q[j] ELSE q[j + 1]
  BY WithoutAt
<1>3. After(q, t) = IF p = Len(q) THEN End ELSE q[p + 1]
  BY DEF After
<1>4. i \in 1 .. Len(w) /\ \A j \in 1 .. i : w[j] # d
  BY DEF Behind
<1> HIDE DEF p, w
<1>5. CASE i < p
  <2>1. i \in 1 .. Len(q) /\ q[i] = w[i]
    BY <1>1, <1>2, <1>4, <1>5
  <2>2. ASSUME NEW j \in 1 .. i PROVE q[j] # c
    <3>1. w[j] = q[j] /\ j \in 1 .. Len(q) /\ j # p /\ q[j] # t
      BY <1>1, <1>2, <1>4, <1>5
    <3> QED BY <1>4, <3>1
  <2> QED BY <2>1, <2>2 DEF w, Behind
<1>6. CASE ~(i < p)
  <2>1. i + 1 \in 1 .. Len(q) /\ q[i + 1] = w[i]
    BY <1>1, <1>2, <1>4, <1>6
  <2>2. c # t
    <3>1. SUFFICES ASSUME c = t PROVE FALSE
      OBVIOUS
    <3>2. p # Len(q) /\ p \in 1 .. i /\ w[p] = q[p + 1]
      BY <1>1, <1>2, <1>4, <1>6
    <3> QED BY <1>3, <1>4, <3>1, <3>2
  <2>3. ASSUME NEW j \in 1 .. i + 1 PROVE q[j] # c
    <3>1. CASE j < p
      <4>1. w[j] = q[j] /\ j \in 1 .. i
        BY <1>1, <1>2, <1>4, <1>6, <3>1
      <4> QED BY <1>4, <2>2, <4>1
    <3>2. CASE j = p
      BY <1>1, <2>2, <3>2
    <3>3. CASE j > p
      <4>1. w[j - 1] = q[j] /\ j - 1 \in 1 .. i
        BY <1>1, <1>2, <1>4, <1>6, <3>3
      <4> QED BY <1>4, <2>2, <4>1
    <3> QED BY <1>1, <3>1, <3>2, <3>3
  <2> QED BY <2>1, <2>3 DEF w, Behind
<1> QED BY <1>5, <1>6

\* The same when the scan is not at the timer that goes.
LEMMA BehindOther ==
  ASSUME NEW q \in Deque, NEW t \in Range(q), NEW c, c # t,
         NEW i \in 1 .. Len(Without(q, t)), Behind(Without(q, t), c, i)
  PROVE  \E k \in 1 .. Len(q) : q[k] = Without(q, t)[i] /\ Behind(q, c, k)
BY BehindWithout, Zenon

\* When the scan goes on past a timer it leaves that one behind, and no other.
LEMMA BehindAfter ==
  ASSUME NEW q \in Deque, NEW t \in Range(q), NEW i \in 1 .. Len(q),
         Behind(q, After(q, t), i)
  PROVE  q[i] = t \/ Behind(q, t, i)
<1> DEFINE p == Position(q, t)
<1>1. /\ p \in 1 .. Len(q) /\ q[p] = t /\ Len(q) \in Nat
      /\ \A j \in 1 .. Len(q) : q[j] = t => j = p
  BY PositionOf DEF Deque
<1>2. After(q, t) = IF p = Len(q) THEN End ELSE q[p + 1]
  BY DEF After
<1> HIDE DEF p
<1>3. ~(i > p)
  <2>1. i > p => p # Len(q) /\ p + 1 \in 1 .. i
    BY <1>1
  <2> QED BY <1>2, <2>1 DEF Behind
<1> QED BY <1>1, <1>3 DEF Behind

-----------------------------------------------------------------------------
(* Type correctness.                                                       *)

LEMMA DequeType == TypeOK => queue \in Deque /\ Queued \subseteq Timer
BY RangeOfSeq DEF TypeOK, Deque, Queued

LEMMA DeadlineType ==
  ASSUME TypeOK, NEW t \in Time \cup {MAX}
  PROVE  Deadline(t) \in Time \cup {MAX}
BY TimeAssumption DEF TypeOK, Deadline, Time, MAX

\* What a call of the API changes stays typed.
LEMMA CallType ==
  ASSUME TypeOK, NEW apis, NEW since \in Nat, Call(apis, since)
  PROVE  /\ queue' \in Deque /\ next_timeout' \in Time \cup {MAX}
         /\ cursor' \in Timer \cup {End, Null}
         /\ timeout' \in [Timer -> Time] /\ dec' \in Time \cup {MAX}
<1>1. PICK timer \in Timer :
        \/ \E t \in since + 1 .. MaxTime : pk_timer_schedule(timer, t)
        \/ pk_timer_cancel(timer)
  BY DEF Call
<1>2. ASSUME NEW t \in since + 1 .. MaxTime, pk_timer_schedule(timer, t)
      PROVE  /\ queue' \in Deque /\ next_timeout' \in Time \cup {MAX}
             /\ cursor' \in Timer \cup {End, Null}
             /\ timeout' \in [Timer -> Time] /\ dec' \in Time \cup {MAX}
  <2>1. t \in Time
    BY TimeAssumption DEF Time
  <2>2. queue' \in Deque
    BY <1>2, DequeType, PushQueues DEF pk_timer_schedule
  <2>3. Deadline(t) \in Time \cup {MAX}
    BY <2>1, DeadlineType
  <2> QED BY <1>2, <2>1, <2>2, <2>3 DEF TypeOK, pk_timer_schedule
<1>3. ASSUME pk_timer_cancel(timer)
      PROVE  /\ queue' \in Deque /\ next_timeout' \in Time \cup {MAX}
             /\ cursor' \in Timer \cup {End, Null}
             /\ timeout' \in [Timer -> Time] /\ dec' \in Time \cup {MAX}
  <2>1. timer \in Range(queue) /\ queue \in Deque
    BY <1>3, DequeType DEF pk_timer_cancel, Queued
  <2>2. queue' \in Deque
    BY <1>3, <2>1, WithoutRange DEF pk_timer_cancel
  <2>3. After(queue, timer) \in Timer \cup {End}
    BY <2>1, AfterInQueue, DequeType DEF Queued
  <2>4. cursor' \in Timer \cup {End, Null}
    BY <1>3, <2>3 DEF pk_timer_cancel, CursorWithout, TypeOK
  <2> QED BY <1>3, <2>2, <2>4 DEF TypeOK, pk_timer_cancel
<1> QED BY <1>1, <1>2, <1>3

\* What looking at a timer changes stays typed.
LEMMA VisitType ==
  ASSUME TypeOK, NEW t \in Queued, NEW clock, NEW next \in Time \cup {MAX},
         Visit(t, clock, next)
  PROVE  /\ queue' \in Deque /\ next_timeout' \in Time \cup {MAX}
         /\ cursor' \in Timer \cup {End, Null} /\ bh' \in {"callback", "next"}
         /\ UNCHANGED <<timeout, dec, now, bhQueued, arming>>
<1>1. t \in Range(queue) /\ queue \in Deque /\ t \in Timer
  BY DequeType DEF Queued
<1>2. After(queue, t) \in Timer \cup {End} /\ Without(queue, t) \in Deque
  BY <1>1, AfterInQueue, WithoutRange, DequeType DEF Queued
<1>3. timeout[t] \in Time
  BY <1>1 DEF TypeOK
<1> QED BY <1>1, <1>2, <1>3 DEF Visit

LEMMA NewPassType ==
  ASSUME TypeOK, NewPass
  PROVE  /\ queue' \in Deque /\ next_timeout' \in Time \cup {MAX}
         /\ cursor' \in Timer \cup {End, Null} /\ bh' \in {"callback", "next", "unmark"}
         /\ timer_deque' \in Timer \cup {End, Null} /\ pass' \in Time
         /\ UNCHANGED <<timeout, dec, now, bhQueued, arming>>
<1>1. CASE now >= next_timeout /\ queue # <<>>
  <2>1. First(queue) \in Queued /\ First(queue) \in Timer /\ MAX \in Time \cup {MAX}
    BY <1>1, FirstQueued, DequeType DEF Queued
  <2>2. Visit(First(queue), now, MAX) /\ timer_deque' = First(queue) /\ pass' = now
    BY <1>1 DEF NewPass
  <2>3. now \in Time
    BY DEF TypeOK
  <2> QED BY <2>1, <2>2, <2>3, VisitType
<1>2. CASE ~(now >= next_timeout /\ queue # <<>>)
  BY <1>2, DequeType DEF NewPass, TypeOK
<1> QED BY <1>1, <1>2

LEMMA TypeInit == Init => TypeOK
<1> SUFFICES ASSUME Init PROVE TypeOK
  OBVIOUS
<1>1. queue \in Seq(Timer) /\ IsInjective(queue)
  BY DEF Init, IsInjective
<1>2. 0 \in Time
  BY TimeAssumption DEF Time
<1> QED BY <1>1, <1>2 DEF Init, TypeOK, Pc

LEMMA TypeNext ==
  ASSUME TypeOK, [Next]_vars
  PROVE  TypeOK'
<1> USE DEF tqVars
<1>0. /\ \A q \in Deque : q \in Seq(Timer) /\ IsInjective(q)
      /\ pass \in Nat /\ 0 \in Nat
  BY TimeAssumption DEF Deque, TypeOK, Time
<1>1. CASE ThreadCall
  BY <1>0, <1>1, CallType DEF TypeOK, ThreadCall
<1>2. CASE Tick
  <2>1. now' \in Time
    BY <1>2, TimeAssumption DEF TypeOK, Tick, Time
  <2> QED BY <1>2, <2>1 DEF TypeOK, Tick
<1>3. CASE DecInterrupt
  BY <1>3 DEF TypeOK, DecInterrupt, LeaveIrq, Pc
<1>4. CASE ExternalInterrupt
  <2>1. /\ queue' \in Deque /\ next_timeout' \in Time \cup {MAX}
        /\ cursor' \in Timer \cup {End, Null}
        /\ timeout' \in [Timer -> Time] /\ dec' \in Time \cup {MAX}
    <3>1. CASE Call(IsrApis, 0)
      BY <1>0, <3>1, CallType
    <3>2. CASE UNCHANGED tqVars
      BY <3>2, DequeType DEF TypeOK
    <3> QED BY <1>4, <3>1, <3>2 DEF ExternalInterrupt
  <2> QED BY <1>0, <1>4, <2>1 DEF TypeOK, ExternalInterrupt, LeaveIrq, Pc
<1>5. CASE PopBh
  BY <1>5 DEF TypeOK, PopBh, Pc
<1>6. CASE LeaveBh
  BY <1>6 DEF TypeOK, LeaveBh, Pc
<1>7. CASE TestTime \/ EndOfPass
  BY <1>0, <1>7, NewPassType DEF TypeOK, TestTime, EndOfPass, Pc
<1>8. CASE VisitTimer
  <2>1. CASE timer_deque \in Queued
    <3>1. Visit(timer_deque, pass, next_timeout) /\ UNCHANGED <<timer_deque, pass>>
      BY <1>8, <2>1 DEF VisitTimer
    <3>2. next_timeout \in Time \cup {MAX}
      BY DEF TypeOK
    <3> QED BY <1>0, <2>1, <3>1, <3>2, VisitType DEF TypeOK, Pc
  <2>2. CASE timer_deque \notin Queued
    BY <1>8, <2>2 DEF TypeOK, VisitTimer, Pc
  <2> QED BY <2>1, <2>2
<1>9. CASE Callback
  <2>1. /\ queue' \in Deque /\ next_timeout' \in Time \cup {MAX}
        /\ cursor' \in Timer \cup {End, Null}
        /\ timeout' \in [Timer -> Time] /\ dec' \in Time \cup {MAX}
    <3>1. CASE Call(CallbackApis, pass)
      BY <1>0, <3>1, CallType
    <3>2. CASE UNCHANGED tqVars
      BY <3>2, DequeType DEF TypeOK
    <3> QED BY <1>9, <3>1, <3>2 DEF Callback
  <2> QED BY <1>0, <1>9, <2>1 DEF TypeOK, Callback, Pc
<1>10. CASE NextTimer
  BY <1>10 DEF TypeOK, NextTimer, Pc
<1>11. CASE Unmark
  BY <1>11 DEF TypeOK, Unmark, Pc
<1>12. CASE ReadTimeout
  BY <1>12 DEF TypeOK, ReadTimeout, Pc
<1>13. CASE Arm
  <2>1. dec' \in Time \cup {MAX}
    BY <1>13, DeadlineType DEF TypeOK, Arm
  <2> QED BY <1>13, <2>1 DEF TypeOK, Arm, Pc
<1>14. CASE UNCHANGED vars
  BY <1>14 DEF TypeOK, vars
<1> QED
  BY <1>1, <1>2, <1>3, <1>4, <1>5, <1>6, <1>7, <1>8, <1>9, <1>10, <1>11, <1>12, <1>13, <1>14
     DEF Next, pk_timer_bh_handler

\* The time queue, the decrementer and the bottom half stay typed, whatever threads,
\* callbacks and interrupt handlers call: no timer is queued twice.
THEOREM TimerTyped == Spec => []TypeOK
<1>1. Init => TypeOK
  BY TypeInit
<1>2. TypeOK /\ [Next]_vars => TypeOK'
  BY TypeNext
<1> QED BY <1>1, <1>2, PTL DEF Spec

-----------------------------------------------------------------------------
(* The scan stays in the queue.                                            *)

\* A call of the API moves the cursor off the timer it deletes, and deletes one timer
\* at most.
LEMMA CallCursor ==
  ASSUME TypeOK, NEW apis, NEW since \in Nat, Call(apis, since)
  PROVE  /\ cursor \in Queued \cup {End} => cursor' \in Queued' \cup {End}
         /\ cursor \notin Queued => cursor' = cursor
         /\ "cancel" \notin apis => Queued \subseteq Queued'
         /\ "schedule" \notin apis => Queued' \subseteq Queued
         /\ cursor' = cursor \/ cursor \in Queued \ Queued'
<1>0. queue \in Deque
  BY DequeType
<1>1. PICK timer \in Timer :
        \/ "schedule" \in apis /\ \E t \in since + 1 .. MaxTime : pk_timer_schedule(timer, t)
        \/ "cancel" \in apis /\ pk_timer_cancel(timer)
  BY DEF Call
<1>2. ASSUME "schedule" \in apis, NEW t \in since + 1 .. MaxTime, pk_timer_schedule(timer, t)
      PROVE  cursor' = cursor /\ Queued \subseteq Queued'
  BY <1>0, <1>2, PushQueues DEF pk_timer_schedule, Queued
<1>3. ASSUME "cancel" \in apis, pk_timer_cancel(timer)
      PROVE  /\ timer \in Queued /\ Queued' = Queued \ {timer}
             /\ cursor' = IF cursor = timer THEN After(queue, timer) ELSE cursor
             /\ After(queue, timer) \in (Queued \ {timer}) \cup {End}
  BY <1>0, <1>3, WithoutRange, AfterInQueue DEF pk_timer_cancel, Queued, CursorWithout
<1> QED BY <1>1, <1>2, <1>3

\* So does a visit.
LEMMA VisitCursor ==
  ASSUME TypeOK, NEW t \in Queued, NEW clock, NEW next, Visit(t, clock, next)
  PROVE  cursor' \in Queued' \cup {End} /\ bh' \in {"callback", "next"}
<1>1. queue \in Deque /\ t \in Range(queue)
  BY DequeType DEF Queued
<1>2. /\ After(queue, t) \in (Range(queue) \ {t}) \cup {End}
      /\ Range(Without(queue, t)) = Range(queue) \ {t}
  BY <1>1, AfterInQueue, WithoutRange
<1> QED BY <1>2 DEF Visit, Queued

LEMMA NewPassCursor ==
  ASSUME TypeOK, NewPass
  PROVE  \/ cursor' \in Queued' \cup {End} /\ bh' \in {"callback", "next"}
         \/ cursor' = cursor /\ bh' = "unmark"
<1>1. CASE now >= next_timeout /\ queue # <<>>
  <2>1. First(queue) \in Queued
    BY <1>1, FirstQueued, DequeType DEF Queued
  <2>2. Visit(First(queue), now, MAX)
    BY <1>1 DEF NewPass
  <2> QED BY <2>1, <2>2, VisitCursor
<1>2. CASE ~(now >= next_timeout /\ queue # <<>>)
  BY <1>2 DEF NewPass
<1> QED BY <1>1, <1>2

LEMMA CursorInQueueNext ==
  ASSUME "cancel" \notin IsrApis, TypeOK, CursorInQueue, [Next]_vars
  PROVE  CursorInQueue'
<1> USE DEF tqVars, CursorInQueue, Scanning
<1>0. pass \in Nat /\ 0 \in Nat
  BY TimeAssumption DEF TypeOK, Time
<1>1. CASE ThreadCall
  BY <1>1 DEF ThreadCall
<1>2. CASE Tick
  BY <1>2 DEF Tick, Queued
<1>3. CASE DecInterrupt
  BY <1>3 DEF DecInterrupt, LeaveIrq, Queued
<1>4. CASE ExternalInterrupt
  <2>1. /\ cursor \in Queued \cup {End} => cursor' \in Queued' \cup {End}
        /\ Queued \subseteq Queued'
    <3>1. CASE Call(IsrApis, 0)
      BY <1>0, <3>1, CallCursor
    <3>2. CASE UNCHANGED tqVars
      BY <3>2 DEF Queued
    <3> QED BY <1>4, <3>1, <3>2 DEF ExternalInterrupt
  <2> QED BY <1>4, <2>1 DEF ExternalInterrupt, LeaveIrq
<1>5. CASE PopBh \/ LeaveBh \/ Unmark \/ ReadTimeout \/ Arm
  BY <1>5 DEF PopBh, LeaveBh, Unmark, ReadTimeout, Arm
<1>6. CASE TestTime \/ EndOfPass
  BY <1>6, NewPassCursor DEF TestTime, EndOfPass
<1>7. CASE VisitTimer
  BY <1>7, VisitCursor DEF VisitTimer
<1>8. CASE Callback
  <2>1. cursor' \in Queued' \cup {End}
    <3>1. CASE Call(CallbackApis, pass)
      BY <1>0, <1>8, <3>1, CallCursor DEF Callback
    <3>2. CASE UNCHANGED tqVars
      BY <1>8, <3>2 DEF Queued, Callback
    <3> QED BY <1>8, <3>1, <3>2 DEF Callback
  <2> QED BY <1>8, <2>1 DEF Callback
<1>9. CASE NextTimer
  BY <1>9 DEF NextTimer, Queued
<1>10. CASE UNCHANGED vars
  BY <1>10 DEF vars, Queued
<1> QED
  BY <1>1, <1>2, <1>3, <1>4, <1>5, <1>6, <1>7, <1>8, <1>9, <1>10
     DEF Next, pk_timer_bh_handler

\* As long as no interrupt handler cancels a timer, __pk_timer_bh_handler never follows
\* the links of one that has left the queue: what threads and callbacks cancel, and
\* what anyone schedules in the middle of the scan, leaves its cursor in the queue.
THEOREM ScanStays ==
  ASSUME "cancel" \notin IsrApis
  PROVE  Spec => []ScanStaysInQueue
<1>1. Init => CursorInQueue
  BY DEF Init, CursorInQueue, Scanning
<1>2. TypeOK /\ CursorInQueue /\ [Next]_vars => CursorInQueue'
  BY CursorInQueueNext
<1>3. CursorInQueue => ScanStaysInQueue
  BY DEF CursorInQueue, ScanStaysInQueue
<1> QED BY <1>1, <1>2, <1>3, TimerTyped, PTL DEF Spec

-----------------------------------------------------------------------------
(* The decrementer is set for the first timer.                             *)

\* What a call of the API leaves of the order of the queue.
LEMMA CallEarliest ==
  ASSUME TypeOK, NEW apis, NEW since \in Nat, Call(apis, since),
         NEW scan \in BOOLEAN, Earliest(scan)
  PROVE  Earliest(scan)'
<1>0. /\ queue \in Deque /\ queue \in Seq(Timer) /\ Len(queue) \in Nat
      /\ DOMAIN queue = 1 .. Len(queue)
      /\ next_timeout \in Nat /\ timeout \in [Timer -> Nat]
  BY DequeType, TimeAssumption DEF TypeOK, Time, MAX
<1>1. PICK timer \in Timer :
        \/ \E t \in since + 1 .. MaxTime : pk_timer_schedule(timer, t)
        \/ pk_timer_cancel(timer)
  BY DEF Call
<1>2. ASSUME NEW t \in since + 1 .. MaxTime, pk_timer_schedule(timer, t)
      PROVE  Earliest(scan)'
  <2>1. /\ t \in Nat /\ cursor' = cursor
        /\ next_timeout' \in Nat /\ next_timeout' <= t /\ next_timeout' <= next_timeout
        /\ timeout' = [timeout EXCEPT ![timer] = t]
    BY <1>0, <1>2, TimeAssumption DEF pk_timer_schedule, Earlier
  <2>2. /\ DOMAIN queue' = 1 .. Len(queue')
        /\ Len(queue') \in {Len(queue), Len(queue) + 1}
        /\ \A i \in 1 .. Len(queue) : queue'[i] = queue[i]
        /\ Len(queue') = Len(queue) + 1 => queue'[Len(queue) + 1] = timer
    <3>1. queue' = Push(queue, timer)
      BY <1>2 DEF pk_timer_schedule
    <3>2. DOMAIN Push(queue, timer) = 1 .. Len(Push(queue, timer))
      BY <1>0, PushQueues DEF Deque
    <3> DEFINE r == Push(queue, timer)
    <3>3. /\ Len(r) \in {Len(queue), Len(queue) + 1}
          /\ \A i \in 1 .. Len(queue) : r[i] = queue[i]
          /\ Len(r) = Len(queue) + 1 => r[Len(queue) + 1] = timer
      BY <1>0, PushQueues
    <3> HIDE DEF r
    <3>4. queue' = r /\ DOMAIN r = 1 .. Len(r)
      BY <3>1, <3>2 DEF r
    <3> QED BY <3>3, <3>4, Zenon
  <2>3. SUFFICES ASSUME NEW i \in 1 .. Len(queue'), scan => Behind(queue', cursor', i)
                 PROVE  next_timeout' <= timeout'[queue'[i]]
    BY <2>2 DEF Earliest
  <2>4. CASE i \in 1 .. Len(queue)
    <3>1. \A j \in 1 .. i : queue'[j] = queue[j]
      <4>1. \A j \in 1 .. i : j \in 1 .. Len(queue)
        BY <2>4, <1>0
      <4> QED BY <2>2, <4>1, Zenon
    <3>2. scan => Behind(queue, cursor, i)
      BY <2>1, <2>3, <3>1, Zenon DEF Behind
    <3>3. next_timeout <= timeout[queue[i]]
      BY <1>0, <2>4, <3>2, Zenon DEF Earliest
    <3>4. queue'[i] = queue[i] /\ queue[i] \in Timer
      <4>1. queue \in Seq(Timer)
        BY <1>0
      <4>2. queue[i] \in Timer
        BY <2>4, <4>1
      <4> QED BY <2>2, <2>4, <4>2, Zenon
    <3> QED BY <1>0, <2>1, <3>3, <3>4
  <2>5. CASE i \notin 1 .. Len(queue)
    <3>1. i = Len(queue) + 1 /\ Len(queue') = Len(queue) + 1
      <4>1. \A n \in Nat : \A m \in {n, n + 1} : \A k \in 1 .. m :
              k \notin 1 .. n => k = n + 1 /\ m = n + 1
        OBVIOUS
      <4> QED BY <1>0, <2>2, <2>5, <4>1, Zenon
    <3>2. queue'[i] = timer
      BY <2>2, <3>1, Zenon
    <3> QED BY <1>0, <2>1, <3>2
  <2> QED BY <2>4, <2>5
<1>3. ASSUME pk_timer_cancel(timer)
      PROVE  Earliest(scan)'
  <2>1. /\ timer \in Range(queue) /\ queue' = Without(queue, timer)
        /\ cursor = timer => cursor' = After(queue, timer)
        /\ cursor # timer => cursor' = cursor
        /\ UNCHANGED <<next_timeout, timeout>>
    BY <1>3 DEF pk_timer_cancel, Queued, CursorWithout
  <2>2. DOMAIN queue' = 1 .. Len(queue')
    BY <1>0, <2>1, WithoutAt
  <2>3. SUFFICES ASSUME NEW i \in 1 .. Len(queue'), scan => Behind(queue', cursor', i)
                 PROVE  next_timeout <= timeout[queue'[i]]
    BY <2>1, <2>2 DEF Earliest
  <2>4. \E k \in 1 .. Len(queue) :
          queue[k] = queue'[i] /\ (scan => Behind(queue, cursor, k))
    <3>1. CASE scan
      <4>1. /\ i \in 1 .. Len(Without(queue, timer))
            /\ Behind(Without(queue, timer), cursor', i)
        BY <2>1, <2>3, <3>1, Zenon
      <4>2. /\ queue \in Deque /\ timer \in Range(queue)
            /\ cursor = timer => cursor' = After(queue, timer)
            /\ cursor # timer => cursor' = cursor
        BY <1>0, <2>1
      <4>3. \E k \in 1 .. Len(queue) :
              queue[k] = Without(queue, timer)[i] /\ Behind(queue, cursor, k)
        <5>1. CASE cursor = timer
          <6>1. Behind(Without(queue, timer), After(queue, timer), i)
            BY <4>1, <4>2, <5>1
          <6>2. \E k \in 1 .. Len(queue) :
                  queue[k] = Without(queue, timer)[i] /\ Behind(queue, timer, k)
            BY <4>1, <4>2, <6>1, BehindWithout, Zenon
          <6> QED BY <5>1, <6>2, Zenon
        <5>2. CASE cursor # timer
          <6>1. Behind(Without(queue, timer), cursor, i)
            BY <4>1, <4>2, <5>2
          <6> QED BY <4>1, <4>2, <5>2, <6>1, BehindOther, Zenon
        <5> QED BY <5>1, <5>2
      <4> QED BY <2>1, <4>3, Zenon
    <3>2. CASE ~scan
      <4>1. queue'[i] \in Range(queue)
        <5>1. queue'[i] \in Range(queue')
          BY <2>2 DEF Range
        <5> QED BY <1>0, <2>1, <5>1, WithoutRange
      <4> QED BY <1>0, <3>2, <4>1 DEF Range
    <3> QED BY <3>1, <3>2
  <2> QED BY <1>0, <2>4 DEF Earliest
<1> QED BY <1>1, <1>2, <1>3

\* The next timeout a pass has found so far, after one more timer.
LEMMA VisitEarliest ==
  ASSUME TypeOK, NEW t \in Queued, NEW clock, NEW next \in Time \cup {MAX},
         Visit(t, clock, next),
         \A i \in DOMAIN queue : (Behind(queue, t, i)) => next <= timeout[queue[i]]
  PROVE  Earliest(TRUE)'
<1>0. /\ queue \in Deque /\ queue \in Seq(Timer) /\ Len(queue) \in Nat
      /\ DOMAIN queue = 1 .. Len(queue) /\ t \in Range(queue) /\ t \in Timer
      /\ next \in Nat /\ timeout \in [Timer -> Nat] /\ UNCHANGED timeout
      /\ cursor' = After(queue, t)
  BY DequeType, TimeAssumption DEF TypeOK, Time, MAX, Queued, Visit
<1>1. CASE timeout[t] <= clock
  <2>1. queue' = Without(queue, t) /\ next_timeout' = next
    BY <1>1 DEF Visit
  <2>2. DOMAIN queue' = 1 .. Len(queue')
    BY <1>0, <2>1, WithoutAt
  <2>3. SUFFICES ASSUME NEW i \in 1 .. Len(queue'), Behind(queue', cursor', i)
                 PROVE  next <= timeout[queue'[i]]
    BY <1>0, <2>1, <2>2 DEF Earliest
  <2>4. \E k \in 1 .. Len(queue) :
          queue[k] = queue'[i] /\ Behind(queue, t, k)
    <3>1. /\ i \in 1 .. Len(Without(queue, t))
          /\ Behind(Without(queue, t), After(queue, t), i)
      BY <1>0, <2>1, <2>3, Zenon
    <3>2. \E k \in 1 .. Len(queue) :
            queue[k] = Without(queue, t)[i] /\ Behind(queue, t, k)
      BY <1>0, <3>1, BehindWithout, Zenon
    <3> QED BY <2>1, <3>2, Zenon
  <2> QED BY <1>0, <2>4
<1>2. CASE ~(timeout[t] <= clock)
  <2>1. /\ UNCHANGED queue
        /\ next_timeout' = IF timeout[t] < next THEN timeout[t] ELSE next
    BY <1>2 DEF Visit
  <2>2. next_timeout' \in Nat /\ next_timeout' <= timeout[t] /\ next_timeout' <= next
    BY <1>0, <2>1
  <2>3. SUFFICES ASSUME NEW i \in 1 .. Len(queue), Behind(queue, cursor', i)
                 PROVE  next_timeout' <= timeout[queue[i]]
    BY <1>0, <2>1 DEF Earliest
  <2>4. queue[i] = t \/ Behind(queue, t, i)
    BY <1>0, <2>3, BehindAfter
  <2>5. queue[i] # t => next <= timeout[queue[i]] /\ queue[i] \in Timer
    BY <1>0, <2>4
  <2> QED BY <1>0, <2>2, <2>5
<1> QED BY <1>1, <1>2

LEMMA NewPassEarliest ==
  ASSUME TypeOK, NewPass, Earliest(FALSE)
  PROVE  \/ bh' \in {"callback", "next"} /\ Earliest(TRUE)'
         \/ bh' = "unmark" /\ Earliest(FALSE)'
<1>1. CASE now >= next_timeout /\ queue # <<>>
  <2>1. First(queue) \in Queued /\ MAX \in Time \cup {MAX}
    BY <1>1, FirstQueued, DequeType DEF Queued
  <2>2. Visit(First(queue), now, MAX)
    BY <1>1 DEF NewPass
  <2>3. \A i \in DOMAIN queue : \E j \in 1 .. i : queue[j] = First(queue)
    <3>1. DOMAIN queue = 1 .. Len(queue) /\ Len(queue) \in Nat /\ queue[1] = First(queue)
      BY <1>1 DEF TypeOK, First
    <3>2. \A i \in 1 .. Len(queue) : 1 \in 1 .. i
      BY <3>1
    <3> QED BY <3>1, <3>2
  <2> QED BY <2>1, <2>2, <2>3, VisitEarliest, VisitType DEF Behind
<1>2. CASE ~(now >= next_timeout /\ queue # <<>>)
  <2>1. /\ next_timeout' = IF now >= next_timeout THEN MAX ELSE next_timeout
        /\ bh' = "unmark" /\ UNCHANGED <<queue, timeout, cursor>>
    BY <1>2 DEF NewPass
  <2>2. now >= next_timeout => DOMAIN queue = {}
    BY <1>2
  <2> QED BY <2>1, <2>2 DEF Earliest
<1> QED BY <1>1, <1>2

LEMMA DeadlineReached ==
  ASSUME TypeOK, NEW t \in Time
  PROVE  Deadline(t) <= t \/ Deadline(t) <= now
BY TimeAssumption DEF TypeOK, Deadline, Time, MAX

\* A call of the API outside of a scan leaves the decrementer set.
LEMMA CallArms ==
  ASSUME TypeOK, NEW apis, NEW since \in Nat, Call(apis, since), cursor = Null,
         dec <= next_timeout \/ dec <= now
  PROVE  dec' <= next_timeout' \/ dec' <= now
<1>1. PICK timer \in Timer :
        \/ \E t \in since + 1 .. MaxTime : pk_timer_schedule(timer, t)
        \/ pk_timer_cancel(timer)
  BY DEF Call
<1>2. ASSUME NEW t \in since + 1 .. MaxTime, pk_timer_schedule(timer, t)
      PROVE  dec' <= next_timeout' \/ dec' <= now
  <2>1. t \in Time
    BY TimeAssumption DEF Time
  <2>2. CASE Earlier(t)
    <3>1. dec' = Deadline(t) /\ next_timeout' = t
      BY <1>2, <2>2 DEF pk_timer_schedule, Arms
    <3> QED BY <2>1, <3>1, DeadlineReached
  <2>3. CASE ~Earlier(t)
    <3>1. dec' = dec /\ next_timeout' = next_timeout
      BY <1>2, <2>3 DEF pk_timer_schedule, Arms
    <3> QED BY <3>1
  <2> QED BY <2>2, <2>3
<1>3. CASE pk_timer_cancel(timer)
  <2>1. dec' = dec /\ next_timeout' = next_timeout
    BY <1>3 DEF pk_timer_cancel
  <2> QED BY <2>1
<1> QED BY <1>1, <1>2, <1>3

\* What a cancellation leaves alone.
LEMMA CallCancels ==
  ASSUME NEW apis, NEW since, Call(apis, since), "schedule" \notin apis
  PROVE  UNCHANGED <<next_timeout, timeout, dec>>
BY DEF Call, pk_timer_cancel

LEMMA CursorReadNext ==
  ASSUME "schedule" \notin IsrApis, TypeOK, CursorRead, [Next]_vars
  PROVE  CursorRead'
<1> USE DEF tqVars, Scanning
<1>0. pass \in Nat /\ 0 \in Nat /\ Queued \subseteq Timer /\ End \notin Timer /\ Null \notin Timer
  BY TimeAssumption, EndAssumption, DequeType DEF TypeOK, Time
<1>1. CASE ThreadCall
  <2>1. cursor' = cursor
    BY <1>0, <1>1, CallCursor DEF ThreadCall, CursorRead
  <2> QED BY <1>1, <2>1 DEF ThreadCall, CursorRead
<1>2. CASE Tick
  BY <1>2 DEF Tick, Queued, CursorRead
<1>3. CASE DecInterrupt
  BY <1>3 DEF DecInterrupt, LeaveIrq, Queued, CursorRead
<1>4. CASE ExternalInterrupt
  <2>1. /\ cursor \in Queued \cup {End} => cursor' \in Queued' \cup {End}
        /\ cursor \notin Queued => cursor' = cursor
        /\ cursor' = cursor \/ cursor \in Queued \ Queued'
        /\ Queued' \subseteq Queued
    <3>1. CASE Call(IsrApis, 0)
      BY <1>0, <3>1, CallCursor
    <3>2. CASE UNCHANGED tqVars
      BY <3>2 DEF Queued
    <3> QED BY <1>4, <3>1, <3>2 DEF ExternalInterrupt
  <2>2. UNCHANGED timer_deque /\ (bh' = bh \/ (bh = "none" /\ bh' = "pop"))
    BY <1>4 DEF ExternalInterrupt, LeaveIrq
  <2> QED BY <1>0, <2>1, <2>2 DEF CursorRead
<1>5. CASE PopBh \/ LeaveBh \/ Unmark \/ ReadTimeout \/ Arm
  BY <1>5 DEF PopBh, LeaveBh, Unmark, ReadTimeout, Arm, CursorRead
<1>6. CASE TestTime
  BY <1>6, NewPassCursor DEF TestTime, CursorRead
<1>7. CASE EndOfPass
  <2>1. cursor = End
    BY <1>0, <1>7 DEF EndOfPass, CursorRead
  <2> QED BY <1>7, <2>1, NewPassCursor DEF EndOfPass, CursorRead
<1>8. CASE VisitTimer
  <2>1. CASE timer_deque \in Queued
    BY <1>8, <2>1, VisitCursor DEF VisitTimer, CursorRead
  <2>2. CASE timer_deque \notin Queued
    BY <1>8, <2>2 DEF VisitTimer, CursorRead
  <2> QED BY <2>1, <2>2
<1>9. CASE Callback
  <2>1. cursor' \in Queued' \cup {End}
    <3>1. CASE Call(CallbackApis, pass)
      BY <1>0, <1>9, <3>1, CallCursor DEF Callback, CursorRead
    <3>2. CASE UNCHANGED tqVars
      BY <1>9, <3>2 DEF Queued, Callback, CursorRead
    <3> QED BY <1>9, <3>1, <3>2 DEF Callback
  <2> QED BY <1>9, <2>1 DEF Callback, CursorRead
<1>10. CASE NextTimer
  BY <1>10 DEF NextTimer, Queued, CursorRead
<1>11. CASE UNCHANGED vars
  BY <1>11 DEF vars, Queued, CursorRead
<1> QED
  BY <1>1, <1>2, <1>3, <1>4, <1>5, <1>6, <1>7, <1>8, <1>9, <1>10, <1>11
     DEF Next, pk_timer_bh_handler

LEMMA NextIsEarliestNext ==
  ASSUME "schedule" \notin IsrApis, TypeOK, CursorRead, NextIsEarliest, [Next]_vars
  PROVE  NextIsEarliest'
<1> USE DEF tqVars, Scanning
<1>0. pass \in Nat /\ 0 \in Nat /\ End \notin Queued
  BY TimeAssumption, EndAssumption, DequeType DEF TypeOK, Time
\* A step that leaves the queue alone and stays in the scan, or out of it.
<1>a. ASSUME UNCHANGED <<queue, next_timeout, cursor, timeout>>, bh # "wild",
             bh' \in Scanning <=> bh \in Scanning
      PROVE  NextIsEarliest'
  BY <1>a DEF NextIsEarliest, Earliest, Behind
\* A call of the API.
<1>b. ASSUME NEW apis, NEW since \in Nat, Call(apis, since), bh # "wild",
             bh' \in Scanning <=> bh \in Scanning
      PROVE  NextIsEarliest'
  <2>1. CASE bh \in Scanning
    <3>1. Earliest(TRUE)
      BY <1>b, <2>1 DEF NextIsEarliest, Earliest
    <3>2. Earliest(TRUE)'
      BY <1>b, <3>1, CallEarliest
    <3> QED BY <1>b, <2>1, <3>2 DEF NextIsEarliest, Earliest
  <2>2. CASE bh \notin Scanning
    <3>1. Earliest(FALSE)
      BY <1>b, <2>2 DEF NextIsEarliest, Earliest
    <3>2. Earliest(FALSE)'
      BY <1>b, <3>1, CallEarliest
    <3> QED BY <3>2 DEF NextIsEarliest, Earliest
  <2> QED BY <2>1, <2>2
<1>c. ASSUME NewPass, Earliest(FALSE)
      PROVE  NextIsEarliest'
  <2>1. CASE Earliest(TRUE)' /\ bh' \in {"callback", "next"}
    BY <2>1 DEF NextIsEarliest, Earliest
  <2>2. CASE Earliest(FALSE)'
    BY <2>2 DEF NextIsEarliest, Earliest
  <2> QED BY <1>c, <2>1, <2>2, NewPassEarliest
<1>1. CASE ThreadCall
  BY <1>0, <1>1, <1>b DEF ThreadCall
<1>2. CASE Tick
  BY <1>2 DEF Tick, NextIsEarliest, Earliest, Behind
<1>3. CASE DecInterrupt
  BY <1>3, <1>a DEF DecInterrupt, LeaveIrq
<1>4. CASE ExternalInterrupt
  <2>1. bh # "wild" /\ (bh' \in Scanning <=> bh \in Scanning)
    BY <1>4 DEF ExternalInterrupt, LeaveIrq
  <2>2. CASE Call(IsrApis, 0)
    BY <1>0, <2>1, <2>2, <1>b
  <2>3. CASE UNCHANGED tqVars
    BY <2>1, <2>3, <1>a
  <2> QED BY <1>4, <2>2, <2>3 DEF ExternalInterrupt
<1>5. CASE PopBh \/ LeaveBh \/ ReadTimeout \/ Arm \/ NextTimer
  BY <1>5, <1>a DEF PopBh, LeaveBh, ReadTimeout, Arm, NextTimer
<1>6. CASE Unmark
  <2>1. Earliest(FALSE)
    BY <1>6 DEF Unmark, NextIsEarliest, Earliest
  <2>2. Earliest(FALSE)'
    BY <1>6, <2>1 DEF Unmark, Earliest
  <2> QED BY <2>2 DEF NextIsEarliest, Earliest
<1>7. CASE TestTime
  <2>1. Earliest(FALSE)
    BY <1>7 DEF TestTime, NextIsEarliest, Earliest
  <2> QED BY <1>7, <1>c, <2>1 DEF TestTime
<1>8. CASE EndOfPass
  <2>1. cursor = End /\ \A i \in DOMAIN queue : queue[i] # End
    BY <1>0, <1>8, EndAssumption DEF EndOfPass, CursorRead, Queued, Range
  <2>2. \A i \in DOMAIN queue : Behind(queue, cursor, i)
    <3>1. DOMAIN queue = 1 .. Len(queue) /\ Len(queue) \in Nat
      BY DEF TypeOK
    <3>2. \A i \in 1 .. Len(queue) : \A j \in 1 .. i : j \in 1 .. Len(queue)
      BY <3>1
    <3> QED BY <2>1, <3>1, <3>2 DEF Behind
  <2>3. Earliest(FALSE)
    BY <1>8, <2>2 DEF EndOfPass, NextIsEarliest, Earliest
  <2> QED BY <1>8, <1>c, <2>3 DEF EndOfPass
<1>9. CASE VisitTimer
  <2>1. CASE timer_deque \in Queued
    <3>1. timer_deque = cursor /\ Visit(timer_deque, pass, next_timeout) /\ bh = "enter"
      BY <1>9, <2>1 DEF VisitTimer, CursorRead
    <3>2. \A i \in DOMAIN queue :
            Behind(queue, timer_deque, i) => next_timeout <= timeout[queue[i]]
      BY <3>1 DEF NextIsEarliest, Earliest
    <3>3. next_timeout \in Time \cup {MAX}
      BY DEF TypeOK
    <3>4. Earliest(TRUE)' /\ bh' \in {"callback", "next"}
      BY <2>1, <3>1, <3>2, <3>3, VisitEarliest, VisitCursor
    <3> QED BY <3>4 DEF NextIsEarliest, Earliest
  <2>2. CASE timer_deque \notin Queued
    BY <1>9, <2>2 DEF VisitTimer, NextIsEarliest
  <2> QED BY <2>1, <2>2
<1>10. CASE Callback
  <2>1. bh # "wild" /\ (bh' \in Scanning <=> bh \in Scanning)
    BY <1>10 DEF Callback
  <2>2. CASE Call(CallbackApis, pass)
    BY <1>0, <2>1, <2>2, <1>b
  <2>3. CASE UNCHANGED tqVars
    BY <2>1, <2>3, <1>a
  <2> QED BY <1>10, <2>2, <2>3 DEF Callback
<1>11. CASE UNCHANGED vars
  BY <1>11 DEF vars, NextIsEarliest, Earliest, Behind
<1> QED
  BY <1>1, <1>2, <1>3, <1>4, <1>5, <1>6, <1>7, <1>8, <1>9, <1>10, <1>11
     DEF Next, pk_timer_bh_handler

LEMMA ArmedNext ==
  ASSUME "schedule" \notin IsrApis, TypeOK, CursorRead, Armed, [Next]_vars
  PROVE  Armed'
<1> USE DEF tqVars, Scanning
<1>0. pass \in Nat /\ 0 \in Nat /\ now \in Nat /\ dec \in Nat /\ next_timeout \in Nat
  BY TimeAssumption DEF TypeOK, Time, MAX
<1>1. CASE ThreadCall
  <2>1. cursor = Null /\ bh = "none" /\ Call(ThreadApis, 0) /\ UNCHANGED <<bh, bhQueued, now>>
    BY <1>1 DEF ThreadCall, CursorRead
  <2>2. dec <= next_timeout \/ dec <= now => dec' <= next_timeout' \/ dec' <= now
    BY <1>0, <2>1, CallArms
  <2> QED BY <2>1, <2>2 DEF Armed
<1>2. CASE Tick
  BY <1>0, <1>2 DEF Tick, Armed
<1>3. CASE DecInterrupt
  BY <1>3 DEF DecInterrupt, LeaveIrq, Armed
<1>4. CASE ExternalInterrupt
  <2>1. UNCHANGED <<next_timeout, dec>>
    BY <1>4, CallCancels DEF ExternalInterrupt
  <2> QED BY <1>4, <2>1 DEF ExternalInterrupt, LeaveIrq, Armed
<1>5. CASE PopBh \/ LeaveBh \/ Unmark \/ ReadTimeout
  BY <1>5 DEF PopBh, LeaveBh, Unmark, ReadTimeout, Armed
<1>6. CASE TestTime \/ EndOfPass
  <2>1. bh' \in {"callback", "next", "unmark"}
    BY <1>6, NewPassType DEF TestTime, EndOfPass
  <2> QED BY <2>1 DEF Armed
<1>7. CASE VisitTimer
  <2>1. bh' \in {"callback", "next", "wild"}
    BY <1>7, VisitCursor DEF VisitTimer
  <2> QED BY <2>1 DEF Armed
<1>8. CASE Callback \/ NextTimer
  BY <1>8 DEF Callback, NextTimer, Armed
<1>9. CASE Arm
  <2>1. /\ bh' = "pop" /\ dec' = Deadline(arming) /\ arming = next_timeout
        /\ UNCHANGED <<next_timeout, now>>
    BY <1>9 DEF Arm, Armed
  <2>2. CASE next_timeout \in Time
    BY <2>1, <2>2, DeadlineReached DEF Armed
  <2>3. CASE next_timeout = MAX
    <3>1. dec' = dec /\ dec <= MAX
      BY <2>1, <2>3, TimeAssumption DEF Deadline, TypeOK, Time, MAX
    <3> QED BY <2>1, <2>3, <3>1 DEF Armed
  <2> QED BY <2>2, <2>3 DEF TypeOK
<1>10. CASE UNCHANGED vars
  BY <1>10 DEF vars, Armed
<1> QED
  BY <1>1, <1>2, <1>3, <1>4, <1>5, <1>6, <1>7, <1>8, <1>9, <1>10
     DEF Next, pk_timer_bh_handler

\* As long as no interrupt handler schedules a timer, a thread that runs with no bottom
\* half queued has the decrementer set for the first of the queued timers: whatever
\* was scheduled, rescheduled or cancelled while __pk_timer_bh_handler looked for the
\* next timeout.
THEOREM HwStaysArmed ==
  ASSUME "schedule" \notin IsrApis
  PROVE  Spec => []HwArmed
<1> DEFINE Inv == CursorRead /\ NextIsEarliest /\ Armed
<1>1. Init => Inv
  <2> SUFFICES ASSUME Init PROVE Inv
    OBVIOUS
  <2>1. CursorRead /\ NextIsEarliest
    BY DEF Init, CursorRead, NextIsEarliest, Earliest, Scanning
  <2>2. MAX \in Nat /\ dec <= next_timeout
    BY TimeAssumption DEF Init, MAX
  <2>3. Armed
    BY <2>2 DEF Init, Armed
  <2> QED BY <2>1, <2>3
<1>2. TypeOK /\ Inv /\ [Next]_vars => Inv'
  BY CursorReadNext, NextIsEarliestNext, ArmedNext
<1>3. TypeOK /\ Inv => HwArmed
  <2> SUFFICES ASSUME TypeOK, Inv, bh = "none", ~bhQueued, NEW t \in Queued
               PROVE  dec <= timeout[t] \/ dec <= now
    BY DEF HwArmed
  <2>1. PICK i \in DOMAIN queue : queue[i] = t
    BY DEF Queued, Range
  <2>2. next_timeout <= timeout[t]
    BY <2>1 DEF NextIsEarliest, Earliest, Scanning
  <2>3. dec <= next_timeout \/ dec <= now
    BY DEF Armed
  <2>4. dec \in Nat /\ next_timeout \in Nat /\ timeout[t] \in Nat
    BY DequeType, TimeAssumption DEF TypeOK, Time, MAX
  <2> QED BY <2>2, <2>3, <2>4
<1> HIDE DEF Inv
<1> QED BY <1>1, <1>2, <1>3, TimerTyped, PTL DEF Spec

=============================================================================
