------------------------------ MODULE ClintProofs ------------------------------
(***************************************************************************)
(* Proofs about Clint for any number of harts, quantum, time scale and     *)
(* width of the comparands.                                                *)
(***************************************************************************)
EXTENDS Clint, NaturalFacts

\* No event is overdue.
InTime == irqAt # Never => irqAt >= now

\* A hart is ahead by less than a quantum, and so mtime by no more than an access.
Leads ==
  /\ \A h \in Harts : local[h] < Quantum
  /\ mtime * Scale <= now + Lead

\* What a comparand is in each stage of the three stores.
Comparands ==
  \A h \in Harts :
    /\ stage[h] = "idle" => mtimecmp[h] = goal[h] /\ old[h] = goal[h]
    /\ stage[h] = "high" => mtimecmp[h] = High(old[h]) * HalfSize + HalfSize - 1
    /\ stage[h] = "low"  => mtimecmp[h] = High(goal[h]) * HalfSize + HalfSize - 1

\* A hart that waits for an interrupt is not asleep until the end of a quantum.
Sleeps == \A h \in Harts : hart[h].waiting => resume[h] <= now

\* NoTimerForgotten and NoStaleTimer are inductive only with a bound on what the harts
\* can do to mtime and to the time of a notification.
IInv ==
  /\ TypeOK
  /\ InTime
  /\ Leads
  /\ Comparands
  /\ Sleeps
  /\ NoTimerForgotten
  /\ NoStaleTimer

\* Only run() of the CLINT drives the timer pins.
PinsKept == \A g \in Harts : TimerUp(g)' <=> TimerUp(g)

-----------------------------------------------------------------------------
LEMMA Constants ==
  /\ Scale \in Nat \ {0} /\ Quantum \in Nat \ {0} /\ Access \in Nat
  /\ HalfSize \in Nat \ {0, 1} /\ Lead \in Nat /\ MaxCmp \in Nat
  /\ TimeSize \in Nat \ {0} /\ Goals \subseteq 0 .. MaxCmp
<1>1. HalfSize * HalfSize \in Nat /\ HalfSize * HalfSize >= 2
  <2>1. 1 * HalfSize <= HalfSize * HalfSize
    BY ClintAssumption, TimesMonotonic
  <2> QED
    BY <2>1, ClintAssumption
<1>2. MaxCmp \in Nat /\ MaxCmp = HalfSize * HalfSize - 1 /\ TimeSize \in Nat \ {0}
  BY <1>1 DEF MaxCmp, TimeSize
<1> QED
  BY <1>2, ClintAssumption DEF Lead

\* The least element of a set of natural numbers.
LEMMA MinIsLeast ==
  ASSUME NEW S \in SUBSET Nat, S # {}
  PROVE  Min(S) \in S /\ \A n \in S : Min(S) <= n
BY LeastNat DEF Min

\* Retire keeps the pins and the sleep of every hart, and leaves no hart ahead by a
\* whole quantum.
LEMMA RetireEffect ==
  ASSUME NEW h \in Harts, NEW harts \in [Harts -> HartStates], NEW access \in {0, Access},
         TypeOK, resume[h] <= now, Leads, Retire(h, harts, access)
  PROVE  /\ hart' \in [Harts -> HartStates]
         /\ \A g \in Harts : /\ hart'[g].mip = harts[g].mip
                             /\ hart'[g].waiting = harts[g].waiting
         /\ local' \in [Harts -> Nat] /\ resume' \in [Harts -> Nat]
         /\ \A g \in Harts \ {h} : resume'[g] = resume[g]
         /\ \A g \in Harts : local'[g] < Quantum
<1> DEFINE time == now + local[h] + access + 1
           sync == time >= SyncPoint(h)
<1>1. harts[h] \in HartStates /\ EnterTrap(harts[h]) \in HartStates
      /\ EnterTrap(harts[h]).mip = harts[h].mip
      /\ EnterTrap(harts[h]).waiting = harts[h].waiting
  BY DEF HartStates, EnterTrap
<1>2. /\ hart' \in [Harts -> HartStates]
      /\ \A g \in Harts : /\ hart'[g].mip = harts[g].mip
                          /\ hart'[g].waiting = harts[g].waiting
  BY <1>1 DEF Retire
<1>3. now \in Nat /\ local[h] \in Nat /\ resume[h] \in Nat /\ access \in Nat
  BY Constants DEF TypeOK
<1>4. SyncPoint(h) \in Nat /\ SyncPoint(h) <= now + Quantum
  <2>1. /\ resume[h] \div Quantum \in Nat
        /\ (resume[h] \div Quantum) * Quantum <= resume[h]
    BY <1>3, Constants, Division
  <2> DEFINE d == resume[h] \div Quantum
  <2> HIDE DEF d
  <2>2. SyncPoint(h) = d * Quantum + Quantum /\ d * Quantum \in Nat
    BY <2>1, Constants, Z3 DEF SyncPoint, d
  <2> QED
    BY <1>3, <2>1, <2>2, Constants DEF d
<1>5. /\ local' = [local EXCEPT ![h] = IF sync THEN 0 ELSE time - now]
      /\ resume' = [resume EXCEPT ![h] = IF sync THEN time ELSE @]
  BY DEF Retire
<1>6. time \in Nat /\ time - now \in Nat
  BY <1>3
<1>7. ~sync => time - now < Quantum
  BY <1>3, <1>4, <1>6, Constants
<1> HIDE DEF time, sync
<1>8. local' \in [Harts -> Nat] /\ resume' \in [Harts -> Nat]
      /\ \A g \in Harts \ {h} : resume'[g] = resume[g]
  BY <1>5, <1>6 DEF TypeOK
<1>9. \A g \in Harts : local'[g] < Quantum
  BY <1>5, <1>7, Constants DEF TypeOK, Leads
<1> QED
  BY <1>2, <1>8, <1>9

-----------------------------------------------------------------------------
(***************************************************************************)
(* The invariant holds initially and every action preserves it.            *)
(***************************************************************************)
LEMMA InitHolds == Init => IInv
<1> SUFFICES ASSUME Init PROVE IInv
  OBVIOUS
<1>1. ResetHart({"timer", "software"}) \in HartStates
      /\ ResetHart({"timer", "software"}).mip = {}
  BY DEF ResetHart, HartStates, Causes
<1>2. TypeOK
  BY <1>1, Constants DEF Init, TypeOK
<1>3. InTime /\ Leads
  BY Constants DEF Init, InTime, Leads, Never
<1>4. Comparands
  BY DEF Init, Comparands
<1>5. NoTimerForgotten /\ NoStaleTimer
  BY <1>1 DEF Init, NoTimerForgotten, NoStaleTimer, TimerUp
<1>6. Sleeps
  BY DEF Init, Sleeps
<1> QED
  BY <1>2, <1>3, <1>4, <1>5, <1>6 DEF IInv

\* What update_and_get_mtime returns.
LEMMA UpdatedMtimeIs ==
  ASSUME TypeOK, Leads
  PROVE  /\ UpdatedMtime \in Nat
         /\ UpdatedMtime * Scale <= now + Lead
         /\ now < (UpdatedMtime + 1) * Scale
<1>1. now \in Nat /\ mtime \in Nat
  BY DEF TypeOK
<1>2. /\ now \div Scale \in Nat /\ (now \div Scale) * Scale <= now
      /\ now < (now \div Scale + 1) * Scale
  BY <1>1, Constants, Division
<1>3. (now \div Scale) * Scale <= now + Lead
  <2> DEFINE d == (now \div Scale) * Scale
  <2>1. d \in Nat
    BY <1>2, Constants, Z3
  <2> QED
    BY <1>1, <1>2, <2>1, Constants
<1>4. CASE now \div Scale > mtime
  BY <1>2, <1>3, <1>4 DEF UpdatedMtime
<1>5. CASE ~(now \div Scale > mtime)
  <2> DEFINE d == now \div Scale
  <2>1. d \in Nat /\ d + 1 <= mtime + 1 /\ now < (d + 1) * Scale
    BY <1>1, <1>2, <1>5
  <2> HIDE DEF d
  <2>2. (d + 1) * Scale <= (mtime + 1) * Scale
    BY <1>1, <2>1, Constants, TimesMonotonic
  <2>3. (d + 1) * Scale \in Nat /\ (mtime + 1) * Scale \in Nat
    BY <1>1, <2>1, Constants, Z3
  <2>4. now < (mtime + 1) * Scale
    BY <1>1, <2>1, <2>2, <2>3
  <2> QED
    BY <1>1, <1>5, <2>4 DEF UpdatedMtime, Leads
<1> QED
  BY <1>4, <1>5

\* A delay that wraps around is only shorter.
LEMMA DelayIsShort ==
  ASSUME NEW h \in Harts, NEW time \in Nat,
         mtimecmp[h] \in Nat, (mtimecmp[h] - time) * Scale \in Nat
  PROVE  Delay(h, time) \in Nat /\ Delay(h, time) <= (mtimecmp[h] - time) * Scale
<1> DEFINE wait == (mtimecmp[h] - time) * Scale
           q == wait \div TimeSize
           r == wait % TimeSize
<1>1. wait \in Nat
  OBVIOUS
<1> HIDE DEF wait
<1>2. q \in Nat /\ q * TimeSize <= wait /\ r \in 0 .. TimeSize - 1
      /\ wait = q * TimeSize + r
  BY <1>1, Constants, Division
<1>3. q * TimeSize \in Nat
  <2>1. \A a \in Nat, b \in Nat : a * b \in Nat
    BY Z3
  <2> QED
    BY <1>2, <2>1, Constants
<1> DEFINE whole == q * TimeSize
<1> HIDE DEF q, r
<1>4. r \in Nat /\ r <= wait
  <2> HIDE DEF whole
  <2>1. whole \in Nat /\ wait = whole + r /\ r \in 0 .. TimeSize - 1
    BY <1>2, <1>3 DEF whole
  <2> QED
    BY <1>1, <2>1, Constants
<1> QED
  BY <1>4 DEF Delay, r, wait

LEMMA RunStep ==
  ASSUME IInv, Run
  PROVE  IInv'
<1>1. /\ irqAt = now /\ mtime' = UpdatedMtime
      /\ hart' = [h \in Harts |-> TriggerPin(hart[h], "timer", Due(h, mtime'))]
      /\ irqAt' = NextLook(mtime')
      /\ UNCHANGED <<now, mtimecmp, local, resume, program>>
  BY DEF Run
<1>2. /\ mtime' \in Nat /\ mtime' * Scale <= now + Lead /\ now < (mtime' + 1) * Scale
      /\ now \in Nat
  BY <1>1, UpdatedMtimeIs DEF IInv, TypeOK
<1>3. \A h \in Harts : mtimecmp[h] \in Nat /\ mtimecmp[h] <= MaxCmp
  BY Constants DEF IInv, TypeOK
<1>4. \A h \in Harts : /\ hart'[h] \in HartStates
                       /\ TimerUp(h)' <=> Due(h, mtime')
                       /\ hart'[h].waiting = hart[h].waiting
  <2> SUFFICES ASSUME NEW h \in Harts
               PROVE  /\ hart'[h] \in HartStates /\ (TimerUp(h)' <=> Due(h, mtime'))
                      /\ hart'[h].waiting = hart[h].waiting
    OBVIOUS
  <2>1. hart[h] \in HartStates
    BY DEF IInv, TypeOK
  <2>2. hart'[h] = TriggerPin(hart[h], "timer", Due(h, mtime'))
    BY <1>1
  <2>3. CASE Due(h, mtime')
    BY <2>1, <2>2, <2>3 DEF TriggerPin, HartStates, Causes, TimerUp
  <2>4. CASE ~Due(h, mtime')
    BY <2>1, <2>2, <2>4 DEF TriggerPin, HartStates, Causes, TimerUp
  <2> QED
    BY <2>3, <2>4
<1> DEFINE wait(h) == (mtimecmp[h] - mtime') * Scale
           delays == {Delay(h, mtime') : h \in Awaited(mtime')}
<1>5. \A h \in Awaited(mtime') : h \in Harts /\ mtime' < mtimecmp[h]
                                 /\ mtimecmp[h] \in 1 .. MaxCmp - 1 /\ wait(h) \in Nat
  <2> SUFFICES ASSUME NEW h \in Awaited(mtime')
               PROVE  h \in Harts /\ mtime' < mtimecmp[h]
                      /\ mtimecmp[h] \in 1 .. MaxCmp - 1 /\ wait(h) \in Nat
    OBVIOUS
  <2>1. h \in Harts /\ mtime' < mtimecmp[h] /\ mtimecmp[h] \in 1 .. MaxCmp - 1
    BY <1>2, <1>3, Constants DEF Awaited, Due
  <2>2. mtimecmp[h] - mtime' \in Nat
    BY <1>2, <1>3, <2>1
  <2>3. wait(h) \in Nat
    BY <2>2, Constants, Z3
  <2> QED
    BY <2>1, <2>3
<1>6. \A h \in Awaited(mtime') : Delay(h, mtime') \in Nat /\ Delay(h, mtime') <= wait(h)
  BY <1>2, <1>3, <1>5, DelayIsShort
<1>7. /\ irqAt' \in Nat \cup {Never}
      /\ irqAt' # Never => irqAt' >= now
      /\ \A h \in Awaited(mtime') : irqAt' # Never /\ irqAt' <= now + wait(h)
  <2>1. CASE Awaited(mtime') = {}
    BY <1>1, <2>1 DEF NextLook
  <2>2. CASE Awaited(mtime') # {}
    <3>1. irqAt' = now + Min(delays)
      BY <1>1, <2>2 DEF NextLook
    <3>2. delays # {} /\ delays \in SUBSET Nat
      BY <1>6, <2>2
    <3>3. Min(delays) \in Nat /\ \A n \in delays : Min(delays) <= n
      BY <3>2, MinIsLeast
    <3>4. \A h \in Awaited(mtime') : Delay(h, mtime') \in delays
      OBVIOUS
    <3> HIDE DEF delays, wait
    <3>5. \A h \in Awaited(mtime') : now + Min(delays) <= now + wait(h)
      <4> SUFFICES ASSUME NEW h \in Awaited(mtime')
                   PROVE  now + Min(delays) <= now + wait(h)
        OBVIOUS
      <4> DEFINE delay == Delay(h, mtime')
      <4>1. /\ delay \in Nat /\ delay <= wait(h) /\ wait(h) \in Nat
            /\ Min(delays) <= delay
        BY <1>5, <1>6, <3>3, <3>4
      <4> HIDE DEF delay
      <4> QED
        BY <1>2, <3>3, <4>1
    <3> QED
      BY <1>2, <3>1, <3>3, <3>5 DEF Never
  <2> QED
    BY <2>1, <2>2
<1>8. \A h \in Harts : mtimecmp[h] \in 1 .. MaxCmp - 1 /\ ~TimerUp(h)'
        => h \in Awaited(mtime')
  BY <1>4 DEF Awaited
<1>9. TypeOK'
  BY <1>1, <1>2, <1>4, <1>7 DEF IInv, TypeOK, program
<1>10. InTime' /\ Leads' /\ Comparands' /\ Sleeps'
  BY <1>1, <1>2, <1>4, <1>7 DEF IInv, InTime, Leads, Comparands, Sleeps, program
<1>11. NoTimerForgotten'
  <2> SUFFICES ASSUME NEW h \in Harts, mtimecmp[h] \in 1 .. MaxCmp - 1, ~TimerUp(h)'
               PROVE  irqAt' # Never /\ irqAt' < (mtimecmp[h] + 1) * Scale
    BY <1>1 DEF NoTimerForgotten
  <2>1. irqAt' # Never /\ irqAt' <= now + wait(h) /\ irqAt' \in Nat
    BY <1>7, <1>8
  <2>2. wait(h) + (mtime' + 1) * Scale = (mtimecmp[h] + 1) * Scale
    <3>1. \A c \in Nat, m \in Nat, s \in Nat : (c - m) * s + (m + 1) * s = (c + 1) * s
      BY Z3
    <3> QED
      BY <1>2, <1>3, <3>1, Constants
  <2>3. wait(h) \in Nat /\ (mtime' + 1) * Scale \in Nat
    <3>1. (mtime' + 1) * Scale \in Nat
      <4>1. \A m \in Nat, s \in Nat : (m + 1) * s \in Nat
        BY Z3
      <4> QED
        BY <1>2, <4>1, Constants
    <3> QED
      BY <1>5, <1>8, <3>1
  <2> HIDE DEF wait
  <2> QED
    BY <1>2, <2>1, <2>2, <2>3
<1>12. NoStaleTimer'
  <2> SUFFICES ASSUME NEW h \in Harts, TimerUp(h)'
               PROVE  mtimecmp[h] # 0 /\ ~(mtimecmp[h] * Scale > now + Lead)
    BY <1>1 DEF NoStaleTimer
  <2>1. mtimecmp[h] > 0 /\ mtimecmp[h] <= mtime'
    BY <1>2, <1>3, <1>4 DEF Due
  <2>2. mtimecmp[h] * Scale <= mtime' * Scale
    BY <1>2, <1>3, <2>1, Constants, TimesMonotonic
  <2>3. mtimecmp[h] * Scale \in Nat /\ mtime' * Scale \in Nat
    <3>1. \A m \in Nat, s \in Nat : m * s \in Nat
      BY Z3
    <3> QED
      BY <1>2, <1>3, <3>1, Constants
  <2> DEFINE c == mtimecmp[h] * Scale
             d == mtime' * Scale
  <2>4. c \in Nat /\ d \in Nat /\ c <= d /\ d <= now + Lead
    BY <1>2, <2>2, <2>3
  <2> HIDE DEF c, d
  <2>5. ~(c > now + Lead)
    BY <1>2, <2>4, Constants
  <2> QED
    BY <1>3, <2>1, <2>5 DEF c
<1> QED
  BY <1>9, <1>10, <1>11, <1>12 DEF IInv

\* The end of an instruction that does not touch the comparands.
LEMMA RetireKeeps ==
  ASSUME IInv, NEW h \in Harts, NEW harts \in [Harts -> HartStates],
         NEW access \in {0, Access}, resume[h] <= now,
         Retire(h, harts, access), \A g \in Harts : "timer" \in harts[g].mip <=> TimerUp(g),
         \A g \in Harts : harts[g].waiting => g # h /\ hart[g].waiting,
         mtime' \in Nat, mtime' * Scale <= now + Lead,
         UNCHANGED <<now, mtimecmp, irqAt, program>>
  PROVE  IInv' /\ PinsKept
<1>1. /\ hart' \in [Harts -> HartStates]
      /\ \A g \in Harts : TimerUp(g)' <=> TimerUp(g)
      /\ local' \in [Harts -> Nat] /\ resume' \in [Harts -> Nat]
      /\ \A g \in Harts : local'[g] < Quantum
      /\ \A g \in Harts \ {h} : resume'[g] = resume[g]
      /\ \A g \in Harts : hart'[g].waiting = harts[g].waiting
  BY RetireEffect DEF IInv, TimerUp
<1>2. TypeOK'
  BY <1>1 DEF IInv, TypeOK, program
<1>3. InTime' /\ Leads' /\ Comparands' /\ Sleeps'
  BY <1>1 DEF IInv, InTime, Leads, Comparands, Sleeps, program
<1>4. NoTimerForgotten' /\ NoStaleTimer'
  BY <1>1 DEF IInv, NoTimerForgotten, NoStaleTimer
<1> QED
  BY <1>1, <1>2, <1>3, <1>4 DEF IInv, PinsKept

\* A store to a comparand: whatever its value, run() will look at it within the lead.
LEMMA StoreKeeps ==
  ASSUME IInv, NEW h \in Harts, NEW value \in 0 .. MaxCmp, Runs(h),
         Store(h, value), stage' \in [Harts -> {"idle", "high", "low"}],
         goal' \in [Harts -> Goals \cup {0}], old' \in [Harts -> Goals \cup {0}],
         Comparands'
  PROVE  IInv' /\ PinsKept
<1>1. /\ mtimecmp' = [mtimecmp EXCEPT ![h] = value]
      /\ irqAt' = EarliestNotification(irqAt, now + local[h] + Access)
      /\ Retire(h, hart, Access)
      /\ UNCHANGED <<now, mtime>>
      /\ resume[h] <= now /\ ~hart[h].waiting
  BY DEF Store, Runs
<1>2. /\ hart' \in [Harts -> HartStates]
      /\ \A g \in Harts : TimerUp(g)' <=> TimerUp(g)
      /\ local' \in [Harts -> Nat] /\ resume' \in [Harts -> Nat]
      /\ \A g \in Harts : local'[g] < Quantum
      /\ \A g \in Harts \ {h} : resume'[g] = resume[g]
      /\ \A g \in Harts : hart'[g].waiting = hart[g].waiting
  <2>1. hart \in [Harts -> HartStates]
    BY DEF IInv, TypeOK
  <2> QED
    BY <1>1, <2>1, RetireEffect DEF IInv, TimerUp
<1>3. /\ irqAt' \in Nat /\ irqAt' >= now /\ irqAt' <= now + Lead
      /\ irqAt # Never => irqAt' <= irqAt
  <2>1. now \in Nat /\ local[h] \in Nat /\ local[h] < Quantum /\ irqAt \in Nat \cup {Never}
        /\ (irqAt # Never => irqAt >= now)
    BY DEF IInv, TypeOK, Leads, InTime
  <2> QED
    BY <1>1, <2>1, Constants DEF EarliestNotification, Lead, Never
<1>4. irqAt' # Never
  BY <1>3 DEF Never
<1>5. TypeOK'
  BY <1>1, <1>2, <1>3 DEF IInv, TypeOK
<1>6. InTime' /\ Leads' /\ Sleeps'
  BY <1>1, <1>2, <1>3 DEF IInv, InTime, Leads, Sleeps
<1>7. NoTimerForgotten' /\ NoStaleTimer'
  BY <1>1, <1>3, <1>4 DEF NoTimerForgotten, NoStaleTimer
<1> QED
  BY <1>2, <1>5, <1>6, <1>7 DEF IInv, PinsKept

\* The halves of a comparand.
LEMMA Halves ==
  ASSUME NEW v \in 0 .. MaxCmp
  PROVE  /\ High(v) \in 0 .. HalfSize - 1
         /\ High(v) * HalfSize + HalfSize - 1 \in 0 .. MaxCmp
         /\ v <= High(v) * HalfSize + HalfSize - 1
         /\ High(High(v) * HalfSize + HalfSize - 1) = High(v)
         /\ (High(v) * HalfSize + HalfSize - 1) % HalfSize = HalfSize - 1
<1> DEFINE q == v \div HalfSize
<1>1. /\ q \in Nat /\ q * HalfSize <= v /\ v < (q + 1) * HalfSize
      /\ v \in Nat /\ HalfSize \in Nat \ {0, 1}
  BY Constants, Division
<1>2. v < HalfSize * HalfSize
  <2>1. HalfSize * HalfSize \in Nat
    BY <1>1, Z3
  <2> QED
    BY <2>1, <1>1 DEF MaxCmp
<1> HIDE DEF q
<1>3. q < HalfSize
  <2>1. ASSUME q >= HalfSize PROVE FALSE
    <3>1. HalfSize * HalfSize <= q * HalfSize
      BY <1>1, <2>1, TimesMonotonic
    <3>2. HalfSize * HalfSize \in Nat /\ q * HalfSize \in Nat
      BY <1>1, Z3
    <3> QED
      BY <1>1, <1>2, <3>1, <3>2
  <2> QED
    BY <2>1, <1>1
<1>4. q * HalfSize + HalfSize = (q + 1) * HalfSize
      /\ q * HalfSize \in Nat /\ (q + 1) * HalfSize \in Nat
  BY <1>1, Z3
<1>5. (q + 1) * HalfSize <= HalfSize * HalfSize
  BY <1>1, <1>3, TimesMonotonic
<1>6. HalfSize * HalfSize \in Nat
  BY <1>1, Z3
<1>7. /\ q * HalfSize + HalfSize - 1 \in 0 .. MaxCmp
      /\ v <= q * HalfSize + HalfSize - 1
  <2> DEFINE a == q * HalfSize
             b == (q + 1) * HalfSize
             c == HalfSize * HalfSize
  <2>1. a \in Nat /\ b \in Nat /\ c \in Nat /\ a + HalfSize = b /\ b <= c /\ v < b
        /\ MaxCmp = c - 1
    BY <1>1, <1>4, <1>5, <1>6 DEF MaxCmp
  <2> HIDE DEF a, b, c
  <2>2. a + HalfSize - 1 \in 0 .. MaxCmp /\ v <= a + HalfSize - 1
    BY <2>1, <1>1
  <2> QED
    BY <2>2 DEF a
<1>8. /\ (q * HalfSize + (HalfSize - 1)) \div HalfSize = q
      /\ (q * HalfSize + (HalfSize - 1)) % HalfSize = HalfSize - 1
  BY <1>1, DivisionUnique
<1>9. q * HalfSize + (HalfSize - 1) = q * HalfSize + HalfSize - 1
  BY <1>1, <1>4
<1>10. High(v) = q
  BY DEF High, q
<1> QED
  BY <1>1, <1>3, <1>7, <1>8, <1>9, <1>10 DEF High

LEMMA ComputeStep ==
  ASSUME IInv, NEW h \in Harts, Compute(h)
  PROVE  IInv' /\ PinsKept
<1>1. /\ hart \in [Harts -> HartStates] /\ resume[h] <= now /\ ~hart[h].waiting
      /\ \A g \in Harts : "timer" \in hart[g].mip <=> TimerUp(g)
      /\ mtime \in Nat /\ mtime * Scale <= now + Lead
  BY DEF Compute, Runs, IInv, TypeOK, Leads, TimerUp
<1> QED
  BY <1>1, RetireKeeps DEF Compute

LEMMA ReadTimeStep ==
  ASSUME IInv, NEW h \in Harts, ReadTime(h)
  PROVE  IInv' /\ PinsKept
<1>1. /\ hart \in [Harts -> HartStates] /\ resume[h] <= now /\ ~hart[h].waiting
      /\ \A g \in Harts : "timer" \in hart[g].mip <=> TimerUp(g)
  BY DEF ReadTime, Runs, IInv, TypeOK, TimerUp
<1>2. UpdatedMtime \in Nat /\ UpdatedMtime * Scale <= now + Lead
  BY UpdatedMtimeIs DEF IInv
<1> QED
  BY <1>1, <1>2, RetireKeeps DEF ReadTime

LEMMA ReadMtimeStep ==
  ASSUME IInv, NEW h \in Harts, ReadMtime(h)
  PROVE  IInv' /\ PinsKept
<1>1. /\ hart \in [Harts -> HartStates] /\ resume[h] <= now /\ ~hart[h].waiting
      /\ \A g \in Harts : "timer" \in hart[g].mip <=> TimerUp(g)
  BY DEF ReadMtime, Runs, IInv, TypeOK, TimerUp
<1> DEFINE time == now + local[h] + Access
<1>2. now \in Nat /\ local[h] \in Nat /\ time \in Nat /\ time <= now + Lead
  BY Constants DEF IInv, TypeOK, Leads, Lead
<1> HIDE DEF time
<1>3. time \div Scale \in Nat /\ (time \div Scale) * Scale <= time
  BY <1>2, Constants, Division
<1> DEFINE d == (time \div Scale) * Scale
<1>4. d \in Nat
  BY <1>3, Constants, Z3
<1> HIDE DEF d
<1>5. d <= now + Lead
  BY <1>2, <1>3, <1>4, Constants DEF d
<1>6. mtime' = time \div Scale
  BY DEF ReadMtime, time
<1> QED
  BY <1>1, <1>3, <1>5, <1>6, RetireKeeps DEF ReadMtime, d

LEMMA WriteMsipStep ==
  ASSUME IInv, NEW h \in Harts, NEW g \in Harts, WriteMsip(h, g)
  PROVE  IInv' /\ PinsKept
<1> DEFINE pin == TriggerPin(hart[g], "software", g # h)
           harts == [hart EXCEPT ![g] = pin]
<1>1. /\ hart \in [Harts -> HartStates] /\ resume[h] <= now /\ ~hart[h].waiting
      /\ mtime \in Nat /\ mtime * Scale <= now + Lead
  BY DEF WriteMsip, Runs, IInv, TypeOK, Leads
<1>2. pin \in HartStates /\ ("timer" \in pin.mip <=> TimerUp(g))
      /\ pin.waiting = hart[g].waiting
  <2>1. hart[g] \in HartStates
    BY <1>1
  <2>2. CASE g # h
    BY <2>1, <2>2 DEF TriggerPin, HartStates, Causes, TimerUp
  <2>3. CASE g = h
    BY <2>1, <2>3 DEF TriggerPin, HartStates, Causes, TimerUp
  <2> QED
    BY <2>2, <2>3
<1>3. Retire(h, harts, Access) /\ UNCHANGED <<now, mtime, mtimecmp, irqAt, program>>
  BY DEF WriteMsip
<1> HIDE DEF pin
<1>4. /\ harts \in [Harts -> HartStates]
      /\ \A f \in Harts : /\ "timer" \in harts[f].mip <=> TimerUp(f)
                          /\ harts[f].waiting => f # h /\ hart[f].waiting
  BY <1>1, <1>2 DEF TimerUp
<1> HIDE DEF harts
<1> QED
  BY <1>1, <1>3, <1>4, RetireKeeps

LEMMA WakeStep ==
  ASSUME IInv, NEW h \in Harts, Wake(h)
  PROVE  IInv' /\ PinsKept
<1> DEFINE harts == [hart EXCEPT ![h] = Woken(hart[h])]
<1>1. /\ hart \in [Harts -> HartStates] /\ hart[h] \in HartStates
      /\ mtime \in Nat /\ mtime * Scale <= now + Lead
      /\ resume[h] <= now
  BY DEF IInv, TypeOK, Leads, Sleeps, Wake
<1>2. Woken(hart[h]) \in HartStates /\ Woken(hart[h]).mip = hart[h].mip
      /\ ~Woken(hart[h]).waiting
  BY <1>1 DEF Woken, HartStates
<1>3. /\ harts \in [Harts -> HartStates]
      /\ \A g \in Harts : /\ "timer" \in harts[g].mip <=> TimerUp(g)
                          /\ harts[g].waiting => g # h /\ hart[g].waiting
  BY <1>1, <1>2 DEF TimerUp
<1>4. Retire(h, harts, 0) /\ UNCHANGED <<now, mtime, mtimecmp, irqAt, program>>
  BY DEF Wake
<1> HIDE DEF harts
<1> QED
  BY <1>1, <1>3, <1>4, RetireKeeps

LEMMA MretStepHolds ==
  ASSUME IInv, NEW h \in Harts, MretStep(h)
  PROVE  IInv' /\ PinsKept
<1> DEFINE harts == [hart EXCEPT ![h] = Mret(hart[h])]
<1>1. /\ hart \in [Harts -> HartStates] /\ hart[h] \in HartStates
      /\ mtime \in Nat /\ mtime * Scale <= now + Lead
      /\ resume[h] <= now /\ ~hart[h].waiting
  BY DEF IInv, TypeOK, Leads, MretStep, Runs
<1>2. Mret(hart[h]) \in HartStates /\ Mret(hart[h]).mip = hart[h].mip
      /\ ~Mret(hart[h]).waiting
  BY <1>1 DEF Mret, HartStates
<1>3. /\ harts \in [Harts -> HartStates]
      /\ \A g \in Harts : /\ "timer" \in harts[g].mip <=> TimerUp(g)
                          /\ harts[g].waiting => g # h /\ hart[g].waiting
  BY <1>1, <1>2 DEF TimerUp
<1>4. Retire(h, harts, 0) /\ UNCHANGED <<now, mtime, mtimecmp, irqAt, program>>
  BY DEF MretStep
<1> HIDE DEF harts
<1> QED
  BY <1>1, <1>3, <1>4, RetireKeeps

LEMMA WfiStep ==
  ASSUME IInv, NEW h \in Harts, Wfi(h)
  PROVE  IInv' /\ PinsKept
<1>1. /\ hart \in [Harts -> HartStates] /\ hart[h] \in HartStates
      /\ mtime \in Nat /\ mtime * Scale <= now + Lead
      /\ resume[h] <= now /\ ~hart[h].waiting
      /\ \A g \in Harts : "timer" \in hart[g].mip <=> TimerUp(g)
      /\ UNCHANGED <<now, mtime, mtimecmp, irqAt, program>>
  BY DEF IInv, TypeOK, Leads, Wfi, Runs, TimerUp
<1>2. CASE LocalPending(hart[h]) # {}
  <2>1. Retire(h, hart, 0)
    BY <1>2 DEF Wfi
  <2> QED
    BY <1>1, <2>1, RetireKeeps
<1>3. CASE LocalPending(hart[h]) = {}
  <2>1. PICK stale \in BOOLEAN : hart' = [hart EXCEPT ![h] = StartsWaiting(hart[h], stale)]
    BY <1>3 DEF Wfi
  <2>2. UNCHANGED <<local, resume>>
    BY <1>3 DEF Wfi
  <2>3. StartsWaiting(hart[h], stale) \in HartStates
        /\ StartsWaiting(hart[h], stale).mip = hart[h].mip
    BY <1>1 DEF StartsWaiting, HartStates
  <2>4. /\ hart' \in [Harts -> HartStates]
        /\ \A g \in Harts : TimerUp(g)' <=> TimerUp(g)
        /\ \A g \in Harts \ {h} : hart'[g] = hart[g]
    BY <1>1, <2>1, <2>3 DEF TimerUp
  <2>5. TypeOK'
    BY <1>1, <2>2, <2>4 DEF IInv, TypeOK, program
  <2>6. InTime' /\ Leads' /\ Comparands' /\ Sleeps'
    BY <1>1, <2>2, <2>4 DEF IInv, InTime, Leads, Comparands, Sleeps, program
  <2>7. NoTimerForgotten' /\ NoStaleTimer'
    BY <1>1, <2>4 DEF IInv, NoTimerForgotten, NoStaleTimer
  <2> QED
    BY <2>4, <2>5, <2>6, <2>7 DEF IInv, PinsKept
<1> QED
  BY <1>2, <1>3

LEMMA GoalsInRange ==
  ASSUME TypeOK, NEW h \in Harts
  PROVE  goal[h] \in 0 .. MaxCmp /\ old[h] \in 0 .. MaxCmp
<1>1. \A g \in Goals \cup {0} : g \in 0 .. MaxCmp
  BY Constants
<1>2. goal[h] \in Goals \cup {0} /\ old[h] \in Goals \cup {0}
  BY DEF TypeOK
<1> QED
  BY <1>1, <1>2

LEMMA StoreMinusOneStep ==
  ASSUME IInv, NEW h \in Harts, StoreMinusOne(h)
  PROVE  IInv' /\ PinsKept
<1> DEFINE value == High(mtimecmp[h]) * HalfSize + HalfSize - 1
<1>1. mtimecmp[h] \in 0 .. MaxCmp /\ mtimecmp[h] = old[h]
  BY DEF StoreMinusOne, IInv, TypeOK, Comparands
<1>2. value \in 0 .. MaxCmp /\ value = High(old[h]) * HalfSize + HalfSize - 1
  BY <1>1, Halves
<1> HIDE DEF value
<1>3. /\ Runs(h) /\ Store(h, value)
      /\ stage' = [stage EXCEPT ![h] = "high"]
      /\ old' = old
      /\ \E g \in Goals : goal' = [goal EXCEPT ![h] = g]
  BY DEF StoreMinusOne, value
<1>4. /\ stage' \in [Harts -> {"idle", "high", "low"}]
      /\ goal' \in [Harts -> Goals \cup {0}] /\ old' \in [Harts -> Goals \cup {0}]
  BY <1>3 DEF IInv, TypeOK
<1>5. mtimecmp' = [mtimecmp EXCEPT ![h] = value]
  BY <1>3 DEF Store
<1>6. Comparands'
  BY <1>2, <1>3, <1>5 DEF IInv, TypeOK, Comparands
<1> QED
  BY <1>2, <1>3, <1>4, <1>6, StoreKeeps

LEMMA StoreHighStep ==
  ASSUME IInv, NEW h \in Harts, StoreHigh(h)
  PROVE  IInv' /\ PinsKept
<1> DEFINE value == High(goal[h]) * HalfSize + (mtimecmp[h] % HalfSize)
           right == High(goal[h]) * HalfSize + HalfSize - 1
<1>1. /\ goal[h] \in 0 .. MaxCmp /\ old[h] \in 0 .. MaxCmp
      /\ mtimecmp[h] = High(old[h]) * HalfSize + HalfSize - 1
  <2>1. goal[h] \in 0 .. MaxCmp /\ old[h] \in 0 .. MaxCmp
    BY GoalsInRange DEF IInv
  <2>2. stage[h] = "high" => mtimecmp[h] = High(old[h]) * HalfSize + HalfSize - 1
    BY DEF IInv, Comparands
  <2> QED
    BY <2>1, <2>2 DEF StoreHigh
<1>2. mtimecmp[h] % HalfSize = HalfSize - 1 /\ right \in 0 .. MaxCmp
  BY <1>1, Halves
<1>3. value = right
  <2>1. High(goal[h]) \in Nat
    BY <1>1, Halves, Constants
  <2>2. \A a \in Nat, s \in Nat : a * s + (s - 1) = a * s + s - 1
    BY Z3
  <2> QED
    BY <1>2, <2>1, <2>2, Constants
<1> HIDE DEF value, right
<1>4. /\ Runs(h) /\ Store(h, value)
      /\ stage' = [stage EXCEPT ![h] = "low"]
      /\ UNCHANGED <<goal, old>>
  BY DEF StoreHigh, value
<1>5. /\ stage' \in [Harts -> {"idle", "high", "low"}]
      /\ goal' \in [Harts -> Goals \cup {0}] /\ old' \in [Harts -> Goals \cup {0}]
  BY <1>4 DEF IInv, TypeOK
<1>6. mtimecmp' = [mtimecmp EXCEPT ![h] = value]
  BY <1>4 DEF Store
<1>7. mtimecmp'[h] = High(goal[h]) * HalfSize + HalfSize - 1
  BY <1>3, <1>6 DEF IInv, TypeOK, right
<1>8. Comparands'
  BY <1>4, <1>6, <1>7 DEF IInv, TypeOK, Comparands
<1> QED
  BY <1>2, <1>3, <1>4, <1>5, <1>8, StoreKeeps

LEMMA StoreLowStep ==
  ASSUME IInv, NEW h \in Harts, StoreLow(h)
  PROVE  IInv' /\ PinsKept
<1>1. /\ Runs(h) /\ Store(h, goal[h])
      /\ stage' = [stage EXCEPT ![h] = "idle"]
      /\ old' = [old EXCEPT ![h] = goal[h]]
      /\ goal' = goal
  BY DEF StoreLow
<1>2. goal[h] \in Goals \cup {0} /\ goal[h] \in 0 .. MaxCmp
  BY GoalsInRange DEF IInv, TypeOK
<1>3. /\ stage' \in [Harts -> {"idle", "high", "low"}]
      /\ goal' \in [Harts -> Goals \cup {0}] /\ old' \in [Harts -> Goals \cup {0}]
  BY <1>1, <1>2 DEF IInv, TypeOK
<1>4. mtimecmp' = [mtimecmp EXCEPT ![h] = goal[h]]
  BY <1>1 DEF Store
<1>5. Comparands'
  BY <1>1, <1>4 DEF IInv, TypeOK, Comparands
<1> QED
  BY <1>1, <1>2, <1>3, <1>5, StoreKeeps

LEMMA TickStep ==
  ASSUME IInv, Tick
  PROVE  IInv' /\ PinsKept
<1>1. /\ now' = now + 1 /\ now \in Nat
      /\ irqAt # now
      /\ hart' = [h \in Harts |-> [hart[h] EXCEPT !.notified = FALSE]]
      /\ UNCHANGED <<mtime, mtimecmp, irqAt, local, resume, program>>
  BY DEF Tick, IInv, TypeOK
<1>2. \A h \in Harts : /\ hart'[h] \in HartStates /\ hart'[h].mip = hart[h].mip
                       /\ hart'[h].waiting = hart[h].waiting
  BY <1>1 DEF IInv, TypeOK, HartStates
<1>3. PinsKept
  BY <1>2 DEF PinsKept, TimerUp
<1>4. TypeOK'
  BY <1>1, <1>2 DEF IInv, TypeOK, program
<1>5. InTime'
  <2>1. irqAt' = irqAt /\ irqAt \in Nat \cup {Never} /\ (irqAt # Never => irqAt >= now)
    BY <1>1 DEF IInv, TypeOK, InTime
  <2> QED
    BY <1>1, <2>1 DEF InTime, Never
<1> DEFINE m == mtime * Scale
<1>6. m \in Nat
  <2>1. \A a \in Nat, s \in Nat : a * s \in Nat
    BY Z3
  <2> QED
    BY <2>1, Constants DEF IInv, TypeOK
<1> HIDE DEF m
<1>7. m <= now + 1 + Lead
  BY <1>1, <1>6, Constants DEF IInv, Leads, m
<1>8. Leads' /\ Comparands' /\ Sleeps'
  BY <1>1, <1>2, <1>7 DEF IInv, TypeOK, Leads, Comparands, Sleeps, program, m
<1>9. NoTimerForgotten'
  BY <1>1, <1>3, Constants DEF IInv, TypeOK, NoTimerForgotten, PinsKept, Never
<1>10. NoStaleTimer'
  <2> SUFFICES ASSUME NEW h \in Harts, TimerUp(h),
                      mtimecmp[h] = 0 \/ mtimecmp[h] * Scale > now + 1 + Lead
               PROVE  irqAt # Never /\ irqAt <= now + 1 + Lead
    BY <1>1, <1>3 DEF NoStaleTimer, PinsKept
  <2> DEFINE c == mtimecmp[h] * Scale
  <2>1. c \in Nat
    <3>1. \A a \in Nat, s \in Nat : a * s \in Nat
      BY Z3
    <3> QED
      BY <3>1, Constants DEF IInv, TypeOK
  <2> HIDE DEF c
  <2>2. c > now + 1 + Lead => c > now + Lead
    BY <1>1, <2>1, Constants
  <2>3. irqAt # Never /\ irqAt <= now + Lead
    BY <2>2 DEF c, IInv, NoStaleTimer
  <2> QED
    BY <1>1, <2>3, Constants DEF IInv, TypeOK
<1> QED
  BY <1>3, <1>4, <1>5, <1>8, <1>9, <1>10 DEF IInv

-----------------------------------------------------------------------------
LEMMA HartStepKeeps ==
  ASSUME IInv, NEW h \in Harts, HartStep(h)
  PROVE  IInv' /\ PinsKept
<1>1. CASE Compute(h)
  BY <1>1, ComputeStep
<1>2. CASE ReadMtime(h)
  BY <1>2, ReadMtimeStep
<1>3. CASE ReadTime(h)
  BY <1>3, ReadTimeStep
<1>4. CASE StoreMinusOne(h)
  BY <1>4, StoreMinusOneStep
<1>5. CASE StoreHigh(h)
  BY <1>5, StoreHighStep
<1>6. CASE StoreLow(h)
  BY <1>6, StoreLowStep
<1>7. CASE \E g \in Harts : WriteMsip(h, g)
  BY <1>7, WriteMsipStep
<1>8. CASE Wfi(h)
  BY <1>8, WfiStep
<1>9. CASE Wake(h)
  BY <1>9, WakeStep
<1>10. CASE MretStep(h)
  BY <1>10, MretStepHolds
<1> QED
  BY <1>1, <1>2, <1>3, <1>4, <1>5, <1>6, <1>7, <1>8, <1>9, <1>10 DEF HartStep

LEMMA StutterStep ==
  ASSUME IInv, UNCHANGED vars
  PROVE  IInv' /\ PinsKept
<1>1. TypeOK' /\ InTime' /\ Leads'
  BY DEF IInv, TypeOK, InTime, Leads, vars
<1>2. Comparands' /\ Sleeps'
  BY DEF IInv, Comparands, Sleeps, vars
<1>3. NoTimerForgotten' /\ NoStaleTimer'
  BY DEF IInv, NoTimerForgotten, NoStaleTimer, TimerUp, vars
<1>4. PinsKept
  BY DEF PinsKept, TimerUp, vars
<1> QED
  BY <1>1, <1>2, <1>3, <1>4 DEF IInv

LEMMA NextHolds == IInv /\ [Next]_vars => IInv'
<1> SUFFICES ASSUME IInv, [Next]_vars PROVE IInv'
  OBVIOUS
<1>1. CASE Run
  BY <1>1, RunStep
<1>2. CASE Tick
  BY <1>2, TickStep
<1>3. CASE \E h \in Harts : HartStep(h)
  BY <1>3, HartStepKeeps
<1>4. CASE UNCHANGED vars
  BY <1>4, StutterStep
<1> QED
  BY <1>1, <1>2, <1>3, <1>4 DEF Next

LEMMA Invariance == Spec => []IInv
BY InitHolds, NextHolds, PTL DEF Spec

-----------------------------------------------------------------------------
\* Every state of the CLINT, its harts and the three-store sequence is one of those
\* that the model describes: no comparand overflows its two halves.
THEOREM TypeCorrect == Spec => []TypeOK
<1>1. IInv => TypeOK
  BY DEF IInv
<1> QED
  BY <1>1, Invariance, PTL

\* run() looks at a comparand in time whichever hart wrote it, although all harts share
\* irq_event and pre_read_mtime moves mtime.
THEOREM NoTimerIsForgotten == Spec => []NoTimerForgotten
<1>1. IInv => NoTimerForgotten
  BY DEF IInv
<1> QED
  BY <1>1, Invariance, PTL

\* An interrupt whose comparand was moved away is withdrawn by the run() that the store
\* has asked for.
THEOREM StaleTimersAreWithdrawn == Spec => []NoStaleTimer
<1>1. IInv => NoStaleTimer
  BY DEF IInv
<1> QED
  BY <1>1, Invariance, PTL

\* The largest value with the high half of a comparand.
LEMMA LastIsLate ==
  ASSUME NEW v \in 0 .. MaxCmp
  PROVE  High(v) * HalfSize + HalfSize - 1 >= Earliest(v)
<1> DEFINE last == High(v) * HalfSize + HalfSize - 1
<1>1. last \in 0 .. MaxCmp /\ v <= last
  BY Halves
<1>2. HalfSize - 1 <= last
  <2>1. High(v) \in Nat /\ HalfSize \in Nat
    BY Halves, Constants
  <2>2. High(v) * HalfSize \in Nat
    <3>1. \A a \in Nat, b \in Nat : a * b \in Nat
      BY Z3
    <3> QED
      BY <2>1, <3>1
  <2> QED
    BY <2>1, <2>2
<1> HIDE DEF last
<1>3. last >= Earliest(v)
  BY <1>1, <1>2, Constants DEF Earliest
<1> QED
  BY <1>3 DEF last

\* A comparand that raises the timer is never below the smaller of the old and the new
\* one while it is written in halves.
LEMMA ComparandIsLate ==
  ASSUME IInv, NEW h \in Harts, mtimecmp[h] > 0
  PROVE  Min({Earliest(old[h]), Earliest(goal[h])}) \in Nat
         /\ Min({Earliest(old[h]), Earliest(goal[h])}) <= mtimecmp[h]
<1> DEFINE first == Min({Earliest(old[h]), Earliest(goal[h])})
<1>1. old[h] \in 0 .. MaxCmp /\ goal[h] \in 0 .. MaxCmp /\ MaxCmp \in Nat
      /\ HalfSize \in Nat \ {0, 1}
  BY GoalsInRange, Constants DEF IInv
<1>2. first \in Nat /\ first <= Earliest(old[h]) /\ first <= Earliest(goal[h])
  <2> DEFINE S == {Earliest(old[h]), Earliest(goal[h])}
  <2>1. S \in SUBSET Nat /\ S # {} /\ Earliest(old[h]) \in S /\ Earliest(goal[h]) \in S
    BY <1>1 DEF Earliest
  <2> HIDE DEF S
  <2>2. Min(S) \in S /\ \A n \in S : Min(S) <= n
    BY <2>1, MinIsLeast
  <2>3. Min(S) \in Nat /\ Min(S) <= Earliest(old[h]) /\ Min(S) <= Earliest(goal[h])
    BY <2>1, <2>2
  <2> QED
    BY <2>3 DEF S
<1> HIDE DEF first
<1>3. stage[h] \in {"idle", "high", "low"} /\ mtimecmp[h] \in 0 .. MaxCmp
  BY DEF IInv, TypeOK
<1>4. CASE stage[h] = "idle"
  <2>1. mtimecmp[h] = goal[h]
    BY <1>4 DEF IInv, Comparands
  <2> QED
    BY <1>2, <2>1 DEF Earliest, first
<1>5. CASE stage[h] = "high"
  <2>1. mtimecmp[h] = High(old[h]) * HalfSize + HalfSize - 1
    BY <1>5 DEF IInv, Comparands
  <2>2. mtimecmp[h] >= Earliest(old[h])
    BY <1>1, <2>1, LastIsLate
  <2> QED
    BY <1>1, <1>2, <1>3, <2>2 DEF Earliest, first
<1>6. CASE stage[h] = "low"
  <2>1. mtimecmp[h] = High(goal[h]) * HalfSize + HalfSize - 1
    BY <1>6 DEF IInv, Comparands
  <2>2. mtimecmp[h] >= Earliest(goal[h])
    BY <1>1, <2>1, LastIsLate
  <2> QED
    BY <1>1, <1>2, <1>3, <2>2 DEF Earliest, first
<1> QED
  BY <1>3, <1>4, <1>5, <1>6

\* The sequence of stores that the note in clint.h gives the software raises no timer
\* interrupt between the two comparands.
THEOREM NoSpuriousTimers == Spec => NoSpuriousTimer
<1> DEFINE OnTime == \A h \in Harts :
                       ~TimerUp(h) /\ TimerUp(h)' =>
                         mtime' >= Min({Earliest(old[h]), Earliest(goal[h])})
<1>1. ASSUME IInv, Run PROVE OnTime
  <2> SUFFICES ASSUME NEW h \in Harts, ~TimerUp(h), TimerUp(h)'
               PROVE  mtime' >= Min({Earliest(old[h]), Earliest(goal[h])})
    OBVIOUS
  <2>1. hart'[h] = TriggerPin(hart[h], "timer", Due(h, mtime'))
    BY <1>1 DEF Run
  <2>2. Due(h, mtime')
    <3>1. hart[h] \in HartStates
      BY <1>1 DEF IInv, TypeOK
    <3> QED
      BY <2>1, <3>1 DEF TimerUp, TriggerPin, SilentPin, HartStates
  <2>3. mtime' >= mtimecmp[h] /\ mtimecmp[h] > 0
    BY <2>2 DEF Due
  <2> DEFINE first == Min({Earliest(old[h]), Earliest(goal[h])})
  <2>4. first \in Nat /\ first <= mtimecmp[h]
    BY <1>1, <2>3, ComparandIsLate
  <2>5. mtimecmp[h] \in Nat /\ mtime' \in Nat
    BY <1>1, RunStep, Constants DEF IInv, TypeOK
  <2> HIDE DEF first
  <2>6. mtime' >= first
    BY <2>3, <2>4, <2>5
  <2> QED
    BY <2>6 DEF first
<1>2. ASSUME IInv, Tick PROVE OnTime
  BY <1>2, TickStep DEF PinsKept
<1>3. ASSUME IInv, \E h \in Harts : HartStep(h) PROVE OnTime
  BY <1>3, HartStepKeeps DEF PinsKept
<1>4. ASSUME IInv, UNCHANGED vars PROVE OnTime
  BY <1>4, StutterStep DEF PinsKept
<1>5. IInv /\ [Next]_vars => [OnTime]_vars
  BY <1>1, <1>2, <1>3, <1>4 DEF Next
<1> QED
  BY <1>5, Invariance, PTL DEF Spec, NoSpuriousTimer
=============================================================================
