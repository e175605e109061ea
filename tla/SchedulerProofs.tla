--------------------------- MODULE SchedulerProofs ---------------------------
(***************************************************************************)
(* Theorems about the scheduler and the risk sweep it runs: JobDispatch,   *)
(* for every number of workers and consumers, every interval and every     *)
(* bound on failures, crashes and outages; RiskHalt, for every number of   *)
(* sweeps, readers and days.                                               *)
(***************************************************************************)
EXTENDS JobDispatch, RiskHalt, TLAPS

(* JobDispatch.                                                            *)

\* Who runs under the lock and has not outlived it is the holder.
HolderRuns ==
  /\ owner = Nobody <=> left = 0
  /\ \A w \in Workers : pc[w] = "running" /\ w \notin outlived => owner = w

\* Ticks until the scheduler of w has to fire.
Wait(w) ==
  IF due[w] THEN 0 ELSE IF phase[w] > tick THEN phase[w] - tick ELSE phase[w] - tick + Interval

\* An xadd is on its way to a Redis that answers.
Calling == queued /\ redis /\ \E w \in Workers : Runs(w)

\* Why the job cannot be skipped for ever: a lock is never older than the last
\* run plus its lifetime, and a scheduler that stays up finds it free within the
\* interval that follows.  While an xadd is on its way the lock is younger than
\* the last run; the call ends within the tick, and its end starts the count.
Progress ==
  /\ \A w \in veterans : pc[w] # "dead"
  /\ \A w \in Workers : due[w] => phase[w] = tick
  /\ CutOff => quiet = 0
  /\ ~queued => \A w \in Workers : Runs(w) => quiet = 0
  /\ ~Calling /\ left > 0 => quiet + left <= LockTtl
  /\ ~Calling => \A w \in veterans : quiet + Wait(w) < Longest
  /\ veterans # {} => quiet < Longest

IInv == TypeOK /\ HolderRuns /\ Progress
-----------------------------------------------------------------------------
\* The lifetime of the lock ends before the scheduler that took it fires again.
LEMMA LockTtlRange == LockTtl \in 1..(Interval - 1)
<1>1. (Interval * 9) \div 10 \in Int
  BY NumbersAssumption
<1> DEFINE n == (Interval * 9) \div 10
<1>2. MinOf(Interval - 1, n) \in Int /\ MinOf(Interval - 1, n) <= Interval - 1
  BY <1>1, NumbersAssumption DEF MinOf
<1> HIDE DEF n
<1>3. MaxOf(1, MinOf(Interval - 1, n)) \in 1..(Interval - 1)
  BY <1>2, NumbersAssumption DEF MaxOf
<1> QED BY <1>3 DEF LockTtl, n

LEMMA LongestRange == Longest \in Nat /\ Longest = Interval + Interval
<1> QED BY NumbersAssumption DEF Longest

\* A run within the last interval leaves a whole interval to wait.
LEMMA OneMoreInterval == \A q \in Int : q < Interval => q + Interval < Longest
<1> QED BY NumbersAssumption DEF Longest

\* The wait of a scheduler is at most one interval, so a step that ends in a run
\* leaves enough of the two.
LEMMA FreshRun ==
  ASSUME TypeOK', quiet' = 0
  PROVE  /\ \A w \in veterans' : quiet' + Wait(w)' < Longest
         /\ left' > 0 => quiet' + left' <= LockTtl
         /\ quiet' < Longest
<1>1. ASSUME NEW w \in veterans' PROVE quiet' + Wait(w)' < Longest
  <2>1. w \in Workers /\ tick' \in 0..(Interval - 1) /\ phase'[w] \in 0..(Interval - 1)
    BY DEF TypeOK
  <2>2. Wait(w)' \in 0..Interval
    BY <2>1, NumbersAssumption DEF Wait
  <2> QED BY <2>2, LongestRange, NumbersAssumption
<1>2. left' > 0 => quiet' + left' <= LockTtl
  <2>1. left' \in 0..LockTtl
    BY DEF TypeOK
  <2>2. LockTtl \in Int
    BY LockTtlRange, NumbersAssumption
  <2>3. left' \in Int
    BY <2>1, <2>2
  <2>4. left' <= LockTtl
    BY <2>1, <2>2
  <2>5. \A q, l \in Int : q = 0 => q + l = l
    OBVIOUS
  <2>6. quiet' \in Int
    OBVIOUS
  <2>7. quiet' + left' = left'
    BY <2>3, <2>5, <2>6
  <2> QED BY <2>4, <2>7
<1>3. quiet' < Longest
  BY LongestRange, NumbersAssumption
<1> QED BY <1>1, <1>2, <1>3

LEMMA InitEstablishes == Init => IInv
<1> SUFFICES ASSUME Init PROVE IInv
  OBVIOUS
<1> USE NumbersAssumption, NobodyAssumption, LockTtlRange
<1>1. TypeOK
  BY DEF Init, TypeOK, Longest
<1>2. HolderRuns
  BY DEF Init, HolderRuns
<1>3. ASSUME NEW w \in Workers PROVE quiet + Wait(w) < Longest /\ (due[w] => phase[w] = tick)
  <2>1. phase[w] \in 0..(Interval - 1) /\ (due[w] <=> phase[w] = 0) /\ tick = 0 /\ quiet = Interval
    BY DEF Init
  <2>2. Wait(w) \in 0..(Interval - 1)
    BY <2>1 DEF Wait
  <2> QED BY <2>1, <2>2, LongestRange
<1>4. Progress
  <2>1. quiet < Longest
    BY LongestRange DEF Init
  <2> QED BY <1>3, <2>1 DEF Init, Progress, Runs, CutOff
<1> QED BY <1>1, <1>2, <1>4 DEF IInv

LEMMA TickPreserves == IInv /\ Tick => IInv'
<1> SUFFICES ASSUME IInv, Tick PROVE IInv'
  OBVIOUS
<1> USE NumbersAssumption, NobodyAssumption, LockTtlRange
<1>0. TypeOK /\ HolderRuns /\ Progress
  BY DEF IInv
<1> DEFINE now == IF tick + 1 = Interval THEN 0 ELSE tick + 1
<1>1. /\ \A w \in Workers : ~due[w]
      /\ tick' = now
      /\ due' = [w \in Workers |-> pc[w] # "dead" /\ phase[w] = now]
      /\ left' = IF left = 0 THEN 0 ELSE left - 1
      /\ owner' = IF left <= 1 THEN Nobody ELSE owner
      /\ outlived' = IF left = 1 THEN outlived \union {w \in {owner} : pc[w] = "running"} ELSE outlived
      /\ quiet' = IF CutOff \/ \E w \in Workers : Runs(w) THEN 0 ELSE MinOf(quiet + 1, Longest)
      /\ ~Calling
      /\ UNCHANGED <<queued, phase, pc, veterans, redis, waiting, consumer, failures, outages>>
  BY DEF Tick, queueVars, Calling
<1>2. /\ tick \in 0..(Interval - 1) /\ left \in 0..LockTtl /\ quiet \in 0..Longest
      /\ owner \in Workers \union {Nobody} /\ phase \in [Workers -> 0..(Interval - 1)]
  BY <1>0 DEF TypeOK
<1>3. now \in 0..(Interval - 1)
  BY <1>2
<1>4. quiet' \in 0..Longest /\ quiet' <= quiet + 1
  BY <1>1, <1>2 DEF MinOf, Longest
<1>5. TypeOK'
  <2>1. outlived' \subseteq {w \in Workers : pc[w] = "running"}
    BY <1>0, <1>1, <1>2 DEF TypeOK, HolderRuns
  <2>2. left' \in 0..LockTtl /\ owner' \in Workers \union {Nobody}
    BY <1>1, <1>2
  <2> HIDE DEF now
  <2>3. tick' \in 0..(Interval - 1) /\ due' \in [Workers -> BOOLEAN]
    BY <1>1, <1>3
  <2> QED BY <1>0, <1>1, <1>4, <2>1, <2>2, <2>3 DEF TypeOK
<1>6. HolderRuns'
  <2>1. owner' = Nobody <=> left' = 0
    BY <1>0, <1>1, <1>2 DEF HolderRuns
  <2>2. ASSUME NEW w \in Workers, pc'[w] = "running", w \notin outlived' PROVE owner' = w
    <3>1. owner = w /\ left # 0
      BY <1>0, <1>1, <2>2 DEF HolderRuns
    <3> QED BY <1>1, <1>2, <2>2, <3>1
  <2> QED BY <2>1, <2>2 DEF HolderRuns
<1>7. Progress'
  <2>1. left' > 0 => quiet' + left' <= LockTtl
    BY <1>0, <1>1, <1>2, <1>4 DEF Progress
  <2>2. /\ CutOff' => quiet' = 0
        /\ ~queued' => \A w \in Workers : Runs(w)' => quiet' = 0
    BY <1>1 DEF Runs, CutOff
  <2>3. \A w \in veterans' : pc'[w] # "dead"
    BY <1>0, <1>1 DEF Progress
  <2>4. ASSUME NEW w \in veterans PROVE quiet' + Wait(w)' < Longest
    <3>1. w \in Workers /\ ~due[w] /\ pc[w] # "dead" /\ phase[w] \in 0..(Interval - 1)
      BY <1>0, <1>1 DEF TypeOK, Progress
    <3>2. quiet + Wait(w) < Longest
      BY <1>0, <1>1 DEF Progress
    <3>3. due'[w] = (phase[w] = now) /\ phase'[w] = phase[w]
      BY <1>1, <3>1
    <3>4. Wait(w)' = Wait(w) - 1 /\ Wait(w) \in Int
      <4>1. Wait(w) = IF phase[w] > tick THEN phase[w] - tick ELSE phase[w] - tick + Interval
        BY <3>1 DEF Wait
      <4>2. Wait(w)' = IF phase[w] = now THEN 0
                       ELSE IF phase[w] > now THEN phase[w] - now ELSE phase[w] - now + Interval
        BY <1>1, <3>3 DEF Wait
      <4> QED BY <1>2, <3>1, <4>1, <4>2
    <3> QED BY <1>2, <1>4, <3>2, <3>4 DEF Longest
  <2>5. \A w \in Workers : due'[w] => phase'[w] = tick'
    BY <1>1
  <2>6. veterans' # {} => quiet' < Longest
    <3> SUFFICES ASSUME NEW w \in veterans PROVE quiet' < Longest
      BY <1>1
    <3>1. phase[w] \in 0..(Interval - 1) /\ quiet + Wait(w) < Longest /\ Wait(w) \in Int
      BY <1>0, <1>1, <1>2 DEF TypeOK, Progress, Wait
    <3>2. Wait(w) > 0
      BY <1>0, <1>1, <1>2, <3>1 DEF TypeOK, Wait
    <3> QED BY <1>2, <1>4, <3>1, <3>2, LongestRange
  <2> QED BY <1>1, <2>1, <2>2, <2>3, <2>4, <2>5, <2>6 DEF Progress
<1> QED BY <1>5, <1>6, <1>7 DEF IInv

LEMMA FirePreserves == \A u \in Workers : IInv /\ Fire(u) => IInv'
<1> SUFFICES ASSUME NEW u \in Workers, IInv, Fire(u) PROVE IInv'
  OBVIOUS
<1> USE NumbersAssumption, NobodyAssumption, LockTtlRange
<1>0. TypeOK /\ HolderRuns /\ Progress
  BY DEF IInv
<1>1. /\ due[u] /\ due' = [due EXCEPT ![u] = FALSE]
      /\ UNCHANGED <<queued, tick, phase, outlived, veterans, redis, waiting, consumer,
                     failures, outages>>
  BY DEF Fire, queueVars
<1>2. /\ tick \in 0..(Interval - 1) /\ left \in 0..LockTtl /\ quiet \in 0..Longest
      /\ owner \in Workers \union {Nobody} /\ phase \in [Workers -> 0..(Interval - 1)]
      /\ pc \in [Workers -> {"idle", "running", "unguarded", "dead"}]
      /\ due \in [Workers -> BOOLEAN] /\ veterans \subseteq Workers
      /\ outlived \subseteq {w \in Workers : pc[w] = "running"}
  BY <1>0 DEF TypeOK
<1>3. (owner = Nobody <=> left = 0)
      /\ \A w \in Workers : pc[w] = "running" /\ w \notin outlived => owner = w
  BY <1>0 DEF HolderRuns
<1>4. /\ \A w \in veterans : pc[w] # "dead"
      /\ \A w \in Workers : due[w] => phase[w] = tick
      /\ CutOff => quiet = 0
      /\ ~queued => \A w \in Workers : Runs(w) => quiet = 0
      /\ ~Calling /\ left > 0 => quiet + left <= LockTtl
      /\ ~Calling => \A w \in veterans : quiet + Wait(w) < Longest
      /\ veterans # {} => quiet < Longest
  BY <1>0 DEF Progress
<1>5. due' \in [Workers -> BOOLEAN] /\ ~due'[u]
      /\ \A w \in Workers \ {u} : due'[w] = due[w]
  BY <1>1, <1>2
<1>6. \A w \in Workers : due'[w] => phase'[w] = tick'
  BY <1>1, <1>4, <1>5
\* A firing that starts nothing: the lock is held, so the job has run within the
\* last interval.
<1>7. CASE UNCHANGED <<pc, quiet, owner, left>> /\ (~Calling => quiet < Interval)
  <2>1. TypeOK'
    BY <1>0, <1>1, <1>5, <1>7 DEF TypeOK
  <2>2. HolderRuns'
    BY <1>1, <1>3, <1>7 DEF HolderRuns
  <2>3. ASSUME ~Calling, NEW w \in veterans PROVE quiet' + Wait(w)' < Longest
    <3>1. CASE w = u
      <4>1. Wait(w)' = Interval
        BY <1>1, <1>2, <1>4, <1>5, <3>1 DEF Wait
      <4> QED BY <1>2, <1>7, <2>3, <4>1, OneMoreInterval
    <3>2. CASE w # u
      <4>1. Wait(w)' = Wait(w)
        BY <1>1, <1>5, <1>2, <3>2 DEF Wait
      <4> QED BY <1>4, <1>7, <2>3, <4>1
    <3> QED BY <3>1, <3>2
  <2>4. Calling' = Calling /\ CutOff' = CutOff /\ \A w \in Workers : Runs(w)' = Runs(w)
    BY <1>1, <1>7 DEF Calling, CutOff, Runs
  <2>5. Progress'
    BY <1>1, <1>4, <1>6, <1>7, <2>3, <2>4 DEF Progress
  <2> QED BY <2>1, <2>2, <2>5 DEF IInv
<1>8. CASE pc[u] = "idle" /\ redis /\ owner = Nobody /\ owner' = u /\ left' = LockTtl
           /\ Starts(u, "running")
  <2>1. pc' = [pc EXCEPT ![u] = "running"] /\ quiet' = (IF queued THEN quiet ELSE 0)
    BY <1>8 DEF Starts
  <2>2. TypeOK'
    <3>1. outlived \subseteq {w \in Workers : pc'[w] = "running"}
      BY <1>2, <2>1
    <3> QED BY <1>0, <1>1, <1>5, <1>8, <2>1, <3>1 DEF TypeOK, Longest
  <2>3. HolderRuns'
    BY <1>1, <1>2, <1>3, <1>8, <2>1 DEF HolderRuns
  <2>4. \A w \in veterans' : pc'[w] # "dead"
    BY <1>1, <1>2, <1>4, <2>1
  <2>5. CASE queued
    <3>1. Calling' /\ ~CutOff'
      BY <1>1, <1>2, <1>8, <2>1, <2>5 DEF Calling, CutOff, Runs
    <3> QED BY <1>1, <1>4, <1>6, <2>1, <2>2, <2>3, <2>4, <2>5, <3>1 DEF IInv, Progress
  <2>6. CASE ~queued
    <3>1. quiet' = 0 /\ ~queued'
      BY <1>1, <2>1, <2>6
    <3> QED BY <1>6, <2>2, <2>3, <2>4, <3>1, FreshRun DEF IInv, Progress
  <2> QED BY <2>5, <2>6
<1>9. CASE pc[u] = "idle" /\ ~redis /\ Starts(u, "unguarded") /\ UNCHANGED <<owner, left>>
  <2>1. pc' = [pc EXCEPT ![u] = "unguarded"] /\ quiet' = 0
    BY <1>4, <1>9 DEF Starts, CutOff
  <2>2. TypeOK'
    <3>1. outlived \subseteq {w \in Workers : pc'[w] = "running"}
      BY <1>2, <1>9, <2>1
    <3> QED BY <1>0, <1>1, <1>5, <1>9, <2>1, <3>1 DEF TypeOK, Longest
  <2>3. HolderRuns'
    BY <1>1, <1>2, <1>3, <1>9, <2>1 DEF HolderRuns
  <2>4. \A w \in veterans' : pc'[w] # "dead"
    BY <1>1, <1>2, <1>4, <2>1
  <2> QED BY <1>6, <2>1, <2>2, <2>3, <2>4, FreshRun DEF IInv, Progress
<1>10. CASE Runs(u) /\ UNCHANGED <<pc, quiet, owner, left>>
  <2>1. ~Calling => quiet = 0
    BY <1>4, <1>10 DEF Calling, CutOff
  <2> QED BY <1>7, <1>10, <2>1
<1>11. CASE pc[u] = "idle" /\ owner # Nobody /\ UNCHANGED <<pc, quiet, owner, left>>
  <2>1. ~Calling => quiet < Interval
    BY <1>2, <1>3, <1>4, <1>11
  <2> QED BY <1>7, <1>11, <2>1
<1> QED BY <1>8, <1>9, <1>10, <1>11 DEF Fire, lockVars

LEMMA FinishPreserves == \A u \in Workers : IInv /\ Finish(u) => IInv'
<1> SUFFICES ASSUME NEW u \in Workers, IInv, Finish(u) PROVE IInv'
  OBVIOUS
<1> USE NumbersAssumption, NobodyAssumption, LockTtlRange
<1>0. TypeOK /\ HolderRuns /\ Progress
  BY DEF IInv
<1>1. /\ Runs(u) /\ pc' = [pc EXCEPT ![u] = "idle"] /\ outlived' = outlived \ {u}
      /\ IF Releases(u) THEN owner' = Nobody /\ left' = 0 ELSE UNCHANGED <<owner, left>>
      /\ IF queued /\ redis THEN waiting' \in Trimmed(waiting + 1) /\ quiet' = 0
         ELSE UNCHANGED <<waiting, quiet>>
      /\ UNCHANGED <<queued, tick, phase, due, veterans, redis, consumer, failures, outages>>
  BY DEF Finish, lockVars
<1>2. /\ left \in 0..LockTtl /\ waiting \in 0..(MaxWaiting + Slack) /\ quiet \in 0..Longest
      /\ owner \in Workers \union {Nobody}
      /\ pc \in [Workers -> {"idle", "running", "unguarded", "dead"}]
      /\ outlived \subseteq {w \in Workers : pc[w] = "running"}
  BY <1>0 DEF TypeOK
<1>3. waiting' \in 0..(MaxWaiting + Slack) /\ quiet' \in 0..Longest
  BY <1>1, <1>2, LongestRange DEF Trimmed, MinOf
<1>4. owner' \in Workers \union {Nobody} /\ left' \in 0..LockTtl
      /\ (owner' = Nobody <=> left' = 0) /\ (left' = left \/ left' = 0)
  BY <1>0, <1>1, <1>2 DEF HolderRuns
<1>5. TypeOK'
  <2>1. outlived' \subseteq {w \in Workers : pc'[w] = "running"}
    BY <1>1, <1>2
  <2> QED BY <1>0, <1>1, <1>3, <1>4, <2>1 DEF TypeOK
<1>6. HolderRuns'
  <2> SUFFICES ASSUME NEW w \in Workers, pc'[w] = "running", w \notin outlived' PROVE owner' = w
    BY <1>4 DEF HolderRuns
  <2>1. w # u /\ pc[w] = "running" /\ w \notin outlived
    BY <1>1, <1>2
  <2>2. owner = w
    BY <1>0, <2>1 DEF HolderRuns
  <2> QED BY <1>1, <2>1, <2>2 DEF Releases
<1>7. Progress'
  <2>1. \A w \in Workers : (Runs(w)' => Runs(w)) /\ (pc[w] # "dead" => pc'[w] # "dead")
    BY <1>1, <1>2 DEF Runs
  <2>2. veterans' \subseteq Workers
    BY <1>0, <1>1 DEF TypeOK
  <2>3. \A w \in veterans' : Wait(w)' = Wait(w)
    BY <1>1 DEF Wait
  <2>4. CASE queued /\ redis
    <3>1. quiet' = 0
      BY <1>1, <2>4
    <3> QED BY <1>0, <1>1, <1>5, <2>1, <2>2, <3>1, FreshRun DEF Progress
  <2>5. CASE ~(queued /\ redis)
    <3>1. ~Calling /\ ~Calling' /\ CutOff' = CutOff /\ UNCHANGED quiet
      BY <1>1, <2>5 DEF Calling, CutOff
    <3> QED BY <1>0, <1>1, <1>4, <2>1, <2>2, <2>3, <3>1 DEF Progress
  <2> QED BY <2>4, <2>5
<1> QED BY <1>5, <1>6, <1>7 DEF IInv

LEMMA CrashPreserves == \A u \in Workers : IInv /\ Crash(u) => IInv'
<1> SUFFICES ASSUME NEW u \in Workers, IInv, Crash(u) PROVE IInv'
  OBVIOUS
<1>0. TypeOK /\ HolderRuns /\ Progress
  BY DEF IInv
<1>1. /\ veterans' = veterans \ {u} /\ pc' = [pc EXCEPT ![u] = "dead"]
      /\ due' = [due EXCEPT ![u] = FALSE] /\ outlived' = outlived \ {u}
      /\ quiet' = IF Runs(u) THEN 0 ELSE quiet
      /\ UNCHANGED <<queued, tick, owner, left, phase, redis, waiting, consumer, failures, outages>>
  BY DEF Crash, lockVars, queueVars
<1>2. /\ pc \in [Workers -> {"idle", "running", "unguarded", "dead"}]
      /\ due \in [Workers -> BOOLEAN] /\ veterans \subseteq Workers
      /\ outlived \subseteq {w \in Workers : pc[w] = "running"}
  BY <1>0 DEF TypeOK
<1>3. pc'[u] = "dead" /\ ~due'[u]
      /\ \A w \in Workers \ {u} : pc'[w] = pc[w] /\ due'[w] = due[w]
  BY <1>1, <1>2
<1>4. TypeOK'
  <2>1. outlived' \subseteq {w \in Workers : pc'[w] = "running"}
    BY <1>1, <1>2
  <2>2. pc' \in [Workers -> {"idle", "running", "unguarded", "dead"}]
        /\ due' \in [Workers -> BOOLEAN] /\ veterans' \subseteq Workers
    BY <1>1, <1>2
  <2>3. quiet' \in 0..Longest
    BY <1>0, <1>1, LongestRange DEF TypeOK
  <2> QED BY <1>0, <1>1, <2>1, <2>2, <2>3 DEF TypeOK
<1>5. HolderRuns'
  BY <1>0, <1>1, <1>3 DEF HolderRuns
<1>6. Progress'
  <2>1. \A w \in veterans' : Wait(w)' = Wait(w) /\ pc'[w] # "dead"
    BY <1>0, <1>1, <1>2, <1>3 DEF Wait, Progress
  <2>2. \A w \in Workers : (Runs(w)' => Runs(w)) /\ (due'[w] => due[w])
    BY <1>3 DEF Runs
  <2>3. CASE Runs(u)
    <3>1. quiet' = 0
      BY <1>1, <2>3
    <3> QED BY <1>0, <1>1, <1>4, <2>1, <2>2, <3>1, FreshRun DEF Progress
  <2>4. CASE ~Runs(u)
    <3>1. Calling' = Calling /\ CutOff' = CutOff /\ UNCHANGED quiet
      BY <1>1, <1>3, <2>4 DEF Calling, CutOff, Runs
    <3>2. veterans' # {} => veterans # {}
      BY <1>1
    <3> QED BY <1>0, <1>1, <2>1, <2>2, <3>1, <3>2 DEF Progress
  <2> QED BY <2>3, <2>4
<1> QED BY <1>4, <1>5, <1>6 DEF IInv

LEMMA RestartPreserves == \A u \in Workers : IInv /\ Restart(u) => IInv'
<1> SUFFICES ASSUME NEW u \in Workers, IInv, Restart(u) PROVE IInv'
  OBVIOUS
<1>0. TypeOK /\ HolderRuns /\ Progress
  BY DEF IInv
<1>1. /\ pc[u] = "dead" /\ pc' = [pc EXCEPT ![u] = "idle"]
      /\ phase' = [phase EXCEPT ![u] = tick]
      /\ UNCHANGED <<queued, tick, owner, left, due, outlived, veterans, quiet, redis,
                     waiting, consumer, failures, outages>>
  BY DEF Restart, lockVars, queueVars
<1>2. /\ pc \in [Workers -> {"idle", "running", "unguarded", "dead"}]
      /\ phase \in [Workers -> 0..(Interval - 1)] /\ veterans \subseteq Workers
      /\ tick \in 0..(Interval - 1)
      /\ outlived \subseteq {w \in Workers : pc[w] = "running"}
  BY <1>0 DEF TypeOK
<1>3. /\ pc'[u] = "idle" /\ phase'[u] = tick
      /\ \A w \in Workers \ {u} : pc'[w] = pc[w] /\ phase'[w] = phase[w]
  BY <1>1, <1>2
<1>4. u \notin veterans
  BY <1>0, <1>1 DEF Progress
<1>5. TypeOK'
  <2>1. outlived' \subseteq {w \in Workers : pc'[w] = "running"}
    BY <1>1, <1>2
  <2>2. pc' \in [Workers -> {"idle", "running", "unguarded", "dead"}]
        /\ phase' \in [Workers -> 0..(Interval - 1)]
    BY <1>1, <1>2
  <2> QED BY <1>0, <1>1, <2>1, <2>2 DEF TypeOK
<1>6. HolderRuns'
  BY <1>0, <1>1, <1>3 DEF HolderRuns
<1>7. Progress'
  <2>1. \A w \in veterans' : Wait(w)' = Wait(w) /\ pc'[w] # "dead"
    BY <1>0, <1>1, <1>2, <1>3, <1>4 DEF Wait, Progress
  <2>2. \A w \in Workers : Runs(w)' = Runs(w) /\ (due'[w] => phase'[w] = tick')
    BY <1>0, <1>1, <1>3 DEF Runs, Progress
  <2>3. Calling' = Calling /\ CutOff' = CutOff
    BY <1>1, <2>2 DEF Calling, CutOff
  <2> QED BY <1>0, <1>1, <2>1, <2>2, <2>3 DEF Progress
<1> QED BY <1>5, <1>6, <1>7 DEF IInv

\* The consumers and the availability of Redis do not touch the lock; an outage
\* starts the count of a queued job anew.
LEMMA RedisPreserves == IInv /\ (RedisFails \/ RedisReturns) => IInv'
<1> SUFFICES ASSUME IInv, RedisFails \/ RedisReturns PROVE IInv'
  OBVIOUS
<1>0. TypeOK /\ HolderRuns /\ Progress
  BY DEF IInv
<1>1. UNCHANGED <<queued, tick, owner, left, phase, due, pc, outlived, veterans, waiting,
                  consumer, failures>>
  BY DEF RedisFails, RedisReturns, lockVars, workerVars, queueVars
<1>2. \/ /\ redis /\ redis' = FALSE /\ outages < MaxOutages /\ outages' = outages + 1
         /\ quiet' = IF queued THEN 0 ELSE quiet
      \/ ~redis /\ redis' = TRUE /\ outages' = outages /\ quiet' = quiet
  BY DEF RedisFails, RedisReturns
<1>3. TypeOK'
  <2>1. outages \in 0..MaxOutages /\ quiet \in 0..Longest
    BY <1>0 DEF TypeOK
  <2>2. outages' \in 0..MaxOutages
    BY <1>2, <2>1, NumbersAssumption
  <2>3. redis' \in BOOLEAN
    BY <1>2
  <2>4. quiet' = 0 \/ quiet' = quiet
    BY <1>2
  <2>5. quiet' \in 0..Longest
    BY <2>1, <2>4, LongestRange
  <2> QED BY <1>0, <1>1, <2>2, <2>3, <2>5 DEF TypeOK
<1>4. HolderRuns'
  BY <1>0, <1>1 DEF HolderRuns
<1>5. Progress'
  <2>1. CASE queued
    <3>1. quiet' = 0
      BY <1>0, <1>2, <2>1 DEF Progress, CutOff
    <3> QED BY <1>0, <1>1, <1>3, <2>1, <3>1, FreshRun DEF Progress
  <2>2. CASE ~queued
    <3>1. ~Calling /\ ~Calling' /\ ~CutOff' /\ UNCHANGED quiet
      BY <1>1, <1>2, <2>2 DEF Calling, CutOff
    <3> QED BY <1>0, <1>1, <3>1 DEF Progress, Runs, Wait
  <2> QED BY <2>1, <2>2
<1> QED BY <1>3, <1>4, <1>5 DEF IInv

LEMMA ConsumersPreserve ==
  ASSUME IInv, NEW c \in Consumers,
         \/ Deliver(c) \/ Succeed(c) \/ Fail(c)
         \/ LoseRedis(c) \/ Kill(c) \/ StartConsumer(c)
  PROVE  IInv'
<1>0. TypeOK /\ HolderRuns /\ Progress
  BY DEF IInv
<1>1. UNCHANGED <<queued, tick, owner, left, phase, due, pc, outlived, veterans, quiet, redis,
                  outages>>
  BY DEF Deliver, Succeed, Fail, LoseRedis, Kill, StartConsumer, lockVars, workerVars
<1>2. /\ waiting' \in 0..(MaxWaiting + Slack)
      /\ failures' \in 0..MaxFailures
      /\ consumer' \in [Consumers -> {"idle", "executing", "ended"}]
  BY <1>0, NumbersAssumption DEF TypeOK, Deliver, Succeed, Fail, LoseRedis, Kill, StartConsumer
<1>3. TypeOK'
  BY <1>0, <1>1, <1>2 DEF TypeOK
<1>4. HolderRuns'
  BY <1>0, <1>1 DEF HolderRuns
<1>5. Progress'
  BY <1>0, <1>1 DEF Progress, Runs, Wait, Calling, CutOff
<1> QED BY <1>3, <1>4, <1>5 DEF IInv

LEMMA Inductive == IInv /\ [Next]_vars => IInv'
<1> SUFFICES ASSUME IInv, [Next]_vars PROVE IInv'
  OBVIOUS
<1>1. CASE UNCHANGED vars
  BY <1>1 DEF IInv, TypeOK, HolderRuns, Progress, Runs, Wait, Calling, CutOff, vars, lockVars,
     workerVars, queueVars
<1>2. CASE Next
  BY <1>2, TickPreserves, FirePreserves, FinishPreserves, CrashPreserves, RestartPreserves,
     RedisPreserves, ConsumersPreserve DEF Next
<1> QED BY <1>1, <1>2

LEMMA Invariance == Spec => []IInv
<1> QED BY InitEstablishes, Inductive, PTL DEF Spec
-----------------------------------------------------------------------------
\* Every variable keeps its type: no more entries wait than the stream may hold.
THEOREM TypeCorrect == Spec => []TypeOK
<1>1. IInv => TypeOK
  BY DEF IInv
<1> QED BY <1>1, Invariance, PTL

\* Two workers are inside the lock together only when one of them has outlived
\* it, however many workers there are and whoever releases or dies in between.
THEOREM OverlapsExpire == Spec => []OverlapNeedsExpiry
<1>1. IInv => OverlapNeedsExpiry
  BY DEF IInv, HolderRuns, OverlapNeedsExpiry
<1> QED BY <1>1, Invariance, PTL

\* A scheduler that stays up brings the job back within two intervals, for every
\* interval, every number of workers and every pattern of crashes and outages;
\* in queue mode within two intervals of the last leader's death and of the end
\* of the last outage.
THEOREM NeverStops == Spec => []JobNeverStops
<1>1. IInv => JobNeverStops
  BY DEF IInv, Progress, JobNeverStops
<1> QED BY <1>1, Invariance, PTL

-----------------------------------------------------------------------------
(* RiskHalt.                                                               *)

\* Why a sweep does not act twice: as long as the day is not marked, all its
\* flattens of the day but the running one were interrupted.
FlattenInv ==
  \A s \in Sweeps :
    /\ \A d \in Days : d > day => flattens[d][s] = 0
    /\ stage[s] # "flatten" /\ tripped # day => flattens[day][s] <= interrupted[s]

OnlySweepsFlatten == \A e \in Evaluations : stage[e] = "flatten" => e \in Sweeps

RiskInv ==
  /\ RiskTypeOK
  /\ OnlySweepsFlatten
  /\ OneOpeningPerDay
  /\ FlattenInv
  /\ OneFlattenPerSweepAndDay
-----------------------------------------------------------------------------
LEMMA NoneFresh == None \notin Equities /\ None \notin Days
  BY ValuesAssumption, BoundsAssumption DEF Days

LEMMA RiskInitEstablishes == RiskInit => RiskInv
<1> SUFFICES ASSUME RiskInit PROVE RiskInv
  OBVIOUS
<1>1. 0 \in Days
  BY BoundsAssumption DEF Days
<1>2. RiskTypeOK
  <2>1. interrupted \in [Sweeps -> Nat] /\ \A s \in Sweeps : interrupted[s] <= MaxInterrupted[s]
    BY BoundsAssumption DEF RiskInit
  <2>2. saw \in [Evaluations -> [limit : Limits \union {0}, manual : BOOLEAN]]
    BY DEF RiskInit, Unread
  <2>3. flattens \in [Days -> [Sweeps -> Nat]]
    BY DEF RiskInit
  <2> QED BY <1>1, <2>1, <2>2, <2>3 DEF RiskInit, RiskTypeOK
<1>3. OnlySweepsFlatten /\ OneOpeningPerDay
  BY DEF RiskInit, OnlySweepsFlatten, OneOpeningPerDay
<1>4. FlattenInv /\ OneFlattenPerSweepAndDay
  BY <1>1 DEF RiskInit, FlattenInv, OneFlattenPerSweepAndDay
<1> QED BY <1>2, <1>3, <1>4 DEF RiskInv

\* What Done leaves of an evaluation.
LEMMA DoneFacts ==
  ASSUME RiskTypeOK, NEW e \in Evaluations, Done(e)
  PROVE  /\ stage'[e] = "idle"
         /\ \A f \in Evaluations \ {e} :
              stage'[f] = stage[f] /\ opening'[f] = opening[f] /\ today'[f] = today[f]
         /\ stage' \in [Evaluations -> {"idle", "opening", "current", "flatten"}]
         /\ saw' \in [Evaluations -> [limit : Limits \union {0}, manual : BOOLEAN]]
         /\ today' \in [Evaluations -> Days]
         /\ opening' \in [Evaluations -> Equities \union {None}]
<1>1. 0 \in Days
  BY BoundsAssumption DEF Days
<1> QED BY <1>1 DEF RiskTypeOK, Done, Unread

\* A step that leaves the sweeps' history, the day and its mark alone, and after
\* which no evaluation flattens that did not before, keeps the counts.
LEMMA CountsKept ==
  ASSUME RiskInv, UNCHANGED <<day, tripped, historyVars>>,
         \A s \in Sweeps : stage[s] = "flatten" => stage'[s] = "flatten"
  PROVE  FlattenInv' /\ OneFlattenPerSweepAndDay'
  BY DEF RiskInv, FlattenInv, OneFlattenPerSweepAndDay, historyVars

LEMMA BeginPreserves ==
  ASSUME RiskInv, NEW e \in Evaluations, Begin(e)
  PROVE  RiskInv'
<1>0. RiskTypeOK /\ day \in Days
  BY DEF RiskInv, RiskTypeOK
<1>1. RiskTypeOK'
  BY <1>0 DEF RiskTypeOK, Begin, Unread, settingVars, historyVars
<1>2. OnlySweepsFlatten'
  BY <1>0 DEF RiskInv, RiskTypeOK, OnlySweepsFlatten, Begin
<1>3. OneOpeningPerDay'
  BY <1>0 DEF RiskInv, RiskTypeOK, OneOpeningPerDay, Begin
<1>4. \A s \in Sweeps : stage[s] = "flatten" => stage'[s] = "flatten"
  BY <1>0 DEF RiskTypeOK, Begin, Evaluations
<1>5. FlattenInv' /\ OneFlattenPerSweepAndDay'
  BY <1>4, CountsKept DEF Begin, settingVars
<1> QED BY <1>1, <1>2, <1>3, <1>5 DEF RiskInv

LEMMA SnapshotPreserves ==
  ASSUME RiskInv, NEW e \in Evaluations, Snapshot(e)
  PROVE  RiskInv'
<1>0. RiskTypeOK /\ today[e] \in Days /\ equity \in Equities
  BY DEF RiskInv, RiskTypeOK
<1>1. /\ snapshot' \in [Days -> Equities \union {None}]
      /\ snapshot'[today[e]] \in Equities
      /\ \A d \in Days : snapshot[d] # None => snapshot'[d] = snapshot[d]
  BY <1>0, NoneFresh DEF RiskTypeOK, Snapshot
<1>2. RiskTypeOK'
  BY <1>0, <1>1 DEF RiskTypeOK, Snapshot, settingVars, historyVars
<1>3. OnlySweepsFlatten'
  BY <1>0 DEF RiskInv, RiskTypeOK, OnlySweepsFlatten, Snapshot
<1>4. OneOpeningPerDay'
  <2>1. opening'[e] = snapshot'[today[e]] /\ today' = today
    BY <1>0 DEF RiskTypeOK, Snapshot
  <2>2. \A f \in Evaluations \ {e} : stage'[f] = stage[f] /\ opening'[f] = opening[f]
    BY <1>0 DEF RiskTypeOK, Snapshot
  <2>3. \A f \in Evaluations : today[f] \in Days
    BY <1>0 DEF RiskTypeOK
  <2> QED BY <1>1, <2>1, <2>2, <2>3, NoneFresh DEF RiskInv, OneOpeningPerDay
<1>5. \A s \in Sweeps : stage[s] = "flatten" => stage'[s] = "flatten"
  BY <1>0 DEF RiskTypeOK, Snapshot, Evaluations
<1>6. FlattenInv' /\ OneFlattenPerSweepAndDay'
  BY <1>5, CountsKept DEF Snapshot, settingVars
<1> QED BY <1>2, <1>3, <1>4, <1>6 DEF RiskInv

LEMMA VerdictPreserves ==
  ASSUME RiskInv, NEW e \in Evaluations, Verdict(e)
  PROVE  RiskInv'
<1>0. RiskTypeOK /\ Done(e) /\ stage[e] = "current"
  BY DEF RiskInv, Verdict
<1>1. RiskTypeOK'
  BY <1>0, DoneFacts DEF RiskTypeOK, Verdict, settingVars, historyVars
<1>2. OnlySweepsFlatten' /\ OneOpeningPerDay'
  BY <1>0, DoneFacts DEF RiskInv, OnlySweepsFlatten, OneOpeningPerDay, Verdict
<1>3. \A s \in Sweeps : stage[s] = "flatten" => stage'[s] = "flatten"
  BY <1>0, DoneFacts DEF Evaluations
<1>4. FlattenInv' /\ OneFlattenPerSweepAndDay'
  BY <1>3, CountsKept DEF Verdict, settingVars
<1> QED BY <1>1, <1>2, <1>4 DEF RiskInv

LEMMA FlattenPreserves ==
  ASSUME RiskInv, NEW s \in Sweeps, Flatten(s)
  PROVE  RiskInv'
<1>0. RiskTypeOK /\ s \in Evaluations /\ day \in Days /\ tripped # day
  BY DEF RiskInv, RiskTypeOK, Evaluations, Flatten, TrippedToday
<1>1. RiskTypeOK'
  BY <1>0 DEF RiskTypeOK, Flatten, settingVars
<1>2. OnlySweepsFlatten' /\ OneOpeningPerDay'
  BY <1>0 DEF RiskInv, RiskTypeOK, OnlySweepsFlatten, OneOpeningPerDay, Flatten
<1>3. \A d \in Days, t \in Sweeps :
        flattens'[d][t] = IF d = day /\ t = s THEN flattens[d][t] + 1 ELSE flattens[d][t]
  BY <1>0 DEF RiskTypeOK, Flatten
<1>4. /\ UNCHANGED <<day, tripped, interrupted>>
      /\ stage[s] = "current" /\ stage'[s] = "flatten"
      /\ \A t \in Sweeps \ {s} : stage'[t] = stage[t]
  BY <1>0 DEF RiskTypeOK, Flatten, settingVars, Evaluations
<1>5. day \in Int /\ \A d \in Days, t \in Sweeps :
        flattens[d][t] \in Int /\ interrupted[t] \in Int
  BY <1>0, BoundsAssumption DEF RiskTypeOK, Days
<1>6. flattens[day][s] <= interrupted[s]
  BY <1>0, <1>4 DEF RiskInv, FlattenInv
<1>7. FlattenInv'
  BY <1>0, <1>3, <1>4, <1>5 DEF RiskInv, FlattenInv
<1>8. OneFlattenPerSweepAndDay'
  BY <1>0, <1>3, <1>4, <1>5, <1>6 DEF RiskInv, OneFlattenPerSweepAndDay
<1> QED BY <1>1, <1>2, <1>7, <1>8 DEF RiskInv

LEMMA MarkPreserves ==
  ASSUME RiskInv, NEW s \in Sweeps, Mark(s)
  PROVE  RiskInv'
<1>0. RiskTypeOK /\ s \in Evaluations /\ Done(s)
  BY DEF RiskInv, Evaluations, Mark
<1>1. RiskTypeOK'
  BY <1>0, DoneFacts DEF RiskTypeOK, Mark, historyVars
<1>2. OnlySweepsFlatten' /\ OneOpeningPerDay'
  BY <1>0, DoneFacts DEF RiskInv, OnlySweepsFlatten, OneOpeningPerDay, Mark
<1>3. FlattenInv' /\ OneFlattenPerSweepAndDay'
  BY DEF RiskInv, FlattenInv, OneFlattenPerSweepAndDay, Mark, historyVars
<1> QED BY <1>1, <1>2, <1>3 DEF RiskInv

LEMMA AbortPreserves ==
  ASSUME RiskInv, NEW e \in Evaluations, Abort(e)
  PROVE  RiskInv'
<1>0. RiskTypeOK /\ Done(e)
  BY DEF RiskInv, Abort
<1>1. OnlySweepsFlatten' /\ OneOpeningPerDay'
  BY <1>0, DoneFacts DEF RiskInv, OnlySweepsFlatten, OneOpeningPerDay, Abort
<1>2. CASE stage[e] # "flatten"
  <2>1. RiskTypeOK'
    BY <1>0, <1>2, DoneFacts DEF RiskTypeOK, Abort, settingVars
  <2>2. \A s \in Sweeps : stage[s] = "flatten" => stage'[s] = "flatten"
    BY <1>0, <1>2, DoneFacts DEF Evaluations
  <2>3. FlattenInv' /\ OneFlattenPerSweepAndDay'
    BY <1>2, <2>2, CountsKept DEF Abort, settingVars, historyVars
  <2> QED BY <1>1, <2>1, <2>3 DEF RiskInv
<1>3. CASE stage[e] = "flatten"
  <2>1. /\ e \in Sweeps
        /\ interrupted[e] < MaxInterrupted[e]
        /\ interrupted' = [interrupted EXCEPT ![e] = @ + 1]
        /\ UNCHANGED <<day, tripped, flattens>>
    BY <1>3 DEF RiskInv, OnlySweepsFlatten, Abort, settingVars
  <2>2. RiskTypeOK'
    <3>1. /\ interrupted' \in [Sweeps -> Nat]
          /\ \A s \in Sweeps : interrupted'[s] <= MaxInterrupted[s]
      <4>1. \A s \in Sweeps : interrupted[s] \in Nat /\ MaxInterrupted[s] \in Nat
        BY <1>0, BoundsAssumption DEF RiskTypeOK
      <4>2. \A s \in Sweeps :
              interrupted'[s] = IF s = e THEN interrupted[s] + 1 ELSE interrupted[s]
        BY <1>0, <2>1 DEF RiskTypeOK
      <4>3. interrupted' \in [Sweeps -> Nat]
        BY <1>0, <2>1 DEF RiskTypeOK
      <4>4. interrupted[e] + 1 <= MaxInterrupted[e]
        BY <2>1, <4>1
      <4> QED BY <1>0, <4>2, <4>3, <4>4 DEF RiskTypeOK
    <3> QED BY <1>0, <2>1, <3>1, DoneFacts DEF RiskTypeOK, Abort, settingVars
  <2>3. /\ \A s \in Sweeps \ {e} : stage'[s] = stage[s] /\ interrupted'[s] = interrupted[s]
        /\ interrupted'[e] = interrupted[e] + 1
    BY <1>0, <2>1, DoneFacts DEF RiskTypeOK, Evaluations
  <2>4. day \in Days /\ \A d \in Days, s \in Sweeps :
          flattens[d][s] \in Int /\ interrupted[s] \in Int
    BY <1>0 DEF RiskTypeOK
  <2>5. flattens[day][e] <= interrupted'[e]
    BY <2>1, <2>3, <2>4 DEF RiskInv, OneFlattenPerSweepAndDay
  <2>6. FlattenInv'
    BY <2>1, <2>3, <2>4, <2>5 DEF RiskInv, FlattenInv
  <2>7. OneFlattenPerSweepAndDay'
    BY <2>1, <2>3, <2>4 DEF RiskInv, OneFlattenPerSweepAndDay
  <2> QED BY <1>1, <2>2, <2>6, <2>7 DEF RiskInv
<1> QED BY <1>2, <1>3

LEMMA WorldPreserves ==
  ASSUME RiskInv, WorldNext
  PROVE  RiskInv'
<1>1. /\ UNCHANGED <<tripped, snapshot, evalVars, historyVars>>
      /\ UNCHANGED day \/ DayPasses
  BY DEF WorldNext, SetConfig, SetManualHalt, EquityMoves, DayPasses, settingVars
<1>2. day' \in Days /\ day' >= day
  BY <1>1, BoundsAssumption DEF RiskInv, RiskTypeOK, Days, DayPasses
<1>3. RiskTypeOK'
  BY <1>1, <1>2 DEF RiskInv, RiskTypeOK, WorldNext, SetConfig, SetManualHalt, EquityMoves,
     DayPasses, settingVars, evalVars, historyVars
<1>4. OnlySweepsFlatten' /\ OneOpeningPerDay' /\ OneFlattenPerSweepAndDay'
  BY <1>1 DEF RiskInv, OnlySweepsFlatten, OneOpeningPerDay, OneFlattenPerSweepAndDay,
     evalVars, historyVars
<1>5. FlattenInv'
  <2>1. CASE UNCHANGED day
    BY <1>1, <2>1 DEF RiskInv, FlattenInv, evalVars, historyVars
  <2>2. CASE DayPasses
    <3>1. /\ day' = day + 1 /\ day \in Int /\ day' \in Days
          /\ \A d \in Days : d \in Int
          /\ \A s \in Sweeps : interrupted[s] >= 0
      BY <1>2, <2>2, BoundsAssumption DEF RiskInv, RiskTypeOK, Days, DayPasses
    <3>2. \A s \in Sweeps : flattens[day'][s] = 0
      BY <3>1 DEF RiskInv, FlattenInv
    <3> QED BY <1>1, <3>1, <3>2 DEF RiskInv, FlattenInv, historyVars
  <2> QED BY <1>1, <2>1, <2>2
<1> QED BY <1>3, <1>4, <1>5 DEF RiskInv

LEMMA NextPreserves == RiskInv /\ [RiskNext]_riskVars => RiskInv'
<1> SUFFICES ASSUME RiskInv, [RiskNext]_riskVars PROVE RiskInv'
  OBVIOUS
<1>1. ASSUME NEW e \in Evaluations, Evaluates(e) PROVE RiskInv'
  BY <1>1, BeginPreserves, SnapshotPreserves, VerdictPreserves, AbortPreserves
     DEF Evaluates
<1>2. ASSUME NEW s \in Sweeps, Acts(s) PROVE RiskInv'
  BY <1>2, FlattenPreserves, MarkPreserves DEF Acts
<1>3. CASE WorldNext
  BY <1>3, WorldPreserves
<1>4. CASE UNCHANGED riskVars
  BY <1>4 DEF RiskInv, RiskTypeOK, OnlySweepsFlatten, OneOpeningPerDay, FlattenInv,
     OneFlattenPerSweepAndDay, riskVars, settingVars, evalVars, historyVars
<1> QED BY <1>1, <1>2, <1>3, <1>4 DEF RiskNext
-----------------------------------------------------------------------------
\* The inductive invariant holds throughout.
THEOREM RiskInvariance == RiskSpec => []RiskInv
  BY RiskInitEstablishes, NextPreserves, PTL DEF RiskSpec

\* Every variable keeps its type.
THEOREM RiskTypeCorrect == RiskSpec => []RiskTypeOK
<1>1. RiskInv => RiskTypeOK
  BY DEF RiskInv
<1> QED BY <1>1, RiskInvariance, PTL

\* Racing evaluations never compare with different openings of one day
\* (ensure_daily_snapshot and the unique constraint it relies on).
THEOREM OneOpening == RiskSpec => []OneOpeningPerDay
<1>1. RiskInv => OneOpeningPerDay
  BY DEF RiskInv
<1> QED BY <1>1, RiskInvariance, PTL

\* No step rewrites the opening equity of a day (ensure_daily_snapshot).
THEOREM OpeningKept == RiskSpec => OpeningIsFinal
<1>1. RiskInv /\ [RiskNext]_riskVars =>
        [\A d \in Days : snapshot[d] # None => snapshot'[d] = snapshot[d]]_riskVars
  <2> SUFFICES ASSUME RiskInv, RiskNext
               PROVE  \A d \in Days : snapshot[d] # None => snapshot'[d] = snapshot[d]
    OBVIOUS
  <2>1. ASSUME NEW e \in Evaluations, Snapshot(e)
        PROVE  \A d \in Days : snapshot[d] # None => snapshot'[d] = snapshot[d]
    BY <2>1 DEF RiskInv, RiskTypeOK, Snapshot
  <2>2. (\E e \in Evaluations : Snapshot(e)) \/ UNCHANGED snapshot
    BY DEF RiskNext, Evaluates, Acts, WorldNext, Begin, Verdict, Abort, Flatten, Mark,
       SetConfig, SetManualHalt, EquityMoves, DayPasses
  <2> QED BY <2>1, <2>2
<1> QED BY <1>1, RiskInvariance, PTL DEF RiskSpec, OpeningIsFinal

\* A sweep flattens once a day, plus once for every flatten it could not mark
\* (_evaluate_one_account, already_tripped_today, mark_auto_halt_tripped).
THEOREM FlattenOnce == RiskSpec => []OneFlattenPerSweepAndDay
<1>1. RiskInv => OneFlattenPerSweepAndDay
  BY DEF RiskInv
<1> QED BY <1>1, RiskInvariance, PTL
=============================================================================
