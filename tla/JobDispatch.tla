---------------------------- MODULE JobDispatch -----------------------------
(***************************************************************************)
(* How one scheduled job is kept from running twice, and from not running. *)
(*                                                                         *)
(* Every API worker has a scheduler of its own that fires the job once per *)
(* interval, at a phase set by when the worker was started.  A Redis lock  *)
(* with a time to live decides who runs it.  With the worker queue enabled *)
(* running the job means adding it to a stream of the same Redis, and      *)
(* consumers run it from there.  Time is counted in ticks, modulo the      *)
(* interval.                                                               *)
(***************************************************************************)
EXTENDS Naturals, FiniteSets

CONSTANTS
  Workers,      \* API worker processes, each with its scheduler
  Consumers,    \* run_worker processes of the queue
  Nobody,       \* the lock is free
  Interval,     \* ticks between two firings of one scheduler
  MaxWaiting,   \* maxlen of the stream
  Slack,        \* entries an approximate trim may leave beyond maxlen
  MaxFailures,  \* bound: tasks that raise, and consumers that are killed
  MaxCrashes,   \* bound: API workers that die
  MaxOutages    \* bound: times Redis becomes unreachable

ASSUME NobodyAssumption == Nobody \notin Workers
ASSUME NumbersAssumption ==
  /\ Interval \in Nat /\ Interval > 1
  /\ MaxWaiting \in Nat \ {0}
  /\ Slack \in Nat
  /\ MaxFailures \in Nat
  /\ MaxCrashes \in Nat
  /\ MaxOutages \in Nat

VARIABLES
  queued,    \* settings.worker_queue_enabled
  tick,      \* the time, modulo Interval
  phase,     \* the tick at which each worker's scheduler fires
  due,       \* the worker's scheduler has to fire at this tick
  pc,        \* what each API worker does
  owner,     \* whose token is in the lock
  left,      \* ticks until the lock expires
  outlived,  \* running workers whose lock has expired under them
  quiet,     \* ticks since the job last ran, or was put on the stream
  redis,     \* Redis answers
  veterans,  \* workers that have been up from the start
  waiting,   \* entries of the stream not yet delivered
  consumer,  \* what each consumer does
  failures,  \* tasks that have raised and consumers that were killed
  outages    \* times Redis has become unreachable

lockVars == <<owner, left>>
workerVars == <<phase, due, pc, outlived, veterans>>
queueVars == <<waiting, consumer, failures>>
vars == <<queued, tick, lockVars, workerVars, quiet, redis, queueVars, outages>>

MinOf(a, b) == IF a <= b THEN a ELSE b
MaxOf(a, b) == IF a >= b THEN a ELSE b

\* A plausible bug: a lock that outlives its interval.
LockTtlLong == 2 * Interval

\* _lock_ttl: nine tenths of the interval, less than it, at least one.
LockTtl == MaxOf(1, MinOf(Interval - 1, (Interval * 9) \div 10))

Longest == 2 * Interval

\* The job is under way on w.  In queue mode the job is one call of xadd.
Runs(w) == pc[w] \in {"running", "unguarded"}

\* The job needs a Redis that does not answer.
CutOff == queued /\ ~redis
-----------------------------------------------------------------------------
(* The scheduler and the lock.                                             *)

\* Time passes once every scheduler has fired that had to.  An xadd ends within
\* the tick when Redis answers.  Nothing is expected of a job that is cut off:
\* its quiet time counts from the end of the outage.
Tick ==
  LET now == IF tick + 1 = Interval THEN 0 ELSE tick + 1
  IN /\ \A w \in Workers : ~due[w]
     /\ queued /\ redis => \A w \in Workers : ~Runs(w)
     /\ tick' = now
     /\ due' = [w \in Workers |-> pc[w] # "dead" /\ phase[w] = now]
     /\ left' = IF left = 0 THEN 0 ELSE left - 1
     /\ owner' = IF left <= 1 THEN Nobody ELSE owner
     /\ outlived' = IF left = 1 THEN outlived \union {w \in {owner} : pc[w] = "running"}
                    ELSE outlived
     /\ quiet' = IF CutOff \/ \E w \in Workers : Runs(w) THEN 0
                 ELSE MinOf(quiet + 1, Longest)
     /\ UNCHANGED <<queued, phase, pc, veterans, redis, queueVars, outages>>

\* The job starts on worker w.  In queue mode nothing has run yet.
Starts(w, how) ==
  /\ pc' = [pc EXCEPT ![w] = how]
  /\ quiet' = IF queued THEN quiet ELSE 0

\* A plausible bug: a Redis that does not answer drops the job.
FireFailClosed(w) ==
  /\ due[w]
  /\ due' = [due EXCEPT ![w] = FALSE]
  /\ \/ pc[w] = "idle" /\ redis /\ owner = Nobody /\ Starts(w, "running")
        /\ owner' = w /\ left' = LockTtl
     \/ Runs(w) /\ UNCHANGED <<pc, quiet, lockVars>>
     \/ pc[w] = "idle" /\ (~redis \/ owner # Nobody) /\ UNCHANGED <<pc, quiet, lockVars>>
  /\ UNCHANGED <<queued, tick, phase, outlived, veterans, redis, queueVars, outages>>

\* The interval has elapsed on worker w.
Fire(w) ==
  /\ due[w]
  /\ due' = [due EXCEPT ![w] = FALSE]
  /\ \/ \* max_instances=1: the previous run has not ended
        Runs(w) /\ UNCHANGED <<pc, quiet, lockVars>>
     \/ \* the lock is free
        /\ pc[w] = "idle" /\ redis /\ owner = Nobody
        /\ owner' = w /\ left' = LockTtl
        /\ Starts(w, "running")
     \/ \* held elsewhere: this sweep is skipped
        pc[w] = "idle" /\ redis /\ owner # Nobody /\ UNCHANGED <<pc, quiet, lockVars>>
     \/ \* Redis does not answer: fail open.  In queue mode the job goes to
        \* that same Redis, see Finish
        pc[w] = "idle" /\ ~redis /\ Starts(w, "unguarded") /\ UNCHANGED lockVars
  /\ UNCHANGED <<queued, tick, phase, outlived, veterans, redis, queueVars, outages>>

\* A plausible bug: the lock is deleted whoever's token it holds.
ReleasesAny(w) == pc[w] = "running" /\ redis

\* lock.release() deletes the lock only under the worker's own token; the
\* error it raises otherwise is swallowed.
Releases(w) == pc[w] = "running" /\ redis /\ owner = w

\* A plausible bug: the stream is never trimmed.
Untrimmed(n) == {n}

\* What is left of n entries to be delivered once the stream is trimmed to about
\* maxlen, the oldest first.
Trimmed(n) == {k \in MinOf(n, MaxWaiting)..n : k <= MaxWaiting + Slack}

\* The job has returned or raised on worker w.  In queue mode it has added an
\* entry to the stream, unless Redis does not answer: then xadd raises, and
\* nothing runs.
Finish(w) ==
  /\ Runs(w)
  /\ pc' = [pc EXCEPT ![w] = "idle"]
  /\ outlived' = outlived \ {w}
  /\ IF Releases(w) THEN owner' = Nobody /\ left' = 0 ELSE UNCHANGED lockVars
  /\ IF queued /\ redis THEN waiting' \in Trimmed(waiting + 1) /\ quiet' = 0
     ELSE UNCHANGED <<waiting, quiet>>
  /\ UNCHANGED <<queued, tick, phase, due, veterans, redis, consumer, failures, outages>>

\* The process of w dies.  When that takes a run with it, the job is expected
\* again within the time that counts from here.
Crash(w) ==
  /\ pc[w] # "dead"
  /\ Cardinality(Workers \ veterans) < MaxCrashes
  /\ w \in veterans
  /\ veterans' = veterans \ {w}
  /\ pc' = [pc EXCEPT ![w] = "dead"]
  /\ due' = [due EXCEPT ![w] = FALSE]
  /\ outlived' = outlived \ {w}
  /\ quiet' = IF Runs(w) THEN 0 ELSE quiet
  /\ UNCHANGED <<queued, tick, lockVars, phase, redis, queueVars, outages>>

\* A new process: its scheduler fires one interval from now.
Restart(w) ==
  /\ pc[w] = "dead"
  /\ pc' = [pc EXCEPT ![w] = "idle"]
  /\ phase' = [phase EXCEPT ![w] = tick]
  /\ UNCHANGED <<queued, tick, lockVars, due, outlived, veterans, quiet, redis, queueVars,
                 outages>>

RedisFails ==
  /\ redis
  /\ outages < MaxOutages
  /\ redis' = FALSE
  /\ outages' = outages + 1
  /\ quiet' = IF queued THEN 0 ELSE quiet
  /\ UNCHANGED <<queued, tick, lockVars, workerVars, queueVars>>

RedisReturns ==
  /\ ~redis
  /\ redis' = TRUE
  /\ UNCHANGED <<queued, tick, lockVars, workerVars, quiet, queueVars, outages>>
-----------------------------------------------------------------------------
(* The consumers of the stream.                                            *)

\* xreadgroup with ">": an entry that no consumer has been given.
Deliver(c) ==
  /\ consumer[c] = "idle"
  /\ redis
  /\ waiting > 0
  /\ waiting' = waiting - 1
  /\ consumer' = [consumer EXCEPT ![c] = "executing"]
  /\ UNCHANGED <<queued, tick, lockVars, workerVars, quiet, redis, failures, outages>>

\* The handler returns, and the entry is acknowledged.
Succeed(c) ==
  /\ consumer[c] = "executing"
  /\ redis
  /\ consumer' = [consumer EXCEPT ![c] = "idle"]
  /\ UNCHANGED <<queued, tick, lockVars, workerVars, quiet, redis, waiting, failures, outages>>

\* A plausible bug: the exception of a task ends the consumer's loop.
FailFatal(c) ==
  /\ consumer[c] = "executing"
  /\ failures < MaxFailures
  /\ failures' = failures + 1
  /\ consumer' = [consumer EXCEPT ![c] = "gone"]
  /\ UNCHANGED <<queued, tick, lockVars, workerVars, quiet, redis, waiting, outages>>

\* The handler raises ("leave pending"): the loop goes on, without the entry.
Fail(c) ==
  /\ consumer[c] = "executing"
  /\ failures < MaxFailures
  /\ failures' = failures + 1
  /\ consumer' = [consumer EXCEPT ![c] = "idle"]
  /\ UNCHANGED <<queued, tick, lockVars, workerVars, quiet, redis, waiting, outages>>

\* xreadgroup or xack raises: neither is in a try, so run_worker ends, and its
\* process with it.  An entry being executed stays pending.
LoseRedis(c) ==
  /\ consumer[c] # "ended"
  /\ ~redis
  /\ consumer' = [consumer EXCEPT ![c] = "ended"]
  /\ UNCHANGED <<queued, tick, lockVars, workerVars, quiet, redis, waiting, failures, outages>>

\* The process of the consumer is killed.
Kill(c) ==
  /\ consumer[c] # "ended"
  /\ failures < MaxFailures
  /\ failures' = failures + 1
  /\ consumer' = [consumer EXCEPT ![c] = "ended"]
  /\ UNCHANGED <<queued, tick, lockVars, workerVars, quiet, redis, waiting, outages>>

\* Somebody starts scripts/worker.py again; nothing in the repository does.  The
\* consumer has another name, so what was pending stays with the old one.
StartConsumer(c) ==
  /\ consumer[c] = "ended"
  /\ redis
  /\ consumer' = [consumer EXCEPT ![c] = "idle"]
  /\ UNCHANGED <<queued, tick, lockVars, workerVars, quiet, redis, waiting, failures, outages>>
-----------------------------------------------------------------------------
Init ==
  /\ queued \in BOOLEAN
  /\ tick = 0
  /\ phase \in [Workers -> 0..(Interval - 1)]
  /\ due = [w \in Workers |-> phase[w] = 0]
  /\ pc = [w \in Workers |-> "idle"]
  /\ owner = Nobody
  /\ left = 0
  /\ outlived = {}
  /\ quiet = Interval
  /\ redis = TRUE
  /\ veterans = Workers
  /\ waiting = 0
  /\ consumer = [c \in Consumers |-> "idle"]
  /\ failures = 0
  /\ outages = 0

Next ==
  \/ Tick
  \/ \E w \in Workers : Fire(w) \/ Finish(w) \/ Crash(w) \/ Restart(w)
  \/ \E c \in Consumers : \/ Deliver(c) \/ Succeed(c) \/ Fail(c)
                         \/ LoseRedis(c) \/ Kill(c) \/ StartConsumer(c)
  \/ RedisFails
  \/ RedisReturns

\* A consumer asks xreadgroup again and again until it is given an entry,
\* handlers end, and an outage of Redis does.  Nobody has to start a consumer
\* that has ended.
Fairness ==
  /\ WF_vars(RedisReturns)
  /\ \A c \in Consumers : WF_vars(Deliver(c)) /\ WF_vars(Succeed(c) \/ Fail(c))

Spec == Init /\ [][Next]_vars
FairSpec == Spec /\ Fairness
-----------------------------------------------------------------------------
(* Properties.                                                             *)

\* Every variable has its type; no more entries wait than the stream may hold.
TypeOK ==
  /\ queued \in BOOLEAN
  /\ tick \in 0..(Interval - 1)
  /\ phase \in [Workers -> 0..(Interval - 1)]
  /\ due \in [Workers -> BOOLEAN]
  /\ pc \in [Workers -> {"idle", "running", "unguarded", "dead"}]
  /\ owner \in Workers \union {Nobody}
  /\ left \in 0..LockTtl
  /\ outlived \subseteq {w \in Workers : pc[w] = "running"}
  /\ quiet \in 0..Longest
  /\ redis \in BOOLEAN
  /\ veterans \subseteq Workers
  /\ waiting \in 0..(MaxWaiting + Slack)
  /\ consumer \in [Consumers -> {"idle", "executing", "ended"}]
  /\ failures \in 0..MaxFailures
  /\ outages \in 0..MaxOutages

\* Two workers run the job under the lock at once only if one of them has
\* outlived its lock: an expired holder that ends late, or one that died,
\* never lets a third worker in beside the one that holds the lock now.
OverlapNeedsExpiry ==
  \A v, w \in Workers :
    pc[v] = "running" /\ pc[w] = "running" /\ v # w =>
      v \in outlived \/ w \in outlived

\* As long as one scheduler stays up, the job runs again within two intervals,
\* whoever died holding the lock and whenever Redis did not answer
\* (build_scheduler: "a crashed leader never deadlocks the job").  In queue mode
\* it is on the stream again within two intervals of the leader's death or of
\* the end of the outage: until then, failing open drops it.
JobNeverStops == veterans # {} => quiet < Longest

\* A task that fails does not stop the queue, nor does a consumer that dies while
\* another lives: what waits is taken, or something is being executed, again and
\* again, unless every consumer has ended and nobody has started one.
QueueMoves ==
  []<>(\/ waiting = 0
       \/ \E c \in Consumers : consumer[c] = "executing"
       \/ \A c \in Consumers : consumer[c] = "ended")
=============================================================================
