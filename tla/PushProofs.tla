----------------------------- MODULE PushProofs -----------------------------
(***************************************************************************)
(* Theorems about Delivery, WebClient and AlertSweep, for every set of     *)
(* workers, sockets, timers, frames, alerts and users and every number of  *)
(* faults and sweeps; and about the three side by side.                    *)
(***************************************************************************)
EXTENDS MCPush, Integers, FiniteSetTheorems, TLAPS

(* Delivery.                                                               *)

\* The sockets whose INCR is behind them or will never come.
Backed == {s \in Counted : pc[s] # "incr"}

\* The count is backed by sockets, unless a fault or an early prune has left it high.
CountIsBacked == leaks = {} => Value <= Cardinality(Backed)

\* What a frame owes a socket that has stayed up: a way to it, the frame on its
\* way, or the frame itself.
Owes(f, s) ==
  /\ Up(s)
  /\ stage[f] = "publish" => sub[sender[f]] # "local" \/ serving[s] = sender[f]
  /\ stage[f] \in {"presence", "done"} => f \in channel[serving[s]] \/ s \in got[f]

SteadyIsOwed == \A f \in Frames : \A s \in steady[f] : Owes(f, s)

DeliveryInv == DeliveryTypeOK /\ CountIsBacked /\ AbsentUserIsTold /\ SteadyIsOwed
-----------------------------------------------------------------------------
(* What the history variables say after a step.                            *)

LEMMA WatchTypes ==
  ASSUME DeliveryTypeOK, Watch
  PROVE  steady' \in [Frames -> SUBSET Sockets] /\ alone' \subseteq Frames
<1>1. \A f \in Frames : steady[f] \subseteq Sockets
  BY DEF DeliveryTypeOK
<1>2. \A f \in Frames :
        (IF stage'[f] \in {"idle", "lost"} THEN {}
         ELSE IF stage[f] = "idle" THEN {s \in Sockets : Reachable(s, sender'[f])}
         ELSE {s \in steady[f] : Up(s)'}) \in SUBSET Sockets
  BY <1>1
<1> QED BY <1>2 DEF Watch

LEMMA SteadyStep ==
  ASSUME DeliveryTypeOK, Watch, NEW f \in Frames, NEW s \in steady'[f]
  PROVE  /\ s \in Sockets /\ stage'[f] \notin {"idle", "lost"}
         /\ \/ stage[f] = "idle" /\ Reachable(s, sender'[f])
            \/ stage[f] # "idle" /\ s \in steady[f] /\ Up(s)'
<1>1. steady[f] \subseteq Sockets
  BY DEF DeliveryTypeOK
<1>2. steady'[f] = IF stage'[f] \in {"idle", "lost"} THEN {}
                   ELSE IF stage[f] = "idle" THEN {x \in Sockets : Reachable(x, sender'[f])}
                   ELSE {x \in steady[f] : Up(x)'}
  BY DEF Watch
<1> QED BY <1>1, <1>2

LEMMA AloneStep ==
  ASSUME Watch, NEW f \in alone'
  PROVE  f \in Frames /\ stage'[f] # "idle" /\ Nobody' /\ (stage[f] = "idle" \/ f \in alone)
<1> QED BY DEF Watch

\* A step that moves no frame and takes no socket that is up to another worker
\* keeps what is owed.
LEMMA OwedThroughSockets ==
  ASSUME DeliveryTypeOK, SteadyIsOwed, Watch, UNCHANGED <<busVars, frameVars>>,
         \A s \in Sockets : pc[s] = "live" /\ pc'[s] = "live" => serving'[s] = serving[s]
  PROVE  SteadyIsOwed'
<1> SUFFICES ASSUME NEW f \in Frames, NEW s \in steady'[f] PROVE Owes(f, s)'
  BY DEF SteadyIsOwed
<1>1. /\ UNCHANGED <<redis, sub, channel, stage, sender, got>>
  BY DEF busVars, frameVars
<1>2. s \in Sockets /\ s \in steady[f] /\ Up(s)' /\ stage[f] # "idle"
  BY <1>1, SteadyStep
<1>3. Owes(f, s)
  BY <1>2 DEF SteadyIsOwed
<1>4. serving'[s] = serving[s]
  BY <1>2, <1>3 DEF Owes, Up
<1> QED BY <1>1, <1>2, <1>3, <1>4 DEF Owes

\* A step that finishes no frame tells nobody and need not.
LEMMA AloneThroughSockets ==
  ASSUME AbsentUserIsTold, Watch, UNCHANGED told, leaks \subseteq leaks',
         \A f \in Frames : stage'[f] = "done" => stage[f] = "done",
         Critical \subseteq Frames
  PROVE  AbsentUserIsTold'
<1> SUFFICES ASSUME NEW f \in Critical, stage'[f] = "done", f \in alone', leaks' = {}
             PROVE  f \in told'
  BY DEF AbsentUserIsTold
<1>1. stage[f] = "done" /\ f \in alone
  BY AloneStep
<1> QED BY <1>1 DEF AbsentUserIsTold

LEMMA BackedIsFinite ==
  ASSUME DeliveryTypeOK
  PROVE  IsFiniteSet(Backed) /\ Cardinality(Backed) \in Nat
<1>1. Backed \subseteq Sockets
  BY DEF Backed, Counted, DeliveryTypeOK
<1> QED BY <1>1, SocketsAssumption, FS_Subset, FS_CardinalityType

LEMMA ValueIsInt ==
  ASSUME DeliveryTypeOK
  PROVE  Value \in Int
<1> QED BY DEF DeliveryTypeOK, Value

\* A larger set backs the same count, or one that has expired.
LEMMA BackedBySuperset ==
  ASSUME DeliveryTypeOK, DeliveryTypeOK', CountIsBacked, leaks \subseteq leaks',
         count' \in {count, None},
         leaks' = {} => Backed \subseteq Backed'
  PROVE  CountIsBacked'
<1> SUFFICES ASSUME leaks' = {} PROVE Value' <= Cardinality(Backed')
  BY DEF CountIsBacked
<1>1. Cardinality(Backed) <= Cardinality(Backed')
  <2>1. IsFiniteSet(Backed') /\ Backed \subseteq Backed'
    <3>1. Backed' \subseteq Sockets
      BY DEF Backed, Counted, DeliveryTypeOK
    <3> QED BY <3>1, SocketsAssumption, FS_Subset
  <2> QED BY <2>1, FS_Subset
<1>2. Value <= Cardinality(Backed) /\ Value \in Int /\ Cardinality(Backed) \in Nat
  BY ValueIsInt, BackedIsFinite DEF CountIsBacked
<1>3. Cardinality(Backed') \in Nat
  <2>1. Backed' \subseteq Sockets
    BY DEF Backed, Counted, DeliveryTypeOK
  <2> QED BY <2>1, SocketsAssumption, FS_Subset, FS_CardinalityType
<1>4. Value' \in {Value, 0}
  BY NoneAssumption DEF Value
<1> QED BY <1>1, <1>2, <1>3, <1>4
-----------------------------------------------------------------------------
LEMMA DeliveryInitHolds ==
  DeliveryInit => DeliveryInv
<1> SUFFICES ASSUME DeliveryInit PROVE DeliveryInv
  OBVIOUS
<1>1. DeliveryTypeOK
  <2>1. serving \in [Sockets -> Workers \union {None}] /\ sender \in [Frames -> Workers \union {None}]
    BY DEF DeliveryInit
  <2>2. /\ pc \in [Sockets -> {"off", "incr", "expire", "live"}]
        /\ removal \in [Sockets -> {"none", "decr", "delete"}]
        /\ sub \in [Workers -> {"local", "listening", "ended"}]
        /\ stage \in [Frames -> {"idle", "publish", "presence", "done", "lost"}]
    BY DEF DeliveryInit, Subscriber
  <2>3. /\ channel \in [Workers -> SUBSET Frames] /\ got \in [Frames -> SUBSET Sockets]
        /\ steady \in [Frames -> SUBSET Sockets]
    BY DEF DeliveryInit
  <2>4. faults \in 0..MaxFaults
    BY BoundAssumption DEF DeliveryInit
  <2> QED BY <2>1, <2>2, <2>3, <2>4 DEF DeliveryInit, DeliveryTypeOK
<1>2. CountIsBacked
  BY <1>1, BackedIsFinite DEF DeliveryInit, CountIsBacked, Value
<1>3. AbsentUserIsTold /\ SteadyIsOwed
  BY SetsAssumption DEF DeliveryInit, AbsentUserIsTold, SteadyIsOwed
<1> QED BY <1>1, <1>2, <1>3 DEF DeliveryInv

LEMMA ConnectKeeps ==
  ASSUME DeliveryInv, Watch, NEW s \in Sockets, NEW w \in Workers, Connect(s, w)
  PROVE  DeliveryInv'
<1>1. /\ pc[s] = "off" /\ removal[s] = "none" /\ w \notin Offline
      /\ serving' = [serving EXCEPT ![s] = w] /\ pc' = [pc EXCEPT ![s] = "incr"]
      /\ alive' = alive \union {s} /\ active' = active \union {s}
      /\ UNCHANGED <<removal, count, ttl, leaks, busVars, frameVars>>
  BY DEF Connect, Free, countVars
<1>2. UNCHANGED <<redis, sub, channel, faults, stage, sender, got, told>>
  BY <1>1 DEF busVars, frameVars
<1>3. DeliveryTypeOK'
  BY <1>1, <1>2, WatchTypes DEF DeliveryInv, DeliveryTypeOK
<1>4. Backed \subseteq Backed'
  BY <1>1 DEF DeliveryInv, DeliveryTypeOK, Backed, Counted
<1>5. CountIsBacked'
  BY <1>1, <1>3, <1>4, BackedBySuperset DEF DeliveryInv
<1>6. AbsentUserIsTold'
  BY <1>1, <1>2, AloneThroughSockets, SetsAssumption DEF DeliveryInv
<1>7. SteadyIsOwed'
  <2>1. \A x \in Sockets : pc[x] = "live" => serving'[x] = serving[x]
    BY <1>1 DEF DeliveryInv, DeliveryTypeOK
  <2> QED BY <1>1, <2>1, OwedThroughSockets DEF DeliveryInv
<1> QED BY <1>3, <1>5, <1>6, <1>7 DEF DeliveryInv

LEMMA IncrKeeps ==
  ASSUME DeliveryInv, Watch, NEW s \in Sockets, Incr(s)
  PROVE  DeliveryInv'
<1>1. /\ pc[s] = "incr" /\ pc' = [pc EXCEPT ![s] = IF redis THEN "expire" ELSE "live"]
      /\ count' = IF redis THEN Value + 1 ELSE count
      /\ leaks' = IF redis /\ s \notin active /\ removal[s] # "decr"
                    THEN leaks \union {"early"} ELSE leaks
      /\ UNCHANGED <<serving, alive, active, removal, ttl, busVars, frameVars>>
  BY DEF Incr
<1>2. UNCHANGED <<redis, sub, channel, faults, stage, sender, got, told>>
  BY <1>1 DEF busVars, frameVars
<1>3. DeliveryTypeOK'
  <2>1. pc' \in [Sockets -> {"off", "incr", "expire", "live"}]
        /\ \A x \in active : pc'[x] # "off"
    BY <1>1 DEF DeliveryInv, DeliveryTypeOK
  <2>2. count' \in Int \union {None} /\ leaks' \subseteq {"early", "outage", "crash"}
    BY <1>1, ValueIsInt DEF DeliveryInv, DeliveryTypeOK
  <2> QED BY <1>1, <1>2, <2>1, <2>2, WatchTypes DEF DeliveryInv, DeliveryTypeOK
<1>4. s \notin Backed /\ Backed \subseteq Backed'
  BY <1>1 DEF DeliveryInv, DeliveryTypeOK, Backed, Counted
<1>5. CountIsBacked'
  <2>1. CASE ~redis
    BY <1>1, <1>3, <1>4, <2>1, BackedBySuperset DEF DeliveryInv
  <2>2. CASE redis
    <3> SUFFICES ASSUME leaks' = {} PROVE Value' <= Cardinality(Backed')
      BY DEF CountIsBacked
    <3>1. leaks = {} /\ (s \in active \/ removal[s] = "decr")
      BY <1>1, <2>2
    <3>2. Backed' = Backed \union {s}
      BY <1>1, <2>2, <3>1 DEF DeliveryInv, DeliveryTypeOK, Backed, Counted
    <3>3. Cardinality(Backed') = Cardinality(Backed) + 1
      BY <3>2, <1>4, BackedIsFinite, FS_AddElement DEF DeliveryInv
    <3>4. Value <= Cardinality(Backed) /\ Value \in Int /\ Cardinality(Backed) \in Nat
      BY <3>1, ValueIsInt, BackedIsFinite DEF DeliveryInv, CountIsBacked
    <3>5. Value' = Value + 1
      BY <1>1, <2>2, <3>4, NoneAssumption DEF Value
    <3> QED BY <3>3, <3>4, <3>5
  <2> QED BY <2>1, <2>2
<1>6. AbsentUserIsTold'
  BY <1>1, <1>2, AloneThroughSockets, SetsAssumption DEF DeliveryInv
<1>7. SteadyIsOwed'
  BY <1>1, OwedThroughSockets DEF DeliveryInv
<1> QED BY <1>3, <1>5, <1>6, <1>7 DEF DeliveryInv

LEMMA ExpireKeeps ==
  ASSUME DeliveryInv, Watch, NEW s \in Sockets, Expire(s)
  PROVE  DeliveryInv'
<1>1. /\ pc[s] = "expire" /\ pc' = [pc EXCEPT ![s] = "live"]
      /\ ttl' = (ttl \/ (redis /\ count # None))
      /\ UNCHANGED <<serving, alive, active, removal, count, leaks, busVars, frameVars>>
  BY DEF Expire
<1>2. UNCHANGED <<redis, sub, channel, faults, stage, sender, got, told>>
  BY <1>1 DEF busVars, frameVars
<1>3. DeliveryTypeOK'
  <2>1. pc' \in [Sockets -> {"off", "incr", "expire", "live"}]
        /\ \A x \in active : pc'[x] # "off"
    BY <1>1 DEF DeliveryInv, DeliveryTypeOK
  <2>2. ttl' \in BOOLEAN
    BY <1>1
  <2> QED BY <1>1, <1>2, <2>1, <2>2, WatchTypes DEF DeliveryInv, DeliveryTypeOK
<1>4. Backed \subseteq Backed'
  BY <1>1 DEF DeliveryInv, DeliveryTypeOK, Backed, Counted
<1>5. CountIsBacked'
  BY <1>1, <1>3, <1>4, BackedBySuperset DEF DeliveryInv
<1>6. AbsentUserIsTold'
  BY <1>1, <1>2, AloneThroughSockets, SetsAssumption DEF DeliveryInv
<1>7. SteadyIsOwed'
  BY <1>1, OwedThroughSockets DEF DeliveryInv
<1> QED BY <1>3, <1>5, <1>6, <1>7 DEF DeliveryInv

LEMMA TtlExpiresKeeps ==
  ASSUME DeliveryInv, Watch, TtlExpires
  PROVE  DeliveryInv'
<1>1. /\ count' = None /\ ttl' = FALSE
      /\ UNCHANGED <<serving, pc, alive, active, removal, leaks, busVars, frameVars>>
  BY DEF TtlExpires, socketVars
<1>2. UNCHANGED <<redis, sub, channel, faults, stage, sender, got, told>>
  BY <1>1 DEF busVars, frameVars
<1>3. DeliveryTypeOK'
  BY <1>1, <1>2, WatchTypes DEF DeliveryInv, DeliveryTypeOK
<1>4. Backed = Backed'
  BY <1>1 DEF Backed, Counted
<1>5. CountIsBacked'
  BY <1>1, <1>3, <1>4, BackedBySuperset DEF DeliveryInv
<1>6. AbsentUserIsTold'
  BY <1>1, <1>2, AloneThroughSockets, SetsAssumption DEF DeliveryInv
<1>7. SteadyIsOwed'
  BY <1>1, OwedThroughSockets DEF DeliveryInv
<1> QED BY <1>3, <1>5, <1>6, <1>7 DEF DeliveryInv

LEMMA ClientLeavesKeeps ==
  ASSUME DeliveryInv, Watch, NEW s \in Sockets, ClientLeaves(s)
  PROVE  DeliveryInv'
<1>1. /\ alive' = alive \ {s}
      /\ UNCHANGED <<serving, pc, active, removal, count, ttl, leaks, busVars, frameVars>>
  BY DEF ClientLeaves, countVars
<1>2. UNCHANGED <<redis, sub, channel, faults, stage, sender, got, told>>
  BY <1>1 DEF busVars, frameVars
<1>3. DeliveryTypeOK'
  BY <1>1, <1>2, WatchTypes DEF DeliveryInv, DeliveryTypeOK
<1>4. Backed = Backed'
  BY <1>1 DEF Backed, Counted
<1>5. CountIsBacked'
  BY <1>1, <1>3, <1>4, BackedBySuperset DEF DeliveryInv
<1>6. AbsentUserIsTold'
  BY <1>1, <1>2, AloneThroughSockets, SetsAssumption DEF DeliveryInv
<1>7. SteadyIsOwed'
  BY <1>1, OwedThroughSockets DEF DeliveryInv
<1> QED BY <1>3, <1>5, <1>6, <1>7 DEF DeliveryInv

LEMMA HandlerEndsKeeps ==
  ASSUME DeliveryInv, Watch, NEW s \in Sockets, HandlerEnds(s)
  PROVE  DeliveryInv'
<1>1. /\ pc[s] = "live" /\ pc' = [pc EXCEPT ![s] = "off"]
      /\ alive' = alive \ {s} /\ active' = active \ {s}
      /\ removal' = [x \in Sockets |-> IF x \in {s} \intersect active THEN "decr" ELSE removal[x]]
      /\ UNCHANGED <<serving, count, ttl, leaks, busVars, frameVars>>
  BY DEF HandlerEnds, Discounts, countVars
<1>2. UNCHANGED <<redis, sub, channel, faults, stage, sender, got, told>>
  BY <1>1 DEF busVars, frameVars
<1>3. DeliveryTypeOK'
  <2>1. /\ pc' \in [Sockets -> {"off", "incr", "expire", "live"}]
        /\ removal' \in [Sockets -> {"none", "decr", "delete"}]
        /\ \A x \in active' : pc'[x] # "off"
    BY <1>1 DEF DeliveryInv, DeliveryTypeOK
  <2> QED BY <1>1, <1>2, <2>1, WatchTypes DEF DeliveryInv, DeliveryTypeOK
<1>4. Backed \subseteq Backed'
  BY <1>1 DEF DeliveryInv, DeliveryTypeOK, Backed, Counted
<1>5. CountIsBacked'
  BY <1>1, <1>3, <1>4, BackedBySuperset DEF DeliveryInv
<1>6. AbsentUserIsTold'
  BY <1>1, <1>2, AloneThroughSockets, SetsAssumption DEF DeliveryInv
<1>7. SteadyIsOwed'
  BY <1>1, OwedThroughSockets DEF DeliveryInv
<1> QED BY <1>3, <1>5, <1>6, <1>7 DEF DeliveryInv

LEMMA DecrKeeps ==
  ASSUME DeliveryInv, Watch, NEW s \in Sockets, Decr(s)
  PROVE  DeliveryInv'
<1>1. /\ removal[s] = "decr"
      /\ count' = IF redis THEN Value - 1 ELSE count
      /\ removal' = [removal EXCEPT ![s] = IF redis /\ Value - 1 <= 0 THEN "delete" ELSE "none"]
      /\ leaks' = IF redis THEN leaks ELSE leaks \union {"outage"}
      /\ UNCHANGED <<serving, pc, alive, active, ttl, busVars, frameVars>>
  BY DEF Decr
<1>2. UNCHANGED <<redis, sub, channel, faults, stage, sender, got, told>>
  BY <1>1 DEF busVars, frameVars
<1>3. DeliveryTypeOK'
  <2>1. removal' \in [Sockets -> {"none", "decr", "delete"}]
    BY <1>1 DEF DeliveryInv, DeliveryTypeOK
  <2>2. count' \in Int \union {None} /\ leaks' \subseteq {"early", "outage", "crash"}
    BY <1>1, ValueIsInt DEF DeliveryInv, DeliveryTypeOK
  <2> QED BY <1>1, <1>2, <2>1, <2>2, WatchTypes DEF DeliveryInv, DeliveryTypeOK
<1>4. CountIsBacked'
  <2> SUFFICES ASSUME leaks' = {} PROVE Value' <= Cardinality(Backed')
    BY DEF CountIsBacked
  <2>1. redis /\ leaks = {} /\ Value \in Int /\ Value' = Value - 1
    BY <1>1, ValueIsInt, NoneAssumption DEF DeliveryInv, Value
  <2>2. Backed \ {s} \subseteq Backed' /\ Backed' \subseteq Backed
    BY <1>1 DEF DeliveryInv, DeliveryTypeOK, Backed, Counted
  <2>3. IsFiniteSet(Backed) /\ IsFiniteSet(Backed') /\ Cardinality(Backed') \in Nat
    BY <2>2, BackedIsFinite, FS_Subset, FS_CardinalityType DEF DeliveryInv
  <2>4. Cardinality(Backed \ {s}) <= Cardinality(Backed')
    BY <2>2, <2>3, FS_Subset
  <2>5. Cardinality(Backed \ {s}) \in {Cardinality(Backed), Cardinality(Backed) - 1}
    BY <2>3, FS_RemoveElement
  <2>6. Value <= Cardinality(Backed) /\ Cardinality(Backed) \in Nat
    BY <2>1, <2>3, FS_CardinalityType DEF DeliveryInv, CountIsBacked
  <2> QED BY <2>1, <2>3, <2>4, <2>5, <2>6
<1>5. AbsentUserIsTold'
  <2>1. leaks \subseteq leaks'
    BY <1>1
  <2> QED BY <1>2, <2>1, AloneThroughSockets, SetsAssumption DEF DeliveryInv
<1>6. SteadyIsOwed'
  BY <1>1, OwedThroughSockets DEF DeliveryInv
<1> QED BY <1>3, <1>4, <1>5, <1>6 DEF DeliveryInv

LEMMA DeleteKeeps ==
  ASSUME DeliveryInv, Watch, NEW s \in Sockets, Delete(s)
  PROVE  DeliveryInv'
<1>1. /\ removal[s] = "delete" /\ removal' = [removal EXCEPT ![s] = "none"]
      /\ count' \in {count, None} /\ ttl' \in {ttl, FALSE}
      /\ UNCHANGED <<serving, pc, alive, active, leaks, busVars, frameVars>>
  BY DEF Delete
<1>2. UNCHANGED <<redis, sub, channel, faults, stage, sender, got, told>>
  BY <1>1 DEF busVars, frameVars
<1>3. DeliveryTypeOK'
  <2>1. removal' \in [Sockets -> {"none", "decr", "delete"}]
    BY <1>1 DEF DeliveryInv, DeliveryTypeOK
  <2> QED BY <1>1, <1>2, <2>1, WatchTypes DEF DeliveryInv, DeliveryTypeOK
<1>4. Backed \subseteq Backed'
  BY <1>1 DEF DeliveryInv, DeliveryTypeOK, Backed, Counted
<1>5. CountIsBacked'
  BY <1>1, <1>3, <1>4, BackedBySuperset DEF DeliveryInv
<1>6. AbsentUserIsTold'
  BY <1>1, <1>2, AloneThroughSockets, SetsAssumption DEF DeliveryInv
<1>7. SteadyIsOwed'
  BY <1>1, OwedThroughSockets DEF DeliveryInv
<1> QED BY <1>3, <1>5, <1>6, <1>7 DEF DeliveryInv
-----------------------------------------------------------------------------
LEMMA RaiseKeeps ==
  ASSUME DeliveryInv, Watch, NEW f \in Frames, NEW w \in Workers, Raise(f, w)
  PROVE  DeliveryInv'
<1>1. /\ stage[f] = "idle" /\ stage' = [stage EXCEPT ![f] = "publish"]
      /\ sender' = [sender EXCEPT ![f] = w]
      /\ UNCHANGED <<serving, pc, alive, active, removal, count, ttl, leaks, redis, sub, channel,
                     faults, got, told>>
  BY DEF Raise, socketVars, countVars, busVars
<1>2. DeliveryTypeOK'
  <2>1. stage' \in [Frames -> {"idle", "publish", "presence", "done", "lost"}]
        /\ sender' \in [Frames -> Workers \union {None}]
    BY <1>1 DEF DeliveryInv, DeliveryTypeOK
  <2> QED BY <1>1, <2>1, WatchTypes DEF DeliveryInv, DeliveryTypeOK
<1>3. CountIsBacked'
  BY <1>1 DEF DeliveryInv, CountIsBacked, Value, Backed, Counted
<1>4. AbsentUserIsTold'
  <2>1. \A g \in Frames : stage'[g] = "done" => stage[g] = "done"
    BY <1>1 DEF DeliveryInv, DeliveryTypeOK
  <2> QED BY <1>1, <2>1, AloneThroughSockets, SetsAssumption DEF DeliveryInv
<1>5. SteadyIsOwed'
  <2> SUFFICES ASSUME NEW g \in Frames, NEW s \in steady'[g] PROVE Owes(g, s)'
    BY DEF SteadyIsOwed
  <2>1. stage'[g] # "idle" /\ \/ stage[g] = "idle" /\ Reachable(s, sender'[g])
                              \/ stage[g] # "idle" /\ s \in steady[g] /\ Up(s)'
    BY SteadyStep DEF DeliveryInv
  <2>2. CASE g = f
    <3>1. Reachable(s, w)
      BY <1>1, <2>1, <2>2 DEF DeliveryInv, DeliveryTypeOK
    <3>2. stage'[g] = "publish" /\ sender'[g] = w
      BY <1>1, <2>2 DEF DeliveryInv, DeliveryTypeOK
    <3> QED BY <1>1, <3>1, <3>2 DEF Reachable, Owes, Up
  <2>3. CASE g # f
    <3>1. stage'[g] = stage[g] /\ sender'[g] = sender[g]
      BY <1>1, <2>3 DEF DeliveryInv, DeliveryTypeOK
    <3>2. Owes(g, s)
      BY <2>1, <3>1 DEF DeliveryInv, SteadyIsOwed
    <3> QED BY <1>1, <3>1, <3>2 DEF Owes, Up
  <2> QED BY <2>2, <2>3
<1> QED BY <1>2, <1>3, <1>4, <1>5 DEF DeliveryInv

LEMMA PublishKeeps ==
  ASSUME DeliveryInv, Watch, NEW f \in Frames, Publish(f)
  PROVE  DeliveryInv'
<1>1. /\ stage[f] = "publish" /\ sub[sender[f]] # "local" /\ redis
      /\ channel' = [w \in Workers |->
           IF sub[w] = "listening" THEN channel[w] \union {f} ELSE channel[w]]
      /\ stage' = [stage EXCEPT ![f] = IF f \in Critical THEN "presence" ELSE "done"]
      /\ UNCHANGED <<serving, pc, alive, active, removal, count, ttl, leaks, redis, sub, faults,
                     sender, got, told>>
  BY DEF Publish, Receivers, socketVars, countVars
<1>2. DeliveryTypeOK'
  <2>1. stage' \in [Frames -> {"idle", "publish", "presence", "done", "lost"}]
        /\ channel' \in [Workers -> SUBSET Frames]
    BY <1>1 DEF DeliveryInv, DeliveryTypeOK
  <2> QED BY <1>1, <2>1, WatchTypes DEF DeliveryInv, DeliveryTypeOK
<1>3. CountIsBacked'
  BY <1>1 DEF DeliveryInv, CountIsBacked, Value, Backed, Counted
<1>4. AbsentUserIsTold'
  <2> SUFFICES ASSUME NEW g \in Critical, stage'[g] = "done", g \in alone', leaks' = {}
               PROVE  g \in told'
    BY DEF AbsentUserIsTold
  <2>1. g # f /\ stage[g] = "done"
    BY <1>1, SetsAssumption DEF DeliveryInv, DeliveryTypeOK
  <2>2. g \in alone
    BY <2>1, AloneStep
  <2> QED BY <1>1, <2>1, <2>2 DEF DeliveryInv, AbsentUserIsTold
<1>5. SteadyIsOwed'
  <2> SUFFICES ASSUME NEW g \in Frames, NEW s \in steady'[g] PROVE Owes(g, s)'
    BY DEF SteadyIsOwed
  <2>1. stage[g] # "idle" /\ s \in steady[g] /\ Up(s)'
    BY <1>1, SteadyStep DEF DeliveryInv, DeliveryTypeOK
  <2>2. Owes(g, s)
    BY <2>1 DEF DeliveryInv, SteadyIsOwed
  <2>3. s \in active /\ serving[s] \in Workers /\ sub[serving[s]] = "listening"
    BY <2>2 DEF Owes, Up, DeliveryInv, DeliveryTypeOK
  <2>4. channel[serving[s]] \subseteq channel'[serving[s]] /\ f \in channel'[serving[s]]
    BY <1>1, <2>3
  <2>5. g = f \/ stage'[g] = stage[g]
    BY <1>1 DEF DeliveryInv, DeliveryTypeOK
  <2>6. stage'[f] # "publish"
    BY <1>1 DEF DeliveryInv, DeliveryTypeOK
  <2> QED BY <1>1, <2>1, <2>2, <2>4, <2>5, <2>6 DEF Owes
<1> QED BY <1>2, <1>3, <1>4, <1>5 DEF DeliveryInv

\* A user without a connection has no socket that backs the count.
LEMMA NobodyIsBacked ==
  ASSUME DeliveryInv, Nobody, leaks = {}
  PROVE  ~Online /\ active = {}
<1>1. Counted = {}
  BY DEF DeliveryInv, DeliveryTypeOK, Nobody, Free, Counted
<1>2. Cardinality(Backed) = 0
  BY <1>1, FS_EmptySet DEF Backed
<1>3. Value <= 0 /\ Value \in Int
  BY <1>2, ValueIsInt DEF DeliveryInv, CountIsBacked
<1>4. ~Online
  BY <1>3 DEF Online, Value
<1> QED BY <1>1, <1>4 DEF Counted

LEMMA PresenceKeeps ==
  ASSUME DeliveryInv, Watch, NEW f \in Frames, Presence(f)
  PROVE  DeliveryInv'
<1>1. /\ stage[f] = "presence" /\ stage' = [stage EXCEPT ![f] = "done"]
      /\ told' = IF f \in Critical /\ ~Online THEN told \union {f} ELSE told
      /\ UNCHANGED <<serving, pc, alive, active, removal, count, ttl, leaks, redis, sub, channel,
                     faults, sender, got>>
  BY DEF Presence, Escalates, socketVars, countVars, busVars
<1>2. DeliveryTypeOK'
  <2>1. stage' \in [Frames -> {"idle", "publish", "presence", "done", "lost"}]
        /\ told' \subseteq Critical
    BY <1>1 DEF DeliveryInv, DeliveryTypeOK
  <2> QED BY <1>1, <2>1, WatchTypes DEF DeliveryInv, DeliveryTypeOK
<1>3. CountIsBacked'
  BY <1>1 DEF DeliveryInv, CountIsBacked, Value, Backed, Counted
<1>4. AbsentUserIsTold'
  <2> SUFFICES ASSUME NEW g \in Critical, stage'[g] = "done", g \in alone', leaks' = {}
               PROVE  g \in told'
    BY DEF AbsentUserIsTold
  <2>1. CASE g = f
    <3>1. Nobody /\ leaks = {}
      BY <1>1, AloneStep DEF Nobody, Free
    <3> QED BY <1>1, <2>1, <3>1, NobodyIsBacked
  <2>2. CASE g # f
    <3>1. stage[g] = "done" /\ g \in Frames
      BY <1>1, <2>2, SetsAssumption DEF DeliveryInv, DeliveryTypeOK
    <3>2. g \in alone
      BY <3>1, AloneStep
    <3> QED BY <1>1, <3>1, <3>2 DEF DeliveryInv, AbsentUserIsTold
  <2> QED BY <2>1, <2>2
<1>5. SteadyIsOwed'
  <2> SUFFICES ASSUME NEW g \in Frames, NEW s \in steady'[g] PROVE Owes(g, s)'
    BY DEF SteadyIsOwed
  <2>1. stage[g] # "idle" /\ s \in steady[g] /\ Up(s)'
    BY <1>1, SteadyStep DEF DeliveryInv, DeliveryTypeOK
  <2>2. Owes(g, s)
    BY <2>1 DEF DeliveryInv, SteadyIsOwed
  <2>3. g = f \/ stage'[g] = stage[g]
    BY <1>1 DEF DeliveryInv, DeliveryTypeOK
  <2>4. stage'[f] = "done"
    BY <1>1 DEF DeliveryInv, DeliveryTypeOK
  <2> QED BY <1>1, <2>1, <2>2, <2>3, <2>4 DEF Owes
<1> QED BY <1>2, <1>3, <1>4, <1>5 DEF DeliveryInv

\* Pruning moves sockets from the registry to the DECR: the count stays backed.
LEMMA SendKeepsBacking ==
  ASSUME DeliveryInv, NEW f \in Frames, NEW w, NEW pruned \in SUBSET Sockets,
         SendLocal(f, w, pruned)
  PROVE  /\ UNCHANGED <<serving, pc, alive>>
         /\ active' = active \ pruned /\ active' \subseteq active
         /\ pruned \subseteq active \ alive
         /\ removal' \in [Sockets -> {"none", "decr", "delete"}]
         /\ got' \in [Frames -> SUBSET Sockets]
         /\ \A g \in Frames : got[g] \subseteq got'[g]
         /\ \A s \in active \intersect alive : serving[s] = w => s \in got'[f]
         /\ Backed \subseteq Backed'
<1>1. /\ pruned \subseteq Local(w) \ alive
      /\ got' = [got EXCEPT ![f] = got[f] \union (Local(w) \intersect alive)]
      /\ removal' = [s \in Sockets |-> IF s \in pruned \intersect active THEN "decr" ELSE removal[s]]
      /\ active' = active \ pruned
      /\ UNCHANGED <<serving, pc, alive>>
  BY DEF SendLocal, Discounts
<1>2. /\ got \in [Frames -> SUBSET Sockets] /\ removal \in [Sockets -> {"none", "decr", "delete"}]
      /\ active \subseteq Sockets /\ Local(w) \subseteq Sockets
  BY DEF DeliveryInv, DeliveryTypeOK, Local
<1>3. removal' \in [Sockets -> {"none", "decr", "delete"}]
  BY <1>1, <1>2
<1>4. /\ got' \in [Frames -> SUBSET Sockets]
      /\ \A g \in Frames : got[g] \subseteq got'[g]
      /\ Local(w) \intersect alive \subseteq got'[f]
  BY <1>1, <1>2
<1>5. Backed \subseteq Backed'
  BY <1>1, <1>2 DEF Backed, Counted
<1> QED BY <1>1, <1>3, <1>4, <1>5 DEF Local

LEMMA PublishLocalKeeps ==
  ASSUME DeliveryInv, Watch, NEW f \in Frames, NEW pruned \in SUBSET Sockets,
         PublishLocal(f, pruned)
  PROVE  DeliveryInv'
<1> DEFINE online == Local(sender[f]) \ pruned # {}
<1>1. /\ stage[f] = "publish"
      /\ sub[sender[f]] = "local" \/ ~redis
      /\ SendLocal(f, sender[f], pruned)
      /\ stage' = [stage EXCEPT ![f] = "done"]
      /\ told' = IF f \in Critical /\ ~online THEN told \union {f} ELSE told
      /\ UNCHANGED <<count, ttl, leaks, redis, sub, channel, faults, sender>>
  BY DEF PublishLocal, Escalates, countVars, busVars
<1> HIDE DEF online
<1>2. /\ UNCHANGED <<serving, pc, alive>> /\ active' = active \ pruned /\ active' \subseteq active
      /\ removal' \in [Sockets -> {"none", "decr", "delete"}]
      /\ got' \in [Frames -> SUBSET Sockets]
      /\ \A g \in Frames : got[g] \subseteq got'[g]
      /\ \A s \in active \intersect alive : serving[s] = sender[f] => s \in got'[f]
      /\ Backed \subseteq Backed'
  BY <1>1, SendKeepsBacking
<1>3. DeliveryTypeOK'
  <2>1. stage' \in [Frames -> {"idle", "publish", "presence", "done", "lost"}]
        /\ told' \subseteq Critical
    BY <1>1 DEF DeliveryInv, DeliveryTypeOK
  <2> QED BY <1>1, <1>2, <2>1, WatchTypes DEF DeliveryInv, DeliveryTypeOK
<1>4. CountIsBacked'
  BY <1>1, <1>2, <1>3, BackedBySuperset DEF DeliveryInv
<1>5. AbsentUserIsTold'
  <2> SUFFICES ASSUME NEW g \in Critical, stage'[g] = "done", g \in alone', leaks' = {}
               PROVE  g \in told'
    BY DEF AbsentUserIsTold
  <2>1. CASE g = f
    \* Whoever has no connection has no socket on this worker either.
    <3>1. \A s \in active' : pc'[s] # "off"
      BY <1>3 DEF DeliveryTypeOK
    <3>2. Nobody'
      BY AloneStep
    <3>3. active' = {}
      BY <1>3, <3>1, <3>2 DEF Nobody, Free, DeliveryTypeOK
    <3>4. ~online
      BY <1>2, <3>3 DEF online, Local
    <3> QED BY <1>1, <2>1, <3>4
  <2>2. CASE g # f
    <3>1. stage[g] = "done" /\ g \in Frames
      BY <1>1, <2>2, SetsAssumption DEF DeliveryInv, DeliveryTypeOK
    <3>2. g \in alone
      BY <3>1, AloneStep
    <3> QED BY <1>1, <3>1, <3>2 DEF DeliveryInv, AbsentUserIsTold
  <2> QED BY <2>1, <2>2
<1>6. SteadyIsOwed'
  <2> SUFFICES ASSUME NEW g \in Frames, NEW s \in steady'[g] PROVE Owes(g, s)'
    BY DEF SteadyIsOwed
  <2>1. stage[g] # "idle" /\ s \in steady[g] /\ Up(s)'
    <3>1. stage[g] = "idle" => stage'[g] = "idle"
      BY <1>1 DEF DeliveryInv, DeliveryTypeOK
    <3> QED BY <3>1, SteadyStep DEF DeliveryInv
  <2>2. Owes(g, s)
    BY <2>1 DEF DeliveryInv, SteadyIsOwed
  <2>3. CASE g = f
    <3>1. redis
      BY <2>2 DEF Owes, Up
    <3>2. s \in active \intersect alive /\ serving[s] = sender[f]
      BY <1>1, <2>2, <2>3, <3>1 DEF Owes, Up
    <3>3. stage'[f] = "done" /\ s \in got'[f]
      BY <1>1, <1>2, <3>2 DEF DeliveryInv, DeliveryTypeOK
    <3> QED BY <2>1, <2>3, <3>3 DEF Owes
  <2>4. CASE g # f
    <3>1. stage'[g] = stage[g] /\ got[g] \subseteq got'[g]
      BY <1>1, <1>2, <2>4 DEF DeliveryInv, DeliveryTypeOK
    <3>2. UNCHANGED <<serving, sub, channel, sender>>
      BY <1>1, <1>2
    <3> QED BY <2>1, <2>2, <3>1, <3>2 DEF Owes
  <2> QED BY <2>3, <2>4
<1> QED BY <1>3, <1>4, <1>5, <1>6 DEF DeliveryInv

LEMMA DispatchKeeps ==
  ASSUME DeliveryInv, Watch, NEW f \in Frames, NEW w \in Workers, NEW pruned \in SUBSET Sockets,
         Dispatch(w, f, pruned)
  PROVE  DeliveryInv'
<1>1. /\ sub[w] = "listening" /\ f \in channel[w]
      /\ channel' = [channel EXCEPT ![w] = channel[w] \ {f}]
      /\ SendLocal(f, w, pruned)
      /\ UNCHANGED <<count, ttl, leaks, redis, sub, faults, stage, sender, told>>
  BY DEF Dispatch, countVars
<1>2. /\ UNCHANGED <<serving, pc, alive>> /\ active' = active \ pruned /\ active' \subseteq active
      /\ removal' \in [Sockets -> {"none", "decr", "delete"}]
      /\ got' \in [Frames -> SUBSET Sockets]
      /\ \A g \in Frames : got[g] \subseteq got'[g]
      /\ \A s \in active \intersect alive : serving[s] = w => s \in got'[f]
      /\ Backed \subseteq Backed'
  BY <1>1, SendKeepsBacking
<1>3. DeliveryTypeOK'
  <2>1. channel' \in [Workers -> SUBSET Frames]
    BY <1>1 DEF DeliveryInv, DeliveryTypeOK
  <2> QED BY <1>1, <1>2, <2>1, WatchTypes DEF DeliveryInv, DeliveryTypeOK
<1>4. CountIsBacked'
  BY <1>1, <1>2, <1>3, BackedBySuperset DEF DeliveryInv
<1>5. AbsentUserIsTold'
  BY <1>1, AloneThroughSockets, SetsAssumption DEF DeliveryInv
<1>6. SteadyIsOwed'
  <2> SUFFICES ASSUME NEW g \in Frames, NEW s \in steady'[g] PROVE Owes(g, s)'
    BY DEF SteadyIsOwed
  <2>1. stage[g] # "idle" /\ s \in steady[g] /\ Up(s)'
    BY <1>1, SteadyStep DEF DeliveryInv
  <2>2. Owes(g, s)
    BY <2>1 DEF DeliveryInv, SteadyIsOwed
  <2>3. g \in channel[serving[s]] => g \in channel'[serving[s]] \/ s \in got'[g]
    <3>1. CASE g = f /\ serving[s] = w
      BY <1>2, <2>2, <3>1 DEF Owes, Up
    <3>2. CASE ~(g = f /\ serving[s] = w)
      BY <1>1, <3>2 DEF DeliveryInv, DeliveryTypeOK
    <3> QED BY <3>1, <3>2
  <2>4. got[g] \subseteq got'[g]
    BY <1>2
  <2> QED BY <1>1, <1>2, <2>1, <2>2, <2>3, <2>4 DEF Owes
<1> QED BY <1>3, <1>4, <1>5, <1>6 DEF DeliveryInv
-----------------------------------------------------------------------------
LEMMA RedisFailsKeeps ==
  ASSUME DeliveryInv, Watch, NEW ended \in SUBSET {w \in Workers : sub[w] = "listening"},
         RedisFails(ended)
  PROVE  DeliveryInv'
<1>1. /\ faults < MaxFaults /\ faults' = faults + 1 /\ redis' = FALSE
      /\ sub' = [w \in Workers |-> IF w \in ended THEN "ended" ELSE sub[w]]
      /\ channel' = [w \in Workers |-> IF w \in ended THEN {} ELSE channel[w]]
      /\ UNCHANGED <<serving, pc, alive, active, removal, count, ttl, leaks, stage, sender, got, told>>
  BY DEF RedisFails, socketVars, countVars, frameVars
<1>2. DeliveryTypeOK'
  <2>1. /\ sub' \in [Workers -> {"local", "listening", "ended"}]
        /\ channel' \in [Workers -> SUBSET Frames]
    BY <1>1 DEF DeliveryInv, DeliveryTypeOK
  <2>2. faults' \in 0..MaxFaults
    BY <1>1, BoundAssumption DEF DeliveryInv, DeliveryTypeOK
  <2> QED BY <1>1, <2>1, <2>2, WatchTypes DEF DeliveryInv, DeliveryTypeOK
<1>3. CountIsBacked'
  BY <1>1 DEF DeliveryInv, CountIsBacked, Value, Backed, Counted
<1>4. AbsentUserIsTold'
  BY <1>1, AloneThroughSockets, SetsAssumption DEF DeliveryInv
<1>5. SteadyIsOwed'
  \* Without Redis no socket counts as up.
  <2>1. \A g \in Frames : steady'[g] = {}
    <3> SUFFICES ASSUME NEW g \in Frames, NEW s \in steady'[g] PROVE FALSE
      OBVIOUS
    <3> QED BY <1>1, SteadyStep DEF DeliveryInv, Up
  <2> QED BY <2>1 DEF SteadyIsOwed
<1> QED BY <1>2, <1>3, <1>4, <1>5 DEF DeliveryInv

LEMMA RedisReturnsKeeps ==
  ASSUME DeliveryInv, Watch, RedisReturns
  PROVE  DeliveryInv'
<1>1. /\ ~redis /\ redis' = TRUE
      /\ UNCHANGED <<serving, pc, alive, active, removal, count, ttl, leaks, sub, channel, faults,
                     stage, sender, got, told>>
  BY DEF RedisReturns, socketVars, countVars, frameVars
<1>2. DeliveryTypeOK'
  BY <1>1, WatchTypes DEF DeliveryInv, DeliveryTypeOK
<1>3. CountIsBacked'
  BY <1>1 DEF DeliveryInv, CountIsBacked, Value, Backed, Counted
<1>4. AbsentUserIsTold'
  BY <1>1, AloneThroughSockets, SetsAssumption DEF DeliveryInv
<1>5. SteadyIsOwed'
  \* Nothing was owed while Redis was away.
  <2>1. \A g \in Frames : steady'[g] = {}
    <3> SUFFICES ASSUME NEW g \in Frames, NEW s \in steady'[g] PROVE FALSE
      OBVIOUS
    <3>1. s \in steady[g]
      BY <1>1, SteadyStep DEF DeliveryInv
    <3> QED BY <1>1, <3>1 DEF DeliveryInv, SteadyIsOwed, Owes, Up
  <2> QED BY <2>1 DEF SteadyIsOwed
<1> QED BY <1>2, <1>3, <1>4, <1>5 DEF DeliveryInv

LEMMA CrashKeeps ==
  ASSUME DeliveryInv, Watch, NEW w \in Workers, Crash(w)
  PROVE  DeliveryInv'
<1> DEFINE lost == {s \in Sockets : serving[s] = w}
<1>1. /\ faults < MaxFaults /\ faults' = faults + 1
      /\ pc' = [s \in Sockets |-> IF s \in lost THEN "off" ELSE pc[s]]
      /\ removal' = [s \in Sockets |-> IF s \in lost THEN "none" ELSE removal[s]]
      /\ serving' = [s \in Sockets |-> IF s \in lost THEN None ELSE serving[s]]
      /\ alive' = alive \ lost /\ active' = active \ lost
      /\ leaks' = IF lost \intersect Counted # {} THEN leaks \union {"crash"} ELSE leaks
      /\ stage' = [f \in Frames |->
           IF sender[f] = w /\ stage[f] \in {"publish", "presence"} THEN "lost" ELSE stage[f]]
      /\ sub' = [sub EXCEPT ![w] = Subscriber(w)]
      /\ channel' = [channel EXCEPT ![w] = {}]
      /\ UNCHANGED <<count, ttl, redis, sender, got, told>>
  BY DEF Crash
<1>2. lost \subseteq Sockets /\ \A s \in Sockets : s \in lost <=> serving[s] = w
  OBVIOUS
<1> HIDE DEF lost
<1>3. DeliveryTypeOK'
  <2>1. /\ pc' \in [Sockets -> {"off", "incr", "expire", "live"}]
        /\ removal' \in [Sockets -> {"none", "decr", "delete"}]
    BY <1>1 DEF DeliveryInv, DeliveryTypeOK
  <2>2. serving' \in [Sockets -> Workers \union {None}]
    BY <1>1 DEF DeliveryInv, DeliveryTypeOK
  <2>3. active' \subseteq Sockets /\ \A s \in active' : pc'[s] # "off" /\ serving'[s] \in Workers \ Offline
    BY <1>1 DEF DeliveryInv, DeliveryTypeOK
  <2>4. stage' \in [Frames -> {"idle", "publish", "presence", "done", "lost"}]
    BY <1>1 DEF DeliveryInv, DeliveryTypeOK
  <2>5. /\ sub' \in [Workers -> {"local", "listening", "ended"}]
        /\ channel' \in [Workers -> SUBSET Frames]
    BY <1>1 DEF DeliveryInv, DeliveryTypeOK, Subscriber
  <2>6. faults' \in 0..MaxFaults
    BY <1>1, BoundAssumption DEF DeliveryInv, DeliveryTypeOK
  <2>7. leaks' \subseteq {"early", "outage", "crash"} /\ alive' \subseteq Sockets
    BY <1>1 DEF DeliveryInv, DeliveryTypeOK
  <2> QED BY <1>1, <2>1, <2>2, <2>3, <2>4, <2>5, <2>6, <2>7, WatchTypes DEF DeliveryInv, DeliveryTypeOK
<1>4. CountIsBacked'
  <2>1. leaks \subseteq leaks'
    BY <1>1
  <2>2. ASSUME leaks' = {} PROVE Backed \subseteq Backed'
    BY <1>1, <2>2 DEF DeliveryInv, DeliveryTypeOK, Backed, Counted
  <2> QED BY <1>1, <1>3, <2>1, <2>2, BackedBySuperset DEF DeliveryInv
<1>5. AbsentUserIsTold'
  <2>1. leaks \subseteq leaks' /\ \A f \in Frames : stage'[f] = "done" => stage[f] = "done"
    BY <1>1
  <2> QED BY <1>1, <2>1, AloneThroughSockets, SetsAssumption DEF DeliveryInv
<1>6. SteadyIsOwed'
  <2> SUFFICES ASSUME NEW g \in Frames, NEW s \in steady'[g] PROVE Owes(g, s)'
    BY DEF SteadyIsOwed
  <2>1. stage'[g] \notin {"idle", "lost"} /\ stage[g] # "idle" /\ s \in steady[g] /\ Up(s)' /\ s \in Sockets
    BY <1>1, SteadyStep DEF DeliveryInv
  <2>2. Owes(g, s)
    BY <2>1 DEF DeliveryInv, SteadyIsOwed
  \* Neither the socket nor the sender of a frame that is still on its way was on w.
  <2>3. serving[s] # w /\ serving'[s] = serving[s]
    BY <1>1, <1>2, <2>1 DEF Up
  <2>4. stage'[g] = stage[g] /\ (stage[g] = "publish" => sender[g] # w)
    BY <1>1, <2>1
  <2>5. \A v \in Workers \union {None} : v # w => sub'[v] = sub[v]
    BY <1>1 DEF DeliveryInv, DeliveryTypeOK
  <2>6. sender[g] \in Workers \union {None} /\ serving[s] \in Workers
    BY <2>2 DEF DeliveryInv, DeliveryTypeOK, Owes, Up
  <2>7. channel'[serving[s]] = channel[serving[s]]
    BY <1>1, <2>3, <2>6 DEF DeliveryInv, DeliveryTypeOK
  <2>8. stage[g] = "publish" => sub'[sender[g]] = sub[sender[g]]
    BY <2>4, <2>5, <2>6
  <2> QED BY <1>1, <2>1, <2>2, <2>3, <2>4, <2>7, <2>8 DEF Owes
<1> QED BY <1>3, <1>4, <1>5, <1>6 DEF DeliveryInv
-----------------------------------------------------------------------------
LEMMA DeliveryStutters ==
  ASSUME DeliveryInv, UNCHANGED deliveryVars
  PROVE  DeliveryInv'
<1>1. UNCHANGED <<serving, pc, alive, active, removal, count, ttl, leaks, redis, sub, channel, faults,
                  stage, sender, got, told, steady, alone>>
  BY DEF deliveryVars, socketVars, countVars, busVars, frameVars, watchVars
<1>2. DeliveryTypeOK'
  BY <1>1 DEF DeliveryInv, DeliveryTypeOK
<1>3. CountIsBacked' /\ AbsentUserIsTold'
  BY <1>1 DEF DeliveryInv, CountIsBacked, AbsentUserIsTold, Value, Backed, Counted
<1>4. SteadyIsOwed'
  BY <1>1 DEF DeliveryInv, SteadyIsOwed, Owes, Up
<1> QED BY <1>2, <1>3, <1>4 DEF DeliveryInv

LEMMA DeliveryInductive == DeliveryInv /\ [DeliveryNext]_deliveryVars => DeliveryInv'
<1> SUFFICES ASSUME DeliveryInv, [DeliveryNext]_deliveryVars PROVE DeliveryInv'
  OBVIOUS
<1>1. CASE UNCHANGED deliveryVars
  BY <1>1, DeliveryStutters
<1>2. CASE DeliveryNext
  <2>1. Watch
    BY <1>2 DEF DeliveryNext
  <2>2. ASSUME NEW s \in Sockets, SocketStep(s) PROVE DeliveryInv'
    BY <2>1, <2>2, ConnectKeeps, IncrKeeps, ExpireKeeps, ClientLeavesKeeps, HandlerEndsKeeps,
       DecrKeeps, DeleteKeeps DEF SocketStep
  <2>3. ASSUME NEW f \in Frames, FrameStep(f) PROVE DeliveryInv'
    BY <2>1, <2>3, RaiseKeeps, PublishKeeps, PresenceKeeps, PublishLocalKeeps, DispatchKeeps
       DEF FrameStep
  <2>4. CASE FaultStep
    BY <2>1, <2>4, RedisReturnsKeeps, RedisFailsKeeps, CrashKeeps DEF FaultStep
  <2> QED BY <1>2, <2>1, <2>2, <2>3, <2>4, TtlExpiresKeeps DEF DeliveryNext
<1> QED BY <1>1, <1>2

LEMMA DeliveryInvariance == DeliverySpec => []DeliveryInv
<1> QED BY DeliveryInitHolds, DeliveryInductive, PTL DEF DeliverySpec
-----------------------------------------------------------------------------
\* The registry, the count, the frames and the history keep their types: in
\* particular a registered socket has a handler and a worker that can serve it.
THEOREM DeliveryTypeCorrect == DeliverySpec => []DeliveryTypeOK
<1>1. DeliveryInv => DeliveryTypeOK
  BY DEF DeliveryInv
<1> QED BY <1>1, DeliveryInvariance, PTL

\* The presence count never exceeds the sockets that are registered or about to be
\* discounted, for every number of sockets and workers.
THEOREM PresenceBound == DeliverySpec => []PresenceNotOverstated
<1>1. DeliveryInv => PresenceNotOverstated
  <2> SUFFICES ASSUME DeliveryInv, leaks = {} PROVE Value <= Cardinality(Counted)
    BY DEF PresenceNotOverstated
  <2>1. Counted \subseteq Sockets /\ Backed \subseteq Counted
    BY DEF DeliveryInv, DeliveryTypeOK, Counted, Backed
  <2>2. IsFiniteSet(Counted) /\ Cardinality(Counted) \in Nat
    BY <2>1, SocketsAssumption, FS_Subset, FS_CardinalityType
  <2>3. Cardinality(Backed) <= Cardinality(Counted)
    BY <2>1, <2>2, FS_Subset
  <2>4. Value <= Cardinality(Backed) /\ Value \in Int /\ Cardinality(Backed) \in Nat
    BY ValueIsInt, BackedIsFinite DEF DeliveryInv, CountIsBacked
  <2> QED BY <2>2, <2>3, <2>4
<1> QED BY <1>1, DeliveryInvariance, PTL

\* A user without any connection is told of a critical frame by the notifier, for
\* every interleaving of sockets, senders and expiries.
THEOREM AbsentIsTold == DeliverySpec => []AbsentUserIsTold
<1>1. DeliveryInv => AbsentUserIsTold
  BY DEF DeliveryInv
<1> QED BY <1>1, DeliveryInvariance, PTL

\* A socket that stays up gets the frame, on whatever worker it was raised.
THEOREM SteadyIsReached == DeliverySpec => []SteadySocketIsReached
<1>1. DeliveryInv => SteadySocketIsReached
  BY DEF DeliveryInv, SteadyIsOwed, Owes, SteadySocketIsReached
<1> QED BY <1>1, DeliveryInvariance, PTL
-----------------------------------------------------------------------------
(* WebClient.                                                              *)

WantedOf(c, S) == {s \in S : c.conn[s] \in {"dialing", "open"}}

\* The insight stream knows its socket and its timer, and has one or the other.
StreamSound(c) ==
  /\ WantedOf(c, Streams) = {c.sock} \ {Null}
  /\ c.armed \subseteq {c.timer} \ {Null}
  /\ c.sock # Null => c.armed = {}
  /\ c.manualClose => c.sock = Null /\ c.armed = {}
  /\ c.label = "retrying" => c.sock = Null

\* So does the account channel.
LinkSound(c) ==
  /\ WantedOf(c, Links) = {c.link} \ {Null}
  /\ c.linkArmed \subseteq {c.linkTimer} \ {Null}
  /\ c.link # Null => c.linkArmed = {}
  /\ c.closed => c.link = Null /\ c.linkArmed = {}

\* Nothing comes back to a page that shows the sign-in form.
AuthIsClosed == page = "auth" => web.manualClose /\ web.closed

WebInv ==
  /\ WebTypeOK
  /\ ~late => StreamSound(web) /\ LinkSound(web) /\ AuthIsClosed
-----------------------------------------------------------------------------
(* The functions of the client.                                            *)

Conns == [Streams \union Links -> {"free", "dialing", "open", "closing"}]

LEMMA TeardownFields ==
  ASSUME NEW c \in Channels
  PROVE  LET d == Teardown(c) IN
         /\ d \in Channels
         /\ d.sock = Null /\ d.timer = Null /\ d.armed = c.armed \ {c.timer} /\ d.manualClose
         /\ d.link = Null /\ d.linkTimer = c.linkTimer /\ d.linkArmed = c.linkArmed \ {c.linkTimer}
         /\ d.closed /\ d.label = c.label
         /\ d.conn = Closing(c.conn, {c.sock, c.link})
<1>1. Closing(c.conn, {c.sock, c.link}) \in Conns
  BY DEF Closing, Channels, Conns
<1>2. /\ c.armed \ {c.timer} \in SUBSET Timers /\ c.linkArmed \ {c.linkTimer} \in SUBSET Timers
      /\ 0 \in 0..WS_MAX_RETRIES
  BY ClientAssumption DEF Channels
<1>3. Teardown(c) \in Channels
  BY <1>1, <1>2 DEF Teardown, Channels, Conns
<1> QED BY <1>3 DEF Teardown, Channels

LEMMA TeardownSound ==
  ASSUME NEW c \in Channels, StreamSound(c), LinkSound(c)
  PROVE  StreamSound(Teardown(c)) /\ LinkSound(Teardown(c))
<1> DEFINE d == Teardown(c)
<1>1. /\ d.sock = Null /\ d.armed = c.armed \ {c.timer}
      /\ d.link = Null /\ d.linkTimer = c.linkTimer /\ d.linkArmed = c.linkArmed \ {c.linkTimer}
      /\ d.conn = Closing(c.conn, {c.sock, c.link})
  BY TeardownFields
<1>2. c.conn \in [Streams \union Links -> {"free", "dialing", "open", "closing"}]
  BY DEF Channels
<1> HIDE DEF d
<1>3. d.armed = {} /\ d.linkArmed = {}
  BY <1>1 DEF StreamSound, LinkSound
<1>4. ASSUME NEW s \in Streams PROVE d.conn[s] \notin {"dialing", "open"}
  BY <1>1, <1>2, <1>4 DEF StreamSound, WantedOf, Closing
<1>5. ASSUME NEW s \in Links PROVE d.conn[s] \notin {"dialing", "open"}
  BY <1>1, <1>2, <1>5 DEF LinkSound, WantedOf, Closing
<1>6. StreamSound(d)
  BY <1>1, <1>3, <1>4 DEF StreamSound, WantedOf
<1>7. LinkSound(d)
  BY <1>1, <1>3, <1>5 DEF LinkSound, WantedOf
<1> QED BY <1>6, <1>7 DEF d

\* A channel with neither socket nor timer schedules its one reconnect.
LEMMA ScheduleSound ==
  ASSUME NEW c \in Channels, NEW t \in Timers
  PROVE  LET d == ScheduleRetry(c, t) IN
         /\ d \in Channels
         /\ d.closed = c.closed /\ d.manualClose = c.manualClose
         /\ ~c.manualClose /\ c.sock = Null /\ c.armed = {} /\ WantedOf(c, Streams) = {}
              => StreamSound(d)
         /\ LinkSound(c) => LinkSound(d)
<1>1. CASE c.retries >= WS_MAX_RETRIES
  <2> DEFINE d == [c EXCEPT !.label = "down"]
  <2>1. ScheduleRetry(c, t) = d
    BY <1>1 DEF ScheduleRetry
  <2>2. d \in Channels /\ d.label = "down"
        /\ d.conn = c.conn /\ d.sock = c.sock /\ d.armed = c.armed /\ d.timer = c.timer
        /\ d.manualClose = c.manualClose /\ d.closed = c.closed
        /\ d.link = c.link /\ d.linkArmed = c.linkArmed /\ d.linkTimer = c.linkTimer
    BY DEF Channels
  <2> HIDE DEF d
  <2> QED BY <2>1, <2>2 DEF StreamSound, LinkSound, WantedOf
<1>2. CASE ~(c.retries >= WS_MAX_RETRIES)
  <2> DEFINE d == [c EXCEPT !.retries = @ + 1, !.timer = t, !.armed = @ \union {t},
                            !.label = "retrying"]
  <2>1. ScheduleRetry(c, t) = d
    BY <1>2 DEF ScheduleRetry
  <2>2. c.retries + 1 \in 0..WS_MAX_RETRIES /\ c.armed \union {t} \in SUBSET Timers
    BY <1>2, ClientAssumption DEF Channels
  <2>3. d \in Channels
    BY <2>2 DEF Channels
  <2>4. /\ d.label = "retrying" /\ d.timer = t /\ d.armed = c.armed \union {t}
        /\ d.conn = c.conn /\ d.sock = c.sock
        /\ d.manualClose = c.manualClose /\ d.closed = c.closed
        /\ d.link = c.link /\ d.linkArmed = c.linkArmed /\ d.linkTimer = c.linkTimer
    BY DEF Channels
  <2> HIDE DEF d
  <2>5. t # Null
    BY ClientAssumption
  <2> QED BY <2>1, <2>3, <2>4, <2>5 DEF StreamSound, LinkSound, WantedOf
<1> QED BY <1>1, <1>2

\* A dialled stream is the only one.
LEMMA ConnectSound ==
  ASSUME NEW c \in Channels, NEW e \in WsConnect(c)
  PROVE  /\ e \in Channels
         /\ e.closed = c.closed
         /\ c.sock = Null /\ c.armed = {} /\ WantedOf(c, Streams) = {} => StreamSound(e)
         /\ LinkSound(c) => LinkSound(e)
<1> DEFINE f == Fresh(c)
<1>1. /\ f \in Channels /\ f.manualClose = FALSE /\ f.label = "connecting"
      /\ f.conn = c.conn /\ f.sock = c.sock /\ f.armed = c.armed /\ f.timer = c.timer
      /\ f.closed = c.closed /\ f.link = c.link /\ f.linkArmed = c.linkArmed
      /\ f.linkTimer = c.linkTimer
  BY DEF Fresh, Channels
<1>2. \/ \E s \in Streams : c.conn[s] = "free" /\ e = [f EXCEPT !.sock = s, !.conn[s] = "dialing"]
      \/ \E t \in Timers : e = ScheduleRetry(f, t)
  BY DEF WsConnect, IdleTimers
<1> HIDE DEF f
<1>3. CASE \E t \in Timers : e = ScheduleRetry(f, t)
  <2>1. LinkSound(c) => LinkSound(f)
    BY <1>1 DEF LinkSound, WantedOf
  <2>2. WantedOf(c, Streams) = {} => WantedOf(f, Streams) = {}
    BY <1>1 DEF WantedOf
  <2> QED BY <1>1, <1>3, <2>1, <2>2, ScheduleSound
<1>4. ASSUME NEW s \in Streams, c.conn[s] = "free", e = [f EXCEPT !.sock = s, !.conn[s] = "dialing"]
      PROVE  /\ e \in Channels
             /\ e.closed = c.closed
             /\ c.sock = Null /\ c.armed = {} /\ WantedOf(c, Streams) = {} => StreamSound(e)
             /\ LinkSound(c) => LinkSound(e)
  <2>1. c.conn \in Conns
    BY DEF Channels, Conns
  <2>2. [c.conn EXCEPT ![s] = "dialing"] \in Conns
    BY <2>1 DEF Conns
  <2>3. e = [f EXCEPT !.sock = s, !.conn = [c.conn EXCEPT ![s] = "dialing"]]
    BY <1>1, <1>4
  <2>4. e \in Channels
    BY <1>1, <2>2, <2>3 DEF Channels, Conns
  <2>5. /\ e.sock = s /\ e.conn = [c.conn EXCEPT ![s] = "dialing"] /\ e.manualClose = FALSE
        /\ e.label = "connecting" /\ e.armed = c.armed /\ e.timer = c.timer
        /\ e.closed = c.closed /\ e.link = c.link /\ e.linkArmed = c.linkArmed
        /\ e.linkTimer = c.linkTimer
    BY <1>1, <2>3 DEF Channels
  <2>6. s # Null /\ s \notin Links
    BY ClientAssumption
  <2>7. ASSUME WantedOf(c, Streams) = {} PROVE WantedOf(e, Streams) = {s}
    BY <2>1, <2>5, <2>7 DEF WantedOf, Conns
  <2>8. WantedOf(e, Links) = WantedOf(c, Links)
    BY <2>1, <2>5, <2>6 DEF WantedOf, Conns
  <2> QED BY <2>4, <2>5, <2>6, <2>7, <2>8 DEF StreamSound, LinkSound
<1> QED BY <1>2, <1>3, <1>4

\* The end of the channel's own socket, or of one it had closed itself.
LEMMA OnCloseSound ==
  ASSUME NEW c \in Channels, NEW s \in Streams, NEW code, NEW t \in Timers
  PROVE  LET d == StreamOnClose(c, s, code, t) IN
         /\ d \in Channels
         /\ d.closed = c.closed /\ d.manualClose = c.manualClose
         /\ StreamSound(c) /\ (c.sock = s \/ c.manualClose) => StreamSound(d)
         /\ LinkSound(c) => LinkSound(d)
<1> DEFINE gone == [c EXCEPT !.conn[s] = "free", !.sock = Null]
           d == StreamOnClose(c, s, code, t)
<1>1. c.conn \in Conns /\ [c.conn EXCEPT ![s] = "free"] \in Conns
  BY DEF Channels, Conns
<1>2. gone = [c EXCEPT !.conn = [c.conn EXCEPT ![s] = "free"], !.sock = Null]
  BY DEF Channels
<1>3. gone \in Channels
  BY <1>1, <1>2 DEF Channels, Conns
<1>4. /\ gone.sock = Null /\ gone.conn = [c.conn EXCEPT ![s] = "free"]
      /\ gone.manualClose = c.manualClose /\ gone.label = c.label /\ gone.armed = c.armed
      /\ gone.timer = c.timer /\ gone.closed = c.closed /\ gone.link = c.link
      /\ gone.linkArmed = c.linkArmed /\ gone.linkTimer = c.linkTimer
  BY DEF Channels
<1>5. \/ d = ScheduleRetry(gone, t) /\ ~c.manualClose
      \/ d = [gone EXCEPT !.label = "idle"]
      \/ d = [gone EXCEPT !.stopped = TRUE, !.label = "rejected"]
      \/ d = [gone EXCEPT !.stopped = TRUE, !.label = "idle"]
  BY DEF StreamOnClose
<1> HIDE DEF gone, d
<1>6. ASSUME StreamSound(c), c.sock = s \/ c.manualClose
      PROVE  gone.armed = {} /\ WantedOf(gone, Streams) = {}
  <2>1. c.armed = {} /\ s # Null
    BY <1>6, ClientAssumption DEF StreamSound
  <2>2. WantedOf(c, Streams) \subseteq {s}
    BY <1>6 DEF StreamSound
  <2> QED BY <1>1, <1>4, <2>1, <2>2 DEF WantedOf, Conns
<1>7. LinkSound(c) => LinkSound(gone)
  <2>1. s \notin Links
    BY ClientAssumption
  <2>2. WantedOf(gone, Links) = WantedOf(c, Links)
    BY <1>1, <1>4, <2>1 DEF WantedOf, Conns
  <2> QED BY <1>4, <2>2 DEF LinkSound
<1>8. CASE d = ScheduleRetry(gone, t) /\ ~c.manualClose
  BY <1>3, <1>4, <1>6, <1>7, <1>8, ScheduleSound DEF d
<1>9. CASE \E label \in {"idle", "rejected"}, stopped \in BOOLEAN :
             d = [gone EXCEPT !.stopped = stopped, !.label = label]
  <2>1. PICK label \in {"idle", "rejected"}, stopped \in BOOLEAN :
          d = [gone EXCEPT !.stopped = stopped, !.label = label]
    BY <1>9
  <2>2. d \in Channels
    <3>1. label \in {"idle", "connecting", "live", "retrying", "down", "rejected"}
      OBVIOUS
    <3>2. [gone EXCEPT !.stopped = stopped] \in Channels
      BY <1>3 DEF Channels
    <3>3. \A g \in Channels : [g EXCEPT !.label = label] \in Channels
      BY <3>1 DEF Channels
    <3>4. d = [[gone EXCEPT !.stopped = stopped] EXCEPT !.label = label]
      BY <2>1
    <3> QED BY <3>2, <3>3, <3>4
  <2>3. /\ d.sock = Null /\ d.conn = gone.conn /\ d.label # "retrying"
        /\ d.manualClose = c.manualClose /\ d.armed = c.armed
        /\ d.timer = c.timer /\ d.closed = c.closed /\ d.link = c.link
        /\ d.linkArmed = c.linkArmed /\ d.linkTimer = c.linkTimer
    BY <1>3, <1>4, <2>1 DEF Channels
  <2>4. StreamSound(c) /\ (c.sock = s \/ c.manualClose) => StreamSound(d)
    BY <1>4, <1>6, <2>3 DEF StreamSound, WantedOf
  <2>5. LinkSound(gone) => LinkSound(d)
    BY <1>4, <2>3 DEF LinkSound, WantedOf
  <2> QED BY <1>7, <2>2, <2>3, <2>4, <2>5 DEF d
<1>10. d = [gone EXCEPT !.label = "idle"] =>
         d = [gone EXCEPT !.stopped = gone.stopped, !.label = "idle"] /\ gone.stopped \in BOOLEAN
  BY <1>3 DEF Channels
<1> QED BY <1>5, <1>8, <1>9, <1>10

LEMMA ScheduleLinkSound ==
  ASSUME NEW c \in Channels, NEW t \in Timers
  PROVE  LET d == ScheduleLink(c, t) IN
         /\ d \in Channels
         /\ d.closed = c.closed /\ d.manualClose = c.manualClose
         /\ LinkSound(c) /\ c.link = Null => LinkSound(d)
         /\ StreamSound(c) => StreamSound(d)
<1>1. CASE c.closed \/ c.linkTimer # Null
  BY <1>1 DEF ScheduleLink
<1>2. CASE ~(c.closed \/ c.linkTimer # Null)
  <2> DEFINE d == [c EXCEPT !.linkTimer = t, !.linkArmed = @ \union {t}, !.linkLabel = "retrying"]
  <2>1. ScheduleLink(c, t) = d
    BY <1>2 DEF ScheduleLink
  <2>2. c.linkArmed \union {t} \in SUBSET Timers /\ t # Null
    BY ClientAssumption DEF Channels
  <2>3. d \in Channels
    BY <2>2 DEF Channels
  <2>4. /\ d.linkTimer = t /\ d.linkArmed = c.linkArmed \union {t} /\ d.link = c.link
        /\ d.closed = c.closed /\ d.conn = c.conn /\ d.sock = c.sock /\ d.label = c.label
        /\ d.manualClose = c.manualClose /\ d.armed = c.armed /\ d.timer = c.timer
    BY DEF Channels
  <2> HIDE DEF d
  <2> QED BY <1>2, <2>1, <2>2, <2>3, <2>4 DEF StreamSound, LinkSound, WantedOf
<1> QED BY <1>1, <1>2

\* The account channel dials only when no reconnect is pending.
LEMMA ConnectLinkSound ==
  ASSUME NEW c \in Channels, NEW e \in ConnectLink(c)
  PROVE  /\ e \in Channels
         /\ e.manualClose = c.manualClose
         /\ LinkSound(c) /\ (c.link # Null \/ c.linkArmed = {}) => LinkSound(e)
         /\ StreamSound(c) => StreamSound(e)
<1> DEFINE f == [c EXCEPT !.closed = FALSE]
<1>1. /\ f \in Channels /\ f.closed = FALSE
      /\ f.conn = c.conn /\ f.sock = c.sock /\ f.armed = c.armed /\ f.timer = c.timer
      /\ f.manualClose = c.manualClose /\ f.label = c.label /\ f.link = c.link
      /\ f.linkArmed = c.linkArmed /\ f.linkTimer = c.linkTimer
  BY DEF Channels
<1>2. \/ c.link # Null /\ e = f
      \/ c.link = Null /\ \E s \in Links : c.conn[s] = "free" /\ e = [f EXCEPT !.link = s, !.conn[s] = "dialing"]
      \/ c.link = Null /\ \E t \in Timers : e = ScheduleLink(f, t)
  BY DEF ConnectLink, IdleTimers
<1> HIDE DEF f
<1>3. (LinkSound(c) => LinkSound(f)) /\ (StreamSound(c) => StreamSound(f))
  BY <1>1 DEF LinkSound, StreamSound, WantedOf
<1>4. CASE c.link # Null /\ e = f
  BY <1>1, <1>3, <1>4
<1>5. CASE c.link = Null /\ \E t \in Timers : e = ScheduleLink(f, t)
  BY <1>1, <1>3, <1>5, ScheduleLinkSound
<1>6. ASSUME c.link = Null, NEW s \in Links, c.conn[s] = "free",
             e = [f EXCEPT !.link = s, !.conn[s] = "dialing"]
      PROVE  /\ e \in Channels
             /\ e.manualClose = c.manualClose
             /\ LinkSound(c) /\ (c.link # Null \/ c.linkArmed = {}) => LinkSound(e)
             /\ StreamSound(c) => StreamSound(e)
  <2>1. c.conn \in Conns
    BY DEF Channels, Conns
  <2>2. [c.conn EXCEPT ![s] = "dialing"] \in Conns
    BY <2>1 DEF Conns
  <2>3. e = [f EXCEPT !.link = s, !.conn = [c.conn EXCEPT ![s] = "dialing"]]
    BY <1>1, <1>6
  <2>4. e \in Channels
    BY <1>1, <2>2, <2>3 DEF Channels, Conns
  <2>5. /\ e.link = s /\ e.conn = [c.conn EXCEPT ![s] = "dialing"] /\ e.closed = FALSE
        /\ e.linkArmed = c.linkArmed /\ e.linkTimer = c.linkTimer
        /\ e.sock = c.sock /\ e.armed = c.armed /\ e.timer = c.timer
        /\ e.manualClose = c.manualClose /\ e.label = c.label
    BY <1>1, <2>3 DEF Channels
  <2>6. s # Null /\ s \notin Streams
    BY ClientAssumption
  <2>7. ASSUME LinkSound(c) PROVE WantedOf(e, Links) = {s}
    <3>1. WantedOf(c, Links) = {}
      BY <1>6, <2>7 DEF LinkSound
    <3> QED BY <2>1, <2>5, <3>1 DEF WantedOf, Conns
  <2>8. WantedOf(e, Streams) = WantedOf(c, Streams)
    BY <2>1, <2>5, <2>6 DEF WantedOf, Conns
  <2> QED BY <1>6, <2>4, <2>5, <2>6, <2>7, <2>8 DEF StreamSound, LinkSound
<1> QED BY <1>2, <1>4, <1>5, <1>6
-----------------------------------------------------------------------------
(* The callbacks.                                                          *)

LEMMA WebInitHolds == WebInit => WebInv
<1> SUFFICES ASSUME WebInit PROVE WebInv
  OBVIOUS
<1> DEFINE empty == [
        sock |-> Null, timer |-> Null, retries |-> 0, manualClose |-> FALSE,
        gotFrame |-> FALSE, stopped |-> FALSE, symbol |-> FALSE, label |-> "idle",
        link |-> Null, linkTimer |-> Null, closed |-> FALSE, linkLabel |-> "idle",
        conn |-> [s \in Streams \union Links |-> "free"], armed |-> {}, linkArmed |-> {}]
<1>1. /\ leaving = FALSE /\ late = FALSE
      /\ \/ page = "auth" /\ web = Teardown(empty)
         \/ page = "deck" /\ \E s \in Links : web = [empty EXCEPT !.link = s, !.conn[s] = "dialing"]
  BY DEF WebInit
<1>2. empty \in Channels
  BY ClientAssumption DEF Channels
<1>3. /\ empty.sock = Null /\ empty.armed = {} /\ empty.link = Null /\ empty.linkArmed = {}
      /\ empty.manualClose = FALSE /\ empty.closed = FALSE /\ empty.label = "idle"
      /\ empty.timer = Null /\ empty.linkTimer = Null
      /\ \A s \in Streams \union Links : empty.conn[s] = "free"
  OBVIOUS
<1> HIDE DEF empty
<1>4. StreamSound(empty) /\ LinkSound(empty)
  BY <1>3 DEF StreamSound, LinkSound, WantedOf
<1>5. CASE page = "auth" /\ web = Teardown(empty)
  <2>1. web \in Channels /\ web.manualClose /\ web.closed
    BY <1>2, <1>5, TeardownFields
  <2>2. StreamSound(web) /\ LinkSound(web)
    BY <1>2, <1>4, <1>5, TeardownSound
  <2> QED BY <1>1, <1>5, <2>1, <2>2 DEF WebInv, WebTypeOK, AuthIsClosed
<1>6. ASSUME page = "deck", NEW s \in Links, web = [empty EXCEPT !.link = s, !.conn[s] = "dialing"]
      PROVE  WebInv
  <2>1. [empty.conn EXCEPT ![s] = "dialing"] \in Conns /\ empty.conn \in Conns
    BY <1>2 DEF Channels, Conns
  <2>2. web = [empty EXCEPT !.link = s, !.conn = [empty.conn EXCEPT ![s] = "dialing"]]
    BY <1>2, <1>6 DEF Channels
  <2>3. web \in Channels
    BY <1>2, <2>1, <2>2 DEF Channels, Conns
  <2>4. /\ web.link = s /\ web.conn = [empty.conn EXCEPT ![s] = "dialing"] /\ web.sock = Null
        /\ web.armed = {} /\ web.linkArmed = {} /\ web.timer = Null /\ web.linkTimer = Null
        /\ web.manualClose = FALSE /\ web.closed = FALSE /\ web.label = "idle"
    BY <1>2, <1>3, <2>2 DEF Channels
  <2>5. s # Null /\ s \notin Streams
    BY ClientAssumption
  <2>6. WantedOf(web, Streams) = {} /\ WantedOf(web, Links) = {s}
    BY <1>3, <2>1, <2>4, <2>5 DEF WantedOf, Conns
  <2>7. StreamSound(web) /\ LinkSound(web)
    BY <2>4, <2>5, <2>6 DEF StreamSound, LinkSound
  <2> QED BY <1>1, <1>6, <2>3, <2>7 DEF WebInv, WebTypeOK, AuthIsClosed
<1> QED BY <1>1, <1>5, <1>6 DEF empty

\* Leaving the deck, and signing in.
LEMMA PagePreserves ==
  WebInv /\ (SignIn \/ SessionEnds \/ Logout \/ LogoutEnds) => WebInv'
<1> SUFFICES ASSUME WebInv, SignIn \/ SessionEnds \/ Logout \/ LogoutEnds PROVE WebInv'
  OBVIOUS
<1>1. /\ web \in Channels /\ page \in {"auth", "deck"} /\ leaving \in BOOLEAN /\ late \in BOOLEAN
      /\ ~late => StreamSound(web) /\ LinkSound(web) /\ AuthIsClosed
  BY DEF WebInv, WebTypeOK
<1>2. CASE SignIn
  <2>1. page = "auth" /\ page' = "deck" /\ web' \in ConnectLink(web) /\ UNCHANGED <<leaving, late>>
    BY <1>2 DEF SignIn, ShowDeck
  <2>2. ~late => web.linkArmed = {}
    BY <1>1, <2>1 DEF AuthIsClosed, LinkSound
  <2>3. web' \in Channels /\ (~late => LinkSound(web') /\ StreamSound(web'))
    BY <1>1, <2>1, <2>2, ConnectLinkSound
  <2> QED BY <1>1, <2>1, <2>3 DEF WebInv, WebTypeOK, AuthIsClosed, StreamSound, LinkSound, WantedOf
<1>3. CASE SessionEnds \/ Logout \/ LogoutEnds
  <2>1. web' = Teardown(web) /\ late' = late /\ page' \in {"auth", "deck"} /\ leaving' \in BOOLEAN
    BY <1>1, <1>3 DEF SessionEnds, Logout, LogoutEnds, ShowAuth
  <2>2. web' \in Channels /\ web'.manualClose /\ web'.closed
    BY <1>1, <2>1, TeardownFields
  <2>3. ~late => StreamSound(web') /\ LinkSound(web')
    BY <1>1, <2>1, TeardownSound
  <2> QED BY <1>1, <2>1, <2>2, <2>3
          DEF WebInv, WebTypeOK, AuthIsClosed, StreamSound, LinkSound, WantedOf
<1> QED BY <1>2, <1>3

\* Every callback that dials the stream has first let go of socket and timer.
LEMMA DialPreserves ==
  WebInv /\ (StreamInsight \/ RetryNow \/ Visible \/ NetworkBack \/ \E t \in Timers : RetryFires(t))
    => WebInv'
<1> SUFFICES ASSUME WebInv,
                    StreamInsight \/ RetryNow \/ Visible \/ NetworkBack
                      \/ \E t \in Timers : RetryFires(t)
             PROVE  WebInv'
  OBVIOUS
<1>1. /\ web \in Channels /\ page \in {"auth", "deck"} /\ leaving \in BOOLEAN /\ late \in BOOLEAN
      /\ ~late => StreamSound(web) /\ LinkSound(web) /\ AuthIsClosed
  BY DEF WebInv, WebTypeOK
\* What is common: c is what the callback leaves to wsConnect.
<1>2. ASSUME NEW c \in Channels, web' \in WsConnect(c), UNCHANGED <<page, leaving, late>>,
             ~late => /\ page = "deck" /\ LinkSound(c)
                      /\ c.sock = Null /\ c.armed = {} /\ WantedOf(c, Streams) = {}
      PROVE  WebInv'
  <2>1. web' \in Channels /\ (~late => StreamSound(web') /\ LinkSound(web'))
    BY <1>2, ConnectSound
  <2> QED BY <1>1, <1>2, <2>1 DEF WebInv, WebTypeOK, AuthIsClosed, StreamSound, LinkSound, WantedOf
<1>3. CASE StreamInsight
  <2> DEFINE c == [Teardown(web) EXCEPT !.symbol = TRUE, !.stopped = FALSE]
             d == Teardown(web)
  <2>1. page = "deck" /\ web' \in WsConnect(c) /\ UNCHANGED <<page, leaving, late>>
    BY <1>3 DEF StreamInsight
  <2>2. d \in Channels /\ d.sock = Null /\ (~late => StreamSound(d) /\ LinkSound(d)) /\ d.manualClose
    BY <1>1, TeardownFields, TeardownSound
  <2> HIDE DEF d
  <2>3. c = [d EXCEPT !.symbol = TRUE, !.stopped = FALSE]
    BY DEF d
  <2>4. /\ c \in Channels /\ c.sock = d.sock /\ c.armed = d.armed /\ c.conn = d.conn
        /\ c.link = d.link /\ c.linkArmed = d.linkArmed /\ c.linkTimer = d.linkTimer
        /\ c.closed = d.closed
    BY <2>2, <2>3 DEF Channels
  <2> HIDE DEF c
  <2>5. ~late => LinkSound(c) /\ c.sock = Null /\ c.armed = {} /\ WantedOf(c, Streams) = {}
    BY <2>2, <2>4 DEF LinkSound, StreamSound, WantedOf
  <2> QED BY <1>2, <2>1, <2>4, <2>5
<1>4. ASSUME NEW drop \in SUBSET Timers, NEW timer \in Timers \union {Null}, NEW retries \in 0..WS_MAX_RETRIES,
             web' \in WsConnect([web EXCEPT !.armed = @ \ drop, !.timer = timer, !.retries = retries]),
             UNCHANGED <<page, leaving, late>>,
             ~late => page = "deck" /\ web.sock = Null /\ web.armed \subseteq drop
      PROVE  WebInv'
  <2> DEFINE c == [web EXCEPT !.armed = @ \ drop, !.timer = timer, !.retries = retries]
  <2>1. web.armed \ drop \in SUBSET Timers
    BY <1>1 DEF Channels
  <2>2. c \in Channels
    BY <1>1, <2>1 DEF Channels
  <2>3. /\ c.sock = web.sock /\ c.armed = web.armed \ drop /\ c.conn = web.conn
        /\ c.link = web.link /\ c.linkArmed = web.linkArmed /\ c.linkTimer = web.linkTimer
        /\ c.closed = web.closed
    BY <1>1 DEF Channels
  <2> HIDE DEF c
  <2>4. ~late => LinkSound(c) /\ c.sock = Null /\ c.armed = {} /\ WantedOf(c, Streams) = {}
    BY <1>1, <1>4, <2>3 DEF LinkSound, StreamSound, WantedOf
  <2> QED BY <1>2, <1>4, <2>2, <2>4 DEF c
<1>5. web.armed \subseteq Timers /\ web.timer \in Timers \union {Null} /\ web.retries \in 0..WS_MAX_RETRIES
      /\ 0 \in 0..WS_MAX_RETRIES /\ Null \notin Timers
  BY <1>1, ClientAssumption DEF Channels
<1>6. ~late /\ page # "deck" => web.manualClose /\ web.sock = Null /\ web.armed = {}
  BY <1>1 DEF AuthIsClosed, StreamSound
<1>7. ~late => web.armed \subseteq {web.timer} \ {Null}
  BY <1>1 DEF StreamSound
<1>8. CASE RetryNow
  <2>1. /\ page = "deck" /\ web.label = "retrying"
        /\ web' \in WsConnect([web EXCEPT !.armed = @ \ {web.timer}])
        /\ UNCHANGED <<page, leaving, late>>
    BY <1>8 DEF RetryNow
  <2>2. ~late => web.sock = Null /\ web.armed \subseteq {web.timer} \intersect Timers
    BY <1>1, <1>5, <1>7, <2>1 DEF StreamSound
  <2>3. [web EXCEPT !.armed = @ \ {web.timer}]
          = [web EXCEPT !.armed = @ \ ({web.timer} \intersect Timers), !.timer = web.timer,
                        !.retries = web.retries]
    <3>1. web.armed \ {web.timer} = web.armed \ ({web.timer} \intersect Timers)
      BY <1>5
    <3> QED BY <1>1, <3>1 DEF Channels
  <2>4. {web.timer} \intersect Timers \in SUBSET Timers
    OBVIOUS
  <2> QED BY <1>4, <1>5, <2>1, <2>2, <2>3, <2>4
<1>9. CASE Visible
  <2>1. /\ Down /\ web.timer = Null
        /\ web' \in WsConnect([web EXCEPT !.retries = 0])
        /\ UNCHANGED <<page, leaving, late>>
    BY <1>9 DEF Visible
  <2>2. ~late => page = "deck" /\ web.sock = Null /\ web.armed = {}
    BY <1>6, <1>7, <2>1 DEF Down
  <2>3. [web EXCEPT !.retries = 0]
          = [web EXCEPT !.armed = @ \ {}, !.timer = web.timer, !.retries = 0]
    <3>1. web.armed = web.armed \ {}
      OBVIOUS
    <3> QED BY <1>1, <3>1 DEF Channels
  <2> QED BY <1>4, <1>5, <2>1, <2>2, <2>3
<1>10. CASE NetworkBack
  <2>1. /\ Down
        /\ web' \in WsConnect([web EXCEPT !.retries = 0, !.armed = @ \ {web.timer}, !.timer = Null])
        /\ UNCHANGED <<page, leaving, late>>
    BY <1>10 DEF NetworkBack
  <2>2. ~late => page = "deck" /\ web.sock = Null /\ web.armed \subseteq {web.timer} \intersect Timers
    BY <1>5, <1>6, <1>7, <2>1 DEF Down
  <2>3. [web EXCEPT !.retries = 0, !.armed = @ \ {web.timer}, !.timer = Null]
          = [web EXCEPT !.armed = @ \ ({web.timer} \intersect Timers), !.timer = Null, !.retries = 0]
    <3>1. web.armed \ {web.timer} = web.armed \ ({web.timer} \intersect Timers)
      BY <1>5
    <3> QED BY <1>1, <3>1 DEF Channels
  <2>4. {web.timer} \intersect Timers \in SUBSET Timers
    OBVIOUS
  <2> QED BY <1>4, <1>5, <2>1, <2>2, <2>3, <2>4
<1>11. ASSUME NEW t \in Timers, RetryFires(t) PROVE WebInv'
  <2>1. /\ t \in web.armed
        /\ web' \in WsConnect([web EXCEPT !.armed = @ \ {t}, !.timer = Null])
        /\ UNCHANGED <<page, leaving, late>>
    BY <1>11 DEF RetryFires
  <2>2. ~late => page = "deck" /\ web.sock = Null /\ web.armed \subseteq {t}
    BY <1>1, <1>6, <1>7, <2>1 DEF StreamSound
  <2>3. [web EXCEPT !.armed = @ \ {t}, !.timer = Null]
          = [web EXCEPT !.armed = @ \ {t}, !.timer = Null, !.retries = web.retries]
    BY <1>1 DEF Channels
  <2>4. {t} \in SUBSET Timers
    OBVIOUS
  <2> QED BY <1>4, <1>5, <2>1, <2>2, <2>3, <2>4
<1> QED BY <1>3, <1>8, <1>9, <1>10, <1>11

\* What the browser reports about a stream.
LEMMA StreamPreserves ==
  \A s \in Streams : WebInv /\ (StreamOpens(s) \/ StreamFrame(s) \/ StreamCloses(s)) => WebInv'
<1> SUFFICES ASSUME NEW s \in Streams, WebInv, StreamOpens(s) \/ StreamFrame(s) \/ StreamCloses(s)
             PROVE  WebInv'
  OBVIOUS
<1>1. /\ web \in Channels /\ page \in {"auth", "deck"} /\ leaving \in BOOLEAN /\ late \in BOOLEAN
      /\ ~late => StreamSound(web) /\ LinkSound(web) /\ AuthIsClosed
  BY DEF WebInv, WebTypeOK
<1>2. web.conn \in Conns /\ s # Null /\ s \notin Links
  BY <1>1, ClientAssumption DEF Channels, Conns
<1>3. CASE StreamOpens(s)
  <2>1. /\ web.conn[s] = "dialing" /\ UNCHANGED <<page, leaving, late>>
        /\ web' = [web EXCEPT !.conn[s] = "open", !.retries = 0, !.label = "live"]
    BY <1>3 DEF StreamOpens
  <2>2. web' = [web EXCEPT !.conn = [web.conn EXCEPT ![s] = "open"], !.retries = 0, !.label = "live"]
    BY <1>1, <2>1 DEF Channels
  <2>3. [web.conn EXCEPT ![s] = "open"] \in Conns /\ 0 \in 0..WS_MAX_RETRIES
    BY <1>2, ClientAssumption DEF Conns
  <2>4. web' \in Channels
    BY <1>1, <2>2, <2>3 DEF Channels, Conns
  <2>5. /\ web'.conn = [web.conn EXCEPT ![s] = "open"] /\ web'.label = "live"
        /\ web'.sock = web.sock /\ web'.armed = web.armed /\ web'.timer = web.timer
        /\ web'.manualClose = web.manualClose /\ web'.closed = web.closed
        /\ web'.link = web.link /\ web'.linkArmed = web.linkArmed
        /\ web'.linkTimer = web.linkTimer
    BY <1>1, <2>2 DEF Channels
  <2>6. {x \in Streams : web'.conn[x] \in {"dialing", "open"}} = WantedOf(web, Streams)
        /\ {x \in Links : web'.conn[x] \in {"dialing", "open"}} = WantedOf(web, Links)
    BY <1>2, <2>1, <2>5 DEF WantedOf, Conns
  <2> QED BY <1>1, <2>1, <2>4, <2>5, <2>6
          DEF WebInv, WebTypeOK, AuthIsClosed, StreamSound, LinkSound, WantedOf
<1>4. CASE StreamFrame(s)
  <2>1. web' = [web EXCEPT !.gotFrame = TRUE] /\ UNCHANGED <<page, leaving, late>>
    BY <1>4 DEF StreamFrame
  <2>2. /\ web' \in Channels
        /\ web'.conn = web.conn /\ web'.label = web.label
        /\ web'.sock = web.sock /\ web'.armed = web.armed /\ web'.timer = web.timer
        /\ web'.manualClose = web.manualClose /\ web'.closed = web.closed
        /\ web'.link = web.link /\ web'.linkArmed = web.linkArmed
        /\ web'.linkTimer = web.linkTimer
    BY <1>1, <2>1 DEF Channels
  <2> QED BY <1>1, <2>1, <2>2 DEF WebInv, WebTypeOK, AuthIsClosed, StreamSound, LinkSound, WantedOf
<1>5. CASE StreamCloses(s)
  <2>0. PICK code : \E t \in IdleTimers : web' = StreamOnClose(web, s, code, t)
    BY <1>5 DEF StreamCloses
  <2>1. PICK t \in IdleTimers : web' = StreamOnClose(web, s, code, t)
    BY <2>0
  <2>2. late' = (late \/ (web.sock # s /\ ~web.manualClose)) /\ UNCHANGED <<page, leaving>>
    BY <1>5 DEF StreamCloses
  <2>3. t \in Timers
    BY DEF IdleTimers
  <2>4. /\ web' \in Channels /\ web'.closed = web.closed /\ web'.manualClose = web.manualClose
        /\ StreamSound(web) /\ (web.sock = s \/ web.manualClose) => StreamSound(web')
        /\ LinkSound(web) => LinkSound(web')
    BY <1>1, <2>1, <2>3, OnCloseSound
  <2> QED BY <1>1, <2>2, <2>4 DEF WebInv, WebTypeOK, AuthIsClosed, StreamSound, LinkSound, WantedOf
<1> QED BY <1>3, <1>4, <1>5

\* What it reports about an account socket.
LEMMA LinkPreserves ==
  \A s \in Links : WebInv /\ (LinkOpens(s) \/ LinkCloses(s)) => WebInv'
<1> SUFFICES ASSUME NEW s \in Links, WebInv, LinkOpens(s) \/ LinkCloses(s) PROVE WebInv'
  OBVIOUS
<1>1. /\ web \in Channels /\ page \in {"auth", "deck"} /\ leaving \in BOOLEAN /\ late \in BOOLEAN
      /\ ~late => StreamSound(web) /\ LinkSound(web) /\ AuthIsClosed
  BY DEF WebInv, WebTypeOK
<1>2. web.conn \in Conns /\ s # Null /\ s \notin Streams
  BY <1>1, ClientAssumption DEF Channels, Conns
<1>3. CASE LinkOpens(s)
  <2>1. /\ web.conn[s] = "dialing" /\ UNCHANGED <<page, leaving, late>>
        /\ web' = [web EXCEPT !.conn[s] = "open", !.linkLabel = "live"]
    BY <1>3 DEF LinkOpens
  <2>2. web' = [web EXCEPT !.conn = [web.conn EXCEPT ![s] = "open"], !.linkLabel = "live"]
    BY <1>1, <2>1 DEF Channels
  <2>3. [web.conn EXCEPT ![s] = "open"] \in Conns
    BY <1>2 DEF Conns
  <2>4. web' \in Channels
    BY <1>1, <2>2, <2>3 DEF Channels, Conns
  <2>5. /\ web'.conn = [web.conn EXCEPT ![s] = "open"] /\ web'.label = web.label
        /\ web'.sock = web.sock /\ web'.armed = web.armed /\ web'.timer = web.timer
        /\ web'.manualClose = web.manualClose /\ web'.closed = web.closed
        /\ web'.link = web.link /\ web'.linkArmed = web.linkArmed
        /\ web'.linkTimer = web.linkTimer
    BY <1>1, <2>2 DEF Channels
  <2>6. {x \in Streams : web'.conn[x] \in {"dialing", "open"}} = WantedOf(web, Streams)
        /\ {x \in Links : web'.conn[x] \in {"dialing", "open"}} = WantedOf(web, Links)
    BY <1>2, <2>1, <2>5 DEF WantedOf, Conns
  <2> QED BY <1>1, <2>1, <2>4, <2>5, <2>6
          DEF WebInv, WebTypeOK, AuthIsClosed, StreamSound, LinkSound, WantedOf
<1>4. CASE LinkCloses(s)
  <2> DEFINE c == [web EXCEPT !.conn[s] = "free", !.link = Null]
  <2>1. PICK t \in IdleTimers : web' = ScheduleLink(c, t)
    BY <1>4 DEF LinkCloses
  <2>2. late' = (late \/ (web.link # s /\ ~web.closed)) /\ UNCHANGED <<page, leaving>>
    BY <1>4 DEF LinkCloses
  <2>3. t \in Timers
    BY DEF IdleTimers
  <2>4. [web.conn EXCEPT ![s] = "free"] \in Conns
    BY <1>2 DEF Conns
  <2>5. c = [web EXCEPT !.conn = [web.conn EXCEPT ![s] = "free"], !.link = Null]
    BY <1>1 DEF Channels
  <2>6. /\ c \in Channels
        /\ c.conn = [web.conn EXCEPT ![s] = "free"] /\ c.link = Null /\ c.label = web.label
        /\ c.sock = web.sock /\ c.armed = web.armed /\ c.timer = web.timer
        /\ c.manualClose = web.manualClose /\ c.closed = web.closed
        /\ c.linkArmed = web.linkArmed /\ c.linkTimer = web.linkTimer
    BY <1>1, <2>4, <2>5 DEF Channels, Conns
  <2> HIDE DEF c
  <2>7. WantedOf(c, Streams) = WantedOf(web, Streams)
    BY <1>2, <2>6 DEF WantedOf, Conns
  <2>8. StreamSound(web) => StreamSound(c)
    BY <2>6, <2>7 DEF StreamSound
  <2>9. ASSUME LinkSound(web), web.link = s \/ web.closed PROVE LinkSound(c)
    <3>1. WantedOf(web, Links) \subseteq {s} /\ web.linkArmed = {}
      BY <1>2, <2>9 DEF LinkSound
    <3>2. WantedOf(c, Links) = {}
      BY <1>2, <2>6, <3>1 DEF WantedOf, Conns
    <3> QED BY <2>6, <3>1, <3>2 DEF LinkSound
  <2>10. /\ web' \in Channels /\ web'.closed = c.closed /\ web'.manualClose = c.manualClose
         /\ LinkSound(c) => LinkSound(web')
         /\ StreamSound(c) => StreamSound(web')
    BY <2>1, <2>3, <2>6, ScheduleLinkSound
  <2> QED BY <1>1, <2>2, <2>6, <2>8, <2>9, <2>10
          DEF WebInv, WebTypeOK, AuthIsClosed, StreamSound, LinkSound, WantedOf
<1> QED BY <1>3, <1>4

LEMMA LinkRetryPreserves == \A t \in Timers : WebInv /\ LinkRetryFires(t) => WebInv'
<1> SUFFICES ASSUME NEW t \in Timers, WebInv, LinkRetryFires(t) PROVE WebInv'
  OBVIOUS
<1>1. /\ web \in Channels /\ page \in {"auth", "deck"} /\ leaving \in BOOLEAN /\ late \in BOOLEAN
      /\ ~late => StreamSound(web) /\ LinkSound(web) /\ AuthIsClosed
  BY DEF WebInv, WebTypeOK
<1> DEFINE c == [web EXCEPT !.linkArmed = @ \ {t}, !.linkTimer = Null]
<1>2. /\ t \in web.linkArmed /\ web' \in ConnectLink(c) /\ UNCHANGED <<page, leaving, late>>
  BY DEF LinkRetryFires
<1>3. web.linkArmed \ {t} \in SUBSET Timers
  BY <1>1 DEF Channels
<1>4. c \in Channels
  BY <1>1, <1>3 DEF Channels
<1>5. /\ c.linkArmed = web.linkArmed \ {t} /\ c.linkTimer = Null
      /\ c.conn = web.conn /\ c.link = web.link /\ c.label = web.label
      /\ c.sock = web.sock /\ c.armed = web.armed /\ c.timer = web.timer
      /\ c.manualClose = web.manualClose /\ c.closed = web.closed
  BY <1>1 DEF Channels
<1> HIDE DEF c
<1>6. ~late => StreamSound(c) /\ LinkSound(c) /\ c.linkArmed = {} /\ page = "deck"
  BY <1>1, <1>2, <1>5 DEF StreamSound, LinkSound, WantedOf, AuthIsClosed
<1>7. web' \in Channels /\ (~late => StreamSound(web') /\ LinkSound(web'))
  BY <1>2, <1>4, <1>6, ConnectLinkSound
<1> QED BY <1>1, <1>2, <1>6, <1>7 DEF WebInv, WebTypeOK, AuthIsClosed, StreamSound, LinkSound, WantedOf

LEMMA WebInductive == WebInv /\ [WebNext]_webVars => WebInv'
<1> SUFFICES ASSUME WebInv, [WebNext]_webVars PROVE WebInv'
  OBVIOUS
<1>1. CASE UNCHANGED webVars
  BY <1>1 DEF WebInv, WebTypeOK, AuthIsClosed, StreamSound, LinkSound, WantedOf, webVars
<1>2. CASE WebNext
  BY <1>2, PagePreserves, DialPreserves, StreamPreserves, LinkPreserves, LinkRetryPreserves
     DEF WebNext
<1> QED BY <1>1, <1>2

LEMMA WebInvariance == WebSpec => []WebInv
<1> QED BY WebInitHolds, WebInductive, PTL DEF WebSpec
-----------------------------------------------------------------------------
\* The objects of the page keep their types; the retries stay within their limit.
THEOREM WebTypeCorrect == WebSpec => []WebTypeOK
<1>1. WebInv => WebTypeOK
  BY DEF WebInv
<1> QED BY <1>1, WebInvariance, PTL

\* One socket or one pending reconnect per channel, for every number of retries
\* and of sockets the browser may still be closing.
THEOREM OneChannel == WebSpec => []OneChannelEach
<1>1. WebInv => OneChannelEach
  <2> SUFFICES ASSUME WebInv, ~late PROVE OneChannelEach
    BY DEF OneChannelEach
  <2>1. StreamSound(web) /\ LinkSound(web)
    BY DEF WebInv
  <2>2. Wanted(Streams) = {web.sock} \ {Null} /\ Wanted(Links) = {web.link} \ {Null}
    BY <2>1 DEF StreamSound, LinkSound, WantedOf, Wanted
  <2>3. /\ Cardinality({}) = 0
        /\ \A x : Cardinality({x}) = 1
    BY FS_EmptySet, FS_Singleton
  <2>4. \/ Wanted(Streams) = {} /\ (web.armed = {} \/ web.armed = {web.timer})
        \/ Wanted(Streams) = {web.sock} /\ web.armed = {}
    BY <2>1, <2>2 DEF StreamSound
  <2>5. \/ Wanted(Links) = {} /\ (web.linkArmed = {} \/ web.linkArmed = {web.linkTimer})
        \/ Wanted(Links) = {web.link} /\ web.linkArmed = {}
    BY <2>1, <2>2 DEF LinkSound
  <2>6. Cardinality(Wanted(Streams)) + Cardinality(web.armed) <= 1
    <3>1. CASE Wanted(Streams) = {} /\ web.armed = {}
      BY <2>3, <3>1
    <3>2. CASE Wanted(Streams) = {} /\ web.armed = {web.timer}
      <4>1. Cardinality(Wanted(Streams)) = 0 /\ Cardinality(web.armed) = 1
        BY ONLY <2>3, <3>2, Zenon
      <4> QED BY <4>1
    <3>3. CASE Wanted(Streams) = {web.sock} /\ web.armed = {}
      <4>1. Cardinality(Wanted(Streams)) = 1 /\ Cardinality(web.armed) = 0
        BY ONLY <2>3, <3>3, Zenon
      <4> QED BY <4>1
    <3> QED BY <2>4, <3>1, <3>2, <3>3
  <2>7. Cardinality(Wanted(Links)) + Cardinality(web.linkArmed) <= 1
    <3>1. CASE Wanted(Links) = {} /\ web.linkArmed = {}
      BY <2>3, <3>1
    <3>2. CASE Wanted(Links) = {} /\ web.linkArmed = {web.linkTimer}
      <4>1. Cardinality(Wanted(Links)) = 0 /\ Cardinality(web.linkArmed) = 1
        BY ONLY <2>3, <3>2, Zenon
      <4> QED BY <4>1
    <3>3. CASE Wanted(Links) = {web.link} /\ web.linkArmed = {}
      <4>1. Cardinality(Wanted(Links)) = 1 /\ Cardinality(web.linkArmed) = 0
        BY ONLY <2>3, <3>3, Zenon
      <4> QED BY <4>1
    <3> QED BY <2>5, <3>1, <3>2, <3>3
  <2> QED BY <2>2, <2>6, <2>7 DEF OneChannelEach
<1> QED BY <1>1, WebInvariance, PTL

\* The sign-in page keeps no socket and no timer, however the deck was left and
\* whatever the browser still reports.
THEOREM SignedOut == WebSpec => []SignedOutIsSilent
<1>1. WebInv => SignedOutIsSilent
  <2> SUFFICES ASSUME WebInv, page = "auth", ~late
               PROVE  /\ Wanted(Streams \union Links) = {}
                      /\ web.armed \union web.linkArmed = {}
                      /\ ~Down
    BY DEF SignedOutIsSilent
  <2>1. StreamSound(web) /\ LinkSound(web) /\ web.manualClose /\ web.closed
    BY DEF WebInv, AuthIsClosed
  <2>2. WantedOf(web, Streams) = {} /\ WantedOf(web, Links) = {}
    BY <2>1 DEF StreamSound, LinkSound
  <2> QED BY <2>1, <2>2 DEF StreamSound, LinkSound, Wanted, WantedOf, Down
<1> QED BY <1>1, WebInvariance, PTL
-----------------------------------------------------------------------------
(* AlertSweep.                                                             *)

\* A row the running sweep has read is still that row, or it is gone for good:
\* no other alert takes its place under the sweep.
NotReused ==
  running => sweep > 0 /\ \A a \in Alerts : Present(loaded[a]) => rows[a] \in {loaded[a], Deleted}

\* What the session has marked was sent, as long as the session is of any use.
MarkedIsSent ==
  running /\ ~broken =>
    \A a \in marked \union due :
      \E p \in pushes : p.alert = a /\ p.user = loaded[a].user /\ p.at = sweep

AlertInv == AlertTypeOK /\ NotReused /\ MarkedIsSent /\ MarkImpliesPush /\ missed = {}
-----------------------------------------------------------------------------
LEMMA AlertInitHolds == AlertInit => AlertInv
<1> SUFFICES ASSUME AlertInit PROVE AlertInv
  OBVIOUS
<1>1. /\ rows = [a \in Alerts |-> Nothing] /\ sweep = 0 /\ loaded = rows /\ ~running /\ ~broken
      /\ queue = {} /\ marked = {} /\ pushes = {} /\ missed = {} /\ due = {}
      /\ running \in BOOLEAN /\ broken \in BOOLEAN
  BY DEF AlertInit
<1>2. sweep \in 0..MaxSweeps
  BY <1>1, AlertAssumption
<1>3. AlertTypeOK
  BY <1>1, <1>2 DEF AlertTypeOK
<1>4. MarkImpliesPush
  BY <1>1 DEF MarkImpliesPush, Present
<1> QED BY <1>1, <1>3, <1>4 DEF AlertInv, NotReused, MarkedIsSent

LEMMA CreatePreserves ==
  \A a \in Alerts, row \in NewRows : AlertInv /\ Create(a, row) => AlertInv'
<1> SUFFICES ASSUME NEW a \in Alerts, NEW row \in NewRows, AlertInv, Create(a, row) PROVE AlertInv'
  OBVIOUS
<1>1. /\ rows[a] = Nothing /\ rows' = [rows EXCEPT ![a] = row]
      /\ UNCHANGED <<sweep, loaded, queue, marked, broken, running, pushes, missed, due>>
  BY DEF Create, sweepVars
<1>2. row \in Alert /\ row.last_triggered_at = 0
  BY NewRowsAssumption
<1>3. rows \in [Alerts -> Alert \union {Nothing, Deleted}]
  BY DEF AlertInv, AlertTypeOK
<1>4. AlertTypeOK'
  BY <1>1, <1>2, <1>3 DEF AlertInv, AlertTypeOK, Present
<1>5. NotReused'
  BY <1>1, <1>3, AlertAssumption DEF AlertInv, NotReused, Present
<1>6. MarkedIsSent'
  BY <1>1 DEF AlertInv, MarkedIsSent
<1>7. MarkImpliesPush'
  BY <1>1, <1>2, <1>3 DEF AlertInv, MarkImpliesPush, Present
<1> QED BY <1>1, <1>4, <1>5, <1>6, <1>7 DEF AlertInv

LEMMA DeletePreserves ==
  \A a \in Alerts, u \in Owners : AlertInv /\ DeleteAlert(a, u) => AlertInv'
<1> SUFFICES ASSUME NEW a \in Alerts, NEW u \in Owners, AlertInv, DeleteAlert(a, u) PROVE AlertInv'
  OBVIOUS
<1>1. /\ rows' = [rows EXCEPT ![a] = Deleted]
      /\ UNCHANGED <<sweep, loaded, queue, marked, broken, running, pushes, missed, due>>
  BY DEF DeleteAlert, sweepVars
<1>2. rows \in [Alerts -> Alert \union {Nothing, Deleted}]
  BY DEF AlertInv, AlertTypeOK
<1>3. AlertTypeOK'
  BY <1>1, <1>2 DEF AlertInv, AlertTypeOK, Present
<1>4. NotReused'
  BY <1>1, <1>2 DEF AlertInv, NotReused, Present
<1>5. MarkedIsSent'
  BY <1>1 DEF AlertInv, MarkedIsSent
<1>6. MarkImpliesPush'
  BY <1>1, <1>2 DEF AlertInv, MarkImpliesPush, Present
<1> QED BY <1>1, <1>3, <1>4, <1>5, <1>6 DEF AlertInv

LEMMA StartPreserves == AlertInv /\ StartSweep => AlertInv'
<1> SUFFICES ASSUME AlertInv, StartSweep PROVE AlertInv'
  OBVIOUS
<1>1. /\ sweep < MaxSweeps /\ running' = TRUE /\ sweep' = sweep + 1 /\ loaded' = rows
      /\ queue' = {a \in Alerts : Present(rows[a]) /\ rows[a].is_active}
      /\ marked' = {} /\ broken' = FALSE /\ due' = {}
      /\ UNCHANGED <<rows, pushes, missed>>
  BY DEF StartSweep
<1>2. sweep' \in 0..MaxSweeps /\ 1..sweep \subseteq 1..sweep'
  BY <1>1, AlertAssumption DEF AlertInv, AlertTypeOK
<1>3. AlertTypeOK'
  <2>1. \A a \in queue' \union marked' : Present(loaded'[a])
    BY <1>1 DEF Present
  <2>2. pushes' \subseteq [alert : Alerts, user : Owners, at : 1..sweep']
    BY <1>1, <1>2 DEF AlertInv, AlertTypeOK
  <2> QED BY <1>1, <1>2, <2>1, <2>2 DEF AlertInv, AlertTypeOK, Present
<1>4. NotReused' /\ MarkedIsSent'
  BY <1>1, <1>2 DEF NotReused, MarkedIsSent, AlertInv, AlertTypeOK
<1>5. MarkImpliesPush' /\ missed' = {}
  BY <1>1 DEF AlertInv, MarkImpliesPush, Present
<1> QED BY <1>3, <1>4, <1>5 DEF AlertInv

LEMMA SkipPreserves == \A a \in Alerts : AlertInv /\ SkipAlert(a) => AlertInv'
<1> SUFFICES ASSUME NEW a \in Alerts, AlertInv, SkipAlert(a) PROVE AlertInv'
  OBVIOUS
<1>1. /\ queue' = queue \ {a}
      /\ UNCHANGED <<rows, sweep, loaded, marked, broken, running, pushes, missed, due>>
  BY DEF SkipAlert
<1>2. AlertTypeOK'
  BY <1>1 DEF AlertInv, AlertTypeOK, Present
<1> QED BY <1>1, <1>2 DEF AlertInv, NotReused, MarkedIsSent, MarkImpliesPush, Present

\* With an address and one working sink a push does not fail.
LEMMA SinkReaches ==
  ASSUME NEW u \in Owners, NEW online \in BOOLEAN, NEW working \in SUBSET Sinks,
         Arrival(u, online, working) = "failed"
  PROVE  working = {}
<1>1. ~Notify(u, working) /\ u \notin Mailless
  BY DEF Arrival
<1> QED BY <1>1 DEF Notify

LEMMA TriggerPreserves ==
  \A a \in Alerts, flushes \in BOOLEAN, online \in BOOLEAN, working \in SUBSET Sinks :
    AlertInv /\ TriggerAlert(a, flushes, online, working) => AlertInv'
<1> SUFFICES ASSUME NEW a \in Alerts, NEW flushes \in BOOLEAN, NEW online \in BOOLEAN,
                    NEW working \in SUBSET Sinks, AlertInv,
                    TriggerAlert(a, flushes, online, working)
             PROVE  AlertInv'
  OBVIOUS
<1> DEFINE u == loaded[a].user
           push == [alert |-> a, user |-> u, at |-> sweep]
<1>1. /\ running /\ a \in queue /\ queue' = queue \ {a} /\ due' = due \union {a}
      /\ marked' = marked \union {a} /\ broken' = (broken \/ (flushes /\ Gone(marked')))
      /\ pushes' = IF broken' THEN pushes ELSE pushes \union {push}
      /\ missed' = IF ~broken' /\ Arrival(u, online, working) = "failed" /\ working # {}
                     THEN missed \union {push} ELSE missed
      /\ UNCHANGED <<rows, sweep, loaded, running>>
  BY DEF TriggerAlert
<1>2. Present(loaded[a]) /\ loaded[a] \in Alert /\ u \in Owners
  BY <1>1 DEF AlertInv, AlertTypeOK, Present, Alert
<1>3. sweep \in 1..sweep
  BY <1>1 DEF AlertInv, AlertTypeOK, NotReused
<1>4. missed' = {}
  BY <1>1, <1>2, SinkReaches DEF AlertInv
<1>5. AlertTypeOK'
  <2>1. push \in [alert : Alerts, user : Owners, at : 1..sweep]
    BY <1>2, <1>3
  <2> HIDE DEF push
  <2>2. pushes' \subseteq [alert : Alerts, user : Owners, at : 1..sweep']
    BY <1>1, <2>1 DEF AlertInv, AlertTypeOK
  <2>3. broken' \in BOOLEAN
    BY <1>1 DEF AlertInv, AlertTypeOK
  <2>4. \A b \in queue' \union marked' : Present(loaded'[b])
    BY <1>1 DEF AlertInv, AlertTypeOK, Present
  <2> QED BY <1>1, <1>4, <2>2, <2>3, <2>4 DEF AlertInv, AlertTypeOK
<1>6. NotReused'
  BY <1>1 DEF AlertInv, NotReused, Present
<1>7. MarkedIsSent'
  <2> SUFFICES ASSUME ~broken', NEW b \in (marked \union due) \union {a}
               PROVE  \E p \in pushes' : p.alert = b /\ p.user = loaded[b].user /\ p.at = sweep
    BY <1>1 DEF MarkedIsSent
  <2>1. ~broken /\ pushes' = pushes \union {push}
    BY <1>1
  <2>2. CASE b = a
    <3>1. push.alert = b /\ push.user = loaded[b].user /\ push.at = sweep /\ push \in pushes'
      BY <2>1, <2>2
    <3> QED BY <3>1
  <2>3. CASE b # a
    BY <1>1, <2>1, <2>3 DEF AlertInv, MarkedIsSent
  <2> QED BY <2>2, <2>3
<1>8. MarkImpliesPush'
  <2>1. pushes \subseteq pushes'
    BY <1>1
  <2> QED BY <1>1, <2>1 DEF AlertInv, MarkImpliesPush, Present
<1> QED BY <1>4, <1>5, <1>6, <1>7, <1>8 DEF AlertInv

LEMMA CommitPreserves == AlertInv /\ CommitMarks => AlertInv'
<1> SUFFICES ASSUME AlertInv, CommitMarks PROVE AlertInv'
  OBVIOUS
<1>1. /\ running /\ running' = FALSE
      /\ rows' = IF broken \/ Gone(marked) THEN rows
                 ELSE [a \in Alerts |->
                         IF a \in marked THEN [rows[a] EXCEPT !.last_triggered_at = sweep]
                         ELSE rows[a]]
      /\ UNCHANGED <<sweep, loaded, queue, marked, broken, pushes, missed, due>>
  BY DEF CommitMarks
<1>2. NotReused' /\ MarkedIsSent' /\ missed' = {}
  BY <1>1 DEF AlertInv, NotReused, MarkedIsSent
<1>3. CASE broken \/ Gone(marked)
  <2>1. rows' = rows
    BY <1>1, <1>3
  <2>2. AlertTypeOK'
    <3>1. /\ UNCHANGED <<rows, sweep, loaded, queue, marked, broken, pushes, missed, due>>
          /\ running' \in BOOLEAN
      BY <1>1, <2>1
    <3> QED BY <3>1 DEF AlertInv, AlertTypeOK, Present
  <2>3. MarkImpliesPush'
    <3>1. UNCHANGED <<rows, pushes>>
      BY <1>1, <2>1
    <3> QED BY <3>1 DEF AlertInv, MarkImpliesPush, Present
  <2> QED BY <1>2, <2>2, <2>3 DEF AlertInv
<1>4. CASE ~broken /\ ~Gone(marked)
  <2>1. \A a \in Alerts : rows'[a] = IF a \in marked THEN [rows[a] EXCEPT !.last_triggered_at = sweep]
                                     ELSE rows[a]
    BY <1>1, <1>4
  \* A marked row is the one the sweep has read.
  <2>2. ASSUME NEW a \in marked
        PROVE  a \in Alerts /\ rows[a] = loaded[a] /\ rows[a] \in Alert /\ sweep \in 0..MaxSweeps
    <3>1. a \in Alerts /\ Present(loaded[a]) /\ sweep \in 0..MaxSweeps
      BY DEF AlertInv, AlertTypeOK
    <3>2. rows[a] = loaded[a]
      BY <1>1, <1>4, <3>1 DEF AlertInv, NotReused, Gone
    <3> QED BY <3>1, <3>2 DEF AlertInv, AlertTypeOK, Present
  <2>3. ASSUME NEW a \in marked
        PROVE  /\ rows'[a] \in Alert /\ rows'[a].user = loaded[a].user
               /\ rows'[a].last_triggered_at = sweep
    BY <2>1, <2>2 DEF Alert
  <2>4. AlertTypeOK'
    <3>1. rows' \in [Alerts -> Alert \union {Nothing, Deleted}]
      <4>1. ASSUME NEW a \in Alerts PROVE rows'[a] \in Alert \union {Nothing, Deleted}
        BY <2>1, <2>3 DEF AlertInv, AlertTypeOK
      <4>2. DOMAIN rows' = Alerts /\ rows' = [a \in DOMAIN rows' |-> rows'[a]]
        BY <1>1, <1>4
      <4> QED BY <4>1, <4>2
    <3> QED BY <1>1, <3>1 DEF AlertInv, AlertTypeOK, Present
  <2>5. MarkImpliesPush'
    <3> SUFFICES ASSUME NEW a \in Alerts, Present(rows'[a]), rows'[a].last_triggered_at > 0
                 PROVE  \E p \in pushes : /\ p.alert = a /\ p.user = rows'[a].user
                                          /\ p.at = rows'[a].last_triggered_at
      BY <1>1 DEF MarkImpliesPush, Present
    <3>1. CASE a \in marked
      <4>1. PICK p \in pushes : p.alert = a /\ p.user = loaded[a].user /\ p.at = sweep
        BY <1>1, <1>4, <3>1 DEF AlertInv, MarkedIsSent
      <4>2. rows'[a].user = loaded[a].user /\ rows'[a].last_triggered_at = sweep
        BY <2>3, <3>1
      <4> QED BY <4>1, <4>2
    <3>2. CASE a \notin marked
      <4>1. rows'[a] = rows[a]
        BY <2>1, <3>2
      <4> QED BY <4>1 DEF AlertInv, MarkImpliesPush, Present
    <3> QED BY <3>1, <3>2
  <2> QED BY <1>2, <2>4, <2>5 DEF AlertInv
<1> QED BY <1>3, <1>4

LEMMA SweepCrashPreserves == AlertInv /\ SweepCrashes => AlertInv'
<1> SUFFICES ASSUME AlertInv, SweepCrashes PROVE AlertInv'
  OBVIOUS
<1>1. /\ running' = FALSE /\ marked' = {}
      /\ UNCHANGED <<rows, sweep, loaded, queue, broken, pushes, missed, due>>
  BY DEF SweepCrashes
<1> QED BY <1>1 DEF AlertInv, AlertTypeOK, NotReused, MarkedIsSent, MarkImpliesPush, Present

LEMMA AlertInductive == AlertInv /\ [AlertNext]_alertVars => AlertInv'
<1> SUFFICES ASSUME AlertInv, [AlertNext]_alertVars PROVE AlertInv'
  OBVIOUS
<1>1. CASE UNCHANGED alertVars
  BY <1>1 DEF AlertInv, AlertTypeOK, NotReused, MarkedIsSent, MarkImpliesPush, Present, alertVars
<1>2. CASE AlertNext
  BY <1>2, CreatePreserves, DeletePreserves, StartPreserves, SkipPreserves, TriggerPreserves,
     CommitPreserves, SweepCrashPreserves DEF AlertNext
<1> QED BY <1>1, <1>2

LEMMA AlertInvariance == AlertSpec => []AlertInv
<1> QED BY AlertInitHolds, AlertInductive, PTL DEF AlertSpec
-----------------------------------------------------------------------------
\* The alert table, the sweep and the log of pushes keep their types.
THEOREM AlertTypeCorrect == AlertSpec => []AlertTypeOK
<1>1. AlertInv => AlertTypeOK
  BY DEF AlertInv
<1> QED BY <1>1, AlertInvariance, PTL

\* A saved last_triggered_at stands for a push to the alert's owner in that sweep,
\* for every table, every deletion under the sweep and every crash.
THEOREM MarksWerePushed == AlertSpec => []MarkImpliesPush
<1>1. AlertInv => MarkImpliesPush
  BY DEF AlertInv
<1> QED BY <1>1, AlertInvariance, PTL

\* What the sweep found true has been sent while its session is sound, and no
\* reachable user is missed whatever sinks are configured and whichever work.
THEOREM TriggeredIsSent == AlertSpec => []TriggeredAlertArrives
<1>1. AlertInv => TriggeredAlertArrives
  BY DEF AlertInv, MarkedIsSent, TriggeredAlertArrives
<1> QED BY <1>1, AlertInvariance, PTL
-----------------------------------------------------------------------------
(* The three parts side by side.                                           *)

PushInv == DeliveryInv /\ WebInv /\ AlertInv

LEMMA PushInvariance == Spec => []PushInv
<1>1. Init => PushInv
  BY DeliveryInitHolds, WebInitHolds, AlertInitHolds DEF Init, PushInv
<1>2. PushInv /\ [Next]_pushVars => PushInv'
  <2> SUFFICES ASSUME PushInv, [Next]_pushVars PROVE PushInv'
    OBVIOUS
  <2>1. /\ [DeliveryNext]_deliveryVars
        /\ [WebNext]_webVars
        /\ [AlertNext]_alertVars
    BY DEF Next, pushVars
  <2> QED BY <2>1, DeliveryInductive, WebInductive, AlertInductive DEF PushInv
<1> QED BY <1>1, <1>2, PTL DEF Spec

\* Delivery, page and sweep keep their types, whichever of them moves.
THEOREM PushTypeCorrect == Spec => []TypeOK
<1>1. PushInv => TypeOK
  BY DEF PushInv, DeliveryInv, WebInv, AlertInv, TypeOK
<1> QED BY <1>1, PushInvariance, PTL
=============================================================================
