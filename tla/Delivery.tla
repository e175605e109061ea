------------------------------ MODULE Delivery ------------------------------
(***************************************************************************)
(* How frames reach the browsers of one user: the socket registry of every *)
(* worker (ConnectionManager), the presence count in Redis, the fan-out    *)
(* over pub/sub (WsBroadcaster) and the fallback to e-mail and webhook.    *)
(*                                                                         *)
(* The handler of a socket, the tasks that send, and other workers run     *)
(* between any two awaits: the registry and the count are never changed    *)
(* together.  A socket is a place for one connection at a time.            *)
(***************************************************************************)
EXTENDS Integers, FiniteSets

CONSTANTS
  Workers,   \* API workers, and a queue worker if there is one
  Offline,   \* workers that never call WsBroadcaster.start (the queue worker)
  Sockets,   \* connections of the user
  Frames,    \* frames that are sent, each once
  Critical,  \* those sent with deliver_alert
  MaxFaults, \* bound: crashes and outages
  None       \* no worker, no key

ASSUME SetsAssumption == Offline \subseteq Workers /\ Critical \subseteq Frames
ASSUME NoneAssumption == None \notin Workers \union Int
ASSUME SocketsAssumption == IsFiniteSet(Sockets)
ASSUME BoundAssumption == MaxFaults \in Nat

VARIABLES
  serving,   \* the worker of each socket
  pc,        \* what the handler of each socket is doing
  alive,     \* sockets whose client is still there
  active,    \* sockets in the _active of their worker
  removal,   \* what remains of a socket's _presence_decr
  count,     \* the presence key, None when it does not exist
  ttl,       \* it has an expiry
  redis,     \* Redis can be reached
  sub,       \* the subscriber of each worker
  channel,   \* frames on their way to each subscriber
  stage,     \* what the sender of each frame is doing
  sender,    \* the worker it runs on
  got,       \* sockets each frame was sent to
  told,      \* frames handed to the notifier
  steady,    \* sockets that were up ever since the frame was raised
  alone,     \* frames during which the user had no connection at all
  leaks,     \* why the count may be too high
  faults     \* crashes and outages so far

socketVars == <<serving, pc, alive, active, removal>>
countVars == <<count, ttl, leaks>>
busVars == <<redis, sub, channel, faults>>
frameVars == <<stage, sender, got, told>>
watchVars == <<steady, alone>>
deliveryVars == <<socketVars, countVars, busVars, frameVars, watchVars>>

Local(w) == {s \in active : serving[s] = w}
Free(s) == pc[s] = "off" /\ removal[s] = "none"
\* Redis answers 0 for a counter that does not exist.
Value == IF count = None THEN 0 ELSE count
\* Sockets the count may hold: registered, or about to be discounted.
Counted == active \union {s \in Sockets : removal[s] = "decr"}
-----------------------------------------------------------------------------
(* A socket's handler.                                                     *)

\* account_ws or insights_ws accepts the user and registers the socket.
Connect(s, w) ==
  /\ Free(s)
  /\ w \notin Offline
  /\ serving' = [serving EXCEPT ![s] = w]
  /\ pc' = [pc EXCEPT ![s] = "incr"]
  /\ alive' = alive \union {s}
  /\ active' = active \union {s}
  /\ UNCHANGED <<removal, countVars, busVars, frameVars>>

\* INCR of _presence_incr; an outage is suppressed.  A socket that was pruned and
\* discounted before this stays counted.
Incr(s) ==
  /\ pc[s] = "incr"
  /\ IF redis
       THEN /\ count' = Value + 1
            /\ leaks' = IF s \notin active /\ removal[s] # "decr"
                          THEN leaks \union {"early"} ELSE leaks
            /\ pc' = [pc EXCEPT ![s] = "expire"]
       ELSE /\ pc' = [pc EXCEPT ![s] = "live"]
            /\ UNCHANGED <<count, leaks>>
  /\ UNCHANGED <<serving, alive, active, removal, ttl, busVars, frameVars>>

\* EXPIRE of _presence_incr.
Expire(s) ==
  /\ pc[s] = "expire"
  /\ ttl' = (ttl \/ (redis /\ count # None))
  /\ pc' = [pc EXCEPT ![s] = "live"]
  /\ UNCHANGED <<serving, alive, active, removal, count, leaks, busVars, frameVars>>

\* The hour since the last connect is over.
TtlExpires ==
  /\ redis /\ ttl
  /\ count' = None
  /\ ttl' = FALSE
  /\ UNCHANGED <<socketVars, leaks, busVars, frameVars>>

ClientLeaves(s) ==
  /\ s \in alive
  /\ alive' = alive \ {s}
  /\ UNCHANGED <<serving, pc, active, removal, countVars, busVars, frameVars>>

\* A plausible bug: a socket pruned by a failed send is not discounted.
DiscountsClosed(S) ==
  [s \in Sockets |-> IF s \in S \intersect active /\ pc[s] = "off" THEN "decr" ELSE removal[s]]

\* ConnectionManager.disconnect of the sockets S: only what it removed from the
\* registry is discounted afterwards.
Discounts(S) ==
  [s \in Sockets |-> IF s \in S \intersect active THEN "decr" ELSE removal[s]]

\* A plausible bug: the handler leaves without its finally clause.
HandlerEndsSilently(s) ==
  /\ pc[s] = "live"
  /\ pc' = [pc EXCEPT ![s] = "off"]
  /\ alive' = alive \ {s}
  /\ UNCHANGED <<serving, active, removal, countVars, busVars, frameVars>>

\* The handler notices that the client is gone, or fails and closes the socket.
HandlerEnds(s) ==
  /\ pc[s] = "live"
  /\ pc' = [pc EXCEPT ![s] = "off"]
  /\ alive' = alive \ {s}
  /\ removal' = Discounts({s})
  /\ active' = active \ {s}
  /\ UNCHANGED <<serving, countVars, busVars, frameVars>>

\* DECR of _presence_decr; an outage is suppressed.
Decr(s) ==
  /\ removal[s] = "decr"
  /\ IF redis
       THEN /\ count' = Value - 1
            /\ removal' = [removal EXCEPT ![s] = IF Value - 1 <= 0 THEN "delete" ELSE "none"]
            /\ UNCHANGED leaks
       ELSE /\ removal' = [removal EXCEPT ![s] = "none"]
            /\ leaks' = leaks \union {"outage"}
            /\ UNCHANGED count
  /\ UNCHANGED <<serving, pc, alive, active, ttl, busVars, frameVars>>

\* DELETE of _presence_decr, decided on the answer to the DECR.
Delete(s) ==
  /\ removal[s] = "delete"
  /\ removal' = [removal EXCEPT ![s] = "none"]
  /\ IF redis
       THEN count' = None /\ ttl' = FALSE
       ELSE UNCHANGED <<count, ttl>>
  /\ UNCHANGED <<serving, pc, alive, active, leaks, busVars, frameVars>>
-----------------------------------------------------------------------------
(* A frame.                                                                *)

\* The sweep, or a route, has something to say.
Raise(f, w) ==
  /\ stage[f] = "idle"
  /\ stage' = [stage EXCEPT ![f] = "publish"]
  /\ sender' = [sender EXCEPT ![f] = w]
  /\ UNCHANGED <<socketVars, countVars, busVars, got, told>>

\* send_to_user on worker w: a send to a client that is gone raises, and the
\* socket is pruned, or it is swallowed by a buffer.
SendLocal(f, w, pruned) ==
  /\ pruned \subseteq Local(w) \ alive
  /\ got' = [got EXCEPT ![f] = @ \union (Local(w) \intersect alive)]
  /\ removal' = Discounts(pruned)
  /\ active' = active \ pruned
  /\ UNCHANGED <<serving, pc, alive>>

\* The end of deliver_alert; other frames have no fallback.
Escalates(f, online) ==
  /\ stage' = [stage EXCEPT ![f] = "done"]
  /\ told' = IF f \in Critical /\ ~online THEN told \union {f} ELSE told

\* No Redis, or none that answers: the own sockets, and their number is the
\* presence signal.
PublishLocal(f, pruned) ==
  /\ stage[f] = "publish"
  /\ sub[sender[f]] = "local" \/ ~redis
  /\ SendLocal(f, sender[f], pruned)
  /\ Escalates(f, Local(sender[f]) \ pruned # {})
  /\ UNCHANGED <<countVars, busVars, sender>>

\* A plausible bug: a worker ignores what it published itself.
ReceiversElsewhere(f) == {w \in Workers : sub[w] = "listening"} \ {sender[f]}

\* Every subscriber that listens gets a published frame, the sender's own included.
Receivers(f) == {w \in Workers : sub[w] = "listening"}

\* PUBLISH; a critical frame then asks for the user's presence.
Publish(f) ==
  /\ stage[f] = "publish"
  /\ sub[sender[f]] # "local" /\ redis
  /\ channel' = [w \in Workers |->
       IF w \in Receivers(f) THEN channel[w] \union {f} ELSE channel[w]]
  /\ stage' = [stage EXCEPT ![f] = IF f \in Critical THEN "presence" ELSE "done"]
  /\ UNCHANGED <<socketVars, countVars, redis, sub, faults, sender, got, told>>

\* A plausible bug: an unknown presence is taken for a user who is online.
OnlineUnlessZero == redis => count = None \/ count > 0

\* _presence_online: what cannot be read counts as offline.
Online == redis /\ count # None /\ count > 0

Presence(f) ==
  /\ stage[f] = "presence"
  /\ Escalates(f, Online)
  /\ UNCHANGED <<socketVars, countVars, busVars, sender, got>>

\* The subscriber loop hands the frame to the worker's own sockets.
Dispatch(w, f, pruned) ==
  /\ sub[w] = "listening"
  /\ f \in channel[w]
  /\ channel' = [channel EXCEPT ![w] = @ \ {f}]
  /\ SendLocal(f, w, pruned)
  /\ UNCHANGED <<countVars, redis, sub, faults, stage, sender, told>>
-----------------------------------------------------------------------------
(* Faults.                                                                 *)

\* Redis goes; some subscriber loops notice, end, and are not restarted.
RedisFails(ended) ==
  /\ redis
  /\ faults < MaxFaults
  /\ faults' = faults + 1
  /\ redis' = FALSE
  /\ sub' = [w \in Workers |-> IF w \in ended THEN "ended" ELSE sub[w]]
  /\ channel' = [w \in Workers |-> IF w \in ended THEN {} ELSE channel[w]]
  /\ UNCHANGED <<socketVars, countVars, frameVars>>

RedisReturns ==
  /\ ~redis
  /\ redis' = TRUE
  /\ UNCHANGED <<socketVars, countVars, sub, channel, faults, frameVars>>

\* What WsBroadcaster.start leaves, depending on Redis.
Subscriber(w) == IF w \in Offline \/ ~redis THEN "local" ELSE "listening"

\* A worker dies and is started again: its sockets are gone, their counts stay.
Crash(w) ==
  /\ faults < MaxFaults
  /\ faults' = faults + 1
  /\ LET lost == {s \in Sockets : serving[s] = w} IN
       /\ pc' = [s \in Sockets |-> IF s \in lost THEN "off" ELSE pc[s]]
       /\ removal' = [s \in Sockets |-> IF s \in lost THEN "none" ELSE removal[s]]
       /\ serving' = [s \in Sockets |-> IF s \in lost THEN None ELSE serving[s]]
       /\ alive' = alive \ lost
       /\ active' = active \ lost
       /\ leaks' = IF lost \intersect Counted # {} THEN leaks \union {"crash"} ELSE leaks
  /\ stage' = [f \in Frames |->
       IF sender[f] = w /\ stage[f] \in {"publish", "presence"} THEN "lost" ELSE stage[f]]
  /\ sub' = [sub EXCEPT ![w] = Subscriber(w)]
  /\ channel' = [channel EXCEPT ![w] = {}]
  /\ UNCHANGED <<count, ttl, redis, sender, got, told>>
-----------------------------------------------------------------------------
(* What the properties remember.                                           *)

Up(s) ==
  /\ pc[s] = "live" /\ s \in active /\ s \in alive
  /\ sub[serving[s]] = "listening" /\ redis

Nobody == \A s \in Sockets : Free(s)

\* Whether a frame of worker w can count on socket s.
Reachable(s, w) == Up(s) /\ (sub[w] # "local" \/ serving[s] = w)

Watch ==
  /\ steady' = [f \in Frames |->
       IF stage'[f] \in {"idle", "lost"} THEN {}
       ELSE IF stage[f] = "idle" THEN {s \in Sockets : Reachable(s, sender'[f])}
       ELSE {s \in steady[f] : Up(s)'}]
  /\ alone' = {f \in Frames : stage'[f] # "idle" /\ Nobody' /\ (stage[f] = "idle" \/ f \in alone)}

DeliveryInit ==
  /\ serving = [s \in Sockets |-> None]
  /\ pc = [s \in Sockets |-> "off"]
  /\ alive = {} /\ active = {}
  /\ removal = [s \in Sockets |-> "none"]
  /\ count = None /\ ttl = FALSE /\ leaks = {}
  /\ redis = TRUE /\ faults = 0
  /\ sub = [w \in Workers |-> Subscriber(w)]
  /\ channel = [w \in Workers |-> {}]
  /\ stage = [f \in Frames |-> "idle"]
  /\ sender = [f \in Frames |-> None]
  /\ got = [f \in Frames |-> {}]
  /\ told = {} /\ alone = {}
  /\ steady = [f \in Frames |-> {}]

SocketStep(s) ==
  \/ \E w \in Workers : Connect(s, w)
  \/ Incr(s) \/ Expire(s) \/ ClientLeaves(s) \/ HandlerEnds(s)
  \/ Decr(s) \/ Delete(s)

FrameStep(f) ==
  \/ \E w \in Workers : Raise(f, w)
  \/ Publish(f) \/ Presence(f)
  \/ \E pruned \in SUBSET Sockets :
       PublishLocal(f, pruned) \/ \E w \in Workers : Dispatch(w, f, pruned)

FaultStep ==
  \/ RedisReturns
  \/ \E ended \in SUBSET {w \in Workers : sub[w] = "listening"} : RedisFails(ended)
  \/ \E w \in Workers : Crash(w)

DeliveryNext ==
  /\ \/ \E s \in Sockets : SocketStep(s)
     \/ \E f \in Frames : FrameStep(f)
     \/ TtlExpires
     \/ FaultStep
  /\ Watch

DeliverySpec == DeliveryInit /\ [][DeliveryNext]_deliveryVars
-----------------------------------------------------------------------------
(* Properties.                                                             *)

DeliveryTypeOK ==
  /\ serving \in [Sockets -> Workers \union {None}]
  /\ pc \in [Sockets -> {"off", "incr", "expire", "live"}]
  /\ removal \in [Sockets -> {"none", "decr", "delete"}]
  /\ active \subseteq Sockets /\ alive \subseteq Sockets
  /\ \A s \in active : pc[s] # "off" /\ serving[s] \in Workers \ Offline
  /\ count \in Int \union {None}
  /\ ttl \in BOOLEAN /\ redis \in BOOLEAN
  /\ leaks \subseteq {"early", "outage", "crash"}
  /\ sub \in [Workers -> {"local", "listening", "ended"}]
  /\ channel \in [Workers -> SUBSET Frames]
  /\ stage \in [Frames -> {"idle", "publish", "presence", "done", "lost"}]
  /\ sender \in [Frames -> Workers \union {None}]
  /\ got \in [Frames -> SUBSET Sockets]
  /\ told \subseteq Critical /\ alone \subseteq Frames
  /\ steady \in [Frames -> SUBSET Sockets]
  /\ faults \in 0..MaxFaults

\* The presence count is never above the number of sockets that are registered or
\* about to be discounted, through expiry, pruning by several tasks and the gap
\* between DECR and DELETE; only a crash, an outage or a prune that comes before
\* the INCR leaves it too high.
PresenceNotOverstated == leaks = {} => Value <= Cardinality(Counted)

\* A critical frame for a user without any connection goes to the notifier
\* ("so the user isn't left unaware of a kill-switch trip").
AbsentUserIsTold ==
  \A f \in Critical : stage[f] = "done" /\ f \in alone /\ leaks = {} => f \in told

\* A socket that stays up from the moment a frame is raised until the frame has
\* been handed out gets it, whatever the worker ("an alert raised on the leader
\* worker reaches clients connected to any worker").
SteadySocketIsReached ==
  \A f \in Frames : \A s \in steady[f] :
    stage[f] \in {"presence", "done"} /\ f \notin channel[serving[s]] => s \in got[f]
=============================================================================
