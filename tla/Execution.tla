----------------------------- MODULE Execution ------------------------------
(***************************************************************************)
(* How a submission becomes an order, at most once, and what the kill      *)
(* switch does to submissions on their way.                                *)
(*                                                                         *)
(* A request (POST /trade/execute) awaits several times: while the halt is *)
(* evaluated, while the price and the account are fetched, while the venue *)
(* is asked.  Between those awaits other requests, the operator's toggle   *)
(* (POST /trade/kill-switch) and a change of the broker credentials run.   *)
(* An order is known by the venue account that holds it and the idempotency*)
(* key it was sent with; a caller without a key gets one nobody else uses. *)
(***************************************************************************)
EXTENDS Naturals, FiniteSets

CONSTANTS
  Keys,         \* idempotency keys (client_order_id), of one user
  Accounts,     \* venue accounts the user's credentials may point to
  Requests,     \* handlers of POST /trade/execute
  Operators,    \* handlers of POST /trade/kill-switch
  None,         \* no account, no key
  DailyLimit,   \* max_daily_trades, 0 for no limit
  MaxAttempts,  \* stop_after_attempt of the provider
  MaxStarts,    \* bound: submissions
  MaxLost,      \* bound: answers of the venue that are lost
  MaxCrashes    \* bound: processes that die

ASSUME NoneAssumption == None \notin Accounts \union Keys
ASSUME NumbersAssumption ==
  /\ DailyLimit \in Nat
  /\ MaxAttempts \in Nat \ {0}
  /\ MaxStarts \in Nat
  /\ MaxLost \in Nat
  /\ MaxCrashes \in Nat

VARIABLES
  venue,     \* each order at the venue
  creds,     \* the account of the saved BrokerCredential
  record,    \* the account of the TradeOrder row of each key, None without a row
  audit,     \* TradeAuditLog rows of each order
  manual,    \* RiskSetting.manual_halt
  breached,  \* the drawdown is at or past the daily-loss limit
  pc,        \* what each request is doing
  key,       \* its client_order_id
  sawHalt,   \* manual_halt as the request read it
  account,   \* the account its provider was built for
  tries,     \* attempts of its place_order so far
  told,      \* the orders the callers were told, with the key they sent
  desk,      \* what each operator is doing
  todo,      \* orders the operator's flatten has still to cancel
  earlier,   \* requests that were running when the halt was switched on
  starts,    \* submissions so far
  lost,      \* answers lost so far
  crashes    \* processes that have died

venueVars == <<venue, creds, breached>>
bookVars == <<record, audit, told>>
requestVars == <<pc, key, sawHalt, account, tries>>
haltVars == <<manual, earlier, desk, todo>>
counters == <<starts, lost, crashes>>
vars == <<venueVars, bookVars, requestVars, haltVars, counters>>

Orders == Accounts \X Keys
Order(r) == <<account[r], key[r]>>
Running == {r \in Requests : pc[r] # "idle"}
Recorded == {k \in Keys : record[k] # None}
-----------------------------------------------------------------------------
(* The request ends: an answer or an error goes back to the caller.        *)

Ends(r) ==
  /\ pc' = [pc EXCEPT ![r] = "idle"]
  /\ sawHalt' = [sawHalt EXCEPT ![r] = FALSE]
  /\ tries' = [tries EXCEPT ![r] = 0]
  /\ key' = [key EXCEPT ![r] = None]
  /\ account' = [account EXCEPT ![r] = None]
  /\ earlier' = earlier \ {r}

Fails(r) == Ends(r) /\ UNCHANGED bookVars

\* The caller is given the order on file under its key.
Replay(r) ==
  /\ told' = told \union {<<record[key[r]], key[r]>>}
  /\ UNCHANGED <<record, audit>>
  /\ Ends(r)
-----------------------------------------------------------------------------
(* execute, await by await.                                                *)

\* RiskService.status reads manual_halt, then awaits snapshot and equity.
Start(r, k) ==
  /\ pc[r] = "idle"
  /\ starts < MaxStarts
  /\ starts' = starts + 1
  /\ pc' = [pc EXCEPT ![r] = "halt"]
  /\ key' = [key EXCEPT ![r] = k]
  /\ sawHalt' = [sawHalt EXCEPT ![r] = manual]
  /\ UNCHANGED <<venueVars, bookVars, haltVars, account, tries, lost, crashes>>

\* A plausible bug: only the drawdown is asked, not the operator's switch.
HaltedByDrawdownOnly(r) == breached

Halted(r) == sawHalt[r] \/ breached

\* assert_not_halted, then the pre-check of the key, in one stretch.
HaltCheck(r) ==
  /\ pc[r] = "halt"
  /\ \/ Halted(r) /\ Fails(r)
     \/ ~Halted(r) /\ key[r] \in Recorded /\ Replay(r)
     \/ /\ ~Halted(r)
        /\ key[r] \notin Recorded
        /\ pc' = [pc EXCEPT ![r] = "gates"]
        /\ UNCHANGED <<bookVars, key, sawHalt, account, tries, earlier>>
  /\ UNCHANGED <<venueVars, manual, desk, todo, counters>>

\* A plausible bug: the limit itself still passes.
LimitReachedLate == DailyLimit > 0 /\ Cardinality(Recorded) > DailyLimit

LimitReached == DailyLimit > 0 /\ Cardinality(Recorded) >= DailyLimit

\* The gates after the price is known.  All but the daily limit depend on the
\* request's own figures: they refuse or they do not.
GatesPass(r) ==
  /\ pc[r] = "gates"
  /\ ~LimitReached
  /\ pc' = [pc EXCEPT ![r] = "place"]
  /\ account' = [account EXCEPT ![r] = creds]
  /\ UNCHANGED <<venueVars, bookVars, haltVars, key, sawHalt, tries, counters>>

GatesRefuse(r) ==
  /\ pc[r] = "gates"
  /\ Fails(r)
  /\ UNCHANGED <<venueVars, manual, desk, todo, counters>>

\* The venue takes an order under a key it has not seen on that account.
VenueTakes(o) ==
  /\ venue[o] = "none"
  /\ venue' = [venue EXCEPT ![o] = "working"]

\* The venue answers with the order.
PlaceAccepted(r) ==
  /\ pc[r] = "place"
  /\ VenueTakes(Order(r))
  /\ pc' = [pc EXCEPT ![r] = "persist"]
  /\ UNCHANGED <<creds, breached, bookVars, haltVars, key, sawHalt, account, tries,
                 counters>>

\* The venue answers with an error, a key it has seen among others:
\* BrokerError, never retried.
PlaceRefused(r) ==
  /\ pc[r] = "place"
  /\ Fails(r)
  /\ UNCHANGED <<venueVars, manual, desk, todo, counters>>

\* A plausible bug: a timeout is taken for an acceptance.
TransportOptimistic(r) ==
  /\ pc' = [pc EXCEPT ![r] = "persist"]
  /\ UNCHANGED <<bookVars, key, sawHalt, account, tries, earlier>>

\* A plausible bug: one attempt more than the limit.
TransportOnceMore(r) ==
  \/ /\ tries[r] < MaxAttempts
     /\ tries' = [tries EXCEPT ![r] = @ + 1]
     /\ UNCHANGED <<bookVars, pc, key, sawHalt, account, earlier>>
  \/ Fails(r)

\* After a transport error: the next attempt, or the error is raised (always
\* after the last attempt, at once for an error that is not retryable).
Transport(r) ==
  \/ /\ tries[r] + 1 < MaxAttempts
     /\ tries' = [tries EXCEPT ![r] = @ + 1]
     /\ UNCHANGED <<bookVars, pc, key, sawHalt, account, earlier>>
  \/ Fails(r)

\* No answer arrives, whether or not the order did.
PlaceLost(r) ==
  /\ pc[r] = "place"
  /\ lost < MaxLost
  /\ lost' = lost + 1
  /\ VenueTakes(Order(r)) \/ UNCHANGED venue
  /\ Transport(r)
  /\ UNCHANGED <<creds, breached, manual, desk, todo, starts, crashes>>

\* A plausible bug: no unique index, the later row wins.
PersistUnguarded(r) ==
  /\ pc[r] = "persist"
  /\ record' = [record EXCEPT ![key[r]] = account[r]]
  /\ audit' = [audit EXCEPT ![Order(r)] = @ + 1]
  /\ told' = told \union {Order(r)}
  /\ Ends(r)
  /\ UNCHANGED <<venueVars, manual, desk, todo, counters>>

\* A plausible bug: the switch is looked at again and the answer dropped.
PersistUnlessHalted(r) ==
  /\ pc[r] = "persist"
  /\ IF manual THEN Fails(r)
     ELSE IF key[r] \in Recorded THEN Replay(r)
     ELSE /\ record' = [record EXCEPT ![key[r]] = account[r]]
          /\ audit' = [audit EXCEPT ![Order(r)] = @ + 1]
          /\ told' = told \union {Order(r)}
          /\ Ends(r)
  /\ UNCHANGED <<venueVars, manual, desk, todo, counters>>

\* Row and audit entry are committed together, unless the unique index finds
\* the key on file: then neither is, and the order on file is replayed.
Persist(r) ==
  /\ pc[r] = "persist"
  /\ \/ key[r] \in Recorded /\ Replay(r)
     \/ /\ key[r] \notin Recorded
        /\ record' = [record EXCEPT ![key[r]] = account[r]]
        /\ audit' = [audit EXCEPT ![Order(r)] = @ + 1]
        /\ told' = told \union {Order(r)}
        /\ Ends(r)
  /\ UNCHANGED <<venueVars, manual, desk, todo, counters>>

\* The process dies: the caller hears nothing.
Crash(r) ==
  /\ pc[r] # "idle"
  /\ crashes < MaxCrashes
  /\ crashes' = crashes + 1
  /\ Fails(r)
  /\ UNCHANGED <<venueVars, manual, desk, todo, starts, lost>>
-----------------------------------------------------------------------------
(* The kill switch.                                                        *)

AtRest(p) == desk[p] \in {"idle", "flattened"}

\* The halt is committed first; with cancel_open the flatten follows.
HaltOn(p) ==
  /\ AtRest(p)
  /\ manual' = TRUE
  /\ earlier' = IF manual THEN earlier ELSE Running
  /\ \E next \in {"idle", "load"} : desk' = [desk EXCEPT ![p] = next]
  /\ UNCHANGED <<venueVars, bookVars, requestVars, todo, counters>>

\* _open_orders: the rows on file.  Those that have closed are left out: one
\* whose row does not know it yet only makes one more refused cancellation.
FlattenLoad(p) ==
  /\ desk[p] = "load"
  /\ todo' = [todo EXCEPT ![p] =
                {o \in Orders : record[o[2]] = o[1] /\ venue[o] = "working"}]
  /\ desk' = [desk EXCEPT ![p] = "flatten"]
  /\ UNCHANGED <<venueVars, bookVars, requestVars, manual, earlier, counters>>

\* One cancellation: the venue ends the order, or anything goes wrong.
FlattenCancel(p, o) ==
  /\ desk[p] = "flatten"
  /\ o \in todo[p]
  /\ \/ o[1] = creds /\ venue[o] = "working" /\ venue' = [venue EXCEPT ![o] = "closed"]
     \/ UNCHANGED venue
  /\ todo' = [todo EXCEPT ![p] = @ \ {o}]
  /\ UNCHANGED <<creds, breached, bookVars, requestVars, manual, earlier, desk, counters>>

FlattenDone(p) ==
  /\ desk[p] = "flatten"
  /\ todo[p] = {}
  /\ desk' = [desk EXCEPT ![p] = "flattened"]
  /\ UNCHANGED <<venueVars, bookVars, requestVars, manual, earlier, todo, counters>>

Resume(p) ==
  /\ AtRest(p)
  /\ manual' = FALSE
  /\ desk' = [desk EXCEPT ![p] = "idle"]
  /\ UNCHANGED <<venueVars, bookVars, requestVars, earlier, todo, counters>>
-----------------------------------------------------------------------------
(* The world.                                                              *)

\* save_credentials replaces the one BrokerCredential of the user.
SaveCredentials(a) ==
  /\ creds' = a
  /\ UNCHANGED <<venue, breached, bookVars, requestVars, haltVars, counters>>

VenueEnds(o) ==
  /\ venue[o] = "working"
  /\ venue' = [venue EXCEPT ![o] = "closed"]
  /\ UNCHANGED <<creds, breached, bookVars, requestVars, haltVars, counters>>

EquityMoves ==
  /\ breached' = ~breached
  /\ UNCHANGED <<venue, creds, bookVars, requestVars, haltVars, counters>>
-----------------------------------------------------------------------------
Init ==
  /\ venue = [o \in Orders |-> "none"]
  /\ creds \in Accounts
  /\ record = [k \in Keys |-> None]
  /\ audit = [o \in Orders |-> 0]
  /\ manual = FALSE
  /\ breached = FALSE
  /\ pc = [r \in Requests |-> "idle"]
  /\ key = [r \in Requests |-> None]
  /\ sawHalt = [r \in Requests |-> FALSE]
  /\ account = [r \in Requests |-> None]
  /\ tries = [r \in Requests |-> 0]
  /\ told = {}
  /\ desk = [p \in Operators |-> "idle"]
  /\ todo = [p \in Operators |-> {}]
  /\ earlier = {}
  /\ starts = 0
  /\ lost = 0
  /\ crashes = 0

RequestNext(r) ==
  \/ \E k \in Keys : Start(r, k)
  \/ HaltCheck(r)
  \/ GatesPass(r)
  \/ GatesRefuse(r)
  \/ PlaceAccepted(r)
  \/ PlaceRefused(r)
  \/ PlaceLost(r)
  \/ Persist(r)
  \/ Crash(r)

OperatorNext(p) ==
  \/ HaltOn(p)
  \/ FlattenLoad(p)
  \/ \E o \in Orders : FlattenCancel(p, o)
  \/ FlattenDone(p)
  \/ Resume(p)

WorldNext ==
  \/ \E a \in Accounts : SaveCredentials(a)
  \/ \E o \in Orders : VenueEnds(o)
  \/ EquityMoves

Next ==
  \/ \E r \in Requests : RequestNext(r)
  \/ \E p \in Operators : OperatorNext(p)
  \/ WorldNext

Spec == Init /\ [][Next]_vars
-----------------------------------------------------------------------------
(* Properties.                                                             *)

\* Every variable has its type; no request makes more than MaxAttempts tries.
TypeOK ==
  /\ venue \in [Orders -> {"none", "working", "closed"}]
  /\ creds \in Accounts
  /\ record \in [Keys -> Accounts \union {None}]
  /\ audit \in [Orders -> Nat]
  /\ manual \in BOOLEAN
  /\ breached \in BOOLEAN
  /\ pc \in [Requests -> {"idle", "halt", "gates", "place", "persist"}]
  /\ key \in [Requests -> Keys \union {None}]
  /\ sawHalt \in [Requests -> BOOLEAN]
  /\ account \in [Requests -> Accounts \union {None}]
  /\ tries \in [Requests -> 0..(MaxAttempts - 1)]
  /\ told \subseteq Orders
  /\ desk \in [Operators -> {"idle", "load", "flatten", "flattened"}]
  /\ todo \in [Operators -> SUBSET Orders]
  /\ earlier \subseteq Running
  /\ starts \in 0..MaxStarts
  /\ lost \in 0..MaxLost
  /\ crashes \in 0..MaxCrashes

\* Whatever two callers are told about one key, at any time and by any of the
\* three layers (pre-check, venue, unique index), it is the one order on file,
\* and that order has exactly one audit entry; no other order has any.
OneOrderPerKey ==
  /\ \A o \in told : record[o[2]] = o[1]
  /\ \A o \in Orders : audit[o] = IF record[o[2]] = o[1] THEN 1 ELSE 0

\* An order on file is one that the venue took, however often its answer was
\* lost and the request repeated before.
OnFileIsAtVenue ==
  \A k \in Recorded : venue[<<record[k], k>>] # "none"

\* While the operator's halt is on, only requests that were already running
\* when it was switched on get past the check, to the venue or into the book.
HaltStopsLaterRequests ==
  manual => \A r \in Requests :
              pc[r] \in {"gates", "place", "persist"} => r \in earlier

\* Concurrent requests may overshoot the daily limit, because each counts the
\* rows before the others have written theirs, but only by those that run at
\* the same time.
BoundedOvershoot ==
  DailyLimit > 0 =>
    Cardinality(Recorded) < DailyLimit + Cardinality(Requests)

\* An order at the venue has its row, or a request that is about to write it,
\* or its key is taken by an order on another account, or an answer was lost
\* or a process died.
OrphansNeedAFault ==
  \A o \in Orders : venue[o] # "none" =>
    \/ o[2] \in Recorded
    \/ \E r \in Requests : pc[r] = "persist" /\ Order(r) = o
    \/ lost + crashes > 0

\* Nothing reaches the venue between the end of a flatten and the resumption
\* (toggle_kill_switch: "the halt is written FIRST so no new order can slip in
\* behind the cancellations").
NothingBehindTheFlatten ==
  [][\A o \in Orders :
       venue[o] = "none" /\ venue'[o] = "working" =>
         ~(manual /\ \E p \in Operators : desk[p] = "flattened")]_vars
=============================================================================
