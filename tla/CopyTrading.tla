---------------------------- MODULE CopyTrading -----------------------------
(***************************************************************************)
(* The two places where trades are shared or staged before they are made:  *)
(* the strategy marketplace, whose signals are copied to every subscriber, *)
(* and the git-like staging area, whose intents are bundled by a commit    *)
(* and pushed.  Every endpoint reads, decides and commits in a thread of   *)
(* its own, so a call has two steps; what it changes is committed at once. *)
(*                                                                         *)
(* Quantities count a smallest unit, Hundredth of which make a hundredth;  *)
(* the error of binary floats is left out.                                 *)
(***************************************************************************)
EXTENDS Integers, FiniteSets, FiniteSetsExt, SequencesExt

CONSTANTS
  Calls,        \* calls that can be under way at once
  Traders,
  Strategies,   \* ids of listings
  Instruments, OpeningHoldings,  \* the holdings get_diff starts from
  Hundredth,    \* units in a hundredth, to which get_diff rounds
  Lots,         \* quantities of an intent
  MaxSignals, MaxIntents, MaxPushes,  \* bounds
  Vacant

ASSUME CopyAssumption ==
  /\ OpeningHoldings \in [Instruments -> Nat] /\ Lots \subseteq Nat \ {0}
  /\ Hundredth \in Nat \ {0}
  /\ MaxSignals \in Nat /\ MaxIntents \in Nat /\ MaxPushes \in Nat

Modes == {"paper", "live"}

\* The rows, with the fields that decide something.
Listing == [publisher : Traders, count : Nat]
Subscription == [id : Nat, subscriber : Traders, strategy : Strategies, mode : Modes]
CopyRecord == [signal : 1..MaxSignals, subscription : Nat, subscriber : Traders,
               status : {"EXECUTED", "GATED_LIVE_PENDING"}]
Intent == [trader : Traders, symbol : Instruments, action : {"BUY", "SELL"}, quantity : Lots,
           status : {"STAGED", "COMMITTED"}]
Bundle == [trader : Traders, rows : SUBSET (1..MaxIntents), orders_count : 1..MaxIntents,
           status : {"COMMITTED", "PUSHED_TO_BROKER"}]

\* What a call has read before its commit.
SubscribeCall == [kind : {"subscribe"}, trader : Traders, strategy : Strategies, mode : Modes,
                  existing : SUBSET Subscription, count : Nat]
BroadcastCall == [kind : {"broadcast"}, trader : Traders, strategy : Strategies,
                  number : 1..MaxSignals, rows : SUBSET Subscription]
CommitCall == [kind : {"commit"}, trader : Traders, rows : SUBSET (1..MaxIntents)]

ASSUME VacantAssumption ==
  Vacant \notin Listing /\ Vacant \notin SubscribeCall \union BroadcastCall \union CommitCall

VARIABLES
  listings,       \* publisher and subscribers_count of each strategy
  subscriptions,  \* rows; none is ever deactivated
  copies,         \* CopyTradeRecord rows
  signals,        \* history: signals broadcast
  intents,        \* StagedTradeIntent rows by id
  bundles,        \* TradeCommitBundle rows by id
  pushes,         \* history: the answer of each push
  call,           \* what each call has read
  collided        \* history: strategies and traders of which two calls overlapped

copyVars == <<listings, subscriptions, copies, signals, intents, bundles, pushes, call, collided>>
market == <<listings, subscriptions, copies, signals>>
staging == <<intents, bundles, pushes>>

Topic(c) == IF call[c].kind = "subscribe" THEN call[c].strategy ELSE call[c].trader
Start(c, record) ==
  /\ call[c] = Vacant
  /\ call' = [call EXCEPT ![c] = record]

\* Every commit ends the call; those of the same kind and topic overlapped it.
Finish(c) ==
  /\ call' = [call EXCEPT ![c] = Vacant]
  /\ collided' = IF \E d \in Calls \ {c} : call[d] # Vacant /\ call[d].kind = call[c].kind
                                          /\ Topic(d) = Topic(c)
                   THEN collided \union {Topic(c)} ELSE collided
-----------------------------------------------------------------------------
(* The marketplace.                                                        *)

CreateStrategy(s, publisher) ==
  /\ listings[s] = Vacant
  /\ listings' = [listings EXCEPT ![s] = [publisher |-> publisher, count |-> 0]]
  /\ UNCHANGED <<subscriptions, copies, signals, staging, call, collided>>

Active(s) == {sub \in subscriptions : sub.strategy = s}

\* A call for a strategy that does not exist ends with 404.
SubscribeBegin(c, trader, s, mode) ==
  /\ listings[s] # Vacant
  /\ Start(c, [kind |-> "subscribe", trader |-> trader, strategy |-> s, mode |-> mode,
               existing |-> {sub \in Active(s) : sub.subscriber = trader},
               count |-> listings[s].count])
  /\ UNCHANGED <<market, staging, collided>>

\* A plausible bug: a renewed subscription counts once more.
SubscribedAgain(q) == q.count + 1

\* subscribers_count, from what the call has read.
Subscribed(q) == IF q.existing = {} THEN q.count + 1 ELSE q.count

\* A renewal changes the row that was found, and never the count of the listing.
SubscribeCommit(c) ==
  /\ call[c] # Vacant /\ call[c].kind = "subscribe"
  /\ LET q == call[c] IN
     /\ subscriptions' =
          IF q.existing = {}
            THEN subscriptions \union
                   {[id |-> Cardinality(subscriptions) + 1, subscriber |-> q.trader,
                     strategy |-> q.strategy, mode |-> q.mode]}
            ELSE LET row == CHOOSE sub \in q.existing : TRUE IN
                 {IF sub.id = row.id THEN [sub EXCEPT !.mode = q.mode] ELSE sub : sub \in subscriptions}
     /\ listings' = IF Subscribed(q) = q.count THEN listings
                    ELSE [listings EXCEPT ![q.strategy].count = Subscribed(q)]
  /\ Finish(c)
  /\ UNCHANGED <<copies, signals, staging>>

\* Only the publisher broadcasts.
BroadcastBegin(c, publisher, s) ==
  /\ listings[s] # Vacant /\ listings[s].publisher = publisher
  /\ signals < MaxSignals
  /\ signals' = signals + 1
  /\ Start(c, [kind |-> "broadcast", trader |-> publisher, strategy |-> s,
               number |-> signals + 1, rows |-> Active(s)])
  /\ UNCHANGED <<listings, subscriptions, copies, staging, collided>>

\* One record per subscription that was read; a live one only waits.
BroadcastCommit(c) ==
  /\ call[c] # Vacant /\ call[c].kind = "broadcast"
  /\ copies' = copies \union
       {[signal |-> call[c].number, subscription |-> sub.id, subscriber |-> sub.subscriber,
         status |-> IF sub.mode = "paper" THEN "EXECUTED" ELSE "GATED_LIVE_PENDING"] :
          sub \in call[c].rows}
  /\ call' = [call EXCEPT ![c] = Vacant]
  /\ UNCHANGED <<listings, subscriptions, signals, staging, collided>>
-----------------------------------------------------------------------------
(* The staging area.                                                       *)

Stage(trader, symbol, action, lot) ==
  /\ Len(intents) < MaxIntents
  /\ intents' = Append(intents, [trader |-> trader, symbol |-> symbol, action |-> action,
                                 quantity |-> lot, status |-> "STAGED"])
  /\ UNCHANGED <<market, bundles, pushes, call, collided>>

Staged(trader) == {i \in DOMAIN intents : intents[i].trader = trader /\ intents[i].status = "STAGED"}

\* round(x, 2): the nearest hundredth; which of two is not told here.
ToHundredth(n) ==
  LET below == n - (n % Hundredth) IN
  CHOOSE c \in {below, below + Hundredth} : 2 * (n - c) <= Hundredth /\ 2 * (c - n) <= Hundredth

Signed(order) == IF order.action = "BUY" THEN order.quantity ELSE -order.quantity

\* An order changes a holding, which does not fall below zero and is rounded.
Applied(h, order) ==
  LET rest == h[order.symbol] + Signed(order) IN
  [h EXCEPT ![order.symbol] = ToHundredth(IF rest < 0 THEN 0 ELSE rest)]

\* get_diff: the staged intents one after another.
Diff(trader) ==
  FoldLeft(LAMBDA h, order : IF order.trader = trader /\ order.status = "STAGED" THEN Applied(h, order) ELSE h,
           OpeningHoldings, intents)

\* With nothing staged the call ends with an error.
CommitBegin(c, trader) ==
  /\ Staged(trader) # {}
  /\ Start(c, [kind |-> "commit", trader |-> trader, rows |-> Staged(trader)])
  /\ UNCHANGED <<market, staging, collided>>

\* A plausible bug: everything staged by now is marked, read or not.
MarkedByNow(q) == Staged(q.trader)

\* The intents the commit marks: those it has read and hashed.
Marked(q) == q.rows

CommitStaged(c) ==
  /\ call[c] # Vacant /\ call[c].kind = "commit"
  /\ LET q == call[c] IN
     /\ intents' = [i \in DOMAIN intents |->
                      IF i \in Marked(q) THEN [intents[i] EXCEPT !.status = "COMMITTED"] ELSE intents[i]]
     /\ bundles' = Append(bundles, [trader |-> q.trader, rows |-> q.rows,
                                    orders_count |-> Cardinality(q.rows), status |-> "COMMITTED"])
  /\ Finish(c)
  /\ UNCHANGED <<market, pushes>>

\* push_commit reports the orders of the bundle as executed however often it is called.
Push(b) ==
  /\ b \in DOMAIN bundles /\ Len(pushes) < MaxPushes
  /\ bundles' = [bundles EXCEPT ![b].status = "PUSHED_TO_BROKER"]
  /\ pushes' = Append(pushes, bundles[b].orders_count)
  /\ UNCHANGED <<market, intents, call, collided>>

\* The call fails before its commit.
Abort(c) ==
  /\ call[c] # Vacant
  /\ call' = [call EXCEPT ![c] = Vacant]
  /\ UNCHANGED <<market, staging, collided>>
-----------------------------------------------------------------------------
CopyInit ==
  /\ listings = [s \in Strategies |-> Vacant]
  /\ subscriptions = {} /\ copies = {} /\ signals = 0
  /\ intents = <<>> /\ bundles = <<>> /\ pushes = <<>>
  /\ call = [c \in Calls |-> Vacant]
  /\ collided = {}

CopyNext ==
  \/ \E s \in Strategies, trader \in Traders : CreateStrategy(s, trader)
  \/ \E c \in Calls, trader \in Traders :
       \/ \E s \in Strategies : \/ \E mode \in Modes : SubscribeBegin(c, trader, s, mode)
                                \/ BroadcastBegin(c, trader, s)
       \/ CommitBegin(c, trader)
  \/ \E c \in Calls : SubscribeCommit(c) \/ BroadcastCommit(c) \/ CommitStaged(c) \/ Abort(c)
  \/ \E trader \in Traders, symbol \in Instruments, action \in {"BUY", "SELL"}, lot \in Lots :
       Stage(trader, symbol, action, lot)
  \/ \E b \in DOMAIN bundles : Push(b)

CopySpec == CopyInit /\ [][CopyNext]_copyVars
-----------------------------------------------------------------------------
(* Properties.                                                             *)

CopyTypeOK ==
  /\ \A s \in Strategies : listings[s] = Vacant \/ listings[s] \in Listing
  /\ subscriptions \subseteq Subscription /\ copies \subseteq CopyRecord
  /\ \A s \in Strategies : listings[s] # Vacant => listings[s].count <= Cardinality(subscriptions)
  /\ intents \in Seq(Intent) /\ bundles \in Seq(Bundle) /\ pushes \in Seq(1..MaxIntents)
  /\ signals \in 0..MaxSignals /\ collided \subseteq Strategies \union Traders
  /\ call \in [Calls -> SubscribeCall \union BroadcastCall \union CommitCall \union {Vacant}]

\* Unless two subscriptions to it were under way at once, a strategy counts each
\* subscriber once, and a signal reaches each of them once.
SubscribersCounted ==
  \A s \in Strategies \ collided : listings[s] # Vacant =>
    /\ listings[s].count = Cardinality({sub.subscriber : sub \in Active(s)})
    /\ \A sub, other \in Active(s) : sub.subscriber = other.subscriber => sub = other

BundlesOf(trader) == {b \in DOMAIN bundles : bundles[b].trader = trader}
Gone(trader) == {i \in DOMAIN intents : intents[i].trader = trader /\ intents[i].status # "STAGED"}

\* What left the staging area is in a bundle, which counts every order of its own; unless
\* two commits of a trader were under way at once no order is in two.
IntentsBundledOnce ==
  \A trader \in Traders :
    /\ Gone(trader) = UNION {bundles[b].rows : b \in BundlesOf(trader)}
    /\ \A b \in BundlesOf(trader) : bundles[b].orders_count = Cardinality(bundles[b].rows)
    /\ trader \notin collided =>
         \A b, other \in BundlesOf(trader) : b # other => bundles[b].rows \intersect bundles[other].rows = {}

\* Twice what an order moves the diff by at least: its quantity, less half a hundredth.
Promised(order) == 2 * Signed(order) - Hundredth

\* The diff shown before a commit hides no purchase beyond the rounding: what it shows
\* of a symbol falls behind the opening holding and the net of what is staged by no
\* more than half a hundredth for each order of the symbol, although a holding is held
\* at zero on the way.
DiffShowsPurchases ==
  \A trader \in Traders, s \in Instruments :
    LET orders == {i \in Staged(trader) : intents[i].symbol = s} IN
    2 * (Diff(trader)[s] - OpeningHoldings[s])
      >= SumFunctionOnSet([i \in DOMAIN intents |-> Promised(intents[i])], orders)

\* Subscribers and staged orders are each counted once unless two calls collide, and
\* the diff before a commit shows every purchase up to its rounding.
CopiesAddUp == SubscribersCounted /\ IntentsBundledOnce /\ DiffShowsPurchases
=============================================================================
