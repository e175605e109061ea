--------------------------- MODULE Reconciliation ---------------------------
(***************************************************************************)
(* How a broker order becomes a Transaction of the ledger.                 *)
(*                                                                         *)
(* Three kinds of process write the TradeOrder rows: the reconciliation    *)
(* sweep (Sweepers), the Alpaca webhook (WebhookWorkers) and the user's    *)
(* requests (Requests: execute, cancel, replace, the kill switch's         *)
(* flatten).  Each works in a database session of its own.  A session      *)
(* loads rows once and keeps them (SQLAlchemy's identity map), awaits the  *)
(* venue while it holds them, and its commit writes back only the columns  *)
(* it changed.  The venue moves orders at any time and announces each move *)
(* by a webhook message that may be lost, repeated or overtaken.           *)
(*                                                                         *)
(* WebhookWorkers = {} is the deployment without a trade_webhook_secret;   *)
(* Sweepers = {} the one with order reconciliation disabled; two Sweepers  *)
(* are two workers that run the sweep at once.                             *)
(***************************************************************************)
EXTENDS Naturals, Sequences, OrderStatus

CONSTANTS
  Orders,          \* order identities, in our database and at the venue
  Qty,             \* the quantity of an order, in the smallest unit traded
  Sweepers,        \* sessions of reconcile_open_orders
  WebhookWorkers,  \* sessions of ingest_fill_event
  Requests,        \* sessions of execute, cancel, replace and flatten
  ClosedStatuses,  \* how the venue ends an order that it does not fill
  MaxCrashes       \* bound: processes that die before their commit

ASSUME QtyAssumption == Qty \in Nat \ {0}
ASSUME ClosedAssumption == ClosedStatuses \subseteq Terminal \ {"filled"}
ASSUME CrashAssumption == MaxCrashes \in Nat

VARIABLES
  venue,    \* the venue's own record of each order
  inbox,    \* webhook messages sent so far, delivered in any order
  rows,     \* the orders that have a TradeOrder row
  db,       \* the committed columns of the rows
  ledger,   \* the Transactions booked for each order, oldest first
  pc,       \* what each session is doing
  todo,     \* the orders a session has still to handle
  loaded,   \* the rows as the session read them
  view,     \* the rows as the session has changed them
  pend,     \* quantity of the Transaction the session has added, 0 for none
  fresh,    \* rows the session will insert
  crashes   \* processes that have died

worldVars == <<venue, inbox>>
dbVars == <<rows, db, ledger>>
sessionVars == <<pc, todo, loaded, view, pend, fresh>>
vars == <<worldVars, dbVars, sessionVars, crashes>>

Sessions == Sweepers \union WebhookWorkers \union Requests

\* "none": the venue has not seen the order yet.
VenueState == [status : Statuses \union {"none"}, filled : 0..Qty]
Row == [status : Statuses, filled : 0..Qty, reconciled : BOOLEAN]
Message == [order : Orders, status : Statuses, filled : 0..Qty]
Steps == {"idle", "sweep", "cancel", "resync", "flatten", "replace", "commit"}

\* A row as TradeOrder's defaults and _persist_order write it.
NewRow == [status |-> "new", filled |-> 0, reconciled |-> FALSE]
NoRows == [o \in Orders |-> NewRow]

Working(v) == v.status # "none" /\ ~IsTerminal(v.status)
-----------------------------------------------------------------------------
(* The decision of _apply_remote_state.                                    *)

\* A plausible bug: any executed quantity is booked, not only a full fill.
BooksPartial(row, report) == ~row.reconciled /\ report.filled > 0

\* The fill is written into the ledger.  The price guard of the code is the
\* quantity guard here: the venue gives a positive price with what it filled.
Books(row, report) ==
  /\ report.status = "filled"
  /\ ~row.reconciled
  /\ report.filled > 0

\* A plausible bug: a requested cancellation is taken for a completed one.
ClosesWhenAsked(report) ==
  (IsTerminal(report.status) \/ report.status = "pending_cancel")
    /\ report.status # "filled"

\* Terminal without being filled: "closed with no fill; nothing to write".
ClosesUnfilled(report) == IsTerminal(report.status) /\ report.status # "filled"

\* A plausible bug: the booked fill is not remembered on the row.
ApplyForgetful(row, report) ==
  [status     |-> report.status,
   filled     |-> report.filled,
   reconciled |-> row.reconciled \/ ClosesUnfilled(report)]

\* A plausible bug: the cumulative quantity is added to what was there.
ApplyCumulative(row, report) ==
  [status     |-> report.status,
   filled     |-> row.filled + report.filled,
   reconciled |-> row.reconciled \/ Books(row, report) \/ ClosesUnfilled(report)]

Apply(row, report) ==
  [status     |-> report.status,
   filled     |-> report.filled,
   reconciled |-> row.reconciled \/ Books(row, report) \/ ClosesUnfilled(report)]

Booking(row, report) == IF Books(row, report) THEN report.filled ELSE 0
-----------------------------------------------------------------------------
(* The session: what it loads, how it ends.                                *)

Load(S) == [o \in Orders |-> IF o \in S THEN db[o] ELSE NewRow]

\* A session begins by reading the rows of S; `step` says what it does next.
Begin(a, step, S) ==
  /\ pc[a] = "idle"
  /\ pc' = [pc EXCEPT ![a] = step]
  /\ todo' = [todo EXCEPT ![a] = S]
  /\ loaded' = [loaded EXCEPT ![a] = Load(S)]
  /\ view' = [view EXCEPT ![a] = Load(S)]
  /\ UNCHANGED <<pend, fresh>>

\* A session ends and forgets what it held.
End(a) ==
  /\ pc' = [pc EXCEPT ![a] = "idle"]
  /\ todo' = [todo EXCEPT ![a] = {}]
  /\ loaded' = [loaded EXCEPT ![a] = NoRows]
  /\ view' = [view EXCEPT ![a] = NoRows]
  /\ pend' = [pend EXCEPT ![a] = [o \in Orders |-> 0]]
  /\ fresh' = [fresh EXCEPT ![a] = {}]

\* A plausible bug: the whole row is written back (session.merge of a copy).
MergedWhole(a, o) == IF view[a][o] # loaded[a][o] THEN view[a][o] ELSE db[o]

\* The UPDATE names only the columns whose value the session has changed.
Merged(a, o) ==
  LET was == loaded[a][o]
      now == view[a][o]
  IN [status     |-> IF now.status # was.status THEN now.status ELSE db[o].status,
      filled     |-> IF now.filled # was.filled THEN now.filled ELSE db[o].filled,
      reconciled |-> IF now.reconciled # was.reconciled
                       THEN now.reconciled ELSE db[o].reconciled]

ReadyToCommit(a) ==
  \/ pc[a] = "commit"
  \/ pc[a] \in {"sweep", "flatten"} /\ todo[a] = {}

\* session.commit(): the changed columns, the new rows and the Transactions
\* become visible together, and the session is closed.
Commit(a) ==
  /\ ReadyToCommit(a)
  /\ db' = [o \in Orders |-> IF o \in fresh[a] THEN view[a][o] ELSE Merged(a, o)]
  /\ rows' = rows \union fresh[a]
  /\ ledger' = [o \in Orders |-> IF pend[a][o] > 0
                                   THEN Append(ledger[o], pend[a][o])
                                   ELSE ledger[o]]
  /\ End(a)
  /\ UNCHANGED <<worldVars, crashes>>

\* The process dies: nothing the session held reaches the database.
Crash(a) ==
  /\ pc[a] # "idle"
  /\ crashes < MaxCrashes
  /\ crashes' = crashes + 1
  /\ End(a)
  /\ UNCHANGED <<worldVars, dbVars>>
-----------------------------------------------------------------------------
(* The venue.                                                              *)

Announce(o, v) ==
  inbox' = IF WebhookWorkers = {}
             THEN inbox
             ELSE inbox \union {[order |-> o, status |-> v.status, filled |-> v.filled]}

Move(o, v) == venue' = [venue EXCEPT ![o] = v] /\ Announce(o, v)

\* Some more of the order executes; the last part fills it.
VenueFill(o, n) ==
  LET filled == venue[o].filled + n
      status == IF filled = Qty THEN "filled"
                ELSE IF venue[o].status = "pending_cancel" THEN "pending_cancel"
                ELSE "partially_filled"
  IN /\ Working(venue[o])
     /\ filled <= Qty
     /\ Move(o, [status |-> status, filled |-> filled])
     /\ UNCHANGED <<dbVars, sessionVars, crashes>>

\* The order ends with what it has executed so far.
VenueClose(o, status) ==
  /\ Working(venue[o])
  /\ Move(o, [venue[o] EXCEPT !.status = status])
  /\ UNCHANGED <<dbVars, sessionVars, crashes>>
-----------------------------------------------------------------------------
(* The reconciliation sweep.                                               *)

Unreconciled == {o \in rows : ~db[o].reconciled}

\* A plausible bug: the sweep selects the orders a flatten would select.
SweepSelectionOpenOnly == {o \in Unreconciled : IsCancelable(db[o].status)}

SweepSelection == Unreconciled

SweepStart(s) ==
  /\ SweepSelection # {}
  /\ Begin(s, "sweep", SweepSelection)
  /\ UNCHANGED <<worldVars, dbVars, crashes>>

\* One awaited get_order and what it does to the session's copy of the row.
\* Nothing here is visible to others before Commit.
PollOk(s, o) ==
  /\ pc[s] = "sweep"
  /\ o \in todo[s]
  /\ view' = [view EXCEPT ![s][o] = Apply(@, venue[o])]
  /\ pend' = [pend EXCEPT ![s][o] = Booking(view[s][o], venue[o])]
  /\ todo' = [todo EXCEPT ![s] = @ \ {o}]
  /\ UNCHANGED <<worldVars, dbVars, pc, loaded, fresh, crashes>>

\* The poll raises, or the user has no credentials any more: next order.
PollFail(s, o) ==
  /\ pc[s] = "sweep"
  /\ o \in todo[s]
  /\ todo' = [todo EXCEPT ![s] = @ \ {o}]
  /\ UNCHANGED <<worldVars, dbVars, pc, loaded, view, pend, fresh, crashes>>
-----------------------------------------------------------------------------
(* The webhook.  A message for an order without a row is dropped.          *)

WebhookApply(w, m) ==
  /\ pc[w] = "idle"
  /\ m.order \in rows
  /\ pc' = [pc EXCEPT ![w] = "commit"]
  /\ loaded' = [loaded EXCEPT ![w] = Load({m.order})]
  /\ view' = [view EXCEPT ![w] = [Load({m.order}) EXCEPT ![m.order] = Apply(@, m)]]
  /\ pend' = [pend EXCEPT ![w][m.order] = Booking(db[m.order], m)]
  /\ UNCHANGED <<worldVars, dbVars, todo, fresh, crashes>>
-----------------------------------------------------------------------------
(* The user's requests.                                                    *)

\* execute: the venue has accepted the order, the row is about to be written.
Place(r, o) ==
  /\ pc[r] = "idle"
  /\ venue[o].status = "none"
  /\ Move(o, [status |-> "new", filled |-> 0])
  /\ fresh' = [fresh EXCEPT ![r] = {o}]
  /\ pc' = [pc EXCEPT ![r] = "commit"]
  /\ UNCHANGED <<dbVars, todo, loaded, view, pend, crashes>>

\* cancel_order: the row is read and its local status checked.
CancelLoad(r, o) ==
  /\ o \in rows
  /\ IsCancelable(db[o].status)
  /\ Begin(r, "cancel", {o})
  /\ UNCHANGED <<worldVars, dbVars, crashes>>

\* cancel_open_orders: _open_orders is read once, before the first await.
FlattenLoad(r) ==
  LET open == {o \in Unreconciled : IsCancelable(db[o].status)}
  IN /\ open # {}
     /\ Begin(r, "flatten", open)
     /\ UNCHANGED <<worldVars, dbVars, crashes>>

\* 204: the venue takes the request, and the session's row says so.
CancelAccepted(r, o) ==
  /\ pc[r] \in {"cancel", "flatten"}
  /\ o \in todo[r]
  /\ Working(venue[o])
  /\ Move(o, [venue[o] EXCEPT !.status = "pending_cancel"])
  /\ view' = [view EXCEPT ![r][o].status = "pending_cancel"]
  /\ todo' = [todo EXCEPT ![r] = @ \ {o}]
  /\ pc' = [pc EXCEPT ![r] = IF @ = "cancel" THEN "commit" ELSE @]
  /\ UNCHANGED <<dbVars, loaded, pend, fresh, crashes>>

\* 422, too late, or asked before by an attempt whose answer was lost:
\* cancel_order resyncs its row, the flatten goes on.
CancelRefused(r, o) ==
  /\ pc[r] \in {"cancel", "flatten"}
  /\ o \in todo[r]
  /\ IsTerminal(venue[o].status) \/ venue[o].status = "pending_cancel"
  /\ pc' = [pc EXCEPT ![r] = IF @ = "cancel" THEN "resync" ELSE @]
  /\ todo' = [todo EXCEPT ![r] = IF pc[r] = "cancel" THEN @ ELSE @ \ {o}]
  /\ UNCHANGED <<worldVars, dbVars, loaded, view, pend, fresh, crashes>>

\* Any other failure, with or without an effect at the venue: cancel_order
\* raises and its session ends, the flatten goes on with the next order.
CancelError(r, o) ==
  /\ pc[r] \in {"cancel", "flatten"}
  /\ o \in todo[r]
  /\ \/ UNCHANGED worldVars
     \/ Working(venue[o]) /\ Move(o, [venue[o] EXCEPT !.status = "pending_cancel"])
  /\ IF pc[r] = "cancel"
       THEN End(r)
       ELSE /\ todo' = [todo EXCEPT ![r] = @ \ {o}]
            /\ UNCHANGED <<pc, loaded, view, pend, fresh>>
  /\ UNCHANGED <<dbVars, crashes>>

\* _resync: status and quantity of the venue, neither booked nor settled.
Resync(r, o) ==
  /\ pc[r] = "resync"
  /\ o \in todo[r]
  /\ view' = [view EXCEPT ![r][o] = [@ EXCEPT !.status = venue[o].status,
                                              !.filled = venue[o].filled]]
  /\ pc' = [pc EXCEPT ![r] = "commit"]
  /\ UNCHANGED <<worldVars, dbVars, todo, loaded, pend, fresh, crashes>>

\* The venue does not answer the resync: the request just reports the 409.
ResyncFail(r) ==
  /\ pc[r] = "resync"
  /\ End(r)
  /\ UNCHANGED <<worldVars, dbVars, crashes>>

\* replace_order: the row is read and its local status checked.
ReplaceLoad(r, o) ==
  /\ o \in rows
  /\ IsCancelable(db[o].status)
  /\ Begin(r, "replace", {o})
  /\ UNCHANGED <<worldVars, dbVars, crashes>>

\* The venue retires the order, with what it has executed, and works n.
ReplaceAccepted(r, o, n) ==
  /\ pc[r] = "replace"
  /\ o \in todo[r]
  /\ Working(venue[o])
  /\ venue[n].status = "none"
  /\ venue' = [venue EXCEPT ![o].status = "replaced",
                            ![n] = [status |-> "new", filled |-> 0]]
  /\ Announce(o, venue'[o])
  /\ view' = [view EXCEPT ![r][o].status = "replaced"]
  /\ fresh' = [fresh EXCEPT ![r] = {n}]
  /\ pc' = [pc EXCEPT ![r] = "commit"]
  /\ UNCHANGED <<dbVars, todo, loaded, pend, crashes>>

\* The venue refuses, or the call fails: BrokerError, nothing is written.  (An
\* answer that is lost ends like a Crash between ReplaceAccepted and Commit.)
ReplaceError(r) ==
  /\ pc[r] = "replace"
  /\ End(r)
  /\ UNCHANGED <<worldVars, dbVars, crashes>>
-----------------------------------------------------------------------------
Init ==
  /\ venue = [o \in Orders |-> [status |-> "none", filled |-> 0]]
  /\ inbox = {}
  /\ rows = {}
  /\ db = NoRows
  /\ ledger = [o \in Orders |-> <<>>]
  /\ pc = [a \in Sessions |-> "idle"]
  /\ todo = [a \in Sessions |-> {}]
  /\ loaded = [a \in Sessions |-> NoRows]
  /\ view = [a \in Sessions |-> NoRows]
  /\ pend = [a \in Sessions |-> [o \in Orders |-> 0]]
  /\ fresh = [a \in Sessions |-> {}]
  /\ crashes = 0

VenueNext ==
  \E o \in Orders :
    \/ \E n \in 1..Qty : VenueFill(o, n)
    \/ \E status \in ClosedStatuses : VenueClose(o, status)

SweepNext(s) ==
  \/ SweepStart(s)
  \/ \E o \in Orders : PollOk(s, o) \/ PollFail(s, o)

RequestNext(r) ==
  \/ FlattenLoad(r)
  \/ ResyncFail(r)
  \/ ReplaceError(r)
  \/ \E o \in Orders :
       \/ Place(r, o)
       \/ CancelLoad(r, o)
       \/ CancelAccepted(r, o)
       \/ CancelRefused(r, o)
       \/ CancelError(r, o)
       \/ Resync(r, o)
       \/ ReplaceLoad(r, o)
       \/ \E n \in Orders : ReplaceAccepted(r, o, n)

Next ==
  \/ VenueNext
  \/ \E s \in Sweepers : SweepNext(s)
  \/ \E w \in WebhookWorkers, m \in inbox : WebhookApply(w, m)
  \/ \E r \in Requests : RequestNext(r)
  \/ \E a \in Sessions : Commit(a) \/ Crash(a)

\* The scheduler starts a sweep every interval, a started sweep runs on, and
\* the venue answers in the end a poll that is repeated for ever.  Nothing is
\* assumed of users, webhooks or the venue's own progress.
Fairness ==
  \A s \in Sweepers :
    /\ WF_vars(SweepStart(s))
    /\ WF_vars(Commit(s))
    /\ \A o \in Orders : SF_vars(PollOk(s, o))

Spec == Init /\ [][Next]_vars
FairSpec == Spec /\ Fairness
-----------------------------------------------------------------------------
(* Properties.                                                             *)

\* Every variable has its type.
TypeOK ==
  /\ venue \in [Orders -> VenueState]
  /\ inbox \subseteq Message
  /\ rows \subseteq Orders
  /\ db \in [Orders -> Row]
  /\ ledger \in [Orders -> Seq(1..Qty)]
  /\ pc \in [Sessions -> Steps]
  /\ todo \in [Sessions -> SUBSET Orders]
  /\ loaded \in [Sessions -> [Orders -> Row]]
  /\ view \in [Sessions -> [Orders -> Row]]
  /\ pend \in [Sessions -> [Orders -> 0..Qty]]
  /\ fresh \in [Sessions -> SUBSET Orders]
  /\ crashes \in 0..MaxCrashes

\* An order leaves the sweep's selection (reconciled) only once the venue has
\* closed it, and if the venue closed it by filling it, the fill is booked:
\* however webhooks are reordered and whichever session commits last, no
\* working order is abandoned and no complete fill is dropped.
SettledOnlyWhenClosed ==
  \A o \in rows : db[o].reconciled =>
    /\ IsTerminal(venue[o].status)
    /\ venue[o].status = "filled" => ledger[o] # <<>>

\* The ledger never holds a fill that is not the venue's final one, and an
\* order with a booked fill is out of the sweep's reach: partial quantities,
\* old messages and crashed sessions leave no trace in the ledger.
BookedIsFinalFill ==
  \A o \in Orders : ledger[o] # <<>> =>
    /\ db[o].reconciled
    /\ venue[o].status = "filled"
    /\ \A i \in 1..Len(ledger[o]) : ledger[o][i] = venue[o].filled

\* No commit takes the reconciled mark from a row, however old the copy the
\* session worked on: the write-back of cancel, flatten, resync and replace
\* must not undo what the sweep or the webhook settled meanwhile.
NeverUnsettled ==
  [][\A o \in Orders : db[o].reconciled => db'[o].reconciled]_vars

\* The sweep settles every order that has a row and that the venue has
\* closed, with or without webhooks, and after any crashes.
ClosedOrdersSettle ==
  \A o \in Orders :
    (o \in rows /\ IsTerminal(venue[o].status)) ~> db[o].reconciled

\* The abstract order of Settlement: an order is settled when its row is
\* reconciled, by exactly one Transaction of its whole quantity if it filled.
MarketView ==
  [o \in Orders |-> IF venue[o].status = "filled" THEN "filled"
                    ELSE IF IsTerminal(venue[o].status) THEN "closed"
                    ELSE "working"]
BookView ==
  [o \in Orders |-> IF ledger[o] = <<>>
                      THEN (IF db[o].reconciled THEN "closed" ELSE "open")
                    ELSE IF ledger[o] = <<Qty>> /\ db[o].reconciled THEN "booked"
                    ELSE "misbooked"]
Abstract == INSTANCE Settlement WITH market <- MarketView, book <- BookView

\* With one session that books (the sweep alone, or the webhook alone) the
\* sessions, stale rows and crashes implement Settlement: every order is
\* settled once, the way the venue ended it.
ImplementsSettlement == Abstract!Spec

\* At most one Transaction is booked for an order (_apply_remote_state: "a
\* fill is written exactly once ... the polling backstop and the webhook can
\* never double-book a transaction").
BookedAtMostOnce == \A o \in Orders : Len(ledger[o]) <= 1

\* What the venue executed under an order is in the ledger when the order is
\* settled (replace_order: a retired order "may still have a fill on it", and
\* the sweep "is the authority on how an order ended").
SettledFillsAreBooked ==
  \A o \in rows : db[o].reconciled /\ venue[o].filled > 0 => ledger[o] # <<>>
=============================================================================
