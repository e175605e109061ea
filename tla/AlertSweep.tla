----------------------------- MODULE AlertSweep -----------------------------
(***************************************************************************)
(* Watch alerts: the owner creates, lists and deletes them, and a sweep    *)
(* evaluates the active ones, one at a time with an await in each, sends   *)
(* what has triggered, and saves all the marks with one commit at the end. *)
(* The rows can change while the sweep waits, and the worker can die.      *)
(***************************************************************************)
EXTENDS Naturals, FiniteSets

CONSTANTS
  Alerts,    \* ids of alert rows
  Owners,    \* users
  NewRows,   \* the alerts they create
  Mailless,  \* users without an e-mail address
  Sinks,     \* the sinks configured, out of {"webhook", "email"}
  Prices,    \* values of prices, thresholds and of the RSI
  MaxSweeps, \* bound: sweeps
  Nothing,   \* NULL; the value of a row that was never there
  Deleted    \* of one that is gone: the database does not reuse an id

ASSUME AlertAssumption ==
  /\ Mailless \subseteq Owners
  /\ Sinks \subseteq {"webhook", "email"}
  /\ Prices \subseteq Nat /\ MaxSweeps \in Nat
  /\ Nothing \notin Nat \union Alerts /\ Deleted # Nothing

Conditions == {"RSI_BELOW", "PRICE_ABOVE", "PRICE_BELOW", "AI_SIGNAL_STRONG_BUY"}

Alert == [user : Owners, condition : Conditions, threshold : Prices \union {Nothing},
          is_active : BOOLEAN, last_triggered_at : 0..MaxSweeps]

\* A row is there.
Present(row) == row \notin {Nothing, Deleted}

ASSUME NewRowsAssumption == NewRows \subseteq {row \in Alert : row.last_triggered_at = 0}

VARIABLES
  rows,    \* the alert table
  sweep,   \* the number of sweeps started; the time of a mark
  loaded,  \* the rows as the running sweep has read them
  queue,   \* alerts it has still to evaluate
  marked,  \* alerts it has marked in its session
  broken,  \* a flush of that session has failed
  running,
  pushes,  \* who was sent which alert in which sweep
  missed,  \* pushes that reached nobody although a sink would have worked
  due      \* alerts whose condition the running sweep found true

alertVars == <<rows, sweep, loaded, queue, marked, broken, running, pushes, missed, due>>
sweepVars == <<sweep, loaded, queue, marked, broken, running, pushes, missed, due>>

\* What the market service says of the symbol when it is asked.
Market == [price : Prices, rsi : Prices \union {Nothing},
           signal : [action : {"BUY", "HOLD"}, degraded : BOOLEAN, strong : BOOLEAN]]
-----------------------------------------------------------------------------
(* The owner's requests.                                                   *)

Create(a, row) ==
  /\ rows[a] = Nothing
  /\ rows' = [rows EXCEPT ![a] = row]
  /\ UNCHANGED sweepVars

ListOf(u) == {a \in Alerts : Present(rows[a]) /\ rows[a].user = u}

\* Of somebody else's alert the answer is "not found".
DeleteAlert(a, u) ==
  /\ a \in ListOf(u)
  /\ rows' = [rows EXCEPT ![a] = Deleted]
  /\ UNCHANGED sweepVars
-----------------------------------------------------------------------------
(* The sweep.                                                              *)

Evaluate(alert, m) ==
  LET thr == alert.threshold IN
  CASE alert.condition = "AI_SIGNAL_STRONG_BUY" ->
         m.signal.action = "BUY" /\ ~m.signal.degraded /\ m.signal.strong
    [] alert.condition = "PRICE_ABOVE" -> thr # Nothing /\ m.price > thr
    [] alert.condition = "PRICE_BELOW" -> thr # Nothing /\ m.price < thr
    [] alert.condition = "RSI_BELOW" -> thr # Nothing /\ m.rsi # Nothing /\ m.rsi < thr

StartSweep ==
  /\ ~running /\ sweep < MaxSweeps
  /\ running' = TRUE
  /\ sweep' = sweep + 1
  /\ loaded' = rows
  /\ queue' = {a \in Alerts : Present(rows[a]) /\ rows[a].is_active}
  /\ marked' = {} /\ broken' = FALSE /\ due' = {}
  /\ UNCHANGED <<rows, pushes, missed>>

\* A plausible bug: the second sink is left out once the first is configured.
NotifyFirst(u, working) ==
  IF "webhook" \in Sinks THEN "webhook" \in working ELSE "email" \in working /\ u \notin Mailless

\* notify tries every sink there is; an address is needed for e-mail.
Notify(u, working) ==
  \E k \in Sinks \intersect working : k = "webhook" \/ u \notin Mailless

\* deliver_alert: a user seen online is not notified; without an address there is
\* no contact.
Arrival(u, online, working) ==
  IF online THEN "live"
  ELSE IF u \in Mailless THEN "nowhere"
  ELSE IF Notify(u, working) THEN "notified" ELSE "failed"

Gone(S) == \E a \in S : rows[a] = Deleted

\* The condition does not hold, or the evaluation fails, which ends only this
\* alert's turn.
SkipAlert(a) ==
  /\ running /\ a \in queue
  /\ queue' = queue \ {a}
  /\ UNCHANGED <<rows, sweep, loaded, marked, broken, running, pushes, missed, due>>

\* The mark may be flushed when the owner is looked up: the session is of no use
\* from then on if a marked row is gone, and nothing more is sent.
TriggerAlert(a, flushes, online, working) ==
  /\ running /\ a \in queue
  /\ \E m \in Market : Evaluate(loaded[a], m)
  /\ queue' = queue \ {a}
  /\ due' = due \union {a}
  /\ marked' = marked \union {a}
  /\ broken' = (broken \/ (flushes /\ Gone(marked')))
  /\ LET u == loaded[a].user
         push == [alert |-> a, user |-> u, at |-> sweep] IN
       /\ pushes' = IF broken' THEN pushes ELSE pushes \union {push}
       /\ missed' = IF ~broken' /\ Arrival(u, online, working) = "failed" /\ working # {}
                      THEN missed \union {push} ELSE missed
  /\ UNCHANGED <<rows, sweep, loaded, running>>

\* A plausible bug: the rows that can be saved are saved one by one.
CommitEachMark ==
  /\ running /\ queue = {}
  /\ running' = FALSE
  /\ rows' = [a \in Alerts |->
                IF a \in marked /\ Present(rows[a])
                  THEN [rows[a] EXCEPT !.last_triggered_at = sweep] ELSE rows[a]]
  /\ UNCHANGED <<sweep, loaded, queue, marked, broken, pushes, missed, due>>

\* The commit fails as a whole when a marked row has been deleted.
CommitMarks ==
  /\ running /\ queue = {}
  /\ running' = FALSE
  /\ rows' = IF broken \/ Gone(marked) THEN rows
             ELSE [a \in Alerts |->
                     IF a \in marked THEN [rows[a] EXCEPT !.last_triggered_at = sweep] ELSE rows[a]]
  /\ UNCHANGED <<sweep, loaded, queue, marked, broken, pushes, missed, due>>

\* The worker dies.
SweepCrashes ==
  /\ running
  /\ running' = FALSE
  /\ marked' = {}
  /\ UNCHANGED <<rows, sweep, loaded, queue, broken, pushes, missed, due>>

AlertInit ==
  /\ rows = [a \in Alerts |-> Nothing]
  /\ sweep = 0 /\ loaded = rows /\ running = FALSE /\ broken = FALSE
  /\ queue = {} /\ marked = {} /\ pushes = {} /\ missed = {} /\ due = {}

AlertNext ==
  \/ \E a \in Alerts, row \in NewRows : Create(a, row)
  \/ \E a \in Alerts, u \in Owners : DeleteAlert(a, u)
  \/ StartSweep \/ CommitMarks \/ SweepCrashes
  \/ \E a \in Alerts :
       \/ SkipAlert(a)
       \/ \E flushes, online \in BOOLEAN, working \in SUBSET Sinks :
            TriggerAlert(a, flushes, online, working)

AlertSpec == AlertInit /\ [][AlertNext]_alertVars
-----------------------------------------------------------------------------
(* Properties.                                                             *)

AlertTypeOK ==
  /\ rows \in [Alerts -> Alert \union {Nothing, Deleted}]
  /\ loaded \in [Alerts -> Alert \union {Nothing, Deleted}]
  /\ sweep \in 0..MaxSweeps
  /\ queue \subseteq Alerts /\ marked \subseteq Alerts /\ due \subseteq Alerts
  /\ \A a \in queue \union marked : Present(loaded[a])
  /\ broken \in BOOLEAN /\ running \in BOOLEAN
  /\ missed \subseteq pushes
  /\ pushes \subseteq [alert : Alerts, user : Owners, at : 1..sweep]

\* last_triggered_at never claims a delivery nobody attempted, whatever is deleted
\* and created under the sweep and wherever it dies.
MarkImpliesPush ==
  \A a \in Alerts : Present(rows[a]) /\ rows[a].last_triggered_at > 0 =>
    \E p \in pushes : p.alert = a /\ p.user = rows[a].user /\ p.at = rows[a].last_triggered_at

\* A triggered alert is sent unless the session had broken, and a user who is
\* offline and has an address is reached as soon as any sink works.
TriggeredAlertArrives ==
  /\ running /\ ~broken => \A a \in due : \E p \in pushes : p.alert = a /\ p.at = sweep
  /\ missed = {}
=============================================================================
