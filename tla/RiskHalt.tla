------------------------------ MODULE RiskHalt ------------------------------
(***************************************************************************)
(* The automatic halt of one account.                                      *)
(*                                                                         *)
(* Whoever asks for the kill switch's status compares the current equity   *)
(* with the opening equity of the UTC day, which the first to ask writes   *)
(* down (EquitySnapshot).  Readers only want to know: the status route,    *)
(* the trading deck, the check before an order.  Sweeps act on it: when    *)
(* the loss limit is broken they cancel the working orders and mark the    *)
(* day, so that it is done once.  Everybody awaits market prices between   *)
(* reading the settings and the verdict, and days pass meanwhile.          *)
(***************************************************************************)
EXTENDS Integers

CONSTANTS
  Sweeps,         \* run_risk_sweep on the workers that may run it
  Readers,        \* requests that call RiskService.status
  Limits,         \* values of daily_loss_limit_pct, 0 for off
  Equities,       \* values of the account
  MaxDay,         \* bound: days
  MaxInterrupted, \* bound: flattens of each sweep that end without the mark
  None            \* no snapshot, no mark

ASSUME ValuesAssumption ==
  /\ Limits \subseteq 0..100
  /\ Equities \subseteq Nat
  /\ None \notin Equities \union Nat
ASSUME BoundsAssumption == MaxDay \in Nat /\ MaxInterrupted \in [Sweeps -> Nat]
ASSUME RolesAssumption == Sweeps \intersect Readers = {}

VARIABLES
  day,          \* the UTC date
  equity,       \* what the account is worth now
  limit,        \* RiskSetting.daily_loss_limit_pct
  manual,       \* RiskSetting.manual_halt
  tripped,      \* RiskSetting.auto_halt_tripped_on
  snapshot,     \* EquitySnapshot of each day
  stage,        \* what each evaluation is doing
  saw,          \* the settings as the evaluation read them
  today,        \* the date it took
  opening,      \* the opening equity it compares with
  flattens,     \* flattens each sweep has begun on each day
  interrupted   \* flattens of each sweep that ended without the mark

settingVars == <<limit, manual, tripped>>
evalVars == <<stage, saw, today, opening>>
historyVars == <<flattens, interrupted>>
riskVars == <<day, equity, settingVars, snapshot, evalVars, historyVars>>

Days == 0..MaxDay
Evaluations == Sweeps \union Readers
Unread == [limit |-> 0, manual |-> FALSE]
-----------------------------------------------------------------------------
(* RiskService.status, await by await.                                     *)

\* The drawdown of the day is at the limit or beyond it.
Breach(pct, open, current) ==
  /\ pct > 0
  /\ open # 0
  /\ (open - current) * 100 >= pct * open

\* The evaluation reads the settings and looks for the day's snapshot; a sweep
\* looks only at accounts with a limit.  (One whose limit is lifted after the
\* sweep listed it is evaluated like a reader's.)  What a reader makes of the
\* settings is only in its answer.
Begin(e) ==
  /\ stage[e] = "idle"
  /\ e \in Sweeps => limit > 0
  /\ saw' = [saw EXCEPT ![e] =
       IF e \in Sweeps THEN [limit |-> limit, manual |-> manual] ELSE Unread]
  /\ today' = [today EXCEPT ![e] = day]
  /\ opening' = [opening EXCEPT ![e] = snapshot[day]]
  /\ stage' = [stage EXCEPT ![e] = IF snapshot[day] = None THEN "opening" ELSE "current"]
  /\ UNCHANGED <<day, equity, settingVars, snapshot, historyVars>>

\* A plausible bug: after the failed insert the own value is used.
SnapshotOwn(e) ==
  /\ stage[e] = "opening"
  /\ snapshot' = [snapshot EXCEPT ![today[e]] = IF @ = None THEN equity ELSE @]
  /\ opening' = [opening EXCEPT ![e] = equity]
  /\ stage' = [stage EXCEPT ![e] = "current"]
  /\ UNCHANGED <<day, equity, settingVars, saw, today, historyVars>>

\* A plausible bug: an upsert instead of the unique constraint.
SnapshotUpsert(e) ==
  /\ stage[e] = "opening"
  /\ snapshot' = [snapshot EXCEPT ![today[e]] = equity]
  /\ opening' = [opening EXCEPT ![e] = equity]
  /\ stage' = [stage EXCEPT ![e] = "current"]
  /\ UNCHANGED <<day, equity, settingVars, saw, today, historyVars>>

\* ensure_daily_snapshot, once the equity is known: the insert succeeds, or the
\* unique constraint rejects it and the row on file is read.
Snapshot(e) ==
  /\ stage[e] = "opening"
  /\ snapshot' = [snapshot EXCEPT ![today[e]] = IF @ = None THEN equity ELSE @]
  /\ opening' = [opening EXCEPT ![e] = snapshot'[today[e]]]
  /\ stage' = [stage EXCEPT ![e] = "current"]
  /\ UNCHANGED <<day, equity, settingVars, saw, today, historyVars>>

Done(e) ==
  /\ stage' = [stage EXCEPT ![e] = "idle"]
  /\ saw' = [saw EXCEPT ![e] = Unread]
  /\ today' = [today EXCEPT ![e] = 0]
  /\ opening' = [opening EXCEPT ![e] = None]

\* The halt is automatic: the operator's switch was off when it was read.
AutoHalt(e) ==
  ~saw[e].manual /\ Breach(saw[e].limit, opening[e], equity)

\* A plausible bug: any mark counts, whatever its date.
TrippedEver == tripped # None

\* already_tripped_today reads the committed row: nothing holds the copy that
\* status worked with.
TrippedToday == tripped = day

\* The current equity is known: a reader is answered, a sweep with nothing to
\* do goes on to the next account.
Verdict(e) ==
  /\ stage[e] = "current"
  /\ e \in Readers \/ ~AutoHalt(e) \/ TrippedToday
  /\ Done(e)
  /\ UNCHANGED <<day, equity, settingVars, snapshot, historyVars>>

\* The sweep begins to cancel the working orders.
Flatten(s) ==
  /\ s \in Sweeps
  /\ stage[s] = "current"
  /\ AutoHalt(s)
  /\ ~TrippedToday
  /\ stage' = [stage EXCEPT ![s] = "flatten"]
  /\ flattens' = [flattens EXCEPT ![day][s] = @ + 1]
  /\ UNCHANGED <<day, equity, settingVars, snapshot, saw, today, opening, interrupted>>

\* A plausible bug: the date the evaluation began with is marked.
MarkEvaluated(s) ==
  /\ stage[s] = "flatten"
  /\ tripped' = today[s]
  /\ Done(s)
  /\ UNCHANGED <<day, equity, limit, manual, snapshot, historyVars>>

\* A plausible bug: the mark is meant to last until tomorrow.
MarkTomorrow(s) ==
  /\ stage[s] = "flatten"
  /\ tripped' = day + 1
  /\ Done(s)
  /\ UNCHANGED <<day, equity, limit, manual, snapshot, historyVars>>

\* cancel_open_orders has returned, whatever it achieved: the date of now is
\* marked.
Mark(s) ==
  /\ stage[s] = "flatten"
  /\ tripped' = day
  /\ Done(s)
  /\ UNCHANGED <<day, equity, limit, manual, snapshot, historyVars>>

\* Market prices or credentials cannot be had, or the process dies.
Abort(e) ==
  /\ stage[e] # "idle"
  /\ IF stage[e] = "flatten"
       THEN /\ interrupted[e] < MaxInterrupted[e]
            /\ interrupted' = [interrupted EXCEPT ![e] = @ + 1]
       ELSE UNCHANGED interrupted
  /\ Done(e)
  /\ UNCHANGED <<day, equity, settingVars, snapshot, flattens>>
-----------------------------------------------------------------------------
(* The operator and the world.                                             *)

SetConfig(l) ==
  /\ limit' = l
  /\ UNCHANGED <<day, equity, manual, tripped, snapshot, evalVars, historyVars>>

SetManualHalt(on) ==
  /\ manual' = on
  /\ UNCHANGED <<day, equity, limit, tripped, snapshot, evalVars, historyVars>>

EquityMoves(v) ==
  /\ equity' = v
  /\ UNCHANGED <<day, settingVars, snapshot, evalVars, historyVars>>

DayPasses ==
  /\ day < MaxDay
  /\ day' = day + 1
  /\ UNCHANGED <<equity, settingVars, snapshot, evalVars, historyVars>>
-----------------------------------------------------------------------------
RiskInit ==
  /\ day = 0
  /\ equity \in Equities
  /\ limit \in Limits
  /\ manual = FALSE
  /\ tripped = None
  /\ snapshot = [d \in Days |-> None]
  /\ stage = [e \in Evaluations |-> "idle"]
  /\ saw = [e \in Evaluations |-> Unread]
  /\ today = [e \in Evaluations |-> 0]
  /\ opening = [e \in Evaluations |-> None]
  /\ flattens = [d \in Days |-> [s \in Sweeps |-> 0]]
  /\ interrupted = [s \in Sweeps |-> 0]

Evaluates(e) == Begin(e) \/ Snapshot(e) \/ Verdict(e) \/ Abort(e)
Acts(s) == Flatten(s) \/ Mark(s)

WorldNext ==
  \/ \E l \in Limits : SetConfig(l)
  \/ \E on \in BOOLEAN : SetManualHalt(on)
  \/ \E v \in Equities : EquityMoves(v)
  \/ DayPasses

RiskNext ==
  \/ \E e \in Evaluations : Evaluates(e)
  \/ \E s \in Sweeps : Acts(s)
  \/ WorldNext

\* The scheduler starts sweeps for ever, and prices and the venue, asked again
\* and again, are there in the end.
RiskFairness ==
  \A s \in Sweeps :
    /\ WF_riskVars(Begin(s))
    /\ SF_riskVars(Snapshot(s) \/ Verdict(s) \/ Acts(s))

RiskSpec == RiskInit /\ [][RiskNext]_riskVars
RiskFairSpec == RiskSpec /\ RiskFairness
-----------------------------------------------------------------------------
(* Properties.                                                             *)

\* Every variable has its type.
RiskTypeOK ==
  /\ day \in Days
  /\ equity \in Equities
  /\ limit \in Limits
  /\ manual \in BOOLEAN
  /\ tripped \in Days \union {None}
  /\ snapshot \in [Days -> Equities \union {None}]
  /\ stage \in [Evaluations -> {"idle", "opening", "current", "flatten"}]
  /\ saw \in [Evaluations -> [limit : Limits \union {0}, manual : BOOLEAN]]
  /\ today \in [Evaluations -> Days]
  /\ opening \in [Evaluations -> Equities \union {None}]
  /\ flattens \in [Days -> [Sweeps -> Nat]]
  /\ interrupted \in [Sweeps -> Nat]
  /\ \A s \in Sweeps : interrupted[s] <= MaxInterrupted[s]

\* All evaluations of one day compare with one opening equity, the one on file,
\* however many of them computed one of their own ("never let two racing
\* requests choose different bases for the drawdown halt").
OneOpeningPerDay ==
  \A e \in Evaluations : stage[e] \in {"current", "flatten"} =>
    opening[e] = snapshot[today[e]] /\ opening[e] # None

\* The opening equity of a day is never changed once it is written, not by a
\* late request either that took its date before midnight.
OpeningIsFinal ==
  [][\A d \in Days : snapshot[d] # None => snapshot'[d] = snapshot[d]]_riskVars

\* A sweep flattens an account at most once a day, unless a flatten was cut
\* short before its mark: two days, several sweeps, a flatten that lasts past
\* midnight and a limit that is broken, lifted and broken again included.
OneFlattenPerSweepAndDay ==
  \A d \in Days, s \in Sweeps : flattens[d][s] <= 1 + interrupted[s]

\* The account is in a state that the sweep is there for.
Exposed ==
  /\ snapshot[day] # None
  /\ ~manual
  /\ Breach(limit, snapshot[day], equity)

\* If the loss limit of the day stays broken, the day is marked in the end, and
\* every later one (of the MaxDay there are) that finds it broken: neither an
\* earlier day's mark, nor a lost evaluation, nor a resumed switch lets the
\* automatic halt sleep.
BreachIsActedOn == (<>[]Exposed) => []<>(tripped = day)
=============================================================================
