------------------------------ MODULE Reports ------------------------------
(***************************************************************************)
(* What a user reads about the account over time: the performance report   *)
(* over the daily snapshots, which have gaps, the goal measured against it *)
(* and the rebalance plan.  Snapshots come one per day at most; the live   *)
(* equity and the values of the positions move freely.                     *)
(*                                                                         *)
(* Percentages are compared as fractions <<n, d>>; rounding is left out.   *)
(* An annualised return is only compared with a target of 0 per cent, for  *)
(* which its sign decides.                                                 *)
(***************************************************************************)
EXTENDS Integers, FiniteSets, SequencesExt, FiniteSetsExt, Functions

CONSTANTS
  LastDay,      \* bound: days
  Equities,     \* values of the equity
  Windows,      \* values of `limit`
  Portfolio,    \* symbols of the portfolio
  Weights,      \* the target weights asked for, by symbol
  LossLimits,   \* values of max_drawdown_pct
  NoValue

ASSUME ReportsAssumption ==
  /\ LastDay \in Nat \ {0} /\ Equities \subseteq Nat /\ Equities # {} /\ Windows \subseteq Nat \ {0}
  /\ LossLimits \subseteq 0..100 /\ NoValue \notin Nat /\ IsFiniteSet(Portfolio)

VARIABLES
  day,
  snapshots,  \* the opening equity of each day, NoValue when nobody looked
  equity,     \* the live equity
  goal        \* the limit of the goal, NoValue when there is none

reportVars == <<day, snapshots, equity, goal>>
-----------------------------------------------------------------------------
(* The performance report.                                                 *)

Recorded == {d \in 1..LastDay : snapshots[d] # NoValue}
InTime(days) ==
  CHOOSE q \in [1..Cardinality(days) -> days] : \A i, j \in DOMAIN q : i < j => q[i] < q[j]

\* A plausible bug: the window keeps the oldest points.
OldestFirst(limit) == SubSeq(InTime(Recorded), 1, Min({limit, Cardinality(Recorded)}))

\* The days of _series: the newest `limit` snapshots, oldest first.
Points(limit) ==
  LET n == Cardinality(Recorded) IN SubSeq(InTime(Recorded), Max({1, n - limit + 1}), n)

SpanDays(points) == points[Len(points)] - points[1] + 1

\* Fractions: a is worse (lower) than b.
Worse(a, b) == a[1] * b[2] < b[1] * a[2]

\* _max_drawdown_pct: one pass with the peak so far.
NoFall == [peak |-> 0, worst |-> <<0, 1>>]
Passed(s, v) ==
  LET peak == IF v > s.peak THEN v ELSE s.peak
      fall == <<v - peak, peak>> IN
  [peak |-> peak, worst |-> IF peak > 0 /\ Worse(fall, s.worst) THEN fall ELSE s.worst]
MaxDrawdown(values) == FoldLeft(Passed, NoFall, values).worst

\* _daily_returns, between neighbours; after a zero there is none.
DailyReturns(values) ==
  {<<values[i + 1] - values[i], values[i]>> : i \in {i \in 1..Len(values) - 1 : values[i] # 0}}

Report(limit) ==
  LET points == Points(limit)
      marked == Append([i \in 1..Len(points) |-> snapshots[points[i]]], equity) IN
  IF points = <<>>
    THEN [covered |-> 0, span |-> 0, sparse |-> FALSE, start |-> equity,
          growth |-> <<0, 1>>, drawdown |-> <<0, 1>>, daily |-> {}]
    ELSE [covered |-> Len(points), span |-> SpanDays(points),
          sparse |-> Len(points) < SpanDays(points), start |-> marked[1],
          growth |-> IF marked[1] = 0 THEN <<0, 1>> ELSE <<equity - marked[1], marked[1]>>,
          drawdown |-> MaxDrawdown(marked), daily |-> DailyReturns(marked)]

\* progress, over the default window of a year.
GoalStatus ==
  LET r == Report(365) IN
  IF r.span < 2 \/ r.start = 0 THEN "insufficient_history"
  ELSE IF Worse(r.drawdown, <<-goal, 100>>) THEN "breached"
  ELSE IF r.growth[1] >= 0 THEN "on_track" ELSE "behind"
-----------------------------------------------------------------------------
(* The rebalance plan, in hundredths of the notional.                      *)

\* What the request model accepts (rebalance.py, 15-26).
ASSUME WeightsAssumption ==
  \A targets \in Weights :
    /\ IsFiniteSet(DOMAIN targets) /\ \A s \in DOMAIN targets : targets[s] \in 0..100
    /\ SumFunction(targets) = 100

\* A plausible bug: only the symbols the request names are planned.
PlannedNamed(values, targets) == DOMAIN targets

\* What is held is planned too, and sold when the request does not name it.
Planned(values, targets) == DOMAIN values \union DOMAIN targets

Given(f, s) == IF s \in DOMAIN f THEN f[s] ELSE 0
Delta(values, targets, s) == SumFunction(values) * Given(targets, s) - 100 * Given(values, s)

RebalancePlan(values, targets) ==
  [s \in {s \in Planned(values, targets) : Delta(values, targets, s) # 0} |->
     LET delta == Delta(values, targets, s) IN
     IF delta > 0 THEN [side |-> "buy", notional |-> delta] ELSE [side |-> "sell", notional |-> -delta]]
-----------------------------------------------------------------------------
\* ensure_daily_snapshot, on the first look of a day.
Snapshot ==
  /\ snapshots[day] = NoValue
  /\ snapshots' = [snapshots EXCEPT ![day] = equity]
  /\ UNCHANGED <<day, equity, goal>>

EquityMoves(e) ==
  /\ equity' = e
  /\ UNCHANGED <<day, snapshots, goal>>

NextDay ==
  /\ day < LastDay
  /\ day' = day + 1
  /\ UNCHANGED <<snapshots, equity, goal>>

\* set: one goal per user, replaced in place.
SetGoal(limit) ==
  /\ goal' = limit
  /\ UNCHANGED <<day, snapshots, equity>>

ReportsInit ==
  /\ day = 1
  /\ snapshots = [d \in 1..LastDay |-> NoValue]
  /\ equity = CHOOSE e \in Equities : TRUE
  /\ goal = NoValue

ReportsNext ==
  \/ Snapshot \/ NextDay
  \/ \E e \in Equities : EquityMoves(e)
  \/ \E limit \in LossLimits : SetGoal(limit)

ReportsSpec == ReportsInit /\ [][ReportsNext]_reportVars
-----------------------------------------------------------------------------
(* Properties.                                                             *)

ReportsTypeOK ==
  /\ day \in 1..LastDay
  /\ snapshots \in [1..LastDay -> Equities \union {NoValue}]
  /\ equity \in Equities
  /\ goal \in LossLimits \union {NoValue}

\* What a report over `limit` snapshots is about: the newest of them, and the live equity
\* on the day after.
Window(limit) == {d \in Recorded : Cardinality({e \in Recorded : e >= d}) <= limit}
Curve(limit) ==
  [d \in Window(limit) \union {LastDay + 1} |-> IF d > LastDay THEN equity ELSE snapshots[d]]

\* A gap is reported and never filled.
GapsShow(r, days) ==
  r.sparse <=> \E d \in Min(days)..Max(days) : snapshots[d] = NoValue

\* The drawdown is the worst fall from any earlier value.
DrawdownIsWorst(r, value) ==
  /\ \A a, b \in DOMAIN value :
       a <= b /\ value[a] > 0 => ~Worse(<<value[b] - value[a], value[a]>>, r.drawdown)
  /\ r.drawdown[1] = 0 \/ \E a, b \in DOMAIN value :
       a < b /\ r.drawdown = <<value[b] - value[a], value[a]>>

\* A goal whose limit the worst fall exceeds is breached, even after a recovery.
BreachShows(value) ==
  GoalStatus = "breached" <=>
    \E a, b \in DOMAIN value : a < b /\ value[a] > 0 /\ 100 * (value[a] - value[b]) > goal * value[a]

\* A report, whatever its window, is of the most recent days and the worst fall among
\* them, gaps included; the goal's status follows from the report over its window.
ReportIsHonest ==
  \A limit \in Windows :
    LET r == Report(limit)
        value == Curve(limit) IN
    Window(limit) # {} =>
      /\ GapsShow(r, Window(limit))
      /\ r.start = value[Min(Window(limit))]
      /\ DrawdownIsWorst(r, value)
      /\ goal # NoValue /\ r = Report(365) /\ r.span >= 2 /\ r.start > 0 => BreachShows(value)

\* A plan buys for what it sells, whatever is held and whatever it leaves out; what the
\* request does not name is sold whole.
PlanIsBalanced ==
  \A targets \in Weights, values \in [Portfolio -> {0, equity, 2 * equity}] :
    LET plan == RebalancePlan(values, targets)
        Notional(side) == SumFunction([s \in {s \in DOMAIN plan : plan[s].side = side} |-> plan[s].notional]) IN
    SumFunction(values) > 0 =>
      /\ Notional("buy") = Notional("sell")
      /\ \A s \in Portfolio \ DOMAIN targets :
           values[s] > 0 => plan[s] = [side |-> "sell", notional |-> 100 * values[s]]

ReportsAddUp == ReportIsHonest /\ PlanIsBalanced
=============================================================================
