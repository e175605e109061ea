------------------------------ MODULE Backtest ------------------------------
(***************************************************************************)
(* Backtests: the replay of a history of closing prices under the RSI      *)
(* rule, the walk-forward validation, and the history of saved runs with   *)
(* its cap per user.  The simulation is pure; the saves of several workers *)
(* interleave between their commits.                                       *)
(*                                                                         *)
(* Amounts are fractions <<n, d>>: the code's floats without their         *)
(* rounding.  Bar t is index t - 1 of the code.                            *)
(***************************************************************************)
EXTENDS Amounts, FiniteSets, SequencesExt

CONSTANTS
  RsiWindow,         \* 14 in the code
  LeastWarmup,       \* 15
  Slack, LeastTrain, \* 10 and 20: the least history of a first training window
  BacktestRequests,        \* requests: [buy, sell, warmup, folds, test]
  Closes, MaxBars,   \* bound: closing prices and length of a history
  Capital,
  Owners, Savers,   \* users; workers that may be saving
  MaxRunsPerUser,
  MaxSaves, MaxKills, \* bounds: saves, and workers that die before they prune
  Resting

ASSUME BacktestAssumption ==
  /\ RsiWindow \in Nat \ {0} /\ LeastWarmup \in Nat /\ LeastWarmup > RsiWindow /\ Slack \in Nat /\ LeastTrain \in Nat
  /\ Capital \in Nat \ {0} /\ Closes \subseteq Nat /\ MaxRunsPerUser \in Nat \ {0}
  /\ MaxBars \in Nat /\ MaxSaves \in Nat /\ MaxKills \in Nat /\ IsFiniteSet(Savers)
  /\ BacktestRequests \subseteq [buy : 1..99, sell : 1..99, warmup : Nat \ {0}, folds : Nat \ {0}, test : Nat \ {0}]
  /\ \A s \in BacktestRequests : s.buy < s.sell

VARIABLES
  closes,  \* the history of the one symbol, as far as the provider has it
  runs,    \* BacktestRun rows
  save,    \* what each worker is doing: Resting, or [step, row]
  saves, kills

backtestVars == <<closes, runs, save, saves, kills>>
-----------------------------------------------------------------------------
Nought == Whole(0)
TotalOf(amounts) == FoldLeft(Plus, Nought, amounts)
-----------------------------------------------------------------------------
(* The simulation.                                                         *)

\* The moves of the last RsiWindow bars up to t, of one direction (1 up, -1 down).
Moves(c, t, direction) ==
  SumFunction([j \in t - RsiWindow + 1..t |->
                LET move == direction * (c[j] - c[j - 1]) IN IF move > 0 THEN move ELSE 0])

\* _rsi of the first t closes, none before there are enough.
Rsi(c, t) ==
  LET gain == Moves(c, t, 1)
      loss == Moves(c, t, -1) IN
  IF loss = 0 THEN IF gain > 0 THEN <<100, 1>> ELSE <<50, 1>>
  ELSE <<100 * gain, gain + loss>>

\* _rule_signal.
RuleSignal(req, rsi) ==
  IF rsi[1] <= req.buy * rsi[2] THEN "BUY"
  ELSE IF rsi[1] >= req.sell * rsi[2] THEN "SELL" ELSE "HOLD"

Warmup(req) == IF req.warmup > LeastWarmup THEN req.warmup ELSE LeastWarmup

\* A plausible bug: the rule sees the bar it could not have known.
SignalAhead(req, c, t) ==
  IF t > Warmup(req) /\ c[t] > 0 THEN RuleSignal(req, Rsi(c, IF t < Len(c) THEN t + 1 ELSE t)) ELSE "HOLD"

\* What the rule says at bar t, from the closes up to it.
Signal(req, c, t) ==
  IF t > Warmup(req) /\ c[t] > 0 THEN RuleSignal(req, Rsi(c, t)) ELSE "HOLD"

\* _close_trade.
CloseTrade(entry, exit, qty, t) ==
  [entry |-> entry, exit |-> exit, quantity |-> qty, pnl |-> Times(exit - entry, qty), at |-> t]

\* One bar of _simulate: all in, or all out, then the mark of the equity.
Bar(req, c, st, t) ==
  LET price == c[t]
      signal == Signal(req, c, t)
      moved ==
        CASE signal = "BUY" /\ st.shares[1] = 0 ->
               [st EXCEPT !.shares = <<st.cash[1], st.cash[2] * price>>, !.entry = price, !.cash = Nought]
          [] signal = "SELL" /\ st.shares[1] > 0 ->
               [st EXCEPT !.trades = Append(@, CloseTrade(st.entry, price, st.shares, t)),
                          !.cash = Times(price, st.shares), !.shares = Nought, !.entry = 0]
          [] OTHER -> st IN
  [moved EXCEPT !.curve = Append(@, Plus(moved.cash, Times(price, moved.shares)))]

\* _metrics: the trades it counts, and the equity after the last bar.
Metrics(curve, trades) ==
  [trades |-> Len(trades), wins |-> Cardinality({i \in DOMAIN trades : trades[i].pnl[1] > 0}),
   final |-> IF curve = <<>> THEN Whole(Capital) ELSE Last(curve)]

\* What is reported of the state after the last bar: a position still open is closed at its
\* price.
ReportOf(c, end) ==
  LET trades == IF end.shares[1] > 0
                THEN Append(end.trades, CloseTrade(end.entry, Last(c), end.shares, Len(c)))
                ELSE end.trades IN
  [bars |-> Len(c), curve |-> end.curve, trades |-> trades, metrics |-> Metrics(end.curve, trades)]

\* _simulate.
Simulate(req, c) ==
  LET start == [cash |-> Whole(Capital), shares |-> Nought, entry |-> 0, trades |-> <<>>, curve |-> <<>>] IN
  ReportOf(c, FoldLeft(LAMBDA st, t : Bar(req, c, st, t), start, [t \in DOMAIN c |-> t]))
-----------------------------------------------------------------------------
(* Walk-forward validation.                                                *)

\* The folds of walk_forward: the bars each is trained on and tested on; none, when
\* the history is too short.
Folds(req, c) ==
  LET first == Len(c) - req.folds * req.test
      least == IF req.warmup + Slack > LeastTrain THEN req.warmup + Slack ELSE LeastTrain IN
  IF first < least THEN <<>>
  ELSE [k \in 1..req.folds |->
         LET trainEnd == first + (k - 1) * req.test
             testStart == IF trainEnd > req.warmup THEN trainEnd - req.warmup ELSE 0 IN
         [trainEnd |-> trainEnd, testStart |-> testStart, testEnd |-> trainEnd + req.test,
          train |-> Simulate(req, SubSeq(c, 1, trainEnd)),
          test |-> Simulate(req, SubSeq(c, testStart + 1, trainEnd + req.test))]]
-----------------------------------------------------------------------------
(* Saved runs.                                                             *)

\* BacktestRun, and what a worker is doing.
Histories == UNION {[1..n -> Closes] : n \in 1..MaxBars}
BacktestRow == [user : Owners, req : BacktestRequests, stamp : 1..MaxSaves,
                report : {Simulate(req, c) : req \in BacktestRequests, c \in Histories}]
SaveWork == [step : {"commit", "prune"}, row : BacktestRow]

ASSUME RestingAssumption == Resting \notin SaveWork

RunsOf(u) == {r \in runs : r.user = u}
Newer(r, q) == r.stamp > q.stamp

\* _prune: the rows beyond the newest MaxRunsPerUser.
StaleOfOneMore(u) == {r \in RunsOf(u) : Cardinality({q \in RunsOf(u) : Newer(q, r)}) > MaxRunsPerUser}
Stale(u) == {r \in RunsOf(u) : Cardinality({q \in RunsOf(u) : Newer(q, r)}) >= MaxRunsPerUser}

\* _to_row: a run carries its time of creation before it is saved.
ToRow(u, req, stamp, report) == [user |-> u, req |-> req, stamp |-> stamp, report |-> report]

\* run_and_save up to its commit.
RunBacktest(w, u, req) ==
  /\ save[w] = Resting /\ saves < MaxSaves /\ closes # <<>>
  /\ saves' = saves + 1
  /\ save' = [save EXCEPT ![w] =
       [step |-> "commit", row |-> ToRow(u, req, saves', Simulate(req, closes))]]
  /\ UNCHANGED <<closes, runs, kills>>

SaveRun(w) ==
  /\ save[w] # Resting /\ save[w].step = "commit"
  /\ runs' = runs \union {save[w].row}
  /\ save' = [save EXCEPT ![w].step = "prune"]
  /\ UNCHANGED <<closes, saves, kills>>

Prune(w) ==
  /\ save[w] # Resting /\ save[w].step = "prune"
  /\ runs' = runs \ Stale(save[w].row.user)
  /\ save' = [save EXCEPT ![w] = Resting]
  /\ UNCHANGED <<closes, saves, kills>>

\* The worker dies with the run saved and nothing pruned.
KillSaver(w) ==
  /\ save[w] # Resting /\ save[w].step = "prune" /\ kills < MaxKills
  /\ kills' = kills + 1
  /\ save' = [save EXCEPT ![w] = Resting]
  /\ UNCHANGED <<closes, runs, saves>>

\* delete_run, of a run _find gives to this user.
DeleteRun(u, r) ==
  /\ r \in RunsOf(u)
  /\ runs' = runs \ {r}
  /\ UNCHANGED <<closes, save, saves, kills>>

NewBar(price) ==
  /\ Len(closes) < MaxBars
  /\ closes' = Append(closes, price)
  /\ UNCHANGED <<runs, save, saves, kills>>

BacktestInit ==
  /\ closes = <<>> /\ runs = {} /\ save = [w \in Savers |-> Resting]
  /\ saves = 0 /\ kills = 0

BacktestNext ==
  \/ \E price \in Closes : NewBar(price)
  \/ \E w \in Savers :
       \/ \E u \in Owners, req \in BacktestRequests : RunBacktest(w, u, req)
       \/ SaveRun(w) \/ Prune(w) \/ KillSaver(w)
  \/ \E u \in Owners : \E r \in runs : DeleteRun(u, r)

BacktestSpec == BacktestInit /\ [][BacktestNext]_backtestVars
-----------------------------------------------------------------------------
(* Properties.                                                             *)

BacktestTypeOK ==
  /\ closes \in Seq(Closes) /\ Len(closes) <= MaxBars
  /\ runs \subseteq BacktestRow /\ \A r \in runs : r.stamp <= saves
  /\ saves \in 0..MaxSaves /\ kills \in 0..MaxKills
  /\ save \in [Savers -> SaveWork \union {Resting}]

\* No lookahead: what a saved run did on its bars is what the same strategy still does
\* on them when the history has grown, except the closing of the position left open.
Replayable(r) ==
  LET now == Simulate(r.req, closes) IN
  /\ IsPrefix(r.report.curve, now.curve)
  /\ \A i \in DOMAIN r.report.trades :
       r.report.trades[i].at < r.report.bars =>
         i \in DOMAIN now.trades /\ now.trades[i] = r.report.trades[i]

\* The result of a run is what its trades made: money is neither left out nor counted
\* twice, whatever was open at the end.
TradesExplainReturn(r) ==
  SameAmount(Plus(Whole(Capital), TotalOf([i \in DOMAIN r.report.trades |-> r.report.trades[i].pnl])),
        r.report.metrics.final)

\* Out of sample is out of sample: every held-out bar is in one test, a test trades on
\* no bar of its training window, and starts from the capital alone.
HeldOut(folds) ==
  folds # <<>> =>
    /\ \A t \in folds[1].trainEnd + 1..Len(closes) :
         Cardinality({k \in DOMAIN folds : folds[k].trainEnd < t /\ t <= folds[k].testEnd}) = 1
    /\ \A k \in DOMAIN folds :
         /\ SameAmount(folds[k].test.curve[1], Whole(Capital))
         /\ \A t \in DOMAIN folds[k].test.curve :
              folds[k].testStart + t <= folds[k].trainEnd
                => SameAmount(folds[k].test.curve[t], Whole(Capital))
         /\ \A i \in DOMAIN folds[k].test.trades :
              folds[k].testStart + folds[k].test.trades[i].at > folds[k].trainEnd

\* A backtest can be believed: it knows no later bar, its trades explain its result, and
\* the validation of a strategy keeps training and test apart.
BacktestIsHonest ==
  /\ \A r \in runs : Replayable(r) /\ TradesExplainReturn(r)
  /\ \A folds \in {Folds(req, closes) : req \in BacktestRequests} : HeldOut(folds)

\* The history of a user stays at its cap, but for saves under way and saves that died.
HistoryIsCapped ==
  \A u \in Owners :
    Cardinality(RunsOf(u)) <=
      MaxRunsPerUser + kills + Cardinality({w \in Savers : save[w] # Resting /\ save[w].step = "prune"})

\* What a backtest answers can be believed, and what is kept of it is bounded.
BacktestHolds == BacktestIsHonest /\ HistoryIsCapped
=============================================================================
