------------------------------ MODULE Scorecard ------------------------------
(***************************************************************************)
(* Scorecard: a request grades the signals of a user against the market.  *)
(* It reads signals and orders once, quotes their symbols one at a time    *)
(* while fills and prices move on, and scores what it read.                *)
(*                                                                         *)
(* A signal is its audit row joined to its order.  Prices are integers, a  *)
(* confidence is in hundredths.                                            *)
(***************************************************************************)
EXTENDS Integers, FiniteSets, Sequences, FiniteSetsExt, Functions

CONSTANTS
  SignalKinds,    \* what may be on file: [symbol, side, qty, confidence], confidence may be Blank
  Assets, Fills, Marks,  \* symbols, fill prices, market prices (0: a quote that makes no sense)
  MinSample,      \* scored signals a calibration asks for: 10 in the code
  MaxGraded, MaxMoves,    \* bounds
  Blank

ASSUME ScorecardAssumption ==
  /\ Fills \subseteq Nat \ {0} /\ Marks \subseteq Nat /\ 1 \in Marks
  /\ MinSample \in Nat \ {0} /\ MaxMoves \in Nat
  /\ \A kind \in SignalKinds : kind.symbol \in Assets /\ kind.side \in {"buy", "sell"}
       /\ kind.qty \in Nat \ {0} /\ kind.confidence \in (0..100) \union {Blank}

VARIABLES
  graded,    \* the audited orders, oldest first: kind and fill (Blank or price)
  latest,     \* the price of each symbol
  request,    \* Blank, or the scorecard under way
  card,       \* the last scorecard: [evaluated, unfilled, unpriced, ...], with what it read
  moves       \* how often prices moved, bounded

scoreVars == <<graded, latest, request, card, moves>>
-----------------------------------------------------------------------------
(* The market and the orders move on.                                      *)

RecordSignal(kind) ==
  /\ Len(graded) < MaxGraded
  /\ graded' = Append(graded, [kind |-> kind, fill |-> Blank])
  /\ UNCHANGED <<latest, request, card, moves>>

\* Reconciliation writes the average fill price, again while the order fills.
FillSignal(i, price) ==
  /\ graded[i].fill # price
  /\ graded' = [graded EXCEPT ![i].fill = price]
  /\ UNCHANGED <<latest, request, card, moves>>

PriceMoves(s, price) ==
  /\ moves < MaxMoves /\ latest[s] # price
  /\ moves' = moves + 1 /\ latest' = [latest EXCEPT ![s] = price]
  /\ UNCHANGED <<graded, request, card>>
-----------------------------------------------------------------------------
(* The scorecard.                                                          *)

\* _partition: what was filled is read once; the rest is only counted.
Ask(symbol) ==
  /\ request = Blank /\ card = Blank
  /\ LET mine == {i \in DOMAIN graded : symbol = Blank \/ graded[i].kind.symbol = symbol}
         filled == {i \in mine : graded[i].fill # Blank} IN
     request' = [read |-> Restrict(graded, mine), filled |-> filled, unfilled |-> Cardinality(mine \ filled),
                 todo |-> {graded[i].kind.symbol : i \in filled},
                 prices |-> [s \in {} |-> 0], degraded |-> FALSE]
  /\ UNCHANGED <<graded, latest, card, moves>>

\* _quote_all: each symbol is awaited once; a failure degrades the report only.
Quote(s) ==
  /\ request # Blank /\ s \in request.todo
  /\ \/ request' = [request EXCEPT !.todo = request.todo \ {s},
                      !.prices = [t \in DOMAIN request.prices \union {s} |->
                                    IF t = s THEN latest[s] ELSE request.prices[t]]]
     \/ request' = [request EXCEPT !.todo = request.todo \ {s}, !.degraded = TRUE]
  /\ UNCHANGED <<graded, latest, card, moves>>

Priced(r, g) == g.kind.symbol \in DOMAIN r.prices /\ r.prices[g.kind.symbol] > 0

\* _score: the return is negated for a sale; gain is the P&L, and gain over cost the return.
Scored(g, price) ==
  LET move == IF g.kind.side = "buy" THEN price - g.fill ELSE g.fill - price IN
  [symbol |-> g.kind.symbol, side |-> g.kind.side, fill |-> g.fill, confidence |-> g.kind.confidence,
   price |-> price, gain |-> move * g.kind.qty, cost |-> g.fill * g.kind.qty, correct |-> move > 0]

\* A list of outcomes is a function on the positions that are on it.
Size(list) == Cardinality(DOMAIN list)
HitsOf(list) == Cardinality({i \in DOMAIN list : list[i].correct})
TotalGain(list) == SumFunction([i \in DOMAIN list |-> list[i].gain])
Confident(list) == Restrict(list, {i \in DOMAIN list : list[i].confidence # Blank})

\* A plausible bug: the last bucket ends at full confidence and leaves it out.
BucketsToOne == {<<0, 50>>, <<50, 60>>, <<60, 70>>, <<70, 80>>, <<80, 90>>, <<90, 100>>}

\* _BUCKETS: half-open, the last one reaches past full confidence.
Buckets == {<<0, 50>>, <<50, 60>>, <<60, 70>>, <<70, 80>>, <<80, 90>>, <<90, 101>>}

\* _bucketize
WithConfidence(list, low, high) ==
  Restrict(list, {i \in DOMAIN list : list[i].confidence # Blank
                                      /\ low <= list[i].confidence /\ list[i].confidence < high})
Bucketize(list) ==
  LET Group(b) == WithConfidence(list, b[1], b[2]) IN
  [b \in {c \in Buckets : Size(Group(c)) > 0} |->
     [signals |-> Size(Group(b)), hits |-> HitsOf(Group(b)), gain |-> TotalGain(Group(b))]]

\* _calibration_note: hit rates above and below three quarters, five points apart.
Calibration(list) ==
  LET high == WithConfidence(list, 75, 101)
      low == WithConfidence(list, 0, 75)
      delta == 100 * (HitsOf(high) * Size(low) - HitsOf(low) * Size(high))
      five == 5 * (Size(high) * Size(low)) IN
  CASE Size(Confident(list)) < MinSample -> "thin"
    [] Size(Confident(list)) >= MinSample /\ five = 0 -> "narrow"
    [] Size(Confident(list)) >= MinSample /\ five > 0 /\ delta > five -> "better"
    [] Size(Confident(list)) >= MinSample /\ five > 0 /\ delta < -five -> "worse"
    [] OTHER -> "same"

Exceeds(o, other) == o.gain * other.cost > other.gain * o.cost

\* max and min by return_pct: the first of those that nothing exceeds, or that exceed nothing.
Best(list) == list[Min({i \in DOMAIN list : \A j \in DOMAIN list : ~Exceeds(list[j], list[i])})]
Worst(list) == list[Min({i \in DOMAIN list : \A j \in DOMAIN list : ~Exceeds(list[i], list[j])})]

\* _aggregate, once every symbol was quoted.
Grade ==
  /\ request # Blank /\ request.todo = {}
  /\ LET priced == {i \in request.filled : Priced(request, request.read[i])}
         outcomes == [i \in priced |-> Scored(request.read[i], request.prices[request.read[i].kind.symbol])] IN
     card' = [read |-> request.read, prices |-> request.prices, outcomes |-> outcomes,
              evaluated |-> Size(outcomes), unfilled |-> request.unfilled,
              unpriced |-> Cardinality(request.filled \ priced),
              hits |-> HitsOf(outcomes), gain |-> TotalGain(outcomes),
              buckets |-> Bucketize(outcomes),
              best |-> IF priced = {} THEN Blank ELSE Best(outcomes),
              worst |-> IF priced = {} THEN Blank ELSE Worst(outcomes),
              note |-> IF priced = {} THEN "none" ELSE Calibration(outcomes),
              degraded |-> request.degraded]
  /\ request' = Blank
  /\ UNCHANGED <<graded, latest, moves>>
-----------------------------------------------------------------------------
ScoreInit ==
  /\ graded = <<>> /\ latest = [s \in Assets |-> 1] /\ request = Blank /\ card = Blank /\ moves = 0

ScoreNext ==
  \/ \E kind \in SignalKinds : RecordSignal(kind)
  \/ \E i \in DOMAIN graded, price \in Fills : FillSignal(i, price)
  \/ \E s \in Assets, price \in Marks : PriceMoves(s, price)
  \/ \E symbol \in Assets \union {Blank} : Ask(symbol)
  \/ \E s \in Assets : Quote(s)
  \/ Grade

ScoreSpec == ScoreInit /\ [][ScoreNext]_scoreVars
-----------------------------------------------------------------------------
(* Properties.                                                             *)

ScoreTypeOK ==
  /\ graded \in Seq([kind : SignalKinds, fill : Fills \union {Blank}])
  /\ latest \in [Assets -> Marks] /\ moves \in 0..MaxMoves
  /\ request = Blank \/ (request.todo \subseteq Assets /\ DOMAIN request.prices \subseteq Assets)
  /\ card = Blank \/ card.note \in {"none", "thin", "narrow", "better", "worse", "same"}

\* Every signal the scorecard read counts once: evaluated, unfilled or unpriced, and an
\* outage shows.  Signals of one symbol are marked at one price, so that a purchase and a
\* sale at one price are never both right.  Every confidence falls in one bucket, the
\* buckets add up, and a verdict on calibration has both sides behind it.
ScorecardAddsUp ==
  card # Blank =>
    LET Total(figure) == SumFunction([b \in DOMAIN card.buckets |-> card.buckets[b][figure]])
        confident == Confident(card.outcomes) IN
    /\ card.evaluated + card.unfilled + card.unpriced = Cardinality(DOMAIN card.read)
    /\ card.unpriced > 0 => card.degraded \/ \E s \in DOMAIN card.prices : card.prices[s] = 0
    /\ \A o, p \in Range(card.outcomes) : o.symbol = p.symbol =>
         /\ o.price = p.price
         /\ o.side # p.side /\ o.fill = p.fill => ~(o.correct /\ p.correct)
    /\ Total("signals") = Size(confident)
    /\ Total("hits") = HitsOf(confident)
    /\ Total("gain") = TotalGain(confident)
    /\ card.evaluated > 0 => ~Exceeds(card.worst, card.best)
    /\ card.note \in {"better", "worse"} =>
         /\ Size(confident) >= MinSample
         /\ \E o, p \in Range(confident) : o.confidence >= 75 /\ p.confidence < 75 /\ o.correct # p.correct
=============================================================================
