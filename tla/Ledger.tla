------------------------------- MODULE Ledger -------------------------------
(***************************************************************************)
(* The transaction ledger of one user and what is rebuilt from it on every *)
(* read: average-cost holdings, FIFO and LIFO tax lots, and the equity of  *)
(* the risk and performance reports.  Two services write it: requests,     *)
(* which check a sale against the holding, and the reconciliation, which   *)
(* books what the broker has filled.  Between the check of a sale and its  *)
(* commit others commit.                                                   *)
(*                                                                         *)
(* Amounts are exact, as Decimal is at this scale; an average is a fraction *)
(* <<n, d>>.  The rounding of reports is left out.                         *)
(***************************************************************************)
EXTENDS Amounts, FiniteSets, SequencesExt

CONSTANTS
  Symbols,
  Writers,     \* requests and reconciliations that can be under way at once
  Quantities, PriceSet,
  MaxTx,       \* bound: transactions ever made
  Day,         \* the day of the n-th transaction
  NoTx

ASSUME LedgerAssumption ==
  /\ Quantities \subseteq Nat \ {0} /\ PriceSet \subseteq Nat \ {0} /\ MaxTx \in Nat
  /\ Day \in [1..MaxTx -> Nat] /\ \A i, j \in 1..MaxTx : i <= j => Day[i] <= Day[j]

Transaction == [symbol : Symbols, action : {"BUY", "SELL"}, quantity : Quantities,
                price : PriceSet, at : 1..MaxTx]

VARIABLES
  ledger,   \* the committed transactions
  pending,  \* the transaction each writer is about to commit
  clock,    \* transactions made; the timestamp of the last
  uncovered \* symbols with a sale its holding did not surely cover

ledgerVars == <<ledger, pending, clock, uncovered>>

\* What is committed of a symbol, and list_transactions: by timestamp.
Of(s) == {tx \in ledger : tx.symbol = s}
InOrder(txs) ==
  CHOOSE q \in [1..Cardinality(txs) -> txs] : \A i, j \in DOMAIN q : i < j => q[i].at < q[j].at
-----------------------------------------------------------------------------
(* Average-cost accounting.                                                *)

\* A plausible bug: a purchase averages the two prices and not the two costs.
ApplyAveragingPrices(s, tx) ==
  IF tx.action = "BUY"
    THEN LET total == Plus(s.avg, Whole(tx.price)) IN
         [s EXCEPT !.qty = @ + tx.quantity,
                   !.avg = IF s.qty = 0 THEN Whole(tx.price) ELSE <<total[1], total[2] * 2>>]
    ELSE LET k == Lesser(tx.quantity, s.qty) IN
         [qty |-> s.qty - k, avg |-> IF s.qty = k THEN <<0, 1>> ELSE s.avg,
          realized |-> Plus(s.realized, Plus(Whole(k * tx.price), Times(-k, s.avg)))]

\* _apply_transaction; a sale beyond the position is clamped.
ApplyTransaction(s, tx) ==
  IF tx.action = "BUY"
    THEN LET qty == s.qty + tx.quantity
             total == Plus(Times(s.qty, s.avg), Whole(tx.quantity * tx.price)) IN
         [s EXCEPT !.qty = qty, !.avg = <<total[1], total[2] * qty>>]
    ELSE LET k == Lesser(tx.quantity, s.qty) IN
         [qty |-> s.qty - k, avg |-> IF s.qty = k THEN <<0, 1>> ELSE s.avg,
          realized |-> Plus(s.realized, Plus(Whole(k * tx.price), Times(-k, s.avg)))]

\* reconstruct_holdings, for one symbol.
NoHolding == [qty |-> 0, avg |-> <<0, 1>>, realized |-> <<0, 1>>]
Holding(txs) == FoldLeft(ApplyTransaction, NoHolding, InOrder(txs))
Held(s) == Holding(Of(s)).qty

\* current_equity of risk and performance: marked positions and realised gain.
EquityOf(h, price) == Plus(Whole(h.qty * price), h.realized)
-----------------------------------------------------------------------------
(* Tax lots.                                                               *)

Year(tx) == Day[tx.at] \div 365
Years == {Day[i] \div 365 : i \in 1..MaxTx}

\* The lots in the order a sale draws on them: a FIFO report takes from index 0 and adds
\* at the end; a LIFO report takes from index -1, where it adds.
Acquire(lots, lot, method) == IF method = "FIFO" THEN Append(lots, lot) ELSE <<lot>> \o lots

\* _consume at one lot: it uses what is left of the sale, realises a piece of the year of
\* the sale, and drops the lot when nothing remains of it.
Draw(d, lot, sale) ==
  LET used == Lesser(d.left, lot.quantity)
      piece == [gain |-> used * (sale.price - lot.cost), year |-> Year(sale),
                term |-> IF Day[sale.at] - Day[lot.acquired] > 365 THEN "long" ELSE "short"] IN
  [left |-> d.left - used,
   lots |-> IF used = lot.quantity THEN d.lots ELSE Append(d.lots, [lot EXCEPT !.quantity = @ - used]),
   realized |-> IF used = 0 THEN d.realized ELSE Append(d.realized, piece)]

\* _consume; it fails when the lots run out.
Consume(r, sale) ==
  LET drawn == FoldLeft(LAMBDA d, lot : Draw(d, lot, sale),
                        [left |-> sale.quantity, lots |-> <<>>, realized |-> r.realized], r.lots) IN
  [lots |-> drawn.lots, realized |-> drawn.realized, failed |-> r.failed \/ drawn.left > 0]

\* report of the tax service, for one symbol; the report of a year shows the pieces of it.
NoLots == [lots |-> <<>>, realized |-> <<>>, failed |-> FALSE]
TaxStep(r, tx, method) ==
  IF tx.action = "BUY"
    THEN [r EXCEPT !.lots = Acquire(@, [quantity |-> tx.quantity, cost |-> tx.price, acquired |-> tx.at], method)]
    ELSE Consume(r, tx)
TaxReport(txs, method) == FoldLeft(LAMBDA r, tx : TaxStep(r, tx, method), NoLots, InOrder(txs))

GainOf(realized, year, term) ==
  SumFunction([i \in DOMAIN realized |->
    IF realized[i].year = year /\ realized[i].term = term THEN realized[i].gain ELSE 0])
Quantity(lots) == SumFunction([i \in DOMAIN lots |-> lots[i].quantity])
CostOf(lots) == SumFunction([i \in DOMAIN lots |-> lots[i].quantity * lots[i].cost])
-----------------------------------------------------------------------------
(* record_transaction and _apply_remote_state.                             *)

SaleUnderWay(r, s) == pending[r] # NoTx /\ pending[r].symbol = s /\ pending[r].action = "SELL"

\* The transaction with its timestamp.  A sale beyond the holding, or beside
\* another sale of the symbol, is not surely covered.
Make(r, s, action, k, price) ==
  /\ pending[r] = NoTx
  /\ clock < MaxTx
  /\ clock' = clock + 1
  /\ pending' = [pending EXCEPT ![r] =
       [symbol |-> s, action |-> action, quantity |-> k, price |-> price, at |-> clock + 1]]
  /\ uncovered' = IF action = "SELL" /\ (k > Held(s) \/ \E q \in Writers \ {r} : SaleUnderWay(q, s))
                  THEN uncovered \union {s} ELSE uncovered
  /\ UNCHANGED ledger

\* A request: a sale is checked against what is committed.
MakeTransaction(r, s, action, k, price) ==
  /\ action = "SELL" => k <= Held(s)
  /\ Make(r, s, action, k, price)

\* A reconciliation books a fill of the broker, whatever is held.
BookFill(r, s, action, k, price) == Make(r, s, action, k, price)

\* The commit.
CommitTransaction(r) ==
  /\ pending[r] # NoTx
  /\ ledger' = ledger \union {pending[r]}
  /\ pending' = [pending EXCEPT ![r] = NoTx]
  /\ UNCHANGED <<clock, uncovered>>

\* The request fails before its commit.
AbandonTransaction(r) ==
  /\ pending[r] # NoTx
  /\ pending' = [pending EXCEPT ![r] = NoTx]
  /\ UNCHANGED <<ledger, clock, uncovered>>

LedgerInit ==
  /\ ledger = {} /\ clock = 0 /\ uncovered = {}
  /\ pending = [r \in Writers |-> NoTx]

LedgerNext ==
  \E r \in Writers :
    \/ \E s \in Symbols, action \in {"BUY", "SELL"}, k \in Quantities, price \in PriceSet :
         MakeTransaction(r, s, action, k, price) \/ BookFill(r, s, action, k, price)
    \/ CommitTransaction(r)
    \/ AbandonTransaction(r)

LedgerSpec == LedgerInit /\ [][LedgerNext]_ledgerVars
-----------------------------------------------------------------------------
(* Properties.                                                             *)

LedgerTypeOK ==
  /\ ledger \subseteq Transaction
  /\ pending \in [Writers -> Transaction \union {NoTx}]
  /\ clock \in 0..MaxTx
  /\ uncovered \subseteq Symbols

Units(tx) == IF tx.action = "BUY" THEN tx.quantity ELSE -tx.quantity
Net(txs) == SumFunction([tx \in txs |-> Units(tx)])
Flow(txs) == SumFunction([tx \in txs |-> -Units(tx) * tx.price])
UpTo(txs, t) == {tx \in txs : tx.at <= t}
Oversold(txs) == \E tx \in txs : Net(UpTo(txs, tx.at)) < 0

\* Average cost: the units are those bought and not sold, and the gain is what sales
\* brought, less what purchases took, plus what is held at its average.
AverageAgrees(txs) ==
  LET h == Holding(txs) IN
  /\ h.qty = Net(txs)
  /\ SameAmount(h.realized, Plus(Whole(Flow(txs)), Times(h.qty, h.avg)))

\* Tax lots: no sale runs out of lots, and over all years and both terms the same.
LotsAgree(txs, method) ==
  LET r == TaxReport(txs, method)
      gains == [y \in Years |-> GainOf(r.realized, y, "short") + GainOf(r.realized, y, "long")] IN
  ~r.failed /\ Quantity(r.lots) = Net(txs) /\ SumFunction(gains) = Flow(txs) + CostOf(r.lots)

\* The ledger never sells what it does not hold, unless two sales of a symbol were
\* under way at once or the broker sold more than was on record; and as long as no
\* sale is short of units the three accountings agree: the same units are open, and
\* gain minus open cost is proceeds minus purchases (record_transaction, "Exact
\* arithmetic"; _apply_transaction, which clamps; _consume, which does not).
AccountingsAgree ==
  \A s \in Symbols :
    IF Oversold(Of(s)) THEN s \in uncovered
    ELSE AverageAgrees(Of(s)) /\ LotsAgree(Of(s), "FIFO") /\ LotsAgree(Of(s), "LIFO")

\* "a booked gain is not lost": selling at the market price, and above the average
\* cost, leaves the equity of the risk and performance reports no lower.
BookedGainIsNotLost ==
  \A s \in Symbols, k \in Quantities, price \in PriceSet :
    LET h == Holding(Of(s))
        sale == [symbol |-> s, action |-> "SELL", quantity |-> k, price |-> price, at |-> clock]
        before == EquityOf(h, price)
        after == EquityOf(ApplyTransaction(h, sale), price) IN
    k <= h.qty /\ price * h.avg[2] > h.avg[1] => AtMost(before, after)
=============================================================================
