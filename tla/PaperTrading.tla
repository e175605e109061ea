---------------------------- MODULE PaperTrading ----------------------------
(***************************************************************************)
(* The paper account of one user and the rules that buy in it.  An         *)
(* execution loads the account, awaits the quote and writes back what it   *)
(* loaded minus the cost; requests, the sweep of the rules and a reset run *)
(* in threads and workers of their own.                                    *)
(*                                                                         *)
(* Prices are scaled: slippage and fee are parts of Scale, and cash counts *)
(* in 1 / Scale^2 of a price, so every amount is exact.                    *)
(***************************************************************************)
EXTENDS Amounts, SequencesExt

CONSTANTS
  Requests,      \* requests that can be under way at once
  Automaton,     \* the sweep, which executes orders like a request
  Rules,         \* ids of rules, never used twice
  Tickers, Quotes, Sizes, StartingCash,
  Scale, SlippageBps, FeeBps,
  Cooldown,      \* cooldown_minutes of each rule
  FillWindow,    \* the fills that account reads
  MaxFills, MaxMinute, MaxLostMarks,  \* bounds
  Nil

ASSUME PaperAssumption ==
  /\ Automaton \notin Requests
  /\ Quotes \subseteq Nat /\ Sizes \subseteq Nat \ {0} /\ StartingCash \subseteq Nat \ {0}
  /\ StartingCash # {} /\ MaxMinute \in Nat /\ FillWindow \in Nat /\ IsFiniteSet(Tickers)
  /\ Scale \in Nat \ {0} /\ SlippageBps \in 0..Scale /\ FeeBps \in 0..Scale
  /\ Cooldown \in [Rules -> Nat \ {0}]

Clients == Requests \union {Automaton}

VARIABLES
  cash, startingCash, fills,  \* the account, and its fills by created_at
  work,     \* what each client has under way
  rules,    \* the rows of the rules
  run,      \* the sweep under way
  minute,
  bought,   \* history: the sweeps in which each rule bought
  unmarked, \* history: rules whose purchase was committed and whose mark was lost
  overlap   \* history: two clients worked on the account at once

accountVars == <<cash, startingCash, fills>>
paperVars == <<accountVars, work, rules, run, minute, bought, unmarked, overlap>>

Order == [symbol : Tickers, side : {"buy", "sell"}, quantity : Sizes]
Fill == [symbol : Tickers, side : {"buy", "sell"}, quantity : Sizes, price : Nat]
Rule == [order : {o \in Order : o.side = "buy"}, last : 0..MaxMinute \union {Nil}, deleted : BOOLEAN]

ASSUME NilAssumption == Nil \notin Int \union Rules \union Rule
-----------------------------------------------------------------------------
(* A fill.                                                                 *)

\* fill_price, in 1 / Scale.
FillPrice(side, quote) == quote * (IF side = "buy" THEN Scale + SlippageBps ELSE Scale - SlippageBps)
Fee(fill) == fill.quantity * fill.price * FeeBps

\* A plausible bug: the fee of a sale is credited.
CashEffectFeeCredited(fill) ==
  LET notional == fill.quantity * fill.price * Scale IN
  IF fill.side = "buy" THEN -(notional + Fee(fill)) ELSE notional + Fee(fill)

\* What a fill adds to the cash.
CashEffect(fill) ==
  LET notional == fill.quantity * fill.price * Scale IN
  IF fill.side = "buy" THEN -(notional + Fee(fill)) ELSE notional - Fee(fill)

\* _quantity.
PaperQuantity(s) ==
  SumFunction([i \in DOMAIN fills |-> IF fills[i].symbol # s THEN 0
                                      ELSE IF fills[i].side = "buy" THEN fills[i].quantity ELSE -fills[i].quantity])

\* _realized_pnl, for one symbol; the fee of a purchase is part of its cost.
Position(txs, s) ==
  FoldLeft(LAMBDA p, f :
             IF f.symbol # s THEN p
             ELSE IF f.side = "buy"
               THEN LET total == Plus(Times(p.quantity, p.cost), Whole(-CashEffect(f)))
                        quantity == p.quantity + f.quantity IN
                    [p EXCEPT !.quantity = quantity,
                              !.cost = IF quantity = 0 THEN <<0, 1>> ELSE <<total[1], total[2] * quantity>>]
               ELSE [quantity |-> p.quantity - f.quantity,
                     cost |-> IF p.quantity = f.quantity THEN <<0, 1>> ELSE p.cost,
                     realized |-> Plus(p.realized, Plus(Whole(CashEffect(f)), Times(-f.quantity, p.cost)))],
           [quantity |-> 0, cost |-> <<0, 1>>, realized |-> <<0, 1>>], txs)

\* account: realized_pnl, over the newest fills only.
RealizedPnl ==
  LET newest == SubSeq(fills, IF Len(fills) > FillWindow THEN Len(fills) - FillWindow + 1 ELSE 1, Len(fills)) IN
  FoldSet(LAMBDA s, sum : Plus(sum, Position(newest, s).realized), <<0, 1>>, Tickers)
-----------------------------------------------------------------------------
(* execute and reset: load, await, check, commit.                          *)

\* A commit of c to the account; whoever is under way no longer works alone.
Commits(c) ==
  /\ work' = [d \in Clients |-> IF d = c THEN Nil
                                ELSE IF work[d] # Nil THEN [work[d] EXCEPT !.alone = FALSE] ELSE Nil]

Load(c, order) ==
  [kind |-> "quote", cash |-> cash, order |-> order, alone |-> TRUE]

ExecuteBegin(c, order) ==
  /\ c # Automaton /\ work[c] = Nil
  /\ work' = [work EXCEPT ![c] = Load(c, order)]
  /\ UNCHANGED <<accountVars, rules, run, minute, bought, unmarked, overlap>>

Affords(c, fill) ==
  IF fill.side = "buy" THEN -CashEffect(fill) <= work[c].cash
  ELSE fill.quantity <= PaperQuantity(fill.symbol)

\* The quote has come: the check, against the cash that was loaded and the fills as
\* they are now.  Without enough of either the request ends with 422, and the sweep
\* goes on to the next rule.
ExecuteCheck(c, quote) ==
  /\ work[c] # Nil /\ work[c].kind = "quote"
  /\ Len(fills) < MaxFills
  /\ LET order == work[c].order
         fill == [symbol |-> order.symbol, side |-> order.side, quantity |-> order.quantity,
                  price |-> FillPrice(order.side, quote)] IN
     IF Affords(c, fill)
       THEN /\ work' = [work EXCEPT ![c] = [kind |-> "fill", fill |-> fill, alone |-> @.alone,
                                            cash |-> @.cash + CashEffect(fill)]]
            /\ UNCHANGED run
       ELSE /\ work' = [work EXCEPT ![c] = Nil]
            /\ run' = IF c = Automaton THEN [run EXCEPT !.at = Nil] ELSE run
  /\ UNCHANGED <<accountVars, rules, minute, bought, unmarked, overlap>>

\* The commit; the rule of the sweep has bought, and its rows are read again.
ExecuteCommit(c) ==
  /\ work[c] # Nil /\ work[c].kind = "fill"
  /\ Commits(c)
  /\ cash' = work[c].cash
  /\ fills' = Append(fills, work[c].fill)
  /\ overlap' = (overlap \/ ~work[c].alone)
  /\ IF c = Automaton
       THEN /\ bought' = [bought EXCEPT ![run.at] = Append(@, run.now)]
            /\ run' = [run EXCEPT !.step = "mark", !.expired = TRUE]
       ELSE UNCHANGED <<bought, run>>
  /\ UNCHANGED <<startingCash, rules, minute, unmarked>>

ResetBegin(c, amount) ==
  /\ c # Automaton /\ work[c] = Nil
  /\ work' = [work EXCEPT ![c] = [kind |-> "reset", cash |-> amount, fills |-> fills, alone |-> TRUE]]
  /\ UNCHANGED <<accountVars, rules, run, minute, bought, unmarked, overlap>>

\* Only the fills that the reset has seen are deleted.
ResetCommit(c) ==
  /\ work[c] # Nil /\ work[c].kind = "reset"
  /\ Commits(c)
  /\ cash' = work[c].cash /\ startingCash' = work[c].cash
  /\ fills' = SubSeq(fills, Len(work[c].fills) + 1, Len(fills))
  /\ overlap' = (~work[c].alone \/ \E d \in Clients \ {c} : work[d] # Nil)
  /\ UNCHANGED <<rules, run, minute, bought, unmarked>>

\* The request fails before its commit.
Fail(c) ==
  /\ c # Automaton /\ work[c] # Nil
  /\ work' = [work EXCEPT ![c] = Nil]
  /\ UNCHANGED <<accountVars, rules, run, minute, bought, unmarked, overlap>>
-----------------------------------------------------------------------------
(* The rules.                                                              *)

NoRun == [now |-> Nil, todo |-> {}, at |-> Nil, step |-> "idle", expired |-> FALSE]

CreateRule(r, order) ==
  /\ rules[r] = Nil
  /\ rules' = [rules EXCEPT ![r] = [order |-> order, last |-> Nil, deleted |-> FALSE]]
  /\ UNCHANGED <<accountVars, work, run, minute, bought, unmarked, overlap>>

DeleteRule(r) ==
  /\ rules[r] # Nil /\ ~rules[r].deleted
  /\ rules' = [rules EXCEPT ![r].deleted = TRUE]
  /\ UNCHANGED <<accountVars, work, run, minute, bought, unmarked, overlap>>

RunBegin ==
  /\ run.now = Nil /\ work[Automaton] = Nil
  /\ run' = [NoRun EXCEPT !.now = minute, !.todo = {r \in Rules : rules[r] # Nil /\ ~rules[r].deleted},
                          !.step = "next"]
  /\ UNCHANGED <<accountVars, work, rules, minute, bought, unmarked, overlap>>

\* A plausible bug: the minute of the purchase counts as the first.
CoolingDownShort(r) == rules[r].last # Nil /\ rules[r].last > run.now - Cooldown[r] + 1

CoolingDown(r) == rules[r].last # Nil /\ rules[r].last > run.now - Cooldown[r]

\* The next rule: skipped while it cools down or when its trigger does not match,
\* else its order is executed.  After a commit the rows are read again, and a row
\* that is gone by then raises outside the try: the run ends.
RunRule(r) ==
  /\ run.step = "next" /\ run.at = Nil /\ r \in run.todo
  /\ \/ /\ rules[r].deleted /\ run.expired
        /\ run' = NoRun
        /\ UNCHANGED work
     \/ /\ ~(rules[r].deleted /\ run.expired)
        /\ run' = [run EXCEPT !.todo = @ \ {r}]
        /\ UNCHANGED work
     \/ /\ ~(rules[r].deleted /\ run.expired) /\ ~CoolingDown(r)
        /\ run' = [run EXCEPT !.todo = @ \ {r}, !.at = r]
        /\ work' = [work EXCEPT ![Automaton] = Load(Automaton, rules[r].order)]
  /\ UNCHANGED <<accountVars, rules, minute, bought, unmarked, overlap>>

\* last_triggered_at, in a commit of its own; nothing is left to mark when the rule
\* was deleted under the run.
RunMark ==
  /\ run.step = "mark"
  /\ rules' = [rules EXCEPT ![run.at].last = run.now]
  /\ run' = [run EXCEPT !.step = "next", !.at = Nil]
  /\ UNCHANGED <<accountVars, work, minute, bought, unmarked, overlap>>

\* The mark does not commit, and the run goes on; or the process dies before it.
RunMarkLost ==
  /\ run.step = "mark" /\ Cardinality(unmarked) < MaxLostMarks
  /\ unmarked' = unmarked \union {run.at}
  /\ run' \in {[run EXCEPT !.step = "next", !.at = Nil], NoRun}
  /\ UNCHANGED <<accountVars, work, rules, minute, bought, overlap>>

RunEnd ==
  /\ run.step = "next" /\ run.at = Nil /\ run.todo = {}
  /\ run' = NoRun
  /\ UNCHANGED <<accountVars, work, rules, minute, bought, unmarked, overlap>>

Tick ==
  /\ minute < MaxMinute
  /\ minute' = minute + 1
  /\ UNCHANGED <<accountVars, work, rules, run, bought, unmarked, overlap>>
-----------------------------------------------------------------------------
PaperInit ==
  /\ startingCash = CHOOSE c \in StartingCash : TRUE
  /\ cash = startingCash /\ fills = <<>>
  /\ work = [c \in Clients |-> Nil]
  /\ rules = [r \in Rules |-> Nil]
  /\ run = NoRun /\ minute = 0
  /\ bought = [r \in Rules |-> <<>>] /\ unmarked = {} /\ overlap = FALSE

PaperNext ==
  \/ \E c \in Clients :
       \/ \E order \in Order : ExecuteBegin(c, order)
       \/ \E quote \in Quotes : ExecuteCheck(c, quote)
       \/ ExecuteCommit(c)
       \/ \E amount \in StartingCash : ResetBegin(c, amount)
       \/ ResetCommit(c) \/ Fail(c)
  \/ \E r \in Rules : \/ \E order \in {o \in Order : o.side = "buy"} : CreateRule(r, order)
                      \/ DeleteRule(r) \/ RunRule(r)
  \/ RunBegin \/ RunMark \/ RunMarkLost \/ RunEnd \/ Tick

PaperSpec == PaperInit /\ [][PaperNext]_paperVars
-----------------------------------------------------------------------------
(* Properties.                                                             *)

PaperTypeOK ==
  /\ cash \in Int /\ startingCash \in StartingCash
  /\ fills \in Seq(Fill)
  /\ \A c \in Clients : work[c] = Nil \/ work[c].kind \in {"quote", "fill", "reset"}
  /\ \A r \in Rules : rules[r] = Nil \/ rules[r] \in Rule
  /\ run.todo \subseteq Rules /\ run.at \in Rules \union {Nil}
  /\ run.step \in {"idle", "next", "mark"}
  /\ minute \in 0..MaxMinute /\ unmarked \subseteq Rules /\ overlap \in BOOLEAN

\* What changed hands on one side, without the fees, and the fees.
PaperSum(side) ==
  SumFunction([i \in DOMAIN fills |-> IF fills[i].side = side THEN fills[i].quantity * fills[i].price * Scale ELSE 0])
FeeSum == SumFunction([i \in DOMAIN fills |-> Fee(fills[i])])

\* When no two clients worked on the account at once, nothing is sold that was not held,
\* and the cash is what the fills leave of the starting cash after every fee.
FillsExplainCash ==
  ~overlap =>
    /\ \A s \in Tickers : PaperQuantity(s) >= 0
    /\ cash = startingCash + PaperSum("sell") - PaperSum("buy") - FeeSum

\* As long as all fills are read the cash is also the starting cash and the realised gain
\* less the cost of what is open.
GainExplainsCash ==
  ~overlap /\ Len(fills) <= FillWindow =>
    SameAmount(Whole(cash - startingCash),
               FoldSet(LAMBDA s, sum :
                         LET p == Position(fills, s) IN Plus(sum, Times(-p.quantity, p.cost)),
                       RealizedPnl, Tickers))

\* The cash is never overdrawn, and fills and gains both explain it.
PaperBooksAddUp == cash >= 0 /\ FillsExplainCash /\ GainExplainsCash

\* A rule buys in two runs only if its cooldown lies between them, unless the mark of
\* an earlier purchase was lost after the purchase was committed.
RuleKeepsCooldown ==
  \A r \in Rules : r \notin unmarked =>
    \A i \in 1..Len(bought[r]) - 1 : bought[r][i + 1] >= bought[r][i] + Cooldown[r]
=============================================================================
