--------------------------- MODULE ServicesProofs ---------------------------
(***************************************************************************)
(* Theorems about what the services decide and whom they trust: the        *)
(* accounts and rules of PaperTrading, the signals of MarketSignal, the    *)
(* panels of Committee, the credentials of Vault, the tokens of Sessions,  *)
(* the grades of Scorecard and what Reports tells of the account; for      *)
(* every set of clients, workers, facts, keys, handlers, signals and days. *)
(***************************************************************************)
EXTENDS PaperTrading, MarketSignal, Committee, Vault, Sessions, Scorecard, Reports, DataLemmas, SequenceTheorems

(* PaperTrading.                                                           *)

QuoteWork == [kind : {"quote"}, cash : Nat, order : Order, alone : BOOLEAN]
FillWork == [kind : {"fill"}, fill : Fill, alone : BOOLEAN, cash : Nat]
ResetWork == [kind : {"reset"}, cash : StartingCash, fills : Seq(Fill), alone : BOOLEAN]
Sweeps == [now : 0..MaxMinute \union {Nil}, todo : SUBSET Rules, at : Rules \union {Nil},
         step : {"idle", "next", "mark"}, expired : BOOLEAN]

\* No amount of cash, in the account or about to be written, is negative.
AccountTypes ==
  /\ cash \in Nat /\ startingCash \in StartingCash /\ fills \in Seq(Fill) /\ overlap \in BOOLEAN
  /\ work \in [Clients -> {Nil} \union QuoteWork \union FillWork \union ResetWork]

RuleTypes ==
  /\ rules \in [Rules -> Rule \union {Nil}] /\ run \in Sweeps /\ minute \in 0..MaxMinute
  /\ bought \in [Rules -> Seq(0..MaxMinute)] /\ unmarked \subseteq Rules

\* A sweep that executes an order does so for a rule that has not cooled down less
\* than it must, and nobody else marks that rule.
RunSound ==
  /\ run.step # "idle" => run.now # Nil
  /\ work[Automaton] # Nil => /\ run.step = "next" /\ run.at \in Rules
                              /\ rules[run.at] # Nil /\ ~CoolingDown(run.at)
  /\ run.step = "mark" => /\ run.at \in Rules /\ rules[run.at] # Nil
                          /\ bought[run.at] # <<>>
                          /\ bought[run.at][Len(bought[run.at])] = run.now
  /\ \A r \in run.todo : rules[r] # Nil

\* A purchase is marked, or about to be.
BoughtIsMarked ==
  \A r \in Rules \ unmarked : bought[r] # <<>> =>
    \/ run.step = "mark" /\ run.at = r
    \/ /\ rules[r] # Nil /\ rules[r].last # Nil
       /\ bought[r][Len(bought[r])] <= rules[r].last

PaperInv == AccountTypes /\ RuleTypes /\ RunSound /\ BoughtIsMarked /\ RuleKeepsCooldown
-----------------------------------------------------------------------------
(* Fills and cash.                                                         *)

LEMMA OrderFills ==
  ASSUME NEW order \in Order, NEW quote \in Quotes
  PROVE  [symbol |-> order.symbol, side |-> order.side, quantity |-> order.quantity,
          price |-> FillPrice(order.side, quote)] \in Fill
<1>1. quote \in Nat /\ Scale + SlippageBps \in Nat /\ Scale - SlippageBps \in Nat
  BY PaperAssumption
<1>2. \A n \in Nat : quote * n \in Nat
  BY <1>1
<1>3. FillPrice(order.side, quote) \in Nat
  BY <1>1, <1>2 DEF FillPrice
<1> QED BY <1>3 DEF Order, Fill

LEMMA FeeIsPart ==
  ASSUME NEW n \in Nat
  PROVE  n * Scale \in Nat /\ n * FeeBps \in Nat /\ n * FeeBps <= n * Scale
<1>1. Scale \in Nat /\ FeeBps \in 0..Scale
  BY PaperAssumption
<1> QED BY <1>1

LEMMA CashEffectSign ==
  ASSUME NEW fill \in Fill
  PROVE  CashEffect(fill) \in Int /\ (fill.side # "buy" => CashEffect(fill) >= 0)
<1>1. fill.quantity \in Nat /\ fill.price \in Nat
  BY PaperAssumption DEF Fill
<1>2. fill.quantity * fill.price \in Nat
  BY <1>1
<1> DEFINE n == fill.quantity * fill.price
<1>3. n * Scale \in Nat /\ n * FeeBps \in Nat /\ n * FeeBps <= n * Scale
  BY <1>2, FeeIsPart
<1>4. CashEffect(fill) = IF fill.side = "buy" THEN -(n * Scale + n * FeeBps)
                         ELSE n * Scale - n * FeeBps
  BY DEF CashEffect, Fee
<1> HIDE DEF n
<1> QED BY <1>3, <1>4
-----------------------------------------------------------------------------
LEMMA PaperInitHolds == PaperInit => PaperInv
<1> SUFFICES ASSUME PaperInit PROVE PaperInv
  OBVIOUS
<1>1. startingCash \in StartingCash /\ startingCash \in Nat /\ cash = startingCash
  BY PaperAssumption DEF PaperInit
<1>2. fills \in Seq(Fill) /\ <<>> \in Seq(0..MaxMinute)
  BY EmptySeq DEF PaperInit
<1>3. AccountTypes
  BY <1>1, <1>2 DEF PaperInit, AccountTypes
<1>4. run = NoRun /\ NoRun \in Sweeps /\ run.step = "idle" /\ run.todo = {}
  BY DEF PaperInit, NoRun, Sweeps
<1>5. RuleTypes
  BY <1>2, <1>4, PaperAssumption DEF PaperInit, RuleTypes
<1>6. RunSound
  BY <1>4 DEF PaperInit, RunSound, Clients
<1>7. \A r \in Rules : bought[r] = <<>>
  BY DEF PaperInit
<1>8. BoughtIsMarked /\ RuleKeepsCooldown
  BY <1>7 DEF BoughtIsMarked, RuleKeepsCooldown
<1> QED BY <1>3, <1>5, <1>6, <1>8 DEF PaperInv

\* A step of the account leaves the rules alone unless the sweep takes it.
LEMMA RulesUntouched ==
  ASSUME PaperInv, UNCHANGED <<rules, run, minute, bought, unmarked>>,
         work'[Automaton] \in {Nil} \/ work[Automaton] # Nil
  PROVE  RuleTypes' /\ RunSound' /\ BoughtIsMarked' /\ RuleKeepsCooldown'
<1>1. RuleTypes' /\ BoughtIsMarked' /\ RuleKeepsCooldown'
  BY DEF PaperInv, RuleTypes, BoughtIsMarked, RuleKeepsCooldown
<1>2. RunSound'
  BY DEF PaperInv, RunSound, CoolingDown
<1> QED BY <1>1, <1>2
-----------------------------------------------------------------------------
LEMMA ExecuteBeginKeeps ==
  ASSUME PaperInv, NEW c \in Clients, NEW order \in Order, ExecuteBegin(c, order)
  PROVE  PaperInv'
<1>1. /\ c # Automaton /\ work' = [work EXCEPT ![c] = Load(c, order)]
      /\ UNCHANGED <<cash, startingCash, fills, rules, run, minute, bought, unmarked, overlap>>
  BY DEF ExecuteBegin, accountVars
<1>2. Load(c, order) \in QuoteWork
  BY DEF Load, QuoteWork, PaperInv, AccountTypes
<1>3. AccountTypes'
  BY <1>1, <1>2 DEF PaperInv, AccountTypes
<1>4. work'[Automaton] = work[Automaton]
  BY <1>1 DEF PaperInv, AccountTypes, Clients
<1> QED BY <1>1, <1>3, <1>4, RulesUntouched DEF PaperInv

LEMMA ExecuteCheckKeeps ==
  ASSUME PaperInv, NEW c \in Clients, NEW quote \in Quotes, ExecuteCheck(c, quote)
  PROVE  PaperInv'
<1> DEFINE order == work[c].order
           fill == [symbol |-> order.symbol, side |-> order.side, quantity |-> order.quantity,
                    price |-> FillPrice(order.side, quote)]
           filled == [kind |-> "fill", fill |-> fill, alone |-> work[c].alone,
                      cash |-> work[c].cash + CashEffect(fill)]
<1>1. /\ work[c] # Nil /\ work[c].kind = "quote"
      /\ work' = [work EXCEPT ![c] = IF Affords(c, fill) THEN filled ELSE Nil]
      /\ run' = IF ~Affords(c, fill) /\ c = Automaton THEN [run EXCEPT !.at = Nil] ELSE run
      /\ UNCHANGED <<cash, startingCash, fills, rules, minute, bought, unmarked, overlap>>
  BY DEF ExecuteCheck, accountVars
<1>2. work[c] \in QuoteWork
  BY <1>1 DEF PaperInv, AccountTypes, FillWork, ResetWork
<1>3. fill \in Fill
  BY <1>2, OrderFills DEF QuoteWork
<1>4. CashEffect(fill) \in Int /\ (fill.side # "buy" => CashEffect(fill) >= 0)
  BY <1>3, CashEffectSign
<1>5. work[c].cash \in Nat /\ work[c].alone \in BOOLEAN
  BY <1>2 DEF QuoteWork
<1> HIDE DEF fill, order
<1>6. ASSUME Affords(c, fill) PROVE filled \in FillWork
  <2>1. work[c].cash + CashEffect(fill) \in Nat
    BY <1>4, <1>5, <1>6 DEF Affords
  <2> QED BY <1>3, <1>5, <2>1 DEF FillWork
<1> HIDE DEF filled
<1>7. AccountTypes'
  <2>1. work' \in [Clients -> {Nil} \union QuoteWork \union FillWork \union ResetWork]
    BY <1>1, <1>6 DEF PaperInv, AccountTypes
  <2> QED BY <1>1, <2>1 DEF PaperInv, AccountTypes
<1>8. RuleTypes' /\ RunSound' /\ BoughtIsMarked' /\ RuleKeepsCooldown'
  <2>1. CASE Affords(c, fill) \/ c # Automaton
    <3>1. run' = run
      BY <1>1, <2>1
    <3>2. work'[Automaton] = Nil \/ work[Automaton] # Nil
      BY <1>1, <2>1 DEF PaperInv, AccountTypes, Clients
    <3> QED BY <1>1, <3>1, <3>2, RulesUntouched
  <2>2. CASE ~Affords(c, fill) /\ c = Automaton
    <3>1. run' = [run EXCEPT !.at = Nil] /\ work'[Automaton] = Nil /\ run.step = "next"
      BY <1>1, <2>2 DEF PaperInv, AccountTypes, RunSound, Clients
    <3>2. run' \in Sweeps /\ run'.step = "next" /\ run'.now = run.now /\ run'.todo = run.todo
      BY <3>1 DEF PaperInv, RuleTypes, Sweeps
    <3>3. RuleTypes'
      BY <1>1, <3>2 DEF PaperInv, RuleTypes
    <3>4. RunSound'
      BY <1>1, <3>1, <3>2 DEF PaperInv, RunSound
    <3>5. BoughtIsMarked'
      BY <1>1, <3>1, <3>2 DEF PaperInv, BoughtIsMarked
    <3>6. RuleKeepsCooldown'
      BY <1>1 DEF PaperInv, RuleKeepsCooldown
    <3> QED BY <3>3, <3>4, <3>5, <3>6
  <2> QED BY <2>1, <2>2
<1> QED BY <1>7, <1>8 DEF PaperInv

LEMMA CommitsTypes ==
  ASSUME AccountTypes, NEW c \in Clients, Commits(c)
  PROVE  /\ work' \in [Clients -> {Nil} \union QuoteWork \union FillWork \union ResetWork]
         /\ work'[c] = Nil
         /\ \A d \in Clients : work[d] = Nil => work'[d] = Nil
<1>1. work' = [d \in Clients |-> IF d = c THEN Nil
                                 ELSE IF work[d] # Nil THEN [work[d] EXCEPT !.alone = FALSE] ELSE Nil]
  BY DEF Commits
<1>2. ASSUME NEW d \in Clients, work[d] # Nil
      PROVE  [work[d] EXCEPT !.alone = FALSE] \in QuoteWork \union FillWork \union ResetWork
  <2>1. CASE work[d] \in QuoteWork
    BY <2>1 DEF QuoteWork
  <2>2. CASE work[d] \in FillWork
    BY <2>2 DEF FillWork
  <2>3. CASE work[d] \in ResetWork
    BY <2>3 DEF ResetWork
  <2> QED BY <1>2, <2>1, <2>2, <2>3 DEF AccountTypes
<1> QED BY <1>1, <1>2

LEMMA ExecuteCommitKeeps ==
  ASSUME PaperInv, NEW c \in Clients, ExecuteCommit(c)
  PROVE  PaperInv'
<1>1. /\ work[c] # Nil /\ work[c].kind = "fill" /\ Commits(c)
      /\ cash' = work[c].cash /\ fills' = Append(fills, work[c].fill)
      /\ overlap' = (overlap \/ ~work[c].alone)
      /\ bought' = IF c = Automaton THEN [bought EXCEPT ![run.at] = Append(bought[run.at], run.now)]
                   ELSE bought
      /\ run' = IF c = Automaton THEN [run EXCEPT !.step = "mark", !.expired = TRUE] ELSE run
      /\ UNCHANGED <<startingCash, rules, minute, unmarked>>
  BY DEF ExecuteCommit
<1>2. work[c] \in FillWork
  BY <1>1 DEF PaperInv, AccountTypes, QuoteWork, ResetWork
<1>3. AccountTypes'
  <2>1. work[c].cash \in Nat /\ work[c].fill \in Fill
    BY <1>2 DEF FillWork
  <2>2. fills' \in Seq(Fill)
    BY <1>1, <2>1, AppendProperties DEF PaperInv, AccountTypes
  <2>3. overlap' \in BOOLEAN
    BY <1>1
  <2> QED BY <1>1, <2>1, <2>2, <2>3, CommitsTypes DEF PaperInv, AccountTypes
<1>4. RuleTypes' /\ RunSound' /\ BoughtIsMarked' /\ RuleKeepsCooldown'
  <2>1. CASE c # Automaton
    <3>1. work'[Automaton] = Nil \/ work[Automaton] # Nil
      BY <1>1, CommitsTypes DEF PaperInv, Clients
    <3> QED BY <1>1, <2>1, <3>1, RulesUntouched
  <2>2. CASE c = Automaton
    <3> DEFINE r == run.at
               n == Len(bought[r])
    <3>1. /\ r \in Rules /\ run.step = "next" /\ rules[r] # Nil /\ ~CoolingDown(r)
          /\ run.now \in 0..MaxMinute
      BY <1>1, <2>2 DEF PaperInv, RuleTypes, RunSound, Sweeps
    <3>2. /\ bought' = [bought EXCEPT ![r] = Append(bought[r], run.now)]
          /\ run' = [run EXCEPT !.step = "mark", !.expired = TRUE]
          /\ UNCHANGED <<rules, minute, unmarked>> /\ work'[Automaton] = Nil
      BY <1>1, <2>2, CommitsTypes DEF PaperInv
    <3>3. run' \in Sweeps /\ run'.step = "mark" /\ run'.at = r /\ run'.now = run.now /\ run'.todo = run.todo
      BY <3>2 DEF PaperInv, RuleTypes, Sweeps
    <3>4. /\ bought[r] \in Seq(0..MaxMinute) /\ n \in Nat /\ bought'[r] = Append(bought[r], run.now)
          /\ bought'[r] \in Seq(0..MaxMinute) /\ Len(bought'[r]) = n + 1
          /\ bought'[r][n + 1] = run.now /\ bought'[r] # <<>>
          /\ \A i \in 1..n : bought'[r][i] = bought[r][i]
      <4>1. bought[r] \in Seq(0..MaxMinute) /\ bought'[r] = Append(bought[r], run.now)
        BY <3>1, <3>2 DEF PaperInv, RuleTypes
      <4> QED BY <3>1, <4>1, AppendProperties
    <3>5. \A q \in Rules \ {r} : bought'[q] = bought[q]
      BY <3>2 DEF PaperInv, RuleTypes
    <3> HIDE DEF r, n
    <3>6. RuleTypes'
      <4>1. bought' \in [Rules -> Seq(0..MaxMinute)]
        BY <3>1, <3>2, <3>4 DEF PaperInv, RuleTypes
      <4> QED BY <3>2, <3>3, <4>1 DEF PaperInv, RuleTypes
    <3>7. RunSound'
      <4>1. run'.now # Nil
        BY <3>1, <3>3, NilAssumption, PaperAssumption
      <4> QED BY <3>1, <3>2, <3>3, <3>4, <4>1 DEF PaperInv, RunSound
    <3>8. BoughtIsMarked'
      BY <3>2, <3>3, <3>5 DEF PaperInv, BoughtIsMarked
    <3>9. RuleKeepsCooldown'
      <4> SUFFICES ASSUME NEW q \in Rules, q \notin unmarked, NEW i \in 1..Len(bought'[q]) - 1
                   PROVE  bought'[q][i + 1] >= bought'[q][i] + Cooldown[q]
        BY <3>2 DEF RuleKeepsCooldown
      <4>1. CASE q # r
        BY <3>5, <4>1 DEF PaperInv, RuleKeepsCooldown
      <4>2. CASE q = r /\ i < n
        <5>1. i \in 1..n - 1 /\ i \in 1..n /\ i + 1 \in 1..n
          BY <3>4, <4>2
        <5>2. bought[r][i + 1] >= bought[r][i] + Cooldown[r]
          BY <4>2, <5>1 DEF PaperInv, RuleKeepsCooldown, n
        <5> QED BY <3>4, <4>2, <5>1, <5>2
      <4>3. CASE q = r /\ i = n
        <5>1. n \in 1..n /\ bought[r] # <<>>
          BY <3>4, <4>3, EmptySeq DEF n
        <5>2. rules[r].last # Nil /\ bought[r][n] <= rules[r].last
          BY <3>1, <4>3, <5>1 DEF PaperInv, BoughtIsMarked, n
        <5>3. rules[r] \in Rule /\ rules[r].last \in Int
          BY <3>1, <5>2 DEF PaperInv, RuleTypes, Rule
        <5>4. rules[r].last <= run.now - Cooldown[r] /\ Cooldown[r] \in Nat
          BY <3>1, <5>2, <5>3, PaperAssumption DEF CoolingDown
        <5>5. bought[r][n] \in 0..MaxMinute
          <6>1. bought[r] \in Seq(0..MaxMinute) /\ n \in 1..Len(bought[r])
            BY <3>4, <5>1 DEF n
          <6> QED BY <6>1, ElementOfSeq
        <5>6. bought[r][n] \in Int /\ run.now \in Int
          BY <3>1, <5>5, PaperAssumption
        <5>7. run.now >= bought[r][n] + Cooldown[r]
          BY <5>2, <5>3, <5>4, <5>6
        <5>8. bought'[r][n + 1] = run.now /\ bought'[r][n] = bought[r][n]
          BY <3>4, <5>1
        <5> QED BY <4>3, <5>7, <5>8
      <4>4. i < n \/ i = n \/ q # r
        BY <3>4
      <4> QED BY <4>1, <4>2, <4>3, <4>4
    <3> QED BY <3>6, <3>7, <3>8, <3>9
  <2> QED BY <2>1, <2>2
<1> QED BY <1>3, <1>4 DEF PaperInv

LEMMA ResetKeeps ==
  ASSUME PaperInv, NEW c \in Clients,
         ResetCommit(c) \/ Fail(c) \/ \E amount \in StartingCash : ResetBegin(c, amount)
  PROVE  PaperInv'
<1>1. CASE ResetCommit(c)
  <2>1. /\ work[c] # Nil /\ work[c].kind = "reset" /\ Commits(c)
        /\ cash' = work[c].cash /\ startingCash' = work[c].cash
        /\ fills' = SubSeq(fills, Len(work[c].fills) + 1, Len(fills))
        /\ overlap' = (~work[c].alone \/ \E d \in Clients \ {c} : work[d] # Nil)
        /\ UNCHANGED <<rules, run, minute, bought, unmarked>>
    BY <1>1 DEF ResetCommit
  <2>2. work[c] \in ResetWork
    BY <2>1 DEF PaperInv, AccountTypes, QuoteWork, FillWork
  <2>3. work[c].cash \in StartingCash /\ work[c].cash \in Nat /\ work[c].fills \in Seq(Fill)
    BY <2>2, PaperAssumption DEF ResetWork
  <2>4. fills' \in Seq(Fill)
    <3>1. Len(work[c].fills) + 1 \in Int /\ Len(fills) \in Int /\ Len(work[c].fills) \in Nat
      BY <2>3, LenProperties DEF PaperInv, AccountTypes
    <3>2. \A i \in Len(work[c].fills) + 1..Len(fills) : fills[i] \in Fill
      BY <3>1, ElementOfSeq DEF PaperInv, AccountTypes
    <3> QED BY <2>1, <3>1, <3>2, SubSeqProperties
  <2>5. AccountTypes'
    <3>1. overlap' \in BOOLEAN
      BY <2>1
    <3> QED BY <2>1, <2>3, <2>4, <3>1, CommitsTypes DEF PaperInv, AccountTypes
  <2>6. work'[Automaton] = Nil \/ work[Automaton] # Nil
    BY <2>1, CommitsTypes DEF PaperInv, Clients
  <2> QED BY <2>1, <2>5, <2>6, RulesUntouched DEF PaperInv
<1>2. CASE Fail(c)
  <2>1. /\ c # Automaton /\ work' = [work EXCEPT ![c] = Nil]
        /\ UNCHANGED <<cash, startingCash, fills, rules, run, minute, bought, unmarked, overlap>>
    BY <1>2 DEF Fail, accountVars
  <2>2. AccountTypes' /\ work'[Automaton] = work[Automaton]
    BY <2>1 DEF PaperInv, AccountTypes, Clients
  <2> QED BY <2>1, <2>2, RulesUntouched DEF PaperInv
<1>3. ASSUME NEW amount \in StartingCash, ResetBegin(c, amount) PROVE PaperInv'
  <2> DEFINE reset == [kind |-> "reset", cash |-> amount, fills |-> fills, alone |-> TRUE]
  <2>1. /\ c # Automaton /\ work' = [work EXCEPT ![c] = reset]
        /\ UNCHANGED <<cash, startingCash, fills, rules, run, minute, bought, unmarked, overlap>>
    BY <1>3 DEF ResetBegin, accountVars
  <2>2. reset \in ResetWork
    BY DEF PaperInv, AccountTypes, ResetWork
  <2> HIDE DEF reset
  <2>3. AccountTypes' /\ work'[Automaton] = work[Automaton]
    BY <2>1, <2>2 DEF PaperInv, AccountTypes, Clients
  <2> QED BY <2>1, <2>3, RulesUntouched DEF PaperInv
<1> QED BY <1>1, <1>2, <1>3
-----------------------------------------------------------------------------
\* Nothing that belongs to the account moves in a step of the rules.
LEMMA AccountUntouched ==
  ASSUME AccountTypes, UNCHANGED accountVars, UNCHANGED overlap, UNCHANGED work
  PROVE  AccountTypes'
<1> QED BY DEF AccountTypes, accountVars

LEMMA RuleRowsKeep ==
  ASSUME PaperInv, NEW r \in Rules,
         DeleteRule(r) \/ \E order \in {o \in Order : o.side = "buy"} : CreateRule(r, order)
  PROVE  PaperInv'
<1>1. CASE DeleteRule(r)
  <2>1. /\ rules[r] # Nil /\ rules' = [rules EXCEPT ![r].deleted = TRUE]
        /\ UNCHANGED <<accountVars, work, run, minute, bought, unmarked, overlap>>
    BY <1>1 DEF DeleteRule
  <2>2. rules[r] \in Rule
    BY <2>1 DEF PaperInv, RuleTypes
  <2>3. rules'[r] \in Rule /\ rules'[r].last = rules[r].last
    BY <2>1, <2>2 DEF PaperInv, RuleTypes, Rule
  <2>4. \A q \in Rules : /\ q # r => rules'[q] = rules[q]
                         /\ rules[q] # Nil => rules'[q] # Nil /\ rules'[q].last = rules[q].last
    BY <2>1, <2>3, NilAssumption DEF PaperInv, RuleTypes
  <2>5. RuleTypes'
    BY <2>1, <2>3 DEF PaperInv, RuleTypes
  <2>6. RunSound'
    <3>1. run.todo \subseteq Rules
      BY DEF PaperInv, RuleTypes, Sweeps
    <3> QED BY <2>1, <2>4, <3>1 DEF PaperInv, RunSound, CoolingDown
  <2>7. BoughtIsMarked' /\ RuleKeepsCooldown'
    BY <2>1, <2>4 DEF PaperInv, BoughtIsMarked, RuleKeepsCooldown
  <2> QED BY <2>1, <2>5, <2>6, <2>7, AccountUntouched DEF PaperInv
<1>2. ASSUME NEW order \in {o \in Order : o.side = "buy"}, CreateRule(r, order) PROVE PaperInv'
  <2> DEFINE row == [order |-> order, last |-> Nil, deleted |-> FALSE]
  <2>1. /\ rules[r] = Nil /\ rules' = [rules EXCEPT ![r] = row]
        /\ UNCHANGED <<accountVars, work, run, minute, bought, unmarked, overlap>>
    BY <1>2 DEF CreateRule
  <2>2. row \in Rule
    BY DEF Rule
  <2> HIDE DEF row
  <2>3. \A q \in Rules : rules[q] # Nil => rules'[q] = rules[q]
    BY <2>1 DEF PaperInv, RuleTypes
  <2>4. \A q \in Rules : rules[q] # Nil => rules'[q] # Nil
    BY <2>3
  <2>5. RuleTypes'
    BY <2>1, <2>2 DEF PaperInv, RuleTypes
  <2>6. RunSound'
    <3>1. run.todo \subseteq Rules
      BY DEF PaperInv, RuleTypes, Sweeps
    <3> QED BY <2>1, <2>3, <2>4, <3>1 DEF PaperInv, RunSound, CoolingDown
  <2>7. BoughtIsMarked' /\ RuleKeepsCooldown'
    BY <2>1, <2>3 DEF PaperInv, BoughtIsMarked, RuleKeepsCooldown
  <2> QED BY <2>1, <2>5, <2>6, <2>7, AccountUntouched DEF PaperInv
<1> QED BY <1>1, <1>2

\* A run that stops, or goes on to the next rule, leaves every purchase as it is,
\* unless it was about to mark one.
LEMMA RunMoves ==
  ASSUME PaperInv, UNCHANGED <<rules, minute, bought, unmarked>>,
         work' [Automaton] = Nil \/ work'[Automaton] = work[Automaton],
         run' \in Sweeps, run.step # "mark", run'.step # "mark",
         run'.step # "idle" => run'.now # Nil,
         \A r \in run'.todo : rules[r] # Nil,
         work'[Automaton] # Nil => /\ run'.step = "next" /\ run'.at = run.at /\ run'.now = run.now
  PROVE  RuleTypes' /\ RunSound' /\ BoughtIsMarked' /\ RuleKeepsCooldown'
<1>1. RuleTypes' /\ RuleKeepsCooldown'
  BY DEF PaperInv, RuleTypes, RuleKeepsCooldown
<1>2. BoughtIsMarked'
  BY DEF PaperInv, BoughtIsMarked
<1>3. RunSound'
  BY DEF PaperInv, RunSound, CoolingDown
<1> QED BY <1>1, <1>2, <1>3

LEMMA RunRuleKeeps ==
  ASSUME PaperInv, NEW r \in Rules, RunRule(r)
  PROVE  PaperInv'
<1>1. /\ run.step = "next" /\ run.at = Nil /\ r \in run.todo
      /\ UNCHANGED <<accountVars, rules, minute, bought, unmarked, overlap>>
  BY DEF RunRule
<1>2. work[Automaton] = Nil /\ run.now # Nil /\ run.now \in 0..MaxMinute /\ rules[r] \in Rule
      /\ run \in Sweeps
  BY <1>1, NilAssumption DEF PaperInv, RuleTypes, RunSound, Sweeps
<1>3. CASE run' = NoRun /\ UNCHANGED work
  <2>1. run' \in Sweeps /\ run'.step = "idle" /\ run'.todo = {}
    BY <1>3 DEF NoRun, Sweeps
  <2> QED BY <1>1, <1>2, <1>3, <2>1, RunMoves, AccountUntouched DEF PaperInv
<1>4. CASE run' = [run EXCEPT !.todo = @ \ {r}] /\ UNCHANGED work
  <2>1. run' \in Sweeps /\ run'.step = "next" /\ run'.todo \subseteq run.todo /\ run'.now = run.now
    BY <1>1, <1>2, <1>4 DEF Sweeps
  <2>2. \A q \in run'.todo : rules[q] # Nil
    BY <2>1 DEF PaperInv, RunSound
  <2> QED BY <1>1, <1>2, <1>4, <2>1, <2>2, RunMoves, AccountUntouched DEF PaperInv
<1>5. CASE /\ ~CoolingDown(r) /\ run' = [run EXCEPT !.todo = @ \ {r}, !.at = r]
           /\ work' = [work EXCEPT ![Automaton] = Load(Automaton, rules[r].order)]
  <2>1. run' \in Sweeps /\ run'.step = "next" /\ run'.todo \subseteq run.todo /\ run'.now = run.now /\ run'.at = r
    BY <1>1, <1>2, <1>5 DEF Sweeps
  <2>2. \A q \in run'.todo : rules[q] # Nil
    BY <2>1 DEF PaperInv, RunSound
  <2>3. Load(Automaton, rules[r].order) \in QuoteWork
    BY <1>2 DEF Load, QuoteWork, Rule, PaperInv, AccountTypes
  <2>4. AccountTypes'
    BY <1>1, <1>5, <2>3 DEF PaperInv, AccountTypes, accountVars
  <2>5. RuleTypes'
    BY <1>1, <2>1 DEF PaperInv, RuleTypes
  <2>6. RunSound'
    BY <1>1, <1>2, <1>5, <2>1, <2>2, NilAssumption DEF RunSound, CoolingDown
  <2>7. BoughtIsMarked' /\ RuleKeepsCooldown'
    BY <1>1, <2>1 DEF PaperInv, BoughtIsMarked, RuleKeepsCooldown
  <2> QED BY <2>4, <2>5, <2>6, <2>7 DEF PaperInv
<1> QED BY <1>3, <1>4, <1>5 DEF RunRule

LEMMA RunStepsKeep ==
  ASSUME PaperInv, RunBegin \/ RunMark \/ RunMarkLost \/ RunEnd \/ Tick
  PROVE  PaperInv'
<1>1. CASE RunBegin
  <2>1. /\ run.now = Nil /\ work[Automaton] = Nil
        /\ run' = [NoRun EXCEPT !.now = minute,
                     !.todo = {r \in Rules : rules[r] # Nil /\ ~rules[r].deleted}, !.step = "next"]
        /\ UNCHANGED <<accountVars, work, rules, minute, bought, unmarked, overlap>>
    BY <1>1 DEF RunBegin
  <2>2. minute \in 0..MaxMinute /\ minute # Nil
    BY NilAssumption, PaperAssumption DEF PaperInv, RuleTypes
  <2>3. run' \in Sweeps /\ run'.step = "next" /\ run'.now = minute /\ \A r \in run'.todo : rules[r] # Nil
    BY <2>1, <2>2 DEF NoRun, Sweeps
  <2>4. run.step = "idle"
    BY <2>1 DEF PaperInv, RunSound
  <2> QED BY <2>1, <2>2, <2>3, <2>4, RunMoves, AccountUntouched DEF PaperInv
<1>2. CASE RunMark
  <2> DEFINE r == run.at
  <2>1. /\ run.step = "mark" /\ rules' = [rules EXCEPT ![r].last = run.now]
        /\ run' = [run EXCEPT !.step = "next", !.at = Nil]
        /\ UNCHANGED <<accountVars, work, minute, bought, unmarked, overlap>>
    BY <1>2 DEF RunMark
  <2>2. /\ r \in Rules /\ rules[r] \in Rule /\ work[Automaton] = Nil
        /\ run.now \in 0..MaxMinute /\ run.now # Nil
        /\ bought[r][Len(bought[r])] = run.now
    BY <2>1 DEF PaperInv, RuleTypes, RunSound, Sweeps
  <2>3. run' \in Sweeps /\ run'.step = "next" /\ run'.now = run.now /\ run'.todo = run.todo
    BY <2>1 DEF PaperInv, RuleTypes, Sweeps
  <2>4. rules'[r] \in Rule /\ rules'[r].last = run.now /\ \A q \in Rules : q # r => rules'[q] = rules[q]
    BY <2>1, <2>2 DEF PaperInv, RuleTypes, Rule
  <2>5. rules'[r] # Nil
    BY <2>4, NilAssumption
  <2> HIDE DEF r
  <2>6. RuleTypes'
    BY <2>1, <2>3, <2>4 DEF PaperInv, RuleTypes
  <2>7. RunSound'
    <3>1. run.todo \subseteq Rules
      BY DEF PaperInv, RuleTypes, Sweeps
    <3> QED BY <2>1, <2>2, <2>3, <2>4, <2>5, <3>1 DEF PaperInv, RunSound
  <2>8. BoughtIsMarked'
    <3> SUFFICES ASSUME NEW q \in Rules \ unmarked, bought[q] # <<>>
                 PROVE  rules'[q] # Nil /\ rules'[q].last # Nil /\ bought[q][Len(bought[q])] <= rules'[q].last
      BY <2>1 DEF BoughtIsMarked
    <3>1. CASE q = r
      <4>1. run.now \in Int
        BY <2>2, PaperAssumption
      <4> QED BY <2>2, <2>4, <2>5, <3>1, <4>1
    <3>2. CASE q # r
      BY <2>4, <3>2 DEF PaperInv, BoughtIsMarked, r
    <3> QED BY <3>1, <3>2
  <2>9. RuleKeepsCooldown'
    BY <2>1 DEF PaperInv, RuleKeepsCooldown
  <2> QED BY <2>1, <2>6, <2>7, <2>8, <2>9, AccountUntouched DEF PaperInv
<1>3. CASE RunMarkLost
  <2>1. /\ run.step = "mark" /\ unmarked' = unmarked \union {run.at}
        /\ run' \in {[run EXCEPT !.step = "next", !.at = Nil], NoRun}
        /\ UNCHANGED <<accountVars, work, rules, minute, bought, overlap>>
    BY <1>3 DEF RunMarkLost
  <2>2. run.at \in Rules /\ work[Automaton] = Nil /\ run.now # Nil
    BY <2>1 DEF PaperInv, RunSound
  <2>3. /\ run' \in Sweeps /\ run'.step # "mark" /\ run'.todo \subseteq run.todo
        /\ run'.step # "idle" => run'.now # Nil
    <3>1. CASE run' = NoRun
      BY <3>1 DEF Sweeps, NoRun
    <3>2. CASE run' = [run EXCEPT !.step = "next", !.at = Nil]
      <4>1. run \in Sweeps
        BY DEF PaperInv, RuleTypes
      <4>2. run' \in Sweeps /\ run'.step = "next" /\ run'.todo = run.todo /\ run'.now = run.now
        BY <3>2, <4>1 DEF Sweeps
      <4> QED BY <2>2, <4>2
    <3> QED BY <2>1, <3>1, <3>2
  <2>4. RuleTypes'
    BY <2>1, <2>2, <2>3 DEF PaperInv, RuleTypes
  <2>5. RunSound'
    BY <2>1, <2>2, <2>3 DEF PaperInv, RunSound
  <2>6. BoughtIsMarked' /\ RuleKeepsCooldown'
    BY <2>1 DEF PaperInv, BoughtIsMarked, RuleKeepsCooldown
  <2> QED BY <2>1, <2>4, <2>5, <2>6, AccountUntouched DEF PaperInv
<1>4. CASE RunEnd
  <2>1. /\ run.step = "next" /\ run.at = Nil /\ run' = NoRun
        /\ UNCHANGED <<accountVars, work, rules, minute, bought, unmarked, overlap>>
    BY <1>4 DEF RunEnd
  <2>2. run' \in Sweeps /\ run'.step = "idle" /\ run'.todo = {}
    BY <2>1 DEF NoRun, Sweeps
  <2>3. work[Automaton] = Nil
    BY <2>1, NilAssumption DEF PaperInv, RunSound
  <2> QED BY <2>1, <2>2, <2>3, RunMoves, AccountUntouched DEF PaperInv
<1>5. CASE Tick
  <2>1. /\ minute < MaxMinute /\ minute' = minute + 1
        /\ UNCHANGED <<accountVars, work, rules, run, bought, unmarked, overlap>>
    BY <1>5 DEF Tick
  <2>2. minute' \in 0..MaxMinute
    BY <2>1, PaperAssumption DEF PaperInv, RuleTypes
  <2>3. RuleTypes' /\ BoughtIsMarked' /\ RuleKeepsCooldown'
    BY <2>1, <2>2 DEF PaperInv, RuleTypes, BoughtIsMarked, RuleKeepsCooldown
  <2>4. RunSound'
    BY <2>1 DEF PaperInv, RunSound, CoolingDown
  <2> QED BY <2>1, <2>3, <2>4, AccountUntouched DEF PaperInv
<1> QED BY <1>1, <1>2, <1>3, <1>4, <1>5

LEMMA PaperInductive == PaperInv /\ [PaperNext]_paperVars => PaperInv'
<1> SUFFICES ASSUME PaperInv, [PaperNext]_paperVars PROVE PaperInv'
  OBVIOUS
<1>1. CASE UNCHANGED paperVars
  <2>1. /\ UNCHANGED <<accountVars, overlap, work>>
        /\ UNCHANGED <<rules, run, minute, bought, unmarked>>
    BY <1>1 DEF paperVars
  <2> QED BY <2>1, AccountUntouched, RulesUntouched DEF PaperInv
<1>2. CASE PaperNext
  BY <1>2, ExecuteBeginKeeps, ExecuteCheckKeeps, ExecuteCommitKeeps, ResetKeeps, RuleRowsKeep,
     RunRuleKeeps, RunStepsKeep DEF PaperNext
<1> QED BY <1>1, <1>2

LEMMA PaperInvariance == PaperSpec => []PaperInv
<1> QED BY PaperInitHolds, PaperInductive, PTL DEF PaperSpec
-----------------------------------------------------------------------------
\* Account, rules and sweep keep their types.
THEOREM PaperTypeCorrect == PaperSpec => []PaperTypeOK
<1>1. PaperInv => PaperTypeOK
  <2> SUFFICES ASSUME PaperInv PROVE PaperTypeOK
    OBVIOUS
  <2>1. \A c \in Clients : work[c] = Nil \/ work[c].kind \in {"quote", "fill", "reset"}
    BY DEF PaperInv, AccountTypes, QuoteWork, FillWork, ResetWork
  <2>2. run.todo \subseteq Rules /\ run.at \in Rules \union {Nil} /\ run.step \in {"idle", "next", "mark"}
    BY DEF PaperInv, RuleTypes, Sweeps
  <2> QED BY <2>1, <2>2 DEF PaperInv, AccountTypes, RuleTypes, PaperTypeOK
<1> QED BY <1>1, PaperInvariance, PTL

\* A rule buys in two runs only if its cooldown lies between them, for every number
\* of rules and requests, unless the mark of an earlier purchase was lost.
THEOREM CooldownKept == PaperSpec => []RuleKeepsCooldown
<1>1. PaperInv => RuleKeepsCooldown
  BY DEF PaperInv
<1> QED BY <1>1, PaperInvariance, PTL

\* No execution leaves the cash below zero, whatever quote comes and whoever works on
\* the account at the same time: the part of PaperBooksAddUp that is not about sums.
THEOREM CashIsNotOverdrawn == PaperSpec => [](cash >= 0)
<1>1. PaperInv => cash >= 0
  BY DEF PaperInv, AccountTypes
<1> QED BY <1>1, PaperInvariance, PTL

-----------------------------------------------------------------------------
(* Sums over the fills.                                                    *)

\* The weights of all members of a list together.
Weight(w, list) == SumFunction([i \in DOMAIN list |-> w[list[i]]])

\* The sum of a weight over the fills, and over one more.
LEMMA WeightsAfter ==
  ASSUME NEW w \in [Fill -> Int], NEW old \in Seq(Fill), NEW f \in Fill
  PROVE  Weight(w, old) \in Int /\ Weight(w, Append(old, f)) = Weight(w, old) + w[f]
<1> DEFINE n == Len(old)
           new == Append(old, f)
           a == [i \in DOMAIN old |-> w[old[i]]]
           b == [i \in DOMAIN new |-> w[new[i]]]
<1>1. /\ n \in Nat /\ DOMAIN old = 1..n /\ new \in Seq(Fill) /\ DOMAIN new = 1..(n + 1)
      /\ \A i \in 1..n : old[i] \in Fill /\ new[i] = old[i]
      /\ new[n + 1] = f
  <2>1. n \in Nat /\ DOMAIN old = 1..n /\ \A i \in 1..n : old[i] \in Fill
    OBVIOUS
  <2>2. new \in Seq(Fill) /\ Len(new) = n + 1 /\ DOMAIN new = 1..(n + 1)
    OBVIOUS
  <2>3. (\A i \in 1..n : new[i] = old[i]) /\ new[n + 1] = f
    OBVIOUS
  <2> QED BY <2>1, <2>2, <2>3
<1> HIDE DEF n, new
<1>2. n + 1 \in DOMAIN new /\ \A i \in 1..n : i \in DOMAIN new
  BY <1>1
<1>3. /\ DOMAIN a = 1..n /\ DOMAIN b = 1..(n + 1)
      /\ \A i \in 1..n : a[i] \in Int /\ b[i] = a[i]
      /\ b[n + 1] = w[f] /\ b[n + 1] \in Int
  BY <1>1, <1>2
<1>4. Longer(a, b, n)
  <2> HIDE DEF a, b
  <2> QED BY <1>3 DEF Longer
<1>5. SumFunction(a) \in Int /\ SumFunction(b) = SumFunction(a) + b[n + 1]
  <2> HIDE DEF a, b
  <2> QED BY <1>1, <1>4, SumOfLonger
<1>6. Weight(w, old) = SumFunction(a) /\ Weight(w, Append(old, f)) = SumFunction(b)
  BY DEF Weight, new
<1> HIDE DEF a, b
<1> QED BY <1>3, <1>5, <1>6

\* What a fill adds to a symbol's quantity, and to what changed hands on a side.
Adding(s, f) == IF f.symbol # s THEN 0 ELSE IF f.side = "buy" THEN f.quantity ELSE -f.quantity
Handing(side, f) == IF f.side = side THEN f.quantity * f.price * Scale ELSE 0

LEMMA FillIs ==
  ASSUME NEW f \in Fill
  PROVE  /\ f.quantity \in Int /\ f.side \in {"buy", "sell"}
         /\ f.quantity * f.price * Scale \in Int /\ Fee(f) \in Int
<1>1. Sizes \subseteq Nat
  BY PaperAssumption
<1>2. f.quantity \in Sizes /\ f.price \in Nat /\ f.side \in {"buy", "sell"}
  BY DEF Fill
<1>3. f.quantity \in Nat
  BY <1>1, <1>2
<1> DEFINE n == f.quantity * f.price
<1>4. n \in Nat
  BY <1>2, <1>3
<1> HIDE DEF n
<1>5. n * Scale \in Nat /\ n * FeeBps \in Nat
  BY <1>4, FeeIsPart
<1> QED BY <1>2, <1>3, <1>5 DEF Fee, n

LEMMA SumsAfter ==
  ASSUME fills \in Seq(Fill), NEW f \in Fill, fills' = Append(fills, f)
  PROVE  /\ \A s : PaperQuantity(s) \in Int /\ PaperQuantity(s)' = PaperQuantity(s) + Adding(s, f)
         /\ \A side : PaperSum(side) \in Int /\ PaperSum(side)' = PaperSum(side) + Handing(side, f)
         /\ FeeSum \in Int /\ FeeSum' = FeeSum + Fee(f)
<1>1. fills' \in Seq(Fill) /\ (\A i \in DOMAIN fills : fills[i] \in Fill) /\ \A i \in DOMAIN fills' : fills'[i] \in Fill
  OBVIOUS
<1>2. ASSUME NEW s PROVE PaperQuantity(s) \in Int /\ PaperQuantity(s)' = PaperQuantity(s) + Adding(s, f)
  <2> DEFINE w == [g \in Fill |-> Adding(s, g)]
  <2>1. w \in [Fill -> Int] /\ w[f] = Adding(s, f)
    BY FillIs DEF Adding
  <2>2. /\ [i \in DOMAIN fills |-> w[fills[i]]] = [i \in DOMAIN fills |-> Adding(s, fills[i])]
        /\ [i \in DOMAIN fills' |-> w[fills'[i]]] = [i \in DOMAIN fills' |-> Adding(s, fills'[i])]
    BY <1>1
  <2>3. /\ PaperQuantity(s) = SumFunction([i \in DOMAIN fills |-> Adding(s, fills[i])])
        /\ PaperQuantity(s)' = SumFunction([i \in DOMAIN fills' |-> Adding(s, fills'[i])])
    BY DEF PaperQuantity, Adding
  <2>4. PaperQuantity(s) = Weight(w, fills) /\ PaperQuantity(s)' = Weight(w, fills')
    <3> HIDE DEF w
    <3> QED BY <2>2, <2>3 DEF Weight
  <2> HIDE DEF w
  <2> QED BY <2>1, <2>4, WeightsAfter
<1>3. ASSUME NEW side PROVE PaperSum(side) \in Int /\ PaperSum(side)' = PaperSum(side) + Handing(side, f)
  <2> DEFINE w == [g \in Fill |-> Handing(side, g)]
  <2>1. w \in [Fill -> Int] /\ w[f] = Handing(side, f)
    BY FillIs DEF Handing
  <2>2. /\ [i \in DOMAIN fills |-> w[fills[i]]] = [i \in DOMAIN fills |-> Handing(side, fills[i])]
        /\ [i \in DOMAIN fills' |-> w[fills'[i]]] = [i \in DOMAIN fills' |-> Handing(side, fills'[i])]
    BY <1>1
  <2>3. /\ PaperSum(side) = SumFunction([i \in DOMAIN fills |-> Handing(side, fills[i])])
        /\ PaperSum(side)' = SumFunction([i \in DOMAIN fills' |-> Handing(side, fills'[i])])
    BY DEF PaperSum, Handing
  <2>4. PaperSum(side) = Weight(w, fills) /\ PaperSum(side)' = Weight(w, fills')
    <3> HIDE DEF w
    <3> QED BY <2>2, <2>3 DEF Weight
  <2> HIDE DEF w
  <2> QED BY <2>1, <2>4, WeightsAfter
<1>4. FeeSum \in Int /\ FeeSum' = FeeSum + Fee(f)
  <2> DEFINE w == [g \in Fill |-> Fee(g)]
  <2>1. w \in [Fill -> Int] /\ w[f] = Fee(f)
    BY FillIs
  <2>2. /\ [i \in DOMAIN fills |-> w[fills[i]]] = [i \in DOMAIN fills |-> Fee(fills[i])]
        /\ [i \in DOMAIN fills' |-> w[fills'[i]]] = [i \in DOMAIN fills' |-> Fee(fills'[i])]
    BY <1>1
  <2>3. FeeSum = Weight(w, fills) /\ FeeSum' = Weight(w, Append(fills, f))
    BY <2>2 DEF Weight, FeeSum
  <2> HIDE DEF w
  <2> QED BY <2>1, <2>3, WeightsAfter
<1> QED BY <1>2, <1>3, <1>4

LEMMA SumsOfNone ==
  ASSUME fills = <<>>
  PROVE  (\A s : PaperQuantity(s) = 0) /\ (\A side : PaperSum(side) = 0) /\ FeeSum = 0
<1>1. DOMAIN fills = {}
  OBVIOUS
<1> QED BY <1>1, SumOfNone DEF PaperQuantity, PaperSum, FeeSum, SumFunction

\* What a client that works alone has loaded is still so.
AloneIsSound ==
  \A c \in Clients : work[c] # Nil /\ work[c].alone =>
    /\ work[c].kind = "quote" => work[c].cash = cash
    /\ work[c].kind = "fill" =>
         /\ work[c].cash = cash + CashEffect(work[c].fill)
         /\ work[c].fill.side = "sell" => work[c].fill.quantity <= PaperQuantity(work[c].fill.symbol)
    /\ work[c].kind = "reset" => work[c].fills = fills

BooksInv == AloneIsSound /\ FillsExplainCash

\* The account and its fills do not move.
LEMMA BooksStay ==
  ASSUME BooksInv, PaperInv, UNCHANGED <<accountVars, overlap>>,
         NEW c \in Clients, NEW w, work' = [work EXCEPT ![c] = w],
         w # Nil /\ w.alone =>
            /\ w.kind = "quote" => w.cash = cash
            /\ w.kind = "fill" =>
                 /\ w.cash = cash + CashEffect(w.fill)
                 /\ w.fill.side = "sell" => w.fill.quantity <= PaperQuantity(w.fill.symbol)
            /\ w.kind = "reset" => w.fills = fills
  PROVE  BooksInv'
<1>1. cash' = cash /\ startingCash' = startingCash /\ fills' = fills
  BY DEF accountVars
<1>2. (\A s : PaperQuantity(s)' = PaperQuantity(s)) /\ (\A side : PaperSum(side)' = PaperSum(side)) /\ FeeSum' = FeeSum
  BY <1>1 DEF PaperQuantity, PaperSum, FeeSum
<1>3. work'[c] = w /\ \A d \in Clients : d # c => work'[d] = work[d]
  BY DEF PaperInv, AccountTypes
<1>4. AloneIsSound'
  BY <1>1, <1>2, <1>3 DEF BooksInv, AloneIsSound
<1>5. FillsExplainCash'
  BY <1>1, <1>2 DEF BooksInv, FillsExplainCash
<1> QED BY <1>4, <1>5 DEF BooksInv

LEMMA BooksOfCommit ==
  ASSUME BooksInv, PaperInv, NEW c \in Clients, ExecuteCommit(c)
  PROVE  BooksInv'
<1> DEFINE f == work[c].fill
<1>1. /\ work[c] # Nil /\ work[c].kind = "fill" /\ Commits(c)
      /\ cash' = work[c].cash /\ fills' = Append(fills, f) /\ startingCash' = startingCash
      /\ overlap' = (overlap \/ ~work[c].alone)
  BY DEF ExecuteCommit
<1>2. work[c] \in FillWork
  BY <1>1 DEF PaperInv, AccountTypes, QuoteWork, ResetWork
<1>3. f \in Fill /\ fills \in Seq(Fill)
  BY <1>2 DEF FillWork, PaperInv, AccountTypes
<1>4. AloneIsSound'
  <2> SUFFICES ASSUME NEW d \in Clients, work'[d] # Nil, work'[d].alone PROVE FALSE
    BY DEF AloneIsSound
  <2>1. work'[d] = IF d = c THEN Nil ELSE IF work[d] # Nil THEN [work[d] EXCEPT !.alone = FALSE] ELSE Nil
    BY <1>1 DEF Commits
  <2>2. work'[d] = [work[d] EXCEPT !.alone = FALSE] /\ work[d] # Nil
    BY <2>1
  <2>3. work[d] \in QuoteWork \union FillWork \union ResetWork
    BY <2>2 DEF PaperInv, AccountTypes
  <2> QED BY <2>2, <2>3 DEF QuoteWork, FillWork, ResetWork
<1>5. FillsExplainCash'
  <2> SUFFICES ASSUME ~overlap' PROVE FillsExplainCash'
    BY DEF FillsExplainCash
  <2>1. ~overlap /\ work[c].alone
    BY <1>1
  <2>2. /\ cash' = cash + CashEffect(f)
        /\ f.side = "sell" => f.quantity <= PaperQuantity(f.symbol)
    BY <1>1, <2>1 DEF BooksInv, AloneIsSound
  <2>3. (\A s \in Tickers : PaperQuantity(s) >= 0) /\ cash = startingCash + PaperSum("sell") - PaperSum("buy") - FeeSum
    BY <2>1 DEF BooksInv, FillsExplainCash
  <2>4. /\ \A s : PaperQuantity(s) \in Int /\ PaperQuantity(s)' = PaperQuantity(s) + Adding(s, f)
        /\ \A side : PaperSum(side) \in Int /\ PaperSum(side)' = PaperSum(side) + Handing(side, f)
        /\ FeeSum \in Int /\ FeeSum' = FeeSum + Fee(f)
    <3> HIDE DEF f
    <3> QED BY <1>1, <1>3, SumsAfter
  <2>5. f.quantity \in Nat /\ f.side \in {"buy", "sell"}
    BY <1>3, PaperAssumption DEF Fill
  <2>6. f.quantity * f.price * Scale \in Int /\ Fee(f) \in Int
    <3> HIDE DEF f
    <3> QED BY <1>3, FillIs
  <2>7. ASSUME NEW s \in Tickers PROVE PaperQuantity(s)' >= 0
    <3> HIDE DEF f
    <3>1. PaperQuantity(s) \in Int /\ PaperQuantity(s)' = PaperQuantity(s) + Adding(s, f) /\ PaperQuantity(s) >= 0
      BY <2>3, <2>4
    <3>2. f.symbol = s /\ f.side = "sell" => f.quantity <= PaperQuantity(s)
      BY <2>2
    <3> QED BY <2>5, <3>1, <3>2 DEF Adding
  <2>8. cash' = startingCash' + PaperSum("sell")' - PaperSum("buy")' - FeeSum'
    <3> DEFINE notional == f.quantity * f.price * Scale
               fee == Fee(f)
    <3>1. CashEffect(f) = IF f.side = "buy" THEN -(notional + fee) ELSE notional - fee
      BY DEF CashEffect
    <3>2. /\ PaperSum("sell")' = PaperSum("sell") + (IF f.side = "sell" THEN notional ELSE 0)
          /\ PaperSum("buy")' = PaperSum("buy") + (IF f.side = "buy" THEN notional ELSE 0)
          /\ FeeSum' = FeeSum + fee
      BY <2>4 DEF Handing
    <3>3. PaperSum("sell") \in Int /\ PaperSum("buy") \in Int /\ FeeSum \in Int /\ startingCash \in Int /\ cash \in Int
      BY <2>4, PaperAssumption DEF PaperInv, AccountTypes
    <3>4. startingCash' = startingCash
      BY <1>1
    <3>5. notional \in Int /\ fee \in Int
      BY <2>6
    <3> HIDE DEF notional, fee, f
    <3> QED BY <2>2, <2>3, <2>5, <3>1, <3>2, <3>3, <3>4, <3>5
  <2> QED BY <2>7, <2>8 DEF FillsExplainCash
<1> QED BY <1>4, <1>5 DEF BooksInv

LEMMA BooksOfReset ==
  ASSUME BooksInv, PaperInv, NEW c \in Clients, ResetCommit(c)
  PROVE  BooksInv'
<1>1. /\ work[c] # Nil /\ work[c].kind = "reset" /\ Commits(c)
      /\ cash' = work[c].cash /\ startingCash' = work[c].cash
      /\ fills' = SubSeq(fills, Len(work[c].fills) + 1, Len(fills))
      /\ overlap' = (~work[c].alone \/ \E d \in Clients \ {c} : work[d] # Nil)
  BY DEF ResetCommit
<1>2. AloneIsSound'
  <2> SUFFICES ASSUME NEW d \in Clients, work'[d] # Nil, work'[d].alone PROVE FALSE
    BY DEF AloneIsSound
  <2>1. work'[d] = IF d = c THEN Nil ELSE IF work[d] # Nil THEN [work[d] EXCEPT !.alone = FALSE] ELSE Nil
    BY <1>1 DEF Commits
  <2>2. work'[d] = [work[d] EXCEPT !.alone = FALSE] /\ work[d] # Nil
    BY <2>1
  <2>3. work[d] \in QuoteWork \union FillWork \union ResetWork
    BY <2>2 DEF PaperInv, AccountTypes
  <2> QED BY <2>2, <2>3 DEF QuoteWork, FillWork, ResetWork
<1>3. FillsExplainCash'
  <2> SUFFICES ASSUME ~overlap' PROVE FillsExplainCash'
    BY DEF FillsExplainCash
  <2>1. work[c].alone
    BY <1>1
  <2>2. work[c].fills = fills
    BY <1>1, <2>1 DEF BooksInv, AloneIsSound
  <2>3. fills' = <<>>
    BY <1>1, <2>2 DEF PaperInv, AccountTypes
  <2>4. (\A s : PaperQuantity(s)' = 0) /\ (\A side : PaperSum(side)' = 0) /\ FeeSum' = 0
    <3>1. DOMAIN fills' = {}
      BY <2>3
    <3> QED BY <3>1, SumOfNone DEF PaperQuantity, PaperSum, FeeSum, SumFunction
  <2>5. work[c] \in ResetWork
    BY <1>1 DEF PaperInv, AccountTypes, QuoteWork, FillWork
  <2>6. work[c].cash \in Int
    <3>1. work[c].cash \in StartingCash /\ StartingCash \subseteq Nat
      BY <2>5, PaperAssumption DEF ResetWork
    <3>2. work[c].cash \in Nat
      BY <3>1
    <3> QED BY <3>2
  <2> QED BY <1>1, <2>4, <2>6 DEF FillsExplainCash
<1> QED BY <1>2, <1>3 DEF BooksInv

LEMMA BooksOfCheck ==
  ASSUME BooksInv, PaperInv, NEW c \in Clients, NEW quote \in Quotes, ExecuteCheck(c, quote)
  PROVE  BooksInv'
<1> DEFINE order == work[c].order
           fill == [symbol |-> order.symbol, side |-> order.side, quantity |-> order.quantity,
                    price |-> FillPrice(order.side, quote)]
           filled == [kind |-> "fill", fill |-> fill, alone |-> work[c].alone,
                      cash |-> work[c].cash + CashEffect(fill)]
           w == IF Affords(c, fill) THEN filled ELSE Nil
<1>1. /\ work[c] # Nil /\ work[c].kind = "quote"
      /\ work' = [work EXCEPT ![c] = w]
      /\ UNCHANGED <<accountVars, overlap>>
  BY DEF ExecuteCheck
<1> HIDE DEF fill
<1>2. filled.alone => work[c].cash = cash
  BY <1>1 DEF BooksInv, AloneIsSound
<1>3. Affords(c, fill) /\ fill.side = "sell" => fill.quantity <= PaperQuantity(fill.symbol)
  BY DEF Affords
<1>4. w # Nil => /\ Affords(c, fill) /\ w.kind = "fill" /\ w.fill = fill /\ w.alone = work[c].alone
                 /\ w.cash = work[c].cash + CashEffect(fill)
  OBVIOUS
<1> HIDE DEF w, filled
<1> QED BY <1>1, <1>2, <1>3, <1>4, BooksStay DEF filled

LEMMA BooksInductive == BooksInv /\ PaperInv /\ [PaperNext]_paperVars => BooksInv'
<1> SUFFICES ASSUME BooksInv, PaperInv, [PaperNext]_paperVars PROVE BooksInv'
  OBVIOUS
<1>1. CASE UNCHANGED <<accountVars, work, overlap>>
  <2>1. cash' = cash /\ startingCash' = startingCash /\ fills' = fills
    BY <1>1 DEF accountVars
  <2>2. (\A s : PaperQuantity(s)' = PaperQuantity(s)) /\ (\A side : PaperSum(side)' = PaperSum(side)) /\ FeeSum' = FeeSum
    BY <2>1 DEF PaperQuantity, PaperSum, FeeSum
  <2> QED BY <1>1, <2>1, <2>2 DEF BooksInv, AloneIsSound, FillsExplainCash
<1>2. ASSUME NEW c \in Clients, NEW order \in Order, ExecuteBegin(c, order) PROVE BooksInv'
  <2> DEFINE w == Load(c, order)
  <2>1. work' = [work EXCEPT ![c] = w] /\ UNCHANGED <<accountVars, overlap>>
    BY <1>2 DEF ExecuteBegin
  <2>2. w.kind = "quote" /\ w.cash = cash
    BY DEF Load
  <2> HIDE DEF w
  <2> QED BY <2>1, <2>2, BooksStay
<1>3. ASSUME NEW c \in Clients, NEW amount \in StartingCash, ResetBegin(c, amount) PROVE BooksInv'
  <2> DEFINE w == [kind |-> "reset", cash |-> amount, fills |-> fills, alone |-> TRUE]
  <2>1. work' = [work EXCEPT ![c] = w] /\ UNCHANGED <<accountVars, overlap>>
    BY <1>3 DEF ResetBegin
  <2>2. w.kind = "reset" /\ w.fills = fills
    OBVIOUS
  <2> HIDE DEF w
  <2> QED BY <2>1, <2>2, BooksStay
<1>4. ASSUME NEW c \in Clients, Fail(c) PROVE BooksInv'
  <2>1. work' = [work EXCEPT ![c] = Nil] /\ UNCHANGED <<accountVars, overlap>>
    BY <1>4 DEF Fail
  <2> QED BY <2>1, BooksStay
<1>5. ASSUME NEW r \in Rules, RunRule(r) PROVE BooksInv'
  <2>1. UNCHANGED <<accountVars, overlap>>
    BY <1>5 DEF RunRule
  <2>2. CASE UNCHANGED work
    BY <2>1, <2>2, <1>1
  <2>3. CASE work' = [work EXCEPT ![Automaton] = Load(Automaton, rules[r].order)]
    <3> DEFINE w == Load(Automaton, rules[r].order)
    <3>1. w.kind = "quote" /\ w.cash = cash /\ Automaton \in Clients
      BY DEF Load, Clients
    <3> HIDE DEF w
    <3>2. work' = [work EXCEPT ![Automaton] = w]
      BY <2>3 DEF w
    <3> QED BY <2>1, <3>1, <3>2, BooksStay
  <2> QED BY <1>5, <2>2, <2>3 DEF RunRule
<1>6. CASE \/ \E r \in Rules : DeleteRule(r) \/ \E order \in {o \in Order : o.side = "buy"} : CreateRule(r, order)
           \/ RunBegin \/ RunMark \/ RunMarkLost \/ RunEnd \/ Tick
  <2>1. UNCHANGED <<accountVars, work, overlap>>
    BY <1>6 DEF DeleteRule, CreateRule, RunBegin, RunMark, RunMarkLost, RunEnd, Tick
  <2> QED BY <1>1, <2>1
<1>7. CASE UNCHANGED paperVars
  BY <1>1, <1>7 DEF paperVars
<1> QED BY <1>2, <1>3, <1>4, <1>5, <1>6, <1>7, BooksOfCheck, BooksOfCommit, BooksOfReset DEF PaperNext

\* What an order writes back is what it loaded and its own fill: unless two clients overlap,
\* nothing is sold that was not held, and the cash is the starting cash plus the sales
\* minus the purchases and all fees, whatever is refused, reset or run by a rule in
\* between: the part of PaperBooksAddUp that explains the cash by the fills.
THEOREM FillsExplain == PaperSpec => []FillsExplainCash
<1>1. PaperInit => BooksInv
  <2> SUFFICES ASSUME PaperInit PROVE BooksInv
    OBVIOUS
  <2>1. fills = <<>> /\ cash = startingCash /\ cash \in Int
    BY PaperInitHolds DEF PaperInit, PaperInv, AccountTypes
  <2>2. (\A s : PaperQuantity(s) = 0) /\ (\A side : PaperSum(side) = 0) /\ FeeSum = 0
    BY <2>1, SumsOfNone
  <2>3. \A c \in Clients : work[c] = Nil
    BY DEF PaperInit
  <2> QED BY <2>1, <2>2, <2>3 DEF BooksInv, AloneIsSound, FillsExplainCash
<1>2. BooksInv => FillsExplainCash
  BY DEF BooksInv
<1> QED BY <1>1, <1>2, BooksInductive, PaperInvariance, PTL DEF PaperSpec

-----------------------------------------------------------------------------
(* Positions and gains.                                                    *)

\* What one fill makes of the position in a symbol.
PositionAfter(p, f, s) ==
  IF f.symbol # s THEN p
  ELSE IF f.side = "buy"
    THEN LET total == Plus(Times(p.quantity, p.cost), Whole(-CashEffect(f)))
             quantity == p.quantity + f.quantity IN
         [p EXCEPT !.quantity = quantity,
                   !.cost = IF quantity = 0 THEN <<0, 1>> ELSE <<total[1], total[2] * quantity>>]
    ELSE [quantity |-> p.quantity - f.quantity,
          cost |-> IF p.quantity = f.quantity THEN <<0, 1>> ELSE p.cost,
          realized |-> Plus(p.realized, Plus(Whole(CashEffect(f)), Times(-f.quantity, p.cost)))]

\* The position before the first fill, and what FoldLeft chooses in Position.
NoPosition == [quantity |-> 0, cost |-> <<0, 1>>, realized |-> <<0, 1>>]

PositionFold(txs, s) ==
  CHOOSE h : h = [p \in SUBSET (DOMAIN txs) |->
    IF p = {} THEN NoPosition ELSE PositionAfter(h[p \ {Max(p)}], txs[Max(p)], s)]

LEMMA PositionFolds == ASSUME NEW txs, NEW s PROVE Position(txs, s) = PositionFold(txs, s)[DOMAIN txs]
BY DEF Position, FoldLeft, MapThenFoldSet, PositionFold, PositionAfter, NoPosition

\* Pairs that need not be amounts: a history with overlaps divides by what is short.
Pairs == Int \X Int
Positions == [quantity : Int, cost : Pairs, realized : Pairs]

LEMMA PairsClosed ==
  ASSUME NEW a \in Pairs, NEW b \in Pairs, NEW k \in Int
  PROVE  /\ Plus(a, b) \in Pairs /\ Times(k, a) \in Pairs /\ Whole(k) \in Pairs /\ <<a[1], a[2] * k>> \in Pairs
<1> DEFINE a1 == a[1]  a2 == a[2]  b1 == b[1]  b2 == b[2]
<1>1. a1 \in Int /\ a2 \in Int /\ b1 \in Int /\ b2 \in Int
  BY DEF Pairs
<1>2. Plus(a, b) = IF a2 = b2 THEN <<a1 + b1, a2>> ELSE <<a1 * b2 + b1 * a2, a2 * b2>>
  BY DEF Plus
<1>3. Times(k, a) = <<k * a1, a2>> /\ Whole(k) = <<k, 1>>
  BY DEF Times, Whole
<1> HIDE DEF a1, a2, b1, b2
<1>4. a1 * b2 \in Int /\ b1 * a2 \in Int /\ a2 * b2 \in Int /\ k * a1 \in Int /\ a2 * k \in Int /\ a1 + b1 \in Int
  BY <1>1
<1>5. a1 * b2 + b1 * a2 \in Int
  BY <1>4
<1>6. <<a1, a2 * k>> \in Pairs
  BY <1>1, <1>4 DEF Pairs
<1> QED BY <1>1, <1>2, <1>3, <1>4, <1>5, <1>6 DEF Pairs, a1, a2

\* What a fill moves, in numbers.
LEMMA EffectIs ==
  ASSUME NEW f \in Fill
  PROVE  CashEffect(f) \in Int /\ f.quantity \in Nat \ {0} /\ f.quantity \in Int /\ f.side \in {"buy", "sell"}
<1> DEFINE notional == f.quantity * f.price * Scale
           fee == Fee(f)
<1>1. notional \in Int /\ fee \in Int /\ f.side \in {"buy", "sell"}
  BY FillIs
<1>2. CashEffect(f) = IF f.side = "buy" THEN -(notional + fee) ELSE notional - fee
  BY DEF CashEffect
<1>3. f.quantity \in Sizes /\ Sizes \subseteq Nat \ {0}
  BY PaperAssumption DEF Fill
<1>4. f.quantity \in Nat \ {0}
  BY <1>3
<1> HIDE DEF notional, fee
<1> QED BY <1>1, <1>2, <1>4

LEMMA PositionAfterIs ==
  ASSUME NEW p \in Positions, NEW f \in Fill, NEW s
  PROVE  PositionAfter(p, f, s) \in Positions
<1>1. p.quantity \in Int /\ p.cost \in Pairs /\ p.realized \in Pairs
  BY DEF Positions
<1>2. CashEffect(f) \in Int /\ f.quantity \in Int
  BY EffectIs
<1>3. <<0, 1>> \in Pairs
  BY DEF Pairs
<1>4. CASE f.symbol # s
  BY <1>4 DEF PositionAfter
<1>5. CASE f.symbol = s /\ f.side = "buy"
  <2> DEFINE total == Plus(Times(p.quantity, p.cost), Whole(-CashEffect(f)))
             quantity == p.quantity + f.quantity
             cost == IF quantity = 0 THEN <<0, 1>> ELSE <<total[1], total[2] * quantity>>
  <2>1. quantity \in Int /\ -CashEffect(f) \in Int
    BY <1>1, <1>2
  <2>2. total \in Pairs
    BY <1>1, <2>1, PairsClosed
  <2> HIDE DEF total, quantity
  <2>3. cost \in Pairs
    BY <1>3, <2>1, <2>2, PairsClosed
  <2> HIDE DEF cost
  <2>4. PositionAfter(p, f, s) = [p EXCEPT !.quantity = quantity, !.cost = cost]
    BY <1>5 DEF PositionAfter, total, quantity, cost
  <2>5. PositionAfter(p, f, s) = [quantity |-> quantity, cost |-> cost, realized |-> p.realized]
    BY <2>4 DEF Positions
  <2> QED BY <1>1, <2>1, <2>3, <2>5 DEF Positions
<1>6. CASE f.symbol = s /\ f.side # "buy"
  <2> DEFINE rest == p.quantity - f.quantity
             cost == IF p.quantity = f.quantity THEN <<0, 1>> ELSE p.cost
             realized == Plus(p.realized, Plus(Whole(CashEffect(f)), Times(-f.quantity, p.cost)))
  <2>1. rest \in Int /\ -f.quantity \in Int /\ cost \in Pairs
    BY <1>1, <1>2, <1>3
  <2>2. realized \in Pairs
    <3>1. Whole(CashEffect(f)) \in Pairs /\ Times(-f.quantity, p.cost) \in Pairs
      BY <1>1, <1>2, <2>1, PairsClosed
    <3>2. Plus(Whole(CashEffect(f)), Times(-f.quantity, p.cost)) \in Pairs
      BY <1>2, <3>1, PairsClosed
    <3> QED BY <1>1, <1>2, <3>2, PairsClosed
  <2>3. PositionAfter(p, f, s) = [quantity |-> rest, cost |-> cost, realized |-> realized]
    BY <1>6 DEF PositionAfter
  <2> HIDE DEF rest, cost, realized
  <2> QED BY <2>1, <2>2, <2>3 DEF Positions
<1> QED BY <1>4, <1>5, <1>6

LEMMA NoPositionIs == NoPosition \in Positions
BY DEF NoPosition, Positions, Pairs

\* The step of the fold, as a function.
Following(s) == [a \in Positions \X Fill |-> PositionAfter(a[1], a[2], s)]

LEMMA FollowingIs ==
  ASSUME NEW s
  PROVE  /\ Following(s) \in [Positions \X Fill -> Positions]
         /\ \A p \in Positions, f \in Fill : Following(s)[<<p, f>>] = PositionAfter(p, f, s)
<1>1. \A a \in Positions \X Fill : PositionAfter(a[1], a[2], s) \in Positions
  BY PositionAfterIs
<1> QED BY <1>1 DEF Following

\* Position is such a fold, whether or not the history is sound.
LEMMA PositionFoldIs ==
  ASSUME NEW txs \in Seq(Fill), NEW s
  PROVE  FoldsBy(PositionFold(txs, s), Following(s), NoPosition, txs, Positions)
<1> DEFINE IsFold(h) == h = [p \in SUBSET (DOMAIN txs) |->
             IF p = {} THEN NoPosition ELSE PositionAfter(h[p \ {Max(p)}], txs[Max(p)], s)]
           h == PositionFold(txs, s)
<1>1. \A i \in DOMAIN txs : txs[i] \in Fill
  OBVIOUS
<1> DEFINE op == Following(s)
<1>2. PICK g \in [SUBSET (DOMAIN txs) -> Positions] : Folded(g, op, NoPosition, txs)
  <2>1. op \in [Positions \X Fill -> Positions] /\ NoPosition \in Positions
    BY FollowingIs, NoPositionIs
  <2> HIDE DEF op
  <2> QED BY <2>1, FoldOfSeq
<1>3. ASSUME NEW p \in SUBSET (DOMAIN txs), p # {} PROVE g[p] = PositionAfter(g[p \ {Max(p)}], txs[Max(p)], s)
  <2>1. g[p \ {Max(p)}] \in Positions /\ txs[Max(p)] \in Fill
    BY <1>1, <1>2, <1>3 DEF Folded
  <2> QED BY <1>2, <1>3, <2>1, FollowingIs DEF Folded
<1>4. IsFold(g)
  BY <1>2, <1>3 DEF Folded
<1>5. IsFold(h)
  BY <1>4 DEF PositionFold
<1>6. /\ h[{}] = NoPosition
      /\ \A p \in SUBSET (DOMAIN txs) : p # {} => h[p] = PositionAfter(h[p \ {Max(p)}], txs[Max(p)], s)
  BY <1>5
<1> HIDE DEF h
<1>7. ASSUME NEW p \in SUBSET (DOMAIN txs), p # {}, h[p \ {Max(p)}] \in Positions
      PROVE  h[p] = Following(s)[<<h[p \ {Max(p)}], txs[Max(p)]>>]
  BY <1>1, <1>2, <1>6, <1>7, FollowingIs DEF Folded
<1>8. FoldsBy(h, Following(s), NoPosition, txs, Positions)
  BY <1>6, <1>7 DEF FoldsBy
<1> QED BY <1>8 DEF h

\* The position after one fill more, and after none.
LEMMA PositionOfMore ==
  ASSUME NEW txs \in Seq(Fill), NEW f \in Fill, NEW s
  PROVE  /\ Position(txs, s) \in Positions
         /\ Position(Append(txs, f), s) = PositionAfter(Position(txs, s), f, s)
<1> DEFINE more == Append(txs, f)
           h == PositionFold(txs, s)
           g == PositionFold(more, s)
<1>1. more \in Seq(Fill)
  OBVIOUS
<1>2. FoldsBy(h, Following(s), NoPosition, txs, Positions) /\ FoldsBy(g, Following(s), NoPosition, more, Positions)
  BY <1>1, PositionFoldIs
<1>3. h[DOMAIN txs] \in Positions /\ g[DOMAIN more] = Following(s)[<<h[DOMAIN txs], f>>]
  <2> DEFINE op == Following(s)
  <2>1. op \in [Positions \X Fill -> Positions] /\ NoPosition \in Positions
    BY FollowingIs, NoPositionIs
  <2>2. FoldsBy(h, op, NoPosition, txs, Positions) /\ FoldsBy(g, op, NoPosition, Append(txs, f), Positions)
    BY <1>2
  <2> HIDE DEF op, h, g
  <2>3. StepFrom(h, g, op, txs, f, Positions)
    BY <2>1, <2>2, FoldOfLonger
  <2> QED BY <2>3 DEF StepFrom, op
<1>4. Position(txs, s) = h[DOMAIN txs] /\ Position(more, s) = g[DOMAIN more]
  BY PositionFolds
<1> HIDE DEF h, g, more
<1> QED BY <1>3, <1>4, FollowingIs DEF more

LEMMA PositionOfNone == ASSUME NEW s PROVE Position(<<>>, s) = NoPosition
<1>1. <<>> \in Seq(Fill) /\ DOMAIN <<>> = {}
  OBVIOUS
<1>2. PositionFold(<<>>, s)[{}] = NoPosition
  BY <1>1, PositionFoldIs DEF FoldsBy
<1> QED BY <1>1, <1>2, PositionFolds

\* What a fill adds to the cash that its own symbol has brought.
Bringing(s, f) == IF f.symbol # s THEN 0 ELSE CashEffect(f)

\* The gain less the cost of what is open is c.
Explains(p, c) ==
  /\ p.quantity \in Int /\ p.cost \in Fractions /\ p.realized \in Fractions
  /\ \E D \in Nat \ {0}, n, m \in Int :
       Over(p.realized, D, n) /\ Over(p.cost, D, m) /\ n - p.quantity * m = c * D

\* A purchase moves its cost from the cash into what is open; its fee is part of it.
LEMMA PurchaseExplains ==
  ASSUME NEW p \in Positions, NEW c \in Int, Explains(p, c), NEW f \in Fill, NEW s,
         f.symbol = s, f.side = "buy", p.quantity >= 0
  PROVE  Explains(PositionAfter(p, f, s), c + CashEffect(f))
<1> DEFINE q == p.quantity
           k == p.quantity + f.quantity
           E == CashEffect(f)
           total == Plus(Times(p.quantity, p.cost), Whole(-CashEffect(f)))
           share == <<total[1], total[2] * k>>
<1>1. E \in Int /\ -E \in Int /\ q \in Nat /\ k \in Nat \ {0} /\ k # 0 /\ p.cost \in Fractions /\ p.realized \in Fractions
  BY EffectIs DEF Explains
<1>2. PICK D \in Nat \ {0}, n \in Int, m \in Int :
        Over(p.realized, D, n) /\ Over(p.cost, D, m) /\ n - q * m = c * D
  BY DEF Explains
<1>3. PositionAfter(p, f, s) = [quantity |-> k, cost |-> share, realized |-> p.realized]
  <2>1. PositionAfter(p, f, s) = [p EXCEPT !.quantity = k, !.cost = share]
    BY <1>1 DEF PositionAfter
  <2> HIDE DEF k, share
  <2> QED BY <2>1 DEF Positions
<1>4. Times(q, p.cost) \in Fractions /\ Over(Times(q, p.cost), D, q * m)
  <2>1. q \in Int
    BY <1>1
  <2> HIDE DEF q
  <2> QED BY <1>1, <1>2, <2>1, OverTimes
<1>5. Whole(-E) \in Fractions /\ Over(Whole(-E), D, (-E) * D)
  BY <1>1, OverWhole
<1> DEFINE t == q * m + (-E) * D
<1>6. q * m \in Int /\ (-E) * D \in Int /\ t \in Int
  BY <1>1
<1>7. total \in Fractions /\ Over(total, D, t)
  <2> HIDE DEF q, E
  <2>1. Plus(Times(q, p.cost), Whole(-E)) \in Fractions /\ Over(Plus(Times(q, p.cost), Whole(-E)), D, q * m + (-E) * D)
    BY <1>4, <1>5, <1>6, OverPlus
  <2> QED BY <2>1 DEF q, E
<1> HIDE DEF t, total, k
<1>8. /\ D * k \in Nat \ {0} /\ share \in Fractions /\ Over(share, D * k, t)
      /\ Over(p.realized, D * k, n * k)
  BY <1>1, <1>2, <1>6, <1>7, OverShare
<1>9. n * k - k * t = (c + E) * (D * k) /\ n * k \in Int
  <2>1. D \in Int /\ k \in Int /\ n \in Int /\ m \in Int /\ q \in Int
    BY <1>1
  <2>2. n - t = (c + E) * D
    <3> DEFINE x == q * m
               y == E * D
               z == c * D
    <3>1. x \in Int /\ y \in Int /\ z \in Int
      BY <1>1, <2>1
    <3>2. t = x - y /\ n - x = z
      BY <1>1, <1>2, <2>1 DEF t
    <3>3. (c + E) * D = z + y
      BY <1>1, <2>1
    <3> HIDE DEF x, y, z
    <3> QED BY <3>1, <3>2, <3>3
  <2>3. n * k - k * t = (n - t) * k
    BY <1>6, <2>1
  <2>4. (c + E) * (D * k) = ((c + E) * D) * k
    BY <1>1, <2>1
  <2> QED BY <2>1, <2>2, <2>3, <2>4
<1> DEFINE after == PositionAfter(p, f, s)
<1>10. after.quantity = k /\ after.cost = share /\ after.realized = p.realized
  <2> HIDE DEF share
  <2> QED BY <1>3
<1> HIDE DEF after, share
<1>11. Explains(after, c + E)
  <2> DEFINE DD == D * k
             nn == n * k
  <2>1. DD \in Nat \ {0} /\ nn \in Int /\ Over(after.realized, DD, nn) /\ Over(after.cost, DD, t)
        /\ nn - after.quantity * t = (c + E) * DD
    BY <1>8, <1>9, <1>10
  <2> HIDE DEF DD, nn
  <2> QED BY <1>1, <1>6, <1>8, <1>10, <2>1 DEF Explains
<1> QED BY <1>11 DEF after

\* A sale moves the average cost of what it sells out again; the rest is gain.
LEMMA SaleExplains ==
  ASSUME NEW p \in Positions, NEW c \in Int, Explains(p, c), NEW f \in Fill, NEW s,
         f.symbol = s, f.side # "buy"
  PROVE  Explains(PositionAfter(p, f, s), c + CashEffect(f))
<1> DEFINE q == p.quantity
           b == f.quantity
           k == p.quantity - f.quantity
           E == CashEffect(f)
           cost == IF p.quantity = f.quantity THEN <<0, 1>> ELSE p.cost
           gain == Plus(Whole(CashEffect(f)), Times(-f.quantity, p.cost))
           realized == Plus(p.realized, gain)
<1>1. E \in Int /\ q \in Int /\ b \in Int /\ -b \in Int /\ k \in Int /\ p.cost \in Fractions /\ p.realized \in Fractions
  BY EffectIs DEF Explains
<1>2. PICK D \in Nat \ {0}, n \in Int, m \in Int :
        Over(p.realized, D, n) /\ Over(p.cost, D, m) /\ n - q * m = c * D
  BY DEF Explains
<1>3. PositionAfter(p, f, s) = [quantity |-> k, cost |-> cost, realized |-> realized]
  BY DEF PositionAfter
<1>4. Times(-b, p.cost) \in Fractions /\ Over(Times(-b, p.cost), D, (-b) * m)
  BY <1>1, <1>2, OverTimes
<1>5. Whole(E) \in Fractions /\ Over(Whole(E), D, E * D)
  BY <1>1, OverWhole
<1>6. E * D \in Int /\ (-b) * m \in Int /\ E * D + (-b) * m \in Int
  <2>1. D \in Int
    OBVIOUS
  <2> QED BY <1>1, <2>1
<1>7. gain \in Fractions /\ Over(gain, D, E * D + (-b) * m)
  <2> HIDE DEF b, E
  <2>1. Plus(Whole(E), Times(-b, p.cost)) \in Fractions /\ Over(Plus(Whole(E), Times(-b, p.cost)), D, E * D + (-b) * m)
    BY <1>4, <1>5, <1>6, OverPlus
  <2> QED BY <2>1 DEF b, E
<1> DEFINE t == n + (E * D + (-b) * m)
<1>8. realized \in Fractions /\ Over(realized, D, t) /\ t \in Int
  <2> HIDE DEF gain
  <2> QED BY <1>1, <1>2, <1>6, <1>7, OverPlus
<1> DEFINE cm == IF q = b THEN 0 ELSE m
<1>9. cost \in Fractions /\ Over(cost, D, cm) /\ cm \in Int
  <2>1. <<0, 1>> \in Fractions /\ Over(<<0, 1>>, D, 0)
    BY DEF Fractions, Over
  <2> QED BY <1>1, <1>2, <2>1
<1>10. t - k * cm = (c + E) * D
  <2> DEFINE x == q * m
             y == E * D
             z == c * D
             w == b * m
  <2>1. x \in Int /\ y \in Int /\ z \in Int /\ w \in Int /\ D \in Int
    BY <1>1
  <2>2. n - x = z
    BY <1>2
  <2>3. t = n + (y - w)
    BY <1>1
  <2>4. (c + E) * D = z + y
    BY <1>1, <2>1
  <2>5. k * cm = x - w
    <3>1. CASE q = b
      <4>1. k * cm = 0 /\ x - w = 0
        BY <1>1, <3>1
      <4> QED BY <4>1
    <3>2. CASE q # b
      <4>1. (q - b) * m = x - w
        BY <1>1
      <4> QED BY <3>2, <4>1
    <3> QED BY <3>1, <3>2
  <2> HIDE DEF x, y, z, w, t, cm, k
  <2> QED BY <2>1, <2>2, <2>3, <2>4, <2>5
<1> DEFINE after == PositionAfter(p, f, s)
<1> HIDE DEF cost, realized, gain, k, t, cm
<1>11. after.quantity = k /\ after.cost = cost /\ after.realized = realized
  BY <1>3
<1> HIDE DEF after
<1>12. Explains(after, c + E)
  BY <1>1, <1>8, <1>9, <1>10, <1>11 DEF Explains
<1> QED BY <1>12 DEF after

LEMMA FillExplains ==
  ASSUME NEW p \in Positions, NEW c \in Int, Explains(p, c), NEW f \in Fill, NEW s, p.quantity >= 0
  PROVE  /\ Explains(PositionAfter(p, f, s), c + Bringing(s, f))
         /\ PositionAfter(p, f, s).quantity = p.quantity + Adding(s, f)
<1>1. f.quantity \in Int /\ f.side \in {"buy", "sell"} /\ p.quantity \in Int
  BY FillIs DEF Positions
<1>2. CASE f.symbol # s
  <2>1. PositionAfter(p, f, s) = p /\ Bringing(s, f) = 0 /\ Adding(s, f) = 0 /\ c + 0 = c /\ p.quantity + 0 = p.quantity
    BY <1>1, <1>2 DEF PositionAfter, Bringing, Adding
  <2> QED BY <2>1
<1>3. CASE f.symbol = s /\ f.side = "buy"
  <2>1. PositionAfter(p, f, s).quantity = p.quantity + f.quantity
    BY <1>3 DEF PositionAfter, Positions
  <2> QED BY <1>1, <1>3, <2>1, PurchaseExplains DEF Bringing, Adding
<1>4. CASE f.symbol = s /\ f.side # "buy"
  <2>1. PositionAfter(p, f, s).quantity = p.quantity - f.quantity
    BY <1>4 DEF PositionAfter
  <2>2. p.quantity - f.quantity = p.quantity + (-f.quantity)
    BY <1>1
  <2> QED BY <1>1, <1>4, <2>1, <2>2, SaleExplains DEF Bringing, Adding
<1> QED BY <1>2, <1>3, <1>4

\* What the fills of a symbol have brought.
Brought(s) == SumFunction([i \in DOMAIN fills |-> Bringing(s, fills[i])])
BroughtIn == [s \in Tickers |-> Brought(s)]

LEMMA BroughtAfter ==
  ASSUME fills \in Seq(Fill), NEW f \in Fill, fills' = Append(fills, f), NEW s
  PROVE  Brought(s) \in Int /\ Bringing(s, f) \in Int /\ Brought(s)' = Brought(s) + Bringing(s, f)
<1>1. fills' \in Seq(Fill) /\ (\A i \in DOMAIN fills : fills[i] \in Fill) /\ \A i \in DOMAIN fills' : fills'[i] \in Fill
  OBVIOUS
<1> DEFINE w == [g \in Fill |-> Bringing(s, g)]
<1>2. w \in [Fill -> Int] /\ w[f] = Bringing(s, f)
  BY EffectIs DEF Bringing
<1>3. /\ [i \in DOMAIN fills |-> w[fills[i]]] = [i \in DOMAIN fills |-> Bringing(s, fills[i])]
      /\ [i \in DOMAIN fills' |-> w[fills'[i]]] = [i \in DOMAIN fills' |-> Bringing(s, fills'[i])]
  BY <1>1
<1>4. Brought(s) = Weight(w, fills) /\ Brought(s)' = Weight(w, fills')
  <2> HIDE DEF w
  <2> QED BY <1>3 DEF Weight, Brought
<1>5. Bringing(s, f) \in Int
  BY EffectIs DEF Bringing
<1> HIDE DEF w
<1> QED BY <1>2, <1>4, <1>5, WeightsAfter

\* What is open is what the quantities say, the gain of each symbol less its cost is what
\* its fills brought, and together they brought what the cash has gained.
PositionsExplain ==
  ~overlap =>
    /\ \A s \in Tickers : /\ Position(fills, s).quantity = PaperQuantity(s)
                          /\ Explains(Position(fills, s), Brought(s))
    /\ \A s \in Tickers : Brought(s) \in Int
    /\ SumFunctionOnSet(BroughtIn, Tickers) = cash - startingCash

\* An account that was opened or reset.
NothingFilled == fills = <<>> /\ cash \in Int /\ cash = startingCash

LEMMA PositionsOfNone == NothingFilled => PositionsExplain
<1> SUFFICES ASSUME fills = <<>>, cash \in Int, cash = startingCash PROVE PositionsExplain
  BY DEF NothingFilled
<1>1. DOMAIN fills = {}
  OBVIOUS
<1>2. \A s : Brought(s) = 0
  BY <1>1, SumOfNone DEF Brought, SumFunction
<1>3. ASSUME NEW s PROVE Position(fills, s).quantity = PaperQuantity(s) /\ Explains(Position(fills, s), Brought(s))
  <2>1. Position(fills, s) = NoPosition /\ PaperQuantity(s) = 0
    BY PositionOfNone, SumsOfNone
  <2>2. <<0, 1>> \in Fractions /\ Over(<<0, 1>>, 1, 0) /\ 1 \in Nat \ {0} /\ 0 - 0 * 0 = 0 * 1
    BY DEF Fractions, Over
  <2>3. Explains(NoPosition, 0)
    BY <2>2 DEF Explains, NoPosition
  <2> QED BY <1>2, <2>1, <2>3 DEF NoPosition
<1>4. SumFunctionOnSet(BroughtIn, Tickers) = 0
  <2> DEFINE z == [s \in Tickers |-> 0]
  <2>1. BroughtIn = z
    BY <1>2 DEF BroughtIn
  <2>2. z \in [Tickers -> Int] /\ IsFiniteSet(Tickers) /\ \A s \in Tickers : z[s] + z[s] = z[s] * 1
    BY PaperAssumption
  <2>3. \A s \in Tickers : z[s] + z[s] = z[s] * 1 /\ z[s] \in Int
    BY <2>2
  <2> HIDE DEF z
  <2>4. SumFunctionOnSet(z, Tickers) + SumFunctionOnSet(z, Tickers) = SumFunctionOnSet(z, Tickers) * 1
    <3>1. Makes(z, z, z, 1, Tickers) /\ 1 \in Int
      BY <2>3 DEF Makes
    <3>2. SumsMake(z, z, z, 1, Tickers)
      BY <2>2, <3>1, SumsTogether
    <3> QED BY <3>2 DEF SumsMake
  <2>5. SumFunctionOnSet(z, Tickers) \in Int
    <3>1. SumFunctionOnSet(z, Tickers) = SumFold(z, Tickers)[Tickers]
      BY SumChosen
    <3> QED BY <2>2, <2>3, <3>1, SumFoldIs
  <2> QED BY <2>1, <2>4, <2>5
<1> QED BY <1>2, <1>3, <1>4 DEF PositionsExplain

LEMMA PositionsOfCommit ==
  ASSUME PositionsExplain, BooksInv, PaperInv, NEW c \in Clients, ExecuteCommit(c)
  PROVE  PositionsExplain'
<1> DEFINE f == work[c].fill
<1>1. /\ work[c] # Nil /\ work[c].kind = "fill"
      /\ cash' = work[c].cash /\ fills' = Append(fills, f) /\ startingCash' = startingCash
      /\ overlap' = (overlap \/ ~work[c].alone)
  BY DEF ExecuteCommit
<1>2. work[c] \in FillWork
  BY <1>1 DEF PaperInv, AccountTypes, QuoteWork, ResetWork
<1>3. f \in Fill /\ fills \in Seq(Fill) /\ cash \in Int
  BY <1>2 DEF FillWork, PaperInv, AccountTypes
<1>4. startingCash \in Int
  <2>1. startingCash \in StartingCash /\ StartingCash \subseteq Nat
    BY PaperAssumption DEF PaperInv, AccountTypes
  <2> QED BY <2>1
<1> SUFFICES ASSUME ~overlap' PROVE PositionsExplain'
  BY DEF PositionsExplain
<1>5. ~overlap /\ cash' = cash + CashEffect(f) /\ CashEffect(f) \in Int
  <2>1. ~overlap /\ work[c].alone
    BY <1>1
  <2> QED BY <1>1, <1>3, <2>1, EffectIs DEF BooksInv, AloneIsSound
<1>6. /\ \A s \in Tickers : PaperQuantity(s) >= 0
      /\ \A s \in Tickers : Position(fills, s).quantity = PaperQuantity(s) /\ Explains(Position(fills, s), Brought(s))
      /\ SumFunctionOnSet(BroughtIn, Tickers) = cash - startingCash
  BY <1>5 DEF BooksInv, FillsExplainCash, PositionsExplain
<1> HIDE DEF f
<1>7. \A s : PaperQuantity(s) \in Int /\ PaperQuantity(s)' = PaperQuantity(s) + Adding(s, f)
  BY <1>1, <1>3, SumsAfter
<1>8. \A s : Brought(s) \in Int /\ Bringing(s, f) \in Int /\ Brought(s)' = Brought(s) + Bringing(s, f)
  BY <1>1, <1>3, BroughtAfter
<1>9. ASSUME NEW s \in Tickers
      PROVE  /\ Position(fills', s).quantity = PaperQuantity(s)'
             /\ Explains(Position(fills', s), Brought(s)')
  <2> DEFINE p == Position(fills, s)
  <2>1. p \in Positions /\ Position(fills', s) = PositionAfter(p, f, s)
    BY <1>1, <1>3, PositionOfMore
  <2>2. p.quantity >= 0 /\ Explains(p, Brought(s)) /\ p.quantity = PaperQuantity(s)
    BY <1>6
  <2> HIDE DEF p
  <2>3. /\ Explains(PositionAfter(p, f, s), Brought(s) + Bringing(s, f))
        /\ PositionAfter(p, f, s).quantity = p.quantity + Adding(s, f)
    BY <1>3, <1>8, <2>1, <2>2, FillExplains
  <2> QED BY <1>7, <1>8, <2>1, <2>2, <2>3
<1>10. SumFunctionOnSet(BroughtIn', Tickers) = cash' - startingCash'
  <2> DEFINE x == f.symbol
             b == BroughtIn
             d == BroughtIn'
  <2>1. x \in Tickers /\ IsFiniteSet(Tickers)
    BY <1>3, PaperAssumption DEF Fill
  <2>2. b \in [Tickers -> Int] /\ d \in [Tickers -> Int] /\ \A s \in Tickers : b[s] = Brought(s) /\ d[s] = Brought(s)'
    <3>1. \A s \in Tickers : Brought(s) \in Int /\ Brought(s)' \in Int
      BY <1>8
    <3>2. b = [s \in Tickers |-> Brought(s)] /\ d = [s \in Tickers |-> Brought(s)']
      BY DEF BroughtIn
    <3> HIDE DEF b, d
    <3> QED BY <3>1, <3>2
  <2>3. \A s \in Tickers : s # x => d[s] = b[s]
    <3> HIDE DEF b, d
    <3>1. \A s : s # x => Bringing(s, f) = 0
      BY DEF Bringing
    <3> QED BY <1>8, <2>2, <3>1
  <2>4. d[x] - b[x] = CashEffect(f)
    <3> HIDE DEF b, d
    <3>1. Bringing(x, f) = CashEffect(f)
      BY DEF Bringing
    <3>2. d[x] = b[x] + CashEffect(f) /\ b[x] \in Int
      BY <1>8, <2>1, <2>2, <3>1
    <3> QED BY <1>5, <3>2
  <2>5. SumFunctionOnSet(d, Tickers) = SumFunctionOnSet(b, Tickers) + (d[x] - b[x])
    <3> HIDE DEF b, d, x
    <3> QED BY <2>1, <2>2, <2>3, SumOfChange
  <2>6. SumFunctionOnSet(b, Tickers) = cash - startingCash
    BY <1>6
  <2>7. SumFunctionOnSet(d, Tickers) = cash' - startingCash'
    <3> HIDE DEF b, d, x
    <3> QED BY <1>1, <1>3, <1>4, <1>5, <2>4, <2>5, <2>6
  <2> QED BY <2>7
<1>11. \A s \in Tickers : Brought(s)' \in Int
  BY <1>8
<1> QED BY <1>9, <1>10, <1>11 DEF PositionsExplain

LEMMA PositionsInductive ==
  PositionsExplain /\ BooksInv /\ PaperInv /\ [PaperNext]_paperVars => PositionsExplain'
<1> SUFFICES ASSUME PositionsExplain, BooksInv, PaperInv, [PaperNext]_paperVars PROVE PositionsExplain'
  OBVIOUS
<1>1. CASE UNCHANGED <<accountVars, overlap>>
  <2>1. cash' = cash /\ startingCash' = startingCash /\ fills' = fills /\ overlap' = overlap
    BY <1>1 DEF accountVars
  <2> QED BY <2>1 DEF PositionsExplain, Brought, BroughtIn, PaperQuantity
<1>2. ASSUME NEW c \in Clients, ResetCommit(c) PROVE PositionsExplain'
  <2>1. /\ work[c] # Nil /\ work[c].kind = "reset"
        /\ cash' = work[c].cash /\ startingCash' = work[c].cash
        /\ fills' = SubSeq(fills, Len(work[c].fills) + 1, Len(fills))
        /\ overlap' = (~work[c].alone \/ \E d \in Clients \ {c} : work[d] # Nil)
    BY <1>2 DEF ResetCommit
  <2> SUFFICES ASSUME ~overlap' PROVE PositionsExplain'
    BY DEF PositionsExplain
  <2>2. work[c].fills = fills
    BY <2>1 DEF BooksInv, AloneIsSound
  <2>3. fills' = <<>>
    BY <2>1, <2>2 DEF PaperInv, AccountTypes
  <2>4. cash' \in Int
    <3>1. work[c] \in ResetWork
      BY <2>1 DEF PaperInv, AccountTypes, QuoteWork, FillWork
    <3>2. work[c].cash \in StartingCash /\ StartingCash \subseteq Nat
      BY <3>1, PaperAssumption DEF ResetWork
    <3>3. work[c].cash \in Nat
      BY <3>2
    <3>4. cash' \in Nat
      BY <2>1, <3>3
    <3> QED BY <3>4
  <2>5. cash' = startingCash'
    BY <2>1
  <2>6. NothingFilled'
    BY <2>3, <2>4, <2>5 DEF NothingFilled
  <2> QED BY <2>6, PositionsOfNone, PTL
<1>3. CASE UNCHANGED paperVars
  BY <1>1, <1>3 DEF paperVars
<1>4. CASE \/ \E c \in Clients : \/ \E order \in Order : ExecuteBegin(c, order)
                                 \/ \E quote \in Quotes : ExecuteCheck(c, quote)
                                 \/ \E amount \in StartingCash : ResetBegin(c, amount)
                                 \/ Fail(c)
           \/ \E r \in Rules : DeleteRule(r) \/ RunRule(r) \/ \E order \in {o \in Order : o.side = "buy"} : CreateRule(r, order)
           \/ RunBegin \/ RunMark \/ RunMarkLost \/ RunEnd \/ Tick
  <2>1. UNCHANGED <<accountVars, overlap>>
    BY <1>4 DEF ExecuteBegin, ExecuteCheck, ResetBegin, Fail, DeleteRule, RunRule, CreateRule,
                RunBegin, RunMark, RunMarkLost, RunEnd, Tick
  <2> QED BY <1>1, <2>1
<1> QED BY <1>2, <1>3, <1>4, PositionsOfCommit DEF PaperNext

Realized == [s \in Tickers |-> Position(fills, s).realized]
Open == [s \in Tickers |-> Times(-Position(fills, s).quantity, Position(fills, s).cost)]

\* What the two folds of GainExplainsCash choose.
RealizedFold ==
  CHOOSE h : h = [p \in SUBSET Tickers |->
    IF p = {} THEN <<0, 1>> ELSE Plus(h[p \ {Member(p)}], Position(fills, Member(p)).realized)]
OpenFold(base) ==
  CHOOSE h : h = [p \in SUBSET Tickers |->
    IF p = {} THEN base
    ELSE Plus(h[p \ {Member(p)}], Times(-Position(fills, Member(p)).quantity, Position(fills, Member(p)).cost))]

\* Both folds add up amounts.
LEMMA RealizedFoldAdds ==
  ASSUME Realized \in [Tickers -> Fractions]
  PROVE  AddsUp(RealizedFold, Realized, <<0, 1>>, Tickers)
<1> DEFINE IsFold(h) == h = [p \in SUBSET Tickers |->
             IF p = {} THEN <<0, 1>> ELSE Plus(h[p \ {Member(p)}], Position(fills, Member(p)).realized)]
           h == RealizedFold
<1>1. <<0, 1>> \in Fractions /\ IsFiniteSet(Tickers)
  BY PaperAssumption DEF Fractions
<1>2. PICK g \in [SUBSET Tickers -> Fractions] : AddsUp(g, Realized, <<0, 1>>, Tickers)
  BY <1>1, AmountsAdd
<1>3. \A p \in SUBSET Tickers : p # {} => Realized[Member(p)] = Position(fills, Member(p)).realized
  BY MemberIsIn DEF Realized
<1>4. IsFold(g)
  BY <1>2, <1>3 DEF AddsUp
<1>5. IsFold(h)
  BY <1>4 DEF RealizedFold
<1> HIDE DEF h
<1>6. AddsUp(h, Realized, <<0, 1>>, Tickers)
  BY <1>3, <1>5 DEF AddsUp
<1> QED BY <1>6 DEF h

LEMMA OpenFoldAdds ==
  ASSUME Open \in [Tickers -> Fractions], NEW base \in Fractions
  PROVE  AddsUp(OpenFold(base), Open, base, Tickers)
<1> DEFINE Cost(s) == Times(-Position(fills, s).quantity, Position(fills, s).cost)
           IsFold(h) == h = [p \in SUBSET Tickers |->
             IF p = {} THEN base ELSE Plus(h[p \ {Member(p)}], Cost(Member(p)))]
           h == OpenFold(base)
<1>1. IsFiniteSet(Tickers)
  BY PaperAssumption
<1>2. PICK g \in [SUBSET Tickers -> Fractions] : AddsUp(g, Open, base, Tickers)
  BY <1>1, AmountsAdd
<1>3. \A p \in SUBSET Tickers : p # {} => Open[Member(p)] = Cost(Member(p))
  BY MemberIsIn DEF Open
<1>4. IsFold(g)
  <2> HIDE DEF Cost
  <2> QED BY <1>2, <1>3 DEF AddsUp
<1>5. IsFold(h)
  BY <1>4 DEF OpenFold
<1> HIDE DEF h, Cost
<1>6. AddsUp(h, Open, base, Tickers)
  BY <1>3, <1>5 DEF AddsUp
<1> QED BY <1>6 DEF h

LEMMA GainFolds ==
  ASSUME fills \in Seq(Fill), Len(fills) <= FillWindow
  PROVE  /\ RealizedPnl = RealizedFold[Tickers]
         /\ ~overlap /\ SameAmount(Whole(cash - startingCash), OpenFold(RealizedPnl)[Tickers]) => GainExplainsCash
<1>1. Len(fills) \in Nat /\ FillWindow \in Nat /\ SubSeq(fills, 1, Len(fills)) = fills
  BY PaperAssumption
<1>2. (IF Len(fills) > FillWindow THEN Len(fills) - FillWindow + 1 ELSE 1) = 1
  BY <1>1
<1>3. RealizedPnl = RealizedFold[Tickers]
  <2> DEFINE newest == SubSeq(fills, IF Len(fills) > FillWindow THEN Len(fills) - FillWindow + 1 ELSE 1, Len(fills))
  <2>1. newest = fills
    BY <1>1, <1>2
  <2>2. RealizedPnl = (CHOOSE h : h = [p \in SUBSET Tickers |->
          IF p = {} THEN <<0, 1>> ELSE Plus(h[p \ {Member(p)}], Position(newest, Member(p)).realized)])[Tickers]
    BY DEF RealizedPnl, FoldSet, MapThenFoldSet, Member
  <2> HIDE DEF newest
  <2> QED BY <2>1, <2>2 DEF RealizedFold
<1>4. ~overlap /\ SameAmount(Whole(cash - startingCash), OpenFold(RealizedPnl)[Tickers]) => GainExplainsCash
  BY DEF GainExplainsCash, OpenFold, FoldSet, MapThenFoldSet, Member
<1> QED BY <1>3, <1>4

\* A position explains the same over any denominator.
Leaves(p, n, m, t) == n - p.quantity * m = t

LEMMA ExplainedOver ==
  ASSUME NEW p, NEW c \in Int, Explains(p, c), NEW D \in Nat \ {0}, NEW n \in Int, NEW m \in Int,
         Over(p.realized, D, n), Over(p.cost, D, m)
  PROVE  Leaves(p, n, m, c * D)
<1> DEFINE k == p.quantity
<1>1. k \in Int /\ p.cost \in Fractions /\ p.realized \in Fractions
  BY DEF Explains
<1>2. PICK E \in Nat \ {0}, x \in Int, y \in Int :
        Over(p.realized, E, x) /\ Over(p.cost, E, y) /\ x - k * y = c * E
  BY DEF Explains
<1> DEFINE cash0 == Plus(p.realized, Times(-k, p.cost))
<1>3. Times(-k, p.cost) \in Fractions /\ Over(Times(-k, p.cost), E, (-k) * y) /\ Over(Times(-k, p.cost), D, (-k) * m)
  <2>1. -k \in Int
    BY <1>1
  <2> HIDE DEF k
  <2> QED BY <1>1, <1>2, <2>1, OverTimes
<1>4. (-k) * y \in Int /\ (-k) * m \in Int /\ (-k) * y = -(k * y) /\ (-k) * m = -(k * m) /\ k * y \in Int /\ k * m \in Int
  BY <1>1
<1>5. cash0 \in Fractions /\ Over(cash0, E, x + (-k) * y) /\ Over(cash0, D, n + (-k) * m)
  <2> HIDE DEF k
  <2> QED BY <1>1, <1>2, <1>3, <1>4, OverPlus
<1>6. x + (-k) * y = c * E
  BY <1>2, <1>4
<1>7. Whole(c) \in Fractions /\ Over(Whole(c), E, c * E) /\ Over(Whole(c), D, c * D) /\ c * E \in Int /\ c * D \in Int
  BY OverWhole
<1> HIDE DEF cash0
<1>8. SameAmount(Whole(c), cash0)
  BY <1>5, <1>6, <1>7, OverSame
<1>9. n + (-k) * m \in Int
  BY <1>1, <1>4
<1>10. c * D = n + (-k) * m
  <2> HIDE DEF k
  <2> QED BY <1>5, <1>7, <1>8, <1>9, OverSame
<1> QED BY <1>4, <1>10 DEF Leaves

\* Over one denominator the gains less the costs are what the symbols brought, and so
\* what the cash has gained.
LEMMA GainsExplain == PaperInv /\ PositionsExplain => GainExplainsCash
<1> SUFFICES ASSUME PaperInv, PositionsExplain, ~overlap, Len(fills) <= FillWindow PROVE GainExplainsCash
  BY DEF GainExplainsCash
<1> DEFINE r == Realized
           o == Open
           price == [s \in Tickers |-> Position(fills, s).cost]
<1>1. fills \in Seq(Fill) /\ cash \in Int /\ startingCash \in Int /\ IsFiniteSet(Tickers)
  BY PaperAssumption DEF PaperInv, AccountTypes
<1>2. /\ \A s \in Tickers : Position(fills, s).quantity = PaperQuantity(s) /\ Explains(Position(fills, s), Brought(s))
      /\ \A s \in Tickers : Brought(s) \in Int
      /\ SumFunctionOnSet(BroughtIn, Tickers) = cash - startingCash
  BY DEF PositionsExplain
<1>3. r \in [Tickers -> Fractions] /\ price \in [Tickers -> Fractions]
  BY <1>2 DEF Explains, Realized
<1>4. PICK D \in Nat \ {0}, n \in [Tickers -> Int], m \in [Tickers -> Int] :
        \A s \in Tickers : Over(r[s], D, n[s]) /\ Over(price[s], D, m[s])
  <2> HIDE DEF r, price
  <2>1. InCommon(r, price, Tickers)
    BY <1>1, <1>3, OverAll
  <2> QED BY <2>1 DEF InCommon
<1> DEFINE w == [s \in Tickers |-> (-Position(fills, s).quantity) * m[s]]
<1>5. ASSUME NEW s \in Tickers
      PROVE  /\ o[s] \in Fractions /\ w[s] \in Int /\ Over(o[s], D, w[s])
             /\ n[s] + w[s] = BroughtIn[s] * D
  <2> DEFINE p == Position(fills, s)
             k == p.quantity
  <2>1. Explains(p, Brought(s)) /\ k \in Int /\ -k \in Int /\ p.cost \in Fractions
    BY <1>2 DEF Explains
  <2>2. r[s] = p.realized /\ price[s] = p.cost /\ n[s] \in Int /\ m[s] \in Int /\ BroughtIn[s] = Brought(s) /\ Brought(s) \in Int
    BY <1>2 DEF Realized, BroughtIn
  <2>3. o[s] = Times(-k, p.cost) /\ w[s] = (-k) * m[s]
    BY DEF Open
  <2>4. Over(p.realized, D, n[s]) /\ Over(p.cost, D, m[s])
    BY <1>4, <2>2
  <2> HIDE DEF p, k, w, o, r, price
  <2>5. o[s] \in Fractions /\ Over(o[s], D, w[s])
    BY <2>1, <2>2, <2>3, <2>4, OverTimes
  <2>6. w[s] \in Int
    BY <2>1, <2>2, <2>3
  <2>7. n[s] - k * m[s] = Brought(s) * D
    <3> DEFINE x == n[s]
               y == m[s]
               c == Brought(s)
    <3>1. p.quantity = k
      BY DEF k
    <3>2. x \in Int /\ y \in Int /\ c \in Int /\ Over(p.realized, D, x) /\ Over(p.cost, D, y) /\ Explains(p, c)
      BY <2>1, <2>2, <2>4
    <3> HIDE DEF x, y, c
    <3>3. Leaves(p, x, y, c * D)
      BY <3>2, ExplainedOver
    <3> QED BY <3>1, <3>3 DEF Leaves, x, y, c
  <2>8. n[s] + w[s] = Brought(s) * D
    <3>1. w[s] = -(k * m[s]) /\ k * m[s] \in Int
      BY <2>1, <2>2, <2>3
    <3> QED BY <2>2, <2>7, <3>1
  <2> QED BY <2>2, <2>5, <2>6, <2>8
<1>6. o \in [Tickers -> Fractions] /\ w \in [Tickers -> Int]
  <2>1. o = [s \in Tickers |-> o[s]] /\ w = [s \in Tickers |-> w[s]]
    BY DEF Open
  <2> HIDE DEF o, w
  <2> QED BY <1>5, <2>1
<1>7. <<0, 1>> \in Fractions /\ Over(<<0, 1>>, D, 0) /\ 0 \in Int
  BY DEF Fractions, Over
<1> HIDE DEF r, o, price, w
<1>8. /\ RealizedPnl \in Fractions /\ SumFunctionOnSet(n, Tickers) \in Int
      /\ Over(RealizedPnl, D, SumFunctionOnSet(n, Tickers))
  <2> DEFINE h == RealizedFold
  <2>1. AddsUp(h, r, <<0, 1>>, Tickers)
    BY <1>3, RealizedFoldAdds DEF r
  <2>2. RealizedPnl = h[Tickers]
    BY <1>1, GainFolds DEF r
  <2> HIDE DEF h
  <2>3. /\ h[Tickers] \in Fractions /\ SumFunctionOnSet(n, Tickers) \in Int
        /\ Over(h[Tickers], D, 0 + SumFunctionOnSet(n, Tickers))
    BY <1>1, <1>3, <1>4, <1>7, <2>1, SumOver
  <2> QED BY <2>2, <2>3
<1> DEFINE b == SumFunctionOnSet(n, Tickers)
           total == OpenFold(RealizedPnl)[Tickers]
<1>9. total \in Fractions /\ SumFunctionOnSet(w, Tickers) \in Int /\ Over(total, D, b + SumFunctionOnSet(w, Tickers))
  <2> DEFINE h == OpenFold(RealizedPnl)
  <2>1. AddsUp(h, o, RealizedPnl, Tickers)
    BY <1>6, <1>8, OpenFoldAdds DEF o
  <2>2. \A s \in Tickers : Over(o[s], D, w[s])
    BY <1>5
  <2>3. b \in Int /\ Over(RealizedPnl, D, b)
    BY <1>8
  <2> HIDE DEF h, b
  <2> QED BY <1>1, <1>6, <1>8, <2>1, <2>2, <2>3, SumOver DEF h
<1>10. b + SumFunctionOnSet(w, Tickers) = (cash - startingCash) * D
  <2>1. BroughtIn \in [Tickers -> Int] /\ D \in Int
    BY <1>2 DEF BroughtIn
  <2>2. \A s \in Tickers : n[s] + w[s] = BroughtIn[s] * D
    BY <1>5
  <2>3. SumFunctionOnSet(n, Tickers) + SumFunctionOnSet(w, Tickers) = SumFunctionOnSet(BroughtIn, Tickers) * D
    <3> DEFINE c == BroughtIn
    <3>1. c \in [Tickers -> Int] /\ Makes(n, w, c, D, Tickers)
      BY <2>1, <2>2 DEF Makes
    <3> HIDE DEF c
    <3>2. SumsMake(n, w, c, D, Tickers)
      BY <1>1, <1>6, <2>1, <3>1, SumsTogether
    <3> QED BY <3>2 DEF SumsMake, c
  <2> QED BY <1>2, <2>3
<1> DEFINE e == cash - startingCash
<1>11. e \in Int
  BY <1>1
<1> HIDE DEF b, total, e
<1>12. Whole(e) \in Fractions /\ Over(Whole(e), D, e * D) /\ e * D \in Int
  BY <1>11, OverWhole
<1>13. SameAmount(Whole(e), total)
  <2>1. Over(total, D, e * D)
    BY <1>9, <1>10 DEF e
  <2> QED BY <1>9, <1>12, <2>1, OverSame
<1> QED BY <1>1, <1>13, GainFolds DEF total, e, o

\* The cash is never overdrawn, and unless two clients overlap both the fills and, as long
\* as account reads them all, the realised gain less the cost of what is open explain it,
\* for every set of symbols, prices, sizes and fees: the average that _realized_pnl keeps
\* loses nothing.
THEOREM BooksAddUp == PaperSpec => []PaperBooksAddUp
<1>1. PaperInit => BooksInv /\ PositionsExplain
  <2> SUFFICES ASSUME PaperInit PROVE BooksInv /\ PositionsExplain
    OBVIOUS
  <2>1. fills = <<>> /\ cash = startingCash /\ cash \in Int
    BY PaperInitHolds DEF PaperInit, PaperInv, AccountTypes
  <2>2. (\A s : PaperQuantity(s) = 0) /\ (\A side : PaperSum(side) = 0) /\ FeeSum = 0
    BY <2>1, SumsOfNone
  <2>3. \A c \in Clients : work[c] = Nil
    BY DEF PaperInit
  <2>4. NothingFilled
    BY <2>1 DEF NothingFilled
  <2> QED BY <2>1, <2>2, <2>3, <2>4, PositionsOfNone DEF BooksInv, AloneIsSound, FillsExplainCash
<1>2. PaperInv /\ BooksInv /\ PositionsExplain => PaperBooksAddUp
  BY GainsExplain DEF PaperBooksAddUp, PaperInv, AccountTypes, BooksInv
<1> QED BY <1>1, <1>2, BooksInductive, PositionsInductive, PaperInvariance, PTL DEF PaperSpec

-----------------------------------------------------------------------------
(* MarketSignal.                                                           *)

Moments == 0..LastMoment
FetchAsk == [host : Servers, step : {"fetch"}, target : {"local", "shared"}, provider : Nat, attempt : Nat,
             since : Moments, seen : {Free}]
StoreAsk == [host : Servers, step : {"store"}, target : {"local", "shared"}, provider : Nat, attempt : Nat,
             since : Moments, seen : Moments]
FoundAsk == [host : Servers, step : {"events", "model", "called", "done"}, seen : Moments, at : Moments,
             events : {Free} \union SUBSET DOMAIN FeedItems, action : {Free, "BUY", "SELL"}]
OverAsk == [step : {"done"}, action : {"error", "HOLD", "degraded"}]
Breaker == [state : {"closed", "open", "half_open"}, failures : Nat, opened : Moments]

MarketTypes ==
  /\ moment \in Moments /\ asked \in 0..MaxAsks /\ cuts \in 0..MaxCuts /\ sharedUp \in BOOLEAN
  /\ breaker \in [Servers -> Breaker]
  /\ ask \in [Asks -> {Free} \union FetchAsk \union StoreAsk \union FoundAsk \union OverAsk]
  /\ DOMAIN local = Servers

\* What a cache holds is given out no longer than a time to live after the fetch that
\* brought it, which took no longer than FetchTime.
EntryIsFresh(entry) ==
  entry # Free => /\ entry \in [seen : Moments, until : Nat]
                  /\ entry.seen <= moment /\ entry.until <= entry.seen + FetchTime + Ttl

HasHistory(q) ==
  q # Free /\ (q.step \in {"events", "model", "called"} \/ (q.step = "done" /\ q.action \in {"BUY", "SELL"}))

\* A history is not older than its fetch, and a request that found one may use it.
IsFresh(q) ==
  q # Free =>
    /\ q.step \in {"fetch", "store"} => q.since <= moment /\ moment <= q.since + FetchTime
    /\ q.step = "store" => q.since <= q.seen /\ q.seen <= moment
    /\ HasHistory(q) => q.seen <= q.at /\ q.at <= moment /\ q.at <= q.seen + Ttl + FetchTime

\* The model is not asked where an event forbids the trade.
IsFree(q) == HasHistory(q) /\ q.step # "events" => Directive(FetchRaw(q.events)) = {}

Waiting == {k \in Asks : ask[k] # Free /\ ask[k].step # "done"}

\* A breaker has counted no request that is still under way.
FailuresAreOver == \A h \in Servers : breaker[h].failures + Cardinality(Waiting) <= asked

MarketInv ==
  /\ MarketTypes /\ FailuresAreOver
  /\ EntryIsFresh(shared) /\ \A h \in Servers : EntryIsFresh(local[h])
  /\ \A k \in Asks : IsFresh(ask[k]) /\ IsFree(ask[k])

AskTypes == ask \in [Asks -> {Free} \union FetchAsk \union StoreAsk \union FoundAsk \union OverAsk]
AsksAreSound == AskTypes /\ \A k \in Asks : IsFresh(ask[k]) /\ IsFree(ask[k])
CachesAreSound == DOMAIN local = Servers /\ EntryIsFresh(shared) /\ \A h \in Servers : EntryIsFresh(local[h])
-----------------------------------------------------------------------------
LEMMA MarketNumbers ==
  ASSUME MarketInv
  PROVE  /\ Ttl \in Nat /\ FetchTime \in Nat /\ LastMoment \in Nat /\ MaxAsks \in Nat /\ MaxCuts \in Nat
         /\ moment \in Nat /\ moment \in Moments /\ Moments \subseteq Nat /\ asked \in Nat
BY MarketAssumption DEF MarketInv, MarketTypes, Moments

LEMMA AskMoves ==
  ASSUME MarketInv, UNCHANGED moment, NEW k \in Asks,
         NEW new \in FetchAsk \union StoreAsk \union FoundAsk \union OverAsk,
         ask' = [ask EXCEPT ![k] = new], IsFresh(new), IsFree(new)
  PROVE  AsksAreSound'
<1>1. ask \in [Asks -> {Free} \union FetchAsk \union StoreAsk \union FoundAsk \union OverAsk]
  BY DEF MarketInv, MarketTypes
<1>2. AskTypes'
  BY <1>1 DEF AskTypes
<1>3. ASSUME NEW i \in Asks PROVE IsFresh(ask[i])' /\ IsFree(ask[i])'
  <2>1. ask'[i] = IF i = k THEN new ELSE ask[i]
    BY <1>1
  <2>2. IsFresh(ask'[i]) /\ IsFree(ask'[i])
    BY <2>1 DEF MarketInv
  <2> QED BY <2>2 DEF IsFresh, IsFree, HasHistory
<1> QED BY <1>2, <1>3 DEF AsksAreSound

LEMMA AsksStay ==
  ASSUME MarketInv, UNCHANGED <<moment, ask>>
  PROVE  AsksAreSound'
BY DEF MarketInv, MarketTypes, AsksAreSound, AskTypes, IsFresh, IsFree, HasHistory

LEMMA CachesStay ==
  ASSUME MarketInv, UNCHANGED <<moment, shared, local>>
  PROVE  CachesAreSound'
BY DEF MarketInv, MarketTypes, CachesAreSound, EntryIsFresh

LEMMA WaitingIsFinite == IsFiniteSet(Waiting) /\ Cardinality(Waiting) \in Nat
<1>1. Waiting \subseteq Asks /\ IsFiniteSet(Asks)
  BY MarketAssumption DEF Waiting
<1> QED BY <1>1, FS_Subset, FS_CardinalityType

LEMMA FailuresStay ==
  ASSUME MarketInv, breaker' \in [Servers -> Breaker], asked' = asked, Waiting' \subseteq Waiting,
         \A h \in Servers : breaker'[h].failures <= breaker[h].failures
  PROVE  FailuresAreOver'
<1>1. Cardinality(Waiting') <= Cardinality(Waiting) /\ Cardinality(Waiting') \in Nat /\ Cardinality(Waiting) \in Nat
  <2>1. IsFiniteSet(Waiting)
    BY WaitingIsFinite
  <2>2. IsFiniteSet(Waiting') /\ Cardinality(Waiting') <= Cardinality(Waiting)
    BY <2>1, FS_Subset
  <2> QED BY <2>1, <2>2, FS_CardinalityType
<1>2. SUFFICES ASSUME NEW h \in Servers
               PROVE  breaker'[h].failures + Cardinality(Waiting') <= asked
  BY DEF FailuresAreOver
<1>3. breaker'[h].failures \in Nat /\ breaker[h].failures \in Nat /\ asked \in Nat
  BY MarketNumbers DEF MarketInv, MarketTypes, Breaker
<1>4. breaker[h].failures + Cardinality(Waiting) <= asked /\ breaker'[h].failures <= breaker[h].failures
  BY DEF MarketInv, FailuresAreOver
<1> QED BY <1>1, <1>3, <1>4

\* A request that goes on is waited for as before.
LEMMA StillWaiting ==
  ASSUME MarketInv, NEW k \in Asks, NEW new, ask' = [ask EXCEPT ![k] = new], k \in Waiting
  PROVE  Waiting' \subseteq Waiting
BY DEF MarketInv, MarketTypes, Waiting

LEMMA FoundIsSound ==
  ASSUME MarketInv, NEW h \in Servers, NEW at \in Moments,
         at <= moment, moment <= at + Ttl + FetchTime
  PROVE  Found(h, at) \in FoundAsk /\ IsFresh(Found(h, at)) /\ IsFree(Found(h, at))
<1>1. moment \in Moments /\ moment <= moment
  BY MarketNumbers
<1>2. Found(h, at) \in FoundAsk
  BY <1>1 DEF Found, FoundAsk
<1>3. Found(h, at).step = "events" /\ Found(h, at).seen = at /\ Found(h, at).at = moment
  BY DEF Found
<1>4. IsFresh(Found(h, at))
  BY <1>1, <1>3 DEF IsFresh
<1>5. IsFree(Found(h, at))
  BY <1>3 DEF IsFree
<1> QED BY <1>2, <1>4, <1>5

LEMMA FetchingIsSound ==
  ASSUME MarketInv, NEW h \in Servers, NEW target \in {"local", "shared"}
  PROVE  Fetching(h, target) \in FetchAsk /\ IsFresh(Fetching(h, target)) /\ IsFree(Fetching(h, target))
<1>1. moment \in Moments /\ moment <= moment /\ moment <= moment + FetchTime
  BY MarketNumbers
<1>2. Fetching(h, target) \in FetchAsk
  BY <1>1 DEF Fetching, FetchAsk
<1>3. Fetching(h, target).step = "fetch" /\ Fetching(h, target).since = moment
  BY DEF Fetching
<1>4. IsFresh(Fetching(h, target))
  BY <1>1, <1>3 DEF IsFresh, HasHistory
<1>5. IsFree(Fetching(h, target))
  BY <1>3 DEF IsFree, HasHistory
<1> QED BY <1>2, <1>4, <1>5

\* A request that is over without a trade asks nothing of its history.
LEMMA OverIsSound ==
  ASSUME NEW q, NEW action \in {"error", "HOLD", "degraded"}
  PROVE  Done(q, action) \in OverAsk /\ IsFresh(Done(q, action)) /\ IsFree(Done(q, action))
<1>1. Done(q, action) = [step |-> "done", action |-> action]
  BY DEF Done
<1>2. Done(q, action) \in OverAsk
  BY <1>1 DEF OverAsk
<1>3. Done(q, action).step = "done" /\ Done(q, action).action = action
  BY <1>1
<1>4. ~HasHistory(Done(q, action))
  BY <1>3 DEF HasHistory
<1> QED BY <1>2, <1>3, <1>4 DEF IsFresh, IsFree

LEMMA HitIsFresh ==
  ASSUME MarketInv, NEW entry, EntryIsFresh(entry), Hit(entry)
  PROVE  entry.seen \in Moments /\ entry.seen <= moment /\ moment <= entry.seen + Ttl + FetchTime
<1>1. /\ entry.seen \in Moments /\ entry.until \in Nat /\ entry.until >= moment
      /\ entry.seen <= moment /\ entry.until <= entry.seen + FetchTime + Ttl
  BY DEF Hit, EntryIsFresh
<1>2. entry.seen \in Nat
  BY <1>1, MarketNumbers
<1> QED BY <1>1, <1>2, MarketNumbers

LEMMA LookLocallyKeeps ==
  ASSUME MarketInv, NEW k \in Asks, NEW h \in Servers, LookLocally(k, h), UNCHANGED <<moment, shared>>
  PROVE  AsksAreSound' /\ CachesAreSound'
<1>1. DOMAIN local = Servers /\ EntryIsFresh(local[h])
  BY DEF MarketInv, MarketTypes
<1>2. CASE Hit(local[h])
  <2>1. ask' = [ask EXCEPT ![k] = Found(h, local[h].seen)] /\ local' = [local EXCEPT ![h] = AfterHit(@)]
    BY <1>2 DEF LookLocally
  <2>2. AsksAreSound'
    <3> DEFINE new == Found(h, local[h].seen)
    <3>1. new \in FoundAsk /\ IsFresh(new) /\ IsFree(new)
      BY <1>1, <1>2, HitIsFresh, FoundIsSound
    <3> HIDE DEF new
    <3>2. ask' = [ask EXCEPT ![k] = new]
      BY <2>1 DEF new
    <3> QED BY <3>1, <3>2, AskMoves
  <2>3. DOMAIN local' = Servers /\ \A g \in Servers : local'[g] = local[g]
    BY <1>1, <2>1 DEF AfterHit
  <2>4. CachesAreSound'
    BY <2>3 DEF MarketInv, CachesAreSound, EntryIsFresh
  <2> QED BY <2>2, <2>4
<1>3. CASE ~Hit(local[h])
  <2>1. ask' = [ask EXCEPT ![k] = Fetching(h, "local")] /\ UNCHANGED local
    BY <1>3 DEF LookLocally
  <2>2. AsksAreSound'
    <3> DEFINE new == Fetching(h, "local")
    <3>1. new \in FetchAsk /\ IsFresh(new) /\ IsFree(new)
      BY FetchingIsSound
    <3> HIDE DEF new
    <3>2. ask' = [ask EXCEPT ![k] = new]
      BY <2>1 DEF new
    <3> QED BY <3>1, <3>2, AskMoves
  <2> QED BY <2>1, <2>2, CachesStay
<1> QED BY <1>2, <1>3

\* What a step leaves that touches no breaker and no count of requests.
FrameFor == UNCHANGED <<moment, sharedUp, cuts, breaker, asked>>

LEMMA FramedStep ==
  ASSUME MarketInv, FrameFor, AsksAreSound', CachesAreSound', Waiting' \subseteq Waiting
  PROVE  MarketInv'
<1>1. UNCHANGED <<moment, sharedUp, cuts, breaker, asked>>
  BY DEF FrameFor
<1>2. MarketTypes'
  BY <1>1 DEF MarketInv, MarketTypes, AsksAreSound, AskTypes, CachesAreSound
<1>3. FailuresAreOver'
  <2>1. breaker' \in [Servers -> Breaker] /\ breaker' = breaker
    BY <1>1 DEF MarketInv, MarketTypes
  <2>2. \A h \in Servers : breaker'[h].failures <= breaker[h].failures
    BY <2>1 DEF Breaker
  <2> QED BY <1>1, <2>1, <2>2, FailuresStay
<1> QED BY <1>2, <1>3 DEF MarketInv, AsksAreSound, CachesAreSound

LEMMA AskSignalKeeps ==
  ASSUME MarketInv, NEW k \in Asks, NEW h \in Servers, AskSignal(k, h)
  PROVE  MarketInv'
<1>1. asked < MaxAsks /\ asked' = asked + 1 /\ UNCHANGED <<moment, sharedUp, cuts, breaker>>
  BY DEF AskSignal
<1>2. AsksAreSound' /\ CachesAreSound'
  <2>1. CASE ~sharedUp
    BY <1>1, <2>1, LookLocallyKeeps DEF AskSignal
  <2>2. CASE sharedUp /\ Hit(shared)
    <3> DEFINE new == Found(h, shared.seen)
    <3>1. ask' = [ask EXCEPT ![k] = new] /\ shared' = shared /\ UNCHANGED local
      BY <2>2 DEF AskSignal, AfterHit
    <3>2. new \in FoundAsk /\ IsFresh(new) /\ IsFree(new)
      BY <2>2, HitIsFresh, FoundIsSound DEF MarketInv
    <3> HIDE DEF new
    <3> QED BY <1>1, <3>1, <3>2, AskMoves, CachesStay
  <2>3. CASE sharedUp /\ ~Hit(shared)
    <3> DEFINE new == Fetching(h, "shared")
    <3>1. ask' = [ask EXCEPT ![k] = new] /\ UNCHANGED <<shared, local>>
      BY <2>3 DEF AskSignal
    <3>2. new \in FetchAsk /\ IsFresh(new) /\ IsFree(new)
      BY FetchingIsSound
    <3> HIDE DEF new
    <3> QED BY <1>1, <3>1, <3>2, AskMoves, CachesStay
  <2> QED BY <2>1, <2>2, <2>3
<1>3. asked' \in 0..MaxAsks
  BY <1>1, MarketNumbers
<1>4. MarketTypes'
  BY <1>1, <1>2, <1>3 DEF MarketInv, MarketTypes, AsksAreSound, AskTypes, CachesAreSound
<1>5. FailuresAreOver'
  <2>1. Waiting' \subseteq Waiting \union {k}
    <3>1. \A i \in Asks : i # k => ask'[i] = ask[i]
      <4>1. \E new : ask' = [ask EXCEPT ![k] = new]
        BY DEF AskSignal, LookLocally
      <4> QED BY <4>1 DEF MarketInv, MarketTypes
    <3> QED BY <3>1 DEF Waiting
  <2>2. Cardinality(Waiting') <= Cardinality(Waiting) + 1 /\ Cardinality(Waiting') \in Nat /\ Cardinality(Waiting) \in Nat
    <3>1. IsFiniteSet(Waiting) /\ Cardinality(Waiting) \in Nat
      BY WaitingIsFinite
    <3>2. IsFiniteSet(Waiting \union {k}) /\ Cardinality(Waiting \union {k}) <= Cardinality(Waiting) + 1
          /\ Cardinality(Waiting \union {k}) \in Nat
      <4>1. IsFiniteSet(Waiting \union {k})
            /\ Cardinality(Waiting \union {k}) = IF k \in Waiting THEN Cardinality(Waiting) ELSE Cardinality(Waiting) + 1
        BY <3>1, FS_AddElement
      <4> QED BY <3>1, <4>1
    <3>3. IsFiniteSet(Waiting') /\ Cardinality(Waiting') <= Cardinality(Waiting \union {k})
      BY <2>1, <3>2, FS_Subset
    <3>4. Cardinality(Waiting') \in Nat
      BY <3>3, FS_CardinalityType
    <3> QED BY <3>1, <3>2, <3>3, <3>4
  <2> SUFFICES ASSUME NEW g \in Servers
               PROVE  breaker'[g].failures + Cardinality(Waiting') <= asked'
    BY DEF FailuresAreOver
  <2>3. breaker[g].failures \in Nat /\ breaker[g].failures + Cardinality(Waiting) <= asked
    BY DEF MarketInv, MarketTypes, Breaker, FailuresAreOver
  <2> QED BY <1>1, <2>2, <2>3, MarketNumbers
<1> QED BY <1>2, <1>4, <1>5 DEF MarketInv, AsksAreSound, CachesAreSound

LEMMA AskingOne ==
  ASSUME MarketInv, NEW k \in Asks
  PROVE  /\ Asking(k, "fetch") => ask[k] \in FetchAsk /\ k \in Waiting
         /\ Asking(k, "store") => ask[k] \in StoreAsk /\ k \in Waiting
         /\ \A step \in {"events", "model", "called"} :
              Asking(k, step) => ask[k] \in FoundAsk /\ k \in Waiting /\ HasHistory(ask[k])
<1>1. ask[k] \in {Free} \union FetchAsk \union StoreAsk \union FoundAsk \union OverAsk
  BY DEF MarketInv, MarketTypes
<1>2. CASE ask[k] = Free
  BY <1>2 DEF Asking
<1>3. CASE ask[k] \in FetchAsk
  BY <1>3 DEF Asking, Waiting, FetchAsk
<1>4. CASE ask[k] \in StoreAsk
  BY <1>4 DEF Asking, Waiting, StoreAsk
<1>5. CASE ask[k] \in FoundAsk
  BY <1>5 DEF Asking, Waiting, FoundAsk, HasHistory
<1>6. CASE ask[k] \in OverAsk
  BY <1>6 DEF Asking, OverAsk
<1> QED BY <1>1, <1>2, <1>3, <1>4, <1>5, <1>6

LEMMA AttemptKeeps ==
  ASSUME MarketInv, NEW k \in Asks, NEW outcome \in {"ok", "http", "nodata"}, Attempt(k, outcome)
  PROVE  MarketInv'
<1> DEFINE q == ask[k]
           retried == outcome = "http" /\ q.attempt < Attempts[q.provider]
           new == IF outcome = "ok" THEN [q EXCEPT !.step = "store", !.seen = moment]
                  ELSE IF retried THEN [q EXCEPT !.attempt = @ + 1]
                  ELSE IF q.provider < Len(Attempts) THEN [q EXCEPT !.provider = @ + 1, !.attempt = 1]
                  ELSE Done(q, "error")
<1>1. /\ Asking(k, "fetch") /\ ask' = [ask EXCEPT ![k] = new]
      /\ UNCHANGED <<moment, shared, local, sharedUp, cuts, breaker, asked>>
  BY DEF Attempt
<1>2. q \in FetchAsk /\ k \in Waiting /\ q.since <= moment /\ moment <= q.since + FetchTime
  <2>1. q \in FetchAsk /\ k \in Waiting
    BY <1>1, AskingOne
  <2>2. q # Free /\ q.step = "fetch"
    BY <1>1 DEF Asking
  <2> QED BY <2>1, <2>2 DEF MarketInv, IsFresh
<1>3. moment \in Moments /\ moment <= moment
  BY MarketNumbers
<1>4. new \in FetchAsk \union StoreAsk \union OverAsk /\ IsFresh(new) /\ IsFree(new)
  <2>1. CASE outcome = "ok"
    <3>1. new = [q EXCEPT !.step = "store", !.seen = moment]
      BY <2>1
    <3>2. new \in StoreAsk /\ new.step = "store" /\ new.seen = moment /\ new.since = q.since
      BY <1>2, <1>3, <3>1 DEF FetchAsk, StoreAsk
    <3>3. ~HasHistory(new)
      BY <3>2 DEF HasHistory
    <3> QED BY <1>2, <1>3, <3>2, <3>3 DEF IsFresh, IsFree
  <2>2. CASE outcome # "ok" /\ (retried \/ q.provider < Len(Attempts))
    <3>1. new = [q EXCEPT !.attempt = @ + 1] \/ new = [q EXCEPT !.provider = @ + 1, !.attempt = 1]
      BY <2>2
    <3>2. new \in FetchAsk /\ new.step = "fetch" /\ new.since = q.since
      <4>1. q.attempt + 1 \in Nat /\ q.provider + 1 \in Nat
        BY <1>2 DEF FetchAsk
      <4>2. [q EXCEPT !.attempt = @ + 1] \in FetchAsk /\ [q EXCEPT !.provider = @ + 1, !.attempt = 1] \in FetchAsk
        BY <1>2, <4>1 DEF FetchAsk
      <4>3. new \in FetchAsk
        BY <3>1, <4>2
      <4>4. new.since = q.since
        BY <1>2, <3>1 DEF FetchAsk
      <4> QED BY <4>3, <4>4 DEF FetchAsk
    <3>3. ~HasHistory(new)
      BY <3>2 DEF HasHistory
    <3> QED BY <1>2, <3>2, <3>3 DEF IsFresh, IsFree
  <2>3. CASE outcome # "ok" /\ ~retried /\ ~(q.provider < Len(Attempts))
    <3>1. new = Done(q, "error")
      BY <2>3
    <3> QED BY <3>1, OverIsSound
  <2> QED BY <2>1, <2>2, <2>3
<1> HIDE DEF new
<1>5. Waiting' \subseteq Waiting
  BY <1>1, <1>2, StillWaiting
<1> QED BY <1>1, <1>4, <1>5, AskMoves, CachesStay, FramedStep DEF FrameFor

LEMMA StoreKeeps ==
  ASSUME MarketInv, NEW k \in Asks, Store(k)
  PROVE  MarketInv'
<1> DEFINE q == ask[k]
<1>1. Asking(k, "store") /\ UNCHANGED <<moment, sharedUp, cuts, breaker, asked>>
  BY DEF Store
<1>2. /\ q \in StoreAsk /\ k \in Waiting /\ q.host \in Servers /\ q.target \in {"local", "shared"}
      /\ q.seen \in Moments /\ q.since \in Moments
  <2>1. q \in StoreAsk /\ k \in Waiting
    BY <1>1, AskingOne
  <2> QED BY <2>1 DEF StoreAsk
<1>3. q.since <= q.seen /\ q.seen <= moment /\ moment <= q.since + FetchTime
  <2>1. q # Free /\ q.step = "store"
    BY <1>1 DEF Asking
  <2> QED BY <2>1 DEF MarketInv, IsFresh
<1>4. q.seen \in Nat /\ q.since \in Nat
  BY <1>2, MarketNumbers
<1>5. moment <= q.seen + Ttl + FetchTime
  BY <1>3, <1>4, MarketNumbers
<1>6. EntryIsFresh(Entry(q.seen))
  <2>1. moment + Ttl \in Nat /\ moment + Ttl <= q.seen + FetchTime + Ttl
    BY <1>3, <1>4, MarketNumbers
  <2>2. Entry(q.seen) = [seen |-> q.seen, until |-> moment + Ttl]
    BY DEF Entry
  <2> QED BY <1>2, <1>3, <2>1, <2>2 DEF EntryIsFresh
<1> DEFINE found == Found(q.host, q.seen)
           entry == Entry(q.seen)
<1>7. found \in FoundAsk /\ IsFresh(found) /\ IsFree(found)
  BY <1>2, <1>3, <1>5, FoundIsSound
<1> HIDE DEF found, entry
<1>8. \/ local' = [local EXCEPT ![q.host] = entry] /\ ask' = [ask EXCEPT ![k] = found] /\ shared' = shared
      \/ shared' = entry /\ ask' = [ask EXCEPT ![k] = found] /\ local' = local
      \/ LookLocally(k, q.host) /\ shared' = shared
  BY DEF Store, found, entry
<1> HIDE DEF q
<1>9. AsksAreSound' /\ CachesAreSound'
  <2>1. CASE local' = [local EXCEPT ![q.host] = entry] /\ ask' = [ask EXCEPT ![k] = found] /\ shared' = shared
    <3>1. DOMAIN local' = Servers /\ \A g \in Servers : local'[g] = local[g] \/ local'[g] = entry
      BY <1>2, <2>1 DEF MarketInv, MarketTypes
    <3>2. CachesAreSound'
      BY <1>1, <1>6, <2>1, <3>1 DEF MarketInv, CachesAreSound, EntryIsFresh, entry
    <3> QED BY <1>1, <1>7, <2>1, <3>2, AskMoves
  <2>2. CASE shared' = entry /\ ask' = [ask EXCEPT ![k] = found] /\ local' = local
    <3>1. CachesAreSound'
      BY <1>1, <1>6, <2>2 DEF MarketInv, MarketTypes, CachesAreSound, EntryIsFresh, entry
    <3> QED BY <1>1, <1>7, <2>2, <3>1, AskMoves
  <2>3. CASE LookLocally(k, q.host) /\ shared' = shared
    BY <1>1, <1>2, <2>3, LookLocallyKeeps
  <2> QED BY <1>8, <2>1, <2>2, <2>3
<1>10. Waiting' \subseteq Waiting
  <2>1. \E new : ask' = [ask EXCEPT ![k] = new]
    BY <1>8 DEF LookLocally
  <2> QED BY <1>2, <2>1, StillWaiting
<1> QED BY <1>1, <1>9, <1>10, FramedStep DEF FrameFor

LEMMA ReadEventsKeeps ==
  ASSUME MarketInv, NEW k \in Asks, NEW answering \in SUBSET DOMAIN FeedItems, ReadEvents(k, answering)
  PROVE  MarketInv'
<1> DEFINE q == [ask[k] EXCEPT !.events = answering]
           forbidden == Directive(FetchRaw(answering)) # {}
           new == IF forbidden THEN Done(q, "HOLD") ELSE [q EXCEPT !.step = "model"]
<1>1. /\ Asking(k, "events") /\ ask' = [ask EXCEPT ![k] = new]
      /\ UNCHANGED <<moment, shared, local, sharedUp, cuts, breaker, asked>>
  BY DEF ReadEvents
<1>2. ask[k] \in FoundAsk /\ k \in Waiting /\ HasHistory(ask[k])
  BY <1>1, AskingOne
<1>3. ask[k].seen <= ask[k].at /\ ask[k].at <= moment /\ ask[k].at <= ask[k].seen + Ttl + FetchTime
  BY <1>2 DEF MarketInv, IsFresh, HasHistory
<1>4. new \in FoundAsk \union OverAsk /\ IsFresh(new) /\ IsFree(new)
  <2>1. CASE forbidden
    BY <2>1, OverIsSound
  <2>2. CASE ~forbidden
    <3>1. new = [q EXCEPT !.step = "model"]
      BY <2>2
    <3>2. /\ new \in FoundAsk /\ new.step = "model" /\ new.events = answering
          /\ new.seen = ask[k].seen /\ new.at = ask[k].at
      BY <1>2, <3>1 DEF FoundAsk
    <3> HIDE DEF new, q
    <3>3. IsFresh(new)
      BY <1>3, <3>2 DEF IsFresh
    <3>4. IsFree(new)
      BY <2>2, <3>2 DEF IsFree
    <3> QED BY <3>2, <3>3, <3>4
  <2> QED BY <2>1, <2>2
<1> HIDE DEF new
<1>5. Waiting' \subseteq Waiting
  BY <1>1, <1>2, StillWaiting
<1> QED BY <1>1, <1>4, <1>5, AskMoves, CachesStay, FramedStep DEF FrameFor

LEMMA CallModelKeeps ==
  ASSUME MarketInv, NEW k \in Asks, CallModel(k)
  PROVE  MarketInv'
<1> DEFINE h == ask[k].host
           b == Settled(breaker[h])
           new == IF b.state = "open" THEN Done(ask[k], "degraded") ELSE [ask[k] EXCEPT !.step = "called"]
<1>1. /\ Asking(k, "model") /\ breaker' = [breaker EXCEPT ![h] = b] /\ ask' = [ask EXCEPT ![k] = new]
      /\ UNCHANGED <<moment, shared, local, sharedUp, cuts, asked>>
  BY DEF CallModel, MarketInv, MarketTypes
<1>2. ask[k] \in FoundAsk /\ k \in Waiting /\ HasHistory(ask[k]) /\ ask[k].step = "model"
  BY <1>1, AskingOne DEF Asking
<1>3. /\ ask[k].seen <= ask[k].at /\ ask[k].at <= moment /\ ask[k].at <= ask[k].seen + Ttl + FetchTime
      /\ Directive(FetchRaw(ask[k].events)) = {}
  BY <1>2 DEF MarketInv, IsFresh, IsFree, HasHistory
<1>4. new \in FoundAsk \union OverAsk /\ IsFresh(new) /\ IsFree(new)
  <2>1. CASE b.state = "open"
    BY <2>1, OverIsSound
  <2>2. CASE b.state # "open"
    <3>1. new = [ask[k] EXCEPT !.step = "called"]
      BY <2>2
    <3>2. /\ new \in FoundAsk /\ new.step = "called" /\ new.events = ask[k].events
          /\ new.seen = ask[k].seen /\ new.at = ask[k].at
      BY <1>2, <3>1 DEF FoundAsk
    <3> HIDE DEF new
    <3>3. IsFresh(new)
      BY <1>3, <3>2 DEF IsFresh
    <3>4. IsFree(new)
      BY <1>3, <3>2 DEF IsFree
    <3> QED BY <3>2, <3>3, <3>4
  <2> QED BY <2>1, <2>2
<1> HIDE DEF new
<1>5. h \in Servers /\ breaker \in [Servers -> Breaker]
  BY <1>2 DEF FoundAsk, MarketInv, MarketTypes
<1>6. b \in Breaker /\ b.failures = breaker[h].failures
  BY <1>5 DEF Settled, Breaker
<1> HIDE DEF b, h
<1>7. breaker' \in [Servers -> Breaker] /\ \A g \in Servers : breaker'[g].failures = breaker[g].failures
  BY <1>1, <1>5, <1>6
<1>8. AsksAreSound' /\ CachesAreSound'
  BY <1>1, <1>4, AskMoves, CachesStay
<1>9. FailuresAreOver'
  <2>1. Waiting' \subseteq Waiting
    BY <1>1, <1>2, StillWaiting
  <2>2. \A g \in Servers : breaker'[g].failures <= breaker[g].failures
    BY <1>5, <1>7 DEF Breaker
  <2> QED BY <1>1, <1>7, <2>1, <2>2, FailuresStay
<1>10. MarketTypes'
  BY <1>1, <1>7, <1>8 DEF MarketInv, MarketTypes, AsksAreSound, AskTypes, CachesAreSound
<1> QED BY <1>8, <1>9, <1>10 DEF MarketInv, AsksAreSound, CachesAreSound

LEMMA SucceededBreaker ==
  ASSUME NEW b \in Breaker
  PROVE  Succeeded(b) \in Breaker /\ Succeeded(b).failures = 0
BY DEF Succeeded, Breaker

LEMMA FailedBreaker ==
  ASSUME NEW b \in Breaker, moment \in Moments
  PROVE  Failed(b) \in Breaker /\ Failed(b).failures <= b.failures + 1
<1>1. b.failures \in Nat /\ b.state \in {"closed", "open", "half_open"} /\ b.opened \in Moments
  BY DEF Breaker
<1> QED BY <1>1 DEF Failed, Breaker

LEMMA ModelAnswersKeeps ==
  ASSUME MarketInv, NEW k \in Asks, NEW answer \in {"BUY", "invalid", "failure"}, ModelAnswers(k, answer)
  PROVE  MarketInv'
<1> DEFINE h == ask[k].host
           b == IF answer = "failure" THEN Failed(breaker[h]) ELSE Succeeded(breaker[h])
           new == Done(ask[k], IF answer \in {"failure", "invalid"} THEN "degraded" ELSE answer)
<1>1. /\ Asking(k, "called") /\ ask' = [ask EXCEPT ![k] = new]
      /\ UNCHANGED <<moment, shared, local, sharedUp, cuts, asked>>
  BY DEF ModelAnswers, MarketInv, MarketTypes
<1>2. ask[k] \in FoundAsk /\ k \in Waiting /\ HasHistory(ask[k]) /\ ask[k].step = "called"
  BY <1>1, AskingOne DEF Asking
<1>3. /\ ask[k].seen <= ask[k].at /\ ask[k].at <= moment /\ ask[k].at <= ask[k].seen + Ttl + FetchTime
      /\ Directive(FetchRaw(ask[k].events)) = {}
  BY <1>2 DEF MarketInv, IsFresh, IsFree, HasHistory
<1>4. new \in FoundAsk \union OverAsk /\ IsFresh(new) /\ IsFree(new) /\ new.step = "done"
  <2>1. CASE answer \in {"failure", "invalid"}
    <3>1. new = Done(ask[k], "degraded")
      BY <2>1
    <3>2. new.step = "done"
      BY <3>1 DEF Done
    <3> QED BY <3>1, <3>2, OverIsSound
  <2>2. CASE answer = "BUY"
    <3>1. new = [ask[k] EXCEPT !.step = "done", !.action = "BUY"]
      BY <2>2 DEF Done
    <3>2. /\ new \in FoundAsk /\ new.step = "done" /\ new.events = ask[k].events
          /\ new.seen = ask[k].seen /\ new.at = ask[k].at
      BY <1>2, <3>1 DEF FoundAsk
    <3> HIDE DEF new
    <3>3. IsFresh(new)
      BY <1>3, <3>2 DEF IsFresh
    <3>4. IsFree(new)
      BY <1>3, <3>2 DEF IsFree
    <3> QED BY <3>2, <3>3, <3>4
  <2> QED BY <2>1, <2>2
<1> HIDE DEF new
<1>5. h \in Servers /\ breaker \in [Servers -> Breaker] /\ breaker[h] \in Breaker /\ moment \in Moments
  BY <1>2, MarketNumbers DEF FoundAsk, MarketInv, MarketTypes
<1>6. breaker' = [breaker EXCEPT ![h] = b]
  BY <1>5 DEF ModelAnswers
<1>7. b \in Breaker /\ b.failures <= breaker[h].failures + 1
  <2>1. CASE answer = "failure"
    <3>1. b = Failed(breaker[h])
      BY <2>1
    <3> QED BY <1>5, <3>1, FailedBreaker
  <2>2. CASE answer # "failure"
    <3>1. b = Succeeded(breaker[h])
      BY <2>2
    <3>2. b \in Breaker /\ b.failures = 0
      BY <1>5, <3>1, SucceededBreaker
    <3>3. breaker[h].failures \in Nat
      BY <1>5 DEF Breaker
    <3> QED BY <3>2, <3>3
  <2> QED BY <2>1, <2>2
<1> HIDE DEF b, h
<1>8. /\ breaker' \in [Servers -> Breaker]
      /\ \A g \in Servers : breaker'[g].failures <= breaker[g].failures + 1
  <2>1. breaker' \in [Servers -> Breaker]
    BY <1>5, <1>6, <1>7
  <2>2. ASSUME NEW g \in Servers PROVE breaker'[g].failures <= breaker[g].failures + 1
    <3>1. breaker[g].failures \in Nat
      BY <1>5 DEF Breaker
    <3> QED BY <1>5, <1>6, <1>7, <3>1
  <2> QED BY <2>1, <2>2
<1>9. AsksAreSound' /\ CachesAreSound'
  BY <1>1, <1>4, AskMoves, CachesStay
<1>10. FailuresAreOver'
  <2>1. Waiting' = Waiting \ {k}
    BY <1>1, <1>4 DEF Waiting, MarketInv, MarketTypes
  <2>2. IsFiniteSet(Waiting) /\ Cardinality(Waiting) \in Nat
    BY WaitingIsFinite
  <2>3. Cardinality(Waiting') = Cardinality(Waiting) - 1
    BY <1>2, <2>1, <2>2, FS_RemoveElement
  <2> SUFFICES ASSUME NEW g \in Servers
               PROVE  breaker'[g].failures + Cardinality(Waiting') <= asked'
    BY DEF FailuresAreOver
  <2>4. breaker[g].failures \in Nat /\ breaker[g].failures + Cardinality(Waiting) <= asked
    BY DEF MarketInv, MarketTypes, Breaker, FailuresAreOver
  <2>5. breaker'[g].failures <= breaker[g].failures + 1 /\ breaker'[g].failures \in Nat
    BY <1>8 DEF Breaker
  <2> QED BY <1>1, <2>2, <2>3, <2>4, <2>5, MarketNumbers
<1>11. MarketTypes'
  BY <1>1, <1>8, <1>9 DEF MarketInv, MarketTypes, AsksAreSound, AskTypes, CachesAreSound
<1> QED BY <1>9, <1>10, <1>11 DEF MarketInv, AsksAreSound, CachesAreSound

LEMMA NextMomentKeeps ==
  ASSUME MarketInv, NextMoment
  PROVE  MarketInv'
<1>1. /\ moment < LastMoment /\ moment' = moment + 1
      /\ \A k \in Asks : Asking(k, "fetch") \/ Asking(k, "store") => moment < ask[k].since + FetchTime
      /\ UNCHANGED <<shared, local, sharedUp, cuts, breaker, ask, asked>>
  BY DEF NextMoment
<1>2. moment' \in Moments /\ moment' \in Nat /\ moment \in Nat
  BY <1>1, MarketNumbers DEF Moments
<1>3. MarketTypes' /\ FailuresAreOver'
  <2>1. MarketTypes'
    BY <1>1, <1>2 DEF MarketInv, MarketTypes
  <2>2. Waiting' = Waiting
    BY <1>1 DEF Waiting
  <2> QED BY <1>1, <2>1, <2>2 DEF MarketInv, FailuresAreOver
<1>4. ASSUME NEW entry, EntryIsFresh(entry) PROVE EntryIsFresh(entry)'
  <2> SUFFICES ASSUME entry # Free
               PROVE  entry \in [seen : Moments, until : Nat] /\ entry.seen <= moment' /\ entry.until <= entry.seen + FetchTime + Ttl
    BY DEF EntryIsFresh
  <2>1. entry \in [seen : Moments, until : Nat] /\ entry.seen <= moment /\ entry.until <= entry.seen + FetchTime + Ttl
    BY <1>4 DEF EntryIsFresh
  <2>2. entry.seen \in Nat
    BY <2>1, MarketNumbers
  <2> QED BY <1>1, <1>2, <2>1, <2>2
<1>5. EntryIsFresh(shared)' /\ \A h \in Servers : EntryIsFresh(local[h])'
  <2>1. EntryIsFresh(shared) /\ \A h \in Servers : EntryIsFresh(local[h])
    BY DEF MarketInv
  <2> QED BY <1>1, <1>4, <2>1 DEF EntryIsFresh
<1>6. ASSUME NEW k \in Asks PROVE IsFresh(ask[k])' /\ IsFree(ask[k])'
  <2> DEFINE q == ask[k]
  <2>1. ask'[k] = q /\ IsFresh(q) /\ IsFree(q)
    BY <1>1 DEF MarketInv
  <2>2. q # Free /\ q.step \in {"fetch", "store"} => moment < q.since + FetchTime /\ q.since \in Nat
    <3> SUFFICES ASSUME q # Free, q.step \in {"fetch", "store"} PROVE moment < q.since + FetchTime /\ q.since \in Nat
      OBVIOUS
    <3>1. Asking(k, "fetch") \/ Asking(k, "store")
      BY DEF Asking
    <3>2. q \in FetchAsk \/ q \in StoreAsk
      BY <3>1, AskingOne
    <3> QED BY <1>1, <3>1, <3>2, MarketNumbers DEF FetchAsk, StoreAsk
  <2>3. q # Free /\ q.step = "store" => q.seen \in Nat
    <3> SUFFICES ASSUME q # Free, q.step = "store" PROVE q.seen \in Nat
      OBVIOUS
    <3>1. q \in StoreAsk
      BY AskingOne DEF Asking
    <3> QED BY <3>1, MarketNumbers DEF StoreAsk
  <2>4. HasHistory(q) => q.at \in Nat
    <3> SUFFICES ASSUME HasHistory(q) PROVE q.at \in Nat
      OBVIOUS
    <3>1. q \in FoundAsk
      BY DEF HasHistory, MarketInv, MarketTypes, FetchAsk, StoreAsk, FoundAsk, OverAsk
    <3> QED BY <3>1, MarketNumbers DEF FoundAsk
  <2> HIDE DEF q
  <2>5. q # Free /\ q.step \in {"fetch", "store"} => q.since <= moment' /\ moment' <= q.since + FetchTime
    BY <1>1, <1>2, <2>1, <2>2, MarketNumbers DEF IsFresh
  <2>6. q # Free /\ q.step = "store" => q.since <= q.seen /\ q.seen <= moment'
    BY <1>1, <1>2, <2>1, <2>3 DEF IsFresh
  <2>7. HasHistory(q) => q.seen <= q.at /\ q.at <= moment' /\ q.at <= q.seen + Ttl + FetchTime
    BY <1>1, <1>2, <2>1, <2>4 DEF IsFresh, HasHistory
  <2>8. IsFresh(ask[k])'
    BY <2>1, <2>5, <2>6, <2>7 DEF IsFresh, HasHistory
  <2>9. IsFree(ask[k])'
    BY <2>1 DEF IsFree, HasHistory
  <2> QED BY <2>8, <2>9
<1> QED BY <1>3, <1>5, <1>6 DEF MarketInv

LEMMA CutOrRestoreKeeps ==
  ASSUME MarketInv, CutOrRestore
  PROVE  MarketInv'
<1>1. sharedUp' = ~sharedUp /\ UNCHANGED <<moment, shared, local, breaker, ask, asked>>
  BY DEF CutOrRestore
<1>2. cuts' \in 0..MaxCuts
  BY MarketNumbers DEF CutOrRestore, MarketInv, MarketTypes
<1>3. Waiting' = Waiting
  BY <1>1 DEF Waiting
<1>4. MarketTypes' /\ FailuresAreOver'
  BY <1>1, <1>2, <1>3 DEF MarketInv, MarketTypes, FailuresAreOver
<1> QED BY <1>1, <1>4, AsksStay, CachesStay DEF MarketInv, AsksAreSound, CachesAreSound
-----------------------------------------------------------------------------
LEMMA MarketInitHolds == MarketInit => MarketInv
<1> SUFFICES ASSUME MarketInit PROVE MarketInv
  OBVIOUS
<1>1. LastMoment \in Nat /\ MaxAsks \in Nat /\ MaxCuts \in Nat
  BY MarketAssumption
<1>2. MarketTypes
  BY <1>1 DEF MarketInit, MarketTypes, Moments, Breaker
<1>3. Waiting = {} /\ Cardinality(Waiting) = 0
  <2>1. Waiting = {}
    BY DEF MarketInit, Waiting
  <2> QED BY <2>1, FS_EmptySet
<1>4. FailuresAreOver
  BY <1>3 DEF MarketInit, FailuresAreOver
<1> QED BY <1>2, <1>4 DEF MarketInit, MarketInv, EntryIsFresh, IsFresh, IsFree, HasHistory

LEMMA MarketInductive == MarketInv /\ [MarketNext]_signalVars => MarketInv'
<1> SUFFICES ASSUME MarketInv, [MarketNext]_signalVars PROVE MarketInv'
  OBVIOUS
<1>1. CASE UNCHANGED signalVars
  <2>1. UNCHANGED <<moment, shared, local, sharedUp, cuts, breaker, ask, asked>>
    BY <1>1 DEF signalVars
  <2>2. Waiting' = Waiting
    BY <2>1 DEF Waiting
  <2> QED BY <2>1, <2>2, AsksStay, CachesStay, FramedStep DEF FrameFor
<1>2. CASE MarketNext
  BY <1>2, NextMomentKeeps, CutOrRestoreKeeps, AskSignalKeeps, AttemptKeeps, StoreKeeps, ReadEventsKeeps,
     CallModelKeeps, ModelAnswersKeeps DEF MarketNext
<1> QED BY <1>1, <1>2

\* The invariant of the signals.
LEMMA MarketInvariance == MarketSpec => []MarketInv
BY MarketInitHolds, MarketInductive, PTL DEF MarketSpec

\* Type correctness of the signals; a breaker never counts more failures than there
\* were requests.
THEOREM MarketTypeCorrect == MarketSpec => []MarketTypeOK
<1>1. MarketInv => MarketTypeOK
  <2> SUFFICES ASSUME MarketInv PROVE MarketTypeOK
    OBVIOUS
  <2>1. ASSUME NEW h \in Servers
        PROVE  breaker[h].state \in {"closed", "open", "half_open"} /\ breaker[h].failures \in 0..MaxAsks
    <3>1. breaker[h] \in Breaker
      BY DEF MarketInv, MarketTypes
    <3>2. breaker[h].failures \in Nat /\ breaker[h].failures + Cardinality(Waiting) <= asked
      BY <3>1 DEF Breaker, MarketInv, FailuresAreOver
    <3>3. Cardinality(Waiting) \in Nat /\ asked \in 0..MaxAsks
      BY WaitingIsFinite DEF MarketInv, MarketTypes
    <3>4. breaker[h].failures \in 0..MaxAsks
      BY <3>2, <3>3, MarketNumbers
    <3> QED BY <3>1, <3>4 DEF Breaker
  <2>2. \A entry \in {shared} \union {local[h] : h \in Servers} : entry = Free \/ entry.seen \in 0..LastMoment
    BY DEF MarketInv, EntryIsFresh, Moments
  <2>3. ASSUME NEW k \in Asks
        PROVE  ask[k] = Free \/ ask[k].step \in {"fetch", "store", "events", "model", "called", "done"}
    BY DEF MarketInv, MarketTypes, FetchAsk, StoreAsk, FoundAsk, OverAsk
  <2> QED BY <2>1, <2>2, <2>3 DEF MarketInv, MarketTypes, MarketTypeOK, Moments
<1> QED BY <1>1, MarketInvariance, PTL

\* A signal to trade rests on a history no older than a time to live and a fetch, and on
\* no event that forbids it, whatever caches, outages and workers it came through
\* (MarketService.get_signal, RedisCache.get_or_set, EventIntelligenceService.ai_context).
THEOREM SignalGrounded == MarketSpec => []SignalIsGrounded
<1>1. MarketInv => SignalIsGrounded
  <2> SUFFICES ASSUME MarketInv, NEW k \in Asks, Asking(k, "done"), ask[k].action \in {"BUY", "SELL"}
               PROVE  /\ ask[k].at - ask[k].seen <= Ttl + FetchTime
                      /\ \A i \in DOMAIN FetchRaw(ask[k].events) : ~Blocking(FetchRaw(ask[k].events)[i])
    BY DEF SignalIsGrounded
  <2>1. HasHistory(ask[k]) /\ ask[k] # Free /\ ask[k].step = "done"
    BY DEF Asking, HasHistory
  <2>2. ask[k] \in FoundAsk
    BY <2>1 DEF MarketInv, MarketTypes, FetchAsk, StoreAsk, FoundAsk, OverAsk
  <2>3. ask[k].at \in Nat /\ ask[k].seen \in Nat
    BY <2>2, MarketNumbers DEF FoundAsk
  <2>4. ask[k].at <= ask[k].seen + Ttl + FetchTime /\ Directive(FetchRaw(ask[k].events)) = {}
    BY <2>1 DEF MarketInv, IsFresh, IsFree
  <2>5. ask[k].at - ask[k].seen <= Ttl + FetchTime
    BY <2>3, <2>4, MarketNumbers
  <2> DEFINE raw == FetchRaw(ask[k].events)
  <2> HIDE DEF raw
  <2>6. \A i \in DOMAIN raw : ~Blocking(raw[i])
    <3>1. \A i \in DOMAIN raw : Blocking(raw[i]) => Category(raw[i]) # "noise"
      BY DEF Blocking
    <3>2. Directive(raw) = {}
      BY <2>4 DEF raw
    <3> QED BY <3>1, <3>2 DEF Directive
  <2> QED BY <2>5, <2>6 DEF raw
<1> QED BY <1>1, MarketInvariance, PTL

-----------------------------------------------------------------------------
(* Committee.                                                              *)

CommitteeRequest ==
  [price : Nat, rsi : Int, macd : Int, sma20 : Nat, sma50 : Nat, pe : Int, de : Int, events : BOOLEAN,
   change : Int, tolerance : {"conservative", "moderate", "aggressive"}]
BoardroomRequest == [pe : Int, de : Int, fcf : Int, growth : Int]
AuditRequest == [action : {"BUY", "SELL"}, price : Nat, rsi : Int, pe : Int, de : Int, sentiment : Int]

LEMMA RequestTypes ==
  /\ CommitteeFacts \subseteq CommitteeRequest /\ BoardroomFacts \subseteq BoardroomRequest
  /\ AuditFacts \subseteq AuditRequest /\ Multiples \subseteq Int /\ Leverages \subseteq Int
BY CommitteeAssumption DEF CommitteeRequest, BoardroomRequest, AuditRequest

\* A vote counts more where more of the panel gives it.
LEMMA CountGrows ==
  ASSUME NEW v, NEW w, NEW panel, IsFiniteSet(panel), DOMAIN v = panel, DOMAIN w = panel, NEW S,
         \A who \in panel : v[who].vote \in S => w[who].vote \in S
  PROVE  Count(v, S) \in Nat /\ Count(w, S) \in Nat /\ Count(v, S) <= Count(w, S)
<1> DEFINE A == {who \in panel : v[who].vote \in S}
           B == {who \in panel : w[who].vote \in S}
<1>1. A \subseteq B /\ B \subseteq panel
  OBVIOUS
<1>2. IsFiniteSet(A) /\ IsFiniteSet(B) /\ Cardinality(A) <= Cardinality(B)
  BY <1>1, FS_Subset
<1>3. Cardinality(A) \in Nat /\ Cardinality(B) \in Nat
  BY <1>2, FS_CardinalityType
<1>4. Count(v, S) = Cardinality(A) /\ Count(w, S) = Cardinality(B)
  BY DEF Count
<1> QED BY <1>2, <1>3, <1>4

(* The committee.                                                          *)

Analysts == {"macro", "fundamental", "technical"}
AnalystVotes(f) == [macro |-> Macro(f), fundamental |-> Fundamental(f), technical |-> Technical(f)]
BuyVotes(f) == Count(AnalystVotes(f), {"BUY"})
SellVotes(f) == Count(AnalystVotes(f), {"SELL"})

LEMMA OpinionParts == ASSUME NEW v, NEW n PROVE Opinion(v, n).vote = v /\ Opinion(v, n).score = n
BY DEF Opinion

LEMMA AnalystsVote ==
  ASSUME NEW f
  PROVE  /\ DOMAIN AnalystVotes(f) = Analysts /\ IsFiniteSet(Analysts)
         /\ AnalystVotes(f)["macro"] = Macro(f) /\ AnalystVotes(f)["fundamental"] = Fundamental(f)
         /\ AnalystVotes(f)["technical"] = Technical(f)
<1>1. IsFiniteSet({"macro"}) /\ IsFiniteSet({"fundamental"}) /\ IsFiniteSet({"technical"})
  BY FS_Singleton
<1>2. IsFiniteSet({"macro"} \union {"fundamental"})
  BY <1>1, FS_Union
<1>3. IsFiniteSet({"macro"} \union {"fundamental"} \union {"technical"})
  BY <1>1, <1>2, FS_Union
<1>4. Analysts = {"macro"} \union {"fundamental"} \union {"technical"}
  BY DEF Analysts
<1> QED BY <1>3, <1>4 DEF AnalystVotes, Analysts

\* What the votes come to, by their numbers.
LEMMA VoteByCount ==
  ASSUME NEW f
  PROVE  /\ BuyVotes(f) >= 2 => Vote(f).action = "BUY" /\ Vote(f).size = Sizing(f.tolerance)
                            /\ Vote(f).stop = 95 /\ Vote(f).target = 110
         /\ ~(BuyVotes(f) >= 2) /\ SellVotes(f) >= 2 =>
              Vote(f).action = "SELL" /\ Vote(f).size = 0 /\ Vote(f).stop = 105 /\ Vote(f).target = 90
         /\ ~(BuyVotes(f) >= 2) /\ ~(SellVotes(f) >= 2) =>
              Vote(f).action = "HOLD" /\ Vote(f).size = 20 /\ Vote(f).stop = 96 /\ Vote(f).target = 106
BY DEF Vote, BuyVotes, SellVotes, AnalystVotes

LEMMA SynthesisByVeto ==
  ASSUME NEW f
  PROVE  /\ Vetoes(f) => /\ Synthesis(f).action = "HOLD" /\ Synthesis(f).size = 0
                         /\ Synthesis(f).confidence = 120
                         /\ Synthesis(f).stop = 97 /\ Synthesis(f).target = 105
         /\ ~Vetoes(f) => Synthesis(f) = Vote(f)
BY DEF Synthesis

LEMMA CountTypes == ASSUME NEW f PROVE BuyVotes(f) \in Nat /\ SellVotes(f) \in Nat
BY AnalystsVote, CountGrows DEF BuyVotes, SellVotes

\* round() leaves a price apart on its side from 17 cents on, and within half a cent of it below.
LEMMA ShareBelow ==
  ASSUME NEW price \in Nat, NEW percent \in {90, 95, 96, 97}, NEW r \in Share(price, percent)
  PROVE  r \in Int /\ r <= price + 50 /\ (price >= 1700 => r < price)
<1>1. PICK c \in Int : r = 100 * c /\ 2 * (10000 * c - price * percent) <= 10000
  <2>1. price * percent \in Int
    OBVIOUS
  <2>2. PICK c \in Rounded(price * percent, 10000) : r = 100 * c
    BY DEF Share
  <2> DEFINE n == price * percent
  <2>3. c \in (n \div 10000)..(n \div 10000 + 1) /\ 2 * (10000 * c - n) <= 10000
    BY <2>2 DEF Rounded
  <2>4. n \div 10000 \in Int
    BY <2>1
  <2>5. c \in Int
    BY <2>3, <2>4
  <2> QED BY <2>2, <2>3, <2>5
<1>2. CASE percent = 90
  BY <1>1, <1>2
<1>3. CASE percent = 95
  BY <1>1, <1>3
<1>4. CASE percent = 96
  BY <1>1, <1>4
<1>5. CASE percent = 97
  BY <1>1, <1>5
<1> QED BY <1>2, <1>3, <1>4, <1>5

LEMMA ShareAbove ==
  ASSUME NEW price \in Nat, NEW percent \in {105, 106, 110}, NEW r \in Share(price, percent)
  PROVE  r \in Int /\ r + 50 >= price /\ (price >= 1700 => r > price)
<1>1. PICK c \in Int : r = 100 * c /\ 2 * (price * percent - 10000 * c) <= 10000
  <2>1. price * percent \in Int
    OBVIOUS
  <2>2. PICK c \in Rounded(price * percent, 10000) : r = 100 * c
    BY DEF Share
  <2> DEFINE n == price * percent
  <2>3. c \in (n \div 10000)..(n \div 10000 + 1) /\ 2 * (n - 10000 * c) <= 10000
    BY <2>2 DEF Rounded
  <2>4. n \div 10000 \in Int
    BY <2>1
  <2>5. c \in Int
    BY <2>3, <2>4
  <2> QED BY <2>2, <2>3, <2>5
<1>2. CASE percent = 105
  BY <1>1, <1>2
<1>3. CASE percent = 106
  BY <1>1, <1>3
<1>4. CASE percent = 110
  BY <1>1, <1>4
<1> QED BY <1>2, <1>3, <1>4

LEMMA MacroSells ==
  ASSUME NEW f \in CommitteeRequest
  PROVE  Macro(f).vote = "SELL" <=> f.change < -20 /\ ~f.events
BY DEF Macro, Opinion, CommitteeRequest

\* A risk manager who buys is one whose analysts cannot sell.
LEMMA RiskBuys ==
  ASSUME NEW f \in CommitteeRequest, Risk(f).vote = "BUY"
  PROVE  ~Vetoes(f) /\ Macro(f).vote # "SELL" /\ ~(SellVotes(f) >= 2)
<1>1. ~Vetoes(f) /\ Technical(f).vote = "BUY" /\ Macro(f).vote # "SELL"
  BY DEF Risk, Opinion
<1> DEFINE sellers == {who \in Analysts : AnalystVotes(f)[who].vote \in {"SELL"}}
<1>2. sellers \subseteq {"fundamental"}
  BY <1>1, AnalystsVote DEF Analysts
<1>3. IsFiniteSet({"fundamental"}) /\ Cardinality({"fundamental"}) = 1
  BY FS_Singleton
<1>4. Cardinality(sellers) <= 1
  BY <1>2, <1>3, FS_Subset
<1>5. SellVotes(f) = Cardinality(sellers)
  BY AnalystsVote DEF SellVotes, Count
<1> HIDE DEF sellers
<1> QED BY <1>1, <1>4, <1>5, CountTypes

\* What is read in the place of a missing fact leaves the rest as it is.
LEMMA ReadsAsGiven ==
  ASSUME NEW f \in CommitteeRequest
  PROVE  LET g == AsRead(f) IN
         /\ g \in CommitteeRequest
         /\ g.price = OrElse(f.price, 1000000) /\ g.rsi = OrElse(f.rsi, 500) /\ g.macd = f.macd
         /\ g.sma20 = OrElse(f.sma20, g.price) /\ g.sma50 = OrElse(f.sma50, g.price)
         /\ g.pe = OrElse(f.pe, 220) /\ g.de = OrElse(f.de, 11)
         /\ g.events = f.events /\ g.change = f.change /\ g.tolerance = f.tolerance
<1> DEFINE price == OrElse(f.price, 1000000)
<1>1. /\ price \in Nat /\ OrElse(f.rsi, 500) \in Int /\ OrElse(f.sma20, price) \in Nat
      /\ OrElse(f.sma50, price) \in Nat /\ OrElse(f.pe, 220) \in Int /\ OrElse(f.de, 11) \in Int
  BY DEF OrElse, CommitteeRequest
<1> HIDE DEF price
<1>2. AsRead(f) = [price |-> price, sma20 |-> OrElse(f.sma20, price), sma50 |-> OrElse(f.sma50, price),
                   rsi |-> OrElse(f.rsi, 500), macd |-> f.macd, pe |-> OrElse(f.pe, 220), de |-> OrElse(f.de, 11),
                   events |-> f.events, change |-> f.change, tolerance |-> f.tolerance]
  BY DEF AsRead, price
<1>3. AsRead(f) \in CommitteeRequest
  BY <1>1, <1>2 DEF CommitteeRequest
<1>4. price = OrElse(f.price, 1000000)
  BY DEF price
<1> QED BY <1>2, <1>3, <1>4

CommitteeAnswer(f, stop, target) ==
  [kind |-> "committee", facts |-> f, synthesis |-> Synthesis(AsRead(f)), opinion |-> Risk(AsRead(f)),
   entry |-> AsRead(f).price, stop |-> stop, target |-> target,
   ratio |-> RewardRisk(AsRead(f).price, stop, target)]

\* The answers of the panels, to requests that can be asked.
CommitteeAnswered ==
  \E f \in CommitteeFacts : \E stop \in Share(AsRead(f).price, Synthesis(AsRead(f)).stop) :
    \E target \in Share(AsRead(f).price, Synthesis(AsRead(f)).target) : ruling = CommitteeAnswer(f, stop, target)
BoardroomAnswered ==
  \E f \in BoardroomFacts : ruling = [kind |-> "boardroom", facts |-> f, summary |-> Boardroom(f)]
AuditAnswered ==
  \E f \in AuditFacts : ruling.kind = "audit" /\ ruling.facts = f /\ ruling.verdict = Verdict(f)
                        /\ ruling.mitigated = (RedSeverity(f) >= 60)
GuardAnswered == ruling.kind = "guard"

Answered ==
  ruling # NoRuling => CommitteeAnswered \/ BoardroomAnswered \/ AuditAnswered \/ GuardAnswered

LEMMA AnsweredIsInvariant == CommitteeSpec => []Answered
<1>1. CommitteeInit => Answered
  BY DEF CommitteeInit, Answered
<1>2. Answered /\ [CommitteeNext]_committeeVars => Answered'
  <2> SUFFICES ASSUME Answered, [CommitteeNext]_committeeVars PROVE Answered'
    OBVIOUS
  <2>1. CASE UNCHANGED committeeVars
    BY <2>1 DEF committeeVars, Answered, CommitteeAnswered, BoardroomAnswered, AuditAnswered, GuardAnswered
  <2>2. ASSUME NEW f \in CommitteeFacts, Deliberate(f) PROVE CommitteeAnswered'
    BY <2>2 DEF Deliberate, CommitteeAnswered, CommitteeAnswer
  <2>3. ASSUME NEW f \in BoardroomFacts, Convene(f) PROVE BoardroomAnswered'
    BY <2>3 DEF Convene, BoardroomAnswered
  <2>4. ASSUME NEW f \in AuditFacts, Audit(f) PROVE AuditAnswered'
    BY <2>4 DEF Audit, AuditAnswered
  <2>5. ASSUME NEW f \in GuardFacts, CheckGuard(f) PROVE GuardAnswered'
    BY <2>5 DEF CheckGuard, GuardAnswered
  <2> QED BY <2>1, <2>2, <2>3, <2>4, <2>5 DEF CommitteeNext, Answered
<1> QED BY <1>1, <1>2, PTL DEF CommitteeSpec

LEMMA CommitteeAnswerIsSound ==
  ASSUME NEW f \in CommitteeFacts, NEW stop \in Share(AsRead(f).price, Synthesis(AsRead(f)).stop),
         NEW target \in Share(AsRead(f).price, Synthesis(AsRead(f)).target), ruling = CommitteeAnswer(f, stop, target)
  PROVE  CommitteeIsSound
<1> DEFINE g == AsRead(f)
           s == Synthesis(g)
<1>0. f \in CommitteeRequest
  BY RequestTypes
<1>1. /\ g \in CommitteeRequest /\ g.rsi = OrElse(f.rsi, 500) /\ g.events = f.events
      /\ g.change = f.change /\ g.tolerance = f.tolerance
  BY <1>0, ReadsAsGiven
<1>2. g.price \in Nat /\ f.tolerance \in {"conservative", "moderate", "aggressive"} /\ (f.rsi > 800 => g.rsi > 800)
  BY <1>0, <1>1 DEF CommitteeRequest, OrElse
<1> HIDE DEF g
<1>3. /\ ruling.kind = "committee" /\ ruling.facts = f /\ ruling.synthesis = s /\ ruling.opinion = Risk(g)
      /\ ruling.entry = g.price /\ ruling.stop = stop /\ ruling.target = target
  BY DEF CommitteeAnswer, g
<1>4. /\ s.action \in {"BUY", "HOLD"} => s.stop \in {95, 96, 97} /\ s.target \in {105, 106, 110}
      /\ s.action \in {"BUY", "SELL", "HOLD"}
      /\ s.action = "SELL" => s.stop = 105 /\ s.target = 90
  BY VoteByCount, SynthesisByVeto
<1>5. (f.rsi > 800 \/ (f.change < -20 /\ ~f.events /\ f.tolerance = "conservative"))
        => s.action = "HOLD" /\ s.size = 0 /\ s.confidence <= 120
  <2>1. Vetoes(g) => s.action = "HOLD" /\ s.size = 0 /\ s.confidence <= 120
    BY SynthesisByVeto
  <2> QED BY <1>1, <1>2, <2>1, MacroSells DEF Vetoes
<1>6. s.size > 25 => s.action = "BUY" /\ f.tolerance # "conservative"
  <2>1. Sizing("conservative") = 25
    BY DEF Sizing
  <2> QED BY <1>1, <2>1, VoteByCount, SynthesisByVeto
<1>7. Risk(g).vote = "BUY" => s.action \in {"BUY", "HOLD"} /\ ~(f.change < -20 /\ ~f.events)
  <2> SUFFICES ASSUME Risk(g).vote = "BUY" PROVE s.action \in {"BUY", "HOLD"} /\ ~(f.change < -20 /\ ~f.events)
    OBVIOUS
  <2>1. ~Vetoes(g) /\ Macro(g).vote # "SELL" /\ ~(SellVotes(g) >= 2)
    BY <1>1, RiskBuys
  <2>2. ~(f.change < -20 /\ ~f.events)
    BY <1>1, <2>1, MacroSells
  <2> QED BY <2>1, <2>2, VoteByCount, SynthesisByVeto
<1>8. ASSUME s.action = "SELL"
      PROVE  /\ IF g.price >= 1700 THEN stop > g.price ELSE stop >= g.price - 50
             /\ IF g.price >= 1700 THEN g.price > target ELSE g.price >= target - 50
  <2>1. stop \in Share(g.price, 105) /\ target \in Share(g.price, 90)
    BY <1>4, <1>8 DEF g
  <2> QED BY <1>2, <2>1, ShareAbove, ShareBelow
<1>9. ASSUME s.action # "SELL"
      PROVE  /\ IF g.price >= 1700 THEN g.price > stop ELSE g.price >= stop - 50
             /\ IF g.price >= 1700 THEN target > g.price ELSE target >= g.price - 50
  <2>1. s.stop \in {95, 96, 97} /\ s.target \in {105, 106, 110}
    BY <1>4, <1>9
  <2>2. stop \in Share(g.price, s.stop) /\ target \in Share(g.price, s.target)
    BY DEF g
  <2> HIDE DEF s
  <2>3. stop \in Int /\ stop <= g.price + 50 /\ (g.price >= 1700 => stop < g.price)
    BY <1>2, <2>1, <2>2, ShareBelow
  <2>4. target \in Int /\ target + 50 >= g.price /\ (g.price >= 1700 => target > g.price)
    BY <1>2, <2>1, <2>2, ShareAbove
  <2> QED BY <1>2, <2>3, <2>4
<1> HIDE DEF s
<1> QED BY <1>3, <1>5, <1>6, <1>7, <1>8, <1>9 DEF CommitteeIsSound

LEMMA WorseNumbers ==
  ASSUME NEW f, NEW g \in WorseFacts(f)
  PROVE  \E pe \in Int, de \in Int : g = WithNumbers(f, pe, de) /\ pe >= f.pe /\ de >= f.de
<1>1. \E pe \in {p \in Multiples : p >= f.pe}, de \in {d \in Leverages : d >= f.de} : g = WithNumbers(f, pe, de)
  BY DEF WorseFacts
<1> QED BY <1>1, RequestTypes

\* The committee does not move from a sale to a purchase on worse numbers.
LEMMA RatiosAreMonotone ==
  ASSUME NEW f \in CommitteeRequest, NEW g \in CommitteeRequest, g.pe >= f.pe, g.de >= f.de,
         g.price = f.price, g.rsi = f.rsi, g.macd = f.macd, g.sma20 = f.sma20, g.sma50 = f.sma50,
         g.events = f.events, g.change = f.change, g.tolerance = f.tolerance
  PROVE  Rank(Synthesis(g).action) <= Rank(Synthesis(f).action)
<1>2. f.pe \in Int /\ f.de \in Int /\ g.pe \in Int /\ g.de \in Int
  BY DEF CommitteeRequest
<1>3. Macro(g) = Macro(f) /\ Technical(g) = Technical(f)
  BY DEF Macro, Technical
<1>4. Vetoes(g) <=> Vetoes(f)
  BY <1>3 DEF Vetoes
<1>5. /\ Fundamental(g).vote = "BUY" => Fundamental(f).vote = "BUY"
      /\ Fundamental(f).vote = "SELL" => Fundamental(g).vote = "SELL"
  BY <1>2, OpinionParts DEF Fundamental
<1>6. BuyVotes(g) <= BuyVotes(f)
  <2>1. \A who \in Analysts : AnalystVotes(g)[who].vote \in {"BUY"} => AnalystVotes(f)[who].vote \in {"BUY"}
    BY <1>3, <1>5, AnalystsVote DEF Analysts
  <2> QED BY <2>1, AnalystsVote, CountGrows DEF BuyVotes
<1>7. SellVotes(f) <= SellVotes(g)
  <2>1. \A who \in Analysts : AnalystVotes(f)[who].vote \in {"SELL"} => AnalystVotes(g)[who].vote \in {"SELL"}
    BY <1>3, <1>5, AnalystsVote DEF Analysts
  <2> QED BY <2>1, AnalystsVote, CountGrows DEF SellVotes
<1>8. Rank("BUY") = 2 /\ Rank("HOLD") = 1 /\ Rank("SELL") = 0
  BY DEF Rank
<1>9. CASE Vetoes(f)
  BY <1>4, <1>8, <1>9, SynthesisByVeto
<1>10. CASE ~Vetoes(f)
  <2>1. Synthesis(f) = Vote(f) /\ Synthesis(g) = Vote(g)
    BY <1>4, <1>10, SynthesisByVeto
  <2>2. BuyVotes(f) \in Nat /\ BuyVotes(g) \in Nat /\ SellVotes(f) \in Nat /\ SellVotes(g) \in Nat
    BY CountTypes
  <2> QED BY <1>6, <1>7, <1>8, <2>1, <2>2, VoteByCount
<1> QED BY <1>9, <1>10

\* A ratio that is given is read as it is.
LEMMA CommitteeIsMonotone ==
  ASSUME NEW f \in CommitteeRequest, NEW g \in WorseFacts(f), Comparable(f.pe, g.pe), Comparable(f.de, g.de)
  PROVE  Rank(Synthesis(AsRead(g)).action) <= Rank(Synthesis(AsRead(f)).action)
<1>1. PICK pe \in Int, de \in Int : g = WithNumbers(f, pe, de) /\ pe >= f.pe /\ de >= f.de
  BY WorseNumbers
<1>2. /\ g \in CommitteeRequest /\ g.pe = pe /\ g.de = de /\ f.pe \in Int /\ f.de \in Int
      /\ g.price = f.price /\ g.rsi = f.rsi /\ g.macd = f.macd /\ g.sma20 = f.sma20 /\ g.sma50 = f.sma50
      /\ g.events = f.events /\ g.change = f.change /\ g.tolerance = f.tolerance
  BY <1>1 DEF CommitteeRequest, WithNumbers
<1> DEFINE a == AsRead(f)
           b == AsRead(g)
<1>3. /\ a \in CommitteeRequest /\ a.price = OrElse(f.price, 1000000) /\ a.rsi = OrElse(f.rsi, 500) /\ a.macd = f.macd
      /\ a.sma20 = OrElse(f.sma20, a.price) /\ a.sma50 = OrElse(f.sma50, a.price)
      /\ a.pe = OrElse(f.pe, 220) /\ a.de = OrElse(f.de, 11)
      /\ a.events = f.events /\ a.change = f.change /\ a.tolerance = f.tolerance
  BY ReadsAsGiven
<1>4. /\ b \in CommitteeRequest /\ b.price = OrElse(g.price, 1000000) /\ b.rsi = OrElse(g.rsi, 500) /\ b.macd = g.macd
      /\ b.sma20 = OrElse(g.sma20, b.price) /\ b.sma50 = OrElse(g.sma50, b.price)
      /\ b.pe = OrElse(g.pe, 220) /\ b.de = OrElse(g.de, 11)
      /\ b.events = g.events /\ b.change = g.change /\ b.tolerance = g.tolerance
  BY <1>2, ReadsAsGiven
<1> HIDE DEF a, b
<1>5. b.pe >= a.pe /\ b.de >= a.de
  BY <1>1, <1>2, <1>3, <1>4 DEF OrElse, Comparable
<1>6. b.price = a.price /\ b.sma20 = a.sma20 /\ b.sma50 = a.sma50 /\ b.rsi = a.rsi
  BY <1>2, <1>3, <1>4
<1>7. Rank(Synthesis(b).action) <= Rank(Synthesis(a).action)
  BY <1>2, <1>3, <1>4, <1>5, <1>6, RatiosAreMonotone
<1> QED BY <1>7 DEF a, b

(* The boardroom.                                                          *)

Investors == {"buffett", "munger", "wood", "burry", "ackman", "dalio"}
InvestorVotes(f) == [buffett |-> Buffett(f), munger |-> Munger(f), wood |-> Wood(f),
                     burry |-> Burry(f), ackman |-> Ackman(f), dalio |-> Dalio(f)]
Bulls(f) == Count(InvestorVotes(f), {"STRONG_BUY", "BUY"})
Bears(f) == Count(InvestorVotes(f), {"AVOID_OR_SHORT"})

LEMMA InvestorsVote ==
  ASSUME NEW f
  PROVE  /\ DOMAIN InvestorVotes(f) = Investors /\ IsFiniteSet(Investors)
         /\ InvestorVotes(f)["buffett"] = Buffett(f) /\ InvestorVotes(f)["munger"] = Munger(f)
         /\ InvestorVotes(f)["wood"] = Wood(f) /\ InvestorVotes(f)["burry"] = Burry(f)
         /\ InvestorVotes(f)["ackman"] = Ackman(f) /\ InvestorVotes(f)["dalio"] = Dalio(f)
<1>1. ASSUME NEW S, IsFiniteSet(S), NEW who PROVE IsFiniteSet(S \union {who})
  BY <1>1, FS_AddElement
<1>2. IsFiniteSet({}) 
  BY FS_EmptySet
<1>3. IsFiniteSet({} \union {"buffett"} \union {"munger"} \union {"wood"})
  BY <1>1, <1>2
<1>4. IsFiniteSet({} \union {"buffett"} \union {"munger"} \union {"wood"} \union {"burry"} \union {"ackman"} \union {"dalio"})
  BY <1>1, <1>3
<1>5. Investors = {} \union {"buffett"} \union {"munger"} \union {"wood"} \union {"burry"} \union {"ackman"} \union {"dalio"}
  BY DEF Investors
<1> QED BY <1>4, <1>5 DEF InvestorVotes, Investors

LEMMA BoardroomByCount ==
  ASSUME NEW f
  PROVE  /\ Bulls(f) \in Nat /\ Bears(f) \in Nat
         /\ Bulls(f) >= 5 => Boardroom(f).vote = "STRONG_BUY"
         /\ Bulls(f) = 4 => Boardroom(f).vote = "BUY"
         /\ Bulls(f) < 4 /\ Bears(f) >= 3 => Boardroom(f).vote = "AVOID_OR_SHORT"
         /\ Bulls(f) < 4 /\ Bears(f) < 3 => Boardroom(f).vote = "HOLD"
<1>1. Bulls(f) \in Nat /\ Bears(f) \in Nat
  BY InvestorsVote, CountGrows DEF Bulls, Bears
<1> QED BY <1>1 DEF Boardroom, Bulls, Bears, InvestorVotes

LEMMA BoardroomIsMonotone ==
  ASSUME NEW f \in BoardroomRequest, NEW g \in WorseFacts(f)
  PROVE  Rank(Boardroom(g).vote) <= Rank(Boardroom(f).vote)
<1>1. PICK pe \in Int, de \in Int : g = WithNumbers(f, pe, de) /\ pe >= f.pe /\ de >= f.de
  BY WorseNumbers
<1>2. /\ g.pe = pe /\ g.de = de /\ g.fcf = f.fcf /\ g.growth = f.growth
      /\ f.pe \in Int /\ f.de \in Int /\ f.fcf \in Int
  BY <1>1 DEF BoardroomRequest, WithNumbers
<1> DEFINE Bullish(o) == o.vote \in {"STRONG_BUY", "BUY"}
           Bearish(o) == o.vote \in {"AVOID_OR_SHORT"}
<1>3. (Bullish(Buffett(g)) => Bullish(Buffett(f))) /\ (Bearish(Buffett(f)) => Bearish(Buffett(g)))
  BY <1>1, <1>2, OpinionParts DEF Buffett
<1>4. (Bullish(Munger(g)) => Bullish(Munger(f))) /\ (Bearish(Munger(f)) => Bearish(Munger(g)))
  BY <1>1, <1>2, OpinionParts DEF Munger, BoardroomRoic
<1>5. Wood(g) = Wood(f)
  BY <1>2 DEF Wood
<1>6. (Bullish(Burry(g)) => Bullish(Burry(f))) /\ (Bearish(Burry(f)) => Bearish(Burry(g)))
  BY <1>1, <1>2, OpinionParts DEF Burry, BoardroomRsi
<1>7. (Bullish(Ackman(g)) => Bullish(Ackman(f))) /\ (Bearish(Ackman(f)) => Bearish(Ackman(g)))
  BY <1>1, <1>2, OpinionParts DEF Ackman
<1>8. (Bullish(Dalio(g)) => Bullish(Dalio(f))) /\ (Bearish(Dalio(f)) => Bearish(Dalio(g)))
  BY <1>1, <1>2, OpinionParts DEF Dalio
<1>9. Bulls(g) <= Bulls(f)
  <2>1. \A who \in Investors : Bullish(InvestorVotes(g)[who]) => Bullish(InvestorVotes(f)[who])
    <3> HIDE DEF Bullish
    <3> QED BY <1>3, <1>4, <1>5, <1>6, <1>7, <1>8, InvestorsVote DEF Investors
  <2> QED BY <2>1, InvestorsVote, CountGrows DEF Bulls
<1>10. Bears(f) <= Bears(g)
  <2>1. \A who \in Investors : Bearish(InvestorVotes(f)[who]) => Bearish(InvestorVotes(g)[who])
    <3> HIDE DEF Bearish
    <3> QED BY <1>3, <1>4, <1>5, <1>6, <1>7, <1>8, InvestorsVote DEF Investors
  <2> QED BY <2>1, InvestorsVote, CountGrows DEF Bears
<1>11. Rank("STRONG_BUY") = 3 /\ Rank("BUY") = 2 /\ Rank("HOLD") = 1 /\ Rank("AVOID_OR_SHORT") = 0
  BY DEF Rank
<1> QED BY <1>9, <1>10, <1>11, BoardroomByCount

(* The red team.                                                           *)

LEMMA AuditIsMonotone ==
  ASSUME NEW f \in AuditRequest, NEW g \in WorseFacts(f)
  PROVE  /\ Approval(Verdict(g)) <= Approval(Verdict(f))
         /\ RedSeverity(f) >= 60 => RedSeverity(g) >= 60
<1>1. PICK pe \in Int, de \in Int : g = WithNumbers(f, pe, de) /\ pe >= f.pe /\ de >= f.de
  BY WorseNumbers
<1>2. /\ g.pe = pe /\ g.de = de /\ g.rsi = f.rsi /\ g.action = f.action /\ g.sentiment = f.sentiment
      /\ f.pe \in Int /\ f.de \in Int /\ f.sentiment \in Int
  BY <1>1 DEF AuditRequest, WithNumbers
<1>3. ASSUME NEW low \in Int, NEW high \in Int, low <= high, NEW x \in Int, NEW y \in Int, x <= y
      PROVE  Clamp(low, x, high) \in Int /\ Clamp(low, y, high) \in Int /\ Clamp(low, x, high) <= Clamp(low, y, high)
  BY <1>3 DEF Clamp
<1>4. RedSeverity(f) \in Int /\ RedSeverity(g) \in Int /\ RedSeverity(f) <= RedSeverity(g)
  BY <1>1, <1>2 DEF RedSeverity, Clamp
<1>5. Conviction(g) = Conviction(f) /\ Conviction(f) \in Int
  BY <1>2 DEF Conviction, Clamp
<1>6. Survival(f) \in Int /\ Survival(g) \in Int /\ Survival(g) <= Survival(f)
  BY <1>4, <1>5 DEF Survival, Clamp
<1>7. Approval("APPROVED_PROCEED_TO_RISK") = 2 /\ Approval("APPROVED_WITH_TIGHTER_STOPS") = 1
      /\ Approval("REJECTED_RED_TEAM_KILL") = 0
  BY DEF Approval
<1>8. Approval(Verdict(g)) <= Approval(Verdict(f))
  BY <1>6, <1>7 DEF Verdict
<1> QED BY <1>4, <1>8

\* A panel recommends a position only with its votes and without the veto, its stop and
\* target lie on their own sides of the entry, and no panel answers worse numbers with a
\* better opinion: for all facts, not only for those at the thresholds.
THEOREM RulingsHold == CommitteeSpec => []RulingsHoldTogether
<1>1. Answered => CommitteeIsSound
  <2> SUFFICES ASSUME Answered, ruling # NoRuling, ruling.kind = "committee" PROVE CommitteeIsSound
    BY DEF CommitteeIsSound
  <2>1. CommitteeAnswered
    BY DEF Answered, BoardroomAnswered, AuditAnswered, GuardAnswered
  <2> QED BY <2>1, CommitteeAnswerIsSound DEF CommitteeAnswered
<1>2. Answered => WorseIsNotBetter
  <2> SUFFICES ASSUME Answered, ruling # NoRuling PROVE WorseIsNotBetter
    BY DEF WorseIsNotBetter
  <2>1. CASE CommitteeAnswered
    <3>1. PICK f \in CommitteeFacts : \E stop, target : ruling = CommitteeAnswer(f, stop, target)
      BY <2>1 DEF CommitteeAnswered
    <3>2. ruling.kind = "committee" /\ ruling.facts = f /\ ruling.synthesis = Synthesis(AsRead(f))
      BY <3>1 DEF CommitteeAnswer
    <3>3. f \in CommitteeRequest
      BY RequestTypes
    <3> QED BY <3>2, <3>3, CommitteeIsMonotone DEF WorseIsNotBetter
  <2>2. CASE BoardroomAnswered
    <3>1. PICK f \in BoardroomFacts : ruling = [kind |-> "boardroom", facts |-> f, summary |-> Boardroom(f)]
      BY <2>2 DEF BoardroomAnswered
    <3>2. ruling.kind = "boardroom" /\ ruling.facts = f /\ ruling.summary = Boardroom(f)
      BY <3>1
    <3>3. f \in BoardroomRequest
      BY RequestTypes
    <3> QED BY <3>2, <3>3, BoardroomIsMonotone DEF WorseIsNotBetter
  <2>3. CASE AuditAnswered
    <3>1. PICK f \in AuditFacts : /\ ruling.kind = "audit" /\ ruling.facts = f /\ ruling.verdict = Verdict(f)
                                  /\ ruling.mitigated = (RedSeverity(f) >= 60)
      BY <2>3 DEF AuditAnswered
    <3>2. f \in AuditRequest
      BY RequestTypes
    <3> QED BY <3>1, <3>2, AuditIsMonotone DEF WorseIsNotBetter
  <2>4. CASE GuardAnswered
    BY <2>4 DEF GuardAnswered, WorseIsNotBetter
  <2> QED BY <2>1, <2>2, <2>3, <2>4 DEF Answered
<1> QED BY <1>1, <1>2, AnsweredIsInvariant, PTL DEF RulingsHoldTogether

-----------------------------------------------------------------------------
(* Vault.                                                                  *)

Row == [key : 1..MaxKeys, secret : 1..MaxJobs]
SaveJob == [kind : {"save"}, process : Processes, row : Nat, key : 1..MaxKeys, secret : 1..MaxJobs]
RotateJob == [kind : {"rotate"}, process : Processes, rows : Seq(Row), complete : BOOLEAN]
KeyJob == [kind : {"key"}, process : Processes, api : ApiKeys, scope : ApiScopes, count : Nat]

KeyTypes ==
  /\ configured \in Seq(1..MaxKeys) \ {<<>>} /\ ring \in [Processes -> Seq(1..MaxKeys) \ {<<>>}]
  /\ rotated \in 1..MaxKeys /\ begun \in 0..MaxJobs
  /\ rows \in Seq(Row) /\ saved \in 0..MaxJobs /\ crossed \in BOOLEAN
  /\ job \in [Jobs -> {Absent} \union SaveJob \union RotateJob \union KeyJob]

ApiTypes ==
  /\ apiKeys \in [ApiKeys -> ApiKeyRow \union {Absent}] /\ granted \in [ApiKeys -> Seq(ApiScopes)]

Pending(j, kind) == job[j] # Absent /\ job[j].kind = kind
Written(j) == PrimaryKey(job[j].process)

\* What is encrypted, and what is about to be, is under a key that is configured; and
\* what a handler will write is under the primary of its process as it is.
KeysAreConfigured ==
  /\ rotated <= configured[1]
  /\ \A p \in Processes : PrimaryKey(p) \in ToSet(configured) /\ PrimaryKey(p) <= configured[1]
  /\ \A i \in DOMAIN rows : rows[i].key \in ToSet(configured)
  /\ \A k \in ToSet(configured) : k <= configured[1]
  /\ \A j \in Jobs :
       /\ Pending(j, "save") => job[j].key = Written(j)
       /\ Pending(j, "rotate") => \A i \in DOMAIN job[j].rows : job[j].rows[i].key = Written(j)

AllPrimary == \A p \in Processes : PrimaryKey(p) = configured[1]

\* Once a rotation under the present primary has ended, nothing is under another key and
\* nothing will be; while one is under way, that goes for the rows it has not read.
RotationIsComplete ==
  /\ rotated = configured[1] => AllPrimary /\ \A i \in DOMAIN rows : rows[i].key = configured[1]
  /\ \A j \in Jobs :
       Pending(j, "rotate") /\ job[j].complete /\ Written(j) = configured[1]
         => /\ AllPrimary
            /\ \A i \in DOMAIN rows : i \in DOMAIN job[j].rows \/ rows[i].key = configured[1]

\* Without an overlap one handler at most writes credentials, and what it read is there.
OneWriter ==
  ~crossed =>
    /\ Len(rows) <= 1 /\ \A i \in DOMAIN rows : rows[i].secret = saved
    /\ \A j \in Jobs :
         /\ Pending(j, "save") \/ Pending(j, "rotate") => ~Crosses(j)
         /\ Pending(j, "save") => job[j].row = Len(rows)
         /\ Pending(j, "rotate") => \A i \in DOMAIN job[j].rows : job[j].rows[i].secret = saved

\* A request is counted after it was granted.
ApiKeysCount ==
  /\ \A a \in ApiKeys :
       IF apiKeys[a] = Absent THEN granted[a] = <<>>
       ELSE /\ ToSet(granted[a]) \subseteq apiKeys[a].scopes
            /\ apiKeys[a].request_count <= Len(granted[a]) /\ apiKeys[a].request_count <= begun
  /\ \A j \in Jobs : Pending(j, "key") =>
       LET a == job[j].api IN
       /\ apiKeys[a] # Absent /\ job[j].scope \in apiKeys[a].scopes
       /\ job[j].count <= Len(granted[a]) /\ job[j].count < begun

VaultInv == KeyTypes /\ ApiTypes /\ KeysAreConfigured /\ RotationIsComplete /\ OneWriter /\ ApiKeysCount
-----------------------------------------------------------------------------
LEMMA FirstOf ==
  ASSUME NEW S, NEW s \in Seq(S), s # <<>>
  PROVE  Head(s) = s[1] /\ Len(s) > 0 /\ s[1] \in S /\ s[1] \in ToSet(s)
<1>1. Head(s) = s[1] /\ Len(s) > 0 /\ s[1] \in S /\ 1 \in DOMAIN s
  OBVIOUS
<1> QED BY <1>1 DEF ToSet

LEMMA SameLength ==
  ASSUME NEW S, NEW T, NEW s \in Seq(T), NEW f, f = [i \in DOMAIN s |-> f[i]],
         \A i \in DOMAIN s : f[i] \in S
  PROVE  f \in Seq(S) /\ Len(f) = Len(s)
OBVIOUS

LEMMA FirstAdded ==
  ASSUME NEW S, NEW s \in Seq(S), NEW e \in S
  PROVE  /\ <<e>> \o s \in Seq(S) /\ <<e>> \o s # <<>> /\ (<<e>> \o s)[1] = e
         /\ ToSet(<<e>> \o s) = {e} \union ToSet(s)
<1> DEFINE t == <<e>> \o s
<1>1. t \in Seq(S) /\ Len(t) = Len(s) + 1
  OBVIOUS
<1>2. t[1] = e /\ \A i \in DOMAIN s : t[i + 1] = s[i]
  OBVIOUS
<1> HIDE DEF t
<1>3. 1 \in DOMAIN t /\ \A i \in DOMAIN s : i + 1 \in DOMAIN t
  BY <1>1
<1>4. \A i \in DOMAIN t : i = 1 \/ (i - 1 \in DOMAIN s /\ (i - 1) + 1 = i)
  BY <1>1
<1>5. ToSet(t) \subseteq {e} \union ToSet(s)
  BY <1>2, <1>4 DEF ToSet
<1>6. {e} \union ToSet(s) \subseteq ToSet(t)
  BY <1>2, <1>3 DEF ToSet
<1>7. t # <<>>
  BY <1>3
<1> QED BY <1>1, <1>2, <1>5, <1>6, <1>7 DEF t

LEMMA PrimaryIsKey ==
  ASSUME VaultInv, NEW p \in Processes
  PROVE  PrimaryKey(p) = ring[p][1] /\ PrimaryKey(p) \in 1..MaxKeys
<1>1. ring[p] \in Seq(1..MaxKeys) /\ ring[p] # <<>>
  BY DEF VaultInv, KeyTypes
<1>2. Head(ring[p]) = ring[p][1] /\ ring[p][1] \in 1..MaxKeys
  BY <1>1, FirstOf
<1> QED BY <1>2 DEF PrimaryKey

LEMMA FirstKey ==
  ASSUME VaultInv
  PROVE  /\ configured \in Seq(1..MaxKeys) /\ configured # <<>> /\ Len(configured) > 0
         /\ configured[1] \in 1..MaxKeys /\ configured[1] \in ToSet(configured)
<1>1. configured \in Seq(1..MaxKeys) /\ configured # <<>>
  BY DEF VaultInv, KeyTypes
<1> QED BY <1>1, FirstOf

\* What is kept where only the job of one handler ends.
LEMMA EndedJob ==
  ASSUME VaultInv, NEW j \in Jobs, job' = [job EXCEPT ![j] = Absent]
  PROVE  /\ job' \in [Jobs -> {Absent} \union SaveJob \union RotateJob \union KeyJob]
         /\ \A i \in Jobs : job'[i] = Absent \/ (i # j /\ job'[i] = job[i])
         /\ \A i \in Jobs, kind \in {"save", "rotate", "key"} :
              Pending(i, kind)' => i # j /\ job'[i] = job[i] /\ Pending(i, kind)
<1>1. job \in [Jobs -> {Absent} \union SaveJob \union RotateJob \union KeyJob]
  BY DEF VaultInv, KeyTypes
<1>2. job' \in [Jobs -> {Absent} \union SaveJob \union RotateJob \union KeyJob]
  BY <1>1
<1>3. \A i \in Jobs : IF i = j THEN job'[i] = Absent ELSE job'[i] = job[i]
  BY <1>1
<1>4. \A i \in Jobs, kind \in {"save", "rotate", "key"} :
        Pending(i, kind)' => i # j /\ job'[i] = job[i] /\ Pending(i, kind)
  BY <1>3 DEF Pending
<1> QED BY <1>2, <1>3, <1>4

LEMMA LaunchedJob ==
  ASSUME VaultInv, NEW j \in Jobs, NEW record \in SaveJob \union RotateJob \union KeyJob, Launch(j, record)
  PROVE  /\ job' \in [Jobs -> {Absent} \union SaveJob \union RotateJob \union KeyJob]
         /\ begun' = begun + 1 /\ begun' \in 0..MaxJobs /\ begun' > begun
         /\ job[j] = Absent /\ job'[j] = record
         /\ \A i \in Jobs : i # j => job'[i] = job[i]
         /\ \A i \in Jobs, kind \in {"save", "rotate", "key"} :
              Pending(i, kind)' => IF i = j THEN record.kind = kind ELSE Pending(i, kind)
<1>1. job[j] = Absent /\ begun < MaxJobs /\ begun' = begun + 1 /\ job' = [job EXCEPT ![j] = record]
  BY DEF Launch
<1>2. begun \in 0..MaxJobs /\ MaxJobs \in Nat
  BY VaultAssumption DEF VaultInv, KeyTypes
<1>a. begun' \in 0..MaxJobs /\ begun' > begun
  BY <1>1, <1>2
<1>3. job' \in [Jobs -> {Absent} \union SaveJob \union RotateJob \union KeyJob]
  BY <1>1 DEF VaultInv, KeyTypes
<1>4. job'[j] = record /\ \A i \in Jobs : i # j => job'[i] = job[i]
  BY <1>1 DEF VaultInv, KeyTypes
<1>5. \A i \in Jobs, kind \in {"save", "rotate", "key"} :
              Pending(i, kind)' => IF i = j THEN record.kind = kind ELSE Pending(i, kind)
  BY <1>4 DEF Pending
<1> QED BY <1>1, <1>a, <1>3, <1>4, <1>5

\* The credentials of the handlers that go on are read as they were.
LEMMA WritersStay ==
  ASSUME VaultInv, UNCHANGED <<configured, ring, rotated, rows, saved, crossed>>,
         \A i \in Jobs, kind \in {"save", "rotate"} : Pending(i, kind)' => Pending(i, kind) /\ job'[i] = job[i]
  PROVE  KeysAreConfigured' /\ RotationIsComplete' /\ OneWriter'
<1>1. \A p \in Processes : PrimaryKey(p)' = PrimaryKey(p)
  BY DEF PrimaryKey
<1>2. \A i \in Jobs, kind \in {"save", "rotate"} : Pending(i, kind)' => Written(i)' = Written(i)
  BY DEF Written, PrimaryKey
<1>3. KeysAreConfigured'
  BY <1>1, <1>2 DEF VaultInv, KeysAreConfigured
<1>4. RotationIsComplete'
  BY <1>1, <1>2 DEF VaultInv, RotationIsComplete, AllPrimary
<1>5. OneWriter'
  <2>1. \A i \in Jobs : Crosses(i)' => Crosses(i)
    <3> SUFFICES ASSUME NEW i \in Jobs, NEW k \in Jobs \ {i}, Pending(k, "save")' \/ Pending(k, "rotate")'
                 PROVE  Crosses(i)
      BY DEF Crosses, Pending
    <3>1. Pending(k, "save") \/ Pending(k, "rotate")
      OBVIOUS
    <3> QED BY <3>1 DEF Crosses, Pending
  <2> QED BY <2>1 DEF VaultInv, OneWriter
<1> QED BY <1>3, <1>4, <1>5

LEMMA ApiStays ==
  ASSUME VaultInv, UNCHANGED <<apiKeys, granted>>, begun' \in Nat, begun' >= begun,
         \A i \in Jobs : Pending(i, "key")' => Pending(i, "key") /\ job'[i] = job[i]
  PROVE  ApiTypes' /\ ApiKeysCount'
<1>1. ApiTypes'
  BY DEF VaultInv, ApiTypes
<1>2. begun \in Nat /\ \A a \in ApiKeys : apiKeys[a] # Absent => apiKeys[a].request_count \in Nat
  BY VaultAssumption DEF VaultInv, KeyTypes, ApiTypes, ApiKeyRow
<1>3. \A i \in Jobs : Pending(i, "key") => job[i].count \in Nat
  BY DEF VaultInv, KeyTypes, Pending, SaveJob, RotateJob, KeyJob
<1>4. \A a \in ApiKeys : IF apiKeys'[a] = Absent THEN granted'[a] = <<>>
       ELSE /\ ToSet(granted'[a]) \subseteq apiKeys'[a].scopes
            /\ apiKeys'[a].request_count <= Len(granted'[a]) /\ apiKeys'[a].request_count <= begun'
  BY <1>2 DEF VaultInv, ApiKeysCount
<1>5. ASSUME NEW i \in Jobs, Pending(i, "key")'
      PROVE  LET a == job'[i].api IN
             /\ apiKeys'[a] # Absent /\ job'[i].scope \in apiKeys'[a].scopes
             /\ job'[i].count <= Len(granted'[a]) /\ job'[i].count < begun'
  <2>1. Pending(i, "key") /\ job'[i] = job[i] /\ job[i].count \in Nat
    BY <1>3, <1>5
  <2>2. /\ apiKeys[job[i].api] # Absent /\ job[i].scope \in apiKeys[job[i].api].scopes
        /\ job[i].count <= Len(granted[job[i].api]) /\ job[i].count < begun
    BY <2>1 DEF VaultInv, ApiKeysCount
  <2> QED BY <1>2, <2>1, <2>2
<1> QED BY <1>1, <1>4, <1>5 DEF ApiKeysCount
-----------------------------------------------------------------------------
(* Credentials.                                                            *)

LEMMA SaveBeginKeeps ==
  ASSUME VaultInv, NEW j \in Jobs, NEW p \in Processes, SaveBegin(j, p)
  PROVE  VaultInv'
<1> PICK row \in (IF rows = <<>> THEN {0} ELSE DOMAIN rows) :
      /\ Launch(j, [kind |-> "save", process |-> p, row |-> row, key |-> PrimaryKey(p), secret |-> begun + 1])
      /\ crossed' = (crossed \/ Crosses(j))
      /\ UNCHANGED <<vaultKeys, rows, saved, apiKeys, granted>>
  BY DEF SaveBegin
<1> DEFINE new == [kind |-> "save", process |-> p, row |-> row, key |-> PrimaryKey(p), secret |-> begun + 1]
<1>1. Launch(j, new) /\ crossed' = (crossed \/ Crosses(j))
      /\ UNCHANGED <<configured, ring, rotated, rows, saved, apiKeys, granted>>
  BY DEF vaultKeys
<1>2. rows \in Seq(Row) /\ row \in Nat
  BY DEF VaultInv, KeyTypes
<1>3. begun + 1 \in 1..MaxJobs
  BY <1>1, VaultAssumption DEF Launch, VaultInv, KeyTypes
<1>4. new \in SaveJob
  BY <1>2, <1>3, PrimaryIsKey DEF SaveJob
<1>5. new.kind = "save" /\ new.key = PrimaryKey(p) /\ new.process = p /\ new.row = row
  OBVIOUS
<1> HIDE DEF new
<1>6. /\ job' \in [Jobs -> {Absent} \union SaveJob \union RotateJob \union KeyJob]
      /\ begun' = begun + 1 /\ begun' \in 0..MaxJobs /\ begun' > begun
      /\ job[j] = Absent /\ job'[j] = new /\ \A i \in Jobs : i # j => job'[i] = job[i]
      /\ \A i \in Jobs, kind \in {"save", "rotate", "key"} :
           Pending(i, kind)' => IF i = j THEN new.kind = kind ELSE Pending(i, kind)
  BY <1>1, <1>4, LaunchedJob
<1>7. KeyTypes'
  BY <1>1, <1>6 DEF VaultInv, KeyTypes
<1>8. ApiTypes' /\ ApiKeysCount'
  <2>1. begun \in Nat /\ begun' \in Nat /\ begun' >= begun
    BY <1>6, VaultAssumption DEF VaultInv, KeyTypes
  <2>2. \A i \in Jobs : Pending(i, "key")' => Pending(i, "key") /\ job'[i] = job[i]
    BY <1>5, <1>6
  <2> QED BY <1>1, <2>1, <2>2, ApiStays
<1>9. \A i \in Jobs, kind \in {"save", "rotate"} : Pending(i, kind)' =>
        \/ i = j /\ kind = "save" /\ job'[i] = new
        \/ i # j /\ Pending(i, kind) /\ job'[i] = job[i]
  BY <1>5, <1>6
<1>10. \A q \in Processes : PrimaryKey(q)' = PrimaryKey(q)
  BY <1>1 DEF PrimaryKey
<1>11. \A i \in Jobs : i # j => Written(i)' = Written(i)
  BY <1>1, <1>6 DEF Written, PrimaryKey
<1>12. Written(j)' = PrimaryKey(p)
  BY <1>1, <1>5, <1>6 DEF Written, PrimaryKey
<1>13. KeysAreConfigured'
  BY <1>1, <1>5, <1>9, <1>10, <1>11, <1>12 DEF VaultInv, KeysAreConfigured
<1>14. RotationIsComplete'
  BY <1>1, <1>9, <1>10, <1>11 DEF VaultInv, RotationIsComplete, AllPrimary
<1>15. OneWriter'
  <2> SUFFICES ASSUME ~crossed, ~Crosses(j), ~crossed'
               PROVE  OneWriter'
    BY <1>1 DEF OneWriter
  <2>1. \A i \in Jobs \ {j} : ~Pending(i, "save") /\ ~Pending(i, "rotate")
    BY DEF Crosses, Pending
  <2>2. \A i \in Jobs \ {j} : ~Pending(i, "save")' /\ ~Pending(i, "rotate")'
    BY <1>6, <2>1
  <2>3. ~Pending(j, "rotate")'
    BY <1>5, <1>6
  <2>4. ~Crosses(j)'
    BY <2>2 DEF Crosses, Pending
  <2>5. row = Len(rows)
    <3>1. Len(rows) <= 1
      BY DEF VaultInv, OneWriter
    <3> QED BY <1>2, <3>1
  <2> QED BY <1>1, <1>5, <1>6, <2>2, <2>3, <2>4, <2>5 DEF VaultInv, OneWriter
<1> QED BY <1>7, <1>8, <1>13, <1>14, <1>15 DEF VaultInv

LEMMA RotateBeginKeeps ==
  ASSUME VaultInv, NEW j \in Jobs, NEW p \in Processes, RotateBegin(j, p)
  PROVE  VaultInv'
<1> DEFINE again == [i \in DOMAIN rows |-> [rows[i] EXCEPT !.key = PrimaryKey(p)]]
           complete == \A q \in Processes : ring[q] = configured
           new == [kind |-> "rotate", process |-> p, rows |-> again, complete |-> complete]
<1>1. Launch(j, new) /\ crossed' = (crossed \/ Crosses(j))
      /\ UNCHANGED <<configured, ring, rotated, rows, saved, apiKeys, granted>>
  BY DEF RotateBegin, vaultKeys
<1>2. rows \in Seq(Row) /\ PrimaryKey(p) \in 1..MaxKeys
  BY PrimaryIsKey DEF VaultInv, KeyTypes
<1>3. ASSUME NEW i \in DOMAIN rows
      PROVE  again[i] \in Row /\ again[i].key = PrimaryKey(p) /\ again[i].secret = rows[i].secret
  <2>1. rows[i] \in Row
    BY <1>2
  <2> QED BY <1>2, <2>1 DEF Row
<1>a. DOMAIN again = DOMAIN rows
  OBVIOUS
<1>b. again \in Seq(Row)
  BY <1>2, <1>3, <1>a, SameLength
<1>4. /\ again \in Seq(Row) /\ DOMAIN again = DOMAIN rows
      /\ \A i \in DOMAIN again : again[i].key = PrimaryKey(p) /\ again[i].secret = rows[i].secret
  BY <1>3, <1>a, <1>b
<1> HIDE DEF again
<1>5. complete \in BOOLEAN /\ (complete => \A q \in Processes : ring[q] = configured)
  OBVIOUS
<1> HIDE DEF complete
<1>6. new \in RotateJob
  BY <1>4, <1>5 DEF RotateJob
<1>7. /\ new.kind = "rotate" /\ new.rows = again /\ new.process = p /\ new.complete = complete
  OBVIOUS
<1> HIDE DEF new
<1>8. /\ job' \in [Jobs -> {Absent} \union SaveJob \union RotateJob \union KeyJob]
      /\ begun' = begun + 1 /\ begun' \in 0..MaxJobs /\ begun' > begun
      /\ job[j] = Absent /\ job'[j] = new /\ \A i \in Jobs : i # j => job'[i] = job[i]
      /\ \A i \in Jobs, kind \in {"save", "rotate", "key"} :
           Pending(i, kind)' => IF i = j THEN new.kind = kind ELSE Pending(i, kind)
  BY <1>1, <1>6, LaunchedJob
<1>9. KeyTypes'
  BY <1>1, <1>8 DEF VaultInv, KeyTypes
<1>10. ApiTypes' /\ ApiKeysCount'
  <2>1. begun \in Nat /\ begun' \in Nat /\ begun' >= begun
    BY <1>8, VaultAssumption DEF VaultInv, KeyTypes
  <2>2. \A i \in Jobs : Pending(i, "key")' => Pending(i, "key") /\ job'[i] = job[i]
    BY <1>7, <1>8
  <2> QED BY <1>1, <2>1, <2>2, ApiStays
<1>11. \A i \in Jobs, kind \in {"save", "rotate"} : Pending(i, kind)' =>
         \/ i = j /\ kind = "rotate" /\ job'[i] = new
         \/ i # j /\ Pending(i, kind) /\ job'[i] = job[i]
  BY <1>7, <1>8
<1>12. \A q \in Processes : PrimaryKey(q)' = PrimaryKey(q)
  BY <1>1 DEF PrimaryKey
<1>13. \A i \in Jobs : i # j => Written(i)' = Written(i)
  BY <1>1, <1>8 DEF Written, PrimaryKey
<1>14. Written(j)' = PrimaryKey(p)
  BY <1>1, <1>7, <1>8 DEF Written, PrimaryKey
<1>15. KeysAreConfigured'
  BY <1>1, <1>4, <1>7, <1>11, <1>12, <1>13, <1>14 DEF VaultInv, KeysAreConfigured
<1>16. RotationIsComplete'
  <2>1. complete => AllPrimary
    <3>1. \A q \in Processes : PrimaryKey(q) = ring[q][1]
      BY PrimaryIsKey
    <3> QED BY <1>5, <3>1 DEF AllPrimary
  <2> QED BY <1>1, <1>4, <1>7, <1>11, <1>12, <1>13, <2>1 DEF VaultInv, RotationIsComplete, AllPrimary
<1>17. OneWriter'
  <2> SUFFICES ASSUME ~crossed, ~Crosses(j), ~crossed'
               PROVE  OneWriter'
    BY <1>1 DEF OneWriter
  <2>1. \A i \in Jobs \ {j} : ~Pending(i, "save") /\ ~Pending(i, "rotate")
    BY DEF Crosses, Pending
  <2>2. \A i \in Jobs \ {j} : ~Pending(i, "save")' /\ ~Pending(i, "rotate")'
    BY <1>8, <2>1
  <2>3. ~Pending(j, "save")'
    BY <1>7, <1>8
  <2>4. ~Crosses(j)'
    BY <2>2 DEF Crosses, Pending
  <2>5. \A i \in DOMAIN again : again[i].secret = saved
    BY <1>4 DEF VaultInv, OneWriter
  <2> QED BY <1>1, <1>7, <1>8, <2>2, <2>3, <2>4, <2>5 DEF VaultInv, OneWriter
<1> QED BY <1>9, <1>10, <1>15, <1>16, <1>17 DEF VaultInv

LEMMA SaveCommitKeeps ==
  ASSUME VaultInv, NEW j \in Jobs, SaveCommit(j)
  PROVE  VaultInv'
<1> DEFINE new == [key |-> job[j].key, secret |-> job[j].secret]
           row == job[j].row
<1>1. /\ Pending(j, "save") /\ saved' = job[j].secret /\ job' = [job EXCEPT ![j] = Absent]
      /\ rows' = IF row = 0 THEN Append(rows, new) ELSE [rows EXCEPT ![row] = new]
      /\ UNCHANGED <<configured, ring, rotated, begun, crossed, apiKeys, granted>>
  BY DEF SaveCommit, Pending, vaultKeys
<1>2. job[j] \in SaveJob
  BY <1>1 DEF VaultInv, KeyTypes, Pending, SaveJob, RotateJob, KeyJob
<1>3. /\ new \in Row /\ new.key = Written(j) /\ new.secret = saved' /\ row \in Nat
      /\ job[j].process \in Processes /\ job[j].secret \in 1..MaxJobs
  BY <1>1, <1>2 DEF VaultInv, KeysAreConfigured, SaveJob, Row
<1>4. rows \in Seq(Row)
  BY DEF VaultInv, KeyTypes
<1> HIDE DEF new, row
<1>5. /\ rows' \in Seq(Row) /\ DOMAIN rows \subseteq DOMAIN rows'
      /\ \A i \in DOMAIN rows' : rows'[i] = new \/ (i \in DOMAIN rows /\ rows'[i] = rows[i])
  <2>1. CASE row = 0
    <3>1. rows' = Append(rows, new)
      BY <1>1, <2>1
    <3>2. rows' \in Seq(Row) /\ Len(rows') = Len(rows) + 1
      BY <1>3, <1>4, <3>1
    <3>3. \A i \in DOMAIN rows' : IF i = Len(rows) + 1 THEN rows'[i] = new
                                  ELSE i \in DOMAIN rows /\ rows'[i] = rows[i]
      BY <1>3, <1>4, <3>1
    <3>4. DOMAIN rows \subseteq DOMAIN rows'
      BY <1>4, <3>2
    <3> QED BY <3>2, <3>3, <3>4
  <2>2. CASE row # 0
    <3>1. rows' = [rows EXCEPT ![row] = new]
      BY <1>1, <2>2
    <3>2. rows' = [i \in DOMAIN rows |-> rows'[i]] /\ \A i \in DOMAIN rows : rows'[i] = IF i = row THEN new ELSE rows[i]
      BY <3>1
    <3>3. \A i \in DOMAIN rows : rows'[i] \in Row
      BY <1>3, <1>4, <3>2
    <3>4. rows' \in Seq(Row)
      BY <1>4, <3>2, <3>3, SameLength
    <3> QED BY <3>2, <3>4
  <2> QED BY <2>1, <2>2
<1>6. /\ job' \in [Jobs -> {Absent} \union SaveJob \union RotateJob \union KeyJob]
      /\ \A i \in Jobs, kind \in {"save", "rotate", "key"} :
           Pending(i, kind)' => i # j /\ job'[i] = job[i] /\ Pending(i, kind)
  BY <1>1, EndedJob
<1>7. KeyTypes'
  <2>1. saved' \in 0..MaxJobs
    BY <1>1, <1>3, VaultAssumption
  <2> QED BY <1>1, <1>5, <1>6, <2>1 DEF VaultInv, KeyTypes
<1>8. ApiTypes' /\ ApiKeysCount'
  <2>1. begun' \in Nat /\ begun' >= begun
    BY <1>1, VaultAssumption DEF VaultInv, KeyTypes
  <2>2. \A i \in Jobs : Pending(i, "key")' => Pending(i, "key") /\ job'[i] = job[i]
    BY <1>6
  <2> QED BY <1>1, <2>1, <2>2, ApiStays
<1>9. \A q \in Processes : PrimaryKey(q)' = PrimaryKey(q)
  BY <1>1 DEF PrimaryKey
<1>10. \A i \in Jobs, kind \in {"save", "rotate"} : Pending(i, kind)' => Written(i)' = Written(i)
  BY <1>1, <1>6 DEF Written, PrimaryKey
<1>11. KeysAreConfigured'
  <2>1. new.key \in ToSet(configured)
    BY <1>3 DEF VaultInv, KeysAreConfigured, Written
  <2> QED BY <1>1, <1>5, <1>6, <1>9, <1>10, <2>1 DEF VaultInv, KeysAreConfigured
<1>12. RotationIsComplete'
  <2>1. AllPrimary => new.key = configured[1]
    BY <1>3 DEF AllPrimary, Written
  <2>2. AllPrimary => AllPrimary'
    BY <1>1, <1>9 DEF AllPrimary
  <2>3. rotated' = configured'[1] => AllPrimary' /\ \A i \in DOMAIN rows' : rows'[i].key = configured'[1]
    BY <1>1, <1>5, <2>1, <2>2 DEF VaultInv, RotationIsComplete
  <2>4. ASSUME NEW k \in Jobs, (Pending(k, "rotate") /\ job[k].complete /\ Written(k) = configured[1])'
        PROVE  /\ AllPrimary'
               /\ \A i \in DOMAIN rows' : i \in DOMAIN job'[k].rows \/ rows'[i].key = configured'[1]
    <3>1. Pending(k, "rotate") /\ job[k].complete /\ Written(k) = configured[1] /\ job'[k] = job[k]
      BY <1>1, <1>6, <1>10, <2>4
    <3>2. AllPrimary /\ \A i \in DOMAIN rows : i \in DOMAIN job[k].rows \/ rows[i].key = configured[1]
      BY <3>1 DEF VaultInv, RotationIsComplete
    <3> QED BY <1>1, <1>5, <2>1, <2>2, <3>1, <3>2
  <2> QED BY <2>3, <2>4 DEF RotationIsComplete
<1>13. OneWriter'
  <2> SUFFICES ASSUME ~crossed
               PROVE  OneWriter'
    BY <1>1 DEF OneWriter
  <2>1. \A i \in Jobs \ {j} : ~Pending(i, "save") /\ ~Pending(i, "rotate")
    BY <1>1 DEF VaultInv, OneWriter, Crosses, Pending
  <2>2. \A i \in Jobs : ~Pending(i, "save")' /\ ~Pending(i, "rotate")'
    BY <1>6, <2>1
  <2>3. row = Len(rows) /\ Len(rows) <= 1
    BY <1>1 DEF VaultInv, OneWriter, row
  <2>4. Len(rows') <= 1 /\ \A i \in DOMAIN rows' : rows'[i] = new
    <3>1. CASE Len(rows) = 0
      BY <1>1, <1>3, <1>4, <2>3, <3>1
    <3>2. CASE Len(rows) = 1
      <4>1. row = 1 /\ rows' = [rows EXCEPT ![1] = new]
        BY <1>1, <2>3, <3>2
      <4>2. DOMAIN rows' = DOMAIN rows /\ DOMAIN rows = {1}
        BY <1>4, <3>2, <4>1
      <4>3. rows'[1] = new
        BY <4>1, <4>2
      <4>4. Len(rows') = 1
        BY <1>5, <4>2
      <4> QED BY <4>2, <4>3, <4>4
    <3>3. Len(rows) \in Nat
      BY <1>4
    <3> QED BY <2>3, <3>1, <3>2, <3>3
  <2> QED BY <1>1, <1>3, <2>2, <2>4 DEF OneWriter
<1> QED BY <1>7, <1>8, <1>11, <1>12, <1>13 DEF VaultInv

LEMMA RotateCommitKeeps ==
  ASSUME VaultInv, NEW j \in Jobs, RotateCommit(j)
  PROVE  VaultInv'
<1> DEFINE again == job[j].rows
<1>1. /\ Pending(j, "rotate") /\ job' = [job EXCEPT ![j] = Absent]
      /\ rows' = [i \in DOMAIN rows |-> IF i \in DOMAIN again THEN again[i] ELSE rows[i]]
      /\ rotated' = IF job[j].complete THEN Written(j) ELSE rotated
      /\ UNCHANGED <<configured, ring, saved, begun, crossed, apiKeys, granted>>
  BY DEF RotateCommit, Pending, Written, PrimaryKey
<1>2. job[j] \in RotateJob
  BY <1>1 DEF VaultInv, KeyTypes, Pending, SaveJob, RotateJob, KeyJob
<1>3. again \in Seq(Row) /\ job[j].process \in Processes /\ job[j].complete \in BOOLEAN
  BY <1>2 DEF RotateJob
<1>4. rows \in Seq(Row) /\ \A i \in DOMAIN again : again[i] \in Row /\ again[i].key = Written(j)
  BY <1>1, <1>3 DEF VaultInv, KeyTypes, KeysAreConfigured
<1> HIDE DEF again
<1>5. /\ DOMAIN rows' = DOMAIN rows
      /\ \A i \in DOMAIN rows : IF i \in DOMAIN again THEN rows'[i] = again[i] ELSE rows'[i] = rows[i]
  BY <1>1
<1>6. rows' \in Seq(Row) /\ Len(rows') = Len(rows)
  <2>1. rows' = [i \in DOMAIN rows |-> rows'[i]]
    BY <1>1
  <2>2. \A i \in DOMAIN rows : rows'[i] \in Row
    BY <1>4, <1>5
  <2> QED BY <1>4, <2>1, <2>2, SameLength
<1>7. /\ job' \in [Jobs -> {Absent} \union SaveJob \union RotateJob \union KeyJob]
      /\ \A i \in Jobs, kind \in {"save", "rotate", "key"} :
           Pending(i, kind)' => i # j /\ job'[i] = job[i] /\ Pending(i, kind)
  BY <1>1, EndedJob
<1>8. /\ Written(j) \in 1..MaxKeys /\ Written(j) \in ToSet(configured) /\ Written(j) <= configured[1]
  BY <1>3, PrimaryIsKey DEF VaultInv, KeysAreConfigured, Written
<1>9. KeyTypes'
  BY <1>1, <1>3, <1>6, <1>7, <1>8 DEF VaultInv, KeyTypes
<1>10. ApiTypes' /\ ApiKeysCount'
  <2>1. begun' \in Nat /\ begun' >= begun
    BY <1>1, VaultAssumption DEF VaultInv, KeyTypes
  <2>2. \A i \in Jobs : Pending(i, "key")' => Pending(i, "key") /\ job'[i] = job[i]
    BY <1>7
  <2> QED BY <1>1, <2>1, <2>2, ApiStays
<1>11. \A q \in Processes : PrimaryKey(q)' = PrimaryKey(q)
  BY <1>1 DEF PrimaryKey
<1>12. \A i \in Jobs, kind \in {"save", "rotate"} : Pending(i, kind)' => Written(i)' = Written(i)
  BY <1>1, <1>7 DEF Written, PrimaryKey
<1>13. KeysAreConfigured'
  <2>1. rotated' <= configured[1]
    BY <1>1, <1>3, <1>8 DEF VaultInv, KeysAreConfigured
  <2>2. \A i \in DOMAIN rows' : rows'[i].key \in ToSet(configured)
    BY <1>4, <1>5, <1>8 DEF VaultInv, KeysAreConfigured
  <2> QED BY <1>1, <1>7, <1>11, <1>12, <2>1, <2>2 DEF VaultInv, KeysAreConfigured
<1>14. RotationIsComplete'
  <2>1. AllPrimary' <=> AllPrimary
    BY <1>1, <1>11 DEF AllPrimary
  <2>2. AllPrimary => \A i \in DOMAIN again : again[i].key = configured[1]
    BY <1>3, <1>4 DEF AllPrimary, Written
  <2>3. ASSUME rotated' = configured[1]
        PROVE  AllPrimary /\ \A i \in DOMAIN rows' : rows'[i].key = configured[1]
    <3>1. CASE job[j].complete
      <4>1. AllPrimary /\ \A i \in DOMAIN rows : i \in DOMAIN again \/ rows[i].key = configured[1]
        BY <1>1, <2>3, <3>1 DEF VaultInv, RotationIsComplete, again
      <4> QED BY <1>5, <2>2, <4>1
    <3>2. CASE ~job[j].complete
      <4>1. AllPrimary /\ \A i \in DOMAIN rows : rows[i].key = configured[1]
        BY <1>1, <2>3, <3>2 DEF VaultInv, RotationIsComplete
      <4> QED BY <1>5, <2>2, <4>1
    <3> QED BY <3>1, <3>2
  <2>4. ASSUME NEW k \in Jobs, (Pending(k, "rotate") /\ job[k].complete /\ Written(k) = configured[1])'
        PROVE  /\ AllPrimary'
               /\ \A i \in DOMAIN rows' : i \in DOMAIN job'[k].rows \/ rows'[i].key = configured'[1]
    <3>1. Pending(k, "rotate") /\ job[k].complete /\ Written(k) = configured[1] /\ job'[k] = job[k]
      BY <1>1, <1>7, <1>12, <2>4
    <3>2. AllPrimary /\ \A i \in DOMAIN rows : i \in DOMAIN job[k].rows \/ rows[i].key = configured[1]
      BY <3>1 DEF VaultInv, RotationIsComplete
    <3> QED BY <1>1, <1>5, <2>1, <2>2, <3>1, <3>2
  <2> QED BY <1>1, <2>1, <2>3, <2>4 DEF RotationIsComplete
<1>15. OneWriter'
  <2> SUFFICES ASSUME ~crossed
               PROVE  OneWriter'
    BY <1>1 DEF OneWriter
  <2>1. \A i \in Jobs \ {j} : ~Pending(i, "save") /\ ~Pending(i, "rotate")
    BY <1>1 DEF VaultInv, OneWriter, Crosses, Pending
  <2>2. \A i \in Jobs : ~Pending(i, "save")' /\ ~Pending(i, "rotate")'
    BY <1>7, <2>1
  <2>3. \A i \in DOMAIN again : again[i].secret = saved
    BY <1>1 DEF VaultInv, OneWriter, again
  <2>4. Len(rows') <= 1 /\ \A i \in DOMAIN rows' : rows'[i].secret = saved
    BY <1>5, <1>6, <2>3 DEF VaultInv, OneWriter
  <2> QED BY <1>1, <2>2, <2>4 DEF OneWriter
<1> QED BY <1>9, <1>10, <1>13, <1>14, <1>15 DEF VaultInv
-----------------------------------------------------------------------------
(* The operator.                                                           *)

LEMMA PrependKeyKeeps ==
  ASSUME VaultInv, PrependKey
  PROVE  VaultInv'
<1> DEFINE new == configured[1] + 1
<1>1. /\ configured[1] < MaxKeys /\ configured' = <<new>> \o configured
      /\ UNCHANGED <<ring, rotated, rows, saved, job, begun, crossed, apiKeys, granted>>
  BY DEF PrependKey
<1>2. configured \in Seq(1..MaxKeys) /\ configured[1] \in 1..MaxKeys /\ MaxKeys \in Nat
  BY FirstKey, VaultAssumption
<1>3. new \in 1..MaxKeys /\ new > configured[1]
  BY <1>1, <1>2
<1> HIDE DEF new
<1>4. /\ configured' \in Seq(1..MaxKeys) /\ configured' # <<>> /\ configured'[1] = new
      /\ ToSet(configured') = {new} \union ToSet(configured)
  BY <1>1, <1>2, <1>3, FirstAdded
<1>5. KeyTypes'
  BY <1>1, <1>4 DEF VaultInv, KeyTypes
<1>6. ApiTypes' /\ ApiKeysCount' /\ OneWriter'
  BY <1>1 DEF VaultInv, ApiTypes, ApiKeysCount, OneWriter, Pending, Crosses
<1>7. \A q \in Processes : PrimaryKey(q)' = PrimaryKey(q) /\ PrimaryKey(q) \in 1..MaxKeys
  BY <1>1, PrimaryIsKey DEF PrimaryKey
<1>8. \A i \in Jobs, kind \in {"save", "rotate"} : Pending(i, kind)' => Pending(i, kind) /\ Written(i)' = Written(i)
  BY <1>1 DEF Written, PrimaryKey, Pending
<1>9. ToSet(configured) \subseteq 1..MaxKeys /\ rotated \in 1..MaxKeys
  BY <1>2 DEF ToSet, VaultInv, KeyTypes
<1>10. KeysAreConfigured'
  <2>1. rotated' <= configured'[1] /\ \A k \in ToSet(configured') : k <= configured'[1]
    <3>1. \A k \in ToSet(configured) : k <= configured[1] /\ k \in 1..MaxKeys
      BY <1>9 DEF VaultInv, KeysAreConfigured
    <3>2. \A k \in ToSet(configured) : k <= new
      BY <1>2, <1>3, <3>1
    <3>3. rotated <= new
      <4>1. rotated <= configured[1]
        BY DEF VaultInv, KeysAreConfigured
      <4> QED BY <1>2, <1>3, <1>9, <4>1
    <3>4. new <= new
      BY <1>3
    <3> QED BY <1>1, <1>4, <3>2, <3>3, <3>4
  <2>2. \A q \in Processes : PrimaryKey(q)' \in ToSet(configured') /\ PrimaryKey(q)' <= configured'[1]
    <3> SUFFICES ASSUME NEW q \in Processes
                 PROVE  PrimaryKey(q)' \in ToSet(configured') /\ PrimaryKey(q)' <= configured'[1]
      OBVIOUS
    <3>1. PrimaryKey(q) \in ToSet(configured) /\ PrimaryKey(q) <= configured[1] /\ PrimaryKey(q) \in 1..MaxKeys
      BY <1>7 DEF VaultInv, KeysAreConfigured
    <3>2. PrimaryKey(q) <= new
      BY <1>2, <1>3, <3>1
    <3> QED BY <1>4, <1>7, <3>1, <3>2
  <2> QED BY <1>1, <1>4, <1>8, <2>1, <2>2 DEF VaultInv, KeysAreConfigured
<1>11. RotationIsComplete'
  <2>1. rotated' # configured'[1]
    BY <1>1, <1>2, <1>3, <1>4, <1>9 DEF VaultInv, KeysAreConfigured
  <2>2. ASSUME NEW k \in Jobs, Pending(k, "rotate")'
        PROVE  Written(k)' # configured'[1]
    <3>1. job[k].process \in Processes
      BY <1>8, <2>2 DEF VaultInv, KeyTypes, Pending, SaveJob, RotateJob, KeyJob
    <3>2. Written(k) <= configured[1] /\ Written(k) \in 1..MaxKeys
      BY <1>7, <3>1 DEF VaultInv, KeysAreConfigured, Written
    <3> QED BY <1>2, <1>3, <1>4, <1>8, <2>2, <3>2
  <2> QED BY <2>1, <2>2 DEF RotationIsComplete
<1> QED BY <1>5, <1>6, <1>10, <1>11 DEF VaultInv

LEMMA RetireKeysKeeps ==
  ASSUME VaultInv, RetireKeys
  PROVE  VaultInv'
<1>1. /\ rotated = configured[1] /\ configured' = <<configured[1]>>
      /\ UNCHANGED <<ring, rotated, rows, saved, job, begun, crossed, apiKeys, granted>>
  BY DEF RetireKeys
<1>2. configured[1] \in 1..MaxKeys
  BY FirstKey
<1>3. /\ configured' \in Seq(1..MaxKeys) /\ configured' # <<>> /\ configured'[1] = configured[1]
      /\ ToSet(configured') = {configured[1]}
  BY <1>1, <1>2 DEF ToSet
<1>4. AllPrimary /\ \A i \in DOMAIN rows : rows[i].key = configured[1]
  BY <1>1 DEF VaultInv, RotationIsComplete
<1>5. KeyTypes'
  BY <1>1, <1>3 DEF VaultInv, KeyTypes
<1>6. ApiTypes' /\ ApiKeysCount' /\ OneWriter'
  BY <1>1 DEF VaultInv, ApiTypes, ApiKeysCount, OneWriter, Pending, Crosses
<1>7. \A q \in Processes : PrimaryKey(q)' = PrimaryKey(q) /\ PrimaryKey(q) = configured[1]
  BY <1>1, <1>4 DEF PrimaryKey, AllPrimary
<1>8. \A i \in Jobs, kind \in {"save", "rotate"} :
        Pending(i, kind)' => Pending(i, kind) /\ Written(i)' = Written(i) /\ job'[i] = job[i]
  BY <1>1 DEF Written, PrimaryKey, Pending
<1>9. KeysAreConfigured'
  BY <1>1, <1>2, <1>3, <1>4, <1>7, <1>8 DEF VaultInv, KeysAreConfigured
<1>10. RotationIsComplete'
  BY <1>1, <1>3, <1>4, <1>7, <1>8 DEF RotationIsComplete, AllPrimary
<1> QED BY <1>5, <1>6, <1>9, <1>10 DEF VaultInv

LEMMA RestartKeeps ==
  ASSUME VaultInv, NEW p \in Processes, Restart(p)
  PROVE  VaultInv'
<1>1. /\ ring' = [ring EXCEPT ![p] = configured]
      /\ job' = [j \in Jobs |-> IF job[j] # Absent /\ job[j].process = p THEN Absent ELSE job[j]]
      /\ UNCHANGED <<configured, rotated, rows, saved, begun, crossed, apiKeys, granted>>
  BY DEF Restart
<1>2. /\ job \in [Jobs -> {Absent} \union SaveJob \union RotateJob \union KeyJob]
      /\ ring \in [Processes -> Seq(1..MaxKeys) \ {<<>>}]
  BY DEF VaultInv, KeyTypes
<1>3. /\ job' \in [Jobs -> {Absent} \union SaveJob \union RotateJob \union KeyJob]
      /\ \A i \in Jobs : job'[i] = Absent \/ (job'[i] = job[i] /\ job[i].process # p)
  BY <1>1, <1>2
<1>4. \A i \in Jobs, kind \in {"save", "rotate", "key"} :
        Pending(i, kind)' => Pending(i, kind) /\ job'[i] = job[i] /\ job[i].process # p
  BY <1>3 DEF Pending
<1>5. configured \in Seq(1..MaxKeys) \ {<<>>} /\ Head(configured) = configured[1]
      /\ configured[1] \in ToSet(configured) /\ configured[1] \in 1..MaxKeys
  BY FirstKey, FirstOf
<1>6. KeyTypes'
  BY <1>1, <1>2, <1>3, <1>5 DEF VaultInv, KeyTypes
<1>7. ApiTypes' /\ ApiKeysCount'
  <2>1. begun' \in Nat /\ begun' >= begun
    BY <1>1, VaultAssumption DEF VaultInv, KeyTypes
  <2> QED BY <1>1, <1>4, <2>1, ApiStays
<1>8. PrimaryKey(p)' = configured[1] /\ \A q \in Processes \ {p} : PrimaryKey(q)' = PrimaryKey(q)
  BY <1>1, <1>2, <1>5 DEF PrimaryKey
<1>9. ASSUME NEW i \in Jobs, NEW kind \in {"save", "rotate"}, Pending(i, kind)'
      PROVE  Pending(i, kind) /\ job'[i] = job[i] /\ Written(i)' = Written(i)
  <2>1. Pending(i, kind) /\ job'[i] = job[i] /\ job[i].process # p
    BY <1>4, <1>9
  <2>2. job[i].process \in Processes
    BY <1>2, <2>1 DEF Pending, SaveJob, RotateJob, KeyJob
  <2> QED BY <1>1, <1>2, <2>1, <2>2 DEF Written, PrimaryKey
<1>10. KeysAreConfigured'
  BY <1>1, <1>5, <1>8, <1>9 DEF VaultInv, KeysAreConfigured
<1>11. RotationIsComplete'
  BY <1>1, <1>8, <1>9 DEF VaultInv, RotationIsComplete, AllPrimary
<1>12. OneWriter'
  <2>1. \A i \in Jobs : Crosses(i)' => Crosses(i)
    BY <1>3 DEF Crosses
  <2> QED BY <1>1, <1>4, <2>1 DEF VaultInv, OneWriter
<1> QED BY <1>6, <1>7, <1>10, <1>11, <1>12 DEF VaultInv
-----------------------------------------------------------------------------
(* API keys.                                                               *)

LEMMA ApiKeyStepKeeps ==
  ASSUME VaultInv, NEW a \in ApiKeys, NEW scopes \in SUBSET ApiScopes,
         CreateApiKey(a, scopes) \/ RevokeApiKey(a)
  PROVE  VaultInv'
<1> DEFINE row == apiKeys'[a]
<1>1. /\ UNCHANGED <<configured, ring, rotated, rows, saved, job, begun, crossed, granted>>
      /\ \/ apiKeys[a] = Absent /\ apiKeys' = [apiKeys EXCEPT ![a] = [scopes |-> scopes, is_active |-> TRUE, request_count |-> 0]]
         \/ apiKeys[a] # Absent /\ apiKeys' = [apiKeys EXCEPT ![a].is_active = FALSE]
  BY DEF CreateApiKey, RevokeApiKey, vaultKeys
<1>2. apiKeys \in [ApiKeys -> ApiKeyRow \union {Absent}] /\ granted \in [ApiKeys -> Seq(ApiScopes)]
  BY DEF VaultInv, ApiTypes
<1>3. begun \in Nat
  BY VaultAssumption DEF VaultInv, KeyTypes
<1>4. /\ row \in ApiKeyRow
      /\ IF apiKeys[a] = Absent THEN row.request_count = 0
         ELSE row.scopes = apiKeys[a].scopes /\ row.request_count = apiKeys[a].request_count
  <2>1. CASE apiKeys[a] = Absent
    <3>1. row = [scopes |-> scopes, is_active |-> TRUE, request_count |-> 0]
      BY <1>1, <1>2, <2>1
    <3> QED BY <2>1, <3>1 DEF ApiKeyRow
  <2>2. CASE apiKeys[a] # Absent
    <3>1. row = [apiKeys[a] EXCEPT !.is_active = FALSE] /\ apiKeys[a] \in ApiKeyRow
      BY <1>1, <1>2, <2>2
    <3> QED BY <2>2, <3>1 DEF ApiKeyRow
  <2> QED BY <2>1, <2>2
<1>5. row # Absent
  BY <1>4, AbsentAssumption
<1>6. \A b \in ApiKeys : b # a => apiKeys'[b] = apiKeys[b]
  BY <1>1, <1>2
<1>7. ApiTypes'
  <2>1. apiKeys' \in [ApiKeys -> ApiKeyRow \union {Absent}]
    <3>1. apiKeys' = [b \in ApiKeys |-> apiKeys'[b]]
      BY <1>1, <1>2
    <3>2. \A b \in ApiKeys : apiKeys'[b] \in ApiKeyRow \union {Absent}
      BY <1>2, <1>4, <1>6
    <3> QED BY <3>1, <3>2
  <2> QED BY <1>1, <2>1 DEF VaultInv, ApiTypes
<1> HIDE DEF row
<1>8. ASSUME NEW b \in ApiKeys
      PROVE  IF apiKeys'[b] = Absent THEN granted'[b] = <<>>
             ELSE /\ ToSet(granted'[b]) \subseteq apiKeys'[b].scopes
                  /\ apiKeys'[b].request_count <= Len(granted'[b]) /\ apiKeys'[b].request_count <= begun'
  <2>1. CASE b # a
    BY <1>1, <1>6, <2>1 DEF VaultInv, ApiKeysCount
  <2>2. CASE b = a /\ apiKeys[a] = Absent
    <3>1. granted'[a] = <<>> /\ row.request_count = 0
      BY <1>1, <1>4, <2>2 DEF VaultInv, ApiKeysCount
    <3>2. ToSet(granted'[a]) = {} /\ Len(granted'[a]) = 0
      BY <3>1 DEF ToSet
    <3> QED BY <1>1, <1>3, <1>5, <2>2, <3>1, <3>2 DEF row
  <2>3. CASE b = a /\ apiKeys[a] # Absent
    BY <1>1, <1>4, <1>5, <2>3 DEF VaultInv, ApiKeysCount, row
  <2> QED BY <2>1, <2>2, <2>3
<1>9. ASSUME NEW i \in Jobs, Pending(i, "key")'
      PROVE  LET b == job'[i].api IN
             /\ apiKeys'[b] # Absent /\ job'[i].scope \in apiKeys'[b].scopes
             /\ job'[i].count <= Len(granted'[b]) /\ job'[i].count < begun'
  <2> DEFINE b == job[i].api
  <2>1. Pending(i, "key") /\ job'[i] = job[i]
    BY <1>1, <1>9 DEF Pending
  <2>2. b \in ApiKeys
    BY <2>1 DEF VaultInv, KeyTypes, Pending, SaveJob, RotateJob, KeyJob
  <2>3. /\ apiKeys[b] # Absent /\ job[i].scope \in apiKeys[b].scopes
        /\ job[i].count <= Len(granted[b]) /\ job[i].count < begun
    BY <2>1 DEF VaultInv, ApiKeysCount
  <2>4. apiKeys'[b] # Absent /\ apiKeys'[b].scopes = apiKeys[b].scopes
    BY <1>4, <1>5, <1>6, <2>2, <2>3 DEF row
  <2> QED BY <1>1, <2>1, <2>3, <2>4
<1>10. ApiKeysCount'
  BY <1>8, <1>9 DEF ApiKeysCount
<1>11. KeyTypes'
  BY <1>1 DEF VaultInv, KeyTypes
<1>12. KeysAreConfigured' /\ RotationIsComplete' /\ OneWriter'
  <2>1. \A i \in Jobs, kind \in {"save", "rotate"} : Pending(i, kind)' => Pending(i, kind) /\ job'[i] = job[i]
    BY <1>1 DEF Pending
  <2> QED BY <1>1, <2>1, WritersStay
<1> QED BY <1>7, <1>10, <1>11, <1>12 DEF VaultInv

LEMMA AuthenticateBeginKeeps ==
  ASSUME VaultInv, NEW j \in Jobs, NEW p \in Processes, NEW a \in ApiKeys, NEW scope \in ApiScopes,
         AuthenticateBegin(j, p, a, scope)
  PROVE  VaultInv'
<1> DEFINE new == [kind |-> "key", process |-> p, api |-> a, scope |-> scope, count |-> apiKeys[a].request_count]
<1>1. /\ apiKeys[a] # Absent /\ scope \in apiKeys[a].scopes /\ Launch(j, new)
      /\ UNCHANGED <<configured, ring, rotated, rows, saved, crossed, apiKeys, granted>>
  BY DEF AuthenticateBegin, vaultKeys
<1>2. apiKeys[a] \in ApiKeyRow
  BY <1>1 DEF VaultInv, ApiTypes
<1>3. new \in KeyJob
  BY <1>2 DEF KeyJob, ApiKeyRow
<1>4. new.kind = "key" /\ new.api = a /\ new.scope = scope /\ new.count = apiKeys[a].request_count
  OBVIOUS
<1> HIDE DEF new
<1>5. /\ job' \in [Jobs -> {Absent} \union SaveJob \union RotateJob \union KeyJob]
      /\ begun' = begun + 1 /\ begun' \in 0..MaxJobs /\ begun' > begun
      /\ job[j] = Absent /\ job'[j] = new /\ \A i \in Jobs : i # j => job'[i] = job[i]
      /\ \A i \in Jobs, kind \in {"save", "rotate", "key"} :
           Pending(i, kind)' => IF i = j THEN new.kind = kind ELSE Pending(i, kind)
  BY <1>1, <1>3, LaunchedJob
<1>6. KeyTypes'
  BY <1>1, <1>5 DEF VaultInv, KeyTypes
<1>7. KeysAreConfigured' /\ RotationIsComplete' /\ OneWriter'
  <2>1. \A i \in Jobs, kind \in {"save", "rotate"} : Pending(i, kind)' => Pending(i, kind) /\ job'[i] = job[i]
    BY <1>4, <1>5
  <2> QED BY <1>1, <2>1, WritersStay
<1>8. ApiTypes'
  BY <1>1 DEF VaultInv, ApiTypes
<1>9. begun \in Nat /\ begun' \in Nat /\ apiKeys[a].request_count \in Nat
  BY <1>2, <1>5, VaultAssumption DEF VaultInv, KeyTypes, ApiKeyRow
<1>10. ASSUME NEW b \in ApiKeys
       PROVE  IF apiKeys'[b] = Absent THEN granted'[b] = <<>>
              ELSE /\ ToSet(granted'[b]) \subseteq apiKeys'[b].scopes
                   /\ apiKeys'[b].request_count <= Len(granted'[b]) /\ apiKeys'[b].request_count <= begun'
  <2>1. apiKeys[b] # Absent => apiKeys[b].request_count \in Nat
    BY DEF VaultInv, ApiTypes, ApiKeyRow
  <2> QED BY <1>1, <1>5, <1>9, <2>1 DEF VaultInv, ApiKeysCount
<1>11. ASSUME NEW i \in Jobs, Pending(i, "key")'
       PROVE  LET b == job'[i].api IN
              /\ apiKeys'[b] # Absent /\ job'[i].scope \in apiKeys'[b].scopes
              /\ job'[i].count <= Len(granted'[b]) /\ job'[i].count < begun'
  <2>1. CASE i = j
    <3>1. apiKeys[a].request_count <= Len(granted[a]) /\ apiKeys[a].request_count <= begun
      BY <1>1 DEF VaultInv, ApiKeysCount
    <3>2. apiKeys[a].request_count < begun'
      BY <1>5, <1>9, <3>1
    <3> QED BY <1>1, <1>4, <1>5, <2>1, <3>1, <3>2
  <2>2. CASE i # j
    <3>1. Pending(i, "key") /\ job'[i] = job[i]
      BY <1>5, <1>11, <2>2
    <3>2. job[i].count \in Nat
      BY <3>1 DEF VaultInv, KeyTypes, Pending, SaveJob, RotateJob, KeyJob
    <3>3. LET b == job[i].api IN
          /\ apiKeys[b] # Absent /\ job[i].scope \in apiKeys[b].scopes
          /\ job[i].count <= Len(granted[b]) /\ job[i].count < begun
      BY <3>1 DEF VaultInv, ApiKeysCount
    <3>4. job[i].count < begun'
      BY <1>5, <1>9, <3>2, <3>3
    <3> QED BY <1>1, <3>1, <3>3, <3>4
  <2> QED BY <2>1, <2>2
<1> QED BY <1>6, <1>7, <1>8, <1>10, <1>11 DEF VaultInv, ApiKeysCount

LEMMA AuthenticateCommitKeeps ==
  ASSUME VaultInv, NEW j \in Jobs, AuthenticateCommit(j)
  PROVE  VaultInv'
<1> DEFINE a == job[j].api
           scope == job[j].scope
           count == job[j].count
<1>1. /\ Pending(j, "key") /\ job' = [job EXCEPT ![j] = Absent]
      /\ apiKeys' = [apiKeys EXCEPT ![a].request_count = count + 1]
      /\ granted' = [granted EXCEPT ![a] = Append(@, scope)]
      /\ UNCHANGED <<configured, ring, rotated, rows, saved, begun, crossed>>
  BY DEF AuthenticateCommit, Pending, vaultKeys
<1>2. job[j] \in KeyJob
  BY <1>1 DEF VaultInv, KeyTypes, Pending, SaveJob, RotateJob, KeyJob
<1>3. a \in ApiKeys /\ scope \in ApiScopes /\ count \in Nat
  BY <1>2 DEF KeyJob
<1>4. apiKeys[a] # Absent /\ scope \in apiKeys[a].scopes /\ count <= Len(granted[a]) /\ count < begun
  BY <1>1 DEF VaultInv, ApiKeysCount
<1> HIDE DEF a, scope, count
<1>5. apiKeys \in [ApiKeys -> ApiKeyRow \union {Absent}] /\ granted \in [ApiKeys -> Seq(ApiScopes)] /\ begun \in Nat
  BY VaultAssumption DEF VaultInv, ApiTypes, KeyTypes
<1>6. /\ job' \in [Jobs -> {Absent} \union SaveJob \union RotateJob \union KeyJob]
      /\ \A i \in Jobs, kind \in {"save", "rotate", "key"} :
           Pending(i, kind)' => i # j /\ job'[i] = job[i] /\ Pending(i, kind)
  BY <1>1, EndedJob
<1>7. apiKeys'[a] \in ApiKeyRow /\ apiKeys'[a].scopes = apiKeys[a].scopes /\ apiKeys'[a].request_count = count + 1
  <2>1. apiKeys[a] \in ApiKeyRow /\ apiKeys'[a] = [apiKeys[a] EXCEPT !.request_count = count + 1]
    BY <1>1, <1>3, <1>4, <1>5
  <2> QED BY <1>3, <2>1 DEF ApiKeyRow
<1>8. apiKeys'[a] # Absent
  BY <1>7, AbsentAssumption
<1>9. \A b \in ApiKeys : b # a => apiKeys'[b] = apiKeys[b] /\ granted'[b] = granted[b]
  BY <1>1, <1>5
<1>10. /\ granted'[a] \in Seq(ApiScopes) /\ Len(granted'[a]) = Len(granted[a]) + 1 /\ Len(granted[a]) \in Nat
       /\ ToSet(granted'[a]) \subseteq ToSet(granted[a]) \union {scope}
  <2>1. granted'[a] = Append(granted[a], scope) /\ granted[a] \in Seq(ApiScopes)
    BY <1>1, <1>3, <1>5
  <2>2. /\ granted'[a] \in Seq(ApiScopes) /\ Len(granted'[a]) = Len(granted[a]) + 1 /\ Len(granted[a]) \in Nat
        /\ \A i \in DOMAIN granted'[a] :
             granted'[a][i] = scope \/ (i \in DOMAIN granted[a] /\ granted'[a][i] = granted[a][i])
    BY <1>3, <2>1
  <2> QED BY <2>2 DEF ToSet
<1>11. ApiTypes'
  <2>1. apiKeys' = [b \in ApiKeys |-> apiKeys'[b]] /\ granted' = [b \in ApiKeys |-> granted'[b]]
    BY <1>1, <1>5
  <2>2. \A b \in ApiKeys : apiKeys'[b] \in ApiKeyRow \union {Absent} /\ granted'[b] \in Seq(ApiScopes)
    BY <1>5, <1>7, <1>9, <1>10
  <2> QED BY <2>1, <2>2 DEF ApiTypes
<1>12. ASSUME NEW b \in ApiKeys
       PROVE  IF apiKeys'[b] = Absent THEN granted'[b] = <<>>
              ELSE /\ ToSet(granted'[b]) \subseteq apiKeys'[b].scopes
                   /\ apiKeys'[b].request_count <= Len(granted'[b]) /\ apiKeys'[b].request_count <= begun'
  <2>1. CASE b # a
    BY <1>1, <1>9, <2>1 DEF VaultInv, ApiKeysCount
  <2>2. CASE b = a
    <3>1. ToSet(granted[a]) \subseteq apiKeys[a].scopes
      BY <1>3, <1>4 DEF VaultInv, ApiKeysCount
    <3>2. ToSet(granted'[a]) \subseteq apiKeys'[a].scopes
      BY <1>4, <1>7, <1>10, <3>1
    <3>3. count + 1 <= Len(granted'[a]) /\ count + 1 <= begun
      BY <1>3, <1>4, <1>5, <1>10
    <3> QED BY <1>1, <1>7, <1>8, <2>2, <3>2, <3>3
  <2> QED BY <2>1, <2>2
<1>13. ASSUME NEW i \in Jobs, Pending(i, "key")'
       PROVE  LET b == job'[i].api IN
              /\ apiKeys'[b] # Absent /\ job'[i].scope \in apiKeys'[b].scopes
              /\ job'[i].count <= Len(granted'[b]) /\ job'[i].count < begun'
  <2> DEFINE b == job[i].api
  <2>1. Pending(i, "key") /\ job'[i] = job[i]
    BY <1>6, <1>13
  <2>2. b \in ApiKeys /\ job[i].count \in Nat
    BY <2>1 DEF VaultInv, KeyTypes, Pending, SaveJob, RotateJob, KeyJob
  <2>3. /\ apiKeys[b] # Absent /\ job[i].scope \in apiKeys[b].scopes
        /\ job[i].count <= Len(granted[b]) /\ job[i].count < begun
    BY <2>1 DEF VaultInv, ApiKeysCount
  <2> HIDE DEF b
  <2>4. apiKeys'[b] # Absent /\ apiKeys'[b].scopes = apiKeys[b].scopes
    BY <1>7, <1>8, <1>9, <2>2, <2>3
  <2>5. job[i].count <= Len(granted'[b])
    BY <1>9, <1>10, <2>2, <2>3
  <2> QED BY <1>1, <2>1, <2>3, <2>4, <2>5 DEF b
<1>14. ApiKeysCount'
  BY <1>12, <1>13 DEF ApiKeysCount
<1>15. KeyTypes'
  BY <1>1, <1>6 DEF VaultInv, KeyTypes
<1>16. KeysAreConfigured' /\ RotationIsComplete' /\ OneWriter'
  <2>1. \A i \in Jobs, kind \in {"save", "rotate"} : Pending(i, kind)' => Pending(i, kind) /\ job'[i] = job[i]
    BY <1>6
  <2> QED BY <1>1, <2>1, WritersStay
<1> QED BY <1>11, <1>14, <1>15, <1>16 DEF VaultInv
-----------------------------------------------------------------------------
LEMMA VaultInitHolds == VaultInit => VaultInv
<1> SUFFICES ASSUME VaultInit PROVE VaultInv
  OBVIOUS
<1>1. 1 \in 1..MaxKeys /\ 0 \in 0..MaxJobs
  BY VaultAssumption
<1>2. ToSet(<<1>>) = {1} /\ Head(<<1>>) = 1 /\ <<1>> \in Seq(1..MaxKeys) \ {<<>>} /\ <<1>>[1] = 1
  BY <1>1 DEF ToSet
<1>3. \A j \in Jobs, kind \in {"save", "rotate", "key"} : ~Pending(j, kind)
  BY DEF VaultInit, Pending
<1>4. KeyTypes /\ ApiTypes
  <2>1. rows \in Seq(Row) /\ \A a \in ApiKeys : granted[a] \in Seq(ApiScopes)
    BY DEF VaultInit
  <2>2. job \in [Jobs -> {Absent} \union SaveJob \union RotateJob \union KeyJob]
    BY DEF VaultInit
  <2>3. ring \in [Processes -> Seq(1..MaxKeys) \ {<<>>}] /\ configured \in Seq(1..MaxKeys) \ {<<>>}
    BY <1>2 DEF VaultInit
  <2>4. ApiTypes
    BY <2>1 DEF VaultInit, ApiTypes
  <2> QED BY <1>1, <2>1, <2>2, <2>3, <2>4 DEF VaultInit, KeyTypes
<1>5. KeysAreConfigured /\ RotationIsComplete
  BY <1>2, <1>3 DEF VaultInit, KeysAreConfigured, RotationIsComplete, AllPrimary, PrimaryKey
<1>6. OneWriter /\ ApiKeysCount
  BY <1>3 DEF VaultInit, OneWriter, ApiKeysCount
<1> QED BY <1>4, <1>5, <1>6 DEF VaultInv

LEMMA VaultInductive == VaultInv /\ [VaultNext]_vaultVars => VaultInv'
<1> SUFFICES ASSUME VaultInv, [VaultNext]_vaultVars PROVE VaultInv'
  OBVIOUS
<1>1. CASE UNCHANGED vaultVars
  <2>1. UNCHANGED <<configured, ring, rows, saved, job, begun, rotated, crossed, apiKeys, granted>>
    BY <1>1 DEF vaultVars
  <2>2. KeyTypes' /\ ApiTypes'
    BY <2>1 DEF VaultInv, KeyTypes, ApiTypes
  <2>3. KeysAreConfigured' /\ RotationIsComplete'
    BY <2>1 DEF VaultInv, KeysAreConfigured, RotationIsComplete, AllPrimary, PrimaryKey, Written, Pending
  <2>4. OneWriter' /\ ApiKeysCount'
    BY <2>1 DEF VaultInv, OneWriter, ApiKeysCount, Crosses, Pending
  <2> QED BY <2>2, <2>3, <2>4 DEF VaultInv
<1>2. CASE VaultNext
  BY <1>2, PrependKeyKeeps, RetireKeysKeeps, RestartKeeps, SaveBeginKeeps, RotateBeginKeeps,
     AuthenticateBeginKeeps, SaveCommitKeeps, RotateCommitKeeps, AuthenticateCommitKeeps, ApiKeyStepKeeps
     DEF VaultNext
<1> QED BY <1>1, <1>2

\* The invariant of the vault.
LEMMA VaultInvariance == VaultSpec => []VaultInv
BY VaultInitHolds, VaultInductive, PTL DEF VaultSpec

\* Type correctness of the vault.
THEOREM VaultTypeCorrect == VaultSpec => []VaultTypeOK
<1>1. VaultInv => VaultTypeOK
  <2> SUFFICES ASSUME VaultInv PROVE VaultTypeOK
    OBVIOUS
  <2>1. ASSUME NEW i \in DOMAIN rows
        PROVE  rows[i].key \in 1..MaxKeys /\ rows[i].secret \in 1..MaxJobs
    <3>1. rows \in Seq(Row)
      BY DEF VaultInv, KeyTypes
    <3>2. rows[i] \in Row
      BY <3>1
    <3> QED BY <3>2 DEF Row
  <2>2. ASSUME NEW a \in ApiKeys, apiKeys[a] # Absent
        PROVE  apiKeys[a].request_count \in 0..MaxJobs
    <3>1. apiKeys[a].request_count \in Nat
      BY <2>2 DEF VaultInv, ApiTypes, ApiKeyRow
    <3>2. apiKeys[a].request_count <= begun
      BY <2>2 DEF VaultInv, ApiKeysCount
    <3>3. begun \in 0..MaxJobs
      BY DEF VaultInv, KeyTypes
    <3> QED BY <3>1, <3>2, <3>3, VaultAssumption
  <2> QED BY <2>1, <2>2 DEF VaultInv, KeyTypes, VaultTypeOK
<1> QED BY <1>1, VaultInvariance, PTL

\* Every process with the present keys decrypts every row, whatever the interleaving of
\* saves, rotations, restarts and retired keys; without an overlap there is one row with
\* the last secret; and no API key counts a request it did not grant
\* (KeyRotationService.rotate_credentials, CredentialService, ConsumerService.authenticate).
THEOREM SecretsSurvive == VaultSpec => []SecretsSurviveRotation
<1>1. VaultInv => SecretsSurviveRotation
  <2> SUFFICES ASSUME VaultInv PROVE SecretsSurviveRotation
    OBVIOUS
  <2>1. \A p \in Processes, i \in DOMAIN rows : ring[p] = configured => Decrypts(p, rows[i])
    BY DEF VaultInv, KeysAreConfigured, Decrypts
  <2>2. ~crossed => Len(rows) <= 1 /\ \A i \in DOMAIN rows : rows[i].secret = saved
    BY DEF VaultInv, OneWriter
  <2>3. \A a \in ApiKeys : apiKeys[a] # Absent =>
          /\ ToSet(granted[a]) \subseteq apiKeys[a].scopes
          /\ apiKeys[a].request_count <= Len(granted[a])
    BY DEF VaultInv, ApiKeysCount
  <2> QED BY <2>1, <2>2, <2>3 DEF SecretsSurviveRotation
<1> QED BY <1>1, VaultInvariance, PTL

-----------------------------------------------------------------------------
(* Sessions.                                                               *)

TaskRecord == [step : {"rotate", "logout"}, host : Hosts, token : Ids, also : SUBSET Ids]

SessionTypes ==
  /\ tick \in Nat /\ outages \in Nat /\ redisUp \in BOOLEAN
  /\ redis \in [Ids -> Int] /\ memory \in [Hosts -> [Ids -> Int]]
  /\ \E n \in 0..MaxTokens : Issued = 1..n
  /\ \A t \in Issued : tokens[t].expires \in Nat /\ tokens[t].parent \in Issued \union {Empty}
  /\ task \in [Tasks -> TaskRecord \union {Empty}]
  /\ \A k \in Tasks : task[k] # Empty => task[k].token \in Issued /\ task[k].also \subseteq Issued
  /\ ended \subseteq Issued \X (Hosts \union {"redis"})
  /\ together \subseteq Issued
  /\ outages = 0 => redisUp

\* When the block of token t ends, where it was taken.
EndOf(t, place) == IF place = "redis" THEN redis[t] ELSE memory[place][t]

\* A block lasts into the last second of its token.
BlocksLast ==
  \A t \in Issued, place \in Hosts \union {"redis"} :
    <<t, place>> \in ended /\ tick + Second <= tokens[t].expires =>
      EndOf(t, place) > tokens[t].expires - Second

Rotating(k, t) == task[k] # Empty /\ task[k].step = "rotate" /\ task[k].token = t

\* The token of an exchange is spent, or one handler holds it that found it unspent.
SpentOf(t) ==
  /\ \A u, v \in Successors(t) : u = v
  /\ Successors(t) # {} => <<t, "redis">> \in ended \/ tokens[t].expires <= tick
  /\ \A k \in Tasks : Rotating(k, t) => Successors(t) = {} \/ tick + Second > tokens[t].expires
  /\ \A k, l \in Tasks : Rotating(k, t) /\ Rotating(l, t) => k = l

SpentOnce == outages = 0 => \A t \in Issued \ together : SpentOf(t)

SessionInv == SessionTypes /\ BlocksLast /\ SpentOnce
-----------------------------------------------------------------------------
\* A lifetime in whole seconds falls short by less than one.
LEMMA WholeSeconds ==
  ASSUME NEW a \in Nat, NEW s \in Nat \ {0}
  PROVE  /\ (a \div s) * s \in Int
         /\ (a \div s) * s <= a
         /\ (a \div s) * s > a - s
<1> DEFINE whole == (a \div s) * s
<1>1. a \div s \in Int
  OBVIOUS
<1>2. whole \in Int
  BY <1>1
<1>3. a = whole + (a % s) /\ a % s \in 0..(s - 1)
  OBVIOUS
<1> HIDE DEF whole
<1>4. whole <= a /\ whole > a - s
  BY <1>2, <1>3
<1> QED BY <1>2, <1>4 DEF whole

\* A block covers the token it was taken for, and touches no other.
LEMMA BlockCovers ==
  ASSUME SessionTypes, NEW h \in Hosts, NEW t \in Issued, Block(h, t), UNCHANGED redisUp
  PROVE  /\ redis' \in [Ids -> Int] /\ memory' \in [Hosts -> [Ids -> Int]]
         /\ tick + Second <= tokens[t].expires => EndOf(t, Place(h))' > tokens[t].expires - Second
         /\ \A s \in Issued, place \in Hosts \union {"redis"} :
              s # t \/ place # Place(h) => EndOf(s, place)' = EndOf(s, place)
<1> DEFINE ttl == RemainingTtl(t)
           span == tokens[t].expires - tick
<1>1. /\ tick \in Nat /\ tokens[t].expires \in Nat /\ t \in Ids /\ Issued \subseteq Ids
      /\ redis \in [Ids -> Int] /\ memory \in [Hosts -> [Ids -> Int]] /\ redisUp \in BOOLEAN
      /\ Second \in Nat \ {0} /\ "redis" \notin Hosts
  BY SessionAssumption DEF SessionTypes, Ids
<1>2. ttl \in Int /\ (tick + Second <= tokens[t].expires => ttl > span - Second)
  <2>1. CASE tokens[t].expires > tick
    <3>1. span \in Nat
      BY <1>1, <2>1
    <3>2. ttl = (span \div Second) * Second
      BY <2>1 DEF RemainingTtl
    <3> HIDE DEF ttl, span
    <3> QED BY <1>1, <3>1, <3>2, WholeSeconds
  <2>2. CASE ~(tokens[t].expires > tick)
    <3>1. ttl = 0
      BY <2>2 DEF RemainingTtl
    <3> HIDE DEF ttl
    <3> QED BY <1>1, <2>2, <3>1
  <2> QED BY <2>1, <2>2
<1> HIDE DEF ttl
<1>3. CASE redisUp
  <2> DEFINE end == tick + (IF ttl < Second THEN Second ELSE ttl)
  <2>1. redis' = [redis EXCEPT ![t] = end] /\ memory' = memory /\ Place(h) = "redis"
    BY <1>3 DEF Block, Place, ttl
  <2>2. end \in Int /\ (tick + Second <= tokens[t].expires => end > tokens[t].expires - Second)
    BY <1>1, <1>2
  <2> HIDE DEF end
  <2>3. redis' \in [Ids -> Int] /\ redis'[t] = end /\ \A s \in Ids : s # t => redis'[s] = redis[s]
    BY <1>1, <2>1, <2>2
  <2>4. EndOf(t, Place(h))' = end
    BY <1>3, <2>3 DEF EndOf, Place
  <2>5. ASSUME NEW s \in Issued, NEW place \in Hosts \union {"redis"}, s # t \/ place # Place(h)
        PROVE  EndOf(s, place)' = EndOf(s, place)
    BY <1>1, <2>1, <2>3, <2>5 DEF EndOf
  <2> QED BY <1>1, <2>1, <2>2, <2>3, <2>4, <2>5
<1>4. CASE ~redisUp
  <2> DEFINE end == tick + ttl
  <2>1. memory' = [memory EXCEPT ![h][t] = end] /\ redis' = redis /\ Place(h) = h
    BY <1>4 DEF Block, Place, ttl
  <2>2. end \in Int /\ (tick + Second <= tokens[t].expires => end > tokens[t].expires - Second)
    BY <1>1, <1>2
  <2> HIDE DEF end
  <2>3. memory' \in [Hosts -> [Ids -> Int]] /\ memory'[h][t] = end
        /\ \A g \in Hosts, s \in Ids : g # h \/ s # t => memory'[g][s] = memory[g][s]
    BY <1>1, <2>1, <2>2
  <2>4. EndOf(t, Place(h))' = end
    BY <1>1, <1>4, <2>3 DEF EndOf, Place
  <2>5. ASSUME NEW s \in Issued, NEW place \in Hosts \union {"redis"}, s # t \/ place # Place(h)
        PROVE  EndOf(s, place)' = EndOf(s, place)
    BY <1>1, <2>1, <2>3, <2>5 DEF EndOf
  <2> QED BY <1>1, <2>1, <2>2, <2>3, <2>4, <2>5
<1> QED BY <1>3, <1>4

\* A pair has two new numbers; nothing that was issued changes.
LEMMA IssueExtends ==
  ASSUME SessionTypes, NEW parent \in Issued \union {Empty}, Issue(parent)
  PROVE  \E n \in 0..MaxTokens :
           /\ Issued = 1..n /\ n + 2 <= MaxTokens
           /\ DOMAIN tokens' = 1..(n + 2)
           /\ \A t \in 1..n : tokens'[t] = tokens[t]
           /\ tokens'[n + 1] = NewToken("access", AccessTtl, parent)
           /\ tokens'[n + 2] = NewToken("refresh", RefreshTtl, parent)
<1>1. PICK n \in 0..MaxTokens : Issued = 1..n
  BY DEF SessionTypes
<1>2. n \in Nat /\ MaxTokens \in Nat
  BY SessionAssumption
<1>3. Cardinality(Issued) = n
  BY <1>1, <1>2, FS_Interval
<1>4. /\ n + 2 <= MaxTokens
      /\ tokens' = [t \in Issued \union {n + 1, n + 2} |->
                      IF t \in Issued THEN tokens[t]
                      ELSE IF t = n + 1 THEN NewToken("access", AccessTtl, parent)
                      ELSE NewToken("refresh", RefreshTtl, parent)]
  BY <1>3 DEF Issue
<1>5. Issued \union {n + 1, n + 2} = 1..(n + 2) /\ n + 1 \notin Issued /\ n + 2 \notin Issued
  BY <1>1, <1>2
<1>6. /\ DOMAIN tokens' = 1..(n + 2)
      /\ \A t \in 1..n : tokens'[t] = tokens[t]
      /\ tokens'[n + 1] = NewToken("access", AccessTtl, parent)
      /\ tokens'[n + 2] = NewToken("refresh", RefreshTtl, parent)
  BY <1>1, <1>2, <1>4, <1>5
<1> QED BY <1>1, <1>4, <1>6

LEMMA InitEstablishes == SessionInit => SessionInv
<1> SUFFICES ASSUME SessionInit PROVE SessionInv
  OBVIOUS
<1>1. Issued = {} /\ ended = {} /\ together = {} /\ tick = 0 /\ outages = 0 /\ redisUp = TRUE
      /\ redis = [t \in Ids |-> 0] /\ memory = [h \in Hosts |-> [t \in Ids |-> 0]]
      /\ task = [k \in Tasks |-> Empty]
  BY DEF SessionInit, Issued
<1>2. 0 \in 0..MaxTokens /\ Issued = 1..0
  BY <1>1, SessionAssumption
<1>3. SessionTypes
  BY <1>1, <1>2 DEF SessionTypes
<1>4. BlocksLast /\ SpentOnce
  BY <1>1 DEF BlocksLast, SpentOnce, SpentOf
<1> QED BY <1>3, <1>4 DEF SessionInv

\* The account, Redis going and coming back, and a client that gives up.
LEMMA PlainPreserves ==
  SessionInv /\ (Register \/ RedisFails \/ RedisReturns \/ \E k \in Tasks : Drop(k)) => SessionInv'
<1> SUFFICES ASSUME SessionInv, Register \/ RedisFails \/ RedisReturns \/ \E k \in Tasks : Drop(k)
             PROVE  SessionInv'
  OBVIOUS
<1>1. SessionTypes /\ BlocksLast /\ SpentOnce
  BY DEF SessionInv
<1>2. /\ UNCHANGED <<tokens, redis, memory, tick, ended, together>>
      /\ outages' \in Nat /\ redisUp' \in BOOLEAN /\ (outages' = 0 => outages = 0 /\ redisUp')
  <2>1. outages \in Nat /\ redisUp \in BOOLEAN /\ (outages = 0 => redisUp)
    BY <1>1 DEF SessionTypes
  <2>2. CASE RedisFails
    <3>1. outages' = outages + 1 /\ redisUp' = FALSE /\ UNCHANGED <<tokens, redis, memory, tick, ended, together>>
      BY <2>2 DEF RedisFails
    <3>2. outages' \in Nat /\ outages' # 0
      BY <2>1, <3>1
    <3> QED BY <3>1, <3>2
  <2>3. CASE RedisReturns
    BY <2>1, <2>3 DEF RedisReturns
  <2>4. CASE Register \/ \E k \in Tasks : Drop(k)
    BY <2>1, <2>4 DEF Register, Drop
  <2> QED BY <2>2, <2>3, <2>4
<1>3. /\ task' \in [Tasks -> TaskRecord \union {Empty}]
      /\ \A k \in Tasks : task'[k] = task[k] \/ task'[k] = Empty
  BY <1>1 DEF Register, RedisFails, RedisReturns, Drop, SessionTypes
<1>4. SessionTypes'
  BY <1>1, <1>2, <1>3 DEF SessionTypes, Issued
<1>5. BlocksLast'
  BY <1>1, <1>2 DEF BlocksLast, EndOf, Issued
<1>6. SpentOnce'
  <2>1. \A t : Successors(t)' = Successors(t)
    BY <1>2 DEF Successors, Issued
  <2>2. \A k \in Tasks, t \in Issued : Rotating(k, t)' => Rotating(k, t)
    BY <1>3 DEF Rotating
  <2> QED BY <1>1, <1>2, <2>1, <2>2 DEF SpentOnce, SpentOf, Issued
<1> QED BY <1>4, <1>5, <1>6 DEF SessionInv

\* What a new pair does to the successors of a token: only its parent gains one.
LEMMA IssuedSuccessors ==
  ASSUME SessionTypes, NEW parent \in Issued \union {Empty}, Issue(parent), UNCHANGED tick
  PROVE  /\ Issued \subseteq Issued' /\ \A t \in Issued : tokens'[t] = tokens[t]
         /\ \A t \in Issued' : tokens'[t].expires \in Nat /\ tokens'[t].parent \in Issued' \union {Empty}
         /\ \E n \in 0..MaxTokens : Issued' = 1..n
         /\ \A t \in Issued' \ Issued : Successors(t)' = {}
         /\ \A t \in Issued : t # parent => Successors(t)' = Successors(t)
         /\ parent \in Issued =>
              \E u : /\ Successors(parent)' \subseteq Successors(parent) \union {u}
                     /\ tick + Second > tokens[parent].expires
                          => Successors(parent)' = Successors(parent)
<1>1. PICK n \in 0..MaxTokens :
        /\ Issued = 1..n /\ n + 2 <= MaxTokens
        /\ DOMAIN tokens' = 1..(n + 2)
        /\ \A t \in 1..n : tokens'[t] = tokens[t]
        /\ tokens'[n + 1] = NewToken("access", AccessTtl, parent)
        /\ tokens'[n + 2] = NewToken("refresh", RefreshTtl, parent)
  BY IssueExtends
<1>2. Issued' = 1..(n + 2) /\ n \in Nat /\ MaxTokens \in Nat /\ Empty \notin Issued'
      /\ tick \in Nat /\ AccessTtl \in Nat /\ RefreshTtl \in Nat /\ Second \in Nat
  BY <1>1, SessionAssumption DEF Issued, SessionTypes
<1>3. Issued' = Issued \union {n + 1, n + 2} /\ n + 1 \notin Issued /\ n + 2 \notin Issued
      /\ n + 2 \in 0..MaxTokens
  BY <1>1, <1>2
<1>4. /\ tokens'[n + 1].type = "access" /\ tokens'[n + 1].parent = parent
      /\ tokens'[n + 1].expires \in Nat
      /\ tokens'[n + 2].parent = parent /\ tokens'[n + 2].expires = tick + RefreshTtl
      /\ tokens'[n + 2].expires \in Nat
  BY <1>1, <1>2 DEF NewToken
<1>5. \A t \in Issued : /\ tokens'[t] = tokens[t] /\ tokens[t].expires \in Nat
                        /\ tokens[t].parent \in Issued \union {Empty}
  BY <1>1 DEF SessionTypes
<1>6. \A t \in Issued' : tokens'[t].expires \in Nat /\ tokens'[t].parent \in Issued' \union {Empty}
  BY <1>3, <1>4, <1>5
<1>7. ASSUME NEW t \in Issued' \ Issued, NEW u \in Issued' PROVE tokens'[u].parent # t
  <2>1. tokens'[u].parent \in Issued \union {Empty}
    BY <1>3, <1>4, <1>5
  <2> QED BY <1>2, <2>1
<1>8. \A t \in Issued' \ Issued : Successors(t)' = {}
  BY <1>7 DEF Successors
<1>9. ASSUME NEW t \in Issued, t # parent PROVE Successors(t)' = Successors(t)
  BY <1>3, <1>4, <1>5, <1>9 DEF Successors
<1>10. ASSUME parent \in Issued
       PROVE  /\ Successors(parent)' \subseteq Successors(parent) \union {n + 2}
              /\ tick + Second > tokens[parent].expires
                   => Successors(parent)' = Successors(parent)
  <2>1. \A u \in Issued : u \in Successors(parent)' <=> u \in Successors(parent)
    BY <1>3, <1>5, <1>10 DEF Successors
  <2>2. n + 1 \notin Successors(parent)'
    BY <1>4 DEF Successors
  <2>3. n + 2 \in Successors(parent)' => tick + Second <= tokens[parent].expires
    BY <1>2, <1>4, <1>5, <1>10 DEF Successors
  <2>4. Successors(parent)' \subseteq Issued' /\ Successors(parent) \subseteq Issued
    BY DEF Successors
  <2>5. tick \in Nat /\ Second \in Nat /\ tokens[parent].expires \in Nat
    BY <1>2, <1>5, <1>10
  <2> QED BY <1>3, <2>1, <2>2, <2>3, <2>4, <2>5
<1> QED BY <1>2, <1>3, <1>5, <1>6, <1>8, <1>9, <1>10

LEMMA LoginPreserves == SessionInv /\ Login => SessionInv'
<1> SUFFICES ASSUME SessionInv, Login PROVE SessionInv'
  OBVIOUS
<1>1. SessionTypes /\ BlocksLast /\ SpentOnce
  BY DEF SessionInv
<1>2. Issue(Empty) /\ UNCHANGED <<redis, memory, redisUp, outages, tick, task, ended, together>>
  BY DEF Login
<1>3. /\ Issued \subseteq Issued' /\ \A t \in Issued : tokens'[t] = tokens[t]
      /\ \A t \in Issued' : tokens'[t].expires \in Nat /\ tokens'[t].parent \in Issued' \union {Empty}
      /\ \E n \in 0..MaxTokens : Issued' = 1..n
      /\ \A t \in Issued' \ Issued : Successors(t)' = {}
      /\ \A t \in Issued : t # Empty => Successors(t)' = Successors(t)
  BY <1>1, <1>2, IssuedSuccessors
<1>4. Empty \notin Issued /\ ended \subseteq Issued \X (Hosts \union {"redis"})
      /\ \A k \in Tasks : task[k] # Empty => task[k].token \in Issued
  BY <1>1, SessionAssumption DEF SessionTypes
<1>5. SessionTypes'
  BY <1>1, <1>2, <1>3 DEF SessionTypes
<1>6. BlocksLast'
  BY <1>1, <1>2, <1>3, <1>4 DEF BlocksLast, EndOf
<1>7. SpentOnce'
  <2> SUFFICES ASSUME outages = 0, NEW t \in Issued' \ together PROVE SpentOf(t)'
    BY <1>2 DEF SpentOnce
  <2>1. \A k \in Tasks : Rotating(k, t)' <=> Rotating(k, t)
    BY <1>2 DEF Rotating
  <2>2. CASE t \in Issued
    <3>1. SpentOf(t)
      BY <1>1, <2>2 DEF SpentOnce
    <3>2. Successors(t)' = Successors(t) /\ tokens'[t] = tokens[t] /\ ended' = ended /\ tick' = tick
      BY <1>2, <1>3, <1>4, <2>2
    <3> QED BY <2>1, <3>1, <3>2 DEF SpentOf
  <2>3. CASE t \notin Issued
    <3>1. Successors(t)' = {} /\ \A k \in Tasks : ~Rotating(k, t)
      BY <1>3, <1>4, <2>3 DEF Rotating
    <3> QED BY <2>1, <3>1 DEF SpentOf
  <2> QED BY <2>2, <2>3
<1> QED BY <1>5, <1>6, <1>7 DEF SessionInv

\* A handler is given a token that is valid and not revoked.
LEMMA BeginPreserves ==
  ASSUME SessionInv, NEW k \in Tasks, NEW h \in Hosts, NEW t \in Issued,
         \/ RefreshChecked(k, h, t)
         \/ \E refresh \in {t + 1, Empty} : LogoutBegin(k, h, t, refresh)
  PROVE  SessionInv'
<1>1. SessionTypes /\ BlocksLast /\ SpentOnce
  BY DEF SessionInv
<1>2. Issued \subseteq Ids
  BY <1>1, SessionAssumption DEF SessionTypes, Ids
<1>3. CASE RefreshChecked(k, h, t)
  <2>1. /\ task[k] = Empty /\ tick < tokens[t].expires /\ ~IsBlocked(h, t)
        /\ task' = [task EXCEPT ![k] = [step |-> "rotate", host |-> h, token |-> t, also |-> {}]]
        /\ together' = IF \E l \in Tasks : task[l] # Empty /\ task[l].step = "rotate" /\ task[l].token = t
                         THEN together \union {t} ELSE together
        /\ UNCHANGED <<tokens, redis, memory, redisUp, outages, tick, ended>>
    BY <1>3 DEF RefreshChecked, Idle, Valid
  <2> DEFINE r == [step |-> "rotate", host |-> h, token |-> t, also |-> {}]
  <2>2. r \in TaskRecord /\ r.token = t /\ r.also = {} /\ r.step = "rotate"
    BY <1>2 DEF TaskRecord
  <2> HIDE DEF r
  <2>3. /\ task' \in [Tasks -> TaskRecord \union {Empty}] /\ task'[k] = r
        /\ \A l \in Tasks \ {k} : task'[l] = task[l]
    BY <1>1, <2>1, <2>2 DEF SessionTypes, r
  <2>4. SessionTypes'
    BY <1>1, <2>1, <2>2, <2>3 DEF SessionTypes, Issued
  <2>5. BlocksLast'
    BY <1>1, <2>1 DEF BlocksLast, EndOf, Issued
  <2>6. SpentOnce'
    <3>1. \A s : Successors(s)' = Successors(s)
      BY <2>1 DEF Successors, Issued
    <3>2. \A l \in Tasks, s \in Issued : Rotating(l, s)' => Rotating(l, s) \/ (l = k /\ s = t)
      BY <2>2, <2>3 DEF Rotating
    \* Redis would have refused a token that is spent, but for its last second.
    <3>3. ASSUME outages = 0, t \notin together, Successors(t) # {} PROVE tick + Second > tokens[t].expires
      <4>1. <<t, "redis">> \in ended
        BY <1>1, <2>1, <3>3 DEF SpentOnce, SpentOf, SessionTypes
      <4>2. redisUp /\ ~(redis[t] > 0 /\ redis[t] >= tick)
        BY <1>1, <2>1, <3>3 DEF SessionTypes, IsBlocked, Blocked
      <4>3. tick + Second <= tokens[t].expires => redis[t] > tokens[t].expires - Second
        BY <1>1, <4>1 DEF BlocksLast, EndOf
      <4>4. tick \in Nat /\ Second \in Nat /\ tokens[t].expires \in Nat /\ redis[t] \in Int
        BY <1>1, <1>2, SessionAssumption DEF SessionTypes
      <4> QED BY <4>2, <4>3, <4>4
    <3>4. t \notin together' => \A l \in Tasks : ~Rotating(l, t)
      BY <2>1 DEF Rotating
    <3>5. together \subseteq together' /\ Issued' = Issued
      BY <2>1 DEF Issued
    <3> SUFFICES ASSUME outages = 0, NEW s \in Issued \ together'
                 PROVE  /\ \A u, v \in Successors(s) : u = v
                        /\ Successors(s) # {} => <<s, "redis">> \in ended \/ tokens[s].expires <= tick
                        /\ \A l \in Tasks : Rotating(l, s)' =>
                              Successors(s) = {} \/ tick + Second > tokens[s].expires
                        /\ \A l, m \in Tasks : Rotating(l, s)' /\ Rotating(m, s)' => l = m
      BY <2>1, <3>1, <3>5 DEF SpentOnce, SpentOf
    <3>6. CASE s = t
      BY <1>1, <3>2, <3>3, <3>4, <3>5, <3>6 DEF SpentOnce, SpentOf
    <3>7. CASE s # t
      BY <1>1, <3>2, <3>5, <3>7 DEF SpentOnce, SpentOf
    <3> QED BY <3>6, <3>7
  <2> QED BY <2>4, <2>5, <2>6 DEF SessionInv
<1>4. ASSUME NEW refresh \in {t + 1, Empty}, LogoutBegin(k, h, t, refresh) PROVE SessionInv'
  <2> DEFINE r == [step |-> "logout", host |-> h, token |-> t,
                   also |-> {x \in {refresh} : x # Empty /\ Valid(x, "refresh")}]
  <2>1. task' = [task EXCEPT ![k] = r]
        /\ UNCHANGED <<tokens, redis, memory, redisUp, outages, tick, ended, together>>
    BY <1>4 DEF LogoutBegin
  <2>2. r \in TaskRecord /\ r.token = t /\ r.also \subseteq Issued /\ r.step = "logout"
    BY <1>2 DEF TaskRecord, Valid
  <2> HIDE DEF r
  <2>3. /\ task' \in [Tasks -> TaskRecord \union {Empty}] /\ task'[k] = r
        /\ \A l \in Tasks \ {k} : task'[l] = task[l]
    BY <1>1, <2>1, <2>2 DEF SessionTypes
  <2>4. SessionTypes'
    BY <1>1, <2>1, <2>2, <2>3 DEF SessionTypes, Issued
  <2>5. BlocksLast'
    BY <1>1, <2>1 DEF BlocksLast, EndOf, Issued
  <2>6. SpentOnce'
    <3>1. \A s : Successors(s)' = Successors(s)
      BY <2>1 DEF Successors, Issued
    <3>2. \A l \in Tasks, s \in Issued : Rotating(l, s)' => Rotating(l, s)
      BY <2>2, <2>3 DEF Rotating
    <3> QED BY <1>1, <2>1, <3>1, <3>2 DEF SpentOnce, SpentOf, Issued
  <2> QED BY <2>4, <2>5, <2>6 DEF SessionInv
<1> QED BY <1>3, <1>4

\* The exchange: the old token is spent, and its pair is its only one.
LEMMA RotatePreserves == \A k \in Tasks : SessionInv /\ Rotate(k) => SessionInv'
<1> SUFFICES ASSUME NEW k \in Tasks, SessionInv, Rotate(k) PROVE SessionInv'
  OBVIOUS
<1>1. SessionTypes /\ BlocksLast /\ SpentOnce
  BY DEF SessionInv
<1>0. task[k] # Empty /\ task[k].step = "rotate" /\ task[k].token \in Issued /\ task[k].host \in Hosts
  BY <1>1 DEF Rotate, Idle, SessionTypes, TaskRecord
<1>t. PICK t \in Issued : t = task[k].token
  BY <1>0
<1>h. PICK h \in Hosts : h = task[k].host
  BY <1>0
<1>2. /\ Block(h, t) /\ Issue(t)
      /\ ended' = ended \union {<<t, Place(h)>>} /\ task' = [task EXCEPT ![k] = Empty]
      /\ UNCHANGED <<redisUp, outages, tick, together>>
  BY <1>t, <1>h DEF Rotate
<1>3. Rotating(k, t)
  BY <1>0, <1>t DEF Rotating
<1>4. /\ Issued \subseteq Issued' /\ \A s \in Issued : tokens'[s] = tokens[s]
      /\ \A s \in Issued' : tokens'[s].expires \in Nat /\ tokens'[s].parent \in Issued' \union {Empty}
      /\ \E n \in 0..MaxTokens : Issued' = 1..n
      /\ \A s \in Issued' \ Issued : Successors(s)' = {}
      /\ \A s \in Issued : s # t => Successors(s)' = Successors(s)
      /\ \E u : /\ Successors(t)' \subseteq Successors(t) \union {u}
                /\ tick + Second > tokens[t].expires => Successors(t)' = Successors(t)
  BY <1>1, <1>2, <1>3, IssuedSuccessors
<1>5. /\ redis' \in [Ids -> Int] /\ memory' \in [Hosts -> [Ids -> Int]]
      /\ tick + Second <= tokens[t].expires => EndOf(t, Place(h))' > tokens[t].expires - Second
      /\ \A s \in Issued, place \in Hosts \union {"redis"} :
           s # t \/ place # Place(h) => EndOf(s, place)' = EndOf(s, place)
  BY <1>1, <1>2, <1>3, BlockCovers
<1>6. Place(h) \in Hosts \union {"redis"} /\ (outages = 0 => Place(h) = "redis") /\ Place(h)' = Place(h)
  BY <1>1, <1>2, <1>3 DEF Place, SessionTypes
<1>7. /\ task' \in [Tasks -> TaskRecord \union {Empty}]
      /\ \A l \in Tasks : task'[l] = IF l = k THEN Empty ELSE task[l]
  BY <1>1, <1>2 DEF SessionTypes
<1>8. SessionTypes'
  <2>1. ended' \subseteq Issued' \X (Hosts \union {"redis"})
    BY <1>1, <1>2, <1>3, <1>4, <1>6 DEF SessionTypes
  <2> QED BY <1>1, <1>2, <1>4, <1>5, <1>7, <2>1 DEF SessionTypes
<1>9. BlocksLast'
  <2> SUFFICES ASSUME NEW s \in Issued', NEW place \in Hosts \union {"redis"},
                      <<s, place>> \in ended', tick + Second <= tokens'[s].expires
               PROVE  EndOf(s, place)' > tokens'[s].expires - Second
    BY <1>2 DEF BlocksLast
  <2>1. CASE s = t /\ place = Place(h)
    BY <1>3, <1>4, <1>5, <1>6, <2>1
  <2>2. CASE ~(s = t /\ place = Place(h))
    <3>1. <<s, place>> \in ended
      BY <1>2, <2>2
    <3>2. s \in Issued
      BY <1>1, <3>1 DEF SessionTypes
    <3> QED BY <1>1, <1>4, <1>5, <2>2, <3>1, <3>2 DEF BlocksLast
  <2> QED BY <2>1, <2>2
<1>10. SpentOnce'
  <2>1. \A l \in Tasks : \A s : Rotating(l, s)' => Rotating(l, s) /\ l # k
    BY <1>7 DEF Rotating
  <2>2. \A l \in Tasks : \A s : Rotating(l, s) => s \in Issued
    BY <1>1 DEF SessionTypes, Rotating
  <2> SUFFICES ASSUME outages = 0, NEW s \in Issued' \ together
               PROVE  /\ \A u, v \in Successors(s)' : u = v
                      /\ Successors(s)' # {} => <<s, "redis">> \in ended' \/ tokens'[s].expires <= tick
                      /\ \A l \in Tasks : Rotating(l, s)' =>
                            Successors(s)' = {} \/ tick + Second > tokens'[s].expires
                      /\ \A l, m \in Tasks : Rotating(l, s)' /\ Rotating(m, s)' => l = m
    BY <1>2 DEF SpentOnce, SpentOf
  <2>3. CASE s \notin Issued
    BY <1>4, <2>1, <2>2, <2>3
  <2>4. CASE s \in Issued /\ s # t
    BY <1>1, <1>2, <1>4, <2>1, <2>4 DEF SpentOnce, SpentOf
  <2>5. CASE s = t
    <3>1. Successors(t) = {} \/ Successors(t)' = Successors(t)
      BY <1>1, <1>3, <1>4, <2>5 DEF SpentOnce, SpentOf
    <3>2. \A u, v \in Successors(t)' : u = v
      <4>1. \A u, v \in Successors(t) : u = v
        BY <1>1, <2>5 DEF SpentOnce, SpentOf
      <4>2. PICK x : Successors(t)' \subseteq Successors(t) \union {x}
        BY <1>4
      <4>3. CASE Successors(t) = {}
        BY <4>2, <4>3
      <4>4. CASE Successors(t)' = Successors(t)
        BY <4>1, <4>4
      <4> QED BY <3>1, <4>3, <4>4
    <3>3. <<t, "redis">> \in ended'
      BY <1>2, <1>6
    <3>4. \A l \in Tasks : ~Rotating(l, t)'
      BY <1>1, <1>3, <2>1, <2>5 DEF SpentOnce, SpentOf
    <3> QED BY <2>5, <3>2, <3>3, <3>4
  <2> QED BY <2>3, <2>4, <2>5
<1> QED BY <1>8, <1>9, <1>10 DEF SessionInv

\* A logout ends its tokens one after the other, and exchanges none.
LEMMA LogoutPreserves == \A k \in Tasks : SessionInv /\ LogoutBlock(k) => SessionInv'
<1> SUFFICES ASSUME NEW k \in Tasks, SessionInv, LogoutBlock(k) PROVE SessionInv'
  OBVIOUS
<1>1. SessionTypes /\ BlocksLast /\ SpentOnce
  BY DEF SessionInv
<1>0. /\ task[k] # Empty /\ task[k].step = "logout" /\ task[k].token \in Issued
      /\ task[k].host \in Hosts /\ task[k].also \subseteq Issued /\ task[k] \in TaskRecord
      /\ Issued \subseteq Ids
  BY <1>1, SessionAssumption DEF LogoutBlock, Idle, SessionTypes, TaskRecord, Ids
<1>t. PICK t \in Issued : t = task[k].token
  BY <1>0
<1>h. PICK h \in Hosts : h = task[k].host
  BY <1>0
<1> DEFINE rest == IF task[k].also = {} THEN Empty
                   ELSE [task[k] EXCEPT !.token = CHOOSE r \in task[k].also : TRUE, !.also = {}]
<1>2. /\ Block(h, t) /\ ended' = ended \union {<<t, Place(h)>>}
      /\ task' = [task EXCEPT ![k] = rest]
      /\ UNCHANGED <<tokens, redisUp, outages, tick, together>>
  BY <1>t, <1>h DEF LogoutBlock
<1>3. /\ redis' \in [Ids -> Int] /\ memory' \in [Hosts -> [Ids -> Int]]
      /\ tick + Second <= tokens[t].expires => EndOf(t, Place(h))' > tokens[t].expires - Second
      /\ \A s \in Issued, place \in Hosts \union {"redis"} :
           s # t \/ place # Place(h) => EndOf(s, place)' = EndOf(s, place)
  BY <1>1, <1>2, BlockCovers
<1>4. rest = Empty \/ (/\ rest \in TaskRecord /\ rest.token \in Issued /\ rest.also = {}
                       /\ rest.step = "logout")
  <2>1. CASE task[k].also # {}
    <3>1. PICK x \in Issued : x = CHOOSE r \in task[k].also : TRUE
      BY <1>0, <2>1
    <3>2. rest = [task[k] EXCEPT !.token = x, !.also = {}]
      BY <2>1, <3>1
    <3> QED BY <1>0, <3>2 DEF TaskRecord
  <2> QED BY <2>1
<1> HIDE DEF rest
<1>5. /\ task' \in [Tasks -> TaskRecord \union {Empty}] /\ task'[k] = rest
      /\ \A l \in Tasks \ {k} : task'[l] = task[l]
  BY <1>1, <1>2, <1>4 DEF SessionTypes
<1>6. Place(h) \in Hosts \union {"redis"} /\ Place(h)' = Place(h) /\ Issued' = Issued
  BY <1>2 DEF Place, Issued
<1>7. SessionTypes'
  <2>1. ended' \subseteq Issued' \X (Hosts \union {"redis"})
    BY <1>1, <1>2, <1>6 DEF SessionTypes
  <2>2. \A l \in Tasks : task'[l] # Empty => task'[l].token \in Issued' /\ task'[l].also \subseteq Issued'
    BY <1>1, <1>4, <1>5, <1>6 DEF SessionTypes
  <2> QED BY <1>1, <1>2, <1>3, <1>5, <1>6, <2>1, <2>2 DEF SessionTypes
<1>8. BlocksLast'
  <2> SUFFICES ASSUME NEW s \in Issued, NEW place \in Hosts \union {"redis"},
                      <<s, place>> \in ended', tick + Second <= tokens[s].expires
               PROVE  EndOf(s, place)' > tokens[s].expires - Second
    BY <1>2, <1>6 DEF BlocksLast
  <2>1. CASE s = t /\ place = Place(h)
    BY <1>3, <1>6, <2>1
  <2>2. CASE ~(s = t /\ place = Place(h))
    <3>1. <<s, place>> \in ended
      BY <1>2, <2>2
    <3> QED BY <1>1, <1>3, <2>2, <3>1 DEF BlocksLast
  <2> QED BY <2>1, <2>2
<1>9. SpentOnce'
  <2>1. \A l \in Tasks : \A s : Rotating(l, s)' => Rotating(l, s)
    BY <1>4, <1>5 DEF Rotating
  <2>2. \A s : Successors(s)' = Successors(s)
    BY <1>2 DEF Successors, Issued
  <2>3. ended \subseteq ended'
    BY <1>2
  <2> QED BY <1>1, <1>2, <1>6, <2>1, <2>2, <2>3 DEF SpentOnce, SpentOf
<1> QED BY <1>7, <1>8, <1>9 DEF SessionInv

LEMMA TimePreserves == SessionInv /\ TimePasses => SessionInv'
<1> SUFFICES ASSUME SessionInv, TimePasses PROVE SessionInv'
  OBVIOUS
<1>1. SessionTypes /\ BlocksLast /\ SpentOnce
  BY DEF SessionInv
<1>2. /\ tick' = tick + 1
      /\ redis' = [t \in Ids |-> IF redis[t] > tick THEN redis[t] ELSE 0]
      /\ memory' = [h \in Hosts |-> [t \in Ids |-> IF memory[h][t] > tick THEN memory[h][t] ELSE 0]]
      /\ ended' = {entry \in ended : tokens[entry[1]].expires > tick + 1}
      /\ UNCHANGED <<tokens, redisUp, outages, task, together>>
  BY DEF TimePasses
<1>3. /\ tick \in Nat /\ Second \in Nat \ {0} /\ Issued' = Issued /\ Issued \subseteq Ids
      /\ redis \in [Ids -> Int] /\ memory \in [Hosts -> [Ids -> Int]]
      /\ \A t \in Issued : tokens[t].expires \in Nat
      /\ ended \subseteq Issued \X (Hosts \union {"redis"})
  BY <1>1, <1>2, SessionAssumption DEF SessionTypes, Issued, Ids
<1>4. SessionTypes'
  BY <1>1, <1>2, <1>3 DEF SessionTypes
<1>5. \A t \in Ids, place \in Hosts \union {"redis"} :
        EndOf(t, place) > tick => EndOf(t, place)' = EndOf(t, place)
  BY <1>2 DEF EndOf
<1>6. BlocksLast'
  <2> SUFFICES ASSUME NEW t \in Issued, NEW place \in Hosts \union {"redis"},
                      <<t, place>> \in ended, tick + 1 + Second <= tokens[t].expires
               PROVE  EndOf(t, place)' > tokens[t].expires - Second
    BY <1>2, <1>3 DEF BlocksLast
  <2>1. EndOf(t, place) > tokens[t].expires - Second
    BY <1>1, <1>3 DEF BlocksLast
  <2>2. EndOf(t, place) \in Int
    BY <1>3 DEF EndOf
  <2>3. EndOf(t, place) > tick
    BY <1>3, <2>1, <2>2
  <2> QED BY <1>3, <1>5, <2>1, <2>3
<1>7. SpentOnce'
  <2>1. \A s : Successors(s)' = Successors(s)
    BY <1>2 DEF Successors, Issued
  <2>2. \A l \in Tasks : \A s : Rotating(l, s)' <=> Rotating(l, s)
    BY <1>2 DEF Rotating
  <2>3. \A t \in Issued : <<t, "redis">> \in ended => <<t, "redis">> \in ended' \/ tokens[t].expires <= tick'
    BY <1>2, <1>3
  <2>4. \A t \in Issued : /\ tokens[t].expires <= tick => tokens[t].expires <= tick'
                          /\ tick + Second > tokens[t].expires => tick' + Second > tokens[t].expires
    BY <1>2, <1>3
  <2> QED BY <1>1, <1>2, <1>3, <2>1, <2>2, <2>3, <2>4 DEF SpentOnce, SpentOf
<1> QED BY <1>4, <1>6, <1>7 DEF SessionInv

LEMMA Inductive == SessionInv /\ [SessionNext]_sessionVars => SessionInv'
<1> SUFFICES ASSUME SessionInv, [SessionNext]_sessionVars PROVE SessionInv'
  OBVIOUS
<1>1. CASE UNCHANGED sessionVars
  BY <1>1 DEF SessionInv, SessionTypes, BlocksLast, SpentOnce, SpentOf, EndOf, Rotating, Successors, Issued, sessionVars
<1>2. CASE SessionNext
  BY <1>2, PlainPreserves, LoginPreserves, BeginPreserves, RotatePreserves, LogoutPreserves,
     TimePreserves DEF SessionNext
<1> QED BY <1>1, <1>2

LEMMA SessionInvHolds == SessionSpec => []SessionInv
<1> QED BY InitEstablishes, Inductive, PTL DEF SessionSpec
-----------------------------------------------------------------------------
\* A revoked token is refused until its last second, wherever it was revoked and
\* whatever Redis does, and a refresh token is exchanged once; for every number of
\* workers and handlers and every length of the second.
THEOREM SpentTokens == SessionSpec => []SpentTokensStaySpent
<1>1. SessionInv => RevokedIsRefused
  <2> SUFFICES ASSUME SessionInv, NEW entry \in ended, NEW h \in Hosts,
                      tick + Second <= tokens[entry[1]].expires,
                      IF redisUp THEN entry[2] = "redis" ELSE entry[2] = h
               PROVE  IsBlocked(h, entry[1])
    BY DEF RevokedIsRefused
  <2>1. PICK t \in Issued, place \in Hosts \union {"redis"} : entry = <<t, place>>
    BY DEF SessionInv, SessionTypes
  <2>2. EndOf(t, place) > tokens[t].expires - Second
    BY <2>1 DEF SessionInv, BlocksLast
  <2>3. tick \in Nat /\ Second \in Nat /\ tokens[t].expires \in Nat /\ EndOf(t, place) \in Int
    BY SessionAssumption DEF SessionInv, SessionTypes, EndOf, Ids
  <2>4. EndOf(t, place) > 0 /\ EndOf(t, place) >= tick
    BY <2>1, <2>2, <2>3
  <2> QED BY <2>1, <2>4, SessionAssumption DEF EndOf, IsBlocked, Blocked
<1>2. SessionInv => ExchangedOnce
  <2> SUFFICES ASSUME SessionInv, outages = 0, NEW t \in Issued \ together
               PROVE  Cardinality(Successors(t)) <= 1
    BY DEF ExchangedOnce
  <2>1. \A u, v \in Successors(t) : u = v
    BY DEF SessionInv, SpentOnce, SpentOf
  <2>2. CASE Successors(t) = {}
    <3>1. Cardinality(Successors(t)) = 0
      BY <2>2, FS_EmptySet, Zenon
    <3> QED BY <3>1
  <2>3. CASE Successors(t) # {}
    <3>1. PICK u : Successors(t) = {u}
      BY <2>1, <2>3
    <3>2. Cardinality(Successors(t)) = 1
      BY <3>1, FS_Singleton, Zenon
    <3> QED BY <3>2
  <2> QED BY <2>2, <2>3
<1>3. SessionInv => SpentTokensStaySpent
  BY <1>1, <1>2 DEF SpentTokensStaySpent
<1> QED BY <1>3, SessionInvHolds, PTL

-----------------------------------------------------------------------------
\* What the type of Sessions says beyond SessionTypes.
BoundsHold ==
  /\ registered \in BOOLEAN /\ tick \in 0..LastTick /\ outages \in 0..MaxOutages /\ calls \in 0..MaxCalls
  /\ \A t \in Issued : tokens[t].type \in {"access", "refresh"}
  /\ redis \in [Ids -> Nat] /\ memory \in [Hosts -> [Ids -> Nat]]

\* A block ends no earlier than it begins.
LEMMA BlockEndsLater ==
  ASSUME SessionTypes, BoundsHold, NEW h \in Hosts, NEW t \in Issued, Block(h, t)
  PROVE  redis' \in [Ids -> Nat] /\ memory' \in [Hosts -> [Ids -> Nat]]
<1> DEFINE ttl == RemainingTtl(t)
           span == tokens[t].expires - tick
<1>1. /\ tick \in Nat /\ tokens[t].expires \in Nat /\ t \in Ids /\ Second \in Nat \ {0}
      /\ redis \in [Ids -> Nat] /\ memory \in [Hosts -> [Ids -> Nat]]
  <2>1. tick \in Nat /\ tokens[t].expires \in Nat
    BY DEF SessionTypes
  <2>2. t \in Ids
    BY SessionAssumption DEF SessionTypes, Ids
  <2>3. redis \in [Ids -> Nat] /\ memory \in [Hosts -> [Ids -> Nat]]
    BY DEF BoundsHold
  <2> QED BY <2>1, <2>2, <2>3, SessionAssumption
<1>2. ttl \in Nat
  <2>1. CASE tokens[t].expires > tick
    <3>1. span \in Nat /\ ttl = (span \div Second) * Second
      BY <1>1, <2>1 DEF RemainingTtl
    <3> HIDE DEF span, ttl
    <3> DEFINE whole == span \div Second
    <3>2. whole \in Nat
      BY <1>1, <3>1
    <3> HIDE DEF whole
    <3>3. whole * Second \in Nat
      BY <1>1, <3>2
    <3> QED BY <3>1, <3>3 DEF whole
  <2>2. CASE ~(tokens[t].expires > tick)
    BY <2>2 DEF RemainingTtl
  <2> QED BY <2>1, <2>2
<1> HIDE DEF ttl
<1>3. tick + (IF ttl < Second THEN Second ELSE ttl) \in Nat /\ tick + ttl \in Nat
  BY <1>1, <1>2
<1>4. CASE redisUp
  BY <1>1, <1>3, <1>4 DEF Block, ttl
<1>5. CASE ~redisUp
  BY <1>1, <1>3, <1>5 DEF Block, ttl
<1> QED BY <1>4, <1>5

LEMMA PairsAreTyped ==
  ASSUME SessionTypes, BoundsHold, NEW parent \in Issued \union {Empty}, Issue(parent)
  PROVE  \A t \in Issued' : tokens'[t].type \in {"access", "refresh"}
<1>1. PICK n \in 0..MaxTokens :
           /\ Issued = 1..n /\ DOMAIN tokens' = 1..(n + 2)
           /\ \A t \in 1..n : tokens'[t] = tokens[t]
           /\ tokens'[n + 1] = NewToken("access", AccessTtl, parent)
           /\ tokens'[n + 2] = NewToken("refresh", RefreshTtl, parent)
  BY IssueExtends
<1>2. n \in Nat
  BY SessionAssumption
<1>3. ASSUME NEW t \in 1..(n + 2) PROVE t \in 1..n \/ t = n + 1 \/ t = n + 2
  BY <1>2
<1>4. Issued' = 1..(n + 2)
  BY <1>1 DEF Issued
<1>5. tokens'[n + 1].type = "access" /\ tokens'[n + 2].type = "refresh"
  BY <1>1 DEF NewToken
<1>6. \A t \in 1..n : tokens'[t].type \in {"access", "refresh"}
  BY <1>1 DEF BoundsHold
<1> QED BY <1>3, <1>4, <1>5, <1>6

LEMMA BoundsAreKept == SessionInv /\ BoundsHold /\ [SessionNext]_sessionVars => BoundsHold'
<1> SUFFICES ASSUME SessionInv, BoundsHold, [SessionNext]_sessionVars PROVE BoundsHold'
  OBVIOUS
<1>1. SessionTypes /\ MaxOutages \in Nat /\ MaxCalls \in Nat /\ LastTick \in Nat
  BY SessionAssumption DEF SessionInv
<1>2. CASE UNCHANGED sessionVars
  BY <1>2 DEF BoundsHold, Issued, sessionVars
<1>3. CASE Register \/ RedisFails \/ RedisReturns \/ \E k \in Tasks : Drop(k)
  <2>1. /\ UNCHANGED <<tokens, redis, memory, tick, calls>>
        /\ (outages' = outages \/ (outages < MaxOutages /\ outages' = outages + 1))
    BY <1>3 DEF Register, RedisFails, RedisReturns, Drop
  <2>2. registered' \in BOOLEAN
    <3>1. registered \in BOOLEAN
      BY DEF BoundsHold
    <3>2. registered' = TRUE \/ registered' = registered
      <4>1. CASE Register
        BY <4>1, Zenon DEF Register
      <4>2. CASE RedisFails \/ RedisReturns
        BY <4>2, Zenon DEF RedisFails, RedisReturns
      <4>3. CASE \E k \in Tasks : Drop(k)
        BY <4>3, Zenon DEF Drop
      <4> QED BY <1>3, <4>1, <4>2, <4>3, Zenon
    <3> QED BY <3>1, <3>2, Zenon
  <2>3. outages' \in 0..MaxOutages
    BY <1>1, <2>1 DEF BoundsHold
  <2> QED BY <2>1, <2>2, <2>3 DEF BoundsHold, Issued
<1>4. CASE Login
  <2>1. Issue(Empty) /\ UNCHANGED <<registered, redis, memory, outages, tick, calls>>
    BY <1>4 DEF Login
  <2>2. \A t \in Issued' : tokens'[t].type \in {"access", "refresh"}
    BY <1>1, <2>1, PairsAreTyped
  <2> QED BY <2>1, <2>2 DEF BoundsHold
<1>5. CASE \E k \in Tasks, h \in Hosts, t \in Issued :
             RefreshChecked(k, h, t) \/ \E refresh \in {t + 1, Empty} : LogoutBegin(k, h, t, refresh)
  <2>1. /\ UNCHANGED <<registered, tokens, redis, memory, outages, tick>>
        /\ calls < MaxCalls /\ calls' = calls + 1
    BY <1>5 DEF RefreshChecked, LogoutBegin
  <2>2. calls' \in 0..MaxCalls
    BY <1>1, <2>1 DEF BoundsHold
  <2> QED BY <2>1, <2>2 DEF BoundsHold, Issued
<1>6. CASE \E k \in Tasks : Rotate(k)
  <2>1. PICK k \in Tasks : Rotate(k)
    BY <1>6
  <2>2. task[k] # Empty /\ task[k].token \in Issued /\ task[k].host \in Hosts
    BY <1>1, <2>1 DEF Rotate, Idle, SessionTypes, TaskRecord
  <2>3. /\ Block(task[k].host, task[k].token) /\ Issue(task[k].token)
        /\ UNCHANGED <<registered, outages, tick, calls>>
    BY <2>1 DEF Rotate
  <2>4. redis' \in [Ids -> Nat] /\ memory' \in [Hosts -> [Ids -> Nat]]
    BY <1>1, <2>2, <2>3, BlockEndsLater
  <2>5. \A t \in Issued' : tokens'[t].type \in {"access", "refresh"}
    BY <1>1, <2>2, <2>3, PairsAreTyped
  <2> QED BY <2>3, <2>4, <2>5 DEF BoundsHold
<1>7. CASE \E k \in Tasks : LogoutBlock(k)
  <2>1. PICK k \in Tasks : LogoutBlock(k)
    BY <1>7
  <2>2. task[k] # Empty /\ task[k].token \in Issued /\ task[k].host \in Hosts
    BY <1>1, <2>1 DEF LogoutBlock, Idle, SessionTypes, TaskRecord
  <2>3. /\ Block(task[k].host, task[k].token)
        /\ UNCHANGED <<registered, tokens, outages, tick, calls>>
    BY <2>1 DEF LogoutBlock
  <2>4. redis' \in [Ids -> Nat] /\ memory' \in [Hosts -> [Ids -> Nat]]
    BY <1>1, <2>2, <2>3, BlockEndsLater
  <2> QED BY <2>3, <2>4 DEF BoundsHold, Issued
<1>8. CASE TimePasses
  <2>1. /\ tick < LastTick /\ tick' = tick + 1
        /\ redis' = [t \in Ids |-> IF redis[t] > tick THEN redis[t] ELSE 0]
        /\ memory' = [h \in Hosts |-> [t \in Ids |-> IF memory[h][t] > tick THEN memory[h][t] ELSE 0]]
        /\ UNCHANGED <<registered, tokens, outages, calls>>
    BY <1>8 DEF TimePasses
  <2>2. tick' \in 0..LastTick
    BY <1>1, <2>1 DEF BoundsHold
  <2>3. redis' \in [Ids -> Nat] /\ memory' \in [Hosts -> [Ids -> Nat]]
    BY <2>1 DEF BoundsHold
  <2> QED BY <2>1, <2>2, <2>3 DEF BoundsHold, Issued
<1> QED BY <1>2, <1>3, <1>4, <1>5, <1>6, <1>7, <1>8 DEF SessionNext

LEMMA BoundsAtFirst == SessionInit => BoundsHold
<1> SUFFICES ASSUME SessionInit PROVE BoundsHold
  OBVIOUS
<1>1. /\ registered = FALSE /\ Issued = {} /\ tick = 0 /\ outages = 0 /\ calls = 0
      /\ redis = [t \in Ids |-> 0] /\ memory = [h \in Hosts |-> [t \in Ids |-> 0]]
  BY DEF SessionInit, Issued
<1>2. 0 \in 0..LastTick /\ 0 \in 0..MaxOutages /\ 0 \in 0..MaxCalls
  BY SessionAssumption
<1> QED BY <1>1, <1>2 DEF BoundsHold

LEMMA SessionsAreTyped == SessionInv /\ BoundsHold => SessionTypeOK
<1> SUFFICES ASSUME SessionInv, BoundsHold PROVE SessionTypeOK
  OBVIOUS
<1>1. SessionTypes
  BY DEF SessionInv
<1>2. Issued \subseteq Ids
  BY <1>1, SessionAssumption DEF SessionTypes, Ids
<1> QED BY <1>1, <1>2 DEF SessionTypeOK, SessionTypes, BoundsHold

-----------------------------------------------------------------------------
(* Scorecard.                                                              *)

\* What _aggregate relies on in its outcomes.
Outcomes(list) ==
  /\ DOMAIN list \subseteq Nat /\ IsFiniteSet(DOMAIN list)
  /\ \A i \in DOMAIN list :
       /\ list[i].confidence \in (0..100) \union {Blank} /\ list[i].correct \in BOOLEAN
       /\ list[i].gain \in Int /\ list[i].cost \in Nat \ {0}

OnesOf(list) == [i \in DOMAIN list |-> 1]
RightsOf(list) == [i \in DOMAIN list |-> IF list[i].correct THEN 1 ELSE 0]
GainsOf(list) == [i \in DOMAIN list |-> list[i].gain]

\* The figures of a part of a list are sums.
LEMMA FiguresAreSums ==
  ASSUME NEW list, Outcomes(list), NEW T \in SUBSET DOMAIN list
  PROVE  /\ Size(Restrict(list, T)) = SumFunctionOnSet(OnesOf(list), T)
         /\ HitsOf(Restrict(list, T)) = SumFunctionOnSet(RightsOf(list), T)
         /\ TotalGain(Restrict(list, T)) = SumFunctionOnSet(GainsOf(list), T)
<1> DEFINE portion == Restrict(list, T)
<1>1. DOMAIN portion = T /\ \A i \in T : portion[i] = list[i]
  BY DEF Restrict
<1>2. IsFiniteSet(T)
  BY FS_Subset DEF Outcomes
<1> HIDE DEF portion
<1>3. Size(portion) = SumFunctionOnSet(OnesOf(list), T)
  <2>1. \A i \in T : OnesOf(list)[i] = IF i \in T THEN 1 ELSE 0
    BY DEF OnesOf
  <2> QED BY <1>1, <1>2, <2>1, SumCounts DEF Size
<1>4. HitsOf(portion) = SumFunctionOnSet(RightsOf(list), T)
  <2> DEFINE R == {i \in DOMAIN portion : portion[i].correct}
  <2>1. R \in SUBSET T /\ \A i \in T : RightsOf(list)[i] = IF i \in R THEN 1 ELSE 0
    BY <1>1 DEF RightsOf
  <2> HIDE DEF R
  <2>2. SumFunctionOnSet(RightsOf(list), T) = Cardinality(R)
    BY <1>2, <2>1, SumCounts
  <2> QED BY <2>2 DEF HitsOf, R
<1>5. TotalGain(portion) = SumFunctionOnSet(GainsOf(list), T)
  <2> DEFINE g == [i \in DOMAIN portion |-> portion[i].gain]
  <2>1. DOMAIN g = T /\ \A i \in T : g[i] \in Int /\ g[i] = GainsOf(list)[i]
    BY <1>1 DEF Outcomes, GainsOf
  <2> HIDE DEF g
  <2>2. SumFunctionOnSet(g, T) = SumFunctionOnSet(GainsOf(list), T)
    BY <1>2, <2>1, SumsAgree
  <2> QED BY <2>1, <2>2 DEF TotalGain, SumFunction, g
<1> QED BY <1>3, <1>4, <1>5 DEF portion

InBucket(list, b) == {i \in DOMAIN list : list[i].confidence # Blank
                        /\ b[1] <= list[i].confidence /\ list[i].confidence < b[2]}
ConfidentOf(list) == {i \in DOMAIN list : list[i].confidence # Blank}
UsedBuckets(list) == {b \in Buckets : InBucket(list, b) # {}}
BucketSums(list, f) == [b \in UsedBuckets(list) |-> SumFunctionOnSet(f, InBucket(list, b))]

\* Every confidence is in one bucket, so what is summed over the buckets is summed over
\* the signals with a confidence.
LEMMA BucketsCover ==
  ASSUME NEW list, Outcomes(list), NEW f, \A i \in DOMAIN list : f[i] \in Int
  PROVE  SumFunctionOnSet(BucketSums(list, f), UsedBuckets(list)) = SumFunctionOnSet(f, ConfidentOf(list))
<1> DEFINE C == ConfidentOf(list)
           In(i, b) == b[1] <= list[i].confidence /\ list[i].confidence < b[2]
           key == [i \in C |-> CHOOSE b \in Buckets : In(i, b)]
           sums == PartSums(f, key, Buckets, C)
<1>1. C \subseteq DOMAIN list /\ IsFiniteSet(C) /\ \A i \in C : list[i].confidence \in 0..100
  BY FS_Subset DEF Outcomes, ConfidentOf
<1>2. \A i \in C : \E b \in Buckets : In(i, b)
  <2> SUFFICES ASSUME NEW i \in C PROVE \E b \in Buckets : In(i, b)
    OBVIOUS
  <2> DEFINE c == list[i].confidence
  <2>1. c \in 0..100
    BY <1>1
  <2>2. \/ 0 <= c /\ c < 50
        \/ 50 <= c /\ c < 60
        \/ 60 <= c /\ c < 70
        \/ 70 <= c /\ c < 80
        \/ 80 <= c /\ c < 90
        \/ 90 <= c /\ c < 101
    BY <2>1
  <2> HIDE DEF c
  <2>3. \E b \in Buckets : b[1] <= c /\ c < b[2]
    BY <2>2 DEF Buckets
  <2> QED BY <2>3 DEF c
<1>3. \A i \in C : \A b, d \in Buckets : In(i, b) /\ In(i, d) => b = d
  <2> SUFFICES ASSUME NEW i \in C, NEW b \in Buckets, NEW d \in Buckets, In(i, b), In(i, d) PROVE b = d
    OBVIOUS
  <2> DEFINE c == list[i].confidence
  <2>1. c \in Int
    BY <1>1
  <2>2. b[1] <= c /\ c < b[2] /\ d[1] <= c /\ c < d[2]
    OBVIOUS
  <2> HIDE DEF c
  <2> QED BY <2>1, <2>2 DEF Buckets
<1>4. key \in [C -> Buckets] /\ \A i \in C : In(i, key[i])
  BY <1>2
<1>5. \A b \in Buckets : PartOf(C, key, b) = InBucket(list, b)
  <2> HIDE DEF key
  <2> QED BY <1>3, <1>4 DEF PartOf, InBucket, ConfidentOf
<1>6. IsFiniteSet(Buckets)
  <2>1. \A a, b, c, d, e, g : IsFiniteSet({a, b, c, d, e, g})
    <3> SUFFICES ASSUME NEW a, NEW b, NEW c, NEW d, NEW e, NEW g PROVE IsFiniteSet({a, b, c, d, e, g})
      OBVIOUS
    <3>1. {a, b, c, d, e, g} = ((((({a} \union {b}) \union {c}) \union {d}) \union {e}) \union {g})
      OBVIOUS
    <3>2. IsFiniteSet({a} \union {b})
      BY FS_AddElement, FS_Singleton
    <3>3. IsFiniteSet(({a} \union {b}) \union {c})
      BY <3>2, FS_AddElement
    <3>4. IsFiniteSet((({a} \union {b}) \union {c}) \union {d})
      BY <3>3, FS_AddElement
    <3>5. IsFiniteSet(((({a} \union {b}) \union {c}) \union {d}) \union {e})
      BY <3>4, FS_AddElement
    <3>6. IsFiniteSet((((({a} \union {b}) \union {c}) \union {d}) \union {e}) \union {g})
      BY <3>5, FS_AddElement
    <3> QED BY <3>1, <3>6, Zenon
  <2> QED BY <2>1, Zenon DEF Buckets
<1> HIDE DEF C, key
<1>7. SumFunctionOnSet(sums, Buckets) = SumFunctionOnSet(f, C)
  <2>1. \A x \in C : f[x] \in Int
    BY <1>1
  <2> QED BY <1>1, <1>4, <1>6, <2>1, SumOfParts
<1>8. \A b \in Buckets : sums[b] = SumFunctionOnSet(f, InBucket(list, b)) /\ sums[b] \in Int
  <2> SUFFICES ASSUME NEW b \in Buckets
               PROVE  sums[b] = SumFunctionOnSet(f, InBucket(list, b)) /\ sums[b] \in Int
    OBVIOUS
  <2>1. sums[b] = SumFunctionOnSet(f, InBucket(list, b))
    BY <1>5 DEF PartSums
  <2>2. InBucket(list, b) \subseteq DOMAIN list
    BY DEF InBucket
  <2>3. IsFiniteSet(InBucket(list, b)) /\ \A i \in InBucket(list, b) : f[i] \in Int
    BY <2>2, FS_Subset DEF Outcomes
  <2>4. SumFunctionOnSet(f, InBucket(list, b)) \in Int
    BY <2>3, SumFoldIs, SumChosen
  <2> QED BY <2>1, <2>4
<1> HIDE DEF sums
<1>9. SumFunctionOnSet(sums, Buckets) = SumFunctionOnSet(sums, UsedBuckets(list))
  <2>1. UsedBuckets(list) \in SUBSET Buckets
    BY DEF UsedBuckets
  <2>2. \A b \in Buckets \ UsedBuckets(list) : sums[b] = 0
    <3> SUFFICES ASSUME NEW b \in Buckets \ UsedBuckets(list) PROVE sums[b] = 0
      OBVIOUS
    <3>1. InBucket(list, b) = {}
      BY DEF UsedBuckets
    <3> QED BY <1>8, <3>1, SumOfNone
  <2> QED BY <1>6, <1>8, <2>1, <2>2, SumOfSome
<1>10. SumFunctionOnSet(sums, UsedBuckets(list)) = SumFunctionOnSet(BucketSums(list, f), UsedBuckets(list))
  <2>1. IsFiniteSet(UsedBuckets(list))
    BY <1>6, FS_Subset DEF UsedBuckets
  <2>2. \A b \in UsedBuckets(list) : sums[b] \in Int /\ sums[b] = BucketSums(list, f)[b]
    BY <1>8 DEF UsedBuckets, BucketSums
  <2> QED BY <2>1, <2>2, SumsAgree
<1> QED BY <1>7, <1>9, <1>10 DEF C

\* _bucketize: the buckets add up to the signals with a confidence.
LEMMA BucketsAddUp ==
  ASSUME NEW list, Outcomes(list)
  PROVE  LET buckets == Bucketize(list)
             confident == Confident(list) IN
         /\ SumFunction([b \in DOMAIN buckets |-> buckets[b]["signals"]]) = Size(confident)
         /\ SumFunction([b \in DOMAIN buckets |-> buckets[b]["hits"]]) = HitsOf(confident)
         /\ SumFunction([b \in DOMAIN buckets |-> buckets[b]["gain"]]) = TotalGain(confident)
<1> DEFINE buckets == Bucketize(list)
           Group(b) == WithConfidence(list, b[1], b[2])
           K == UsedBuckets(list)
<1>1. \A b : Group(b) = Restrict(list, InBucket(list, b)) /\ InBucket(list, b) \in SUBSET DOMAIN list
  BY DEF WithConfidence, InBucket
<1>2. \A b : Size(Group(b)) > 0 <=> InBucket(list, b) # {}
  <2> SUFFICES ASSUME NEW b PROVE Size(Group(b)) > 0 <=> InBucket(list, b) # {}
    OBVIOUS
  <2>1. DOMAIN Group(b) = InBucket(list, b) /\ IsFiniteSet(InBucket(list, b))
    BY <1>1, FS_Subset DEF Outcomes, Restrict
  <2>2. Cardinality(InBucket(list, b)) \in Nat /\ (Cardinality(InBucket(list, b)) = 0 <=> InBucket(list, b) = {})
    BY <2>1, FS_EmptySet, FS_CardinalityType
  <2> HIDE DEF Group
  <2> QED BY <2>1, <2>2 DEF Size
<1>3. Confident(list) = Restrict(list, ConfidentOf(list)) /\ ConfidentOf(list) \in SUBSET DOMAIN list
  BY DEF Confident, ConfidentOf
<1>4. buckets = [b \in {c \in Buckets : Size(Group(c)) > 0} |->
                   [signals |-> Size(Group(b)), hits |-> HitsOf(Group(b)), gain |-> TotalGain(Group(b))]]
  BY DEF Bucketize
<1> HIDE DEF buckets, Group
<1>5. {c \in Buckets : Size(Group(c)) > 0} = K
  BY <1>2 DEF UsedBuckets
<1>6. DOMAIN buckets = K /\ \A b \in K : buckets[b] = [signals |-> Size(Group(b)), hits |-> HitsOf(Group(b)), gain |-> TotalGain(Group(b))]
  BY <1>4, <1>5
<1> HIDE DEF K
<1>7. \A b \in K : /\ buckets[b]["signals"] = SumFunctionOnSet(OnesOf(list), InBucket(list, b))
                   /\ buckets[b]["hits"] = SumFunctionOnSet(RightsOf(list), InBucket(list, b))
                   /\ buckets[b]["gain"] = SumFunctionOnSet(GainsOf(list), InBucket(list, b))
  BY <1>1, <1>6, FiguresAreSums
<1>8. /\ [b \in DOMAIN buckets |-> buckets[b]["signals"]] = BucketSums(list, OnesOf(list))
      /\ [b \in DOMAIN buckets |-> buckets[b]["hits"]] = BucketSums(list, RightsOf(list))
      /\ [b \in DOMAIN buckets |-> buckets[b]["gain"]] = BucketSums(list, GainsOf(list))
  BY <1>6, <1>7 DEF BucketSums, K
<1>9. \A i \in DOMAIN list : OnesOf(list)[i] \in Int /\ RightsOf(list)[i] \in Int /\ GainsOf(list)[i] \in Int
  BY DEF OnesOf, RightsOf, GainsOf, Outcomes
<1>10. \A f : SumFunction(BucketSums(list, f)) = SumFunctionOnSet(BucketSums(list, f), UsedBuckets(list))
  BY DEF SumFunction, BucketSums
<1>11. /\ SumFunction(BucketSums(list, OnesOf(list))) = SumFunctionOnSet(OnesOf(list), ConfidentOf(list))
       /\ SumFunction(BucketSums(list, RightsOf(list))) = SumFunctionOnSet(RightsOf(list), ConfidentOf(list))
       /\ SumFunction(BucketSums(list, GainsOf(list))) = SumFunctionOnSet(GainsOf(list), ConfidentOf(list))
  BY <1>9, <1>10, BucketsCover
<1>12. /\ Size(Confident(list)) = SumFunctionOnSet(OnesOf(list), ConfidentOf(list))
       /\ HitsOf(Confident(list)) = SumFunctionOnSet(RightsOf(list), ConfidentOf(list))
       /\ TotalGain(Confident(list)) = SumFunctionOnSet(GainsOf(list), ConfidentOf(list))
  BY <1>3, FiguresAreSums
<1> QED BY <1>8, <1>11, <1>12 DEF buckets

\* Returns compare across a third.
LEMMA ReturnsCompare ==
  ASSUME NEW a \in Int, NEW b \in Int, NEW c \in Int, NEW p \in Nat \ {0}, NEW q \in Nat \ {0}, NEW r \in Nat \ {0},
         a * q > b * p, b * r > c * q
  PROVE  a * r > c * p
<1>1. (a * q) * r > (b * p) * r
  <2> DEFINE x == a * q  y == b * p
  <2>1. x \in Int /\ y \in Int /\ x > y
    OBVIOUS
  <2> HIDE DEF x, y
  <2>2. x * r > y * r
    BY <2>1
  <2> QED BY <2>2 DEF x, y
<1>2. (b * r) * p > (c * q) * p
  <2> DEFINE x == b * r  y == c * q
  <2>1. x \in Int /\ y \in Int /\ x > y
    OBVIOUS
  <2> HIDE DEF x, y
  <2>2. x * p > y * p
    BY <2>1
  <2> QED BY <2>2 DEF x, y
<1>3. (a * q) * r = (a * r) * q /\ (b * p) * r = (b * r) * p /\ (c * q) * p = (c * p) * q
  OBVIOUS
<1> DEFINE u == a * r  v == c * p
<1>4. u \in Int /\ v \in Int
  OBVIOUS
<1>5. u * q > v * q
  <2> DEFINE x == u * q  y == (b * r) * p  z == v * q
  <2>1. x \in Int /\ y \in Int /\ z \in Int
    BY <1>4
  <2>2. x > y /\ y > z
    BY <1>1, <1>2, <1>3
  <2> HIDE DEF x, y, z
  <2>3. x > z
    BY <2>1, <2>2
  <2> QED BY <2>3 DEF x, z
<1> HIDE DEF u, v
<1>6. u > v
  <2>1. CASE v >= u
    <3>1. v * q >= u * q
      BY <1>4, <2>1
    <3>2. u * q \in Int /\ v * q \in Int
      BY <1>4
    <3> QED BY <1>5, <3>1, <3>2
  <2> QED BY <1>4, <2>1
<1> QED BY <1>6 DEF u, v

\* max and min by the return: there is a best signal and a worst, and the worst does not
\* return more.
LEMMA BestIsNoWorse ==
  ASSUME NEW list, Outcomes(list), DOMAIN list # {}
  PROVE  ~Exceeds(Worst(list), Best(list))
<1> DEFINE D == DOMAIN list
           above == {p \in D \X D : Exceeds(list[p[1]], list[p[2]])}
           below == {p \in D \X D : Exceeds(list[p[2]], list[p[1]])}
           tops == {i \in D : \A j \in D : ~Exceeds(list[j], list[i])}
           lows == {i \in D : \A j \in D : ~Exceeds(list[i], list[j])}
<1>1. \A i \in D : ~Exceeds(list[i], list[i])
  <2> SUFFICES ASSUME NEW i \in D PROVE ~Exceeds(list[i], list[i])
    OBVIOUS
  <2>1. list[i].gain * list[i].cost \in Int
    BY DEF Outcomes
  <2> QED BY <2>1 DEF Exceeds
<1>2. \A i, j, k \in D : Exceeds(list[i], list[j]) /\ Exceeds(list[j], list[k]) => Exceeds(list[i], list[k])
  BY ReturnsCompare DEF Exceeds, Outcomes
<1>3. tops # {} /\ lows # {}
  <2>1. IsFiniteSet(D) /\ D # {}
    BY DEF Outcomes
  <2>2. \E x \in D : \A y \in D : <<y, x>> \notin above
    <3>1. \A x \in D : <<x, x>> \notin above
      BY <1>1
    <3>2. \A x, y, z \in D : <<x, y>> \in above /\ <<y, z>> \in above => <<x, z>> \in above
      BY <1>2
    <3> HIDE DEF D, above
    <3> QED BY <2>1, <3>1, <3>2, FirstExists
  <2>3. \E x \in D : \A y \in D : <<y, x>> \notin below
    <3>1. \A x \in D : <<x, x>> \notin below
      BY <1>1
    <3>2. \A x, y, z \in D : <<x, y>> \in below /\ <<y, z>> \in below => <<x, z>> \in below
      BY <1>2
    <3> HIDE DEF D, below
    <3> QED BY <2>1, <3>1, <3>2, FirstExists
  <2>4. tops # {}
    BY <2>2
  <2>5. lows # {}
    BY <2>3
  <2> QED BY <2>4, <2>5
<1>4. tops \subseteq Nat /\ lows \subseteq Nat
  BY DEF Outcomes
<1>5. Best(list) = list[Min(tops)] /\ Worst(list) = list[Min(lows)]
  BY DEF Best, Worst
<1>6. Min(tops) \in tops /\ Min(lows) \in lows
  <2> HIDE DEF tops, lows
  <2> QED BY <1>3, <1>4, MinIsLeast
<1> QED BY <1>5, <1>6

\* _calibration_note: a verdict has signals on both sides, not all of them right or wrong.
LEMMA VerdictHasBothSides ==
  ASSUME NEW list, Outcomes(list), Calibration(list) \in {"better", "worse"}
  PROVE  /\ Size(Confident(list)) >= MinSample
         /\ \E i, j \in ConfidentOf(list) :
              list[i].confidence >= 75 /\ list[j].confidence < 75 /\ list[i].correct # list[j].correct
<1> DEFINE high == WithConfidence(list, 75, 101)
           low == WithConfidence(list, 0, 75)
           delta == 100 * (HitsOf(high) * Size(low) - HitsOf(low) * Size(high))
           five == 5 * (Size(high) * Size(low))
           n == Size(Confident(list))
           H == DOMAIN high
           L == DOMAIN low
<1>1. Calibration(list) =
        CASE n < MinSample -> "thin"
          [] n >= MinSample /\ five = 0 -> "narrow"
          [] n >= MinSample /\ five > 0 /\ delta > five -> "better"
          [] n >= MinSample /\ five > 0 /\ delta < -five -> "worse"
          [] OTHER -> "same"
  BY DEF Calibration
<1>2. /\ H = {i \in ConfidentOf(list) : 75 <= list[i].confidence /\ list[i].confidence < 101}
      /\ L = {i \in ConfidentOf(list) : 0 <= list[i].confidence /\ list[i].confidence < 75}
      /\ \A i \in H : high[i] = list[i]
      /\ \A i \in L : low[i] = list[i]
  BY DEF WithConfidence, Restrict, ConfidentOf
<1>3. IsFiniteSet(H) /\ IsFiniteSet(L) /\ H \subseteq DOMAIN list /\ L \subseteq DOMAIN list
  <2>1. H \subseteq DOMAIN list /\ L \subseteq DOMAIN list
    BY <1>2 DEF ConfidentOf
  <2> HIDE DEF H, L
  <2> QED BY <2>1, FS_Subset DEF Outcomes
<1> HIDE DEF high, low, n
<1>4. Size(high) = Cardinality(H) /\ Size(low) = Cardinality(L) /\ Size(high) \in Nat /\ Size(low) \in Nat
  BY <1>3, FS_CardinalityType DEF Size
<1>5. ASSUME five > 0, \A i \in H, j \in L : list[i].correct = list[j].correct
      PROVE  delta = 0
  <2>1. Size(high) # 0 /\ Size(low) # 0
    <3> DEFINE h == Size(high)  l == Size(low)
    <3>1. h \in Nat /\ l \in Nat /\ 5 * (h * l) > 0
      BY <1>4, <1>5
    <3> HIDE DEF h, l
    <3>2. h # 0 /\ l # 0
      BY <3>1
    <3> QED BY <3>2 DEF h, l
  <2>2. H # {} /\ L # {}
    BY <1>3, <1>4, <2>1, FS_EmptySet
  <2> DEFINE G == {i \in H : high[i].correct}
             W == {i \in L : low[i].correct}
  <2>3. HitsOf(high) = Cardinality(G) /\ HitsOf(low) = Cardinality(W)
    BY DEF HitsOf
  <2>4. PICK a \in H, b \in L : TRUE
    BY <2>2
  <2>5. list[a].correct \in BOOLEAN
    BY <1>3, <2>4 DEF Outcomes
  <2>6. CASE list[a].correct
    <3>1. \A j \in L : list[j].correct
      BY <1>5, <2>4, <2>6
    <3>2. \A i \in H : list[i].correct
      BY <1>5, <2>4, <3>1
    <3>3. G = H /\ W = L
      BY <1>2, <3>1, <3>2
    <3>4. HitsOf(high) = Size(high) /\ HitsOf(low) = Size(low)
      BY <1>4, <2>3, <3>3
    <3> DEFINE h == Size(high)  l == Size(low)
    <3>5. h \in Nat /\ l \in Nat /\ delta = 100 * (h * l - l * h)
      BY <1>4, <3>4
    <3> HIDE DEF h, l, delta
    <3>6. h * l = l * h /\ h * l \in Int
      BY <3>5
    <3> QED BY <3>5, <3>6
  <2>7. CASE ~list[a].correct
    <3>1. \A j \in L : ~list[j].correct
      BY <1>5, <2>4, <2>7
    <3>2. \A i \in H : ~list[i].correct
      BY <1>5, <2>4, <3>1
    <3>3. G = {} /\ W = {}
      BY <1>2, <3>1, <3>2
    <3>4. HitsOf(high) = 0 /\ HitsOf(low) = 0
      BY <2>3, <3>3, FS_EmptySet
    <3> DEFINE h == Size(high)  l == Size(low)
    <3>5. h \in Nat /\ l \in Nat /\ delta = 100 * (0 * l - 0 * h)
      BY <1>4, <3>4
    <3> HIDE DEF h, l, delta
    <3>6. 0 * l = 0 /\ 0 * h = 0
      BY <3>5
    <3> QED BY <3>5, <3>6
  <2> QED BY <2>5, <2>6, <2>7
<1>6. five \in Int /\ n \in Nat
  <2>1. IsFiniteSet(DOMAIN Confident(list))
    <3>1. DOMAIN Confident(list) \subseteq DOMAIN list
      BY DEF Confident, Restrict
    <3> QED BY <3>1, FS_Subset DEF Outcomes
  <2>2. n \in Nat
    BY <2>1, FS_CardinalityType DEF n, Size
  <2> DEFINE h == Size(high)  l == Size(low)
  <2>3. h \in Nat /\ l \in Nat
    BY <1>4
  <2> HIDE DEF h, l
  <2>4. 5 * (h * l) \in Int
    BY <2>3
  <2> QED BY <2>2, <2>4 DEF h, l
<1> HIDE DEF five, delta
<1>7. n >= MinSample /\ five > 0 /\ delta # 0
  <2>1. MinSample \in Nat
    BY ScorecardAssumption
  <2>2. /\ n >= MinSample /\ five > 0 /\ (delta > five \/ delta < -five)
    BY <1>1, <1>6, <2>1
  <2>3. ASSUME delta = 0 PROVE FALSE
    BY <1>6, <2>2, <2>3
  <2> QED BY <2>2, <2>3
<1>8. PICK i \in H, j \in L : list[i].correct # list[j].correct
  BY <1>5, <1>7
<1>9. i \in ConfidentOf(list) /\ j \in ConfidentOf(list) /\ list[i].confidence >= 75 /\ list[j].confidence < 75
  <2>1. list[i].confidence \in Int
    BY <1>2, <1>3 DEF Outcomes, ConfidentOf
  <2> HIDE DEF H, L
  <2> QED BY <1>2, <2>1
<1> QED BY <1>7, <1>8, <1>9 DEF n

ReadSignal == [kind : SignalKinds, fill : Fills \union {Blank}]

\* What a request that is under way has read: nothing of it changes while it waits for
\* quotes, and a symbol it lacks a quote of is still to be asked for, unless one failed.
RequestSound(r) ==
  /\ r = [read |-> r.read, filled |-> r.filled, unfilled |-> r.unfilled, todo |-> r.todo,
          prices |-> r.prices, degraded |-> r.degraded]
  /\ DOMAIN r.read \subseteq Nat /\ IsFiniteSet(DOMAIN r.read)
  /\ \A i \in DOMAIN r.read : r.read[i] \in ReadSignal
  /\ r.filled \subseteq DOMAIN r.read /\ \A i \in r.filled : r.read[i].fill # Blank
  /\ r.unfilled = Cardinality(DOMAIN r.read \ r.filled)
  /\ r.todo \subseteq Assets /\ DOMAIN r.prices \subseteq Assets
  /\ \A s \in DOMAIN r.prices : r.prices[s] \in Nat
  /\ r.degraded \in BOOLEAN
  /\ r.degraded \/ \A i \in r.filled : r.read[i].kind.symbol \in r.todo \union DOMAIN r.prices

ScoreInv == ScoreTypeOK /\ (request # Blank => RequestSound(request)) /\ ScorecardAddsUp

LEMMA ScoreStarts == ScoreInit => ScoreInv
<1> SUFFICES ASSUME ScoreInit PROVE ScoreInv
  OBVIOUS
<1>1. graded = <<>> /\ request = Blank /\ card = Blank /\ moves = 0 /\ latest = [s \in Assets |-> 1]
  BY DEF ScoreInit
<1>2. latest \in [Assets -> Marks] /\ 0 \in 0..MaxMoves
  BY <1>1, ScorecardAssumption
<1> QED BY <1>1, <1>2 DEF ScoreInv, ScoreTypeOK, ScorecardAddsUp

\* What a request and a scorecard hold is their own.
LEMMA HeldStays ==
  ASSUME ScoreInv, request' = request, card' = card
  PROVE  (request # Blank => RequestSound(request))' /\ ScorecardAddsUp'
         /\ (request = Blank \/ (request.todo \subseteq Assets /\ DOMAIN request.prices \subseteq Assets))'
         /\ (card = Blank \/ card.note \in {"none", "thin", "narrow", "better", "worse", "same"})'
<1>1. (request # Blank => RequestSound(request))'
  BY DEF ScoreInv, RequestSound, ReadSignal
<1>2. ScorecardAddsUp'
  BY DEF ScoreInv, ScorecardAddsUp, Exceeds
<1> QED BY <1>1, <1>2 DEF ScoreInv, ScoreTypeOK

LEMMA RecordKeeps ==
  ASSUME ScoreInv, NEW kind \in SignalKinds, RecordSignal(kind)
  PROVE  ScoreInv'
<1>1. request' = request /\ card' = card /\ latest' = latest /\ moves' = moves
      /\ graded' = Append(graded, [kind |-> kind, fill |-> Blank])
  BY DEF RecordSignal
<1>2. graded' \in Seq([kind : SignalKinds, fill : Fills \union {Blank}])
  BY <1>1 DEF ScoreInv, ScoreTypeOK
<1> QED BY <1>1, <1>2, HeldStays DEF ScoreInv, ScoreTypeOK

LEMMA FillKeeps ==
  ASSUME ScoreInv, NEW i \in DOMAIN graded, NEW price \in Fills, FillSignal(i, price)
  PROVE  ScoreInv'
<1>1. request' = request /\ card' = card /\ latest' = latest /\ moves' = moves
      /\ graded' = [graded EXCEPT ![i].fill = price]
  BY DEF FillSignal
<1> DEFINE T == [kind : SignalKinds, fill : Fills \union {Blank}]
<1>2. graded' \in Seq(T)
  <2>1. graded \in Seq(T)
    BY DEF ScoreInv, ScoreTypeOK
  <2>2. graded[i] \in T
    <3> HIDE DEF T
    <3>1. i \in 1..Len(graded)
      BY <2>1
    <3> QED BY <2>1, <3>1, ElementOfSeq
  <2>3. [graded[i] EXCEPT !.fill = price] \in T
    BY <2>2
  <2>4. graded' = [graded EXCEPT ![i] = [graded[i] EXCEPT !.fill = price]]
    BY <1>1
  <2> HIDE DEF T
  <2> QED BY <2>1, <2>3, <2>4, ExceptSeq
<1> QED BY <1>1, <1>2, HeldStays DEF ScoreInv, ScoreTypeOK

LEMMA MoveKeeps ==
  ASSUME ScoreInv, NEW s \in Assets, NEW price \in Marks, PriceMoves(s, price)
  PROVE  ScoreInv'
<1>1. request' = request /\ card' = card /\ graded' = graded /\ moves < MaxMoves /\ moves' = moves + 1
      /\ latest' = [latest EXCEPT ![s] = price]
  BY DEF PriceMoves
<1>2. moves' \in 0..MaxMoves /\ latest' \in [Assets -> Marks]
  BY <1>1, ScorecardAssumption DEF ScoreInv, ScoreTypeOK
<1> QED BY <1>1, <1>2, HeldStays DEF ScoreInv, ScoreTypeOK

LEMMA AskKeeps ==
  ASSUME ScoreInv, NEW symbol \in Assets \union {Blank}, Ask(symbol)
  PROVE  ScoreInv'
<1> DEFINE mine == {i \in DOMAIN graded : symbol = Blank \/ graded[i].kind.symbol = symbol}
           filled == {i \in mine : graded[i].fill # Blank}
           todo == {graded[i].kind.symbol : i \in filled}
           read == Restrict(graded, mine)
           n == Cardinality(mine \ filled)
           prices == [s \in {} |-> 0]
           r == [read |-> read, filled |-> filled, unfilled |-> n, todo |-> todo,
                 prices |-> prices, degraded |-> FALSE]
<1>1. request' = r /\ card = Blank /\ card' = card /\ graded' = graded /\ latest' = latest /\ moves' = moves
  BY DEF Ask
<1>2. graded \in Seq(ReadSignal)
  BY DEF ScoreInv, ScoreTypeOK, ReadSignal
<1>3. DOMAIN graded \subseteq Nat /\ IsFiniteSet(DOMAIN graded) /\ \A i \in DOMAIN graded : graded[i] \in ReadSignal
  <2>1. Len(graded) \in Nat /\ DOMAIN graded = 1..Len(graded)
    BY <1>2
  <2> QED BY <1>2, <2>1, FS_Interval, ElementOfSeq
<1>4. DOMAIN read = mine /\ mine \subseteq DOMAIN graded /\ \A i \in mine : read[i] = graded[i]
  BY DEF Restrict
<1>5. todo \subseteq Assets
  <2> SUFFICES ASSUME NEW i \in DOMAIN graded PROVE graded[i].kind.symbol \in Assets
    OBVIOUS
  <2> QED BY <1>3, ScorecardAssumption DEF ReadSignal
<1>6. RequestSound(r)
  <2>1. mine \subseteq Nat /\ IsFiniteSet(mine)
    BY <1>3, <1>4, FS_Subset
  <2>2. filled \subseteq mine /\ \A i \in filled : read[i].fill # Blank /\ read[i].kind.symbol \in todo
    BY <1>4
  <2>3. DOMAIN prices = {}
    OBVIOUS
  <2> HIDE DEF mine, filled, todo, read, n, prices
  <2>4. n = Cardinality(DOMAIN read \ filled)
    BY <1>4 DEF n
  <2> QED BY <1>3, <1>4, <1>5, <2>1, <2>2, <2>3, <2>4 DEF RequestSound
<1>7. RequestSound(request)'
  <2> HIDE DEF r
  <2> QED BY <1>1, <1>6 DEF RequestSound, ReadSignal
<1>8. ScorecardAddsUp'
  BY <1>1 DEF ScorecardAddsUp
<1>9. ScoreTypeOK'
  <2>1. (request.todo \subseteq Assets /\ DOMAIN request.prices \subseteq Assets)'
    BY <1>7 DEF RequestSound
  <2> HIDE DEF r
  <2> QED BY <1>1, <2>1 DEF ScoreInv, ScoreTypeOK
<1> QED BY <1>7, <1>8, <1>9 DEF ScoreInv

LEMMA QuoteKeeps ==
  ASSUME ScoreInv, NEW s \in Assets, Quote(s)
  PROVE  ScoreInv'
<1> DEFINE r == request
           todo == r.todo \ {s}
           prices == [t \in DOMAIN r.prices \union {s} |-> IF t = s THEN latest[s] ELSE r.prices[t]]
<1>1. r # Blank /\ s \in r.todo /\ card' = card /\ graded' = graded /\ latest' = latest /\ moves' = moves
  BY DEF Quote
<1>2. \/ request' = [r EXCEPT !.todo = todo, !.prices = prices]
      \/ request' = [r EXCEPT !.todo = todo, !.degraded = TRUE]
  BY DEF Quote
<1>3. RequestSound(r)
  BY <1>1 DEF ScoreInv
<1>4. latest[s] \in Nat
  BY ScorecardAssumption DEF ScoreInv, ScoreTypeOK
<1>5. RequestSound(request')
  <2>1. CASE request' = [r EXCEPT !.todo = todo, !.prices = prices]
    <3>1. DOMAIN prices = DOMAIN r.prices \union {s} /\ \A t \in DOMAIN prices : prices[t] \in Nat
      BY <1>3, <1>4 DEF RequestSound
    <3>2. todo \subseteq Assets /\ DOMAIN prices \subseteq Assets /\ todo \union DOMAIN prices = r.todo \union DOMAIN r.prices
      BY <1>1, <1>3, <3>1 DEF RequestSound
    <3> HIDE DEF todo, prices, r
    <3>3. request' = [read |-> r.read, filled |-> r.filled, unfilled |-> r.unfilled, todo |-> todo,
                      prices |-> prices, degraded |-> r.degraded]
      BY <1>3, <2>1 DEF RequestSound
    <3> QED BY <1>3, <3>1, <3>2, <3>3 DEF RequestSound
  <2>2. CASE request' = [r EXCEPT !.todo = todo, !.degraded = TRUE]
    <3>1. todo \subseteq Assets
      BY <1>3 DEF RequestSound
    <3> HIDE DEF todo, r
    <3>2. request' = [read |-> r.read, filled |-> r.filled, unfilled |-> r.unfilled, todo |-> todo,
                      prices |-> r.prices, degraded |-> TRUE]
      BY <1>3, <2>2 DEF RequestSound
    <3> QED BY <1>3, <3>1, <3>2 DEF RequestSound
  <2> QED BY <1>2, <2>1, <2>2
<1>6. RequestSound(request)'
  BY <1>5 DEF RequestSound, ReadSignal
<1>7. ScorecardAddsUp'
  BY <1>1 DEF ScoreInv, ScorecardAddsUp, Exceeds
<1>8. ScoreTypeOK'
  <2>1. (request.todo \subseteq Assets /\ DOMAIN request.prices \subseteq Assets)'
    BY <1>6 DEF RequestSound
  <2> QED BY <1>1, <2>1 DEF ScoreInv, ScoreTypeOK
<1> QED BY <1>6, <1>7, <1>8 DEF ScoreInv

\* _score: what it makes of a filled signal and a price.
LEMMA ScoredIs ==
  ASSUME NEW g \in ReadSignal, g.fill # Blank, NEW price \in Nat
  PROVE  LET o == Scored(g, price) IN
         /\ o.symbol = g.kind.symbol /\ o.side = g.kind.side /\ o.fill = g.fill /\ o.price = price
         /\ o.side \in {"buy", "sell"} /\ o.fill \in Nat
         /\ o.confidence \in (0..100) \union {Blank} /\ o.correct \in BOOLEAN
         /\ o.gain \in Int /\ o.cost \in Nat \ {0}
         /\ o.correct <=> IF o.side = "buy" THEN price > o.fill ELSE o.fill > price
<1> DEFINE k == g.kind
           move == IF k.side = "buy" THEN price - g.fill ELSE g.fill - price
           o == Scored(g, price)
<1>1. k \in SignalKinds /\ g.fill \in Nat \ {0}
  BY ScorecardAssumption DEF ReadSignal
<1>2. k.side \in {"buy", "sell"} /\ k.qty \in Nat \ {0} /\ k.confidence \in (0..100) \union {Blank}
  BY <1>1, ScorecardAssumption
<1>3. o = [symbol |-> k.symbol, side |-> k.side, fill |-> g.fill, confidence |-> k.confidence,
           price |-> price, gain |-> move * k.qty, cost |-> g.fill * k.qty, correct |-> move > 0]
  BY DEF Scored
<1>4. move \in Int /\ (move > 0 <=> IF k.side = "buy" THEN price > g.fill ELSE g.fill > price)
  BY <1>1
<1> HIDE DEF k, move, o
<1>5. move * k.qty \in Int /\ g.fill * k.qty \in Nat \ {0}
  <2> DEFINE q == k.qty  f == g.fill
  <2>1. q \in Nat \ {0} /\ f \in Nat \ {0}
    BY <1>1, <1>2
  <2> HIDE DEF q, f
  <2>2. move * q \in Int /\ f * q \in Nat \ {0}
    BY <1>4, <2>1
  <2> QED BY <2>2 DEF q, f
<1>6. /\ o.symbol = k.symbol /\ o.side = k.side /\ o.fill = g.fill /\ o.price = price
      /\ o.confidence = k.confidence /\ o.correct = (move > 0)
      /\ o.gain = move * k.qty /\ o.cost = g.fill * k.qty
  BY <1>3
<1>7. /\ o.side \in {"buy", "sell"} /\ o.fill \in Nat
      /\ o.confidence \in (0..100) \union {Blank}
      /\ o.gain \in Int /\ o.cost \in Nat \ {0}
  <2> HIDE DEF ReadSignal
  <2> QED BY <1>1, <1>2, <1>5, <1>6
<1>8. o.correct \in BOOLEAN
  <2>1. (move > 0) \in BOOLEAN
    OBVIOUS
  <2> QED BY <1>6, <2>1, Zenon
<1>9. o.correct <=> IF o.side = "buy" THEN price > o.fill ELSE o.fill > price
  <2>1. o.correct <=> IF k.side = "buy" THEN price > g.fill ELSE g.fill > price
    BY <1>4, <1>6, Zenon
  <2> QED BY <1>6, <2>1
<1> QED BY <1>6, <1>7, <1>8, <1>9 DEF k, o

LEMMA GradeKeeps == ScoreInv /\ Grade => ScoreInv'
<1> SUFFICES ASSUME ScoreInv, Grade PROVE ScoreInv'
  OBVIOUS
<1> DEFINE r == request
           sym(i) == r.read[i].kind.symbol
           priced == {i \in r.filled : Priced(r, r.read[i])}
           outcomes == [i \in priced |-> Scored(r.read[i], r.prices[sym(i)])]
           none == priced = {}
           m == Cardinality(r.filled \ priced)
           verdict == IF none THEN "none" ELSE Calibration(outcomes)
           best == IF none THEN Blank ELSE Best(outcomes)
           worst == IF none THEN Blank ELSE Worst(outcomes)
           buckets == Bucketize(outcomes)
           c == [read |-> r.read, prices |-> r.prices, outcomes |-> outcomes,
                 evaluated |-> Size(outcomes), unfilled |-> r.unfilled, unpriced |-> m,
                 hits |-> HitsOf(outcomes), gain |-> TotalGain(outcomes), buckets |-> buckets,
                 best |-> best, worst |-> worst, note |-> verdict, degraded |-> r.degraded]
<1>1. /\ r # Blank /\ r.todo = {} /\ card' = c /\ request' = Blank
      /\ graded' = graded /\ latest' = latest /\ moves' = moves
  BY DEF Grade
<1>2. RequestSound(r)
  BY <1>1 DEF ScoreInv
<1> DEFINE symbol == [i \in DOMAIN r.read |-> sym(i)]
<1>3. \A i \in priced : /\ i \in r.filled /\ i \in DOMAIN r.read /\ r.read[i] \in ReadSignal /\ r.read[i].fill # Blank
                        /\ sym(i) \in DOMAIN r.prices /\ r.prices[sym(i)] \in Nat /\ r.prices[sym(i)] > 0
  BY <1>2 DEF RequestSound, Priced
<1>4. DOMAIN outcomes = priced /\ \A i \in priced : outcomes[i] = Scored(r.read[i], r.prices[sym(i)])
  OBVIOUS
<1> HIDE DEF r, sym, outcomes, c, m, verdict, best, worst, buckets, symbol
<1>5. \A i \in priced :
        LET o == outcomes[i] IN
        /\ o.symbol = sym(i) /\ o.price = r.prices[sym(i)] /\ o.price \in Nat
        /\ o.side \in {"buy", "sell"} /\ o.fill \in Nat
        /\ o.confidence \in (0..100) \union {Blank} /\ o.correct \in BOOLEAN
        /\ o.gain \in Int /\ o.cost \in Nat \ {0}
        /\ o.correct <=> IF o.side = "buy" THEN o.price > o.fill ELSE o.fill > o.price
  <2> SUFFICES ASSUME NEW i \in priced
               PROVE  LET o == outcomes[i] IN
                      /\ o.symbol = sym(i) /\ o.price = r.prices[sym(i)] /\ o.price \in Nat
                      /\ o.side \in {"buy", "sell"} /\ o.fill \in Nat
                      /\ o.confidence \in (0..100) \union {Blank} /\ o.correct \in BOOLEAN
                      /\ o.gain \in Int /\ o.cost \in Nat \ {0}
                      /\ o.correct <=> IF o.side = "buy" THEN o.price > o.fill ELSE o.fill > o.price
    OBVIOUS
  <2> DEFINE g == r.read[i]
             p == r.prices[sym(i)]
             o == Scored(g, p)
  <2>1. g \in ReadSignal /\ g.fill # Blank /\ p \in Nat /\ sym(i) = g.kind.symbol
    BY <1>3 DEF sym
  <2>2. outcomes[i] = o
    BY <1>4
  <2> HIDE DEF g, p, priced
  <2>3. /\ o.symbol = g.kind.symbol /\ o.side = g.kind.side /\ o.fill = g.fill /\ o.price = p
        /\ o.side \in {"buy", "sell"} /\ o.fill \in Nat
        /\ o.confidence \in (0..100) \union {Blank} /\ o.correct \in BOOLEAN
        /\ o.gain \in Int /\ o.cost \in Nat \ {0}
        /\ o.correct <=> IF o.side = "buy" THEN p > o.fill ELSE o.fill > p
    BY <2>1, ScoredIs
  <2> HIDE DEF o
  <2> QED BY <2>1, <2>2, <2>3 DEF p
<1>6. priced \subseteq r.filled /\ r.filled \subseteq DOMAIN r.read /\ IsFiniteSet(DOMAIN r.read) /\ DOMAIN r.read \subseteq Nat
  BY <1>2 DEF RequestSound
<1> HIDE DEF priced
<1>7. IsFiniteSet(priced) /\ IsFiniteSet(r.filled)
  BY <1>6, FS_Subset
<1>8. Outcomes(outcomes)
  BY <1>4, <1>5, <1>6, <1>7 DEF Outcomes
<1>9. /\ c.read = r.read /\ c.prices = r.prices /\ c.outcomes = outcomes /\ c.evaluated = Size(outcomes)
      /\ c.unfilled = r.unfilled /\ c.unpriced = m /\ c.buckets = buckets
      /\ c.best = best /\ c.worst = worst /\ c.note = verdict /\ c.degraded = r.degraded
  BY DEF c
<1>10. c.evaluated + c.unfilled + c.unpriced = Cardinality(DOMAIN c.read)
  <2>1. /\ Cardinality(r.filled) = Cardinality(priced) + Cardinality(r.filled \ priced)
        /\ Cardinality(DOMAIN r.read) = Cardinality(r.filled) + Cardinality(DOMAIN r.read \ r.filled)
    BY <1>6, <1>7, SplitInTwo
  <2>2. /\ Cardinality(priced) \in Nat /\ Cardinality(r.filled \ priced) \in Nat
        /\ Cardinality(DOMAIN r.read \ r.filled) \in Nat
    BY <1>6, <1>7, FS_Subset, FS_CardinalityType
  <2>3. Size(outcomes) = Cardinality(priced) /\ r.unfilled = Cardinality(DOMAIN r.read \ r.filled)
    BY <1>2, <1>4 DEF Size, RequestSound
  <2> QED BY <1>9, <2>1, <2>2, <2>3 DEF m
<1>11. c.unpriced > 0 => c.degraded \/ \E s \in DOMAIN c.prices : c.prices[s] = 0
  <2> SUFFICES ASSUME m > 0, ~r.degraded PROVE \E s \in DOMAIN r.prices : r.prices[s] = 0
    BY <1>9
  <2>1. r.filled \ priced # {}
    BY FS_EmptySet DEF m
  <2>2. PICK i \in r.filled \ priced : TRUE
    BY <2>1
  <2>3. sym(i) \in DOMAIN r.prices
    BY <1>1, <1>2, <2>2 DEF RequestSound, sym
  <2>4. ~(r.prices[sym(i)] > 0)
    BY <2>2, <2>3 DEF priced, Priced, sym
  <2>5. r.prices[sym(i)] = 0
    BY <1>2, <2>3, <2>4 DEF RequestSound
  <2> QED BY <2>3, <2>5
<1>12. \A o, p \in Range(outcomes) : o.symbol = p.symbol =>
         /\ o.price = p.price
         /\ o.side # p.side /\ o.fill = p.fill => ~(o.correct /\ p.correct)
  <2> SUFFICES ASSUME NEW i \in priced, NEW j \in priced, outcomes[i].symbol = outcomes[j].symbol
               PROVE  /\ outcomes[i].price = outcomes[j].price
                      /\ outcomes[i].side # outcomes[j].side /\ outcomes[i].fill = outcomes[j].fill
                           => ~(outcomes[i].correct /\ outcomes[j].correct)
    BY <1>4 DEF Range
  <2>1. outcomes[i].price = outcomes[j].price
    BY <1>5
  <2> DEFINE o == outcomes[i]  p == outcomes[j]
  <2>2. /\ o.side \in {"buy", "sell"} /\ o.fill \in Nat /\ o.price \in Nat
        /\ o.correct <=> IF o.side = "buy" THEN o.price > o.fill ELSE o.fill > o.price
        /\ p.side \in {"buy", "sell"} /\ p.fill \in Nat /\ p.price \in Nat
        /\ p.correct <=> IF p.side = "buy" THEN p.price > p.fill ELSE p.fill > p.price
    BY <1>5
  <2>3. o.price = p.price
    BY <2>1
  <2> HIDE DEF o, p
  <2>4. o.side # p.side /\ o.fill = p.fill => ~(o.correct /\ p.correct)
    BY <2>2, <2>3
  <2> QED BY <2>1, <2>4 DEF o, p
<1>13. /\ SumFunction([b \in DOMAIN buckets |-> buckets[b]["signals"]]) = Size(Confident(outcomes))
       /\ SumFunction([b \in DOMAIN buckets |-> buckets[b]["hits"]]) = HitsOf(Confident(outcomes))
       /\ SumFunction([b \in DOMAIN buckets |-> buckets[b]["gain"]]) = TotalGain(Confident(outcomes))
  BY <1>8, BucketsAddUp DEF buckets
<1>14. c.evaluated > 0 => ~Exceeds(worst, best)
  <2> SUFFICES ASSUME Size(outcomes) > 0 PROVE ~Exceeds(worst, best)
    BY <1>9
  <2>1. priced # {}
    BY <1>4, FS_EmptySet DEF Size
  <2> QED BY <1>4, <1>8, <2>1, BestIsNoWorse DEF best, worst
<1>15. verdict \in {"better", "worse"} =>
         /\ Size(Confident(outcomes)) >= MinSample
         /\ \E o, p \in Range(Confident(outcomes)) : o.confidence >= 75 /\ p.confidence < 75 /\ o.correct # p.correct
  <2> SUFFICES ASSUME verdict \in {"better", "worse"}
               PROVE  /\ Size(Confident(outcomes)) >= MinSample
                      /\ \E o, p \in Range(Confident(outcomes)) :
                           o.confidence >= 75 /\ p.confidence < 75 /\ o.correct # p.correct
    OBVIOUS
  <2>1. Calibration(outcomes) \in {"better", "worse"}
    BY DEF verdict
  <2>2. PICK i, j \in ConfidentOf(outcomes) :
          outcomes[i].confidence >= 75 /\ outcomes[j].confidence < 75 /\ outcomes[i].correct # outcomes[j].correct
    BY <1>8, <2>1, VerdictHasBothSides
  <2>3. outcomes[i] \in Range(Confident(outcomes)) /\ outcomes[j] \in Range(Confident(outcomes))
    <3>1. /\ DOMAIN Confident(outcomes) = ConfidentOf(outcomes)
          /\ \A k \in ConfidentOf(outcomes) : Confident(outcomes)[k] = outcomes[k]
      BY DEF Confident, Restrict, ConfidentOf
    <3> QED BY <2>2, <3>1 DEF Range
  <2> QED BY <1>8, <2>1, <2>2, <2>3, VerdictHasBothSides
<1>16. ScorecardAddsUp'
  <2>1. card' = c
    BY <1>1
  <2> HIDE DEF r
  <2> QED BY <1>9, <1>10, <1>11, <1>12, <1>13, <1>14, <1>15, <2>1 DEF ScorecardAddsUp, Exceeds
<1>17. ScoreTypeOK'
  <2>1. verdict \in {"none", "thin", "narrow", "better", "worse", "same"}
    <3> DEFINE n == Size(Confident(outcomes))
    <3> QED BY DEF verdict, Calibration
  <2>2. (card.note \in {"none", "thin", "narrow", "better", "worse", "same"})'
    BY <1>1, <1>9, <2>1
  <2> QED BY <1>1, <2>2 DEF ScoreInv, ScoreTypeOK
<1> QED BY <1>1, <1>16, <1>17 DEF ScoreInv

LEMMA ScoreStays == ScoreInv /\ UNCHANGED scoreVars => ScoreInv'
<1> SUFFICES ASSUME ScoreInv, UNCHANGED scoreVars PROVE ScoreInv'
  OBVIOUS
<1>1. request' = request /\ card' = card /\ graded' = graded /\ latest' = latest /\ moves' = moves
  BY DEF scoreVars
<1> QED BY <1>1, HeldStays DEF ScoreInv, ScoreTypeOK

\* signal_performance_service.py: a scorecard has kept what it read, and asked for every
\* symbol it lacks a price of, whatever is filled and quoted meanwhile.
THEOREM ScoreHolds == ScoreSpec => []ScoreInv
<1>1. ASSUME ScoreInv, ScoreNext PROVE ScoreInv'
  BY <1>1, RecordKeeps, FillKeeps, MoveKeeps, AskKeeps, QuoteKeeps, GradeKeeps DEF ScoreNext
<1> QED BY <1>1, ScoreStarts, ScoreStays, PTL DEF ScoreSpec

\* signal_performance_service.py: every signal that was read counts once and in one bucket,
\* those of a symbol are marked at one price, the best returns no less than the worst, and
\* a verdict on calibration has signals on both sides; for any signals, fills and prices.
THEOREM ScoresAddUp == ScoreSpec => []ScorecardAddsUp
<1>1. ScoreInv => ScorecardAddsUp
  BY DEF ScoreInv
<1> QED BY <1>1, ScoreHolds, PTL
-----------------------------------------------------------------------------
(* Reports.                                                                *)

Rising(q) == \A i, j \in DOMAIN q : i < j => q[i] < q[j]

LEMMA RisingExists ==
  ASSUME NEW days, IsFiniteSet(days), days \subseteq Nat
  PROVE  \E q \in [1..Cardinality(days) -> days] : Rising(q)
<1> DEFINE Has(s) == \E q \in [1..Cardinality(s) -> s] : Rising(q)
           Q == {s \in SUBSET days : ~Has(s)}
<1>1. SUFFICES ASSUME Q # {} PROVE FALSE
  OBVIOUS
<1>2. PICK s \in Q : \A x \in s : s \ {x} \notin Q
  <2> HIDE DEF Q
  <2>1. Q \subseteq SUBSET days
    BY DEF Q
  <2> QED BY <1>1, <2>1, SmallestOf
<1>3. s # {}
  <2>1. ASSUME s = {} PROVE Has(s)
    <3>1. Cardinality(s) = 0 /\ 1..0 = {}
      BY <2>1, FS_EmptySet
    <3>2. [i \in 1..0 |-> 0] \in [1..Cardinality(s) -> s] /\ Rising([i \in 1..0 |-> 0])
      BY <3>1 DEF Rising
    <3> QED BY <3>2
  <2> QED BY <1>2, <2>1
<1>4. IsFiniteSet(s) /\ s \subseteq Nat /\ s \subseteq Int
  <2>1. s \in SUBSET days
    BY <1>2
  <2>2. IsFiniteSet(s)
    BY <2>1, FS_Subset
  <2>3. s \subseteq Nat
    BY <2>1
  <2> HIDE DEF Q
  <2> QED BY <2>2, <2>3
<1> DEFINE x == Max(s)
           r == s \ {x}
           n == Cardinality(r)
<1>5. x \in s /\ \A y \in s : y <= x
  <2>1. Max(s) \in s /\ \A y \in s : y <= Max(s)
    BY <1>3, <1>4, LargestExists
  <2> QED BY <2>1
<1> HIDE DEF x
<1>6. n \in Nat /\ Cardinality(s) = n + 1 /\ IsFiniteSet(r)
  <2>1. IsFiniteSet(r) /\ Cardinality(r) = Cardinality(s) - 1
    BY <1>4, <1>5, FS_RemoveElement
  <2>2. Cardinality(r) \in Nat /\ Cardinality(s) \in Nat
    BY <1>4, <2>1, FS_CardinalityType
  <2> HIDE DEF r
  <2> QED BY <2>1, <2>2
<1>7. PICK q \in [1..n -> r] : Rising(q)
  <2>1. r \in SUBSET days /\ r \notin Q
    BY <1>2, <1>5
  <2> QED BY <2>1
<1>8. \A y \in r : y < x
  <2>1. ASSUME NEW y \in r PROVE y < x
    <3>1. y \in s /\ y # x /\ y \in Nat /\ x \in Nat /\ y <= x
      BY <1>4, <1>5
    <3> QED BY <3>1
  <2> QED BY <2>1
<1> DEFINE p == [i \in 1..(n + 1) |-> IF i = n + 1 THEN x ELSE q[i]]
<1>9. p \in [1..(n + 1) -> s]
  <2>1. \A i \in 1..(n + 1) : i # n + 1 => i \in 1..n
    BY <1>6
  <2>2. \A i \in 1..n : q[i] \in s
    BY <1>7
  <2> HIDE DEF n, r
  <2> QED BY <1>5, <2>1, <2>2
<1>10. Rising(p)
  <2>1. ASSUME NEW i \in 1..(n + 1), NEW j \in 1..(n + 1), i < j PROVE p[i] < p[j]
    <3>1. i \in 1..n /\ i # n + 1 /\ p[i] = q[i]
      BY <1>6, <2>1
    <3>2. CASE j = n + 1
      <4>1. q[i] \in r
        BY <1>7, <3>1
      <4> HIDE DEF r, n
      <4> QED BY <1>8, <3>1, <3>2, <4>1
    <3>3. CASE j # n + 1
      <4>1. j \in 1..n /\ p[j] = q[j]
        BY <1>6, <3>3
      <4>2. DOMAIN q = 1..n
        BY <1>7
      <4> QED BY <1>7, <2>1, <3>1, <4>1, <4>2 DEF Rising
    <3> QED BY <3>2, <3>3
  <2>2. DOMAIN p = 1..(n + 1)
    OBVIOUS
  <2> HIDE DEF p, n
  <2> QED BY <2>1, <2>2 DEF Rising
<1>11. Has(s)
  <2> HIDE DEF p
  <2> QED BY <1>6, <1>9, <1>10
<1> QED BY <1>2, <1>11

\* The days in time: every one at one position.
LEMMA InTimeIs ==
  ASSUME NEW days, IsFiniteSet(days), days \subseteq Nat
  PROVE  /\ InTime(days) \in [1..Cardinality(days) -> days]
         /\ \A i, j \in 1..Cardinality(days) : i < j <=> InTime(days)[i] < InTime(days)[j]
         /\ \A d \in days : \E i \in 1..Cardinality(days) : InTime(days)[i] = d
<1> DEFINE n == Cardinality(days)
           q == InTime(days)
           S == 1..n
           R == {q[i] : i \in S}
<1>1. n \in Nat
  BY FS_CardinalityType
<1>2. q \in [1..n -> days] /\ Rising(q)
  BY RisingExists DEF InTime, Rising
<1> HIDE DEF q, n
<1>3. \A i \in S : q[i] \in days /\ q[i] \in Nat
  BY <1>2
<1>4. \A i, j \in S : i < j => q[i] < q[j]
  BY <1>2 DEF Rising
<1>5. \A i, j \in S : i < j <=> q[i] < q[j]
  <2> SUFFICES ASSUME NEW i \in S, NEW j \in S PROVE i < j <=> q[i] < q[j]
    OBVIOUS
  <2>1. i \in Int /\ j \in Int /\ q[i] \in Int /\ q[j] \in Int
    BY <1>1, <1>3
  <2>2. CASE i < j
    BY <1>4, <2>2
  <2>3. CASE i = j
    BY <2>1, <2>3
  <2>4. CASE j < i
    <3>1. q[j] < q[i]
      BY <1>4, <2>4
    <3> QED BY <2>1, <2>4, <3>1
  <2> QED BY <2>1, <2>2, <2>3, <2>4
<1>6. R = days
  <2>1. IsFiniteSet(S) /\ Cardinality(S) = n
    BY <1>1, FS_Interval
  <2>2. q = [i \in S |-> q[i]] /\ DOMAIN q = S
    BY <1>2
  <2>3. \A i, j \in S : q[i] = q[j] => i = j
    <3> SUFFICES ASSUME NEW i \in S, NEW j \in S, q[i] = q[j] PROVE i = j
      OBVIOUS
    <3>1. ~(i < j) /\ ~(j < i) /\ i \in Int /\ j \in Int
      BY <1>1, <1>3, <1>5
    <3> QED BY <3>1
  <2>4. IsFiniteSet(R) /\ Cardinality(R) = Cardinality(S)
    <3> HIDE DEF S
    <3> QED BY <2>1, <2>2, <2>3, ImageIsAsLarge
  <2>5. R \subseteq days
    BY <1>3
  <2> HIDE DEF R
  <2> QED BY <2>1, <2>4, <2>5, FS_Subset DEF n
<1>7. \A d \in days : \E i \in S : q[i] = d
  BY <1>6
<1> QED BY <1>2, <1>5, <1>7 DEF q, n

\* _series: the newest days in time.
LEMMA PointsAre ==
  ASSUME NEW limit \in Nat \ {0}, Window(limit) # {}
  PROVE  LET p == Points(limit)
             w == Cardinality(Window(limit)) IN
         /\ w \in Nat \ {0} /\ p \in Seq(Nat) /\ Len(p) = w
         /\ \A i, j \in 1..w : i < j <=> p[i] < p[j]
         /\ \A i \in 1..w : p[i] \in Window(limit)
         /\ \A d \in Window(limit) : \E i \in 1..w : p[i] = d
<1> DEFINE K == Recorded
           n == Cardinality(K)
           q == InTime(K)
           a == Max({1, n - limit + 1})
           p == Points(limit)
           m == n - a + 1
           W == Window(limit)
<1>1. K \subseteq Nat /\ IsFiniteSet(K)
  <2>1. K \subseteq 1..LastDay /\ LastDay \in Nat
    BY ReportsAssumption DEF Recorded
  <2>2. IsFiniteSet(1..LastDay) /\ 1..LastDay \subseteq Nat
    BY <2>1, FS_Interval
  <2> QED BY <2>1, <2>2, FS_Subset
<1>2. n \in Nat
  BY <1>1, FS_CardinalityType
<1>3. /\ q \in [1..n -> K]
      /\ \A i, j \in 1..n : i < j <=> q[i] < q[j]
      /\ \A d \in K : \E i \in 1..n : q[i] = d
  BY <1>1, InTimeIs
<1>4. W \subseteq K /\ n # 0
  <2>1. W \subseteq K
    BY DEF Window
  <2>2. K # {}
    BY <2>1
  <2> HIDE DEF K
  <2> QED BY <1>1, <2>1, <2>2, FS_EmptySet
<1>5. a \in 1..n /\ (a = 1 \/ a = n - limit + 1) /\ a >= 1 /\ a >= n - limit + 1
  <2> DEFINE b == n - limit + 1
             T == {1, b}
  <2>1. b \in Int /\ b <= n
    BY <1>2
  <2>2. T \subseteq Int /\ IsFiniteSet(T) /\ T # {}
    <3>1. T = {1} \union {b}
      OBVIOUS
    <3>2. IsFiniteSet({1} \union {b})
      <4>1. IsFiniteSet({1})
        BY FS_Singleton
      <4> HIDE DEF b
      <4> QED BY <4>1, FS_AddElement
    <3> HIDE DEF b
    <3> QED BY <2>1, <3>1, <3>2
  <2>3. a = Max(T)
    OBVIOUS
  <2>4. Max(T) \in T /\ \A x \in T : x <= Max(T)
    <3> HIDE DEF T
    <3> QED BY <2>2, LargestExists
  <2> HIDE DEF a
  <2>5. (a = 1 \/ a = b) /\ a >= 1 /\ a >= b
    BY <2>1, <2>3, <2>4
  <2> QED BY <1>2, <1>4, <2>1, <2>5
<1> HIDE DEF K, n, q, a
<1>6. p = SubSeq(q, a, n)
  BY DEF Points, K, n, q, a
<1>7. q \in Seq(Nat) /\ Len(q) = n /\ \A i \in 1..n : q[i] \in K /\ q[i] \in Nat
  <2>1. \A i \in 1..n : q[i] \in K /\ q[i] \in Nat
    BY <1>1, <1>3
  <2>2. q = [i \in 1..n |-> q[i]]
    BY <1>3
  <2> QED BY <1>2, <2>1, <2>2
<1> HIDE DEF p, W
<1>8. m \in Nat \ {0} /\ p \in Seq(Nat) /\ Len(p) = m /\ \A i \in 1..m : a + i - 1 \in 1..n /\ p[i] = q[a + i - 1]
  <2>1. m \in Nat \ {0} /\ \A i \in 1..m : a + i - 1 \in 1..n
    BY <1>2, <1>5
  <2>2. p \in Seq(Nat) /\ Len(p) = m /\ \A i \in 1..m : p[i] = q[a + i - 1]
    BY <1>2, <1>5, <1>6, <1>7
  <2> QED BY <2>1, <2>2
<1>9. \A i, j \in 1..m : i < j <=> p[i] < p[j]
  <2> SUFFICES ASSUME NEW i \in 1..m, NEW j \in 1..m PROVE i < j <=> p[i] < p[j]
    OBVIOUS
  <2>1. i < j <=> a + i - 1 < a + j - 1
    BY <1>2, <1>5
  <2> QED BY <1>3, <1>8, <2>1
\* From the i-th day on there are as many days as positions.
<1>10. ASSUME NEW i \in 1..n PROVE Cardinality({e \in K : e >= q[i]}) = n - i + 1
  <2> DEFINE S == i..n
             E == {e \in K : e >= q[i]}
             f == [j \in S |-> q[j]]
  <2>1. IsFiniteSet(S) /\ Cardinality(S) = n - i + 1 /\ S \subseteq 1..n
    <3>1. i \in Int /\ n \in Int /\ ~(i > n)
      BY <1>2
    <3>2. S \subseteq 1..n
      BY <1>2
    <3> QED BY <3>1, <3>2, FS_Interval
  <2>2. E = {f[j] : j \in S}
    <3>1. ASSUME NEW e \in E PROVE e \in {f[j] : j \in S}
      <4>1. PICK j \in 1..n : q[j] = e
        BY <1>3
      <4>2. ~(q[j] < q[i])
        BY <1>7, <4>1
      <4>3. ~(j < i)
        BY <1>3, <4>2
      <4>4. j \in S
        BY <1>2, <4>3
      <4> QED BY <4>1, <4>4
    <3>2. ASSUME NEW j \in S PROVE f[j] \in E
      <4>1. j \in 1..n /\ ~(j < i)
        BY <1>2, <2>1
      <4>2. ~(q[j] < q[i])
        BY <1>3, <4>1
      <4>3. q[j] \in K /\ q[j] >= q[i]
        BY <1>7, <4>1, <4>2
      <4> QED BY <4>3
    <3> HIDE DEF E, f, S
    <3> QED BY <3>1, <3>2
  <2>3. \A j, k \in S : f[j] = f[k] => j = k
    <3> SUFFICES ASSUME NEW j \in S, NEW k \in S, q[j] = q[k] PROVE j = k
      OBVIOUS
    <3>1. j \in 1..n /\ k \in 1..n
      BY <2>1
    <3>2. ~(j < k) /\ ~(k < j)
      BY <1>3, <1>7, <3>1
    <3> QED BY <1>2, <3>1, <3>2
  <2>4. DOMAIN f = S /\ f = [j \in S |-> f[j]]
    OBVIOUS
  <2> HIDE DEF S, f, E
  <2>5. Cardinality(E) = Cardinality(S)
    BY <2>1, <2>2, <2>3, <2>4, ImageIsAsLarge
  <2> QED BY <2>1, <2>5 DEF E
<1>11. \A i \in 1..n : q[i] \in W <=> a <= i
  <2> SUFFICES ASSUME NEW i \in 1..n PROVE q[i] \in W <=> a <= i
    OBVIOUS
  <2>1. q[i] \in W <=> n - i + 1 <= limit
    BY <1>7, <1>10 DEF W, Window, K
  <2> QED BY <1>2, <1>5, <2>1
<1>12. \A i \in 1..m : p[i] \in W
  <2> SUFFICES ASSUME NEW i \in 1..m PROVE p[i] \in W
    OBVIOUS
  <2>1. a <= a + i - 1
    BY <1>2, <1>5
  <2> QED BY <1>8, <1>11, <2>1
<1>13. \A d \in W : \E i \in 1..m : p[i] = d
  <2> SUFFICES ASSUME NEW d \in W PROVE \E i \in 1..m : p[i] = d
    OBVIOUS
  <2>1. PICK j \in 1..n : q[j] = d
    BY <1>3, <1>4
  <2>2. a <= j
    BY <1>11, <2>1
  <2> DEFINE i == j - a + 1
  <2>3. i \in 1..m /\ a + i - 1 = j
    BY <1>2, <1>5, <2>2
  <2> QED BY <1>8, <2>1, <2>3
<1>14. Cardinality(W) = m
  <2> DEFINE S == 1..m
  <2>1. p = [i \in S |-> p[i]] /\ DOMAIN p = S
    BY <1>8
  <2>2. IsFiniteSet(S) /\ Cardinality(S) = m
    BY <1>8, FS_Interval
  <2>3. \A i, j \in S : p[i] = p[j] => i = j
    <3> SUFFICES ASSUME NEW i \in S, NEW j \in S, p[i] = p[j] PROVE i = j
      OBVIOUS
    <3>1. p[i] \in Nat /\ p[j] \in Nat
      BY <1>8
    <3>2. ~(i < j) /\ ~(j < i)
      BY <1>9, <3>1
    <3> QED BY <1>8, <3>2
  <2>4. W = {p[i] : i \in S}
    BY <1>12, <1>13
  <2> HIDE DEF S
  <2> QED BY <2>1, <2>2, <2>3, <2>4, ImageIsAsLarge
<1> HIDE DEF m
<1> QED BY <1>8, <1>9, <1>12, <1>13, <1>14 DEF p, W

DrawState == [peak : Nat, worst : Int \X (Nat \ {0})]

\* Worse is the order of the fractions.
LEMMA WorseCarries ==
  ASSUME NEW a \in Int \X (Nat \ {0}), NEW b \in Int \X (Nat \ {0}), NEW c \in Int \X (Nat \ {0}),
         ~Worse(a, b), ~Worse(b, c)
  PROVE  ~Worse(a, c)
<1> DEFINE n == a[1]  m == b[1]  o == c[1]  p == a[2]  q == b[2]  r == c[2]
<1>1. n \in Int /\ m \in Int /\ o \in Int /\ p \in Nat \ {0} /\ q \in Nat \ {0} /\ r \in Nat \ {0}
  OBVIOUS
<1>2. n * q >= m * p /\ m * r >= o * q
  BY DEF Worse
<1> HIDE DEF n, m, o, p, q, r
<1>3. (n * q) * r >= (m * p) * r
  <2> DEFINE x == n * q  y == m * p
  <2>1. x \in Int /\ y \in Int /\ x >= y
    BY <1>1, <1>2
  <2> HIDE DEF x, y
  <2>2. x * r >= y * r
    BY <1>1, <2>1
  <2> QED BY <2>2 DEF x, y
<1>4. (m * r) * p >= (o * q) * p
  <2> DEFINE x == m * r  y == o * q
  <2>1. x \in Int /\ y \in Int /\ x >= y
    BY <1>1, <1>2
  <2> HIDE DEF x, y
  <2>2. x * p >= y * p
    BY <1>1, <2>1
  <2> QED BY <2>2 DEF x, y
<1>5. (n * q) * r = (n * r) * q /\ (m * p) * r = (m * r) * p /\ (o * q) * p = (o * p) * q
  BY <1>1
<1> DEFINE u == n * r  v == o * p
<1>6. u \in Int /\ v \in Int
  BY <1>1
<1>7. u * q >= v * q
  <2> DEFINE x == u * q  y == (m * r) * p  z == v * q
  <2>1. x \in Int /\ y \in Int /\ z \in Int
    BY <1>1, <1>6
  <2>2. x >= y /\ y >= z
    BY <1>3, <1>4, <1>5
  <2> HIDE DEF x, y, z
  <2>3. x >= z
    BY <2>1, <2>2
  <2> QED BY <2>3 DEF x, z
<1> HIDE DEF u, v
<1>8. ~(u < v)
  <2> SUFFICES ASSUME u < v PROVE FALSE
    OBVIOUS
  <2>1. u * q < v * q
    BY <1>1, <1>6
  <2>2. u * q \in Int /\ v * q \in Int
    BY <1>1, <1>6
  <2> QED BY <1>7, <2>1, <2>2
<1> QED BY <1>8 DEF Worse, u, v, n, o, p, r

\* From a higher value the fall is no less.
LEMMA FallFromPeak ==
  ASSUME NEW x \in Nat, NEW w \in Nat \ {0}, NEW top \in Nat \ {0}, w <= top
  PROVE  ~Worse(<<x - w, w>>, <<x - top, top>>)
<1>1. x * w <= x * top
  OBVIOUS
<1>2. (x - w) * top = x * top - w * top /\ (x - top) * w = x * w - w * top
  OBVIOUS
<1> DEFINE a == x * w  b == x * top  c == w * top
<1>3. a \in Int /\ b \in Int /\ c \in Int
  OBVIOUS
<1> HIDE DEF a, b, c
<1>4. ~(b - c < a - c)
  BY <1>1, <1>3 DEF a, b
<1> QED BY <1>2, <1>4 DEF Worse, a, b, c

\* What the pass knows of the values up to k.
FallsTo(s, v, k) ==
  /\ s \in DrawState
  /\ \A i \in 1..k : v[i] <= s.peak
  /\ s.peak = 0 \/ \E i \in 1..k : v[i] = s.peak
  /\ s.worst[1] <= 0
  /\ \A i, j \in 1..k : i <= j /\ v[i] > 0 => ~Worse(<<v[j] - v[i], v[i]>>, s.worst)
  /\ s.worst = <<0, 1>> \/ \E i, j \in 1..k : i < j /\ v[i] > 0 /\ s.worst = <<v[j] - v[i], v[i]>>

LEMMA PassedIs ==
  ASSUME NEW s \in DrawState, NEW v \in Nat
  PROVE  Passed(s, v) \in DrawState
<1>1. s.peak \in Nat /\ s.worst \in Int \X (Nat \ {0})
  BY DEF DrawState
<1> DEFINE peak == IF v > s.peak THEN v ELSE s.peak
<1>2. peak \in Nat
  BY <1>1
<1>3. peak > 0 => <<v - peak, peak>> \in Int \X (Nat \ {0})
  BY <1>2
<1> QED BY <1>1, <1>2, <1>3 DEF Passed, DrawState

LEMMA PassedFalls ==
  ASSUME NEW n \in Nat, NEW v, \A i \in 1..n : v[i] \in Nat, NEW k \in 0..(n - 1), NEW s, FallsTo(s, v, k)
  PROVE  FallsTo(Passed(s, v[k + 1]), v, k + 1)
<1> DEFINE x == v[k + 1]
           t == Passed(s, x)
           peak == t.peak
           fall == <<x - peak, peak>>
<1>1. k \in Nat /\ k + 1 \in 1..n /\ x \in Nat /\ \A i \in 1..(k + 1) : v[i] \in Nat /\ (i = k + 1 \/ i \in 1..k)
  OBVIOUS
<1>2. s.peak \in Nat /\ s.worst \in Int \X (Nat \ {0}) /\ s \in DrawState /\ s.worst[1] <= 0 /\ s.worst[1] \in Int
  BY DEF FallsTo, DrawState
<1>3. t \in DrawState
  BY <1>1, <1>2, PassedIs
<1>4. peak = IF x > s.peak THEN x ELSE s.peak
  BY DEF Passed
<1>5. t.worst = IF peak > 0 /\ Worse(fall, s.worst) THEN fall ELSE s.worst
  BY DEF Passed
<1>6. peak \in Nat /\ x <= peak /\ s.peak <= peak
  BY <1>1, <1>2, <1>4
<1>7. t.worst \in Int \X (Nat \ {0}) /\ (peak > 0 => fall \in Int \X (Nat \ {0}))
  BY <1>1, <1>3, <1>6 DEF DrawState
<1> HIDE DEF x, t, peak
<1>8. \A i \in 1..(k + 1) : v[i] <= peak
  <2> SUFFICES ASSUME NEW i \in 1..(k + 1) PROVE v[i] <= peak
    OBVIOUS
  <2>1. CASE i = k + 1
    BY <1>6, <2>1 DEF x
  <2>2. CASE i \in 1..k
    <3>1. v[i] <= s.peak
      BY <2>2 DEF FallsTo
    <3> QED BY <1>1, <1>2, <1>6, <3>1
  <2> QED BY <1>1, <2>1, <2>2
<1>9. peak = 0 \/ \E i \in 1..(k + 1) : v[i] = peak
  <2>1. CASE x > s.peak
    <3>1. v[k + 1] = peak /\ k + 1 \in 1..(k + 1)
      BY <1>1, <1>4, <2>1 DEF x
    <3> QED BY <3>1
  <2>2. CASE ~(x > s.peak)
    <3>1. peak = s.peak
      BY <1>4, <2>2
    <3>2. s.peak = 0 \/ \E i \in 1..k : v[i] = s.peak
      BY DEF FallsTo
    <3>3. 1..k \subseteq 1..(k + 1)
      BY <1>1
    <3> QED BY <3>1, <3>2, <3>3
  <2> QED BY <2>1, <2>2
<1>10. t.worst[1] <= 0
  <2>1. fall[1] <= 0
    BY <1>1, <1>6
  <2> QED BY <1>2, <1>5, <2>1
\* The worst so far is no better than it was, and no better than the fall from the peak.
<1>11. ~Worse(s.worst, t.worst)
  <2>1. CASE peak > 0 /\ Worse(fall, s.worst)
    <3> DEFINE a == fall[1] * s.worst[2]  b == s.worst[1] * fall[2]
    <3>1. a \in Int /\ b \in Int /\ a < b
      BY <1>1, <1>2, <1>6, <2>1 DEF Worse
    <3> HIDE DEF a, b
    <3>2. ~(b < a)
      BY <3>1
    <3>3. t.worst = fall
      BY <1>5, <2>1
    <3> QED BY <3>2, <3>3 DEF Worse, a, b
  <2>2. CASE ~(peak > 0 /\ Worse(fall, s.worst))
    <3>1. t.worst = s.worst
      BY <1>5, <2>2
    <3> DEFINE a == s.worst[1] * s.worst[2]
    <3>2. a \in Int
      BY <1>2
    <3> HIDE DEF a
    <3>3. ~(a < a)
      BY <3>2
    <3> QED BY <3>1, <3>3 DEF Worse, a
  <2> QED BY <2>1, <2>2
<1>12. peak > 0 => ~Worse(fall, t.worst)
  <2>1. CASE peak > 0 /\ Worse(fall, s.worst)
    <3>1. t.worst = fall
      BY <1>5, <2>1
    <3> DEFINE a == fall[1] * fall[2]
    <3>2. a \in Int
      BY <1>1, <1>6
    <3> HIDE DEF a
    <3>3. ~(a < a)
      BY <3>2
    <3> QED BY <3>1, <3>3 DEF Worse, a
  <2>2. CASE peak > 0 /\ ~Worse(fall, s.worst)
    <3>1. t.worst = s.worst
      BY <1>5, <2>2
    <3> QED BY <2>2, <3>1
  <2> QED BY <2>1, <2>2
<1>13. ASSUME NEW i \in 1..(k + 1), NEW j \in 1..(k + 1), i <= j, v[i] > 0
       PROVE  ~Worse(<<v[j] - v[i], v[i]>>, t.worst)
  <2> DEFINE e == <<v[j] - v[i], v[i]>>
  <2>1. v[i] \in Nat \ {0} /\ v[j] \in Nat /\ v[i] <= peak
    BY <1>1, <1>8, <1>13
  <2>2. e \in Int \X (Nat \ {0})
    BY <2>1
  <2>3. CASE j = k + 1
    <3>1. peak \in Nat \ {0} /\ peak > 0
      BY <1>6, <2>1
    <3>2. e = <<x - v[i], v[i]>>
      BY <2>3 DEF x
    <3>3. ~Worse(e, fall)
      BY <1>1, <2>1, <3>1, <3>2, FallFromPeak
    <3> HIDE DEF e, fall
    <3> QED BY <1>7, <1>12, <2>2, <3>1, <3>3, WorseCarries DEF e
  <2>4. CASE j \in 1..k
    <3>1. i \in 1..k
      BY <1>1, <1>13, <2>4
    <3>2. ~Worse(e, s.worst)
      BY <1>13, <2>4, <3>1 DEF FallsTo
    <3> HIDE DEF e, fall
    <3> QED BY <1>2, <1>7, <1>11, <2>2, <3>2, WorseCarries DEF e
  <2> QED BY <1>1, <2>3, <2>4
<1>14. t.worst = <<0, 1>> \/ \E i, j \in 1..(k + 1) : i < j /\ v[i] > 0 /\ t.worst = <<v[j] - v[i], v[i]>>
  <2>1. CASE peak > 0 /\ Worse(fall, s.worst)
    <3>1. t.worst = fall
      BY <1>5, <2>1
    <3>2. x < peak
      <4> SUFFICES ASSUME x = peak PROVE FALSE
        BY <1>1, <1>6
      <4>1. fall[1] = 0 /\ fall[2] = peak
        BY <1>6
      <4> DEFINE low == s.worst[1]
      <4>2. 0 * s.worst[2] < low * peak
        BY <2>1, <4>1 DEF Worse
      <4>3. 0 * s.worst[2] = 0 /\ low \in Int /\ low <= 0
        BY <1>2
      <4> HIDE DEF low
      <4>4. low * peak <= 0
        BY <1>6, <4>3
      <4>5. low * peak \in Int
        BY <1>6, <4>3
      <4> QED BY <4>2, <4>3, <4>4, <4>5
    <3>3. PICK i \in 1..(k + 1) : v[i] = peak
      BY <1>6, <1>9, <2>1
    <3>4. i # k + 1
      BY <1>1, <1>6, <3>2, <3>3 DEF x
    <3>5. i < k + 1 /\ k + 1 \in 1..(k + 1)
      BY <1>1, <3>4
    <3>6. t.worst = <<v[k + 1] - v[i], v[i]>>
      BY <3>1, <3>3 DEF x
    <3> QED BY <2>1, <3>3, <3>5, <3>6
  <2>2. CASE ~(peak > 0 /\ Worse(fall, s.worst))
    <3>1. t.worst = s.worst
      BY <1>5, <2>2
    <3>2. s.worst = <<0, 1>> \/ \E i, j \in 1..k : i < j /\ v[i] > 0 /\ s.worst = <<v[j] - v[i], v[i]>>
      BY DEF FallsTo
    <3>3. 1..k \subseteq 1..(k + 1)
      BY <1>1
    <3> HIDE DEF fall
    <3> QED BY <3>1, <3>2, <3>3
  <2> QED BY <2>1, <2>2
<1> HIDE DEF fall
<1>15. FallsTo(t, v, k + 1)
  BY <1>3, <1>8, <1>9, <1>10, <1>13, <1>14 DEF FallsTo, peak
<1> QED BY <1>15 DEF t, x

DrawdownFold(values) ==
  CHOOSE h : h = [p \in SUBSET (DOMAIN values) |->
    IF p = {} THEN NoFall ELSE Passed(h[p \ {Max(p)}], values[Max(p)])]

DrawdownRuns(h, values) ==
  /\ h[1..0] = NoFall
  /\ \A k \in 0..Len(values) : k < Len(values) => h[1..(k + 1)] = Passed(h[1..k], values[k + 1])

LEMMA MaxDrawdownRuns ==
  ASSUME NEW values \in Seq(Nat)
  PROVE  DrawdownRuns(DrawdownFold(values), values)
<1> DEFINE op == [a \in DrawState \X Nat |-> Passed(a[1], a[2])]
           IsFold(h) == h = [p \in SUBSET (DOMAIN values) |->
             IF p = {} THEN NoFall ELSE Passed(h[p \ {Max(p)}], values[Max(p)])]
           h == DrawdownFold(values)
<1>1. Len(values) \in Nat /\ \A i \in DOMAIN values : values[i] \in Nat
  OBVIOUS
<1>2. /\ op \in [DrawState \X Nat -> DrawState]
      /\ \A s \in DrawState, v \in Nat : op[<<s, v>>] = Passed(s, v)
  <2>1. \A a \in DrawState \X Nat : Passed(a[1], a[2]) \in DrawState
    BY PassedIs
  <2> QED BY <2>1
<1>3. NoFall \in DrawState
  BY DEF NoFall, DrawState
<1>4. h = CHOOSE g : IsFold(g)
  BY DEF DrawdownFold
<1> HIDE DEF op
<1>5. PICK g \in [SUBSET (DOMAIN values) -> DrawState] : Folded(g, op, NoFall, values)
  BY <1>2, <1>3, FoldOfSeq
<1>6. ASSUME NEW p \in SUBSET (DOMAIN values), p # {} PROVE g[p] = Passed(g[p \ {Max(p)}], values[Max(p)])
  <2>1. g[p \ {Max(p)}] \in DrawState /\ values[Max(p)] \in Nat
    BY <1>1, <1>5, <1>6 DEF Folded
  <2> QED BY <1>2, <1>5, <1>6, <2>1 DEF Folded
<1>7. IsFold(g)
  BY <1>5, <1>6 DEF Folded
<1>8. IsFold(h)
  BY <1>4, <1>7
<1>9. /\ h[{}] = NoFall
      /\ \A p \in SUBSET (DOMAIN values) : p # {} => h[p] = Passed(h[p \ {Max(p)}], values[Max(p)])
  BY <1>8
<1> HIDE DEF h
<1>10. ASSUME NEW p \in SUBSET (DOMAIN values), p # {}, h[p \ {Max(p)}] \in DrawState
       PROVE  h[p] = op[<<h[p \ {Max(p)}], values[Max(p)]>>]
  BY <1>1, <1>2, <1>5, <1>9, <1>10 DEF Folded
<1>11. FoldsBy(h, op, NoFall, values, DrawState)
  BY <1>9, <1>10 DEF FoldsBy
<1>12. RunsBy(h, op, values, DrawState)
  BY <1>2, <1>3, <1>11, FoldRuns
<1>13. ASSUME NEW k \in 0..Len(values), k < Len(values) PROVE h[1..(k + 1)] = Passed(h[1..k], values[k + 1])
  <2>1. h[1..k] \in DrawState /\ h[1..(k + 1)] = op[<<h[1..k], values[k + 1]>>]
    BY <1>12, <1>13 DEF RunsBy
  <2>2. values[k + 1] \in Nat
    BY <1>1, <1>13
  <2> QED BY <1>2, <2>1, <2>2
<1>14. h[1..0] = NoFall
  <2>1. 1..0 = {}
    OBVIOUS
  <2> QED BY <1>9, <2>1
<1> QED BY <1>13, <1>14 DEF DrawdownRuns, h

\* _max_drawdown_pct: no fall is worse, and it is one of them.
LEMMA DrawdownIs ==
  ASSUME NEW values \in Seq(Nat)
  PROVE  LET n == Len(values)
             worst == MaxDrawdown(values) IN
         /\ worst \in Int \X (Nat \ {0}) /\ worst[1] <= 0
         /\ \A i, j \in 1..n : i <= j /\ values[i] > 0 => ~Worse(<<values[j] - values[i], values[i]>>, worst)
         /\ worst = <<0, 1>> \/ \E i, j \in 1..n :
              i < j /\ values[i] > 0 /\ worst = <<values[j] - values[i], values[i]>>
<1> DEFINE n == Len(values)
           h == DrawdownFold(values)
           good == {k \in 0..n : FallsTo(h[1..k], values, k)}
<1>1. n \in Nat /\ DOMAIN values = 1..n /\ \A i \in 1..n : values[i] \in Nat
  OBVIOUS
<1>2. DrawdownRuns(h, values)
  BY MaxDrawdownRuns
<1>3. MaxDrawdown(values) = h[1..n].worst
  <2>1. MaxDrawdown(values) = h[DOMAIN values].worst
    BY DEF MaxDrawdown, FoldLeft, MapThenFoldSet, DrawdownFold
  <2> QED BY <1>1, <2>1
<1> HIDE DEF h
<1>4. 0 \in good
  <2>1. FallsTo(NoFall, values, 0)
    <3>1. NoFall \in DrawState /\ NoFall.worst = <<0, 1>> /\ NoFall.worst[1] <= 0 /\ NoFall.peak = 0
      BY DEF NoFall, DrawState
    <3>2. 1..0 = {}
      OBVIOUS
    <3> QED BY <3>1, <3>2 DEF FallsTo
  <2> QED BY <1>1, <1>2, <2>1 DEF DrawdownRuns
<1>5. ASSUME NEW k \in 0..(n - 1), k \in good PROVE k + 1 \in good
  <2>1. k \in 0..n /\ k < n /\ k + 1 \in 0..n
    BY <1>1
  <2>2. FallsTo(h[1..k], values, k)
    BY <1>5
  <2>3. h[1..(k + 1)] = Passed(h[1..k], values[k + 1])
    BY <1>2, <2>1 DEF DrawdownRuns
  <2>4. FallsTo(Passed(h[1..k], values[k + 1]), values, k + 1)
    BY <1>1, <2>2, PassedFalls
  <2> QED BY <2>1, <2>3, <2>4
<1>6. FallsTo(h[1..n], values, n)
  <2>1. 0..n \subseteq good
    <3> HIDE DEF good, n
    <3> QED BY <1>1, <1>4, <1>5, Upward
  <2>2. n \in 0..n
    BY <1>1
  <2> QED BY <2>1, <2>2
<1>7. h[1..n].worst \in Int \X (Nat \ {0})
  BY <1>6 DEF FallsTo, DrawState
<1> HIDE DEF n
<1> QED BY <1>3, <1>6, <1>7 DEF FallsTo, n

\* The days of the curve by position, and what the report passes over.
MarkedDays(limit) == Append(Points(limit), LastDay + 1)
MarkedValues(limit) == Append([i \in 1..Len(Points(limit)) |-> snapshots[Points(limit)[i]]], equity)

Numbers(q, n) == q \in Seq(Nat) /\ Len(q) = n

LEMMA RecordedIs ==
  ASSUME ReportsTypeOK
  PROVE  /\ LastDay \in Nat /\ equity \in Nat
         /\ \A d \in 1..LastDay : d \in Recorded <=> snapshots[d] # NoValue
         /\ \A d \in Recorded : d \in 1..LastDay /\ snapshots[d] \in Nat
BY ReportsAssumption DEF ReportsTypeOK, Recorded

LEMMA CurveIs ==
  ASSUME ReportsTypeOK, NEW limit \in Nat \ {0}, Window(limit) # {}
  PROVE  LET n == Cardinality(Window(limit)) + 1
             days == MarkedDays(limit)
             marked == MarkedValues(limit)
             value == Curve(limit) IN
         /\ n - 1 \in Nat \ {0} /\ Numbers(days, n) /\ Numbers(marked, n)
         /\ \A i, j \in 1..n : i < j <=> days[i] < days[j]
         /\ \A i \in 1..n : days[i] \in DOMAIN value /\ value[days[i]] = marked[i]
         /\ \A d \in DOMAIN value : \E i \in 1..n : days[i] = d
<1> DEFINE w == Cardinality(Window(limit))
           n == w + 1
           p == Points(limit)
           W == Window(limit)
           days == MarkedDays(limit)
           marked == MarkedValues(limit)
           value == Curve(limit)
<1>1. /\ w \in Nat \ {0} /\ p \in Seq(Nat) /\ Len(p) = w
      /\ \A i, j \in 1..w : i < j <=> p[i] < p[j]
      /\ \A i \in 1..w : p[i] \in W
      /\ \A d \in W : \E i \in 1..w : p[i] = d
  BY PointsAre
<1>2. \A d \in W : d \in 1..LastDay /\ snapshots[d] \in Nat /\ d <= LastDay
  BY RecordedIs DEF Window
<1>3. DOMAIN value = W \union {LastDay + 1}
  BY DEF Curve
<1>4. \A d \in DOMAIN value : value[d] = IF d > LastDay THEN equity ELSE snapshots[d]
  BY DEF Curve
<1>5. days = Append(p, LastDay + 1) /\ marked = Append([i \in 1..w |-> snapshots[p[i]]], equity)
  BY <1>1 DEF MarkedDays, MarkedValues
<1>6. LastDay \in Nat /\ equity \in Nat
  BY RecordedIs
<1> HIDE DEF p, W, w, days, marked, value
<1>7. [i \in 1..w |-> snapshots[p[i]]] \in Seq(Nat) /\ Len([i \in 1..w |-> snapshots[p[i]]]) = w
  <2>1. \A i \in 1..w : snapshots[p[i]] \in Nat
    BY <1>1, <1>2
  <2> QED BY <1>1, <2>1
<1>8. /\ Numbers(days, n) /\ days[w + 1] = LastDay + 1 /\ \A i \in 1..w : days[i] = p[i]
  BY <1>1, <1>5, <1>6 DEF Numbers
<1>9. /\ Numbers(marked, n) /\ marked[w + 1] = equity /\ \A i \in 1..w : marked[i] = snapshots[p[i]]
  <2> DEFINE q == [i \in 1..w |-> snapshots[p[i]]]
  <2>1. \A i \in 1..w : q[i] = snapshots[p[i]]
    OBVIOUS
  <2>2. q \in Seq(Nat) /\ Len(q) = w /\ marked = Append(q, equity)
    BY <1>5, <1>7
  <2> HIDE DEF q
  <2> QED BY <1>1, <1>6, <2>1, <2>2 DEF Numbers
<1>10. \A i \in 1..n : i \in 1..w \/ i = w + 1
  BY <1>1
<1>11. ASSUME NEW i \in 1..n PROVE days[i] \in DOMAIN value /\ value[days[i]] = marked[i]
  <2>1. CASE i \in 1..w
    <3>1. days[i] \in W /\ days[i] = p[i] /\ marked[i] = snapshots[p[i]]
      BY <1>1, <1>8, <1>9, <2>1
    <3>2. ~(days[i] > LastDay)
      BY <1>2, <1>6, <3>1
    <3> QED BY <1>3, <1>4, <3>1, <3>2
  <2>2. CASE i = w + 1
    <3>1. days[i] = LastDay + 1 /\ marked[i] = equity
      BY <1>8, <1>9, <2>2
    <3>2. LastDay + 1 > LastDay /\ LastDay + 1 \in DOMAIN value
      BY <1>3, <1>6
    <3> QED BY <1>4, <3>1, <3>2
  <2> QED BY <1>10, <2>1, <2>2
<1>12. ASSUME NEW i \in 1..n, NEW j \in 1..n PROVE i < j <=> days[i] < days[j]
  <2>1. \A k \in 1..w : days[k] \in Nat /\ days[k] <= LastDay /\ k < w + 1
    BY <1>1, <1>2, <1>8
  <2>2. CASE i \in 1..w /\ j \in 1..w
    BY <1>1, <1>8, <2>2
  <2>3. CASE i \in 1..w /\ j = w + 1
    BY <1>6, <1>8, <2>1, <2>3
  <2>4. CASE i = w + 1 /\ j \in 1..w
    <3>1. ~(i < j)
      BY <1>1, <2>1, <2>4
    <3>2. ~(days[i] < days[j])
      BY <1>6, <1>8, <2>1, <2>4
    <3> QED BY <3>1, <3>2
  <2>5. CASE i = w + 1 /\ j = w + 1
    BY <1>1, <1>6, <1>8, <2>5
  <2> QED BY <1>10, <2>2, <2>3, <2>4, <2>5
<1>13. ASSUME NEW d \in DOMAIN value PROVE \E i \in 1..n : days[i] = d
  <2>1. 1..w \subseteq 1..n /\ w + 1 \in 1..n
    BY <1>1
  <2>2. CASE d \in W
    <3>1. PICK i \in 1..w : p[i] = d
      BY <1>1, <2>2
    <3> QED BY <1>8, <2>1, <3>1
  <2>3. CASE d = LastDay + 1
    BY <1>8, <2>1, <2>3
  <2> QED BY <1>3, <2>2, <2>3
<1>14. n - 1 \in Nat \ {0}
  BY <1>1
<1> QED BY <1>8, <1>9, <1>11, <1>12, <1>13, <1>14 DEF w, days, marked, value

\* The drawdown over the days, from the one over the positions.
LEMMA CurveFalls ==
  ASSUME ReportsTypeOK, NEW limit \in Nat \ {0}, Window(limit) # {}
  PROVE  LET worst == MaxDrawdown(MarkedValues(limit))
             value == Curve(limit) IN
         /\ worst \in Int \X (Nat \ {0}) /\ worst[1] <= 0
         /\ \A d \in DOMAIN value : value[d] \in Nat
         /\ \A a, b \in DOMAIN value : a <= b /\ value[a] > 0 => ~Worse(<<value[b] - value[a], value[a]>>, worst)
         /\ worst = <<0, 1>> \/ \E a, b \in DOMAIN value :
              a < b /\ value[a] > 0 /\ worst = <<value[b] - value[a], value[a]>>
<1> DEFINE n == Cardinality(Window(limit)) + 1
           days == MarkedDays(limit)
           marked == MarkedValues(limit)
           value == Curve(limit)
           worst == MaxDrawdown(marked)
<1>1. /\ n - 1 \in Nat \ {0} /\ Numbers(days, n) /\ Numbers(marked, n)
      /\ \A i, j \in 1..n : i < j <=> days[i] < days[j]
      /\ \A i \in 1..n : days[i] \in DOMAIN value /\ value[days[i]] = marked[i]
      /\ \A d \in DOMAIN value : \E i \in 1..n : days[i] = d
  BY CurveIs
<1>2. /\ worst \in Int \X (Nat \ {0}) /\ worst[1] <= 0
      /\ \A i, j \in 1..n : i <= j /\ marked[i] > 0 => ~Worse(<<marked[j] - marked[i], marked[i]>>, worst)
      /\ worst = <<0, 1>> \/ \E i, j \in 1..n :
           i < j /\ marked[i] > 0 /\ worst = <<marked[j] - marked[i], marked[i]>>
  BY <1>1, DrawdownIs DEF Numbers
<1> HIDE DEF n, days, marked, value, worst
<1>3. \A i \in 1..n : days[i] \in Nat /\ marked[i] \in Nat /\ i \in Int
  BY <1>1 DEF Numbers
<1>4. \A d \in DOMAIN value : value[d] \in Nat
  BY <1>1, <1>3
<1>5. ASSUME NEW a \in DOMAIN value, NEW b \in DOMAIN value, a <= b, value[a] > 0
      PROVE  ~Worse(<<value[b] - value[a], value[a]>>, worst)
  <2>1. PICK i \in 1..n : days[i] = a
    BY <1>1
  <2>2. PICK j \in 1..n : days[j] = b
    BY <1>1
  <2>3. ~(j < i)
    <3>1. ~(days[j] < days[i])
      BY <1>3, <1>5, <2>1, <2>2
    <3> QED BY <1>1, <3>1
  <2>4. i <= j
    BY <1>3, <2>3
  <2>5. value[a] = marked[i] /\ value[b] = marked[j]
    BY <1>1, <2>1, <2>2
  <2> QED BY <1>2, <1>5, <2>4, <2>5
<1>6. worst = <<0, 1>> \/ \E a, b \in DOMAIN value :
         a < b /\ value[a] > 0 /\ worst = <<value[b] - value[a], value[a]>>
  <2> SUFFICES ASSUME worst # <<0, 1>>
               PROVE  \E a, b \in DOMAIN value : a < b /\ value[a] > 0 /\ worst = <<value[b] - value[a], value[a]>>
    OBVIOUS
  <2>1. PICK i \in 1..n, j \in 1..n : i < j /\ marked[i] > 0 /\ worst = <<marked[j] - marked[i], marked[i]>>
    BY <1>2
  <2>2. days[i] < days[j] /\ days[i] \in DOMAIN value /\ days[j] \in DOMAIN value
        /\ value[days[i]] = marked[i] /\ value[days[j]] = marked[j]
    BY <1>1, <2>1
  <2> QED BY <2>1, <2>2
<1> QED BY <1>2, <1>4, <1>5, <1>6 DEF marked, value, worst

\* What a report says, once there is a point.
LEMMA ReportIs ==
  ASSUME ReportsTypeOK, NEW limit \in Nat \ {0}, Window(limit) # {}
  PROVE  LET r == Report(limit)
             p == Points(limit) IN
         /\ r.drawdown = MaxDrawdown(MarkedValues(limit)) /\ r.start = snapshots[p[1]]
         /\ r.span = SpanDays(p) /\ r.sparse = (Len(p) < SpanDays(p))
<1> DEFINE p == Points(limit)
           marked == Append([i \in 1..Len(p) |-> snapshots[p[i]]], equity)
<1>1. Len(p) \in Nat \ {0} /\ p # <<>>
  BY PointsAre
<1>2. /\ Report(limit).drawdown = MaxDrawdown(marked) /\ Report(limit).start = marked[1]
      /\ Report(limit).span = SpanDays(p) /\ Report(limit).sparse = (Len(p) < SpanDays(p))
  <2> HIDE DEF p, marked
  <2>1. Points(limit) = p /\ Append([i \in 1..Len(p) |-> snapshots[p[i]]], equity) = marked
    BY DEF p, marked
  <2> QED BY <1>1, <2>1 DEF Report
<1>3. marked = MarkedValues(limit)
  BY DEF MarkedValues
<1>4. marked[1] = snapshots[p[1]]
  <2> HIDE DEF p
  <2> DEFINE q == [i \in 1..Len(p) |-> snapshots[p[i]]]
  <2>1. q[1] = snapshots[p[1]] /\ Len(q) = Len(p) /\ 1 \in 1..Len(p)
    BY <1>1
  <2>2. \A i \in 1..Len(p) : q[i] \in {q[j] : j \in 1..Len(p)}
    OBVIOUS
  <2>3. q \in Seq({q[j] : j \in 1..Len(p)})
    BY <1>1
  <2> HIDE DEF q
  <2>4. Append(q, equity)[1] = q[1]
    BY <2>1, <2>3
  <2> QED BY <2>1, <2>4 DEF q
<1> QED BY <1>2, <1>3, <1>4

\* The window ends with the newest snapshot and has no holes but those in the snapshots.
LEMMA ReportWindowIs ==
  ASSUME ReportsTypeOK, NEW limit \in Nat \ {0}, Window(limit) # {}
  PROVE  LET W == Window(limit)
             p == Points(limit) IN
         /\ W \subseteq Recorded /\ IsFiniteSet(W) /\ W \subseteq Nat
         /\ Min(W) = p[1] /\ Max(W) = p[Len(p)] /\ Min(W) \in W /\ Max(W) \in W
         /\ Len(p) = Cardinality(W) /\ SpanDays(p) = Max(W) - Min(W) + 1
         /\ \A d \in Recorded : Min(W) <= d => d \in W
         /\ \A d \in W : Min(W) <= d /\ d <= Max(W)
<1> DEFINE W == Window(limit)
           p == Points(limit)
           w == Cardinality(W)
<1>1. /\ w \in Nat \ {0} /\ p \in Seq(Nat) /\ Len(p) = w
      /\ \A i, j \in 1..w : i < j <=> p[i] < p[j]
      /\ \A i \in 1..w : p[i] \in W
      /\ \A d \in W : \E i \in 1..w : p[i] = d
  BY PointsAre
<1>2. LastDay \in Nat /\ Recorded \subseteq 1..LastDay /\ W \subseteq Recorded
  BY RecordedIs DEF Window
<1>3. Recorded \subseteq Nat /\ IsFiniteSet(Recorded)
  <2>1. IsFiniteSet(1..LastDay) /\ 1..LastDay \subseteq Nat
    BY <1>2, FS_Interval
  <2> QED BY <1>2, <2>1, FS_Subset
<1>4. W \subseteq Nat /\ W \subseteq Int /\ IsFiniteSet(W) /\ W # {}
  <2>1. W # {}
    OBVIOUS
  <2> HIDE DEF W
  <2>2. IsFiniteSet(W)
    BY <1>2, <1>3, FS_Subset
  <2> QED BY <1>2, <1>3, <2>1, <2>2
<1> DEFINE least == Min(W)
           most == Max(W)
<1>5. least \in W /\ \A d \in W : least <= d
  <2> HIDE DEF W
  <2> QED BY <1>4, MinIsLeast
<1>6. most \in W /\ \A d \in W : d <= most
  <2> HIDE DEF W
  <2> QED BY <1>4, LargestExists
<1>7. ASSUME NEW d \in Recorded, least <= d PROVE d \in W
  <2> DEFINE E(x) == {e \in Recorded : e >= x}
  <2>1. E(d) \subseteq E(least) /\ E(least) \subseteq Recorded
    <3>1. \A e \in Recorded : e >= d => e >= least
      BY <1>2, <1>3, <1>4, <1>5, <1>7
    <3> QED BY <3>1
  <2>2. Cardinality(E(least)) <= limit
    BY <1>5 DEF Window
  <2>3. Cardinality(E(d)) <= Cardinality(E(least)) /\ Cardinality(E(d)) \in Nat /\ Cardinality(E(least)) \in Nat
    <3> HIDE DEF E, least
    <3>1. IsFiniteSet(E(least)) /\ IsFiniteSet(E(d))
      BY <1>3, <2>1, FS_Subset
    <3> QED BY <2>1, <3>1, FS_Subset, FS_CardinalityType
  <2>4. Cardinality(E(d)) <= limit
    <3> HIDE DEF E, least
    <3> QED BY <2>2, <2>3
  <2> QED BY <2>4 DEF Window
<1> HIDE DEF W, p, w, least, most
<1>8. 1 \in 1..w /\ w \in 1..w
  BY <1>1
<1>9. least = p[1]
  <2>1. PICK i \in 1..w : p[i] = least
    BY <1>1, <1>5
  <2>2. p[1] \in W /\ least <= p[1] /\ p[1] \in Nat /\ p[i] \in Nat
    BY <1>1, <1>5, <1>8
  <2>3. ~(p[1] < p[i]) => i = 1
    BY <1>1, <1>8
  <2> QED BY <2>1, <2>2, <2>3
<1>10. most = p[w]
  <2>1. PICK i \in 1..w : p[i] = most
    BY <1>1, <1>6
  <2>2. p[w] \in W /\ p[w] <= most /\ p[w] \in Nat /\ p[i] \in Nat
    BY <1>1, <1>6, <1>8
  <2>3. ~(p[i] < p[w]) => i = w
    BY <1>1, <1>8
  <2> QED BY <2>1, <2>2, <2>3
<1>11. SpanDays(p) = most - least + 1
  BY <1>1, <1>9, <1>10 DEF SpanDays
<1> QED BY <1>1, <1>2, <1>4, <1>5, <1>6, <1>7, <1>9, <1>10, <1>11 DEF W, p, w, least, most

\* A gap is reported and never filled.
LEMMA GapsAre ==
  ASSUME ReportsTypeOK, NEW limit \in Nat \ {0}, Window(limit) # {}
  PROVE  GapsShow(Report(limit), Window(limit))
<1> DEFINE W == Window(limit)
           least == Min(W)
           most == Max(W)
           I == least..most
<1>1. /\ W \subseteq Recorded /\ IsFiniteSet(W) /\ W \subseteq Nat
      /\ least \in W /\ most \in W
      /\ \A d \in Recorded : least <= d => d \in W
      /\ \A d \in W : least <= d /\ d <= most
  BY ReportWindowIs
<1>2. Report(limit).sparse = (Cardinality(W) < most - least + 1)
  BY ReportWindowIs, ReportIs
<1>3. /\ LastDay \in Nat /\ Recorded \subseteq 1..LastDay
      /\ \A d \in 1..LastDay : d \in Recorded <=> snapshots[d] # NoValue
  BY RecordedIs
<1> HIDE DEF W, least, most
<1>4. least \in Nat /\ most \in Nat /\ least <= most /\ 1 <= least /\ most <= LastDay
  BY <1>1, <1>3
<1>5. IsFiniteSet(I) /\ Cardinality(I) = most - least + 1
  <2>1. least \in Int /\ most \in Int /\ ~(least > most)
    BY <1>4
  <2> QED BY <2>1, FS_Interval
<1>6. W \subseteq I
  BY <1>1, <1>4
<1>7. \A d \in I : d \in W <=> snapshots[d] # NoValue
  <2> SUFFICES ASSUME NEW d \in I PROVE d \in W <=> snapshots[d] # NoValue
    OBVIOUS
  <2>1. d \in 1..LastDay /\ least <= d
    BY <1>3, <1>4
  <2> QED BY <1>1, <1>3, <2>1
<1> HIDE DEF I
<1>8. Cardinality(W) \in Nat /\ Cardinality(I) \in Nat /\ Cardinality(W) <= Cardinality(I)
      /\ (Cardinality(W) = Cardinality(I) => W = I)
  BY <1>1, <1>5, <1>6, FS_Subset, FS_CardinalityType
<1>9. Cardinality(W) < Cardinality(I) <=> \E d \in I : snapshots[d] = NoValue
  <2>1. ASSUME NEW d \in I, snapshots[d] = NoValue PROVE Cardinality(W) < Cardinality(I)
    <3>1. W # I
      BY <1>7, <2>1
    <3> QED BY <1>8, <3>1
  <2>2. ASSUME Cardinality(W) < Cardinality(I) PROVE \E d \in I : snapshots[d] = NoValue
    <3>1. W # I
      BY <1>8, <2>2
    <3>2. PICK d \in I : d \notin W
      BY <1>6, <3>1
    <3> QED BY <1>7, <3>2
  <2> QED BY <2>1, <2>2
<1>10. Report(limit).sparse <=> \E d \in I : snapshots[d] = NoValue
  BY <1>2, <1>5, <1>9
<1> QED BY <1>10 DEF GapsShow, I, least, most, W

\* A part of what is lost against a share of a hundred.
LEMMA WorseThanLimit ==
  ASSUME NEW x \in Nat, NEW w \in Nat \ {0}, NEW m \in 0..100
  PROVE  Worse(<<x - w, w>>, <<-m, 100>>) <=> 100 * (w - x) > m * w
<1> DEFINE a == m * w
<1>1. a \in Int
  OBVIOUS
<1>2. (-m) * w = -a
  OBVIOUS
<1>3. (x - w) * 100 = -(100 * (w - x))
  OBVIOUS
<1> HIDE DEF a
<1> DEFINE b == 100 * (w - x)
<1>4. b \in Int
  OBVIOUS
<1> HIDE DEF b
<1>5. (x - w) * 100 < (-m) * w <=> b > a
  <2>1. -b < -a <=> b > a
    BY <1>1, <1>4
  <2> QED BY <1>2, <1>3, <2>1 DEF b
<1> QED BY <1>5 DEF Worse, a, b

LEMMA BreachIs ==
  ASSUME ReportsTypeOK, NEW limit \in Nat \ {0}, Window(limit) # {},
         goal # NoValue, Report(limit) = Report(365), Report(limit).span >= 2, Report(limit).start > 0
  PROVE  BreachShows(Curve(limit))
<1> DEFINE r == Report(limit)
           value == Curve(limit)
           worst == MaxDrawdown(MarkedValues(limit))
           bound == <<-goal, 100>>
<1>1. /\ worst \in Int \X (Nat \ {0}) /\ worst[1] <= 0
      /\ \A d \in DOMAIN value : value[d] \in Nat
      /\ \A a, b \in DOMAIN value : a <= b /\ value[a] > 0 => ~Worse(<<value[b] - value[a], value[a]>>, worst)
      /\ worst = <<0, 1>> \/ \E a, b \in DOMAIN value :
           a < b /\ value[a] > 0 /\ worst = <<value[b] - value[a], value[a]>>
  BY CurveFalls
<1>2. r.drawdown = worst
  BY ReportIs
<1>3. goal \in 0..100
  BY ReportsAssumption DEF ReportsTypeOK
<1>4. r.span \in Int /\ r.start \in Nat
  <2>1. r.span = Max(Window(limit)) - Min(Window(limit)) + 1 /\ r.start = snapshots[Min(Window(limit))]
    BY ReportIs, ReportWindowIs
  <2>2. Max(Window(limit)) \in Nat /\ Min(Window(limit)) \in Recorded
    BY ReportWindowIs
  <2>3. Min(Window(limit)) \in Nat /\ snapshots[Min(Window(limit))] \in Nat
    BY <2>2, RecordedIs
  <2> HIDE DEF r
  <2> QED BY <2>1, <2>2, <2>3
<1>5. r = Report(365) /\ r.span >= 2 /\ r.start > 0
  OBVIOUS
<1>6. \A d \in DOMAIN value : d \in Nat
  <2>1. DOMAIN value = Window(limit) \union {LastDay + 1}
    BY DEF Curve
  <2> QED BY <2>1, ReportWindowIs, RecordedIs
<1> HIDE DEF r, value, worst
<1>7. GoalStatus = "breached" <=> Worse(worst, bound)
  <2>1. ~(r.span < 2 \/ r.start = 0)
    BY <1>4, <1>5
  <2> HIDE DEF bound
  <2>2. GoalStatus = "breached" <=> Worse(r.drawdown, bound)
    BY <1>5, <2>1 DEF GoalStatus, bound
  <2> QED BY <1>2, <2>2
<1>8. bound \in Int \X (Nat \ {0})
  BY <1>3
<1>9. ASSUME NEW a \in DOMAIN value, NEW b \in DOMAIN value, a < b, value[a] > 0,
             100 * (value[a] - value[b]) > goal * value[a]
      PROVE  Worse(worst, bound)
  <2> DEFINE fall == <<value[b] - value[a], value[a]>>
  <2>1. value[a] \in Nat \ {0} /\ value[b] \in Nat /\ a <= b
    BY <1>1, <1>6, <1>9
  <2>2. fall \in Int \X (Nat \ {0})
    BY <2>1
  <2>3. Worse(fall, bound)
    BY <1>3, <1>9, <2>1, WorseThanLimit
  <2>4. ~Worse(fall, worst)
    BY <1>1, <1>9, <2>1
  <2> HIDE DEF fall, bound
  <2> QED BY <1>1, <1>8, <2>2, <2>3, <2>4, WorseCarries
<1>10. ASSUME Worse(worst, bound)
       PROVE  \E a, b \in DOMAIN value : a < b /\ value[a] > 0 /\ 100 * (value[a] - value[b]) > goal * value[a]
  <2>1. worst # <<0, 1>>
    <3> SUFFICES ASSUME worst = <<0, 1>> PROVE FALSE
      OBVIOUS
    <3>1. 0 * 100 < (-goal) * 1
      BY <1>10 DEF Worse
    <3> QED BY <1>3, <3>1
  <2>2. PICK a \in DOMAIN value, b \in DOMAIN value :
          a < b /\ value[a] > 0 /\ worst = <<value[b] - value[a], value[a]>>
    BY <1>1, <2>1
  <2>3. value[a] \in Nat \ {0} /\ value[b] \in Nat
    BY <1>1, <2>2
  <2>4. 100 * (value[a] - value[b]) > goal * value[a]
    BY <1>3, <1>10, <2>2, <2>3, WorseThanLimit
  <2> QED BY <2>2, <2>4
<1> HIDE DEF bound
<1> QED BY <1>7, <1>9, <1>10 DEF BreachShows, value

LEMMA ReportsAreHonest == ASSUME ReportsTypeOK PROVE ReportIsHonest
<1> SUFFICES ASSUME NEW limit \in Windows, Window(limit) # {}
             PROVE  LET r == Report(limit)
                        value == Curve(limit) IN
                    /\ GapsShow(r, Window(limit))
                    /\ r.start = value[Min(Window(limit))]
                    /\ DrawdownIsWorst(r, value)
                    /\ goal # NoValue /\ r = Report(365) /\ r.span >= 2 /\ r.start > 0 => BreachShows(value)
  BY DEF ReportIsHonest
<1>1. limit \in Nat \ {0}
  BY ReportsAssumption
<1> DEFINE r == Report(limit)
           value == Curve(limit)
           worst == MaxDrawdown(MarkedValues(limit))
           least == Min(Window(limit))
<1>2. GapsShow(r, Window(limit))
  BY <1>1, GapsAre
<1>3. r.start = value[least]
  <2>1. r.start = snapshots[least] /\ least \in Window(limit) /\ least \in Recorded
    BY <1>1, ReportIs, ReportWindowIs
  <2>2. least \in 1..LastDay /\ LastDay \in Nat
    BY <2>1, RecordedIs
  <2>3. value[least] = IF least > LastDay THEN equity ELSE snapshots[least]
    BY <2>1 DEF Curve
  <2> HIDE DEF least, value, r
  <2> QED BY <2>1, <2>2, <2>3
<1>4. DrawdownIsWorst(r, value)
  <2>1. r.drawdown = worst
    BY <1>1, ReportIs
  <2>2. /\ worst \in Int \X (Nat \ {0}) /\ worst[1] <= 0
        /\ \A a, b \in DOMAIN value : a <= b /\ value[a] > 0 => ~Worse(<<value[b] - value[a], value[a]>>, worst)
        /\ worst = <<0, 1>> \/ \E a, b \in DOMAIN value :
             a < b /\ value[a] > 0 /\ worst = <<value[b] - value[a], value[a]>>
    BY <1>1, CurveFalls
  <2> HIDE DEF r, value, worst
  <2>3. worst[1] = 0 \/ \E a, b \in DOMAIN value : a < b /\ worst = <<value[b] - value[a], value[a]>>
    BY <2>2
  <2> QED BY <2>1, <2>2, <2>3 DEF DrawdownIsWorst
<1>5. ASSUME goal # NoValue, r = Report(365), r.span >= 2, r.start > 0 PROVE BreachShows(value)
  BY <1>1, <1>5, BreachIs
<1> HIDE DEF r, value
<1>6. goal # NoValue /\ r = Report(365) /\ r.span >= 2 /\ r.start > 0 => BreachShows(value)
  BY <1>5
<1> QED BY <1>2, <1>3, <1>4, <1>6 DEF r, value, least

\* A function that is given nought outside of its domain.
LEMMA SumOfGiven ==
  ASSUME NEW S, IsFiniteSet(S), NEW f, DOMAIN f \subseteq S, \A x \in DOMAIN f : f[x] \in Int,
         NEW g \in [S -> Int], \A x \in S : g[x] = Given(f, x)
  PROVE  SumFunctionOnSet(g, S) = SumFunction(f)
<1> DEFINE T == DOMAIN f
<1>1. IsFiniteSet(T) /\ T \in SUBSET S
  BY FS_Subset
<1>2. \A x \in S \ T : g[x] = 0
  BY DEF Given
<1>3. \A x \in T : g[x] \in Int /\ g[x] = f[x]
  BY DEF Given
<1>4. \A x \in S : g[x] \in Int
  OBVIOUS
<1>5. SumFunction(f) = SumFunctionOnSet(f, T)
  BY DEF SumFunction
<1> HIDE DEF T
<1>6. SumFunctionOnSet(g, S) = SumFunctionOnSet(g, T)
  BY <1>1, <1>2, <1>4, SumOfSome
<1>7. SumFunctionOnSet(g, T) = SumFunctionOnSet(f, T)
  BY <1>1, <1>3, SumsAgree
<1> QED BY <1>5, <1>6, <1>7

Notionals(plan, side) == SumFunction([s \in {s \in DOMAIN plan : plan[s].side = side} |-> plan[s].notional])

LEMMA PlanBalances ==
  ASSUME NEW targets \in Weights, NEW values \in [Portfolio -> Nat], SumFunction(values) > 0
  PROVE  LET plan == RebalancePlan(values, targets) IN
         /\ Notionals(plan, "buy") = Notionals(plan, "sell")
         /\ \A s \in Portfolio \ DOMAIN targets :
              values[s] > 0 => plan[s] = [side |-> "sell", notional |-> 100 * values[s]]
<1> DEFINE T == DOMAIN targets
           P == Planned(values, targets)
           total == SumFunction(values)
           d == [s \in P |-> Delta(values, targets, s)]
           want == [s \in P |-> Given(targets, s)]
           have == [s \in P |-> Given(values, s)]
           share == [s \in P |-> want[s] * total]
           held == [s \in P |-> have[s] * 100]
           up == [s \in P |-> IF d[s] > 0 THEN d[s] ELSE 0]
           down == [s \in P |-> IF d[s] < 0 THEN -d[s] ELSE 0]
           plan == RebalancePlan(values, targets)
<1>1. IsFiniteSet(T) /\ (\A s \in T : targets[s] \in 0..100) /\ SumFunction(targets) = 100
  BY WeightsAssumption
<1>2. IsFiniteSet(Portfolio) /\ DOMAIN values = Portfolio
  BY ReportsAssumption
<1>3. IsFiniteSet(P) /\ P = Portfolio \union T /\ Portfolio \subseteq P /\ T \subseteq P
  <2>1. P = Portfolio \union T
    BY <1>2 DEF Planned
  <2> HIDE DEF P, T
  <2> QED BY <1>1, <1>2, <2>1, FS_Union
<1>4. total \in Nat
  <2>1. total = SumFunctionOnSet(values, Portfolio)
    BY <1>2 DEF SumFunction
  <2>2. \A s \in Portfolio : values[s] \in Int
    OBVIOUS
  <2>3. SumFunctionOnSet(values, Portfolio) \in Int
    BY <1>2, <2>2, SumFoldIs, SumChosen
  <2> HIDE DEF total
  <2>4. total \in Int /\ total > 0
    BY <2>1, <2>3 DEF total
  <2> QED BY <2>4
<1>5. /\ want \in [P -> Int] /\ have \in [P -> Int]
      /\ (\A s \in P : want[s] = Given(targets, s)) /\ (\A s \in P : have[s] = Given(values, s))
  <2>1. \A s \in P : Given(targets, s) \in Int /\ Given(values, s) \in Int
    BY <1>1, <1>2 DEF Given
  <2> QED BY <2>1
<1>6. \A s \in P : d[s] = total * want[s] - 100 * have[s]
  BY DEF Delta
<1> HIDE DEF P, total, want, have, T
<1>7. share \in [P -> Int] /\ held \in [P -> Int] /\ (\A s \in P : share[s] = want[s] * total) /\ (\A s \in P : held[s] = have[s] * 100)
  BY <1>4, <1>5
<1>8. d \in [P -> Int] /\ \A s \in P : d[s] = share[s] - held[s]
  <2>1. \A s \in P : d[s] = share[s] - held[s] /\ d[s] \in Int
    <3> SUFFICES ASSUME NEW s \in P PROVE d[s] = share[s] - held[s] /\ d[s] \in Int
      OBVIOUS
    <3>1. want[s] \in Int /\ have[s] \in Int
      BY <1>5
    <3>2. d[s] = total * want[s] - 100 * have[s]
      BY <1>6
    <3>3. share[s] = want[s] * total /\ held[s] = have[s] * 100
      BY <1>7
    <3>4. want[s] * total = total * want[s] /\ total * want[s] \in Int
      BY <1>4, <3>1
    <3> HIDE DEF d, share, held
    <3> QED BY <3>1, <3>2, <3>3, <3>4
  <2>2. d = [s \in P |-> d[s]]
    OBVIOUS
  <2> HIDE DEF d, share, held
  <2> QED BY <2>1, <2>2
<1> HIDE DEF share, held, d
\* What is planned to change comes to nought.
<1>9. SumFunctionOnSet(d, P) = 0
  <2>1. SumFunctionOnSet(want, P) = 100
    <3>1. \A s \in T : targets[s] \in Int
      BY <1>1
    <3> QED BY <1>1, <1>3, <1>5, <3>1, SumOfGiven DEF T
  <2>2. SumFunctionOnSet(have, P) = total
    <3>1. \A s \in Portfolio : values[s] \in Int
      OBVIOUS
    <3> QED BY <1>2, <1>3, <1>5, <3>1, SumOfGiven DEF total
  <2>3. SumFunctionOnSet(share, P) = SumFunctionOnSet(want, P) * total
    BY <1>3, <1>4, <1>5, <1>7, SumOfMultiples
  <2>4. SumFunctionOnSet(held, P) = SumFunctionOnSet(have, P) * 100
    BY <1>3, <1>5, <1>7, SumOfMultiples
  <2>5. SumFunctionOnSet(d, P) = SumFunctionOnSet(share, P) - SumFunctionOnSet(held, P)
    BY <1>3, <1>7, <1>8, SumOfDifferences
  <2> QED BY <1>4, <2>1, <2>2, <2>3, <2>4, <2>5
\* Purchases and sales are its two parts.
<1>10. up \in [P -> Int] /\ down \in [P -> Int] /\ \A s \in P : d[s] = up[s] - down[s]
  <2>1. \A s \in P : d[s] \in Int
    BY <1>8
  <2> QED BY <2>1
<1>11. SumFunctionOnSet(up, P) = SumFunctionOnSet(down, P)
  <2> HIDE DEF up, down
  <2>1. SumFunctionOnSet(up, P) \in Int /\ SumFunctionOnSet(down, P) \in Int
        /\ SumFunctionOnSet(d, P) = SumFunctionOnSet(up, P) - SumFunctionOnSet(down, P)
    <3>1. IsFiniteSet(P) /\ d \in [P -> Int]
      BY <1>3, <1>8
    <3> QED BY <1>10, <3>1, SumOfDifferences
  <2> QED BY <1>9, <2>1
<1>12. /\ DOMAIN plan = {s \in P : d[s] # 0}
       /\ \A s \in DOMAIN plan : plan[s] =
            IF d[s] > 0 THEN [side |-> "buy", notional |-> d[s]] ELSE [side |-> "sell", notional |-> -d[s]]
  BY DEF RebalancePlan, P, d
<1> HIDE DEF plan
<1>13. /\ \A s \in DOMAIN plan : plan[s].side = "buy" <=> d[s] > 0
       /\ \A s \in DOMAIN plan : plan[s].side = "sell" <=> d[s] < 0
       /\ \A s \in DOMAIN plan : d[s] > 0 => plan[s].notional = d[s]
       /\ \A s \in DOMAIN plan : d[s] < 0 => plan[s].notional = -d[s]
  <2> SUFFICES ASSUME NEW s \in DOMAIN plan
               PROVE  /\ plan[s].side = "buy" <=> d[s] > 0
                      /\ plan[s].side = "sell" <=> d[s] < 0
                      /\ d[s] > 0 => plan[s].notional = d[s]
                      /\ d[s] < 0 => plan[s].notional = -d[s]
    OBVIOUS
  <2>1. s \in P /\ d[s] # 0
    BY <1>12
  <2>2. d[s] \in Int
    BY <1>8, <2>1
  <2>3. plan[s] = IF d[s] > 0 THEN [side |-> "buy", notional |-> d[s]] ELSE [side |-> "sell", notional |-> -d[s]]
    BY <1>12
  <2> QED BY <2>1, <2>2, <2>3
<1>14. Notionals(plan, "buy") = SumFunctionOnSet(up, P)
  <2> DEFINE B == {s \in DOMAIN plan : plan[s].side = "buy"}
             f == [s \in B |-> plan[s].notional]
  <2>1. B \in SUBSET P /\ (\A s \in B : d[s] > 0) /\ (\A s \in P \ B : ~(d[s] > 0))
    <3>1. \A s \in P : d[s] > 0 => s \in B
      <4> SUFFICES ASSUME NEW s \in P, d[s] > 0 PROVE s \in B
        OBVIOUS
      <4>1. s \in DOMAIN plan
        BY <1>8, <1>12
      <4> QED BY <1>13, <4>1
    <3> QED BY <1>12, <1>13, <3>1
  <2>2. (\A s \in B : up[s] = d[s] /\ f[s] = d[s] /\ f[s] \in Int) /\ \A s \in P \ B : up[s] = 0
    BY <1>8, <1>12, <1>13, <2>1
  <2>3. Notionals(plan, "buy") = SumFunctionOnSet(f, B)
    BY DEF Notionals, SumFunction
  <2> HIDE DEF B, f, up
  <2>4. IsFiniteSet(B)
    BY <1>3, <2>1, FS_Subset
  <2>5. SumFunctionOnSet(f, B) = SumFunctionOnSet(up, B)
    BY <2>2, <2>4, SumsAgree
  <2>6. SumFunctionOnSet(up, P) = SumFunctionOnSet(up, B)
    <3>1. \A s \in P : up[s] \in Int
      BY <1>10
    <3> QED BY <1>3, <2>1, <2>2, <3>1, SumOfSome
  <2> QED BY <2>3, <2>5, <2>6
<1>15. Notionals(plan, "sell") = SumFunctionOnSet(down, P)
  <2> DEFINE B == {s \in DOMAIN plan : plan[s].side = "sell"}
             f == [s \in B |-> plan[s].notional]
  <2>1. B \in SUBSET P /\ (\A s \in B : d[s] < 0) /\ (\A s \in P \ B : ~(d[s] < 0))
    <3>1. \A s \in P : d[s] < 0 => s \in B
      <4> SUFFICES ASSUME NEW s \in P, d[s] < 0 PROVE s \in B
        OBVIOUS
      <4>1. s \in DOMAIN plan
        BY <1>8, <1>12
      <4> QED BY <1>13, <4>1
    <3> QED BY <1>12, <1>13, <3>1
  <2>2. (\A s \in B : down[s] = -d[s] /\ f[s] = -d[s] /\ f[s] \in Int) /\ \A s \in P \ B : down[s] = 0
    BY <1>8, <1>12, <1>13, <2>1
  <2>3. Notionals(plan, "sell") = SumFunctionOnSet(f, B)
    BY DEF Notionals, SumFunction
  <2> HIDE DEF B, f, down
  <2>4. IsFiniteSet(B)
    BY <1>3, <2>1, FS_Subset
  <2>5. SumFunctionOnSet(f, B) = SumFunctionOnSet(down, B)
    BY <2>2, <2>4, SumsAgree
  <2>6. SumFunctionOnSet(down, P) = SumFunctionOnSet(down, B)
    <3>1. \A s \in P : down[s] \in Int
      BY <1>10
    <3> QED BY <1>3, <2>1, <2>2, <3>1, SumOfSome
  <2> QED BY <2>3, <2>5, <2>6
<1>16. ASSUME NEW s \in Portfolio \ T, values[s] > 0
       PROVE  plan[s] = [side |-> "sell", notional |-> 100 * values[s]]
  <2>1. s \in P /\ want[s] = 0 /\ have[s] = values[s] /\ values[s] \in Nat
    BY <1>2, <1>3, <1>5, <1>16 DEF Given, T
  <2>2. d[s] = -(100 * values[s])
    BY <1>4, <1>6, <2>1
  <2>3. d[s] < 0 /\ d[s] # 0 /\ -d[s] = 100 * values[s] /\ ~(d[s] > 0)
    BY <1>16, <2>1, <2>2
  <2> QED BY <1>12, <2>1, <2>3
<1> HIDE DEF up, down
<1> QED BY <1>11, <1>14, <1>15, <1>16 DEF plan, T

LEMMA PlansBalance == ASSUME ReportsTypeOK PROVE PlanIsBalanced
<1>1. equity \in Nat
  BY RecordedIs
<1> SUFFICES ASSUME NEW targets \in Weights, NEW values \in [Portfolio -> {0, equity, 2 * equity}],
                    SumFunction(values) > 0
             PROVE  LET plan == RebalancePlan(values, targets)
                        Notional(side) ==
                          SumFunction([s \in {s \in DOMAIN plan : plan[s].side = side} |-> plan[s].notional]) IN
                    /\ Notional("buy") = Notional("sell")
                    /\ \A s \in Portfolio \ DOMAIN targets :
                         values[s] > 0 => plan[s] = [side |-> "sell", notional |-> 100 * values[s]]
  BY DEF PlanIsBalanced
<1>2. values \in [Portfolio -> Nat]
  <2>1. {0, equity, 2 * equity} \subseteq Nat
    BY <1>1
  <2> QED BY <2>1
<1> DEFINE plan == RebalancePlan(values, targets)
<1>3. /\ Notionals(plan, "buy") = Notionals(plan, "sell")
      /\ \A s \in Portfolio \ DOMAIN targets :
           values[s] > 0 => plan[s] = [side |-> "sell", notional |-> 100 * values[s]]
  BY <1>2, PlanBalances
<1> HIDE DEF plan
<1> QED BY <1>3 DEF Notionals, plan

\* A snapshot is the equity of its day, and nothing else is recorded.
LEMMA ReportsStep == ASSUME ReportsTypeOK, [ReportsNext]_reportVars PROVE ReportsTypeOK'
<1> USE ReportsAssumption DEF ReportsTypeOK
<1>1. CASE Snapshot
  BY <1>1 DEF Snapshot
<1>2. CASE NextDay
  BY <1>2 DEF NextDay
<1>3. ASSUME NEW e \in Equities, EquityMoves(e) PROVE ReportsTypeOK'
  BY <1>3 DEF EquityMoves
<1>4. ASSUME NEW limit \in LossLimits, SetGoal(limit) PROVE ReportsTypeOK'
  BY <1>4 DEF SetGoal
<1>5. CASE UNCHANGED reportVars
  BY <1>5 DEF reportVars
<1> QED BY <1>1, <1>2, <1>3, <1>4, <1>5 DEF ReportsNext

\* The performance report is of the newest snapshots of its window and the live equity on
\* the day after: it says when days are missing, starts at the oldest of them, its drawdown
\* is the worst fall from any earlier value to a later one (_series, _max_drawdown_pct), a
\* goal is breached exactly when one of them exceeds its limit, and a rebalance plan buys
\* for what it sells and sells whole what the request leaves out.
THEOREM ReportsHold == ReportsSpec => []ReportsAddUp
<1>1. ReportsInit => ReportsTypeOK
  BY ReportsAssumption DEF ReportsInit, ReportsTypeOK
<1>2. ReportsTypeOK /\ [ReportsNext]_reportVars => ReportsTypeOK'
  BY ReportsStep
<1>3. ReportsTypeOK => ReportsAddUp
  BY ReportsAreHonest, PlansBalance DEF ReportsAddUp
<1> QED BY <1>1, <1>2, <1>3, PTL DEF ReportsSpec

=============================================================================
