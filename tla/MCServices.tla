----------------------------- MODULE MCServices -----------------------------
(* The services behind the API, one component of which moves in a behaviour. *)
(* They share a run, and no state.                                           *)
EXTENDS Ledger, Reports, PaperTrading, CopyTrading, Sessions, Vault, MarketSignal,
        Backtest, Schema, Retrieval, Committee, Scorecard, TLC

CONSTANTS h1, h2, k1, k2

VARIABLE part

-----------------------------------------------------------------------------
(* Values of the constants.                                                  *)

\* Days of the transactions: within a year, over its end, and over two.
MCDay == <<10, 200, 400, 800>>

MCWeights == {[s \in {"A"} |-> 100], [s \in {"A", "B"} |-> IF s = "A" THEN 30 ELSE 70],
              [s \in {"B", "C"} |-> 50]}

MCCooldown == [r \in Rules |-> 2]

MCOpening == [s \in Instruments |-> 10]

MCFeeds ==
  LET It(l, m, t, e, u, v, be, bu) ==
        [legal |-> l, macro |-> m, tech |-> t, exec |-> e, urgent |-> u, vol |-> v,
         bearish |-> be, bullish |-> bu] IN
  << <<It(1, 0, 2, 0, 1, 1, 1, 0), It(0, 2, 0, 0, 1, 1, 0, 1)>> >>
MCAttempts == <<1, 1>>

MCRequests == {[buy |-> 30, sell |-> 70, warmup |-> 1, folds |-> 1, test |-> 2],
               [buy |-> 40, sell |-> 50, warmup |-> 2, folds |-> 2, test |-> 1]}

MCBatches == {<<>>, <<1, 2>>, <<2, 3>>, <<3, 1, 4>>}
MCScore == [q \in {"q"} |-> <<1, 0, 1, 2>>]
MCFilings ==
  LET Sec(marker, paras) == [marker |-> marker, paras |-> paras] IN
  {<<Sec("prepared", <<1, 1>>), Sec("qa", <<-1>>), Sec("none", <<0>>)>>, <<Sec("none", <<1>>)>>}

\* Price and averages: rising, falling and without a direction; some are missing.
MCCharts ==
  {<<0, 0, 0>>, <<0, 900000, 800000>>, <<120, 110, 100>>, <<120, 130, 140>>, <<1700, 1600, 1500>>,
   <<1700, 0, 1800>>, <<1000000, 990000, 980000>>, <<1000000, 1010000, 1020000>>, <<1000000, 990000, 0>>}
MCCommitteeFacts ==
  {[price |-> c[1], sma20 |-> c[2], sma50 |-> c[3], rsi |-> r, macd |-> m, pe |-> p, de |-> d,
    events |-> e, change |-> x, tolerance |-> t] :
     c \in MCCharts, r \in {0, 340, 710, 810}, m \in {-1, 0}, p \in {-50, 0, 179, 180, 451},
     d \in {0, 14, 15, 31}, e \in BOOLEAN, x \in {-21, 0, 16},
     t \in {"conservative", "moderate", "aggressive"}}
MCBoardroomFacts ==
  [pe : {119, 250, 251, 381, 451}, de : {12, 14, 15, 18, 20, 21}, fcf : {49, 50, 81}, growth : {79, 80, 250}]
MCAuditFacts ==
  [action : {"BUY", "SELL"}, price : {120, 1000000}, rsi : {299, 480, 721}, pe : {350, 351}, de : {20, 21},
   sentiment : {-20, -3, 0, 3, 9}]
MCGuardFacts == [failures : 0..4, drawdown : {29, 30, 31}]

MCKinds == {[symbol |-> "A", side |-> "buy", qty |-> 1, confidence |-> 100],
            [symbol |-> "A", side |-> "sell", qty |-> 2, confidence |-> 60],
            [symbol |-> "B", side |-> "buy", qty |-> 1, confidence |-> Blank]}

\* Workers are alike, and so are the handlers of requests.
Alike == {p @@ q : p \in Permutations({h1, h2}), q \in Permutations({k1, k2})}
-----------------------------------------------------------------------------
servicesVars ==
  <<part, ledgerVars, reportVars, paperVars, copyVars, sessionVars, vaultVars,
    signalVars, backtestVars, schemaVars, retrievalVars, committeeVars, scoreVars>>

Init ==
  /\ part \in {"ledger", "reports", "paper", "copy", "sessions", "vault", "market",
              "backtest", "schema", "retrieval", "committee", "scorecard"}
  /\ LedgerInit /\ ReportsInit /\ PaperInit /\ CopyInit /\ SessionInit /\ VaultInit
  /\ MarketInit /\ BacktestInit /\ SchemaInit /\ RetrievalInit /\ CommitteeInit /\ ScoreInit

\* The part whose turn it is in this behaviour; the others stand still.
Turn(p) ==
  /\ part = p /\ part' = p
  /\ IF p = "ledger" THEN TRUE ELSE UNCHANGED ledgerVars
  /\ IF p = "reports" THEN TRUE ELSE UNCHANGED reportVars
  /\ IF p = "paper" THEN TRUE ELSE UNCHANGED paperVars
  /\ IF p = "copy" THEN TRUE ELSE UNCHANGED copyVars
  /\ IF p = "sessions" THEN TRUE ELSE UNCHANGED sessionVars
  /\ IF p = "vault" THEN TRUE ELSE UNCHANGED vaultVars
  /\ IF p = "market" THEN TRUE ELSE UNCHANGED signalVars
  /\ IF p = "backtest" THEN TRUE ELSE UNCHANGED backtestVars
  /\ IF p = "schema" THEN TRUE ELSE UNCHANGED schemaVars
  /\ IF p = "retrieval" THEN TRUE ELSE UNCHANGED retrievalVars
  /\ IF p = "committee" THEN TRUE ELSE UNCHANGED committeeVars
  /\ IF p = "scorecard" THEN TRUE ELSE UNCHANGED scoreVars

Next ==
  \/ Turn("ledger") /\ LedgerNext
  \/ Turn("reports") /\ ReportsNext
  \/ Turn("paper") /\ PaperNext
  \/ Turn("copy") /\ CopyNext
  \/ Turn("sessions") /\ SessionNext
  \/ Turn("vault") /\ VaultNext
  \/ Turn("market") /\ MarketNext
  \/ Turn("backtest") /\ BacktestNext
  \/ Turn("schema") /\ SchemaNext
  \/ Turn("retrieval") /\ RetrievalNext
  \/ Turn("committee") /\ CommitteeNext
  \/ Turn("scorecard") /\ ScoreNext

Spec == Init /\ [][Next]_servicesVars
-----------------------------------------------------------------------------
\* Every variable of the part that moves keeps its type.
TypeOK ==
  CASE part = "ledger" -> LedgerTypeOK [] part = "reports" -> ReportsTypeOK
    [] part = "paper" -> PaperTypeOK [] part = "copy" -> CopyTypeOK
    [] part = "sessions" -> SessionTypeOK [] part = "vault" -> VaultTypeOK
    [] part = "market" -> MarketTypeOK [] part = "backtest" -> BacktestTypeOK
    [] part = "schema" -> SchemaTypeOK [] part = "retrieval" -> RetrievalTypeOK
    [] part = "committee" -> CommitteeTypeOK [] OTHER -> ScoreTypeOK
=============================================================================
