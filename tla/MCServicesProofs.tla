--------------------------- MODULE MCServicesProofs --------------------------
(***************************************************************************)
(* Theorems about all services of MCServices together: their run is a run  *)
(* of each of them, so what ServicesProofs and StoresProofs prove of each  *)
(* holds while the others move.                                            *)
(***************************************************************************)
EXTENDS MCServices, ServicesProofs, StoresProofs

\* A step of the services is a step of each of them, or leaves it as it was.
StepsOfAll ==
  /\ [LedgerNext]_ledgerVars
  /\ [ReportsNext]_reportVars
  /\ [PaperNext]_paperVars
  /\ [CopyNext]_copyVars
  /\ [SessionNext]_sessionVars
  /\ [VaultNext]_vaultVars
  /\ [MarketNext]_signalVars
  /\ [BacktestNext]_backtestVars
  /\ [SchemaNext]_schemaVars
  /\ [RetrievalNext]_retrievalVars
  /\ [CommitteeNext]_committeeVars
  /\ [ScoreNext]_scoreVars

\* When one part moves, every other stands still.
LEMMA OthersStand ==
  ASSUME NEW p, Turn(p)
  PROVE  /\ p # "ledger" => UNCHANGED ledgerVars
         /\ p # "reports" => UNCHANGED reportVars
         /\ p # "paper" => UNCHANGED paperVars
         /\ p # "copy" => UNCHANGED copyVars
         /\ p # "sessions" => UNCHANGED sessionVars
         /\ p # "vault" => UNCHANGED vaultVars
         /\ p # "market" => UNCHANGED signalVars
         /\ p # "backtest" => UNCHANGED backtestVars
         /\ p # "schema" => UNCHANGED schemaVars
         /\ p # "retrieval" => UNCHANGED retrievalVars
         /\ p # "committee" => UNCHANGED committeeVars
         /\ p # "scorecard" => UNCHANGED scoreVars
BY DEF Turn

LEMMA ServicesStep == ASSUME [Next]_servicesVars PROVE StepsOfAll
<1>1. CASE UNCHANGED servicesVars
  BY <1>1 DEF servicesVars, StepsOfAll
<1>2. CASE Turn("ledger") /\ LedgerNext
  BY <1>2, OthersStand DEF StepsOfAll
<1>3. CASE Turn("reports") /\ ReportsNext
  BY <1>3, OthersStand DEF StepsOfAll
<1>4. CASE Turn("paper") /\ PaperNext
  BY <1>4, OthersStand DEF StepsOfAll
<1>5. CASE Turn("copy") /\ CopyNext
  BY <1>5, OthersStand DEF StepsOfAll
<1>6. CASE Turn("sessions") /\ SessionNext
  BY <1>6, OthersStand DEF StepsOfAll
<1>7. CASE Turn("vault") /\ VaultNext
  BY <1>7, OthersStand DEF StepsOfAll
<1>8. CASE Turn("market") /\ MarketNext
  BY <1>8, OthersStand DEF StepsOfAll
<1>9. CASE Turn("backtest") /\ BacktestNext
  BY <1>9, OthersStand DEF StepsOfAll
<1>10. CASE Turn("schema") /\ SchemaNext
  BY <1>10, OthersStand DEF StepsOfAll
<1>11. CASE Turn("retrieval") /\ RetrievalNext
  BY <1>11, OthersStand DEF StepsOfAll
<1>12. CASE Turn("committee") /\ CommitteeNext
  BY <1>12, OthersStand DEF StepsOfAll
<1>13. CASE Turn("scorecard") /\ ScoreNext
  BY <1>13, OthersStand DEF StepsOfAll
<1> QED BY <1>1, <1>2, <1>3, <1>4, <1>5, <1>6, <1>7, <1>8, <1>9, <1>10, <1>11, <1>12, <1>13 DEF Next

\* What the services do together, each of them does: the run of all implements the
\* specification of each.
THEOREM ServicesImplementEach ==
  Spec => /\ LedgerSpec /\ ReportsSpec /\ PaperSpec /\ CopySpec
          /\ SessionSpec /\ VaultSpec /\ MarketSpec /\ BacktestSpec
          /\ SchemaSpec /\ RetrievalSpec /\ CommitteeSpec /\ ScoreSpec
<1>1. Init => /\ LedgerInit /\ ReportsInit /\ PaperInit /\ CopyInit /\ SessionInit /\ VaultInit
               /\ MarketInit /\ BacktestInit /\ SchemaInit /\ RetrievalInit /\ CommitteeInit /\ ScoreInit
  BY DEF Init
<1>2. [Next]_servicesVars => StepsOfAll
  BY ServicesStep
<1>3. StepsOfAll => [LedgerNext]_ledgerVars
  BY DEF StepsOfAll
<1>4. StepsOfAll => [ReportsNext]_reportVars
  BY DEF StepsOfAll
<1>5. StepsOfAll => [PaperNext]_paperVars
  BY DEF StepsOfAll
<1>6. StepsOfAll => [CopyNext]_copyVars
  BY DEF StepsOfAll
<1>7. StepsOfAll => [SessionNext]_sessionVars
  BY DEF StepsOfAll
<1>8. StepsOfAll => [VaultNext]_vaultVars
  BY DEF StepsOfAll
<1>9. StepsOfAll => [MarketNext]_signalVars
  BY DEF StepsOfAll
<1>10. StepsOfAll => [BacktestNext]_backtestVars
  BY DEF StepsOfAll
<1>11. StepsOfAll => [SchemaNext]_schemaVars
  BY DEF StepsOfAll
<1>12. StepsOfAll => [RetrievalNext]_retrievalVars
  BY DEF StepsOfAll
<1>13. StepsOfAll => [CommitteeNext]_committeeVars
  BY DEF StepsOfAll
<1>14. StepsOfAll => [ScoreNext]_scoreVars
  BY DEF StepsOfAll
<1> QED BY <1>1, <1>2, <1>3, <1>4, <1>5, <1>6, <1>7, <1>8, <1>9, <1>10, <1>11, <1>12, <1>13, <1>14, PTL
  DEF Spec, LedgerSpec, ReportsSpec, PaperSpec, CopySpec, SessionSpec, VaultSpec, MarketSpec,
      BacktestSpec, SchemaSpec, RetrievalSpec, CommitteeSpec, ScoreSpec

LEMMA RulingIsTyped == Answered => CommitteeTypeOK
BY DEF Answered, CommitteeAnswered, CommitteeAnswer, BoardroomAnswered, AuditAnswered, GuardAnswered, CommitteeTypeOK

\* Whichever service moves, its variables keep their types and bounds, for every value of
\* the constants of all of them.
THEOREM ServicesTypeCorrect == Spec => []TypeOK
<1>1. SessionSpec => []SessionTypeOK
  BY InitEstablishes, Inductive, BoundsAtFirst, BoundsAreKept, SessionsAreTyped, PTL DEF SessionSpec
<1>2. LedgerInv => LedgerTypeOK
  BY DEF LedgerInv
<1>3. ReportsSpec => []ReportsTypeOK
  <2>1. ReportsInit => ReportsTypeOK
    BY ReportsAssumption DEF ReportsInit, ReportsTypeOK
  <2>2. ReportsTypeOK /\ [ReportsNext]_reportVars => ReportsTypeOK'
    BY ReportsStep
  <2> QED BY <2>1, <2>2, PTL DEF ReportsSpec
<1>4. ScoreInv => ScoreTypeOK
  BY DEF ScoreInv
<1>5. LedgerTypeOK /\ ReportsTypeOK /\ PaperTypeOK /\ CopyTypeOK /\ SessionTypeOK /\ VaultTypeOK
      /\ MarketTypeOK /\ BacktestTypeOK /\ SchemaTypeOK /\ RetrievalTypeOK /\ CommitteeTypeOK /\ ScoreTypeOK => TypeOK
  BY DEF TypeOK
<1> QED BY <1>1, <1>2, <1>3, <1>4, <1>5, ServicesImplementEach, LedgerHolds, PaperTypeCorrect, CopyTypeCorrect,
          VaultTypeCorrect, MarketTypeCorrect, BacktestTypeCorrect, SchemaTypeCorrect, RetrievalTypeCorrect,
          AnsweredIsInvariant, RulingIsTyped, ScoreHolds, PTL

\* What a run of the services promises holds for every value of the constants: of the
\* account, its reports and paper trades, the copied trades, tokens, secrets, signals,
\* backtests, schema, index, rulings and scorecard.
THEOREM ServicesHold ==
  Spec => [](/\ TypeOK /\ AccountingsAgree /\ ReportsAddUp /\ PaperBooksAddUp /\ RuleKeepsCooldown
             /\ CopiesAddUp /\ SpentTokensStaySpent /\ SecretsSurviveRotation /\ SignalIsGrounded
             /\ BacktestHolds /\ ServingFitsSchema /\ IndexIsHonest /\ RulingsHoldTogether /\ ScorecardAddsUp)
<1> QED BY ServicesImplementEach, ServicesTypeCorrect, AccountsAgree, ReportsHold, BooksAddUp, CooldownKept,
           CopiesCounted, SpentTokens, SecretsSurvive, SignalGrounded, BacktestsHold, ServingFits,
           IndexHonest, RulingsHold, ScoresAddUp, PTL
=============================================================================
