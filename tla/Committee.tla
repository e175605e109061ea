------------------------------ MODULE Committee ------------------------------
(***************************************************************************)
(* Committee: the rule-based panels that rule on a trade.  Three analysts   *)
(* vote and a risk manager with a veto (MultiAgentService), six investors   *)
(* weigh a company (BoardroomService), a red team attacks a proposal        *)
(* (AdversarialAuditService), and a guard locks execution                   *)
(* (AdaptiveMLService).  None keeps state: a request is one decision.  The  *)
(* committee's own route fails before it gets there (it asks MarketService  *)
(* for methods it does not have): the facts are what the service takes.     *)
(*                                                                         *)
(* Facts are integers: prices in hundredths of a cent, ratios, percentages  *)
(* and sentiment in tenths, confidences in hundredths.  The committee reads *)
(* a fact of 0 as one that is missing.                                      *)
(***************************************************************************)
EXTENDS Integers, FiniteSets

CONSTANTS
  CommitteeFacts, BoardroomFacts, AuditFacts, GuardFacts,  \* the requests
  Multiples, Leverages,   \* price-earnings and debt-to-equity ratios to compare
  NoRuling

ASSUME CommitteeAssumption ==
  /\ CommitteeFacts \subseteq [price : Nat, rsi : Int, macd : Int, sma20 : Nat, sma50 : Nat,
                              pe : Int, de : Int, events : BOOLEAN, change : Int,
                              tolerance : {"conservative", "moderate", "aggressive"}]
  /\ BoardroomFacts \subseteq [pe : Int, de : Int, fcf : Int, growth : Int]
  /\ AuditFacts \subseteq [action : {"BUY", "SELL"}, price : Nat, rsi : Int, pe : Int, de : Int, sentiment : Int]
  /\ Multiples \subseteq Int /\ Leverages \subseteq Int

VARIABLE ruling   \* [kind, facts, ...]: the answer to the last request

committeeVars == <<ruling>>

\* round(): either neighbour of a tie, as binary fractions fall on both sides.
Rounded(n, d) == {r \in (n \div d)..(n \div d + 1) : 2 * (d * r - n) <= d /\ 2 * (n - d * r) <= d}
\* round(price * percent, 2): whole cents.
Share(price, percent) == {100 * cents : cents \in Rounded(price * percent, 10000)}
Count(votes, S) == Cardinality({who \in DOMAIN votes : votes[who].vote \in S})
Opinion(vote, score) == [vote |-> vote, score |-> score]
-----------------------------------------------------------------------------
(* MultiAgentService.                                                      *)

\* "x or default": a fact of 0 is as good as none.
OrElse(x, default) == IF x = 0 THEN default ELSE x

\* The facts the analysts are shown (price: the quote's price, or else its close).
AsRead(f) ==
  LET price == OrElse(f.price, 1000000) IN
  [price |-> price, sma20 |-> OrElse(f.sma20, price), sma50 |-> OrElse(f.sma50, price),
   rsi |-> OrElse(f.rsi, 500), macd |-> f.macd, pe |-> OrElse(f.pe, 220), de |-> OrElse(f.de, 11),
   events |-> f.events, change |-> f.change, tolerance |-> f.tolerance]

Macro(f) ==
  CASE f.events      -> Opinion("HOLD", 65)
    [] ~f.events /\ f.change > 15  -> Opinion("BUY", 72)
    [] ~f.events /\ f.change < -20 -> Opinion("SELL", 70)
    [] OTHER         -> Opinion("HOLD", 60)

Fundamental(f) ==
  IF f.pe < 180 /\ f.de < 15 THEN Opinion("BUY", 78)
  ELSE IF f.pe > 450 \/ f.de > 30 THEN Opinion("SELL", 74) ELSE Opinion("HOLD", 62)

\* The averages count only where the oscillators say nothing.
Technical(f) ==
  CASE f.rsi < 350 /\ f.macd >= 0 -> Opinion("BUY", 82)
    [] f.rsi > 700 /\ f.macd < 0  -> Opinion("SELL", 80)
    [] OTHER -> (CASE f.price > f.sma20 /\ f.sma20 > f.sma50 -> Opinion("BUY", 73)
                   [] f.price < f.sma20 /\ f.sma20 < f.sma50 -> Opinion("SELL", 71)
                   [] OTHER -> Opinion("HOLD", 55))

Vetoes(f) == f.rsi > 800 \/ (Macro(f).vote = "SELL" /\ f.tolerance = "conservative")

Risk(f) ==
  IF Vetoes(f) THEN Opinion("HOLD", 90)
  ELSE Opinion(IF Technical(f).vote = "BUY" /\ Macro(f).vote # "SELL" THEN "BUY" ELSE "HOLD", 70)

Sizing(tolerance) == CASE tolerance = "aggressive" -> 75 [] tolerance = "moderate" -> 50 [] OTHER -> 25

\* What the three votes come to: the action, its strength, the size of the position in
\* tenths of a percent, and where stop and target lie in percent of the price.
Vote(f) ==
  LET votes == [macro |-> Macro(f), fundamental |-> Fundamental(f), technical |-> Technical(f)]
      Strength(n) == IF n = 3 THEN "unanimous" ELSE "majority"
      mean == votes.macro.score + votes.fundamental.score + votes.technical.score
      buys == Count(votes, {"BUY"})  sells == Count(votes, {"SELL"}) IN
  IF buys >= 2 THEN
    [action |-> "BUY", strength |-> Strength(buys), confidence |-> mean,
     size |-> Sizing(f.tolerance), stop |-> 95, target |-> 110]
  ELSE IF sells >= 2 THEN
    [action |-> "SELL", strength |-> Strength(sells), confidence |-> mean,
     size |-> 0, stop |-> 105, target |-> 90]
  ELSE [action |-> "HOLD", strength |-> "split", confidence |-> 150, size |-> 20, stop |-> 96, target |-> 106]

\* A plausible bug: the veto is heard only where the votes are split.
VotesFirst(f) ==
  IF Vetoes(f) /\ Vote(f).strength = "split"
  THEN [action |-> "HOLD", strength |-> "vetoed", confidence |-> 120, size |-> 0, stop |-> 97, target |-> 105]
  ELSE Vote(f)

\* _synthesize_consensus: the veto comes before the votes.  Confidence is the sum of
\* three analysts'.
Synthesis(f) ==
  IF Vetoes(f)
  THEN [action |-> "HOLD", strength |-> "vetoed", confidence |-> 120, size |-> 0, stop |-> 97, target |-> 105]
  ELSE Vote(f)

\* Reward over risk of a plan as a fraction; none when rounding leaves a price of 0 or no risk.
Gap(a, b) == IF a > b THEN a - b ELSE b - a
RewardRisk(entry, stop, target) ==
  IF stop = 0 \/ target = 0 \/ stop = entry THEN <<>> ELSE <<Gap(target, entry), Gap(stop, entry)>>

Deliberate(f) ==
  LET g == AsRead(f)  s == Synthesis(g) IN
  \E stop \in Share(g.price, s.stop), target \in Share(g.price, s.target) :
    ruling' = [kind |-> "committee", facts |-> f, synthesis |-> s, opinion |-> Risk(g), entry |-> g.price,
               stop |-> stop, target |-> target, ratio |-> RewardRisk(g.price, stop, target)]
-----------------------------------------------------------------------------
(* BoardroomService.                                                       *)

\* convene_boardroom's defaults: no caller gives a return on capital, an RSI or a VIX.
BoardroomRoic == 180
BoardroomRsi == 500
BoardroomVix == 165

Buffett(f) ==
  IF BoardroomRoic >= 150 /\ f.de <= 12 /\ f.pe <= 250 THEN Opinion("BUY", 850)
  ELSE Opinion("HOLD", IF f.pe > 380 THEN 600 ELSE 550)
Munger(f) ==
  IF f.de > 20 THEN Opinion("AVOID_OR_SHORT", 880)
  ELSE IF BoardroomRoic > 180 THEN Opinion("BUY", 820) ELSE Opinion("HOLD", 600)
Wood(f) ==
  IF f.growth >= 250 THEN Opinion("STRONG_BUY", 920)
  ELSE IF f.growth < 80 THEN Opinion("AVOID_OR_SHORT", 750) ELSE Opinion("HOLD", 500)
Burry(f) ==
  IF f.pe > 450 /\ BoardroomRsi > 700 THEN Opinion("AVOID_OR_SHORT", 900)
  ELSE IF f.pe < 120 /\ f.fcf > 80 THEN Opinion("STRONG_BUY", 860) ELSE Opinion("HOLD", 650)
Ackman(f) ==
  IF f.fcf >= 50 /\ BoardroomRoic >= 140 /\ f.de <= 18 THEN Opinion("BUY", 800) ELSE Opinion("HOLD", 550)
Dalio(f) ==
  IF BoardroomVix > 300 THEN Opinion("HOLD", 750) ELSE Opinion(IF f.de < 15 THEN "BUY" ELSE "HOLD", 700)

\* The consensus, and the weight it recommends in tenths of a percent.
Boardroom(f) ==
  LET votes == [buffett |-> Buffett(f), munger |-> Munger(f), wood |-> Wood(f),
                burry |-> Burry(f), ackman |-> Ackman(f), dalio |-> Dalio(f)]
      bulls == Count(votes, {"STRONG_BUY", "BUY"})
      bears == Count(votes, {"AVOID_OR_SHORT"})
      Summary(vote, weight) == [vote |-> vote, weight |-> weight, bulls |-> bulls, bears |-> bears] IN
  CASE bulls >= 5 -> Summary("STRONG_BUY", 125)
    [] bulls = 4  -> Summary("BUY", 80)
    [] bulls < 4 /\ bears >= 3 -> Summary("AVOID_OR_SHORT", 0)
    [] OTHER      -> Summary("HOLD", 40)

Convene(f) == ruling' = [kind |-> "boardroom", facts |-> f, summary |-> Boardroom(f)]
-----------------------------------------------------------------------------
(* AdversarialAuditService and the guard of AdaptiveMLService.             *)

Clamp(low, x, high) == IF x < low THEN low ELSE IF x > high THEN high ELSE x

Conviction(f) == Clamp(30, 70 + 3 * f.sentiment, 95)

\* What the red team finds: each point weighs on the proposal.
RedSeverity(f) ==
  LET overextended == f.rsi > 720 \/ (f.rsi < 300 /\ f.action = "SELL") IN
  Clamp(0, 30 + (IF f.pe > 350 THEN 25 ELSE 0) + (IF f.de > 20 THEN 20 ELSE 0)
              + (IF overextended THEN 20 ELSE 0), 95)

\* In tenths.
Survival(f) == Clamp(0, 10 * Conviction(f) - 6 * RedSeverity(f) + 200, 1000)

Verdict(f) ==
  IF Survival(f) >= 650 THEN "APPROVED_PROCEED_TO_RISK"
  ELSE IF Survival(f) >= 450 THEN "APPROVED_WITH_TIGHTER_STOPS" ELSE "REJECTED_RED_TEAM_KILL"

Audit(f) ==
  \E target \in Share(f.price, IF f.action = "BUY" THEN 110 ELSE 90) :
    ruling' = [kind |-> "audit", facts |-> f, verdict |-> Verdict(f), target |-> target,
               mitigated |-> RedSeverity(f) >= 60]

MaxFailuresAllowed == 3
DrawdownCeiling == 30

Locked(f) == f.failures >= MaxFailuresAllowed \/ f.drawdown >= DrawdownCeiling

CheckGuard(f) == ruling' = [kind |-> "guard", facts |-> f, locked |-> Locked(f)]
-----------------------------------------------------------------------------
CommitteeInit == ruling = NoRuling

CommitteeNext ==
  /\ ruling = NoRuling
  /\ \/ \E f \in CommitteeFacts : Deliberate(f)
     \/ \E f \in BoardroomFacts : Convene(f)
     \/ \E f \in AuditFacts : Audit(f)
     \/ \E f \in GuardFacts : CheckGuard(f)

CommitteeSpec == CommitteeInit /\ [][CommitteeNext]_committeeVars
-----------------------------------------------------------------------------
(* Properties.                                                             *)

CommitteeTypeOK == ruling = NoRuling \/ ruling.kind \in {"committee", "boardroom", "audit", "guard"}

Rank(vote) == CASE vote = "STRONG_BUY" -> 3 [] vote = "BUY" -> 2 [] vote = "HOLD" -> 1 [] OTHER -> 0
Approval(verdict) == CASE verdict = "APPROVED_PROCEED_TO_RISK" -> 2
                       [] verdict = "APPROVED_WITH_TIGHTER_STOPS" -> 1 [] OTHER -> 0

\* f with worse numbers is dearer or deeper in debt than f, and the same otherwise.
WithNumbers(f, pe, de) == [f EXCEPT !.pe = pe, !.de = de]
WorseFacts(f) ==
  {WithNumbers(f, pe, de) : pe \in {p \in Multiples : p >= f.pe}, de \in {d \in Leverages : d >= f.de}}

\* Two ratios the committee can tell apart from a missing one, or the same one.
Comparable(x, y) == x = y \/ (x # 0 /\ y # 0)

\* A position is recommended only with the votes and without the veto: nothing is sized
\* after a veto or for a sale, the risk manager never stands behind a trade against the
\* macro view, and a plan's stop and target lie on their own sides of the entry from a
\* price of 17 cents on; below it whole cents put them at most half a cent beyond it.
CommitteeIsSound ==
  ruling # NoRuling /\ ruling.kind = "committee" =>
    LET f == ruling.facts  s == ruling.synthesis  entry == ruling.entry
        Above(a, b) == IF entry >= 1700 THEN a > b ELSE a >= b - 50 IN
    /\ (f.rsi > 800 \/ (f.change < -20 /\ ~f.events /\ f.tolerance = "conservative"))
         => s.action = "HOLD" /\ s.size = 0 /\ s.confidence <= 120
    /\ s.size > 25 => s.action = "BUY" /\ f.tolerance # "conservative"
    /\ ruling.opinion.vote = "BUY" => s.action \in {"BUY", "HOLD"} /\ ~(f.change < -20 /\ ~f.events)
    /\ IF s.action = "SELL" THEN Above(ruling.stop, entry) /\ Above(entry, ruling.target)
       ELSE Above(entry, ruling.stop) /\ Above(ruling.target, entry)

\* No panel likes a company better for being dearer or deeper in debt, nor the red team
\* a proposal.  To the committee a ratio of 0 is a missing one, which it fills in: there
\* the comparison is of ratios it is given.
WorseIsNotBetter ==
  ruling # NoRuling =>
    LET f == ruling.facts IN
    CASE ruling.kind = "committee" -> \A g \in WorseFacts(f) :
             Comparable(f.pe, g.pe) /\ Comparable(f.de, g.de)
               => Rank(Synthesis(AsRead(g)).action) <= Rank(ruling.synthesis.action)
      [] ruling.kind = "boardroom" -> \A g \in WorseFacts(f) :
             Rank(Boardroom(g).vote) <= Rank(ruling.summary.vote)
      [] ruling.kind = "audit" -> \A g \in WorseFacts(f) :
             /\ Approval(Verdict(g)) <= Approval(ruling.verdict)
             /\ ruling.mitigated => RedSeverity(g) >= 60
      [] OTHER -> TRUE

\* What a panel answers holds together.
RulingsHoldTogether == CommitteeIsSound /\ WorseIsNotBetter
=============================================================================
