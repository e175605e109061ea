---------------------------- MODULE MarketSignal ----------------------------
(***************************************************************************)
(* How an AI signal comes about: the price history through two caches and  *)
(* two providers, the news events that may forbid a trade, and the model   *)
(* behind its circuit breaker.  Requests of several workers interleave at  *)
(* every await; a worker has its own memory cache and its own breaker.     *)
(*                                                                         *)
(* The value of a history is the moment it was observed.  A news item is   *)
(* the number of words of each list of event_intelligence it contains.     *)
(***************************************************************************)
EXTENDS Integers, Sequences, FiniteSets, SequencesExt

CONSTANTS
  Servers, Asks,    \* workers; requests that can be under way at once
  Ttl,              \* of a cached history
  FetchTime,        \* bound: what one get_history takes, its retries included
  Attempts,         \* attempts per provider, in the order they are tried
  FeedItems,        \* the items of each feed, in the order the feeds are read
  FeedLimit,        \* `limit` of fetch_raw
  Threshold, Recovery,            \* of the breaker
  LastMoment, MaxAsks, MaxCuts,   \* bounds: moments, requests, outages of Redis
  Free

ASSUME MarketAssumption ==
  /\ Ttl \in Nat \ {0} /\ FetchTime \in Nat /\ Attempts \in Seq(Nat \ {0})
  /\ FeedLimit \in Nat /\ Threshold \in Nat \ {0} /\ Recovery \in Nat
  /\ LastMoment \in Nat /\ MaxAsks \in Nat /\ MaxCuts \in Nat /\ IsFiniteSet(Asks)

VARIABLES
  moment,
  shared,    \* the cached history in Redis, [seen, until] or Free
  local,     \* the same in the memory of each worker
  sharedUp, cuts,
  breaker,   \* of each worker
  ask,       \* what each request has found so far
  asked

signalVars == <<moment, shared, local, sharedUp, cuts, breaker, ask, asked>>
-----------------------------------------------------------------------------
(* Events.                                                                 *)

Base == [legal |-> 6, macro |-> 6, tech |-> 4, exec |-> 3]
Categories == <<"legal", "macro", "tech", "exec">>

\* classify_text: the list with most words, the first of equals; none is noise, and
\* so is a clickbait item without any of the words.
Category(item) ==
  LET best == CHOOSE i \in 1..4 : \A j \in 1..4 :
                \/ item[Categories[i]] > item[Categories[j]]
                \/ item[Categories[i]] = item[Categories[j]] /\ i <= j IN
  IF item[Categories[best]] = 0 THEN "noise" ELSE Categories[best]

\* score_event.
Severity(item) ==
  LET raised == Base[Category(item)] + (IF item.urgent > 0 THEN 2 ELSE 0)
                                     + (IF item.vol > 0 THEN 1 ELSE 0) IN
  IF raised > 10 THEN 10 ELSE raised
Orientation(item) ==
  IF item.vol > 0 /\ Category(item) \in {"macro", "legal"} THEN "HIGH_VOLATILITY"
  ELSE IF item.bearish > item.bullish THEN "BEARISH"
  ELSE IF item.bullish > 0 THEN "BULLISH" ELSE "NEUTRAL"

\* _to_event.
Blocking(item) ==
  /\ Category(item) \in {"legal", "macro"}
  /\ Severity(item) >= 8
  /\ Orientation(item) \in {"BEARISH", "HIGH_VOLATILITY"}

\* fetch_raw: the feeds that answer, one after another, up to the limit.
FetchRaw(answering) ==
  LET all == FoldLeft(LAMBDA items, i : items \o (IF i \in answering THEN FeedItems[i] ELSE <<>>),
                      <<>>, [i \in DOMAIN FeedItems |-> i]) IN
  SubSeq(all, 1, IF Len(all) < FeedLimit THEN Len(all) ELSE FeedLimit)

\* process_batch and ai_context: the events of all that were read, noise dropped, that
\* block; the directive names the first of them by severity.
Directive(raw) == {i \in DOMAIN raw : Category(raw[i]) # "noise" /\ Blocking(raw[i])}
-----------------------------------------------------------------------------
(* The caches.                                                             *)

Entry(seen) == [seen |-> seen, until |-> moment + Ttl]
Hit(entry) == entry # Free /\ entry.until >= moment

\* A plausible bug: a hit renews the time to live.
RenewedOnHit(entry) == [entry EXCEPT !.until = moment + Ttl]

\* What a hit leaves in the cache.
AfterHit(entry) == entry

Fetching(h, target) ==
  [host |-> h, step |-> "fetch", target |-> target, provider |-> 1, attempt |-> 1, since |-> moment, seen |-> Free]
Found(h, seen) ==
  [host |-> h, step |-> "events", seen |-> seen, at |-> moment, events |-> Free, action |-> Free]

\* What is kept of a request that is over: the rest matters only to a trade.
Done(q, action) ==
  IF action \in {"BUY", "SELL"} THEN [q EXCEPT !.step = "done", !.action = action]
  ELSE [step |-> "done", action |-> action]

\* InMemoryTTLCache.get_or_set, up to its factory.
LookLocally(k, h) ==
  IF Hit(local[h])
    THEN /\ ask' = [ask EXCEPT ![k] = Found(h, local[h].seen)]
         /\ local' = [local EXCEPT ![h] = AfterHit(@)]
    ELSE /\ ask' = [ask EXCEPT ![k] = Fetching(h, "local")]
         /\ UNCHANGED local

\* get_signal begins with get_or_set of the Redis cache, which falls back to memory.
AskSignal(k, h) ==
  /\ ask[k] # Free => ask[k].step = "done"
  /\ asked < MaxAsks
  /\ asked' = asked + 1
  /\ IF ~sharedUp THEN LookLocally(k, h) /\ UNCHANGED shared
     ELSE /\ IF Hit(shared)
               THEN /\ ask' = [ask EXCEPT ![k] = Found(h, shared.seen)]
                    /\ shared' = AfterHit(shared)
               ELSE /\ ask' = [ask EXCEPT ![k] = Fetching(h, "shared")]
                    /\ UNCHANGED shared
          /\ UNCHANGED local
  /\ UNCHANGED <<moment, sharedUp, cuts, breaker>>

Asking(k, step) == ask[k] # Free /\ ask[k].step = step

\* One attempt at one provider: an answer, an HTTP error, which is retried, or no
\* data, which is not; then the next provider, and with the last one the request fails.
Attempt(k, outcome) ==
  /\ Asking(k, "fetch")
  /\ LET q == ask[k]
         retried == outcome = "http" /\ q.attempt < Attempts[q.provider] IN
     /\ ask' = [ask EXCEPT ![k] =
          IF outcome = "ok" THEN [q EXCEPT !.step = "store", !.seen = moment]
          ELSE IF retried THEN [q EXCEPT !.attempt = @ + 1]
          ELSE IF q.provider < Len(Attempts) THEN [q EXCEPT !.provider = @ + 1, !.attempt = 1]
          ELSE Done(q, "error")]
  /\ UNCHANGED <<moment, shared, local, sharedUp, cuts, breaker, asked>>

\* The value is stored; when Redis has failed by now the memory is asked, and without
\* a hit there everything is fetched again.
Store(k) ==
  /\ Asking(k, "store")
  /\ LET q == ask[k] IN
     CASE q.target = "local" ->
            /\ local' = [local EXCEPT ![q.host] = Entry(q.seen)]
            /\ ask' = [ask EXCEPT ![k] = Found(q.host, q.seen)]
            /\ UNCHANGED shared
       [] q.target = "shared" /\ sharedUp ->
            /\ shared' = Entry(q.seen)
            /\ ask' = [ask EXCEPT ![k] = Found(q.host, q.seen)]
            /\ UNCHANGED local
       [] OTHER -> LookLocally(k, q.host) /\ UNCHANGED shared
  /\ UNCHANGED <<moment, sharedUp, cuts, breaker, asked>>
-----------------------------------------------------------------------------
(* Events, the breaker and the model.                                      *)

\* A directive ends the request with HOLD before any call of the model.
ReadEvents(k, answering) ==
  /\ Asking(k, "events")
  /\ LET q == [ask[k] EXCEPT !.events = answering] IN
     ask' = [ask EXCEPT ![k] = IF Directive(FetchRaw(answering)) # {} THEN Done(q, "HOLD") ELSE [q EXCEPT !.step = "model"]]
  /\ UNCHANGED <<moment, shared, local, sharedUp, cuts, breaker, asked>>

\* state: an open breaker is half open once its time is over.
Settled(b) ==
  IF b.state = "open" /\ moment - b.opened >= Recovery THEN [b EXCEPT !.state = "half_open"] ELSE b

\* allow, for every caller of a half open breaker; a refused one degrades to HOLD.
CallModel(k) ==
  /\ Asking(k, "model")
  /\ LET b == Settled(breaker[ask[k].host]) IN
     /\ breaker' = [breaker EXCEPT ![ask[k].host] = b]
     /\ ask' = [ask EXCEPT ![k] = IF b.state = "open" THEN Done(@, "degraded") ELSE [@ EXCEPT !.step = "called"]]
  /\ UNCHANGED <<moment, shared, local, sharedUp, cuts, asked>>

\* record_success, whatever the breaker has become since the call began.
Succeeded(b) == [b EXCEPT !.failures = 0, !.state = "closed"]

\* record_failure.
Failed(b) ==
  LET trips == b.failures + 1 >= Threshold /\ b.state # "open" IN
  [state |-> IF trips THEN "open" ELSE b.state, failures |-> b.failures + 1,
   opened |-> IF trips THEN moment ELSE b.opened]

\* The model fails, or answers; an answer that does not validate is no signal.
ModelAnswers(k, answer) ==
  /\ Asking(k, "called")
  /\ breaker' = [breaker EXCEPT ![ask[k].host] = IF answer = "failure" THEN Failed(@) ELSE Succeeded(@)]
  /\ ask' = [ask EXCEPT ![k] = Done(@, IF answer \in {"failure", "invalid"} THEN "degraded" ELSE answer)]
  /\ UNCHANGED <<moment, shared, local, sharedUp, cuts, asked>>
-----------------------------------------------------------------------------
(* The environment.                                                        *)

\* No get_history takes longer than FetchTime.
NextMoment ==
  /\ moment < LastMoment
  /\ \A k \in Asks : Asking(k, "fetch") \/ Asking(k, "store") => moment < ask[k].since + FetchTime
  /\ moment' = moment + 1
  /\ UNCHANGED <<shared, local, sharedUp, cuts, breaker, ask, asked>>

CutOrRestore ==
  /\ IF sharedUp THEN cuts < MaxCuts /\ cuts' = cuts + 1 ELSE UNCHANGED cuts
  /\ sharedUp' = ~sharedUp
  /\ UNCHANGED <<moment, shared, local, breaker, ask, asked>>

MarketInit ==
  /\ moment = 0 /\ shared = Free /\ local = [h \in Servers |-> Free]
  /\ sharedUp = TRUE /\ cuts = 0
  /\ breaker = [h \in Servers |-> [state |-> "closed", failures |-> 0, opened |-> 0]]
  /\ ask = [k \in Asks |-> Free] /\ asked = 0

MarketNext ==
  \/ NextMoment \/ CutOrRestore
  \/ \E k \in Asks :
       \/ \E h \in Servers : AskSignal(k, h)
       \/ \E outcome \in {"ok", "http", "nodata"} : Attempt(k, outcome)
       \/ Store(k)
       \/ \E answering \in SUBSET DOMAIN FeedItems : ReadEvents(k, answering)
       \/ CallModel(k)
       \/ \E answer \in {"BUY", "invalid", "failure"} : ModelAnswers(k, answer)

MarketSpec == MarketInit /\ [][MarketNext]_signalVars
-----------------------------------------------------------------------------
(* Properties.                                                             *)

MarketTypeOK ==
  /\ moment \in 0..LastMoment /\ asked \in 0..MaxAsks /\ cuts \in 0..MaxCuts
  /\ \A entry \in {shared} \union {local[h] : h \in Servers} :
       entry = Free \/ entry.seen \in 0..LastMoment
  /\ \A k \in Asks : ask[k] = Free \/ ask[k].step \in {"fetch", "store", "events", "model", "called", "done"}
  /\ \A h \in Servers : breaker[h].state \in {"closed", "open", "half_open"} /\ breaker[h].failures \in 0..MaxAsks

\* A signal to buy or sell rests on a history that was observed at most a time to live
\* and a fetch before it was used, through whatever caches it came, and no item read
\* from the feeds that answered, as far as the limit goes, forbids the trade.
SignalIsGrounded ==
  \A k \in Asks : Asking(k, "done") /\ ask[k].action \in {"BUY", "SELL"} =>
    /\ ask[k].at - ask[k].seen <= Ttl + FetchTime
    /\ \A i \in DOMAIN FetchRaw(ask[k].events) : ~Blocking(FetchRaw(ask[k].events)[i])
=============================================================================
