------------------------------ MODULE Sessions ------------------------------
(***************************************************************************)
(* Access and refresh tokens of one user and their revocation.  Workers    *)
(* share the blocklist of Redis and each has one of its own in memory,     *)
(* used only while Redis fails.  A handler awaits the blocklist, so        *)
(* refreshes and logouts interleave.                                       *)
(*                                                                         *)
(* A token is a number; time counts in ticks, Second ticks to the second,  *)
(* as a lifetime in the blocklist is whole seconds and expiry is not.      *)
(***************************************************************************)
EXTENDS Integers, FiniteSets

CONSTANTS
  Hosts,        \* workers
  Tasks,        \* handlers that can be under way at once
  AccessTtl, RefreshTtl, Second,
  MaxLogins, MaxTokens, MaxCalls, LastTick, MaxOutages,  \* bounds
  Empty

ASSUME SessionAssumption ==
  /\ AccessTtl \in Nat /\ RefreshTtl \in Nat /\ Second \in Nat \ {0}
  /\ MaxTokens \in Nat /\ LastTick \in Nat /\ MaxCalls \in Nat /\ MaxOutages \in Nat
  /\ Empty \notin 1..MaxTokens /\ "redis" \notin Hosts

Ids == 1..MaxTokens

VARIABLES
  registered,   \* the user has an account
  tokens,       \* what was issued: type, expiry and the refresh token it came from
  redis,        \* blocklist of Redis: jti -> end of the block
  memory,       \* the same in the memory of each worker
  redisUp, outages,
  tick,
  task,         \* what each handler is about to do
  ended,        \* history: <<token, where>> of every revocation that was answered, while the token lives
  together,     \* history: refresh tokens exchanged by two handlers at once
  calls         \* refreshes and logouts that began

sessionVars ==
  <<registered, tokens, redis, memory, redisUp, outages, tick, task, ended, together, calls>>
-----------------------------------------------------------------------------
(* Tokens and the blocklist.                                               *)

Issued == DOMAIN tokens
Valid(t, type) == t \in Issued /\ tokens[t].type = type /\ tick < tokens[t].expires

\* A plausible bug: the block lasts as long as an access token does.
RemainingTtlOfAccess(t) == AccessTtl

\* remaining_ttl_seconds, whole seconds, back in ticks.
RemainingTtl(t) ==
  IF tokens[t].expires > tick THEN ((tokens[t].expires - tick) \div Second) * Second ELSE 0

Blocked(list, t) == list[t] > 0 /\ list[t] >= tick

\* RedisTokenStore.is_blocked as worker h sees it: fail-open to its own memory.
IsBlocked(h, t) == IF redisUp THEN Blocked(redis, t) ELSE Blocked(memory[h], t)

\* RedisTokenStore.block; Redis keeps at least a second, memory may keep nothing.
Block(h, t) ==
  LET ttl == RemainingTtl(t) IN
  IF redisUp
    THEN /\ redis' = [redis EXCEPT ![t] = tick + (IF ttl < Second THEN Second ELSE ttl)]
         /\ UNCHANGED memory
    ELSE /\ memory' = [memory EXCEPT ![h][t] = tick + ttl]
         /\ UNCHANGED redis

Place(h) == IF redisUp THEN "redis" ELSE h

\* _create_token: exp is this moment and the lifetime of the type.
NewToken(type, lifetime, parent) == [type |-> type, expires |-> tick + lifetime, parent |-> parent]

\* issue_tokens: an access and a refresh token.
Issue(parent) ==
  LET n == Cardinality(Issued) IN
  /\ n + 2 <= MaxTokens
  /\ tokens' = [t \in Issued \union {n + 1, n + 2} |->
                  IF t \in Issued THEN tokens[t]
                  ELSE IF t = n + 1 THEN NewToken("access", AccessTtl, parent)
                  ELSE NewToken("refresh", RefreshTtl, parent)]
-----------------------------------------------------------------------------
(* Handlers.                                                               *)

\* register: an email that is taken ends with 409.
Register ==
  /\ ~registered
  /\ registered' = TRUE
  /\ UNCHANGED <<tokens, redis, memory, redisUp, outages, tick, task, ended, together, calls>>

\* login, with the right password.
Login ==
  /\ registered /\ Cardinality(Issued) < 2 * MaxLogins
  /\ Issue(Empty)
  /\ UNCHANGED <<registered, redis, memory, redisUp, outages, tick, task, ended, together, calls>>

Idle(k) == task[k] = Empty

\* get_current_user accepts the access token.
Accepted(h, t) == Valid(t, "access") /\ ~IsBlocked(h, t)

\* refresh up to the await of is_blocked; anything else ends with 401.
RefreshChecked(k, h, t) ==
  /\ Idle(k) /\ calls < MaxCalls /\ Valid(t, "refresh") /\ ~IsBlocked(h, t)
  /\ task' = [task EXCEPT ![k] = [step |-> "rotate", host |-> h, token |-> t, also |-> {}]]
  /\ together' = IF \E l \in Tasks : task[l] # Empty /\ task[l].step = "rotate" /\ task[l].token = t
                   THEN together \union {t} ELSE together
  /\ calls' = calls + 1
  /\ UNCHANGED <<registered, tokens, redis, memory, redisUp, outages, tick, ended>>

\* Rotation: the presented token is blocked, then a pair is issued.  The answer may
\* still be lost; then the client keeps a token that is spent.
Rotate(k) ==
  /\ ~Idle(k) /\ task[k].step = "rotate"
  /\ Block(task[k].host, task[k].token)
  /\ Issue(task[k].token)
  /\ ended' = ended \union {<<task[k].token, Place(task[k].host)>>}
  /\ task' = [task EXCEPT ![k] = Empty]
  /\ UNCHANGED <<registered, redisUp, outages, tick, together, calls>>

\* logout with a valid access token, and the refresh token of its pair, if the client
\* sends one; without a valid access token it ends with 401 and revokes nothing.
LogoutBegin(k, h, t, refresh) ==
  /\ Idle(k) /\ calls < MaxCalls /\ Accepted(h, t)
  /\ task' = [task EXCEPT ![k] = [step |-> "logout", host |-> h, token |-> t,
                                  also |-> {r \in {refresh} : r # Empty /\ Valid(r, "refresh")}]]
  /\ calls' = calls + 1
  /\ UNCHANGED <<registered, tokens, redis, memory, redisUp, outages, tick, ended, together>>

\* The access token is blocked first, the refresh token after another await.
LogoutBlock(k) ==
  /\ ~Idle(k) /\ task[k].step = "logout"
  /\ Block(task[k].host, task[k].token)
  /\ ended' = ended \union {<<task[k].token, Place(task[k].host)>>}
  /\ task' = [task EXCEPT ![k] = IF @.also = {} THEN Empty
                ELSE [@ EXCEPT !.token = CHOOSE r \in task[k].also : TRUE, !.also = {}]]
  /\ UNCHANGED <<registered, tokens, redisUp, outages, tick, together, calls>>

Drop(k) ==
  /\ ~Idle(k)
  /\ task' = [task EXCEPT ![k] = Empty]
  /\ UNCHANGED <<registered, tokens, redis, memory, redisUp, outages, tick, ended, together, calls>>
-----------------------------------------------------------------------------
(* The environment.                                                        *)

RedisFails ==
  /\ redisUp /\ outages < MaxOutages
  /\ redisUp' = FALSE /\ outages' = outages + 1
  /\ UNCHANGED <<registered, tokens, redis, memory, tick, task, ended, together, calls>>

RedisReturns ==
  /\ ~redisUp
  /\ redisUp' = TRUE
  /\ UNCHANGED <<registered, tokens, redis, memory, outages, tick, task, ended, together, calls>>

\* Blocks that are over are forgotten, and so is what is expired.
TimePasses ==
  /\ tick < LastTick
  /\ tick' = tick + 1
  /\ LET Live(list) == [t \in Ids |-> IF list[t] > tick THEN list[t] ELSE 0] IN
     /\ redis' = Live(redis)
     /\ memory' = [h \in Hosts |-> Live(memory[h])]
  /\ ended' = {entry \in ended : tokens[entry[1]].expires > tick + 1}
  /\ UNCHANGED <<registered, tokens, redisUp, outages, task, together, calls>>
-----------------------------------------------------------------------------
SessionInit ==
  /\ registered = FALSE /\ tokens = [t \in {} |-> Empty]
  /\ redis = [t \in Ids |-> 0] /\ memory = [h \in Hosts |-> [t \in Ids |-> 0]]
  /\ redisUp = TRUE /\ outages = 0 /\ tick = 0
  /\ task = [k \in Tasks |-> Empty]
  /\ ended = {} /\ together = {} /\ calls = 0

SessionNext ==
  \/ Register \/ Login \/ RedisFails \/ RedisReturns \/ TimePasses
  \/ \E k \in Tasks :
       \/ \E h \in Hosts, t \in Issued :
            \/ RefreshChecked(k, h, t)
            \/ \E refresh \in {t + 1, Empty} : LogoutBegin(k, h, t, refresh)
       \/ Rotate(k) \/ LogoutBlock(k) \/ Drop(k)

SessionSpec == SessionInit /\ [][SessionNext]_sessionVars
-----------------------------------------------------------------------------
(* Properties.                                                             *)

SessionTypeOK ==
  /\ registered \in BOOLEAN /\ redisUp \in BOOLEAN /\ tick \in 0..LastTick /\ outages \in 0..MaxOutages /\ calls \in 0..MaxCalls
  /\ Issued \subseteq Ids /\ ended \subseteq Issued \X (Hosts \union {"redis"}) /\ together \subseteq Issued
  /\ \A t \in Issued : tokens[t].type \in {"access", "refresh"} /\ tokens[t].parent \in Issued \union {Empty}
  /\ \A t \in Ids : redis[t] \in Nat /\ \A h \in Hosts : memory[h][t] \in Nat
  /\ \A k \in Tasks : task[k] = Empty \/ task[k].token \in Issued

\* The refresh tokens that t was exchanged for, before its last second.
Successors(t) ==
  {u \in Issued : /\ tokens[u].parent = t /\ tokens[u].type = "refresh"
                  /\ tokens[u].expires - RefreshTtl + Second <= tokens[t].expires}

\* A token whose refresh or logout was answered is refused until its last second: by
\* every worker whenever Redis answers, when Redis took the revocation, and by the
\* worker that took it in its memory whenever Redis fails.
RevokedIsRefused ==
  \A entry \in ended, h \in Hosts :
    LET t == entry[1] IN
    /\ tick + Second <= tokens[t].expires
    /\ IF redisUp THEN entry[2] = "redis" ELSE entry[2] = h
    => IsBlocked(h, t)

\* As long as Redis has not failed, a refresh token is exchanged for one pair before
\* its last second, unless two exchanges of it were under way at once.
ExchangedOnce == outages = 0 => \A t \in Issued \ together : Cardinality(Successors(t)) <= 1

\* Revoked tokens are refused, and a refresh token is spent by its exchange.
SpentTokensStaySpent == RevokedIsRefused /\ ExchangedOnce
=============================================================================
