----------------------------- MODULE WebClient -----------------------------
(***************************************************************************)
(* The two live channels of the web client: the insight stream (ws) and    *)
(* the account channel (accountWs), with their reconnects.  JavaScript     *)
(* runs one callback at a time, so an action is a callback; the browser    *)
(* reports the end of a socket later, also of one the page closed itself.  *)
(***************************************************************************)
EXTENDS Naturals, FiniteSets

CONSTANTS
  Streams,        \* sockets of the insight stream, reused once they are gone
  Links,          \* sockets of the account channel
  Timers,         \* handles of setTimeout for either channel
  WS_MAX_RETRIES,
  Null

ASSUME ClientAssumption ==
  /\ WS_MAX_RETRIES \in Nat
  /\ Null \notin Streams \union Links \union Timers
  /\ Streams \intersect Links = {}

VARIABLES
  web,      \* the objects ws and accountWs, the browser's sockets and timers
  page,     \* the view: "auth" or "deck"
  leaving,  \* a logout waits for the server
  late      \* a socket that had been replaced reported its end to its successor

webVars == <<web, page, leaving, late>>

Channels == [
  sock : Streams \union {Null}, timer : Timers \union {Null}, retries : 0..WS_MAX_RETRIES,
  manualClose : BOOLEAN, gotFrame : BOOLEAN, stopped : BOOLEAN, symbol : BOOLEAN,
  label : {"idle", "connecting", "live", "retrying", "down", "rejected"},
  link : Links \union {Null}, linkTimer : Timers \union {Null}, closed : BOOLEAN,
  linkLabel : {"idle", "live", "retrying"},
  conn : [Streams \union Links -> {"free", "dialing", "open", "closing"}],
  armed : SUBSET Timers, linkArmed : SUBSET Timers]

IdleTimers == Timers \ (web.armed \union web.linkArmed \union {web.timer, web.linkTimer})

\* close() is a request: onclose comes later.
Closing(conn, S) ==
  [s \in DOMAIN conn |-> IF s \in S /\ conn[s] # "free" THEN "closing" ELSE conn[s]]
-----------------------------------------------------------------------------
(* The functions of the client, from one state of its objects to the next. *)

\* A plausible bug: a reconnect that is due is forgotten about.
TeardownKeepsTimer(c) ==
  [c EXCEPT !.manualClose = TRUE, !.timer = Null, !.sock = Null, !.retries = 0,
            !.closed = TRUE, !.link = Null, !.linkArmed = @ \ {c.linkTimer},
            !.conn = Closing(@, {c.sock, c.link})]

\* wsTeardown: both channels, whoever calls; the account timer keeps its handle.
Teardown(c) ==
  [c EXCEPT !.manualClose = TRUE, !.timer = Null, !.sock = Null, !.retries = 0,
            !.armed = @ \ {c.timer},
            !.closed = TRUE, !.link = Null, !.linkArmed = @ \ {c.linkTimer},
            !.conn = Closing(@, {c.sock, c.link})]

\* wsScheduleRetry, with the handle t of its timer.
ScheduleRetry(c, t) ==
  IF c.retries >= WS_MAX_RETRIES
    THEN [c EXCEPT !.label = "down"]
    ELSE [c EXCEPT !.retries = @ + 1, !.timer = t, !.armed = @ \union {t}, !.label = "retrying"]

\* wsConnect dials the socket s, or the constructor throws and a retry is scheduled.
Fresh(c) == [c EXCEPT !.manualClose = FALSE, !.gotFrame = FALSE, !.label = "connecting"]
WsConnect(c) ==
  {[Fresh(c) EXCEPT !.sock = s, !.conn[s] = "dialing"] : s \in {s \in Streams : c.conn[s] = "free"}}
    \union {ScheduleRetry(Fresh(c), t) : t \in IdleTimers}

\* The onclose handler of a stream.
StreamOnClose(c, s, code, t) ==
  LET gone == [c EXCEPT !.conn[s] = "free", !.sock = Null] IN
  IF c.manualClose THEN [gone EXCEPT !.label = "idle"]
  ELSE IF code = 1008 THEN [gone EXCEPT !.stopped = TRUE, !.label = "rejected"]
  ELSE IF code = 1000 /\ c.gotFrame THEN [gone EXCEPT !.stopped = TRUE, !.label = "idle"]
  ELSE ScheduleRetry(gone, t)

\* scheduleAccountReconnect does nothing while it holds a handle.
ScheduleLink(c, t) ==
  IF c.closed \/ c.linkTimer # Null THEN c
  ELSE [c EXCEPT !.linkTimer = t, !.linkArmed = @ \union {t}, !.linkLabel = "retrying"]

\* connectAccountSocket.
ConnectLink(c) ==
  LET wanted == [c EXCEPT !.closed = FALSE] IN
  IF c.link # Null THEN {wanted}
  ELSE {[wanted EXCEPT !.link = s, !.conn[s] = "dialing"] :
          s \in {s \in Links : c.conn[s] = "free"}}
       \union {ScheduleLink(wanted, t) : t \in IdleTimers}
-----------------------------------------------------------------------------
(* The callbacks.                                                          *)

ShowDeck == page' = "deck" /\ web' \in ConnectLink(web)
ShowAuth == page' = "auth" /\ web' = Teardown(web)

SignIn ==
  /\ page = "auth"
  /\ ShowDeck
  /\ UNCHANGED <<leaving, late>>

\* Any request of the deck may find that the session has ended.
SessionEnds ==
  /\ page = "deck"
  /\ ShowAuth
  /\ UNCHANGED <<leaving, late>>

\* Logout closes both channels, waits for the server, and only then leaves the deck.
Logout ==
  /\ page = "deck" /\ ~leaving
  /\ web' = Teardown(web)
  /\ leaving' = TRUE
  /\ UNCHANGED <<page, late>>
LogoutEnds ==
  /\ leaving
  /\ leaving' = FALSE
  /\ ShowAuth
  /\ UNCHANGED late

\* streamInsight: the form, or Reconnect once the retries are spent.
StreamInsight ==
  /\ page = "deck"
  /\ web' \in WsConnect([Teardown(web) EXCEPT !.symbol = TRUE, !.stopped = FALSE])
  /\ UNCHANGED <<page, leaving, late>>

\* "Retry now" cancels the timer and keeps its handle.
RetryNow ==
  /\ page = "deck" /\ web.label = "retrying"
  /\ web' \in WsConnect([web EXCEPT !.armed = @ \ {web.timer}])
  /\ UNCHANGED <<page, leaving, late>>

RetryFires(t) ==
  /\ t \in web.armed
  /\ web' \in WsConnect([web EXCEPT !.armed = @ \ {t}, !.timer = Null])
  /\ UNCHANGED <<page, leaving, late>>

Down == web.symbol /\ web.sock = Null /\ ~web.manualClose /\ ~web.stopped

\* The tab is shown again.
Visible ==
  /\ Down /\ web.timer = Null
  /\ web' \in WsConnect([web EXCEPT !.retries = 0])
  /\ UNCHANGED <<page, leaving, late>>

\* A plausible bug: the pending reconnect is left to fire as well.
NetworkBackKeepsTimer ==
  /\ Down
  /\ web' \in WsConnect([web EXCEPT !.retries = 0])
  /\ UNCHANGED <<page, leaving, late>>

\* The network is back.
NetworkBack ==
  /\ Down
  /\ web' \in WsConnect([web EXCEPT !.retries = 0, !.armed = @ \ {web.timer}, !.timer = Null])
  /\ UNCHANGED <<page, leaving, late>>

StreamOpens(s) ==
  /\ web.conn[s] = "dialing"
  /\ web' = [web EXCEPT !.conn[s] = "open", !.retries = 0, !.label = "live"]
  /\ UNCHANGED <<page, leaving, late>>

StreamFrame(s) ==
  /\ web.conn[s] = "open"
  /\ web' = [web EXCEPT !.gotFrame = TRUE]
  /\ UNCHANGED <<page, leaving, late>>

\* 1006 is a lost connection or a refused handshake, 1005 the answer to close().
StreamCloses(s) ==
  /\ web.conn[s] # "free"
  /\ \E code \in CASE web.conn[s] = "closing" -> {1005}
                   [] web.conn[s] = "dialing" -> {1006}
                   [] OTHER -> {1000, 1006, 1008, 1011} :
       \E t \in IdleTimers : web' = StreamOnClose(web, s, code, t)
  /\ late' = (late \/ (web.sock # s /\ ~web.manualClose))
  /\ UNCHANGED <<page, leaving>>

LinkOpens(s) ==
  /\ web.conn[s] = "dialing"
  /\ web' = [web EXCEPT !.conn[s] = "open", !.linkLabel = "live"]
  /\ UNCHANGED <<page, leaving, late>>

LinkCloses(s) ==
  /\ web.conn[s] # "free"
  /\ \E t \in IdleTimers :
       web' = ScheduleLink([web EXCEPT !.conn[s] = "free", !.link = Null], t)
  /\ late' = (late \/ (web.link # s /\ ~web.closed))
  /\ UNCHANGED <<page, leaving>>

LinkRetryFires(t) ==
  /\ t \in web.linkArmed
  /\ web' \in ConnectLink([web EXCEPT !.linkArmed = @ \ {t}, !.linkTimer = Null])
  /\ UNCHANGED <<page, leaving, late>>

\* The last line of the script: a stored token opens the deck.
WebInit ==
  LET empty == [
        sock |-> Null, timer |-> Null, retries |-> 0, manualClose |-> FALSE,
        gotFrame |-> FALSE, stopped |-> FALSE, symbol |-> FALSE, label |-> "idle",
        link |-> Null, linkTimer |-> Null, closed |-> FALSE, linkLabel |-> "idle",
        conn |-> [s \in Streams \union Links |-> "free"], armed |-> {}, linkArmed |-> {}] IN
  /\ leaving = FALSE /\ late = FALSE
  /\ \/ page = "auth" /\ web = Teardown(empty)
     \/ page = "deck" /\ \E s \in Links : web = [empty EXCEPT !.link = s, !.conn[s] = "dialing"]

WebNext ==
  \/ SignIn \/ SessionEnds \/ Logout \/ LogoutEnds
  \/ StreamInsight \/ RetryNow \/ Visible \/ NetworkBack
  \/ \E s \in Streams : StreamOpens(s) \/ StreamFrame(s) \/ StreamCloses(s)
  \/ \E s \in Links : LinkOpens(s) \/ LinkCloses(s)
  \/ \E t \in Timers : RetryFires(t) \/ LinkRetryFires(t)

WebSpec == WebInit /\ [][WebNext]_webVars
-----------------------------------------------------------------------------
(* Properties.                                                             *)

WebTypeOK ==
  /\ web \in Channels
  /\ page \in {"auth", "deck"}
  /\ leaving \in BOOLEAN /\ late \in BOOLEAN

Wanted(S) == {s \in S : web.conn[s] \in {"dialing", "open"}}

\* Unless a late onclose has hit the successor of its socket, each channel has at
\* most one socket or one pending reconnect, and knows it: no stream is paid for
\* twice and none survives its channel.
OneChannelEach ==
  ~late =>
    /\ Wanted(Streams) = {web.sock} \ {Null}
    /\ Wanted(Links) = {web.link} \ {Null}
    /\ Cardinality(Wanted(Streams)) + Cardinality(web.armed) <= 1
    /\ Cardinality(Wanted(Links)) + Cardinality(web.linkArmed) <= 1

\* Signed out, nothing is connected and nothing will connect by itself.
SignedOutIsSilent ==
  page = "auth" /\ ~late =>
    /\ Wanted(Streams \union Links) = {}
    /\ web.armed \union web.linkArmed = {}
    /\ ~Down

\* "a silently dead socket looks identical to a quiet market": on the deck the
\* account channel has a socket, or a reconnect is pending.
AccountChannelNotSilentlyDead ==
  page = "deck" /\ ~leaving => web.link # Null \/ web.linkArmed # {}
=============================================================================
