------------------------ MODULE ReconciliationProofs ------------------------
(***************************************************************************)
(* Theorems about Reconciliation, for every set of orders and sessions.    *)
(*                                                                         *)
(* The invariants of the model are not inductive by themselves: what a     *)
(* commit will do depends on what the session holds.  IInv says what an    *)
(* open session may hold.  The last part proves, for a single booking      *)
(* session, that Reconciliation implements Settlement.                     *)
(***************************************************************************)
EXTENDS Reconciliation, TLAPS

\* The venue knows every order with a row or about to get one, and a message
\* about the end of an order still tells the truth, because an end is final.
VenueInv ==
  /\ \A o \in Orders : venue[o].status = "none" => o \notin rows
  /\ \A m \in inbox : IsTerminal(m.status) =>
       venue[m.order] = [status |-> m.status, filled |-> m.filled]
  /\ \A o \in Orders : venue[o].status = "filled" => venue[o].filled = Qty

\* What is committed: SettledOnlyWhenClosed and BookedIsFinalFill, and that
\* an order without a row has left no trace.
DbInv ==
  \A o \in Orders :
    /\ o \notin rows => ~db[o].reconciled /\ ledger[o] = <<>>
    /\ db[o].reconciled =>
         /\ IsTerminal(venue[o].status)
         /\ venue[o].status = "filled" => ledger[o] # <<>>
    /\ ledger[o] # <<>> =>
         /\ db[o].reconciled
         /\ venue[o].status = "filled"
         /\ \A i \in 1..Len(ledger[o]) : ledger[o][i] = venue[o].filled

\* What session a holds of order o.
HeldInv(a, o) ==
  /\ o \in todo[a] => o \in rows
  /\ o \in todo[a] => pend[a][o] = 0
  /\ o \in todo[a] => view[a][o].reconciled = loaded[a][o].reconciled
  /\ o \notin rows => ~view[a][o].reconciled
  /\ loaded[a][o].reconciled => db[o].reconciled
  /\ loaded[a][o].reconciled => view[a][o].reconciled
  /\ view[a][o].reconciled /\ ~loaded[a][o].reconciled =>
       /\ IsTerminal(venue[o].status)
       /\ venue[o].status = "filled" => pend[a][o] > 0
  /\ pend[a][o] > 0 =>
       /\ view[a][o].reconciled
       /\ ~loaded[a][o].reconciled
       /\ venue[o].status = "filled"
       /\ pend[a][o] = venue[o].filled
  /\ o \in fresh[a] => o \notin rows /\ venue[o].status # "none"
  /\ pc[a] = "idle" =>
       /\ pend[a][o] = 0
       /\ o \notin fresh[a]
       /\ o \notin todo[a]
       /\ view[a][o].reconciled = loaded[a][o].reconciled

SessionInv == \A a \in Sessions, o \in Orders : HeldInv(a, o)

\* No row is inserted twice.
FreshInv ==
  \A a, b \in Sessions, o \in Orders :
    o \in fresh[a] /\ o \in fresh[b] => a = b

IInv == TypeOK /\ VenueInv /\ DbInv /\ SessionInv /\ FreshInv
-----------------------------------------------------------------------------
(* What every step does to the venue and to the sessions that do not take  *)
(* it.  The proof of each action shows these and the acting session.       *)

\* Ends are final, orders are never forgotten, new messages are true.
WorldStep ==
  /\ venue' \in [Orders -> VenueState]
  /\ inbox' \subseteq Message
  /\ \A o \in Orders :
       /\ IsTerminal(venue[o].status) => venue'[o] = venue[o]
       /\ venue'[o].status = "none" => venue[o].status = "none"
       /\ venue'[o].status = "filled" => venue'[o].filled = Qty
  /\ \A m \in inbox' \ inbox : IsTerminal(m.status) =>
       venue'[m.order] = [status |-> m.status, filled |-> m.filled]

SessionTypeOK ==
  /\ pc \in [Sessions -> Steps]
  /\ todo \in [Sessions -> SUBSET Orders]
  /\ loaded \in [Sessions -> [Orders -> Row]]
  /\ view \in [Sessions -> [Orders -> Row]]
  /\ pend \in [Sessions -> [Orders -> 0..Qty]]
  /\ fresh \in [Sessions -> SUBSET Orders]
  /\ crashes \in 0..MaxCrashes

OthersKeep(a) ==
  \A b \in Sessions \ {a} :
    /\ pc'[b] = pc[b]
    /\ todo'[b] = todo[b]
    /\ loaded'[b] = loaded[b]
    /\ view'[b] = view[b]
    /\ pend'[b] = pend[b]
    /\ fresh'[b] = fresh[b]

\* A row in the sense of Row, whatever report it is given.
LEMMA ApplyType ==
  ASSUME NEW row \in Row, NEW st \in Statuses, NEW q \in 0..Qty,
         NEW report, report.status = st, report.filled = q
  PROVE  Apply(row, report) \in Row /\ Booking(row, report) \in 0..Qty
  BY QtyAssumption DEF Apply, Booking, Books, ClosesUnfilled, Row, IsTerminal

\* When a report settles a row, and what it books then.
LEMMA ApplyMeaning ==
  ASSUME NEW row \in Row, NEW report, report.filled \in 0..Qty
  PROVE  /\ Apply(row, report).reconciled <=>
               row.reconciled \/ Books(row, report) \/ ClosesUnfilled(report)
         /\ Booking(row, report) > 0 <=> Books(row, report)
         /\ Booking(row, report) > 0 => Booking(row, report) = report.filled
<1>1. Apply(row, report).reconciled =
        (row.reconciled \/ Books(row, report) \/ ClosesUnfilled(report))
  BY Zenon DEF Apply
<1>2. Booking(row, report) > 0 <=> Books(row, report)
  <2>1. CASE Books(row, report)
    BY <2>1 DEF Booking, Books
  <2>2. CASE ~Books(row, report)
    BY <2>2 DEF Booking
  <2> QED BY <2>1, <2>2
<1>3. Booking(row, report) > 0 => Booking(row, report) = report.filled
  BY DEF Booking
<1> QED BY <1>1, <1>2, <1>3

\* A step of the venue alone leaves the committed state consistent.
LEMMA WorldKeepsDb ==
  ASSUME IInv, WorldStep, UNCHANGED dbVars
  PROVE  VenueInv' /\ DbInv'
<1> USE DEF IInv, WorldStep, dbVars
<1>1. VenueInv'
  <2>1. \A o \in Orders : venue'[o].status = "none" => o \notin rows'
    BY DEF VenueInv
  <2>2. ASSUME NEW m \in inbox', IsTerminal(m.status)
        PROVE  venue'[m.order] = [status |-> m.status, filled |-> m.filled]
    <3>1. CASE m \in inbox
      <4>1. m.order \in Orders
        BY <3>1 DEF TypeOK, Message
      <4>2. venue[m.order] = [status |-> m.status, filled |-> m.filled]
        BY <3>1, <2>2 DEF VenueInv
      <4> QED BY <4>1, <4>2, <2>2
    <3>2. CASE m \notin inbox
      BY <3>2, <2>2
    <3> QED BY <3>1, <3>2
  <2>3. \A o \in Orders : venue'[o].status = "filled" => venue'[o].filled = Qty
    OBVIOUS
  <2> QED BY <2>1, <2>2, <2>3 DEF VenueInv
<1>2. DbInv'
  BY DEF DbInv, IsTerminal, Terminal
<1> QED BY <1>1, <1>2

\* A session that holds no more than before is not disturbed by the venue.
LEMMA HeldFrame ==
  ASSUME IInv, WorldStep, UNCHANGED dbVars,
         NEW a \in Sessions, NEW b \in Sessions \ {a}, OthersKeep(a),
         NEW o \in Orders
  PROVE  HeldInv(b, o)'
<1>1. HeldInv(b, o)
  BY DEF IInv, SessionInv
<1>2. venue[o].status # "none" => venue'[o].status # "none"
  BY DEF WorldStep
<1>3. IsTerminal(venue[o].status) => venue'[o] = venue[o]
  BY DEF WorldStep
<1>4. venue[o].status = "filled" => IsTerminal(venue[o].status)
  BY DEF IsTerminal, Terminal
<1> QED BY <1>1, <1>2, <1>3, <1>4 DEF HeldInv, OthersKeep, dbVars

\* What is left to show of a step that commits nothing.
LEMMA LocalStep ==
  ASSUME IInv, WorldStep, UNCHANGED dbVars, SessionTypeOK',
         NEW a \in Sessions, OthersKeep(a),
         \A o \in Orders : HeldInv(a, o)',
         \A o \in fresh'[a] : o \in fresh[a] \/ venue[o].status = "none"
  PROVE  IInv'
<1>1. TypeOK'
  BY DEF IInv, TypeOK, SessionTypeOK, WorldStep, dbVars
<1>2. VenueInv' /\ DbInv'
  BY WorldKeepsDb
<1>3. SessionInv'
  BY HeldFrame DEF SessionInv
<1>4. FreshInv'
  <2> SUFFICES ASSUME NEW b \in Sessions, NEW c \in Sessions, NEW o \in Orders,
                      o \in fresh'[b], o \in fresh'[c]
               PROVE  b = c
    BY DEF FreshInv
  <2>1. o \in fresh[b] \/ (b = a /\ venue[o].status = "none")
    BY DEF OthersKeep
  <2>2. o \in fresh[c] \/ (c = a /\ venue[o].status = "none")
    BY DEF OthersKeep
  <2>3. \A d \in Sessions : o \in fresh[d] => venue[o].status # "none"
    BY DEF IInv, SessionInv, HeldInv
  <2> QED BY <2>1, <2>2, <2>3 DEF IInv, FreshInv
<1> QED BY <1>1, <1>2, <1>3, <1>4 DEF IInv
-----------------------------------------------------------------------------
(* The venue's moves.                                                      *)

\* Move(o, v) is a WorldStep when o had not ended and v is the venue's state.
LEMMA MoveIsWorldStep ==
  ASSUME IInv, NEW o \in Orders, NEW v \in VenueState,
         ~IsTerminal(venue[o].status), v.status # "none",
         v.status = "filled" => v.filled = Qty, Move(o, v)
  PROVE  WorldStep
<1>1. venue \in [Orders -> VenueState] /\ inbox \subseteq Message
  BY DEF IInv, TypeOK
<1>2. venue' = [venue EXCEPT ![o] = v]
  BY DEF Move
<1>3. venue' \in [Orders -> VenueState] /\ venue'[o] = v
      /\ \A x \in Orders \ {o} : venue'[x] = venue[x]
  BY <1>1, <1>2
<1>4. v.status \in Statuses /\ v.filled \in 0..Qty
      /\ v = [status |-> v.status, filled |-> v.filled]
  BY DEF VenueState
<1>5. inbox' = inbox
      \/ inbox' = inbox \union {[order |-> o, status |-> v.status, filled |-> v.filled]}
  BY DEF Move, Announce
<1>6. inbox' \subseteq Message
  BY <1>1, <1>4, <1>5 DEF Message
<1>7. ASSUME NEW m \in inbox' \ inbox
      PROVE  venue'[m.order] = [status |-> m.status, filled |-> m.filled]
  BY <1>3, <1>4, <1>5
<1>8. \A x \in Orders : venue[x].status = "filled" => venue[x].filled = Qty
  BY DEF IInv, VenueInv
<1> QED BY <1>3, <1>6, <1>7, <1>8 DEF WorldStep

LEMMA StillWorld ==
  ASSUME IInv, UNCHANGED worldVars
  PROVE  WorldStep
  BY DEF IInv, TypeOK, VenueInv, WorldStep, worldVars

\* A move of the venue that touches no session.
LEMMA VenueMoves ==
  ASSUME IInv, WorldStep, UNCHANGED <<dbVars, sessionVars, crashes>>
  PROVE  IInv'
<1>1. TypeOK'
  BY DEF IInv, TypeOK, WorldStep, dbVars, sessionVars
<1>2. VenueInv' /\ DbInv'
  BY WorldKeepsDb
<1>3. SessionInv'
  <2> SUFFICES ASSUME NEW b \in Sessions, NEW o \in Orders
               PROVE  HeldInv(b, o)'
    BY DEF SessionInv
  <2>1. HeldInv(b, o)
    BY DEF IInv, SessionInv
  <2>2. venue[o].status # "none" => venue'[o].status # "none"
    BY DEF WorldStep
  <2>3. IsTerminal(venue[o].status) => venue'[o] = venue[o]
    BY DEF WorldStep
  <2>4. venue[o].status = "filled" => IsTerminal(venue[o].status)
    BY DEF IsTerminal, Terminal
  <2> QED BY <2>1, <2>2, <2>3, <2>4 DEF HeldInv, dbVars, sessionVars
<1>4. FreshInv'
  BY DEF IInv, FreshInv, sessionVars
<1> QED BY <1>1, <1>2, <1>3, <1>4 DEF IInv

LEMMA VenueNextKeeps ==
  ASSUME IInv, VenueNext
  PROVE  IInv'
<1>1. ASSUME NEW o \in Orders, NEW n \in 1..Qty, VenueFill(o, n)
      PROVE  IInv'
  <2> DEFINE q == venue[o].filled + n
             st == IF q = Qty THEN "filled"
                   ELSE IF venue[o].status = "pending_cancel" THEN "pending_cancel"
                   ELSE "partially_filled"
  <2>1. venue[o] \in VenueState
    BY DEF IInv, TypeOK
  <2>2. q \in 0..Qty
    BY <1>1, <2>1, QtyAssumption DEF VenueFill, VenueState
  <2>3. [status |-> st, filled |-> q] \in VenueState
    BY <2>2 DEF VenueState, Statuses
  <2>4. Move(o, [status |-> st, filled |-> q]) /\ ~IsTerminal(venue[o].status)
    BY <1>1 DEF VenueFill, Working
  <2>5. WorldStep
    BY <2>3, <2>4, MoveIsWorldStep
  <2> QED BY <1>1, <2>5, VenueMoves DEF VenueFill
<1>2. ASSUME NEW o \in Orders, NEW status \in ClosedStatuses, VenueClose(o, status)
      PROVE  IInv'
  <2>1. venue[o] \in VenueState
    BY DEF IInv, TypeOK
  <2>2. [venue[o] EXCEPT !.status = status] \in VenueState
        /\ [venue[o] EXCEPT !.status = status].status \notin {"none", "filled"}
    BY <2>1, ClosedAssumption DEF VenueState, Statuses, Terminal
  <2>3. WorldStep
    BY <1>2, <2>2, ClosedAssumption, MoveIsWorldStep DEF VenueClose, Working
  <2> QED BY <1>2, <2>3, VenueMoves DEF VenueClose
<1> QED BY <1>1, <1>2 DEF VenueNext
-----------------------------------------------------------------------------
(* How a session begins and ends.                                          *)

LEMMA LoadType ==
  ASSUME TypeOK, NEW S \in SUBSET Orders
  PROVE  /\ Load(S) \in [Orders -> Row]
         /\ NoRows \in [Orders -> Row]
         /\ \A o \in Orders : Load(S)[o].reconciled <=> o \in S /\ db[o].reconciled
         /\ \A o \in Orders : ~NoRows[o].reconciled
  BY QtyAssumption DEF TypeOK, Load, NoRows, NewRow, Row, Statuses

LEMMA EndKeeps ==
  ASSUME IInv, WorldStep, UNCHANGED dbVars, NEW a \in Sessions, End(a),
         crashes' \in 0..MaxCrashes
  PROVE  IInv'
<1>1. SessionTypeOK'
  <2>1. NoRows \in [Orders -> Row]
    BY LoadType DEF IInv
  <2>2. [o \in Orders |-> 0] \in [Orders -> 0..Qty]
    BY QtyAssumption
  <2> QED BY <2>1, <2>2 DEF IInv, TypeOK, SessionTypeOK, End, Steps
<1>2. OthersKeep(a)
  BY DEF IInv, TypeOK, End, OthersKeep
<1>3. /\ pc'[a] = "idle" /\ todo'[a] = {} /\ fresh'[a] = {}
      /\ loaded'[a] = NoRows /\ view'[a] = NoRows
      /\ pend'[a] = [o \in Orders |-> 0]
  BY DEF IInv, TypeOK, End
<1>4. ASSUME NEW o \in Orders PROVE HeldInv(a, o)'
  BY <1>3, LoadType DEF HeldInv, IInv
<1> QED BY <1>1, <1>2, <1>3, <1>4, LocalStep

LEMMA BeginKeeps ==
  ASSUME IInv, UNCHANGED <<worldVars, dbVars, crashes>>, NEW a \in Sessions,
         NEW step \in Steps \ {"idle"}, NEW S \in SUBSET rows, Begin(a, step, S)
  PROVE  IInv'
<1>1. S \in SUBSET Orders
  BY DEF IInv, TypeOK
<1>2. SessionTypeOK'
  BY <1>1, LoadType DEF IInv, TypeOK, SessionTypeOK, Begin
<1>3. OthersKeep(a)
  BY DEF IInv, TypeOK, Begin, OthersKeep
<1>4. /\ pc'[a] = step /\ todo'[a] = S /\ fresh'[a] = fresh[a]
      /\ loaded'[a] = Load(S) /\ view'[a] = Load(S) /\ pend'[a] = pend[a]
      /\ pc[a] = "idle"
  BY DEF IInv, TypeOK, Begin
<1>5. ASSUME NEW o \in Orders PROVE HeldInv(a, o)'
  <2>1. pend[a][o] = 0 /\ o \notin fresh[a]
    BY <1>4 DEF IInv, SessionInv, HeldInv
  <2>2. Load(S)[o].reconciled <=> o \in S /\ db[o].reconciled
    BY <1>1, LoadType DEF IInv
  <2> QED BY <1>4, <2>1, <2>2 DEF HeldInv, dbVars
<1>6. WorldStep
  BY StillWorld
<1> QED BY <1>2, <1>3, <1>4, <1>5, <1>6, LocalStep
-----------------------------------------------------------------------------
(* The sweep and the webhook.                                              *)

LEMMA SweepNextKeeps ==
  ASSUME IInv, NEW s \in Sweepers, SweepNext(s)
  PROVE  IInv'
<1>0. s \in Sessions
  BY DEF Sessions
<1>1. CASE SweepStart(s)
  <2>1. SweepSelection \in SUBSET rows
    BY DEF SweepSelection, Unreconciled
  <2> QED BY <1>0, <1>1, <2>1, BeginKeeps DEF SweepStart, Steps
<1>2. ASSUME NEW o \in Orders, PollOk(s, o)
      PROVE  IInv'
  <2> DEFINE row == view[s][o]
             report == venue[o]
  <2>0. TypeOK
    BY DEF IInv
  <2>1. HeldInv(s, o) /\ o \in todo[s] /\ pc[s] = "sweep"
    BY <1>0, <1>2 DEF IInv, SessionInv, PollOk
  <2>2. row \in Row /\ report \in VenueState /\ report.status \in Statuses
    BY <1>0, <2>1 DEF IInv, TypeOK, VenueState, HeldInv, VenueInv
  <2>3. Apply(row, report) \in Row /\ Booking(row, report) \in 0..Qty
    <3>1. report.filled \in 0..Qty
      BY <2>2 DEF VenueState
    <3> QED BY <2>2, <3>1, ApplyType
  <2>4. /\ view' = [view EXCEPT ![s][o] = Apply(row, report)]
        /\ pend' = [pend EXCEPT ![s][o] = Booking(row, report)]
        /\ todo' = [todo EXCEPT ![s] = @ \ {o}]
        /\ UNCHANGED <<worldVars, dbVars, pc, loaded, fresh, crashes>>
    BY <1>2 DEF PollOk
  <2>5. SessionTypeOK'
    BY <1>0, <2>0, <2>3, <2>4 DEF TypeOK, SessionTypeOK
  <2>6. OthersKeep(s)
    BY <1>0, <2>0, <2>4 DEF TypeOK, OthersKeep
  <2>7. /\ view'[s][o] = Apply(row, report) /\ pend'[s][o] = Booking(row, report)
        /\ todo'[s] = todo[s] \ {o}
        /\ \A x \in Orders \ {o} : view'[s][x] = view[s][x] /\ pend'[s][x] = pend[s][x]
    BY <1>0, <2>0, <2>4 DEF TypeOK
  <2>8. ASSUME NEW x \in Orders PROVE HeldInv(s, x)'
    <3>1. HeldInv(s, x)
      BY <1>0 DEF IInv, SessionInv
    <3>2. CASE x # o
      BY <2>4, <2>7, <3>1, <3>2 DEF HeldInv, worldVars, dbVars
    <3>3. CASE x = o
      <4>1. /\ Apply(row, report).reconciled <=>
                  row.reconciled \/ Books(row, report) \/ ClosesUnfilled(report)
            /\ Booking(row, report) > 0 <=> Books(row, report)
            /\ Booking(row, report) > 0 => Booking(row, report) = report.filled
        <5>1. report.filled \in 0..Qty
          BY <2>2 DEF VenueState
        <5> QED BY <2>2, <5>1, ApplyMeaning
      <4>2. row.reconciled <=> loaded[s][o].reconciled
        BY <2>1 DEF HeldInv
      <4> QED BY <2>1, <2>4, <2>7, <3>1, <3>3, <4>1, <4>2
              DEF HeldInv, worldVars, dbVars, Books, ClosesUnfilled, IsTerminal, Terminal
    <3> QED BY <3>2, <3>3
  <2>9. WorldStep
    BY <2>4, StillWorld
  <2> QED BY <1>0, <2>4, <2>5, <2>6, <2>8, <2>9, LocalStep
<1>3. ASSUME NEW o \in Orders, PollFail(s, o)
      PROVE  IInv'
  <2>1. /\ todo' = [todo EXCEPT ![s] = @ \ {o}]
        /\ UNCHANGED <<worldVars, dbVars, pc, loaded, view, pend, fresh, crashes>>
        /\ pc[s] = "sweep"
    BY <1>3 DEF PollFail
  <2>2. SessionTypeOK' /\ OthersKeep(s) /\ todo'[s] = todo[s] \ {o}
    BY <1>0, <2>1 DEF IInv, TypeOK, SessionTypeOK, OthersKeep
  <2>3. ASSUME NEW x \in Orders PROVE HeldInv(s, x)'
    <3>1. HeldInv(s, x)
      BY <1>0 DEF IInv, SessionInv
    <3> QED BY <2>1, <2>2, <3>1 DEF HeldInv, worldVars, dbVars
  <2> QED BY <1>0, <2>1, <2>2, <2>3, StillWorld, LocalStep
<1> QED BY <1>1, <1>2, <1>3 DEF SweepNext

LEMMA WebhookKeeps ==
  ASSUME IInv, NEW w \in WebhookWorkers, NEW m \in inbox, WebhookApply(w, m)
  PROVE  IInv'
<1> DEFINE o == m.order
           row == db[o]
<1>0. w \in Sessions /\ TypeOK
  BY DEF Sessions, IInv
<1>1. /\ m \in Message /\ o \in Orders /\ o \in rows /\ m.status \in Statuses
      /\ m.filled \in 0..Qty /\ row \in Row
  BY <1>0 DEF TypeOK, Message, WebhookApply
<1>2. Apply(row, m) \in Row /\ Booking(row, m) \in 0..Qty
  BY <1>1, ApplyType
<1>3. /\ pc[w] = "idle"
      /\ pc' = [pc EXCEPT ![w] = "commit"]
      /\ loaded' = [loaded EXCEPT ![w] = Load({o})]
      /\ view' = [view EXCEPT ![w] = [Load({o}) EXCEPT ![o] = Apply(@, m)]]
      /\ pend' = [pend EXCEPT ![w][o] = Booking(row, m)]
      /\ UNCHANGED <<worldVars, dbVars, todo, fresh, crashes>>
  BY DEF WebhookApply
<1>4. /\ Load({o}) \in [Orders -> Row] /\ Load({o})[o] = row
      /\ \A x \in Orders : Load({o})[x].reconciled <=> x = o /\ db[x].reconciled
  <2>1. {o} \in SUBSET Orders
    BY <1>1
  <2>2. Load({o})[o] = row
    BY <1>1 DEF Load
  <2> QED BY <1>0, <2>1, <2>2, LoadType
<1>5. SessionTypeOK'
  BY <1>0, <1>1, <1>2, <1>3, <1>4 DEF TypeOK, SessionTypeOK, Steps
<1>6. OthersKeep(w)
  BY <1>0, <1>3 DEF TypeOK, OthersKeep
<1>7. /\ pc'[w] = "commit" /\ loaded'[w] = Load({o})
      /\ view'[w][o] = Apply(row, m) /\ pend'[w][o] = Booking(row, m)
      /\ \A x \in Orders \ {o} :
           view'[w][x] = Load({o})[x] /\ pend'[w][x] = pend[w][x]
      /\ todo' = todo /\ fresh' = fresh
  BY <1>0, <1>1, <1>3, <1>4 DEF TypeOK
<1>8. ASSUME NEW x \in Orders PROVE HeldInv(w, x)'
  <2>1. HeldInv(w, x) /\ pend[w][x] = 0 /\ x \notin fresh[w] /\ x \notin todo[w]
    BY <1>0, <1>3 DEF IInv, SessionInv, HeldInv
  <2>2. CASE x # o
    <3>1. /\ pend'[w][x] = 0
          /\ view'[w][x] = loaded'[w][x]
          /\ ~loaded'[w][x].reconciled
      BY <1>4, <1>7, <2>1, <2>2
    <3> QED BY <1>3, <1>7, <2>1, <3>1 DEF HeldInv, worldVars, dbVars
  <2>3. CASE x = o
    <3>1. /\ Apply(row, m).reconciled <=>
                row.reconciled \/ Books(row, m) \/ ClosesUnfilled(m)
          /\ Booking(row, m) > 0 <=> Books(row, m)
          /\ Booking(row, m) > 0 => Booking(row, m) = m.filled
      BY <1>1, ApplyMeaning
    <3>2. IsTerminal(m.status) =>
            venue[o].status = m.status /\ venue[o].filled = m.filled
      <4>1. IsTerminal(m.status) => venue[o] = [status |-> m.status, filled |-> m.filled]
        BY DEF IInv, VenueInv
      <4> QED BY <4>1
    <3>3. Books(row, m) \/ ClosesUnfilled(m) => IsTerminal(m.status)
      BY DEF Books, ClosesUnfilled, IsTerminal, Terminal
    <3>4. loaded'[w][o] = row /\ (row.reconciled => db'[o].reconciled)
      BY <1>3, <1>4, <1>7 DEF dbVars
    <3>5. /\ venue' = venue /\ rows' = rows /\ o \in rows /\ pc'[w] # "idle"
          /\ o \notin todo'[w] /\ o \notin fresh'[w]
          /\ loaded'[w][o].reconciled <=> row.reconciled
          /\ view'[w][o].reconciled <=> row.reconciled \/ Books(row, m) \/ ClosesUnfilled(m)
          /\ pend'[w][o] = Booking(row, m)
      BY <1>1, <1>3, <1>7, <2>1, <2>3, <3>1, <3>4 DEF worldVars, dbVars
    <3>6. view'[w][o].reconciled /\ ~loaded'[w][o].reconciled =>
            /\ IsTerminal(venue'[o].status)
            /\ venue'[o].status = "filled" => pend'[w][o] > 0
      <4>1. ClosesUnfilled(m) => m.status # "filled"
        BY DEF ClosesUnfilled
      <4> QED BY <3>1, <3>2, <3>3, <3>5, <4>1
    <3>7. pend'[w][o] > 0 =>
            /\ view'[w][o].reconciled /\ ~loaded'[w][o].reconciled
            /\ venue'[o].status = "filled" /\ pend'[w][o] = venue'[o].filled
      <4>1. Books(row, m) => m.status = "filled" /\ ~row.reconciled
        BY DEF Books
      <4> QED BY <3>1, <3>2, <3>3, <3>5, <4>1
    <3> QED BY <2>3, <3>4, <3>5, <3>6, <3>7 DEF HeldInv
  <2> QED BY <2>2, <2>3
<1> QED BY <1>0, <1>3, <1>5, <1>6, <1>7, <1>8, StillWorld, LocalStep
-----------------------------------------------------------------------------
(* The user's requests.                                                    *)

\* execute places an order: the session gets a row to insert.
LEMMA PlaceKeeps ==
  ASSUME IInv, NEW r \in Requests, NEW o \in Orders, Place(r, o)
  PROVE  IInv'
<1>0. r \in Sessions /\ TypeOK
  BY DEF Sessions, IInv
<1>1. [status |-> "new", filled |-> 0] \in VenueState
  BY QtyAssumption DEF VenueState, Statuses
<1>2. ~IsTerminal(venue[o].status)
  BY DEF Place, IsTerminal, Terminal
<1>3. WorldStep
  BY <1>1, <1>2, MoveIsWorldStep DEF Place
<1>4. venue'[o].status = "new"
  BY <1>0 DEF Place, Move, TypeOK
<1>5. /\ pc[r] = "idle" /\ venue[o].status = "none"
      /\ pc' = [pc EXCEPT ![r] = "commit"]
      /\ fresh' = [fresh EXCEPT ![r] = {o}]
      /\ UNCHANGED <<dbVars, todo, loaded, view, pend, crashes>>
  BY DEF Place
<1>6. SessionTypeOK' /\ OthersKeep(r) /\ fresh'[r] = {o} /\ pc'[r] = "commit"
  BY <1>0, <1>5 DEF TypeOK, SessionTypeOK, OthersKeep, Steps
<1>7. ASSUME NEW x \in Orders PROVE HeldInv(r, x)'
  <2>1. HeldInv(r, x) /\ pend[r][x] = 0 /\ view[r][x].reconciled = loaded[r][x].reconciled
    BY <1>0, <1>5 DEF IInv, SessionInv, HeldInv
  <2>2. o \notin rows
    BY <1>5 DEF IInv, VenueInv
  <2> QED BY <1>4, <1>5, <1>6, <2>1, <2>2 DEF HeldInv, dbVars
<1> QED BY <1>0, <1>3, <1>5, <1>6, <1>7, LocalStep

\* The venue takes a cancel request.
LEMMA CancelMoves ==
  ASSUME IInv, NEW o \in Orders, Working(venue[o]),
         Move(o, [venue[o] EXCEPT !.status = "pending_cancel"])
  PROVE  WorldStep
<1>1. venue[o] \in VenueState
  BY DEF IInv, TypeOK
<1>2. /\ [venue[o] EXCEPT !.status = "pending_cancel"] \in VenueState
      /\ [venue[o] EXCEPT !.status = "pending_cancel"].status \notin {"none", "filled"}
  BY <1>1 DEF VenueState, Statuses
<1> QED BY <1>2, MoveIsWorldStep DEF Working

\* A session changes the status of a row it holds, and nothing else.
LEMMA TouchKeeps ==
  ASSUME IInv, WorldStep, UNCHANGED <<dbVars, loaded, pend, fresh, crashes>>,
         NEW r \in Sessions, pc[r] # "idle",
         NEW step \in Steps \ {"idle"}, pc' = [pc EXCEPT ![r] = step],
         NEW T \in SUBSET todo[r], todo' = [todo EXCEPT ![r] = T],
         NEW v \in [Orders -> Row], view' = [view EXCEPT ![r] = v],
         \A o \in Orders : v[o].reconciled = view[r][o].reconciled
  PROVE  IInv'
<1>0. TypeOK
  BY DEF IInv
<1>1. SessionTypeOK' /\ OthersKeep(r)
  <2>1. T \in SUBSET Orders
    BY <1>0 DEF TypeOK
  <2> QED BY <1>0, <2>1 DEF TypeOK, SessionTypeOK, OthersKeep
<1>2. pc'[r] = step /\ todo'[r] = T /\ view'[r] = v
  BY <1>0 DEF TypeOK
<1>3. ASSUME NEW o \in Orders PROVE HeldInv(r, o)'
  <2>1. HeldInv(r, o)
    BY DEF IInv, SessionInv
  <2>2. venue[o].status # "none" => venue'[o].status # "none"
    BY DEF WorldStep
  <2>3. IsTerminal(venue[o].status) => venue'[o] = venue[o]
    BY DEF WorldStep
  <2>4. venue[o].status = "filled" => IsTerminal(venue[o].status)
    BY DEF IsTerminal, Terminal
  <2>5. v[o].reconciled = view[r][o].reconciled
    OBVIOUS
  <2> QED BY <1>2, <2>1, <2>2, <2>3, <2>4, <2>5 DEF HeldInv, dbVars
<1> QED BY <1>1, <1>3, LocalStep

LEMMA CancelKeeps ==
  ASSUME IInv, NEW r \in Requests, NEW o \in Orders,
         CancelAccepted(r, o) \/ CancelRefused(r, o) \/ CancelError(r, o)
         \/ Resync(r, o)
  PROVE  IInv'
<1>0. r \in Sessions /\ TypeOK
  BY DEF Sessions, IInv
<1>1. pc[r] \in Steps /\ view[r] \in [Orders -> Row] /\ todo[r] \in SUBSET Orders
  BY <1>0 DEF TypeOK
<1>2. CASE CancelAccepted(r, o)
  <2> DEFINE v == [view[r] EXCEPT ![o].status = "pending_cancel"]
             step == IF pc[r] = "cancel" THEN "commit" ELSE pc[r]
  <2>1. v \in [Orders -> Row] /\ \A x \in Orders : v[x].reconciled = view[r][x].reconciled
    BY <1>1 DEF Row, Statuses
  <2>2. step \in Steps \ {"idle"} /\ pc[r] # "idle"
    BY <1>2 DEF CancelAccepted, Steps
  <2>3. /\ pc' = [pc EXCEPT ![r] = step]
        /\ todo' = [todo EXCEPT ![r] = todo[r] \ {o}]
        /\ view' = [view EXCEPT ![r] = v]
        /\ UNCHANGED <<dbVars, loaded, pend, fresh, crashes>>
    BY <1>0, <1>2 DEF CancelAccepted, TypeOK
  <2>4. WorldStep
    BY <1>2, CancelMoves DEF CancelAccepted
  <2> HIDE DEF v, step
  <2> QED BY <1>0, <2>1, <2>2, <2>3, <2>4, TouchKeeps
<1>3. CASE CancelRefused(r, o)
  <2> DEFINE T == IF pc[r] = "cancel" THEN todo[r] ELSE todo[r] \ {o}
             step == IF pc[r] = "cancel" THEN "resync" ELSE pc[r]
  <2>1. step \in Steps \ {"idle"} /\ pc[r] # "idle" /\ T \in SUBSET todo[r]
    BY <1>3 DEF CancelRefused, Steps
  <2>2. /\ pc' = [pc EXCEPT ![r] = step]
        /\ todo' = [todo EXCEPT ![r] = T]
        /\ view' = [view EXCEPT ![r] = view[r]]
        /\ UNCHANGED <<worldVars, dbVars, loaded, pend, fresh, crashes>>
    BY <1>0, <1>3 DEF CancelRefused, TypeOK
  <2> HIDE DEF T, step
  <2> QED BY <1>0, <1>1, <2>1, <2>2, StillWorld, TouchKeeps
<1>4. CASE CancelError(r, o)
  <2>1. WorldStep
    BY <1>4, StillWorld, CancelMoves DEF CancelError
  <2>2. CASE pc[r] = "cancel"
    <3>1. End(r) /\ UNCHANGED <<dbVars, crashes>>
      BY <1>4, <2>2 DEF CancelError
    <3>2. crashes' \in 0..MaxCrashes
      BY <1>0, <3>1 DEF TypeOK
    <3> QED BY <1>0, <2>1, <3>1, <3>2, EndKeeps
  <2>3. CASE pc[r] = "flatten"
    <3>1. /\ pc' = [pc EXCEPT ![r] = "flatten"]
          /\ todo' = [todo EXCEPT ![r] = todo[r] \ {o}]
          /\ view' = [view EXCEPT ![r] = view[r]]
          /\ UNCHANGED <<dbVars, loaded, pend, fresh, crashes>>
      BY <1>0, <1>4, <2>3 DEF CancelError, TypeOK
    <3>2. "flatten" \in Steps \ {"idle"} /\ todo[r] \ {o} \in SUBSET todo[r]
      BY DEF Steps
    <3> QED BY <1>0, <1>1, <2>1, <2>3, <3>1, <3>2, TouchKeeps
  <2> QED BY <1>4, <2>2, <2>3 DEF CancelError
<1>5. CASE Resync(r, o)
  <2> DEFINE v == [view[r] EXCEPT ![o] = [@ EXCEPT !.status = venue[o].status,
                                                   !.filled = venue[o].filled]]
  <2>1. venue[o].status \in Statuses /\ venue[o].filled \in 0..Qty
    BY <1>0, <1>5 DEF Resync, TypeOK, VenueState, IInv, SessionInv, HeldInv, VenueInv
  <2>2. v \in [Orders -> Row] /\ \A x \in Orders : v[x].reconciled = view[r][x].reconciled
    BY <1>1, <2>1 DEF Row
  <2>3. /\ pc' = [pc EXCEPT ![r] = "commit"]
        /\ todo' = [todo EXCEPT ![r] = todo[r]]
        /\ view' = [view EXCEPT ![r] = v]
        /\ UNCHANGED <<worldVars, dbVars, loaded, pend, fresh, crashes>>
    BY <1>0, <1>5 DEF Resync, TypeOK
  <2>4. "commit" \in Steps \ {"idle"} /\ todo[r] \in SUBSET todo[r] /\ pc[r] # "idle"
    BY <1>5 DEF Steps, Resync
  <2> HIDE DEF v
  <2> QED BY <1>0, <2>2, <2>3, <2>4, StillWorld, TouchKeeps
<1> QED BY <1>2, <1>3, <1>4, <1>5

\* replace_order: the old order ends, the session gets the new one to insert.
LEMMA ReplaceKeeps ==
  ASSUME IInv, NEW r \in Requests, NEW o \in Orders, NEW n \in Orders,
         ReplaceAccepted(r, o, n)
  PROVE  IInv'
<1>0. r \in Sessions /\ TypeOK
  BY DEF Sessions, IInv
<1>1. /\ pc[r] = "replace" /\ o \in todo[r] /\ Working(venue[o])
      /\ venue[n].status = "none"
      /\ venue' = [venue EXCEPT ![o].status = "replaced",
                                ![n] = [status |-> "new", filled |-> 0]]
      /\ Announce(o, venue'[o])
      /\ view' = [view EXCEPT ![r][o].status = "replaced"]
      /\ fresh' = [fresh EXCEPT ![r] = {n}]
      /\ pc' = [pc EXCEPT ![r] = "commit"]
      /\ UNCHANGED <<dbVars, todo, loaded, pend, crashes>>
  BY DEF ReplaceAccepted
<1>2. n # o /\ ~IsTerminal(venue[o].status) /\ ~IsTerminal(venue[n].status)
  BY <1>1 DEF Working, IsTerminal, Terminal
<1>3. venue[o] \in VenueState /\ [status |-> "new", filled |-> 0] \in VenueState
  BY <1>0, QtyAssumption DEF TypeOK, VenueState, Statuses
<1>4. /\ venue' \in [Orders -> VenueState]
      /\ venue'[o] = [status |-> "replaced", filled |-> venue[o].filled]
      /\ venue'[n] = [status |-> "new", filled |-> 0]
      /\ \A x \in Orders \ {o, n} : venue'[x] = venue[x]
  BY <1>0, <1>1, <1>2, <1>3 DEF TypeOK, VenueState, Statuses
<1>5. inbox' = inbox \/ inbox' = inbox \union
        {[order |-> o, status |-> "replaced", filled |-> venue[o].filled]}
  BY <1>1, <1>4 DEF Announce
<1>6. WorldStep
  <2>1. inbox' \subseteq Message
    BY <1>0, <1>3, <1>5 DEF TypeOK, Message, VenueState, Statuses
  <2>2. ASSUME NEW m \in inbox' \ inbox
        PROVE  venue'[m.order] = [status |-> m.status, filled |-> m.filled]
    BY <1>4, <1>5
  <2>3. ASSUME NEW x \in Orders
        PROVE  /\ IsTerminal(venue[x].status) => venue'[x] = venue[x]
               /\ venue'[x].status = "none" => venue[x].status = "none"
               /\ venue'[x].status = "filled" => venue'[x].filled = Qty
    BY <1>0, <1>2, <1>4 DEF IInv, VenueInv
  <2> QED BY <1>4, <2>1, <2>2, <2>3 DEF WorldStep
<1>7. /\ view[r] \in [Orders -> Row] /\ pc'[r] = "commit" /\ fresh'[r] = {n}
      /\ view'[r] = [view[r] EXCEPT ![o].status = "replaced"]
  BY <1>0, <1>1 DEF TypeOK
<1>8. /\ view'[r] \in [Orders -> Row]
      /\ \A x \in Orders : view'[r][x].reconciled = view[r][x].reconciled
  BY <1>7 DEF Row, Statuses
<1>9. SessionTypeOK' /\ OthersKeep(r)
  <2>1. view' = [view EXCEPT ![r] = view'[r]]
    BY <1>0, <1>1 DEF TypeOK
  <2> QED BY <1>0, <1>1, <1>8, <2>1 DEF TypeOK, SessionTypeOK, OthersKeep, Steps
<1>10. ASSUME NEW x \in Orders PROVE HeldInv(r, x)'
  <2>1. HeldInv(r, x)
    BY <1>0 DEF IInv, SessionInv
  <2>2. n \notin rows
    BY <1>1 DEF IInv, VenueInv
  <2>3. IsTerminal(venue[x].status) => venue'[x] = venue[x]
    BY <1>6 DEF WorldStep
  <2>4. venue[x].status = "filled" => IsTerminal(venue[x].status)
    BY DEF IsTerminal, Terminal
  <2>5. view'[r][x].reconciled = view[r][x].reconciled
    BY <1>8
  <2>6. x \in fresh'[r] => x \notin rows' /\ venue'[x].status # "none"
    BY <1>1, <1>4, <1>7, <2>2 DEF dbVars
  <2> QED BY <1>1, <1>7, <2>1, <2>3, <2>4, <2>5, <2>6 DEF HeldInv, dbVars
<1>11. \A x \in fresh'[r] : x \in fresh[r] \/ venue[x].status = "none"
  BY <1>1, <1>7
<1> QED BY <1>0, <1>1, <1>6, <1>9, <1>10, <1>11, LocalStep

LEMMA RequestNextKeeps ==
  ASSUME IInv, NEW r \in Requests, RequestNext(r)
  PROVE  IInv'
<1>0. r \in Sessions /\ TypeOK
  BY DEF Sessions, IInv
<1>1. CASE FlattenLoad(r)
  <2> DEFINE open == {o \in Unreconciled : IsCancelable(db[o].status)}
  <2>1. open \in SUBSET rows /\ "flatten" \in Steps \ {"idle"}
    BY DEF Unreconciled, Steps
  <2>2. Begin(r, "flatten", open) /\ UNCHANGED <<worldVars, dbVars, crashes>>
    BY <1>1 DEF FlattenLoad
  <2> HIDE DEF open
  <2> QED BY <1>0, <2>1, <2>2, BeginKeeps
<1>2. CASE ResyncFail(r) \/ ReplaceError(r)
  <2>1. End(r) /\ UNCHANGED <<worldVars, dbVars, crashes>>
    BY <1>2 DEF ResyncFail, ReplaceError
  <2>2. crashes' \in 0..MaxCrashes
    BY <1>0, <2>1 DEF TypeOK
  <2> QED BY <1>0, <2>1, <2>2, StillWorld, EndKeeps
<1>3. ASSUME NEW o \in Orders, CancelLoad(r, o) \/ ReplaceLoad(r, o)
      PROVE  IInv'
  <2>1. {o} \in SUBSET rows /\ {"cancel", "replace"} \subseteq Steps \ {"idle"}
    BY <1>3 DEF CancelLoad, ReplaceLoad, Steps
  <2>2. \E step \in {"cancel", "replace"} : Begin(r, step, {o})
    BY <1>3 DEF CancelLoad, ReplaceLoad
  <2>3. UNCHANGED <<worldVars, dbVars, crashes>>
    BY <1>3 DEF CancelLoad, ReplaceLoad
  <2> QED BY <1>0, <2>1, <2>2, <2>3, BeginKeeps
<1> QED BY <1>1, <1>2, <1>3, PlaceKeeps, CancelKeeps, ReplaceKeeps DEF RequestNext
-----------------------------------------------------------------------------
(* A commit makes the changes of a session visible.                        *)

LEMMA AppendFacts ==
  ASSUME NEW S, NEW sq \in Seq(S), NEW e \in S
  PROVE  /\ Append(sq, e) \in Seq(S)
         /\ Append(sq, e) # <<>>
         /\ Len(Append(sq, e)) = Len(sq) + 1
         /\ Append(sq, e)[Len(sq) + 1] = e
         /\ \A i \in 1..Len(sq) : Append(sq, e)[i] = sq[i]
  OBVIOUS

\* What a commit does to one order.
LEMMA CommitEffect ==
  ASSUME IInv, NEW a \in Sessions, Commit(a), NEW o \in Orders
  PROVE  /\ db' \in [Orders -> Row]
         /\ ledger' \in [Orders -> Seq(1..Qty)]
         /\ db'[o].reconciled <=>
              db[o].reconciled
              \/ (view[a][o].reconciled /\ ~loaded[a][o].reconciled)
         /\ pend[a][o] = 0 => ledger'[o] = ledger[o]
         /\ pend[a][o] > 0 => ledger'[o] = Append(ledger[o], pend[a][o])
<1>0. TypeOK /\ SessionInv /\ DbInv
  BY DEF IInv
<1>1. /\ db' = [x \in Orders |-> IF x \in fresh[a] THEN view[a][x] ELSE Merged(a, x)]
      /\ ledger' = [x \in Orders |-> IF pend[a][x] > 0
                                        THEN Append(ledger[x], pend[a][x])
                                        ELSE ledger[x]]
  BY DEF Commit
<1>2. ASSUME NEW x \in Orders
      PROVE  /\ view[a][x] \in Row /\ loaded[a][x] \in Row /\ db[x] \in Row
             /\ Merged(a, x) \in Row
  <2>1. view[a][x] \in Row /\ loaded[a][x] \in Row /\ db[x] \in Row
    BY <1>0 DEF TypeOK
  <2> QED BY <2>1 DEF Merged, Row
<1>3. db' \in [Orders -> Row]
  BY <1>1, <1>2
<1>4. ledger' \in [Orders -> Seq(1..Qty)]
  <2>1. ASSUME NEW x \in Orders
        PROVE  (IF pend[a][x] > 0 THEN Append(ledger[x], pend[a][x]) ELSE ledger[x])
                 \in Seq(1..Qty)
    <3>1. ledger[x] \in Seq(1..Qty) /\ pend[a][x] \in 0..Qty
      BY <1>0 DEF TypeOK
    <3>2. pend[a][x] > 0 => pend[a][x] \in 1..Qty
      BY <3>1, QtyAssumption
    <3>3. pend[a][x] > 0 => Append(ledger[x], pend[a][x]) \in Seq(1..Qty)
      BY <3>1, <3>2, AppendFacts
    <3> QED BY <3>1, <3>3
  <2> QED BY <1>1, <2>1
<1>5. db'[o].reconciled <=>
        db[o].reconciled \/ (view[a][o].reconciled /\ ~loaded[a][o].reconciled)
  <2>1. HeldInv(a, o) /\ (o \notin rows => ~db[o].reconciled)
    BY <1>0 DEF SessionInv, DbInv
  <2>2. CASE o \in fresh[a]
    <3>1. db'[o] = view[a][o]
      BY <1>1, <2>2
    <3>2. o \notin rows /\ ~view[a][o].reconciled
      BY <2>1, <2>2 DEF HeldInv
    <3> QED BY <2>1, <3>1, <3>2
  <2>3. CASE o \notin fresh[a]
    <3>1. db'[o] = Merged(a, o)
      BY <1>1, <2>3
    <3>2. Merged(a, o).reconciled =
            IF view[a][o].reconciled # loaded[a][o].reconciled
              THEN view[a][o].reconciled ELSE db[o].reconciled
      BY DEF Merged
    <3>3. /\ view[a][o].reconciled \in BOOLEAN
          /\ loaded[a][o].reconciled \in BOOLEAN
      BY <1>2 DEF Row
    <3>4. /\ loaded[a][o].reconciled => db[o].reconciled
          /\ loaded[a][o].reconciled => view[a][o].reconciled
      BY <2>1 DEF HeldInv
    <3>5. CASE view[a][o].reconciled # loaded[a][o].reconciled
      BY <3>1, <3>2, <3>3, <3>4, <3>5
    <3>6. CASE view[a][o].reconciled = loaded[a][o].reconciled
      BY <3>1, <3>2, <3>6
    <3> QED BY <3>5, <3>6
  <2> QED BY <2>2, <2>3
<1>6. /\ pend[a][o] = 0 => ledger'[o] = ledger[o]
      /\ pend[a][o] > 0 => ledger'[o] = Append(ledger[o], pend[a][o])
  BY <1>1
<1> QED BY <1>3, <1>4, <1>5, <1>6

LEMMA CommitKeeps ==
  ASSUME IInv, NEW a \in Sessions, Commit(a)
  PROVE  IInv'
<1>0. TypeOK /\ VenueInv /\ DbInv /\ SessionInv /\ FreshInv
  BY DEF IInv
<1>1. UNCHANGED worldVars /\ crashes' = crashes /\ End(a) /\ rows' = rows \union fresh[a]
  BY DEF Commit
<1>2. /\ pc' = [pc EXCEPT ![a] = "idle"] /\ todo' = [todo EXCEPT ![a] = {}]
      /\ loaded' = [loaded EXCEPT ![a] = NoRows] /\ view' = [view EXCEPT ![a] = NoRows]
      /\ pend' = [pend EXCEPT ![a] = [x \in Orders |-> 0]]
      /\ fresh' = [fresh EXCEPT ![a] = {}]
  BY <1>1 DEF End
<1>3. TypeOK'
  <2>1. NoRows \in [Orders -> Row] /\ [x \in Orders |-> 0] \in [Orders -> 0..Qty]
    BY <1>0, LoadType, QtyAssumption
  <2>2. rows' \subseteq Orders /\ ledger' \in [Orders -> Seq(1..Qty)] /\ db' \in [Orders -> Row]
    <3>1. rows' \subseteq Orders
      BY <1>0, <1>1 DEF TypeOK
    <3>2. CASE Orders = {}
      BY <3>1, <3>2 DEF Commit
    <3>3. CASE Orders # {}
      BY <3>1, <3>3, CommitEffect
    <3> QED BY <3>2, <3>3
  <2> QED BY <1>0, <1>1, <1>2, <2>1, <2>2 DEF TypeOK, worldVars, Steps
<1>4. OthersKeep(a)
  BY <1>0, <1>2 DEF TypeOK, OthersKeep
<1>5. VenueInv'
  <2>1. ASSUME NEW o \in Orders, venue'[o].status = "none" PROVE o \notin rows'
    BY <1>0, <1>1, <2>1 DEF VenueInv, SessionInv, HeldInv, worldVars
  <2> QED BY <1>0, <1>1, <2>1 DEF VenueInv, worldVars
<1>6. ASSUME NEW o \in Orders
      PROVE  /\ o \notin rows' => ~db'[o].reconciled /\ ledger'[o] = <<>>
             /\ db'[o].reconciled =>
                  /\ IsTerminal(venue[o].status)
                  /\ venue[o].status = "filled" => ledger'[o] # <<>>
             /\ ledger'[o] # <<>> =>
                  /\ db'[o].reconciled
                  /\ venue[o].status = "filled"
                  /\ \A i \in 1..Len(ledger'[o]) : ledger'[o][i] = venue[o].filled
  <2>1. HeldInv(a, o)
    BY <1>0 DEF SessionInv
  <2>2. /\ o \notin rows => ~db[o].reconciled /\ ledger[o] = <<>>
        /\ db[o].reconciled =>
             /\ IsTerminal(venue[o].status)
             /\ venue[o].status = "filled" => ledger[o] # <<>>
        /\ ledger[o] # <<>> =>
             /\ db[o].reconciled
             /\ venue[o].status = "filled"
             /\ \A i \in 1..Len(ledger[o]) : ledger[o][i] = venue[o].filled
    BY <1>0 DEF DbInv
  <2>3. /\ db'[o].reconciled <=>
             db[o].reconciled \/ (view[a][o].reconciled /\ ~loaded[a][o].reconciled)
        /\ pend[a][o] = 0 => ledger'[o] = ledger[o]
        /\ pend[a][o] > 0 => ledger'[o] = Append(ledger[o], pend[a][o])
    BY CommitEffect
  <2>4. ledger[o] \in Seq(1..Qty) /\ pend[a][o] \in 0..Qty
    BY <1>0 DEF TypeOK
  <2>5. CASE pend[a][o] = 0
    BY <1>1, <2>1, <2>2, <2>3, <2>5 DEF HeldInv
  <2>6. CASE pend[a][o] > 0
    <3>1. pend[a][o] \in 1..Qty
      BY <2>4, <2>6, QtyAssumption
    <3>2. /\ ledger'[o] # <<>> /\ Len(ledger'[o]) = Len(ledger[o]) + 1
          /\ ledger'[o][Len(ledger[o]) + 1] = pend[a][o]
          /\ \A i \in 1..Len(ledger[o]) : ledger'[o][i] = ledger[o][i]
      BY <2>3, <2>4, <2>6, <3>1, AppendFacts
    <3>3. /\ view[a][o].reconciled /\ ~loaded[a][o].reconciled
          /\ venue[o].status = "filled" /\ pend[a][o] = venue[o].filled
          /\ o \in rows
      BY <2>1, <2>6 DEF HeldInv
    <3>4. Len(ledger[o]) \in Nat /\ (ledger[o] = <<>> => Len(ledger[o]) = 0)
      BY <2>4
    <3>5. \A i \in 1..Len(ledger'[o]) : ledger'[o][i] = venue[o].filled
      <4>1. ASSUME NEW i \in 1..Len(ledger[o]) PROVE ledger'[o][i] = venue[o].filled
        BY <2>2, <3>2, <3>4
      <4> QED BY <3>2, <3>3, <3>4, <4>1
    <3>6. IsTerminal(venue[o].status)
      BY <3>3 DEF IsTerminal, Terminal
    <3> QED BY <1>1, <2>3, <3>2, <3>3, <3>5, <3>6
  <2> QED BY <2>4, <2>5, <2>6, QtyAssumption
<1>7. DbInv'
  BY <1>1, <1>6 DEF DbInv, worldVars
<1>8. ASSUME NEW b \in Sessions, NEW o \in Orders
      PROVE  HeldInv(b, o)'
  <2>1. HeldInv(b, o) /\ HeldInv(a, o)
    BY <1>0 DEF SessionInv
  <2>2. db[o].reconciled => db'[o].reconciled
    BY CommitEffect
  <2>3. CASE b = a
    <3>1. /\ pc'[a] = "idle" /\ todo'[a] = {} /\ fresh'[a] = {}
          /\ loaded'[a] = NoRows /\ view'[a] = NoRows
          /\ pend'[a] = [x \in Orders |-> 0]
      BY <1>0, <1>2 DEF TypeOK
    <3>2. ~NoRows[o].reconciled
      BY <1>0, LoadType
    <3> QED BY <2>3, <3>1, <3>2 DEF HeldInv
  <2>4. CASE b # a
    <3>1. /\ pc'[b] = pc[b] /\ todo'[b] = todo[b] /\ loaded'[b] = loaded[b]
          /\ view'[b] = view[b] /\ pend'[b] = pend[b] /\ fresh'[b] = fresh[b]
      BY <1>4, <2>4 DEF OthersKeep
    <3>2. o \in fresh[b] => o \notin fresh[a]
      BY <1>0, <2>4 DEF FreshInv
    <3> QED BY <1>1, <2>1, <2>2, <3>1, <3>2 DEF HeldInv, worldVars
  <2> QED BY <2>3, <2>4
<1>9. FreshInv'
  BY <1>0, <1>2 DEF FreshInv, TypeOK
<1> QED BY <1>3, <1>5, <1>7, <1>8, <1>9 DEF IInv, SessionInv
-----------------------------------------------------------------------------
LEMMA InitIInv == Init => IInv
<1> SUFFICES ASSUME Init PROVE IInv
  OBVIOUS
<1>1. NewRow \in Row /\ ~NewRow.reconciled
  BY QtyAssumption DEF NewRow, Row, Statuses
<1>2. TypeOK
  <2>1. <<>> \in Seq(1..Qty)
    OBVIOUS
  <2> QED BY <1>1, <2>1, QtyAssumption, CrashAssumption
          DEF Init, TypeOK, VenueState, NoRows, Steps
<1>3. VenueInv /\ DbInv
  BY <1>1 DEF Init, VenueInv, DbInv, NoRows
<1>4. SessionInv /\ FreshInv
  BY <1>1, QtyAssumption DEF Init, SessionInv, HeldInv, FreshInv, NoRows
<1> QED BY <1>2, <1>3, <1>4 DEF IInv

LEMMA NextIInv == IInv /\ [Next]_vars => IInv'
<1> SUFFICES ASSUME IInv, [Next]_vars PROVE IInv'
  OBVIOUS
<1>1. CASE VenueNext
  BY <1>1, VenueNextKeeps
<1>2. ASSUME NEW s \in Sweepers, SweepNext(s) PROVE IInv'
  BY <1>2, SweepNextKeeps
<1>3. ASSUME NEW w \in WebhookWorkers, NEW m \in inbox, WebhookApply(w, m) PROVE IInv'
  BY <1>3, WebhookKeeps
<1>4. ASSUME NEW r \in Requests, RequestNext(r) PROVE IInv'
  BY <1>4, RequestNextKeeps
<1>5. ASSUME NEW a \in Sessions, Commit(a) PROVE IInv'
  BY <1>5, CommitKeeps
<1>6. ASSUME NEW a \in Sessions, Crash(a) PROVE IInv'
  <2>1. End(a) /\ UNCHANGED <<worldVars, dbVars>> /\ crashes' = crashes + 1
        /\ crashes < MaxCrashes
    BY <1>6 DEF Crash
  <2>2. crashes' \in 0..MaxCrashes
    BY <2>1, CrashAssumption DEF IInv, TypeOK
  <2> QED BY <2>1, <2>2, StillWorld, EndKeeps
<1>7. CASE UNCHANGED vars
  BY <1>7, StillWorld, VenueMoves DEF vars
<1> QED BY <1>1, <1>2, <1>3, <1>4, <1>5, <1>6, <1>7 DEF Next

\* Every reachable state satisfies the inductive invariant, for every number
\* of orders, sweeps, webhook workers and requests.
THEOREM Invariance == Spec => []IInv
  BY InitIInv, NextIInv, PTL DEF Spec

\* Rows and Transactions change only when a session commits.
LEMMA OnlyCommitsWrite ==
  ASSUME [Next]_vars
  PROVE  (\E a \in Sessions : Commit(a)) \/ UNCHANGED dbVars
<1>1. VenueNext => UNCHANGED dbVars
  BY DEF VenueNext, VenueFill, VenueClose
<1>2. \A s \in Sweepers : SweepNext(s) => UNCHANGED dbVars
  BY DEF SweepNext, SweepStart, PollOk, PollFail
<1>3. \A w \in WebhookWorkers, m \in inbox : WebhookApply(w, m) => UNCHANGED dbVars
  BY DEF WebhookApply
<1>4. ASSUME NEW r \in Requests, RequestNext(r) PROVE UNCHANGED dbVars
  <2>1. FlattenLoad(r) \/ ResyncFail(r) \/ ReplaceError(r) => UNCHANGED dbVars
    BY DEF FlattenLoad, ResyncFail, ReplaceError
  <2>2. ASSUME NEW o \in Orders
        PROVE  Place(r, o) \/ CancelLoad(r, o) \/ CancelAccepted(r, o)
               \/ CancelRefused(r, o) => UNCHANGED dbVars
    BY DEF Place, CancelLoad, CancelAccepted, CancelRefused
  <2>3. ASSUME NEW o \in Orders
        PROVE  CancelError(r, o) \/ Resync(r, o) \/ ReplaceLoad(r, o)
               \/ (\E n \in Orders : ReplaceAccepted(r, o, n)) => UNCHANGED dbVars
    BY DEF CancelError, Resync, ReplaceLoad, ReplaceAccepted
  <2> QED BY <1>4, <2>1, <2>2, <2>3 DEF RequestNext
<1>5. \A a \in Sessions : Crash(a) => UNCHANGED dbVars
  BY DEF Crash
<1>6. UNCHANGED vars => UNCHANGED dbVars
  BY DEF vars
<1> QED BY <1>1, <1>2, <1>3, <1>4, <1>5, <1>6 DEF Next

\* No commit takes the reconciled mark away.
THEOREM NotUnsettled == Spec => NeverUnsettled
<1>1. IInv /\ [Next]_vars => \A o \in Orders : db[o].reconciled => db'[o].reconciled
  <2> SUFFICES ASSUME IInv, [Next]_vars, NEW o \in Orders, db[o].reconciled
               PROVE  db'[o].reconciled
    OBVIOUS
  <2>1. CASE \E a \in Sessions : Commit(a)
    BY <2>1, CommitEffect
  <2>2. CASE UNCHANGED db
    BY <2>2
  <2>3. (\E a \in Sessions : Commit(a)) \/ UNCHANGED db
    BY OnlyCommitsWrite DEF dbVars
  <2> QED BY <2>1, <2>2, <2>3
<1>2. IInv /\ [Next]_vars
        => [\A o \in Orders : db[o].reconciled => db'[o].reconciled]_vars
  BY <1>1
<1> QED BY <1>2, Invariance, PTL DEF NeverUnsettled, Spec

\* The variables keep their types.
THEOREM TypeCorrect == Spec => []TypeOK
<1>1. IInv => TypeOK
  BY DEF IInv
<1> QED BY <1>1, Invariance, PTL

\* No order is taken off the sweep before the venue has closed it, and none
\* that was filled without its fill in the ledger.
THEOREM Settled == Spec => []SettledOnlyWhenClosed
<1>1. IInv => SettledOnlyWhenClosed
  BY DEF IInv, TypeOK, DbInv, SettledOnlyWhenClosed
<1> QED BY <1>1, Invariance, PTL

\* Whatever the ledger holds is the venue's final fill of a settled order.
THEOREM Booked == Spec => []BookedIsFinalFill
<1>1. IInv => BookedIsFinalFill
  BY DEF IInv, DbInv, BookedIsFinalFill
<1> QED BY <1>1, Invariance, PTL
-----------------------------------------------------------------------------
(* When one session does all the booking (the sweep alone, or the webhook  *)
(* alone), Reconciliation implements Settlement: SoleInv strengthens IInv  *)
(* with what only that session may do.                                     *)

Writers == Sweepers \union WebhookWorkers

SingleWriter == \A a, b \in Writers : a = b

\* A session that is going to settle an order is the writer, and nobody has
\* settled the order since it looked.
SoleHeld(a, o) ==
  /\ pc[a] = "sweep" => a \in Sweepers
  /\ pc[a] = "sweep" /\ o \in todo[a] => ~db[o].reconciled
  /\ view[a][o].reconciled /\ ~loaded[a][o].reconciled => a \in Writers
  /\ pend[a][o] > 0 => ~db[o].reconciled

SoleInv ==
  /\ \A a \in Sessions, o \in Orders : SoleHeld(a, o)
  /\ \A o \in Orders : Len(ledger[o]) <= 1

\* A step that commits nothing disturbs only the session that takes it.
LEMMA SoleFrame ==
  ASSUME IInv, SoleInv, UNCHANGED dbVars, NEW a \in Sessions, OthersKeep(a),
         \A o \in Orders : SoleHeld(a, o)'
  PROVE  SoleInv'
<1>1. ASSUME NEW b \in Sessions, NEW o \in Orders PROVE SoleHeld(b, o)'
  <2>1. SoleHeld(b, o)
    BY DEF SoleInv
  <2>2. CASE b # a
    BY <2>1, <2>2 DEF SoleHeld, OthersKeep, dbVars
  <2> QED BY <2>2
<1> QED BY <1>1 DEF SoleInv, dbVars

\* A session that ends, or begins with something else than a sweep.
LEMMA SoleQuiet ==
  ASSUME IInv, SoleInv, UNCHANGED dbVars, NEW a \in Sessions, OthersKeep(a),
         pc'[a] # "sweep",
         \A o \in Orders :
           /\ pend'[a][o] = 0 \/ pend'[a][o] = pend[a][o]
           /\ view'[a][o].reconciled /\ ~loaded'[a][o].reconciled =>
                view[a][o].reconciled /\ ~loaded[a][o].reconciled
  PROVE  SoleInv'
<1>1. ASSUME NEW o \in Orders PROVE SoleHeld(a, o)'
  <2>1. SoleHeld(a, o)
    BY DEF SoleInv
  <2> QED BY <2>1 DEF SoleHeld, dbVars
<1> QED BY <1>1, SoleFrame

LEMMA EndShape ==
  ASSUME TypeOK, NEW a \in Sessions, End(a)
  PROVE  /\ OthersKeep(a)
         /\ pc'[a] = "idle"
         /\ \A o \in Orders : /\ pend'[a][o] = 0
                              /\ ~view'[a][o].reconciled
                              /\ ~loaded'[a][o].reconciled
<1>1. \A o \in Orders : ~NoRows[o].reconciled
  BY LoadType
<1> QED BY <1>1 DEF End, TypeOK, OthersKeep

LEMMA BeginShape ==
  ASSUME TypeOK, NEW a \in Sessions, NEW step, NEW S, Begin(a, step, S)
  PROVE  /\ OthersKeep(a)
         /\ pc'[a] = step /\ todo'[a] = S
         /\ view'[a] = loaded'[a] /\ pend' = pend
  BY DEF Begin, TypeOK, OthersKeep

LEMMA SoleSweep ==
  ASSUME IInv, SoleInv, NEW s \in Sweepers, SweepNext(s)
  PROVE  SoleInv'
<1>0. s \in Sessions /\ s \in Writers /\ TypeOK /\ \A o \in Orders : SoleHeld(s, o)
  BY DEF Sessions, Writers, IInv, SoleInv
<1>1. CASE SweepStart(s)
  <2>1. Begin(s, "sweep", SweepSelection) /\ UNCHANGED dbVars
    BY <1>1 DEF SweepStart
  <2>2. /\ OthersKeep(s) /\ todo'[s] = SweepSelection
        /\ view'[s] = loaded'[s] /\ pend' = pend
    BY <1>0, <2>1, BeginShape
  <2>3. ASSUME NEW o \in Orders PROVE SoleHeld(s, o)'
    BY <1>0, <2>1, <2>2 DEF SoleHeld, SweepSelection, Unreconciled, dbVars
  <2> QED BY <1>0, <2>1, <2>2, <2>3, SoleFrame
<1>2. ASSUME NEW o \in Orders, PollOk(s, o) PROVE SoleInv'
  <2>1. /\ pc[s] = "sweep" /\ o \in todo[s]
        /\ view' = [view EXCEPT ![s][o] = Apply(@, venue[o])]
        /\ pend' = [pend EXCEPT ![s][o] = Booking(view[s][o], venue[o])]
        /\ todo' = [todo EXCEPT ![s] = @ \ {o}]
        /\ UNCHANGED <<worldVars, dbVars, pc, loaded, fresh, crashes>>
    BY <1>2 DEF PollOk
  <2>2. /\ OthersKeep(s) /\ todo'[s] = todo[s] \ {o}
        /\ \A x \in Orders \ {o} : view'[s][x] = view[s][x] /\ pend'[s][x] = pend[s][x]
    BY <1>0, <2>1 DEF TypeOK, OthersKeep
  <2>3. ASSUME NEW x \in Orders PROVE SoleHeld(s, x)'
    <3>1. SoleHeld(s, x) /\ SoleHeld(s, o)
      BY <1>0
    <3>2. CASE x = o
      BY <1>0, <2>1, <2>2, <3>1, <3>2 DEF SoleHeld, dbVars
    <3>3. CASE x # o
      BY <2>1, <2>2, <3>1, <3>3 DEF SoleHeld, dbVars
    <3> QED BY <3>2, <3>3
  <2> QED BY <1>0, <2>1, <2>2, <2>3, SoleFrame
<1>3. ASSUME NEW o \in Orders, PollFail(s, o) PROVE SoleInv'
  <2>1. /\ todo' = [todo EXCEPT ![s] = @ \ {o}]
        /\ UNCHANGED <<worldVars, dbVars, pc, loaded, view, pend, fresh, crashes>>
    BY <1>3 DEF PollFail
  <2>2. OthersKeep(s) /\ todo'[s] = todo[s] \ {o}
    BY <1>0, <2>1 DEF TypeOK, OthersKeep
  <2>3. ASSUME NEW x \in Orders PROVE SoleHeld(s, x)'
    BY <1>0, <2>1, <2>2 DEF SoleHeld, dbVars
  <2> QED BY <1>0, <2>1, <2>2, <2>3, SoleFrame
<1> QED BY <1>1, <1>2, <1>3 DEF SweepNext

LEMMA SoleWebhook ==
  ASSUME IInv, SoleInv, NEW w \in WebhookWorkers, NEW m \in inbox, WebhookApply(w, m)
  PROVE  SoleInv'
<1> DEFINE o == m.order
<1>0. w \in Sessions /\ w \in Writers /\ TypeOK
  BY DEF Sessions, Writers, IInv
<1>1. /\ pc[w] = "idle" /\ o \in Orders /\ db[o] \in Row /\ m.filled \in 0..Qty
      /\ pc' = [pc EXCEPT ![w] = "commit"]
      /\ loaded' = [loaded EXCEPT ![w] = Load({o})]
      /\ view' = [view EXCEPT ![w] = [Load({o}) EXCEPT ![o] = Apply(@, m)]]
      /\ pend' = [pend EXCEPT ![w][o] = Booking(db[o], m)]
      /\ UNCHANGED <<worldVars, dbVars, todo, fresh, crashes>>
  BY <1>0 DEF WebhookApply, TypeOK, Message
<1>2. OthersKeep(w) /\ pc'[w] = "commit" /\ pend'[w][o] = Booking(db[o], m)
      /\ \A x \in Orders \ {o} : pend'[w][x] = pend[w][x]
  BY <1>0, <1>1 DEF TypeOK, OthersKeep
<1>3. ASSUME NEW x \in Orders PROVE SoleHeld(w, x)'
  <2>1. Booking(db[o], m) > 0 => ~db[o].reconciled
    BY <1>1, ApplyMeaning DEF Books
  <2>2. pend[w][x] = 0
    BY <1>0, <1>1 DEF IInv, SessionInv, HeldInv
  <2> QED BY <1>0, <1>1, <1>2, <2>1, <2>2 DEF SoleHeld, dbVars
<1> QED BY <1>0, <1>1, <1>2, <1>3, SoleFrame

LEMMA SoleRequest ==
  ASSUME IInv, SoleInv, NEW r \in Requests, RequestNext(r)
  PROVE  SoleInv'
<1>0. r \in Sessions /\ TypeOK
  BY DEF Sessions, IInv
<1>1. ASSUME NEW S, NEW step, step # "sweep", Begin(r, step, S), UNCHANGED dbVars
      PROVE  SoleInv'
  <2>1. OthersKeep(r) /\ pc'[r] = step /\ view'[r] = loaded'[r] /\ pend' = pend
    BY <1>0, <1>1, BeginShape
  <2> QED BY <1>0, <1>1, <2>1, SoleQuiet
<1>2. ASSUME End(r), UNCHANGED dbVars PROVE SoleInv'
  <2>1. /\ OthersKeep(r) /\ pc'[r] = "idle"
        /\ \A o \in Orders : pend'[r][o] = 0 /\ ~view'[r][o].reconciled
    BY <1>0, <1>2, EndShape
  <2> QED BY <1>0, <1>2, <2>1, SoleQuiet
<1>3. ASSUME OthersKeep(r), pc'[r] # "sweep", UNCHANGED <<dbVars, loaded, pend>>,
             \A o \in Orders : view'[r][o].reconciled = view[r][o].reconciled
      PROVE  SoleInv'
  BY <1>0, <1>3, SoleQuiet
<1>4. CASE FlattenLoad(r)
  BY <1>1, <1>4 DEF FlattenLoad
<1>5. CASE ResyncFail(r) \/ ReplaceError(r)
  BY <1>2, <1>5 DEF ResyncFail, ReplaceError
<1>6. ASSUME NEW o \in Orders, CancelLoad(r, o) \/ ReplaceLoad(r, o)
      PROVE  SoleInv'
  BY <1>1, <1>6 DEF CancelLoad, ReplaceLoad
<1>7. ASSUME NEW o \in Orders, Place(r, o) PROVE SoleInv'
  <2>1. OthersKeep(r) /\ pc'[r] = "commit"
    BY <1>0, <1>7 DEF Place, TypeOK, OthersKeep
  <2> QED BY <1>3, <1>7, <2>1 DEF Place
<1>8. ASSUME NEW o \in Orders, CancelAccepted(r, o) PROVE SoleInv'
  <2>1. OthersKeep(r) /\ pc'[r] # "sweep"
    BY <1>0, <1>8 DEF CancelAccepted, TypeOK, OthersKeep
  <2>2. \A x \in Orders : view'[r][x].reconciled = view[r][x].reconciled
    BY <1>0, <1>8 DEF CancelAccepted, TypeOK, Row
  <2> QED BY <1>3, <1>8, <2>1, <2>2 DEF CancelAccepted
<1>9. ASSUME NEW o \in Orders, CancelRefused(r, o) PROVE SoleInv'
  <2>1. OthersKeep(r) /\ pc'[r] # "sweep"
    BY <1>0, <1>9 DEF CancelRefused, TypeOK, OthersKeep
  <2> QED BY <1>3, <1>9, <2>1 DEF CancelRefused
<1>10. ASSUME NEW o \in Orders, CancelError(r, o) PROVE SoleInv'
  <2>1. CASE pc[r] = "cancel"
    BY <1>2, <1>10, <2>1 DEF CancelError
  <2>2. CASE pc[r] # "cancel"
    <3>1. OthersKeep(r) /\ pc'[r] # "sweep"
      BY <1>0, <1>10, <2>2 DEF CancelError, TypeOK, OthersKeep
    <3> QED BY <1>3, <1>10, <2>2, <3>1 DEF CancelError
  <2> QED BY <2>1, <2>2
<1>11. ASSUME NEW o \in Orders, Resync(r, o) PROVE SoleInv'
  <2>1. OthersKeep(r) /\ pc'[r] # "sweep"
    BY <1>0, <1>11 DEF Resync, TypeOK, OthersKeep
  <2>2. \A x \in Orders : view'[r][x].reconciled = view[r][x].reconciled
    BY <1>0, <1>11 DEF Resync, TypeOK, Row
  <2> QED BY <1>3, <1>11, <2>1, <2>2 DEF Resync
<1>12. ASSUME NEW o \in Orders, NEW n \in Orders, ReplaceAccepted(r, o, n)
       PROVE  SoleInv'
  <2>1. OthersKeep(r) /\ pc'[r] # "sweep"
    BY <1>0, <1>12 DEF ReplaceAccepted, TypeOK, OthersKeep
  <2>2. \A x \in Orders : view'[r][x].reconciled = view[r][x].reconciled
    BY <1>0, <1>12 DEF ReplaceAccepted, TypeOK, Row
  <2> QED BY <1>3, <1>12, <2>1, <2>2 DEF ReplaceAccepted
<1> QED BY <1>4, <1>5, <1>6, <1>7, <1>8, <1>9, <1>10, <1>11, <1>12 DEF RequestNext

\* An order that a commit settles: the writer settles it, for the first time,
\* and books the fill if there is one.
LEMMA Settles ==
  ASSUME IInv, SoleInv, NEW a \in Sessions, Commit(a), NEW o \in Orders,
         ~db[o].reconciled, db'[o].reconciled
  PROVE  /\ a \in Writers
         /\ view[a][o].reconciled /\ ~loaded[a][o].reconciled
         /\ ledger[o] = <<>>
         /\ IsTerminal(venue[o].status)
         /\ IF venue[o].status = "filled" THEN ledger'[o] = <<Qty>> ELSE ledger'[o] = <<>>
<1>1. view[a][o].reconciled /\ ~loaded[a][o].reconciled
  BY CommitEffect
<1>2. SoleHeld(a, o) /\ HeldInv(a, o) /\ pend[a][o] \in 0..Qty
  BY DEF SoleInv, IInv, SessionInv, TypeOK
<1>3. ledger[o] = <<>>
  BY DEF IInv, DbInv
<1>4. /\ pend[a][o] = 0 => ledger'[o] = ledger[o]
      /\ pend[a][o] > 0 => ledger'[o] = Append(ledger[o], pend[a][o])
  BY CommitEffect
<1>5. CASE pend[a][o] > 0
  <2>1. venue[o].status = "filled" /\ pend[a][o] = Qty /\ IsTerminal(venue[o].status)
    BY <1>2, <1>5 DEF HeldInv, IInv, VenueInv, IsTerminal, Terminal
  <2>2. Append(<<>>, Qty) = <<Qty>>
    OBVIOUS
  <2> QED BY <1>1, <1>2, <1>3, <1>4, <1>5, <2>1, <2>2 DEF SoleHeld
<1>6. CASE pend[a][o] = 0
  <2>1. venue[o].status # "filled" /\ IsTerminal(venue[o].status)
    BY <1>1, <1>2, <1>6 DEF HeldInv
  <2> QED BY <1>1, <1>2, <1>3, <1>4, <1>6, <2>1 DEF SoleHeld
<1> QED BY <1>2, <1>5, <1>6, QtyAssumption

\* An order that a commit does not settle: its ledger stays as it was.
LEMMA Spares ==
  ASSUME IInv, SoleInv, NEW a \in Sessions, Commit(a), NEW o \in Orders,
         db[o].reconciled \/ ~db'[o].reconciled
  PROVE  (db'[o].reconciled <=> db[o].reconciled) /\ ledger'[o] = ledger[o]
<1>1. SoleHeld(a, o) /\ HeldInv(a, o) /\ pend[a][o] \in 0..Qty
  BY DEF SoleInv, IInv, SessionInv, TypeOK
<1>2. /\ db'[o].reconciled <=>
           db[o].reconciled \/ (view[a][o].reconciled /\ ~loaded[a][o].reconciled)
      /\ pend[a][o] = 0 => ledger'[o] = ledger[o]
  BY CommitEffect
<1>3. ~(pend[a][o] > 0)
  BY <1>1, <1>2 DEF SoleHeld, HeldInv
<1> QED BY <1>1, <1>2, <1>3, QtyAssumption

LEMMA SoleCommit ==
  ASSUME SingleWriter, IInv, SoleInv, NEW a \in Sessions, Commit(a)
  PROVE  SoleInv'
<1>0. TypeOK /\ End(a)
  BY DEF IInv, Commit
<1>1. /\ OthersKeep(a) /\ pc'[a] = "idle"
      /\ \A o \in Orders : pend'[a][o] = 0 /\ ~view'[a][o].reconciled
  BY <1>0, EndShape
<1>2. ASSUME NEW b \in Sessions, NEW o \in Orders PROVE SoleHeld(b, o)'
  <2>1. SoleHeld(b, o) /\ HeldInv(b, o)
    BY DEF SoleInv, IInv, SessionInv
  <2>2. CASE b = a
    BY <1>1, <2>2 DEF SoleHeld
  <2>3. CASE b # a
    <3>1. /\ pc'[b] = pc[b] /\ todo'[b] = todo[b] /\ loaded'[b] = loaded[b]
          /\ view'[b] = view[b] /\ pend'[b] = pend[b]
      BY <1>1, <2>3 DEF OthersKeep
    <3>2. CASE ~db[o].reconciled /\ db'[o].reconciled
      <4>1. b \notin Writers
        BY <2>3, <3>2, Settles DEF SingleWriter
      <4>2. b \notin Sweepers
        BY <4>1 DEF Writers
      <4> QED BY <2>1, <3>1, <4>1, <4>2 DEF SoleHeld, HeldInv
    <3>3. CASE db[o].reconciled \/ ~db'[o].reconciled
      <4>1. db'[o].reconciled <=> db[o].reconciled
        BY <3>3, Spares
      <4> QED BY <2>1, <3>1, <4>1 DEF SoleHeld
    <3> QED BY <3>2, <3>3
  <2> QED BY <2>2, <2>3
<1>3. ASSUME NEW o \in Orders PROVE Len(ledger'[o]) <= 1
  <2>1. CASE ~db[o].reconciled /\ db'[o].reconciled
    <3>1. ledger'[o] = <<Qty>> \/ ledger'[o] = <<>>
      BY <2>1, Settles
    <3>2. Len(<<Qty>>) = 1 /\ Len(<<>>) = 0
      OBVIOUS
    <3>3. Len(ledger'[o]) = Len(<<Qty>>) \/ Len(ledger'[o]) = Len(<<>>)
      BY <3>1, Zenon
    <3>4. Len(ledger'[o]) \in {0, 1}
      BY <3>2, <3>3, Zenon
    <3>5. \A k \in {0, 1} : k <= 1
      OBVIOUS
    <3> QED BY <3>4, <3>5, Zenon
  <2>2. CASE db[o].reconciled \/ ~db'[o].reconciled
    BY <2>2, Spares DEF SoleInv
  <2> QED BY <2>1, <2>2
<1> QED BY <1>2, <1>3 DEF SoleInv

LEMMA SoleInit == Init => SoleInv
<1> SUFFICES ASSUME Init PROVE SoleInv
  OBVIOUS
<1>1. ~NewRow.reconciled
  BY DEF NewRow
<1>2. ASSUME NEW o \in Orders PROVE Len(ledger[o]) <= 1
  BY DEF Init
<1> QED BY <1>1, <1>2 DEF Init, SoleInv, SoleHeld, NoRows

LEMMA SoleNext == SingleWriter /\ IInv /\ SoleInv /\ [Next]_vars => SoleInv'
<1> SUFFICES ASSUME SingleWriter, IInv, SoleInv, [Next]_vars PROVE SoleInv'
  OBVIOUS
<1>1. CASE UNCHANGED <<dbVars, sessionVars>>
  BY <1>1 DEF SoleInv, SoleHeld, dbVars, sessionVars
<1>2. VenueNext => UNCHANGED <<dbVars, sessionVars>>
  BY DEF VenueNext, VenueFill, VenueClose
<1>3. UNCHANGED vars => UNCHANGED <<dbVars, sessionVars>>
  BY DEF vars
<1>4. ASSUME NEW a \in Sessions, Crash(a) PROVE SoleInv'
  <2>1. End(a) /\ UNCHANGED dbVars /\ TypeOK
    BY <1>4 DEF Crash, IInv
  <2>2. /\ OthersKeep(a) /\ pc'[a] = "idle"
        /\ \A o \in Orders : pend'[a][o] = 0 /\ ~view'[a][o].reconciled
    BY <2>1, EndShape
  <2> QED BY <2>1, <2>2, SoleQuiet
<1> QED BY <1>1, <1>2, <1>3, <1>4, SoleSweep, SoleWebhook, SoleRequest, SoleCommit
        DEF Next

\* With one session that books, no fill is booked twice.
THEOREM BookedOnce ==
  ASSUME SingleWriter
  PROVE  Spec => []BookedAtMostOnce
<1>1. Init => SoleInv
  BY SoleInit
<1>2. IInv /\ SoleInv /\ [Next]_vars => SoleInv'
  BY SoleNext
<1>3. SoleInv => BookedAtMostOnce
  BY DEF SoleInv, BookedAtMostOnce
<1> QED BY <1>1, <1>2, <1>3, Invariance, PTL DEF Spec
-----------------------------------------------------------------------------
(* The refinement.                                                         *)

\* The step does not end order x.
StillWorking(x) ==
  \/ venue'[x].status = venue[x].status
  \/ ~IsTerminal(venue[x].status) /\ ~IsTerminal(venue'[x].status)

\* A step outside the database ends at most one order of the market.
LEMMA MarketMoves ==
  ASSUME UNCHANGED dbVars, NEW o \in Orders, ~IsTerminal(venue[o].status),
         \A x \in Orders \ {o} : StillWorking(x)
  PROVE  [Abstract!Next]_<<MarketView, BookView>>
<1> DEFINE how == MarketView'[o]
<1>1. BookView' = BookView
  BY DEF BookView, dbVars
<1>2. MarketView[o] = "working"
  BY DEF MarketView, IsTerminal, Terminal
<1>3. MarketView' = [MarketView EXCEPT ![o] = how]
  <2>1. \A x \in Orders \ {o} : MarketView'[x] = MarketView[x]
    BY DEF MarketView, StillWorking, IsTerminal, Terminal
  <2> QED BY <2>1 DEF MarketView
<1>4. how \in {"working", "filled", "closed"}
  BY DEF MarketView
<1>5. CASE how = "working"
  <2>1. MarketView' = MarketView
    BY <1>2, <1>3, <1>5 DEF MarketView
  <2> QED BY <1>1, <2>1
<1>6. CASE how \in {"filled", "closed"}
  <2>1. Abstract!MarketEnds(o, how)
    BY <1>1, <1>2, <1>3 DEF Abstract!MarketEnds
  <2> QED BY <1>6, <2>1 DEF Abstract!Next
<1> QED BY <1>4, <1>5, <1>6

\* A commit settles the orders it takes off the sweep.
LEMMA CommitSettles ==
  ASSUME IInv, SoleInv, NEW a \in Sessions, Commit(a)
  PROVE  Abstract!Next
<1> DEFINE S == {o \in Orders : ~db[o].reconciled /\ db'[o].reconciled}
<1>1. MarketView' = MarketView
  BY DEF Commit, MarketView, worldVars
<1>2. ASSUME NEW o \in S PROVE MarketView[o] # "working" /\ BookView[o] = "open"
  BY <1>2, Settles DEF MarketView, BookView
<1>3. ASSUME NEW o \in S
      PROVE  BookView'[o] = IF MarketView[o] = "filled" THEN "booked" ELSE "closed"
  <2>1. /\ IsTerminal(venue[o].status)
        /\ IF venue[o].status = "filled" THEN ledger'[o] = <<Qty>> ELSE ledger'[o] = <<>>
    BY <1>3, Settles
  <2>2. <<Qty>> # <<>>
    OBVIOUS
  <2> QED BY <2>1, <2>2 DEF MarketView, BookView
<1>4. ASSUME NEW o \in Orders \ S PROVE BookView'[o] = BookView[o]
  <2>1. (db'[o].reconciled <=> db[o].reconciled) /\ ledger'[o] = ledger[o]
    BY <1>4, Spares
  <2> QED BY <2>1 DEF BookView
<1>5. BookView' = [o \in Orders |-> IF o \notin S THEN BookView[o]
                                    ELSE IF MarketView[o] = "filled" THEN "booked"
                                    ELSE "closed"]
  BY <1>3, <1>4 DEF BookView
<1>6. Abstract!Settle(S)
  BY <1>1, <1>2, <1>5 DEF Abstract!Settle
<1>7. S \in SUBSET Orders
  OBVIOUS
<1> QED BY <1>6, <1>7 DEF Abstract!Next

LEMMA StepRefines ==
  ASSUME IInv, SoleInv, [Next]_vars
  PROVE  [Abstract!Next]_<<MarketView, BookView>>
<1>0. TypeOK
  BY DEF IInv
<1>1. ASSUME UNCHANGED dbVars, UNCHANGED venue
      PROVE  [Abstract!Next]_<<MarketView, BookView>>
  BY <1>1 DEF MarketView, BookView, dbVars
<1>2. ASSUME NEW o \in Orders, NEW v, Move(o, v), ~IsTerminal(venue[o].status),
             UNCHANGED dbVars
      PROVE  [Abstract!Next]_<<MarketView, BookView>>
  <2>1. \A x \in Orders \ {o} : venue'[x] = venue[x]
    BY <1>0, <1>2 DEF Move, TypeOK
  <2>2. \A x \in Orders \ {o} : StillWorking(x)
    BY <2>1 DEF StillWorking
  <2> QED BY <1>2, <2>2, MarketMoves
<1>3. CASE VenueNext
  <2>1. ASSUME NEW o \in Orders, NEW n \in 1..Qty, VenueFill(o, n)
        PROVE  [Abstract!Next]_<<MarketView, BookView>>
    BY <1>2, <2>1 DEF VenueFill, Working
  <2>2. ASSUME NEW o \in Orders, NEW status \in ClosedStatuses, VenueClose(o, status)
        PROVE  [Abstract!Next]_<<MarketView, BookView>>
    BY <1>2, <2>2 DEF VenueClose, Working
  <2> QED BY <1>3, <2>1, <2>2 DEF VenueNext
<1>4. ASSUME NEW s \in Sweepers, SweepNext(s)
      PROVE  [Abstract!Next]_<<MarketView, BookView>>
  BY <1>1, <1>4 DEF SweepNext, SweepStart, PollOk, PollFail, worldVars
<1>5. ASSUME NEW w \in WebhookWorkers, NEW m \in inbox, WebhookApply(w, m)
      PROVE  [Abstract!Next]_<<MarketView, BookView>>
  BY <1>1, <1>5 DEF WebhookApply, worldVars
<1>6. ASSUME NEW r \in Requests, RequestNext(r)
      PROVE  [Abstract!Next]_<<MarketView, BookView>>
  <2>1. CASE FlattenLoad(r) \/ ResyncFail(r) \/ ReplaceError(r)
    BY <1>1, <2>1 DEF FlattenLoad, ResyncFail, ReplaceError, worldVars
  <2>2. ASSUME NEW o \in Orders,
               CancelLoad(r, o) \/ CancelRefused(r, o) \/ Resync(r, o) \/ ReplaceLoad(r, o)
        PROVE  [Abstract!Next]_<<MarketView, BookView>>
    BY <1>1, <2>2 DEF CancelLoad, CancelRefused, Resync, ReplaceLoad, worldVars
  <2>3. ASSUME NEW o \in Orders, Place(r, o)
        PROVE  [Abstract!Next]_<<MarketView, BookView>>
    BY <1>2, <2>3 DEF Place, IsTerminal, Terminal
  <2>4. ASSUME NEW o \in Orders, CancelAccepted(r, o)
        PROVE  [Abstract!Next]_<<MarketView, BookView>>
    BY <1>2, <2>4 DEF CancelAccepted, Working
  <2>5. ASSUME NEW o \in Orders, CancelError(r, o)
        PROVE  [Abstract!Next]_<<MarketView, BookView>>
    BY <1>1, <1>2, <2>5 DEF CancelError, Working, worldVars
  <2>6. ASSUME NEW o \in Orders, NEW n \in Orders, ReplaceAccepted(r, o, n)
        PROVE  [Abstract!Next]_<<MarketView, BookView>>
    <3>1. /\ Working(venue[o]) /\ venue[n].status = "none" /\ UNCHANGED dbVars
          /\ venue' = [venue EXCEPT ![o].status = "replaced",
                                    ![n] = [status |-> "new", filled |-> 0]]
      BY <2>6 DEF ReplaceAccepted
    <3>2. \A x \in Orders \ {o, n} : venue'[x] = venue[x]
      BY <1>0, <3>1 DEF TypeOK
    <3>3. venue'[n].status = "new"
      BY <1>0, <3>1 DEF TypeOK, Working
    <3>4. ~IsTerminal("none") /\ ~IsTerminal("new")
      BY DEF IsTerminal, Terminal
    <3>5. \A x \in Orders \ {o} : StillWorking(x)
      BY <3>1, <3>2, <3>3, <3>4 DEF StillWorking
    <3>6. ~IsTerminal(venue[o].status)
      BY <3>1 DEF Working
    <3> QED BY <3>1, <3>5, <3>6, MarketMoves
  <2> QED BY <1>6, <2>1, <2>2, <2>3, <2>4, <2>5, <2>6 DEF RequestNext
<1>7. ASSUME NEW a \in Sessions, Commit(a)
      PROVE  [Abstract!Next]_<<MarketView, BookView>>
  BY <1>7, CommitSettles
<1>8. ASSUME NEW a \in Sessions, Crash(a)
      PROVE  [Abstract!Next]_<<MarketView, BookView>>
  BY <1>1, <1>8 DEF Crash, worldVars
<1>9. CASE UNCHANGED vars
  BY <1>1, <1>9 DEF vars, worldVars
<1> QED BY <1>3, <1>4, <1>5, <1>6, <1>7, <1>8, <1>9 DEF Next

\* With one session that books, sweeps, webhooks, requests and crashes are an
\* implementation of Settlement: every order is settled once, as it ended.
THEOREM Refinement ==
  ASSUME SingleWriter
  PROVE  Spec => ImplementsSettlement
<1>1. Init => Abstract!Init
  BY DEF Init, Abstract!Init, MarketView, BookView, NoRows, NewRow, IsTerminal, Terminal
<1>2. Init => SoleInv
  BY SoleInit
<1>3. IInv /\ SoleInv /\ [Next]_vars => SoleInv'
  BY SoleNext
<1>4. IInv /\ SoleInv /\ [Next]_vars => [Abstract!Next]_<<MarketView, BookView>>
  BY StepRefines
<1> QED BY <1>1, <1>2, <1>3, <1>4, Invariance, PTL
        DEF Spec, ImplementsSettlement, Abstract!Spec
=============================================================================
