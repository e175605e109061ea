-------------------------- MODULE ExecutionProofs ---------------------------
(***************************************************************************)
(* Theorems about Execution, for every set of keys, accounts, requests and *)
(* operators.  IInv adds to the invariants what a running request knows.   *)
(***************************************************************************)
EXTENDS Execution, FiniteSetTheorems, TLAPS

\* What request r knows at each of its awaits.
RequestInv(r) ==
  /\ pc[r] # "idle" => key[r] \in Keys
  /\ pc[r] \in {"place", "persist"} => account[r] \in Accounts
  /\ pc[r] = "persist" => venue[Order(r)] # "none"
  /\ pc[r] = "idle" => r \notin earlier

\* The halt binds a request from the moment it reads the switch.
HaltInv ==
  manual => \A r \in Requests :
    /\ pc[r] \in {"gates", "place", "persist"} => r \in earlier
    /\ pc[r] = "halt" => r \in earlier \/ sawHalt[r]

IInv ==
  /\ TypeOK
  /\ \A r \in Requests : RequestInv(r)
  /\ HaltInv
  /\ OneOrderPerKey
  /\ OnFileIsAtVenue
  /\ OrphansNeedAFault
-----------------------------------------------------------------------------
LEMMA OrderType ==
  ASSUME IInv, NEW r \in Requests
  PROVE  /\ pc[r] # "idle" => key[r] \in Keys
         /\ pc[r] \in {"place", "persist"} =>
              /\ account[r] \in Accounts
              /\ Order(r) \in Orders
              /\ Order(r)[1] = account[r]
              /\ Order(r)[2] = key[r]
  BY DEF IInv, RequestInv, Order, Orders

LEMMA EndsFacts ==
  ASSUME IInv, NEW r \in Requests, Ends(r)
  PROVE  /\ pc'[r] = "idle" /\ r \notin earlier' /\ earlier' \subseteq earlier
         /\ \A s \in Requests \ {r} :
              /\ pc'[s] = pc[s] /\ key'[s] = key[s] /\ sawHalt'[s] = sawHalt[s]
              /\ account'[s] = account[s]
              /\ s \in earlier' <=> s \in earlier
         /\ pc' \in [Requests -> {"idle", "halt", "gates", "place", "persist"}]
         /\ key' \in [Requests -> Keys \union {None}]
         /\ sawHalt' \in [Requests -> BOOLEAN]
         /\ account' \in [Requests -> Accounts \union {None}]
         /\ tries' \in [Requests -> 0..(MaxAttempts - 1)]
         /\ earlier' \subseteq Running'
  BY NumbersAssumption DEF IInv, TypeOK, Ends, Running

\* A request ends without touching the book, whatever happens at the venue.
LEMMA FailsKeeps ==
  ASSUME IInv, NEW r \in Requests, Fails(r),
         venue' \in [Orders -> {"none", "working", "closed"}],
         \A o \in Orders : venue[o] # "none" => venue'[o] # "none",
         \A o \in Orders : venue[o] = "none" /\ venue'[o] # "none" => lost' + crashes' > 0,
         pc[r] = "persist" => lost' + crashes' > 0,
         lost + crashes > 0 => lost' + crashes' > 0,
         lost' \in 0..MaxLost, crashes' \in 0..MaxCrashes,
         UNCHANGED <<creds, breached, manual, desk, todo, starts>>
  PROVE  IInv'
<1>0. TypeOK
  BY DEF IInv
<1>1. Ends(r) /\ UNCHANGED bookVars
  BY DEF Fails
<1>2. TypeOK'
  BY <1>0, <1>1, EndsFacts DEF TypeOK, bookVars
<1>3. \A s \in Requests : RequestInv(s)'
  <2>1. \A s \in Requests : Order(s)' = <<account'[s], key'[s]>>
    BY DEF Order
  <2>2. ASSUME NEW s \in Requests \ {r} PROVE RequestInv(s)'
    <3>1. RequestInv(s) /\ Order(s)' = Order(s)
      BY <1>1, EndsFacts DEF IInv, Order
    <3>2. pc[s] = "persist" => Order(s) \in Orders
      BY OrderType
    <3> QED BY <1>1, <3>1, <3>2, EndsFacts DEF RequestInv
  <2>3. RequestInv(r)'
    BY <1>1, EndsFacts DEF RequestInv
  <2> QED BY <2>2, <2>3
<1>4. HaltInv'
  BY <1>1, EndsFacts DEF IInv, HaltInv
<1>5. OneOrderPerKey'
  BY <1>1 DEF IInv, OneOrderPerKey, bookVars
<1>6. OnFileIsAtVenue'
  <2>1. ASSUME NEW k \in Recorded PROVE venue'[<<record[k], k>>] # "none"
    <3>1. <<record[k], k>> \in Orders
      BY <1>0 DEF TypeOK, Recorded, Orders
    <3> QED BY <3>1 DEF IInv, OnFileIsAtVenue
  <2> QED BY <1>1, <2>1 DEF OnFileIsAtVenue, Recorded, bookVars
<1>7. OrphansNeedAFault'
  <2> SUFFICES ASSUME NEW o \in Orders, venue'[o] # "none", ~(lost' + crashes' > 0)
               PROVE  o[2] \in Recorded' \/ \E s \in Requests : pc'[s] = "persist" /\ Order(s)' = o
    BY DEF OrphansNeedAFault
  <2>1. venue[o] # "none" /\ ~(lost + crashes > 0) /\ pc[r] # "persist"
    BY <1>0 DEF TypeOK
  <2>2. o[2] \in Recorded \/ \E s \in Requests : pc[s] = "persist" /\ Order(s) = o
    BY <2>1 DEF IInv, OrphansNeedAFault
  <2>3. Recorded' = Recorded
    BY <1>1 DEF Recorded, bookVars
  <2>4. \A s \in Requests \ {r} : pc'[s] = pc[s] /\ Order(s)' = Order(s)
    BY <1>1, EndsFacts DEF Order
  <2> QED BY <2>1, <2>2, <2>3, <2>4
<1> QED BY <1>2, <1>3, <1>4, <1>5, <1>6, <1>7 DEF IInv

\* A step at the end of which request r still runs and the book is as before.
LEMMA RunsOn ==
  ASSUME IInv, TypeOK', NEW r \in Requests, UNCHANGED <<bookVars, manual, lost, crashes>>,
         earlier' = earlier,
         \A s \in Requests \ {r} :
           pc'[s] = pc[s] /\ key'[s] = key[s] /\ sawHalt'[s] = sawHalt[s]
           /\ account'[s] = account[s],
         pc[r] # "persist",
         \A o \in Orders : venue[o] # "none" => venue'[o] # "none",
         \A o \in Orders : venue[o] = "none" /\ venue'[o] # "none"
                             => pc'[r] = "persist" /\ Order(r)' = o,
         RequestInv(r)',
         manual => /\ pc'[r] \in {"gates", "place", "persist"} => r \in earlier
                   /\ pc'[r] = "halt" => r \in earlier \/ sawHalt'[r]
  PROVE  IInv'
<1>0. TypeOK
  BY DEF IInv
<1>1. \A s \in Requests : RequestInv(s)'
  <2>1. ASSUME NEW s \in Requests \ {r} PROVE RequestInv(s)'
    <3>1. RequestInv(s) /\ Order(s)' = Order(s)
      BY DEF IInv, Order
    <3>2. pc[s] = "persist" => Order(s) \in Orders
      BY OrderType
    <3> QED BY <3>1, <3>2 DEF RequestInv
  <2> QED BY <2>1
<1>2. HaltInv'
  BY DEF IInv, HaltInv
<1>3. OneOrderPerKey'
  BY DEF IInv, OneOrderPerKey, bookVars
<1>4. OnFileIsAtVenue'
  <2>1. ASSUME NEW k \in Recorded PROVE venue'[<<record[k], k>>] # "none"
    <3>1. <<record[k], k>> \in Orders
      BY <1>0 DEF TypeOK, Recorded, Orders
    <3> QED BY <3>1 DEF IInv, OnFileIsAtVenue
  <2> QED BY <2>1 DEF OnFileIsAtVenue, Recorded, bookVars
<1>5. OrphansNeedAFault'
  <2> SUFFICES ASSUME NEW o \in Orders, venue'[o] # "none", ~(lost' + crashes' > 0)
               PROVE  o[2] \in Recorded' \/ \E s \in Requests : pc'[s] = "persist" /\ Order(s)' = o
    BY DEF OrphansNeedAFault
  <2>1. CASE venue[o] = "none"
    BY <2>1
  <2>2. CASE venue[o] # "none"
    <3>1. o[2] \in Recorded \/ \E s \in Requests : pc[s] = "persist" /\ Order(s) = o
      BY <2>2 DEF IInv, OrphansNeedAFault
    <3>2. Recorded' = Recorded
      BY DEF Recorded, bookVars
    <3>3. \A s \in Requests \ {r} : pc'[s] = pc[s] /\ Order(s)' = Order(s)
      BY DEF Order
    <3> QED BY <3>1, <3>2, <3>3
  <2> QED BY <2>1, <2>2
<1> QED BY <1>1, <1>2, <1>3, <1>4, <1>5 DEF IInv

\* A step of the operator or of the world, at which every request stands.
LEMMA Stands ==
  ASSUME IInv, TypeOK', UNCHANGED <<bookVars, requestVars, counters>>,
         \A o \in Orders : venue[o] # "none" <=> venue'[o] # "none",
         earlier \subseteq earlier',
         manual' => manual \/ earlier' = Running
  PROVE  IInv'
<1>0. TypeOK
  BY DEF IInv
<1>1. \A s \in Requests : RequestInv(s)'
  <2>1. ASSUME NEW s \in Requests PROVE RequestInv(s)'
    <3>1. RequestInv(s) /\ Order(s)' = Order(s)
      BY DEF IInv, Order, requestVars
    <3>2. pc[s] = "persist" => Order(s) \in Orders
      BY OrderType
    <3>3. pc[s] = "idle" => s \notin earlier'
      BY DEF TypeOK, Running, requestVars
    <3> QED BY <3>1, <3>2, <3>3 DEF RequestInv, requestVars
  <2> QED BY <2>1
<1>2. HaltInv'
  BY DEF IInv, HaltInv, Running, requestVars
<1>3. OneOrderPerKey'
  BY DEF IInv, OneOrderPerKey, bookVars
<1>4. OnFileIsAtVenue'
  <2>1. ASSUME NEW k \in Recorded PROVE venue'[<<record[k], k>>] # "none"
    <3>1. <<record[k], k>> \in Orders
      BY <1>0 DEF TypeOK, Recorded, Orders
    <3> QED BY <3>1 DEF IInv, OnFileIsAtVenue
  <2> QED BY <2>1 DEF OnFileIsAtVenue, Recorded, bookVars
<1>5. OrphansNeedAFault'
  <2>1. \A s \in Requests : pc'[s] = pc[s] /\ Order(s)' = Order(s)
    BY DEF Order, requestVars
  <2>2. Recorded' = Recorded
    BY DEF Recorded, bookVars
  <2> QED BY <2>1, <2>2 DEF IInv, OrphansNeedAFault, counters
<1> QED BY <1>1, <1>2, <1>3, <1>4, <1>5 DEF IInv

\* The caller is answered with the order on file.
LEMMA ReplayKeeps ==
  ASSUME IInv, NEW r \in Requests, pc[r] # "idle", key[r] \in Recorded, Replay(r),
         UNCHANGED <<venueVars, manual, desk, todo, counters>>
  PROVE  IInv'
<1>0. TypeOK /\ key[r] \in Keys
  BY OrderType DEF IInv
<1>1. /\ Ends(r) /\ record' = record /\ audit' = audit
      /\ told' = told \union {<<record[key[r]], key[r]>>}
  BY DEF Replay
<1>2. <<record[key[r]], key[r]>> \in Orders
  BY <1>0 DEF TypeOK, Recorded, Orders
<1>3. TypeOK'
  BY <1>0, <1>1, <1>2, EndsFacts DEF TypeOK, venueVars, counters
<1>4. \A s \in Requests : RequestInv(s)'
  <2>1. ASSUME NEW s \in Requests \ {r} PROVE RequestInv(s)'
    <3>1. RequestInv(s) /\ Order(s)' = Order(s)
      BY <1>1, EndsFacts DEF IInv, Order
    <3> QED BY <1>1, <3>1, EndsFacts DEF RequestInv, venueVars
  <2>2. RequestInv(r)'
    BY <1>1, EndsFacts DEF RequestInv
  <2> QED BY <2>1, <2>2
<1>5. HaltInv'
  BY <1>1, EndsFacts DEF IInv, HaltInv
<1>6. OneOrderPerKey'
  BY <1>1 DEF IInv, OneOrderPerKey
<1>7. OnFileIsAtVenue'
  BY <1>1 DEF IInv, OnFileIsAtVenue, Recorded, venueVars
<1>8. OrphansNeedAFault'
  <2>1. Recorded' = Recorded
    BY <1>1 DEF Recorded
  <2>2. \A s \in Requests \ {r} : pc'[s] = pc[s] /\ Order(s)' = Order(s)
    BY <1>1, EndsFacts DEF Order
  <2>3. pc[r] = "persist" => Order(r)[2] \in Recorded
    BY OrderType
  <2> QED BY <2>1, <2>2, <2>3 DEF IInv, OrphansNeedAFault, venueVars, counters
<1> QED BY <1>3, <1>4, <1>5, <1>6, <1>7, <1>8 DEF IInv

LEMMA PersistKeeps ==
  ASSUME IInv, NEW r \in Requests, Persist(r)
  PROVE  IInv'
<1> DEFINE o == Order(r)
<1>0. TypeOK /\ pc[r] = "persist" /\ key[r] \in Keys /\ account[r] \in Accounts
      /\ o \in Orders /\ o[1] = account[r] /\ o[2] = key[r]
  BY OrderType DEF IInv, Persist
<1>1. CASE key[r] \in Recorded /\ Replay(r)
  BY <1>0, <1>1, ReplayKeeps DEF Persist
<1>2. CASE key[r] \notin Recorded /\ Ends(r)
           /\ record' = [record EXCEPT ![key[r]] = account[r]]
           /\ audit' = [audit EXCEPT ![o] = @ + 1]
           /\ told' = told \union {o}
  <2>0. UNCHANGED <<venueVars, manual, desk, todo, counters>>
    BY DEF Persist
  <2>1. record[key[r]] = None /\ account[r] # None
    BY <1>0, <1>2, NoneAssumption DEF Recorded
  <2>2. TypeOK'
    BY <1>0, <1>2, <2>0, EndsFacts DEF TypeOK, venueVars, counters
  <2>3. \A s \in Requests : RequestInv(s)'
    <3>1. ASSUME NEW s \in Requests \ {r} PROVE RequestInv(s)'
      <4>1. RequestInv(s) /\ Order(s)' = Order(s)
        BY <1>2, EndsFacts DEF IInv, Order
      <4> QED BY <1>2, <2>0, <4>1, EndsFacts DEF RequestInv, venueVars
    <3>2. RequestInv(r)'
      BY <1>2, EndsFacts DEF RequestInv
    <3> QED BY <3>1, <3>2
  <2>4. HaltInv'
    BY <1>2, <2>0, EndsFacts DEF IInv, HaltInv
  <2>5. OneOrderPerKey'
    <3>1. ASSUME NEW x \in told' PROVE record'[x[2]] = x[1]
      <4>1. CASE x = o
        BY <1>0, <1>2, <4>1 DEF TypeOK
      <4>2. CASE x # o
        <5>1. x \in told /\ x \in Orders /\ record[x[2]] = x[1] /\ x[1] \in Accounts
              /\ x[2] \in Keys
          BY <1>0, <1>2, <4>2 DEF IInv, OneOrderPerKey, TypeOK, Orders
        <5>2. x[2] # key[r]
          BY <2>1, <5>1, NoneAssumption
        <5> QED BY <1>0, <1>2, <5>1, <5>2 DEF TypeOK
      <4> QED BY <4>1, <4>2
    <3>2. ASSUME NEW x \in Orders
          PROVE  audit'[x] = IF record'[x[2]] = x[1] THEN 1 ELSE 0
      <4>1. /\ audit[x] = IF record[x[2]] = x[1] THEN 1 ELSE 0
            /\ x[1] \in Accounts /\ x[2] \in Keys /\ x = <<x[1], x[2]>>
        BY DEF IInv, OneOrderPerKey, Orders
      <4>2. CASE x = o
        <5>1. audit[x] = 0
          BY <1>0, <2>1, <4>1, <4>2, NoneAssumption
        <5> QED BY <1>0, <1>2, <4>2, <5>1 DEF TypeOK
      <4>3. CASE x # o /\ x[2] = key[r]
        <5>1. x[1] # account[r]
          BY <4>1, <4>3 DEF Order
        <5>2. audit[x] = 0
          BY <2>1, <4>1, <4>3, NoneAssumption
        <5> QED BY <1>0, <1>2, <4>3, <5>1, <5>2 DEF TypeOK
      <4>4. CASE x # o /\ x[2] # key[r]
        BY <1>0, <1>2, <4>1, <4>4 DEF TypeOK
      <4> QED BY <4>2, <4>3, <4>4
    <3> QED BY <3>1, <3>2 DEF OneOrderPerKey
  <2>6. venue[<<account[r], key[r]>>] # "none"
    BY <1>0 DEF IInv, RequestInv, Order
  <2>7. OnFileIsAtVenue'
    <3>1. ASSUME NEW k \in Keys, record'[k] # None PROVE venue[<<record'[k], k>>] # "none"
      <4>1. CASE k = key[r]
        BY <1>0, <1>2, <2>6, <4>1 DEF TypeOK
      <4>2. CASE k # key[r]
        BY <1>0, <1>2, <3>1, <4>2 DEF TypeOK, IInv, OnFileIsAtVenue, Recorded
      <4> QED BY <4>1, <4>2
    <3> QED BY <2>0, <3>1 DEF OnFileIsAtVenue, Recorded, venueVars
  <2>8. OrphansNeedAFault'
    <3>1. Recorded \subseteq Recorded' /\ o[2] \in Recorded'
      BY <1>0, <1>2, <2>1, NoneAssumption DEF Recorded, TypeOK
    <3>2. \A s \in Requests \ {r} : pc'[s] = pc[s] /\ Order(s)' = Order(s)
      BY <1>2, EndsFacts DEF Order
    <3> QED BY <2>0, <3>1, <3>2 DEF IInv, OrphansNeedAFault, venueVars, counters
  <2> QED BY <2>2, <2>3, <2>4, <2>5, <2>7, <2>8 DEF IInv
<1> QED BY <1>1, <1>2 DEF Persist

LEMMA StartKeeps ==
  ASSUME IInv, NEW r \in Requests, NEW k \in Keys, Start(r, k)
  PROVE  IInv'
<1>0. TypeOK
  BY DEF IInv
<1>1. TypeOK'
  BY <1>0, NumbersAssumption
     DEF TypeOK, Start, venueVars, bookVars, haltVars, Running
<1>2. RequestInv(r)'
  BY <1>0 DEF TypeOK, Start, RequestInv
<1> QED BY <1>0, <1>1, <1>2, RunsOn DEF TypeOK, Start, venueVars, bookVars, haltVars

LEMMA HaltCheckKeeps ==
  ASSUME IInv, NEW r \in Requests, HaltCheck(r)
  PROVE  IInv'
<1>0. TypeOK /\ pc[r] = "halt" /\ key[r] \in Keys
      /\ UNCHANGED <<venueVars, manual, desk, todo, counters>>
  BY OrderType DEF IInv, HaltCheck
<1>1. CASE Fails(r)
  BY <1>0, <1>1, FailsKeeps DEF TypeOK, venueVars, counters
<1>2. CASE key[r] \in Recorded /\ Replay(r)
  BY <1>0, <1>2, ReplayKeeps
<1>3. CASE /\ ~Halted(r)
           /\ pc' = [pc EXCEPT ![r] = "gates"]
           /\ UNCHANGED <<bookVars, key, sawHalt, account, tries, earlier>>
  <2>1. TypeOK'
    BY <1>0, <1>3 DEF TypeOK, venueVars, bookVars, counters, Running
  <2>2. RequestInv(r)'
    BY <1>0, <1>3 DEF TypeOK, RequestInv
  <2>3. manual => r \in earlier
    BY <1>0, <1>3 DEF IInv, HaltInv, Halted
  <2> QED BY <1>0, <1>3, <2>1, <2>2, <2>3, RunsOn DEF TypeOK, venueVars, counters
<1> QED BY <1>1, <1>2, <1>3 DEF HaltCheck

LEMMA GatesKeep ==
  ASSUME IInv, NEW r \in Requests, GatesPass(r) \/ GatesRefuse(r)
  PROVE  IInv'
<1>0. TypeOK
  BY DEF IInv
<1>1. CASE GatesPass(r)
  <2>1. TypeOK'
    BY <1>0, <1>1 DEF TypeOK, GatesPass, venueVars, bookVars, haltVars, counters, Running
  <2>2. RequestInv(r)'
    BY <1>0, <1>1 DEF IInv, TypeOK, RequestInv, GatesPass, haltVars
  <2>3. manual => r \in earlier
    BY <1>1 DEF IInv, HaltInv, GatesPass
  <2> QED BY <1>0, <1>1, <2>1, <2>2, <2>3, RunsOn
          DEF TypeOK, GatesPass, venueVars, haltVars, counters
<1>2. CASE GatesRefuse(r)
  BY <1>0, <1>2, FailsKeeps DEF TypeOK, GatesRefuse, venueVars, counters
<1> QED BY <1>1, <1>2

LEMMA VenueTakesFacts ==
  ASSUME TypeOK, NEW o \in Orders, VenueTakes(o)
  PROVE  /\ venue' \in [Orders -> {"none", "working", "closed"}]
         /\ venue'[o] = "working"
         /\ \A x \in Orders \ {o} : venue'[x] = venue[x]
  BY DEF TypeOK, VenueTakes

LEMMA PlaceAcceptedKeeps ==
  ASSUME IInv, NEW r \in Requests, PlaceAccepted(r)
  PROVE  IInv'
<1>0. TypeOK /\ pc[r] = "place" /\ Order(r) \in Orders /\ account[r] \in Accounts
      /\ key[r] \in Keys
  BY OrderType DEF IInv, PlaceAccepted
<1>1. /\ venue' \in [Orders -> {"none", "working", "closed"}]
      /\ venue'[Order(r)] = "working"
      /\ \A x \in Orders \ {Order(r)} : venue'[x] = venue[x]
  BY <1>0, VenueTakesFacts DEF PlaceAccepted
<1>2. Order(r)' = Order(r) /\ pc'[r] = "persist"
  BY <1>0 DEF PlaceAccepted, Order, TypeOK
<1>3. TypeOK'
  BY <1>0, <1>1 DEF TypeOK, PlaceAccepted, bookVars, haltVars, counters, Running
<1>4. RequestInv(r)'
  BY <1>0, <1>1, <1>2 DEF RequestInv, PlaceAccepted
<1>5. manual => r \in earlier
  BY <1>0 DEF IInv, HaltInv
<1>6. /\ UNCHANGED <<bookVars, manual, lost, crashes>> /\ earlier' = earlier
      /\ \A s \in Requests \ {r} :
           pc'[s] = pc[s] /\ key'[s] = key[s] /\ sawHalt'[s] = sawHalt[s]
           /\ account'[s] = account[s]
  BY <1>0 DEF TypeOK, PlaceAccepted, bookVars, haltVars, counters
<1>7. /\ \A o \in Orders : venue[o] # "none" => venue'[o] # "none"
      /\ \A o \in Orders : venue[o] = "none" /\ venue'[o] # "none"
                             => pc'[r] = "persist" /\ Order(r)' = o
  BY <1>1, <1>2
<1> QED BY <1>0, <1>2, <1>3, <1>4, <1>5, <1>6, <1>7, RunsOn

LEMMA PlaceRefusedKeeps ==
  ASSUME IInv, NEW r \in Requests, PlaceRefused(r)
  PROVE  IInv'
  BY FailsKeeps DEF IInv, TypeOK, PlaceRefused, venueVars, counters

\* A lost answer is the one step that leaves an order at the venue which no
\* request is going to write down; the count of lost answers remembers it.
LEMMA PlaceLostKeeps ==
  ASSUME IInv, NEW r \in Requests, PlaceLost(r)
  PROVE  IInv'
<1>0. TypeOK /\ pc[r] = "place" /\ Order(r) \in Orders /\ account[r] \in Accounts
      /\ key[r] \in Keys
  BY OrderType DEF IInv, PlaceLost
<1>1. /\ venue' \in [Orders -> {"none", "working", "closed"}]
      /\ \A o \in Orders : venue[o] # "none" => venue'[o] # "none"
  <2>1. CASE VenueTakes(Order(r))
    BY <1>0, <2>1, VenueTakesFacts DEF TypeOK
  <2>2. CASE UNCHANGED venue
    BY <1>0, <2>2 DEF TypeOK
  <2> QED BY <2>1, <2>2 DEF PlaceLost
<1>2. /\ lost' \in 0..MaxLost /\ crashes' \in 0..MaxCrashes /\ lost' + crashes' > 0
      /\ UNCHANGED <<creds, breached, manual, desk, todo, starts, crashes>>
  BY <1>0, NumbersAssumption DEF TypeOK, PlaceLost
<1>3. CASE Fails(r)
  BY <1>0, <1>1, <1>2, <1>3, FailsKeeps
<1>4. CASE /\ tries[r] + 1 < MaxAttempts
           /\ tries' = [tries EXCEPT ![r] = @ + 1]
           /\ UNCHANGED <<bookVars, pc, key, sawHalt, account, earlier>>
  <2>1. TypeOK'
    BY <1>0, <1>1, <1>2, <1>4, NumbersAssumption DEF TypeOK, bookVars, Running
  <2>2. \A s \in Requests : RequestInv(s)'
    <3>1. ASSUME NEW s \in Requests PROVE RequestInv(s)'
      <4>1. RequestInv(s) /\ Order(s)' = Order(s)
        BY <1>4 DEF IInv, Order
      <4>2. pc[s] = "persist" => Order(s) \in Orders
        BY OrderType
      <4> QED BY <1>1, <1>4, <4>1, <4>2 DEF RequestInv
    <3> QED BY <3>1
  <2>3. HaltInv' /\ OneOrderPerKey'
    BY <1>2, <1>4 DEF IInv, HaltInv, OneOrderPerKey, bookVars
  <2>4. OnFileIsAtVenue'
    <3>1. ASSUME NEW k \in Recorded PROVE venue'[<<record[k], k>>] # "none"
      <4>1. <<record[k], k>> \in Orders
        BY <1>0 DEF TypeOK, Recorded, Orders
      <4> QED BY <1>1, <4>1 DEF IInv, OnFileIsAtVenue
    <3> QED BY <1>4, <3>1 DEF OnFileIsAtVenue, Recorded, bookVars
  <2>5. OrphansNeedAFault'
    BY <1>2 DEF OrphansNeedAFault
  <2> QED BY <2>1, <2>2, <2>3, <2>4, <2>5 DEF IInv
<1> QED BY <1>3, <1>4 DEF PlaceLost, Transport

LEMMA CrashKeeps ==
  ASSUME IInv, NEW r \in Requests, Crash(r)
  PROVE  IInv'
<1>1. crashes' \in 0..MaxCrashes /\ crashes' > 0 /\ lost \in 0..MaxLost
  BY NumbersAssumption DEF IInv, TypeOK, Crash
<1> QED BY <1>1, NumbersAssumption, FailsKeeps DEF IInv, TypeOK, Crash, venueVars

LEMMA OperatorKeeps ==
  ASSUME IInv, NEW p \in Operators, OperatorNext(p)
  PROVE  IInv'
<1>0. TypeOK
  BY DEF IInv
<1>1. CASE HaltOn(p)
  <2>1. TypeOK'
    BY <1>0, <1>1 DEF TypeOK, HaltOn, venueVars, bookVars, requestVars, counters, Running
  <2> QED BY <1>0, <1>1, <2>1, Stands DEF TypeOK, HaltOn, venueVars
<1>2. CASE FlattenLoad(p)
  <2>1. {o \in Orders : record[o[2]] = o[1] /\ venue[o] = "working"} \in SUBSET Orders
    OBVIOUS
  <2>2. TypeOK'
    BY <1>0, <1>2, <2>1
       DEF TypeOK, FlattenLoad, venueVars, bookVars, requestVars, counters, Running
  <2> QED BY <1>2, <2>2, Stands DEF FlattenLoad, venueVars
<1>3. ASSUME NEW o \in Orders, FlattenCancel(p, o) PROVE IInv'
  <2>1. /\ venue' \in [Orders -> {"none", "working", "closed"}]
        /\ \A x \in Orders : venue[x] # "none" <=> venue'[x] # "none"
    BY <1>0, <1>3 DEF TypeOK, FlattenCancel
  <2>2. TypeOK'
    BY <1>0, <1>3, <2>1 DEF TypeOK, FlattenCancel, bookVars, requestVars, counters, Running
  <2> QED BY <1>3, <2>1, <2>2, Stands DEF FlattenCancel
<1>4. CASE FlattenDone(p)
  <2>1. TypeOK'
    BY <1>0, <1>4 DEF TypeOK, FlattenDone, venueVars, bookVars, requestVars, counters, Running
  <2> QED BY <1>4, <2>1, Stands DEF FlattenDone, venueVars
<1>5. CASE Resume(p)
  <2>1. TypeOK'
    BY <1>0, <1>5 DEF TypeOK, Resume, venueVars, bookVars, requestVars, counters, Running
  <2> QED BY <1>5, <2>1, Stands DEF Resume, venueVars
<1> QED BY <1>1, <1>2, <1>3, <1>4, <1>5 DEF OperatorNext

LEMMA WorldKeeps ==
  ASSUME IInv, WorldNext
  PROVE  IInv'
<1>0. TypeOK
  BY DEF IInv
<1>1. ASSUME NEW a \in Accounts, SaveCredentials(a) PROVE IInv'
  <2>1. TypeOK'
    BY <1>0, <1>1 DEF TypeOK, SaveCredentials, bookVars, requestVars, haltVars, counters, Running
  <2> QED BY <1>1, <2>1, Stands DEF SaveCredentials, haltVars
<1>2. ASSUME NEW o \in Orders, VenueEnds(o) PROVE IInv'
  <2>1. /\ venue' \in [Orders -> {"none", "working", "closed"}]
        /\ \A x \in Orders : venue[x] # "none" <=> venue'[x] # "none"
    BY <1>0, <1>2 DEF TypeOK, VenueEnds
  <2>2. TypeOK'
    BY <1>0, <1>2, <2>1 DEF TypeOK, VenueEnds, bookVars, requestVars, haltVars, counters, Running
  <2> QED BY <1>2, <2>1, <2>2, Stands DEF VenueEnds, haltVars
<1>3. CASE EquityMoves
  <2>1. TypeOK'
    BY <1>0, <1>3 DEF TypeOK, EquityMoves, bookVars, requestVars, haltVars, counters, Running
  <2> QED BY <1>3, <2>1, Stands DEF EquityMoves, haltVars
<1> QED BY <1>1, <1>2, <1>3 DEF WorldNext
-----------------------------------------------------------------------------
LEMMA InitIInv == Init => IInv
<1> SUFFICES ASSUME Init PROVE IInv
  OBVIOUS
<1>1. TypeOK
  <2>1. /\ {} \in SUBSET Orders
        /\ 0 \in 0..(MaxAttempts - 1) /\ 0 \in 0..MaxStarts
        /\ 0 \in 0..MaxLost /\ 0 \in 0..MaxCrashes
    BY NumbersAssumption
  <2>2. told \subseteq Orders /\ earlier \subseteq Running
    BY DEF Init
  <2> QED BY <2>1, <2>2 DEF Init, TypeOK
<1>2. \A r \in Requests : RequestInv(r)
  BY DEF Init, RequestInv
<1>3. OneOrderPerKey
  BY NoneAssumption DEF Init, OneOrderPerKey, Orders
<1>4. HaltInv /\ OnFileIsAtVenue /\ OrphansNeedAFault
  BY DEF Init, HaltInv, OnFileIsAtVenue, Recorded, OrphansNeedAFault
<1> QED BY <1>1, <1>2, <1>3, <1>4 DEF IInv

LEMMA NextIInv == IInv /\ [Next]_vars => IInv'
<1> SUFFICES ASSUME IInv, [Next]_vars PROVE IInv'
  OBVIOUS
<1>1. ASSUME NEW r \in Requests, RequestNext(r) PROVE IInv'
  BY <1>1, StartKeeps, HaltCheckKeeps, GatesKeep, PlaceAcceptedKeeps, PlaceRefusedKeeps,
     PlaceLostKeeps, PersistKeeps, CrashKeeps DEF RequestNext
<1>2. ASSUME NEW p \in Operators, OperatorNext(p) PROVE IInv'
  BY <1>2, OperatorKeeps
<1>3. CASE WorldNext
  BY <1>3, WorldKeeps
<1>4. CASE UNCHANGED vars
  <2>1. TypeOK'
    BY <1>4 DEF IInv, TypeOK, vars, venueVars, bookVars, requestVars, haltVars, counters, Running
  <2> QED BY <1>4, <2>1, Stands DEF vars, venueVars, haltVars
<1> QED BY <1>1, <1>2, <1>3, <1>4 DEF Next

\* Every reachable state satisfies the inductive invariant, for any number of
\* keys, accounts, requests and operators.
THEOREM Invariance == Spec => []IInv
  BY InitIInv, NextIInv, PTL DEF Spec

\* The variables keep their types, and no request tries more often than told.
THEOREM TypeCorrect == Spec => []TypeOK
<1>1. IInv => TypeOK
  BY DEF IInv
<1> QED BY <1>1, Invariance, PTL

\* All callers of a key are told the same order, the one on file, which has
\* one audit entry.
THEOREM Idempotent == Spec => []OneOrderPerKey
<1>1. IInv => OneOrderPerKey
  BY DEF IInv
<1> QED BY <1>1, Invariance, PTL

\* What is on file was taken by the venue.
THEOREM OnFile == Spec => []OnFileIsAtVenue
<1>1. IInv => OnFileIsAtVenue
  BY DEF IInv
<1> QED BY <1>1, Invariance, PTL

\* A request that starts under the halt places nothing.
THEOREM HaltBinds == Spec => []HaltStopsLaterRequests
<1>1. IInv => HaltStopsLaterRequests
  BY DEF IInv, HaltInv, HaltStopsLaterRequests
<1> QED BY <1>1, Invariance, PTL

\* Without a lost answer or a dead process, no order is left without a row.
THEOREM OrphansAreFaults == Spec => []OrphansNeedAFault
<1>1. IInv => OrphansNeedAFault
  BY DEF IInv
<1> QED BY <1>1, Invariance, PTL
-----------------------------------------------------------------------------
(* The daily limit.  What is on file and what has passed the limit are      *)
(* counted together.                                                       *)

Passed == {r \in Requests : pc[r] \in {"place", "persist"}}

LimitInv ==
  /\ IsFiniteSet(Recorded)
  /\ DailyLimit > 0 =>
       Cardinality(Recorded) + Cardinality(Passed) < DailyLimit + Cardinality(Requests)

\* Only a request that passes the limit joins Passed, only one that leaves it
\* writes a row.
LEMMA LimitFrame ==
  ASSUME IInv, [Next]_vars
  PROVE  \/ Recorded' = Recorded /\ Passed' \subseteq Passed
         \/ Recorded' = Recorded /\ ~LimitReached
         \/ \E r \in Passed, k \in Keys :
              Recorded' = Recorded \union {k} /\ Passed' = Passed \ {r}
<1>0. TypeOK
  BY DEF IInv
<1>1. ASSUME UNCHANGED <<record, pc>> PROVE Recorded' = Recorded /\ Passed' \subseteq Passed
  BY <1>1 DEF Recorded, Passed
<1>2. ASSUME NEW r \in Requests, Ends(r), UNCHANGED record
      PROVE  Recorded' = Recorded /\ Passed' \subseteq Passed
  BY <1>0, <1>2 DEF Recorded, Passed, Ends, TypeOK
<1>3. ASSUME NEW r \in Requests, RequestNext(r)
      PROVE  \/ Recorded' = Recorded /\ Passed' \subseteq Passed
             \/ Recorded' = Recorded /\ ~LimitReached
             \/ \E q \in Passed, k \in Keys :
                  Recorded' = Recorded \union {k} /\ Passed' = Passed \ {q}
  <2>1. ASSUME NEW k \in Keys, Start(r, k) PROVE Recorded' = Recorded /\ Passed' \subseteq Passed
    BY <1>0, <2>1 DEF Start, Recorded, Passed, bookVars, TypeOK
  <2>2. HaltCheck(r) => Recorded' = Recorded /\ Passed' \subseteq Passed
    BY <1>0, <1>2 DEF HaltCheck, Fails, Replay, Recorded, Passed, bookVars, TypeOK
  <2>3. GatesPass(r) => Recorded' = Recorded /\ ~LimitReached
    BY DEF GatesPass, Recorded, bookVars
  <2>4. GatesRefuse(r) \/ PlaceRefused(r) \/ Crash(r)
          => Recorded' = Recorded /\ Passed' \subseteq Passed
    BY <1>2 DEF GatesRefuse, PlaceRefused, Crash, Fails, bookVars
  <2>5. PlaceAccepted(r) => Recorded' = Recorded /\ Passed' \subseteq Passed
    BY <1>0 DEF PlaceAccepted, Recorded, Passed, bookVars, TypeOK
  <2>6. PlaceLost(r) => Recorded' = Recorded /\ Passed' \subseteq Passed
    BY <1>1, <1>2 DEF PlaceLost, Transport, Fails, bookVars
  <2>7. CASE Persist(r)
    <3>1. CASE Replay(r)
      BY <1>2, <3>1 DEF Replay
    <3>2. CASE record' = [record EXCEPT ![key[r]] = account[r]] /\ Ends(r)
      <4>1. r \in Passed /\ key[r] \in Keys /\ account[r] \in Accounts /\ account[r] # None
        BY <2>7, OrderType, NoneAssumption DEF Persist, Passed
      <4>2. Passed' = Passed \ {r}
        BY <1>0, <3>2 DEF Passed, Ends, TypeOK
      <4>3. Recorded' = Recorded \union {key[r]}
        BY <1>0, <3>2, <4>1 DEF Recorded, TypeOK
      <4> QED BY <4>1, <4>2, <4>3
    <3> QED BY <2>7, <3>1, <3>2 DEF Persist
  <2> QED BY <1>3, <2>1, <2>2, <2>3, <2>4, <2>5, <2>6, <2>7 DEF RequestNext
<1>4. ASSUME NEW p \in Operators, OperatorNext(p) PROVE UNCHANGED <<record, pc>>
  BY <1>4 DEF OperatorNext, HaltOn, FlattenLoad, FlattenCancel, FlattenDone, Resume,
              bookVars, requestVars
<1>5. WorldNext => UNCHANGED <<record, pc>>
  BY DEF WorldNext, SaveCredentials, VenueEnds, EquityMoves, bookVars, requestVars
<1>6. UNCHANGED vars => UNCHANGED <<record, pc>>
  BY DEF vars, bookVars, requestVars
<1> QED BY <1>1, <1>3, <1>4, <1>5, <1>6 DEF Next

LEMMA LimitStep ==
  ASSUME IsFiniteSet(Requests), IInv, LimitInv, [Next]_vars
  PROVE  LimitInv'
<1>0. /\ Cardinality(Requests) \in Nat /\ Cardinality(Recorded) \in Nat
      /\ IsFiniteSet(Passed) /\ Cardinality(Passed) \in Nat
      /\ IsFiniteSet(Passed') /\ Cardinality(Passed') \in Nat
      /\ Cardinality(Passed') <= Cardinality(Requests)
  BY FS_Subset, FS_CardinalityType DEF LimitInv, Passed
<1>1. CASE Recorded' = Recorded /\ Passed' \subseteq Passed
  <2>1. Cardinality(Passed') <= Cardinality(Passed)
    BY <1>0, <1>1, FS_Subset
  <2> QED BY <1>0, <1>1, <2>1, NumbersAssumption DEF LimitInv
<1>2. CASE Recorded' = Recorded /\ ~LimitReached
  BY <1>0, <1>2, NumbersAssumption DEF LimitInv, LimitReached
<1>3. ASSUME NEW r \in Passed, NEW k \in Keys,
             Recorded' = Recorded \union {k}, Passed' = Passed \ {r}
      PROVE  LimitInv'
  <2>1. Cardinality(Passed') = Cardinality(Passed) - 1
    BY <1>0, <1>3, FS_RemoveElement
  <2>2. /\ IsFiniteSet(Recorded')
        /\ Cardinality(Recorded') \in Nat
        /\ Cardinality(Recorded') <= Cardinality(Recorded) + 1
    <3>1. /\ IsFiniteSet(Recorded \cup {k})
          /\ Cardinality(Recorded \cup {k}) =
               IF k \in Recorded THEN Cardinality(Recorded) ELSE Cardinality(Recorded) + 1
      BY FS_AddElement DEF LimitInv
    <3>2. Recorded' = Recorded \cup {k}
      BY <1>3
    <3> QED BY <1>0, <3>1, <3>2
  <2> QED BY <1>0, <2>1, <2>2, NumbersAssumption DEF LimitInv
<1> QED BY <1>1, <1>2, <1>3, LimitFrame

\* The daily limit is overshot by fewer orders than there are requests at once.
THEOREM LimitHolds ==
  ASSUME IsFiniteSet(Requests)
  PROVE  Spec => []BoundedOvershoot
<1>1. Init => LimitInv
  <2> SUFFICES ASSUME Init PROVE LimitInv
    OBVIOUS
  <2>1. Recorded = {} /\ Passed = {}
    BY DEF Init, Recorded, Passed
  <2>2. Cardinality(Requests) \in Nat
    BY FS_CardinalityType
  <2> QED BY <2>1, <2>2, FS_EmptySet, NumbersAssumption DEF LimitInv
<1>2. IInv /\ LimitInv /\ [Next]_vars => LimitInv'
  BY LimitStep
<1>3. LimitInv => BoundedOvershoot
  <2>1. IsFiniteSet(Passed) /\ Cardinality(Passed) \in Nat /\ Cardinality(Requests) \in Nat
    BY FS_Subset, FS_CardinalityType DEF Passed
  <2> QED BY <2>1, FS_CardinalityType, NumbersAssumption DEF LimitInv, BoundedOvershoot
<1> QED BY <1>1, <1>2, <1>3, Invariance, PTL DEF Spec
=============================================================================
