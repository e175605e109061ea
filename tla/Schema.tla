------------------------------- MODULE Schema -------------------------------
(***************************************************************************)
(* The database schema and the instances that deploy on it.  An instance   *)
(* runs `alembic upgrade head`, one transaction, then starts, where        *)
(* init_db creates every table of the models that is missing and never     *)
(* changes one that is there.  Instances of two releases serve at once     *)
(* while a deploy is rolling.                                              *)
(*                                                                         *)
(* A release is the models as the migrations had them at its revision.  A  *)
(* column that came with its table is "base"; those added later have names *)
(* and are `needed` when no row can be written without giving them.        *)
(***************************************************************************)
EXTENDS Integers, Sequences

CONSTANTS
  Instances,
  Releases,       \* revisions at which a release was made
  MaxDeploys,     \* bound
  Down

ASSUME SchemaAssumption == Releases \subseteq 0..18 /\ MaxDeploys \in Nat

VARIABLES
  version,     \* alembic_version, 0 before the first migration
  tables,      \* table -> its columns, [name, needed]
  duplicates,  \* equitysnapshot has two rows of one day
  instance,    \* what each instance is doing, or Down
  deploys

schemaVars == <<version, tables, duplicates, instance, deploys>>
-----------------------------------------------------------------------------
(* The migrations, each with the tables it creates and the columns it adds. *)

Column(name, needed) == [name |-> name, needed |-> needed]
Creates(names) == [creates |-> names, alters |-> "", adds |-> {}]
Adds(table, columns) == [creates |-> {}, alters |-> table, adds |-> columns]

\* Added columns are nullable or have a server_default.
Optional(name) == Column(name, FALSE)

InitialLedger == Creates({"user", "transaction", "alert"})
BrokerCredentials == Creates({"brokercredential"})
ExecutionAndRisk == Creates({"tradeorder", "tradeauditlog", "risksetting", "equitysnapshot"})
ManualHalt == Adds("risksetting", {Optional("manual_halt")})
AuditConfidence == Adds("tradeauditlog", {Optional("confidence")})
OrderIdempotency == Adds("tradeorder", {Optional("client_order_id")})
BacktestRuns == Creates({"backtestrun"})
AutoHaltTrip == Adds("risksetting", {Optional("auto_halt_tripped_on")})
DecimalMoney == Adds("equitysnapshot", {})  \* and one row per user and day
OrderBrackets == Adds("tradeorder", {Optional("stop_loss"), Optional("take_profit")})

\* A plausible bug: the limits are NOT NULL and have no server_default.
LimitsWithoutDefault ==
  Adds("risksetting", {Column("max_daily_trades", TRUE), Column("max_position_weight_pct", TRUE),
                       Column("require_protective_stop", TRUE)})
AccountRiskLimits ==
  Adds("risksetting", {Optional("max_daily_trades"), Optional("max_position_weight_pct"),
                       Optional("require_protective_stop")})
Watchlist == Creates({"watchlistitem"})
PaperDesk == Creates({"paperaccount", "paperfill"})
PaperAutomations == Creates({"paperautomationrule"})
PortfolioGoals == Creates({"portfoliogoal"})
WatchlistTargets == Adds("watchlistitem", {Optional("target_price")})
ActivityTimeline == Creates({"activityevent"})
ConsumerKeys == Creates({"apiconsumerkey"})

Revisions ==
  <<InitialLedger, BrokerCredentials, ExecutionAndRisk, ManualHalt, AuditConfidence, OrderIdempotency,
    BacktestRuns, AutoHaltTrip, DecimalMoney, OrderBrackets, AccountRiskLimits, Watchlist, PaperDesk,
    PaperAutomations, PortfolioGoals, WatchlistTargets, ActivityTimeline, ConsumerKeys>>

OnePerDay == 9  \* DecimalMoney: a UNIQUE constraint that duplicates violate

\* Tables of the models that no migration creates.
Marketplace == {"strategylisting", "strategysubscription", "copytraderecord"}
GitTrading == {"stagedtradeintent", "tradecommitbundle"}
Documents == {"financialdocument"}
Unmigrated == Marketplace \union GitTrading \union Documents
-----------------------------------------------------------------------------
(* What a release expects.                                                 *)

Between(m, n) == {r \in DOMAIN Revisions : m < r /\ r <= n}
TablesOf(n) == (UNION {Revisions[r].creates : r \in Between(0, n)}) \union Unmigrated
ColumnsOf(t, n) ==
  {Column("base", TRUE)} \union UNION {Revisions[r].adds : r \in {q \in Between(0, n) : Revisions[q].alters = t}}
Names(columns) == {c.name : c \in columns}

\* What an INSERT by a process of release n gives: all columns of its models.
Writes(t, n) == Names(ColumnsOf(t, n))

\* The tables after the migrations that follow m, up to n.
Migrated(m, n) ==
  LET names == DOMAIN tables \union (TablesOf(n) \ (TablesOf(m) \union Unmigrated))
      Added(t) == UNION {Revisions[r].adds : r \in {q \in Between(m, n) : Revisions[q].alters = t}} IN
  [t \in names |-> (IF t \in DOMAIN tables THEN tables[t] ELSE {Column("base", TRUE)}) \union Added(t)]

\* None of them creates a table that is there, or constrains rows that do not comply.
Applicable(m, n) ==
  /\ \A r \in Between(m, n) : Revisions[r].creates \intersect DOMAIN tables = {}
  /\ duplicates => OnePerDay \notin Between(m, n)
-----------------------------------------------------------------------------
(* Deploying.                                                              *)

At(i, step) == instance[i] # Down /\ instance[i].step = step
Becomes(i, step) == instance' = [instance EXCEPT ![i].step = step]

\* alembic reads its version; one it does not know fails the deploy.
UpgradeBegin(i, n) ==
  /\ instance[i] = Down /\ deploys < MaxDeploys
  /\ version <= n
  /\ deploys' = deploys + 1
  /\ instance' = [instance EXCEPT ![i] = [step |-> "upgrade", release |-> n, read |-> version, missing |-> {}]]
  /\ UNCHANGED <<version, tables, duplicates>>

\* The transaction commits as a whole, or fails with the instance: another upgrade
\* went first, a table is there already, or rows violate the new constraint.
UpgradeCommit(i) ==
  /\ At(i, "upgrade")
  /\ LET n == instance[i].release
         m == instance[i].read IN
     IF version = m /\ Applicable(m, n)
       THEN /\ version' = n
            /\ tables' = Migrated(m, n)
            /\ Becomes(i, "init")
       ELSE /\ instance' = [instance EXCEPT ![i] = Down]
            /\ UNCHANGED <<version, tables>>
  /\ UNCHANGED <<duplicates, deploys>>

\* create_all looks which tables are missing, and creates them in one transaction.
CreateAllBegin(i) ==
  /\ At(i, "init")
  /\ instance' = [instance EXCEPT ![i].step = "create",
                                  ![i].missing = TablesOf(instance[i].release) \ DOMAIN tables]
  /\ UNCHANGED <<version, tables, duplicates, deploys>>

\* When another worker has created one by now, the start fails, and is tried again.
CreateAllCommit(i) ==
  /\ At(i, "create")
  /\ LET missing == instance[i].missing IN
     IF missing \intersect DOMAIN tables = {}
       THEN /\ tables' = [t \in DOMAIN tables \union missing |->
                            IF t \in missing THEN ColumnsOf(t, instance[i].release) ELSE tables[t]]
            /\ Becomes(i, "serve")
       ELSE /\ Becomes(i, "init")
            /\ UNCHANGED tables
  /\ UNCHANGED <<version, duplicates, deploys>>

\* Before there was a constraint, two first reads of a day both wrote its opening.
DuplicateOpening(i) ==
  /\ At(i, "serve") /\ "equitysnapshot" \in DOMAIN tables /\ version < OnePerDay
  /\ duplicates' = TRUE
  /\ UNCHANGED <<version, tables, instance, deploys>>

\* Somebody deletes the rows that stop the migration.
Deduplicate ==
  /\ duplicates /\ duplicates' = FALSE
  /\ UNCHANGED <<version, tables, instance, deploys>>

Stop(i) ==
  /\ instance[i] # Down
  /\ instance' = [instance EXCEPT ![i] = Down]
  /\ UNCHANGED <<version, tables, duplicates, deploys>>

\* `alembic downgrade` of the last revision, while nothing of its release runs: the
\* tables it created are dropped, with the columns it added.  The first does not go:
\* tables no migration knows refer to the users.
Downgrade ==
  /\ version > 0 /\ (version = 1 => DOMAIN tables \intersect Unmigrated = {})
  /\ \A i \in Instances : instance[i] # Down => instance[i].release < version
  /\ version' = version - 1
  /\ LET last == Revisions[version] IN
     tables' = [t \in DOMAIN tables \ last.creates |->
                  IF t = last.alters THEN tables[t] \ last.adds ELSE tables[t]]
  /\ duplicates' = (duplicates /\ "equitysnapshot" \in DOMAIN tables')
  /\ UNCHANGED <<instance, deploys>>

SchemaInit ==
  /\ version = 0 /\ tables = [t \in {} |-> {}] /\ duplicates = FALSE
  /\ instance = [i \in Instances |-> Down] /\ deploys = 0

SchemaNext ==
  \/ Deduplicate \/ Downgrade
  \/ \E i \in Instances :
       \/ \E n \in Releases : UpgradeBegin(i, n)
       \/ UpgradeCommit(i) \/ CreateAllBegin(i) \/ CreateAllCommit(i)
       \/ DuplicateOpening(i) \/ Stop(i)

SchemaSpec == SchemaInit /\ [][SchemaNext]_schemaVars
-----------------------------------------------------------------------------
(* Properties.                                                             *)

SchemaTypeOK ==
  /\ version \in 0..18 /\ DOMAIN tables \subseteq TablesOf(18) /\ duplicates \in BOOLEAN
  /\ deploys \in 0..MaxDeploys
  /\ \A i \in Instances : instance[i] = Down \/ instance[i].step \in {"upgrade", "init", "create", "serve"}

\* A rolling deploy breaks no instance: one that serves, of whatever release, finds all
\* columns of its models and gives all a row needs, while newer releases migrate and
\* create tables around it; and no release that counts on one opening per day serves
\* with two.
ServingFitsSchema ==
  \A i \in Instances : At(i, "serve") =>
    LET n == instance[i].release IN
    /\ \A t \in TablesOf(n) :
         /\ t \in DOMAIN tables
         /\ Writes(t, n) \subseteq Names(tables[t])
         /\ Names({c \in tables[t] : c.needed}) \subseteq Writes(t, n)
    /\ n >= OnePerDay => ~duplicates
=============================================================================
