------------------------------- MODULE Vault --------------------------------
(***************************************************************************)
(* Secrets in the database: the broker credentials of a user, encrypted    *)
(* under the primary key of the process that stored them, the rotation     *)
(* that encrypts them anew, and the API keys of consumers, stored hashed.  *)
(* A process keeps the key ring it was started with.  Every handler reads, *)
(* then commits the columns it changed.                                    *)
(*                                                                         *)
(* The operator is the one crypto describes: prepend a key, restart, run   *)
(* the rotation, and only then retire the old keys.                        *)
(***************************************************************************)
EXTENDS Integers, SequencesExt, FiniteSets

CONSTANTS
  Processes,
  Jobs,          \* handlers that can be under way at once
  ApiKeys, ApiScopes,
  MaxJobs, MaxKeys, \* bounds: handlers begun, encryption keys ever made
  Absent

ASSUME VaultAssumption == MaxJobs \in Nat /\ MaxKeys \in Nat \ {0}

VARIABLES
  configured, \* ENCRYPTION_KEY: key numbers, the primary first
  ring,       \* the keys each process was started with
  rows,       \* BrokerCredential rows of the user: key and secret, both by number
  saved,      \* the last secret that was accepted
  job,        \* what each handler is about to commit
  begun,      \* handlers begun
  rotated,    \* history: the primary under which a rotation of all rows has ended
  crossed,    \* history: a save overlapped another save or a rotation
  apiKeys, granted  \* API keys, and history: scopes each was granted, and how often

ApiKeyRow == [scopes : SUBSET ApiScopes, is_active : BOOLEAN, request_count : Nat]

ASSUME AbsentAssumption == Absent \notin ApiKeyRow

vaultVars == <<configured, ring, rows, saved, job, begun, rotated, crossed, apiKeys, granted>>
vaultKeys == <<configured, ring, rotated>>
-----------------------------------------------------------------------------
(* crypto.                                                                 *)

\* A plausible bug: the last key of the ring encrypts.
OldestKey(p) == Last(ring[p])

\* MultiFernet encrypts under the first key, and decrypts with any.
PrimaryKey(p) == Head(ring[p])
Decrypts(p, row) == row.key \in ToSet(ring[p])

Launch(j, record) ==
  /\ job[j] = Absent /\ begun < MaxJobs
  /\ begun' = begun + 1
  /\ job' = [job EXCEPT ![j] = record]
Crosses(j) == \E i \in Jobs \ {j} : job[i] # Absent /\ job[i].kind \in {"save", "rotate"}
-----------------------------------------------------------------------------
(* Broker credentials.                                                     *)

\* save_credentials: the row that is there, any if there are several, and the new
\* secret, encrypted.
SaveBegin(j, p) ==
  \E row \in IF rows = <<>> THEN {0} ELSE DOMAIN rows :
    /\ Launch(j, [kind |-> "save", process |-> p, row |-> row, key |-> PrimaryKey(p), secret |-> begun + 1])
    /\ crossed' = (crossed \/ Crosses(j))
    /\ UNCHANGED <<vaultKeys, rows, saved, apiKeys, granted>>

SaveCommit(j) ==
  /\ job[j] # Absent /\ job[j].kind = "save"
  /\ LET new == [key |-> job[j].key, secret |-> job[j].secret] IN
     rows' = IF job[j].row = 0 THEN Append(rows, new) ELSE [rows EXCEPT ![job[j].row] = new]
  /\ saved' = job[j].secret
  /\ job' = [job EXCEPT ![j] = Absent]
  /\ UNCHANGED <<vaultKeys, begun, crossed, apiKeys, granted>>

\* rotate_credentials: all rows, encrypted anew; one that does not decrypt fails it.
RotateBegin(j, p) ==
  /\ \A i \in DOMAIN rows : Decrypts(p, rows[i])
  /\ Launch(j, [kind |-> "rotate", process |-> p,
                rows |-> [i \in DOMAIN rows |-> [rows[i] EXCEPT !.key = PrimaryKey(p)]],
                complete |-> \A q \in Processes : ring[q] = configured])
  /\ crossed' = (crossed \/ Crosses(j))
  /\ UNCHANGED <<vaultKeys, rows, saved, apiKeys, granted>>

\* Both columns are written, as what was read and not as what is there.
RotateCommit(j) ==
  /\ job[j] # Absent /\ job[j].kind = "rotate"
  /\ rows' = [i \in DOMAIN rows |-> IF i \in DOMAIN job[j].rows THEN job[j].rows[i] ELSE rows[i]]
  /\ rotated' = IF job[j].complete THEN Head(ring[job[j].process]) ELSE rotated
  /\ job' = [job EXCEPT ![j] = Absent]
  /\ UNCHANGED <<configured, ring, saved, begun, crossed, apiKeys, granted>>
-----------------------------------------------------------------------------
(* The operator.                                                           *)

PrependKey ==
  /\ configured[1] < MaxKeys
  /\ configured' = <<configured[1] + 1>> \o configured
  /\ UNCHANGED <<ring, rotated, rows, saved, job, begun, crossed, apiKeys, granted>>

\* The new process reads the configuration; the handlers of the old one are gone.
Restart(p) ==
  /\ ring[p] # configured
  /\ ring' = [ring EXCEPT ![p] = configured]
  /\ job' = [j \in Jobs |-> IF job[j] # Absent /\ job[j].process = p THEN Absent ELSE job[j]]
  /\ UNCHANGED <<configured, rotated, rows, saved, begun, crossed, apiKeys, granted>>

\* The old keys go when a rotation, begun after the last restart, has ended.
RetireKeys ==
  /\ rotated = configured[1] /\ Len(configured) > 1
  /\ configured' = <<configured[1]>>
  /\ UNCHANGED <<ring, rotated, rows, saved, job, begun, crossed, apiKeys, granted>>
-----------------------------------------------------------------------------
(* API keys (ConsumerService).                                             *)

CreateApiKey(a, scopes) ==
  /\ apiKeys[a] = Absent
  /\ apiKeys' = [apiKeys EXCEPT ![a] = [scopes |-> scopes, is_active |-> TRUE, request_count |-> 0]]
  /\ UNCHANGED <<vaultKeys, rows, saved, job, begun, crossed, granted>>

\* revoke changes the row that was active when it was read.
RevokeApiKey(a) ==
  /\ apiKeys[a] # Absent /\ apiKeys[a].is_active
  /\ apiKeys' = [apiKeys EXCEPT ![a].is_active = FALSE]
  /\ UNCHANGED <<vaultKeys, rows, saved, job, begun, crossed, granted>>

\* authenticate, up to its commit; 401 or 403 otherwise.
AuthenticateBegin(j, p, a, scope) ==
  /\ apiKeys[a] # Absent /\ apiKeys[a].is_active /\ scope \in apiKeys[a].scopes
  /\ Launch(j, [kind |-> "key", process |-> p, api |-> a, scope |-> scope, count |-> apiKeys[a].request_count])
  /\ UNCHANGED <<vaultKeys, rows, saved, crossed, apiKeys, granted>>

\* Only the count is written; a revocation in between stays.
AuthenticateCommit(j) ==
  /\ job[j] # Absent /\ job[j].kind = "key"
  /\ apiKeys' = [apiKeys EXCEPT ![job[j].api].request_count = job[j].count + 1]
  /\ granted' = [granted EXCEPT ![job[j].api] = Append(@, job[j].scope)]
  /\ job' = [job EXCEPT ![j] = Absent]
  /\ UNCHANGED <<vaultKeys, rows, saved, begun, crossed>>
-----------------------------------------------------------------------------
VaultInit ==
  /\ configured = <<1>> /\ ring = [p \in Processes |-> <<1>>] /\ rotated = 1
  /\ rows = <<>> /\ saved = 0
  /\ job = [j \in Jobs |-> Absent] /\ begun = 0 /\ crossed = FALSE
  /\ apiKeys = [a \in ApiKeys |-> Absent] /\ granted = [a \in ApiKeys |-> <<>>]

VaultNext ==
  \/ PrependKey \/ RetireKeys \/ \E p \in Processes : Restart(p)
  \/ \E j \in Jobs :
       \/ \E p \in Processes :
            \/ SaveBegin(j, p) \/ RotateBegin(j, p)
            \/ \E a \in ApiKeys, scope \in ApiScopes : AuthenticateBegin(j, p, a, scope)
       \/ SaveCommit(j) \/ RotateCommit(j) \/ AuthenticateCommit(j)
  \/ \E a \in ApiKeys : \/ \E scopes \in SUBSET ApiScopes \ {{}} : CreateApiKey(a, scopes)
                        \/ RevokeApiKey(a)

VaultSpec == VaultInit /\ [][VaultNext]_vaultVars
-----------------------------------------------------------------------------
(* Properties.                                                             *)

VaultTypeOK ==
  /\ configured \in Seq(1..MaxKeys) /\ \A p \in Processes : ring[p] \in Seq(1..MaxKeys) /\ ring[p] # <<>>
  /\ \A i \in DOMAIN rows : rows[i].key \in 1..MaxKeys /\ rows[i].secret \in 1..MaxJobs
  /\ saved \in 0..MaxJobs /\ begun \in 0..MaxJobs /\ rotated \in 1..MaxKeys /\ crossed \in BOOLEAN
  /\ \A a \in ApiKeys : apiKeys[a] = Absent \/ apiKeys[a].request_count \in 0..MaxJobs

\* When the operator keeps to the procedure, every process that runs with the present
\* keys decrypts every row; unless a save overlapped another save or a rotation there
\* is one row, with the secret saved last; and an API key counts no request it did not
\* grant, and none twice.
SecretsSurviveRotation ==
  /\ \A p \in Processes, i \in DOMAIN rows : ring[p] = configured => Decrypts(p, rows[i])
  /\ ~crossed => Len(rows) <= 1 /\ \A i \in DOMAIN rows : rows[i].secret = saved
  /\ \A a \in ApiKeys : apiKeys[a] # Absent =>
       /\ ToSet(granted[a]) \subseteq apiKeys[a].scopes
       /\ apiKeys[a].request_count <= Len(granted[a])
=============================================================================
