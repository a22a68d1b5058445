----------------------------- MODULE Deployment -----------------------------
(***************************************************************************)
(* Replicas that bring the database to the release they were built for and *)
(* then start the application (src/scripts, the scripts of package.json).  *)
(* TypeORM reads migrations_history, opens one transaction, runs the up of *)
(* each migration not recorded, records it, and commits; its first         *)
(* statement waits for the transaction of another replica, whose locks it  *)
(* needs.  An operator may revert the last migration (migration:revert).   *)
(***************************************************************************)
EXTENDS Migrations, Entities, FiniteSetsExt, Functions

CONSTANTS
  Replicas,         \* processes that deploy this build
  NoReplica,        \* no transaction is open
  InitialReleases,  \* the releases a database may be at when they come
  MaxReverts        \* bound: how often an operator reverts

ASSUME DeploymentAssumption ==
  /\ NoReplica \notin Replicas
  /\ InitialReleases \subseteq 0 .. Latest
  /\ MaxReverts \in Nat

\* yarn deploy:prod (migrate-and-start.js) and yarn start:prod:migrate, which
\* is `yarn migration:run && yarn start:prod`.
Scripts == {"deploy", "chained"}

VARIABLES
  schema,    \* the committed tables and columns
  history,   \* migrations_history: the migrations recorded
  tx,        \* the open transaction: its replica, schema and records
  stage,     \* how far each replica is
  script,    \* the script each replica runs
  pending,   \* the migrations each replica found not recorded, and has to run
  undone     \* history: the migrations reverted

deploymentVars == <<schema, history, tx, stage, script, pending, undone>>

Stages == {"off", "read", "begin", "migrate", "failed", "ran", "up"}

\* Everything the migrations ever add.
Known ==
  UNION {UNION {{<<st.table, c>> : c \in st.adds} :
                   st \in Range(Migrations[k].up \o Migrations[k].down)} : k \in 1 .. Latest}

NoTx == [by |-> NoReplica]

DeploymentTypeOK ==
  /\ schema \subseteq Known
  /\ history \subseteq 1 .. Latest
  /\ \/ tx = NoTx
     \/ tx.by \in Replicas /\ tx.records \subseteq 1 .. Latest /\ tx.schema \subseteq Known
  /\ stage \in [Replicas -> Stages]
  /\ script \in [Replicas -> Scripts]
  /\ pending \in [Replicas -> SUBSET (1 .. Latest)]
  /\ undone \subseteq 1 .. Latest

DeploymentInit ==
  /\ \E release \in Releases :
       /\ Cardinality(release.records) \in InitialReleases
       /\ history = release.records
       /\ schema = release.schema
  /\ tx = NoTx
  /\ stage = [r \in Replicas |-> "off"]
  /\ script \in [Replicas -> Scripts]
  /\ pending = [r \in Replicas |-> {}]
  /\ undone = {}

-----------------------------------------------------------------------------
(* migration:run                                                             *)

Step(r, from, to) ==
  /\ stage[r] = from
  /\ stage' = [stage EXCEPT ![r] = to]

Launch(r) ==
  /\ Step(r, "off", "read")
  /\ UNCHANGED <<schema, history, tx, script, pending, undone>>

ReadHistory(r) ==
  LET missing == (1 .. Latest) \ history
  IN  /\ Step(r, "read", IF missing = {} THEN "ran" ELSE "begin")
      /\ pending' = [pending EXCEPT ![r] = missing]
      /\ UNCHANGED <<schema, history, tx, script, undone>>

Begin(r) ==
  /\ Step(r, "begin", "migrate")
  /\ tx.by = NoReplica
  /\ tx' = [by |-> r, schema |-> schema, records |-> history]
  /\ UNCHANGED <<schema, history, script, pending, undone>>

\* One up, and its INSERT into migrations_history, in time stamp order.
RunMigration(r) ==
  /\ stage[r] = "migrate" /\ pending[r] # {}
  /\ LET k == Min(pending[r])
     IN  /\ RunsOn(tx.schema, Migrations[k].up)
         /\ tx' = [tx EXCEPT !.schema = Outcome(@, Migrations[k].up),
                             !.records = @ \cup {k}]
         /\ pending' = [pending EXCEPT ![r] = @ \ {k}]
  /\ UNCHANGED <<schema, history, stage, script, undone>>

Commit(r) ==
  /\ pending[r] = {}
  /\ Step(r, "migrate", "ran")
  /\ schema' = tx.schema
  /\ history' = tx.records
  /\ tx' = NoTx
  /\ UNCHANGED <<script, pending, undone>>

\* Variant: each statement is kept as it is executed.
KeepWork == schema' = tx.schema /\ history' = tx.records /\ tx' = NoTx

Rollback == tx' = NoTx /\ UNCHANGED <<schema, history>>

\* A statement is refused: the command exits with an error.
FailMigration(r) ==
  /\ Step(r, "migrate", "failed")
  /\ pending[r] # {} /\ ~RunsOn(tx.schema, Migrations[Min(pending[r])].up)
  /\ Rollback
  /\ UNCHANGED <<script, pending, undone>>

-----------------------------------------------------------------------------
(* What the scripts make of the outcome                                      *)

\* Variant: the script only logs the error of the migration.
LogsAndStarts(r) == TRUE

\* migrate-and-start.js starts the application if the command succeeded.
\* migration.js logs an error and exits with 0, so that the && of
\* start:prod:migrate goes on.
Proceeds(r) == stage[r] = "ran" \/ script[r] = "chained"

StartApp(r) ==
  /\ stage[r] \in {"ran", "failed"}
  /\ Proceeds(r)
  /\ stage' = [stage EXCEPT ![r] = "up"]
  /\ UNCHANGED <<schema, history, tx, script, pending, undone>>

GiveUp(r) ==
  /\ ~Proceeds(r)
  /\ Step(r, "failed", "off")
  /\ pending' = [pending EXCEPT ![r] = {}]
  /\ UNCHANGED <<schema, history, tx, script, undone>>

\* The replica dies or is stopped; the database rolls its transaction back.
Stop(r) ==
  /\ stage[r] # "off"
  /\ stage' = [stage EXCEPT ![r] = "off"]
  /\ pending' = [pending EXCEPT ![r] = {}]
  /\ IF tx.by = r THEN Rollback ELSE UNCHANGED <<schema, history, tx>>
  /\ UNCHANGED <<script, undone>>

\* migration:revert, while nothing is being deployed: the down of the last
\* migration recorded, and the removal of its record.
Revert ==
  /\ \A r \in Replicas : stage[r] = "off"
  /\ Cardinality(undone) < MaxReverts
  /\ history # {}
  /\ LET k == Max(history)
     IN  /\ RunsOn(schema, Migrations[k].down)
         /\ schema' = Outcome(schema, Migrations[k].down)
         /\ history' = history \ {k}
         /\ undone' = undone \cup {k}
  /\ UNCHANGED <<tx, stage, script, pending>>

DeploymentNext ==
  \/ \E r \in Replicas :
       \/ Launch(r) \/ ReadHistory(r) \/ Begin(r) \/ RunMigration(r) \/ Commit(r)
       \/ FailMigration(r) \/ StartApp(r) \/ GiveUp(r) \/ Stop(r)
  \/ Revert

-----------------------------------------------------------------------------
(* Properties                                                                *)

\* The migrations whose down does not bring back the columns of the release
\* before: RemoveUserLanguageTimezoneAgain adds columns that were gone,
\* SimplifyProfileEntity exchanges columns the table had with others it never
\* had, RemoveTravelUserColumns restores nothing, RemovePlanetUserColumns and
\* RemoveNotificationMetadata also restore columns an earlier migration dropped.
Irreversible == {22, 23, 29, 31, 33}

\* Whatever replicas crash, fail, or race, and whatever is reverted, the
\* committed schema is that of the last migration recorded, and nothing before
\* it is missing from the record (unless a down that restores something else
\* was executed).
SchemaIsARelease ==
  undone \cap Irreversible = {} =>
    [records |-> history, schema |-> schema] \in Releases

\* The entities that do not match the tables the last release has: Mission and
\* MissionTravel map active, which the tables call isActive, and MissionTravel,
\* MissionSubmission and Profile inherit time stamps the tables do not have.
KnownDrift == {"missions", "mission_travels", "mission_submissions", "profiles"}

\* What `yarn deploy:prod` starts finds every table its entities map, except
\* for the four that no migration brings in line: it never serves requests on
\* the schema of an older release, on half a migration, or after a failure.
StartsOnWholeSchema ==
  [][\A r \in Replicas :
       script[r] = "deploy" /\ stage[r] # "up" /\ stage'[r] = "up" =>
         Rejected(schema) = KnownDrift]_deploymentVars

-----------------------------------------------------------------------------
(* What the proofs use of the migrations and the entities.  No constant      *)
(* enters it: TLC evaluates it in full.                                      *)

CanRun(d, k) == d.records = 1 .. k - 1 /\ RunsOn(d.schema, Migrations[k].up)
Ran(d, k) ==
  [records |-> 1 .. k, schema |-> Outcome(d.schema, Migrations[k].up)]

CanRevert(d, k) == d.records = 1 .. k /\ RunsOn(d.schema, Migrations[k].down)
Reverted(d, k) ==
  [records |-> 1 .. k - 1, schema |-> Outcome(d.schema, Migrations[k].down)]

\* What runs and reverts, in any order and number, make of the releases.
Databases ==
  LET reached[n \in 0 .. Latest] ==
        IF n = 0 THEN Releases
        ELSE UNION {{d} \cup {Ran(d, k) : k \in {k \in 1 .. Latest : CanRun(d, k)}}
                        \cup {Reverted(d, k) : k \in {k \in 1 .. Latest : CanRevert(d, k)}} :
                      d \in reached[n - 1]}
  IN  reached[Latest]

UpToDate == {d \in Databases : d.records = 1 .. Latest}

\* A run whose list of pending migrations is out of date, because another
\* replica has finished since: the next migration and the schema it finds.
CanRepeat(x) == RunsOn(x.schema, Migrations[x.next].up)
Repeated(x) ==
  [next |-> x.next + 1, schema |-> Outcome(x.schema, Migrations[x.next].up)]

Repeats ==
  LET reached[n \in 0 .. Latest] ==
        IF n = 0 THEN [next : 1 .. Latest, schema : {d.schema : d \in UpToDate}]
        ELSE UNION {{x} \cup {y \in {Repeated(x)} : CanRepeat(x)} : x \in reached[n - 1]}
  IN  reached[Latest]

ClosedUnderRuns(ds) ==
  \A d \in ds, k \in 1 .. Latest : CanRun(d, k) => Ran(d, k) \in ds

ClosedUnderReverts(ds, ks) ==
  \A d \in ds, k \in ks : CanRevert(d, k) => Reverted(d, k) \in ds

\* No run that repeats migrations gets to its end: it meets one that is refused.
NeverRepeats(xs) ==
  \A x \in xs : CanRepeat(x) => x.next < Latest /\ Repeated(x) \in xs

\* Releases and Databases are closed, the one but for the irreversible
\* migrations, and every database that is up to date suits the entities.
ASSUME MigrationFacts ==
  /\ Latest \in Nat
  /\ Releases \subseteq Databases
  /\ \A d \in Databases : \E k \in 0 .. Latest : d.records = 1 .. k
  /\ UNION {x.schema : x \in Databases \cup Repeats} \subseteq Known
  /\ ClosedUnderRuns(Releases)
  /\ ClosedUnderReverts(Releases, 1 .. Latest \ Irreversible)
  /\ ClosedUnderRuns(Databases)
  /\ ClosedUnderReverts(Databases, 1 .. Latest)
  /\ \A d \in UpToDate : Rejected(d.schema) = KnownDrift
  /\ [next : 1 .. Latest, schema : {d.schema : d \in UpToDate}] \subseteq Repeats
  /\ NeverRepeats(Repeats)
=============================================================================
