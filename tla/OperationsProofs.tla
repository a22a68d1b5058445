-------------------------- MODULE OperationsProofs --------------------------
(***************************************************************************)
(* TLAPS proofs about Operations: about deployments, for any number of     *)
(* replicas, reverts and releases to start from; about the daily jobs on   *)
(* travels, for any number of travels, workers, attempts and faults; and   *)
(* about chat hours, for any days, windows, schedules and clock.           *)
(***************************************************************************)
EXTENDS Operations, WellFoundedInduction, TLAPS

-----------------------------------------------------------------------------
(* The jobs                                                                  *)

\* A free worker holds nothing, and a worker at a travel is in the job that
\* comes to that place.
WorkerInv ==
  \A w \in Workers :
    /\ job[w] = "none" <=> at[w] = "idle"
    /\ at[w] \in {"idle", "find"} => left[w] = {}
    /\ at[w] = "push" => job[w] = "cleanup"
    /\ at[w] \in {"announce", "mark"} => job[w] = "notify"
    /\ at[w] \in {"push", "announce", "mark"} => current[w] \in Travels

\* What a clean-up found has ended, or was changed since.
CopiesInv ==
  \A w \in Workers :
    job[w] = "cleanup" => \A t \in left[w] : ends[t] = "past" \/ t \in stale[w]

\* A travel nothing went wrong with has one worker at most between its marker's
\* lookup and its marker, which announces it first; its notice is marked, or
\* about to be.
Undisturbed(t) ==
  /\ \A w \in Workers :
       /\ at[w] = "announce" /\ current[w] = t => window[t] = 0
       /\ at[w] = "mark" /\ current[w] = t => window[t] > 0
       /\ \A v \in Workers \ {w} : ~(Announces(v, t) /\ Announces(w, t))
  /\ window[t] > 0 /\ t \notin marker =>
       \E w \in Workers : at[w] = "mark" /\ current[w] = t

AnnounceInv == \A t \in Travels : t \in doubtful["notify"] \/ Undisturbed(t)

ExpiryIInv ==
  /\ ExpiryTypeOK
  /\ WorkerInv
  /\ CopiesInv
  /\ AnnounceInv
  /\ NoticesExplained

-----------------------------------------------------------------------------
(* The deployment                                                            *)

Committed == [records |-> history, schema |-> schema]
Uncommitted == [records |-> tx.records, schema |-> tx.schema]

Whole(d) == d \in Databases /\ (undone \cap Irreversible = {} => d \in Releases)

\* The transaction has the next migration k ahead: everything before it is
\* recorded, or its replica repeats what another one has finished.
Fresh(k) == tx.records = 1 .. k - 1 /\ Whole(Uncommitted)
Repeating(k) ==
  /\ history = 1 .. Latest /\ tx.records = 1 .. Latest /\ k <= Latest
  /\ [next |-> k, schema |-> tx.schema] \in Repeats

InTransaction(r) ==
  /\ tx = [by |-> r, schema |-> tx.schema, records |-> tx.records]
  /\ \E k \in 1 .. Latest + 1 : pending[r] = k .. Latest /\ (Fresh(k) \/ Repeating(k))

\* What a replica has read stays what is recorded, until another replica has
\* finished: nothing is reverted while a replica is at work.
ReplicaInv(r) ==
  /\ tx.by = r <=> stage[r] = "migrate"
  /\ stage[r] = "ran" => history = 1 .. Latest
  /\ stage[r] = "begin" =>
       \E k \in 1 .. Latest :
         pending[r] = k .. Latest /\ history \in {1 .. k - 1, 1 .. Latest}
  /\ stage[r] = "migrate" => InTransaction(r)

DeploymentIInv ==
  /\ stage \in [Replicas -> Stages]
  /\ pending \in [Replicas -> SUBSET (1 .. Latest)]
  /\ script \in [Replicas -> Scripts]
  /\ undone \subseteq 1 .. Latest
  /\ tx = NoTx \/ tx.by \in Replicas
  /\ Whole(Committed)
  /\ \A r \in Replicas : ReplicaInv(r)

\* The first of the migrations that are left, and the last one recorded.
LEMMA FirstAndLast ==
  ASSUME NEW j \in Int, NEW k \in Int, j <= k
  PROVE  Min(j .. k) = j /\ Max(j .. k) = k
<1>1. j \in j .. k /\ \A i \in j .. k : j <= i
  OBVIOUS
<1>2. k \in j .. k /\ \A i \in j .. k : i <= k
  OBVIOUS
<1>3. \A i \in j .. k : (\A l \in j .. k : i <= l) => i = j
  BY <1>1
<1>4. \A i \in j .. k : (\A l \in j .. k : i >= l) => i = k
  BY <1>2
<1>5. QED
  BY <1>1, <1>2, <1>3, <1>4 DEF Min, Max

\* Steps that neither commit nor revert, and leave the other replicas alone.
LEMMA OthersKept ==
  ASSUME DeploymentIInv, NEW r \in Replicas,
         UNCHANGED <<schema, history, script, undone>>,
         \/ tx' = tx
         \/ tx.by \in {r, NoReplica} /\ (tx' = NoTx \/ tx'.by = r),
         \E place \in Stages : stage' = [stage EXCEPT ![r] = place],
         pending' = pending \/ \E ks \in SUBSET (1 .. Latest) : pending' = [pending EXCEPT ![r] = ks],
         ReplicaInv(r)'
  PROVE  DeploymentIInv'
<1>1. /\ stage' \in [Replicas -> Stages]
      /\ pending' \in [Replicas -> SUBSET (1 .. Latest)]
      /\ script' \in [Replicas -> Scripts]
      /\ undone' \subseteq 1 .. Latest
      /\ tx' = NoTx \/ tx'.by \in Replicas
      /\ Whole(Committed)'
  BY DEF DeploymentIInv, Whole, Committed
<1>2. ASSUME NEW q \in Replicas, q # r
      PROVE  ReplicaInv(q)'
  <2>1. stage'[q] = stage[q] /\ pending'[q] = pending[q] /\ ReplicaInv(q)
    BY <1>2 DEF DeploymentIInv
  <2>2. CASE tx' = tx
    BY <2>1, <2>2 DEF ReplicaInv, InTransaction, Fresh, Repeating, Whole, Uncommitted
  <2>3. CASE tx.by \in {r, NoReplica} /\ (tx' = NoTx \/ tx'.by = r)
    <3>1. tx.by # q /\ tx'.by # q
      BY <1>2, <2>3, DeploymentAssumption DEF NoTx
    <3>2. QED
      BY <2>1, <3>1 DEF ReplicaInv
  <2>4. QED
    BY <2>2, <2>3
<1>3. QED
  BY <1>1, <1>2 DEF DeploymentIInv

\* The committed schema and record, what is being run, and what each replica
\* has yet to run fit together whatever step is taken.
LEMMA NextDeployment ==
  ASSUME DeploymentIInv, DeploymentNext
  PROVE  DeploymentIInv'
<1> USE MigrationFacts, DeploymentAssumption
<1>1. PICK m \in 0 .. Latest : history = 1 .. m
  BY DEF DeploymentIInv, Whole, Committed
<1>2. ASSUME NEW r \in Replicas, Launch(r)
      PROVE  DeploymentIInv'
  <2>1. ReplicaInv(r)'
    BY <1>2 DEF Launch, Step, DeploymentIInv, ReplicaInv
  <2>2. QED
    BY <1>2, <2>1, OthersKept DEF Launch, Step, Stages
<1>3. ASSUME NEW r \in Replicas, ReadHistory(r)
      PROVE  DeploymentIInv'
  <2>1. (1 .. Latest) \ history = m + 1 .. Latest
    BY <1>1
  <2>2. m = Latest <=> m + 1 .. Latest = {}
    OBVIOUS
  <2>3. ReplicaInv(r)'
    BY <1>1, <1>3, <2>1, <2>2 DEF ReadHistory, Step, DeploymentIInv, ReplicaInv
  <2>4. QED
    BY <1>3, <2>3, OthersKept DEF ReadHistory, Step, Stages
<1>4. ASSUME NEW r \in Replicas, Begin(r)
      PROVE  DeploymentIInv'
  <2>1. /\ stage' = [stage EXCEPT ![r] = "migrate"] /\ stage[r] = "begin"
        /\ tx.by = NoReplica
        /\ tx' = [by |-> r, schema |-> schema, records |-> history]
        /\ UNCHANGED <<schema, history, script, pending, undone>>
    BY <1>4 DEF Begin, Step
  <2>2. PICK k \in 1 .. Latest : pending[r] = k .. Latest /\ history \in {1 .. k - 1, 1 .. Latest}
    BY <2>1 DEF DeploymentIInv, ReplicaInv
  <2>3. history = 1 .. k - 1 => Fresh(k)'
    BY <2>1 DEF Fresh, Whole, Uncommitted, Committed, DeploymentIInv
  <2>4. ASSUME history = 1 .. Latest
        PROVE  Repeating(k)'
    <3>1. Committed \in UpToDate
      BY <2>4 DEF UpToDate, Committed, DeploymentIInv, Whole
    <3>2. [next |-> k, schema |-> schema] \in Repeats
      BY <3>1 DEF Committed
    <3>3. QED
      BY <2>1, <2>4, <3>2 DEF Repeating
  <2>5. InTransaction(r)'
    <3>1. tx' = [by |-> r, schema |-> tx'.schema, records |-> tx'.records]
      BY <2>1
    <3>2. pending'[r] = k .. Latest /\ k \in 1 .. Latest + 1
      BY <2>1, <2>2
    <3>3. QED
      BY <2>2, <2>3, <2>4, <3>1, <3>2 DEF InTransaction
  <2>6. ReplicaInv(r)'
    BY <2>1, <2>5 DEF DeploymentIInv, ReplicaInv
  <2>7. QED
    BY <2>1, <2>6, OthersKept DEF Stages
<1>5. ASSUME NEW r \in Replicas, RunMigration(r)
      PROVE  DeploymentIInv'
  <2>1. stage[r] = "migrate" /\ InTransaction(r) /\ tx.by = r
    BY <1>5 DEF RunMigration, DeploymentIInv, ReplicaInv
  <2>2. PICK k \in 1 .. Latest + 1 : pending[r] = k .. Latest /\ (Fresh(k) \/ Repeating(k))
    BY <2>1 DEF InTransaction
  <2>3. k \in 1 .. Latest /\ Min(pending[r]) = k
    BY <1>5, <2>2, FirstAndLast DEF RunMigration
  <2>4. /\ RunsOn(tx.schema, Migrations[k].up)
        /\ tx' = [by |-> r, schema |-> Outcome(tx.schema, Migrations[k].up),
                  records |-> tx.records \cup {k}]
        /\ pending' = [pending EXCEPT ![r] = @ \ {k}]
        /\ UNCHANGED <<schema, history, stage, script, undone>>
    BY <1>5, <2>1, <2>3 DEF RunMigration, InTransaction
  <2>5. pending'[r] = k + 1 .. Latest /\ k + 1 \in 1 .. Latest + 1
    BY <2>2, <2>3, <2>4 DEF DeploymentIInv
  <2>6. ASSUME Fresh(k)
        PROVE  Fresh(k + 1)'
    <3>1. CanRun(Uncommitted, k)
      BY <2>4, <2>6 DEF CanRun, Uncommitted, Fresh
    <3>2. tx'.records = 1 .. k /\ tx'.schema = Outcome(tx.schema, Migrations[k].up)
      BY <2>3, <2>4, <2>6 DEF Fresh
    <3>3. Uncommitted' = Ran(Uncommitted, k)
      BY <3>2 DEF Ran, Uncommitted
    <3>4. Whole(Uncommitted)'
      BY <2>3, <2>4, <2>6, <3>1, <3>3 DEF Whole, Fresh, ClosedUnderRuns
    <3>5. QED
      BY <2>3, <3>2, <3>4 DEF Fresh
  <2>7. ASSUME Repeating(k)
        PROVE  Repeating(k + 1)'
    <3> DEFINE x == [next |-> k, schema |-> tx.schema]
    <3>1. x \in Repeats /\ CanRepeat(x)
      BY <2>4, <2>7 DEF Repeating, CanRepeat
    <3>2. k < Latest /\ Repeated(x) \in Repeats
      BY <3>1 DEF NeverRepeats
    <3>3. Repeated(x) = [next |-> k + 1, schema |-> tx'.schema]
      BY <2>4 DEF Repeated
    <3>4. QED
      BY <2>3, <2>4, <2>7, <3>2, <3>3 DEF Repeating
  <2>8. ReplicaInv(r)'
    <3>1. tx' = [by |-> r, schema |-> tx'.schema, records |-> tx'.records]
      BY <2>4
    <3>2. InTransaction(r)'
      BY <2>2, <2>5, <2>6, <2>7, <3>1 DEF InTransaction
    <3>3. QED
      BY <2>1, <2>4, <3>1, <3>2 DEF ReplicaInv
  <2>9. pending' = [pending EXCEPT ![r] = pending[r] \ {k}] /\ pending[r] \ {k} \in SUBSET (1 .. Latest)
    BY <2>4 DEF DeploymentIInv
  <2>10. stage' = [stage EXCEPT ![r] = stage[r]] /\ stage[r] \in Stages
    BY <2>4 DEF DeploymentIInv
  <2>11. QED
    BY <2>1, <2>4, <2>8, <2>9, <2>10, OthersKept
<1>6. ASSUME NEW r \in Replicas, Commit(r)
      PROVE  DeploymentIInv'
  <2>1. stage[r] = "migrate" /\ pending[r] = {} /\ InTransaction(r) /\ tx.by = r
    BY <1>6 DEF Commit, Step, DeploymentIInv, ReplicaInv
  <2>2. PICK k \in 1 .. Latest + 1 : pending[r] = k .. Latest /\ (Fresh(k) \/ Repeating(k))
    BY <2>1 DEF InTransaction
  <2>3. k = Latest + 1
    <3>1. k .. Latest = {}
      BY <2>1, <2>2
    <3>2. k <= Latest => k \in k .. Latest
      OBVIOUS
    <3>3. QED
      BY <3>1, <3>2
  <2>4. tx.records = 1 .. Latest /\ Whole(Uncommitted)
    BY <2>2, <2>3 DEF Fresh, Repeating
  <2>5. /\ stage' = [stage EXCEPT ![r] = "ran"]
        /\ schema' = tx.schema /\ history' = 1 .. Latest /\ tx' = NoTx /\ tx'.by = NoReplica
        /\ UNCHANGED <<script, pending, undone>>
    BY <1>6, <2>4 DEF Commit, Step, NoTx
  <2>6. Whole(Committed)'
    BY <2>4, <2>5 DEF Whole, Committed, Uncommitted
  <2>7. ASSUME NEW q \in Replicas
        PROVE  ReplicaInv(q)'
    <3>1. CASE q = r
      BY <2>5, <3>1 DEF ReplicaInv, DeploymentIInv
    <3>2. CASE q # r
      <4>1. stage[q] # "migrate" /\ stage'[q] = stage[q] /\ ReplicaInv(q)
        BY <2>1, <2>5, <3>2 DEF ReplicaInv, DeploymentIInv
      <4>2. QED
        BY <2>5, <4>1 DEF ReplicaInv
    <3>3. QED
      BY <3>1, <3>2
  <2>8. QED
    BY <2>5, <2>6, <2>7 DEF DeploymentIInv, Stages
<1>7. ASSUME NEW r \in Replicas, FailMigration(r)
      PROVE  DeploymentIInv'
  <2>1. /\ stage[r] = "migrate" /\ stage' = [stage EXCEPT ![r] = "failed"]
        /\ tx' = NoTx /\ tx'.by = NoReplica
        /\ UNCHANGED <<schema, history, script, pending, undone>>
    BY <1>7 DEF FailMigration, Step, Rollback, NoTx
  <2>2. tx.by = r
    BY <2>1 DEF DeploymentIInv, ReplicaInv
  <2>3. ReplicaInv(r)'
    BY <2>1 DEF DeploymentIInv, ReplicaInv
  <2>4. QED
    BY <2>1, <2>2, <2>3, OthersKept DEF Stages
<1>8. ASSUME NEW r \in Replicas, StartApp(r)
      PROVE  DeploymentIInv'
  <2>1. ReplicaInv(r)'
    BY <1>8 DEF StartApp, DeploymentIInv, ReplicaInv
  <2>2. QED
    BY <1>8, <2>1, OthersKept DEF StartApp, Stages
<1>9. ASSUME NEW r \in Replicas, GiveUp(r)
      PROVE  DeploymentIInv'
  <2>1. ReplicaInv(r)'
    BY <1>9 DEF GiveUp, Step, DeploymentIInv, ReplicaInv
  <2>2. QED
    BY <1>9, <2>1, OthersKept DEF GiveUp, Step, Stages
<1>10. ASSUME NEW r \in Replicas, Stop(r)
       PROVE  DeploymentIInv'
  <2>1. /\ stage' = [stage EXCEPT ![r] = "off"] /\ pending' = [pending EXCEPT ![r] = {}]
        /\ UNCHANGED <<schema, history, script, undone>>
        /\ \/ tx.by = r /\ tx' = NoTx /\ tx'.by = NoReplica
           \/ tx.by # r /\ tx' = tx
    BY <1>10 DEF Stop, Rollback, NoTx
  <2>2. ReplicaInv(r)'
    BY <2>1 DEF DeploymentIInv, ReplicaInv
  <2>3. QED
    BY <2>1, <2>2, OthersKept DEF Stages
<1>11. ASSUME Revert
       PROVE  DeploymentIInv'
  <2>1. m \in 1 .. Latest /\ Max(history) = m
    BY <1>1, <1>11, FirstAndLast DEF Revert
  <2>2. /\ RunsOn(schema, Migrations[m].down)
        /\ schema' = Outcome(schema, Migrations[m].down)
        /\ history' = history \ {m} /\ undone' = undone \cup {m}
        /\ UNCHANGED <<tx, stage, script, pending>>
        /\ \A r \in Replicas : stage[r] = "off"
    BY <1>11, <2>1 DEF Revert
  <2>3. CanRevert(Committed, m)
    BY <1>1, <2>2 DEF CanRevert, Committed
  <2>4. Committed' = Reverted(Committed, m)
    <3>1. (1 .. m) \ {m} = 1 .. m - 1
      BY <2>1
    <3>2. QED
      BY <1>1, <2>2, <3>1 DEF Reverted, Committed
  <2>5. Whole(Committed)'
    <3>1. Reverted(Committed, m) \in Databases
      BY <2>1, <2>3 DEF ClosedUnderReverts, DeploymentIInv, Whole
    <3>2. undone' \cap Irreversible = {} => undone \cap Irreversible = {} /\ m \notin Irreversible
      BY <2>2
    <3>3. undone' \cap Irreversible = {} => Reverted(Committed, m) \in Releases
      BY <2>1, <2>3, <3>2 DEF ClosedUnderReverts, DeploymentIInv, Whole
    <3>4. QED
      BY <2>4, <3>1, <3>3 DEF Whole
  <2>6. ASSUME NEW r \in Replicas
        PROVE  ReplicaInv(r)'
    BY <2>2 DEF ReplicaInv, DeploymentIInv
  <2>7. undone' \subseteq 1 .. Latest
    BY <2>1, <2>2 DEF DeploymentIInv
  <2>8. QED
    BY <2>2, <2>5, <2>6, <2>7 DEF DeploymentIInv, NoTx
<1>12. QED
  BY <1>2, <1>3, <1>4, <1>5, <1>6, <1>7, <1>8, <1>9, <1>10, <1>11 DEF DeploymentNext

\* The invariant is inductive, whichever part of Operations moves.
LEMMA DeploymentStep ==
  ASSUME DeploymentIInv, [Next]_operationsVars
  PROVE  DeploymentIInv'
<1>1. CASE Deploy
  BY <1>1, NextDeployment DEF Deploy
<1>2. CASE UNCHANGED deploymentVars
  BY <1>2 DEF deploymentVars, DeploymentIInv, Whole, Committed, ReplicaInv, InTransaction,
     Fresh, Repeating, Uncommitted
<1>3. QED
  BY <1>1, <1>2 DEF Next, RunJobs, AskForHours, operationsVars

\* The inductive invariant of the deployment holds in every reachable state.
THEOREM DeploymentInvariance == Spec => []DeploymentIInv
<1>1. Init => DeploymentIInv
  <2>1. SUFFICES ASSUME DeploymentInit
                 PROVE  DeploymentIInv
    BY DEF Init
  <2>2. PICK release \in Releases : history = release.records /\ schema = release.schema
    BY <2>1 DEF DeploymentInit
  <2>3. release = [records |-> release.records, schema |-> release.schema]
    <3>1. \E a, b : release = [records |-> a, schema |-> b]
      BY <2>2, Zenon DEF Releases
    <3>2. QED
      BY <3>1
  <2>4. Whole(Committed)
    BY <2>2, <2>3, MigrationFacts DEF Whole, Committed
  <2>5. tx.by = NoReplica /\ \A r \in Replicas : stage[r] = "off"
    BY <2>1 DEF DeploymentInit, NoTx
  <2>6. \A r \in Replicas : ReplicaInv(r)
    BY <2>5, DeploymentAssumption DEF ReplicaInv
  <2>7. QED
    BY <2>1, <2>4, <2>6 DEF DeploymentInit, DeploymentIInv, Stages, Scripts
<1>2. QED
  BY <1>1, DeploymentStep, PTL DEF Spec

\* The committed schema and the one of the transaction in progress consist of
\* columns some migration adds, and every replica is at a step of its script.
THEOREM DeploymentTyped == Spec => []DeploymentTypeOK
<1>1. DeploymentIInv => DeploymentTypeOK
  <2>1. SUFFICES ASSUME DeploymentIInv
                 PROVE  DeploymentTypeOK
    OBVIOUS
  <2>2. \A d \in Databases : d.schema \subseteq Known
    BY MigrationFacts
  <2>3. \A x \in Repeats : x.schema \subseteq Known
    BY MigrationFacts
  <2>4. schema \subseteq Known /\ history \subseteq 1 .. Latest
    BY <2>1, <2>2, MigrationFacts DEF DeploymentIInv, Whole, Committed
  <2>5. ASSUME tx # NoTx
        PROVE  tx.by \in Replicas /\ tx.records \subseteq 1 .. Latest /\ tx.schema \subseteq Known
    <3>1. tx.by \in Replicas /\ InTransaction(tx.by)
      BY <2>1, <2>5 DEF DeploymentIInv, ReplicaInv
    <3>2. PICK k \in 1 .. Latest + 1 : Fresh(k) \/ Repeating(k)
      BY <3>1 DEF InTransaction
    <3>3. Fresh(k) => tx.records \subseteq 1 .. Latest /\ tx.schema \subseteq Known
      BY <2>2, MigrationFacts DEF Fresh, Whole, Uncommitted
    <3>4. Repeating(k) => tx.records \subseteq 1 .. Latest /\ tx.schema \subseteq Known
      BY <2>3 DEF Repeating
    <3>5. QED
      BY <3>1, <3>2, <3>3, <3>4
  <2>6. QED
    BY <2>1, <2>4, <2>5 DEF DeploymentIInv, DeploymentTypeOK
<1>2. QED
  BY DeploymentInvariance, <1>1, PTL

\* Whatever replicas crash, fail or race, and whatever is reverted, the committed
\* schema is that of the last migration recorded, with none missing before it,
\* unless a down that restores something else was executed.
THEOREM SchemaWhole == Spec => []SchemaIsARelease
<1>1. DeploymentIInv => SchemaIsARelease
  BY DEF DeploymentIInv, Whole, Committed, SchemaIsARelease
<1>2. QED
  BY DeploymentInvariance, <1>1, PTL

\* What yarn deploy:prod starts finds the tables its entities map, whatever was
\* reverted before, except for the four that no migration brings in line.
THEOREM StartsOnWhole == Spec => StartsOnWholeSchema
<1>1. ASSUME DeploymentIInv, [Next]_operationsVars,
             NEW r \in Replicas, script[r] = "deploy", stage[r] # "up", stage'[r] = "up"
      PROVE  Rejected(schema) = KnownDrift
  <2>1. DeploymentNext
    BY <1>1 DEF Next, Deploy, RunJobs, AskForHours, operationsVars, deploymentVars
  <2>2. StartApp(r)
    BY <1>1, <2>1
       DEF DeploymentIInv, DeploymentNext, Launch, ReadHistory, Begin, RunMigration, Commit,
           FailMigration, StartApp, GiveUp, Stop, Revert, Step
  <2>3. stage[r] = "ran"
    BY <1>1, <2>2 DEF StartApp, Proceeds
  <2>4. Committed \in UpToDate
    BY <1>1, <2>3 DEF DeploymentIInv, ReplicaInv, UpToDate, Whole, Committed
  <2>5. Rejected(Committed.schema) = KnownDrift
    BY <2>4, MigrationFacts
  <2>6. QED
    BY <2>5 DEF Committed
<1>2. ASSUME DeploymentIInv, [Next]_operationsVars
      PROVE  [\A r \in Replicas :
                script[r] = "deploy" /\ stage[r] # "up" /\ stage'[r] = "up" =>
                  Rejected(schema) = KnownDrift]_deploymentVars
  BY <1>1, <1>2
<1>3. QED
  BY DeploymentInvariance, <1>2, PTL DEF Spec, StartsOnWholeSchema

\* Every step keeps the types.
LEMMA NextExpiryTyped ==
  ASSUME ExpiryIInv, ExpiryNext
  PROVE  ExpiryTypeOK'
<1> USE ExpiryAssumption DEF ExpiryIInv, ExpiryTypeOK, travelRows, workerVars, noticeVars, historyVars
<1>1. ASSUME NEW t \in Travels, TimePasses(t)
      PROVE  ExpiryTypeOK'
  BY <1>1 DEF TimePasses, WorkerInv, Jobs, Dates, Places
<1>2. ASSUME NEW t \in Travels, Extend(t)
      PROVE  ExpiryTypeOK'
  BY <1>2 DEF Extend, WorkerInv, Jobs, Dates, Places
<1>3. ASSUME NEW t \in Travels, DayPasses(t)
      PROVE  ExpiryTypeOK'
  BY <1>3 DEF DayPasses, Announces, WorkerInv, Jobs, Dates, Places
<1>4. ASSUME NEW j \in Jobs, Schedule(j)
      PROVE  ExpiryTypeOK'
  BY <1>4 DEF Schedule, WorkerInv, Jobs, Dates, Places
<1>5. ASSUME NEW w \in Workers, NEW j \in Jobs, Take(w, j)
      PROVE  ExpiryTypeOK'
  BY <1>5 DEF Take, GoTo, WorkerInv, Jobs, Dates, Places
<1>6. ASSUME NEW w \in Workers, Find(w)
      PROVE  ExpiryTypeOK'
  BY <1>6 DEF Find, GoTo, Wanted, WorkerInv, Jobs, Dates, Places
<1>7. ASSUME NEW w \in Workers, NEW t \in Travels, SaveExpired(w, t)
      PROVE  ExpiryTypeOK'
  BY <1>7 DEF SaveExpired, Reach, Handle, GoTo, WorkerInv, Jobs, Dates, Places
<1>8. ASSUME NEW w \in Workers, NEW t \in Travels, SaveFails(w, t)
      PROVE  ExpiryTypeOK'
  BY <1>8 DEF SaveFails, Reach, Fault, WorkerInv, Jobs, Dates, Places
<1>9. ASSUME NEW w \in Workers, PushExpired(w)
      PROVE  ExpiryTypeOK'
  BY <1>9 DEF PushExpired, NextTravel, Handle, GoTo, WorkerInv, Jobs, Dates,
     Places
<1>10. ASSUME NEW w \in Workers, PushExpiredFails(w)
       PROVE  ExpiryTypeOK'
  BY <1>10 DEF PushExpiredFails, NextTravel, Handle, GoTo, Fault, WorkerInv,
     Jobs, Dates, Places
<1>11. ASSUME NEW w \in Workers, NEW t \in Travels, GetMarker(w, t)
       PROVE  ExpiryTypeOK'
  BY <1>11 DEF GetMarker, Announces, Reach, Handle, GoTo, Fault, WorkerInv, Jobs,
     Dates, Places
<1>12. ASSUME NEW w \in Workers, Announce(w)
       PROVE  ExpiryTypeOK'
  BY <1>12 DEF Announce, GoTo, Fault, WorkerInv, Jobs, Dates, Places
<1>13. ASSUME NEW w \in Workers, SetMarker(w)
       PROVE  ExpiryTypeOK'
  BY <1>13 DEF SetMarker, NextTravel, Handle, GoTo, Fault, WorkerInv, Jobs,
     Dates, Places
<1>14. ASSUME NEW w \in Workers, Finish(w)
       PROVE  ExpiryTypeOK'
  BY <1>14 DEF Finish, AtEnd, EndRun, Handle, GoTo, WorkerInv, Jobs, Dates,
     Places
<1>15. ASSUME NEW w \in Workers, Throw(w)
       PROVE  ExpiryTypeOK'
  BY <1>15 DEF Throw, AtEnd, EndRun, Handle, GoTo, Fault, WorkerInv, Jobs,
     Dates, Places
<1>16. ASSUME NEW w \in Workers, Crash(w)
       PROVE  ExpiryTypeOK'
  BY <1>16 DEF Crash, EndRun, Handle, GoTo, Fault, WorkerInv, Jobs, Dates,
     Places
<1>17. ASSUME NEW w \in Workers, Stall(w)
       PROVE  ExpiryTypeOK'
  BY <1>17 DEF Stall, Fault, WorkerInv, Jobs, Dates, Places
<1>18. QED
  BY <1>1, <1>2, <1>3, <1>4, <1>5, <1>6, <1>7, <1>8, <1>9, <1>10, <1>11, <1>12,
     <1>13, <1>14, <1>15, <1>16, <1>17 DEF ExpiryNext, WorkerStep

\* Every step keeps a worker where its job is.
LEMMA NextWorker ==
  ASSUME ExpiryIInv, ExpiryNext
  PROVE  WorkerInv'
<1> USE ExpiryAssumption DEF ExpiryIInv, ExpiryTypeOK, travelRows, workerVars, noticeVars, historyVars
<1>1. ASSUME NEW t \in Travels, TimePasses(t)
      PROVE  WorkerInv'
  BY <1>1 DEF TimePasses, WorkerInv, Jobs, Places
<1>2. ASSUME NEW t \in Travels, Extend(t)
      PROVE  WorkerInv'
  BY <1>2 DEF Extend, WorkerInv, Jobs, Places
<1>3. ASSUME NEW t \in Travels, DayPasses(t)
      PROVE  WorkerInv'
  BY <1>3 DEF DayPasses, Announces, WorkerInv, Jobs, Places
<1>4. ASSUME NEW j \in Jobs, Schedule(j)
      PROVE  WorkerInv'
  BY <1>4 DEF Schedule, WorkerInv, Jobs, Places
<1>5. ASSUME NEW w \in Workers, NEW j \in Jobs, Take(w, j)
      PROVE  WorkerInv'
  BY <1>5 DEF Take, GoTo, WorkerInv, Jobs, Places
<1>6. ASSUME NEW w \in Workers, Find(w)
      PROVE  WorkerInv'
  BY <1>6 DEF Find, GoTo, Wanted, WorkerInv, Jobs, Places
<1>7. ASSUME NEW w \in Workers, NEW t \in Travels, SaveExpired(w, t)
      PROVE  WorkerInv'
  BY <1>7 DEF SaveExpired, Reach, Handle, GoTo, WorkerInv, Jobs, Places
<1>8. ASSUME NEW w \in Workers, NEW t \in Travels, SaveFails(w, t)
      PROVE  WorkerInv'
  BY <1>8 DEF SaveFails, Reach, Fault, WorkerInv, Jobs, Places
<1>9. ASSUME NEW w \in Workers, PushExpired(w)
      PROVE  WorkerInv'
  BY <1>9 DEF PushExpired, NextTravel, Handle, GoTo, WorkerInv, Jobs, Places
<1>10. ASSUME NEW w \in Workers, PushExpiredFails(w)
       PROVE  WorkerInv'
  BY <1>10 DEF PushExpiredFails, NextTravel, Handle, GoTo, Fault, WorkerInv,
     Jobs, Places
<1>11. ASSUME NEW w \in Workers, NEW t \in Travels, GetMarker(w, t)
       PROVE  WorkerInv'
  BY <1>11 DEF GetMarker, Announces, Reach, Handle, GoTo, WorkerInv, Jobs,
     Places
<1>12. ASSUME NEW w \in Workers, Announce(w)
       PROVE  WorkerInv'
  BY <1>12 DEF Announce, GoTo, Fault, WorkerInv, Jobs, Places
<1>13. ASSUME NEW w \in Workers, SetMarker(w)
       PROVE  WorkerInv'
  BY <1>13 DEF SetMarker, NextTravel, Handle, GoTo, Fault, WorkerInv, Jobs,
     Places
<1>14. ASSUME NEW w \in Workers, Finish(w)
       PROVE  WorkerInv'
  BY <1>14 DEF Finish, AtEnd, EndRun, Handle, GoTo, WorkerInv, Jobs, Places
<1>15. ASSUME NEW w \in Workers, Throw(w)
       PROVE  WorkerInv'
  BY <1>15 DEF Throw, AtEnd, EndRun, Handle, GoTo, Fault, WorkerInv, Jobs,
     Places
<1>16. ASSUME NEW w \in Workers, Crash(w)
       PROVE  WorkerInv'
  BY <1>16 DEF Crash, EndRun, Handle, GoTo, Fault, WorkerInv, Jobs, Places
<1>17. ASSUME NEW w \in Workers, Stall(w)
       PROVE  WorkerInv'
  BY <1>17 DEF Stall, Fault, WorkerInv, Jobs, Places
<1>18. QED
  BY <1>1, <1>2, <1>3, <1>4, <1>5, <1>6, <1>7, <1>8, <1>9, <1>10, <1>11, <1>12,
     <1>13, <1>14, <1>15, <1>16, <1>17 DEF ExpiryNext, WorkerStep

\* No step but an administrator's moves an end date a clean-up has found past.
LEMMA NextCopies ==
  ASSUME ExpiryIInv, ExpiryNext
  PROVE  CopiesInv'
<1> USE ExpiryAssumption DEF ExpiryIInv, ExpiryTypeOK, travelRows, workerVars, noticeVars, historyVars
<1>1. ASSUME NEW t \in Travels, TimePasses(t)
      PROVE  CopiesInv'
  BY <1>1 DEF TimePasses, CopiesInv, Jobs, WorkerInv, Dates
<1>2. ASSUME NEW t \in Travels, Extend(t)
      PROVE  CopiesInv'
  BY <1>2 DEF Extend, CopiesInv, Jobs, WorkerInv, Dates
<1>3. ASSUME NEW t \in Travels, DayPasses(t)
      PROVE  CopiesInv'
  BY <1>3 DEF DayPasses, Announces, CopiesInv, Jobs, WorkerInv, Dates
<1>4. ASSUME NEW j \in Jobs, Schedule(j)
      PROVE  CopiesInv'
  BY <1>4 DEF Schedule, CopiesInv, Jobs, WorkerInv, Dates
<1>5. ASSUME NEW w \in Workers, NEW j \in Jobs, Take(w, j)
      PROVE  CopiesInv'
  BY <1>5 DEF Take, GoTo, CopiesInv, Jobs, WorkerInv, Dates
<1>6. ASSUME NEW w \in Workers, Find(w)
      PROVE  CopiesInv'
  BY <1>6 DEF Find, GoTo, Wanted, CopiesInv, Jobs, WorkerInv, Dates
<1>7. ASSUME NEW w \in Workers, NEW t \in Travels, SaveExpired(w, t)
      PROVE  CopiesInv'
  BY <1>7 DEF SaveExpired, Reach, Handle, GoTo, CopiesInv, Jobs, WorkerInv,
     Dates
<1>8. ASSUME NEW w \in Workers, NEW t \in Travels, SaveFails(w, t)
      PROVE  CopiesInv'
  BY <1>8 DEF SaveFails, Reach, Fault, CopiesInv, Jobs, WorkerInv, Dates
<1>9. ASSUME NEW w \in Workers, PushExpired(w)
      PROVE  CopiesInv'
  BY <1>9 DEF PushExpired, NextTravel, Handle, GoTo, CopiesInv, Jobs,
     WorkerInv, Dates
<1>10. ASSUME NEW w \in Workers, PushExpiredFails(w)
       PROVE  CopiesInv'
  BY <1>10 DEF PushExpiredFails, NextTravel, Handle, GoTo, Fault, CopiesInv,
     Jobs, WorkerInv, Dates
<1>11. ASSUME NEW w \in Workers, NEW t \in Travels, GetMarker(w, t)
       PROVE  CopiesInv'
  BY <1>11 DEF GetMarker, Announces, Reach, Handle, GoTo, CopiesInv, Jobs,
     WorkerInv, Dates
<1>12. ASSUME NEW w \in Workers, Announce(w)
       PROVE  CopiesInv'
  BY <1>12 DEF Announce, GoTo, Fault, CopiesInv, Jobs, WorkerInv, Dates
<1>13. ASSUME NEW w \in Workers, SetMarker(w)
       PROVE  CopiesInv'
  BY <1>13 DEF SetMarker, NextTravel, Handle, GoTo, Fault, CopiesInv, Jobs,
     WorkerInv, Dates
<1>14. ASSUME NEW w \in Workers, Finish(w)
       PROVE  CopiesInv'
  BY <1>14 DEF Finish, AtEnd, EndRun, Handle, GoTo, CopiesInv, Jobs, WorkerInv,
     Dates
<1>15. ASSUME NEW w \in Workers, Throw(w)
       PROVE  CopiesInv'
  BY <1>15 DEF Throw, AtEnd, EndRun, Handle, GoTo, Fault, CopiesInv, Jobs,
     WorkerInv, Dates
<1>16. ASSUME NEW w \in Workers, Crash(w)
       PROVE  CopiesInv'
  BY <1>16 DEF Crash, EndRun, Handle, GoTo, Fault, CopiesInv, Jobs, WorkerInv,
     Dates
<1>17. ASSUME NEW w \in Workers, Stall(w)
       PROVE  CopiesInv'
  BY <1>17 DEF Stall, Fault, CopiesInv, Jobs, WorkerInv, Dates
<1>18. QED
  BY <1>1, <1>2, <1>3, <1>4, <1>5, <1>6, <1>7, <1>8, <1>9, <1>10, <1>11, <1>12,
     <1>13, <1>14, <1>15, <1>16, <1>17 DEF ExpiryNext, WorkerStep

\* Every step that comes between a lookup and its marker leaves the travel in doubt.
LEMMA NextAnnounce ==
  ASSUME ExpiryIInv, ExpiryNext
  PROVE  AnnounceInv'
<1> USE ExpiryAssumption DEF ExpiryIInv, ExpiryTypeOK, travelRows, workerVars, noticeVars, historyVars
<1>1. ASSUME NEW t \in Travels, TimePasses(t)
      PROVE  AnnounceInv'
  BY <1>1 DEF TimePasses, AnnounceInv, Undisturbed, Announces, WorkerInv, Jobs
<1>2. ASSUME NEW t \in Travels, Extend(t)
      PROVE  AnnounceInv'
  BY <1>2 DEF Extend, AnnounceInv, Undisturbed, Announces, WorkerInv, Jobs
<1>3. ASSUME NEW t \in Travels, DayPasses(t)
      PROVE  AnnounceInv'
  BY <1>3 DEF DayPasses, Announces, AnnounceInv, Undisturbed, WorkerInv, Jobs
<1>4. ASSUME NEW j \in Jobs, Schedule(j)
      PROVE  AnnounceInv'
  BY <1>4 DEF Schedule, AnnounceInv, Undisturbed, Announces, WorkerInv, Jobs
<1>5. ASSUME NEW w \in Workers, NEW j \in Jobs, Take(w, j)
      PROVE  AnnounceInv'
  BY <1>5 DEF Take, GoTo, AnnounceInv, Undisturbed, Announces, WorkerInv, Jobs
<1>6. ASSUME NEW w \in Workers, Find(w)
      PROVE  AnnounceInv'
  BY <1>6 DEF Find, GoTo, Wanted, AnnounceInv, Undisturbed, Announces,
     WorkerInv, Jobs
<1>7. ASSUME NEW w \in Workers, NEW t \in Travels, SaveExpired(w, t)
      PROVE  AnnounceInv'
  BY <1>7 DEF SaveExpired, Reach, Handle, GoTo, AnnounceInv, Undisturbed,
     Announces, WorkerInv, Jobs
<1>8. ASSUME NEW w \in Workers, NEW t \in Travels, SaveFails(w, t)
      PROVE  AnnounceInv'
  BY <1>8 DEF SaveFails, Reach, Fault, AnnounceInv, Undisturbed, Announces,
     WorkerInv, Jobs
<1>9. ASSUME NEW w \in Workers, PushExpired(w)
      PROVE  AnnounceInv'
  BY <1>9 DEF PushExpired, NextTravel, Handle, GoTo, AnnounceInv, Undisturbed,
     Announces, WorkerInv, Jobs
<1>10. ASSUME NEW w \in Workers, PushExpiredFails(w)
       PROVE  AnnounceInv'
  BY <1>10 DEF PushExpiredFails, NextTravel, Handle, GoTo, Fault, AnnounceInv,
     Undisturbed, Announces, WorkerInv, Jobs
<1>11. ASSUME NEW w \in Workers, NEW t \in Travels, GetMarker(w, t)
       PROVE  AnnounceInv'
  BY <1>11 DEF GetMarker, Announces, Reach, Handle, GoTo, AnnounceInv,
     Undisturbed, WorkerInv, Jobs
<1>12. ASSUME NEW w \in Workers, Announce(w)
       PROVE  AnnounceInv'
  BY <1>12 DEF Announce, GoTo, Fault, AnnounceInv, Undisturbed, Announces,
     WorkerInv, Jobs
<1>13. ASSUME NEW w \in Workers, SetMarker(w)
       PROVE  AnnounceInv'
  BY <1>13 DEF SetMarker, NextTravel, Handle, GoTo, Fault, AnnounceInv,
     Undisturbed, Announces, WorkerInv, Jobs
<1>14. ASSUME NEW w \in Workers, Finish(w)
       PROVE  AnnounceInv'
  BY <1>14 DEF Finish, AtEnd, EndRun, Handle, GoTo, AnnounceInv, Undisturbed,
     Announces, WorkerInv, Jobs
<1>15. ASSUME NEW w \in Workers, Throw(w)
       PROVE  AnnounceInv'
  BY <1>15 DEF Throw, AtEnd, EndRun, Handle, GoTo, Fault, AnnounceInv,
     Undisturbed, Announces, WorkerInv, Jobs
<1>16. ASSUME NEW w \in Workers, Crash(w)
       PROVE  AnnounceInv'
  BY <1>16 DEF Crash, EndRun, Handle, GoTo, Fault, AnnounceInv, Undisturbed,
     Announces, WorkerInv, Jobs
<1>17. ASSUME NEW w \in Workers, Stall(w)
       PROVE  AnnounceInv'
  BY <1>17 DEF Stall, Fault, AnnounceInv, Undisturbed, Announces, WorkerInv,
     Jobs
<1>18. QED
  BY <1>1, <1>2, <1>3, <1>4, <1>5, <1>6, <1>7, <1>8, <1>9, <1>10, <1>11, <1>12,
     <1>13, <1>14, <1>15, <1>16, <1>17 DEF ExpiryNext, WorkerStep

\* Every notice is queued, in doubt, or the next step of a worker.
LEMMA NextNotices ==
  ASSUME ExpiryIInv, ExpiryNext
  PROVE  NoticesExplained'
<1> USE ExpiryAssumption DEF ExpiryIInv, ExpiryTypeOK, travelRows, workerVars, noticeVars, historyVars
<1>1. ASSUME NEW t \in Travels, TimePasses(t)
      PROVE  NoticesExplained'
  BY <1>1 DEF TimePasses, NoticesExplained, AnnounceInv, Undisturbed,
     WorkerInv, Jobs
<1>2. ASSUME NEW t \in Travels, Extend(t)
      PROVE  NoticesExplained'
  BY <1>2 DEF Extend, NoticesExplained, AnnounceInv, Undisturbed, WorkerInv,
     Jobs
<1>3. ASSUME NEW t \in Travels, DayPasses(t)
      PROVE  NoticesExplained'
  BY <1>3 DEF DayPasses, Announces, NoticesExplained, AnnounceInv, Undisturbed,
     WorkerInv, Jobs
<1>4. ASSUME NEW j \in Jobs, Schedule(j)
      PROVE  NoticesExplained'
  BY <1>4 DEF Schedule, NoticesExplained, AnnounceInv, Undisturbed, WorkerInv,
     Jobs
<1>5. ASSUME NEW w \in Workers, NEW j \in Jobs, Take(w, j)
      PROVE  NoticesExplained'
  BY <1>5 DEF Take, GoTo, NoticesExplained, AnnounceInv, Undisturbed,
     WorkerInv, Jobs
<1>6. ASSUME NEW w \in Workers, Find(w)
      PROVE  NoticesExplained'
  BY <1>6 DEF Find, GoTo, Wanted, NoticesExplained, AnnounceInv, Undisturbed,
     WorkerInv, Jobs
<1>7. ASSUME NEW w \in Workers, NEW t \in Travels, SaveExpired(w, t)
      PROVE  NoticesExplained'
  BY <1>7 DEF SaveExpired, Reach, Handle, GoTo, NoticesExplained, AnnounceInv,
     Undisturbed, WorkerInv, Jobs
<1>8. ASSUME NEW w \in Workers, NEW t \in Travels, SaveFails(w, t)
      PROVE  NoticesExplained'
  BY <1>8 DEF SaveFails, Reach, Fault, NoticesExplained, AnnounceInv,
     Undisturbed, WorkerInv, Jobs
<1>9. ASSUME NEW w \in Workers, PushExpired(w)
      PROVE  NoticesExplained'
  BY <1>9 DEF PushExpired, NextTravel, Handle, GoTo, NoticesExplained,
     AnnounceInv, Undisturbed, WorkerInv, Jobs
<1>10. ASSUME NEW w \in Workers, PushExpiredFails(w)
       PROVE  NoticesExplained'
  BY <1>10 DEF PushExpiredFails, NextTravel, Handle, GoTo, Fault,
     NoticesExplained, AnnounceInv, Undisturbed, WorkerInv, Jobs
<1>11. ASSUME NEW w \in Workers, NEW t \in Travels, GetMarker(w, t)
       PROVE  NoticesExplained'
  BY <1>11 DEF GetMarker, Announces, Reach, Handle, GoTo, NoticesExplained,
     AnnounceInv, Undisturbed, WorkerInv, Jobs
<1>12. ASSUME NEW w \in Workers, Announce(w)
       PROVE  NoticesExplained'
  BY <1>12 DEF Announce, GoTo, Fault, NoticesExplained, AnnounceInv,
     Undisturbed, WorkerInv, Jobs
<1>13. ASSUME NEW w \in Workers, SetMarker(w)
       PROVE  NoticesExplained'
  BY <1>13 DEF SetMarker, NextTravel, Handle, GoTo, Fault, NoticesExplained,
     AnnounceInv, Undisturbed, WorkerInv, Jobs
<1>14. ASSUME NEW w \in Workers, Finish(w)
       PROVE  NoticesExplained'
  BY <1>14 DEF Finish, AtEnd, EndRun, Handle, GoTo, NoticesExplained,
     AnnounceInv, Undisturbed, WorkerInv, Jobs
<1>15. ASSUME NEW w \in Workers, Throw(w)
       PROVE  NoticesExplained'
  BY <1>15 DEF Throw, AtEnd, EndRun, Handle, GoTo, Fault, NoticesExplained,
     AnnounceInv, Undisturbed, WorkerInv, Jobs
<1>16. ASSUME NEW w \in Workers, Crash(w)
       PROVE  NoticesExplained'
  BY <1>16 DEF Crash, EndRun, Handle, GoTo, Fault, NoticesExplained,
     AnnounceInv, Undisturbed, WorkerInv, Jobs
<1>17. ASSUME NEW w \in Workers, Stall(w)
       PROVE  NoticesExplained'
  BY <1>17 DEF Stall, Fault, NoticesExplained, AnnounceInv, Undisturbed,
     WorkerInv, Jobs
<1>18. QED
  BY <1>1, <1>2, <1>3, <1>4, <1>5, <1>6, <1>7, <1>8, <1>9, <1>10, <1>11, <1>12,
     <1>13, <1>14, <1>15, <1>16, <1>17 DEF ExpiryNext, WorkerStep

\* Initially every travel is active and no job runs.
LEMMA InitExpiry == ExpiryInit => ExpiryIInv
  BY ExpiryAssumption DEF ExpiryInit, ExpiryIInv, ExpiryTypeOK, WorkerInv, CopiesInv,
     AnnounceInv, Undisturbed, Announces, NoticesExplained, Jobs, Dates, Places

\* The invariant is inductive, whichever part of Operations moves.
LEMMA ExpiryStep ==
  ASSUME ExpiryIInv, [Next]_operationsVars
  PROVE  ExpiryIInv'
<1>1. CASE RunJobs
  BY <1>1, NextExpiryTyped, NextWorker, NextCopies, NextAnnounce, NextNotices
     DEF RunJobs, ExpiryIInv
<1>2. CASE UNCHANGED expiryVars
  BY <1>2 DEF expiryVars, ExpiryIInv, ExpiryTypeOK, WorkerInv, CopiesInv, AnnounceInv,
     Undisturbed, Announces, NoticesExplained
<1>3. QED
  BY <1>1, <1>2 DEF Next, Deploy, AskForHours, operationsVars

\* The inductive invariant of the jobs holds in every reachable state.
THEOREM ExpiryInvariance == Spec => []ExpiryIInv
<1>1. Init => ExpiryIInv
  BY InitExpiry DEF Init
<1>2. QED
  BY <1>1, ExpiryStep, PTL DEF Spec

\* Every reachable state of the travels, the queue, its workers and the notices
\* is well typed.
THEOREM ExpiryTyped == Spec => []ExpiryTypeOK
<1>1. ExpiryIInv => ExpiryTypeOK
  BY DEF ExpiryIInv
<1>2. QED
  BY ExpiryInvariance, <1>1, PTL

\* Every travel a clean-up deactivated has its notice in the queue or is about
\* to, no travel is announced twice a day, and no marker stands for a notice
\* that was never queued, but after a fault between the two steps.
THEOREM NoticesAccounted == Spec => []NoticesExplained
<1>1. ExpiryIInv => NoticesExplained
  BY DEF ExpiryIInv
<1>2. QED
  BY ExpiryInvariance, <1>1, PTL

\* Only SaveExpired deactivates, and it has a travel that goes on among its
\* copies only if an administrator has moved the end date meanwhile.
LEMMA OngoingStep ==
  ASSUME ExpiryIInv, [Next]_operationsVars,
         NEW t \in Travels, status[t] = "active", ends[t] # "past", status'[t] = "inactive"
  PROVE  \E w \in Workers : t \in stale[w]
<1> USE DEF ExpiryIInv, ExpiryTypeOK, travelRows
<1>1. RunJobs
  BY DEF Next, Deploy, AskForHours, operationsVars, expiryVars
<1>2. ASSUME NEW w \in Workers, NEW u \in Travels, SaveExpired(w, u)
      PROVE  u = t
  BY <1>2 DEF SaveExpired
<1>3. \E w \in Workers : SaveExpired(w, t)
  <2>1. ASSUME ~ \E w \in Workers, u \in Travels : SaveExpired(w, u)
        PROVE  status'[t] = status[t] \/ status'[t] = "active"
    BY <1>1, <2>1
       DEF RunJobs, ExpiryNext, WorkerStep, TimePasses, Extend, DayPasses, Schedule, Take,
           Find, SaveFails, GetMarker, PushExpired, PushExpiredFails, Announce, SetMarker,
           Finish, Throw, Crash, Stall
  <2>2. QED
    BY <1>2, <2>1
<1>4. QED
  BY <1>3 DEF SaveExpired, Reach, CopiesInv

\* A travel that goes on is deactivated only by a job that found it before an
\* administrator moved its end date.
THEOREM DeactivationsByRace == Spec => OngoingEndsOnlyByRace
<1>1. ASSUME ExpiryIInv, [Next]_operationsVars
      PROVE  [\A t \in Travels :
                status[t] = "active" /\ ends[t] # "past" /\ status'[t] = "inactive" =>
                  \E w \in Workers : t \in stale[w]]_expiryVars
  BY <1>1, OngoingStep
<1>2. QED
  BY ExpiryInvariance, <1>1, PTL DEF Spec, OngoingEndsOnlyByRace

-----------------------------------------------------------------------------
(* The hours                                                                 *)

Less == {pair \in Nat \X Nat : pair[1] < pair[2]}

\* A set of numbers that has a member has a least one, and Min returns it.
LEMMA MinExists ==
  ASSUME NEW S \in SUBSET Nat, S # {}
  PROVE  Min(S) \in S /\ \A y \in S : Min(S) <= y
<1>1. IsWellFoundedOn(Less, Nat)
  BY NatLessThanWellFounded DEF OpToRel, Less
<1>2. PICK x \in S : \A y \in S : ~ (<<y, x>> \in Less)
  BY <1>1, WFMin
<1>3. ASSUME NEW y \in S
      PROVE  x <= y
  <2>1. x \in Nat /\ y \in Nat
    OBVIOUS
  <2>2. y < x => <<y, x>> \in Less
    BY <2>1 DEF Less
  <2>3. QED
    BY <1>2, <2>1, <2>2
<1>4. QED
  BY <1>3 DEF Min

\* An instant is a day and a time of that day.
LEMMA Split ==
  ASSUME NEW t \in Int
  PROVE  /\ Day(t) \in Int
         /\ TimeOfDay(t) \in 0 .. Minutes - 1
         /\ t = Day(t) * Minutes + TimeOfDay(t)
  BY HoursAssumption DEF Day, TimeOfDay

\* And only one day and one time.
LEMMA Compose ==
  ASSUME NEW d \in Int, NEW time \in 0 .. Minutes - 1
  PROVE  Day(d * Minutes + time) = d /\ TimeOfDay(d * Minutes + time) = time
  BY HoursAssumption DEF Day, TimeOfDay

\* A later day begins when an earlier one is over.
LEMMA DaysInOrder ==
  ASSUME NEW d \in Int, NEW e \in Int, d < e
  PROVE  d * Minutes + Minutes <= e * Minutes
  BY HoursAssumption

\* Instants are in the order of their days, and of their times within a day.
LEMMA InOrder ==
  ASSUME NEW t \in Int, NEW u \in Int, t <= u
  PROVE  Day(t) <= Day(u) /\ (Day(t) = Day(u) => TimeOfDay(t) <= TimeOfDay(u))
<1> DEFINE a == Day(t) * Minutes
           b == Day(u) * Minutes
<1>1. /\ a \in Int /\ TimeOfDay(t) \in 0 .. Minutes - 1 /\ t = a + TimeOfDay(t)
      /\ b \in Int /\ TimeOfDay(u) \in 0 .. Minutes - 1 /\ u = b + TimeOfDay(u)
      /\ Day(t) \in Int /\ Day(u) \in Int
  BY Split, HoursAssumption
<1>2. Day(u) < Day(t) => b + Minutes <= a
  BY <1>1, DaysInOrder
<1>3. Day(u) = Day(t) => a = b
  OBVIOUS
<1> HIDE DEF a, b
<1>4. QED
  BY <1>1, <1>2, <1>3, HoursAssumption

\* Before a day's hour has come it is an earlier day, or an earlier hour of it.
LEMMA BeforeHour ==
  ASSUME NEW u \in Int, NEW d \in Int, NEW time \in 0 .. Minutes - 1,
         u < d * Minutes + time
  PROVE  Day(u) <= d /\ (Day(u) = d => TimeOfDay(u) < time)
<1> DEFINE a == d * Minutes
           b == Day(u) * Minutes
<1>1. /\ a \in Int
      /\ b \in Int /\ TimeOfDay(u) \in 0 .. Minutes - 1 /\ u = b + TimeOfDay(u)
      /\ Day(u) \in Int
  BY Split, HoursAssumption
<1>2. d < Day(u) => a + Minutes <= b
  BY <1>1, DaysInOrder
<1>3. Day(u) = d => a = b
  OBVIOUS
<1>4. u < a + time
  OBVIOUS
<1> HIDE DEF a, b
<1>5. QED
  BY <1>1, <1>2, <1>3, <1>4, HoursAssumption

\* The week has seven days.
LEMMA DaysAhead ==
  ASSUME NEW d \in Int, NEW i \in Int
  PROVE  ((d % 7) + i) % 7 = (d + i) % 7
  OBVIOUS

LEMMA WithinAWeek ==
  ASSUME NEW d \in Int, NEW e \in Int
  PROVE  \E i \in 1 .. 7 : (d + i) % 7 = e % 7
  OBVIOUS

\* Closed at t and from then on until x, when it opens, or for ever.
FirstOpening(p, t, x) ==
  IF x = Never THEN \A u \in Int : t <= u => ~IsChatAllowed(p, u)
  ELSE /\ x \in Int /\ t <= x
       /\ IsChatAllowed(p, x)
       /\ \A u \in Int : t <= u /\ u < x => ~IsChatAllowed(p, u)

\* The next hour of a daily window is the first instant at which it is open.
LEMMA NextDailyIsFirst ==
  ASSUME NEW p \in Planets, NEW t \in Nat, Plain(p), p.type = "daily",
         ~IsChatAllowed(p, t)
  PROVE  FirstOpening(p, t, NextDaily(p, t))
<1> DEFINE s == p.startTime
           e == p.endTime
           d == Day(t)
<1>1. s \in 0 .. Minutes - 1 /\ e \in 0 .. Minutes - 1 /\ s <= e /\ p.status = "active"
  BY HoursAssumption DEF Plain
<1>2. \A u \in Int : IsChatAllowed(p, u) <=> TimeOfDay(u) \in s .. e
  BY <1>1, HoursAssumption DEF IsChatAllowed, CheckDaily
<1>3. s # Missing
  BY <1>1, HoursAssumption
<1>4. d \in Int /\ OnDay(t, 0, s) = d * Minutes + s /\ OnDay(t, 1, s) = (d + 1) * Minutes + s
  BY <1>1, Split DEF OnDay
<1> HIDE DEF s, e, d
<1>5. CASE d * Minutes + s <= t
  <2> DEFINE x == (d + 1) * Minutes + s
  <2>1. NextDaily(p, t) = x
    BY <1>3, <1>4, <1>5 DEF NextDaily, s
  <2>2. x \in Int /\ t < x
    <3>1. t = d * Minutes + TimeOfDay(t) /\ TimeOfDay(t) \in 0 .. Minutes - 1
      BY Split DEF d
    <3>2. d * Minutes + Minutes <= (d + 1) * Minutes
      BY <1>4, DaysInOrder
    <3>3. d * Minutes \in Int /\ (d + 1) * Minutes \in Int
      BY <1>4, HoursAssumption
    <3>4. QED
      BY <1>1, <3>1, <3>2, <3>3, HoursAssumption
  <2>3. IsChatAllowed(p, x)
    BY <1>1, <1>2, <1>4, <2>2, Compose
  <2>4. e < TimeOfDay(t)
    <3>1. t = d * Minutes + TimeOfDay(t) /\ TimeOfDay(t) \in Int /\ d * Minutes \in Int
      BY <1>4, Split, HoursAssumption DEF d
    <3>2. s <= TimeOfDay(t)
      BY <1>1, <1>5, <3>1
    <3>3. QED
      BY <1>1, <1>2, <3>1, <3>2
  <2>5. ASSUME NEW u \in Int, t <= u, u < x
        PROVE  ~IsChatAllowed(p, u)
    <3>1. d <= Day(u) /\ (Day(u) = d => TimeOfDay(t) <= TimeOfDay(u))
      BY <2>5, InOrder DEF d
    <3>2. Day(u) <= d + 1 /\ (Day(u) = d + 1 => TimeOfDay(u) < s)
      BY <1>1, <1>4, <2>5, BeforeHour
    <3>3. TimeOfDay(t) \in Int /\ TimeOfDay(u) \in Int /\ Day(u) \in Int
      BY Split
    <3>4. CASE Day(u) = d
      BY <1>1, <1>2, <2>4, <3>1, <3>3, <3>4
    <3>5. CASE Day(u) = d + 1
      BY <1>1, <1>2, <3>2, <3>3, <3>5
    <3>6. QED
      BY <1>4, <3>1, <3>2, <3>3, <3>4, <3>5
  <2>6. QED
    BY <2>1, <2>2, <2>3, <2>5, HoursAssumption DEF FirstOpening
<1>6. CASE ~(d * Minutes + s <= t)
  <2> DEFINE x == d * Minutes + s
  <2>1. NextDaily(p, t) = x
    BY <1>3, <1>4, <1>6 DEF NextDaily, s
  <2>2. x \in Int /\ t < x
    BY <1>1, <1>4, <1>6, HoursAssumption
  <2>3. IsChatAllowed(p, x)
    BY <1>1, <1>2, <1>4, <2>2, Compose
  <2>4. ASSUME NEW u \in Int, t <= u, u < x
        PROVE  ~IsChatAllowed(p, u)
    <3>1. d <= Day(u)
      BY <2>4, InOrder DEF d
    <3>2. Day(u) <= d /\ (Day(u) = d => TimeOfDay(u) < s)
      BY <1>1, <1>4, <2>4, BeforeHour
    <3>3. QED
      BY <1>1, <1>2, <1>4, <3>1, <3>2, Split, HoursAssumption
  <2>5. QED
    BY <2>1, <2>2, <2>3, <2>4, HoursAssumption DEF FirstOpening
<1>7. QED
  BY <1>5, <1>6

\* What the loop of a weekly restriction finds is the first day, from tomorrow
\* to this day of next week, on which the planet opens.
LEMMA NextWeeklyIsFirst ==
  ASSUME NEW p \in Planets, NEW t \in Nat, Plain(p), p.type = "weekly",
         ~IsChatAllowed(p, t)
  PROVE  FirstOpening(p, t, NextWeekly(p, t))
<1> DEFINE s == p.startTime
           e == p.endTime
           d == Day(t)
           ahead == {i \in 1 .. 7 : (WeekDay(t) + i) % 7 \in p.daysOfWeek}
<1>1. s \in 0 .. Minutes - 1 /\ e \in 0 .. Minutes - 1 /\ s <= e /\ p.status = "active"
  BY HoursAssumption DEF Plain
<1>2. s # Missing /\ e # Missing
  BY <1>1, HoursAssumption
<1>3. p.daysOfWeek # {}
  BY <1>1 DEF IsChatAllowed, CheckWeekly
<1>4. \A u \in Int : IsChatAllowed(p, u) <=>
                       Day(u) % 7 \in p.daysOfWeek /\ TimeOfDay(u) \in s .. e
  BY <1>1, <1>2, <1>3 DEF IsChatAllowed, CheckWeekly, CheckDaily, WeekDay
<1>5. d \in Int /\ OnDay(t, 0, s) = d * Minutes + s
  BY <1>1, Split DEF OnDay
<1>6. \A i \in 1 .. 7 : i \in ahead <=> (d + i) % 7 \in p.daysOfWeek
  BY <1>5, DaysAhead DEF WeekDay
<1> HIDE DEF s, e, d, ahead
<1>7. CASE d % 7 \in p.daysOfWeek /\ d * Minutes + s > t
  <2> DEFINE x == d * Minutes + s
  <2>1. NextWeekly(p, t) = x
    BY <1>2, <1>3, <1>5, <1>7 DEF NextWeekly, WeekDay, s, d
  <2>2. x \in Int /\ t < x
    BY <1>1, <1>5, <1>7, HoursAssumption
  <2>3. IsChatAllowed(p, x)
    BY <1>1, <1>4, <1>5, <1>7, <2>2, Compose
  <2>4. ASSUME NEW u \in Int, t <= u, u < x
        PROVE  ~IsChatAllowed(p, u)
    <3>1. d <= Day(u)
      BY <2>4, InOrder DEF d
    <3>2. Day(u) <= d /\ (Day(u) = d => TimeOfDay(u) < s)
      BY <1>1, <1>5, <2>4, BeforeHour
    <3>3. QED
      BY <1>1, <1>4, <1>5, <3>1, <3>2, Split, HoursAssumption
  <2>5. QED
    BY <2>1, <2>2, <2>3, <2>4, HoursAssumption DEF FirstOpening
<1>8. CASE ~(d % 7 \in p.daysOfWeek /\ d * Minutes + s > t) /\ ahead = {}
  <2>1. NextWeekly(p, t) = Never
    BY <1>2, <1>3, <1>5, <1>8 DEF NextWeekly, WeekDay, s, d, ahead
  <2>2. ASSUME NEW u \in Int
        PROVE  ~IsChatAllowed(p, u)
    <3>1. Day(u) \in Int
      BY Split
    <3>2. PICK i \in 1 .. 7 : (d + i) % 7 = Day(u) % 7
      BY <1>5, <3>1, WithinAWeek
    <3>3. QED
      BY <1>4, <1>6, <1>8, <3>2
  <2>3. QED
    BY <2>1, <2>2 DEF FirstOpening
<1>9. CASE ~(d % 7 \in p.daysOfWeek /\ d * Minutes + s > t) /\ ahead # {}
  <2> DEFINE n == Min(ahead)
             x == (d + n) * Minutes + s
  <2>1. n \in ahead /\ \A i \in ahead : n <= i
    <3>1. ahead \in SUBSET Nat
      BY DEF ahead
    <3>2. QED
      BY <1>9, <3>1, MinExists
  <2>2. n \in 1 .. 7
    BY <2>1 DEF ahead
  <2>3. NextWeekly(p, t) = x
    BY <1>2, <1>3, <1>5, <1>9 DEF NextWeekly, OnDay, WeekDay, s, d, ahead
  <2> HIDE DEF n
  <2>4. x \in Int
    BY <1>1, <1>5, <2>2, HoursAssumption
  <2>5. t < x
    <3>1. d * Minutes + Minutes <= (d + n) * Minutes
      BY <1>5, <2>2, DaysInOrder
    <3>2. QED
      BY <1>1, <1>5, <2>2, <3>1, Split, HoursAssumption DEF d
  <2>6. IsChatAllowed(p, x)
    <3>1. Day(x) = d + n /\ TimeOfDay(x) = s
      BY <1>1, <1>5, <2>2, Compose
    <3>2. QED
      BY <1>1, <1>4, <1>6, <2>1, <2>2, <2>4, <3>1
  <2>7. d % 7 \in p.daysOfWeek => e < TimeOfDay(t)
    <3>1. t \in Int /\ t = d * Minutes + TimeOfDay(t) /\ TimeOfDay(t) \in Int
      BY Split DEF d
    <3>2. d % 7 \in p.daysOfWeek => s <= TimeOfDay(t)
      BY <1>1, <1>5, <1>9, <3>1, HoursAssumption
    <3>3. d % 7 \in p.daysOfWeek => ~(TimeOfDay(t) \in s .. e)
      BY <1>4, <3>1 DEF d
    <3>4. QED
      BY <1>1, <3>1, <3>2, <3>3
  <2>8. ASSUME NEW u \in Int, t <= u, u < x
        PROVE  ~IsChatAllowed(p, u)
    <3>1. Day(u) \in Int /\ TimeOfDay(u) \in Int
      BY Split
    <3>2. d <= Day(u) /\ (Day(u) = d => TimeOfDay(t) <= TimeOfDay(u))
      BY <2>8, InOrder DEF d
    <3>3. Day(u) <= d + n /\ (Day(u) = d + n => TimeOfDay(u) < s)
      BY <1>1, <1>5, <2>2, <2>8, BeforeHour
    <3>4. CASE Day(u) = d
      <4>1. TimeOfDay(t) \in Int
        BY Split
      <4>2. QED
        BY <1>1, <1>4, <2>7, <3>1, <3>2, <3>4, <4>1
    <3>5. CASE Day(u) = d + n
      BY <1>1, <1>4, <3>1, <3>3, <3>5
    <3>6. CASE d < Day(u) /\ Day(u) < d + n
      <4> DEFINE i == Day(u) - d
      <4>1. i \in 1 .. 7 /\ i < n /\ Day(u) = d + i
        BY <1>5, <2>2, <3>1, <3>6
      <4>2. i \notin ahead
        BY <2>1, <2>2, <4>1
      <4>3. ~(Day(u) % 7 \in p.daysOfWeek)
        BY <1>6, <4>1, <4>2
      <4>4. QED
        BY <1>4, <4>3
    <3>7. QED
      BY <1>5, <2>2, <3>1, <3>2, <3>3, <3>4, <3>5, <3>6
  <2>9. QED
    BY <2>3, <2>4, <2>5, <2>6, <2>8, HoursAssumption DEF FirstOpening
<1>10. QED
  BY <1>7, <1>8, <1>9

\* The next start of a schedule is the first instant at which one of them, all
\* of which are over or still to come, lets messages pass.
LEMMA NextCustomIsFirst ==
  ASSUME NEW p \in Planets, NEW t \in Nat, Plain(p), p.type = "custom",
         ~IsChatAllowed(p, t)
  PROVE  FirstOpening(p, t, NextCustom(p, t))
<1> DEFINE ahead == {start \in {s.startDate : s \in p.customSchedule} : start > t}
<1>1. p.status = "active" /\ p.customSchedule # Missing
  BY DEF Plain, IsChatAllowed, CheckCustom
<1>2. \A s \in p.customSchedule :
        s.startDate \in Int /\ s.endDate \in Int /\ s.startDate <= s.endDate
  BY <1>1, HoursAssumption DEF Plain
<1>3. \A u \in Int : IsChatAllowed(p, u) <=>
                       \E s \in p.customSchedule : s.startDate <= u /\ u <= s.endDate
  BY <1>1, <1>2 DEF IsChatAllowed, CheckCustom
<1>4. NextCustom(p, t) = IF ahead = {} THEN Never ELSE Min(ahead)
  BY <1>1 DEF NextCustom
<1>5. ASSUME NEW u \in Int, t <= u, \A start \in ahead : u < start
      PROVE  ~IsChatAllowed(p, u)
  <2>1. SUFFICES ASSUME NEW s \in p.customSchedule, s.startDate <= u, u <= s.endDate
                 PROVE  FALSE
    BY <1>3
  <2>2. s.startDate \notin ahead
    BY <1>2, <1>5, <2>1
  <2>3. s.startDate <= t /\ t <= s.endDate
    BY <1>2, <1>5, <2>1, <2>2
  <2>4. QED
    BY <1>3, <2>3
<1>6. CASE ahead = {}
  BY <1>4, <1>5, <1>6 DEF FirstOpening
<1>7. CASE ahead # {}
  <2> DEFINE x == Min(ahead)
  <2>1. ahead \in SUBSET Nat
    BY <1>2
  <2>2. x \in ahead /\ \A start \in ahead : x <= start
    BY <1>7, <2>1, MinExists
  <2>3. NextCustom(p, t) = x
    BY <1>4, <1>7
  <2>4. PICK s \in p.customSchedule : x = s.startDate /\ s.startDate > t
    BY <2>2
  <2> HIDE DEF x, ahead
  <2>5. x \in Int /\ t <= x /\ IsChatAllowed(p, x)
    BY <1>2, <1>3, <2>4
  <2>6. ASSUME NEW u \in Int, t <= u, u < x
        PROVE  ~IsChatAllowed(p, u)
    <3>1. \A start \in ahead : u < start
      BY <2>1, <2>2, <2>5, <2>6
    <3>2. QED
      BY <1>5, <2>6, <3>1
  <2>7. QED
    BY <2>3, <2>5, <2>6, HoursAssumption DEF FirstOpening
<1>8. QED
  BY <1>6, <1>7

\* What getNextChatTime answers for a planet isChatAllowed has just refused is
\* the first instant at which isChatAllowed lets messages pass.
THEOREM NextChatTimeIsFirst ==
  ASSUME NEW p \in Planets, NEW t \in Nat, Plain(p), ~IsChatAllowed(p, t)
  PROVE  FirstOpening(p, t, GetNextChatTime(p, t))
<1>1. CASE p.type = "daily"
  BY <1>1, NextDailyIsFirst DEF GetNextChatTime
<1>2. CASE p.type = "weekly"
  BY <1>2, NextWeeklyIsFirst DEF GetNextChatTime
<1>3. CASE p.type = "custom"
  BY <1>3, NextCustomIsFirst DEF GetNextChatTime
<1>4. CASE p.type \notin {"daily", "weekly", "custom"}
  BY <1>4 DEF IsChatAllowed, Plain
<1>5. QED
  BY <1>1, <1>2, <1>3, <1>4

\* A promise that is not past names the first opening from now on.
HoursIInv ==
  /\ planet \in Planets
  /\ now \in Nat
  /\ promised # Missing /\ Plain(planet) => FirstOpening(planet, now, promised)

\* The clock never passes a promise, and an answer is true when it is given.
LEMMA HoursStep ==
  ASSUME HoursIInv, [Next]_operationsVars
  PROVE  HoursIInv'
<1> USE DEF HoursIInv
<1>1. CASE AskForHours /\ Refuse
  <2>1. /\ planet' = planet /\ now' = now
        /\ ~IsChatAllowed(planet, now) /\ promised' = GetNextChatTime(planet, now)
    BY <1>1 DEF Refuse
  <2>2. Plain(planet)' <=> Plain(planet)
    BY <2>1 DEF Plain
  <2>3. FirstOpening(planet, now, promised)' <=> FirstOpening(planet, now, promised')
    BY <2>1 DEF FirstOpening
  <2>4. QED
    BY <2>1, <2>2, <2>3, NextChatTimeIsFirst
<1>2. CASE AskForHours /\ Tick
  <2>1. /\ planet' = planet /\ now' = now + 1
        /\ promised' = IF promised = now THEN Missing ELSE promised
    BY <1>2 DEF Tick
  <2>2. ASSUME promised' # Missing, Plain(planet)
        PROVE  FirstOpening(planet, now + 1, promised)
    BY <2>1, <2>2 DEF FirstOpening
  <2>3. QED
    BY <2>1, <2>2 DEF Plain, FirstOpening
<1>3. CASE UNCHANGED hoursVars
  BY <1>3 DEF hoursVars, Plain, FirstOpening
<1>4. QED
  BY <1>1, <1>2, <1>3
     DEF Next, Deploy, RunJobs, AskForHours, HoursNext, operationsVars

\* Whoever is refused is told the very first instant at which the planet is
\* open again, and who is told that there is none is never let in later.
THEOREM PromisesKept == Spec => []PromiseKept
<1>1. Init => HoursIInv
  BY DEF Init, HoursInit, HoursIInv
<1>2. Spec => []HoursIInv
  BY <1>1, HoursStep, PTL DEF Spec
<1>3. HoursIInv => PromiseKept
  BY DEF HoursIInv, PromiseKept, FirstOpening
<1>4. QED
  BY <1>2, <1>3, PTL
=============================================================================
