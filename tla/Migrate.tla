------------------------------ MODULE Migrate ------------------------------
(***************************************************************************)
(* pgx.Migrate on every boot of every replica: one transaction for each    *)
(* migration, under the advisory lock of the schema, with its row in       *)
(* schema_migrations.  Statements fail, processes die and boot again, and  *)
(* a commit may be applied although its answer is lost.                    *)
(***************************************************************************)
EXTENDS Naturals, FiniteSetsExt

CONSTANTS Replicas,
          Files,     \* the versions in the migrations directory of each replica's build
          MaxBoots   \* bound: boots of a replica

ASSUME VersionsAreNumbers == Files \in [Replicas -> SUBSET Nat]
ASSUME FreeIsNoReplica == "free" \notin Replicas

VARIABLES
  holder,    \* the transaction that holds the advisory lock, or "free"
  recorded,  \* committed rows of schema_migrations
  effects,   \* how often the SQL of each version has taken effect
  order,     \* history: for each recorded version, those recorded before it
  tx,        \* each replica's transaction: none, begun, locked, run, inserted
  todo,      \* the versions each replica has yet to look at
  boot,      \* each replica: down, migrating, ready or failed
  boots      \* bound counter

migrateVars == <<holder, recorded, effects, order, tx, todo, boot, boots>>

Versions == UNION {Files[r] : r \in Replicas}

MigrateInit ==
  /\ holder = "free" /\ recorded = {} /\ order = [v \in {} |-> {}]
  /\ effects = [v \in Versions |-> 0]
  /\ tx = [r \in Replicas |-> "none"] /\ todo = [r \in Replicas |-> {}]
  /\ boot = [r \in Replicas |-> "down"] /\ boots = [r \in Replicas |-> 0]

\* Migrate starts: LoadMigrations has the files in version order.
Boot(r) ==
  /\ boot[r] \in {"down", "failed"} /\ boots[r] < MaxBoots /\ tx[r] = "none"
  /\ boot' = [boot EXCEPT ![r] = "migrating"] /\ boots' = [boots EXCEPT ![r] = @ + 1]
  /\ todo' = [todo EXCEPT ![r] = Files[r]]
  /\ UNCHANGED <<holder, recorded, effects, order, tx>>

version(r) == Min(todo[r])
Steps(r, from, to) == boot[r] = "migrating" /\ tx[r] = from /\ tx' = [tx EXCEPT ![r] = to]

\* applyOne: begin,
begin(r) ==
  /\ todo[r] # {} /\ Steps(r, "none", "begun")
  /\ UNCHANGED <<holder, recorded, effects, order, todo, boot, boots>>

\* pg_advisory_xact_lock,
lock(r) ==
  /\ Steps(r, "begun", "locked") /\ holder = "free" /\ holder' = r
  /\ UNCHANGED <<recorded, effects, order, todo, boot, boots>>

\* a version that is recorded is skipped, and the transaction rolled back;
skip(r) ==
  /\ Steps(r, "locked", "none") /\ version(r) \in recorded
  /\ holder' = "free" /\ todo' = [todo EXCEPT ![r] = @ \ {version(r)}]
  /\ UNCHANGED <<recorded, effects, order, boot, boots>>

\* SQL that is run outside the transaction takes effect at once.
runMutant(r) ==
  /\ Steps(r, "locked", "run") /\ version(r) \notin recorded
  /\ effects' = [effects EXCEPT ![version(r)] = @ + 1]
  /\ UNCHANGED <<holder, recorded, order, todo, boot, boots>>

\* any other is run,
run(r) ==
  /\ Steps(r, "locked", "run") /\ version(r) \notin recorded
  /\ UNCHANGED <<holder, recorded, effects, order, todo, boot, boots>>

\* inserted, where the primary key would refuse a second row,
insert(r) ==
  /\ Steps(r, "run", "inserted") /\ version(r) \notin recorded
  /\ UNCHANGED <<holder, recorded, effects, order, todo, boot, boots>>

\* The transaction of r is committed.
Committed(r) ==
  /\ recorded' = recorded \union {version(r)}
  /\ effects' = [effects EXCEPT ![version(r)] = @ + 1]
  /\ order' = [v \in recorded' |-> IF v \in recorded THEN order[v] ELSE recorded]
  /\ holder' = "free"

\* and committed.
commit(r) ==
  /\ Steps(r, "inserted", "none") /\ Committed(r)
  /\ todo' = [todo EXCEPT ![r] = @ \ {version(r)}]
  /\ UNCHANGED <<boot, boots>>

\* The transaction of r ends otherwise: it is rolled back, or its COMMIT was on
\* the way and is applied.
Ended(r) ==
  /\ tx[r] # "none" /\ tx' = [tx EXCEPT ![r] = "none"]
  /\ \/ holder' = (IF holder = r THEN "free" ELSE holder) /\ UNCHANGED <<recorded, effects, order>>
     \/ tx[r] = "inserted" /\ Committed(r)

\* Any statement fails: rollback, and Migrate returns the error.
fails(r) ==
  /\ boot[r] = "migrating" /\ Ended(r)
  /\ boot' = [boot EXCEPT ![r] = "failed"]
  /\ UNCHANGED <<todo, boots>>

\* The process dies; the database ends the transaction later.
Crash(r) ==
  /\ boot[r] \in {"migrating", "ready"} /\ boot' = [boot EXCEPT ![r] = "down"]
  /\ UNCHANGED <<holder, recorded, effects, order, tx, todo, boots>>

\* A transaction whose process is gone ends.
Ends(r) ==
  /\ boot[r] = "down" /\ Ended(r)
  /\ UNCHANGED <<todo, boot, boots>>

\* Migrate returns nil.
ready(r) ==
  /\ boot[r] = "migrating" /\ tx[r] = "none" /\ todo[r] = {}
  /\ boot' = [boot EXCEPT ![r] = "ready"]
  /\ UNCHANGED <<holder, recorded, effects, order, tx, todo, boots>>

MigrateNext ==
  \E r \in Replicas : \/ Boot(r) \/ begin(r) \/ lock(r) \/ skip(r) \/ run(r) \/ insert(r) \/ commit(r)
                      \/ fails(r) \/ Crash(r) \/ Ends(r) \/ ready(r)

MigrateSpec == MigrateInit /\ [][MigrateNext]_migrateVars

----------------------------------------------------------------------------
\* A migration takes effect once, exactly when its version is recorded, and
\* after every earlier migration of a build that has it; a replica that goes on
\* has all of its own (migrate.go Migrate, applyOne).
MigratedOnceInOrder ==
  /\ \A v \in Versions : effects[v] = IF v \in recorded THEN 1 ELSE 0
  /\ \A v \in recorded : \E r \in Replicas :
       v \in Files[r] /\ {w \in Files[r] : w < v} \subseteq order[v]
  /\ \A r \in Replicas : boot[r] = "ready" => Files[r] \subseteq recorded
============================================================================
