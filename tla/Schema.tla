------------------------------- MODULE Schema --------------------------------
(***************************************************************************)
(* The schema of the database under the tools that are run on it by hand   *)
(* and by one-off tasks: alembic upgrade and downgrade, scripts/seed.py,   *)
(* which drops everything and migrates anew, and scripts/tune.py, which    *)
(* drops the tuning indexes and builds them again one by one.  DDL is      *)
(* transactional: a migration is one transaction (migrations/env.py), a    *)
(* tool that fails leaves what it committed.                               *)
(*                                                                         *)
(* A statement sees what has been committed when it starts.  One that      *)
(* changes a table or an index locks the table, or at least the name of    *)
(* the index, until its transaction ends, so that from then on nobody else *)
(* makes or drops the same thing: such a transaction is one step, at its   *)
(* commit.  One that finds nothing to change locks nothing, and is a step  *)
(* of its own before that: the looks of drop_all, and a DROP ... IF EXISTS *)
(* of what is not there.  Locks are left out otherwise.  A step that would *)
(* wait for one is let through at once; what waiting does is to put        *)
(* transactions in an order, which the model has every one of, or, in a    *)
(* cycle, to abort one, which Crash does.                                  *)
(***************************************************************************)
EXTENDS Naturals, Sequences, FiniteSets

CONSTANTS Runs,   \* invocations of a tool, each of which runs once
          N       \* the number of TUNING_INDEXES
ASSUME NAssumption == N \in Nat \ {0}

\* The tables in the order of models.py, and those a table refers to.
TableOrder == <<"gpu_models", "providers", "price_points", "benchmark_runs">>
Tables == {TableOrder[n] : n \in 1..4}
References(t) ==
    IF t = "price_points" THEN {"gpu_models", "providers"}
    ELSE IF t = "benchmark_runs" THEN {"gpu_models"}
    ELSE {}

\* In the order of TUNING_INDEXES; the last is on benchmark_runs.
Indexes == 1..N
TableOf(k) == IF k = N THEN "benchmark_runs" ELSE "price_points"

VARIABLES
    revision,   \* alembic_version: "none", "0001" or "0002"
    tables,     \* the tables that exist
    data,       \* "empty", "models" once there are GPUs, "prices" once there are prices
    indexes,    \* the tuning indexes that exist
    at,         \* where each run is
    saw,        \* the revision a migration found when it started
    next,       \* the next table a run will look for, or index it will drop or create
    seen,       \* the tables that a seed found when it looked
    raced,      \* history: seeds between whose look and drop a migration built the tables
    broken      \* history: a tuning run died after its drop, or another created what it
                \* was dropping, and no rebuild that found nothing left began since

schema == <<revision, tables, data, indexes>>
local == <<saw, next, seen>>
vars == <<schema, at, local, raced, broken>>

\* A new database, or one that seed.py has filled.
Init ==
    /\ \/ revision = "none" /\ tables = {} /\ data = "empty" /\ indexes = {}
       \/ revision = "0002" /\ tables = Tables /\ data = "prices" /\ indexes = Indexes
    /\ at = [r \in Runs |-> "idle"]
    /\ saw = [r \in Runs |-> "none"]
    /\ next = [r \in Runs |-> 1]
    /\ seen = [r \in Runs |-> {}]
    /\ raced = {}
    /\ broken = FALSE

Goto(r, where) == at' = [at EXCEPT ![r] = where]
Advance(r) == next' = [next EXCEPT ![r] = @ + 1]
Look(r) == saw' = [saw EXCEPT ![r] = revision]
Fails(r) == Goto(r, "failed") /\ UNCHANGED <<schema, broken>>

-----------------------------------------------------------------------------
\* DROP INDEX IF EXISTS, of a tuning or of a migration to 0001: this run has
\* passed the indexes before next[r].
Dropping(r) == at[r] = "tuning" \/ (at[r] = "to 0001" /\ saw[r] = "0002")
Left(r) == {k \in indexes : k < next[r]}

\* There is none to drop.
PassIndex(r) ==
    /\ Dropping(r)
    /\ next[r] \in Indexes \ indexes
    /\ Advance(r)
    /\ UNCHANGED <<schema, at, saw, seen, raced, broken>>

-----------------------------------------------------------------------------
\* alembic, from the command line or from seed.py.
StartMigration(r) ==
    /\ at[r] = "idle"
    /\ \E goal \in {"to head", "to 0001", "to base"} : Goto(r, goal)
    /\ Look(r)
    /\ UNCHANGED <<schema, next, seen, raced, broken>>

\* Every statement from this revision to head can be carried out: no CREATE
\* says IF NOT EXISTS, and the UPDATE of alembic_version must find its row.
Upgradable(from) ==
    \/ from = "0002"
    \/ from = "0001" /\ revision = from /\ tables = Tables /\ indexes = {}
    \/ from = "none" /\ revision = from /\ tables = {}

\* Slip: the revision without create_statements().
UpgradeFromUnindexed(from) ==
    /\ Upgradable(from)
    /\ IF from = "0002" THEN UNCHANGED <<schema, raced, broken>>
       ELSE /\ revision' = "0002" /\ tables' = Tables
            /\ raced' = IF from = "none" THEN raced \cup {s \in Runs : at[s] = "looking"} ELSE raced
            /\ UNCHANGED <<data, indexes, broken>>

UpgradeFrom(from) ==
    /\ Upgradable(from)
    /\ IF from = "0002" THEN UNCHANGED <<schema, raced, broken>>
       ELSE /\ revision' = "0002" /\ tables' = Tables /\ indexes' = Indexes
            /\ raced' = IF from = "none" THEN raced \cup {s \in Runs : at[s] = "looking"} ELSE raced
            /\ broken' = FALSE
            /\ UNCHANGED data

Upgrade(r) ==
    /\ at[r] = "to head"
    /\ \/ UpgradeFrom(saw[r]) /\ Goto(r, "done")
       \/ ~ Upgradable(saw[r]) /\ Fails(r) /\ UNCHANGED raced
    /\ UNCHANGED local

\* downgrade 0001: drop the indexes, keep the data.
DropIndexes(r) ==
    /\ at[r] = "to 0001"
    /\ \/ /\ saw[r] = "0002" /\ revision = "0002"
          /\ revision' = "0001" /\ indexes' = Left(r)
          /\ Goto(r, "done") /\ UNCHANGED <<tables, data, broken>>
       \/ saw[r] = "0001" /\ Goto(r, "done") /\ UNCHANGED <<schema, broken>>
       \/ saw[r] = "none" /\ Fails(r)
       \/ saw[r] = "0002" /\ revision # "0002" /\ Fails(r)
    /\ UNCHANGED <<local, raced>>

\* DROP TABLE takes the indexes and the rows with the table.
DropTo(rest) ==
    /\ revision' = "none"
    /\ tables' = rest
    /\ indexes' = {k \in indexes : TableOf(k) \in rest}
    /\ data' = IF data = "prices" /\ "price_points" \in rest THEN "prices"
               ELSE IF data # "empty" /\ "gpu_models" \in rest THEN "models"
               ELSE "empty"

\* downgrade base.
DropTables(r) ==
    /\ at[r] = "to base"
    /\ \/ saw[r] # "none" /\ revision = saw[r] /\ DropTo({}) /\ Goto(r, "done") /\ UNCHANGED broken
       \/ saw[r] = "none" /\ Goto(r, "done") /\ UNCHANGED <<schema, broken>>
       \/ saw[r] # "none" /\ revision # saw[r] /\ Fails(r)
    /\ UNCHANGED <<local, raced>>

-----------------------------------------------------------------------------
\* seed.py: drop_all looks for one table after the other ...
StartSeed(r) ==
    /\ at[r] = "idle"
    /\ Goto(r, "looking")
    /\ UNCHANGED <<schema, local, raced, broken>>

SeedLook(r) ==
    /\ at[r] = "looking" /\ next[r] <= 4
    /\ seen' = [seen EXCEPT ![r] = @ \cup (tables \cap {TableOrder[next[r]]})]
    /\ Advance(r)
    /\ UNCHANGED <<schema, at, saw, raced, broken>>

\* A DROP TABLE fails if the table is gone or another refers to it.
Droppable(ts) == ts \subseteq tables /\ \A t \in tables \ ts : References(t) \cap ts = {}

\* Slip: alembic_version is left behind.
SeedDropTables(r) ==
    /\ at[r] = "looking" /\ next[r] > 4 /\ Droppable(seen[r])
    /\ tables' = tables \ seen[r]
    /\ indexes' = {k \in indexes : TableOf(k) \in tables'}
    /\ data' = IF "gpu_models" \in tables' THEN data ELSE "empty"
    /\ Goto(r, "dropped")
    /\ UNCHANGED <<revision, local, raced, broken>>

\* ... and drops what it has found, and alembic_version, in one transaction.
SeedDrop(r) ==
    /\ at[r] = "looking" /\ next[r] > 4
    /\ \/ /\ Droppable(seen[r]) /\ DropTo(tables \ seen[r]) /\ Goto(r, "dropped")
          /\ UNCHANGED <<raced, broken>>
       \/ ~ Droppable(seen[r]) /\ Fails(r) /\ raced' = raced \ {r}
    /\ UNCHANGED local

\* The migrations run in a transaction of their own.
SeedStartUpgrade(r) ==
    /\ at[r] = "dropped"
    /\ Goto(r, "rebuilding") /\ Look(r)
    /\ UNCHANGED <<schema, next, seen, raced, broken>>
SeedUpgrade(r) ==
    /\ at[r] = "rebuilding"
    /\ \/ UpgradeFrom(saw[r]) /\ Goto(r, "naming")
       \/ ~ Upgradable(saw[r]) /\ Fails(r) /\ UNCHANGED raced
    /\ UNCHANGED local

\* The names are unique: a second seed cannot insert them again.
Nameable == {"gpu_models", "providers"} \subseteq tables /\ data = "empty"
SeedModels(r) ==
    /\ at[r] = "naming"
    /\ \/ /\ Nameable
          /\ data' = "models" /\ Goto(r, "measuring")
          /\ UNCHANGED <<revision, tables, indexes, broken>>
       \/ ~ Nameable /\ Fails(r)
    /\ UNCHANGED <<local, raced>>

\* Benchmarks and prices refer to the models.
SeedBenchmarks(r) ==
    /\ at[r] = "measuring"
    /\ \/ "benchmark_runs" \in tables /\ data # "empty" /\ Goto(r, "filling")
          /\ UNCHANGED <<schema, broken>>
       \/ ~ ("benchmark_runs" \in tables /\ data # "empty") /\ Fails(r)
    /\ UNCHANGED <<local, raced>>

\* A batch of prices is committed, the last or one of those before.
SeedPrices(r) ==
    /\ at[r] = "filling"
    /\ \/ /\ "price_points" \in tables /\ data # "empty"
          /\ data' = "prices"
          /\ Goto(r, "filling") \/ Goto(r, "done")
          /\ UNCHANGED <<revision, tables, indexes, broken>>
       \/ ~ ("price_points" \in tables /\ data # "empty") /\ Fails(r)
    /\ UNCHANGED <<local, raced>>

-----------------------------------------------------------------------------
\* tune.py looks for the GPU with the most prices, and fails without one.
TuneStart(r) ==
    /\ at[r] = "idle"
    /\ \/ data = "prices" /\ Goto(r, "tuning")
       \/ data # "prices" /\ Goto(r, "failed")
    /\ UNCHANGED <<schema, local, raced, broken>>

\* drop_statements() and a COMMIT; ANALYZE fails if the table is gone.
TuneDrop(r) ==
    /\ at[r] = "tuning"
    /\ indexes' = Left(r)
    /\ Goto(r, IF "price_points" \in tables THEN "creating" ELSE "failed")
    /\ next' = [next EXCEPT ![r] = 1]
    /\ broken' = (Left(r) # {} \/ (broken /\ "price_points" \notin tables))
    /\ UNCHANGED <<revision, tables, data, saw, seen, raced>>

\* One CREATE INDEX and its COMMIT, which fails if the index exists already.
Creatable(k) == k \in Indexes \ indexes /\ TableOf(k) \in tables
AfterCreating(r) == Goto(r, IF next[r] >= N THEN "done" ELSE "creating")

\* Slips: the loop goes one round too far; it ends with its first round.
TuneCreateTooMany(r) ==
    /\ at[r] = "creating"
    /\ "price_points" \in tables /\ next[r] \notin indexes
    /\ indexes' = indexes \cup {next[r]}
    /\ Advance(r)
    /\ Goto(r, IF next[r] > N THEN "done" ELSE "creating")
    /\ UNCHANGED <<revision, tables, data, saw, seen, raced, broken>>
TuneCreateOne(r) ==
    /\ at[r] = "creating" /\ Creatable(next[r])
    /\ indexes' = indexes \cup {next[r]}
    /\ Advance(r)
    /\ Goto(r, "done")
    /\ UNCHANGED <<revision, tables, data, saw, seen, raced, broken>>

TuneCreate(r) ==
    /\ at[r] = "creating" /\ Creatable(next[r])
    /\ indexes' = indexes \cup {next[r]}
    /\ Advance(r)
    /\ AfterCreating(r)
    /\ UNCHANGED <<revision, tables, data, saw, seen, raced, broken>>

TuneFails(r) ==
    /\ at[r] = "creating" /\ ~ Creatable(next[r])
    /\ Fails(r)
    /\ UNCHANGED <<local, raced>>

-----------------------------------------------------------------------------
\* A tool is killed, loses its connection or is the victim of a deadlock; its
\* open transaction is rolled back.
Busy == {"to head", "to 0001", "to base", "looking", "dropped", "rebuilding",
         "naming", "measuring", "filling", "tuning", "creating"}
Crash(r) ==
    /\ at[r] \in Busy
    /\ Goto(r, "failed")
    /\ raced' = IF at[r] = "looking" THEN raced \ {r} ELSE raced
    /\ broken' = (broken \/ at[r] = "creating")
    /\ UNCHANGED <<schema, local>>

Migrate(r) == Upgrade(r) \/ DropIndexes(r) \/ DropTables(r)
Seed(r) ==
    \/ SeedLook(r) \/ SeedDrop(r) \/ SeedStartUpgrade(r) \/ SeedUpgrade(r)
    \/ SeedModels(r) \/ SeedBenchmarks(r) \/ SeedPrices(r)
Tune(r) == TuneDrop(r) \/ TuneCreate(r) \/ TuneFails(r)

Next == \E r \in Runs :
    \/ StartMigration(r) \/ StartSeed(r) \/ TuneStart(r)
    \/ PassIndex(r) \/ Migrate(r) \/ Seed(r) \/ Tune(r)
    \/ Crash(r)

Spec == Init /\ [][Next]_vars

\* A tool that was started goes on; nobody has to start one.
FairSpec == Spec /\ \A r \in Runs : WF_vars(PassIndex(r) \/ Migrate(r) \/ Seed(r) \/ Tune(r))

-----------------------------------------------------------------------------
\* The types; indexes are on tables, and rows in them.
TypeOK ==
    /\ revision \in {"none", "0001", "0002"}
    /\ tables \subseteq Tables
    /\ data \in {"empty", "models", "prices"}
    /\ indexes \subseteq {k \in Indexes : TableOf(k) \in tables}
    /\ at \in [Runs -> Busy \cup {"idle", "done", "failed"}]
    /\ saw \in [Runs -> {"none", "0001", "0002"}]
    /\ next \in [Runs -> Nat \ {0}]
    /\ seen \in [Runs -> SUBSET Tables]
    /\ raced \subseteq Runs
    /\ broken \in BOOLEAN
    /\ data = "prices" => "price_points" \in tables
    /\ data = "models" => "gpu_models" \in tables

\* However migrations and seeds overlap and die, a revision means that every
\* table is there, and that there are tables without a revision means that a
\* seed looked for them before a migration built them and dropped
\* alembic_version after: nothing else leaves such a database.
RevisionHonest ==
    /\ revision # "none" => tables = Tables
    /\ revision = "none" /\ tables # {} => \E r \in raced : at[r] # "looking"

\* A database at revision 0002 that lacks an index has a tuning run under way
\* that has yet to create it, unless a tuning died after its drop or dropped
\* while others created.  tune.py neither locks nor says IF NOT EXISTS, so runs
\* that overlap drop each other's indexes and fail on each other's, and still
\* one of those that go on creates every index that is missing.
Builds(r, k) == at[r] = "creating" /\ next[r] <= k
IndexesHaveBuilder ==
    revision = "0002" /\ ~ broken =>
        \A k \in Indexes \ indexes : \E r \in Runs : Builds(r, k)

\* The deployment gets its indexes back from every tuning that survives and
\* whose drop nobody overtook.
IndexesReturn ==
    (revision = "0002") ~> (indexes = Indexes \/ revision # "0002" \/ broken)

\* README.md on `alembic upgrade head`: "build schema, including indexes".  So
\* it should when no other tool is under way and nothing changed meanwhile.
Undisturbed(r) == saw[r] = revision /\ \A s \in Runs \ {r} : at[s] \notin Busy

\* `alembic upgrade head` can be carried out in whatever state the tools leave
\* the database, overlapping and dying anywhere, but for three: tune.py created
\* an index at revision 0001; an index was created behind the back of a migration
\* to 0001 that had passed it; a seed dropped alembic_version, and not the tables,
\* after a migration that built them since it looked.
CreatesIndex(r) == at[r] = "creating" /\ indexes' = indexes \cup {next[r]} /\ indexes' # indexes
LeavesIndex(r) == at[r] = "to 0001" /\ at'[r] = "done" /\ Left(r) # {}
LeavesTable(r) == at[r] = "looking" /\ at'[r] = "dropped" /\ r \in raced
Blocks(r) == (revision = "0001" /\ CreatesIndex(r)) \/ LeavesIndex(r) \/ LeavesTable(r)
UpgradeBlockers ==
    [][Upgradable(revision) /\ ~ Upgradable(revision)' => \E r \in Runs : Blocks(r)]_vars
=============================================================================
