---------------------------- MODULE SchemaProofs -----------------------------
(***************************************************************************)
(* The schema under any number of overlapping runs of the tools, for any   *)
(* number of tuning indexes.                                               *)
(***************************************************************************)
EXTENDS Schema, TLAPS

\* A seed that no migration overtook has found every table it has looked for.
SeesAll ==
    \A r \in Runs : at[r] = "looking" /\ r \notin raced =>
        \A i \in 1..4 : i < next[r] /\ TableOrder[i] \in tables => TableOrder[i] \in seen[r]

\* A run that has not begun has looked for nothing.
Unbegun == \A r \in Runs : at[r] = "idle" => next[r] = 1 /\ r \notin raced

\* Between an index that exists and a later one that does not, a tuning run is
\* at work that is past the one and not yet at the other.
Bridged ==
    revision = "0002" /\ ~ broken =>
        \A i \in indexes : \A k \in Indexes \ indexes :
            i < k => \E r \in Runs : at[r] = "creating" /\ i < next[r] /\ next[r] <= k

IInv == /\ TypeOK /\ RevisionHonest /\ SeesAll /\ Unbegun
        /\ IndexesHaveBuilder /\ Bridged

\* Where a run may be.
Places == Busy \cup {"idle", "done", "failed"}

\* What the rows need of the tables.
RowsOn(d, ts) ==
    /\ d \in {"empty", "models", "prices"}
    /\ d = "prices" => "price_points" \in ts
    /\ d = "models" => "gpu_models" \in ts

-----------------------------------------------------------------------------
LEMMA TablesAre ==
    /\ Tables = {"gpu_models", "providers", "price_points", "benchmark_runs"}
    /\ \A t \in Tables : \E i \in 1..4 : t = TableOrder[i]
    /\ \A k \in Indexes : TableOf(k) \in Tables
    /\ "price_points" \in Tables /\ "gpu_models" \in Tables
<1>1. 1..4 = {1, 2, 3, 4}
  OBVIOUS
<1>2. /\ TableOrder[1] = "gpu_models" /\ TableOrder[2] = "providers"
      /\ TableOrder[3] = "price_points" /\ TableOrder[4] = "benchmark_runs"
  BY DEF TableOrder
<1>3. Tables = {"gpu_models", "providers", "price_points", "benchmark_runs"}
  BY <1>1, <1>2 DEF Tables
<1>4. \A t \in Tables : \E i \in 1..4 : t = TableOrder[i]
  BY DEF Tables
<1>5. \A k \in Indexes : TableOf(k) \in Tables
  BY <1>3 DEF TableOf
<1> QED
  BY <1>3, <1>4, <1>5

LEMMA InitHolds == Init => IInv
<1> SUFFICES ASSUME Init PROVE IInv
  OBVIOUS
<1>1. TypeOK
  <2>1. at \in [Runs -> Busy \cup {"idle", "done", "failed"}]
    BY DEF Init
  <2>2. saw \in [Runs -> {"none", "0001", "0002"}]
    BY DEF Init
  <2>3. next \in [Runs -> Nat \ {0}]
    BY DEF Init
  <2>4. seen \in [Runs -> SUBSET Tables]
    BY DEF Init
  <2>5. raced \subseteq Runs /\ broken \in BOOLEAN
    BY DEF Init
  <2>6. /\ revision \in {"none", "0001", "0002"} /\ tables \subseteq Tables
        /\ RowsOn(data, tables)
    BY TablesAre DEF Init, RowsOn
  <2>7. indexes \subseteq {k \in Indexes : TableOf(k) \in tables}
    BY TablesAre DEF Init
  <2> QED
    BY <2>1, <2>2, <2>3, <2>4, <2>5, <2>6, <2>7 DEF TypeOK, RowsOn
<1>2. RevisionHonest /\ IndexesHaveBuilder /\ Bridged
  BY DEF Init, RevisionHonest, IndexesHaveBuilder, Bridged
<1>3. SeesAll /\ Unbegun
  BY DEF Init, SeesAll, Unbegun
<1> QED
  BY <1>1, <1>2, <1>3 DEF IInv

\* One run moves on.
LEMMA Moves ==
    ASSUME TypeOK, NEW r \in Runs, NEW where \in Places, Goto(r, where)
    PROVE  /\ at' \in [Runs -> Places]
           /\ at'[r] = where
           /\ \A s \in Runs \ {r} : at'[s] = at[s]
BY DEF Goto, TypeOK, Places

\* A step of a run that neither looks nor creates, and changes no table and no
\* index.
LEMMA QuietKeeps ==
    ASSUME IInv, NEW r \in Runs, NEW where \in Places,
           at[r] \notin {"creating", "looking"}, where \notin {"creating", "looking", "idle"},
           Goto(r, where),
           UNCHANGED <<revision, tables, indexes, seen, raced, broken>>,
           RowsOn(data', tables), saw' \in [Runs -> {"none", "0001", "0002"}],
           next' \in [Runs -> Nat \ {0}], \A s \in Runs \ {r} : next'[s] = next[s]
    PROVE  IInv'
<1>0. TypeOK
  BY DEF IInv
<1>1. at' \in [Runs -> Places] /\ at'[r] = where /\ \A s \in Runs \ {r} : at'[s] = at[s]
  BY <1>0, Moves
<1>2. TypeOK'
  BY <1>0, <1>1 DEF TypeOK, Places, RowsOn, Indexes, TableOf
<1>3. \A s \in Runs : at[s] = "creating" => at'[s] = "creating" /\ next'[s] = next[s]
  BY <1>1
<1>4. IndexesHaveBuilder'
  BY <1>3 DEF IInv, IndexesHaveBuilder, Builds, Indexes
<1>5. Bridged'
  BY <1>3 DEF IInv, Bridged, Indexes
<1>6. \A s \in Runs : at'[s] \in {"looking", "idle"} => at[s] = at'[s] /\ next'[s] = next[s]
  BY <1>1
<1>7. SeesAll' /\ Unbegun'
  BY <1>6 DEF IInv, SeesAll, Unbegun
<1>8. \A s \in Runs : at[s] # "looking" => at'[s] # "looking"
  BY <1>1
<1>9. RevisionHonest'
  BY <1>0, <1>8 DEF IInv, TypeOK, RevisionHonest
<1> QED
  BY <1>2, <1>4, <1>5, <1>7, <1>9 DEF IInv

\* A step after which everything exists.
LEMMA BuildKeeps ==
    ASSUME IInv, NEW r \in Runs, NEW where \in Places, Goto(r, where),
           at[r] # "looking", where \notin {"looking", "idle"},
           revision' = "0002", tables' = Tables, indexes' = Indexes, broken' = FALSE,
           \/ tables = Tables /\ raced' = raced
           \/ raced' = raced \cup {s \in Runs : at[s] = "looking"},
           UNCHANGED <<data, saw, next, seen>>
    PROVE  IInv'
<1>0. TypeOK
  BY DEF IInv
<1>1. at' \in [Runs -> Places] /\ at'[r] = where /\ \A s \in Runs \ {r} : at'[s] = at[s]
  BY <1>0, Moves
<1>2. indexes' \subseteq {k \in Indexes : TableOf(k) \in tables'}
  BY TablesAre
<1>3. TypeOK'
  <2>1. raced' \subseteq Runs
    BY <1>0 DEF TypeOK
  <2> QED
    BY <1>0, <1>1, <1>2, <2>1, TablesAre DEF TypeOK, Places, Indexes, TableOf
<1>4. RevisionHonest' /\ IndexesHaveBuilder' /\ Bridged'
  BY DEF RevisionHonest, IndexesHaveBuilder, Bridged, Indexes
<1>5. \A s \in Runs : at'[s] \in {"looking", "idle"} => at[s] = at'[s]
  BY <1>1
<1>6. SeesAll'
  <2>1. CASE tables = Tables /\ raced' = raced
    BY <1>5, <2>1 DEF IInv, SeesAll
  <2>2. CASE raced' = raced \cup {s \in Runs : at[s] = "looking"}
    BY <1>5, <2>2 DEF SeesAll
  <2> QED
    BY <2>1, <2>2
<1>7. Unbegun'
  BY <1>5 DEF IInv, Unbegun
<1> QED
  BY <1>3, <1>4, <1>6, <1>7 DEF IInv

\* A step that drops tables or indexes and leaves revision 0002, with tables
\* that no revision tells of only if a migration overtook a look of this run.
LEMMA ClearKeeps ==
    ASSUME IInv, NEW r \in Runs, NEW where \in Places, Goto(r, where),
           where \notin {"looking", "idle"},
           revision' \in {"none", "0001"}, tables' \subseteq tables,
           revision' = "0001" => tables' = Tables,
           revision' = "none" /\ tables' # {} => r \in raced,
           indexes' \subseteq {k \in indexes : TableOf(k) \in tables'},
           RowsOn(data', tables'), UNCHANGED <<saw, next, seen, raced, broken>>
    PROVE  IInv'
<1>0. TypeOK
  BY DEF IInv
<1>1. at' \in [Runs -> Places] /\ at'[r] = where /\ \A s \in Runs \ {r} : at'[s] = at[s]
  BY <1>0, Moves
<1>2. TypeOK'
  <2>1. indexes' \subseteq {k \in Indexes : TableOf(k) \in tables'}
    BY <1>0 DEF TypeOK
  <2> QED
    BY <1>0, <1>1, <2>1 DEF TypeOK, Places, RowsOn, Indexes, TableOf
<1>3. IndexesHaveBuilder' /\ Bridged'
  BY DEF IndexesHaveBuilder, Bridged
<1>4. \A s \in Runs : at'[s] \in {"looking", "idle"} => at[s] = at'[s]
  BY <1>1
<1>5. SeesAll' /\ Unbegun'
  BY <1>4 DEF IInv, SeesAll, Unbegun
<1>6. RevisionHonest'
  BY <1>1 DEF RevisionHonest
<1> QED
  BY <1>2, <1>3, <1>5, <1>6 DEF IInv

LEMMA PassKeeps ==
    ASSUME IInv, NEW r \in Runs, PassIndex(r)
    PROVE  IInv'
<1>1. at[r] \in Places /\ at[r] \in {"tuning", "to 0001"} /\ Goto(r, at[r])
  BY DEF PassIndex, Dropping, Goto, IInv, TypeOK, Places
<1>2. next' \in [Runs -> Nat \ {0}] /\ \A s \in Runs \ {r} : next'[s] = next[s]
  BY DEF PassIndex, Advance, IInv, TypeOK
<1>3. RowsOn(data', tables) /\ saw' \in [Runs -> {"none", "0001", "0002"}]
  BY DEF PassIndex, schema, RowsOn, IInv, TypeOK
<1>4. UNCHANGED <<revision, tables, indexes, seen, raced, broken>>
  BY DEF PassIndex, schema
<1> QED
  BY <1>1, <1>2, <1>3, <1>4, QuietKeeps

\* A run fails that neither looks nor creates.
LEMMA FailKeeps ==
    ASSUME IInv, NEW r \in Runs, at[r] \notin {"creating", "looking"},
           Fails(r), UNCHANGED <<local, raced>>
    PROVE  IInv'
<1>1. /\ RowsOn(data', tables) /\ saw' \in [Runs -> {"none", "0001", "0002"}]
      /\ next' \in [Runs -> Nat \ {0}] /\ \A s \in Runs : next'[s] = next[s]
  BY DEF Fails, schema, local, RowsOn, IInv, TypeOK
<1>2. "failed" \in Places
  BY DEF Places
<1> QED
  BY <1>1, <1>2, QuietKeeps DEF Fails, schema, local

\* A migration to head, by itself or in a seed.
LEMMA UpgradeKeeps ==
    ASSUME IInv, NEW r \in Runs, at[r] \notin {"creating", "looking"}, UNCHANGED local,
           NEW where \in Places, where \notin {"creating", "looking", "idle"},
           \/ UpgradeFrom(saw[r]) /\ Goto(r, where)
           \/ Fails(r) /\ UNCHANGED raced
    PROVE  IInv'
<1>0. /\ RowsOn(data, tables) /\ saw \in [Runs -> {"none", "0001", "0002"}]
      /\ next \in [Runs -> Nat \ {0}]
  BY DEF IInv, TypeOK, RowsOn
<1>1. CASE Fails(r) /\ UNCHANGED raced
  BY <1>1, FailKeeps
<1>2. CASE UpgradeFrom(saw[r]) /\ Goto(r, where) /\ saw[r] = "0002"
  <2>1. UNCHANGED <<revision, tables, data, indexes, raced, broken, saw, next, seen>>
    BY <1>2 DEF UpgradeFrom, schema, local
  <2> QED
    BY <1>0, <1>2, <2>1, QuietKeeps
<1>3. CASE UpgradeFrom(saw[r]) /\ Goto(r, where) /\ saw[r] # "0002"
  <2>1. /\ revision' = "0002" /\ tables' = Tables /\ indexes' = Indexes /\ broken' = FALSE
        /\ UNCHANGED <<data, saw, next, seen>>
    BY <1>3 DEF UpgradeFrom, local
  <2>2. \/ tables = Tables /\ raced' = raced
        \/ raced' = raced \cup {s \in Runs : at[s] = "looking"}
    BY <1>0, <1>3 DEF UpgradeFrom, Upgradable
  <2> QED
    BY <1>3, <2>1, <2>2, BuildKeeps
<1> QED
  BY <1>1, <1>2, <1>3

LEMMA MigrateKeeps ==
    ASSUME IInv, NEW r \in Runs, StartMigration(r) \/ Migrate(r)
    PROVE  IInv'
<1>0. /\ RowsOn(data, tables) /\ RowsOn("empty", {})
      /\ saw \in [Runs -> {"none", "0001", "0002"}] /\ next \in [Runs -> Nat \ {0}]
      /\ tables \subseteq Tables /\ revision \in {"none", "0001", "0002"}
      /\ revision # "none" => tables = Tables
      /\ {"failed", "done", "to head", "to 0001", "to base"} \subseteq Places
  BY DEF IInv, TypeOK, Places, Busy, RevisionHonest, RowsOn
<1>1. CASE StartMigration(r)
  <2>1. PICK goal \in {"to head", "to 0001", "to base"} : Goto(r, goal)
    BY <1>1 DEF StartMigration
  <2>2. saw' \in [Runs -> {"none", "0001", "0002"}]
    BY <1>0, <1>1 DEF StartMigration, Look
  <2>3. UNCHANGED <<revision, tables, data, indexes, next, seen, raced, broken>>
    BY <1>1 DEF StartMigration, schema
  <2>4. at[r] = "idle" /\ goal \in Places
    BY <1>0, <1>1 DEF StartMigration
  <2> QED
    BY <1>0, <2>1, <2>2, <2>3, <2>4, QuietKeeps
<1>2. CASE Upgrade(r)
  BY <1>0, <1>2, UpgradeKeeps DEF Upgrade
<1>3. CASE DropIndexes(r)
  <2>1. CASE Fails(r)
    BY <1>3, <2>1, FailKeeps DEF DropIndexes
  <2>2. CASE Goto(r, "done") /\ UNCHANGED <<schema, broken>>
    BY <1>0, <1>3, <2>2, QuietKeeps DEF DropIndexes, schema, local
  <2>3. CASE /\ revision = "0002" /\ revision' = "0001" /\ indexes' = Left(r)
             /\ Goto(r, "done") /\ UNCHANGED <<tables, data, broken>>
    <3>1. UNCHANGED <<saw, next, seen, raced>> /\ tables' = Tables
      BY <1>0, <1>3, <2>3 DEF DropIndexes, local
    <3>2. indexes' \subseteq {k \in indexes : TableOf(k) \in tables'}
      BY <2>3 DEF Left, IInv, TypeOK
    <3> QED
      BY <1>0, <2>3, <3>1, <3>2, ClearKeeps
  <2> QED
    BY <1>3, <2>1, <2>2, <2>3 DEF DropIndexes
<1>4. CASE DropTables(r)
  <2>1. CASE Fails(r)
    BY <1>4, <2>1, FailKeeps DEF DropTables
  <2>2. CASE Goto(r, "done") /\ UNCHANGED <<schema, broken>>
    BY <1>0, <1>4, <2>2, QuietKeeps DEF DropTables, schema, local
  <2>3. CASE DropTo({}) /\ Goto(r, "done") /\ UNCHANGED broken
    <3>1. /\ revision' = "none" /\ tables' = {} /\ data' = "empty"
          /\ indexes' \subseteq {k \in indexes : TableOf(k) \in tables'}
      BY <2>3 DEF DropTo
    <3>2. UNCHANGED <<saw, next, seen, raced>>
      BY <1>4 DEF DropTables, local
    <3> QED
      BY <1>0, <2>3, <3>1, <3>2, ClearKeeps
  <2> QED
    BY <1>4, <2>1, <2>2, <2>3 DEF DropTables
<1> QED
  BY <1>1, <1>2, <1>3, <1>4 DEF Migrate

-----------------------------------------------------------------------------
LEMMA SeedLookKeeps ==
    ASSUME IInv, NEW r \in Runs, StartSeed(r) \/ SeedLook(r)
    PROVE  IInv'
<1>0. /\ TypeOK /\ "looking" \in Places /\ at[r] # "creating"
      /\ at[r] = "idle" => next[r] = 1
      /\ UNCHANGED <<revision, tables, data, indexes, saw, raced, broken>>
  BY DEF IInv, Unbegun, StartSeed, SeedLook, schema, local, Places, Busy
<1>1. at' \in [Runs -> Places] /\ at'[r] = "looking" /\ \A s \in Runs \ {r} : at'[s] = at[s]
  <2>1. Goto(r, "looking")
    BY <1>0 DEF StartSeed, SeedLook, Goto, TypeOK
  <2> QED
    BY <1>0, <2>1, Moves
<1>2. /\ next' \in [Runs -> Nat \ {0}] /\ seen' \in [Runs -> SUBSET Tables]
      /\ \A s \in Runs \ {r} : next'[s] = next[s] /\ seen'[s] = seen[s]
  <2>1. CASE StartSeed(r)
    BY <1>0, <2>1 DEF StartSeed, local, TypeOK
  <2>2. CASE SeedLook(r)
    BY <1>0, <2>2 DEF SeedLook, Advance, TypeOK
  <2> QED
    BY <2>1, <2>2
<1>3. TypeOK'
  BY <1>0, <1>1, <1>2 DEF TypeOK, Places, Indexes, TableOf
<1>4. IndexesHaveBuilder' /\ Bridged'
  <2>1. \A s \in Runs : at[s] = "creating" => at'[s] = "creating" /\ next'[s] = next[s]
    BY <1>0, <1>1, <1>2
  <2> QED
    BY <1>0, <2>1 DEF IInv, IndexesHaveBuilder, Builds, Bridged, Indexes
<1>5. Unbegun'
  BY <1>0, <1>1, <1>2 DEF IInv, Unbegun
<1>6. RevisionHonest'
  <2>1. \A s \in raced : at[s] # "looking" => at'[s] # "looking"
    BY <1>0, <1>1 DEF StartSeed, SeedLook, IInv, Unbegun, TypeOK
  <2> QED
    BY <1>0, <2>1 DEF IInv, RevisionHonest
<1>7. SeesAll'
  <2> SUFFICES ASSUME NEW s \in Runs, at'[s] = "looking", s \notin raced,
                      NEW i \in 1..4, i < next'[s], TableOrder[i] \in tables
               PROVE  TableOrder[i] \in seen'[s]
    BY <1>0 DEF SeesAll
  <2>1. CASE s # r
    BY <1>1, <1>2, <2>1 DEF IInv, SeesAll
  <2>2. CASE s = r /\ StartSeed(r)
    <3>1. next'[r] = 1
      BY <1>0, <2>2 DEF StartSeed, local
    <3> QED
      BY <2>2, <3>1
  <2>3. CASE s = r /\ SeedLook(r)
    <3>1. /\ next'[r] = next[r] + 1 /\ next[r] \in Nat
          /\ seen'[r] = seen[r] \cup (tables \cap {TableOrder[next[r]]})
      BY <2>3 DEF SeedLook, Advance, IInv, TypeOK
    <3>2. CASE i < next[r]
      BY <2>3, <3>1, <3>2 DEF SeedLook, IInv, SeesAll
    <3>3. CASE i = next[r]
      BY <2>3, <3>1, <3>3
    <3> QED
      BY <2>3, <3>1, <3>2, <3>3
  <2> QED
    BY <2>1, <2>2, <2>3
<1> QED
  BY <1>3, <1>4, <1>5, <1>6, <1>7 DEF IInv

\* A seed that fails while it looks or drops.
LEMMA LookFails ==
    ASSUME IInv, NEW r \in Runs, at[r] = "looking", Goto(r, "failed"),
           raced' = raced \ {r}, UNCHANGED <<schema, local, broken>>
    PROVE  IInv'
<1>0. TypeOK /\ "failed" \in Places
  BY DEF IInv, Places
<1>1. at' \in [Runs -> Places] /\ at'[r] = "failed" /\ \A s \in Runs \ {r} : at'[s] = at[s]
  BY <1>0, Moves
<1>2. UNCHANGED <<revision, tables, data, indexes, saw, next, seen>>
  BY DEF schema, local
<1>3. TypeOK'
  BY <1>0, <1>1, <1>2 DEF TypeOK, Places, Indexes, TableOf
<1>4. IndexesHaveBuilder' /\ Bridged'
  <2>1. \A s \in Runs : at[s] = "creating" => at'[s] = "creating"
    BY <1>1
  <2> QED
    BY <1>2, <2>1 DEF IInv, IndexesHaveBuilder, Builds, Bridged, Indexes
<1>5. SeesAll' /\ Unbegun'
  BY <1>1, <1>2 DEF IInv, SeesAll, Unbegun
<1>6. RevisionHonest'
  BY <1>0, <1>1, <1>2 DEF IInv, RevisionHonest, TypeOK
<1> QED
  BY <1>3, <1>4, <1>5, <1>6 DEF IInv

\* What a seed leaves when it drops what it found was built since it looked.
LEMMA LeftoverRaced ==
    ASSUME IInv, NEW r \in Runs, at[r] = "looking", next[r] > 4, tables \ seen[r] # {}
    PROVE  r \in raced
<1>1. PICK t \in tables : t \notin seen[r]
  OBVIOUS
<1>2. PICK i \in 1..4 : t = TableOrder[i]
  BY TablesAre DEF IInv, TypeOK
<1>3. i < next[r]
  BY DEF IInv, TypeOK
<1> QED
  BY <1>1, <1>2, <1>3 DEF IInv, SeesAll

LEMMA SeedDropKeeps ==
    ASSUME IInv, NEW r \in Runs, SeedDrop(r)
    PROVE  IInv'
<1>1. CASE Fails(r) /\ raced' = raced \ {r}
  BY <1>1, LookFails DEF SeedDrop, Fails
<1>2. CASE DropTo(tables \ seen[r]) /\ Goto(r, "dropped") /\ UNCHANGED <<raced, broken>>
  <2>1. /\ revision' = "none" /\ tables' = tables \ seen[r]
        /\ indexes' \subseteq {k \in indexes : TableOf(k) \in tables'}
    BY <1>2 DEF DropTo
  <2>2. RowsOn(data', tables')
    BY <1>2 DEF DropTo, RowsOn, IInv, TypeOK
  <2>3. tables' # {} => r \in raced
    BY <2>1, LeftoverRaced DEF SeedDrop
  <2>4. UNCHANGED <<saw, next, seen>> /\ "dropped" \in Places
    BY DEF SeedDrop, local, Places, Busy
  <2> QED
    BY <1>2, <2>1, <2>2, <2>3, <2>4, ClearKeeps
<1> QED
  BY <1>1, <1>2 DEF SeedDrop

LEMMA SeedKeeps ==
    ASSUME IInv, NEW r \in Runs, StartSeed(r) \/ Seed(r)
    PROVE  IInv'
<1>0. /\ RowsOn(data, tables)
      /\ saw \in [Runs -> {"none", "0001", "0002"}] /\ next \in [Runs -> Nat \ {0}]
      /\ revision \in {"none", "0001", "0002"}
      /\ {"failed", "done", "rebuilding", "naming", "measuring", "filling"} \subseteq Places
  BY DEF IInv, TypeOK, Places, Busy, RowsOn
<1>1. CASE SeedStartUpgrade(r)
  <2>1. saw' \in [Runs -> {"none", "0001", "0002"}]
    BY <1>0, <1>1 DEF SeedStartUpgrade, Look
  <2>2. UNCHANGED <<revision, tables, data, indexes, next, seen, raced, broken>>
    BY <1>1 DEF SeedStartUpgrade, schema
  <2>3. at[r] = "dropped" /\ Goto(r, "rebuilding")
    BY <1>1 DEF SeedStartUpgrade
  <2> QED
    BY <1>0, <2>1, <2>2, <2>3, QuietKeeps
<1>2. CASE SeedUpgrade(r)
  BY <1>0, <1>2, UpgradeKeeps DEF SeedUpgrade
<1>3. CASE SeedModels(r)
  <2>1. CASE Fails(r)
    BY <1>3, <2>1, FailKeeps DEF SeedModels
  <2>2. CASE ~ Fails(r)
    <3>1. /\ at[r] = "naming" /\ Goto(r, "measuring") /\ RowsOn(data', tables)
          /\ UNCHANGED <<revision, tables, indexes, broken, saw, next, seen, raced>>
      BY <1>3, <2>2 DEF SeedModels, Nameable, RowsOn, local
    <3> QED
      BY <1>0, <3>1, QuietKeeps
  <2> QED
    BY <2>1, <2>2
<1>4. CASE SeedBenchmarks(r)
  <2>1. CASE Fails(r)
    BY <1>4, <2>1, FailKeeps DEF SeedBenchmarks
  <2>2. CASE ~ Fails(r)
    <3>1. /\ at[r] = "measuring" /\ Goto(r, "filling")
          /\ UNCHANGED <<revision, tables, data, indexes, broken, saw, next, seen, raced>>
      BY <1>4, <2>2 DEF SeedBenchmarks, schema, local
    <3> QED
      BY <1>0, <3>1, QuietKeeps
  <2> QED
    BY <2>1, <2>2
<1>5. CASE SeedPrices(r)
  <2>1. CASE Fails(r)
    BY <1>5, <2>1, FailKeeps DEF SeedPrices
  <2>2. CASE ~ Fails(r)
    <3>1. /\ at[r] = "filling" /\ RowsOn(data', tables)
          /\ UNCHANGED <<revision, tables, indexes, broken, saw, next, seen, raced>>
      BY <1>5, <2>2 DEF SeedPrices, RowsOn, local
    <3>2. PICK where \in {"filling", "done"} : Goto(r, where)
      BY <1>5, <2>2 DEF SeedPrices
    <3> QED
      BY <1>0, <3>1, <3>2, QuietKeeps
  <2> QED
    BY <2>1, <2>2
<1> QED
  BY <1>1, <1>2, <1>3, <1>4, <1>5, SeedLookKeeps, SeedDropKeeps DEF Seed

-----------------------------------------------------------------------------
LEMMA TuneStartKeeps ==
    ASSUME IInv, NEW r \in Runs, TuneStart(r)
    PROVE  IInv'
<1>1. /\ RowsOn(data', tables) /\ saw' \in [Runs -> {"none", "0001", "0002"}]
      /\ next' \in [Runs -> Nat \ {0}] /\ \A s \in Runs : next'[s] = next[s]
      /\ {"tuning", "failed"} \subseteq Places
  BY DEF TuneStart, schema, local, IInv, TypeOK, RowsOn, Places, Busy
<1>2. UNCHANGED <<revision, tables, indexes, seen, raced, broken>> /\ at[r] = "idle"
  BY DEF TuneStart, schema, local
<1> QED
  BY <1>1, <1>2, QuietKeeps DEF TuneStart

\* A step of a tuning run touches no table and no seed.
LEMMA TuningLeavesTables ==
    ASSUME IInv, NEW r \in Runs, at[r] \in {"tuning", "creating"},
           NEW where \in Places, where \notin {"looking", "idle"}, Goto(r, where),
           UNCHANGED <<revision, tables, data, saw, seen, raced>>,
           indexes' \subseteq {k \in Indexes : TableOf(k) \in tables},
           next' \in [Runs -> Nat \ {0}], \A s \in Runs \ {r} : next'[s] = next[s],
           broken' \in BOOLEAN
    PROVE  TypeOK' /\ RevisionHonest' /\ SeesAll' /\ Unbegun'
<1>0. TypeOK
  BY DEF IInv
<1>1. at' \in [Runs -> Places] /\ at'[r] = where /\ \A s \in Runs \ {r} : at'[s] = at[s]
  BY <1>0, Moves
<1>2. TypeOK'
  BY <1>0, <1>1 DEF TypeOK, Places, Indexes, TableOf
<1>3. \A s \in Runs : at'[s] \in {"looking", "idle"} => at[s] = at'[s] /\ next'[s] = next[s]
  BY <1>1
<1>4. SeesAll' /\ Unbegun'
  BY <1>3 DEF IInv, SeesAll, Unbegun
<1>5. RevisionHonest'
  BY <1>0, <1>1 DEF IInv, TypeOK, RevisionHonest
<1> QED
  BY <1>2, <1>4, <1>5

\* A drop that nobody overtook leaves nothing to bridge, and its own run to
\* build everything.
LEMMA TuneDropKeeps ==
    ASSUME IInv, NEW r \in Runs, TuneDrop(r)
    PROVE  IInv'
<1> DEFINE where == IF "price_points" \in tables THEN "creating" ELSE "failed"
<1>0. TypeOK /\ where \in Places
  BY DEF IInv, Places, Busy
<1>1. /\ next' = [next EXCEPT ![r] = 1] /\ indexes' = Left(r) /\ Goto(r, where)
      /\ UNCHANGED <<revision, tables, data, saw, seen, raced>> /\ at[r] = "tuning"
      /\ broken' \in BOOLEAN
  BY <1>0 DEF TuneDrop, TypeOK
<1>2. /\ next' \in [Runs -> Nat \ {0}] /\ next'[r] = 1
      /\ \A s \in Runs \ {r} : next'[s] = next[s]
  BY <1>0, <1>1 DEF TypeOK
<1>3. TypeOK' /\ RevisionHonest' /\ SeesAll' /\ Unbegun'
  <2>1. indexes' \subseteq {k \in Indexes : TableOf(k) \in tables}
    BY <1>0, <1>1 DEF Left, TypeOK
  <2> QED
    BY <1>0, <1>1, <1>2, <2>1, TuningLeavesTables
<1>4. IndexesHaveBuilder' /\ Bridged'
  <2> SUFFICES ASSUME revision = "0002", ~ broken'
               PROVE  /\ indexes' = {}
                      /\ \A k \in Indexes : \E s \in Runs : at'[s] = "creating" /\ next'[s] <= k
    BY <1>1 DEF IndexesHaveBuilder, Builds, Bridged, Indexes
  <2>1. "price_points" \in tables
    BY TablesAre DEF IInv, RevisionHonest
  <2>2. at'[r] = "creating"
    BY <1>0, <1>1, <2>1 DEF Goto, TypeOK
  <2>3. indexes' = {}
    BY <1>1 DEF TuneDrop
  <2>4. \A k \in Indexes : next'[r] <= k
    BY <1>2, NAssumption DEF Indexes
  <2> QED
    BY <2>2, <2>3, <2>4
<1> QED
  BY <1>3, <1>4 DEF IInv

\* The run that creates an index goes on to the later ones.
LEMMA TuneCreateKeeps ==
    ASSUME IInv, NEW r \in Runs, TuneCreate(r)
    PROVE  IInv'
<1> DEFINE n == next[r]
           where == IF n >= N THEN "done" ELSE "creating"
<1>0. TypeOK /\ where \in Places
  BY DEF IInv, Places, Busy
<1>1. /\ n \in Nat \ {0} /\ n \in Indexes /\ n \notin indexes /\ N \in Nat
      /\ at[r] = "creating" /\ Goto(r, where)
      /\ indexes' = indexes \cup {n}
      /\ UNCHANGED <<revision, tables, data, saw, seen, raced, broken>>
  BY <1>0, NAssumption DEF TuneCreate, AfterCreating, Creatable, TypeOK
<1>2. /\ next'[r] = n + 1 /\ \A s \in Runs \ {r} : next'[s] = next[s]
      /\ next' \in [Runs -> Nat \ {0}]
  <2>1. next' = [next EXCEPT ![r] = n + 1]
    BY DEF TuneCreate, Advance
  <2>2. n + 1 \in Nat \ {0}
    BY <1>1
  <2> QED
    BY <1>0, <2>1, <2>2 DEF TypeOK
<1>3. (n < N => at'[r] = "creating") /\ \A s \in Runs \ {r} : at'[s] = at[s]
  <2>1. n < N => where = "creating"
    BY <1>1
  <2>2. at'[r] = where /\ \A s \in Runs \ {r} : at'[s] = at[s]
    BY <1>0, <1>1, Moves
  <2> QED
    BY <2>1, <2>2
<1>4. TypeOK' /\ RevisionHonest' /\ SeesAll' /\ Unbegun'
  <2>1. indexes' \subseteq {k \in Indexes : TableOf(k) \in tables} /\ broken' \in BOOLEAN
    BY <1>0, <1>1 DEF TuneCreate, Creatable, TypeOK
  <2> QED
    BY <1>0, <1>1, <1>2, <2>1, TuningLeavesTables
<1>5. ASSUME NEW k \in Indexes \ indexes', NEW s \in Runs,
             at[s] = "creating", next[s] <= k
      PROVE  at'[s] = "creating" /\ next[s] <= next'[s] /\ next'[s] <= k
  <2>1. CASE s # r
    BY <2>1, <1>0, <1>2, <1>3, <1>5 DEF TypeOK
  <2>2. CASE s = r
    <3>1. k \in Nat /\ k <= N /\ n < k
      BY <2>2, <1>1, <1>5 DEF Indexes
    <3> QED
      BY <2>2, <3>1, <1>1, <1>2, <1>3
  <2> QED
    BY <2>1, <2>2
<1>6. IndexesHaveBuilder'
  <2> SUFFICES ASSUME revision = "0002", ~ broken, NEW k \in Indexes \ indexes'
               PROVE  \E s \in Runs : at'[s] = "creating" /\ next'[s] <= k
    BY <1>1 DEF IndexesHaveBuilder, Builds, Indexes
  <2>1. PICK s \in Runs : at[s] = "creating" /\ next[s] <= k
    BY <1>1 DEF IInv, IndexesHaveBuilder, Builds
  <2> QED
    BY <2>1, <1>5
<1>7. Bridged'
  <2> SUFFICES ASSUME revision = "0002", ~ broken,
                      NEW i \in indexes', NEW k \in Indexes \ indexes', i < k
               PROVE  \E s \in Runs : at'[s] = "creating" /\ i < next'[s] /\ next'[s] <= k
    BY <1>1 DEF Bridged, Indexes
  <2>1. CASE i = n
    <3>1. at'[r] = "creating" /\ i < next'[r] /\ next'[r] <= k
      BY <2>1, <1>1, <1>2, <1>3 DEF Indexes
    <3> QED
      BY <3>1
  <2>2. CASE i \in indexes
    <3>1. PICK s \in Runs : at[s] = "creating" /\ i < next[s] /\ next[s] <= k
      BY <2>2, <1>1 DEF IInv, Bridged
    <3>2. at'[s] = "creating" /\ next[s] <= next'[s] /\ next'[s] <= k
      BY <3>1, <1>5
    <3>3. i \in Nat /\ next[s] \in Nat /\ next'[s] \in Nat
      BY <2>2, <1>0, <1>2 DEF TypeOK, Indexes
    <3>4. i < next'[s]
      BY <3>1, <3>2, <3>3
    <3> QED
      BY <3>2, <3>4
  <2> QED
    BY <2>1, <2>2, <1>1
<1> QED
  BY <1>4, <1>6, <1>7 DEF IInv

\* A run fails on an index that another created, and that one, or who built on
\* it, creates the rest.
LEMMA TuneFailsKeeps ==
    ASSUME IInv, NEW r \in Runs, TuneFails(r)
    PROVE  IInv'
<1> DEFINE n == next[r]
<1>0. TypeOK /\ "failed" \in Places
  BY DEF IInv, Places
<1>1. /\ UNCHANGED <<revision, tables, data, indexes, broken, saw, next, seen, raced>>
      /\ Goto(r, "failed") /\ at[r] = "creating"
      /\ n \in Nat \ {0} /\ N \in Nat /\ indexes \subseteq Indexes
      /\ next \in [Runs -> Nat \ {0}] /\ \A s \in Runs : next[s] \in Nat
  BY <1>0, NAssumption DEF TuneFails, Fails, schema, local, TypeOK
<1>2. \A s \in Runs \ {r} : at'[s] = at[s]
  BY <1>0, <1>1, Moves
<1>3. TypeOK' /\ RevisionHonest' /\ SeesAll' /\ Unbegun'
  BY <1>0, <1>1, TuningLeavesTables DEF TypeOK
<1>4. CASE TableOf(n) \notin tables /\ n \in Indexes
  <2>1. revision = "none"
    BY <1>4, TablesAre DEF IInv, RevisionHonest
  <2>2. IndexesHaveBuilder' /\ Bridged'
    BY <2>1, <1>1 DEF IndexesHaveBuilder, Bridged
  <2> QED
    BY <1>3, <2>2 DEF IInv
<1>5. CASE n \notin Indexes
  <2>1. \A k \in Indexes : ~ (n <= k)
    BY <1>1, <1>5 DEF Indexes
  <2>2. \A k \in Indexes : \A s \in Runs :
           at[s] = "creating" /\ next[s] <= k => at'[s] = "creating"
    BY <1>2, <2>1
  <2>3. IndexesHaveBuilder'
    BY <1>1, <2>2 DEF IInv, IndexesHaveBuilder, Builds, Indexes
  <2>4. Bridged'
    BY <1>1, <2>2 DEF IInv, Bridged, Indexes
  <2> QED
    BY <1>3, <2>3, <2>4 DEF IInv
<1>6. CASE n \in indexes /\ revision = "0002" /\ ~ broken
  <2>1. ASSUME NEW k \in Indexes \ indexes, n <= k
        PROVE  \E s \in Runs : at'[s] = "creating" /\ n < next[s] /\ next[s] <= k
    <3>1. n < k
      BY <1>1, <1>6, <2>1 DEF Indexes
    <3>2. PICK s \in Runs : at[s] = "creating" /\ n < next[s] /\ next[s] <= k
      BY <1>6, <3>1 DEF IInv, Bridged
    <3>3. s # r
      BY <1>1, <3>2
    <3> QED
      BY <1>2, <3>2, <3>3
  <2>2. IndexesHaveBuilder'
    <3> SUFFICES ASSUME NEW k \in Indexes \ indexes
                 PROVE  \E s \in Runs : at'[s] = "creating" /\ next[s] <= k
      BY <1>1 DEF IndexesHaveBuilder, Builds, Indexes
    <3>1. PICK s \in Runs : at[s] = "creating" /\ next[s] <= k
      BY <1>6 DEF IInv, IndexesHaveBuilder, Builds
    <3>2. CASE s = r
      BY <2>1, <3>1, <3>2
    <3>3. CASE s # r
      BY <1>2, <3>1, <3>3
    <3> QED
      BY <3>2, <3>3
  <2>3. Bridged'
    <3> SUFFICES ASSUME NEW i \in indexes, NEW k \in Indexes \ indexes, i < k
                 PROVE  \E s \in Runs : at'[s] = "creating" /\ i < next[s] /\ next[s] <= k
      BY <1>1 DEF Bridged, Indexes
    <3>1. PICK s \in Runs : at[s] = "creating" /\ i < next[s] /\ next[s] <= k
      BY <1>6 DEF IInv, Bridged
    <3>2. CASE s = r
      <4>1. PICK q \in Runs : at'[q] = "creating" /\ n < next[q] /\ next[q] <= k
        BY <2>1, <3>1, <3>2
      <4>2. i \in Nat
        BY <1>1 DEF Indexes
      <4>3. i < next[q]
        BY <1>1, <3>1, <3>2, <4>1, <4>2
      <4> QED
        BY <4>1, <4>3
    <3>3. CASE s # r
      BY <1>2, <3>1, <3>3
    <3> QED
      BY <3>2, <3>3
  <2> QED
    BY <1>3, <2>2, <2>3 DEF IInv
<1>7. CASE broken \/ revision # "0002"
  BY <1>1, <1>3, <1>7 DEF IInv, IndexesHaveBuilder, Bridged
<1> QED
  BY <1>4, <1>5, <1>6, <1>7 DEF TuneFails, Creatable

LEMMA CrashKeeps ==
    ASSUME IInv, NEW r \in Runs, Crash(r)
    PROVE  IInv'
<1>0. /\ TypeOK /\ "failed" \in Places /\ Goto(r, "failed")
      /\ UNCHANGED <<revision, tables, data, indexes, saw, next, seen>>
      /\ at[r] # "idle"
  BY DEF IInv, Places, Crash, Busy, schema, local
<1>1. CASE at[r] = "creating"
  <2>1. broken' = TRUE /\ raced' = raced
    BY <1>1 DEF Crash
  <2>2. TypeOK' /\ RevisionHonest' /\ SeesAll' /\ Unbegun'
    BY <1>0, <1>1, <2>1, TuningLeavesTables DEF TypeOK
  <2> QED
    BY <2>1, <2>2 DEF IInv, IndexesHaveBuilder, Bridged
<1>2. CASE at[r] = "looking"
  <2>1. raced' = raced \ {r} /\ broken' = broken /\ UNCHANGED <<schema, local>>
    BY <1>0, <1>2 DEF Crash, TypeOK
  <2> QED
    BY <1>0, <1>2, <2>1, LookFails
<1>3. CASE at[r] \notin {"creating", "looking"}
  <2>1. Fails(r) /\ UNCHANGED <<local, raced>>
    BY <1>0, <1>3 DEF Crash, Fails, TypeOK
  <2> QED
    BY <1>3, <2>1, FailKeeps
<1> QED
  BY <1>1, <1>2, <1>3

LEMMA StepKeeps ==
    ASSUME IInv, [Next]_vars
    PROVE  IInv'
<1>1. ASSUME NEW r \in Runs, StartMigration(r) \/ Migrate(r) PROVE IInv'
  BY <1>1, MigrateKeeps
<1>2. ASSUME NEW r \in Runs, StartSeed(r) \/ Seed(r) PROVE IInv'
  BY <1>2, SeedKeeps
<1>3. ASSUME NEW r \in Runs, TuneStart(r) \/ Tune(r) PROVE IInv'
  BY <1>3, TuneStartKeeps, TuneDropKeeps, TuneCreateKeeps, TuneFailsKeeps DEF Tune
<1>4. ASSUME NEW r \in Runs, PassIndex(r) \/ Crash(r) PROVE IInv'
  BY <1>4, PassKeeps, CrashKeeps
<1>5. CASE UNCHANGED vars
  BY <1>5 DEF vars, schema, local, IInv, TypeOK, RevisionHonest, SeesAll, Unbegun,
              IndexesHaveBuilder, Builds, Bridged, Indexes, TableOf
<1> QED
  BY <1>1, <1>2, <1>3, <1>4, <1>5 DEF Next

THEOREM InductiveInvariant == Spec => []IInv
<1>1. Init => IInv
  BY InitHolds
<1>2. IInv /\ [Next]_vars => IInv'
  BY StepKeeps
<1> QED
  BY <1>1, <1>2, PTL DEF Spec

\* The types of the schema and of the runs of upgrade, downgrade, seed and tune.
THEOREM TypeCorrect == Spec => []TypeOK
<1>1. IInv => TypeOK
  BY DEF IInv
<1> QED
  BY <1>1, InductiveInvariant, PTL

\* However many migrations and seeds overlap and die, a revision means that all
\* tables are there, and tables without one that a migration built them between
\* the look and the drop of a seed.
THEOREM RevisionHonestHolds == Spec => []RevisionHonest
<1>1. IInv => RevisionHonest
  BY DEF IInv
<1> QED
  BY <1>1, InductiveInvariant, PTL

\* However many tunings, migrations and seeds overlap, an index that is missing at
\* revision 0002 is one that a run under way will create, as long as no tuning
\* died after its drop and no drop was overtaken by who created what it drops.
THEOREM IndexesHaveBuilderHolds == Spec => []IndexesHaveBuilder
<1>1. IInv => IndexesHaveBuilder
  BY DEF IInv
<1> QED
  BY <1>1, InductiveInvariant, PTL

-----------------------------------------------------------------------------
\* What upgrade head cannot be carried out on: a database at 0001 that has an
\* index, and tables without a revision.
LEMMA WhatBlocks ==
    ASSUME TypeOK, RevisionHonest
    PROVE  ~ Upgradable(revision) <=> \/ revision = "0001" /\ indexes # {}
                                      \/ revision = "none" /\ tables # {}
BY DEF TypeOK, RevisionHonest, Upgradable

\* A database comes to be at 0001 with indexes by a CREATE INDEX or by a migration
\* to 0001 that passed one, and without a revision but with tables by a seed that
\* a migration overtook.
LEMMA OnlyTheseBlock ==
    ASSUME IInv, [Next]_vars, Upgradable(revision), ~ Upgradable(revision)'
    PROVE  \E r \in Runs : Blocks(r)
<1>0. TypeOK /\ RevisionHonest /\ TypeOK' /\ RevisionHonest'
  <2>1. IInv'
    BY StepKeeps
  <2> QED
    BY <2>1 DEF IInv
<1>1. ~ (revision = "0001" /\ indexes # {}) /\ ~ (revision = "none" /\ tables # {})
  BY <1>0, WhatBlocks
<1>2. \/ revision' = "0001" /\ indexes' # {}
      \/ revision' = "none" /\ tables' # {}
  BY <1>0 DEF TypeOK, RevisionHonest, Upgradable
<1>3. ASSUME UNCHANGED <<revision, tables, indexes>> PROVE FALSE
  BY <1>1, <1>2, <1>3
<1>4. ASSUME UNCHANGED schema PROVE FALSE
  BY <1>3, <1>4 DEF schema
<1>5. ASSUME NEW from, UpgradeFrom(from) PROVE FALSE
  BY <1>2, <1>4, <1>5 DEF UpgradeFrom
<1>6. ASSUME NEW r \in Runs, TuneCreate(r) PROVE revision = "0001" /\ CreatesIndex(r)
  BY <1>1, <1>2, <1>6 DEF TuneCreate, Creatable, CreatesIndex
<1>7. ASSUME NEW r \in Runs, TuneDrop(r) PROVE FALSE
  BY <1>1, <1>2, <1>7 DEF TuneDrop, Left
<1>8. ASSUME NEW r \in Runs, DropIndexes(r) PROVE LeavesIndex(r)
  <2>1. CASE UNCHANGED schema \/ Fails(r)
    BY <1>4, <2>1 DEF Fails
  <2>2. CASE /\ revision' = "0001" /\ indexes' = Left(r) /\ Goto(r, "done")
    BY <1>0, <1>2, <1>8, <2>2 DEF DropIndexes, LeavesIndex, Goto, TypeOK
  <2> QED
    BY <1>8, <2>1, <2>2 DEF DropIndexes
<1>9. ASSUME NEW r \in Runs, DropTables(r) PROVE FALSE
  BY <1>2, <1>4, <1>9 DEF DropTables, DropTo, Fails
<1>10. ASSUME NEW r \in Runs, SeedDrop(r) PROVE LeavesTable(r)
  <2>1. CASE Fails(r)
    BY <1>4, <2>1 DEF Fails
  <2>2. CASE DropTo(tables \ seen[r]) /\ Goto(r, "dropped")
    <3>1. at[r] = "looking" /\ at'[r] = "dropped"
      BY <1>0, <1>10, <2>2 DEF SeedDrop, Goto, TypeOK
    <3>2. tables \ seen[r] # {}
      BY <1>2, <2>2 DEF DropTo
    <3>3. r \in raced
      BY <1>10, <3>1, <3>2, LeftoverRaced DEF SeedDrop
    <3> QED
      BY <3>1, <3>3 DEF LeavesTable
  <2> QED
    BY <1>10, <2>1, <2>2 DEF SeedDrop
<1>11. ASSUME NEW r \in Runs, Upgrade(r) \/ SeedUpgrade(r) PROVE FALSE
  BY <1>4, <1>5, <1>11 DEF Upgrade, SeedUpgrade, Fails
<1>12. ASSUME NEW r \in Runs, \/ StartMigration(r) \/ StartSeed(r) \/ SeedLook(r)
                              \/ SeedStartUpgrade(r) \/ TuneStart(r)
       PROVE FALSE
  BY <1>4, <1>12 DEF StartMigration, StartSeed, SeedLook, SeedStartUpgrade, TuneStart
<1>13. ASSUME NEW r \in Runs, PassIndex(r) \/ TuneFails(r) \/ Crash(r) PROVE FALSE
  BY <1>4, <1>13 DEF PassIndex, TuneFails, Fails, Crash
<1>14. ASSUME NEW r \in Runs, SeedModels(r) \/ SeedBenchmarks(r) \/ SeedPrices(r) PROVE FALSE
  BY <1>3, <1>4, <1>14 DEF SeedModels, SeedBenchmarks, SeedPrices, Fails
<1>15. CASE UNCHANGED vars
  BY <1>4, <1>15 DEF vars
<1> QED
  BY <1>6, <1>7, <1>8, <1>9, <1>10, <1>11, <1>12, <1>13, <1>14, <1>15
  DEF Blocks, Next, Migrate, Seed, Tune

\* Whatever the tools do to each other, upgrade head stops working only by a
\* CREATE INDEX of tune.py at revision 0001, by a migration to 0001 that leaves an
\* index behind, or by a seed that leaves tables which a migration built since it
\* looked.
THEOREM UpgradeBlockersHolds == Spec => UpgradeBlockers
<1>1. IInv /\ [Next]_vars =>
          [Upgradable(revision) /\ ~ Upgradable(revision)' => \E r \in Runs : Blocks(r)]_vars
  BY OnlyTheseBlock
<1> QED
  BY <1>1, InductiveInvariant, PTL DEF Spec, UpgradeBlockers
=============================================================================
