\* A new database or a seeded one, three runs of any tools, three indexes.
CONSTANTS
    Runs = {r1, r2, r3}
    N = 3
SPECIFICATION FairSpec
INVARIANTS
    TypeOK
    RevisionHonest
    IndexesHaveBuilder
PROPERTIES
    IndexesReturn
    UpgradeBlockers
CHECK_DEADLOCK FALSE
