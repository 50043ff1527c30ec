SPECIFICATION FairSpec
CONSTANT
    Enough = 10
INVARIANTS
    CleanBetweenTests
    EnoughRuns
PROPERTIES
    NoRaceWithHandler
    TestEnds
