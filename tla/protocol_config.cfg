SPECIFICATION FairSpec
CONSTANTS
    Configs = {c1, c2}
    Thresholds = {1}
    NoConfig = NoConfig
    NoBlock = NoBlock
    EventBlock = 1
    CheckpointBlock = 2
    MaxBlocks = 6
    BlocksRange = 1
    Concurrency = 1
INVARIANTS
    TypeOK
    NoUpdateMissed
PROPERTIES
    UpdateIsTaken
