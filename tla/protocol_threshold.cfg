SPECIFICATION Spec
CONSTANTS
    Configs = {c1}
    Thresholds = {1, 2}
    NoConfig = NoConfig
    NoBlock = NoBlock
    EventBlock = 1
    CheckpointBlock = 2
    MaxBlocks = 4
    BlocksRange = 1
    Concurrency = 1
PROPERTIES
    ThresholdAsOfBlock
