CONSTANTS
    Configs <- MCConfigs
    MaxDuplicates = 1
    MaxPackets = 3
    MaxIntervals = 1
SPECIFICATION Spec
INVARIANTS TypeOK LossExact IntervalBytes ReportedLoss
