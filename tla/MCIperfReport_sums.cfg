CONSTANTS
    Tests <- MixedTests
    MaxRetrans = 1
    None = None
SPECIFICATION Spec
INVARIANTS TypeOK IntervalsAddUp SummaryTruthful RetransmitsTruthful SumMarks
CHECK_DEADLOCK FALSE
