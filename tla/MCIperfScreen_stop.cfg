SPECIFICATION Spec
CONSTANTS
    MaxPairs = 2
    s1 = s1
    s2 = s2
    Scans = {s1, s2}
    NoScan = NoScan
    MaxPublished = 2
SYMMETRY ScanSymmetry
CHECK_DEADLOCK FALSE
INVARIANT StopStops
