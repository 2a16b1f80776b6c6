CONSTANTS
    NoNumber = NoNumber
    NoTest = NoTest
    Lines <- AllLines
    Garbage = {0, 9}
    CtrlMss = {0, 1448}
    MULTISEND = 3
SPECIFICATION Spec
INVARIANTS TypeOK OrderIrrelevant BlockUsable SettingsAgree EveryStreamSends
CHECK_DEADLOCK FALSE
