\* The user sets JRUBY_JSA.
SPECIFICATION Spec
CONSTANTS
    Procs = {p1, p2}
    Javas = {java17, java21}
    HasAppCds = {java17, java21}
    AutoGenerate = {java21}
    Invocations <- Overrides
    MaxTime = 2
    MaxVersion = 1
    UpgradeWhileRunning = FALSE
    JvmDies = FALSE
INVARIANTS
    OverrideHonoured
