\* JRuby is upgraded while a JVM runs.
SPECIFICATION Spec
CONSTANTS
    Procs = {p1, p2}
    Javas = {java17, java21}
    HasAppCds = {java17, java21}
    AutoGenerate = {java21}
    Invocations <- Plain
    MaxTime = 2
    MaxVersion = 2
    UpgradeWhileRunning = TRUE
    JvmDies = FALSE
INVARIANTS
    FreshMeansCurrent
