\* Runs of three kinds of Java share the archives; JRuby is upgraded between them.
SPECIFICATION Spec
CONSTANTS
    Procs = {p1, p2}
    Javas = {java11, java17, java21}
    HasAppCds = {java17, java21}
    AutoGenerate = {java21}
    Invocations <- OptionSets
    MaxTime = 2
    MaxVersion = 2
    UpgradeWhileRunning = FALSE
    JvmDies = TRUE
SYMMETRY Symmetry
INVARIANTS
    TypeOK
    FreshMeansCurrent
    ArchiveSettles
PROPERTIES
    EnvironmentReadOnly
