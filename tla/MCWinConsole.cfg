\* jrubyw with a console mode.
SPECIFICATION Spec
CONSTANTS
    Present <- MCPresent
    LibJars <- MCLibJars
    ModuleHomes = {"java17"}
    ModuleOptsFile = FALSE
    JRUBY_MODULE = TRUE
    Scenarios <- ConsoleScenarios
    JRUBYW = TRUE
    Install <- MCInstall
    Versions = {"", "1.5"}
    INT_MAX = 127
    JvmStatus = {0, 3, 255}
INVARIANTS
    ConsoleModeConsumed
