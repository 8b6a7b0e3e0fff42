\* Every launch with one script, among installs and deletions, and every command
\* line and machine from one launch.
SPECIFICATION Spec
CONSTANTS
    Dirs <- MCDirs
    Cwd = "/home"
    Root = "/"
    Launches <- AllLaunches
    MaxChanges = 2
    Javas <- MCJavas
    MinimumJava = 8
    JrubyJars <- MCJrubyJars
    OtherJars <- MCOtherJars
    JrubyMain = "org.jruby.Main"
    Scenarios <- MCScenarios
    Runs <- MCRuns
INVARIANTS
    TypeOK
    FindsItself
    MainScriptFirst
    FailsWithoutScripts
    RubyArgsIntact
    MemoryAsSaid
    CascadeInOrder
    FlagsFitJava
    JRubyLoadedOnce
    SucceedsOnlyByRunning
