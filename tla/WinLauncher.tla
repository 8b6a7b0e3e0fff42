----------------------------- MODULE WinLauncher -----------------------------
(***************************************************************************)
(* The Windows launcher from main() to its exit status: jruby.exe or       *)
(* jrubyw.exe (jrubyexe.cpp, nbexecloader.h), PlatformLauncher in          *)
(* jruby.dll (platformlauncher.cpp), which reads the command line with     *)
(* LauncherArgs, and JvmLauncher (jvmlauncher.cpp), which finds a Java and *)
(* runs it in this process or in another one.                              *)
(*                                                                         *)
(* The program is sequential.  What it meets is not: the environment, the  *)
(* Javas installed and registered, the user's answers to its message       *)
(* boxes, DLLs and processes that cannot be loaded or started, and the     *)
(* status the JVM ends with.                                               *)
(***************************************************************************)
EXTENDS LauncherArgs

CONSTANTS
    JRUBYW,     \* TRUE: jrubyw.exe; FALSE: jruby.exe
    Install,    \* per Java home: the files under \jre and directly under it
    Versions,   \* the strings isVersionString takes for a number
    INT_MAX,    \* the greatest int
    JvmStatus   \* the statuses a JVM can end with, DWORDs

JrePrefixes == {"jre", ""}
Files    == {"java", "javaw", "client", "server"}   \* java.exe .. server\jvm.dll

ASSUME WinAssumption ==
    /\ JRUBYW \in BOOLEAN
    /\ \A h \in DOMAIN Install : Install[h] \in [JrePrefixes -> SUBSET Files]
    /\ {"", "1.5"} \subseteq Versions
    /\ INT_MAX \in Nat
    /\ JvmStatus \subseteq 0 .. 2 * INT_MAX + 1

VARIABLES
    pc,
    exeArgv,          \* argv of main()
    console,          \* isConsoleAttached()
    suppressConsole,
    deleted,          \* the file checkLoggingArg deleted: <<>> or <<name>>
    jvm,              \* JvmLauncher's paths
    java,             \* the command that is printed, <<>> if there is none
    child,            \* what was started in the end
    exitCode

winVars == <<exeArgv, console, suppressConsole, deleted, jvm, java, child>>
vars    == <<argVars, pc, winVars, exitCode>>

NoJvm   == [exe |-> <<>>, javaw |-> <<>>, client |-> FALSE, server |-> FALSE]
NoChild == [how |-> "none", exe |-> <<>>, options |-> <<>>, main |-> "",
            arguments |-> <<>>, status |-> 0]

FAILED == -1

Init ==
    /\ ArgsInit
    /\ pc = "main" /\ exeArgv = env.line /\ console = env.console
    /\ suppressConsole = FALSE
    /\ deleted = <<>> /\ jvm = NoJvm /\ java = <<>> /\ child = NoChild
    /\ exitCode = 0

Exit(code) == pc' = "exited" /\ exitCode' = code

-----------------------------------------------------------------------------
(* jruby.exe *)

First(ws, opt) == LET at == {j \in DOMAIN ws : ws[j].opt = opt}
                  IN  IF at = {} THEN Len(ws) + 1 ELSE Min(at)

\* checkLoggingArg: the word after the first -Xtrace, if it is before any `--'.
TraceFile(ws) ==
    LET j == First(ws, "-Xtrace")
    IN  IF j < First(ws, "--") /\ j < Len(ws) /\ ws[j + 1].opt \in {"plain", "empty"}
        THEN ws[j + 1].text ELSE <<>>

\* main() deletes an old log.
CheckLoggingArg ==
    /\ pc = "main"
    /\ deleted' = TraceFile(exeArgv)
    /\ pc' = IF JRUBYW /\ ~console THEN "setup" ELSE "load"
    /\ UNCHANGED <<argVars, exeArgv, console, suppressConsole, jvm, java, child, exitCode>>

\* setupProcess of jrubyw.exe: -Xconsole and its value leave argv.
SetupProcess ==
    /\ pc = "setup"
    /\ LET j    == First(exeArgv, "-Xconsole")
           mode == IF j < Len(exeArgv) THEN exeArgv[j + 1] ELSE Word("none", <<>>)
       IN  \/ /\ j > First(exeArgv, "--") \/ j > Len(exeArgv)
              /\ pc' = "load"
              /\ UNCHANGED <<console, exeArgv, exitCode>>
           \/ /\ j < First(exeArgv, "--")
              /\ j = Len(exeArgv) \/ mode.text \notin {<<"new">>, <<"suppress">>, <<"attach">>}
              /\ Exit(FAILED)
              /\ UNCHANGED <<console, exeArgv>>
           \/ /\ j < First(exeArgv, "--")
              /\ mode.text \in {<<"new">>, <<"suppress">>, <<"attach">>}
              /\ CASE mode.text = <<"new">>      -> console' = TRUE
                   [] mode.text = <<"attach">>   -> console' \in BOOLEAN
                   [] mode.text = <<"suppress">> -> UNCHANGED console
              /\ exeArgv' = SubSeq(exeArgv, 1, j - 1) \o SubSeq(exeArgv, j + 2, Len(exeArgv))
              /\ pc' = "load"
              /\ UNCHANGED exitCode
    /\ UNCHANGED <<argVars, suppressConsole, deleted, jvm, java, child>>

\* jruby.dll is loaded, and startPlatform called.
LoadPlatform ==
    /\ pc = "load"
    /\ \/ /\ pc' = "start"
          /\ suppressConsole' = ~console
          /\ UNCHANGED exitCode
       \/ /\ Exit(FAILED)
          /\ UNCHANGED suppressConsole
    /\ UNCHANGED <<argVars, exeArgv, console, deleted, jvm, java, child>>

-----------------------------------------------------------------------------
(* PlatformLauncher::start *)

\* It takes the command line from the system, not from main().
Start ==
    /\ pc = "start"
    /\ \E empty \in EmptyElement :
         IF PlatformDir(empty) = <<>>
         THEN Exit(FAILED) /\ UNCHANGED argVars
         ELSE /\ pc' = "parse" /\ ReadEnvironment(PlatformDir(empty))
              /\ UNCHANGED exitCode
    /\ UNCHANGED winVars

ParseWord ==
    /\ pc = "parse" /\ it <= Len(args)
    /\ \/ (RubyWord \/ OptionWord \/ ValueWords) /\ UNCHANGED <<pc, exitCode>>
       \/ WordRefused /\ Exit(FAILED) /\ UNCHANGED <<it, doneScanning, parser>>
    /\ UNCHANGED <<env, args, winVars>>

ParseEnds ==
    /\ pc = "parse" /\ it > Len(args)
    /\ pc' = "jdkhome"
    /\ UNCHANGED <<argVars, winVars, exitCode>>

\* Whether there is a Java under a home's prefix, and where its files are.
FilesIn(home, prefix) == IF home \in DOMAIN Install THEN Install[home][prefix] ELSE {}
IsJava(home, prefix)  == FilesIn(home, prefix) \cap {"java", "client", "server"} # {}

CheckJava(home, prefix) ==
    IF ~IsJava(home, prefix) THEN NoJvm
    ELSE [exe    |-> <<home, prefix, "java">>,
          javaw  |-> <<home, prefix, IF "javaw" \in FilesIn(home, prefix)
                                     THEN "javaw" ELSE "java">>,
          client |-> "client" \in FilesIn(home, prefix),
          server |-> "server" \in FilesIn(home, prefix)]

\* findJava: the registry's JDK with a jre directory, or else its JRE.
FindJava(minVersion) ==
    LET Look(key, prefix) == IF minVersion \in key.satisfies
                             THEN CheckJava(key.home, prefix) ELSE NoJvm
    IN  IF Look(env.JDK, "jre") # NoJvm THEN Look(env.JDK, "jre") ELSE Look(env.JRE, "")

\* initialize: its argument is a home, unless it looks like a version.
Initialize(homeOrVersion) ==
    IF homeOrVersion \in Versions THEN FindJava(homeOrVersion)
    ELSE IF IsJava(homeOrVersion, "jre") THEN CheckJava(homeOrVersion, "jre")
    ELSE CheckJava(homeOrVersion, "")

\* "Do you want to try to use default version?"  With a console nobody asks.
AnswersYes == ~console

\* checkJDKHome: the home given by -Xjdkhome.
CheckJDKHome ==
    /\ pc = "jdkhome"
    /\ jvm' = IF parser.jdkhome = "" THEN jvm ELSE Initialize(parser.jdkhome)
    /\ \/ /\ parser.jdkhome # "" /\ jvm' = NoJvm
          /\ Exit(FAILED)
          /\ parser' = [parser EXCEPT !.jdkhome = ""]
       \/ /\ parser.jdkhome # "" /\ jvm' = NoJvm /\ AnswersYes
          /\ pc' = "java_home"
          /\ parser' = [parser EXCEPT !.jdkhome = ""]
          /\ UNCHANGED exitCode
       \/ /\ parser.jdkhome = "" \/ jvm' # NoJvm
          /\ pc' = "java_home"
          /\ UNCHANGED <<parser, exitCode>>
    /\ UNCHANGED <<env, args, it, doneScanning, exeArgv, console, suppressConsole,
                   deleted, java, child>>

\* Mutant of AsksJavaHome: JAVA_HOME is looked at in any case.
AsksJavaHomeAlways == env.JAVA_HOME # ""

AsksJavaHome == parser.jdkhome = "" /\ env.JAVA_HOME # ""

\* checkJDKHome: JAVA_HOME.
CheckJavaHome ==
    /\ pc = "java_home"
    /\ jvm' = IF AsksJavaHome THEN Initialize(env.JAVA_HOME) ELSE jvm
    /\ \/ /\ AsksJavaHome /\ jvm' = NoJvm
          /\ Exit(FAILED)
          /\ UNCHANGED parser
       \/ /\ AsksJavaHome => (jvm' # NoJvm \/ AnswersYes)
          /\ parser' = IF AsksJavaHome /\ jvm' # NoJvm
                       THEN [parser EXCEPT !.jdkhome = env.JAVA_HOME] ELSE parser
          /\ pc' = IF parser.nailgunClient THEN "nailgun" ELSE "name"
          /\ UNCHANGED exitCode
    /\ UNCHANGED <<env, args, it, doneScanning, exeArgv, console, suppressConsole,
                   deleted, java, child>>

\* Mutant of OnlyPrints: -Xcommand is not asked about.
NeverOnlyPrints == FALSE

\* -Xcommand
OnlyPrints == parser.printCommandLine

\* The nailgun client runs NailMain with Ruby's arguments and never returns.
NailMain == Word("plain", <<"org.jruby.util.NailMain">>)
StartNailgun ==
    /\ pc = "nailgun"
    /\ parser' = [parser EXCEPT !.progArgs = <<NailMain>> \o @]
    /\ IF OnlyPrints
       THEN Exit(0) /\ UNCHANGED child
       ELSE /\ child' = [NoChild EXCEPT !.how = "nailgun", !.arguments = parser'.progArgs]
            /\ pc' = "running"
            /\ UNCHANGED exitCode
    /\ UNCHANGED <<env, args, it, doneScanning, exeArgv, console, suppressConsole,
                   deleted, jvm, java>>

\* A program whose name does not begin with jruby runs the script of that name.
AddScriptName ==
    /\ pc = "name"
    /\ parser' = IF env.name = "jruby" THEN parser
                 ELSE [parser EXCEPT !.progArgs =
                         << Word("ruby", <<"-S">>), Word("plain", <<env.name>>) >> \o @]
    /\ pc' = "java"
    /\ UNCHANGED <<env, args, it, doneScanning, winVars, exitCode>>

\* The home of the java.exe on PATH is two separators up; without a second one it is
\* all of the path, or nothing for the root's.  Java homes are named by the last
\* element of their path.
PathHome(path) ==
    IF Len(path) > 2 THEN path[Len(path) - 2]
    ELSE IF Len(path) = 2 /\ path[1] = "" THEN ""
    ELSE Last(path)

\* JAVACMD, or the home there is, or else the java.exe on PATH.
\* `return 255' is TRUE to startPlatform: success.
ChooseJava ==
    /\ pc = "java"
    /\ IF env.JAVACMD # ""
       THEN /\ java' = <<env.JAVACMD>>
            /\ jvm' = [NoJvm EXCEPT !.exe = <<env.JAVACMD>>]
            /\ parser' = [parser EXCEPT !.separateProcess = TRUE]
            /\ suppressConsole' = FALSE
       ELSE \E empty \in EmptyElement :
            LET given  == IF parser.jdkhome # "" THEN parser.jdkhome ELSE env.JAVA_HOME
                onPath == FindOnPath(<<"java.exe">>, empty)
                home   == CASE given # ""                  -> given
                            [] given = "" /\ onPath = <<>> -> ""
                            [] OTHER                       -> PathHome(onPath)
            IN  /\ java' = IF given # "" THEN <<given, "", "java">> ELSE onPath
                /\ jvm' = IF parser.jdkhome = "" THEN Initialize("1.5") ELSE jvm
                /\ parser' = [parser EXCEPT !.jdkhome = home]
                /\ UNCHANGED suppressConsole
    /\ IF java' = <<>> THEN Exit(0) ELSE pc' = "prepare" /\ UNCHANGED exitCode
    /\ UNCHANGED <<env, args, it, doneScanning, exeArgv, console, deleted, child>>

\* prepareOptions; with -Xcommand the command is printed and that is all.
Prepare ==
    /\ pc = "prepare"
    /\ parser' = PrepareOptions(parser)
    /\ IF OnlyPrints THEN Exit(0) ELSE pc' = "launch" /\ UNCHANGED exitCode
    /\ UNCHANGED <<env, args, it, doneScanning, winVars>>

-----------------------------------------------------------------------------
(* JvmLauncher::start, and PlatformLauncher::run around it: unless the JVM   *)
(* was to have its own process, run() ends this one with exit(0), whatever   *)
(* came of it.                                                               *)
Failure == Exit(IF parser.separateProcess THEN FAILED ELSE 0)

\* Mutant of Launch: what the registry's search returns is not looked at.
LaunchAnyway ==
    /\ pc = "launch"
    /\ jvm' = IF jvm = NoJvm THEN Initialize("") ELSE jvm
    /\ pc' = IF parser.separateProcess THEN "outproc" ELSE "dll"
    /\ UNCHANGED <<argVars, exeArgv, console, suppressConsole, deleted, java, child, exitCode>>

\* "try to find out any java installed"
Launch ==
    /\ pc = "launch"
    /\ jvm' = IF jvm = NoJvm THEN Initialize("") ELSE jvm
    /\ IF jvm' = NoJvm THEN Failure
       ELSE /\ pc' = IF parser.separateProcess THEN "outproc" ELSE "dll"
            /\ UNCHANGED exitCode
    /\ UNCHANGED <<argVars, exeArgv, console, suppressConsole, deleted, java, child>>

\* A jvm.dll that cannot be loaded, or is not there: "Falling back to running
\* Java in a separate process".
LoadJavaDll ==
    /\ pc = "dll"
    /\ \/ /\ jvm.client \/ jvm.server
          /\ pc' = "inproc"
          /\ UNCHANGED parser
       \/ /\ pc' = "outproc"
          /\ parser' = [parser EXCEPT !.separateProcess = TRUE]
    /\ UNCHANGED <<env, args, it, doneScanning, winVars, exitCode>>

\* The client VM, unless the server VM is asked for or is the only one.
JavaDll ==
    LET asked == \E j \in DOMAIN parser.javaOptions : parser.javaOptions[j].opt = "-server"
    IN  IF jvm.server /\ (asked \/ ~jvm.client) THEN "server" ELSE "client"

\* Mutant of ForJvmDll: the options go to the DLL as they are.
ForJvmDllAll(w) == TRUE

\* -server and -client are not options of the DLL.
ForJvmDll(w) == w.opt \notin {"-server", "-client"}

ForDll(options) == Selected(options, {j \in DOMAIN options : ForJvmDll(options[j])})

\* startInProcJvm: the JVM is made and main() called, or that fails.
StartInProcJvm ==
    /\ pc = "inproc"
    /\ \/ /\ child' = [how |-> "inproc", exe |-> <<jvm.exe[1], jvm.exe[2], JavaDll>>,
                       options |-> ForDll(parser.javaOptions),
                       main |-> parser.bootclass, arguments |-> parser.progArgs,
                       status |-> 0]
          /\ pc' = "running"
          /\ UNCHANGED exitCode
       \/ Failure /\ UNCHANGED child
    /\ UNCHANGED <<argVars, exeArgv, console, suppressConsole, deleted, jvm, java>>

NotClient(w) == w # Word("ruby", <<"-client">>)
ForChild(arguments) ==
    Selected(arguments, {j \in DOMAIN arguments : jvm.client \/ NotClient(arguments[j])})

\* startOutProcJvm: without a client jvm.dll it removes -client from Ruby's
\* arguments.  The command line may be too long, or the process not be created.
StartOutProcJvm ==
    /\ pc = "outproc"
    /\ LET exe == IF suppressConsole THEN jvm.javaw ELSE jvm.exe
       IN  \/ /\ Len(exe) = 3 => exe[3] \in FilesIn(exe[1], exe[2])
              /\ child' = [how |-> "outproc", exe |-> exe,
                           options |-> parser.javaOptions, main |-> parser.bootclass,
                           arguments |-> ForChild(parser.progArgs), status |-> 0]
              /\ pc' = "running"
              /\ UNCHANGED exitCode
           \/ Failure /\ UNCHANGED child
    /\ UNCHANGED <<argVars, exeArgv, console, suppressConsole, deleted, jvm, java>>

\* Mutant of LauncherStatus: the child's status is not read.
LauncherStatusZero(status) == 0

\* GetExitCodeProcess, and the DWORD as startPlatform's int.  A JVM in this process
\* ends it itself, or main() returns and run() does with 0.
LauncherStatus(status) ==
    IF status <= INT_MAX THEN status ELSE status - 2 * (INT_MAX + 1)

JvmEnds ==
    /\ pc = "running"
    /\ \E status \in JvmStatus :
         /\ child' = [child EXCEPT !.status = status]
         /\ Exit(LauncherStatus(status))
    /\ UNCHANGED <<argVars, exeArgv, console, suppressConsole, deleted, jvm, java>>

Exited == pc = "exited" /\ UNCHANGED vars

Next ==
    \/ CheckLoggingArg \/ SetupProcess \/ LoadPlatform
    \/ Start \/ ParseWord \/ ParseEnds \/ CheckJDKHome \/ CheckJavaHome
    \/ StartNailgun \/ AddScriptName \/ ChooseJava \/ Prepare
    \/ Launch \/ LoadJavaDll \/ StartInProcJvm \/ StartOutProcJvm \/ JvmEnds
    \/ Exited

Spec == Init /\ [][Next]_vars

-----------------------------------------------------------------------------
(* Properties. *)

Paths == Seq(STRING)
ParserTypes ==
    /\ parser.javaOptions \in Seq(JvmWords) /\ parser.progArgs \in Seq(Words)
    /\ \A flag \in {"separateProcess", "nailgunClient", "noBootClassPath",
                    "printCommandLine"} : parser[flag] \in BOOLEAN
    /\ \A path \in {"cpBefore", "cpExplicit", "cpAfter", "classPath",
                    "bootClassPath"} : parser[path] \in Paths
    /\ parser.platformDir \in Paths
    /\ \A name \in {"jdkhome", "bootclass"} : parser[name] \in STRING
ArgTypes ==
    /\ env \in Environments /\ args \in Seq(Words)
    /\ it \in 1 .. Len(args) + 1
    /\ doneScanning \in BOOLEAN
JvmTypes ==
    /\ jvm \in [exe : Paths, javaw : Paths, client : BOOLEAN, server : BOOLEAN]
    /\ java \in Paths
    /\ child \in [how : {"none", "inproc", "outproc", "nailgun"}, exe : Paths,
                  options : Seq(JvmWords), main : STRING, arguments : Seq(Words),
                  status : JvmStatus \cup {0}]

\* Every variable keeps its type; in particular parseArgs never leaves the
\* argument list, and only something that was found is started (jvmlauncher.cpp).
TypeOK ==
    /\ ArgTypes /\ ParserTypes /\ JvmTypes
    /\ exeArgv \in Seq(Words) /\ deleted \in Paths
    /\ console \in BOOLEAN /\ suppressConsole \in BOOLEAN
    /\ exitCode \in -INT_MAX - 1 .. INT_MAX
    /\ child.how # "none" /\ child.how # "nailgun" => child.exe # <<>>

\* The place of the first word that is neither an option nor an option's value.
ScriptAt(ws) ==
    LET starts == {j \in DOMAIN ws : /\ ws[j].opt \in NonOptions
                                     /\ ~(j > 1 /\ ws[j - 1].opt \in TakesValue)}
    IN  IF starts = {} THEN Len(ws) + 1 ELSE Min(starts)
Script(ws)       == SubSeq(ws, ScriptAt(ws), Len(ws))
OptionPart(ws)   == SubSeq(ws, 1, ScriptAt(ws) - 1)
LauncherWords    == {NailMain, Word("plain", <<env.name>>)}
Parsed == pc \notin {"main", "setup", "load", "start", "parse", "exited"}

\* "stops argument processing on first non-option argument": the script and
\* everything after it are Ruby's arguments as they are, whatever they look like,
\* and no option's value becomes the script (parseArgs, and what start() puts
\* before it).
ScriptArgsIntact ==
    Parsed =>
        /\ IsSuffix(Script(args), parser.progArgs)
        /\ \A j \in 1 .. Len(parser.progArgs) - Len(Script(args)) :
             parser.progArgs[j].opt \in NonOptions => parser.progArgs[j] \in LauncherWords

\* What the user says of an option of the JVM: the environment's words, and then
\* the -J words.
SaidByEnv(opt)  == Where(env.JAVA_OPTS, {opt})
SaidByLine(opt) == {n \in DOMAIN OptionPart(args) : args[n].opt = "-J" /\ args[n].text[1] = opt}
UserSays(opt)   == IF SaidByLine(opt) # {} THEN Tail(args[Max(SaidByLine(opt))].text)
                   ELSE env.JAVA_OPTS[Max(SaidByEnv(opt))].text

\* "should place user-supplied options after default options": of an option that
\* the launcher sets itself, the JVM, which believes the last, gets the user's
\* last word (prepareOptions, setupMaxHeapAndStack).
UserHasLastWord ==
    child.how \in {"inproc", "outproc"} =>
        \A opt \in {"-Xss", "-Djruby.home="} :
            SaidByEnv(opt) \cup SaidByLine(opt) # {} =>
                LET given == Where(child.options, {opt})
                IN  given # {} /\ child.options[Max(given)].text = UserSays(opt)

GivenHomes == {j \in 2 .. Len(args) : args[j - 1].opt = "-Xjdkhome" /\ j < ScriptAt(args)}

\* A home in which there is a Java, and a version for which the registry has one.
Usable(home) == home \notin Versions /\ \E prefix \in JrePrefixes : IsJava(home, prefix)
Satisfied(version) ==
    /\ version \in Versions \ {""}
    /\ \/ version \in env.JDK.satisfies /\ IsJava(env.JDK.home, "jre")
       \/ version \in env.JRE.satisfies /\ IsJava(env.JRE.home, "")

\* The last word given by -Xjdkhome, "" if there is none.
GivenHome == IF GivenHomes = {} THEN "" ELSE args[Max(GivenHomes)].text[1]

\* "should use -Xjdkhome argument above JAVA_HOME", and JAVACMD above both: the
\* Java that is started is the first of JAVACMD, the last -Xjdkhome, JAVA_HOME and
\* the registry's that is there, however the user answers; a version in place of
\* a home stands for the registry's Java (checkJDKHome, start, initialize).
JavaPrecedence ==
    child.how \in {"inproc", "outproc"} =>
        CASE env.JAVACMD # "" -> child.exe = <<env.JAVACMD>>
          [] env.JAVACMD = "" /\ Usable(GivenHome) -> child.exe[1] = GivenHome
          [] /\ env.JAVACMD = "" /\ ~Usable(GivenHome) /\ ~Satisfied(GivenHome)
             /\ Usable(env.JAVA_HOME)
                -> child.exe[1] = env.JAVA_HOME
          [] OTHER -> child.exe[1] \in {env.JDK.home, env.JRE.home}

\* What argv[0] leads to from a directory of PATH is a program next to jruby.dll,
\* called by its bare name, and PATH has no empty element.
OwnOnPath ==
    \A dir \in Range(env.PATH) :
        /\ dir # <<>>
        /\ CheckExists(dir \o env.argv0) =>
               Len(env.argv0) = 1 /\ dir = SubSeq(env.module, 1, Len(env.module) - 1)

\* The JRuby that is started is that of JRUBY_HOME, or the one the launcher belongs
\* to.  Excluded is what the search on PATH by initPlatformDir makes of another entry
\* of the launcher's name there, of an empty element, and of a program called by a
\* path: .\jruby is found in the launcher's own directory, if that is on PATH, and
\* the home is then the directory itself.
HomeIsOwn ==
    LET given == Where(child.options, {"-Djruby.home="})
    IN  child.how \in {"inproc", "outproc"} =>
            LET home == child.options[Min(given)].text
            IN  /\ env.JRUBY_HOME # <<>> => home = env.JRUBY_HOME
                /\ env.JRUBY_HOME = <<>> /\ OwnOnPath => home = Home(env.module)

\* The options for modules go to a Java with modules and to no other, and JRuby is
\* not on the boot class path of one, if the user named the Java by -Xjdkhome or
\* JAVA_HOME.  With JAVACMD, or a Java of the registry, the options are chosen by a
\* home (JAVA_HOME's, that of the java.exe on PATH) which is not that of the Java
\* that runs (ChooseJava, useModulesIfPresent).
OptionsFitJava ==
    LET Has(opts) == \E j \in DOMAIN child.options : child.options[j].opt \in opts
    IN  /\ child.how \in {"inproc", "outproc"}
        /\ env.JAVACMD = "" /\ ~Satisfied(GivenHome)
        /\ Usable(GivenHome) \/ Usable(env.JAVA_HOME)
        => LET modular == child.exe[1] \in ModuleHomes
           IN  /\ Has({"--module-path=", "--add-opens", "@"}) => modular
               /\ modular /\ JRUBY_MODULE =>
                    Has({"--add-opens", "@"}) /\ ~Has({"-Xbootclasspath/a:"})

\* The launcher puts every jar of lib in one place: on the boot class path (or module
\* path) or the class path, and never on both.  It is there again only as often as the
\* user names it by -Xcp:p and -Xcp:a, or in a -J-cp or CLASSPATH of several elements,
\* which are not compared; one that is the jar alone is (prepareOptions).
Times(x, s) == Cardinality({j \in DOMAIN s : s[j] = x})
JarsOnce ==
    LET chosen == IF parser.cpExplicit = <<>> THEN env.CLASSPATH ELSE parser.cpExplicit
    IN  pc \in {"launch", "dll", "inproc", "outproc"} =>
            \A jar \in Range(Lib(parser)) :
                Times(jar, parser.bootClassPath) + Times(jar, parser.classPath)
                  = 1 + Times(jar, parser.cpBefore) + Times(jar, parser.cpAfter)
                      + (IF chosen = <<jar>> THEN 0 ELSE Times(jar, chosen))

\* "-cp", "-server" and "-client" are options of the java command, and jvm.dll,
\* told not to ignore what it does not know, fails on them: it gets none of them,
\* unless JAVA_OPTS has a -cp, though where the JVM is to run is settled after the
\* options are (start, Jvm::init).
InProcessOptions ==
    child.how = "inproc" =>
        /\ Where(child.options, {"-server", "-client"}) = {}
        /\ Where(child.options, {"-cp"}) # {} => Where(env.JAVA_OPTS, {"-cp"}) # {}

\* "-Xcommand: just print the equivalent java command and exit", "-Xversion: print
\* launcher's version": with them, or an option's value missing, nothing is started,
\* and it is the nailgun client that is if and only if --ng is an option (start).
StartsOnlyWhenAsked ==
    child.how # "none" =>
        /\ \A j \in DOMAIN OptionPart(args) :
             /\ args[j].opt \notin {"-Xcommand", "-Xversion"}
             /\ args[j].opt \in TakesValue => args[j + 1].opt = "plain"
        /\ child.how = "nailgun" <=> \E j \in DOMAIN OptionPart(args) : args[j].opt = "--ng"

\* The shell sees the status of the JVM or of the nailgun client, as an int with the
\* same bits; -1 says that nothing was started, or that a child ended with the greatest
\* DWORD.  If nothing was started 0 says that -Xcommand asked for that, that there is
\* no Java on PATH (`return 255'), or that a JVM that was to run in this process could
\* not (run, startPlatform).
StatusReported ==
    pc = "exited" =>
        /\ child.how # "none" =>
              /\ exitCode \in -INT_MAX - 1 .. INT_MAX
              /\ exitCode \in {child.status, child.status - 2 * (INT_MAX + 1)}
        /\ exitCode = FAILED => child.how = "none" \/ child.status = 2 * INT_MAX + 1
        /\ child.how = "none" /\ exitCode = 0 =>
              \/ java = <<>> \/ ~parser.separateProcess
              \/ \E j \in DOMAIN OptionPart(args) : args[j].opt = "-Xcommand"

\* "remove options": what setupProcess took out of the command line is not part of
\* the one that is parsed.
ConsoleModeConsumed ==
    Parsed => args = env.JRUBY_OPTS \o exeArgv

\* "stops argument processing on first non-option argument": only an option of
\* the launcher names the log it deletes (checkLoggingArg).
TraceOnlyFromOptions ==
    deleted # <<>> =>
        \E j \in DOMAIN OptionPart(env.line) : env.line[j].opt = "-Xtrace"
=============================================================================
