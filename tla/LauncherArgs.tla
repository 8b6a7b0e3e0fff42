---------------------------- MODULE LauncherArgs ----------------------------
(***************************************************************************)
(* The ArgParser class of the Windows launcher (src/argparser.cpp): how a  *)
(* command line and the environment become the options of a JVM and the    *)
(* arguments of Ruby.  `parser' holds the fields of the object.            *)
(*                                                                         *)
(* A word of a command line is a record: `opt' says which option it is,    *)
(* `text' what else there is in it.  Words that are not an option have the *)
(* opt "plain", the empty word has "empty", every option Ruby is to read   *)
(* has "ruby".  A word -J<jvm option> has the opt "-J", and in its text    *)
(* the option's name and then its value; -J-cp and -J-classpath, whose     *)
(* value is the next word, are options of their own.  A class path is the  *)
(* sequence of its elements, and so is the path of a file or a directory:  *)
(* those between its backslashes, <<"C:", "jruby", "bin">>, where <<"">>   *)
(* is the root.                                                            *)
(***************************************************************************)
EXTENDS Selection, SequencesExt

CONSTANTS
    Present,        \* the paths that lead to a file or a directory
    LibJars,        \* per home of JRuby: the *.jar files of lib, in their order
    ModuleHomes,    \* the Java homes in which modules are found
    ModuleOptsFile, \* bin/.jruby.module_opts can be read
    JRUBY_MODULE,   \* the launcher is built for a JRuby that is a module
    Scenarios       \* the environments and command lines of a run

TakesValue == {"-Xtrace", "-Xbootclass", "-Xjdkhome", "-Xcp:p", "-Xcp:a",
               "-J-cp", "-J-classpath"}
NonOptions == {"plain", "empty", "--"}
Switches   == {"-Xfork-java", "-Xcommand", "-Xnobootclasspath", "--server",
               "--client", "--dev", "--sample", "--manage", "--headless",
               "--ng", "--ng-server", "-J", "-Xhelp", "-Xversion",
               "-Xproperties", "-Xconsole", "-Xprop", "ruby"}

Words    == {w \in [opt : TakesValue \cup NonOptions \cup Switches, text : Seq(STRING)] :
               /\ w.opt \in {"plain", "-J"} => w.text # <<>>
               /\ w.opt = "-J" => w.text[1] \notin {"-cp", "-classpath"}}
JvmWords == [opt : STRING, text : Seq(STRING)]

\* A key of the registry: the Java home it names, and the least versions that
\* its CurrentVersion satisfies.
RegistryKeys == [home : STRING, satisfies : SUBSET STRING]

\* Variables that are not set are empty.
Environments ==
    [line       : Seq(Words),      \* the command line after the program's name
     JRUBY_OPTS : Seq(Words),
     JAVA_OPTS  : Seq(JvmWords),   \* then JAVA_MEM and JAVA_STACK
     CLASSPATH  : Seq(STRING),
     VERIFY_JRUBY : BOOLEAN,
     JAVACMD    : STRING,
     JAVA_HOME  : STRING,
     JRUBY_HOME : Seq(STRING),
     PATH       : Seq(Seq(STRING)),
     JDK : RegistryKeys, JRE : RegistryKeys,
     console    : BOOLEAN,         \* started from a console
     argv0      : Seq(STRING) \ {<<>>},   \* the program as it was called
     name       : STRING,          \* its name, without path and .exe
     module     : Seq(STRING) \ {<<>>}]   \* the path of jruby.dll

ASSUME ArgsAssumption ==
    /\ Present \subseteq Seq(STRING)
    /\ \A home \in DOMAIN LibJars : LibJars[home] \in Seq(STRING)
    /\ ModuleHomes \subseteq STRING \ {""}
    /\ ModuleOptsFile \in BOOLEAN
    /\ JRUBY_MODULE \in BOOLEAN
    /\ Scenarios \subseteq Environments

VARIABLES
    env,      \* the environment this run started from
    args,     \* JRUBY_OPTS and the command line
    it,       \* the word parseArgs looks at
    doneScanning,
    parser

argVars == <<env, args, it, doneScanning, parser>>

Word(opt, text) == [opt |-> opt, text |-> text]

\* The object as PlatformLauncher's constructor leaves it.
NewParser ==
    [javaOptions |-> <<>>, progArgs |-> <<>>,
     separateProcess |-> FALSE, nailgunClient |-> FALSE,
     noBootClassPath |-> FALSE, printCommandLine |-> FALSE,
     platformDir |-> <<>>, jdkhome |-> "", bootclass |-> "",
     cpBefore |-> <<>>, cpExplicit |-> <<>>, cpAfter |-> <<>>,
     classPath |-> <<>>, bootClassPath |-> <<>>,
     addedToCP |-> {}, addedToBootCP |-> {}]

ArgsInit ==
    /\ env \in Scenarios
    /\ args = <<>> /\ it = 1 /\ doneScanning = FALSE
    /\ parser = NewParser

-----------------------------------------------------------------------------
(* Directories *)

\* checkExists: a file or a directory.
CheckExists(path) == path \in Present

\* findOnPath: the name, whatever it is, after each element; the first path that
\* leads somewhere, <<>> without one.  Of an empty element the character before its
\* first is read: if that is a separator none is put before the name.
EmptyElement == {<<>>, <<"">>}
FindOnPath(name, empty) ==
    LET At(dir) == (IF dir = <<>> THEN empty ELSE dir) \o name
        hits    == {n \in DOMAIN env.PATH : CheckExists(At(env.PATH[n]))}
    IN  IF hits = {} THEN <<>> ELSE At(env.PATH[Min(hits)])

\* The path two separators up, <<>> if there are not two.
Home(path) == IF Len(path) < 3 THEN <<>> ELSE SubSeq(path, 1, Len(path) - 2)

\* Mutant of PlatformDir: JRUBY_HOME does not end the search.
PlatformDirOnPath(empty) ==
    LET onPath == FindOnPath(env.argv0, empty)
    IN  IF onPath # <<>> THEN Home(onPath)
        ELSE IF env.JRUBY_HOME # <<>> THEN env.JRUBY_HOME ELSE Home(env.module)

\* initPlatformDir: JRUBY_HOME; or else, as the path of jruby.dll does not count as
\* found, that of what argv[0] leads to from a directory of PATH; or else
\* jruby.dll's.  <<>> where it fails.
PlatformDir(empty) ==
    LET onPath == FindOnPath(env.argv0, empty)
    IN  CASE env.JRUBY_HOME # <<>>                    -> env.JRUBY_HOME
          [] env.JRUBY_HOME = <<>> /\ onPath # <<>>   -> Home(onPath)
          [] OTHER                                    -> Home(env.module)

-----------------------------------------------------------------------------
(* parseArgs *)

\* What is read before the words are: options of the environment come first.
\* The space-separated words of JAVA_OPTS and JRUBY_OPTS are taken apart
\* (addEnvVarToOptions).
ReadEnvironment(home) ==
    /\ args' = env.JRUBY_OPTS \o env.line
    /\ parser' = [parser EXCEPT !.platformDir = home,
                                !.javaOptions = env.JAVA_OPTS,
                                !.noBootClassPath = env.VERIFY_JRUBY]
    /\ UNCHANGED <<env, it, doneScanning>>

\* The options a word has for the JVM.
ForJvm(w) ==
    CASE w.opt = "-J"          -> << Word(w.text[1], Tail(w.text)) >>
      [] w.opt = "-Xprop"      -> << Word("-Djruby.", w.text) >>
      [] w.opt = "-Xconsole"   -> << Word("-Djruby.", <<"console">>) >>
      [] w.opt = "--server"    -> << Word("-server", <<>>) >>
      [] w.opt = "--client"    -> << Word("-client", <<>>) >>
      [] w.opt = "--ng-server" -> << Word("-server", <<>>) >>
      [] w.opt = "--sample"    -> << Word("-Xprof", <<>>) >>
      [] w.opt = "--headless"  -> << Word("-Djava.awt.headless=", <<"true">>) >>
      [] w.opt = "--manage"    -> << Word("-Dcom.sun.management.jmxremote", <<>>),
                                     Word("-Djruby.", <<"management.enabled=true">>) >>
      [] w.opt = "--dev"       -> << Word("-XX:+TieredCompilation", <<>>),
                                     Word("-XX:TieredStopAtLevel=", <<"1">>),
                                     Word("-Djruby.", <<"compile.mode=OFF">>),
                                     Word("-Djruby.", <<"compile.invokedynamic=false">>) >>
      [] w.opt = "-Xhelp"      -> << Word("-Djruby.", <<"launcher.nopreamble=true">>) >>
      [] OTHER                 -> <<>>

\* The arguments an option has for Ruby.
ForRuby(w) ==
    CASE w.opt \in {"--dev", "ruby"}  -> << w >>
      [] w.opt = "-Xhelp"             -> << Word("ruby", <<"-X">>) >>
      [] w.opt = "-Xproperties"       -> << Word("ruby", <<"--properties">>) >>
      [] OTHER                        -> <<>>

EnablesAssertions(w) == w.opt = "-J" /\ w.text[1] \in {"-ea", "-enableassertions"}

ReadOption(p, w) ==
    [p EXCEPT
       !.javaOptions      = @ \o ForJvm(w),
       !.progArgs         = @ \o ForRuby(w),
       !.separateProcess  = @ \/ w.opt = "-Xfork-java",
       !.printCommandLine = @ \/ w.opt = "-Xcommand",
       !.nailgunClient    = @ \/ w.opt = "--ng",
       !.noBootClassPath  = \/ @ \/ EnablesAssertions(w)
                            \/ w.opt \in {"-Xnobootclasspath", "--ng-server"},
       !.bootclass        = IF w.opt = "--ng-server"
                            THEN "com/martiansoftware/nailgun/NGServer" ELSE @]

ReadValue(p, opt, value) ==
    CASE opt = "-Xbootclass" -> [p EXCEPT !.bootclass = value]
      [] opt = "-Xjdkhome"   -> [p EXCEPT !.jdkhome = value]
      [] opt = "-Xcp:p"      -> [p EXCEPT !.cpBefore = Append(@, value)]
      [] opt = "-Xcp:a"      -> [p EXCEPT !.cpAfter = Append(@, value)]
      [] opt \in {"-J-cp", "-J-classpath"} -> [p EXCEPT !.cpExplicit = Append(@, value)]
      [] OTHER               -> p     \* -Xtrace: see checkLoggingArg

\* Mutant of EndsScanning: a later word that is an option is one again.
EndsScanningHere(w) == w.opt \in NonOptions

\* The word and those after it are Ruby's.
EndsScanning(w) == doneScanning \/ w.opt \in NonOptions

\* CHECK_ARG: the option is the last word, or no value follows it.
ValueMissing == ~(it < Len(args) /\ args[it + 1].opt = "plain")

\* One turn of the loop.
RubyWord ==
    /\ EndsScanning(args[it])
    /\ parser' = [parser EXCEPT !.progArgs = Append(@, args[it])]
    /\ doneScanning' = TRUE
    /\ it' = it + 1

OptionWord ==
    /\ ~EndsScanning(args[it])
    /\ args[it].opt \notin TakesValue \cup {"-Xversion"}
    /\ parser' = ReadOption(parser, args[it])
    /\ it' = it + 1
    /\ UNCHANGED doneScanning

ValueWords ==
    /\ ~EndsScanning(args[it])
    /\ args[it].opt \in TakesValue /\ ~ValueMissing
    /\ parser' = ReadValue(parser, args[it].opt, args[it + 1].text[1])
    /\ it' = it + 2
    /\ UNCHANGED doneScanning

\* The words for which parseArgs returns false.
WordRefused ==
    /\ ~EndsScanning(args[it])
    /\ \/ args[it].opt = "-Xversion"
       \/ args[it].opt \in TakesValue /\ ValueMissing

-----------------------------------------------------------------------------
(* prepareOptions *)

\* The jars of platformDir's lib.
Lib(p) == IF p.platformDir \in DOMAIN LibJars THEN LibJars[p.platformDir] ELSE <<>>
InLib(p, jar) == jar \in Range(Lib(p))

\* Mutant of AddToClassPath: what is on the boot class path is not looked up.
AddToClassPathTwice(p, path) ==
    IF path \in p.addedToCP THEN p
    ELSE [p EXCEPT !.addedToCP = @ \cup {path}, !.classPath = @ \o path]

AddToClassPath(p, path) ==
    IF path \in p.addedToCP THEN p
    ELSE [p EXCEPT !.addedToCP = @ \cup {path},
                   !.classPath = IF path \in p.addedToBootCP THEN @ ELSE @ \o path]

AddToBootClassPath(p, path) ==
    IF p.noBootClassPath THEN AddToClassPath(p, path)
    ELSE IF path \in p.addedToBootCP THEN p
    ELSE [p EXCEPT !.addedToBootCP = @ \cup {path}, !.bootClassPath = @ \o path]

ConstructBootClassPath(p) ==
    LET q == [p EXCEPT !.addedToCP = {}, !.addedToBootCP = {}, !.classPath = p.cpBefore]
    IN  CASE InLib(p, "jruby.jar") -> AddToBootClassPath(q, <<"jruby.jar">>)
          [] ~InLib(p, "jruby.jar") /\ InLib(p, "jruby-complete.jar")
                -> AddToBootClassPath(q, <<"jruby-complete.jar">>)
          [] OTHER -> q

\* The jars of lib, then -J-cp or else CLASSPATH, then -Xcp:a, and at the end the
\* working directory as an empty element.
ConstructClassPath(p) ==
    LET jars     == [j \in DOMAIN Lib(p) |-> << Lib(p)[j] >>]
        withJars == FoldLeft(AddToClassPath, p, jars)
        chosen   == IF p.cpExplicit = <<>> THEN env.CLASSPATH ELSE p.cpExplicit
        withPath == IF chosen = <<>> THEN withJars ELSE AddToClassPath(withJars, chosen)
        path     == IF p.cpAfter = <<>> THEN withPath.classPath
                    ELSE (IF withPath.classPath = <<>> THEN <<"">> ELSE withPath.classPath)
                         \o p.cpAfter
    IN  [p EXCEPT !.addedToCP = withPath.addedToCP,
                  !.classPath = IF path = <<>> THEN <<>> ELSE Append(path, "")]

\* Mutant of UseModulePath: JAVA_HOME is asked, not the home that was chosen.
UseModulePathOfJavaHome(p) == env.JAVA_HOME \in ModuleHomes

UseModulePath(p) == p.jdkhome \in ModuleHomes

ModuleOptions ==
    IF ModuleOptsFile THEN << Word("@", <<"bin/.jruby.module_opts">>) >>
    ELSE IF JRUBY_MODULE THEN << Word("--add-opens", <<"org.jruby.dist">>) >>
    ELSE <<>>

\* The launcher's own options.  `user' are the options of setupMaxHeapAndStack:
\* the default stack size is left out if they have one.
DefaultOptions(p, user) ==
    << Word("-Djdk.home=", <<p.jdkhome>>), Word("-Djruby.home=", p.platformDir),
       Word("-Djruby.script=", <<"jruby">>), Word("-Djruby.shell=", <<"cmd.exe">>),
       Word("-Djffi.boot.library.path=", <<"lib/jni">>) >>
    \o (IF \E j \in DOMAIN user : user[j].opt = "-Xss" THEN <<>>
        ELSE << Word("-Xss", <<"2048k">>) >>)
    \o << Word("-Dsun.java.command=", <<p.bootclass>>) >>
    \o (IF p.bootClassPath = <<>> THEN <<>>
        ELSE << Word(IF UseModulePath(p) /\ JRUBY_MODULE
                     THEN "--module-path=" ELSE "-Xbootclasspath/a:", p.bootClassPath) >>)
    \o (IF UseModulePath(p) THEN ModuleOptions ELSE <<>>)
    \o << Word(IF p.separateProcess THEN "-cp" ELSE "-Djava.class.path=", p.classPath) >>

\* Mutant of Combine: the launcher's options come last.
CombineUserFirst(defaults, user) == user \o defaults

Combine(defaults, user) == defaults \o user

PrepareOptions(p) ==
    LET q == [ConstructClassPath(ConstructBootClassPath(p)) EXCEPT
                 !.bootclass = IF @ = "" THEN "org/jruby/Main" ELSE @]
    IN  [q EXCEPT !.javaOptions = Combine(DefaultOptions(q, p.javaOptions), p.javaOptions)]
=============================================================================
