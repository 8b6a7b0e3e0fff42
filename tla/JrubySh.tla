------------------------------ MODULE JrubySh ------------------------------
(***************************************************************************)
(* The start script of Unix (src/exe/jruby.sh): which Java is run, and how *)
(* the files of Java options, the environment and the command line become  *)
(* its command.  Of the options for the archive there is here what ends    *)
(* the script or what Ruby gets, the flags and files of the archive are    *)
(* AppCds's; Cygwin and MinGW are left out.  `sh' holds the script's       *)
(* variables.                                                              *)
(*                                                                         *)
(* A word is a record as in LauncherArgs: `opt' says which option it is,   *)
(* `text' what else there is in it.  A word that is not an option has the  *)
(* opt "plain", every option that only Ruby reads has "ruby", and every    *)
(* -J<option> without a case of its own "-Jopt", its text being the JVM's. *)
(***************************************************************************)
EXTENDS Integers, SequencesExt, Selection

CONSTANTS
    Javas,        \* the Java homes of the machine
    MinimumJava,  \* bin/.java-version, or 8 without one
    JrubyJars,    \* those of jruby.jar, jruby-complete.jar that are in lib
    OtherJars,    \* the other jars of lib
    JrubyMain,    \* the main class .jruby.release names; org.jruby.main without
    Scenarios     \* environments and command lines of a run

OptionFiles == {"installed", "home", "pwd", "dev", "module"}
TakesValue  == {"-C", "-e", "-I", "-S"}
NotOptions  == {"plain", "--"}
JavaAsks    == {"-J", "-J-X"}
Ignored     == {"--client", "--server", "--noclient", "--1.8", "--1.9", "--2.0"}

\* What is at a home of Java: the home its bin/java is a link into, or itself; the
\* version the file `release' names, 0 without one; the version it is; whether
\* modules are seen there (lib/modules, or in `release'); and whether it has archives
\* of its own (lib/server/*.jsa).
JavaRecords == [real : DOMAIN Javas, release : Nat, version : Nat, modules : BOOLEAN,
                jsa : BOOLEAN]

\* The text of a "-Jopt" begins with the option, which is none with a case of its own.
OwnCases == {"-Xmx", "-Xss", "-cp", "-classpath", "-ea", "-Djava.security.egd="}

ShWords == {w \in [opt : STRING, text : Seq(STRING)] :
              w.opt = "-Jopt" => w.text # <<>> /\ w.text[1] \notin OwnCases}

\* Variables that are not set are empty.
ShEnvironments ==
    [line       : Seq(ShWords),
     JRUBY_OPTS : Seq(ShWords),
     JAVA_OPTS  : Seq(ShWords),
     JAVA_MEM   : Seq(ShWords),
     JAVA_STACK : Seq(ShWords),
     CLASSPATH  : Seq(STRING),
     CP         : Seq(STRING),      \* the script's own variable, if it is inherited
     JRUBY_PARENT_CLASSPATH : Seq(STRING),
     JAVACMD    : STRING,           \* each the home of a Java, "" if it is not set,
     JAVA_HOME  : STRING,           \* or the name of one that is not there
     java_home  : STRING,           \* what /usr/libexec/java_home prints
     pathJava   : STRING,           \* the java on PATH
     urandom    : BOOLEAN,
     writable   : BOOLEAN,          \* the archive's directory
     JRUBY_JSA  : BOOLEAN,          \* is set
     files      : [OptionFiles -> Seq(ShWords)]]   \* <<>> without the file

ASSUME ShAssumption ==
    /\ \A home \in DOMAIN Javas : Javas[home] \in JavaRecords
    /\ "" \notin DOMAIN Javas
    /\ MinimumJava \in Nat
    /\ JrubyJars \in Seq({"jruby.jar", "jruby-complete.jar"})
    /\ OtherJars \in Seq(STRING)
    /\ JrubyMain \in STRING
    /\ Scenarios \subseteq ShEnvironments

VARIABLES
    shPc,
    env,       \* the environment the script started in
    rest,      \* "$@"
    sh,
    command,   \* what is exec'd
    shStatus

shVars == <<shPc, env, rest, sh, command, shStatus>>

ShWord(opt, text) == [opt |-> opt, text |-> text]

NoCommand == [exe |-> <<>>, jvm |-> <<>>, main |-> "", ruby |-> <<>>]

NewScript ==
    [JAVACMD |-> "", major |-> 8, use_modules |-> FALSE,
     java_opts_from_files |-> <<>>, JAVA_OPTS |-> <<>>,
     JAVA_MEM |-> <<>>, JAVA_STACK |-> <<>>, JAVA_SECURITY_EGD |-> <<>>,
     JRUBY_CP |-> <<>>, CP |-> <<>>, CLASSPATH |-> <<>>,
     java_class |-> JrubyMain, java_args |-> <<>>, ruby_args |-> <<>>,
     jdb |-> FALSE, NO_BOOTCLASSPATH |-> FALSE, VERIFY_JRUBY |-> FALSE,
     print_environment_log |-> FALSE, java_has_appcds |-> FALSE, use_jsa_file |-> FALSE,
     regenerate_jsa_file |-> FALSE, remove_jsa_files |-> FALSE]

ShInit ==
    /\ shPc = "java"
    /\ env \in Scenarios
    /\ rest = <<>> /\ sh = NewScript /\ command = NoCommand /\ shStatus = 0

ShExit(code) == shPc' = "exited" /\ shStatus' = code

-----------------------------------------------------------------------------
(* Which Java *)

\* Mutant of JavaHomeOf: a JAVA_HOME that is set is kept.
JavaHomeKept(home) == IF env.JAVA_HOME \in DOMAIN Javas THEN env.JAVA_HOME ELSE home

\* JAVA_HOME: two directories up from the java that is run.
JavaHomeOf(home) == home

\* JAVACMD, JAVA_HOME, the java_home command of macOS or the java on PATH: the
\* first that is set must be there.
FoundJava ==
    CASE env.JAVACMD # ""                        -> env.JAVACMD
      [] env.JAVACMD = "" /\ env.JAVA_HOME # ""  -> env.JAVA_HOME
      [] env.JAVACMD = "" /\ env.JAVA_HOME = "" /\ env.java_home # "" -> env.java_home
      [] OTHER                                   -> env.pathJava

\* Links are resolved, but not in what java_home says.
ResolvedJava ==
    IF env.JAVACMD = "" /\ env.JAVA_HOME = "" /\ env.java_home # ""
    THEN FoundJava ELSE Javas[FoundJava].real

FindJava ==
    /\ shPc = "java"
    /\ \/ /\ FoundJava \notin DOMAIN Javas
          /\ ShExit(2)
          /\ UNCHANGED sh
       \/ /\ FoundJava \in DOMAIN Javas
          /\ LET cmd  == ResolvedJava
                 java == Javas[JavaHomeOf(cmd)]
                 major == IF java.release = 0 THEN 8 ELSE java.release
             IN  sh' = [sh EXCEPT !.JAVACMD = cmd,
                                  !.use_modules = java.modules,
                                  !.major = major,
                                  !.java_has_appcds = major >= 13 /\ java.jsa,
                                  !.use_jsa_file = major >= 13 /\ java.jsa]
          /\ shPc' = "version"
          /\ UNCHANGED shStatus
    /\ UNCHANGED <<env, rest, command>>

\* "This version of JRuby requires Java ..."
CheckVersion ==
    /\ shPc = "version"
    /\ IF sh.major < MinimumJava THEN ShExit(1)
       ELSE shPc' = "environment" /\ UNCHANGED shStatus
    /\ UNCHANGED <<env, rest, sh, command>>

-----------------------------------------------------------------------------
(* Options of files and of the environment *)

\* Mutant of ProcessJavaOpts: the options of a file come before those already there.
ProcessJavaOptsFirst(s, file) ==
    [s EXCEPT !.java_opts_from_files =
        (IF s.use_modules /\ env.files[file] # <<>>
         THEN << ShWord("@", <<file>>) >> ELSE env.files[file]) \o @]

\* process_java_opts: with modules java is to read the file itself.
ProcessJavaOpts(s, file) ==
    [s EXCEPT !.java_opts_from_files =
        @ \o IF s.use_modules /\ env.files[file] # <<>>
             THEN << ShWord("@", <<file>>) >> ELSE env.files[file]]

\* Mutant of DefaultStack: the default does not ask about the environment.
DefaultStackAlways(fromEnv) == << ShWord("-Xss", <<"2048k">>) >>

DefaultStack(fromEnv) ==
    IF fromEnv = <<>> THEN << ShWord("-Xss", <<"2048k">>) >> ELSE fromEnv

\* The loop over JAVA_OPTS takes every -Xmx and -Xss out of it; the last is kept.
LastOr(opt, words, otherwise) ==
    LET places == Where(words, {opt})
    IN  IF places = {} THEN otherwise ELSE << words[Max(places)] >>

WithoutMemory(words) ==
    Selected(words, DOMAIN words \ Where(words, {"-Xmx", "-Xss"}))

\* A parent JRuby's class path, or else the jars of lib.
ReadEnvironment ==
    /\ shPc = "environment"
    /\ LET start == [sh EXCEPT
                !.JAVA_OPTS  = WithoutMemory(env.JAVA_OPTS),
                !.JAVA_MEM   = LastOr("-Xmx", env.JAVA_OPTS, env.JAVA_MEM),
                !.JAVA_STACK = LastOr("-Xss", env.JAVA_OPTS, DefaultStack(env.JAVA_STACK)),
                !.JAVA_SECURITY_EGD = IF env.urandom THEN <<"file:/dev/urandom">> ELSE <<>>,
                !.JRUBY_CP  = JrubyJars,
                !.CP        = IF env.JRUBY_PARENT_CLASSPATH = <<>> THEN env.CP \o OtherJars
                              ELSE env.JRUBY_PARENT_CLASSPATH,
                !.CLASSPATH = env.CLASSPATH]
           installed == ProcessJavaOpts(start, "installed")
           home      == ProcessJavaOpts(installed, "home")
       IN  sh' = ProcessJavaOpts(home, "pwd")
    /\ rest' = env.JRUBY_OPTS \o env.line
    /\ shPc' = "options"
    /\ UNCHANGED <<env, command, shStatus>>

-----------------------------------------------------------------------------
(* The loop over the options *)

\* What a word has for the JVM.
ForJava(w) ==
    CASE w.opt = "-Jopt"       -> << ShWord(w.text[1], Tail(w.text)) >>
      [] w.opt = "-J-ea"       -> << ShWord("-ea", <<>>) >>
      [] w.opt = "-Xprop"      -> << ShWord("-Djruby.", w.text) >>
      [] w.opt = "--manage"    -> << ShWord("-Dcom.sun.management.jmxremote", <<>>),
                                     ShWord("-Djruby.", <<"management.enabled=true">>) >>
      [] w.opt = "--headless"  -> << ShWord("-Djava.awt.headless=", <<"true">>) >>
      [] w.opt = "--sample"    -> << ShWord("-Xprof", <<>>) >>
      [] w.opt = "--record"    -> << ShWord("-XX:+FlightRecorder", <<>>),
                                     ShWord("-XX:StartFlightRecording=", <<"dumponexit=true">>) >>
      [] w.opt = "--checkpoint" -> << ShWord("-XX:CRaCCheckpointTo=", w.text) >>
      [] w.opt = "--restore"   -> << ShWord("-XX:CRaCRestoreFrom=", w.text) >>
      [] OTHER                 -> <<>>

\* The options without a value of their own.
ReadSwitch(s, w) ==
    LET t == [s EXCEPT
                !.java_args         = @ \o ForJava(w),
                !.ruby_args         = CASE w.opt = "ruby"  -> Append(@, w)
                                        [] w.opt = "--jdb" -> Append(@, ShWord("ruby", <<"-X+C">>))
                                        [] OTHER           -> @,
                !.JAVA_MEM          = IF w.opt = "-J-Xmx" THEN << ShWord("-Xmx", w.text) >> ELSE @,
                !.JAVA_STACK        = IF w.opt = "-J-Xss" THEN << ShWord("-Xss", w.text) >> ELSE @,
                !.JAVA_SECURITY_EGD = IF w.opt = "-J-egd" THEN w.text ELSE @,
                !.VERIFY_JRUBY      = @ \/ w.opt = "-J-ea",
                !.NO_BOOTCLASSPATH  = @ \/ w.opt = "--no-bootclasspath",
                !.jdb               = @ \/ w.opt = "--jdb",
                !.print_environment_log = @ \/ w.opt = "--environment",
                !.regenerate_jsa_file = @ \/ w.opt = "--cache",
                !.remove_jsa_files  = @ \/ w.opt = "--rmcache",
                !.use_jsa_file      = @ /\ w.opt # "--nocache",
                !.java_class        = IF w.opt = "--checkpoint"
                                      THEN "org.jruby.main.CheckpointMain" ELSE @]
    IN  IF w.opt = "--dev" THEN ProcessJavaOpts(t, "dev") ELSE t

IsSwitch(w) ==
    /\ w.opt \notin NotOptions \cup TakesValue \cup JavaAsks \cup {"-J-cp", "--ng"}
    /\ w.opt = "--cache" => sh.java_has_appcds

OptionSwitch ==
    /\ shPc = "options" /\ rest # <<>> /\ IsSwitch(Head(rest))
    /\ sh' = ReadSwitch(sh, Head(rest))
    /\ rest' = Tail(rest)
    /\ UNCHANGED <<shPc, env, command, shStatus>>

\* Mutant of Switched: only the switch goes to Ruby now; its value is looked at as
\* the next word.
SwitchedAlone(s, words) == [s EXCEPT !.ruby_args = Append(@, words[1])]

Switched(s, words) == [s EXCEPT !.ruby_args = @ \o SubSeq(words, 1, 2)]

\* "Match switches that take an argument"
OptionForRuby ==
    /\ shPc = "options" /\ rest # <<>> /\ Head(rest).opt \in TakesValue
    /\ \/ /\ Len(rest) = 1
          /\ ShExit(2)
          /\ UNCHANGED <<sh, rest>>
       \/ /\ Len(rest) > 1
          /\ sh' = Switched(sh, rest)
          /\ rest' = SubSeq(rest, Len(sh'.ruby_args) - Len(sh.ruby_args) + 1, Len(rest))
          /\ UNCHANGED <<shPc, shStatus>>
    /\ UNCHANGED <<env, command>>

\* The elements of a value: one that looks like an option is a path of that name.
AsPath(w) == IF w.opt = "plain" THEN w.text ELSE << w.opt >>

\* -J-cp: CLASSPATH is not used.  Without a value `set -u' ends the script.
OptionClassPath ==
    /\ shPc = "options" /\ rest # <<>> /\ Head(rest).opt = "-J-cp"
    /\ \/ /\ Len(rest) = 1
          /\ \E code \in {1, 2} : ShExit(code)
          /\ UNCHANGED <<sh, rest>>
       \/ /\ Len(rest) > 1
          /\ sh' = [sh EXCEPT !.CP = @ \o AsPath(rest[2]), !.CLASSPATH = <<>>]
          /\ rest' = Tail(Tail(rest))
          /\ UNCHANGED <<shPc, shStatus>>
    /\ UNCHANGED <<env, command>>

\* Mutant of OptionExits: what is refused ends with 0.
OptionExitsQuietly ==
    /\ shPc = "options" /\ rest # <<>>
    /\ \/ Head(rest).opt \in JavaAsks \cup {"--ng"}
       \/ Head(rest).opt = "--cache" /\ ~sh.java_has_appcds
    /\ ShExit(0)
    /\ UNCHANGED <<env, rest, sh, command>>

\* -J and -J-X ask java; --ng is refused, and --cache by a Java without AppCDS.
OptionExits ==
    /\ shPc = "options" /\ rest # <<>>
    /\ \/ Head(rest).opt \in JavaAsks /\ ShExit(0)
       \/ Head(rest).opt = "--ng" /\ ShExit(1)
       \/ Head(rest).opt = "--cache" /\ ~sh.java_has_appcds /\ ShExit(2)
    /\ UNCHANGED <<env, rest, sh, command>>

\* "Abort processing on the double dash", "on first non-opt arg": what is left is
\* for Ruby.
OptionsEnd ==
    /\ shPc = "options"
    /\ rest # <<>> => Head(rest).opt \in NotOptions
    /\ sh' = [sh EXCEPT !.ruby_args = @ \o rest,
                        !.java_args = @ \o [n \in DOMAIN sh.JAVA_SECURITY_EGD |->
                           ShWord("-Djava.security.egd=", sh.JAVA_SECURITY_EGD)]]
    /\ rest' = <<>>
    /\ shPc' = "command"
    /\ UNCHANGED <<env, command, shStatus>>

-----------------------------------------------------------------------------
(* The command *)

NativeAccess(major) == major >= 22
UnsafeMemory(major) == major >= 23

If(condition, words) == IF condition THEN words ELSE <<>>

\* The colon is there if nothing is before it or after it: an empty element, the
\* current directory.
OrEmpty(path) == IF path = <<>> THEN <<"">> ELSE path

\* Mutant of LibraryPath: JRuby's jar goes to the boot class path in any case.
LibraryPathBoot(s) ==
    << ShWord("-Xbootclasspath/a:", s.JRUBY_CP),
       ShWord("-classpath", OrEmpty(s.CP) \o OrEmpty(s.CLASSPATH)) >>

\* Where JRuby's jars are: on the module path or the class path if they must not
\* be on the boot class path.
LibraryPath(s) ==
    LET classpath == OrEmpty(s.CP) \o OrEmpty(s.CLASSPATH)
    IN  CASE s.use_modules ->
               << ShWord("--module-path", s.JRUBY_CP), ShWord("-classpath", classpath) >>
          [] ~s.use_modules /\ (s.NO_BOOTCLASSPATH \/ s.VERIFY_JRUBY) ->
               << ShWord("-classpath", s.JRUBY_CP \o classpath) >>
          [] OTHER ->
               << ShWord("-Xbootclasspath/a:", s.JRUBY_CP), ShWord("-classpath", classpath),
                  ShWord("-Djruby.home=", <<"JRUBY_HOME">>) >>

NoOp == << ShWord("-e", <<>>), ShWord("plain", <<"1">>) >>

\* Nothing is done about the archive where it cannot be written, and --cache alone
\* runs a script that does nothing.
SelectArchive(s) ==
    [s EXCEPT !.use_jsa_file        = @ /\ env.writable,
              !.regenerate_jsa_file = @ /\ env.writable,
              !.remove_jsa_files    = @ /\ env.writable,
              !.ruby_args = @ \o If(/\ env.writable /\ @ = <<>>
                                    /\ s.use_jsa_file /\ s.regenerate_jsa_file, NoOp)]

\* JRUBY_JSA: jruby_jsa_file is readonly by then, and the shell ends the script.
RefuseArchive ==
    /\ shPc = "command" /\ env.JRUBY_JSA
    /\ \E code \in {1, 2} : ShExit(code)
    /\ UNCHANGED <<env, rest, sh, command>>

\* --environment and --rmcache do without java.
Assemble ==
    /\ shPc = "command" /\ ~env.JRUBY_JSA
    /\ LET s == SelectArchive(IF sh.use_modules THEN ProcessJavaOpts(sh, "module") ELSE sh)
           jvm == If(s.jdb, << ShWord("-sourcepath", <<>>) >>)
                  \o s.java_opts_from_files
                  \o s.JAVA_OPTS \o s.JAVA_MEM \o s.JAVA_STACK
                  \o << ShWord("-Djffi.boot.library.path=", <<"lib/jni">>) >>
                  \o s.java_args
                  \o If(NativeAccess(s.major), << ShWord("--enable-native-access=", <<"org.jruby.dist">>) >>)
                  \o If(UnsafeMemory(s.major), << ShWord("--sun-misc-unsafe-memory-access=", <<"allow">>) >>)
                  \o LibraryPath(s)
                  \o << ShWord("-Djruby.home=", <<"JRUBY_HOME">>), ShWord("-Djruby.lib=", <<"lib">>),
                        ShWord("-Djruby.script=", <<"jruby">>), ShWord("-Djruby.shell=", <<"/bin/sh">>) >>
       IN  /\ sh' = s
           /\ IF s.print_environment_log \/ s.remove_jsa_files
              THEN ShExit(0) /\ UNCHANGED command
              ELSE /\ command' = [exe  |-> <<s.JAVACMD, IF s.jdb THEN "jdb" ELSE "java">>,
                                  jvm  |-> jvm, main |-> s.java_class, ruby |-> s.ruby_args]
                   /\ shPc' = "exec"
                   /\ UNCHANGED shStatus
    /\ UNCHANGED <<env, rest>>

ShNext ==
    \/ FindJava \/ CheckVersion \/ ReadEnvironment
    \/ OptionSwitch \/ OptionForRuby \/ OptionClassPath \/ OptionExits \/ OptionsEnd
    \/ RefuseArchive \/ Assemble

-----------------------------------------------------------------------------
(* Properties. *)

AllWords == env.JRUBY_OPTS \o env.line

\* A word that is the value of the one before it, whatever it looks like.
IsValue[n \in 0 .. Len(AllWords)] ==
    /\ n > 1
    /\ AllWords[n - 1].opt \in TakesValue \cup {"-J-cp"}
    /\ ~IsValue[n - 1]

\* The first word that is no option and no option's value.
ShScriptAt ==
    LET at == {n \in DOMAIN AllWords : AllWords[n].opt \in NotOptions /\ ~IsValue[n]}
    IN  IF at = {} THEN Len(AllWords) + 1 ELSE Min(at)

IsOption(n) == n < ShScriptAt /\ ~IsValue[n]
Options     == {AllWords[n] : n \in {m \in DOMAIN AllWords : IsOption(m)}}
Asks(opt)   == \E w \in Options : w.opt = opt

HasCommand == command # NoCommand

GoesToRuby(n) ==
    \/ n >= ShScriptAt
    \/ IsOption(n) /\ AllWords[n].opt \in TakesValue \cup {"ruby", "--jdb"}
    \/ IsValue[n] /\ AllWords[n - 1].opt \in TakesValue

ForRuby(n) == IF IsOption(n) /\ AllWords[n].opt = "--jdb" THEN ShWord("ruby", <<"-X+C">>)
              ELSE AllWords[n]

\* The script and its arguments come to Ruby as they are, and the values of -C, -e,
\* -I and -S with their switches, even if they look like options of the launcher;
\* of the others only Ruby's own do ("Split out any -J argument", "Abort processing
\* on first non-opt arg").  If there are none, Ruby gets nothing, or with --cache the
\* script that does nothing.
RubyArgsIntact ==
    LET given == Selected([n \in DOMAIN AllWords |-> ForRuby(n)],
                          {n \in DOMAIN AllWords : GoesToRuby(n)})
    IN  HasCommand =>
            \/ command.ruby = given
            \/ /\ given = <<>> /\ command.ruby = NoOp
               /\ Asks("--cache")

\* What the user says of an option of memory: the command line has the last word,
\* then JAVA_OPTS, then the option's own variable.
Said(opt, asWord, variable) ==
    LET places == {n \in DOMAIN AllWords : IsOption(n) /\ AllWords[n].opt = asWord}
    IN  IF places # {} THEN << AllWords[Max(places)] >>
        ELSE LastOr(opt, env.JAVA_OPTS, LastOr(opt, variable, <<>>))

\* java goes by the last.
JavaHears(opt, said) ==
    said # <<>> => LET given == Where(command.jvm, {opt})
                   IN  given # {} /\ command.jvm[Max(given)].text = Last(said).text

\* The one java goes by is never the default's or a file's if the user says something
\* of -Xmx or -Xss (and no -Xmx in JAVA_STACK, which comes last).  A -Xss in a file of
\* options is without effect, as the default comes after it.
MemoryAsSaid ==
    HasCommand =>
        /\ Where(env.JAVA_STACK, {"-Xmx"}) = {}
             => JavaHears("-Xmx", Said("-Xmx", "-J-Xmx", env.JAVA_MEM))
        /\ JavaHears("-Xss", Said("-Xss", "-J-Xss", env.JAVA_STACK))

FileWords(file) == IF env.files[file] # <<>> /\ sh.use_modules
                   THEN { ShWord("@", <<file>>) } ELSE Range(env.files[file])
Plain(w) == w.opt \notin {"-Xmx", "-Xss"}

\* "We include options on the java command line in the following order".
Layers ==
    << FileWords("installed"), FileWords("home"), FileWords("pwd"), FileWords("dev"),
       FileWords("module"), Range(env.JAVA_OPTS),
       UNION {Range(ForJava(w)) : w \in Options} >>

\* An option of a later layer is after those of the earlier ones, so that it is the
\* one java goes by, though --dev's are read in the loop and the module options
\* after it.  All of them are there, those of --dev and of modules when they are to
\* be.
CascadeInOrder ==
    HasCommand =>
        LET layers   == Layers
            LayersOf == [j \in DOMAIN command.jvm |->
                            {n \in DOMAIN layers : command.jvm[j] \in layers[n]}]
        IN  /\ \A j \in DOMAIN LayersOf : \A k \in j + 1 .. Len(LayersOf) :
                \A m \in LayersOf[j] \ LayersOf[k], n \in LayersOf[k] \ LayersOf[j] : m < n
            /\ \A n \in DOMAIN layers : \A w \in layers[n] :
                 /\ Plain(w)
                 /\ n = 4 => Asks("--dev")
                 /\ n = 5 => sh.use_modules
                 => w \in Range(command.jvm)

Given(opt) == \E w \in Range(command.jvm) : w.opt = opt

\* The flags are those of the Java that is run, which need not be the one JAVA_HOME
\* named: java refuses a flag it does not know.  Where there is no release file to
\* tell the version (a wrapper of java's), the flags are those every Java knows.
FlagsFitJava ==
    HasCommand =>
        LET java == Javas[command.exe[1]]
        IN  /\ \A opt \in {"--module-path", "@"} : Given(opt) => java.version >= 9
            /\ Given("--enable-native-access=") => java.version >= 22
            /\ Given("--sun-misc-unsafe-memory-access=") => java.version >= 23
            /\ java.release # 0 =>
                 /\ java.version >= MinimumJava
                 /\ java.version >= 9 => Given("--module-path")
                 /\ java.version >= 22 => Given("--enable-native-access=")

Paths == {"--module-path", "-Xbootclasspath/a:", "-classpath"}

\* The class path behind JRuby's jars: a parent JRuby's, or else the other jars; and
\* what each -J-cp gives, or else CLASSPATH.
UserPath ==
    LET values == Selected(AllWords, {n \in 2 .. ShScriptAt - 1 :
                                         IsValue[n] /\ AllWords[n - 1].opt = "-J-cp"})
    IN  (IF env.JRUBY_PARENT_CLASSPATH # <<>> THEN env.JRUBY_PARENT_CLASSPATH
         ELSE env.CP \o OtherJars)
        \o (IF Asks("-J-cp") THEN FlattenSeq([n \in DOMAIN values |-> AsPath(values[n])])
            ELSE env.CLASSPATH)

Times(path, elements) == Cardinality({n \in DOMAIN elements : elements[n] = path})
NonEmpty(elements)    == Selected(elements, {n \in DOMAIN elements : elements[n] # ""})

\* Of its own the script puts JRuby's jar in one place, where this Java can load it
\* from: not on the boot class path of a Java with modules or when its code is to be
\* verified (-J-ea).  It is there once more for each time the user's own paths name
\* it, as a parent JRuby's class path may: nothing removes it there.  The class path
\* ends with the user's paths, in their order.
JRubyLoadedOnce ==
    HasCommand =>
        /\ \A jar \in Range(JrubyJars) :
             Times(jar, FlattenSeq([n \in DOMAIN command.jvm |->
                           If(command.jvm[n].opt \in Paths, command.jvm[n].text)]))
                 = 1 + Times(jar, UserPath)
        /\ sh.use_modules \/ Asks("-J-ea") \/ Asks("--no-bootclasspath")
             => ~Given("-Xbootclasspath/a:")
        /\ \A n \in Where(command.jvm, {"-classpath"}) :
             IsSuffix(NonEmpty(UserPath), NonEmpty(command.jvm[n].text))
=============================================================================
