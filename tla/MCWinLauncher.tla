--------------------------- MODULE MCWinLauncher ---------------------------
(* Values of WinLauncher's constants for TLC. *)
EXTENDS WinLauncher

File(name)     == Word("plain", <<name>>)
Option(opt)    == Word(opt, <<>>)
J(opt, value)  == Word("-J", <<opt, value>>)
RubyOption     == Word("ruby", <<"-client">>)

\* Java 8 has a jre directory with both VMs, Java 17 a server VM only; of a JRE
\* only java.exe is left.
Homes == [java8  |-> [jre |-> {"java", "javaw", "client", "server"}],
          java17 |-> [jre |-> {}],
          broken |-> [jre |-> {}]]
AtTop == [java8 |-> {}, java17 |-> {"java", "server"}, broken |-> {"java"}]
MCInstall == [h \in DOMAIN Homes |->
                [p \in JrePrefixes |-> IF p = "" THEN AtTop[h] ELSE Homes[h].jre]]

\* Two installations of JRuby, of one of which the launcher is; a directory that
\* has one of that name in it, a Java's, and one without anything.
In(dir, names) == {Append(dir, name) : name \in names}
OwnBin  == <<"C:", "jruby", "bin">>
OldBin  == <<"D:", "old", "bin">>
JavaBin == <<"C:", "java17", "bin">>
Windows == <<"C:", "Windows">>
\* OwnBin is also the current directory.
MCPresent ==
    In(OwnBin, {"jruby", "jruby.exe"}) \cup In(OwnBin \o <<".">>, {"jruby", "jruby.exe"})
    \cup In(<<>>, {"jruby", "jruby.exe"}) \cup In(<<".">>, {"jruby", "jruby.exe"})
    \cup In(OldBin, {"jruby.exe"}) \cup In(<<"C:", "src">>, {"jruby"})
    \cup In(JavaBin, {"java.exe"}) \cup In(<<"C:">>, {"java.exe"}) \cup In(<<"">>, {"java.exe"})
MCLibJars == (<<"C:", "jruby">> :> <<"jruby-complete.jar", "jruby.jar", "jline.jar">>)
             @@ (<<"D:", "old">> :> <<"jruby-complete.jar">>)

Key(home)  == [home |-> home, satisfies |-> {"", "1.5"}]
OldKey     == [home |-> "java8", satisfies |-> {""}]
NoKey      == [home |-> "", satisfies |-> {}]

Plain == [line |-> <<>>, JRUBY_OPTS |-> <<>>, JAVA_OPTS |-> <<>>, CLASSPATH |-> <<>>,
          VERIFY_JRUBY |-> FALSE, JAVACMD |-> "", JAVA_HOME |-> "java8",
          JRUBY_HOME |-> <<>>, PATH |-> <<Windows, OwnBin>>,
          JDK |-> NoKey, JRE |-> NoKey, console |-> TRUE,
          argv0 |-> <<"jruby">>, name |-> "jruby", module |-> Append(OwnBin, "jruby.dll")]

\* Every line of up to three words, on one machine.
Vocabulary ==
    { File("java17"), Option("empty"), Option("--"), Option("-Xtrace"),
      Option("-Xjdkhome"), Option("-Xcp:p"), Option("-J-cp"), Option("-Xfork-java"),
      Option("-Xcommand"), Option("--server"), Option("--dev"), Option("--ng"),
      Option("--ng-server"), Option("-Xversion"), Option("-Xhelp"),
      J("-Xss", "512k"), J("-ea", ""), RubyOption }
Lines == [1 .. 3 -> Vocabulary] \cup [1 .. 2 -> Vocabulary]
            \cup [1 .. 1 -> Vocabulary] \cup {<<>>}
EveryLine == {[Plain EXCEPT !.line = line] : line \in Lines}

\* A few lines in every environment.
SomeLines ==
    { << File("a"), Option("--dev"), RubyOption >>,
      << Option("-Xjdkhome"), File("java17"), Option("-Xjdkhome"), File("nowhere"), File("a") >>,
      << Option("-Xjdkhome"), File("broken"), J("-Djruby.home=", "D:"), Option("-Xcp:a"), File("jruby.jar") >>,
      << Option("-Xcp:p"), File("jline.jar"), Option("-J-cp"), File("jruby.jar"), File("a") >>,
      << Option("-Xbootclass"), File("Main"), Option("--server"), Option("--client"),
         Option("--manage"), Option("--sample"), Option("--headless"),
         Option("-Xproperties"), Word("-Xprop", <<"a=b">>) >>,
      << Option("-Xjdkhome"), File("1.5"), File("a") >>,
      << Option("-Xcommand"), Option("--ng"), File("a") >> }
EveryMachine ==
    {[Plain EXCEPT !.line = line, !.JAVACMD = cmd, !.JAVA_HOME = home, !.PATH = path,
                   !.JDK = jdk, !.JRE = jre, !.console = con, !.JAVA_OPTS = opts,
                   !.CLASSPATH = cp] :
        line \in SomeLines, cmd \in {"", "jato"}, home \in {"", "java8", "java17", "nowhere"},
        path \in { <<Windows>>, <<JavaBin>> }, jdk \in {NoKey, Key("java8"), Key("java17")},
        jre \in {NoKey, OldKey, Key("broken")}, con \in BOOLEAN,
        opts \in { <<>>, << Word("-Xss", <<"1m">>), Word("-server", <<>>) >> },
        cp \in { <<>>, <<"jruby.jar", "x">> }}
\* One line on every PATH, from both installations, by every name.
EveryPath ==
    {[Plain EXCEPT !.PATH = path, !.JRUBY_HOME = home, !.argv0 = argv0, !.module = module,
                   !.JAVA_HOME = jdk, !.JDK = Key("java8"), !.line = << File("a") >>] :
        path \in UNION {[1 .. n -> {OwnBin, OldBin, JavaBin, Windows, <<"C:", "src">>, <<"C:">>, <<>>}]
                          : n \in 1 .. 2},
        home \in {<<>>, <<"D:", "old">>},
        argv0 \in {<<"jruby">>, <<"jruby.exe">>, <<".", "jruby">>, Append(OwnBin, "jruby.exe")},
        module \in In(OwnBin, {"jruby.dll"}) \cup In(OldBin, {"jruby.dll"}), jdk \in {"", "java17"}}
Others ==
    { [Plain EXCEPT !.module = <<"C:", "jruby.dll">>, !.PATH = <<Windows>>],
      [Plain EXCEPT !.PATH = << >>], [Plain EXCEPT !.CLASSPATH = <<"jline.jar">>],
      [Plain EXCEPT !.name = "gem", !.argv0 = <<"gem">>, !.line = << File("install") >>],
      [Plain EXCEPT !.JRUBY_OPTS = << Option("--client"), File("a") >>, !.VERIFY_JRUBY = TRUE,
                    !.line = << Option("-Xcommand") >>] }
\* The console modes of jrubyw.
ConsoleLines ==
    {<< Option("-Xconsole"), File(mode), File("a") >> : mode \in {"new", "attach", "suppress", "other"}}
    \cup { << Option("-Xconsole") >>, << File("a"), Option("-Xconsole"), File("new") >> }
ConsoleScenarios == {[Plain EXCEPT !.line = line, !.console = FALSE] : line \in ConsoleLines}

\* A log is asked for by an option, or by what the script makes of its arguments.
TraceLines == { << Option("-Xtrace"), File("log"), File("a") >>,
                << File("a"), Option("-Xtrace"), File("log") >>,
                << Option("--"), Option("-Xtrace"), File("log") >> }
TraceScenarios == {[Plain EXCEPT !.line = line] : line \in TraceLines}

MCScenarios == EveryLine \cup EveryMachine \cup EveryPath \cup Others \cup ConsoleScenarios
                  \cup TraceScenarios
=============================================================================
