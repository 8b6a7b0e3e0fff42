---------------------------- MODULE MCUnixJRuby ----------------------------
(* Values of UnixJRuby's constants for TLC. *)
EXTENDS UnixJRuby

\* Two installations, a directory with links, and one with another program.
MCDirs == {"/jruby/bin", "/old/bin", "/usr/bin", "/home", "/"}

EntryMaps ==
    {[d \in MCDirs |-> CASE d = "/jruby/bin" -> d
                         [] d = "/old/bin"   -> d
                         [] d = "/usr/bin"   -> "/jruby/bin"
                         [] d = "/home"      -> home
                         [] d = "/"          -> "none"] :
        home \in {"none", "directory", "/old/bin"}}

ScriptFiles(main, bak) == ("jruby.sh" :> main) @@ ("jruby.sh.bak" :> bak)
FileMaps ==
    {[d \in MCDirs |-> CASE d = "/jruby/bin" -> ScriptFiles(main, bak)
                         [] d = "/old/bin"   -> ScriptFiles("whole", "absent")
                         [] OTHER            -> ScriptFiles("absent", "absent")] :
        main \in {"absent", "partial", "whole"}, bak \in {"absent", "whole"}}

SearchPaths == UNION {[1 .. n -> {"", "/home", "/usr/bin", "/jruby/bin"}] : n \in 0 .. 2}

LaunchOf(argv0, dir, path, entries, fs) ==
    [argv0 |-> argv0, dir |-> dir, PATH |-> path, entry |-> entries, files |-> fs,
     unreadable |-> {}, alone |-> FALSE]

MCLaunches ==
    {LaunchOf("name", "/", path, e, fs) : path \in SearchPaths, e \in EntryMaps, fs \in FileMaps}
    \cup {LaunchOf("path", dir, <<>>, e, fs) :
             dir \in {"/usr/bin", "/old/bin"}, e \in EntryMaps, fs \in FileMaps}
    \cup {LaunchOf(argv0, "/", << "/usr/bin" >>, e, fs) :
             argv0 \in {"missing", "empty"}, e \in EntryMaps, fs \in FileMaps}
    \cup {[LaunchOf("name", "/", << "/usr/bin", "/home" >>, e, fs)
             EXCEPT !.unreadable = {"/jruby/bin"}] : e \in EntryMaps, fs \in FileMaps}

\* A Java is named after its version; "default" is a link, "shim" a wrapper.  The
\* last one is without archives.
JavaOf(real, release, version) ==
    [real |-> real, release |-> release, version |-> version, modules |-> release >= 9,
     jsa |-> release < 24]
MCJavas ==
    [java7   |-> JavaOf("java7", 7, 7),     java8  |-> JavaOf("java8", 8, 8),
     java21  |-> JavaOf("java21", 21, 21),  java24 |-> JavaOf("java24", 24, 24),
     default |-> JavaOf("java24", 24, 24),  shim   |-> JavaOf("shim", 0, 21)]

MCJrubyJars == <<"jruby.jar">>
MCOtherJars == <<"jline.jar">>

NoFiles  == [f \in OptionFiles |-> <<>>]
AllFiles == [f \in OptionFiles |->
               << ShWord("-Dfile=", <<f>>) >>
               \o (IF f \in {"home", "pwd"} THEN << ShWord("-Xss", <<f>>) >> ELSE <<>>)]

PlainEnv ==
    [line |-> <<>>, JRUBY_OPTS |-> <<>>, JAVA_OPTS |-> <<>>, JAVA_MEM |-> <<>>,
     JAVA_STACK |-> <<>>, CLASSPATH |-> <<>>, CP |-> <<>>, JRUBY_PARENT_CLASSPATH |-> <<>>,
     JAVACMD |-> "", JAVA_HOME |-> "", java_home |-> "", pathJava |-> "java21",
     urandom |-> TRUE, writable |-> TRUE, JRUBY_JSA |-> FALSE, files |-> NoFiles]

Script == ShWord("plain", <<"x.rb">>)
Opt(opt, value) == ShWord(opt, <<value>>)
Vocabulary ==
    { Script, ShWord("--", <<>>), Opt("-J-Xmx", "1g"), Opt("-J-Xss", "1m"), ShWord("-J", <<>>),
      ShWord("-J-cp", <<>>), ShWord("-J-ea", <<>>), ShWord("-J-egd", <<"file:/dev/random">>),
      ShWord("-Jopt", <<"-Da=", "line">>), Opt("-Xprop", "a.b=c"), ShWord("-e", <<>>),
      ShWord("--jdb", <<>>), ShWord("--dev", <<>>), ShWord("--no-bootclasspath", <<>>),
      ShWord("--ng", <<>>), ShWord("--environment", <<>>), ShWord("--checkpoint", <<"dir">>),
      ShWord("--server", <<>>), ShWord("ruby", <<"-w">>), ShWord("--cache", <<>>),
      ShWord("--nocache", <<>>), ShWord("--rmcache", <<>>) }
LongWords ==
    {w \in Vocabulary : w.opt \in {"plain", "--", "-J-Xmx", "-J-cp", "-e", "--dev", "-Jopt", "--ng"}}
LinesUpTo(n) == UNION {[1 .. m -> Vocabulary] : m \in 0 .. n}
EveryLine == {[PlainEnv EXCEPT !.line = line] : line \in LinesUpTo(2) \cup [1 .. 3 -> LongWords]}

SomeLines ==
    { << Script >>, << ShWord("--dev", <<>>), Opt("-J-Xss", "2m"), Script >>,
      << ShWord("-J-cp", <<>>), ShWord("plain", <<"a.jar">>), ShWord("-S", <<>>),
         ShWord("--manage", <<>>), ShWord("--headless", <<>>), ShWord("--record", <<>>),
         ShWord("--sample", <<>>), ShWord("--restore", <<"dir">>), Script >> }
JavaNames == {"", "java7", "java8", "java21", "default", "shim", "nowhere"}
EveryJava ==
    {[PlainEnv EXCEPT !.line = line, !.JAVACMD = cmd, !.JAVA_HOME = home, !.java_home = mac] :
        line \in SomeLines, cmd \in JavaNames, home \in JavaNames, mac \in {"", "java24"}}
EveryCascade ==
    {[PlainEnv EXCEPT !.line = line, !.pathJava = java, !.files = fs, !.JAVA_OPTS = opts,
                      !.CLASSPATH = cp, !.JAVA_STACK = stack] :
        line \in SomeLines, java \in {"java8", "java21"}, fs \in {NoFiles, AllFiles},
        opts \in { <<>>, << Opt("-Xmx", "2g"), Opt("-Xss", "4m"), Opt("-Db=", "env") >> },
        cp \in { <<>>, <<"lib.jar">>, <<"jruby.jar", "lib.jar">> }, stack \in { <<>>, << Opt("-Xss", "8m") >> }}
OthersHere ==
    { [PlainEnv EXCEPT !.JRUBY_OPTS = << ShWord("--dev", <<>>), ShWord("-e", <<>>) >>,
                     !.line = << ShWord("--dev", <<>>), Opt("-J-Xmx", "1g"), Script >>],
      [PlainEnv EXCEPT !.urandom = FALSE, !.JRUBY_PARENT_CLASSPATH = <<"parent.jar">>,
                     !.JAVA_MEM = << Opt("-Xmx", "3g") >>, !.CP = <<"inherited.jar">>],
      [PlainEnv EXCEPT !.CP = <<"inherited.jar">>, !.pathJava = "nowhere"],
      [PlainEnv EXCEPT !.CP = <<"inherited.jar">>, !.line = << ShWord("-J-X", <<>>) >>],
      [PlainEnv EXCEPT !.JRUBY_PARENT_CLASSPATH = <<"jruby.jar", "parent.jar">>,
                     !.line = << ShWord("-J-cp", <<>>), ShWord("plain", <<"jruby.jar">>),
                                 ShWord("-J-cp", <<>>), Opt("plain", "b.jar"), Script >>],
      [PlainEnv EXCEPT !.JRUBY_JSA = TRUE, !.line = << ShWord("--environment", <<>>) >>] }
    \cup {[PlainEnv EXCEPT !.line = line, !.pathJava = java, !.writable = writable] :
             line \in { << ShWord(a, <<>>), ShWord(b, <<>>) >> :
                           a, b \in {"--cache", "--nocache", "--rmcache"} },
             java \in {"java8", "java21", "java24"}, writable \in BOOLEAN}
MCScenarios == EveryLine \cup EveryJava \cup EveryCascade \cup OthersHere

\* The launcher in every place with one command, every command from one place.
Usual == [LaunchOf("name", "/", << "/usr/bin" >>,
                  [d \in MCDirs |-> IF d = "/usr/bin" THEN "/jruby/bin"
                                    ELSE IF d \in {"/jruby/bin", "/old/bin"} THEN d ELSE "none"],
                  [d \in MCDirs |-> IF d = "/jruby/bin" THEN ScriptFiles("whole", "whole")
                                    ELSE IF d = "/old/bin" THEN ScriptFiles("whole", "absent")
                                    ELSE ScriptFiles("absent", "absent")])
            EXCEPT !.alone = TRUE]
AllLaunches == MCLaunches \cup { Usual }
MCRuns == (MCLaunches \X { [PlainEnv EXCEPT !.line = << Script >>] })
             \cup ({ Usual } \X MCScenarios)
=============================================================================
