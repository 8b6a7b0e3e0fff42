------------------------------ MODULE WinProofs ------------------------------
(***************************************************************************)
(* Proofs about WinLauncher, for any machine and any command line: the     *)
(* status that is reported, what is started and what only prints, the      *)
(* script's arguments, which Java runs, and the options it gets.  The      *)
(* parser's fields are related to the words it has read by a boundary n:   *)
(* the first n words are options and their values, those after them are    *)
(* Ruby's.                                                                 *)
(***************************************************************************)
EXTENDS WinLauncher, LauncherLemmas

-----------------------------------------------------------------------------
(* The status the shell sees.                                                 *)

IsChild(c) ==
    c = [how |-> c.how, exe |-> c.exe, options |-> c.options, main |-> c.main,
         arguments |-> c.arguments, status |-> c.status]

\* The status of what was started, as an int.
ChildReported ==
    pc = "exited" =>
        /\ child.how # "none" =>
              /\ exitCode \in -INT_MAX - 1 .. INT_MAX
              /\ exitCode \in {child.status, child.status - 2 * (INT_MAX + 1)}
        /\ exitCode = FAILED => child.how = "none" \/ child.status = 2 * INT_MAX + 1

StatusInv ==
    /\ IsChild(child)
    /\ pc \notin {"running", "exited"} => child.how = "none"
    /\ ChildReported

LEMMA ChildIs ==
    ASSUME NEW how, NEW exe, NEW options, NEW main, NEW arguments, NEW status
    PROVE  LET c == [how |-> how, exe |-> exe, options |-> options, main |-> main,
                     arguments |-> arguments, status |-> status]
           IN  IsChild(c) /\ c.how = how
BY DEF IsChild

LEMMA ChildExcept ==
    ASSUME NEW c, IsChild(c), NEW how, NEW ws
    PROVE  LET d == [c EXCEPT !.how = how, !.arguments = ws]
           IN  IsChild(d) /\ d.how = how
<1> DEFINE e == [c EXCEPT !.how = how]
           d == [e EXCEPT !.arguments = ws]
<1>1. IsChild(e) /\ e.how = how
  BY DEF IsChild
<1> HIDE DEF e
<1>2. IsChild(d) /\ d.how = e.how
  BY <1>1 DEF IsChild
<1>3. d = [c EXCEPT !.how = how, !.arguments = ws]
  BY DEF e
<1> QED
  BY <1>1, <1>2, <1>3

LEMMA NoChildIs ==
    /\ IsChild(NoChild) /\ NoChild.how = "none"
    /\ \A ws : IsChild([NoChild EXCEPT !.how = "nailgun", !.arguments = ws])
BY ChildIs, ChildExcept, Zenon DEF NoChild

LEMMA StatusTypes == INT_MAX \in Nat /\ JvmStatus \subseteq 0 .. 2 * INT_MAX + 1
BY WinAssumption, Zenon

\* A DWORD as an int.
LEMMA AsInt ==
    ASSUME NEW status \in JvmStatus
    PROVE  /\ LauncherStatus(status) \in -INT_MAX - 1 .. INT_MAX
           /\ LauncherStatus(status) \in {status, status - 2 * (INT_MAX + 1)}
           /\ LauncherStatus(status) = FAILED => status = 2 * INT_MAX + 1
<1>1. INT_MAX \in Nat /\ status \in Nat /\ status <= 2 * INT_MAX + 1
  BY StatusTypes
<1> QED
  BY <1>1 DEF LauncherStatus, FAILED

LEMMA StatusInit == Init => StatusInv
BY NoChildIs DEF Init, StatusInv, ChildReported, FAILED

\* A step that starts nothing.
LEMMA StatusKeeps ==
    ASSUME StatusInv, UNCHANGED child, pc \notin {"running", "exited"},
           pc' # "running"
    PROVE  StatusInv'
BY DEF StatusInv, ChildReported

\* A step that may start a program.
LEMMA StatusStarts ==
    ASSUME StatusInv, pc \notin {"running", "exited"},
           \/ UNCHANGED child /\ pc' = "exited"
           \/ IsChild(child') /\ pc' = "running"
    PROVE  StatusInv'
BY DEF StatusInv, ChildReported

LEMMA StatusStep == StatusInv /\ [Next]_vars => StatusInv'
<1> SUFFICES ASSUME StatusInv, [Next]_vars PROVE StatusInv'
  OBVIOUS
<1> USE DEF winVars, vars
<1>1. ASSUME CheckLoggingArg \/ LoadPlatform \/ ParseEnds \/ CheckJDKHome
             \/ CheckJavaHome \/ AddScriptName
      PROVE  StatusInv'
  BY <1>1, StatusKeeps
     DEF CheckLoggingArg, LoadPlatform, ParseEnds, CheckJDKHome, CheckJavaHome,
         AddScriptName, Exit
<1>2. ASSUME SetupProcess PROVE StatusInv'
  BY <1>2, StatusKeeps DEF SetupProcess, Exit
<1>3. ASSUME Start PROVE StatusInv'
  BY <1>3, StatusKeeps DEF Start, Exit
<1>4. ASSUME ParseWord PROVE StatusInv'
  BY <1>4, StatusKeeps DEF ParseWord, Exit
<1>5. ASSUME ChooseJava PROVE StatusInv'
  BY <1>5, StatusKeeps DEF ChooseJava, Exit
<1>6. ASSUME Prepare \/ Launch \/ LoadJavaDll PROVE StatusInv'
  BY <1>6, StatusKeeps DEF Prepare, Launch, LoadJavaDll, Exit, Failure
<1>7. ASSUME StartNailgun PROVE StatusInv'
  <2>1. PICK words : words = parser'.progArgs
    OBVIOUS
  <2>2. \/ UNCHANGED child /\ pc' = "exited"
        \/ /\ child' = [NoChild EXCEPT !.how = "nailgun", !.arguments = words]
           /\ pc' = "running"
    BY <1>7, <2>1 DEF StartNailgun, Exit
  <2>3. pc \notin {"running", "exited"}
    BY <1>7 DEF StartNailgun
  <2>4. IsChild([NoChild EXCEPT !.how = "nailgun", !.arguments = words])
    BY NoChildIs
  <2> QED
    BY <2>2, <2>3, <2>4, StatusStarts
<1>8. ASSUME StartInProcJvm PROVE StatusInv'
  <2>1. \/ UNCHANGED child /\ pc' = "exited"
        \/ IsChild(child') /\ pc' = "running"
    BY <1>8, ChildIs DEF StartInProcJvm, Exit, Failure
  <2>2. pc \notin {"running", "exited"}
    BY <1>8 DEF StartInProcJvm
  <2> QED
    BY <2>1, <2>2, StatusStarts
<1>9. ASSUME StartOutProcJvm PROVE StatusInv'
  <2>1. \/ UNCHANGED child /\ pc' = "exited"
        \/ IsChild(child') /\ pc' = "running"
    BY <1>9, ChildIs DEF StartOutProcJvm, Exit, Failure
  <2>2. pc \notin {"running", "exited"}
    BY <1>9 DEF StartOutProcJvm
  <2> QED
    BY <2>1, <2>2, StatusStarts
<1>10. ASSUME JvmEnds PROVE StatusInv'
  <2>1. PICK status \in JvmStatus :
           child' = [child EXCEPT !.status = status] /\ Exit(LauncherStatus(status))
    BY <1>10 DEF JvmEnds
  <2>2. child'.status = status /\ IsChild(child')
    BY <2>1 DEF StatusInv, IsChild
  <2>3. pc' = "exited" /\ exitCode' = LauncherStatus(status)
    BY <2>1 DEF Exit
  <2> QED
    BY <2>2, <2>3, AsInt DEF StatusInv, ChildReported
<1>11. CASE UNCHANGED vars
  BY <1>11 DEF StatusInv, ChildReported
<1> QED
  BY <1>1, <1>2, <1>3, <1>4, <1>5, <1>6, <1>7, <1>8, <1>9, <1>10, <1>11
     DEF Next, Exited

-----------------------------------------------------------------------------
(* What parseArgs makes of the words it has read.                             *)

IsParser(p) ==
    DOMAIN p = {"javaOptions", "progArgs", "separateProcess", "nailgunClient",
                "noBootClassPath", "printCommandLine", "platformDir", "jdkhome",
                "bootclass", "cpBefore", "cpExplicit", "cpAfter", "classPath",
                "bootClassPath", "addedToCP", "addedToBootCP"}

\* That q has the fields of p that say what is to be started.
SameRequest(p, q) ==
    /\ IsParser(q) /\ q.platformDir = p.platformDir
    /\ q.progArgs = p.progArgs /\ q.printCommandLine = p.printCommandLine
    /\ q.nailgunClient = p.nailgunClient

LEMMA OptionFields ==
    ASSUME NEW p, IsParser(p), NEW w
    PROVE  LET q == ReadOption(p, w)
           IN  /\ IsParser(q)
               /\ q.progArgs = p.progArgs \o ForRuby(w)
               /\ q.printCommandLine = (p.printCommandLine \/ w.opt = "-Xcommand")
               /\ q.nailgunClient = (p.nailgunClient \/ w.opt = "--ng")
               /\ q.jdkhome = p.jdkhome
               /\ q.javaOptions = p.javaOptions \o ForJvm(w)
               /\ q.platformDir = p.platformDir
<1> DEFINE a == p.javaOptions \o ForJvm(w)
           b == p.progArgs \o ForRuby(w)
           c == p.separateProcess \/ w.opt = "-Xfork-java"
           d == p.printCommandLine \/ w.opt = "-Xcommand"
           e == p.nailgunClient \/ w.opt = "--ng"
           f == \/ p.noBootClassPath \/ EnablesAssertions(w)
                \/ w.opt \in {"-Xnobootclasspath", "--ng-server"}
           g == IF w.opt = "--ng-server"
                THEN "com/martiansoftware/nailgun/NGServer" ELSE p.bootclass
           q == [p EXCEPT !.javaOptions = a, !.progArgs = b, !.separateProcess = c,
                          !.printCommandLine = d, !.nailgunClient = e,
                          !.noBootClassPath = f, !.bootclass = g]
<1>1. ReadOption(p, w) = q
  BY Zenon DEF ReadOption
<1> HIDE DEF a, b, c, d, e, f, g
<1>2. /\ IsParser(q) /\ q.progArgs = b /\ q.printCommandLine = d
      /\ q.nailgunClient = e /\ q.jdkhome = p.jdkhome
      /\ q.javaOptions = a /\ q.platformDir = p.platformDir
  BY DEF IsParser
<1> QED
  BY <1>1, <1>2, Zenon DEF a, b, d, e

LEMMA ValueFields ==
    ASSUME NEW p, IsParser(p), NEW opt, NEW value
    PROVE  LET q == ReadValue(p, opt, value)
           IN  /\ SameRequest(p, q) /\ q.javaOptions = p.javaOptions
               /\ q.jdkhome = IF opt = "-Xjdkhome" THEN value ELSE p.jdkhome
<1>1. CASE opt = "-Xbootclass"
  BY <1>1 DEF ReadValue, IsParser, SameRequest
<1>2. CASE opt = "-Xjdkhome"
  BY <1>2 DEF ReadValue, IsParser, SameRequest
<1>3. CASE opt = "-Xcp:p"
  BY <1>3 DEF ReadValue, IsParser, SameRequest
<1>4. CASE opt = "-Xcp:a"
  BY <1>4 DEF ReadValue, IsParser, SameRequest
<1>5. CASE opt \in {"-J-cp", "-J-classpath"}
  BY <1>5 DEF ReadValue, IsParser, SameRequest
<1>6. CASE opt \notin {"-Xbootclass", "-Xjdkhome", "-Xcp:p", "-Xcp:a", "-J-cp",
                       "-J-classpath"}
  <2>1. ReadValue(p, opt, value) = p
    BY <1>6 DEF ReadValue
  <2> QED
    BY <1>6, <2>1 DEF SameRequest
<1> QED
  BY <1>1, <1>2, <1>3, <1>4, <1>5, <1>6

\* What an option leaves to Ruby is never taken for the script.
LEMMA ForRubyIs ==
    ASSUME NEW w
    PROVE  /\ IsSeq(ForRuby(w))
           /\ \A i \in 1 .. Len(ForRuby(w)) : ForRuby(w)[i].opt \notin NonOptions
<1>1. CASE w.opt \in {"--dev", "ruby"}
  <2>1. ForRuby(w) = <<w>>
    BY <1>1 DEF ForRuby
  <2> QED
    BY <1>1, <2>1, SingleWord DEF NonOptions
<1>2. CASE w.opt \in {"-Xhelp", "-Xproperties"}
  <2>1. PICK text : ForRuby(w) = << Word("ruby", <<text>>) >>
    BY <1>2 DEF ForRuby
  <2> QED
    BY <2>1, SingleWord DEF NonOptions, Word
<1>3. CASE w.opt \notin {"--dev", "ruby", "-Xhelp", "-Xproperties"}
  <2>1. ForRuby(w) = <<>>
    BY <1>3 DEF ForRuby
  <2>2. IsSeq(<<>>)
    <3>1. <<>> \in Seq({})
      OBVIOUS
    <3> QED
      BY <3>1 DEF IsSeq
  <2> QED
    BY <2>1, <2>2
<1> QED
  BY <1>1, <1>2, <1>3

-----------------------------------------------------------------------------
(* The first word that is Ruby's.                                             *)

StartsAt(k) == args[k].opt \in NonOptions /\ ~(k > 1 /\ args[k - 1].opt \in TakesValue)

LEMMA ScriptAtFirst ==
    ASSUME args \in Seq(Words), NEW n \in 0 .. Len(args),
           \A k \in 1 .. n : ~StartsAt(k),
           n < Len(args) => StartsAt(n + 1)
    PROVE  ScriptAt(args) = n + 1
<1> DEFINE starts == {j \in DOMAIN args : /\ args[j].opt \in NonOptions
                                          /\ ~(j > 1 /\ args[j - 1].opt \in TakesValue)}
<1>0. starts = {j \in 1 .. Len(args) : StartsAt(j)}
  BY DEF StartsAt
<1> HIDE DEF starts
<1>1. CASE n = Len(args)
  <2>1. starts = {}
    BY <1>0, <1>1
  <2> QED
    BY <1>1, <2>1 DEF ScriptAt, starts
<1>2. CASE n < Len(args)
  <2>1. /\ n + 1 \in starts
        /\ \A y \in starts : n + 1 <= y
        /\ \A y \in starts : y \in Int
    BY <1>0, <1>2
  <2>2. Min(starts) = n + 1
    BY <2>1 DEF Min
  <2>3. starts # {}
    BY <2>1
  <2> QED
    BY <2>2, <2>3 DEF ScriptAt, starts
<1> QED
  BY <1>1, <1>2

-----------------------------------------------------------------------------
(* Parsing: of the words before the first n + 1 that is Ruby's, or before the *)
(* one that is looked at, the parser has what they say, and it has the words  *)
(* from there on as they are.                                                 *)

HomesUpTo(n) == {j \in 2 .. n : args[j - 1].opt = "-Xjdkhome"}
LastHome(n) == IF HomesUpTo(n) = {} THEN "" ELSE args[Max(HomesUpTo(n))].text[1]

Asked(opt, n) == \E k \in 1 .. n : args[k].opt = opt

WordsRead(n) ==
    /\ n \in 0 .. Len(args)
    /\ n > 0 => args[n].opt \notin TakesValue
    /\ \A k \in 1 .. n :
         /\ ~StartsAt(k)
         /\ args[k].opt # "-Xversion"
         /\ args[k].opt \in TakesValue => k < n /\ args[k + 1].opt = "plain"

FlagsRead(n) ==
    /\ parser.printCommandLine <=> Asked("-Xcommand", n)
    /\ parser.nailgunClient <=> Asked("--ng", n)

HomeRead(n) == parser.jdkhome = LastHome(n)

\* Ruby's arguments are some that are not the script, and then the words from
\* n + 1 on.
ArgsRead(n) ==
    /\ IsSeq(parser.progArgs)
    /\ Len(parser.progArgs) - (it - 1 - n) \in Nat
    /\ \A i \in 1 .. Len(parser.progArgs) - (it - 1 - n) :
         parser.progArgs[i].opt \notin NonOptions
    /\ \A i \in 1 .. it - 1 - n :
         parser.progArgs[Len(parser.progArgs) - (it - 1 - n) + i] = args[n + i]

\* The options of the JVM that the launcher also sets itself: what the user says
\* of one, up to a word, is the last that the parser has of it.
UserOpts == {"-Xss", "-Djruby.home="}

SaidUpTo(opt, n) == {k \in 1 .. n : args[k].opt = "-J" /\ args[k].text[1] = opt}
Says(opt, n) == IF SaidUpTo(opt, n) # {} THEN Tail(args[Max(SaidUpTo(opt, n))].text)
                ELSE env.JAVA_OPTS[Max(SaidByEnv(opt))].text
Heard(ws, n) == \A opt \in UserOpts : SaidUpTo(opt, n) \cup SaidByEnv(opt) # {}
                                        => LastIs(ws, opt, Says(opt, n))

CpIsUsers(ws) == Lacks(env.JAVA_OPTS, "-cp") => Lacks(ws, "-cp")

\* The options that are for a Java with modules, or for one without: what the user
\* does not say of them, up to a word, the parser does not have.
FitOpts == {"--module-path=", "--add-opens", "@", "-Xbootclasspath/a:"}

Unsaid(ws, n) == \A opt \in FitOpts :
                     SaidUpTo(opt, n) \cup SaidByEnv(opt) = {} => Lacks(ws, opt)

JavaRead(n) ==
    /\ IsSeq(parser.javaOptions)
    /\ Heard(parser.javaOptions, n) /\ CpIsUsers(parser.javaOptions)
    /\ Unsaid(parser.javaOptions, n)

Boundary(n) == IF doneScanning THEN n + 1 < it /\ StartsAt(n + 1) ELSE n = it - 1

ReadUpTo(n) == WordsRead(n) /\ FlagsRead(n) /\ HomeRead(n) /\ ArgsRead(n) /\ JavaRead(n)

Parsing ==
    /\ args \in Seq(Words) /\ it \in 1 .. Len(args) + 1 /\ doneScanning \in BOOLEAN
    /\ IsParser(parser)
    /\ \E n \in Nat : Boundary(n) /\ ReadUpTo(n)

\* A word that is no value of -Xjdkhome does not change the last home.
LEMMA SameHome ==
    ASSUME NEW m, NEW n, HomesUpTo(m) = HomesUpTo(n)
    PROVE  LastHome(m) = LastHome(n)
BY Zenon DEF LastHome

LEMMA NewHome ==
    ASSUME NEW m \in Nat, m \in HomesUpTo(m)
    PROVE  LastHome(m) = args[m].text[1]
<1>1. Max(HomesUpTo(m)) = m
  <2>1. \A j \in HomesUpTo(m) : j \in Int /\ j <= m
    BY DEF HomesUpTo
  <2>2. \A x \in HomesUpTo(m) : (\A y \in HomesUpTo(m) : x >= y) => x = m
    BY <2>1
  <2> QED
    BY <2>1, <2>2 DEF Max
<1>2. HomesUpTo(m) # {}
  OBVIOUS
<1> QED
  BY <1>1, <1>2, Zenon DEF LastHome

LEMMA JdkHomeTakesValue ==
    /\ "-Xjdkhome" \in TakesValue
    /\ "plain" \notin TakesValue /\ "plain" \in NonOptions
    /\ "-Xcommand" \notin TakesValue /\ "--ng" \notin TakesValue
    /\ \A opt \in TakesValue : opt \notin NonOptions \cup {"-Xversion", "-Xcommand", "--ng"}
BY DEF TakesValue, NonOptions

\* One more word has been read, which is an option.
LEMMA OneWord ==
    ASSUME args \in Seq(Words), NEW n \in Nat, WordsRead(n), n < Len(args),
           args[n + 1].opt \notin NonOptions \cup TakesValue \cup {"-Xversion"}
    PROVE  /\ WordsRead(n + 1)
           /\ LastHome(n + 1) = LastHome(n)
           /\ \A opt : Asked(opt, n + 1) <=> Asked(opt, n) \/ args[n + 1].opt = opt
<1>1. WordsRead(n + 1)
  BY DEF WordsRead, StartsAt
<1>2. HomesUpTo(n + 1) = HomesUpTo(n)
  BY JdkHomeTakesValue DEF HomesUpTo, WordsRead
<1>3. \A opt : Asked(opt, n + 1) <=> Asked(opt, n) \/ args[n + 1].opt = opt
  BY DEF Asked
<1> QED
  BY <1>1, <1>2, <1>3, SameHome

\* An option and its value have been read.
LEMMA TwoWords ==
    ASSUME args \in Seq(Words), NEW n \in Nat, WordsRead(n), n + 1 < Len(args),
           args[n + 1].opt \in TakesValue, args[n + 2].opt = "plain"
    PROVE  /\ WordsRead(n + 2)
           /\ LastHome(n + 2) = IF args[n + 1].opt = "-Xjdkhome"
                                THEN args[n + 2].text[1] ELSE LastHome(n)
           /\ \A opt \in {"-Xcommand", "--ng"} : Asked(opt, n + 2) <=> Asked(opt, n)
<1>1. WordsRead(n + 2)
  BY JdkHomeTakesValue DEF WordsRead, StartsAt
<1>2. ASSUME args[n + 1].opt = "-Xjdkhome" PROVE LastHome(n + 2) = args[n + 2].text[1]
  <2>1. n + 2 \in HomesUpTo(n + 2)
    BY <1>2 DEF HomesUpTo
  <2> QED
    BY <2>1, NewHome
<1>3. ASSUME args[n + 1].opt # "-Xjdkhome" PROVE LastHome(n + 2) = LastHome(n)
  <2>1. HomesUpTo(n + 2) = HomesUpTo(n)
    BY <1>3, JdkHomeTakesValue DEF HomesUpTo, WordsRead
  <2> QED
    BY <1>3, <2>1, SameHome
<1>4. ASSUME NEW opt \in {"-Xcommand", "--ng"} PROVE Asked(opt, n + 2) <=> Asked(opt, n)
  BY <1>4, JdkHomeTakesValue DEF Asked
<1> QED
  BY <1>1, <1>2, <1>3, <1>4

\* The options of the JVM an option of the launcher stands for.
LEMMA ForJvmIs ==
    ASSUME NEW w
    PROVE  /\ IsSeq(ForJvm(w))
           /\ w.opt = "-J" => ForJvm(w) = << Word(w.text[1], Tail(w.text)) >>
           /\ w.opt # "-J" => \A opt \in UserOpts \cup FitOpts \cup {"-cp"} :
                               Lacks(ForJvm(w), opt)
<1> DEFINE One == {"-Xprop", "-Xconsole", "--server", "--client", "--ng-server",
                   "--sample", "--headless", "-Xhelp"}
<1>1. CASE w.opt = "-J"
  <2>1. ForJvm(w) = << Word(w.text[1], Tail(w.text)) >>
    BY <1>1 DEF ForJvm
  <2> QED
    BY <1>1, <2>1, SingleWord
<1>2. CASE w.opt \in One
  <2>1. PICK opt, text : /\ ForJvm(w) = << Word(opt, text) >>
                         /\ opt \notin UserOpts \cup FitOpts \cup {"-cp"}
    BY <1>2 DEF ForJvm, UserOpts, FitOpts
  <2> QED
    BY <1>2, <2>1, SingleWord DEF Lacks, Word
<1>3. CASE w.opt = "--manage"
  <2>1. ForJvm(w) = << Word("-Dcom.sun.management.jmxremote", <<>>),
                       Word("-Djruby.", <<"management.enabled=true">>) >>
    BY <1>3 DEF ForJvm
  <2>2. PICK a, b : /\ ForJvm(w) = <<a, b>>
                    /\ \A v \in {a, b} : v.opt \notin UserOpts \cup FitOpts \cup {"-cp"}
    BY <2>1 DEF UserOpts, FitOpts, Word
  <2>3. <<a, b>> \in Seq({a, b}) /\ \A j \in 1 .. Len(<<a, b>>) : <<a, b>>[j] \in {a, b}
    OBVIOUS
  <2> QED
    BY <1>3, <2>2, <2>3 DEF Lacks, IsSeq
<1>4. CASE w.opt = "--dev"
  <2>1. ForJvm(w) = << Word("-XX:+TieredCompilation", <<>>),
                       Word("-XX:TieredStopAtLevel=", <<"1">>),
                       Word("-Djruby.", <<"compile.mode=OFF">>),
                       Word("-Djruby.", <<"compile.invokedynamic=false">>) >>
    BY <1>4 DEF ForJvm
  <2>2. PICK a, b, c, d : /\ ForJvm(w) = <<a, b, c, d>>
                          /\ \A v \in {a, b, c, d} : v.opt \notin UserOpts \cup FitOpts \cup {"-cp"}
    BY <2>1 DEF UserOpts, FitOpts, Word
  <2>3. /\ <<a, b, c, d>> \in Seq({a, b, c, d})
        /\ \A j \in 1 .. Len(<<a, b, c, d>>) : <<a, b, c, d>>[j] \in {a, b, c, d}
    OBVIOUS
  <2> QED
    BY <1>4, <2>2, <2>3 DEF Lacks, IsSeq
<1>5. CASE w.opt \notin One \cup {"-J", "--manage", "--dev"}
  <2>1. ForJvm(w) = <<>>
    BY <1>5 DEF ForJvm
  <2>2. <<>> \in Seq({}) /\ 1 .. Len(<<>>) = {}
    OBVIOUS
  <2> QED
    BY <1>5, <2>1, <2>2 DEF Lacks, IsSeq
<1> QED
  BY <1>1, <1>2, <1>3, <1>4, <1>5

LEMMA HeardStays ==
    ASSUME UNCHANGED <<env, args>>, NEW ws, NEW n
    PROVE  /\ Heard(ws, n)' <=> Heard(ws, n)
           /\ CpIsUsers(ws)' <=> CpIsUsers(ws)
           /\ Unsaid(ws, n)' <=> Unsaid(ws, n)
<1>1. \A opt : SaidUpTo(opt, n)' = SaidUpTo(opt, n)
  BY DEF SaidUpTo
<1>2. \A opt : SaidByEnv(opt)' = SaidByEnv(opt)
  BY DEF SaidByEnv, Where
<1>3. \A opt : Says(opt, n)' = Says(opt, n)
  BY <1>1, <1>2, Zenon DEF Says
<1> QED
  BY <1>1, <1>2, <1>3, Zenon DEF Heard, CpIsUsers, Unsaid

\* Words that are no options of the JVM.
LEMMA SameHeard ==
    ASSUME UNCHANGED <<env, args>>, NEW n, NEW m, JavaRead(n),
           parser'.javaOptions = parser.javaOptions,
           \A opt : SaidUpTo(opt, m) = SaidUpTo(opt, n)
    PROVE  JavaRead(m)'
<1>1. PICK ws : ws = parser.javaOptions
  OBVIOUS
<1>2. \A opt : Says(opt, m) = Says(opt, n)
  BY Zenon DEF Says
<1>3. IsSeq(ws) /\ Heard(ws, m) /\ CpIsUsers(ws) /\ Unsaid(ws, m)
  BY <1>1, <1>2, Zenon DEF JavaRead, Heard, Unsaid
<1>4. Heard(ws, m)' /\ CpIsUsers(ws)' /\ Unsaid(ws, m)'
  BY <1>3, HeardStays
<1> QED
  BY <1>1, <1>3, <1>4, Zenon DEF JavaRead

\* One that may be one.
LEMMA OneHeard ==
    ASSUME UNCHANGED <<env, args>>, NEW n \in Nat, n < Len(args),
           NEW w \in Words, args[n + 1] = w,
           JavaRead(n), parser'.javaOptions = parser.javaOptions \o ForJvm(w)
    PROVE  JavaRead(n + 1)'
<1>1. PICK s, t : s = parser.javaOptions /\ t = ForJvm(w)
  OBVIOUS
<1>2. IsSeq(s) /\ IsSeq(t) /\ Heard(s, n) /\ CpIsUsers(s) /\ Unsaid(s, n)
  BY <1>1, ForJvmIs DEF JavaRead
<1>3. CpIsUsers(s \o t)
  <2>1. Lacks(t, "-cp")
    <3>1. CASE w.opt # "-J"
      BY <1>1, <3>1, ForJvmIs
    <3>2. CASE w.opt = "-J"
      <4>1. PICK opt, text : t = << Word(opt, text) >> /\ opt # "-cp"
        BY <1>1, <3>2, ForJvmIs DEF Words
      <4> QED
        BY <4>1, SingleWord DEF Lacks, Word
    <3> QED
      BY <3>1, <3>2
  <2> QED
    BY <1>2, <2>1, BothLack DEF CpIsUsers
<1>4. Heard(s \o t, n + 1)
  <2> SUFFICES ASSUME NEW opt \in UserOpts, SaidUpTo(opt, n + 1) \cup SaidByEnv(opt) # {}
               PROVE  LastIs(s \o t, opt, Says(opt, n + 1))
    BY DEF Heard
  <2>1. CASE w.opt = "-J" /\ w.text[1] = opt
    <3>1. /\ n + 1 \in SaidUpTo(opt, n + 1)
          /\ \A k \in SaidUpTo(opt, n + 1) : k \in Int /\ n + 1 >= k
      BY <2>1 DEF SaidUpTo
    <3>2. Max(SaidUpTo(opt, n + 1)) = n + 1
      <4>1. PICK S : S = SaidUpTo(opt, n + 1)
        OBVIOUS
      <4>2. Max(S) = n + 1
        BY <3>1, <4>1 DEF Max
      <4> QED
        BY <4>1, <4>2
    <3>3. Says(opt, n + 1) = Tail(w.text)
      <4>1. SaidUpTo(opt, n + 1) # {}
        BY <3>1
      <4> QED
        BY <3>2, <4>1, Zenon DEF Says
    <3>4. PICK text : text = Tail(w.text)
      OBVIOUS
    <3>5. t = << Word(opt, text) >>
      BY <1>1, <2>1, <3>4, ForJvmIs
    <3>6. LastIs(t, opt, text)
      BY <3>5, SingleWord DEF LastIs, Word
    <3> QED
      BY <1>2, <3>3, <3>4, <3>6, LastOfBoth
  <2>2. CASE ~(w.opt = "-J" /\ w.text[1] = opt)
    <3>1. SaidUpTo(opt, n + 1) = SaidUpTo(opt, n)
      BY <2>2 DEF SaidUpTo
    <3>2. Says(opt, n + 1) = Says(opt, n)
      BY <3>1, Zenon DEF Says
    <3>3. LastIs(s, opt, Says(opt, n))
      BY <1>2, <3>1 DEF Heard
    <3>4. Lacks(t, opt)
      <4>1. CASE w.opt # "-J"
        BY <1>1, <4>1, ForJvmIs
      <4>2. CASE w.opt = "-J"
        <5>1. PICK o, text : t = << Word(o, text) >> /\ o # opt
          BY <1>1, <2>2, <4>2, ForJvmIs
        <5> QED
          BY <5>1, SingleWord DEF Lacks, Word
      <4> QED
        BY <4>1, <4>2
    <3> QED
      BY <1>2, <3>2, <3>3, <3>4, LastOfBoth
  <2> QED
    BY <2>1, <2>2
<1>5. Unsaid(s \o t, n + 1)
  <2> SUFFICES ASSUME NEW opt \in FitOpts, SaidUpTo(opt, n + 1) \cup SaidByEnv(opt) = {}
               PROVE  Lacks(s \o t, opt)
    BY DEF Unsaid
  <2>1. n + 1 \notin SaidUpTo(opt, n + 1) /\ SaidUpTo(opt, n) = {}
    BY DEF SaidUpTo
  <2>2. ~(w.opt = "-J" /\ w.text[1] = opt)
    BY <2>1 DEF SaidUpTo
  <2>3. Lacks(s, opt)
    BY <1>2, <2>1 DEF Unsaid
  <2>4. Lacks(t, opt)
    <3>1. CASE w.opt # "-J"
      BY <1>1, <3>1, ForJvmIs
    <3>2. CASE w.opt = "-J"
      <4>1. PICK o, text : t = << Word(o, text) >> /\ o # opt
        BY <1>1, <2>2, <3>2, ForJvmIs
      <4> QED
        BY <4>1, SingleWord DEF Lacks, Word
    <3> QED
      BY <3>1, <3>2
  <2> QED
    BY <1>2, <2>3, <2>4, BothLack
<1>6. PICK u, m : u = s \o t /\ m = n + 1
  OBVIOUS
<1>7. IsSeq(u) /\ Heard(u, m)' /\ CpIsUsers(u)' /\ Unsaid(u, m)'
  BY <1>2, <1>3, <1>4, <1>5, <1>6, Concatenation, HeardStays
<1> QED
  BY <1>1, <1>6, <1>7 DEF JavaRead

\* Before any word the environment has the word.
LEMMA EnvHeard ==
    ASSUME env' = env, env \in Environments, parser'.javaOptions = env.JAVA_OPTS,
           \A opt : SaidUpTo(opt, 0)' = {}
    PROVE  JavaRead(0)'
<1>1. PICK ws : ws = env.JAVA_OPTS
  OBVIOUS
<1>2. IsSeq(ws)
  BY <1>1 DEF Environments, IsSeq
<1>3. ASSUME NEW opt \in UserOpts, SaidByEnv(opt)' # {}
      PROVE  LastIs(ws, opt, Says(opt, 0)')
  <2>1. SaidByEnv(opt)' = Where(ws, {opt})
    BY <1>1 DEF SaidByEnv
  <2>2. Says(opt, 0)' = ws[Max(Where(ws, {opt}))].text
    <3>1. Says(opt, 0)' = env'.JAVA_OPTS[Max(SaidByEnv(opt)')].text
      BY Zenon DEF Says
    <3> QED
      BY <1>1, <2>1, <3>1, Zenon
  <2> QED
    BY <1>2, <1>3, <2>1, <2>2, LastIsWhere
<1>4. Heard(ws, 0)'
  BY <1>3 DEF Heard
<1>5. CpIsUsers(ws)'
  BY <1>1 DEF CpIsUsers
<1>6. Unsaid(ws, 0)'
  <2>1. \A opt : SaidByEnv(opt)' = Where(ws, {opt})
    BY <1>1 DEF SaidByEnv
  <2>2. \A opt : Where(ws, {opt}) = {} => Lacks(ws, opt)
    BY <1>2, WhereNone
  <2> QED
    BY <2>1, <2>2 DEF Unsaid
<1> QED
  BY <1>1, <1>2, <1>4, <1>5, <1>6 DEF JavaRead

LEMMA Appended ==
    ASSUME NEW s, IsSeq(s), NEW w
    PROVE  /\ IsSeq(Append(s, w))
           /\ Len(s) \in Nat /\ Len(Append(s, w)) = Len(s) + 1
           /\ \A i \in 1 .. Len(s) : Append(s, w)[i] = s[i]
           /\ Append(s, w)[Len(s) + 1] = w
<1>1. PICK S : s \in Seq(S)
  BY DEF IsSeq
<1>2. s \in Seq(S \cup {w}) /\ w \in S \cup {w}
  BY <1>1
<1>3. Append(s, w) \in Seq(S \cup {w})
  BY <1>2
<1>4. IsSeq(Append(s, w))
  BY <1>3 DEF IsSeq
<1> QED
  BY <1>2, <1>4

\* What is said of the words alone stays as it is.
LEMMA WordsStay ==
    ASSUME UNCHANGED args, NEW n
    PROVE  /\ WordsRead(n)' <=> WordsRead(n)
           /\ LastHome(n)' = LastHome(n)
           /\ StartsAt(n)' <=> StartsAt(n)
           /\ \A opt : Asked(opt, n)' <=> Asked(opt, n)
<1>1. (HomesUpTo(n) = {})' <=> HomesUpTo(n) = {}
  BY DEF HomesUpTo
<1>2. LastHome(n)' = LastHome(n)
  BY Zenon DEF LastHome, HomesUpTo
<1> QED
  BY <1>2 DEF WordsRead, StartsAt, Asked

LEMMA ParsingOption ==
    ASSUME Parsing, UNCHANGED <<env, args>>, it <= Len(args), OptionWord
    PROVE  Parsing'
<1>1. PICK n \in Nat : Boundary(n) /\ ReadUpTo(n)
  BY DEF Parsing
<1> DEFINE w == args[it]
<1>2. /\ args \in Seq(Words) /\ it \in 1 .. Len(args) /\ IsParser(parser)
      /\ doneScanning = FALSE /\ n = it - 1
      /\ w.opt \notin NonOptions \cup TakesValue \cup {"-Xversion"}
      /\ it' = it + 1 /\ UNCHANGED doneScanning
  BY <1>1 DEF Parsing, OptionWord, EndsScanning, Boundary
<1>3. WordsRead(n) /\ FlagsRead(n) /\ HomeRead(n) /\ ArgsRead(n) /\ JavaRead(n)
  BY <1>1 DEF ReadUpTo
<1>4. /\ IsParser(parser')
      /\ parser'.progArgs = parser.progArgs \o ForRuby(w)
      /\ parser'.printCommandLine = (parser.printCommandLine \/ w.opt = "-Xcommand")
      /\ parser'.nailgunClient = (parser.nailgunClient \/ w.opt = "--ng")
      /\ parser'.jdkhome = parser.jdkhome
      /\ parser'.javaOptions = parser.javaOptions \o ForJvm(w)
  <2>1. parser' = ReadOption(parser, w) /\ IsParser(parser)
    BY <1>2 DEF OptionWord
  <2>2. \A v : /\ IsParser(ReadOption(parser, v))
               /\ ReadOption(parser, v).progArgs = parser.progArgs \o ForRuby(v)
               /\ ReadOption(parser, v).printCommandLine
                     = (parser.printCommandLine \/ v.opt = "-Xcommand")
               /\ ReadOption(parser, v).nailgunClient
                     = (parser.nailgunClient \/ v.opt = "--ng")
               /\ ReadOption(parser, v).jdkhome = parser.jdkhome
               /\ ReadOption(parser, v).javaOptions = parser.javaOptions \o ForJvm(v)
    BY <2>1, OptionFields, Zenon
  <2> HIDE DEF w
  <2> QED
    BY <2>1, <2>2, ZenonT(30)
<1>5. /\ WordsRead(n + 1) /\ LastHome(n + 1) = LastHome(n)
      /\ \A opt : Asked(opt, n + 1) <=> Asked(opt, n) \/ w.opt = opt
  <2>1. args[n + 1] = w /\ n < Len(args)
    BY <1>2
  <2> QED
    BY <1>2, <1>3, <2>1, OneWord
<1> HIDE DEF w
<1>6. WordsRead(n + 1)' /\ HomeRead(n + 1)'
  BY <1>3, <1>4, <1>5, WordsStay DEF HomeRead
<1>7. FlagsRead(n + 1)'
  <2>1. parser'.printCommandLine <=> Asked("-Xcommand", n + 1)
    BY <1>3, <1>4, <1>5, Zenon DEF FlagsRead
  <2>2. parser'.nailgunClient <=> Asked("--ng", n + 1)
    BY <1>3, <1>4, <1>5, Zenon DEF FlagsRead
  <2> QED
    BY <2>1, <2>2, WordsStay DEF FlagsRead
<1>8. ArgsRead(n + 1)'
  <2>1. IsSeq(parser.progArgs) /\ IsSeq(ForRuby(w))
    BY <1>3, ForRubyIs DEF ArgsRead
  <2>2. \A i \in 1 .. Len(ForRuby(w)) : ForRuby(w)[i].opt \notin NonOptions
    BY ForRubyIs
  <2>3. it - 1 - n = 0 /\ it' - 1 - (n + 1) = 0
    BY <1>2
  <2>4. Len(parser.progArgs) \in Nat /\ Len(ForRuby(w)) \in Nat
    BY <2>1, Concatenation
  <2>5. \A i \in 1 .. Len(parser.progArgs) : parser.progArgs[i].opt \notin NonOptions
    BY <1>3, <2>3, <2>4 DEF ArgsRead
  <2>p. PICK s, t : s = parser.progArgs /\ t = ForRuby(w)
    OBVIOUS
  <2>6. /\ IsSeq(s \o t) /\ Len(s) \in Nat /\ Len(t) \in Nat
        /\ Len(s \o t) = Len(s) + Len(t)
        /\ \A i \in 1 .. Len(s) : (s \o t)[i] = s[i]
        /\ \A i \in 1 .. Len(t) : (s \o t)[Len(s) + i] = t[i]
    <3>1. IsSeq(s) /\ IsSeq(t)
      BY <2>1, <2>p
    <3> QED
      BY <3>1, Concatenation
  <2>7. ASSUME NEW i \in 1 .. Len(s \o t) PROVE (s \o t)[i].opt \notin NonOptions
    <3>1. CASE i <= Len(s)
      BY <2>5, <2>6, <2>p, <3>1
    <3>2. CASE i > Len(s)
      <4>1. PICK k \in 1 .. Len(t) : i = Len(s) + k
        <5>1. i - Len(s) \in 1 .. Len(t) /\ i = Len(s) + (i - Len(s))
          BY <2>6, <3>2
        <5> QED
          BY <5>1
      <4> QED
        BY <2>2, <2>6, <2>p, <4>1
    <3> QED
      BY <2>6, <3>1, <3>2
  <2>8. parser'.progArgs = s \o t
    BY <1>4, <2>p
  <2> QED
    BY <2>3, <2>6, <2>7, <2>8 DEF ArgsRead
<1>9. Boundary(n + 1)' /\ n + 1 \in Nat
  BY <1>2 DEF Boundary
<1>11. JavaRead(n + 1)'
  <2>1. PICK v : v = w
    OBVIOUS
  <2>2. v \in Words /\ args[n + 1] = v /\ n < Len(args)
    BY <1>2, <2>1 DEF w
  <2>3. parser'.javaOptions = parser.javaOptions \o ForJvm(v)
    BY <1>4, <2>1, Zenon
  <2> QED
    BY <1>3, <2>2, <2>3, OneHeard
<1>10. args' \in Seq(Words) /\ it' \in 1 .. Len(args') + 1 /\ doneScanning' \in BOOLEAN
  <2>1. doneScanning' \in BOOLEAN
    BY <1>2
  <2>2. args' = args /\ args \in Seq(Words) /\ it \in 1 .. Len(args) /\ it' = it + 1
    BY <1>2
  <2> QED
    BY <2>1, <2>2
<1> QED
  BY <1>4, <1>6, <1>7, <1>8, <1>9, <1>10, <1>11 DEF Parsing, ReadUpTo

LEMMA ParsingValue ==
    ASSUME Parsing, UNCHANGED <<env, args>>, it <= Len(args), ValueWords
    PROVE  Parsing'
<1>1. PICK n \in Nat : Boundary(n) /\ ReadUpTo(n)
  BY DEF Parsing
<1>2. /\ args \in Seq(Words) /\ it \in 1 .. Len(args) /\ IsParser(parser)
      /\ doneScanning = FALSE /\ n = it - 1 /\ it < Len(args)
      /\ args[it].opt \in TakesValue /\ args[it + 1].opt = "plain"
      /\ it' = it + 2 /\ UNCHANGED doneScanning
  BY <1>1 DEF Parsing, ValueWords, ValueMissing, EndsScanning, Boundary
<1>3. WordsRead(n) /\ FlagsRead(n) /\ HomeRead(n) /\ ArgsRead(n) /\ JavaRead(n)
  BY <1>1 DEF ReadUpTo
<1>4. /\ SameRequest(parser, parser') /\ parser'.javaOptions = parser.javaOptions
      /\ parser'.jdkhome = IF args[it].opt = "-Xjdkhome" THEN args[it + 1].text[1]
                                                          ELSE parser.jdkhome
  BY <1>2, ValueFields DEF ValueWords
<1>5. /\ WordsRead(n + 2)
      /\ LastHome(n + 2) = IF args[it].opt = "-Xjdkhome" THEN args[it + 1].text[1]
                                                         ELSE LastHome(n)
      /\ \A opt \in {"-Xcommand", "--ng"} : Asked(opt, n + 2) <=> Asked(opt, n)
  <2>1. args[n + 1] = args[it] /\ args[n + 2] = args[it + 1] /\ n + 1 < Len(args)
    BY <1>2
  <2> QED
    BY <1>2, <1>3, <2>1, TwoWords
<1>6. WordsRead(n + 2)' /\ HomeRead(n + 2)'
  BY <1>3, <1>4, <1>5, WordsStay DEF HomeRead
<1>7. FlagsRead(n + 2)'
  <2>1. /\ parser'.printCommandLine <=> Asked("-Xcommand", n + 2)
        /\ parser'.nailgunClient <=> Asked("--ng", n + 2)
    BY <1>3, <1>4, <1>5 DEF FlagsRead, SameRequest
  <2> QED
    BY <2>1, WordsStay DEF FlagsRead
<1>8. ArgsRead(n + 2)'
  <2>1. it - 1 - n = 0 /\ it' - 1 - (n + 2) = 0
    BY <1>2
  <2> QED
    BY <1>3, <1>4, <2>1 DEF ArgsRead, SameRequest
<1>9. Boundary(n + 2)' /\ n + 2 \in Nat
  BY <1>2 DEF Boundary
<1>11. JavaRead(n + 2)'
  <2>1. args[n + 1].opt # "-J" /\ args[n + 2].opt # "-J"
    BY <1>2 DEF TakesValue
  <2>2. \A opt : SaidUpTo(opt, n + 2) = SaidUpTo(opt, n)
    BY <2>1 DEF SaidUpTo
  <2> QED
    BY <1>3, <1>4, <2>2, SameHeard
<1>10. args' \in Seq(Words) /\ it' \in 1 .. Len(args') + 1 /\ doneScanning' \in BOOLEAN
  <2>1. doneScanning' \in BOOLEAN
    BY <1>2
  <2>2. args' = args /\ args \in Seq(Words) /\ it \in 1 .. Len(args) /\ it < Len(args) /\ it' = it + 2
    BY <1>2
  <2> QED
    BY <2>1, <2>2
<1> QED
  BY <1>4, <1>6, <1>7, <1>8, <1>9, <1>10, <1>11 DEF Parsing, ReadUpTo, SameRequest

LEMMA ParsingRuby ==
    ASSUME Parsing, UNCHANGED <<env, args>>, it <= Len(args), RubyWord
    PROVE  Parsing'
<1>1. PICK n \in Nat : Boundary(n) /\ ReadUpTo(n)
  BY DEF Parsing
<1>2. /\ args \in Seq(Words) /\ it \in 1 .. Len(args) /\ IsParser(parser)
      /\ it' = it + 1 /\ doneScanning' = TRUE
      /\ doneScanning \in BOOLEAN
      /\ doneScanning \/ args[it].opt \in NonOptions
  BY DEF Parsing, RubyWord, EndsScanning
<1>3. WordsRead(n) /\ FlagsRead(n) /\ HomeRead(n) /\ ArgsRead(n) /\ JavaRead(n)
  BY <1>1 DEF ReadUpTo
<1>4. /\ parser'.progArgs = Append(parser.progArgs, args[it])
      /\ parser'.printCommandLine = parser.printCommandLine
      /\ parser'.nailgunClient = parser.nailgunClient
      /\ parser'.jdkhome = parser.jdkhome
      /\ IsParser(parser') /\ parser'.javaOptions = parser.javaOptions
  BY <1>2 DEF RubyWord, IsParser, SameRequest
<1>5. n + 1 <= it /\ StartsAt(n + 1)
  <2>1. CASE doneScanning
    BY <1>1, <1>2, <2>1 DEF Boundary
  <2>2. CASE ~doneScanning
    <3>1. n = it - 1 /\ args[n + 1].opt \in NonOptions
      BY <1>1, <1>2, <2>2 DEF Boundary
    <3>2. n + 1 > 1 => args[n + 1 - 1].opt \notin TakesValue
      BY <1>3 DEF WordsRead
    <3> QED
      BY <1>2, <3>1, <3>2 DEF StartsAt
  <2> QED
    BY <2>1, <2>2
<1>6. WordsRead(n)' /\ HomeRead(n)' /\ FlagsRead(n)'
  BY <1>3, <1>4, WordsStay DEF HomeRead, FlagsRead
<1>7. Boundary(n)'
  BY <1>2, <1>5, WordsStay DEF Boundary
<1>8. ArgsRead(n)'
  <2> DEFINE s == parser.progArgs
             k == it - 1 - n
             t == Append(s, args[it])
  <2>1. /\ IsSeq(s) /\ k \in Nat /\ it = n + 1 + k
        /\ Len(s) - k \in Nat
        /\ \A i \in 1 .. Len(s) - k : s[i].opt \notin NonOptions
        /\ \A i \in 1 .. k : s[Len(s) - k + i] = args[n + i]
    BY <1>2, <1>3, <1>5 DEF ArgsRead
  <2> HIDE DEF s, k
  <2>2. /\ IsSeq(t) /\ Len(s) \in Nat /\ Len(t) = Len(s) + 1
        /\ \A i \in 1 .. Len(s) : t[i] = s[i]
        /\ t[Len(s) + 1] = args[it]
    BY <2>1, Appended
  <2> HIDE DEF t
  <2>3. Len(t) - (k + 1) = Len(s) - k
    BY <2>1, <2>2
  <2>4. ASSUME NEW i \in 1 .. Len(s) - k PROVE t[i].opt \notin NonOptions
    <3>1. i \in 1 .. Len(s)
      BY <2>1, <2>2, <2>4
    <3> QED
      BY <2>1, <2>2, <3>1
  <2>5. ASSUME NEW i \in 1 .. k + 1 PROVE t[Len(s) - k + i] = args[n + i]
    <3>1. CASE i <= k
      <4>1. Len(s) - k + i \in 1 .. Len(s) /\ i \in 1 .. k
        <5>1. Len(s) \in Nat /\ k \in 0 .. Len(s)
          BY <2>1, <2>2
        <5> QED
          BY <3>1, <5>1
      <4>2. t[Len(s) - k + i] = s[Len(s) - k + i]
        BY <2>2, <4>1
      <4>3. s[Len(s) - k + i] = args[n + i]
        BY <2>1, <4>1
      <4> QED
        BY <4>2, <4>3
    <3>2. CASE i = k + 1
      <4>1. Len(s) - k + i = Len(s) + 1 /\ n + i = it
        BY <2>1, <2>2, <3>2, <1>2
      <4> QED
        BY <2>2, <4>1
    <3> QED
      BY <2>1, <3>1, <3>2
  <2>6. parser'.progArgs = t /\ it' - 1 - n = k + 1
    <3>1. parser'.progArgs = t
      BY <1>4 DEF t, s
    <3>2. it' - 1 - n = k + 1
      BY <1>2 DEF k
    <3> QED
      BY <3>1, <3>2
  <2>7. args' = args
    OBVIOUS
  <2> QED
    BY <2>1, <2>2, <2>3, <2>4, <2>5, <2>6, <2>7 DEF ArgsRead
<1>10. args' \in Seq(Words) /\ it' \in 1 .. Len(args') + 1 /\ doneScanning' \in BOOLEAN
  <2>1. doneScanning' \in BOOLEAN
    BY <1>2
  <2>2. args' = args /\ args \in Seq(Words) /\ it \in 1 .. Len(args) /\ it' = it + 1
    BY <1>2
  <2> QED
    BY <2>1, <2>2
<1>11. JavaRead(n)'
  BY <1>3, <1>4, SameHeard
<1> QED
  BY <1>4, <1>6, <1>7, <1>8, <1>10, <1>11 DEF Parsing, ReadUpTo

-----------------------------------------------------------------------------
(* prepareOptions, and the steps before and after parseArgs.                  *)

LEMMA SameTrans ==
    ASSUME NEW p, NEW q, NEW r, SameRequest(p, q), SameRequest(q, r)
    PROVE  SameRequest(p, r)
BY DEF SameRequest

LEMMA SameSelf == ASSUME NEW p, IsParser(p) PROVE SameRequest(p, p)
BY DEF SameRequest

\* The flags alone, as Ruby's arguments may grow.
SameFlags(p, q) ==
    /\ IsParser(q)
    /\ q.printCommandLine = p.printCommandLine /\ q.nailgunClient = p.nailgunClient

LEMMA FlagsOfRequest ==
    \A p, q : SameRequest(p, q) => SameFlags(p, q)
BY DEF SameRequest, SameFlags

\* Fields that are not of the request.
LEMMA OtherField ==
    ASSUME NEW p, IsParser(p), NEW q, NEW a,
           \/ q = [p EXCEPT !.jdkhome = a]
           \/ q = [p EXCEPT !.separateProcess = a]
    PROVE  SameRequest(p, q)
<1>1. CASE q = [p EXCEPT !.jdkhome = a]
  BY <1>1 DEF SameRequest, IsParser
<1>2. CASE q = [p EXCEPT !.separateProcess = a]
  BY <1>2 DEF SameRequest, IsParser
<1> QED
  BY <1>1, <1>2

\* That it moreover says in which process and for which home.
SameRun(p, q) == /\ SameRequest(p, q) /\ q.separateProcess = p.separateProcess
                 /\ q.jdkhome = p.jdkhome

LEMMA RunTrans ==
    ASSUME NEW p, NEW q, NEW r, SameRun(p, q), SameRun(q, r)
    PROVE  SameRun(p, r)
BY DEF SameRun, SameRequest

LEMMA RunSelf == ASSUME NEW p, IsParser(p) PROVE SameRun(p, p)
BY DEF SameRun, SameRequest

LEMMA LastField ==
    ASSUME NEW p, IsParser(p), NEW q, NEW a,
           \/ q = [p EXCEPT !.bootclass = a]
           \/ q = [p EXCEPT !.javaOptions = a]
    PROVE  SameRun(p, q)
<1>1. CASE q = [p EXCEPT !.bootclass = a]
  BY <1>1 DEF SameRun, SameRequest, IsParser
<1>2. CASE q = [p EXCEPT !.javaOptions = a]
  BY <1>2 DEF SameRun, SameRequest, IsParser
<1> QED
  BY <1>1, <1>2

LEMMA PathFields ==
    ASSUME NEW p, IsParser(p), NEW q, NEW a, NEW b,
           \/ q = [p EXCEPT !.addedToCP = a, !.classPath = b]
           \/ q = [p EXCEPT !.addedToBootCP = a, !.bootClassPath = b]
    PROVE  SameRun(p, q)
<1>1. CASE q = [p EXCEPT !.addedToCP = a, !.classPath = b]
  BY <1>1 DEF SameRun, SameRequest, IsParser
<1>2. CASE q = [p EXCEPT !.addedToBootCP = a, !.bootClassPath = b]
  BY <1>2 DEF SameRun, SameRequest, IsParser
<1> QED
  BY <1>1, <1>2

LEMMA BootPathFields ==
    ASSUME NEW p, IsParser(p), NEW path
    PROVE  SameRun(p, AddToBootClassPath(p, path))
<1>1. CASE p.noBootClassPath
  <2>1. AddToBootClassPath(p, path) = AddToClassPath(p, path)
    BY <1>1 DEF AddToBootClassPath
  <2>2. \/ AddToClassPath(p, path) = p
        \/ \E a, b : AddToClassPath(p, path) = [p EXCEPT !.addedToCP = a, !.classPath = b]
    BY Zenon DEF AddToClassPath
  <2> QED
    BY <2>1, <2>2, RunSelf, PathFields, Zenon
<1>2. CASE ~p.noBootClassPath
  <2>1. \/ AddToBootClassPath(p, path) = p
        \/ \E a, b : AddToBootClassPath(p, path) =
                       [p EXCEPT !.addedToBootCP = a, !.bootClassPath = b]
    BY <1>2, Zenon DEF AddToBootClassPath
  <2> QED
    BY <2>1, RunSelf, PathFields, Zenon
<1> QED
  BY <1>1, <1>2

LEMMA BootFields ==
    ASSUME NEW p, IsParser(p)
    PROVE  SameRun(p, ConstructBootClassPath(p))
<1> DEFINE q == [p EXCEPT !.addedToCP = {}, !.addedToBootCP = {}, !.classPath = p.cpBefore]
<1>1. SameRun(p, q)
  BY DEF SameRun, SameRequest, IsParser
<1>2. \/ ConstructBootClassPath(p) = q
      \/ \E path : ConstructBootClassPath(p) = AddToBootClassPath(q, path)
  <2>1. CASE InLib(p, "jruby.jar")
    <3>1. ConstructBootClassPath(p) = AddToBootClassPath(q, <<"jruby.jar">>)
      BY <2>1, Zenon DEF ConstructBootClassPath
    <3> QED
      BY <3>1
  <2>2. CASE ~InLib(p, "jruby.jar") /\ InLib(p, "jruby-complete.jar")
    <3>1. ConstructBootClassPath(p) = AddToBootClassPath(q, <<"jruby-complete.jar">>)
      BY <2>2, Zenon DEF ConstructBootClassPath
    <3> QED
      BY <3>1
  <2>3. CASE ~InLib(p, "jruby.jar") /\ ~InLib(p, "jruby-complete.jar")
    <3>1. ConstructBootClassPath(p) = q
      BY <2>3, Zenon DEF ConstructBootClassPath
    <3> QED
      BY <3>1
  <2> QED
    BY <2>1, <2>2, <2>3
<1> HIDE DEF q
<1>3. \A path : SameRun(q, AddToBootClassPath(q, path))
  BY <1>1, BootPathFields DEF SameRun, SameRequest
<1> QED
  BY <1>1, <1>2, <1>3, RunTrans

LEMMA PrepareFields ==
    ASSUME NEW p, IsParser(p)
    PROVE  SameRun(p, PrepareOptions(p))
<1>1. PICK q : q = ConstructBootClassPath(p)
  OBVIOUS
<1>2. SameRun(p, q)
  BY <1>1, BootFields
<1>3. PICK a, b : ConstructClassPath(q) = [q EXCEPT !.addedToCP = a, !.classPath = b]
  BY Zenon DEF ConstructClassPath
<1>4. PICK r : r = ConstructClassPath(q)
  OBVIOUS
<1>5. SameRun(q, r)
  <2>1. IsParser(q)
    BY <1>2 DEF SameRun, SameRequest
  <2> QED
    BY <1>3, <1>4, <2>1, PathFields, Zenon
<1>6. PICK c : \E d : PrepareOptions(p) = [[r EXCEPT !.bootclass = c] EXCEPT !.javaOptions = d]
  BY <1>1, <1>4, Zenon DEF PrepareOptions
<1>7. PICK d : PrepareOptions(p) = [[r EXCEPT !.bootclass = c] EXCEPT !.javaOptions = d]
  BY <1>6
<1>8. PICK u : u = [r EXCEPT !.bootclass = c]
  OBVIOUS
<1>9. SameRun(r, u)
  <2>1. IsParser(r)
    BY <1>5 DEF SameRun, SameRequest
  <2> QED
    BY <1>8, <2>1, LastField, Zenon
<1>10. SameRun(u, PrepareOptions(p))
  <2>1. IsParser(u) /\ PrepareOptions(p) = [u EXCEPT !.javaOptions = d]
    BY <1>7, <1>8, <1>9 DEF SameRun, SameRequest
  <2> QED
    BY <2>1, LastField, Zenon
<1> QED
  BY <1>2, <1>5, <1>9, <1>10, RunTrans

\* The parser as it is when the words are begun with.
IsFresh(q, home, options) ==
    /\ IsParser(q) /\ q.progArgs = <<>>
    /\ q.platformDir = home /\ q.javaOptions = options
    /\ q.printCommandLine = FALSE /\ q.nailgunClient = FALSE
    /\ q.jdkhome = NewParser.jdkhome

LEMMA NewParserFields ==
    ASSUME NEW a, NEW b, NEW c,
           NEW q, q = [NewParser EXCEPT !.platformDir = a, !.javaOptions = b,
                                        !.noBootClassPath = c]
    PROVE  IsFresh(q, a, b)
<1> SUFFICES ASSUME NEW none, NEW nowhere,
                    NEW p, p = [javaOptions |-> <<>>, progArgs |-> <<>>,
                                separateProcess |-> FALSE, nailgunClient |-> FALSE,
                                noBootClassPath |-> FALSE, printCommandLine |-> FALSE,
                                platformDir |-> nowhere, jdkhome |-> none, bootclass |-> none,
                                cpBefore |-> <<>>, cpExplicit |-> <<>>, cpAfter |-> <<>>,
                                classPath |-> <<>>, bootClassPath |-> <<>>,
                                addedToCP |-> {}, addedToBootCP |-> {}],
                    q = [p EXCEPT !.platformDir = a, !.javaOptions = b,
                                  !.noBootClassPath = c]
             PROVE  /\ IsParser(q) /\ q.progArgs = <<>>
                    /\ q.printCommandLine = FALSE /\ q.nailgunClient = FALSE
                    /\ q.jdkhome = p.jdkhome
                    /\ q.platformDir = a /\ q.javaOptions = b
  BY Zenon DEF NewParser, IsFresh
<1>1. /\ q = [javaOptions |-> b, progArgs |-> <<>>,
               separateProcess |-> FALSE, nailgunClient |-> FALSE,
               noBootClassPath |-> c, printCommandLine |-> FALSE,
               platformDir |-> a, jdkhome |-> none, bootclass |-> none,
               cpBefore |-> <<>>, cpExplicit |-> <<>>, cpAfter |-> <<>>,
               classPath |-> <<>>, bootClassPath |-> <<>>,
               addedToCP |-> {}, addedToBootCP |-> {}]
      /\ p.jdkhome = none
  OBVIOUS
<1>2. IsParser(q)
  BY <1>1 DEF IsParser
<1> QED
  BY <1>1, <1>2

LEMMA NewParserHome == NewParser.jdkhome = ""
BY Zenon DEF NewParser

-----------------------------------------------------------------------------
(* What was asked for.  The words before the script, once all are read, are   *)
(* those whose flags the parser has.                                          *)

OptionWords == ScriptAt(args) - 1

OptionsRead == args \in Seq(Words) /\ WordsRead(OptionWords)

Early      == {"main", "setup", "load", "start"}
BeforeJava == {"jdkhome", "java_home", "nailgun", "name", "java", "prepare"}
Launching  == {"launch", "dll", "inproc", "outproc"}

AskedInv ==
    /\ env \in Environments
    /\ pc \in Early => /\ args = <<>> /\ it = 1 /\ doneScanning = FALSE
                       /\ parser = NewParser
    /\ pc = "parse" => Parsing
    /\ pc \in BeforeJava \cup Launching => OptionsRead
    /\ pc \in BeforeJava => IsParser(parser) /\ FlagsRead(OptionWords)
    /\ pc = "nailgun" => Asked("--ng", OptionWords)
    /\ pc \in {"name", "java", "prepare"} \cup Launching => ~Asked("--ng", OptionWords)
    /\ pc \in Launching => ~Asked("-Xcommand", OptionWords)
    /\ child.how # "none" =>
          /\ pc \in {"running", "exited"}
          /\ OptionsRead /\ ~Asked("-Xcommand", OptionWords)
          /\ child.how = "nailgun" <=> Asked("--ng", OptionWords)

LEMMA OptionWordsStay ==
    ASSUME UNCHANGED args
    PROVE  /\ OptionsRead' <=> OptionsRead
           /\ \A opt : Asked(opt, OptionWords)' <=> Asked(opt, OptionWords)
           /\ SameFlags(parser, parser') =>
                (FlagsRead(OptionWords)' <=> FlagsRead(OptionWords))
           /\ OptionWords' = OptionWords
BY DEF OptionsRead, OptionWords, WordsRead, StartsAt, Asked, FlagsRead, SameFlags

\* When all words are read, the boundary is the script.
LEMMA BoundaryIsScript ==
    ASSUME Parsing, it > Len(args)
    PROVE  /\ OptionsRead /\ IsParser(parser) /\ it = Len(args) + 1
           /\ ReadUpTo(OptionWords) /\ ScriptAt(args) = OptionWords + 1
<1>1. PICK n \in Nat : Boundary(n) /\ ReadUpTo(n)
  BY DEF Parsing
<1>2. args \in Seq(Words) /\ it \in 1 .. Len(args) + 1 /\ IsParser(parser)
      /\ doneScanning \in BOOLEAN
  BY DEF Parsing
<1>3. it = Len(args) + 1
  BY <1>2
<1>4. n \in 0 .. Len(args) /\ (\A k \in 1 .. n : ~StartsAt(k)) /\ WordsRead(n)
  BY <1>1 DEF ReadUpTo, WordsRead
<1>5. n < Len(args) => StartsAt(n + 1)
  <2>1. CASE doneScanning
    BY <1>1, <2>1 DEF Boundary
  <2>2. CASE ~doneScanning
    <3>1. n = it - 1
      BY <1>1, <2>2 DEF Boundary
    <3> QED
      BY <1>2, <1>3, <3>1
  <2> QED
    BY <2>1, <2>2
<1>6. n = OptionWords /\ ScriptAt(args) = n + 1
  <2>1. ScriptAt(args) = n + 1
    BY <1>2, <1>4, <1>5, ScriptAtFirst
  <2> QED
    BY <1>4, <2>1 DEF OptionWords
<1> QED
  BY <1>1, <1>2, <1>3, <1>4, <1>6 DEF OptionsRead

\* The words are begun with.
LEMMA ParsingBegins ==
    ASSUME env \in Environments, it = 1, doneScanning = FALSE, parser = NewParser,
           NEW home, ReadEnvironment(home)
    PROVE  Parsing' /\ parser'.platformDir = home
<1>1. /\ parser' = [NewParser EXCEPT !.platformDir = home,
                                     !.javaOptions = env.JAVA_OPTS,
                                     !.noBootClassPath = env.VERIFY_JRUBY]
      /\ args' = env.JRUBY_OPTS \o env.line /\ it' = 1 /\ doneScanning' = FALSE
  BY DEF ReadEnvironment
<1>2. args' \in Seq(Words)
  <2>1. env.JRUBY_OPTS \in Seq(Words) /\ env.line \in Seq(Words)
    BY DEF Environments
  <2> QED
    BY <1>1, <2>1
<1>3. /\ IsParser(parser') /\ parser'.progArgs = <<>>
      /\ parser'.printCommandLine = FALSE /\ parser'.nailgunClient = FALSE
      /\ parser'.jdkhome = NewParser.jdkhome
      /\ parser'.javaOptions = env.JAVA_OPTS /\ parser'.platformDir = home
  <2>1. PICK b, c : b = env.JAVA_OPTS /\ c = env.VERIFY_JRUBY
    OBVIOUS
  <2>2. parser' = [NewParser EXCEPT !.platformDir = home, !.javaOptions = b,
                                    !.noBootClassPath = c]
    BY <1>1, <2>1, Zenon
  <2>3. IsFresh(parser', home, b)
    BY <2>2, NewParserFields, Zenon
  <2> QED
    BY <2>1, <2>3, Zenon DEF IsFresh
<1>4. WordsRead(0)' /\ FlagsRead(0)'
  BY <1>2, <1>3 DEF WordsRead, FlagsRead, Asked
<1>5. HomeRead(0)'
  <2>1. HomesUpTo(0)' = {}
    BY DEF HomesUpTo
  <2>2. LastHome(0)' = ""
    BY <2>1, Zenon DEF LastHome
  <2> QED
    BY <1>3, <2>2, NewParserHome, Zenon DEF HomeRead
<1>6. ArgsRead(0)'
  <2>1. IsSeq(<<>>)
    <3>1. <<>> \in Seq({})
      OBVIOUS
    <3> QED
      BY <3>1 DEF IsSeq
  <2> QED
    BY <1>1, <1>3, <2>1 DEF ArgsRead
<1>7. Boundary(0)'
  BY <1>1 DEF Boundary
<1>8. it' \in 1 .. Len(args') + 1 /\ doneScanning' \in BOOLEAN
  <2>1. Len(args') \in Nat /\ it' = 1
    <3>1. it' = 1
      BY <1>1
    <3>2. Len(args') \in Nat
      BY <1>2
    <3> QED
      BY <3>1, <3>2
  <2>2. it' \in 1 .. Len(args') + 1
    BY <2>1
  <2> QED
    BY <1>1, <2>2
<1>9. JavaRead(0)'
  <2>1. env' = env
    BY DEF ReadEnvironment
  <2>2. \A opt : SaidUpTo(opt, 0)' = {}
    BY DEF SaidUpTo
  <2> QED
    BY <1>3, <2>1, <2>2, EnvHeard
<1> QED
  BY <1>2, <1>3, <1>4, <1>5, <1>6, <1>7, <1>8, <1>9 DEF Parsing, ReadUpTo

LEMMA AskedInit == Init => AskedInv
<1> SUFFICES ASSUME Init PROVE AskedInv
  OBVIOUS
<1>1. env \in Environments
  BY ArgsAssumption, Zenon DEF Init, ArgsInit
<1>2. /\ args = <<>> /\ it = 1 /\ doneScanning = FALSE
      /\ parser = NewParser
  BY DEF Init, ArgsInit
<1>3. pc = "main" /\ child = NoChild
  BY DEF Init
<1> QED
  BY <1>1, <1>2, <1>3, NoChildIs
     DEF AskedInv, Early, BeforeJava, Launching

\* A step that ends the program before anything is started.
LEMMA AskedExit ==
    ASSUME AskedInv, StatusInv, UNCHANGED <<env, child>>,
           pc \notin {"running", "exited"}, pc' = "exited"
    PROVE  AskedInv'
BY DEF AskedInv, StatusInv, Early, BeforeJava, Launching

LEMMA AskedEarly ==
    ASSUME AskedInv, StatusInv, UNCHANGED <<argVars, child>>,
           pc \in Early, pc' \in Early
    PROVE  AskedInv'
BY DEF AskedInv, StatusInv, Early, BeforeJava, Launching, argVars

LEMMA AskedParsing ==
    ASSUME AskedInv, StatusInv, UNCHANGED <<env, child>>,
           pc \in Early \cup {"parse"}, pc' = "parse", Parsing'
    PROVE  AskedInv'
BY DEF AskedInv, StatusInv, Early, BeforeJava, Launching

LEMMA AskedChoosing ==
    ASSUME AskedInv, StatusInv, UNCHANGED <<env, args, child>>,
           OptionsRead, FlagsRead(OptionWords), SameFlags(parser, parser'),
           pc \in BeforeJava \cup {"parse"}, pc' \in BeforeJava,
           pc' = "nailgun" => Asked("--ng", OptionWords),
           pc' \in {"name", "java", "prepare"} => ~Asked("--ng", OptionWords)
    PROVE  AskedInv'
<1>1. /\ OptionsRead' /\ IsParser(parser') /\ FlagsRead(OptionWords)'
      /\ Asked("--ng", OptionWords)' <=> Asked("--ng", OptionWords)
  BY OptionWordsStay DEF SameFlags
<1>2. child.how = "none" /\ env \in Environments
  BY DEF AskedInv, StatusInv, BeforeJava
<1> QED
  BY <1>1, <1>2 DEF AskedInv, Early, BeforeJava, Launching

LEMMA AskedLaunching ==
    ASSUME AskedInv, StatusInv, UNCHANGED <<env, args, child>>,
           OptionsRead, ~Asked("--ng", OptionWords), ~Asked("-Xcommand", OptionWords),
           pc \in BeforeJava \cup Launching, pc' \in Launching
    PROVE  AskedInv'
<1>1. OptionsRead' /\ ~Asked("--ng", OptionWords)' /\ ~Asked("-Xcommand", OptionWords)'
  BY OptionWordsStay
<1>2. child.how = "none" /\ env \in Environments
  BY DEF AskedInv, StatusInv, BeforeJava, Launching
<1> QED
  BY <1>1, <1>2 DEF AskedInv, Early, BeforeJava, Launching

LEMMA AskedRunning ==
    ASSUME AskedInv, UNCHANGED <<env, args>>, OptionsRead,
           ~Asked("-Xcommand", OptionWords),
           child'.how = "nailgun" <=> Asked("--ng", OptionWords),
           pc' \in {"running", "exited"}
    PROVE  AskedInv'
<1>1. /\ OptionsRead' /\ ~Asked("-Xcommand", OptionWords)'
      /\ child'.how = "nailgun" <=> Asked("--ng", OptionWords)'
  BY OptionWordsStay
<1>2. env \in Environments
  BY DEF AskedInv
<1> QED
  BY <1>1, <1>2 DEF AskedInv, Early, BeforeJava, Launching

\* The steps of parsing.
LEMMA StartsParsing ==
    ASSUME Start
    PROVE  \/ UNCHANGED argVars /\ pc' = "exited"
           \/ pc' = "parse" /\ \E home : ReadEnvironment(home)
BY Zenon DEF Start, Exit

LEMMA AskedStart ==
    ASSUME AskedInv, StatusInv, Start
    PROVE  AskedInv'
<1>1. pc = "start" /\ UNCHANGED child
  BY DEF Start, winVars
<1>2. CASE UNCHANGED argVars /\ pc' = "exited"
  BY <1>1, <1>2, AskedExit DEF argVars
<1>3. CASE pc' = "parse" /\ \E home : ReadEnvironment(home)
  <2>1. PICK home : ReadEnvironment(home)
    BY <1>3
  <2>2. /\ env \in Environments /\ it = 1 /\ doneScanning = FALSE
        /\ parser = NewParser
    BY <1>1 DEF AskedInv, Early
  <2>3. Parsing'
    BY <2>1, <2>2, ParsingBegins
  <2>4. env' = env
    BY <2>1 DEF ReadEnvironment
  <2> QED
    BY <1>1, <1>3, <2>3, <2>4, AskedParsing DEF Early
<1> QED
  BY <1>2, <1>3, StartsParsing

LEMMA AskedParseWord ==
    ASSUME AskedInv, StatusInv, ParseWord
    PROVE  AskedInv'
<1>1. pc = "parse" /\ it <= Len(args) /\ UNCHANGED <<env, args, child>>
  BY DEF ParseWord, winVars
<1>2. Parsing
  BY <1>1 DEF AskedInv
<1>3. ASSUME RubyWord \/ OptionWord \/ ValueWords, UNCHANGED pc PROVE AskedInv'
  <2>1. Parsing'
    BY <1>1, <1>2, <1>3, ParsingRuby, ParsingOption, ParsingValue
  <2> QED
    BY <1>1, <1>3, <2>1, AskedParsing
<1>4. ASSUME Exit(FAILED) PROVE AskedInv'
  BY <1>1, <1>4, AskedExit DEF Exit
<1> QED
  BY <1>3, <1>4 DEF ParseWord

LEMMA AskedParseEnds ==
    ASSUME AskedInv, StatusInv, ParseEnds
    PROVE  AskedInv'
<1>1. /\ pc = "parse" /\ it > Len(args) /\ pc' = "jdkhome"
      /\ UNCHANGED <<env, args, parser, child>>
  BY DEF ParseEnds, winVars, argVars
<1>2. OptionsRead /\ IsParser(parser) /\ FlagsRead(OptionWords)
  BY <1>1, BoundaryIsScript DEF AskedInv, ReadUpTo
<1>3. SameFlags(parser, parser')
  BY <1>1, <1>2 DEF SameFlags
<1> QED
  BY <1>1, <1>2, <1>3, AskedChoosing DEF BeforeJava

\* The steps that choose a Java keep what was asked for.
LEMMA ChoosingKeepsRequest ==
    ASSUME IsParser(parser), CheckJDKHome \/ CheckJavaHome \/ ChooseJava \/ Prepare
    PROVE  SameRequest(parser, parser')
<1>1. ASSUME NEW a, \/ parser' = [parser EXCEPT !.jdkhome = a]
                   \/ parser' = [parser EXCEPT !.separateProcess = a]
      PROVE  SameRequest(parser, parser')
  BY <1>1, OtherField, Zenon
<1>2. ASSUME parser' = parser PROVE SameRequest(parser, parser')
  BY <1>2, SameSelf, Zenon
<1>3. ASSUME CheckJDKHome PROVE SameRequest(parser, parser')
  BY <1>1, <1>2, <1>3, Zenon DEF CheckJDKHome
<1>4. ASSUME CheckJavaHome PROVE SameRequest(parser, parser')
  BY <1>1, <1>2, <1>4, Zenon DEF CheckJavaHome
<1>5. ASSUME ChooseJava PROVE SameRequest(parser, parser')
  BY <1>1, <1>5, Zenon DEF ChooseJava
<1>6. ASSUME Prepare PROVE SameRequest(parser, parser')
  <2>1. parser' = PrepareOptions(parser)
    BY <1>6 DEF Prepare
  <2> QED
    BY <2>1, PrepareFields, Zenon DEF SameRun
<1> QED
  BY <1>3, <1>4, <1>5, <1>6

\* The words before Ruby's arguments, where the program's name says the script.
LEMMA NamedScript ==
    ASSUME IsParser(parser), AddScriptName
    PROVE  \/ parser' = parser
           \/ /\ SameFlags(parser, parser')
              /\ parser'.progArgs = << Word("ruby", <<"-S">>), Word("plain", <<env.name>>) >>
                                   \o parser.progArgs
<1>1. PICK words : words = << Word("ruby", <<"-S">>), Word("plain", <<env.name>>) >>
                           \o parser.progArgs
  OBVIOUS
<1>2. parser' = parser \/ parser' = [parser EXCEPT !.progArgs = words]
  BY <1>1, Zenon DEF AddScriptName
<1>3. ASSUME parser' = [parser EXCEPT !.progArgs = words]
      PROVE  SameFlags(parser, parser') /\ parser'.progArgs = words
  BY <1>3 DEF SameFlags, IsParser
<1> QED
  BY <1>1, <1>2, <1>3, Zenon

LEMMA ChoosingKeeps ==
    ASSUME IsParser(parser),
           CheckJDKHome \/ CheckJavaHome \/ AddScriptName \/ ChooseJava \/ Prepare
    PROVE  SameFlags(parser, parser')
BY ChoosingKeepsRequest, NamedScript, SameSelf, FlagsOfRequest, Zenon

LEMMA AskedChoosingStep ==
    ASSUME AskedInv, StatusInv,
           CheckJDKHome \/ CheckJavaHome \/ AddScriptName \/ ChooseJava \/ Prepare
    PROVE  AskedInv'
<1>1. /\ pc \in BeforeJava /\ pc \notin {"nailgun"}
      /\ UNCHANGED <<env, args, child>>
  BY DEF CheckJDKHome, CheckJavaHome, AddScriptName, ChooseJava, Prepare, BeforeJava, winVars
<1>2. /\ OptionsRead /\ IsParser(parser) /\ FlagsRead(OptionWords)
      /\ pc \in {"name", "java", "prepare"} => ~Asked("--ng", OptionWords)
  BY <1>1 DEF AskedInv
<1>3. SameFlags(parser, parser')
  BY <1>2, ChoosingKeeps
<1>4. pc \notin {"running", "exited"}
  BY <1>1 DEF BeforeJava
<1>5. ASSUME CheckJDKHome PROVE AskedInv'
  <2>1. pc' = "exited" \/ pc' = "java_home"
    BY <1>5, Zenon DEF CheckJDKHome, Exit
  <2> QED
    BY <1>1, <1>2, <1>3, <1>4, <2>1, AskedExit, AskedChoosing DEF BeforeJava
<1>6. ASSUME CheckJavaHome PROVE AskedInv'
  <2>1. \/ pc' = "exited"
        \/ parser.nailgunClient /\ pc' = "nailgun"
        \/ ~parser.nailgunClient /\ pc' = "name"
    BY <1>6 DEF CheckJavaHome, Exit
  <2>2. parser.nailgunClient <=> Asked("--ng", OptionWords)
    BY <1>2 DEF FlagsRead
  <2>3. CASE pc' = "exited"
    BY <1>1, <1>4, <2>3, AskedExit
  <2>4. CASE Asked("--ng", OptionWords) /\ pc' = "nailgun"
    BY <1>1, <1>2, <1>3, <2>4, AskedChoosing DEF BeforeJava
  <2>5. CASE ~Asked("--ng", OptionWords) /\ pc' = "name"
    BY <1>1, <1>2, <1>3, <2>5, AskedChoosing DEF BeforeJava
  <2> QED
    BY <2>1, <2>2, <2>3, <2>4, <2>5
<1>7. ASSUME AddScriptName PROVE AskedInv'
  <2>1. pc = "name" /\ pc' = "java"
    BY <1>7 DEF AddScriptName
  <2> QED
    BY <1>1, <1>2, <1>3, <2>1, AskedChoosing DEF BeforeJava
<1>8. ASSUME ChooseJava PROVE AskedInv'
  <2>1. pc = "java" /\ (pc' = "exited" \/ pc' = "prepare")
    BY <1>8, Zenon DEF ChooseJava, Exit
  <2> QED
    BY <1>1, <1>2, <1>3, <1>4, <2>1, AskedExit, AskedChoosing DEF BeforeJava
<1>9. ASSUME Prepare PROVE AskedInv'
  <2>1. /\ pc = "prepare"
        /\ pc' = "exited" \/ (~parser.printCommandLine /\ pc' = "launch")
    BY <1>9, Zenon DEF Prepare, Exit, OnlyPrints
  <2>2. CASE pc' = "exited"
    BY <1>1, <1>4, <2>2, AskedExit
  <2>3. CASE ~parser.printCommandLine /\ pc' = "launch"
    <3>1. ~Asked("-Xcommand", OptionWords) /\ ~Asked("--ng", OptionWords)
      BY <1>2, <2>1, <2>3 DEF FlagsRead
    <3> QED
      BY <1>1, <1>2, <2>1, <2>3, <3>1, AskedLaunching DEF BeforeJava, Launching
  <2> QED
    BY <2>1, <2>2, <2>3
<1> QED
  BY <1>5, <1>6, <1>7, <1>8, <1>9

LEMMA AskedStartNailgun ==
    ASSUME AskedInv, StatusInv, StartNailgun
    PROVE  AskedInv'
<1>1. pc = "nailgun" /\ UNCHANGED <<env, args>>
  BY DEF StartNailgun
<1>2. OptionsRead /\ FlagsRead(OptionWords) /\ Asked("--ng", OptionWords)
  BY <1>1 DEF AskedInv, BeforeJava
<1>3. PICK words : words = parser'.progArgs
  OBVIOUS
<1>4. \/ UNCHANGED child /\ pc' = "exited"
      \/ /\ ~parser.printCommandLine /\ pc' = "running"
         /\ child' = [NoChild EXCEPT !.how = "nailgun", !.arguments = words]
  BY <1>3 DEF StartNailgun, Exit, OnlyPrints
<1>5. CASE UNCHANGED child /\ pc' = "exited"
  BY <1>1, <1>5, AskedExit
<1>6. ASSUME ~parser.printCommandLine, pc' = "running",
             child' = [NoChild EXCEPT !.how = "nailgun", !.arguments = words]
      PROVE  AskedInv'
  <2>1. child'.how = "nailgun"
    BY <1>6, NoChildIs, ChildExcept
  <2>2. ~Asked("-Xcommand", OptionWords)
    BY <1>2, <1>6 DEF FlagsRead
  <2> QED
    BY <1>1, <1>2, <1>6, <2>1, <2>2, AskedRunning
<1> QED
  BY <1>4, <1>5, <1>6

LEMMA AskedLaunch ==
    ASSUME AskedInv, StatusInv,
           Launch \/ LoadJavaDll \/ StartInProcJvm \/ StartOutProcJvm
    PROVE  AskedInv'
<1>1. pc \in Launching /\ UNCHANGED <<env, args>>
  BY DEF Launch, LoadJavaDll, StartInProcJvm, StartOutProcJvm, Launching, argVars
<1>2. OptionsRead /\ ~Asked("--ng", OptionWords) /\ ~Asked("-Xcommand", OptionWords)
  BY <1>1 DEF AskedInv
<1>3. pc \notin {"running", "exited"}
  BY <1>1 DEF Launching
<1>4. \/ UNCHANGED child /\ pc' \in Launching \cup {"exited"}
      \/ child'.how \in {"inproc", "outproc"} /\ pc' = "running"
  <2>1. CASE Launch
    BY <2>1 DEF Launch, Failure, Exit, Launching
  <2>2. CASE LoadJavaDll
    BY <2>2 DEF LoadJavaDll, winVars, Launching
  <2>3. CASE StartInProcJvm
    BY <2>3, ChildIs DEF StartInProcJvm, Failure, Exit
  <2>4. CASE StartOutProcJvm
    BY <2>4, ChildIs DEF StartOutProcJvm, Failure, Exit
  <2> QED
    BY <2>1, <2>2, <2>3, <2>4
<1>5. CASE UNCHANGED child /\ pc' = "exited"
  BY <1>1, <1>3, <1>5, AskedExit
<1>6. CASE UNCHANGED child /\ pc' \in Launching
  BY <1>1, <1>2, <1>6, AskedLaunching
<1>7. CASE child'.how \in {"inproc", "outproc"} /\ pc' = "running"
  BY <1>1, <1>2, <1>7, AskedRunning
<1> QED
  BY <1>4, <1>5, <1>6, <1>7

LEMMA AskedJvmEnds ==
    ASSUME AskedInv, StatusInv, JvmEnds
    PROVE  AskedInv'
<1>1. PICK status : child' = [child EXCEPT !.status = status]
  BY DEF JvmEnds
<1>2. pc = "running" /\ pc' = "exited" /\ UNCHANGED <<env, args>>
  BY DEF JvmEnds, Exit, argVars
<1>3. child'.how = child.how
  BY <1>1 DEF StatusInv, IsChild
<1>4. CASE child.how = "none"
  BY <1>2, <1>3, <1>4 DEF AskedInv, Early, BeforeJava, Launching
<1>5. CASE child.how # "none"
  <2>1. /\ OptionsRead /\ ~Asked("-Xcommand", OptionWords)
        /\ child.how = "nailgun" <=> Asked("--ng", OptionWords)
    BY <1>5 DEF AskedInv
  <2> QED
    BY <1>2, <1>3, <2>1, AskedRunning
<1> QED
  BY <1>4, <1>5

LEMMA AskedStep == StatusInv /\ AskedInv /\ [Next]_vars => AskedInv'
<1> SUFFICES ASSUME StatusInv, AskedInv, [Next]_vars PROVE AskedInv'
  OBVIOUS
<1>1. ASSUME CheckLoggingArg \/ SetupProcess \/ LoadPlatform PROVE AskedInv'
  <2>1. /\ UNCHANGED <<argVars, child>> /\ pc \in Early
        /\ pc' \in Early \cup {"exited"} /\ pc \notin {"running", "exited"}
    <3>1. CASE CheckLoggingArg
      BY <3>1 DEF CheckLoggingArg, Early
    <3>2. CASE SetupProcess
      BY <3>2 DEF SetupProcess, Exit, Early
    <3>3. CASE LoadPlatform
      BY <3>3 DEF LoadPlatform, Exit, Early
    <3> QED
      BY <1>1, <3>1, <3>2, <3>3
  <2>2. UNCHANGED env
    BY <2>1 DEF argVars
  <2> QED
    BY <2>1, <2>2, AskedEarly, AskedExit
<1>2. ASSUME UNCHANGED vars PROVE AskedInv'
  <2>1. UNCHANGED <<env, args, it, doneScanning, parser, pc, child>>
    BY <1>2 DEF vars, argVars, winVars
  <2>2. Parsing' <=> Parsing
    <3>1. ASSUME NEW n PROVE Boundary(n)' <=> Boundary(n)
      BY <2>1 DEF Boundary, StartsAt
    <3>2. ASSUME NEW n PROVE ReadUpTo(n)' <=> ReadUpTo(n)
      <4>1. WordsRead(n)' <=> WordsRead(n)
        BY <2>1 DEF WordsRead, StartsAt
      <4>2. FlagsRead(n)' <=> FlagsRead(n)
        BY <2>1 DEF FlagsRead, Asked
      <4>3. HomeRead(n)' <=> HomeRead(n)
        BY <2>1, Zenon DEF HomeRead, LastHome, HomesUpTo
      <4>4. ArgsRead(n)' <=> ArgsRead(n)
        BY <2>1 DEF ArgsRead
      <4>5. JavaRead(n)' <=> JavaRead(n)
        <5>1. PICK ws : ws = parser.javaOptions
          OBVIOUS
        <5>2. /\ Heard(ws, n)' <=> Heard(ws, n)
              /\ CpIsUsers(ws)' <=> CpIsUsers(ws)
              /\ Unsaid(ws, n)' <=> Unsaid(ws, n)
          BY <2>1, HeardStays
        <5> QED
          BY <2>1, <5>1, <5>2, Zenon DEF JavaRead
      <4> QED
        BY <4>1, <4>2, <4>3, <4>4, <4>5 DEF ReadUpTo
    <3> QED
      BY <2>1, <3>1, <3>2, Zenon DEF Parsing
  <2>3. /\ OptionsRead' <=> OptionsRead
        /\ FlagsRead(OptionWords)' <=> FlagsRead(OptionWords)
        /\ \A opt : Asked(opt, OptionWords)' <=> Asked(opt, OptionWords)
    BY <2>1 DEF OptionsRead, OptionWords, WordsRead, StartsAt, FlagsRead, Asked
  <2> QED
    BY <2>1, <2>2, <2>3, Zenon DEF AskedInv
<1> QED
  BY <1>1, <1>2, AskedStart, AskedParseWord, AskedParseEnds, AskedChoosingStep,
     AskedStartNailgun, AskedLaunch, AskedJvmEnds
     DEF Next, Exited

\* Where 0 says something of a program that was not started.
ZeroInv ==
    /\ pc = "running" => child.how # "none"
    /\ pc = "exited" /\ child.how = "none" /\ exitCode = 0 =>
          \/ java = <<>> \/ ~parser.separateProcess
          \/ OptionsRead /\ Asked("-Xcommand", OptionWords)

LEMMA ZeroKeeps ==
    ASSUME pc' # "running", pc' = "exited" => exitCode' = FAILED
    PROVE  ZeroInv'
BY DEF ZeroInv, FAILED

LEMMA ZeroStarts ==
    ASSUME child'.how # "none"
    PROVE  ZeroInv'
BY DEF ZeroInv

LEMMA ZeroFails ==
    ASSUME Failure, UNCHANGED parser
    PROVE  ZeroInv'
BY DEF ZeroInv, Failure, Exit, FAILED

\* -Xcommand was read.
LEMMA ZeroPrints ==
    ASSUME AskedInv, pc \in BeforeJava, OnlyPrints, UNCHANGED args, pc' = "exited"
    PROVE  ZeroInv'
<1>1. OptionsRead /\ Asked("-Xcommand", OptionWords)
  BY DEF AskedInv, FlagsRead, OnlyPrints
<1>2. OptionsRead' /\ Asked("-Xcommand", OptionWords)'
  BY <1>1, OptionWordsStay
<1> QED
  BY <1>2 DEF ZeroInv

LEMMA ZeroStep == StatusInv /\ AskedInv /\ ZeroInv /\ [Next]_vars => ZeroInv'
<1> SUFFICES ASSUME StatusInv, AskedInv, ZeroInv, [Next]_vars PROVE ZeroInv'
  OBVIOUS
<1>1. ASSUME CheckLoggingArg \/ LoadPlatform \/ ParseEnds \/ AddScriptName \/ LoadJavaDll
      PROVE  ZeroInv'
  BY <1>1, ZeroKeeps
     DEF CheckLoggingArg, LoadPlatform, ParseEnds, AddScriptName, LoadJavaDll, Exit
<1>2. ASSUME SetupProcess PROVE ZeroInv'
  BY <1>2, ZeroKeeps DEF SetupProcess, Exit
<1>3. ASSUME Start PROVE ZeroInv'
  BY <1>3, ZeroKeeps DEF Start, Exit
<1>4. ASSUME ParseWord PROVE ZeroInv'
  BY <1>4, ZeroKeeps DEF ParseWord, Exit
<1>5. ASSUME CheckJDKHome PROVE ZeroInv'
  BY <1>5, ZeroKeeps DEF CheckJDKHome, Exit
<1>6. ASSUME CheckJavaHome PROVE ZeroInv'
  BY <1>6, ZeroKeeps DEF CheckJavaHome, Exit
<1>7. ASSUME ChooseJava PROVE ZeroInv'
  <2>1. \/ pc' = "prepare"
        \/ pc' = "exited" /\ java' = <<>>
    BY <1>7, Zenon DEF ChooseJava, Exit
  <2> QED
    BY <2>1 DEF ZeroInv
<1>8. ASSUME StartNailgun PROVE ZeroInv'
  <2>1. PICK words : words = parser'.progArgs
    OBVIOUS
  <2>2. /\ pc \in BeforeJava /\ UNCHANGED args
        /\ \/ OnlyPrints /\ pc' = "exited"
           \/ child' = [NoChild EXCEPT !.how = "nailgun", !.arguments = words]
    BY <1>8, <2>1 DEF StartNailgun, Exit, BeforeJava
  <2>3. [NoChild EXCEPT !.how = "nailgun", !.arguments = words].how = "nailgun"
    BY NoChildIs, ChildExcept, Zenon
  <2> QED
    BY <2>2, <2>3, ZeroPrints, ZeroStarts
<1>9. ASSUME Prepare PROVE ZeroInv'
  <2>1. /\ pc \in BeforeJava /\ UNCHANGED args
        /\ \/ pc' = "launch"
           \/ OnlyPrints /\ pc' = "exited"
    BY <1>9 DEF Prepare, Exit, BeforeJava
  <2> QED
    BY <2>1, ZeroPrints DEF ZeroInv
<1>10. ASSUME Launch PROVE ZeroInv'
  <2>1. (Failure /\ UNCHANGED parser) \/ pc' \in {"outproc", "dll"}
    BY <1>10 DEF Launch, argVars
  <2> QED
    BY <2>1, ZeroFails DEF ZeroInv
<1>11. ASSUME StartInProcJvm PROVE ZeroInv'
  <2>1. (Failure /\ UNCHANGED parser) \/ child'.how = "inproc"
    BY <1>11, ChildIs DEF StartInProcJvm, argVars
  <2> QED
    BY <2>1, ZeroFails, ZeroStarts
<1>12. ASSUME StartOutProcJvm PROVE ZeroInv'
  <2>1. (Failure /\ UNCHANGED parser) \/ child'.how = "outproc"
    BY <1>12, ChildIs DEF StartOutProcJvm, argVars
  <2> QED
    BY <2>1, ZeroFails, ZeroStarts
<1>13. ASSUME JvmEnds PROVE ZeroInv'
  <2>1. PICK status : pc = "running" /\ child' = [child EXCEPT !.status = status]
    BY <1>13 DEF JvmEnds
  <2>2. child'.how = child.how /\ child.how # "none"
    BY <2>1 DEF StatusInv, IsChild, ZeroInv
  <2> QED
    BY <2>2, ZeroStarts
<1>14. ASSUME UNCHANGED vars PROVE ZeroInv'
  <2>1. UNCHANGED <<args, parser, pc, java, child, exitCode>>
    BY <1>14 DEF vars, argVars, winVars
  <2>2. /\ OptionsRead' <=> OptionsRead
        /\ Asked("-Xcommand", OptionWords)' <=> Asked("-Xcommand", OptionWords)
    BY <2>1, OptionWordsStay
  <2> QED
    BY <2>1, <2>2 DEF ZeroInv
<1> QED
  BY <1>1, <1>2, <1>3, <1>4, <1>5, <1>6, <1>7, <1>8, <1>9, <1>10, <1>11, <1>12, <1>13,
     <1>14 DEF Next, Exited

\* The shell sees the status of the JVM or of the nailgun client, as an int with the
\* same bits; -1 says that nothing was started or that a child ended with the greatest
\* DWORD; and if nothing was started 0 says that -Xcommand asked for that, that no Java
\* was found on PATH or that a JVM could not run in this process, whatever statuses,
\* Javas and command lines there are (run, startPlatform).
THEOREM StatusIsReported == Spec => []StatusReported
<1>1. Init => StatusInv /\ AskedInv /\ ZeroInv
  BY StatusInit, AskedInit DEF Init, ZeroInv
<1>2. StatusInv /\ AskedInv /\ ZeroInv /\ [Next]_vars => (StatusInv /\ AskedInv /\ ZeroInv)'
  BY StatusStep, AskedStep, ZeroStep
<1>3. StatusInv /\ ZeroInv => StatusReported
  <2> SUFFICES ASSUME StatusInv, ZeroInv, pc = "exited" PROVE StatusReported
    BY DEF StatusReported
  <2>1. ASSUME OptionsRead, Asked("-Xcommand", OptionWords)
        PROVE  \E j \in DOMAIN OptionPart(args) : args[j].opt = "-Xcommand"
    <3>1. args \in Seq(Words) /\ OptionWords \in 0 .. Len(args)
      BY <2>1 DEF OptionsRead, WordsRead
    <3>2. DOMAIN OptionPart(args) = 1 .. OptionWords
      BY <3>1 DEF OptionPart, OptionWords
    <3> QED
      BY <2>1, <3>2 DEF Asked
  <2> QED
    BY <2>1 DEF StatusInv, ChildReported, ZeroInv, StatusReported
<1> QED
  BY <1>1, <1>2, <1>3, PTL DEF Spec

LEMMA AskedImplies == AskedInv => StartsOnlyWhenAsked
<1> SUFFICES ASSUME AskedInv, child.how # "none" PROVE StartsOnlyWhenAsked
  BY DEF StartsOnlyWhenAsked
<1>1. /\ OptionsRead /\ ~Asked("-Xcommand", OptionWords)
      /\ child.how = "nailgun" <=> Asked("--ng", OptionWords)
  BY DEF AskedInv
<1>2. DOMAIN OptionPart(args) = 1 .. OptionWords
  <2>1. args \in Seq(Words) /\ OptionWords \in 0 .. Len(args)
    BY <1>1 DEF OptionsRead, WordsRead
  <2> QED
    BY <2>1 DEF OptionPart, OptionWords
<1>3. ASSUME NEW j \in 1 .. OptionWords
      PROVE  /\ args[j].opt \notin {"-Xcommand", "-Xversion"}
             /\ args[j].opt \in TakesValue => args[j + 1].opt = "plain"
  BY <1>1 DEF OptionsRead, WordsRead, Asked
<1> QED
  BY <1>1, <1>2, <1>3 DEF StartsOnlyWhenAsked, Asked

\* "-Xcommand: just print the equivalent java command and exit", "-Xversion: print
\* launcher's version": whatever the command line, nothing is started with them, or
\* with a value missing, and the nailgun client is only with --ng (parseArgs, start).
THEOREM StartsOnlyIfAsked == Spec => []StartsOnlyWhenAsked
<1>1. Init => StatusInv /\ AskedInv
  BY StatusInit, AskedInit
<1>2. StatusInv /\ AskedInv /\ [Next]_vars => (StatusInv /\ AskedInv)'
  BY StatusStep, AskedStep
<1> QED
  BY <1>1, <1>2, AskedImplies, PTL DEF Spec

-----------------------------------------------------------------------------
(* The script and the words after it.                                         *)

\* Of Ruby's arguments ws the last are the words from n + 1 on, and what is before
\* them is an option or was put there by the launcher.
RubyArgs(ws, n) ==
    /\ IsSeq(ws) /\ n \in 0 .. Len(args)
    /\ Len(ws) - (Len(args) - n) \in Nat
    /\ \A i \in 1 .. Len(ws) - (Len(args) - n) :
         ws[i].opt \in NonOptions => ws[i] \in LauncherWords
    /\ \A i \in 1 .. Len(args) - n : ws[Len(ws) - (Len(args) - n) + i] = args[n + i]

LEMMA Prepending ==
    ASSUME NEW ws, NEW n \in Nat, args \in Seq(Words), RubyArgs(ws, n), NEW p, IsSeq(p),
           \A i \in 1 .. Len(p) : p[i].opt \in NonOptions => p[i] \in LauncherWords
    PROVE  RubyArgs(p \o ws, n)
<1>1. PICK r : r = p \o ws
  OBVIOUS
<1>2. IsSeq(ws) /\ n \in 0 .. Len(args) /\ Len(args) \in Nat
  BY DEF RubyArgs
<1>3. /\ IsSeq(r) /\ Len(p) \in Nat /\ Len(ws) \in Nat /\ Len(r) = Len(p) + Len(ws)
      /\ \A i \in 1 .. Len(p) : r[i] = p[i]
      /\ \A i \in 1 .. Len(ws) : r[Len(p) + i] = ws[i]
  BY <1>1, <1>2, Concatenation
<1>4. PICK k : k = Len(args) - n
  OBVIOUS
<1>5. /\ k \in Nat /\ Len(ws) - k \in Nat
      /\ \A i \in 1 .. Len(ws) - k : ws[i].opt \in NonOptions => ws[i] \in LauncherWords
      /\ \A i \in 1 .. k : ws[Len(ws) - k + i] = args[n + i]
  BY <1>2, <1>4 DEF RubyArgs
<1>6. Len(r) - k \in Nat
  BY <1>3, <1>5
<1>7. ASSUME NEW i \in 1 .. Len(r) - k, r[i].opt \in NonOptions
      PROVE  r[i] \in LauncherWords
  <2>1. CASE i <= Len(p)
    BY <1>3, <1>7, <2>1
  <2>2. CASE i > Len(p)
    <3>1. i - Len(p) \in 1 .. Len(ws) - k /\ i - Len(p) \in 1 .. Len(ws)
      BY <1>3, <1>5, <1>7, <2>2
    <3>2. r[Len(p) + (i - Len(p))] = ws[i - Len(p)]
      BY <1>3, <3>1
    <3>3. Len(p) + (i - Len(p)) = i
      BY <1>3, <1>6
    <3> QED
      BY <1>5, <1>7, <3>1, <3>2, <3>3
  <2> QED
    BY <1>3, <2>1, <2>2
<1>8. ASSUME NEW i \in 1 .. k PROVE r[Len(r) - k + i] = args[n + i]
  <2>1. Len(ws) - k + i \in 1 .. Len(ws)
    BY <1>3, <1>5
  <2>2. r[Len(p) + (Len(ws) - k + i)] = ws[Len(ws) - k + i]
    BY <1>3, <2>1
  <2>3. Len(p) + (Len(ws) - k + i) = Len(r) - k + i
    BY <1>3, <1>5
  <2> QED
    BY <1>5, <2>2, <2>3
<1> QED
  BY <1>1, <1>2, <1>3, <1>4, <1>6, <1>7, <1>8 DEF RubyArgs

LEMMA TwoSingleWords ==
    \A v, w : IsSeq(<<v, w>>) /\ Len(<<v, w>>) = 2 /\ <<v, w>>[1] = v /\ <<v, w>>[2] = w
<1> SUFFICES ASSUME NEW v, NEW w
             PROVE  IsSeq(<<v, w>>) /\ Len(<<v, w>>) = 2
                    /\ <<v, w>>[1] = v /\ <<v, w>>[2] = w
  OBVIOUS
<1>1. <<v, w>> \in Seq({v, w})
  OBVIOUS
<1> QED
  BY <1>1 DEF IsSeq

\* A sequence whose last elements are those of another.
LEMMA SuffixIs ==
    ASSUME NEW S, NEW s \in Seq(S), NEW t, IsSeq(t), Len(s) <= Len(t),
           \A i \in 1 .. Len(s) : t[Len(t) - Len(s) + i] = s[i]
    PROVE  IsSuffix(s, t)
<1>1. Len(s) \in Nat /\ Len(t) \in Nat
  BY DEF IsSeq
<1>2. PICK q, r : q = Reverse(s) /\ r = Reverse(t)
  OBVIOUS
<1>3. /\ q = [i \in 1 .. Len(s) |-> s[(Len(s) - i) + 1]]
      /\ r = [i \in 1 .. Len(t) |-> t[(Len(t) - i) + 1]]
  BY <1>2 DEF Reverse
<1>4. Len(q) = Len(s) /\ Len(r) = Len(t)
  BY <1>1, <1>3
<1>5. \A i \in 1 .. Len(s) : q[i] = r[i]
  <2> SUFFICES ASSUME NEW i \in 1 .. Len(s) PROVE q[i] = r[i]
    OBVIOUS
  <2>1. (Len(s) - i) + 1 \in 1 .. Len(s)
    BY <1>1
  <2>2. Len(t) - Len(s) + ((Len(s) - i) + 1) = (Len(t) - i) + 1 /\ i \in 1 .. Len(t)
    BY <1>1
  <2>3. t[Len(t) - Len(s) + ((Len(s) - i) + 1)] = s[(Len(s) - i) + 1]
    BY <2>1
  <2> QED
    BY <1>3, <2>2, <2>3
<1>6. SubSeq(q, 1, Len(q)) = SubSeq(r, 1, Len(q))
  BY <1>1, <1>4, <1>5
<1> QED
  BY <1>2, <1>4, <1>6 DEF IsSuffix, IsPrefix

LEMMA RubyArgsIntact ==
    ASSUME args \in Seq(Words), ScriptAt(args) = OptionWords + 1,
           RubyArgs(parser.progArgs, OptionWords)
    PROVE  ScriptArgsIntact
<1>1. PICK n, ws, s : n = OptionWords /\ ws = parser.progArgs /\ s = Script(args)
  OBVIOUS
<1>2. /\ IsSeq(ws) /\ n \in 0 .. Len(args) /\ Len(args) \in Nat /\ Len(ws) \in Nat
  BY <1>1 DEF RubyArgs, IsSeq
<1>3. ScriptAt(args) = n + 1
  BY <1>1
<1>4. /\ s \in Seq(Words) /\ Len(s) = Len(args) - n
      /\ \A i \in 1 .. Len(s) : s[i] = args[n + i]
  BY <1>1, <1>2, <1>3 DEF Script
<1>5. IsSuffix(s, ws)
  <2>1. Len(s) <= Len(ws)
    BY <1>1, <1>2, <1>4 DEF RubyArgs
  <2>2. \A i \in 1 .. Len(s) : ws[Len(ws) - Len(s) + i] = s[i]
    BY <1>1, <1>2, <1>4 DEF RubyArgs
  <2> QED
    BY <1>2, <1>4, <2>1, <2>2, SuffixIs
<1>6. \A j \in 1 .. Len(ws) - Len(s) : ws[j].opt \in NonOptions => ws[j] \in LauncherWords
  BY <1>1, <1>4 DEF RubyArgs
<1> QED
  BY <1>1, <1>5, <1>6 DEF ScriptArgsIntact

ScriptInv ==
    Parsed => /\ args \in Seq(Words) /\ ScriptAt(args) = OptionWords + 1
              /\ IsParser(parser) /\ RubyArgs(parser.progArgs, OptionWords)

LEMMA RubyArgsStay ==
    ASSUME UNCHANGED <<env, args>>, NEW ws
    PROVE  /\ RubyArgs(ws, OptionWords)' <=> RubyArgs(ws, OptionWords)
           /\ (args \in Seq(Words) /\ ScriptAt(args) = OptionWords + 1)'
              <=> args \in Seq(Words) /\ ScriptAt(args) = OptionWords + 1
BY DEF RubyArgs, OptionWords, LauncherWords

\* A step that leaves Ruby's arguments as they are, or puts words before them.
LEMMA ScriptKeeps ==
    ASSUME ScriptInv, Parsed, UNCHANGED <<env, args>>, IsParser(parser'),
           \/ parser'.progArgs = parser.progArgs
           \/ \E p : /\ IsSeq(p) /\ parser'.progArgs = p \o parser.progArgs
                    /\ \A i \in 1 .. Len(p) :
                         p[i].opt \in NonOptions => p[i] \in LauncherWords
    PROVE  ScriptInv'
<1>1. /\ args \in Seq(Words) /\ ScriptAt(args) = OptionWords + 1
      /\ RubyArgs(parser.progArgs, OptionWords) /\ OptionWords \in Nat
  BY DEF ScriptInv, RubyArgs
<1>2. RubyArgs(parser'.progArgs, OptionWords)
  BY <1>1, Prepending
<1>3. PICK ws : ws = parser'.progArgs
  OBVIOUS
<1>4. RubyArgs(ws, OptionWords)' /\ (args \in Seq(Words) /\ ScriptAt(args) = OptionWords + 1)'
  BY <1>1, <1>2, <1>3, RubyArgsStay
<1> QED
  BY <1>3, <1>4 DEF ScriptInv

LEMMA ScriptStep == StatusInv /\ AskedInv /\ ScriptInv /\ [Next]_vars => ScriptInv'
<1> SUFFICES ASSUME AskedInv, ScriptInv, [Next]_vars PROVE ScriptInv'
  OBVIOUS
<1>1. ASSUME CheckLoggingArg \/ SetupProcess \/ LoadPlatform \/ Start \/ ParseWord
      PROVE  ScriptInv'
  <2>1. ~Parsed'
    <3>1. CASE CheckLoggingArg
      BY <3>1 DEF CheckLoggingArg, Parsed
    <3>2. CASE SetupProcess
      BY <3>2 DEF SetupProcess, Exit, Parsed
    <3>3. CASE LoadPlatform
      BY <3>3 DEF LoadPlatform, Exit, Parsed
    <3>4. CASE Start
      BY <3>4, StartsParsing DEF Parsed
    <3>5. CASE ParseWord
      BY <3>5 DEF ParseWord, Exit, Parsed
    <3> QED
      BY <1>1, <3>1, <3>2, <3>3, <3>4, <3>5
  <2> QED
    BY <2>1 DEF ScriptInv
<1>2. ASSUME ParseEnds PROVE ScriptInv'
  <2>1. Parsing /\ it > Len(args) /\ UNCHANGED argVars
    BY <1>2 DEF ParseEnds, AskedInv
  <2>2. /\ OptionsRead /\ IsParser(parser) /\ it = Len(args) + 1
        /\ ArgsRead(OptionWords) /\ ScriptAt(args) = OptionWords + 1
    BY <2>1, BoundaryIsScript DEF ReadUpTo
  <2>3. PICK ws : ws = parser.progArgs
    OBVIOUS
  <2>4. args \in Seq(Words) /\ OptionWords \in 0 .. Len(args)
    BY <2>2 DEF OptionsRead, WordsRead
  <2>5. RubyArgs(ws, OptionWords)
    <3>1. PICK n : n = OptionWords
      OBVIOUS
    <3>2. it - 1 - n = Len(args) - n
      BY <2>2, <2>4, <3>1
    <3> QED
      BY <2>2, <2>3, <2>4, <3>1, <3>2 DEF ArgsRead, RubyArgs
  <2>6. RubyArgs(ws, OptionWords)' /\ (args \in Seq(Words) /\ ScriptAt(args) = OptionWords + 1)'
    BY <2>1, <2>2, <2>4, <2>5, RubyArgsStay DEF argVars
  <2>7. parser' = parser
    BY <2>1 DEF argVars
  <2> QED
    BY <2>2, <2>3, <2>6, <2>7 DEF ScriptInv
<1>3. ASSUME CheckJDKHome \/ CheckJavaHome \/ ChooseJava \/ Prepare PROVE ScriptInv'
  <2>1. Parsed /\ UNCHANGED <<env, args>>
    BY <1>3 DEF CheckJDKHome, CheckJavaHome, ChooseJava, Prepare, Parsed
  <2>2. SameRequest(parser, parser')
    BY <1>3, <2>1, ChoosingKeepsRequest DEF ScriptInv
  <2> QED
    BY <2>1, <2>2, ScriptKeeps DEF SameRequest
<1>4. ASSUME AddScriptName PROVE ScriptInv'
  <2>1. Parsed /\ UNCHANGED <<env, args>> /\ IsParser(parser)
    BY <1>4 DEF AddScriptName, Parsed, ScriptInv
  <2>2. PICK v, w : v = Word("ruby", <<"-S">>) /\ w = Word("plain", <<env.name>>)
    OBVIOUS
  <2>3. v.opt \notin NonOptions /\ w \in LauncherWords
    BY <2>2 DEF NonOptions, LauncherWords, Word
  <2>4. \A i \in 1 .. Len(<<v, w>>) :
           <<v, w>>[i].opt \in NonOptions => <<v, w>>[i] \in LauncherWords
    BY <2>3, TwoSingleWords
  <2>5. \/ parser' = parser
        \/ SameFlags(parser, parser') /\ parser'.progArgs = <<v, w>> \o parser.progArgs
    BY <1>4, <2>1, <2>2, NamedScript
  <2> QED
    BY <2>1, <2>4, <2>5, TwoSingleWords, ScriptKeeps DEF SameFlags
<1>5. ASSUME StartNailgun PROVE ScriptInv'
  <2>1. Parsed /\ UNCHANGED <<env, args>> /\ IsParser(parser)
    BY <1>5 DEF StartNailgun, Parsed, ScriptInv
  <2>2. PICK v : v = NailMain
    OBVIOUS
  <2>3. \A i \in 1 .. Len(<<v>>) : <<v>>[i].opt \in NonOptions => <<v>>[i] \in LauncherWords
    BY <2>2, SingleWord DEF LauncherWords
  <2>4. IsParser(parser') /\ parser'.progArgs = <<v>> \o parser.progArgs
    <3>1. PICK words : words = <<v>> \o parser.progArgs
      OBVIOUS
    <3>2. parser' = [parser EXCEPT !.progArgs = words]
      BY <1>5, <2>2, <3>1, Zenon DEF StartNailgun
    <3> QED
      BY <2>1, <3>1, <3>2 DEF IsParser
  <2> QED
    BY <2>1, <2>3, <2>4, SingleWord, ScriptKeeps
<1>6. ASSUME Launch \/ LoadJavaDll \/ StartInProcJvm \/ StartOutProcJvm \/ JvmEnds
      PROVE  ScriptInv'
  <2>1. Parsed /\ UNCHANGED <<env, args>>
    BY <1>6 DEF Launch, LoadJavaDll, StartInProcJvm, StartOutProcJvm, JvmEnds, Parsed, argVars
  <2>2. IsParser(parser)
    BY <2>1 DEF ScriptInv
  <2>3. parser' = parser \/ parser' = [parser EXCEPT !.separateProcess = TRUE]
    BY <1>6, Zenon DEF Launch, LoadJavaDll, StartInProcJvm, StartOutProcJvm, JvmEnds, argVars
  <2>4. SameRequest(parser, parser')
    BY <2>2, <2>3, SameSelf, OtherField, Zenon
  <2> QED
    BY <2>1, <2>4, ScriptKeeps DEF SameRequest
<1>7. ASSUME UNCHANGED vars PROVE ScriptInv'
  <2>1. UNCHANGED <<env, args, parser, pc>>
    BY <1>7 DEF vars, argVars
  <2> QED
    BY <2>1, ScriptKeeps DEF ScriptInv, Parsed
<1> QED
  BY <1>1, <1>2, <1>3, <1>4, <1>5, <1>6, <1>7 DEF Next, Exited

\* "stops argument processing on first non-option argument": whatever the words
\* are, the script and all after it are Ruby's arguments as they are, and no value
\* of an option becomes the script (parseArgs, start).
THEOREM ScriptIsIntact == Spec => []ScriptArgsIntact
<1>1. Init => StatusInv /\ AskedInv /\ ScriptInv
  <2>1. Init => ScriptInv
    BY DEF Init, ScriptInv, Parsed
  <2> QED
    BY <2>1, StatusInit, AskedInit
<1>2. StatusInv /\ AskedInv /\ ScriptInv /\ [Next]_vars
      => (StatusInv /\ AskedInv /\ ScriptInv)'
  BY StatusStep, AskedStep, ScriptStep
<1>3. ScriptInv => ScriptArgsIntact
  BY RubyArgsIntact DEF ScriptInv, ScriptArgsIntact
<1> QED
  BY <1>1, <1>2, <1>3, PTL DEF Spec

-----------------------------------------------------------------------------
(* The Java that is started.                                                  *)

IsSet(string) == string # ""

InHome(j, home) == j.exe[1] = home /\ j.javaw[1] = home

\* checkJava
LEMMA CheckJavaIs ==
    \A home, prefix :
        /\ IsJava(home, prefix) => /\ CheckJava(home, prefix) # NoJvm
                                  /\ InHome(CheckJava(home, prefix), home)
        /\ ~IsJava(home, prefix) => CheckJava(home, prefix) = NoJvm
BY DEF CheckJava, NoJvm, InHome

\* initialize, of a home and of a version.
LEMMA InitializeHome ==
    ASSUME NEW home, home \notin Versions
    PROVE  /\ Usable(home) <=> Initialize(home) # NoJvm
           /\ Usable(home) => InHome(Initialize(home), home)
<1>1. PICK none : none = ""
  OBVIOUS
<1>2. Usable(home) <=> IsJava(home, "jre") \/ IsJava(home, none)
  BY <1>1, Zenon DEF Usable, JrePrefixes
<1>3. Initialize(home) = IF IsJava(home, "jre") THEN CheckJava(home, "jre")
                                               ELSE CheckJava(home, none)
  BY <1>1, Zenon DEF Initialize
<1> QED
  BY <1>2, <1>3, CheckJavaIs

LEMMA InitializeVersion ==
    ASSUME NEW version \in Versions
    PROVE  /\ Initialize(version) # NoJvm =>
                 \/ InHome(Initialize(version), env.JDK.home)
                 \/ InHome(Initialize(version), env.JRE.home)
           /\ IsSet(version) => (Satisfied(version) <=> Initialize(version) # NoJvm)
           /\ ~Usable(version)
<1>1. ~Usable(version)
  BY Zenon DEF Usable
<1>2. Initialize(version) = FindJava(version)
  BY Zenon DEF Initialize
<1>3. /\ FindJava(version) # NoJvm =>
            \/ InHome(FindJava(version), env.JDK.home)
            \/ InHome(FindJava(version), env.JRE.home)
      /\ IsSet(version) => (Satisfied(version) <=> FindJava(version) # NoJvm)
  <2>1. PICK none : none = ""
    OBVIOUS
  <2>2. PICK first, second :
          /\ first = IF version \in env.JDK.satisfies
                     THEN CheckJava(env.JDK.home, "jre") ELSE NoJvm
          /\ second = IF version \in env.JRE.satisfies
                      THEN CheckJava(env.JRE.home, none) ELSE NoJvm
    OBVIOUS
  <2>3. FindJava(version) = IF first # NoJvm THEN first ELSE second
    BY <2>1, <2>2, Zenon DEF FindJava
  <2>4. IsSet(version) =>
          (Satisfied(version) <=> \/ /\ version \in env.JDK.satisfies
                                     /\ IsJava(env.JDK.home, "jre")
                                  \/ /\ version \in env.JRE.satisfies
                                     /\ IsJava(env.JRE.home, none))
    BY <2>1, Zenon DEF Satisfied, IsSet
  <2> QED
    BY <2>2, <2>3, <2>4, CheckJavaIs
<1> QED
  BY <1>1, <1>2, <1>3, Zenon

NoGiven    == ~IsSet(GivenHome) \/ Initialize(GivenHome) = NoJvm
NoJavaHome == ~IsSet(env.JAVA_HOME) \/ Initialize(env.JAVA_HOME) = NoJvm

ByGiven(j)    == IsSet(GivenHome) /\ j = Initialize(GivenHome) /\ j # NoJvm
ByJavaHome(j) == /\ NoGiven /\ IsSet(env.JAVA_HOME)
                 /\ j = Initialize(env.JAVA_HOME) /\ j # NoJvm
ByRegistry(j) == NoGiven /\ NoJavaHome /\ \E version \in Versions : j = Initialize(version)
ByCommand(j)  == IsSet(env.JAVACMD) /\ j = [NoJvm EXCEPT !.exe = <<env.JAVACMD>>]

\* That exe is the Java the user asked for.
RightJava(exe) ==
    /\ IsSet(env.JAVACMD) => exe = <<env.JAVACMD>>
    /\ ~IsSet(env.JAVACMD) =>
         /\ Usable(GivenHome) => exe[1] = GivenHome
         /\ ~Usable(GivenHome) /\ ~Satisfied(GivenHome) /\ Usable(env.JAVA_HOME) =>
              exe[1] = env.JAVA_HOME
         /\ ~Usable(GivenHome) /\ (Satisfied(GivenHome) \/ ~Usable(env.JAVA_HOME)) =>
              exe[1] \in {env.JDK.home, env.JRE.home}

LEMMA RightJavaIs ==
    ASSUME child.how \in {"inproc", "outproc"} => RightJava(child.exe)
    PROVE  JavaPrecedence
BY Zenon DEF JavaPrecedence, RightJava, IsSet

LEMMA VersionsNotSet == \A home : ~IsSet(home) => home \in Versions
BY WinAssumption, Zenon DEF IsSet

\* What is found for a name, be it a home or a version.
LEMMA Found ==
    ASSUME NEW x, NEW j, j = Initialize(x), j # NoJvm
    PROVE  /\ Usable(x) => InHome(j, x)
           /\ ~Usable(x) => InHome(j, env.JDK.home) \/ InHome(j, env.JRE.home)
           /\ ~Usable(x) /\ IsSet(x) => Satisfied(x)
<1>1. CASE x \in Versions
  BY <1>1, InitializeVersion
<1>2. CASE x \notin Versions
  BY <1>2, InitializeHome
<1> QED
  BY <1>1, <1>2

LEMMA NotFound ==
    ASSUME NEW x, ~IsSet(x) \/ Initialize(x) = NoJvm
    PROVE  ~Usable(x) /\ ~Satisfied(x)
<1>1. CASE x \in Versions
  <2>1. ~IsSet(x) => ~Satisfied(x)
    BY Zenon DEF IsSet, Satisfied
  <2> QED
    BY <1>1, <2>1, InitializeVersion
<1>2. CASE x \notin Versions
  <2>1. ~Satisfied(x)
    BY <1>2, Zenon DEF Satisfied
  <2> QED
    BY <1>2, <2>1, InitializeHome, VersionsNotSet
<1> QED
  BY <1>1, <1>2

LEMMA ChosenIsRight ==
    ASSUME NEW j, j # NoJvm, NEW exe, exe \in {j.exe, j.javaw},
           \/ ByCommand(j) /\ exe = j.exe
           \/ ~IsSet(env.JAVACMD) /\ (ByGiven(j) \/ ByJavaHome(j) \/ ByRegistry(j))
    PROVE  RightJava(exe)
<1>1. ASSUME ByCommand(j), exe = j.exe PROVE RightJava(exe)
  <2>1. j.exe = <<env.JAVACMD>>
    BY <1>1 DEF ByCommand, NoJvm
  <2> QED
    BY <1>1, <2>1 DEF RightJava, ByCommand
<1>2. ASSUME NEW home, InHome(j, home) PROVE exe[1] = home
  BY <1>2 DEF InHome
<1>3. ASSUME ~IsSet(env.JAVACMD), ByGiven(j) PROVE RightJava(exe)
  <2>1. j = Initialize(GivenHome) /\ IsSet(GivenHome)
    BY <1>3 DEF ByGiven
  <2> QED
    BY <1>2, <1>3, <2>1, Found DEF RightJava
<1>4. ASSUME ~IsSet(env.JAVACMD), ByJavaHome(j) PROVE RightJava(exe)
  <2>1. j = Initialize(env.JAVA_HOME) /\ ~Usable(GivenHome) /\ ~Satisfied(GivenHome)
    BY <1>4, NotFound DEF ByJavaHome, NoGiven
  <2> QED
    BY <1>2, <1>4, <2>1, Found DEF RightJava
<1>5. ASSUME ~IsSet(env.JAVACMD), ByRegistry(j) PROVE RightJava(exe)
  <2>1. ~Usable(GivenHome) /\ ~Usable(env.JAVA_HOME)
    BY <1>5, NotFound DEF ByRegistry, NoGiven, NoJavaHome
  <2>2. PICK version \in Versions : j = Initialize(version)
    BY <1>5 DEF ByRegistry
  <2>3. InHome(j, env.JDK.home) \/ InHome(j, env.JRE.home)
    BY <2>2, InitializeVersion
  <2> QED
    BY <1>2, <1>5, <2>1, <2>3 DEF RightJava
<1> QED
  BY <1>1, <1>3, <1>4, <1>5

Chosen ==
    \/ ByCommand(jvm) /\ parser.separateProcess = TRUE /\ suppressConsole = FALSE
    \/ ~IsSet(env.JAVACMD) /\ (ByGiven(jvm) \/ ByJavaHome(jvm) \/ ByRegistry(jvm))

JavaInv ==
    /\ pc \in Early \cup {"parse", "jdkhome"} => jvm = NoJvm
    /\ pc = "jdkhome" => parser.jdkhome = GivenHome
    /\ pc = "java_home" => \/ IsSet(parser.jdkhome) /\ ByGiven(jvm)
                           \/ ~IsSet(parser.jdkhome) /\ NoGiven /\ jvm = NoJvm
    /\ pc \in {"name", "java"} =>
          \/ IsSet(parser.jdkhome) /\ (ByGiven(jvm) \/ ByJavaHome(jvm))
          \/ ~IsSet(parser.jdkhome) /\ NoGiven /\ NoJavaHome /\ jvm = NoJvm
    /\ pc \in {"prepare"} \cup Launching => Chosen
    /\ pc \in {"dll", "inproc", "outproc"} => jvm # NoJvm
    /\ pc \in {"dll", "inproc"} => ~IsSet(env.JAVACMD)
    /\ child.how \in {"inproc", "outproc"} =>
          pc \in {"running", "exited"} /\ RightJava(child.exe)

\* What the environment and the words say is the same after a step.
LEMMA HomesStay ==
    ASSUME UNCHANGED <<env, args>>
    PROVE  /\ GivenHome' = GivenHome
           /\ \A x : Initialize(x)' = Initialize(x)
           /\ \A x : Satisfied(x)' <=> Satisfied(x)
           /\ \A x : Usable(x)' <=> Usable(x)
<1>1. GivenHome' = GivenHome
  <2>1. GivenHomes' = GivenHomes
    BY Zenon DEF GivenHomes
  <2> QED
    BY <2>1, Zenon DEF GivenHome
<1>2. \A x : Initialize(x)' = Initialize(x)
  BY Zenon DEF Initialize, FindJava
<1>3. \A x : Satisfied(x)' <=> Satisfied(x)
  BY Zenon DEF Satisfied
<1>4. \A x : Usable(x)' <=> Usable(x)
  OBVIOUS
<1> QED
  BY <1>1, <1>2, <1>3, <1>4

LEMMA JavaStays ==
    ASSUME UNCHANGED <<env, args>>, NEW j
    PROVE  /\ NoGiven' <=> NoGiven
           /\ NoJavaHome' <=> NoJavaHome
           /\ ByGiven(j)' <=> ByGiven(j)
           /\ ByJavaHome(j)' <=> ByJavaHome(j)
           /\ ByRegistry(j)' <=> ByRegistry(j)
           /\ ByCommand(j)' <=> ByCommand(j)
           /\ RightJava(j)' <=> RightJava(j)
<1>1. PICK home : home = GivenHome
  OBVIOUS
<1>2. home = GivenHome'
  BY <1>1, HomesStay
<1>3. PICK given, java_home :
         given = Initialize(home) /\ java_home = Initialize(env.JAVA_HOME)
  OBVIOUS
<1>4. Initialize(GivenHome)' = given /\ Initialize(env.JAVA_HOME)' = java_home
  <2>1. PICK name : name = env.JAVA_HOME
    OBVIOUS
  <2>2. Initialize(home)' = given /\ Initialize(name)' = java_home
    BY <1>3, <2>1, HomesStay
  <2>3. name = env'.JAVA_HOME
    BY <2>1
  <2> QED
    BY <1>2, <2>2, <2>3, Zenon
<1>5. NoGiven' <=> NoGiven
  BY <1>1, <1>2, <1>3, <1>4, Zenon DEF NoGiven
<1>6. NoJavaHome' <=> NoJavaHome
  BY <1>3, <1>4, Zenon DEF NoJavaHome
<1>7. ByGiven(j)' <=> ByGiven(j)
  BY <1>1, <1>2, <1>3, <1>4, Zenon DEF ByGiven
<1>8. ByJavaHome(j)' <=> ByJavaHome(j)
  BY <1>3, <1>4, <1>5, Zenon DEF ByJavaHome
<1>9. ByRegistry(j)' <=> ByRegistry(j)
  BY <1>5, <1>6, HomesStay, Zenon DEF ByRegistry
<1>10. ByCommand(j)' <=> ByCommand(j)
  BY DEF ByCommand
<1>11. RightJava(j)' <=> RightJava(j)
  <2>1. PICK name : name = env.JAVA_HOME
    OBVIOUS
  <2>2. /\ Usable(home)' <=> Usable(home)
        /\ Satisfied(home)' <=> Satisfied(home)
        /\ Usable(name)' <=> Usable(name)
    BY HomesStay
  <2> QED
    BY <1>1, <1>2, <2>1, <2>2, Zenon DEF RightJava
<1> QED
  BY <1>5, <1>6, <1>7, <1>8, <1>9, <1>10, <1>11

LEMMA GivenIsLast ==
    ASSUME OptionsRead, ScriptAt(args) = OptionWords + 1
    PROVE  GivenHome = LastHome(OptionWords)
<1>1. args \in Seq(Words) /\ OptionWords \in 0 .. Len(args)
  BY DEF OptionsRead, WordsRead
<1>2. GivenHomes = HomesUpTo(OptionWords)
  BY <1>1 DEF GivenHomes, HomesUpTo
<1> QED
  BY <1>2, Zenon DEF GivenHome, LastHome

\* What the two steps of checkJDKHome and ChooseJava do, told by what is set.
LEMMA CheckJDKHomeIs ==
    ASSUME CheckJDKHome
    PROVE  \/ pc' = "exited"
           \/ /\ pc' = "java_home" /\ ~IsSet(parser.jdkhome)
              /\ jvm' = jvm /\ parser' = parser
           \/ /\ pc' = "java_home" /\ IsSet(parser.jdkhome)
              /\ jvm' = Initialize(parser.jdkhome)
              /\ \/ jvm' # NoJvm /\ parser' = parser
                 \/ jvm' = NoJvm /\ parser' = [parser EXCEPT !.jdkhome = ""]
BY Zenon DEF CheckJDKHome, Exit, IsSet

LEMMA AsksIs == AsksJavaHome <=> ~IsSet(parser.jdkhome) /\ IsSet(env.JAVA_HOME)
BY Zenon DEF AsksJavaHome, IsSet

LEMMA ChooseJavaIs ==
    ASSUME ChooseJava
    PROVE  \/ pc' = "exited"
           \/ /\ pc' = "prepare" /\ IsSet(env.JAVACMD)
              /\ jvm' = [NoJvm EXCEPT !.exe = <<env.JAVACMD>>]
              /\ parser' = [parser EXCEPT !.separateProcess = TRUE]
              /\ suppressConsole' = FALSE
           \/ /\ pc' = "prepare" /\ ~IsSet(env.JAVACMD)
              /\ IsSet(parser.jdkhome) => jvm' = jvm
              /\ ~IsSet(parser.jdkhome) => \E version \in Versions : jvm' = Initialize(version)
<1>1. "1.5" \in Versions
  BY WinAssumption, Zenon
<1>2. CASE IsSet(env.JAVACMD)
  BY <1>2, Zenon DEF ChooseJava, Exit, IsSet
<1>3. CASE ~IsSet(env.JAVACMD)
  <2>1. \/ pc' = "exited"
        \/ /\ pc' = "prepare"
           /\ jvm' = IF parser.jdkhome = "" THEN Initialize("1.5") ELSE jvm
    BY <1>3, Zenon DEF ChooseJava, Exit, IsSet
  <2> QED
    BY <1>1, <1>3, <2>1, Zenon DEF IsSet
<1> QED
  BY <1>2, <1>3

LEMMA EmptyHome ==
    ASSUME NEW p, IsParser(p), NEW q, q = [p EXCEPT !.jdkhome = ""]
    PROVE  ~IsSet(q.jdkhome)
<1>1. PICK none : none = ""
  OBVIOUS
<1>2. q = [p EXCEPT !.jdkhome = none]
  BY <1>1, Zenon
<1>3. q.jdkhome = none
  BY <1>2 DEF IsParser
<1> QED
  BY <1>1, <1>3, Zenon DEF IsSet

\* Steps that end the program, and steps of which only pc matters.
LEMMA JavaExit ==
    ASSUME StatusInv, JavaInv, UNCHANGED child,
           pc \notin {"running", "exited"}, pc' = "exited"
    PROVE  JavaInv'
BY DEF StatusInv, JavaInv, Early, Launching

LEMMA JavaEarly ==
    ASSUME StatusInv, JavaInv, UNCHANGED <<child, jvm>>,
           pc \in Early \cup {"parse"}, pc' \in Early \cup {"parse"}
    PROVE  JavaInv'
BY DEF StatusInv, JavaInv, Early, Launching

LEMMA JavaGiven ==
    ASSUME StatusInv, AskedInv, JavaInv, ParseEnds
    PROVE  JavaInv'
<1>1. /\ pc = "parse" /\ it > Len(args) /\ pc' = "jdkhome"
      /\ UNCHANGED <<env, args, parser, child, jvm>>
  BY DEF ParseEnds, winVars, argVars
<1>2. parser.jdkhome = GivenHome
  <2>1. Parsing
    BY <1>1 DEF AskedInv
  <2>2. OptionsRead /\ HomeRead(OptionWords) /\ ScriptAt(args) = OptionWords + 1
    BY <1>1, <2>1, BoundaryIsScript DEF ReadUpTo
  <2> QED
    BY <2>2, GivenIsLast DEF HomeRead
<1>3. parser'.jdkhome = GivenHome'
  BY <1>1, <1>2, HomesStay
<1> QED
  BY <1>1, <1>3 DEF StatusInv, JavaInv, Early, Launching

LEMMA JavaCheckJDKHome ==
    ASSUME StatusInv, AskedInv, JavaInv, CheckJDKHome
    PROVE  JavaInv'
<1>1. pc = "jdkhome" /\ UNCHANGED <<env, args, child>>
  BY DEF CheckJDKHome
<1>2. /\ IsParser(parser) /\ parser.jdkhome = GivenHome /\ jvm = NoJvm
      /\ child.how = "none"
  BY <1>1 DEF AskedInv, BeforeJava, JavaInv, StatusInv
<1>3. PICK j : j = jvm'
  OBVIOUS
<1>4. ASSUME pc' = "java_home",
             \/ IsSet(parser'.jdkhome) /\ ByGiven(j)
             \/ ~IsSet(parser'.jdkhome) /\ NoGiven /\ j = NoJvm
      PROVE  JavaInv'
  <2>1. \/ IsSet(parser'.jdkhome) /\ ByGiven(j)'
        \/ ~IsSet(parser'.jdkhome) /\ NoGiven' /\ j = NoJvm
    BY <1>1, <1>4, JavaStays
  <2>2. \/ IsSet(parser.jdkhome)' /\ ByGiven(jvm)'
        \/ ~IsSet(parser.jdkhome)' /\ NoGiven' /\ jvm' = NoJvm
    BY <1>3, <2>1, Zenon
  <2> QED
    BY <1>1, <1>2, <1>4, <2>2 DEF JavaInv, Early, Launching
<1>5. CASE pc' = "exited"
  BY <1>1, <1>5, JavaExit
<1>6. ASSUME pc' = "java_home", ~IsSet(parser.jdkhome), jvm' = jvm, parser' = parser
      PROVE  JavaInv'
  BY <1>2, <1>3, <1>4, <1>6 DEF NoGiven
<1>7. ASSUME pc' = "java_home", IsSet(parser.jdkhome),
             jvm' = Initialize(parser.jdkhome), jvm' # NoJvm, parser' = parser
      PROVE  JavaInv'
  BY <1>2, <1>3, <1>4, <1>7 DEF ByGiven
<1>8. ASSUME pc' = "java_home", IsSet(parser.jdkhome),
             jvm' = Initialize(parser.jdkhome), jvm' = NoJvm,
             parser' = [parser EXCEPT !.jdkhome = ""]
      PROVE  JavaInv'
  <2>1. ~IsSet(parser'.jdkhome)
    BY <1>2, <1>8, EmptyHome, Zenon
  <2>2. NoGiven
    BY <1>2, <1>8, Zenon DEF NoGiven
  <2> QED
    BY <1>3, <1>4, <1>8, <2>1, <2>2, Zenon
<1> QED
  BY <1>5, <1>6, <1>7, <1>8, CheckJDKHomeIs, Zenon

LEMMA JavaCheckJavaHome ==
    ASSUME StatusInv, AskedInv, JavaInv, CheckJavaHome
    PROVE  JavaInv'
<1>1. pc = "java_home" /\ UNCHANGED <<env, args, child>>
  BY DEF CheckJavaHome
<1>2. /\ IsParser(parser) /\ child.how = "none"
      /\ \/ IsSet(parser.jdkhome) /\ ByGiven(jvm)
         \/ ~IsSet(parser.jdkhome) /\ NoGiven /\ jvm = NoJvm
  BY <1>1 DEF AskedInv, BeforeJava, JavaInv, StatusInv
<1>3. PICK j : j = jvm'
  OBVIOUS
<1>4. \/ pc' = "exited"
      \/ /\ pc' \in {"nailgun", "name"}
         /\ AsksJavaHome => j = Initialize(env.JAVA_HOME)
         /\ ~AsksJavaHome => j = jvm
         /\ parser' = IF AsksJavaHome /\ j # NoJvm
                      THEN [parser EXCEPT !.jdkhome = env.JAVA_HOME] ELSE parser
  BY <1>3, Zenon DEF CheckJavaHome, Exit
<1>5. CASE pc' = "exited"
  BY <1>1, <1>5, JavaExit
<1>6. ASSUME pc' = "nailgun" PROVE JavaInv'
  BY <1>1, <1>2, <1>6 DEF JavaInv, Early, Launching
<1>7. ASSUME pc' = "name",
             \/ IsSet(parser'.jdkhome) /\ (ByGiven(j) \/ ByJavaHome(j))
             \/ ~IsSet(parser'.jdkhome) /\ NoGiven /\ NoJavaHome /\ j = NoJvm
      PROVE  JavaInv'
  <2>1. \/ IsSet(parser'.jdkhome) /\ (ByGiven(j)' \/ ByJavaHome(j)')
        \/ ~IsSet(parser'.jdkhome) /\ NoGiven' /\ NoJavaHome' /\ j = NoJvm
    BY <1>1, <1>7, JavaStays
  <2>2. \/ IsSet(parser.jdkhome)' /\ (ByGiven(jvm)' \/ ByJavaHome(jvm)')
        \/ ~IsSet(parser.jdkhome)' /\ NoGiven' /\ NoJavaHome' /\ jvm' = NoJvm
    BY <1>3, <2>1, Zenon
  <2> QED
    BY <1>1, <1>2, <1>7, <2>2 DEF JavaInv, Early, Launching
<1>8. ASSUME pc' = "name", AsksJavaHome, j = Initialize(env.JAVA_HOME), j # NoJvm,
             parser' = [parser EXCEPT !.jdkhome = env.JAVA_HOME]
      PROVE  JavaInv'
  <2>1. parser'.jdkhome = env.JAVA_HOME
    BY <1>2, <1>8 DEF IsParser
  <2> QED
    BY <1>2, <1>7, <1>8, <2>1, AsksIs DEF ByJavaHome
<1>9. ASSUME pc' = "name", AsksJavaHome, Initialize(env.JAVA_HOME) = NoJvm, j = NoJvm,
             parser' = parser
      PROVE  JavaInv'
  BY <1>2, <1>7, <1>9, AsksIs DEF NoJavaHome
<1>10. ASSUME pc' = "name", ~AsksJavaHome, j = jvm, parser' = parser PROVE JavaInv'
  BY <1>2, <1>7, <1>10, AsksIs DEF NoJavaHome
<1> QED
  BY <1>4, <1>5, <1>6, <1>8, <1>9, <1>10

LEMMA JavaAddScriptName ==
    ASSUME StatusInv, AskedInv, JavaInv, AddScriptName
    PROVE  JavaInv'
<1>1. pc = "name" /\ pc' = "java" /\ UNCHANGED <<env, args, child, jvm>>
  BY DEF AddScriptName, winVars
<1>2. /\ IsParser(parser) /\ child.how = "none"
      /\ \/ IsSet(parser.jdkhome) /\ (ByGiven(jvm) \/ ByJavaHome(jvm))
         \/ ~IsSet(parser.jdkhome) /\ NoGiven /\ NoJavaHome /\ jvm = NoJvm
  BY <1>1 DEF AskedInv, BeforeJava, JavaInv, StatusInv
<1>3. parser'.jdkhome = parser.jdkhome
  <2>1. PICK words : parser' = parser \/ parser' = [parser EXCEPT !.progArgs = words]
    BY Zenon DEF AddScriptName
  <2> QED
    BY <1>2, <2>1 DEF IsParser
<1>4. PICK j : j = jvm
  OBVIOUS
<1>5. \/ IsSet(parser'.jdkhome) /\ (ByGiven(j)' \/ ByJavaHome(j)')
      \/ ~IsSet(parser'.jdkhome) /\ NoGiven' /\ NoJavaHome' /\ j = NoJvm
  BY <1>1, <1>2, <1>3, <1>4, JavaStays
<1>6. \/ IsSet(parser.jdkhome)' /\ (ByGiven(jvm)' \/ ByJavaHome(jvm)')
      \/ ~IsSet(parser.jdkhome)' /\ NoGiven' /\ NoJavaHome' /\ jvm' = NoJvm
  BY <1>1, <1>4, <1>5, Zenon
<1> QED
  BY <1>1, <1>2, <1>6 DEF JavaInv, Early, Launching

\* A Java that was chosen stays chosen.
LEMMA ChosenStays ==
    ASSUME UNCHANGED <<env, args>>, NEW j, j = jvm',
           \/ /\ ByCommand(j) /\ parser'.separateProcess = TRUE
              /\ suppressConsole' = FALSE
           \/ ~IsSet(env.JAVACMD) /\ (ByGiven(j) \/ ByJavaHome(j) \/ ByRegistry(j))
    PROVE  Chosen'
<1>1. \/ /\ ByCommand(j)' /\ parser'.separateProcess = TRUE
         /\ suppressConsole' = FALSE
      \/ ~IsSet(env'.JAVACMD) /\ (ByGiven(j)' \/ ByJavaHome(j)' \/ ByRegistry(j)')
  BY JavaStays
<1> QED
  BY <1>1, Zenon DEF Chosen

LEMMA JavaChooseJava ==
    ASSUME StatusInv, AskedInv, JavaInv, ChooseJava
    PROVE  JavaInv'
<1>1. pc = "java" /\ UNCHANGED <<env, args, child>>
  BY DEF ChooseJava
<1>2. /\ IsParser(parser) /\ child.how = "none"
      /\ \/ IsSet(parser.jdkhome) /\ (ByGiven(jvm) \/ ByJavaHome(jvm))
         \/ ~IsSet(parser.jdkhome) /\ NoGiven /\ NoJavaHome /\ jvm = NoJvm
  BY <1>1 DEF AskedInv, BeforeJava, JavaInv, StatusInv
<1>3. PICK j : j = jvm'
  OBVIOUS
<1>4. ASSUME pc' = "prepare",
             \/ /\ ByCommand(j) /\ parser'.separateProcess = TRUE
                /\ suppressConsole' = FALSE
             \/ ~IsSet(env.JAVACMD) /\ (ByGiven(j) \/ ByJavaHome(j) \/ ByRegistry(j))
      PROVE  JavaInv'
  <2>1. Chosen'
    BY <1>1, <1>3, <1>4, ChosenStays
  <2> QED
    BY <1>1, <1>2, <1>4, <2>1 DEF JavaInv, Early, Launching
<1>5. CASE pc' = "exited"
  BY <1>1, <1>5, JavaExit
<1>6. ASSUME pc' = "prepare", IsSet(env.JAVACMD),
             jvm' = [NoJvm EXCEPT !.exe = <<env.JAVACMD>>],
             parser' = [parser EXCEPT !.separateProcess = TRUE], suppressConsole' = FALSE
      PROVE  JavaInv'
  <2>1. parser'.separateProcess = TRUE
    BY <1>2, <1>6 DEF IsParser
  <2>2. ByCommand(j)
    BY <1>3, <1>6, Zenon DEF ByCommand
  <2> QED
    BY <1>4, <1>6, <2>1, <2>2
<1>7. ASSUME pc' = "prepare", ~IsSet(env.JAVACMD),
             IsSet(parser.jdkhome) => jvm' = jvm,
             ~IsSet(parser.jdkhome) => \E version \in Versions : jvm' = Initialize(version)
      PROVE  JavaInv'
  <2>1. ByGiven(j) \/ ByJavaHome(j) \/ ByRegistry(j)
    BY <1>2, <1>3, <1>7, Zenon DEF ByRegistry
  <2> QED
    BY <1>4, <1>7, <2>1
<1> QED
  BY <1>5, <1>6, <1>7, ChooseJavaIs, Zenon

LEMMA JavaPrepare ==
    ASSUME StatusInv, AskedInv, JavaInv, Prepare
    PROVE  JavaInv'
<1>1. /\ pc = "prepare" /\ UNCHANGED <<env, args, child, jvm, suppressConsole>>
      /\ pc' \in {"exited", "launch"} /\ parser' = PrepareOptions(parser)
  BY DEF Prepare, Exit, winVars
<1>2. IsParser(parser) /\ child.how = "none" /\ Chosen
  BY <1>1 DEF AskedInv, BeforeJava, JavaInv, StatusInv
<1>3. parser'.separateProcess = parser.separateProcess
  BY <1>1, <1>2, PrepareFields DEF SameRun
<1>4. Chosen'
  BY <1>1, <1>2, <1>3, ChosenStays DEF Chosen
<1>5. CASE pc' = "exited"
  BY <1>1, <1>5, JavaExit
<1>6. CASE pc' = "launch"
  BY <1>1, <1>2, <1>4, <1>6 DEF JavaInv, Early, Launching
<1> QED
  BY <1>1, <1>5, <1>6

LEMMA JavaLaunch ==
    ASSUME StatusInv, JavaInv, Launch
    PROVE  JavaInv'
<1>1. /\ pc = "launch" /\ UNCHANGED <<env, args, parser, child, suppressConsole>>
      /\ pc \notin {"running", "exited"}
  BY DEF Launch, argVars
<1>2. child.how = "none" /\ Chosen
  BY <1>1 DEF JavaInv, StatusInv, Launching
<1>3. PICK j : j = jvm'
  OBVIOUS
<1>4. \/ UNCHANGED child /\ pc' = "exited"
      \/ /\ j # NoJvm
         /\ pc' = IF parser.separateProcess THEN "outproc" ELSE "dll"
  BY <1>3 DEF Launch, Failure, Exit
<1>5. CASE UNCHANGED child /\ pc' = "exited"
  BY <1>1, <1>5, JavaExit
<1>6. ASSUME j # NoJvm, pc' = IF parser.separateProcess THEN "outproc" ELSE "dll"
      PROVE  JavaInv'
  <2>1. \/ ByCommand(j) /\ parser.separateProcess = TRUE /\ suppressConsole = FALSE
        \/ ~IsSet(env.JAVACMD) /\ (ByGiven(j) \/ ByJavaHome(j) \/ ByRegistry(j))
    <3>1. CASE jvm # NoJvm
      <4>1. j = jvm
        BY <1>3, <3>1, Zenon DEF Launch
      <4> QED
        BY <1>2, <4>1 DEF Chosen
    <3>2. CASE jvm = NoJvm
      <4>1. "" \in Versions
        BY WinAssumption, Zenon
      <4>2. \E version \in Versions : j = Initialize(version)
        BY <1>3, <3>2, <4>1, Zenon DEF Launch
      <4>3. ~ByCommand(jvm)
        <5>1. [NoJvm EXCEPT !.exe = <<env.JAVACMD>>] # NoJvm
          BY DEF NoJvm
        <5> QED
          BY <3>2, <5>1, Zenon DEF ByCommand
      <4>4. ~IsSet(env.JAVACMD) /\ NoGiven /\ NoJavaHome
        BY <1>2, <3>2, <4>3 DEF Chosen, ByGiven, ByJavaHome, ByRegistry
      <4> QED
        BY <4>2, <4>4 DEF ByRegistry
    <3> QED
      BY <3>1, <3>2
  <2>2. Chosen'
    BY <1>1, <1>3, <2>1, ChosenStays
  <2>3. pc' \in {"outproc", "dll"} /\ (pc' = "dll" => ~IsSet(env'.JAVACMD))
    BY <1>1, <1>6, <2>1
  <2>4. jvm' # NoJvm
    BY <1>3, <1>6
  <2> QED
    BY <1>1, <1>2, <2>2, <2>3, <2>4 DEF JavaInv, Early, Launching
<1> QED
  BY <1>4, <1>5, <1>6

LEMMA JavaLoadDll ==
    ASSUME StatusInv, JavaInv, LoadJavaDll
    PROVE  JavaInv'
<1>1. /\ pc = "dll" /\ pc' \in {"inproc", "outproc"}
      /\ UNCHANGED <<env, args, child, jvm>>
  BY DEF LoadJavaDll, winVars
<1>2. child.how = "none" /\ Chosen /\ jvm # NoJvm /\ ~IsSet(env.JAVACMD)
  BY <1>1 DEF JavaInv, StatusInv, Launching
<1>3. Chosen'
  BY <1>1, <1>2, ChosenStays DEF Chosen, ByCommand
<1> QED
  BY <1>1, <1>2, <1>3 DEF JavaInv, Early, Launching

\* A Java that runs, or has run, is the right one.
LEMMA JavaRuns ==
    ASSUME JavaInv, UNCHANGED <<env, args>>, pc' \in {"running", "exited"},
           child'.how \in {"inproc", "outproc"} => RightJava(child'.exe)
    PROVE  JavaInv'
<1>1. PICK exe : exe = child'.exe
  OBVIOUS
<1>2. child'.how \in {"inproc", "outproc"} => RightJava(exe)'
  BY <1>1, JavaStays
<1>3. child'.how \in {"inproc", "outproc"} => RightJava(child.exe)'
  BY <1>1, <1>2, Zenon
<1> QED
  BY <1>3 DEF JavaInv, Early, Launching

\* Only the home matters, unless JAVACMD is set.
LEMMA SameJava ==
    ASSUME NEW exe, RightJava(exe), ~IsSet(env.JAVACMD), NEW file, file[1] = exe[1]
    PROVE  RightJava(file)
BY DEF RightJava

LEMMA JavaStart ==
    ASSUME StatusInv, JavaInv, StartInProcJvm \/ StartOutProcJvm
    PROVE  JavaInv'
<1>1. /\ pc \in {"inproc", "outproc"} /\ UNCHANGED <<env, args>>
      /\ pc \notin {"running", "exited"}
  BY DEF StartInProcJvm, StartOutProcJvm, argVars
<1>2. Chosen /\ jvm # NoJvm
  BY <1>1 DEF JavaInv, Launching
<1>3. ASSUME UNCHANGED child, pc' = "exited" PROVE JavaInv'
  BY <1>1, <1>3, JavaExit
<1>4. CASE StartInProcJvm
  <2>1. \/ UNCHANGED child /\ pc' = "exited"
        \/ pc' = "running" /\ child'.exe = <<jvm.exe[1], jvm.exe[2], JavaDll>>
    BY <1>4 DEF StartInProcJvm, Failure, Exit
  <2>2. ~IsSet(env.JAVACMD)
    BY <1>4 DEF StartInProcJvm, JavaInv
  <2>3. RightJava(jvm.exe)
    BY <1>2, <2>2, ChosenIsRight DEF Chosen
  <2>4. RightJava(<<jvm.exe[1], jvm.exe[2], JavaDll>>)
    BY <2>2, <2>3, SameJava
  <2> QED
    BY <1>1, <1>3, <2>1, <2>4, JavaRuns
<1>5. CASE StartOutProcJvm
  <2>1. \/ UNCHANGED child /\ pc' = "exited"
        \/ pc' = "running" /\ child'.exe = IF suppressConsole THEN jvm.javaw ELSE jvm.exe
    BY <1>5 DEF StartOutProcJvm, Failure, Exit
  <2>2. RightJava(IF suppressConsole THEN jvm.javaw ELSE jvm.exe)
    BY <1>2, ChosenIsRight DEF Chosen
  <2> QED
    BY <1>1, <1>3, <2>1, <2>2, JavaRuns
<1> QED
  BY <1>4, <1>5

LEMMA JavaNailgun ==
    ASSUME StatusInv, JavaInv, StartNailgun
    PROVE  JavaInv'
<1>1. pc = "nailgun" /\ UNCHANGED <<env, args>> /\ pc \notin {"running", "exited"}
  BY DEF StartNailgun
<1>2. PICK words : words = parser'.progArgs
  OBVIOUS
<1>3. \/ UNCHANGED child /\ pc' = "exited"
      \/ /\ pc' = "running"
         /\ child' = [NoChild EXCEPT !.how = "nailgun", !.arguments = words]
  BY <1>2 DEF StartNailgun, Exit
<1>4. CASE UNCHANGED child /\ pc' = "exited"
  BY <1>1, <1>4, JavaExit
<1>5. ASSUME pc' = "running",
             child' = [NoChild EXCEPT !.how = "nailgun", !.arguments = words]
      PROVE  JavaInv'
  <2>1. child'.how = "nailgun"
    BY <1>5, NoChildIs, ChildExcept
  <2> QED
    BY <1>1, <1>5, <2>1, JavaRuns
<1> QED
  BY <1>3, <1>4, <1>5

LEMMA JavaEnds ==
    ASSUME StatusInv, JavaInv, JvmEnds
    PROVE  JavaInv'
<1>1. PICK status : child' = [child EXCEPT !.status = status]
  BY DEF JvmEnds
<1>2. pc = "running" /\ pc' = "exited" /\ UNCHANGED <<env, args>>
  BY DEF JvmEnds, Exit, argVars
<1>3. child'.how = child.how /\ child'.exe = child.exe
  BY <1>1 DEF StatusInv, IsChild
<1>4. child.how \in {"inproc", "outproc"} => RightJava(child.exe)
  BY DEF JavaInv
<1> QED
  BY <1>2, <1>3, <1>4, JavaRuns

LEMMA JavaStutters ==
    ASSUME JavaInv, UNCHANGED vars
    PROVE  JavaInv'
<1>1. UNCHANGED <<env, args, parser, pc, child, jvm, suppressConsole>>
  BY DEF vars, argVars, winVars
<1>2. PICK j, exe : j = jvm /\ exe = child.exe
  OBVIOUS
<1>3. /\ NoGiven' <=> NoGiven
      /\ NoJavaHome' <=> NoJavaHome
      /\ ByGiven(jvm)' <=> ByGiven(jvm)
      /\ ByJavaHome(jvm)' <=> ByJavaHome(jvm)
      /\ RightJava(child.exe)' <=> RightJava(child.exe)
  <2>1. /\ NoGiven' <=> NoGiven
        /\ NoJavaHome' <=> NoJavaHome
        /\ ByGiven(j)' <=> ByGiven(j)
        /\ ByJavaHome(j)' <=> ByJavaHome(j)
        /\ RightJava(exe)' <=> RightJava(exe)
    BY <1>1, JavaStays
  <2>2. j = jvm' /\ exe = child'.exe
    BY <1>1, <1>2
  <2> QED
    BY <1>2, <2>1, <2>2, Zenon
<1>4. GivenHome' = GivenHome
  BY <1>1, HomesStay
<1>5. Chosen => Chosen'
  BY <1>1, <1>2, ChosenStays DEF Chosen
<1> QED
  BY <1>1, <1>3, <1>4, <1>5 DEF JavaInv

LEMMA JavaStep == StatusInv /\ AskedInv /\ JavaInv /\ [Next]_vars => JavaInv'
<1> SUFFICES ASSUME StatusInv, AskedInv, JavaInv, [Next]_vars PROVE JavaInv'
  OBVIOUS
<1>1. ASSUME CheckLoggingArg \/ SetupProcess \/ LoadPlatform \/ Start \/ ParseWord
      PROVE  JavaInv'
  <2>1. /\ UNCHANGED <<child, jvm>> /\ pc \in Early \cup {"parse"}
        /\ pc' \in Early \cup {"parse", "exited"} /\ pc \notin {"running", "exited"}
    <3>1. CASE CheckLoggingArg
      BY <3>1 DEF CheckLoggingArg, Early
    <3>2. CASE SetupProcess
      BY <3>2 DEF SetupProcess, Exit, Early
    <3>3. CASE LoadPlatform
      BY <3>3 DEF LoadPlatform, Exit, Early
    <3>4. CASE Start
      BY <3>4, StartsParsing DEF Start, winVars, Early
    <3>5. CASE ParseWord
      BY <3>5 DEF ParseWord, Exit, winVars, Early
    <3> QED
      BY <1>1, <3>1, <3>2, <3>3, <3>4, <3>5
  <2> QED
    BY <2>1, JavaEarly, JavaExit
<1> QED
  BY <1>1, JavaGiven, JavaCheckJDKHome, JavaCheckJavaHome, JavaNailgun, JavaAddScriptName,
     JavaChooseJava, JavaPrepare, JavaLaunch, JavaLoadDll, JavaStart, JavaEnds, JavaStutters
     DEF Next, Exited

\* "should use -Xjdkhome argument above JAVA_HOME", and JAVACMD above both: whatever
\* is installed and registered, and however the user answers, the Java that is
\* started is the first of JAVACMD, the last -Xjdkhome, JAVA_HOME and the registry's
\* that is there (checkJDKHome, start, initialize).
THEOREM RightJavaStarts == Spec => []JavaPrecedence
<1>1. Init => StatusInv /\ AskedInv /\ JavaInv
  <2>1. Init => JavaInv
    BY NoChildIs DEF Init, JavaInv, Early, Launching
  <2> QED
    BY <2>1, StatusInit, AskedInit
<1>2. StatusInv /\ AskedInv /\ JavaInv /\ [Next]_vars
      => (StatusInv /\ AskedInv /\ JavaInv)'
  BY StatusStep, AskedStep, JavaStep
<1>3. JavaInv => JavaPrecedence
  BY RightJavaIs DEF JavaInv
<1> QED
  BY <1>1, <1>2, <1>3, PTL DEF Spec

-----------------------------------------------------------------------------
(* The JVM's options.  The parser has what the user says of an option; the    *)
(* launcher's own options go before that, with the home of JRuby; and where   *)
(* the JVM is to run is settled before -cp is one of them, or, if it is not,  *)
(* the JVM does not run in this process.                                      *)

OwnHome(home) ==
    /\ env.JRUBY_HOME # <<>> => home = env.JRUBY_HOME
    /\ env.JRUBY_HOME = <<>> /\ OwnOnPath => home = Home(env.module)

Combined(ws) ==
    /\ IsSeq(ws)
    /\ \E home : OwnHome(home) /\ FirstIs(ws, "-Djruby.home=", home)
    /\ Heard(ws, OptionWords)

OptionsInv ==
    /\ pc \in {"parse"} \cup BeforeJava => OwnHome(parser.platformDir)
    /\ pc \in BeforeJava => JavaRead(OptionWords)
    /\ pc \in Launching => /\ Combined(parser.javaOptions)
                           /\ ~parser.separateProcess => CpIsUsers(parser.javaOptions)
    /\ pc \in {"dll", "inproc"} => ~parser.separateProcess
    /\ child.how \in {"inproc", "outproc"} => Combined(child.options)
    /\ child.how = "inproc" => /\ CpIsUsers(child.options)
                               /\ Lacks(child.options, "-server")
                               /\ Lacks(child.options, "-client")

\* The home does not depend on the last element of a path.
LEMMA HomeOfNeighbour ==
    ASSUME NEW S, NEW module \in Seq(S), module # <<>>, NEW name \in Seq(S), Len(name) = 1
    PROVE  Home(SubSeq(module, 1, Len(module) - 1) \o name) = Home(module)
<1>1. PICK k \in Nat : Len(module) = k + 1
  BY LenProperties
<1>2. PICK dir : dir = SubSeq(module, 1, k)
  OBVIOUS
<1>3. dir \in Seq(S) /\ Len(dir) = k /\ \A i \in 1 .. k : dir[i] = module[i]
  BY <1>1, <1>2
<1>4. PICK path : path = dir \o name
  OBVIOUS
<1>5. path \in Seq(S) /\ Len(path) = k + 1 /\ \A i \in 1 .. k : path[i] = module[i]
  <2>1. path \in Seq(S) /\ Len(path) = Len(dir) + Len(name)
    BY <1>3, <1>4, ConcatProperties
  <2>2. ASSUME NEW i \in 1 .. k PROVE path[i] = dir[i]
    BY <1>1, <1>3, <1>4, ConcatProperties
  <2> QED
    BY <1>3, <2>1, <2>2
<1>6. CASE k < 2
  <2>1. Home(path) = <<>> /\ Home(module) = <<>>
    BY <1>1, <1>5, <1>6 DEF Home
  <2> QED
    BY <1>1, <1>2, <1>4, <2>1
<1>7. CASE k >= 2
  <2>1. /\ Home(path) = SubSeq(path, 1, k - 1) /\ Home(module) = SubSeq(module, 1, k - 1)
    BY <1>1, <1>5, <1>7 DEF Home
  <2>2. SubSeq(path, 1, k - 1) = SubSeq(module, 1, k - 1)
    BY <1>1, <1>5, <1>7
  <2> QED
    BY <1>1, <1>2, <1>4, <2>1, <2>2
<1>8. Len(module) - 1 = k
  BY <1>1
<1> QED
  BY <1>2, <1>4, <1>6, <1>7, <1>8

\* What is found on PATH does not lead to another installation, unless PATH has one.
LEMMA OwnPlatform ==
    ASSUME env \in Environments, NEW empty \in EmptyElement
    PROVE  OwnHome(PlatformDir(empty))
<1> DEFINE onPath == FindOnPath(env.argv0, empty)
<1>1. ASSUME env.JRUBY_HOME # <<>> PROVE PlatformDir(empty) = env.JRUBY_HOME
  BY <1>1, Zenon DEF PlatformDir
<1>2. ASSUME env.JRUBY_HOME = <<>>, OwnOnPath PROVE PlatformDir(empty) = Home(env.module)
  <2>1. CASE onPath = <<>>
    BY <1>2, <2>1, Zenon DEF PlatformDir
  <2>2. CASE onPath # <<>>
    <3>1. PlatformDir(empty) = Home(onPath)
      BY <1>2, <2>2, Zenon DEF PlatformDir
    <3> DEFINE At(dir) == (IF dir = <<>> THEN empty ELSE dir) \o env.argv0
               hits    == {n \in DOMAIN env.PATH : CheckExists(At(env.PATH[n]))}
    <3>2. onPath = IF hits = {} THEN <<>> ELSE At(env.PATH[Min(hits)])
      BY Zenon DEF FindOnPath
    <3>3. hits # {} /\ onPath = At(env.PATH[Min(hits)])
      BY <2>2, <3>2, Zenon
    <3>4. env.PATH \in Seq(Seq(STRING))
      BY DEF Environments
    <3>5. hits \subseteq Nat
      <4>1. DOMAIN env.PATH \subseteq Nat
        BY <3>4
      <4>2. hits \subseteq DOMAIN env.PATH
        BY Zenon
      <4> QED
        BY <4>1, <4>2, Zenon
    <3>6. Min(hits) \in hits
      <4> HIDE DEF hits
      <4> QED
        BY <3>3, <3>5, LeastElement
    <3>7. PICK n \in DOMAIN env.PATH : /\ CheckExists(At(env.PATH[n]))
                                       /\ onPath = At(env.PATH[n])
      BY <3>3, <3>6, Zenon
    <3>8. env.PATH[n] \in Range(env.PATH)
      BY <3>7 DEF Range
    <3>9. PICK dir : dir = env.PATH[n]
      OBVIOUS
    <3>10. /\ dir # <<>>
           /\ CheckExists(dir \o env.argv0) =>
                 Len(env.argv0) = 1 /\ dir = SubSeq(env.module, 1, Len(env.module) - 1)
      BY <1>2, <3>8, <3>9, Zenon DEF OwnOnPath
    <3>11. At(dir) = dir \o env.argv0
      BY <3>10, Zenon
    <3>12. /\ onPath = dir \o env.argv0 /\ Len(env.argv0) = 1
           /\ dir = SubSeq(env.module, 1, Len(env.module) - 1)
      BY <3>7, <3>9, <3>10, <3>11, Zenon
    <3>13. Home(onPath) = Home(env.module)
      BY <3>12, HomeOfNeighbour DEF Environments
    <3> QED
      BY <3>1, <3>13, Zenon
  <2> QED
    BY <2>1, <2>2
<1> QED
  BY <1>1, <1>2, Zenon DEF OwnHome

\* The launcher's own options.
LEMMA DefaultsAre ==
    ASSUME NEW p, NEW user
    PROVE  /\ IsSeq(DefaultOptions(p, user))
           /\ FirstIs(DefaultOptions(p, user), "-Djruby.home=", p.platformDir)
           /\ ~p.separateProcess => Lacks(DefaultOptions(p, user), "-cp")
<1>1. PICK a : a = << Word("-Djdk.home=", <<p.jdkhome>>),
                      Word("-Djruby.home=", p.platformDir),
                      Word("-Djruby.script=", <<"jruby">>),
                      Word("-Djruby.shell=", <<"cmd.exe">>),
                      Word("-Djffi.boot.library.path=", <<"lib/jni">>) >>
  OBVIOUS
<1>2. PICK b : b = IF \E j \in DOMAIN user : user[j].opt = "-Xss" THEN <<>>
                   ELSE << Word("-Xss", <<"2048k">>) >>
  OBVIOUS
<1>3. PICK c : c = << Word("-Dsun.java.command=", <<p.bootclass>>) >>
  OBVIOUS
<1>4. PICK d : d = IF p.bootClassPath = <<>> THEN <<>>
                   ELSE << Word(IF UseModulePath(p) /\ JRUBY_MODULE
                                THEN "--module-path=" ELSE "-Xbootclasspath/a:",
                                p.bootClassPath) >>
  OBVIOUS
<1>5. PICK e : e = IF UseModulePath(p) THEN ModuleOptions ELSE <<>>
  OBVIOUS
<1>6. PICK f : f = << Word(IF p.separateProcess THEN "-cp" ELSE "-Djava.class.path=",
                           p.classPath) >>
  OBVIOUS
<1>7. DefaultOptions(p, user) = a \o b \o c \o d \o e \o f
  BY <1>1, <1>2, <1>3, <1>4, <1>5, <1>6, Zenon DEF DefaultOptions
<1>8. IsSeq(<<>>) /\ Lacks(<<>>, "-cp")
  <2>1. <<>> \in Seq({}) /\ 1 .. Len(<<>>) = {}
    OBVIOUS
  <2> QED
    BY <2>1 DEF IsSeq, Lacks
<1>9. \A opt, text : /\ IsSeq(<< Word(opt, text) >>)
                     /\ opt # "-cp" => Lacks(<< Word(opt, text) >>, "-cp")
  <2> SUFFICES ASSUME NEW opt, NEW text
               PROVE  /\ IsSeq(<< Word(opt, text) >>)
                      /\ opt # "-cp" => Lacks(<< Word(opt, text) >>, "-cp")
    OBVIOUS
  <2>1. PICK w : w = Word(opt, text)
    OBVIOUS
  <2>2. w.opt = opt
    BY <2>1 DEF Word
  <2> QED
    BY <2>1, <2>2, SingleWord DEF Lacks
<1>10. IsSeq(b) /\ Lacks(b, "-cp")
  BY <1>2, <1>8, <1>9
<1>11. IsSeq(c) /\ Lacks(c, "-cp")
  BY <1>3, <1>9
<1>12. IsSeq(d) /\ Lacks(d, "-cp")
  <2>1. PICK opt : opt = IF UseModulePath(p) /\ JRUBY_MODULE
                         THEN "--module-path=" ELSE "-Xbootclasspath/a:"
    OBVIOUS
  <2>2. opt # "-cp"
    BY <2>1
  <2>3. d = <<>> \/ d = << Word(opt, p.bootClassPath) >>
    BY <1>4, <2>1, Zenon
  <2> QED
    BY <1>8, <1>9, <2>2, <2>3
<1>13. IsSeq(e) /\ Lacks(e, "-cp")
  <2>1. \/ e = <<>>
        \/ \E opt, text : opt # "-cp" /\ e = << Word(opt, text) >>
    BY <1>5 DEF ModuleOptions
  <2> QED
    BY <1>8, <1>9, <2>1
<1>14. IsSeq(f) /\ (~p.separateProcess => Lacks(f, "-cp"))
  <2>1. CASE p.separateProcess
    BY <1>6, <1>9, <2>1
  <2>2. CASE ~p.separateProcess
    BY <1>6, <1>9, <2>2
  <2> QED
    BY <2>1, <2>2
<1>15. IsSeq(a) /\ Lacks(a, "-cp") /\ FirstIs(a, "-Djruby.home=", p.platformDir)
  <2>1. PICK v, w, x, y, z, home :
           /\ a = <<v, w, x, y, z>> /\ home = p.platformDir
           /\ v.opt # "-Djruby.home=" /\ w.opt = "-Djruby.home=" /\ w.text = home
           /\ \A u \in {v, w, x, y, z} : u.opt # "-cp"
    <3>1. PICK home : home = p.platformDir
      OBVIOUS
    <3>2. PICK v, w, x, y, z : /\ v = Word("-Djdk.home=", <<p.jdkhome>>)
                               /\ w = Word("-Djruby.home=", home)
                               /\ x = Word("-Djruby.script=", <<"jruby">>)
                               /\ y = Word("-Djruby.shell=", <<"cmd.exe">>)
                               /\ z = Word("-Djffi.boot.library.path=", <<"lib/jni">>)
      OBVIOUS
    <3>3. a = <<v, w, x, y, z>>
      BY <1>1, <3>1, <3>2, Zenon
    <3>4. /\ v.opt # "-Djruby.home=" /\ w.opt = "-Djruby.home=" /\ w.text = home
          /\ \A u \in {v, w, x, y, z} : u.opt # "-cp"
      BY <3>2 DEF Word
    <3> QED
      BY <3>1, <3>3, <3>4
  <2>2. /\ a \in Seq({v, w, x, y, z}) /\ Len(a) = 5 /\ a[1] = v /\ a[2] = w
        /\ \A j \in 1 .. Len(a) : a[j] \in {v, w, x, y, z}
    BY <2>1
  <2>3. 2 \in 1 .. Len(a) /\ \A k \in 1 .. Len(a) : k < 2 => k = 1
    BY <2>2
  <2>4. IsSeq(a)
    BY <2>2 DEF IsSeq
  <2>5. Lacks(a, "-cp")
    BY <2>1, <2>2 DEF Lacks
  <2>6. \A k \in 1 .. Len(a) : k < 2 => a[k].opt # "-Djruby.home="
    BY <2>1, <2>2, <2>3
  <2>7. FirstIs(a, "-Djruby.home=", home)
    BY <2>1, <2>2, <2>3, <2>6 DEF FirstIs
  <2> QED
    BY <2>1, <2>4, <2>5, <2>7
<1>16. PICK home : home = p.platformDir
  OBVIOUS
<1>17. ASSUME NEW s, IsSeq(s), Lacks(s, "-cp"), FirstIs(s, "-Djruby.home=", home),
              NEW t, IsSeq(t)
       PROVE  /\ IsSeq(s \o t) /\ FirstIs(s \o t, "-Djruby.home=", home)
              /\ Lacks(t, "-cp") => Lacks(s \o t, "-cp")
  BY <1>17, Concatenation, BothLack, FirstOfBoth
<1>18. PICK ab : ab = a \o b
  OBVIOUS
<1>19. IsSeq(ab) /\ Lacks(ab, "-cp") /\ FirstIs(ab, "-Djruby.home=", home)
  BY <1>10, <1>15, <1>16, <1>17, <1>18
<1>20. PICK abc : abc = ab \o c
  OBVIOUS
<1>21. IsSeq(abc) /\ Lacks(abc, "-cp") /\ FirstIs(abc, "-Djruby.home=", home)
  BY <1>11, <1>17, <1>19, <1>20
<1>22. PICK abcd : abcd = abc \o d
  OBVIOUS
<1>23. IsSeq(abcd) /\ Lacks(abcd, "-cp") /\ FirstIs(abcd, "-Djruby.home=", home)
  BY <1>12, <1>17, <1>21, <1>22
<1>24. PICK abcde : abcde = abcd \o e
  OBVIOUS
<1>25. IsSeq(abcde) /\ Lacks(abcde, "-cp") /\ FirstIs(abcde, "-Djruby.home=", home)
  BY <1>13, <1>17, <1>23, <1>24
<1>26. PICK ws : ws = abcde \o f
  OBVIOUS
<1>27. /\ IsSeq(ws) /\ FirstIs(ws, "-Djruby.home=", home)
       /\ ~p.separateProcess => Lacks(ws, "-cp")
  BY <1>14, <1>17, <1>25, <1>26
<1>28. DefaultOptions(p, user) = ws
  BY <1>7, <1>18, <1>20, <1>22, <1>24, <1>26
<1> QED
  BY <1>16, <1>27, <1>28

\* prepareOptions puts them before the user's.
LEMMA PrepareIs ==
    ASSUME NEW p, IsParser(p)
    PROVE  \E q : /\ SameRun(p, q)
                  /\ PrepareOptions(p).javaOptions
                       = DefaultOptions(q, p.javaOptions) \o p.javaOptions
<1>1. PICK q : q = ConstructBootClassPath(p)
  OBVIOUS
<1>2. SameRun(p, q)
  BY <1>1, BootFields
<1>3. PICK r, a, b : /\ r = ConstructClassPath(q)
                     /\ r = [q EXCEPT !.addedToCP = a, !.classPath = b]
  <2>1. PICK a, b : ConstructClassPath(q) = [q EXCEPT !.addedToCP = a, !.classPath = b]
    BY Zenon DEF ConstructClassPath
  <2> QED
    BY <2>1, Zenon
<1>4. SameRun(q, r)
  <2>1. IsParser(q)
    BY <1>2 DEF SameRun, SameRequest
  <2> QED
    BY <1>3, <2>1, PathFields, Zenon
<1>5. PICK u, c : /\ u = [r EXCEPT !.bootclass = c]
                  /\ u = [r EXCEPT !.bootclass = IF @ = "" THEN "org/jruby/Main" ELSE @]
  <2>1. PICK c : c = IF r.bootclass = "" THEN "org/jruby/Main" ELSE r.bootclass
    OBVIOUS
  <2> QED
    BY <2>1, Zenon
<1>6. SameRun(r, u)
  <2>1. IsParser(r)
    BY <1>4 DEF SameRun, SameRequest
  <2> QED
    BY <1>5, <2>1, LastField, Zenon
<1>7. PICK d : d = DefaultOptions(u, p.javaOptions) \o p.javaOptions
  OBVIOUS
<1>8. PrepareOptions(p) = [u EXCEPT !.javaOptions = d]
  BY <1>1, <1>3, <1>5, <1>7, Zenon DEF PrepareOptions, Combine
<1>9. SameRun(p, u)
  BY <1>2, <1>4, <1>6, RunTrans
<1>10. PrepareOptions(p).javaOptions = d
  BY <1>8, <1>9 DEF SameRun, SameRequest, IsParser
<1> QED
  BY <1>7, <1>9, <1>10

LEMMA CombinedStays ==
    ASSUME UNCHANGED <<env, args>>, NEW ws
    PROVE  /\ Combined(ws)' <=> Combined(ws)
           /\ CpIsUsers(ws)' <=> CpIsUsers(ws)
           /\ \A home : OwnHome(home)' <=> OwnHome(home)
<1>1. PICK n : n = OptionWords
  OBVIOUS
<1>2. OptionWords' = n
  BY <1>1 DEF OptionWords
<1>3. /\ Heard(ws, n)' <=> Heard(ws, n)
      /\ CpIsUsers(ws)' <=> CpIsUsers(ws)
  BY HeardStays
<1>4. \A home : OwnHome(home)' <=> OwnHome(home)
  BY DEF OwnHome, OwnOnPath
<1> QED
  BY <1>1, <1>2, <1>3, <1>4, Zenon DEF Combined

\* Where nothing is to be said.
LEMMA OptionsEarly ==
    ASSUME pc' \in Early \cup {"running", "exited"}, child'.how \notin {"inproc", "outproc"}
    PROVE  OptionsInv'
BY DEF OptionsInv, Early, BeforeJava, Launching

LEMMA OptionsExit ==
    ASSUME StatusInv, UNCHANGED child, pc \notin {"running", "exited"}, pc' = "exited"
    PROVE  OptionsInv'
BY OptionsEarly DEF StatusInv

LEMMA OptionsStart ==
    ASSUME StatusInv, AskedInv, Start
    PROVE  OptionsInv'
<1>1. pc = "start" /\ UNCHANGED child /\ child.how = "none"
  BY DEF Start, winVars, StatusInv
<1>2. \/ pc' = "exited"
      \/ \E empty \in EmptyElement : pc' = "parse" /\ ReadEnvironment(PlatformDir(empty))
  BY Zenon DEF Start, Exit
<1>3. CASE pc' = "exited"
  BY <1>1, <1>3, OptionsExit
<1>4. ASSUME NEW empty \in EmptyElement, pc' = "parse", ReadEnvironment(PlatformDir(empty))
      PROVE  OptionsInv'
  <2>1. /\ env \in Environments /\ it = 1 /\ doneScanning = FALSE
        /\ parser = NewParser
    BY <1>1 DEF AskedInv, Early
  <2>2. PICK home : home = PlatformDir(empty)
    OBVIOUS
  <2>3. parser'.platformDir = home
    BY <1>4, <2>1, <2>2, ParsingBegins
  <2>4. OwnHome(home)'
    <3>1. OwnHome(home)
      BY <2>1, <2>2, OwnPlatform
    <3>2. env' = env
      BY <1>4 DEF ReadEnvironment
    <3> QED
      BY <3>1, <3>2 DEF OwnHome, OwnOnPath
  <2> QED
    BY <1>1, <1>4, <2>3, <2>4 DEF OptionsInv, BeforeJava, Launching
<1> QED
  BY <1>2, <1>3, <1>4

LEMMA OptionsParseWord ==
    ASSUME StatusInv, AskedInv, OptionsInv, ParseWord
    PROVE  OptionsInv'
<1>1. pc = "parse" /\ it <= Len(args) /\ UNCHANGED <<env, args, child>> /\ child.how = "none"
  BY DEF ParseWord, winVars, StatusInv
<1>2. IsParser(parser) /\ OwnHome(parser.platformDir)
  BY <1>1 DEF AskedInv, Parsing, OptionsInv
<1>3. ASSUME RubyWord \/ OptionWord \/ ValueWords, UNCHANGED pc PROVE OptionsInv'
  <2>1. parser'.platformDir = parser.platformDir
    <3>1. CASE RubyWord
      BY <1>2, <3>1 DEF RubyWord, IsParser
    <3>2. CASE OptionWord
      BY <1>2, <3>2, OptionFields DEF OptionWord
    <3>3. CASE ValueWords
      BY <1>2, <3>3, ValueFields DEF ValueWords, SameRequest
    <3> QED
      BY <1>3, <3>1, <3>2, <3>3
  <2>2. PICK home : home = parser.platformDir
    OBVIOUS
  <2>3. OwnHome(home)'
    BY <1>1, <1>2, <2>2, CombinedStays
  <2> QED
    BY <1>1, <1>3, <2>1, <2>2, <2>3 DEF OptionsInv, BeforeJava, Launching
<1>4. ASSUME Exit(FAILED) PROVE OptionsInv'
  BY <1>1, <1>4, OptionsExit DEF Exit
<1> QED
  BY <1>3, <1>4 DEF ParseWord

\* A step of start() before the options are prepared.
LEMMA OptionsChoosing ==
    ASSUME UNCHANGED <<env, args>>, child'.how = "none", pc' \in BeforeJava,
           JavaRead(OptionWords), OwnHome(parser.platformDir),
           parser'.javaOptions = parser.javaOptions,
           parser'.platformDir = parser.platformDir
    PROVE  OptionsInv'
<1>1. PICK n, home : n = OptionWords /\ home = parser.platformDir
  OBVIOUS
<1>2. JavaRead(n)' /\ OwnHome(home)'
  BY <1>1, SameHeard, CombinedStays
<1>3. OptionWords' = n
  BY <1>1 DEF OptionWords
<1> QED
  BY <1>1, <1>2, <1>3 DEF OptionsInv, BeforeJava, Launching

LEMMA OptionsParseEnds ==
    ASSUME StatusInv, AskedInv, OptionsInv, ParseEnds
    PROVE  OptionsInv'
<1>1. /\ pc = "parse" /\ it > Len(args) /\ pc' = "jdkhome" /\ child'.how = "none"
      /\ UNCHANGED <<env, args, parser>>
  BY DEF ParseEnds, winVars, argVars, StatusInv
<1>2. JavaRead(OptionWords) /\ OwnHome(parser.platformDir)
  BY <1>1, BoundaryIsScript DEF AskedInv, ReadUpTo, OptionsInv
<1> QED
  BY <1>1, <1>2, OptionsChoosing DEF BeforeJava

LEMMA ChoosingKeepsOptions ==
    ASSUME IsParser(parser), CheckJDKHome \/ CheckJavaHome \/ AddScriptName \/ ChooseJava
    PROVE  /\ parser'.javaOptions = parser.javaOptions
           /\ parser'.platformDir = parser.platformDir
<1> DEFINE Same == /\ parser'.javaOptions = parser.javaOptions
                   /\ parser'.platformDir = parser.platformDir
<1>1. ASSUME NEW a, \/ parser' = [parser EXCEPT !.jdkhome = a]
                   \/ parser' = [parser EXCEPT !.separateProcess = a]
                   \/ parser' = [parser EXCEPT !.progArgs = a]
      PROVE  Same
  BY <1>1 DEF IsParser
<1>2. ASSUME parser' = parser PROVE Same
  BY <1>2
<1> HIDE DEF Same
<1>3. ASSUME CheckJDKHome PROVE Same
  BY <1>1, <1>2, <1>3, Zenon DEF CheckJDKHome
<1>4. ASSUME CheckJavaHome PROVE Same
  BY <1>1, <1>2, <1>4, Zenon DEF CheckJavaHome
<1>5. ASSUME AddScriptName PROVE Same
  BY <1>1, <1>2, <1>5, Zenon DEF AddScriptName
<1>6. ASSUME ChooseJava PROVE Same
  BY <1>1, <1>6, Zenon DEF ChooseJava
<1> QED
  BY <1>3, <1>4, <1>5, <1>6 DEF Same

LEMMA OptionsChoosingStep ==
    ASSUME StatusInv, AskedInv, OptionsInv,
           CheckJDKHome \/ CheckJavaHome \/ AddScriptName \/ ChooseJava
    PROVE  OptionsInv'
<1>1. /\ pc \in BeforeJava /\ child.how = "none"
      /\ UNCHANGED <<env, args, child>>
  BY DEF CheckJDKHome, CheckJavaHome, AddScriptName, ChooseJava, BeforeJava, winVars,
         StatusInv
<1>2. /\ IsParser(parser) /\ JavaRead(OptionWords) /\ OwnHome(parser.platformDir)
  BY <1>1 DEF AskedInv, OptionsInv
<1>3. /\ parser'.javaOptions = parser.javaOptions
      /\ parser'.platformDir = parser.platformDir
  BY <1>2, ChoosingKeepsOptions
<1>4. pc' \in BeforeJava \cup {"exited"}
  <2>1. CASE CheckJDKHome
    BY <2>1, Zenon DEF CheckJDKHome, Exit, BeforeJava
  <2>2. CASE CheckJavaHome
    BY <2>2, Zenon DEF CheckJavaHome, Exit, BeforeJava
  <2>3. CASE AddScriptName
    BY <2>3, Zenon DEF AddScriptName, BeforeJava
  <2>4. CASE ChooseJava
    BY <2>4, Zenon DEF ChooseJava, Exit, BeforeJava
  <2> QED
    BY <2>1, <2>2, <2>3, <2>4
<1> QED
  BY <1>1, <1>2, <1>3, <1>4, OptionsChoosing, OptionsEarly

LEMMA OptionsNailgun ==
    ASSUME StatusInv, StartNailgun
    PROVE  OptionsInv'
<1>1. pc = "nailgun" /\ child.how = "none"
  BY DEF StartNailgun, StatusInv
<1>2. PICK words : words = parser'.progArgs
  OBVIOUS
<1>3. \/ UNCHANGED child /\ pc' = "exited"
      \/ pc' = "running" /\ child' = [NoChild EXCEPT !.how = "nailgun", !.arguments = words]
  BY <1>2 DEF StartNailgun, Exit
<1>4. child'.how \in {"none", "nailgun"} /\ pc' \in {"running", "exited"}
  <2>1. CASE UNCHANGED child /\ pc' = "exited"
    BY <1>1, <2>1
  <2>2. CASE pc' = "running" /\ child' = [NoChild EXCEPT !.how = "nailgun", !.arguments = words]
    <3>1. child'.how = "nailgun"
      BY <2>2, NoChildIs, ChildExcept
    <3> QED
      BY <2>2, <3>1
  <2> QED
    BY <1>3, <2>1, <2>2
<1> QED
  BY <1>4, OptionsEarly

LEMMA OptionsLaunching ==
    ASSUME UNCHANGED <<env, args>>, child'.how = "none", pc' \in Launching,
           Combined(parser'.javaOptions),
           ~parser'.separateProcess => CpIsUsers(parser'.javaOptions),
           pc' \in {"dll", "inproc"} => ~parser'.separateProcess
    PROVE  OptionsInv'
<1>1. PICK ws : ws = parser'.javaOptions
  OBVIOUS
<1>2. Combined(ws)' /\ (CpIsUsers(ws)' <=> CpIsUsers(ws))
  BY <1>1, CombinedStays
<1> QED
  BY <1>1, <1>2 DEF OptionsInv, BeforeJava, Launching

LEMMA OptionsPrepare ==
    ASSUME StatusInv, AskedInv, OptionsInv, Prepare
    PROVE  OptionsInv'
<1>1. /\ pc = "prepare" /\ child.how = "none" /\ UNCHANGED <<env, args, child>>
      /\ parser' = PrepareOptions(parser) /\ pc' \in {"launch", "exited"}
  BY DEF Prepare, winVars, StatusInv, Exit
<1>2. /\ IsParser(parser) /\ JavaRead(OptionWords) /\ OwnHome(parser.platformDir)
  BY <1>1 DEF AskedInv, OptionsInv, BeforeJava
<1>3. PICK q : /\ SameRun(parser, q)
               /\ parser'.javaOptions = DefaultOptions(q, parser.javaOptions) \o parser.javaOptions
  BY <1>1, <1>2, PrepareIs
<1>4. parser'.separateProcess = parser.separateProcess
  BY <1>1, <1>2, PrepareFields DEF SameRun
<1>5. PICK s, t, home : /\ s = DefaultOptions(q, parser.javaOptions) /\ t = parser.javaOptions
                        /\ home = parser.platformDir
  OBVIOUS
<1>6. /\ IsSeq(s) /\ IsSeq(t) /\ Heard(t, OptionWords) /\ CpIsUsers(t)
      /\ FirstIs(s, "-Djruby.home=", home)
      /\ ~parser.separateProcess => Lacks(s, "-cp")
  BY <1>2, <1>3, <1>5, DefaultsAre DEF JavaRead, SameRun, SameRequest
<1>7. Combined(s \o t)
  <2>1. IsSeq(s \o t) /\ FirstIs(s \o t, "-Djruby.home=", home)
    BY <1>6, Concatenation, FirstOfBoth
  <2>2. Heard(s \o t, OptionWords)
    BY <1>6, LastOfBoth DEF Heard
  <2> QED
    BY <1>2, <1>5, <2>1, <2>2 DEF Combined
<1>8. ~parser.separateProcess => CpIsUsers(s \o t)
  BY <1>6, BothLack DEF CpIsUsers
<1>9. parser'.javaOptions = s \o t
  BY <1>3, <1>5
<1>10. CASE pc' = "exited"
  BY <1>1, <1>10, OptionsExit
<1>11. CASE pc' = "launch"
  BY <1>1, <1>4, <1>7, <1>8, <1>9, <1>11, OptionsLaunching DEF Launching
<1> QED
  BY <1>1, <1>10, <1>11

LEMMA OptionsLaunch ==
    ASSUME StatusInv, ScriptInv, OptionsInv, Launch \/ LoadJavaDll
    PROVE  OptionsInv'
<1>1. /\ pc \in Launching /\ child.how = "none" /\ UNCHANGED <<env, args, child>>
      /\ pc \notin {"running", "exited"}
  BY DEF Launch, LoadJavaDll, argVars, winVars, Launching, StatusInv
<1>2. /\ Combined(parser.javaOptions)
      /\ ~parser.separateProcess => CpIsUsers(parser.javaOptions)
  BY <1>1 DEF OptionsInv
<1>3. CASE Launch
  <2>1. \/ pc' = "exited"
        \/ pc' = "outproc" /\ parser.separateProcess
        \/ pc' = "dll" /\ ~parser.separateProcess
    BY <1>3 DEF Launch, Failure, Exit
  <2>2. UNCHANGED parser
    BY <1>3 DEF Launch, argVars
  <2> QED
    BY <1>1, <1>2, <2>1, <2>2, OptionsExit, OptionsLaunching DEF Launching
<1>4. CASE LoadJavaDll
  <2>1. pc = "dll" /\ ~parser.separateProcess
    BY <1>4 DEF LoadJavaDll, OptionsInv
  <2>2. IsParser(parser)
    BY <1>1 DEF ScriptInv, Parsed, Launching
  <2>3. \/ pc' = "inproc" /\ UNCHANGED parser
        \/ pc' = "outproc" /\ parser' = [parser EXCEPT !.separateProcess = TRUE]
    BY <1>4, Zenon DEF LoadJavaDll
  <2>4. CASE pc' = "inproc" /\ UNCHANGED parser
    BY <1>1, <1>2, <2>1, <2>4, OptionsLaunching DEF Launching
  <2>5. CASE pc' = "outproc" /\ parser' = [parser EXCEPT !.separateProcess = TRUE]
    <3>1. parser'.separateProcess /\ parser'.javaOptions = parser.javaOptions
      BY <2>2, <2>5 DEF IsParser
    <3> QED
      BY <1>1, <1>2, <2>5, <3>1, OptionsLaunching DEF Launching
  <2> QED
    BY <2>3, <2>4, <2>5
<1> QED
  BY <1>3, <1>4

\* The options of a JVM in this process.
LEMMA ForDllIs ==
    ASSUME NEW ws, Combined(ws), CpIsUsers(ws)
    PROVE  /\ Combined(ForDll(ws)) /\ CpIsUsers(ForDll(ws))
           /\ Lacks(ForDll(ws), "-server") /\ Lacks(ForDll(ws), "-client")
<1>1. PICK places : places = {j \in DOMAIN ws : ForJvmDll(ws[j])}
  OBVIOUS
<1>2. PICK t : t = ForDll(ws) /\ t = Selected(ws, places)
  BY <1>1 DEF ForDll
<1>3. IsSeq(ws)
  BY DEF Combined
<1>4. \A opt : (\A j \in DOMAIN ws : ws[j].opt = opt => j \in places)
               \/ opt \in {"-server", "-client"}
  BY <1>1 DEF ForJvmDll
<1>5. ASSUME NEW opt \in {"-server", "-client"}
      PROVE  Lacks(t, opt)
  <2>1. \A j \in DOMAIN ws : ws[j].opt = opt => j \notin places
    BY <1>1 DEF ForJvmDll
  <2> QED
    BY <1>2, <1>3, <2>1, OfSelected
<1>6. ASSUME NEW opt, opt \notin {"-server", "-client"}, NEW text
      PROVE  /\ LastIs(ws, opt, text) => LastIs(t, opt, text)
             /\ FirstIs(ws, opt, text) => FirstIs(t, opt, text)
  <2>1. \A j \in DOMAIN ws : ws[j].opt = opt => j \in places
    BY <1>4, <1>6
  <2> QED
    BY <1>2, <1>3, <2>1, OfSelected
<1>7. IsSeq(t) /\ CpIsUsers(t)
  BY <1>2, <1>3, OfSelected DEF CpIsUsers
<1>8. Heard(t, OptionWords)
  <2>1. Heard(ws, OptionWords) /\ \A opt \in UserOpts : opt \notin {"-server", "-client"}
    BY DEF Combined, UserOpts
  <2> QED
    BY <1>6, <2>1 DEF Heard
<1>9. \E home : OwnHome(home) /\ FirstIs(t, "-Djruby.home=", home)
  <2>1. PICK home : OwnHome(home) /\ FirstIs(ws, "-Djruby.home=", home)
    BY DEF Combined
  <2> QED
    BY <1>6, <2>1
<1> QED
  BY <1>2, <1>5, <1>7, <1>8, <1>9 DEF Combined

LEMMA OptionsRun ==
    ASSUME UNCHANGED <<env, args>>, pc' \in {"running", "exited"},
           child'.how \in {"inproc", "outproc"}, Combined(child'.options),
           child'.how = "inproc" => /\ CpIsUsers(child'.options)
                                    /\ Lacks(child'.options, "-server")
                                    /\ Lacks(child'.options, "-client")
    PROVE  OptionsInv'
<1>1. PICK ws : ws = child'.options
  OBVIOUS
<1>2. Combined(ws)' /\ (CpIsUsers(ws)' <=> CpIsUsers(ws))
  BY <1>1, CombinedStays
<1> QED
  BY <1>1, <1>2 DEF OptionsInv, BeforeJava, Launching

LEMMA OptionsStartJvm ==
    ASSUME StatusInv, OptionsInv, StartInProcJvm \/ StartOutProcJvm
    PROVE  OptionsInv'
<1>1. /\ pc \in Launching /\ child.how = "none" /\ UNCHANGED <<env, args>>
      /\ pc \notin {"running", "exited"}
  BY DEF StartInProcJvm, StartOutProcJvm, argVars, Launching, StatusInv
<1>2. /\ Combined(parser.javaOptions)
      /\ ~parser.separateProcess => CpIsUsers(parser.javaOptions)
  BY <1>1 DEF OptionsInv
<1>3. CASE StartInProcJvm
  <2>1. ~parser.separateProcess
    BY <1>3 DEF StartInProcJvm, OptionsInv
  <2>2. \/ UNCHANGED child /\ pc' = "exited"
        \/ /\ child'.how = "inproc" /\ child'.options = ForDll(parser.javaOptions)
           /\ pc' = "running"
    <3>1. PICK exe, ws, main, words :
             /\ exe = <<jvm.exe[1], jvm.exe[2], JavaDll>> /\ ws = ForDll(parser.javaOptions)
             /\ main = parser.bootclass /\ words = parser.progArgs
      OBVIOUS
    <3>2. \/ UNCHANGED child /\ pc' = "exited"
          \/ /\ child' = [how |-> "inproc", exe |-> exe, options |-> ws, main |-> main,
                          arguments |-> words, status |-> 0]
             /\ pc' = "running"
      BY <1>3, <3>1, Zenon DEF StartInProcJvm, Failure, Exit
    <3> QED
      BY <3>1, <3>2
  <2>3. CASE UNCHANGED child /\ pc' = "exited"
    BY <1>1, <2>3, OptionsExit
  <2>4. CASE child'.how = "inproc" /\ child'.options = ForDll(parser.javaOptions) /\ pc' = "running"
    BY <1>1, <1>2, <2>1, <2>4, ForDllIs, OptionsRun
  <2> QED
    BY <2>2, <2>3, <2>4
<1>4. CASE StartOutProcJvm
  <2>1. \/ UNCHANGED child /\ pc' = "exited"
        \/ /\ child'.how = "outproc" /\ child'.options = parser.javaOptions
           /\ pc' = "running"
    <3>1. PICK exe, ws, main, words :
             /\ exe = (IF suppressConsole THEN jvm.javaw ELSE jvm.exe)
             /\ ws = parser.javaOptions
             /\ main = parser.bootclass /\ words = ForChild(parser.progArgs)
      OBVIOUS
    <3>2. \/ UNCHANGED child /\ pc' = "exited"
          \/ /\ child' = [how |-> "outproc", exe |-> exe, options |-> ws, main |-> main,
                          arguments |-> words, status |-> 0]
             /\ pc' = "running"
      BY <1>4, <3>1, Zenon DEF StartOutProcJvm, Failure, Exit
    <3> QED
      BY <3>1, <3>2
  <2>2. CASE UNCHANGED child /\ pc' = "exited"
    BY <1>1, <2>2, OptionsExit
  <2>3. CASE child'.how = "outproc" /\ child'.options = parser.javaOptions /\ pc' = "running"
    BY <1>1, <1>2, <2>3, OptionsRun
  <2> QED
    BY <2>1, <2>2, <2>3
<1> QED
  BY <1>3, <1>4

LEMMA OptionsEnds ==
    ASSUME StatusInv, OptionsInv, JvmEnds
    PROVE  OptionsInv'
<1>1. PICK status : child' = [child EXCEPT !.status = status]
  BY DEF JvmEnds
<1>2. pc' = "exited" /\ UNCHANGED <<env, args>>
  BY DEF JvmEnds, Exit, argVars
<1>3. child'.how = child.how /\ child'.options = child.options
  BY <1>1 DEF StatusInv, IsChild
<1>4. CASE child.how \in {"inproc", "outproc"}
  BY <1>2, <1>3, <1>4, OptionsRun DEF OptionsInv
<1>5. CASE child.how \notin {"inproc", "outproc"}
  BY <1>2, <1>3, <1>5, OptionsEarly
<1> QED
  BY <1>4, <1>5

LEMMA OptionsStutter ==
    ASSUME OptionsInv, UNCHANGED vars
    PROVE  OptionsInv'
<1>1. UNCHANGED <<env, args, parser, pc, child>>
  BY DEF vars, argVars, winVars
<1>2. PICK ws, cs, home, n : /\ ws = parser.javaOptions /\ cs = child.options
                             /\ home = parser.platformDir /\ n = OptionWords
  OBVIOUS
<1>3. /\ Combined(ws)' <=> Combined(ws)
      /\ CpIsUsers(ws)' <=> CpIsUsers(ws)
      /\ Combined(cs)' <=> Combined(cs)
      /\ CpIsUsers(cs)' <=> CpIsUsers(cs)
      /\ OwnHome(home)' <=> OwnHome(home)
      /\ Heard(ws, n)' <=> Heard(ws, n)
      /\ Unsaid(ws, n)' <=> Unsaid(ws, n)
      /\ OptionWords' = n
  BY <1>1, <1>2, CombinedStays, HeardStays DEF OptionWords
<1>4. JavaRead(OptionWords)' <=> JavaRead(OptionWords)
  BY <1>1, <1>2, <1>3, Zenon DEF JavaRead
<1> QED
  BY <1>1, <1>2, <1>3, <1>4 DEF OptionsInv

LEMMA OptionsStep ==
    StatusInv /\ AskedInv /\ ScriptInv /\ OptionsInv /\ [Next]_vars => OptionsInv'
<1> SUFFICES ASSUME StatusInv, AskedInv, ScriptInv, OptionsInv, [Next]_vars
             PROVE  OptionsInv'
  OBVIOUS
<1>1. ASSUME CheckLoggingArg \/ SetupProcess \/ LoadPlatform PROVE OptionsInv'
  <2>1. /\ UNCHANGED child /\ pc' \in Early \cup {"exited"} /\ pc \in Early
    <3>1. CASE CheckLoggingArg
      BY <3>1 DEF CheckLoggingArg, Early
    <3>2. CASE SetupProcess
      BY <3>2 DEF SetupProcess, Exit, Early
    <3>3. CASE LoadPlatform
      BY <3>3 DEF LoadPlatform, Exit, Early
    <3> QED
      BY <1>1, <3>1, <3>2, <3>3
  <2>2. child.how = "none"
    BY <2>1 DEF StatusInv, Early
  <2> QED
    BY <2>1, <2>2, OptionsEarly
<1> QED
  BY <1>1, OptionsStart, OptionsParseWord, OptionsParseEnds, OptionsChoosingStep,
     OptionsNailgun, OptionsPrepare, OptionsLaunch, OptionsStartJvm, OptionsEnds,
     OptionsStutter
     DEF Next, Exited

OptionsAll == StatusInv /\ AskedInv /\ ScriptInv /\ OptionsInv

LEMMA OptionsHold ==
    /\ Init => OptionsAll
    /\ OptionsAll /\ [Next]_vars => OptionsAll'
<1>1. Init => ScriptInv
  BY DEF Init, ScriptInv, Parsed
<1>2. Init => OptionsInv
  BY NoChildIs DEF Init, OptionsInv, BeforeJava, Launching
<1> QED
  BY <1>1, <1>2, StatusInit, AskedInit, StatusStep, AskedStep, ScriptStep, OptionsStep
     DEF OptionsAll

\* The words of -J among the options.
LEMMA SaidAre ==
    ASSUME OptionsRead, NEW opt
    PROVE  SaidByLine(opt) = SaidUpTo(opt, OptionWords)
<1>1. DOMAIN OptionPart(args) = 1 .. OptionWords
  <2>1. args \in Seq(Words) /\ OptionWords \in 0 .. Len(args)
    BY DEF OptionsRead, WordsRead
  <2> QED
    BY <2>1 DEF OptionPart, OptionWords
<1> QED
  BY <1>1 DEF SaidByLine, SaidUpTo

\* "should place user-supplied options after default options": whatever the options
\* and the environment, of an option that the launcher sets itself the JVM, which
\* believes the last, gets the user's last word (parseArgs, prepareOptions,
\* startInProcJvm, startOutProcJvm).
THEOREM UserIsHeard == Spec => []UserHasLastWord
<1>1. OptionsAll => UserHasLastWord
  <2> SUFFICES ASSUME AskedInv, OptionsInv, child.how \in {"inproc", "outproc"},
                      NEW opt \in {"-Xss", "-Djruby.home="},
                      SaidByEnv(opt) \cup SaidByLine(opt) # {}
               PROVE  LET given == Where(child.options, {opt})
                      IN  given # {} /\ child.options[Max(given)].text = UserSays(opt)
    BY DEF OptionsAll, UserHasLastWord
  <2>1. OptionsRead /\ Combined(child.options)
    BY DEF AskedInv, OptionsInv
  <2>2. SaidByLine(opt) = SaidUpTo(opt, OptionWords)
    BY <2>1, SaidAre
  <2>3. Says(opt, OptionWords) = UserSays(opt)
    BY <2>2, Zenon DEF Says, UserSays
  <2>4. IsSeq(child.options) /\ LastIs(child.options, opt, UserSays(opt))
    BY <2>1, <2>2, <2>3 DEF Combined, Heard, UserOpts
  <2> QED
    BY <2>4, WhereLast
<1> QED
  BY <1>1, OptionsHold, PTL DEF Spec

\* The JRuby that is started is that of JRUBY_HOME, or the one the launcher belongs
\* to, whatever files and directories there are, unless PATH has another entry of the
\* launcher's name or an empty element, or the launcher was called by a path that leads
\* somewhere from a directory of PATH too (initPlatformDir, prepareOptions).
THEOREM OwnHomeStarts == Spec => []HomeIsOwn
<1>1. OptionsAll => HomeIsOwn
  <2> SUFFICES ASSUME OptionsInv, child.how \in {"inproc", "outproc"} PROVE HomeIsOwn
    BY DEF OptionsAll, HomeIsOwn
  <2>1. Combined(child.options)
    BY DEF OptionsInv
  <2>2. PICK home, ws : /\ OwnHome(home) /\ ws = child.options /\ IsSeq(ws)
                        /\ FirstIs(ws, "-Djruby.home=", home)
    BY <2>1 DEF Combined
  <2>3. ws[Min(Where(ws, {"-Djruby.home="}))].text = home
    BY <2>2, WhereFirst
  <2>4. child.options[Min(Where(child.options, {"-Djruby.home="}))].text = home
    BY <2>2, <2>3
  <2> QED
    BY <2>2, <2>4, Zenon DEF HomeIsOwn, OwnHome
<1> QED
  BY <1>1, OptionsHold, PTL DEF Spec

\* "-cp", "-server" and "-client" are options of the java command, and jvm.dll fails
\* on them: whatever the command line, it gets none of them, unless JAVA_OPTS has a
\* -cp, though where the JVM is to run is settled after the options are (start,
\* Jvm::init).
THEOREM DllGetsItsOptions == Spec => []InProcessOptions
<1>1. OptionsAll => InProcessOptions
  <2> SUFFICES ASSUME AskedInv, OptionsInv, child.how = "inproc" PROVE InProcessOptions
    BY DEF OptionsAll, InProcessOptions
  <2>1. PICK ws : ws = child.options
    OBVIOUS
  <2>2. /\ IsSeq(ws) /\ CpIsUsers(ws)
        /\ Lacks(ws, "-server") /\ Lacks(ws, "-client")
    BY <2>1 DEF OptionsInv, Combined
  <2>3. IsSeq(env.JAVA_OPTS)
    BY DEF AskedInv, Environments, IsSeq
  <2>4. Where(ws, {"-cp"}) # {} => Where(env.JAVA_OPTS, {"-cp"}) # {}
    BY <2>2, <2>3, WhereNone DEF CpIsUsers
  <2>5. Where(ws, {"-server", "-client"}) = {}
    <3>1. Where(ws, {"-server"}) = {} /\ Where(ws, {"-client"}) = {}
      BY <2>2, WhereNone
    <3> QED
      BY <3>1 DEF Where
  <2> QED
    BY <2>1, <2>4, <2>5 DEF InProcessOptions
<1> QED
  BY <1>1, OptionsHold, PTL DEF Spec

-----------------------------------------------------------------------------
(* The options for the Java.  If the user named it, by -Xjdkhome or JAVA_HOME, *)
(* the home the options are chosen by is that of the Java that was found, and  *)
(* it stays the one that runs; and none of these options comes from the user.  *)

ModuleOpts == {"--module-path=", "--add-opens", "@"}

\* Options that fit a Java, with modules or without, and options that do not matter.
Fits(ws, modular) ==
    /\ IsSeq(ws)
    /\ ~modular => \A opt \in ModuleOpts : Lacks(ws, opt)
    /\ modular /\ JRUBY_MODULE => /\ ~Lacks(ws, "--add-opens") \/ ~Lacks(ws, "@")
                                  /\ Lacks(ws, "-Xbootclasspath/a:")
Neutral(ws) == IsSeq(ws) /\ \A opt \in FitOpts : Lacks(ws, opt)

NamedByUser == /\ ~IsSet(env.JAVACMD) /\ ~Satisfied(GivenHome)
               /\ Usable(GivenHome) \/ Usable(env.JAVA_HOME)
UserSaysNone(n) == \A opt \in FitOpts : SaidUpTo(opt, n) \cup SaidByEnv(opt) = {}
Leaves == NamedByUser /\ UserSaysNone(OptionWords)

FitInv ==
    /\ pc = "java_home" => (IsSet(parser.jdkhome) => parser.jdkhome = GivenHome)
    /\ pc \in {"name", "java", "prepare"} =>
          (NamedByUser => jvm # NoJvm /\ InHome(jvm, parser.jdkhome))
    /\ pc \in Launching =>
          (Leaves => /\ jvm # NoJvm /\ jvm.javaw[1] = jvm.exe[1]
                     /\ Fits(parser.javaOptions, jvm.exe[1] \in ModuleHomes))
    /\ child.how \in {"inproc", "outproc"} =>
          (Leaves => Fits(child.options, child.exe[1] \in ModuleHomes))

LEMMA OneNeutral ==
    \A opt, text : opt \notin FitOpts => Neutral(<< Word(opt, text) >>)
<1> SUFFICES ASSUME NEW opt, NEW text, opt \notin FitOpts PROVE Neutral(<< Word(opt, text) >>)
  OBVIOUS
<1>1. PICK w : w = Word(opt, text)
  OBVIOUS
<1>2. w.opt = opt
  BY <1>1 DEF Word
<1> QED
  BY <1>1, <1>2, SingleWord DEF Neutral, Lacks

LEMMA NoneNeutral == Neutral(<<>>)
<1>1. <<>> \in Seq({}) /\ 1 .. Len(<<>>) = {}
  OBVIOUS
<1> QED
  BY <1>1 DEF Neutral, Lacks, IsSeq

LEMMA BothNeutral ==
    ASSUME NEW s, Neutral(s), NEW t, Neutral(t)
    PROVE  Neutral(s \o t)
BY BothLack, Concatenation DEF Neutral

\* What is somewhere in one is somewhere in both.
LEMMA BothHave ==
    ASSUME NEW s, IsSeq(s), NEW t, IsSeq(t), NEW opt, ~Lacks(s, opt) \/ ~Lacks(t, opt)
    PROVE  ~Lacks(s \o t, opt)
<1>1. PICK u : u = s \o t
  OBVIOUS
<1>2. /\ Len(s) \in Nat /\ Len(t) \in Nat /\ Len(u) = Len(s) + Len(t)
      /\ \A i \in 1 .. Len(s) : u[i] = s[i]
      /\ \A i \in 1 .. Len(t) : u[Len(s) + i] = t[i]
  BY <1>1, Concatenation
<1>3. CASE ~Lacks(s, opt)
  <2>1. PICK j \in 1 .. Len(s) : s[j].opt = opt
    BY <1>3 DEF Lacks
  <2>2. j \in 1 .. Len(u) /\ u[j] = s[j]
    BY <1>2
  <2> QED
    BY <1>1, <2>1, <2>2 DEF Lacks
<1>4. CASE ~Lacks(t, opt)
  <2>1. PICK j \in 1 .. Len(t) : t[j].opt = opt
    BY <1>4 DEF Lacks
  <2>2. Len(s) + j \in 1 .. Len(u) /\ u[Len(s) + j] = t[j]
    BY <1>2
  <2> QED
    BY <1>1, <2>1, <2>2 DEF Lacks
<1> QED
  BY <1>3, <1>4

\* Neutral options before or after others change nothing.
LEMMA FitsBoth ==
    ASSUME NEW s, NEW t, NEW modular, \/ Fits(s, modular) /\ Neutral(t)
                                      \/ Neutral(s) /\ Fits(t, modular)
    PROVE  Fits(s \o t, modular)
<1>1. IsSeq(s) /\ IsSeq(t)
  BY DEF Fits, Neutral
<1>2. IsSeq(s \o t)
  BY <1>1, Concatenation
<1>3. \A opt : Lacks(s, opt) /\ Lacks(t, opt) <=> Lacks(s \o t, opt)
  BY <1>1, BothLack, BothHave
<1> QED
  BY <1>2, <1>3 DEF Fits, Neutral, FitOpts, ModuleOpts

\* The launcher's own options fit the home they are chosen by.
LEMMA DefaultsFit ==
    ASSUME NEW p, NEW user
    PROVE  Fits(DefaultOptions(p, user), p.jdkhome \in ModuleHomes)
<1>1. PICK a : a = << Word("-Djdk.home=", <<p.jdkhome>>),
                      Word("-Djruby.home=", p.platformDir),
                      Word("-Djruby.script=", <<"jruby">>),
                      Word("-Djruby.shell=", <<"cmd.exe">>),
                      Word("-Djffi.boot.library.path=", <<"lib/jni">>) >>
  OBVIOUS
<1>2. PICK b : b = IF \E j \in DOMAIN user : user[j].opt = "-Xss" THEN <<>>
                   ELSE << Word("-Xss", <<"2048k">>) >>
  OBVIOUS
<1>3. PICK c : c = << Word("-Dsun.java.command=", <<p.bootclass>>) >>
  OBVIOUS
<1>4. PICK d : d = IF p.bootClassPath = <<>> THEN <<>>
                   ELSE << Word(IF UseModulePath(p) /\ JRUBY_MODULE
                                THEN "--module-path=" ELSE "-Xbootclasspath/a:",
                                p.bootClassPath) >>
  OBVIOUS
<1>5. PICK e : e = IF UseModulePath(p) THEN ModuleOptions ELSE <<>>
  OBVIOUS
<1>6. PICK f : f = << Word(IF p.separateProcess THEN "-cp" ELSE "-Djava.class.path=",
                           p.classPath) >>
  OBVIOUS
<1>7. DefaultOptions(p, user) = a \o b \o c \o d \o e \o f
  BY <1>1, <1>2, <1>3, <1>4, <1>5, <1>6, Zenon DEF DefaultOptions
<1>8. Neutral(a)
  <2>1. PICK v, w, x, y, z : /\ v = Word("-Djdk.home=", <<p.jdkhome>>)
                             /\ w = Word("-Djruby.home=", p.platformDir)
                             /\ x = Word("-Djruby.script=", <<"jruby">>)
                             /\ y = Word("-Djruby.shell=", <<"cmd.exe">>)
                             /\ z = Word("-Djffi.boot.library.path=", <<"lib/jni">>)
    OBVIOUS
  <2>2. a = <<v, w, x, y, z>>
    BY <1>1, <2>1, Zenon
  <2>3. \A u \in {v, w, x, y, z} : u.opt \notin FitOpts
    BY <2>1 DEF Word, FitOpts
  <2>4. a \in Seq({v, w, x, y, z}) /\ \A j \in 1 .. Len(a) : a[j] \in {v, w, x, y, z}
    BY <2>2
  <2> QED
    BY <2>3, <2>4 DEF Neutral, Lacks, IsSeq
<1>9. Neutral(b) /\ Neutral(c) /\ Neutral(f)
  <2>1. "-Xss" \notin FitOpts /\ "-Dsun.java.command=" \notin FitOpts
    BY DEF FitOpts
  <2>2. PICK opt : /\ opt = IF p.separateProcess THEN "-cp" ELSE "-Djava.class.path="
                   /\ opt \notin FitOpts
    BY DEF FitOpts
  <2>3. Neutral(b)
    BY <1>2, <2>1, OneNeutral, NoneNeutral, Zenon
  <2>4. Neutral(c)
    BY <1>3, <2>1, OneNeutral, Zenon
  <2>5. Neutral(f)
    BY <1>6, <2>2, OneNeutral, Zenon
  <2> QED
    BY <2>3, <2>4, <2>5
<1>0. PICK modular : modular = (p.jdkhome \in ModuleHomes)
  OBVIOUS
<1>10. modular <=> UseModulePath(p)
  BY <1>0 DEF UseModulePath
<1>11. \A opt, text, o : /\ IsSeq(<< Word(opt, text) >>)
                         /\ Lacks(<< Word(opt, text) >>, o) <=> o # opt
  <2> SUFFICES ASSUME NEW opt, NEW text, NEW o
               PROVE  /\ IsSeq(<< Word(opt, text) >>)
                      /\ Lacks(<< Word(opt, text) >>, o) <=> o # opt
    OBVIOUS
  <2>1. PICK w : w = Word(opt, text)
    OBVIOUS
  <2>2. w.opt = opt
    BY <2>1 DEF Word
  <2> QED
    BY <2>1, <2>2, SingleWord DEF Lacks
<1>12. /\ IsSeq(d) /\ (~modular => \A opt \in ModuleOpts : Lacks(d, opt))
       /\ modular /\ JRUBY_MODULE => Lacks(d, "-Xbootclasspath/a:")
  <2>1. CASE d = <<>>
    BY <2>1, NoneNeutral DEF Neutral, FitOpts, ModuleOpts
  <2>2. CASE d # <<>>
    <3>1. PICK opt : opt = IF UseModulePath(p) /\ JRUBY_MODULE
                           THEN "--module-path=" ELSE "-Xbootclasspath/a:"
      OBVIOUS
    <3>2. d = << Word(opt, p.bootClassPath) >>
      BY <1>4, <2>2, <3>1, Zenon
    <3> QED
      BY <1>10, <1>11, <3>1, <3>2 DEF ModuleOpts
  <2> QED
    BY <2>1, <2>2
<1>13. PICK abc, abcd : abc = a \o b \o c /\ abcd = abc \o d
  OBVIOUS
<1>14. Neutral(abc)
  BY <1>8, <1>9, <1>13, BothNeutral
<1>15. /\ IsSeq(abcd) /\ (~modular => \A opt \in ModuleOpts : Lacks(abcd, opt))
       /\ modular /\ JRUBY_MODULE => Lacks(abcd, "-Xbootclasspath/a:")
  <2>1. \A opt \in FitOpts : Lacks(abc, opt)
    BY <1>14 DEF Neutral
  <2>2. IsSeq(abc) /\ IsSeq(abcd)
    BY <1>12, <1>13, <1>14, Concatenation DEF Neutral
  <2>3. \A opt \in FitOpts : Lacks(d, opt) => Lacks(abcd, opt)
    BY <1>12, <1>13, <2>1, <2>2, BothLack
  <2> QED
    BY <1>12, <2>2, <2>3 DEF FitOpts, ModuleOpts
<1>16. Fits(abcd \o e, modular)
  <2>1. CASE ~modular
    <3>1. e = <<>>
      BY <1>5, <1>10, <2>1
    <3>2. Fits(abcd, modular)
      BY <1>15, <2>1 DEF Fits
    <3> QED
      BY <3>1, <3>2, NoneNeutral, FitsBoth
  <2>2. CASE modular /\ ~JRUBY_MODULE
    <3>1. e = <<>> \/ \E opt, text : e = << Word(opt, text) >>
      BY <1>5, <1>10 DEF ModuleOptions
    <3>2. IsSeq(e)
      BY <1>11, <3>1, NoneNeutral DEF Neutral
    <3>3. IsSeq(abcd \o e)
      BY <1>15, <3>2, Concatenation
    <3> QED
      BY <2>2, <3>3 DEF Fits
  <2>3. CASE modular /\ JRUBY_MODULE
    <3>1. PICK opt \in {"--add-opens", "@"} : \E text : e = << Word(opt, text) >>
      BY <1>5, <1>10, <2>3 DEF ModuleOptions
    <3>2. IsSeq(e) /\ ~Lacks(e, opt) /\ Lacks(e, "-Xbootclasspath/a:")
      BY <1>11, <3>1
    <3>3. /\ IsSeq(abcd \o e) /\ ~Lacks(abcd \o e, opt)
          /\ Lacks(abcd \o e, "-Xbootclasspath/a:")
      BY <1>15, <2>3, <3>2, Concatenation, BothLack, BothHave
    <3> QED
      BY <2>3, <3>1, <3>3 DEF Fits
  <2> QED
    BY <2>1, <2>2, <2>3
<1>17. PICK abcde : abcde = abcd \o e
  OBVIOUS
<1>18. Fits(abcde \o f, modular)
  BY <1>9, <1>16, <1>17, FitsBoth
<1>19. DefaultOptions(p, user) = abcde \o f
  BY <1>7, <1>13, <1>17
<1> QED
  BY <1>0, <1>18, <1>19

LEMMA NamedStays ==
    ASSUME UNCHANGED <<env, args>>
    PROVE  /\ NamedByUser' <=> NamedByUser
           /\ Leaves' <=> Leaves
<1>1. PICK home, name : home = GivenHome /\ name = env.JAVA_HOME
  OBVIOUS
<1>2. GivenHome' = home /\ env'.JAVA_HOME = name
  BY <1>1, HomesStay
<1>3. /\ Usable(home)' <=> Usable(home)
      /\ Satisfied(home)' <=> Satisfied(home)
      /\ Usable(name)' <=> Usable(name)
  BY HomesStay
<1>4. NamedByUser' <=> NamedByUser
  BY <1>1, <1>2, <1>3, Zenon DEF NamedByUser
<1>5. PICK n : n = OptionWords
  OBVIOUS
<1>6. OptionWords' = n
  BY <1>5 DEF OptionWords
<1>7. UserSaysNone(n)' <=> UserSaysNone(n)
  BY DEF UserSaysNone, SaidUpTo, SaidByEnv, Where
<1> QED
  BY <1>4, <1>5, <1>6, <1>7, Zenon DEF Leaves

\* Where nothing is to be said of the options.
LEMMA FitEarly ==
    ASSUME pc' \in Early \cup {"parse", "jdkhome", "nailgun", "running", "exited"},
           child'.how \notin {"inproc", "outproc"}
    PROVE  FitInv'
BY DEF FitInv, Early, Launching

LEMMA FitExit ==
    ASSUME StatusInv, UNCHANGED child, pc \notin {"running", "exited"}, pc' = "exited"
    PROVE  FitInv'
BY FitEarly DEF StatusInv

LEMMA FitCheckJDKHome ==
    ASSUME StatusInv, AskedInv, JavaInv, CheckJDKHome
    PROVE  FitInv'
<1>1. pc = "jdkhome" /\ UNCHANGED <<env, args, child>>
  BY DEF CheckJDKHome
<1>2. IsParser(parser) /\ parser.jdkhome = GivenHome /\ child.how = "none"
  BY <1>1 DEF AskedInv, BeforeJava, JavaInv, StatusInv
<1>3. CASE pc' = "exited"
  BY <1>1, <1>3, FitExit
<1>4. ASSUME pc' = "java_home", IsSet(parser'.jdkhome) => parser'.jdkhome = GivenHome
      PROVE  FitInv'
  <2>1. GivenHome' = GivenHome
    BY <1>1, HomesStay
  <2> QED
    BY <1>1, <1>2, <1>4, <2>1 DEF FitInv, Launching
<1>5. ASSUME pc' = "java_home", parser' = parser PROVE FitInv'
  BY <1>2, <1>4, <1>5
<1>6. ASSUME pc' = "java_home", parser' = [parser EXCEPT !.jdkhome = ""] PROVE FitInv'
  <2>1. ~IsSet(parser'.jdkhome)
    BY <1>2, <1>6, EmptyHome, Zenon
  <2> QED
    BY <1>4, <1>6, <2>1
<1> QED
  BY <1>3, <1>5, <1>6, CheckJDKHomeIs, Zenon

\* The Java that was found for a home of the user's is in it.
LEMMA FitNamed ==
    ASSUME UNCHANGED <<env, args>>, child'.how = "none",
           pc' \in {"name", "java", "prepare"},
           NamedByUser => jvm' # NoJvm /\ InHome(jvm', parser'.jdkhome)
    PROVE  FitInv'
<1>1. NamedByUser' => jvm' # NoJvm /\ InHome(jvm', parser'.jdkhome)
  BY NamedStays
<1>2. (NamedByUser => jvm # NoJvm /\ InHome(jvm, parser.jdkhome))'
  BY <1>1 DEF InHome
<1> QED
  BY <1>2 DEF FitInv, Launching

LEMMA GivenIsIn ==
    ASSUME NamedByUser, NEW j, ByGiven(j)
    PROVE  InHome(j, GivenHome)
BY Found DEF NamedByUser, ByGiven

LEMMA FitCheckJavaHome ==
    ASSUME StatusInv, AskedInv, JavaInv, FitInv, CheckJavaHome
    PROVE  FitInv'
<1>1. pc = "java_home" /\ UNCHANGED <<env, args, child>>
  BY DEF CheckJavaHome
<1>2. /\ IsParser(parser) /\ child.how = "none"
      /\ \/ IsSet(parser.jdkhome) /\ ByGiven(jvm) /\ parser.jdkhome = GivenHome
         \/ ~IsSet(parser.jdkhome) /\ NoGiven /\ jvm = NoJvm
  BY <1>1 DEF AskedInv, BeforeJava, JavaInv, StatusInv, FitInv
<1>3. PICK j : j = jvm'
  OBVIOUS
<1>4. \/ pc' = "exited"
      \/ /\ pc' \in {"nailgun", "name"}
         /\ AsksJavaHome => j = Initialize(env.JAVA_HOME)
         /\ ~AsksJavaHome => j = jvm
         /\ parser' = IF AsksJavaHome /\ j # NoJvm
                      THEN [parser EXCEPT !.jdkhome = env.JAVA_HOME] ELSE parser
  BY <1>3, Zenon DEF CheckJavaHome, Exit
<1>5. CASE pc' = "exited"
  BY <1>1, <1>5, FitExit
<1>6. CASE pc' = "nailgun"
  BY <1>1, <1>2, <1>6, FitEarly
<1>7. ASSUME pc' = "name", NamedByUser, ~(pc' = "exited")
      PROVE  jvm' # NoJvm /\ InHome(jvm', parser'.jdkhome)
  <2>1. CASE IsSet(parser.jdkhome)
    <3>1. j = jvm /\ parser' = parser
      BY <1>4, <1>7, <2>1, AsksIs
    <3>2. jvm # NoJvm /\ InHome(jvm, parser.jdkhome)
      BY <1>2, <1>7, <2>1, GivenIsIn DEF ByGiven
    <3> QED
      BY <1>3, <3>1, <3>2
  <2>2. CASE ~IsSet(parser.jdkhome)
    <3>1. Usable(env.JAVA_HOME)
      BY <1>2, <1>7, <2>2, NotFound DEF NoGiven, NamedByUser
    <3>2. IsSet(env.JAVA_HOME) /\ Initialize(env.JAVA_HOME) # NoJvm
      BY <3>1, NotFound
    <3>3. AsksJavaHome
      BY <2>2, <3>2, AsksIs
    <3>4. j = Initialize(env.JAVA_HOME) /\ parser' = [parser EXCEPT !.jdkhome = env.JAVA_HOME]
      BY <1>4, <1>7, <3>2, <3>3
    <3>5. parser'.jdkhome = env.JAVA_HOME
      BY <1>2, <3>4 DEF IsParser
    <3> QED
      BY <1>3, <3>1, <3>2, <3>4, <3>5, Found
  <2> QED
    BY <2>1, <2>2
<1>8. CASE pc' = "name"
  BY <1>1, <1>2, <1>7, <1>8, FitNamed
<1> QED
  BY <1>4, <1>5, <1>6, <1>8

LEMMA FitAddScriptName ==
    ASSUME StatusInv, AskedInv, FitInv, AddScriptName
    PROVE  FitInv'
<1>1. pc = "name" /\ pc' = "java" /\ UNCHANGED <<env, args, child, jvm>>
  BY DEF AddScriptName, winVars
<1>2. /\ IsParser(parser) /\ child.how = "none"
      /\ NamedByUser => jvm # NoJvm /\ InHome(jvm, parser.jdkhome)
  BY <1>1 DEF AskedInv, BeforeJava, StatusInv, FitInv
<1>3. parser'.jdkhome = parser.jdkhome
  <2>1. PICK words : parser' = parser \/ parser' = [parser EXCEPT !.progArgs = words]
    BY Zenon DEF AddScriptName
  <2> QED
    BY <1>2, <2>1 DEF IsParser
<1> QED
  BY <1>1, <1>2, <1>3, FitNamed

LEMMA FitChooseJava ==
    ASSUME StatusInv, AskedInv, JavaInv, FitInv, ChooseJava
    PROVE  FitInv'
<1>1. pc = "java" /\ UNCHANGED <<env, args, child>>
  BY DEF ChooseJava
<1>2. /\ IsParser(parser) /\ child.how = "none"
      /\ ~IsSet(parser.jdkhome) => jvm = NoJvm
      /\ NamedByUser => jvm # NoJvm /\ InHome(jvm, parser.jdkhome)
  BY <1>1 DEF AskedInv, BeforeJava, JavaInv, StatusInv, FitInv
<1>3. pc' \in {"exited", "prepare"}
  BY ChooseJavaIs
<1>4. CASE pc' = "exited"
  BY <1>1, <1>4, FitExit
<1>5. ASSUME NamedByUser, pc' = "prepare"
      PROVE  jvm' # NoJvm /\ InHome(jvm', parser'.jdkhome)
  <2>1. IsSet(parser.jdkhome) /\ ~IsSet(env.JAVACMD)
    BY <1>2, <1>5 DEF NamedByUser
  <2>2. jvm' = jvm
    BY <1>5, <2>1, ChooseJavaIs
  <2>3. PICK home : /\ parser' = [parser EXCEPT !.jdkhome = home]
                    /\ home = parser.jdkhome
    BY <2>1, Zenon DEF ChooseJava, IsSet
  <2>4. parser'.jdkhome = parser.jdkhome
    BY <1>2, <2>3 DEF IsParser
  <2> QED
    BY <1>2, <1>5, <2>2, <2>4
<1>6. CASE pc' = "prepare"
  BY <1>1, <1>2, <1>5, <1>6, FitNamed
<1> QED
  BY <1>3, <1>4, <1>6

\* That the options fit the Java that was found.
LEMMA FitLaunching ==
    ASSUME UNCHANGED <<env, args>>, child'.how = "none", pc' \in Launching,
           Leaves => /\ jvm' # NoJvm /\ jvm'.javaw[1] = jvm'.exe[1]
                     /\ Fits(parser'.javaOptions, jvm'.exe[1] \in ModuleHomes)
    PROVE  FitInv'
<1>1. PICK j, ws : j = jvm' /\ ws = parser'.javaOptions
  OBVIOUS
<1>2. Leaves' => /\ j # NoJvm /\ j.javaw[1] = j.exe[1]
                 /\ Fits(ws, j.exe[1] \in ModuleHomes)
  BY <1>1, NamedStays
<1> QED
  BY <1>1, <1>2 DEF FitInv, Launching, Fits, Lacks

LEMMA FitPrepare ==
    ASSUME StatusInv, AskedInv, OptionsInv, FitInv, Prepare
    PROVE  FitInv'
<1>1. /\ pc = "prepare" /\ child.how = "none" /\ UNCHANGED <<env, args, child, jvm>>
      /\ parser' = PrepareOptions(parser) /\ pc' \in {"launch", "exited"}
  BY DEF Prepare, winVars, StatusInv, Exit
<1>2. /\ IsParser(parser) /\ JavaRead(OptionWords)
      /\ NamedByUser => jvm # NoJvm /\ InHome(jvm, parser.jdkhome)
  BY <1>1 DEF AskedInv, OptionsInv, BeforeJava, FitInv
<1>3. PICK q : /\ SameRun(parser, q)
               /\ parser'.javaOptions = DefaultOptions(q, parser.javaOptions) \o parser.javaOptions
  BY <1>1, <1>2, PrepareIs
<1>4. PICK s, t, home : /\ s = DefaultOptions(q, parser.javaOptions) /\ t = parser.javaOptions
                        /\ home = parser.jdkhome
  OBVIOUS
<1>5. Fits(s, home \in ModuleHomes)
  <2>1. q.jdkhome = home
    BY <1>3, <1>4 DEF SameRun
  <2> QED
    BY <1>4, <2>1, DefaultsFit
<1>6. ASSUME Leaves PROVE Neutral(t)
  BY <1>2, <1>4, <1>6 DEF Leaves, UserSaysNone, JavaRead, Unsaid, Neutral
<1>7. ASSUME Leaves
      PROVE  /\ jvm' # NoJvm /\ jvm'.javaw[1] = jvm'.exe[1]
             /\ Fits(parser'.javaOptions, jvm'.exe[1] \in ModuleHomes)
  <2>1. jvm # NoJvm /\ jvm.exe[1] = home /\ jvm.javaw[1] = home
    BY <1>2, <1>4, <1>7 DEF Leaves, InHome
  <2>2. Fits(s \o t, home \in ModuleHomes)
    BY <1>5, <1>6, <1>7, FitsBoth
  <2> QED
    BY <1>1, <1>3, <1>4, <2>1, <2>2
<1>8. CASE pc' = "exited"
  BY <1>1, <1>8, FitExit
<1>9. CASE pc' = "launch"
  BY <1>1, <1>7, <1>9, FitLaunching DEF Launching
<1> QED
  BY <1>1, <1>8, <1>9

LEMMA FitLaunch ==
    ASSUME StatusInv, ScriptInv, FitInv, Launch \/ LoadJavaDll
    PROVE  FitInv'
<1>1. /\ pc \in Launching /\ child.how = "none" /\ UNCHANGED <<env, args, child>>
      /\ pc \notin {"running", "exited"}
  BY DEF Launch, LoadJavaDll, argVars, winVars, Launching, StatusInv
<1>2. Leaves => /\ jvm # NoJvm /\ jvm.javaw[1] = jvm.exe[1]
                /\ Fits(parser.javaOptions, jvm.exe[1] \in ModuleHomes)
  BY <1>1 DEF FitInv
<1>3. IsParser(parser)
  BY <1>1 DEF ScriptInv, Parsed, Launching
<1>4. pc' \in Launching \cup {"exited"}
  BY DEF Launch, LoadJavaDll, Failure, Exit, Launching
<1>5. parser'.javaOptions = parser.javaOptions
  <2>1. parser' = parser \/ parser' = [parser EXCEPT !.separateProcess = TRUE]
    BY Zenon DEF Launch, LoadJavaDll, argVars
  <2> QED
    BY <1>3, <2>1 DEF IsParser
<1>6. jvm # NoJvm => jvm' = jvm
  BY DEF Launch, LoadJavaDll, winVars
<1>7. CASE pc' = "exited"
  BY <1>1, <1>7, FitExit
<1>8. CASE pc' \in Launching
  BY <1>1, <1>2, <1>5, <1>6, <1>8, FitLaunching
<1> QED
  BY <1>4, <1>7, <1>8

\* The options of a JVM in this process fit it if they fitted before.
LEMMA FitsDll ==
    ASSUME NEW ws, NEW modular, Fits(ws, modular)
    PROVE  Fits(ForDll(ws), modular)
<1>1. PICK places : places = {j \in DOMAIN ws : ForJvmDll(ws[j])}
  OBVIOUS
<1>2. ForDll(ws) = Selected(ws, places) /\ IsSeq(ws)
  BY <1>1 DEF ForDll, Fits
<1>3. ASSUME NEW opt \in FitOpts
      PROVE  Lacks(ws, opt) <=> Lacks(Selected(ws, places), opt)
  <2>1. \A j \in DOMAIN ws : ws[j].opt = opt => j \in places
    BY <1>1 DEF ForJvmDll, FitOpts
  <2>2. Lacks(ws, opt) => Lacks(Selected(ws, places), opt)
    BY <1>2, OfSelected
  <2>3. ASSUME ~Lacks(ws, opt) PROVE ~Lacks(Selected(ws, places), opt)
    <3>1. PICK text : text = ws[Max(Where(ws, {opt}))].text
      OBVIOUS
    <3>2. LastIs(ws, opt, text)
      BY <1>2, <2>3, <3>1, WhereNone, LastIsWhere
    <3>3. LastIs(Selected(ws, places), opt, text)
      BY <1>2, <2>1, <3>2, OfSelected
    <3> QED
      BY <3>3 DEF LastIs, Lacks
  <2> QED
    BY <2>2, <2>3
<1>4. IsSeq(Selected(ws, places))
  BY <1>2, OfSelected
<1> QED
  BY <1>2, <1>3, <1>4 DEF Fits, FitOpts, ModuleOpts

LEMMA FitRun ==
    ASSUME UNCHANGED <<env, args>>, pc' \in {"running", "exited"},
           Leaves => Fits(child'.options, child'.exe[1] \in ModuleHomes)
    PROVE  FitInv'
<1>1. PICK exe, ws : exe = child'.exe /\ ws = child'.options
  OBVIOUS
<1>2. Leaves' => Fits(ws, exe[1] \in ModuleHomes)
  BY <1>1, NamedStays
<1> QED
  BY <1>1, <1>2 DEF FitInv, Launching, Fits, Lacks

LEMMA FitStartJvm ==
    ASSUME StatusInv, FitInv, StartInProcJvm \/ StartOutProcJvm
    PROVE  FitInv'
<1>1. /\ pc \in Launching /\ child.how = "none" /\ UNCHANGED <<env, args>>
      /\ pc \notin {"running", "exited"}
  BY DEF StartInProcJvm, StartOutProcJvm, argVars, Launching, StatusInv
<1>2. Leaves => /\ jvm.javaw[1] = jvm.exe[1]
                /\ Fits(parser.javaOptions, jvm.exe[1] \in ModuleHomes)
  BY <1>1 DEF FitInv
<1>3. CASE UNCHANGED child /\ pc' = "exited"
  BY <1>1, <1>3, FitExit
<1>4. ASSUME NEW exe, NEW ws, pc' = "running", child'.exe = exe, child'.options = ws,
             exe[1] \in {jvm.exe[1], jvm.javaw[1]},
             ws \in {parser.javaOptions, ForDll(parser.javaOptions)}
      PROVE  FitInv'
  <2>1. Leaves => Fits(ws, exe[1] \in ModuleHomes)
    BY <1>2, <1>4, FitsDll
  <2> QED
    BY <1>1, <1>4, <2>1, FitRun
<1>5. CASE StartInProcJvm
  <2>1. PICK exe, ws, main, words :
           /\ exe = <<jvm.exe[1], jvm.exe[2], JavaDll>> /\ ws = ForDll(parser.javaOptions)
           /\ main = parser.bootclass /\ words = parser.progArgs
    OBVIOUS
  <2>2. \/ UNCHANGED child /\ pc' = "exited"
        \/ /\ child' = [how |-> "inproc", exe |-> exe, options |-> ws, main |-> main,
                        arguments |-> words, status |-> 0]
           /\ pc' = "running"
    BY <1>5, <2>1, Zenon DEF StartInProcJvm, Failure, Exit
  <2>3. exe[1] = jvm.exe[1]
    BY <2>1
  <2> QED
    BY <1>3, <1>4, <2>1, <2>2, <2>3
<1>6. CASE StartOutProcJvm
  <2>1. PICK exe, ws, main, words :
           /\ exe = (IF suppressConsole THEN jvm.javaw ELSE jvm.exe)
           /\ ws = parser.javaOptions
           /\ main = parser.bootclass /\ words = ForChild(parser.progArgs)
    OBVIOUS
  <2>2. \/ UNCHANGED child /\ pc' = "exited"
        \/ /\ child' = [how |-> "outproc", exe |-> exe, options |-> ws, main |-> main,
                        arguments |-> words, status |-> 0]
           /\ pc' = "running"
    BY <1>6, <2>1, Zenon DEF StartOutProcJvm, Failure, Exit
  <2> QED
    BY <1>3, <1>4, <2>1, <2>2
<1> QED
  BY <1>5, <1>6

LEMMA FitEnds ==
    ASSUME StatusInv, FitInv, JvmEnds
    PROVE  FitInv'
<1>1. PICK status : child' = [child EXCEPT !.status = status]
  BY DEF JvmEnds
<1>2. pc' = "exited" /\ UNCHANGED <<env, args>>
  BY DEF JvmEnds, Exit, argVars
<1>3. child'.how = child.how /\ child'.exe = child.exe /\ child'.options = child.options
  BY <1>1 DEF StatusInv, IsChild
<1>4. CASE child.how \in {"inproc", "outproc"}
  BY <1>2, <1>3, <1>4, FitRun DEF FitInv
<1>5. CASE child.how \notin {"inproc", "outproc"}
  BY <1>2, <1>3, <1>5, FitEarly
<1> QED
  BY <1>4, <1>5

LEMMA FitNailgun ==
    ASSUME StatusInv, StartNailgun
    PROVE  FitInv'
<1>1. pc = "nailgun" /\ child.how = "none"
  BY DEF StartNailgun, StatusInv
<1>2. PICK words : words = parser'.progArgs
  OBVIOUS
<1>3. \/ UNCHANGED child /\ pc' = "exited"
      \/ pc' = "running" /\ child' = [NoChild EXCEPT !.how = "nailgun", !.arguments = words]
  BY <1>2 DEF StartNailgun, Exit
<1>4. CASE UNCHANGED child /\ pc' = "exited"
  BY <1>1, <1>4, FitExit
<1>5. CASE pc' = "running" /\ child' = [NoChild EXCEPT !.how = "nailgun", !.arguments = words]
  <2>1. child'.how = "nailgun"
    BY <1>5, NoChildIs, ChildExcept
  <2> QED
    BY <1>5, <2>1, FitEarly
<1> QED
  BY <1>3, <1>4, <1>5

LEMMA FitStutter ==
    ASSUME FitInv, UNCHANGED vars
    PROVE  FitInv'
<1>1. UNCHANGED <<env, args, parser, pc, child, jvm>>
  BY DEF vars, argVars, winVars
<1>2. (NamedByUser' <=> NamedByUser) /\ (Leaves' <=> Leaves) /\ GivenHome' = GivenHome
  BY <1>1, NamedStays, HomesStay
<1> QED
  BY <1>1, <1>2 DEF FitInv, Fits, Lacks, InHome

LEMMA FitStep ==
    OptionsAll /\ JavaInv /\ FitInv /\ [Next]_vars => FitInv'
<1> SUFFICES ASSUME StatusInv, AskedInv, ScriptInv, OptionsInv, JavaInv, FitInv, [Next]_vars
             PROVE  FitInv'
  BY DEF OptionsAll
<1>1. ASSUME \/ CheckLoggingArg \/ SetupProcess \/ LoadPlatform \/ Start \/ ParseWord
             \/ ParseEnds
      PROVE  FitInv'
  <2>1. /\ UNCHANGED child /\ pc \in Early \cup {"parse"}
        /\ pc' \in Early \cup {"parse", "jdkhome", "exited"}
    <3>1. CASE CheckLoggingArg
      BY <3>1 DEF CheckLoggingArg, Early
    <3>2. CASE SetupProcess
      BY <3>2 DEF SetupProcess, Exit, Early
    <3>3. CASE LoadPlatform
      BY <3>3 DEF LoadPlatform, Exit, Early
    <3>4. CASE Start
      BY <3>4, StartsParsing DEF Start, winVars, Early
    <3>5. CASE ParseWord
      BY <3>5 DEF ParseWord, Exit, winVars, Early
    <3>6. CASE ParseEnds
      BY <3>6 DEF ParseEnds, winVars, Early
    <3> QED
      BY <1>1, <3>1, <3>2, <3>3, <3>4, <3>5, <3>6
  <2>2. child.how = "none"
    BY <2>1 DEF StatusInv, Early
  <2> QED
    BY <2>1, <2>2, FitEarly
<1> QED
  BY <1>1, FitCheckJDKHome, FitCheckJavaHome, FitNailgun, FitAddScriptName, FitChooseJava,
     FitPrepare, FitLaunch, FitStartJvm, FitEnds, FitStutter
     DEF Next, Exited

LEMMA PlacesAre == ASSUME NEW s, IsSeq(s) PROVE DOMAIN s = 1 .. Len(s)
BY DEF IsSeq

\* The user says nothing of the options for modules and of the boot class path,
\* neither in JAVA_OPTS nor by -J.
ModulesLeft == \A opt \in FitOpts : SaidByEnv(opt) \cup SaidByLine(opt) = {}

\* The options for modules go to a Java with modules and to no other, and JRuby is
\* not on the boot class path of one, whatever is installed and registered, if the
\* user named the Java by -Xjdkhome or JAVA_HOME, and leaves these options to the
\* launcher (checkJDKHome, start, useModulesIfPresent, prepareOptions).
THEOREM OptionsForTheJava == Spec => [](ModulesLeft => OptionsFitJava)
<1> DEFINE Inv == OptionsAll /\ JavaInv /\ FitInv
<1>1. Init => Inv
  <2>1. Init => JavaInv /\ FitInv
    BY NoChildIs DEF Init, JavaInv, FitInv, Early, Launching
  <2> QED
    BY <2>1, OptionsHold
<1>2. Inv /\ [Next]_vars => Inv'
  <2>1. OptionsAll => StatusInv /\ AskedInv
    BY DEF OptionsAll
  <2> QED
    BY <2>1, OptionsHold, JavaStep, FitStep
<1>3. Inv => (ModulesLeft => OptionsFitJava)
  <2> SUFFICES ASSUME AskedInv, FitInv, ModulesLeft,
                      child.how \in {"inproc", "outproc"},
                      env.JAVACMD = "", ~Satisfied(GivenHome),
                      Usable(GivenHome) \/ Usable(env.JAVA_HOME)
               PROVE  OptionsFitJava
    BY Zenon DEF OptionsAll, OptionsFitJava
  <2>1. OptionsRead
    BY DEF AskedInv
  <2>2. Leaves
    <3>1. ~IsSet(env.JAVACMD)
      BY Zenon DEF IsSet
    <3>2. UserSaysNone(OptionWords)
      BY <2>1, SaidAre DEF ModulesLeft, UserSaysNone
    <3> QED
      BY <3>1, <3>2 DEF Leaves, NamedByUser
  <2>3. PICK ws, home : ws = child.options /\ home = child.exe[1]
    OBVIOUS
  <2>4. Fits(ws, home \in ModuleHomes)
    BY <2>2, <2>3 DEF FitInv
  <2>5. DOMAIN ws = 1 .. Len(ws)
    <3>1. IsSeq(ws)
      BY <2>4 DEF Fits
    <3> QED
      BY <3>1, PlacesAre
  <2>6. /\ (\E j \in DOMAIN ws : ws[j].opt \in ModuleOpts) => home \in ModuleHomes
        /\ home \in ModuleHomes /\ JRUBY_MODULE =>
             /\ \E j \in DOMAIN ws : ws[j].opt \in {"--add-opens", "@"}
             /\ ~\E j \in DOMAIN ws : ws[j].opt \in {"-Xbootclasspath/a:"}
    BY <2>4, <2>5 DEF Fits, Lacks, ModuleOpts
  <2> QED
    BY <2>3, <2>6, Zenon DEF OptionsFitJava, ModuleOpts
<1> QED
  BY <1>1, <1>2, <1>3, PTL DEF Spec
=============================================================================
