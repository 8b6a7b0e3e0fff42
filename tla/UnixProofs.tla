----------------------------- MODULE UnixProofs -----------------------------
(***************************************************************************)
(* Proofs about UnixJRuby: the launcher takes the backup, or gives up,     *)
(* only if the scripts it passed over were missing while it ran, whatever  *)
(* installs, deletions and killed installs there are meanwhile; it comes   *)
(* to the installation it was started from; the script succeeds only by    *)
(* running something, hands Ruby's words on as they are, gives java the    *)
(* user's memory and stack, and only flags that this Java has.             *)
(***************************************************************************)
EXTENDS UnixJRuby, LauncherLemmas, SequenceTheorems

\* There was a moment at which this script was not there, or not whole.
Missed(name) == \E whole \in seen : name \notin whole

\* What the loop over the scripts keeps: it has seen the directory as it is now;
\* that it is at the backup, or at its end, says that something was missing.
SearchInv ==
    /\ self \in Dirs
    /\ files \in [Dirs -> [ScriptNames -> FileStates]]
    /\ tried \in 1 .. 2
    /\ WholeIn(files) \in seen
    /\ pc \in {"self", "realpath"} => script_dir \notin Dirs /\ tried = 1
    /\ tried = 2 /\ script_dir = self => Missed("jruby.sh")
    /\ pc = "failed" /\ script_dir = self => tried = 2 /\ Missed("jruby.sh.bak")

LEMMA ScriptsAre ==
    /\ ScriptNames = {"jruby.sh", "jruby.sh.bak"}
    /\ ScriptName(1) = "jruby.sh" /\ ScriptName(2) = "jruby.sh.bak"
    /\ LENGTH = 2
BY DEF ScriptNames, Scripts, ScriptName, LENGTH, Range

LEMMA SearchInit == Init => SearchInv
<1> SUFFICES ASSUME Init PROVE SearchInv
  OBVIOUS
<1>1. launch \in LaunchRecords
  BY LaunchAssumption DEF Init, LauncherInit
<1>2. files \in [Dirs -> [ScriptNames -> FileStates]]
  BY <1>1 DEF Init, LauncherInit, LaunchRecords
<1>3. self \in Dirs /\ script_dir \notin Dirs
  BY LaunchAssumption DEF Init, LauncherInit
<1>4. pc = "self" /\ tried = 1 /\ seen = {WholeIn(files)}
  BY DEF Init, LauncherInit
<1> QED
  BY <1>2, <1>3, <1>4 DEF SearchInv

\* A step that leaves the loop and what it looks at alone, or ends it.
LEMMA SearchUnchanged ==
    ASSUME SearchInv, UNCHANGED <<self, script_dir, tried, files, seen>>,
           pc' = pc \/ pc' \notin {"self", "realpath", "failed"}
    PROVE  SearchInv'
BY DEF SearchInv, WholeIn, Missed

\* A step of the others changes scripts, and what has been seen grows.
LEMMA FileStep ==
    ASSUME SearchInv, NEW name \in ScriptNames, NEW state \in FileStates,
           File(name, state), UNCHANGED <<pc, self, script_dir, tried>>
    PROVE  SearchInv'
<1>1. files' \in [Dirs -> [ScriptNames -> FileStates]]
  BY DEF SearchInv, File
<1>2. seen \subseteq seen' /\ WholeIn(files)' \in seen'
  BY DEF File, WholeIn
<1>3. \A n : Missed(n) => Missed(n)'
  BY <1>2 DEF Missed
<1> QED
  BY <1>1, <1>2, <1>3 DEF SearchInv

\* One turn of the loop: a script it passes over is not whole now.
LEMMA ExecStep == ASSUME SearchInv, ExecScript PROVE SearchInv'
<1> DEFINE state == files[script_dir][ScriptName(tried)]
<1>0. pc = "exec" /\ UNCHANGED <<self, script_dir, files, seen>>
  BY DEF ExecScript, fileVars
<1>1. CASE pc' = "script" /\ UNCHANGED tried
  BY <1>0, <1>1, SearchUnchanged
<1>2. ASSUME ScriptFails(state), script_dir = self PROVE Missed(ScriptName(tried))
  <2>1. state # "whole"
    BY <1>2 DEF ScriptFails
  <2>2. ScriptName(tried) \notin WholeIn(files)
    BY <1>2, <2>1 DEF WholeIn
  <2> QED
    BY <2>2 DEF SearchInv, Missed
<1>3. CASE ScriptFails(state) /\ tried < LENGTH /\ tried' = tried + 1 /\ UNCHANGED pc
  <2>1. tried = 1 /\ tried' = 2
    BY <1>3, ScriptsAre DEF SearchInv
  <2> QED
    BY <1>0, <1>2, <1>3, <2>1, ScriptsAre DEF SearchInv, WholeIn, Missed
<1>4. CASE ScriptFails(state) /\ tried = LENGTH /\ pc' = "failed" /\ UNCHANGED tried
  <2>1. tried = 2
    BY <1>4, ScriptsAre
  <2> QED
    BY <1>0, <1>2, <1>4, <2>1, ScriptsAre DEF SearchInv, WholeIn, Missed
<1> QED
  BY <1>1, <1>3, <1>4 DEF ExecScript, LauncherExit

LEMMA LauncherNextStep == ASSUME SearchInv, LauncherNext PROVE SearchInv'
<1> USE DEF launcherVars, fileVars
<1>1. CASE NoExecutable
  BY <1>1 DEF NoExecutable, LauncherExit, SearchInv, WholeIn, Missed
<1>2. CASE SelfIsPath
  BY <1>2 DEF SelfIsPath, SearchInv, WholeIn, Missed
<1>3. CASE SelfIsName
  BY <1>3 DEF SelfIsName, LauncherExit, SearchInv, WholeIn, Missed
<1>4. CASE FindScriptDir
  BY <1>4 DEF FindScriptDir, SearchInv, WholeIn, Missed
<1>5. CASE ExecScript
  BY <1>5, ExecStep
<1> QED
  BY <1>1, <1>2, <1>3, <1>4, <1>5 DEF LauncherNext

LEMMA OthersNextStep == ASSUME SearchInv, OthersNext PROVE SearchInv'
<1> USE DEF launcherVars
<1>1. CASE DeleteScript
  BY <1>1, FileStep, ScriptsAre DEF DeleteScript, FileStates
<1>2. CASE RemoveLauncher
  BY <1>2, SearchUnchanged DEF RemoveLauncher
<1>3. CASE InstallBegins
  <2>1. CASE UNCHANGED <<files, seen>>
    BY <1>3, <2>1, SearchUnchanged DEF InstallBegins
  <2>2. CASE File("jruby.sh", "empty")
    BY <1>3, <2>2, FileStep, ScriptsAre DEF InstallBegins, FileStates
  <2> QED
    BY <1>3, <2>1, <2>2 DEF InstallBegins
<1>4. CASE InstallBackup
  BY <1>4, FileStep, ScriptsAre DEF InstallBackup, FileStates
<1>5. CASE InstallWrites
  <2>1. PICK state \in {"partial", "whole"} :
           File(install, state) \/ UNCHANGED <<files, seen>>
    BY <1>5 DEF InstallWrites
  <2>2. install \in ScriptNames /\ state \in FileStates
        /\ UNCHANGED <<pc, self, script_dir, tried>>
    BY <1>5 DEF InstallWrites, FileStates
  <2> QED
    BY <2>1, <2>2, FileStep, SearchUnchanged
<1>6. CASE InstallDies
  BY <1>6, SearchUnchanged DEF InstallDies
<1> QED
  BY <1>1, <1>2, <1>3, <1>4, <1>5, <1>6 DEF OthersNext

LEMMA SearchStep == SearchInv /\ [Next]_vars => SearchInv'
<1> SUFFICES ASSUME SearchInv, [Next]_vars PROVE SearchInv'
  OBVIOUS
<1> USE DEF launcherVars, fileVars
<1>1. CASE LauncherStep
  BY <1>1, LauncherNextStep DEF LauncherStep
<1>2. CASE OthersStep
  BY <1>2, OthersNextStep DEF OthersStep
<1>3. CASE ScriptStep
  BY <1>3, SearchUnchanged DEF ScriptStep
<1>4. CASE ScriptExits \/ ScriptExecs \/ HalfScriptEnds
  BY <1>4, SearchUnchanged DEF ScriptExits, ScriptExecs, HalfScriptEnds
<1>5. CASE Ended \/ UNCHANGED vars
  BY <1>5, SearchUnchanged DEF Ended, vars
<1> QED
  BY <1>1, <1>2, <1>3, <1>4, <1>5 DEF Next

LEMMA SearchHolds == Spec => []SearchInv
BY SearchInit, SearchStep, PTL DEF Spec

\* The backup is run only if jruby.sh was not whole at some moment of the run, for
\* any directories, any PATH and any number of installs and deletions (the loop
\* over script_names in unixlauncher.c).
THEOREM MainScriptIsFirst == Spec => []MainScriptFirst
<1>1. SearchInv => MainScriptFirst
  BY ScriptsAre DEF SearchInv, MainScriptFirst, Missed
<1> QED
  BY <1>1, SearchHolds, PTL

\* The launcher gives up on its scripts only if each of them was missing at some
\* moment of the run ("neither script was available" in unixlauncher.c).
THEOREM FailureMeansMissed == Spec => []FailsWithoutScripts
<1>1. SearchInv => FailsWithoutScripts
  BY ScriptsAre DEF SearchInv, FailsWithoutScripts, Missed
<1> QED
  BY <1>1, SearchHolds, PTL
-----------------------------------------------------------------------------
(* Find ourselves: which() and the shell. *)

\* Two searches find the same if what the one finds first the other finds too, and
\* what the other finds is found, or preceded, by the one.
LEMMA SameFirst ==
    ASSUME NEW S, S \subseteq Nat, S # {}, NEW W, W \subseteq Nat,
           Min(S) \in W,
           \A n \in W : \E m \in S : m =< n
    PROVE  Min(W) = Min(S)
<1>1. Min(S) \in S /\ \A n \in S : Min(S) =< n
  BY LeastElement
<1>2. Min(W) \in W /\ \A n \in W : Min(W) =< n
  BY LeastElement
<1>3. PICK m \in S : m =< Min(W)
  BY <1>2
<1>4. Min(S) \in Nat /\ Min(W) \in Nat /\ m \in Nat
  BY <1>1, <1>2
<1>5. Min(S) =< m /\ m =< Min(W) /\ Min(W) =< Min(S)
  BY <1>1, <1>2, <1>3
<1> QED
  BY <1>4, <1>5

\* Nothing under the launcher's name has changed but by going away.
EntriesStay ==
    /\ launch \in LaunchRecords /\ self = Started(launch) /\ self \in Dirs
    /\ entry \in [Dirs -> Entries]
    /\ \A d \in Dirs : entry[d] \in {launch.entry[d], "none"}

\* What the launcher has of the way to itself.
OnTheWay ==
    /\ pc = "self" => script_dir = ""
    /\ pc = "realpath" => /\ self_path \in Dirs /\ launch.entry[self_path] = self
                          /\ script_dir = ""
    /\ pc \notin {"self", "realpath", "failed"} => script_dir = self
    /\ pc = "failed" => script_dir = self \/ launch.argv0 \in {"missing", "empty"}
    /\ script_dir \in {"", self}

FindInv == EntriesStay /\ (PlainPath /\ entry = launch.entry => OnTheWay)

LEMMA SameEntries ==
    ASSUME EntriesStay, \A d \in Dirs : entry[d] = launch.entry[d]
    PROVE  entry = launch.entry
<1>1. launch.entry \in [Dirs -> Entries]
  BY DEF EntriesStay, LaunchRecords
<1>2. entry \in [Dirs -> Entries]
  BY DEF EntriesStay
<1> QED
  BY <1>1, <1>2

LEMMA FindInit == Init => FindInv
<1> SUFFICES ASSUME Init PROVE FindInv
  OBVIOUS
<1>1. launch \in LaunchRecords /\ self = Started(launch) /\ self \in Dirs
      /\ entry = launch.entry /\ pc = "self" /\ script_dir = ""
  BY LaunchAssumption DEF Init, LauncherInit
<1>2. entry \in [Dirs -> Entries]
  BY <1>1 DEF LaunchRecords
<1>3. EntriesStay
  BY <1>1, <1>2 DEF EntriesStay
<1>4. OnTheWay
  BY <1>1 DEF OnTheWay
<1> QED
  BY <1>3, <1>4 DEF FindInv

\* which() comes to the directory the shell took.
LEMMA WhichFinds ==
    ASSUME EntriesStay, PlainPath, entry = launch.entry, launch.argv0 = "name"
    PROVE  Which \in Dirs /\ launch.entry[Which] = self
<1>1. PICK no : no = ""
  OBVIOUS
<1> DEFINE P == launch.PATH
           e == launch.entry
           S == {n \in DOMAIN P : e[IF P[n] = no THEN Cwd ELSE P[n]] \in Dirs}
           bad == launch.unreadable \cup {"none"}
           W == {n \in DOMAIN P : e[IF P[n] = no THEN Root ELSE P[n]] \notin bad}
<1>2. {no, "none"} \cap Dirs = {} /\ "directory" \notin Dirs
      /\ Cwd \in Dirs /\ Root \in Dirs
  BY <1>1, LaunchAssumption
<1>3. P \in Seq(Dirs \cup {no}) /\ e \in [Dirs -> Entries]
  BY <1>1 DEF EntriesStay, LaunchRecords
<1>4. self = (IF S = {} THEN "none" ELSE e[IF P[Min(S)] = no THEN Cwd ELSE P[Min(S)]])
  BY <1>1 DEF EntriesStay, Started, ShellFinds
<1>5. Which = (IF W = {} THEN "none" ELSE IF P[Min(W)] = no THEN Root ELSE P[Min(W)])
  BY <1>1 DEF Which
<1>6. S # {}
  BY <1>2, <1>4 DEF EntriesStay
<1>7. \A n \in DOMAIN P :
          P[n] = no \/ e[P[n]] = "directory" =>
              \E m \in 1 .. n - 1 : P[m] # no /\ e[P[m]] \in Dirs
  BY <1>1 DEF PlainPath
<1>8. \A n \in DOMAIN P : P[n] = no \/ e[P[n]] \in Dirs \cup {"directory", "none"}
  BY <1>3 DEF Entries
<1>9. \A n \in DOMAIN P :
          P[n] = no \/ e[P[n]] \notin Dirs \cup {"none"} =>
              \E m \in 1 .. n - 1 : P[m] # no /\ e[P[m]] \in Dirs
  BY <1>7, <1>8
<1>10. S \subseteq DOMAIN P /\ W \subseteq DOMAIN P
  OBVIOUS
<1>11. \A n \in DOMAIN P : n \in S <=> e[IF P[n] = no THEN Cwd ELSE P[n]] \in Dirs
  OBVIOUS
<1>12. \A n \in DOMAIN P : n \in W <=> e[IF P[n] = no THEN Root ELSE P[n]] \notin bad
  OBVIOUS
<1>21. "none" \in bad /\ (self # "none" => self \notin bad)
  BY DEF PlainPath
<1> HIDE DEF S, W, P, e, bad
<1>13. \A n \in DOMAIN P : n \in Nat /\ \A m \in 1 .. n - 1 : m \in DOMAIN P /\ m < n
  BY <1>3
<1>14. S \subseteq Nat /\ W \subseteq Nat
  BY <1>10, <1>13
<1>15. Min(S) \in S /\ \A n \in S : Min(S) =< n
  BY <1>6, <1>14, LeastElement
<1>16. P[Min(S)] # no
  <2>1. SUFFICES ASSUME P[Min(S)] = no PROVE FALSE
    OBVIOUS
  <2>2. PICK m \in 1 .. Min(S) - 1 : P[m] # no /\ e[P[m]] \in Dirs
    BY <1>9, <1>10, <1>15, <2>1
  <2>3. m \in S /\ m < Min(S)
    BY <1>10, <1>11, <1>13, <1>15, <2>2
  <2>4. Min(S) =< m /\ m \in Nat /\ Min(S) \in Nat
    BY <1>14, <1>15, <2>3
  <2> QED
    BY <2>3, <2>4
<1>17. Min(S) \in DOMAIN P /\ e[P[Min(S)]] \in Dirs /\ P[Min(S)] \in Dirs
  BY <1>3, <1>10, <1>11, <1>15, <1>16
<1>18. Min(S) \in W
  <2>1. e[P[Min(S)]] = self /\ self # "none"
    BY <1>2, <1>4, <1>6, <1>16, <1>17
  <2> QED
    BY <1>12, <1>16, <1>17, <1>21, <2>1
<1>19. ASSUME NEW n \in W PROVE \E m \in S : m =< n
  <2>1. CASE P[n] = no \/ e[P[n]] \notin Dirs \cup {"none"}
    <3>1. PICK m \in 1 .. n - 1 : P[m] # no /\ e[P[m]] \in Dirs
      BY <1>9, <1>10, <1>19, <2>1
    <3>2. m \in S /\ m < n
      BY <1>10, <1>11, <1>13, <1>19, <3>1
    <3> QED
      BY <1>14, <1>19, <3>2
  <2>2. CASE P[n] # no /\ e[P[n]] \in Dirs \cup {"none"}
    <3>1. n \in S
      BY <1>10, <1>11, <1>12, <1>19, <1>21, <2>2
    <3> QED
      BY <1>14, <3>1
  <2> QED
    BY <2>1, <2>2
<1>20. Min(W) = Min(S)
  BY <1>6, <1>14, <1>18, <1>19, SameFirst
<1> QED
  BY <1>4, <1>5, <1>6, <1>16, <1>17, <1>18, <1>20 DEF e

\* A step of the launcher, from its start to the script.
LEMMA FindStep ==
    ASSUME FindInv, LauncherNext
    PROVE  FindInv'
<1>1. UNCHANGED <<launch, self, entry>>
  BY DEF LauncherNext, NoExecutable, SelfIsPath, SelfIsName, FindScriptDir, ExecScript,
         launcherVars, fileVars
<1>2. EntriesStay'
  BY <1>1 DEF FindInv, EntriesStay, Started, ShellFinds
<1>3. ASSUME PlainPath, entry = launch.entry, OnTheWay, EntriesStay PROVE OnTheWay'
  <2>1. CASE NoExecutable
    BY <1>3, <2>1 DEF NoExecutable, LauncherExit, launcherVars, OnTheWay
  <2>2. CASE SelfIsPath
    <3>1. launch.dir \in Dirs /\ launch.entry[launch.dir] = self
      BY <1>3, <2>2 DEF SelfIsPath, EntriesStay, LaunchRecords, Started
    <3> QED
      BY <1>3, <2>2, <3>1 DEF SelfIsPath, OnTheWay
  <2>3. CASE SelfIsName
    <3>1. Which \in Dirs /\ launch.entry[Which] = self
      BY <1>3, <2>3, WhichFinds DEF SelfIsName
    <3>2. Which # "none"
      BY <3>1, LaunchAssumption
    <3> QED
      BY <1>3, <2>3, <3>1, <3>2 DEF SelfIsName, OnTheWay
  <2>4. CASE FindScriptDir
    <3>1. entry[self_path] = self /\ self \in Dirs
      BY <1>3, <2>4 DEF FindScriptDir, OnTheWay, EntriesStay
    <3>2. RealPath(self_path) = self
      BY <3>1, LaunchAssumption DEF RealPath
    <3> QED
      BY <1>3, <2>4, <3>1, <3>2 DEF FindScriptDir, OnTheWay
  <2>5. CASE ExecScript
    <3>1. pc = "exec" /\ UNCHANGED <<launch, self, self_path, script_dir>>
          /\ pc' \in {"exec", "script", "failed"}
      BY <2>5 DEF ExecScript, LauncherExit
    <3> QED
      BY <1>3, <3>1 DEF OnTheWay
  <2> QED
    BY <2>1, <2>2, <2>3, <2>4, <2>5 DEF LauncherNext
<1>4. PlainPath' => PlainPath
  BY <1>1 DEF PlainPath
<1> QED
  BY <1>1, <1>2, <1>3, <1>4 DEF FindInv

\* A step of another, or after the launcher: what it found stays, entries may go.
LEMMA FindUnchanged ==
    ASSUME FindInv, UNCHANGED <<launch, self, self_path, script_dir, entry>>,
           pc' = pc \/ (pc = "script" /\ pc' \in {"exited", "java"})
    PROVE  FindInv'
<1>1. EntriesStay' /\ (PlainPath' => PlainPath)
  BY DEF FindInv, EntriesStay, Started, ShellFinds, PlainPath
<1>2. OnTheWay => OnTheWay'
  BY DEF OnTheWay
<1> QED
  BY <1>1, <1>2 DEF FindInv

LEMMA RemoveStep == ASSUME FindInv, RemoveLauncher PROVE FindInv'
<1>1. UNCHANGED <<pc, launch, self, self_path, script_dir>>
  BY DEF RemoveLauncher, launcherVars
<1>2. entry' = [d \in Dirs |-> IF entry[d] = self THEN "none" ELSE entry[d]]
  BY DEF RemoveLauncher
<1>3. entry' \in [Dirs -> Entries] /\ \A d \in Dirs : entry'[d] \in {launch.entry[d], "none"}
  BY <1>2 DEF FindInv, EntriesStay, Entries
<1>4. EntriesStay' /\ (PlainPath' => PlainPath) /\ (OnTheWay => OnTheWay')
  BY <1>1, <1>3 DEF FindInv, EntriesStay, Started, ShellFinds, PlainPath, OnTheWay
<1>5. ASSUME entry' = launch.entry PROVE entry = launch.entry
  <2>1. ASSUME NEW d \in Dirs PROVE entry[d] = launch.entry[d]
    BY <1>2, <1>5, <2>1, LaunchAssumption DEF FindInv, EntriesStay
  <2> QED
    BY <2>1, SameEntries DEF FindInv
<1> QED
  BY <1>1, <1>4, <1>5 DEF FindInv

LEMMA FindNext == FindInv /\ [Next]_vars => FindInv'
<1> SUFFICES ASSUME FindInv, [Next]_vars PROVE FindInv'
  OBVIOUS
<1> USE DEF launcherVars, fileVars
<1>1. CASE LauncherStep
  BY <1>1, FindStep DEF LauncherStep
<1>2. CASE OthersStep
  <2>1. CASE RemoveLauncher
    BY <2>1, RemoveStep
  <2>2. CASE DeleteScript \/ InstallBegins \/ InstallBackup \/ InstallWrites \/ InstallDies
    <3>1. UNCHANGED <<launch, self, self_path, script_dir, entry>> /\ pc' = pc
      BY <2>2 DEF DeleteScript, InstallBegins, InstallBackup, InstallWrites, InstallDies
    <3> QED
      BY <3>1, FindUnchanged
  <2> QED
    BY <1>2, <2>1, <2>2 DEF OthersStep, OthersNext
<1>3. CASE ScriptStep \/ Ended \/ UNCHANGED vars
  <2>1. UNCHANGED <<launch, self, self_path, script_dir, entry>> /\ pc' = pc
    BY <1>3 DEF ScriptStep, Ended, vars
  <2> QED
    BY <2>1, FindUnchanged
<1>4. CASE ScriptExits \/ ScriptExecs \/ HalfScriptEnds
  BY <1>4, FindUnchanged DEF ScriptExits, ScriptExecs, HalfScriptEnds
<1> QED
  BY <1>1, <1>2, <1>3, <1>4 DEF Next

\* The launcher comes to the installation the shell started it from, for any
\* directories, links and PATH without an empty element or a directory of its name
\* before it, as long as it is not removed (which() and realpath() in
\* unixlauncher.c).
THEOREM LauncherFindsItself == Spec => []FindsItself
<1>1. FindInv => FindsItself
  <2> SUFFICES ASSUME FindInv, PlainPath, ~Removed
               PROVE  /\ script_dir # "" => script_dir = self
                      /\ pc = "failed" /\ script_dir = "" =>
                             launch.argv0 \in {"missing", "empty"}
    BY DEF FindsItself
  <2>1. entry = launch.entry
    BY SameEntries DEF FindInv, Removed
  <2>2. OnTheWay /\ self \in Dirs
    BY <2>1 DEF FindInv, EntriesStay
  <2>3. "" \notin Dirs
    BY LaunchAssumption
  <2>4. script_dir # "" => script_dir = self
    BY <2>2 DEF OnTheWay
  <2>5. pc = "failed" /\ script_dir = "" => launch.argv0 \in {"missing", "empty"}
    BY <2>2, <2>3 DEF OnTheWay
  <2> QED
    BY <2>4, <2>5
<1>2. Spec => []FindInv
  BY FindInit, FindNext, PTL DEF Spec
<1> QED
  BY <1>1, <1>2, PTL

-----------------------------------------------------------------------------
(* IsValue, word by word. *)

Takes(n) == AllWords[n].opt \in TakesValue \cup {"-J-cp"}

\* f says of the words up to m which are values.
Unfolds(f, m) ==
    /\ f \in [0 .. m -> BOOLEAN]
    /\ \A n \in 0 .. m : f[n] <=> (n > 1 /\ Takes(n - 1) /\ ~f[n - 1])

LEMMA UnfoldsNone == \E f : Unfolds(f, 0)
<1> DEFINE f == [n \in 0 .. 0 |-> FALSE]
<1>1. f \in [0 .. 0 -> BOOLEAN] /\ \A n \in 0 .. 0 : f[n] = FALSE /\ ~(n > 1)
  OBVIOUS
<1> HIDE DEF f
<1>2. Unfolds(f, 0)
  BY <1>1 DEF Unfolds
<1> QED
  BY <1>2

LEMMA UnfoldsMore ==
    ASSUME NEW m \in Nat, NEW f, Unfolds(f, m)
    PROVE  \E g : Unfolds(g, m + 1)
<1>1. PICK last \in BOOLEAN : last <=> (m + 1 > 1 /\ Takes((m + 1) - 1) /\ ~f[(m + 1) - 1])
  OBVIOUS
<1> DEFINE g == [n \in 0 .. m + 1 |-> IF n = m + 1 THEN last ELSE f[n]]
<1>2. \A n \in 0 .. m : n \in 0 .. m + 1 /\ n # m + 1 /\ g[n] = f[n]
  OBVIOUS
<1>3. \A n \in 0 .. m + 1 : n \in 0 .. m \/ n = m + 1
  OBVIOUS
<1>4. g[m + 1] = last /\ m + 1 \in 0 .. m + 1
  OBVIOUS
<1>5. DOMAIN g = 0 .. m + 1 /\ g = [n \in 0 .. m + 1 |-> g[n]]
  OBVIOUS
<1>6. f \in [0 .. m -> BOOLEAN]
  BY DEF Unfolds
<1> HIDE DEF g
<1>7. \A n \in 0 .. m + 1 : g[n] \in BOOLEAN
  BY <1>2, <1>3, <1>4, <1>6
<1>8. g \in [0 .. m + 1 -> BOOLEAN]
  BY <1>5, <1>7
<1>9. ASSUME NEW n \in 0 .. m + 1 PROVE g[n] <=> (n > 1 /\ Takes(n - 1) /\ ~g[n - 1])
  <2>1. CASE n = m + 1
    <3>1. n - 1 = m /\ m \in 0 .. m /\ (m + 1) - 1 = m
      BY <2>1
    <3>2. g[m] = f[m]
      BY <1>2, <3>1
    <3> QED
      BY <1>1, <1>4, <2>1, <3>1, <3>2
  <2>2. CASE n \in 0 .. m
    <3>1. n = 0 \/ n - 1 \in 0 .. m
      BY <2>2
    <3>2. f[n] <=> (n > 1 /\ Takes(n - 1) /\ ~f[n - 1])
      BY <2>2 DEF Unfolds
    <3>3. n = 0 => ~(n > 1)
      OBVIOUS
    <3>4. g[n] = f[n] /\ (n # 0 => g[n - 1] = f[n - 1])
      BY <1>2, <2>2, <3>1
    <3> QED
      BY <3>2, <3>3, <3>4, Zenon
  <2> QED
    BY <1>3, <2>1, <2>2
<1>10. Unfolds(g, m + 1)
  BY <1>8, <1>9 DEF Unfolds
<1> QED
  BY <1>10

LEMMA UnfoldsAll == \A m \in Nat : \E f : Unfolds(f, m)
<1> DEFINE T == {m \in Nat : ~\E f : Unfolds(f, m)}
<1> SUFFICES ASSUME T # {} PROVE FALSE
  OBVIOUS
<1>1. PICK x \in T : \A y \in T : x =< y
  BY LeastElement
<1>2. x # 0
  BY <1>1, UnfoldsNone
<1>3. x - 1 \in Nat /\ x - 1 \notin T /\ (x - 1) + 1 = x
  BY <1>1, <1>2
<1>4. PICK f : Unfolds(f, x - 1)
  BY <1>3
<1>5. \E g : Unfolds(g, x)
  BY <1>3, <1>4, UnfoldsMore
<1> QED
  BY <1>1, <1>5

LEMMA IsValueIs ==
    ASSUME Len(AllWords) \in Nat
    PROVE  \A n \in 0 .. Len(AllWords) :
               IsValue[n] <=> (n > 1 /\ Takes(n - 1) /\ ~IsValue[n - 1])
<1> DEFINE S == 0 .. Len(AllWords)
<1>1. PICK f : Unfolds(f, Len(AllWords))
  BY UnfoldsAll
<1>2. f = [n \in S |-> /\ n > 1
                       /\ AllWords[n - 1].opt \in TakesValue \cup {"-J-cp"}
                       /\ ~f[n - 1]]
  BY <1>1 DEF Unfolds, Takes
<1>3. IsValue = [n \in S |-> /\ n > 1
                             /\ AllWords[n - 1].opt \in TakesValue \cup {"-J-cp"}
                             /\ ~IsValue[n - 1]]
  BY <1>2, Zenon DEF IsValue
<1> QED
  BY <1>3 DEF Takes

-----------------------------------------------------------------------------
(* The pass over the words. *)

\* An option is among the first k words.
Reported(k, opt) == \E n \in 1 .. k : ~IsValue[n] /\ AllWords[n].opt = opt

\* What the script keeps of three options, and what a word adds to it.
SameMarks(s, t) ==
    /\ t.print_environment_log = s.print_environment_log
    /\ t.remove_jsa_files = s.remove_jsa_files
    /\ t.regenerate_jsa_file = s.regenerate_jsa_file

MarksAfter(s, w, t) ==
    /\ t.print_environment_log <=> (s.print_environment_log \/ w.opt = "--environment")
    /\ t.remove_jsa_files <=> (s.remove_jsa_files \/ w.opt = "--rmcache")
    /\ t.regenerate_jsa_file <=> (s.regenerate_jsa_file \/ w.opt = "--cache")

MarksRead(s, k) ==
    /\ s.print_environment_log <=> Reported(k, "--environment")
    /\ s.remove_jsa_files <=> Reported(k, "--rmcache")
    /\ s.regenerate_jsa_file <=> Reported(k, "--cache")

MarksAsked(s) ==
    /\ s.print_environment_log <=> Asks("--environment")
    /\ s.remove_jsa_files <=> Asks("--rmcache")
    /\ s.regenerate_jsa_file <=> Asks("--cache")

NoMarks(s) == ~s.print_environment_log /\ ~s.remove_jsa_files /\ ~s.regenerate_jsa_file

\* The first k words have been read: those among them that are no values are
\* options, and the three options were seen if they are among them.
ReadTo(k) ==
    /\ k \in 0 .. Len(AllWords)
    /\ Len(rest) = Len(AllWords) - k
    /\ \A i \in 1 .. Len(rest) : rest[i] = AllWords[k + i]
    /\ k < Len(AllWords) => ~IsValue[k + 1]
    /\ \A n \in 1 .. k : ~IsValue[n] => AllWords[n].opt \notin NotOptions \cup JavaAsks
    /\ MarksRead(sh, k)

Asked == \/ \E opt \in JavaAsks \cup {"--environment"} : Asks(opt)
         \/ Asks("--rmcache") /\ env.writable

IsScript(s) ==
    /\ {"print_environment_log", "remove_jsa_files", "regenerate_jsa_file", "use_jsa_file",
        "ruby_args"} \subseteq DOMAIN s
    /\ IsSeq(s.ruby_args)
    /\ s.print_environment_log \in BOOLEAN /\ s.remove_jsa_files \in BOOLEAN
    /\ s.regenerate_jsa_file \in BOOLEAN

\* What the words mean to the script, from the first to the command.
WordsInv ==
    /\ env \in ShEnvironments /\ IsScript(sh) /\ rest \in Seq(ShWords)
    /\ shPc \in {"java", "version", "environment"} => NoMarks(sh)
    /\ shPc = "options" => \E k : ReadTo(k)
    /\ shPc = "command" => MarksAsked(sh) /\ \A opt \in JavaAsks : ~Asks(opt)
    /\ shPc = "exec" => ~Asked
    /\ shPc = "exited" => shStatus # 0 \/ Asked

LEMMA WiderSeq ==
    ASSUME NEW R, NEW S
    PROVE  Seq(R) \subseteq Seq(R \cup S) /\ Seq(S) \subseteq Seq(R \cup S)
OBVIOUS

LEMMA ConcatSeq ==
    ASSUME NEW x, NEW y, IsSeq(x), IsSeq(y)
    PROVE  IsSeq(x \o y) /\ Len(x \o y) = Len(x) + Len(y) /\ Len(x) \in Nat /\ Len(y) \in Nat
<1>1. PICK R, S : x \in Seq(R) /\ y \in Seq(S)
  BY DEF IsSeq
<1> DEFINE T == R \cup S
<1>2. x \in Seq(T) /\ y \in Seq(T)
  BY <1>1, WiderSeq
<1> HIDE DEF T
<1>3. x \o y \in Seq(T) /\ Len(x \o y) = Len(x) + Len(y) /\ Len(x) \in Nat /\ Len(y) \in Nat
  BY <1>2
<1> QED
  BY <1>3 DEF IsSeq

LEMMA AppendSeq ==
    ASSUME NEW x, NEW w, IsSeq(x)
    PROVE  IsSeq(Append(x, w))
<1>1. PICK R : x \in Seq(R)
  BY DEF IsSeq
<1>2. x \in Seq(R \cup {w}) /\ w \in R \cup {w}
  BY <1>1, WiderSeq
<1> DEFINE T == R \cup {w}
<1> HIDE DEF T
<1>3. x \in Seq(T) /\ w \in T
  BY <1>2 DEF T
<1>4. Append(x, w) \in Seq(T)
  BY <1>3
<1> QED
  BY <1>4 DEF IsSeq

LEMMA WordsAre ==
    ASSUME env \in ShEnvironments
    PROVE  /\ AllWords \in Seq(ShWords) /\ Len(AllWords) \in Nat
           /\ \A n \in 1 .. Len(AllWords) : AllWords[n] \in ShWords
<1>1. env.JRUBY_OPTS \in Seq(ShWords) /\ env.line \in Seq(ShWords)
  BY DEF ShEnvironments
<1> DEFINE S == ShWords
<1> HIDE DEF S
<1>2. AllWords \in Seq(S)
  BY <1>1 DEF AllWords, S
<1>3. Len(AllWords) \in Nat /\ \A n \in 1 .. Len(AllWords) : AllWords[n] \in S
  BY <1>2
<1> QED
  BY <1>2, <1>3 DEF S

LEMMA EnvStays ==
    ASSUME UNCHANGED env
    PROVE  /\ AllWords' = AllWords /\ IsValue' = IsValue
           /\ Asked' <=> Asked
           /\ \A opt : Asks(opt)' <=> Asks(opt)
           /\ \A k, opt : Reported(k, opt)' <=> Reported(k, opt)
<1>1. AllWords' = AllWords
  BY DEF AllWords
<1>2. IsValue' = IsValue
  BY <1>1, ZenonT(30) DEF IsValue
<1>3. Options' = Options
  BY <1>1, <1>2, Zenon DEF Options, IsOption, ShScriptAt
<1>4. \A opt : Asks(opt)' <=> Asks(opt)
  BY <1>3 DEF Asks
<1>5. Asked' <=> Asked
  BY <1>4 DEF Asked
<1>6. \A k, opt : Reported(k, opt)' <=> Reported(k, opt)
  BY <1>1, <1>2 DEF Reported
<1> QED
  BY <1>1, <1>2, <1>4, <1>5, <1>6

\* The next word is an option, unless it is the script.
LEMMA NextWord ==
    ASSUME env \in ShEnvironments, NEW k, ReadTo(k), k < Len(AllWords),
           AllWords[k + 1].opt \notin NotOptions
    PROVE  AllWords[k + 1] \in Options
<1> DEFINE at == {n \in DOMAIN AllWords : AllWords[n].opt \in NotOptions /\ ~IsValue[n]}
<1>1. AllWords \in Seq(ShWords) /\ Len(AllWords) \in Nat
  BY WordsAre
<1>2. DOMAIN AllWords = 1 .. Len(AllWords) /\ k \in Nat /\ k + 1 \in 1 .. Len(AllWords)
  BY <1>1 DEF ReadTo
<1>3. \A n \in at : n \in Nat /\ k + 1 < n
  BY <1>2 DEF ReadTo
<1>4. at = {} => k + 1 < Len(AllWords) + 1
  BY <1>1, <1>2
<1>5. at # {} => Min(at) \in at
  BY <1>3, LeastElement
<1>6. ShScriptAt = IF at = {} THEN Len(AllWords) + 1 ELSE Min(at)
  BY DEF ShScriptAt
<1> HIDE DEF at
<1>7. k + 1 < ShScriptAt
  BY <1>3, <1>4, <1>5, <1>6
<1>8. IsOption(k + 1)
  BY <1>7 DEF IsOption, ReadTo
<1> QED
  BY <1>2, <1>8 DEF Options

\* At the script, or the end of the words, the options are those that were read.
LEMMA OptionsRead ==
    ASSUME env \in ShEnvironments, NEW k, ReadTo(k),
           k < Len(AllWords) => AllWords[k + 1].opt \in NotOptions
    PROVE  /\ \A opt : Asks(opt) <=> Reported(k, opt)
           /\ \A opt \in JavaAsks : ~Asks(opt)
           /\ \A s : MarksRead(s, k) => MarksAsked(s)
<1> DEFINE at == {n \in DOMAIN AllWords : AllWords[n].opt \in NotOptions /\ ~IsValue[n]}
<1>1. AllWords \in Seq(ShWords) /\ Len(AllWords) \in Nat
  BY WordsAre
<1>2. DOMAIN AllWords = 1 .. Len(AllWords) /\ k \in Nat /\ k <= Len(AllWords)
  BY <1>1 DEF ReadTo
<1>3. \A n \in at : n \in 1 .. Len(AllWords) /\ k + 1 <= n
  BY <1>2 DEF ReadTo
<1>4. k < Len(AllWords) => k + 1 \in at
  BY <1>2 DEF ReadTo
<1>5. at # {} => Min(at) \in at /\ \A n \in at : Min(at) =< n
  BY <1>3, LeastElement
<1>6. ShScriptAt = IF at = {} THEN Len(AllWords) + 1 ELSE Min(at)
  BY DEF ShScriptAt
<1> HIDE DEF at
<1>7. ShScriptAt = k + 1
  <2>1. CASE k < Len(AllWords)
    <3>1. Min(at) \in Nat /\ Min(at) =< k + 1 /\ k + 1 =< Min(at) /\ at # {}
      BY <1>3, <1>4, <1>5, <2>1
    <3> QED
      BY <1>2, <1>6, <3>1
  <2>2. CASE k = Len(AllWords)
    <3>1. at = {}
      BY <1>1, <1>3, <2>2
    <3> QED
      BY <1>6, <2>2, <3>1
  <2>3. k < Len(AllWords) \/ k = Len(AllWords)
    <3>1. k \in Nat /\ Len(AllWords) \in Nat /\ k <= Len(AllWords)
      BY <1>1, <1>2
    <3> QED
      BY <3>1
  <2> QED
    BY <2>1, <2>2, <2>3
<1>8. \A n \in DOMAIN AllWords : IsOption(n) <=> n \in 1 .. k /\ ~IsValue[n]
  BY <1>1, <1>2, <1>7 DEF IsOption
<1>9. 1 .. k \subseteq DOMAIN AllWords
  BY <1>1, <1>2
<1>10. \A w : w \in Options <=> \E n \in 1 .. k : ~IsValue[n] /\ w = AllWords[n]
  BY <1>8, <1>9 DEF Options
<1>11. \A n \in 1 .. k : ~IsValue[n] => AllWords[n].opt \notin JavaAsks
  BY DEF ReadTo
<1>12. \A opt : Asks(opt) <=> Reported(k, opt)
  <2> SUFFICES ASSUME NEW opt PROVE Asks(opt) <=> Reported(k, opt)
    OBVIOUS
  <2>1. ASSUME Asks(opt) PROVE Reported(k, opt)
    BY <1>10, <2>1 DEF Asks, Reported
  <2>2. ASSUME Reported(k, opt) PROVE Asks(opt)
    <3>1. PICK n \in 1 .. k : ~IsValue[n] /\ AllWords[n].opt = opt
      BY <2>2 DEF Reported
    <3>2. AllWords[n] \in Options
      BY <1>10, <3>1
    <3> QED
      BY <3>1, <3>2 DEF Asks
  <2> QED
    BY <2>1, <2>2
<1>13. \A opt \in JavaAsks : ~Asks(opt)
  BY <1>11, <1>12 DEF Reported
<1>14. \A s : MarksRead(s, k) => MarksAsked(s)
  BY <1>12 DEF MarksRead, MarksAsked
<1> QED
  BY <1>12, <1>13, <1>14

-----------------------------------------------------------------------------
(* The steps of the script. *)

LEMMA NewScriptIs == IsScript(NewScript) /\ NoMarks(NewScript)
<1>1. <<>> \in Seq(ShWords)
  OBVIOUS
<1> QED
  BY <1>1, Zenon DEF NewScript, IsScript, IsSeq, NoMarks

\* A turn of the loop takes one word or two, of which none is the script.
LEMMA OneWord ==
    ASSUME WordsInv, NEW k, ReadTo(k), rest # <<>>, UNCHANGED env,
           Head(rest).opt \notin NotOptions \cup JavaAsks \cup TakesValue \cup {"-J-cp"},
           rest' = Tail(rest), IsScript(sh'), MarksAfter(sh, Head(rest), sh')
    PROVE  ReadTo(k + 1)' /\ rest' \in Seq(ShWords)
<1>1. /\ AllWords' = AllWords /\ IsValue' = IsValue
      /\ \A opt : Reported(k + 1, opt)' <=> Reported(k + 1, opt)
  BY EnvStays
<1>2. Len(AllWords) \in Nat /\ k \in 0 .. Len(AllWords) /\ rest \in Seq(ShWords)
  BY WordsAre DEF WordsInv, ReadTo
<1>3. /\ rest' \in Seq(ShWords) /\ Len(rest') = Len(rest) - 1 /\ Len(rest) \in Nat \ {0}
      /\ \A i \in 1 .. Len(rest) - 1 : rest'[i] = rest[i + 1]
      /\ Head(rest) = rest[1]
  <2> DEFINE S == ShWords
  <2> HIDE DEF S
  <2>1. rest \in Seq(S)
    BY <1>2 DEF S
  <2>2. /\ Tail(rest) \in Seq(S) /\ Len(Tail(rest)) = Len(rest) - 1 /\ Len(rest) \in Nat \ {0}
        /\ \A i \in 1 .. Len(rest) - 1 : Tail(rest)[i] = rest[i + 1]
        /\ Head(rest) = rest[1]
    BY <2>1
  <2> QED
    BY <2>2 DEF S
<1>4. k < Len(AllWords) /\ Head(rest) = AllWords[k + 1]
  BY <1>2, <1>3 DEF ReadTo
<1>5. k + 1 \in 0 .. Len(AllWords) /\ Len(rest') = Len(AllWords) - (k + 1)
  BY <1>2, <1>3, <1>4 DEF ReadTo
<1>6. \A i \in 1 .. Len(rest') : rest'[i] = AllWords[(k + 1) + i]
  <2> SUFFICES ASSUME NEW i \in 1 .. Len(rest') PROVE rest'[i] = AllWords[(k + 1) + i]
    OBVIOUS
  <2>1. i \in 1 .. Len(rest) - 1 /\ i + 1 \in 1 .. Len(rest) /\ (k + 1) + i = k + (i + 1)
    BY <1>2, <1>3
  <2>2. rest[i + 1] = AllWords[k + (i + 1)]
    BY <2>1 DEF ReadTo
  <2> QED
    BY <1>3, <2>1, <2>2
<1>7. k + 1 < Len(AllWords) => ~IsValue[(k + 1) + 1]
  <2>1. ((k + 1) + 1) - 1 = k + 1 /\ (k + 1 < Len(AllWords) => (k + 1) + 1 \in 0 .. Len(AllWords))
    BY <1>2
  <2>2. ~Takes(k + 1)
    BY <1>4 DEF Takes
  <2> QED
    BY <1>2, <2>1, <2>2, IsValueIs
<1>8. \A n \in 1 .. k + 1 : n \in 1 .. k \/ n = k + 1
  BY <1>2
<1>9. \A n \in 1 .. k + 1 : ~IsValue[n] => AllWords[n].opt \notin NotOptions \cup JavaAsks
  BY <1>4, <1>8 DEF ReadTo
<1>10. \A opt : Reported(k + 1, opt) <=> (Reported(k, opt) \/ AllWords[k + 1].opt = opt)
  <2>1. k + 1 \in 1 .. k + 1 /\ 1 .. k \subseteq 1 .. k + 1 /\ ~IsValue[k + 1]
    BY <1>2, <1>4 DEF ReadTo
  <2> QED
    BY <1>8, <2>1 DEF Reported
<1>11. MarksRead(sh, k + 1)'
  BY <1>1, <1>4, <1>10 DEF ReadTo, MarksRead, MarksAfter
<1> QED
  BY <1>1, <1>3, <1>5, <1>6, <1>7, <1>9, <1>11 DEF ReadTo

LEMMA TwoWords ==
    ASSUME WordsInv, NEW k, ReadTo(k), Len(rest) > 1, UNCHANGED env,
           rest[1].opt \in TakesValue \cup {"-J-cp"},
           Len(rest') = Len(rest) - 2,
           \A i \in 1 .. Len(rest) - 2 : rest'[i] = rest[i + 2],
           SameMarks(sh, sh')
    PROVE  ReadTo(k + 2)'
<1>1. /\ AllWords' = AllWords /\ IsValue' = IsValue
      /\ \A opt : Reported(k + 2, opt)' <=> Reported(k + 2, opt)
  BY EnvStays
<1>2. Len(AllWords) \in Nat /\ k \in 0 .. Len(AllWords) /\ Len(rest) = Len(AllWords) - k
  BY WordsAre DEF WordsInv, ReadTo
<1>3. k + 1 < Len(AllWords) /\ rest[1] = AllWords[k + 1] /\ ~IsValue[k + 1]
  BY <1>2 DEF ReadTo
<1>4. /\ Takes(k + 1)
      /\ AllWords[k + 1].opt \notin NotOptions \cup JavaAsks
                                     \cup {"--environment", "--rmcache", "--cache"}
  BY <1>3 DEF Takes, TakesValue, NotOptions, JavaAsks
<1>5. k + 2 \in 0 .. Len(AllWords) /\ Len(rest') = Len(AllWords) - (k + 2)
  BY <1>2, <1>3
<1>6. \A i \in 1 .. Len(rest') : rest'[i] = AllWords[(k + 2) + i]
  <2> SUFFICES ASSUME NEW i \in 1 .. Len(rest') PROVE rest'[i] = AllWords[(k + 2) + i]
    OBVIOUS
  <2>1. i \in 1 .. Len(rest) - 2 /\ i + 2 \in 1 .. Len(rest) /\ (k + 2) + i = k + (i + 2)
    BY <1>2
  <2>2. rest[i + 2] = AllWords[k + (i + 2)]
    BY <2>1 DEF ReadTo
  <2> QED
    BY <2>1, <2>2
<1>7. IsValue[k + 2]
  <2>1. (k + 2) - 1 = k + 1 /\ k + 2 \in 0 .. Len(AllWords) /\ k + 2 > 1
    BY <1>2, <1>3
  <2> QED
    BY <1>2, <1>3, <1>4, <2>1, IsValueIs
<1>8. k + 2 < Len(AllWords) => ~IsValue[(k + 2) + 1]
  <2>1. ((k + 2) + 1) - 1 = k + 2 /\ (k + 2 < Len(AllWords) => (k + 2) + 1 \in 0 .. Len(AllWords))
    BY <1>2
  <2> QED
    BY <1>2, <1>7, <2>1, IsValueIs
<1>9. \A n \in 1 .. k + 2 : n \in 1 .. k \/ n = k + 1 \/ n = k + 2
  BY <1>2
<1>10. \A n \in 1 .. k + 2 : ~IsValue[n] => AllWords[n].opt \notin NotOptions \cup JavaAsks
  BY <1>4, <1>7, <1>9 DEF ReadTo
<1>11. \A opt \in {"--environment", "--rmcache", "--cache"} :
           Reported(k + 2, opt) <=> Reported(k, opt)
  <2>1. 1 .. k \subseteq 1 .. k + 2
    BY <1>2
  <2> QED
    BY <1>4, <1>7, <1>9, <2>1 DEF Reported
<1>12. MarksRead(sh, k + 2)'
  BY <1>1, <1>11 DEF ReadTo, MarksRead, SameMarks
<1> QED
  BY <1>1, <1>5, <1>6, <1>8, <1>10, <1>12 DEF ReadTo

\* What an option does to the script's variables.
LEMMA SwitchIs ==
    ASSUME NEW s, IsScript(s), NEW w \in ShWords
    PROVE  /\ IsScript(ReadSwitch(s, w)) /\ MarksAfter(s, w, ReadSwitch(s, w))
           /\ ReadSwitch(s, w).ruby_args =
                  CASE w.opt = "ruby"  -> Append(s.ruby_args, w)
                    [] w.opt = "--jdb" -> Append(s.ruby_args, ShWord("ruby", <<"-X+C">>))
                    [] OTHER           -> s.ruby_args
<1> DEFINE ruby == CASE w.opt = "ruby"  -> Append(s.ruby_args, w)
                     [] w.opt = "--jdb" -> Append(s.ruby_args, ShWord("ruby", <<"-X+C">>))
                     [] OTHER           -> s.ruby_args
<1>1. IsSeq(ruby)
  BY AppendSeq DEF IsScript
<1>2. ASSUME NEW t, IsScript(t), NEW file
      PROVE  /\ IsScript(ProcessJavaOpts(t, file))
             /\ SameMarks(t, ProcessJavaOpts(t, file))
             /\ ProcessJavaOpts(t, file).ruby_args = t.ruby_args
  BY <1>2 DEF ProcessJavaOpts, IsScript, SameMarks
<1> DEFINE t == [s EXCEPT
                !.java_args         = @ \o ForJava(w),
                !.ruby_args         = ruby,
                !.JAVA_MEM          = IF w.opt = "-J-Xmx" THEN << ShWord("-Xmx", w.text) >> ELSE @,
                !.JAVA_STACK        = IF w.opt = "-J-Xss" THEN << ShWord("-Xss", w.text) >> ELSE @,
                !.JAVA_SECURITY_EGD = IF w.opt = "-J-egd" THEN w.text ELSE @,
                !.VERIFY_JRUBY      = @ \/ w.opt = "-J-ea",
                !.NO_BOOTCLASSPATH  = @ \/ w.opt = "--no-bootclasspath",
                !.jdb               = @ \/ w.opt = "--jdb",
                !.print_environment_log = @ \/ w.opt = "--environment",
                !.regenerate_jsa_file = @ \/ w.opt = "--cache",
                !.remove_jsa_files  = @ \/ w.opt = "--rmcache",
                !.use_jsa_file      = @ /\ w.opt # "--nocache",
                !.java_class        = IF w.opt = "--checkpoint"
                                      THEN "org.jruby.main.CheckpointMain" ELSE @]
<1>3. ReadSwitch(s, w) = IF w.opt = "--dev" THEN ProcessJavaOpts(t, "dev") ELSE t
  BY DEF ReadSwitch
<1>4. /\ DOMAIN t = DOMAIN s /\ t.ruby_args = ruby
      /\ t.print_environment_log = (s.print_environment_log \/ w.opt = "--environment")
      /\ t.remove_jsa_files = (s.remove_jsa_files \/ w.opt = "--rmcache")
      /\ t.regenerate_jsa_file = (s.regenerate_jsa_file \/ w.opt = "--cache")
  <2> HIDE DEF ruby
  <2> QED
    BY Zenon DEF IsScript
<1> HIDE DEF t, ruby
<1>5. /\ t.print_environment_log \in BOOLEAN /\ t.remove_jsa_files \in BOOLEAN
      /\ t.regenerate_jsa_file \in BOOLEAN
  BY <1>4
<1>6. IsScript(t)
  BY <1>1, <1>4, <1>5 DEF IsScript
<1>7. /\ IsScript(ReadSwitch(s, w)) /\ MarksAfter(s, w, ReadSwitch(s, w))
      /\ ReadSwitch(s, w).ruby_args = ruby
  <2>1. MarksAfter(s, w, t)
    BY <1>4, Zenon DEF MarksAfter
  <2>2. ASSUME NEW u, SameMarks(t, u) PROVE MarksAfter(s, w, u)
    BY <2>1, <2>2, Zenon DEF MarksAfter, SameMarks
  <2> QED
    BY <1>2, <1>3, <1>4, <1>6, <2>1, <2>2, Zenon
<1> QED
  BY <1>7 DEF ruby

LEMMA FindJavaStep ==
    ASSUME WordsInv, FindJava
    PROVE  WordsInv' /\ sh'.ruby_args = sh.ruby_args
<1>1. shPc = "java" /\ UNCHANGED <<env, rest>>
  BY DEF FindJava
<1>2. CASE ShExit(2) /\ UNCHANGED sh
  BY <1>1, <1>2 DEF WordsInv, ShExit, IsScript
<1>3. CASE FoundJava \in DOMAIN Javas /\ ~(ShExit(2) /\ UNCHANGED sh)
  <2>1. PICK cmd, modules, major, appcds :
            sh' = [sh EXCEPT !.JAVACMD = cmd, !.use_modules = modules, !.major = major,
                             !.java_has_appcds = appcds, !.use_jsa_file = appcds]
    <3> DEFINE java  == Javas[JavaHomeOf(ResolvedJava)]
               maj   == IF java.release = 0 THEN 8 ELSE java.release
    <3>1. sh' = [sh EXCEPT !.JAVACMD = ResolvedJava, !.use_modules = java.modules,
                           !.major = maj, !.java_has_appcds = maj >= 13 /\ java.jsa,
                           !.use_jsa_file = maj >= 13 /\ java.jsa]
      BY <1>3 DEF FindJava
    <3> HIDE DEF java, maj
    <3> QED
      BY <3>1
  <2>2. DOMAIN sh' = DOMAIN sh /\ sh'.ruby_args = sh.ruby_args /\ SameMarks(sh, sh')
    BY <2>1, Zenon DEF WordsInv, IsScript, SameMarks
  <2>3. shPc' = "version"
    BY <1>3 DEF FindJava
  <2> QED
    BY <1>1, <2>2, <2>3 DEF WordsInv, IsScript, SameMarks, NoMarks
<1> QED
  BY <1>2, <1>3 DEF FindJava

LEMMA CheckVersionStep == ASSUME WordsInv, CheckVersion PROVE WordsInv'
<1>1. shPc = "version" /\ UNCHANGED <<env, rest, sh>>
  BY DEF CheckVersion
<1>2. (shPc' = "exited" /\ shStatus' = 1) \/ shPc' = "environment"
  BY DEF CheckVersion, ShExit
<1> QED
  BY <1>1, <1>2 DEF WordsInv, IsScript

\* The options of a file.
LEMMA FileIs ==
    ASSUME NEW s, IsScript(s), NEW file
    PROVE  LET t == ProcessJavaOpts(s, file)
           IN  /\ IsScript(t) /\ t.ruby_args = s.ruby_args /\ SameMarks(s, t)
               /\ t.use_jsa_file = s.use_jsa_file
BY DEF ProcessJavaOpts, IsScript, SameMarks

LEMMA ReadEnvironmentStep ==
    ASSUME WordsInv, ReadEnvironment
    PROVE  WordsInv' /\ sh'.ruby_args = sh.ruby_args
<1>1. shPc = "environment" /\ shPc' = "options" /\ UNCHANGED env /\ rest' = AllWords
  BY DEF ReadEnvironment, AllWords
<1> DEFINE start == [sh EXCEPT
                !.JAVA_OPTS  = WithoutMemory(env.JAVA_OPTS),
                !.JAVA_MEM   = LastOr("-Xmx", env.JAVA_OPTS, env.JAVA_MEM),
                !.JAVA_STACK = LastOr("-Xss", env.JAVA_OPTS, DefaultStack(env.JAVA_STACK)),
                !.JAVA_SECURITY_EGD = IF env.urandom THEN <<"file:/dev/urandom">> ELSE <<>>,
                !.JRUBY_CP  = JrubyJars,
                !.CP        = IF env.JRUBY_PARENT_CLASSPATH = <<>> THEN env.CP \o OtherJars
                              ELSE env.JRUBY_PARENT_CLASSPATH,
                !.CLASSPATH = env.CLASSPATH]
           installed == ProcessJavaOpts(start, "installed")
           home      == ProcessJavaOpts(installed, "home")
<1>2. sh' = ProcessJavaOpts(home, "pwd")
  BY DEF ReadEnvironment
<1>3. IsScript(sh') /\ sh'.ruby_args = sh.ruby_args /\ SameMarks(sh, sh')
  <2>1. IsScript(sh)
    BY DEF WordsInv
  <2>2. IsScript(start) /\ start.ruby_args = sh.ruby_args /\ SameMarks(sh, start)
    <3>1. DOMAIN start = DOMAIN sh /\ start.ruby_args = sh.ruby_args /\ SameMarks(sh, start)
      BY <2>1, Zenon DEF IsScript, SameMarks
    <3> HIDE DEF start
    <3> QED
      BY <2>1, <3>1 DEF IsScript, SameMarks
  <2> HIDE DEF start
  <2>3. IsScript(installed) /\ installed.ruby_args = sh.ruby_args /\ SameMarks(start, installed)
    BY <2>2, FileIs, Zenon
  <2> HIDE DEF installed
  <2>4. IsScript(home) /\ home.ruby_args = sh.ruby_args /\ SameMarks(installed, home)
    BY <2>3, FileIs, Zenon
  <2> HIDE DEF home
  <2>5. IsScript(sh') /\ sh'.ruby_args = sh.ruby_args /\ SameMarks(home, sh')
    BY <1>2, <2>4, FileIs, Zenon
  <2> QED
    BY <2>2, <2>3, <2>4, <2>5, Zenon DEF SameMarks
<1> HIDE DEF start, installed, home
<1>4. IsScript(sh') /\ NoMarks(sh')
  BY <1>1, <1>3 DEF WordsInv, NoMarks, SameMarks
<1>5. AllWords \in Seq(ShWords) /\ Len(AllWords) \in Nat
  BY WordsAre DEF WordsInv
<1>6. AllWords' = AllWords /\ IsValue' = IsValue /\ \A opt : Reported(0, opt)' <=> Reported(0, opt)
  BY <1>1, EnvStays
<1>7. 0 < Len(AllWords) => ~IsValue[0 + 1]
  <2>1. 0 < Len(AllWords) => 0 + 1 \in 0 .. Len(AllWords) /\ ~(0 + 1 > 1)
    BY <1>5
  <2> QED
    BY <1>5, <2>1, IsValueIs
<1>8. 1 .. 0 = {} /\ \A opt : ~Reported(0, opt)
  <2>1. 1 .. 0 = {}
    OBVIOUS
  <2> QED
    BY <2>1 DEF Reported
<1>9. /\ 0 \in 0 .. Len(AllWords) /\ Len(AllWords) = Len(AllWords) - 0
      /\ \A i \in 1 .. Len(AllWords) : 0 + i = i
  BY <1>5
<1>10. ReadTo(0)'
  <2>1. MarksRead(sh, 0)'
    BY <1>4, <1>6, <1>8 DEF MarksRead, NoMarks
  <2> QED
    BY <1>1, <1>6, <1>7, <1>8, <1>9, <2>1 DEF ReadTo
<1> QED
  BY <1>1, <1>3, <1>4, <1>5, <1>10 DEF WordsInv

LEMMA OptionSwitchStep == ASSUME WordsInv, OptionSwitch PROVE WordsInv'
<1>1. /\ shPc = "options" /\ rest # <<>> /\ IsSwitch(Head(rest)) /\ UNCHANGED <<shPc, env>>
      /\ sh' = ReadSwitch(sh, Head(rest)) /\ rest' = Tail(rest)
  BY DEF OptionSwitch
<1>2. PICK k : ReadTo(k)
  BY <1>1 DEF WordsInv
<1>3. Head(rest) \in ShWords
  <2> DEFINE S == ShWords
  <2> HIDE DEF S
  <2>1. rest \in Seq(S)
    BY DEF WordsInv, S
  <2> QED
    BY <1>1, <2>1 DEF S
<1>4. IsScript(sh') /\ MarksAfter(sh, Head(rest), sh')
  BY <1>1, <1>3, SwitchIs DEF WordsInv
<1>5. Head(rest).opt \notin NotOptions \cup JavaAsks \cup TakesValue \cup {"-J-cp"}
  BY <1>1 DEF IsSwitch
<1>6. ReadTo(k + 1)' /\ rest' \in Seq(ShWords)
  BY <1>1, <1>2, <1>4, <1>5, OneWord
<1> QED
  BY <1>1, <1>4, <1>6 DEF WordsInv

LEMMA OptionForRubyStep ==
    ASSUME WordsInv, OptionForRuby
    PROVE  /\ WordsInv'
           /\ shPc' = "options" =>
                /\ Len(rest) > 1 /\ Len(rest') = Len(rest) - 2
                /\ sh'.ruby_args = sh.ruby_args \o SubSeq(rest, 1, 2)
<1> DEFINE S == ShWords
<1>1. shPc = "options" /\ rest # <<>> /\ Head(rest).opt \in TakesValue /\ UNCHANGED env
  BY DEF OptionForRuby
<1>2. rest \in Seq(S) /\ IsScript(sh)
  BY DEF WordsInv, IsScript
<1>3. CASE ShExit(2) /\ UNCHANGED <<sh, rest>>
  BY <1>1, <1>3 DEF WordsInv, ShExit, IsScript
<1>4. CASE /\ Len(rest) > 1 /\ sh' = Switched(sh, rest) /\ UNCHANGED shPc
           /\ rest' = SubSeq(rest, Len(sh'.ruby_args) - Len(sh.ruby_args) + 1, Len(rest))
  <2>1. PICK k : ReadTo(k)
    BY <1>1 DEF WordsInv
  <2>2. /\ DOMAIN sh' = DOMAIN sh /\ sh'.ruby_args = sh.ruby_args \o SubSeq(rest, 1, 2)
        /\ SameMarks(sh, sh')
    <3>1. sh' = [sh EXCEPT !.ruby_args = sh.ruby_args \o SubSeq(rest, 1, 2)]
      BY <1>4 DEF Switched
    <3> QED
      BY <1>2, <3>1, Zenon DEF IsScript, SameMarks
  <2> HIDE DEF S
  <2>3. SubSeq(rest, 1, 2) \in Seq(S) /\ Len(SubSeq(rest, 1, 2)) = 2
    BY <1>2, <1>4
  <2>4. IsSeq(sh'.ruby_args) /\ Len(sh'.ruby_args) - Len(sh.ruby_args) + 1 = 3
    <3>1. IsSeq(sh.ruby_args) /\ IsSeq(SubSeq(rest, 1, 2))
      BY <1>2, <2>3 DEF IsScript, IsSeq
    <3>2. /\ IsSeq(sh'.ruby_args) /\ Len(sh.ruby_args) \in Nat
          /\ Len(sh'.ruby_args) = Len(sh.ruby_args) + Len(SubSeq(rest, 1, 2))
      BY <2>2, <3>1, ConcatSeq
    <3> QED
      BY <2>3, <3>2
  <2>5. rest' = SubSeq(rest, 3, Len(rest))
    BY <1>4, <2>4
  <2>6. /\ rest' \in Seq(S) /\ Len(rest') = Len(rest) - 2
        /\ \A i \in 1 .. Len(rest) - 2 : rest'[i] = rest[i + 2]
        /\ Head(rest) = rest[1]
    <3>1. Len(rest) \in Nat /\ Len(rest) - 3 + 1 = Len(rest) - 2
      BY <1>2
    <3>2. /\ rest' \in Seq(S) /\ Len(rest') = Len(rest) - 3 + 1
          /\ \A i \in 1 .. Len(rest) - 3 + 1 : rest'[i] = rest[3 + i - 1]
      <4>1. 3 \in 1 .. Len(rest) + 1 /\ Len(rest) \in 3 - 1 .. Len(rest)
        BY <1>4, <3>1
      <4>2. Len(rest) >= 3 => 3 <= Len(rest)
        OBVIOUS
      <4>3. Len(rest) < 3 => Len(rest) - 3 + 1 = 0
        BY <1>4, <3>1
      <4> QED
        BY <1>2, <2>5, <3>1, <4>1, <4>2, <4>3, SubSeqProperties
    <3>3. \A i \in 1 .. Len(rest) - 2 : 3 + i - 1 = i + 2
      BY <3>1
    <3>4. Head(rest) = rest[1]
      BY <1>1, <1>2
    <3> QED
      BY <3>1, <3>2, <3>3, <3>4
  <2>7. ReadTo(k + 2)'
    BY <1>1, <1>4, <2>1, <2>2, <2>6, TwoWords
  <2> QED
    BY <1>1, <1>2, <1>4, <2>2, <2>4, <2>6, <2>7 DEF WordsInv, IsScript, S, SameMarks
<1> QED
  BY <1>3, <1>4 DEF OptionForRuby

LEMMA OptionClassPathStep ==
    ASSUME WordsInv, OptionClassPath
    PROVE  /\ WordsInv'
           /\ shPc' = "options" =>
                /\ Len(rest) > 1 /\ Len(rest') = Len(rest) - 2
                /\ sh'.ruby_args = sh.ruby_args
<1> DEFINE S == ShWords
<1>1. shPc = "options" /\ rest # <<>> /\ Head(rest).opt = "-J-cp" /\ UNCHANGED env
  BY DEF OptionClassPath
<1>2. rest \in Seq(S) /\ IsScript(sh)
  BY DEF WordsInv
<1>3. CASE (\E code \in {1, 2} : ShExit(code)) /\ UNCHANGED <<sh, rest>>
  BY <1>1, <1>3 DEF WordsInv, ShExit, IsScript
<1>4. CASE /\ Len(rest) > 1 /\ UNCHANGED shPc /\ rest' = Tail(Tail(rest))
           /\ sh' = [sh EXCEPT !.CP = @ \o AsPath(rest[2]), !.CLASSPATH = <<>>]
  <2>1. PICK k : ReadTo(k)
    BY <1>1 DEF WordsInv
  <2>2. DOMAIN sh' = DOMAIN sh /\ sh'.ruby_args = sh.ruby_args /\ SameMarks(sh, sh')
    BY <1>2, <1>4, Zenon DEF IsScript, SameMarks
  <2> HIDE DEF S
  <2>3. /\ Tail(rest) \in Seq(S) /\ Len(Tail(rest)) = Len(rest) - 1
        /\ \A i \in 1 .. Len(rest) - 1 : Tail(rest)[i] = rest[i + 1]
        /\ Head(rest) = rest[1] /\ Len(rest) \in Nat
    BY <1>1, <1>2
  <2>4. /\ rest' \in Seq(S) /\ Len(rest') = Len(Tail(rest)) - 1
        /\ \A i \in 1 .. Len(Tail(rest)) - 1 : rest'[i] = Tail(rest)[i + 1]
    <3>1. \A s \in Seq(S) : Len(s) > 0 =>
              /\ Tail(s) \in Seq(S) /\ Len(Tail(s)) = Len(s) - 1
              /\ \A i \in 1 .. Len(s) - 1 : Tail(s)[i] = s[i + 1]
      OBVIOUS
    <3>2. Len(Tail(rest)) > 0
      BY <1>4, <2>3
    <3> QED
      BY <1>4, <2>3, <3>1, <3>2
  <2>5. Len(rest') = Len(rest) - 2 /\ \A i \in 1 .. Len(rest) - 2 : rest'[i] = rest[i + 2]
    BY <2>3, <2>4
  <2>6. ReadTo(k + 2)'
    BY <1>1, <1>4, <2>1, <2>2, <2>3, <2>5, TwoWords
  <2> QED
    BY <1>1, <1>2, <1>4, <2>2, <2>4, <2>6 DEF WordsInv, IsScript, S, SameMarks
<1> QED
  BY <1>3, <1>4 DEF OptionClassPath

\* At the head of what is left is the next word.
LEMMA HeadIsNext ==
    ASSUME WordsInv, NEW k, ReadTo(k)
    PROVE  /\ rest = <<>> <=> k = Len(AllWords)
           /\ rest # <<>> => k < Len(AllWords) /\ Head(rest) = AllWords[k + 1]
<1> DEFINE S == ShWords
<1>1. rest \in Seq(S) /\ Len(AllWords) \in Nat
  BY WordsAre DEF WordsInv
<1> HIDE DEF S
<1>2. k \in 0 .. Len(AllWords) /\ Len(rest) = Len(AllWords) - k
  BY DEF ReadTo
<1>3. Len(rest) = 0 <=> rest = <<>>
  BY <1>1
<1>4. rest # <<>> => 1 \in 1 .. Len(rest) /\ Head(rest) = rest[1]
  BY <1>1
<1>5. rest # <<>> => Head(rest) = AllWords[k + 1]
  BY <1>4 DEF ReadTo
<1> QED
  BY <1>1, <1>2, <1>3, <1>5

LEMMA OptionExitsStep == ASSUME WordsInv, OptionExits PROVE WordsInv'
<1>1. shPc = "options" /\ rest # <<>> /\ UNCHANGED <<env, rest, sh>> /\ shPc' = "exited"
  BY DEF OptionExits, ShExit
<1>2. PICK k : ReadTo(k)
  BY <1>1 DEF WordsInv
<1>3. Head(rest).opt \in JavaAsks => Asked
  <2> SUFFICES ASSUME Head(rest).opt \in JavaAsks PROVE Asked
    OBVIOUS
  <2>1. Head(rest).opt \notin NotOptions
    BY DEF JavaAsks, NotOptions
  <2>2. Head(rest) \in Options
    BY <1>1, <1>2, <2>1, HeadIsNext, NextWord DEF WordsInv
  <2> QED
    BY <2>2 DEF Asked, Asks
<1>4. Asked' <=> Asked
  BY <1>1, EnvStays
<1>5. Head(rest).opt \in JavaAsks \/ shStatus' \in {1, 2}
  BY DEF OptionExits, ShExit
<1> QED
  BY <1>1, <1>3, <1>4, <1>5 DEF WordsInv, IsScript

LEMMA OptionsEndStep == ASSUME WordsInv, OptionsEnd PROVE WordsInv'
<1>1. /\ shPc = "options" /\ shPc' = "command" /\ UNCHANGED env /\ rest' = <<>>
      /\ rest # <<>> => Head(rest).opt \in NotOptions
  BY DEF OptionsEnd
<1>2. PICK k : ReadTo(k)
  BY <1>1 DEF WordsInv
<1>3. MarksAsked(sh) /\ \A opt \in JavaAsks : ~Asks(opt)
  <2>1. k < Len(AllWords) => rest # <<>> /\ Head(rest) = AllWords[k + 1]
    <3>1. Len(AllWords) \in Nat
      BY WordsAre DEF WordsInv
    <3> QED
      BY <1>2, <3>1, HeadIsNext
  <2>2. MarksRead(sh, k)
    BY <1>2 DEF ReadTo
  <2> QED
    BY <1>1, <1>2, <2>1, <2>2, OptionsRead DEF WordsInv
<1>4. PICK java : sh' = [sh EXCEPT !.ruby_args = @ \o rest, !.java_args = java]
  BY Zenon DEF OptionsEnd
<1>5. DOMAIN sh' = DOMAIN sh /\ sh'.ruby_args = sh.ruby_args \o rest /\ SameMarks(sh, sh')
  BY <1>4, Zenon DEF WordsInv, IsScript, SameMarks
<1>6. IsSeq(sh'.ruby_args) /\ rest' \in Seq(ShWords)
  <2>1. IsSeq(sh.ruby_args) /\ IsSeq(rest)
    BY DEF WordsInv, IsScript, IsSeq
  <2>2. <<>> \in Seq(ShWords)
    OBVIOUS
  <2> QED
    BY <1>1, <1>5, <2>1, <2>2, ConcatSeq
<1>7. \A opt : Asks(opt)' <=> Asks(opt)
  BY <1>1, EnvStays
<1>8. IsScript(sh')
  BY <1>5, <1>6 DEF WordsInv, IsScript, SameMarks
<1>9. MarksAsked(sh)' /\ \A opt \in JavaAsks : ~Asks(opt)'
  BY <1>3, <1>5, <1>7 DEF MarksAsked, SameMarks
<1> QED
  BY <1>1, <1>6, <1>8, <1>9 DEF WordsInv

LEMMA RefuseStep == ASSUME WordsInv, RefuseArchive PROVE WordsInv'
<1>1. shPc = "command" /\ UNCHANGED <<env, rest, sh>> /\ shPc' = "exited" /\ shStatus' # 0
  BY DEF RefuseArchive, ShExit
<1> QED
  BY <1>1 DEF WordsInv, IsScript

\* The options of the archive.
LEMMA ArchiveIs ==
    ASSUME NEW s, IsScript(s), env \in ShEnvironments
    PROVE  LET t == SelectArchive(s)
           IN  /\ IsScript(t)
               /\ t.print_environment_log = s.print_environment_log
               /\ t.remove_jsa_files <=> (s.remove_jsa_files /\ env.writable)
               /\ \/ t.ruby_args = s.ruby_args
                  \/ s.ruby_args = <<>> /\ t.ruby_args = NoOp /\ s.regenerate_jsa_file
<1> DEFINE alone == env.writable /\ s.ruby_args = <<>> /\ s.use_jsa_file /\ s.regenerate_jsa_file
           t == SelectArchive(s)
<1>1. /\ DOMAIN t = DOMAIN s
      /\ t.print_environment_log = s.print_environment_log
      /\ t.remove_jsa_files = (s.remove_jsa_files /\ env.writable)
      /\ t.regenerate_jsa_file = (s.regenerate_jsa_file /\ env.writable)
      /\ t.ruby_args = s.ruby_args \o If(alone, NoOp)
  BY Zenon DEF IsScript, SelectArchive
<1> HIDE DEF t
<1>2. IsSeq(NoOp) /\ IsSeq(<<>>) /\ IsSeq(s.ruby_args)
  <2>1. NoOp \in Seq({ShWord("-e", <<>>), ShWord("plain", <<"1">>)}) /\ <<>> \in Seq({})
    BY DEF NoOp
  <2> QED
    BY <2>1 DEF IsScript, IsSeq
<1>3. \A x : IsSeq(x) => x \o <<>> = x /\ <<>> \o x = x
  BY DEF IsSeq
<1>4. \/ ~alone /\ t.ruby_args = s.ruby_args
      \/ alone /\ s.ruby_args = <<>> /\ t.ruby_args = NoOp /\ s.regenerate_jsa_file
  BY <1>1, <1>2, <1>3, Zenon DEF If
<1>5. IsScript(t)
  BY <1>1, <1>2, <1>4 DEF IsScript
<1> QED
  BY <1>1, <1>4, <1>5 DEF t

LEMMA AssembleStep ==
    ASSUME WordsInv, Assemble
    PROVE  /\ WordsInv'
           /\ \/ sh'.ruby_args = sh.ruby_args
              \/ sh.ruby_args = <<>> /\ sh'.ruby_args = NoOp /\ Asks("--cache")
<1>1. shPc = "command" /\ UNCHANGED <<env, rest>>
  BY DEF Assemble
<1>2. PICK s : /\ s = IF sh.use_modules THEN ProcessJavaOpts(sh, "module") ELSE sh
               /\ sh' = SelectArchive(s)
  BY Zenon DEF Assemble
<1>3. IsScript(s) /\ SameMarks(sh, s) /\ s.ruby_args = sh.ruby_args
  <2>1. IsScript(sh) /\ SameMarks(sh, sh)
    BY DEF WordsInv, SameMarks
  <2> QED
    BY <1>2, <2>1, FileIs, Zenon
<1>4. /\ IsScript(sh')
      /\ sh'.print_environment_log = sh.print_environment_log
      /\ sh'.remove_jsa_files <=> (sh.remove_jsa_files /\ env.writable)
      /\ \/ sh'.ruby_args = sh.ruby_args
         \/ sh.ruby_args = <<>> /\ sh'.ruby_args = NoOp /\ sh.regenerate_jsa_file
  BY <1>2, <1>3, ArchiveIs, Zenon DEF WordsInv, SameMarks
<1>5. \/ (sh'.print_environment_log \/ sh'.remove_jsa_files) /\ shPc' = "exited"
      \/ ~(sh'.print_environment_log \/ sh'.remove_jsa_files) /\ shPc' = "exec"
  BY Zenon DEF Assemble, ShExit
<1>6. (sh'.print_environment_log \/ sh'.remove_jsa_files) <=> Asked
  BY <1>1, <1>4 DEF WordsInv, MarksAsked, Asked
<1>7. Asked' <=> Asked
  BY <1>1, EnvStays
<1>8. sh.regenerate_jsa_file <=> Asks("--cache")
  BY <1>1 DEF WordsInv, MarksAsked
<1> QED
  BY <1>1, <1>4, <1>5, <1>6, <1>7, <1>8 DEF WordsInv

-----------------------------------------------------------------------------
(* The launch. *)

\* What became of the process is what became of the script.
EndInv ==
    /\ WordsInv
    /\ pc = "java" => shPc = "exec"
    /\ pc = "exited" /\ status = 0 => Asked \/ ScriptState = "partial"

LEMMA EndInit == Init => EndInv
<1> SUFFICES ASSUME Init PROVE EndInv
  OBVIOUS
<1>1. env \in ShEnvironments
  BY ShAssumption DEF Init, ShInit
<1>2. rest \in Seq(ShWords)
  BY DEF Init, ShInit
<1>3. shPc = "java" /\ sh = NewScript /\ pc = "self"
  BY DEF Init, ShInit, LauncherInit
<1> QED
  BY <1>1, <1>2, <1>3, NewScriptIs DEF EndInv, WordsInv

LEMMA WordsStay ==
    ASSUME WordsInv, UNCHANGED shVars
    PROVE  WordsInv'
<1>1. UNCHANGED <<shPc, env, rest, sh, shStatus>>
  BY DEF shVars
<1>2. /\ AllWords' = AllWords /\ IsValue' = IsValue /\ (Asked' <=> Asked)
      /\ \A opt : Asks(opt)' <=> Asks(opt)
      /\ \A k, opt : Reported(k, opt)' <=> Reported(k, opt)
  BY <1>1, EnvStays
<1>3. \A k : MarksRead(sh, k) => MarksRead(sh, k)'
  BY <1>1, <1>2 DEF MarksRead
<1>4. \A k : ReadTo(k) => ReadTo(k)'
  BY <1>1, <1>2, <1>3 DEF ReadTo
<1>5. MarksAsked(sh) => MarksAsked(sh)'
  BY <1>1, <1>2 DEF MarksAsked
<1>6. NoMarks(sh)' <=> NoMarks(sh)
  BY <1>1 DEF NoMarks
<1>7. IsScript(sh)' <=> IsScript(sh)
  BY <1>1 DEF IsScript
<1> QED
  BY <1>1, <1>2, <1>4, <1>5, <1>6, <1>7 DEF WordsInv

LEMMA EndStep == EndInv /\ [Next]_vars => EndInv'
<1> SUFFICES ASSUME EndInv, [Next]_vars PROVE EndInv'
  OBVIOUS
<1>1. CASE LauncherStep \/ OthersStep
  <2>1. WordsInv'
    BY <1>1, WordsStay DEF LauncherStep, OthersStep, EndInv
  <2>2. pc' \notin {"java", "exited"}
    BY <1>1 DEF LauncherStep, LauncherNext, NoExecutable, SelfIsPath, SelfIsName,
        FindScriptDir, ExecScript, LauncherExit, OthersStep, OthersNext, Launching,
        DeleteScript, RemoveLauncher, InstallBegins, InstallBackup, InstallWrites, InstallDies
  <2> QED
    BY <2>1, <2>2 DEF EndInv
<1>2. CASE ScriptStep
  <2>1. WordsInv'
    BY <1>2, FindJavaStep, CheckVersionStep, ReadEnvironmentStep, OptionSwitchStep,
       OptionForRubyStep, OptionClassPathStep, OptionExitsStep, OptionsEndStep, RefuseStep,
       AssembleStep
       DEF ScriptStep, ShNext, EndInv
  <2> QED
    BY <1>2, <2>1 DEF ScriptStep, EndInv
<1>3. CASE ScriptExits
  <2>1. WordsInv' /\ (Asked' <=> Asked)
    BY <1>3, WordsStay, EnvStays DEF ScriptExits, EndInv, shVars
  <2>2. pc' = "exited" /\ shPc = "exited" /\ status' = shStatus
    BY <1>3 DEF ScriptExits
  <2> QED
    BY <2>1, <2>2 DEF EndInv, WordsInv
<1>4. CASE ScriptExecs
  <2>1. WordsInv'
    BY <1>4, WordsStay DEF ScriptExecs, EndInv
  <2> QED
    BY <1>4, <2>1 DEF ScriptExecs, EndInv, shVars
<1>5. CASE HalfScriptEnds
  <2>1. WordsInv' /\ pc' = "exited"
    BY <1>5, WordsStay DEF HalfScriptEnds, EndInv
  <2>2. ScriptState' = ScriptState /\ ScriptState = "partial"
    BY <1>5 DEF HalfScriptEnds, ScriptState, ScriptName, launcherVars, fileVars
  <2> QED
    BY <2>1, <2>2 DEF EndInv
<1>6. CASE Ended \/ UNCHANGED vars
  <2>1. UNCHANGED <<shVars, pc, status, files, script_dir, tried>>
    BY <1>6 DEF Ended, vars, launcherVars, fileVars
  <2>2. WordsInv' /\ (Asked' <=> Asked)
    BY <2>1, WordsStay, EnvStays DEF EndInv, shVars
  <2>3. ScriptState' = ScriptState
    BY <2>1 DEF ScriptState, ScriptName
  <2> QED
    BY <2>1, <2>2, <2>3 DEF EndInv, shVars
<1> QED
  BY <1>1, <1>2, <1>3, <1>4, <1>5, <1>6 DEF Next

\* SucceedsOnlyByRunning: status 0 without java is what -J, -J-X, --environment or
\* --rmcache asked for, or comes of a script that was only half there; and where one of
\* them is asked for java does not run, whatever the words are.
THEOREM SuccessMeansRun == Spec => []SucceedsOnlyByRunning
<1>1. EndInv => SucceedsOnlyByRunning
  BY DEF EndInv, WordsInv, SucceedsOnlyByRunning, Asked
<1> QED
  BY <1>1, EndInit, EndStep, PTL DEF Spec

-----------------------------------------------------------------------------
(* Ruby's words. *)

Alphabet == ShWords \cup { ShWord("ruby", <<"-X+C">>) }

RubyWords  == [n \in DOMAIN AllWords |-> ForRuby(n)]
RubyPlaces == {n \in DOMAIN AllWords : GoesToRuby(n)}
RubyGiven  == Selected(RubyWords, RubyPlaces)

\* What the first k words have for Ruby.
RubyUpTo(k) == Selecting(RubyWords, RubyPlaces)[k]

\* The script has kept for Ruby what the words it has read have for it.
RubyInv ==
    /\ shPc \in {"java", "version", "environment"} => sh.ruby_args = <<>>
    /\ shPc = "options" => sh.ruby_args = RubyUpTo(Len(AllWords) - Len(rest))
    /\ shPc = "command" => sh.ruby_args = Selected(RubyWords, RubyPlaces)
    /\ RubyArgsIntact

LEMMA RubyStays ==
    ASSUME UNCHANGED env
    PROVE  /\ RubyWords' = RubyWords /\ RubyPlaces' = RubyPlaces /\ RubyGiven' = RubyGiven
           /\ \A k : RubyUpTo(k)' = RubyUpTo(k)
<1>1. AllWords' = AllWords /\ IsValue' = IsValue
  BY EnvStays
<1>2. ShScriptAt' = ShScriptAt
  BY <1>1, Zenon DEF ShScriptAt
<1>3. \A n : (IsOption(n)' <=> IsOption(n)) /\ (GoesToRuby(n)' <=> GoesToRuby(n))
  BY <1>1, <1>2 DEF IsOption, GoesToRuby
<1>4. \A n : ForRuby(n)' = ForRuby(n)
  BY <1>1, <1>3 DEF ForRuby
<1>5. RubyWords' = RubyWords /\ RubyPlaces' = RubyPlaces
  BY <1>1, <1>3, <1>4, Zenon DEF RubyWords, RubyPlaces
<1> QED
  BY <1>5 DEF RubyUpTo, RubyGiven

LEMMA IntactStays ==
    ASSUME UNCHANGED <<env, command>>, RubyArgsIntact
    PROVE  RubyArgsIntact'
<1>1. RubyGiven' = RubyGiven /\ (Asks("--cache")' <=> Asks("--cache")) /\ UNCHANGED command
  BY RubyStays, EnvStays
<1>2. RubyArgsIntact <=>
        (HasCommand => \/ command.ruby = RubyGiven
                       \/ RubyGiven = <<>> /\ command.ruby = NoOp /\ Asks("--cache"))
  BY Zenon DEF RubyArgsIntact, RubyGiven, RubyWords, RubyPlaces
<1>3. RubyArgsIntact' <=>
        (HasCommand' => \/ command'.ruby = RubyGiven'
                        \/ RubyGiven' = <<>> /\ command'.ruby = NoOp /\ Asks("--cache")')
  BY Zenon DEF RubyArgsIntact, RubyGiven, RubyWords, RubyPlaces
<1> QED
  BY <1>1, <1>2, <1>3 DEF HasCommand

\* As long as no script was among the words, all are before it.
LEMMA BeforeScript ==
    ASSUME env \in ShEnvironments, NEW m \in 0 .. Len(AllWords),
           \A n \in 1 .. m : ~IsValue[n] => AllWords[n].opt \notin NotOptions
    PROVE  /\ ShScriptAt \in Nat /\ m < ShScriptAt
           /\ \A n \in 1 .. m : IsOption(n) <=> ~IsValue[n]
           /\ m < Len(AllWords) /\ AllWords[m + 1].opt \in NotOptions /\ ~IsValue[m + 1]
                => ShScriptAt = m + 1
           /\ m = Len(AllWords) => ShScriptAt = m + 1
<1> DEFINE at == {n \in DOMAIN AllWords : AllWords[n].opt \in NotOptions /\ ~IsValue[n]}
<1>1. AllWords \in Seq(ShWords) /\ Len(AllWords) \in Nat
  BY WordsAre
<1>2. DOMAIN AllWords = 1 .. Len(AllWords) /\ m \in Nat /\ m <= Len(AllWords)
  BY <1>1
<1>3. \A n \in at : n \in Nat /\ n <= Len(AllWords) /\ m < n
  BY <1>2
<1>4. at # {} => Min(at) \in at /\ \A n \in at : Min(at) =< n
  BY <1>3, LeastElement
<1>5. ShScriptAt = IF at = {} THEN Len(AllWords) + 1 ELSE Min(at)
  BY DEF ShScriptAt
<1>6. m < Len(AllWords) /\ AllWords[m + 1].opt \in NotOptions /\ ~IsValue[m + 1]
        => m + 1 \in at
  BY <1>2
<1> HIDE DEF at
<1>7. ShScriptAt \in Nat /\ m < ShScriptAt
  BY <1>1, <1>2, <1>3, <1>4, <1>5
<1>8. m + 1 \in at => ShScriptAt = m + 1
  <2> SUFFICES ASSUME m + 1 \in at PROVE ShScriptAt = m + 1
    OBVIOUS
  <2>1. Min(at) \in Nat /\ Min(at) =< m + 1 /\ m < Min(at) /\ ShScriptAt = Min(at)
    BY <1>3, <1>4, <1>5
  <2> QED
    BY <1>2, <2>1
<1>9. m = Len(AllWords) => at = {}
  BY <1>1, <1>3
<1>10. \A n \in 1 .. m : n < ShScriptAt
  BY <1>2, <1>7
<1> QED
  BY <1>5, <1>6, <1>7, <1>8, <1>9, <1>10 DEF IsOption

\* The words for Ruby, one by one.
LEMMA RubyIs ==
    ASSUME env \in ShEnvironments
    PROVE  /\ RubyWords \in Seq(Alphabet) /\ Len(RubyWords) = Len(AllWords)
           /\ RubyUpTo(0) = <<>>
           /\ \A k \in 0 .. Len(AllWords) : RubyUpTo(k) \in Seq(Alphabet)
           /\ \A n \in 1 .. Len(AllWords) :
                RubyUpTo(n) = IF GoesToRuby(n) THEN Append(RubyUpTo(n - 1), ForRuby(n))
                              ELSE RubyUpTo(n - 1)
<1>1. /\ AllWords \in Seq(ShWords) /\ Len(AllWords) \in Nat
      /\ \A n \in 1 .. Len(AllWords) : AllWords[n] \in ShWords
  BY WordsAre
<1>3. \A n \in 1 .. Len(AllWords) : ForRuby(n) \in Alphabet
  BY <1>1 DEF ForRuby, Alphabet
<1>4. DOMAIN AllWords = 1 .. Len(AllWords)
  BY <1>1
<1>5. /\ RubyWords \in Seq(Alphabet) /\ Len(RubyWords) = Len(AllWords)
      /\ \A n \in 1 .. Len(AllWords) : RubyWords[n] = ForRuby(n)
  <2> DEFINE S == Alphabet
  <2> HIDE DEF S
  <2>1. \A n \in 1 .. Len(AllWords) : ForRuby(n) \in S
    BY <1>3 DEF S
  <2>2. RubyWords = [n \in 1 .. Len(AllWords) |-> ForRuby(n)]
    BY <1>4 DEF RubyWords
  <2>3. RubyWords \in [1 .. Len(AllWords) -> S] /\ \A n \in 1 .. Len(AllWords) : RubyWords[n] = ForRuby(n)
    BY <2>1, <2>2
  <2>4. RubyWords \in Seq(S) /\ Len(RubyWords) = Len(AllWords)
    BY <1>1, <2>3
  <2> QED
    BY <2>3, <2>4 DEF S
<1>6. \A n \in 1 .. Len(AllWords) : n \in RubyPlaces <=> GoesToRuby(n)
  BY <1>4 DEF RubyPlaces
<1>7. PICK f : /\ f = Selecting(RubyWords, RubyPlaces)
               /\ f \in [0 .. Len(RubyWords) -> Seq(Alphabet)]
               /\ f[0] = <<>>
               /\ \A n \in 1 .. Len(RubyWords) :
                    f[n] = IF n \in RubyPlaces THEN Append(f[n - 1], RubyWords[n])
                           ELSE f[n - 1]
  BY <1>5, SelectingIs
<1>8. \A k : RubyUpTo(k) = f[k]
  BY <1>7 DEF RubyUpTo
<1> QED
  BY <1>5, <1>6, <1>7, <1>8, Zenon

LEMMA RubyOneWord ==
    ASSUME WordsInv, RubyInv, OptionSwitch, WordsInv'
    PROVE  RubyInv'
<1>1. /\ shPc = "options" /\ rest # <<>> /\ IsSwitch(Head(rest))
      /\ UNCHANGED <<shPc, env, command>>
      /\ sh' = ReadSwitch(sh, Head(rest)) /\ rest' = Tail(rest)
  BY DEF OptionSwitch
<1>2. PICK k : ReadTo(k)
  BY <1>1 DEF WordsInv
<1>3. env \in ShEnvironments /\ Len(AllWords) \in Nat /\ rest \in Seq(ShWords)
  BY WordsAre DEF WordsInv
<1>4. k < Len(AllWords) /\ Head(rest) = AllWords[k + 1]
  BY <1>1, <1>2, HeadIsNext
<1>5. k \in Nat /\ k + 1 \in 1 .. Len(AllWords) /\ Len(rest) = Len(AllWords) - k
  BY <1>2, <1>3, <1>4 DEF ReadTo
<1>6. /\ AllWords[k + 1].opt \notin NotOptions \cup TakesValue
      /\ ~IsValue[k + 1]
  BY <1>1, <1>2, <1>4 DEF IsSwitch, ReadTo
<1>7. \A n \in 1 .. k + 1 : ~IsValue[n] => AllWords[n].opt \notin NotOptions
  <2>1. \A n \in 1 .. k + 1 : n \in 1 .. k \/ n = k + 1
    BY <1>5
  <2> QED
    BY <1>2, <1>6, <2>1 DEF ReadTo
<1>8. k + 1 < ShScriptAt /\ ShScriptAt \in Nat /\ IsOption(k + 1)
  <2>1. k + 1 \in 0 .. Len(AllWords) /\ k + 1 \in 1 .. k + 1
    BY <1>5
  <2> QED
    BY <1>3, <1>6, <1>7, <2>1, BeforeScript
<1>9. GoesToRuby(k + 1) <=> AllWords[k + 1].opt \in {"ruby", "--jdb"}
  BY <1>5, <1>6, <1>8 DEF GoesToRuby
<1>10. ForRuby(k + 1) = IF AllWords[k + 1].opt = "--jdb" THEN ShWord("ruby", <<"-X+C">>)
                        ELSE AllWords[k + 1]
  BY <1>8 DEF ForRuby
<1>11. sh.ruby_args = RubyUpTo(k)
  <2>1. Len(AllWords) - Len(rest) = k
    BY <1>3, <1>5
  <2> QED
    BY <1>1, <2>1 DEF RubyInv
<1>12. AllWords[k + 1] \in ShWords
  BY <1>3, <1>5, WordsAre
<1>13. sh'.ruby_args =
          CASE AllWords[k + 1].opt = "ruby"  -> Append(sh.ruby_args, AllWords[k + 1])
            [] AllWords[k + 1].opt = "--jdb" -> Append(sh.ruby_args, ShWord("ruby", <<"-X+C">>))
            [] OTHER                         -> sh.ruby_args
  <2>1. IsScript(sh) /\ sh' = ReadSwitch(sh, AllWords[k + 1])
    BY <1>1, <1>4 DEF WordsInv
  <2> QED
    BY <1>12, <2>1, SwitchIs, Zenon
<1>14. (k + 1) - 1 = k
  BY <1>5
<1>15. RubyUpTo(k + 1) = IF GoesToRuby(k + 1) THEN Append(RubyUpTo(k), ForRuby(k + 1))
                         ELSE RubyUpTo(k)
  BY <1>3, <1>5, <1>14, RubyIs
<1>16. sh'.ruby_args = RubyUpTo(k + 1)
  <2>1. CASE AllWords[k + 1].opt = "ruby"
    BY <1>9, <1>10, <1>11, <1>13, <1>15, <2>1
  <2>2. CASE AllWords[k + 1].opt = "--jdb"
    BY <1>9, <1>10, <1>11, <1>13, <1>15, <2>2
  <2>3. CASE AllWords[k + 1].opt \notin {"ruby", "--jdb"}
    BY <1>9, <1>11, <1>13, <1>15, <2>3
  <2> QED
    BY <2>1, <2>2, <2>3
<1>17. Len(rest') = Len(rest) - 1
  <2> DEFINE S == ShWords
  <2> HIDE DEF S
  <2>1. rest \in Seq(S)
    BY <1>3 DEF S
  <2> QED
    BY <1>1, <2>1
<1>18. Len(AllWords) - Len(rest') = k + 1
  BY <1>3, <1>5, <1>17
<1>19. AllWords' = AllWords /\ \A n : RubyUpTo(n)' = RubyUpTo(n)
  BY <1>1, EnvStays, RubyStays
<1>20. RubyArgsIntact'
  BY <1>1, IntactStays DEF RubyInv
<1> QED
  BY <1>1, <1>16, <1>18, <1>19, <1>20 DEF RubyInv

\* A switch and its value, or -J-cp and a path.
LEMMA RubyTwoWords ==
    ASSUME WordsInv, RubyInv, shPc = "options", shPc' = "options", UNCHANGED <<env, command>>,
           Len(rest) > 1, Head(rest).opt \in TakesValue \cup {"-J-cp"},
           Len(rest') = Len(rest) - 2,
           sh'.ruby_args = IF Head(rest).opt \in TakesValue
                           THEN sh.ruby_args \o SubSeq(rest, 1, 2) ELSE sh.ruby_args
    PROVE  RubyInv'
<1>1. PICK k : ReadTo(k)
  BY DEF WordsInv
<1>2. env \in ShEnvironments /\ Len(AllWords) \in Nat /\ rest \in Seq(ShWords)
  BY WordsAre DEF WordsInv
<1>3. PICK a, b : a = rest[1] /\ b = rest[2]
  OBVIOUS
<1>4. /\ k \in Nat /\ k + 1 \in 1 .. Len(AllWords) /\ k + 2 \in 1 .. Len(AllWords)
      /\ Len(rest) = Len(AllWords) - k /\ ~IsValue[k + 1]
      /\ a = AllWords[k + 1] /\ b = AllWords[k + 2]
  BY <1>1, <1>2, <1>3 DEF ReadTo
<1>5. /\ Head(rest) = a /\ SubSeq(rest, 1, 2) = << a, b >>
      /\ a \in ShWords /\ b \in ShWords
  <2> DEFINE S == ShWords
  <2> HIDE DEF S
  <2>1. rest \in Seq(S) /\ Len(rest) \in Nat
    BY <1>2 DEF S
  <2>2. Head(rest) = a /\ a \in S /\ b \in S
    BY <1>3, <2>1
  <2>3. SubSeq(rest, 1, 2) = << a, b >>
    <3>1. PICK q : q = SubSeq(rest, 1, 2)
      OBVIOUS
    <3>2. q \in Seq(S) /\ Len(q) = 2 /\ q[1] = a /\ q[2] = b
      BY <1>3, <2>1, <3>1
    <3>3. q = << a, b >>
      BY <3>2
    <3> QED
      BY <3>1, <3>3
  <2> QED
    BY <2>2, <2>3 DEF S
<1>6. a.opt \in TakesValue \cup {"-J-cp"} /\ a.opt \notin NotOptions /\ a.opt \notin {"ruby", "--jdb"}
  BY <1>5 DEF TakesValue, NotOptions
<1>7. IsValue[k + 2]
  <2>1. (k + 2) - 1 = k + 1 /\ k + 2 \in 0 .. Len(AllWords) /\ k + 2 > 1
    BY <1>2, <1>4
  <2>2. Takes(k + 1)
    BY <1>4, <1>6 DEF Takes
  <2> QED
    BY <1>2, <1>4, <2>1, <2>2, IsValueIs
<1>8. \A n \in 1 .. k + 2 : ~IsValue[n] => AllWords[n].opt \notin NotOptions
  <2>1. \A n \in 1 .. k + 2 : n \in 1 .. k \/ n = k + 1 \/ n = k + 2
    BY <1>4
  <2> QED
    BY <1>1, <1>4, <1>6, <1>7, <2>1 DEF ReadTo
<1>9. ShScriptAt \in Nat /\ k + 2 < ShScriptAt /\ IsOption(k + 1) /\ ~IsOption(k + 2)
  <2>1. k + 2 \in 0 .. Len(AllWords) /\ k + 1 \in 1 .. k + 2 /\ k + 2 \in 1 .. k + 2
    BY <1>4
  <2> QED
    BY <1>2, <1>4, <1>7, <1>8, <2>1, BeforeScript
<1>10. /\ GoesToRuby(k + 1) <=> a.opt \in TakesValue
       /\ GoesToRuby(k + 2) <=> a.opt \in TakesValue
  <2>1. (k + 2) - 1 = k + 1 /\ ~(k + 1 >= ShScriptAt) /\ ~(k + 2 >= ShScriptAt)
    BY <1>4, <1>9
  <2> QED
    BY <1>4, <1>6, <1>7, <1>9, <2>1 DEF GoesToRuby
<1>11. ForRuby(k + 1) = a /\ ForRuby(k + 2) = b
  BY <1>4, <1>6, <1>9 DEF ForRuby
<1>12. PICK x : x = RubyUpTo(k) /\ x \in Seq(Alphabet) /\ sh.ruby_args = x
  <2>1. Len(AllWords) - Len(rest) = k /\ k \in 0 .. Len(AllWords)
    BY <1>2, <1>4
  <2> QED
    BY <1>2, <2>1, RubyIs DEF RubyInv
<1>13. (k + 1) - 1 = k /\ (k + 2) - 1 = k + 1
  BY <1>4
<1>14. /\ RubyUpTo(k + 1) = IF a.opt \in TakesValue THEN Append(x, a) ELSE x
       /\ RubyUpTo(k + 2) = IF a.opt \in TakesValue THEN Append(RubyUpTo(k + 1), b)
                            ELSE RubyUpTo(k + 1)
  BY <1>2, <1>4, <1>10, <1>11, <1>12, <1>13, RubyIs
<1>15. x \o << a, b >> = Append(Append(x, a), b)
  <2>1. a \in Alphabet /\ b \in Alphabet
    BY <1>5 DEF Alphabet
  <2> DEFINE S == Alphabet
  <2> HIDE DEF S
  <2>2. a \in S /\ b \in S /\ x \in Seq(S)
    BY <1>12, <2>1 DEF S
  <2> QED
    BY <2>2
<1>16. sh'.ruby_args = RubyUpTo(k + 2)
  BY <1>5, <1>12, <1>14, <1>15, Zenon
<1>17. Len(AllWords) - Len(rest') = k + 2
  BY <1>2, <1>4
<1>18. AllWords' = AllWords /\ \A n : RubyUpTo(n)' = RubyUpTo(n)
  BY EnvStays, RubyStays
<1>19. RubyArgsIntact'
  BY IntactStays DEF RubyInv
<1> QED
  BY <1>16, <1>17, <1>18, <1>19 DEF RubyInv

\* At the end of the loop all that is left is Ruby's.
LEMMA RubyEnd ==
    ASSUME WordsInv, RubyInv, OptionsEnd
    PROVE  RubyInv'
<1>1. /\ shPc = "options" /\ shPc' = "command" /\ UNCHANGED <<env, command>>
      /\ rest # <<>> => Head(rest).opt \in NotOptions
  BY DEF OptionsEnd
<1>2. PICK k : ReadTo(k)
  BY <1>1 DEF WordsInv
<1>3. /\ env \in ShEnvironments /\ AllWords \in Seq(ShWords)
      /\ Len(AllWords) \in Nat /\ rest \in Seq(ShWords)
  BY WordsAre DEF WordsInv
<1>4. k \in 0 .. Len(AllWords) /\ Len(rest) = Len(AllWords) - k
  BY <1>2 DEF ReadTo
<1>5. sh.ruby_args = RubyUpTo(k)
  <2>1. Len(AllWords) - Len(rest) = k
    BY <1>3, <1>4
  <2> QED
    BY <1>1, <2>1 DEF RubyInv
<1>6. sh'.ruby_args = sh.ruby_args \o rest
  <2>1. PICK java : sh' = [sh EXCEPT !.ruby_args = @ \o rest, !.java_args = java]
    BY Zenon DEF OptionsEnd
  <2> QED
    BY <2>1, Zenon DEF WordsInv, IsScript
<1>7. ShScriptAt = k + 1
  <2>1. k < Len(AllWords) => AllWords[k + 1].opt \in NotOptions /\ ~IsValue[k + 1]
    BY <1>1, <1>2, <1>3, HeadIsNext DEF ReadTo
  <2>2. \A n \in 1 .. k : ~IsValue[n] => AllWords[n].opt \notin NotOptions
    BY <1>2 DEF ReadTo
  <2>3. k < Len(AllWords) \/ k = Len(AllWords)
    BY <1>3, <1>4
  <2> QED
    BY <1>3, <1>4, <2>1, <2>2, <2>3, BeforeScript
<1>8. \A n \in k + 1 .. Len(AllWords) : n \in RubyPlaces /\ RubyWords[n] = AllWords[n]
  <2> SUFFICES ASSUME NEW n \in k + 1 .. Len(AllWords)
               PROVE  n \in RubyPlaces /\ RubyWords[n] = AllWords[n]
    OBVIOUS
  <2>1. n \in DOMAIN AllWords /\ n >= ShScriptAt /\ ~(n < ShScriptAt)
    BY <1>3, <1>4, <1>7
  <2> QED
    BY <2>1 DEF RubyPlaces, RubyWords, GoesToRuby, ForRuby, IsOption
<1>9. RubyWords \in Seq(Alphabet) /\ Len(RubyWords) = Len(AllWords)
  BY <1>3, RubyIs
<1>10. \A i \in 1 .. Len(rest) : rest[i] = RubyWords[k + i]
  <2> SUFFICES ASSUME NEW i \in 1 .. Len(rest) PROVE rest[i] = RubyWords[k + i]
    OBVIOUS
  <2>1. k + i \in k + 1 .. Len(AllWords)
    BY <1>3, <1>4
  <2> QED
    BY <1>2, <1>8, <2>1 DEF ReadTo
<1>11. Selected(RubyWords, RubyPlaces) = Selecting(RubyWords, RubyPlaces)[k] \o rest
  <2>0. rest \in Seq(Alphabet)
    <3>1. Seq(ShWords) \subseteq Seq(Alphabet)
      BY WiderSeq DEF Alphabet
    <3> QED
      BY <1>3, <3>1
  <2>1. PICK S, words, places, left :
            S = Alphabet /\ words = RubyWords /\ places = RubyPlaces /\ left = rest
    OBVIOUS
  <2>2. words \in Seq(S) /\ left \in Seq(S) /\ k \in 0 .. Len(words)
    BY <1>3, <1>4, <1>9, <2>0, <2>1
  <2>3. \A n \in k + 1 .. Len(words) : n \in places
    BY <1>8, <1>9, <2>1
  <2>4. IsRest(left, words, k)
    BY <1>4, <1>9, <1>10, <2>1 DEF IsRest
  <2>5. Selected(words, places) = Selecting(words, places)[k] \o left
    BY <2>2, <2>3, <2>4, SelectedRest
  <2> QED
    BY <2>1, <2>5
<1>12. sh'.ruby_args = Selected(RubyWords, RubyPlaces)
  BY <1>5, <1>6, <1>11 DEF RubyUpTo
<1>13. RubyWords' = RubyWords /\ RubyPlaces' = RubyPlaces
  BY <1>1, RubyStays
<1>14. RubyArgsIntact'
  BY <1>1, IntactStays DEF RubyInv
<1> QED
  BY <1>1, <1>12, <1>13, <1>14 DEF RubyInv

LEMMA RubyAssembled ==
    ASSUME WordsInv, RubyInv, Assemble
    PROVE  RubyInv'
<1>1. shPc = "command" /\ UNCHANGED env
  BY DEF Assemble
<1>2. RubyGiven' = RubyGiven /\ (Asks("--cache")' <=> Asks("--cache"))
  BY <1>1, RubyStays, EnvStays
<1>3. sh.ruby_args = RubyGiven
  BY <1>1 DEF RubyInv, RubyGiven
<1>4. \/ sh'.ruby_args = sh.ruby_args
      \/ sh.ruby_args = <<>> /\ sh'.ruby_args = NoOp /\ Asks("--cache")
  BY AssembleStep
<1>5. shPc' \in {"exited", "exec"} /\ (UNCHANGED command \/ command'.ruby = sh'.ruby_args)
  <2>1. PICK s, jvm :
          /\ sh' = s
          /\ IF s.print_environment_log \/ s.remove_jsa_files
             THEN ShExit(0) /\ UNCHANGED command
             ELSE /\ command' = [exe  |-> <<s.JAVACMD, IF s.jdb THEN "jdb" ELSE "java">>,
                                 jvm  |-> jvm, main |-> s.java_class, ruby |-> s.ruby_args]
                  /\ shPc' = "exec"
                  /\ UNCHANGED shStatus
    BY Zenon DEF Assemble
  <2>2. CASE sh'.print_environment_log \/ sh'.remove_jsa_files
    BY <2>1, <2>2 DEF ShExit
  <2>3. CASE ~(sh'.print_environment_log \/ sh'.remove_jsa_files)
    BY <2>1, <2>3
  <2> QED
    BY <2>2, <2>3
<1>6. CASE UNCHANGED command
  BY <1>1, <1>5, <1>6, IntactStays DEF RubyInv
<1>7. CASE command'.ruby = sh'.ruby_args
  <2>1. RubyArgsIntact'
    <3>1. \/ command'.ruby = RubyGiven'
          \/ RubyGiven' = <<>> /\ command'.ruby = NoOp /\ Asks("--cache")'
      BY <1>2, <1>3, <1>4, <1>7
    <3> QED
      BY <3>1, Zenon DEF RubyArgsIntact, RubyGiven, RubyWords, RubyPlaces
  <2> QED
    BY <1>5, <2>1 DEF RubyInv
<1> QED
  BY <1>5, <1>6, <1>7

LEMMA RubyStep == EndInv /\ RubyInv /\ [Next]_vars => RubyInv'
<1> SUFFICES ASSUME EndInv, RubyInv, [Next]_vars PROVE RubyInv'
  OBVIOUS
<1> USE DEF EndInv
<1>1. WordsInv'
  BY EndStep
<1>2. ASSUME UNCHANGED <<shPc, env, rest, sh, command>> PROVE RubyInv'
  <2>1. AllWords' = AllWords /\ RubyWords' = RubyWords /\ RubyPlaces' = RubyPlaces
    BY <1>2, EnvStays, RubyStays
  <2>2. RubyArgsIntact'
    BY <1>2, IntactStays DEF RubyInv
  <2> QED
    BY <1>2, <2>1, <2>2 DEF RubyInv, RubyUpTo
<1>3. ASSUME UNCHANGED <<env, command>>, shPc' \notin {"options", "command"},
             shPc' \in {"java", "version", "environment"} => sh'.ruby_args = <<>>
      PROVE  RubyInv'
  <2>1. RubyArgsIntact'
    BY <1>3, IntactStays DEF RubyInv
  <2> QED
    BY <1>3, <2>1 DEF RubyInv
<1>4. CASE FindJava
  <2>1. shPc = "java" /\ sh.ruby_args = <<>> /\ UNCHANGED <<env, command>>
    BY <1>4 DEF FindJava, RubyInv
  <2>2. shPc' \in {"exited", "version"}
    BY <1>4 DEF FindJava, ShExit
  <2>3. sh'.ruby_args = sh.ruby_args
    BY <1>4, FindJavaStep
  <2> QED
    BY <1>3, <2>1, <2>2, <2>3
<1>5. CASE CheckVersion
  <2>1. shPc = "version" /\ sh.ruby_args = <<>> /\ UNCHANGED <<env, sh, command>>
    BY <1>5 DEF CheckVersion, RubyInv
  <2>2. shPc' \in {"exited", "environment"}
    BY <1>5 DEF CheckVersion, ShExit
  <2> QED
    BY <1>3, <2>1, <2>2
<1>6. CASE ReadEnvironment
  <2>1. /\ shPc = "environment" /\ shPc' = "options" /\ UNCHANGED <<env, command>>
        /\ rest' = AllWords /\ sh.ruby_args = <<>>
    BY <1>6 DEF ReadEnvironment, AllWords, RubyInv
  <2>2. sh'.ruby_args = <<>>
    BY <1>6, <2>1, ReadEnvironmentStep
  <2>3. Len(AllWords) \in Nat /\ RubyUpTo(0) = <<>>
    BY WordsAre, RubyIs DEF WordsInv
  <2>4. Len(AllWords) - Len(AllWords) = 0
    BY <2>3
  <2>5. /\ AllWords' = AllWords /\ RubyWords' = RubyWords /\ RubyPlaces' = RubyPlaces
        /\ \A k : RubyUpTo(k)' = RubyUpTo(k)
    BY <2>1, EnvStays, RubyStays
  <2>6. RubyArgsIntact'
    BY <2>1, IntactStays DEF RubyInv
  <2> QED
    BY <2>1, <2>2, <2>3, <2>4, <2>5, <2>6 DEF RubyInv
<1>7. CASE OptionSwitch
  BY <1>1, <1>7, RubyOneWord
<1>8. CASE OptionForRuby
  <2>1. /\ shPc = "options" /\ Head(rest).opt \in TakesValue /\ UNCHANGED <<env, command>>
        /\ shPc' \in {"options", "exited"}
    BY <1>8 DEF OptionForRuby, ShExit
  <2> QED
    BY <1>3, <1>8, <2>1, OptionForRubyStep, RubyTwoWords
<1>9. CASE OptionClassPath
  <2>1. /\ shPc = "options" /\ Head(rest).opt = "-J-cp" /\ UNCHANGED <<env, command>>
        /\ shPc' \in {"options", "exited"}
    BY <1>9 DEF OptionClassPath, ShExit
  <2>2. Head(rest).opt \notin TakesValue
    BY <2>1 DEF TakesValue
  <2> QED
    BY <1>3, <1>9, <2>1, <2>2, OptionClassPathStep, RubyTwoWords
<1>10. CASE OptionExits
  BY <1>3, <1>10 DEF OptionExits, ShExit
<1>11. CASE OptionsEnd
  BY <1>11, RubyEnd
<1>12. CASE Assemble
  BY <1>12, RubyAssembled
<1>13. CASE UNCHANGED shVars
  BY <1>2, <1>13 DEF shVars
<1>14. CASE RefuseArchive
  BY <1>3, <1>14 DEF RefuseArchive, ShExit
<1> QED
  BY <1>4, <1>5, <1>6, <1>7, <1>8, <1>9, <1>10, <1>11, <1>12, <1>13, <1>14
     DEF Next, LauncherStep, OthersStep, ScriptStep, ShNext, ScriptExits, ScriptExecs,
         HalfScriptEnds, Ended, vars

LEMMA RubyInit == Init => RubyInv
<1> SUFFICES ASSUME Init PROVE RubyInv
  OBVIOUS
<1>1. shPc = "java" /\ sh = NewScript /\ command = NoCommand
  BY DEF Init, ShInit
<1>2. sh.ruby_args = <<>>
  BY <1>1, Zenon DEF NewScript
<1> QED
  BY <1>1, <1>2 DEF RubyInv, RubyArgsIntact, HasCommand

\* RubyArgsIntact: Ruby gets the words that are its own, in their order, whatever the
\* values of its switches look like, and the script with all that follows it; and where
\* there are none it gets nothing, or with --cache the script that does nothing.
THEOREM RubyGetsItsWords == Spec => []RubyArgsIntact
<1>1. EndInv /\ RubyInv => RubyArgsIntact
  BY DEF RubyInv
<1> QED
  BY <1>1, EndInit, EndStep, RubyInit, RubyStep, PTL DEF Spec
-----------------------------------------------------------------------------
(* The words of the JVM. *)

JvmFields == {"JAVACMD", "major", "use_modules", "java_opts_from_files", "JAVA_OPTS",
              "JAVA_MEM", "JAVA_STACK", "JAVA_SECURITY_EGD", "java_args"}

\* The variables that become the words of the JVM are sequences.
IsJvm(s) ==
    /\ JvmFields \subseteq DOMAIN s
    /\ IsSeq(s.java_opts_from_files) /\ IsSeq(s.JAVA_OPTS)
    /\ IsSeq(s.JAVA_MEM) /\ IsSeq(s.JAVA_STACK)
    /\ IsSeq(s.JAVA_SECURITY_EGD) /\ IsSeq(s.java_args)

SameJava(s, t) == t.JAVACMD = s.JAVACMD /\ t.major = s.major /\ t.use_modules = s.use_modules

SameMemory(s, t) == t.JAVA_MEM = s.JAVA_MEM /\ t.JAVA_STACK = s.JAVA_STACK

\* What there is of the options of files.
FromFile(s, file) ==
    IF s.use_modules /\ env.files[file] # <<>> THEN << ShWord("@", <<file>>) >>
    ELSE env.files[file]

LEMMA FileJvm ==
    ASSUME NEW s, IsJvm(s), env \in ShEnvironments, NEW file \in OptionFiles
    PROVE  LET t == ProcessJavaOpts(s, file)
           IN  /\ IsJvm(t) /\ SameJava(s, t) /\ SameMemory(s, t)
               /\ t.JAVA_OPTS = s.JAVA_OPTS /\ t.java_args = s.java_args
               /\ t.java_opts_from_files = s.java_opts_from_files \o FromFile(s, file)
<1>1. PICK new : new = s.java_opts_from_files \o FromFile(s, file)
  OBVIOUS
<1>2. PICK t : t = [s EXCEPT !.java_opts_from_files = new]
  OBVIOUS
<1>3. ProcessJavaOpts(s, file) = t
  BY <1>1, <1>2 DEF ProcessJavaOpts, FromFile
<1>4. IsSeq(new)
  <2>1. IsSeq(env.files[file])
    BY DEF ShEnvironments, IsSeq
  <2>2. IsSeq(FromFile(s, file))
    BY <2>1, SingleWord DEF FromFile
  <2> QED
    BY <1>1, <2>2, Concatenation DEF IsJvm
<1>5. DOMAIN t = DOMAIN s /\ t.java_opts_from_files = new
  BY <1>2, Zenon DEF IsJvm, JvmFields
<1>6. /\ t.JAVACMD = s.JAVACMD /\ t.major = s.major /\ t.use_modules = s.use_modules
      /\ t.JAVA_OPTS = s.JAVA_OPTS /\ t.JAVA_MEM = s.JAVA_MEM /\ t.JAVA_STACK = s.JAVA_STACK
      /\ t.JAVA_SECURITY_EGD = s.JAVA_SECURITY_EGD /\ t.java_args = s.java_args
  BY <1>2 DEF IsJvm, JvmFields
<1>7. IsJvm(t)
  BY <1>4, <1>5, <1>6 DEF IsJvm
<1> QED
  BY <1>1, <1>3, <1>5, <1>6, <1>7 DEF SameJava, SameMemory

\* The options among some words.
OptsIn(ws, opts) == IsSeq(ws) /\ \A j \in 1 .. Len(ws) : ws[j].opt \in opts

LEMMA FewWords ==
    ASSUME NEW opts
    PROVE  /\ OptsIn(<<>>, opts)
           /\ \A a : a.opt \in opts => OptsIn(<<a>>, opts)
           /\ \A a, b : {a.opt, b.opt} \subseteq opts => OptsIn(<<a, b>>, opts)
           /\ \A a, b, c : {a.opt, b.opt, c.opt} \subseteq opts => OptsIn(<<a, b, c>>, opts)
           /\ \A a, b, c, d : {a.opt, b.opt, c.opt, d.opt} \subseteq opts
                                 => OptsIn(<<a, b, c, d>>, opts)
<1>1. OptsIn(<<>>, opts)
  <2>1. <<>> \in Seq({}) /\ 1 .. Len(<<>>) = {}
    OBVIOUS
  <2> QED
    BY <2>1 DEF OptsIn, IsSeq
<1>2. ASSUME NEW a, a.opt \in opts PROVE OptsIn(<<a>>, opts)
  <2>1. <<a>> \in Seq({a}) /\ \A j \in 1 .. Len(<<a>>) : <<a>>[j] \in {a}
    OBVIOUS
  <2> QED
    BY <1>2, <2>1 DEF OptsIn, IsSeq
<1>3. ASSUME NEW a, NEW b, {a.opt, b.opt} \subseteq opts PROVE OptsIn(<<a, b>>, opts)
  <2>1. <<a, b>> \in Seq({a, b}) /\ \A j \in 1 .. Len(<<a, b>>) : <<a, b>>[j] \in {a, b}
    OBVIOUS
  <2> QED
    BY <1>3, <2>1 DEF OptsIn, IsSeq
<1>4. ASSUME NEW a, NEW b, NEW c, {a.opt, b.opt, c.opt} \subseteq opts
      PROVE  OptsIn(<<a, b, c>>, opts)
  <2>1. /\ <<a, b, c>> \in Seq({a, b, c})
        /\ \A j \in 1 .. Len(<<a, b, c>>) : <<a, b, c>>[j] \in {a, b, c}
    OBVIOUS
  <2> QED
    BY <1>4, <2>1 DEF OptsIn, IsSeq
<1>5. ASSUME NEW a, NEW b, NEW c, NEW d, {a.opt, b.opt, c.opt, d.opt} \subseteq opts
      PROVE  OptsIn(<<a, b, c, d>>, opts)
  <2>1. /\ <<a, b, c, d>> \in Seq({a, b, c, d})
        /\ \A j \in 1 .. Len(<<a, b, c, d>>) : <<a, b, c, d>>[j] \in {a, b, c, d}
    OBVIOUS
  <2> QED
    BY <1>5, <2>1 DEF OptsIn, IsSeq
<1> QED
  BY <1>1, <1>2, <1>3, <1>4, <1>5

LEMMA OptsLack == \A ws, opts, opt : OptsIn(ws, opts) /\ opt \notin opts => Lacks(ws, opt)
BY DEF OptsIn, Lacks

\* What java is told by the options of the launcher.
OwnOpts == {"-ea", "-Djruby.", "-Dcom.sun.management.jmxremote", "-Djava.awt.headless=",
            "-Xprof", "-XX:+FlightRecorder", "-XX:StartFlightRecording=",
            "-XX:CRaCCheckpointTo=", "-XX:CRaCRestoreFrom="}

LEMMA ForJavaIs ==
    ASSUME NEW w
    PROVE  OptsIn(ForJava(w), IF w.opt = "-Jopt" THEN {w.text[1]} ELSE OwnOpts)
<1> DEFINE One == {"-J-ea", "-Xprop", "--headless", "--sample", "--checkpoint", "--restore"}
<1>1. CASE w.opt = "-Jopt"
  <2>1. ForJava(w) = << ShWord(w.text[1], Tail(w.text)) >>
    BY <1>1 DEF ForJava
  <2> QED
    BY <1>1, <2>1, FewWords DEF ShWord
<1>2. CASE w.opt \in One
  <2>1. PICK opt, text : ForJava(w) = << ShWord(opt, text) >> /\ opt \in OwnOpts
    BY <1>2 DEF ForJava, OwnOpts
  <2>2. PICK a : ForJava(w) = <<a>> /\ a.opt \in OwnOpts
    BY <2>1 DEF ShWord
  <2> QED
    BY <1>2, <2>2, FewWords
<1>3. CASE w.opt \in {"--manage", "--record"}
  <2>1. PICK opt1, text1, opt2, text2 :
            /\ ForJava(w) = << ShWord(opt1, text1), ShWord(opt2, text2) >>
            /\ opt1 \in OwnOpts /\ opt2 \in OwnOpts
    BY <1>3 DEF ForJava, OwnOpts
  <2>2. PICK a, b : ForJava(w) = <<a, b>> /\ {a.opt, b.opt} \subseteq OwnOpts
    BY <2>1 DEF ShWord
  <2> QED
    BY <1>3, <2>2, FewWords
<1>4. CASE w.opt \notin One \cup {"-Jopt", "--manage", "--record"}
  <2>1. ForJava(w) = <<>>
    BY <1>4 DEF ForJava
  <2> QED
    BY <1>4, <2>1, FewWords
<1> QED
  BY <1>1, <1>2, <1>3, <1>4

\* What an option does to them.
LEMMA SwitchJvm ==
    ASSUME NEW s, IsJvm(s), env \in ShEnvironments, NEW w \in ShWords
    PROVE  LET t == ReadSwitch(s, w)
           IN  /\ IsJvm(t) /\ SameJava(s, t) /\ t.JAVA_OPTS = s.JAVA_OPTS
               /\ t.java_args = s.java_args \o ForJava(w)
               /\ t.JAVA_MEM = IF w.opt = "-J-Xmx" THEN << ShWord("-Xmx", w.text) >>
                               ELSE s.JAVA_MEM
               /\ t.JAVA_STACK = IF w.opt = "-J-Xss" THEN << ShWord("-Xss", w.text) >>
                                 ELSE s.JAVA_STACK
               /\ t.java_opts_from_files =
                      IF w.opt = "--dev" THEN s.java_opts_from_files \o FromFile(s, "dev")
                      ELSE s.java_opts_from_files
<1> DEFINE args  == s.java_args \o ForJava(w)
           mem   == IF w.opt = "-J-Xmx" THEN << ShWord("-Xmx", w.text) >> ELSE s.JAVA_MEM
           stack == IF w.opt = "-J-Xss" THEN << ShWord("-Xss", w.text) >> ELSE s.JAVA_STACK
           egd   == IF w.opt = "-J-egd" THEN w.text ELSE s.JAVA_SECURITY_EGD
           full == [s EXCEPT
                !.java_args         = @ \o ForJava(w),
                !.ruby_args         = CASE w.opt = "ruby"  -> Append(@, w)
                                        [] w.opt = "--jdb" -> Append(@, ShWord("ruby", <<"-X+C">>))
                                        [] OTHER           -> @,
                !.JAVA_MEM          = IF w.opt = "-J-Xmx" THEN << ShWord("-Xmx", w.text) >> ELSE @,
                !.JAVA_STACK        = IF w.opt = "-J-Xss" THEN << ShWord("-Xss", w.text) >> ELSE @,
                !.JAVA_SECURITY_EGD = IF w.opt = "-J-egd" THEN w.text ELSE @,
                !.VERIFY_JRUBY      = @ \/ w.opt = "-J-ea",
                !.NO_BOOTCLASSPATH  = @ \/ w.opt = "--no-bootclasspath",
                !.jdb               = @ \/ w.opt = "--jdb",
                !.print_environment_log = @ \/ w.opt = "--environment",
                !.regenerate_jsa_file = @ \/ w.opt = "--cache",
                !.remove_jsa_files  = @ \/ w.opt = "--rmcache",
                !.use_jsa_file      = @ /\ w.opt # "--nocache",
                !.java_class        = IF w.opt = "--checkpoint"
                                      THEN "org.jruby.main.CheckpointMain" ELSE @]
<1>1. ReadSwitch(s, w) = IF w.opt = "--dev" THEN ProcessJavaOpts(full, "dev") ELSE full
  BY DEF ReadSwitch
<1>2. PICK u : u = full
  OBVIOUS
<1>3. ReadSwitch(s, w) = IF w.opt = "--dev" THEN ProcessJavaOpts(u, "dev") ELSE u
  <2> HIDE DEF full
  <2> QED
    BY <1>1, <1>2
<1>4. IsSeq(args) /\ IsSeq(mem) /\ IsSeq(stack) /\ IsSeq(egd)
  <2>1. IsSeq(ForJava(w))
    BY ForJavaIs DEF OptsIn
  <2>2. IsSeq(w.text)
    BY DEF ShWords, IsSeq
  <2> QED
    BY <2>1, <2>2, Concatenation, SingleWord DEF IsJvm
<1>5. /\ DOMAIN u = DOMAIN s
      /\ u.java_args = args /\ u.JAVA_MEM = mem /\ u.JAVA_STACK = stack
      /\ u.JAVA_SECURITY_EGD = egd /\ u.JAVA_OPTS = s.JAVA_OPTS
      /\ u.java_opts_from_files = s.java_opts_from_files
      /\ u.JAVACMD = s.JAVACMD /\ u.major = s.major /\ u.use_modules = s.use_modules
  <2> USE DEF IsJvm, JvmFields
  <2>1. /\ DOMAIN u = DOMAIN s
        /\ u.java_args = args /\ u.JAVA_MEM = mem /\ u.JAVA_STACK = stack
        /\ u.JAVA_SECURITY_EGD = egd
    BY <1>2, Zenon
  <2>2. u.JAVA_OPTS = s.JAVA_OPTS /\ u.java_opts_from_files = s.java_opts_from_files
    BY <1>2, Zenon
  <2>3. u.JAVACMD = s.JAVACMD /\ u.major = s.major /\ u.use_modules = s.use_modules
    BY <1>2, Zenon
  <2> QED
    BY <2>1, <2>2, <2>3
<1> HIDE DEF args, mem, stack, egd, full
<1>6. IsJvm(u) /\ FromFile(u, "dev") = FromFile(s, "dev")
  BY <1>4, <1>5 DEF IsJvm, FromFile
<1>7. CASE w.opt = "--dev"
  <2>1. PICK t : t = ProcessJavaOpts(u, "dev") /\ t = ReadSwitch(s, w)
    BY <1>3, <1>7
  <2>2. "dev" \in OptionFiles
    BY DEF OptionFiles
  <2>3. /\ IsJvm(t) /\ SameJava(u, t) /\ SameMemory(u, t)
        /\ t.JAVA_OPTS = u.JAVA_OPTS /\ t.java_args = u.java_args
        /\ t.java_opts_from_files = u.java_opts_from_files \o FromFile(u, "dev")
    BY <1>6, <2>1, <2>2, FileJvm
  <2> QED
    BY <1>5, <1>6, <1>7, <2>1, <2>3 DEF SameJava, SameMemory, args, mem, stack
<1>8. CASE w.opt # "--dev"
  BY <1>3, <1>5, <1>6, <1>8 DEF SameJava, args, mem, stack
<1> QED
  BY <1>7, <1>8

LEMMA LibraryPathIs ==
    ASSUME NEW s
    PROVE  /\ OptsIn(LibraryPath(s), {"-classpath", "-Djruby.home="}
                        \cup IF s.use_modules THEN {"--module-path"}
                             ELSE {"-Xbootclasspath/a:"})
           /\ s.use_modules => ~Lacks(LibraryPath(s), "--module-path")
<1> DEFINE classpath == OrEmpty(s.CP) \o OrEmpty(s.CLASSPATH)
<1> HIDE DEF classpath
<1>1. CASE s.use_modules
  <2>1. LibraryPath(s) = << ShWord("--module-path", s.JRUBY_CP), ShWord("-classpath", classpath) >>
    BY <1>1 DEF LibraryPath, classpath
  <2>2. PICK a, b : LibraryPath(s) = <<a, b>> /\ a.opt = "--module-path" /\ b.opt = "-classpath"
    BY <2>1 DEF ShWord
  <2>3. ~Lacks(<<a, b>>, "--module-path")
    <3>1. 1 \in 1 .. Len(<<a, b>>) /\ <<a, b>>[1] = a
      OBVIOUS
    <3> QED
      BY <2>2, <3>1 DEF Lacks
  <2>4. PICK opts : opts = {"-classpath", "-Djruby.home=", "--module-path"}
    OBVIOUS
  <2>5. {a.opt, b.opt} \subseteq opts
    BY <2>2, <2>4
  <2>6. OptsIn(<<a, b>>, opts)
    BY <2>5, FewWords
  <2>7. opts = {"-classpath", "-Djruby.home="} \cup {"--module-path"}
    BY <2>4
  <2> QED
    BY <1>1, <2>2, <2>3, <2>6, <2>7
<1>2. CASE ~s.use_modules /\ (s.NO_BOOTCLASSPATH \/ s.VERIFY_JRUBY)
  <2>1. LibraryPath(s) = << ShWord("-classpath", s.JRUBY_CP \o classpath) >>
    BY <1>2 DEF LibraryPath, classpath
  <2>2. PICK a : LibraryPath(s) = <<a>> /\ a.opt = "-classpath"
    BY <2>1 DEF ShWord
  <2> QED
    BY <1>2, <2>2, FewWords
<1>3. CASE ~s.use_modules /\ ~(s.NO_BOOTCLASSPATH \/ s.VERIFY_JRUBY)
  <2>1. LibraryPath(s) = << ShWord("-Xbootclasspath/a:", s.JRUBY_CP),
                            ShWord("-classpath", classpath),
                            ShWord("-Djruby.home=", <<"JRUBY_HOME">>) >>
    BY <1>3 DEF LibraryPath, classpath
  <2>2. PICK a, b, c : /\ LibraryPath(s) = <<a, b, c>> /\ a.opt = "-Xbootclasspath/a:"
                       /\ b.opt = "-classpath" /\ c.opt = "-Djruby.home="
    BY <2>1 DEF ShWord
  <2>3. PICK opts : opts = {"-classpath", "-Djruby.home=", "-Xbootclasspath/a:"}
    OBVIOUS
  <2>4. {a.opt, b.opt, c.opt} \subseteq opts
    BY <2>2, <2>3
  <2>5. OptsIn(<<a, b, c>>, opts)
    BY <2>4, FewWords
  <2>6. opts = {"-classpath", "-Djruby.home="} \cup {"-Xbootclasspath/a:"}
    BY <2>3
  <2> QED
    BY <1>3, <2>2, <2>5, <2>6
<1> QED
  BY <1>1, <1>2, <1>3

NativeOpt == "--enable-native-access="
UnsafeOpt == "--sun-misc-unsafe-memory-access="

\* The words before, between and after those of the script's variables.
Around(s, jdb, jffi, native, unsafe, last) ==
    /\ OptsIn(jdb, {"-sourcepath"}) /\ OptsIn(jffi, {"-Djffi.boot.library.path="})
    /\ OptsIn(native, IF NativeAccess(s.major) THEN {NativeOpt} ELSE {})
    /\ NativeAccess(s.major) => ~Lacks(native, NativeOpt)
    /\ OptsIn(unsafe, IF UnsafeMemory(s.major) THEN {UnsafeOpt} ELSE {})
    /\ OptsIn(last, {"-Djruby.home=", "-Djruby.lib=", "-Djruby.script=", "-Djruby.shell="})

JvmWords(s, jdb, jffi, native, unsafe, last) ==
    jdb \o s.java_opts_from_files \o s.JAVA_OPTS \o s.JAVA_MEM \o s.JAVA_STACK \o jffi
        \o s.java_args \o native \o unsafe \o LibraryPath(s) \o last

LEMMA AroundIs ==
    ASSUME NEW s
    PROVE  LET jdb    == If(s.jdb, << ShWord("-sourcepath", <<>>) >>)
               jffi   == << ShWord("-Djffi.boot.library.path=", <<"lib/jni">>) >>
               native == If(NativeAccess(s.major), << ShWord(NativeOpt, <<"org.jruby.dist">>) >>)
               unsafe == If(UnsafeMemory(s.major), << ShWord(UnsafeOpt, <<"allow">>) >>)
               last   == << ShWord("-Djruby.home=", <<"JRUBY_HOME">>), ShWord("-Djruby.lib=", <<"lib">>),
                            ShWord("-Djruby.script=", <<"jruby">>), ShWord("-Djruby.shell=", <<"/bin/sh">>) >>
           IN  Around(s, jdb, jffi, native, unsafe, last)
<1>1. \A opt, text, opts : opt \in opts => OptsIn(<< ShWord(opt, text) >>, opts)
  BY FewWords DEF ShWord
<1>2. \A condition, opt, text :
         OptsIn(If(condition, << ShWord(opt, text) >>), IF condition THEN {opt} ELSE {})
  BY <1>1, FewWords DEF If
<1>3. \A opt, text : ~Lacks(<< ShWord(opt, text) >>, opt)
  BY SingleWord DEF Lacks, ShWord
<1>4. \A opt, text, opts : OptsIn(If(s.jdb, << ShWord(opt, text) >>), {opt})
  BY <1>1, FewWords DEF If
<1>5. OptsIn(<< ShWord("-Djruby.home=", <<"JRUBY_HOME">>), ShWord("-Djruby.lib=", <<"lib">>),
                ShWord("-Djruby.script=", <<"jruby">>), ShWord("-Djruby.shell=", <<"/bin/sh">>) >>,
             {"-Djruby.home=", "-Djruby.lib=", "-Djruby.script=", "-Djruby.shell="})
  <2>1. PICK a, b, c, d : /\ a = ShWord("-Djruby.home=", <<"JRUBY_HOME">>)
                          /\ b = ShWord("-Djruby.lib=", <<"lib">>)
                          /\ c = ShWord("-Djruby.script=", <<"jruby">>)
                          /\ d = ShWord("-Djruby.shell=", <<"/bin/sh">>)
    OBVIOUS
  <2>2. {a.opt, b.opt, c.opt, d.opt}
           \subseteq {"-Djruby.home=", "-Djruby.lib=", "-Djruby.script=", "-Djruby.shell="}
    BY <2>1 DEF ShWord
  <2> QED
    BY <2>1, <2>2, FewWords
<1>6. NativeAccess(s.major)
        => ~Lacks(If(NativeAccess(s.major), << ShWord(NativeOpt, <<"org.jruby.dist">>) >>), NativeOpt)
  BY <1>3 DEF If
<1> QED
  BY <1>1, <1>2, <1>4, <1>5, <1>6 DEF Around

LEMMA ArchiveJvm ==
    ASSUME NEW s, IsJvm(s)
    PROVE  LET t == SelectArchive(s)
           IN  /\ IsJvm(t) /\ SameJava(s, t) /\ SameMemory(s, t)
               /\ t.JAVA_OPTS = s.JAVA_OPTS /\ t.java_args = s.java_args
               /\ t.java_opts_from_files = s.java_opts_from_files
<1>1. PICK a, b, c, d, t : /\ t = [s EXCEPT !.use_jsa_file = a, !.regenerate_jsa_file = b,
                                            !.remove_jsa_files = c, !.ruby_args = d]
                           /\ t = SelectArchive(s)
  BY Zenon DEF SelectArchive
<1>2. /\ DOMAIN t = DOMAIN s
      /\ \A field \in DOMAIN s :
            field \notin {"use_jsa_file", "regenerate_jsa_file", "remove_jsa_files", "ruby_args"}
                => t[field] = s[field]
  BY <1>1
<1>3. \A field \in JvmFields : t[field] = s[field]
  BY <1>2 DEF IsJvm, JvmFields
<1> QED
  BY <1>1, <1>2, <1>3 DEF IsJvm, SameJava, SameMemory, JvmFields

\* The command, and what the script's variables are then.
LEMMA CommandIs ==
    ASSUME env \in ShEnvironments, IsJvm(sh), Assemble
    PROVE  /\ shPc = "command" /\ shPc' \in {"exec", "exited"} /\ UNCHANGED env
           /\ IsJvm(sh') /\ SameJava(sh, sh') /\ SameMemory(sh, sh')
           /\ sh'.JAVA_OPTS = sh.JAVA_OPTS /\ sh'.java_args = sh.java_args
           /\ sh'.java_opts_from_files =
                 IF sh.use_modules THEN sh.java_opts_from_files \o FromFile(sh, "module")
                 ELSE sh.java_opts_from_files
           /\ UNCHANGED command \/ \E jdb, jffi, native, unsafe, last :
                /\ command'.exe[1] = sh'.JAVACMD
                /\ command'.jvm = JvmWords(sh', jdb, jffi, native, unsafe, last)
                /\ Around(sh', jdb, jffi, native, unsafe, last)
<1>0. PICK r : r = IF sh.use_modules THEN ProcessJavaOpts(sh, "module") ELSE sh
  OBVIOUS
<1>1. PICK s : s = SelectArchive(r)
  OBVIOUS
<1>2. /\ IsJvm(s) /\ SameJava(sh, s) /\ SameMemory(sh, s)
      /\ s.JAVA_OPTS = sh.JAVA_OPTS /\ s.java_args = sh.java_args
      /\ s.java_opts_from_files =
            IF sh.use_modules THEN sh.java_opts_from_files \o FromFile(sh, "module")
            ELSE sh.java_opts_from_files
  <2>1. "module" \in OptionFiles
    BY DEF OptionFiles
  <2>2. /\ IsJvm(r) /\ SameJava(sh, r) /\ SameMemory(sh, r)
        /\ r.JAVA_OPTS = sh.JAVA_OPTS /\ r.java_args = sh.java_args
        /\ r.java_opts_from_files =
              IF sh.use_modules THEN sh.java_opts_from_files \o FromFile(sh, "module")
              ELSE sh.java_opts_from_files
    BY <1>0, <2>1, FileJvm DEF SameJava, SameMemory
  <2>3. /\ IsJvm(s) /\ SameJava(r, s) /\ SameMemory(r, s)
        /\ s.JAVA_OPTS = r.JAVA_OPTS /\ s.java_args = r.java_args
        /\ s.java_opts_from_files = r.java_opts_from_files
    BY <1>1, <2>2, ArchiveJvm
  <2> QED
    BY <2>2, <2>3 DEF SameJava, SameMemory
<1>3. sh' = s
  BY <1>0, <1>1, Zenon DEF Assemble
<1> DEFINE jdb    == If(s.jdb, << ShWord("-sourcepath", <<>>) >>)
           jffi   == << ShWord("-Djffi.boot.library.path=", <<"lib/jni">>) >>
           native == If(NativeAccess(s.major), << ShWord(NativeOpt, <<"org.jruby.dist">>) >>)
           unsafe == If(UnsafeMemory(s.major), << ShWord(UnsafeOpt, <<"allow">>) >>)
           last   == << ShWord("-Djruby.home=", <<"JRUBY_HOME">>), ShWord("-Djruby.lib=", <<"lib">>),
                        ShWord("-Djruby.script=", <<"jruby">>), ShWord("-Djruby.shell=", <<"/bin/sh">>) >>
<1>4. IF s.print_environment_log \/ s.remove_jsa_files
      THEN ShExit(0) /\ UNCHANGED command
      ELSE /\ command' = [exe  |-> <<s.JAVACMD, IF s.jdb THEN "jdb" ELSE "java">>,
                          jvm  |-> JvmWords(s, jdb, jffi, native, unsafe, last),
                          main |-> s.java_class, ruby |-> s.ruby_args]
           /\ shPc' = "exec"
  BY <1>0, <1>1 DEF Assemble, JvmWords, NativeOpt, UnsafeOpt
<1>5. Around(s, jdb, jffi, native, unsafe, last)
  BY AroundIs
<1> HIDE DEF jdb, jffi, native, unsafe, last
<1>6. \A a, b : <<a, b>>[1] = a
  OBVIOUS
<1>7. UNCHANGED command \/ \E a, b, c, d, e :
        /\ command'.exe[1] = sh'.JAVACMD
        /\ command'.jvm = JvmWords(sh', a, b, c, d, e)
        /\ Around(sh', a, b, c, d, e)
  BY <1>3, <1>4, <1>5, <1>6
<1>8. shPc = "command" /\ shPc' \in {"exec", "exited"} /\ UNCHANGED env
  BY <1>4 DEF Assemble, ShExit
<1> QED
  BY <1>2, <1>3, <1>7, <1>8

\* The variables in the other steps of the loop.
LEMMA OtherOptionsJvm ==
    ASSUME IsJvm(sh), env \in ShEnvironments, rest \in Seq(ShWords),
           OptionForRuby \/ OptionClassPath \/ OptionsEnd
    PROVE  /\ IsJvm(sh') /\ SameJava(sh, sh') /\ SameMemory(sh, sh')
           /\ sh'.JAVA_OPTS = sh.JAVA_OPTS
           /\ sh'.java_opts_from_files = sh.java_opts_from_files
           /\ \/ sh'.java_args = sh.java_args /\ ~OptionsEnd
              \/ OptionsEnd /\ \E egd : /\ OptsIn(egd, {"-Djava.security.egd="})
                                        /\ sh'.java_args = sh.java_args \o egd
<1> USE DEF JvmFields
<1>0. OptionForRuby \/ OptionClassPath => ~OptionsEnd
  BY DEF OptionForRuby, OptionClassPath, OptionsEnd, TakesValue, NotOptions
<1>1. CASE (OptionForRuby \/ OptionClassPath) /\ UNCHANGED sh
  BY <1>0, <1>1 DEF IsJvm, SameJava, SameMemory
<1>2. ASSUME NEW f \in {"ruby_args", "CP", "CLASSPATH"}, NEW g \in {"ruby_args", "CP", "CLASSPATH"},
             NEW x, NEW y, sh' = [[sh EXCEPT ![f] = x] EXCEPT ![g] = y]
      PROVE  /\ IsJvm(sh') /\ SameJava(sh, sh') /\ SameMemory(sh, sh')
             /\ sh'.JAVA_OPTS = sh.JAVA_OPTS /\ sh'.java_args = sh.java_args
             /\ sh'.java_opts_from_files = sh.java_opts_from_files
  <2>1. /\ DOMAIN sh' = DOMAIN sh
        /\ \A field \in DOMAIN sh : field # f /\ field # g => sh'[field] = sh[field]
    BY <1>2
  <2>2. \A field \in JvmFields : sh'[field] = sh[field]
    BY <2>1 DEF IsJvm
  <2> QED
    BY <2>1, <2>2 DEF IsJvm, SameJava, SameMemory
<1>3. CASE OptionForRuby /\ ~UNCHANGED sh
  <2>1. PICK x : sh' = [sh EXCEPT !.ruby_args = x]
    BY <1>3 DEF OptionForRuby, Switched
  <2>2. sh' = [[sh EXCEPT !["ruby_args"] = x] EXCEPT !["ruby_args"] = x]
    BY <2>1
  <2> QED
    BY <1>0, <1>2, <1>3, <2>2
<1>4. CASE OptionClassPath /\ ~UNCHANGED sh
  <2>1. PICK x, y : sh' = [sh EXCEPT !.CP = x, !.CLASSPATH = y]
    BY <1>4 DEF OptionClassPath
  <2>2. sh' = [[sh EXCEPT !["CP"] = x] EXCEPT !["CLASSPATH"] = y]
    BY <2>1
  <2> QED
    BY <1>0, <1>2, <1>4, <2>2
<1>5. CASE OptionsEnd
  <2>1. PICK egd : egd = [n \in DOMAIN sh.JAVA_SECURITY_EGD |->
                            ShWord("-Djava.security.egd=", sh.JAVA_SECURITY_EGD)]
    OBVIOUS
  <2>2. PICK ruby, java : /\ java = sh.java_args \o egd
                          /\ sh' = [sh EXCEPT !.ruby_args = ruby, !.java_args = java]
    BY <1>5, <2>1 DEF OptionsEnd
  <2>3. OptsIn(egd, {"-Djava.security.egd="})
    <3>1. PICK w : w = ShWord("-Djava.security.egd=", sh.JAVA_SECURITY_EGD)
      OBVIOUS
    <3>2. w.opt = "-Djava.security.egd="
      BY <3>1 DEF ShWord
    <3>3. PICK m \in Nat : DOMAIN sh.JAVA_SECURITY_EGD = 1 .. m
      BY DEF IsJvm, IsSeq
    <3>4. egd = [n \in 1 .. m |-> w]
      BY <2>1, <3>1, <3>3
    <3>5. egd \in Seq({w}) /\ \A j \in 1 .. Len(egd) : egd[j] = w
      BY <3>4
    <3> QED
      BY <3>2, <3>5 DEF OptsIn, IsSeq
  <2>4. IsSeq(java)
    BY <2>2, <2>3, Concatenation DEF IsJvm, OptsIn
  <2>5. /\ DOMAIN sh' = DOMAIN sh
        /\ \A field \in DOMAIN sh : field \notin {"ruby_args", "java_args"} => sh'[field] = sh[field]
        /\ sh'.java_args = java
    <3>1. "java_args" \in DOMAIN sh
      BY DEF IsJvm
    <3> QED
      BY <2>2, <3>1
  <2>6. \A field \in JvmFields \ {"java_args"} : sh'[field] = sh[field]
    BY <2>5 DEF IsJvm
  <2> QED
    BY <1>5, <2>2, <2>3, <2>4, <2>5, <2>6 DEF IsJvm, SameJava, SameMemory
<1> QED
  BY <1>1, <1>3, <1>4, <1>5

LEMMA LastOrIs ==
    ASSUME NEW opt, NEW words, IsSeq(words), NEW otherwise, IsSeq(otherwise)
    PROVE  /\ IsSeq(LastOr(opt, words, otherwise))
           /\ \/ Lacks(words, opt) /\ LastOr(opt, words, otherwise) = otherwise
              \/ \E w : /\ LastOr(opt, words, otherwise) = <<w>>
                        /\ w.opt = opt /\ LastIs(words, opt, w.text)
<1>1. CASE Where(words, {opt}) = {}
  BY <1>1, WhereNone DEF LastOr
<1>2. CASE Where(words, {opt}) # {}
  <2>1. PICK m : m = Max(Where(words, {opt}))
    OBVIOUS
  <2>2. LastOr(opt, words, otherwise) = << words[m] >>
    BY <1>2, <2>1 DEF LastOr
  <2>3. LastIs(words, opt, words[m].text)
    BY <1>2, <2>1, LastIsWhere
  <2>4. words[m].opt = opt
    <3>1. DOMAIN words = 1 .. Len(words) /\ Len(words) \in Nat
      BY DEF IsSeq
    <3>2. Where(words, {opt}) \subseteq 0 .. Len(words)
      BY <3>1 DEF Where
    <3>3. m \in Where(words, {opt})
      BY <1>2, <2>1, <3>1, <3>2, GreatestElement
    <3> QED
      BY <3>3 DEF Where
  <2> QED
    BY <2>2, <2>3, <2>4, SingleWord
<1> QED
  BY <1>1, <1>2

LEMMA WithoutMemoryIs ==
    ASSUME NEW words, IsSeq(words)
    PROVE  /\ IsSeq(WithoutMemory(words))
           /\ \A opt : Lacks(words, opt) => Lacks(WithoutMemory(words), opt)
BY OfSelected DEF WithoutMemory

LEMMA DefaultStackIs ==
    ASSUME NEW words, IsSeq(words)
    PROVE  /\ IsSeq(DefaultStack(words))
           /\ DefaultStack(words) = words \/ words = <<>>
           /\ \A opt : opt # "-Xss" /\ Lacks(words, opt) => Lacks(DefaultStack(words), opt)
<1>1. CASE words = <<>>
  <2>0. PICK w : w = ShWord("-Xss", <<"2048k">>)
    OBVIOUS
  <2>1. DefaultStack(words) = <<w>> /\ w.opt = "-Xss"
    BY <1>1, <2>0 DEF DefaultStack, ShWord
  <2> QED
    BY <1>1, <2>1, SingleWord DEF Lacks
<1>2. CASE words # <<>>
  BY <1>2 DEF DefaultStack
<1> QED
  BY <1>1, <1>2

\* What the environment and the three files say.
LEMMA EnvironmentJvm ==
    ASSUME IsJvm(sh), env \in ShEnvironments, ReadEnvironment
    PROVE  /\ IsJvm(sh') /\ SameJava(sh, sh') /\ sh'.java_args = sh.java_args
           /\ sh'.JAVA_OPTS = WithoutMemory(env.JAVA_OPTS)
           /\ sh'.JAVA_MEM = LastOr("-Xmx", env.JAVA_OPTS, env.JAVA_MEM)
           /\ sh'.JAVA_STACK = LastOr("-Xss", env.JAVA_OPTS, DefaultStack(env.JAVA_STACK))
           /\ sh'.java_opts_from_files =
                 ((sh.java_opts_from_files \o FromFile(sh, "installed"))
                    \o FromFile(sh, "home")) \o FromFile(sh, "pwd")
<1> DEFINE opts  == WithoutMemory(env.JAVA_OPTS)
           mem   == LastOr("-Xmx", env.JAVA_OPTS, env.JAVA_MEM)
           stack == LastOr("-Xss", env.JAVA_OPTS, DefaultStack(env.JAVA_STACK))
           egd   == IF env.urandom THEN <<"file:/dev/urandom">> ELSE <<>>
           full  == [sh EXCEPT
                !.JAVA_OPTS  = opts,
                !.JAVA_MEM   = mem,
                !.JAVA_STACK = stack,
                !.JAVA_SECURITY_EGD = egd,
                !.JRUBY_CP  = JrubyJars,
                !.CP        = IF env.JRUBY_PARENT_CLASSPATH = <<>> THEN env.CP \o OtherJars
                              ELSE env.JRUBY_PARENT_CLASSPATH,
                !.CLASSPATH = env.CLASSPATH]
<1>1. PICK start, installed, home :
         /\ start = full
         /\ installed = ProcessJavaOpts(start, "installed")
         /\ home = ProcessJavaOpts(installed, "home")
  OBVIOUS
<1>2. sh' = ProcessJavaOpts(home, "pwd")
  BY <1>1 DEF ReadEnvironment
<1>3. IsSeq(opts) /\ IsSeq(mem) /\ IsSeq(stack) /\ IsSeq(egd)
  <2>1. IsSeq(env.JAVA_OPTS) /\ IsSeq(env.JAVA_MEM) /\ IsSeq(env.JAVA_STACK)
    BY DEF ShEnvironments, IsSeq
  <2>2. IsSeq(egd)
    BY FewWords, SingleWord DEF OptsIn
  <2> QED
    BY <2>1, <2>2, WithoutMemoryIs, LastOrIs, DefaultStackIs
<1>4. /\ DOMAIN start = DOMAIN sh
      /\ start.JAVA_OPTS = opts /\ start.JAVA_MEM = mem /\ start.JAVA_STACK = stack
      /\ start.JAVA_SECURITY_EGD = egd /\ start.java_args = sh.java_args
      /\ start.java_opts_from_files = sh.java_opts_from_files
      /\ start.JAVACMD = sh.JAVACMD /\ start.major = sh.major /\ start.use_modules = sh.use_modules
  <2> HIDE DEF opts, mem, stack, egd
  <2> USE DEF IsJvm, JvmFields
  <2>1. /\ DOMAIN start = DOMAIN sh
        /\ start.JAVA_OPTS = opts /\ start.JAVA_MEM = mem /\ start.JAVA_STACK = stack
        /\ start.JAVA_SECURITY_EGD = egd
    BY <1>1, Zenon
  <2>2. start.java_args = sh.java_args /\ start.java_opts_from_files = sh.java_opts_from_files
    BY <1>1, Zenon
  <2>3. start.JAVACMD = sh.JAVACMD /\ start.major = sh.major /\ start.use_modules = sh.use_modules
    BY <1>1, Zenon
  <2> QED
    BY <2>1, <2>2, <2>3
<1> HIDE DEF opts, mem, stack, egd, full
<1>5. IsJvm(start)
  BY <1>3, <1>4 DEF IsJvm
<1>6. {"installed", "home", "pwd"} \subseteq OptionFiles
  BY DEF OptionFiles
<1>7. /\ IsJvm(installed) /\ SameJava(start, installed) /\ SameMemory(start, installed)
      /\ installed.JAVA_OPTS = start.JAVA_OPTS /\ installed.java_args = start.java_args
      /\ installed.java_opts_from_files
            = start.java_opts_from_files \o FromFile(start, "installed")
  BY <1>1, <1>5, <1>6, FileJvm
<1>8. /\ IsJvm(home) /\ SameJava(installed, home) /\ SameMemory(installed, home)
      /\ home.JAVA_OPTS = installed.JAVA_OPTS /\ home.java_args = installed.java_args
      /\ home.java_opts_from_files
            = installed.java_opts_from_files \o FromFile(installed, "home")
  BY <1>1, <1>6, <1>7, FileJvm
<1>9. /\ IsJvm(sh') /\ SameJava(home, sh') /\ SameMemory(home, sh')
      /\ sh'.JAVA_OPTS = home.JAVA_OPTS /\ sh'.java_args = home.java_args
      /\ sh'.java_opts_from_files = home.java_opts_from_files \o FromFile(home, "pwd")
  BY <1>2, <1>6, <1>8, FileJvm
<1>10. \A s, t, file : SameJava(s, t) => FromFile(t, file) = FromFile(s, file)
  BY DEF SameJava, FromFile
<1>11. SameJava(sh, start) /\ SameJava(sh, installed) /\ SameJava(sh, home) /\ SameJava(sh, sh')
  BY <1>4, <1>7, <1>8, <1>9 DEF SameJava
<1>12. /\ FromFile(start, "installed") = FromFile(sh, "installed")
       /\ FromFile(installed, "home") = FromFile(sh, "home")
       /\ FromFile(home, "pwd") = FromFile(sh, "pwd")
  BY <1>10, <1>11
<1>13. /\ sh'.JAVA_OPTS = opts /\ sh'.JAVA_MEM = mem /\ sh'.JAVA_STACK = stack
       /\ sh'.java_args = sh.java_args
  BY <1>4, <1>7, <1>8, <1>9 DEF SameMemory
<1> QED
  BY <1>4, <1>7, <1>8, <1>9, <1>11, <1>12, <1>13, Zenon DEF opts, mem, stack

LEMMA NewScriptJvm ==
    /\ IsJvm(NewScript)
    /\ NewScript.java_args = <<>> /\ NewScript.java_opts_from_files = <<>>
    /\ NewScript.JAVA_OPTS = <<>> /\ NewScript.JAVA_MEM = <<>> /\ NewScript.JAVA_STACK = <<>>
<1>1. IsSeq(<<>>)
  BY FewWords DEF OptsIn
<1>2. /\ NewScript.java_args = <<>> /\ NewScript.java_opts_from_files = <<>>
      /\ NewScript.JAVA_OPTS = <<>> /\ NewScript.JAVA_MEM = <<>> /\ NewScript.JAVA_STACK = <<>>
      /\ NewScript.JAVA_SECURITY_EGD = <<>>
  BY Zenon DEF NewScript
<1>3. JvmFields \subseteq DOMAIN NewScript
  BY DEF NewScript, JvmFields
<1> QED
  BY <1>1, <1>2, <1>3 DEF IsJvm

\* The Java that is found.
IsJava(s) ==
    /\ s.JAVACMD \in DOMAIN Javas
    /\ s.use_modules = Javas[s.JAVACMD].modules
    /\ s.major = IF Javas[s.JAVACMD].release = 0 THEN 8 ELSE Javas[s.JAVACMD].release

LEMMA FindJavaJvm ==
    ASSUME IsJvm(sh), FindJava
    PROVE  /\ shPc = "java" /\ IsJvm(sh') /\ SameMemory(sh, sh')
           /\ sh'.JAVA_OPTS = sh.JAVA_OPTS /\ sh'.java_args = sh.java_args
           /\ sh'.java_opts_from_files = sh.java_opts_from_files
           /\ shPc' \in {"exited", "version"} /\ (shPc' = "version" => IsJava(sh'))
           /\ UNCHANGED <<env, rest, command>>
<1>1. shPc = "java" /\ UNCHANGED <<env, rest, command>>
  BY DEF FindJava
<1>2. CASE ShExit(2) /\ UNCHANGED sh
  <2>1. sh' = sh /\ shPc' = "exited"
    BY <1>2 DEF ShExit
  <2>2. IsJvm(sh') /\ SameMemory(sh, sh')
    BY <2>1, Zenon DEF SameMemory
  <2> QED
    BY <1>1, <2>1, <2>2
<1>3. CASE FoundJava \in DOMAIN Javas /\ ~(ShExit(2) /\ UNCHANGED sh)
  <2>1. PICK cmd, java :
            /\ cmd = ResolvedJava /\ java = Javas[cmd]
            /\ \E appcds : sh' = [sh EXCEPT
                    !.JAVACMD = cmd,
                    !.use_modules = java.modules,
                    !.major = IF java.release = 0 THEN 8 ELSE java.release,
                    !.java_has_appcds = appcds, !.use_jsa_file = appcds]
            /\ shPc' = "version"
    <3> DEFINE cmd  == ResolvedJava
               java == Javas[cmd]
               maj  == IF java.release = 0 THEN 8 ELSE java.release
    <3>1. /\ sh' = [sh EXCEPT !.JAVACMD = cmd, !.use_modules = java.modules,
                              !.major = maj, !.java_has_appcds = maj >= 13 /\ java.jsa,
                              !.use_jsa_file = maj >= 13 /\ java.jsa]
          /\ shPc' = "version"
      BY <1>3 DEF FindJava, JavaHomeOf
    <3>2. PICK appcds : appcds = (maj >= 13 /\ java.jsa)
      OBVIOUS
    <3> QED
      BY <3>1, <3>2
  <2>2. cmd \in DOMAIN Javas
    <3>1. Javas[FoundJava] \in JavaRecords
      BY <1>3, ShAssumption
    <3>2. Javas[FoundJava].real \in DOMAIN Javas
      BY <3>1 DEF JavaRecords
    <3> QED
      BY <1>3, <2>1, <3>2 DEF ResolvedJava
  <2>3. /\ DOMAIN sh' = DOMAIN sh
        /\ \A field \in DOMAIN sh :
              field \notin {"JAVACMD", "use_modules", "major", "java_has_appcds", "use_jsa_file"}
                => sh'[field] = sh[field]
    BY <2>1
  <2>4. \A field \in JvmFields \ {"JAVACMD", "use_modules", "major"} : sh'[field] = sh[field]
    <3>1. JvmFields \subseteq DOMAIN sh
      BY Zenon DEF IsJvm
    <3>2. "java_has_appcds" \notin JvmFields /\ "use_jsa_file" \notin JvmFields
      BY DEF JvmFields
    <3> QED
      BY <2>3, <3>1, <3>2
  <2>5. /\ sh'.JAVACMD = cmd /\ sh'.use_modules = java.modules
        /\ sh'.major = IF java.release = 0 THEN 8 ELSE java.release
    BY <2>1, Zenon DEF IsJvm, JvmFields
  <2>6. IsJava(sh')
    BY <2>1, <2>2, <2>5 DEF IsJava
  <2>7. IsJvm(sh') /\ SameMemory(sh, sh')
    BY <2>3, <2>4 DEF IsJvm, SameMemory, JvmFields
  <2> QED
    BY <1>1, <2>1, <2>4, <2>6, <2>7 DEF JvmFields
<1> QED
  BY <1>2, <1>3 DEF FindJava

\* The variables are sequences in every state.
JvmInv == env \in Scenarios /\ env \in ShEnvironments /\ IsJvm(sh)

LEMMA JvmInit == Init => JvmInv
<1> SUFFICES ASSUME Init PROVE JvmInv
  OBVIOUS
<1>1. env \in Scenarios /\ sh = NewScript
  BY DEF Init, ShInit
<1>2. env \in ShEnvironments
  BY <1>1, ShAssumption
<1> QED
  BY <1>1, <1>2, NewScriptJvm DEF JvmInv

LEMMA EnvNeverChanges == [Next]_vars => UNCHANGED env
BY DEF Next, LauncherStep, OthersStep, ScriptStep, ScriptExits, ScriptExecs, HalfScriptEnds,
       Ended, vars, shVars, ShNext, FindJava, CheckVersion, ReadEnvironment, OptionSwitch,
       OptionForRuby, OptionClassPath, OptionExits, OptionsEnd, RefuseArchive, Assemble

\* A step is one of the script's, or does nothing to it.
ScriptUnchanged == UNCHANGED <<env, rest, sh, command>> /\ shPc' \in {shPc, "exited"}

LEMMA StepsOfScript ==
    ASSUME [Next]_vars
    PROVE  \/ FindJava \/ CheckVersion \/ ReadEnvironment
           \/ OptionSwitch \/ OptionForRuby \/ OptionClassPath \/ OptionsEnd \/ Assemble
           \/ ScriptUnchanged
<1>1. OptionExits \/ RefuseArchive => ScriptUnchanged
  BY DEF OptionExits, RefuseArchive, ShExit, ScriptUnchanged
<1>2. UNCHANGED shVars => ScriptUnchanged
  BY DEF shVars, ScriptUnchanged
<1> QED
  BY <1>1, <1>2 DEF Next, LauncherStep, OthersStep, ScriptStep, ShNext, ScriptExits, ScriptExecs,
         HalfScriptEnds, Ended, vars

LEMMA JvmStep == WordsInv /\ JvmInv /\ [Next]_vars => JvmInv'
<1> SUFFICES ASSUME WordsInv, JvmInv, [Next]_vars PROVE JvmInv'
  OBVIOUS
<1>1. env' = env /\ env \in Scenarios /\ env \in ShEnvironments /\ IsJvm(sh)
      /\ rest \in Seq(ShWords)
  BY EnvNeverChanges DEF JvmInv, WordsInv
<1>2. CASE FindJava
  BY <1>1, <1>2, FindJavaJvm DEF JvmInv
<1>3. CASE CheckVersion \/ ScriptUnchanged
  BY <1>1, <1>3 DEF CheckVersion, ScriptUnchanged, JvmInv
<1>4. CASE ReadEnvironment
  BY <1>1, <1>4, EnvironmentJvm DEF JvmInv
<1>5. CASE OptionSwitch
  <2>1. Head(rest) \in ShWords
    <3> DEFINE S == ShWords
    <3> HIDE DEF S
    <3>1. rest \in Seq(S) /\ rest # <<>>
      BY <1>1, <1>5 DEF S, OptionSwitch
    <3> QED
      BY <3>1 DEF S
  <2> QED
    BY <1>1, <1>5, <2>1, SwitchJvm DEF OptionSwitch, JvmInv
<1>6. CASE OptionForRuby \/ OptionClassPath \/ OptionsEnd
  BY <1>1, <1>6, OtherOptionsJvm DEF JvmInv
<1>7. CASE Assemble
  BY <1>1, <1>7, CommandIs DEF JvmInv
<1> QED
  BY <1>2, <1>3, <1>4, <1>5, <1>6, <1>7, StepsOfScript

-----------------------------------------------------------------------------
(* The options of memory. *)

SaidAt(asWord, k) == {n \in 1 .. k : IsOption(n) /\ AllWords[n].opt = asWord}

\* What the environment and the first k words say.
SaidUpTo(opt, asWord, variable, k) ==
    IF SaidAt(asWord, k) # {} THEN << AllWords[Max(SaidAt(asWord, k))] >>
    ELSE LastOr(opt, env.JAVA_OPTS, LastOr(opt, variable, <<>>))

\* The last of these words says it.
Heard(ws, opt, said) == said # <<>> => LastIs(ws, opt, Last(said).text)

\* The script has kept what the environment and the words it has read say; of the rest
\* that comes after it on the command, nothing is about memory.
MemoryAt(k) ==
    /\ Heard(sh.JAVA_MEM, "-Xmx", SaidUpTo("-Xmx", "-J-Xmx", env.JAVA_MEM, k))
    /\ Heard(sh.JAVA_STACK, "-Xss", SaidUpTo("-Xss", "-J-Xss", env.JAVA_STACK, k))
    /\ Where(env.JAVA_STACK, {"-Xmx"}) = {} => Lacks(sh.JAVA_STACK, "-Xmx")
    /\ Lacks(sh.java_args, "-Xmx") /\ Lacks(sh.java_args, "-Xss")

MemoryInv ==
    /\ shPc \in {"java", "version", "environment"} => sh.java_args = <<>>
    /\ shPc = "options" => MemoryAt(Len(AllWords) - Len(rest))
    /\ shPc = "command" => MemoryAt(Len(AllWords))
    /\ MemoryAsSaid

LEMMA SaidStays ==
    ASSUME UNCHANGED env
    PROVE  /\ \A n : IsOption(n)' <=> IsOption(n)
           /\ \A asWord, k : SaidAt(asWord, k)' = SaidAt(asWord, k)
           /\ \A opt, asWord, variable, k :
                SaidUpTo(opt, asWord, variable, k)' = SaidUpTo(opt, asWord, variable, k)
           /\ \A opt, asWord, variable :
                Said(opt, asWord, variable)' = Said(opt, asWord, variable)
<1>1. AllWords' = AllWords /\ IsValue' = IsValue
  BY EnvStays
<1>2. ShScriptAt' = ShScriptAt
  BY <1>1, Zenon DEF ShScriptAt
<1>3. \A n : IsOption(n)' <=> IsOption(n)
  BY <1>1, <1>2 DEF IsOption
<1>4. \A asWord, k : SaidAt(asWord, k)' = SaidAt(asWord, k)
  BY <1>1, <1>3, Zenon DEF SaidAt
<1>5. \A opt, asWord, variable, k :
        SaidUpTo(opt, asWord, variable, k)' = SaidUpTo(opt, asWord, variable, k)
  BY <1>1, <1>4, Zenon DEF SaidUpTo
<1>6. \A opt, asWord, variable : Said(opt, asWord, variable)' = Said(opt, asWord, variable)
  BY <1>1, <1>3, Zenon DEF Said
<1> QED
  BY <1>3, <1>4, <1>5, <1>6

LEMMA MemoryAsSaidStays == MemoryAsSaid /\ UNCHANGED <<env, command>> => MemoryAsSaid'
BY SaidStays DEF MemoryAsSaid, HasCommand, JavaHears

LEMMA MemoryAtStays ==
    ASSUME NEW k, MemoryAt(k), UNCHANGED env, SameMemory(sh, sh'),
           \/ sh'.java_args = sh.java_args
           \/ Lacks(sh'.java_args, "-Xmx") /\ Lacks(sh'.java_args, "-Xss")
    PROVE  MemoryAt(k)'
BY SaidStays DEF MemoryAt, SameMemory

LEMMA HeardOne == \A opt, w : w.opt = opt => LastIs(<<w>>, opt, w.text) /\ Heard(<<w>>, opt, <<w>>)
<1> SUFFICES ASSUME NEW w PROVE LastIs(<<w>>, w.opt, w.text) /\ Heard(<<w>>, w.opt, <<w>>)
  OBVIOUS
<1>1. Len(<<w>>) = 1 /\ <<w>>[1] = w /\ 1 .. 1 = {1} /\ ~(1 > 1)
  OBVIOUS
<1>2. LastIs(<<w>>, w.opt, w.text)
  BY <1>1 DEF LastIs
<1>3. Last(<<w>>) = w
  BY <1>1 DEF Last
<1> QED
  BY <1>2, <1>3 DEF Heard

\* At the start of the loop.
LEMMA HeardFirst ==
    ASSUME NEW opt, NEW words, IsSeq(words), NEW variable, IsSeq(variable),
           NEW kept, IsSeq(kept), kept = variable \/ variable = <<>>
    PROVE  Heard(LastOr(opt, words, kept), opt, LastOr(opt, words, LastOr(opt, variable, <<>>)))
<1>1. IsSeq(<<>>)
  BY FewWords DEF OptsIn
<1>2. /\ IsSeq(LastOr(opt, variable, <<>>))
      /\ \/ Lacks(variable, opt) /\ LastOr(opt, variable, <<>>) = <<>>
         \/ \E w : /\ LastOr(opt, variable, <<>>) = <<w>>
                   /\ w.opt = opt /\ LastIs(variable, opt, w.text)
  BY <1>1, LastOrIs
<1>3. Heard(kept, opt, LastOr(opt, variable, <<>>))
  <2>1. CASE LastOr(opt, variable, <<>>) = <<>>
    BY <2>1 DEF Heard
  <2>2. CASE \E w : LastOr(opt, variable, <<>>) = <<w>> /\ LastIs(variable, opt, w.text)
    <3>1. PICK w : LastOr(opt, variable, <<>>) = <<w>> /\ LastIs(variable, opt, w.text)
      BY <2>2
    <3>2. Last(<<w>>) = w
      BY DEF Last
    <3>3. variable # <<>>
      <4>1. 1 .. Len(<<>>) = {}
        OBVIOUS
      <4> QED
        BY <3>1, <4>1 DEF LastIs
    <3> QED
      BY <3>1, <3>2, <3>3 DEF Heard
  <2> QED
    BY <1>2, <2>1, <2>2
<1>4. PICK otherwise : otherwise = LastOr(opt, variable, <<>>) /\ IsSeq(otherwise)
  BY <1>2
<1>5. CASE Where(words, {opt}) = {}
  <2>1. LastOr(opt, words, kept) = kept /\ LastOr(opt, words, otherwise) = otherwise
    BY <1>5 DEF LastOr
  <2> QED
    BY <1>3, <1>4, <2>1
<1>6. CASE Where(words, {opt}) # {}
  <2>1. LastOr(opt, words, kept) = LastOr(opt, words, otherwise)
    BY <1>6 DEF LastOr
  <2>2. ~Lacks(words, opt)
    BY <1>6, WhereNone
  <2>3. PICK w : LastOr(opt, words, kept) = <<w>> /\ w.opt = opt
    BY <2>2, LastOrIs
  <2>4. Heard(<<w>>, opt, <<w>>)
    BY <2>3, HeardOne
  <2> QED
    BY <1>4, <2>1, <2>3, <2>4
<1> QED
  BY <1>5, <1>6

LEMMA OneLacks ==
    ASSUME NEW opt, NEW words, IsSeq(words), NEW kept, IsSeq(kept),
           NEW other, other # opt, Lacks(kept, other)
    PROVE  Lacks(LastOr(opt, words, kept), other)
<1>1. CASE Where(words, {opt}) = {}
  BY <1>1 DEF LastOr
<1>2. CASE Where(words, {opt}) # {}
  <2>1. ~Lacks(words, opt)
    BY <1>2, WhereNone
  <2>2. PICK w : LastOr(opt, words, kept) = <<w>> /\ w.opt = opt
    BY <2>1, LastOrIs
  <2> QED
    BY <2>2, SingleWord DEF Lacks
<1> QED
  BY <1>1, <1>2

\* A word more.
LEMMA SaidMore ==
    ASSUME NEW asWord, NEW k \in Nat
    PROVE  /\ ~(IsOption(k + 1) /\ AllWords[k + 1].opt = asWord)
                => SaidAt(asWord, k + 1) = SaidAt(asWord, k)
           /\ IsOption(k + 1) /\ AllWords[k + 1].opt = asWord =>
                \A opt, variable :
                    SaidUpTo(opt, asWord, variable, k + 1) = << AllWords[k + 1] >>
<1>1. 1 .. k + 1 = (1 .. k) \cup {k + 1}
  OBVIOUS
<1>2. ~(IsOption(k + 1) /\ AllWords[k + 1].opt = asWord)
        => SaidAt(asWord, k + 1) = SaidAt(asWord, k)
  BY <1>1 DEF SaidAt
<1>3. ASSUME IsOption(k + 1), AllWords[k + 1].opt = asWord
      PROVE  Max(SaidAt(asWord, k + 1)) = k + 1 /\ SaidAt(asWord, k + 1) # {}
  <2>1. PICK at : at = SaidAt(asWord, k + 1)
    OBVIOUS
  <2>2. k + 1 \in at /\ \A n \in at : n \in Nat /\ n <= k + 1
    BY <1>3, <2>1 DEF SaidAt
  <2>3. at \subseteq 0 .. k + 1 /\ at # {} /\ k + 1 \in Nat
    BY <2>2
  <2>4. Max(at) \in at /\ \A n \in at : n =< Max(at)
    BY <2>3, GreatestElement
  <2>5. Max(at) = k + 1
    BY <2>2, <2>4
  <2> QED
    BY <2>1, <2>3, <2>5
<1> QED
  BY <1>2, <1>3 DEF SaidUpTo

\* All words.
LEMMA SaidAll ==
    ASSUME env \in ShEnvironments, NEW k \in 0 .. Len(AllWords),
           \A n \in k + 1 .. Len(AllWords) : ~IsOption(n),
           NEW asWord
    PROVE  /\ SaidAt(asWord, Len(AllWords)) = SaidAt(asWord, k)
           /\ \A opt, variable :
                SaidUpTo(opt, asWord, variable, Len(AllWords)) = Said(opt, asWord, variable)
<1>1. Len(AllWords) \in Nat /\ DOMAIN AllWords = 1 .. Len(AllWords)
  <2> DEFINE S == ShWords
  <2> HIDE DEF S
  <2>1. AllWords \in Seq(S)
    BY WordsAre DEF S
  <2> QED
    BY <2>1
<1>2. \A n : n \in 1 .. Len(AllWords) <=> n \in 1 .. k \/ n \in k + 1 .. Len(AllWords)
  BY <1>1
<1>3. SaidAt(asWord, Len(AllWords)) = SaidAt(asWord, k)
  BY <1>2 DEF SaidAt
<1>4. SaidAt(asWord, Len(AllWords)) = {n \in DOMAIN AllWords : IsOption(n) /\ AllWords[n].opt = asWord}
  BY <1>1 DEF SaidAt
<1> QED
  BY <1>3, <1>4, Zenon DEF SaidUpTo, Said

LEMMA MemoryOneWord ==
    ASSUME WordsInv, JvmInv, MemoryInv, OptionSwitch, WordsInv'
    PROVE  MemoryInv'
<1>1. /\ shPc = "options" /\ rest # <<>> /\ IsSwitch(Head(rest))
      /\ UNCHANGED <<shPc, env, command>>
      /\ sh' = ReadSwitch(sh, Head(rest)) /\ rest' = Tail(rest)
  BY DEF OptionSwitch
<1>2. PICK k : ReadTo(k)
  BY <1>1 DEF WordsInv
<1>3. env \in ShEnvironments /\ Len(AllWords) \in Nat /\ rest \in Seq(ShWords)
  BY WordsAre DEF WordsInv
<1>4. k < Len(AllWords) /\ Head(rest) = AllWords[k + 1]
  BY <1>1, <1>2, HeadIsNext
<1>5. k \in Nat /\ k + 1 \in 1 .. Len(AllWords) /\ Len(rest) = Len(AllWords) - k
  BY <1>2, <1>3, <1>4 DEF ReadTo
<1>6. IsOption(k + 1)
  <2>1. AllWords[k + 1].opt \notin NotOptions /\ ~IsValue[k + 1]
    BY <1>1, <1>2, <1>4 DEF IsSwitch, ReadTo
  <2>2. \A n \in 1 .. k + 1 : n \in 1 .. k \/ n = k + 1
    BY <1>5
  <2>3. \A n \in 1 .. k + 1 : ~IsValue[n] => AllWords[n].opt \notin NotOptions
    BY <1>2, <2>1, <2>2 DEF ReadTo
  <2>4. k + 1 \in 0 .. Len(AllWords) /\ k + 1 \in 1 .. k + 1
    BY <1>5
  <2> QED
    BY <1>3, <2>1, <2>3, <2>4, BeforeScript
<1>7. PICK w : w = AllWords[k + 1] /\ w \in ShWords
  BY <1>3, <1>5, WordsAre
<1>8. MemoryAt(k)
  <2>1. Len(AllWords) - Len(rest) = k
    BY <1>3, <1>5
  <2> QED
    BY <1>1, <2>1 DEF MemoryInv
<1>9. /\ sh'.java_args = sh.java_args \o ForJava(w)
      /\ sh'.JAVA_MEM = IF w.opt = "-J-Xmx" THEN << ShWord("-Xmx", w.text) >> ELSE sh.JAVA_MEM
      /\ sh'.JAVA_STACK = IF w.opt = "-J-Xss" THEN << ShWord("-Xss", w.text) >>
                          ELSE sh.JAVA_STACK
  <2>1. sh' = ReadSwitch(sh, w) /\ IsJvm(sh)
    BY <1>1, <1>4, <1>7 DEF JvmInv
  <2> QED
    BY <1>3, <1>7, <2>1, SwitchJvm, Zenon
<1>10. Lacks(sh'.java_args, "-Xmx") /\ Lacks(sh'.java_args, "-Xss")
  <2>1. OptsIn(ForJava(w), IF w.opt = "-Jopt" THEN {w.text[1]} ELSE OwnOpts)
    BY ForJavaIs
  <2>2. w.opt = "-Jopt" => w.text[1] \notin OwnCases
    BY <1>7 DEF ShWords
  <2>3. Lacks(ForJava(w), "-Xmx") /\ Lacks(ForJava(w), "-Xss")
    BY <2>1, <2>2, OptsLack DEF OwnCases, OwnOpts
  <2> QED
    BY <1>8, <1>9, <2>1, <2>3, BothLack DEF MemoryAt, JvmInv, IsJvm, OptsIn
<1>11. ASSUME NEW opt, NEW asWord, NEW variable, NEW was, NEW is,
              Heard(was, opt, SaidUpTo(opt, asWord, variable, k)),
              is = IF w.opt = asWord THEN << ShWord(opt, w.text) >> ELSE was
       PROVE  Heard(is, opt, SaidUpTo(opt, asWord, variable, k + 1))
  <2>1. CASE w.opt = asWord
    <3>1. SaidUpTo(opt, asWord, variable, k + 1) = <<w>>
      BY <1>5, <1>6, <1>7, <2>1, SaidMore
    <3>0. PICK v : v = ShWord(opt, w.text)
      OBVIOUS
    <3>2. v.opt = opt /\ v.text = w.text
      BY <3>0 DEF ShWord
    <3>3. LastIs(<<v>>, opt, w.text) /\ Last(<<w>>) = w /\ is = <<v>>
      BY <1>11, <2>1, <3>0, <3>2, HeardOne DEF Last
    <3> QED
      BY <3>1, <3>3 DEF Heard
  <2>2. CASE w.opt # asWord
    <3>1. SaidAt(asWord, k + 1) = SaidAt(asWord, k)
      BY <1>5, <1>7, <2>2, SaidMore
    <3> QED
      BY <1>11, <2>2, <3>1 DEF SaidUpTo
  <2> QED
    BY <2>1, <2>2
<1>12. Where(env.JAVA_STACK, {"-Xmx"}) = {} => Lacks(sh'.JAVA_STACK, "-Xmx")
  <2>0. PICK v : v = ShWord("-Xss", w.text)
    OBVIOUS
  <2>1. v.opt = "-Xss"
    BY <2>0 DEF ShWord
  <2>2. Lacks(<<v>>, "-Xmx")
    BY <2>1, SingleWord DEF Lacks
  <2> QED
    BY <1>8, <1>9, <2>0, <2>2 DEF MemoryAt
<1>13. MemoryAt(k + 1)'
  <2>1. /\ Heard(sh'.JAVA_MEM, "-Xmx", SaidUpTo("-Xmx", "-J-Xmx", env.JAVA_MEM, k + 1))
        /\ Heard(sh'.JAVA_STACK, "-Xss", SaidUpTo("-Xss", "-J-Xss", env.JAVA_STACK, k + 1))
    BY <1>8, <1>9, <1>11 DEF MemoryAt
  <2> QED
    BY <1>1, <1>10, <1>12, <2>1, SaidStays DEF MemoryAt
<1>14. Len(AllWords) - Len(rest') = k + 1
  <2> DEFINE S == ShWords
  <2> HIDE DEF S
  <2>1. rest \in Seq(S)
    BY <1>3 DEF S
  <2>2. Len(rest') = Len(rest) - 1
    BY <1>1, <2>1
  <2> QED
    BY <1>3, <1>5, <2>2
<1>15. AllWords' = AllWords
  BY <1>1, EnvStays
<1> QED
  BY <1>1, <1>13, <1>14, <1>15, MemoryAsSaidStays DEF MemoryInv

\* A switch and its value say nothing of memory.
LEMMA MemoryTwoWords ==
    ASSUME WordsInv, JvmInv, MemoryInv, shPc = "options", shPc' = "options",
           UNCHANGED <<env, command>>,
           Len(rest) > 1, Head(rest).opt \in TakesValue \cup {"-J-cp"},
           Len(rest') = Len(rest) - 2,
           SameMemory(sh, sh'), sh'.java_args = sh.java_args
    PROVE  MemoryInv'
<1>1. PICK k : ReadTo(k)
  BY DEF WordsInv
<1>2. env \in ShEnvironments /\ Len(AllWords) \in Nat /\ rest \in Seq(ShWords)
  BY WordsAre DEF WordsInv
<1>3. /\ k \in Nat /\ k + 1 \in 1 .. Len(AllWords) /\ k + 2 \in 1 .. Len(AllWords)
      /\ Len(rest) = Len(AllWords) - k
  BY <1>1, <1>2 DEF ReadTo
<1>4. AllWords[k + 1].opt \in TakesValue \cup {"-J-cp"} /\ ~IsValue[k + 1]
  <2>1. rest # <<>>
    BY <1>2
  <2> QED
    BY <1>1, <1>3, <2>1, HeadIsNext DEF ReadTo
<1>5. IsValue[k + 2]
  <2>1. (k + 2) - 1 = k + 1 /\ k + 2 \in 0 .. Len(AllWords) /\ k + 2 > 1
    BY <1>2, <1>3
  <2>2. Takes(k + 1)
    BY <1>3, <1>4 DEF Takes
  <2> QED
    BY <1>2, <1>4, <2>1, <2>2, IsValueIs
<1>6. /\ AllWords[k + 1].opt \notin {"-J-Xmx", "-J-Xss"} /\ ~IsOption(k + 2)
      /\ (k + 1) + 1 = k + 2 /\ k + 1 \in Nat
  BY <1>3, <1>4, <1>5 DEF TakesValue, IsOption
<1>7. \A asWord \in {"-J-Xmx", "-J-Xss"} : SaidAt(asWord, k + 2) = SaidAt(asWord, k)
  <2> SUFFICES ASSUME NEW asWord \in {"-J-Xmx", "-J-Xss"}
               PROVE  SaidAt(asWord, k + 2) = SaidAt(asWord, k)
    OBVIOUS
  <2>1. SaidAt(asWord, k + 1) = SaidAt(asWord, k)
    BY <1>3, <1>6, SaidMore
  <2>2. PICK m \in Nat : m = k + 1 /\ m + 1 = k + 2
    BY <1>6
  <2>3. SaidAt(asWord, m + 1) = SaidAt(asWord, m)
    BY <1>6, <2>2, SaidMore
  <2> QED
    BY <2>1, <2>2, <2>3
<1>8. MemoryAt(k)
  <2>1. Len(AllWords) - Len(rest) = k
    BY <1>2, <1>3
  <2> QED
    BY <2>1 DEF MemoryInv
<1>9. MemoryAt(k + 2)
  BY <1>7, <1>8 DEF MemoryAt, SaidUpTo
<1>10. MemoryAt(k + 2)'
  BY <1>9, MemoryAtStays
<1>11. AllWords' = AllWords /\ Len(AllWords) - Len(rest') = k + 2
  BY <1>2, <1>3, EnvStays
<1> QED
  BY <1>10, <1>11, MemoryAsSaidStays DEF MemoryInv

LEMMA MemoryEnd ==
    ASSUME WordsInv, JvmInv, MemoryInv, OptionsEnd
    PROVE  MemoryInv'
<1>1. /\ shPc = "options" /\ shPc' = "command" /\ UNCHANGED <<env, command>>
      /\ rest # <<>> => Head(rest).opt \in NotOptions
  BY DEF OptionsEnd
<1>2. PICK k : ReadTo(k)
  BY <1>1 DEF WordsInv
<1>3. env \in ShEnvironments /\ Len(AllWords) \in Nat /\ rest \in Seq(ShWords)
  BY WordsAre DEF WordsInv
<1>4. k \in 0 .. Len(AllWords) /\ Len(rest) = Len(AllWords) - k
  BY <1>2 DEF ReadTo
<1>5. ShScriptAt = k + 1
  <2>1. k < Len(AllWords) => AllWords[k + 1].opt \in NotOptions /\ ~IsValue[k + 1]
    BY <1>1, <1>2, <1>3, HeadIsNext DEF ReadTo
  <2>2. \A n \in 1 .. k : ~IsValue[n] => AllWords[n].opt \notin NotOptions
    BY <1>2 DEF ReadTo
  <2>3. k < Len(AllWords) \/ k = Len(AllWords)
    BY <1>3, <1>4
  <2> QED
    BY <1>3, <1>4, <2>1, <2>2, <2>3, BeforeScript
<1>6. \A n \in k + 1 .. Len(AllWords) : ~IsOption(n)
  BY <1>3, <1>4, <1>5 DEF IsOption
<1>7. MemoryAt(k)
  <2>1. Len(AllWords) - Len(rest) = k
    BY <1>3, <1>4
  <2> QED
    BY <1>1, <2>1 DEF MemoryInv
<1>8. MemoryAt(Len(AllWords))
  <2>1. \A asWord : SaidAt(asWord, Len(AllWords)) = SaidAt(asWord, k)
    BY <1>3, <1>4, <1>6, SaidAll
  <2> QED
    BY <1>7, <2>1 DEF MemoryAt, SaidUpTo
<1>9. SameMemory(sh, sh') /\ \/ sh'.java_args = sh.java_args
                             \/ Lacks(sh'.java_args, "-Xmx") /\ Lacks(sh'.java_args, "-Xss")
  <2>1. CASE sh'.java_args = sh.java_args
    BY <1>3, <2>1, OtherOptionsJvm DEF JvmInv
  <2>2. CASE \E egd : /\ OptsIn(egd, {"-Djava.security.egd="})
                      /\ sh'.java_args = sh.java_args \o egd
    <3>1. PICK egd : /\ OptsIn(egd, {"-Djava.security.egd="})
                     /\ sh'.java_args = sh.java_args \o egd
      BY <2>2
    <3>0. "-Djava.security.egd=" \notin {"-Xmx", "-Xss"}
      OBVIOUS
    <3>2. Lacks(egd, "-Xmx") /\ Lacks(egd, "-Xss") /\ IsSeq(egd) /\ IsSeq(sh.java_args)
      BY <3>0, <3>1 DEF Lacks, OptsIn, JvmInv, IsJvm
    <3>3. Lacks(sh'.java_args, "-Xmx") /\ Lacks(sh'.java_args, "-Xss")
      BY <1>8, <3>1, <3>2, BothLack DEF MemoryAt
    <3> QED
      BY <1>3, <3>3, OtherOptionsJvm DEF JvmInv
  <2> QED
    BY <1>3, <2>1, <2>2, OtherOptionsJvm DEF JvmInv
<1>10. PICK n : n = Len(AllWords)
  OBVIOUS
<1>11. MemoryAt(n)' /\ AllWords' = AllWords
  BY <1>1, <1>8, <1>9, <1>10, MemoryAtStays, EnvStays
<1> QED
  BY <1>1, <1>10, <1>11, MemoryAsSaidStays DEF MemoryInv

\* Words about nothing of memory after the last that is.
LEMMA MemoryOfJvm ==
    ASSUME NEW s, IsJvm(s), NEW jdb, NEW jffi, NEW native, NEW unsafe, NEW last,
           Around(s, jdb, jffi, native, unsafe, last),
           NEW opt \in {"-Xmx", "-Xss"}, NEW text, Lacks(s.java_args, opt),
           \/ LastIs(s.JAVA_STACK, opt, text)
           \/ LastIs(s.JAVA_MEM, opt, text) /\ Lacks(s.JAVA_STACK, opt)
    PROVE  LET jvm == JvmWords(s, jdb, jffi, native, unsafe, last)
           IN  IsSeq(jvm) /\ LastIs(jvm, opt, text)
<1>1. PICK fromFiles, opts, mem, stack, args, path :
         /\ fromFiles = s.java_opts_from_files /\ opts = s.JAVA_OPTS /\ mem = s.JAVA_MEM
         /\ stack = s.JAVA_STACK /\ args = s.java_args /\ path = LibraryPath(s)
  OBVIOUS
<1>2. /\ IsSeq(jdb) /\ IsSeq(fromFiles) /\ IsSeq(opts) /\ IsSeq(mem) /\ IsSeq(stack)
      /\ IsSeq(jffi) /\ IsSeq(args) /\ IsSeq(native) /\ IsSeq(unsafe) /\ IsSeq(path)
      /\ IsSeq(last)
  BY <1>1, LibraryPathIs DEF IsJvm, Around, OptsIn
<1>3. /\ Lacks(jffi, opt) /\ Lacks(args, opt) /\ Lacks(native, opt) /\ Lacks(unsafe, opt)
      /\ Lacks(path, opt) /\ Lacks(last, opt)
  <2>1. /\ opt \notin {"-Djffi.boot.library.path="}
        /\ opt \notin IF NativeAccess(s.major) THEN {NativeOpt} ELSE {}
        /\ opt \notin IF UnsafeMemory(s.major) THEN {UnsafeOpt} ELSE {}
        /\ opt \notin {"-Djruby.home=", "-Djruby.lib=", "-Djruby.script=", "-Djruby.shell="}
        /\ opt \notin {"-classpath", "-Djruby.home="}
                         \cup IF s.use_modules THEN {"--module-path"}
                              ELSE {"-Xbootclasspath/a:"}
    BY DEF NativeOpt, UnsafeOpt
  <2>2. Lacks(path, opt)
    BY <1>1, <2>1, LibraryPathIs, OptsLack, Zenon
  <2> QED
    BY <1>1, <2>1, <2>2, OptsLack, Zenon DEF Around
<1>4. PICK a : a = jdb \o fromFiles \o opts /\ IsSeq(a)
  BY <1>2, Concatenation
<1>5. PICK b : b = a \o mem /\ IsSeq(b)
  BY <1>2, <1>4, Concatenation
<1>6. LastIs(mem, opt, text) => LastIs(b, opt, text)
  BY <1>2, <1>4, <1>5, LastOfBoth
<1>7. PICK c : c = b \o stack /\ IsSeq(c)
  BY <1>2, <1>5, Concatenation
<1>8. LastIs(c, opt, text)
  BY <1>1, <1>2, <1>5, <1>6, <1>7, LastOfBoth
<1>9. ASSUME NEW x, IsSeq(x), LastIs(x, opt, text), NEW t, IsSeq(t), Lacks(t, opt)
      PROVE  IsSeq(x \o t) /\ LastIs(x \o t, opt, text)
  BY <1>9, Concatenation, LastOfBoth
<1>10. PICK d, e, f, g, h, jvm :
          /\ d = c \o jffi /\ e = d \o args /\ f = e \o native /\ g = f \o unsafe
          /\ h = g \o path /\ jvm = h \o last
  OBVIOUS
<1>11. IsSeq(d) /\ LastIs(d, opt, text)
  BY <1>2, <1>3, <1>7, <1>8, <1>9, <1>10
<1>12. IsSeq(e) /\ LastIs(e, opt, text)
  BY <1>2, <1>3, <1>9, <1>10, <1>11
<1>13. IsSeq(f) /\ LastIs(f, opt, text)
  BY <1>2, <1>3, <1>9, <1>10, <1>12
<1>14. IsSeq(g) /\ LastIs(g, opt, text)
  BY <1>2, <1>3, <1>9, <1>10, <1>13
<1>15. IsSeq(h) /\ LastIs(h, opt, text)
  BY <1>2, <1>3, <1>9, <1>10, <1>14
<1>16. IsSeq(jvm) /\ LastIs(jvm, opt, text)
  BY <1>2, <1>3, <1>9, <1>10, <1>15
<1>17. jvm = JvmWords(s, jdb, jffi, native, unsafe, last)
  BY <1>1, <1>4, <1>5, <1>7, <1>10, Zenon DEF JvmWords
<1> QED
  BY <1>16, <1>17

LEMMA MemoryAssembled ==
    ASSUME WordsInv, JvmInv, MemoryInv, Assemble
    PROVE  MemoryInv'
<1>1. /\ shPc = "command" /\ shPc' \in {"exec", "exited"} /\ UNCHANGED env
      /\ IsJvm(sh') /\ SameMemory(sh, sh') /\ sh'.java_args = sh.java_args
  BY CommandIs DEF JvmInv
<1>2. CASE UNCHANGED command
  BY <1>1, <1>2, MemoryAsSaidStays DEF MemoryInv
<1>3. CASE \E jdb, jffi, native, unsafe, last :
              /\ command'.jvm = JvmWords(sh', jdb, jffi, native, unsafe, last)
              /\ Around(sh', jdb, jffi, native, unsafe, last)
  <2>1. PICK s, jdb, jffi, native, unsafe, last :
              /\ s = sh'
              /\ command'.jvm = JvmWords(s, jdb, jffi, native, unsafe, last)
              /\ Around(s, jdb, jffi, native, unsafe, last)
    BY <1>3
  <2>2. PICK m : m = Len(AllWords) /\ MemoryAt(m)
    BY <1>1 DEF MemoryInv
  <2>3. \A asWord, opt, variable : SaidUpTo(opt, asWord, variable, m) = Said(opt, asWord, variable)
    <3>1. m \in 0 .. m /\ \A n \in m + 1 .. m : FALSE
      BY <2>2, WordsAre DEF WordsInv
    <3> QED
      BY <2>2, <3>1, SaidAll DEF WordsInv
  <2>4. /\ IsJvm(s) /\ s.JAVA_MEM = sh.JAVA_MEM /\ s.JAVA_STACK = sh.JAVA_STACK
        /\ s.java_args = sh.java_args
    BY <1>1, <2>1 DEF SameMemory
  <2>5. PICK jvm : jvm = JvmWords(s, jdb, jffi, native, unsafe, last)
    OBVIOUS
  <2>6. ASSUME NEW opt \in {"-Xmx", "-Xss"}, NEW said,
               \/ Heard(sh.JAVA_STACK, opt, said)
               \/ Heard(sh.JAVA_MEM, opt, said) /\ Lacks(sh.JAVA_STACK, opt),
               said # <<>>
        PROVE  Where(jvm, {opt}) # {} /\ jvm[Max(Where(jvm, {opt}))].text = Last(said).text
    <3>1. \/ LastIs(s.JAVA_STACK, opt, Last(said).text)
          \/ LastIs(s.JAVA_MEM, opt, Last(said).text) /\ Lacks(s.JAVA_STACK, opt)
      BY <2>4, <2>6 DEF Heard
    <3>2. Lacks(s.java_args, opt)
      BY <2>2, <2>4 DEF MemoryAt
    <3>3. IsSeq(jvm) /\ LastIs(jvm, opt, Last(said).text)
      BY <2>1, <2>4, <2>5, <3>1, <3>2, MemoryOfJvm
    <3> QED
      BY <3>3, WhereLast
  <2>7. /\ Heard(sh.JAVA_MEM, "-Xmx", Said("-Xmx", "-J-Xmx", env.JAVA_MEM))
        /\ Heard(sh.JAVA_STACK, "-Xss", Said("-Xss", "-J-Xss", env.JAVA_STACK))
        /\ Where(env.JAVA_STACK, {"-Xmx"}) = {} => Lacks(sh.JAVA_STACK, "-Xmx")
    BY <2>2, <2>3 DEF MemoryAt
  <2>8. MemoryAsSaid'
    BY <1>1, <2>1, <2>5, <2>6, <2>7, SaidStays DEF MemoryAsSaid, JavaHears
  <2> QED
    BY <1>1, <2>8 DEF MemoryInv
<1> QED
  BY <1>2, <1>3, CommandIs DEF JvmInv

LEMMA MemoryRead ==
    ASSUME WordsInv, JvmInv, MemoryInv, ReadEnvironment
    PROVE  MemoryInv'
<1>1. /\ shPc = "environment" /\ shPc' = "options" /\ UNCHANGED <<env, command>>
      /\ rest' = AllWords /\ env \in ShEnvironments /\ IsJvm(sh)
  BY DEF ReadEnvironment, AllWords, JvmInv
<1>2. /\ sh'.java_args = <<>>
      /\ sh'.JAVA_MEM = LastOr("-Xmx", env.JAVA_OPTS, env.JAVA_MEM)
      /\ sh'.JAVA_STACK = LastOr("-Xss", env.JAVA_OPTS, DefaultStack(env.JAVA_STACK))
  BY <1>1, EnvironmentJvm DEF MemoryInv
<1>3. IsSeq(env.JAVA_OPTS) /\ IsSeq(env.JAVA_MEM) /\ IsSeq(env.JAVA_STACK)
  BY <1>1 DEF ShEnvironments, IsSeq
<1>4. \A opt, asWord, variable :
        SaidUpTo(opt, asWord, variable, 0) = LastOr(opt, env.JAVA_OPTS, LastOr(opt, variable, <<>>))
  <2>1. 1 .. 0 = {}
    OBVIOUS
  <2> QED
    BY <2>1 DEF SaidUpTo, SaidAt
<1>5. /\ IsSeq(DefaultStack(env.JAVA_STACK))
      /\ DefaultStack(env.JAVA_STACK) = env.JAVA_STACK \/ env.JAVA_STACK = <<>>
      /\ Lacks(env.JAVA_STACK, "-Xmx") => Lacks(DefaultStack(env.JAVA_STACK), "-Xmx")
  BY <1>3, DefaultStackIs
<1>6. Heard(sh'.JAVA_MEM, "-Xmx", SaidUpTo("-Xmx", "-J-Xmx", env.JAVA_MEM, 0))
  <2>1. PICK words, variable : words = env.JAVA_OPTS /\ variable = env.JAVA_MEM
    OBVIOUS
  <2>2. Heard(LastOr("-Xmx", words, variable), "-Xmx",
              LastOr("-Xmx", words, LastOr("-Xmx", variable, <<>>)))
    BY <1>3, <2>1, HeardFirst, Zenon
  <2> QED
    BY <1>2, <1>4, <2>1, <2>2, Zenon
<1>7. /\ Heard(sh'.JAVA_STACK, "-Xss", SaidUpTo("-Xss", "-J-Xss", env.JAVA_STACK, 0))
      /\ Lacks(env.JAVA_STACK, "-Xmx") => Lacks(sh'.JAVA_STACK, "-Xmx")
  <2>1. PICK words, variable, kept :
           /\ words = env.JAVA_OPTS /\ variable = env.JAVA_STACK
           /\ kept = DefaultStack(env.JAVA_STACK)
    OBVIOUS
  <2>2. IsSeq(words) /\ IsSeq(variable) /\ IsSeq(kept) /\ (kept = variable \/ variable = <<>>)
    BY <1>3, <1>5, <2>1
  <2>3. Heard(LastOr("-Xss", words, kept), "-Xss",
              LastOr("-Xss", words, LastOr("-Xss", variable, <<>>)))
    BY <2>2, HeardFirst, Zenon
  <2>4. Lacks(kept, "-Xmx") => Lacks(LastOr("-Xss", words, kept), "-Xmx")
    BY <2>2, OneLacks
  <2> QED
    BY <1>2, <1>4, <1>5, <2>1, <2>3, <2>4, Zenon
<1>8. Lacks(<<>>, "-Xmx") /\ Lacks(<<>>, "-Xss")
  <2>1. OptsIn(<<>>, {})
    BY FewWords
  <2> QED
    BY <2>1 DEF OptsIn, Lacks
<1>9. Where(env.JAVA_STACK, {"-Xmx"}) = {} => Lacks(env.JAVA_STACK, "-Xmx")
  BY <1>3, WhereNone
<1>10. MemoryAt(0)'
  BY <1>1, <1>2, <1>6, <1>7, <1>8, <1>9, SaidStays DEF MemoryAt
<1>11. AllWords' = AllWords /\ Len(AllWords) - Len(AllWords) = 0
  BY <1>1, WordsAre, EnvStays
<1> QED
  BY <1>1, <1>10, <1>11, MemoryAsSaidStays DEF MemoryInv

LEMMA MemoryStep == EndInv /\ JvmInv /\ MemoryInv /\ [Next]_vars => MemoryInv'
<1> SUFFICES ASSUME EndInv, JvmInv, MemoryInv, [Next]_vars PROVE MemoryInv'
  OBVIOUS
<1>1. WordsInv /\ WordsInv' /\ IsJvm(sh) /\ env \in ShEnvironments /\ rest \in Seq(ShWords)
  BY EndStep DEF EndInv, WordsInv, JvmInv
<1>2. ASSUME UNCHANGED <<env, command>>, shPc' \notin {"options", "command"},
             shPc' \in {"java", "version", "environment"} => sh'.java_args = <<>>
      PROVE  MemoryInv'
  BY <1>2, MemoryAsSaidStays DEF MemoryInv
<1>3. CASE FindJava
  <2>1. /\ sh'.java_args = <<>> /\ UNCHANGED <<env, command>>
        /\ shPc' \in {"exited", "version"}
    BY <1>1, <1>3, FindJavaJvm DEF MemoryInv
  <2> QED
    BY <1>2, <2>1
<1>4. CASE CheckVersion
  <2>1. shPc = "version" /\ sh.java_args = <<>> /\ UNCHANGED <<env, sh, command>>
    BY <1>4 DEF CheckVersion, MemoryInv
  <2>2. shPc' \in {"exited", "environment"}
    BY <1>4 DEF CheckVersion, ShExit
  <2> QED
    BY <1>2, <2>1, <2>2
<1>5. CASE ScriptUnchanged
  <2>1. CASE shPc' = "exited"
    BY <1>2, <1>5, <2>1 DEF ScriptUnchanged
  <2>2. CASE UNCHANGED <<shPc, env, rest, sh, command>>
    <3>1. AllWords' = AllWords
      BY <2>2, EnvStays
    <3>2. \A k : MemoryAt(k) => MemoryAt(k)'
      BY <2>2, MemoryAtStays DEF SameMemory
    <3> QED
      BY <2>2, <3>1, <3>2, MemoryAsSaidStays DEF MemoryInv
  <2> QED
    BY <1>5, <2>1, <2>2 DEF ScriptUnchanged
<1>6. CASE OptionForRuby \/ OptionClassPath
  <2>1. /\ shPc = "options" /\ UNCHANGED <<env, command>> /\ shPc' \in {"options", "exited"}
        /\ Head(rest).opt \in TakesValue \cup {"-J-cp"}
    BY <1>6 DEF OptionForRuby, OptionClassPath, ShExit
  <2>2. SameMemory(sh, sh') /\ sh'.java_args = sh.java_args
    <3>1. ~OptionsEnd
      BY <1>6 DEF OptionForRuby, OptionClassPath, OptionsEnd, TakesValue, NotOptions
    <3>2. \/ sh'.java_args = sh.java_args /\ ~OptionsEnd
          \/ OptionsEnd
      BY <1>1, <1>6, OtherOptionsJvm, Zenon
    <3> QED
      BY <1>1, <1>6, <3>1, <3>2, OtherOptionsJvm, Zenon
  <2>3. shPc' = "options" => Len(rest) > 1 /\ Len(rest') = Len(rest) - 2
    BY <1>1, <1>6, OptionForRubyStep, OptionClassPathStep
  <2> QED
    BY <1>1, <1>2, <2>1, <2>2, <2>3, MemoryTwoWords
<1> QED
  BY <1>1, <1>3, <1>4, <1>5, <1>6, StepsOfScript, MemoryRead, MemoryOneWord, MemoryEnd,
     MemoryAssembled

LEMMA MemoryInit == Init => MemoryInv
BY NewScriptJvm DEF Init, ShInit, MemoryInv, MemoryAsSaid, HasCommand

\* MemoryAsSaid: whatever the default, the files and the order of the words are, java's
\* last -Xmx and -Xss are the user's: of the last such word on the command line or in
\* JRUBY_OPTS, or else of JAVA_OPTS, or of JAVA_MEM and JAVA_STACK.
THEOREM MemoryIsTheUsers == Spec => []MemoryAsSaid
<1>1. EndInv => WordsInv
  BY DEF EndInv
<1>2. MemoryInv => MemoryAsSaid
  BY DEF MemoryInv
<1> QED
  BY <1>1, <1>2, EndInit, EndStep, JvmInit, JvmStep, MemoryInit, MemoryStep, PTL DEF Spec

-----------------------------------------------------------------------------
(* The flags of newer Javas. *)

Flags == {"--module-path", "@", NativeOpt, UnsafeOpt}

NoFlags(words) == \A opt \in Flags : Lacks(words, opt)

\* `release' does not lie, and modules are there from Java 9 on.
RealJavas ==
    \A home \in DOMAIN Javas :
        /\ Javas[home].release \in {0, Javas[home].version}
        /\ Javas[home].modules => Javas[home].version >= 9
        /\ Javas[home].release >= 9 => Javas[home].modules

\* No flag is the user's own.
FlagsAreScripts ==
    \A e \in Scenarios :
        /\ NoFlags(e.JAVA_OPTS) /\ NoFlags(e.JAVA_MEM) /\ NoFlags(e.JAVA_STACK)
        /\ \A file \in OptionFiles : NoFlags(e.files[file])
        /\ \A words \in {e.JRUBY_OPTS, e.line} : \A n \in 1 .. Len(words) :
              words[n].opt = "-Jopt" => words[n].text[1] \notin Flags

\* Of the words that the script has for the JVM, a flag is only the "@" of a file.
FlagsOf(s) ==
    /\ NoFlags(s.JAVA_OPTS) /\ NoFlags(s.JAVA_MEM) /\ NoFlags(s.JAVA_STACK)
    /\ NoFlags(s.java_args)
    /\ \A opt \in Flags : Lacks(s.java_opts_from_files, opt) \/ (opt = "@" /\ s.use_modules)

FlagInv ==
    /\ FlagsOf(sh)
    /\ shPc = "java" => sh.java_opts_from_files = <<>>
    /\ shPc \in {"version", "environment", "options", "command"} => IsJava(sh)
    /\ shPc \in {"environment", "options", "command"} => sh.major >= MinimumJava
    /\ FlagsFitJava

LEMMA FlagsStay ==
    ASSUME NEW s, FlagsOf(s), NEW t, SameJava(s, t), SameMemory(s, t), t.JAVA_OPTS = s.JAVA_OPTS,
           t.java_opts_from_files = s.java_opts_from_files, NoFlags(t.java_args)
    PROVE  FlagsOf(t)
BY DEF FlagsOf, SameJava, SameMemory

\* Reading a file.
LEMMA FlagsOfFile ==
    ASSUME FlagsAreScripts, env \in Scenarios, env \in ShEnvironments, NEW s, IsJvm(s),
           NEW words, IsSeq(words), NEW file \in OptionFiles, NEW opt \in Flags,
           Lacks(words, opt) \/ (opt = "@" /\ s.use_modules)
    PROVE  /\ IsSeq(words \o FromFile(s, file))
           /\ Lacks(words \o FromFile(s, file), opt) \/ (opt = "@" /\ s.use_modules)
<1>1. IsSeq(env.files[file]) /\ Lacks(env.files[file], opt)
  BY DEF ShEnvironments, IsSeq, FlagsAreScripts, NoFlags
<1>2. PICK at : at = ShWord("@", <<file>>)
  OBVIOUS
<1>3. at.opt = "@"
  BY <1>2 DEF ShWord
<1>4. IsSeq(<<at>>) /\ (opt # "@" => Lacks(<<at>>, opt))
  BY <1>3, SingleWord DEF Lacks
<1>5. PICK new : new = FromFile(s, file)
  OBVIOUS
<1>6. IsSeq(new) /\ (Lacks(new, opt) \/ (opt = "@" /\ s.use_modules))
  BY <1>1, <1>2, <1>4, <1>5 DEF FromFile
<1> QED
  BY <1>5, <1>6, Concatenation, BothLack

LEMMA LackBoth ==
    ASSUME NEW s, IsSeq(s), NEW t, IsSeq(t), NEW opt
    PROVE  Lacks(s \o t, opt) <=> Lacks(s, opt) /\ Lacks(t, opt)
<1>1. PICK u : u = s \o t
  OBVIOUS
<1>2. /\ Len(s) \in Nat /\ Len(t) \in Nat /\ Len(u) = Len(s) + Len(t)
      /\ \A i \in 1 .. Len(s) : u[i] = s[i]
      /\ \A i \in 1 .. Len(t) : u[Len(s) + i] = t[i]
  BY <1>1, Concatenation
<1>3. ASSUME Lacks(u, opt) PROVE Lacks(s, opt) /\ Lacks(t, opt)
  <2>1. \A i \in 1 .. Len(s) : i \in 1 .. Len(u)
    BY <1>2
  <2>2. \A i \in 1 .. Len(t) : Len(s) + i \in 1 .. Len(u)
    BY <1>2
  <2> QED
    BY <1>2, <1>3, <2>1, <2>2 DEF Lacks
<1> QED
  BY <1>1, <1>3, BothLack

LEMMA LacksOfJvm ==
    ASSUME NEW s, IsJvm(s), NEW jdb, NEW jffi, NEW native, NEW unsafe, NEW last,
           Around(s, jdb, jffi, native, unsafe, last)
    PROVE  LET jvm == JvmWords(s, jdb, jffi, native, unsafe, last)
           IN  /\ IsSeq(jvm)
               /\ \A opt : Lacks(jvm, opt) <=>
                    /\ Lacks(jdb, opt) /\ Lacks(s.java_opts_from_files, opt)
                    /\ Lacks(s.JAVA_OPTS, opt) /\ Lacks(s.JAVA_MEM, opt)
                    /\ Lacks(s.JAVA_STACK, opt) /\ Lacks(jffi, opt) /\ Lacks(s.java_args, opt)
                    /\ Lacks(native, opt) /\ Lacks(unsafe, opt) /\ Lacks(LibraryPath(s), opt)
                    /\ Lacks(last, opt)
<1>1. PICK fromFiles, opts, mem, stack, args, path :
         /\ fromFiles = s.java_opts_from_files /\ opts = s.JAVA_OPTS /\ mem = s.JAVA_MEM
         /\ stack = s.JAVA_STACK /\ args = s.java_args /\ path = LibraryPath(s)
  OBVIOUS
<1>2. /\ IsSeq(jdb) /\ IsSeq(fromFiles) /\ IsSeq(opts) /\ IsSeq(mem) /\ IsSeq(stack)
      /\ IsSeq(jffi) /\ IsSeq(args) /\ IsSeq(native) /\ IsSeq(unsafe) /\ IsSeq(path)
      /\ IsSeq(last)
  BY <1>1, LibraryPathIs DEF IsJvm, Around, OptsIn
<1>3. ASSUME NEW x, IsSeq(x), NEW t, IsSeq(t)
      PROVE  IsSeq(x \o t) /\ \A opt : Lacks(x \o t, opt) <=> Lacks(x, opt) /\ Lacks(t, opt)
  BY <1>3, Concatenation, LackBoth
<1>4. PICK a, b, c, d, e, f, g, h, i, jvm :
          /\ a = jdb \o fromFiles /\ b = a \o opts /\ c = b \o mem /\ d = c \o stack
          /\ e = d \o jffi /\ f = e \o args /\ g = f \o native /\ h = g \o unsafe
          /\ i = h \o path /\ jvm = i \o last
  OBVIOUS
<1>5. IsSeq(a) /\ \A opt : Lacks(a, opt) <=> Lacks(jdb, opt) /\ Lacks(fromFiles, opt)
  BY <1>2, <1>3, <1>4
<1>6. IsSeq(b) /\ \A opt : Lacks(b, opt) <=> Lacks(a, opt) /\ Lacks(opts, opt)
  BY <1>2, <1>3, <1>4, <1>5
<1>7. IsSeq(c) /\ \A opt : Lacks(c, opt) <=> Lacks(b, opt) /\ Lacks(mem, opt)
  BY <1>2, <1>3, <1>4, <1>6
<1>8. IsSeq(d) /\ \A opt : Lacks(d, opt) <=> Lacks(c, opt) /\ Lacks(stack, opt)
  BY <1>2, <1>3, <1>4, <1>7
<1>9. IsSeq(e) /\ \A opt : Lacks(e, opt) <=> Lacks(d, opt) /\ Lacks(jffi, opt)
  BY <1>2, <1>3, <1>4, <1>8
<1>10. IsSeq(f) /\ \A opt : Lacks(f, opt) <=> Lacks(e, opt) /\ Lacks(args, opt)
  BY <1>2, <1>3, <1>4, <1>9
<1>11. IsSeq(g) /\ \A opt : Lacks(g, opt) <=> Lacks(f, opt) /\ Lacks(native, opt)
  BY <1>2, <1>3, <1>4, <1>10
<1>12. IsSeq(h) /\ \A opt : Lacks(h, opt) <=> Lacks(g, opt) /\ Lacks(unsafe, opt)
  BY <1>2, <1>3, <1>4, <1>11
<1>13. IsSeq(i) /\ \A opt : Lacks(i, opt) <=> Lacks(h, opt) /\ Lacks(path, opt)
  BY <1>2, <1>3, <1>4, <1>12
<1>14. IsSeq(jvm) /\ \A opt : Lacks(jvm, opt) <=> Lacks(i, opt) /\ Lacks(last, opt)
  BY <1>2, <1>3, <1>4, <1>13
<1>15. jvm = JvmWords(s, jdb, jffi, native, unsafe, last)
  BY <1>1, <1>4, Zenon DEF JvmWords
<1>16. \A opt : Lacks(jvm, opt) <=>
          /\ Lacks(jdb, opt) /\ Lacks(fromFiles, opt) /\ Lacks(opts, opt) /\ Lacks(mem, opt)
          /\ Lacks(stack, opt) /\ Lacks(jffi, opt) /\ Lacks(args, opt) /\ Lacks(native, opt)
          /\ Lacks(unsafe, opt) /\ Lacks(path, opt) /\ Lacks(last, opt)
  BY <1>5, <1>6, <1>7, <1>8, <1>9, <1>10, <1>11, <1>12, <1>13, <1>14
<1> QED
  BY <1>1, <1>14, <1>15, <1>16

LEMMA FlagsFitStays == FlagsFitJava /\ UNCHANGED command => FlagsFitJava'
BY DEF FlagsFitJava, HasCommand, Given

LEMMA FlagsRead ==
    ASSUME FlagsAreScripts, JvmInv, FlagInv, ReadEnvironment
    PROVE  FlagsOf(sh')
<1>1. env \in Scenarios /\ env \in ShEnvironments /\ IsJvm(sh) /\ FlagsOf(sh)
  BY DEF JvmInv, FlagInv
<1>2. /\ SameJava(sh, sh') /\ sh'.java_args = sh.java_args
      /\ sh'.JAVA_OPTS = WithoutMemory(env.JAVA_OPTS)
      /\ sh'.JAVA_MEM = LastOr("-Xmx", env.JAVA_OPTS, env.JAVA_MEM)
      /\ sh'.JAVA_STACK = LastOr("-Xss", env.JAVA_OPTS, DefaultStack(env.JAVA_STACK))
      /\ sh'.java_opts_from_files =
            ((sh.java_opts_from_files \o FromFile(sh, "installed"))
               \o FromFile(sh, "home")) \o FromFile(sh, "pwd")
  BY <1>1, EnvironmentJvm
<1>3. /\ IsSeq(env.JAVA_OPTS) /\ IsSeq(env.JAVA_MEM) /\ IsSeq(env.JAVA_STACK)
      /\ NoFlags(env.JAVA_OPTS) /\ NoFlags(env.JAVA_MEM) /\ NoFlags(env.JAVA_STACK)
  BY <1>1 DEF ShEnvironments, IsSeq, FlagsAreScripts
<1>4. \A opt \in Flags : opt # "-Xmx" /\ opt # "-Xss"
  BY DEF Flags, NativeOpt, UnsafeOpt
<1>5. NoFlags(sh'.JAVA_OPTS)
  BY <1>2, <1>3, WithoutMemoryIs DEF NoFlags
<1>6. NoFlags(sh'.JAVA_MEM)
  BY <1>2, <1>3, <1>4, OneLacks DEF NoFlags
<1>7. NoFlags(sh'.JAVA_STACK)
  <2>1. PICK kept : kept = DefaultStack(env.JAVA_STACK)
    OBVIOUS
  <2>2. IsSeq(kept) /\ NoFlags(kept)
    BY <1>3, <1>4, <2>1, DefaultStackIs DEF NoFlags
  <2> QED
    BY <1>2, <1>3, <1>4, <2>1, <2>2, OneLacks DEF NoFlags
<1>8. ASSUME NEW opt \in Flags
      PROVE  Lacks(sh'.java_opts_from_files, opt) \/ (opt = "@" /\ sh'.use_modules)
  <2>1. PICK a, b, c, d : /\ a = sh.java_opts_from_files
                          /\ b = a \o FromFile(sh, "installed")
                          /\ c = b \o FromFile(sh, "home")
                          /\ d = c \o FromFile(sh, "pwd")
    OBVIOUS
  <2>2. "installed" \in OptionFiles /\ "home" \in OptionFiles /\ "pwd" \in OptionFiles
    BY DEF OptionFiles
  <2>3. IsSeq(a) /\ (Lacks(a, opt) \/ (opt = "@" /\ sh.use_modules))
    BY <1>1, <2>1 DEF IsJvm, FlagsOf
  <2>4. IsSeq(b) /\ (Lacks(b, opt) \/ (opt = "@" /\ sh.use_modules))
    BY <1>1, <2>1, <2>2, <2>3, FlagsOfFile
  <2>5. IsSeq(c) /\ (Lacks(c, opt) \/ (opt = "@" /\ sh.use_modules))
    BY <1>1, <2>1, <2>2, <2>4, FlagsOfFile
  <2>6. IsSeq(d) /\ (Lacks(d, opt) \/ (opt = "@" /\ sh.use_modules))
    BY <1>1, <2>1, <2>2, <2>5, FlagsOfFile
  <2>7. d = sh'.java_opts_from_files
    BY <1>2, <2>1
  <2> QED
    BY <1>2, <2>6, <2>7 DEF SameJava
<1> QED
  BY <1>1, <1>2, <1>5, <1>6, <1>7, <1>8 DEF FlagsOf

LEMMA FlagsOneWord ==
    ASSUME FlagsAreScripts, WordsInv, JvmInv, FlagInv, OptionSwitch
    PROVE  FlagsOf(sh')
<1>1. /\ shPc = "options" /\ rest # <<>> /\ sh' = ReadSwitch(sh, Head(rest))
  BY DEF OptionSwitch
<1>2. PICK k : ReadTo(k)
  BY <1>1 DEF WordsInv
<1>3. /\ env \in Scenarios /\ env \in ShEnvironments /\ IsJvm(sh) /\ FlagsOf(sh)
      /\ Len(AllWords) \in Nat
  BY WordsAre DEF JvmInv, FlagInv
<1>4. k < Len(AllWords) /\ Head(rest) = AllWords[k + 1]
  BY <1>1, <1>2, HeadIsNext
<1>5. k + 1 \in 1 .. Len(AllWords)
  BY <1>2, <1>3, <1>4 DEF ReadTo
<1>6. PICK w : w = AllWords[k + 1] /\ w \in ShWords
  BY <1>3, <1>5, WordsAre
<1>7. w.opt = "-Jopt" => w.text[1] \notin Flags
  <2> DEFINE S == ShWords
  <2>1. env.JRUBY_OPTS \in Seq(S) /\ env.line \in Seq(S)
    BY <1>3 DEF ShEnvironments
  <2> HIDE DEF S
  <2>2. PICK a, b, all : a = env.JRUBY_OPTS /\ b = env.line /\ all = a \o b
    OBVIOUS
  <2>3. AllWords = all
    BY <2>2 DEF AllWords
  <2>4. \A words \in {a, b} : \A n \in 1 .. Len(words) :
            words[n].opt = "-Jopt" => words[n].text[1] \notin Flags
    BY <1>3, <2>2 DEF FlagsAreScripts
  <2>5. PICK p : p = k + 1
    OBVIOUS
  <2>6. IsSeq(a) /\ IsSeq(b) /\ p \in 1 .. Len(a \o b)
    BY <1>5, <2>1, <2>2, <2>3, <2>5 DEF IsSeq
  <2>7. \/ p \in 1 .. Len(a) /\ (a \o b)[p] = a[p]
        \/ \E i \in 1 .. Len(b) : p = Len(a) + i /\ (a \o b)[p] = b[i]
    BY <2>6, PlacesOfBoth
  <2>8. w = (a \o b)[p]
    BY <1>6, <2>2, <2>3, <2>5
  <2> QED
    BY <2>2, <2>4, <2>7, <2>8
<1>8. /\ SameJava(sh, sh') /\ sh'.JAVA_OPTS = sh.JAVA_OPTS
      /\ sh'.java_args = sh.java_args \o ForJava(w)
      /\ sh'.JAVA_MEM = IF w.opt = "-J-Xmx" THEN << ShWord("-Xmx", w.text) >> ELSE sh.JAVA_MEM
      /\ sh'.JAVA_STACK = IF w.opt = "-J-Xss" THEN << ShWord("-Xss", w.text) >>
                          ELSE sh.JAVA_STACK
      /\ sh'.java_opts_from_files =
            IF w.opt = "--dev" THEN sh.java_opts_from_files \o FromFile(sh, "dev")
            ELSE sh.java_opts_from_files
  <2>1. sh' = ReadSwitch(sh, w)
    BY <1>1, <1>4, <1>6
  <2> QED
    BY <1>3, <1>6, <2>1, SwitchJvm, Zenon
<1>9. NoFlags(sh'.java_args)
  <2>1. OptsIn(ForJava(w), IF w.opt = "-Jopt" THEN {w.text[1]} ELSE OwnOpts)
    BY ForJavaIs
  <2>2. \A opt \in Flags : opt \notin IF w.opt = "-Jopt" THEN {w.text[1]} ELSE OwnOpts
    BY <1>7 DEF Flags, NativeOpt, UnsafeOpt, OwnOpts
  <2>3. IsSeq(ForJava(w)) /\ \A opt \in Flags : Lacks(ForJava(w), opt)
    BY <2>1, <2>2 DEF OptsIn, Lacks
  <2> QED
    BY <1>3, <1>8, <2>3, BothLack DEF NoFlags, FlagsOf, IsJvm
<1>10. \A opt \in {"-Xmx", "-Xss"} : \A text : NoFlags(<< ShWord(opt, text) >>)
  <2> SUFFICES ASSUME NEW opt \in {"-Xmx", "-Xss"}, NEW text
               PROVE  NoFlags(<< ShWord(opt, text) >>)
    OBVIOUS
  <2>1. PICK v : v = ShWord(opt, text)
    OBVIOUS
  <2>2. v.opt = opt /\ opt \notin Flags
    BY <2>1 DEF ShWord, Flags, NativeOpt, UnsafeOpt
  <2> QED
    BY <2>1, <2>2, SingleWord DEF NoFlags, Lacks
<1>11. NoFlags(sh'.JAVA_MEM) /\ NoFlags(sh'.JAVA_STACK)
  BY <1>3, <1>8, <1>10 DEF FlagsOf
<1>12. ASSUME NEW opt \in Flags
       PROVE  Lacks(sh'.java_opts_from_files, opt) \/ (opt = "@" /\ sh'.use_modules)
  <2>1. "dev" \in OptionFiles
    BY DEF OptionFiles
  <2>2. PICK a : a = sh.java_opts_from_files
    OBVIOUS
  <2>3. IsSeq(a) /\ (Lacks(a, opt) \/ (opt = "@" /\ sh.use_modules))
    BY <1>3, <2>2 DEF IsJvm, FlagsOf
  <2>4. Lacks(a \o FromFile(sh, "dev"), opt) \/ (opt = "@" /\ sh.use_modules)
    BY <1>3, <2>1, <2>3, FlagsOfFile
  <2> QED
    BY <1>8, <2>2, <2>3, <2>4 DEF SameJava
<1> QED
  BY <1>3, <1>8, <1>9, <1>11, <1>12 DEF FlagsOf

LEMMA FlagsAssembled ==
    ASSUME RealJavas, FlagsAreScripts, JvmInv, FlagInv, Assemble
    PROVE  FlagInv'
<1>1. /\ shPc = "command" /\ shPc' \in {"exec", "exited"} /\ UNCHANGED env
      /\ IsJvm(sh') /\ SameJava(sh, sh') /\ SameMemory(sh, sh')
      /\ sh'.JAVA_OPTS = sh.JAVA_OPTS /\ sh'.java_args = sh.java_args
      /\ sh'.java_opts_from_files =
            IF sh.use_modules THEN sh.java_opts_from_files \o FromFile(sh, "module")
            ELSE sh.java_opts_from_files
  BY CommandIs DEF JvmInv
<1>2. /\ env \in Scenarios /\ env \in ShEnvironments /\ IsJvm(sh) /\ FlagsOf(sh)
      /\ IsJava(sh) /\ sh.major >= MinimumJava
  BY <1>1 DEF JvmInv, FlagInv
<1>3. FlagsOf(sh')
  <2>1. ASSUME NEW opt \in Flags
        PROVE  Lacks(sh'.java_opts_from_files, opt) \/ (opt = "@" /\ sh'.use_modules)
    <3>1. "module" \in OptionFiles
      BY DEF OptionFiles
    <3>2. PICK a : a = sh.java_opts_from_files
      OBVIOUS
    <3>3. IsSeq(a) /\ (Lacks(a, opt) \/ (opt = "@" /\ sh.use_modules))
      BY <1>2, <3>2 DEF IsJvm, FlagsOf
    <3>4. Lacks(a \o FromFile(sh, "module"), opt) \/ (opt = "@" /\ sh.use_modules)
      BY <1>2, <3>1, <3>3, FlagsOfFile
    <3> QED
      BY <1>1, <3>2, <3>3, <3>4 DEF SameJava
  <2> QED
    BY <1>1, <1>2, <2>1 DEF FlagsOf, SameMemory
<1>4. CASE UNCHANGED command
  BY <1>1, <1>3, <1>4, FlagsFitStays DEF FlagInv
<1>5. CASE \E jdb, jffi, native, unsafe, last :
              /\ command'.exe[1] = sh'.JAVACMD
              /\ command'.jvm = JvmWords(sh', jdb, jffi, native, unsafe, last)
              /\ Around(sh', jdb, jffi, native, unsafe, last)
  <2>1. PICK s, jdb, jffi, native, unsafe, last, jvm, path :
              /\ s = sh' /\ command'.exe[1] = s.JAVACMD
              /\ jvm = JvmWords(s, jdb, jffi, native, unsafe, last)
              /\ command'.jvm = jvm /\ path = LibraryPath(s)
              /\ Around(s, jdb, jffi, native, unsafe, last)
    BY <1>5
  <2>2. PICK java : java = Javas[s.JAVACMD]
    OBVIOUS
  <2>3. /\ java.release \in Nat /\ java.version \in Nat /\ java.release \in {0, java.version}
        /\ java.modules => java.version >= 9
        /\ java.release >= 9 => java.modules
        /\ s.use_modules = java.modules
        /\ s.major = IF java.release = 0 THEN 8 ELSE java.release
        /\ s.major >= MinimumJava
    <3>1. s.JAVACMD \in DOMAIN Javas /\ IsJava(s) /\ s.major >= MinimumJava
      BY <1>1, <1>2, <2>1 DEF SameJava, IsJava
    <3>2. java \in JavaRecords
      BY <2>2, <3>1, ShAssumption
    <3>3. java.release \in Nat /\ java.version \in Nat
      BY <3>2 DEF JavaRecords
    <3> QED
      BY <2>2, <3>1, <3>3 DEF RealJavas, IsJava
  <2>4. /\ IsSeq(jvm)
        /\ \A opt : Lacks(jvm, opt) <=>
             /\ Lacks(jdb, opt) /\ Lacks(s.java_opts_from_files, opt)
             /\ Lacks(s.JAVA_OPTS, opt) /\ Lacks(s.JAVA_MEM, opt)
             /\ Lacks(s.JAVA_STACK, opt) /\ Lacks(jffi, opt) /\ Lacks(s.java_args, opt)
             /\ Lacks(native, opt) /\ Lacks(unsafe, opt) /\ Lacks(path, opt)
             /\ Lacks(last, opt)
    BY <1>1, <2>1, LacksOfJvm
  <2>5. /\ \A opt \in Flags : Lacks(jdb, opt) /\ Lacks(jffi, opt) /\ Lacks(last, opt)
        /\ \A opt : opt # NativeOpt \/ ~NativeAccess(s.major) => Lacks(native, opt)
        /\ \A opt : opt # UnsafeOpt \/ ~UnsafeMemory(s.major) => Lacks(unsafe, opt)
        /\ \A opt \in Flags : opt # "--module-path" \/ ~s.use_modules => Lacks(path, opt)
    <3>1. /\ \A opt \in Flags : /\ opt \notin {"-sourcepath"}
                                /\ opt \notin {"-Djffi.boot.library.path="}
                                /\ opt \notin {"-Djruby.home=", "-Djruby.lib=", "-Djruby.script=",
                                               "-Djruby.shell="}
          /\ \A opt : opt # NativeOpt \/ ~NativeAccess(s.major)
                        => opt \notin IF NativeAccess(s.major) THEN {NativeOpt} ELSE {}
          /\ \A opt : opt # UnsafeOpt \/ ~UnsafeMemory(s.major)
                        => opt \notin IF UnsafeMemory(s.major) THEN {UnsafeOpt} ELSE {}
          /\ \A opt \in Flags : opt # "--module-path" \/ ~s.use_modules
                => opt \notin {"-classpath", "-Djruby.home="}
                                 \cup IF s.use_modules THEN {"--module-path"}
                                      ELSE {"-Xbootclasspath/a:"}
      BY DEF Flags, NativeOpt, UnsafeOpt
    <3>2. \A opt \in Flags : opt # "--module-path" \/ ~s.use_modules => Lacks(path, opt)
      BY <2>1, <3>1, LibraryPathIs, OptsLack, Zenon
    <3> QED
      BY <2>1, <3>1, <3>2, OptsLack, Zenon DEF Around
  <2>6. /\ s.use_modules => ~Lacks(jvm, "--module-path")
        /\ NativeAccess(s.major) => ~Lacks(jvm, NativeOpt)
    BY <2>1, <2>4, LibraryPathIs DEF Around
  <2>7. FlagsOf(s)
    BY <1>3, <2>1
  <2>8. /\ Lacks(jvm, "--module-path") \/ s.use_modules
        /\ Lacks(jvm, "@") \/ s.use_modules
        /\ Lacks(jvm, NativeOpt) \/ NativeAccess(s.major)
        /\ Lacks(jvm, UnsafeOpt) \/ UnsafeMemory(s.major)
    BY <2>4, <2>5, <2>7 DEF FlagsOf, NoFlags, Flags, NativeOpt, UnsafeOpt
  <2>9. \A opt : Given(opt)' <=> ~Lacks(jvm, opt)
    <3>1. DOMAIN jvm = 1 .. Len(jvm)
      BY <2>4 DEF IsSeq
    <3> QED
      BY <2>1, <3>1 DEF Given, Range, Lacks
  <2>10. /\ NativeAccess(s.major) => java.version >= 22
         /\ UnsafeMemory(s.major) => java.version >= 23
         /\ java.release # 0 => /\ java.version >= MinimumJava
                                /\ java.version >= 9 => s.use_modules
                                /\ java.version >= 22 => NativeAccess(s.major)
    <3>1. MinimumJava \in Nat
      BY ShAssumption
    <3>2. CASE java.release = 0
      <4>1. s.major = 8
        BY <2>3, <3>2
      <4> QED
        BY <3>2, <4>1 DEF NativeAccess, UnsafeMemory
    <3>3. CASE java.release # 0
      <4>1. s.major = java.version /\ java.release = java.version
        BY <2>3, <3>3
      <4> QED
        BY <2>3, <3>1, <3>3, <4>1 DEF NativeAccess, UnsafeMemory
    <3> QED
      BY <3>2, <3>3
  <2>11. FlagsFitJava'
    BY <2>1, <2>2, <2>3, <2>6, <2>8, <2>9, <2>10 DEF FlagsFitJava, NativeOpt, UnsafeOpt
  <2> QED
    BY <1>1, <1>3, <2>11 DEF FlagInv
<1> QED
  BY <1>4, <1>5, CommandIs DEF JvmInv

LEMMA FlagStep ==
    ASSUME RealJavas, FlagsAreScripts
    PROVE  WordsInv /\ JvmInv /\ FlagInv /\ [Next]_vars => FlagInv'
<1> SUFFICES ASSUME WordsInv, JvmInv, FlagInv, [Next]_vars PROVE FlagInv'
  OBVIOUS
<1>1. /\ IsJvm(sh) /\ env \in ShEnvironments /\ rest \in Seq(ShWords)
      /\ FlagsOf(sh) /\ FlagsFitJava
  BY DEF WordsInv, JvmInv, FlagInv
<1>2. ASSUME SameJava(sh, sh'), IsJava(sh) PROVE IsJava(sh') /\ sh'.major = sh.major
  BY <1>2 DEF SameJava, IsJava
<1>3. CASE FindJava
  <2>1. /\ shPc = "java" /\ SameMemory(sh, sh')
        /\ sh'.JAVA_OPTS = sh.JAVA_OPTS /\ sh'.java_args = sh.java_args
        /\ sh'.java_opts_from_files = sh.java_opts_from_files
        /\ shPc' \in {"exited", "version"} /\ (shPc' = "version" => IsJava(sh'))
        /\ UNCHANGED command
    BY <1>1, <1>3, FindJavaJvm
  <2>2. sh.java_opts_from_files = <<>>
    BY <2>1 DEF FlagInv
  <2>3. \A opt : Lacks(<<>>, opt)
    BY FewWords DEF OptsIn, Lacks
  <2>4. FlagsOf(sh')
    BY <1>1, <2>1, <2>2, <2>3 DEF FlagsOf, SameMemory
  <2> QED
    BY <1>1, <2>1, <2>4, FlagsFitStays DEF FlagInv
<1>4. CASE CheckVersion
  <2>1. shPc = "version" /\ UNCHANGED <<sh, command>> /\ IsJava(sh)
    BY <1>4 DEF CheckVersion, FlagInv
  <2>2. /\ shPc' \in {"exited", "environment"}
        /\ shPc' = "environment" => ~(sh.major < MinimumJava)
    BY <1>4 DEF CheckVersion, ShExit
  <2>3. sh.major \in Nat /\ MinimumJava \in Nat
    <3>1. Javas[sh.JAVACMD] \in JavaRecords
      BY <2>1, ShAssumption DEF IsJava
    <3>2. PICK release : release = Javas[sh.JAVACMD].release
      OBVIOUS
    <3>3. release \in Nat
      BY <3>1, <3>2 DEF JavaRecords
    <3>4. sh.major = IF release = 0 THEN 8 ELSE release
      BY <2>1, <3>2 DEF IsJava
    <3>5. MinimumJava \in Nat
      BY ShAssumption
    <3> QED
      BY <3>3, <3>4, <3>5
  <2>4. shPc' = "environment" => sh.major >= MinimumJava
    BY <2>2, <2>3
  <2> QED
    BY <1>1, <2>1, <2>2, <2>4, FlagsFitStays DEF FlagInv, FlagsOf, IsJava
<1>5. CASE ScriptUnchanged
  BY <1>1, <1>5, FlagsFitStays DEF ScriptUnchanged, FlagInv, FlagsOf, IsJava
<1>6. CASE ReadEnvironment
  <2>1. shPc = "environment" /\ shPc' = "options" /\ UNCHANGED command
    BY <1>6 DEF ReadEnvironment
  <2>2. FlagsOf(sh') /\ SameJava(sh, sh')
    BY <1>1, <1>6, FlagsRead, EnvironmentJvm
  <2> QED
    BY <1>1, <1>2, <2>1, <2>2, FlagsFitStays DEF FlagInv
<1>7. CASE OptionSwitch
  <2>1. /\ shPc = "options" /\ shPc' = "options" /\ UNCHANGED command
        /\ sh' = ReadSwitch(sh, Head(rest)) /\ rest # <<>>
    BY <1>7 DEF OptionSwitch
  <2>2. Head(rest) \in ShWords
    <3> DEFINE S == ShWords
    <3> HIDE DEF S
    <3>1. rest \in Seq(S) /\ rest # <<>>
      BY <1>1, <2>1 DEF S
    <3> QED
      BY <3>1 DEF S
  <2>3. SameJava(sh, sh')
    BY <1>1, <2>1, <2>2, SwitchJvm
  <2>4. FlagsOf(sh')
    BY <1>7, FlagsOneWord
  <2> QED
    BY <1>1, <1>2, <2>1, <2>3, <2>4, FlagsFitStays DEF FlagInv
<1>8. CASE OptionForRuby \/ OptionClassPath \/ OptionsEnd
  <2>1. /\ shPc = "options" /\ shPc' \in {"options", "command", "exited"} /\ UNCHANGED command
    BY <1>8 DEF OptionForRuby, OptionClassPath, OptionsEnd, ShExit
  <2>2. /\ SameJava(sh, sh') /\ SameMemory(sh, sh')
        /\ sh'.JAVA_OPTS = sh.JAVA_OPTS
        /\ sh'.java_opts_from_files = sh.java_opts_from_files
        /\ \/ sh'.java_args = sh.java_args
           \/ \E egd : /\ OptsIn(egd, {"-Djava.security.egd="})
                       /\ sh'.java_args = sh.java_args \o egd
    BY <1>1, <1>8, OtherOptionsJvm
  <2>3. NoFlags(sh'.java_args)
    <3>1. CASE sh'.java_args = sh.java_args
      BY <1>1, <3>1 DEF FlagsOf
    <3>2. CASE \E egd : /\ OptsIn(egd, {"-Djava.security.egd="})
                        /\ sh'.java_args = sh.java_args \o egd
      <4>1. PICK egd : /\ OptsIn(egd, {"-Djava.security.egd="})
                       /\ sh'.java_args = sh.java_args \o egd
        BY <3>2
      <4>2. \A opt \in Flags : opt \notin {"-Djava.security.egd="}
        BY DEF Flags, NativeOpt, UnsafeOpt
      <4>3. IsSeq(egd) /\ \A opt \in Flags : Lacks(egd, opt)
        BY <4>1, <4>2 DEF OptsIn, Lacks
      <4> QED
        BY <1>1, <4>1, <4>3, BothLack DEF NoFlags, FlagsOf, IsJvm
    <3> QED
      BY <2>2, <3>1, <3>2
  <2>4. FlagsOf(sh')
    BY <1>1, <2>2, <2>3, FlagsStay
  <2> QED
    BY <1>1, <1>2, <2>1, <2>2, <2>4, FlagsFitStays DEF FlagInv
<1> QED
  BY <1>3, <1>4, <1>5, <1>6, <1>7, <1>8, StepsOfScript, FlagsAssembled

LEMMA FlagInit == Init => FlagInv
<1> SUFFICES ASSUME Init PROVE FlagInv
  OBVIOUS
<1>1. sh = NewScript /\ shPc = "java" /\ command = NoCommand
  BY DEF Init, ShInit
<1>2. \A opt : Lacks(<<>>, opt)
  BY FewWords DEF OptsIn, Lacks
<1>3. FlagsOf(sh) /\ sh.java_opts_from_files = <<>>
  BY <1>1, <1>2, NewScriptJvm DEF FlagsOf, NoFlags
<1> QED
  BY <1>1, <1>3 DEF FlagInv, FlagsFitJava, HasCommand

\* FlagsFitJava: whatever Java is found and whatever the options are, --module-path, the
\* "@" of an options file and the flags of Java 22 and 23 are given to a java that has
\* them, and --module-path and native access are not forgotten; if `release' tells the
\* version and no flag is the user's own.
THEOREM FlagsAreThoseOfJava ==
    ASSUME RealJavas, FlagsAreScripts
    PROVE  Spec => []FlagsFitJava
<1>1. EndInv => WordsInv
  BY DEF EndInv
<1>2. FlagInv => FlagsFitJava
  BY DEF FlagInv
<1>3. WordsInv /\ JvmInv /\ FlagInv /\ [Next]_vars => FlagInv'
  BY FlagStep
<1> QED
  BY <1>1, <1>2, <1>3, EndInit, EndStep, JvmInit, JvmStep, FlagInit, PTL DEF Spec
=============================================================================
