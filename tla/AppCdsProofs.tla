---------------------------- MODULE AppCdsProofs ----------------------------
(***************************************************************************)
(* Proofs about AppCds: its type invariant, and, when JRuby is upgraded    *)
(* only while nothing runs, that an archive which passes the script's age  *)
(* check was made by the JRuby that is installed.                          *)
(***************************************************************************)
EXTENDS AppCds, TLAPS


-----------------------------------------------------------------------------
(* Type correctness.  That a Java without AppCDS never has an archive needs   *)
(* the way the script's flags hang together.                                  *)

FlagsAgree(r) ==
    /\ r.use \/ r.mode # "off" => r.java \in HasAppCds
    /\ r.pc = "dumping" => r.mode = "write"

FlagsInv == \A p \in Procs : FlagsAgree(run[p])

TypeInv == TypeOK /\ FlagsInv

LEMMA IdleRunType == IdleRun \in RunRecord /\ FlagsAgree(IdleRun)
BY AppCdsAssumption DEF IdleRun, RunRecord, FlagsAgree

\* What a step that changes one run has to show of its new record.
LEMMA RunUpdate ==
    ASSUME RunTypes, FlagsInv, NEW p \in Procs, NEW r \in RunRecord,
           FlagsAgree(r), run' = [run EXCEPT ![p] = r]
    PROVE  RunTypes' /\ FlagsInv'
BY DEF RunTypes, FlagsInv

\* Records the script's steps build.
LEMMA StartRecord ==
    ASSUME NEW where \in {"failed", "select"}, NEW j \in Javas,
           NEW o \in SUBSET Options, NEW use \in BOOLEAN, use => j \in HasAppCds,
           NEW regen \in BOOLEAN, NEW remove \in BOOLEAN
    PROVE  LET r == [IdleRun EXCEPT !.pc = where, !.java = j, !.opts = o,
                        !.use = use, !.regen = regen, !.remove = remove]
           IN  r \in RunRecord /\ FlagsAgree(r)
BY IdleRunType DEF IdleRun, RunRecord, FlagsAgree

LEMMA SelectRecord ==
    ASSUME NEW s \in RunRecord, FlagsAgree(s),
           NEW found \in SUBSET Javas, NEW where \in {"failed", "check"},
           NEW use \in BOOLEAN, use => s.use,
           NEW regen \in BOOLEAN, NEW remove \in BOOLEAN
    PROVE  LET r == [s EXCEPT !.listed = found, !.pc = where, !.use = use,
                              !.regen = regen, !.remove = remove]
           IN  r \in RunRecord /\ FlagsAgree(r)
BY DEF RunRecord, FlagsAgree

LEMMA CheckRecord ==
    ASSUME NEW s \in RunRecord, FlagsAgree(s), NEW rewrite \in BOOLEAN,
           NEW flag \in {"off", "auto", "read", "write"}, flag # "off" => s.use
    PROVE  LET r == [s EXCEPT !.regen = rewrite, !.mode = flag, !.pc = "final"]
           IN  r \in RunRecord /\ FlagsAgree(r)
BY DEF RunRecord, FlagsAgree

LEMMA ExecRecord ==
    ASSUME NEW s \in RunRecord, FlagsAgree(s), NEW v \in 0 .. MaxVersion,
           NEW flag \in {"off", "auto", "read", "write"},
           flag # "off" => s.mode # "off"
    PROVE  LET r == [s EXCEPT !.loaded = v, !.mode = flag, !.pc = "running"]
           IN  r \in RunRecord /\ FlagsAgree(r)
BY DEF RunRecord, FlagsAgree

LEMMA MoveRecord ==
    ASSUME NEW s \in RunRecord, FlagsAgree(s), NEW where \in {"exec", "dumping"},
           where = "dumping" => s.mode = "write"
    PROVE  LET r == [s EXCEPT !.pc = where]
           IN  r \in RunRecord /\ FlagsAgree(r)
BY DEF RunRecord, FlagsAgree

LEMMA FinishTypes ==
    ASSUME RunTypes, FlagsInv, NEW p \in Procs, Finish(p)
    PROVE  RunTypes' /\ FlagsInv'
BY RunUpdate, IdleRunType DEF Finish

LEMMA GiveUpTypes ==
    ASSUME NEW js, counted \subseteq Procs, served \subseteq HasAppCds, GiveUp(js)
    PROVE  counted' \subseteq Procs /\ served' \subseteq HasAppCds
BY DEF GiveUp

LEMMA TypeInit == Init => TypeInv
<1> SUFFICES ASSUME Init PROVE TypeInv
  OBVIOUS
<1>1. RunTypes /\ FlagsInv
  BY IdleRunType DEF Init, RunTypes, FlagsInv
<1>2. ArchiveTypes
  BY AppCdsAssumption DEF Init, ArchiveTypes, ArchiveRecord, Absent, Shipped
<1>3. WorldTypes /\ counted \subseteq Procs /\ served \subseteq HasAppCds
  BY AppCdsAssumption DEF Init, WorldTypes
<1> QED
  BY <1>1, <1>2, <1>3 DEF TypeInv, TypeOK

LEMMA TypeStep == TypeInv /\ [Next]_vars => TypeInv'
<1> SUFFICES ASSUME TypeInv, [Next]_vars PROVE TypeInv'
  OBVIOUS
<1>0. /\ RunTypes /\ FlagsInv /\ ArchiveTypes /\ WorldTypes
      /\ counted \subseteq Procs /\ served \subseteq HasAppCds
  BY DEF TypeInv, TypeOK
<1>s. \A p \in Procs : run[p] \in RunRecord /\ FlagsAgree(run[p])
  BY <1>0 DEF RunTypes, FlagsInv
<1> USE DEF world, vars
<1>1. ASSUME NEW p \in Procs, Start(p) PROVE TypeInv'
  <2>1. PICK j \in Javas, o \in Invocations :
           run' = [run EXCEPT ![p] =
                     [IdleRun EXCEPT
                        !.pc = IF "cache" \in o /\ j \notin HasAppCds
                               THEN "failed" ELSE "select",
                        !.java   = j,
                        !.opts   = o,
                        !.use    = UseDefault(j, o),
                        !.regen  = "cache" \in o,
                        !.remove = "rmcache" \in o]]
    BY <1>1 DEF Start
  <2>2. UseDefault(j, o) \in BOOLEAN /\ (UseDefault(j, o) => j \in HasAppCds)
    BY DEF UseDefault
  <2> DEFINE where   == IF "cache" \in o /\ j \notin HasAppCds
                        THEN "failed" ELSE "select"
             use     == UseDefault(j, o)
             regen   == "cache" \in o
             remove  == "rmcache" \in o
             r       == [IdleRun EXCEPT !.pc = where, !.java = j, !.opts = o,
                            !.use = use, !.regen = regen, !.remove = remove]
  <2>3. r \in RunRecord /\ FlagsAgree(r)
    <3>1. /\ where \in {"failed", "select"} /\ o \in SUBSET Options
          /\ regen \in BOOLEAN /\ remove \in BOOLEAN
      BY AppCdsAssumption
    <3> HIDE DEF where, use, regen, remove
    <3>2. use \in BOOLEAN /\ (use => j \in HasAppCds)
      BY <2>2 DEF use
    <3> QED
      BY <3>1, <3>2, StartRecord, ZenonT(30)
  <2>4. run' = [run EXCEPT ![p] = r]
    BY <2>1
  <2> HIDE DEF r
  <2>5. RunTypes' /\ FlagsInv'
    BY <1>0, <2>3, <2>4, RunUpdate
  <2> QED
    BY <1>0, <1>1, <2>5 DEF Start, TypeInv, TypeOK, ArchiveTypes, WorldTypes
<1>2. ASSUME NEW p \in Procs, SelectArchive(p) PROVE TypeInv'
  <2> DEFINE where   == IF "JRUBY_JSA" \in run[p].opts THEN "failed" ELSE "check"
             found   == IF run[p].remove THEN {j \in Javas : Exists(j)} ELSE {}
             use     == run[p].use /\ writable
             regen   == run[p].regen /\ writable
             remove  == run[p].remove /\ writable
  <2>1. /\ where \in {"failed", "check"} /\ found \in SUBSET Javas
        /\ use \in BOOLEAN /\ regen \in BOOLEAN /\ remove \in BOOLEAN
        /\ use => run[p].use
    OBVIOUS
  <2>2. run' = [run EXCEPT ![p] =
                  [run[p] EXCEPT !.listed = found, !.pc = where, !.use = use,
                                 !.regen = regen, !.remove = remove]]
    BY <1>2 DEF SelectArchive
  <2> HIDE DEF where, found, use, regen, remove
  <2>3. RunTypes' /\ FlagsInv'
    <3> DEFINE r == [run[p] EXCEPT !.listed = found, !.pc = where, !.use = use,
                                   !.regen = regen, !.remove = remove]
    <3>1. r \in RunRecord /\ FlagsAgree(r)
      <4>1. run[p] \in RunRecord /\ FlagsAgree(run[p])
        BY <1>s
      <4> QED
        BY <2>1, <4>1, SelectRecord, ZenonT(30)
    <3> HIDE DEF r
    <3>2. run' = [run EXCEPT ![p] = r]
      BY <2>2 DEF r
    <3> QED
      BY <1>0, <3>1, <3>2, RunUpdate
  <2> QED
    BY <1>0, <1>2, <2>3 DEF SelectArchive, TypeInv, TypeOK, ArchiveTypes, WorldTypes
<1>3. ASSUME NEW p \in Procs, CheckArchive(p) PROVE TypeInv'
  <2> DEFINE rewrite == run[p].regen \/ Outdated(p)
             flag    == IF ~run[p].use THEN "off"
                        ELSE IF run[p].java \in AutoGenerate THEN "auto"
                        ELSE IF rewrite THEN "write" ELSE "read"
  <2>1. rewrite \in BOOLEAN
    OBVIOUS
  <2>2. run' = [run EXCEPT ![p] =
                  [run[p] EXCEPT !.regen = rewrite, !.mode = flag, !.pc = "final"]]
    BY <1>3 DEF CheckArchive
  <2> HIDE DEF rewrite
  <2>3. flag \in {"off", "auto", "read", "write"} /\ (flag # "off" => run[p].use)
    BY <2>1
  <2> HIDE DEF flag
  <2>4. RunTypes' /\ FlagsInv'
    BY <1>0, <1>s, <2>1, <2>2, <2>3, CheckRecord, RunUpdate
  <2> QED
    BY <1>0, <1>3, <2>4 DEF CheckArchive, TypeInv, TypeOK, ArchiveTypes, WorldTypes
<1>4. ASSUME NEW p \in Procs, PerformFinalMutations(p) PROVE TypeInv'
  <2>1. RunTypes' /\ FlagsInv'
    BY <1>0, <1>s, <1>4, FinishTypes, MoveRecord, RunUpdate DEF PerformFinalMutations
  <2>2. ArchiveTypes'
    <3>1. \A a \in Javas \ HasAppCds : archive[a] = Absent
      BY <1>0 DEF ArchiveTypes
    <3>2. Absent \in ArchiveRecord
      BY AppCdsAssumption DEF Absent, ArchiveRecord
    <3>3. CASE UNCHANGED archive
      BY <1>0, <3>3 DEF ArchiveTypes
    <3>4. CASE archive' = [a \in Javas |-> IF a \in run[p].listed THEN Absent ELSE archive[a]]
      BY <1>0, <3>1, <3>2, <3>4 DEF ArchiveTypes
    <3>5. CASE archive' = [archive EXCEPT ![run[p].java] = Absent]
      BY <1>0, <3>1, <3>2, <3>5 DEF ArchiveTypes
    <3> QED
      BY <1>4, <3>3, <3>4, <3>5 DEF PerformFinalMutations
  <2>3. counted' \subseteq Procs /\ served' \subseteq HasAppCds
    BY <1>0, <1>4 DEF PerformFinalMutations, GiveUp
  <2> QED
    BY <1>0, <1>4, <2>1, <2>2, <2>3 DEF PerformFinalMutations, TypeInv, TypeOK, WorldTypes
<1>5. ASSUME NEW p \in Procs, Exec(p) PROVE TypeInv'
  <2> DEFINE flag == IF run[p].mode # "auto" THEN run[p].mode
                     ELSE IF Current(run[p].java) THEN "read" ELSE "write"
  <2>1. run' = [run EXCEPT ![p] =
                  [run[p] EXCEPT !.loaded = jar.version, !.mode = flag,
                                 !.pc = "running"]]
    BY <1>5 DEF Exec
  <2>2. flag \in {"off", "auto", "read", "write"} /\ (flag # "off" => run[p].mode # "off")
    BY <1>s DEF RunRecord
  <2>3. jar.version \in 0 .. MaxVersion
    BY <1>0 DEF WorldTypes
  <2> HIDE DEF flag
  <2>4. RunTypes' /\ FlagsInv'
    BY <1>0, <1>s, <2>1, <2>2, <2>3, ExecRecord, RunUpdate
  <2> QED
    BY <1>0, <1>5, <2>4 DEF Exec, TypeInv, TypeOK, ArchiveTypes, WorldTypes
<1>6. ASSUME NEW p \in Procs, DumpBegin(p) PROVE TypeInv'
  <2>1. run[p].java \in HasAppCds /\ run[p].loaded \in 0 .. MaxVersion
    BY <1>s, <1>6 DEF DumpBegin, RunRecord, FlagsAgree
  <2>2. ArchiveTypes'
    BY <1>0, <1>6, <2>1, AppCdsAssumption DEF DumpBegin, ArchiveTypes, ArchiveRecord, WorldTypes
  <2>3. RunTypes' /\ FlagsInv'
    BY <1>0, <1>s, <1>6, MoveRecord, RunUpdate DEF DumpBegin
  <2> QED
    BY <1>0, <1>6, <2>2, <2>3 DEF DumpBegin, TypeInv, TypeOK, WorldTypes
<1>7. ASSUME NEW p \in Procs, DumpEnd(p) PROVE TypeInv'
  <2>1. RunTypes' /\ FlagsInv'
    BY <1>0, <1>7, FinishTypes DEF DumpEnd
  <2>2. ArchiveTypes'
    <3> DEFINE j == run[p].java
               a == [archive[j] EXCEPT !.state = "whole", !.time = now, !.writer = {}]
    <3>1. j \in Javas
      BY <1>s DEF RunRecord
    <3>2. a \in ArchiveRecord
      <4>1. archive[j] \in ArchiveRecord /\ now \in 0 .. MaxTime
        BY <1>0, <3>1 DEF ArchiveTypes, WorldTypes
      <4>2. \A r \in ArchiveRecord, t \in 0 .. MaxTime :
               [r EXCEPT !.state = "whole", !.time = t, !.writer = {}] \in ArchiveRecord
        BY DEF ArchiveRecord
      <4> QED
        BY <4>1, <4>2, Zenon
    <3>3. p \in archive[j].writer => j \in HasAppCds
      BY <1>0, <3>1 DEF ArchiveTypes, Absent
    <3>4. archive' = IF p \in archive[j].writer THEN [archive EXCEPT ![j] = a] ELSE archive
      BY <1>7 DEF DumpEnd
    <3> HIDE DEF a, j
    <3> QED
      BY <1>0, <3>1, <3>2, <3>3, <3>4 DEF ArchiveTypes
  <2>3. counted' \subseteq Procs /\ served' \subseteq HasAppCds
    BY <1>0, <1>s, <1>7 DEF DumpEnd, Served, FlagsAgree
  <2> QED
    BY <1>0, <1>7, <2>1, <2>2, <2>3 DEF DumpEnd, TypeInv, TypeOK, WorldTypes
<1>8. ASSUME NEW p \in Procs, JvmExit(p) PROVE TypeInv'
  <2>1. RunTypes' /\ FlagsInv'
    BY <1>0, <1>8, FinishTypes DEF JvmExit
  <2>2. counted' \subseteq Procs /\ served' \subseteq HasAppCds
    BY <1>0, <1>s, <1>8 DEF JvmExit, Served, FlagsAgree
  <2> QED
    BY <1>0, <1>8, <2>1, <2>2 DEF JvmExit, TypeInv, TypeOK, ArchiveTypes, WorldTypes
<1>9. ASSUME NEW p \in Procs, JvmKilled(p) PROVE TypeInv'
  BY <1>0, <1>9, FinishTypes, GiveUpTypes
     DEF JvmKilled, TypeInv, TypeOK, ArchiveTypes, WorldTypes
<1>10. ASSUME NEW p \in Procs, Again(p) PROVE TypeInv'
  BY <1>0, <1>10, FinishTypes DEF Again, TypeInv, TypeOK, ArchiveTypes, WorldTypes
<1>11. ASSUME Upgrade PROVE TypeInv'
  <2>1. counted' \subseteq Procs /\ served' \subseteq HasAppCds
    BY <1>0, <1>11, GiveUpTypes DEF Upgrade
  <2> QED
    BY <1>0, <1>11, <2>1, AppCdsAssumption
       DEF Upgrade, TypeInv, TypeOK, RunTypes, FlagsInv, ArchiveTypes, WorldTypes
<1>12. ASSUME Tick PROVE TypeInv'
  BY <1>0, <1>12, AppCdsAssumption
     DEF Tick, TypeInv, TypeOK, RunTypes, FlagsInv, ArchiveTypes, WorldTypes
<1>13. CASE UNCHANGED vars
  BY <1>0, <1>13 DEF TypeInv, TypeOK, RunTypes, FlagsInv, ArchiveTypes, WorldTypes
<1> QED
  BY <1>1, <1>2, <1>3, <1>4, <1>5, <1>6, <1>7, <1>8, <1>9, <1>10, <1>11, <1>12, <1>13
     DEF Next, ScriptStep, JvmStep

\* Every variable keeps its type, and only a Java with AppCDS has an archive,
\* for any runs, Javas, options, clock and upgrades (jruby.sh's options and
\* flags).
THEOREM AppCdsTypeCorrect == Spec => []TypeOK
<1>1. Init => TypeInv
  BY TypeInit
<1>2. TypeInv /\ [Next]_vars => TypeInv'
  BY TypeStep
<1>3. TypeInv => TypeOK
  BY DEF TypeInv
<1> QED
  BY <1>1, <1>2, <1>3, PTL DEF Spec

-----------------------------------------------------------------------------
(* Fresh archives.  No file is from the future, and while no JVM outlives an  *)
(* upgrade, whatever a JVM writes is of the installed version.  A file that   *)
(* an upgrade finds is therefore not newer than the new jar.                  *)

NoFutureFiles ==
    /\ jar.time <= now
    /\ \A j \in Javas : archive[j].time <= now

JvmsCurrent ==
    \A p \in Procs : run[p].pc \in {"running", "dumping"} => run[p].loaded = jar.version

WritersCurrent ==
    \A p \in Procs :
        (run[p].pc = "dumping" /\ p \in archive[run[p].java].writer)
            => archive[run[p].java].version = jar.version

FreshInv == NoFutureFiles /\ JvmsCurrent /\ WritersCurrent /\ FreshMeansCurrent

LEMMA FreshInit == Init => FreshInv
BY AppCdsAssumption
   DEF Init, FreshInv, NoFutureFiles, JvmsCurrent, WritersCurrent, FreshMeansCurrent,
       IsNewer, Exists, Absent, Shipped, IdleRun

LEMMA FreshStep ==
    ASSUME ~UpgradeWhileRunning
    PROVE  TypeInv /\ FreshInv /\ [Next]_vars => FreshInv'
<1> SUFFICES ASSUME TypeInv, FreshInv, [Next]_vars PROVE FreshInv'
  OBVIOUS
<1>0. /\ run \in [Procs -> RunRecord]
      /\ archive \in [Javas -> ArchiveRecord]
      /\ jar \in [time : 0 .. MaxTime, version : 1 .. MaxVersion]
      /\ now \in 0 .. MaxTime
  BY DEF TypeInv, TypeOK, RunTypes, ArchiveTypes, WorldTypes
<1>t. /\ now \in Int /\ jar.time \in Int
      /\ \A j \in Javas : archive[j].time \in Int
      /\ \A p \in Procs : run[p].java \in Javas
  BY <1>0, AppCdsAssumption DEF RunRecord, ArchiveRecord
<1> USE DEF world, vars, FreshInv
\* A step of a run, with the archives and the jar as they were, that does not
\* let a JVM begin anything.
<1>r. ASSUME NEW p \in Procs, NEW r,
             run' = [run EXCEPT ![p] = r], r.pc \notin {"running", "dumping"},
             UNCHANGED <<archive, jar, now>>
      PROVE  FreshInv'
  BY <1>0, <1>r DEF NoFutureFiles, JvmsCurrent, WritersCurrent, FreshMeansCurrent,
                    IsNewer, Exists
\* The same, with some archives deleted.
<1>d. ASSUME NEW p \in Procs, NEW r, NEW js,
             run' = [run EXCEPT ![p] = r], r.pc \notin {"running", "dumping"},
             archive' = [j \in Javas |-> IF j \in js THEN Absent ELSE archive[j]],
             UNCHANGED <<jar, now>>
      PROVE  FreshInv'
  <2>1. NoFutureFiles'
    BY <1>0, <1>t, <1>d, AppCdsAssumption DEF NoFutureFiles, Absent
  <2>2. JvmsCurrent'
    BY <1>0, <1>d DEF JvmsCurrent
  <2>3. WritersCurrent'
    BY <1>0, <1>t, <1>d DEF WritersCurrent, Absent
  <2>4. FreshMeansCurrent'
    BY <1>d DEF FreshMeansCurrent, IsNewer, Exists, Absent
  <2> QED
    BY <2>1, <2>2, <2>3, <2>4
<1>i. IdleRun.pc = "idle"
  BY DEF IdleRun
<1>1. ASSUME NEW p \in Procs, Start(p) PROVE FreshInv'
  <2>1. PICK j \in Javas, o \in Invocations :
           run' = [run EXCEPT ![p] =
                     [IdleRun EXCEPT
                        !.pc = IF "cache" \in o /\ j \notin HasAppCds
                               THEN "failed" ELSE "select",
                        !.java   = j,
                        !.opts   = o,
                        !.use    = UseDefault(j, o),
                        !.regen  = "cache" \in o,
                        !.remove = "rmcache" \in o]]
    BY <1>1 DEF Start
  <2> DEFINE r == [IdleRun EXCEPT
                        !.pc = IF "cache" \in o /\ j \notin HasAppCds
                               THEN "failed" ELSE "select",
                        !.java   = j,
                        !.opts   = o,
                        !.use    = UseDefault(j, o),
                        !.regen  = "cache" \in o,
                        !.remove = "rmcache" \in o]
  <2>2. r.pc \in {"failed", "select"}
    BY DEF IdleRun
  <2>3. run' = [run EXCEPT ![p] = r]
    BY <2>1
  <2> HIDE DEF r
  <2> QED
    BY <1>1, <1>r, <2>2, <2>3 DEF Start
<1>2. ASSUME NEW p \in Procs, SelectArchive(p) PROVE FreshInv'
  <2> DEFINE r == [run[p] EXCEPT
                    !.listed = IF run[p].remove THEN {j \in Javas : Exists(j)} ELSE {},
                    !.pc     = IF "JRUBY_JSA" \in run[p].opts THEN "failed" ELSE "check",
                    !.use    = run[p].use /\ writable,
                    !.regen  = run[p].regen /\ writable,
                    !.remove = run[p].remove /\ writable]
  <2>1. r.pc \in {"failed", "check"}
    BY <1>0 DEF RunRecord
  <2>2. run' = [run EXCEPT ![p] = r]
    BY <1>2 DEF SelectArchive
  <2>3. UNCHANGED <<archive, jar, now>>
    BY <1>2 DEF SelectArchive
  <2> HIDE DEF r
  <2> QED
    BY <1>r, <2>1, <2>2, <2>3
<1>3. ASSUME NEW p \in Procs, CheckArchive(p) PROVE FreshInv'
  <2> DEFINE rewrite == run[p].regen \/ Outdated(p)
             flag    == IF ~run[p].use THEN "off"
                        ELSE IF run[p].java \in AutoGenerate THEN "auto"
                        ELSE IF rewrite THEN "write" ELSE "read"
             r       == [run[p] EXCEPT !.regen = rewrite, !.mode = flag, !.pc = "final"]
  <2>1. r.pc = "final"
    BY <1>0 DEF RunRecord
  <2>2. run' = [run EXCEPT ![p] = r]
    BY <1>3 DEF CheckArchive
  <2>3. UNCHANGED <<archive, jar, now>>
    BY <1>3 DEF CheckArchive
  <2> HIDE DEF r
  <2> QED
    BY <1>r, <2>1, <2>2, <2>3
<1>4. ASSUME NEW p \in Procs, PerformFinalMutations(p) PROVE FreshInv'
  <2>0. UNCHANGED <<jar, now>>
    BY <1>4 DEF PerformFinalMutations
  <2>1. CASE Finish(p) /\ UNCHANGED archive
    BY <1>r, <1>i, <2>0, <2>1 DEF Finish
  <2>2. CASE /\ Finish(p)
             /\ archive' = [j \in Javas |->
                              IF j \in run[p].listed THEN Absent ELSE archive[j]]
    BY <1>d, <1>i, <2>0, <2>2 DEF Finish
  <2>3. CASE /\ run' = [run EXCEPT ![p].pc = "exec"]
             /\ archive' = IF run[p].regen THEN [archive EXCEPT ![run[p].java] = Absent]
                                           ELSE archive
    <3> DEFINE r == [run[p] EXCEPT !.pc = "exec"]
    <3>1. run' = [run EXCEPT ![p] = r] /\ r.pc = "exec"
      BY <1>0, <2>3 DEF RunRecord
    <3> HIDE DEF r
    <3>2. CASE run[p].regen
      <4>1. archive' = [j \in Javas |->
                          IF j \in {run[p].java} THEN Absent ELSE archive[j]]
        BY <1>0, <2>3, <3>2
      <4> QED
        BY <1>d, <2>0, <3>1, <4>1
    <3>3. CASE ~run[p].regen
      BY <1>r, <2>0, <2>3, <3>1, <3>3
    <3> QED
      BY <3>2, <3>3
  <2> QED
    BY <1>4, <2>1, <2>2, <2>3 DEF PerformFinalMutations
<1>5. ASSUME NEW p \in Procs, Exec(p) PROVE FreshInv'
  <2>1. /\ run'[p].pc = "running" /\ run'[p].loaded = jar.version
        /\ \A q \in Procs : q # p => run'[q] = run[q]
    BY <1>0, <1>5 DEF Exec, RunRecord
  <2> QED
    BY <1>5, <2>1 DEF Exec, NoFutureFiles, JvmsCurrent, WritersCurrent,
                      FreshMeansCurrent, IsNewer, Exists
<1>6. ASSUME NEW p \in Procs, DumpBegin(p) PROVE FreshInv'
  <2> DEFINE j == run[p].java
  <2>1. /\ run'[p].pc = "dumping" /\ run'[p].java = j
        /\ run'[p].loaded = run[p].loaded
        /\ \A q \in Procs : q # p => run'[q] = run[q]
    BY <1>0, <1>6 DEF DumpBegin, RunRecord
  <2>2. run[p].loaded = jar.version
    BY <1>6 DEF DumpBegin, JvmsCurrent
  <2>3. /\ archive'[j].time = now /\ archive'[j].version = jar.version
        /\ \A k \in Javas : k # j => archive'[k] = archive[k]
    BY <1>0, <1>t, <1>6, <2>2 DEF DumpBegin
  <2>4. NoFutureFiles'
    BY <1>t, <1>6, <2>3 DEF DumpBegin, NoFutureFiles
  <2>5. JvmsCurrent' /\ WritersCurrent'
    BY <1>t, <1>6, <2>1, <2>2, <2>3 DEF DumpBegin, JvmsCurrent, WritersCurrent
  <2>6. FreshMeansCurrent'
    BY <1>6, <2>3 DEF DumpBegin, FreshMeansCurrent, IsNewer, Exists
  <2> QED
    BY <2>4, <2>5, <2>6
<1>7. ASSUME NEW p \in Procs, DumpEnd(p) PROVE FreshInv'
  <2> DEFINE j == run[p].java
  <2>1. /\ run'[p].pc = "idle"
        /\ \A q \in Procs : q # p => run'[q] = run[q]
    BY <1>0, <1>7, <1>i DEF DumpEnd, Finish
  <2>2. CASE p \notin archive[j].writer
    BY <1>7, <1>i, <1>r, <2>2 DEF DumpEnd, Finish
  <2>3. CASE p \in archive[j].writer
    <3>1. /\ archive'[j].time = now /\ archive'[j].version = archive[j].version
          /\ archive'[j].writer = {}
          /\ \A k \in Javas : k # j => archive'[k] = archive[k]
      BY <1>0, <1>t, <1>7, <2>3 DEF DumpEnd, ArchiveRecord
    <3>2. archive[j].version = jar.version
      BY <1>7, <2>3 DEF DumpEnd, WritersCurrent
    <3>3. NoFutureFiles'
      BY <1>t, <1>7, <3>1 DEF DumpEnd, NoFutureFiles
    <3>4. JvmsCurrent' /\ WritersCurrent'
      <4>1. JvmsCurrent'
        BY <1>t, <1>7, <2>1, <3>1, <3>2 DEF DumpEnd, JvmsCurrent
      <4>2. WritersCurrent'
        BY <1>t, <1>7, <2>1, <3>1, <3>2 DEF DumpEnd, WritersCurrent
      <4> QED
        BY <4>1, <4>2
    <3>5. FreshMeansCurrent'
      BY <1>7, <3>1, <3>2 DEF DumpEnd, FreshMeansCurrent, IsNewer, Exists
    <3> QED
      BY <3>3, <3>4, <3>5
  <2> QED
    BY <2>2, <2>3
<1>8. ASSUME NEW p \in Procs, JvmExit(p) \/ JvmKilled(p) \/ Again(p) PROVE FreshInv'
  BY <1>8, <1>r, <1>i DEF JvmExit, JvmKilled, Again, Finish
<1>9. ASSUME Upgrade PROVE FreshInv'
  <2>1. \A p \in Procs : run'[p].pc \notin {"running", "dumping"}
    BY <1>9 DEF Upgrade, Quiet
  <2>2. jar'.time = now /\ UNCHANGED <<run, archive, now>>
    BY <1>9 DEF Upgrade
  <2>3. \A j \in Javas : ~(archive[j].time > jar'.time)
    BY <1>t, <2>2 DEF NoFutureFiles
  <2> QED
    BY <1>t, <2>1, <2>2, <2>3
       DEF NoFutureFiles, JvmsCurrent, WritersCurrent, FreshMeansCurrent, IsNewer, Exists
<1>10. ASSUME Tick PROVE FreshInv'
  BY <1>t, <1>10 DEF Tick, NoFutureFiles, JvmsCurrent, WritersCurrent,
                     FreshMeansCurrent, IsNewer, Exists
<1>11. CASE UNCHANGED vars
  BY <1>11 DEF NoFutureFiles, JvmsCurrent, WritersCurrent, FreshMeansCurrent,
               IsNewer, Exists
<1> QED
  BY <1>1, <1>2, <1>3, <1>4, <1>5, <1>6, <1>7, <1>8, <1>9, <1>10, <1>11
     DEF Next, ScriptStep, JvmStep

\* If JRuby is upgraded only while nothing runs, an archive the age check takes
\* to be up to date was made by the JRuby that is installed, however many runs
\* delete and rewrite it at once (is_newer and the final mutations of jruby.sh).
THEOREM FreshArchives ==
    ASSUME ~UpgradeWhileRunning
    PROVE  Spec => []FreshMeansCurrent
<1>1. Init => TypeInv /\ FreshInv
  BY TypeInit, FreshInit
<1>2. (TypeInv /\ FreshInv) /\ [Next]_vars => (TypeInv /\ FreshInv)'
  BY TypeStep, FreshStep
<1>3. TypeInv /\ FreshInv => FreshMeansCurrent
  BY DEF FreshInv
<1> QED
  BY <1>1, <1>2, <1>3, PTL DEF Spec

-----------------------------------------------------------------------------
(* --environment only reports: such a run never becomes a JVM.                *)

ReportInv ==
    \A p \in Procs :
        run[p].pc \in {"exec", "running", "dumping"} => "environment" \notin run[p].opts

LEMMA ReportStep == TypeInv /\ ReportInv /\ [Next]_vars => ReportInv'
<1> SUFFICES ASSUME TypeInv, ReportInv, [Next]_vars PROVE ReportInv'
  OBVIOUS
<1>0. run \in [Procs -> RunRecord]
  BY DEF TypeInv, TypeOK, RunTypes
<1> USE DEF world, vars
\* A step of a run has to show it of its new record.
<1>r. ASSUME NEW p \in Procs, NEW r, run' = [run EXCEPT ![p] = r],
             r.pc \in {"exec", "running", "dumping"} => "environment" \notin r.opts
      PROVE  ReportInv'
  BY <1>0, <1>r DEF ReportInv
<1>1. ASSUME NEW p \in Procs, Start(p) PROVE ReportInv'
  <2>1. PICK j \in Javas, o \in Invocations :
           run' = [run EXCEPT ![p] =
                     [IdleRun EXCEPT
                        !.pc = IF "cache" \in o /\ j \notin HasAppCds
                               THEN "failed" ELSE "select",
                        !.java   = j,
                        !.opts   = o,
                        !.use    = UseDefault(j, o),
                        !.regen  = "cache" \in o,
                        !.remove = "rmcache" \in o]]
    BY <1>1 DEF Start
  <2>2. run'[p].pc \in {"failed", "select"}
    BY <1>0, <2>1 DEF IdleRun
  <2>3. \A q \in Procs : q # p => run'[q] = run[q]
    BY <1>0, <2>1
  <2> QED
    BY <2>2, <2>3 DEF ReportInv
<1>2. ASSUME NEW p \in Procs, SelectArchive(p) \/ CheckArchive(p) PROVE ReportInv'
  <2>1. run'[p].pc \in {"failed", "check", "final"}
    <3>1. CASE SelectArchive(p)
      BY <1>0, <3>1 DEF SelectArchive, RunRecord
    <3>2. CASE CheckArchive(p)
      BY <1>0, <3>2 DEF CheckArchive, RunRecord
    <3> QED
      BY <1>2, <3>1, <3>2
  <2>2. \A q \in Procs : q # p => run'[q] = run[q]
    BY <1>0, <1>2 DEF SelectArchive, CheckArchive
  <2> QED
    BY <2>1, <2>2 DEF ReportInv
<1>3. ASSUME NEW p \in Procs, Finish(p) PROVE ReportInv'
  BY <1>r, <1>3 DEF Finish, IdleRun
<1>4. ASSUME NEW p \in Procs, PerformFinalMutations(p) PROVE ReportInv'
  <2>1. CASE ~Reports(p) /\ run' = [run EXCEPT ![p].pc = "exec"]
    <3>1. run'[p].opts = run[p].opts /\ \A q \in Procs : q # p => run'[q] = run[q]
      BY <1>0, <2>1 DEF RunRecord
    <3> QED
      BY <2>1, <3>1 DEF ReportInv, Reports
  <2> QED
    BY <1>3, <1>4, <2>1 DEF PerformFinalMutations
<1>5. ASSUME NEW p \in Procs, Exec(p) \/ DumpBegin(p) PROVE ReportInv'
  <2>1. run[p].pc \in {"exec", "running"} /\ run'[p].opts = run[p].opts
    <3>1. CASE Exec(p)
      <4> DEFINE flag == IF run[p].mode # "auto" THEN run[p].mode
                         ELSE IF Current(run[p].java) THEN "read" ELSE "write"
      <4>1. run' = [run EXCEPT ![p] =
                      [run[p] EXCEPT !.loaded = jar.version, !.mode = flag,
                                     !.pc = "running"]]
        BY <3>1 DEF Exec
      <4> HIDE DEF flag
      <4> QED
        BY <1>0, <3>1, <4>1 DEF Exec, RunRecord
    <3>2. CASE DumpBegin(p)
      BY <1>0, <3>2 DEF DumpBegin, RunRecord
    <3> QED
      BY <1>5, <3>1, <3>2
  <2>2. \A q \in Procs : q # p => run'[q] = run[q]
    BY <1>0, <1>5 DEF Exec, DumpBegin
  <2> QED
    BY <2>1, <2>2 DEF ReportInv
<1>6. ASSUME NEW p \in Procs, DumpEnd(p) \/ JvmExit(p) \/ JvmKilled(p) \/ Again(p)
      PROVE  ReportInv'
  BY <1>3, <1>6 DEF DumpEnd, JvmExit, JvmKilled, Again
<1>7. CASE UNCHANGED run
  BY <1>7 DEF ReportInv
<1> QED
  BY <1>1, <1>2, <1>4, <1>5, <1>6, <1>7
     DEF Next, ScriptStep, JvmStep, Upgrade, Tick

\* With any other option and any other runs under way, --environment changes no
\* archive ("Perform final mutations after logging" in jruby.sh).
THEOREM ReportOnly == Spec => EnvironmentReadOnly
<1> DEFINE Step == \A p \in Procs :
                      ("environment" \in run[p].opts /\ run'[p] # run[p])
                         => archive' = archive
<1>1. Init => TypeInv /\ ReportInv
  BY TypeInit DEF Init, ReportInv, IdleRun
<1>2. (TypeInv /\ ReportInv) /\ [Next]_vars => (TypeInv /\ ReportInv)'
  BY TypeStep, ReportStep
<1>3. (TypeInv /\ ReportInv) /\ [Next]_vars => [Step]_vars
  <2> SUFFICES ASSUME TypeInv, ReportInv, Next, NEW p \in Procs,
                      "environment" \in run[p].opts, run'[p] # run[p]
               PROVE  archive' = archive
    BY DEF vars
  <2>0. run \in [Procs -> RunRecord]
    BY DEF TypeInv, TypeOK, RunTypes
  <2>1. ASSUME NEW q \in Procs, PerformFinalMutations(q) PROVE archive' = archive
    <3>1. q = p
      BY <2>0, <2>1 DEF PerformFinalMutations, Finish
    <3> QED
      BY <2>1, <3>1 DEF PerformFinalMutations, Reports
  <2>2. ASSUME NEW q \in Procs, DumpBegin(q) \/ DumpEnd(q) PROVE archive' = archive
    <3>1. q = p
      BY <2>0, <2>2 DEF DumpBegin, DumpEnd, Finish
    <3> QED
      BY <2>2, <3>1 DEF DumpBegin, DumpEnd, ReportInv
  <2> QED
    BY <2>1, <2>2
       DEF Next, ScriptStep, JvmStep, Start, SelectArchive, CheckArchive, Exec,
           JvmExit, JvmKilled, Again, Upgrade, Tick
<1>4. Spec => [][Step]_vars
  BY <1>1, <1>2, <1>3, PTL DEF Spec
<1> QED
  BY <1>4 DEF EnvironmentReadOnly

-----------------------------------------------------------------------------
(* Archives settle.  A run that deletes an archive either gives it up or goes *)
(* on to write it, and until it has, it is pledged to; so as soon as some     *)
(* counted run relies on the archive there is a current one, the torso of a   *)
(* killed JVM, or a run that is pledged.                                      *)

FlagsSettle ==
    \A p \in Procs :
        /\ run[p].pc = "final" /\ run[p].regen /\ run[p].use
              => run[p].mode \in {"write", "auto"}
        /\ run[p].pc \in {"final", "exec", "running"} /\ run[p].use
              => run[p].mode # "off"
        /\ run[p].pc = "running" => run[p].mode # "auto"

\* A run that will leave a current archive, unless it is killed.
Pledged(p) ==
    \/ run[p].pc = "exec" /\ run[p].mode \in {"auto", "write"}
    \/ run[p].pc = "running" /\ run[p].mode = "write"
    \/ run[p].pc = "dumping" /\ p \in archive[run[p].java].writer

Settling(j) ==
    \/ Current(j)
    \/ j \notin AutoGenerate /\ archive[j].state = "partial"
    \/ \E p \in Procs : run[p].java = j /\ Pledged(p)

\* A run that will not write the archive itself: it reads it, or what it was
\* writing has been deleted or overwritten by another run.
Relies(p) ==
    \/ run[p].pc \in {"final", "exec", "running"} /\ run[p].mode = "read"
    \/ run[p].pc = "dumping" /\ p \notin archive[run[p].java].writer

\* A counted run has been served by the archive, or is to be.
Wanted(j) == j \in served \/ \E p \in counted : run[p].java = j /\ Relies(p)

WantedSettle == \A j \in Javas : Wanted(j) => Settling(j)

SettleInv == FlagsSettle /\ WantedSettle

LEMMA SettleInit == Init => SettleInv
BY DEF Init, SettleInv, FlagsSettle, WantedSettle, Wanted, IdleRun

\* An archive goes on settling that a step leaves alone, if the run that takes the
\* step keeps its pledge.
LEMMA KeepsSettling ==
    ASSUME NEW p \in Procs, NEW j, Settling(j),
           archive'[j] = archive[j], UNCHANGED jar,
           \A q \in Procs : q # p => run'[q] = run[q],
           run[p].java = j /\ Pledged(p) => Settling(j)'
    PROVE  Settling(j)'
<1>1. CASE Current(j) \/ (j \notin AutoGenerate /\ archive[j].state = "partial")
  BY <1>1 DEF Settling, Current
<1>2. ASSUME NEW q \in Procs, run[q].java = j, Pledged(q) PROVE Settling(j)'
  <2>1. CASE q = p
    BY <1>2, <2>1
  <2>2. CASE q # p
    <3>1. run'[q].java = j /\ Pledged(q)'
      BY <1>2, <2>2 DEF Pledged
    <3> QED
      BY <3>1 DEF Settling
  <2> QED
    BY <2>1, <2>2
<1> QED
  BY <1>1, <1>2 DEF Settling

\* What a step of run p that leaves the archive of j alone has to show.
LEMMA SettleFrame ==
    ASSUME TypeInv, WantedSettle, NEW p \in Procs, NEW j \in Javas, Wanted(j)',
           \A q \in Procs : q # p => run'[q] = run[q],
           UNCHANGED jar, archive'[j] = archive[j],
           counted' \subseteq counted \cup {p},
           j \in served' => Wanted(j),
           p \in counted' /\ run'[p].java = j /\ Relies(p)' => Wanted(j) \/ Settling(j)',
           run[p].java = j /\ Pledged(p) => Settling(j)'
    PROVE  Settling(j)'
<1>0. counted \subseteq Procs
  BY DEF TypeInv, TypeOK
<1>1. Wanted(j) \/ Settling(j)'
  <2>1. ASSUME NEW q \in counted', run'[q].java = j, Relies(q)', q # p PROVE Wanted(j)
    <3>1. q \in counted /\ run'[q] = run[q]
      BY <1>0, <2>1
    <3>2. Relies(q)
      BY <2>1, <3>1 DEF Relies
    <3> QED
      BY <2>1, <3>1, <3>2 DEF Wanted
  <2> QED
    BY <2>1 DEF Wanted
<1>2. ASSUME Wanted(j) PROVE Settling(j)'
  <2>1. Settling(j)
    BY <1>2 DEF WantedSettle
  <2> QED
    BY <2>1, KeepsSettling
<1> QED
  BY <1>1, <1>2

\* A step of run p that gives up js is of no concern to them.
LEMMA GivenUp ==
    ASSUME NEW p \in Procs, NEW j, NEW js, j \in js,
           counted \subseteq Procs, GiveUp(js),
           \A q \in Procs : q # p => run'[q] = run[q],
           run'[p].pc = "idle" \/ (run[p].java \in js /\ run'[p].java = run[p].java)
    PROVE  ~Wanted(j)'
<1>1. j \notin served'
  BY DEF GiveUp
<1>2. ASSUME NEW q \in counted', run'[q].java = j PROVE FALSE
  BY <1>2 DEF GiveUp
<1> QED
  BY <1>1, <1>2 DEF Wanted

LEMMA FlagsSettleStep == TypeInv /\ FlagsSettle /\ [Next]_vars => FlagsSettle'
<1> SUFFICES ASSUME TypeInv, FlagsSettle, [Next]_vars PROVE FlagsSettle'
  OBVIOUS
<1>0. run \in [Procs -> RunRecord]
  BY DEF TypeInv, TypeOK, RunTypes
<1> USE DEF world, vars
\* A step of a run has to show it of its new record.
<1>r. ASSUME NEW p \in Procs, NEW r, run' = [run EXCEPT ![p] = r],
             /\ r.pc = "final" /\ r.regen /\ r.use => r.mode \in {"write", "auto"}
             /\ r.pc \in {"final", "exec", "running"} /\ r.use => r.mode # "off"
             /\ r.pc = "running" => r.mode # "auto"
      PROVE  FlagsSettle'
  BY <1>0, <1>r DEF FlagsSettle
<1>f. ASSUME NEW p \in Procs, Finish(p) PROVE FlagsSettle'
  BY <1>f, <1>r DEF Finish, IdleRun
<1>1. ASSUME NEW p \in Procs, Start(p) \/ SelectArchive(p) PROVE FlagsSettle'
  <2>1. run'[p].pc \in {"failed", "select", "check"}
    <3>1. CASE Start(p)
      <4>1. PICK o \in Invocations, j \in Javas :
              run'[p].pc = IF "cache" \in o /\ j \notin HasAppCds
                           THEN "failed" ELSE "select"
        BY <1>0, <3>1 DEF Start, IdleRun
      <4> QED
        BY <4>1
    <3>2. CASE SelectArchive(p)
      BY <1>0, <3>2 DEF SelectArchive, RunRecord
    <3> QED
      BY <1>1, <3>1, <3>2
  <2>2. \A q \in Procs : q # p => run'[q] = run[q]
    BY <1>0, <1>1 DEF Start, SelectArchive
  <2> QED
    BY <2>1, <2>2 DEF FlagsSettle
<1>3. ASSUME NEW p \in Procs, CheckArchive(p) PROVE FlagsSettle'
  <2> DEFINE rewrite == run[p].regen \/ Outdated(p)
             flag    == IF ~run[p].use THEN "off"
                        ELSE IF run[p].java \in AutoGenerate THEN "auto"
                        ELSE IF rewrite THEN "write" ELSE "read"
  <2>1. run' = [run EXCEPT ![p] =
                  [run[p] EXCEPT !.regen = rewrite, !.mode = flag, !.pc = "final"]]
    BY <1>3 DEF CheckArchive
  <2>2. /\ rewrite /\ run[p].use => flag \in {"write", "auto"}
        /\ run[p].use => flag # "off"
    OBVIOUS
  <2> HIDE DEF rewrite, flag
  <2>3. /\ run'[p].pc = "final" /\ run'[p].mode = flag
        /\ run'[p].regen = rewrite /\ run'[p].use = run[p].use
        /\ \A q \in Procs : q # p => run'[q] = run[q]
    BY <1>0, <2>1 DEF RunRecord
  <2> QED
    BY <2>2, <2>3 DEF FlagsSettle
<1>4. ASSUME NEW p \in Procs, run[p].pc \in {"final", "running"},
             \/ run' = [run EXCEPT ![p].pc = "exec"] /\ run[p].pc = "final"
             \/ run' = [run EXCEPT ![p].pc = "dumping"]
      PROVE  FlagsSettle'
  <2>1. /\ run'[p].mode = run[p].mode /\ run'[p].use = run[p].use
        /\ \/ run'[p].pc = "exec" /\ run[p].pc = "final"
           \/ run'[p].pc = "dumping"
        /\ \A q \in Procs : q # p => run'[q] = run[q]
    BY <1>0, <1>4 DEF RunRecord
  <2> QED
    BY <2>1 DEF FlagsSettle
<1>5. ASSUME NEW p \in Procs, Exec(p) PROVE FlagsSettle'
  <2> DEFINE flag == IF run[p].mode # "auto" THEN run[p].mode
                     ELSE IF Current(run[p].java) THEN "read" ELSE "write"
  <2>1. run' = [run EXCEPT ![p] =
                  [run[p] EXCEPT !.loaded = jar.version, !.mode = flag,
                                 !.pc = "running"]]
    BY <1>5 DEF Exec
  <2>2. flag # "auto" /\ (flag = "off" => run[p].mode = "off")
    OBVIOUS
  <2> HIDE DEF flag
  <2>3. /\ run'[p].pc = "running" /\ run'[p].mode = flag /\ run'[p].use = run[p].use
        /\ \A q \in Procs : q # p => run'[q] = run[q]
    BY <1>0, <2>1 DEF RunRecord
  <2> QED
    BY <1>5, <2>2, <2>3 DEF FlagsSettle, Exec
<1>6. CASE UNCHANGED run
  BY <1>6 DEF FlagsSettle
<1>7. ASSUME NEW p \in Procs, PerformFinalMutations(p) PROVE FlagsSettle'
  BY <1>7, <1>4, <1>f DEF PerformFinalMutations
<1>8. ASSUME NEW p \in Procs, DumpBegin(p) PROVE FlagsSettle'
  BY <1>8, <1>4 DEF DumpBegin
<1>9. ASSUME NEW p \in Procs, DumpEnd(p) \/ JvmExit(p) \/ JvmKilled(p) \/ Again(p)
      PROVE  FlagsSettle'
  BY <1>9, <1>f DEF DumpEnd, JvmExit, JvmKilled, Again
<1> QED
  BY <1>1, <1>3, <1>5, <1>6, <1>7, <1>8, <1>9
     DEF Next, ScriptStep, JvmStep, Upgrade, Tick

LEMMA WantedSettleStep ==
    ASSUME ~UpgradeWhileRunning
    PROVE  TypeInv /\ FreshInv /\ SettleInv /\ [Next]_vars => WantedSettle'
<1> SUFFICES ASSUME TypeInv, FreshInv, SettleInv, [Next]_vars,
                    NEW j \in Javas, Wanted(j)'
             PROVE  Settling(j)'
  BY DEF WantedSettle
<1>0. /\ run \in [Procs -> RunRecord]
      /\ archive \in [Javas -> ArchiveRecord]
      /\ counted \subseteq Procs /\ served \subseteq Javas
      /\ WantedSettle /\ FlagsSettle
      /\ \A p \in Procs : run[p].java \in Javas
  BY AppCdsAssumption DEF TypeInv, TypeOK, RunTypes, ArchiveTypes, SettleInv, RunRecord
<1> USE DEF world, vars
\* A run without a pledge finishes; it may have been served.
<1>f. ASSUME NEW p \in Procs, Finish(p), ~Pledged(p), UNCHANGED <<archive, jar>>,
             counted' \subseteq counted, j \in served' => Wanted(j)
      PROVE  Settling(j)'
  <2>1. run'[p] = IdleRun /\ \A q \in Procs : q # p => run'[q] = run[q]
    BY <1>0, <1>f DEF Finish
  <2>2. ~Relies(p)'
    BY <2>1 DEF Relies, IdleRun
  <2> QED
    BY <1>0, <1>f, <2>1, <2>2, SettleFrame
\* A run finishes and gives up js, in which j is not.
<1>g. ASSUME NEW p \in Procs, Finish(p), NEW js, GiveUp(js), run[p].java \in js \/ ~Pledged(p),
             archive'[j] = archive[j] \/ j \in js, UNCHANGED jar
      PROVE  Settling(j)'
  <2>1. run'[p] = IdleRun /\ \A q \in Procs : q # p => run'[q] = run[q]
    BY <1>0, <1>g DEF Finish
  <2>2. ~Relies(p)' /\ run'[p].pc = "idle"
    BY <2>1 DEF Relies, IdleRun
  <2>3. ASSUME j \in js PROVE FALSE
    <3>1. GiveUp(js) /\ counted \subseteq Procs
      BY <1>0, <1>g
    <3>2. j \notin served'
      BY <2>3, <3>1 DEF GiveUp
    <3>3. ASSUME NEW q \in counted', run'[q].java = j PROVE FALSE
      BY <2>1, <2>2, <2>3, <3>1, <3>3 DEF GiveUp
    <3> QED
      BY <3>2, <3>3 DEF Wanted
  <2>4. counted' \subseteq counted /\ served' \subseteq served
    BY <1>g DEF GiveUp
  <2> QED
    BY <1>0, <1>g, <2>1, <2>2, <2>3, <2>4, SettleFrame DEF Wanted
<1>1. ASSUME NEW p \in Procs, Start(p) \/ SelectArchive(p) PROVE Settling(j)'
  <2>1. run'[p].pc \in {"failed", "select", "check"}
    <3>1. CASE Start(p)
      <4>1. PICK o \in Invocations, k \in Javas :
              run'[p].pc = IF "cache" \in o /\ k \notin HasAppCds
                           THEN "failed" ELSE "select"
        BY <1>0, <3>1 DEF Start, IdleRun
      <4> QED
        BY <4>1
    <3>2. CASE SelectArchive(p)
      BY <1>0, <3>2 DEF SelectArchive, RunRecord
    <3> QED
      BY <1>1, <3>1, <3>2
  <2>2. /\ \A q \in Procs : q # p => run'[q] = run[q]
        /\ ~Pledged(p) /\ ~Relies(p)'
    BY <1>0, <1>1, <2>1 DEF Start, SelectArchive, Pledged, Relies
  <2>3. UNCHANGED <<archive, jar, served>> /\ counted' \subseteq counted \cup {p}
    BY <1>1 DEF Start, SelectArchive
  <2> QED
    BY <1>0, <2>2, <2>3, SettleFrame DEF Wanted
<1>2. ASSUME NEW p \in Procs, CheckArchive(p) PROVE Settling(j)'
  <2> DEFINE rewrite == run[p].regen \/ Outdated(p)
             flag    == IF ~run[p].use THEN "off"
                        ELSE IF run[p].java \in AutoGenerate THEN "auto"
                        ELSE IF rewrite THEN "write" ELSE "read"
  <2>1. run' = [run EXCEPT ![p] =
                  [run[p] EXCEPT !.regen = rewrite, !.mode = flag, !.pc = "final"]]
    BY <1>2 DEF CheckArchive
  <2>2. flag = "read" => run[p].java \notin AutoGenerate /\ ~IsNewer(run[p].java)
    BY DEF Outdated
  <2> HIDE DEF rewrite, flag
  <2>3. /\ run'[p].pc = "final" /\ run'[p].mode = flag /\ run'[p].java = run[p].java
        /\ \A q \in Procs : q # p => run'[q] = run[q]
    BY <1>0, <2>1 DEF RunRecord
  <2>4. ~Pledged(p) /\ UNCHANGED <<archive, jar, counted, served>>
    BY <1>2 DEF CheckArchive, Pledged
  <2>5. ASSUME run'[p].java = j, Relies(p)' PROVE Settling(j)'
    <3>1. j \notin AutoGenerate /\ ~IsNewer(j)
      BY <2>2, <2>3, <2>5 DEF Relies
    <3>2. archive[j].version = jar.version
      BY <3>1 DEF FreshInv, FreshMeansCurrent
    <3>3. archive[j].state \in {"partial", "whole"}
      BY <1>0, <3>1 DEF IsNewer, Exists, ArchiveRecord
    <3> QED
      BY <2>4, <3>1, <3>2, <3>3 DEF Settling, Current
  <2> QED
    BY <1>0, <2>3, <2>4, <2>5, SettleFrame DEF Wanted
<1>3. ASSUME NEW p \in Procs, PerformFinalMutations(p) PROVE Settling(j)'
  <2>0. UNCHANGED jar /\ ~Pledged(p)
    BY <1>3 DEF PerformFinalMutations, Pledged
  <2>1. CASE Finish(p) /\ counted' = counted \ {p} /\ UNCHANGED <<archive, served>>
    BY <1>f, <2>0, <2>1 DEF Wanted
  <2>2. CASE /\ archive' = [k \in Javas |-> IF k \in run[p].listed THEN Absent ELSE archive[k]]
             /\ Finish(p)
             /\ GiveUp(run[p].listed)
    BY <1>g, <2>0, <2>2
  <2>3. CASE /\ archive' = IF run[p].regen THEN [archive EXCEPT ![run[p].java] = Absent]
                                           ELSE archive
             /\ run' = [run EXCEPT ![p].pc = "exec"]
             /\ IF run[p].regen /\ ~run[p].use THEN GiveUp({run[p].java})
                                               ELSE UNCHANGED <<counted, served>>
    <3>1. /\ \A q \in Procs : q # p => run'[q] = run[q]
          /\ run'[p].pc = "exec" /\ run'[p].java = run[p].java
          /\ run'[p].mode = run[p].mode
      BY <1>0, <2>3 DEF RunRecord
    <3>2. run[p].pc = "final"
      BY <1>3 DEF PerformFinalMutations
    <3>3. Relies(p)' => Relies(p)
      BY <3>1, <3>2 DEF Relies
    <3>4. CASE archive'[j] = archive[j]
      <4>1. counted' \subseteq counted /\ served' \subseteq served
        BY <2>3 DEF GiveUp
      <4> QED
        BY <1>0, <2>0, <3>1, <3>3, <3>4, <4>1, SettleFrame DEF Wanted
    <3>5. CASE archive'[j] # archive[j]
      <4>1. run[p].java = j /\ run[p].regen
        BY <1>0, <2>3, <3>5
      <4>2. CASE run[p].use
        <5>1. run[p].mode \in {"write", "auto"}
          BY <1>0, <3>2, <4>1, <4>2 DEF FlagsSettle
        <5> QED
          BY <3>1, <4>1, <5>1 DEF Settling, Pledged
      <4>3. CASE ~run[p].use
        <5>1. GiveUp({run[p].java})
          BY <2>3, <4>1, <4>3
        <5> QED
          BY <1>0, <3>1, <4>1, <5>1, GivenUp
      <4> QED
        BY <4>2, <4>3
    <3> QED
      BY <3>4, <3>5
  <2> QED
    BY <1>3, <2>1, <2>2, <2>3 DEF PerformFinalMutations
<1>4. ASSUME NEW p \in Procs, Exec(p) PROVE Settling(j)'
  <2> DEFINE flag == IF run[p].mode # "auto" THEN run[p].mode
                     ELSE IF Current(run[p].java) THEN "read" ELSE "write"
  <2>1. run' = [run EXCEPT ![p] =
                  [run[p] EXCEPT !.loaded = jar.version, !.mode = flag,
                                 !.pc = "running"]]
    BY <1>4 DEF Exec
  <2>2. \/ flag = run[p].mode /\ run[p].mode # "auto"
        \/ flag = "read" /\ Current(run[p].java)
        \/ flag = "write"
    OBVIOUS
  <2> HIDE DEF flag
  <2>3. /\ run'[p].pc = "running" /\ run'[p].mode = flag /\ run'[p].java = run[p].java
        /\ \A q \in Procs : q # p => run'[q] = run[q]
    BY <1>0, <2>1 DEF RunRecord
  <2>4. run[p].pc = "exec" /\ UNCHANGED <<archive, jar, counted, served>>
    BY <1>4 DEF Exec
  <2>5. Current(j) => Settling(j)'
    BY <2>4 DEF Settling, Current
  <2>6. ASSUME run[p].java = j, Pledged(p) PROVE Settling(j)'
    <3>1. CASE flag = "write"
      BY <2>3, <2>6, <3>1 DEF Settling, Pledged
    <3> QED
      BY <2>2, <2>4, <2>5, <2>6, <3>1 DEF Pledged
  <2>7. ASSUME p \in counted, run'[p].java = j, Relies(p)' PROVE Wanted(j) \/ Settling(j)'
    <3>1. flag = "read" /\ run[p].java = j
      BY <2>3, <2>7 DEF Relies
    <3> QED
      BY <2>2, <2>4, <2>5, <2>7, <3>1 DEF Wanted, Relies
  <2> QED
    BY <1>0, <2>3, <2>4, <2>6, <2>7, SettleFrame DEF Wanted
<1>5. ASSUME NEW p \in Procs, DumpBegin(p) PROVE Settling(j)'
  <2>1. /\ run'[p].pc = "dumping" /\ run'[p].java = run[p].java
        /\ \A q \in Procs : q # p => run'[q] = run[q]
    BY <1>0, <1>5 DEF DumpBegin, RunRecord
  <2>2. p \in archive'[run[p].java].writer
    BY <1>0, <1>5 DEF DumpBegin
  <2>3. Pledged(p)'
    BY <2>1, <2>2 DEF Pledged
  <2>4. CASE run[p].java = j
    BY <2>1, <2>3, <2>4 DEF Settling
  <2>5. CASE run[p].java # j
    <3>1. archive'[j] = archive[j] /\ UNCHANGED <<jar, counted, served>>
      BY <1>0, <1>5, <2>5 DEF DumpBegin
    <3> QED
      BY <1>0, <2>1, <2>5, <3>1, SettleFrame DEF Wanted
  <2> QED
    BY <2>4, <2>5
<1>6. ASSUME NEW p \in Procs, DumpEnd(p) PROVE Settling(j)'
  <2>1. /\ Finish(p) /\ counted' \subseteq counted /\ UNCHANGED jar
        /\ served' = Served(p) /\ run[p].pc = "dumping"
    BY <1>6 DEF DumpEnd
  <2>2. CASE p \notin archive[run[p].java].writer
    <3>1. ~Pledged(p) /\ UNCHANGED archive
      BY <1>6, <2>2 DEF Pledged, DumpEnd
    <3>2. j \in served' => Wanted(j)
      BY <2>1, <2>2 DEF Served, Wanted, Relies
    <3> QED
      BY <1>f, <2>1, <3>1, <3>2
  <2>3. CASE p \in archive[run[p].java].writer /\ run[p].java = j
    <3>1. /\ archive'[j].state = "whole"
          /\ archive'[j].version = archive[j].version
      BY <1>0, <1>6, <2>3 DEF DumpEnd, ArchiveRecord
    <3>2. archive[j].version = jar.version
      BY <2>1, <2>3 DEF FreshInv, WritersCurrent
    <3> QED
      BY <2>1, <3>1, <3>2 DEF Settling, Current
  <2>4. CASE p \in archive[run[p].java].writer /\ run[p].java # j
    <3>1. archive'[j] = archive[j]
      BY <1>0, <1>6, <2>4 DEF DumpEnd
    <3>2. run'[p] = IdleRun /\ \A q \in Procs : q # p => run'[q] = run[q]
      BY <1>0, <2>1 DEF Finish
    <3>3. ~Relies(p)'
      BY <3>2 DEF Relies, IdleRun
    <3>4. j \in served' => Wanted(j)
      BY <2>1, <2>4 DEF Served, Wanted
    <3> QED
      BY <1>0, <2>1, <2>4, <3>1, <3>2, <3>3, <3>4, SettleFrame
  <2> QED
    BY <2>2, <2>3, <2>4
<1>7. ASSUME NEW p \in Procs, JvmExit(p) PROVE Settling(j)'
  <2>1. /\ Finish(p) /\ ~Pledged(p) /\ UNCHANGED <<archive, jar>>
        /\ counted' \subseteq counted /\ served' = Served(p)
        /\ run[p].pc = "running" /\ run[p].mode # "write"
    BY <1>7 DEF JvmExit, Pledged
  <2>2. run[p].use => run[p].mode = "read"
    BY <1>0, <2>1 DEF FlagsSettle, RunRecord
  <2>3. j \in served' => Wanted(j)
    BY <2>1, <2>2 DEF Served, Wanted, Relies
  <2> QED
    BY <1>f, <2>1, <2>3
<1>8. ASSUME NEW p \in Procs, JvmKilled(p) PROVE Settling(j)'
  BY <1>8, <1>g DEF JvmKilled
<1>9. ASSUME NEW p \in Procs, Again(p) PROVE Settling(j)'
  BY <1>9, <1>f DEF Again, Pledged, Wanted
<1>10. ASSUME Upgrade PROVE Settling(j)'
  <2>1. j \notin served' /\ counted' = {}
    BY <1>0, <1>10 DEF Upgrade, GiveUp
  <2> QED
    BY <2>1 DEF Wanted
<1>11. CASE Tick \/ UNCHANGED vars
  <2>1. UNCHANGED <<run, archive, jar, counted, served>>
    BY <1>11 DEF Tick
  <2>2. Wanted(j)
    BY <2>1 DEF Wanted, Relies
  <2>3. Settling(j)
    BY <1>0, <2>2 DEF WantedSettle
  <2> QED
    BY <2>1, <2>3 DEF Settling, Current, Pledged
<1> QED
  BY <1>1, <1>2, <1>3, <1>4, <1>5, <1>6, <1>7, <1>8, <1>9, <1>10, <1>11
     DEF Next, ScriptStep, JvmStep

\* If JRuby is upgraded only while nothing runs: however the runs of a Java delete
\* and overwrite each other's archives and are killed, once a run that began after
\* the archive was last given up has used AppCDS to its end, and all have finished,
\* the archive is there and is current, or, before Java 19, is the torso a killed
\* JVM left (the age check and the final mutations of jruby.sh).
THEOREM Settles ==
    ASSUME ~UpgradeWhileRunning
    PROVE  Spec => []ArchiveSettles
<1> DEFINE Inv == TypeInv /\ FreshInv /\ SettleInv
<1>1. Init => Inv
  BY TypeInit, FreshInit, SettleInit
<1>2. Inv /\ [Next]_vars => Inv'
  BY TypeStep, FreshStep, FlagsSettleStep, WantedSettleStep DEF SettleInv
<1>3. Inv => ArchiveSettles
  <2> SUFFICES ASSUME Inv, NEW j \in served, LiveRuns(j) = {}
               PROVE  Current(j) \/ (j \notin AutoGenerate /\ Torso(j))
    BY DEF ArchiveSettles
  <2>1. Settling(j)
    BY AppCdsAssumption DEF TypeInv, TypeOK, SettleInv, WantedSettle, Wanted
  <2>2. ASSUME NEW p \in Procs, run[p].java = j, Pledged(p) PROVE FALSE
    BY <2>2 DEF Pledged, LiveRuns
  <2> QED
    BY <2>1, <2>2 DEF Settling, Torso
<1> QED
  BY <1>1, <1>2, <1>3, PTL DEF Spec
=============================================================================
