# A TLA+ model of jruby-launcher

jruby-launcher starts JRuby: it works out where JRuby and Java are, turns a Ruby command line and the
environment into a Java command line, and runs it, or hands the command to a nailgun server and forwards its
streams. This directory models the parts of it in which order, failure and shared state matter, checks them with
TLC on small instances, and proves the properties that TLAPS can reach for every instance.

## The system

| part | source | keeps | does | talks to |
| --- | --- | --- | --- | --- |
| nailgun client | `ng.c` | the socket, `buf`, `startedInput`, a stdin thread (Windows) or `eof` (POSIX) | sends arguments, environment, directory and command; forwards stdout, stderr and stdin; exits with a status | a nailgun server over TCP, the user's terminal |
| Windows executables | `jrubyexe.cpp`, `nbexecloader.h`, `utilsfuncs*.cpp` | main's `argv`, the console | deletes an old log, sets up a console (`jrubyw`), loads `jruby.dll` | `startPlatform` in the DLL |
| `PlatformLauncher` | `platformlauncher.cpp`, `jruby.cpp` | `jdkhome`, `nailgunClient`, `separateProcess`, ... (inherited from `ArgParser`) | reads the command line again, chooses a Java, prepares options, prints or runs | `ArgParser`, `JvmLauncher`, `nailgunClientMain` |
| `ArgParser` | `argparser.cpp`, `argnames.h` | `javaOptions`, `progArgs`, the class paths | `parseArgs`, `prepareOptions` | environment, the files of `lib` |
| `JvmLauncher` | `jvmlauncher.cpp` | paths of `java.exe`, `javaw.exe` and the two `jvm.dll` | finds a Java in a home or the registry, runs it in the process or in its own | registry, DLLs, processes |
| `jruby.sh`, archives | `exe/jruby.sh` 580-597, 817-931, 1014-1048 | `use_jsa_file`, `regenerate_jsa_file`, `remove_jsa_files` | decides to use, rewrite or delete the AppCDS archive | the archives, shared with every other run; the JVM |
| `jruby.sh`, the rest | `exe/jruby.sh` | shell variables | finds Java, reads options, assembles the command | environment, file system |
| Unix launcher | `unixlauncher.c` | - | finds itself, execs `jruby.sh` or `jruby.sh.bak` | file system |
| command line splitter | `rb_w32_cmdvector.h`, `strlcpy.c` | a list of elements, the vector and its string table | splits and unquotes the Windows command line | `PlatformLauncher::start`; `startOutProcJvm` quotes the words again |
| installation | `Makefile` | `jruby.sh`, `jruby.sh.bak` | `make install` writes both, also while launchers run | the directory the Unix launcher execs from |

On Windows `jruby.exe` loads `jruby.dll`; its `startPlatform` runs `PlatformLauncher::start`, which ends in a JVM
in the same process, a JVM in a child process, or the nailgun client. On Unix the executable only finds and execs
the shell script, which does the rest. `ng.c` has a POSIX branch too; the Unix makefile of `nbproject` builds it.

What is hard in each, and what makes it correct:

* **nailgun client.** Two threads and a server share one connection with no lock; `send`, `recv` and writes are
  partial; either end can go at any time. Output must appear in order and before the status, input must arrive in
  order and only when asked for, chunks must not mix, a broken session must not look like a finished command, and
  the client must end.
* **archives of jruby.sh.** Any number of runs read, delete and rewrite the same files with no lock, and decide
  from modification times. An archive of another JRuby must not be used, whatever the overlap the archives must
  end up there and current, and a run that only reports must change nothing.
* **Windows launcher.** Sequential, but words are judged by three passes over two copies of the command line, four
  sources of options contradict each other, and three functions overwrite each other's choice of Java. The
  script's arguments must stay intact, the user's choice must win, nothing must start that was not asked for, and
  the status must be the JVM's.

* **command line splitter.** Two passes judge the same quotes, backslashes and blanks, the second while it
  shortens the element, and the copies go to a block whose size was counted in another loop. The passes must agree,
  and the words must survive being quoted and split again by java.exe.
* **Unix launcher.** Sequential, on a directory others change: it repeats the shell's search by rules of its own,
  resolves its path later, and tries two scripts one after the other. It must come to its own installation, must
  not take the backup without need, and must not give up while a script was there all the time.
* **jruby.sh, the rest.** Options come from five files, five variables and the command line and are read in another
  order than they are promised to be in; JAVACMD and JAVA_HOME may name different Javas. Ruby's words must stay
  intact, the user must have the last word, flags must fit the Java that runs, JRuby must be on one path, and
  success must mean that something ran.

## The modules

| module | models |
| --- | --- |
| `NailgunWire` | chunk headers, chunk types, exit statuses of `ng.c` |
| `NailgunClient` | `nailgunClientMain` and all it calls, both builds |
| `NailgunSession` | client, TCP connection and server (external); fairness; the properties |
| `StreamForwarding` | abstract: what a remote command's client promises |
| `NailgunRefinement` | the session implements `StreamForwarding` |
| `NailgunProofs` | theorems about `NailgunSession`: types, one sender at a time |
| `NailgunStreamProofs` | theorems about the server's stream: output, exit code, requests for input |
| `NailgunUploadProofs` | theorems about the client's stream: its chunks, the words, stdin, status 227; and that the session implements `StreamForwarding` |
| `AppCds`, `AppCdsProofs` | the archives of `jruby.sh`, and theorems about them |
| `LauncherArgs` | `ArgParser` |
| `WinLauncher` | the executables, `PlatformLauncher` and `JvmLauncher`, composed with `LauncherArgs` |
| `WinProofs` | theorems about `WinLauncher` |
| `CmdVector` | `rb_w32_cmdvector`, `strlcpy`, the quoting of `startOutProcJvm` and the words of `addEnvVarToOptions` |
| `Selection` | the part of a sequence that is at some places, in a form that proofs can use |
| `UnixLauncher` | `unixlauncher_run`, and those who change its directory |
| `JrubySh` | `jruby.sh` without its archives |
| `UnixJRuby` | launcher, others and script composed: one process that execs twice |
| `CmdVectorProofs` | theorems about `CmdVector` |
| `UnixProofs` | theorems about the launcher and the script in `UnixJRuby` |
| `LauncherLemmas` | what several of the proofs rest on: least and greatest elements, functions defined by recursion, what `Selected` selects and in which order, the last word with an option |
| `MC...` | values of the constants for TLC |

### The nailgun client

There is one action for each system call whose outcome the code looks at, or should: between two of them the other
thread, the server and the network act. `job[t]` holds what the `sendAll` calls of thread `t` have still to send
(a header and its payload are sent back to back by one thread, with nothing in between, so they are one job);
`Send(t)` is one `send()` of any number of bytes. `up` and `down` hold the bytes under way. A `recv` returns any
element of `RecvCounts`: with `MSG_WAITALL` 0 (Windows) any part of what is there, otherwise all or what is left
when the connection ends.

| action | code |
| --- | --- |
| `ParseWord`, `Connect`, `ConnectFails` | loop over `argv` 606-638, connection 640-665 |
| `SendArg`, `OpenFileArg`, `ReadFileArg`, `SendEnv`, `SendDir`, `SendCmd` | 667-693, `sendFileArg`, `sendText` |
| `ProcessNailgunStream` | `processnailgunstream`, `winStartInput` |
| `RecvToFD`, `WriteToFD`, `WriteFails`, `RetryWrite` | `recvToFD` |
| `ProcessExit` | `processExit` |
| `ThreadReadStdin` | `processStdin` (Windows) |
| `HandleError`, `ThreadHandleError` | `handleError`, once its message box is answered |
| `BrokenPipe` | SIGPIPE (POSIX), which `ng.c` leaves to kill the process |
| `MainReadStdin` | `processStdin` (POSIX) and the `select` loop |

Stdin bytes are numbered from the start of the input and output bytes in order of production, so that a doubled,
lost or swapped byte is seen. `Radix` (256 in the code) is a constant so that size fields with more than one digit
occur for small chunks. `behind` and `wbuf` are the memory before and from `buf + bytesCopied` on: a POSIX `write` that fails
returns -1, which `recvToFD` adds to `bytesCopied`, so that the next one begins a byte earlier, and may begin in front of `buf`
(`BeforeBuf`, the memory there). `Faults` says what may fail: `connect`, the file of `--nailgun-filearg`, `ReadFile` (`"stdin"`),
`CreateThread` (`"thread"`), `write` and `WriteFile` (`"output"`). A `ReadFile` that fails has read no byte, and is sent as the end of
the input (`tpc` `"cut"`). Host name and port are left out (only whether their words are consumed matters), and a word
of a command line is one byte.

The server is external: it reads chunks, runs the command once it has the `C` chunk, sends output, `S` and `X`
chunks, closes, and may die. A close with input unread resets the connection and may throw away bytes under way.

### The archives

`AppCds` has one action per read or write of the file system by the script, in its order: `Start` (options 817-826,
with the defaults of 580-597), `SelectArchive` (862-881), `CheckArchive` (`is_newer`, 883-931),
`PerformFinalMutations` (1014-1031), `Exec` (1033-1048). `run[p].use`, `.regen`, `.remove`, `.listed` are
`use_jsa_file`, `regenerate_jsa_file`, `remove_jsa_files`, `jruby_jsa_files`. The JVM (`DumpBegin`, `DumpEnd`,
`JvmExit`, `JvmKilled`), the clock and upgrades are external: at exit a JVM that was told to writes the archive, in
two steps, and a kill in between leaves part of one. A JVM that may create the archive by itself checks it first
against the jar. `counted` and `served` are history variables of the property `ArchiveSettles`.

### The Windows launcher

`parser` holds the fields of the `ArgParser` object; the operators of `LauncherArgs` (`ReadOption`, `ReadValue`,
`ConstructClassPath`, `PrepareOptions`, ...) are its methods, and `WinLauncher`'s actions are the steps of `main`,
`start`, `run` and `JvmLauncher::start`: `CheckLoggingArg`, `SetupProcess`, `LoadPlatform`, `Start`, `ParseWord`,
`CheckJDKHome`, `CheckJavaHome`, `StartNailgun`, `AddScriptName`, `ChooseJava`, `Prepare`, `Launch`, `LoadJavaDll`,
`StartInProcJvm`, `StartOutProcJvm`, `JvmEnds`. A word is a record of the option it is and what is left of it; a path is a
sequence of elements. `env` is everything the run meets: variables, registry, console. What may go either way (an
answer to a message box, a DLL that does not load, a process that cannot be created, an `AttachConsole` that fails)
is a choice of the action. `exit(0)` after a JVM in the process, `return 255` from a bool function and the removal
of `-client` from the wrong list are modelled as they are.

`PlatformDir` is `initPlatformDir`, and `FindOnPath` the search on `PATH` that it and `ChooseJava` make. A path of a file or a
directory is the sequence of what is between its backslashes; `Present` are the paths that lead somewhere. `findOnPath` puts
`argv[0]`, whatever it is, behind each element of `PATH`, so a launcher called as `.\jruby` is looked for too. `EmptyElement` has
two values, because an empty element of `PATH` makes `findOnPath` read the character before the first: what that is depends on
the build. A status of a JVM is a DWORD, of at most `2 * INT_MAX + 1`; `LauncherStatus` makes an int of it.

### The Windows splitter

A character is one of six kinds. `pc` says which loop the function is in: `"skip"` (71-82), `"scan"` the first pass
(83-150), `"unquote"` the second (170-208), `"count"` and `"copy"` the vector (225-273). There is one action per case of
each `switch`. The second pass works on `str`, the element, in place, as the code does; `Removed` is its
`(slashes + 1) >> 1`. `Keep` appends to the list and may fail (`calloc`), which ends in `"nothing"`. The string table is
a sequence with a NUL for each element, written by `Strlcpy`. `Reference` is what the comments say of the two passes, as
one fold over the line. `CommandLineFor` is the command line that `startOutProcJvm` makes of the words, and `CrtSplit`
(external) how java.exe's C runtime splits that. `EnvWords` is `addEnvVarToOptions`, on the same characters.

### The Unix launcher and jruby.sh

`UnixLauncher` has an action for each step between which the directory may change: the search (`SelfIsName`), `realpath`
(`FindScriptDir`) and each `execv` (`ExecScript`). `InstallBegins`, `InstallBackup`, `InstallWrites` are the recipe of `make
install`, a file being empty, then partial, then whole; `InstallDies` may leave it partial; `DeleteScript` is the deletion the
backup exists for, `RemoveLauncher` an uninstallation; `unreadable` are the directories whose launcher may be run but not read, which `access` refuses. `seen` is a
history variable: which scripts were whole, at every moment of the run.

`JrubySh` has an action for each stage of the script (`FindJava` 459-556, `CheckVersion` 561-578, `ReadEnvironment` 615-717,
`Assemble` 845-1036) and each kind of turn of the option loop (719-835). `sh` holds the script's variables, `rest` its `"$@"`,
`command` what it execs, words grouped into those for the JVM and those for Ruby. Of the options for the archive it has what
ends the script or reaches Ruby (`SelectArchive`, `RefuseArchive`): `--cache` on a Java without AppCDS (`jsa`) is refused, `--cache`
alone runs `-e 1`, `--rmcache` exits with 0, both do nothing if the archive's directory is not `writable`, and `JRUBY_JSA` ends the
script with an error. `UnixJRuby` composes both: a whole
script runs `JrubySh`, of a partial one nothing is known but that the shell ends with 0 or 2.

## The runs

| run | states | shows |
| --- | --- | --- |
| `nailgun_forward` | 3.5 million | Windows client: output in order (`OutputInOrder`), status only after all output, and success not reported as failure (`ExitAfterOutput`), one sender at a time (`SingleSender`), stdin untouched before it is asked for (`InputOnlyOnRequest`) and delivered in order, each chunk going on where the last one ended, and before its end (`StdinDelivered`) |
| `nailgun_live` | 0.3 million | the client ends (`ClientEnds`), and the session implements `StreamForwarding` (`ImplementsForwarding`) |
| `nailgun_posix` | 2.5 million | POSIX client: the server reads the upload that was asked for (`UploadComplete`) in the order it expects (`ChunksInOrder`); 227 means the server is gone (`BrokenMeansServerGone`) |
| `nailgun_short_recv` | violation | the last property fails on Windows |
| `appcds` | 1.9 million | an archive that counts as fresh is current (`FreshMeansCurrent`), archives settle (`ArchiveSettles`), `--environment` is read-only (`EnvironmentReadOnly`) |
| `appcds_upgrade` | violation | `FreshMeansCurrent` fails if JRuby is upgraded while a JVM runs |
| `appcds_override` | violation | setting `JRUBY_JSA` makes the script fail |
| `win_launcher` | 0.3 million | arguments intact (`ScriptArgsIntact`), user's option last (`UserHasLastWord`), the right Java (`JavaPrecedence`), the launcher's own JRuby (`HomeIsOwn`), module options for the Java that runs (`OptionsFitJava`), each jar on one path, but for what the user names (`JarsOnce`), no foreign options for the DLL (`InProcessOptions`), nothing started unasked (`StartsOnlyWhenAsked`), status (`StatusReported`) |
| `cmdvector` | 0.5 million | nothing outside the line and its blocks (`TypeOK`), the passes agree with the reference (`SplitsAsReference`), the vector is the elements (`VectorHoldsElements`), java.exe sees the same words (`JavaSeesSameWords`), `JRUBY_OPTS` is split like the command line (`OptionsSplitAlike`) |
| `unix_jruby` | 0.2 million | the launcher's own directory (`FindsItself`), the backup only if needed (`MainScriptFirst`), failure only without scripts (`FailsWithoutScripts`), Ruby's words (`RubyArgsIntact`), the user's memory and stack (`MemoryAsSaid`), the promised order (`CascadeInOrder`), flags of this Java (`FlagsFitJava`), one path for JRuby, but for what the user names (`JRubyLoadedOnce`), status (`SucceedsOnlyByRunning`) |
| `win_console` | violation | the console mode of `jrubyw` becomes the script (`ConsoleModeConsumed`) |
| `win_trace` | violation | an argument of the script names a log that is deleted (`TraceOnlyFromOptions`) |

Each property of a passing run also has a mutant, an operator next to the one it changes, that breaks it.

### Bounds

* *Nailgun.* `Radix` and `BUFSIZE` are 2 and payloads go up to 3, so chunks need two digits and two passes through
  the buffer. Two output chunks or stdin requests show every pair of successive chunks; two stdin bytes and a
  2-byte buffer give full, short and repeated reads; two threads are enough for a second one to be started wrongly.
  `SockBuf` is 5 or 6, smaller than two chunks, so senders block. Exit texts are 0, 10 and -1. In the POSIX run there is one byte
  in front of `buf`, and no `write` fails once a byte is written (`MaxWritten`), which bounds the bytes it repeats. The live run has one
  thread and one byte of stdin, since it is about ends, not about orders. The POSIX run's command lines have each
  option, its value missing, and each option where another's value should be, `--nailgun-filearg` as its own value included.
* *Archives.* Two runs at a time overlap in every way two can; a third would meet the same files in the same
  states. Three Javas are the three cases of the script (no AppCDS, AppCDS, automatic generation). Two ticks of the
  clock make files of equal, lower and higher age; there is one upgrade.
* *Windows.* Lines of up to three words over a vocabulary with each kind of option give each option each successor
  and each place; longer ones repeat the loop. The other lines meet each combination of `JAVACMD`, `JAVA_HOME`, `PATH`, two
  registry keys, console, `JAVA_OPTS` and `CLASSPATH`, with homes that have both VMs, one, or none. Every `PATH` of up to two
  elements meets both installations, each way to call the program (`jruby`, `jruby.exe`, `.\jruby`, an absolute path) and
  `JRUBY_HOME`. The class paths name jars of `lib`, alone and among others. `INT_MAX` is 127, and the statuses are 0, 3 and 255,
  which is -1 as an int.
* *Splitter.* Five characters of all kinds, and six without the white space that only matters at the start, hold two
  words with a string, two escaped quotes, or a doubled quote after an escape; a seventh repeats a state the loops
  have been in.
* *Unix.* Every `PATH` of up to two elements over the launcher's directory, a link to it, a directory with another
  entry of its name and an empty element; the scripts in every state at the start and two changes (deletions,
  removals, installs), so that one may undo what the other did between two tries. `jruby.sh` gets every line of up
  to two words over all kinds of options and three over the ones that interact, and a few lines with every mixture
  of `JAVACMD`, `JAVA_HOME`, `java_home`, option files, `JAVA_OPTS`, `JAVA_STACK` and `CLASSPATH`. These start from one launch, as
  the script reads nothing that the launches differ in. The class paths of the environment, of `-J-cp` and of a parent JRuby name
  `jruby.jar`, each alone or before another jar. Every pair of `--cache`, `--nocache` and `--rmcache` meets a Java without AppCDS, one
  with, and one whose archives are missing, with and without a writable directory.

### Fairness

`FairSpec` assumes that the client's main thread takes a step it can take (the operating system runs it, and a
`send` or `recv` that can return returns), that the server's thread goes on sending what it has begun, and that it
closes after the exit chunk. Nothing is assumed of the user (`ReadStdin`, and `HandleError`, the answer to a
message box), of the command's reading its input (`ServerRead`) or of its end (`ServerExit`). `ClientEnds` is therefore
conditional: once the command has ended or the connection has, the client ends or shows that box (`winStartInput` without a
thread, `ng.c:439`; the stdin thread's box does not stop the main thread). It is checked of the Windows build without the fault `"output"`, with which it does not hold
(`WriteFile` fails for ever, `ng.c:298`).

## What the code does otherwise

Five runs show the code to disagree with its own comments, help or tests; PROJECT.json quotes them ("findings").
Further disagreements met while modelling, which are in the model and in no run:

* A `write` that fails in the POSIX client adds -1 to `bytesCopied` (`ng.c:304`): what follows is written from one byte earlier,
  so that output is doubled or comes from memory in front of `buf`, and the session still ends with the command's status.
  `OutputInOrder` and `ExitAfterOutput` do not hold then. The theorems about them have the premise `WritesSucceed`, and the
  run that checks them is of the Windows build, where a failing `WriteFile` adds nothing. A closed reader is another
  matter: SIGPIPE kills the POSIX client.
* A `ReadFile` of stdin that fails has read 0 bytes and is sent as the end of the input (`ng.c:368-378`): the command sees
  the end of an input that was cut short. Only if bytes were read does the failure reach `handleError`.
* `processExit` accepts part of the exit text or none: a command that failed with -1 or whose server dies between
  header and text is reported as successful (`ng.c:321-329`).
* A `--nailgun-filearg` file that cannot be read to its end leaves the argument without the empty chunk that ends it
  (`ng.c:238`, the comment at 218).
* The POSIX client can wait for ever for a server that waits for it: it sends stdin and receives output in one
  thread (`ng.c:721`).
* In-process launches that fail, and a Java that is nowhere but in the registry, exit with 0
  (`platformlauncher.cpp:210`, 162-172); `StatusReported` names these two and `-Xcommand` as the only such cases.
* The DWORD a child ends with is returned as an int (`jvmlauncher.cpp:422`), so a child that ends with 0xFFFFFFFF cannot be told from
  a launcher that started nothing, for which `startPlatform` returns -1 (`jruby.cpp:69`).
* A launcher called as `.\jruby` with only its own directory on `PATH` is found there as `C:\jruby\bin\.\jruby`, and the home, two
  separators up, is `C:\jruby\bin` (`utilsfuncs.cpp:134`, `argparser.cpp:215`).
* `CLASSPATH`, or a `-J-cp`, of several elements is compared with a jar of `lib` as one string (`argparser.cpp:682`), and the values of
  `-Xcp:p` and `-Xcp:a` are not compared at all: a jar of `lib` that they name is loaded from two places. On Unix nothing is
  compared, and a `jruby.jar` in `CLASSPATH`, `-J-cp` or the class path of a parent JRuby (`jruby.sh:684-686`) is there twice.
  `JarsOnce` and `JRubyLoadedOnce` count what the user names and exclude any other copy.
* `--rmcache` with a writable directory exits with 0 and runs no Ruby, even if there is a script (`jruby.sh:1023`), and with
  `--cache` and no word for Ruby the script is `-e 1` (line 887).
* After a `jvm.dll` fails to load, the child process gets `-Djava.class.path` in place of `-cp`
  (`jvmlauncher.cpp:174`, the comment at `argparser.cpp:529`).
* `-Xcp <classpath>` of the help (`argparser.cpp:39`) is not an option: it becomes the property `jruby.cp`, and the
  path is the script.
* Without a client `jvm.dll`, `-client` is removed from the arguments of Ruby, not from the options of the JVM that the
  comment speaks of (`jvmlauncher.cpp:386`). An argument of 2048 characters or more leaves `wstr` uninitialised
  (`jvmlauncher.cpp:217`).
* Module options are chosen by `jdkhome` (`argparser.cpp:561`). `JAVACMD` and the registry do not set it, and a `java.exe` on `PATH`
  does: the options may be another Java's. `@file` and `--add-opens <value>` are forms of the `java` command, which a JVM in
  the process does not know (`argparser.cpp:508`). `OptionsFitJava` is about `-Xjdkhome` and `JAVA_HOME`.
* What is found on `PATH` under the launcher's name, a directory of that name included, replaces the path of
  `jruby.dll` (`argparser.cpp:202`); `getenv("PATH")` is not tested for NULL (`utilsfuncs.cpp:124`).
* A local variable hides the member `setDllDirectory` (`jvmlauncher.h:118`), so the DLL directory is never restored.
* A backslash before a blank in a string is still counted at the next quote (`rb_w32_cmdvector.h:103`): `"C:\dir\ " x.rb`
  becomes one argument, against the comment at line 99. `memcpy` at 184 has overlapping arguments. Without memory the
  function returns the `argv` of its caller, whose first word `PlatformLauncher::start` then drops.
* `startOutProcJvm` escapes nothing in the words it quotes: a double quote, or a backslash at the end of a word, changes
  the words that Ruby gets (`jvmlauncher.cpp:391`).
* "If we get here neither script was available" (`unixlauncher.c:144`) need not be true of any one moment: an install between
  the two tries restores the first and truncates the second. A killed install leaves a partial `jruby.sh`, which the
  next one does not restore (`Makefile:45`) and which is run as far as it goes.
* `which()` asks for a launcher that can be read, is content with a directory, and takes an empty element of `PATH` for the root (`unixlauncher.c:57`); of a
  removed launcher `realpath()` is NULL, and `jruby.sh` of the current directory is run (line 115).
* The default `-Xss` comes after the option files and overrides theirs (`jruby.sh:226`). `CP`, `JRUBY_CP` and
  `java_runtime_version` are read before they are set, so that a parent's exported ones leak in (lines 559, 666, 693).
* An archive that a killed JVM left incomplete is never replaced before Java 19: `ArchiveSettles` excepts it.

Some properties are narrower than the hazard they are aimed at, and are to be read so:

* `ExitAfterOutput` says that the command's status is the last thing and that success is not reported as failure; not that
  failure is never reported as success, which is false (above).
* `FreshMeansCurrent` and `ArchiveSettles` rest on `Upgrade` stamping `jruby.jar` with the time of the upgrade. A package manager
  that keeps the time the jar was built would make an old archive look newer than the jar; such an upgrade is not modelled.
* `OptionsFitJava` is about `-Xjdkhome` and `JAVA_HOME` only, `InProcessOptions` only about the JVM in the process, and
  `OptionsSplitAlike` only about blanks that are spaces: of a tab the environment's split (`argparser.cpp:105`) knows nothing.
* `BrokenMeansServerGone`, `ChunksInOrder` and `UploadComplete` are run on the POSIX build, whose client has one thread. That no
  stdin thread mixes its chunks with the upload is the theorem `UploadIsOrdered`, and `SingleSender` in the Windows run.
* `UploadComplete` reads the plain words off `argv` as the parsing loop has left it, with the client's own options set to NULL
  (`PlainPlaces`): that the loops after it neither lose nor double one of these is checked, that the parsing loop sets no other
  word to NULL is not.

## Proofs

Every theorem holds for every value of the constants that the named assumptions of its modules allow. One of these says
more than what kind of value a constant has: by `SizesFit` (`NailgunSession`) no payload is as long as the size field can
count (`SizeLimit`, 2^32 in the code), which `BUFSIZE` and the system's limits on arguments, environment and
paths ensure. A theorem with a premise of its own (`~Win32`, `WritesSucceed`, `~UpgradeWhileRunning`) is named with it below.

### The nailgun session

* `TypeCorrect`: `TypeOK`. `TypeInv` adds that in `recvToFD` bytes are missing, so that a successful `recv` is not one that
  returned -1. One lemma per action, on lemmas about the wire and about sequences.
* `OneSender`: `SingleSender`. Not inductive by itself. `SenderInv` adds why: a stdin thread exists only once
  `startedInput` is set, there is at most one, and while there is one the upload is over and the main thread has nothing
  left to send.
* `OutputNeverMixed`, `ExitCodeIsLast`, `InputIsAskedFor`: `OutputInOrder`, `ExitAfterOutput`, `InputOnlyOnRequest`. The state
  does not say what the server has sent so far; the invariant `StreamInv` says that there *is* a stream `w` of `m` whole
  chunks with the bounds `b`, of which the command had output `o[j]` bytes before chunk `j`, and that the client is in chunk
  `k` at byte `p` of it. `Says` relates the chunks to what the command did, `InFlight` the stream to the bytes on
  their way, `Reader` the client's variables (`len`, `bytesRead`, `wbuf`) to its place in the chunk. One lemma extends
  the stream (`StreamGrows`), one takes bytes off it (`StreamTaken`), one reads a header (`HeaderRead`, from
  `SizeOfHeader`: the four digits of a size that fits stand for it), one writes (`StreamWrite`). The first two have the premise
  `WritesSucceed`: the build is WIN32, or no `write` fails. Without it they are false (`ng.c:304`, above), and `StreamInv`
  says nothing of what has been written then.
* `UploadIsOrdered`, `InputIsDelivered`: `ChunksInOrder`, `StdinDelivered`. `UploadInv` does the same for the other direction: the
  stream of everything the client's threads have put in chunks, with `s[j]` bytes of stdin read before chunk `j`; the
  server has read `k` chunks and is at byte `p`. Its chunks are ranked (`Ranked`), and no rank is above the client's
  `Phase`. That only one thread has bytes left to send (`UpFlight`) is `OneSender`'s invariant. The end of
  stdin comes behind all that was read, which is all there is, or a `ReadFile` has failed (`"cut"`).
* `WordsArrive`: `UploadComplete`. The property is about a moment at which the server has read part of a stream that the client
  wrote long before. `CompleteInv` therefore says of the whole stream of `UploadInv` that it tells, by chunks of their types and
  in their order, what the loops have sent so far (`Tells`: `f[x]` is the chunk with the text at place `x`): the plain words
  before `i`, the environment's texts before `i`, the directory. That the loop over the words never stops at the name
  of a file (`AtWord`) needs `FileNames`, a recursive function, to be unfolded (`FileNamesAre`). Once the server has read the `CMD` chunk the
  ranks of `Ranked` say that it has read all the chunks that go before it, and `PayloadsAre` that their payloads are the
  texts. The proof showed a case which the property had left out: of two `--nailgun-filearg` in a row the second is a name, so
  that the word after them is plain again (`ng.c:672`); the run now has it.
* `BrokenOnlyByServer`: `BrokenMeansServerGone` of the POSIX build (`~Win32`). With `MSG_WAITALL` a short `recv` happens only
  at the end of the stream; the Windows build does not have it, and the run `nailgun_short_recv` refutes the property.
* `SessionImplementsForwarding`: `ImplementsForwarding`, under `WritesSucceed`, from all these invariants: initial states map to initial states,
  and each action to `Produce`, `Show`, `Ask`, ... of `StreamForwarding` or to no step of it. That a step of `Show` or
  `Deliver` shows or delivers a prefix is `OutputInOrder` and `StdinDelivered`.

### The archives

* `AppCdsTypeCorrect`: `TypeOK`. `FlagsInv` adds that only a run of a Java with AppCDS uses an archive, so that no other Java
  gets one.
* `FreshArchives`: `FreshMeansCurrent` if `UpgradeWhileRunning` is FALSE. `FreshInv` adds that no file is from the
  future, that every JVM that runs has loaded the installed jar, and that whoever is writing an archive is such
  a JVM; the run `appcds_upgrade` shows that the premise is needed.
* `ReportOnly`: `EnvironmentReadOnly`, from an invariant by which a run with `--environment` never gets past
  `PerformFinalMutations`.
* `Settles`: `ArchiveSettles`, under the premise of `FreshArchives`. A state in which nothing runs says nothing of how it came
  about, so `SettleInv` is about the runs under way. A run is `Pledged` if it will leave a current archive, unless
  it is killed; one `Relies` on the archive if it will not write it itself. Whenever a counted run relies on an archive
  there is a current one, the torso of a killed JVM, or a pledged run (`Settling`): who deletes an archive is
  pledged, and who overwrites another's takes over its pledge.

### The Unix launcher

* `MainScriptIsFirst`, `FailureMeansMissed`: `MainScriptFirst`, `FailsWithoutScripts`, with any directories, `PATH` and number of
  changes. Neither is inductive: that the loop is at the backup says nothing of the files as they are now. `SearchInv`
  adds what it says of the past: the directory as it is has been seen, being at the second script in the
  launcher's own directory means that `jruby.sh` was missed, and having failed there means that the backup was too.
  Every step of the others only adds to what was seen.
* `LauncherFindsItself`: `FindsItself`. That a launcher is not removed is a statement about now, so `FindInv` says that entries
  only ever go away: if all are there now, all were there at each earlier step. `WhichFinds` is the core: the two searches
  of `PATH` go by different rules, but with a plain `PATH` the first hit of the one is the first hit of the other
  (`SameFirst`, on the library's theorem that every set of naturals has a least element).
* `SuccessMeansRun`: `SucceedsOnlyByRunning`, with any words in `JRUBY_OPTS` and on the command line. The property looks at
  all the words, the script's loop takes one or two at a time and keeps only what is left. `WordsInv` joins them: there
  is a `k` such that the first `k` words have been read, the next one is no option's value, none of them was the script or
  `-J`, and `print_environment_log` and `remove_jsa_files` are set if `--environment` and `--rmcache` were options among them (`ReadTo`). A turn of the loop takes
  `k` to `k + 1` or `k + 2` (`OneWord`, `TwoWords`), and at the end the words that were read as options are `Options`
  (`OptionsRead`). `IsValue` is a recursive function; `IsValueIs` shows, with the least element again, that one which fits
  its equation exists, so that the equation may be used.
* `RubyGetsItsWords`: `RubyArgsIntact`. `RubyInv` says that what `ruby_args` has is what the words read so far have for Ruby
  (`WordsInv`'s `k` again): a turn of the loop adds the words at the places it has read, or none. What is left of the words at
  the end of the options comes behind (`SelectedRest`), whole, whatever it looks like. Only where nothing was left for Ruby and
  `--cache` was an option may `SelectArchive` add its script.
* `MemoryIsTheUsers`: `MemoryAsSaid`. The size may be said in `JAVA_MEM`, `JAVA_OPTS`, `JRUBY_OPTS` or on the command line, and the
  script puts the command together from ten parts. `JvmInv` says that each part is a sequence, `MemoryInv` that `JAVA_MEM` and
  `JAVA_STACK` have the last that was said up to the word that is read, and that of the parts which come after them on the
  command none has a `-Xmx` or `-Xss`. `MemoryAssembled` then looks for the last place of the option in the whole (`LastOfBoth`).
  The proof showed a case which the property had left out: `JAVA_STACK` set to a `-Xmx` comes behind `JAVA_MEM`.
* `FlagsAreThoseOfJava`: `FlagsFitJava`, under two premises. `RealJavas`: `release` tells the version of its Java or is not
  there, and there are modules from version 9 on. `FlagsAreScripts`: nobody gives these flags himself, which the script would
  pass on to any Java. `FlagInv` says that the version and modules the script goes by are those of the Java it will run, that
  it is no older than `MinimumJava`, and that of what the script has collected only an options file's `@` is a flag, and that
  only with modules. The values of the run `unix_jruby` satisfy both premises.

### The Windows launcher

* `StatusIsReported`: `StatusReported`. `StatusInv` adds that nothing has been started before `"running"`; `ZeroInv` says,
  at each step, for which of its three reasons a 0 can come without a start. That a DWORD and its int have the same bits is arithmetic
  on `INT_MAX`.
* `StartsOnlyIfAsked`: `StartsOnlyWhenAsked`. The parser's flags have to mean the words that set them. `Parsing` says that there is
  a boundary `n`: the loop has taken the first `n` words for options and their values (`WordsRead`), the flags are those
  that these words ask for (`FlagsRead`), and all others, if any was read, are Ruby's (`ArgsRead`). At the end of the
  loop `n` is `OptionWords`, and the flags keep that meaning until something is started.
* `ScriptIsIntact`: `ScriptArgsIntact`. `RubyArgs` says that Ruby's arguments end with the script and all after it and that what is
  before is an option or the launcher's; `Prepending` that words put before them, by `StartNailgun` and `AddScriptName`, keep
  this.
* `RightJavaStarts`: `JavaPrecedence`. `JavaInv` says at each step whose Java `jvm` is: that of `JAVACMD`, of the last `-Xjdkhome`, of
  `JAVA_HOME` or of the registry, and that those before it were not set or not there (`ByCommand`, `ByGiven`, `ByJavaHome`,
  `ByRegistry`). `Found` and `NotFound` say what `initialize` finds for a home or a version. The proof showed a case which
  the property had left out: `-Xjdkhome 1.8` names no home but a version, and the registry's Java then comes
  before `JAVA_HOME` (`Satisfied`).
* `UserIsHeard`, `OwnHomeStarts`, `DllGetsItsOptions`: `UserHasLastWord`, `HomeIsOwn`, `InProcessOptions`, from one invariant,
  `OptionsInv`, about the list of Java options, which is written to by every pass. Before the end it is a part: of the words
  up to the boundary it has the user's last (`SaidUpTo`, `JavaRead`), and a `-cp` is in it only if the user gave one or the
  JVM is not to run in the process. Once `PrepareOptions` has put it together (`Combined`), the launcher's own
  `-Djruby.home=` is the first of all, with the home of its own installation (`OwnPlatform`), and the last `-Xss` and
  `-Djruby.home=` are the user's last, of the line or else of the environment (`Heard`). What `ForDll` and `ForChild` remove
  and rewrite later moves the places, but not the order (`SelectedAre`, `SameHeard`). `OptionsInv` was checked with TLC
  first.

* `OptionsForTheJava`: `OptionsFitJava`, if the user says nothing himself of the options it is about (`ModulesLeft`; `JAVA_OPTS` or
  `-J` could bring them to any Java). `FitInv` says that from `checkJDKHome` on the Java that was found is in the home by which
  `prepareOptions` chooses (`NamedByUser`), that the options then fit it (`DefaultsFit`), and that neither the search for another Java
  nor the DLL, which gets only some of the options, comes between (`FitLaunch`, `FitsDll`). That the words of the user bring none of
  these options is a part of `JavaRead` (`Unsaid`). `FitInv` was checked with TLC first.

### The Windows splitter

The lines may be any sequences of characters (`Lines`), of any length and number.

* `TypeCorrect`: `TypeOK`, that is, no access outside the line, an element or the string table. `LineInv` adds where
  each pass is: the first is in the line and its element begins no later; the second is in the element it shortens, and
  as many backslashes as it counted are just behind it, so that removing half of them stays in the element.
* `ArgvIsElements`: `VectorHoldsElements`. `VectorInv` says what the copies so far have made of the table: the elements that were
  copied lie one behind the other, each with its NUL (`Placed`), at the places that the sum of the sizes before gives
  (`Offset`), and the rest is still free. `strlcpy` of the next does not reach back.
* `PassesSplitAsReference`: `SplitsAsReference`. The reference reads each character once; the code reads it in the first pass, and
  again, later and from a shortened copy, in the second. `SplitInv` says, for each place of each pass, how far the reference
  is: `ScanSplit` that at `ptr` it is in the same string, with as many backslashes and with the element so far as its word;
  `UnquoteSplit` that what the second pass has left of the element, followed by what it has not yet read, is where the
  reference is after as many characters, although the reference had read them all when the pass began; `SkipSplit` and
  `EndSplit` that between elements both have the same words. Lines in which the reference loses count (a backslash before a
  blank in a string) are left out, as in the property. `SplitInv` was checked with TLC first.

### What stays with TLC

* `ClientEnds`: liveness, its fairness and `ENABLED` are beyond the proof system.
* `CmdVector`'s `JavaSeesSameWords`, `OptionsSplitAlike` are about what `FlattenSeq` or a fold makes of a sequence of any
  length. These are defined by recursion over data, and the induction that unfolds them takes an operator as its parameter.
* `WinLauncher.TypeOK` and `JarsOnce` depend on what a fold over the jars (`ConstructClassPath`) makes of the class path.
* `JrubySh`'s `CascadeInOrder` and `JRubyLoadedOnce` are not proved. They hold only if no jar has two names and `JAVA_OPTS`,
  the option files and the command line have no word in common that would belong to two layers; in the runs this is
  so by the choice of the words, and a theorem would need it as premises on all the constants.
* `UnixJRuby.TypeOK` says that literals are in `STRING`, which none of the provers knows.

## What is not modelled

* The splitting of `JAVA_OPTS` and `JRUBY_OPTS` into words by `jruby.sh`: they come split, as they do in `LauncherArgs` too
  (the splitting itself is in `CmdVector`). Lengths of words and of the
  command line (that it may be too long is a choice of `StartOutProcJvm`).
* The parts of `jruby.sh` for Cygwin and MinGW, the steps in which `resolve` follows links (where a link ends is
  given), the text of `--environment`.
* The branches of `argparser.cpp` and `jvmlauncher.cpp` for systems other than Windows: `main` calls
  `unixlauncher_run` there and nothing else.
* `malloc` failing in the Unix launcher, and a command name of `ng` in the nailgun client.
* Ruby's own reading of the command line, and what the JVM does with its options.
* Logging, help texts, character sets, folder virtualization, Ctrl-C handling.
* `select()` failing, and a `read()` of stdin failing, in the POSIX client.
* Build files except `make install` of the scripts, resources and gem packaging.

## Plan

1. (done) The nailgun session: wire, client, server, abstract specification and refinement.
2. (done) The archives.
3. (done) The Windows launcher with the search for its home; the splitter.
4. (done) The Unix launcher and `jruby.sh`, composed.
5. (done) First proofs about each of the concurrent parts.
6. (done) Proofs: the contents of the nailgun session's two streams, the words among them, and its refinement; `ArchiveSettles`; `FindsItself`; the
   status, the script's arguments, what is started, with which options and which Java, of the Windows launcher; all that
   the splitter does with one line; `SucceedsOnlyByRunning`; Ruby's words, the options of memory and the flags of newer Javas
   of `jruby.sh`.
