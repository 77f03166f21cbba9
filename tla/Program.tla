------------------------------- MODULE Program -------------------------------
(* The life of the program (apps/main.cpp): the arguments and the files of    *)
(* the configuration are read, the output and a manager for every file are    *)
(* made, every manager gets a thread that runs it over and over, SIGINT or an *)
(* exception that a manager lets out stops them all, and the output is        *)
(* destroyed with the last manager.  The server of the HTTP output runs in a  *)
(* thread of its own from the moment it is made; httplib is external: its     *)
(* stop() does nothing before the server has come to listen, and listen()     *)
(* returns at once when the address cannot be bound.                          *)
EXTENDS Manual, Rendering

CONSTANTS
    Directories,        \* what the directory may hold: a sequence of files each
    PromptServer,       \* whether the server listens by the time it is stopped
    LinesEnd            \* whether a device that hangs or talks stops doing so

ASSUME ProgramAssumption ==
    /\ {PromptServer, LinesEnd} \subseteq BOOLEAN
    /\ \A d \in Directories : /\ d \in Seq(ToSet(d)) /\ Len(d) <= MaxFiles
                             /\ \A i \in DOMAIN d : IsFile(d[i])

VARIABLES
    arguments,      \* the output they ask for, or "wrong"
    directory,      \* the files, in the order the system lists them
    phase,          \* where main is
    made,           \* how many managers there are
    boards,         \* the processors that have a buffer in the HTTP output
    keepRunning,
    result,         \* what the program returns
    server,         \* the HTTP server, "none" for the pipe or once it is destroyed
    thread,         \* manager -> where its thread is
    line,           \* manager -> whether its device lets getData return
    fault           \* history: where an exception that reached main.cpp came from

givenVars == <<arguments, directory>>
mainVars == <<phase, made, boards, result>>
progVars == <<givenVars, mainVars, keepRunning, server, thread, line, renderVars, fault>>

ProgInit ==
    /\ arguments \in {"stdout", "server", "wrong"}
    /\ directory \in Directories
    /\ phase = "arguments"
    /\ made = 0
    /\ boards = {}
    /\ keepRunning = TRUE
    /\ result = 0
    /\ server = "none"
    /\ thread = [m \in Managers |-> "absent"]
    /\ line = [m \in Managers |-> "ok"]
    /\ RenderInit
    /\ fault = "none"

Failed == fault # "none"

-----------------------------------------------------------------------------
(* main: before any thread of its own *)

(* An exception before the output is made.                                    *)
GiveUp(wrong) ==
    /\ wrong
    /\ phase' = "start"
    /\ result' = 1 /\ fault' = "config"
    /\ UNCHANGED <<made, boards>>

GoOn(right, to) ==
    /\ right
    /\ phase' = to
    /\ UNCHANGED <<made, boards, result, fault>>

(* parseArguments and toOutputConfig: one output, "--ip" with an address and  *)
(* a number.                                                                  *)
ParseArguments ==
    /\ phase = "arguments"
    /\ GiveUp(arguments = "wrong") \/ GoOn(arguments # "wrong", "files")
    /\ UNCHANGED <<givenVars, keepRunning, server, thread, line, renderVars>>

(* initializeConfigs reads all the files before it looks into any.            *)
LoadFiles ==
    /\ phase = "files"
    /\ LET loaded == directory # <<>> /\ \A i \in DOMAIN directory : directory[i].readable
       IN  GiveUp(~ loaded) \/ GoOn(loaded, "configs")
    /\ UNCHANGED <<givenVars, keepRunning, server, thread, line, renderVars>>

ParseConfigs ==
    /\ phase = "configs"
    /\ LET accepted == \A i \in DOMAIN directory : Parses(directory[i])
       IN  GiveUp(~ accepted) \/ GoOn(accepted, "output")
    /\ UNCHANGED <<givenVars, keepRunning, server, thread, line, renderVars>>

BoardsOfFirst ==            \* a bug: only the first configuration is asked
    boards' = ProcessorDescriptions(SubSeq(directory, 1, 1))

(* Storage::Storage.                                                          *)
MakeBoards == boards' = ProcessorDescriptions(directory)

MakeOutput ==
    /\ phase = "output"
    /\ phase' = "managers"
    /\ IF arguments = "server"
         THEN server' = "starting" /\ MakeBoards
         ELSE UNCHANGED <<server, boards>>
    /\ UNCHANGED <<givenVars, made, result, keepRunning, thread, line, renderVars, fault>>

NextFile == directory[made + 1]

MakeAnyManager ==           \* a bug: the port is not asked for
    /\ phase = "managers" /\ made < Len(directory)
    /\ made' = made + 1
    /\ UNCHANGED <<givenVars, phase, boards, result, keepRunning, server, thread, line, renderVars, fault>>

MakeManager ==
    /\ phase = "managers" /\ made < Len(directory)
    /\ HasPort(NextFile)
    /\ made' = made + 1
    /\ UNCHANGED <<givenVars, phase, boards, result, keepRunning, server, thread, line, renderVars, fault>>

(* A manager cannot be made: it has no port, or its serial device cannot be   *)
(* opened.  The managers before it are destroyed, then the output, and only   *)
(* then the exception is handled.                                             *)
ManagerFails ==
    /\ phase = "managers" /\ made < Len(directory)
    /\ \/ ~ HasPort(NextFile) /\ fault' = "config"
       \/ HasPort(NextFile) /\ OpensPort(NextFile) /\ fault' = "port"
    /\ phase' = "unwind"
    /\ made' = 0
    /\ UNCHANGED <<givenVars, boards, result, keepRunning, server, thread, line, renderVars>>

ManagersDone ==
    /\ phase = "managers" /\ made = Len(directory)
    /\ phase' = "start"
    /\ UNCHANGED <<givenVars, made, boards, result, keepRunning, server, thread, line, renderVars, fault>>

-----------------------------------------------------------------------------
(* main: start, stop and what is destroyed *)

Running == 1..made      \* start() is given the managers there are

(* main looks at result once: all threads are started, one after another, or  *)
(* none after a failure.                                                      *)
Start ==
    /\ phase = "start"
    /\ phase' = IF result = 0 THEN "starting" ELSE "join"
    /\ UNCHANGED <<givenVars, made, boards, result, keepRunning, server, thread, line, renderVars, fault>>

StartThread(m) ==
    /\ phase = "starting"
    /\ thread[m] = "absent" /\ \A k \in 1..(m - 1) : thread[k] # "absent"
    /\ thread' = [thread EXCEPT ![m] = "check"]
    /\ UNCHANGED <<givenVars, mainVars, keepRunning, server, line, renderVars, fault>>

StartDone ==
    /\ phase = "starting"
    /\ \A m \in Running : thread[m] # "absent"
    /\ phase' = "join"
    /\ UNCHANGED <<givenVars, made, boards, result, keepRunning, server, thread, line, renderVars, fault>>

JoinUntilStopped ==     \* a bug: main waits for the flag, not for the threads
    /\ phase = "join"
    /\ ~ keepRunning \/ Failed
    /\ phase' = "exit"
    /\ UNCHANGED <<givenVars, made, boards, result, keepRunning, server, thread, line, renderVars, fault>>

JoinThreads ==
    /\ phase = "join"
    /\ \A m \in Managers : thread[m] \in {"absent", "done"}
    /\ phase' = "exit"
    /\ UNCHANGED <<givenVars, made, boards, result, keepRunning, server, thread, line, renderVars, fault>>

(* ~HTTP: stop, then join.  It runs as the exception leaves the try block of  *)
(* main, or when main returns and the managers are destroyed.                 *)
StopServer ==
    /\ phase \in {"unwind", "exit"}
    /\ PromptServer => server # "starting"
    /\ server' = IF server = "running" THEN "stopping" ELSE server
    /\ phase' = IF phase = "unwind" THEN "unwinding" ELSE "exiting"
    /\ UNCHANGED <<givenVars, made, boards, result, keepRunning, thread, line, renderVars, fault>>

ServerJoined ==
    /\ server \in {"none", "ended"}
    /\ server' = "none"
    /\ \/ phase = "unwinding" /\ phase' = "start" /\ result' = 1
       \/ phase = "exiting" /\ phase' = "exited" /\ UNCHANGED result
    /\ UNCHANGED <<givenVars, made, boards, keepRunning, thread, line, renderVars, fault>>

Main == ParseArguments \/ LoadFiles \/ ParseConfigs
        \/ MakeOutput \/ MakeManager \/ ManagerFails \/ ManagersDone
        \/ Start \/ (\E m \in Running : StartThread(m)) \/ StartDone
        \/ JoinThreads \/ StopServer \/ ServerJoined

-----------------------------------------------------------------------------
(* The server's thread *)

Listen ==
    /\ server = "starting"
    /\ server' \in {"running", "ended"}
    /\ UNCHANGED <<givenVars, mainVars, keepRunning, thread, line, renderVars, fault>>

ServerEnds ==
    /\ server = "stopping"
    /\ server' = "ended"
    /\ UNCHANGED <<givenVars, mainVars, keepRunning, thread, line, renderVars, fault>>

-----------------------------------------------------------------------------
(* The managers' threads *)

Goto(m, from, to) == thread[m] = from /\ thread' = [thread EXCEPT ![m] = to]

CheckNothing(m) ==          \* a bug: the flag is read once, before the loop
    /\ Goto(m, "check", "run")
    /\ UNCHANGED <<givenVars, mainVars, keepRunning, server, line, renderVars, fault>>

Check(m) ==
    /\ Goto(m, "check", IF keepRunning THEN "run" ELSE "done")
    /\ UNCHANGED <<givenVars, mainVars, keepRunning, server, line, renderVars, fault>>

(* The tasks in turn: none was due, or there are entries to send.             *)
Run(m) ==
    /\ line[m] # "endless"
    /\ Goto(m, "run", "process") \/ Goto(m, "run", "send")
    /\ line' = [line EXCEPT ![m] = "ok"]
    /\ UNCHANGED <<givenVars, mainVars, keepRunning, server, renderVars, fault>>

(* run() lets an exception out: what cannot be put into an entry's error.     *)
Throw(m) ==
    /\ line[m] # "endless"
    /\ Goto(m, "run", "caught")
    /\ line' = [line EXCEPT ![m] = "ok"]
    /\ fault' = "run"
    /\ UNCHANGED <<givenVars, mainVars, keepRunning, server, renderVars>>

Store(m) ==                 \* HTTP::send, see HttpOutput
    /\ arguments = "server"
    /\ Goto(m, "send", "process")
    /\ UNCHANGED <<givenVars, mainVars, keepRunning, server, line, renderVars, fault>>

(* Pipe::send: the entries' text, with times unless they are errors.          *)
Convert(m) ==
    /\ arguments = "stdout"
    /\ Goto(m, "send", "format")
    /\ LocalTime(m)
    /\ UNCHANGED <<givenVars, mainVars, keepRunning, server, line, fault>>

Format(m) ==
    /\ Goto(m, "format", "print")
    /\ FormatTime(m)
    /\ UNCHANGED <<givenVars, mainVars, keepRunning, server, line, fault>>

ErrorsOnly(m) ==
    /\ arguments = "stdout"
    /\ Goto(m, "send", "print")
    /\ UNCHANGED <<givenVars, mainVars, keepRunning, server, line, renderVars, fault>>

(* dump() throws on a string that is not UTF-8.                               *)
Write(m) ==
    /\ \/ Goto(m, "print", "process") /\ UNCHANGED fault
       \/ Goto(m, "print", "caught") /\ fault' = "run"
    /\ PutOut(m)
    /\ UNCHANGED <<givenVars, mainVars, keepRunning, server, line>>

(* The processors' output goes to stdout, or to a buffer that must be there.  *)
Process(m) ==
    LET missing == HasLimits(directory[m]) /\ arguments = "server" /\ "limits" \notin boards
    IN  /\ Goto(m, "process", IF missing THEN "caught" ELSE "check")
        /\ fault' = IF missing THEN "run" ELSE fault
        /\ UNCHANGED <<givenVars, mainVars, keepRunning, server, line, renderVars>>

StopAllQuietly(m) ==        \* a bug: the thread ends without setting result
    /\ Goto(m, "caught", "check")
    /\ keepRunning' = FALSE
    /\ UNCHANGED <<givenVars, mainVars, server, line, renderVars, fault>>

GiveUpAlone(m) ==           \* a bug: only the thread that failed ends
    /\ Goto(m, "caught", "done")
    /\ result' = 1
    /\ UNCHANGED <<givenVars, phase, made, boards, keepRunning, server, line, renderVars, fault>>

StopAll(m) ==
    /\ Goto(m, "caught", "stopped")
    /\ keepRunning' = FALSE
    /\ UNCHANGED <<givenVars, mainVars, server, line, renderVars, fault>>

CountFailure(m) ==          \* a bug: result counts the failures
    /\ Goto(m, "stopped", "check")
    /\ result' = result + 1
    /\ UNCHANGED <<givenVars, phase, made, boards, keepRunning, server, line, renderVars, fault>>

SetResult(m) ==
    /\ Goto(m, "stopped", "check")
    /\ result' = 1
    /\ UNCHANGED <<givenVars, phase, made, boards, keepRunning, server, line, renderVars, fault>>

(* While it is polled, a device hangs up or begins to talk without a pause,   *)
(* and getData does not return until it stops.                                *)
Hang(m) ==
    /\ thread[m] = "run" /\ line[m] = "ok"
    /\ OpensPort(directory[m])
    /\ line' = [line EXCEPT ![m] = "endless"]
    /\ UNCHANGED <<givenVars, mainVars, keepRunning, server, thread, renderVars, fault>>

Calm(m) ==
    /\ LinesEnd
    /\ line[m] = "endless"
    /\ line' = [line EXCEPT ![m] = "calm"]
    /\ UNCHANGED <<givenVars, mainVars, keepRunning, server, thread, renderVars, fault>>

Thread(m) == \/ Check(m) \/ Run(m) \/ Throw(m)
             \/ Store(m) \/ Convert(m) \/ Format(m) \/ ErrorsOnly(m) \/ Write(m)
             \/ Process(m)
             \/ StopAll(m) \/ SetResult(m)

-----------------------------------------------------------------------------

(* SIGINT.                                                                    *)
Interrupt ==
    /\ phase # "exited" /\ keepRunning
    /\ keepRunning' = FALSE
    /\ UNCHANGED <<givenVars, mainVars, server, thread, line, renderVars, fault>>

Exited == phase = "exited" /\ UNCHANGED progVars

ProgNext == \/ Main \/ Listen \/ ServerEnds \/ Interrupt \/ Exited
            \/ \E m \in Managers : Thread(m) \/ Hang(m) \/ Calm(m)

(* Every thread of the process gets to run, and with LinesEnd every talker    *)
(* comes to a pause.                                                          *)
ProgSpec == /\ ProgInit
            /\ [][ProgNext]_progVars
            /\ WF_progVars(Main)
            /\ WF_progVars(Listen) /\ WF_progVars(ServerEnds)
            /\ \A m \in Managers : WF_progVars(Thread(m)) /\ WF_progVars(Calm(m))

-----------------------------------------------------------------------------
(* Properties *)

ProgTypeOK ==
    /\ arguments \in {"stdout", "server", "wrong"} /\ Len(directory) <= MaxFiles
    /\ phase \in {"arguments", "files", "configs", "output", "managers", "unwind",
                  "unwinding", "start", "starting", "join", "exit", "exiting", "exited"}
    /\ made \in 0..Len(directory) /\ boards \subseteq {"limits"}
    /\ keepRunning \in BOOLEAN /\ fault \in {"none", "config", "port", "run"}
    /\ result \in {0, 1}
    /\ server \in {"none", "starting", "running", "stopping", "ended"}
    /\ thread \in [Managers -> {"absent", "check", "run", "send", "format", "print",
                                "process", "caught", "stopped", "done"}]
    /\ line \in [Managers -> {"ok", "endless", "calm"}]
    /\ calendar \in Managers \cup {Nobody}
    /\ page \in [Managers -> Managers \cup {Nobody}]

Configured == arguments # "wrong" /\ directory # <<>>

AnyThread == \E m \in Managers : thread[m] # "absent"

(* The program runs only if every file is what the manual asks for, and gives *)
(* up over its configuration only if one is not, or is of the kind that       *)
(* Disabled names; what from_json lets pass is found out when the managers    *)
(* are made.                                                                  *)
RunsExactlySound ==
    /\ AnyThread => Configured /\ \A i \in DOMAIN directory : Sound(directory[i])
    /\ fault = "config" /\ Configured =>
          \E i \in DOMAIN directory : ~ Sound(directory[i]) \/ Disabled(directory[i])

(* Whatever limits a manager works out have a buffer to go to, although the   *)
(* managers and the buffers are made from the configurations apart; and the   *)
(* devices it watches are its own.                                            *)
LimitsHaveBoard ==
    \A m \in Managers : thread[m] # "absent" /\ HasLimits(directory[m]) =>
        /\ arguments = "server" => "limits" \in boards
        /\ Watched(directory[m]) \subseteq Named(directory[m])

(* The program returns 1 if something went wrong and 0 otherwise, however the *)
(* threads' writes of the two flags, SIGINT and the joins interleave.         *)
ExitCode == phase = "exited" => (result = 1 <=> Failed)

(* The output is not torn down while a manager may still send to it.          *)
OutputOutlivesManagers ==
    phase \in {"unwind", "unwinding", "exit", "exiting", "exited"} =>
        \A m \in Managers : thread[m] \in {"absent", "done"}

(* SIGINT, or the exception of any one manager, ends the whole program.       *)
InterruptExits == ~ keepRunning ~> phase = "exited"

FailureExits == Failed ~> phase = "exited"
=============================================================================
