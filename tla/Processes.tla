----------------------------- MODULE Processes -----------------------------
(***************************************************************************)
(* The processes of one machine: daemons and the commands check and        *)
(* status, the mutex that lets one of them operate on devices, and the     *)
(* named pipe between them (main.go, singleton_windows.go,                 *)
(* privilege_windows.go, ipc_windows.go).                                  *)
(*                                                                         *)
(* A process is a slot that is used again after its exit.  The recovery    *)
(* workers of a process are one bit: what they do is the subject of        *)
(* RecoveryManager.  An unelevated process that relaunches itself goes on  *)
(* in its own slot: the parent holds nothing that others can see.          *)
(***************************************************************************)
EXTENDS Naturals

CONSTANTS
    Proc,       \* processes that may exist at the same time
    MayRun,     \* [Proc -> SUBSET Command]: what may be started in a slot
    Retries,    \* ipcClientRetries
    None        \* no process, no command

Daemon  == "daemon"
Check   == "check"
Status  == "status"
Command == {Daemon, Check, Status}

ASSUME ProcessAssumption == /\ MayRun \in [Proc -> SUBSET Command]
                            /\ Retries \in Nat \ {0}
                            /\ None \notin Proc \union Command

VARIABLES
    pc,         \* where a process is in main
    cmd,        \* its command
    elevated,   \* the processes with an elevated token
    mutex,      \* the processes with an open handle to the named mutex
    working,    \* the processes with recovery workers that may operate
    ctxDone,    \* the daemons whose context is cancelled
    tries,      \* CallIPC's attempts so far
    conn,       \* the server whose pipe a client has open
    answered,   \* the clients whose answer is in the pipe
    spc,        \* where a daemon's IPC server goroutine is
    pipe,       \* its pipe instance: "none", "listening" or "connected"
    slot,       \* the daemons whose pipeSlot holds the handle
    swept,      \* the daemons whose cancel goroutine has closed the slot
    req         \* the request in a server's pipe or in its hands

clientVars == <<tries, conn, answered>>
serverVars == <<spc, pipe, slot, swept, req>>
vars == <<pc, cmd, elevated, mutex, working, ctxDone, clientVars, serverVars>>

Goto(p, l) == pc' = [pc EXCEPT ![p] = l]

\* The server's end of the pipe is closed: its client, if any, has lost it.
ClosePipe(p) ==
    /\ pipe' = [pipe EXCEPT ![p] = "none"]
    /\ conn' = [c \in Proc |-> IF conn[c] = p THEN None ELSE conn[c]]

Peer(p) == {c \in Proc : conn[c] = p}

(***************************************************************************)
(* Processes come and go                                                   *)
(***************************************************************************)

\* parseCommand: a command line is a daemon or one of the two commands; help
\* and unknown words print and exit.
Entrance(k) == IF k = Daemon THEN "config" ELSE "call"

Starts(p) ==
    /\ pc[p] = "off"
    /\ \E k \in MayRun[p], e \in BOOLEAN :
          /\ cmd' = [cmd EXCEPT ![p] = k]
          /\ Goto(p, Entrance(k))
          /\ elevated' = IF e THEN elevated \union {p} ELSE elevated
    /\ UNCHANGED <<mutex, working, ctxDone, clientVars, serverVars>>

\* The process is gone, with its goroutines, its handles and its workers.
Exit(p) ==
    /\ Goto(p, "off")
    /\ cmd' = [cmd EXCEPT ![p] = None]
    /\ elevated' = elevated \ {p}
    /\ mutex' = mutex \ {p}
    /\ working' = working \ {p}
    /\ ctxDone' = ctxDone \ {p}
    /\ tries' = [tries EXCEPT ![p] = 0]
    /\ pipe' = [pipe EXCEPT ![p] = "none"]
    /\ conn' = [c \in Proc |-> IF c = p \/ conn[c] = p THEN None ELSE conn[c]]
    /\ answered' = answered \ {p}
    /\ spc' = [spc EXCEPT ![p] = "off"]
    /\ slot' = slot \ {p}
    /\ swept' = swept \ {p}
    /\ req' = [req EXCEPT ![p] = None]

Killed(p) == pc[p] # "off" /\ Exit(p)

(***************************************************************************)
(* CallIPC                                                                 *)
(***************************************************************************)

\* CreateFile finds an instance that listens.
Connects(c) ==
    /\ pc[c] = "call"
    /\ \E p \in Proc : /\ pipe[p] = "listening"
                       /\ pipe' = [pipe EXCEPT ![p] = "connected"]
                       /\ conn' = [conn EXCEPT ![c] = p]
    /\ Goto(c, "write")
    /\ UNCHANGED <<cmd, elevated, mutex, working, ctxDone, tries, answered, spc, slot, swept, req>>

\* ERROR_FILE_NOT_FOUND: "not running" for status, a one-shot run for check.
FindsNoPipe(c) ==
    /\ pc[c] = "call"
    /\ \A p \in Proc : pipe[p] = "none"
    /\ IF cmd[c] = Status
         THEN Exit(c)
         ELSE /\ Goto(c, "config")
              /\ UNCHANGED <<cmd, elevated, mutex, working, ctxDone, clientVars, serverVars>>

\* ERROR_PIPE_BUSY: another try after a pause, or the end.
IsBusy == /\ \E p \in Proc : pipe[p] = "connected"
          /\ \A p \in Proc : pipe[p] # "listening"

\* Mutant: the tries are counted and never compared.
RetriesBeyond(c) ==
    /\ pc[c] = "call"
    /\ IsBusy
    /\ tries' = [tries EXCEPT ![c] = @ + 1]
    /\ UNCHANGED <<pc, cmd, elevated, mutex, working, ctxDone, conn, answered, serverVars>>

FindsBusy(c) ==
    /\ pc[c] = "call"
    /\ IsBusy
    /\ IF tries[c] + 1 < Retries
         THEN /\ tries' = [tries EXCEPT ![c] = @ + 1]
              /\ UNCHANGED <<pc, cmd, elevated, mutex, working, ctxDone, conn, answered, serverVars>>
         ELSE Exit(c)

\* Any other error ends the command: the pipe of an elevated daemon may refuse
\* a client that is not.
IsRefused(c) ==
    /\ pc[c] = "call"
    /\ c \notin elevated
    /\ \E p \in Proc : pipe[p] # "none"
    /\ Exit(c)

\* writeJSONLine, or its error when the server has closed its end.
WritesRequest(c) ==
    /\ pc[c] = "write"
    /\ IF conn[c] = None
         THEN Exit(c)
         ELSE /\ req' = [req EXCEPT ![conn[c]] = cmd[c]]
              /\ Goto(c, "read")
              /\ UNCHANGED <<cmd, elevated, mutex, working, ctxDone, clientVars, spc, pipe, slot,
                             swept>>

\* readJSONLine: the answer, or an error when the pipe is closed without one.
ReadsAnswer(c) ==
    /\ pc[c] = "read"
    /\ c \in answered \/ conn[c] = None
    /\ Exit(c)

(***************************************************************************)
(* The way to the mutex                                                    *)
(***************************************************************************)

\* LoadConfig and NewLogger, one of which may fail.
LoadsConfig(p) ==
    /\ pc[p] = "config"
    /\ \/ /\ Goto(p, "elevate")
          /\ UNCHANGED <<cmd, elevated, mutex, working, ctxDone, clientVars, serverVars>>
       \/ Exit(p)

\* EnsureElevated of an elevated process.
IsElevated(p) ==
    /\ pc[p] = "elevate"
    /\ p \in elevated
    /\ Goto(p, "acquire")
    /\ UNCHANGED <<cmd, elevated, mutex, working, ctxDone, clientVars, serverVars>>

\* ShellExecuteEx "runas" with the same arguments; the parent exits.
Relaunches(p) ==
    /\ pc[p] = "elevate"
    /\ p \notin elevated
    /\ elevated' = elevated \union {p}
    /\ tries' = [tries EXCEPT ![p] = 0]
    /\ Goto(p, Entrance(cmd[p]))
    /\ UNCHANGED <<cmd, mutex, working, ctxDone, conn, answered, serverVars>>

\* The user says no, or the relaunch fails.
IsDenied(p) ==
    /\ pc[p] = "elevate"
    /\ p \notin elevated
    /\ Exit(p)

\* CreateMutex of a name that nobody has open.
Acquires(p) ==
    /\ pc[p] = "acquire"
    /\ mutex = {}
    /\ mutex' = {p}
    /\ Goto(p, IF cmd[p] = Daemon THEN "listen" ELSE "scan")
    /\ UNCHANGED <<cmd, elevated, working, ctxDone, clientVars, serverVars>>

\* ERROR_ALREADY_EXISTS comes with a handle, which keeps the name in use until
\* the process closes it and exits.
FindsMutex(p) ==
    /\ pc[p] = "acquire"
    /\ mutex # {}
    /\ mutex' = mutex \union {p}
    /\ Goto(p, "refused")
    /\ UNCHANGED <<cmd, elevated, working, ctxDone, clientVars, serverVars>>

GivesUp(p) == pc[p] = "refused" /\ Exit(p)

(***************************************************************************)
(* runDaemon and runOneShotCheck with the mutex                            *)
(***************************************************************************)

StartsServer(p) ==
    /\ pc[p] = "listen"
    /\ spc' = [spc EXCEPT ![p] = "head"]
    /\ Goto(p, "serve")
    /\ UNCHANGED <<cmd, elevated, mutex, working, ctxDone, clientVars, pipe, slot, swept, req>>

\* The start-up scan or an event scan starts a worker.  A worker started after
\* the cancel leaves without an operation (RecoveryManager!QuietAfterWait).
FindsWork(p) ==
    /\ pc[p] = "serve"
    /\ p \notin ctxDone
    /\ working' = working \union {p}
    /\ UNCHANGED <<pc, cmd, elevated, mutex, ctxDone, clientVars, serverVars>>

WorkersEnd(p) ==
    /\ p \in working
    /\ working' = working \ {p}
    /\ UNCHANGED <<pc, cmd, elevated, mutex, ctxDone, clientVars, serverVars>>

\* A signal, or the end of the listener, cancels the daemon's context.
Cancelled(p) ==
    /\ pc[p] = "serve"
    /\ p \notin ctxDone
    /\ ctxDone' = ctxDone \union {p}
    /\ UNCHANGED <<pc, cmd, elevated, mutex, working, clientVars, serverVars>>

\* Mutant: the mutex is released before the workers have ended.
ShutsDownReleased(p) ==
    /\ pc[p] = "serve"
    /\ p \in ctxDone
    /\ mutex' = mutex \ {p}
    /\ Goto(p, "wait")
    /\ UNCHANGED <<cmd, elevated, working, ctxDone, clientVars, serverVars>>

ShutsDown(p) ==
    /\ pc[p] = "serve"
    /\ p \in ctxDone
    /\ Goto(p, "wait")
    /\ UNCHANGED <<cmd, elevated, mutex, working, ctxDone, clientVars, serverVars>>

\* rm.Scan of the one-shot check, with workers to wait for or without.
Scans(p) ==
    /\ pc[p] = "scan"
    /\ working' \in {working, working \union {p}}
    /\ Goto(p, "wait")
    /\ UNCHANGED <<cmd, elevated, mutex, ctxDone, clientVars, serverVars>>

WaitReturns(p) ==
    /\ pc[p] = "wait"
    /\ p \notin working
    /\ Goto(p, "release")
    /\ UNCHANGED <<cmd, elevated, mutex, working, ctxDone, clientVars, serverVars>>

\* Mutant: the one-shot check waits no longer than that either.
WaitTimesOutAlways(p) ==
    /\ pc[p] = "wait"
    /\ Goto(p, "release")
    /\ UNCHANGED <<cmd, elevated, mutex, working, ctxDone, clientVars, serverVars>>

\* Shutdown waits no longer than 60 s; the one-shot check waits on.
WaitTimesOut(p) ==
    /\ pc[p] = "wait"
    /\ cmd[p] = Daemon
    /\ Goto(p, "release")
    /\ UNCHANGED <<cmd, elevated, mutex, working, ctxDone, clientVars, serverVars>>

\* The deferred release; the deferred logger.Close and os.Exit follow.
Releases(p) ==
    /\ pc[p] = "release"
    /\ mutex' = mutex \ {p}
    /\ Goto(p, "exit")
    /\ UNCHANGED <<cmd, elevated, working, ctxDone, clientVars, serverVars>>

\* Mutant: the process waits for its IPC server.
ExitsAfterServer(p) == pc[p] = "exit" /\ spc[p] = "off" /\ Exit(p)

Exits(p) == pc[p] = "exit" /\ Exit(p)

(***************************************************************************)
(* StartIPCServer                                                          *)
(***************************************************************************)

ServerGoto(p, l) == spc' = [spc EXCEPT ![p] = l]

\* serveOnePipe has failed: the goroutine ends when the context is cancelled,
\* and sleeps otherwise.
ServerFails(p) == ServerGoto(p, IF p \in ctxDone THEN "off" ELSE "sleep")

LeavesLoop(p) ==
    /\ spc[p] = "head"
    /\ p \in ctxDone
    /\ ServerGoto(p, "off")
    /\ UNCHANGED <<pc, cmd, elevated, mutex, working, ctxDone, clientVars, pipe, slot, swept, req>>

\* ctx.Err() is nil; CreateNamedPipe comes later, perhaps after the cancel.
EntersLoop(p) ==
    /\ spc[p] = "head"
    /\ p \notin ctxDone
    /\ ServerGoto(p, "create")
    /\ UNCHANGED <<pc, cmd, elevated, mutex, working, ctxDone, clientVars, pipe, slot, swept, req>>

\* Clients can connect from here on.
CreatesPipe(p) ==
    /\ spc[p] = "create"
    /\ pipe' = [pipe EXCEPT ![p] = "listening"]
    /\ ServerGoto(p, "take")
    /\ UNCHANGED <<pc, cmd, elevated, mutex, working, ctxDone, clientVars, slot, swept, req>>

CreateFails(p) ==
    /\ spc[p] = "create"
    /\ ServerFails(p)
    /\ UNCHANGED <<pc, cmd, elevated, mutex, working, ctxDone, clientVars, pipe, slot, swept, req>>

TakesSlot(p) ==
    /\ spc[p] = "take"
    /\ slot' = slot \union {p}
    /\ ServerGoto(p, "connect")
    /\ UNCHANGED <<pc, cmd, elevated, mutex, working, ctxDone, clientVars, pipe, swept, req>>

\* The cancel goroutine closes what the slot holds, once.
CancelCloses(p) ==
    /\ p \in ctxDone \ swept
    /\ swept' = swept \union {p}
    /\ IF p \in slot
         THEN ClosePipe(p) /\ slot' = slot \ {p}
         ELSE UNCHANGED <<pipe, conn, slot>>
    /\ UNCHANGED <<pc, cmd, elevated, mutex, working, ctxDone, tries, answered, spc, req>>

\* Mutant: neither releaseWithoutClose nor a look at the context.
ConnectIsTrusted(p) ==
    /\ spc[p] = "connect"
    /\ pipe[p] = "connected"
    /\ ServerGoto(p, "read")
    /\ UNCHANGED <<pc, cmd, elevated, mutex, working, ctxDone, clientVars, pipe, slot, swept, req>>

\* ConnectNamedPipe: a client has connected, now or before the call.
ConnectReturns(p) ==
    /\ spc[p] = "connect"
    /\ pipe[p] = "connected"
    /\ ServerGoto(p, "unslot")
    /\ UNCHANGED <<pc, cmd, elevated, mutex, working, ctxDone, clientVars, pipe, slot, swept, req>>

\* The client was gone before the call, or the handle has been closed under it.
ConnectFails(p) ==
    /\ spc[p] = "connect"
    /\ \/ pipe[p] = "connected" /\ Peer(p) = {}
       \/ pipe[p] = "none"
    /\ ClosePipe(p)
    /\ slot' = slot \ {p}
    /\ req' = [req EXCEPT ![p] = None]
    /\ ServerFails(p)
    /\ UNCHANGED <<pc, cmd, elevated, mutex, working, ctxDone, tries, answered, swept>>

ReleasesSlot(p) ==
    /\ spc[p] = "unslot"
    /\ slot' = slot \ {p}
    /\ ServerGoto(p, "checkctx")
    /\ UNCHANGED <<pc, cmd, elevated, mutex, working, ctxDone, clientVars, pipe, swept, req>>

\* After a cancel the handle is closed, for the second time when the cancel
\* goroutine came between ConnectNamedPipe and the release.
ChecksContext(p) ==
    /\ spc[p] = "checkctx"
    /\ IF p \in ctxDone
         THEN ClosePipe(p) /\ req' = [req EXCEPT ![p] = None] /\ ServerGoto(p, "off")
         ELSE ServerGoto(p, "read") /\ UNCHANGED <<pipe, conn, req>>
    /\ UNCHANGED <<pc, cmd, elevated, mutex, working, ctxDone, tries, answered, slot, swept>>

ReadsRequest(p) ==
    /\ spc[p] = "read"
    /\ req[p] # None
    /\ ServerGoto(p, "handle")
    /\ UNCHANGED <<pc, cmd, elevated, mutex, working, ctxDone, clientVars, pipe, slot, swept, req>>

\* Mutant: the goroutine returns with the error instead of going on.
ReadFailsForGood(p) ==
    /\ spc[p] = "read"
    /\ req[p] = None
    /\ Peer(p) = {}
    /\ ClosePipe(p)
    /\ ServerGoto(p, "off")
    /\ UNCHANGED <<pc, cmd, elevated, mutex, working, ctxDone, tries, answered, slot, swept, req>>

\* The client went away without a request.  There is no time limit.
ReadFails(p) ==
    /\ spc[p] = "read"
    /\ req[p] = None
    /\ Peer(p) = {}
    /\ ClosePipe(p)
    /\ ServerFails(p)
    /\ UNCHANGED <<pc, cmd, elevated, mutex, working, ctxDone, tries, answered, slot, swept, req>>

\* Mutants: a request is left without an answer; its answer waits for the workers.
DropsRequest(p) ==
    /\ spc[p] = "handle"
    /\ ClosePipe(p)
    /\ req' = [req EXCEPT ![p] = None]
    /\ ServerFails(p)
    /\ UNCHANGED <<pc, cmd, elevated, mutex, working, ctxDone, tries, answered, slot, swept>>

HandlesWhenIdle(p) ==
    /\ spc[p] = "handle"
    /\ p \notin working
    /\ ServerGoto(p, "write")
    /\ UNCHANGED <<pc, cmd, elevated, mutex, working, ctxDone, clientVars, pipe, slot, swept, req>>

\* HandleIPC: a check scans, in every phase of the daemon; status only reads.
Handles(p) ==
    /\ spc[p] = "handle"
    /\ \/ UNCHANGED working
       \/ req[p] = Check /\ p \notin ctxDone /\ working' = working \union {p}
    /\ ServerGoto(p, "write")
    /\ UNCHANGED <<pc, cmd, elevated, mutex, ctxDone, clientVars, pipe, slot, swept, req>>

\* Mutant: what the client has written stays for the next one.
WritesAnswerOnly(p) ==
    /\ spc[p] = "write"
    /\ answered' = answered \union Peer(p)
    /\ ClosePipe(p)
    /\ IF Peer(p) = {} THEN ServerFails(p) ELSE ServerGoto(p, "head")
    /\ UNCHANGED <<pc, cmd, elevated, mutex, working, ctxDone, tries, slot, swept, req>>

\* The answer stays in the pipe for its client when the server closes its end;
\* a client that has gone is an error.
WritesAnswer(p) ==
    /\ spc[p] = "write"
    /\ answered' = answered \union Peer(p)
    /\ ClosePipe(p)
    /\ req' = [req EXCEPT ![p] = None]
    /\ IF Peer(p) = {} THEN ServerFails(p) ELSE ServerGoto(p, "head")
    /\ UNCHANGED <<pc, cmd, elevated, mutex, working, ctxDone, tries, slot, swept>>

SleepEnds(p) ==
    /\ spc[p] = "sleep"
    /\ ServerGoto(p, "head")
    /\ UNCHANGED <<pc, cmd, elevated, mutex, working, ctxDone, clientVars, pipe, slot, swept, req>>

(***************************************************************************)
(* Specification                                                           *)
(***************************************************************************)

Init ==
    /\ pc = [p \in Proc |-> "off"]
    /\ cmd = [p \in Proc |-> None]
    /\ elevated = {}
    /\ mutex = {}
    /\ working = {}
    /\ ctxDone = {}
    /\ tries = [p \in Proc |-> 0]
    /\ conn = [p \in Proc |-> None]
    /\ answered = {}
    /\ spc = [p \in Proc |-> "off"]
    /\ pipe = [p \in Proc |-> "none"]
    /\ slot = {}
    /\ swept = {}
    /\ req = [p \in Proc |-> None]

ClientStep(p) == \/ Connects(p)
                 \/ FindsNoPipe(p)
                 \/ FindsBusy(p)
                 \/ IsRefused(p)
                 \/ WritesRequest(p)
                 \/ ReadsAnswer(p)

EntryStep(p) == \/ LoadsConfig(p)
                \/ IsElevated(p)
                \/ Relaunches(p)
                \/ IsDenied(p)
                \/ Acquires(p)
                \/ FindsMutex(p)
                \/ GivesUp(p)

OwnerStep(p) == \/ StartsServer(p)
                \/ ShutsDown(p)
                \/ Scans(p)
                \/ WaitReturns(p)
                \/ WaitTimesOut(p)
                \/ Releases(p)
                \/ Exits(p)

MainStep(p) == ClientStep(p) \/ EntryStep(p) \/ OwnerStep(p)

ServerStep(p) == \/ LeavesLoop(p)
                 \/ EntersLoop(p)
                 \/ CreatesPipe(p)
                 \/ CreateFails(p)
                 \/ TakesSlot(p)
                 \/ ConnectReturns(p)
                 \/ ConnectFails(p)
                 \/ ReleasesSlot(p)
                 \/ ChecksContext(p)
                 \/ ReadsRequest(p)
                 \/ ReadFails(p)
                 \/ Handles(p)
                 \/ WritesAnswer(p)
                 \/ SleepEnds(p)

HostStep(p) == Starts(p) \/ Killed(p) \/ Cancelled(p) \/ FindsWork(p)

Next == \E p \in Proc : \/ MainStep(p)
                        \/ ServerStep(p)
                        \/ CancelCloses(p)
                        \/ WorkersEnd(p)
                        \/ HostStep(p)

Spec == Init /\ [][Next]_vars

\* Goroutines run, recoveries end, the user answers the UAC prompt one way or
\* the other, and CreateNamedPipe does not fail forever.  Nobody need start,
\* kill or stop a process.
Fairness ==
    \A p \in Proc : /\ WF_vars(MainStep(p))
                    /\ WF_vars(ServerStep(p))
                    /\ SF_vars(CreatesPipe(p))
                    /\ WF_vars(CancelCloses(p))
                    /\ WF_vars(WorkersEnd(p))

FairSpec == Spec /\ Fairness

-----------------------------------------------------------------------------
(***************************************************************************)
(* Properties                                                              *)
(***************************************************************************)

MainPc == {"off", "call", "write", "read", "config", "elevate", "acquire", "refused",
           "listen", "serve", "scan", "wait", "release", "exit"}

ServerPc == {"off", "head", "create", "take", "connect", "unslot", "checkctx", "read",
             "handle", "write", "sleep"}

\* Every variable keeps its type; a client makes no more tries than it may.
TypeOK ==
    /\ pc \in [Proc -> MainPc]
    /\ cmd \in [Proc -> Command \union {None}]
    /\ elevated \subseteq Proc
    /\ mutex \subseteq Proc
    /\ working \subseteq Proc
    /\ ctxDone \subseteq Proc
    /\ tries \in [Proc -> 0..(Retries - 1)]
    /\ conn \in [Proc -> Proc \union {None}]
    /\ answered \subseteq Proc
    /\ spc \in [Proc -> ServerPc]
    /\ pipe \in [Proc -> {"none", "listening", "connected"}]
    /\ slot \subseteq Proc
    /\ swept \subseteq Proc
    /\ req \in [Proc -> Command \union {None}]

\* main.go: "Same singleton as the daemon so concurrent one-shot checks cannot
\* overlap."  Two processes never have recoveries under way at once, whatever a
\* check concludes from a pipe it did not find; the exception is a daemon whose
\* Shutdown has timed out and which is about to exit.
TimedOut(p) == cmd[p] = Daemon /\ pc[p] = "exit"

OneProcessOperates ==
    \A p, q \in working : p = q \/ TimedOut(p) \/ TimedOut(q)

\* The owner of the mutex, from Acquires to Releases.  A loser has a handle too
\* and owns nothing.
OwnerPc == {"listen", "serve", "scan", "wait", "release"}
Owns(p) == pc[p] \in OwnerPc
Owner == IF \E p \in Proc : Owns(p) THEN CHOOSE p \in Proc : Owns(p) ELSE None

Singleton == INSTANCE SingleOperator WITH operator <- Owner, stopping <- ctxDone

\* README: the daemon is a "single instance", and a one-shot check takes its
\* place.  The processes together keep to SingleOperator: the mutex passes from
\* one that has done its work, or been told to stop, to one that has none, and
\* nothing begins outside it, neither through the pipe nor after a cancel.
ImplementsSingleOperator == Singleton!Spec

\* The server reads and writes no handle that the cancel goroutine has closed,
\* or may still close, under it: Windows may have given that number to another
\* object by then.
HandleIsOwned ==
    \A p \in Proc : spc[p] \in {"read", "handle", "write"}
                      => pipe[p] = "connected" /\ p \notin slot

\* A client that has got through waits for a server that is on its way to it and
\* has its request; a server handles the request of the client at the other end
\* of its pipe, never one that an earlier client has left there.
Serving == {"take", "connect", "unslot", "checkctx", "read", "handle", "write"}

RequestsMatch ==
    \A c \in Proc : conn[c] # None =>
        /\ spc[conn[c]] \in Serving
        /\ spc[conn[c]] \in {"handle", "write"} => pc[c] = "read"
        /\ pc[c] = "read" => req[conn[c]] = cmd[c]

\* A client that has got through to a daemon loses the connection without an
\* answer only when it goes away itself or the daemon is being stopped.
AcceptedIsAnswered ==
    [][\A c, p \in Proc : conn[c] = p /\ conn'[c] # p
           => c \in answered' \/ pc'[c] = "off" \/ pc'[p] = "off" \/ p \in ctxDone]_vars

\* check and status end: whatever the daemons do, no client waits forever for a
\* free instance, for an answer, or for the workers of its own one-shot run.
CommandsEnd ==
    \A p \in Proc : (pc[p] # "off" /\ cmd[p] # Daemon) ~> pc[p] = "off"

\* The server listens again after every client, the ones that go away at the
\* wrong moment included.
ServerComesBack ==
    \A p \in Proc : pc[p] = "serve" ~> (pipe[p] = "listening" \/ p \in ctxDone \/ pc[p] = "off")

\* A cancelled daemon is gone in the end, though a pipe created just after the
\* cancel goroutine's sweep keeps its server waiting for a client.
DaemonEnds == \A p \in Proc : p \in ctxDone ~> pc[p] = "off"
=============================================================================
