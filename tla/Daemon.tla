--------------------------------- MODULE Daemon --------------------------------
(***************************************************************************)
(* Invocations of hmsrv that start the server as a daemon, ask for it or   *)
(* stop it.  An invocation with -D forks: the parent waits for a code that *)
(* the child writes to a pipe, and the child becomes the daemon.  All of   *)
(* them meet at the PID file.  libdaemon is external: its calls are taken  *)
(* as atomic.  A definition commented "Slip:" is not the code but a        *)
(* plausible mistake in it.                                                *)
(***************************************************************************)
EXTENDS Integers, Sequences, FiniteSets

CONSTANT Invocations    \* invocations with -D; also the PIDs of their children,
                        \* which are not given to other processes later

ASSUME InvocationsAssumption == Invocations \subseteq Nat \ {0}

VARIABLES
    parent,         \* "none", "waiting" in daemon_retval_wait, "exited"
    exitCode,       \* the exit status of the parent, meaningful when it exited
    child,          \* how far the child is, see ChildStates
    retval,         \* the pipe from the child to the parent: at most one code
    pidFile,        \* the PID in the file, or NoFile
    pending,        \* children with a SIGTERM in libdaemon's signal queue
    usurped         \* history: a failed child removed the file of another one

daemonVars == <<parent, exitCode, child, retval, pidFile, pending, usurped>>

NoFile == 0         \* no invocation has this PID

\* The stages of start_as_daemon in the child, then of main.
ChildStates ==
    {"none", "forked", "closed", "filed", "signals", "told", "serving", "failing", "dead"}

DaemonInit ==
    /\ parent = [p \in Invocations |-> "none"]
    /\ exitCode = [p \in Invocations |-> 0]
    /\ child = [p \in Invocations |-> "none"]
    /\ retval = [p \in Invocations |-> <<>>]
    /\ pidFile = NoFile
    /\ pending = {}
    /\ usurped = FALSE

Alive(p) == child[p] \notin {"none", "dead"}

\* daemon_pid_file_is_running; the file of a process that is gone is unlinked.
IsRunning == pidFile # NoFile /\ Alive(pidFile)

Exit(p, code) ==
    /\ parent' = [parent EXCEPT ![p] = "exited"]
    /\ exitCode' = [exitCode EXCEPT ![p] = code]

--------------------------------------------------------------------------------
(* The parent.                                                             *)

\* start_as_daemon up to the fork.  It ends with 1 when the daemon is running, and
\* when a reset of the signals, the pipe or the fork fails.
StartAsDaemon(p) ==
    /\ parent[p] = "none"
    /\ \/ Exit(p, 1) /\ UNCHANGED <<child, pidFile>>
       \/ /\ ~IsRunning
          /\ pidFile' = NoFile
          /\ \/ Exit(p, 1) /\ UNCHANGED child
             \/ /\ parent' = [parent EXCEPT ![p] = "waiting"]
                /\ child' = [child EXCEPT ![p] = "forked"]
                /\ UNCHANGED exitCode
    /\ UNCHANGED <<retval, pending, usurped>>

\* parent_wait_for_daemon_start: the code, or none because the child died or 20
\* seconds passed.
ParentWait(p) ==
    /\ parent[p] = "waiting"
    /\ Exit(p, IF retval[p] # <<>> THEN Head(retval[p]) ELSE 255)
    /\ UNCHANGED <<child, retval, pidFile, pending, usurped>>

--------------------------------------------------------------------------------
(* The child.                                                              *)

\* daemon_retval_send closes the pipe, so only the first code of a child is sent.
Send(p, code) ==
    retval' = [retval EXCEPT ![p] =
        IF parent[p] = "waiting" /\ @ = <<>> THEN <<code>> ELSE @]

ChildIs(p, state) == child' = [child EXCEPT ![p] = state]

\* Writing to a parent that has left may raise SIGPIPE, which kills.
BrokenPipe(p) ==
    parent[p] = "exited" /\ ChildIs(p, "dead") /\ UNCHANGED <<retval, pidFile>>

\* An error of one of the steps: its code is sent, and the clean-up follows.
Fail(p, code) ==
    \/ Send(p, code) /\ ChildIs(p, "failing") /\ UNCHANGED pidFile
    \/ BrokenPipe(p)

\* Slip: the parent is told of success before the PID file is there.
CloseAllTelling(p) ==
    /\ child[p] = "forked"
    /\ Send(p, 0) /\ ChildIs(p, "closed") /\ UNCHANGED pidFile
    /\ UNCHANGED <<parent, exitCode, pending, usurped>>

CloseAll(p) ==
    /\ child[p] = "forked"
    /\ \/ Fail(p, 1)
       \/ ChildIs(p, "closed") /\ UNCHANGED <<retval, pidFile>>
    /\ UNCHANGED <<parent, exitCode, pending, usurped>>

\* Slip: a PID file that is there is written over.
CreatePidFileOver(p) ==
    /\ child[p] = "closed"
    /\ pidFile' = p /\ ChildIs(p, "filed")
    /\ UNCHANGED <<parent, exitCode, retval, pending, usurped>>

\* daemon_pid_file_create opens the file with O_EXCL.
CreatePidFile(p) ==
    /\ child[p] = "closed"
    /\ \/ pidFile # NoFile /\ Fail(p, 2)
       \/ /\ pidFile = NoFile
          /\ pidFile' = p
          /\ ChildIs(p, "filed")
          /\ UNCHANGED retval
    /\ UNCHANGED <<parent, exitCode, pending, usurped>>

SignalInit(p) ==
    /\ child[p] = "filed"
    /\ \/ Fail(p, 3)
       \/ ChildIs(p, "signals") /\ UNCHANGED <<retval, pidFile>>
    /\ UNCHANGED <<parent, exitCode, pending, usurped>>

\* daemon_retval_send(0), whose result is not looked at, then the signal source.
TellParent(p) ==
    /\ child[p] = "signals"
    /\ \/ Send(p, 0) /\ ChildIs(p, "told") /\ UNCHANGED pidFile
       \/ BrokenPipe(p)
    /\ UNCHANGED <<parent, exitCode, pending, usurped>>

\* Slip: the queue is emptied when the server starts.
ServerStartDeaf(p) ==
    /\ child[p] = "told"
    /\ ChildIs(p, "serving")
    /\ pending' = pending \ {p}
    /\ UNCHANGED <<parent, exitCode, retval, pidFile, usurped>>

\* g_hnode_server_start, which fails without Avahi: main returns.
ServerStart(p) ==
    /\ child[p] = "told"
    /\ ChildIs(p, "serving") \/ ChildIs(p, "dead")
    /\ UNCHANGED <<parent, exitCode, retval, pidFile, pending, usurped>>

\* The clean-up of a failure removes the PID file, whoever made it.
CleanUp(p) ==
    /\ child[p] = "failing"
    /\ usurped' = (usurped \/ (IsRunning /\ pidFile # p))
    /\ pidFile' = NoFile
    /\ ChildIs(p, "dead")
    /\ UNCHANGED <<parent, exitCode, retval, pending>>

\* The main loop finds the signal in the queue: state_change, and hmsrv quits the
\* loop and returns.  The PID file stays.
SignalDispatch(p) ==
    /\ child[p] = "serving" /\ p \in pending
    /\ ChildIs(p, "dead")
    /\ pending' = pending \ {p}
    /\ UNCHANGED <<parent, exitCode, retval, pidFile, usurped>>

\* A g_error, for instance of a service that cannot be resolved, aborts.
Abort(p) ==
    /\ child[p] = "serving"
    /\ ChildIs(p, "dead")
    /\ UNCHANGED <<parent, exitCode, retval, pidFile, pending, usurped>>

--------------------------------------------------------------------------------
(* The other commands.                                                     *)

\* check_daemon changes something only when the file is stale.
CheckDaemon ==
    /\ pidFile # NoFile /\ ~IsRunning
    /\ pidFile' = NoFile
    /\ UNCHANGED <<parent, exitCode, child, retval, pending, usurped>>

\* stop_daemon sends SIGTERM to the process of the file, which has reset its signals
\* to the default action until daemon_signal_init has its handlers in place.
StopDaemon ==
    /\ IsRunning
    /\ IF child[pidFile] \in {"filed", "failing"}
       THEN ChildIs(pidFile, "dead") /\ UNCHANGED pending
       ELSE pending' = pending \cup {pidFile} /\ UNCHANGED child
    /\ UNCHANGED <<parent, exitCode, retval, pidFile, usurped>>

--------------------------------------------------------------------------------
ChildStep(p) == \/ CloseAll(p) \/ CreatePidFile(p) \/ SignalInit(p) \/ TellParent(p)
                \/ ServerStart(p) \/ CleanUp(p) \/ SignalDispatch(p)

DaemonNext ==
    \/ \E p \in Invocations : \/ StartAsDaemon(p) \/ ParentWait(p)
                              \/ ChildStep(p) \/ Abort(p)
    \/ CheckDaemon \/ StopDaemon

DaemonSpec == DaemonInit /\ [][DaemonNext]_daemonVars

\* The kernel schedules a child, and its main loop polls the signal queue.
DaemonFairness == \A p \in Invocations : WF_daemonVars(ChildStep(p))

--------------------------------------------------------------------------------
(* Properties.                                                             *)

\* The children that hold, or are about to hold, the server's sockets.
Copies == {p \in Invocations : child[p] \in {"filed", "signals", "told", "serving"}}

\* Two copies of the daemon live at once only after a child that lost the race for
\* the PID file has removed the winner's: between the check and the creation, and
\* through stale files, stops and aborts, nothing else lets a second one in.
\* (hnode-srvobj.c, g_hnode_server_start_as_daemon)
OnlyCopy == ~usurped => Cardinality(Copies) <= 1

\* What the parent's exit status says of its child: 0, that it has got past every
\* step that can fail before the server is started; 1 to 3, that it will never
\* serve.  255 says nothing: the child may have died, or be late.
\* (hnode-srvobj.c, g_hnode_server_parent_wait_for_daemon_start)
ParentTells ==
    \A p \in Invocations : parent[p] = "exited" =>
        /\ exitCode[p] = 0 => child[p] \in {"told", "serving", "dead"}
        /\ exitCode[p] \in 1..3 => child[p] \in {"none", "failing", "dead"}

\* A SIGTERM that is accepted at any moment of the start ends the daemon: one that
\* comes before the main loop runs waits in the queue and is not lost.
\* (hnode-signal-source.c; hnode-srvobj.c, g_hnode_server_signal_source_callback)
StopTakesEffect == \A p \in Invocations : p \in pending ~> child[p] = "dead"
================================================================================
