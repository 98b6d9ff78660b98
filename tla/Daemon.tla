------------------------------- MODULE Daemon -------------------------------
(***************************************************************************)
(* Daemon processes and the processes that start, use and stop them        *)
(* (internal/app/daemon.go, daemon_start_unix.go, daemon_process_unix.go,  *)
(* bridge_executor.go, runtime.go Start and Close, internal/instance and   *)
(* internal/unixtransport).                                                *)
(*                                                                         *)
(* What the processes share is the file system: the instance lock, which   *)
(* the kernel releases when its holder dies, the socket of the bridge and  *)
(* the PID marker, which stay behind.  The control socket is handled like  *)
(* the bridge's and is left out.  A daemon is numbered by its start and    *)
(* stands for a PID with its start time, which is never reused.            *)
(*                                                                         *)
(* A call is a tool call of an MCP server process; the calls of one        *)
(* process share a reconnectingExecutor.                                   *)
(***************************************************************************)
EXTENDS Integers, FiniteSets

CONSTANTS
    Calls,       \* tool calls; a connection has the name of the call that opened it
    MaxDaemons,  \* bound on the number of daemon processes
    MaxExits,    \* bound on the number of daemons that end without being asked
    None

ASSUME MaxDaemonsAssumption == MaxDaemons \in Nat \ {0}
ASSUME MaxExitsAssumption == MaxExits \in Nat
ASSUME NoneAssumption == None \notin Calls

VARIABLES
    daemon,    \* each daemon process
    lock,      \* the holder of the instance lock
    socket,    \* the daemon whose listener the socket file names, 0 if there is none
    marker,    \* the daemon named by the PID file, 0 if there is none
    exits,     \* history: daemons that crashed or went idle so far
    executor,  \* the reconnectingExecutor of each call, named by a call of its process
    call,      \* what each call does
    conn,      \* daemonConnection
    mu,        \* the call that holds reconnectingExecutor.mu
    current,   \* reconnectingExecutor.current
    closed,    \* the executors that are closed
    stopper    \* a process that runs stopDaemon

processes == <<daemon, lock, socket, marker, exits>>
clients == <<executor, call, conn, mu, current, closed>>
vars == <<daemon, lock, socket, marker, exits, executor, call, conn, mu, current, closed, stopper>>

-----------------------------------------------------------------------------
Daemons == 1..MaxDaemons

\* Who may hold the instance lock besides a daemon.
Free == 0
Stopper == MaxDaemons + 1

\* "forked": before NewRuntime; "locked": NewRuntime has the lock; "listening":
\* the bridge listens; "serving": the marker is written and readiness was
\* reported; "draining": in Close, before the bridge is closed; "silent": the
\* bridge is closed.
DaemonState == {"unborn", "forked", "locked", "listening", "serving", "draining", "silent", "dead"}

\* pipe: what the startup pipe holds.  asked: a shutdown was acknowledged.
Unborn == [pc |-> "unborn", pipe |-> "empty", asked |-> FALSE]

\* "dialing": connectOrStartDaemon before its first Connect; "starting": in
\* startDaemonProcess with the daemon "child"; "polling": waitForReadyDaemon;
\* "verifying": readyBridgeExecutor; "using": the operation; "closing": closes
\* the connection it was the last to use.  again: the second of two attempts.
\* failed: the start failed.
NoCall == [pc |-> "idle", child |-> 0, conn |-> None, again |-> FALSE, failed |-> FALSE]

NoConn == [state |-> "none", daemon |-> 0, users |-> {}, retired |-> FALSE]

\* "connected": has a capability of the daemon "peer"; "marked": has read the
\* marker "target"; "waiting": polls for the exit of target; "killed": has
\* sent SIGKILL; "cleaning", "unmarking": in cleanupStoppedDaemon, with the lock.
NoStop == [pc |-> "idle", force |-> FALSE, peer |-> 0, target |-> 0]

Is(d, states) == d # 0 /\ daemon[d].pc \in states
Accepting(d) == Is(d, {"listening", "serving", "draining"})
Dead(d) == Is(d, {"dead"})
Born == Cardinality({d \in Daemons : daemon[d].pc # "unborn"})

\* The daemon that answers at the socket.
Answering == IF Accepting(socket) THEN socket ELSE 0

Process == [pc : DaemonState, pipe : {"empty", "ready", "error"}, asked : BOOLEAN]
Call == [pc : {"idle", "dialing", "starting", "polling", "verifying", "using",
               "closing", "done"},
         child : 0..MaxDaemons, conn : Calls \cup {None}, again : BOOLEAN, failed : BOOLEAN]
Connection == [state : {"none", "open", "closing", "closed"}, daemon : 0..MaxDaemons,
               users : SUBSET Calls, retired : BOOLEAN]
Stop == [pc : {"idle", "connected", "marked", "asking", "waiting", "killed", "cleaning",
               "unmarking", "failed", "stopped"},
         force : BOOLEAN, peer : 0..MaxDaemons, target : 0..MaxDaemons]

TypeOK ==
    /\ daemon \in [Daemons -> Process]
    /\ lock \in 0..Stopper
    /\ socket \in 0..MaxDaemons
    /\ marker \in 0..MaxDaemons
    /\ exits \in 0..MaxExits
    /\ executor \in [Calls -> Calls]
    /\ call \in [Calls -> Call]
    /\ conn \in [Calls -> Connection]
    /\ mu \in [Calls -> Calls \cup {None}]
    /\ current \in [Calls -> Calls \cup {None}]
    /\ closed \subseteq Calls
    /\ stopper \in Stop

\* The calls belong to one process or to several.
Init ==
    /\ daemon = [d \in Daemons |-> Unborn]
    /\ lock = Free
    /\ socket = 0
    /\ marker = 0
    /\ exits = 0
    /\ executor \in {f \in [Calls -> Calls] : \A c \in Calls : f[f[c]] = f[c]}
    /\ call = [c \in Calls |-> NoCall]
    /\ conn = [c \in Calls |-> NoConn]
    /\ mu = [e \in Calls |-> None]
    /\ current = [e \in Calls |-> None]
    /\ closed = {}
    /\ stopper = NoStop

-----------------------------------------------------------------------------
(* The daemon process *)

Become(d, pc) == daemon' = [daemon EXCEPT ![d].pc = pc]
Exited(d) == [daemon EXCEPT ![d].pc = "dead", ![d].asked = FALSE]
Report(d, pc, pipe) == daemon' = [daemon EXCEPT ![d].pc = pc, ![d].pipe = pipe]
Fails(d) == daemon' = [Exited(d) EXCEPT ![d].pipe = "error"]

\* The process ends: the kernel releases its lock; its files stay.
Dies(d) ==
    /\ daemon' = Exited(d)
    /\ lock' = IF lock = d THEN Free ELSE lock

\* instance.Acquire, for a process that gets the lock.
Acquire(who) ==
    /\ lock = Free
    /\ lock' = who

\* NewRuntime: Acquire, which fails while another process has the
\* lock; the store and the rest may fail as well, and the lock is given back.
NewRuntime(d) ==
    /\ daemon[d].pc = "forked"
    /\ \/ /\ Acquire(d)
          /\ Become(d, "locked")
       \/ /\ Fails(d)
          /\ UNCHANGED lock
    /\ UNCHANGED <<socket, marker, exits, clients, stopper>>

\* bridge.Start: a socket nobody listens at is removed and a new one is bound;
\* a socket in use is an error, after which Close releases the lock.
StartBridge(d) ==
    /\ daemon[d].pc = "locked"
    /\ IF Accepting(socket)
       THEN /\ Fails(d)
            /\ lock' = Free
            /\ UNCHANGED socket
       ELSE /\ Become(d, "listening")
            /\ socket' = d
            /\ UNCHANGED lock
    /\ UNCHANGED <<marker, exits, clients, stopper>>

\* writeDaemonPID replaces the marker and readiness is reported; if it fails,
\* Start closes the bridge and Close, which has nothing else to remove,
\* releases the lock.
WritePID(d) ==
    /\ daemon[d].pc = "listening"
    /\ \/ /\ marker' = d
          /\ Report(d, "serving", "ready")
          /\ UNCHANGED <<lock, socket>>
       \/ /\ Fails(d)
          /\ socket' = 0
          /\ lock' = Free
          /\ UNCHANGED marker
    /\ UNCHANGED <<exits, clients, stopper>>

\* The loop of runDaemon ends, by a shutdown request, idleness or a signal.
LeaveLoop(d) ==
    /\ daemon[d].pc = "serving"
    /\ \/ daemon[d].asked /\ UNCHANGED exits
       \/ exits < MaxExits /\ exits' = exits + 1
    /\ Become(d, "draining")
    /\ UNCHANGED <<lock, socket, marker, clients, stopper>>

\* Close, after the remote operations have drained: the bridge goes, with
\* whatever socket is at its path.
CloseBridge(d) ==
    /\ daemon[d].pc = "draining"
    /\ Become(d, "silent")
    /\ socket' = 0
    /\ UNCHANGED <<lock, marker, exits, clients, stopper>>

removeDaemonPID(expected) == marker' = IF marker = expected THEN 0 ELSE marker

\* The marker, if it is still this daemon's, and last the lock.
RemovePID(d) ==
    /\ daemon[d].pc = "silent"
    /\ removeDaemonPID(d)
    /\ Dies(d)
    /\ UNCHANGED <<socket, exits, clients, stopper>>

Crash(d) ==
    /\ daemon[d].pc \notin {"unborn", "dead"}
    /\ exits < MaxExits
    /\ exits' = exits + 1
    /\ Dies(d)
    /\ UNCHANGED <<socket, marker, clients, stopper>>

-----------------------------------------------------------------------------
(* Tool calls *)

Goto(c, pc) == call' = [call EXCEPT ![c].pc = pc]
Returns(c) == call' = [call EXCEPT ![c] = [NoCall EXCEPT !.pc = "done"]]

\* acquireDaemon: the executor's connection is shared; without one, the call
\* keeps mu while it connects.
acquireDaemon(c) ==
    LET e == executor[c]
        k == current[e]
    IN /\ call[c].pc = "idle" /\ mu[e] = None
       /\ \/ /\ e \in closed
             /\ Returns(c)
             /\ UNCHANGED <<conn, mu>>
          \/ /\ e \notin closed /\ k # None
             /\ call' = [call EXCEPT ![c].pc = "using", ![c].conn = k]
             /\ conn' = [conn EXCEPT ![k].users = @ \cup {c}]
             /\ UNCHANGED mu
          \/ /\ e \notin closed /\ k = None
             /\ Goto(c, "dialing")
             /\ mu' = [mu EXCEPT ![e] = c]
             /\ UNCHANGED conn
       /\ UNCHANGED <<processes, executor, current, closed, stopper>>

\* bridge.Connect succeeds: the daemon that answers has opened a capability.
Connect(c) ==
    /\ call[c].pc \in {"dialing", "polling"}
    /\ Answering # 0
    /\ call' = [call EXCEPT ![c].pc = "verifying"]
    /\ conn' = [conn EXCEPT ![c] = [NoConn EXCEPT !.state = "open", !.daemon = Answering]]
    /\ UNCHANGED <<processes, executor, mu, current, closed, stopper>>

\* Nobody answers: startDaemonProcess forks a daemon, or cannot.
startDaemonProcess(c) ==
    /\ call[c].pc = "dialing"
    /\ Answering = 0
    /\ \/ /\ Born < MaxDaemons
          /\ daemon' = [daemon EXCEPT ![Born + 1].pc = "forked"]
          /\ call' = [call EXCEPT ![c].pc = "starting", ![c].child = Born + 1]
       \/ /\ call' = [call EXCEPT ![c].pc = "polling", ![c].failed = TRUE]
          /\ UNCHANGED daemon
    /\ UNCHANGED <<lock, socket, marker, exits, executor, conn, mu, current, closed, stopper>>

\* waitForDaemonStartup: the pipe says ready, says why not, or ends empty; or
\* the time is up and the child is killed, whatever it has reported.
waitForDaemonStartup(c) ==
    LET child == call[c].child
    IN /\ call[c].pc = "starting"
       /\ \/ /\ daemon[child].pipe = "ready"
             /\ call' = [call EXCEPT ![c].pc = "polling", ![c].child = 0]
             /\ UNCHANGED <<daemon, lock>>
          \/ /\ daemon[child].pipe = "error" \/ Dead(child)
             /\ daemon[child].pipe # "ready"
             /\ call' = [call EXCEPT ![c].pc = "polling", ![c].child = 0, ![c].failed = TRUE]
             /\ UNCHANGED <<daemon, lock>>
          \/ /\ ~Dead(child)
             /\ Dies(child)
             /\ call' = [call EXCEPT ![c].pc = "polling", ![c].child = 0, ![c].failed = TRUE]
       /\ UNCHANGED <<socket, marker, exits, executor, conn, mu, current, closed, stopper>>

\* connectOrStartDaemon fails; acquireDaemon tries once more if the error is
\* that nobody answered, which the error of a failed start hides, and returns,
\* giving mu back, otherwise.
GivenBack_Kept(c) == mu

GivenBack(c) == [mu EXCEPT ![executor[c]] = None]

ConnectorFails(c, retryable) ==
    IF retryable /\ ~call[c].again
    THEN /\ call' = [call EXCEPT ![c] = [NoCall EXCEPT !.pc = "dialing", !.again = TRUE]]
         /\ UNCHANGED mu
    ELSE /\ Returns(c)
         /\ mu' = GivenBack(c)

\* bridge.Connect fails for good: the daemon speaks another version of the
\* protocol (ErrVersionMismatch), the deadline of waitForReadyDaemon has
\* passed, or the context is done.
ConnectFails(c) ==
    /\ \/ call[c].pc \in {"dialing", "polling"} /\ Answering # 0 /\ ConnectorFails(c, FALSE)
       \/ /\ call[c].pc = "polling" /\ Answering = 0
          /\ \E late \in BOOLEAN : ConnectorFails(c, late /\ ~call[c].failed)
    /\ UNCHANGED <<processes, executor, conn, current, closed, stopper>>

\* readyBridgeExecutor: status is answered, by the daemon that knows the
\* capability, and the connection becomes the executor's; or the capability is
\* closed again.  That this close may fail as well is left out: no second try
\* depends on it.
readyBridgeExecutor(c) ==
    /\ call[c].pc = "verifying"
    /\ \/ /\ Answering = conn[c].daemon
          /\ call' = [call EXCEPT ![c] = [NoCall EXCEPT !.pc = "using", !.conn = c]]
          /\ conn' = [conn EXCEPT ![c].users = {c}]
          /\ current' = [current EXCEPT ![executor[c]] = c]
          /\ mu' = GivenBack(c)
       \/ /\ conn' = [conn EXCEPT ![c] = NoConn]
          /\ ConnectorFails(c, Answering = 0 /\ ~call[c].failed)
          /\ UNCHANGED current
    /\ UNCHANGED <<processes, executor, closed, stopper>>

\* collectClosableLocked: the retired connections nobody uses are to be closed.
Closable_Retired(cs, e) == {k \in Calls : executor[k] = e /\ cs[k].state = "open" /\ cs[k].retired}

Closable(cs, e) == {k \in Closable_Retired(cs, e) : cs[k].users = {}}

Collected(cs, e) ==
    [k \in Calls |-> IF k \in Closable(cs, e) THEN [cs[k] EXCEPT !.state = "closing"] ELSE cs[k]]

\* The operation has returned; releaseDaemon retires the connection if it
\* failed in the transport, which it may do with a daemon that answers as well:
\* the capability is unknown there, or the response was cut off.  The operation
\* is not tried again.
releaseDaemon(c, retire) ==
    LET e == executor[c]
        k == call[c].conn
        released == [conn EXCEPT ![k].users = @ \ {c}, ![k].retired = @ \/ retire]
    IN /\ call[c].pc = "using" /\ mu[e] = None
       /\ IF k \in Closable(released, e) THEN Goto(c, "closing") ELSE Returns(c)
       /\ conn' = Collected(released, e)
       /\ current' = [current EXCEPT ![e] = IF retire /\ @ = k THEN None ELSE @]
       /\ UNCHANGED <<processes, executor, mu, closed, stopper>>

\* The connections collected are closed without mu, by the call that released
\* one last or by Close.  The daemon revokes the capability or keeps it: the
\* error is ignored.
closeDaemonExecutors(k) ==
    /\ conn[k].state = "closing"
    /\ \E d \in {0, conn[k].daemon} :
            conn' = [conn EXCEPT ![k].state = "closed", ![k].daemon = d]
    /\ call' = [c \in Calls |->
                   IF call[c].pc = "closing" /\ call[c].conn = k
                   THEN [NoCall EXCEPT !.pc = "done"] ELSE call[c]]
    /\ UNCHANGED <<processes, executor, mu, current, closed, stopper>>

\* reconnectingExecutor.Close, when the MCP server ends.
CloseExecutor(e) ==
    LET k == current[e]
    IN /\ e \notin closed /\ mu[e] = None
       /\ closed' = closed \cup {e}
       /\ current' = [current EXCEPT ![e] = None]
       /\ conn' = Collected(IF k = None THEN conn ELSE [conn EXCEPT ![k].retired = TRUE], e)
       /\ UNCHANGED <<processes, executor, call, mu, stopper>>

-----------------------------------------------------------------------------
(* stopDaemon *)

StopGoto(pc) == stopper' = [(IF pc = "failed" THEN NoStop ELSE stopper) EXCEPT !.pc = pc]

\* Connect; without an answer stopDaemon fails, as not running if there is no
\* marker either.
StopConnect(force) ==
    /\ stopper.pc = "idle"
    /\ IF Answering = 0 THEN StopGoto("failed")
       ELSE stopper' = [stopper EXCEPT !.pc = "connected", !.force = force, !.peer = Answering]
    /\ UNCHANGED <<processes, clients>>

readDaemonPID ==
    /\ stopper.pc = "connected"
    /\ IF marker = 0 THEN StopGoto("failed")
       ELSE stopper' = [stopper EXCEPT !.pc = "marked", !.target = marker]
    /\ UNCHANGED <<processes, clients>>

\* An error of prepareDaemonStop ends an ordinary stop and is ignored by force.
AfterError_Ignored == "waiting"

AfterError == IF stopper.force THEN "waiting" ELSE "failed"

\* prepareDaemonStop: status, which an ordinary stop takes no for an answer
\* from if a capability is open, be it one whose close was lost.
Busy == \E k \in Calls : conn[k].daemon = stopper.peer

StopStatus ==
    /\ stopper.pc = "marked"
    /\ \/ /\ Answering = stopper.peer
          /\ StopGoto(IF Busy /\ ~stopper.force THEN "failed" ELSE "asking")
       \/ StopGoto(AfterError)
    /\ UNCHANGED <<processes, clients>>

\* Shutdown, which the daemon obeys once it has answered.
StopShutdown ==
    /\ stopper.pc = "asking"
    /\ \/ /\ Answering = stopper.peer
          /\ daemon' = [daemon EXCEPT ![stopper.peer].asked = TRUE]
          /\ StopGoto("waiting")
       \/ /\ StopGoto(AfterError)
          /\ UNCHANGED daemon
    /\ UNCHANGED <<lock, socket, marker, exits, clients>>

\* The process has exited, or cannot be asked about.
daemonProcessExitedMarker ==
    /\ stopper.pc = "waiting"
    /\ \/ Dead(stopper.target) /\ StopGoto("stopped")
       \/ StopGoto("failed")
    /\ UNCHANGED <<processes, clients>>

\* The time is up: forceStopDaemonMarker, or an error.
StopDeadline ==
    /\ stopper.pc = "waiting"
    /\ IF stopper.force /\ ~Dead(stopper.target)
       THEN Dies(stopper.target) ELSE UNCHANGED <<daemon, lock>>
    /\ StopGoto(IF stopper.force THEN "killed" ELSE "failed")
    /\ UNCHANGED <<socket, marker, exits, clients>>

\* cleanupStoppedDaemon: if a daemon has the instance lock, its files are left
\* alone; otherwise they are removed with the lock held.
MayClean_Always == TRUE

MayClean == lock = Free

cleanupStoppedDaemon ==
    /\ stopper.pc = "killed" /\ Dead(stopper.target)
    /\ IF MayClean
       THEN lock' = Stopper /\ StopGoto("cleaning")
       ELSE UNCHANGED lock /\ StopGoto("stopped")
    /\ UNCHANGED <<daemon, socket, marker, exits, clients>>

RemoveStoppedSocket ==
    /\ stopper.pc = "cleaning"
    /\ socket' = 0
    /\ StopGoto("unmarking")
    /\ UNCHANGED <<daemon, lock, marker, exits, clients>>

RemoveStoppedPID ==
    /\ stopper.pc = "unmarking"
    /\ removeDaemonPID(stopper.target)
    /\ lock' = Free
    /\ StopGoto("stopped")
    /\ UNCHANGED <<daemon, socket, exits, clients>>

-----------------------------------------------------------------------------
StartStep(d) == NewRuntime(d) \/ StartBridge(d) \/ WritePID(d)
CloseStep(d) == CloseBridge(d) \/ RemovePID(d)

CallStep(c) ==
    \/ Connect(c) \/ startDaemonProcess(c) \/ waitForDaemonStartup(c) \/ ConnectFails(c)
    \/ readyBridgeExecutor(c) \/ \E retire \in BOOLEAN : releaseDaemon(c, retire)

StopStep ==
    \/ readDaemonPID \/ StopStatus \/ StopShutdown \/ daemonProcessExitedMarker \/ StopDeadline
    \/ cleanupStoppedDaemon \/ RemoveStoppedSocket \/ RemoveStoppedPID

Next ==
    \/ \E d \in Daemons : StartStep(d) \/ LeaveLoop(d) \/ CloseStep(d) \/ Crash(d)
    \/ \E c \in Calls : acquireDaemon(c) \/ CallStep(c) \/ closeDaemonExecutors(c)
    \/ \E e \in {executor[c] : c \in Calls} : CloseExecutor(e)
    \/ \E force \in BOOLEAN : StopConnect(force)
    \/ StopStep

Spec == Init /\ [][Next]_vars

\* A call that has begun goes on: connecting, starting and polling have
\* deadlines, operations have timeouts and a close is answered or its daemon
\* dies; Go's mutex serves its waiters.
FairSpec ==
    /\ Spec
    /\ \A c \in Calls : /\ WF_vars(CallStep(c)) /\ WF_vars(closeDaemonExecutors(c))
                        /\ SF_vars(acquireDaemon(c))

-----------------------------------------------------------------------------
\* A daemon that serves stays reachable: the socket and the PID marker are its
\* own, whatever earlier daemons leave behind or remove as they close, whoever
\* tries to start another one, and whatever a forced stop cleans up
\* (daemon.go:300: "the stop request must leave the new daemon's artifacts
\* untouched").
ServingIsReachable ==
    \A d \in Daemons : daemon[d].pc = "serving" => socket = d /\ marker = d

\* A stop that succeeds has seen the process of the marker exit, and the
\* daemon it was connected to has exited or has promised to; only a forced
\* stop that read the marker of another daemon may do without that promise.
StopIsHonest ==
    stopper.pc = "stopped" =>
        /\ Dead(stopper.target)
        /\ \/ Dead(stopper.peer)
           \/ daemon[stopper.peer].asked
           \/ stopper.force /\ stopper.target # stopper.peer

\* The capability of a connection is open exactly as long as a call uses it or
\* the next one may: no close is sent under a call that shares it, and one is
\* when the last call of a retired connection returns.
CapabilityLife ==
    \A k \in Calls :
        /\ conn[k].users # {} => conn[k].state = "open"
        /\ conn[k].state = "open" =>
              conn[k].users # {} \/ current[executor[k]] = k \/ call[k].pc = "verifying"

\* Every call returns, with a daemon or an error, although the calls of one
\* process wait for each other's attempts to connect.
CallsReturn ==
    \A c \in Calls : <>(call[c].pc = "done")

=============================================================================
