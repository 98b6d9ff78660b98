---------------------------- MODULE DaemonProofs ----------------------------
(***************************************************************************)
(* Proofs about Daemon for any number of tool calls and daemon processes.  *)
(*                                                                         *)
(* ServingIsReachable follows from the instance lock: who has passed       *)
(* NewRuntime and has not died holds it (LockIsHeld), and only a holder    *)
(* touches the socket and the marker (SocketIsHolders, MarkerIsHolders).   *)
(* That a process killed by a call or by a stop is a daemon that exists,   *)
(* and that a new one was never born before, is KnownAreBorn and           *)
(* BornInOrder.                                                            *)
(*                                                                         *)
(* StopIsHonest follows from what the stopper has seen so far (StopSaw).   *)
(*                                                                         *)
(* CapabilityLife is about the executors alone: a call that connects holds *)
(* its executor's mutex (ConnectingHoldsMu), so that the connection it     *)
(* brings does not replace one in use, and the users of a connection are   *)
(* the calls that use it (UsersUse).                                       *)
(***************************************************************************)
EXTENDS Daemon, FiniteSetTheorems, TLAPS

\* From NewRuntime on, a daemon that is not dead holds the instance lock.
Holding == {"locked", "listening", "serving", "draining", "silent"}

LockIsHeld ==
    /\ \A d \in Daemons : daemon[d].pc \in Holding <=> lock = d
    /\ stopper.pc \in {"cleaning", "unmarking"} <=> lock = Stopper

SocketIsHolders ==
    \A d \in Daemons : daemon[d].pc \in {"listening", "serving", "draining"} => socket = d

MarkerIsHolders == \A d \in Daemons : daemon[d].pc = "serving" => marker = d

BornInOrder ==
    \A d, e \in Daemons : d < e /\ daemon[d].pc = "unborn" => daemon[e].pc = "unborn"

IsBorn(d) == d # 0 /\ daemon[d].pc # "unborn"

\* Daemons that somebody has the number of.
KnownAreBorn ==
    /\ marker # 0 => IsBorn(marker)
    /\ \A c \in Calls : call[c].pc = "starting" => IsBorn(call[c].child)
    /\ stopper.pc \notin {"idle", "failed"} => IsBorn(stopper.peer)
    /\ stopper.pc \notin {"idle", "failed", "connected"} => IsBorn(stopper.target)

\* What a stop that goes on has been promised and has seen.
StopSaw ==
    /\ stopper.pc \in {"waiting", "killed", "cleaning", "unmarking", "stopped"} =>
            Dead(stopper.peer) \/ daemon[stopper.peer].asked \/ stopper.force
    /\ stopper.pc \in {"killed", "cleaning", "unmarking", "stopped"} => Dead(stopper.target)

ProcessInv ==
    /\ TypeOK
    /\ LockIsHeld
    /\ SocketIsHolders
    /\ MarkerIsHolders
    /\ BornInOrder
    /\ KnownAreBorn
    /\ StopSaw

-----------------------------------------------------------------------------
(* Executors *)

Connecting == {"dialing", "starting", "polling", "verifying"}

\* While a call connects it has the mutex, and its executor no connection.
ConnectingHoldsMu ==
    \A c \in Calls : call[c].pc \in Connecting =>
        mu[executor[c]] = c /\ current[executor[c]] = None

UsersUse ==
    \A k, c \in Calls : c \in conn[k].users =>
        call[c].pc = "using" /\ call[c].conn = k

\* A call uses an open connection of its own process.
UsedIsOpen ==
    \A c \in Calls : call[c].pc = "using" =>
        /\ call[c].conn \in Calls
        /\ conn[call[c].conn].state = "open"
        /\ c \in conn[call[c].conn].users
        /\ executor[call[c].conn] = executor[c]

\* The connection an executor shares is open, its own and not retired.
CurrentIsOpen ==
    \A e \in Calls : current[e] # None =>
        /\ conn[current[e]].state = "open"
        /\ ~conn[current[e]].retired
        /\ executor[current[e]] = e

\* The name of a connection is free until its call has connected.
ConnIsCalls ==
    \A k \in Calls :
        /\ call[k].pc \in {"idle", "dialing", "starting", "polling"} => conn[k].state = "none"
        /\ call[k].pc = "verifying" => conn[k].state = "open" /\ ~conn[k].retired
        /\ call[k].pc \in {"idle"} \cup Connecting => conn[k].users = {}

\* An open connection that no executor shares any more is retired and in use.
OpenIsNeeded ==
    \A k \in Calls : conn[k].state = "open" =>
        \/ call[k].pc = "verifying"
        \/ current[executor[k]] = k
        \/ conn[k].retired /\ conn[k].users # {}

ClientInv ==
    /\ TypeOK
    /\ ConnectingHoldsMu
    /\ UsersUse
    /\ UsedIsOpen
    /\ CurrentIsOpen
    /\ ConnIsCalls
    /\ OpenIsNeeded

IInv == ProcessInv /\ ClientInv

-----------------------------------------------------------------------------
(* Types *)

\* Whoever answers at the socket is the daemon the socket file names.
LEMMA AnsweringIs ==
  ASSUME TypeOK
  PROVE  /\ Answering \in 0..MaxDaemons
         /\ Answering # 0 => /\ Answering = socket /\ Answering \in Daemons
                             /\ daemon[Answering].pc \in {"listening", "serving", "draining"}
  BY MaxDaemonsAssumption DEF TypeOK, Answering, Accepting, Is, Daemons

\* The number of daemons so far is a number.
LEMMA BornType == Born \in Nat
  <1>1. {d \in Daemons : daemon[d].pc # "unborn"} \in SUBSET (1..MaxDaemons)
    BY DEF Daemons
  <1>2. IsFiniteSet(1..MaxDaemons)
    BY FS_Interval, MaxDaemonsAssumption
  <1> QED BY <1>1, <1>2, FS_Subset, FS_CardinalityType DEF Born

\* Initially nothing runs.
LEMMA InitType == Init => TypeOK
  BY MaxDaemonsAssumption, MaxExitsAssumption
     DEF Init, TypeOK, Process, Call, Connection, Stop,
         Daemons, Stopper, Free, Unborn, DaemonState, NoCall, NoConn, NoStop

\* A call that does nothing, a connection that is not open and a stop that has
\* not begun are of their types.
LEMMA Defaults == NoCall \in Call /\ NoConn \in Connection /\ NoStop \in Stop
  BY MaxDaemonsAssumption DEF NoCall, Call, NoConn, Connection, NoStop, Stop

\* What a process becomes in one step, and what its exit does to the lock.
LEMMA ProcessType ==
  ASSUME TypeOK, NEW d
  PROVE  /\ \A pc \in DaemonState : Become(d, pc) => daemon' \in [Daemons -> Process]
         /\ Report(d, "serving", "ready") => daemon' \in [Daemons -> Process]
         /\ Fails(d) => daemon' \in [Daemons -> Process]
         /\ Dies(d) => daemon' \in [Daemons -> Process] /\ lock' \in 0..Stopper
  <1>1. daemon \in [Daemons -> Process]
    BY DEF TypeOK
  <1>2. ASSUME NEW pc \in DaemonState, Become(d, pc)
        PROVE  daemon' \in [Daemons -> Process]
    BY <1>1, <1>2 DEF Process, Become
  <1>3. Report(d, "serving", "ready") => daemon' \in [Daemons -> Process]
    <2>1. ASSUME NEW x \in Process PROVE [x EXCEPT !.pc = "serving", !.pipe = "ready"] \in Process
      BY DEF Process, DaemonState
    <2>2. d \in Daemons => daemon[d] \in Process
      BY <1>1
    <2> QED BY <1>1, <2>1, <2>2 DEF Report
  <1>4. Exited(d) \in [Daemons -> Process]
    BY <1>1 DEF Process, Exited, DaemonState
  <1>5. ASSUME NEW f \in [Daemons -> Process]
        PROVE  [f EXCEPT ![d].pipe = "error"] \in [Daemons -> Process]
    BY <1>5 DEF Process
  <1>6. Fails(d) => daemon' \in [Daemons -> Process]
    BY <1>4, <1>5 DEF Fails
  <1>7. Dies(d) => lock' \in 0..Stopper
    BY MaxDaemonsAssumption DEF TypeOK, Dies, Free, Stopper
  <1> QED BY <1>2, <1>3, <1>4, <1>6, <1>7 DEF Dies

\* A daemon keeps the types.
LEMMA DaemonStepType ==
  ASSUME TypeOK, NEW d \in Daemons, StartStep(d) \/ LeaveLoop(d) \/ CloseStep(d) \/ Crash(d)
  PROVE  TypeOK'
  <1>0. {"locked", "listening", "draining", "silent"} \subseteq DaemonState
    BY DEF DaemonState
  <1>1. daemon' \in [Daemons -> Process]
    BY <1>0, ProcessType
       DEF StartStep, NewRuntime, StartBridge, WritePID, LeaveLoop, CloseStep,
           CloseBridge, RemovePID, Crash
  <1>2. Free \in 0..Stopper /\ d \in 0..Stopper
    BY MaxDaemonsAssumption DEF Daemons, Stopper, Free
  <1>3. lock' \in 0..Stopper
    BY <1>2, ProcessType
       DEF TypeOK, StartStep, NewRuntime, StartBridge, WritePID, LeaveLoop, CloseStep,
           CloseBridge, RemovePID, Crash, Acquire
  <1>4. socket' \in 0..MaxDaemons /\ marker' \in 0..MaxDaemons /\ exits' \in 0..MaxExits
    BY MaxDaemonsAssumption, MaxExitsAssumption
       DEF TypeOK, StartStep, NewRuntime, StartBridge, WritePID, LeaveLoop, CloseStep,
           CloseBridge, RemovePID, removeDaemonPID, Crash, Daemons
  <1>5. UNCHANGED <<clients, stopper>>
    BY DEF StartStep, NewRuntime, StartBridge, WritePID, LeaveLoop, CloseStep,
           CloseBridge, RemovePID, Crash
  <1> QED BY <1>1, <1>3, <1>4, <1>5 DEF TypeOK, clients

\* What a call becomes when it returns or goes on.
LEMMA CallType ==
  ASSUME TypeOK, NEW c \in Calls
  PROVE  /\ \A pc \in {"dialing", "closing"} : Goto(c, pc) => call' \in [Calls -> Call]
         /\ Returns(c) => call' \in [Calls -> Call]
         /\ GivenBack(c) \in [Calls -> Calls \cup {None}]
         /\ \A retryable : ConnectorFails(c, retryable) =>
                call' \in [Calls -> Call] /\ mu' \in [Calls -> Calls \cup {None}]
  <1>1. call \in [Calls -> Call] /\ mu \in [Calls -> Calls \cup {None}]
    BY DEF TypeOK
  <1>2. ASSUME NEW pc \in {"dialing", "closing"}, Goto(c, pc)
        PROVE  call' \in [Calls -> Call]
    <2>1. ASSUME NEW x \in Call PROVE [x EXCEPT !.pc = pc] \in Call
      BY <1>2 DEF Call
    <2> QED BY <1>1, <1>2, <2>1 DEF Goto
  <1>3. /\ [NoCall EXCEPT !.pc = "done"] \in Call
        /\ [NoCall EXCEPT !.pc = "dialing", !.again = TRUE] \in Call
    BY Defaults DEF Call
  <1>4. Returns(c) => call' \in [Calls -> Call]
    BY <1>1, <1>3 DEF Returns
  <1>5. GivenBack(c) \in [Calls -> Calls \cup {None}]
    BY <1>1 DEF GivenBack, TypeOK
  <1>6. ASSUME NEW retryable, ConnectorFails(c, retryable)
        PROVE  call' \in [Calls -> Call] /\ mu' \in [Calls -> Calls \cup {None}]
    BY <1>1, <1>3, <1>4, <1>5, <1>6 DEF ConnectorFails
  <1> QED BY <1>2, <1>4, <1>5, <1>6

\* Closing retired connections leaves connections.
LEMMA CollectedType ==
  ASSUME NEW cs \in [Calls -> Connection], NEW e
  PROVE  Collected(cs, e) \in [Calls -> Connection]
  <1>1. ASSUME NEW x \in Connection PROVE [x EXCEPT !.state = "closing"] \in Connection
    BY DEF Connection
  <1> QED BY <1>1 DEF Collected

\* A call keeps the types.
LEMMA CallStepType ==
  ASSUME TypeOK, NEW c \in Calls, acquireDaemon(c) \/ CallStep(c)
  PROVE  TypeOK'
  <1>0. /\ call \in [Calls -> Call] /\ conn \in [Calls -> Connection]
        /\ mu \in [Calls -> Calls \cup {None}] /\ current \in [Calls -> Calls \cup {None}]
        /\ executor \in [Calls -> Calls]
    BY DEF TypeOK
  <1>1. CASE acquireDaemon(c)
    <2>1. ASSUME NEW k \in Calls
          PROVE  [call EXCEPT ![c].pc = "using", ![c].conn = k] \in [Calls -> Call]
      <3>1. ASSUME NEW x \in Call PROVE [x EXCEPT !.pc = "using", !.conn = k] \in Call
        BY <2>1 DEF Call
      <3> QED BY <1>0, <3>1
    <2>2. ASSUME NEW k \in Calls
          PROVE  [conn EXCEPT ![k].users = @ \cup {c}] \in [Calls -> Connection]
      <3>1. ASSUME NEW x \in Connection PROVE [x EXCEPT !.users = @ \cup {c}] \in Connection
        BY DEF Connection
      <3> QED BY <1>0, <2>2, <3>1
    <2>3. current[executor[c]] # None => current[executor[c]] \in Calls
      BY <1>0
    <2>4. call' \in [Calls -> Call] /\ conn' \in [Calls -> Connection]
      <3> DEFINE k == current[executor[c]]
      <3>1. CASE (Returns(c) \/ Goto(c, "dialing")) /\ UNCHANGED conn
        BY <1>0, <3>1, CallType
      <3>2. CASE /\ k # None
                 /\ call' = [call EXCEPT ![c].pc = "using", ![c].conn = k]
                 /\ conn' = [conn EXCEPT ![k].users = @ \cup {c}]
        BY <2>1, <2>2, <2>3, <3>2
      <3> QED BY <1>1, <3>1, <3>2 DEF acquireDaemon
    <2>5. mu' \in [Calls -> Calls \cup {None}]
      BY <1>1, <1>0 DEF acquireDaemon
    <2>6. UNCHANGED <<processes, executor, current, closed, stopper>>
      BY <1>1 DEF acquireDaemon
    <2> QED BY <2>4, <2>5, <2>6 DEF TypeOK, processes
  <1>2. CASE Connect(c)
    <2>1. ASSUME NEW d \in 0..MaxDaemons
          PROVE  [NoConn EXCEPT !.state = "open", !.daemon = d] \in Connection
      BY Defaults DEF Connection
    <2>2. [call EXCEPT ![c].pc = "verifying"] \in [Calls -> Call]
      <3>1. ASSUME NEW x \in Call PROVE [x EXCEPT !.pc = "verifying"] \in Call
        BY DEF Call
      <3> QED BY <1>0, <3>1
    <2> QED BY <1>2, <1>0, <2>1, <2>2, AnsweringIs DEF TypeOK, Connect, processes
  <1>3. CASE startDaemonProcess(c)
    <2>1. [call EXCEPT ![c].pc = "polling", ![c].failed = TRUE] \in [Calls -> Call]
      <3>1. ASSUME NEW x \in Call PROVE [x EXCEPT !.pc = "polling", !.failed = TRUE] \in Call
        BY DEF Call
      <3> QED BY <1>0, <3>1
    <2>2. ASSUME NEW b \in 0..MaxDaemons
          PROVE  [call EXCEPT ![c].pc = "starting", ![c].child = b] \in [Calls -> Call]
      <3>1. ASSUME NEW x \in Call PROVE [x EXCEPT !.pc = "starting", !.child = b] \in Call
        BY <2>2 DEF Call
      <3> QED BY <1>0, <3>1
    <2>3. Born < MaxDaemons => Born + 1 \in 0..MaxDaemons
      BY BornType, MaxDaemonsAssumption
    <2>4. daemon' \in [Daemons -> Process]
      <3>1. Become(Born + 1, "forked") \/ UNCHANGED daemon
        BY <1>3 DEF startDaemonProcess, Become
      <3>2. "forked" \in DaemonState
        BY DEF DaemonState
      <3>3. daemon \in [Daemons -> Process]
        BY DEF TypeOK
      <3>4. Become(Born + 1, "forked") => daemon' \in [Daemons -> Process]
        BY <3>2, ProcessType
      <3> QED BY <3>1, <3>3, <3>4
    <2>5. call' \in [Calls -> Call]
      <3>1. CASE call' = [call EXCEPT ![c].pc = "polling", ![c].failed = TRUE]
        BY <2>1, <3>1
      <3>2. CASE Born < MaxDaemons /\ call' = [call EXCEPT ![c].pc = "starting", ![c].child = Born + 1]
        BY <2>2, <2>3, <3>2
      <3> QED BY <1>3, <3>1, <3>2 DEF startDaemonProcess
    <2> QED BY <1>3, <2>4, <2>5 DEF TypeOK, startDaemonProcess
  <1>4. CASE waitForDaemonStartup(c)
    <2>1. /\ [call EXCEPT ![c].pc = "polling", ![c].child = 0] \in [Calls -> Call]
          /\ [call EXCEPT ![c].pc = "polling", ![c].child = 0, ![c].failed = TRUE] \in [Calls -> Call]
      <3>1. 0 \in 0..MaxDaemons
        BY MaxDaemonsAssumption
      <3>2. ASSUME NEW x \in Call, NEW b \in 0..MaxDaemons
            PROVE  /\ [x EXCEPT !.pc = "polling", !.child = b] \in Call
                   /\ [x EXCEPT !.pc = "polling", !.child = b, !.failed = TRUE] \in Call
        BY <3>2 DEF Call
      <3> QED BY <1>0, <3>1, <3>2
    <2>2. daemon' \in [Daemons -> Process] /\ lock' \in 0..Stopper
      BY <1>4, ProcessType DEF TypeOK, waitForDaemonStartup
    <2> QED BY <1>4, <2>1, <2>2 DEF TypeOK, waitForDaemonStartup
  <1>5. CASE ConnectFails(c)
    BY <1>5, CallType DEF TypeOK, ConnectFails, processes
  <1>6. CASE readyBridgeExecutor(c)
    <2>1. [NoCall EXCEPT !.pc = "using", !.conn = c] \in Call
      BY Defaults DEF Call
    <2>2. [conn EXCEPT ![c].users = {c}] \in [Calls -> Connection]
      <3>1. ASSUME NEW x \in Connection PROVE [x EXCEPT !.users = {c}] \in Connection
        BY DEF Connection
      <3> QED BY <1>0, <3>1
    <2>3. call' \in [Calls -> Call] /\ mu' \in [Calls -> Calls \cup {None}]
      BY <1>6, <1>0, <2>1, CallType DEF readyBridgeExecutor
    <2>4. conn' \in [Calls -> Connection] /\ current' \in [Calls -> Calls \cup {None}]
      BY <1>6, <1>0, <2>2, Defaults DEF readyBridgeExecutor
    <2> QED BY <1>6, <2>3, <2>4 DEF TypeOK, readyBridgeExecutor, processes
  <1>7. ASSUME NEW retire \in BOOLEAN, releaseDaemon(c, retire)
        PROVE  TypeOK'
    <2> DEFINE k == call[c].conn
               cs == [conn EXCEPT ![k].users = @ \ {c}, ![k].retired = @ \/ retire]
    <2>1. cs \in [Calls -> Connection]
      <3>1. ASSUME NEW x \in Connection
            PROVE  [x EXCEPT !.users = @ \ {c}, !.retired = @ \/ retire] \in Connection
        BY <1>7 DEF Connection
      <3> QED BY <1>0, <3>1
    <2>2. conn' \in [Calls -> Connection]
      BY <1>7, <2>1, CollectedType DEF releaseDaemon
    <2>3. call' \in [Calls -> Call]
      BY <1>7, CallType DEF releaseDaemon
    <2> QED BY <1>7, <1>0, <2>2, <2>3 DEF TypeOK, releaseDaemon, processes
  <1> QED BY <1>1, <1>2, <1>3, <1>4, <1>5, <1>6, <1>7 DEF CallStep

\* An executor that closes keeps the types.
LEMMA CloseExecutorType ==
  ASSUME TypeOK, NEW e \in {executor[c] : c \in Calls}, CloseExecutor(e)
  PROVE  TypeOK'
  <1> DEFINE k == current[e]
             cs == IF k = None THEN conn ELSE [conn EXCEPT ![k].retired = TRUE]
  <1>1. e \in Calls
    BY DEF TypeOK
  <1>2. [conn EXCEPT ![k].retired = TRUE] \in [Calls -> Connection]
    <2>1. ASSUME NEW x \in Connection PROVE [x EXCEPT !.retired = TRUE] \in Connection
      BY DEF Connection
    <2> QED BY <2>1 DEF TypeOK
  <1>3. cs \in [Calls -> Connection]
    BY <1>2 DEF TypeOK
  <1>4. conn' \in [Calls -> Connection]
    BY <1>3, CollectedType DEF CloseExecutor
  <1> QED BY <1>1, <1>4 DEF TypeOK, CloseExecutor, processes

\* A connection that is closed keeps the types.
LEMMA ClosingType ==
  ASSUME TypeOK, NEW k \in Calls, closeDaemonExecutors(k)
  PROVE  TypeOK'
  <1>1. ASSUME NEW x \in Connection, NEW d \in 0..MaxDaemons
        PROVE  [x EXCEPT !.state = "closed", !.daemon = d] \in Connection
    BY DEF Connection
  <1>2. conn' \in [Calls -> Connection]
    <2>1. conn \in [Calls -> Connection] /\ conn[k] \in Connection
      BY DEF TypeOK
    <2>2. conn[k].daemon \in 0..MaxDaemons /\ 0 \in 0..MaxDaemons
      BY <2>1, MaxDaemonsAssumption DEF Connection
    <2>3. PICK d \in {0, conn[k].daemon} :
                conn' = [conn EXCEPT ![k].state = "closed", ![k].daemon = d]
      BY DEF closeDaemonExecutors
    <2> QED BY <1>1, <2>1, <2>2, <2>3
  <1>3. [NoCall EXCEPT !.pc = "done"] \in Call
    BY Defaults DEF Call
  <1>4. call' \in [Calls -> Call]
    BY <1>3 DEF TypeOK, closeDaemonExecutors
  <1> QED BY <1>2, <1>4 DEF TypeOK, closeDaemonExecutors, processes

\* A stop keeps the types.
LEMMA StopStepType ==
  ASSUME TypeOK, (\E force \in BOOLEAN : StopConnect(force)) \/ StopStep
  PROVE  TypeOK'
  <1>0. ASSUME NEW pc \in {"asking", "waiting", "killed", "cleaning", "unmarking", "failed", "stopped"},
               StopGoto(pc)
        PROVE  stopper' \in Stop
    <2>1. stopper \in Stop
      BY DEF TypeOK
    <2>2. ASSUME NEW s \in Stop PROVE [s EXCEPT !.pc = pc] \in Stop
      BY <2>2 DEF Stop
    <2> QED BY <1>0, <2>1, <2>2, Defaults DEF StopGoto
  <1>1. ASSUME NEW force \in BOOLEAN, StopConnect(force)
        PROVE  TypeOK'
    <2>1. ASSUME NEW d \in 0..MaxDaemons
          PROVE  [stopper EXCEPT !.pc = "connected", !.force = force, !.peer = d] \in Stop
      BY <2>1 DEF TypeOK, Stop
    <2> QED BY <1>1, <1>0, <2>1, AnsweringIs DEF TypeOK, StopConnect, processes, clients
  <1>2. CASE readDaemonPID
    <2>1. [stopper EXCEPT !.pc = "marked", !.target = marker] \in Stop
      BY DEF TypeOK, Stop
    <2> QED BY <1>2, <1>0, <2>1 DEF TypeOK, readDaemonPID, processes, clients
  <1>3. CASE StopStatus \/ daemonProcessExitedMarker
    BY <1>3, <1>0 DEF TypeOK, StopStatus, daemonProcessExitedMarker, AfterError, processes, clients
  <1>4. CASE StopShutdown
    <2>1. [daemon EXCEPT ![stopper.peer].asked = TRUE] \in [Daemons -> Process]
      BY DEF TypeOK, Process
    <2> QED BY <1>4, <1>0, <2>1 DEF TypeOK, StopShutdown, AfterError, clients
  <1>5. CASE StopDeadline
    <2>1. daemon' \in [Daemons -> Process] /\ lock' \in 0..Stopper
      BY <1>5, ProcessType DEF TypeOK, StopDeadline
    <2> QED BY <1>5, <1>0, <2>1 DEF TypeOK, StopDeadline, clients
  <1>6. CASE cleanupStoppedDaemon
    BY <1>6, <1>0, MaxDaemonsAssumption DEF TypeOK, cleanupStoppedDaemon, Stopper, clients
  <1>7. CASE RemoveStoppedSocket \/ RemoveStoppedPID
    BY <1>7, <1>0, MaxDaemonsAssumption
       DEF TypeOK, RemoveStoppedSocket, RemoveStoppedPID, removeDaemonPID, Free, Stopper, clients
  <1> QED BY <1>1, <1>2, <1>3, <1>4, <1>5, <1>6, <1>7 DEF StopStep

LEMMA NextType == TypeOK /\ [Next]_vars => TypeOK'
  <1> SUFFICES ASSUME TypeOK, [Next]_vars PROVE TypeOK'
    OBVIOUS
  <1>1. CASE UNCHANGED vars
    BY <1>1 DEF vars, TypeOK
  <1> QED BY <1>1, DaemonStepType, CallStepType, ClosingType, CloseExecutorType, StopStepType DEF Next

-----------------------------------------------------------------------------
(* Daemons are born in order *)

\* The next number belongs to a daemon that was never born, and all the
\* numbers before it to daemons that were.
LEMMA NextBorn ==
  ASSUME TypeOK, BornInOrder, Born < MaxDaemons
  PROVE  /\ Born + 1 \in Daemons
         /\ daemon[Born + 1].pc = "unborn"
         /\ \A e \in Daemons : e < Born + 1 => daemon[e].pc # "unborn"
  <1> DEFINE B == {d \in Daemons : daemon[d].pc # "unborn"}
  <1>1. Born = Cardinality(B) /\ Born \in Nat
    BY BornType DEF Born
  <1>2. ASSUME NEW n \in Nat PROVE IsFiniteSet(1..n) /\ Cardinality(1..n) = n
    <2>1. 1 \in Int /\ n \in Int
      BY <1>2
    <2> QED BY <1>2, <2>1, FS_Interval
  <1>3. B \subseteq 1..MaxDaemons /\ IsFiniteSet(B)
    <2>1. B \in SUBSET (1..MaxDaemons)
      BY DEF Daemons
    <2> QED BY <2>1, <1>2, MaxDaemonsAssumption, FS_Subset
  <1>4. Born + 1 \in Daemons
    BY <1>1, MaxDaemonsAssumption DEF Daemons
  <1>5. daemon[Born + 1].pc = "unborn"
    <2> SUFFICES ASSUME daemon[Born + 1].pc # "unborn" PROVE FALSE
      OBVIOUS
    <2>1. 1..(Born + 1) \subseteq B
      <3> SUFFICES ASSUME NEW d \in 1..(Born + 1) PROVE d \in Daemons /\ daemon[d].pc # "unborn"
        OBVIOUS
      <3>1. d \in Daemons /\ (d < Born + 1 \/ d = Born + 1)
        BY <1>1, <1>4, MaxDaemonsAssumption DEF Daemons
      <3> QED BY <3>1, <1>4 DEF BornInOrder
    <2>2. Cardinality(1..(Born + 1)) <= Cardinality(B)
      BY <2>1, <1>3, FS_Subset
    <2>3. Cardinality(1..(Born + 1)) = Born + 1
      BY <1>1, <1>2
    <2> QED BY <2>2, <2>3, <1>1
  <1>6. ASSUME NEW e \in Daemons, e < Born + 1, daemon[e].pc = "unborn"
        PROVE  FALSE
    <2>1. B \subseteq 1..(e - 1)
      <3> SUFFICES ASSUME NEW d \in B PROVE d \in 1..(e - 1)
        OBVIOUS
      <3>1. d \in Daemons /\ daemon[d].pc # "unborn"
        OBVIOUS
      <3>2. ~(e < d) /\ d # e
        BY <3>1, <1>6 DEF BornInOrder
      <3> QED BY <3>1, <3>2, MaxDaemonsAssumption DEF Daemons
    <2>2. e - 1 \in Nat
      BY MaxDaemonsAssumption DEF Daemons
    <2>3. Cardinality(B) <= Cardinality(1..(e - 1))
      BY <2>1, <2>2, <1>2, FS_Subset
    <2>4. Cardinality(1..(e - 1)) = e - 1
      BY <2>2, <1>2
    <2>5. Born <= e - 1
      BY <2>3, <2>4, <1>1
    <2> QED BY <2>2, <2>5, <1>1, <1>6, MaxDaemonsAssumption DEF Daemons
  <1> QED BY <1>4, <1>5, <1>6

-----------------------------------------------------------------------------
(* Processes: one action at a time *)

\* The process d goes to pc; who was asked to shut down still is, or is dead.
Moves(d, pc) ==
    /\ \A e \in Daemons : daemon'[e].pc = IF e = d THEN pc ELSE daemon[e].pc
    /\ \A e \in Daemons : daemon[e].asked => daemon'[e].asked \/ daemon'[e].pc = "dead"

\* Every way for a process to go on is a move.
LEMMA ProcessMoves ==
  ASSUME TypeOK, NEW d \in Daemons
  PROVE  /\ \A pc : Become(d, pc) => Moves(d, pc)
         /\ \A pc, pipe : Report(d, pc, pipe) => Moves(d, pc)
         /\ Fails(d) => Moves(d, "dead")
         /\ Dies(d) => Moves(d, "dead") /\ lock' = IF lock = d THEN Free ELSE lock
  <1>1. daemon \in [Daemons -> Process]
    BY DEF TypeOK
  <1>2. ASSUME NEW e \in Daemons
        PROVE  /\ Exited(d)[e].pc = IF e = d THEN "dead" ELSE daemon[e].pc
               /\ [Exited(d) EXCEPT ![d].pipe = "error"][e].pc
                    = IF e = d THEN "dead" ELSE daemon[e].pc
               /\ e # d => Exited(d)[e].asked = daemon[e].asked
               /\ e # d => [Exited(d) EXCEPT ![d].pipe = "error"][e].asked = daemon[e].asked
    BY <1>1, <1>2 DEF Exited, Process
  <1>3. ASSUME NEW pc, Become(d, pc) PROVE Moves(d, pc)
    BY <1>1, <1>3 DEF Become, Moves, Process
  <1>4. ASSUME NEW pc, NEW pipe, Report(d, pc, pipe) PROVE Moves(d, pc)
    BY <1>1, <1>4 DEF Report, Moves, Process
  <1>5. Fails(d) => Moves(d, "dead")
    BY <1>2 DEF Fails, Moves
  <1>6. Dies(d) => Moves(d, "dead")
    BY <1>2 DEF Dies, Moves
  <1> QED BY <1>3, <1>4, <1>5, <1>6 DEF Dies

\* A move of a process that lives, made with the clients and the stopper as they
\* are, keeps what they know.
LEMMA MoveKeepsKnown ==
  ASSUME ProcessInv, NEW d \in Daemons, NEW pc, Moves(d, pc), pc # "unborn",
         daemon[d].pc \notin {"unborn", "dead"}, UNCHANGED <<call, stopper>>,
         marker' \in {0, d, marker}
  PROVE  BornInOrder' /\ KnownAreBorn' /\ StopSaw'
  <1>1. BornInOrder'
    BY DEF ProcessInv, BornInOrder, Moves
  <1>2. \A e \in Daemons : IsBorn(e) => IsBorn(e)'
    BY DEF IsBorn, Moves
  <1>3. 0 \notin Daemons /\ \A e \in 0..MaxDaemons : e # 0 => e \in Daemons
    BY MaxDaemonsAssumption DEF Daemons
  <1>4. stopper.peer \in 0..MaxDaemons /\ stopper.target \in 0..MaxDaemons
        /\ marker \in 0..MaxDaemons /\ \A c \in Calls : call[c].child \in 0..MaxDaemons
    BY DEF ProcessInv, TypeOK, Stop, Call
  <1>5. KnownAreBorn'
    BY <1>2, <1>3, <1>4 DEF ProcessInv, KnownAreBorn, IsBorn, Moves
  <1>6. \A e \in Daemons : Dead(e) => Dead(e)'
    BY DEF Dead, Is, Moves
  <1>7. StopSaw'
    BY <1>3, <1>4, <1>6 DEF ProcessInv, StopSaw, Dead, Is, Moves, KnownAreBorn, IsBorn
  <1> QED BY <1>1, <1>5, <1>7

\* Each step of a daemon keeps the lock, the socket and the marker in order.
LEMMA DaemonStepInv ==
  ASSUME ProcessInv, NEW d \in Daemons,
         StartStep(d) \/ LeaveLoop(d) \/ CloseStep(d) \/ Crash(d)
  PROVE  ProcessInv'
  <1>0. /\ TypeOK /\ TypeOK' /\ d # 0 /\ d # Stopper /\ Free # d /\ Free # Stopper
        /\ 0 \notin Daemons /\ Stopper \notin Daemons
    BY DaemonStepType, MaxDaemonsAssumption DEF ProcessInv, Daemons, Stopper, Free
  <1>1. UNCHANGED <<clients, stopper>>
    BY DEF StartStep, NewRuntime, StartBridge, WritePID, LeaveLoop, CloseStep,
           CloseBridge, RemovePID, Crash
  <1> USE DEF LockIsHeld, SocketIsHolders, MarkerIsHolders, Holding
  <1>2. CASE NewRuntime(d)
    <2>1. CASE Acquire(d) /\ Moves(d, "locked")
      <3>1. LockIsHeld' /\ SocketIsHolders' /\ MarkerIsHolders'
        BY <1>0, <1>1, <1>2, <2>1 DEF ProcessInv, NewRuntime, Acquire, Moves, Free
      <3>2. BornInOrder' /\ KnownAreBorn' /\ StopSaw'
        BY <1>1, <1>2, <2>1, MoveKeepsKnown DEF NewRuntime, clients
      <3> QED BY <1>0, <3>1, <3>2 DEF ProcessInv
    <2>2. CASE Moves(d, "dead") /\ UNCHANGED lock
      <3>1. LockIsHeld' /\ SocketIsHolders' /\ MarkerIsHolders'
        BY <1>0, <1>1, <1>2, <2>2 DEF ProcessInv, NewRuntime, Moves
      <3>2. BornInOrder' /\ KnownAreBorn' /\ StopSaw'
        BY <1>1, <1>2, <2>2, MoveKeepsKnown DEF NewRuntime, clients
      <3> QED BY <1>0, <3>1, <3>2 DEF ProcessInv
    <2> QED BY <1>0, <1>2, <2>1, <2>2, ProcessMoves DEF NewRuntime
  <1>3. CASE StartBridge(d)
    <2>1. CASE Moves(d, "dead") /\ lock' = Free /\ UNCHANGED socket
      <3>1. LockIsHeld' /\ SocketIsHolders' /\ MarkerIsHolders'
        BY <1>0, <1>1, <1>3, <2>1 DEF ProcessInv, StartBridge, Moves, Free
      <3>2. BornInOrder' /\ KnownAreBorn' /\ StopSaw'
        BY <1>1, <1>3, <2>1, MoveKeepsKnown DEF StartBridge, clients
      <3> QED BY <1>0, <3>1, <3>2 DEF ProcessInv
    <2>2. CASE Moves(d, "listening") /\ socket' = d /\ UNCHANGED lock
      <3>1. LockIsHeld' /\ SocketIsHolders' /\ MarkerIsHolders'
        BY <1>0, <1>1, <1>3, <2>2 DEF ProcessInv, StartBridge, Moves
      <3>2. BornInOrder' /\ KnownAreBorn' /\ StopSaw'
        BY <1>1, <1>3, <2>2, MoveKeepsKnown DEF StartBridge, clients
      <3> QED BY <1>0, <3>1, <3>2 DEF ProcessInv
    <2> QED BY <1>0, <1>3, <2>1, <2>2, ProcessMoves DEF StartBridge
  <1>4. CASE WritePID(d)
    <2>1. CASE Moves(d, "serving") /\ marker' = d /\ UNCHANGED <<lock, socket>>
      <3>1. LockIsHeld' /\ SocketIsHolders' /\ MarkerIsHolders'
        BY <1>0, <1>1, <1>4, <2>1 DEF ProcessInv, WritePID, Moves
      <3>2. BornInOrder' /\ KnownAreBorn' /\ StopSaw'
        BY <1>1, <1>4, <2>1, MoveKeepsKnown DEF WritePID, clients
      <3> QED BY <1>0, <3>1, <3>2 DEF ProcessInv
    <2>2. CASE Moves(d, "dead") /\ socket' = 0 /\ lock' = Free /\ UNCHANGED marker
      <3>1. LockIsHeld' /\ SocketIsHolders' /\ MarkerIsHolders'
        BY <1>0, <1>1, <1>4, <2>2 DEF ProcessInv, WritePID, Moves, Free
      <3>2. BornInOrder' /\ KnownAreBorn' /\ StopSaw'
        BY <1>1, <1>4, <2>2, MoveKeepsKnown DEF WritePID, clients
      <3> QED BY <1>0, <3>1, <3>2 DEF ProcessInv
    <2> QED BY <1>0, <1>4, <2>1, <2>2, ProcessMoves DEF WritePID
  <1>5. CASE LeaveLoop(d)
    <2>1. Moves(d, "draining")
      BY <1>0, <1>5, ProcessMoves DEF LeaveLoop
    <2>2. LockIsHeld' /\ SocketIsHolders' /\ MarkerIsHolders'
      BY <1>0, <1>1, <1>5, <2>1 DEF ProcessInv, LeaveLoop, Moves
    <2>3. BornInOrder' /\ KnownAreBorn' /\ StopSaw'
      BY <1>1, <1>5, <2>1, MoveKeepsKnown DEF LeaveLoop, clients
    <2> QED BY <1>0, <2>2, <2>3 DEF ProcessInv
  <1>6. CASE CloseBridge(d)
    <2>1. Moves(d, "silent")
      BY <1>0, <1>6, ProcessMoves DEF CloseBridge
    <2>2. LockIsHeld' /\ SocketIsHolders' /\ MarkerIsHolders'
      BY <1>0, <1>1, <1>6, <2>1 DEF ProcessInv, CloseBridge, Moves
    <2>3. BornInOrder' /\ KnownAreBorn' /\ StopSaw'
      BY <1>1, <1>6, <2>1, MoveKeepsKnown DEF CloseBridge, clients
    <2> QED BY <1>0, <2>2, <2>3 DEF ProcessInv
  <1>7. CASE RemovePID(d) \/ Crash(d)
    <2>1. Moves(d, "dead") /\ lock' = (IF lock = d THEN Free ELSE lock) /\ UNCHANGED socket
      BY <1>0, <1>7, ProcessMoves DEF RemovePID, Crash
    <2>2. marker' \in {0, marker} /\ (marker' # marker => daemon[d].pc = "silent")
          /\ daemon[d].pc \notin {"unborn", "dead"}
      BY <1>7 DEF RemovePID, Crash, removeDaemonPID
    <2>3. LockIsHeld' /\ SocketIsHolders' /\ MarkerIsHolders'
      BY <1>0, <1>1, <2>1, <2>2 DEF ProcessInv, Moves, Free
    <2>4. BornInOrder' /\ KnownAreBorn' /\ StopSaw'
      BY <1>1, <2>1, <2>2, MoveKeepsKnown DEF clients
    <2> QED BY <1>0, <2>3, <2>4 DEF ProcessInv
  <1> QED BY <1>2, <1>3, <1>4, <1>5, <1>6, <1>7 DEF StartStep, CloseStep

\* A step of calls and executors that starts no daemon does not concern the
\* processes.
LEMMA ClientsOnly ==
  ASSUME ProcessInv, TypeOK', UNCHANGED <<processes, stopper>>,
         \A c \in Calls : call'[c].pc = "starting" => call'[c] = call[c]
  PROVE  ProcessInv'
  <1> USE DEF processes
  <1>1. LockIsHeld' /\ SocketIsHolders' /\ MarkerIsHolders'
    BY DEF ProcessInv, LockIsHeld, SocketIsHolders, MarkerIsHolders
  <1>2. BornInOrder' /\ StopSaw'
    BY DEF ProcessInv, BornInOrder, StopSaw, Dead, Is
  <1>3. KnownAreBorn'
    BY DEF ProcessInv, KnownAreBorn, IsBorn
  <1> QED BY <1>1, <1>2, <1>3 DEF ProcessInv

\* Where calls go when they neither start a daemon nor wait for one.
LEMMA CallGoes ==
  ASSUME TypeOK, NEW c \in Calls,
         \/ acquireDaemon(c) \/ Connect(c) \/ ConnectFails(c) \/ readyBridgeExecutor(c)
         \/ \E retire \in BOOLEAN : releaseDaemon(c, retire)
  PROVE  /\ UNCHANGED <<processes, stopper>>
         /\ \A b \in Calls : b # c => call'[b] = call[b]
         /\ call'[c].pc # "starting"
  <1>0. call \in [Calls -> Call] /\ NoCall \in Call
    BY Defaults DEF TypeOK
  <1>1. /\ [NoCall EXCEPT !.pc = "done"].pc = "done"
        /\ [NoCall EXCEPT !.pc = "dialing", !.again = TRUE].pc = "dialing"
        /\ [NoCall EXCEPT !.pc = "using", !.conn = c].pc = "using"
    BY <1>0 DEF Call
  <1>2. Returns(c) => (\A b \in Calls : b # c => call'[b] = call[b]) /\ call'[c].pc = "done"
    BY <1>0, <1>1 DEF Returns
  <1>3. ASSUME NEW retryable, ConnectorFails(c, retryable)
        PROVE  (\A b \in Calls : b # c => call'[b] = call[b]) /\ call'[c].pc # "starting"
    BY <1>0, <1>1, <1>2, <1>3 DEF ConnectorFails
  <1>4. CASE acquireDaemon(c)
    BY <1>0, <1>2, <1>4 DEF acquireDaemon, Goto, Call
  <1>5. CASE Connect(c)
    BY <1>0, <1>5 DEF Connect, Call
  <1>6. CASE ConnectFails(c)
    BY <1>3, <1>6 DEF ConnectFails
  <1>7. CASE readyBridgeExecutor(c)
    BY <1>0, <1>1, <1>3, <1>7 DEF readyBridgeExecutor
  <1>8. CASE \E retire \in BOOLEAN : releaseDaemon(c, retire)
    BY <1>0, <1>2, <1>8 DEF releaseDaemon, Goto, Call
  <1> QED BY <1>4, <1>5, <1>6, <1>7, <1>8

\* A daemon is forked that was never born.
LEMMA StartDaemonInv ==
  ASSUME ProcessInv, NEW c \in Calls, startDaemonProcess(c)
  PROVE  ProcessInv'
  <1>0. /\ TypeOK /\ TypeOK' /\ call \in [Calls -> Call]
        /\ UNCHANGED <<lock, socket, marker, exits, stopper>>
    BY CallStepType DEF ProcessInv, TypeOK, CallStep, startDaemonProcess
  <1>1. CASE UNCHANGED daemon /\ call' = [call EXCEPT ![c].pc = "polling", ![c].failed = TRUE]
    <2>1. \A b \in Calls : call'[b].pc = "starting" => call'[b] = call[b]
      BY <1>0, <1>1 DEF Call
    <2> QED BY <1>0, <1>1, <2>1, ClientsOnly DEF processes
  <1>2. CASE /\ Born < MaxDaemons /\ daemon' = [daemon EXCEPT ![Born + 1].pc = "forked"]
             /\ call' = [call EXCEPT ![c].pc = "starting", ![c].child = Born + 1]
    <2> DEFINE d == Born + 1
    <2>1. /\ d \in Daemons /\ daemon[d].pc = "unborn"
          /\ \A e \in Daemons : e < d => daemon[e].pc # "unborn"
      BY <1>2, NextBorn DEF ProcessInv
    <2> HIDE DEF d
    <2>2. Moves(d, "forked")
      <3>1. Become(d, "forked")
        BY <1>2 DEF Become, d
      <3> QED BY <1>0, <2>1, <3>1, ProcessMoves
    <2>3. LockIsHeld' /\ SocketIsHolders' /\ MarkerIsHolders'
      BY <1>0, <2>1, <2>2
         DEF ProcessInv, LockIsHeld, SocketIsHolders, MarkerIsHolders, Holding, Moves
    <2>4. BornInOrder'
      BY <2>1, <2>2, MaxDaemonsAssumption DEF ProcessInv, BornInOrder, Moves, Daemons
    <2>5. 0 \notin Daemons /\ \A e \in 0..MaxDaemons : e # 0 => e \in Daemons
      BY MaxDaemonsAssumption DEF Daemons
    <2>6. /\ stopper.peer \in 0..MaxDaemons /\ stopper.target \in 0..MaxDaemons
          /\ marker \in 0..MaxDaemons /\ \A b \in Calls : call[b].child \in 0..MaxDaemons
      BY <1>0 DEF TypeOK, Stop, Call
    <2>7. \A e \in Daemons : (IsBorn(e) => IsBorn(e)') /\ (Dead(e) => Dead(e)')
      BY <2>1, <2>2 DEF IsBorn, Moves, Dead, Is
    <2>8. /\ call'[c].child = d
          /\ \A b \in Calls : b # c => call'[b] = call[b]
      BY <1>0, <1>2 DEF Call, d
    <2>9. KnownAreBorn'
      BY <1>0, <2>1, <2>2, <2>5, <2>6, <2>7, <2>8 DEF ProcessInv, KnownAreBorn, IsBorn, Moves
    <2>10. StopSaw'
      BY <1>0, <2>1, <2>2, <2>5, <2>6, <2>7
         DEF ProcessInv, StopSaw, KnownAreBorn, IsBorn, Moves, Dead, Is
    <2> QED BY <1>0, <2>3, <2>4, <2>9, <2>10 DEF ProcessInv
  <1> QED BY <1>1, <1>2 DEF startDaemonProcess

\* A process that is killed while it lives loses the lock it may have; its files
\* stay.
LEMMA KillInv ==
  ASSUME ProcessInv, NEW d \in Daemons, Dies(d), daemon[d].pc \notin {"unborn", "dead"},
         UNCHANGED <<socket, marker>>
  PROVE  /\ Moves(d, "dead")
         /\ \A e \in Daemons : daemon'[e].pc \in Holding <=> lock' = e
         /\ lock' = Stopper <=> lock = Stopper
         /\ SocketIsHolders' /\ MarkerIsHolders' /\ BornInOrder'
         /\ \A e \in Daemons : (IsBorn(e) => IsBorn(e)') /\ (Dead(e) => Dead(e)')
  <1>0. Free \notin Daemons /\ Stopper \notin Daemons /\ Free # Stopper
    BY MaxDaemonsAssumption DEF Daemons, Free, Stopper
  <1>1. Moves(d, "dead") /\ lock' = IF lock = d THEN Free ELSE lock
    BY ProcessMoves DEF ProcessInv
  <1>2. /\ \A e \in Daemons : daemon'[e].pc \in Holding <=> lock' = e
        /\ lock' = Stopper <=> lock = Stopper
    BY <1>0, <1>1 DEF ProcessInv, LockIsHeld, Holding, Moves
  <1>3. SocketIsHolders' /\ MarkerIsHolders' /\ BornInOrder'
    BY <1>1 DEF ProcessInv, SocketIsHolders, MarkerIsHolders, BornInOrder, Moves
  <1>4. \A e \in Daemons : (IsBorn(e) => IsBorn(e)') /\ (Dead(e) => Dead(e)')
    BY <1>1 DEF IsBorn, Dead, Is, Moves
  <1> QED BY <1>1, <1>2, <1>3, <1>4

\* The numbers somebody has are numbers of daemons or 0.
LEMMA KnownNumbers ==
  ASSUME TypeOK
  PROVE  /\ 0 \notin Daemons /\ \A e \in 0..MaxDaemons : e # 0 => e \in Daemons
         /\ stopper.peer \in 0..MaxDaemons /\ stopper.target \in 0..MaxDaemons
         /\ marker \in 0..MaxDaemons /\ \A b \in Calls : call[b].child \in 0..MaxDaemons
  <1>1. 0 \notin Daemons /\ \A e \in 0..MaxDaemons : e # 0 => e \in Daemons
    BY MaxDaemonsAssumption DEF Daemons
  <1> QED BY <1>1 DEF TypeOK, Stop, Call

\* The start is awaited, or the child is killed when the time is up.
LEMMA AwaitStartInv ==
  ASSUME ProcessInv, NEW c \in Calls, waitForDaemonStartup(c)
  PROVE  ProcessInv'
  <1>0. /\ TypeOK /\ TypeOK' /\ call \in [Calls -> Call]
        /\ UNCHANGED <<socket, marker, exits, stopper>>
    BY CallStepType DEF ProcessInv, TypeOK, CallStep, waitForDaemonStartup
  <1>1. /\ \A b \in Calls : b # c => call'[b] = call[b]
        /\ call'[c].pc = "polling"
    BY <1>0 DEF waitForDaemonStartup, Call
  <1>2. CASE UNCHANGED <<daemon, lock>>
    BY <1>0, <1>1, <1>2, ClientsOnly DEF processes
  <1>3. CASE ~Dead(call[c].child) /\ Dies(call[c].child)
    <2>1. call[c].pc = "starting"
      BY DEF waitForDaemonStartup
    <2>2. call[c].child \in Daemons /\ daemon[call[c].child].pc \notin {"unborn", "dead"}
      BY <1>0, <1>3, <2>1, KnownNumbers DEF ProcessInv, KnownAreBorn, IsBorn, Dead, Is
    <2>3. PICK d \in Daemons : d = call[c].child
      BY <2>2
    <2>4. /\ Moves(d, "dead") /\ LockIsHeld'
          /\ SocketIsHolders' /\ MarkerIsHolders' /\ BornInOrder'
          /\ \A e \in Daemons : (IsBorn(e) => IsBorn(e)') /\ (Dead(e) => Dead(e)')
      BY <1>0, <1>3, <2>2, <2>3, KillInv DEF ProcessInv, LockIsHeld
    <2>5. KnownAreBorn'
      BY <1>0, <1>1, <2>4, KnownNumbers DEF ProcessInv, KnownAreBorn, IsBorn
    <2>6. StopSaw'
      BY <1>0, <2>4, KnownNumbers
         DEF ProcessInv, StopSaw, KnownAreBorn, IsBorn, Moves, Dead, Is
    <2> QED BY <1>0, <2>4, <2>5, <2>6 DEF ProcessInv
  <1> QED BY <1>2, <1>3 DEF waitForDaemonStartup

\* Calls and executors.
LEMMA ClientStepInv ==
  ASSUME ProcessInv,
         \/ \E c \in Calls : acquireDaemon(c) \/ CallStep(c) \/ closeDaemonExecutors(c)
         \/ \E e \in {executor[c] : c \in Calls} : CloseExecutor(e)
  PROVE  ProcessInv'
  <1>0. TypeOK
    BY DEF ProcessInv
  <1>1. ASSUME NEW c \in Calls, acquireDaemon(c) \/ CallStep(c)
        PROVE  ProcessInv'
    <2>1. CASE \/ acquireDaemon(c) \/ Connect(c) \/ ConnectFails(c) \/ readyBridgeExecutor(c)
               \/ \E retire \in BOOLEAN : releaseDaemon(c, retire)
      BY <1>0, <1>1, <2>1, CallGoes, CallStepType, ClientsOnly
    <2> QED BY <1>1, <2>1, StartDaemonInv, AwaitStartInv DEF CallStep
  <1>2. ASSUME NEW e \in {executor[c] : c \in Calls}, CloseExecutor(e)
        PROVE  ProcessInv'
    BY <1>0, <1>2, CloseExecutorType, ClientsOnly DEF CloseExecutor
  <1>3. ASSUME NEW k \in Calls, closeDaemonExecutors(k)
        PROVE  ProcessInv'
    <2>1. [NoCall EXCEPT !.pc = "done"].pc = "done"
      BY Defaults DEF Call
    <2>2. \A c \in Calls : call'[c].pc = "starting" => call'[c] = call[c]
      BY <1>3, <2>1 DEF closeDaemonExecutors
    <2> QED BY <1>0, <1>3, <2>2, ClosingType, ClientsOnly DEF closeDaemonExecutors
  <1> QED BY <1>1, <1>2, <1>3

\* A stop that goes on remembers what it knows.
LEMMA StopGoes ==
  ASSUME TypeOK, NEW pc, StopGoto(pc)
  PROVE  /\ stopper'.pc = pc
         /\ pc # "failed" => /\ stopper'.force = stopper.force /\ stopper'.peer = stopper.peer
                             /\ stopper'.target = stopper.target
  <1>1. stopper \in Stop /\ NoStop \in Stop
    BY Defaults DEF TypeOK
  <1>2. ASSUME NEW s \in Stop
        PROVE  /\ [s EXCEPT !.pc = pc].pc = pc /\ [s EXCEPT !.pc = pc].force = s.force
               /\ [s EXCEPT !.pc = pc].peer = s.peer /\ [s EXCEPT !.pc = pc].target = s.target
    BY <1>2 DEF Stop
  <1>3. CASE pc = "failed"
    <2>1. stopper' = [NoStop EXCEPT !.pc = pc]
      BY <1>3 DEF StopGoto
    <2> QED BY <1>1, <1>2, <1>3, <2>1
  <1>4. CASE pc # "failed"
    <2>1. stopper' = [stopper EXCEPT !.pc = pc]
      BY <1>4 DEF StopGoto
    <2> QED BY <1>1, <1>2, <1>4, <2>1
  <1> QED BY <1>3, <1>4

\* A step of the stopper that leaves the processes alone.
LEMMA StopperOnly ==
  ASSUME ProcessInv, TypeOK', UNCHANGED <<daemon, lock, clients>>,
         socket' = socket, marker' = marker,
         stopper'.pc \in {"cleaning", "unmarking"} <=> stopper.pc \in {"cleaning", "unmarking"},
         KnownAreBorn', StopSaw'
  PROVE  ProcessInv'
  <1>1. LockIsHeld' /\ SocketIsHolders' /\ MarkerIsHolders' /\ BornInOrder'
    BY DEF ProcessInv, LockIsHeld, SocketIsHolders, MarkerIsHolders, BornInOrder
  <1> QED BY <1>1 DEF ProcessInv

\* Each step of a stop.
LEMMA StopStepInv ==
  ASSUME ProcessInv, (\E force \in BOOLEAN : StopConnect(force)) \/ StopStep
  PROVE  ProcessInv'
  <1>0. TypeOK /\ TypeOK' /\ UNCHANGED clients /\ stopper \in Stop
    BY StopStepType
       DEF ProcessInv, TypeOK, StopConnect, StopStep, readDaemonPID, StopStatus, StopShutdown,
           daemonProcessExitedMarker, StopDeadline, cleanupStoppedDaemon, RemoveStoppedSocket,
           RemoveStoppedPID
  <1> USE DEF processes, clients
  <1>1. ASSUME NEW force \in BOOLEAN, StopConnect(force)
        PROVE  ProcessInv'
    <2>1. CASE StopGoto("failed")
      <3>1. stopper'.pc = "failed" /\ stopper.pc = "idle" /\ UNCHANGED processes
        BY <1>0, <1>1, <2>1, StopGoes DEF StopConnect
      <3> QED BY <1>0, <3>1, StopperOnly DEF ProcessInv, KnownAreBorn, IsBorn, StopSaw
    <2>2. CASE /\ Answering # 0
               /\ stopper' = [stopper EXCEPT !.pc = "connected", !.force = force, !.peer = Answering]
      <3>1. IsBorn(Answering)
        BY <1>0, <2>2, AnsweringIs DEF IsBorn
      <3>2. stopper'.pc = "connected" /\ stopper'.peer = Answering
        BY <1>0, <2>2 DEF Stop
      <3>3. IsBorn(stopper.peer)'
        BY <1>1, <3>1, <3>2 DEF StopConnect, IsBorn
      <3> QED BY <1>0, <1>1, <3>2, <3>3, StopperOnly
              DEF ProcessInv, StopConnect, KnownAreBorn, IsBorn, StopSaw
    <2> QED BY <1>1, <2>1, <2>2 DEF StopConnect
  <1>2. CASE readDaemonPID
    <2>1. CASE StopGoto("failed")
      BY <1>0, <1>2, <2>1, StopGoes, StopperOnly
         DEF ProcessInv, readDaemonPID, KnownAreBorn, IsBorn, StopSaw
    <2>2. CASE marker # 0 /\ stopper' = [stopper EXCEPT !.pc = "marked", !.target = marker]
      <3>1. /\ stopper'.pc = "marked" /\ stopper'.target = marker /\ stopper'.peer = stopper.peer
            /\ stopper.pc = "connected"
        BY <1>0, <1>2, <2>2 DEF Stop, readDaemonPID
      <3> QED BY <1>0, <1>2, <2>2, <3>1, StopperOnly
              DEF ProcessInv, readDaemonPID, KnownAreBorn, IsBorn, StopSaw
    <2> QED BY <1>2, <2>1, <2>2 DEF readDaemonPID
  <1>3. CASE StopStatus
    <2>1. \/ StopGoto("failed") \/ StopGoto("asking")
          \/ (StopGoto("waiting") /\ stopper.force)
      BY <1>3 DEF StopStatus, AfterError
    <2> QED BY <1>0, <1>3, <2>1, StopGoes, StopperOnly
            DEF ProcessInv, StopStatus, KnownAreBorn, IsBorn, StopSaw
  <1>4. CASE daemonProcessExitedMarker
    <2>1. KnownAreBorn'
      BY <1>0, <1>4, StopGoes DEF ProcessInv, daemonProcessExitedMarker, KnownAreBorn, IsBorn
    <2>2. StopSaw'
      BY <1>0, <1>4, StopGoes DEF ProcessInv, daemonProcessExitedMarker, StopSaw, Dead, Is
    <2> QED BY <1>0, <1>4, <2>1, <2>2, StopGoes, StopperOnly DEF daemonProcessExitedMarker
  <1>5. CASE StopShutdown
    <2>1. CASE UNCHANGED daemon /\ StopGoto(AfterError)
      <3>1. StopGoto("failed") \/ (StopGoto("waiting") /\ stopper.force)
        BY <2>1 DEF AfterError
      <3> QED BY <1>0, <1>5, <2>1, <3>1, StopGoes, StopperOnly
              DEF ProcessInv, StopShutdown, KnownAreBorn, IsBorn, StopSaw
    <2>2. CASE daemon' = [daemon EXCEPT ![stopper.peer].asked = TRUE] /\ StopGoto("waiting")
      <3>1. stopper.peer \in Daemons /\ stopper.pc = "asking"
        BY <1>0, <1>5, KnownNumbers DEF ProcessInv, StopShutdown, KnownAreBorn, IsBorn
      <3>2. /\ \A e \in Daemons : daemon'[e].pc = daemon[e].pc
            /\ daemon'[stopper.peer].asked
        BY <1>0, <2>2, <3>1 DEF TypeOK, Process
      <3>3. /\ stopper'.pc = "waiting" /\ stopper'.peer = stopper.peer
            /\ stopper'.target = stopper.target
        BY <1>0, <2>2, StopGoes
      <3>4. UNCHANGED <<lock, socket, marker>>
        BY <1>5 DEF StopShutdown
      <3>5. LockIsHeld' /\ SocketIsHolders' /\ MarkerIsHolders' /\ BornInOrder'
        BY <3>1, <3>2, <3>3, <3>4
           DEF ProcessInv, LockIsHeld, SocketIsHolders, MarkerIsHolders, BornInOrder
      <3>6. KnownAreBorn'
        BY <1>0, <3>1, <3>2, <3>3, <3>4, KnownNumbers DEF ProcessInv, KnownAreBorn, IsBorn
      <3>7. StopSaw'
        BY <3>2, <3>3 DEF StopSaw
      <3> QED BY <1>0, <3>5, <3>6, <3>7 DEF ProcessInv
    <2> QED BY <1>5, <2>1, <2>2 DEF StopShutdown
  <1>6. CASE StopDeadline
    <2>1. CASE StopGoto("failed") /\ UNCHANGED <<daemon, lock>>
      BY <1>0, <1>6, <2>1, StopGoes, StopperOnly
         DEF ProcessInv, StopDeadline, KnownAreBorn, IsBorn, StopSaw
    <2>2. CASE stopper.force /\ StopGoto("killed")
      <3>1. /\ stopper.target \in Daemons /\ stopper.pc = "waiting"
            /\ daemon[stopper.target].pc # "unborn"
        BY <1>0, <1>6, KnownNumbers DEF ProcessInv, StopDeadline, KnownAreBorn, IsBorn
      <3>2. PICK d \in Daemons : d = stopper.target
        BY <3>1
      <3>3. /\ stopper'.pc = "killed" /\ stopper'.peer = stopper.peer
            /\ stopper'.target = d /\ stopper'.force = TRUE
        <4>1. stopper.force = TRUE
          BY <1>0, <2>2 DEF Stop
        <4>2. /\ stopper'.pc = "killed" /\ stopper'.peer = stopper.peer
              /\ stopper'.target = stopper.target /\ stopper'.force = stopper.force
          <5>1. StopGoto("killed")
            BY <2>2
          <5> QED BY <1>0, <5>1, StopGoes
        <4> QED BY <3>2, <4>1, <4>2
      <3>4. CASE Dead(d) /\ UNCHANGED <<daemon, lock>>
        <4>1. KnownAreBorn'
          BY <1>0, <1>6, <3>1, <3>2, <3>3, <3>4
             DEF ProcessInv, StopDeadline, KnownAreBorn, IsBorn
        <4>2. StopSaw'
          BY <3>3, <3>4 DEF StopSaw, Dead, Is
        <4> QED BY <1>0, <1>6, <3>1, <3>3, <3>4, <4>1, <4>2, StopperOnly DEF StopDeadline
      <3>5. CASE ~Dead(d) /\ Dies(d)
        <4>1. d # 0 /\ daemon[d].pc \notin {"unborn", "dead"} /\ UNCHANGED <<socket, marker>>
          BY <1>0, <1>6, <3>1, <3>2, <3>5, KnownNumbers DEF Dead, Is, StopDeadline
        <4>2. /\ Moves(d, "dead") /\ LockIsHeld'
              /\ SocketIsHolders' /\ MarkerIsHolders' /\ BornInOrder'
              /\ \A e \in Daemons : (IsBorn(e) => IsBorn(e)') /\ (Dead(e) => Dead(e)')
          BY <3>1, <3>3, <3>5, <4>1, KillInv DEF ProcessInv, LockIsHeld
        <4>3. KnownAreBorn'
          BY <1>0, <3>1, <3>2, <3>3, <4>1, <4>2, KnownNumbers DEF ProcessInv, KnownAreBorn, IsBorn
        <4>4. StopSaw'
          BY <3>3, <4>1, <4>2 DEF StopSaw, Dead, Is, Moves
        <4> QED BY <1>0, <4>2, <4>3, <4>4 DEF ProcessInv
      <3> QED BY <1>6, <2>2, <3>2, <3>4, <3>5 DEF StopDeadline
    <2> QED BY <1>6, <2>1, <2>2 DEF StopDeadline
  <1>7. CASE cleanupStoppedDaemon
    <2>1. PICK pc \in {"cleaning", "stopped"} :
            /\ StopGoto(pc)
            /\ pc = "cleaning" => lock = Free /\ lock' = Stopper
            /\ pc = "stopped" => lock' = lock
      BY <1>7 DEF cleanupStoppedDaemon, MayClean
    <2>2. /\ stopper'.pc = pc /\ stopper'.force = stopper.force
          /\ stopper'.peer = stopper.peer /\ stopper'.target = stopper.target
      BY <1>0, <2>1, StopGoes
    <2>3. Free \notin Daemons /\ Stopper \notin Daemons /\ Free # Stopper
      BY MaxDaemonsAssumption DEF Daemons, Free, Stopper
    <2>4. stopper.pc = "killed" /\ UNCHANGED <<daemon, socket, marker>>
      BY <1>7 DEF cleanupStoppedDaemon
    <2>5. LockIsHeld'
      BY <2>1, <2>2, <2>3, <2>4 DEF ProcessInv, LockIsHeld
    <2>6. SocketIsHolders' /\ MarkerIsHolders' /\ BornInOrder' /\ KnownAreBorn' /\ StopSaw'
      BY <1>0, <2>2, <2>4
         DEF ProcessInv, SocketIsHolders, MarkerIsHolders, BornInOrder, KnownAreBorn, IsBorn,
             StopSaw, Dead, Is
    <2> QED BY <1>0, <2>5, <2>6 DEF ProcessInv
  <1>8. CASE RemoveStoppedSocket
    <2>1. /\ stopper'.pc = "unmarking" /\ stopper'.force = stopper.force
          /\ stopper'.peer = stopper.peer /\ stopper'.target = stopper.target
          /\ stopper.pc = "cleaning" /\ UNCHANGED <<daemon, lock, marker>>
      BY <1>0, <1>8, StopGoes DEF RemoveStoppedSocket
    <2>2. lock = Stopper /\ Stopper \notin Daemons
      BY <2>1, MaxDaemonsAssumption DEF ProcessInv, LockIsHeld, Daemons, Stopper
    <2>3. LockIsHeld' /\ SocketIsHolders' /\ MarkerIsHolders'
      BY <2>1, <2>2 DEF ProcessInv, LockIsHeld, SocketIsHolders, MarkerIsHolders, Holding
    <2>4. BornInOrder' /\ KnownAreBorn' /\ StopSaw'
      BY <1>0, <2>1 DEF ProcessInv, BornInOrder, KnownAreBorn, IsBorn, StopSaw, Dead, Is
    <2> QED BY <1>0, <2>3, <2>4 DEF ProcessInv
  <1>9. CASE RemoveStoppedPID
    <2>1. /\ stopper'.pc = "stopped" /\ stopper'.force = stopper.force
          /\ stopper'.peer = stopper.peer /\ stopper'.target = stopper.target
          /\ stopper.pc = "unmarking" /\ UNCHANGED <<daemon, socket>>
          /\ lock' = Free /\ marker' \in {0, marker}
      BY <1>0, <1>9, StopGoes DEF RemoveStoppedPID, removeDaemonPID
    <2>2. lock = Stopper /\ Stopper \notin Daemons /\ Free \notin Daemons /\ Free # Stopper
      BY <2>1, MaxDaemonsAssumption DEF ProcessInv, LockIsHeld, Daemons, Stopper, Free
    <2>3. LockIsHeld' /\ SocketIsHolders' /\ MarkerIsHolders'
      BY <2>1, <2>2 DEF ProcessInv, LockIsHeld, SocketIsHolders, MarkerIsHolders, Holding
    <2>4. BornInOrder' /\ KnownAreBorn' /\ StopSaw'
      BY <1>0, <2>1 DEF ProcessInv, BornInOrder, KnownAreBorn, IsBorn, StopSaw, Dead, Is
    <2> QED BY <1>0, <2>3, <2>4 DEF ProcessInv
  <1> QED BY <1>1, <1>2, <1>3, <1>4, <1>5, <1>6, <1>7, <1>8, <1>9 DEF StopStep

\* The invariant of the processes holds throughout.
LEMMA ProcessInvAlways == Spec => []ProcessInv
  <1>1. Init => ProcessInv
    <2> SUFFICES ASSUME Init PROVE ProcessInv
      OBVIOUS
    <2>1. stopper.pc = "idle" /\ \A c \in Calls : call[c].pc = "idle"
      BY DEF Init, NoStop, NoCall
    <2>2. \A d \in Daemons : daemon[d].pc = "unborn" /\ d # 0
      BY MaxDaemonsAssumption DEF Init, Unborn, Daemons
    <2>3. LockIsHeld
      BY <2>1, <2>2, MaxDaemonsAssumption DEF Init, LockIsHeld, Holding, Free, Stopper
    <2>4. SocketIsHolders /\ MarkerIsHolders /\ BornInOrder
      BY <2>2 DEF SocketIsHolders, MarkerIsHolders, BornInOrder
    <2>5. KnownAreBorn /\ StopSaw
      BY <2>1 DEF Init, KnownAreBorn, StopSaw
    <2> QED BY <2>3, <2>4, <2>5, InitType DEF ProcessInv
  <1>2. ProcessInv /\ [Next]_vars => ProcessInv'
    <2> SUFFICES ASSUME ProcessInv, [Next]_vars PROVE ProcessInv'
      OBVIOUS
    <2>1. CASE UNCHANGED vars
      BY <2>1, NextType, ClientsOnly DEF ProcessInv, vars, processes
    <2> QED BY <2>1, DaemonStepInv, ClientStepInv, StopStepInv DEF Next
  <1> QED BY <1>1, <1>2, PTL DEF Spec

-----------------------------------------------------------------------------
(* Executors: one action at a time *)

\* The executor of a call and the types its proofs need.
LEMMA ClientTypes ==
  ASSUME TypeOK
  PROVE  /\ call \in [Calls -> Call] /\ conn \in [Calls -> Connection]
         /\ mu \in [Calls -> Calls \cup {None}] /\ current \in [Calls -> Calls \cup {None}]
         /\ executor \in [Calls -> Calls]
         /\ \A c \in Calls : /\ call[c].conn \in Calls \cup {None} /\ conn[c].users \subseteq Calls
                             /\ conn[c].retired \in BOOLEAN
  BY DEF TypeOK, Call, Connection

\* A step that concerns neither calls nor executors.
LEMMA ClientsUnchanged ==
  ASSUME ClientInv, TypeOK', UNCHANGED clients
  PROVE  ClientInv'
  <1> USE DEF clients
  <1>1. ConnectingHoldsMu' /\ UsersUse' /\ UsedIsOpen'
    BY DEF ClientInv, ConnectingHoldsMu, UsersUse, UsedIsOpen
  <1>2. CurrentIsOpen' /\ ConnIsCalls' /\ OpenIsNeeded'
    BY DEF ClientInv, CurrentIsOpen, ConnIsCalls, OpenIsNeeded
  <1> QED BY <1>1, <1>2 DEF ClientInv

\* A call that is still connecting and goes on to connect.
LEMMA StillConnecting ==
  ASSUME ClientInv, TypeOK', NEW c \in Calls,
         UNCHANGED <<executor, conn, mu, current, closed>>,
         call[c].pc \in {"dialing", "starting", "polling"},
         call'[c].pc \in {"dialing", "starting", "polling"},
         \A b \in Calls : b # c => call'[b] = call[b]
  PROVE  ClientInv'
  <1>1. ConnectingHoldsMu'
    BY DEF ClientInv, ConnectingHoldsMu, Connecting
  <1>2. UsersUse' /\ UsedIsOpen' /\ CurrentIsOpen'
    BY DEF ClientInv, UsersUse, UsedIsOpen, CurrentIsOpen
  <1>3. ConnIsCalls'
    BY DEF ClientInv, ConnIsCalls, Connecting
  <1>4. OpenIsNeeded'
    BY DEF ClientInv, OpenIsNeeded
  <1> QED BY <1>1, <1>2, <1>3, <1>4 DEF ClientInv

\* acquireDaemon shares the executor's connection, or takes the mutex.
LEMMA AcquireClient ==
  ASSUME ClientInv, NEW c \in Calls, acquireDaemon(c)
  PROVE  ClientInv'
  <1> DEFINE e == executor[c]
             k == current[e]
  <1>0. TypeOK /\ TypeOK' /\ UNCHANGED <<executor, current>> /\ e \in Calls
    BY CallStepType, ClientTypes DEF ClientInv, acquireDaemon
  <1>1. /\ call[c].pc = "idle" /\ mu[e] = None
        /\ \A b \in Calls : b # c => call'[b] = call[b]
    BY <1>0, CallGoes DEF acquireDaemon
  <1>2. CASE Returns(c) /\ UNCHANGED <<conn, mu>>
    <2>1. call'[c].pc = "done"
      <3>1. [NoCall EXCEPT !.pc = "done"].pc = "done"
        BY Defaults DEF Call
      <3> QED BY <1>0, <1>2, <3>1, ClientTypes DEF Returns
    <2>2. ConnectingHoldsMu' /\ UsersUse' /\ UsedIsOpen'
      BY <1>0, <1>1, <1>2, <2>1 DEF ClientInv, ConnectingHoldsMu, UsersUse, UsedIsOpen, Connecting
    <2>3. CurrentIsOpen' /\ ConnIsCalls' /\ OpenIsNeeded'
      BY <1>0, <1>1, <1>2, <2>1 DEF ClientInv, CurrentIsOpen, ConnIsCalls, OpenIsNeeded, Connecting
    <2> QED BY <1>0, <2>2, <2>3 DEF ClientInv
  <1>3. CASE /\ k # None /\ UNCHANGED mu
             /\ call' = [call EXCEPT ![c].pc = "using", ![c].conn = k]
             /\ conn' = [conn EXCEPT ![k].users = @ \cup {c}]
    <2>1. k \in Calls
      BY <1>0, <1>3, ClientTypes
    <2> HIDE DEF k
    <2>2. call'[c].pc = "using" /\ call'[c].conn = k
      BY <1>0, <1>3, ClientTypes DEF Call
    <2>3. /\ conn'[k].users = conn[k].users \cup {c}
          /\ conn'[k].state = conn[k].state /\ conn'[k].retired = conn[k].retired
          /\ \A j \in Calls : j # k => conn'[j] = conn[j]
      BY <1>0, <1>3, <2>1, ClientTypes DEF Connection
    <2>4. conn[k].state = "open" /\ ~conn[k].retired /\ executor[k] = e /\ k = current[e]
      BY <1>0, <1>3, <2>1 DEF ClientInv, CurrentIsOpen, k
    <2>5. call[k].pc \notin {"idle"} \cup Connecting
      <3>1. call[k].pc \notin {"idle", "dialing", "starting", "polling"}
        BY <2>1, <2>4 DEF ClientInv, ConnIsCalls
      <3>2. call[k].pc # "verifying"
        BY <2>1, <2>4, NoneAssumption DEF ClientInv, ConnectingHoldsMu, Connecting
      <3> QED BY <3>1, <3>2 DEF Connecting
    <2> HIDE DEF e
    <2>6. ConnectingHoldsMu'
      BY <1>0, <1>1, <1>3, <2>2 DEF ClientInv, ConnectingHoldsMu, Connecting
    <2>7. UsersUse'
      BY <1>1, <2>1, <2>2, <2>3 DEF ClientInv, UsersUse
    <2>8. UsedIsOpen'
      BY <1>0, <1>1, <2>1, <2>2, <2>3, <2>4 DEF ClientInv, UsedIsOpen, e
    <2>9. CurrentIsOpen'
      BY <1>0, <2>1, <2>3, ClientTypes DEF ClientInv, CurrentIsOpen
    <2>10. ConnIsCalls'
      BY <1>1, <2>1, <2>2, <2>3, <2>5 DEF ClientInv, ConnIsCalls, Connecting
    <2>11. OpenIsNeeded'
      BY <1>0, <1>1, <2>1, <2>2, <2>3 DEF ClientInv, OpenIsNeeded
    <2> QED BY <1>0, <2>6, <2>7, <2>8, <2>9, <2>10, <2>11 DEF ClientInv
  <1>4. CASE k = None /\ Goto(c, "dialing") /\ mu' = [mu EXCEPT ![e] = c] /\ UNCHANGED conn
    <2>1. call'[c].pc = "dialing"
      BY <1>0, <1>4, ClientTypes DEF Goto, Call
    <2>2. mu'[e] = c /\ \A f \in Calls : f # e => mu'[f] = mu[f]
      BY <1>0, <1>4, ClientTypes
    <2>3. ConnectingHoldsMu'
      BY <1>0, <1>1, <1>4, <2>1, <2>2, NoneAssumption, ClientTypes
         DEF ClientInv, ConnectingHoldsMu, Connecting
    <2>4. UsersUse' /\ UsedIsOpen' /\ CurrentIsOpen'
      BY <1>0, <1>1, <1>4, <2>1 DEF ClientInv, UsersUse, UsedIsOpen, CurrentIsOpen
    <2>5. ConnIsCalls' /\ OpenIsNeeded'
      BY <1>0, <1>1, <1>4, <2>1 DEF ClientInv, ConnIsCalls, OpenIsNeeded, Connecting
    <2> QED BY <1>0, <2>3, <2>4, <2>5 DEF ClientInv
  <1> QED BY <1>2, <1>3, <1>4 DEF acquireDaemon

\* Connect opens the connection that has the call's name.
LEMMA ConnectClient ==
  ASSUME ClientInv, NEW c \in Calls, Connect(c)
  PROVE  ClientInv'
  <1>0. TypeOK /\ TypeOK' /\ UNCHANGED <<executor, current, mu>>
    BY CallStepType DEF ClientInv, CallStep, Connect
  <1>1. /\ call[c].pc \in {"dialing", "polling"} /\ call'[c].pc = "verifying"
        /\ \A b \in Calls : b # c => call'[b] = call[b]
    BY <1>0, ClientTypes DEF Connect, Call
  <1>2. /\ conn'[c].state = "open" /\ ~conn'[c].retired /\ conn'[c].users = {}
        /\ \A j \in Calls : j # c => conn'[j] = conn[j]
    <2>1. ASSUME NEW d
          PROVE  /\ [NoConn EXCEPT !.state = "open", !.daemon = d].state = "open"
                 /\ [NoConn EXCEPT !.state = "open", !.daemon = d].retired = NoConn.retired
                 /\ [NoConn EXCEPT !.state = "open", !.daemon = d].users = NoConn.users
      BY Defaults DEF Connection
    <2>2. NoConn.retired = FALSE /\ NoConn.users = {}
      BY DEF NoConn
    <2> QED BY <1>0, <2>1, <2>2, ClientTypes DEF Connect
  <1>3. conn[c].users = {} /\ conn[c].state = "none"
    BY <1>1 DEF ClientInv, ConnIsCalls, Connecting
  <1>4. ConnectingHoldsMu'
    BY <1>0, <1>1 DEF ClientInv, ConnectingHoldsMu, Connecting
  <1>5. UsersUse' /\ UsedIsOpen'
    BY <1>0, <1>1, <1>2, <1>3 DEF ClientInv, UsersUse, UsedIsOpen
  <1>6. CurrentIsOpen'
    BY <1>0, <1>2, <1>3, ClientTypes DEF ClientInv, CurrentIsOpen
  <1>7. ConnIsCalls' /\ OpenIsNeeded'
    BY <1>0, <1>1, <1>2 DEF ClientInv, ConnIsCalls, OpenIsNeeded, Connecting
  <1> QED BY <1>0, <1>4, <1>5, <1>6, <1>7 DEF ClientInv

\* A call whose attempt fails gives the mutex back or goes on connecting.
LEMMA ConnectorFailsGoes ==
  ASSUME TypeOK, NEW c \in Calls, NEW retryable, ConnectorFails(c, retryable)
  PROVE  /\ \A b \in Calls : b # c => call'[b] = call[b]
         /\ \/ call'[c].pc = "dialing" /\ UNCHANGED mu
            \/ call'[c].pc = "done" /\ mu' = GivenBack(c)
  <1>1. /\ [NoCall EXCEPT !.pc = "done"].pc = "done"
        /\ [NoCall EXCEPT !.pc = "dialing", !.again = TRUE].pc = "dialing"
    BY Defaults DEF Call
  <1> QED BY <1>1, ClientTypes DEF ConnectorFails, Returns

\* An attempt that ends without a connection.
LEMMA FailsClient ==
  ASSUME ClientInv, TypeOK', NEW c \in Calls, NEW retryable, ConnectorFails(c, retryable),
         call[c].pc \in {"dialing", "polling", "verifying"}, UNCHANGED <<executor, current>>,
         conn'[c].state = "none", conn'[c].users = {},
         \A j \in Calls : j # c => conn'[j] = conn[j]
  PROVE  ClientInv'
  <1>0. TypeOK
    BY DEF ClientInv
  <1>1. /\ \A b \in Calls : b # c => call'[b] = call[b]
        /\ \/ call'[c].pc = "dialing" /\ UNCHANGED mu
           \/ call'[c].pc = "done" /\ mu' = GivenBack(c)
    BY <1>0, ConnectorFailsGoes
  <1>2. \A f \in Calls : f # executor[c] => mu'[f] = mu[f]
    BY <1>0, <1>1, ClientTypes DEF GivenBack
  <1>3. conn[c].users = {} /\ mu[executor[c]] = c /\ current[executor[c]] = None
    BY DEF ClientInv, ConnIsCalls, ConnectingHoldsMu, Connecting
  <1>4. \A f \in Calls : current[f] # c
    BY <1>0, <1>3, NoneAssumption DEF ClientInv, CurrentIsOpen
  <1>5. ConnectingHoldsMu'
    <2>1. ASSUME NEW b \in Calls, b # c, call[b].pc \in Connecting
          PROVE  executor[b] \in Calls /\ executor[b] # executor[c]
      BY <1>0, <1>3, <2>1, ClientTypes DEF ClientInv, ConnectingHoldsMu
    <2> QED BY <1>1, <1>2, <1>3, <2>1 DEF ClientInv, ConnectingHoldsMu, Connecting
  <1>6. UsersUse' /\ UsedIsOpen'
    BY <1>1, <1>3 DEF ClientInv, UsersUse, UsedIsOpen
  <1>7. CurrentIsOpen'
    BY <1>0, <1>4, ClientTypes DEF ClientInv, CurrentIsOpen
  <1>8. ConnIsCalls' /\ OpenIsNeeded'
    BY <1>1 DEF ClientInv, ConnIsCalls, OpenIsNeeded, Connecting
  <1> QED BY <1>5, <1>6, <1>7, <1>8 DEF ClientInv

\* Polling ends, or the new connection is verified and becomes the executor's.
LEMMA VerifyClient ==
  ASSUME ClientInv, NEW c \in Calls, ConnectFails(c) \/ readyBridgeExecutor(c)
  PROVE  ClientInv'
  <1>0. TypeOK /\ TypeOK' /\ UNCHANGED executor
    BY CallStepType DEF ClientInv, CallStep, ConnectFails, readyBridgeExecutor
  <1>1. CASE ConnectFails(c)
    <2>1. conn[c].state = "none" /\ conn[c].users = {}
      BY <1>1 DEF ClientInv, ConnIsCalls, ConnectFails, Connecting
    <2> QED BY <1>0, <1>1, <2>1, FailsClient DEF ConnectFails
  <1>2. CASE readyBridgeExecutor(c)
    <2>1. CASE /\ conn' = [conn EXCEPT ![c] = NoConn]
               /\ ConnectorFails(c, Answering = 0 /\ ~call[c].failed) /\ UNCHANGED current
      <3>1. NoConn.state = "none" /\ NoConn.users = {}
        BY DEF NoConn
      <3>2. /\ conn'[c].state = "none" /\ conn'[c].users = {}
            /\ \A j \in Calls : j # c => conn'[j] = conn[j]
        BY <1>0, <2>1, <3>1, ClientTypes
      <3> QED BY <1>0, <1>2, <2>1, <3>2, FailsClient DEF readyBridgeExecutor
    <2>2. CASE /\ call' = [call EXCEPT ![c] = [NoCall EXCEPT !.pc = "using", !.conn = c]]
               /\ conn' = [conn EXCEPT ![c].users = {c}]
               /\ current' = [current EXCEPT ![executor[c]] = c]
               /\ mu' = GivenBack(c)
      <3> DEFINE e == executor[c]
      <3>0. e \in Calls /\ call[c].pc = "verifying"
        BY <1>0, <1>2, ClientTypes DEF readyBridgeExecutor
      <3>1. /\ call'[c].pc = "using" /\ call'[c].conn = c
            /\ \A b \in Calls : b # c => call'[b] = call[b]
        <4>1. /\ [NoCall EXCEPT !.pc = "using", !.conn = c].pc = "using"
              /\ [NoCall EXCEPT !.pc = "using", !.conn = c].conn = c
          BY Defaults DEF Call
        <4> QED BY <1>0, <2>2, <4>1, ClientTypes
      <3>2. /\ conn'[c].users = {c} /\ conn'[c].state = conn[c].state
            /\ conn'[c].retired = conn[c].retired
            /\ \A j \in Calls : j # c => conn'[j] = conn[j]
        BY <1>0, <2>2, ClientTypes DEF Connection
      <3>3. /\ current'[e] = c /\ \A f \in Calls : f # e => current'[f] = current[f]
            /\ \A f \in Calls : f # e => mu'[f] = mu[f]
        BY <1>0, <2>2, <3>0, ClientTypes DEF GivenBack
      <3>4. /\ conn[c].state = "open" /\ ~conn[c].retired /\ conn[c].users = {}
            /\ mu[e] = c /\ current[e] = None
        BY <3>0 DEF ClientInv, ConnIsCalls, ConnectingHoldsMu, Connecting
      <3>5. ConnectingHoldsMu'
        BY <1>0, <3>0, <3>1, <3>3, <3>4, ClientTypes DEF ClientInv, ConnectingHoldsMu, Connecting
      <3>6. UsersUse'
        BY <3>0, <3>1, <3>2 DEF ClientInv, UsersUse
      <3>7. UsedIsOpen'
        BY <1>0, <3>1, <3>2, <3>4 DEF ClientInv, UsedIsOpen
      <3>8. CurrentIsOpen'
        BY <1>0, <3>0, <3>2, <3>3, <3>4, ClientTypes DEF ClientInv, CurrentIsOpen
      <3>9. ConnIsCalls'
        BY <3>1, <3>2 DEF ClientInv, ConnIsCalls, Connecting
      <3>10. OpenIsNeeded'
        BY <1>0, <3>0, <3>1, <3>2, <3>3, <3>4, NoneAssumption, ClientTypes
           DEF ClientInv, OpenIsNeeded
      <3> QED BY <1>0, <3>5, <3>6, <3>7, <3>8, <3>9, <3>10 DEF ClientInv
    <2> QED BY <1>2, <2>1, <2>2 DEF readyBridgeExecutor
  <1> QED BY <1>1, <1>2

\* collectClosableLocked closes the retired connections nobody uses.
LEMMA CollectedAt ==
  ASSUME NEW cs \in [Calls -> Connection], NEW e, NEW k \in Calls
  PROVE  /\ Collected(cs, e)[k].users = cs[k].users
         /\ Collected(cs, e)[k].retired = cs[k].retired
         /\ Collected(cs, e)[k].state =
                IF /\ executor[k] = e /\ cs[k].state = "open"
                   /\ cs[k].retired /\ cs[k].users = {}
                THEN "closing" ELSE cs[k].state
  <1>1. cs[k] \in Connection
    OBVIOUS
  <1>2. ASSUME NEW x \in Connection
        PROVE  /\ [x EXCEPT !.state = "closing"].users = x.users
               /\ [x EXCEPT !.state = "closing"].retired = x.retired
               /\ [x EXCEPT !.state = "closing"].state = "closing"
    BY DEF Connection
  <1>3. k \in Closable(cs, e) <=> /\ executor[k] = e /\ cs[k].state = "open"
                                  /\ cs[k].retired /\ cs[k].users = {}
    BY DEF Closable, Closable_Retired
  <1> QED BY <1>1, <1>2, <1>3 DEF Collected

\* The last call of a retired connection closes it on its way out.
LEMMA ReleaseClient ==
  ASSUME ClientInv, NEW c \in Calls, NEW retire \in BOOLEAN, releaseDaemon(c, retire)
  PROVE  ClientInv'
  <1> DEFINE e == executor[c]
             k == call[c].conn
             cs == [conn EXCEPT ![k].users = @ \ {c}, ![k].retired = @ \/ retire]
  <1>0. TypeOK /\ TypeOK' /\ UNCHANGED <<executor, mu>> /\ e \in Calls
    BY CallStepType, ClientTypes DEF ClientInv, CallStep, releaseDaemon
  <1>1. /\ call[c].pc = "using" /\ mu[e] = None /\ k \in Calls
        /\ conn[k].state = "open" /\ c \in conn[k].users /\ executor[k] = e
    BY DEF ClientInv, UsedIsOpen, releaseDaemon
  <1>2. /\ call'[c].pc \in {"closing", "done"}
        /\ \A b \in Calls : b # c => call'[b] = call[b]
    <2>1. [NoCall EXCEPT !.pc = "done"].pc = "done"
      BY Defaults DEF Call
    <2>2. Goto(c, "closing") \/ Returns(c)
      BY DEF releaseDaemon
    <2>3. CASE Goto(c, "closing")
      BY <1>0, <2>3, ClientTypes DEF Goto, Call
    <2>4. CASE Returns(c)
      BY <1>0, <2>1, <2>4, ClientTypes DEF Returns
    <2> QED BY <2>2, <2>3, <2>4
  <1>3. /\ current'[e] = IF retire /\ current[e] = k THEN None ELSE current[e]
        /\ \A f \in Calls : f # e => current'[f] = current[f]
    BY <1>0, ClientTypes DEF releaseDaemon
  <1>4. /\ cs \in [Calls -> Connection]
        /\ cs[k].users = conn[k].users \ {c} /\ cs[k].state = "open"
        /\ cs[k].retired = (conn[k].retired \/ retire)
        /\ \A j \in Calls : j # k => cs[j] = conn[j]
    <2>1. /\ conn \in [Calls -> Connection] /\ conn[k] \in Connection
          /\ conn[k].users \ {c} \in SUBSET Calls /\ (conn[k].retired \/ retire) \in BOOLEAN
      BY <1>0, <1>1, ClientTypes
    <2> DEFINE u == conn[k].users \ {c}
               t == (conn[k].retired \/ retire)
               y == [conn[k] EXCEPT !.users = u, !.retired = t]
    <2>2. cs = [conn EXCEPT ![k] = y]
      OBVIOUS
    <2>3. u \in SUBSET Calls /\ t \in BOOLEAN
      BY <2>1
    <2>4. y \in Connection /\ y.users = u /\ y.state = conn[k].state /\ y.retired = t
      <3> DEFINE x == conn[k]
      <3>1. x \in Connection /\ y = [x EXCEPT !.users = u, !.retired = t]
        BY <2>1
      <3> HIDE DEF x, u, t, y
      <3>2. y \in Connection /\ y.users = u /\ y.state = x.state /\ y.retired = t
        BY <2>3, <3>1 DEF Connection
      <3> QED BY <3>2 DEF x
    <2> HIDE DEF u, t
    <2> HIDE DEF y
    <2>5. cs \in [Calls -> Connection] /\ cs[k] = y /\ \A j \in Calls : j # k => cs[j] = conn[j]
      BY <1>1, <2>1, <2>2, <2>4
    <2> QED BY <1>1, <2>4, <2>5 DEF u, t
  <1>5. conn' = Collected(cs, e)
    BY DEF releaseDaemon
  <1> HIDE DEF cs
  <1>6. ASSUME NEW j \in Calls, j # k
        PROVE  /\ conn'[j].users = conn[j].users /\ conn'[j].retired = conn[j].retired
               /\ conn'[j].state = conn[j].state
    <2>1. conn[j].state = "open" /\ conn[j].retired => conn[j].users # {}
      BY <1>0, <1>6, NoneAssumption, ClientTypes
         DEF ClientInv, OpenIsNeeded, ConnIsCalls, CurrentIsOpen
    <2> QED BY <1>4, <1>5, <1>6, <2>1, CollectedAt
  <1>7. /\ conn'[k].users = conn[k].users \ {c}
        /\ conn'[k].retired = (conn[k].retired \/ retire)
        /\ conn'[k].state = IF conn'[k].retired /\ conn'[k].users = {} THEN "closing" ELSE "open"
    BY <1>1, <1>4, <1>5, CollectedAt
  <1>8. call[k].pc \notin {"idle"} \cup Connecting
    BY <1>1 DEF ClientInv, ConnIsCalls
  <1> HIDE DEF k, e
  <1>9. ConnectingHoldsMu'
    <2>1. ASSUME NEW b \in Calls, call[b].pc \in Connecting
          PROVE  b # c /\ executor[b] \in Calls /\ executor[b] # e
      BY <1>0, <1>1, <2>1, NoneAssumption, ClientTypes
         DEF ClientInv, ConnectingHoldsMu, Connecting
    <2> QED BY <1>0, <1>2, <1>3, <2>1 DEF ClientInv, ConnectingHoldsMu, Connecting
  <1>10. UsersUse'
    BY <1>1, <1>2, <1>6, <1>7 DEF ClientInv, UsersUse, k
  <1>11. UsedIsOpen'
    <2> SUFFICES ASSUME NEW b \in Calls, call'[b].pc = "using"
                 PROVE  /\ call'[b].conn \in Calls
                        /\ conn'[call'[b].conn].state = "open"
                        /\ b \in conn'[call'[b].conn].users
                        /\ executor[call'[b].conn] = executor[b]
      BY <1>0 DEF UsedIsOpen
    <2>1. b # c /\ call'[b] = call[b]
      BY <1>2
    <2>2. /\ call[b].conn \in Calls /\ conn[call[b].conn].state = "open"
          /\ b \in conn[call[b].conn].users /\ executor[call[b].conn] = executor[b]
      BY <2>1 DEF ClientInv, UsedIsOpen
    <2>3. CASE call[b].conn = k
      BY <1>7, <2>1, <2>2, <2>3
    <2>4. CASE call[b].conn # k
      BY <1>6, <2>1, <2>2, <2>4
    <2> QED BY <2>3, <2>4
  <1>12. CurrentIsOpen'
    <2> SUFFICES ASSUME NEW f \in Calls, current'[f] # None
                 PROVE  /\ conn'[current'[f]].state = "open" /\ ~conn'[current'[f]].retired
                        /\ executor[current'[f]] = f
      BY <1>0 DEF CurrentIsOpen
    <2>1. /\ current'[f] = current[f] /\ current[f] \in Calls
          /\ conn[current[f]].state = "open" /\ ~conn[current[f]].retired
          /\ executor[current[f]] = f
      BY <1>0, <1>3, ClientTypes DEF ClientInv, CurrentIsOpen
    <2>2. CASE current[f] = k
      <3>1. f = e /\ ~retire
        BY <1>1, <1>3, <2>1, <2>2
      <3> QED BY <1>7, <2>1, <2>2, <3>1
    <2>3. CASE current[f] # k
      BY <1>6, <2>1, <2>3
    <2> QED BY <2>2, <2>3
  <1>13. ConnIsCalls'
    <2> SUFFICES ASSUME NEW j \in Calls
                 PROVE  /\ call'[j].pc \in {"idle", "dialing", "starting", "polling"}
                                => conn'[j].state = "none"
                        /\ call'[j].pc = "verifying" => conn'[j].state = "open" /\ ~conn'[j].retired
                        /\ call'[j].pc \in {"idle"} \cup Connecting => conn'[j].users = {}
      BY DEF ConnIsCalls
    <2>1. CASE j = c
      BY <1>2, <2>1 DEF Connecting
    <2>2. CASE j # c /\ j = k
      BY <1>2, <1>8, <2>2 DEF Connecting
    <2>3. CASE j # c /\ j # k
      BY <1>2, <1>6, <2>3 DEF ClientInv, ConnIsCalls
    <2> QED BY <2>1, <2>2, <2>3
  <1>14. OpenIsNeeded'
    <2> SUFFICES ASSUME NEW j \in Calls, conn'[j].state = "open"
                 PROVE  \/ call'[j].pc = "verifying" \/ current'[executor[j]] = j
                        \/ conn'[j].retired /\ conn'[j].users # {}
      BY <1>0 DEF OpenIsNeeded
    <2>1. CASE j = k
      <3>1. CASE conn'[k].retired
        BY <1>7, <2>1, <3>1
      <3>2. CASE ~conn'[k].retired
        <4>1. current[e] = k /\ ~retire
          BY <1>1, <1>7, <1>8, <3>2 DEF ClientInv, OpenIsNeeded, Connecting
        <4> QED BY <1>0, <1>1, <1>3, <2>1, <4>1 DEF e
      <3> QED BY <3>1, <3>2
    <2>2. CASE j # k
      <3>1. \/ call[j].pc = "verifying" \/ current[executor[j]] = j
            \/ conn[j].retired /\ conn[j].users # {}
        BY <1>6, <2>2 DEF ClientInv, OpenIsNeeded
      <3>2. executor[j] \in Calls
        BY <1>0, ClientTypes
      <3>3. call[j].pc = "verifying" => call'[j].pc = "verifying"
        BY <1>1, <1>2
      <3>4. current[executor[j]] = j => current'[executor[j]] = j
        BY <1>3, <2>2, <3>2
      <3> QED BY <1>6, <2>2, <3>1, <3>3, <3>4
    <2> QED BY <2>1, <2>2
  <1> QED BY <1>0, <1>9, <1>10, <1>11, <1>12, <1>13, <1>14 DEF ClientInv

\* An executor that closes retires its connection and waits for its users.
LEMMA CloseClient ==
  ASSUME ClientInv, NEW e \in {executor[c] : c \in Calls}, CloseExecutor(e)
  PROVE  ClientInv'
  <1> DEFINE k == current[e]
             cs == IF k = None THEN conn ELSE [conn EXCEPT ![k].retired = TRUE]
  <1>0. TypeOK /\ TypeOK' /\ UNCHANGED <<executor, call, mu>> /\ e \in Calls
    BY CloseExecutorType, ClientTypes DEF ClientInv, CloseExecutor
  <1>1. conn' = Collected(cs, e) /\ mu[e] = None
    BY DEF CloseExecutor
  <1>2. current'[e] = None /\ \A f \in Calls : f # e => current'[f] = current[f]
    BY <1>0, ClientTypes DEF CloseExecutor
  <1>3. k # None => k \in Calls /\ conn[k].state = "open" /\ executor[k] = e
    BY <1>0, ClientTypes DEF ClientInv, CurrentIsOpen
  <1>4. /\ cs \in [Calls -> Connection]
        /\ \A j \in Calls : cs[j].users = conn[j].users /\ cs[j].state = conn[j].state
        /\ \A j \in Calls : j # k => cs[j] = conn[j]
        /\ k # None => cs[k].retired = TRUE
    <2>1. ASSUME NEW x \in Connection
          PROVE  /\ [x EXCEPT !.retired = TRUE] \in Connection
                 /\ [x EXCEPT !.retired = TRUE].users = x.users
                 /\ [x EXCEPT !.retired = TRUE].state = x.state
                 /\ [x EXCEPT !.retired = TRUE].retired = TRUE
      BY DEF Connection
    <2> QED BY <1>0, <1>3, <2>1, ClientTypes
  <1> HIDE DEF cs
  <1>5. ASSUME NEW j \in Calls, j # k
        PROVE  /\ conn'[j].users = conn[j].users /\ conn'[j].retired = conn[j].retired
               /\ conn'[j].state = conn[j].state
    <2>1. conn[j].state = "open" /\ conn[j].retired => conn[j].users # {}
      BY <1>0, <1>5, NoneAssumption, ClientTypes
         DEF ClientInv, OpenIsNeeded, ConnIsCalls, CurrentIsOpen
    <2> QED BY <1>1, <1>4, <1>5, <2>1, CollectedAt
  <1>6. k # None => /\ conn'[k].users = conn[k].users /\ conn'[k].retired = TRUE
                    /\ conn'[k].state = IF conn[k].users = {} THEN "closing" ELSE "open"
    BY <1>1, <1>3, <1>4, CollectedAt
  <1>7. k # None => call[k].pc \notin {"idle"} \cup Connecting
    <2> SUFFICES ASSUME k # None, call[k].pc \in {"idle"} \cup Connecting PROVE FALSE
      OBVIOUS
    <2>1. call[k].pc = "verifying"
      BY <1>3 DEF ClientInv, ConnIsCalls, Connecting
    <2> QED BY <1>3, <2>1 DEF ClientInv, ConnectingHoldsMu, Connecting
  <1>8. ConnectingHoldsMu'
    BY <1>0, <1>1, <1>2, ClientTypes DEF ClientInv, ConnectingHoldsMu
  <1>9. UsersUse'
    <2>1. \A j \in Calls : conn'[j].users = conn[j].users
      BY <1>5, <1>6, NoneAssumption
    <2> QED BY <1>0, <2>1 DEF ClientInv, UsersUse
  <1>10. UsedIsOpen'
    <2> SUFFICES ASSUME NEW b \in Calls, call[b].pc = "using"
                 PROVE  /\ call[b].conn \in Calls
                        /\ conn'[call[b].conn].state = "open"
                        /\ b \in conn'[call[b].conn].users
                        /\ executor[call[b].conn] = executor[b]
      BY <1>0 DEF UsedIsOpen
    <2>1. /\ call[b].conn \in Calls /\ conn[call[b].conn].state = "open"
          /\ b \in conn[call[b].conn].users /\ executor[call[b].conn] = executor[b]
      BY DEF ClientInv, UsedIsOpen
    <2>2. CASE call[b].conn = k
      <3>1. k # None
        BY <2>1, <2>2, NoneAssumption
      <3> QED BY <1>6, <2>1, <2>2, <3>1
    <2>3. CASE call[b].conn # k
      BY <1>5, <2>1, <2>3
    <2> QED BY <2>2, <2>3
  <1>11. CurrentIsOpen'
    <2> SUFFICES ASSUME NEW f \in Calls, current'[f] # None
                 PROVE  /\ conn'[current'[f]].state = "open" /\ ~conn'[current'[f]].retired
                        /\ executor[current'[f]] = f
      BY <1>0 DEF CurrentIsOpen
    <2>1. /\ f # e /\ current'[f] = current[f] /\ current[f] \in Calls
          /\ conn[current[f]].state = "open" /\ ~conn[current[f]].retired
          /\ executor[current[f]] = f
      BY <1>0, <1>2, ClientTypes DEF ClientInv, CurrentIsOpen
    <2>2. current[f] # k
      BY <1>3, <2>1
    <2> QED BY <1>5, <2>1, <2>2
  <1>12. ConnIsCalls'
    <2>1. ASSUME NEW j \in Calls, call[j].pc \in {"idle"} \cup Connecting
          PROVE  j # k
      BY <1>7, <2>1, NoneAssumption
    <2> QED BY <1>0, <1>5, <2>1 DEF ClientInv, ConnIsCalls, Connecting
  <1>13. OpenIsNeeded'
    <2> SUFFICES ASSUME NEW j \in Calls, conn'[j].state = "open"
                 PROVE  \/ call[j].pc = "verifying" \/ current'[executor[j]] = j
                        \/ conn'[j].retired /\ conn'[j].users # {}
      BY <1>0 DEF OpenIsNeeded
    <2>1. CASE j = k
      <3>1. k # None
        BY <2>1, NoneAssumption
      <3> QED BY <1>6, <2>1, <3>1
    <2>2. CASE j # k
      <3>1. \/ call[j].pc = "verifying" \/ current[executor[j]] = j
            \/ conn[j].retired /\ conn[j].users # {}
        BY <1>5, <2>2 DEF ClientInv, OpenIsNeeded
      <3>2. current[executor[j]] = j => current'[executor[j]] = j
        BY <1>0, <1>2, <2>2, ClientTypes
      <3> QED BY <1>5, <2>2, <3>1, <3>2
    <2> QED BY <2>1, <2>2
  <1> QED BY <1>0, <1>8, <1>9, <1>10, <1>11, <1>12, <1>13 DEF ClientInv

\* A connection that is closed is nobody's any more.
LEMMA ClosingClient ==
  ASSUME ClientInv, NEW k \in Calls, closeDaemonExecutors(k)
  PROVE  ClientInv'
  <1>0. TypeOK /\ TypeOK' /\ UNCHANGED <<executor, mu, current>>
    BY ClosingType DEF ClientInv, closeDaemonExecutors
  <1>1. /\ conn[k].state = "closing" /\ conn'[k].state = "closed"
        /\ conn'[k].users = conn[k].users /\ conn'[k].retired = conn[k].retired
        /\ \A j \in Calls : j # k => conn'[j] = conn[j]
    BY <1>0, ClientTypes DEF closeDaemonExecutors, Connection
  <1>2. \A c \in Calls : \/ call'[c] = call[c]
                         \/ call[c].pc = "closing" /\ call'[c].pc = "done"
    <2>1. [NoCall EXCEPT !.pc = "done"].pc = "done"
      BY Defaults DEF Call
    <2> QED BY <2>1 DEF closeDaemonExecutors
  <1>3. ConnectingHoldsMu' /\ UsersUse'
    BY <1>0, <1>1, <1>2 DEF ClientInv, ConnectingHoldsMu, UsersUse, Connecting
  <1>4. UsedIsOpen' /\ CurrentIsOpen'
    BY <1>0, <1>1, <1>2, ClientTypes DEF ClientInv, UsedIsOpen, CurrentIsOpen
  <1>5. ConnIsCalls' /\ OpenIsNeeded'
    BY <1>0, <1>1, <1>2 DEF ClientInv, ConnIsCalls, OpenIsNeeded, Connecting
  <1> QED BY <1>0, <1>3, <1>4, <1>5 DEF ClientInv

\* The invariant of calls and executors holds throughout.
LEMMA ClientInvAlways == Spec => []ClientInv
  <1>1. Init => ClientInv
    <2> SUFFICES ASSUME Init PROVE ClientInv
      OBVIOUS
    <2>1. \A c \in Calls : /\ call[c].pc = "idle" /\ current[c] = None
                           /\ conn[c].state = "none" /\ conn[c].users = {}
      BY DEF Init, NoCall, NoConn
    <2>2. ConnectingHoldsMu /\ UsersUse /\ UsedIsOpen
      BY <2>1 DEF ConnectingHoldsMu, UsersUse, UsedIsOpen, Connecting
    <2>3. CurrentIsOpen /\ ConnIsCalls /\ OpenIsNeeded
      BY <2>1 DEF CurrentIsOpen, ConnIsCalls, OpenIsNeeded, Connecting
    <2> QED BY <2>2, <2>3, InitType DEF ClientInv
  <1>2. ClientInv /\ [Next]_vars => ClientInv'
    <2> SUFFICES ASSUME ClientInv, [Next]_vars PROVE ClientInv'
      OBVIOUS
    <2>0. TypeOK /\ TypeOK'
      BY NextType DEF ClientInv
    <2>1. CASE UNCHANGED clients
      BY <2>0, <2>1, ClientsUnchanged
    <2>2. ASSUME NEW c \in Calls, startDaemonProcess(c) \/ waitForDaemonStartup(c)
          PROVE  ClientInv'
      <3>1. /\ UNCHANGED <<executor, conn, mu, current, closed>>
            /\ call[c].pc \in {"dialing", "starting", "polling"}
        BY <2>2 DEF startDaemonProcess, waitForDaemonStartup
      <3>2. /\ \A b \in Calls : b # c => call'[b] = call[b]
            /\ call'[c].pc \in {"dialing", "starting", "polling"}
        BY <2>0, <2>2, ClientTypes DEF startDaemonProcess, waitForDaemonStartup, Call
      <3> QED BY <2>0, <3>1, <3>2, StillConnecting
    <2>3. ASSUME NEW c \in Calls, acquireDaemon(c) \/ CallStep(c)
          PROVE  ClientInv'
      BY <2>2, <2>3, AcquireClient, ConnectClient, VerifyClient, ReleaseClient DEF CallStep
    <2>4. ASSUME NEW d \in Daemons, StartStep(d) \/ LeaveLoop(d) \/ CloseStep(d) \/ Crash(d)
          PROVE  UNCHANGED clients
      BY <2>4 DEF StartStep, NewRuntime, StartBridge, WritePID, LeaveLoop, CloseStep,
                  CloseBridge, RemovePID, Crash
    <2>5. ASSUME (\E force \in BOOLEAN : StopConnect(force)) \/ StopStep
          PROVE  UNCHANGED clients
      BY <2>5 DEF StopConnect, StopStep, readDaemonPID, StopStatus, StopShutdown,
                  daemonProcessExitedMarker, StopDeadline, cleanupStoppedDaemon,
                  RemoveStoppedSocket, RemoveStoppedPID
    <2>6. CASE UNCHANGED vars
      BY <2>1, <2>6 DEF vars, clients
    <2> QED BY <2>1, <2>3, <2>4, <2>5, <2>6, CloseClient, ClosingClient DEF Next
  <1> QED BY <1>1, <1>2, PTL DEF Spec

-----------------------------------------------------------------------------
(* Theorems *)

\* Every variable keeps its type.
THEOREM TypeCorrect == Spec => []TypeOK
  <1>1. ProcessInv => TypeOK
    BY DEF ProcessInv
  <1> QED BY <1>1, ProcessInvAlways, PTL

\* However many processes start, crash, are killed or clean up: the socket and
\* the marker are those of the daemon that serves, and so only one does.
THEOREM ServingStaysReachable == Spec => []ServingIsReachable
  <1>1. ProcessInv => ServingIsReachable
    BY DEF ProcessInv, SocketIsHolders, MarkerIsHolders, ServingIsReachable
  <1> QED BY <1>1, ProcessInvAlways, PTL

\* A stop that reports success has seen the daemon of the marker exit, and the
\* one it talked to has exited, has promised to, or was passed over by force.
THEOREM StopReportsTruth == Spec => []StopIsHonest
  <1>1. ProcessInv => StopIsHonest
    <2> SUFFICES ASSUME ProcessInv, stopper.pc = "stopped"
                 PROVE  /\ Dead(stopper.target)
                        /\ \/ Dead(stopper.peer) \/ daemon[stopper.peer].asked
                           \/ stopper.force /\ stopper.target # stopper.peer
      BY DEF StopIsHonest
    <2>1. /\ Dead(stopper.target)
          /\ Dead(stopper.peer) \/ daemon[stopper.peer].asked \/ stopper.force
      BY DEF ProcessInv, StopSaw
    <2>2. stopper.target = stopper.peer => Dead(stopper.peer)
      BY <2>1
    <2> QED BY <2>1, <2>2
  <1> QED BY <1>1, ProcessInvAlways, PTL

\* A capability is open while a call uses it or may come to use it, and no
\* longer, however the calls of a process share, retire and close connections.
THEOREM CapabilityIsKept == Spec => []CapabilityLife
  <1>1. ClientInv => CapabilityLife
    <2> SUFFICES ASSUME ClientInv, NEW k \in Calls
                 PROVE  /\ conn[k].users # {} => conn[k].state = "open"
                        /\ conn[k].state = "open" =>
                              conn[k].users # {} \/ current[executor[k]] = k \/ call[k].pc = "verifying"
      BY DEF CapabilityLife
    <2>1. ASSUME NEW c \in conn[k].users PROVE conn[k].state = "open"
      <3>1. c \in Calls
        BY <2>1, ClientTypes DEF ClientInv
      <3>2. call[c].pc = "using" /\ call[c].conn = k
        BY <2>1, <3>1 DEF ClientInv, UsersUse
      <3> QED BY <3>1, <3>2 DEF ClientInv, UsedIsOpen
    <2> QED BY <2>1 DEF ClientInv, OpenIsNeeded
  <1> QED BY <1>1, ClientInvAlways, PTL

=============================================================================
