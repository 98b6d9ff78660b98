------------------------------- MODULE Bridge -------------------------------
(***************************************************************************)
(* The bridge server (internal/bridge/bridge.go) and the part of the       *)
(* daemon's runtime that its requests go through (internal/app/runtime.go):*)
(* capabilities, which MCP client processes open, use, close and abandon;  *)
(* the count of capabilities of each owner, whose last one takes the       *)
(* owner's work sessions with it; the count of running requests, which     *)
(* keeps the daemon from going idle; exclusive maintenance; Start and      *)
(* Close.                                                                  *)
(*                                                                         *)
(* Server.mu and Runtime.mu are held for one step each.  The callback that *)
(* clears an owner runs after Server.mu is dropped, in whatever goroutine  *)
(* removed the capability: "notices" holds the callbacks not yet run.      *)
(***************************************************************************)
EXTENDS Integers, FiniteSets

CONSTANTS
    Owners,       \* MCP client processes, each a PID with its start time
    Requests,     \* bridge calls, each with a goroutine of its own
    Maintainers,  \* goroutines that serve backup.restore, keys.rotate, ...
    MaxSessions   \* bound on the number of capabilities opened

ASSUME MaxSessionsAssumption == MaxSessions \in Nat \ {0}
ASSUME OwnersAssumption == Owners # {}
ASSUME RequestsAssumption == IsFiniteSet(Requests)

VARIABLES
    phase,              \* how far Runtime.Start and Runtime.Close are
    alive,              \* the client processes that run
    session,            \* Server.sessions, with what became of each capability
    owners,             \* Server.owners
    notices,            \* sessionClosed callbacks that have not run yet
    work,               \* capabilities whose owner has a work session through them
    request,            \* what each bridge goroutine does
    activeRequests,     \* Runtime.activeRequests
    early,              \* history: requests that began before Start had ended
    quiet,              \* daemonIdleTimeout has passed since lastActivity
    maintenance,        \* what each maintenance goroutine does
    maintenanceActive,  \* Runtime.maintenanceActive
    stop                \* the loop of runDaemon ends

capabilities == <<alive, session, owners, notices>>
serving == <<request, activeRequests, early>>
maintaining == <<maintenance, maintenanceActive>>
vars == <<phase, alive, session, owners, notices, work, request, activeRequests,
          early, quiet, maintenance, maintenanceActive, stop>>

-----------------------------------------------------------------------------
Session == 1..MaxSessions

\* "listening": the bridge accepts connections, Start has not set started;
\* "closing": Close has set closed; "cleared": it has cleared the work
\* sessions; "down": the bridge is closed.
Phase == {"listening", "serving", "closing", "cleared", "down"}

\* status, shutdown, prepareForceStop and openTUI are served during maintenance.
Bypass == {"status", "shutdown"}
Kind == Bypass \cup {"remote"}

\* "none": not made yet; "authorized": authorizedSession returned the session;
\* "begun": past beginBridgeRequest; "working": past the maintenance check;
\* "answered": a shutdown call before its context ends.
NoRequest == [pc |-> "none", session |-> 0, kind |-> "remote", counted |-> FALSE]

\* "counted": found no active session; "active": set the flag, and operates.
MaintenanceState == {"none", "counted", "active"}

\* The process ends once the bridge is down and its callbacks have run.
Up == phase # "down"

Open(s) == session[s].state = "open"
OpenSessions == {s \in Session : Open(s)}
Opened == Cardinality({s \in Session : session[s].state # "unused"})
SessionsOf(o) == {s \in OpenSessions : session[s].owner = o}
Counted == {r \in Requests : request[r].counted}

Capability == [state : {"unused", "open", "gone"}, owner : Owners, fresh : BOOLEAN]

Request == [pc : {"none", "authorized", "begun", "working", "answered", "done"},
            session : 0..MaxSessions, kind : Kind, counted : BOOLEAN]

Notice == [owner : Owners, known : Session]

TypeOK ==
    /\ phase \in Phase
    /\ alive \subseteq Owners
    /\ session \in [Session -> Capability]
    /\ owners \in [Owners -> 0..MaxSessions]
    /\ notices \subseteq Notice
    /\ work \subseteq Session
    /\ request \in [Requests -> Request]
    /\ activeRequests \in 0..Cardinality(Requests)
    /\ early \in 0..Cardinality(Requests)
    /\ quiet \in BOOLEAN
    /\ maintenance \in [Maintainers -> MaintenanceState]
    /\ maintenanceActive \in BOOLEAN
    /\ stop \in BOOLEAN

Init ==
    /\ phase = "listening"
    /\ alive = Owners
    /\ session = [s \in Session |-> [state |-> "unused", owner |-> CHOOSE o \in Owners : TRUE, fresh |-> FALSE]]
    /\ owners = [o \in Owners |-> 0]
    /\ notices = {}
    /\ work = {}
    /\ request = [r \in Requests |-> NoRequest]
    /\ activeRequests = 0
    /\ early = 0
    /\ quiet = FALSE
    /\ maintenance = [m \in Maintainers |-> "none"]
    /\ maintenanceActive = FALSE
    /\ stop = FALSE

-----------------------------------------------------------------------------
(* Capabilities *)

\* handleOpen: the next capability is registered and counted for its owner.
handleOpen(o) ==
    /\ Up
    /\ o \in alive
    /\ Opened < MaxSessions
    /\ session' = [session EXCEPT ![Opened + 1] = [state |-> "open", owner |-> o, fresh |-> TRUE]]
    /\ owners' = [owners EXCEPT ![o] = @ + 1]
    /\ UNCHANGED <<phase, alive, notices, work, serving, quiet, maintaining, stop>>

\* releaseOwnerLocked, for n capabilities of one owner.
Remaining(o, n) == IF owners[o] <= n THEN 0 ELSE owners[o] - n

LastForOwner_OffByOne(o, n) == owners[o] <= n + 1

LastForOwner(o, n) == owners[o] <= n

\* The capabilities in the set "removed" leave the table; for every owner that
\* loses its last one a callback is due.
Remove(removed, kept) ==
    LET n(o) == Cardinality({s \in removed : session[s].owner = o})
        losing == {o \in Owners : n(o) > 0}
    IN /\ session' = [s \in Session |->
                        IF s \in removed THEN [session[s] EXCEPT !.state = "gone", !.fresh = FALSE]
                        ELSE IF s \in kept THEN [session[s] EXCEPT !.fresh = TRUE]
                        ELSE session[s]]
       /\ owners' = [o \in Owners |-> IF o \in losing THEN Remaining(o, n(o)) ELSE owners[o]]
       /\ notices' = notices \cup {[owner |-> o, known |-> Opened] :
                                     o \in {p \in losing : LastForOwner(p, n(p))}}

\* handleClose and removeSession.
handleClose(s) ==
    /\ Open(s) /\ session[s].owner \in alive
    /\ Remove({s}, {})
    /\ UNCHANGED <<phase, alive, work, serving, quiet, maintaining, stop>>

\* expireSessions: of the capabilities unused for longer than sessionTTL, those
\* of a process that still runs are refreshed and the others are removed.
sessionOwnerAlive_Always(s) == TRUE

sessionOwnerAlive(s) == session[s].owner \in alive

expireSessions ==
    LET unused == {s \in OpenSessions : ~session[s].fresh}
    IN Remove({s \in unused : ~sessionOwnerAlive(s)}, {s \in unused : sessionOwnerAlive(s)})

\* monitorOwners, one tick of its ticker.
monitorOwners ==
    /\ \E s \in OpenSessions : ~session[s].fresh
    /\ expireSessions
    /\ UNCHANGED <<phase, alive, work, serving, quiet, maintaining, stop>>

\* notifyClosed calls back: every work session of the owner ends.
clearBridgeOwner(o) == {s \in work : session[s].owner # o}

notifyClosed(n) ==
    /\ n \in notices
    /\ notices' = notices \ {n}
    /\ work' = clearBridgeOwner(n.owner)
    /\ UNCHANGED <<phase, alive, session, owners, serving, quiet, maintaining, stop>>

\* sessionTTL passes without a call through the capability.
TTLPasses(s) ==
    /\ Open(s) /\ session[s].fresh
    /\ session' = [session EXCEPT ![s].fresh = FALSE]
    /\ UNCHANGED <<phase, alive, owners, notices, work, serving, quiet, maintaining, stop>>

\* A client process ends without closing its capabilities.
OwnerDies(o) ==
    /\ Up
    /\ o \in alive
    /\ alive' = alive \ {o}
    /\ UNCHANGED <<phase, session, owners, notices, work, serving, quiet, maintaining, stop>>

-----------------------------------------------------------------------------
(* Calls *)

\* authorizedSession, for a heartbeat, which goes no further.
Heartbeat(s) ==
    /\ Open(s) /\ session[s].owner \in alive /\ ~session[s].fresh
    /\ session' = [session EXCEPT ![s].fresh = TRUE]
    /\ UNCHANGED <<phase, alive, owners, notices, work, serving, quiet, maintaining, stop>>

\* handleCall up to the handler; an unknown capability is refused.
authorizedSession(r, s, kind) ==
    /\ request[r].pc = "none"
    /\ Open(s) /\ session[s].owner \in alive
    /\ session' = [session EXCEPT ![s].fresh = TRUE]
    /\ request' = [request EXCEPT ![r] = [NoRequest EXCEPT !.pc = "authorized", !.kind = kind,
                                                           !.session = IF kind = "remote" THEN s ELSE 0]]
    /\ UNCHANGED <<phase, alive, owners, notices, work, activeRequests, early, quiet, maintaining, stop>>

\* beginBridgeRequest counts the request only between Start and Close; the
\* function it returns will subtract one in either case.
beginBridgeRequest(r) ==
    /\ Up
    /\ request[r].pc = "authorized"
    /\ LET counted == phase = "serving"
       IN /\ request' = [request EXCEPT ![r].pc = "begun", ![r].counted = counted]
          /\ activeRequests' = IF counted THEN activeRequests + 1 ELSE activeRequests
          /\ early' = IF phase = "listening" THEN early + 1 ELSE early
          /\ quiet' = IF counted THEN FALSE ELSE quiet
    /\ UNCHANGED <<phase, capabilities, work, maintaining, stop>>

\* handleBridge: some methods are dispatched at once, the others only if no
\* maintenance is in progress.
Served(r) == request[r].kind \in Bypass \/ ~maintenanceActive

AfterFinish_Twice == IF activeRequests > 1 THEN activeRequests - 2 ELSE 0

AfterFinish == IF activeRequests > 0 THEN activeRequests - 1 ELSE 0

\* The handler returns and the deferred finish runs; a shutdown call then
\* waits for its context to end.
Finish(r) ==
    /\ activeRequests' = AfterFinish
    /\ request' = [request EXCEPT ![r] =
                     [NoRequest EXCEPT !.pc = IF request[r].kind = "shutdown" THEN "answered" ELSE "done"]]

handleBridge(r) ==
    /\ Up
    /\ request[r].pc = "begun"
    /\ \/ /\ Served(r)
          /\ request' = [request EXCEPT ![r].pc = "working"]
          /\ UNCHANGED activeRequests
       \/ /\ ~Served(r)
          /\ Finish(r)
    /\ UNCHANGED <<phase, capabilities, work, early, quiet, maintaining, stop>>

\* The method runs.  status counts the sessions, and so expires them first;
\* a remote operation may leave a work session of the owner behind.
Perform(r) ==
    /\ Up
    /\ request[r].pc = "working"
    /\ \/ /\ request[r].kind = "status"
          /\ expireSessions
          /\ work' = work
       \/ /\ request[r].kind = "remote"
          /\ work' = work \cup {request[r].session}
          /\ UNCHANGED <<session, owners, notices>>
       \/ /\ request[r].kind # "status"
          /\ UNCHANGED <<session, owners, notices, work>>
    /\ Finish(r)
    /\ UNCHANGED <<phase, alive, early, quiet, maintaining, stop>>

\* requestShutdownAfterResponse: the response is written, the context ends.
requestShutdown(r) ==
    /\ Up
    /\ request[r].pc = "answered"
    /\ request' = [request EXCEPT ![r].pc = "done"]
    /\ stop' = TRUE
    /\ UNCHANGED <<phase, capabilities, work, activeRequests, early, quiet, maintaining>>

-----------------------------------------------------------------------------
(* Maintenance: withExclusiveMaintenance *)

\* touchActivity, then ActiveSessions, which expires sessions and counts the
\* ones that are left; with one left the operation is refused.
ActiveSessions(m) ==
    /\ Up
    /\ maintenance[m] = "none"
    /\ expireSessions
    /\ maintenance' = [maintenance EXCEPT ![m] =
                         IF \E s \in Session : session'[s].state = "open" THEN "none" ELSE "counted"]
    /\ quiet' = IF phase = "serving" THEN FALSE ELSE quiet
    /\ UNCHANGED <<phase, alive, work, serving, maintenanceActive, stop>>

\* Mutant: the function that resets the flag is deferred before the flag is
\* looked at, so that a refused operation resets it.
SetMaintenance_ResetsFlag(m) ==
    /\ Up
    /\ maintenance[m] = "counted"
    /\ maintenance' = [maintenance EXCEPT ![m] = IF maintenanceActive THEN "none" ELSE "active"]
    /\ maintenanceActive' = ~maintenanceActive
    /\ UNCHANGED <<phase, capabilities, work, serving, quiet, stop>>

\* The flag is set, or found set by another goroutine.
SetMaintenance(m) ==
    /\ Up
    /\ maintenance[m] = "counted"
    /\ maintenance' = [maintenance EXCEPT ![m] = IF maintenanceActive THEN "none" ELSE "active"]
    /\ maintenanceActive' = TRUE
    /\ UNCHANGED <<phase, capabilities, work, serving, quiet, stop>>

\* The operation has returned and the deferred function resets the flag.
MaintenanceEnds(m) ==
    /\ Up
    /\ maintenance[m] = "active"
    /\ maintenance' = [maintenance EXCEPT ![m] = "none"]
    /\ maintenanceActive' = FALSE
    /\ UNCHANGED <<phase, capabilities, work, serving, quiet, stop>>

-----------------------------------------------------------------------------
(* The daemon *)

\* Runtime.Start sets started after both servers listen and the PID is written.
Start ==
    /\ phase = "listening"
    /\ phase' = "serving"
    /\ UNCHANGED <<capabilities, work, serving, quiet, maintaining, stop>>

\* daemonIdleTimeout passes without activity, while WaitForIdle looks.
IdleTimeoutPasses ==
    /\ phase = "serving" /\ ~stop /\ ~quiet
    /\ quiet' = TRUE
    /\ UNCHANGED <<phase, capabilities, work, serving, maintaining, stop>>

\* WaitForIdle returns.  An active TUI only delays it.
WaitForIdle ==
    /\ phase = "serving" /\ ~stop
    /\ quiet /\ activeRequests = 0
    /\ stop' = TRUE
    /\ UNCHANGED <<phase, capabilities, work, serving, quiet, maintaining>>

\* runDaemon leaves its loop, nobody looks at lastActivity any more, and
\* Runtime.Close sets closed.
CloseRuntime ==
    /\ phase = "serving" /\ stop
    /\ phase' = "closing"
    /\ quiet' = FALSE
    /\ UNCHANGED <<capabilities, work, serving, maintaining, stop>>

\* Once the dispatch barrier and the SSH pool are drained (module RuntimeLock),
\* workSessions.Clear.
ClearWorkSessions ==
    /\ phase = "closing"
    /\ phase' = "cleared"
    /\ work' = {}
    /\ UNCHANGED <<capabilities, serving, quiet, maintaining, stop>>

\* Server.Close: every capability goes, and every owner that had one is told.
CloseBridge ==
    /\ phase = "cleared"
    /\ phase' = "down"
    /\ session' = [s \in Session |-> IF Open(s) THEN [session[s] EXCEPT !.state = "gone", !.fresh = FALSE] ELSE session[s]]
    /\ owners' = [o \in Owners |-> 0]
    /\ notices' = notices \cup {[owner |-> session[s].owner, known |-> Opened] : s \in OpenSessions}
    /\ UNCHANGED <<alive, work, serving, quiet, maintaining, stop>>

-----------------------------------------------------------------------------
Call(r) ==
    \/ \E s \in Session, kind \in Kind : authorizedSession(r, s, kind)
    \/ beginBridgeRequest(r) \/ handleBridge(r) \/ Perform(r) \/ requestShutdown(r)

Maintain(m) ==
    ActiveSessions(m) \/ SetMaintenance(m) \/ MaintenanceEnds(m)

Daemon ==
    Start \/ IdleTimeoutPasses \/ WaitForIdle \/ CloseRuntime \/ ClearWorkSessions \/ CloseBridge

Next ==
    \/ \E o \in Owners : handleOpen(o) \/ OwnerDies(o)
    \/ \E s \in Session : handleClose(s) \/ TTLPasses(s) \/ Heartbeat(s)
    \/ monitorOwners
    \/ \E r \in Requests : Call(r)
    \/ \E m \in Maintainers : Maintain(m)
    \/ Daemon
    \/ \E n \in notices : notifyClosed(n)

Spec == Init /\ [][Next]_vars

\* The monitor's ticker ticks, a callback that is due runs, and the time to
\* live of a capability that nobody uses any more passes.
FairSpec ==
    /\ Spec
    /\ WF_vars(monitorOwners)
    /\ WF_vars(\E s \in Session : session[s].owner \notin alive /\ TTLPasses(s))
    /\ WF_vars(\E n \in notices : notifyClosed(n))

-----------------------------------------------------------------------------
\* Outside shutdown, the callback of bridge.go:293 ends the work session of a
\* capability that is still open only when that capability was opened after
\* the owner had lost its last one: closing or expiring one capability of a
\* client leaves the work of its others alone, whatever is opened meanwhile.
ClearSparesOthers ==
    [][\A s \in work \ work' :
          Open(s) /\ phase' # "cleared" =>
              \E n \in notices \ notices' : n.owner = session[s].owner /\ n.known < s]_vars

\* "exclusive maintenance" (runtime.go:47): as long as a maintenance operation
\* runs, no other one begins and no request but the four exempt ones is let in,
\* whoever else tries, is refused and returns meanwhile.  Requests let in
\* before the flag was set run on beside it.
MaintenanceIsExclusive ==
    [][\A m \in Maintainers : maintenance[m] = "active" /\ maintenance'[m] = "active" =>
          /\ \A n \in Maintainers : maintenance'[n] = "active" => n = m
          /\ \A r \in Requests : request[r].pc = "begun" /\ request'[r].pc = "working" =>
                request[r].kind \in Bypass]_vars

\* The daemon goes idle (runtime.go:423) under at most as many requests as
\* came before Start had set started: those are not counted when they begin,
\* but each takes one off the count when it ends.
IdleExitIsIdle ==
    [][WaitForIdle => Cardinality(Counted) <= early]_vars

\* The capabilities of a client that died are found and removed, and the
\* callbacks that end its work sessions run, without anybody calling in.
DeadOwnerIsCleared ==
    \A o \in Owners :
        o \notin alive ~> SessionsOf(o) = {} /\ \A n \in notices : n.owner # o

=============================================================================
