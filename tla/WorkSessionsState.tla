------------------------- MODULE WorkSessionsState -------------------------
(***************************************************************************)
(* The state of the work sessions, and what is promised about their ends   *)
(* and their expiry.  WorkSessions says how it changes.                    *)
(***************************************************************************)
EXTENDS Integers, FiniteSets

CONSTANTS
    Users,          \* goroutines
    Sessions,       \* records, with their IDs
    Owners,         \* bridge identities
    Targets,        \* SSH targets
    IdleTimeout,    \* Store.idleTimeout, in ticks
    MaxTime,        \* bound on the clock
    None

ASSUME IdleAssumption == IdleTimeout \in Nat \ {0}
ASSUME MaxTimeAssumption == MaxTime \in Nat

\* The goroutine of an expire callback, or the one acquireContext leaves
\* behind when its context is done.
Background == "background"

Session == [owner : Owners, target : Targets, expiresAt : Nat]

ASSUME NoneAssumption ==
    None \notin Users \cup Sessions \cup Owners \cup Targets \cup Session \cup {Background}

VARIABLES
    now,            \* the clock
    sessions,       \* Store.sessions: the IDs in the map
    expired,        \* Store.expired
    session,        \* record.session: owner, target and ExpiresAt
    gate,           \* record.leaseGate holds its token
    dispatching,    \* record.dispatching, and dispatchDone is not nil
    timer,          \* record.timer is armed, for ExpiresAt
    fired,          \* expire callbacks that have not entered the mutex
    pc,             \* where each goroutine is
    using,          \* the record its Acquire or Lease points to
    notifier,       \* who has yet to report an ended session
    awaits,         \* that goroutine has to receive from dispatchDone
    notified        \* history: calls of onInvalidated per session

-----------------------------------------------------------------------------
Opened(s) == session[s] # None
Ended(s) == Opened(s) /\ s \notin sessions

Due(s) == now >= session[s].expiresAt

\* The end of a session, upon which its SSH connection is closed, is reported
\* exactly once and after its last command.  Whoever reports it has waited for
\* the command in flight and none starts afterwards, although Begin and
\* FinishDispatch, the invalidation and the wait are four separate steps; and
\* when two endings race (a timer and a Close, Clear during an expiring
\* Acquire) one goroutine is left with the duty, or has done it.
EndIsReportedRight ==
    /\ \A u \in Users : pc[u] = "sending" => notified[using[u]] = 0
    /\ \A s \in Sessions :
          notified[s] + (IF notifier[s] = None THEN 0 ELSE 1) = (IF Ended(s) THEN 1 ELSE 0)

\* A session is given up as expired only past its deadline: a callback that
\* started before Accept moved the deadline does not end the session.
NoEarlyExpiry ==
    [][\A s \in Sessions : s \in sessions /\ s \in expired' \ expired => Due(s)]_expired

=============================================================================
