---------------------------- MODULE WorkSessions ----------------------------
(***************************************************************************)
(* The SSH work sessions of internal/worksession/session.go.               *)
(*                                                                         *)
(* A session is leased to one operation at a time through a gate that      *)
(* holds one token.  It ends by Close, ClearTarget, ClearOwner, Clear or   *)
(* its idle timer.  Whoever ends it takes it out of the map under the      *)
(* mutex, then waits for the command that session may have in flight, and  *)
(* only then reports it invalidated, on which the SSH connection is        *)
(* closed.                                                                 *)
(*                                                                         *)
(* The critical sections of Store.mu are the atomic steps.  A record and   *)
(* its random ID are one value, a member of Sessions, used once.  Closing  *)
(* dispatchDone, right after the critical section of FinishDispatch, is    *)
(* merged into it: a goroutine that waits on the channel takes its own     *)
(* step later.                                                             *)
(***************************************************************************)
EXTENDS WorkSessionsState

vars == <<now, sessions, expired, session, gate, dispatching, timer, fired,
          pc, using, notifier, awaits, notified>>

-----------------------------------------------------------------------------
\* "gate": in the select of acquireContext; "token": past it, before the
\* second critical section; "leased": holds a Lease; "sending": between
\* BeginDispatch and FinishDispatch; "sent": after it; "draining": ended
\* sessions and waits for their commands; "expiring": the same in
\* acquireContext, where the wait obeys a context; "leaving": about to put the
\* token back.
UserState == {"idle", "gate", "token", "leased", "sending", "sent",
              "draining", "expiring", "leaving"}

TypeOK ==
    /\ now \in Nat
    /\ sessions \in SUBSET Sessions
    /\ expired \in SUBSET Sessions
    /\ session \in [Sessions -> Session \cup {None}]
    /\ gate \in [Sessions -> BOOLEAN]
    /\ dispatching \in [Sessions -> BOOLEAN]
    /\ timer \in [Sessions -> BOOLEAN]
    /\ fired \in SUBSET (Sessions \X Nat)
    /\ pc \in [Users -> UserState]
    /\ using \in [Users -> Sessions \cup {None}]
    /\ notifier \in [Sessions -> Users \cup {None, Background}]
    /\ awaits \in [Sessions -> BOOLEAN]
    /\ notified \in [Sessions -> Nat]
    /\ \A u \in Users : pc[u] = "idle" => using[u] = None

Init ==
    /\ now = 0
    /\ sessions = {}
    /\ expired = {}
    /\ session = [s \in Sessions |-> None]
    /\ gate = [s \in Sessions |-> FALSE]
    /\ dispatching = [s \in Sessions |-> FALSE]
    /\ timer = [s \in Sessions |-> FALSE]
    /\ fired = {}
    /\ pc = [u \in Users |-> "idle"]
    /\ using = [u \in Users |-> None]
    /\ notifier = [s \in Sessions |-> None]
    /\ awaits = [s \in Sessions |-> FALSE]
    /\ notified = [s \in Sessions |-> 0]

GoTo(u, state) == pc' = [pc EXCEPT ![u] = state]

-----------------------------------------------------------------------------
(* Opening and ending *)

\* Open / OpenForOwner: a new record with a full gate and an armed timer.
open(u, s, o, t) ==
    /\ pc[u] = "idle"
    /\ ~Opened(s)
    /\ session' = [session EXCEPT ![s] =
            [owner |-> o, target |-> t, expiresAt |-> now + IdleTimeout]]
    /\ sessions' = sessions \cup {s}
    /\ gate' = [gate EXCEPT ![s] = TRUE]
    /\ timer' = [timer EXCEPT ![s] = TRUE]
    /\ UNCHANGED <<now, expired, dispatching, fired, pc, using, notifier, awaits, notified>>

\* Mutant: an ended session does not wait for its command.
invalidateLocked_NoWait(S, who) ==
    /\ sessions' = sessions \ S
    /\ timer' = [s \in Sessions |-> s \notin S /\ timer[s]]
    /\ notifier' = [s \in Sessions |-> IF s \in S THEN who ELSE notifier[s]]
    /\ UNCHANGED awaits

\* invalidateLocked for every session of S: out of the map, timer stopped,
\* dispatchDone captured by the goroutine that ends it.
invalidateLocked(S, who) ==
    /\ sessions' = sessions \ S
    /\ timer' = [s \in Sessions |-> s \notin S /\ timer[s]]
    /\ notifier' = [s \in Sessions |-> IF s \in S THEN who ELSE notifier[s]]
    /\ awaits' = [s \in Sessions |-> IF s \in S THEN dispatching[s] ELSE awaits[s]]

\* The critical section of Close, ClearTarget, ClearOwner and Clear.  The
\* runner calls them from goroutines that hold no lease, and from one that
\* holds a lease outside a dispatch (validateSSHSession,
\* invalidateSSHWorkSession), which then releases it.
End(u, S) ==
    /\ pc[u] \in {"idle", "leased", "sent"}
    /\ invalidateLocked(S, u)
    /\ GoTo(u, "draining")
    /\ UNCHANGED <<now, session, gate, dispatching, fired, using, notified>>

\* A session that is not in the map is only dropped from expired.
closeForOwner(u, o, s) ==
    /\ using[u] \in {None, s}
    /\ \/ /\ s \in sessions /\ session[s].owner = o
          /\ End(u, {s})
          /\ UNCHANGED expired
       \/ /\ pc[u] \in {"idle", "sent"}
          /\ s \in expired
          /\ expired' = expired \ {s}
          /\ UNCHANGED <<now, sessions, session, gate, dispatching, timer, fired,
                         pc, using, notifier, awaits, notified>>

ClearTarget(u, t) ==
    /\ End(u, {s \in sessions : session[s].target = t})
    /\ UNCHANGED expired

ClearOwner(u, o) ==
    /\ End(u, {s \in sessions : session[s].owner = o})
    /\ UNCHANGED expired

Clear(u) ==
    /\ End(u, sessions)
    /\ expired' = {}

-----------------------------------------------------------------------------
(* Reporting ended sessions *)

Duties(who) == {s \in Sessions : notifier[s] = who}
Drained(s) == ~awaits[s] \/ ~dispatching[s]

\* notifyInvalidated, after waitForDispatches has received from every channel.
Notify(u, s) ==
    /\ pc[u] \in {"draining", "expiring"}
    /\ s \in Duties(u)
    /\ \A d \in Duties(u) : Drained(d)
    /\ notified' = [notified EXCEPT ![s] = @ + 1]
    /\ notifier' = [notifier EXCEPT ![s] = None]
    /\ UNCHANGED <<now, sessions, expired, session, gate, dispatching, timer, fired,
                   pc, using, awaits>>

\* The ending operation returns.
EndReturns(u) ==
    /\ pc[u] \in {"draining", "expiring"}
    /\ Duties(u) = {}
    /\ GoTo(u, IF using[u] = None THEN "idle" ELSE "leaving")
    /\ UNCHANGED <<now, sessions, expired, session, gate, dispatching, timer, fired,
                   using, notifier, awaits, notified>>

\* The same wait and report in the goroutine of an expire callback or in the
\* one that waitForInvalidatedSession starts.
BackgroundNotify(s) ==
    /\ notifier[s] = Background
    /\ Drained(s)
    /\ notified' = [notified EXCEPT ![s] = @ + 1]
    /\ notifier' = [notifier EXCEPT ![s] = None]
    /\ UNCHANGED <<now, sessions, expired, session, gate, dispatching, timer, fired,
                   pc, using, awaits>>

-----------------------------------------------------------------------------
(* acquireContext *)

\* A session found past its deadline is ended and remembered as expired.
EndExpired(u, s) ==
    /\ invalidateLocked({s}, u)
    /\ expired' = expired \cup {s}
    /\ GoTo(u, "expiring")
    /\ UNCHANGED <<now, session, gate, dispatching, fired, notified>>

\* The first critical section.  Unknown IDs and other owners are turned away
\* without a step.
Acquire(u, o, s) ==
    /\ pc[u] = "idle"
    /\ s \in sessions
    /\ session[s].owner = o
    /\ \/ Due(s) /\ EndExpired(u, s) /\ UNCHANGED using
       \/ /\ ~Due(s)
          /\ GoTo(u, "gate")
          /\ using' = [using EXCEPT ![u] = s]
          /\ UNCHANGED <<now, sessions, expired, session, gate, dispatching, timer,
                         fired, notifier, awaits, notified>>

\* case <-record.leaseGate
TakeToken(u) ==
    /\ pc[u] = "gate"
    /\ gate[using[u]]
    /\ gate' = [gate EXCEPT ![using[u]] = FALSE]
    /\ GoTo(u, "token")
    /\ UNCHANGED <<now, sessions, expired, session, dispatching, timer, fired,
                   using, notifier, awaits, notified>>

\* case <-ctx.Done()
GiveUpGate(u) ==
    /\ pc[u] = "gate"
    /\ GoTo(u, "idle")
    /\ using' = [using EXCEPT ![u] = None]
    /\ UNCHANGED <<now, sessions, expired, session, gate, dispatching, timer, fired,
                   notifier, awaits, notified>>

\* The session a goroutine waited for is still the one in the map.
StillValid(u) == using[u] \in sessions

\* The second critical section: what was checked before the wait is checked
\* again.  On failure, or when the context is done, the token goes back.
Confirm(u) ==
    /\ pc[u] = "token"
    /\ \/ /\ StillValid(u) /\ ~Due(using[u])
          /\ GoTo(u, "leased")
          /\ UNCHANGED <<now, sessions, expired, session, gate, dispatching, timer,
                         fired, using, notifier, awaits, notified>>
       \/ StillValid(u) /\ Due(using[u]) /\ EndExpired(u, using[u]) /\ UNCHANGED using
       \/ /\ GoTo(u, "leaving")
          /\ UNCHANGED <<now, sessions, expired, session, gate, dispatching, timer,
                         fired, using, notifier, awaits, notified>>

\* Mutant: the wait is given up and nobody goes on with it.
HandOff_Dropped(u) ==
    /\ pc[u] = "expiring"
    /\ \E s \in Duties(u) : ~Drained(s) /\ notifier' = [notifier EXCEPT ![s] = None]
    /\ GoTo(u, IF using[u] = None THEN "idle" ELSE "leaving")
    /\ UNCHANGED <<now, sessions, expired, session, gate, dispatching, timer, fired,
                   using, awaits, notified>>

\* waitForInvalidatedSession with its context done: a goroutine of its own
\* finishes the wait.  This happens only in the first critical section of
\* acquireContext: after the second one the goroutine holds the token, and
\* there is no command to wait for.
HandOff(u) ==
    /\ pc[u] = "expiring"
    /\ \E s \in Duties(u) :
          /\ ~Drained(s)
          /\ notifier' = [notifier EXCEPT ![s] = Background]
    /\ GoTo(u, IF using[u] = None THEN "idle" ELSE "leaving")
    /\ UNCHANGED <<now, sessions, expired, session, gate, dispatching, timer, fired,
                   using, awaits, notified>>

-----------------------------------------------------------------------------
(* Lease *)

\* acceptLocked: a new deadline, and the timer armed for it.
acceptLocked(s) ==
    /\ session' = [session EXCEPT ![s].expiresAt = now + IdleTimeout]
    /\ timer' = [timer EXCEPT ![s] = TRUE]

\* Accept after a command, or SetContext instead of one.  A session ended
\* meanwhile is left alone.
Accept(u) ==
    /\ pc[u] \in {"leased", "sent"}
    /\ using[u] \in sessions
    /\ acceptLocked(using[u])
    /\ GoTo(u, "leaving")
    /\ UNCHANGED <<now, sessions, expired, gate, dispatching, fired, using,
                   notifier, awaits, notified>>

\* A session ended since it was leased does not dispatch.
BeginDispatch(u) ==
    /\ pc[u] = "leased"
    /\ using[u] \in sessions
    /\ ~dispatching[using[u]]
    /\ dispatching' = [dispatching EXCEPT ![using[u]] = TRUE]
    /\ GoTo(u, "sending")
    /\ UNCHANGED <<now, sessions, expired, session, gate, timer, fired, using,
                   notifier, awaits, notified>>

FinishDispatch(u) ==
    /\ pc[u] = "sending"
    /\ dispatching' = [dispatching EXCEPT ![using[u]] = FALSE]
    /\ GoTo(u, "sent")
    /\ UNCHANGED <<now, sessions, expired, session, gate, timer, fired, using,
                   notifier, awaits, notified>>

\* Release, and the deferred return of the token in acquireContext.
Release(u) ==
    /\ pc[u] \in {"leased", "sent", "leaving"}
    /\ gate' = [gate EXCEPT ![using[u]] = TRUE]
    /\ GoTo(u, "idle")
    /\ using' = [using EXCEPT ![u] = None]
    /\ UNCHANGED <<now, sessions, expired, session, dispatching, timer, fired,
                   notifier, awaits, notified>>

-----------------------------------------------------------------------------
(* Timers *)

Tick ==
    /\ now < MaxTime
    /\ now' = now + 1
    /\ UNCHANGED <<sessions, expired, session, gate, dispatching, timer, fired, pc,
                   using, notifier, awaits, notified>>

\* The runtime starts the callback.  timer.Stop no longer prevents it.
Fire(s) ==
    /\ timer[s]
    /\ Due(s)
    /\ timer' = [timer EXCEPT ![s] = FALSE]
    /\ fired' = fired \cup {<<s, session[s].expiresAt>>}
    /\ UNCHANGED <<now, sessions, expired, session, gate, dispatching, pc, using,
                   notifier, awaits, notified>>

\* Mutant: the callback does not compare its deadline with the session's.
Current_Any(s, expiresAt) == s \in sessions

\* expire acts only for the deadline it was armed for.
Current(s, expiresAt) == s \in sessions /\ session[s].expiresAt = expiresAt

\* The critical section of expire.
expire(s, expiresAt) ==
    /\ <<s, expiresAt>> \in fired
    /\ fired' = fired \ {<<s, expiresAt>>}
    /\ \/ /\ Current(s, expiresAt)
          /\ invalidateLocked({s}, Background)
          /\ expired' = expired \cup {s}
       \/ /\ ~Current(s, expiresAt)
          /\ UNCHANGED <<sessions, timer, notifier, awaits, expired>>
    /\ UNCHANGED <<now, session, gate, dispatching, pc, using, notified>>

\* The callback of rememberExpiredLocked, a minute later.
ForgetExpired(s) ==
    /\ s \in expired
    /\ expired' = expired \ {s}
    /\ UNCHANGED <<now, sessions, session, gate, dispatching, timer, fired, pc,
                   using, notifier, awaits, notified>>

-----------------------------------------------------------------------------
UserStep(u) ==
    \/ \E s \in Sessions, o \in Owners, t \in Targets : open(u, s, o, t)
    \/ \E s \in Sessions, o \in Owners : closeForOwner(u, o, s) \/ Acquire(u, o, s)
    \/ \E t \in Targets : ClearTarget(u, t)
    \/ \E o \in Owners : ClearOwner(u, o)
    \/ Clear(u)
    \/ \E s \in Sessions : Notify(u, s)
    \/ EndReturns(u) \/ HandOff(u)
    \/ TakeToken(u) \/ GiveUpGate(u) \/ Confirm(u)
    \/ Accept(u) \/ BeginDispatch(u) \/ FinishDispatch(u) \/ Release(u)

TimerStep(s) ==
    \/ Fire(s)
    \/ \E at \in 0..(MaxTime + IdleTimeout) : expire(s, at)
    \/ BackgroundNotify(s)
    \/ ForgetExpired(s)

Next ==
    \/ \E u \in Users : UserStep(u)
    \/ \E s \in Sessions : TimerStep(s)
    \/ Tick

Spec == Init /\ [][Next]_vars

\* A goroutine inside an operation goes on: commands run under a bounded
\* context and leases are released by defer.
Progress(u) ==
    \/ TakeToken(u) \/ Confirm(u) \/ FinishDispatch(u) \/ Release(u)
    \/ EndReturns(u) \/ \E s \in Sessions : Notify(u, s)

\* A Go channel serves its receivers in order, so a goroutine at a gate that
\* opens again and again is served (SF).  Time passes and timers fire.
Fairness ==
    /\ \A u \in Users : WF_vars(Progress(u)) /\ SF_vars(TakeToken(u))
    /\ \A s \in Sessions :
          /\ WF_vars(Fire(s))
          /\ WF_vars(\E at \in 0..(MaxTime + IdleTimeout) : expire(s, at))
          /\ WF_vars(BackgroundNotify(s))
    /\ WF_vars(Tick)

FairSpec == Spec /\ Fairness

-----------------------------------------------------------------------------
(* Properties *)

\* Sessions come to their end: one that nobody uses ends past its deadline,
\* unless an operation has moved it (MaxTime bounds the deadlines considered);
\* and however a session was ended, its command ends and the report is made,
\* also when the caller that found it expired gave up waiting.
SessionsSettle ==
    /\ \A s \in Sessions, d \in IdleTimeout..MaxTime :
          s \in sessions /\ session[s].expiresAt = d
              ~> s \notin sessions \/ session[s].expiresAt # d
    /\ \A s \in Sessions : Ended(s) ~> notified[s] = 1

=============================================================================
