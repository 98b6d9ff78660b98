----------------------------- MODULE RuntimeLock -----------------------------
(***************************************************************************)
(* Locking, unlocking, key maintenance and shutdown of the daemon:         *)
(* handleControl, prepareForceStop and Close of internal/app/runtime.go,   *)
(* over the dispatch barrier (module DispatchBarrier, whose actions are    *)
(* used as they are), the vault of internal/session/manager.go, the        *)
(* suspension of the SSH pool and the clearing of the work sessions.       *)
(*                                                                         *)
(* Each control request runs in a goroutine of its own.  All of them but   *)
(* "lock", which first closes the barrier, begin by taking sshLifecycleMu. *)
(* A vault object is never reused: locking it erases its key, and the next *)
(* unlock makes another one, so operations that kept the old one fail.     *)
(***************************************************************************)
EXTENDS DispatchBarrierState

CONSTANTS
    MaxVaults,  \* bound on the number of vault objects
    Nobody      \* sshLifecycleMu is free

ASSUME NobodyAssumption == Nobody \notin Controls
ASSUME MaxVaultsAssumption == MaxVaults \in Nat \ {0}

VARIABLES
    vault,      \* Manager.vault: the number of the object, 0 for nil
    vaults,     \* vault objects made so far
    suspended,  \* the SSH pool is suspended
    shut,       \* the SSH pool is closed for good
    mu,         \* the holder of sshLifecycleMu
    ctl,        \* where each control goroutine is
    operation,  \* where each remote operation is, its kind, vault and right
    lockHolds,  \* history: "lock" or Close has returned, and no "unlock" since
    forceStop   \* history: prepareForceStop has run

barrierVars == <<locked, inFlight, drained, closed, lease, closing, locker,
                 captured, unbroken>>
lifecycle == <<vault, vaults, suspended, shut, mu, ctl, lockHolds, forceStop>>
vars == <<locked, inFlight, drained, closed, lease, closing, locker, captured,
          unbroken, vault, vaults, suspended, shut, mu, ctl, operation, lockHolds,
          forceStop>>

Barrier == INSTANCE DispatchBarrier WITH Callers <- Callers, Controls <- Controls

-----------------------------------------------------------------------------
\* "locking": in LockDispatch, or past it and without sshLifecycleMu;
\* "reopening": LockDispatch failed, before UnlockDispatch.  The others hold
\* the mutex: "suspending", "rotating" and "draining" wait in ssh.Suspend, for
\* "lock", key maintenance and Close; "closing" waits in Close's LockDispatch;
\* "clearing" ("lock" and Close) and "forgetting" (key maintenance) wait in
\* workSessions.Clear; "unlocked" and "resumed" are inside "unlock".
ControlState == {"idle", "locking", "reopening", "suspending", "unlocked", "resumed",
                 "rotating", "closing", "draining", "clearing", "forgetting"}

\* What an operation needs besides the barrier: an SSH operation on a pooled
\* connection needs a target lease of the pool; a command of a work session,
\* on a connection of its own, needs its session; a database operation needs
\* nothing more, and the test of a candidate configuration may even bring its
\* own password.
Kinds == {"pooled", "session", "database", "candidate"}

\* "joined": holds the lease of a work session; "vetted": e.vault() returned a
\* vault; "reserved": past the session lease's BeginDispatch; "dispatched":
\* past the barrier; "leased": the SSH pool gave a target lease; "keyed": the
\* credential is there; "remote": dialing or using the connection.
\* right: the target lease or the session: "revoked" by ssh.Suspend, or by the
\* Clear of a control request; "ended": the session was ended by anybody else.
Operation == [pc : {"idle", "joined", "vetted", "reserved", "dispatched", "leased", "keyed", "remote"},
              kind : Kinds, vault : 0..MaxVaults, right : {"none", "valid", "revoked", "ended"}]

NoOperation == [pc |-> "idle", kind |-> "database", vault |-> 0, right |-> "none"]

TypeOK ==
    /\ Barrier!TypeOK
    /\ vault \in 0..vaults
    /\ vaults \in 0..MaxVaults
    /\ suspended \in BOOLEAN
    /\ shut \in BOOLEAN
    /\ mu \in Controls \cup {Nobody}
    /\ ctl \in [Controls -> ControlState]
    /\ operation \in [Callers -> Operation]
    /\ lockHolds \in BOOLEAN
    /\ forceStop \in BOOLEAN

Remote(kind) == {c \in Callers : operation[c].pc = "remote" /\ operation[c].kind = kind}

Has(c, kind, pc) == operation[c].kind = kind /\ operation[c].pc = pc

\* The daemon starts locked out of the vault, with an open barrier and an SSH
\* pool that is not suspended.
Init ==
    /\ Barrier!Init
    /\ vault = 0
    /\ vaults = 0
    /\ suspended = FALSE
    /\ shut = FALSE
    /\ mu = Nobody
    /\ ctl = [k \in Controls |-> "idle"]
    /\ operation = [c \in Callers |-> NoOperation]
    /\ lockHolds = FALSE
    /\ forceStop = FALSE

-----------------------------------------------------------------------------
(* Remote operations *)

\* acquireSSHSession.  Sessions are opened only with an open vault.
JoinSession(c) ==
    /\ operation[c].pc = "idle" /\ lease[c] = "none"
    /\ vaults > 0
    /\ operation' = [operation EXCEPT ![c] = [pc |-> "joined", kind |-> "session", vault |-> 0, right |-> "valid"]]
    /\ UNCHANGED <<barrierVars, lifecycle>>

\* What an ended session leaves to the commands on it.
WithoutSession(o) == IF o.kind = "session" /\ o.right = "valid" THEN [o EXCEPT !.right = "ended"] ELSE o

\* The session of an operation is ended by its idle timer, by a request, by
\* ClearTarget or by ClearOwner (module WorkSessions).
SessionEnds(c) ==
    /\ WithoutSession(operation[c]) # operation[c]
    /\ operation' = [operation EXCEPT ![c] = WithoutSession(operation[c])]
    /\ UNCHANGED <<barrierVars, lifecycle>>

\* A request for a session, or on one, finds the vault locked: it clears every
\* session itself and returns.
LockedOut(c) ==
    /\ operation[c].pc \in {"idle", "joined"} /\ lease[c] = "none"
    /\ vault = 0
    /\ operation' = [d \in Callers |-> IF d = c THEN NoOperation ELSE WithoutSession(operation[d])]
    /\ UNCHANGED <<barrierVars, lifecycle>>

\* e.vault(): the operation keeps the vault object it found.
TakeVault(c, kind) ==
    /\ operation[c].pc = IF kind = "session" THEN "joined" ELSE "idle"
    /\ lease[c] = "none"
    /\ vault # 0
    /\ operation' = [operation EXCEPT ![c] =
                        [pc |-> "vetted", kind |-> kind, vault |-> vault,
                         right |-> IF kind = "session" THEN operation[c].right ELSE "none"]]
    /\ UNCHANGED <<barrierVars, lifecycle>>

\* The barrier refuses a lease.
Refused(c) ==
    /\ operation[c].pc = "vetted" /\ lease[c] = "none"
    /\ locked
    /\ operation' = [operation EXCEPT ![c] = NoOperation]
    /\ UNCHANGED <<barrierVars, lifecycle>>

AcquireLease(c) ==
    /\ operation[c].pc = "vetted"
    /\ Barrier!Acquire(c)
    /\ UNCHANGED <<lifecycle, operation>>

\* Lease.BeginDispatch of the work session: the command may go out unless the
\* session has ended.
Reserve(c) ==
    /\ Has(c, "session", "vetted") /\ lease[c] = "qualified"
    /\ operation[c].right = "valid"
    /\ operation' = [operation EXCEPT ![c].pc = "reserved"]
    /\ UNCHANGED <<barrierVars, lifecycle>>

Dispatch(c) ==
    /\ operation[c].pc = IF operation[c].kind = "session" THEN "reserved" ELSE "vetted"
    /\ Barrier!BeginDispatch(c)
    /\ operation' = [operation EXCEPT ![c].pc = "dispatched"]
    /\ UNCHANGED lifecycle

StoppedBeforeDispatch(c) ==
    /\ Barrier!DropLease(c)
    /\ operation' = [operation EXCEPT ![c] = NoOperation]
    /\ UNCHANGED lifecycle

\* AcquireTarget: the pool must be neither suspended nor closed.
AcquireTarget(c) ==
    /\ Has(c, "pooled", "dispatched")
    /\ ~suspended /\ ~shut
    /\ operation' = [operation EXCEPT ![c].pc = "leased", ![c].right = "valid"]
    /\ UNCHANGED <<barrierVars, lifecycle>>

\* vault.Credential of a locked object returns ErrLocked.
VaultOpen(c) == operation[c].vault = vault

\* executionEndpoint and the database counterpart decrypt the credential with
\* the vault object the operation kept; a candidate may bring its password.
Decrypt(c) ==
    /\ operation[c].pc = IF operation[c].kind = "pooled" THEN "leased" ELSE "dispatched"
    /\ VaultOpen(c) \/ operation[c].kind = "candidate"
    /\ operation' = [operation EXCEPT ![c].pc = "keyed"]
    /\ UNCHANGED <<barrierVars, lifecycle>>

\* The connection is dialed or used: a pooled one only on a lease that is
\* still valid.
Connect(c) ==
    /\ operation[c].pc = "keyed"
    /\ operation[c].kind = "pooled" => operation[c].right = "valid"
    /\ operation' = [operation EXCEPT ![c].pc = "remote"]
    /\ UNCHANGED <<barrierVars, lifecycle>>

\* The operation ends, connected or not, and leaves the barrier and then its
\* session (two deferred calls).
Finish(c) ==
    /\ operation[c].pc \in {"dispatched", "leased", "keyed", "remote"}
    /\ Barrier!FinishDispatch(c)
    /\ operation' = [operation EXCEPT ![c] = NoOperation]
    /\ UNCHANGED lifecycle

CloseDrained(c) == Barrier!CloseDrained(c) /\ UNCHANGED <<lifecycle, operation>>

-----------------------------------------------------------------------------
(* Control requests *)

GoTo(k, state) == ctl' = [ctl EXCEPT ![k] = state]

\* "lock" up to the wait of LockDispatch, without sshLifecycleMu.
LockDispatch(k) ==
    /\ ctl[k] = "idle" /\ ~shut
    /\ Barrier!Lock(k)
    /\ GoTo(k, "locking")
    /\ UNCHANGED <<vault, vaults, suspended, shut, mu, operation, lockHolds, forceStop>>

\* The dispatches LockDispatch waits for have ended.
DispatchDrained(k) == Barrier!LockDrained(k) /\ UNCHANGED <<lifecycle, operation>>

\* LockDispatch gives up when the request's context ends (30 s).
LockTimeout(k) ==
    /\ ctl[k] = "locking"
    /\ Barrier!LockCancelled(k)
    /\ GoTo(k, "reopening")
    /\ UNCHANGED <<vault, vaults, suspended, shut, mu, operation, lockHolds, forceStop>>

\* Whatever closed the barrier, UnlockDispatch opens it.
UnlockDispatch ==
    \/ Barrier!Unlock
    \/ ~locked /\ UNCHANGED barrierVars

LockFails(k) ==
    /\ ctl[k] = "reopening"
    /\ UnlockDispatch
    /\ GoTo(k, "idle")
    /\ UNCHANGED <<vault, vaults, suspended, shut, mu, operation, lockHolds, forceStop>>

TakeMutex(k, state) ==
    /\ mu = Nobody
    /\ mu' = k
    /\ GoTo(k, state)

Revoke(kind) ==
    operation' = [c \in Callers |->
                    IF operation[c].kind = kind /\ operation[c].right = "valid"
                    THEN [operation[c] EXCEPT !.right = "revoked"]
                    ELSE operation[c]]

\* Suspend advances the generation of every target, so that leases given
\* before it are never valid again.
Suspend == suspended' = TRUE /\ Revoke("pooled")

\* workSessions.Clear ends every session it finds, and then waits for the
\* commands that had crossed BeginDispatch on one of those.
ClearSessions == Revoke("session")

\* Mutant: the wait of workSessions.Clear is left out.
SessionsCleared_NoWait == TRUE

SessionsCleared ==
    \A c \in Callers : operation[c].kind = "session" /\ operation[c].right = "revoked" =>
        operation[c].pc \notin {"reserved", "dispatched", "keyed", "remote"}

\* Mutant: a path without the deferred Unlock of the mutex.
Return_KeepsMutex(k) == mu' = mu /\ GoTo(k, "idle")

Return(k) == mu' = Nobody /\ GoTo(k, "idle")

\* "lock" takes the mutex and suspends the SSH pool.
SuspendForLock(k) ==
    /\ ctl[k] = "locking" /\ locker[k] = "sealed"
    /\ TakeMutex(k, "suspending")
    /\ Suspend
    /\ UNCHANGED <<barrierVars, vault, vaults, shut, lockHolds, forceStop>>

\* ssh.Suspend has closed the connections and waits for the operations on
\* them.
SSHDrained == Remote("pooled") = {}

\* The vault is locked and the work sessions end.
LockVault(k) ==
    /\ ctl[k] = "suspending"
    /\ SSHDrained
    /\ vault' = 0
    /\ ClearSessions
    /\ GoTo(k, "clearing")
    /\ UNCHANGED <<barrierVars, vaults, suspended, shut, mu, lockHolds, forceStop>>

\* "lock" returns, and so does Close.
LockReturns(k) ==
    /\ ctl[k] = "clearing" /\ SessionsCleared
    /\ Return(k)
    /\ lockHolds' = TRUE
    /\ Barrier!LockerDone(k)
    /\ UNCHANGED <<vault, vaults, suspended, shut, operation, forceStop>>

\* "unlock" with the right password: the old vault is locked and replaced.
UnlockVault(k) ==
    /\ ctl[k] = "idle" /\ ~shut
    /\ vaults < MaxVaults
    /\ TakeMutex(k, "unlocked")
    /\ vaults' = vaults + 1
    /\ vault' = vaults'
    /\ lockHolds' = FALSE
    /\ UNCHANGED <<barrierVars, suspended, shut, operation, forceStop>>

\* "unlock" with a wrong password: Manager.Unlock has already locked the old
\* vault; the barrier and the pool are left alone.
UnlockFails(k) ==
    /\ ctl[k] = "idle" /\ ~shut
    /\ mu = Nobody
    /\ vault # 0
    /\ vault' = 0
    /\ UNCHANGED <<barrierVars, vaults, suspended, shut, mu, ctl, operation, lockHolds,
                   forceStop>>

Resume(k) ==
    /\ ctl[k] = "unlocked"
    /\ suspended' = FALSE
    /\ GoTo(k, "resumed")
    /\ UNCHANGED <<barrierVars, vault, vaults, shut, mu, operation, lockHolds, forceStop>>

UnlockReturns(k) ==
    /\ ctl[k] = "resumed"
    /\ UnlockDispatch
    /\ Return(k)
    /\ UNCHANGED <<vault, vaults, suspended, shut, operation, lockHolds, forceStop>>

\* keys.rotate and keys.change_master_password suspend the pool first.  The
\* check for open bridge sessions and the maintenance flag that refuses bridge
\* calls add no guard: a bridge session may be closed while its operation runs,
\* and an operation may have passed the check before the flag was set.
SuspendForRotation(k) ==
    /\ ctl[k] = "idle" /\ ~shut
    /\ TakeMutex(k, "rotating")
    /\ Suspend
    /\ UNCHANGED <<barrierVars, vault, vaults, shut, lockHolds, forceStop>>

\* Success locks the vault and leaves the pool suspended until "unlock".
Rotated(k) ==
    /\ ctl[k] = "rotating" /\ SSHDrained
    /\ vault' = 0
    /\ ClearSessions
    /\ GoTo(k, "forgetting")
    /\ UNCHANGED <<barrierVars, vaults, suspended, shut, mu, lockHolds, forceStop>>

RotationReturns(k) ==
    /\ ctl[k] = "forgetting" /\ SessionsCleared
    /\ Return(k)
    /\ UNCHANGED <<barrierVars, vault, vaults, suspended, shut, operation, lockHolds, forceStop>>

\* Mutant: a failed rotation forgets to resume the pool.
RotationFails_Suspended(k) ==
    /\ ctl[k] = "rotating" /\ SSHDrained
    /\ Return(k)
    /\ UNCHANGED <<barrierVars, vault, vaults, suspended, shut, operation, lockHolds, forceStop>>

RotationFails(k) ==
    /\ ctl[k] = "rotating" /\ SSHDrained
    /\ suspended' = FALSE
    /\ Return(k)
    /\ UNCHANGED <<barrierVars, vault, vaults, shut, operation, lockHolds, forceStop>>

\* prepareForceStop
BlockDispatch ==
    /\ ~forceStop /\ ~shut
    /\ forceStop' = TRUE
    /\ Barrier!Block \/ (locked /\ UNCHANGED barrierVars)
    /\ UNCHANGED <<vault, vaults, suspended, shut, mu, ctl, operation, lockHolds>>

\* Close takes the mutex, then closes the barrier without a deadline.
CloseBegin(k) ==
    /\ ctl[k] = "idle" /\ ~shut
    /\ TakeMutex(k, "closing")
    /\ Barrier!Lock(k)
    /\ UNCHANGED <<vault, vaults, suspended, shut, operation, lockHolds, forceStop>>

CloseSuspend(k) ==
    /\ ctl[k] = "closing" /\ locker[k] = "sealed"
    /\ Suspend
    /\ GoTo(k, "draining")
    /\ UNCHANGED <<barrierVars, vault, vaults, shut, mu, lockHolds, forceStop>>

\* The vault is locked, the pool closed for good, and the work sessions end.
CloseVault(k) ==
    /\ ctl[k] = "draining" /\ SSHDrained
    /\ vault' = 0
    /\ shut' = TRUE
    /\ ClearSessions
    /\ GoTo(k, "clearing")
    /\ UNCHANGED <<barrierVars, vaults, suspended, mu, lockHolds, forceStop>>

-----------------------------------------------------------------------------
OperationStep(c) ==
    \/ JoinSession(c) \/ SessionEnds(c) \/ LockedOut(c)
    \/ \E kind \in Kinds : TakeVault(c, kind)
    \/ Refused(c) \/ AcquireLease(c) \/ Reserve(c) \/ Dispatch(c) \/ StoppedBeforeDispatch(c)
    \/ AcquireTarget(c) \/ Decrypt(c) \/ Connect(c) \/ Finish(c) \/ CloseDrained(c)

ControlStep(k) ==
    \/ LockDispatch(k) \/ DispatchDrained(k) \/ LockTimeout(k) \/ LockFails(k)
    \/ SuspendForLock(k) \/ LockVault(k) \/ LockReturns(k)
    \/ UnlockVault(k) \/ UnlockFails(k) \/ Resume(k) \/ UnlockReturns(k)
    \/ SuspendForRotation(k) \/ Rotated(k) \/ RotationReturns(k) \/ RotationFails(k)
    \/ CloseBegin(k) \/ CloseSuspend(k) \/ CloseVault(k)

Next ==
    \/ \E c \in Callers : OperationStep(c)
    \/ \E k \in Controls : ControlStep(k)
    \/ BlockDispatch

Spec == Init /\ [][Next]_vars

\* Operations in flight end (bounded contexts, deferred FinishDispatch), a
\* command that has reserved its session goes on to the barrier, and control
\* goroutines run.  sync.Mutex does not starve a waiter (SF).
Fairness ==
    /\ \A c \in Callers :
          WF_vars(\/ Finish(c) \/ CloseDrained(c)
                  \/ operation[c].pc = "reserved" /\ (Dispatch(c) \/ StoppedBeforeDispatch(c)))
    /\ \A k \in Controls :
          /\ WF_vars(\/ DispatchDrained(k) \/ LockFails(k) \/ LockVault(k) \/ LockReturns(k)
                     \/ Resume(k) \/ UnlockReturns(k) \/ Rotated(k) \/ RotationReturns(k)
                     \/ CloseSuspend(k) \/ CloseVault(k))
          /\ SF_vars(SuspendForLock(k))

FairSpec == Spec /\ Fairness

-----------------------------------------------------------------------------
(* Properties *)

\* Once "lock" or Close has returned, and until an "unlock" succeeds, no SSH
\* command uses a connection, whatever other control requests ran in between
\* and although another "unlock" may have opened the barrier under "lock": the
\* pool is suspended and drained, and the sessions are cleared with their
\* commands.  The one exception is a command whose session somebody else ended
\* while it ran: Clear finds no such session, and does not wait for it.
LockedHasNoSSH ==
    lockHolds => /\ Remote("pooled") = {}
                 /\ \A c \in Remote("session") : operation[c].right = "ended"

\* No interleaving of control requests strands the user: when none is running
\* and the vault is open, the barrier is open and the pool is not suspended,
\* or else the daemon is stopping.
UnlockedIsUsable ==
    (\A k \in Controls : ctl[k] = "idle") /\ vault # 0 /\ ~forceStop =>
        ~locked /\ ~suspended

\* Every control request returns: waiting for the barrier, for the mutex and
\* for the SSH operations never forms a circle, also when "lock" and Close
\* overlap.  Only a request that waits at a barrier which somebody else has
\* opened meanwhile may be kept waiting by new dispatches.
ControlReturns ==
    \A k \in Controls :
        ctl[k] # "idle" ~>
            ctl[k] = "idle" \/ \E j \in Controls : locker[j] = "waiting" /\ ~unbroken[j]

=============================================================================
