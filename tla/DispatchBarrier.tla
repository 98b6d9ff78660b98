-------------------------- MODULE DispatchBarrier --------------------------
(***************************************************************************)
(* The dispatch barrier of internal/runner/dispatch_barrier.go: the line   *)
(* every remote operation of every protocol crosses before it touches the  *)
(* network, and that locking the vault closes.                             *)
(*                                                                         *)
(* Lock closes the barrier and waits, on the channel it read under the     *)
(* mutex, for the dispatches that have already crossed.  That channel is   *)
(* made by the first dispatch in flight and closed by the last one, after  *)
(* it has released the mutex: the model keeps the identity of channels,    *)
(* and closing one is a step of its own.                                   *)
(***************************************************************************)
EXTENDS DispatchBarrierState

vars == <<locked, inFlight, drained, closed, lease, closing, locker, captured,
          unbroken>>

lockVars == <<locker, captured, unbroken>>

-----------------------------------------------------------------------------
\* "qualified": Acquire returned a lease; "started": past BeginDispatch;
\* "closing": past the critical section of FinishDispatch that emptied the
\* barrier, with the channel still to close.
LeaseState == {"none", "qualified", "started", "closing"}

\* "waiting": in the select of Lock; "sealed": Lock returned nil.
LockerState == {"idle", "waiting", "sealed"}

TypeOK ==
    /\ locked \in BOOLEAN
    /\ inFlight \in Nat
    /\ drained \in Chans \cup {NoChan}
    /\ closed \in SUBSET Chans
    /\ lease \in [Callers -> LeaseState]
    /\ closing \in [Callers -> Chans \cup {NoChan}]
    /\ locker \in [Controls -> LockerState]
    /\ captured \in [Controls -> Chans \cup {NoChan}]
    /\ unbroken \in [Controls -> BOOLEAN]

Init ==
    /\ locked = FALSE
    /\ inFlight = 0
    /\ drained = NoChan
    /\ closed = {}
    /\ lease = [c \in Callers |-> "none"]
    /\ closing = [c \in Callers |-> NoChan]
    /\ locker = [k \in Controls |-> "idle"]
    /\ captured = [k \in Controls |-> NoChan]
    /\ unbroken = [k \in Controls |-> FALSE]

-----------------------------------------------------------------------------
(* Dispatching callers *)

\* A locked barrier hands out no lease (the caller reports not_dispatched).
Acquire(c) ==
    /\ lease[c] = "none"
    /\ ~locked
    /\ lease' = [lease EXCEPT ![c] = "qualified"]
    /\ UNCHANGED <<locked, inFlight, drained, closed, closing, lockVars>>

\* make(chan struct{}) returns a channel nothing points to.
Fresh(ch) ==
    /\ ch # drained
    /\ \A c \in Callers : closing[c] # ch
    /\ \A k \in Controls : captured[k] # ch

\* Mutant: the check Acquire made is trusted.
MayBegin_AtAcquire(c) == lease[c] = "qualified"

\* The condition under which BeginDispatch returns true.
MayBegin(c) == lease[c] = "qualified" /\ ~locked

\* Mutant: every dispatch makes a channel of its own.
NewChannel_Always == \E ch \in Chans : Fresh(ch) /\ drained' = ch /\ closed' = closed \ {ch}

\* Only the first dispatch in flight makes the channel.
NewChannel ==
    \/ inFlight = 0 /\ \E ch \in Chans :
                          Fresh(ch) /\ drained' = ch /\ closed' = closed \ {ch}
    \/ inFlight # 0 /\ UNCHANGED <<drained, closed>>

BeginDispatch(c) ==
    /\ MayBegin(c)
    /\ lease' = [lease EXCEPT ![c] = "started"]
    /\ NewChannel
    /\ inFlight' = inFlight + 1
    /\ UNCHANGED <<locked, closing, lockVars>>

\* The lease is dropped unused: BeginDispatch returned false because the
\* barrier is locked, or the operation stopped before it.  FinishDispatch of
\* a lease that never started does nothing.
DropLease(c) ==
    /\ lease[c] = "qualified"
    /\ lease' = [lease EXCEPT ![c] = "none"]
    /\ UNCHANGED <<locked, inFlight, drained, closed, closing, lockVars>>

\* Mutant: the channel is taken out one dispatch too early.
FinishDispatch_Early(c) ==
    /\ lease[c] = "started"
    /\ inFlight' = inFlight - 1
    /\ \/ /\ inFlight' <= 1
          /\ lease' = [lease EXCEPT ![c] = "closing"]
          /\ closing' = [closing EXCEPT ![c] = drained]
          /\ drained' = NoChan
       \/ /\ inFlight' > 1
          /\ lease' = [lease EXCEPT ![c] = "none"]
          /\ UNCHANGED <<closing, drained>>
    /\ UNCHANGED <<locked, closed, lockVars>>

\* The critical section of FinishDispatch.  The last dispatch in flight takes
\* the channel out; a second FinishDispatch of the lease changes nothing.
FinishDispatch(c) ==
    /\ lease[c] = "started"
    /\ inFlight' = IF inFlight > 0 THEN inFlight - 1 ELSE inFlight
    /\ \/ /\ inFlight' = 0
          /\ lease' = [lease EXCEPT ![c] = "closing"]
          /\ closing' = [closing EXCEPT ![c] = drained]
          /\ drained' = NoChan
       \/ /\ inFlight' # 0
          /\ lease' = [lease EXCEPT ![c] = "none"]
          /\ UNCHANGED <<closing, drained>>
    /\ UNCHANGED <<locked, closed, lockVars>>

\* Mutant: the channel is dropped without being closed.
CloseDrained_Lost(c) ==
    /\ lease[c] = "closing"
    /\ closing' = [closing EXCEPT ![c] = NoChan]
    /\ lease' = [lease EXCEPT ![c] = "none"]
    /\ UNCHANGED <<locked, inFlight, drained, closed, lockVars>>

\* close(drained), after the mutex is released.
CloseDrained(c) ==
    /\ lease[c] = "closing"
    /\ closed' = closed \cup ({closing[c]} \ {NoChan})
    /\ closing' = [closing EXCEPT ![c] = NoChan]
    /\ lease' = [lease EXCEPT ![c] = "none"]
    /\ UNCHANGED <<locked, inFlight, drained, lockVars>>

-----------------------------------------------------------------------------
(* Locking and unlocking *)

\* Lock up to its select: with nothing in flight it returns at once.
Lock(k) ==
    /\ locker[k] = "idle"
    /\ locked' = TRUE
    /\ unbroken' = [unbroken EXCEPT ![k] = TRUE]
    /\ captured' = [captured EXCEPT ![k] = drained]
    /\ locker' = [locker EXCEPT ![k] = IF drained = NoChan THEN "sealed" ELSE "waiting"]
    /\ UNCHANGED <<inFlight, drained, closed, lease, closing>>

\* case <-drained
LockDrained(k) ==
    /\ locker[k] = "waiting"
    /\ captured[k] \in closed
    /\ locker' = [locker EXCEPT ![k] = "sealed"]
    /\ captured' = [captured EXCEPT ![k] = NoChan]
    /\ UNCHANGED <<locked, inFlight, drained, closed, lease, closing, unbroken>>

\* case <-ctx.Done(): the barrier stays locked.
LockCancelled(k) ==
    /\ locker[k] = "waiting"
    /\ locker' = [locker EXCEPT ![k] = "idle"]
    /\ captured' = [captured EXCEPT ![k] = NoChan]
    /\ unbroken' = [unbroken EXCEPT ![k] = FALSE]
    /\ UNCHANGED <<locked, inFlight, drained, closed, lease, closing>>

\* The locker goes on; the barrier stays locked.
LockerDone(k) ==
    /\ locker[k] = "sealed"
    /\ locker' = [locker EXCEPT ![k] = "idle"]
    /\ unbroken' = [unbroken EXCEPT ![k] = FALSE]
    /\ UNCHANGED <<locked, inFlight, drained, closed, lease, closing, captured>>

Block ==
    /\ ~locked
    /\ locked' = TRUE
    /\ UNCHANGED <<inFlight, drained, closed, lease, closing, lockVars>>

Unlock ==
    /\ locked
    /\ locked' = FALSE
    /\ unbroken' = [k \in Controls |-> FALSE]
    /\ UNCHANGED <<inFlight, drained, closed, lease, closing, locker, captured>>

-----------------------------------------------------------------------------
CallerStep(c) ==
    Acquire(c) \/ BeginDispatch(c) \/ DropLease(c) \/ FinishDispatch(c) \/ CloseDrained(c)

LockerStep(k) == Lock(k) \/ LockDrained(k) \/ LockCancelled(k) \/ LockerDone(k)

Next ==
    \/ \E c \in Callers : CallerStep(c)
    \/ \E k \in Controls : LockerStep(k)
    \/ Block
    \/ Unlock

Spec == Init /\ [][Next]_vars

\* A dispatch in flight ends: each runs under a bounded context and finishes
\* by defer.  A locker whose channel is closed runs.
Fairness ==
    /\ \A c \in Callers : WF_vars(FinishDispatch(c) \/ CloseDrained(c))
    /\ \A k \in Controls : WF_vars(LockDrained(k))

FairSpec == Spec /\ Fairness

-----------------------------------------------------------------------------
(* Properties *)

\* Lock returns once the dispatches end, unless the barrier is opened again.
LockReturns ==
    \A k \in Controls :
        locker[k] = "waiting" /\ unbroken[k] ~> locker[k] # "waiting" \/ ~unbroken[k]

=============================================================================
