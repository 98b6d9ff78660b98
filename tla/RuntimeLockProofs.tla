-------------------------- MODULE RuntimeLockProofs --------------------------
(***************************************************************************)
(* The dispatch barrier, the locking and unlocking built on it, and the    *)
(* SSH work sessions, which lock and Close clear; for any number of        *)
(* operations, of concurrent control requests and of sessions.  The        *)
(* barrier is the instance Barrier of RuntimeLock, the work sessions are   *)
(* the instance Work of WorkSessions.                                      *)
(*                                                                         *)
(* SealedIsQuiescent is not inductive: Lock looks at a channel, not at the *)
(* leases.  The strengthening ties the pieces together: the counter is the *)
(* number of leases past the dispatch point (CountIsStarted), the barrier  *)
(* has a channel exactly when the counter is not zero and that channel is  *)
(* open (ChannelIffInFlight), and while a Lock is unbroken no new channel  *)
(* replaces the one it waits on (UnbrokenLock).                            *)
(*                                                                         *)
(* That a lock keeps SSH operations out is not a matter of the suspension  *)
(* alone: a key rotation that fails resumes the pool while the vault is    *)
(* locked.  LockKeeps holds because by then every lease from before the    *)
(* lock is old, and a new one cannot be used without a key.  That nobody   *)
(* is stranded (LockedIsHandled, SuspendedIsHandled) holds because whoever *)
(* closes the barrier or suspends the pool is still running, or has locked *)
(* the vault, which only the unlock that reopens both can undo.            *)
(*                                                                         *)
(* EndIsReportedRight is not inductive: that a command in flight holds up  *)
(* the report of its session's end needs that whoever sends has the        *)
(* dispatch flag of its own record (SenderDispatches) and that an ended    *)
(* session with that flag still has its reporter waiting (EndedWaits).     *)
(***************************************************************************)
EXTENDS RuntimeLock, WorkSessionsState, FiniteSetTheorems, TLAPS

-----------------------------------------------------------------------------
(* The barrier *)

CountIsStarted == inFlight = Cardinality(Barrier!Started)

ChannelIffInFlight ==
    /\ drained = NoChan <=> inFlight = 0
    /\ drained \notin closed

ClosingChannel ==
    /\ \A c \in Callers : lease[c] = "closing" =>
            closing[c] \in Chans \ closed /\ closing[c] # drained
    /\ \A c \in Callers : lease[c] # "closing" => closing[c] = NoChan
    /\ \A c, d \in Callers :
            lease[c] = "closing" /\ lease[d] = "closing" /\ closing[c] = closing[d]
            => c = d

WaiterChannel ==
    \A k \in Controls : locker[k] = "waiting" =>
        /\ captured[k] \in Chans
        /\ \/ captured[k] \in closed
           \/ \E c \in Callers : lease[c] = "closing" /\ closing[c] = captured[k]
           \/ captured[k] = drained

UnbrokenLock ==
    \A k \in Controls : unbroken[k] =>
        /\ locked
        /\ locker[k] = "waiting" => captured[k] = drained \/ inFlight = 0
        /\ locker[k] = "sealed" => inFlight = 0

BarrierIInv ==
    /\ Barrier!TypeOK
    /\ CountIsStarted
    /\ ChannelIffInFlight
    /\ ClosingChannel
    /\ WaiterChannel
    /\ UnbrokenLock

-----------------------------------------------------------------------------
(* The counter *)

\* The set of dispatches in flight is finite, so that its cardinality counts.
LEMMA StartedFinite == IsFiniteSet(Barrier!Started) /\ Cardinality(Barrier!Started) \in Nat
  <1>1. Barrier!Started \in SUBSET Callers
    BY DEF Barrier!Started
  <1>2. IsFiniteSet(Barrier!Started)
    BY <1>1, DispatchersFinite, FS_Subset
  <1> QED BY <1>2, FS_CardinalityType

\* inFlight, read as a count of leases, is zero exactly when nothing is in
\* flight.
LEMMA CountZero == CountIsStarted => (inFlight = 0 <=> Barrier!Started = {})
  BY StartedFinite, FS_EmptySet DEF CountIsStarted

\* A step that starts no lease and finishes none leaves the count right.
LEMMA SameCount ==
  ASSUME BarrierIInv, inFlight' = inFlight, Barrier!Started' = Barrier!Started
  PROVE  CountIsStarted'
  BY DEF BarrierIInv, CountIsStarted

\* BeginDispatch increments the counter with the set it counts.
LEMMA BeginCounts ==
  ASSUME BarrierIInv, NEW c \in Callers, Barrier!BeginDispatch(c)
  PROVE  CountIsStarted'
  <1>1. Barrier!Started' = Barrier!Started \cup {c} /\ c \notin Barrier!Started
    BY DEF BarrierIInv, Barrier!TypeOK, Barrier!BeginDispatch, Barrier!MayBegin, Barrier!Started
  <1>2. Cardinality(Barrier!Started') = Cardinality(Barrier!Started) + 1
    BY <1>1, StartedFinite, FS_AddElement
  <1> QED BY <1>2 DEF BarrierIInv, CountIsStarted, Barrier!BeginDispatch

\* FinishDispatch finds the counter positive and decrements it.
LEMMA FinishCounts ==
  ASSUME BarrierIInv, NEW c \in Callers, Barrier!FinishDispatch(c)
  PROVE  CountIsStarted' /\ inFlight > 0 /\ inFlight' = inFlight - 1
  <1>1. Barrier!Started' = Barrier!Started \ {c} /\ c \in Barrier!Started
    BY DEF BarrierIInv, Barrier!TypeOK, Barrier!FinishDispatch, Barrier!Started
  <1>2. Cardinality(Barrier!Started') = Cardinality(Barrier!Started) - 1
    BY <1>1, StartedFinite, FS_RemoveElement
  <1>3. inFlight > 0
    BY <1>1, CountZero DEF BarrierIInv, Barrier!TypeOK
  <1> QED BY <1>2, <1>3 DEF BarrierIInv, Barrier!TypeOK, CountIsStarted, Barrier!FinishDispatch

-----------------------------------------------------------------------------
(* The inductive invariant, one action at a time *)

\* The barrier starts open, with nothing in flight and no channel.
LEMMA BarrierInit == Barrier!Init => BarrierIInv
  <1> SUFFICES ASSUME Barrier!Init PROVE BarrierIInv
    OBVIOUS
  <1>1. Barrier!TypeOK
    BY DEF Barrier!Init, Barrier!TypeOK, Barrier!LeaseState, Barrier!LockerState
  <1>2. CountIsStarted
    <2>1. Barrier!Started = {}
      BY DEF Barrier!Init, Barrier!Started
    <2> QED BY <2>1, FS_EmptySet DEF Barrier!Init, CountIsStarted
  <1>3. ChannelIffInFlight /\ ClosingChannel /\ WaiterChannel /\ UnbrokenLock
    BY NoChanAssumption DEF Barrier!Init, ChannelIffInFlight, ClosingChannel, WaiterChannel, UnbrokenLock
  <1> QED BY <1>1, <1>2, <1>3 DEF BarrierIInv

\* Taking or dropping a lease that has not started.
LEMMA AcquireIInv ==
  ASSUME BarrierIInv, NEW c \in Callers, Barrier!Acquire(c) \/ Barrier!DropLease(c)
  PROVE  BarrierIInv'
  <1> USE DEF Barrier!Acquire, Barrier!DropLease, Barrier!lockVars
  <1>1. Barrier!TypeOK'
    BY DEF BarrierIInv, Barrier!TypeOK, Barrier!LeaseState
  <1>2. CountIsStarted'
    <2>1. Barrier!Started' = Barrier!Started
      BY DEF BarrierIInv, Barrier!TypeOK, Barrier!Started
    <2> QED BY <2>1, SameCount
  <1>3. ChannelIffInFlight' /\ UnbrokenLock'
    BY DEF BarrierIInv, ChannelIffInFlight, UnbrokenLock
  <1>4. ClosingChannel' /\ WaiterChannel'
    BY DEF BarrierIInv, Barrier!TypeOK, ClosingChannel, WaiterChannel
  <1> QED BY <1>1, <1>2, <1>3, <1>4 DEF BarrierIInv

\* A dispatch begins; the first one in flight makes the channel.
LEMMA BeginDispatchIInv ==
  ASSUME BarrierIInv, NEW c \in Callers, Barrier!BeginDispatch(c)
  PROVE  BarrierIInv'
  <1> USE DEF Barrier!BeginDispatch, Barrier!MayBegin, Barrier!NewChannel, Barrier!lockVars
  <1>1. Barrier!TypeOK'
    BY DEF BarrierIInv, Barrier!TypeOK, Barrier!LeaseState
  <1>2. CountIsStarted'
    BY BeginCounts
  <1>3. ChannelIffInFlight'
    BY NoChanAssumption DEF BarrierIInv, Barrier!TypeOK, ChannelIffInFlight
  <1>4. ClosingChannel'
    BY DEF BarrierIInv, Barrier!TypeOK, ClosingChannel, ChannelIffInFlight, Barrier!Fresh
  <1>5. WaiterChannel'
    BY NoChanAssumption DEF BarrierIInv, Barrier!TypeOK, WaiterChannel, ChannelIffInFlight, Barrier!Fresh
  <1>6. UnbrokenLock'
    BY DEF BarrierIInv, Barrier!TypeOK, UnbrokenLock
  <1> QED BY <1>1, <1>2, <1>3, <1>4, <1>5, <1>6 DEF BarrierIInv

\* A dispatch ends; the last one in flight takes the channel out.
LEMMA FinishDispatchIInv ==
  ASSUME BarrierIInv, NEW c \in Callers, Barrier!FinishDispatch(c)
  PROVE  BarrierIInv'
  <1>0. inFlight > 0 /\ inFlight' = inFlight - 1 /\ CountIsStarted'
    BY FinishCounts
  <1>a. drained \in Chans \ closed
    BY <1>0 DEF BarrierIInv, Barrier!TypeOK, ChannelIffInFlight
  <1>1. Barrier!TypeOK'
    BY <1>0 DEF BarrierIInv, Barrier!TypeOK, Barrier!LeaseState, Barrier!FinishDispatch, Barrier!lockVars
  <1>2. ChannelIffInFlight'
    BY <1>0, <1>a, NoChanAssumption
    DEF BarrierIInv, Barrier!TypeOK, ChannelIffInFlight, Barrier!FinishDispatch
  <1>3. ClosingChannel'
    BY <1>a, NoChanAssumption DEF BarrierIInv, Barrier!TypeOK, ClosingChannel, Barrier!FinishDispatch
  <1>4. WaiterChannel'
    BY <1>a DEF BarrierIInv, Barrier!TypeOK, WaiterChannel, Barrier!FinishDispatch, Barrier!lockVars
  <1>5. UnbrokenLock'
    BY <1>0 DEF BarrierIInv, Barrier!TypeOK, UnbrokenLock, Barrier!FinishDispatch, Barrier!lockVars
  <1> QED BY <1>0, <1>1, <1>2, <1>3, <1>4, <1>5 DEF BarrierIInv

\* The caller that took the channel out closes it.
LEMMA CloseDrainedIInv ==
  ASSUME BarrierIInv, NEW c \in Callers, Barrier!CloseDrained(c)
  PROVE  BarrierIInv'
  <1> USE DEF Barrier!CloseDrained, Barrier!lockVars
  <1>1. Barrier!TypeOK'
    BY DEF BarrierIInv, Barrier!TypeOK, Barrier!LeaseState
  <1>2. CountIsStarted'
    <2>1. Barrier!Started' = Barrier!Started
      BY DEF BarrierIInv, Barrier!TypeOK, Barrier!Started
    <2> QED BY <2>1, SameCount
  <1>3. ChannelIffInFlight'
    BY DEF BarrierIInv, Barrier!TypeOK, ChannelIffInFlight, ClosingChannel
  <1>4. ClosingChannel'
    BY DEF BarrierIInv, Barrier!TypeOK, ClosingChannel
  <1>5. WaiterChannel'
    BY NoChanAssumption DEF BarrierIInv, Barrier!TypeOK, ClosingChannel, WaiterChannel
  <1>6. UnbrokenLock'
    BY DEF BarrierIInv, UnbrokenLock
  <1> QED BY <1>1, <1>2, <1>3, <1>4, <1>5, <1>6 DEF BarrierIInv

\* The steps of a goroutine in Lock.
LEMMA LockerIInv ==
  ASSUME BarrierIInv, NEW k \in Controls, Barrier!LockerStep(k)
  PROVE  BarrierIInv'
  <1>1. Barrier!TypeOK'
    <2>1. CASE Barrier!Lock(k)
      BY <2>1 DEF BarrierIInv, Barrier!TypeOK, Barrier!LockerState, Barrier!Lock
    <2>2. CASE Barrier!LockDrained(k)
      BY <2>2 DEF BarrierIInv, Barrier!TypeOK, Barrier!LockerState, Barrier!LockDrained
    <2>3. CASE Barrier!LockCancelled(k)
      BY <2>3 DEF BarrierIInv, Barrier!TypeOK, Barrier!LockerState, Barrier!LockCancelled
    <2>4. CASE Barrier!LockerDone(k)
      BY <2>4 DEF BarrierIInv, Barrier!TypeOK, Barrier!LockerState, Barrier!LockerDone
    <2> QED BY <2>1, <2>2, <2>3, <2>4 DEF Barrier!LockerStep
  <1> USE DEF Barrier!LockerStep, Barrier!Lock, Barrier!LockDrained, Barrier!LockCancelled, Barrier!LockerDone
  <1>2. CountIsStarted'
    <2>1. Barrier!Started' = Barrier!Started
      BY DEF Barrier!Started
    <2> QED BY <2>1, SameCount
  <1>3. ChannelIffInFlight' /\ ClosingChannel'
    BY DEF BarrierIInv, ChannelIffInFlight, ClosingChannel
  <1>4. WaiterChannel'
    BY DEF BarrierIInv, Barrier!TypeOK, WaiterChannel
  <1>5. UnbrokenLock'
    BY DEF BarrierIInv, Barrier!TypeOK, UnbrokenLock, ChannelIffInFlight
  <1> QED BY <1>1, <1>2, <1>3, <1>4, <1>5 DEF BarrierIInv

\* Block and Unlock.
LEMMA OpenCloseIInv ==
  ASSUME BarrierIInv, Barrier!Block \/ Barrier!Unlock
  PROVE  BarrierIInv'
  <1> USE DEF Barrier!Block, Barrier!Unlock, Barrier!lockVars
  <1>1. Barrier!TypeOK'
    BY DEF BarrierIInv, Barrier!TypeOK
  <1>2. CountIsStarted'
    <2>1. Barrier!Started' = Barrier!Started
      BY DEF Barrier!Started
    <2> QED BY <2>1, SameCount
  <1>3. ChannelIffInFlight' /\ ClosingChannel' /\ WaiterChannel' /\ UnbrokenLock'
    BY DEF BarrierIInv, ChannelIffInFlight, ClosingChannel, WaiterChannel, UnbrokenLock
  <1> QED BY <1>1, <1>2, <1>3 DEF BarrierIInv

\* Every step of the barrier keeps the invariant.
LEMMA BarrierNext == BarrierIInv /\ [Barrier!Next]_(Barrier!vars) => BarrierIInv'
  <1> SUFFICES ASSUME BarrierIInv, [Barrier!Next]_(Barrier!vars) PROVE BarrierIInv'
    OBVIOUS
  <1>1. ASSUME NEW c \in Callers, Barrier!CallerStep(c) PROVE BarrierIInv'
    BY <1>1, AcquireIInv, BeginDispatchIInv, FinishDispatchIInv, CloseDrainedIInv
    DEF Barrier!CallerStep
  <1>2. ASSUME NEW k \in Controls, Barrier!LockerStep(k) PROVE BarrierIInv'
    BY <1>2, LockerIInv
  <1>3. CASE Barrier!Block \/ Barrier!Unlock
    BY <1>3, OpenCloseIInv
  <1>4. CASE UNCHANGED Barrier!vars
    BY <1>4 DEF Barrier!vars, BarrierIInv, Barrier!TypeOK, CountIsStarted, Barrier!Started, ChannelIffInFlight,
                ClosingChannel, WaiterChannel, UnbrokenLock
  <1> QED BY <1>1, <1>2, <1>3, <1>4 DEF Barrier!Next

\* The inductive invariant holds in every reachable state.
LEMMA BarrierInvariance == Barrier!Spec => []BarrierIInv
  BY BarrierInit, BarrierNext, PTL DEF Barrier!Spec

-----------------------------------------------------------------------------
(* What the code relies on *)

\* Every field of the barrier has its type, and the barrier's bookkeeping is
\* right: inFlight is the number of dispatches in flight, so that it never goes
\* below zero, and the channel exists, open, exactly while it is positive.
THEOREM BarrierTypeCorrect ==
  Barrier!Spec => [](Barrier!TypeOK /\ CountIsStarted /\ ChannelIffInFlight)
  <1>1. BarrierIInv => Barrier!TypeOK /\ CountIsStarted /\ ChannelIffInFlight
    BY DEF BarrierIInv
  <1> QED BY <1>1, BarrierInvariance, PTL

\* Once Lock has returned nil, and until an Unlock, no dispatch is in flight,
\* for any number of callers and of concurrent calls of Lock.
THEOREM LockQuiesces == Barrier!Spec => []SealedIsQuiescent
  <1>1. BarrierIInv => SealedIsQuiescent
    BY CountZero DEF BarrierIInv, UnbrokenLock, SealedIsQuiescent, Started, Barrier!Started
  <1> QED BY <1>1, BarrierInvariance, PTL

\* A goroutine waiting in Lock waits on a channel that is closed or that a
\* dispatch still in flight, or about to close it, will close.
THEOREM LockIsWoken == Barrier!Spec => []WaiterWillBeWoken
  <1>1. BarrierIInv => WaiterWillBeWoken
    <2> SUFFICES ASSUME BarrierIInv, NEW k \in Controls, locker[k] = "waiting",
                        captured[k] = drained
                 PROVE  Barrier!Started # {}
      BY DEF BarrierIInv, WaiterChannel, WaiterWillBeWoken, Started, Barrier!Started
    <2>1. drained # NoChan
      BY NoChanAssumption DEF BarrierIInv, WaiterChannel
    <2> QED BY <2>1, CountZero DEF BarrierIInv, ChannelIffInFlight
  <1> QED BY <1>1, BarrierInvariance, PTL

\* FinishDispatch never closes a closed or nil channel.
THEOREM ChannelClosedOnce == Barrier!Spec => []CloseOnce
  <1>1. BarrierIInv => CloseOnce
    BY DEF BarrierIInv, ClosingChannel, CloseOnce
  <1> QED BY <1>1, BarrierInvariance, PTL

-----------------------------------------------------------------------------
(* The daemon: its inductive invariant *)

Holding == {"suspending", "unlocked", "resumed", "rotating", "closing", "draining", "clearing", "forgetting"}

MutexIsHeld == \A k \in Controls : ctl[k] \in Holding <=> mu = k

SuspensionLasts ==
    \A k \in Controls :
        /\ ctl[k] \in {"suspending", "rotating", "draining", "clearing"} => suspended
        /\ ctl[k] \in {"clearing", "forgetting"} => vault = 0
        /\ ctl[k] = "resumed" => ~suspended

SuspendedIsOld == suspended => \A c \in Callers : operation[c].kind = "pooled" => operation[c].right # "valid"

VaultIsKept == \A c \in Callers : operation[c].pc \notin {"idle", "joined"} => operation[c].vault # 0

RightIsHeld ==
    \A c \in Callers : /\ operation[c].pc = "joined" => operation[c].kind = "session"
                       /\ operation[c].kind = "session" => operation[c].right # "none"

OnSession == {"reserved", "dispatched", "keyed", "remote"}

SessionsAreOver ==
    \A c \in Callers : operation[c].kind = "session" /\ operation[c].pc \notin {"idle", "joined"} =>
        operation[c].right # "valid"

PoolIsOver ==
    \A c \in Callers : operation[c].kind = "pooled" =>
        operation[c].pc # "remote" /\ (operation[c].pc = "keyed" => operation[c].right # "valid")

ClearLasts ==
    lockHolds \/ (\E k \in Controls : ctl[k] = "clearing") => vault = 0 /\ SessionsAreOver /\ PoolIsOver

LockKeeps ==
    lockHolds => \A c \in Callers :
        operation[c].kind = "session" /\ operation[c].pc \in OnSession => operation[c].right = "ended"

LockedIsHandled ==
    locked => \/ forceStop \/ vault = 0
              \/ \E k \in Controls : ctl[k] \in {"locking", "reopening", "suspending", "closing",
                                                 "draining", "unlocked", "resumed"}

SuspendedIsHandled ==
    suspended => \/ vault = 0
                 \/ \E k \in Controls : ctl[k] \in {"suspending", "rotating", "draining", "unlocked"}

ControlInv == MutexIsHeld /\ SuspensionLasts /\ LockedIsHandled /\ SuspendedIsHandled
OperationInv == SuspendedIsOld /\ VaultIsKept /\ RightIsHeld /\ ClearLasts /\ LockKeeps

IInv == TypeOK /\ ControlInv /\ OperationInv

-----------------------------------------------------------------------------
(* The barrier: every step of the daemon is a step of it, or none *)

LEMMA CallerRefines ==
  ASSUME NEW c \in Callers, OperationStep(c)
  PROVE  [Barrier!Next]_barrierVars
  <1>1. CASE \/ JoinSession(c) \/ SessionEnds(c) \/ LockedOut(c) \/ \E kind \in Kinds : TakeVault(c, kind)
             \/ Refused(c) \/ Reserve(c) \/ AcquireTarget(c) \/ Decrypt(c) \/ Connect(c)
    BY <1>1 DEF JoinSession, SessionEnds, LockedOut, TakeVault, Refused, Reserve, AcquireTarget, Decrypt, Connect
  <1>2. CASE AcquireLease(c) \/ Dispatch(c) \/ StoppedBeforeDispatch(c) \/ Finish(c) \/ CloseDrained(c)
    <2>1. Barrier!CallerStep(c)
      BY <1>2 DEF AcquireLease, Dispatch, StoppedBeforeDispatch, Finish, CloseDrained, Barrier!CallerStep
    <2> QED BY <2>1 DEF Barrier!Next
  <1> QED BY <1>1, <1>2 DEF OperationStep

LEMMA ControlRefines ==
  ASSUME NEW k \in Controls, ControlStep(k)
  PROVE  [Barrier!Next]_barrierVars
  <1>1. CASE \/ SuspendForLock(k) \/ UnlockVault(k) \/ UnlockFails(k) \/ Resume(k)
             \/ SuspendForRotation(k) \/ Rotated(k) \/ RotationReturns(k) \/ RotationFails(k)
             \/ CloseSuspend(k) \/ LockVault(k) \/ CloseVault(k)
    BY <1>1 DEF SuspendForLock, UnlockVault, UnlockFails, Resume, SuspendForRotation, Rotated,
                RotationReturns, RotationFails, CloseSuspend, LockVault, CloseVault
  <1>2. CASE LockDispatch(k) \/ DispatchDrained(k) \/ LockTimeout(k) \/ LockReturns(k) \/ CloseBegin(k)
    <2>1. Barrier!LockerStep(k)
      BY <1>2 DEF LockDispatch, DispatchDrained, LockTimeout, LockReturns, CloseBegin, Barrier!LockerStep
    <2> QED BY <2>1 DEF Barrier!Next
  <1>3. CASE LockFails(k) \/ UnlockReturns(k)
    BY <1>3 DEF LockFails, UnlockReturns, UnlockDispatch, Barrier!Next
  <1> QED BY <1>1, <1>2, <1>3 DEF ControlStep

LEMMA StepRefines == [Next]_vars => [Barrier!Next]_barrierVars
  <1> SUFFICES ASSUME [Next]_vars PROVE [Barrier!Next]_barrierVars
    OBVIOUS
  <1>1. CASE BlockDispatch
    BY <1>1 DEF BlockDispatch, Barrier!Next
  <1>2. CASE UNCHANGED vars
    BY <1>2 DEF vars, barrierVars
  <1> QED BY <1>1, <1>2, CallerRefines, ControlRefines DEF Next

LEMMA BarrierType ==
  ASSUME Barrier!TypeOK, [Barrier!Next]_barrierVars
  PROVE  Barrier!TypeOK'
  <1> USE DEF Barrier!TypeOK
  <1>1. ASSUME NEW c \in Callers, Barrier!CallerStep(c) PROVE Barrier!TypeOK'
    <2>1. CASE Barrier!Acquire(c) \/ Barrier!DropLease(c)
      BY <2>1 DEF Barrier!Acquire, Barrier!DropLease, Barrier!LeaseState, Barrier!lockVars
    <2>2. CASE Barrier!BeginDispatch(c)
      BY <2>2 DEF Barrier!BeginDispatch, Barrier!NewChannel, Barrier!LeaseState, Barrier!lockVars
    <2>3. CASE Barrier!FinishDispatch(c)
      BY <2>3 DEF Barrier!FinishDispatch, Barrier!LeaseState, Barrier!lockVars
    <2>4. CASE Barrier!CloseDrained(c)
      BY <2>4 DEF Barrier!CloseDrained, Barrier!LeaseState, Barrier!lockVars
    <2> QED BY <1>1, <2>1, <2>2, <2>3, <2>4 DEF Barrier!CallerStep
  <1>2. ASSUME NEW k \in Controls, Barrier!LockerStep(k) PROVE Barrier!TypeOK'
    <2>1. CASE Barrier!Lock(k)
      BY <2>1 DEF Barrier!Lock, Barrier!LockerState
    <2>2. CASE Barrier!LockDrained(k)
      BY <2>2 DEF Barrier!LockDrained, Barrier!LockerState
    <2>3. CASE Barrier!LockCancelled(k)
      BY <2>3 DEF Barrier!LockCancelled, Barrier!LockerState
    <2>4. CASE Barrier!LockerDone(k)
      BY <2>4 DEF Barrier!LockerDone, Barrier!LockerState
    <2> QED BY <1>2, <2>1, <2>2, <2>3, <2>4 DEF Barrier!LockerStep
  <1>3. CASE Barrier!Block \/ Barrier!Unlock
    BY <1>3 DEF Barrier!Block, Barrier!Unlock, Barrier!lockVars
  <1>4. CASE UNCHANGED barrierVars
    BY <1>4 DEF barrierVars
  <1> QED BY <1>1, <1>2, <1>3, <1>4 DEF Barrier!Next

-----------------------------------------------------------------------------
(* Operations *)

\* What an operation's own step may do to it.
Moved(c) ==
    LET o == operation[c] n == operation'[c]
    IN  \/ n = o
        \/ n = WithoutSession(o)
        \/ n.pc = "idle" /\ n.kind = "database"
        \/ n.pc = "joined" /\ n.kind = "session" /\ n.right = "valid"
        \/ /\ n.pc = "vetted" /\ n.vault = vault /\ vault # 0
           /\ n.kind = "pooled" => n.right # "valid"
           /\ n.kind = "session" => o.pc = "joined" /\ n.right = o.right
        \/ /\ n.kind = o.kind /\ n.vault = o.vault /\ o.pc \notin {"idle", "joined"}
           /\ \/ n.pc = "reserved" /\ n.right = o.right /\ n.kind = "session" /\ o.right = "valid"
              \/ n.pc = "dispatched" /\ n.right = o.right /\ (n.kind = "session" => o.pc = "reserved")
              \/ n.pc = "leased" /\ ~suspended /\ n.kind = "pooled"
              \/ /\ n.pc = "keyed" /\ n.right = o.right /\ (n.vault = vault \/ n.kind = "candidate")
                 /\ n.kind # "pooled" => o.pc = "dispatched"
              \/ /\ o.pc = "keyed" /\ n.pc = "remote" /\ n.right = o.right
                 /\ n.kind = "pooled" => n.right = "valid"

LEMMA NothingRuns == NoOperation \in Operation /\ NoOperation.pc = "idle" /\ NoOperation.right = "none"
                     /\ NoOperation.kind = "database"
  <1>1. 0 \in 0..MaxVaults
    BY MaxVaultsAssumption
  <1> QED BY <1>1 DEF NoOperation, Operation, Kinds

LEMMA SessionEndKeeps ==
  ASSUME NEW o \in Operation
  PROVE  /\ WithoutSession(o) \in Operation /\ WithoutSession(o).pc = o.pc /\ WithoutSession(o).kind = o.kind /\ WithoutSession(o).vault = o.vault
         /\ o.right = "valid" /\ o.kind = "session" => WithoutSession(o).right = "ended"
         /\ ~(o.right = "valid" /\ o.kind = "session") => WithoutSession(o) = o
  <1>1. CASE o.right = "valid" /\ o.kind = "session"
    <2>1. WithoutSession(o) = [o EXCEPT !.right = "ended"]
      BY <1>1 DEF WithoutSession
    <2> QED BY <1>1, <2>1 DEF Operation
  <1>2. CASE ~(o.right = "valid" /\ o.kind = "session")
    <2>1. WithoutSession(o) = o
      BY <1>2, Zenon DEF WithoutSession
    <2> QED BY <1>2, <2>1
  <1> QED BY <1>1, <1>2

LEMMA OperationMoves ==
  ASSUME TypeOK, NEW c \in Callers, OperationStep(c)
  PROVE  /\ operation' \in [Callers -> Operation]
         /\ \A d \in Callers \ {c} : operation'[d] \in {operation[d], WithoutSession(operation[d])}
         /\ Moved(c) /\ UNCHANGED <<lifecycle, locked>>
  <1>0. operation \in [Callers -> Operation] /\ operation[c] \in Operation
    BY DEF TypeOK
  <1>1. UNCHANGED lifecycle
    BY DEF OperationStep, JoinSession, SessionEnds, LockedOut, TakeVault, Refused, AcquireLease, Reserve,
           Dispatch, StoppedBeforeDispatch, AcquireTarget, Decrypt, Connect, Finish, CloseDrained
  <1>2. UNCHANGED locked
    <2>1. CASE \/ JoinSession(c) \/ SessionEnds(c) \/ LockedOut(c) \/ \E kind \in Kinds : TakeVault(c, kind)
               \/ Refused(c) \/ Reserve(c) \/ AcquireTarget(c) \/ Decrypt(c) \/ Connect(c)
      BY <2>1 DEF JoinSession, SessionEnds, LockedOut, TakeVault, Refused, Reserve, AcquireTarget, Decrypt,
                  Connect, barrierVars
    <2>2. CASE AcquireLease(c) \/ Dispatch(c) \/ StoppedBeforeDispatch(c) \/ Finish(c) \/ CloseDrained(c)
      BY <2>2 DEF AcquireLease, Dispatch, StoppedBeforeDispatch, Finish, CloseDrained,
                  Barrier!Acquire, Barrier!BeginDispatch, Barrier!DropLease, Barrier!FinishDispatch,
                  Barrier!CloseDrained
    <2> QED BY <2>1, <2>2 DEF OperationStep
  <1>3. SUFFICES /\ operation' \in [Callers -> Operation]
                 /\ \A d \in Callers \ {c} : operation'[d] \in {operation[d], WithoutSession(operation[d])}
                 /\ Moved(c)
    BY <1>1, <1>2
  <1>4. ASSUME NEW y \in Operation, operation' = [operation EXCEPT ![c] = y]
        PROVE  /\ operation' \in [Callers -> Operation] /\ operation'[c] = y
               /\ \A d \in Callers \ {c} : operation'[d] = operation[d]
    BY <1>0, <1>4
  <1>5. CASE AcquireLease(c) \/ CloseDrained(c)
    BY <1>0, <1>5 DEF AcquireLease, CloseDrained, Moved
  <1>6. CASE Refused(c) \/ StoppedBeforeDispatch(c) \/ Finish(c)
    <2>1. operation' = [operation EXCEPT ![c] = NoOperation]
      BY <1>6 DEF Refused, StoppedBeforeDispatch, Finish
    <2> QED BY <1>4, <2>1, NothingRuns DEF Moved
  <1>7. ASSUME NEW kind \in Kinds, TakeVault(c, kind)
        PROVE  /\ operation' \in [Callers -> Operation]
               /\ \A d \in Callers \ {c} : operation'[d] = operation[d]
               /\ Moved(c)
    <2> DEFINE y == [pc |-> "vetted", kind |-> kind, vault |-> vault,
                     right |-> IF kind = "session" THEN operation[c].right ELSE "none"]
    <2>1. vault \in 0..MaxVaults
      BY MaxVaultsAssumption DEF TypeOK
    <2>2. /\ y \in Operation /\ y.pc = "vetted" /\ y.vault = vault /\ y.kind = kind
          /\ kind = "session" => y.right = operation[c].right
          /\ kind = "pooled" => y.right = "none"
      BY <1>0, <2>1 DEF Operation
    <2>3. operation' = [operation EXCEPT ![c] = y] /\ vault # 0 /\ (kind = "session" => operation[c].pc = "joined")
      BY <1>7 DEF TakeVault
    <2> HIDE DEF y
    <2> QED BY <1>4, <2>2, <2>3 DEF Moved
  <1>8. CASE Dispatch(c)
    <2> DEFINE y == [operation[c] EXCEPT !.pc = "dispatched"]
    <2>1. /\ y \in Operation /\ y.kind = operation[c].kind /\ y.vault = operation[c].vault
          /\ y.pc = "dispatched" /\ y.right = operation[c].right
      BY <1>0 DEF Operation
    <2>2. operation' = [operation EXCEPT ![c] = y] /\ operation[c].pc = (IF operation[c].kind = "session" THEN "reserved" ELSE "vetted")
      BY <1>0, <1>8 DEF Dispatch
    <2> HIDE DEF y
    <2> QED BY <1>4, <2>1, <2>2 DEF Moved
  <1>9. CASE AcquireTarget(c)
    <2> DEFINE y == [operation[c] EXCEPT !.pc = "leased", !.right = "valid"]
    <2>1. /\ y \in Operation /\ y.kind = operation[c].kind /\ y.vault = operation[c].vault
          /\ y.pc = "leased"
      BY <1>0 DEF Operation
    <2>2. operation' = [operation EXCEPT ![c] = y] /\ Has(c, "pooled", "dispatched") /\ ~suspended
      BY <1>0, <1>9 DEF AcquireTarget
    <2> HIDE DEF y
    <2> QED BY <1>4, <2>1, <2>2 DEF Moved, Has
  <1>10. CASE Decrypt(c)
    <2> DEFINE y == [operation[c] EXCEPT !.pc = "keyed"]
    <2>1. /\ y \in Operation /\ y.kind = operation[c].kind /\ y.vault = operation[c].vault
          /\ y.pc = "keyed" /\ y.right = operation[c].right
      BY <1>0 DEF Operation
    <2>2. operation' = [operation EXCEPT ![c] = y] /\ operation[c].pc = (IF operation[c].kind = "pooled" THEN "leased" ELSE "dispatched")
          /\ (operation[c].vault = vault \/ operation[c].kind = "candidate")
      BY <1>0, <1>10 DEF Decrypt, VaultOpen
    <2> HIDE DEF y
    <2> QED BY <1>4, <2>1, <2>2 DEF Moved
  <1>11. CASE Connect(c)
    <2> DEFINE y == [operation[c] EXCEPT !.pc = "remote"]
    <2>1. /\ y \in Operation /\ y.kind = operation[c].kind /\ y.vault = operation[c].vault
          /\ y.pc = "remote" /\ y.right = operation[c].right
      BY <1>0 DEF Operation
    <2>2. operation' = [operation EXCEPT ![c] = y] /\ operation[c].pc = "keyed"
          /\ (operation[c].kind = "pooled" => operation[c].right = "valid")
      BY <1>0, <1>11 DEF Connect
    <2> HIDE DEF y
    <2> QED BY <1>4, <2>1, <2>2 DEF Moved
  <1>12. CASE Reserve(c)
    <2> DEFINE y == [operation[c] EXCEPT !.pc = "reserved"]
    <2>1. /\ y \in Operation /\ y.kind = operation[c].kind /\ y.vault = operation[c].vault
          /\ y.pc = "reserved" /\ y.right = operation[c].right
      BY <1>0 DEF Operation
    <2>2. operation' = [operation EXCEPT ![c] = y] /\ Has(c, "session", "vetted") /\ operation[c].right = "valid"
      BY <1>0, <1>12 DEF Reserve
    <2> HIDE DEF y
    <2> QED BY <1>4, <2>1, <2>2 DEF Moved, Has
  <1>13. CASE JoinSession(c)
    <2> DEFINE y == [pc |-> "joined", kind |-> "session", vault |-> 0, right |-> "valid"]
    <2>1. y \in Operation /\ y.pc = "joined" /\ y.kind = "session" /\ y.right = "valid"
      BY MaxVaultsAssumption DEF Operation, Kinds
    <2>2. operation' = [operation EXCEPT ![c] = y]
      BY <1>13 DEF JoinSession
    <2> HIDE DEF y
    <2> QED BY <1>4, <2>1, <2>2 DEF Moved
  <1>14. CASE SessionEnds(c)
    <2>1. operation' = [operation EXCEPT ![c] = WithoutSession(operation[c])] /\ WithoutSession(operation[c]) \in Operation
      <3>1. operation' = [operation EXCEPT ![c] = WithoutSession(operation[c])]
        BY <1>14, Zenon DEF SessionEnds
      <3> QED BY <1>0, <3>1, SessionEndKeeps
    <2> QED BY <1>4, <2>1 DEF Moved
  <1>15. CASE LockedOut(c)
    <2>1. operation' = [d \in Callers |-> IF d = c THEN NoOperation ELSE WithoutSession(operation[d])]
      BY <1>15, Zenon DEF LockedOut
    <2>2. \A d \in Callers : WithoutSession(operation[d]) \in Operation
      BY <1>0, SessionEndKeeps
    <2> QED BY <2>1, <2>2, NothingRuns DEF Moved
  <1> QED BY <1>5, <1>6, <1>7, <1>8, <1>9, <1>10, <1>11, <1>12, <1>13, <1>14, <1>15 DEF OperationStep

\* A step is a move of one operation, or the end of a session.
LEMMA OperationIInv ==
  ASSUME IInv, NEW c \in Callers, OperationStep(c)
  PROVE  ControlInv' /\ OperationInv'
  <1>0. /\ \A d \in Callers : d = c \/ operation'[d] \in {operation[d], WithoutSession(operation[d])}
        /\ Moved(c) /\ UNCHANGED <<vault, vaults, suspended, shut, mu, ctl, lockHolds, forceStop, locked>>
    BY OperationMoves DEF IInv, lifecycle
  <1>1. ControlInv'
    BY <1>0 DEF IInv, ControlInv, MutexIsHeld, SuspensionLasts, LockedIsHandled, SuspendedIsHandled
  <1>2. \A d \in Callers : LET o == operation[d] e == WithoutSession(operation[d])
                           IN /\ e.pc = o.pc /\ e.kind = o.kind /\ e.vault = o.vault
                              /\ e.right = o.right \/ (o.kind = "session" /\ e.right = "ended")
    BY SessionEndKeeps DEF IInv, TypeOK
  <1>3. SuspendedIsOld'
    BY <1>0, <1>2 DEF IInv, OperationInv, SuspendedIsOld, Moved
  <1>4. VaultIsKept'
    BY <1>0, <1>2 DEF IInv, OperationInv, VaultIsKept, Moved
  <1>5. RightIsHeld'
    BY <1>0, <1>2 DEF IInv, OperationInv, RightIsHeld, Moved
  <1>6. ClearLasts'
    <2>1. SUFFICES ASSUME vault = 0, SessionsAreOver, PoolIsOver
                   PROVE  SessionsAreOver' /\ PoolIsOver'
      BY <1>0 DEF IInv, OperationInv, ClearLasts
    <2>2. SessionsAreOver'
      BY <1>0, <1>2, <2>1 DEF SessionsAreOver, Moved
    <2>3. PoolIsOver'
      BY <1>0, <1>2, <2>1 DEF IInv, OperationInv, VaultIsKept, PoolIsOver, Moved
    <2> QED BY <2>2, <2>3
  <1>7. LockKeeps'
    <2>1. SUFFICES ASSUME lockHolds PROVE LockKeeps'
      BY <1>0 DEF LockKeeps
    <2>2. SessionsAreOver /\ vault = 0
      BY <2>1 DEF IInv, OperationInv, ClearLasts
    <2> QED BY <1>0, <1>2, <2>1, <2>2 DEF IInv, OperationInv, LockKeeps, SessionsAreOver, OnSession, Moved
  <1> QED BY <1>1, <1>3, <1>4, <1>5, <1>6, <1>7 DEF OperationInv

-----------------------------------------------------------------------------
(* Control requests *)

LEMMA RevokeDoes ==
  ASSUME TypeOK, NEW kind, Revoke(kind)
  PROVE  /\ operation' \in [Callers -> Operation]
         /\ \A c \in Callers :
              /\ operation'[c].pc = operation[c].pc /\ operation'[c].kind = operation[c].kind
              /\ operation'[c].vault = operation[c].vault
              /\ operation[c].kind = kind => operation'[c].right # "valid"
              /\ operation'[c].right \in {operation[c].right, "revoked"}
              /\ operation[c].kind # kind \/ operation[c].right # "valid" => operation'[c] = operation[c]
  <1>0. operation \in [Callers -> Operation]
    BY DEF TypeOK
  <1>1. ASSUME NEW x \in Operation
        PROVE  LET y == [x EXCEPT !.right = "revoked"]
               IN y \in Operation /\ y.pc = x.pc /\ y.kind = x.kind /\ y.vault = x.vault /\ y.right = "revoked"
    BY DEF Operation
  <1>2. operation' = [c \in Callers |->
                        IF operation[c].kind = kind /\ operation[c].right = "valid"
                        THEN [operation[c] EXCEPT !.right = "revoked"] ELSE operation[c]]
    BY DEF Revoke
  <1>3. ASSUME NEW c \in Callers
        PROVE  /\ operation'[c] \in Operation
               /\ operation'[c].pc = operation[c].pc /\ operation'[c].kind = operation[c].kind
               /\ operation'[c].vault = operation[c].vault
               /\ operation[c].kind = kind => operation'[c].right # "valid"
               /\ operation'[c].right \in {operation[c].right, "revoked"}
               /\ operation[c].kind # kind \/ operation[c].right # "valid" => operation'[c] = operation[c]
    BY <1>0, <1>1, <1>2
  <1> QED BY <1>2, <1>3

\* Operations, when a request suspends the pool and leaves the rest alone.
LEMMA SuspendKeeps ==
  ASSUME TypeOK, OperationInv, Suspend, UNCHANGED <<vault, lockHolds>>,
         \A k \in Controls : ctl'[k] = "clearing" => ctl[k] = "clearing"
  PROVE  OperationInv'
  <1>1. Revoke("pooled")
    BY DEF Suspend
  <1>2. SuspendedIsOld' /\ VaultIsKept'
    BY <1>1, RevokeDoes DEF OperationInv, SuspendedIsOld, VaultIsKept
  <1>3. RightIsHeld'
    BY <1>1, RevokeDoes DEF OperationInv, RightIsHeld
  <1>4. ClearLasts'
    BY <1>1, RevokeDoes DEF OperationInv, ClearLasts, SessionsAreOver, PoolIsOver
  <1>5. LockKeeps'
    BY <1>1, RevokeDoes DEF OperationInv, LockKeeps
  <1> QED BY <1>2, <1>3, <1>4, <1>5 DEF OperationInv

\* The same, when it clears the sessions of a locked vault; what remains is to
\* show that the pool has been drained.
LEMMA ClearKeeps ==
  ASSUME TypeOK, OperationInv, ClearSessions, vault' = 0, UNCHANGED <<suspended, lockHolds>>,
         \/ PoolIsOver
         \/ \A k \in Controls : ctl'[k] = "clearing" => ctl[k] = "clearing"
  PROVE  OperationInv'
  <1>1. Revoke("session")
    BY DEF ClearSessions
  <1>2. SuspendedIsOld' /\ VaultIsKept'
    BY <1>1, RevokeDoes DEF OperationInv, SuspendedIsOld, VaultIsKept
  <1>3. RightIsHeld'
    BY <1>1, RevokeDoes DEF OperationInv, RightIsHeld
  <1>4. SessionsAreOver'
    BY <1>1, RevokeDoes DEF SessionsAreOver
  <1>5. PoolIsOver => PoolIsOver'
    BY <1>1, RevokeDoes DEF PoolIsOver
  <1>6. ClearLasts'
    BY <1>4, <1>5 DEF OperationInv, ClearLasts
  <1>7. LockKeeps'
    BY <1>1, RevokeDoes DEF OperationInv, LockKeeps, ClearLasts, SessionsAreOver, OnSession
  <1> QED BY <1>2, <1>3, <1>6, <1>7 DEF OperationInv

\* The same, when it leaves the operations alone.
LEMMA OperationsStay ==
  ASSUME OperationInv, UNCHANGED operation, suspended' => suspended,
         lockHolds' => lockHolds,
         \A k \in Controls : ctl'[k] = "clearing" => ctl[k] = "clearing",
         lockHolds' \/ (\E k \in Controls : ctl'[k] = "clearing") => vault' \in {0, vault}
  PROVE  OperationInv'
  <1>1. SuspendedIsOld' /\ VaultIsKept' /\ RightIsHeld' /\ LockKeeps'
    BY DEF OperationInv, SuspendedIsOld, VaultIsKept, RightIsHeld, LockKeeps
  <1>2. ClearLasts'
    BY DEF OperationInv, ClearLasts, SessionsAreOver, PoolIsOver
  <1> QED BY <1>1, <1>2 DEF OperationInv

LEMMA GoToDoes ==
  ASSUME TypeOK, NEW k \in Controls, NEW state \in ControlState, GoTo(k, state)
  PROVE  /\ ctl' \in [Controls -> ControlState] /\ ctl'[k] = state
         /\ \A j \in Controls : j # k => ctl'[j] = ctl[j]
  BY DEF TypeOK, GoTo

\* "lock" before it holds the mutex, and prepareForceStop: they touch only the
\* barrier.
LEMMA BarrierRequests ==
  ASSUME IInv, NEW k \in Controls,
         LockDispatch(k) \/ DispatchDrained(k) \/ LockTimeout(k) \/ LockFails(k)
  PROVE  ControlInv' /\ OperationInv'
  <1> USE DEF IInv
  <1>2. UNCHANGED <<vault, suspended, mu, forceStop, operation, lockHolds>>
    BY DEF LockDispatch, DispatchDrained, LockTimeout, LockFails, lifecycle
  <1>3. \/ LockDispatch(k) /\ ctl[k] = "idle" /\ GoTo(k, "locking")
        \/ DispatchDrained(k) /\ UNCHANGED <<ctl, locked>>
        \/ LockTimeout(k) /\ ctl[k] = "locking" /\ GoTo(k, "reopening") /\ UNCHANGED locked
        \/ LockFails(k) /\ ctl[k] = "reopening" /\ GoTo(k, "idle") /\ ~locked'
    BY DEF LockDispatch, DispatchDrained, LockTimeout, LockFails, lifecycle, UnlockDispatch, barrierVars,
           Barrier!LockDrained, Barrier!LockCancelled, Barrier!Unlock
  <1>4. /\ \A j \in Controls : j # k => ctl'[j] = ctl[j]
        /\ \/ ctl[k] = "idle" /\ ctl'[k] = "locking"
           \/ UNCHANGED <<ctl, locked>>
           \/ ctl[k] = "locking" /\ ctl'[k] = "reopening" /\ UNCHANGED locked
           \/ ctl[k] = "reopening" /\ ctl'[k] = "idle" /\ ~locked'
    BY <1>3, GoToDoes DEF ControlState
  <1>1. OperationInv'
    BY <1>2, <1>4, OperationsStay
  <1>5. MutexIsHeld' /\ SuspensionLasts'
    BY <1>2, <1>4 DEF ControlInv, MutexIsHeld, Holding, SuspensionLasts
  <1>6. LockedIsHandled'
    BY <1>2, <1>4 DEF ControlInv, LockedIsHandled
  <1>7. SuspendedIsHandled'
    BY <1>2, <1>4 DEF ControlInv, SuspendedIsHandled
  <1> QED BY <1>1, <1>5, <1>6, <1>7 DEF ControlInv

\* The requests that take the mutex.
LEMMA MutexTaken ==
  ASSUME IInv, NEW k \in Controls,
         SuspendForLock(k) \/ UnlockVault(k) \/ SuspendForRotation(k) \/ CloseBegin(k)
  PROVE  ControlInv' /\ OperationInv'
  <1> USE DEF IInv
  <1>1. mu = Nobody /\ mu' = k /\ ctl[k] \in {"idle", "locking"} /\ UNCHANGED forceStop
    BY DEF SuspendForLock, UnlockVault, SuspendForRotation, CloseBegin, TakeMutex
  <1>3. \/ /\ SuspendForLock(k) /\ GoTo(k, "suspending") /\ Suspend
           /\ ctl[k] = "locking" /\ UNCHANGED <<locked, vault>>
        \/ /\ SuspendForRotation(k) /\ GoTo(k, "rotating") /\ Suspend
           /\ ctl[k] = "idle" /\ UNCHANGED <<locked, vault>>
        \/ UnlockVault(k) /\ GoTo(k, "unlocked") /\ ctl[k] = "idle" /\ UNCHANGED <<locked, suspended>>
        \/ CloseBegin(k) /\ GoTo(k, "closing") /\ ctl[k] = "idle" /\ UNCHANGED <<vault, suspended>>
    BY DEF SuspendForLock, UnlockVault, SuspendForRotation, CloseBegin, TakeMutex, barrierVars
  <1>4. /\ \A j \in Controls : j # k => ctl'[j] = ctl[j]
        /\ \/ ctl'[k] = "suspending" /\ suspended' /\ ctl[k] = "locking" /\ UNCHANGED <<locked, vault>>
           \/ ctl'[k] = "rotating" /\ suspended' /\ ctl[k] = "idle" /\ UNCHANGED <<locked, vault>>
           \/ ctl'[k] = "unlocked" /\ ctl[k] = "idle" /\ UNCHANGED <<locked, suspended>>
           \/ ctl'[k] = "closing" /\ ctl[k] = "idle" /\ UNCHANGED <<vault, suspended>>
    BY <1>3, GoToDoes DEF ControlState, Suspend
  <1>5. \A j \in Controls : ctl[j] \notin Holding
    BY <1>1, NobodyAssumption DEF ControlInv, MutexIsHeld
  <1>2. OperationInv'
    <2>0. \A j \in Controls : ctl'[j] # "clearing"
      BY <1>4, <1>5 DEF Holding
    <2>1. CASE SuspendForLock(k) \/ SuspendForRotation(k)
      BY <2>0, <2>1, SuspendKeeps DEF SuspendForLock, SuspendForRotation
    <2>2. CASE UnlockVault(k) \/ CloseBegin(k)
      BY <2>0, <2>2, OperationsStay DEF UnlockVault, CloseBegin
    <2> QED BY <1>3, <2>1, <2>2
  <1>6. MutexIsHeld' /\ SuspensionLasts'
    BY <1>1, <1>4, <1>5 DEF MutexIsHeld, Holding, SuspensionLasts
  <1>7. LockedIsHandled'
    BY <1>1, <1>4 DEF ControlInv, LockedIsHandled
  <1>8. SuspendedIsHandled'
    BY <1>1, <1>4 DEF ControlInv, SuspendedIsHandled
  <1> QED BY <1>2, <1>6, <1>7, <1>8 DEF ControlInv

\* The requests that go on under the mutex.
LEMMA MutexKept ==
  ASSUME IInv, NEW k \in Controls, Resume(k) \/ CloseSuspend(k)
  PROVE  ControlInv' /\ OperationInv'
  <1> USE DEF IInv
  <1>1. UNCHANGED <<mu, forceStop, vault, lockHolds, locked>>
    BY DEF Resume, CloseSuspend, barrierVars
  <1>2. /\ \A j \in Controls : j # k => ctl'[j] = ctl[j]
        /\ \/ ctl[k] = "unlocked" /\ ctl'[k] = "resumed" /\ ~suspended'
           \/ ctl[k] = "closing" /\ ctl'[k] = "draining" /\ suspended'
    <2>1. CASE Resume(k)
      BY <2>1, GoToDoes DEF Resume, ControlState
    <2>2. CASE CloseSuspend(k)
      BY <2>2, GoToDoes DEF CloseSuspend, ControlState, Suspend
    <2> QED BY <2>1, <2>2
  <1>3. OperationInv'
    <2>1. CASE CloseSuspend(k)
      BY <1>1, <1>2, <2>1, SuspendKeeps DEF CloseSuspend
    <2>2. CASE Resume(k)
      BY <1>2, <2>2, OperationsStay DEF Resume
    <2> QED BY <2>1, <2>2
  <1>4. \A j \in Controls : j # k => ctl[j] \notin Holding
    BY <1>2 DEF ControlInv, MutexIsHeld, Holding
  <1>5. MutexIsHeld' /\ SuspensionLasts'
    BY <1>1, <1>2, <1>4 DEF ControlInv, MutexIsHeld, Holding, SuspensionLasts
  <1>6. LockedIsHandled'
    BY <1>1, <1>2 DEF ControlInv, LockedIsHandled
  <1>7. SuspendedIsHandled'
    BY <1>1, <1>2 DEF ControlInv, SuspendedIsHandled
  <1> QED BY <1>3, <1>5, <1>6, <1>7 DEF ControlInv

\* The requests that lock the vault and clear the sessions.
LEMMA VaultLocked ==
  ASSUME IInv, NEW k \in Controls, LockVault(k) \/ Rotated(k) \/ CloseVault(k)
  PROVE  ControlInv' /\ OperationInv'
  <1> USE DEF IInv
  <1>1. vault' = 0 /\ ClearSessions /\ SSHDrained /\ UNCHANGED <<mu, forceStop, suspended, lockHolds>>
    BY DEF LockVault, Rotated, CloseVault
  <1>2. /\ \A j \in Controls : j # k => ctl'[j] = ctl[j]
        /\ \/ ctl[k] \in {"suspending", "draining"} /\ ctl'[k] = "clearing"
           \/ ctl[k] = "rotating" /\ ctl'[k] = "forgetting"
    BY GoToDoes DEF LockVault, Rotated, CloseVault, ControlState
  <1>3. suspended
    BY <1>2 DEF ControlInv, SuspensionLasts
  <1>4. PoolIsOver
    <2>1. \A c \in Callers : operation[c].kind = "pooled" => operation[c].pc # "remote"
      BY <1>1 DEF SSHDrained, Remote
    <2> QED BY <1>3, <2>1 DEF OperationInv, SuspendedIsOld, PoolIsOver
  <1>5. OperationInv'
    BY <1>1, <1>4, ClearKeeps
  <1>6. \A j \in Controls : j # k => ctl[j] \notin Holding
    BY <1>2 DEF ControlInv, MutexIsHeld, Holding
  <1>7. MutexIsHeld' /\ SuspensionLasts'
    BY <1>1, <1>2, <1>3, <1>6 DEF ControlInv, MutexIsHeld, Holding, SuspensionLasts
  <1>8. LockedIsHandled' /\ SuspendedIsHandled'
    BY <1>1 DEF LockedIsHandled, SuspendedIsHandled
  <1> QED BY <1>5, <1>7, <1>8 DEF ControlInv

\* The requests that return the mutex: they have locked the vault, or opened
\* again what they closed.
LEMMA MutexReturned ==
  ASSUME IInv, NEW k \in Controls,
         LockReturns(k) \/ UnlockReturns(k) \/ RotationReturns(k) \/ RotationFails(k)
  PROVE  ControlInv' /\ OperationInv'
  <1> USE DEF IInv
  <1>1. Return(k) /\ UNCHANGED <<forceStop, operation, vault>> /\ ctl[k] \in Holding
    BY DEF LockReturns, UnlockReturns, RotationReturns, RotationFails, Holding
  <1>2. mu' = Nobody /\ ctl'[k] = "idle" /\ \A j \in Controls : j # k => ctl'[j] = ctl[j]
    BY <1>1, GoToDoes DEF Return, ControlState
  <1>3. \A j \in Controls : j # k => ctl[j] \notin Holding
    BY <1>1 DEF ControlInv, MutexIsHeld
  <1>4. \A j \in Controls : ctl'[j] \notin Holding
    BY <1>2, <1>3 DEF Holding
  <1>5. MutexIsHeld' /\ SuspensionLasts'
    BY <1>2, <1>4, NobodyAssumption DEF MutexIsHeld, SuspensionLasts, Holding
  <1>6. \/ vault' = 0 /\ suspended' = suspended
        \/ ~locked' /\ ctl[k] = "resumed" /\ UNCHANGED suspended
        \/ ctl[k] = "rotating" /\ ~suspended' /\ UNCHANGED <<locked, vault>>
    BY DEF LockReturns, UnlockReturns, RotationReturns, RotationFails, UnlockDispatch, barrierVars,
           Barrier!Unlock, ControlInv, SuspensionLasts
  <1>7. LockedIsHandled'
    BY <1>1, <1>2, <1>6 DEF ControlInv, LockedIsHandled
  <1>8. SuspendedIsHandled'
    BY <1>6 DEF ControlInv, SuspensionLasts, SuspendedIsHandled
  <1>9. OperationInv'
    <2>1. CASE LockReturns(k)
      <3>1. ctl[k] = "clearing" /\ SessionsCleared /\ UNCHANGED suspended
        BY <2>1 DEF LockReturns
      <3>2. vault = 0 /\ SessionsAreOver /\ PoolIsOver
        BY <3>1 DEF OperationInv, ClearLasts
      <3>3. LockKeeps'
        <4>1. \A c \in Callers : operation[c].right \in {"none", "valid", "revoked", "ended"}
          BY DEF TypeOK, Operation
        <4> QED BY <1>1, <3>1, <3>2, <4>1 DEF OperationInv, RightIsHeld, LockKeeps, SessionsCleared, SessionsAreOver, OnSession
      <3>4. ClearLasts'
        BY <1>1, <3>2 DEF ClearLasts, SessionsAreOver, PoolIsOver
      <3>5. SuspendedIsOld' /\ VaultIsKept' /\ RightIsHeld'
        BY <1>1, <3>1 DEF OperationInv, SuspendedIsOld, VaultIsKept, RightIsHeld
      <3> QED BY <3>3, <3>4, <3>5 DEF OperationInv
    <2>2. CASE UnlockReturns(k) \/ RotationReturns(k) \/ RotationFails(k)
      <3>1. UNCHANGED lockHolds /\ (suspended' => suspended)
        BY <2>2 DEF UnlockReturns, RotationReturns, RotationFails
      <3> QED BY <1>1, <1>4, <3>1, OperationsStay DEF Holding
    <2> QED BY <2>1, <2>2
  <1> QED BY <1>5, <1>7, <1>8, <1>9 DEF ControlInv

LEMMA ControlIInv ==
  ASSUME IInv, NEW k \in Controls, ControlStep(k)
  PROVE  ControlInv' /\ OperationInv'
  <1>1. CASE UnlockFails(k)
    <2>1. /\ UNCHANGED <<locked, suspended, mu, ctl, operation, lockHolds, forceStop>> /\ vault' = 0
      BY <1>1 DEF UnlockFails, barrierVars
    <2> QED BY <2>1, OperationsStay DEF IInv, ControlInv, MutexIsHeld, SuspensionLasts, LockedIsHandled,
                                        SuspendedIsHandled
  <1> QED BY <1>1, BarrierRequests, MutexTaken, MutexKept, VaultLocked, MutexReturned DEF ControlStep

-----------------------------------------------------------------------------
(* Types *)

LEMMA ControlType ==
  ASSUME TypeOK, NEW k \in Controls, ControlStep(k)
  PROVE  /\ vault' \in 0..vaults' /\ vaults' \in 0..MaxVaults
         /\ suspended' \in BOOLEAN /\ shut' \in BOOLEAN /\ mu' \in Controls \cup {Nobody}
         /\ ctl' \in [Controls -> ControlState] /\ operation' \in [Callers -> Operation]
         /\ lockHolds' \in BOOLEAN /\ forceStop' \in BOOLEAN
  <1>0. /\ vault \in 0..vaults /\ vaults \in 0..MaxVaults /\ ctl \in [Controls -> ControlState]
        /\ suspended \in BOOLEAN /\ shut \in BOOLEAN /\ mu \in Controls \cup {Nobody}
        /\ operation \in [Callers -> Operation] /\ lockHolds \in BOOLEAN /\ forceStop \in BOOLEAN
    BY DEF TypeOK
  <1>1. vault' \in 0..vaults' /\ vaults' \in 0..MaxVaults
    <2>1. CASE UnlockVault(k)
      BY <1>0, <2>1, MaxVaultsAssumption DEF UnlockVault
    <2>2. CASE ~UnlockVault(k)
      <3>1. vaults' = vaults /\ vault' \in {0, vault}
        BY <2>2 DEF ControlStep, LockDispatch, DispatchDrained, LockTimeout, LockFails, SuspendForLock, LockVault, LockReturns,
               UnlockFails, Resume, UnlockReturns, SuspendForRotation, Rotated, RotationReturns, RotationFails, CloseBegin,
               CloseSuspend, CloseVault, lifecycle
      <3> QED BY <1>0, <3>1, MaxVaultsAssumption
    <2> QED BY <2>1, <2>2
  <1>2. operation' \in [Callers -> Operation] /\ suspended' \in BOOLEAN
    <2>1. CASE \/ SuspendForLock(k) \/ SuspendForRotation(k) \/ CloseSuspend(k) \/ LockVault(k) \/ Rotated(k)
               \/ CloseVault(k)
      <3>1. \E kind \in Kinds : Revoke(kind)
        BY <2>1 DEF SuspendForLock, SuspendForRotation, CloseSuspend, LockVault, Rotated, CloseVault, Suspend,
                    ClearSessions, Kinds
      <3>2. suspended' \in {TRUE, suspended}
        BY <2>1 DEF SuspendForLock, SuspendForRotation, CloseSuspend, LockVault, Rotated, CloseVault, Suspend
      <3> QED BY <1>0, <3>1, <3>2, RevokeDoes
    <2>2. CASE Resume(k) \/ RotationFails(k)
      <3>1. operation' = operation /\ suspended' = FALSE
        BY <2>2 DEF Resume, RotationFails
      <3> QED BY <1>0, <3>1
    <2>3. CASE \/ LockDispatch(k) \/ DispatchDrained(k) \/ LockTimeout(k) \/ LockFails(k) \/ LockReturns(k)
               \/ UnlockVault(k) \/ UnlockFails(k) \/ UnlockReturns(k) \/ RotationReturns(k) \/ CloseBegin(k)
      <3>1. operation' = operation /\ suspended' = suspended
        BY <2>3 DEF LockDispatch, DispatchDrained, LockTimeout, LockFails, LockReturns, UnlockVault, UnlockFails,
                    UnlockReturns, RotationReturns, CloseBegin, lifecycle
      <3> QED BY <1>0, <3>1
    <2> QED BY <2>1, <2>2, <2>3 DEF ControlStep
  <1>3. ctl' \in [Controls -> ControlState]
    <2>1. UNCHANGED ctl \/ \E state \in ControlState : GoTo(k, state)
      BY DEF ControlState, ControlStep, LockDispatch, DispatchDrained, LockTimeout, LockFails, SuspendForLock,
             LockVault, LockReturns, UnlockVault, UnlockFails, Resume, UnlockReturns, SuspendForRotation, Rotated, RotationReturns, RotationFails,
             CloseBegin, CloseSuspend, CloseVault, lifecycle, TakeMutex, Return
    <2> QED BY <1>0, <2>1, GoToDoes
  <1>4. mu' \in Controls \cup {Nobody}
    <2>1. CASE SuspendForLock(k) \/ UnlockVault(k) \/ SuspendForRotation(k) \/ CloseBegin(k)
      <3>1. mu' = k
        BY <2>1 DEF SuspendForLock, UnlockVault, SuspendForRotation, CloseBegin, TakeMutex
      <3> QED BY <3>1
    <2>2. CASE LockReturns(k) \/ UnlockReturns(k) \/ RotationReturns(k) \/ RotationFails(k)
      <3>1. mu' = Nobody
        BY <2>2 DEF LockReturns, UnlockReturns, RotationReturns, RotationFails, Return
      <3> QED BY <3>1
    <2>3. CASE \/ LockDispatch(k) \/ DispatchDrained(k) \/ LockTimeout(k) \/ LockFails(k) \/ UnlockFails(k)
               \/ Resume(k) \/ CloseSuspend(k) \/ LockVault(k) \/ Rotated(k) \/ CloseVault(k)
      <3>1. mu' = mu
        BY <2>3 DEF LockDispatch, DispatchDrained, LockTimeout, LockFails, UnlockFails, Resume, CloseSuspend,
                    LockVault, Rotated, CloseVault, lifecycle
      <3> QED BY <1>0, <3>1
    <2> QED BY <2>1, <2>2, <2>3 DEF ControlStep
  <1>5. shut' \in {shut, TRUE} /\ lockHolds' \in {lockHolds, TRUE, FALSE} /\ forceStop' = forceStop
    BY DEF ControlStep, LockDispatch, DispatchDrained, LockTimeout, LockFails, SuspendForLock, LockVault, LockReturns,
           UnlockVault, UnlockFails, Resume, UnlockReturns, SuspendForRotation, Rotated, RotationReturns, RotationFails,
           CloseBegin, CloseSuspend, CloseVault, lifecycle
  <1> QED BY <1>0, <1>1, <1>2, <1>3, <1>4, <1>5

-----------------------------------------------------------------------------
(* Theorems *)

LEMMA InitIInv == Init => IInv
  <1> SUFFICES ASSUME Init PROVE IInv
    OBVIOUS
  <1>1. Barrier!TypeOK /\ ~locked
    BY DEF Init, Barrier!Init, Barrier!TypeOK, Barrier!LeaseState, Barrier!LockerState
  <1>2. /\ vault \in 0..vaults /\ vaults \in 0..MaxVaults /\ ctl \in [Controls -> ControlState]
        /\ suspended \in BOOLEAN /\ shut \in BOOLEAN /\ mu \in Controls \cup {Nobody}
        /\ lockHolds \in BOOLEAN /\ forceStop \in BOOLEAN
    <2>1. vault \in 0..vaults /\ vaults \in 0..MaxVaults
      BY MaxVaultsAssumption DEF Init
    <2>2. ctl \in [Controls -> ControlState]
      BY DEF Init, ControlState
    <2>3. mu \in Controls \cup {Nobody}
      BY DEF Init
    <2>4. suspended \in BOOLEAN /\ shut \in BOOLEAN /\ lockHolds \in BOOLEAN /\ forceStop \in BOOLEAN
      BY DEF Init
    <2> QED BY <2>1, <2>2, <2>3, <2>4
  <1>3. operation \in [Callers -> Operation]
    BY NothingRuns DEF Init
  <1>4. ControlInv
    BY <1>1, NobodyAssumption DEF Init, ControlInv, MutexIsHeld, Holding, SuspensionLasts, LockedIsHandled,
                                  SuspendedIsHandled
  <1>5. OperationInv
    BY NothingRuns DEF Init, OperationInv, SuspendedIsOld, VaultIsKept, RightIsHeld, ClearLasts, LockKeeps
  <1> QED BY <1>1, <1>2, <1>3, <1>4, <1>5 DEF IInv, TypeOK

LEMMA NextIInv == IInv /\ [Next]_vars => IInv'
  <1> SUFFICES ASSUME IInv, [Next]_vars PROVE IInv'
    OBVIOUS
  <1>0. TypeOK
    BY DEF IInv
  <1>1. Barrier!TypeOK'
    BY <1>0, StepRefines, BarrierType DEF TypeOK
  <1>2. ASSUME NEW c \in Callers, OperationStep(c) PROVE IInv'
    <2>1. operation' \in [Callers -> Operation] /\ UNCHANGED lifecycle
      BY <1>0, <1>2, OperationMoves
    <2>2. TypeOK'
      BY <1>0, <1>1, <2>1 DEF TypeOK, lifecycle
    <2> QED BY <1>2, <2>2, OperationIInv DEF IInv
  <1>3. ASSUME NEW k \in Controls, ControlStep(k) PROVE IInv'
    <2>1. TypeOK'
      BY <1>0, <1>1, <1>3, ControlType DEF TypeOK
    <2> QED BY <1>3, <2>1, ControlIInv DEF IInv
  <1>4. CASE BlockDispatch
    <2>1. forceStop' /\ forceStop' \in BOOLEAN
          /\ UNCHANGED <<vault, vaults, suspended, shut, mu, ctl, operation, lockHolds>>
      BY <1>4 DEF BlockDispatch
    <2>2. TypeOK'
      BY <1>0, <1>1, <2>1 DEF TypeOK
    <2>3. ControlInv'
      BY <2>1 DEF IInv, ControlInv, MutexIsHeld, SuspensionLasts, LockedIsHandled, SuspendedIsHandled
    <2>4. OperationInv'
      BY <2>1, OperationsStay DEF IInv
    <2> QED BY <2>2, <2>3, <2>4 DEF IInv
  <1>5. CASE UNCHANGED vars
    <2>1. UNCHANGED <<locked, vault, vaults, suspended, shut, mu, ctl, operation, lockHolds, forceStop>>
      BY <1>5 DEF vars
    <2>2. TypeOK'
      BY <1>0, <1>1, <2>1 DEF TypeOK
    <2>3. ControlInv'
      BY <2>1 DEF IInv, ControlInv, MutexIsHeld, SuspensionLasts, LockedIsHandled, SuspendedIsHandled
    <2>4. OperationInv'
      BY <2>1, OperationsStay DEF IInv
    <2> QED BY <2>2, <2>3, <2>4 DEF IInv
  <1> QED BY <1>2, <1>3, <1>4, <1>5 DEF Next

LEMMA Invariance == Spec => []IInv
  BY InitIInv, NextIInv, PTL DEF Spec

\* The daemon uses the barrier as the barrier may be used: whatever control
\* requests, operations and prepareForceStop do to it is a behaviour of module
\* DispatchBarrier, so that what is proved of it holds here.
THEOREM BarrierIsUsedRight == Spec => Barrier!Spec
  <1>1. Init => Barrier!Init
    BY DEF Init
  <1>2. [Next]_vars => [Barrier!Next]_(Barrier!vars)
    BY StepRefines DEF barrierVars, Barrier!vars
  <1> QED BY <1>1, <1>2, PTL DEF Spec, Barrier!Spec

\* While a lock or a Close that got past LockDispatch keeps the barrier shut, no
\* remote operation of the daemon is past its dispatch point: the vault may go.
THEOREM LockDrainsTheDaemon == Spec => []SealedIsQuiescent
  BY BarrierIsUsedRight, LockQuiesces, PTL

\* Every reachable state has the types of the code's fields; an operation's
\* vault is one that was made.
THEOREM TypeCorrect == Spec => []TypeOK
  <1>1. IInv => TypeOK
    BY DEF IInv
  <1> QED BY <1>1, Invariance, PTL

\* Once "lock" or Close has returned, and until an "unlock" succeeds, no SSH
\* command uses a connection, with any number of requests and operations at
\* once, but for one whose session somebody else had ended while it ran.
THEOREM LockKeepsSSHOut == Spec => []LockedHasNoSSH
  <1>1. IInv => LockedHasNoSSH
    BY DEF IInv, OperationInv, ClearLasts, PoolIsOver, LockKeeps, OnSession, LockedHasNoSSH, Remote
  <1> QED BY <1>1, Invariance, PTL

\* When no control request runs and the vault is open, the barrier is open and
\* the pool is not suspended, unless the daemon is being stopped.
THEOREM NobodyIsStranded == Spec => []UnlockedIsUsable
  <1>1. IInv => UnlockedIsUsable
    BY DEF IInv, ControlInv, LockedIsHandled, SuspendedIsHandled, UnlockedIsUsable
  <1> QED BY <1>1, Invariance, PTL

-----------------------------------------------------------------------------
(* The work sessions *)

Work == INSTANCE WorkSessions

\* None is none of the values that a variable has besides it.
LEMMA NoneIsApart == None \notin Users \cup Sessions \cup Owners \cup Targets \cup Work!Session \cup {Work!Background}
  BY NoneAssumption DEF Session, Background, Work!Session, Work!Background

\* The sessions of the map have been opened.
RecordsOpened == \A s \in sessions : Work!Opened(s)

\* Only a session of the map has its timer armed.
TimerIsArmed == \A s \in Sessions : timer[s] => s \in sessions

\* A callback that has started did so after the deadline it was armed for.
FiredIsPast == \A s \in Sessions, at \in Nat : <<s, at>> \in fired => at <= now

SessionInv == RecordsOpened /\ TimerIsArmed /\ FiredIsPast

\* Whoever sends a command has the dispatch flag of its record, alone.
SenderDispatches ==
    /\ \A u \in Users : pc[u] = "sending" => using[u] \in Sessions /\ dispatching[using[u]]
    /\ \A u, v \in Users : pc[u] = "sending" /\ pc[v] = "sending" /\ using[u] = using[v] => u = v

\* The report of a session that ended under a command in flight is outstanding.
EndedWaits == \A s \in Sessions : Work!Ended(s) /\ dispatching[s] => awaits[s] /\ notified[s] = 0

\* An ended session has been reported, or one goroutine has yet to do it.
ReportedOnce ==
    \A s \in Sessions :
        notified[s] + (IF notifier[s] = None THEN 0 ELSE 1) = (IF Work!Ended(s) THEN 1 ELSE 0)

ReportInv == EndedWaits /\ ReportedOnce

WorkIInv == Work!TypeOK /\ SessionInv /\ SenderDispatches /\ ReportInv

-----------------------------------------------------------------------------
LEMMA WorkInit == Work!Init => WorkIInv
  <1> SUFFICES ASSUME Work!Init PROVE WorkIInv
    OBVIOUS
  <1>1. Work!TypeOK
    BY DEF Work!Init, Work!TypeOK, Work!UserState
  <1>2. SessionInv /\ SenderDispatches
    BY DEF Work!Init, SessionInv, RecordsOpened, TimerIsArmed, FiredIsPast, SenderDispatches
  <1>3. ReportInv
    BY DEF Work!Init, ReportInv, EndedWaits, ReportedOnce, Work!Ended, Work!Opened
  <1> QED BY <1>1, <1>2, <1>3 DEF WorkIInv

\* An opened session is a record.
LEMMA WorkOpenedType == ASSUME Work!TypeOK, NEW s \in Sessions, Work!Opened(s) PROVE session[s] \in Work!Session
  BY DEF Work!TypeOK, Work!Opened

\* Whoever ends sessions of the map takes on their reports, and the wait for
\* the commands that they have in flight.
LEMMA InvalidateReports ==
  ASSUME WorkIInv, NEW S \in SUBSET sessions, NEW who \in Users \cup {Work!Background},
         Work!invalidateLocked(S, who), UNCHANGED <<session, dispatching, notified>>
  PROVE  /\ sessions' \in SUBSET Sessions /\ timer' \in [Sessions -> BOOLEAN]
         /\ notifier' \in [Sessions -> Users \cup {None, Work!Background}]
         /\ awaits' \in [Sessions -> BOOLEAN]
         /\ RecordsOpened' /\ TimerIsArmed' /\ ReportInv'
  <1>0. S \subseteq Sessions /\ who # None
    BY NoneIsApart DEF WorkIInv, Work!TypeOK
  <1>1. sessions' \in SUBSET Sessions /\ timer' \in [Sessions -> BOOLEAN]
    BY DEF WorkIInv, Work!TypeOK, Work!invalidateLocked
  <1>2. notifier' \in [Sessions -> Users \cup {None, Work!Background}]
    BY DEF WorkIInv, Work!TypeOK, Work!invalidateLocked
  <1>3. awaits' \in [Sessions -> BOOLEAN]
    BY DEF WorkIInv, Work!TypeOK, Work!invalidateLocked
  <1>4. RecordsOpened' /\ TimerIsArmed'
    BY DEF WorkIInv, Work!TypeOK, SessionInv, Work!invalidateLocked, RecordsOpened, TimerIsArmed, Work!Opened
  <1>5. ASSUME NEW s \in Sessions
        PROVE  /\ s \in S => ~Work!Ended(s) /\ Work!Ended(s)' /\ notifier'[s] = who /\ awaits'[s] = dispatching[s]
               /\ s \notin S => (Work!Ended(s)' <=> Work!Ended(s)) /\ notifier'[s] = notifier[s] /\ awaits'[s] = awaits[s]
    BY <1>0 DEF WorkIInv, Work!TypeOK, SessionInv, RecordsOpened, Work!Ended, Work!Opened, Work!invalidateLocked
  <1>6. ReportedOnce'
    <2> SUFFICES ASSUME NEW s \in Sessions
                 PROVE  notified'[s] + (IF notifier'[s] = None THEN 0 ELSE 1) = (IF Work!Ended(s)' THEN 1 ELSE 0)
      BY DEF ReportedOnce
    <2>1. notified'[s] = notified[s] /\ notified[s] \in Nat
      BY DEF WorkIInv, Work!TypeOK
    <2>2. notified[s] + (IF notifier[s] = None THEN 0 ELSE 1) = (IF Work!Ended(s) THEN 1 ELSE 0)
      BY DEF WorkIInv, ReportInv, ReportedOnce
    <2> QED BY <1>0, <1>5, <2>1, <2>2
  <1>7. EndedWaits'
    <2> SUFFICES ASSUME NEW s \in Sessions, Work!Ended(s)', dispatching'[s]
                 PROVE  awaits'[s] /\ notified'[s] = 0
      BY DEF EndedWaits
    <2>1. CASE s \in S
      <3>1. notified[s] \in Nat /\ notified[s] + (IF notifier[s] = None THEN 0 ELSE 1) = 0
        BY <1>5, <2>1 DEF WorkIInv, Work!TypeOK, ReportInv, ReportedOnce
      <3> QED BY <1>5, <2>1, <3>1
    <2>2. CASE s \notin S
      BY <1>5, <2>2 DEF WorkIInv, ReportInv, EndedWaits
    <2> QED BY <2>1, <2>2
  <1> QED BY <1>1, <1>2, <1>3, <1>4, <1>6, <1>7 DEF ReportInv

\* A report that is due is made once.
LEMMA ReportIsMade ==
  ASSUME WorkIInv, NEW s \in Sessions, notifier[s] # None, Work!Drained(s),
         notified' = [notified EXCEPT ![s] = @ + 1], notifier' = [notifier EXCEPT ![s] = None],
         UNCHANGED <<now, sessions, session, dispatching, timer, fired, pc, using, awaits>>
  PROVE  /\ notified' \in [Sessions -> Nat] /\ notifier' \in [Sessions -> Users \cup {None, Work!Background}]
         /\ SessionInv' /\ SenderDispatches' /\ ReportInv'
  <1>1. notified' \in [Sessions -> Nat] /\ notifier' \in [Sessions -> Users \cup {None, Work!Background}]
    BY DEF WorkIInv, Work!TypeOK
  <1>2. SessionInv' /\ SenderDispatches'
    BY DEF WorkIInv, SessionInv, RecordsOpened, TimerIsArmed, FiredIsPast, SenderDispatches, Work!Opened
  <1>3. \A t \in Sessions : (Work!Ended(t)' <=> Work!Ended(t)) /\ (t # s => notified'[t] = notified[t] /\ notifier'[t] = notifier[t])
    BY DEF WorkIInv, Work!TypeOK, Work!Ended, Work!Opened
  <1>4. notified'[s] = notified[s] + 1 /\ notifier'[s] = None /\ notified[s] \in Nat
    BY DEF WorkIInv, Work!TypeOK
  <1>5. Work!Ended(s) /\ notified[s] = 0
    BY <1>4 DEF WorkIInv, ReportInv, ReportedOnce
  <1>6. ReportedOnce'
    <2> SUFFICES ASSUME NEW t \in Sessions
                 PROVE  notified'[t] + (IF notifier'[t] = None THEN 0 ELSE 1) = (IF Work!Ended(t)' THEN 1 ELSE 0)
      BY DEF ReportedOnce
    <2>1. CASE t = s
      BY <1>3, <1>4, <1>5, <2>1
    <2>2. CASE t # s
      BY <1>3, <2>2 DEF WorkIInv, ReportInv, ReportedOnce
    <2> QED BY <2>1, <2>2
  <1>7. EndedWaits'
    <2> SUFFICES ASSUME NEW t \in Sessions, Work!Ended(t)', dispatching'[t]
                 PROVE  awaits'[t] /\ notified'[t] = 0
      BY DEF EndedWaits
    <2>1. t # s
      BY <1>5 DEF WorkIInv, ReportInv, EndedWaits, Work!Drained
    <2> QED BY <1>3, <2>1 DEF WorkIInv, ReportInv, EndedWaits
  <1> QED BY <1>1, <1>2, <1>6, <1>7 DEF ReportInv

\* Moving a goroutine between states other than "sending" concerns no command.
LEMMA SendersStay ==
  ASSUME WorkIInv, NEW u \in Users, NEW state \in Work!UserState, Work!GoTo(u, state), state # "sending",
         \A v \in Users : v # u => using'[v] = using[v],
         pc[u] # "sending", UNCHANGED dispatching
  PROVE  pc' \in [Users -> Work!UserState] /\ SenderDispatches'
  <1>1. pc' \in [Users -> Work!UserState] /\ pc'[u] = state /\ \A v \in Users : v # u => pc'[v] = pc[v]
    BY DEF WorkIInv, Work!TypeOK, Work!GoTo
  <1> QED BY <1>1 DEF WorkIInv, SenderDispatches

\* What says nothing of the goroutines stays true when only they move.
LEMMA RecordsStay ==
  ASSUME SessionInv, ReportInv,
         UNCHANGED <<now, sessions, session, dispatching, timer, fired, notifier, awaits, notified>>
  PROVE  SessionInv' /\ ReportInv'
  BY DEF SessionInv, ReportInv, RecordsOpened, TimerIsArmed, FiredIsPast, EndedWaits, ReportedOnce, Work!Ended, Work!Opened

-----------------------------------------------------------------------------
LEMMA WorkOpenKeeps ==
  ASSUME WorkIInv, NEW u \in Users, NEW s \in Sessions, NEW o \in Owners, NEW t \in Targets, Work!open(u, s, o, t)
  PROVE  WorkIInv'
  <1> USE DEF Work!open
  <1>1. [owner |-> o, target |-> t, expiresAt |-> now + IdleTimeout] \in Work!Session
    BY IdleAssumption DEF WorkIInv, Work!TypeOK, Work!Session
  <1>2. session'[s] \in Work!Session /\ session'[s] # None /\ \A r \in Sessions : r # s => session'[r] = session[r]
    BY <1>1, NoneIsApart DEF WorkIInv, Work!TypeOK
  <1>3. Work!TypeOK'
    <2>1. session' \in [Sessions -> Work!Session \cup {None}]
      BY <1>1 DEF WorkIInv, Work!TypeOK
    <2> QED BY <2>1 DEF WorkIInv, Work!TypeOK
  <1>4. s \notin sessions
    BY DEF WorkIInv, SessionInv, RecordsOpened
  <1>5. SessionInv'
    BY <1>2 DEF WorkIInv, Work!TypeOK, SessionInv, RecordsOpened, TimerIsArmed, FiredIsPast, Work!Opened
  <1>6. \A r \in Sessions : Work!Ended(r)' <=> Work!Ended(r)
    BY <1>2 DEF WorkIInv, Work!TypeOK, Work!Ended, Work!Opened
  <1>7. ReportInv'
    BY <1>6 DEF WorkIInv, ReportInv, EndedWaits, ReportedOnce
  <1>8. SenderDispatches'
    BY DEF WorkIInv, SenderDispatches
  <1> QED BY <1>3, <1>5, <1>7, <1>8 DEF WorkIInv

\* Close and Clear, and an Acquire that finds its session past its deadline.
LEMMA WorkEndKeeps ==
  ASSUME WorkIInv, NEW u \in Users, NEW S \in SUBSET sessions, NEW state \in {"draining", "expiring"},
         pc[u] # "sending", Work!invalidateLocked(S, u), Work!GoTo(u, state), expired' \in SUBSET Sessions,
         UNCHANGED <<now, session, gate, dispatching, fired, using, notified>>
  PROVE  WorkIInv'
  <1>1. /\ sessions' \in SUBSET Sessions /\ timer' \in [Sessions -> BOOLEAN]
        /\ notifier' \in [Sessions -> Users \cup {None, Work!Background}]
        /\ awaits' \in [Sessions -> BOOLEAN]
        /\ RecordsOpened' /\ TimerIsArmed' /\ ReportInv'
    BY InvalidateReports
  <1>2. pc' \in [Users -> Work!UserState] /\ SenderDispatches'
    BY SendersStay DEF Work!UserState
  <1>3. \A v \in Users : pc'[v] = "idle" => using'[v] = None
    BY DEF WorkIInv, Work!TypeOK, Work!GoTo
  <1>4. Work!TypeOK'
    BY <1>1, <1>2, <1>3 DEF WorkIInv, Work!TypeOK
  <1>5. SessionInv'
    BY <1>1 DEF WorkIInv, SessionInv, FiredIsPast
  <1> QED BY <1>1, <1>2, <1>4, <1>5 DEF WorkIInv

LEMMA EndingKeeps ==
  ASSUME WorkIInv, NEW u \in Users,
         \/ \E s \in Sessions, o \in Owners : Work!closeForOwner(u, o, s)
         \/ \E t \in Targets : Work!ClearTarget(u, t)
         \/ \E o \in Owners : Work!ClearOwner(u, o)
         \/ Work!Clear(u)
  PROVE  WorkIInv'
  <1>0. sessions \subseteq Sessions /\ expired \subseteq Sessions
    BY DEF WorkIInv, Work!TypeOK
  <1>1. ASSUME NEW S \in SUBSET sessions, Work!End(u, S), expired' \in SUBSET Sessions PROVE WorkIInv'
    BY <1>1, WorkEndKeeps DEF Work!End
  <1>2. ASSUME NEW s \in Sessions, NEW o \in Owners, Work!closeForOwner(u, o, s) PROVE WorkIInv'
    <2>1. CASE s \in sessions /\ Work!End(u, {s}) /\ UNCHANGED expired
      BY <1>0, <1>1, <2>1
    <2>2. CASE /\ expired' = expired \ {s}
               /\ UNCHANGED <<now, sessions, session, gate, dispatching, timer, fired,
                              pc, using, notifier, awaits, notified>>
      <3>1. Work!TypeOK'
        BY <1>0, <2>2 DEF WorkIInv, Work!TypeOK
      <3>2. SessionInv' /\ ReportInv'
        BY <2>2, RecordsStay DEF WorkIInv
      <3>3. SenderDispatches'
        BY <2>2 DEF WorkIInv, SenderDispatches
      <3> QED BY <3>1, <3>2, <3>3 DEF WorkIInv
    <2> QED BY <1>2, <2>1, <2>2 DEF Work!closeForOwner
  <1>3. ASSUME NEW t \in Targets, Work!ClearTarget(u, t) PROVE WorkIInv'
    BY <1>0, <1>1, <1>3 DEF Work!ClearTarget
  <1>4. ASSUME NEW o \in Owners, Work!ClearOwner(u, o) PROVE WorkIInv'
    BY <1>0, <1>1, <1>4 DEF Work!ClearOwner
  <1>5. CASE Work!Clear(u)
    BY <1>0, <1>1, <1>5 DEF Work!Clear
  <1> QED BY <1>2, <1>3, <1>4, <1>5

LEMMA NotifyKeeps ==
  ASSUME WorkIInv, NEW u \in Users, NEW s \in Sessions, Work!Notify(u, s) \/ Work!BackgroundNotify(s)
  PROVE  WorkIInv'
  <1>1. notifier[s] # None /\ Work!Drained(s)
    BY NoneIsApart DEF Work!Notify, Work!BackgroundNotify, Work!Duties
  <1>2. /\ notified' = [notified EXCEPT ![s] = @ + 1] /\ notifier' = [notifier EXCEPT ![s] = None]
        /\ UNCHANGED <<now, sessions, expired, session, gate, dispatching, timer, fired, pc, using, awaits>>
    BY DEF Work!Notify, Work!BackgroundNotify
  <1>3. /\ notified' \in [Sessions -> Nat] /\ notifier' \in [Sessions -> Users \cup {None, Work!Background}]
        /\ SessionInv' /\ SenderDispatches' /\ ReportInv'
    BY <1>1, <1>2, ReportIsMade
  <1>4. Work!TypeOK'
    BY <1>2, <1>3 DEF WorkIInv, Work!TypeOK
  <1> QED BY <1>3, <1>4 DEF WorkIInv

\* The steps that only move a goroutine, its record and the token of a gate.
LEMMA MoveKeeps ==
  ASSUME WorkIInv, NEW u \in Users, NEW state \in Work!UserState \ {"sending"}, Work!GoTo(u, state),
         pc[u] # "sending", using' \in [Users -> Sessions \cup {None}],
         \A v \in Users : v # u => using'[v] = using[v], state = "idle" => using'[u] = None,
         gate' \in [Sessions -> BOOLEAN],
         UNCHANGED <<now, sessions, expired, session, dispatching, timer, fired, notifier, awaits, notified>>
  PROVE  WorkIInv'
  <1>1. pc' \in [Users -> Work!UserState] /\ SenderDispatches'
    BY SendersStay
  <1>2. \A v \in Users : pc'[v] = "idle" => using'[v] = None
    BY DEF WorkIInv, Work!TypeOK, Work!GoTo
  <1>3. Work!TypeOK'
    BY <1>1, <1>2 DEF WorkIInv, Work!TypeOK
  <1>4. SessionInv' /\ ReportInv'
    BY RecordsStay DEF WorkIInv
  <1> QED BY <1>1, <1>3, <1>4 DEF WorkIInv

LEMMA WaitKeeps ==
  ASSUME WorkIInv, NEW u \in Users, Work!EndReturns(u) \/ Work!TakeToken(u) \/ Work!GiveUpGate(u) \/ Work!Release(u)
  PROVE  WorkIInv'
  <1>0. using \in [Users -> Sessions \cup {None}] /\ gate \in [Sessions -> BOOLEAN]
    BY DEF WorkIInv, Work!TypeOK
  <1>1. CASE Work!EndReturns(u)
    <2>1. PICK state \in {"idle", "leaving"} : Work!GoTo(u, state) /\ (state = "idle" => using[u] = None)
      BY <1>1 DEF Work!EndReturns
    <2> QED BY <1>0, <1>1, <2>1, MoveKeeps DEF Work!EndReturns, Work!UserState
  <1>2. CASE Work!TakeToken(u)
    BY <1>0, <1>2, MoveKeeps DEF Work!TakeToken, Work!UserState
  <1>3. CASE Work!GiveUpGate(u)
    BY <1>0, <1>3, MoveKeeps DEF Work!GiveUpGate, Work!UserState
  <1>4. CASE Work!Release(u)
    BY <1>0, <1>4, MoveKeeps DEF Work!Release, Work!UserState
  <1> QED BY <1>1, <1>2, <1>3, <1>4

LEMMA AcquireKeeps ==
  ASSUME WorkIInv, NEW u \in Users,
         Work!Confirm(u) \/ \E s \in Sessions, o \in Owners : Work!Acquire(u, o, s)
  PROVE  WorkIInv'
  <1>0. /\ using \in [Users -> Sessions \cup {None}] /\ gate \in [Sessions -> BOOLEAN]
        /\ sessions \subseteq Sessions /\ expired \subseteq Sessions
    BY DEF WorkIInv, Work!TypeOK
  <1>1. ASSUME NEW s \in sessions, Work!EndExpired(u, s), UNCHANGED using, pc[u] # "sending" PROVE WorkIInv'
    BY <1>0, <1>1, WorkEndKeeps DEF Work!EndExpired
  <1>2. CASE Work!Confirm(u)
    <2>1. pc[u] = "token"
      BY <1>2 DEF Work!Confirm
    <2>2. CASE Work!StillValid(u) /\ Work!EndExpired(u, using[u]) /\ UNCHANGED using
      BY <1>1, <2>1, <2>2 DEF Work!StillValid
    <2>3. CASE \E state \in {"leased", "leaving"} :
                  /\ Work!GoTo(u, state)
                  /\ UNCHANGED <<now, sessions, expired, session, gate, dispatching, timer,
                                 fired, using, notifier, awaits, notified>>
      BY <1>0, <2>1, <2>3, MoveKeeps DEF Work!UserState
    <2> QED BY <1>2, <2>2, <2>3 DEF Work!Confirm
  <1>3. ASSUME NEW s \in Sessions, NEW o \in Owners, Work!Acquire(u, o, s) PROVE WorkIInv'
    <2>1. pc[u] = "idle" /\ s \in sessions
      BY <1>3 DEF Work!Acquire
    <2>2. CASE Work!EndExpired(u, s) /\ UNCHANGED using
      BY <1>1, <2>1, <2>2
    <2>3. CASE /\ Work!GoTo(u, "gate")
               /\ using' = [using EXCEPT ![u] = s]
               /\ UNCHANGED <<now, sessions, expired, session, gate, dispatching, timer,
                              fired, notifier, awaits, notified>>
      BY <1>0, <2>1, <2>3, MoveKeeps DEF Work!UserState
    <2> QED BY <1>3, <2>2, <2>3 DEF Work!Acquire
  <1> QED BY <1>2, <1>3

LEMMA HandOffKeeps == ASSUME WorkIInv, NEW u \in Users, Work!HandOff(u) PROVE WorkIInv'
  <1>1. PICK s \in Sessions : notifier[s] = u /\ notifier' = [notifier EXCEPT ![s] = Work!Background]
    BY DEF Work!HandOff, Work!Duties
  <1>2. PICK state \in {"idle", "leaving"} : Work!GoTo(u, state) /\ (state = "idle" => using[u] = None)
    BY DEF Work!HandOff
  <1>3. pc' \in [Users -> Work!UserState] /\ SenderDispatches'
    BY <1>2, SendersStay DEF Work!HandOff, Work!UserState
  <1>4. \A v \in Users : pc'[v] = "idle" => using'[v] = None
    BY <1>2 DEF WorkIInv, Work!TypeOK, Work!GoTo, Work!HandOff
  <1>5. notifier' \in [Sessions -> Users \cup {None, Work!Background}]
        /\ \A t \in Sessions : notifier'[t] = None <=> notifier[t] = None
    BY <1>1, NoneIsApart DEF WorkIInv, Work!TypeOK
  <1>6. Work!TypeOK'
    BY <1>3, <1>4, <1>5 DEF WorkIInv, Work!TypeOK, Work!HandOff
  <1>7. SessionInv'
    BY DEF WorkIInv, SessionInv, RecordsOpened, TimerIsArmed, FiredIsPast, Work!Opened, Work!HandOff
  <1>8. ReportInv'
    BY <1>5 DEF WorkIInv, ReportInv, EndedWaits, ReportedOnce, Work!Ended, Work!Opened, Work!HandOff
  <1> QED BY <1>3, <1>6, <1>7, <1>8 DEF WorkIInv

LEMMA AcceptKeeps == ASSUME WorkIInv, NEW u \in Users, Work!Accept(u) PROVE WorkIInv'
  <1> DEFINE s == using[u]
  <1>1. s \in sessions /\ s \in Sessions /\ pc[u] # "sending"
    BY DEF Work!Accept, WorkIInv, Work!TypeOK
  <1>2. session[s] \in Work!Session
    BY <1>1, WorkOpenedType DEF WorkIInv, SessionInv, RecordsOpened
  <1>3. [session[s] EXCEPT !.expiresAt = now + IdleTimeout] \in Work!Session
    BY <1>2, IdleAssumption DEF WorkIInv, Work!TypeOK, Work!Session
  <1>4. session' = [session EXCEPT ![s] = [session[s] EXCEPT !.expiresAt = now + IdleTimeout]]
    BY DEF Work!Accept, Work!acceptLocked
  <1>5. session' \in [Sessions -> Work!Session \cup {None}] /\ session'[s] # None
        /\ \A r \in Sessions : r # s => session'[r] = session[r]
    BY <1>1, <1>3, <1>4, NoneIsApart DEF WorkIInv, Work!TypeOK
  <1>6. timer' = [timer EXCEPT ![s] = TRUE] /\ Work!GoTo(u, "leaving")
        /\ UNCHANGED <<now, sessions, expired, gate, dispatching, fired, using, notifier, awaits, notified>>
    BY DEF Work!Accept, Work!acceptLocked
  <1>7. pc' \in [Users -> Work!UserState] /\ SenderDispatches'
    BY <1>1, <1>6, SendersStay DEF Work!UserState
  <1>8. Work!TypeOK'
    <2>1. \A v \in Users : pc'[v] = "idle" => using'[v] = None
      BY <1>6 DEF WorkIInv, Work!TypeOK, Work!GoTo
    <2> QED BY <1>5, <1>6, <1>7, <2>1 DEF WorkIInv, Work!TypeOK
  <1>9. SessionInv'
    BY <1>1, <1>5, <1>6 DEF WorkIInv, Work!TypeOK, SessionInv, RecordsOpened, TimerIsArmed, FiredIsPast, Work!Opened
  <1>10. \A r \in Sessions : Work!Ended(r)' <=> Work!Ended(r)
    BY <1>1, <1>5, <1>6 DEF WorkIInv, SessionInv, RecordsOpened, Work!Ended, Work!Opened
  <1>11. ReportInv'
    BY <1>6, <1>10 DEF WorkIInv, ReportInv, EndedWaits, ReportedOnce
  <1> QED BY <1>7, <1>8, <1>9, <1>11 DEF WorkIInv

LEMMA DispatchKeeps ==
  ASSUME WorkIInv, NEW u \in Users, Work!BeginDispatch(u) \/ Work!FinishDispatch(u)
  PROVE  WorkIInv'
  <1> DEFINE s == using[u]
  <1>1. PICK state \in {"sending", "sent"}, sends \in BOOLEAN :
           /\ Work!GoTo(u, state) /\ (state = "sending" <=> sends)
           /\ dispatching' = [dispatching EXCEPT ![s] = sends]
           /\ sends => s \in sessions /\ ~dispatching[s]
           /\ ~sends => pc[u] = "sending"
    BY DEF Work!BeginDispatch, Work!FinishDispatch
  <1>2. UNCHANGED <<now, sessions, expired, session, gate, timer, fired, using, notifier, awaits, notified>>
    BY DEF Work!BeginDispatch, Work!FinishDispatch
  <1>3. s \in Sessions
    BY <1>1 DEF WorkIInv, Work!TypeOK, SenderDispatches
  <1>4. pc' \in [Users -> Work!UserState] /\ pc'[u] = state /\ \A v \in Users : v # u => pc'[v] = pc[v]
    BY <1>1 DEF WorkIInv, Work!TypeOK, Work!GoTo, Work!UserState
  <1>5. dispatching' \in [Sessions -> BOOLEAN] /\ dispatching'[s] = sends
        /\ \A r \in Sessions : r # s => dispatching'[r] = dispatching[r]
    BY <1>1, <1>3 DEF WorkIInv, Work!TypeOK
  <1>6. Work!TypeOK'
    <2>1. \A v \in Users : pc'[v] = "idle" => using'[v] = None
      BY <1>1, <1>2, <1>4 DEF WorkIInv, Work!TypeOK
    <2> QED BY <1>2, <1>4, <1>5, <2>1 DEF WorkIInv, Work!TypeOK
  <1>7. SessionInv'
    BY <1>2 DEF WorkIInv, SessionInv, RecordsOpened, TimerIsArmed, FiredIsPast, Work!Opened
  <1>8. SenderDispatches'
    <2>1. ASSUME NEW v \in Users, v # u, pc[v] = "sending" PROVE using[v] # s
      BY <1>1, <2>1 DEF WorkIInv, SenderDispatches
    <2> QED BY <1>1, <1>2, <1>3, <1>4, <1>5, <2>1 DEF WorkIInv, SenderDispatches
  <1>9. \A r \in Sessions : (Work!Ended(r)' <=> Work!Ended(r)) /\ (Work!Ended(r) /\ dispatching'[r] => dispatching[r])
    BY <1>1, <1>2, <1>3, <1>5 DEF Work!Ended, Work!Opened
  <1>10. ReportInv'
    BY <1>2, <1>9 DEF WorkIInv, ReportInv, EndedWaits, ReportedOnce
  <1> QED BY <1>6, <1>7, <1>8, <1>10 DEF WorkIInv

LEMMA TimeKeeps ==
  ASSUME WorkIInv, Work!Tick \/ \E s \in Sessions : Work!Fire(s) \/ Work!ForgetExpired(s)
  PROVE  WorkIInv'
  <1>1. CASE Work!Tick
    <2>1. Work!TypeOK'
      BY <1>1 DEF WorkIInv, Work!TypeOK, Work!Tick
    <2>2. SessionInv'
      BY <1>1 DEF WorkIInv, Work!TypeOK, SessionInv, RecordsOpened, TimerIsArmed, FiredIsPast, Work!Opened, Work!Tick
    <2>3. ReportInv' /\ SenderDispatches'
      BY <1>1 DEF WorkIInv, ReportInv, EndedWaits, ReportedOnce, SenderDispatches, Work!Ended, Work!Opened, Work!Tick
    <2> QED BY <2>1, <2>2, <2>3 DEF WorkIInv
  <1>2. ASSUME NEW s \in Sessions, Work!Fire(s) PROVE WorkIInv'
    <2>1. session[s].expiresAt \in Nat /\ session[s].expiresAt <= now
      <3>1. session[s] \in Work!Session
        BY <1>2, WorkOpenedType DEF Work!Fire, WorkIInv, SessionInv, TimerIsArmed, RecordsOpened
      <3> QED BY <1>2, <3>1 DEF Work!Fire, Work!Due, Work!Session, WorkIInv, Work!TypeOK
    <2>2. Work!TypeOK'
      BY <1>2, <2>1 DEF WorkIInv, Work!TypeOK, Work!Fire
    <2>3. SessionInv'
      <3>1. RecordsOpened' /\ TimerIsArmed'
        BY <1>2 DEF WorkIInv, Work!TypeOK, SessionInv, RecordsOpened, TimerIsArmed, Work!Opened, Work!Fire
      <3>2. FiredIsPast'
        BY <1>2, <2>1 DEF WorkIInv, SessionInv, FiredIsPast, Work!Fire
      <3> QED BY <3>1, <3>2 DEF SessionInv
    <2>4. ReportInv' /\ SenderDispatches'
      BY <1>2 DEF WorkIInv, ReportInv, EndedWaits, ReportedOnce, SenderDispatches, Work!Ended, Work!Opened, Work!Fire
    <2> QED BY <2>2, <2>3, <2>4 DEF WorkIInv
  <1>3. ASSUME NEW s \in Sessions, Work!ForgetExpired(s) PROVE WorkIInv'
    <2>1. Work!TypeOK'
      BY <1>3 DEF WorkIInv, Work!TypeOK, Work!ForgetExpired
    <2>2. SessionInv' /\ ReportInv'
      BY <1>3, RecordsStay DEF WorkIInv, Work!ForgetExpired
    <2>3. SenderDispatches'
      BY <1>3 DEF WorkIInv, SenderDispatches, Work!ForgetExpired
    <2> QED BY <2>1, <2>2, <2>3 DEF WorkIInv
  <1> QED BY <1>1, <1>2, <1>3

LEMMA WorkExpireKeeps ==
  ASSUME WorkIInv, NEW s \in Sessions, NEW at \in Nat, Work!expire(s, at)
  PROVE  WorkIInv'
  <1>0. UNCHANGED <<now, session, gate, dispatching, pc, using, notified>> /\ fired' \in SUBSET fired
    BY DEF Work!expire
  <1>1. fired' \in SUBSET (Sessions \X Nat) /\ FiredIsPast' /\ SenderDispatches'
    BY <1>0 DEF WorkIInv, Work!TypeOK, SessionInv, FiredIsPast, SenderDispatches
  <1>2. CASE s \in sessions /\ Work!invalidateLocked({s}, Work!Background) /\ expired' = expired \cup {s}
    <2>1. /\ sessions' \in SUBSET Sessions /\ timer' \in [Sessions -> BOOLEAN]
          /\ notifier' \in [Sessions -> Users \cup {None, Work!Background}]
          /\ awaits' \in [Sessions -> BOOLEAN]
          /\ RecordsOpened' /\ TimerIsArmed' /\ ReportInv'
      BY <1>0, <1>2, InvalidateReports
    <2>2. Work!TypeOK'
      BY <1>0, <1>1, <1>2, <2>1 DEF WorkIInv, Work!TypeOK
    <2> QED BY <1>1, <2>1, <2>2 DEF WorkIInv, SessionInv
  <1>3. CASE UNCHANGED <<sessions, timer, notifier, awaits, expired>>
    <2>1. Work!TypeOK'
      BY <1>0, <1>1, <1>3 DEF WorkIInv, Work!TypeOK
    <2>2. RecordsOpened' /\ TimerIsArmed' /\ ReportInv'
      BY <1>0, <1>3 DEF WorkIInv, SessionInv, RecordsOpened, TimerIsArmed, ReportInv, EndedWaits, ReportedOnce,
                        Work!Ended, Work!Opened
    <2> QED BY <1>1, <2>1, <2>2 DEF WorkIInv, SessionInv
  <1> QED BY <1>2, <1>3 DEF Work!expire, Work!Current

LEMMA WorkNext == WorkIInv /\ [Work!Next]_(Work!vars) => WorkIInv'
  <1> SUFFICES ASSUME WorkIInv, [Work!Next]_(Work!vars) PROVE WorkIInv'
    OBVIOUS
  <1>1. ASSUME NEW u \in Users, Work!UserStep(u) PROVE WorkIInv'
    BY <1>1, WorkOpenKeeps, EndingKeeps, NotifyKeeps, WaitKeeps, AcquireKeeps, HandOffKeeps, AcceptKeeps, DispatchKeeps
    DEF Work!UserStep
  <1>2. ASSUME NEW s \in Sessions, Work!TimerStep(s) PROVE WorkIInv'
    <2>1. ASSUME NEW at \in 0..(MaxTime + IdleTimeout), Work!expire(s, at) PROVE WorkIInv'
      BY <2>1, WorkExpireKeeps, MaxTimeAssumption, IdleAssumption
    <2>2. CASE Work!BackgroundNotify(s)
      <3>1. notifier[s] # None /\ Work!Drained(s)
        BY <2>2, NoneIsApart DEF Work!BackgroundNotify
      <3>2. /\ notified' \in [Sessions -> Nat] /\ notifier' \in [Sessions -> Users \cup {None, Work!Background}]
            /\ SessionInv' /\ SenderDispatches' /\ ReportInv'
        BY <2>2, <3>1, ReportIsMade DEF Work!BackgroundNotify
      <3>3. Work!TypeOK'
        BY <2>2, <3>2 DEF WorkIInv, Work!TypeOK, Work!BackgroundNotify
      <3> QED BY <3>2, <3>3 DEF WorkIInv
    <2> QED BY <1>2, <2>1, <2>2, TimeKeeps DEF Work!TimerStep
  <1>3. CASE Work!Tick
    BY <1>3, TimeKeeps
  <1>4. CASE UNCHANGED Work!vars
    <2>1. Work!TypeOK'
      BY <1>4 DEF WorkIInv, Work!TypeOK, Work!vars
    <2>2. SessionInv' /\ ReportInv'
      BY <1>4, RecordsStay DEF WorkIInv, Work!vars
    <2>3. SenderDispatches'
      BY <1>4 DEF WorkIInv, SenderDispatches, Work!vars
    <2> QED BY <2>1, <2>2, <2>3 DEF WorkIInv
  <1> QED BY <1>1, <1>2, <1>3, <1>4 DEF Work!Next

LEMMA WorkInvariance == Work!Spec => []WorkIInv
  BY WorkInit, WorkNext, PTL DEF Work!Spec

\* The fields of the store, its records and its goroutines keep their types.
THEOREM WorkTypeCorrect == Work!Spec => []Work!TypeOK
  <1>1. WorkIInv => Work!TypeOK
    BY DEF WorkIInv
  <1> QED BY <1>1, WorkInvariance, PTL

\* The end of a work session is reported once, by the one goroutine that took it
\* out of the map, and after its last command, however endings, timers and
\* dispatches interleave.
THEOREM EndsAreReported == Work!Spec => []EndIsReportedRight
  <1>1. WorkIInv => EndIsReportedRight
    <2> SUFFICES ASSUME WorkIInv PROVE EndIsReportedRight
      OBVIOUS
    <2>1. ASSUME NEW u \in Users, pc[u] = "sending" PROVE notified[using[u]] = 0
      <3>1. using[u] \in Sessions /\ dispatching[using[u]]
        BY <2>1 DEF WorkIInv, SenderDispatches
      <3>2. CASE Work!Ended(using[u])
        BY <3>1, <3>2 DEF WorkIInv, ReportInv, EndedWaits
      <3>3. CASE ~Work!Ended(using[u])
        BY <3>1, <3>3 DEF WorkIInv, Work!TypeOK, ReportInv, ReportedOnce
      <3> QED BY <3>2, <3>3
    <2> QED BY <2>1 DEF WorkIInv, ReportInv, ReportedOnce, EndIsReportedRight, Ended, Work!Ended, Opened, Work!Opened
  <1> QED BY <1>1, WorkInvariance, PTL

\* No session is given up as expired before its deadline: an expire callback that
\* was on its way when Accept moved the deadline finds that it is not current.
THEOREM ExpiryIsNotEarly == Work!Spec => NoEarlyExpiry
  <1> DEFINE Expiry == \A s \in Sessions : s \in sessions /\ s \in expired' \ expired => Due(s)
  <1>1. WorkIInv /\ [Work!Next]_(Work!vars) => [Expiry]_expired
    <2> SUFFICES ASSUME WorkIInv, Work!Next, NEW s \in Sessions, s \in sessions, s \in expired' \ expired PROVE Work!Due(s)
      BY DEF Work!vars, Due, Work!Due
    <2>1. ASSUME NEW u \in Users, Work!UserStep(u) PROVE Work!Due(s)
      <3>1. \/ \E r \in Sessions : Work!Due(r) /\ expired' = expired \cup {r}
            \/ expired' \subseteq expired
        BY <2>1 DEF Work!UserStep, Work!open, Work!closeForOwner, Work!ClearTarget, Work!ClearOwner, Work!Clear,
               Work!Notify, Work!EndReturns, Work!HandOff,
                    Work!TakeToken, Work!GiveUpGate, Work!Confirm, Work!StillValid, Work!Acquire, Work!EndExpired, Work!Accept, Work!BeginDispatch,
                    Work!FinishDispatch, Work!Release, WorkIInv, Work!TypeOK
      <3> QED BY <3>1
    <2>2. ASSUME NEW r \in Sessions, Work!TimerStep(r) PROVE Work!Due(s)
      <3>1. PICK at \in 0..(MaxTime + IdleTimeout) : Work!expire(r, at)
        BY <2>2 DEF Work!TimerStep, Work!Fire, Work!BackgroundNotify, Work!ForgetExpired
      <3>2. Work!Current(r, at) /\ expired' = expired \cup {r} /\ <<r, at>> \in fired
        BY <3>1 DEF Work!expire
      <3>3. s = r /\ session[s].expiresAt = at /\ at \in Nat
        BY <3>2, MaxTimeAssumption, IdleAssumption DEF Work!Current
      <3> QED BY <3>2, <3>3 DEF WorkIInv, Work!TypeOK, SessionInv, FiredIsPast, Work!Due
    <2>3. ~Work!Tick
      BY DEF Work!Tick
    <2> QED BY <2>1, <2>2, <2>3 DEF Work!Next
  <1> QED BY <1>1, WorkInvariance, PTL DEF Work!Spec, NoEarlyExpiry

=============================================================================
