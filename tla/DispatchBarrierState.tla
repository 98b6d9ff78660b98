------------------------ MODULE DispatchBarrierState ------------------------
(***************************************************************************)
(* The state of the dispatch barrier, and what it promises about it in     *)
(* every state.  DispatchBarrier says how it changes; RuntimeLock, which   *)
(* uses the barrier, has this state as a part of its own.                  *)
(***************************************************************************)
EXTENDS Integers, FiniteSets

CONSTANTS
    Callers,    \* goroutines that dispatch remote work
    Controls,   \* goroutines that call Lock: control requests and Close
    Chans,      \* addresses of channels
    NoChan      \* the nil channel

ASSUME NoChanAssumption == NoChan \notin Chans
ASSUME DispatchersFinite == IsFiniteSet(Callers)

VARIABLES
    locked,     \* DispatchBarrier.locked
    inFlight,   \* DispatchBarrier.inFlight
    drained,    \* DispatchBarrier.drained
    closed,     \* the channels that have been closed
    lease,      \* the state of each caller's DispatchLease
    closing,    \* the channel a caller took out of the barrier to close
    locker,     \* where each locker is in Lock
    captured,   \* the channel it waits on
    unbroken    \* history: no Unlock since this locker's Lock closed the barrier

-----------------------------------------------------------------------------
Started == {c \in Callers : lease[c] = "started"}

\* "Lock refuses new dispatches and waits for the work that has crossed the
\* dispatch point": when Lock has returned nil, and until somebody unlocks,
\* nothing is in flight, although Lock looked at one channel, once.
SealedIsQuiescent ==
    \A k \in Controls : locker[k] = "sealed" /\ unbroken[k] => Started = {}

\* No lost wake-up: a locker waits on a channel that is closed, that a caller
\* is about to close, or that a dispatch in flight will close when it is the
\* last one.
WaiterWillBeWoken ==
    \A k \in Controls : locker[k] = "waiting" =>
        \/ captured[k] \in closed
        \/ \E c \in Callers : lease[c] = "closing" /\ closing[c] = captured[k]
        \/ captured[k] = drained /\ Started # {}

\* No channel is closed twice (which would panic in Go): a caller that is
\* about to close one finds it open, and no other caller has taken the same.
CloseOnce ==
    \A c \in Callers : lease[c] = "closing" =>
        /\ closing[c] \in Chans \ closed
        /\ \A d \in Callers : lease[d] = "closing" /\ closing[d] = closing[c] => c = d

=============================================================================
