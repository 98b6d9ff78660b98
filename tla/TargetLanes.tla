---------------------------- MODULE TargetLanes ----------------------------
(***************************************************************************)
(* The per-target read/write lanes of internal/runner/target_lane.go.      *)
(*                                                                         *)
(* Every operation on a target first takes its lane: reads share it, a     *)
(* reviewed write has it alone, and requests are served in arrival order.  *)
(* A lane is a heap object found through the map TargetLanes.lanes.  It is *)
(* created on first use, deleted from the map when it is released idle,    *)
(* and every request keeps a pointer to the object it queued on; the model *)
(* keeps the identity of lane objects so that a lane deleted too early,    *)
(* and created again for the same target, would show.                      *)
(*                                                                         *)
(* The code's critical sections (TargetLanes.mu) are the atomic steps.  A  *)
(* caller is a goroutine inside acquire, or between acquire and release.   *)
(***************************************************************************)
EXTENDS Integers, Sequences, FiniteSets

CONSTANTS
    Targets,    \* keys of TargetLanes.lanes
    Callers,    \* goroutines
    Lanes,      \* addresses of targetLane objects
    NoTarget,   \* the target of a goroutine outside acquire
    NoLane      \* the nil *targetLane

ASSUME NoTargetAssumption == NoTarget \notin Targets
ASSUME NoLaneAssumption == NoLane \notin Lanes
ASSUME CallersFinite == IsFiniteSet(Callers)

VARIABLES
    lanes,      \* TargetLanes.lanes: target -> lane object
    lane,       \* the fields of every lane object
    state,      \* where each caller is in acquire
    request,    \* its parameters, the lane object it uses and the kind
    cancelled   \* whether its context is done

vars == <<lanes, lane, state, request, cancelled>>

-----------------------------------------------------------------------------
(* Types *)

\* targetLane: the queue holds callers, each with one targetLaneRequest.
targetLane == [readers : Nat, writer : BOOLEAN, queue : Seq(Callers)]

\* targetLaneRequest with the parameters of its acquire.
targetLaneRequest == [target : Targets \cup {NoTarget},
                      write  : BOOLEAN,
                      lane   : Lanes \cup {NoLane}]

\* "queued": in lane.queue; "granted": request.granted, ready closed but not
\* yet received; "holding": acquire has returned the release function.
CallerState == {"idle", "queued", "granted", "holding"}

TypeOK ==
    /\ lanes \in [Targets -> Lanes \cup {NoLane}]
    /\ lane \in [Lanes -> targetLane]
    /\ state \in [Callers -> CallerState]
    /\ request \in [Callers -> targetLaneRequest]
    /\ cancelled \in [Callers -> BOOLEAN]

NoRequest == [target |-> NoTarget, write |-> FALSE, lane |-> NoLane]

\* &targetLane{}
EmptyLane == [readers |-> 0, writer |-> FALSE, queue |-> <<>>]

Active(c) == state[c] \in {"granted", "holding"}
Waiting(c) == state[c] = "queued"

Init ==
    /\ lanes = [t \in Targets |-> NoLane]
    /\ lane = [l \in Lanes |-> EmptyLane]
    /\ state = [c \in Callers |-> "idle"]
    /\ request = [c \in Callers |-> NoRequest]
    /\ cancelled = [c \in Callers |-> FALSE]

-----------------------------------------------------------------------------
(* grantLocked *)

\* Positions of the run of reads at the front of a queue.
ReadPrefix(q) == {i \in 1..Len(q) : \A j \in 1..i : ~request[q[j]].write}

\* Mutant: a queue of one counts as empty.
CanGrant_OffByOne(L) == ~L.writer /\ L.readers = 0 /\ Len(L.queue) > 1

\* grantLocked returns at once unless the lane is free and has a queue.
CanGrant(L) == ~L.writer /\ L.readers = 0 /\ L.queue # <<>>

\* The callers whose ready channel grantLocked closes.
Admitted(L) ==
    IF ~CanGrant(L) THEN {}
    ELSE IF request[L.queue[1]].write THEN {L.queue[1]}
    ELSE {L.queue[i] : i \in ReadPrefix(L.queue)}

\* The lane after grantLocked: one write, or the whole leading run of reads.
grantLocked(L) ==
    IF ~CanGrant(L) THEN L
    ELSE IF request[L.queue[1]].write
         THEN [L EXCEPT !.queue = Tail(@), !.writer = TRUE]
    ELSE LET n == Cardinality(ReadPrefix(L.queue))
         IN  [L EXCEPT !.queue = SubSeq(@, n + 1, Len(@)), !.readers = @ + n]

\* The states of the callers after c moved to s and others were admitted.
Moved(c, s, admitted) ==
    [d \in Callers |-> IF d = c THEN s
                       ELSE IF d \in admitted THEN "granted" ELSE state[d]]

-----------------------------------------------------------------------------
(* acquire *)

\* An address the allocator may return: nothing points to the object.
Fresh(l) == /\ \A t \in Targets : lanes[t] # l
            /\ \A c \in Callers : request[c].lane # l

\* Mutant: an arriving read ignores the queue.
Immediate_Barging(L, w) == ~L.writer /\ (~w \/ L.readers = 0)

\* The fast path of acquire: nobody queues and the lane admits the kind.
Immediate(L, w) == L.queue = <<>> /\ ~L.writer /\ (~w \/ L.readers = 0)

\* The body of acquire's first critical section, on lane object l with
\* contents L.
Enter(c, t, w, l, L) ==
    /\ lanes' = [lanes EXCEPT ![t] = l]
    /\ request' = [request EXCEPT ![c] = [target |-> t, write |-> w, lane |-> l]]
    /\ cancelled' = [cancelled EXCEPT ![c] = FALSE]
    /\ \/ /\ Immediate(L, w)
          /\ lane' = [lane EXCEPT ![l] =
                IF w THEN [L EXCEPT !.writer = TRUE]
                     ELSE [L EXCEPT !.readers = @ + 1]]
          /\ state' = [state EXCEPT ![c] = "holding"]
       \/ /\ ~Immediate(L, w)
          /\ lane' = [lane EXCEPT ![l] = [L EXCEPT !.queue = Append(@, c)]]
          /\ state' = [state EXCEPT ![c] = "queued"]

\* AcquireRead / AcquireWrite, up to the first unlock.  A caller whose context
\* is already done returns before it touches the lanes.
acquire(c, t, w) ==
    /\ state[c] = "idle"
    /\ \/ lanes[t] # NoLane /\ Enter(c, t, w, lanes[t], lane[lanes[t]])
       \/ /\ lanes[t] = NoLane
          /\ \E l \in Lanes : Fresh(l) /\ Enter(c, t, w, l, EmptyLane)

\* The caller's context is cancelled or times out while it waits.
ContextDone(c) ==
    /\ state[c] \in {"queued", "granted"}
    /\ ~cancelled[c]
    /\ cancelled' = [cancelled EXCEPT ![c] = TRUE]
    /\ UNCHANGED <<lanes, lane, state, request>>

\* case <-request.ready with a live context: acquire returns the release.
ReceiveReady(c) ==
    /\ state[c] = "granted"
    /\ ~cancelled[c]
    /\ state' = [state EXCEPT ![c] = "holding"]
    /\ UNCHANGED <<lanes, lane, request, cancelled>>

\* The caller leaves acquire or its critical region.
Leave(c, admitted) ==
    /\ state' = Moved(c, "idle", admitted)
    /\ request' = [request EXCEPT ![c] = NoRequest]
    /\ cancelled' = [cancelled EXCEPT ![c] = FALSE]

\* The lane after its holder c gave it back and before grantLocked.
GivenBack(c) ==
    LET L == lane[request[c].lane]
    IN  IF request[c].write THEN [L EXCEPT !.writer = FALSE]
        ELSE [L EXCEPT !.readers = IF @ > 0 THEN @ - 1 ELSE @]

\* Mutant: the first of several readers to leave deletes the lane.
AfterDelete_IgnoresReaders(c, L) ==
    IF ~L.writer /\ L.queue = <<>>
    THEN [lanes EXCEPT ![request[c].target] = NoLane]
    ELSE lanes

\* The map after a release: an idle lane is deleted if it is still the entry.
AfterDelete(c, L) ==
    IF /\ L.readers = 0 /\ ~L.writer /\ L.queue = <<>>
       /\ lanes[request[c].target] = request[c].lane
    THEN [lanes EXCEPT ![request[c].target] = NoLane]
    ELSE lanes

\* releaseGranted, in one critical section: give back, grant, delete if idle.
releaseGranted(c) ==
    LET B == GivenBack(c)
        L == grantLocked(B)
    IN  /\ lane' = [lane EXCEPT ![request[c].lane] = L]
        /\ lanes' = AfterDelete(c, L)
        /\ Leave(c, Admitted(B))

\* Either case of the select when the context is done and the lane was
\* granted: both give the lane back.
AbandonGranted(c) ==
    /\ state[c] = "granted"
    /\ cancelled[c]
    /\ releaseGranted(c)

\* removeRequestLocked: the entries behind the first match move up by one.
removeRequestLocked(L, c) ==
    LET q == L.queue
        index == CHOOSE i \in 1..Len(q) : q[i] = c
    IN  [L EXCEPT !.queue = [i \in 1..(Len(q) - 1) |->
                                IF i < index THEN q[i] ELSE q[i + 1]]]

\* case <-ctx.Done() while still queued: remove, then grantLocked.  This path
\* does not delete an idle lane.
AbandonQueued(c) ==
    LET l == request[c].lane
        R == removeRequestLocked(lane[l], c)
    IN  /\ state[c] = "queued"
        /\ cancelled[c]
        /\ lane' = [lane EXCEPT ![l] = grantLocked(R)]
        /\ Leave(c, Admitted(R))
        /\ UNCHANGED lanes

\* The release function returned by acquire.  sync.Once makes a second call
\* do nothing, so only the first one is a step.
release(c) ==
    /\ state[c] = "holding"
    /\ releaseGranted(c)

-----------------------------------------------------------------------------
CallerStep(c) ==
    \/ \E t \in Targets, w \in BOOLEAN : acquire(c, t, w)
    \/ ContextDone(c)
    \/ ReceiveReady(c)
    \/ AbandonGranted(c)
    \/ AbandonQueued(c)
    \/ release(c)

Next == \E c \in Callers : CallerStep(c)

Spec == Init /\ [][Next]_vars

\* A goroutine whose select has a ready case runs, and every operation gives
\* its lane back: it runs under a bounded context and releases by defer.
Progress(c) == ReceiveReady(c) \/ AbandonGranted(c) \/ AbandonQueued(c) \/ release(c)

Fairness == \A c \in Callers : WF_vars(Progress(c))

FairSpec == Spec /\ Fairness

-----------------------------------------------------------------------------
(* Properties *)

\* A write has its target alone: while one caller owns a target for a write,
\* from the moment grantLocked or the fast path admits it until releaseGranted,
\* no other caller owns that target, whichever lane object each one used.
WriteExclusive ==
    \A c, d \in Callers :
        /\ c # d /\ Active(c) /\ Active(d)
        /\ request[c].target = request[d].target
        => ~request[c].write

\* No lost wake-up: requests queue only while some caller, which will run
\* releaseGranted, owns the lane.  If it failed, everybody on the target would
\* wait for a grantLocked that nobody is left to call.
QueueHasOwner ==
    \A c \in Callers : Waiting(c) =>
        \E d \in Callers : Active(d) /\ request[d].lane = request[c].lane

\* The map keeps no lane without an owner: the cancel path, which does not
\* delete, never leaves an entry behind.
NoIdleLane ==
    \A t \in Targets : lanes[t] # NoLane =>
        \E d \in Callers : Active(d) /\ request[d].target = t

\* Every request on a lane is eventually served or given up, whatever the mix
\* of reads, writes and cancellations.
EventuallyServed == \A c \in Callers : Waiting(c) ~> ~Waiting(c)

=============================================================================
