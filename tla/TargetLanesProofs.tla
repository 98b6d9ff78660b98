------------------------- MODULE TargetLanesProofs -------------------------
(***************************************************************************)
(* Proofs about TargetLanes for any numbers of targets and callers.        *)
(*                                                                         *)
(* The inductive invariant says that a caller inside acquire or holding a  *)
(* lane uses the lane object the map has for its target (RequestLane,      *)
(* OneTargetPerLane), that a queue holds exactly the waiting callers, once *)
(* each (QueueIsWaiters), that readers and writer count the owners         *)
(* (LaneCounts), and that neither a queue nor a map entry outlives its     *)
(* owners (OwnedQueue, OwnedLane).                                         *)
(***************************************************************************)
EXTENDS TargetLanes, FiniteSetTheorems, FunctionTheorems, TLAPS

ReadersOf(l) == {c \in Callers : Active(c) /\ request[c].lane = l /\ ~request[c].write}
WritersOf(l) == {c \in Callers : Active(c) /\ request[c].lane = l /\ request[c].write}

RequestLane ==
    \A c \in Callers :
        IF state[c] = "idle" THEN request[c] = NoRequest
        ELSE /\ request[c].target \in Targets
             /\ request[c].lane \in Lanes
             /\ lanes[request[c].target] = request[c].lane

OneTargetPerLane ==
    \A t, u \in Targets : lanes[t] = lanes[u] /\ lanes[t] # NoLane => t = u

Distinct(q) == \A i, j \in DOMAIN q : q[i] = q[j] => i = j

QueueIsWaiters ==
    \A l \in Lanes :
        /\ \A i \in DOMAIN lane[l].queue :
                Waiting(lane[l].queue[i]) /\ request[lane[l].queue[i]].lane = l
        /\ \A c \in Callers : Waiting(c) /\ request[c].lane = l =>
                \E i \in DOMAIN lane[l].queue : lane[l].queue[i] = c
        /\ Distinct(lane[l].queue)

LaneCounts ==
    \A l \in Lanes :
        /\ lane[l].readers = Cardinality(ReadersOf(l))
        /\ lane[l].writer <=> WritersOf(l) # {}
        /\ \A c, d \in WritersOf(l) : c = d
        /\ lane[l].writer => lane[l].readers = 0

Owned(L) == L.writer \/ L.readers > 0

OwnedQueue == \A l \in Lanes : lane[l].queue # <<>> => Owned(lane[l])

OwnedLane == \A t \in Targets : lanes[t] # NoLane => Owned(lane[lanes[t]])

IInv ==
    /\ TypeOK
    /\ RequestLane
    /\ OneTargetPerLane
    /\ QueueIsWaiters
    /\ LaneCounts
    /\ OwnedQueue
    /\ OwnedLane

-----------------------------------------------------------------------------
(* grantLocked *)

\* The leading run of reads is an interval that starts at 1, and its
\* cardinality is the length of the run.
LEMMA ReadPrefixInterval ==
  ASSUME NEW q \in Seq(Callers)
  PROVE  LET n == Cardinality(ReadPrefix(q))
         IN  n \in 0..Len(q) /\ ReadPrefix(q) = 1..n
  <1> DEFINE P == ReadPrefix(q)
             n == Cardinality(P)
  <1>0. Len(q) \in Nat
    OBVIOUS
  <1>1. Len(q) \in Nat /\ IsFiniteSet(1..Len(q)) /\ Cardinality(1..Len(q)) = Len(q)
    BY <1>0, FS_Interval, 1 \in Int, Len(q) \in Int
  <1>2. P \in SUBSET (1..Len(q))
    BY DEF ReadPrefix
  <1>3. IsFiniteSet(P) /\ n \in Nat /\ n <= Len(q)
    BY <1>1, <1>2, FS_Subset, FS_CardinalityType
  <1>4. ASSUME NEW i \in P PROVE i \in 1..n
    <2>1. i \in Nat \ {0} /\ 1..i \in SUBSET P
      BY <1>2, <1>1 DEF ReadPrefix
    <2>2. Cardinality(1..i) = i
      BY <2>1, FS_Interval
    <2>3. i <= n
      BY <1>3, <2>1, <2>2, FS_Subset
    <2> QED BY <2>1, <2>3, <1>3
  <1>5. P = 1..n
    <2>1. IsFiniteSet(1..n) /\ Cardinality(1..n) = n
      BY <1>3, FS_Interval
    <2> QED BY <1>4, <2>1, FS_Subset
  <1> QED BY <1>3, <1>5

\* A prefix of a queue without repetitions has as many members as positions.
LEMMA PrefixCardinality ==
  ASSUME NEW q \in Seq(Callers), Distinct(q), NEW n \in 0..Len(q)
  PROVE  Cardinality({q[i] : i \in 1..n}) = n
  <1> DEFINE A == {q[i] : i \in 1..n}
             f == [i \in 1..n |-> q[i]]
  <1>1. f \in Bijection(1..n, A)
    BY DEF Distinct, Bijection, Injection, Surjection, IsInjective
  <1> QED BY <1>1, FS_CountingElements DEF ExistsBijection

\* What grantLocked does to a lane: nothing, admit one write to a free lane,
\* or admit some reads, all counted, to a free lane.
GrantOutcome(B, L, A) ==
    \/ A = {} /\ L = B /\ ~CanGrant(B)
    \/ \E w \in Callers :
        /\ ~B.writer /\ B.readers = 0 /\ A = {w} /\ request[w].write
        /\ L.writer /\ L.readers = 0
    \/ /\ ~B.writer /\ B.readers = 0 /\ \A c \in A : ~request[c].write
       /\ ~L.writer /\ L.readers = Cardinality(A) /\ L.readers > 0

\* The queue after grantLocked is the queue before without the admitted.
QueueWithout(q, r, A) ==
    /\ \A c \in A : \E i \in DOMAIN q : q[i] = c
    /\ \A i \in DOMAIN r : r[i] \notin A /\ \E j \in DOMAIN q : q[j] = r[i]
    /\ \A j \in DOMAIN q : q[j] \notin A => \E i \in DOMAIN r : r[i] = q[j]
    /\ Distinct(r)

\* What grantLocked does to a lane nobody writes: it admits a prefix of the
\* queue, one write or a run of reads, and leaves the rest in order.
LEMMA GrantFacts ==
  ASSUME TypeOK, NEW B \in targetLane, Distinct(B.queue)
  PROVE  /\ grantLocked(B) \in targetLane
         /\ Admitted(B) \in SUBSET Callers
         /\ GrantOutcome(B, grantLocked(B), Admitted(B))
         /\ QueueWithout(B.queue, grantLocked(B).queue, Admitted(B))
  <1> DEFINE q == B.queue
             L == grantLocked(B)
             A == Admitted(B)
  <1>0. Distinct(q)
    OBVIOUS
  <1>1. q \in Seq(Callers) /\ Len(q) \in Nat /\ DOMAIN q = 1..Len(q)
    BY DEF targetLane
  <1>2. CASE ~CanGrant(B)
    <2>1. L = B /\ A = {}
      BY <1>2 DEF grantLocked, Admitted
    <2> QED BY <2>1, <1>1, <1>2 DEF GrantOutcome, QueueWithout
  <1>3. CASE CanGrant(B) /\ request[q[1]].write
    <2>1. q # <<>> /\ 1 \in DOMAIN q /\ q[1] \in Callers /\ ~B.writer /\ B.readers = 0
      BY <1>1, <1>3 DEF CanGrant
    <2>2. A = {q[1]}
      BY <1>3 DEF Admitted
    <2>3. L = [B EXCEPT !.queue = Tail(q), !.writer = TRUE]
      BY <1>3 DEF grantLocked
    <2> HIDE DEF L, A
    <2>a. L = [readers |-> 0, writer |-> TRUE, queue |-> Tail(q)]
      BY <2>1, <2>3 DEF targetLane
    <2>b. Tail(q) \in Seq(Callers)
      BY <1>1, <2>1
    <2> HIDE DEF q
    <2>4. /\ L.queue = Tail(q) /\ L.writer = TRUE /\ L.readers = 0
          /\ L \in targetLane
      BY <2>a, <2>b DEF targetLane
    <2>5. /\ Len(Tail(q)) = Len(q) - 1
          /\ \A i \in 1..(Len(q) - 1) : Tail(q)[i] = q[i + 1]
      BY <1>1, <2>1
    <2>6. QueueWithout(q, L.queue, A)
      <3>1. DOMAIN Tail(q) = 1..(Len(q) - 1)
        BY <1>1, <2>1, <2>5
      <3>2. \A i \in DOMAIN Tail(q) : Tail(q)[i] # q[1]
        <4> TAKE i \in DOMAIN Tail(q)
        <4>1. Tail(q)[i] = q[i + 1] /\ i + 1 \in DOMAIN q /\ i + 1 # 1
          BY <1>1, <2>5, <3>1
        <4> QED BY <4>1, <2>1, <1>0 DEF Distinct
      <3>3. ASSUME NEW j \in DOMAIN q, q[j] # q[1]
            PROVE  \E i \in DOMAIN Tail(q) : Tail(q)[i] = q[j]
        <4>1. j - 1 \in 1..(Len(q) - 1)
          BY <1>1, <3>3
        <4> QED BY <4>1, <3>1, <2>5, <1>1
      <3>4. Distinct(Tail(q))
        <4> SUFFICES ASSUME NEW i \in 1..(Len(q) - 1), NEW j \in 1..(Len(q) - 1),
                            Tail(q)[i] = Tail(q)[j]
                     PROVE  i = j
          BY <3>1 DEF Distinct
        <4>1. q[i + 1] = q[j + 1] /\ i + 1 \in DOMAIN q /\ j + 1 \in DOMAIN q
          BY <1>1, <2>5
        <4> QED BY <4>1, <1>0 DEF Distinct
      <3> QED BY <1>1, <2>1, <2>2, <2>4, <2>5, <3>1, <3>2, <3>3, <3>4 DEF QueueWithout
    <2> QED BY <2>1, <2>2, <2>4, <2>6, <1>3 DEF GrantOutcome, q, L, A
  <1>4. CASE CanGrant(B) /\ ~request[q[1]].write
    <2> DEFINE n == Cardinality(ReadPrefix(q))
    <2>1. q # <<>> /\ 1 \in DOMAIN q /\ ~B.writer /\ B.readers = 0
      BY <1>1, <1>4 DEF CanGrant
    <2>2. n \in 0..Len(q) /\ ReadPrefix(q) = 1..n
      BY <1>1, ReadPrefixInterval
    <2>3. n > 0
      <3>1. 1 \in ReadPrefix(q)
        BY <1>1, <1>4, <2>1 DEF ReadPrefix
      <3> QED BY <3>1, <2>2
    <2>4. A = {q[i] : i \in 1..n}
      BY <1>4, <2>2 DEF Admitted
    <2>5. L = [B EXCEPT !.queue = SubSeq(q, n + 1, Len(q)), !.readers = B.readers + n]
      BY <1>4 DEF grantLocked
    <2> HIDE DEF n, L, A
    <2>a. L = [readers |-> n, writer |-> FALSE, queue |-> SubSeq(q, n + 1, Len(q))]
      <3>1. B.readers + n = n
        BY <2>1, <2>2
      <3> QED BY <2>1, <2>5, <3>1 DEF targetLane
    <2>b. SubSeq(q, n + 1, Len(q)) \in Seq(Callers)
      BY <1>1, <2>2
    <2> HIDE DEF q
    <2>6. /\ L.queue = SubSeq(q, n + 1, Len(q)) /\ L.writer = FALSE /\ L.readers = n
          /\ L \in targetLane
      BY <1>1, <2>2, <2>a, <2>b DEF targetLane
    <2>7. \A c \in A : ~request[c].write
      BY <2>2, <2>4 DEF ReadPrefix
    <2>8. Cardinality(A) = n
      BY <1>0, <1>1, <2>2, <2>4, PrefixCardinality
    <2>9. QueueWithout(q, L.queue, A)
      <3> DEFINE r == SubSeq(q, n + 1, Len(q))
      <3>1. /\ DOMAIN r = 1..(Len(q) - n)
            /\ \A i \in 1..(Len(q) - n) : r[i] = q[i + n]
        BY <1>1, <2>2
      <3>0. L.queue = r
        BY <2>6
      <3> HIDE DEF r
      <3>2. ASSUME NEW i \in DOMAIN r, r[i] \in A PROVE FALSE
        <4>1. PICK j \in 1..n : q[j] = r[i]
          BY <2>4, <3>2
        <4>2. i + n \in DOMAIN q /\ j \in DOMAIN q /\ q[i + n] = q[j]
          BY <1>1, <2>2, <3>1, <4>1
        <4>3. i + n = j
          BY <4>2, <1>0 DEF Distinct
        <4> QED BY <4>3, <3>1, <2>2
      <3>3. ASSUME NEW j \in DOMAIN q, q[j] \notin A
            PROVE  \E i \in DOMAIN r : r[i] = q[j]
        <4>1. j \notin 1..n
          BY <2>4, <3>3
        <4>2. j - n \in 1..(Len(q) - n)
          BY <4>1, <1>1, <2>2
        <4> QED BY <4>2, <3>1, <1>1, <2>2
      <3>4. Distinct(r)
        <4> SUFFICES ASSUME NEW i \in DOMAIN r, NEW j \in DOMAIN r, r[i] = r[j]
                     PROVE  i = j
          BY DEF Distinct
        <4>1. q[i + n] = q[j + n] /\ i + n \in DOMAIN q /\ j + n \in DOMAIN q
          BY <1>1, <2>2, <3>1
        <4>2. i + n = j + n
          BY <4>1, <1>0 DEF Distinct
        <4> QED BY <4>2, <2>2, <3>1
      <3>5. \A c \in A : \E i \in DOMAIN q : q[i] = c
        BY <1>1, <2>2, <2>4
      <3>6. \A i \in DOMAIN r : \E j \in DOMAIN q : q[j] = r[i]
        <4> TAKE i \in DOMAIN r
        <4>1. i + n \in DOMAIN q /\ r[i] = q[i + n]
          BY <1>1, <2>2, <3>1
        <4> QED BY <4>1
      <3> QED BY <3>0, <3>2, <3>3, <3>4, <3>5, <3>6 DEF QueueWithout
    <2>10. A \in SUBSET Callers
      BY <1>1, <2>2, <2>4
    <2> QED BY <2>1, <2>3, <2>6, <2>7, <2>8, <2>9, <2>10 DEF GrantOutcome, q, L, A
  <1> QED BY <1>2, <1>3, <1>4

-----------------------------------------------------------------------------
(* The owners of a lane *)

\* The owners of a lane are finitely many, and readers is zero exactly when no
\* read owns it.
LEMMA OwnersFinite ==
  ASSUME NEW l
  PROVE  /\ IsFiniteSet(ReadersOf(l)) /\ Cardinality(ReadersOf(l)) \in Nat
         /\ Cardinality(ReadersOf(l)) = 0 <=> ReadersOf(l) = {}
  <1>1. ReadersOf(l) \in SUBSET Callers
    BY DEF ReadersOf
  <1>2. IsFiniteSet(ReadersOf(l))
    BY <1>1, CallersFinite, FS_Subset
  <1> QED BY <1>2, FS_CardinalityType, FS_EmptySet

\* No lane and no request: every part of the invariant holds.
LEMMA InitIInv == Init => IInv
  <1> SUFFICES ASSUME Init PROVE IInv
    OBVIOUS
  <1>1. TypeOK
    BY DEF Init, TypeOK, EmptyLane, NoRequest, targetLane, targetLaneRequest, CallerState
  <1>2. RequestLane /\ OneTargetPerLane /\ OwnedLane
    BY DEF Init, RequestLane, OneTargetPerLane, OwnedLane
  <1>3. QueueIsWaiters /\ OwnedQueue
    BY DEF Init, QueueIsWaiters, OwnedQueue, EmptyLane, Waiting, Distinct
  <1>4. LaneCounts
    <2> SUFFICES ASSUME NEW l \in Lanes
                 PROVE  /\ lane[l].readers = Cardinality(ReadersOf(l))
                        /\ ~lane[l].writer /\ WritersOf(l) = {}
      BY DEF LaneCounts
    <2>1. ReadersOf(l) = {} /\ WritersOf(l) = {}
      BY DEF Init, ReadersOf, WritersOf, Active
    <2> QED BY <2>1, FS_EmptySet DEF Init, EmptyLane
  <1> QED BY <1>1, <1>2, <1>3, <1>4 DEF IInv

\* Steps that move no caller into or out of a queue or a lane.
LEMMA QuietIInv ==
  ASSUME IInv, NEW c \in Callers, ContextDone(c) \/ ReceiveReady(c)
  PROVE  IInv'
  <1>0. /\ lanes' = lanes /\ lane' = lane /\ request' = request
        /\ state' \in [Callers -> CallerState] /\ cancelled' \in [Callers -> BOOLEAN]
        /\ \A d \in Callers : /\ Active(d)' <=> Active(d)
                              /\ Waiting(d)' <=> Waiting(d)
                              /\ state'[d] = "idle" <=> state[d] = "idle"
    BY DEF IInv, TypeOK, ContextDone, ReceiveReady, Active, Waiting, CallerState
  <1>1. TypeOK'
    BY <1>0 DEF IInv, TypeOK
  <1>2. RequestLane' /\ OneTargetPerLane' /\ OwnedLane' /\ OwnedQueue'
    BY <1>0 DEF IInv, RequestLane, OneTargetPerLane, OwnedLane, OwnedQueue
  <1>3. QueueIsWaiters'
    <2>1. \A l \in Lanes : \A i \in DOMAIN lane[l].queue : lane[l].queue[i] \in Callers
      BY DEF IInv, TypeOK, targetLane
    <2> QED BY <1>0, <2>1 DEF IInv, QueueIsWaiters
  <1>4. LaneCounts'
    <2>1. \A l \in Lanes : ReadersOf(l)' = ReadersOf(l) /\ WritersOf(l)' = WritersOf(l)
      BY <1>0 DEF ReadersOf, WritersOf
    <2> QED BY <1>0, <2>1 DEF IInv, LaneCounts
  <1> QED BY <1>1, <1>2, <1>3, <1>4 DEF IInv

-----------------------------------------------------------------------------
(* acquire *)

\* What the invariant says of the contents L of lane object l.
LaneOK(l, L) ==
    /\ \A i \in DOMAIN L.queue : Waiting(L.queue[i]) /\ request[L.queue[i]].lane = l
    /\ \A c \in Callers : Waiting(c) /\ request[c].lane = l =>
            \E i \in DOMAIN L.queue : L.queue[i] = c
    /\ Distinct(L.queue)
    /\ L.readers = Cardinality(ReadersOf(l))
    /\ L.writer <=> WritersOf(l) # {}
    /\ \A c, d \in WritersOf(l) : c = d
    /\ L.writer => L.readers = 0
    /\ L.queue # <<>> => Owned(L)

\* QueueIsWaiters, LaneCounts and OwnedQueue, lane by lane.
LEMMA LaneByLane ==
  QueueIsWaiters /\ LaneCounts /\ OwnedQueue <=> \A l \in Lanes : LaneOK(l, lane[l])
  BY DEF QueueIsWaiters, LaneCounts, OwnedQueue, LaneOK

\* The same in the next state.
LEMMA LaneByLanePrime ==
  (QueueIsWaiters /\ LaneCounts /\ OwnedQueue)' <=> \A l \in Lanes : LaneOK(l, lane[l])'
  BY DEF QueueIsWaiters, LaneCounts, OwnedQueue, LaneOK

\* A step that leaves a lane object, its owners and its waiters alone.
LEMMA OtherLane ==
  ASSUME IInv, NEW m \in Lanes, lane'[m] = lane[m],
         ReadersOf(m)' = ReadersOf(m), WritersOf(m)' = WritersOf(m),
         \A d \in Callers : (Waiting(d) /\ request[d].lane = m)
                            <=> (Waiting(d)' /\ request'[d].lane = m)
  PROVE  LaneOK(m, lane[m])'
  <1>1. LaneOK(m, lane[m])
    BY LaneByLane DEF IInv
  <1>2. \A i \in DOMAIN lane[m].queue : lane[m].queue[i] \in Callers
    BY DEF IInv, TypeOK, targetLane
  <1> QED BY <1>1, <1>2 DEF LaneOK, Owned

\* The lane acquire works on satisfies the invariant, found or just made.
LEMMA LaneFound ==
  ASSUME IInv, NEW t \in Targets, NEW l \in Lanes, NEW L,
         \/ lanes[t] = l /\ L = lane[l]
         \/ lanes[t] = NoLane /\ Fresh(l) /\ L = EmptyLane
  PROVE  /\ L \in targetLane
         /\ LaneOK(l, L)
         /\ \A u \in Targets : lanes[u] = l => u = t
         /\ lanes[t] # l => \A d \in Callers : state[d] = "idle" \/ request[d].target # t
  <1>1. CASE lanes[t] = l /\ L = lane[l]
    <2>1. LaneOK(l, L)
      BY <1>1, LaneByLane DEF IInv
    <2> QED BY <1>1, <2>1, NoLaneAssumption DEF IInv, TypeOK, OneTargetPerLane
  <1>2. CASE lanes[t] = NoLane /\ Fresh(l) /\ L = EmptyLane
    <2>1. ReadersOf(l) = {} /\ WritersOf(l) = {}
      BY <1>2 DEF Fresh, ReadersOf, WritersOf
    <2>2. L \in targetLane
      BY <1>2 DEF EmptyLane, targetLane
    <2>3. LaneOK(l, L)
      BY <1>2, <2>1, FS_EmptySet DEF Fresh, LaneOK, EmptyLane, Distinct
    <2>4. \A d \in Callers : state[d] = "idle" \/ request[d].target # t
      BY <1>2, NoLaneAssumption DEF IInv, RequestLane
    <2> QED BY <1>2, <2>2, <2>3, <2>4 DEF Fresh
  <1> QED BY <1>1, <1>2

\* A request enters the lane at once or at the end of its queue.
LEMMA EnterIInv ==
  ASSUME IInv, NEW c \in Callers, state[c] = "idle", NEW t \in Targets,
         NEW w \in BOOLEAN, NEW l \in Lanes, NEW L,
         \/ lanes[t] = l /\ L = lane[l]
         \/ lanes[t] = NoLane /\ Fresh(l) /\ L = EmptyLane,
         Enter(c, t, w, l, L)
  PROVE  IInv'
  <1>1. /\ L \in targetLane
        /\ LaneOK(l, L)
        /\ \A u \in Targets : lanes[u] = l => u = t
        /\ lanes[t] # l => \A d \in Callers : state[d] = "idle" \/ request[d].target # t
    BY LaneFound
  <1>2. /\ L.queue \in Seq(Callers) /\ L.readers \in Nat /\ L.writer \in BOOLEAN
        /\ L = [readers |-> L.readers, writer |-> L.writer, queue |-> L.queue]
    BY <1>1 DEF targetLane
  <1>3. /\ lanes' = [lanes EXCEPT ![t] = l]
        /\ request' = [request EXCEPT ![c] = [target |-> t, write |-> w, lane |-> l]]
        /\ cancelled' = [cancelled EXCEPT ![c] = FALSE]
    BY DEF Enter
  <1>4. /\ request'[c].target = t /\ request'[c].write = w /\ request'[c].lane = l
        /\ \A d \in Callers : d # c => request'[d] = request[d]
    BY <1>3 DEF IInv, TypeOK
  <1>5. request[c] = NoRequest /\ ~Active(c) /\ ~Waiting(c)
    BY DEF IInv, RequestLane, Active, Waiting
  <1>6. \A d \in Callers : d # c => state'[d] = state[d]
    BY DEF IInv, TypeOK, Enter
  <1>7. state'[c] \in {"holding", "queued"} /\ state' \in [Callers -> CallerState]
    BY DEF IInv, TypeOK, Enter, CallerState
  <1>8. \A m \in Lanes : m # l => lane'[m] = lane[m]
    BY DEF IInv, TypeOK, Enter
  <1>9. \A d \in Callers : d # c =>
            (Active(d)' <=> Active(d)) /\ (Waiting(d)' <=> Waiting(d))
    BY <1>6 DEF Active, Waiting
  <1>10. RequestLane' /\ OneTargetPerLane'
    <2>1. OneTargetPerLane'
      BY <1>1, <1>3 DEF IInv, TypeOK, OneTargetPerLane
    <2>2. RequestLane'
      BY <1>1, <1>3, <1>4, <1>6, <1>7 DEF IInv, TypeOK, RequestLane
    <2> QED BY <2>1, <2>2
  <1>11. ASSUME NEW m \in Lanes, m # l PROVE LaneOK(m, lane[m])'
    <2>1. ReadersOf(m)' = ReadersOf(m) /\ WritersOf(m)' = WritersOf(m)
      BY <1>4, <1>5, <1>9, <1>11 DEF ReadersOf, WritersOf
    <2>2. \A d \in Callers : (Waiting(d) /\ request[d].lane = m)
                             <=> (Waiting(d)' /\ request'[d].lane = m)
      BY <1>4, <1>5, <1>9, <1>11
    <2> QED BY <2>1, <2>2, <1>8, <1>11, OtherLane
  <1>12. \A i \in DOMAIN L.queue : L.queue[i] \in Callers /\ L.queue[i] # c
    BY <1>1, <1>2, <1>5 DEF LaneOK
  <1>13. ASSUME Immediate(L, w) /\ w
        PROVE  LaneOK(l, lane[l])' /\ Owned(lane[l])' /\ lane'[l] \in targetLane
    <2>1. lane'[l] = [readers |-> 0, writer |-> TRUE, queue |-> <<>>] /\ state'[c] = "holding"
      BY <1>13, <1>2 DEF IInv, TypeOK, Enter, Immediate
    <2>2. ReadersOf(l) = {} /\ WritersOf(l) = {}
      BY <1>1, <1>13, OwnersFinite DEF LaneOK, Immediate
    <2>3. ReadersOf(l)' = {} /\ WritersOf(l)' = {c}
      <3>1. Active(c)' /\ request'[c].write
        BY <2>1, <1>4, <1>13 DEF Active
      <3>2. ReadersOf(l)' = ReadersOf(l)
        BY <3>1, <1>4, <1>5, <1>9 DEF ReadersOf
      <3>3. WritersOf(l)' = WritersOf(l) \cup {c}
        BY <3>1, <1>4, <1>9 DEF WritersOf
      <3> QED BY <2>2, <3>2, <3>3
    <2>4. \A d \in Callers : ~(Waiting(d)' /\ request'[d].lane = l)
      BY <1>1, <1>4, <1>9, <1>13, <2>1 DEF LaneOK, Immediate, Waiting
    <2>5. LaneOK(l, lane[l])'
      BY <2>1, <2>3, <2>4, FS_EmptySet DEF LaneOK, Distinct, Owned
    <2>6. Owned(lane[l])' /\ lane'[l] \in targetLane
      BY <2>1 DEF Owned, targetLane
    <2> QED BY <2>5, <2>6
  <1>14. ASSUME Immediate(L, w) /\ ~w
        PROVE  LaneOK(l, lane[l])' /\ Owned(lane[l])' /\ lane'[l] \in targetLane
    <2>1. /\ lane'[l] = [readers |-> L.readers + 1, writer |-> FALSE, queue |-> <<>>]
          /\ state'[c] = "holding"
      BY <1>14, <1>2 DEF IInv, TypeOK, Enter, Immediate
    <2>2. WritersOf(l) = {} /\ L.readers = Cardinality(ReadersOf(l)) /\ c \notin ReadersOf(l)
      BY <1>1, <1>5, <1>14 DEF LaneOK, Immediate, ReadersOf
    <2>3. ReadersOf(l)' = ReadersOf(l) \cup {c} /\ WritersOf(l)' = {}
      BY <2>1, <2>2, <1>4, <1>9, <1>14 DEF ReadersOf, WritersOf, Active
    <2>4. Cardinality(ReadersOf(l)') = L.readers + 1
      BY <2>2, <2>3, OwnersFinite, FS_AddElement
    <2>5. \A d \in Callers : ~(Waiting(d)' /\ request'[d].lane = l)
      BY <1>1, <1>4, <1>9, <1>14, <2>1 DEF LaneOK, Immediate, Waiting
    <2>6. LaneOK(l, lane[l])'
      BY <2>1, <2>3, <2>4, <2>5 DEF LaneOK, Distinct, Owned
    <2>7. Owned(lane[l])' /\ lane'[l] \in targetLane
      BY <2>1, <1>2 DEF Owned, targetLane
    <2> QED BY <2>6, <2>7
  <1>15. ASSUME ~Immediate(L, w)
        PROVE  LaneOK(l, lane[l])' /\ Owned(lane[l])' /\ lane'[l] \in targetLane
    <2> DEFINE q == Append(L.queue, c)
    <2>1. /\ lane'[l] = [readers |-> L.readers, writer |-> L.writer, queue |-> q]
          /\ state'[c] = "queued"
      BY <1>15, <1>2 DEF IInv, TypeOK, Enter
    <2>2. /\ q \in Seq(Callers) /\ DOMAIN q = 1..(Len(L.queue) + 1)
          /\ DOMAIN L.queue = 1..Len(L.queue) /\ Len(L.queue) \in Nat
          /\ \A i \in DOMAIN L.queue : q[i] = L.queue[i]
          /\ q[Len(L.queue) + 1] = c
      BY <1>2
    <2> HIDE DEF q
    <2>3. Owned(L)
      BY <1>1, <1>2, <1>15 DEF LaneOK, Immediate, Owned
    <2>4. ReadersOf(l)' = ReadersOf(l) /\ WritersOf(l)' = WritersOf(l)
      BY <2>1, <1>4, <1>5, <1>9 DEF ReadersOf, WritersOf, Active
    <2>5. \A i \in DOMAIN q : Waiting(q[i])' /\ request'[q[i]].lane = l
      BY <2>1, <2>2, <1>1, <1>4, <1>9, <1>12 DEF LaneOK, Waiting
    <2>6. \A d \in Callers : Waiting(d)' /\ request'[d].lane = l =>
                \E i \in DOMAIN q : q[i] = d
      BY <2>2, <1>1, <1>4, <1>9 DEF LaneOK
    <2>7. Distinct(q)
      BY <2>2, <1>1, <1>12 DEF LaneOK, Distinct
    <2>8. LaneOK(l, lane[l])'
      BY <2>1, <2>3, <2>4, <2>5, <2>6, <2>7, <1>1 DEF LaneOK, Owned
    <2>9. Owned(lane[l])' /\ lane'[l] \in targetLane
      BY <2>1, <2>2, <2>3, <1>2 DEF Owned, targetLane
    <2> QED BY <2>8, <2>9
  <1>16. LaneOK(l, lane[l])' /\ Owned(lane[l])' /\ lane'[l] \in targetLane
    BY <1>13, <1>14, <1>15
  <1>17. TypeOK'
    <2>1. lane' \in [Lanes -> targetLane]
      BY <1>16 DEF IInv, TypeOK, Enter
    <2>2. request' \in [Callers -> targetLaneRequest]
      BY <1>3 DEF IInv, TypeOK, targetLaneRequest
    <2> QED BY <2>1, <2>2, <1>3, <1>7 DEF IInv, TypeOK
  <1>18. QueueIsWaiters' /\ LaneCounts' /\ OwnedQueue'
    BY <1>11, <1>16, LaneByLanePrime
  <1>19. OwnedLane'
    <2> SUFFICES ASSUME NEW u \in Targets, lanes'[u] # NoLane
                 PROVE  Owned(lane'[lanes'[u]])
      BY DEF OwnedLane, Owned
    <2>1. CASE u = t
      BY <2>1, <1>3, <1>16 DEF IInv, TypeOK, Owned
    <2>2. CASE u # t
      <3>1. lanes'[u] = lanes[u] /\ lanes[u] # l /\ lanes[u] \in Lanes
        BY <2>2, <1>1, <1>3 DEF IInv, TypeOK
      <3> QED BY <3>1, <1>8 DEF IInv, OwnedLane, Owned
    <2> QED BY <2>1, <2>2
  <1> QED BY <1>10, <1>17, <1>18, <1>19 DEF IInv

\* acquire enters the lane in the map, or one it makes.
LEMMA acquireIInv ==
  ASSUME IInv, NEW c \in Callers, NEW t \in Targets, NEW w \in BOOLEAN, acquire(c, t, w)
  PROVE  IInv'
  <1>1. CASE lanes[t] # NoLane /\ Enter(c, t, w, lanes[t], lane[lanes[t]])
    <2>1. lanes[t] \in Lanes /\ state[c] = "idle"
      BY <1>1 DEF IInv, TypeOK, acquire
    <2> QED BY <1>1, <2>1, EnterIInv
  <1>2. ASSUME lanes[t] = NoLane,
               NEW l \in Lanes, Fresh(l), Enter(c, t, w, l, EmptyLane)
        PROVE  IInv'
    <2>1. state[c] = "idle"
      BY DEF acquire
    <2> QED BY <1>2, <2>1, EnterIInv
  <1> QED BY <1>1, <1>2 DEF acquire

-----------------------------------------------------------------------------
(* Leaving a lane *)

\* The lane without its owner c, before grantLocked: it is not written, its
\* readers are the other ones, and no write owns it.
LEMMA GivenBackFacts ==
  ASSUME IInv, NEW c \in Callers, Active(c)
  PROVE  LET l == request[c].lane
         IN  /\ GivenBack(c) \in targetLane
             /\ GivenBack(c).queue = lane[l].queue
             /\ ~GivenBack(c).writer
             /\ GivenBack(c).readers = Cardinality(ReadersOf(l) \ {c})
             /\ WritersOf(l) \ {c} = {}
  <1> DEFINE l == request[c].lane
             G == GivenBack(c)
  <1>1. l \in Lanes /\ lane[l] \in targetLane /\ LaneOK(l, lane[l])
    BY LaneByLane DEF IInv, TypeOK, RequestLane, Active
  <1>2. /\ lane[l].queue \in Seq(Callers) /\ lane[l].readers \in Nat
        /\ lane[l].writer \in BOOLEAN
        /\ lane[l] = [readers |-> lane[l].readers, writer |-> lane[l].writer,
                      queue |-> lane[l].queue]
    BY <1>1 DEF targetLane
  <1>3. CASE request[c].write
    <2>1. c \in WritersOf(l) /\ lane[l].writer /\ lane[l].readers = 0
      BY <1>1, <1>3 DEF WritersOf, LaneOK
    <2>2. ReadersOf(l) = {}
      BY <1>1, <2>1, OwnersFinite DEF LaneOK
    <2>3. G = [readers |-> 0, writer |-> FALSE, queue |-> lane[l].queue]
      BY <1>2, <1>3, <2>1 DEF GivenBack
    <2>4. WritersOf(l) \ {c} = {}
      BY <1>1, <2>1 DEF LaneOK
    <2>5. ReadersOf(l) \ {c} = {} /\ Cardinality(ReadersOf(l) \ {c}) = 0
      BY <2>2, FS_EmptySet
    <2>6. G \in targetLane
      BY <2>3, <1>2 DEF targetLane
    <2> HIDE DEF G
    <2> QED BY <2>3, <2>4, <2>5, <2>6 DEF G
  <1>4. CASE ~request[c].write
    <2>1. c \in ReadersOf(l)
      BY <1>1, <1>4 DEF ReadersOf
    <2>2. lane[l].readers > 0 /\ lane[l].readers = Cardinality(ReadersOf(l))
      BY <1>1, <1>2, <2>1, OwnersFinite DEF LaneOK
    <2>3. ~lane[l].writer /\ WritersOf(l) = {}
      BY <1>1, <2>2 DEF LaneOK
    <2>4. G = [readers |-> lane[l].readers - 1, writer |-> FALSE, queue |-> lane[l].queue]
      BY <1>2, <1>4, <2>2, <2>3 DEF GivenBack
    <2>5. Cardinality(ReadersOf(l) \ {c}) = lane[l].readers - 1
      BY <2>1, <2>2, OwnersFinite, FS_RemoveElement
    <2>6. G \in targetLane
      BY <2>2, <2>4, <1>2 DEF targetLane
    <2> HIDE DEF G
    <2> QED BY <2>3, <2>4, <2>5, <2>6 DEF G
  <1> QED BY <1>3, <1>4

\* The members of the sets of owners after c left and A was admitted.
LEMMA OwnersAfter ==
  ASSUME IInv, NEW c \in Callers, state[c] # "idle",
         NEW l \in Lanes, l = request[c].lane,
         NEW A \in SUBSET Callers, Leave(c, A),
         \A d \in A : Waiting(d) /\ d # c /\ request[d].lane = l
  PROVE  /\ ReadersOf(l)' = (ReadersOf(l) \ {c}) \cup {d \in A : ~request[d].write}
         /\ WritersOf(l)' = (WritersOf(l) \ {c}) \cup {d \in A : request[d].write}
         /\ \A m \in Lanes : m # l =>
                /\ ReadersOf(m)' = ReadersOf(m)
                /\ WritersOf(m)' = WritersOf(m)
         /\ \A d \in Callers :
                /\ Waiting(d)' <=> Waiting(d) /\ d # c /\ d \notin A
                /\ d # c => request'[d] = request[d]
                /\ state'[d] = "idle" <=> state[d] = "idle" \/ d = c
         /\ request'[c] = NoRequest
         /\ state' \in [Callers -> CallerState]
         /\ request' \in [Callers -> targetLaneRequest]
         /\ cancelled' \in [Callers -> BOOLEAN]
  <1>1. /\ request'[c] = NoRequest
        /\ \A d \in Callers : d # c => request'[d] = request[d]
        /\ request' \in [Callers -> targetLaneRequest]
    BY DEF IInv, TypeOK, Leave, targetLaneRequest, NoRequest
  <1>2. /\ state' \in [Callers -> CallerState]
        /\ cancelled' \in [Callers -> BOOLEAN]
    BY DEF IInv, TypeOK, Leave, Moved, CallerState
  <1>3. \A d \in Callers :
            /\ Waiting(d)' <=> Waiting(d) /\ d # c /\ d \notin A
            /\ Active(d)' <=> d # c /\ (Active(d) \/ d \in A)
            /\ state'[d] = "idle" <=> state[d] = "idle" \/ d = c
    BY DEF Leave, Moved, Waiting, Active
  <1>4. /\ ReadersOf(l)' = (ReadersOf(l) \ {c}) \cup {d \in A : ~request[d].write}
        /\ WritersOf(l)' = (WritersOf(l) \ {c}) \cup {d \in A : request[d].write}
    <2>1. \A d \in Callers : d \in ReadersOf(l)' <=>
              d # c /\ (Active(d) \/ d \in A) /\ request[d].lane = l /\ ~request[d].write
      BY <1>1, <1>3, NoLaneAssumption DEF ReadersOf, NoRequest
    <2>2. \A d \in Callers : d \in WritersOf(l)' <=>
              d # c /\ (Active(d) \/ d \in A) /\ request[d].lane = l /\ request[d].write
      BY <1>1, <1>3, NoLaneAssumption DEF WritersOf, NoRequest
    <2>3. ReadersOf(l)' \subseteq Callers /\ WritersOf(l)' \subseteq Callers
      BY DEF ReadersOf, WritersOf
    <2> QED BY <2>1, <2>2, <2>3 DEF ReadersOf, WritersOf
  <1>5. ASSUME NEW m \in Lanes, m # l
        PROVE  ReadersOf(m)' = ReadersOf(m) /\ WritersOf(m)' = WritersOf(m)
    BY <1>1, <1>3, <1>5, NoLaneAssumption DEF ReadersOf, WritersOf, NoRequest
  <1> QED BY <1>1, <1>2, <1>3, <1>4, <1>5

\* Giving a lane back, and admitting from its queue, keeps the invariant.
LEMMA releaseGrantedIInv ==
  ASSUME IInv, NEW c \in Callers, Active(c), releaseGranted(c)
  PROVE  IInv'
  <1>0. PICK l, t, B, L, A :
            /\ l = request[c].lane /\ t = request[c].target
            /\ B = GivenBack(c) /\ L = grantLocked(B) /\ A = Admitted(B)
    OBVIOUS
  <1>1. /\ lane' = [lane EXCEPT ![l] = L]
        /\ lanes' = AfterDelete(c, L)
        /\ Leave(c, A)
    BY <1>0 DEF releaseGranted
  <1>2. l \in Lanes /\ t \in Targets /\ lanes[t] = l /\ LaneOK(l, lane[l])
    BY <1>0, LaneByLane DEF IInv, RequestLane, Active
  <1>3. /\ B \in targetLane /\ B.queue = lane[l].queue /\ ~B.writer
        /\ B.readers = Cardinality(ReadersOf(l) \ {c}) /\ WritersOf(l) \ {c} = {}
    BY <1>0, GivenBackFacts
  <1>4. Distinct(B.queue)
    BY <1>2, <1>3 DEF LaneOK
  <1>5. /\ L \in targetLane /\ A \in SUBSET Callers /\ GrantOutcome(B, L, A)
        /\ QueueWithout(B.queue, L.queue, A)
    BY <1>0, <1>3, <1>4, GrantFacts DEF IInv
  <1>6. \A d \in A : Waiting(d) /\ d # c /\ request[d].lane = l
    <2>1. ~Waiting(c)
      BY DEF Active, Waiting
    <2> QED BY <2>1, <1>2, <1>3, <1>5 DEF QueueWithout, LaneOK
  <1>7. state[c] # "idle"
    BY DEF Active
  <1>8. /\ ReadersOf(l)' = (ReadersOf(l) \ {c}) \cup {d \in A : ~request[d].write}
        /\ WritersOf(l)' = (WritersOf(l) \ {c}) \cup {d \in A : request[d].write}
        /\ \A m \in Lanes : m # l =>
               ReadersOf(m)' = ReadersOf(m) /\ WritersOf(m)' = WritersOf(m)
        /\ \A d \in Callers :
               /\ Waiting(d)' <=> Waiting(d) /\ d # c /\ d \notin A
               /\ d # c => request'[d] = request[d]
               /\ state'[d] = "idle" <=> state[d] = "idle" \/ d = c
        /\ request'[c] = NoRequest
        /\ state' \in [Callers -> CallerState]
        /\ request' \in [Callers -> targetLaneRequest]
        /\ cancelled' \in [Callers -> BOOLEAN]
    BY <1>0, <1>1, <1>2, <1>5, <1>6, <1>7, OwnersAfter
  <1>9. lane'[l] = L /\ \A m \in Lanes : m # l => lane'[m] = lane[m]
    BY <1>1, <1>2 DEF IInv, TypeOK
  <1>10. ASSUME NEW m \in Lanes, m # l PROVE LaneOK(m, lane[m])'
    <2>1. \A d \in Callers : (Waiting(d) /\ request[d].lane = m)
                             <=> (Waiting(d)' /\ request'[d].lane = m)
      BY <1>6, <1>8, <1>10 DEF Active, Waiting
    <2> QED BY <2>1, <1>8, <1>9, <1>10, OtherLane
  <1>11. /\ L.readers = Cardinality(ReadersOf(l)')
         /\ L.writer <=> WritersOf(l)' # {}
         /\ \A d, e \in WritersOf(l)' : d = e
         /\ L.writer => L.readers = 0
         /\ L.queue # <<>> => Owned(L)
    <2>0. IsFiniteSet(ReadersOf(l) \ {c}) /\
          (Cardinality(ReadersOf(l) \ {c}) = 0 <=> ReadersOf(l) \ {c} = {})
      BY OwnersFinite, FS_RemoveElement, FS_EmptySet
    <2>1. CASE A = {} /\ L = B /\ ~CanGrant(B)
      <3>1. ReadersOf(l)' = ReadersOf(l) \ {c} /\ WritersOf(l)' = {}
        BY <2>1, <1>3, <1>8
      <3>2. B.readers \in Nat
        BY <1>3 DEF targetLane
      <3> QED BY <2>1, <3>1, <3>2, <1>3 DEF CanGrant, Owned
    <2>2. ASSUME NEW w \in Callers,
                 ~B.writer /\ B.readers = 0 /\ A = {w} /\ request[w].write,
                 L.writer /\ L.readers = 0
          PROVE  /\ L.readers = Cardinality(ReadersOf(l)')
                 /\ L.writer <=> WritersOf(l)' # {}
                 /\ \A d, e \in WritersOf(l)' : d = e
                 /\ L.writer => L.readers = 0
                 /\ L.queue # <<>> => Owned(L)
      <3>1. ReadersOf(l) \ {c} = {}
        BY <2>0, <2>2, <1>3
      <3>2. ReadersOf(l)' = {} /\ WritersOf(l)' = {w}
        BY <2>2, <3>1, <1>3, <1>8
      <3> QED BY <2>2, <3>2, FS_EmptySet DEF Owned
    <2>3. CASE /\ ~B.writer /\ B.readers = 0 /\ \A d \in A : ~request[d].write
               /\ ~L.writer /\ L.readers = Cardinality(A) /\ L.readers > 0
      <3>1. ReadersOf(l) \ {c} = {}
        BY <2>0, <2>3, <1>3
      <3>2. ReadersOf(l)' = A /\ WritersOf(l)' = {}
        BY <2>3, <3>1, <1>3, <1>8
      <3> QED BY <2>3, <3>2 DEF Owned
    <2> QED BY <1>5, <2>1, <2>2, <2>3 DEF GrantOutcome
  <1>12. LaneOK(l, lane[l])'
    <2>1. \A i \in DOMAIN L.queue : Waiting(L.queue[i])' /\ request'[L.queue[i]].lane = l
      <3> TAKE i \in DOMAIN L.queue
      <3>1. L.queue[i] \notin A /\ \E j \in DOMAIN lane[l].queue : lane[l].queue[j] = L.queue[i]
        BY <1>3, <1>5 DEF QueueWithout
      <3>2. L.queue[i] \in Callers /\ Waiting(L.queue[i]) /\ request[L.queue[i]].lane = l
        BY <3>1, <1>2 DEF LaneOK, IInv, TypeOK, targetLane
      <3>3. L.queue[i] # c
        BY <3>2 DEF Active, Waiting
      <3> QED BY <3>1, <3>2, <3>3, <1>8
    <2>2. \A d \in Callers : Waiting(d)' /\ request'[d].lane = l =>
                \E i \in DOMAIN L.queue : L.queue[i] = d
      BY <1>2, <1>3, <1>5, <1>8 DEF LaneOK, QueueWithout
    <2>3. Distinct(L.queue)
      BY <1>5 DEF QueueWithout
    <2> QED BY <2>1, <2>2, <2>3, <1>9, <1>11 DEF LaneOK, Owned
  <1>13. QueueIsWaiters' /\ LaneCounts' /\ OwnedQueue'
    BY <1>10, <1>12, LaneByLanePrime
  <1>14. \/ lanes' = lanes /\ Owned(L)
         \/ /\ lanes' = [lanes EXCEPT ![t] = NoLane]
            /\ L.readers = 0 /\ ~L.writer /\ L.queue = <<>>
    <2>1. L.readers \in Nat
      BY <1>5 DEF targetLane
    <2> QED BY <2>1, <1>0, <1>1, <1>2, <1>11 DEF AfterDelete, Owned
  <1>15. TypeOK'
    BY <1>1, <1>2, <1>5, <1>8, <1>14 DEF IInv, TypeOK
  <1>16. OneTargetPerLane'
    BY <1>14 DEF IInv, TypeOK, OneTargetPerLane
  <1>17. RequestLane'
    <2> SUFFICES ASSUME NEW d \in Callers, state'[d] # "idle"
                 PROVE  /\ request'[d].target \in Targets
                        /\ request'[d].lane \in Lanes
                        /\ lanes'[request'[d].target] = request'[d].lane
      BY <1>8 DEF IInv, RequestLane
    <2>1. /\ d # c /\ state[d] # "idle" /\ request'[d] = request[d]
          /\ request[d].target \in Targets /\ request[d].lane \in Lanes
          /\ lanes[request[d].target] = request[d].lane
      BY <1>8 DEF IInv, RequestLane
    <2>2. CASE lanes' = lanes
      BY <2>1, <2>2
    <2>3. CASE /\ lanes' = [lanes EXCEPT ![t] = NoLane]
               /\ L.readers = 0 /\ ~L.writer /\ L.queue = <<>>
      <3>1. ReadersOf(l)' = {} /\ WritersOf(l)' = {}
        <4>1. IsFiniteSet(ReadersOf(l)')
          <5>1. ReadersOf(l)' \in SUBSET Callers
            BY DEF ReadersOf
          <5> QED BY <5>1, CallersFinite, FS_Subset
        <4> QED BY <4>1, <2>3, <1>11, FS_EmptySet
      <3>2. ~(Waiting(d)' /\ request'[d].lane = l)
        BY <2>3, <1>9, <1>12 DEF LaneOK
      <3>3. request'[d].lane # l
        <4>1. Active(d)' \/ Waiting(d)'
          BY <1>8 DEF Active, Waiting, CallerState
        <4> QED BY <4>1, <3>1, <3>2 DEF ReadersOf, WritersOf
      <3>4. request[d].target # t
        BY <3>3, <2>1, <1>2
      <3> QED BY <2>1, <2>3, <3>4 DEF IInv, TypeOK
    <2> QED BY <2>2, <2>3, <1>14
  <1>18. OwnedLane'
    <2> SUFFICES ASSUME NEW u \in Targets, lanes'[u] # NoLane
                 PROVE  Owned(lane'[lanes'[u]])
      BY DEF OwnedLane, Owned
    <2>1. lanes'[u] = lanes[u] /\ (lanes'[u] = l => Owned(L)) /\ lanes[u] \in Lanes
      BY <1>2, <1>14, NoLaneAssumption DEF IInv, TypeOK, OneTargetPerLane
    <2> QED BY <2>1, <1>9 DEF IInv, OwnedLane
  <1> QED BY <1>13, <1>15, <1>16, <1>17, <1>18 DEF IInv

\* Removing a waiter shortens its queue by that one entry, in order.
LEMMA RemoveFacts ==
  ASSUME IInv, NEW c \in Callers, Waiting(c), NEW l \in Lanes, l = request[c].lane
  PROVE  /\ removeRequestLocked(lane[l], c) \in targetLane
         /\ removeRequestLocked(lane[l], c).readers = lane[l].readers
         /\ removeRequestLocked(lane[l], c).writer = lane[l].writer
         /\ QueueWithout(lane[l].queue, removeRequestLocked(lane[l], c).queue, {c})
  <1> DEFINE q == lane[l].queue
             R == removeRequestLocked(lane[l], c)
             k == CHOOSE i \in 1..Len(q) : q[i] = c
             r == [i \in 1..(Len(q) - 1) |-> IF i < k THEN q[i] ELSE q[i + 1]]
  <1>1. lane[l] \in targetLane /\ q \in Seq(Callers) /\ Len(q) \in Nat /\ DOMAIN q = 1..Len(q)
    BY DEF IInv, TypeOK, targetLane
  <1>2. Distinct(q) /\ \E i \in 1..Len(q) : q[i] = c
    BY <1>1 DEF IInv, QueueIsWaiters
  <1>3. k \in 1..Len(q) /\ q[k] = c
    BY <1>2
  <1>4. R = [lane[l] EXCEPT !.queue = r]
    BY DEF removeRequestLocked
  <1> HIDE DEF R, k, q
  <1>5. \A i \in 1..(Len(q) - 1) : r[i] \in Callers
    BY <1>1, <1>3
  <1>6. r \in Seq(Callers) /\ DOMAIN r = 1..(Len(q) - 1)
    BY <1>1, <1>3, <1>5
  <1>7. /\ R = [readers |-> lane[l].readers, writer |-> lane[l].writer, queue |-> r]
        /\ R \in targetLane
    BY <1>1, <1>4, <1>6 DEF targetLane
  <1>8. \A i \in DOMAIN r : \E j \in DOMAIN q : j # k /\ q[j] = r[i] /\ j = IF i < k THEN i ELSE i + 1
    BY <1>1, <1>3, <1>6
  <1>9. \A i \in DOMAIN r : r[i] # c
    BY <1>2, <1>3, <1>1, <1>8 DEF Distinct
  <1>10. ASSUME NEW j \in DOMAIN q, q[j] # c PROVE \E i \in DOMAIN r : r[i] = q[j]
    <2>1. j # k
      BY <1>3, <1>10
    <2>2. CASE j < k
      BY <2>2, <1>1, <1>3, <1>6
    <2>3. CASE j > k
      <3>1. j - 1 \in 1..(Len(q) - 1) /\ ~(j - 1 < k) /\ (j - 1) + 1 = j
        BY <2>3, <1>1, <1>3
      <3> QED BY <3>1, <1>6
    <2> QED BY <2>1, <2>2, <2>3, <1>1, <1>3
  <1>11. Distinct(r)
    <2> SUFFICES ASSUME NEW i \in DOMAIN r, NEW j \in DOMAIN r, r[i] = r[j] PROVE i = j
      BY DEF Distinct
    <2> DEFINE up(x) == IF x < k THEN x ELSE x + 1
    <2>1. up(i) \in DOMAIN q /\ up(j) \in DOMAIN q /\ q[up(i)] = q[up(j)]
      BY <1>1, <1>3, <1>6
    <2>2. up(i) = up(j)
      BY <2>1, <1>2 DEF Distinct
    <2> QED BY <2>2, <1>1, <1>3, <1>6
  <1>12. QueueWithout(q, r, {c})
    <2> HIDE DEF r
    <2> QED BY <1>1, <1>3, <1>8, <1>9, <1>10, <1>11 DEF QueueWithout
  <1> HIDE DEF r
  <1> QED BY <1>7, <1>12 DEF R, q

\* A cancelled request that still waits leaves its queue.
LEMMA AbandonQueuedIInv ==
  ASSUME IInv, NEW c \in Callers, AbandonQueued(c)
  PROVE  IInv'
  <1>0. Waiting(c) /\ state[c] # "idle" /\ ~Active(c)
    BY DEF AbandonQueued, Waiting, Active
  <1>1. PICK l \in Lanes : l = request[c].lane
    BY <1>0 DEF IInv, RequestLane
  <1>2. PICK R : R = removeRequestLocked(lane[l], c)
    OBVIOUS
  <1>3. /\ R \in targetLane /\ R.readers = lane[l].readers /\ R.writer = lane[l].writer
        /\ QueueWithout(lane[l].queue, R.queue, {c})
    BY <1>0, <1>1, <1>2, RemoveFacts
  <1>4. LaneOK(l, lane[l]) /\ lane[l] \in targetLane
    BY LaneByLane DEF IInv, TypeOK
  <1>5. Owned(lane[l]) /\ Owned(R)
    <2>1. \E i \in DOMAIN lane[l].queue : lane[l].queue[i] = c
      BY <1>0, <1>1, <1>4 DEF LaneOK
    <2>2. lane[l].queue # <<>>
      BY <2>1
    <2> QED BY <2>2, <1>3, <1>4 DEF LaneOK, Owned
  <1>6. grantLocked(R) = R /\ Admitted(R) = {}
    <2>1. ~CanGrant(R)
      BY <1>3, <1>5 DEF CanGrant, Owned, targetLane
    <2> QED BY <2>1 DEF grantLocked, Admitted
  <1>7. lane' = [lane EXCEPT ![l] = R] /\ Leave(c, {}) /\ lanes' = lanes
    BY <1>1, <1>2, <1>6 DEF AbandonQueued
  <1>8. /\ ReadersOf(l)' = ReadersOf(l) \ {c} /\ WritersOf(l)' = WritersOf(l) \ {c}
        /\ \A m \in Lanes : m # l =>
               ReadersOf(m)' = ReadersOf(m) /\ WritersOf(m)' = WritersOf(m)
        /\ \A d \in Callers :
               /\ Waiting(d)' <=> Waiting(d) /\ d # c
               /\ d # c => request'[d] = request[d]
               /\ state'[d] = "idle" <=> state[d] = "idle" \/ d = c
        /\ request'[c] = NoRequest
        /\ state' \in [Callers -> CallerState]
        /\ request' \in [Callers -> targetLaneRequest]
        /\ cancelled' \in [Callers -> BOOLEAN]
    <2>1. {} \in SUBSET Callers
      OBVIOUS
    <2>2. PICK A \in SUBSET Callers : A = {}
      BY <2>1
    <2>3. Leave(c, A) /\ \A d \in A : Waiting(d) /\ d # c /\ request[d].lane = l
      BY <2>2, <1>7
    <2>4. /\ ReadersOf(l)' = (ReadersOf(l) \ {c}) \cup {d \in A : ~request[d].write}
          /\ WritersOf(l)' = (WritersOf(l) \ {c}) \cup {d \in A : request[d].write}
          /\ \A m \in Lanes : m # l =>
                 ReadersOf(m)' = ReadersOf(m) /\ WritersOf(m)' = WritersOf(m)
          /\ \A d \in Callers :
                 /\ Waiting(d)' <=> Waiting(d) /\ d # c /\ d \notin A
                 /\ d # c => request'[d] = request[d]
                 /\ state'[d] = "idle" <=> state[d] = "idle" \/ d = c
          /\ request'[c] = NoRequest
          /\ state' \in [Callers -> CallerState]
          /\ request' \in [Callers -> targetLaneRequest]
          /\ cancelled' \in [Callers -> BOOLEAN]
      BY <2>3, <1>0, <1>1, OwnersAfter
    <2>5. {d \in A : ~request[d].write} = {} /\ {d \in A : request[d].write} = {}
      BY <2>2
    <2> QED BY <2>2, <2>4, <2>5
  <1>9. ReadersOf(l)' = ReadersOf(l) /\ WritersOf(l)' = WritersOf(l)
    BY <1>0, <1>8 DEF ReadersOf, WritersOf
  <1>10. lane'[l] = R /\ \A m \in Lanes : m # l => lane'[m] = lane[m]
    BY <1>7 DEF IInv, TypeOK
  <1>11. ASSUME NEW m \in Lanes, m # l PROVE LaneOK(m, lane[m])'
    <2>1. \A d \in Callers : (Waiting(d) /\ request[d].lane = m)
                             <=> (Waiting(d)' /\ request'[d].lane = m)
      BY <1>1, <1>8, <1>11
    <2> QED BY <2>1, <1>8, <1>10, <1>11, OtherLane
  <1>12. LaneOK(l, lane[l])'
    <2>1. \A i \in DOMAIN R.queue : Waiting(R.queue[i])' /\ request'[R.queue[i]].lane = l
      <3> TAKE i \in DOMAIN R.queue
      <3>1. R.queue[i] # c /\ \E j \in DOMAIN lane[l].queue : lane[l].queue[j] = R.queue[i]
        BY <1>3 DEF QueueWithout
      <3>2. R.queue[i] \in Callers /\ Waiting(R.queue[i]) /\ request[R.queue[i]].lane = l
        BY <3>1, <1>4 DEF LaneOK, targetLane
      <3> QED BY <3>1, <3>2, <1>8
    <2>2. \A d \in Callers : Waiting(d)' /\ request'[d].lane = l =>
                \E i \in DOMAIN R.queue : R.queue[i] = d
      BY <1>3, <1>4, <1>8 DEF QueueWithout, LaneOK
    <2>3. Distinct(R.queue)
      BY <1>3 DEF QueueWithout
    <2> QED BY <2>1, <2>2, <2>3, <1>3, <1>4, <1>5, <1>9, <1>10 DEF LaneOK, Owned
  <1>13. QueueIsWaiters' /\ LaneCounts' /\ OwnedQueue'
    BY <1>11, <1>12, LaneByLanePrime
  <1>14. TypeOK'
    BY <1>3, <1>7, <1>8 DEF IInv, TypeOK
  <1>15. RequestLane' /\ OneTargetPerLane'
    BY <1>7, <1>8 DEF IInv, RequestLane, OneTargetPerLane
  <1>16. OwnedLane'
    <2> SUFFICES ASSUME NEW u \in Targets, lanes'[u] # NoLane
                 PROVE  Owned(lane'[lanes'[u]])
      BY DEF OwnedLane, Owned
    <2>1. lanes'[u] = lanes[u] /\ lanes[u] \in Lanes
      BY <1>7 DEF IInv, TypeOK
    <2> QED BY <2>1, <1>5, <1>10 DEF IInv, OwnedLane, Owned
  <1> QED BY <1>13, <1>14, <1>15, <1>16 DEF IInv

\* Every step of the lanes keeps the invariant.
LEMMA NextIInv == IInv /\ [Next]_vars => IInv'
  <1> SUFFICES ASSUME IInv, [Next]_vars PROVE IInv'
    OBVIOUS
  <1>1. ASSUME NEW c \in Callers, NEW t \in Targets, NEW w \in BOOLEAN, acquire(c, t, w)
        PROVE  IInv'
    BY <1>1, acquireIInv
  <1>2. ASSUME NEW c \in Callers, ContextDone(c) \/ ReceiveReady(c) PROVE IInv'
    BY <1>2, QuietIInv
  <1>3. ASSUME NEW c \in Callers, AbandonGranted(c) \/ release(c) PROVE IInv'
    BY <1>3, releaseGrantedIInv DEF AbandonGranted, release, Active
  <1>4. ASSUME NEW c \in Callers, AbandonQueued(c) PROVE IInv'
    BY <1>4, AbandonQueuedIInv
  <1>5. CASE UNCHANGED vars
    <2>1. lanes' = lanes /\ lane' = lane /\ state' = state /\ request' = request
          /\ cancelled' = cancelled
      BY <1>5 DEF vars
    <2>2. \A m \in Lanes : ReadersOf(m)' = ReadersOf(m) /\ WritersOf(m)' = WritersOf(m)
      BY <2>1 DEF ReadersOf, WritersOf, Active
    <2>3. QueueIsWaiters' /\ LaneCounts' /\ OwnedQueue'
      BY <2>1, <2>2 DEF IInv, QueueIsWaiters, LaneCounts, OwnedQueue, Owned, Waiting
    <2>4. TypeOK' /\ RequestLane' /\ OneTargetPerLane' /\ OwnedLane'
      BY <2>1 DEF IInv, TypeOK, RequestLane, OneTargetPerLane, OwnedLane, Owned
    <2> QED BY <2>3, <2>4 DEF IInv
  <1> QED BY <1>1, <1>2, <1>3, <1>4, <1>5 DEF Next, CallerStep

\* The inductive invariant holds in every reachable state.
LEMMA IInvAlways == Spec => []IInv
  BY InitIInv, NextIInv, PTL DEF Spec

-----------------------------------------------------------------------------
(* What the runner relies on *)

\* Every field keeps its type; readers is never negative.
THEOREM LanesTypeCorrect == Spec => []TypeOK
  <1>1. IInv => TypeOK
    BY DEF IInv
  <1> QED BY <1>1, IInvAlways, PTL

\* A write owns its target alone, although lanes are deleted and made again
\* and granted requests are given back by cancelled callers.
THEOREM WritesExclude == Spec => []WriteExclusive
  <1>1. IInv => WriteExclusive
    <2> SUFFICES ASSUME IInv, NEW c \in Callers, NEW d \in Callers, c # d,
                        Active(c), Active(d), request[c].write,
                        request[c].target = request[d].target
                 PROVE  FALSE
      BY DEF WriteExclusive
    <2> DEFINE l == request[c].lane
    <2>1. l \in Lanes /\ request[d].lane = l
      BY DEF IInv, RequestLane, Active
    <2>2. c \in WritersOf(l) /\ lane[l].writer /\ lane[l].readers = 0
      BY <2>1 DEF IInv, LaneCounts, WritersOf
    <2>3. ReadersOf(l) = {}
      BY <2>1, <2>2, OwnersFinite DEF IInv, LaneCounts
    <2>4. d \in ReadersOf(l) \/ d \in WritersOf(l)
      BY <2>1 DEF ReadersOf, WritersOf
    <2> QED BY <2>1, <2>2, <2>3, <2>4 DEF IInv, LaneCounts
  <1> QED BY <1>1, IInvAlways, PTL

\* An owned lane has an owner.
LEMMA OwnerExists ==
  ASSUME IInv, NEW l \in Lanes, Owned(lane[l])
  PROVE  \E d \in Callers : Active(d) /\ request[d].lane = l
  <1>1. ReadersOf(l) # {} \/ WritersOf(l) # {}
    BY OwnersFinite DEF IInv, LaneCounts, Owned
  <1> QED BY <1>1 DEF ReadersOf, WritersOf

\* Nobody waits on a lane that no caller owns.
THEOREM WakeUpsNotLost == Spec => []QueueHasOwner
  <1>1. IInv => QueueHasOwner
    <2> SUFFICES ASSUME IInv, NEW c \in Callers, Waiting(c)
                 PROVE  \E d \in Callers : Active(d) /\ request[d].lane = request[c].lane
      BY DEF QueueHasOwner
    <2>1. request[c].lane \in Lanes
      BY DEF IInv, RequestLane, Waiting
    <2>2. \E i \in DOMAIN lane[request[c].lane].queue : lane[request[c].lane].queue[i] = c
      BY <2>1 DEF IInv, QueueIsWaiters
    <2>3. lane[request[c].lane].queue # <<>>
      BY <2>2
    <2>4. Owned(lane[request[c].lane])
      BY <2>1, <2>3 DEF IInv, OwnedQueue
    <2> QED BY <2>1, <2>4, OwnerExists
  <1> QED BY <1>1, IInvAlways, PTL

\* The map never keeps a lane that no caller owns.
THEOREM LanesNotLeaked == Spec => []NoIdleLane
  <1>1. IInv => NoIdleLane
    <2> SUFFICES ASSUME IInv, NEW t \in Targets, lanes[t] # NoLane
                 PROVE  \E d \in Callers : Active(d) /\ request[d].target = t
      BY DEF NoIdleLane
    <2>1. lanes[t] \in Lanes /\ Owned(lane[lanes[t]])
      BY DEF IInv, TypeOK, OwnedLane
    <2>2. PICK d \in Callers : Active(d) /\ request[d].lane = lanes[t]
      BY <2>1, OwnerExists
    <2>3. request[d].target \in Targets /\ lanes[request[d].target] = lanes[t]
      BY <2>2 DEF IInv, RequestLane, Active
    <2> QED BY <2>2, <2>3 DEF IInv, OneTargetPerLane
  <1> QED BY <1>1, IInvAlways, PTL

=============================================================================
