---------------------------- MODULE EngineProofs ----------------------------
(***************************************************************************)
(* Theorems of module Engine, for any finite set of requests, any targets  *)
(* and any capacity of the limiter.                                        *)
(*                                                                         *)
(* Exclusion is a matter of the lanes: who holds one and who waits for it. *)
(* The invariant ties both to where the requests are, which needs that     *)
(* nobody waits twice, for the lane or for a slot: otherwise a request     *)
(* that was admitted, or that gave up, would be granted a second time.     *)
(*                                                                         *)
(* The audit log that the operations write to is the instance Log of       *)
(* AuditLog.  AckedIsKept needs that events are written in the order of    *)
(* their numbers, so that a file has only older events than the one before *)
(* it (LogOrder, FilesInOrder), that what was acknowledged was synced      *)
(* before (LogSafe), that a file moves to a place that is empty, and that  *)
(* until a rotation is cut short the archives are full without a gap, but  *)
(* for that place (LogFull).                                               *)
(***************************************************************************)
EXTENDS Engine, AuditLogState, FiniteSetTheorems, TLAPS

-----------------------------------------------------------------------------
(* The inductive invariant *)

Distinct(q) == \A i, j \in DOMAIN q : q[i] = q[j] => i = j
Members(q) == {q[i] : i \in DOMAIN q}

\* Whoever is queued for a slot is blocked there.
SlotsInOrder ==
    /\ Distinct(slotQueue)
    /\ \A x \in Members(slotQueue) : req[x].pc = "slot"

\* A lane belongs to requests for it; those in its queue are blocked, and a
\* writer that holds it is alone.
InOrder(l) ==
    /\ Distinct(lane[l].queue)
    /\ \A x \in Members(lane[l].queue) : req[x].pc = "lane" /\ LaneOf(x) = l
    /\ \A h \in lane[l].holders : req[h].pc # "idle" /\ LaneOf(h) = l
    /\ \A g, h \in lane[l].holders : g # h => ~Writes(g)

LanesInOrder == \A l \in LaneKeys : InOrder(l)

\* An operation keeps its lane from the audit of its start to its end.
DispatchedHolds == \A r \in Requests : req[r].pc \in {"started", "remote"} => HasLane(r)

\* What a record says of the audit is true, and says nothing before the end.
Truthful(y) ==
    /\ y.pc # "returning" => ~y.recorded
    /\ y.pc = "returning" /\ y.recorded =>
          /\ y.event # "none"
          /\ y.remote => y.event = y.status /\ y.started = "ok"
          /\ ~y.remote => y.event \in Refusals \cup {"not_dispatched"}

AuditInv == \A r \in Requests : Truthful(req[r])

IInv == TypeOK /\ SlotsInOrder /\ LanesInOrder /\ DispatchedHolds /\ AuditInv

-----------------------------------------------------------------------------
(* Queues *)

\* Those whose turn it is form the front of the queue.
LEMMA TurnsInterval ==
  ASSUME NEW L \in Lane
  PROVE  LET n == Cardinality(Turns(L))
         IN  n \in 0..Len(L.queue) /\ Turns(L) = 1..n
  <1> DEFINE q == L.queue
             P == Turns(L)
             n == Cardinality(P)
  <1>0. q \in Seq(Requests) /\ Len(q) \in Nat /\ DOMAIN q = 1..Len(q)
    BY DEF Lane
  <1>1. IsFiniteSet(1..Len(q)) /\ Cardinality(1..Len(q)) = Len(q)
    BY <1>0, FS_Interval, 1 \in Int, Len(q) \in Int
  <1>2. P \in SUBSET (1..Len(q))
    BY <1>0 DEF Turns
  <1>3. IsFiniteSet(P) /\ n \in Nat /\ n <= Len(q)
    BY <1>0, <1>1, <1>2, FS_Subset, FS_CardinalityType
  <1>4. ASSUME NEW i \in P PROVE i \in 1..n
    <2>1. i \in Nat \ {0} /\ 1..i \in SUBSET P
      <3>1. i \in 1..Len(q) /\ L.holders = {} /\ (i = 1 \/ \A j \in 1..i : ~Writes(q[j]))
        BY <1>0, <1>4 DEF Turns
      <3>2. ASSUME NEW h \in 1..i PROVE h \in P
        <4>1. h \in DOMAIN q /\ (h = 1 \/ i # 1)
          BY <1>0, <3>1
        <4>2. i # 1 => \A j \in 1..h : ~Writes(q[j])
          BY <1>0, <3>1
        <4> QED BY <3>1, <4>1, <4>2 DEF Turns
      <3> QED BY <1>0, <3>1, <3>2
    <2>2. Cardinality(1..i) = i
      BY <2>1, FS_Interval
    <2>3. i <= n
      BY <1>3, <2>1, <2>2, FS_Subset
    <2> QED BY <2>1, <2>3, <1>3
  <1>5. P = 1..n
    <2>1. IsFiniteSet(1..n) /\ Cardinality(1..n) = n
      BY <1>3, FS_Interval
    <2> QED BY <1>4, <2>1, FS_Subset
  <1> QED BY <1>3, <1>5

\* grantLocked admits requests of the queue to a free lane, several only if all
\* of them read, and the rest stays queued.
LEMMA GrantFacts ==
  ASSUME NEW L \in Lane, Distinct(L.queue)
  PROVE  /\ Granted(L) \in Lane /\ Admitted(L) \in SUBSET Requests
         /\ Granted(L).holders = L.holders \cup Admitted(L)
         /\ L.holders # {} => Admitted(L) = {}
         /\ Admitted(L) \in SUBSET Members(L.queue)
         /\ \A a, b \in Admitted(L) : a # b => ~Writes(a)
         /\ Members(Granted(L).queue) \in SUBSET (Members(L.queue) \ Admitted(L))
         /\ Distinct(Granted(L).queue)
  <1> DEFINE q == L.queue
             n == Cardinality(Turns(L))
             p == SubSeq(q, n + 1, Len(q))
  <1>0. q \in Seq(Requests) /\ Len(q) \in Nat /\ DOMAIN q = 1..Len(q) /\ L.holders \in SUBSET Requests
    BY DEF Lane
  <1>1. n \in 0..Len(q) /\ Turns(L) = 1..n
    BY TurnsInterval
  <1>2. Admitted(L) = {q[i] : i \in Turns(L)} /\ Turns(L) \in SUBSET DOMAIN q
    BY DEF Admitted, Turns
  <1>3. Admitted(L) \in SUBSET Requests /\ Admitted(L) \in SUBSET Members(q)
    BY <1>0, <1>2 DEF Members
  <1>4. L.holders # {} => Admitted(L) = {}
    BY <1>2 DEF Turns
  <1>5. ASSUME NEW a \in Admitted(L), NEW b \in Admitted(L), a # b PROVE ~Writes(a)
    <2>1. PICK i \in Turns(L), j \in Turns(L) : a = q[i] /\ b = q[j]
      BY <1>2
    <2>2. i \in 1..Len(q) /\ j \in 1..Len(q) /\ i # j
      BY <1>0, <1>2, <1>5, <2>1
    <2>3. /\ i = 1 \/ \A h \in 1..i : ~Writes(q[h])
          /\ j = 1 \/ \A h \in 1..j : ~Writes(q[h])
      BY <2>1 DEF Turns
    <2>4. CASE i # 1
      BY <2>1, <2>2, <2>3, <2>4
    <2>5. CASE i = 1
      <3>1. j # 1 /\ i \in 1..j
        BY <2>2, <2>5
      <3> QED BY <2>1, <2>3, <3>1
    <2> QED BY <2>4, <2>5
  <1> HIDE DEF n, q
  <1>6. /\ p \in Seq(Requests) /\ DOMAIN p = 1..(Len(q) - n)
        /\ \A i \in 1..(Len(q) - n) : p[i] = q[i + n] /\ i + n \in DOMAIN q
    BY <1>0, <1>1
  <1> HIDE DEF p
  <1>7. Distinct(p)
    <2> SUFFICES ASSUME NEW i \in 1..(Len(q) - n), NEW j \in 1..(Len(q) - n), p[i] = p[j] PROVE i = j
      BY <1>6 DEF Distinct
    <2>1. i + n = j + n
      BY <1>6 DEF Distinct, q
    <2> QED BY <1>0, <1>1, <2>1
  <1>8. ASSUME NEW x \in Members(p) PROVE x \in Members(q) \ Admitted(L)
    <2>1. PICK i \in 1..(Len(q) - n) : x = q[i + n] /\ i + n \in DOMAIN q
      BY <1>6 DEF Members
    <2>2. ASSUME NEW j \in 1..n, q[j] = x PROVE FALSE
      <3>1. j \in DOMAIN q /\ j # i + n
        BY <1>0, <1>1
      <3> QED BY <2>1, <2>2, <3>1 DEF Distinct, q
    <2> QED BY <1>1, <1>2, <2>1, <2>2 DEF Members
  <1>9. Granted(L) = [holders |-> L.holders \cup Admitted(L), queue |-> p]
    BY DEF Granted, p, n, q
  <1>10. Granted(L) \in Lane /\ Granted(L).holders = L.holders \cup Admitted(L) /\ Granted(L).queue = p
    BY <1>0, <1>3, <1>6, <1>9 DEF Lane
  <1>11. Members(p) \in SUBSET (Members(q) \ Admitted(L))
    BY <1>8
  <1> QED BY <1>3, <1>4, <1>5, <1>7, <1>10, <1>11 DEF q

\* A request that leaves a queue is no longer in it.
LEMMA WithoutFacts ==
  ASSUME NEW q \in Seq(Requests), Distinct(q), NEW r
  PROVE  /\ Without(q, r) \in Seq(Requests) /\ Distinct(Without(q, r))
         /\ Members(Without(q, r)) \in SUBSET (Members(q) \ {r})
  <1> DEFINE k == CHOOSE i \in DOMAIN q : q[i] = r
             p == [i \in 1..(Len(q) - 1) |-> IF i < k THEN q[i] ELSE q[i + 1]]
  <1>0. Len(q) \in Nat /\ DOMAIN q = 1..Len(q)
    OBVIOUS
  <1>1. CASE \E i \in DOMAIN q : q[i] = r
    <2>1. k \in 1..Len(q) /\ q[k] = r
      BY <1>0, <1>1
    <2>2. Without(q, r) = p
      BY <1>1 DEF Without
    <2> DEFINE up(i) == IF i < k THEN i ELSE i + 1
    <2> HIDE DEF k
    <2>3. \A i \in 1..(Len(q) - 1) : up(i) \in 1..Len(q) /\ up(i) # k /\ p[i] = q[up(i)]
      BY <1>0, <2>1
    <2>4. p \in Seq(Requests) /\ DOMAIN p = 1..(Len(q) - 1)
      <3>1. \A i \in 1..(Len(q) - 1) : p[i] \in Requests
        BY <1>0, <2>3
      <3> QED BY <1>0, <2>1, <3>1
    <2> HIDE DEF p
    <2>5. Distinct(p)
      <3> SUFFICES ASSUME NEW i \in 1..(Len(q) - 1), NEW j \in 1..(Len(q) - 1), p[i] = p[j] PROVE i = j
        BY <2>4 DEF Distinct
      <3>1. up(i) = up(j)
        BY <1>0, <2>3 DEF Distinct
      <3> QED BY <1>0, <2>1, <3>1
    <2>6. ASSUME NEW x \in Members(p) PROVE x \in Members(q) \ {r}
      <3>1. PICK i \in 1..(Len(q) - 1) : x = p[i]
        BY <2>4 DEF Members
      <3> HIDE DEF up
      <3>2. x = q[up(i)] /\ up(i) \in DOMAIN q /\ up(i) # k
        BY <1>0, <2>3, <3>1
      <3>3. x # r
        BY <1>0, <2>1, <3>2 DEF Distinct
      <3> QED BY <3>2, <3>3 DEF Members
    <2> QED BY <2>2, <2>4, <2>5, <2>6
  <1>2. CASE ~\E i \in DOMAIN q : q[i] = r
    <2>1. Without(q, r) = q
      BY <1>2 DEF Without
    <2> QED BY <1>2, <2>1 DEF Members
  <1> QED BY <1>1, <1>2

\* A request joins a queue it is not in.
LEMMA AppendFacts ==
  ASSUME NEW q \in Seq(Requests), Distinct(q), NEW r \in Requests, r \notin Members(q)
  PROVE  /\ Append(q, r) \in Seq(Requests) /\ Distinct(Append(q, r))
         /\ Members(Append(q, r)) = Members(q) \cup {r}
  <1> DEFINE p == Append(q, r)
             n == Len(q) + 1
  <1>1. /\ Len(q) \in Nat /\ DOMAIN q = 1..Len(q) /\ p \in Seq(Requests) /\ DOMAIN p = 1..n
        /\ p[n] = r /\ \A i \in 1..Len(q) : p[i] = q[i]
    OBVIOUS
  <1> HIDE DEF p
  <1>2. \A i \in 1..n : i = n \/ i \in 1..Len(q)
    BY <1>1
  <1>3. \A i \in 1..Len(q) : q[i] # r
    BY <1>1 DEF Members
  <1>4. Distinct(p)
    BY <1>1, <1>2, <1>3 DEF Distinct
  <1>5. \A x : x \in Members(p) <=> x \in Members(q) \cup {r}
    BY <1>1, <1>2 DEF Members
  <1> QED BY <1>1, <1>4, <1>5 DEF p

\* The first of a queue leaves it.
LEMMA TailFacts ==
  ASSUME NEW q \in Seq(Requests), Distinct(q), q # <<>>
  PROVE  /\ Tail(q) \in Seq(Requests) /\ Distinct(Tail(q)) /\ Head(q) \in Members(q)
         /\ Members(Tail(q)) \in SUBSET (Members(q) \ {Head(q)})
  <1> DEFINE p == Tail(q)
  <1>1. /\ Len(q) \in Nat \ {0} /\ DOMAIN q = 1..Len(q) /\ p \in Seq(Requests) /\ DOMAIN p = 1..(Len(q) - 1)
        /\ Head(q) = q[1] /\ \A i \in 1..(Len(q) - 1) : p[i] = q[i + 1] /\ i + 1 \in 1..Len(q) /\ i + 1 # 1
    OBVIOUS
  <1> HIDE DEF p
  <1>2. Distinct(p)
    <2> SUFFICES ASSUME NEW i \in 1..(Len(q) - 1), NEW j \in 1..(Len(q) - 1), p[i] = p[j] PROVE i = j
      BY <1>1 DEF Distinct
    <2>1. i + 1 = j + 1
      BY <1>1 DEF Distinct
    <2> QED BY <1>1, <2>1
  <1>3. 1 \in DOMAIN q /\ Head(q) \in Members(q)
    BY <1>1 DEF Members
  <1>4. ASSUME NEW x \in Members(p) PROVE x \in Members(q) \ {Head(q)}
    <2>1. PICK i \in 1..(Len(q) - 1) : x = q[i + 1] /\ i + 1 \in DOMAIN q /\ i + 1 # 1
      BY <1>1 DEF Members
    <2> QED BY <1>1, <1>3, <2>1 DEF Distinct, Members
  <1> QED BY <1>1, <1>2, <1>3, <1>4 DEF p

-----------------------------------------------------------------------------
(* Records *)

LEMMA IdleFacts ==
  Idle \in Request /\ Idle.pc = "idle" /\ Idle.recorded = FALSE
  <1>1. (CHOOSE t \in Targets : TRUE) \in Targets
    BY TargetsAssumption
  <1> QED BY <1>1 DEF Idle, Request, Kinds, SSHKinds

\* Start and the deferred calls clear the record but for its kind and target.
Cleared(pc, k, t) == [Idle EXCEPT !.pc = pc, !.kind = k, !.target = t]

LEMMA ClearedFacts ==
  ASSUME NEW pc \in {"asking", "returning"}, NEW k \in Kinds, NEW t \in Targets, NEW y, y = Cleared(pc, k, t)
  PROVE  y \in Request /\ y.pc = pc /\ y.kind = k /\ y.target = t /\ Truthful(y)
  <1>1. PICK x \in Request : x = Idle /\ x.recorded = FALSE
    BY IdleFacts
  <1>2. y = [x EXCEPT !.pc = pc, !.kind = k, !.target = t]
    BY <1>1 DEF Cleared
  <1>3. y.pc = pc /\ y.kind = k /\ y.target = t /\ y.recorded = FALSE
    BY <1>1, <1>2 DEF Request
  <1>4. y \in Request
    BY <1>2 DEF Request
  <1> QED BY <1>3, <1>4 DEF Truthful

LEMMA EndedFacts ==
  ASSUME TypeOK, NEW r \in Requests, NEW status \in Statuses, NEW event \in Statuses,
         NEW remote \in BOOLEAN, NEW ok \in BOOLEAN, NEW y, y = Ended(r, status, event, remote, ok)
  PROVE  /\ y \in Request /\ y.pc = "returning" /\ y.kind = req[r].kind /\ y.target = req[r].target
         /\ y.status = status /\ (y.remote <=> remote) /\ (y.recorded <=> ok)
         /\ (ok => y.event = event) /\ y.started = req[r].started
  <1>1. req[r] \in Request
    BY DEF TypeOK
  <1>2. PICK e : e = IF ok THEN event ELSE req[r].event
    OBVIOUS
  <1>3. e \in Statuses \cup {"none"} /\ (ok => e = event)
    BY <1>1, <1>2 DEF Request
  <1>4. PICK x \in Request : x = req[r]
    BY <1>1
  <1>5. y = [x EXCEPT !.pc = "returning", !.status = status, !.remote = remote, !.event = e, !.recorded = ok]
    BY <1>2, <1>4 DEF Ended
  <1>6. /\ y \in Request /\ y.pc = "returning" /\ y.kind = x.kind /\ y.target = x.target
        /\ y.status = status /\ (y.remote <=> remote) /\ (y.recorded <=> ok)
        /\ y.event = e /\ y.started = x.started
    BY <1>3, <1>5 DEF Request
  <1> QED BY <1>3, <1>4, <1>6

\* The results of operations that never reached the transport are true.
LEMMA StoppedFacts ==
  ASSUME TypeOK, NEW r \in Requests, NEW ok \in BOOLEAN, NEW y, y = Stopped(r, ok)
  PROVE  /\ y \in Request /\ y.pc = "returning" /\ y.kind = req[r].kind /\ y.target = req[r].target
         /\ Truthful(y)
  <1>0. PICK no \in BOOLEAN : no = FALSE
    OBVIOUS
  <1>1. PICK event \in {"rejected", "not_dispatched"} : y = Ended(r, "not_dispatched", event, no, ok)
    BY <1>0 DEF Stopped
  <1>2. "not_dispatched" \in Statuses /\ event \in Statuses
        /\ event \in Refusals \cup {"not_dispatched"} /\ event # "none"
    BY DEF Statuses, Refusals
  <1>3. /\ y \in Request /\ y.pc = "returning" /\ y.kind = req[r].kind /\ y.target = req[r].target
        /\ (y.remote <=> no) /\ (y.recorded => y.event = event)
    BY <1>1, <1>2, EndedFacts
  <1> QED BY <1>0, <1>2, <1>3 DEF Truthful

-----------------------------------------------------------------------------
(* Steps that leave lanes and limiter alone *)

\* r becomes y: it stays blocked if it was, keeps what its lane depends on or
\* has no lane, and is dispatched only with one.
Becomes(r, y) ==
    /\ y \in Request /\ Truthful(y)
    /\ req' = [req EXCEPT ![r] = y]
    /\ req[r].pc \in {"slot", "lane"} => y.pc = req[r].pc
    /\ y.pc \in {"started", "remote"} => HasLane(r)
    /\ \/ y.kind = req[r].kind /\ y.target = req[r].target /\ y.pc # "idle"
       \/ y.pc \notin {"started", "remote"} /\ (req[r].pc = "idle" \/ (req[r].pc = "returning" /\ ~HasLane(r)))

\* The parts of the invariant about lanes, given what changed of the requests.
Same(x) ==
    /\ req'[x].kind = req[x].kind /\ req'[x].target = req[x].target
    /\ req'[x].pc # "idle" /\ (req[x].pc = "lane" => req'[x].pc = "lane")

LEMMA OthersInOrder ==
  ASSUME NEW l, InOrder(l), lane'[l] = lane[l],
         \A x \in lane[l].holders \cup Members(lane[l].queue) : Same(x)
  PROVE  InOrder(l)'
  <1>1. \A x : Same(x) => LaneOf(x)' = LaneOf(x) /\ (Writes(x)' <=> Writes(x))
    BY DEF Same, LaneOf, Writes
  <1> QED BY <1>1 DEF InOrder, Same

LEMMA BecomesIInv ==
  ASSUME IInv, NEW r \in Requests, NEW y, Becomes(r, y), UNCHANGED <<slots, slotQueue, lane, limit>>,
         sealed' \in BOOLEAN
  PROVE  IInv'
  <1>0. /\ req \in [Requests -> Request] /\ req' \in [Requests -> Request]
        /\ req'[r] = y /\ \A x \in Requests : x # r => req'[x] = req[x]
    BY DEF IInv, TypeOK, Becomes
  <1>1. TypeOK'
    BY <1>0 DEF IInv, TypeOK
  <1>2. /\ slotQueue \in Seq(Requests) /\ \A l \in LaneKeys : lane[l] \in Lane
        /\ Members(slotQueue) \in SUBSET Requests
        /\ \A l \in LaneKeys : lane[l].holders \cup Members(lane[l].queue) \in SUBSET Requests
    BY DEF IInv, TypeOK, Lane, Members
  <1>3. SlotsInOrder'
    BY <1>0, <1>2 DEF IInv, SlotsInOrder, Becomes
  <1>4. LanesInOrder'
    <2> SUFFICES ASSUME NEW l \in LaneKeys PROVE InOrder(l)'
      BY DEF LanesInOrder
    <2>1. InOrder(l)
      BY DEF IInv, LanesInOrder
    <2>2. ASSUME NEW x \in lane[l].holders \cup Members(lane[l].queue) PROVE Same(x)
      <3>1. x \in Requests /\ req[x].pc # "idle" /\ LaneOf(x) = l
            /\ (x \in lane[l].holders \/ req[x].pc = "lane")
        BY <1>2, <2>1, <2>2 DEF InOrder
      <3>2. CASE x = r
        <4>1. ~(req[r].pc = "returning" /\ ~HasLane(r))
          BY <3>1, <3>2 DEF HasLane
        <4> QED BY <1>0, <3>1, <3>2, <4>1 DEF Becomes, Same
      <3>3. CASE x # r
        BY <1>0, <3>1, <3>3 DEF Same
      <3> QED BY <3>2, <3>3
    <2> QED BY <2>1, <2>2, OthersInOrder
  <1>5. DispatchedHolds'
    <2> SUFFICES ASSUME NEW x \in Requests, req'[x].pc \in {"started", "remote"} PROVE HasLane(x)'
      BY DEF DispatchedHolds
    <2>1. CASE x = r
      <3>1. HasLane(r) /\ y.kind = req[r].kind /\ y.target = req[r].target
        BY <1>0, <2>1 DEF Becomes
      <3> QED BY <1>0, <2>1, <3>1 DEF HasLane, LaneOf
    <2>2. CASE x # r
      BY <1>0, <2>2 DEF IInv, DispatchedHolds, HasLane, LaneOf
    <2> QED BY <2>1, <2>2
  <1>6. AuditInv'
    BY <1>0 DEF IInv, AuditInv, Becomes
  <1> QED BY <1>1, <1>3, <1>4, <1>5, <1>6 DEF IInv

LEMMA StartBecomes ==
  ASSUME IInv, NEW r \in Requests, NEW k \in Offered, NEW t \in Targets, Start(r, k, t)
  PROVE  \E y : Becomes(r, y)
  <1>1. k \in Kinds
    BY OfferedAssumption
  <1>2. PICK y : y = Cleared("asking", k, t)
    OBVIOUS
  <1>3. y \in Request /\ y.pc = "asking" /\ Truthful(y)
    BY <1>1, <1>2, ClearedFacts
  <1>4. req' = [req EXCEPT ![r] = y] /\ req[r].pc = "idle"
    BY <1>2 DEF Start, Cleared
  <1> QED BY <1>3, <1>4 DEF Becomes

LEMMA ReturnBecomes ==
  ASSUME IInv, NEW r \in Requests, Return(r)
  PROVE  \E y : Becomes(r, y)
  <1>1. req' = [req EXCEPT ![r] = Idle] /\ req[r].pc = "returning" /\ ~HasLane(r)
    BY DEF Return
  <1>2. Idle \in Request /\ Idle.pc = "idle" /\ Truthful(Idle)
    BY IdleFacts DEF Truthful
  <1> QED BY <1>1, <1>2 DEF Becomes

\* Cancel and the steps towards the dispatch: the context ends, the start is
\* audited, the barrier lets the operation pass.
LEMMA ForwardBecomes ==
  ASSUME IInv, NEW r \in Requests, Cancel(r) \/ AuditStarted(r) \/ Dispatch(r)
  PROVE  \E y : Becomes(r, y)
  <1>0. req \in [Requests -> Request] /\ req[r] \in Request /\ Truthful(req[r])
    BY DEF IInv, TypeOK, AuditInv
  <1>1. PICK x \in Request : x = req[r]
    BY <1>0
  <1>2. CASE Cancel(r)
    <2>1. PICK y : y = [x EXCEPT !.cancelled = TRUE]
      OBVIOUS
    <2>2. /\ y \in Request /\ y.pc = x.pc /\ y.kind = x.kind /\ y.target = x.target
          /\ y.recorded = x.recorded
      BY <2>1 DEF Request
    <2>3. x.pc \notin {"idle", "returning"} /\ ~x.recorded
      BY <1>0, <1>1, <1>2 DEF Cancel, Truthful
    <2>4. req' = [req EXCEPT ![r] = y]
      BY <1>0, <1>1, <1>2, <2>1 DEF Cancel
    <2>5. y.pc \in {"started", "remote"} => HasLane(r)
      BY <1>1, <2>2 DEF IInv, DispatchedHolds
    <2> QED BY <1>1, <2>2, <2>3, <2>4, <2>5 DEF Becomes, Truthful
  <1>3. CASE AuditStarted(r)
    <2>1. PICK outcome \in {"ok", "failed"} :
             req' = [req EXCEPT ![r].pc = "started", ![r].started = outcome]
      BY <1>3 DEF AuditStarted
    <2>2. PICK y : y = [x EXCEPT !.pc = "started", !.started = outcome]
      OBVIOUS
    <2>3. /\ y \in Request /\ y.pc = "started" /\ y.kind = x.kind /\ y.target = x.target
          /\ y.recorded = x.recorded
      BY <2>2 DEF Request
    <2>4. x.pc = "asking" /\ ~x.recorded /\ HasLane(r)
      BY <1>0, <1>1, <1>3 DEF AuditStarted, Truthful, Ready
    <2>5. req' = [req EXCEPT ![r] = y]
      BY <1>0, <1>1, <2>1, <2>2
    <2> QED BY <1>1, <2>3, <2>4, <2>5 DEF Becomes, Truthful
  <1>4. CASE Dispatch(r)
    <2>1. PICK y : y = [x EXCEPT !.pc = "remote"]
      OBVIOUS
    <2>2. /\ y \in Request /\ y.pc = "remote" /\ y.kind = x.kind /\ y.target = x.target
          /\ y.recorded = x.recorded
      BY <2>1 DEF Request
    <2>3. x.pc = "started" /\ ~x.recorded /\ HasLane(r)
      BY <1>0, <1>1, <1>4 DEF Dispatch, Truthful, IInv, DispatchedHolds
    <2>4. req' = [req EXCEPT ![r] = y]
      BY <1>0, <1>1, <1>4, <2>1 DEF Dispatch
    <2> QED BY <1>1, <2>2, <2>3, <2>4 DEF Becomes, Truthful
  <1> QED BY <1>2, <1>3, <1>4

\* An operation that ends while it is blocked nowhere.
LEMMA EndBecomes ==
  ASSUME IInv, NEW r \in Requests, req[r].pc \notin {"slot", "lane"},
         NEW y \in Request, Truthful(y), y.pc = "returning", y.kind = req[r].kind, y.target = req[r].target,
         req' = [req EXCEPT ![r] = y]
  PROVE  Becomes(r, y)
  BY DEF Becomes

\* A Go error makes no result: its record is as it was, with nothing recorded.
LEMMA ErrorFacts ==
  ASSUME NEW x \in Request, Truthful(x), x.pc # "returning", NEW y,
         y = [x EXCEPT !.pc = "returning", !.status = "error"]
  PROVE  /\ y \in Request /\ y.pc = "returning" /\ y.kind = x.kind /\ y.target = x.target
         /\ Truthful(y)
  <1>1. /\ y \in Request /\ y.pc = "returning" /\ y.kind = x.kind /\ y.target = x.target
        /\ y.recorded = x.recorded
    BY DEF Request
  <1> QED BY <1>1 DEF Truthful

LEMMA EndingBecomes ==
  ASSUME IInv, NEW r \in Requests, Rejected(r) \/ Errors(r) \/ StoppedBeforeDispatch(r) \/ RemoteEnds(r)
  PROVE  \E y : Becomes(r, y)
  <1>0. TypeOK /\ req \in [Requests -> Request] /\ req[r] \in Request /\ Truthful(req[r])
    BY DEF IInv, TypeOK, AuditInv
  <1>1. CASE Rejected(r)
    <2>1. PICK status \in Refusing(req[r].kind), ok \in BOOLEAN :
             LET event == IF req[r].kind \in {"file", "deploy"} THEN "rejected" ELSE status
             IN  req' = [req EXCEPT ![r] = Ended(r, status, event, FALSE, ok)]
      BY <1>1 DEF Rejected
    <2>2. status \in Refusals
      BY DEF Refusing, Refusals
    <2>0. PICK no \in BOOLEAN : no = FALSE
      OBVIOUS
    <2>3. PICK event : event = IF req[r].kind \in {"file", "deploy"} THEN "rejected" ELSE status
      OBVIOUS
    <2>4. event \in Refusals /\ event # "none" /\ event \in Statuses /\ status \in Statuses
      BY <2>2, <2>3 DEF Refusals, Statuses
    <2>5. PICK y : y = Ended(r, status, event, no, ok)
      OBVIOUS
    <2>6. /\ y \in Request /\ y.pc = "returning" /\ y.kind = req[r].kind /\ y.target = req[r].target
          /\ (y.remote <=> no) /\ (y.recorded => y.event = event)
      BY <1>0, <2>4, <2>5, EndedFacts
    <2>7. Truthful(y)
      BY <2>0, <2>4, <2>6 DEF Truthful
    <2>8. req' = [req EXCEPT ![r] = y] /\ req[r].pc = "asking"
      BY <1>1, <2>0, <2>1, <2>3, <2>5 DEF Rejected, Reviewed
    <2> QED BY <2>6, <2>7, <2>8, EndBecomes
  <1>2. CASE Errors(r)
    <2>1. PICK x \in Request : x = req[r]
      BY <1>0
    <2>2. PICK y : y = [x EXCEPT !.pc = "returning", !.status = "error"]
      OBVIOUS
    <2>3. x.pc = "asking" /\ req' = [req EXCEPT ![r] = y]
      BY <1>0, <1>2, <2>1, <2>2 DEF Errors, Reviewed
    <2>4. /\ y \in Request /\ y.pc = "returning" /\ y.kind = x.kind /\ y.target = x.target
          /\ Truthful(y)
      BY <1>0, <2>1, <2>2, <2>3, ErrorFacts
    <2> QED BY <2>1, <2>3, <2>4, EndBecomes
  <1>3. CASE StoppedBeforeDispatch(r)
    <2>0. PICK ok \in BOOLEAN : req' = [req EXCEPT ![r] = Stopped(r, ok)]
      BY <1>3 DEF StoppedBeforeDispatch
    <2>1. PICK y : y = Stopped(r, ok) /\ req' = [req EXCEPT ![r] = y]
      BY <2>0
    <2>2. req[r].pc \in {"asking", "started"}
      BY <1>3 DEF StoppedBeforeDispatch
    <2> QED BY <1>0, <2>1, <2>2, StoppedFacts, EndBecomes
  <1>4. CASE RemoteEnds(r)
    <2>1. PICK status \in Answers(req[r].kind), ok \in BOOLEAN :
             req' = [req EXCEPT ![r] =
                [Ended(r, status, status, status # "not_dispatched", ok) EXCEPT !.recorded = Recorded(r, ok)]]
      BY <1>4 DEF RemoteEnds
    <2>2. status \in Statuses /\ status # "none"
      BY DEF Answers, Statuses
    <2>3. PICK ran \in BOOLEAN, rec \in BOOLEAN : /\ ran = (status # "not_dispatched")
                                                  /\ rec = Recorded(r, ok)
      BY DEF Recorded
    <2>4. PICK x : x = Ended(r, status, status, ran, ok)
      OBVIOUS
    <2>5. /\ x \in Request /\ x.pc = "returning" /\ x.kind = req[r].kind /\ x.target = req[r].target
          /\ x.status = status /\ (x.remote <=> ran) /\ (ok => x.event = status) /\ x.started = req[r].started
      BY <1>0, <2>2, <2>4, EndedFacts
    <2>6. PICK y : y = [x EXCEPT !.recorded = rec]
      OBVIOUS
    <2>7. /\ y \in Request /\ y.pc = "returning" /\ y.kind = x.kind /\ y.target = x.target
          /\ y.status = x.status /\ y.remote = x.remote /\ y.event = x.event /\ y.started = x.started
          /\ (y.recorded <=> rec)
      BY <2>5, <2>6 DEF Request
    <2>8. /\ rec => ok /\ req[r].started = "ok"
          /\ ran <=> status # "not_dispatched"
      BY <2>3 DEF Recorded
    <2>9. Truthful(y)
      BY <2>2, <2>5, <2>7, <2>8 DEF Truthful
    <2>10. req' = [req EXCEPT ![r] = y] /\ req[r].pc = "remote"
      BY <1>4, <2>1, <2>3, <2>4, <2>6 DEF RemoteEnds
    <2> QED BY <2>5, <2>7, <2>9, <2>10, EndBecomes
  <1> QED BY <1>1, <1>2, <1>3, <1>4

LEMMA LocalIInv ==
  ASSUME IInv, NEW r \in Requests,
         \/ \E k \in Offered, t \in Targets : Start(r, k, t)
         \/ Cancel(r) \/ AuditStarted(r) \/ Dispatch(r)
         \/ Rejected(r) \/ Errors(r) \/ StoppedBeforeDispatch(r) \/ RemoteEnds(r) \/ Return(r)
  PROVE  IInv'
  <1>1. UNCHANGED <<slots, slotQueue, lane, sealed, limit>>
    BY DEF Start, Cancel, AuditStarted, Dispatch, Rejected, Errors, StoppedBeforeDispatch, RemoteEnds, Return
  <1>2. PICK y : Becomes(r, y)
    BY StartBecomes, ReturnBecomes, ForwardBecomes, EndingBecomes
  <1>3. sealed' \in BOOLEAN
    BY <1>1 DEF IInv, TypeOK
  <1> QED BY <1>1, <1>2, <1>3, BecomesIInv

-----------------------------------------------------------------------------
(* Waking others *)

LEMMA LaneOfType ==
  ASSUME TypeOK, NEW r \in Requests
  PROVE  LaneOf(r) \in LaneKeys /\ lane[LaneOf(r)] \in Lane /\ req[r].kind \in Kinds /\ req[r].target \in Targets
  <1>1. req[r].kind \in Kinds /\ req[r].target \in Targets
    BY DEF TypeOK, Request
  <1>2. LaneOf(r) \in LaneKeys
    BY <1>1 DEF LaneOf, LaneKey, LaneKeys, Protocols
  <1> QED BY <1>1, <1>2 DEF TypeOK

\* One lane changes, and with it only requests for that lane.
LEMMA LaneChanges ==
  ASSUME TypeOK, LanesInOrder, NEW k \in LaneKeys, NEW M \in Lane, lane' = [lane EXCEPT ![k] = M],
         \A x \in Requests : LaneOf(x) # k => req'[x] = req[x],
         Distinct(M.queue),
         \A x \in Members(M.queue) : req'[x].pc = "lane" /\ LaneOf(x)' = k,
         \A h \in M.holders : req'[h].pc # "idle" /\ LaneOf(h)' = k,
         \A g, h \in M.holders : g # h => ~Writes(g)'
  PROVE  LanesInOrder' /\ lane' \in [LaneKeys -> Lane]
  <1>0. lane \in [LaneKeys -> Lane] /\ lane'[k] = M /\ lane' \in [LaneKeys -> Lane]
    BY DEF TypeOK
  <1> SUFFICES ASSUME NEW l \in LaneKeys PROVE InOrder(l)'
    BY <1>0 DEF LanesInOrder
  <1>1. CASE l = k
    BY <1>0, <1>1 DEF InOrder
  <1>2. CASE l # k
    <2>1. InOrder(l) /\ lane'[l] = lane[l]
      BY <1>0, <1>2 DEF LanesInOrder
    <2>2. lane[l].holders \cup Members(lane[l].queue) \in SUBSET Requests
      BY <1>0 DEF Lane, Members
    <2>3. ASSUME NEW x \in lane[l].holders \cup Members(lane[l].queue) PROVE Same(x)
      <3>1. x \in Requests /\ LaneOf(x) = l /\ req[x].pc # "idle"
        BY <2>1, <2>2, <2>3 DEF InOrder
      <3> QED BY <1>2, <3>1 DEF Same
    <2> QED BY <2>1, <2>3, OthersInOrder
  <1> QED BY <1>1, <1>2

\* r ends or unwinds, and the blocked requests in S run again.
LEMMA WakeFacts ==
  ASSUME TypeOK, AuditInv, NEW r \in Requests, NEW S \in SUBSET Requests, r \notin S,
         \A x \in S : req[x].pc \in {"slot", "lane"},
         NEW y \in Request, Truthful(y), y.pc = "returning", y.kind = req[r].kind, y.target = req[r].target,
         req' = [Awake(S) EXCEPT ![r] = y]
  PROVE  /\ req' \in [Requests -> Request] /\ AuditInv' /\ req'[r].pc = "returning"
         /\ \A x \in Requests : req'[x].kind = req[x].kind /\ req'[x].target = req[x].target
         /\ \A x \in Requests : x \notin S \cup {r} => req'[x] = req[x]
         /\ \A x \in S : req'[x].pc = "asking"
  <1>0. req \in [Requests -> Request] /\ \A x \in Requests : Truthful(req[x])
    BY DEF TypeOK, AuditInv
  <1>1. ASSUME NEW x \in Request, Truthful(x), x.pc # "returning", NEW z, z = [x EXCEPT !.pc = "asking"]
        PROVE  z \in Request /\ z.pc = "asking" /\ z.kind = x.kind /\ z.target = x.target /\ Truthful(z)
    <2>1. z \in Request /\ z.pc = "asking" /\ z.kind = x.kind /\ z.target = x.target /\ z.recorded = x.recorded
      BY <1>1 DEF Request
    <2> QED BY <1>1, <2>1 DEF Truthful
  <1>2. /\ req' = [x \in Requests |-> IF x = r THEN y ELSE IF x \in S THEN [req[x] EXCEPT !.pc = "asking"] ELSE req[x]]
    BY DEF Awake
  <1>3. ASSUME NEW x \in S
        PROVE  /\ req'[x] \in Request /\ req'[x].pc = "asking" /\ Truthful(req'[x])
               /\ req'[x].kind = req[x].kind /\ req'[x].target = req[x].target
    <2>1. x # r /\ x \in Requests /\ req[x] \in Request /\ Truthful(req[x]) /\ req[x].pc # "returning"
      BY <1>0, <1>3
    <2>2. PICK u : u = req[x]
      OBVIOUS
    <2>3. PICK z : z = [u EXCEPT !.pc = "asking"]
      OBVIOUS
    <2>4. req'[x] = z
      BY <1>2, <1>3, <2>1, <2>2, <2>3
    <2>5. z \in Request /\ z.pc = "asking" /\ z.kind = u.kind /\ z.target = u.target /\ Truthful(z)
      BY <1>1, <2>1, <2>2, <2>3
    <2> QED BY <2>2, <2>4, <2>5
  <1>4. req'[r] = y /\ \A x \in Requests : x \notin S \cup {r} => req'[x] = req[x]
    BY <1>2
  <1>5. \A x \in Requests : req'[x] \in Request /\ Truthful(req'[x])
    BY <1>0, <1>3, <1>4
  <1>6. DOMAIN req' = Requests /\ req' = [x \in Requests |-> req'[x]]
    BY <1>2
  <1>7. req' \in [Requests -> Request]
    BY <1>5, <1>6
  <1>8. \A x \in Requests : req'[x].kind = req[x].kind /\ req'[x].target = req[x].target
    BY <1>3, <1>4
  <1> QED BY <1>3, <1>4, <1>5, <1>7, <1>8 DEF AuditInv

\* The parts of the invariant that follow when only r and blocked requests run.
LEMMA StillHolds ==
  ASSUME DispatchedHolds, NEW r \in Requests, NEW S \in SUBSET Requests, req'[r].pc = "returning",
         \A x \in S : req'[x].pc \in {"asking", "slot", "lane"},
         \A x \in Requests : x \notin S \cup {r} => req'[x] = req[x],
         \A x \in Requests : x # r /\ HasLane(x) => x \in lane'[LaneOf(x)].holders
  PROVE  DispatchedHolds'
  <1> SUFFICES ASSUME NEW x \in Requests, req'[x].pc \in {"started", "remote"} PROVE HasLane(x)'
    BY DEF DispatchedHolds
  <1>1. x \notin S \cup {r} /\ req'[x] = req[x]
    OBVIOUS
  <1>2. HasLane(x) /\ x # r
    BY <1>1 DEF DispatchedHolds
  <1> QED BY <1>1, <1>2 DEF HasLane, LaneOf

\* A lane after grantLocked, with the admitted running again.
LEMMA GrantInOrder ==
  ASSUME TypeOK, LanesInOrder, DispatchedHolds, NEW r \in Requests, NEW k, k = LaneOf(r), NEW L \in Lane,
         Distinct(L.queue), r \notin Members(L.queue), Members(L.queue) \in SUBSET Members(lane[k].queue),
         lane[k].holders \ {r} \in SUBSET L.holders, L.holders \in SUBSET lane[k].holders,
         lane' = [lane EXCEPT ![k] = Granted(L)],
         req'[r].pc = "returning",
         \A x \in Requests : req'[x].kind = req[x].kind /\ req'[x].target = req[x].target,
         \A x \in Requests : x \notin Admitted(L) \cup {r} => req'[x] = req[x],
         \A x \in Admitted(L) : req'[x].pc = "asking"
  PROVE  LanesInOrder' /\ DispatchedHolds' /\ lane' \in [LaneKeys -> Lane]
  <1> DEFINE A == Admitted(L)
             M == Granted(L)
  <1>0. k \in LaneKeys /\ lane \in [LaneKeys -> Lane] /\ InOrder(k)
    BY LaneOfType DEF TypeOK, LanesInOrder
  <1>1. /\ M \in Lane /\ A \in SUBSET Requests /\ M.holders = L.holders \cup A /\ (L.holders # {} => A = {})
        /\ A \in SUBSET Members(L.queue) /\ \A a, b \in A : a # b => ~Writes(a)
        /\ Members(M.queue) \in SUBSET (Members(L.queue) \ A) /\ Distinct(M.queue)
    BY GrantFacts
  <1> HIDE DEF A, M
  <1>2. \A x \in Requests : LaneOf(x)' = LaneOf(x) /\ (Writes(x)' <=> Writes(x))
    BY DEF LaneOf, Writes
  <1>3. L.holders \in SUBSET Requests /\ Members(L.queue) \in SUBSET Requests
    BY DEF Lane, Members
  <1>4. ASSUME NEW x \in Members(L.queue) PROVE req[x].pc = "lane" /\ LaneOf(x) = k /\ x \in Requests /\ x # r
    BY <1>0, <1>3, <1>4 DEF InOrder
  <1>5. ASSUME NEW x \in L.holders PROVE req[x].pc # "idle" /\ LaneOf(x) = k /\ x \in Requests
    BY <1>0, <1>3, <1>5 DEF InOrder
  <1>6. \A x \in Requests : LaneOf(x) # k => req'[x] = req[x]
    BY <1>1, <1>4 DEF A
  <1>7. ASSUME NEW x \in Members(M.queue) PROVE req'[x].pc = "lane" /\ LaneOf(x)' = k
    <2>1. x \in Members(L.queue) /\ x \notin A
      BY <1>1, <1>7
    <2>2. req'[x] = req[x]
      BY <1>4, <2>1 DEF A
    <2> QED BY <1>2, <1>4, <2>1, <2>2
  <1>8. ASSUME NEW h \in M.holders PROVE req'[h].pc # "idle" /\ LaneOf(h)' = k
    <2>1. CASE h \in A
      BY <1>1, <1>2, <1>4, <2>1 DEF A
    <2>2. CASE h \notin A
      BY <1>1, <1>2, <1>5, <1>8, <2>2 DEF A
    <2> QED BY <2>1, <2>2
  <1>9. ASSUME NEW g \in M.holders, NEW h \in M.holders, g # h PROVE ~Writes(g)'
    <2>1. g \in Requests /\ ~Writes(g)
      <3>1. CASE L.holders = {}
        BY <1>1, <1>9, <3>1
      <3>2. CASE L.holders # {}
        BY <1>0, <1>1, <1>3, <1>9, <3>2 DEF InOrder
      <3> QED BY <3>1, <3>2
    <2> QED BY <1>2, <2>1
  <1>10. lane'[k] = M /\ lane' = [lane EXCEPT ![k] = M] /\ \A l \in LaneKeys : l # k => lane'[l] = lane[l]
    BY <1>0 DEF M
  <1>11. LanesInOrder' /\ lane' \in [LaneKeys -> Lane]
    BY <1>0, <1>1, <1>6, <1>7, <1>8, <1>9, <1>10, LaneChanges
  <1>12. ASSUME NEW x \in Requests, x # r, HasLane(x) PROVE x \in lane'[LaneOf(x)].holders
    <2>1. LaneOf(x) \in LaneKeys
      BY LaneOfType
    <2> QED BY <1>1, <1>10, <1>12, <2>1 DEF HasLane
  <1>13. DispatchedHolds'
    BY <1>1, <1>12, StillHolds DEF A
  <1> QED BY <1>11, <1>13

-----------------------------------------------------------------------------
(* The limiter and the lanes *)

\* The limiter is not over its capacity.
LEMMA SlotsFinite ==
  ASSUME TypeOK
  PROVE  /\ IsFiniteSet(slots) /\ Cardinality(slots) \in Nat /\ limit \in Nat
         /\ \A r \in slots : Cardinality(slots \ {r}) = Cardinality(slots) - 1
         /\ \A r \in Requests : r \notin slots => Cardinality(slots \cup {r}) = Cardinality(slots) + 1
         /\ \A r \in slots, n \in Requests : Cardinality((slots \ {r}) \cup {n}) <= limit
  <1>1. slots \in SUBSET Requests /\ Cardinality(slots) <= limit /\ limit \in Nat
    BY ConcurrenciesAssumption DEF TypeOK
  <1>2. IsFiniteSet(slots) /\ Cardinality(slots) \in Nat
    BY <1>1, RequestsAssumption, FS_Subset, FS_CardinalityType
  <1>3. \A r \in slots : Cardinality(slots \ {r}) = Cardinality(slots) - 1
    BY <1>2, FS_RemoveElement
  <1>4. \A r \in Requests : r \notin slots => Cardinality(slots \cup {r}) = Cardinality(slots) + 1
    BY <1>2, FS_AddElement
  <1>5. ASSUME NEW r \in slots, NEW n \in Requests PROVE Cardinality((slots \ {r}) \cup {n}) <= limit
    <2> DEFINE T == slots \ {r}
    <2>1. IsFiniteSet(T) /\ Cardinality(T) \in Nat /\ Cardinality(T) = Cardinality(slots) - 1
      BY <1>2, <1>3, FS_Subset, FS_CardinalityType
    <2> HIDE DEF T
    <2>2. Cardinality(T \cup {n}) = Cardinality(T) \/ Cardinality(T \cup {n}) = Cardinality(T) + 1
      BY <2>1, FS_AddElement
    <2>3. Cardinality(T \cup {n}) <= limit
      BY <1>1, <1>2, <2>1, <2>2
    <2> QED BY <2>3 DEF T
  <1> QED BY <1>1, <1>2, <1>3, <1>4, <1>5

\* A request is blocked: only its pc changes.
LEMMA BlocksFacts ==
  ASSUME TypeOK, AuditInv, NEW r \in Requests, req[r].pc = "asking", NEW where \in {"slot", "lane"},
         req' = [req EXCEPT ![r].pc = where]
  PROVE  /\ req' \in [Requests -> Request] /\ AuditInv' /\ req'[r].pc = where
         /\ \A x \in Requests : req'[x].kind = req[x].kind /\ req'[x].target = req[x].target
         /\ \A x \in Requests : x # r => req'[x] = req[x]
  <1>1. PICK u \in Request : u = req[r] /\ Truthful(u) /\ u.pc = "asking"
    BY DEF TypeOK, AuditInv
  <1>2. PICK z : z = [u EXCEPT !.pc = where]
    OBVIOUS
  <1>3. z \in Request /\ z.pc = where /\ z.kind = u.kind /\ z.target = u.target /\ z.recorded = u.recorded
    BY <1>2 DEF Request
  <1>4. Truthful(z)
    BY <1>1, <1>3 DEF Truthful
  <1>5. req \in [Requests -> Request] /\ req' = [req EXCEPT ![r] = z]
    BY <1>1, <1>2 DEF TypeOK
  <1> QED BY <1>1, <1>3, <1>4, <1>5 DEF AuditInv

LEMMA AskSlotIInv ==
  ASSUME IInv, NEW r \in Requests, AskSlot(r)
  PROVE  IInv'
  <1>0. /\ TypeOK /\ SlotsInOrder /\ LanesInOrder /\ DispatchedHolds /\ AuditInv
        /\ req[r].pc = "asking" /\ r \notin slots /\ UNCHANGED <<lane, sealed, limit>>
    BY DEF IInv, AskSlot, NeedsSlot, HasSlot
  <1>1. CASE SlotFree
    <2>1. slots' = slots \cup {r} /\ UNCHANGED <<req, slotQueue>>
      BY <1>1 DEF AskSlot
    <2>2. Cardinality(slots') <= limit
      BY <1>0, <1>1, <2>1, SlotsFinite DEF SlotFree
    <2>3. TypeOK'
      BY <1>0, <2>1, <2>2 DEF TypeOK
    <2>4. SlotsInOrder' /\ LanesInOrder' /\ DispatchedHolds' /\ AuditInv'
      BY <1>0, <2>1 DEF SlotsInOrder, LanesInOrder, InOrder, DispatchedHolds, HasLane, LaneOf, Writes, AuditInv
    <2> QED BY <2>3, <2>4 DEF IInv
  <1>2. CASE ~SlotFree
    <2>1. slotQueue' = Append(slotQueue, r) /\ req' = [req EXCEPT ![r].pc = "slot"] /\ UNCHANGED slots
      BY <1>2 DEF AskSlot
    <2>2. slotQueue \in Seq(Requests) /\ r \notin Members(slotQueue) /\ Distinct(slotQueue)
      BY <1>0 DEF TypeOK, SlotsInOrder
    <2>3. /\ slotQueue' \in Seq(Requests) /\ Distinct(slotQueue')
          /\ Members(slotQueue') = Members(slotQueue) \cup {r}
      BY <2>1, <2>2, AppendFacts
    <2>4. /\ req' \in [Requests -> Request] /\ AuditInv' /\ req'[r].pc = "slot"
          /\ \A x \in Requests : req'[x].kind = req[x].kind /\ req'[x].target = req[x].target
          /\ \A x \in Requests : x # r => req'[x] = req[x]
      BY <1>0, <2>1, BlocksFacts
    <2>5. TypeOK'
      BY <1>0, <2>1, <2>3, <2>4 DEF TypeOK
    <2>6. SlotsInOrder'
      <3>1. Members(slotQueue) \in SUBSET Requests
        BY <2>2 DEF Members
      <3> QED BY <1>0, <2>3, <2>4, <3>1 DEF SlotsInOrder
    <2>7. LanesInOrder'
      <3> SUFFICES ASSUME NEW l \in LaneKeys PROVE InOrder(l)'
        BY DEF LanesInOrder
      <3>1. InOrder(l) /\ lane[l].holders \cup Members(lane[l].queue) \in SUBSET Requests
        BY <1>0 DEF LanesInOrder, TypeOK, Lane, Members
      <3>2. \A x \in lane[l].holders \cup Members(lane[l].queue) : Same(x)
        BY <1>0, <2>4, <3>1 DEF InOrder, Same
      <3> QED BY <1>0, <3>1, <3>2, OthersInOrder
    <2>8. DispatchedHolds'
      BY <1>0, <2>4 DEF DispatchedHolds, HasLane, LaneOf
    <2> QED BY <2>4, <2>5, <2>6, <2>7, <2>8 DEF IInv
  <1> QED BY <1>1, <1>2

LEMMA AskLaneIInv ==
  ASSUME IInv, NEW r \in Requests, AskLane(r)
  PROVE  IInv'
  <1> DEFINE k == LaneOf(r)
             L == lane[k]
  <1>0. /\ TypeOK /\ SlotsInOrder /\ LanesInOrder /\ DispatchedHolds /\ AuditInv
        /\ req[r].pc = "asking" /\ UNCHANGED <<slots, slotQueue, sealed, limit>>
    BY DEF IInv, AskLane, NeedsLane
  <1>1. /\ k \in LaneKeys /\ L \in Lane /\ InOrder(k) /\ lane \in [LaneKeys -> Lane]
        /\ L.queue \in Seq(Requests) /\ L.holders \in SUBSET Requests
        /\ Members(L.queue) \in SUBSET Requests /\ r \notin Members(L.queue)
    <2>1. k \in LaneKeys /\ L \in Lane /\ InOrder(k) /\ lane \in [LaneKeys -> Lane]
      BY <1>0, LaneOfType DEF LanesInOrder, TypeOK
    <2> QED BY <1>0, <2>1 DEF Lane, Members, InOrder
  <1>2. CASE Immediate(r)
    <2>1. PICK M : M = [L EXCEPT !.holders = @ \cup {r}]
      OBVIOUS
    <2>2. lane' = [lane EXCEPT ![k] = M] /\ UNCHANGED req
      BY <1>2, <2>1 DEF AskLane
    <2> HIDE DEF L
    <2>3. M \in Lane /\ M.holders = L.holders \cup {r} /\ M.queue = L.queue
      BY <1>1, <2>1 DEF Lane
    <2>4. \A g, h \in M.holders : g # h => ~Writes(g)
      BY <1>2, <2>3 DEF Immediate, L
    <2>5. /\ \A x \in Members(M.queue) : req'[x].pc = "lane" /\ LaneOf(x)' = k
          /\ \A h \in M.holders : req'[h].pc # "idle" /\ LaneOf(h)' = k
          /\ Distinct(M.queue) /\ \A g, h \in M.holders : g # h => ~Writes(g)'
      BY <1>0, <1>1, <2>2, <2>3, <2>4 DEF InOrder, LaneOf, Writes, L
    <2> HIDE DEF k
    <2>6. LanesInOrder' /\ lane' \in [LaneKeys -> Lane]
      BY <1>0, <1>1, <2>2, <2>3, <2>5, LaneChanges
    <2>7. TypeOK'
      BY <1>0, <2>2, <2>6 DEF TypeOK
    <2>8. DispatchedHolds'
      <3>1. \A l \in LaneKeys : lane[l].holders \in SUBSET lane'[l].holders
        BY <1>1, <2>2, <2>3 DEF L
      <3>2. \A x \in Requests : LaneOf(x) \in LaneKeys
        BY <1>0, LaneOfType
      <3> QED BY <1>0, <2>2, <3>1, <3>2 DEF DispatchedHolds, HasLane, LaneOf
    <2>9. SlotsInOrder' /\ AuditInv'
      BY <1>0, <2>2 DEF SlotsInOrder, AuditInv
    <2> QED BY <2>6, <2>7, <2>8, <2>9 DEF IInv
  <1>3. CASE ~Immediate(r)
    <2>1. PICK M : M = [L EXCEPT !.queue = Append(@, r)]
      OBVIOUS
    <2>2. lane' = [lane EXCEPT ![k] = M] /\ req' = [req EXCEPT ![r].pc = "lane"]
      BY <1>3, <2>1 DEF AskLane
    <2> HIDE DEF L
    <2>3. PICK q : q = Append(L.queue, r)
      OBVIOUS
    <2>4. q \in Seq(Requests) /\ Distinct(q) /\ Members(q) = Members(L.queue) \cup {r}
      BY <1>1, <2>3, AppendFacts DEF InOrder, L
    <2>5. M \in Lane /\ M.holders = L.holders /\ M.queue = q
      BY <1>1, <2>1, <2>3, <2>4 DEF Lane
    <2>6. /\ req' \in [Requests -> Request] /\ AuditInv' /\ req'[r].pc = "lane"
          /\ \A x \in Requests : req'[x].kind = req[x].kind /\ req'[x].target = req[x].target
          /\ \A x \in Requests : x # r => req'[x] = req[x]
      BY <1>0, <2>2, BlocksFacts
    <2>7. \A x \in Requests : LaneOf(x)' = LaneOf(x) /\ (Writes(x)' <=> Writes(x))
      BY <2>6 DEF LaneOf, Writes
    <2>8. \A x \in Members(M.queue) : req'[x].pc = "lane" /\ LaneOf(x)' = k
      BY <1>1, <2>4, <2>5, <2>6, <2>7 DEF InOrder, L
    <2>9. \A h \in M.holders : req'[h].pc # "idle" /\ LaneOf(h)' = k
      BY <1>1, <2>5, <2>6, <2>7 DEF InOrder, L
    <2>10. \A g, h \in M.holders : g # h => ~Writes(g)'
      BY <1>1, <2>5, <2>7 DEF InOrder, L
    <2>11. \A x \in Requests : LaneOf(x) # k => req'[x] = req[x]
      BY <2>6
    <2> HIDE DEF k
    <2>12. LanesInOrder' /\ lane' \in [LaneKeys -> Lane]
      BY <1>0, <1>1, <2>2, <2>4, <2>5, <2>8, <2>9, <2>10, <2>11, LaneChanges
    <2>13. TypeOK'
      BY <1>0, <2>6, <2>12 DEF TypeOK
    <2>14. DispatchedHolds'
      <3>1. \A l \in LaneKeys : lane[l].holders = lane'[l].holders
        BY <1>1, <2>2, <2>5 DEF L
      <3>2. \A x \in Requests : LaneOf(x) \in LaneKeys
        BY <1>0, LaneOfType
      <3> QED BY <1>0, <2>6, <2>7, <3>1, <3>2 DEF DispatchedHolds, HasLane
    <2>15. SlotsInOrder'
      <3>1. Members(slotQueue) \in SUBSET Requests
        BY <1>0 DEF TypeOK, Members
      <3> QED BY <1>0, <2>6, <3>1 DEF SlotsInOrder
    <2> QED BY <2>6, <2>12, <2>13, <2>14, <2>15 DEF IInv
  <1> QED BY <1>2, <1>3

LEMMA GiveUpSlotIInv ==
  ASSUME IInv, NEW r \in Requests, GiveUpSlot(r)
  PROVE  IInv'
  <1>0. /\ TypeOK /\ SlotsInOrder /\ LanesInOrder /\ DispatchedHolds /\ AuditInv
        /\ req[r].pc \in {"slot", "asking"} /\ UNCHANGED <<slots, lane, sealed, limit>>
        /\ slotQueue' = Without(slotQueue, r)
    BY DEF IInv, GiveUpSlot, NeedsSlot
  <1>a. PICK ok \in BOOLEAN : req' = [req EXCEPT ![r] = Stopped(r, ok)]
    BY DEF GiveUpSlot
  <1>1. PICK y : y = Stopped(r, ok) /\ req' = [req EXCEPT ![r] = y]
    BY <1>a
  <1>2. /\ y \in Request /\ y.pc = "returning" /\ y.kind = req[r].kind /\ y.target = req[r].target
        /\ Truthful(y)
    BY <1>0, <1>1, StoppedFacts
  <1>3. /\ req' \in [Requests -> Request] /\ req'[r] = y /\ \A x \in Requests : x # r => req'[x] = req[x]
    BY <1>0, <1>1, <1>2 DEF TypeOK
  <1>4. slotQueue \in Seq(Requests) /\ Distinct(slotQueue) /\ Members(slotQueue) \in SUBSET Requests
    BY <1>0 DEF TypeOK, SlotsInOrder, Members
  <1>5. /\ slotQueue' \in Seq(Requests) /\ Distinct(slotQueue')
        /\ Members(slotQueue') \in SUBSET (Members(slotQueue) \ {r})
    BY <1>0, <1>4, WithoutFacts
  <1>6. TypeOK'
    BY <1>0, <1>3, <1>5 DEF TypeOK
  <1>7. SlotsInOrder'
    BY <1>0, <1>3, <1>4, <1>5 DEF SlotsInOrder
  <1>8. LanesInOrder'
    <2> SUFFICES ASSUME NEW l \in LaneKeys PROVE InOrder(l)'
      BY DEF LanesInOrder
    <2>1. InOrder(l) /\ lane[l].holders \cup Members(lane[l].queue) \in SUBSET Requests
      BY <1>0 DEF LanesInOrder, TypeOK, Lane, Members
    <2>2. ASSUME NEW x \in lane[l].holders \cup Members(lane[l].queue) PROVE Same(x)
      <3>1. x \in Requests /\ req[x].pc # "idle"
        BY <2>1, <2>2 DEF InOrder
      <3> QED BY <1>0, <1>2, <1>3, <3>1 DEF Same
    <2> QED BY <1>0, <2>1, <2>2, OthersInOrder
  <1>9. DispatchedHolds'
    BY <1>0, <1>2, <1>3 DEF DispatchedHolds, HasLane, LaneOf
  <1>10. AuditInv'
    BY <1>0, <1>2, <1>3 DEF AuditInv
  <1> QED BY <1>6, <1>7, <1>8, <1>9, <1>10 DEF IInv

LEMMA GiveUpLaneIInv ==
  ASSUME IInv, NEW r \in Requests, GiveUpLane(r)
  PROVE  IInv'
  <1> DEFINE k == LaneOf(r)
  <1>0. /\ TypeOK /\ SlotsInOrder /\ LanesInOrder /\ DispatchedHolds /\ AuditInv
        /\ req[r].pc \in {"lane", "asking"} /\ UNCHANGED <<slots, slotQueue, sealed, limit>>
    BY DEF IInv, GiveUpLane, NeedsLane
  <1>1. /\ k \in LaneKeys /\ lane[k] \in Lane /\ InOrder(k)
    BY <1>0, LaneOfType DEF LanesInOrder
  <1>2. PICK L : L = [lane[k] EXCEPT !.queue = Without(@, r)]
    OBVIOUS
  <1>3. PICK ok \in BOOLEAN :
          /\ lane' = [lane EXCEPT ![k] = Granted(L)]
          /\ req' = [Awake(Admitted(L)) EXCEPT ![r] =
                        IF LaneFirst(r) THEN [@ EXCEPT !.pc = "returning", !.status = "error"]
                        ELSE Stopped(r, ok)]
    BY <1>2 DEF GiveUpLane
  <1>4. /\ lane[k].queue \in Seq(Requests) /\ Distinct(lane[k].queue)
        /\ \A x \in Members(lane[k].queue) : req[x].pc = "lane"
    BY <1>1 DEF Lane, InOrder
  <1>5. PICK q : q = Without(lane[k].queue, r)
    OBVIOUS
  <1>6. q \in Seq(Requests) /\ Distinct(q) /\ Members(q) \in SUBSET (Members(lane[k].queue) \ {r})
    BY <1>4, <1>5, WithoutFacts
  <1>7. L \in Lane /\ L.queue = q /\ L.holders = lane[k].holders
    BY <1>1, <1>2, <1>5, <1>6 DEF Lane
  <1>8. Admitted(L) \in SUBSET Requests /\ Admitted(L) \in SUBSET Members(q) /\ r \notin Admitted(L)
        /\ \A x \in Admitted(L) : req[x].pc \in {"slot", "lane"}
    BY <1>4, <1>6, <1>7, GrantFacts
  <1>9. Awake(Admitted(L))[r] = req[r]
    BY <1>8 DEF Awake
  <1>10. PICK u \in Request : u = req[r] /\ Truthful(u) /\ u.pc # "returning"
    BY <1>0 DEF TypeOK, AuditInv
  <1>11. PICK y : y = IF LaneFirst(r) THEN [u EXCEPT !.pc = "returning", !.status = "error"] ELSE Stopped(r, ok)
    OBVIOUS
  <1>12. /\ y \in Request /\ Truthful(y) /\ y.pc = "returning" /\ y.kind = req[r].kind /\ y.target = req[r].target
    <2>1. CASE LaneFirst(r)
      BY <1>10, <1>11, <2>1, ErrorFacts
    <2>2. CASE ~LaneFirst(r)
      BY <1>0, <1>11, <2>2, StoppedFacts
    <2> QED BY <2>1, <2>2
  <1>13. req' = [Awake(Admitted(L)) EXCEPT ![r] = y]
    <2>1. DOMAIN Awake(Admitted(L)) = Requests
      BY DEF Awake
    <2> QED BY <1>3, <1>9, <1>10, <1>11, <2>1
  <1> HIDE DEF k
  <1>14. /\ req' \in [Requests -> Request] /\ AuditInv' /\ req'[r].pc = "returning"
         /\ \A x \in Requests : req'[x].kind = req[x].kind /\ req'[x].target = req[x].target
         /\ \A x \in Requests : x \notin Admitted(L) \cup {r} => req'[x] = req[x]
         /\ \A x \in Admitted(L) : req'[x].pc = "asking"
    BY <1>0, <1>8, <1>12, <1>13, WakeFacts
  <1>15. k = LaneOf(r) /\ lane[k].holders \ {r} \in SUBSET L.holders /\ L.holders \in SUBSET lane[k].holders
         /\ r \notin Members(L.queue) /\ Members(L.queue) \in SUBSET Members(lane[k].queue) /\ Distinct(L.queue)
    BY <1>6, <1>7 DEF k
  <1>16. LanesInOrder' /\ DispatchedHolds' /\ lane' \in [LaneKeys -> Lane]
    BY <1>0, <1>3, <1>7, <1>14, <1>15, GrantInOrder
  <1>17. TypeOK'
    BY <1>0, <1>14, <1>16 DEF TypeOK
  <1>18. SlotsInOrder'
    <2>1. ASSUME NEW x \in Members(slotQueue) PROVE req'[x].pc = "slot"
      <3>1. x \in Requests /\ req[x].pc = "slot"
        BY <1>0, <2>1 DEF TypeOK, SlotsInOrder, Members
      <3>2. x \notin Admitted(L) \cup {r}
        BY <1>0, <1>4, <1>6, <1>8, <3>1
      <3> QED BY <1>14, <3>1, <3>2
    <2> QED BY <1>0, <2>1 DEF SlotsInOrder
  <1> QED BY <1>14, <1>16, <1>17, <1>18 DEF IInv

\* The deferred calls clear r and wake the others.
LEMMA UnwindingFacts ==
  ASSUME TypeOK, NEW r \in Requests, NEW S \in SUBSET Requests, req' = Unwinding(r, S)
  PROVE  \E y \in Request : /\ Truthful(y) /\ y.pc = "returning"
                            /\ y.kind = req[r].kind /\ y.target = req[r].target
                            /\ req' = [Awake(S) EXCEPT ![r] = y]
  <1>1. req[r].kind \in Kinds /\ req[r].target \in Targets
    BY LaneOfType
  <1>2. PICK y : y = Cleared("returning", req[r].kind, req[r].target)
    OBVIOUS
  <1>3. y \in Request /\ Truthful(y) /\ y.pc = "returning" /\ y.kind = req[r].kind /\ y.target = req[r].target
    BY <1>1, <1>2, ClearedFacts
  <1>4. req' = [Awake(S) EXCEPT ![r] = y]
    BY <1>2 DEF Unwinding, Cleared
  <1> QED BY <1>3, <1>4

LEMMA ReleaseSlotIInv ==
  ASSUME IInv, NEW r \in Requests, ReleaseSlot(r)
  PROVE  IInv'
  <1> DEFINE S == NextInLine
  <1>0. /\ TypeOK /\ SlotsInOrder /\ LanesInOrder /\ DispatchedHolds /\ AuditInv
        /\ req[r].pc = "returning" /\ r \in slots /\ UNCHANGED <<lane, sealed, limit>>
        /\ slots' = (slots \ {r}) \cup S /\ req' = Unwinding(r, S)
        /\ slotQueue' = IF S = {} THEN slotQueue ELSE Tail(slotQueue)
    BY DEF IInv, ReleaseSlot, HasSlot
  <1>1. /\ slotQueue \in Seq(Requests) /\ Distinct(slotQueue) /\ Members(slotQueue) \in SUBSET Requests
        /\ \A x \in Members(slotQueue) : req[x].pc = "slot"
    BY <1>0 DEF TypeOK, SlotsInOrder, Members
  <1>2. /\ S \in SUBSET Members(slotQueue) /\ slotQueue' \in Seq(Requests) /\ Distinct(slotQueue')
        /\ Members(slotQueue') \in SUBSET (Members(slotQueue) \ S)
        /\ S = {} \/ \E n \in Requests : S = {n}
    <2>1. CASE slotQueue = <<>>
      BY <1>0, <1>1, <2>1 DEF NextInLine
    <2>2. CASE slotQueue # <<>>
      <3>1. S = {Head(slotQueue)} /\ slotQueue' = Tail(slotQueue)
        BY <1>0, <2>2 DEF NextInLine
      <3> QED BY <1>1, <2>2, <3>1, TailFacts
    <2> QED BY <2>1, <2>2
  <1> HIDE DEF S
  <1>3. S \in SUBSET Requests /\ r \notin S /\ \A x \in S : req[x].pc \in {"slot", "lane"}
    BY <1>0, <1>1, <1>2
  <1>4. PICK y \in Request : /\ Truthful(y) /\ y.pc = "returning"
                             /\ y.kind = req[r].kind /\ y.target = req[r].target
                             /\ req' = [Awake(S) EXCEPT ![r] = y]
    BY <1>0, <1>3, UnwindingFacts
  <1>5. /\ req' \in [Requests -> Request] /\ AuditInv' /\ req'[r].pc = "returning"
        /\ \A x \in Requests : req'[x].kind = req[x].kind /\ req'[x].target = req[x].target
        /\ \A x \in Requests : x \notin S \cup {r} => req'[x] = req[x]
        /\ \A x \in S : req'[x].pc = "asking"
    <2>1. TypeOK /\ AuditInv
      BY <1>0
    <2> QED BY <1>3, <1>4, <2>1, WakeFacts
  <1>6. Cardinality(slots') <= limit /\ slots' \in SUBSET Requests
    <2>1. slots \in SUBSET Requests
      BY <1>0 DEF TypeOK
    <2>2. CASE S = {}
      <3>1. slots' = slots \ {r}
        BY <1>0, <2>2
      <3>2. Cardinality(slots') = Cardinality(slots) - 1 /\ Cardinality(slots) \in Nat /\ limit \in Nat
        BY <1>0, <3>1, SlotsFinite
      <3> QED BY <1>0, <2>1, <3>1, <3>2 DEF TypeOK
    <2>3. ASSUME NEW n \in Requests, S = {n} PROVE Cardinality(slots') <= limit /\ slots' \in SUBSET Requests
      BY <1>0, <2>1, <2>3, SlotsFinite
    <2> QED BY <1>2, <2>2, <2>3
  <1>7. TypeOK'
    BY <1>0, <1>2, <1>5, <1>6 DEF TypeOK
  <1>8. SlotsInOrder'
    <2>1. ASSUME NEW x \in Members(slotQueue') PROVE req'[x].pc = "slot"
      <3>1. x \in Members(slotQueue) /\ x \notin S \cup {r}
        BY <1>0, <1>1, <1>2, <2>1
      <3> QED BY <1>1, <1>5, <3>1
    <2> QED BY <1>2, <2>1 DEF SlotsInOrder
  <1>9. LanesInOrder'
    <2> SUFFICES ASSUME NEW l \in LaneKeys PROVE InOrder(l)'
      BY DEF LanesInOrder
    <2>1. InOrder(l) /\ lane[l].holders \cup Members(lane[l].queue) \in SUBSET Requests
      BY <1>0 DEF LanesInOrder, TypeOK, Lane, Members
    <2>2. ASSUME NEW x \in lane[l].holders \cup Members(lane[l].queue) PROVE Same(x)
      <3>1. x \in Requests /\ req[x].pc # "idle"
        BY <2>1, <2>2 DEF InOrder
      <3>2. x \in S => req[x].pc = "slot"
        BY <1>1, <1>2
      <3>3. CASE x \in S
        BY <1>5, <3>1, <3>2, <3>3 DEF Same
      <3>4. CASE x = r
        BY <1>0, <1>5, <3>1, <3>4 DEF Same
      <3>5. CASE x \notin S \cup {r}
        BY <1>5, <3>1, <3>5 DEF Same
      <3> QED BY <3>3, <3>4, <3>5
    <2> QED BY <1>0, <2>1, <2>2, OthersInOrder
  <1>10. DispatchedHolds'
    <2>1. \A x \in Requests : x # r /\ HasLane(x) => x \in lane'[LaneOf(x)].holders
      BY <1>0 DEF HasLane
    <2> QED BY <1>0, <1>3, <1>5, <2>1, StillHolds
  <1> QED BY <1>5, <1>7, <1>8, <1>9, <1>10 DEF IInv

LEMMA ReleaseLaneIInv ==
  ASSUME IInv, NEW r \in Requests, ReleaseLane(r)
  PROVE  IInv'
  <1> DEFINE k == LaneOf(r)
  <1>0. /\ TypeOK /\ SlotsInOrder /\ LanesInOrder /\ DispatchedHolds /\ AuditInv
        /\ req[r].pc = "returning" /\ UNCHANGED <<slots, slotQueue, sealed, limit>>
    BY DEF IInv, ReleaseLane
  <1>1. k \in LaneKeys /\ lane[k] \in Lane /\ InOrder(k)
    BY <1>0, LaneOfType DEF LanesInOrder
  <1>2. PICK L : L = [lane[k] EXCEPT !.holders = @ \ {r}]
    OBVIOUS
  <1>3. lane' = [lane EXCEPT ![k] = Granted(L)] /\ req' = Unwinding(r, Admitted(L))
    BY <1>2 DEF ReleaseLane
  <1>4. /\ Distinct(lane[k].queue) /\ \A x \in Members(lane[k].queue) : req[x].pc = "lane"
    BY <1>1 DEF InOrder
  <1> HIDE DEF k
  <1>5. L \in Lane /\ L.queue = lane[k].queue /\ L.holders = lane[k].holders \ {r}
    BY <1>1, <1>2 DEF Lane
  <1>6. Admitted(L) \in SUBSET Requests /\ Admitted(L) \in SUBSET Members(lane[k].queue)
    BY <1>4, <1>5, GrantFacts
  <1>7. r \notin Members(lane[k].queue) /\ r \notin Admitted(L)
        /\ \A x \in Admitted(L) : req[x].pc \in {"slot", "lane"}
    BY <1>0, <1>4, <1>6
  <1>8. PICK y \in Request : /\ Truthful(y) /\ y.pc = "returning"
                             /\ y.kind = req[r].kind /\ y.target = req[r].target
                             /\ req' = [Awake(Admitted(L)) EXCEPT ![r] = y]
    BY <1>0, <1>3, <1>6, UnwindingFacts
  <1>9. /\ req' \in [Requests -> Request] /\ AuditInv' /\ req'[r].pc = "returning"
        /\ \A x \in Requests : req'[x].kind = req[x].kind /\ req'[x].target = req[x].target
        /\ \A x \in Requests : x \notin Admitted(L) \cup {r} => req'[x] = req[x]
        /\ \A x \in Admitted(L) : req'[x].pc = "asking"
    BY <1>0, <1>6, <1>7, <1>8, WakeFacts
  <1>10. k = LaneOf(r) /\ lane[k].holders \ {r} \in SUBSET L.holders /\ L.holders \in SUBSET lane[k].holders
         /\ r \notin Members(L.queue) /\ Members(L.queue) \in SUBSET Members(lane[k].queue) /\ Distinct(L.queue)
    BY <1>4, <1>5, <1>7 DEF k
  <1>11. LanesInOrder' /\ DispatchedHolds' /\ lane' \in [LaneKeys -> Lane]
    BY <1>0, <1>3, <1>5, <1>9, <1>10, GrantInOrder
  <1>12. TypeOK'
    BY <1>0, <1>9, <1>11 DEF TypeOK
  <1>13. SlotsInOrder'
    <2>1. ASSUME NEW x \in Members(slotQueue) PROVE req'[x].pc = "slot"
      <3>1. x \in Requests /\ req[x].pc = "slot"
        BY <1>0, <2>1 DEF TypeOK, SlotsInOrder, Members
      <3>2. x \notin Admitted(L) \cup {r}
        BY <1>0, <1>4, <1>6, <3>1
      <3> QED BY <1>9, <3>1, <3>2
    <2> QED BY <1>0, <2>1 DEF SlotsInOrder
  <1> QED BY <1>9, <1>11, <1>12, <1>13 DEF IInv

-----------------------------------------------------------------------------
(* Theorems *)

LEMMA InitIInv == Init => IInv
  <1> SUFFICES ASSUME Init PROVE IInv
    OBVIOUS
  <1>1. /\ req = [r \in Requests |-> Idle] /\ slots = {} /\ slotQueue = <<>> /\ sealed = FALSE
        /\ lane = [l \in LaneKeys |-> [holders |-> {}, queue |-> <<>>]] /\ limit \in Concurrencies
    BY DEF Init
  <1>2. Idle \in Request /\ Idle.pc = "idle" /\ Truthful(Idle)
    BY IdleFacts DEF Truthful
  <1>3. <<>> \in Seq(Requests) /\ Members(<<>>) = {} /\ Distinct(<<>>)
    BY DEF Members, Distinct
  <1>4. \A l \in LaneKeys : lane[l] \in Lane /\ lane[l].holders = {} /\ lane[l].queue = <<>>
    BY <1>1, <1>3 DEF Lane
  <1>5. TypeOK
    <2>1. Cardinality(slots) <= limit
      BY <1>1, FS_EmptySet, ConcurrenciesAssumption
    <2>2. lane \in [LaneKeys -> Lane]
      BY <1>1, <1>4
    <2>3. req \in [Requests -> Request]
      BY <1>1, <1>2
    <2>4. sealed \in BOOLEAN
      BY <1>1
    <2> QED BY <1>1, <1>3, <2>1, <2>2, <2>3, <2>4 DEF TypeOK
  <1>6. SlotsInOrder
    BY <1>1, <1>3 DEF SlotsInOrder
  <1>7. LanesInOrder
    BY <1>3, <1>4 DEF LanesInOrder, InOrder
  <1>8. DispatchedHolds /\ AuditInv
    BY <1>1, <1>2 DEF DispatchedHolds, AuditInv
  <1> QED BY <1>5, <1>6, <1>7, <1>8 DEF IInv

LEMMA NextIInv == IInv /\ [Next]_vars => IInv'
  <1> SUFFICES ASSUME IInv, [Next]_vars PROVE IInv'
    OBVIOUS
  <1>1. ASSUME NEW r \in Requests, RequestStep(r) PROVE IInv'
    BY <1>1, LocalIInv, AskSlotIInv, AskLaneIInv, GiveUpSlotIInv, GiveUpLaneIInv, ReleaseSlotIInv,
       ReleaseLaneIInv DEF RequestStep, Progress
  <1>2. CASE SetSealed \/ UNCHANGED vars
    <2>1. UNCHANGED <<req, slots, slotQueue, lane, limit>> /\ (sealed' = ~sealed \/ sealed' = sealed)
      BY <1>2 DEF SetSealed, vars
    <2>2. sealed' \in BOOLEAN
      BY <2>1 DEF IInv, TypeOK
    <2>3. TypeOK'
      BY <2>1, <2>2 DEF IInv, TypeOK
    <2>4. SlotsInOrder' /\ LanesInOrder' /\ DispatchedHolds' /\ AuditInv'
      BY <2>1 DEF IInv, SlotsInOrder, LanesInOrder, InOrder, DispatchedHolds, HasLane, LaneOf, Writes, AuditInv
    <2> QED BY <2>3, <2>4 DEF IInv
  <1> QED BY <1>1, <1>2 DEF Next

\* The invariant holds always.
LEMMA Always == Spec => []IInv
  BY InitIInv, NextIInv, PTL DEF Spec

\* Requests, slots, queues and lanes stay well-typed, and the limiter of
\* policy.go never has more slots out than its capacity: a slot that is handed
\* on, given up or returned is counted once.
THEOREM TypeCorrect == Spec => []TypeOK
  <1>1. IInv => TypeOK
    BY DEF IInv
  <1> QED BY <1>1, Always, PTL

\* Deployments and scripts are executed alone at their target, for any number
\* of operations, however they wait, are granted, give up and unwind.
THEOREM WritersAreAlone == Spec => []WritesAreAlone
  <1>1. IInv => WritesAreAlone
    <2> SUFFICES ASSUME IInv, NEW r \in Remote, NEW q \in Remote, r # q, LaneOf(r) = LaneOf(q)
                 PROVE  req[r].kind \notin {"deploy", "script"}
      BY DEF WritesAreAlone
    <2>1. r \in Requests /\ q \in Requests /\ HasLane(r) /\ HasLane(q)
      BY DEF Remote, IInv, DispatchedHolds
    <2>2. LaneOf(r) \in LaneKeys
      BY <2>1, LaneOfType DEF IInv
    <2>3. ~Writes(r)
      BY <2>1, <2>2 DEF HasLane, IInv, LanesInOrder, InOrder
    <2> QED BY <2>3 DEF Writes
  <1> QED BY <1>1, Always, PTL

\* AuditOutcome never says "recorded" of an operation whose events are missing
\* from the log or tell another story, whichever audits fail.
THEOREM OutcomesAreTruthful == Spec => []AuditIsTruthful
  <1>1. IInv => AuditIsTruthful
    BY DEF IInv, AuditInv, Truthful, AuditIsTruthful
  <1> QED BY <1>1, Always, PTL

-----------------------------------------------------------------------------
(* The audit log *)

Log == INSTANCE AuditLog

\* Whoever is past the first select holds the gate, and only a caller whose
\* event is queued has one.
LogGate ==
    \A c \in Callers :
        /\ caller[c].pc \in {"check", "send", "wait"} <=> gate = c
        /\ caller[c].event # Log!NoEvent <=> caller[c].pc = "wait"

\* After stop is closed nobody can queue an event, and the writer empties the
\* queue before it ends.
LogClose ==
    /\ closing <=> closer # "idle"
    /\ stop <=> closer \in {"wait", "closed", "timeout"}
    /\ stop => \A c \in Callers : caller[c].pc # "send"
    /\ writer.pc \in {"draining", "ended"} => stop
    /\ writer.pc = "ended" => queue = <<>>
    /\ closer = "closed" => writer.pc = "ended"

\* Event e is newer than all that was ever written.
Newest(e) == (\A d \in dropped : d < e) /\ \A i \in 0..Archives : \A n \in 1..Len(files[i]) : files[i][n] < e

\* Events are queued, taken and written in the order of their numbers.
LogOrder ==
    /\ \A n \in 1..Len(queue) : queue[n] <= queued /\ Newest(queue[n])
    /\ \A m, n \in 1..Len(queue) : m < n => queue[m] < queue[n]
    /\ writer.pc \in Log!Appending <=> writer.event # Log!NoEvent
    /\ writer.pc \in Log!Appending => writer.event <= queued /\ \A n \in 1..Len(queue) : writer.event < queue[n]
    /\ writer.pc \in {"begin", "rotate", "settle", "write"} => Newest(writer.event)
    /\ \A d \in dropped : d <= queued
    /\ \A i \in 0..Archives : \A n \in 1..Len(files[i]) : files[i][n] <= queued

\* A file has only events older than those of the files before it, and removed
\* ones are older still.
FilesInOrder ==
    /\ \A i, j \in 0..Archives : \A m \in 1..Len(files[i]), n \in 1..Len(files[j]) :
          i < j /\ files[i][m] # Log!Torn => files[j][n] < files[i][m]
    /\ \A i \in 0..Archives : \A n \in 1..Len(files[i]), d \in dropped : files[i][n] # Log!Torn => d < files[i][n]

\* e was synced, and is in a file, in a removed one, or in one that a crash took.
Safe(e) ==
    \/ e \in lost
    \/ e \notin dirty /\ (e \in dropped \/ \E i \in 0..Archives : \E n \in 1..Len(files[i]) : files[i][n] = e)

LogSafe ==
    /\ \A e \in acked : Safe(e)
    /\ \A e \in Log!Events : answer[e] = "ok" => Safe(e)
    /\ writer.pc = "sync" => \E n \in 1..Len(files[0]) : files[0][n] = writer.event
    /\ writer.pc = "rotate" /\ writer.index < Archives => files[writer.index + 1] = <<>>

\* The lines of an earlier directory are in order, and none is newer than those
\* that were queued.
Ordered(v) ==
    /\ \A i, j \in 0..Archives : \A m \in 1..Len(v.files[i]), n \in 1..Len(v.files[j]) :
          i < j /\ v.files[i][m] # Log!Torn => v.files[j][n] < v.files[i][m]
    /\ \A i \in 0..Archives : \A n \in 1..Len(v.files[i]), d \in v.dropped : v.files[i][n] # Log!Torn => d < v.files[i][n]
    /\ \A d \in v.dropped : d <= queued
    /\ \A i \in 0..Archives : \A n \in 1..Len(v.files[i]) : v.files[i][n] <= queued

Holds(v, e) == e \in v.dropped \/ \E i \in 0..Archives : \E n \in 1..Len(v.files[i]) : v.files[i][n] = e

\* No earlier directory that a crash may bring back is without e, unless e is fresh.
Covered(e) == e \in fresh \cup lost \/ \A v \in past : Holds(v, e)

LogPast ==
    /\ \A v \in past : Ordered(v)
    /\ \A e \in acked : Covered(e)
    /\ \A e \in Log!Events : answer[e] = "ok" => Covered(e)

\* While an earlier directory may come back, lines go only to a fresh live file.
LogLive ==
    /\ past # {} => fresh # {} \/ files[0] = <<>> \/ Len(files[0]) >= MaxBytes
    /\ writer.pc = "rotate" => Len(files[0]) >= MaxBytes
    /\ writer.pc = "settle" => files[0] = <<>>
    /\ writer.pc = "write" => ~(Len(files[0]) >= MaxBytes)
    /\ writer.pc = "sync" => writer.event \in fresh \/ past = {}

\* The file that a rotation is about to fill, or the live file.
Hole == IF writer.pc = "rotate" /\ writer.index < Archives THEN writer.index + 1 ELSE 0

Empty(i) == files[i] = <<>>
Full(i) == Len(files[i]) >= MaxBytes

\* While no rotation was cut short, archives are full and without a gap.
LogFull ==
    ~troubled =>
        /\ \A i \in 1..Archives : Empty(i) \/ Full(i)
        /\ \A i, j \in 1..Archives : i < j /\ i # Hole /\ Empty(i) => Empty(j)
        /\ writer.pc = "rotate" => Full(0)
        /\ dropped # {} => \A i \in 0..Archives : i # Hole => Full(i)

LogIInv == Log!TypeOK /\ LogGate /\ LogClose /\ LogOrder /\ FilesInOrder /\ LogSafe /\ LogFull /\ LogPast /\ LogLive

-----------------------------------------------------------------------------
(* What changes nothing *)

LEMMA Lengths ==
  ASSUME Log!TypeOK
  PROVE  /\ Len(queue) \in Nat /\ queued \in Nat
         /\ \A n \in 1..Len(queue) : queue[n] \in Log!Events
         /\ \A i \in 0..Archives : /\ Len(files[i]) \in Nat
                                   /\ \A n \in 1..Len(files[i]) : files[i][n] \in Log!Events \cup {Log!Torn}
  BY SizesAssumption DEF Log!TypeOK

LEMMA SameDisk ==
  ASSUME UNCHANGED <<files, dropped>>
  PROVE  /\ FilesInOrder' = FilesInOrder /\ \A e : Newest(e)' = Newest(e)
         /\ \A i \in 0..Archives : Full(i)' = Full(i) /\ Empty(i)' = Empty(i)
         /\ dirty' = dirty /\ lost' = lost => \A e : Safe(e)' = Safe(e)
  BY DEF FilesInOrder, Newest, Full, Empty, Safe

\* The directory may be joined by its earlier contents; more lines may be fresh.
LEMMA PastGrows ==
  ASSUME LogIInv, queued' \in Nat, queued <= queued', past' \subseteq past \cup {Log!Now}, fresh \subseteq fresh', lost' = lost,
         \A e \in acked' : e \in acked \/ (e \in Log!Events /\ answer[e] = "ok"),
         \A e \in Log!Events : answer'[e] = "ok" => answer[e] = "ok" \/ Covered(e)'
  PROVE  LogPast'
  <1>0. Log!TypeOK /\ queued \in Nat
    BY Lengths DEF LogIInv
  <1>1. Ordered(Log!Now)
    BY DEF Ordered, Log!Now, LogIInv, FilesInOrder, LogOrder
  <1>2. ASSUME NEW v \in past' PROVE Ordered(v)'
    <2>1. Ordered(v) /\ v \in Log!View
      <3>1. Log!Now \in Log!View
        BY <1>0 DEF Log!Now, Log!View, Log!TypeOK
      <3> QED BY <1>0, <1>1, <3>1 DEF LogIInv, LogPast, Log!TypeOK
    <2>2. /\ \A d \in v.dropped : d \in Nat
          /\ \A i \in 0..Archives : \A n \in 1..Len(v.files[i]) : v.files[i][n] \in Nat
      BY <2>1, SizesAssumption DEF Log!View, Log!Events, Log!Torn
    <2>3. /\ \A d \in v.dropped : d <= queued'
          /\ \A i \in 0..Archives : \A n \in 1..Len(v.files[i]) : v.files[i][n] <= queued'
      BY <1>0, <2>1, <2>2 DEF Ordered
    <2> QED BY <2>1, <2>3 DEF Ordered
  <1>3. ASSUME NEW e, Safe(e), Covered(e) PROVE Covered(e)'
    <2>1. e \notin lost => Holds(Log!Now, e)
      BY <1>3 DEF Safe, Holds, Log!Now
    <2> QED BY <1>3, <2>1 DEF Covered, Holds
  <1>4. \A e \in acked' : Covered(e)'
    BY <1>3 DEF LogIInv, LogSafe, LogPast
  <1>5. \A e \in Log!Events : answer'[e] = "ok" => Covered(e)'
    BY <1>3 DEF LogIInv, LogSafe, LogPast
  <1> QED BY <1>2, <1>4, <1>5 DEF LogPast

-----------------------------------------------------------------------------
(* Record *)

\* A caller goes on; nothing is queued and the disk is left alone.
LEMMA CallerKeeps ==
  ASSUME LogIInv, NEW c \in Callers, NEW q \in Log!CallerState, caller' = [caller EXCEPT ![c] = q],
         gate' \in Callers \cup {"free"},
         q.pc \in {"check", "send", "wait"} <=> gate' = c,
         \A d \in Callers : d # c => (gate' = d <=> gate = d),
         q.event # Log!NoEvent <=> q.pc = "wait",
         stop => q.pc # "send",
         answer' \in [Log!Events -> {"none", "ok", "error"}], \A e \in Log!Events : answer'[e] = "ok" => answer[e] = "ok",
         expired' \subseteq Log!Events, acked' \subseteq Log!Events, \A e \in acked' : e \in acked \/ answer[e] = "ok",
         UNCHANGED <<queue, queued, files, dirty, past, dropped, fresh, lost, closer, closing, stop, writer, troubled, crashes>>
  PROVE  LogIInv'
  <1>1. caller' \in [Callers -> Log!CallerState] /\ caller'[c] = q /\ \A d \in Callers : d # c => caller'[d] = caller[d]
    BY DEF LogIInv, Log!TypeOK
  <1>2. Log!TypeOK'
    BY <1>1 DEF LogIInv, Log!TypeOK
  <1>3. LogGate'
    BY <1>1 DEF LogIInv, LogGate
  <1>4. LogClose'
    BY <1>1 DEF LogIInv, LogClose
  <1>5. LogOrder' /\ FilesInOrder'
    BY SameDisk DEF LogIInv, LogOrder
  <1>6. LogSafe'
    BY SameDisk DEF LogIInv, Log!TypeOK, LogSafe
  <1>7. LogFull'
    BY SameDisk, SizesAssumption DEF LogIInv, LogFull, Hole
  <1>8. LogPast' /\ LogLive'
    <2>1. queued \in Nat
      BY Lengths DEF LogIInv
    <2> QED BY <2>1, PastGrows DEF LogIInv, LogLive
  <1> QED BY <1>2, <1>3, <1>4, <1>5, <1>6, <1>7, <1>8 DEF LogIInv

LEMMA CallerTypes ==
  ASSUME LogIInv, NEW c \in Callers
  PROVE  /\ caller[c] \in Log!CallerState /\ gate \in Callers \cup {"free"} /\ "free" \notin Callers
         /\ answer \in [Log!Events -> {"none", "ok", "error"}] /\ expired \subseteq Log!Events /\ acked \subseteq Log!Events
         /\ caller[c].pc \in {"check", "send", "wait"} <=> gate = c
         /\ caller[c].event # Log!NoEvent <=> caller[c].pc = "wait"
  BY CallersAssumption DEF LogIInv, Log!TypeOK, LogGate

LEMMA RecordKeeps ==
  ASSUME LogIInv, NEW c \in Callers, Log!Record(c) \/ Log!CheckClosing(c) \/ Log!TakeGate(c)
  PROVE  LogIInv'
  <1>0. /\ caller[c] \in Log!CallerState /\ gate \in Callers \cup {"free"} /\ "free" \notin Callers
        /\ answer \in [Log!Events -> {"none", "ok", "error"}] /\ expired \subseteq Log!Events /\ acked \subseteq Log!Events
        /\ caller[c].pc \in {"check", "send", "wait"} <=> gate = c
        /\ caller[c].event # Log!NoEvent <=> caller[c].pc = "wait"
    BY CallerTypes
  <1>1. PICK pc \in {"gate", "check", "send"} :
           /\ caller' = [caller EXCEPT ![c] = [caller[c] EXCEPT !.pc = pc]]
           /\ pc \in {"check", "send"} <=> gate' = c
           /\ \A d \in Callers : d # c => (gate' = d <=> gate = d)
           /\ gate' \in Callers \cup {"free"}
           /\ pc = "send" => ~closing
           /\ caller[c].pc # "wait"
    BY <1>0 DEF Log!Record, Log!CheckClosing, Log!TakeGate
  <1>2. UNCHANGED <<queue, answer, expired, queued, acked, files, dirty, past, dropped, fresh, lost, closer, closing, stop, writer, troubled, crashes>>
    BY DEF Log!Record, Log!CheckClosing, Log!TakeGate, Log!disk, Log!shutdown
  <1> DEFINE q == [caller[c] EXCEPT !.pc = pc]
  <1>3. q \in Log!CallerState /\ q.pc = pc /\ q.event = Log!NoEvent
    BY <1>0, <1>1 DEF Log!CallerState
  <1>4. stop => pc # "send"
    BY <1>1 DEF LogIInv, LogClose
  <1> HIDE DEF q
  <1>5. caller' = [caller EXCEPT ![c] = q]
    BY <1>1 DEF q
  <1>6. /\ q.pc \in {"check", "send", "wait"} <=> gate' = c
        /\ q.event # Log!NoEvent <=> q.pc = "wait"
    BY <1>1, <1>3
  <1> QED BY <1>0, <1>1, <1>2, <1>3, <1>4, <1>5, <1>6, CallerKeeps

LEMMA ContextDoneKeeps == ASSUME LogIInv, NEW c \in Callers, Log!ContextDone(c) PROVE LogIInv'
  <1>0. /\ caller[c] \in Log!CallerState /\ gate \in Callers \cup {"free"} /\ "free" \notin Callers
        /\ answer \in [Log!Events -> {"none", "ok", "error"}] /\ expired \subseteq Log!Events /\ acked \subseteq Log!Events
        /\ caller[c].pc \in {"check", "send", "wait"} <=> gate = c
        /\ caller[c].event # Log!NoEvent <=> caller[c].pc = "wait"
    BY CallerTypes
  <1> DEFINE q == [caller[c] EXCEPT !.ended = TRUE]
  <1>1. q \in Log!CallerState /\ q.pc = caller[c].pc /\ q.event = caller[c].event
    BY <1>0 DEF Log!CallerState
  <1>2. caller' = [caller EXCEPT ![c] = q]
    BY DEF Log!ContextDone
  <1>3. UNCHANGED <<gate, queue, answer, queued, acked, files, dirty, past, dropped, fresh, lost, closer, closing, stop, writer, troubled, crashes>>
    BY DEF Log!ContextDone, Log!disk, Log!shutdown
  <1>4. expired' \subseteq Log!Events
    <2>1. Log!Outstanding \subseteq Log!Events
      BY DEF Log!Outstanding, LogIInv, Log!TypeOK, Log!WriterState, Log!NoEvent
    <2> QED BY <1>0, <2>1 DEF Log!ContextDone
  <1>5. stop => q.pc # "send"
    BY <1>1 DEF LogIInv, LogClose
  <1> HIDE DEF q
  <1> QED BY <1>0, <1>1, <1>2, <1>3, <1>4, <1>5, CallerKeeps

LEMMA ReturnKeeps ==
  ASSUME LogIInv, NEW c \in Callers, Log!Returned(c), acked' \subseteq Log!Events,
         \A e \in acked' : e \in acked \/ answer[e] = "ok",
         UNCHANGED <<queue, expired, queued, files, dirty, past, dropped, fresh, lost, closer, closing, stop, writer, troubled, crashes>>
  PROVE  LogIInv'
  <1>0. /\ caller[c] \in Log!CallerState /\ gate \in Callers \cup {"free"} /\ "free" \notin Callers
        /\ answer \in [Log!Events -> {"none", "ok", "error"}] /\ expired \subseteq Log!Events /\ acked \subseteq Log!Events
        /\ caller[c].pc \in {"check", "send", "wait"} <=> gate = c
        /\ caller[c].event # Log!NoEvent <=> caller[c].pc = "wait"
    BY CallerTypes
  <1>1. Log!Idle \in Log!CallerState /\ Log!Idle.pc = "idle" /\ Log!Idle.event = Log!NoEvent
    BY DEF Log!Idle, Log!CallerState
  <1>2. /\ caller' = [caller EXCEPT ![c] = Log!Idle]
        /\ answer' = [e \in Log!Events |-> IF e = caller[c].event THEN "none" ELSE answer[e]]
        /\ gate' = IF gate = c THEN "free" ELSE gate
    BY DEF Log!Returned
  <1>3. answer' \in [Log!Events -> {"none", "ok", "error"}] /\ \A e \in Log!Events : answer'[e] = "ok" => answer[e] = "ok"
    BY <1>0, <1>2
  <1>4. /\ gate' \in Callers \cup {"free"} /\ gate' # c
        /\ \A d \in Callers : d # c => (gate' = d <=> gate = d)
    BY <1>0, <1>2
  <1> QED BY <1>0, <1>1, <1>2, <1>3, <1>4, CallerKeeps

LEMMA AnswerKeeps == ASSUME LogIInv, NEW c \in Callers, Log!GiveUp(c) \/ Log!Answered(c) PROVE LogIInv'
  <1>0. caller[c] \in Log!CallerState /\ acked \subseteq Log!Events /\ (caller[c].event # Log!NoEvent <=> caller[c].pc = "wait")
    BY CallerTypes
  <1>1. CASE Log!GiveUp(c)
    BY <1>0, <1>1, ReturnKeeps DEF Log!GiveUp, Log!disk, Log!shutdown
  <1>2. CASE Log!Answered(c)
    <2>1. caller[c].event \in Log!Events
      BY <1>0, <1>2 DEF Log!Answered, Log!CallerState
    <2>2. acked' \subseteq Log!Events /\ \A e \in acked' : e \in acked \/ answer[e] = "ok"
      BY <1>0, <1>2, <2>1 DEF Log!Answered
    <2> QED BY <1>2, <2>2, ReturnKeeps DEF Log!Answered, Log!disk, Log!shutdown
  <1> QED BY <1>1, <1>2

\* An event is queued: it is newer than all others.
LEMMA SendKeeps == ASSUME LogIInv, NEW c \in Callers, Log!Send(c) PROVE LogIInv'
  <1> DEFINE e == queued + 1
             q == [caller[c] EXCEPT !.pc = "wait", !.event = e]
  <1>0. caller[c] \in Log!CallerState /\ caller[c].pc = "send" /\ gate = c /\ ~stop /\ queue \in Seq(Log!Events) /\ Log!TypeOK
    BY CallerTypes DEF Log!Send, LogIInv, LogClose, Log!TypeOK
  <1>1. e \in Log!Events /\ queued \in Nat /\ e # Log!NoEvent
    BY SizesAssumption DEF Log!Send, LogIInv, Log!TypeOK, Log!Events, Log!NoEvent
  <1>2. q \in Log!CallerState /\ q.pc = "wait" /\ q.event = e
    BY <1>0, <1>1 DEF Log!CallerState
  <1>3. /\ caller' = [caller EXCEPT ![c] = q] /\ queue' = Append(queue, e) /\ queued' = e
        /\ expired' \subseteq expired \cup {e} /\ Len(queue) < QueueSize /\ queued < MaxEvents
    BY DEF Log!Send
  <1>4. UNCHANGED <<gate, answer, acked, files, dirty, past, dropped, fresh, lost, closer, closing, stop, writer, troubled, crashes>>
    BY DEF Log!Send, Log!disk, Log!shutdown
  <1> HIDE DEF q
  <1>5. caller' \in [Callers -> Log!CallerState] /\ caller'[c] = q /\ \A d \in Callers : d # c => caller'[d] = caller[d]
    BY <1>2, <1>3 DEF LogIInv, Log!TypeOK
  <1>6. /\ queue' \in Seq(Log!Events) /\ Len(queue') = Len(queue) + 1 /\ queue'[Len(queue) + 1] = e
        /\ \A n \in 1..Len(queue) : queue'[n] = queue[n]
    BY <1>0, <1>1, <1>3
  <1>7. Log!TypeOK'
    <2>1. Len(queue') <= QueueSize /\ queued' \in 0..MaxEvents /\ expired' \subseteq Log!Events
      BY <1>0, <1>1, <1>3, <1>6, SizesAssumption DEF Log!TypeOK, Log!Events
    <2> QED BY <1>0, <1>4, <1>5, <1>6, <2>1 DEF Log!TypeOK
  <1>8. LogGate'
    BY <1>0, <1>1, <1>2, <1>4, <1>5 DEF LogIInv, LogGate
  <1>9. LogClose'
    BY <1>0, <1>2, <1>4, <1>5, <1>6 DEF LogIInv, LogClose
  <1>10. Newest(e)
    <2>1. \A d \in dropped : d \in Nat /\ d <= queued
      BY <1>0 DEF LogIInv, LogOrder, Log!TypeOK, Log!Events
    <2>2. \A i \in 0..Archives : \A n \in 1..Len(files[i]) : files[i][n] \in Nat /\ files[i][n] <= queued
      BY <1>0, Lengths DEF LogIInv, LogOrder, Log!Events, Log!Torn
    <2> QED BY <1>1, <2>1, <2>2 DEF Newest
  <1>11. LogOrder'
    <2>1. \A n \in 1..Len(queue') : n \in 1..Len(queue) \/ n = Len(queue) + 1
      BY <1>0, <1>6
    <2>2. \A n \in 1..Len(queue') : queue'[n] <= e /\ Newest(queue'[n])
      BY <1>0, <1>1, <1>6, <1>10, <2>1, Lengths DEF LogIInv, LogOrder, Log!Events
    <2>3. \A m, n \in 1..Len(queue') : m < n => queue'[m] < queue'[n]
      BY <1>0, <1>1, <1>6, <2>1, Lengths DEF LogIInv, LogOrder, Log!Events
    <2>4. /\ writer.pc \in Log!Appending <=> writer.event # Log!NoEvent
          /\ writer.pc \in Log!Appending => writer.event <= e /\ \A n \in 1..Len(queue') : writer.event < queue'[n]
      <3>1. writer.event \in Nat /\ (writer.pc \in Log!Appending => writer.event <= queued)
        BY <1>0, SizesAssumption DEF LogIInv, LogOrder, Log!TypeOK, Log!WriterState, Log!Events, Log!NoEvent
      <3> QED BY <1>0, <1>1, <1>6, <2>1, <3>1, Lengths DEF LogIInv, LogOrder, Log!Events
    <2>5. (\A d \in dropped : d <= e) /\ \A i \in 0..Archives : \A n \in 1..Len(files[i]) : files[i][n] <= e
      <3>1. \A d \in dropped : d \in Nat /\ d < e
        BY <1>0, <1>10 DEF Newest, Log!TypeOK, Log!Events
      <3>2. \A i \in 0..Archives : \A n \in 1..Len(files[i]) : files[i][n] \in Nat /\ files[i][n] < e
        BY <1>0, <1>10, Lengths DEF Newest, Log!Events, Log!Torn
      <3> QED BY <1>1, <3>1, <3>2
    <2>6. writer.pc \in {"begin", "rotate", "settle", "write"} => Newest(writer.event)
      BY DEF LogIInv, LogOrder
    <2> QED BY <1>3, <1>4, <2>2, <2>3, <2>4, <2>5, <2>6, SameDisk DEF LogOrder
  <1>12. FilesInOrder' /\ LogSafe'
    BY <1>4, SameDisk DEF LogIInv, LogSafe
  <1>13. LogFull'
    BY <1>4, SameDisk, SizesAssumption DEF LogIInv, LogFull, Hole
  <1>14. LogPast'
    <2>1. queued <= queued' /\ queued' \in Nat
      BY <1>1, <1>3
    <2> QED BY <1>4, <2>1, PastGrows
  <1>15. LogLive'
    BY <1>4 DEF LogIInv, LogLive
  <1> QED BY <1>7, <1>8, <1>9, <1>11, <1>12, <1>13, <1>14, <1>15 DEF LogIInv

-----------------------------------------------------------------------------
(* The writer *)

\* The writer goes on, the queue loses its first k events, and the files stay.
LEMMA WriterKeeps ==
  ASSUME LogIInv, NEW w \in Log!WriterState, writer' = w, NEW k \in {0, 1},
         queue' \in Seq(Log!Events), Len(queue') = Len(queue) - k, \A n \in 1..Len(queue') : queue'[n] = queue[n + k],
         answer' \in [Log!Events -> {"none", "ok", "error"}],
         dirty' \subseteq dirty,
         \A e \in Log!Events : answer'[e] = "ok" => answer[e] = "ok" \/ (Safe(e)' /\ Covered(e)'),
         expired' \subseteq Log!Events,
         w.pc \in Log!Appending <=> w.event # Log!NoEvent,
         w.pc \in Log!Appending => w.event <= queued /\ \A n \in 1..Len(queue') : w.event < queue'[n],
         w.pc \in {"begin", "rotate", "settle", "write"} => Newest(w.event),
         w.pc \in {"draining", "ended"} => stop,
         w.pc = "ended" => queue' = <<>>,
         closer = "closed" => w.pc = "ended",
         w.pc \notin {"sync", "settle"}, w.pc = "write" => ~Full(0),
         w.pc = "rotate" => w.index = Archives /\ Full(0),
         troubled' \in BOOLEAN, ~troubled' => ~troubled /\ Hole = 0,
         UNCHANGED <<caller, gate, queued, acked, files, past, dropped, fresh, lost, closer, closing, stop, crashes>>
  PROVE  LogIInv'
  <1>0. Log!TypeOK
    BY DEF LogIInv
  <1>1. Len(queue) \in Nat /\ \A n \in 1..Len(queue') : n + k \in 1..Len(queue)
    BY <1>0, Lengths
  <1>2. Log!TypeOK'
    <2>1. Len(queue') <= QueueSize
      BY <1>0, <1>1, SizesAssumption DEF Log!TypeOK
    <2>2. dirty' \subseteq Log!Events
      BY <1>0 DEF Log!TypeOK
    <2> QED BY <1>0, <2>1, <2>2 DEF Log!TypeOK
  <1>3. LogGate'
    BY DEF LogIInv, LogGate
  <1>4. LogClose'
    BY DEF LogIInv, LogClose
  <1>5. FilesInOrder' /\ \A e : Newest(e)' = Newest(e)
    BY SameDisk DEF LogIInv
  <1>6. LogOrder'
    <2>1. \A n \in 1..Len(queue') : queue'[n] <= queued /\ Newest(queue'[n])
      BY <1>1 DEF LogIInv, LogOrder
    <2>2. \A m, n \in 1..Len(queue') : m < n => queue'[m] < queue'[n]
      <3> SUFFICES ASSUME NEW m \in 1..Len(queue'), NEW n \in 1..Len(queue'), m < n PROVE queue'[m] < queue'[n]
        OBVIOUS
      <3>1. m + k \in 1..Len(queue) /\ n + k \in 1..Len(queue) /\ m + k < n + k
        BY <1>1
      <3> QED BY <3>1 DEF LogIInv, LogOrder
    <2> QED BY <1>5, <2>1, <2>2 DEF LogIInv, LogOrder
  <1>7. \A e : Safe(e) => Safe(e)'
    BY DEF Safe
  <1>8. LogSafe'
    <2>1. \A e \in acked' : Safe(e)'
      BY <1>7 DEF LogIInv, LogSafe
    <2>2. \A e \in Log!Events : answer'[e] = "ok" => Safe(e)'
      BY <1>7 DEF LogIInv, LogSafe
    <2>3. writer'.pc # "sync" /\ (writer'.pc = "rotate" => ~(writer'.index < Archives))
      BY SizesAssumption
    <2> QED BY <2>1, <2>2, <2>3 DEF LogSafe
  <1>9. LogFull'
    <2>1. Hole' = 0
      BY <1>0, SizesAssumption DEF Hole, Log!TypeOK, Log!WriterState
    <2>2. writer'.pc = "rotate" => Full(0)'
      BY SameDisk, SizesAssumption
    <2> QED BY <2>1, <2>2, SameDisk, SizesAssumption DEF LogIInv, LogFull
  <1>10. LogPast'
    <2>1. queued \in Nat
      BY <1>0, Lengths
    <2> QED BY <2>1, PastGrows
  <1>11. LogLive'
    BY DEF LogIInv, LogLive, Full
  <1> QED BY <1>2, <1>3, <1>4, <1>5, <1>6, <1>8, <1>9, <1>10, <1>11 DEF LogIInv

LEMMA ToldIs ==
  ASSUME LogIInv, NEW e \in Log!Events, NEW r \in {"ok", "error"}
  PROVE  /\ Log!Told(e, r) \in [Log!Events -> {"none", "ok", "error"}]
         /\ \A x \in Log!Events : Log!Told(e, r)[x] = "ok" => answer[x] = "ok" \/ (x = e /\ r = "ok")
  BY DEF LogIInv, Log!TypeOK, Log!Told

LEMMA SelectingIs ==
  /\ Log!Selecting \in Log!WriterState /\ Log!Selecting.pc = "select" /\ Log!Selecting.event = Log!NoEvent
  /\ Log!Selecting.pc \notin Log!Appending
  BY SizesAssumption DEF Log!Selecting, Log!WriterState, Log!Appending

\* The events of the queue, and what is left after the first is taken.
LEMMA HeadIs ==
  ASSUME LogIInv, queue # <<>>
  PROVE  /\ Head(queue) \in Log!Events /\ Head(queue) # Log!NoEvent /\ Head(queue) = queue[1]
         /\ Head(queue) <= queued /\ Newest(Head(queue))
         /\ Tail(queue) \in Seq(Log!Events) /\ Len(Tail(queue)) = Len(queue) - 1
         /\ \A n \in 1..Len(Tail(queue)) : Tail(queue)[n] = queue[n + 1]
         /\ \A n \in 1..Len(Tail(queue)) : Head(queue) < Tail(queue)[n]
  <1>1. queue \in Seq(Log!Events)
    BY DEF LogIInv, Log!TypeOK
  <1>2. 1 \in 1..Len(queue) /\ Head(queue) = queue[1] /\ Len(queue) \in Nat
    BY <1>1
  <1>3. /\ Tail(queue) \in Seq(Log!Events) /\ Len(Tail(queue)) = Len(queue) - 1
        /\ \A n \in 1..Len(Tail(queue)) : Tail(queue)[n] = queue[n + 1]
    BY <1>1, <1>2
  <1>4. queue[1] \in Log!Events
    BY <1>1, <1>2
  <1>7. queue[1] # Log!NoEvent
    BY <1>4, SizesAssumption DEF Log!Events, Log!NoEvent
  <1>5. \A n \in 1..Len(Tail(queue)) : n + 1 \in 1..Len(queue) /\ 1 < n + 1
    BY <1>2, <1>3
  <1>6. queue[1] <= queued /\ Newest(queue[1]) /\ \A n \in 1..Len(Tail(queue)) : queue[1] < queue[n + 1]
    BY <1>2, <1>5 DEF LogIInv, LogOrder
  <1> QED BY <1>2, <1>3, <1>4, <1>6, <1>7

LEMMA WriterTakesKeeps == ASSUME LogIInv, Log!WriterTakes \/ Log!rejectQueuedWrites PROVE LogIInv'
  <1>0. Log!TypeOK /\ writer \in Log!WriterState
    BY DEF LogIInv, Log!TypeOK
  <1>1. UNCHANGED <<caller, gate, queued, acked, files, dirty, past, dropped, fresh, lost, closer, closing, stop, troubled, crashes>>
    BY DEF Log!WriterTakes, Log!rejectQueuedWrites, Log!disk, Log!shutdown
  <1>2. troubled \in BOOLEAN /\ expired \subseteq Log!Events /\ answer \in [Log!Events -> {"none", "ok", "error"}] /\ queue \in Seq(Log!Events)
    BY <1>0 DEF Log!TypeOK
  <1>3. writer.pc \in {"select", "draining"} /\ Hole = 0 /\ closer # "closed" /\ (writer.pc = "draining" => stop)
    BY DEF Log!WriterTakes, Log!rejectQueuedWrites, LogIInv, LogClose, Hole
  <1>4. writer.event = Log!NoEvent
    BY <1>3 DEF LogIInv, LogOrder, Log!Appending
  <1>5. CASE queue # <<>>
    <2> DEFINE h == Head(queue)
               w == [pc |-> "begin", event |-> h, index |-> 0]
    <2>1. /\ h \in Log!Events /\ h # Log!NoEvent /\ h <= queued /\ Newest(h)
          /\ Tail(queue) \in Seq(Log!Events) /\ Len(Tail(queue)) = Len(queue) - 1
          /\ \A n \in 1..Len(Tail(queue)) : Tail(queue)[n] = queue[n + 1]
          /\ \A n \in 1..Len(Tail(queue)) : h < Tail(queue)[n]
      BY <1>5, HeadIs
    <2>2. /\ Log!Told(h, "error") \in [Log!Events -> {"none", "ok", "error"}]
          /\ \A x \in Log!Events : Log!Told(h, "error")[x] = "ok" => answer[x] = "ok"
      BY <2>1, ToldIs
    <2>3. w \in Log!WriterState /\ w.pc = "begin" /\ w.event = h
      BY <2>1, SizesAssumption DEF Log!WriterState
    <2>4. /\ queue' = Tail(queue)
          /\ \/ writer' = w /\ UNCHANGED <<answer, expired>>
             \/ /\ writer' = Log!Selecting \/ writer' = writer
                /\ answer' = Log!Told(h, "error") /\ expired' = expired \ {h}
      BY <1>5 DEF Log!WriterTakes, Log!rejectQueuedWrites, Log!Reply
    <2> HIDE DEF h, w
    <2>5. CASE writer' = w /\ UNCHANGED <<answer, expired>>
      BY <1>1, <1>2, <1>3, <2>1, <2>3, <2>4, <2>5, WriterKeeps, SizesAssumption DEF Log!Appending
    <2>6. CASE writer' = Log!Selecting /\ answer' = Log!Told(h, "error") /\ expired' = expired \ {h}
      BY <1>1, <1>2, <1>3, <2>1, <2>2, <2>4, <2>6, SelectingIs, WriterKeeps
    <2>7. CASE writer' = writer /\ answer' = Log!Told(h, "error") /\ expired' = expired \ {h}
      BY <1>0, <1>1, <1>2, <1>3, <1>4, <2>1, <2>2, <2>4, <2>7, WriterKeeps DEF Log!Appending
    <2> QED BY <2>4, <2>5, <2>6, <2>7
  <1>6. CASE queue = <<>>
    <2> DEFINE w == [writer EXCEPT !.pc = "ended"]
    <2>1. w \in Log!WriterState /\ w.pc = "ended" /\ w.event = Log!NoEvent
      BY <1>0, <1>4 DEF Log!WriterState
    <2>2. writer' = w /\ UNCHANGED <<queue, answer, expired>> /\ stop
      BY <1>3, <1>6 DEF Log!WriterTakes, Log!rejectQueuedWrites
    <2> HIDE DEF w
    <2>3. \A n \in 1..Len(queue) : queue[n] = queue[n + 0]
      BY <1>2
    <2>4. Len(queue) = Len(queue) - 0
      BY <1>2
    <2> QED BY <1>1, <1>2, <1>3, <1>6, <2>1, <2>2, <2>3, <2>4, WriterKeeps DEF Log!Appending
  <1> QED BY <1>5, <1>6

\* As WriterKeeps, with the queue left alone.
LEMMA WriterGoesOn ==
  ASSUME LogIInv, NEW w \in Log!WriterState, writer' = w,
         answer' \in [Log!Events -> {"none", "ok", "error"}],
         dirty' \subseteq dirty,
         \A e \in Log!Events : answer'[e] = "ok" => answer[e] = "ok" \/ (Safe(e)' /\ Covered(e)'),
         expired' \subseteq Log!Events,
         w.pc \in Log!Appending <=> w.event # Log!NoEvent,
         w.pc \in Log!Appending => w.event = writer.event /\ writer.pc \in {"begin", "rotate", "settle", "write"},
         w.pc \in {"draining", "ended"} => stop /\ w.pc # "ended",
         w.pc \notin {"sync", "settle"}, w.pc = "write" => ~Full(0), closer # "closed",
         w.pc = "rotate" => w.index = Archives /\ Full(0),
         troubled' \in BOOLEAN, ~troubled' => ~troubled /\ Hole = 0,
         UNCHANGED <<caller, gate, queue, queued, acked, files, past, dropped, fresh, lost, closer, closing, stop, crashes>>
  PROVE  LogIInv'
  <1>1. queue \in Seq(Log!Events)
    BY DEF LogIInv, Log!TypeOK
  <1>2. Len(queue) = Len(queue) - 0 /\ \A n \in 1..Len(queue) : queue[n] = queue[n + 0]
    BY <1>1
  <1>3. w.pc \in Log!Appending => w.event <= queued /\ \A n \in 1..Len(queue) : w.event < queue[n]
    BY DEF LogIInv, LogOrder, Log!Appending
  <1>4. w.pc \in {"begin", "rotate", "settle", "write"} => Newest(w.event)
    BY DEF LogIInv, LogOrder, Log!Appending
  <1> QED BY <1>1, <1>2, <1>3, <1>4, WriterKeeps

LEMMA WriterRepliesKeeps == ASSUME LogIInv, Log!WriterStops \/ Log!ContextEnded \/ Log!DiskRefuses PROVE LogIInv'
  <1>0. /\ Log!TypeOK /\ writer \in Log!WriterState /\ answer \in [Log!Events -> {"none", "ok", "error"}] /\ expired \subseteq Log!Events
        /\ troubled \in BOOLEAN
    BY DEF LogIInv, Log!TypeOK
  <1>1. closer # "closed"
    BY DEF LogIInv, LogClose, Log!WriterStops, Log!ContextEnded, Log!DiskRefuses, Log!Appending, Log!LooksAtContext
  <1>2. CASE Log!WriterStops
    <2> DEFINE w == [writer EXCEPT !.pc = "draining"]
    <2>1. w \in Log!WriterState /\ w.pc = "draining" /\ w.event = writer.event
      BY <1>0 DEF Log!WriterState
    <2>2. /\ writer' = w /\ stop /\ Hole = 0 /\ writer.event = Log!NoEvent
          /\ UNCHANGED <<caller, gate, queue, queued, acked, answer, expired, files, dirty, past, dropped, fresh, lost, closer, closing, stop, troubled, crashes>>
      BY <1>2 DEF Log!WriterStops, Hole, LogIInv, LogOrder, Log!Appending, Log!calls, Log!disk, Log!shutdown
    <2> HIDE DEF w
    <2> QED BY <1>0, <1>1, <2>1, <2>2, WriterGoesOn DEF Log!Appending
  <1>3. CASE Log!ContextEnded \/ Log!DiskRefuses
    <2> DEFINE e == writer.event
    <2>1. e \in Log!Events
      BY <1>0, <1>3 DEF Log!ContextEnded, Log!DiskRefuses, LogIInv, LogOrder, Log!WriterState, Log!Appending,
             Log!LooksAtContext
    <2>2. /\ Log!Told(e, "error") \in [Log!Events -> {"none", "ok", "error"}]
          /\ \A x \in Log!Events : Log!Told(e, "error")[x] = "ok" => answer[x] = "ok"
      BY <2>1, ToldIs
    <2>3. /\ writer' = Log!Selecting /\ answer' = Log!Told(e, "error") /\ expired' \subseteq Log!Events
          /\ troubled' \in BOOLEAN /\ (~troubled' => ~troubled /\ Hole = 0)
          /\ UNCHANGED <<caller, gate, queue, queued, acked, files, dirty, past, dropped, fresh, lost, closer, closing, stop, crashes>>
      BY <1>0, <1>3 DEF Log!ContextEnded, Log!DiskRefuses, Log!Reply, Hole, Log!LooksAtContext, Log!disk, Log!shutdown
    <2> QED BY <1>1, <2>2, <2>3, SelectingIs, WriterGoesOn
  <1> QED BY <1>2, <1>3

LEMMA BeginKeeps == ASSUME LogIInv, Log!Begin PROVE LogIInv'
  <1>0. /\ Log!TypeOK /\ writer \in Log!WriterState /\ answer \in [Log!Events -> {"none", "ok", "error"}] /\ expired \subseteq Log!Events
        /\ troubled \in BOOLEAN
    BY DEF LogIInv, Log!TypeOK
  <1>1. writer.pc = "begin" /\ closer # "closed" /\ Hole = 0 /\ writer.event # Log!NoEvent
    BY DEF LogIInv, LogClose, LogOrder, Log!Appending, Log!Begin, Log!Proceeds, Hole
  <1>2. UNCHANGED <<caller, gate, queue, queued, acked, answer, expired, files, dirty, past, dropped, fresh, lost, closer, closing, stop, troubled, crashes>>
    BY DEF Log!Begin, Log!calls, Log!disk, Log!shutdown
  <1> DEFINE v == [writer EXCEPT !.pc = "write"]
             w == [writer EXCEPT !.pc = "rotate", !.index = Archives]
  <1>3. v \in Log!WriterState /\ v.pc = "write" /\ v.event = writer.event
    BY <1>0 DEF Log!WriterState
  <1>4. w \in Log!WriterState /\ w.pc = "rotate" /\ w.event = writer.event /\ w.index = Archives
    <2> DEFINE u == [writer EXCEPT !.pc = "rotate"]
    <2>1. u \in Log!WriterState /\ u.pc = "rotate" /\ u.event = writer.event
      BY <1>0 DEF Log!WriterState
    <2>2. w = [u EXCEPT !.index = Archives]
      BY <1>0 DEF Log!WriterState
    <2> HIDE DEF u, w
    <2> QED BY <2>1, <2>2, SizesAssumption DEF Log!WriterState
  <1>5. (writer' = v /\ ~Full(0)) \/ (writer' = w /\ Full(0))
    BY <1>0, Lengths, SizesAssumption DEF Log!Begin, Full
  <1> HIDE DEF v, w
  <1>6. CASE writer' = v /\ ~Full(0)
    BY <1>0, <1>1, <1>2, <1>3, <1>6, WriterGoesOn DEF Log!Appending
  <1>7. CASE writer' = w /\ Full(0)
    BY <1>0, <1>1, <1>2, <1>4, <1>7, WriterGoesOn DEF Log!Appending
  <1> QED BY <1>5, <1>6, <1>7

\* Only now is the event on the disk, and only now is it acknowledged.
LEMMA SyncKeeps == ASSUME LogIInv, Log!Sync PROVE LogIInv'
  <1>0. /\ Log!TypeOK /\ writer \in Log!WriterState /\ expired \subseteq Log!Events /\ troubled \in BOOLEAN
    BY DEF LogIInv, Log!TypeOK
  <1>1. writer.pc = "sync" /\ closer # "closed" /\ Hole = 0 /\ writer.event \in Log!Events
    BY <1>0 DEF LogIInv, LogClose, LogOrder, Log!Appending, Log!Sync, Log!Proceeds, Hole, Log!WriterState
  <1>2. PICK e \in Log!Events : e = writer.event
    BY <1>1
  <1>3. /\ writer' = Log!Selecting /\ answer' = Log!Told(e, "ok") /\ expired' \subseteq Log!Events /\ dirty' = Log!Synced
        /\ UNCHANGED <<caller, gate, queue, queued, acked, files, past, dropped, fresh, lost, closer, closing, stop, troubled, crashes>>
    BY <1>0, <1>2 DEF Log!Sync, Log!Reply, Log!disk, Log!shutdown
  <1>4. PICK n \in 1..Len(files[0]) : files[0][n] = e
    BY <1>1, <1>2 DEF LogIInv, LogSafe
  <1>5. n \in DOMAIN files[0] /\ 0 \in 0..Archives
    BY <1>0, <1>4, SizesAssumption DEF Log!TypeOK
  <1>6. dirty' \subseteq dirty /\ e \notin dirty'
    BY <1>3, <1>4, <1>5 DEF Log!Synced
  <1>7. Safe(e)' /\ Covered(e)'
    <2>1. e \in fresh \/ past = {}
      BY <1>1, <1>2 DEF LogIInv, LogLive
    <2> QED BY <1>3, <1>4, <1>5, <1>6, <2>1 DEF Safe, Covered
  <1>8. /\ Log!Told(e, "ok") \in [Log!Events -> {"none", "ok", "error"}]
        /\ \A x \in Log!Events : Log!Told(e, "ok")[x] = "ok" => answer[x] = "ok" \/ x = e
    BY ToldIs
  <1> QED BY <1>0, <1>1, <1>3, <1>6, <1>7, <1>8, SelectingIs, WriterGoesOn

-----------------------------------------------------------------------------
(* The files *)

\* A step of append that changes the files: what it may do to them.
LEMMA DiskKeeps ==
  ASSUME LogIInv, Log!TypeOK', closer # "closed",
         writer'.pc \notin {"draining", "ended"},
         \A i \in 0..Archives : \A n \in 1..Len(files'[i]) :
             files'[i][n] \in {writer.event, Log!Torn} \/ \E j \in 0..Archives : \E m \in 1..Len(files[j]) : files'[i][n] = files[j][m],
         \A d \in dropped' : d \in dropped \/ \E j \in 0..Archives : \E m \in 1..Len(files[j]) : d = files[j][m],
         writer.pc \in Log!Appending, writer'.event \in {Log!NoEvent, writer.event},
         writer'.pc \in Log!Appending <=> writer'.event # Log!NoEvent,
         writer'.pc \in {"begin", "rotate", "settle", "write"} => Newest(writer.event)',
         UNCHANGED <<caller, gate, queue, queued, closer, closing, stop>>
  PROVE  LogGate' /\ LogClose' /\ LogOrder'
  <1>0. Log!TypeOK
    BY DEF LogIInv
  <1>1. LogGate'
    BY DEF LogIInv, LogGate
  <1>2. LogClose'
    BY DEF LogIInv, LogClose
  <1>3. /\ writer.event \in Nat /\ queued \in Nat /\ writer.event <= queued /\ \A n \in 1..Len(queue) : writer.event < queue[n] /\ 0 < queue[n]
    <2>1. writer.event \in Nat /\ queued \in Nat
      <3>1. writer \in Log!WriterState /\ queued \in 0..MaxEvents
        BY <1>0 DEF Log!TypeOK
      <3> QED BY <3>1, SizesAssumption DEF Log!WriterState, Log!Events, Log!NoEvent
    <2>2. \A n \in 1..Len(queue) : 0 < queue[n]
      BY <1>0, Lengths, SizesAssumption DEF Log!Events
    <2>3. writer.event <= queued /\ \A n \in 1..Len(queue) : writer.event < queue[n]
      BY DEF LogIInv, LogOrder
    <2> QED BY <2>1, <2>2, <2>3
  <1>4. ASSUME NEW n \in 1..Len(queue) PROVE Newest(queue[n])'
    <2>1. Newest(queue[n])
      BY DEF LogIInv, LogOrder
    <2>2. \A i \in 0..Archives : \A m \in 1..Len(files'[i]) : files'[i][m] < queue[n]
      <3> SUFFICES ASSUME NEW i \in 0..Archives, NEW m \in 1..Len(files'[i]) PROVE files'[i][m] < queue[n]
        OBVIOUS
      <3>1. CASE files'[i][m] \in {writer.event, Log!Torn}
        BY <1>3, <3>1 DEF Log!Torn
      <3>2. CASE \E j \in 0..Archives : \E l \in 1..Len(files[j]) : files'[i][m] = files[j][l]
        BY <2>1, <3>2 DEF Newest
      <3> QED BY <3>1, <3>2
    <2>3. \A d \in dropped' : d < queue[n]
      BY <2>1 DEF Newest
    <2> QED BY <2>2, <2>3 DEF Newest
  <1>5. \A i \in 0..Archives : \A n \in 1..Len(files'[i]) : files'[i][n] <= queued
    <2> SUFFICES ASSUME NEW i \in 0..Archives, NEW n \in 1..Len(files'[i]) PROVE files'[i][n] <= queued
      OBVIOUS
    <2>1. CASE files'[i][n] \in {writer.event, Log!Torn}
      BY <1>3, <2>1 DEF Log!Torn
    <2>2. CASE \E j \in 0..Archives : \E m \in 1..Len(files[j]) : files'[i][n] = files[j][m]
      BY <2>2 DEF LogIInv, LogOrder
    <2> QED BY <2>1, <2>2
  <1>6. \A d \in dropped' : d <= queued
    BY DEF LogIInv, LogOrder
  <1>7. writer'.pc \in Log!Appending => writer'.event = writer.event
    OBVIOUS
  <1>8. LogOrder'
    <2>1. (\A n \in 1..Len(queue) : queue[n] <= queued /\ Newest(queue[n]))'
      BY <1>4 DEF LogIInv, LogOrder
    <2>2. \A m, n \in 1..Len(queue') : m < n => queue'[m] < queue'[n]
      BY DEF LogIInv, LogOrder
    <2>3. writer'.pc \in Log!Appending => writer'.event <= queued' /\ \A n \in 1..Len(queue') : writer'.event < queue'[n]
      BY <1>3, <1>7
    <2> QED BY <1>5, <1>6, <2>1, <2>2, <2>3 DEF LogOrder
  <1> QED BY <1>1, <1>2, <1>8

\* Where an event of the files is, from InFile.
LEMMA InFileIs ==
  ASSUME Log!TypeOK, NEW i \in 0..Archives
  PROVE  /\ Log!InFile(i) \subseteq Log!Events
         /\ \A e : e \in Log!InFile(i) <=> e # Log!Torn /\ \E n \in 1..Len(files[i]) : files[i][n] = e
         /\ Log!InFile(i) # {} => files[i] # <<>>
  <1>1. files[i] \in Seq(Log!Events \cup {Log!Torn})
    BY DEF Log!TypeOK
  <1>2. DOMAIN files[i] = 1..Len(files[i]) /\ \A n \in 1..Len(files[i]) : files[i][n] \in Log!Events \cup {Log!Torn}
    BY <1>1
  <1>3. Log!InFile(i) # {} => files[i] # <<>>
    BY <1>1 DEF Log!InFile
  <1> QED BY <1>2, <1>3 DEF Log!InFile

LEMMA NowIs == ASSUME Log!TypeOK PROVE Log!Now \in Log!View
  BY DEF Log!Now, Log!View, Log!TypeOK

LEMMA WriteKeeps == ASSUME LogIInv, Log!Write PROVE LogIInv'
  <1> DEFINE w == [writer EXCEPT !.pc = "sync"]
  <1>0. Log!TypeOK /\ 0 \in 0..Archives /\ files[0] \in Seq(Log!Events \cup {Log!Torn}) /\ writer \in Log!WriterState
    BY SizesAssumption DEF LogIInv, Log!TypeOK
  <1>1. /\ writer.pc = "write" /\ closer # "closed" /\ Hole = 0 /\ writer.event \in Log!Events /\ Newest(writer.event)
        /\ writer.event # Log!NoEvent
    BY <1>0 DEF LogIInv, LogClose, LogOrder, Log!Appending, Log!Write, Log!Proceeds, Hole, Log!WriterState
  <1>2. PICK e \in Log!Events : e = writer.event
    BY <1>1
  <1>3. /\ files' = [files EXCEPT ![0] = Append(files[0], e)] /\ dirty' = dirty \cup {e} /\ writer' = w
        /\ past' = IF files[0] = <<>> THEN past \cup {Log!Now} ELSE past
        /\ fresh' = IF files[0] = <<>> \/ fresh # {} THEN fresh \cup {e} ELSE fresh
        /\ UNCHANGED <<caller, gate, queue, answer, expired, queued, acked, dropped, lost, closer, closing, stop, troubled, crashes>>
    BY <1>2 DEF Log!Write, Log!AppendLine, Log!calls, Log!shutdown
  <1>4. w \in Log!WriterState /\ w.pc = "sync" /\ w.event = e
    BY <1>0, <1>2 DEF Log!WriterState
  <1> HIDE DEF w
  <1>5. /\ Append(files[0], e) \in Seq(Log!Events \cup {Log!Torn}) /\ Len(Append(files[0], e)) = Len(files[0]) + 1
        /\ Append(files[0], e)[Len(files[0]) + 1] = e
        /\ \A n \in 1..Len(files[0]) : Append(files[0], e)[n] = files[0][n]
    BY <1>0
  <1>6. /\ files' \in [0..Archives -> Seq(Log!Events \cup {Log!Torn})] /\ files'[0] = Append(files[0], e)
        /\ \A i \in 1..Archives : files'[i] = files[i]
    BY <1>0, <1>3, <1>5, SizesAssumption DEF Log!TypeOK
  <1>7. Log!TypeOK'
    <2>1. past' \subseteq Log!View /\ fresh' \subseteq Log!Events \cup {Log!Torn}
      BY <1>0, <1>3, NowIs DEF Log!TypeOK
    <2> QED BY <1>0, <1>3, <1>4, <1>6, <2>1 DEF Log!TypeOK
  <1>8. /\ \A i \in 0..Archives : \A n \in 1..Len(files[i]) : n \in 1..Len(files'[i]) /\ files'[i][n] = files[i][n]
        /\ \A i \in 0..Archives : \A n \in 1..Len(files'[i]) :
              (n \in 1..Len(files[i]) /\ files'[i][n] = files[i][n]) \/ (i = 0 /\ files'[i][n] = e)
        /\ Len(files[0]) + 1 \in 1..Len(files'[0]) /\ files'[0][Len(files[0]) + 1] = e
    <2>1. Len(files[0]) \in Nat
      BY <1>0
    <2>2. /\ \A n \in 1..Len(files[0]) : n \in 1..Len(files'[0]) /\ files'[0][n] = files[0][n]
          /\ \A n \in 1..Len(files'[0]) : n \in 1..Len(files[0]) \/ n = Len(files[0]) + 1
          /\ Len(files[0]) + 1 \in 1..Len(files'[0]) /\ files'[0][Len(files[0]) + 1] = e
      BY <1>5, <1>6, <2>1
    <2>3. \A i \in 0..Archives : i = 0 \/ i \in 1..Archives
      BY SizesAssumption
    <2> QED BY <1>6, <2>2, <2>3
  <1>9. LogGate' /\ LogClose' /\ LogOrder'
    BY <1>1, <1>2, <1>3, <1>4, <1>7, <1>8, DiskKeeps DEF Log!Appending
  <1>10. FilesInOrder'
    BY <1>1, <1>2, <1>3, <1>8 DEF LogIInv, FilesInOrder, Newest
  <1>11. LogSafe'
    <2>1. \A x : Safe(x) => Safe(x)'
      <3> SUFFICES ASSUME NEW x, Safe(x), x \notin lost PROVE Safe(x)'
        BY <1>3 DEF Safe
      <3>1. x # e
        <4> SUFFICES ASSUME Safe(e), e \notin lost PROVE FALSE
          OBVIOUS
        <4>1. Newest(e) /\ e \in Nat
          BY <1>1, <1>2 DEF Log!Events
        <4>2. ~(e < e)
          BY <4>1
        <4> QED BY <4>1, <4>2 DEF Safe, Newest
      <3>2. x \notin dirty'
        BY <1>3, <3>1 DEF Safe
      <3>3. CASE x \in dropped
        BY <1>3, <3>2, <3>3 DEF Safe
      <3>4. CASE \E i \in 0..Archives : \E n \in 1..Len(files[i]) : files[i][n] = x
        <4>0. PICK i \in 0..Archives : \E n \in 1..Len(files[i]) : files[i][n] = x
          BY <3>4
        <4>1. PICK n \in 1..Len(files[i]) : files[i][n] = x
          BY <4>0
        <4>2. n \in 1..Len(files'[i]) /\ files'[i][n] = x
          BY <1>8, <4>1
        <4> QED BY <3>2, <4>2 DEF Safe
      <3> QED BY <3>3, <3>4 DEF Safe
    <2> QED BY <1>3, <1>4, <1>8, <2>1 DEF LogIInv, LogSafe
  <1>12. LogFull'
    <2>1. Hole' = 0 /\ \A i \in 0..Archives : Full(i) => Full(i)'
      BY <1>0, <1>3, <1>4, <1>5, <1>6, Lengths, SizesAssumption DEF Hole, Full
    <2>2. \A i \in 1..Archives : Empty(i)' = Empty(i)
      BY <1>6 DEF Empty
    <2>3. writer'.pc # "rotate" /\ dropped' = dropped /\ troubled' = troubled
      BY <1>3, <1>4
    <2>4. \A i \in 1..Archives : i \in 0..Archives
      BY SizesAssumption
    <2> QED BY <1>1, <2>1, <2>2, <2>3, <2>4 DEF LogIInv, LogFull
  <1>13. LogPast'
    <2>1. queued \in Nat /\ past' \subseteq past \cup {Log!Now} /\ fresh \subseteq fresh'
      BY <1>0, <1>3, Lengths
    <2> QED BY <1>3, <2>1, PastGrows
  <1>14. LogLive'
    <2>1. past # {} => fresh # {} \/ files[0] = <<>>
      BY <1>1 DEF LogIInv, LogLive
    <2> QED BY <1>3, <1>4, <2>1 DEF LogLive
  <1> QED BY <1>7, <1>9, <1>10, <1>11, <1>12, <1>13, <1>14 DEF LogIInv

LEMMA TornWriteKeeps == ASSUME LogIInv, Log!TornWrite PROVE LogIInv'
  <1>0. Log!TypeOK /\ 0 \in 0..Archives /\ files[0] \in Seq(Log!Events \cup {Log!Torn}) /\ writer \in Log!WriterState
    BY SizesAssumption DEF LogIInv, Log!TypeOK
  <1>1. writer.pc = "write" /\ closer # "closed" /\ Hole = 0 /\ writer.event \in Log!Events
    BY <1>0 DEF LogIInv, LogClose, LogOrder, Log!Appending, Log!TornWrite, Log!Proceeds, Hole, Log!WriterState
  <1>2. PICK e \in Log!Events : e = writer.event
    BY <1>1
  <1>3. /\ files' = [files EXCEPT ![0] = Append(files[0], Log!Torn)] /\ writer' = Log!Selecting
        /\ answer' = Log!Told(e, "error") /\ expired' = expired \ {e}
        /\ past' = IF files[0] = <<>> THEN past \cup {Log!Now} ELSE past
        /\ fresh' = IF files[0] = <<>> \/ fresh # {} THEN fresh \cup {Log!Torn} ELSE fresh
        /\ UNCHANGED <<caller, gate, queue, queued, acked, dirty, dropped, lost, closer, closing, stop, troubled, crashes>>
    BY <1>2 DEF Log!TornWrite, Log!AppendLine, Log!Reply, Log!shutdown
  <1>4. /\ Log!Told(e, "error") \in [Log!Events -> {"none", "ok", "error"}]
        /\ \A x \in Log!Events : Log!Told(e, "error")[x] = "ok" => answer[x] = "ok"
    BY ToldIs
  <1>5. /\ Append(files[0], Log!Torn) \in Seq(Log!Events \cup {Log!Torn}) /\ Len(Append(files[0], Log!Torn)) = Len(files[0]) + 1
        /\ Append(files[0], Log!Torn)[Len(files[0]) + 1] = Log!Torn
        /\ \A n \in 1..Len(files[0]) : Append(files[0], Log!Torn)[n] = files[0][n]
    BY <1>0
  <1>6. /\ files' \in [0..Archives -> Seq(Log!Events \cup {Log!Torn})] /\ files'[0] = Append(files[0], Log!Torn)
        /\ \A i \in 1..Archives : files'[i] = files[i]
    BY <1>0, <1>3, <1>5, SizesAssumption DEF Log!TypeOK
  <1>7. Log!TypeOK'
    <2>1. past' \subseteq Log!View /\ fresh' \subseteq Log!Events \cup {Log!Torn}
      BY <1>0, <1>3, NowIs DEF Log!TypeOK
    <2> QED BY <1>0, <1>3, <1>4, <1>6, <2>1, SelectingIs DEF Log!TypeOK
  <1>8. /\ \A i \in 0..Archives : \A n \in 1..Len(files[i]) : n \in 1..Len(files'[i]) /\ files'[i][n] = files[i][n]
        /\ \A i \in 0..Archives : \A n \in 1..Len(files'[i]) :
              (n \in 1..Len(files[i]) /\ files'[i][n] = files[i][n]) \/ (i = 0 /\ files'[i][n] = Log!Torn)
    <2>1. Len(files[0]) \in Nat
      BY <1>0
    <2>2. /\ \A n \in 1..Len(files[0]) : n \in 1..Len(files'[0]) /\ files'[0][n] = files[0][n]
          /\ \A n \in 1..Len(files'[0]) : n \in 1..Len(files[0]) \/ (n = Len(files[0]) + 1 /\ files'[0][n] = Log!Torn)
      BY <1>5, <1>6, <2>1
    <2>3. \A i \in 0..Archives : i = 0 \/ i \in 1..Archives
      BY SizesAssumption
    <2> QED BY <1>6, <2>2, <2>3
  <1>9. LogGate' /\ LogClose' /\ LogOrder'
    BY <1>1, <1>3, <1>7, <1>8, SelectingIs, DiskKeeps DEF Log!Appending
  <1>10. FilesInOrder'
    BY <1>3, <1>8 DEF LogIInv, FilesInOrder
  <1>11. LogSafe'
    <2>1. \A x : Safe(x) => Safe(x)'
      BY <1>3, <1>8 DEF Safe
    <2> QED BY <1>3, <1>4, <2>1, SelectingIs DEF LogIInv, LogSafe
  <1>12. LogFull'
    <2>1. Hole' = 0 /\ \A i \in 0..Archives : Full(i) => Full(i)'
      BY <1>0, <1>3, <1>5, <1>6, SelectingIs, Lengths, SizesAssumption DEF Hole, Full
    <2>2. \A i \in 1..Archives : Empty(i)' = Empty(i)
      BY <1>6 DEF Empty
    <2>3. writer'.pc # "rotate" /\ dropped' = dropped /\ troubled' = troubled
      BY <1>3, SelectingIs
    <2>4. \A i \in 1..Archives : i \in 0..Archives
      BY SizesAssumption
    <2> QED BY <1>1, <2>1, <2>2, <2>3, <2>4 DEF LogIInv, LogFull
  <1>13. LogPast'
    <2>1. queued \in Nat /\ past' \subseteq past \cup {Log!Now} /\ fresh \subseteq fresh'
      BY <1>0, <1>3, Lengths
    <2> QED BY <1>4, <1>3, <2>1, PastGrows
  <1>14. LogLive'
    <2>1. past # {} => fresh # {} \/ files[0] = <<>>
      BY <1>1 DEF LogIInv, LogLive
    <2> QED BY <1>3, <2>1, SelectingIs DEF LogLive
  <1> QED BY <1>7, <1>9, <1>10, <1>11, <1>12, <1>13, <1>14 DEF LogIInv

\* The last archive is removed: what it had is older than all that stays.
LEMMA RemoveKeeps == ASSUME LogIInv, Log!RotateStep, writer.index = Archives PROVE LogIInv'
  <1> DEFINE w == [writer EXCEPT !.index = Archives - 1]
  <1>0. Log!TypeOK /\ Archives \in 0..Archives /\ files[Archives] \in Seq(Log!Events \cup {Log!Torn}) /\ writer \in Log!WriterState
    BY SizesAssumption DEF LogIInv, Log!TypeOK
  <1>1. writer.pc = "rotate" /\ closer # "closed" /\ Hole = 0 /\ Newest(writer.event) /\ writer.event # Log!NoEvent
    BY SizesAssumption DEF LogIInv, LogClose, LogOrder, Log!Appending, Log!RotateStep, Log!Proceeds, Hole
  <1>2. /\ files' = [files EXCEPT ![Archives] = <<>>] /\ dropped' = dropped \cup Log!InFile(Archives) /\ writer' = w
        /\ past' = past \cup {Log!Now}
        /\ UNCHANGED <<caller, gate, queue, answer, expired, queued, acked, dirty, fresh, lost, closer, closing, stop, troubled, crashes>>
    BY SizesAssumption DEF Log!RotateStep, Log!Rotated, Log!calls, Log!shutdown
  <1>3. w \in Log!WriterState /\ w.pc = "rotate" /\ w.event = writer.event /\ w.index = Archives - 1
    BY <1>0, <1>1, SizesAssumption DEF Log!WriterState
  <1> HIDE DEF w
  <1>4. /\ files' \in [0..Archives -> Seq(Log!Events \cup {Log!Torn})] /\ files'[Archives] = <<>>
        /\ \A i \in 0..(Archives - 1) : files'[i] = files[i]
    BY <1>0, <1>2, SizesAssumption DEF Log!TypeOK
  <1>5. /\ Log!InFile(Archives) \subseteq Log!Events
        /\ \A e : e \in Log!InFile(Archives) <=> e # Log!Torn /\ \E n \in 1..Len(files[Archives]) : files[Archives][n] = e
        /\ Log!InFile(Archives) # {} => files[Archives] # <<>>
    BY <1>0, InFileIs
  <1>6. Log!TypeOK'
    <2>1. past' \subseteq Log!View
      BY <1>0, <1>2, NowIs DEF Log!TypeOK
    <2> QED BY <1>0, <1>2, <1>3, <1>4, <1>5, <2>1 DEF Log!TypeOK
  <1>7. \A i \in 0..Archives : \A n \in 1..Len(files'[i]) :
           i < Archives /\ n \in 1..Len(files[i]) /\ files'[i][n] = files[i][n]
    BY <1>4, SizesAssumption
  <1>8. Newest(writer.event)'
    <2>1. PICK e : e = writer.event
      OBVIOUS
    <2>2. Newest(e)'
      BY <1>0, <1>1, <1>2, <1>5, <1>7, <2>1 DEF Newest
    <2> QED BY <1>2, <1>3, <2>1, <2>2
  <1>9. LogGate' /\ LogClose' /\ LogOrder'
    <2>1. \A d \in dropped' : d \in dropped \/ \E j \in 0..Archives : \E m \in 1..Len(files[j]) : d = files[j][m]
      BY <1>0, <1>2, <1>5
    <2>2. \A i \in 0..Archives : \A n \in 1..Len(files'[i]) : \E j \in 0..Archives : \E m \in 1..Len(files[j]) : files'[i][n] = files[j][m]
      BY <1>7
    <2> QED BY <1>1, <1>2, <1>3, <1>6, <1>8, <2>1, <2>2, DiskKeeps DEF Log!Appending
  <1>10. FilesInOrder'
    <2>1. \A i \in 0..Archives : \A n \in 1..Len(files'[i]), d \in dropped' : files'[i][n] # Log!Torn => d < files'[i][n]
      BY <1>0, <1>2, <1>5, <1>7 DEF LogIInv, FilesInOrder
    <2>2. \A i, j \in 0..Archives : \A m \in 1..Len(files'[i]), n \in 1..Len(files'[j]) :
             i < j /\ files'[i][m] # Log!Torn => files'[j][n] < files'[i][m]
      <3> SUFFICES ASSUME NEW i \in 0..Archives, NEW j \in 0..Archives,
                          NEW m \in 1..Len(files'[i]), NEW n \in 1..Len(files'[j]), i < j, files'[i][m] # Log!Torn
                   PROVE  files'[j][n] < files'[i][m]
        OBVIOUS
      <3>1. /\ m \in 1..Len(files[i]) /\ files'[i][m] = files[i][m]
            /\ n \in 1..Len(files[j]) /\ files'[j][n] = files[j][n]
        BY <1>7
      <3> QED BY <3>1 DEF LogIInv, FilesInOrder
    <2> QED BY <2>1, <2>2 DEF FilesInOrder
  <1>11. LogSafe'
    <2>1. \A x \in Log!Events : Safe(x) => Safe(x)'
      <3> SUFFICES ASSUME NEW x \in Log!Events, Safe(x), x \notin lost PROVE Safe(x)'
        BY <1>2 DEF Safe
      <3>1. CASE x \in dropped
        BY <1>2, <3>1 DEF Safe
      <3>2. CASE \E i \in 0..Archives : \E n \in 1..Len(files[i]) : files[i][n] = x
        <4>1. PICK i \in 0..Archives : \E n \in 1..Len(files[i]) : files[i][n] = x
          BY <3>2
        <4>2. CASE i = Archives
          BY <1>2, <1>5, <4>1, <4>2 DEF Safe, Log!Events, Log!Torn
        <4>3. CASE i # Archives
          BY <1>2, <1>4, <4>1, <4>3, SizesAssumption DEF Safe
        <4> QED BY <4>2, <4>3
      <3> QED BY <3>1, <3>2 DEF Safe
    <2>2. \A x \in acked : x \in Log!Events
      BY <1>0 DEF Log!TypeOK
    <2>3. files'[w.index + 1] = <<>>
      BY <1>3, <1>4, SizesAssumption
    <2> QED BY <1>2, <1>3, <2>1, <2>2, <2>3 DEF LogIInv, LogSafe
  <1>12. LogFull'
    <2> SUFFICES ASSUME ~troubled PROVE LogFull'
      BY <1>2 DEF LogFull
    <2>1. /\ Hole' = Archives /\ Empty(Archives)'
          /\ \A i \in 0..(Archives - 1) : Full(i)' = Full(i) /\ Empty(i)' = Empty(i)
      BY <1>2, <1>3, <1>4, SizesAssumption DEF Hole, Full, Empty
    <2>2. /\ \A i \in 1..Archives : Empty(i) \/ Full(i)
          /\ \A i, j \in 1..Archives : i < j /\ Empty(i) => Empty(j)
          /\ Full(0)
          /\ dropped # {} => \A i \in 0..Archives : i # 0 => Full(i)
      BY <1>1, SizesAssumption DEF LogIInv, LogFull
    <2>3. dropped' # {} => dropped # {} \/ ~Empty(Archives)
      BY <1>2, <1>5 DEF Empty
    <2>4. dropped' # {} => \A i \in 0..Archives : i # Archives => Full(i)
      BY <2>2, <2>3, SizesAssumption
    <2>5. \A i \in 0..Archives : i = Archives \/ i \in 0..(Archives - 1)
      BY SizesAssumption
    <2>6. \A i \in 1..Archives : Empty(i)' \/ Full(i)'
      BY <2>1, <2>2, <2>5, SizesAssumption
    <2>7. \A i, j \in 1..Archives : i < j /\ Empty(i)' => Empty(j)'
      BY <2>1, <2>2, <2>5, SizesAssumption
    <2>8. Full(0)' /\ (dropped' # {} => \A i \in 0..Archives : i # Archives => Full(i)')
      BY <2>1, <2>2, <2>4, <2>5, SizesAssumption
    <2> QED BY <2>1, <2>6, <2>7, <2>8 DEF LogFull
  <1>13. LogPast'
    <2>1. queued \in Nat
      BY <1>0, Lengths
    <2> QED BY <1>2, <2>1, PastGrows
  <1>14. LogLive'
    <2>1. files'[0] = files[0] /\ Len(files[0]) >= MaxBytes
      BY <1>1, <1>4, SizesAssumption DEF LogIInv, LogLive
    <2> QED BY <1>2, <1>3, <2>1 DEF LogLive
  <1> QED BY <1>6, <1>9, <1>10, <1>11, <1>12, <1>13, <1>14 DEF LogIInv

\* A file moves up to the place that the one before it has left: nothing is
\* overwritten.
LEMMA MoveKeeps == ASSUME LogIInv, Log!RotateStep, writer.index # Archives PROVE LogIInv'
  <1>0. Log!TypeOK /\ writer \in Log!WriterState /\ writer.index \in 0..Archives
    BY DEF LogIInv, Log!TypeOK, Log!WriterState
  <1>1. writer.pc = "rotate" /\ closer # "closed" /\ Newest(writer.event) /\ writer.event # Log!NoEvent
    BY DEF LogIInv, LogClose, LogOrder, Log!Appending, Log!RotateStep, Log!Proceeds
  <1>2. PICK k \in 0..(Archives - 1) : k = writer.index
    BY <1>0, SizesAssumption
  <1>3. Hole = k + 1 /\ files[k + 1] = <<>> /\ k \in 0..Archives /\ k + 1 \in 0..Archives /\ k # Archives
    BY <1>1, <1>2, SizesAssumption DEF Hole, LogIInv, LogSafe
  <1> DEFINE w == IF k = 0 THEN [writer EXCEPT !.pc = "settle"] ELSE [writer EXCEPT !.index = k - 1]
  <1>4. /\ writer' = w /\ past' = past \cup {Log!Now}
        /\ UNCHANGED <<caller, gate, queue, answer, expired, queued, acked, dirty, dropped, fresh, lost, closer, closing, stop, troubled, crashes>>
    BY <1>2, <1>3 DEF Log!RotateStep, Log!calls, Log!shutdown
  <1>5. /\ w \in Log!WriterState /\ w.event = writer.event
        /\ k = 0 => w.pc = "settle"
        /\ k # 0 => w.pc = "rotate" /\ w.index = k - 1
    <2>1. CASE k = 0
      BY <1>0, <2>1 DEF Log!WriterState
    <2>2. CASE k # 0
      <3>1. k - 1 \in 0..Archives
        BY <1>3, <2>2, SizesAssumption
      <3> QED BY <1>0, <1>1, <2>2, <3>1 DEF Log!WriterState
    <2> QED BY <2>1, <2>2
  <1> HIDE DEF w
  <1>6. /\ files' \in [0..Archives -> Seq(Log!Events \cup {Log!Torn})]
        /\ files'[k + 1] = files[k] /\ files'[k] = <<>>
        /\ \A i \in 0..Archives : i # k /\ i # k + 1 => files'[i] = files[i]
    <2>1. files' = IF files[k] = <<>> THEN files ELSE [files EXCEPT ![k + 1] = files[k], ![k] = <<>>]
      BY <1>2, <1>3 DEF Log!RotateStep, Log!Rotated
    <2>2. files \in [0..Archives -> Seq(Log!Events \cup {Log!Torn})]
      BY <1>0 DEF Log!TypeOK
    <2> QED BY <1>3, <2>1, <2>2
  <1>7. Log!TypeOK'
    <2>1. past' \subseteq Log!View
      BY <1>0, <1>4, NowIs DEF Log!TypeOK
    <2> QED BY <1>0, <1>4, <1>5, <1>6, <2>1 DEF Log!TypeOK
  <1> DEFINE From(i) == IF i = k + 1 THEN k ELSE i
  <1>8. \A i \in 0..Archives : \A n \in 1..Len(files'[i]) :
           /\ i # k /\ From(i) \in 0..Archives /\ From(i) # k + 1
           /\ n \in 1..Len(files[From(i)]) /\ files'[i][n] = files[From(i)][n]
    BY <1>3, <1>6
  <1>9. \A i \in 0..Archives : \A n \in 1..Len(files[i]) : \E j \in 0..Archives : n \in 1..Len(files'[j]) /\ files'[j][n] = files[i][n]
    BY <1>3, <1>6
  <1>10. Newest(writer.event)'
    <2>1. PICK e : e = writer.event
      OBVIOUS
    <2>2. Newest(e)'
      BY <1>1, <1>4, <1>8, <2>1 DEF Newest
    <2> QED BY <1>4, <1>5, <2>1, <2>2
  <1>11. LogGate' /\ LogClose' /\ LogOrder'
    <2>1. \A i \in 0..Archives : \A n \in 1..Len(files'[i]) : \E j \in 0..Archives : \E m \in 1..Len(files[j]) : files'[i][n] = files[j][m]
      BY <1>8
    <2>2. w.pc \in {"settle", "rotate"}
      BY <1>5
    <2> QED BY <1>1, <1>4, <1>5, <1>7, <1>10, <2>1, <2>2, DiskKeeps DEF Log!Appending
  <1>12. FilesInOrder'
    <2>1. \A i, j \in 0..Archives : i < j /\ i # k /\ j # k /\ From(i) # k + 1 /\ From(j) # k + 1 => From(i) < From(j)
      BY <1>2
    <2> HIDE DEF From
    <2>2. \A i, j \in 0..Archives : \A m \in 1..Len(files'[i]), n \in 1..Len(files'[j]) :
             i < j /\ files'[i][m] # Log!Torn => files'[j][n] < files'[i][m]
      <3> SUFFICES ASSUME NEW i \in 0..Archives, NEW j \in 0..Archives,
                          NEW m \in 1..Len(files'[i]), NEW n \in 1..Len(files'[j]), i < j, files'[i][m] # Log!Torn
                   PROVE  files'[j][n] < files'[i][m]
        OBVIOUS
      <3>1. /\ From(i) \in 0..Archives /\ m \in 1..Len(files[From(i)]) /\ files'[i][m] = files[From(i)][m]
            /\ From(j) \in 0..Archives /\ n \in 1..Len(files[From(j)]) /\ files'[j][n] = files[From(j)][n]
            /\ From(i) < From(j)
        BY <1>8, <2>1
      <3> QED BY <3>1 DEF LogIInv, FilesInOrder
    <2>3. \A i \in 0..Archives : \A n \in 1..Len(files'[i]), d \in dropped' : files'[i][n] # Log!Torn => d < files'[i][n]
      BY <1>4, <1>8 DEF LogIInv, FilesInOrder
    <2> QED BY <2>2, <2>3 DEF FilesInOrder
  <1>13. LogSafe'
    <2>1. \A x : Safe(x) => Safe(x)'
      <3> SUFFICES ASSUME NEW x, Safe(x), x \notin lost PROVE Safe(x)'
        BY <1>4 DEF Safe
      <3>1. CASE x \in dropped
        BY <1>4, <3>1 DEF Safe
      <3>2. CASE x \notin dropped
        <4>1. PICK i \in 0..Archives : \E n \in 1..Len(files[i]) : files[i][n] = x
          BY <3>2 DEF Safe
        <4>2. PICK n \in 1..Len(files[i]) : files[i][n] = x
          BY <4>1
        <4>3. PICK j \in 0..Archives : n \in 1..Len(files'[j]) /\ files'[j][n] = files[i][n]
          BY <1>9
        <4>4. x \notin dirty'
          BY <1>4 DEF Safe
        <4> QED BY <4>2, <4>3, <4>4 DEF Safe
      <3> QED BY <3>1, <3>2
    <2>2. writer'.pc = "rotate" => files'[writer'.index + 1] = <<>>
      BY <1>2, <1>4, <1>5, <1>6
    <2>3. writer'.pc # "sync"
      BY <1>4, <1>5
    <2> QED BY <1>4, <2>1, <2>2, <2>3 DEF LogIInv, LogSafe
  <1>14. LogFull'
    <2> SUFFICES ASSUME ~troubled PROVE LogFull'
      BY <1>4 DEF LogFull
    <2>1. Hole' = k
      BY <1>2, <1>4, <1>5, SizesAssumption DEF Hole
    <2>2. /\ Full(k + 1)' = Full(k) /\ Empty(k + 1)' = Empty(k) /\ Empty(k)'
          /\ \A i \in 0..Archives : i # k /\ i # k + 1 => Full(i)' = Full(i) /\ Empty(i)' = Empty(i)
      BY <1>6 DEF Full, Empty
    <2>3. /\ \A i \in 1..Archives : Empty(i) \/ Full(i)
          /\ \A i, j \in 1..Archives : i < j /\ i # k + 1 /\ Empty(i) => Empty(j)
          /\ Full(0)
          /\ dropped # {} => \A i \in 0..Archives : i # k + 1 => Full(i)
      BY <1>1, <1>3 DEF LogIInv, LogFull
    <2>4. ~Empty(0)
      BY <2>3, SizesAssumption DEF Full, Empty
    <2>5. \A i \in 1..Archives : Empty(i)' \/ Full(i)'
      <3> SUFFICES ASSUME NEW i \in 1..Archives PROVE Empty(i)' \/ Full(i)'
        OBVIOUS
      <3>1. CASE i = k
        BY <2>2, <3>1
      <3>2. CASE i = k + 1
        <4>1. k = 0 \/ k \in 1..Archives
          BY <1>3, SizesAssumption
        <4> QED BY <2>2, <2>3, <3>2, <4>1
      <3>3. CASE i # k /\ i # k + 1
        BY <2>2, <2>3, <3>3, SizesAssumption
      <3> QED BY <3>1, <3>2, <3>3
    <2>6. \A i, j \in 1..Archives : i < j /\ i # k /\ Empty(i)' => Empty(j)'
      <3> SUFFICES ASSUME NEW i \in 1..Archives, NEW j \in 1..Archives, i < j, i # k, j # k, Empty(i)'
                   PROVE  Empty(j)'
        BY <2>2
      <3>1. CASE i = k + 1
        <4>1. Empty(k)
          BY <2>2, <3>1
        <4>2. k \in 1..Archives /\ k < j /\ k # k + 1 /\ j # k + 1
          BY <1>3, <2>4, <4>1, <3>1, SizesAssumption
        <4>3. Empty(j)
          BY <2>3, <4>1, <4>2
        <4> QED BY <2>2, <4>2, <4>3, SizesAssumption
      <3>2. CASE i # k + 1 /\ j = k + 1
        <4>1. Empty(i) /\ i < k /\ k \in 1..Archives
          BY <1>3, <2>2, <3>2, SizesAssumption
        <4>2. Empty(k)
          BY <2>3, <3>2, <4>1
        <4> QED BY <2>2, <3>2, <4>2
      <3>3. CASE i # k + 1 /\ j # k + 1
        BY <2>2, <2>3, <3>3, SizesAssumption
      <3> QED BY <3>1, <3>2, <3>3
    <2>7. writer'.pc = "rotate" => Full(0)'
      BY <1>2, <1>4, <1>5, <2>2, <2>3, SizesAssumption
    <2>8. dropped' # {} => \A i \in 0..Archives : i # k => Full(i)'
      BY <1>2, <1>3, <1>4, <2>2, <2>3
    <2> QED BY <2>1, <2>5, <2>6, <2>7, <2>8 DEF LogFull
  <1>15. LogPast'
    <2>1. queued \in Nat
      BY <1>0, Lengths
    <2> QED BY <1>4, <2>1, PastGrows
  <1>16. LogLive'
    <2>1. Len(files[0]) >= MaxBytes
      BY <1>1 DEF LogIInv, LogLive
    <2>2. IF k = 0 THEN files'[0] = <<>> ELSE files'[0] = files[0]
      BY <1>2, <1>6, SizesAssumption
    <2> QED BY <1>4, <1>5, <2>1, <2>2 DEF LogLive
  <1> QED BY <1>7, <1>11, <1>12, <1>13, <1>14, <1>15, <1>16 DEF LogIInv

\* The directory is synced: no earlier one comes back, and nothing is fresh.
LEMMA SettleKeeps == ASSUME LogIInv, Log!Settle PROVE LogIInv'
  <1> DEFINE w == [writer EXCEPT !.pc = "write"]
  <1>0. Log!TypeOK /\ writer \in Log!WriterState
    BY DEF LogIInv, Log!TypeOK
  <1>1. /\ writer.pc = "settle" /\ closer # "closed" /\ Hole = 0 /\ Newest(writer.event) /\ writer.event # Log!NoEvent
        /\ files[0] = <<>>
    BY DEF LogIInv, LogClose, LogOrder, LogLive, Log!Appending, Log!Settle, Log!Proceeds, Hole
  <1>2. /\ writer' = w /\ past' = {} /\ fresh' = {}
        /\ UNCHANGED <<caller, gate, queue, answer, expired, queued, acked, files, dirty, dropped, lost, closer, closing, stop,
                       troubled, crashes>>
    BY DEF Log!Settle, Log!Settled, Log!calls, Log!shutdown
  <1>3. w \in Log!WriterState /\ w.pc = "write" /\ w.event = writer.event
    BY <1>0 DEF Log!WriterState
  <1> HIDE DEF w
  <1>4. Log!TypeOK'
    BY <1>0, <1>2, <1>3 DEF Log!TypeOK
  <1>5. FilesInOrder' /\ \A e : Newest(e)' = Newest(e) /\ Safe(e)' = Safe(e)
    BY <1>2, SameDisk DEF LogIInv
  <1>6. LogGate' /\ LogClose'
    BY <1>1, <1>2, <1>3 DEF LogIInv, LogGate, LogClose
  <1>7. LogOrder'
    BY <1>1, <1>2, <1>3, <1>5 DEF LogIInv, LogOrder, Log!Appending
  <1>8. LogSafe'
    BY <1>1, <1>2, <1>3, <1>5 DEF LogIInv, LogSafe
  <1>9. LogFull'
    <2>1. Hole' = 0
      BY <1>2, <1>3 DEF Hole
    <2> QED BY <1>1, <1>2, <1>3, <2>1, SameDisk, SizesAssumption DEF LogIInv, LogFull
  <1>10. LogPast'
    BY <1>2 DEF LogPast, Covered
  <1>11. LogLive'
    BY <1>1, <1>2, <1>3, SizesAssumption DEF LogLive
  <1> QED BY <1>4, <1>5, <1>6, <1>7, <1>8, <1>9, <1>10, <1>11 DEF LogIInv

-----------------------------------------------------------------------------
(* Close, a crash, and a step of nobody *)

LEMMA CloseKeeps == ASSUME LogIInv, Log!Close \/ Log!CloseStop \/ Log!CloseWaits PROVE LogIInv'
  <1>0. Log!TypeOK
    BY DEF LogIInv
  <1>1. UNCHANGED <<caller, gate, queue, answer, expired, queued, acked, files, dirty, past, dropped, fresh, lost, writer, troubled, crashes>>
    BY DEF Log!Close, Log!CloseStop, Log!CloseWaits, Log!calls, Log!disk
  <1>2. Log!TypeOK'
    <2>1. closer' \in {"idle", "gate", "wait", "closed", "timeout"} /\ closing' \in BOOLEAN /\ stop' \in BOOLEAN
      BY <1>0 DEF Log!TypeOK, Log!Close, Log!CloseStop, Log!CloseWaits
    <2> QED BY <1>0, <1>1, <2>1 DEF Log!TypeOK
  <1>3. LogGate' /\ LogOrder' /\ FilesInOrder' /\ LogSafe'
    BY <1>1, SameDisk DEF LogIInv, LogGate, LogOrder, LogSafe
  <1>4. LogFull'
    BY <1>1, SameDisk, SizesAssumption DEF LogIInv, LogFull, Hole
  <1>6. LogPast' /\ LogLive'
    <2>1. queued \in Nat
      BY <1>0, Lengths
    <2> QED BY <1>1, <2>1, PastGrows DEF LogIInv, LogLive
  <1>5. LogClose'
    <2>1. CASE Log!Close
      BY <1>1, <2>1 DEF Log!Close, LogIInv, LogClose
    <2>2. CASE Log!CloseStop
      <3>1. gate = "free"
        BY <2>2 DEF Log!CloseStop, Log!MayStop
      <3>2. \A c \in Callers : caller[c].pc # "send"
        BY <3>1, CallersAssumption DEF LogIInv, LogGate
      <3> QED BY <1>1, <2>2, <3>2 DEF Log!CloseStop, LogIInv, LogClose
    <2>3. CASE Log!CloseWaits
      BY <1>1, <2>3 DEF Log!CloseWaits, LogIInv, LogClose
    <2> QED BY <2>1, <2>2, <2>3
  <1> QED BY <1>2, <1>3, <1>4, <1>5, <1>6 DEF LogIInv

\* No synced line is behind the place where a crash cuts a file, and the directory
\* that it leaves, be it an earlier one, has the lines that are not fresh.
LEMMA CrashKeeps == ASSUME LogIInv, Log!Crash PROVE LogIInv'
  <1>0. Log!TypeOK
    BY DEF LogIInv
  <1>1. PICK view \in past \cup {Log!Now}, length \in [0..Archives -> 0..MaxBytes] :
           /\ \A i \in 0..Archives : Log!MayEndAt(view.files[i], length[i])
           /\ files' = [i \in 0..Archives |-> SubSeq(view.files[i], 1, length[i])]
           /\ dropped' = view.dropped
    BY DEF Log!Crash
  <1>2. /\ caller' = [c \in Callers |-> Log!Idle] /\ gate' = "free" /\ queue' = <<>> /\ expired' = {} /\ dirty' = {}
        /\ answer' = [e \in Log!Events |-> "none"] /\ writer' = Log!Selecting
        /\ closer' = "idle" /\ closing' = FALSE /\ stop' = FALSE /\ past' = {} /\ fresh' = {}
        /\ troubled' = TRUE /\ crashes' \in 0..MaxCrashes /\ UNCHANGED <<queued, acked>>
    BY <1>0, SizesAssumption DEF Log!Crash, Log!TypeOK
  <1>3. lost' = lost \cup (fresh \ (Log!Kept' \cup {Log!Torn}))
    BY DEF Log!Crash
  <1>4. view \in Log!View /\ Ordered(view)
    <2>1. Ordered(Log!Now)
      BY DEF Ordered, Log!Now, LogIInv, FilesInOrder, LogOrder
    <2> QED BY <1>0, <2>1, NowIs DEF LogIInv, LogPast, Log!TypeOK
  <1>5. ASSUME NEW i \in 0..Archives
        PROVE  /\ files'[i] \in Seq(Log!Events \cup {Log!Torn}) /\ Len(files'[i]) = length[i] /\ length[i] <= Len(view.files[i])
               /\ \A n \in 1..length[i] : files'[i][n] = view.files[i][n]
               /\ \A n \in 1..Len(view.files[i]) : n \in 1..length[i] \/ view.files[i][n] \in dirty \cup {Log!Torn}
    <2>1. view.files[i] \in Seq(Log!Events \cup {Log!Torn}) /\ length[i] \in Nat /\ Len(view.files[i]) \in Nat
      BY <1>4, SizesAssumption DEF Log!View
    <2>2. files'[i] = SubSeq(view.files[i], 1, length[i])
      BY <1>1
    <2>3. length[i] <= Len(view.files[i]) /\ \A n \in (length[i] + 1)..Len(view.files[i]) : view.files[i][n] \in dirty \cup {Log!Torn}
      BY <1>1 DEF Log!MayEndAt
    <2> QED BY <2>1, <2>2, <2>3
  <1>6. Log!Idle \in Log!CallerState /\ Log!Idle.pc = "idle" /\ Log!Idle.event = Log!NoEvent
    BY DEF Log!Idle, Log!CallerState
  <1>7. Log!TypeOK'
    <2>1. files' \in [0..Archives -> Seq(Log!Events \cup {Log!Torn})] /\ dropped' \subseteq Log!Events
      BY <1>1, <1>4, <1>5 DEF Log!View
    <2>2. queue' \in Seq(Log!Events) /\ Len(queue') <= QueueSize
      BY <1>2, SizesAssumption
    <2>3. caller' \in [Callers -> Log!CallerState] /\ answer' \in [Log!Events -> {"none", "ok", "error"}] /\ writer' \in Log!WriterState
      BY <1>2, <1>6, SelectingIs
    <2>4. lost' \subseteq Log!Events
      BY <1>0, <1>3 DEF Log!TypeOK
    <2> QED BY <1>0, <1>2, <2>1, <2>2, <2>3, <2>4 DEF Log!TypeOK
  <1>8. LogGate'
    BY <1>2, <1>6, CallersAssumption DEF LogGate
  <1>9. LogClose'
    BY <1>2, SelectingIs DEF LogClose
  <1>10. \A i \in 0..Archives : \A n \in 1..Len(files'[i]) : n \in 1..Len(view.files[i]) /\ files'[i][n] = view.files[i][n]
    <2> SUFFICES ASSUME NEW i \in 0..Archives, NEW n \in 1..Len(files'[i])
                 PROVE  n \in 1..Len(view.files[i]) /\ files'[i][n] = view.files[i][n]
      OBVIOUS
    <2>1. view.files[i] \in Seq(Log!Events \cup {Log!Torn}) /\ length[i] \in Nat /\ Len(view.files[i]) \in Nat
      BY <1>4, SizesAssumption DEF Log!View
    <2> QED BY <1>5, <2>1
  <1>11. FilesInOrder'
    <2>1. \A i, j \in 0..Archives : \A m \in 1..Len(files'[i]), n \in 1..Len(files'[j]) :
             i < j /\ files'[i][m] # Log!Torn => files'[j][n] < files'[i][m]
      <3> SUFFICES ASSUME NEW i \in 0..Archives, NEW j \in 0..Archives,
                          NEW m \in 1..Len(files'[i]), NEW n \in 1..Len(files'[j]), i < j, files'[i][m] # Log!Torn
                   PROVE  files'[j][n] < files'[i][m]
        OBVIOUS
      <3>1. /\ m \in 1..Len(view.files[i]) /\ files'[i][m] = view.files[i][m]
            /\ n \in 1..Len(view.files[j]) /\ files'[j][n] = view.files[j][n]
        BY <1>10
      <3> QED BY <1>4, <3>1 DEF Ordered
    <2>2. \A i \in 0..Archives : \A n \in 1..Len(files'[i]), d \in dropped' : files'[i][n] # Log!Torn => d < files'[i][n]
      BY <1>1, <1>4, <1>10 DEF Ordered
    <2> QED BY <2>1, <2>2 DEF FilesInOrder
  <1>12. LogOrder'
    <2>1. \A i \in 0..Archives : \A n \in 1..Len(files'[i]) : files'[i][n] <= queued'
      BY <1>2, <1>4, <1>10 DEF Ordered
    <2>2. \A d \in dropped' : d <= queued'
      BY <1>1, <1>2, <1>4 DEF Ordered
    <2>3. Len(queue') = 0 /\ writer'.event = Log!NoEvent /\ writer'.pc = "select"
      BY <1>2, SelectingIs
    <2> QED BY <2>1, <2>2, <2>3 DEF LogOrder, Log!Appending
  <1>13. LogSafe'
    <2>1. ASSUME NEW e \in acked PROVE Safe(e)'
      <3>1. Safe(e) /\ Covered(e) /\ e # Log!Torn
        BY <1>0, SizesAssumption DEF LogIInv, LogSafe, LogPast, Log!TypeOK, Log!Events, Log!Torn
      <3>2. CASE e \in lost
        BY <1>2, <1>3, <3>2 DEF Safe
      <3>3. CASE e \in fresh
        <4>1. CASE e \in Log!Kept'
          <5>1. PICK i \in 0..Archives : e \in Log!InFile(i)'
            BY <4>1 DEF Log!Kept
          <5>2. \E n \in DOMAIN files'[i] : files'[i][n] = e
            BY <5>1 DEF Log!InFile
          <5>3. DOMAIN files'[i] = 1..Len(files'[i])
            BY <1>5
          <5> QED BY <1>2, <5>2, <5>3 DEF Safe
        <4>2. CASE e \notin Log!Kept'
          BY <1>2, <1>3, <3>1, <3>3, <4>2 DEF Safe
        <4> QED BY <4>1, <4>2
      <3>4. CASE e \notin lost \cup fresh
        <4>1. Holds(view, e)
          <5>1. Holds(Log!Now, e)
            BY <3>1, <3>4 DEF Safe, Holds, Log!Now
          <5> QED BY <3>1, <3>4, <5>1 DEF Covered
        <4>2. CASE e \in view.dropped
          BY <1>1, <1>2, <4>2 DEF Safe
        <4>3. CASE e \notin view.dropped
          <5>1. PICK i \in 0..Archives : \E n \in 1..Len(view.files[i]) : view.files[i][n] = e
            BY <4>1, <4>3 DEF Holds
          <5>2. PICK n \in 1..Len(view.files[i]) : view.files[i][n] = e
            BY <5>1
          <5>3. n \in 1..length[i]
            BY <1>5, <3>1, <3>4, <5>2 DEF Safe
          <5>4. n \in 1..Len(files'[i]) /\ files'[i][n] = e
            BY <1>5, <5>2, <5>3
          <5> QED BY <1>2, <5>4 DEF Safe
        <4> QED BY <4>2, <4>3
      <3> QED BY <3>2, <3>3, <3>4
    <2> QED BY <1>2, <2>1, SelectingIs DEF LogSafe
  <1>14. LogFull'
    BY <1>2 DEF LogFull
  <1>15. LogPast' /\ LogLive'
    BY <1>2, SelectingIs DEF LogPast, LogLive, Covered
  <1> QED BY <1>7, <1>8, <1>9, <1>11, <1>12, <1>13, <1>14, <1>15 DEF LogIInv

LEMMA LogStutterKeeps == ASSUME LogIInv, UNCHANGED Log!vars PROVE LogIInv'
  <1>1. UNCHANGED <<caller, gate, queue, answer, expired, queued, acked, files, dirty, past, dropped, fresh, lost, closer, closing, stop,
                    writer, troubled, crashes>>
    BY DEF Log!vars, Log!calls, Log!disk, Log!shutdown
  <1>2. Log!TypeOK' /\ LogGate' /\ LogClose'
    BY <1>1 DEF LogIInv, Log!TypeOK, LogGate, LogClose
  <1>3. LogOrder' /\ FilesInOrder' /\ LogSafe'
    BY <1>1, SameDisk DEF LogIInv, LogOrder, LogSafe
  <1>4. LogFull'
    BY <1>1, SameDisk, SizesAssumption DEF LogIInv, LogFull, Hole
  <1>5. LogPast' /\ LogLive'
    <2>1. queued \in Nat
      BY Lengths DEF LogIInv
    <2> QED BY <1>1, <2>1, PastGrows DEF LogIInv, LogLive
  <1> QED BY <1>2, <1>3, <1>4, <1>5 DEF LogIInv

-----------------------------------------------------------------------------
(* The first state *)

LEMMA Products ==
  ASSUME NEW a \in Nat, NEW b \in Nat, NEW m \in Nat
  PROVE  a * m \in Nat /\ (a <= b => a * m <= b * m) /\ (a + 1) * m = a * m + m
  OBVIOUS

\* Every number from 1 is on one place of one file of length m.
LEMMA Division ==
  ASSUME NEW e \in Nat \ {0}, NEW m \in Nat \ {0}
  PROVE  \E q \in Nat : \E n \in 1..m : e = q * m + n
  <1>1. PICK q \in Nat : m * q <= e - 1 /\ e - 1 < m * q + m
    <2>1. e - 1 \in Nat /\ (e - 1) \div m \in Nat
      OBVIOUS
    <2>2. m * ((e - 1) \div m) <= e - 1 /\ e - 1 < m * ((e - 1) \div m) + m
      OBVIOUS
    <2> QED BY <2>1, <2>2
  <1>2. m * q = q * m /\ q * m \in Nat
    OBVIOUS
  <1>3. e - q * m \in 1..m /\ e = q * m + (e - q * m)
    BY <1>1, <1>2
  <1> QED BY <1>3

LEMMA LeftIs ==
  ASSUME NEW i \in 0..Archives
  PROVE  /\ Log!Left(i) \in Seq(Log!Events)
         /\ i < Earlier => /\ Len(Log!Left(i)) = MaxBytes
                           /\ \A n \in 1..MaxBytes : /\ Log!Left(i)[n] = (Earlier - 1 - i) * MaxBytes + n
                                                     /\ Log!Left(i)[n] <= Earlier * MaxBytes
         /\ ~(i < Earlier) => Log!Left(i) = <<>>
  <1>0. MaxBytes \in Nat \ {0} /\ MaxEvents \in Nat /\ Earlier \in Nat /\ Earlier * MaxBytes <= MaxEvents /\ i \in Nat
    BY SizesAssumption
  <1>1. CASE i < Earlier
    <2> DEFINE a == Earlier - 1 - i
    <2>1. a \in Nat /\ a + 1 <= Earlier /\ a + 1 \in Nat
      BY <1>0, <1>1
    <2> HIDE DEF a
    <2>2. a * MaxBytes \in Nat /\ a * MaxBytes + MaxBytes <= Earlier * MaxBytes
      BY <1>0, <2>1, Products
    <2>3. \A n \in 1..MaxBytes : a * MaxBytes + n \in Nat \ {0} /\ a * MaxBytes + n <= Earlier * MaxBytes
      BY <1>0, <2>2
    <2>4. \A n \in 1..MaxBytes : a * MaxBytes + n \in Log!Events
      BY <1>0, <2>2, <2>3 DEF Log!Events
    <2>5. Log!Left(i) = [n \in 1..MaxBytes |-> a * MaxBytes + n]
      BY <1>1 DEF Log!Left, a
    <2>6. Log!Left(i) \in Seq(Log!Events) /\ Len(Log!Left(i)) = MaxBytes
      BY <1>0, <2>4, <2>5
    <2> QED BY <1>1, <2>3, <2>5, <2>6 DEF a
  <1>2. CASE ~(i < Earlier)
    BY <1>2 DEF Log!Left
  <1> QED BY <1>1, <1>2

LEMMA LogInitIs == ASSUME Log!Init PROVE LogIInv
  <1>0. /\ MaxBytes \in Nat \ {0} /\ MaxEvents \in Nat /\ Earlier \in Nat /\ Archives \in Nat \ {0}
        /\ Earlier * MaxBytes <= MaxEvents /\ Earlier * MaxBytes \in Nat /\ Earlier <= Archives + 1
    BY SizesAssumption, Products
  <1>1. /\ caller = [c \in Callers |-> Log!Idle] /\ gate = "free" /\ queue = <<>> /\ expired = {} /\ dirty = {} /\ dropped = {}
        /\ past = {} /\ fresh = {} /\ lost = {}
        /\ answer = [e \in Log!Events |-> "none"] /\ writer = Log!Selecting /\ closer = "idle" /\ closing = FALSE /\ stop = FALSE
        /\ acked = 1..(Earlier * MaxBytes) /\ queued = Earlier * MaxBytes /\ troubled = FALSE /\ crashes = 0
    BY DEF Log!Init
  <1>2. files = [i \in 0..Archives |-> Log!Left(i)]
    BY DEF Log!Init
  <1>3. /\ \A i \in 0..Archives : files[i] = Log!Left(i) /\ files[i] \in Seq(Log!Events)
        /\ \A i \in 0..Archives : i < Earlier =>
              Len(files[i]) = MaxBytes /\ \A n \in 1..MaxBytes : files[i][n] = (Earlier - 1 - i) * MaxBytes + n
                                                                 /\ files[i][n] <= Earlier * MaxBytes
        /\ \A i \in 0..Archives : ~(i < Earlier) => files[i] = <<>>
    BY <1>2, LeftIs
  <1>4. \A i \in 0..Archives : ~(i < Earlier) => Len(files[i]) = 0
    BY <1>3
  <1>5. Log!Idle \in Log!CallerState /\ Log!Idle.pc = "idle" /\ Log!Idle.event = Log!NoEvent
    BY DEF Log!Idle, Log!CallerState
  <1>6. Log!TypeOK
    <2>1. files \in [0..Archives -> Seq(Log!Events \cup {Log!Torn})]
      <3>1. \A i \in 0..Archives : Log!Left(i) \in Seq(Log!Events \cup {Log!Torn})
        BY LeftIs
      <3> QED BY <1>2, <3>1
    <2>2. queue \in Seq(Log!Events) /\ Len(queue) <= QueueSize /\ crashes \in 0..MaxCrashes
      BY <1>1, SizesAssumption
    <2>3. caller \in [Callers -> Log!CallerState] /\ answer \in [Log!Events -> {"none", "ok", "error"}] /\ writer \in Log!WriterState
      BY <1>1, <1>5, SelectingIs
    <2>4. acked \subseteq Log!Events /\ queued \in 0..MaxEvents
      BY <1>0, <1>1 DEF Log!Events
    <2> QED BY <1>1, <2>1, <2>2, <2>3, <2>4 DEF Log!TypeOK
  <1>7. LogGate /\ LogClose
    BY <1>1, <1>5, SelectingIs, CallersAssumption DEF LogGate, LogClose
  <1>8. LogOrder
    <2>1. \A i \in 0..Archives : \A n \in 1..Len(files[i]) : files[i][n] <= queued
      BY <1>1, <1>3, <1>4
    <2>2. Len(queue) = 0 /\ writer.event = Log!NoEvent /\ writer.pc = "select"
      BY <1>1, SelectingIs
    <2> QED BY <1>1, <2>1, <2>2 DEF LogOrder, Log!Appending
  <1>9. FilesInOrder
    <2> SUFFICES ASSUME NEW i \in 0..Archives, NEW j \in 0..Archives, i < j,
                        NEW m \in 1..Len(files[i]), NEW n \in 1..Len(files[j])
                 PROVE  files[j][n] < files[i][m]
      BY <1>1 DEF FilesInOrder
    <2>1. j < Earlier /\ i < Earlier
      BY <1>0, <1>4
    <2> DEFINE a == Earlier - 1 - i
               b == Earlier - 1 - j
    <2>2. m \in 1..MaxBytes /\ n \in 1..MaxBytes /\ files[i][m] = a * MaxBytes + m /\ files[j][n] = b * MaxBytes + n
      BY <1>3, <2>1
    <2>3. a \in Nat /\ b \in Nat /\ b + 1 <= a /\ b + 1 \in Nat
      BY <1>0, <2>1
    <2> HIDE DEF a, b
    <2>4. a * MaxBytes \in Nat /\ b * MaxBytes \in Nat /\ b * MaxBytes + MaxBytes <= a * MaxBytes
      BY <1>0, <2>3, Products
    <2> QED BY <1>0, <2>2, <2>4
  <1>10. LogSafe
    <2>1. ASSUME NEW e \in acked PROVE Safe(e)
      <3>1. e \in Nat \ {0} /\ e <= Earlier * MaxBytes
        BY <1>0, <1>1
      <3>2. PICK q \in Nat, n \in 1..MaxBytes : e = q * MaxBytes + n
        BY <1>0, <3>1, Division
      <3>3. q < Earlier
        <4> SUFFICES ASSUME Earlier <= q PROVE FALSE
          BY <1>0
        <4>1. Earlier * MaxBytes <= q * MaxBytes /\ q * MaxBytes \in Nat
          BY <1>0, Products
        <4> QED BY <1>0, <3>1, <3>2, <4>1
      <3> DEFINE i == Earlier - 1 - q
      <3>4. i \in 0..Archives /\ i < Earlier /\ Earlier - 1 - i = q
        BY <1>0, <3>3
      <3> HIDE DEF i
      <3>5. n \in 1..Len(files[i]) /\ files[i][n] = e
        BY <1>3, <3>2, <3>4
      <3> QED BY <1>1, <3>4, <3>5 DEF Safe
    <2> QED BY <1>1, <2>1, SelectingIs DEF LogSafe
  <1>11. LogFull
    <2>1. \A i \in 0..Archives : IF i < Earlier THEN Full(i) /\ ~Empty(i) ELSE Empty(i)
      BY <1>0, <1>3 DEF Full, Empty
    <2> QED BY <1>0, <1>1, <2>1, SelectingIs DEF LogFull
  <1>12. LogPast /\ LogLive
    BY <1>1, SelectingIs DEF LogPast, LogLive, Covered
  <1> QED BY <1>6, <1>7, <1>8, <1>9, <1>10, <1>11, <1>12 DEF LogIInv

-----------------------------------------------------------------------------
(* The theorems *)

LEMMA LogInvariance == Log!Spec => []LogIInv
  <1>1. Log!Init => LogIInv
    BY LogInitIs
  <1>2. LogIInv /\ [Log!Next]_(Log!vars) => LogIInv'
    <2> SUFFICES ASSUME LogIInv, [Log!Next]_(Log!vars) PROVE LogIInv'
      OBVIOUS
    <2>1. CASE \E c \in Callers : Log!Record(c) \/ Log!ContextDone(c) \/ Log!RecordStep(c)
      BY <2>1, RecordKeeps, ContextDoneKeeps, AnswerKeeps, SendKeeps DEF Log!RecordStep
    <2>2. CASE Log!WriterStep
      BY <2>2, WriterTakesKeeps, WriterRepliesKeeps, BeginKeeps, RemoveKeeps, MoveKeeps, SettleKeeps, WriteKeeps, TornWriteKeeps, SyncKeeps
         DEF Log!WriterStep
    <2>3. CASE Log!Close \/ Log!CloseStep
      BY <2>3, CloseKeeps DEF Log!CloseStep
    <2>4. CASE Log!Crash
      BY <2>4, CrashKeeps
    <2>5. CASE UNCHANGED Log!vars
      BY <2>5, LogStutterKeeps
    <2> QED BY <2>1, <2>2, <2>3, <2>4, <2>5 DEF Log!Next
  <1> QED BY <1>1, <1>2, PTL DEF Log!Spec

\* The queue, the files and the goroutines of the log keep their types; the queue
\* stays within its capacity.
THEOREM LogTypeCorrect == Log!Spec => []Log!TypeOK
  <1>1. LogIInv => Log!TypeOK
    BY DEF LogIInv
  <1> QED BY <1>1, LogInvariance, PTL

\* The files without the hole, when all of them are full.
LEMMA LinesOfFullFiles ==
  ASSUME Log!TypeOK, \A i \in 0..Archives : i # Hole => Full(i)
  PROVE  Lines >= Archives * MaxBytes
  <1> DEFINE A == 0..Archives
             B == 1..MaxBytes
             C == A \ {Hole}
             S == {p \in A \X B : p[2] <= Len(files[p[1]])}
  <1>0. Archives \in Nat /\ MaxBytes \in Nat /\ 0 \in Int /\ 1 \in Int
    BY SizesAssumption
  <1>1. Hole \in A
    BY SizesAssumption DEF Hole, Log!TypeOK, Log!WriterState
  <1>2. /\ IsFiniteSet(A) /\ Cardinality(A) = Archives + 1
        /\ IsFiniteSet(B) /\ Cardinality(B) = MaxBytes
    <2>1. IsFiniteSet(A) /\ Cardinality(A) = Archives + 1
      BY <1>0, FS_Interval
    <2>2. IsFiniteSet(B) /\ Cardinality(B) = MaxBytes
      BY <1>0, FS_Interval
    <2> QED BY <2>1, <2>2
  <1>3. C \X B \subseteq S
    BY Lengths, SizesAssumption DEF Full
  <1>4. S \subseteq A \X B
    OBVIOUS
  <1>9. Lines = Cardinality(S)
    BY DEF Lines
  <1> HIDE DEF A, B, S
  <1>5. IsFiniteSet(C) /\ Cardinality(C) = Archives
    BY <1>0, <1>1, <1>2, FS_RemoveElement
  <1> HIDE DEF C
  <1>6. IsFiniteSet(A \X B) /\ IsFiniteSet(C \X B) /\ Cardinality(C \X B) = Archives * MaxBytes
    BY <1>2, <1>5, FS_Product
  <1>7. IsFiniteSet(S)
    BY <1>4, <1>6, FS_Subset
  <1>8. Cardinality(C \X B) <= Cardinality(S) /\ Cardinality(S) \in Nat /\ Cardinality(C \X B) \in Nat
    BY <1>3, <1>7, FS_Subset, FS_CardinalityType
  <1> QED BY <1>6, <1>8, <1>9

\* An event for which Record returned nil stays on the disk through failed and
\* interrupted rotations, torn writes and crashes until its archive is removed,
\* oldest first, and not before the archives are full unless a rotation was cut
\* short.  A crash takes it only with a file created since the directory was last
\* synced.  For any number of archives and of lines in a file.
THEOREM AckedStays == Log!Spec => []AckedIsKept
  <1>1. LogIInv => AckedIsKept
    <2> SUFFICES ASSUME LogIInv PROVE AckedIsKept
      OBVIOUS
    <2>0. Log!TypeOK
      BY DEF LogIInv
    <2>1. acked \subseteq Kept \cup dropped \cup lost
      <3> SUFFICES ASSUME NEW e \in acked, e \notin dropped \cup lost PROVE e \in Kept
        OBVIOUS
      <3>1. e \in Log!Events /\ e # Log!Torn
        BY <2>0, SizesAssumption DEF Log!TypeOK, Log!Events, Log!Torn
      <3>2. PICK i \in 0..Archives : \E n \in 1..Len(files[i]) : files[i][n] = e
        BY DEF LogIInv, LogSafe, Safe
      <3>3. e \in Log!InFile(i)
        BY <2>0, <3>1, <3>2, InFileIs
      <3> QED BY <3>3 DEF Kept, InFile, Log!InFile, Torn, Log!Torn
    <2>2. \A d \in dropped, e \in Kept : d < e
      <3> SUFFICES ASSUME NEW d \in dropped, NEW i \in 0..Archives, NEW e \in Log!InFile(i) PROVE d < e
        BY DEF Kept, InFile, Log!InFile, Torn, Log!Torn
      <3>1. e # Log!Torn /\ \E n \in 1..Len(files[i]) : files[i][n] = e
        BY <2>0, InFileIs
      <3> QED BY <3>1 DEF LogIInv, FilesInOrder
    <2>3. dropped # {} => troubled \/ Lines >= Archives * MaxBytes
      BY <2>0, LinesOfFullFiles DEF LogIInv, LogFull
    <2> QED BY <2>1, <2>2, <2>3 DEF AckedIsKept
  <1> QED BY <1>1, LogInvariance, PTL

\* When Close has returned nil the writer is gone, the queue is empty and no
\* caller of Record can put an event there any more.
THEOREM CloseIsFinal == Log!Spec => []ClosedIsFinal
  <1>1. LogIInv => ClosedIsFinal
    BY DEF LogIInv, LogClose, ClosedIsFinal
  <1> QED BY <1>1, LogInvariance, PTL

=============================================================================
