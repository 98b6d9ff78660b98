---------------------------- MODULE BridgeProofs ----------------------------
(***************************************************************************)
(* The bridge server, for any numbers of clients, capabilities, requests   *)
(* and maintenance goroutines.                                             *)
(*                                                                         *)
(* The invariant has a part for each piece of state that two goroutines    *)
(* share.  Capabilities are opened in the order of their numbers and the   *)
(* owners map counts them, so that a callback is due only for an owner     *)
(* without one, and what is opened later has a larger number               *)
(* (NoticesAreOld).  Requests that run are counted, but for the early ones *)
(* (RunningIsCounted).                                                     *)
(***************************************************************************)
EXTENDS Bridge, FiniteSetTheorems, TLAPS

-----------------------------------------------------------------------------
\* Capabilities are numbered in the order in which they are opened.
OpenedInOrder == \A s \in Session : session[s].state # "unused" <=> s <= Opened

\* Server.owners counts the open capabilities of each owner.
OwnersCount == \A o \in Owners : owners[o] = Cardinality(SessionsOf(o))

\* Whoever has a capability again since a callback became due opened it later.
NoticesAreOld ==
    \A n \in notices :
        /\ n.known <= Opened
        /\ \A s \in SessionsOf(n.owner) : n.known < s

CapabilityInv ==
    /\ phase \in Phase
    /\ alive \subseteq Owners
    /\ session \in [Session -> Capability]
    /\ owners \in [Owners -> 0..MaxSessions]
    /\ notices \subseteq Notice
    /\ work \subseteq Session
    /\ OpenedInOrder
    /\ OwnersCount
    /\ NoticesAreOld

\* Requests past beginBridgeRequest, and those of them that have not finished.
Begun == {r \in Requests : request[r].pc \notin {"none", "authorized"}}
Running == {r \in Requests : request[r].pc \in {"begun", "working"}}

\* The requests that finish have been counted, or came early, unless the daemon
\* is being closed.
RunningIsCounted ==
    phase \in {"listening", "serving"} => Cardinality(Running) <= activeRequests + early

\* A remote operation carries the capability it came through.
Carries(q) == q.kind = "remote" /\ q.pc \in {"authorized", "begun", "working"} => q.session \in Session

RequestInv ==
    /\ request \in [Requests -> Request]
    /\ activeRequests \in Nat /\ early \in Nat
    /\ activeRequests + early <= Cardinality(Begun)
    /\ RunningIsCounted
    /\ \A r \in Requests :
          /\ request[r].counted => r \in Running
          /\ Carries(request[r])

\* Whoever runs a maintenance operation is alone and has the flag set.
MaintenanceInv ==
    /\ maintenance \in [Maintainers -> MaintenanceState]
    /\ maintenanceActive \in BOOLEAN
    /\ \A m \in Maintainers : maintenance[m] = "active" =>
          /\ maintenanceActive
          /\ \A n \in Maintainers : maintenance[n] = "active" => n = m

IInv ==
    /\ CapabilityInv
    /\ RequestInv
    /\ MaintenanceInv
    /\ quiet \in BOOLEAN /\ stop \in BOOLEAN

-----------------------------------------------------------------------------
(* Counting *)

Used == {s \in Session : session[s].state # "unused"}

LEMMA SessionsFinite ==
  /\ IsFiniteSet(Session) /\ Cardinality(Session) = MaxSessions
  /\ \A S \in SUBSET Session : IsFiniteSet(S) /\ Cardinality(S) \in 0..MaxSessions
  <1>1. IsFiniteSet(Session) /\ Cardinality(Session) = MaxSessions
    BY MaxSessionsAssumption, FS_Interval DEF Session
  <1>2. ASSUME NEW S \in SUBSET Session PROVE IsFiniteSet(S) /\ Cardinality(S) \in 0..MaxSessions
    BY <1>1, FS_Subset, FS_CardinalityType, MaxSessionsAssumption
  <1> QED BY <1>1, <1>2

LEMMA OpenedType == Opened \in 0..MaxSessions
  BY SessionsFinite DEF Opened

LEMMA RequestsFinite ==
  /\ Cardinality(Requests) \in Nat
  /\ \A R \in SUBSET Requests :
        IsFiniteSet(R) /\ Cardinality(R) \in Nat /\ Cardinality(R) <= Cardinality(Requests)
  BY RequestsAssumption, FS_Subset, FS_CardinalityType

\* What depends on the state and the owner of each capability only.
LEMMA SameCapabilities ==
  ASSUME CapabilityInv, session' \in [Session -> Capability],
         \A s \in Session : session'[s].state = session[s].state /\ session'[s].owner = session[s].owner
  PROVE  Opened' = Opened /\ \A o \in Owners : SessionsOf(o)' = SessionsOf(o)
  BY DEF Opened, SessionsOf, OpenSessions, Open

LEMMA RefreshKeeps ==
  ASSUME CapabilityInv, session' \in [Session -> Capability],
         \A s \in Session : session'[s].state = session[s].state /\ session'[s].owner = session[s].owner,
         phase' \in Phase, alive' \subseteq Owners, work' \subseteq Session, notices' \subseteq notices,
         UNCHANGED owners
  PROVE  CapabilityInv'
  <1>1. Opened' = Opened /\ \A o \in Owners : SessionsOf(o)' = SessionsOf(o)
    BY SameCapabilities
  <1>2. OpenedInOrder' /\ OwnersCount'
    BY <1>1 DEF CapabilityInv, OpenedInOrder, OwnersCount
  <1>3. NoticesAreOld'
    BY <1>1 DEF CapabilityInv, NoticesAreOld, Notice
  <1> QED BY <1>2, <1>3 DEF CapabilityInv

-----------------------------------------------------------------------------
(* Capabilities *)

LEMMA OpenKeeps == ASSUME CapabilityInv, NEW o \in Owners, handleOpen(o) PROVE CapabilityInv'
  <1> DEFINE new == Opened + 1
  <1>1. new \in Session /\ Opened \in Nat
    BY OpenedType, MaxSessionsAssumption DEF handleOpen, Session
  <1>2. /\ session' \in [Session -> Capability]
        /\ session'[new] = [state |-> "open", owner |-> o, fresh |-> TRUE]
        /\ \A s \in Session : s # new => session'[s] = session[s]
    BY <1>1 DEF handleOpen, CapabilityInv, Capability
  <1>3. session[new].state = "unused"
    BY <1>1 DEF CapabilityInv, OpenedInOrder
  <1>4. Opened' = Opened + 1
    <2>1. Used' = Used \cup {new} /\ new \notin Used
      BY <1>1, <1>2, <1>3 DEF Used
    <2> QED BY <2>1, SessionsFinite, FS_AddElement DEF Used, Opened
  <1>5. OpenedInOrder'
    <2> SUFFICES ASSUME NEW s \in Session PROVE session'[s].state # "unused" <=> s <= Opened'
      BY DEF OpenedInOrder
    <2>1. s \in Nat
      BY MaxSessionsAssumption DEF Session
    <2> QED BY <1>1, <1>2, <1>4, <2>1 DEF CapabilityInv, OpenedInOrder
  <1>6. SessionsOf(o)' = SessionsOf(o) \cup {new} /\ new \notin SessionsOf(o)
    BY <1>1, <1>2, <1>3 DEF SessionsOf, OpenSessions, Open
  <1>7. \A p \in Owners : p # o => SessionsOf(p)' = SessionsOf(p)
    BY <1>1, <1>2, <1>3 DEF SessionsOf, OpenSessions, Open
  <1>8. \A p \in Owners : SessionsOf(p) \in SUBSET Session /\ SessionsOf(p)' \in SUBSET Session
    BY DEF SessionsOf, OpenSessions
  <1>9. Cardinality(SessionsOf(o)') = Cardinality(SessionsOf(o)) + 1
    BY <1>6, <1>8, SessionsFinite, FS_AddElement
  <1>10. OwnersCount' /\ owners' \in [Owners -> 0..MaxSessions]
    <2>1. \A p \in Owners : owners'[p] = Cardinality(SessionsOf(p)')
      BY <1>7, <1>9 DEF handleOpen, CapabilityInv, OwnersCount
    <2>2. DOMAIN owners' = Owners /\ owners' = [p \in Owners |-> owners'[p]]
      BY DEF handleOpen, CapabilityInv
    <2> QED BY <1>8, <2>1, <2>2, SessionsFinite DEF OwnersCount
  <1>11. NoticesAreOld'
    <2> SUFFICES ASSUME NEW n \in notices
                 PROVE  n.known <= Opened' /\ \A s \in SessionsOf(n.owner)' : n.known < s
      BY DEF NoticesAreOld, handleOpen
    <2>1. n.owner \in Owners /\ n.known \in Nat /\ n.known <= Opened
      BY MaxSessionsAssumption DEF CapabilityInv, NoticesAreOld, Notice, Session
    <2>2. \A s \in SessionsOf(n.owner) : n.known < s
      BY DEF CapabilityInv, NoticesAreOld
    <2> QED BY <1>1, <1>4, <1>6, <1>7, <2>1, <2>2
  <1> QED BY <1>2, <1>5, <1>10, <1>11 DEF CapabilityInv, handleOpen

\* The callbacks that Remove makes due.
LEMMA RemoveKeeps ==
  ASSUME CapabilityInv, NEW removed \in SUBSET OpenSessions, NEW kept \in SUBSET OpenSessions,
         Remove(removed, kept), phase' \in Phase, alive' \subseteq Owners, work' \subseteq Session
  PROVE  CapabilityInv'
  <1> DEFINE gone(o) == {s \in removed : session[s].owner = o}
             n(o) == Cardinality(gone(o))
             losing == {o \in Owners : n(o) > 0}
             last == {p \in losing : LastForOwner(p, n(p))}
  <1>1. /\ session' = [s \in Session |->
                        IF s \in removed THEN [session[s] EXCEPT !.state = "gone", !.fresh = FALSE]
                        ELSE IF s \in kept THEN [session[s] EXCEPT !.fresh = TRUE]
                        ELSE session[s]]
        /\ owners' = [o \in Owners |-> IF o \in losing THEN Remaining(o, n(o)) ELSE owners[o]]
        /\ notices' = notices \cup {[owner |-> o, known |-> Opened] : o \in last}
    BY DEF Remove
  <1>2. removed \in SUBSET Session /\ kept \in SUBSET Session
    BY DEF OpenSessions
  <1>3. session' \in [Session -> Capability]
    BY <1>1 DEF CapabilityInv, Capability
  <1>4. \A s \in Session : /\ session'[s].owner = session[s].owner
                           /\ session'[s].state = IF s \in removed THEN "gone" ELSE session[s].state
    BY <1>1 DEF CapabilityInv, Capability
  <1>5. \A s \in removed : session[s].state = "open"
    BY DEF OpenSessions, Open
  <1>6. Opened' = Opened
    <2>1. Used' = Used
      BY <1>2, <1>4, <1>5 DEF Used
    <2> QED BY <2>1 DEF Used, Opened
  <1>7. OpenedInOrder'
    BY <1>2, <1>4, <1>5, <1>6 DEF CapabilityInv, OpenedInOrder
  <1>8. ASSUME NEW o \in Owners
        PROVE  /\ gone(o) \in SUBSET SessionsOf(o) /\ SessionsOf(o) \in SUBSET Session
               /\ SessionsOf(o)' = SessionsOf(o) \ gone(o)
               /\ owners'[o] = owners[o] - n(o) /\ owners'[o] = Cardinality(SessionsOf(o)')
               /\ n(o) \in Nat /\ owners[o] \in Nat /\ owners'[o] \in 0..MaxSessions
    <2>1. gone(o) \in SUBSET SessionsOf(o) /\ SessionsOf(o) \in SUBSET Session
      BY <1>2, <1>5 DEF SessionsOf, OpenSessions, Open
    <2>2. SessionsOf(o)' = SessionsOf(o) \ gone(o)
      BY <1>2, <1>4, <1>5 DEF SessionsOf, OpenSessions, Open
    <2>3. SessionsOf(o) \cap gone(o) = gone(o)
      BY <2>1
    <2>4. IsFiniteSet(SessionsOf(o)) /\ Cardinality(SessionsOf(o)) \in 0..MaxSessions
          /\ Cardinality(SessionsOf(o) \ gone(o)) \in 0..MaxSessions
      BY <2>1, SessionsFinite
    <2>5. Cardinality(SessionsOf(o)') = Cardinality(SessionsOf(o)) - n(o)
      BY <2>2, <2>3, <2>4, FS_Difference
    <2>6. n(o) \in Nat /\ n(o) <= Cardinality(SessionsOf(o))
      <3>1. IsFiniteSet(gone(o)) /\ Cardinality(gone(o)) <= Cardinality(SessionsOf(o))
        BY <2>1, <2>4, FS_Subset
      <3> QED BY <3>1, FS_CardinalityType
    <2>7. owners[o] = Cardinality(SessionsOf(o))
      BY DEF CapabilityInv, OwnersCount
    <2>8. owners'[o] = owners[o] - n(o)
      <3> HIDE DEF n, gone
      <3>1. owners'[o] = IF o \in losing THEN Remaining(o, n(o)) ELSE owners[o]
        BY <1>1
      <3>2. o \in losing <=> n(o) > 0
        OBVIOUS
      <3> HIDE DEF losing
      <3> QED BY <2>4, <2>6, <2>7, <3>1, <3>2, MaxSessionsAssumption DEF Remaining
    <2> HIDE DEF n, gone
    <2> QED BY <2>1, <2>2, <2>4, <2>5, <2>6, <2>7, <2>8, MaxSessionsAssumption
  <1> HIDE DEF n
  <1>9. owners' \in [Owners -> 0..MaxSessions] /\ OwnersCount'
    <2>1. owners' = [o \in Owners |-> owners'[o]]
      BY <1>1
    <2>2. \A o \in Owners : owners'[o] = Cardinality(SessionsOf(o)') /\ owners'[o] \in 0..MaxSessions
      BY <1>8
    <2> QED BY <2>1, <2>2 DEF OwnersCount
  <1>10. ASSUME NEW p \in last PROVE p \in Owners /\ SessionsOf(p)' = {} /\ SessionsOf(p) # {}
    <2>1. p \in Owners /\ n(p) > 0 /\ owners[p] <= n(p)
      BY DEF LastForOwner
    <2>2. Cardinality(SessionsOf(p)') = 0 /\ owners[p] > 0
      BY <1>8, <2>1
    <2>3. IsFiniteSet(SessionsOf(p)') /\ IsFiniteSet(SessionsOf(p)) /\ Cardinality(SessionsOf(p)) = owners[p]
      BY <1>8, <2>1, SessionsFinite DEF CapabilityInv, OwnersCount
    <2> QED BY <2>1, <2>2, <2>3, FS_EmptySet
  <1>11. ASSUME NEW p \in last PROVE [owner |-> p, known |-> Opened] \in Notice
    <2>1. PICK s \in SessionsOf(p) : TRUE
      BY <1>10
    <2>2. s \in Session /\ s <= Opened
      BY <2>1 DEF CapabilityInv, OpenedInOrder, SessionsOf, OpenSessions, Open
    <2>3. Opened \in Session
      BY <2>2, OpenedType, MaxSessionsAssumption DEF Session
    <2> QED BY <1>10, <2>3 DEF Notice
  <1>12. NoticesAreOld'
    <2> SUFFICES ASSUME NEW k \in notices'
                 PROVE  k.known <= Opened' /\ \A s \in SessionsOf(k.owner)' : k.known < s
      BY DEF NoticesAreOld
    <2>1. CASE k \in notices
      <3>1. k.owner \in Owners
        BY <2>1 DEF CapabilityInv, Notice
      <3> QED BY <1>6, <1>8, <2>1, <3>1 DEF CapabilityInv, NoticesAreOld
    <2>2. CASE k \notin notices
      <3> HIDE DEF last
      <3>1. PICK p \in last : k = [owner |-> p, known |-> Opened]
        BY <1>1, <2>2
      <3> QED BY <1>6, <1>10, <3>1, OpenedType
    <2> QED BY <2>1, <2>2
  <1>13. notices' \subseteq Notice
    <2> HIDE DEF last
    <2> QED BY <1>1, <1>11 DEF CapabilityInv
  <1> QED BY <1>3, <1>7, <1>9, <1>12, <1>13 DEF CapabilityInv

LEMMA ExpireKeeps ==
  ASSUME CapabilityInv, expireSessions, phase' \in Phase, alive' \subseteq Owners, work' \subseteq Session
  PROVE  CapabilityInv'
  BY RemoveKeeps DEF expireSessions

LEMMA CloseKeeps == ASSUME CapabilityInv, CloseBridge PROVE CapabilityInv'
  <1>1. session' \in [Session -> Capability] /\ phase' = "down" /\ UNCHANGED <<alive, work>>
    BY DEF CloseBridge, CapabilityInv, Capability
  <1>2. \A s \in Session : session'[s].state = IF session[s].state = "open" THEN "gone" ELSE session[s].state
    BY DEF CloseBridge, CapabilityInv, Capability, Open
  <1>3. Opened' = Opened
    <2>1. Used' = Used
      BY <1>2 DEF Used
    <2> QED BY <2>1 DEF Used, Opened
  <1>4. OpenedInOrder'
    BY <1>2, <1>3 DEF CapabilityInv, OpenedInOrder
  <1>5. \A o \in Owners : SessionsOf(o)' = {}
    BY <1>2 DEF SessionsOf, OpenSessions, Open
  <1>6. OwnersCount' /\ owners' \in [Owners -> 0..MaxSessions]
    <2>1. owners' = [o \in Owners |-> 0]
      BY DEF CloseBridge
    <2>2. \A o \in Owners : owners'[o] = Cardinality(SessionsOf(o)')
      BY <1>5, <2>1, FS_EmptySet
    <2>3. owners' \in [Owners -> 0..MaxSessions]
      BY <2>1, MaxSessionsAssumption
    <2> QED BY <2>2, <2>3 DEF OwnersCount
  <1>7. ASSUME NEW s \in OpenSessions
        PROVE  [owner |-> session[s].owner, known |-> Opened] \in Notice
    <2>1. s \in Session /\ s <= Opened /\ session[s].owner \in Owners
      BY DEF CapabilityInv, Capability, OpenedInOrder, OpenSessions, Open
    <2>2. Opened \in Session
      BY <2>1, OpenedType, MaxSessionsAssumption DEF Session
    <2> QED BY <2>1, <2>2 DEF Notice
  <1>8. ASSUME NEW n \in notices', n \notin notices
        PROVE  \E s \in OpenSessions : n = [owner |-> session[s].owner, known |-> Opened]
    BY <1>8 DEF CloseBridge
  <1>9. notices' \subseteq Notice
    BY <1>7, <1>8 DEF CapabilityInv
  <1>10. NoticesAreOld'
    <2> SUFFICES ASSUME NEW n \in notices' PROVE n.known <= Opened' /\ SessionsOf(n.owner)' = {}
      BY DEF NoticesAreOld
    <2>1. n.owner \in Owners
      BY <1>9 DEF Notice
    <2>2. CASE n \in notices
      BY <1>3, <1>5, <2>1, <2>2 DEF CapabilityInv, NoticesAreOld
    <2>3. CASE n \notin notices
      <3>1. n.known = Opened
        BY <1>8, <2>3
      <3> QED BY <1>3, <1>5, <2>1, <3>1, OpenedType
    <2> QED BY <2>2, <2>3
  <1> QED BY <1>1, <1>4, <1>6, <1>9, <1>10 DEF CapabilityInv, Phase

-----------------------------------------------------------------------------
(* Requests *)

LEMMA RequestCounts ==
  /\ IsFiniteSet(Begun) /\ Cardinality(Begun) \in Nat /\ Cardinality(Begun) <= Cardinality(Requests)
  /\ IsFiniteSet(Running) /\ Cardinality(Running) \in Nat
  /\ IsFiniteSet(Counted) /\ Cardinality(Counted) \in Nat
  <1>1. Begun \in SUBSET Requests /\ Running \in SUBSET Requests /\ Counted \in SUBSET Requests
    BY DEF Begun, Running, Counted
  <1> QED BY <1>1, RequestsFinite

LEMMA RequestsStay ==
  ASSUME RequestInv, UNCHANGED <<request, activeRequests, early>>,
         phase' \in {"listening", "serving"} => phase \in {"listening", "serving"}
  PROVE  RequestInv'
  <1>1. Begun' = Begun /\ Running' = Running
    BY DEF Begun, Running
  <1>2. RunningIsCounted'
    BY <1>1 DEF RequestInv, RunningIsCounted
  <1> QED BY <1>1, <1>2 DEF RequestInv

\* A step of one request that neither begins nor ends it.
LEMMA RequestMoves ==
  ASSUME RequestInv, NEW r \in Requests, NEW q \in Request, request' = [request EXCEPT ![r] = q],
         q.pc \in {"begun", "working"} <=> r \in Running,
         q.pc \notin {"none", "authorized"} <=> r \in Begun,
         q.counted => r \in Running,
         Carries(q), UNCHANGED <<phase, activeRequests, early>>
  PROVE  RequestInv'
  <1>1. request' \in [Requests -> Request] /\ request'[r] = q /\ \A t \in Requests : t # r => request'[t] = request[t]
    BY DEF RequestInv
  <1>2. Begun' = Begun /\ Running' = Running
    BY <1>1 DEF Begun, Running
  <1>3. RunningIsCounted'
    BY <1>2 DEF RequestInv, RunningIsCounted
  <1> QED BY <1>1, <1>2, <1>3 DEF RequestInv

LEMMA NoRequestType == NoRequest \in Request /\ ~NoRequest.counted
  BY MaxSessionsAssumption DEF NoRequest, Request, Kind, Bypass

LEMMA AuthorizeKeeps ==
  ASSUME CapabilityInv, RequestInv, NEW r \in Requests, NEW s \in Session, NEW kind \in Kind,
         authorizedSession(r, s, kind)
  PROVE  CapabilityInv' /\ RequestInv'
  <1>1. /\ session' \in [Session -> Capability]
        /\ \A t \in Session : session'[t].state = session[t].state /\ session'[t].owner = session[t].owner
    BY DEF authorizedSession, CapabilityInv, Capability
  <1>2. CapabilityInv'
    <2>1. phase' \in Phase /\ alive' \subseteq Owners /\ work' \subseteq Session /\ notices' \subseteq notices
          /\ UNCHANGED owners
      BY DEF authorizedSession, CapabilityInv
    <2> QED BY <1>1, <2>1, RefreshKeeps
  <1> DEFINE q == [NoRequest EXCEPT !.pc = "authorized", !.kind = kind, !.session = IF kind = "remote" THEN s ELSE 0]
  <1>3. q \in Request /\ q.pc = "authorized" /\ Carries(q) /\ ~q.counted
    <2>1. NoRequest \in Request /\ ~NoRequest.counted
      BY NoRequestType
    <2>2. s \in 0..MaxSessions /\ 0 \in 0..MaxSessions
      BY MaxSessionsAssumption DEF Session
    <2> QED BY <2>1, <2>2 DEF Request, Carries
  <1>4. request[r].pc = "none" /\ request' = [request EXCEPT ![r] = q] /\ UNCHANGED <<phase, activeRequests, early>>
    BY DEF authorizedSession
  <1> HIDE DEF q
  <1>5. RequestInv'
    BY <1>3, <1>4, RequestMoves DEF Running, Begun
  <1> QED BY <1>2, <1>5

LEMMA BeginKeeps == ASSUME RequestInv, NEW r \in Requests, beginBridgeRequest(r) PROVE RequestInv'
  <1> DEFINE counted == phase = "serving"
  <1>0. request[r].pc = "authorized" /\ request[r] \in Request /\ UNCHANGED phase
    BY DEF beginBridgeRequest, RequestInv
  <1>1. /\ request' \in [Requests -> Request]
        /\ request'[r].pc = "begun" /\ Carries(request'[r])
        /\ \A t \in Requests : t # r => request'[t] = request[t]
    <2> DEFINE x == [request[r] EXCEPT !.pc = "begun"]
               y == [x EXCEPT !.counted = counted]
    <2>1. request \in [Requests -> Request] /\ request' = [request EXCEPT ![r].pc = "begun", ![r].counted = counted]
      BY DEF beginBridgeRequest, RequestInv
    <2>2. x \in Request /\ x.pc = "begun" /\ Carries(x)
      BY <1>0 DEF Request, RequestInv, Carries
    <2>3. request' = [request EXCEPT ![r] = y]
      BY <2>1
    <2> HIDE DEF x
    <2>4. y \in Request /\ y.pc = "begun" /\ Carries(y)
      BY <2>2 DEF Request, Carries
    <2> HIDE DEF y
    <2> QED BY <2>1, <2>3, <2>4
  <1>2. Begun' = Begun \cup {r} /\ r \notin Begun /\ Running' = Running \cup {r} /\ r \notin Running
    BY <1>0, <1>1 DEF Begun, Running
  <1>3. Cardinality(Begun') = Cardinality(Begun) + 1 /\ Cardinality(Running') = Cardinality(Running) + 1
    BY <1>2, RequestCounts, FS_AddElement
  <1>4. /\ activeRequests' = IF phase = "serving" THEN activeRequests + 1 ELSE activeRequests
        /\ early' = IF phase = "listening" THEN early + 1 ELSE early
    BY DEF beginBridgeRequest
  <1>5. activeRequests' \in Nat /\ early' \in Nat /\ activeRequests' + early' <= Cardinality(Begun')
    BY <1>3, <1>4, RequestCounts DEF RequestInv
  <1>6. RunningIsCounted'
    BY <1>0, <1>3, <1>4, RequestCounts DEF RequestInv, RunningIsCounted
  <1>7. ASSUME NEW t \in Requests
        PROVE  /\ request'[t].counted => t \in Running'
               /\ Carries(request'[t])
    <2>1. CASE t = r
      BY <1>0, <1>1, <1>2, <2>1 DEF RequestInv
    <2>2. CASE t # r
      BY <1>1, <1>2, <2>2 DEF RequestInv
    <2> QED BY <2>1, <2>2
  <1> QED BY <1>1, <1>5, <1>6, <1>7 DEF RequestInv

LEMMA FinishKeeps ==
  ASSUME RequestInv, NEW r \in Requests, r \in Running, Finish(r), UNCHANGED <<phase, early>>
  PROVE  RequestInv'
  <1> DEFINE q == [NoRequest EXCEPT !.pc = IF request[r].kind = "shutdown" THEN "answered" ELSE "done"]
  <1>1. q \in Request /\ q.pc \in {"answered", "done"} /\ ~q.counted /\ Carries(q)
    BY NoRequestType DEF NoRequest, Request, Carries
  <1>2. request' = [request EXCEPT ![r] = q]
    BY DEF Finish
  <1> HIDE DEF q
  <1>3. request' \in [Requests -> Request] /\ request'[r] = q /\ \A t \in Requests : t # r => request'[t] = request[t]
    BY <1>1, <1>2 DEF RequestInv
  <1>4. Begun' = Begun /\ Running' = Running \ {r}
    BY <1>1, <1>3 DEF Begun, Running
  <1>5. Cardinality(Running') = Cardinality(Running) - 1
    BY <1>4, RequestCounts, FS_RemoveElement
  <1>6. activeRequests' \in Nat /\ activeRequests' <= activeRequests /\ activeRequests' >= activeRequests - 1
    BY DEF Finish, AfterFinish, RequestInv
  <1>7. early' \in Nat /\ activeRequests' + early' <= Cardinality(Begun') /\ RunningIsCounted'
    BY <1>4, <1>5, <1>6, RequestCounts DEF RequestInv, RunningIsCounted
  <1> QED BY <1>1, <1>3, <1>4, <1>6, <1>7 DEF RequestInv

LEMMA HandleKeeps == ASSUME RequestInv, NEW r \in Requests, handleBridge(r) PROVE RequestInv'
  <1>0. request[r].pc = "begun" /\ request[r] \in Request /\ r \in Running /\ r \in Begun /\ UNCHANGED <<phase, early>>
    BY DEF handleBridge, RequestInv, Running, Begun
  <1>1. CASE UNCHANGED activeRequests /\ request' = [request EXCEPT ![r].pc = "working"]
    <2> DEFINE q == [request[r] EXCEPT !.pc = "working"]
    <2>1. q \in Request /\ q.pc = "working" /\ Carries(q)
      BY <1>0 DEF Request, RequestInv, Carries
    <2>2. request' = [request EXCEPT ![r] = q]
      BY <1>1 DEF RequestInv
    <2> HIDE DEF q
    <2> QED BY <1>0, <1>1, <2>1, <2>2, RequestMoves DEF RequestInv
  <1>2. CASE Finish(r)
    BY <1>0, <1>2, FinishKeeps
  <1> QED BY <1>1, <1>2 DEF handleBridge

LEMMA PerformKeeps ==
  ASSUME CapabilityInv, RequestInv, NEW r \in Requests, Perform(r)
  PROVE  CapabilityInv' /\ RequestInv'
  <1>0. /\ request[r].pc = "working" /\ r \in Running /\ Carries(request[r])
        /\ Finish(r) /\ UNCHANGED <<phase, alive, early>>
    BY DEF Perform, RequestInv, Running
  <1>1. RequestInv'
    BY <1>0, FinishKeeps
  <1>2. phase' \in Phase /\ alive' \subseteq Owners /\ work \subseteq Session
    BY <1>0 DEF CapabilityInv
  <1>3. CASE expireSessions /\ work' = work
    BY <1>1, <1>2, <1>3, ExpireKeeps
  <1>4. CASE /\ UNCHANGED <<session, owners, notices>>
             /\ work' = work \/ (request[r].kind = "remote" /\ work' = work \cup {request[r].session})
    <2>1. work' \subseteq Session
      BY <1>0, <1>2, <1>4 DEF Carries
    <2>2. session' \in [Session -> Capability] /\ notices' \subseteq notices
      BY <1>4 DEF CapabilityInv
    <2> QED BY <1>1, <1>2, <1>4, <2>1, <2>2, RefreshKeeps
  <1>5. \/ expireSessions /\ work' = work
        \/ /\ UNCHANGED <<session, owners, notices>>
           /\ work' = work \/ (request[r].kind = "remote" /\ work' = work \cup {request[r].session})
    <2>1. \/ expireSessions /\ work' = work
          \/ request[r].kind = "remote" /\ work' = work \cup {request[r].session} /\ UNCHANGED <<session, owners, notices>>
          \/ UNCHANGED <<session, owners, notices, work>>
      BY DEF Perform
    <2> QED BY <2>1
  <1> QED BY <1>3, <1>4, <1>5

LEMMA ShutdownKeeps == ASSUME RequestInv, NEW r \in Requests, requestShutdown(r) PROVE RequestInv'
  <1> DEFINE q == [request[r] EXCEPT !.pc = "done"]
  <1>1. request[r] \in Request /\ request[r].pc = "answered" /\ UNCHANGED <<phase, activeRequests, early>>
    BY DEF requestShutdown, RequestInv
  <1>2. q \in Request /\ q.pc = "done" /\ Carries(q) /\ q.counted = request[r].counted
    BY <1>1 DEF Request, Carries
  <1>3. request' = [request EXCEPT ![r] = q]
    BY DEF requestShutdown, RequestInv
  <1> HIDE DEF q
  <1> QED BY <1>1, <1>2, <1>3, RequestMoves DEF RequestInv, Running, Begun

-----------------------------------------------------------------------------
(* The inductive invariant *)

LEMMA InitIInv == Init => IInv
  <1> SUFFICES ASSUME Init PROVE IInv
    OBVIOUS
  <1>1. session \in [Session -> Capability]
    <2>1. (CHOOSE o \in Owners : TRUE) \in Owners
      BY OwnersAssumption
    <2> QED BY <2>1 DEF Init, Capability
  <1>2. \A s \in Session : session[s].state = "unused"
    BY DEF Init
  <1>3. Opened = 0 /\ \A o \in Owners : SessionsOf(o) = {}
    <2>1. {s \in Session : session[s].state # "unused"} = {}
      BY <1>2
    <2>2. \A o \in Owners : SessionsOf(o) = {}
      BY <1>2 DEF SessionsOf, OpenSessions, Open
    <2> QED BY <2>1, <2>2, FS_EmptySet DEF Opened
  <1>4. OpenedInOrder
    BY <1>2, <1>3, MaxSessionsAssumption DEF OpenedInOrder, Session
  <1>5. OwnersCount
    BY <1>3, FS_EmptySet DEF Init, OwnersCount
  <1>6. CapabilityInv
    BY <1>1, <1>4, <1>5, MaxSessionsAssumption DEF Init, CapabilityInv, NoticesAreOld, Phase
  <1>7. request \in [Requests -> Request] /\ \A r \in Requests : request[r] = NoRequest
    BY NoRequestType DEF Init
  <1>8. Running = {} /\ Cardinality(Running) = 0
    <2>1. Running = {}
      BY <1>7 DEF Running, NoRequest
    <2> QED BY <2>1, FS_EmptySet
  <1>9. RequestInv
    <2>1. activeRequests = 0 /\ early = 0
      BY DEF Init
    <2>2. \A r \in Requests : request[r].pc = "none" /\ ~request[r].counted /\ Carries(request[r])
      BY <1>7 DEF NoRequest, Carries
    <2> QED BY <1>7, <1>8, <2>1, <2>2, RequestCounts DEF RequestInv, RunningIsCounted
  <1>10. MaintenanceInv
    BY DEF Init, MaintenanceInv, MaintenanceState
  <1> QED BY <1>6, <1>9, <1>10 DEF Init, IInv

\* Nothing but the clock of a capability, the clients, the phase or the work changes.
LEMMA CapabilitiesStay ==
  ASSUME CapabilityInv, phase' \in Phase, work' \subseteq work, notices' \subseteq notices, UNCHANGED <<alive, session, owners>>
  PROVE  CapabilityInv'
  BY RefreshKeeps DEF CapabilityInv

LEMMA CapabilityStep ==
  ASSUME IInv,
         \/ \E o \in Owners : handleOpen(o) \/ OwnerDies(o)
         \/ \E s \in Session : handleClose(s) \/ TTLPasses(s) \/ Heartbeat(s)
         \/ monitorOwners
         \/ \E n \in notices : notifyClosed(n)
  PROVE  CapabilityInv' /\ UNCHANGED <<phase, serving, quiet, maintaining, stop>>
  <1>0. CapabilityInv /\ phase \in Phase /\ alive \subseteq Owners /\ work \subseteq Session
    BY DEF IInv, CapabilityInv
  <1>1. ASSUME NEW o \in Owners, handleOpen(o) PROVE CapabilityInv' /\ UNCHANGED <<phase, serving, quiet, maintaining, stop>>
    BY <1>0, <1>1, OpenKeeps DEF handleOpen
  <1>2. ASSUME NEW o \in Owners, OwnerDies(o) PROVE CapabilityInv' /\ UNCHANGED <<phase, serving, quiet, maintaining, stop>>
    BY <1>0, <1>2, RefreshKeeps DEF OwnerDies, CapabilityInv
  <1>3. ASSUME NEW s \in Session, handleClose(s) PROVE CapabilityInv' /\ UNCHANGED <<phase, serving, quiet, maintaining, stop>>
    <2>1. {s} \in SUBSET OpenSessions /\ {} \in SUBSET OpenSessions
      BY <1>3 DEF handleClose, OpenSessions
    <2> QED BY <1>0, <1>3, <2>1, RemoveKeeps DEF handleClose
  <1>4. ASSUME NEW s \in Session, TTLPasses(s) \/ Heartbeat(s)
        PROVE  CapabilityInv' /\ UNCHANGED <<phase, serving, quiet, maintaining, stop>>
    <2>1. UNCHANGED <<phase, alive, owners, notices, work, serving, quiet, maintaining, stop>>
      BY <1>4 DEF TTLPasses, Heartbeat
    <2>2. /\ session' \in [Session -> Capability]
          /\ \A t \in Session : session'[t].state = session[t].state /\ session'[t].owner = session[t].owner
      <3>1. PICK fresh \in BOOLEAN : session' = [session EXCEPT ![s] = [session[s] EXCEPT !.fresh = fresh]]
        BY <1>4 DEF TTLPasses, Heartbeat
      <3>2. session \in [Session -> Capability]
        BY <1>0 DEF CapabilityInv
      <3> QED BY <3>1, <3>2 DEF Capability
    <2> QED BY <1>0, <2>1, <2>2, RefreshKeeps
  <1>5. CASE monitorOwners
    BY <1>0, <1>5, ExpireKeeps DEF monitorOwners
  <1>6. ASSUME NEW n \in notices, notifyClosed(n) PROVE CapabilityInv' /\ UNCHANGED <<phase, serving, quiet, maintaining, stop>>
    <2>1. work' \subseteq work
      BY <1>6 DEF notifyClosed, clearBridgeOwner
    <2> QED BY <1>0, <1>6, <2>1, CapabilitiesStay DEF notifyClosed
  <1> QED BY <1>1, <1>2, <1>3, <1>4, <1>5, <1>6

LEMMA MaintenanceStep ==
  ASSUME IInv, NEW m \in Maintainers, Maintain(m)
  PROVE  CapabilityInv' /\ MaintenanceInv' /\ quiet' \in BOOLEAN /\ UNCHANGED <<phase, serving, stop>>
  <1>0. CapabilityInv /\ phase \in Phase /\ alive \subseteq Owners /\ work \subseteq Session
    BY DEF IInv, CapabilityInv
  <1>1. CASE ActiveSessions(m)
    <2>1. CapabilityInv'
      BY <1>0, <1>1, ExpireKeeps DEF ActiveSessions
    <2>2. PICK next \in {"none", "counted"} : maintenance' = [maintenance EXCEPT ![m] = next]
      BY <1>1 DEF ActiveSessions
    <2>3. MaintenanceInv'
      <3>1. UNCHANGED maintenanceActive
        BY <1>1 DEF ActiveSessions
      <3> QED BY <2>2, <3>1 DEF IInv, MaintenanceInv, MaintenanceState
    <2> QED BY <1>1, <2>1, <2>3 DEF ActiveSessions, IInv
  <1>2. CASE SetMaintenance(m) \/ MaintenanceEnds(m)
    <2>1. UNCHANGED <<phase, capabilities, work, serving, quiet, stop>>
      BY <1>2 DEF SetMaintenance, MaintenanceEnds
    <2>2. CapabilityInv'
      BY <1>0, <2>1, CapabilitiesStay DEF capabilities
    <2>3. MaintenanceInv'
      <3>1. CASE SetMaintenance(m)
        BY <3>1 DEF SetMaintenance, IInv, MaintenanceInv, MaintenanceState
      <3>2. CASE MaintenanceEnds(m)
        BY <3>2 DEF MaintenanceEnds, IInv, MaintenanceInv, MaintenanceState
      <3> QED BY <1>2, <3>1, <3>2
    <2> QED BY <2>1, <2>2, <2>3 DEF IInv
  <1> QED BY <1>1, <1>2 DEF Maintain

LEMMA CallStep ==
  ASSUME IInv, NEW r \in Requests, Call(r)
  PROVE  CapabilityInv' /\ RequestInv' /\ quiet' \in BOOLEAN /\ stop' \in BOOLEAN /\ UNCHANGED maintaining
  <1>0. CapabilityInv /\ RequestInv /\ MaintenanceInv /\ phase \in Phase /\ quiet \in BOOLEAN /\ stop \in BOOLEAN
    BY DEF IInv, CapabilityInv
  <1>1. ASSUME NEW s \in Session, NEW kind \in Kind, authorizedSession(r, s, kind)
        PROVE  CapabilityInv' /\ RequestInv' /\ quiet' \in BOOLEAN /\ stop' \in BOOLEAN /\ UNCHANGED maintaining
    <2>1. UNCHANGED <<quiet, maintaining, stop>>
      BY <1>1 DEF authorizedSession
    <2> QED BY <1>0, <1>1, <2>1, AuthorizeKeeps
  <1>2. CASE beginBridgeRequest(r) \/ handleBridge(r) \/ requestShutdown(r)
    <2>1. RequestInv'
      BY <1>0, <1>2, BeginKeeps, HandleKeeps, ShutdownKeeps
    <2>2. UNCHANGED <<phase, capabilities, work, maintaining>> /\ quiet' \in BOOLEAN /\ stop' \in BOOLEAN
      BY <1>0, <1>2 DEF beginBridgeRequest, handleBridge, requestShutdown
    <2>3. CapabilityInv'
      BY <1>0, <2>2, CapabilitiesStay DEF capabilities
    <2> QED BY <2>1, <2>2, <2>3
  <1>3. CASE Perform(r)
    <2>1. UNCHANGED <<quiet, maintaining, stop>>
      BY <1>3 DEF Perform
    <2> QED BY <1>0, <1>3, <2>1, PerformKeeps
  <1> QED BY <1>1, <1>2, <1>3 DEF Call

LEMMA DaemonStep ==
  ASSUME IInv, Daemon
  PROVE  CapabilityInv' /\ RequestInv' /\ quiet' \in BOOLEAN /\ stop' \in BOOLEAN /\ UNCHANGED maintaining
  <1>0. CapabilityInv /\ RequestInv /\ phase \in Phase /\ quiet \in BOOLEAN /\ stop \in BOOLEAN
    BY DEF IInv, CapabilityInv
  <1>1. /\ UNCHANGED <<serving, maintaining>> /\ quiet' \in BOOLEAN /\ stop' \in BOOLEAN
        /\ phase' \in {"listening", "serving"} => phase \in {"listening", "serving"}
        /\ phase' \in Phase
    BY <1>0 DEF Daemon, Start, IdleTimeoutPasses, WaitForIdle, CloseRuntime, ClearWorkSessions, CloseBridge, Phase
  <1>2. RequestInv'
    BY <1>0, <1>1, RequestsStay DEF serving
  <1>3. CASE CloseBridge
    BY <1>0, <1>1, <1>2, <1>3, CloseKeeps
  <1>4. CASE ~CloseBridge
    <2>1. UNCHANGED capabilities /\ work' \subseteq work
      BY <1>4 DEF Daemon, Start, IdleTimeoutPasses, WaitForIdle, CloseRuntime, ClearWorkSessions
    <2> QED BY <1>0, <1>1, <1>2, <2>1, CapabilitiesStay DEF capabilities
  <1> QED BY <1>3, <1>4

LEMMA NextIInv == IInv /\ [Next]_vars => IInv'
  <1> SUFFICES ASSUME IInv, [Next]_vars PROVE IInv'
    OBVIOUS
  <1>0. CapabilityInv /\ RequestInv /\ MaintenanceInv /\ phase \in Phase /\ quiet \in BOOLEAN /\ stop \in BOOLEAN
    BY DEF IInv, CapabilityInv
  <1>1. ASSUME UNCHANGED maintaining PROVE MaintenanceInv'
    BY <1>0, <1>1 DEF MaintenanceInv, maintaining
  <1>2. CASE \/ \E o \in Owners : handleOpen(o) \/ OwnerDies(o)
             \/ \E s \in Session : handleClose(s) \/ TTLPasses(s) \/ Heartbeat(s)
             \/ monitorOwners
             \/ \E n \in notices : notifyClosed(n)
    <2>1. CapabilityInv' /\ UNCHANGED <<phase, serving, quiet, maintaining, stop>>
      BY <1>2, CapabilityStep
    <2>2. RequestInv'
      BY <1>0, <2>1, RequestsStay DEF serving
    <2> QED BY <1>0, <1>1, <2>1, <2>2 DEF IInv
  <1>3. ASSUME NEW r \in Requests, Call(r) PROVE IInv'
    BY <1>1, <1>3, CallStep DEF IInv
  <1>4. ASSUME NEW m \in Maintainers, Maintain(m) PROVE IInv'
    <2>1. CapabilityInv' /\ MaintenanceInv' /\ quiet' \in BOOLEAN /\ UNCHANGED <<phase, serving, stop>>
      BY <1>4, MaintenanceStep
    <2>2. RequestInv'
      BY <1>0, <2>1, RequestsStay DEF serving
    <2> QED BY <1>0, <2>1, <2>2 DEF IInv
  <1>5. CASE Daemon
    BY <1>1, <1>5, DaemonStep DEF IInv
  <1>6. CASE UNCHANGED vars
    <2>1. UNCHANGED <<phase, alive, session, owners, notices, work, request, activeRequests, early, quiet, maintaining, stop>>
      BY <1>6 DEF vars, maintaining
    <2>2. CapabilityInv'
      BY <1>0, <2>1, CapabilitiesStay
    <2>3. RequestInv'
      BY <1>0, <2>1, RequestsStay
    <2> QED BY <1>0, <1>1, <2>1, <2>2, <2>3 DEF IInv
  <1> QED BY <1>2, <1>3, <1>4, <1>5, <1>6 DEF Next

LEMMA Invariance == Spec => []IInv
  BY InitIInv, NextIInv, PTL DEF Spec

\* The fields of the bridge, of its requests and of the runtime keep their
\* types; activeRequests, which finishBridgeRequest decrements, stays within the
\* number of requests.
THEOREM TypeCorrect == Spec => []TypeOK
  <1>1. IInv => TypeOK
    <2> SUFFICES ASSUME IInv PROVE TypeOK
      OBVIOUS
    <2>1. activeRequests \in 0..Cardinality(Requests) /\ early \in 0..Cardinality(Requests)
      BY RequestCounts, RequestsFinite DEF IInv, RequestInv
    <2> QED BY <2>1 DEF IInv, CapabilityInv, RequestInv, MaintenanceInv, TypeOK
  <1> QED BY <1>1, Invariance, PTL

\* While a maintenance operation runs no second one begins and no request but
\* the exempt ones is let in, with any number of clients, requests and
\* maintenance goroutines that try, are refused and return meanwhile.
THEOREM MaintenanceExcludes == Spec => MaintenanceIsExclusive
  <1> DEFINE Excludes == \A m \in Maintainers : maintenance[m] = "active" /\ maintenance'[m] = "active" =>
                            /\ \A n \in Maintainers : maintenance'[n] = "active" => n = m
                            /\ \A r \in Requests : request[r].pc = "begun" /\ request'[r].pc = "working" =>
                                  request[r].kind \in Bypass
  <1>1. IInv /\ IInv' /\ [Next]_vars => [Excludes]_vars
    <2> SUFFICES ASSUME IInv, IInv', Next, NEW m \in Maintainers, maintenance[m] = "active", maintenance'[m] = "active"
                 PROVE  /\ \A n \in Maintainers : maintenance'[n] = "active" => n = m
                        /\ \A r \in Requests : request[r].pc = "begun" /\ request'[r].pc = "working" =>
                              request[r].kind \in Bypass
      BY DEF vars
    <2>1. \A n \in Maintainers : maintenance'[n] = "active" => n = m
      BY DEF IInv, MaintenanceInv
    <2>2. ASSUME NEW r \in Requests, request[r].pc = "begun", request'[r].pc = "working"
          PROVE  request[r].kind \in Bypass
      <3>1. maintenanceActive /\ request \in [Requests -> Request]
        BY DEF IInv, MaintenanceInv, RequestInv
      <3>2. PICK q \in Requests : Call(q)
        <4>1. request' # request
          BY <2>2
        <4>2. ~ \E n \in Maintainers : Maintain(n)
          BY <4>1 DEF Maintain, ActiveSessions, SetMaintenance, MaintenanceEnds, serving
        <4>3. ~Daemon
          BY <4>1 DEF Daemon, Start, IdleTimeoutPasses, WaitForIdle, CloseRuntime, ClearWorkSessions, CloseBridge, serving
        <4>4. ~monitorOwners /\ (\A o \in Owners : ~handleOpen(o) /\ ~OwnerDies(o)) /\ (\A n \in notices : ~notifyClosed(n))
          BY <4>1 DEF monitorOwners, handleOpen, OwnerDies, notifyClosed, serving
        <4>5. \A t \in Session : ~handleClose(t) /\ ~TTLPasses(t) /\ ~Heartbeat(t)
          BY <4>1 DEF handleClose, TTLPasses, Heartbeat, serving
        <4> QED BY <4>2, <4>3, <4>4, <4>5 DEF Next
      <3>3. handleBridge(r)
        <4>1. ~ \E s \in Session, kind \in Kind : authorizedSession(q, s, kind)
          BY <2>2, <3>1 DEF authorizedSession, NoRequest
        <4>2. ~beginBridgeRequest(q) /\ ~requestShutdown(q)
          BY <2>2, <3>1 DEF beginBridgeRequest, requestShutdown, Request
        <4>3. ~Perform(q)
          BY <2>2, <3>1 DEF Perform, Finish, NoRequest
        <4>4. handleBridge(q)
          BY <3>2, <4>1, <4>2, <4>3 DEF Call
        <4>5. q = r
          BY <2>2, <3>1, <4>4 DEF handleBridge, Finish
        <4> QED BY <4>4, <4>5
      <3>4. Served(r)
        BY <2>2, <3>1, <3>3 DEF handleBridge, Finish, NoRequest
      <3> QED BY <3>1, <3>4 DEF Served
    <2> QED BY <2>1, <2>2
  <1> QED BY <1>1, Invariance, PTL DEF Spec, MaintenanceIsExclusive

\* Closing or expiring a capability never ends the work of another one that is
\* open, unless that one was opened after its owner had lost the last: the
\* callback of the bridge is about an owner, and may run late.
THEOREM OthersAreSpared == Spec => ClearSparesOthers
  <1> DEFINE Spares == \A s \in work \ work' :
                          Open(s) /\ phase' # "cleared" =>
                              \E n \in notices \ notices' : n.owner = session[s].owner /\ n.known < s
  <1>1. IInv /\ [Next]_vars => [Spares]_vars
    <2> SUFFICES ASSUME IInv, Next, NEW s \in work \ work', Open(s), phase' # "cleared"
                 PROVE  \E n \in notices \ notices' : n.owner = session[s].owner /\ n.known < s
      BY DEF vars
    <2>1. PICK n \in notices : notifyClosed(n)
      <3>1. ~ \E r \in Requests : Call(r)
        BY DEF Call, authorizedSession, beginBridgeRequest, handleBridge, Perform, requestShutdown
      <3>2. ~ \E m \in Maintainers : Maintain(m)
        BY DEF Maintain, ActiveSessions, SetMaintenance, MaintenanceEnds
      <3>3. ~Daemon
        BY DEF Daemon, Start, IdleTimeoutPasses, WaitForIdle, CloseRuntime, ClearWorkSessions, CloseBridge
      <3>4. ~monitorOwners /\ (\A o \in Owners : ~handleOpen(o) /\ ~OwnerDies(o))
        BY DEF monitorOwners, handleOpen, OwnerDies
      <3>5. \A t \in Session : ~handleClose(t) /\ ~TTLPasses(t) /\ ~Heartbeat(t)
        BY DEF handleClose, TTLPasses, Heartbeat
      <3> QED BY <3>1, <3>2, <3>3, <3>4, <3>5 DEF Next
    <2>2. n \notin notices' /\ session[s].owner = n.owner
      BY <2>1 DEF notifyClosed, clearBridgeOwner
    <2>3. s \in SessionsOf(n.owner)
      BY <2>2 DEF SessionsOf, OpenSessions, IInv, CapabilityInv
    <2>4. n.known < s
      BY <2>3 DEF IInv, CapabilityInv, NoticesAreOld
    <2> QED BY <2>2, <2>4
  <1> QED BY <1>1, Invariance, PTL DEF Spec, ClearSparesOthers

\* The daemon exits as idle with no request running, but for as many as began
\* before Start had ended, which are never counted.
THEOREM IdleExitIsCounted == Spec => IdleExitIsIdle
  <1> DEFINE Idle == WaitForIdle => Cardinality(Counted) <= early
  <1>1. IInv /\ [Next]_vars => [Idle]_vars
    <2> SUFFICES ASSUME IInv, WaitForIdle PROVE Cardinality(Counted) <= early
      OBVIOUS
    <2>1. Counted \in SUBSET Running
      BY DEF IInv, RequestInv, Counted
    <2>2. Cardinality(Counted) <= Cardinality(Running)
      BY <2>1, RequestCounts, FS_Subset
    <2>3. Cardinality(Running) <= early
      BY RequestCounts DEF WaitForIdle, IInv, RequestInv, RunningIsCounted
    <2> QED BY <2>2, <2>3, RequestCounts DEF IInv, RequestInv
  <1> QED BY <1>1, Invariance, PTL DEF Spec, IdleExitIsIdle

=============================================================================
