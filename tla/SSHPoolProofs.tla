---------------------------- MODULE SSHPoolProofs ----------------------------
(***************************************************************************)
(* What the pool of SSH connections promises, for any number of operations *)
(* and administrators, targets, revisions and generations.                 *)
(*                                                                         *)
(* FlightInv follows the operations in flight: they are counted by their   *)
(* gate, whoever flushes a target waits for them, and none begins on a     *)
(* target that is being reconfigured.  LeaseInv follows the generation of  *)
(* a lease: a lease of the current generation was checked against the row  *)
(* that is stored.  EntryInv follows the connections: who dials an entry,  *)
(* who waits for it and who closes it.                                     *)
(***************************************************************************)
EXTENDS SSHPool, FiniteSetTheorems, TLAPS

-----------------------------------------------------------------------------
(* The inductive invariant *)

Flying == {"dialing", "executing", "failed"}

Counted == \A t \in Targets : gate[t].inFlight = Cardinality(Busy(t))

WaitIsBusy == \A a \in Admins : \A t \in admin[a].wait : Busy(t) # {}

HolderFlushes ==
    \A a \in Admins :
        lifecycleMu = a <=> admin[a].pc = "flushing" /\ admin[a].op \in {"CloseAll", "Suspend", "Close"}

\* What is in flight when the pool is suspended or closed was there before,
\* and the one who suspended or closed it waits for it.
LockedDrains ==
    suspended \/ closed =>
        \A t \in Targets : Busy(t) # {} => lifecycleMu \in Admins /\ t \in admin[lifecycleMu].wait

Configures(a) == admin[a].pc # "idle" /\ admin[a].op \in Configuring

OneConfigures == \A a, b \in Admins : Configures(a) /\ Configures(b) => a = b

\* The same for the target that is being reconfigured.
ConfiguredDrains ==
    \A a \in Admins : Configures(a) =>
        LET t == admin[a].target
        IN  /\ gate[t].configurationBlocked
            /\ Busy(t) # {} => admin[a].pc = "flushing" /\ t \in admin[a].wait

AbsentIsBlocked ==
    \A t \in Targets : row[t].revision = 0 => gate[t].configurationBlocked /\ Busy(t) = {}

\* Only a stored target is disabled or deleted, and only a reconfiguration
\* goes on after its flush.
ConfiguredIsStored ==
    \A a \in Admins :
        /\ admin[a].pc = "revoked" => admin[a].op \in Configuring
        /\ Configures(a) /\ admin[a].op # "upsert" => row[admin[a].target].revision # 0

FlightInv ==
    /\ Counted /\ WaitIsBusy /\ HolderFlushes /\ LockedDrains
    /\ OneConfigures /\ ConfiguredDrains /\ AbsentIsBlocked /\ ConfiguredIsStored

\* Operations with a lease, and those that have checked the row under it.
Checked == UserState \ {"idle", "looked", "leased"}
Leased == Checked \cup {"leased"}

LeaseIsOld ==
    \A u \in Users : user[u].pc \in Leased =>
        LET g == gate[user[u].target]
        IN  /\ user[u].generation <= g.generation
            /\ g.configurationBlocked => user[u].generation # g.generation

\* The row r is the one the operation q was checked against under its lease.
Matches(q, r) == r.enabled /\ r.revision = q.revision /\ r.config = q.config

CurrentIsChecked ==
    \A u \in Users :
        user[u].pc \in Checked /\ user[u].generation = gate[user[u].target].generation =>
            Matches(user[u], row[user[u].target])

RunsChecked == \A u \in Users : user[u].pc = "executing" => Matches(user[u], row[user[u].target])

\* Of a row r that q has reviewed, and that was not deleted since, the revision
\* only grew, and stands for the configuration.
Past(q, r) ==
    /\ q.registration <= r.registration
    /\ q.registration = r.registration =>
          /\ r.revision # 0 /\ q.revision <= r.revision
          /\ q.revision = r.revision => q.reviewed = r.config

ReadIsPast == \A u \in Users : user[u].pc # "idle" => Past(user[u], row[user[u].target])

LeaseInv == LeaseIsOld /\ CurrentIsChecked /\ RunsChecked /\ ReadIsPast

Holding == {"dialing", "waiting", "found", "ready", "executing", "failed", "dropped"}
Dials(u, e) == user[u].pc = "dialing" /\ user[u].entry = e

HoldersHold == \A u \in Users : user[u].pc \in Holding => user[u].entry \in Entries

OneDials == \A u, d \in Users : \A e \in Entries : Dials(u, e) /\ Dials(d, e) => u = d

DialedIsNew == \A u \in Users : \A e \in Entries : Dials(u, e) => entry[e].connection = "nil"

DialingIsDialed == \A e \in Entries : entry[e].dialing => \E d \in Users : Dials(d, e)

WaitersAreWoken ==
    \A u \in Users : user[u].pc = "waiting" =>
        entry[user[u].entry].ready \/ \E d \in Users : Dials(d, user[u].entry)

PendingWasDialed ==
    \A x \in Users \cup Admins : \A e \in pending[x] : entry[e].connection # "nil"

PendingIsOwned ==
    /\ \A a \in Admins : pending[a] # {} => admin[a].pc = "flushing"
    /\ \A u \in Users : pending[u] # {} => user[u].pc \in {"dialing", "failed", "dropped"}

EntryInv ==
    /\ HoldersHold /\ OneDials /\ DialedIsNew /\ DialingIsDialed /\ WaitersAreWoken
    /\ PendingWasDialed /\ PendingIsOwned /\ NoLeakedConnection

IInv == TypeOK /\ FlightInv /\ LeaseInv /\ EntryInv

-----------------------------------------------------------------------------
(* Records *)

LEMMA Defaults ==
  /\ NoUser \in User /\ NoUser.pc = "idle" /\ NoUser.entry = NoEntry
  /\ NoAdmin \in Admin /\ NoAdmin.pc = "idle" /\ NoAdmin.wait = {}
  /\ NewEntry \in Entry /\ NewEntry.dialing = TRUE /\ NewEntry.connection = "nil"
  /\ OldEntry \in Entry /\ OldEntry.dialing = FALSE /\ OldEntry.connection = "nil"
  <1>1. (CHOOSE t \in Targets : TRUE) \in Targets /\ (CHOOSE t \in Specs : TRUE) \in Specs
        /\ AnyConfig \in Configs
    BY NamesAssumption DEF AnyConfig
  <1>2. 1 \in 1..MaxRevision /\ 0 \in 0..MaxGeneration
    BY BoundsAssumption
  <1>3. NoUser \in User /\ NoUser.pc = "idle" /\ NoUser.entry = NoEntry
    BY <1>1, <1>2 DEF NoUser, User, UserState
  <1>4. NoAdmin \in Admin /\ NoAdmin.pc = "idle" /\ NoAdmin.wait = {}
    BY <1>1 DEF NoAdmin, Admin
  <1>5. /\ NewEntry \in Entry /\ NewEntry.dialing = TRUE /\ NewEntry.connection = "nil"
        /\ OldEntry \in Entry /\ OldEntry.dialing = FALSE /\ OldEntry.connection = "nil"
    BY DEF NewEntry, OldEntry, Entry
  <1> QED BY <1>3, <1>4, <1>5

LEMMA BecomeDoes ==
  ASSUME user \in [Users -> User], NEW u \in Users, NEW x \in User, Become(u, x)
  PROVE  /\ user' \in [Users -> User] /\ user'[u] = x
         /\ \A v \in Users \ {u} : user'[v] = user[v]
  BY DEF Become

LEMMA InvalidatedDoes ==
  ASSUME entry \in [Entries -> Entry], NEW E
  PROVE  /\ Invalidated(E) \in [Entries -> Entry]
         /\ \A e \in Entries : /\ Invalidated(E)[e].connection = entry[e].connection
                               /\ Invalidated(E)[e].dialing = entry[e].dialing
                               /\ entry[e].ready => Invalidated(E)[e].ready
                               /\ e \notin E => Invalidated(E)[e] = entry[e]
                               /\ e \in E => Invalidated(E)[e].invalidated /\ Invalidated(E)[e].ready
  <1>1. ASSUME NEW x \in Entry
        PROVE  LET y == [x EXCEPT !.invalidated = TRUE, !.ready = TRUE]
               IN  /\ y \in Entry /\ y.connection = x.connection /\ y.dialing = x.dialing
                   /\ y.invalidated = TRUE /\ y.ready = TRUE
    BY DEF Entry
  <1>2. ASSUME NEW e \in Entries
        PROVE  Invalidated(E)[e] = IF e \in E THEN [entry[e] EXCEPT !.invalidated = TRUE, !.ready = TRUE]
                                   ELSE entry[e]
    BY DEF Invalidated
  <1>3. Invalidated(E) \in [Entries -> Entry]
    BY <1>1 DEF Invalidated
  <1> QED BY <1>1, <1>2, <1>3

LEMMA WithoutDoes ==
  ASSUME entries \in [Key -> Entries \cup {NoEntry}], NEW E
  PROVE  /\ Without(E) \in [Key -> Entries \cup {NoEntry}]
         /\ \A k \in Key : /\ entries[k] \notin E => Without(E)[k] = entries[k]
                           /\ entries[k] \in E => Without(E)[k] = NoEntry
  BY DEF Without

LEMMA WokenDoes ==
  ASSUME admin \in [Admins -> Admin], NEW t, Woken(t)
  PROVE  /\ admin' \in [Admins -> Admin]
         /\ \A a \in Admins : /\ admin'[a].pc = admin[a].pc /\ admin'[a].op = admin[a].op
                              /\ admin'[a].target = admin[a].target
                              /\ gate[t].inFlight = 1 => admin'[a].wait = admin[a].wait \ {t}
                              /\ gate[t].inFlight # 1 => admin'[a].wait = admin[a].wait
  <1>1. ASSUME NEW x \in Admin
        PROVE  LET y == [x EXCEPT !.wait = @ \ {t}]
               IN  y \in Admin /\ y.pc = x.pc /\ y.op = x.op /\ y.target = x.target /\ y.wait = x.wait \ {t}
    BY DEF Admin
  <1>2. CASE gate[t].inFlight = 1
    <2>1. admin' = [a \in Admins |-> [admin[a] EXCEPT !.wait = @ \ {t}]]
      BY <1>2 DEF Woken
    <2> QED BY <1>1, <1>2, <2>1
  <1>3. CASE gate[t].inFlight # 1
    BY <1>3 DEF Woken
  <1> QED BY <1>2, <1>3

LEMMA InFlightDoes ==
  ASSUME gate \in [Targets -> Gate], NEW t \in Targets
  PROVE  /\ beginInFlightLocked(t) =>
               /\ gate' \in [Targets -> Gate] /\ gate'[t].inFlight = gate[t].inFlight + 1
               /\ \A x \in Targets : /\ x # t => gate'[x] = gate[x]
                                     /\ gate'[x].generation = gate[x].generation
                                     /\ gate'[x].configurationBlocked = gate[x].configurationBlocked
         /\ finishInFlightLocked(t) =>
               /\ gate' \in [Targets -> Gate]
               /\ gate[t].inFlight > 0 => gate'[t].inFlight = gate[t].inFlight - 1
               /\ \A x \in Targets : /\ x # t => gate'[x] = gate[x]
                                     /\ gate'[x].generation = gate[x].generation
                                     /\ gate'[x].configurationBlocked = gate[x].configurationBlocked
  <1>1. ASSUME NEW x \in Gate, NEW n \in Nat
        PROVE  LET y == [x EXCEPT !.inFlight = n]
               IN  /\ y \in Gate /\ y.inFlight = n /\ y.generation = x.generation
                   /\ y.configurationBlocked = x.configurationBlocked
    BY DEF Gate
  <1>2. gate[t] \in Gate /\ gate[t].inFlight \in Nat
    BY DEF Gate
  <1>3. ASSUME beginInFlightLocked(t)
        PROVE  gate' = [gate EXCEPT ![t] = [gate[t] EXCEPT !.inFlight = gate[t].inFlight + 1]]
    BY <1>3 DEF beginInFlightLocked
  <1>4. ASSUME finishInFlightLocked(t)
        PROVE  /\ gate[t].inFlight > 0 =>
                     gate' = [gate EXCEPT ![t] = [gate[t] EXCEPT !.inFlight = gate[t].inFlight - 1]]
               /\ ~(gate[t].inFlight > 0) =>
                     gate' = [gate EXCEPT ![t] = [gate[t] EXCEPT !.inFlight = gate[t].inFlight]]
    BY <1>4 DEF finishInFlightLocked
  <1>5. gate[t].inFlight > 0 => gate[t].inFlight - 1 \in Nat
    BY <1>2
  <1>6. ASSUME NEW n \in Nat, gate' = [gate EXCEPT ![t] = [gate[t] EXCEPT !.inFlight = n]]
        PROVE  /\ gate' \in [Targets -> Gate] /\ gate'[t].inFlight = n
               /\ \A x \in Targets : /\ x # t => gate'[x] = gate[x]
                                     /\ gate'[x].generation = gate[x].generation
                                     /\ gate'[x].configurationBlocked = gate[x].configurationBlocked
    <2>1. gate'[t] = [gate[t] EXCEPT !.inFlight = n] /\ \A x \in Targets : x # t => gate'[x] = gate[x]
      BY <1>6
    <2>2. gate' \in [Targets -> Gate]
      BY <1>1, <1>2, <1>6
    <2>3. /\ gate'[t].inFlight = n /\ gate'[t].generation = gate[t].generation
          /\ gate'[t].configurationBlocked = gate[t].configurationBlocked
      BY <1>1, <1>2, <2>1
    <2> QED BY <1>1, <1>2, <2>1, <2>2, <2>3
  <1>7. gate[t].inFlight + 1 \in Nat
    BY <1>2
  <1>8. ASSUME finishInFlightLocked(t)
        PROVE  /\ gate' \in [Targets -> Gate]
               /\ gate[t].inFlight > 0 => gate'[t].inFlight = gate[t].inFlight - 1
               /\ \A x \in Targets : /\ x # t => gate'[x] = gate[x]
                                     /\ gate'[x].generation = gate[x].generation
                                     /\ gate'[x].configurationBlocked = gate[x].configurationBlocked
    BY <1>2, <1>4, <1>5, <1>6, <1>8
  <1>9. ASSUME beginInFlightLocked(t)
        PROVE  /\ gate' \in [Targets -> Gate] /\ gate'[t].inFlight = gate[t].inFlight + 1
               /\ \A x \in Targets : /\ x # t => gate'[x] = gate[x]
                                     /\ gate'[x].generation = gate[x].generation
                                     /\ gate'[x].configurationBlocked = gate[x].configurationBlocked
    BY <1>3, <1>6, <1>7, <1>9
  <1> QED BY <1>8, <1>9

-----------------------------------------------------------------------------
(* How an operation moves *)

OthersStay(u) == user' \in [Users -> User] /\ \A v \in Users \ {u} : user'[v] = user[v]

SameLease(u) ==
    /\ user'[u].target = user[u].target /\ user'[u].revision = user[u].revision
    /\ user'[u].spec = user[u].spec /\ user'[u].generation = user[u].generation
    /\ user'[u].reviewed = user[u].reviewed /\ user'[u].registration = user[u].registration
    /\ user[u].pc # "leased" => user'[u].config = user[u].config

SameReview(u) ==
    /\ user'[u].target = user[u].target /\ user'[u].revision = user[u].revision
    /\ user'[u].reviewed = user[u].reviewed /\ user'[u].registration = user[u].registration

Goes(u, pc, e) ==
    OthersStay(u) /\ SameLease(u) /\ user'[u].pc = pc /\ user'[u].entry = e

Gone(u) == OthersStay(u) /\ user'[u] = NoUser

LEMMA BecomeMoves ==
  ASSUME TypeOK, NEW u \in Users
  PROVE  /\ Become(u, NoUser) => Gone(u)
         /\ \A pc \in UserState : Become(u, [user[u] EXCEPT !.pc = pc]) => Goes(u, pc, user[u].entry)
         /\ \A pc \in UserState, e \in Entries \cup {NoEntry} :
               Become(u, [user[u] EXCEPT !.pc = pc, !.entry = e]) => Goes(u, pc, e)
  <1>0. user \in [Users -> User] /\ user[u] \in User
    BY DEF TypeOK
  <1>1. ASSUME Become(u, NoUser) PROVE Gone(u)
    BY <1>0, <1>1, BecomeDoes, Defaults DEF Gone, OthersStay
  <1>2. ASSUME NEW pc \in UserState, Become(u, [user[u] EXCEPT !.pc = pc]) PROVE Goes(u, pc, user[u].entry)
    <2> DEFINE y == [user[u] EXCEPT !.pc = pc]
    <2>1. /\ y \in User /\ y.pc = pc /\ y.target = user[u].target /\ y.revision = user[u].revision
          /\ y.spec = user[u].spec /\ y.entry = user[u].entry /\ y.generation = user[u].generation
          /\ y.reviewed = user[u].reviewed /\ y.registration = user[u].registration /\ y.config = user[u].config
      BY <1>0 DEF User
    <2>2. OthersStay(u) /\ user'[u] = y
      BY <1>0, <1>2, <2>1, BecomeDoes DEF OthersStay
    <2> QED BY <2>1, <2>2 DEF Goes, SameLease
  <1>3. ASSUME NEW pc \in UserState, NEW e \in Entries \cup {NoEntry},
               Become(u, [user[u] EXCEPT !.pc = pc, !.entry = e])
        PROVE  Goes(u, pc, e)
    <2> DEFINE y == [user[u] EXCEPT !.pc = pc, !.entry = e]
    <2>1. /\ y \in User /\ y.pc = pc /\ y.target = user[u].target /\ y.revision = user[u].revision
          /\ y.spec = user[u].spec /\ y.entry = e /\ y.generation = user[u].generation
          /\ y.reviewed = user[u].reviewed /\ y.registration = user[u].registration /\ y.config = user[u].config
      BY <1>0 DEF User
    <2>2. OthersStay(u) /\ user'[u] = y
      BY <1>0, <1>3, <2>1, BecomeDoes DEF OthersStay
    <2> QED BY <2>1, <2>2 DEF Goes, SameLease
  <1> QED BY <1>1, <1>2, <1>3

LEMMA LeaseMoves ==
  ASSUME TypeOK, NEW u \in Users
  PROVE  /\ \A t \in Targets, s \in Specs : Lookup(u, t, s) =>
               /\ OthersStay(u) /\ user[u].pc = "idle" /\ user'[u].pc = "looked"
               /\ Past(user'[u], row[user'[u].target])
         /\ AcquireTarget(u) =>
               /\ OthersStay(u) /\ user[u].pc = "looked" /\ user'[u].pc = "leased"
               /\ SameReview(u)
               /\ user'[u].generation = gate[user[u].target].generation
         /\ executionEndpoint(u) => /\ user[u].pc = "leased" /\ Goes(u, "acquiring", user[u].entry)
                                    /\ user'[u].config = row[user[u].target].config
         /\ TakeConnection(u) => user[u].pc = "found" /\ Goes(u, "ready", user[u].entry)
         /\ beginDispatch(u) => user[u].pc = "ready" /\ Goes(u, "executing", user[u].entry)
         /\ discard(u) => user[u].pc = "executing" /\ Goes(u, "failed", user[u].entry)
         /\ EntryReady(u) => user[u].pc = "waiting" /\ Goes(u, "acquiring", NoEntry)
         /\ NotDispatched(u) =>
               user[u].pc \in {"looked", "leased", "acquiring", "waiting", "found", "ready"} /\ Gone(u)
         /\ finishInFlight(u) => user[u].pc \in {"executing", "failed"} /\ Gone(u)
         /\ Dropped(u) => user[u].pc = "dropped" /\ Gone(u)
         /\ DialFails(u) => user[u].pc = "dialing" /\ Gone(u)
  <1>0. user \in [Users -> User] /\ user[u] \in User
    BY DEF TypeOK
  <1>1. {"acquiring", "ready", "executing", "failed", "looked", "leased"} \subseteq UserState
    BY DEF UserState
  <1>2. ASSUME NEW t \in Targets, NEW s \in Specs, Lookup(u, t, s)
        PROVE  /\ OthersStay(u) /\ user[u].pc = "idle" /\ user'[u].pc = "looked"
               /\ Past(user'[u], row[user'[u].target])
    <2>1. row[t].revision \in 1..MaxRevision /\ row[t].config \in Configs /\ row[t].registration \in Nat
      BY <1>2, BoundsAssumption DEF Lookup, TypeOK, Row
    <2> DEFINE y == [NoUser EXCEPT !.pc = "looked", !.target = t, !.spec = s, !.revision = row[t].revision,
                                   !.reviewed = row[t].config, !.registration = row[t].registration]
    <2>2. /\ y \in User /\ y.pc = "looked" /\ y.target = t /\ y.revision = row[t].revision
          /\ y.reviewed = row[t].config /\ y.registration = row[t].registration
      <3>1. "looked" \in UserState /\ NoUser \in User
        BY <1>1, Defaults
      <3> QED BY <2>1, <3>1 DEF User
    <2>3. Become(u, y) /\ user[u].pc = "idle"
      BY <1>2 DEF Lookup
    <2>4. OthersStay(u) /\ user'[u] = y
      BY <1>0, <2>2, <2>3, BecomeDoes DEF OthersStay
    <2> HIDE DEF y
    <2>5. Past(y, row[t])
      BY <2>1, <2>2, BoundsAssumption DEF Past
    <2> QED BY <2>2, <2>3, <2>4, <2>5
  <1>3. ASSUME AcquireTarget(u)
        PROVE  /\ OthersStay(u) /\ user[u].pc = "looked" /\ user'[u].pc = "leased"
               /\ SameReview(u)
               /\ user'[u].generation = gate[user[u].target].generation
    <2>1. gate[user[u].target].generation \in 0..MaxGeneration
      BY <1>0 DEF TypeOK, Gate, User
    <2> DEFINE y == [user[u] EXCEPT !.pc = "leased", !.generation = gate[user[u].target].generation]
    <2>2. y \in User /\ y.pc = "leased" /\ y.target = user[u].target
          /\ y.revision = user[u].revision /\ y.reviewed = user[u].reviewed
          /\ y.registration = user[u].registration
          /\ y.generation = gate[user[u].target].generation
      <3>1. "leased" \in UserState
        BY <1>1
      <3> QED BY <1>0, <2>1, <3>1 DEF User
    <2>3. Become(u, y) /\ user[u].pc = "looked"
      BY <1>3 DEF AcquireTarget
    <2> QED BY <1>0, <2>2, <2>3, BecomeDoes DEF OthersStay, SameReview
  <1>4. ASSUME executionEndpoint(u)
        PROVE  /\ user[u].pc = "leased" /\ Goes(u, "acquiring", user[u].entry)
               /\ user'[u].config = row[user[u].target].config
    <2> DEFINE y == [user[u] EXCEPT !.pc = "acquiring", !.config = row[user[u].target].config]
    <2>1. row[user[u].target].config \in Configs /\ "acquiring" \in UserState
      BY <1>0, <1>1 DEF TypeOK, Row, User
    <2>2. /\ y \in User /\ y.pc = "acquiring" /\ y.target = user[u].target /\ y.revision = user[u].revision
          /\ y.spec = user[u].spec /\ y.entry = user[u].entry /\ y.generation = user[u].generation
          /\ y.reviewed = user[u].reviewed /\ y.registration = user[u].registration
          /\ y.config = row[user[u].target].config
      BY <1>0, <2>1 DEF User
    <2>3. Become(u, y) /\ user[u].pc = "leased"
      BY <1>4 DEF executionEndpoint
    <2>4. OthersStay(u) /\ user'[u] = y
      BY <1>0, <2>2, <2>3, BecomeDoes DEF OthersStay
    <2> HIDE DEF y
    <2> QED BY <2>2, <2>3, <2>4 DEF Goes, SameLease
  <1>5. TakeConnection(u) => user[u].pc = "found" /\ Goes(u, "ready", user[u].entry)
    BY <1>1, BecomeMoves DEF TakeConnection
  <1>6. beginDispatch(u) => user[u].pc = "ready" /\ Goes(u, "executing", user[u].entry)
    BY <1>1, BecomeMoves DEF beginDispatch
  <1>7. discard(u) => user[u].pc = "executing" /\ Goes(u, "failed", user[u].entry)
    BY <1>1, BecomeMoves DEF discard
  <1>8. EntryReady(u) => user[u].pc = "waiting" /\ Goes(u, "acquiring", NoEntry)
    BY <1>1, BecomeMoves DEF EntryReady
  <1>9. /\ NotDispatched(u) =>
              user[u].pc \in {"looked", "leased", "acquiring", "waiting", "found", "ready"} /\ Gone(u)
        /\ finishInFlight(u) => user[u].pc \in {"executing", "failed"} /\ Gone(u)
        /\ Dropped(u) => user[u].pc = "dropped" /\ Gone(u)
        /\ DialFails(u) => user[u].pc = "dialing" /\ Gone(u)
    BY BecomeMoves DEF NotDispatched, finishInFlight, Dropped, DialFails
  <1> QED BY <1>2, <1>3, <1>4, <1>5, <1>6, <1>7, <1>8, <1>9

LEMMA ConnectMoves ==
  ASSUME TypeOK, NEW u \in Users
  PROVE  /\ BeginDial(u) => user[u].pc = "acquiring" /\ \E e \in Entries : Goes(u, "dialing", e)
         /\ FindEntry(u) => /\ user[u].pc = "acquiring" /\ entries[KeyOf(u)] \in Entries
                            /\ \/ entry[entries[KeyOf(u)]].dialing /\ Goes(u, "waiting", entries[KeyOf(u)])
                               \/ Goes(u, "found", entries[KeyOf(u)])
         /\ DialSucceeds(u) => /\ user[u].pc = "dialing"
                               /\ \/ Superseded(u) /\ Goes(u, "dropped", user[u].entry)
                                  \/ ~Superseded(u) /\ Goes(u, "acquiring", NoEntry)
  <1>0. user \in [Users -> User] /\ user[u] \in User
    BY DEF TypeOK
  <1>1. {"acquiring", "dialing", "waiting", "found", "dropped"} \subseteq UserState
    BY DEF UserState
  <1>2. BeginDial(u) => user[u].pc = "acquiring" /\ \E e \in Entries : Goes(u, "dialing", e)
    BY <1>1, BecomeMoves DEF BeginDial
  <1>3. ASSUME FindEntry(u)
        PROVE  /\ user[u].pc = "acquiring" /\ entries[KeyOf(u)] \in Entries
               /\ \/ entry[entries[KeyOf(u)]].dialing /\ Goes(u, "waiting", entries[KeyOf(u)])
                  \/ Goes(u, "found", entries[KeyOf(u)])
    <2> DEFINE e == entries[KeyOf(u)]
    <2>1. KeyOf(u) \in Key
      BY <1>0 DEF KeyOf, Key, User
    <2>2. e \in Entries
      BY <1>3, <2>1 DEF FindEntry, TypeOK
    <2>3. Become(u, [user[u] EXCEPT !.pc = IF entry[e].dialing THEN "waiting" ELSE "found", !.entry = e])
      BY <1>3 DEF FindEntry
    <2>4. CASE entry[e].dialing
      <3>1. Become(u, [user[u] EXCEPT !.pc = "waiting", !.entry = e])
        BY <2>3, <2>4
      <3> QED BY <1>1, <1>3, <2>2, <2>4, <3>1, BecomeMoves DEF FindEntry
    <2>5. CASE ~entry[e].dialing
      <3>1. Become(u, [user[u] EXCEPT !.pc = "found", !.entry = e])
        BY <2>3, <2>5
      <3> QED BY <1>1, <1>3, <2>2, <3>1, BecomeMoves DEF FindEntry
    <2> QED BY <2>4, <2>5
  <1>4. ASSUME DialSucceeds(u)
        PROVE  /\ user[u].pc = "dialing"
               /\ \/ Superseded(u) /\ Goes(u, "dropped", user[u].entry)
                  \/ ~Superseded(u) /\ Goes(u, "acquiring", NoEntry)
    BY <1>1, <1>4, BecomeMoves DEF DialSucceeds
  <1> QED BY <1>2, <1>3, <1>4

-----------------------------------------------------------------------------
(* Operations in flight *)

LEMMA BusyFinite ==
  ASSUME NEW t
  PROVE  /\ IsFiniteSet(Busy(t)) /\ Cardinality(Busy(t)) \in Nat
         /\ Cardinality(Busy(t)) = 0 <=> Busy(t) = {}
  <1>1. Busy(t) \subseteq Users /\ IsFiniteSet(Users)
    BY ActorsAssumption DEF Busy
  <1>2. IsFiniteSet(Busy(t))
    BY <1>1, FS_Subset
  <1> QED BY <1>2, FS_CardinalityType, FS_EmptySet

LEMMA BusyMoves ==
  ASSUME NEW u \in Users, OthersStay(u)
  PROVE  /\ user[u].pc \notin Flying /\ user'[u].pc \notin Flying => \A t : Busy(t)' = Busy(t)
         /\ user[u].pc \in Flying /\ user'[u].pc \in Flying /\ user'[u].target = user[u].target
               => \A t : Busy(t)' = Busy(t)
         /\ user[u].pc \notin Flying /\ user'[u].pc \in Flying /\ user'[u].target = user[u].target
               => /\ u \notin Busy(user[u].target)
                  /\ \A t : Busy(t)' = IF t = user[u].target THEN Busy(t) \cup {u} ELSE Busy(t)
         /\ user[u].pc \in Flying /\ user'[u].pc \notin Flying
               => /\ u \in Busy(user[u].target)
                  /\ \A t : Busy(t)' = IF t = user[u].target THEN Busy(t) \ {u} ELSE Busy(t)
  BY DEF OthersStay, Busy, Flying

LEMMA FlightStays ==
  ASSUME FlightInv, \A t : Busy(t)' = Busy(t),
         UNCHANGED <<row, suspended, closed, gate, admin, lifecycleMu>>
  PROVE  FlightInv'
  BY DEF FlightInv, Counted, WaitIsBusy, HolderFlushes, LockedDrains, OneConfigures, Configures,
         ConfiguredDrains, AbsentIsBlocked, ConfiguredIsStored

\* An operation begins, on a target that is neither suspended nor blocked.
LEMMA FlightBegins ==
  ASSUME TypeOK, FlightInv, NEW u \in Users, NEW t \in Targets, t = user[u].target,
         leaseValidLocked(u), beginInFlightLocked(t),
         u \notin Busy(t), \A x : Busy(x)' = IF x = t THEN Busy(x) \cup {u} ELSE Busy(x),
         UNCHANGED <<row, suspended, closed, admin, lifecycleMu>>
  PROVE  FlightInv'
  <1>0. gate \in [Targets -> Gate] /\ admin \in [Admins -> Admin]
    BY DEF TypeOK
  <1>1. ~closed /\ ~suspended /\ ~gate[t].configurationBlocked
    BY DEF leaseValidLocked, blocked
  <1>2. /\ gate' \in [Targets -> Gate] /\ gate'[t].inFlight = gate[t].inFlight + 1
        /\ \A x \in Targets : /\ x # t => gate'[x] = gate[x]
                              /\ gate'[x].configurationBlocked = gate[x].configurationBlocked
    BY <1>0, InFlightDoes
  <1>3. Cardinality(Busy(t) \cup {u}) = Cardinality(Busy(t)) + 1
    BY BusyFinite, FS_AddElement
  <1>4. Counted'
    BY <1>2, <1>3 DEF FlightInv, Counted
  <1>5. \A x : Busy(x) # {} => Busy(x)' # {}
    OBVIOUS
  <1>6. WaitIsBusy'
    BY <1>5 DEF FlightInv, WaitIsBusy
  <1>7. HolderFlushes' /\ LockedDrains' /\ OneConfigures' /\ ConfiguredIsStored'
    BY <1>1 DEF FlightInv, HolderFlushes, LockedDrains, OneConfigures, Configures, ConfiguredIsStored
  <1>8. ConfiguredDrains'
    <2>1. ASSUME NEW a \in Admins, Configures(a)
          PROVE  admin[a].target \in Targets /\ admin[a].target # t
      BY <1>0, <1>1, <2>1 DEF FlightInv, ConfiguredDrains, Admin
    <2> QED BY <1>2, <2>1 DEF FlightInv, ConfiguredDrains, Configures
  <1>9. AbsentIsBlocked'
    BY <1>1, <1>2 DEF FlightInv, AbsentIsBlocked
  <1> QED BY <1>4, <1>6, <1>7, <1>8, <1>9 DEF FlightInv

\* An operation ends; the last one of a target wakes who waits for it.
LEMMA FlightEnds ==
  ASSUME TypeOK, FlightInv, NEW u \in Users, NEW t \in Targets, finishInFlightLocked(t),
         u \in Busy(t), \A x : Busy(x)' = IF x = t THEN Busy(x) \ {u} ELSE Busy(x),
         UNCHANGED <<row, suspended, closed, lifecycleMu>>
  PROVE  FlightInv'
  <1>0. gate \in [Targets -> Gate] /\ admin \in [Admins -> Admin]
    BY DEF TypeOK
  <1>1. Cardinality(Busy(t)) \in Nat /\ Cardinality(Busy(t)) # 0 /\ IsFiniteSet(Busy(t))
    BY BusyFinite
  <1>2. gate[t].inFlight = Cardinality(Busy(t)) /\ gate[t].inFlight > 0
    BY <1>1 DEF FlightInv, Counted
  <1>3. /\ gate' \in [Targets -> Gate] /\ gate'[t].inFlight = gate[t].inFlight - 1
        /\ \A x \in Targets : /\ x # t => gate'[x] = gate[x]
                              /\ gate'[x].configurationBlocked = gate[x].configurationBlocked
    BY <1>0, <1>2, InFlightDoes
  <1>4. Cardinality(Busy(t) \ {u}) = Cardinality(Busy(t)) - 1
    BY <1>1, FS_RemoveElement
  <1>5. gate[t].inFlight = 1 <=> Busy(t) \ {u} = {}
    <2>1. IsFiniteSet(Busy(t) \ {u})
      BY <1>1, FS_RemoveElement
    <2>2. Cardinality(Busy(t) \ {u}) = 0 <=> Busy(t) \ {u} = {}
      BY <2>1, FS_EmptySet
    <2> QED BY <1>1, <1>2, <1>4, <2>2
  <1>6. /\ admin' \in [Admins -> Admin]
        /\ \A a \in Admins : /\ admin'[a].pc = admin[a].pc /\ admin'[a].op = admin[a].op
                             /\ admin'[a].target = admin[a].target
                             /\ \A x : x \in admin'[a].wait <=> x \in admin[a].wait /\ Busy(x)' # {}
    <2>1. Woken(t)
      BY DEF finishInFlightLocked
    <2>2. ASSUME NEW a \in Admins, NEW x
          PROVE  x \in admin'[a].wait <=> x \in admin[a].wait /\ Busy(x)' # {}
      <3>1. x \in admin[a].wait => Busy(x) # {}
        BY DEF FlightInv, WaitIsBusy
      <3>2. gate[t].inFlight = 1 => admin'[a].wait = admin[a].wait \ {t}
        BY <1>0, <2>1, WokenDoes
      <3>3. gate[t].inFlight # 1 => admin'[a].wait = admin[a].wait
        BY <1>0, <2>1, WokenDoes
      <3>4. Busy(t)' = Busy(t) \ {u} /\ (x # t => Busy(x)' = Busy(x))
        OBVIOUS
      <3> QED BY <1>5, <3>1, <3>2, <3>3, <3>4
    <2> QED BY <1>0, <2>1, <2>2, WokenDoes
  <1>7. Counted'
    BY <1>2, <1>3, <1>4 DEF FlightInv, Counted
  <1>8. WaitIsBusy'
    BY <1>6 DEF WaitIsBusy
  <1>9. \A x : Busy(x)' # {} => Busy(x) # {}
    OBVIOUS
  <1>10. HolderFlushes' /\ OneConfigures' /\ ConfiguredIsStored'
    BY <1>6 DEF FlightInv, HolderFlushes, OneConfigures, Configures, ConfiguredIsStored
  <1>11. LockedDrains'
    BY <1>6, <1>9 DEF FlightInv, LockedDrains
  <1>12. ConfiguredDrains'
    <2>1. \A a \in Admins : admin[a].target \in Targets
      BY <1>0 DEF Admin
    <2> QED BY <1>3, <1>6, <1>9, <2>1 DEF FlightInv, ConfiguredDrains, Configures
  <1>13. AbsentIsBlocked'
    BY <1>3, <1>9 DEF FlightInv, AbsentIsBlocked
  <1> QED BY <1>7, <1>8, <1>10, <1>11, <1>12, <1>13 DEF FlightInv

LEMMA UserFlight ==
  ASSUME TypeOK, FlightInv, NEW u \in Users, UserStep(u)
  PROVE  FlightInv'
  <1>0. user[u].target \in Targets
    BY DEF TypeOK, User
  <1>1. CASE \/ \E t \in Targets, s \in Specs : Lookup(u, t, s)
             \/ AcquireTarget(u) \/ executionEndpoint(u) \/ FindEntry(u) \/ EntryReady(u)
             \/ TakeConnection(u) \/ NotDispatched(u) \/ Dropped(u)
    <2>1. OthersStay(u) /\ user[u].pc \notin Flying /\ user'[u].pc \notin Flying
      BY <1>1, LeaseMoves, ConnectMoves, Defaults DEF Goes, Gone, Flying
    <2>2. UNCHANGED <<row, suspended, closed, gate, admin, lifecycleMu>>
      BY <1>1 DEF Lookup, AcquireTarget, executionEndpoint, FindEntry, EntryReady, TakeConnection,
                  NotDispatched, Dropped, poolVars
    <2>3. \A t : Busy(t)' = Busy(t)
      BY <2>1, BusyMoves
    <2> QED BY <2>2, <2>3, FlightStays
  <1>2. CASE discard(u)
    <2>1. OthersStay(u) /\ user[u].pc \in Flying /\ user'[u].pc \in Flying /\ user'[u].target = user[u].target
      BY <1>2, LeaseMoves DEF Goes, SameLease, Flying
    <2>2. UNCHANGED <<row, suspended, closed, gate, admin, lifecycleMu>>
      BY <1>2 DEF discard
    <2>3. \A t : Busy(t)' = Busy(t)
      BY <2>1, BusyMoves
    <2> QED BY <2>2, <2>3, FlightStays
  <1>3. CASE BeginDial(u) \/ beginDispatch(u)
    <2>1. OthersStay(u) /\ user[u].pc \notin Flying /\ user'[u].pc \in Flying /\ user'[u].target = user[u].target
      BY <1>3, LeaseMoves, ConnectMoves DEF Goes, SameLease, Flying
    <2>2. /\ UNCHANGED <<row, suspended, closed, admin, lifecycleMu>>
          /\ leaseValidLocked(u) /\ beginInFlightLocked(user[u].target)
      BY <1>3 DEF BeginDial, beginDispatch, Usable
    <2>3. /\ u \notin Busy(user[u].target)
          /\ \A t : Busy(t)' = IF t = user[u].target THEN Busy(t) \cup {u} ELSE Busy(t)
      BY <2>1, BusyMoves
    <2> QED BY <1>0, <2>2, <2>3, FlightBegins
  <1>4. CASE DialSucceeds(u) \/ DialFails(u) \/ finishInFlight(u)
    <2>1. OthersStay(u) /\ user[u].pc \in Flying /\ user'[u].pc \notin Flying
      BY <1>4, LeaseMoves, ConnectMoves, Defaults DEF Goes, Gone, Flying
    <2>2. UNCHANGED <<row, suspended, closed, lifecycleMu>> /\ finishInFlightLocked(user[u].target)
      BY <1>4 DEF DialSucceeds, DialFails, finishInFlight
    <2>3. /\ u \in Busy(user[u].target)
          /\ \A t : Busy(t)' = IF t = user[u].target THEN Busy(t) \ {u} ELSE Busy(t)
      BY <2>1, BusyMoves
    <2> QED BY <1>0, <2>2, <2>3, FlightEnds
  <1> QED BY <1>1, <1>2, <1>3, <1>4 DEF UserStep

-----------------------------------------------------------------------------
(* Administrators *)

LEMMA InvalidateDoes ==
  ASSUME TypeOK, NEW a \in Admins, NEW op, NEW t, NEW T \in SUBSET Targets,
         NEW block \in BOOLEAN, NEW n \in Nat, Invalidate(a, op, t, T, block, n)
  PROVE  /\ gate' \in [Targets -> Gate]
         /\ \A x \in Targets \ T : gate'[x] = gate[x]
         /\ \A x \in Targets : /\ gate'[x].inFlight = gate[x].inFlight
                               /\ gate[x].configurationBlocked => gate'[x].configurationBlocked
                               /\ x \in T /\ block => gate'[x].configurationBlocked
         /\ row' = row /\ user' = user /\ \A x : Busy(x)' = Busy(x)
  <1>1. ASSUME NEW g \in Gate, g.generation < MaxGeneration, NEW h,
               h = [g EXCEPT !.generation = @ + 1, !.configurationBlocked = @ \/ block,
                             !.lifecycleFlushes = @ + n]
        PROVE  /\ h \in Gate /\ h.inFlight = g.inFlight
               /\ g.configurationBlocked => h.configurationBlocked
               /\ block => h.configurationBlocked
    <2>1. /\ h.generation = g.generation + 1 /\ h.inFlight = g.inFlight
          /\ h.lifecycleFlushes = g.lifecycleFlushes + n
          /\ h.configurationBlocked = (g.configurationBlocked \/ block)
      BY <1>1 DEF Gate
    <2>2. g.generation + 1 \in 0..MaxGeneration /\ g.lifecycleFlushes + n \in Nat /\ g.inFlight \in Nat
      BY <1>1, BoundsAssumption DEF Gate
    <2>3. h \in Gate
      BY <1>1, <2>2 DEF Gate
    <2> QED BY <2>1, <2>3
  <1>2. /\ \A x \in T : gate[x].generation < MaxGeneration
        /\ gate' = [x \in Targets |->
                  IF x \in T
                  THEN [gate[x] EXCEPT !.generation = @ + 1,
                                       !.configurationBlocked = @ \/ block,
                                       !.lifecycleFlushes = @ + n]
                  ELSE gate[x]]
    BY DEF Invalidate
  <1>3. gate \in [Targets -> Gate]
    BY DEF TypeOK
  <1>4. ASSUME NEW x \in T
        PROVE  /\ gate'[x] \in Gate
               /\ gate'[x].inFlight = gate[x].inFlight
               /\ gate[x].configurationBlocked => gate'[x].configurationBlocked
               /\ block => gate'[x].configurationBlocked
    <2>1. gate'[x] = [gate[x] EXCEPT !.generation = @ + 1, !.configurationBlocked = @ \/ block,
                                     !.lifecycleFlushes = @ + n]
      BY <1>2
    <2>2. gate[x] \in Gate /\ gate[x].generation < MaxGeneration
      BY <1>2, <1>3
    <2> QED BY <1>1, <2>1, <2>2
  <1>5. \A x \in Targets \ T : gate'[x] = gate[x]
    BY <1>2
  <1>6. gate' \in [Targets -> Gate]
    BY <1>2, <1>3, <1>4
  <1>7. row' = row /\ user' = user
    BY DEF Invalidate
  <1>8. \A x : Busy(x)' = Busy(x)
    BY <1>7 DEF Busy
  <1>9. ASSUME NEW x \in Targets
        PROVE  /\ gate'[x].inFlight = gate[x].inFlight
               /\ gate[x].configurationBlocked => gate'[x].configurationBlocked
               /\ x \in T /\ block => gate'[x].configurationBlocked
    BY <1>4, <1>5
  <1> QED BY <1>5, <1>6, <1>7, <1>8, <1>9

\* The five ways in which the administrator a begins a flush.
Flushes(a, op, t, T, block, n) ==
    /\ admin[a].pc = "idle" /\ Invalidate(a, op, t, T, block, n)
    /\ suspended' \in BOOLEAN /\ closed' \in BOOLEAN
    /\ \/ /\ op \in Configuring /\ T = {t} /\ block /\ MayConfigure /\ row[t].revision # 0
          /\ UNCHANGED <<suspended, closed, lifecycleMu>>
       \/ op = "CloseTarget" /\ UNCHANGED <<suspended, closed, lifecycleMu>>
       \/ /\ op \in {"CloseAll", "Suspend", "Close"} /\ T = Targets
          /\ lifecycleMu = Nobody /\ lifecycleMu' = a

LEMMA FlushSteps ==
  ASSUME TypeOK, NEW a \in Admins,
         \/ \E op \in Configuring, t \in Targets : InvalidateTarget(a, op, t)
         \/ \E t \in Targets : CloseTarget(a, t)
         \/ CloseAll(a) \/ Suspend(a) \/ Close(a)
  PROVE  \E op : \E t \in Targets, T \in SUBSET Targets, block \in BOOLEAN, n \in Nat :
             Flushes(a, op, t, T, block, n)
  <1>0. admin[a].target \in Targets /\ suspended \in BOOLEAN /\ closed \in BOOLEAN
    BY DEF TypeOK, Admin
  <1>1. ASSUME NEW op \in Configuring, NEW t \in Targets, InvalidateTarget(a, op, t)
        PROVE  Flushes(a, op, t, {t}, TRUE, 0)
    BY <1>0, <1>1 DEF InvalidateTarget, Flushes
  <1>2. ASSUME NEW t \in Targets, CloseTarget(a, t) PROVE Flushes(a, "CloseTarget", t, {t}, FALSE, 1)
    BY <1>0, <1>2 DEF CloseTarget, Flushes
  <1>3. ASSUME CloseAll(a) PROVE Flushes(a, "CloseAll", admin[a].target, Targets, FALSE, 1)
    BY <1>0, <1>3 DEF CloseAll, Flushes
  <1>4. ASSUME Suspend(a) PROVE Flushes(a, "Suspend", admin[a].target, Targets, FALSE, 0)
    BY <1>0, <1>4 DEF Suspend, Flushes
  <1>5. ASSUME Close(a) PROVE Flushes(a, "Close", admin[a].target, Targets, FALSE, 0)
    BY <1>0, <1>5 DEF Close, Flushes
  <1> QED BY <1>0, <1>1, <1>2, <1>3, <1>4, <1>5, ZenonT(30)

\* The administrator a begins a flush: what others wait for stays, and a waits
\* for whatever is in flight on the targets.
LEMMA FlightInvalidates ==
  ASSUME TypeOK, FlightInv, NEW a \in Admins, NEW op, NEW t \in Targets,
         NEW T \in SUBSET Targets, NEW block \in BOOLEAN, NEW n \in Nat,
         Flushes(a, op, t, T, block, n)
  PROVE  FlightInv'
  <1> USE DEF Flushes
  <1>0. gate \in [Targets -> Gate] /\ admin \in [Admins -> Admin] /\ lifecycleMu \in Admins \cup {Nobody}
    BY DEF TypeOK
  <1>1. /\ gate' \in [Targets -> Gate]
        /\ \A x \in Targets : /\ gate'[x].inFlight = gate[x].inFlight
                              /\ gate[x].configurationBlocked => gate'[x].configurationBlocked
                              /\ x \in T /\ block => gate'[x].configurationBlocked
        /\ row' = row /\ \A x : Busy(x)' = Busy(x)
    BY InvalidateDoes
  <1>2. /\ admin'[a].pc = "flushing" /\ admin'[a].op = op /\ admin'[a].target = t
        /\ admin'[a].wait = {x \in T : gate[x].inFlight > 0}
        /\ \A b \in Admins \ {a} : admin'[b] = admin[b]
    <2> DEFINE w == {x \in T : gate[x].inFlight > 0}
    <2>1. admin' = [admin EXCEPT ![a] = [pc |-> "flushing", op |-> op, target |-> t, wait |-> w]]
      BY DEF Invalidate
    <2> HIDE DEF w
    <2>2. /\ admin'[a].pc = "flushing" /\ admin'[a].op = op /\ admin'[a].target = t
          /\ admin'[a].wait = w /\ \A b \in Admins \ {a} : admin'[b] = admin[b]
      BY <1>0, <2>1
    <2> QED BY <2>2 DEF w
  <1>3. \A x \in Targets : gate[x].inFlight > 0 <=> Busy(x) # {}
    BY BusyFinite DEF FlightInv, Counted
  <1>4. lifecycleMu # a /\ ~Configures(a)
    BY DEF FlightInv, HolderFlushes, Configures
  <1>5. Counted'
    BY <1>1 DEF FlightInv, Counted
  <1>6. WaitIsBusy'
    BY <1>1, <1>2, <1>3 DEF FlightInv, WaitIsBusy
  <1>7. HolderFlushes'
    <2>1. CASE lifecycleMu' = lifecycleMu /\ op \notin {"CloseAll", "Suspend", "Close"}
      BY <1>2, <1>4, <2>1 DEF FlightInv, HolderFlushes
    <2>2. CASE lifecycleMu = Nobody /\ lifecycleMu' = a /\ op \in {"CloseAll", "Suspend", "Close"}
      BY <1>2, <2>2, ActorsAssumption DEF FlightInv, HolderFlushes
    <2> QED BY <2>1, <2>2 DEF Configuring
  <1>8. LockedDrains'
    <2>1. CASE UNCHANGED <<suspended, closed, lifecycleMu>>
      BY <1>1, <1>2, <1>4, <2>1 DEF FlightInv, LockedDrains
    <2>2. CASE T = Targets /\ lifecycleMu' = a
      BY <1>1, <1>2, <1>3, <2>2 DEF LockedDrains
    <2> QED BY <2>1, <2>2
  <1>9. OneConfigures'
    <2>1. \A b \in Admins \ {a} : Configures(b)' <=> Configures(b)
      BY <1>2 DEF Configures
    <2>2. Configures(a)' => \A b \in Admins : ~Configures(b)
      BY <1>2 DEF Configures, Configuring, MayConfigure
    <2> QED BY <2>1, <2>2 DEF FlightInv, OneConfigures
  <1>10. ConfiguredDrains'
    <2>1. ASSUME NEW b \in Admins, b # a, Configures(b)'
          PROVE  /\ gate'[admin[b].target].configurationBlocked
                 /\ Busy(admin[b].target) # {} =>
                       admin[b].pc = "flushing" /\ admin[b].target \in admin[b].wait
      <3>1. Configures(b) /\ admin'[b] = admin[b] /\ admin[b].target \in Targets
        BY <1>0, <1>2, <2>1 DEF Configures, Admin
      <3> QED BY <1>1, <3>1 DEF FlightInv, ConfiguredDrains
    <2>2. ASSUME Configures(a)'
          PROVE  /\ gate'[t].configurationBlocked
                 /\ Busy(t) # {} => t \in admin'[a].wait
      <3>1. op \in Configuring
        BY <1>2, <2>2 DEF Configures
      <3>2. T = {t} /\ block
        BY <3>1 DEF Configuring
      <3> QED BY <1>1, <1>2, <1>3, <3>2
    <2> QED BY <1>1, <1>2, <2>1, <2>2 DEF ConfiguredDrains
  <1>11. AbsentIsBlocked'
    BY <1>1 DEF FlightInv, AbsentIsBlocked
  <1>12. ConfiguredIsStored'
    <2>1. ASSUME NEW b \in Admins, b # a PROVE admin'[b] = admin[b]
      BY <1>2, <2>1
    <2>2. op \in Configuring => row'[t].revision # 0
      BY <1>1 DEF Configuring
    <2> QED BY <1>1, <1>2, <2>1, <2>2 DEF FlightInv, ConfiguredIsStored, Configures
  <1> QED BY <1>5, <1>6, <1>7, <1>8, <1>9, <1>10, <1>11, <1>12 DEF FlightInv

\* An administrator moves on or returns: nothing it still waits for is lost.
LEMMA FlightReturns ==
  ASSUME TypeOK, FlightInv, NEW a \in Admins, NEW x \in Admin,
         admin' = [admin EXCEPT ![a] = x], x.wait = {},
         \A t \in Targets : /\ gate'[t].inFlight = gate[t].inFlight
                            /\ gate'[t].configurationBlocked <=> gate[t].configurationBlocked,
         lifecycleMu' = IF lifecycleMu = a THEN Nobody ELSE lifecycleMu,
         UNCHANGED <<row, suspended, closed, user>>,
         \/ /\ admin[a].wait = {}
            /\ \/ x.pc = "idle" \/ /\ x.pc = "revoked" /\ Configures(a)
                                   /\ x.op = admin[a].op /\ x.target = admin[a].target
         \/ /\ admin[a].pc = "idle" /\ MayConfigure /\ row[x.target].revision = 0
            /\ x.pc = "revoked" /\ x.op = "upsert"
  PROVE  FlightInv'
  <1>0. /\ admin \in [Admins -> Admin] /\ lifecycleMu \in Admins \cup {Nobody}
        /\ x.target \in Targets /\ \A b \in Admins : admin[b].target \in Targets
    BY DEF TypeOK, Admin
  <1>1. admin'[a] = x /\ \A b \in Admins \ {a} : admin'[b] = admin[b]
    BY <1>0
  <1>2. \A t : Busy(t)' = Busy(t)
    BY DEF Busy
  <1>3. Counted' /\ WaitIsBusy' /\ AbsentIsBlocked'
    BY <1>1, <1>2 DEF FlightInv, Counted, WaitIsBusy, AbsentIsBlocked
  <1>4. HolderFlushes'
    BY <1>0, <1>1, ActorsAssumption DEF FlightInv, HolderFlushes, Configuring
  <1>5. LockedDrains'
    <2>1. CASE lifecycleMu = a
      <3>1. admin[a].wait = {}
        BY <2>1 DEF FlightInv, HolderFlushes
      <3> QED BY <1>2, <2>1, <3>1 DEF FlightInv, LockedDrains
    <2>2. CASE lifecycleMu # a
      BY <1>1, <1>2, <2>2 DEF FlightInv, LockedDrains
    <2> QED BY <2>1, <2>2
  <1>6. \A b \in Admins \ {a} : Configures(b)' <=> Configures(b)
    BY <1>1 DEF Configures
  <1>7. OneConfigures'
    BY <1>1, <1>6 DEF FlightInv, OneConfigures, Configures, MayConfigure
  <1>8. ConfiguredDrains'
    <2>1. ASSUME Configures(a)'
          PROVE  gate'[x.target].configurationBlocked /\ Busy(x.target) = {}
      <3>1. CASE admin[a].wait = {} /\ Configures(a) /\ x.target = admin[a].target
        BY <1>0, <3>1 DEF FlightInv, ConfiguredDrains
      <3>2. CASE row[x.target].revision = 0
        BY <1>0, <3>2 DEF FlightInv, AbsentIsBlocked
      <3>3. x.pc # "idle"
        BY <1>1, <2>1 DEF Configures
      <3> QED BY <3>1, <3>2, <3>3
    <2>2. ASSUME NEW b \in Admins, b # a, Configures(b)'
          PROVE  /\ gate'[admin[b].target].configurationBlocked
                 /\ Busy(admin[b].target) # {} =>
                       admin[b].pc = "flushing" /\ admin[b].target \in admin[b].wait
      BY <1>0, <1>6, <2>2 DEF FlightInv, ConfiguredDrains
    <2> QED BY <1>1, <1>2, <2>1, <2>2 DEF ConfiguredDrains
  <1>9. ConfiguredIsStored'
    BY <1>1 DEF FlightInv, ConfiguredIsStored, Configures, Configuring
  <1> QED BY <1>3, <1>4, <1>5, <1>7, <1>8, <1>9 DEF FlightInv

LEMMA ActivatedDoes ==
  ASSUME TypeOK, NEW a \in Admins, Activated(a) \/ UNCHANGED gate
  PROVE  /\ gate' \in [Targets -> Gate]
         /\ \A t \in Targets : /\ gate'[t].inFlight = gate[t].inFlight
                               /\ gate'[t].generation = gate[t].generation
                               /\ gate'[t].configurationBlocked => gate[t].configurationBlocked
                               /\ t # admin[a].target => gate'[t] = gate[t]
  <1>0. gate \in [Targets -> Gate] /\ admin[a].target \in Targets
    BY DEF TypeOK, Admin
  <1>1. CASE UNCHANGED gate
    BY <1>0, <1>1
  <1>2. CASE Activated(a)
    <2>1. ASSUME NEW g \in Gate, NEW b \in BOOLEAN, NEW h, h = [g EXCEPT !.configurationBlocked = @ /\ b]
          PROVE  /\ h \in Gate /\ h.inFlight = g.inFlight /\ h.generation = g.generation
                 /\ h.configurationBlocked => g.configurationBlocked
      BY <2>1 DEF Gate
    <2>2. gate'[admin[a].target] = [gate[admin[a].target] EXCEPT !.configurationBlocked = @ /\ closed]
      BY <1>0, <1>2 DEF Activated
    <2>3. \A t \in Targets : t # admin[a].target => gate'[t] = gate[t]
      BY <1>0, <1>2 DEF Activated
    <2>4. closed \in BOOLEAN /\ gate[admin[a].target] \in Gate
      BY <1>0 DEF TypeOK
    <2>5. /\ gate'[admin[a].target] \in Gate
          /\ gate'[admin[a].target].inFlight = gate[admin[a].target].inFlight
          /\ gate'[admin[a].target].generation = gate[admin[a].target].generation
          /\ gate'[admin[a].target].configurationBlocked => gate[admin[a].target].configurationBlocked
      BY <2>1, <2>2, <2>4
    <2>6. gate' \in [Targets -> Gate]
      <3>1. gate' = [t \in Targets |-> gate'[t]]
        BY <1>0, <1>2 DEF Activated
      <3> QED BY <1>0, <2>3, <2>5, <3>1
    <2> QED BY <2>3, <2>5, <2>6
  <1> QED BY <1>1, <1>2

\* The reconfiguration ends.
LEMMA FlightConfigured ==
  ASSUME TypeOK, FlightInv, NEW a \in Admins, admin[a].pc = "revoked",
         admin' = [admin EXCEPT ![a] = NoAdmin],
         \A t \in Targets : /\ gate'[t].inFlight = gate[t].inFlight
                            /\ t # admin[a].target => gate'[t] = gate[t] /\ row'[t] = row[t],
         row'[admin[a].target].revision = 0 => gate'[admin[a].target].configurationBlocked,
         UNCHANGED <<suspended, closed, user, lifecycleMu>>
  PROVE  FlightInv'
  <1>0. /\ admin \in [Admins -> Admin] /\ lifecycleMu \in Admins \cup {Nobody}
        /\ admin[a].target \in Targets
    BY DEF TypeOK, Admin
  <1>1. admin'[a] = NoAdmin /\ \A b \in Admins \ {a} : admin'[b] = admin[b]
    BY <1>0
  <1>2. \A t : Busy(t)' = Busy(t)
    BY DEF Busy
  <1>3. Configures(a) /\ \A b \in Admins \ {a} : ~Configures(b)
    BY DEF FlightInv, ConfiguredIsStored, OneConfigures, Configures
  <1>4. \A b \in Admins : ~Configures(b)'
    BY <1>1, <1>3, Defaults DEF Configures
  <1>5. OneConfigures' /\ ConfiguredDrains'
    BY <1>4 DEF OneConfigures, ConfiguredDrains
  <1>6. ConfiguredIsStored'
    BY <1>1, <1>4, Defaults DEF FlightInv, ConfiguredIsStored
  <1>7. Counted' /\ WaitIsBusy'
    BY <1>1, <1>2, Defaults DEF FlightInv, Counted, WaitIsBusy
  <1>8. lifecycleMu # a
    BY DEF FlightInv, HolderFlushes
  <1>9. HolderFlushes'
    BY <1>1, <1>8, Defaults DEF FlightInv, HolderFlushes
  <1>10. LockedDrains'
    BY <1>1, <1>2, <1>8 DEF FlightInv, LockedDrains
  <1>11. AbsentIsBlocked'
    <2>1. Busy(admin[a].target) = {}
      BY <1>3 DEF FlightInv, ConfiguredDrains
    <2> QED BY <1>2, <2>1 DEF FlightInv, AbsentIsBlocked
  <1> QED BY <1>5, <1>6, <1>7, <1>9, <1>10, <1>11 DEF FlightInv

\* How a change of the row old to new looks to those who reviewed old.
Follows(old, new) ==
    \/ new = old /\ old.revision # 0
    \/ new.registration = old.registration /\ new.revision = old.revision + 1
    \/ new.registration = old.registration + 1 /\ new.revision = 0

LEMMA CommittedFollows ==
  ASSUME TypeOK, FlightInv, NEW a \in Admins, admin[a].pc = "revoked", NEW new \in Committed(a)
  PROVE  /\ Follows(row[admin[a].target], new)
         /\ new.revision = 0 => admin[a].op = "delete"
  <1> DEFINE old == row[admin[a].target]
  <1>0. old \in Row /\ admin[a].target \in Targets
    BY DEF TypeOK, Admin
  <1>1. admin[a].op \in Configuring /\ (admin[a].op # "upsert" => old.revision # 0)
    BY DEF FlightInv, ConfiguredIsStored, Configures
  <1>2. ASSUME NEW E, NEW C,
               new \in [revision : {old.revision + 1}, enabled : E, config : C, registration : {old.registration}]
        PROVE  Follows(old, new) /\ new.revision # 0
    <2>1. new.registration = old.registration /\ new.revision = old.revision + 1
      BY <1>2
    <2> QED BY <1>0, <2>1 DEF Row, Follows
  <1>3. CASE admin[a].op = "upsert"
    <2>1. \/ new \in [revision : {old.revision + 1}, enabled : BOOLEAN, config : Configs,
                      registration : {old.registration}]
          \/ old.revision # 0 /\ new = old
      BY <1>3 DEF Committed
    <2> QED BY <1>2, <2>1 DEF Follows
  <1>4. CASE admin[a].op = "disable"
    <2>1. \/ new \in [revision : {old.revision + 1}, enabled : {FALSE}, config : {old.config},
                      registration : {old.registration}]
          \/ new = old
      BY <1>4 DEF Committed
    <2> QED BY <1>1, <1>2, <1>4, <2>1 DEF Follows
  <1>5. CASE admin[a].op = "enable"
    <2>1. new = old
      BY <1>5 DEF Committed
    <2> QED BY <1>1, <1>5, <2>1 DEF Follows
  <1>6. CASE admin[a].op = "delete"
    <2>1. new = [revision |-> 0, enabled |-> FALSE, config |-> AnyConfig, registration |-> old.registration + 1]
      BY <1>6 DEF Committed
    <2> QED BY <1>6, <2>1 DEF Follows
  <1> QED BY <1>1, <1>3, <1>4, <1>5, <1>6 DEF Configuring

\* A row that is gone stays blocked.
LEMMA CommittedDoes ==
  ASSUME TypeOK, FlightInv, NEW a \in Admins, Commit(a)
  PROVE  /\ row' \in [Targets -> Row] /\ (Activated(a) \/ UNCHANGED gate)
         /\ \A t \in Targets : t # admin[a].target => row'[t] = row[t]
         /\ Follows(row[admin[a].target], row'[admin[a].target])
         /\ row'[admin[a].target].revision = 0 => gate'[admin[a].target].configurationBlocked
  <1>0. row \in [Targets -> Row] /\ admin[a].target \in Targets /\ admin[a].pc = "revoked"
    BY DEF TypeOK, Admin, Commit
  <1>1. PICK new \in Committed(a) \cap Row :
          /\ row' = [row EXCEPT ![admin[a].target] = new]
          /\ IF Activates(a) THEN Activated(a) ELSE UNCHANGED gate
    BY DEF Commit
  <1>2. /\ row' \in [Targets -> Row] /\ row'[admin[a].target] = new
        /\ \A t \in Targets : t # admin[a].target => row'[t] = row[t]
    BY <1>0, <1>1
  <1>3. gate[admin[a].target].configurationBlocked
    BY <1>0 DEF FlightInv, ConfiguredIsStored, ConfiguredDrains, Configures
  <1>4. Follows(row[admin[a].target], new) /\ (new.revision = 0 => admin[a].op = "delete")
    BY <1>0, <1>1, CommittedFollows
  <1>5. admin[a].op = "delete" => UNCHANGED gate
    BY <1>1 DEF Activates
  <1> QED BY <1>1, <1>2, <1>3, <1>4, <1>5

\* releaseTargetFlush changes only the count of flushes.
LEMMA ReleasedDoes ==
  ASSUME TypeOK, NEW a \in Admins, releaseTargetFlush(a)
  PROVE  /\ gate' \in [Targets -> Gate]
         /\ \A t \in Targets : /\ gate'[t].inFlight = gate[t].inFlight
                               /\ gate'[t].generation = gate[t].generation
                               /\ gate'[t].configurationBlocked <=> gate[t].configurationBlocked
  <1>0. gate \in [Targets -> Gate]
    BY DEF TypeOK
  <1>1. ASSUME NEW g \in Gate, NEW k \in Nat, NEW h, h = [g EXCEPT !.lifecycleFlushes = k]
        PROVE  /\ h \in Gate /\ h.inFlight = g.inFlight /\ h.generation = g.generation
               /\ h.configurationBlocked <=> g.configurationBlocked
    BY <1>1 DEF Gate
  <1>2. PICK T : gate' = [t \in Targets |-> IF t \in T
                                            THEN [gate[t] EXCEPT !.lifecycleFlushes = Released(t)]
                                            ELSE gate[t]]
    BY DEF releaseTargetFlush
  <1>3. ASSUME NEW t \in Targets PROVE Released(t) \in Nat
    <2>1. gate[t].lifecycleFlushes \in Nat
      BY <1>0 DEF Gate
    <2> QED BY <2>1 DEF Released
  <1>4. ASSUME NEW t \in Targets
        PROVE  /\ gate'[t] \in Gate
               /\ gate'[t].inFlight = gate[t].inFlight /\ gate'[t].generation = gate[t].generation
               /\ gate'[t].configurationBlocked <=> gate[t].configurationBlocked
    <2>1. gate'[t] = gate[t] \/ gate'[t] = [gate[t] EXCEPT !.lifecycleFlushes = Released(t)]
      BY <1>2
    <2> QED BY <1>0, <1>1, <1>3, <2>1
  <1> QED BY <1>2, <1>4

LEMMA AdminFlight ==
  ASSUME TypeOK, FlightInv, NEW a \in Admins, AdminStep(a)
  PROVE  FlightInv'
  <1>0. admin \in [Admins -> Admin] /\ admin[a] \in Admin /\ admin[a].target \in Targets
    BY DEF TypeOK, Admin
  <1>1. CASE \/ \E op \in Configuring, t \in Targets : InvalidateTarget(a, op, t)
             \/ \E t \in Targets : CloseTarget(a, t)
             \/ CloseAll(a) \/ Suspend(a) \/ Close(a)
    BY <1>1, FlushSteps, FlightInvalidates
  <1>2. ASSUME NEW t \in Targets, AddTarget(a, t) PROVE FlightInv'
    <2> DEFINE x == [pc |-> "revoked", op |-> "upsert", target |-> t, wait |-> {}]
    <2>1. x \in Admin /\ x.pc = "revoked" /\ x.op = "upsert" /\ x.target = t /\ x.wait = {}
      BY DEF Admin
    <2>2. admin' = [admin EXCEPT ![a] = x] /\ UNCHANGED <<row, suspended, closed, user, gate, lifecycleMu>>
      BY <1>2 DEF AddTarget, poolVars
    <2>3. admin[a].pc = "idle" /\ MayConfigure /\ row[t].revision = 0 /\ lifecycleMu # a
      BY <1>2 DEF AddTarget, FlightInv, HolderFlushes
    <2> HIDE DEF x
    <2> QED BY <2>1, <2>2, <2>3, FlightReturns
  <1>3. CASE RevokeReturns(a)
    <2> DEFINE x == [admin[a] EXCEPT !.pc = "revoked"]
    <2>1. x \in Admin /\ x.pc = "revoked" /\ x.op = admin[a].op /\ x.target = admin[a].target
          /\ x.wait = admin[a].wait
      BY <1>0 DEF Admin
    <2>2. admin' = [admin EXCEPT ![a] = x] /\ UNCHANGED <<row, suspended, closed, user, gate, lifecycleMu>>
      BY <1>3 DEF RevokeReturns, poolVars
    <2>3. admin[a].wait = {} /\ Configures(a) /\ lifecycleMu # a
      BY <1>3 DEF RevokeReturns, FlushDone, Configures, Configuring, FlightInv, HolderFlushes
    <2> HIDE DEF x
    <2> QED BY <2>1, <2>2, <2>3, FlightReturns
  <1>4. CASE releaseTargetFlush(a)
    <2>1. /\ admin' = [admin EXCEPT ![a] = NoAdmin] /\ UNCHANGED <<row, suspended, closed, user>>
          /\ lifecycleMu' = IF lifecycleMu = a THEN Nobody ELSE lifecycleMu
          /\ admin[a].wait = {}
      BY <1>4 DEF releaseTargetFlush, FlushDone
    <2> QED BY <1>4, <2>1, ReleasedDoes, FlightReturns, Defaults
  <1>5. CASE SuspendReturns(a)
    <2>1. /\ admin' = [admin EXCEPT ![a] = NoAdmin] /\ UNCHANGED <<row, suspended, closed, user, gate>>
          /\ lifecycleMu' = Nobody /\ lifecycleMu = a /\ admin[a].wait = {}
      BY <1>5 DEF SuspendReturns, FlushDone, poolVars, FlightInv, HolderFlushes
    <2> QED BY <2>1, FlightReturns, Defaults
  <1>6. CASE Commit(a)
    <2>1. /\ admin' = [admin EXCEPT ![a] = NoAdmin] /\ UNCHANGED <<suspended, closed, user, lifecycleMu>>
          /\ admin[a].pc = "revoked"
      BY <1>6 DEF Commit
    <2> QED BY <1>6, <2>1, CommittedDoes, ActivatedDoes, FlightConfigured
  <1>7. CASE Fail(a)
    <2>1. /\ admin' = [admin EXCEPT ![a] = NoAdmin] /\ UNCHANGED <<row, suspended, closed, user, lifecycleMu>>
          /\ admin[a].pc = "revoked" /\ (Activated(a) \/ UNCHANGED gate)
      BY <1>7 DEF Fail, ActivatedAfterFailure
    <2>2. row[admin[a].target].revision = 0 => gate'[admin[a].target].configurationBlocked
      BY <1>0, <1>7 DEF Fail, ActivatedAfterFailure, FlightInv, AbsentIsBlocked
    <2> QED BY <2>1, <2>2, ActivatedDoes, FlightConfigured
  <1> QED BY <1>1, <1>2, <1>3, <1>4, <1>5, <1>6, <1>7 DEF AdminStep

LEMMA NextFlight ==
  ASSUME TypeOK, FlightInv, [Next]_vars
  PROVE  FlightInv'
  <1>1. CASE \E x \in Users \cup Admins : closeConnections(x)
    BY <1>1, FlightStays DEF closeConnections, Busy
  <1>2. CASE Resume
    <2>1. /\ UNCHANGED <<row, gate, admin, lifecycleMu, closed>> /\ ~closed' /\ ~suspended'
          /\ \A t : Busy(t)' = Busy(t)
      BY <1>2 DEF Resume, Busy
    <2> QED BY <2>1 DEF FlightInv, Counted, WaitIsBusy, HolderFlushes, LockedDrains, OneConfigures,
                        Configures, ConfiguredDrains, AbsentIsBlocked, ConfiguredIsStored
  <1>3. CASE UNCHANGED vars
    BY <1>3, FlightStays DEF vars, Busy
  <1> QED BY <1>1, <1>2, <1>3, UserFlight, AdminFlight DEF Next

-----------------------------------------------------------------------------
(* Leases *)

\* No generation advances and no target is blocked.
GatesStay ==
    \A t \in Targets : /\ gate'[t].generation = gate[t].generation
                       /\ gate'[t].configurationBlocked => gate[t].configurationBlocked

LEMMA LeaseStays ==
  ASSUME TypeOK, LeaseInv, GatesStay, UNCHANGED <<row, user>>
  PROVE  LeaseInv'
  <1>1. \A u \in Users : user[u].target \in Targets
    BY DEF TypeOK, User
  <1> QED BY <1>1 DEF LeaseInv, LeaseIsOld, CurrentIsChecked, RunsChecked, ReadIsPast, GatesStay

\* What the lease of u must be after its step, in terms of the old gate and row.
LeaseMoved(u) ==
    /\ user'[u].pc \in Leased =>
          /\ user'[u].generation <= gate[user'[u].target].generation
          /\ gate[user'[u].target].configurationBlocked =>
                user'[u].generation # gate[user'[u].target].generation
    /\ /\ user'[u].pc \in Checked
       /\ user'[u].generation = gate[user'[u].target].generation \/ user'[u].pc = "executing"
       => Matches(user'[u], row[user'[u].target])
    /\ user'[u].pc # "idle" => Past(user'[u], row[user'[u].target])

LEMMA LeaseOthers ==
  ASSUME TypeOK, LeaseInv, GatesStay, UNCHANGED row, NEW u \in Users, OthersStay(u), LeaseMoved(u)
  PROVE  LeaseInv'
  <1>0. \A v \in Users : user[v].target \in Targets /\ user'[v].target \in Targets
    BY DEF TypeOK, User, OthersStay
  <1>1. \A v \in Users : v = u \/ user'[v] = user[v]
    BY DEF OthersStay
  <1>2. "executing" \in Checked
    BY DEF Checked, UserState
  <1>3. LeaseIsOld'
    BY <1>0, <1>1 DEF LeaseInv, LeaseIsOld, LeaseMoved, GatesStay
  <1>4. CurrentIsChecked'
    <2>1. ASSUME NEW v \in Users, user'[v].pc \in Checked,
                 user'[v].generation = gate'[user'[v].target].generation
          PROVE  Matches(user'[v], row[user'[v].target])
      <3>1. user'[v].generation = gate[user'[v].target].generation
        BY <1>0, <2>1 DEF GatesStay
      <3>2. CASE v = u
        BY <2>1, <3>1, <3>2 DEF LeaseMoved
      <3>3. CASE user'[v] = user[v]
        BY <2>1, <3>1, <3>3 DEF LeaseInv, CurrentIsChecked
      <3> QED BY <1>1, <3>2, <3>3
    <2> QED BY <2>1 DEF CurrentIsChecked
  <1>5. RunsChecked'
    BY <1>0, <1>1, <1>2 DEF LeaseInv, RunsChecked, LeaseMoved
  <1>6. ReadIsPast'
    BY <1>0, <1>1 DEF LeaseInv, ReadIsPast, LeaseMoved
  <1> QED BY <1>3, <1>4, <1>5, <1>6 DEF LeaseInv

LEMMA UserGates ==
  ASSUME TypeOK, NEW u \in Users, UserStep(u)
  PROVE  GatesStay /\ UNCHANGED row /\ gate' \in [Targets -> Gate]
  <1>0. user[u].target \in Targets /\ gate \in [Targets -> Gate]
    BY DEF TypeOK, User
  <1>1. CASE \/ \E t \in Targets, s \in Specs : Lookup(u, t, s)
             \/ AcquireTarget(u) \/ executionEndpoint(u) \/ FindEntry(u) \/ EntryReady(u)
             \/ TakeConnection(u) \/ NotDispatched(u) \/ Dropped(u) \/ discard(u)
    <2>1. UNCHANGED <<row, gate>>
      BY <1>1 DEF Lookup, AcquireTarget, executionEndpoint, FindEntry, EntryReady, TakeConnection,
                  NotDispatched, Dropped, discard, poolVars
    <2> QED BY <1>0, <2>1 DEF GatesStay
  <1>2. CASE BeginDial(u) \/ beginDispatch(u)
    <2>1. UNCHANGED row /\ beginInFlightLocked(user[u].target)
      BY <1>2 DEF BeginDial, beginDispatch
    <2> QED BY <1>0, <2>1, InFlightDoes DEF GatesStay
  <1>3. CASE DialSucceeds(u) \/ DialFails(u) \/ finishInFlight(u)
    <2>1. UNCHANGED row /\ finishInFlightLocked(user[u].target)
      BY <1>3 DEF DialSucceeds, DialFails, finishInFlight
    <2> QED BY <1>0, <2>1, InFlightDoes DEF GatesStay
  <1> QED BY <1>1, <1>2, <1>3 DEF UserStep

LEMMA UserLease ==
  ASSUME TypeOK, LeaseInv, NEW u \in Users, UserStep(u)
  PROVE  LeaseInv'
  <1>0. GatesStay /\ UNCHANGED row
    BY UserGates
  <1>1. SUFFICES OthersStay(u) /\ LeaseMoved(u)
    BY <1>0, LeaseOthers
  <1>2. Checked \cup {"leased"} = Leased /\ "idle" \notin Leased /\ "looked" \notin Leased
        /\ "leased" \notin Checked
    BY DEF Leased, Checked, UserState
  <1>a. ASSUME NEW pc, NEW e, user[u].pc # "idle", Goes(u, pc, e) PROVE Past(user'[u], row[user'[u].target])
    BY <1>a DEF Goes, SameLease, LeaseInv, ReadIsPast, Past
  <1>b. ASSUME NEW pc, NEW e, user[u].pc \in Checked, Goes(u, pc, e),
               user[u].generation = gate[user[u].target].generation
        PROVE  Matches(user'[u], row[user'[u].target])
    BY <1>2, <1>b DEF Goes, SameLease, LeaseInv, CurrentIsChecked, Matches
  <1>3. ASSUME NEW pc \in Checked \ {"executing"}, NEW e, user[u].pc \in Checked, Goes(u, pc, e)
        PROVE  OthersStay(u) /\ LeaseMoved(u)
    BY <1>2, <1>3, <1>a, <1>b DEF Goes, SameLease, LeaseMoved, LeaseInv, LeaseIsOld
  <1>4. ASSUME Gone(u) PROVE OthersStay(u) /\ LeaseMoved(u)
    BY <1>2, <1>4, Defaults DEF Gone, LeaseMoved
  <1>5. {"acquiring", "dialing", "waiting", "found", "ready", "executing", "failed", "dropped"} \subseteq Checked
    BY DEF Checked, UserState
  <1>6. ASSUME NEW t \in Targets, NEW s \in Specs, Lookup(u, t, s) PROVE OthersStay(u) /\ LeaseMoved(u)
    BY <1>2, <1>6, LeaseMoves DEF LeaseMoved, Leased
  <1>7. CASE AcquireTarget(u)
    <2>1. ~gate[user[u].target].configurationBlocked /\ gate[user[u].target].generation \in Int
      BY <1>7 DEF AcquireTarget, blocked, TypeOK, User, Gate
    <2>2. Past(user'[u], row[user'[u].target])
      BY <1>7, LeaseMoves DEF SameReview, LeaseInv, ReadIsPast, Past
    <2> QED BY <1>2, <1>7, <2>1, <2>2, LeaseMoves DEF LeaseMoved, SameReview
  <1>8. CASE executionEndpoint(u)
    <2>1. /\ user[u].pc = "leased" /\ Goes(u, "acquiring", user[u].entry)
          /\ user'[u].config = row[user[u].target].config
      BY <1>8, LeaseMoves
    <2>2. Matches(user'[u], row[user'[u].target])
      BY <1>8, <2>1 DEF executionEndpoint, Goes, SameLease, Matches
    <2>3. Past(user'[u], row[user'[u].target])
      BY <1>a, <2>1
    <2> QED BY <1>2, <1>5, <2>1, <2>2, <2>3 DEF Goes, SameLease, LeaseMoved, LeaseInv, LeaseIsOld
  <1>9. CASE beginDispatch(u)
    <2>1. user[u].pc = "ready" /\ Goes(u, "executing", user[u].entry)
      BY <1>9, LeaseMoves
    <2>2. gate[user[u].target].generation = user[u].generation
      BY <1>9 DEF beginDispatch, Usable, leaseValidLocked
    <2>3. Matches(user'[u], row[user'[u].target]) /\ Past(user'[u], row[user'[u].target])
      BY <1>5, <1>a, <1>b, <2>1, <2>2
    <2> QED BY <1>2, <1>5, <2>1, <2>2, <2>3 DEF Goes, SameLease, LeaseMoved, LeaseInv, LeaseIsOld
  <1>10. CASE BeginDial(u) \/ DialSucceeds(u) \/ FindEntry(u) \/ EntryReady(u) \/ TakeConnection(u) \/ discard(u)
    <2>1. user[u].pc \in Checked /\ \E pc \in Checked \ {"executing"} : \E e : Goes(u, pc, e)
      BY <1>5, <1>10, LeaseMoves, ConnectMoves
    <2> QED BY <1>3, <2>1
  <1>11. CASE DialFails(u) \/ NotDispatched(u) \/ finishInFlight(u) \/ Dropped(u)
    BY <1>4, <1>11, LeaseMoves
  <1> QED BY <1>6, <1>7, <1>8, <1>9, <1>10, <1>11 DEF UserStep

\* A flush makes every lease of its targets an old one.
LEMMA LeaseInvalidates ==
  ASSUME TypeOK, LeaseInv, NEW a \in Admins, NEW op, NEW t \in Targets,
         NEW T \in SUBSET Targets, NEW block \in BOOLEAN, NEW n \in Nat,
         Flushes(a, op, t, T, block, n)
  PROVE  LeaseInv'
  <1>0. /\ \A u \in Users : user[u].target \in Targets /\ user[u].generation \in Int
        /\ \A x \in Targets : gate[x].generation \in Int
    BY DEF TypeOK, User, Gate
  <1>1. Invalidate(a, op, t, T, block, n)
    BY DEF Flushes
  <1>2. /\ \A x \in T : gate'[x].generation = gate[x].generation + 1
        /\ \A x \in Targets \ T : gate'[x] = gate[x]
        /\ row' = row /\ user' = user
    <2>1. \A x \in Targets \ T : gate'[x] = gate[x]
      BY <1>1, InvalidateDoes
    <2>2. ASSUME NEW x \in T PROVE gate'[x].generation = gate[x].generation + 1
      <3>1. gate'[x] = [gate[x] EXCEPT !.generation = @ + 1, !.configurationBlocked = @ \/ block,
                                       !.lifecycleFlushes = @ + n]
        BY <1>1 DEF Invalidate
      <3>2. gate[x] \in Gate
        BY DEF TypeOK
      <3> QED BY <3>1, <3>2 DEF Gate
    <2>3. row' = row /\ user' = user
      BY <1>1, InvalidateDoes
    <2> QED BY <2>1, <2>2, <2>3
  <1>3. Checked \subseteq Leased
    BY DEF Leased
  <1>4. LeaseIsOld'
    BY <1>0, <1>2 DEF LeaseInv, LeaseIsOld
  <1>5. CurrentIsChecked'
    BY <1>0, <1>2, <1>3 DEF LeaseInv, LeaseIsOld, CurrentIsChecked
  <1>6. RunsChecked' /\ ReadIsPast'
    BY <1>2 DEF LeaseInv, RunsChecked, ReadIsPast
  <1> QED BY <1>4, <1>5, <1>6 DEF LeaseInv

\* A row changes when no operation on it runs, and none can begin.
LEMMA LeaseCommits ==
  ASSUME TypeOK, FlightInv, LeaseInv, NEW a \in Admins, Commit(a)
  PROVE  LeaseInv'
  <1>0. \A u \in Users : user[u].target \in Targets
    BY DEF TypeOK, User
  <1>1. user' = user /\ admin[a].pc = "revoked"
    BY DEF Commit
  <1>2. GatesStay
    BY CommittedDoes, ActivatedDoes DEF GatesStay
  <1>3. \A x \in Targets : x # admin[a].target => row'[x] = row[x]
    BY CommittedDoes
  <1>4. gate[admin[a].target].configurationBlocked /\ Busy(admin[a].target) = {}
    BY <1>1 DEF FlightInv, ConfiguredIsStored, ConfiguredDrains, Configures
  <1>5. LeaseIsOld'
    BY <1>0, <1>1, <1>2 DEF LeaseInv, LeaseIsOld, GatesStay
  <1>6. Checked \subseteq Leased
    BY DEF Leased
  <1>7. CurrentIsChecked'
    BY <1>0, <1>1, <1>2, <1>3, <1>4, <1>6 DEF LeaseInv, LeaseIsOld, CurrentIsChecked, GatesStay
  <1>8. RunsChecked'
    <2>1. \A u \in Users : user[u].pc = "executing" => user[u].target # admin[a].target
      BY <1>4 DEF Busy
    <2> QED BY <1>0, <1>1, <1>3, <2>1 DEF LeaseInv, RunsChecked
  <1>9. ReadIsPast'
    <2> SUFFICES ASSUME NEW u \in Users, user[u].pc # "idle" PROVE Past(user[u], row'[user[u].target])
      BY <1>1 DEF ReadIsPast
    <2>1. /\ Past(user[u], row[user[u].target]) /\ user[u].registration \in Nat /\ user[u].revision \in Nat
          /\ row[user[u].target].registration \in Nat /\ row[user[u].target].revision \in Nat
      BY <1>0 DEF LeaseInv, ReadIsPast, TypeOK, User, Row
    <2>2. CASE user[u].target # admin[a].target
      BY <1>0, <1>3, <2>1, <2>2
    <2>3. CASE user[u].target = admin[a].target
      <3>1. Follows(row[user[u].target], row'[user[u].target])
        BY <2>3, CommittedDoes
      <3> QED BY <2>1, <3>1 DEF Follows, Past
    <2> QED BY <2>2, <2>3
  <1> QED BY <1>5, <1>7, <1>8, <1>9 DEF LeaseInv

LEMMA NextLease ==
  ASSUME TypeOK, FlightInv, LeaseInv, [Next]_vars
  PROVE  LeaseInv'
  <1>1. ASSUME NEW a \in Admins, AdminStep(a) PROVE LeaseInv'
    <2>1. CASE \/ \E op \in Configuring, t \in Targets : InvalidateTarget(a, op, t)
               \/ \E t \in Targets : CloseTarget(a, t)
               \/ CloseAll(a) \/ Suspend(a) \/ Close(a)
      BY <2>1, FlushSteps, LeaseInvalidates
    <2>2. CASE \/ \E t \in Targets : AddTarget(a, t)
               \/ RevokeReturns(a) \/ SuspendReturns(a)
      BY <2>2, LeaseStays DEF AddTarget, RevokeReturns, SuspendReturns, poolVars, GatesStay
    <2>3. CASE releaseTargetFlush(a)
      <3>1. UNCHANGED <<row, user>>
        BY <2>3 DEF releaseTargetFlush
      <3> QED BY <2>3, <3>1, ReleasedDoes, LeaseStays DEF GatesStay
    <2>4. CASE Fail(a)
      <3>1. UNCHANGED <<row, user>> /\ (Activated(a) \/ UNCHANGED gate)
        BY <2>4 DEF Fail, ActivatedAfterFailure
      <3> QED BY <3>1, ActivatedDoes, LeaseStays DEF GatesStay
    <2>5. CASE Commit(a)
      BY <2>5, LeaseCommits
    <2> QED BY <1>1, <2>1, <2>2, <2>3, <2>4, <2>5 DEF AdminStep
  <1>2. CASE (\E x \in Users \cup Admins : closeConnections(x)) \/ Resume \/ UNCHANGED vars
    <2>1. UNCHANGED <<row, user, gate>>
      BY <1>2 DEF closeConnections, Resume, vars
    <2> QED BY <2>1, LeaseStays DEF GatesStay
  <1> QED BY <1>1, <1>2, UserLease DEF Next

-----------------------------------------------------------------------------
(* Connections *)

\* An operation that neither dialed before nor dials after its step.
Settles(v) ==
    /\ user[v].pc # "dialing" /\ user'[v].pc # "dialing"
    /\ user'[v].pc \in Holding => user'[v].entry \in Entries
    /\ user'[v].pc = "waiting" =>
          entry[user'[v].entry].ready \/ \E d \in Users : Dials(d, user'[v].entry)

HoldInv == HoldersHold /\ OneDials /\ DialedIsNew /\ DialingIsDialed /\ WaitersAreWoken

LEMMA HoldKept ==
  ASSUME TypeOK, HoldInv, \A v \in Users : user'[v] = user[v] \/ Settles(v),
         \A e \in Entries : /\ entry'[e].dialing => entry[e].dialing
                            /\ entry[e].ready => entry'[e].ready
                            /\ entry[e].connection = "nil" => entry'[e].connection = "nil"
  PROVE  HoldInv'
  <1>1. ASSUME NEW d \in Users, NEW e PROVE Dials(d, e)' <=> Dials(d, e)
    BY DEF Dials, Settles
  <1>2. HoldersHold'
    BY DEF HoldInv, HoldersHold, Settles
  <1>3. OneDials' /\ DialedIsNew' /\ DialingIsDialed'
    BY <1>1 DEF HoldInv, OneDials, DialedIsNew, DialingIsDialed
  <1>4. WaitersAreWoken'
    <2>1. ASSUME NEW v \in Users, user'[v].pc = "waiting", NEW e, e = user'[v].entry
          PROVE  entry'[e].ready \/ \E d \in Users : Dials(d, e)'
      <3>1. e \in Entries
        BY <1>2, <2>1 DEF HoldersHold, Holding
      <3>2. entry[e].ready \/ \E d \in Users : Dials(d, e)
        BY <2>1 DEF HoldInv, WaitersAreWoken, Settles
      <3> QED BY <1>1, <3>1, <3>2
    <2> QED BY <2>1 DEF WaitersAreWoken, Dials
  <1> QED BY <1>2, <1>3, <1>4 DEF HoldInv

\* The dialer of e ends, and whoever waits for e is woken.
LEMMA DialEnds ==
  ASSUME TypeOK, HoldInv, NEW u \in Users, NEW e \in Entries, Dials(u, e), OthersStay(u),
         user'[u].pc # "dialing", user'[u].pc # "waiting",
         user'[u].pc \in Holding => user'[u].entry \in Entries,
         \A f \in Entries : f # e => entry'[f] = entry[f], ~entry'[e].dialing, entry'[e].ready
  PROVE  HoldInv'
  <1>1. ASSUME NEW d \in Users, NEW f \in Entries PROVE Dials(d, f)' <=> Dials(d, f) /\ f # e
    BY DEF Dials, OthersStay, HoldInv, OneDials
  <1>2. HoldersHold'
    BY DEF HoldInv, HoldersHold, OthersStay
  <1>3. OneDials' /\ DialedIsNew' /\ DialingIsDialed'
    BY <1>1 DEF HoldInv, OneDials, DialedIsNew, DialingIsDialed
  <1>4. WaitersAreWoken'
    <2>1. ASSUME NEW v \in Users, user'[v].pc = "waiting", NEW f, f = user'[v].entry
          PROVE  entry'[f].ready \/ \E d \in Users : Dials(d, f)'
      <3>1. f \in Entries /\ user'[v] = user[v]
        BY <1>2, <2>1 DEF HoldersHold, Holding, OthersStay
      <3>2. entry[f].ready \/ \E d \in Users : Dials(d, f)
        BY <2>1, <3>1 DEF HoldInv, WaitersAreWoken
      <3> QED BY <1>1, <3>1, <3>2
    <2> QED BY <2>1 DEF WaitersAreWoken, Dials
  <1> QED BY <1>2, <1>3, <1>4 DEF HoldInv

\* Connections are taken out of the map by x, who is about to close them.
LEMMA Taken ==
  ASSUME TypeOK, PendingWasDialed, NoLeakedConnection, NEW x \in Users \cup Admins, NEW E \in SUBSET Entries,
         entry' = Invalidated(E), entries' = Without(E),
         pending' = [pending EXCEPT ![x] = ToClose(E)], pending[x] = {}
  PROVE  PendingWasDialed' /\ NoLeakedConnection'
  <1>0. /\ entry \in [Entries -> Entry] /\ entries \in [Key -> Entries \cup {NoEntry}]
        /\ pending \in [Users \cup Admins -> SUBSET Entries]
    BY DEF TypeOK
  <1>1. /\ \A e \in Entries : /\ entry'[e].connection = entry[e].connection
                              /\ e \notin E => entry'[e] = entry[e]
        /\ \A k \in Key : entries[k] \notin E => entries'[k] = entries[k]
    BY <1>0, InvalidatedDoes, WithoutDoes
  <1>2. pending'[x] = ToClose(E) /\ \A y \in Users \cup Admins : y # x => pending'[y] = pending[y]
    BY <1>0
  <1>3. PendingWasDialed'
    <2>1. ASSUME NEW e \in ToClose(E) PROVE e \in Entries /\ entry[e].connection # "nil"
      BY DEF ToClose
    <2> QED BY <1>0, <1>1, <1>2, <2>1 DEF PendingWasDialed
  <1>4. NoLeakedConnection'
    <2>1. ASSUME NEW e \in Entries, entry'[e].connection = "open"
          PROVE  \/ ~entry'[e].invalidated /\ \E k \in Key : entries'[k] = e
                 \/ \E y \in Users \cup Admins : e \in pending'[y]
      <3>1. CASE ~entry[e].invalidated /\ \E k \in Key : entries[k] = e
        <4>1. CASE e \in E
          BY <1>1, <1>2, <2>1, <3>1, <4>1 DEF ToClose
        <4>2. CASE e \notin E
          BY <1>1, <3>1, <4>2
        <4> QED BY <4>1, <4>2
      <3>2. CASE \E y \in Users \cup Admins : e \in pending[y]
        BY <1>2, <3>2
      <3> QED BY <1>1, <2>1, <3>1, <3>2 DEF NoLeakedConnection
    <2> QED BY <2>1 DEF NoLeakedConnection
  <1> QED BY <1>3, <1>4

LEMMA EntriesAre ==
  ASSUME TypeOK, NEW T
  PROVE  EntriesOf(T) \in SUBSET Entries
  BY DEF EntriesOf, TypeOK

\* A user's step leaves the pc of the administrators alone.
LEMMA UserAdmins ==
  ASSUME TypeOK, NEW u \in Users, UserStep(u)
  PROVE  /\ admin' \in [Admins -> Admin] /\ \A a \in Admins : admin'[a].pc = admin[a].pc
         /\ UNCHANGED <<row, suspended, closed, lifecycleMu>>
  <1>0. admin \in [Admins -> Admin]
    BY DEF TypeOK
  <1>1. CASE \/ \E t \in Targets, s \in Specs : Lookup(u, t, s)
             \/ AcquireTarget(u) \/ executionEndpoint(u) \/ FindEntry(u) \/ EntryReady(u)
             \/ TakeConnection(u) \/ NotDispatched(u) \/ Dropped(u) \/ discard(u)
             \/ BeginDial(u) \/ beginDispatch(u)
    <2>1. UNCHANGED <<admin, row, suspended, closed, lifecycleMu>>
      BY <1>1 DEF Lookup, AcquireTarget, executionEndpoint, FindEntry, EntryReady, TakeConnection,
                  NotDispatched, Dropped, discard, poolVars, BeginDial, beginDispatch
    <2> QED BY <1>0, <2>1
  <1>2. CASE DialSucceeds(u) \/ DialFails(u) \/ finishInFlight(u)
    <2>1. Woken(user[u].target) /\ UNCHANGED <<row, suspended, closed, lifecycleMu>>
      BY <1>2 DEF DialSucceeds, DialFails, finishInFlight, finishInFlightLocked
    <2> QED BY <1>0, <2>1, WokenDoes
  <1> QED BY <1>1, <1>2 DEF UserStep

\* The steps that leave the entries alone.
LEMMA EntryQuiet ==
  ASSUME TypeOK, EntryInv, NEW u \in Users,
         \/ \E t \in Targets, s \in Specs : Lookup(u, t, s)
         \/ AcquireTarget(u) \/ executionEndpoint(u) \/ FindEntry(u) \/ EntryReady(u)
         \/ TakeConnection(u) \/ beginDispatch(u) \/ NotDispatched(u) \/ finishInFlight(u) \/ Dropped(u)
  PROVE  EntryInv'
  <1>0. UserStep(u)
    BY DEF UserStep
  <1>1. UNCHANGED <<entries, entry, pending>>
    BY DEF Lookup, AcquireTarget, executionEndpoint, FindEntry, EntryReady, TakeConnection,
           beginDispatch, NotDispatched, finishInFlight, Dropped, poolVars
  <1>2. OthersStay(u)
    BY LeaseMoves, ConnectMoves DEF Goes, Gone
  <1>3. Settles(u)
    <2>1. CASE \/ \E t \in Targets, s \in Specs : Lookup(u, t, s)
               \/ AcquireTarget(u) \/ executionEndpoint(u) \/ EntryReady(u)
      BY <2>1, LeaseMoves DEF Goes, Settles, Holding
    <2>2. CASE TakeConnection(u) \/ beginDispatch(u)
      BY <2>2, LeaseMoves DEF Goes, Settles, Holding, EntryInv, HoldersHold
    <2>3. CASE NotDispatched(u) \/ finishInFlight(u) \/ Dropped(u)
      BY <2>3, LeaseMoves, Defaults DEF Gone, Settles, Holding
    <2>4. CASE FindEntry(u)
      <3> DEFINE e == entries[KeyOf(u)]
      <3>1. /\ user[u].pc = "acquiring" /\ e \in Entries
            /\ \/ entry[e].dialing /\ Goes(u, "waiting", e)
               \/ Goes(u, "found", e)
        BY <2>4, ConnectMoves
      <3>2. entry[e].dialing => \E d \in Users : Dials(d, e)
        BY <3>1 DEF EntryInv, DialingIsDialed
      <3> HIDE DEF e
      <3> QED BY <3>1, <3>2 DEF Goes, Settles
    <2> QED BY <2>1, <2>2, <2>3, <2>4
  <1>4. HoldInv'
    BY <1>1, <1>2, <1>3, HoldKept DEF EntryInv, HoldInv, OthersStay
  <1>5. pending[u] = {}
    BY LeaseMoves, ConnectMoves DEF EntryInv, PendingIsOwned, finishInFlight, Dropped
  <1>6. PendingIsOwned'
    BY <1>0, <1>1, <1>2, <1>5, UserAdmins DEF EntryInv, PendingIsOwned, OthersStay
  <1>7. PendingWasDialed' /\ NoLeakedConnection'
    BY <1>1 DEF EntryInv, PendingWasDialed, NoLeakedConnection
  <1> QED BY <1>4, <1>6, <1>7 DEF EntryInv, HoldInv

LEMMA EntryDiscards ==
  ASSUME TypeOK, EntryInv, NEW u \in Users, discard(u)
  PROVE  EntryInv'
  <1>0. /\ UserStep(u) /\ user[u].pc = "executing" /\ Goes(u, "failed", user[u].entry)
        /\ user[u].entry \in Entries /\ pending \in [Users \cup Admins -> SUBSET Entries]
        /\ entry \in [Entries -> Entry]
    BY LeaseMoves DEF UserStep, EntryInv, HoldersHold, Holding, TypeOK
  <1>1. /\ entry' = Invalidated({user[u].entry}) /\ entries' = Without({user[u].entry})
        /\ pending' = [pending EXCEPT ![u] = ToClose({user[u].entry})]
    BY DEF discard
  <1>2. pending[u] = {}
    BY <1>0 DEF EntryInv, PendingIsOwned
  <1>3. PendingWasDialed' /\ NoLeakedConnection'
    BY <1>0, <1>1, <1>2, Taken DEF EntryInv
  <1>4. Settles(u)
    BY <1>0 DEF Settles, Goes
  <1>5. HoldInv'
    BY <1>0, <1>1, <1>4, InvalidatedDoes, HoldKept DEF EntryInv, HoldInv, Goes, OthersStay
  <1>6. PendingIsOwned'
    <2>1. \A x \in Users \cup Admins : x # u => pending'[x] = pending[x]
      BY <1>0, <1>1
    <2>2. u \notin Admins
      BY ActorsAssumption
    <2> QED BY <1>0, <2>1, <2>2, UserAdmins DEF EntryInv, PendingIsOwned, Goes, OthersStay
  <1> QED BY <1>3, <1>5, <1>6 DEF EntryInv, HoldInv

\* A fresh entry is dialed, and those of other keys are taken out.
LEMMA EntryBegins ==
  ASSUME TypeOK, EntryInv, NEW u \in Users, BeginDial(u)
  PROVE  EntryInv'
  <1> DEFINE others == EntriesOf({user[u].target})
  <1>0. /\ UserStep(u) /\ user[u].pc = "acquiring" /\ entries[KeyOf(u)] = NoEntry
        /\ entry \in [Entries -> Entry] /\ entries \in [Key -> Entries \cup {NoEntry}]
        /\ pending \in [Users \cup Admins -> SUBSET Entries]
        /\ others \in SUBSET Entries /\ KeyOf(u) \in Key
    BY EntriesAre DEF UserStep, BeginDial, TypeOK, KeyOf, Key, User
  <1>1. PICK e \in Entries :
            /\ Fresh(e)
            /\ entry' = [Invalidated(others) EXCEPT ![e] = NewEntry]
            /\ entries' = [Without(others) EXCEPT ![KeyOf(u)] = e]
            /\ pending' = [pending EXCEPT ![u] = ToClose(others)]
            /\ Become(u, [user[u] EXCEPT !.pc = "dialing", !.entry = e])
    BY DEF BeginDial
  <1>2. Goes(u, "dialing", e)
    BY <1>1, BecomeMoves DEF UserState
  <1>3. e \notin others
    BY <1>1 DEF Fresh, EntriesOf
  <1>4. pending[u] = {}
    BY <1>0 DEF EntryInv, PendingIsOwned
  <1> HIDE DEF others
  <1>5. /\ entry'[e] = NewEntry
        /\ \A f \in Entries : f # e => /\ entry'[f].connection = entry[f].connection
                                       /\ entry'[f].dialing = entry[f].dialing
                                       /\ entry[f].ready => entry'[f].ready
                                       /\ f \notin others => entry'[f] = entry[f]
    <2>1. Invalidated(others) \in [Entries -> Entry]
      BY <1>0, InvalidatedDoes
    <2>2. entry'[e] = NewEntry /\ \A f \in Entries : f # e => entry'[f] = Invalidated(others)[f]
      BY <1>1, <2>1
    <2> QED BY <1>0, <2>2, InvalidatedDoes
  <1>6. /\ entries'[KeyOf(u)] = e
        /\ \A k \in Key : k # KeyOf(u) /\ entries[k] \notin others => entries'[k] = entries[k]
    <2>1. Without(others) \in [Key -> Entries \cup {NoEntry}]
      BY <1>0, WithoutDoes
    <2>2. entries'[KeyOf(u)] = e /\ \A k \in Key : k # KeyOf(u) => entries'[k] = Without(others)[k]
      BY <1>0, <1>1, <2>1
    <2> QED BY <1>0, <2>2, WithoutDoes
  <1>7. pending'[u] = ToClose(others) /\ \A x \in Users \cup Admins : x # u => pending'[x] = pending[x]
    BY <1>0, <1>1
  <1>8. ASSUME NEW d \in Users, NEW f
        PROVE  /\ Dials(d, f)' <=> (d = u /\ f = e) \/ Dials(d, f)
               /\ Dials(d, f) => f # e
    BY <1>0, <1>1, <1>2 DEF Dials, Goes, OthersStay, Fresh
  <1>9. HoldersHold'
    BY <1>2 DEF EntryInv, HoldersHold, Goes, OthersStay
  <1>10. OneDials' /\ DialedIsNew' /\ DialingIsDialed'
    <2>1. OneDials'
      BY <1>8 DEF EntryInv, OneDials
    <2>2. DialedIsNew'
      BY <1>5, <1>8, Defaults DEF EntryInv, DialedIsNew
    <2>3. DialingIsDialed'
      BY <1>5, <1>8 DEF EntryInv, DialingIsDialed
    <2> QED BY <2>1, <2>2, <2>3
  <1>11. WaitersAreWoken'
    <2>1. ASSUME NEW v \in Users, user'[v].pc = "waiting", NEW f, f = user'[v].entry
          PROVE  entry'[f].ready \/ \E d \in Users : Dials(d, f)'
      <3>1. user'[v] = user[v]
        BY <1>2, <2>1 DEF Goes, OthersStay
      <3>2. f \in Entries /\ f # e
        BY <1>1, <1>9, <2>1, <3>1 DEF HoldersHold, Holding, Fresh
      <3>3. entry[f].ready \/ \E d \in Users : Dials(d, f)
        BY <2>1, <3>1 DEF EntryInv, WaitersAreWoken
      <3> QED BY <1>5, <1>8, <3>2, <3>3
    <2> QED BY <2>1 DEF WaitersAreWoken, Dials
  <1>12. PendingWasDialed'
    <2>1. ASSUME NEW x \in Users \cup Admins, NEW f \in pending'[x]
          PROVE  f \in Entries /\ f # e /\ entry[f].connection # "nil"
      <3>1. CASE x = u
        BY <1>0, <1>3, <1>7, <2>1, <3>1 DEF ToClose
      <3>2. CASE x # u
        BY <1>0, <1>1, <1>7, <2>1, <3>2 DEF EntryInv, PendingWasDialed, Fresh
      <3> QED BY <3>1, <3>2
    <2> QED BY <1>5, <2>1 DEF PendingWasDialed
  <1>13. PendingIsOwned'
    <2>1. u \notin Admins
      BY ActorsAssumption
    <2> QED BY <1>0, <1>2, <1>7, <2>1, UserAdmins DEF EntryInv, PendingIsOwned, Goes, OthersStay
  <1>14. NoLeakedConnection'
    <2>1. ASSUME NEW f \in Entries, entry'[f].connection = "open"
          PROVE  \/ ~entry'[f].invalidated /\ \E k \in Key : entries'[k] = f
                 \/ \E y \in Users \cup Admins : f \in pending'[y]
      <3>0. f # e /\ entry[f].connection = "open"
        BY <1>5, <2>1, Defaults
      <3>1. CASE ~entry[f].invalidated /\ \E k \in Key : entries[k] = f
        <4>1. CASE f \in others
          BY <1>7, <3>0, <3>1, <4>1 DEF ToClose
        <4>2. CASE f \notin others
          <5>1. PICK k \in Key : entries[k] = f
            BY <3>1
          <5>2. k # KeyOf(u)
            BY <1>0, <5>1, NamesAssumption
          <5> QED BY <1>5, <1>6, <3>0, <3>1, <4>2, <5>1, <5>2
        <4> QED BY <4>1, <4>2
      <3>2. CASE \E y \in Users \cup Admins : f \in pending[y]
        BY <1>4, <1>7, <3>2
      <3> QED BY <3>0, <3>1, <3>2 DEF EntryInv, NoLeakedConnection
    <2> QED BY <2>1 DEF NoLeakedConnection
  <1> QED BY <1>9, <1>10, <1>11, <1>12, <1>13, <1>14 DEF EntryInv

\* The entry of a dial that succeeded, and as it is given up.
Up(e) == [entry EXCEPT ![e].dialing = FALSE, ![e].ready = TRUE, ![e].connection = "open"]
GivenUp(e) == [Up(e) EXCEPT ![e].invalidated = TRUE]

LEMMA UpDoes ==
  ASSUME entry \in [Entries -> Entry], NEW e \in Entries
  PROVE  /\ Up(e) \in [Entries -> Entry] /\ GivenUp(e) \in [Entries -> Entry]
         /\ \A f \in Entries : f # e => Up(e)[f] = entry[f] /\ GivenUp(e)[f] = entry[f]
         /\ ~Up(e)[e].dialing /\ Up(e)[e].ready /\ Up(e)[e].connection = "open"
         /\ Up(e)[e].invalidated <=> entry[e].invalidated
         /\ ~GivenUp(e)[e].dialing /\ GivenUp(e)[e].ready /\ GivenUp(e)[e].connection = "open"
  <1>1. ASSUME NEW x \in Entry, NEW y,
               y = [x EXCEPT !.dialing = FALSE, !.ready = TRUE, !.connection = "open"]
        PROVE  /\ y \in Entry /\ ~y.dialing /\ y.ready /\ y.connection = "open"
               /\ y.invalidated <=> x.invalidated
    BY <1>1 DEF Entry
  <1>2. ASSUME NEW x \in Entry, NEW y, y = [x EXCEPT !.invalidated = TRUE]
        PROVE  /\ y \in Entry /\ y.connection = x.connection
               /\ (y.dialing <=> x.dialing) /\ (y.ready <=> x.ready)
    BY <1>2 DEF Entry
  <1>3. /\ Up(e)[e] = [entry[e] EXCEPT !.dialing = FALSE, !.ready = TRUE, !.connection = "open"]
        /\ \A f \in Entries : f # e => Up(e)[f] = entry[f]
    BY DEF Up
  <1>4. Up(e) = [f \in Entries |-> Up(e)[f]]
    BY DEF Up
  <1>5. Up(e)[e] \in Entry
    BY <1>1, <1>3
  <1>6. Up(e) \in [Entries -> Entry]
    BY <1>3, <1>4, <1>5
  <1>7. /\ GivenUp(e)[e] = [Up(e)[e] EXCEPT !.invalidated = TRUE]
        /\ \A f \in Entries : f # e => GivenUp(e)[f] = Up(e)[f]
    BY <1>6 DEF GivenUp
  <1>8. GivenUp(e) = [f \in Entries |-> GivenUp(e)[f]]
    BY <1>6 DEF GivenUp
  <1>9. GivenUp(e)[e] \in Entry
    BY <1>2, <1>5, <1>7
  <1>10. GivenUp(e) \in [Entries -> Entry]
    BY <1>6, <1>7, <1>8, <1>9
  <1>11. /\ ~Up(e)[e].dialing /\ Up(e)[e].ready /\ Up(e)[e].connection = "open"
         /\ Up(e)[e].invalidated <=> entry[e].invalidated
    BY <1>1, <1>3
  <1>12. ~GivenUp(e)[e].dialing /\ GivenUp(e)[e].ready /\ GivenUp(e)[e].connection = "open"
    BY <1>2, <1>5, <1>7, <1>11
  <1>13. \A f \in Entries : f # e => Up(e)[f] = entry[f] /\ GivenUp(e)[f] = entry[f]
    BY <1>3, <1>7
  <1> QED BY <1>6, <1>10, <1>11, <1>12, <1>13

\* The connection that a dialer made is in the map or about to be closed.
LEMMA EntryDialed ==
  ASSUME TypeOK, EntryInv, NEW u \in Users, DialSucceeds(u)
  PROVE  EntryInv'
  <1> DEFINE e == user[u].entry
  <1>0. /\ UserStep(u) /\ user[u].pc = "dialing" /\ pending[u] = {} /\ e \in Entries
        /\ entry \in [Entries -> Entry] /\ entries \in [Key -> Entries \cup {NoEntry}]
        /\ pending \in [Users \cup Admins -> SUBSET Entries] /\ KeyOf(u) \in Key
    BY DEF UserStep, DialSucceeds, TypeOK, KeyOf, Key, User, EntryInv, HoldersHold, Holding
  <1>1. Dials(u, e) /\ HoldInv
    BY <1>0 DEF Dials, EntryInv, HoldInv
  <1>2. u \notin Admins
    BY ActorsAssumption
  <1>3. CASE /\ Goes(u, "dropped", e) /\ entry' = GivenUp(e)
             /\ entries' = Without({e}) /\ pending' = [pending EXCEPT ![u] = {e}]
    <2>1. HoldInv'
      BY <1>0, <1>1, <1>3, UpDoes, DialEnds DEF Goes
    <2>2. pending'[u] = {e} /\ \A x \in Users \cup Admins : x # u => pending'[x] = pending[x]
      BY <1>0, <1>3
    <2>3. \A f \in Entries : f # e => entry'[f] = entry[f]
      BY <1>0, <1>3, UpDoes
    <2>4. entry'[e].connection = "open"
      BY <1>0, <1>3, UpDoes
    <2>5. PendingWasDialed'
      BY <1>0, <2>2, <2>3, <2>4 DEF EntryInv, PendingWasDialed
    <2>6. PendingIsOwned'
      BY <1>0, <1>2, <1>3, <2>2, UserAdmins DEF EntryInv, PendingIsOwned, Goes, OthersStay
    <2>7. \A k \in Key : entries[k] # e => entries'[k] = entries[k]
      BY <1>0, <1>3, WithoutDoes
    <2>8. NoLeakedConnection'
      BY <1>0, <2>2, <2>3, <2>7 DEF EntryInv, NoLeakedConnection
    <2> QED BY <2>1, <2>5, <2>6, <2>8 DEF EntryInv, HoldInv
  <1>4. CASE ~Superseded(u) /\ Goes(u, "acquiring", NoEntry) /\ entry' = Up(e) /\ UNCHANGED <<entries, pending>>
    <2>1. HoldInv'
      BY <1>0, <1>1, <1>4, UpDoes, DialEnds DEF Goes, Holding
    <2>2. \A f \in Entries : f # e => entry'[f] = entry[f]
      BY <1>0, <1>4, UpDoes
    <2>3. entry'[e].connection = "open" /\ (entry'[e].invalidated <=> entry[e].invalidated)
      BY <1>0, <1>4, UpDoes
    <2>4. PendingWasDialed'
      BY <1>0, <1>4, <2>2, <2>3 DEF EntryInv, PendingWasDialed
    <2>5. PendingIsOwned'
      BY <1>0, <1>4, UserAdmins DEF EntryInv, PendingIsOwned, Goes, OthersStay
    <2>6. ~entry[e].invalidated /\ entries[KeyOf(u)] = e
      BY <1>4 DEF Superseded
    <2>7. NoLeakedConnection'
      BY <1>0, <1>4, <2>2, <2>3, <2>6 DEF EntryInv, NoLeakedConnection
    <2> QED BY <2>1, <2>4, <2>5, <2>7 DEF EntryInv, HoldInv
  <1> QED BY <1>3, <1>4, BecomeMoves DEF DialSucceeds, UserState, Up, GivenUp

LEMMA EntryDialFails ==
  ASSUME TypeOK, EntryInv, NEW u \in Users, DialFails(u)
  PROVE  EntryInv'
  <1> DEFINE e == user[u].entry
  <1>0. /\ UserStep(u) /\ user[u].pc = "dialing" /\ pending[u] = {} /\ e \in Entries
        /\ entry \in [Entries -> Entry] /\ entries \in [Key -> Entries \cup {NoEntry}] /\ Gone(u)
    BY LeaseMoves DEF UserStep, DialFails, TypeOK, EntryInv, HoldersHold, Holding
  <1>1. Dials(u, e) /\ HoldInv /\ entry[e].connection = "nil"
    BY <1>0 DEF Dials, EntryInv, HoldInv, DialedIsNew
  <1>2. /\ entry' = [Invalidated({e}) EXCEPT ![e].dialing = FALSE] /\ entries' = Without({e})
        /\ UNCHANGED pending
    BY DEF DialFails
  <1>3. Invalidated({e}) \in [Entries -> Entry]
    BY <1>0, InvalidatedDoes
  <1>4. /\ entry'[e] = [Invalidated({e})[e] EXCEPT !.dialing = FALSE]
        /\ \A f \in Entries : f # e => entry'[f] = Invalidated({e})[f]
    BY <1>0, <1>2, <1>3
  <1>5. ASSUME NEW x \in Entry, NEW y, y = [x EXCEPT !.dialing = FALSE]
        PROVE  ~y.dialing /\ y.connection = x.connection /\ (y.ready <=> x.ready)
    BY <1>5 DEF Entry
  <1>6. ~entry'[e].dialing /\ entry'[e].ready /\ entry'[e].connection = "nil"
    <2>1. /\ Invalidated({e})[e] \in Entry /\ Invalidated({e})[e].ready
          /\ Invalidated({e})[e].connection = "nil"
      BY <1>0, <1>1, <1>3, InvalidatedDoes
    <2> QED BY <1>4, <1>5, <2>1
  <1>7. \A f \in Entries : f # e => entry'[f] = entry[f]
    BY <1>0, <1>4, InvalidatedDoes
  <1>8. user'[u].pc = "idle" /\ OthersStay(u)
    BY <1>0, Defaults DEF Gone
  <1>9. HoldInv'
    BY <1>0, <1>1, <1>6, <1>7, <1>8, DialEnds DEF Holding
  <1>10. PendingWasDialed'
    <2>1. \A x \in Users \cup Admins : \A f \in pending[x] : f \in Entries /\ f # e
      BY <1>1 DEF TypeOK, EntryInv, PendingWasDialed
    <2> QED BY <1>2, <1>7, <2>1 DEF EntryInv, PendingWasDialed
  <1>11. PendingIsOwned'
    BY <1>0, <1>2, <1>8, UserAdmins DEF EntryInv, PendingIsOwned, OthersStay
  <1>12. \A k \in Key : entries[k] # e => entries'[k] = entries[k]
    BY <1>0, <1>2, WithoutDoes
  <1>13. NoLeakedConnection'
    <2>1. ASSUME NEW f \in Entries, entry'[f].connection = "open"
          PROVE  \/ ~entry'[f].invalidated /\ \E k \in Key : entries'[k] = f
                 \/ \E y \in Users \cup Admins : f \in pending'[y]
      <3>1. f # e /\ entry'[f] = entry[f]
        BY <1>6, <1>7, <2>1
      <3>2. \/ ~entry[f].invalidated /\ \E k \in Key : entries[k] = f
            \/ \E y \in Users \cup Admins : f \in pending[y]
        BY <2>1, <3>1 DEF EntryInv, NoLeakedConnection
      <3> QED BY <1>2, <1>12, <3>1, <3>2
    <2> QED BY <2>1 DEF NoLeakedConnection
  <1> QED BY <1>9, <1>10, <1>11, <1>13 DEF EntryInv, HoldInv

LEMMA EntryInvalidates ==
  ASSUME TypeOK, EntryInv, NEW a \in Admins, NEW op, NEW t \in Targets,
         NEW T \in SUBSET Targets, NEW block \in BOOLEAN, NEW n \in Nat,
         Flushes(a, op, t, T, block, n)
  PROVE  EntryInv'
  <1>0. /\ entry \in [Entries -> Entry] /\ pending \in [Users \cup Admins -> SUBSET Entries]
        /\ admin \in [Admins -> Admin]
    BY DEF TypeOK
  <1>1. /\ entry' = Invalidated(EntriesOf(T)) /\ entries' = Without(EntriesOf(T))
        /\ pending' = [pending EXCEPT ![a] = ToClose(EntriesOf(T))] /\ user' = user
    BY DEF Flushes, Invalidate
  <1>2. admin[a].pc = "idle" /\ pending[a] = {}
    BY DEF Flushes, EntryInv, PendingIsOwned
  <1>3. admin'[a].pc = "flushing" /\ \A b \in Admins \ {a} : admin'[b] = admin[b]
    <2> DEFINE w == {x \in T : gate[x].inFlight > 0}
    <2>1. admin' = [admin EXCEPT ![a] = [pc |-> "flushing", op |-> op, target |-> t, wait |-> w]]
      BY DEF Flushes, Invalidate
    <2> HIDE DEF w
    <2> QED BY <1>0, <2>1
  <1>4. PendingWasDialed' /\ NoLeakedConnection'
    BY <1>1, <1>2, EntriesAre, Taken DEF EntryInv
  <1>5. HoldInv'
    BY <1>0, <1>1, InvalidatedDoes, HoldKept DEF EntryInv, HoldInv
  <1>6. PendingIsOwned'
    <2>1. \A x \in Users \cup Admins : x # a => pending'[x] = pending[x]
      BY <1>0, <1>1
    <2>2. a \notin Users
      BY ActorsAssumption
    <2> QED BY <1>1, <1>3, <2>1, <2>2 DEF EntryInv, PendingIsOwned
  <1> QED BY <1>4, <1>5, <1>6 DEF EntryInv, HoldInv

\* The other steps of an administrator, who has nothing left to close.
LEMMA EntryReturns ==
  ASSUME TypeOK, EntryInv, NEW a \in Admins,
         \/ \E t \in Targets : AddTarget(a, t)
         \/ RevokeReturns(a) \/ releaseTargetFlush(a) \/ SuspendReturns(a) \/ Commit(a) \/ Fail(a)
  PROVE  EntryInv'
  <1>1. UNCHANGED <<entry, entries, user, pending>>
    BY DEF AddTarget, RevokeReturns, releaseTargetFlush, SuspendReturns, Commit, Fail, poolVars
  <1>2. pending[a] = {}
    <2>1. admin[a].pc # "flushing" \/ FlushDone(a)
      BY DEF AddTarget, RevokeReturns, releaseTargetFlush, SuspendReturns, Commit, Fail
    <2> QED BY <2>1 DEF FlushDone, EntryInv, PendingIsOwned
  <1>3. \A b \in Admins \ {a} : admin'[b].pc = admin[b].pc
    <2>1. \E x : admin' = [admin EXCEPT ![a] = x]
      BY DEF AddTarget, RevokeReturns, releaseTargetFlush, SuspendReturns, Commit, Fail
    <2> QED BY <2>1 DEF TypeOK
  <1>4. HoldInv'
    BY <1>1, HoldKept DEF EntryInv, HoldInv
  <1>5. PendingWasDialed' /\ PendingIsOwned' /\ NoLeakedConnection'
    BY <1>1, <1>2, <1>3 DEF EntryInv, PendingWasDialed, PendingIsOwned, NoLeakedConnection
  <1> QED BY <1>4, <1>5 DEF EntryInv, HoldInv

LEMMA EntryCloses ==
  ASSUME TypeOK, EntryInv, NEW x \in Users \cup Admins, closeConnections(x)
  PROVE  EntryInv'
  <1>0. entry \in [Entries -> Entry] /\ pending \in [Users \cup Admins -> SUBSET Entries]
    BY DEF TypeOK
  <1>1. UNCHANGED <<entries, user, admin>>
    BY DEF closeConnections
  <1>2. pending'[x] = {} /\ \A y \in Users \cup Admins : y # x => pending'[y] = pending[y]
    BY <1>0 DEF closeConnections
  <1>3. ASSUME NEW r \in Entry, NEW y, y = [r EXCEPT !.connection = "closed"]
        PROVE  /\ y.connection = "closed" /\ (y.dialing <=> r.dialing) /\ (y.ready <=> r.ready)
    BY <1>3 DEF Entry
  <1>4. ASSUME NEW e \in Entries
        PROVE  /\ e \notin pending[x] => entry'[e] = entry[e]
               /\ e \in pending[x] => entry'[e].connection = "closed"
               /\ (entry'[e].dialing <=> entry[e].dialing) /\ (entry'[e].ready <=> entry[e].ready)
    <2>1. entry'[e] = IF e \in pending[x] THEN [entry[e] EXCEPT !.connection = "closed"] ELSE entry[e]
      BY DEF closeConnections
    <2> QED BY <1>0, <1>3, <2>1
  <1>5. \A e \in pending[x] : entry[e].connection # "nil"
    BY DEF EntryInv, PendingWasDialed
  <1>6. HoldInv'
    BY <1>1, <1>4, <1>5, HoldKept DEF EntryInv, HoldInv
  <1>7. PendingWasDialed'
    BY <1>0, <1>2, <1>4 DEF EntryInv, PendingWasDialed
  <1>8. PendingIsOwned'
    BY <1>1, <1>2 DEF EntryInv, PendingIsOwned
  <1>9. NoLeakedConnection'
    <2>1. \A e \in Entries : entry'[e].connection = "open" => e \notin pending[x] /\ entry'[e] = entry[e]
      BY <1>4
    <2> QED BY <1>1, <1>2, <2>1 DEF EntryInv, NoLeakedConnection
  <1> QED BY <1>6, <1>7, <1>8, <1>9 DEF EntryInv, HoldInv

LEMMA NextEntry ==
  ASSUME TypeOK, EntryInv, [Next]_vars
  PROVE  EntryInv'
  <1>1. ASSUME NEW u \in Users, UserStep(u) PROVE EntryInv'
    BY <1>1, EntryQuiet, EntryBegins, EntryDialed, EntryDialFails, EntryDiscards DEF UserStep
  <1>2. ASSUME NEW a \in Admins, AdminStep(a) PROVE EntryInv'
    BY <1>2, FlushSteps, EntryInvalidates, EntryReturns DEF AdminStep
  <1>3. CASE Resume \/ UNCHANGED vars
    <2>1. UNCHANGED <<entry, entries, user, pending, admin>>
      BY <1>3 DEF Resume, vars
    <2>2. HoldInv'
      BY <2>1, HoldKept DEF EntryInv, HoldInv
    <2> QED BY <2>1, <2>2 DEF EntryInv, HoldInv, PendingWasDialed, PendingIsOwned, NoLeakedConnection
  <1> QED BY <1>1, <1>2, <1>3, EntryCloses DEF Next

-----------------------------------------------------------------------------
(* Types *)

EntriesType ==
    /\ entries \in [Key -> Entries \cup {NoEntry}] /\ entry \in [Entries -> Entry]
    /\ pending \in [Users \cup Admins -> SUBSET Entries]

LEMMA UserType ==
  ASSUME TypeOK, EntryInv, NEW u \in Users, UserStep(u)
  PROVE  TypeOK'
  <1>0. /\ entries \in [Key -> Entries \cup {NoEntry}] /\ entry \in [Entries -> Entry]
        /\ pending \in [Users \cup Admins -> SUBSET Entries] /\ KeyOf(u) \in Key
    BY DEF TypeOK, KeyOf, Key, User
  <1>1. user' \in [Users -> User]
    BY LeaseMoves, ConnectMoves DEF UserStep, Goes, Gone, OthersStay
  <1>2. gate' \in [Targets -> Gate] /\ admin' \in [Admins -> Admin]
    BY UserGates, UserAdmins
  <1>3. EntriesType'
    <2>1. CASE \/ \E t \in Targets, s \in Specs : Lookup(u, t, s)
               \/ AcquireTarget(u) \/ executionEndpoint(u) \/ FindEntry(u) \/ EntryReady(u)
               \/ TakeConnection(u) \/ beginDispatch(u) \/ NotDispatched(u) \/ finishInFlight(u) \/ Dropped(u)
      <3>1. UNCHANGED <<entries, entry, pending>>
        BY <2>1 DEF Lookup, AcquireTarget, executionEndpoint, FindEntry, EntryReady, TakeConnection,
                    beginDispatch, NotDispatched, finishInFlight, Dropped, poolVars
      <3> QED BY <1>0, <3>1 DEF EntriesType
    <2>2. CASE BeginDial(u)
      <3> DEFINE others == EntriesOf({user[u].target})
      <3>1. PICK e \in Entries :
              /\ entry' = [Invalidated(others) EXCEPT ![e] = NewEntry]
              /\ entries' = [Without(others) EXCEPT ![KeyOf(u)] = e]
              /\ pending' = [pending EXCEPT ![u] = ToClose(others)]
        BY <2>2 DEF BeginDial
      <3>2. /\ others \in SUBSET Entries /\ ToClose(others) \in SUBSET others
            /\ Invalidated(others) \in [Entries -> Entry]
            /\ Without(others) \in [Key -> Entries \cup {NoEntry}]
        BY <1>0, EntriesAre, InvalidatedDoes, WithoutDoes DEF ToClose
      <3> HIDE DEF others
      <3> QED BY <1>0, <3>1, <3>2, Defaults DEF EntriesType
    <2>3. CASE DialSucceeds(u)
      <3> DEFINE e == user[u].entry
      <3>1. e \in Entries
        BY <2>3 DEF DialSucceeds, EntryInv, HoldersHold, Holding
      <3>2. /\ entry' = Up(e) \/ entry' = GivenUp(e)
            /\ entries' = entries \/ entries' = Without({e})
            /\ pending' = pending \/ pending' = [pending EXCEPT ![u] = {e}]
        BY <2>3 DEF DialSucceeds, Up, GivenUp
      <3> HIDE DEF e
      <3>3. entry' \in [Entries -> Entry] /\ entries' \in [Key -> Entries \cup {NoEntry}]
        BY <1>0, <3>1, <3>2, UpDoes, WithoutDoes
      <3>4. pending' \in [Users \cup Admins -> SUBSET Entries]
        BY <1>0, <3>1, <3>2
      <3> QED BY <3>3, <3>4 DEF EntriesType
    <2>4. CASE DialFails(u)
      <3> DEFINE e == user[u].entry
      <3>1. e \in Entries
        BY <2>4 DEF DialFails, EntryInv, HoldersHold, Holding
      <3>2. /\ entry' = [Invalidated({e}) EXCEPT ![e].dialing = FALSE] /\ entries' = Without({e})
            /\ UNCHANGED pending
        BY <2>4 DEF DialFails
      <3>3. Invalidated({e}) \in [Entries -> Entry] /\ entries' \in [Key -> Entries \cup {NoEntry}]
        BY <1>0, <3>2, InvalidatedDoes, WithoutDoes
      <3>4. ASSUME NEW x \in Entry PROVE [x EXCEPT !.dialing = FALSE] \in Entry
        BY DEF Entry
      <3> HIDE DEF e
      <3>5. entry' = [Invalidated({e}) EXCEPT ![e] = [Invalidated({e})[e] EXCEPT !.dialing = FALSE]]
        BY <3>2
      <3>6. entry' \in [Entries -> Entry]
        BY <3>1, <3>3, <3>4, <3>5
      <3> QED BY <1>0, <3>2, <3>3, <3>6 DEF EntriesType
    <2>5. CASE discard(u)
      <3> DEFINE e == user[u].entry
      <3>1. e \in Entries
        BY <2>5 DEF discard, EntryInv, HoldersHold, Holding
      <3>2. /\ entry' = Invalidated({e}) /\ entries' = Without({e})
            /\ pending' = [pending EXCEPT ![u] = ToClose({e})]
        BY <2>5 DEF discard
      <3>3. ToClose({e}) \in SUBSET Entries
        BY <3>1 DEF ToClose
      <3> QED BY <1>0, <3>2, <3>3, InvalidatedDoes, WithoutDoes DEF EntriesType
    <2> QED BY <2>1, <2>2, <2>3, <2>4, <2>5 DEF UserStep
  <1> QED BY <1>1, <1>2, <1>3, UserAdmins DEF TypeOK, EntriesType

LEMMA AdminType ==
  ASSUME TypeOK, FlightInv, NEW a \in Admins, AdminStep(a)
  PROVE  TypeOK'
  <1>0. /\ admin \in [Admins -> Admin] /\ lifecycleMu \in Admins \cup {Nobody}
        /\ entries \in [Key -> Entries \cup {NoEntry}] /\ entry \in [Entries -> Entry]
        /\ pending \in [Users \cup Admins -> SUBSET Entries]
    BY DEF TypeOK
  <1>1. ASSUME NEW op, NEW t \in Targets, NEW T \in SUBSET Targets, NEW block \in BOOLEAN, NEW n \in Nat,
               Flushes(a, op, t, T, block, n)
        PROVE  TypeOK'
    <2>1. /\ entry' = Invalidated(EntriesOf(T)) /\ entries' = Without(EntriesOf(T))
          /\ pending' = [pending EXCEPT ![a] = ToClose(EntriesOf(T))] /\ row' = row /\ user' = user
      BY <1>1 DEF Flushes, Invalidate
    <2>2. ToClose(EntriesOf(T)) \in SUBSET Entries
      BY EntriesAre DEF ToClose
    <2>3. EntriesType'
      BY <1>0, <2>1, <2>2, InvalidatedDoes, WithoutDoes DEF EntriesType
    <2>4. gate' \in [Targets -> Gate]
      <3>1. Invalidate(a, op, t, T, block, n)
        BY <1>1 DEF Flushes
      <3> QED BY <3>1, InvalidateDoes
    <2>5. admin' \in [Admins -> Admin]
      <3> DEFINE w == {x \in T : gate[x].inFlight > 0}
      <3>1. admin' = [admin EXCEPT ![a] = [pc |-> "flushing", op |-> op, target |-> t, wait |-> w]]
        BY <1>1 DEF Flushes, Invalidate
      <3>2. w \in SUBSET Targets
        OBVIOUS
      <3> HIDE DEF w
      <3>3. op \in {"upsert", "enable", "disable", "delete", "CloseTarget", "CloseAll", "Suspend", "Close"}
        BY <1>1 DEF Flushes, Configuring
      <3>4. [pc |-> "flushing", op |-> op, target |-> t, wait |-> w] \in Admin
        BY <3>2, <3>3 DEF Admin
      <3> QED BY <1>0, <3>1, <3>4
    <2>6. suspended' \in BOOLEAN /\ closed' \in BOOLEAN /\ lifecycleMu' \in Admins \cup {Nobody}
      BY <1>0, <1>1 DEF Flushes
    <2> QED BY <2>1, <2>3, <2>4, <2>5, <2>6 DEF TypeOK, EntriesType
  <1>2. ASSUME NEW x \in Admin, admin' = [admin EXCEPT ![a] = x], gate' \in [Targets -> Gate],
               row' \in [Targets -> Row], lifecycleMu' \in Admins \cup {Nobody},
               UNCHANGED <<suspended, closed, entries, entry, user, pending>>
        PROVE  TypeOK'
    <2>1. admin' \in [Admins -> Admin]
      BY <1>0, <1>2
    <2> QED BY <1>2, <2>1 DEF TypeOK
  <1>3. CASE \E t \in Targets : AddTarget(a, t)
    <2>1. PICK t \in Targets : AddTarget(a, t)
      BY <1>3
    <2>2. [pc |-> "revoked", op |-> "upsert", target |-> t, wait |-> {}] \in Admin
      BY DEF Admin
    <2> QED BY <1>2, <2>1, <2>2 DEF AddTarget, poolVars, TypeOK
  <1>4. CASE RevokeReturns(a)
    <2>1. [admin[a] EXCEPT !.pc = "revoked"] \in Admin
      BY <1>0 DEF Admin
    <2>2. admin' = [admin EXCEPT ![a] = [admin[a] EXCEPT !.pc = "revoked"]]
      BY <1>4 DEF RevokeReturns
    <2> QED BY <1>2, <1>4, <2>1, <2>2 DEF RevokeReturns, poolVars, TypeOK
  <1>5. CASE releaseTargetFlush(a)
    <2>1. /\ admin' = [admin EXCEPT ![a] = NoAdmin] /\ UNCHANGED <<row, suspended, closed, entries, entry, user, pending>>
          /\ lifecycleMu' \in Admins \cup {Nobody}
      BY <1>0, <1>5 DEF releaseTargetFlush
    <2> QED BY <1>2, <1>5, <2>1, Defaults, ReleasedDoes DEF TypeOK
  <1>6. CASE SuspendReturns(a)
    <2>1. /\ admin' = [admin EXCEPT ![a] = NoAdmin] /\ lifecycleMu' = Nobody
          /\ UNCHANGED <<row, suspended, closed, gate, entries, entry, user, pending>>
      BY <1>6 DEF SuspendReturns, poolVars
    <2> QED BY <1>2, <2>1, Defaults DEF TypeOK
  <1>7. CASE Commit(a)
    <2>1. /\ admin' = [admin EXCEPT ![a] = NoAdmin]
          /\ UNCHANGED <<suspended, closed, entries, entry, user, pending, lifecycleMu>>
      BY <1>7 DEF Commit
    <2>2. row' \in [Targets -> Row] /\ gate' \in [Targets -> Gate]
      BY <1>7, CommittedDoes, ActivatedDoes
    <2> QED BY <1>0, <1>2, <2>1, <2>2, Defaults
  <1>8. CASE Fail(a)
    <2>1. /\ admin' = [admin EXCEPT ![a] = NoAdmin] /\ (Activated(a) \/ UNCHANGED gate)
          /\ UNCHANGED <<row, suspended, closed, entries, entry, user, pending, lifecycleMu>>
      BY <1>8 DEF Fail, ActivatedAfterFailure
    <2>2. gate' \in [Targets -> Gate]
      BY <2>1, ActivatedDoes
    <2> QED BY <1>0, <1>2, <2>1, <2>2, Defaults DEF TypeOK
  <1> QED BY <1>1, <1>3, <1>4, <1>5, <1>6, <1>7, <1>8, FlushSteps DEF AdminStep

LEMMA NextType ==
  ASSUME IInv, [Next]_vars
  PROVE  TypeOK'
  <1>0. TypeOK /\ FlightInv /\ EntryInv
    BY DEF IInv
  <1>1. ASSUME NEW x \in Users \cup Admins, closeConnections(x) PROVE TypeOK'
    <2>1. /\ entry' = [e \in Entries |-> IF e \in pending[x]
                                         THEN [entry[e] EXCEPT !.connection = "closed"] ELSE entry[e]]
          /\ pending' = [pending EXCEPT ![x] = {}]
          /\ UNCHANGED <<row, suspended, closed, gate, entries, user, admin, lifecycleMu>>
      BY <1>1 DEF closeConnections
    <2>2. ASSUME NEW r \in Entry PROVE [r EXCEPT !.connection = "closed"] \in Entry
      BY DEF Entry
    <2>3. entry' \in [Entries -> Entry]
      BY <1>0, <2>1, <2>2 DEF TypeOK
    <2>4. pending' \in [Users \cup Admins -> SUBSET Entries]
      BY <1>0, <2>1 DEF TypeOK
    <2> QED BY <1>0, <2>1, <2>3, <2>4 DEF TypeOK
  <1>2. CASE Resume
    BY <1>0, <1>2 DEF Resume, TypeOK
  <1>3. CASE UNCHANGED vars
    BY <1>0, <1>3 DEF vars, TypeOK
  <1> QED BY <1>0, <1>1, <1>2, <1>3, UserType, AdminType DEF Next

-----------------------------------------------------------------------------
(* Theorems *)

LEMMA InitIInv == Init => IInv
  <1> SUFFICES ASSUME Init PROVE IInv
    OBVIOUS
  <1>1. TypeOK
    <2>1. /\ 1 \in 0..MaxRevision /\ 0 \in 0..MaxGeneration
      BY BoundsAssumption
    <2>2. [revision |-> 1, enabled |-> TRUE, config |-> AnyConfig, registration |-> 0] \in Row
      BY <2>1, NamesAssumption DEF Row, AnyConfig
    <2>3. [generation |-> 0, configurationBlocked |-> FALSE, lifecycleFlushes |-> 0, inFlight |-> 0] \in Gate
      BY <2>1 DEF Gate
    <2>4. /\ row \in [Targets -> Row] /\ gate \in [Targets -> Gate]
          /\ suspended \in BOOLEAN /\ closed \in BOOLEAN
      BY <2>2, <2>3 DEF Init
    <2>5. /\ entries \in [Key -> Entries \cup {NoEntry}] /\ entry \in [Entries -> Entry]
          /\ user \in [Users -> User] /\ admin \in [Admins -> Admin]
          /\ pending \in [Users \cup Admins -> SUBSET Entries] /\ lifecycleMu \in Admins \cup {Nobody}
      BY Defaults DEF Init
    <2> QED BY <2>4, <2>5 DEF TypeOK
  <1>2. /\ \A u \in Users : user[u].pc = "idle"
        /\ \A a \in Admins : admin[a].pc = "idle" /\ admin[a].wait = {}
        /\ \A t \in Targets : gate[t].inFlight = 0 /\ row[t].revision = 1
        /\ \A e \in Entries : entry[e].connection = "nil" /\ ~entry[e].dialing
        /\ \A x \in Users \cup Admins : pending[x] = {}
        /\ ~suspended /\ ~closed /\ lifecycleMu = Nobody
    BY Defaults DEF Init
  <1>3. \A t : Busy(t) = {}
    BY <1>2 DEF Busy
  <1>4. FlightInv
    <2>1. Counted
      BY <1>2, <1>3, BusyFinite DEF Counted
    <2> QED BY <1>2, <1>3, <2>1, ActorsAssumption
            DEF FlightInv, WaitIsBusy, HolderFlushes, LockedDrains, OneConfigures, Configures,
                ConfiguredDrains, AbsentIsBlocked, ConfiguredIsStored
  <1>5. LeaseInv
    BY <1>2 DEF LeaseInv, LeaseIsOld, CurrentIsChecked, RunsChecked, ReadIsPast, Leased, Checked, UserState
  <1>6. EntryInv
    BY <1>2 DEF EntryInv, HoldersHold, Holding, OneDials, DialedIsNew, DialingIsDialed, Dials,
                WaitersAreWoken, PendingWasDialed, PendingIsOwned, NoLeakedConnection
  <1> QED BY <1>1, <1>4, <1>5, <1>6 DEF IInv

LEMMA NextIInv == IInv /\ [Next]_vars => IInv'
  BY NextType, NextFlight, NextLease, NextEntry DEF IInv

LEMMA Invariance == Spec => []IInv
  BY InitIInv, NextIInv, PTL DEF Spec

\* Every reachable state of the pool has the types of the code's structures:
\* no entry that was never allocated is in the map, and the count of
\* operations in flight never goes below zero.
THEOREM TypeCorrect == Spec => []TypeOK
  <1>1. IInv => TypeOK
    BY DEF IInv
  <1> QED BY <1>1, Invariance, PTL

\* An operation runs only on a connection made for the row as it is stored
\* then (leaseValidLocked, invalidateTarget and the control service's order of
\* revocation, flush, commit and activation), and that row has the
\* configuration the policy reviewed, unless the target was deleted since.
THEOREM RunsOnCurrentRow == Spec => []CommandIsCurrent
  <1>1. IInv => CommandIsCurrent
    <2> SUFFICES ASSUME IInv, NEW u \in Users, user[u].pc = "executing"
                 PROVE  /\ Matches(user[u], row[user[u].target])
                        /\ row[user[u].target].registration = user[u].registration =>
                              row[user[u].target].config = user[u].reviewed
      BY DEF CommandIsCurrent, Matches
    <2>1. Matches(user[u], row[user[u].target]) /\ Past(user[u], row[user[u].target])
      BY DEF IInv, LeaseInv, RunsChecked, ReadIsPast
    <2> QED BY <2>1 DEF Matches, Past
  <1> QED BY <1>1, Invariance, PTL

\* Once Suspend or Close has returned, and until Resume, nothing is in flight.
THEOREM SuspensionDrains == Spec => []SuspendedIsQuiet
  <1>1. IInv => SuspendedIsQuiet
    BY ActorsAssumption DEF IInv, FlightInv, LockedDrains, SuspendedIsQuiet
  <1> QED BY <1>1, Invariance, PTL

\* Every open connection is in the map or in the hands of a goroutine that is
\* about to close it, also when its dial ended after an invalidation.
THEOREM ConnectionsAreOwned == Spec => []NoLeakedConnection
  <1>1. IInv => NoLeakedConnection
    BY DEF IInv, EntryInv
  <1> QED BY <1>1, Invariance, PTL

\* Whoever waits, for a flush or for another operation's dial, waits for
\* something that is still under way, or has been woken.
THEOREM WakeUpsArrive == Spec => []NoLostWakeUp
  <1>1. IInv => NoLostWakeUp
    BY DEF IInv, FlightInv, WaitIsBusy, EntryInv, WaitersAreWoken, Dials, NoLostWakeUp
  <1> QED BY <1>1, Invariance, PTL

=============================================================================
