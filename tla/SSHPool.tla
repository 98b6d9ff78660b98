------------------------------- MODULE SSHPool -------------------------------
(***************************************************************************)
(* The pool of physical SSH connections, internal/sshservice/              *)
(* isolated_connections.go, with the operations of internal/control/       *)
(* service.go that reconfigure a target around it, and the rows of         *)
(* ssh_targets that they change.                                           *)
(*                                                                         *)
(* Users are goroutines of remote operations (Execute, ReadFile,           *)
(* DeployBinary: the three follow the same steps).  Admins are goroutines  *)
(* that revoke, flush, suspend or close.  An action is one critical        *)
(* section of the pool's mutex, or one step taken outside it: dialing,     *)
(* closing connections and waiting for operations in flight.               *)
(***************************************************************************)
EXTENDS Integers, FiniteSets

CONSTANTS
    Users,
    Admins,
    Targets,
    Configs,        \* configurations: port, user, credential, fingerprint, patterns
    Specs,          \* specification versions, part of the connection key
    Entries,        \* addresses of isolatedConnectionEntry
    NoEntry,
    Nobody,         \* a mutex is free
    MaxRevision,    \* bound on the revisions of a row
    MaxGeneration   \* bound on the generations of a gate

ASSUME BoundsAssumption == MaxRevision \in Nat \ {0} /\ MaxGeneration \in Nat

\* Finitely many goroutines, each of one kind.
ASSUME ActorsAssumption == IsFiniteSet(Users) /\ Users \cap Admins = {} /\ Nobody \notin Admins

ASSUME NamesAssumption == Targets # {} /\ Configs # {} /\ Specs # {} /\ NoEntry \notin Entries

VARIABLES
    row,            \* the target's row; its revision is 0 when it is absent
    suspended, closed,
    gate,           \* isolatedTargetGate
    entries,        \* the map from keys to entries
    entry,          \* the entry objects
    user,           \* where each operation is, and what it holds
    admin,          \* where each administrator is, and what it waits for
    pending,        \* connections a goroutine took out and is about to close
    lifecycleMu     \* the holder of lifecycleMu

poolVars == <<suspended, closed, gate, entries, entry>>
vars == <<row, suspended, closed, gate, entries, entry, user, admin, pending, lifecycleMu>>

-----------------------------------------------------------------------------
Key == [target : Targets, revision : 1..MaxRevision, config : Configs, spec : Specs]

Gate == [generation : 0..MaxGeneration, configurationBlocked : BOOLEAN,
         lifecycleFlushes : Nat, inFlight : Nat]

\* ready: the channel is closed.  connection: nil, open or closed; invalidated
\* also stands for the flag "closed", that connection.Close() is taken.  The
\* field key is left out: whoever holds an entry has the key.
Entry == [dialing : BOOLEAN, ready : BOOLEAN, invalidated : BOOLEAN,
          connection : {"nil", "open", "closed"}]

\* "looked": the row was read, before any lease.  "leased": AcquireTarget.
\* "acquiring": at the top of acquire's loop.  "found": between its two
\* critical sections.  "ready": acquire has returned.  "dropped": the
\* connection just dialed is given up.  "failed": Execute returned an error.
UserState == {"idle", "looked", "leased", "acquiring", "dialing", "waiting", "found",
              "ready", "executing", "failed", "dropped"}

\* reviewed and registration: the row read first, which the policy looks at;
\* config: the row read again under the lease, which the connection is made for.
User == [pc : UserState, target : Targets, revision : 1..MaxRevision, spec : Specs,
         reviewed : Configs, registration : Nat, config : Configs,
         generation : 0..MaxGeneration, entry : Entries \cup {NoEntry}]

\* "flushing": waiting for the operations in flight of the targets in wait;
\* "revoked": RevokeSSHTarget has returned, the row is not changed yet.
Admin == [pc : {"idle", "flushing", "revoked"},
          op : {"upsert", "enable", "disable", "delete", "CloseTarget", "CloseAll", "Suspend", "Close"},
          target : Targets, wait : SUBSET Targets]

\* registration is history: it tells a row from the one of a deleted target
\* of the same address.  The code has no such field.
Row == [revision : 0..MaxRevision, enabled : BOOLEAN, config : Configs, registration : Nat]

TypeOK ==
    /\ row \in [Targets -> Row]
    /\ suspended \in BOOLEAN
    /\ closed \in BOOLEAN
    /\ gate \in [Targets -> Gate]
    /\ entries \in [Key -> Entries \cup {NoEntry}]
    /\ entry \in [Entries -> Entry]
    /\ user \in [Users -> User]
    /\ admin \in [Admins -> Admin]
    /\ pending \in [Users \cup Admins -> SUBSET Entries]
    /\ lifecycleMu \in Admins \cup {Nobody}

\* Operations counted by inFlight.
Busy(t) == {u \in Users : user[u].pc \in {"dialing", "executing", "failed"} /\ user[u].target = t}

AnyConfig == CHOOSE c \in Configs : TRUE
NoUser == [pc |-> "idle", target |-> CHOOSE t \in Targets : TRUE, revision |-> 1,
           spec |-> CHOOSE s \in Specs : TRUE, reviewed |-> AnyConfig, registration |-> 0,
           config |-> AnyConfig, generation |-> 0, entry |-> NoEntry]
NoAdmin == [pc |-> "idle", op |-> "upsert", target |-> CHOOSE t \in Targets : TRUE, wait |-> {}]
NewEntry == [dialing |-> TRUE, ready |-> FALSE, invalidated |-> FALSE, connection |-> "nil"]
OldEntry == [dialing |-> FALSE, ready |-> TRUE, invalidated |-> TRUE, connection |-> "nil"]

\* The daemon has started; the targets are stored and enabled.
Init ==
    /\ row = [t \in Targets |-> [revision |-> 1, enabled |-> TRUE, config |-> AnyConfig,
                                 registration |-> 0]]
    /\ suspended = FALSE
    /\ closed = FALSE
    /\ gate = [t \in Targets |-> [generation |-> 0, configurationBlocked |-> FALSE,
                                  lifecycleFlushes |-> 0, inFlight |-> 0]]
    /\ entries = [k \in Key |-> NoEntry]
    /\ entry = [e \in Entries |-> OldEntry]
    /\ user = [u \in Users |-> NoUser]
    /\ admin = [a \in Admins |-> NoAdmin]
    /\ pending = [x \in Users \cup Admins |-> {}]
    /\ lifecycleMu = Nobody

-----------------------------------------------------------------------------
(* Helpers under the pool's mutex *)

blocked(t) == gate[t].configurationBlocked \/ gate[t].lifecycleFlushes > 0

\* Mutant: the generation the lease was given for is not compared.
leaseValidLocked_AnyGeneration(u) == ~closed /\ ~suspended /\ ~blocked(user[u].target)

leaseValidLocked(u) ==
    /\ ~closed /\ ~suspended
    /\ ~blocked(user[u].target)
    /\ gate[user[u].target].generation = user[u].generation

KeyOf(u) == [target |-> user[u].target, revision |-> user[u].revision,
             config |-> user[u].config, spec |-> user[u].spec]

\* The entry is still the one in the map, and usable.
Usable(u) ==
    LET e == user[u].entry
    IN  /\ leaseValidLocked(u)
        /\ ~entry[e].invalidated
        /\ entries[KeyOf(u)] = e
        /\ entry[e].connection # "nil"

\* invalidateEntryLocked for a set of entries.  The connections to close,
\* outside the mutex, are those that were not taken before.
Invalidated(E) ==
    [e \in Entries |-> IF e \in E THEN [entry[e] EXCEPT !.invalidated = TRUE, !.ready = TRUE]
                       ELSE entry[e]]
Without(E) == [k \in Key |-> IF entries[k] \in E THEN NoEntry ELSE entries[k]]

ToClose(E) == {e \in E : ~entry[e].invalidated /\ entry[e].connection = "open"}

EntriesOf(T) == {entries[k] : k \in {q \in Key : q.target \in T}} \ {NoEntry}

beginInFlightLocked(t) == gate' = [gate EXCEPT ![t].inFlight = @ + 1]

\* Mutant: the waiters are woken by every operation that ends.
Woken_Early(t) ==
    admin' = [a \in Admins |-> [admin[a] EXCEPT !.wait = @ \ {t}]]

\* Closing the channel idle wakes all who wait on it.
Woken(t) ==
    admin' = IF gate[t].inFlight = 1
             THEN [a \in Admins |-> [admin[a] EXCEPT !.wait = @ \ {t}]]
             ELSE admin

finishInFlightLocked(t) ==
    /\ gate' = [gate EXCEPT ![t].inFlight = IF @ > 0 THEN @ - 1 ELSE @]
    /\ Woken(t)

\* The map, a user or a goroutine about to close it may hold an entry.
Fresh(e) ==
    /\ \A k \in Key : entries[k] # e
    /\ \A u \in Users : user[u].entry # e
    /\ \A x \in Users \cup Admins : e \notin pending[x]

-----------------------------------------------------------------------------
(* Operations *)

Become(u, changed) == user' = [user EXCEPT ![u] = changed]

\* The runner reads the row, long before the lease.
Lookup(u, t, s) ==
    /\ user[u].pc = "idle"
    /\ row[t].revision # 0 /\ row[t].enabled
    /\ Become(u, [NoUser EXCEPT !.pc = "looked", !.target = t, !.spec = s,
                                !.revision = row[t].revision, !.reviewed = row[t].config,
                                !.registration = row[t].registration])
    /\ UNCHANGED <<row, poolVars, admin, pending, lifecycleMu>>

AcquireTarget(u) ==
    /\ user[u].pc = "looked"
    /\ ~closed /\ ~suspended /\ ~blocked(user[u].target)
    /\ Become(u, [user[u] EXCEPT !.pc = "leased",
                                 !.generation = gate[user[u].target].generation])
    /\ UNCHANGED <<row, poolVars, admin, pending, lifecycleMu>>

\* The row is read again and must have the revision the operation was
\* checked for; from here on the operation uses what was read now.
executionEndpoint(u) ==
    /\ user[u].pc = "leased"
    /\ row[user[u].target].enabled
    /\ row[user[u].target].revision = user[u].revision
    /\ Become(u, [user[u] EXCEPT !.pc = "acquiring", !.config = row[user[u].target].config])
    /\ UNCHANGED <<row, poolVars, admin, pending, lifecycleMu>>

\* acquire, first critical section, without an entry for the key: the entries
\* of other keys of the target are invalidated and a new one is dialed.
BeginDial(u) ==
    /\ user[u].pc = "acquiring" /\ leaseValidLocked(u)
    /\ entries[KeyOf(u)] = NoEntry
    /\ LET others == EntriesOf({user[u].target})
       IN \E e \in Entries :
            /\ Fresh(e)
            /\ entry' = [Invalidated(others) EXCEPT ![e] = NewEntry]
            /\ entries' = [Without(others) EXCEPT ![KeyOf(u)] = e]
            /\ pending' = [pending EXCEPT ![u] = ToClose(others)]
            /\ Become(u, [user[u] EXCEPT !.pc = "dialing", !.entry = e])
    /\ beginInFlightLocked(user[u].target)
    /\ UNCHANGED <<row, suspended, closed, admin, lifecycleMu>>

\* Mutant: the dialer trusts the entry it made.
Superseded_Never(u) == FALSE

\* The new connection must be given up.
Superseded(u) ==
    LET e == user[u].entry
    IN  ~leaseValidLocked(u) \/ entry[e].invalidated \/ entries[KeyOf(u)] # e

\* Dial succeeded: the connection is published, or given up.
DialSucceeds(u) ==
    LET e == user[u].entry
        up == [entry EXCEPT ![e].dialing = FALSE, ![e].ready = TRUE, ![e].connection = "open"]
    IN  /\ user[u].pc = "dialing" /\ pending[u] = {}
        /\ finishInFlightLocked(user[u].target)
        /\ \/ /\ Superseded(u)
              /\ entry' = [up EXCEPT ![e].invalidated = TRUE]
              /\ entries' = Without({e})
              /\ pending' = [pending EXCEPT ![u] = {e}]
              /\ Become(u, [user[u] EXCEPT !.pc = "dropped"])
           \/ /\ ~Superseded(u)
              /\ entry' = up
              /\ Become(u, [user[u] EXCEPT !.pc = "acquiring", !.entry = NoEntry])
              /\ UNCHANGED <<entries, pending>>
        /\ UNCHANGED <<row, suspended, closed, lifecycleMu>>

\* Mutant: the waiters of a failed dial are not woken.
DialFails_Silent(u) ==
    LET e == user[u].entry
    IN  /\ user[u].pc = "dialing" /\ pending[u] = {}
        /\ finishInFlightLocked(user[u].target)
        /\ entry' = [entry EXCEPT ![e].dialing = FALSE, ![e].invalidated = TRUE]
        /\ entries' = Without({e})
        /\ Become(u, NoUser)
        /\ UNCHANGED <<row, suspended, closed, pending, lifecycleMu>>

\* Dial failed, or was cancelled by an invalidation or by the context.
DialFails(u) ==
    LET e == user[u].entry
    IN  /\ user[u].pc = "dialing" /\ pending[u] = {}
        /\ finishInFlightLocked(user[u].target)
        /\ entry' = [Invalidated({e}) EXCEPT ![e].dialing = FALSE]
        /\ entries' = Without({e})
        /\ Become(u, NoUser)
        /\ UNCHANGED <<row, suspended, closed, pending, lifecycleMu>>

\* acquire, first critical section, with an entry: wait for its dialer, or go
\* on to the second one.
FindEntry(u) ==
    LET e == entries[KeyOf(u)]
    IN  /\ user[u].pc = "acquiring" /\ leaseValidLocked(u)
        /\ e # NoEntry
        /\ Become(u, [user[u] EXCEPT !.pc = IF entry[e].dialing THEN "waiting" ELSE "found",
                                     !.entry = e])
        /\ UNCHANGED <<row, poolVars, admin, pending, lifecycleMu>>

\* case <-ready: back to the top of the loop.
EntryReady(u) ==
    /\ user[u].pc = "waiting" /\ entry[user[u].entry].ready
    /\ Become(u, [user[u] EXCEPT !.pc = "acquiring", !.entry = NoEntry])
    /\ UNCHANGED <<row, poolVars, admin, pending, lifecycleMu>>

\* acquire, second critical section.
TakeConnection(u) ==
    /\ user[u].pc = "found" /\ Usable(u)
    /\ Become(u, [user[u] EXCEPT !.pc = "ready"])
    /\ UNCHANGED <<row, poolVars, admin, pending, lifecycleMu>>

beginDispatch(u) ==
    /\ user[u].pc = "ready" /\ Usable(u)
    /\ beginInFlightLocked(user[u].target)
    /\ Become(u, [user[u] EXCEPT !.pc = "executing"])
    /\ UNCHANGED <<row, suspended, closed, entries, entry, admin, pending, lifecycleMu>>

\* The operation gives up before its dispatch: a check failed, the row has
\* changed, or the context is done.
NotDispatched(u) ==
    /\ user[u].pc \in {"looked", "leased", "acquiring", "waiting", "found", "ready"}
    /\ Become(u, NoUser)
    /\ UNCHANGED <<row, poolVars, admin, pending, lifecycleMu>>

\* Execute failed: discard takes the connection out, for its other users too.
discard(u) ==
    LET e == user[u].entry
    IN  /\ user[u].pc = "executing"
        /\ entry' = Invalidated({e})
        /\ entries' = Without({e})
        /\ pending' = [pending EXCEPT ![u] = ToClose({e})]
        /\ Become(u, [user[u] EXCEPT !.pc = "failed"])
        /\ UNCHANGED <<row, suspended, closed, gate, admin, lifecycleMu>>

\* The deferred finishInFlight, after a result or after discard.
finishInFlight(u) ==
    /\ user[u].pc \in {"executing", "failed"} /\ pending[u] = {}
    /\ finishInFlightLocked(user[u].target)
    /\ Become(u, NoUser)
    /\ UNCHANGED <<row, suspended, closed, entries, entry, pending, lifecycleMu>>

\* The connection given up by its dialer is closed.
Dropped(u) ==
    /\ user[u].pc = "dropped" /\ pending[u] = {}
    /\ Become(u, NoUser)
    /\ UNCHANGED <<row, poolVars, admin, pending, lifecycleMu>>

\* closeConnections, outside the mutex.
closeConnections(x) ==
    /\ pending[x] # {}
    /\ entry' = [e \in Entries |-> IF e \in pending[x]
                                   THEN [entry[e] EXCEPT !.connection = "closed"] ELSE entry[e]]
    /\ pending' = [pending EXCEPT ![x] = {}]
    /\ UNCHANGED <<row, suspended, closed, gate, entries, user, admin, lifecycleMu>>

-----------------------------------------------------------------------------
(* Administration *)

\* The critical section shared by invalidateTarget, Suspend, CloseAll and
\* Close: advance the generations of T, take their connections out and note
\* what is in flight.
Invalidate(a, op, t, T, block, flushes) ==
    /\ \A x \in T : gate[x].generation < MaxGeneration
    /\ gate' = [x \in Targets |->
                  IF x \in T
                  THEN [gate[x] EXCEPT !.generation = @ + 1,
                                       !.configurationBlocked = @ \/ block,
                                       !.lifecycleFlushes = @ + flushes]
                  ELSE gate[x]]
    /\ entry' = Invalidated(EntriesOf(T))
    /\ entries' = Without(EntriesOf(T))
    /\ pending' = [pending EXCEPT ![a] = ToClose(EntriesOf(T))]
    /\ admin' = [admin EXCEPT ![a] = [pc |-> "flushing", op |-> op, target |-> t,
                                      wait |-> {x \in T : gate[x].inFlight > 0}]]
    /\ UNCHANGED <<row, user>>

Configuring == {"upsert", "enable", "disable", "delete"}

\* sshTargetMu is free.
MayConfigure == \A a \in Admins : admin[a].pc = "idle" \/ admin[a].op \notin Configuring

\* upsertSSHTarget, setSSHTargetEnabled and deleteSSHTarget of a stored target
\* begin by revoking it.
InvalidateTarget(a, op, t) ==
    /\ admin[a].pc = "idle" /\ op \in Configuring
    /\ MayConfigure /\ row[t].revision # 0
    /\ Invalidate(a, op, t, {t}, TRUE, 0)
    /\ UNCHANGED <<suspended, closed, lifecycleMu>>

\* upsertSSHTarget of a target that is not stored revokes nothing.
AddTarget(a, t) ==
    /\ admin[a].pc = "idle" /\ MayConfigure /\ row[t].revision = 0
    /\ admin' = [admin EXCEPT ![a] = [pc |-> "revoked", op |-> "upsert", target |-> t,
                                      wait |-> {}]]
    /\ UNCHANGED <<row, poolVars, user, pending, lifecycleMu>>

\* A work session ended: its target's connections are closed.
CloseTarget(a, t) ==
    /\ admin[a].pc = "idle"
    /\ Invalidate(a, "CloseTarget", t, {t}, FALSE, 1)
    /\ UNCHANGED <<suspended, closed, lifecycleMu>>

CloseAll(a) ==
    /\ admin[a].pc = "idle" /\ lifecycleMu = Nobody /\ ~closed
    /\ Invalidate(a, "CloseAll", admin[a].target, Targets, FALSE, 1)
    /\ lifecycleMu' = a
    /\ UNCHANGED <<suspended, closed>>

\* Suspend of a suspended or closed pool returns at once.
Suspend(a) ==
    /\ admin[a].pc = "idle" /\ lifecycleMu = Nobody /\ ~closed /\ ~suspended
    /\ Invalidate(a, "Suspend", admin[a].target, Targets, FALSE, 0)
    /\ suspended' = TRUE
    /\ lifecycleMu' = a
    /\ UNCHANGED closed

Resume ==
    /\ lifecycleMu = Nobody /\ ~closed /\ suspended
    /\ suspended' = FALSE
    /\ UNCHANGED <<row, closed, gate, entries, entry, user, admin, pending, lifecycleMu>>

Close(a) ==
    /\ admin[a].pc = "idle" /\ lifecycleMu = Nobody /\ ~closed
    /\ Invalidate(a, "Close", admin[a].target, Targets, FALSE, 0)
    /\ closed' = TRUE
    /\ lifecycleMu' = a
    /\ UNCHANGED suspended

\* Connections are closed, and what was in flight has ended.
FlushDone(a) == admin[a].pc = "flushing" /\ pending[a] = {} /\ admin[a].wait = {}

RevokeReturns(a) ==
    /\ FlushDone(a) /\ admin[a].op \in Configuring
    /\ admin' = [admin EXCEPT ![a].pc = "revoked"]
    /\ UNCHANGED <<row, poolVars, user, pending, lifecycleMu>>

\* releaseTargetFlush on a gate.
Released(t) ==
    IF ~closed /\ gate[t].lifecycleFlushes > 0 THEN gate[t].lifecycleFlushes - 1
    ELSE gate[t].lifecycleFlushes

\* CloseTarget and CloseAll lift their temporary block and return.
releaseTargetFlush(a) ==
    /\ FlushDone(a) /\ admin[a].op \in {"CloseTarget", "CloseAll"}
    /\ LET T == IF admin[a].op = "CloseAll" THEN Targets ELSE {admin[a].target}
       IN  gate' = [t \in Targets |-> IF t \in T
                                      THEN [gate[t] EXCEPT !.lifecycleFlushes = Released(t)]
                                      ELSE gate[t]]
    /\ admin' = [admin EXCEPT ![a] = NoAdmin]
    /\ lifecycleMu' = IF lifecycleMu = a THEN Nobody ELSE lifecycleMu
    /\ UNCHANGED <<row, suspended, closed, entries, entry, user, pending>>

SuspendReturns(a) ==
    /\ FlushDone(a) /\ admin[a].op \in {"Suspend", "Close"}
    /\ admin' = [admin EXCEPT ![a] = NoAdmin]
    /\ lifecycleMu' = Nobody
    /\ UNCHANGED <<row, poolVars, user, pending>>

\* The rows an operation may commit: a change of a stored row that operations
\* can tell apart advances its revision; a new row starts again at 1.  A
\* disabled target is not enabled without validation.
Committed(a) ==
    LET old == row[admin[a].target]
        changed(enabled, configs) == [revision : {old.revision + 1}, enabled : enabled,
                                      config : configs, registration : {old.registration}]
    IN  CASE admin[a].op = "delete"  -> {[revision |-> 0, enabled |-> FALSE, config |-> AnyConfig,
                                          registration |-> old.registration + 1]}
          [] admin[a].op = "disable" -> IF old.enabled THEN changed({FALSE}, {old.config}) ELSE {old}
          [] admin[a].op = "enable"  -> IF old.enabled THEN {old} ELSE {}
          [] admin[a].op = "upsert"  -> changed(BOOLEAN, Configs)
                                            \cup (IF old.revision = 0 THEN {} ELSE {old})

\* ActivateTarget is called unless the target was deleted or disabled.
Activates(a) == admin[a].op \in {"upsert", "enable"}

Activated(a) ==
    gate' = [gate EXCEPT ![admin[a].target].configurationBlocked = @ /\ closed]

\* The change is committed, and the target activated.  The row and the gate
\* change in this order, with nothing in between that matters to the pool: no
\* operation gets a lease before the second.
Commit(a) ==
    /\ admin[a].pc = "revoked"
    /\ \E new \in Committed(a) \cap Row :
          /\ row' = [row EXCEPT ![admin[a].target] = new]
          /\ IF Activates(a) THEN Activated(a) ELSE UNCHANGED gate
    /\ admin' = [admin EXCEPT ![a] = NoAdmin]
    /\ UNCHANGED <<suspended, closed, entries, entry, user, pending, lifecycleMu>>

ActivatedAfterFailure(a) ==
    IF row[admin[a].target].revision # 0 THEN Activated(a) ELSE UNCHANGED gate

\* Validation or the transaction failed: the row stays, and a target that was
\* revoked is activated.
Fail(a) ==
    /\ admin[a].pc = "revoked"
    /\ ActivatedAfterFailure(a)
    /\ admin' = [admin EXCEPT ![a] = NoAdmin]
    /\ UNCHANGED <<row, suspended, closed, entries, entry, user, pending, lifecycleMu>>

-----------------------------------------------------------------------------
UserStep(u) ==
    \/ \E t \in Targets, s \in Specs : Lookup(u, t, s)
    \/ AcquireTarget(u) \/ executionEndpoint(u) \/ BeginDial(u) \/ DialSucceeds(u)
    \/ DialFails(u) \/ FindEntry(u) \/ EntryReady(u) \/ TakeConnection(u)
    \/ beginDispatch(u) \/ NotDispatched(u) \/ discard(u) \/ finishInFlight(u) \/ Dropped(u)

AdminStep(a) ==
    \/ \E op \in Configuring, t \in Targets : InvalidateTarget(a, op, t)
    \/ \E t \in Targets : AddTarget(a, t) \/ CloseTarget(a, t)
    \/ CloseAll(a) \/ Suspend(a) \/ Close(a)
    \/ RevokeReturns(a) \/ releaseTargetFlush(a) \/ SuspendReturns(a) \/ Commit(a) \/ Fail(a)

Next ==
    \/ \E u \in Users : UserStep(u)
    \/ \E a \in Admins : AdminStep(a)
    \/ \E x \in Users \cup Admins : closeConnections(x)
    \/ Resume

Spec == Init /\ [][Next]_vars

-----------------------------------------------------------------------------
(* Properties *)

\* A lease taken before a revocation "can never be used": an operation runs
\* only on a connection made for the row as it is stored then, enabled and
\* with its configuration, since a change of the row waits for what is in
\* flight and the generation keeps out what had read the row before.  What the
\* policy reviewed is that configuration too, unless the target was deleted
\* after the review: a new row starts at revision 1 and passes for the old.
CommandIsCurrent ==
    \A u \in Users : user[u].pc = "executing" =>
        LET stored == row[user[u].target]
        IN  /\ stored.enabled /\ stored.revision = user[u].revision
            /\ stored.config = user[u].config
            /\ stored.registration = user[u].registration => stored.config = user[u].reviewed

\* When Suspend or Close has returned, and until Resume, no connection is
\* dialed or used: "no old authorisation crosses the lock".
SuspendedIsQuiet ==
    (suspended \/ closed) /\ lifecycleMu = Nobody => \A t \in Targets : Busy(t) = {}

\* No physical connection leaks: an open one is in the map for the next
\* operation, or a goroutine holds it and is about to close it.  The dial that
\* completes after its entry was invalidated is the case at risk.
NoLeakedConnection ==
    \A e \in Entries : entry[e].connection = "open" =>
        \/ ~entry[e].invalidated /\ \E k \in Key : entries[k] = e
        \/ \E x \in Users \cup Admins : e \in pending[x]

\* No wake-up is lost: while a flush waits for a target, an operation it must
\* wait for is still in flight and will close the channel; while an operation
\* waits for another one's dial, the dialer is there or the channel is closed,
\* also when the dial fails or is invalidated.
NoLostWakeUp ==
    /\ \A a \in Admins : \A t \in admin[a].wait : Busy(t) # {}
    /\ \A u \in Users : user[u].pc = "waiting" =>
          LET e == user[u].entry
          IN  entry[e].ready \/ \E d \in Users : user[d].pc = "dialing" /\ user[d].entry = e

=============================================================================
