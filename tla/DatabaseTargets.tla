-------------------------- MODULE DatabaseTargets --------------------------
(***************************************************************************)
(* Changing a database target while requests use it: the authorizer of     *)
(* internal/runner/database_authorization.go, the operations of            *)
(* internal/control/service.go that change a target, the row they write    *)
(* (internal/store/targets.go) and the re-read of that row before the      *)
(* transport is used (internal/dbservice/service.go).                      *)
(*                                                                         *)
(* One target is modelled: targets share only databaseTargetMu, which      *)
(* admits one control operation at a time, and the map that holds their    *)
(* authorizations.  A row is what the revision counts: the engine stands   *)
(* for all the fields whose change moves the revision.  The process may    *)
(* start with any row and always with a fresh authorizer, which is what a  *)
(* restart leaves.                                                         *)
(***************************************************************************)
EXTENDS Integers, FiniteSets

CONSTANTS
    Requests,       \* goroutines in RunSQL or ListDatabases
    Engines,        \* configurations of the target
    MaxRevision,    \* bound on the revision of a row
    MaxGeneration,  \* bound on the number of revocations
    NoRow           \* the target is not registered

ASSUME RequestsFinite == IsFiniteSet(Requests)
ASSUME EnginesNonEmpty == Engines # {}
ASSUME BoundsAssumption == MaxRevision \in Nat \ {0} /\ MaxGeneration \in Nat \ {0}

VARIABLES
    row,            \* the row of database_instances
    generation,     \* databaseTargetAuthorization.generation
    blocked,        \* databaseTargetAuthorization.blocked
    dispatches,     \* databaseTargetAuthorization.dispatches
    awaited,        \* RevokeTarget holds a dispatchDone that is still open
    req,            \* each request, its snapshot of the row and its lease
    op,             \* the control operation that holds databaseTargetMu
    beforeDelete    \* history: requests created before the last deletion

authVars == <<generation, blocked, dispatches, awaited>>
vars == <<row, generation, blocked, dispatches, awaited, req, op, beforeDelete>>

-----------------------------------------------------------------------------
Row == [engine : Engines, enabled : BOOLEAN, revision : Nat \ {0}]
Rows == Row \cup {NoRow}
ASSUME NoRowAssumption == NoRow \notin Row

Registered == row # NoRow

\* "created": the row is read; "leased": acquireTarget returned a lease;
\* "dispatching": past BeginDispatch; "sent": the transport is in use.
Request == [pc : {"idle", "created", "leased", "dispatching", "sent"},
            list : BOOLEAN, instance : Rows, generation : Nat]

\* "waiting": in RevokeTarget; "ready": validating and committing; "ending":
\* committed or failed, with the activation still to do.
Operation == [pc : {"none", "waiting", "ready", "ending"},
              kind : {"upsert", "enable", "delete"},
              existing : Rows, engine : Engines, enabled : BOOLEAN,
              activate : BOOLEAN]

TypeOK ==
    /\ row \in Rows
    /\ generation \in Nat
    /\ blocked \in BOOLEAN
    /\ dispatches \in Nat
    /\ awaited \in BOOLEAN
    /\ req \in [Requests -> Request]
    /\ op \in Operation
    /\ beforeDelete \in SUBSET Requests

NoRequest == [pc |-> "idle", list |-> FALSE, instance |-> NoRow, generation |-> 0]

\* Requests that hold the right to dispatch.
Dispatching == {r \in Requests : req[r].pc \in {"dispatching", "sent"}}

Init ==
    /\ row \in {NoRow} \cup [engine : Engines, enabled : BOOLEAN, revision : {1}]
    /\ generation = 1
    /\ blocked = FALSE
    /\ dispatches = 0
    /\ awaited = FALSE
    /\ req = [r \in Requests |-> NoRequest]
    /\ op \in [pc : {"none"}, kind : {"upsert"}, existing : {NoRow},
               engine : {CHOOSE e \in Engines : TRUE}, enabled : {FALSE}, activate : {FALSE}]
    /\ beforeDelete = {}

-----------------------------------------------------------------------------
(* Requests *)

\* databaseTarget: the request reads its row before it is authorized.
lookupDatabaseTarget(r, list) ==
    /\ req[r].pc = "idle"
    /\ Registered
    /\ req' = [req EXCEPT ![r] =
            [pc |-> "created", list |-> list, instance |-> row, generation |-> 0]]
    /\ beforeDelete' = beforeDelete \ {r}
    /\ UNCHANGED <<row, authVars, op>>

\* acquireTarget, and the early rejections of RunSQL: no lease while the
\* target is blocked, and a disabled target is refused.  ListDatabases leaves
\* the enabled flag to the service.
acquireTarget(r) ==
    /\ req[r].pc = "created"
    /\ IF ~blocked /\ (req[r].list \/ req[r].instance.enabled)
       THEN req' = [req EXCEPT ![r].pc = "leased", ![r].generation = generation]
       ELSE req' = [req EXCEPT ![r] = NoRequest]
    /\ UNCHANGED <<row, authVars, op, beforeDelete>>

\* Mutant: the lease is trusted as it was acquired.
MayBegin_AtAcquire(r) == TRUE

\* The condition under which BeginDispatch returns true.
MayBegin(r) == ~blocked /\ req[r].generation = generation

BeginDispatch(r) ==
    /\ req[r].pc = "leased"
    /\ MayBegin(r)
    /\ dispatches' = dispatches + 1
    /\ req' = [req EXCEPT ![r].pc = "dispatching"]
    /\ UNCHANGED <<row, generation, blocked, awaited, op, beforeDelete>>

\* The request ends without a dispatch: BeginDispatch was refused, or the
\* limiter, the lane, the audit or the barrier stopped it.
StoppedBeforeDispatch(r) ==
    /\ req[r].pc = "leased"
    /\ req' = [req EXCEPT ![r] = NoRequest]
    /\ UNCHANGED <<row, authVars, op, beforeDelete>>

\* Mutant: the row is re-read and its revision not compared.
currentInstance_AnyRevision(r) == Registered

\* Service.currentInstance: the row must still have the revision the request
\* was decided on.
currentInstance(r) == Registered /\ row.revision = req[r].instance.revision

\* Service.Query, ListDatabases and ExecuteStatements up to the transport;
\* Query runs once for every statement of a script.
Send(r) ==
    /\ req[r].pc \in {"dispatching", "sent"}
    /\ currentInstance(r)
    /\ row.enabled
    /\ req' = [req EXCEPT ![r].pc = "sent"]
    /\ UNCHANGED <<row, authVars, op, beforeDelete>>

\* FinishDispatch, on every way out after BeginDispatch; the last one closes
\* the channel RevokeTarget waits on.
FinishDispatch(r) ==
    /\ req[r].pc \in {"dispatching", "sent"}
    /\ dispatches' = IF dispatches > 0 THEN dispatches - 1 ELSE dispatches
    /\ awaited' = (awaited /\ dispatches' # 0)
    /\ req' = [req EXCEPT ![r] = NoRequest]
    /\ UNCHANGED <<row, generation, blocked, op, beforeDelete>>

-----------------------------------------------------------------------------
(* Control operations, under databaseTargetMu *)

\* RevokeTarget up to its wait.
RevokeTarget ==
    /\ generation < MaxGeneration
    /\ generation' = generation + 1
    /\ blocked' = TRUE
    /\ awaited' = (dispatches # 0)
    /\ UNCHANGED dispatches

Start(kind, engine, enabled, pc) ==
    /\ op.pc = "none"
    /\ op' = [pc |-> pc, kind |-> kind, existing |-> row, engine |-> engine,
              enabled |-> enabled, activate |-> FALSE]
    /\ UNCHANGED <<row, req, beforeDelete>>

\* A target that is not registered yet has nothing to revoke.
upsertDatabaseInstance(engine, enabled) ==
    \/ Registered /\ Start("upsert", engine, enabled, "waiting") /\ RevokeTarget
    \/ /\ ~Registered /\ Start("upsert", engine, enabled, "ready")
       /\ UNCHANGED authVars

setDatabaseInstanceEnabled(enabled) ==
    /\ Registered
    /\ Start("enable", row.engine, enabled, "waiting")
    /\ RevokeTarget

deleteDatabaseInstance ==
    /\ Registered
    /\ Start("delete", row.engine, FALSE, "waiting")
    /\ RevokeTarget

\* <-dispatchDone
RevokeReturns ==
    /\ op.pc = "waiting"
    /\ ~awaited
    /\ op' = [op EXCEPT !.pc = "ready"]
    /\ UNCHANGED <<row, authVars, req, beforeDelete>>

\* The row an operation writes.  The revision of a new row is 1.  Enabling
\* a disabled row this way fails: it needs a verified candidate.
Committed ==
    CASE op.kind = "delete" -> NoRow
      [] op.kind = "upsert" /\ ~Registered ->
            [engine |-> op.engine, enabled |-> op.enabled, revision |-> 1]
      [] OTHER ->
            LET changed == row.engine # op.engine \/ row.enabled # op.enabled
            IN  [engine |-> op.engine, enabled |-> op.enabled,
                 revision |-> row.revision + (IF changed THEN 1 ELSE 0)]

Commit ==
    /\ op.pc = "ready"
    /\ op.kind = "enable" /\ op.enabled => row.enabled
    /\ row' = Committed
    /\ row' # NoRow => row'.revision <= MaxRevision
    /\ op' = [op EXCEPT !.pc = "ending",
                        !.activate = op.kind # "delete" /\ op.enabled]
    /\ beforeDelete' = IF op.kind # "delete" THEN beforeDelete
                       ELSE {r \in Requests : req[r].pc # "idle"}
    /\ UNCHANGED <<authVars, req>>

\* Mutant: a failed operation leaves the target as RevokeTarget left it.
Reopen_Never == FALSE

\* The deferred activation of a failed operation, for the row it found.
Reopen == op.existing # NoRow /\ op.existing.enabled

\* The candidate is rejected, or the row cannot be written.
Fail ==
    /\ op.pc = "ready"
    /\ op' = [op EXCEPT !.pc = "ending", !.activate = Reopen]
    /\ UNCHANGED <<row, authVars, req, beforeDelete>>

\* ActivateTarget where the operation calls it, and its return.
OperationReturns ==
    /\ op.pc = "ending"
    /\ blocked' = (blocked /\ ~op.activate)
    /\ op' = [op EXCEPT !.pc = "none", !.kind = "upsert", !.existing = NoRow,
                        !.engine = CHOOSE e \in Engines : TRUE,
                        !.enabled = FALSE, !.activate = FALSE]
    /\ UNCHANGED <<row, generation, dispatches, awaited, req, beforeDelete>>

-----------------------------------------------------------------------------
RequestStep(r) ==
    \/ \E list \in BOOLEAN : lookupDatabaseTarget(r, list)
    \/ acquireTarget(r)
    \/ BeginDispatch(r)
    \/ StoppedBeforeDispatch(r)
    \/ Send(r)
    \/ FinishDispatch(r)

ControlStep ==
    \/ \E engine \in Engines, enabled \in BOOLEAN : upsertDatabaseInstance(engine, enabled)
    \/ \E enabled \in BOOLEAN : setDatabaseInstanceEnabled(enabled)
    \/ deleteDatabaseInstance
    \/ RevokeReturns
    \/ Commit
    \/ Fail
    \/ OperationReturns

Next == (\E r \in Requests : RequestStep(r)) \/ ControlStep

Spec == Init /\ [][Next]_vars

-----------------------------------------------------------------------------
(* Properties *)

\* "A dispatch that has started ends before the revocation returns, and an old
\* handle does not dispatch after it": while an operation that revoked the
\* target validates, writes the row and decides on activation, no request
\* holds the right to dispatch.
QuietWhileRevoked ==
    op.pc \in {"ready", "ending"} /\ op.existing # NoRow => Dispatching = {}

\* What reaches the transport was decided on the row as it is now: the target
\* is enabled and at the revision the request read, and so its configuration
\* is the same, unless the target was deleted and registered anew meanwhile,
\* which starts the revisions over.
SentIsCurrent ==
    \A r \in Requests : req[r].pc = "sent" =>
        /\ Registered
        /\ row.enabled
        /\ row.revision = req[r].instance.revision
        /\ r \notin beforeDelete => row.engine = req[r].instance.engine

\* No failure of a control operation, and no order of operations, leaves an
\* enabled target blocked once the operation has returned.
EnabledIsUsable == op.pc = "none" /\ Registered /\ row.enabled => ~blocked

=============================================================================
