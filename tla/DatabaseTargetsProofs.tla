----------------------- MODULE DatabaseTargetsProofs -----------------------
(***************************************************************************)
(* Proofs about DatabaseTargets for any number of requests and engines and *)
(* any bounds.                                                             *)
(*                                                                         *)
(* The three properties rest on one argument: the row changes only in      *)
(* Commit, and nobody holds the right to dispatch then.  An operation that *)
(* found a row has revoked and drained it (OperationIsAlone); one that     *)
(* found none meets no dispatch, because a deleted target stays blocked    *)
(* (AbsentIsQuiet).  That RevokeTarget's wait drains anything needs the    *)
(* counter to be the number of dispatches (CountIsDispatching).            *)
(* ReadIsPast relates the row a request read to the one there is now, and  *)
(* EndReopens carries EnabledIsUsable over the deferred activation.        *)
(***************************************************************************)
EXTENDS DatabaseTargets, FiniteSetTheorems, TLAPS

CountIsDispatching == dispatches = Cardinality(Dispatching)

\* The control operation holds databaseTargetMu: until it commits, the row is
\* the one it found; if it found one, the target is blocked and, once the
\* channel it waits on is closed, drained.
OperationIsAlone ==
    /\ op.pc \in {"waiting", "ready"} => row = op.existing
    /\ op.pc = "waiting" => op.existing # NoRow /\ (~awaited => dispatches = 0)
    /\ op.pc # "none" /\ op.existing # NoRow => blocked
    /\ op.pc \in {"ready", "ending"} /\ op.existing # NoRow => dispatches = 0
    /\ op.existing = NoRow => op.kind = "upsert"

\* A target that is not registered is blocked since it was deleted, or was
\* never there.
AbsentIsQuiet ==
    ~Registered =>
        /\ dispatches = 0
        /\ blocked \/ \A r \in Requests : req[r].pc = "idle"

\* A request that outlived no deletion read the present row or an earlier one.
ReadIsPast ==
    \A r \in Requests : req[r].pc # "idle" =>
        /\ req[r].instance # NoRow
        /\ r \notin beforeDelete =>
            /\ Registered
            /\ req[r].instance.revision <= row.revision
            /\ req[r].instance.revision = row.revision
                => req[r].instance.engine = row.engine

\* An operation that ends with an enabled row activates it, and one that ends
\* without a row activates nothing.
EndReopens ==
    op.pc = "ending" =>
        /\ Registered /\ row.enabled => op.activate \/ ~blocked
        /\ ~Registered => ~op.activate

IInv ==
    /\ TypeOK
    /\ CountIsDispatching
    /\ OperationIsAlone
    /\ AbsentIsQuiet
    /\ ReadIsPast
    /\ EndReopens
    /\ SentIsCurrent
    /\ EnabledIsUsable

-----------------------------------------------------------------------------
(* The counter *)

\* The requests past BeginDispatch are finitely many, so that they can be
\* counted.
LEMMA DispatchingFinite == IsFiniteSet(Dispatching) /\ Cardinality(Dispatching) \in Nat
  <1>1. Dispatching \in SUBSET Requests
    BY DEF Dispatching
  <1>2. IsFiniteSet(Dispatching)
    BY <1>1, RequestsFinite, FS_Subset
  <1> QED BY <1>2, FS_CardinalityType

\* dispatches, read as a count, is zero exactly when nobody dispatches.
LEMMA CountZero == CountIsDispatching => (dispatches = 0 <=> Dispatching = {})
  BY DispatchingFinite, FS_EmptySet DEF CountIsDispatching

\* A request that dispatches is counted.
LEMMA DispatchingIsCounted ==
  ASSUME IInv, NEW r \in Requests, req[r].pc \in {"dispatching", "sent"}
  PROVE  dispatches # 0 /\ dispatches > 0
  <1>1. r \in Dispatching
    BY DEF Dispatching
  <1> QED BY <1>1, CountZero DEF IInv, TypeOK

\* A step that changes neither the counter nor who dispatches.
LEMMA SameCount ==
  ASSUME IInv, dispatches' = dispatches, Dispatching' = Dispatching
  PROVE  CountIsDispatching'
  BY DEF IInv, CountIsDispatching

\* Nobody begins a dispatch while an operation that revoked the target is
\* under way, nor on a target that is not registered.
LEMMA OpenTarget ==
  ASSUME IInv, NEW r \in Requests, req[r].pc # "idle", ~blocked
  PROVE  Registered /\ (op.pc # "none" => op.existing = NoRow /\ op.pc = "ending")
  BY DEF IInv, TypeOK, Operation, OperationIsAlone, AbsentIsQuiet, Registered

-----------------------------------------------------------------------------
(* The inductive invariant, one action at a time *)

\* The authorizer starts fresh, on any row, with no operation under way.
LEMMA InitIInv == Init => IInv
  <1> SUFFICES ASSUME Init PROVE IInv
    OBVIOUS
  <1> USE DEF Init, NoRequest
  <1>1. TypeOK
    <2>1. row \in Rows
      BY DEF Rows, Row
    <2>2. NoRequest \in Request
      BY DEF Request, Rows
    <2>3. req \in [Requests -> Request]
      BY <2>2
    <2>4. (CHOOSE e \in Engines : TRUE) \in Engines
      BY EnginesNonEmpty
    <2>5. op \in Operation
      BY <2>4 DEF Operation, Rows
    <2> QED BY <2>1, <2>3, <2>5 DEF TypeOK
  <1>2. CountIsDispatching
    <2>1. Dispatching = {}
      BY DEF Dispatching
    <2> QED BY <2>1, FS_EmptySet DEF CountIsDispatching
  <1>3. OperationIsAlone /\ EndReopens /\ EnabledIsUsable
    BY DEF OperationIsAlone, EndReopens, EnabledIsUsable
  <1>4. AbsentIsQuiet /\ ReadIsPast /\ SentIsCurrent
    BY DEF AbsentIsQuiet, ReadIsPast, SentIsCurrent
  <1> QED BY <1>1, <1>2, <1>3, <1>4 DEF IInv

\* The request reads its row: from now on no deletion lies behind it.
LEMMA LookupIInv ==
  ASSUME IInv, NEW r \in Requests, NEW list \in BOOLEAN, lookupDatabaseTarget(r, list)
  PROVE  IInv'
  <1> USE DEF lookupDatabaseTarget, authVars, Registered
  <1>1. TypeOK'
    BY DEF IInv, TypeOK, Rows, Request
  <1>2. CountIsDispatching'
    <2>1. Dispatching' = Dispatching
      BY DEF IInv, TypeOK, Dispatching
    <2> QED BY <2>1, SameCount
  <1>3. OperationIsAlone' /\ EndReopens' /\ EnabledIsUsable'
    BY DEF IInv, OperationIsAlone, EndReopens, EnabledIsUsable
  <1>4. AbsentIsQuiet'
    BY DEF IInv, AbsentIsQuiet
  <1>5. ReadIsPast'
    BY NoRowAssumption DEF IInv, TypeOK, Rows, Row, Request, ReadIsPast
  <1>6. SentIsCurrent'
    BY DEF IInv, TypeOK, Request, SentIsCurrent
  <1> QED BY <1>1, <1>2, <1>3, <1>4, <1>5, <1>6 DEF IInv

\* A request that acquires a lease, is refused one, or is stopped before it
\* dispatches.
LEMMA NotYetDispatchingIInv ==
  ASSUME IInv, NEW r \in Requests, acquireTarget(r) \/ StoppedBeforeDispatch(r)
  PROVE  IInv'
  <1> USE DEF acquireTarget, StoppedBeforeDispatch, authVars, Registered, NoRequest
  <1>0. PICK q \in Request :
            /\ q = NoRequest \/ (q.pc = "leased" /\ q.instance = req[r].instance)
            /\ req' = [req EXCEPT ![r] = q]
    <2>1. NoRequest \in Request
      BY DEF Request, Rows
    <2>2. [req[r] EXCEPT !.pc = "leased", !.generation = generation] \in Request
      BY DEF IInv, TypeOK, Request
    <2> QED BY <2>1, <2>2 DEF IInv, TypeOK, Request
  <1>1. TypeOK'
    BY <1>0 DEF IInv, TypeOK
  <1>2. CountIsDispatching'
    <2>1. Dispatching' = Dispatching
      BY <1>0 DEF IInv, TypeOK, Dispatching
    <2> QED BY <2>1, SameCount
  <1>3. OperationIsAlone' /\ EndReopens' /\ EnabledIsUsable'
    BY DEF IInv, OperationIsAlone, EndReopens, EnabledIsUsable
  <1>4. AbsentIsQuiet'
    BY DEF IInv, TypeOK, AbsentIsQuiet
  <1>5. ReadIsPast'
    BY DEF IInv, TypeOK, Request, ReadIsPast
  <1>6. SentIsCurrent'
    BY DEF IInv, TypeOK, Request, SentIsCurrent
  <1> QED BY <1>1, <1>2, <1>3, <1>4, <1>5, <1>6 DEF IInv

\* A dispatch begins only on a registered target that no operation holds.
LEMMA BeginIInv ==
  ASSUME IInv, NEW r \in Requests, BeginDispatch(r)
  PROVE  IInv'
  <1> USE DEF BeginDispatch, MayBegin
  <1>0. Registered /\ (op.pc # "none" => op.existing = NoRow /\ op.pc = "ending")
    BY OpenTarget
  <1>1. TypeOK'
    BY DEF IInv, TypeOK, Request
  <1>2. CountIsDispatching'
    <2>1. Dispatching' = Dispatching \cup {r} /\ r \notin Dispatching
      BY DEF IInv, TypeOK, Dispatching
    <2>2. Cardinality(Dispatching') = Cardinality(Dispatching) + 1
      BY <2>1, DispatchingFinite, FS_AddElement
    <2> QED BY <2>2 DEF IInv, CountIsDispatching
  <1>3. OperationIsAlone' /\ EndReopens' /\ EnabledIsUsable'
    BY <1>0 DEF IInv, OperationIsAlone, EndReopens, EnabledIsUsable, Registered
  <1>4. AbsentIsQuiet'
    BY <1>0 DEF AbsentIsQuiet, Registered
  <1>5. ReadIsPast'
    BY DEF IInv, TypeOK, Request, ReadIsPast, Registered
  <1>6. SentIsCurrent'
    BY DEF IInv, TypeOK, Request, SentIsCurrent, Registered
  <1> QED BY <1>1, <1>2, <1>3, <1>4, <1>5, <1>6 DEF IInv

\* What is sent has the revision of the row, and so its configuration.
LEMMA SendIInv ==
  ASSUME IInv, NEW r \in Requests, Send(r)
  PROVE  IInv'
  <1> USE DEF Send, currentInstance, authVars, Registered
  <1>1. TypeOK'
    BY DEF IInv, TypeOK, Request
  <1>2. CountIsDispatching'
    <2>1. Dispatching' = Dispatching
      BY DEF IInv, TypeOK, Dispatching
    <2> QED BY <2>1, SameCount
  <1>3. OperationIsAlone' /\ EndReopens' /\ EnabledIsUsable'
    BY DEF IInv, OperationIsAlone, EndReopens, EnabledIsUsable
  <1>4. AbsentIsQuiet'
    BY DEF IInv, AbsentIsQuiet
  <1>5. ReadIsPast'
    BY DEF IInv, TypeOK, Request, ReadIsPast
  <1>6. SentIsCurrent'
    BY DEF IInv, TypeOK, Request, SentIsCurrent, ReadIsPast
  <1> QED BY <1>1, <1>2, <1>3, <1>4, <1>5, <1>6 DEF IInv

\* The last dispatch to finish closes the channel RevokeTarget waits on.
LEMMA FinishIInv ==
  ASSUME IInv, NEW r \in Requests, FinishDispatch(r)
  PROVE  IInv'
  <1> USE DEF FinishDispatch, Registered, NoRequest
  <1>0. dispatches # 0 /\ dispatches > 0 /\ dispatches' = dispatches - 1
    BY DispatchingIsCounted
  <1>1. TypeOK'
    BY <1>0 DEF IInv, TypeOK, Rows, Request
  <1>2. CountIsDispatching'
    <2>1. Dispatching' = Dispatching \ {r} /\ r \in Dispatching
      BY DEF IInv, TypeOK, Dispatching
    <2>2. Cardinality(Dispatching') = Cardinality(Dispatching) - 1
      BY <2>1, DispatchingFinite, FS_RemoveElement
    <2> QED BY <1>0, <2>2 DEF IInv, CountIsDispatching
  <1>3. OperationIsAlone' /\ EndReopens' /\ EnabledIsUsable'
    BY <1>0 DEF IInv, TypeOK, OperationIsAlone, EndReopens, EnabledIsUsable
  <1>4. AbsentIsQuiet'
    BY <1>0 DEF IInv, TypeOK, AbsentIsQuiet
  <1>5. ReadIsPast'
    BY DEF IInv, TypeOK, Request, ReadIsPast
  <1>6. SentIsCurrent'
    BY DEF IInv, TypeOK, Request, SentIsCurrent
  <1> QED BY <1>1, <1>2, <1>3, <1>4, <1>5, <1>6 DEF IInv

\* An operation starts: it revokes the target if it is registered.
LEMMA StartIInv ==
  ASSUME IInv,
         NEW kind \in {"upsert", "enable", "delete"}, NEW engine \in Engines,
         NEW enabled \in BOOLEAN, NEW pc \in {"waiting", "ready"},
         Start(kind, engine, enabled, pc),
         \/ Registered /\ pc = "waiting" /\ RevokeTarget
         \/ ~Registered /\ pc = "ready" /\ kind = "upsert" /\ UNCHANGED authVars
  PROVE  IInv'
  <1> USE DEF Start, RevokeTarget, authVars, Registered
  <1>1. TypeOK'
    <2>1. op' \in Operation
      BY DEF IInv, TypeOK, Operation
    <2>2. generation' \in Nat /\ dispatches' \in Nat
      BY DEF IInv, TypeOK
    <2>3. blocked' \in BOOLEAN /\ awaited' \in BOOLEAN
      BY DEF IInv, TypeOK
    <2> QED BY <2>1, <2>2, <2>3 DEF IInv, TypeOK
  <1>2. CountIsDispatching'
    <2>1. Dispatching' = Dispatching
      BY DEF Dispatching
    <2> QED BY <2>1, SameCount
  <1>3. OperationIsAlone' /\ EndReopens' /\ EnabledIsUsable'
    BY DEF IInv, TypeOK, OperationIsAlone, EndReopens, EnabledIsUsable
  <1>4. AbsentIsQuiet' /\ ReadIsPast' /\ SentIsCurrent'
    BY DEF IInv, AbsentIsQuiet, ReadIsPast, SentIsCurrent
  <1> QED BY <1>1, <1>2, <1>3, <1>4 DEF IInv

\* RevokeTarget returns once its channel is closed: nobody dispatches.
LEMMA RevokeReturnsIInv ==
  ASSUME IInv, RevokeReturns
  PROVE  IInv'
  <1> USE DEF RevokeReturns, authVars, Registered
  <1>1. TypeOK'
    BY DEF IInv, TypeOK, Operation
  <1>2. CountIsDispatching'
    <2>1. Dispatching' = Dispatching
      BY DEF Dispatching
    <2> QED BY <2>1, SameCount
  <1>3. OperationIsAlone' /\ EndReopens' /\ EnabledIsUsable'
    BY DEF IInv, TypeOK, Operation, OperationIsAlone, EndReopens, EnabledIsUsable
  <1>4. AbsentIsQuiet' /\ ReadIsPast' /\ SentIsCurrent'
    BY DEF IInv, AbsentIsQuiet, ReadIsPast, SentIsCurrent
  <1> QED BY <1>1, <1>2, <1>3, <1>4 DEF IInv

\* The row an operation writes: a row unless it deletes, and one whose
\* revision moves with its engine.
LEMMA CommittedRow ==
  ASSUME IInv, op.pc = "ready"
  PROVE  /\ Committed \in Rows
         /\ Committed = NoRow <=> op.kind = "delete"
         /\ op.kind # "delete" => Committed.enabled = op.enabled
         /\ op.kind # "delete" /\ Registered =>
                /\ row.revision <= Committed.revision
                /\ row.revision = Committed.revision => Committed.engine = row.engine
  <1>1. /\ row \in Rows
        /\ op.kind \in {"upsert", "enable", "delete"} /\ op.engine \in Engines
        /\ op.enabled \in BOOLEAN
    BY DEF IInv, TypeOK, Operation
  <1>2. CASE op.kind = "delete"
    BY <1>2 DEF Committed, Rows
  <1>3. CASE op.kind # "delete" /\ ~Registered
    <2>1. op.kind = "upsert"
      BY <1>3 DEF IInv, OperationIsAlone, Registered
    <2>2. Committed = [engine |-> op.engine, enabled |-> op.enabled, revision |-> 1]
      BY <2>1, <1>3 DEF Committed
    <2>3. Committed \in Row
      BY <2>2, <1>1 DEF Row
    <2> QED BY <2>2, <2>3, <1>3, NoRowAssumption DEF Rows
  <1>4. CASE op.kind # "delete" /\ Registered
    <2> DEFINE changed == row.engine # op.engine \/ row.enabled # op.enabled
    <2>1. Committed = [engine |-> op.engine, enabled |-> op.enabled,
                       revision |-> row.revision + (IF changed THEN 1 ELSE 0)]
      BY <1>4 DEF Committed
    <2>2. row \in Row
      BY <1>1, <1>4 DEF Rows, Registered
    <2>3. row.revision \in Nat \ {0}
      BY <2>2 DEF Row
    <2>4. Committed \in Row
      BY <2>1, <2>3, <1>1 DEF Row
    <2> QED BY <2>1, <2>3, <2>4, <1>4, NoRowAssumption DEF Rows
  <1> QED BY <1>2, <1>3, <1>4

\* The row is written while nobody dispatches.
LEMMA CommitIInv ==
  ASSUME IInv, Commit
  PROVE  IInv'
  <1> USE DEF Commit, authVars
  <1>0. dispatches = 0 /\ Dispatching = {}
    BY CountZero DEF IInv, OperationIsAlone, AbsentIsQuiet, Registered
  <1>1. TypeOK'
    BY CommittedRow DEF IInv, TypeOK, Operation
  <1>2. CountIsDispatching'
    <2>1. Dispatching' = Dispatching
      BY DEF Dispatching
    <2> QED BY <2>1, SameCount
  <1>3. OperationIsAlone'
    BY DEF IInv, TypeOK, Operation, OperationIsAlone
  <1>4. AbsentIsQuiet'
    BY <1>0, CommittedRow DEF IInv, OperationIsAlone, AbsentIsQuiet, Registered
  <1>5. ReadIsPast'
    <2> SUFFICES ASSUME NEW r \in Requests, req[r].pc # "idle"
                 PROVE  /\ req[r].instance # NoRow
                        /\ r \notin beforeDelete' =>
                            /\ row' # NoRow
                            /\ req[r].instance.revision <= row'.revision
                            /\ req[r].instance.revision = row'.revision
                                => req[r].instance.engine = row'.engine
      BY DEF ReadIsPast, Registered
    <2>1. req[r].instance # NoRow
      BY DEF IInv, ReadIsPast
    <2>2. ASSUME r \notin beforeDelete'
          PROVE  /\ op.kind # "delete"
                 /\ Registered
                 /\ req[r].instance.revision <= row.revision
                 /\ req[r].instance.revision = row.revision
                        => req[r].instance.engine = row.engine
      BY <2>2 DEF IInv, ReadIsPast
    <2>3. req[r].instance \in Row
      BY <2>1 DEF IInv, TypeOK, Request, Rows
    <2>4. ASSUME r \notin beforeDelete'
          PROVE  row \in Row /\ row' \in Row
      BY <2>2, <2>4, CommittedRow DEF IInv, TypeOK, Registered, Rows
    <2> QED BY <2>1, <2>2, <2>3, <2>4, CommittedRow DEF Row
  <1>6. EndReopens' /\ EnabledIsUsable'
    BY CommittedRow DEF IInv, TypeOK, Operation, EndReopens, EnabledIsUsable, Registered
  <1>7. SentIsCurrent'
    BY <1>0 DEF SentIsCurrent, Dispatching
  <1> QED BY <1>1, <1>2, <1>3, <1>4, <1>5, <1>6, <1>7 DEF IInv

\* A failed operation leaves the row it found, and reopens it if it was open.
LEMMA FailIInv ==
  ASSUME IInv, Fail
  PROVE  IInv'
  <1> USE DEF Fail, Reopen, authVars, Registered
  <1>1. TypeOK'
    BY DEF IInv, TypeOK, Operation, Rows, Row
  <1>2. CountIsDispatching'
    <2>1. Dispatching' = Dispatching
      BY DEF Dispatching
    <2> QED BY <2>1, SameCount
  <1>3. OperationIsAlone' /\ EndReopens' /\ EnabledIsUsable'
    BY DEF IInv, TypeOK, Operation, OperationIsAlone, EndReopens, EnabledIsUsable
  <1>4. AbsentIsQuiet' /\ ReadIsPast' /\ SentIsCurrent'
    BY DEF IInv, AbsentIsQuiet, ReadIsPast, SentIsCurrent
  <1> QED BY <1>1, <1>2, <1>3, <1>4 DEF IInv

\* The deferred activation unblocks an enabled target and never an absent one.
LEMMA OperationReturnsIInv ==
  ASSUME IInv, OperationReturns
  PROVE  IInv'
  <1> USE DEF OperationReturns, Registered
  <1>1. TypeOK'
    BY EnginesNonEmpty DEF IInv, TypeOK, Operation, Rows
  <1>2. CountIsDispatching'
    <2>1. Dispatching' = Dispatching
      BY DEF Dispatching
    <2> QED BY <2>1, SameCount
  <1>3. OperationIsAlone' /\ EndReopens' /\ EnabledIsUsable'
    BY DEF IInv, TypeOK, Operation, OperationIsAlone, EndReopens, EnabledIsUsable
  <1>4. AbsentIsQuiet'
    BY DEF IInv, AbsentIsQuiet, EndReopens
  <1>5. ReadIsPast' /\ SentIsCurrent'
    BY DEF IInv, ReadIsPast, SentIsCurrent
  <1> QED BY <1>1, <1>2, <1>3, <1>4, <1>5 DEF IInv

\* Every step keeps the invariant.
LEMMA NextIInv == IInv /\ [Next]_vars => IInv'
  <1> SUFFICES ASSUME IInv, [Next]_vars PROVE IInv'
    OBVIOUS
  <1>1. ASSUME NEW r \in Requests, RequestStep(r) PROVE IInv'
    BY <1>1, LookupIInv, NotYetDispatchingIInv, BeginIInv, SendIInv, FinishIInv
       DEF RequestStep
  <1>2. ASSUME NEW engine \in Engines, NEW enabled \in BOOLEAN,
               upsertDatabaseInstance(engine, enabled)
        PROVE  IInv'
    BY <1>2, StartIInv DEF upsertDatabaseInstance
  <1>3. ASSUME NEW enabled \in BOOLEAN,
               setDatabaseInstanceEnabled(enabled) \/ deleteDatabaseInstance
        PROVE  IInv'
    <2>1. Registered /\ row.engine \in Engines
      BY <1>3 DEF IInv, TypeOK, Rows, Row, Registered,
                  setDatabaseInstanceEnabled, deleteDatabaseInstance
    <2> QED BY <1>3, <2>1, StartIInv DEF setDatabaseInstanceEnabled, deleteDatabaseInstance
  <1>4. CASE ControlStep
    BY <1>4, <1>2, <1>3, RevokeReturnsIInv, CommitIInv, FailIInv, OperationReturnsIInv
       DEF ControlStep
  <1>5. CASE UNCHANGED vars
    <2> USE <1>5 DEF vars, Registered
    <2>1. TypeOK' /\ CountIsDispatching'
      BY DEF IInv, TypeOK, CountIsDispatching, Dispatching
    <2>2. OperationIsAlone' /\ AbsentIsQuiet' /\ ReadIsPast'
      BY DEF IInv, OperationIsAlone, AbsentIsQuiet, ReadIsPast
    <2>3. EndReopens' /\ SentIsCurrent' /\ EnabledIsUsable'
      BY DEF IInv, EndReopens, SentIsCurrent, EnabledIsUsable
    <2> QED BY <2>1, <2>2, <2>3 DEF IInv
  <1> QED BY <1>1, <1>4, <1>5 DEF Next

LEMMA IInvAlways == Spec => []IInv
  BY InitIInv, NextIInv, PTL DEF Spec

-----------------------------------------------------------------------------
(* Theorems *)

\* Every variable keeps its type, whatever requests and operations do.
THEOREM TypeCorrect == Spec => []TypeOK
  <1>1. IInv => TypeOK
    BY DEF IInv
  <1> QED BY <1>1, IInvAlways, PTL

\* From the return of RevokeTarget until the operation ends, no request holds
\* the right to dispatch on the target.
THEOREM RevocationDrains == Spec => []QuietWhileRevoked
  <1>1. IInv => QuietWhileRevoked
    BY CountZero DEF IInv, OperationIsAlone, QuietWhileRevoked
  <1> QED BY <1>1, IInvAlways, PTL

\* What reaches the transport was decided on the row as it is.
THEOREM DispatchIsCurrent == Spec => []SentIsCurrent
  <1>1. IInv => SentIsCurrent
    BY DEF IInv
  <1> QED BY <1>1, IInvAlways, PTL

\* No operation, failed or not, leaves an enabled target blocked.
THEOREM EnabledIsOpen == Spec => []EnabledIsUsable
  <1>1. IInv => EnabledIsUsable
    BY DEF IInv
  <1> QED BY <1>1, IInvAlways, PTL

=============================================================================
