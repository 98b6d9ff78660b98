------------------------------- MODULE Engine -------------------------------
(***************************************************************************)
(* How a remote operation goes through internal/runner/runner.go: review,  *)
(* the limiter of internal/policy/policy.go, the target's lane, the audit  *)
(* of the start, the dispatch barrier, the remote work, the terminal audit *)
(* and the return of everything it holds by defer.                         *)
(*                                                                         *)
(* Lanes are used here as module TargetLanes shows them to behave: a queue *)
(* in arrival order, one write or a run of reads.  Go hands a slot of a    *)
(* full channel to the sender that has waited longest, so the limiter is a *)
(* queue as well.  The barrier is its flag.  The remote side, the review   *)
(* and the audit log answer in every way they can.                         *)
(***************************************************************************)
EXTENDS Integers, Sequences, FiniteSets

CONSTANTS
    Requests,       \* goroutines of tool calls
    Targets,
    Offered,        \* the operations clients ask for, out of Kinds
    Concurrencies   \* the capacities Limiter.lane may be made with

VARIABLES
    req,            \* each request: where it is and what it reports
    slots,          \* requests that hold a slot of the limiter
    slotQueue,      \* requests blocked in Limiter.Acquire
    lane,           \* for each lane key, its holders and its queue
    sealed,         \* DispatchBarrier.locked
    limit           \* cap(Limiter.lane), set by NewLimiter

vars == <<req, slots, slotQueue, lane, sealed, limit>>

-----------------------------------------------------------------------------
\* RunSSH and ExecuteSSHSession, ReadSSHFile, DeploySSHBinary, ListDatabases,
\* and RunSQL for a read and for anything else.
SSHKinds == {"ssh", "file", "deploy"}
Kinds == SSHKinds \cup {"list", "query", "script"}

ASSUME RequestsAssumption == IsFiniteSet(Requests)
ASSUME TargetsAssumption == Targets # {}
ASSUME OfferedAssumption == Offered \subseteq Kinds
ASSUME ConcurrenciesAssumption == Concurrencies \subseteq Nat \ {0}

Protocols == {"ssh", "sql"}
LaneKeys == Protocols \X Targets
LaneKey(k, t) == <<IF k \in SSHKinds THEN "ssh" ELSE "sql", t>>

\* With which an operation ends that was never handed to the transport.
Refusals == {"rejected", "unlock_required", "interactive_input_required"}
Statuses == Refusals \cup {"not_dispatched", "outcome_unknown", "failed", "completed"}

\* "asking": runs towards its next resource, or has both and has not audited
\* its start; "slot" and "lane": blocked; "returning": the deferred calls.
\* started: the start was audited, "ok", "failed" or not at all.
\* event: the status of the last decision or terminal event in the log.
\* result: its status, the flag RemoteExecuted, and AuditOutcome; "error": the
\* Go error returned without a result.
Request == [pc : {"idle", "asking", "slot", "lane", "started", "remote", "returning"},
            kind : Kinds, target : Targets, cancelled : BOOLEAN,
            started : {"none", "ok", "failed"},
            event : Statuses \cup {"none"},
            status : Statuses \cup {"none", "error"},
            remote : BOOLEAN, recorded : BOOLEAN]

Lane == [holders : SUBSET Requests, queue : Seq(Requests)]

\* The types, and that the limiter is never over its capacity: a slot that is
\* handed on, given up or returned is counted once.
TypeOK ==
    /\ req \in [Requests -> Request]
    /\ slots \in SUBSET Requests
    /\ Cardinality(slots) <= limit
    /\ slotQueue \in Seq(Requests)
    /\ lane \in [LaneKeys -> Lane]
    /\ sealed \in BOOLEAN
    /\ limit \in Concurrencies

Idle == [pc |-> "idle", kind |-> "ssh", target |-> CHOOSE t \in Targets : TRUE,
         cancelled |-> FALSE, started |-> "none", event |-> "none",
         status |-> "none", remote |-> FALSE, recorded |-> FALSE]

Init ==
    /\ req = [r \in Requests |-> Idle]
    /\ slots = {}
    /\ slotQueue = <<>>
    /\ lane = [l \in LaneKeys |-> [holders |-> {}, queue |-> <<>>]]
    /\ sealed = FALSE
    /\ limit \in Concurrencies

-----------------------------------------------------------------------------
(* The limiter and the lanes *)

LaneOf(r) == LaneKey(req[r].kind, req[r].target)
HasSlot(r) == r \in slots
HasLane(r) == r \in lane[LaneOf(r)].holders
Ready(r) == HasSlot(r) /\ HasLane(r)

\* Mutant: every statement is taken for a read.
Writes_Never(r) == req[r].kind = "deploy"

\* Deployments and SQL that is not a plain read take the lane for writing.
Writes(r) == req[r].kind \in {"deploy", "script"}

\* RunSQL takes the lane of a script before it calls executeSQLScript.
LaneFirst(r) == req[r].kind = "script"

SlotFree == Cardinality(slots) < limit

\* TargetLanes.acquire admits at once: nobody waits, and no conflict.
Immediate(r) ==
    LET L == lane[LaneOf(r)]
    IN  /\ L.queue = <<>>
        /\ L.holders = {} \/ (~Writes(r) /\ \A h \in L.holders : ~Writes(h))

\* The positions grantLocked admits from the queue of a lane that is free: the
\* first, and as many after it as are reads from the first on.
Turns(L) ==
    {i \in DOMAIN L.queue :
        L.holders = {} /\ (i = 1 \/ \A j \in 1..i : ~Writes(L.queue[j]))}

Admitted(L) == {L.queue[i] : i \in Turns(L)}

Granted(L) ==
    [holders |-> L.holders \cup Admitted(L),
     queue   |-> SubSeq(L.queue, Cardinality(Turns(L)) + 1, Len(L.queue))]

\* A queue, in which nobody is twice, when r has left it.
Without(q, r) ==
    IF \E i \in DOMAIN q : q[i] = r
    THEN LET k == CHOOSE i \in DOMAIN q : q[i] = r
         IN  [i \in 1..(Len(q) - 1) |-> IF i < k THEN q[i] ELSE q[i + 1]]
    ELSE q

\* The requests in S, which were blocked, run again.
Awake(S) == [r \in Requests |-> IF r \in S THEN [req[r] EXCEPT !.pc = "asking"] ELSE req[r]]

-----------------------------------------------------------------------------
(* Review and acquisition *)

Start(r, k, t) ==
    /\ req[r].pc = "idle"
    /\ req' = [req EXCEPT ![r] = [Idle EXCEPT !.pc = "asking", !.kind = k, !.target = t]]
    /\ UNCHANGED <<slots, slotQueue, lane, sealed, limit>>

\* The client closes its connection, which cancels the request's context.
\* Once the result is made nothing looks at the context.
Cancel(r) ==
    /\ req[r].pc \notin {"idle", "returning"} /\ ~req[r].cancelled
    /\ req' = [req EXCEPT ![r].cancelled = TRUE]
    /\ UNCHANGED <<slots, slotQueue, lane, sealed, limit>>

\* The request ends with this status; its event is in the log when ok, and then
\* AuditOutcome says recorded.
Ended(r, status, event, remote, ok) ==
    [req[r] EXCEPT !.pc = "returning", !.status = status, !.remote = remote,
                   !.event = IF ok THEN event ELSE @, !.recorded = ok]

\* Before it waits for anything.
Reviewed(r) == req[r].pc = "asking" /\ ~HasSlot(r) /\ ~HasLane(r)

\* How the review may refuse a kind: ListDatabases only looks at the vault.
Refusing(k) ==
    CASE k = "list" -> {"unlock_required"}
      [] k = "ssh"  -> Refusals
      [] OTHER      -> Refusals \ {"interactive_input_required"}

\* Refused by the policy, for an unavailable target or for a locked vault.
\* The decision is audited under the request's context.  File operations log
\* each refusal as rejected.
Rejected(r) ==
    /\ Reviewed(r)
    /\ \E status \in Refusing(req[r].kind), ok \in BOOLEAN :
          /\ ok => ~req[r].cancelled
          /\ LET event == IF req[r].kind \in {"file", "deploy"} THEN "rejected" ELSE status
             IN  req' = [req EXCEPT ![r] = Ended(r, status, event, FALSE, ok)]
    /\ UNCHANGED <<slots, slotQueue, lane, sealed, limit>>

\* A Go error: the target is not registered or the store fails; and a script
\* whose lane is not to be had because its context has ended.
Errors(r) ==
    /\ Reviewed(r) \/ (LaneFirst(r) /\ req[r].pc = "asking" /\ ~HasSlot(r) /\ req[r].cancelled)
    /\ req' = [req EXCEPT ![r].pc = "returning", ![r].status = "error"]
    /\ UNCHANGED <<slots, slotQueue, lane, sealed, limit>>

\* The next resource it needs.
NeedsSlot(r) == req[r].pc = "asking" /\ ~HasSlot(r) /\ (LaneFirst(r) => HasLane(r))
NeedsLane(r) == req[r].pc = "asking" /\ ~HasLane(r) /\ (LaneFirst(r) \/ HasSlot(r))

\* The select of Limiter.Acquire may take a free slot for an ended context.
AskSlot(r) ==
    /\ NeedsSlot(r)
    /\ IF SlotFree
       THEN slots' = slots \cup {r} /\ UNCHANGED <<req, slotQueue>>
       ELSE /\ slotQueue' = Append(slotQueue, r)
            /\ req' = [req EXCEPT ![r].pc = "slot"]
            /\ UNCHANGED slots
    /\ UNCHANGED <<lane, sealed, limit>>

AskLane(r) ==
    /\ NeedsLane(r) /\ ~req[r].cancelled
    /\ IF Immediate(r)
       THEN /\ lane' = [lane EXCEPT ![LaneOf(r)].holders = @ \cup {r}]
            /\ UNCHANGED req
       ELSE /\ lane' = [lane EXCEPT ![LaneOf(r)].queue = Append(@, r)]
            /\ req' = [req EXCEPT ![r].pc = "lane"]
    /\ UNCHANGED <<slots, slotQueue, sealed, limit>>

\* The audit of an operation that has crossed review: with a context of its own
\* and a second to write, but under the request's context for file operations.
TerminalAudit(r, ok) == ok /\ req[r].cancelled => req[r].kind \notin {"file", "deploy"}

\* stoppedBeforeDispatchResult and the two functions like it.
Stopped(r, ok) ==
    Ended(r, "not_dispatched",
          IF req[r].kind = "deploy" THEN "rejected" ELSE "not_dispatched", FALSE, ok)

\* Limiter.Acquire returns ctx.Err().
GiveUpSlot(r) ==
    /\ req[r].pc = "slot" \/ NeedsSlot(r)
    /\ req[r].cancelled
    /\ slotQueue' = Without(slotQueue, r)
    /\ \E ok \in BOOLEAN : TerminalAudit(r, ok) /\ req' = [req EXCEPT ![r] = Stopped(r, ok)]
    /\ UNCHANGED <<slots, lane, sealed, limit>>

\* The lane's acquire returns ctx.Err().  ListDatabases waits with its timeout
\* running, the others only until the client leaves; RunSQL returns the error
\* of a script as it is.
GiveUpLane(r) ==
    /\ req[r].pc = "lane" \/ (NeedsLane(r) /\ ~LaneFirst(r))
    /\ req[r].cancelled \/ req[r].kind = "list"
    /\ LET L == [lane[LaneOf(r)] EXCEPT !.queue = Without(@, r)]
       IN  /\ lane' = [lane EXCEPT ![LaneOf(r)] = Granted(L)]
           /\ \E ok \in BOOLEAN :
                 /\ TerminalAudit(r, ok)
                 /\ req' = [Awake(Admitted(L)) EXCEPT ![r] =
                        IF LaneFirst(r) THEN [@ EXCEPT !.pc = "returning", !.status = "error"]
                        ELSE Stopped(r, ok)]
    /\ UNCHANGED <<slots, slotQueue, sealed, limit>>

-----------------------------------------------------------------------------
(* Dispatch *)

\* The start is audited under the execution context, whose end ListDatabases
\* does not look at first; a failure does not stop the operation.
AuditStarted(r) ==
    /\ req[r].pc = "asking" /\ Ready(r)
    /\ req[r].cancelled => req[r].kind = "list"
    /\ \E outcome \in {"ok", "failed"} :
          /\ outcome = "ok" => ~req[r].cancelled
          /\ req' = [req EXCEPT ![r].pc = "started", ![r].started = outcome]
    /\ UNCHANGED <<slots, slotQueue, lane, sealed, limit>>

\* Cancelled, out of time, the barrier sealed, or the session or the target's
\* authorization revoked: not dispatched.
StoppedBeforeDispatch(r) ==
    /\ (req[r].pc = "asking" /\ Ready(r)) \/ req[r].pc = "started"
    /\ \E ok \in BOOLEAN : TerminalAudit(r, ok) /\ req' = [req EXCEPT ![r] = Stopped(r, ok)]
    /\ UNCHANGED <<slots, slotQueue, lane, sealed, limit>>

Dispatch(r) ==
    /\ req[r].pc = "started" /\ ~sealed /\ ~req[r].cancelled
    /\ req' = [req EXCEPT ![r].pc = "remote"]
    /\ UNCHANGED <<slots, slotQueue, lane, sealed, limit>>

\* What the transport may answer, as the status the operation reports: an error
\* from before the remote work began, an error or an answer that leaves the
\* outcome open, a known failure where the protocol tells one, success.
Answers(k) ==
    {"not_dispatched", "outcome_unknown", "completed"}
        \cup (IF k \in {"ssh", "list"} THEN {} ELSE {"failed"})

\* auditFailed || audit(...): once the audit of the start has failed the
\* terminal one is not tried, except that knownSQLFailure always tries.
SkipsTerminal(r, status) ==
    req[r].started = "failed" /\ ~(status = "failed" /\ req[r].kind \in {"query", "script"})

\* Mutant: knownSQLFailure's own audit decides alone.
Recorded_TerminalOnly(r, ok) == ok

\* markAuditFailed: both audits must have succeeded.
Recorded(r, ok) == ok /\ req[r].started = "ok"

RemoteEnds(r) ==
    /\ req[r].pc = "remote"
    /\ \E status \in Answers(req[r].kind), ok \in BOOLEAN :
          /\ TerminalAudit(r, ok)
          /\ SkipsTerminal(r, status) => ~ok
          /\ req' = [req EXCEPT ![r] =
                [Ended(r, status, status, status # "not_dispatched", ok)
                    EXCEPT !.recorded = Recorded(r, ok)]]
    /\ UNCHANGED <<slots, slotQueue, lane, sealed, limit>>

-----------------------------------------------------------------------------
(* The deferred calls, last acquired first *)

\* They do not touch the result, which is not followed further.
Unwinding(r, S) ==
    [Awake(S) EXCEPT ![r] = [Idle EXCEPT !.pc = "returning", !.kind = req[r].kind,
                                         !.target = req[r].target]]

\* Mutant: a slot goes back to the channel and nobody is woken.
NextInLine_None == {}

\* The blocked sender that receives the slot given back.
NextInLine == IF slotQueue = <<>> THEN {} ELSE {Head(slotQueue)}

ReleaseSlot(r) ==
    /\ req[r].pc = "returning" /\ HasSlot(r)
    /\ ~LaneFirst(r) => ~HasLane(r)
    /\ slots' = (slots \ {r}) \cup NextInLine
    /\ slotQueue' = IF NextInLine = {} THEN slotQueue ELSE Tail(slotQueue)
    /\ req' = Unwinding(r, NextInLine)
    /\ UNCHANGED <<lane, sealed, limit>>

ReleaseLane(r) ==
    /\ req[r].pc = "returning" /\ HasLane(r)
    /\ LaneFirst(r) => ~HasSlot(r)
    /\ LET L == [lane[LaneOf(r)] EXCEPT !.holders = @ \ {r}]
       IN  /\ lane' = [lane EXCEPT ![LaneOf(r)] = Granted(L)]
           /\ req' = Unwinding(r, Admitted(L))
    /\ UNCHANGED <<slots, slotQueue, sealed, limit>>

Return(r) ==
    /\ req[r].pc = "returning" /\ ~HasSlot(r) /\ ~HasLane(r)
    /\ req' = [req EXCEPT ![r] = Idle]
    /\ UNCHANGED <<slots, slotQueue, lane, sealed, limit>>

\* LockDispatch, BlockDispatch and UnlockDispatch.
SetSealed ==
    /\ sealed' = ~sealed
    /\ UNCHANGED <<req, slots, slotQueue, lane, limit>>

-----------------------------------------------------------------------------
\* What a request does without its client.
Progress(r) ==
    \/ Rejected(r) \/ Errors(r) \/ AskSlot(r) \/ AskLane(r) \/ GiveUpSlot(r) \/ GiveUpLane(r)
    \/ AuditStarted(r) \/ StoppedBeforeDispatch(r) \/ Dispatch(r) \/ RemoteEnds(r)
    \/ ReleaseSlot(r) \/ ReleaseLane(r) \/ Return(r)

RequestStep(r) ==
    \/ \E k \in Offered, t \in Targets : Start(r, k, t)
    \/ Cancel(r)
    \/ Progress(r)

Next == (\E r \in Requests : RequestStep(r)) \/ SetSealed

Spec == Init /\ [][Next]_vars

\* Goroutines that can run do; remote work ends, for it has a timeout.  A
\* client need not ever disconnect.
Fairness == \A r \in Requests : WF_vars(Progress(r))

FairSpec == Spec /\ Fairness

-----------------------------------------------------------------------------
(* Properties *)

Remote == {r \in Requests : req[r].pc = "remote"}

\* A deployment or a script that is being executed has its target's protocol to
\* itself, through all the ways of waiting, being granted, giving up and
\* unwinding.
WritesAreAlone ==
    \A r, q \in Remote :
        r # q /\ LaneOf(r) = LaneOf(q) => req[r].kind \notin {"deploy", "script"}

\* AuditOutcome tells the truth: a result that says "recorded" has its event in
\* the log, agreeing on whether something was executed and, if so, on the
\* status, and then the start is there too.
AuditIsTruthful ==
    \A r \in Requests : req[r].pc = "returning" /\ req[r].recorded =>
        /\ req[r].event # "none"
        /\ req[r].remote => req[r].event = req[r].status /\ req[r].started = "ok"
        /\ ~req[r].remote => req[r].event \in Refusals \cup {"not_dispatched"}

\* A script holds a lane and waits for a slot, and every slot is held by a
\* request that waits for the lane of such a script.
Waits(r, where) == req[r].pc = where
Circle ==
    /\ \E w \in Requests : Waits(w, "slot") /\ HasLane(w)
    /\ \A s \in slots :
          /\ Waits(s, "lane")
          /\ \A h \in lane[LaneOf(s)].holders : Waits(h, "slot")

\* Every request returns, without help from its client, unless requests come
\* to wait for each other in a circle of lanes and slots.
Returns == \A r \in Requests : req[r].pc # "idle" ~> req[r].pc = "idle" \/ Circle

=============================================================================
