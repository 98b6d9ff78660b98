----------------------------- MODULE Deployment -----------------------------
(***************************************************************************)
(* A binary deployment: DeploySSHBinary of internal/runner/runner.go over  *)
(* DeployBinary of internal/sshtransport/deploy.go.  One remote request    *)
(* after the other inspects the live file, uploads and verifies a          *)
(* temporary file, moves the live file to a backup and the temporary file  *)
(* into its place, and moves the backup back when that fails.              *)
(*                                                                         *)
(* The context may end and the connection may break before a request is    *)
(* sent, while it is under way and when its answer has arrived.  A request *)
(* that was sent and given up may still be served, even during a later     *)
(* deployment.  Other users of the host change the live file as well.      *)
(*                                                                         *)
(* A file is its contents; size, type and modification time tell any two   *)
(* files apart (sameDeploymentSnapshot).  Uploads and downloads are one    *)
(* request each.                                                           *)
(***************************************************************************)
EXTENDS Integers, FiniteSets

CONSTANTS
    MaxDeployments,     \* bound on the deployments, one after the other
    MaxChanges          \* bound on the changes by other users

ASSUME BoundsAssumption == MaxDeployments \in Nat /\ MaxChanges \in Nat

VARIABLES
    fs,         \* the remote directory
    job,        \* the deployment that runs
    reply,      \* its outstanding request: not sent, under way or answered
    connected,  \* the SFTP session works
    expired,    \* the context has ended
    late,       \* requests given up that the server may still serve
    result,     \* for each deployment, what the caller was told
    effect,     \* for each deployment, what its renames have done so far
    wasLive,    \* history: the files that were live and nobody else took away
    changes

session == <<reply, connected, expired>>
vars == <<fs, job, session, late, result, effect, wasLive, changes>>

-----------------------------------------------------------------------------
Deployments == 1..MaxDeployments

\* Contents.  An upload is bad when the source changed after it was hashed.
Absent == <<"absent">>
Old == <<"old">>
Irregular == <<"irregular">>        \* a symbolic link, a directory...
Other(n) == <<"other", n>>
New(d) == <<"new", d>>
Bad(d) == <<"bad", d>>

\* A request that has not been sent or is under way, and its answers: a refusal,
\* with or without the code for a file that exists, or the file looked at.
Unsent == <<"unsent">>
Sent == <<"sent">>
Ok == <<"ok">>
Exist == <<"exist">>
Refused == <<"refused">>

\* deploymentSiblingPath: names nobody else has.
Live == <<"live">>
Temp(d) == <<"temp", d>>
Backup(d) == <<"backup", d>>
Paths == {Live} \cup {Temp(d) : d \in Deployments} \cup {Backup(d) : d \in Deployments}

Contents == {Absent, Old, Irregular} \cup {Other(n) : n \in 1..MaxChanges}
                \cup {New(d) : d \in Deployments} \cup {Bad(d) : d \in Deployments}

\* The requests, in order; "undo" ones are rollbackDeployment's.
Preparing == {"lstat", "create", "upload", "close", "verify", "again", "free"}
Mutating == {"backup", "activate", "undo"}
Checking == {"backed", "gone", "undoGone", "undoBacked"}
Calls == Preparing \cup Mutating \cup Checking
Steps == Calls \cup {"idle", "start", "cleanup"}

Job == [n : 0..MaxDeployments, pc : Steps, snapshot : Contents,
        created : BOOLEAN, preserve : BOOLEAN, activated : BOOLEAN]
Request == [n : Deployments, pc : Mutating \cup {"create", "cleanup"}]
Result == [status : {"none", "rejected", "not_dispatched", "failed", "outcome_unknown", "completed"},
           located : BOOLEAN, activated : BOOLEAN]

TypeOK ==
    /\ fs \in [Paths -> Contents]
    /\ job \in Job
    /\ reply \in {Unsent, Sent, Ok, Exist, Refused} \cup Contents
    /\ connected \in BOOLEAN /\ expired \in BOOLEAN
    /\ late \subseteq Request
    /\ result \in [Deployments -> Result]
    /\ effect \in [Deployments -> {"none", "moved", "activated", "restored"}]
    /\ wasLive \subseteq Contents /\ changes \in 0..MaxChanges

NoResult == [status |-> "none", located |-> FALSE, activated |-> FALSE]
NoJob == [n |-> 0, pc |-> "idle", snapshot |-> Absent,
          created |-> FALSE, preserve |-> FALSE, activated |-> FALSE]

Init ==
    /\ \E live \in {Absent, Old, Irregular} :
          /\ fs = [p \in Paths |-> IF p = Live THEN live ELSE Absent]
          /\ wasLive = {live} \ {Absent}
    /\ job = NoJob
    /\ reply = Unsent /\ connected = FALSE /\ expired = FALSE
    /\ late = {}
    /\ result = [d \in Deployments |-> NoResult]
    /\ effect = [d \in Deployments |-> "none"]
    /\ changes = 0

-----------------------------------------------------------------------------
(* The remote server *)

\* Mutant: a rename that replaces what is there, as PosixRename would.
Rename_Replaces(from, to) == fs[from] # Absent

\* SSH_FXP_RENAME does not replace a file.
Rename(from, to) == fs[from] # Absent /\ fs[to] = Absent

\* Where the three renames move from and to, and what they amount to.
From(n, pc) == CASE pc = "backup" -> Live [] pc = "activate" -> Temp(n) [] OTHER -> Backup(n)
To(n, pc) == IF pc = "backup" THEN Backup(n) ELSE Live
Effect(pc) ==
    CASE pc = "backup" -> "moved" [] pc = "activate" -> "activated" [] OTHER -> "restored"

\* The server carries out a request that changes the directory; put is what an
\* upload writes.
Executes(n, pc) ==
    \/ /\ pc \in Mutating /\ Rename(From(n, pc), To(n, pc))
       /\ fs' = [fs EXCEPT ![From(n, pc)] = Absent, ![To(n, pc)] = fs[From(n, pc)]]
       /\ effect' = [effect EXCEPT ![n] = Effect(pc)]
       /\ wasLive' = wasLive \cup ({fs'[Live]} \ {Absent})
    \/ /\ pc = "create" /\ fs[Temp(n)] = Absent
       /\ fs' = [fs EXCEPT ![Temp(n)] = Bad(n)]
       /\ UNCHANGED <<effect, wasLive>>
    \/ /\ pc = "upload"
       /\ \E put \in {New(n), Bad(n)} : fs' = [fs EXCEPT ![Temp(n)] = put]
       /\ UNCHANGED <<effect, wasLive>>
    \/ /\ pc = "cleanup"
       /\ fs' = [fs EXCEPT ![Temp(n)] = Absent]
       /\ UNCHANGED <<effect, wasLive>>

\* The path a request looks at.
Inspected(n, pc) ==
    CASE pc \in {"lstat", "again", "gone", "undoGone"} -> Live
      [] pc = "verify" -> Temp(n)
      [] OTHER -> Backup(n)
Inspecting == {"lstat", "verify", "again", "free", "backed", "gone", "undoGone", "undoBacked"}

\* A refused request changes nothing.  Servers of the common protocol version
\* have no code of their own for a destination that exists.
Serve ==
    /\ reply = Sent /\ connected
    /\ \/ job.pc \in Inspecting /\ reply' = fs[Inspected(job.n, job.pc)] /\ UNCHANGED <<fs, effect, wasLive>>
       \/ job.pc \notin Inspecting /\ Executes(job.n, job.pc) /\ reply' = Ok
       \/ job.pc = "close" /\ reply' = Ok /\ UNCHANGED <<fs, effect, wasLive>>
       \/ /\ job.pc \in Mutating /\ fs[To(job.n, job.pc)] # Absent
          /\ reply' = Exist /\ UNCHANGED <<fs, effect, wasLive>>
       \/ reply' = Refused /\ UNCHANGED <<fs, effect, wasLive>>
    /\ UNCHANGED <<job, connected, expired, late, result, changes>>

\* What may be served after it was given up and can still matter.
Abandoned ==
    IF reply = Sent /\ job.pc \in Mutating \cup {"create", "cleanup"}
    THEN late \cup {[n |-> job.n, pc |-> job.pc]} ELSE late

ConnectionBreaks ==
    /\ connected
    /\ connected' = FALSE
    /\ late' = Abandoned
    /\ reply' = IF reply = Sent THEN Refused ELSE reply
    /\ UNCHANGED <<fs, job, expired, result, effect, wasLive, changes>>

ServedLate(r) ==
    /\ late' = late \ {r}
    /\ Executes(r.n, r.pc)
    /\ UNCHANGED <<job, session, result, changes>>

ContextDone ==
    /\ job.pc # "idle" /\ ~expired
    /\ expired' = TRUE
    /\ UNCHANGED <<fs, job, reply, connected, late, result, effect, wasLive, changes>>

\* Somebody else replaces, creates or removes the live file.
Change ==
    /\ changes < MaxChanges
    /\ changes' = changes + 1
    /\ \E c \in {Absent, Other(changes + 1)} :
          /\ fs' = [fs EXCEPT ![Live] = c]
          /\ wasLive' = (wasLive \ {fs[Live]}) \cup ({c} \ {Absent})
    /\ UNCHANGED <<job, session, late, result, effect>>

-----------------------------------------------------------------------------
(* The deployment *)

\* The runner has reviewed the request and hashed the local file, and a session
\* is open.
Deploy ==
    /\ job.pc = "idle" /\ job.n < MaxDeployments
    /\ job' = [NoJob EXCEPT !.n = job.n + 1, !.pc = "lstat"]
    /\ reply' = Unsent /\ connected' = TRUE /\ expired' = FALSE
    /\ UNCHANGED <<fs, late, result, effect, wasLive, changes>>

EndsBefore(status) ==
    /\ job.pc = "idle" /\ job.n < MaxDeployments
    /\ job' = [NoJob EXCEPT !.n = job.n + 1]
    /\ result' = [result EXCEPT ![job.n + 1].status = status]
    /\ UNCHANGED <<fs, session, late, effect, wasLive, changes>>

\* inspectLocalDeploymentSource: not a regular file, too large, or it changes
\* while it is hashed.
SourceRejected == EndsBefore("rejected")

\* The context has ended before, or the SFTP session cannot be opened.
NotDispatched == EndsBefore("not_dispatched") \/ EndsBefore("outcome_unknown")

\* callDeployment sends its request unless the context has ended.  Nothing can
\* be sent over a broken connection.
Issue ==
    /\ job.pc \in Calls /\ reply = Unsent /\ ~expired
    /\ reply' = IF connected THEN Sent ELSE Refused
    /\ UNCHANGED <<fs, job, connected, expired, late, result, effect, wasLive, changes>>

\* The metadata of partial is returned from the first rename on.
Locates(pc) == pc \in Mutating \cup Checking

\* DeployBinary fails: what the runner makes of it, and then the deferred
\* removal of the temporary file and the end of the session.
Fails(status, preserve) ==
    /\ result' = [result EXCEPT ![job.n] =
                     [status |-> status, located |-> Locates(job.pc), activated |-> FALSE]]
    /\ job' = [job EXCEPT !.pc = "cleanup", !.preserve = preserve]
    /\ reply' = Unsent

Unknown == Fails("outcome_unknown", job.preserve)
KnownFailure == Fails("failed", job.preserve)

Continue(pc) == job' = [job EXCEPT !.pc = pc] /\ reply' = Unsent /\ UNCHANGED result

\* callDeployment returns as soon as the context ends.
Interrupted == expired

\* ctx.Done, before, during or after the request: the session is closed, unless
\* nothing was sent.  The last read of the verification takes the error for a
\* broken upload.
GiveUp ==
    /\ job.pc \in Calls /\ Interrupted
    /\ connected' = (connected /\ reply = Unsent)
    /\ late' = Abandoned
    /\ Unknown \/ (job.pc = "verify" /\ KnownFailure)
    /\ UNCHANGED <<fs, expired, effect, wasLive, changes>>

Answered(pc) == job.pc = pc /\ reply \notin {Unsent, Sent} /\ ~expired
Unmoved == UNCHANGED <<fs, connected, expired, late, effect, wasLive, changes>>

Lstat ==
    /\ Answered("lstat")
    /\ IF reply \in {Refused, Absent, Irregular} THEN KnownFailure
       ELSE /\ job' = [job EXCEPT !.pc = "create", !.snapshot = reply]
            /\ reply' = Unsent /\ UNCHANGED result
    /\ Unmoved

Create ==
    /\ Answered("create")
    /\ IF reply # Ok THEN KnownFailure
       ELSE /\ job' = [job EXCEPT !.pc = "upload", !.created = TRUE]
            /\ reply' = Unsent /\ UNCHANGED result
    /\ Unmoved

\* uploadDeploymentSource: the hash of what was sent tells whether the source has changed; it may also
\* have grown over its budget or have become unreadable.
Upload ==
    /\ Answered("upload")
    /\ IF reply # Ok \/ fs[Temp(job.n)] # New(job.n) THEN KnownFailure ELSE Continue("close")
    /\ Unmoved

CloseWriter ==
    /\ Answered("close")
    /\ IF reply # Ok THEN KnownFailure ELSE Continue("verify")
    /\ Unmoved

verifyDeploymentTemporary ==
    /\ Answered("verify")
    /\ IF reply # New(job.n) THEN KnownFailure ELSE Continue("again")
    /\ Unmoved

\* The live file must be the one seen first.
LstatAgain ==
    /\ Answered("again")
    /\ IF reply # job.snapshot THEN KnownFailure ELSE Continue("free")
    /\ Unmoved

\* Mutant: the temporary file is not kept from the cleanup.
Committed_NotPreserved == [job EXCEPT !.pc = "backup"]

\* preserveTemporary is set before the first rename is sent.
Committed == [job EXCEPT !.pc = "backup", !.preserve = TRUE]

LstatBackup ==
    /\ Answered("free")
    /\ IF reply # Absent THEN KnownFailure
       ELSE job' = Committed /\ reply' = Unsent /\ UNCHANGED result
    /\ Unmoved

\* Mutant: any refusal of the first rename is taken for a known one.
NotMoved_AnyError == reply # Ok

\* Only EEXIST proves that the live file has not moved.
NotMoved == reply = Exist

RenameBackup ==
    /\ Answered("backup")
    /\ IF NotMoved THEN Fails("failed", FALSE)
       ELSE IF reply # Ok THEN Unknown
       ELSE Continue("backed")
    /\ Unmoved

VerifyBackup ==
    /\ Answered("backed")
    /\ IF reply # job.snapshot THEN Unknown ELSE Continue("gone")
    /\ Unmoved

VerifyGone ==
    /\ Answered("gone")
    /\ IF reply # Absent THEN Unknown ELSE Continue("activate")
    /\ Unmoved

Activate ==
    /\ Answered("activate")
    /\ IF reply # Ok THEN Continue("undoGone")
       ELSE /\ job' = [job EXCEPT !.pc = "start", !.activated = TRUE]
            /\ reply' = Unsent /\ UNCHANGED result
    /\ Unmoved

-----------------------------------------------------------------------------
(* rollbackDeployment *)

RollbackGone ==
    /\ Answered("undoGone")
    /\ IF reply # Absent THEN Unknown ELSE Continue("undoBacked")
    /\ Unmoved

RollbackBacked ==
    /\ Answered("undoBacked")
    /\ IF reply # job.snapshot THEN Unknown ELSE Continue("undo")
    /\ Unmoved

Rollback ==
    /\ Answered("undo")
    /\ IF reply # Ok THEN Unknown ELSE Fails("failed", FALSE)
    /\ Unmoved

\* After the activation the runner runs the start action, if there is one, over
\* a connection of its own: it completes, fails or is not heard of again.
StartAction ==
    /\ job.pc = "start"
    /\ \E status \in {"completed", "failed", "outcome_unknown"} :
          result' = [result EXCEPT ![job.n] =
                        [status |-> status, located |-> TRUE, activated |-> TRUE]]
    /\ job' = [job EXCEPT !.pc = "cleanup"]
    /\ UNCHANGED <<fs, session, late, effect, wasLive, changes>>

\* The deferred calls do not look at the context: the temporary file is removed
\* if nothing was renamed, and the session is closed.
Removes == job.created /\ ~job.preserve /\ ~job.activated /\ connected

IssueRemove ==
    /\ job.pc = "cleanup" /\ reply = Unsent /\ Removes
    /\ reply' = Sent
    /\ UNCHANGED <<fs, job, connected, expired, late, result, effect, wasLive, changes>>

Returned ==
    /\ job.pc = "cleanup"
    /\ reply \in {Ok, Refused} \/ ~Removes
    /\ job' = [NoJob EXCEPT !.n = job.n]
    /\ reply' = Unsent /\ connected' = FALSE
    /\ UNCHANGED <<fs, expired, late, result, effect, wasLive, changes>>

-----------------------------------------------------------------------------
Step ==
    \/ Issue \/ GiveUp \/ Lstat \/ Create \/ Upload \/ CloseWriter \/ verifyDeploymentTemporary
    \/ LstatAgain \/ LstatBackup \/ RenameBackup \/ VerifyBackup \/ VerifyGone \/ Activate
    \/ RollbackGone \/ RollbackBacked \/ Rollback \/ StartAction \/ IssueRemove \/ Returned

Next ==
    \/ Deploy \/ SourceRejected \/ NotDispatched \/ Step
    \/ Serve \/ ConnectionBreaks \/ ContextDone \/ Change
    \/ \E r \in late : ServedLate(r)

Spec == Init /\ [][Next]_vars

-----------------------------------------------------------------------------
(* Properties *)

Told(d) == result[d].status # "none"

\* Whatever the server and the network do, no file that was live is destroyed by
\* a deployment, not even by a rename that is served late: it is live, in a
\* backup or in a temporary file, unless other users took it away.
NothingIsLost == \A c \in wasLive : \E p \in Paths : fs[p] = c

\* The result is true and stays true: a known failure means that the deployment
\* has left the live file as it was and no request of it will still change that,
\* success that its file was put in place, and a live file that was moved away
\* is reported as unknown together with the path of the backup.
OutcomeIsTrue ==
    \A d \in Deployments : Told(d) =>
        /\ result[d].status = "failed" /\ ~result[d].activated =>
              /\ effect[d] \in {"none", "restored"}
              /\ \A r \in late : r.n = d => r.pc \notin Mutating
        /\ result[d].activated => effect[d] = "activated"
        /\ effect[d] = "moved" => result[d].status = "outcome_unknown" /\ result[d].located

\* While the live file is moved away, both what was live and what was to replace
\* it are there to recover by hand.
Recoverable ==
    \A d \in Deployments : effect[d] = "moved" =>
        fs[Temp(d)] = New(d) /\ fs[Backup(d)] # Absent

=============================================================================
