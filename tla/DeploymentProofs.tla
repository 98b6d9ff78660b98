------------------------- MODULE DeploymentProofs -------------------------
(***************************************************************************)
(* What the deployment keeps safe, for any number of deployments and of    *)
(* changes by other users.                                                 *)
(*                                                                         *)
(* A request that was sent is pending until it is served, even when the    *)
(* deployment gave it up.  FileInv relates the pending requests to the     *)
(* directory: a pending rename is the only pending request of its          *)
(* deployment and has still to take effect, and the temporary file of a    *)
(* deployment was never live before its activation, so writing or removing *)
(* it destroys nothing.  JobInv says what the running deployment has done  *)
(* at each of its steps, and ResultInv what callers were told.             *)
(***************************************************************************)
EXTENDS Deployment, TLAPS

-----------------------------------------------------------------------------
(* The inductive invariant *)

Pending == late \cup (IF reply = Sent THEN {[n |-> job.n, pc |-> job.pc]} ELSE {})

PendingIsBegun == \A r \in Pending : r.n \in Deployments

\* A pending rename has not taken effect; what it moves or leaves is there.
RenamesWait ==
    \A r \in Pending :
        /\ r.pc = "backup" => effect[r.n] = "none" /\ fs[Temp(r.n)] = New(r.n)
        /\ r.pc \in {"activate", "undo"} => effect[r.n] = "moved"

\* The temporary file is written and removed only while the live file is in place.
WritesAreEarly ==
    \A r \in Pending : r.pc \in {"create", "upload", "cleanup"} => effect[r.n] \in {"none", "restored"}

\* A pending rename is alone.
RenameIsAlone ==
    \A r \in Pending, q \in Pending : r.pc \in Mutating /\ q.n = r.n => q = r

TempIsOwn == \A d \in Deployments : fs[Temp(d)] \in {Absent, New(d), Bad(d)}

\* What a deployment uploads is nowhere but in its temporary file before it
\* has been activated.
OwnIsHidden ==
    \A d \in Deployments : \A c \in {New(d), Bad(d)} :
        (c \in wasLive \/ fs[Live] = c \/ \E e \in Deployments : fs[Backup(e)] = c)
            => effect[d] = "activated"

FileInv ==
    /\ PendingIsBegun /\ RenamesWait /\ WritesAreEarly /\ RenameIsAlone
    /\ TempIsOwn /\ OwnIsHidden /\ Absent \notin wasLive
    /\ NothingIsLost /\ Recoverable

\* Deployments that have not begun have done nothing.
FutureIsFresh ==
    /\ \A d \in Deployments : d > job.n => effect[d] = "none" /\ result[d] = NoResult
    /\ \A r \in late : r.n <= job.n

LateOf(d) == {r \in late : r.n = d}
NoRenameLate(d) == \A r \in LateOf(d) : r.pc \notin Mutating

\* A request of the running deployment that was given up without ending it:
\* the connection broke, and nothing but a refusal can follow.
BrokenIsFailing ==
    job.pc \in Calls \cup {"start"} => \A r \in LateOf(job.n) :
        /\ ~connected
        /\ \/ reply = Refused /\ r.pc = job.pc
           \/ reply \in {Unsent, Refused} /\ job.pc = "undoGone" /\ r.pc = "activate"

\* What the running deployment has done.
Progress ==
    LET e == effect[job.n] IN
    /\ job.pc \in Preparing => e = "none"
    /\ job.pc = "backup" => (reply \in {Unsent, Sent, Exist} => e = "none") /\ (reply = Ok => e = "moved")
    /\ job.pc \in {"backed", "gone", "undoBacked"} => e = "moved"
    /\ job.pc = "activate" =>
          /\ reply \in {Unsent, Sent} => e = "moved"
          /\ reply = Ok => e = "activated"
          /\ reply \notin {Unsent, Sent, Ok} => e = "moved" \/ ~connected
    /\ job.pc = "undoGone" => e = "moved" \/ (~connected /\ reply \in {Unsent, Refused})
    /\ job.pc = "undo" => (reply \in {Unsent, Sent} => e = "moved") /\ (reply = Ok => e = "restored")
    /\ job.pc = "start" => e = "activated"

Uploaded == {"close", "verify", "again", "free", "backup"}

JobInv ==
    /\ job.pc = "idle" => reply = Unsent
    /\ job.pc # "idle" => job.n \in Deployments
    /\ job.pc \in Calls \cup {"start"} =>
          /\ result[job.n] = NoResult
          /\ job.preserve <=> job.pc \notin Preparing
    /\ job.pc = "start" => reply = Unsent
    /\ job.pc \in Inspecting => reply \notin {Ok, Exist}
    /\ job.pc # "idle" /\ ~job.preserve =>
          effect[job.n] \in {"none", "restored"} /\ NoRenameLate(job.n)
    /\ job.pc \in Uploaded /\ effect[job.n] = "none" => fs[Temp(job.n)] = New(job.n)
    /\ FutureIsFresh /\ BrokenIsFailing /\ Progress

\* What was told of each deployment agrees with what it did and may still do.
ResultInv ==
    \A d \in Deployments : Told(d) =>
        /\ (effect[d] = "moved" \/ ~NoRenameLate(d))
              => result[d].status = "outcome_unknown" /\ result[d].located
        /\ result[d].status = "failed" /\ ~result[d].activated
              => effect[d] \in {"none", "restored"} /\ NoRenameLate(d)
        /\ result[d].activated => effect[d] = "activated"

IInv == TypeOK /\ FileInv /\ JobInv /\ ResultInv

-----------------------------------------------------------------------------
(* Names, contents and answers are told apart. *)

LEMMA PathsDiffer ==
  /\ Live \in Paths
  /\ \A d \in Deployments : Temp(d) \in Paths /\ Backup(d) \in Paths
  /\ \A d \in Deployments : Temp(d) # Live /\ Backup(d) # Live
  /\ \A d, e \in Deployments : Temp(d) # Backup(e)
  /\ \A d, e \in Deployments : (Temp(d) = Temp(e) => d = e) /\ (Backup(d) = Backup(e) => d = e)
  BY DEF Paths, Live, Temp, Backup

LEMMA PathsAre ==
  \A p \in Paths : p = Live \/ (\E d \in Deployments : p = Temp(d)) \/ (\E d \in Deployments : p = Backup(d))
  BY DEF Paths

LEMMA ContentsDiffer ==
  /\ {Absent, Old, Irregular} \subseteq Contents
  /\ \A n \in 1..MaxChanges : Other(n) \in Contents /\ Other(n) # Absent
  /\ \A d \in Deployments : /\ New(d) \in Contents /\ Bad(d) \in Contents
                            /\ New(d) # Absent /\ Bad(d) # Absent
                            /\ New(d) \notin {Old, Irregular} /\ Bad(d) \notin {Old, Irregular}
  /\ \A d \in Deployments : \A n : New(d) # Other(n) /\ Bad(d) # Other(n)
  /\ \A d, e \in Deployments : /\ New(d) = New(e) => d = e
                               /\ Bad(d) = Bad(e) => d = e
                               /\ New(d) # Bad(e)
  BY DEF Contents, Absent, Old, Irregular, Other, New, Bad

LEMMA AnswersDiffer ==
  /\ Unsent # Sent /\ Unsent # Ok /\ Unsent # Exist /\ Unsent # Refused
  /\ Sent # Ok /\ Sent # Exist /\ Sent # Refused /\ Ok # Exist /\ Ok # Refused /\ Exist # Refused
  /\ Contents \cap {Unsent, Sent, Ok, Exist, Refused} = {}
  BY DEF Contents, Absent, Old, Irregular, Other, New, Bad, Unsent, Sent, Ok, Exist, Refused

-----------------------------------------------------------------------------
(* What a served request does *)

Written == {"create", "upload", "cleanup"}

\* The three renames, with their paths spelled out.
LEMMA RenamePaths ==
  ASSUME NEW d \in Deployments
  PROVE  /\ From(d, "backup") = Live /\ To(d, "backup") = Backup(d) /\ Effect("backup") = "moved"
         /\ From(d, "activate") = Temp(d) /\ To(d, "activate") = Live /\ Effect("activate") = "activated"
         /\ From(d, "undo") = Backup(d) /\ To(d, "undo") = Live /\ Effect("undo") = "restored"
  BY DEF From, To, Effect

LEMMA RenameDoes ==
  ASSUME TypeOK, NEW d \in Deployments, NEW pc \in Mutating, Executes(d, pc)
  PROVE  /\ fs' \in [Paths -> Contents] /\ wasLive' \subseteq Contents
         /\ effect' \in [Deployments -> {"none", "moved", "activated", "restored"}]
         /\ From(d, pc) \in Paths /\ To(d, pc) \in Paths /\ From(d, pc) # To(d, pc)
         /\ fs[From(d, pc)] # Absent /\ fs[To(d, pc)] = Absent
         /\ fs'[From(d, pc)] = Absent /\ fs'[To(d, pc)] = fs[From(d, pc)]
         /\ \A p \in Paths \ {From(d, pc), To(d, pc)} : fs'[p] = fs[p]
         /\ effect'[d] = Effect(pc) /\ \A e \in Deployments \ {d} : effect'[e] = effect[e]
         /\ wasLive' = wasLive \cup ({fs'[Live]} \ {Absent})
  <1> USE PathsDiffer
  <1>1. pc \in {"backup", "activate", "undo"}
    BY DEF Mutating
  <1>2. /\ Rename(From(d, pc), To(d, pc))
        /\ fs' = [fs EXCEPT ![From(d, pc)] = Absent, ![To(d, pc)] = fs[From(d, pc)]]
        /\ effect' = [effect EXCEPT ![d] = Effect(pc)]
        /\ wasLive' = wasLive \cup ({fs'[Live]} \ {Absent})
    BY <1>1 DEF Executes
  <1>3. From(d, pc) \in Paths /\ To(d, pc) \in Paths /\ From(d, pc) # To(d, pc)
    BY <1>1, RenamePaths
  <1>4. Effect(pc) \in {"none", "moved", "activated", "restored"}
    BY <1>1, RenamePaths
  <1>5. fs \in [Paths -> Contents] /\ Absent \in Contents /\ wasLive \subseteq Contents
        /\ effect \in [Deployments -> {"none", "moved", "activated", "restored"}]
    BY ContentsDiffer DEF TypeOK
  <1>6. fs' \in [Paths -> Contents]
    BY <1>2, <1>3, <1>5
  <1>7. wasLive' \subseteq Contents
    BY <1>2, <1>5, <1>6
  <1> QED BY <1>2, <1>3, <1>4, <1>5, <1>6, <1>7 DEF Rename

LEMMA WriteDoes ==
  ASSUME TypeOK, NEW d \in Deployments, NEW pc \in Written, Executes(d, pc)
  PROVE  /\ fs' \in [Paths -> Contents] /\ fs'[Temp(d)] \in {Absent, New(d), Bad(d)}
         /\ \A p \in Paths \ {Temp(d)} : fs'[p] = fs[p]
         /\ UNCHANGED <<effect, wasLive>>
  <1>1. pc \notin Mutating
    BY DEF Written, Mutating
  <1>2. \E c \in {Absent, New(d), Bad(d)} : fs' = [fs EXCEPT ![Temp(d)] = c]
    BY <1>1 DEF Executes
  <1>3. UNCHANGED <<effect, wasLive>>
    BY <1>1 DEF Executes
  <1>4. fs \in [Paths -> Contents] /\ {Absent, New(d), Bad(d)} \subseteq Contents /\ Temp(d) \in Paths
    BY ContentsDiffer, PathsDiffer DEF TypeOK
  <1> QED BY <1>2, <1>3, <1>4

LEMMA ExecutesIs ==
  ASSUME NEW d, NEW pc, Executes(d, pc)
  PROVE  pc \in Mutating \cup Written
  BY DEF Executes, Mutating, Written

-----------------------------------------------------------------------------
(* Served requests keep FileInv. *)

\* A request that is not a rename writes the temporary file, which was never
\* live.
LEMMA WriteKeepsFiles ==
  ASSUME TypeOK, FileInv, NEW r \in Pending, r.n \in Deployments, r.pc \in Written,
         Executes(r.n, r.pc), Pending' \subseteq Pending
  PROVE  FileInv'
  <1> USE PathsDiffer, ContentsDiffer
  <1>0. /\ fs' \in [Paths -> Contents] /\ fs'[Temp(r.n)] \in {Absent, New(r.n), Bad(r.n)}
        /\ \A p \in Paths \ {Temp(r.n)} : fs'[p] = fs[p]
        /\ effect' = effect /\ wasLive' = wasLive
    BY WriteDoes
  <1>1. effect[r.n] \in {"none", "restored"}
    BY DEF FileInv, WritesAreEarly, Written
  <1>2. \A q \in Pending : q.n = r.n => q.pc \notin Mutating
    BY DEF FileInv, RenameIsAlone, Written, Mutating
  <1>3. RenamesWait'
    <2>1. ASSUME NEW q \in Pending', q.n \in Deployments, q.pc \in Mutating PROVE fs'[Temp(q.n)] = fs[Temp(q.n)]
      BY <1>0, <1>2, <2>1
    <2>2. \A q \in Pending' : q.n \in Deployments
      BY DEF FileInv, PendingIsBegun
    <2> QED BY <1>0, <2>1, <2>2 DEF FileInv, RenamesWait, Mutating
  <1>4. PendingIsBegun' /\ WritesAreEarly' /\ RenameIsAlone'
    BY <1>0 DEF FileInv, PendingIsBegun, WritesAreEarly, RenameIsAlone
  <1>5. TempIsOwn'
    BY <1>0 DEF FileInv, TempIsOwn
  <1>6. OwnIsHidden' /\ (Absent \notin wasLive)'
    BY <1>0 DEF FileInv, OwnIsHidden
  <1>7. NothingIsLost'
    <2>1. fs[Temp(r.n)] \notin wasLive
      BY <1>1 DEF FileInv, TempIsOwn, OwnIsHidden
    <2>2. ASSUME NEW c \in wasLive PROVE \E p \in Paths : fs'[p] = c
      <3>1. PICK p \in Paths : fs[p] = c
        BY DEF FileInv, NothingIsLost
      <3> QED BY <1>0, <2>1, <3>1
    <2> QED BY <1>0, <2>2 DEF NothingIsLost
  <1>8. Recoverable'
    BY <1>0, <1>1 DEF FileInv, Recoverable
  <1> QED BY <1>3, <1>4, <1>5, <1>6, <1>7, <1>8 DEF FileInv

\* A rename moves a file to a free name.
LEMMA RenameKeepsFiles ==
  ASSUME TypeOK, FileInv, NEW r \in Pending, r.n \in Deployments, r.pc \in Mutating,
         Executes(r.n, r.pc), Pending' \subseteq Pending \ {r}
  PROVE  FileInv'
  <1> USE PathsDiffer, ContentsDiffer
  <1> DEFINE d == r.n
             from == From(d, r.pc)
             to == To(d, r.pc)
  <1>0. /\ fs' \in [Paths -> Contents] /\ from \in Paths /\ to \in Paths /\ from # to
        /\ fs[from] # Absent /\ fs[to] = Absent /\ fs'[from] = Absent /\ fs'[to] = fs[from]
        /\ \A p \in Paths \ {from, to} : fs'[p] = fs[p]
        /\ effect'[d] = Effect(r.pc) /\ \A e \in Deployments \ {d} : effect'[e] = effect[e]
        /\ wasLive' = wasLive \cup ({fs'[Live]} \ {Absent})
    BY RenameDoes
  <1>1. /\ r.pc \in {"backup", "activate", "undo"}
        /\ r.pc = "backup" => from = Live /\ to = Backup(d) /\ effect'[d] = "moved"
        /\ r.pc = "activate" => from = Temp(d) /\ to = Live /\ effect'[d] = "activated"
        /\ r.pc = "undo" => from = Backup(d) /\ to = Live /\ effect'[d] = "restored"
    BY <1>0, RenamePaths DEF Mutating
  <1>2. /\ r.pc = "backup" => effect[d] = "none" /\ fs[Temp(d)] = New(d)
        /\ r.pc # "backup" => effect[d] = "moved"
    BY <1>1 DEF FileInv, RenamesWait
  <1>3. \A q \in Pending' : q.n # d
    BY DEF FileInv, RenameIsAlone
  <1>4. \A e \in Deployments \ {d} : fs'[Temp(e)] = fs[Temp(e)] /\ fs'[Backup(e)] = fs[Backup(e)]
    BY <1>0, <1>1
  <1>5. \A q \in Pending' : q.n \in Deployments \ {d}
    BY <1>3 DEF FileInv, PendingIsBegun
  <1>6. PendingIsBegun' /\ RenamesWait' /\ WritesAreEarly' /\ RenameIsAlone'
    <2>1. \A q \in Pending' : effect'[q.n] = effect[q.n] /\ fs'[Temp(q.n)] = fs[Temp(q.n)]
      BY <1>0, <1>4, <1>5
    <2> QED BY <2>1, <1>5 DEF FileInv, PendingIsBegun, RenamesWait, WritesAreEarly, RenameIsAlone
  <1>7. TempIsOwn'
    BY <1>0, <1>1, <1>4 DEF FileInv, TempIsOwn
  <1>8. OwnIsHidden' /\ (Absent \notin wasLive)'
    <2>1. ASSUME NEW e \in Deployments, NEW c \in {New(e), Bad(e)},
                 c \in wasLive \/ fs[Live] = c \/ \E b \in Deployments : fs[Backup(b)] = c
          PROVE  effect'[e] = "activated"
      <3>1. effect[e] = "activated"
        BY <2>1 DEF FileInv, OwnIsHidden
      <3> QED BY <1>0, <1>2, <3>1
    <2>2. ASSUME NEW e \in Deployments, NEW c \in {New(e), Bad(e)}, fs[Temp(d)] = c, r.pc = "activate"
          PROVE  effect'[e] = "activated"
      BY <1>1, <2>2 DEF FileInv, TempIsOwn
    <2>3. ASSUME NEW e \in Deployments, NEW c \in {New(e), Bad(e)},
                 c \in wasLive' \/ fs'[Live] = c \/ \E b \in Deployments : fs'[Backup(b)] = c
          PROVE  effect'[e] = "activated"
      <3>1. CASE fs'[Live] = c
        BY <1>0, <1>1, <2>1, <2>2, <3>1
      <3>2. CASE c \in wasLive' /\ fs'[Live] # c
        BY <1>0, <2>1, <3>2
      <3>3. ASSUME NEW b \in Deployments, fs'[Backup(b)] = c PROVE effect'[e] = "activated"
        BY <1>0, <1>1, <1>4, <2>1, <3>3
      <3> QED BY <2>3, <3>1, <3>2, <3>3
    <2> QED BY <1>0, <2>3 DEF FileInv, OwnIsHidden
  <1>9. NothingIsLost'
    <2>1. ASSUME NEW c \in wasLive' PROVE \E p \in Paths : fs'[p] = c
      <3>1. CASE c = fs'[Live]
        BY <3>1
      <3>2. CASE c \in wasLive
        <4>1. PICK p \in Paths : fs[p] = c
          BY <3>2 DEF FileInv, NothingIsLost
        <4>2. p # to
          BY <1>0, <3>2, <4>1 DEF FileInv
        <4> QED BY <1>0, <4>1, <4>2
      <3> QED BY <1>0, <3>1, <3>2
    <2> QED BY <2>1 DEF NothingIsLost
  <1>10. Recoverable'
    <2>1. ASSUME NEW e \in Deployments, effect'[e] = "moved"
          PROVE  fs'[Temp(e)] = New(e) /\ fs'[Backup(e)] # Absent
      <3>1. CASE e # d
        BY <1>0, <1>4, <2>1, <3>1 DEF FileInv, Recoverable
      <3>2. CASE e = d
        BY <1>0, <1>1, <1>2, <2>1, <3>2
      <3> QED BY <3>1, <3>2
    <2> QED BY <2>1 DEF Recoverable
  <1> QED BY <1>6, <1>7, <1>8, <1>9, <1>10 DEF FileInv

LEMMA FilesStay ==
  ASSUME FileInv, UNCHANGED <<fs, effect, wasLive>>, Pending' \subseteq Pending
  PROVE  FileInv'
  BY DEF FileInv, PendingIsBegun, RenamesWait, WritesAreEarly, RenameIsAlone, TempIsOwn,
         OwnIsHidden, NothingIsLost, Recoverable

-----------------------------------------------------------------------------
(* Records *)

LEMMA Defaults == NoJob \in Job /\ NoResult \in Result
  <1>1. 0 \in 0..MaxDeployments
    BY BoundsAssumption
  <1>2. "idle" \in Steps /\ Absent \in Contents
    BY ContentsDiffer DEF Steps
  <1> QED BY <1>1, <1>2 DEF NoJob, NoResult, Job, Result

LEMMA StepKinds ==
  /\ Calls \subseteq Steps /\ {"idle", "start", "cleanup"} \subseteq Steps
  /\ Calls \cap {"idle", "start", "cleanup"} = {}
  /\ Mutating \cap Inspecting = {} /\ Mutating \cap Preparing = {}
  BY DEF Calls, Steps, Preparing, Mutating, Checking, Inspecting

-----------------------------------------------------------------------------
(* The initial states *)

LEMMA InitIInv == ASSUME Init PROVE IInv
  <1> USE PathsDiffer, ContentsDiffer, AnswersDiffer, BoundsAssumption
  <1>0. PICK live \in {Absent, Old, Irregular} :
          fs = [p \in Paths |-> IF p = Live THEN live ELSE Absent] /\ wasLive = {live} \ {Absent}
    BY DEF Init
  <1>1. /\ job = NoJob /\ reply = Unsent /\ connected = FALSE /\ expired = FALSE /\ late = {}
        /\ result = [d \in Deployments |-> NoResult] /\ effect = [d \in Deployments |-> "none"]
        /\ changes = 0
    BY DEF Init
  <1>2. TypeOK
    <2>1. fs \in [Paths -> Contents] /\ wasLive \subseteq Contents
      BY <1>0
    <2>2. job \in Job /\ result \in [Deployments -> Result]
      BY <1>1, Defaults
    <2>3. changes \in 0..MaxChanges
      BY <1>1
    <2> QED BY <1>1, <2>1, <2>2, <2>3 DEF TypeOK
  <1>3. Pending = {}
    BY <1>1 DEF Pending
  <1>4. FileInv
    <2>1. PendingIsBegun /\ RenamesWait /\ WritesAreEarly /\ RenameIsAlone
      BY <1>3 DEF PendingIsBegun, RenamesWait, WritesAreEarly, RenameIsAlone
    <2>2. TempIsOwn /\ OwnIsHidden /\ Absent \notin wasLive
      BY <1>0, <1>1 DEF TempIsOwn, OwnIsHidden
    <2>3. NothingIsLost /\ Recoverable
      BY <1>0, <1>1 DEF NothingIsLost, Recoverable
    <2> QED BY <2>1, <2>2, <2>3 DEF FileInv
  <1>5. JobInv
    <2>1. job.pc = "idle" /\ job.n = 0 /\ job.pc \notin Calls \cup {"start"} /\ job.pc \notin Uploaded
      BY <1>1, StepKinds DEF NoJob, Uploaded
    <2>2. FutureIsFresh
      BY <1>1 DEF FutureIsFresh
    <2>3. BrokenIsFailing /\ Progress
      BY <2>1, StepKinds DEF BrokenIsFailing, Progress, Calls, Preparing
    <2> QED BY <1>1, <2>1, <2>2, <2>3 DEF JobInv
  <1>6. ResultInv
    BY <1>1 DEF ResultInv, Told, NoResult
  <1> QED BY <1>2, <1>4, <1>5, <1>6 DEF IInv

-----------------------------------------------------------------------------
(* The steps of the deployment *)

\* A step to the next request, or to the start action.
LEMMA ContinueKeeps ==
  ASSUME IInv, job.pc \in Calls, Unmoved, reply' = Unsent, UNCHANGED result,
         job' \in Job, job'.n = job.n, job'.pc \in Calls \cup {"start"},
         job'.preserve <=> job'.pc \notin Preparing,
         job'.pc \in Uploaded /\ effect[job.n] = "none" => fs[Temp(job.n)] = New(job.n),
         \A r \in LateOf(job.n) : ~connected /\ job'.pc = "undoGone" /\ r.pc = "activate",
         Progress'
  PROVE  IInv'
  <1> USE StepKinds, AnswersDiffer
  <1>0. TypeOK /\ FileInv /\ JobInv /\ ResultInv
    BY DEF IInv
  <1>1. /\ fs' = fs /\ connected' = connected /\ expired' = expired /\ late' = late
        /\ effect' = effect /\ wasLive' = wasLive /\ changes' = changes /\ result' = result
    BY DEF Unmoved
  <1>2. TypeOK'
    BY <1>0, <1>1 DEF TypeOK
  <1>3. FileInv'
    <2>1. Pending' \subseteq Pending
      BY <1>1 DEF Pending
    <2> QED BY <1>0, <1>1, <2>1, FilesStay
  <1>4. LateOf(job.n)' = LateOf(job.n) /\ \A d : NoRenameLate(d)' <=> NoRenameLate(d)
    BY <1>1 DEF LateOf, NoRenameLate
  <1>5. JobInv'
    <2>1. job.n \in Deployments /\ result[job.n] = NoResult
      BY <1>0 DEF JobInv
    <2>2. FutureIsFresh'
      BY <1>0, <1>1 DEF JobInv, FutureIsFresh
    <2>3. BrokenIsFailing'
      BY <1>1, <1>4 DEF BrokenIsFailing
    <2>4. ~job'.preserve => effect[job.n] \in {"none", "restored"} /\ NoRenameLate(job.n)
      <3>1. SUFFICES ASSUME job'.pc \in Preparing PROVE effect[job.n] = "none" /\ LateOf(job.n) = {}
        BY DEF NoRenameLate
      <3>2. job'.pc # "undoGone"
        BY <3>1 DEF Preparing
      <3> QED BY <1>1, <3>1, <3>2 DEF Progress
    <2> QED BY <1>1, <1>4, <2>1, <2>2, <2>3, <2>4 DEF JobInv
  <1>6. ResultInv'
    BY <1>0, <1>1, <1>4 DEF ResultInv, Told
  <1> QED BY <1>2, <1>3, <1>5, <1>6 DEF IInv

\* A failure ends the deployment; a request under way may be left pending.
LEMMA FailsKeeps ==
  ASSUME IInv, job.pc \in Calls, NEW status \in {"failed", "outcome_unknown"}, NEW preserve \in BOOLEAN,
         Fails(status, preserve), UNCHANGED <<fs, expired, effect, wasLive, changes>>,
         connected' \in BOOLEAN, late' \in {late, Abandoned},
         status = "failed" \/ ~preserve =>
            effect[job.n] \in {"none", "restored"} /\ NoRenameLate(job.n)',
         effect[job.n] = "moved" \/ ~NoRenameLate(job.n)' => Locates(job.pc)
  PROVE  IInv'
  <1> USE StepKinds, AnswersDiffer
  <1>0. TypeOK /\ FileInv /\ JobInv /\ ResultInv
    BY DEF IInv
  <1>1. /\ result' = [result EXCEPT ![job.n] =
                         [status |-> status, located |-> Locates(job.pc), activated |-> FALSE]]
        /\ job' = [job EXCEPT !.pc = "cleanup", !.preserve = preserve] /\ reply' = Unsent
    BY DEF Fails
  <1>2. job' \in Job /\ job'.pc = "cleanup" /\ job'.n = job.n /\ job'.preserve = preserve
    <2>1. job \in Job /\ "cleanup" \in Steps
      BY <1>0 DEF TypeOK
    <2>2. [job EXCEPT !.pc = "cleanup", !.preserve = preserve] \in Job
      BY <2>1 DEF Job
    <2> QED BY <1>1, <2>1, <2>2 DEF Job
  <1>3. job.n \in Deployments /\ result[job.n] = NoResult
    BY <1>0 DEF JobInv
  <1>4. late' \subseteq Request /\ late' \subseteq Pending
    BY <1>0, <1>3 DEF TypeOK, Abandoned, Pending, Request
  <1>5. TypeOK'
    <2>1. [status |-> status, located |-> Locates(job.pc), activated |-> FALSE] \in Result
      BY DEF Result, Locates
    <2>2. result' \in [Deployments -> Result]
      BY <1>0, <1>1, <2>1 DEF TypeOK
    <2> QED BY <1>0, <1>1, <1>2, <1>4, <2>2 DEF TypeOK
  <1>6. FileInv'
    <2>1. Pending' \subseteq Pending
      BY <1>1, <1>4 DEF Pending
    <2> QED BY <1>0, <2>1, FilesStay
  <1>7. \A d \in Deployments \ {job.n} : NoRenameLate(d)' <=> NoRenameLate(d)
    <2>1. \A d \in Deployments \ {job.n} : LateOf(d)' = LateOf(d)
      BY DEF LateOf, Abandoned
    <2> QED BY <2>1 DEF NoRenameLate
  <1>8. JobInv'
    <2>1. FutureIsFresh'
      <3>1. \A d \in Deployments : d > job.n => result'[d] = result[d]
        BY <1>0, <1>1, <1>3 DEF TypeOK, Deployments
      <3>2. \A r \in late' : r.n <= job.n
        BY <1>0, <1>3 DEF Abandoned, JobInv, FutureIsFresh, Deployments
      <3> QED BY <1>0, <1>2, <3>1, <3>2 DEF JobInv, FutureIsFresh
    <2>2. BrokenIsFailing' /\ Progress'
      BY <1>2 DEF BrokenIsFailing, Progress, Preparing
    <2>3. job'.pc \notin Uploaded
      BY <1>2 DEF Uploaded
    <2> QED BY <1>1, <1>2, <1>3, <2>1, <2>2, <2>3 DEF JobInv
  <1>9. ResultInv'
    <2>1. ASSUME NEW d \in Deployments, d # job.n, Told(d)'
          PROVE  /\ (effect[d] = "moved" \/ ~NoRenameLate(d))
                       => result'[d].status = "outcome_unknown" /\ result'[d].located
                 /\ result'[d].status = "failed" /\ ~result'[d].activated
                       => effect[d] \in {"none", "restored"} /\ NoRenameLate(d)
                 /\ result'[d].activated => effect[d] = "activated"
      <3>1. result'[d] = result[d]
        BY <1>0, <1>1, <2>1 DEF TypeOK
      <3> QED BY <1>0, <2>1, <3>1 DEF ResultInv, Told
    <2>2. result'[job.n].status = status /\ result'[job.n].located = Locates(job.pc)
          /\ result'[job.n].activated = FALSE
      BY <1>0, <1>1, <1>3 DEF TypeOK
    <2>3. /\ (effect[job.n] = "moved" \/ ~NoRenameLate(job.n)')
                => result'[job.n].status = "outcome_unknown" /\ result'[job.n].located
          /\ result'[job.n].status = "failed" /\ ~result'[job.n].activated
                => effect[job.n] \in {"none", "restored"} /\ NoRenameLate(job.n)'
          /\ result'[job.n].activated => effect[job.n] = "activated"
      BY <2>2
    <2>4. ASSUME NEW d \in Deployments, Told(d)'
          PROVE  /\ (effect'[d] = "moved" \/ ~NoRenameLate(d)')
                       => result'[d].status = "outcome_unknown" /\ result'[d].located
                 /\ result'[d].status = "failed" /\ ~result'[d].activated
                       => effect'[d] \in {"none", "restored"} /\ NoRenameLate(d)'
                 /\ result'[d].activated => effect'[d] = "activated"
      <3>1. CASE d # job.n
        BY <1>7, <2>1, <2>4, <3>1
      <3>2. CASE d = job.n
        BY <1>2, <2>3, <3>2
      <3> QED BY <3>1, <3>2
    <2> QED BY <2>4 DEF ResultInv
  <1> QED BY <1>5, <1>6, <1>8, <1>9 DEF IInv

\* Before the first rename a failure is known: nothing has been moved.
LEMMA KnownFailureKeeps ==
  ASSUME IInv, job.pc \in Preparing, KnownFailure, Unmoved
  PROVE  IInv'
  <1>0. TypeOK /\ JobInv /\ job.pc \in Calls
    BY DEF IInv, Calls
  <1>1. job.preserve = FALSE
    BY <1>0 DEF JobInv, TypeOK, Job
  <1>2. effect[job.n] \in {"none", "restored"} /\ NoRenameLate(job.n) /\ effect[job.n] # "moved"
    BY <1>0, <1>1, StepKinds DEF JobInv
  <1>3. Fails("failed", FALSE) /\ UNCHANGED <<fs, expired, effect, wasLive, changes, late, connected>>
    BY <1>1 DEF KnownFailure, Unmoved
  <1>4. job'.n = job.n
    BY <1>0, <1>3 DEF Fails, TypeOK, Job
  <1>5. NoRenameLate(job.n)'
    BY <1>2, <1>3, <1>4 DEF NoRenameLate, LateOf
  <1>6. connected' \in BOOLEAN
    BY <1>0, <1>3 DEF TypeOK
  <1> QED BY <1>0, <1>2, <1>3, <1>5, <1>6, FailsKeeps

\* Later the outcome is unknown and the backup is named.
LEMMA UnknownKeeps ==
  ASSUME IInv, job.pc \in Mutating \cup Checking, Unknown,
         UNCHANGED <<fs, expired, effect, wasLive, changes>>,
         connected' \in BOOLEAN, late' \in {late, Abandoned}
  PROVE  IInv'
  <1>0. TypeOK /\ JobInv /\ job.pc \in Calls /\ job.pc \notin Preparing
    BY DEF IInv, Calls, Mutating, Checking, Preparing
  <1>1. job.preserve = TRUE
    BY <1>0 DEF JobInv, TypeOK, Job
  <1>2. Fails("outcome_unknown", TRUE) /\ Locates(job.pc)
    BY <1>1 DEF Unknown, Locates
  <1> QED BY <1>0, <1>2, FailsKeeps

LEMMA AnsweredHasNoLate ==
  ASSUME IInv, job.pc \in Calls, reply \notin {Unsent, Refused}
  PROVE  LateOf(job.n) = {}
  BY DEF IInv, JobInv, BrokenIsFailing

\* An answer that lets the deployment go on to the next request.
LEMMA GoesOn ==
  ASSUME IInv, job.pc \in Calls, NEW pc \in Calls, Continue(pc), Unmoved,
         pc \in Preparing <=> job.pc \in Preparing,
         pc \in Uploaded /\ effect[job.n] = "none" => fs[Temp(job.n)] = New(job.n),
         LateOf(job.n) = {} \/
            (~connected /\ pc = "undoGone" /\ \A r \in LateOf(job.n) : r.pc = "activate"),
         pc \in Preparing => effect[job.n] = "none",
         pc = "backup" => effect[job.n] = "none",
         pc \in {"backed", "gone", "undoBacked", "activate", "undo"} => effect[job.n] = "moved",
         pc = "undoGone" => effect[job.n] = "moved" \/ ~connected
  PROVE  IInv'
  <1>0. TypeOK /\ JobInv /\ pc \in Steps
    BY StepKinds DEF IInv
  <1>1. job' = [job EXCEPT !.pc = pc] /\ reply' = Unsent /\ UNCHANGED result
    BY DEF Continue
  <1>2. job' \in Job /\ job'.n = job.n /\ job'.pc = pc /\ job'.preserve = job.preserve
    BY <1>0, <1>1 DEF TypeOK, Job
  <1>3. job'.preserve <=> job'.pc \notin Preparing
    BY <1>0, <1>2 DEF JobInv
  <1>4. effect' = effect /\ connected' = connected
    BY DEF Unmoved
  <1>5. Progress'
    BY <1>1, <1>2, <1>4, AnswersDiffer, StepKinds DEF Progress
  <1>6. \A r \in LateOf(job.n) : ~connected /\ job'.pc = "undoGone" /\ r.pc = "activate"
    BY <1>2
  <1> QED BY <1>1, <1>2, <1>3, <1>5, <1>6, ContinueKeeps

-----------------------------------------------------------------------------
LEMMA PrepareKeeps ==
  ASSUME IInv, Lstat \/ Create \/ Upload \/ CloseWriter \/ verifyDeploymentTemporary
                \/ LstatAgain \/ LstatBackup
  PROVE  IInv'
  <1> USE AnswersDiffer
  <1>0. TypeOK /\ FileInv /\ JobInv
    BY DEF IInv
  <1>1. job.pc \in Preparing /\ job.pc \in Calls /\ Unmoved
    BY DEF Lstat, Create, Upload, CloseWriter, verifyDeploymentTemporary, LstatAgain, LstatBackup,
           Answered, Preparing, Calls
  <1>2. effect[job.n] = "none" /\ job.preserve = FALSE
    BY <1>0, <1>1 DEF JobInv, Progress, TypeOK, Job
  <1>3. effect' = effect /\ connected' = connected /\ fs' = fs /\ late' = late
    BY <1>1 DEF Unmoved
  <1>4. ASSUME NEW pc \in {"close", "verify", "again", "free"}, Continue(pc), reply \notin {Unsent, Refused},
               fs[Temp(job.n)] = New(job.n)
        PROVE  IInv'
    <2>1. pc \in Preparing /\ pc \in Calls
      BY DEF Preparing, Calls
    <2>2. pc \notin {"backup", "backed", "gone", "undoBacked", "activate", "undo", "undoGone"}
      OBVIOUS
    <2>3. LateOf(job.n) = {}
      BY <1>1, <1>4, AnsweredHasNoLate
    <2> QED BY <1>1, <1>2, <1>4, <2>1, <2>2, <2>3, GoesOn
  <1>5. ASSUME job.pc \in Uploaded PROVE fs[Temp(job.n)] = New(job.n)
    BY <1>0, <1>2, <1>5 DEF JobInv
  <1>6. CASE Lstat
    <2>1. CASE KnownFailure
      BY <1>1, <2>1, KnownFailureKeeps
    <2>2. CASE /\ reply \notin {Refused, Absent, Irregular} /\ reply \notin {Unsent, Sent}
               /\ job' = [job EXCEPT !.pc = "create", !.snapshot = reply]
               /\ reply' = Unsent /\ UNCHANGED result
      <3>1. job'.n = job.n /\ job'.pc = "create" /\ job'.preserve = FALSE
        BY <1>0, <1>2, <2>2 DEF TypeOK, Job
      <3>2. job' \in Job
        <4>1. "create" \in Steps
          BY DEF Steps, Calls, Preparing
        <4>2. job.pc \in Inspecting
          BY <1>6 DEF Lstat, Answered, Inspecting
        <4>3. reply \in Contents
          BY <1>0, <2>2, <4>2 DEF TypeOK, JobInv
        <4> QED BY <1>0, <2>2, <4>1, <4>3 DEF TypeOK, Job
      <3>3. "create" \in Preparing /\ "create" \in Calls /\ "create" \notin Uploaded
        BY DEF Preparing, Calls, Uploaded
      <3>4. LateOf(job.n) = {}
        BY <1>1, <2>2, AnsweredHasNoLate
      <3>5. Progress'
        BY <1>2, <1>3, <3>1, <3>3 DEF Progress
      <3> QED BY <1>1, <2>2, <3>1, <3>2, <3>3, <3>4, <3>5, ContinueKeeps
    <2> QED BY <1>6, <2>1, <2>2 DEF Lstat, Answered
  <1>7. CASE Create
    <2>1. CASE KnownFailure
      BY <1>1, <2>1, KnownFailureKeeps
    <2>2. CASE /\ reply = Ok /\ job' = [job EXCEPT !.pc = "upload", !.created = TRUE]
               /\ reply' = Unsent /\ UNCHANGED result
      <3>1. job'.n = job.n /\ job'.pc = "upload" /\ job'.preserve = FALSE
        BY <1>0, <1>2, <2>2 DEF TypeOK, Job
      <3>2. job' \in Job
        <4>1. "upload" \in Steps
          BY DEF Steps, Calls, Preparing
        <4> QED BY <1>0, <2>2, <4>1 DEF TypeOK, Job
      <3>3. "upload" \in Preparing /\ "upload" \in Calls /\ "upload" \notin Uploaded
        BY DEF Preparing, Calls, Uploaded
      <3>4. LateOf(job.n) = {}
        BY <1>1, <2>2, AnsweredHasNoLate
      <3>5. Progress'
        BY <1>2, <1>3, <3>1, <3>3 DEF Progress
      <3> QED BY <1>1, <2>2, <3>1, <3>2, <3>3, <3>4, <3>5, ContinueKeeps
    <2> QED BY <1>7, <2>1, <2>2 DEF Create
  <1>8. CASE Upload
    <2>1. \/ KnownFailure
          \/ reply = Ok /\ fs[Temp(job.n)] = New(job.n) /\ Continue("close")
      BY <1>8 DEF Upload
    <2> QED BY <1>1, <1>4, <2>1, KnownFailureKeeps
  <1>9. CASE CloseWriter
    <2>1. KnownFailure \/ (reply = Ok /\ Continue("verify"))
      BY <1>9 DEF CloseWriter
    <2>2. fs[Temp(job.n)] = New(job.n)
      BY <1>5, <1>9 DEF CloseWriter, Answered, Uploaded
    <2> QED BY <1>1, <1>4, <2>1, <2>2, KnownFailureKeeps
  <1>10. CASE verifyDeploymentTemporary
    <2>1. KnownFailure \/ (reply = New(job.n) /\ Continue("again"))
      BY <1>10 DEF verifyDeploymentTemporary
    <2>2. fs[Temp(job.n)] = New(job.n)
      BY <1>5, <1>10 DEF verifyDeploymentTemporary, Answered, Uploaded
    <2>3. New(job.n) \notin {Unsent, Refused}
      <3>1. job.n \in Deployments
        BY <1>0, <1>1, StepKinds DEF JobInv
      <3>2. New(job.n) \in Contents
        BY <3>1, ContentsDiffer
      <3> QED BY <3>2
    <2> QED BY <1>1, <1>4, <2>1, <2>2, <2>3, KnownFailureKeeps
  <1>11. CASE LstatAgain
    <2>1. KnownFailure \/ (reply = job.snapshot /\ Continue("free"))
      BY <1>11 DEF LstatAgain
    <2>2. fs[Temp(job.n)] = New(job.n)
      BY <1>5, <1>11 DEF LstatAgain, Answered, Uploaded
    <2>3. job.snapshot \notin {Unsent, Refused}
      <3>1. job.snapshot \in Contents
        BY <1>0 DEF TypeOK, Job
      <3> QED BY <3>1
    <2> QED BY <1>1, <1>4, <2>1, <2>2, <2>3, KnownFailureKeeps
  <1>12. CASE LstatBackup
    <2>1. CASE KnownFailure
      BY <1>1, <2>1, KnownFailureKeeps
    <2>2. CASE reply = Absent /\ job' = Committed /\ reply' = Unsent /\ UNCHANGED result
      <3>1. /\ job'.n = job.n /\ job'.pc = "backup" /\ job'.preserve = TRUE
            /\ job' \in Job
        <4>1. "backup" \in Steps
          BY DEF Steps, Calls, Mutating
        <4> QED BY <1>0, <2>2, <4>1 DEF TypeOK, Job, Committed
      <3>2. "backup" \notin Preparing /\ "backup" \in Calls
        BY DEF Preparing, Calls, Mutating
      <3>3. LateOf(job.n) = {}
        <4>1. Absent \notin {Unsent, Refused}
          BY ContentsDiffer
        <4> QED BY <1>1, <2>2, <4>1, AnsweredHasNoLate
      <3>4. Progress'
        BY <1>2, <1>3, <2>2, <3>1, <3>2 DEF Progress
      <3>5. fs[Temp(job.n)] = New(job.n)
        BY <1>5, <1>12 DEF LstatBackup, Answered, Uploaded
      <3> QED BY <1>1, <2>2, <3>1, <3>2, <3>3, <3>4, <3>5, ContinueKeeps
    <2> QED BY <1>12, <2>1, <2>2 DEF LstatBackup
  <1> QED BY <1>6, <1>7, <1>8, <1>9, <1>10, <1>11, <1>12

LEMMA RenamesKeep ==
  ASSUME IInv, RenameBackup \/ VerifyBackup \/ VerifyGone \/ Activate
                \/ RollbackGone \/ RollbackBacked \/ Rollback
  PROVE  IInv'
  <1> USE AnswersDiffer
  <1>0. TypeOK /\ FileInv /\ JobInv
    BY DEF IInv
  <1>1. /\ job.pc \in Mutating \cup Checking /\ job.pc \in Calls /\ job.pc \notin Preparing /\ Unmoved
        /\ reply \notin {Unsent, Sent}
    BY DEF RenameBackup, VerifyBackup, VerifyGone, Activate, RollbackGone, RollbackBacked, Rollback,
           Answered, Preparing, Calls, Mutating, Checking
  <1>2. job.preserve = TRUE /\ job.n \in Deployments
    BY <1>0, <1>1, StepKinds DEF JobInv, TypeOK, Job
  <1>3. effect' = effect /\ connected' = connected /\ fs' = fs /\ late' = late
    BY <1>1 DEF Unmoved
  <1>4. ASSUME Unknown PROVE IInv'
    <2>1. connected' \in BOOLEAN /\ UNCHANGED <<fs, expired, effect, wasLive, changes>>
      BY <1>0, <1>1 DEF TypeOK, Unmoved
    <2> QED BY <1>1, <1>3, <1>4, <2>1, UnknownKeeps
  <1>5. ASSUME NEW pc \in {"backed", "gone", "activate", "undoGone", "undoBacked", "undo"}, Continue(pc),
               effect[job.n] = "moved", reply # Refused
        PROVE  IInv'
    <2>1. pc \notin Preparing /\ pc \in Calls /\ pc \notin Uploaded /\ pc # "backup"
      BY DEF Preparing, Calls, Mutating, Checking, Uploaded
    <2>2. LateOf(job.n) = {}
      BY <1>1, <1>5, AnsweredHasNoLate
    <2> QED BY <1>1, <1>5, <2>1, <2>2, GoesOn
  <1>6. ASSUME Fails("failed", FALSE), effect[job.n] \in {"none", "restored"}, reply # Refused
        PROVE  IInv'
    <2>1. LateOf(job.n) = {}
      BY <1>1, <1>6, AnsweredHasNoLate
    <2>2. job'.n = job.n
      BY <1>0, <1>6 DEF Fails, TypeOK, Job
    <2>3. NoRenameLate(job.n)'
      BY <1>3, <2>1, <2>2 DEF NoRenameLate, LateOf
    <2>4. connected' \in BOOLEAN /\ UNCHANGED <<fs, expired, effect, wasLive, changes>>
      BY <1>0, <1>1 DEF TypeOK, Unmoved
    <2> QED BY <1>1, <1>3, <1>6, <2>3, <2>4, FailsKeeps
  <1>7. Absent # Refused /\ job.snapshot # Refused
    <2>1. Absent \in Contents /\ job.snapshot \in Contents
      BY <1>0, ContentsDiffer DEF TypeOK, Job
    <2> QED BY <2>1
  <1>8. CASE RenameBackup
    <2>1. job.pc = "backup"
      BY <1>8 DEF RenameBackup, Answered
    <2>2. \/ reply = Exist /\ Fails("failed", FALSE)
          \/ Unknown
          \/ reply = Ok /\ Continue("backed")
      BY <1>8 DEF RenameBackup, NotMoved
    <2>3. (reply = Exist => effect[job.n] = "none") /\ (reply = Ok => effect[job.n] = "moved")
      BY <1>0, <2>1 DEF JobInv, Progress
    <2> QED BY <1>4, <1>5, <1>6, <2>2, <2>3
  <1>9. CASE VerifyBackup
    <2>1. Unknown \/ (reply = job.snapshot /\ Continue("gone"))
      BY <1>9 DEF VerifyBackup
    <2>2. effect[job.n] = "moved"
      BY <1>0, <1>9 DEF VerifyBackup, Answered, JobInv, Progress
    <2> QED BY <1>4, <1>5, <1>7, <2>1, <2>2
  <1>10. CASE VerifyGone
    <2>1. Unknown \/ (reply = Absent /\ Continue("activate"))
      BY <1>10 DEF VerifyGone
    <2>2. effect[job.n] = "moved"
      BY <1>0, <1>10 DEF VerifyGone, Answered, JobInv, Progress
    <2> QED BY <1>4, <1>5, <1>7, <2>1, <2>2
  <1>11. CASE Activate
    <2>0. job.pc = "activate"
      BY <1>11 DEF Activate, Answered
    <2>1. CASE reply # Ok /\ Continue("undoGone")
      <3>1. effect[job.n] = "moved" \/ ~connected
        BY <1>0, <1>1, <2>0, <2>1 DEF JobInv, Progress
      <3>2. \A r \in LateOf(job.n) : ~connected /\ r.pc = "activate"
        BY <1>0, <1>1, <2>0 DEF JobInv, BrokenIsFailing
      <3>3. "undoGone" \in Calls /\ "undoGone" \notin Preparing /\ "undoGone" \notin Uploaded
        BY DEF Calls, Checking, Preparing, Uploaded
      <3> QED BY <1>1, <2>1, <3>1, <3>2, <3>3, GoesOn
    <2>2. CASE /\ reply = Ok /\ job' = [job EXCEPT !.pc = "start", !.activated = TRUE]
               /\ reply' = Unsent /\ UNCHANGED result
      <3>1. /\ job'.n = job.n /\ job'.pc = "start" /\ job'.preserve = TRUE
            /\ job' \in Job
        BY <1>0, <1>2, <2>2, StepKinds DEF TypeOK, Job
      <3>2. "start" \notin Preparing /\ "start" \notin Uploaded
        BY DEF Preparing, Uploaded
      <3>3. LateOf(job.n) = {}
        BY <1>1, <2>2, AnsweredHasNoLate
      <3>4. Progress'
        BY <1>0, <1>3, <2>0, <2>2, <3>1, <3>2 DEF JobInv, Progress
      <3> QED BY <1>1, <2>2, <3>1, <3>2, <3>3, <3>4, ContinueKeeps
    <2> QED BY <1>11, <2>1, <2>2 DEF Activate
  <1>12. CASE RollbackGone
    <2>1. Unknown \/ (reply = Absent /\ Continue("undoBacked"))
      BY <1>12 DEF RollbackGone
    <2>2. reply = Absent => effect[job.n] = "moved"
      BY <1>0, <1>1, <1>7, <1>12 DEF RollbackGone, Answered, JobInv, Progress
    <2> QED BY <1>4, <1>5, <1>7, <2>1, <2>2
  <1>13. CASE RollbackBacked
    <2>1. Unknown \/ (reply = job.snapshot /\ Continue("undo"))
      BY <1>13 DEF RollbackBacked
    <2>2. effect[job.n] = "moved"
      BY <1>0, <1>13 DEF RollbackBacked, Answered, JobInv, Progress
    <2> QED BY <1>4, <1>5, <1>7, <2>1, <2>2
  <1>14. CASE Rollback
    <2>1. Unknown \/ (reply = Ok /\ Fails("failed", FALSE))
      BY <1>14 DEF Rollback
    <2>2. reply = Ok => effect[job.n] = "restored"
      BY <1>0, <1>14 DEF Rollback, Answered, JobInv, Progress
    <2> QED BY <1>4, <1>6, <2>1, <2>2
  <1> QED BY <1>8, <1>9, <1>10, <1>11, <1>12, <1>13, <1>14

\* The context ends: whatever is under way may still be served.
LEMMA GiveUpKeeps ==
  ASSUME IInv, GiveUp
  PROVE  IInv'
  <1>0. TypeOK /\ JobInv /\ FileInv
    BY DEF IInv
  <1>1. /\ job.pc \in Calls /\ late' = Abandoned /\ UNCHANGED <<fs, expired, effect, wasLive, changes>>
        /\ Unknown \/ (job.pc = "verify" /\ KnownFailure)
    BY DEF GiveUp
  <1>2. connected' \in BOOLEAN
    BY DEF GiveUp
  <1>3. CASE job.pc \in Mutating \cup Checking
    <2>1. Unknown
      BY <1>1, <1>3 DEF Mutating, Checking
    <2> QED BY <1>1, <1>2, <1>3, <2>1, UnknownKeeps
  <1>4. CASE job.pc \in Preparing
    <2>1. job.preserve = FALSE /\ effect[job.n] = "none" /\ NoRenameLate(job.n)
      BY <1>0, <1>1, <1>4, StepKinds DEF JobInv, Progress, TypeOK, Job
    <2>2. job'.n = job.n
      BY <1>0, <1>1 DEF Unknown, KnownFailure, Fails, TypeOK, Job
    <2>3. job.pc \notin Mutating
      BY <1>4, StepKinds
    <2>4. NoRenameLate(job.n)'
      BY <1>1, <2>1, <2>2, <2>3 DEF NoRenameLate, LateOf, Abandoned
    <2>5. Fails("outcome_unknown", FALSE) \/ Fails("failed", FALSE)
      BY <1>1, <2>1 DEF Unknown, KnownFailure
    <2> QED BY <1>1, <1>2, <2>1, <2>4, <2>5, FailsKeeps
  <1> QED BY <1>1, <1>3, <1>4 DEF Calls

-----------------------------------------------------------------------------
(* Requests are sent. *)

LEMMA IssueKeeps ==
  ASSUME IInv, Issue
  PROVE  IInv'
  <1> USE AnswersDiffer, StepKinds
  <1>0. TypeOK /\ FileInv /\ JobInv /\ ResultInv
    BY DEF IInv
  <1>1. /\ job.pc \in Calls /\ reply = Unsent /\ reply' = (IF connected THEN Sent ELSE Refused)
        /\ fs' = fs /\ job' = job /\ connected' = connected /\ expired' = expired /\ late' = late
        /\ result' = result /\ effect' = effect /\ wasLive' = wasLive /\ changes' = changes
    BY DEF Issue
  <1>2. TypeOK'
    BY <1>0, <1>1 DEF TypeOK
  <1>3. LateOf(job.n)' = LateOf(job.n) /\ \A d : NoRenameLate(d)' <=> NoRenameLate(d)
    BY <1>1 DEF LateOf, NoRenameLate
  <1>4. connected => LateOf(job.n) = {}
    BY <1>0, <1>1 DEF JobInv, BrokenIsFailing
  <1>5. JobInv'
    <2>1. FutureIsFresh'
      BY <1>0, <1>1 DEF JobInv, FutureIsFresh
    <2>2. BrokenIsFailing'
      BY <1>0, <1>1, <1>3, <1>4 DEF JobInv, BrokenIsFailing
    <2>3. Progress'
      BY <1>0, <1>1 DEF JobInv, Progress
    <2> QED BY <1>0, <1>1, <1>3, <2>1, <2>2, <2>3 DEF JobInv
  <1>6. FileInv'
    <2>1. CASE ~connected
      <3>1. Pending' \subseteq Pending
        BY <1>1, <2>1 DEF Pending
      <3> QED BY <1>0, <1>1, <3>1, FilesStay
    <2>2. CASE connected
      <3> DEFINE r == [n |-> job.n, pc |-> job.pc]
      <3>0. r.n = job.n /\ r.pc = job.pc
        OBVIOUS
      <3>1. Pending = late /\ Pending' = late \cup {r}
        BY <1>1, <2>2 DEF Pending
      <3>2. job.n \in Deployments
        BY <1>0, <1>1 DEF JobInv
      <3>3. \A q \in late : q.n # job.n
        BY <1>4, <2>2 DEF LateOf
      <3>4. PendingIsBegun'
        BY <1>0, <3>0, <3>1, <3>2 DEF FileInv, PendingIsBegun
      <3>5. RenamesWait'
        <4>1. job.pc = "backup" => effect[job.n] = "none" /\ fs[Temp(job.n)] = New(job.n)
          BY <1>0, <1>1 DEF JobInv, Progress, Uploaded
        <4>2. job.pc \in {"activate", "undo"} => effect[job.n] = "moved"
          BY <1>0, <1>1 DEF JobInv, Progress
        <4> QED BY <1>0, <1>1, <3>0, <3>1, <4>1, <4>2 DEF FileInv, RenamesWait
      <3>6. WritesAreEarly'
        <4>1. job.pc \in {"create", "upload", "cleanup"} => effect[job.n] = "none"
          BY <1>0, <1>1 DEF JobInv, Progress, Preparing
        <4> QED BY <1>0, <1>1, <3>0, <3>1, <4>1 DEF FileInv, WritesAreEarly
      <3>7. RenameIsAlone'
        BY <1>0, <1>1, <3>0, <3>1, <3>3 DEF FileInv, RenameIsAlone
      <3> QED BY <1>0, <1>1, <3>4, <3>5, <3>6, <3>7
              DEF FileInv, TempIsOwn, OwnIsHidden, NothingIsLost, Recoverable
    <2> QED BY <2>1, <2>2
  <1>7. ResultInv'
    BY <1>0, <1>1, <1>3 DEF ResultInv, Told
  <1> QED BY <1>2, <1>5, <1>6, <1>7 DEF IInv

LEMMA IssueRemoveKeeps ==
  ASSUME IInv, IssueRemove
  PROVE  IInv'
  <1> USE AnswersDiffer, StepKinds
  <1>0. TypeOK /\ FileInv /\ JobInv /\ ResultInv
    BY DEF IInv
  <1>1. /\ job.pc = "cleanup" /\ reply = Unsent /\ reply' = Sent /\ ~job.preserve
        /\ fs' = fs /\ job' = job /\ connected' = connected /\ expired' = expired /\ late' = late
        /\ result' = result /\ effect' = effect /\ wasLive' = wasLive /\ changes' = changes
    BY DEF IssueRemove, Removes
  <1>2. TypeOK'
    BY <1>0, <1>1 DEF TypeOK
  <1>3. LateOf(job.n)' = LateOf(job.n) /\ \A d : NoRenameLate(d)' <=> NoRenameLate(d)
    BY <1>1 DEF LateOf, NoRenameLate
  <1>4. JobInv'
    <2>1. FutureIsFresh'
      BY <1>0, <1>1 DEF JobInv, FutureIsFresh
    <2>2. BrokenIsFailing' /\ Progress'
      BY <1>1 DEF BrokenIsFailing, Progress, Preparing
    <2>3. job.pc \notin Inspecting /\ job.pc \notin Uploaded
      BY <1>1 DEF Inspecting, Uploaded
    <2> QED BY <1>0, <1>1, <1>3, <2>1, <2>2, <2>3 DEF JobInv
  <1>5. FileInv'
    <2> DEFINE r == [n |-> job.n, pc |-> job.pc]
    <2>0. r.n = job.n /\ r.pc = "cleanup" /\ "cleanup" \notin Mutating
      BY <1>1 DEF Mutating
    <2>1. Pending = late /\ Pending' = late \cup {r}
      BY <1>1 DEF Pending
    <2>2. job.n \in Deployments /\ effect[job.n] \in {"none", "restored"} /\ NoRenameLate(job.n)
      BY <1>0, <1>1 DEF JobInv
    <2>3. \A q \in late : q.n = job.n => q.pc \notin Mutating
      BY <2>2 DEF NoRenameLate, LateOf
    <2>4. PendingIsBegun' /\ WritesAreEarly'
      BY <1>0, <1>1, <2>0, <2>1, <2>2 DEF FileInv, PendingIsBegun, WritesAreEarly
    <2>5. RenamesWait'
      BY <1>0, <1>1, <2>0, <2>1 DEF FileInv, RenamesWait
    <2>6. RenameIsAlone'
      BY <1>0, <1>1, <2>0, <2>1, <2>3 DEF FileInv, RenameIsAlone
    <2> QED BY <1>0, <1>1, <2>4, <2>5, <2>6
            DEF FileInv, TempIsOwn, OwnIsHidden, NothingIsLost, Recoverable
  <1>6. ResultInv'
    BY <1>0, <1>1, <1>3 DEF ResultInv, Told
  <1> QED BY <1>2, <1>4, <1>5, <1>6 DEF IInv

-----------------------------------------------------------------------------
(* Deployments begin and end. *)

LEMMA StartActionKeeps ==
  ASSUME IInv, StartAction
  PROVE  IInv'
  <1> USE AnswersDiffer, StepKinds
  <1>0. TypeOK /\ FileInv /\ JobInv /\ ResultInv
    BY DEF IInv
  <1>1. PICK status \in {"completed", "failed", "outcome_unknown"} :
          result' = [result EXCEPT ![job.n] = [status |-> status, located |-> TRUE, activated |-> TRUE]]
    BY DEF StartAction
  <1>2. /\ job.pc = "start" /\ job' = [job EXCEPT !.pc = "cleanup"]
        /\ fs' = fs /\ reply' = reply /\ connected' = connected /\ expired' = expired /\ late' = late
        /\ effect' = effect /\ wasLive' = wasLive /\ changes' = changes
    BY DEF StartAction, session
  <1>3. job' \in Job /\ job'.n = job.n /\ job'.pc = "cleanup" /\ job'.preserve = job.preserve
    BY <1>0, <1>2 DEF TypeOK, Job
  <1>4. /\ job.n \in Deployments /\ effect[job.n] = "activated" /\ reply = Unsent /\ LateOf(job.n) = {}
        /\ job.preserve
    BY <1>0, <1>2, StepKinds DEF JobInv, Progress, BrokenIsFailing, Preparing
  <1>5. TypeOK'
    <2>1. [status |-> status, located |-> TRUE, activated |-> TRUE] \in Result
      BY DEF Result
    <2> QED BY <1>0, <1>1, <1>2, <1>3, <2>1 DEF TypeOK
  <1>6. FileInv'
    <2>1. Pending' \subseteq Pending
      BY <1>2, <1>4 DEF Pending
    <2> QED BY <1>0, <1>2, <2>1, FilesStay
  <1>7. \A d : NoRenameLate(d)' <=> NoRenameLate(d)
    BY <1>2 DEF LateOf, NoRenameLate
  <1>8. JobInv'
    <2>1. FutureIsFresh'
      BY <1>0, <1>1, <1>2, <1>3, <1>4 DEF TypeOK, JobInv, FutureIsFresh, Deployments
    <2>2. BrokenIsFailing' /\ Progress'
      BY <1>3 DEF BrokenIsFailing, Progress, Preparing
    <2>3. job'.pc \notin Inspecting /\ job'.pc \notin Uploaded
      BY <1>3 DEF Inspecting, Uploaded
    <2> QED BY <1>3, <1>4, <2>1, <2>2, <2>3 DEF JobInv
  <1>9. ResultInv'
    <2>1. ASSUME NEW d \in Deployments, Told(d)'
          PROVE  /\ (effect[d] = "moved" \/ ~NoRenameLate(d))
                       => result'[d].status = "outcome_unknown" /\ result'[d].located
                 /\ result'[d].status = "failed" /\ ~result'[d].activated
                       => effect[d] \in {"none", "restored"} /\ NoRenameLate(d)
                 /\ result'[d].activated => effect[d] = "activated"
      <3>1. CASE d # job.n
        <4>1. result'[d] = result[d]
          BY <1>0, <1>1, <3>1 DEF TypeOK
        <4> QED BY <1>0, <2>1, <4>1 DEF ResultInv, Told
      <3>2. CASE d = job.n
        <4>1. result'[d].activated = TRUE
          BY <1>0, <1>1, <3>2 DEF TypeOK
        <4>2. NoRenameLate(d)
          BY <1>4, <3>2 DEF NoRenameLate
        <4> QED BY <1>4, <3>2, <4>1, <4>2
      <3> QED BY <3>1, <3>2
    <2> QED BY <1>2, <1>7, <2>1 DEF ResultInv
  <1> QED BY <1>5, <1>6, <1>8, <1>9 DEF IInv

\* Between two deployments: what was said of the first stays true.
LEMMA IdleKeeps ==
  ASSUME IInv, job' \in Job, job'.pc = "idle", job'.n >= job.n, reply' = Unsent,
         connected' \in BOOLEAN, expired' \in BOOLEAN,
         UNCHANGED <<fs, late, effect, wasLive, changes>>,
         result' \in [Deployments -> Result],
         \A d \in Deployments : result'[d] # result[d] =>
            d <= job'.n /\ d > job.n /\ result'[d].status # "failed" /\ ~result'[d].activated
  PROVE  IInv'
  <1> USE AnswersDiffer, StepKinds
  <1>0. TypeOK /\ FileInv /\ JobInv /\ ResultInv
    BY DEF IInv
  <1>1. TypeOK'
    BY <1>0 DEF TypeOK
  <1>2. FileInv'
    <2>1. Pending' \subseteq Pending
      BY DEF Pending
    <2> QED BY <1>0, <2>1, FilesStay
  <1>3. \A d : NoRenameLate(d)' <=> NoRenameLate(d)
    BY DEF LateOf, NoRenameLate
  <1>4. job.n \in Nat /\ job'.n \in Nat /\ late \subseteq Request
    BY <1>0 DEF TypeOK, Job
  <1>5. FutureIsFresh'
    <2>1. \A d \in Deployments : d > job'.n => effect'[d] = "none" /\ result'[d] = NoResult
      BY <1>0, <1>4 DEF JobInv, FutureIsFresh, Deployments
    <2>2. \A r \in late' : r.n <= job'.n
      BY <1>0, <1>4 DEF JobInv, FutureIsFresh, Deployments, Request
    <2> QED BY <2>1, <2>2 DEF FutureIsFresh
  <1>6. JobInv'
    <2>1. BrokenIsFailing' /\ Progress'
      BY DEF BrokenIsFailing, Progress, Preparing
    <2>2. job'.pc \notin Inspecting /\ job'.pc \notin Uploaded
      BY DEF Inspecting, Uploaded
    <2> QED BY <1>5, <2>1, <2>2 DEF JobInv
  <1>7. ResultInv'
    <2>1. ASSUME NEW d \in Deployments, result'[d] # result[d]
          PROVE  effect[d] = "none" /\ NoRenameLate(d)
      <3>1. effect[d] = "none" /\ LateOf(d) = {}
        BY <1>0, <1>4, <2>1 DEF JobInv, FutureIsFresh, LateOf, Deployments, Request
      <3> QED BY <3>1 DEF NoRenameLate
    <2>2. \A d \in Deployments : result'[d] = result[d] => (Told(d)' <=> Told(d))
      BY DEF Told
    <2> QED BY <1>0, <1>3, <2>1, <2>2 DEF ResultInv
  <1> QED BY <1>1, <1>2, <1>6, <1>7 DEF IInv

LEMMA ReturnedKeeps ==
  ASSUME IInv, Returned
  PROVE  IInv'
  <1>0. TypeOK
    BY DEF IInv
  <1>1. /\ job' = [NoJob EXCEPT !.n = job.n] /\ reply' = Unsent /\ connected' = FALSE
        /\ UNCHANGED <<fs, expired, late, result, effect, wasLive, changes>>
    BY DEF Returned
  <1>2. job' \in Job /\ job'.pc = "idle" /\ job'.n = job.n /\ job.n \in Nat
    <2>1. NoJob.pc = "idle"
      BY DEF NoJob
    <2> QED BY <1>0, <1>1, <2>1, Defaults DEF TypeOK, Job
  <1>3. expired' \in BOOLEAN /\ result' \in [Deployments -> Result]
    BY <1>0, <1>1 DEF TypeOK
  <1>4. /\ UNCHANGED <<fs, late, effect, wasLive, changes>> /\ \A d \in Deployments : result'[d] = result[d]
        /\ job'.n >= job.n
    BY <1>1, <1>2
  <1> QED BY <1>1, <1>2, <1>3, <1>4, IdleKeeps

LEMMA EndsBeforeKeeps ==
  ASSUME IInv, NEW status \in {"rejected", "not_dispatched", "outcome_unknown"}, EndsBefore(status)
  PROVE  IInv'
  <1>0. TypeOK /\ JobInv
    BY DEF IInv
  <1>1. /\ job.pc = "idle" /\ job.n < MaxDeployments /\ job' = [NoJob EXCEPT !.n = job.n + 1]
        /\ result' = [result EXCEPT ![job.n + 1].status = status]
        /\ fs' = fs /\ reply' = reply /\ connected' = connected /\ expired' = expired /\ late' = late
        /\ effect' = effect /\ wasLive' = wasLive /\ changes' = changes
    BY DEF EndsBefore, session
  <1>2. job.n \in Nat /\ job.n + 1 \in 0..MaxDeployments /\ job.n + 1 \in Deployments
    BY <1>0, <1>1, BoundsAssumption DEF TypeOK, Job, Deployments
  <1>3. job' \in Job /\ job'.pc = "idle" /\ job'.n = job.n + 1
    <2>1. NoJob.pc = "idle"
      BY DEF NoJob
    <2> QED BY <1>1, <1>2, <2>1, Defaults DEF Job
  <1>4. reply' = Unsent
    BY <1>0, <1>1 DEF JobInv
  <1>5. connected' \in BOOLEAN /\ expired' \in BOOLEAN
    BY <1>0, <1>1 DEF TypeOK
  <1>6. result' \in [Deployments -> Result]
    <2>1. ASSUME NEW x \in Result PROVE [x EXCEPT !.status = status] \in Result
      BY DEF Result
    <2>2. result \in [Deployments -> Result]
      BY <1>0 DEF TypeOK
    <2> QED BY <1>1, <1>2, <2>1, <2>2
  <1>7. \A d \in Deployments : result'[d] # result[d] => d = job.n + 1
    BY <1>0, <1>1 DEF TypeOK
  <1>8. result'[job.n + 1].status = status /\ result'[job.n + 1].activated = FALSE
    <2>1. result[job.n + 1] = NoResult
      BY <1>0, <1>2 DEF JobInv, FutureIsFresh, Deployments
    <2>2. result'[job.n + 1] = [NoResult EXCEPT !.status = status]
      BY <1>0, <1>1, <1>2, <2>1 DEF TypeOK
    <2> QED BY <2>2 DEF NoResult
  <1>9. \A d \in Deployments : result'[d] # result[d] =>
            d <= job'.n /\ d > job.n /\ result'[d].status # "failed" /\ ~result'[d].activated
    BY <1>2, <1>3, <1>7, <1>8
  <1> QED BY <1>1, <1>2, <1>3, <1>4, <1>5, <1>6, <1>9, IdleKeeps

LEMMA DeployKeeps ==
  ASSUME IInv, Deploy
  PROVE  IInv'
  <1> USE AnswersDiffer, StepKinds
  <1>0. TypeOK /\ FileInv /\ JobInv /\ ResultInv
    BY DEF IInv
  <1>1. /\ job.pc = "idle" /\ job.n < MaxDeployments
        /\ job' = [NoJob EXCEPT !.n = job.n + 1, !.pc = "lstat"]
        /\ reply' = Unsent /\ connected' = TRUE /\ expired' = FALSE
        /\ fs' = fs /\ late' = late /\ result' = result
        /\ effect' = effect /\ wasLive' = wasLive /\ changes' = changes
    BY DEF Deploy
  <1>2. job.n \in Nat /\ job.n + 1 \in 0..MaxDeployments /\ job.n + 1 \in Deployments
    BY <1>0, <1>1, BoundsAssumption DEF TypeOK, Job, Deployments
  <1>3. "lstat" \in Calls /\ "lstat" \in Preparing /\ "lstat" \notin Uploaded
    BY DEF Calls, Preparing, Uploaded
  <1>4. job' \in Job /\ job'.pc = "lstat" /\ job'.n = job.n + 1 /\ job'.preserve = FALSE
    <2>1. NoJob.preserve = FALSE
      BY DEF NoJob
    <2> QED BY <1>1, <1>2, <1>3, <2>1, Defaults DEF Job
  <1>5. TypeOK'
    BY <1>0, <1>1, <1>4 DEF TypeOK
  <1>6. FileInv'
    <2>1. Pending' \subseteq Pending
      BY <1>1 DEF Pending
    <2> QED BY <1>0, <1>1, <2>1, FilesStay
  <1>7. \A d : NoRenameLate(d)' <=> NoRenameLate(d)
    BY <1>1 DEF LateOf, NoRenameLate
  <1>8. effect[job.n + 1] = "none" /\ result[job.n + 1] = NoResult /\ LateOf(job.n + 1) = {}
    BY <1>0, <1>2 DEF TypeOK, Request, JobInv, FutureIsFresh, LateOf, Deployments
  <1>9. JobInv'
    <2>1. FutureIsFresh'
      BY <1>0, <1>1, <1>2, <1>4 DEF TypeOK, Request, JobInv, FutureIsFresh, Deployments
    <2>2. LateOf(job.n)' = {}
      BY <1>1, <1>4, <1>8 DEF LateOf
    <2>3. BrokenIsFailing' /\ NoRenameLate(job.n)'
      BY <2>2 DEF BrokenIsFailing, NoRenameLate
    <2>4. Progress'
      BY <1>1, <1>3, <1>4, <1>8 DEF Progress
    <2> QED BY <1>1, <1>2, <1>3, <1>4, <1>8, <2>1, <2>3, <2>4 DEF JobInv
  <1>10. ResultInv'
    BY <1>0, <1>1, <1>7 DEF ResultInv, Told
  <1> QED BY <1>5, <1>6, <1>9, <1>10 DEF IInv

-----------------------------------------------------------------------------
(* The connection, the context and other users *)

LEMMA ConnectionBreaksKeeps ==
  ASSUME IInv, ConnectionBreaks
  PROVE  IInv'
  <1> USE AnswersDiffer, StepKinds
  <1>0. TypeOK /\ FileInv /\ JobInv /\ ResultInv
    BY DEF IInv
  <1>1. /\ connected /\ connected' = FALSE /\ late' = Abandoned
        /\ reply' = (IF reply = Sent THEN Refused ELSE reply)
        /\ fs' = fs /\ job' = job /\ expired' = expired /\ result' = result
        /\ effect' = effect /\ wasLive' = wasLive /\ changes' = changes
    BY DEF ConnectionBreaks
  <1>2. reply = Sent => job.n \in Deployments /\ job.pc # "idle" /\ job.pc # "start"
    BY <1>0 DEF JobInv
  <1>3. late' \subseteq Request /\ Pending' \subseteq Pending
    BY <1>0, <1>1, <1>2 DEF TypeOK, Abandoned, Pending, Request
  <1>4. TypeOK' /\ FileInv'
    BY <1>0, <1>1, <1>3, FilesStay DEF TypeOK
  <1>5. \A d \in Deployments : job.pc \notin Mutating \/ reply # Sent \/ d # job.n => (NoRenameLate(d)' <=> NoRenameLate(d))
    <2>1. ASSUME NEW d \in Deployments, job.pc \notin Mutating \/ reply # Sent \/ d # job.n
          PROVE  NoRenameLate(d)' <=> NoRenameLate(d)
      BY <1>1, <2>1 DEF NoRenameLate, LateOf, Abandoned
    <2> QED BY <2>1
  <1>6. JobInv'
    <2>1. FutureIsFresh'
      BY <1>0, <1>1, <1>2 DEF JobInv, FutureIsFresh, Abandoned, Deployments
    <2>2. BrokenIsFailing'
      <3>1. SUFFICES ASSUME job.pc \in Calls \cup {"start"}, NEW r \in late', r.n = job.n
                     PROVE  reply' = Refused /\ r.pc = job.pc
        BY <1>1 DEF BrokenIsFailing, LateOf
      <3>2. r \notin late
        BY <1>0, <1>1, <3>1 DEF JobInv, BrokenIsFailing, LateOf
      <3> QED BY <1>1, <3>1, <3>2 DEF Abandoned
    <2>3. Progress'
      BY <1>0, <1>1 DEF JobInv, Progress
    <2>4. job.pc # "idle" /\ ~job.preserve => NoRenameLate(job.n)'
      <3>1. SUFFICES ASSUME job.pc # "idle", ~job.preserve PROVE NoRenameLate(job.n)'
        OBVIOUS
      <3>2. job.pc \notin Mutating
        BY <1>0, <3>1 DEF JobInv, Calls
      <3>3. job.n \in Deployments /\ NoRenameLate(job.n)
        BY <1>0, <3>1 DEF JobInv
      <3> QED BY <1>1, <1>5, <3>2, <3>3 DEF NoRenameLate, LateOf, Abandoned
    <2> QED BY <1>0, <1>1, <2>1, <2>2, <2>3, <2>4 DEF JobInv
  <1>7. ResultInv'
    <2>1. ASSUME NEW d \in Deployments, Told(d) PROVE NoRenameLate(d)' <=> NoRenameLate(d)
      <3>1. d = job.n => job.pc \notin Mutating
        BY <1>0, <2>1 DEF JobInv, Told, NoResult, Calls
      <3> QED BY <1>5, <3>1
    <2> QED BY <1>0, <1>1, <2>1 DEF ResultInv, Told
  <1> QED BY <1>4, <1>6, <1>7 DEF IInv

LEMMA ContextDoneKeeps ==
  ASSUME IInv, ContextDone
  PROVE  IInv'
  <1>0. TypeOK /\ FileInv /\ JobInv /\ ResultInv
    BY DEF IInv
  <1>1. /\ expired' = TRUE /\ fs' = fs /\ job' = job /\ reply' = reply /\ connected' = connected
        /\ late' = late /\ result' = result /\ effect' = effect /\ wasLive' = wasLive /\ changes' = changes
    BY DEF ContextDone
  <1>2. TypeOK'
    BY <1>0, <1>1 DEF TypeOK
  <1>3. FileInv'
    BY <1>0, <1>1, FilesStay DEF Pending
  <1>4. LateOf(job.n)' = LateOf(job.n) /\ \A d : NoRenameLate(d)' <=> NoRenameLate(d)
    BY <1>1 DEF LateOf, NoRenameLate
  <1>5. FutureIsFresh' /\ BrokenIsFailing' /\ Progress'
    BY <1>0, <1>1, <1>4 DEF JobInv, FutureIsFresh, BrokenIsFailing, Progress
  <1>6. JobInv'
    BY <1>0, <1>1, <1>4, <1>5 DEF JobInv
  <1>7. ResultInv'
    BY <1>0, <1>1, <1>4 DEF ResultInv, Told
  <1> QED BY <1>2, <1>3, <1>6, <1>7 DEF IInv

LEMMA ChangeKeeps ==
  ASSUME IInv, Change
  PROVE  IInv'
  <1> USE PathsDiffer, ContentsDiffer
  <1>0. TypeOK /\ FileInv /\ JobInv /\ ResultInv
    BY DEF IInv
  <1>1. /\ changes < MaxChanges /\ changes' = changes + 1
        /\ job' = job /\ reply' = reply /\ connected' = connected /\ expired' = expired
        /\ late' = late /\ result' = result /\ effect' = effect
    BY DEF Change, session
  <1>2. PICK c \in {Absent, Other(changes + 1)} :
          fs' = [fs EXCEPT ![Live] = c] /\ wasLive' = (wasLive \ {fs[Live]}) \cup ({c} \ {Absent})
    BY DEF Change
  <1>3. changes + 1 \in 1..MaxChanges /\ changes + 1 \in 0..MaxChanges
    BY <1>0, <1>1, BoundsAssumption DEF TypeOK
  <1>4. c \in Contents /\ \A d \in Deployments : c # New(d) /\ c # Bad(d)
    BY <1>3
  <1>5. fs \in [Paths -> Contents] /\ wasLive \subseteq Contents
    BY <1>0 DEF TypeOK
  <1>6. fs' \in [Paths -> Contents] /\ fs'[Live] = c /\ \A p \in Paths \ {Live} : fs'[p] = fs[p]
    BY <1>2, <1>4, <1>5
  <1>7. TypeOK'
    <2>1. wasLive' \subseteq Contents
      BY <1>2, <1>4, <1>5
    <2> QED BY <1>0, <1>1, <1>3, <1>6, <2>1 DEF TypeOK
  <1>8. FileInv'
    <2>0. Pending' = Pending
      BY <1>1 DEF Pending
    <2>1. PendingIsBegun' /\ WritesAreEarly' /\ RenameIsAlone'
      BY <1>0, <1>1, <2>0 DEF FileInv, PendingIsBegun, WritesAreEarly, RenameIsAlone
    <2>2. RenamesWait'
      BY <1>0, <1>1, <1>6, <2>0 DEF FileInv, PendingIsBegun, RenamesWait
    <2>3. TempIsOwn' /\ Recoverable'
      BY <1>0, <1>1, <1>6 DEF FileInv, TempIsOwn, Recoverable
    <2>4. OwnIsHidden'
      BY <1>0, <1>1, <1>2, <1>4, <1>6 DEF FileInv, OwnIsHidden
    <2>5. (Absent \notin wasLive)'
      BY <1>0, <1>2 DEF FileInv
    <2>6. NothingIsLost'
      <3>1. ASSUME NEW x \in wasLive' PROVE \E p \in Paths : fs'[p] = x
        <4>1. CASE x = c
          BY <1>6, <4>1
        <4>2. CASE x # c
          <5>1. x \in wasLive /\ x # fs[Live]
            BY <1>2, <4>2
          <5>2. PICK p \in Paths : fs[p] = x
            BY <1>0, <5>1 DEF FileInv, NothingIsLost
          <5> QED BY <1>6, <5>1, <5>2
        <4> QED BY <4>1, <4>2
      <3> QED BY <3>1 DEF NothingIsLost
    <2> QED BY <2>1, <2>2, <2>3, <2>4, <2>5, <2>6 DEF FileInv
  <1>9. LateOf(job.n)' = LateOf(job.n) /\ \A d : NoRenameLate(d)' <=> NoRenameLate(d)
    BY <1>1 DEF LateOf, NoRenameLate
  <1>10. FutureIsFresh' /\ BrokenIsFailing' /\ Progress'
    BY <1>0, <1>1, <1>9 DEF JobInv, FutureIsFresh, BrokenIsFailing, Progress
  <1>11. JobInv'
    <2>1. job.pc \in Uploaded => fs'[Temp(job.n)] = fs[Temp(job.n)]
      BY <1>0, <1>6 DEF JobInv, Uploaded
    <2> QED BY <1>0, <1>1, <1>9, <1>10, <2>1 DEF JobInv
  <1>12. ResultInv'
    BY <1>0, <1>1, <1>9 DEF ResultInv, Told
  <1> QED BY <1>7, <1>8, <1>11, <1>12 DEF IInv

-----------------------------------------------------------------------------
(* Requests are served. *)

\* A request that only looks, or is refused, changes nothing but the answer.
LEMMA AnswerKeeps ==
  ASSUME IInv, reply = Sent, connected,
         UNCHANGED <<fs, job, connected, expired, late, result, effect, wasLive, changes>>,
         reply' \in {Ok, Exist, Refused} \cup Contents,
         reply' = Ok => job.pc = "close", reply' = Exist => job.pc \in Mutating
  PROVE  IInv'
  <1> USE AnswersDiffer, StepKinds
  <1>0. TypeOK /\ FileInv /\ JobInv /\ ResultInv
    BY DEF IInv
  <1>1. TypeOK'
    BY <1>0 DEF TypeOK
  <1>2. FileInv'
    <2>1. Pending' \subseteq Pending
      BY DEF Pending
    <2> QED BY <1>0, <2>1, FilesStay
  <1>3. LateOf(job.n)' = LateOf(job.n) /\ \A d : NoRenameLate(d)' <=> NoRenameLate(d)
    BY DEF LateOf, NoRenameLate
  <1>4. reply' \notin {Unsent, Sent} /\ job.pc # "idle" /\ job.pc # "start"
    BY <1>0 DEF JobInv
  <1>5. JobInv'
    <2>1. FutureIsFresh' /\ BrokenIsFailing'
      BY <1>0, <1>3 DEF JobInv, FutureIsFresh, BrokenIsFailing
    <2>2. Progress'
      BY <1>0, <1>4 DEF JobInv, Progress, Preparing, Mutating
    <2>3. job.pc \in Inspecting => reply' \notin {Ok, Exist}
      BY DEF Inspecting, Mutating
    <2> QED BY <1>0, <1>3, <1>4, <2>1, <2>2, <2>3 DEF JobInv
  <1>6. ResultInv'
    BY <1>0, <1>3 DEF ResultInv, Told
  <1> QED BY <1>1, <1>2, <1>5, <1>6 DEF IInv

LEMMA ServeKeeps ==
  ASSUME IInv, Serve
  PROVE  IInv'
  <1> USE AnswersDiffer, StepKinds
  <1>0. TypeOK /\ FileInv /\ JobInv /\ ResultInv
    BY DEF IInv
  <1>1. /\ reply = Sent /\ connected
        /\ job' = job /\ connected' = connected /\ expired' = expired /\ late' = late
        /\ result' = result /\ changes' = changes
    BY DEF Serve
  <1>2. job.n \in Deployments /\ job.pc \notin {"idle", "start"}
    BY <1>0, <1>1 DEF JobInv
  <1>3. CASE /\ UNCHANGED <<fs, effect, wasLive>>
             /\ \/ job.pc \in Inspecting /\ reply' = fs[Inspected(job.n, job.pc)]
                \/ job.pc = "close" /\ reply' = Ok
                \/ job.pc \in Mutating /\ reply' = Exist
                \/ reply' = Refused
    <2>1. Inspected(job.n, job.pc) \in Paths
      BY <1>2, PathsDiffer DEF Inspected
    <2>2. fs[Inspected(job.n, job.pc)] \in Contents
      BY <1>0, <2>1 DEF TypeOK
    <2> QED BY <1>1, <1>3, <2>2, AnswerKeeps
  <1>4. CASE job.pc \notin Inspecting /\ Executes(job.n, job.pc) /\ reply' = Ok
    <2> DEFINE r == [n |-> job.n, pc |-> job.pc]
    <2>0. r.n = job.n /\ r.pc = job.pc /\ r \in Pending /\ Pending' = late
      BY <1>1, <1>4 DEF Pending
    <2>1. LateOf(job.n)' = LateOf(job.n) /\ \A d : NoRenameLate(d)' <=> NoRenameLate(d)
      BY <1>1 DEF LateOf, NoRenameLate
    <2>2. job.pc \in Calls => LateOf(job.n) = {}
      BY <1>0, <1>1 DEF JobInv, BrokenIsFailing
    <2>3. CASE job.pc \in Mutating
      <3>1. job.pc \in Calls /\ job.pc \in {"backup", "activate", "undo"}
        BY <2>3 DEF Calls, Mutating
      <3>2. Pending' \subseteq Pending \ {r}
        <4>1. r \notin late
          BY <2>0, <2>2, <3>1 DEF LateOf
        <4> QED BY <2>0, <4>1 DEF Pending
      <3>3. FileInv'
        BY <1>0, <1>2, <1>4, <2>0, <2>3, <3>2, RenameKeepsFiles
      <3>4. /\ fs' \in [Paths -> Contents] /\ wasLive' \subseteq Contents
            /\ effect' \in [Deployments -> {"none", "moved", "activated", "restored"}]
            /\ effect'[job.n] = Effect(job.pc) /\ \A e \in Deployments \ {job.n} : effect'[e] = effect[e]
        BY <1>0, <1>2, <1>4, <2>3, RenameDoes
      <3>5. TypeOK'
        BY <1>0, <1>1, <1>4, <3>4 DEF TypeOK
      <3>6. /\ job.pc = "backup" => effect'[job.n] = "moved"
            /\ job.pc = "activate" => effect'[job.n] = "activated"
            /\ job.pc = "undo" => effect'[job.n] = "restored"
        BY <1>2, <3>4, RenamePaths
      <3>7. JobInv'
        <4>1. job.pc \notin Preparing /\ job.preserve = TRUE /\ job.pc \notin Inspecting
          BY <1>0, <1>4, <2>3, <3>1 DEF JobInv, TypeOK, Job
        <4>2. FutureIsFresh'
          BY <1>0, <1>1, <1>2, <3>4 DEF JobInv, FutureIsFresh, Deployments
        <4>3. BrokenIsFailing'
          BY <1>1, <2>1, <2>2, <3>1 DEF BrokenIsFailing
        <4>4. Progress'
          BY <1>1, <1>4, <3>1, <3>6, <4>1 DEF Progress
        <4>5. job.pc \in Uploaded => effect'[job.n] # "none"
          BY <3>1, <3>6 DEF Uploaded
        <4> QED BY <1>0, <1>1, <3>1, <4>1, <4>2, <4>3, <4>4, <4>5 DEF JobInv
      <3>8. ResultInv'
        <4>1. ~Told(job.n)
          BY <1>0, <3>1 DEF JobInv, Told, NoResult
        <4> QED BY <1>0, <1>1, <2>1, <3>4, <4>1 DEF ResultInv, Told
      <3> QED BY <3>3, <3>5, <3>7, <3>8 DEF IInv
    <2>4. CASE job.pc \in Written
      <3>1. Pending' \subseteq Pending
        BY <2>0 DEF Pending
      <3>2. FileInv'
        BY <1>0, <1>2, <1>4, <2>0, <2>4, <3>1, WriteKeepsFiles
      <3>3. fs' \in [Paths -> Contents] /\ effect' = effect /\ wasLive' = wasLive
        BY <1>0, <1>2, <1>4, <2>4, WriteDoes
      <3>4. TypeOK'
        BY <1>0, <1>1, <1>4, <3>3 DEF TypeOK
      <3>5. JobInv'
        <4>1. FutureIsFresh'
          BY <1>0, <1>1, <3>3 DEF JobInv, FutureIsFresh
        <4>2. BrokenIsFailing'
          BY <1>0, <1>1, <2>1, <2>2 DEF JobInv, BrokenIsFailing
        <4>3. Progress'
          BY <1>0, <1>1, <1>4, <2>4, <3>3 DEF JobInv, Progress, Written
        <4>4. job.pc \notin Uploaded
          BY <2>4 DEF Uploaded, Written
        <4> QED BY <1>0, <1>1, <1>2, <1>4, <2>1, <3>3, <4>1, <4>2, <4>3, <4>4 DEF JobInv
      <3>6. ResultInv'
        BY <1>0, <1>1, <2>1, <3>3 DEF ResultInv, Told
      <3> QED BY <3>2, <3>4, <3>5, <3>6 DEF IInv
    <2> QED BY <1>4, <2>3, <2>4, ExecutesIs
  <1> QED BY <1>3, <1>4 DEF Serve

\* A request that was given up takes effect when nobody waits for it.
LEMMA ServedLateKeeps ==
  ASSUME IInv, NEW r \in late, ServedLate(r)
  PROVE  IInv'
  <1> USE AnswersDiffer, StepKinds
  <1>0. TypeOK /\ FileInv /\ JobInv /\ ResultInv
    BY DEF IInv
  <1>1. /\ late' = late \ {r} /\ Executes(r.n, r.pc)
        /\ job' = job /\ reply' = reply /\ connected' = connected /\ expired' = expired
        /\ result' = result /\ changes' = changes
    BY DEF ServedLate, session
  <1>2. r \in Pending /\ r.n \in Deployments /\ r \in Request
    BY <1>0 DEF Pending, TypeOK, Request
  <1>3. Pending' \subseteq Pending
    BY <1>1 DEF Pending
  <1>4. late' \subseteq Request /\ \A d : LateOf(d)' \subseteq LateOf(d)
    BY <1>0, <1>1 DEF TypeOK, LateOf
  <1>5. LateOf(job.n)' \subseteq LateOf(job.n) /\ \A d : NoRenameLate(d) => NoRenameLate(d)'
    BY <1>1 DEF NoRenameLate, LateOf
  <1>6. r.n = job.n => r \in LateOf(job.n)
    BY DEF LateOf
  <1>7. r.n <= job.n
    BY <1>0 DEF JobInv, FutureIsFresh
  <1>8. CASE r.pc \in Mutating
    <2>1. Pending' \subseteq Pending \ {r}
      <3>1. SUFFICES ASSUME r \in Pending' PROVE FALSE
        BY <1>3
      <3>2. reply = Sent /\ r = [n |-> job.n, pc |-> job.pc]
        BY <1>1, <3>1 DEF Pending
      <3>3. r.n = job.n /\ r.pc = job.pc
        BY <3>2
      <3>4. job.pc \in Calls
        BY <1>8, <3>3 DEF Calls
      <3> QED BY <1>0, <1>6, <3>2, <3>3, <3>4 DEF JobInv, BrokenIsFailing
    <2>2. FileInv'
      BY <1>0, <1>1, <1>2, <1>8, <2>1, RenameKeepsFiles
    <2>3. /\ fs' \in [Paths -> Contents] /\ wasLive' \subseteq Contents
          /\ effect' \in [Deployments -> {"none", "moved", "activated", "restored"}]
          /\ effect'[r.n] = Effect(r.pc) /\ \A e \in Deployments \ {r.n} : effect'[e] = effect[e]
      BY <1>0, <1>1, <1>2, <1>8, RenameDoes
    <2>4. TypeOK'
      BY <1>0, <1>1, <1>4, <2>3 DEF TypeOK
    <2>5. /\ r.pc = "backup" => effect'[r.n] = "moved"
          /\ r.pc = "activate" => effect'[r.n] = "activated"
          /\ r.pc = "undo" => effect'[r.n] = "restored"
          /\ r.pc \in {"backup", "activate", "undo"}
      BY <1>2, <1>8, <2>3, RenamePaths DEF Mutating
    <2>6. JobInv'
      <3>1. FutureIsFresh'
        BY <1>0, <1>1, <1>2, <1>7, <2>3 DEF TypeOK, Job, JobInv, FutureIsFresh, Deployments
      <3>2. BrokenIsFailing'
        BY <1>0, <1>1, <1>5 DEF JobInv, BrokenIsFailing
      <3>3. r.n = job.n /\ job.pc \in Calls \cup {"start"} =>
              /\ ~connected
              /\ (reply = Refused /\ job.pc = r.pc) \/ (reply \in {Unsent, Refused} /\ job.pc = "undoGone")
        BY <1>0, <1>6 DEF JobInv, BrokenIsFailing
      <3>4. CASE r.n # job.n
        <4>1. job.pc # "idle" => effect'[job.n] = effect[job.n]
          BY <1>0, <2>3, <3>4 DEF JobInv
        <4>2. job.pc # "idle" => fs'[Temp(job.n)] = fs[Temp(job.n)]
          <5>1. SUFFICES ASSUME job.n \in Deployments PROVE fs'[Temp(job.n)] = fs[Temp(job.n)]
            BY <1>0 DEF JobInv
          <5>2. \A p \in Paths \ {From(r.n, r.pc), To(r.n, r.pc)} : fs'[p] = fs[p]
            BY <1>0, <1>1, <1>2, <1>8, RenameDoes
          <5> QED BY <1>2, <2>5, <3>4, <5>1, <5>2, RenamePaths, PathsDiffer
        <4>3. Progress'
          <5>1. CASE job.pc = "idle"
            BY <1>1, <5>1 DEF Progress, Preparing
          <5>2. CASE job.pc # "idle"
            BY <1>0, <1>1, <4>1, <5>2 DEF JobInv, Progress
          <5> QED BY <5>1, <5>2
        <4>4. job.pc \in Uploaded => job.pc # "idle"
          BY DEF Uploaded
        <4> QED BY <1>0, <1>1, <1>5, <3>1, <3>2, <4>1, <4>2, <4>3, <4>4 DEF JobInv
      <3>5. CASE r.n = job.n
        <4>1. job.pc # "idle" => job.preserve
          BY <1>0, <1>6, <1>8, <3>5 DEF JobInv, NoRenameLate
        <4>2. job.pc \in Calls \cup {"start"} => job.pc \in {"backup", "activate", "undo", "undoGone"}
          BY <2>5, <3>3, <3>5
        <4>3. Progress'
          BY <1>1, <2>5, <3>3, <3>5, <4>2 DEF Progress, Calls, Preparing, Mutating, Checking
        <4>4. job.pc \in Uploaded => effect'[job.n] # "none"
          BY <2>5, <3>3, <3>5, <4>2 DEF Uploaded, Calls, Preparing, Mutating, Checking
        <4> QED BY <1>0, <1>1, <3>1, <3>2, <4>1, <4>3, <4>4 DEF JobInv
      <3> QED BY <3>4, <3>5
    <2>7. ResultInv'
      <3>1. effect[r.n] \in {"none", "moved"} /\ ~NoRenameLate(r.n)
        BY <1>0, <1>2, <1>8, <2>5 DEF FileInv, RenamesWait, NoRenameLate, LateOf
      <3>2. Told(r.n) => /\ result[r.n].status = "outcome_unknown" /\ result[r.n].located
                         /\ ~result[r.n].activated
        BY <1>0, <1>2, <3>1 DEF ResultInv
      <3>3. ASSUME NEW d \in Deployments, Told(d)
            PROVE  /\ (effect'[d] = "moved" \/ ~NoRenameLate(d)')
                         => result[d].status = "outcome_unknown" /\ result[d].located
                   /\ result[d].status = "failed" /\ ~result[d].activated
                         => effect'[d] \in {"none", "restored"} /\ NoRenameLate(d)'
                   /\ result[d].activated => effect'[d] = "activated"
        <4>1. CASE d = r.n
          BY <3>2, <3>3, <4>1
        <4>2. CASE d # r.n
          <5>1. effect'[d] = effect[d]
            BY <2>3, <4>2
          <5> QED BY <1>0, <1>5, <3>3, <5>1 DEF ResultInv
        <4> QED BY <4>1, <4>2
      <3> QED BY <1>1, <3>3 DEF ResultInv, Told
    <2> QED BY <2>2, <2>4, <2>6, <2>7 DEF IInv
  <1>9. CASE r.pc \in Written
    <2>1. FileInv'
      BY <1>0, <1>1, <1>2, <1>3, <1>9, WriteKeepsFiles
    <2>2. /\ fs' \in [Paths -> Contents] /\ effect' = effect /\ wasLive' = wasLive
          /\ \A p \in Paths \ {Temp(r.n)} : fs'[p] = fs[p]
      BY <1>0, <1>1, <1>2, <1>9, WriteDoes
    <2>3. TypeOK'
      BY <1>0, <1>1, <1>4, <2>2 DEF TypeOK
    <2>4. JobInv'
      <3>1. FutureIsFresh'
        BY <1>0, <1>1, <2>2 DEF JobInv, FutureIsFresh
      <3>2. BrokenIsFailing' /\ Progress'
        BY <1>0, <1>1, <1>5, <2>2 DEF JobInv, BrokenIsFailing, Progress
      <3>3. ASSUME job.pc \in Uploaded PROVE fs'[Temp(job.n)] = fs[Temp(job.n)]
        <4>1. job.pc \in Calls /\ job.pc \notin Written /\ job.pc # "undoGone"
          BY <3>3 DEF Uploaded, Calls, Preparing, Mutating, Written
        <4>2. r.n # job.n
          BY <1>0, <1>6, <1>9, <4>1 DEF JobInv, BrokenIsFailing
        <4>3. job.n \in Deployments
          BY <1>0, <4>1 DEF JobInv
        <4> QED BY <1>2, <2>2, <4>2, <4>3, PathsDiffer
      <3> QED BY <1>0, <1>1, <1>5, <2>2, <3>1, <3>2, <3>3 DEF JobInv
    <2>5. ResultInv'
      BY <1>0, <1>1, <1>5, <2>2 DEF ResultInv, Told
    <2> QED BY <2>1, <2>3, <2>4, <2>5 DEF IInv
  <1> QED BY <1>1, <1>8, <1>9, ExecutesIs

-----------------------------------------------------------------------------
(* The theorems *)

LEMMA NextIInv == ASSUME IInv, [Next]_vars PROVE IInv'
  <1>1. ASSUME Step PROVE IInv'
    BY <1>1, IssueKeeps, GiveUpKeeps, PrepareKeeps, RenamesKeep, StartActionKeeps, IssueRemoveKeeps,
       ReturnedKeeps DEF Step
  <1>2. ASSUME SourceRejected \/ NotDispatched PROVE IInv'
    BY <1>2, EndsBeforeKeeps DEF SourceRejected, NotDispatched
  <1>3. ASSUME UNCHANGED vars PROVE IInv'
    <2>1. /\ fs' = fs /\ job' = job /\ reply' = reply /\ connected' = connected /\ expired' = expired
          /\ late' = late /\ result' = result /\ effect' = effect /\ wasLive' = wasLive /\ changes' = changes
      BY <1>3 DEF vars, session
    <2>2. TypeOK' /\ FileInv'
      BY <2>1, FilesStay DEF IInv, TypeOK, Pending
    <2>3. LateOf(job.n)' = LateOf(job.n) /\ \A d : NoRenameLate(d)' <=> NoRenameLate(d)
      BY <2>1 DEF LateOf, NoRenameLate
    <2>4. FutureIsFresh' /\ BrokenIsFailing' /\ Progress'
      BY <2>1, <2>3 DEF IInv, JobInv, FutureIsFresh, BrokenIsFailing, Progress
    <2>5. JobInv'
      BY <2>1, <2>3, <2>4 DEF IInv, JobInv
    <2>6. ResultInv'
      BY <2>1, <2>3 DEF IInv, ResultInv, Told
    <2> QED BY <2>2, <2>5, <2>6 DEF IInv
  <1> QED BY <1>1, <1>2, <1>3, DeployKeeps, ServeKeeps, ConnectionBreaksKeeps, ContextDoneKeeps,
             ChangeKeeps, ServedLateKeeps DEF Next

LEMMA IInvAlways == Spec => []IInv
  <1>1. Init => IInv
    BY InitIInv
  <1>2. IInv /\ [Next]_vars => IInv'
    BY NextIInv
  <1> QED BY <1>1, <1>2, PTL DEF Spec

\* The directory, the job, the requests and the results keep their types.
THEOREM TypeCorrect == Spec => []TypeOK
  <1>1. IInv => TypeOK
    BY DEF IInv
  <1> QED BY <1>1, IInvAlways, PTL

\* No deployment, and no request of one that is served late, destroys a file
\* that was live (the renames and the removal of DeployBinary).
THEOREM LiveFilesSurvive == Spec => []NothingIsLost
  <1>1. IInv => NothingIsLost
    BY DEF IInv, FileInv
  <1> QED BY <1>1, IInvAlways, PTL

\* While the live file is moved away, the verified upload and the backup are
\* both in place (preserveTemporary of DeployBinary).
THEOREM MovedIsRecoverable == Spec => []Recoverable
  <1>1. IInv => Recoverable
    BY DEF IInv, FileInv
  <1> QED BY <1>1, IInvAlways, PTL

\* What the caller was told is true and stays true, whatever is still served
\* (the statuses DeploySSHBinary returns).
THEOREM TellsTheTruth == Spec => []OutcomeIsTrue
  <1>1. IInv => OutcomeIsTrue
    <2>1. ASSUME NEW d \in Deployments, NoRenameLate(d) PROVE \A r \in late : r.n = d => r.pc \notin Mutating
      BY <2>1 DEF NoRenameLate, LateOf
    <2> QED BY <2>1 DEF IInv, ResultInv, OutcomeIsTrue
  <1> QED BY <1>1, IInvAlways, PTL

=============================================================================
