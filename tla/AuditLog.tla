------------------------------ MODULE AuditLog ------------------------------
(***************************************************************************)
(* The audit log of internal/auditlog/log.go: callers of Record hand their *)
(* events one at a time, through a gate and a queue, to the goroutine that *)
(* rotates and appends to the files; Close shuts it down.                  *)
(*                                                                         *)
(* An event is the number it gets when it is queued, and every line has    *)
(* the same size, 1.  The disk may refuse any operation or never answer,   *)
(* and the machine may stop between two of them: what was not synced, of a *)
(* file or of the directory, is then lost or kept, and a new Logger starts *)
(* on the files that remain.  A directory changes on the disk in the order *)
(* of the calls; a file that is empty counts as one that is not there.     *)
(***************************************************************************)
EXTENDS AuditLogState

calls == <<caller, gate, queue, answer, expired, queued, acked>>
disk == <<files, dirty, past, dropped, fresh, lost>>
shutdown == <<closer, closing, stop>>
vars == <<calls, disk, shutdown, writer, troubled, crashes>>

\* "gate", "check", "send" and "wait" are the four selects of Record.
CallerState == [pc : {"idle", "gate", "check", "send", "wait"},
                event : Events \cup {NoEvent}, ended : BOOLEAN]

\* "rotate" and index: the loop of rotateIfNeeded, down to the live file;
\* "settle": its SyncDirectory.
WriterState == [pc : {"select", "begin", "rotate", "settle", "write", "sync", "draining", "ended"},
                event : Events \cup {NoEvent}, index : 0..Archives]

\* What a directory holds, and what was removed from it by then.
View == [files : [0..Archives -> Seq(Events \cup {Torn})], dropped : SUBSET Events]
Now == [files |-> files, dropped |-> dropped]

TypeOK ==
    /\ caller \in [Callers -> CallerState]
    /\ gate \in Callers \cup {"free"}
    /\ queue \in Seq(Events) /\ Len(queue) <= QueueSize
    /\ answer \in [Events -> {"none", "ok", "error"}]
    /\ expired \subseteq Events /\ dirty \subseteq Events /\ acked \subseteq Events /\ dropped \subseteq Events
    /\ writer \in WriterState
    /\ closer \in {"idle", "gate", "wait", "closed", "timeout"}
    /\ closing \in BOOLEAN /\ stop \in BOOLEAN
    /\ files \in [0..Archives -> Seq(Events \cup {Torn})]
    /\ past \subseteq View /\ fresh \subseteq Events \cup {Torn} /\ lost \subseteq Events
    /\ queued \in 0..MaxEvents /\ troubled \in BOOLEAN /\ crashes \in 0..MaxCrashes

Idle == [pc |-> "idle", event |-> NoEvent, ended |-> FALSE]
Selecting == [pc |-> "select", event |-> NoEvent, index |-> 0]

\* The lines that an earlier process has left in file i.
Left(i) == IF i < Earlier THEN [n \in 1..MaxBytes |-> (Earlier - 1 - i) * MaxBytes + n] ELSE <<>>

Init ==
    /\ caller = [c \in Callers |-> Idle]
    /\ gate = "free"
    /\ queue = <<>>
    /\ answer = [e \in Events |-> "none"]
    /\ expired = {} /\ dirty = {} /\ acked = 1..(Earlier * MaxBytes) /\ dropped = {}
    /\ writer = Selecting
    /\ closer = "idle" /\ closing = FALSE /\ stop = FALSE
    /\ files = [i \in 0..Archives |-> Left(i)]
    /\ past = {} /\ fresh = {} /\ lost = {}
    /\ queued = Earlier * MaxBytes /\ troubled = FALSE /\ crashes = 0

-----------------------------------------------------------------------------
(* Record.  Of several ready cases a select takes any. *)

Record(c) ==
    /\ caller[c].pc = "idle" /\ queued < MaxEvents
    /\ caller' = [caller EXCEPT ![c].pc = "gate"]
    /\ UNCHANGED <<gate, queue, answer, expired, queued, acked, disk, shutdown, writer, troubled, crashes>>

\* The events the writer has not answered yet.
Outstanding == {queue[n] : n \in DOMAIN queue} \cup ({writer.event} \ {NoEvent})

\* The caller's context ends.
ContextDone(c) ==
    /\ caller[c].pc # "idle" /\ ~caller[c].ended
    /\ caller' = [caller EXCEPT ![c].ended = TRUE]
    /\ expired' = IF caller[c].event \in Outstanding THEN expired \cup {caller[c].event} ELSE expired
    /\ UNCHANGED <<gate, queue, answer, queued, acked, disk, shutdown, writer, troubled, crashes>>

TakeGate(c) ==
    /\ caller[c].pc = "gate" /\ gate = "free"
    /\ gate' = c
    /\ caller' = [caller EXCEPT ![c].pc = "check"]
    /\ UNCHANGED <<queue, answer, expired, queued, acked, disk, shutdown, writer, troubled, crashes>>

\* Record returns, by defer giving back the gate if it has it.
Returned(c) ==
    /\ caller' = [caller EXCEPT ![c] = Idle]
    /\ answer' = [e \in Events |-> IF e = caller[c].event THEN "none" ELSE answer[e]]
    /\ gate' = IF gate = c THEN "free" ELSE gate

\* Mutant: the last select does not look at closing.
GivesUp_IgnoresClosing(c) ==
    \/ closing /\ caller[c].pc # "wait"
    \/ caller[c].ended /\ caller[c].pc # "check"

\* The cases in which Record fails, with its event queued or not.
GivesUp(c) == closing \/ (caller[c].ended /\ caller[c].pc # "check")

GiveUp(c) ==
    /\ caller[c].pc # "idle" /\ GivesUp(c)
    /\ Returned(c)
    /\ UNCHANGED <<queue, expired, queued, acked, disk, shutdown, writer, troubled, crashes>>

CheckClosing(c) ==
    /\ caller[c].pc = "check" /\ ~closing
    /\ caller' = [caller EXCEPT ![c].pc = "send"]
    /\ UNCHANGED <<gate, queue, answer, expired, queued, acked, disk, shutdown, writer, troubled, crashes>>

Send(c) ==
    /\ caller[c].pc = "send" /\ Len(queue) < QueueSize /\ queued < MaxEvents
    /\ LET e == queued + 1
       IN  /\ queue' = Append(queue, e)
           /\ queued' = e
           /\ expired' = IF caller[c].ended THEN expired \cup {e} ELSE expired
           /\ caller' = [caller EXCEPT ![c].pc = "wait", ![c].event = e]
    /\ UNCHANGED <<gate, answer, acked, disk, shutdown, writer, troubled, crashes>>

Answered(c) ==
    /\ caller[c].pc = "wait" /\ answer[caller[c].event] # "none"
    /\ acked' = IF answer[caller[c].event] = "ok" THEN acked \cup {caller[c].event} ELSE acked
    /\ Returned(c)
    /\ UNCHANGED <<queue, expired, queued, disk, shutdown, writer, troubled, crashes>>

-----------------------------------------------------------------------------
(* The writer *)

\* The answer goes to the buffered channel of the request; if its caller has
\* left nobody will read it.
Told(e, result) ==
    IF \E c \in Callers : caller[c].event = e THEN [answer EXCEPT ![e] = result] ELSE answer

Reply(e, result) ==
    /\ answer' = Told(e, result)
    /\ expired' = expired \ {e}
    /\ writer' = Selecting

WriterTakes ==
    /\ writer.pc = "select" /\ queue # <<>>
    /\ queue' = Tail(queue)
    /\ IF closing
       THEN Reply(Head(queue), "error")
       ELSE /\ writer' = [pc |-> "begin", event |-> Head(queue), index |-> 0]
            /\ UNCHANGED <<answer, expired>>
    /\ UNCHANGED <<caller, gate, queued, acked, disk, shutdown, troubled, crashes>>

WriterStops ==
    /\ writer.pc = "select" /\ stop
    /\ writer' = [writer EXCEPT !.pc = "draining"]
    /\ UNCHANGED <<calls, disk, shutdown, troubled, crashes>>

rejectQueuedWrites ==
    /\ writer.pc = "draining"
    /\ IF queue = <<>>
       THEN writer' = [writer EXCEPT !.pc = "ended"] /\ UNCHANGED <<queue, answer, expired>>
       ELSE /\ answer' = Told(Head(queue), "error")
            /\ expired' = expired \ {Head(queue)}
            /\ queue' = Tail(queue)
            /\ UNCHANGED writer
    /\ UNCHANGED <<caller, gate, queued, acked, disk, shutdown, troubled, crashes>>

\* The points at which append looks at the request's context, and the ones at
\* which the disk may refuse.
Appending == {"begin", "rotate", "settle", "write", "sync"}
LooksAtContext == {"begin", "write", "sync"}

\* ctx.Err() is not nil.  The check after the sync comes with the one before it.
ContextEnded ==
    /\ writer.pc \in LooksAtContext /\ writer.event \in expired
    /\ Reply(writer.event, "error")
    /\ UNCHANGED <<caller, gate, queue, queued, acked, disk, shutdown, troubled, crashes>>

\* Lstat, Remove, Rename, SyncDirectory, OpenFile or Sync fails, or a file is not regular.
DiskRefuses ==
    /\ writer.pc \in Appending
    /\ Reply(writer.event, "error")
    /\ troubled' = (troubled \/ writer.pc = "rotate")
    /\ UNCHANGED <<caller, gate, queue, queued, acked, disk, shutdown, crashes>>

Proceeds(pc) == writer.pc = pc /\ (pc \in LooksAtContext => writer.event \notin expired)

\* rotateIfNeeded: no rotation unless the line does not fit.
Begin ==
    /\ Proceeds("begin")
    /\ writer' = IF Len(files[0]) + 1 <= MaxBytes
                 THEN [writer EXCEPT !.pc = "write"]
                 ELSE [writer EXCEPT !.pc = "rotate", !.index = Archives]
    /\ UNCHANGED <<calls, disk, shutdown, troubled, crashes>>

\* One turn of the loop: the last archive is removed, the others and then the
\* live file move up.  A file that is not there is skipped.
Rotated(i) ==
    IF i = Archives THEN [files EXCEPT ![i] = <<>>]
    ELSE IF files[i] = <<>> THEN files
    ELSE [files EXCEPT ![i + 1] = files[i], ![i] = <<>>]

RotateStep ==
    /\ Proceeds("rotate")
    /\ files' = Rotated(writer.index)
    /\ past' = past \cup {Now}
    /\ dropped' = IF writer.index = Archives THEN dropped \cup InFile(Archives) ELSE dropped
    /\ writer' = IF writer.index = 0 THEN [writer EXCEPT !.pc = "settle"]
                 ELSE [writer EXCEPT !.index = @ - 1]
    /\ UNCHANGED <<calls, dirty, fresh, lost, shutdown, troubled, crashes>>

\* Mutant: the rotation does not sync the directory.
Settled_Nothing == past

\* What SyncDirectory leaves of the contents that a crash may bring back.
Settled == {}

\* The directory is synced and the rotation completed.
Settle ==
    /\ Proceeds("settle")
    /\ past' = Settled /\ fresh' = {}
    /\ writer' = [writer EXCEPT !.pc = "write"]
    /\ UNCHANGED <<calls, files, dirty, dropped, lost, shutdown, troubled, crashes>>

\* openAuditAppend creates the file if need be, and the line goes to its end.
\* The directory is not synced.
AppendLine(line) ==
    /\ files' = [files EXCEPT ![0] = Append(@, line)]
    /\ past' = IF files[0] = <<>> THEN past \cup {Now} ELSE past
    /\ fresh' = IF files[0] = <<>> \/ fresh # {} THEN fresh \cup {line} ELSE fresh

Write ==
    /\ Proceeds("write")
    /\ AppendLine(writer.event)
    /\ dirty' = dirty \cup {writer.event}
    /\ writer' = [writer EXCEPT !.pc = "sync"]
    /\ UNCHANGED <<calls, dropped, lost, shutdown, troubled, crashes>>

\* The disk takes a part of the line, which stays.
TornWrite ==
    /\ Proceeds("write")
    /\ AppendLine(Torn)
    /\ Reply(writer.event, "error")
    /\ UNCHANGED <<caller, gate, queue, queued, acked, dirty, dropped, lost, shutdown, troubled, crashes>>

\* The lines that a sync of the live file leaves unsynced, in archives.
Synced == {e \in dirty : \A n \in DOMAIN files[0] : files[0][n] # e}

Sync ==
    /\ Proceeds("sync")
    /\ dirty' = Synced
    /\ Reply(writer.event, "ok")
    /\ UNCHANGED <<caller, gate, queue, queued, acked, files, past, dropped, fresh, lost, shutdown, troubled, crashes>>

-----------------------------------------------------------------------------
(* Close, and the end of the process *)

Close ==
    /\ closer = "idle"
    /\ closing' = TRUE
    /\ closer' = "gate"
    /\ UNCHANGED <<calls, disk, stop, writer, troubled, crashes>>

\* Mutant: stop is closed while a Record may still queue its event.
MayStop_WithoutGate == gate = gate

\* Close must have the gate to close stop; it gives it back at once.
MayStop == gate = "free"

CloseStop ==
    /\ closer = "gate" /\ MayStop
    /\ stop' = TRUE
    /\ closer' = "wait"
    /\ UNCHANGED <<calls, disk, closing, writer, troubled, crashes>>

CloseWaits ==
    /\ closer = "wait"
    /\ \/ writer.pc = "ended" /\ closer' = "closed"
       \/ closer' = "timeout"                           \* closeWaitTimeout
    /\ UNCHANGED <<calls, disk, closing, stop, writer, troubled, crashes>>

\* A file may be cut off after its first n lines: no synced line is behind them.
MayEndAt(file, n) == n <= Len(file) /\ \A m \in (n + 1)..Len(file) : file[m] \in dirty \cup {Torn}

\* A crash, or the end of the process after Close; then New on the files that the
\* directory has, as it is or as it was since it was last synced.
Crash ==
    /\ crashes < MaxCrashes
    /\ crashes' = crashes + 1 /\ troubled' = TRUE
    /\ \E view \in past \cup {Now}, length \in [0..Archives -> 0..MaxBytes] :
          /\ \A i \in 0..Archives : MayEndAt(view.files[i], length[i])
          /\ files' = [i \in 0..Archives |-> SubSeq(view.files[i], 1, length[i])]
          /\ dropped' = view.dropped
    /\ lost' = lost \cup (fresh \ (Kept' \cup {Torn}))
    /\ past' = {} /\ fresh' = {}
    /\ dirty' = {}
    /\ caller' = [c \in Callers |-> Idle]
    /\ gate' = "free" /\ queue' = <<>> /\ expired' = {}
    /\ answer' = [e \in Events |-> "none"]
    /\ writer' = Selecting
    /\ closer' = "idle" /\ closing' = FALSE /\ stop' = FALSE
    /\ UNCHANGED <<queued, acked>>

-----------------------------------------------------------------------------
RecordStep(c) ==
    TakeGate(c) \/ GiveUp(c) \/ CheckClosing(c) \/ Send(c) \/ Answered(c)

CloseStep == CloseStop \/ CloseWaits

WriterStep ==
    \/ WriterTakes \/ WriterStops \/ rejectQueuedWrites \/ ContextEnded \/ DiskRefuses
    \/ Begin \/ RotateStep \/ Settle \/ Write \/ TornWrite \/ Sync

Next ==
    \/ \E c \in Callers : Record(c) \/ ContextDone(c) \/ RecordStep(c)
    \/ WriterStep
    \/ Close \/ CloseStep
    \/ Crash

Spec == Init /\ [][Next]_vars

\* Goroutines that can run do, and the timer of Close fires.  A token put back
\* into a channel goes to the receiver that has waited longest, so Close gets the
\* gate if it is free again and again.  The disk need not ever answer: nothing
\* is asked of the writer.
Fairness ==
    /\ \A c \in Callers : WF_vars(RecordStep(c))
    /\ SF_vars(CloseStop) /\ WF_vars(CloseWaits)

FairSpec == Spec /\ Fairness

-----------------------------------------------------------------------------
(* Properties *)

\* Even if the disk never answers, Record returns when its context ends and
\* Close returns: neither waits for a gate that nobody will give back.
CallsReturn ==
    /\ \A c \in Callers : caller[c].ended ~> caller[c].pc = "idle"
    /\ closer \in {"gate", "wait"} ~> closer \notin {"gate", "wait"}

=============================================================================
