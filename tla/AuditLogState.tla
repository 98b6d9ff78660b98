--------------------------- MODULE AuditLogState ---------------------------
(***************************************************************************)
(* The state of the audit log, and what it promises about its files in     *)
(* every state.  AuditLog says how it changes.                             *)
(***************************************************************************)
EXTENDS Integers, Sequences, FiniteSets

CONSTANTS
    Callers,        \* goroutines that call Record
    QueueSize,      \* writeQueueSize
    MaxBytes,       \* lines a file may hold, Options.MaxBytes
    Archives,       \* Options.Archives
    Earlier,        \* full files that an earlier process has left
    MaxEvents,      \* bound on the events queued
    MaxCrashes      \* bound on the crashes

ASSUME SizesAssumption ==
    /\ QueueSize \in Nat \ {0} /\ MaxBytes \in Nat \ {0} /\ Archives \in Nat \ {0}
    /\ MaxEvents \in Nat /\ MaxCrashes \in Nat
    /\ Earlier \in 0..(Archives + 1) /\ Earlier * MaxBytes <= MaxEvents

ASSUME CallersAssumption == "free" \notin Callers

VARIABLES
    caller,         \* each caller: where it is in Record, its event, its context
    gate,           \* who took the token of enqueueGate
    queue,          \* writeQueue
    answer,         \* for each event, what was sent on its done channel
    expired,        \* events not yet answered whose context has ended
    writer,         \* the goroutine writeEvents
    closer,         \* the caller of Close
    closing, stop,  \* the channels that Close closes
    files,          \* the lines of audit.log (0) and of its archives
    dirty,          \* events written and not synced
    past,           \* earlier contents of the directory, not yet replaced on the disk
    acked,          \* events for which Record returned nil
    queued,         \* number of events queued so far
    dropped,        \* history: the events of removed archives
    fresh,          \* history: lines of files created since a rotation was last completed
    lost,           \* history: fresh events that a crash took
    troubled,       \* history: a crash happened or a rotation was cut short
    crashes

-----------------------------------------------------------------------------
Events == 1..MaxEvents
NoEvent == 0
Torn == 0           \* what a failed write left of its line

InFile(i) == {files[i][n] : n \in DOMAIN files[i]} \ {Torn}

Kept == UNION {InFile(i) : i \in 0..Archives}
Lines == Cardinality({p \in (0..Archives) \X (1..MaxBytes) : p[2] <= Len(files[p[1]])})

\* An event that Record has acknowledged stays in the files, through failed and
\* interrupted rotations, torn writes and crashes, until its archive is removed.
\* Nothing older outlives it then and, unless a rotation was cut short, as many
\* newer lines are there as the archives hold.  The exception is a crash before
\* the next rotation has synced the directory: nothing syncs it when audit.log is
\* created, so that crash may take the file with its synced lines.
AckedIsKept ==
    /\ acked \subseteq Kept \cup dropped \cup lost
    /\ \A d \in dropped, e \in Kept : d < e
    /\ dropped # {} => troubled \/ Lines >= Archives * MaxBytes

\* When Close has returned nil the writer is gone, no event was left in the
\* queue unanswered and none can be put there.
ClosedIsFinal ==
    closer = "closed" =>
        writer.pc = "ended" /\ queue = <<>> /\ \A c \in Callers : caller[c].pc # "send"

=============================================================================
