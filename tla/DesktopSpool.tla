------------------------------ MODULE DesktopSpool ------------------------------
(***************************************************************************)
(* The desktop shell's diagnostic spool: native processes write one file   *)
(* per event into a bounded ring and count what they evict in a journal of *)
(* two slots; the backend takes the files over into its database.  One     *)
(* lock serializes them all, so what can go wrong is where one stops: a    *)
(* write is torn, a call fails, or power is lost with a slot, a record or  *)
(* the directory not yet synchronized.  Directories are synchronized on    *)
(* Unix only: what survives a loss of power is promised there only.        *)
(***************************************************************************)
EXTENDS Naturals, FiniteSets

CONSTANTS MaxEvents,  \* bound: events written in all
          Capacity,   \* MAX_EVENTS, with the byte budget
          MaxLegacy,  \* bound: the count an old installation may hold
          MaxFaults,  \* bound: stops and power losses
          Unix        \* cfg(unix)

ASSUME SpoolAssumption ==
    /\ MaxEvents \in Nat /\ Capacity \in Nat \ {0}
    /\ MaxLegacy \in Nat /\ MaxFaults \in Nat
    /\ Unix \in BOOLEAN

VARIABLES
    slot,       \* drops.count (0) and drops.alternate (1), as they are read
    durable,    \* the images of each that the disk may hold
    journal,    \* whether what can be read of them is durable
    note,       \* drops.pending, left by an old binary
    file,       \* the event files of the directory
    kept,       \* the directory as it was last synchronized
    claim,      \* dropped_before of each record
    stored,     \* events in the diagnostic database
    announced,  \* events whose write has returned Ok
    evicted,    \* events whose file a writer removed
    expired,    \* events whose file the backend removed unread, for its age
    at,         \* where the holder of the spool lock is
    job,        \* and what it remembers
    base,       \* what the installation had counted before
    made,       \* events created so far
    faults

vars == <<slot, durable, journal, note, file, kept, claim, stored, announced,
          evicted, expired, at, job, base, made, faults>>
slots == <<slot, durable, journal>>
ring == <<file, evicted>>
ghosts == <<announced, expired, base>>

-----------------------------------------------------------------------------
(* The journal *)

Event == 1..MaxEvents

\* A slot that is being written, or was when its writer stopped, decodes to nothing.
Image == [kind: {"absent", "torn", "legacy", "sound"}, count: Nat]
Torn == [kind |-> "torn", count |-> 0]
Absent == [kind |-> "absent", count |-> 0]
Legacy(count) == [kind |-> "legacy", count |-> count]

\* Mutant: a slot is written in the format of the primary.
InOldFormat(count) == [kind |-> slot[0].kind, count |-> count]

Sound(count) == [kind |-> "sound", count |-> count]

Valid(i) == slot[i].kind \in {"legacy", "sound"}

\* The larger of the valid counts, and 0 for a new installation.
Baseline == IF Valid(0) /\ (~Valid(1) \/ slot[0].count >= slot[1].count)
            THEN slot[0].count ELSE slot[1].count

\* counter_no_valid_checkpoint
Loads == Valid(0) \/ Valid(1) \/ (slot[0] = Absent /\ slot[1] = Absent)

NeedsCheckpoint == slot[0].kind # "sound" \/ slot[1].kind = "torn"

\* Mutant: the newer slot is overwritten.
NewerSlot ==
    IF ~Valid(0) \/ (Valid(1) /\ slot[1].count <= slot[0].count) THEN 0 ELSE 1

\* The damaged slot or the older one; a legacy primary is backed up first.
OlderSlot ==
    IF slot[0].kind = "legacy"
    THEN IF Valid(1) /\ slot[1].count >= job.count THEN 0 ELSE 1
    ELSE IF ~Valid(0) \/ (Valid(1) /\ slot[0].count <= slot[1].count) THEN 0 ELSE 1

\* Until the primary is converted the backup holds no more than it does.
SlotValue(i) == IF slot[0].kind = "legacy" /\ i = 1 THEN job.count ELSE job.drops

-----------------------------------------------------------------------------
(* What is durable *)

Settled == \A i \in {0, 1} : durable[i] = {slot[i]}

\* A slot that can be read, or whose name can, though the disk may not have it.
Loose ==
    \E i \in {0, 1} : durable[i] # {slot[i]} /\ (Valid(i) \/ Absent \in durable[i])

\* The journal is loose once a slot is left loose, until both are synchronized;
\* it is lost when power is lost meanwhile.
Judge ==
    journal' = IF journal = "lost" THEN "lost"
               ELSE IF Settled' THEN "durable"
               ELSE IF Loose' THEN "loose" ELSE journal

SetSlot(i, image, images) ==
    /\ slot' = [slot EXCEPT ![i] = image]
    /\ durable' = [durable EXCEPT ![i] = images]

-----------------------------------------------------------------------------
(* The directory *)

Entries == {e \in Event : file[e] # "none"}

FileState == {"none", "partial", "written", "pending", "json"}

Oldest(e) == e \in Entries /\ \A d \in Entries : e <= d

SetFile(e, state) == file' = [file EXCEPT ![e] = state]

\* sync_directory makes the names of the directory durable, elsewhere nothing.
SyncDirectory ==
    IF Unix
    THEN /\ kept' = [file |-> file, note |-> note]
         /\ durable' = [i \in {0, 1} |-> IF slot[i] = Absent THEN durable[i]
                                         ELSE durable[i] \ {Absent}]
    ELSE UNCHANGED <<kept, durable>>

\* Mutant: the directory is not synchronized.
Unsynced(label) == at' = label /\ UNCHANGED <<kept, slots>>

Synced(label) ==
    /\ at' = label
    /\ SyncDirectory
    /\ UNCHANGED slot
    /\ Judge

Label == {"free", "recover", "forget", "forgotten", "scan", "evict", "sync",
          "checkpoint", "slot", "written", "enter", "create", "write", "flush",
          "rename", "publish", "persist", "acknowledge"}

NoJob == [count |-> 0, drops |-> 0, slot |-> 0, value |-> 0, event |-> 0,
          noted |-> FALSE, created |-> FALSE]

-----------------------------------------------------------------------------
\* A new installation, or one an old binary has left, with or without a temporary.
Init ==
    /\ \E primary \in {Absent} \union {Legacy(c) : c \in 0..MaxLegacy} :
           slot = [i \in {0, 1} |-> IF i = 0 THEN primary ELSE Absent]
    /\ durable = [i \in {0, 1} |-> {slot[i]}]
    /\ journal = "durable"
    /\ note \in {Absent, Torn} \union {Legacy(c) : c \in 0..MaxLegacy}
    /\ file = [e \in Event |-> "none"]
    /\ kept = [file |-> file, note |-> note]
    /\ claim = [e \in Event |-> 0]
    /\ stored = {} /\ announced = {} /\ evicted = {} /\ expired = {}
    /\ at = "free"
    /\ job = NoJob
    /\ base = IF note.count > slot[0].count THEN note.count ELSE slot[0].count
    /\ made = 0
    /\ faults = 0

-----------------------------------------------------------------------------
(* DesktopDiagnostics.write *)

\* The lock is taken and the journal loaded; without a valid slot it is refused.
Begin ==
    /\ at = "free"
    /\ made < MaxEvents
    /\ Loads
    /\ job' = [NoJob EXCEPT !.count = Baseline, !.drops = Baseline]
    /\ at' = "recover"
    /\ UNCHANGED <<slots, note, kept, claim, stored, ring, ghosts, made, faults>>

\* A valid temporary at or above the count is checkpointed before it is removed.
RecoverNote ==
    /\ at = "recover"
    /\ IF note = Absent THEN at' = "scan" /\ UNCHANGED job
       ELSE IF note.kind = "legacy" /\ note.count >= job.count
       THEN at' = "checkpoint" /\ job' = [job EXCEPT !.drops = note.count, !.noted = TRUE]
       ELSE at' = "forget" /\ UNCHANGED job
    /\ UNCHANGED <<slots, note, kept, claim, stored, ring, ghosts, made, faults>>

RemoveNote ==
    /\ at = "forget"
    /\ note' = Absent
    /\ at' = "forgotten"
    /\ UNCHANGED <<slots, kept, claim, stored, ring, ghosts, job, made, faults>>

SyncNote ==
    /\ at = "forgotten"
    /\ Synced("scan")
    /\ job' = [job EXCEPT !.noted = FALSE]
    /\ UNCHANGED <<note, claim, stored, ring, ghosts, made, faults>>

Remove(e) ==
    /\ SetFile(e, "none")
    /\ evicted' = evicted \union {e}
    /\ job' = [job EXCEPT !.drops = @ + 1]

\* The scan removes files past seven days, whichever those are ...
Expire(e) ==
    /\ at = "scan"
    /\ e \in Entries
    /\ Remove(e)
    /\ UNCHANGED <<slots, note, kept, claim, stored, ghosts, at, made, faults>>

Scanned ==
    /\ at = "scan"
    /\ at' = "evict"
    /\ UNCHANGED <<slots, note, kept, claim, stored, ring, ghosts, job, made, faults>>

\* ... and then the oldest, until a record of any size fits.
Evict(e) ==
    /\ at = "evict"
    /\ Cardinality(Entries) >= Capacity
    /\ Oldest(e)
    /\ Remove(e)
    /\ UNCHANGED <<slots, note, kept, claim, stored, ghosts, at, made, faults>>

Evicted ==
    /\ at = "evict"
    /\ Cardinality(Entries) < Capacity
    /\ at' = IF job.drops # job.count THEN "sync"
             ELSE IF NeedsCheckpoint THEN "checkpoint" ELSE "create"
    /\ UNCHANGED <<slots, note, kept, claim, stored, ring, ghosts, job, made, faults>>

\* Mutant: deletions are counted before they are synchronized.
SkipSync ==
    /\ at = "sync"
    /\ Unsynced("checkpoint")
    /\ UNCHANGED <<note, claim, stored, ring, ghosts, job, made, faults>>

SyncEvictions ==
    /\ at = "sync"
    /\ Synced("checkpoint")
    /\ UNCHANGED <<note, claim, stored, ring, ghosts, job, made, faults>>

\* write_slot opens or creates the slot and writes over it in place, ...
BeginSlot ==
    /\ at = "checkpoint"
    /\ SetSlot(OlderSlot, Torn, durable[OlderSlot] \union {Torn})
    /\ job' = [job EXCEPT !.slot = OlderSlot, !.value = SlotValue(OlderSlot),
                         !.created = slot[OlderSlot] = Absent]
    /\ at' = "slot"
    /\ UNCHANGED <<journal, note, kept, claim, stored, ring, ghosts, made, faults>>

\* ... to the end, ...
WriteSlot ==
    LET image == Sound(job.value) IN
    /\ at = "slot"
    /\ SetSlot(job.slot, image, durable[job.slot] \union {image})
    /\ at' = "written"
    /\ UNCHANGED <<journal, note, kept, claim, stored, ring, ghosts, job, made, faults>>

\* The backup of a legacy primary is only half of a checkpoint.
Half == job.slot = 1 /\ slot[0].kind = "legacy"

AfterSlot == IF Half THEN "checkpoint" ELSE IF job.noted THEN "forget" ELSE "create"

Recorded == IF Half THEN job ELSE [job EXCEPT !.count = job.drops]

\* ... synchronizes it, but not the name that an earlier writer gave it, ...
SyncSlot ==
    /\ at = "written"
    /\ SetSlot(job.slot, slot[job.slot],
               {slot[job.slot]} \union (durable[job.slot] \intersect {Absent}))
    /\ IF job.created THEN at' = "enter" /\ UNCHANGED <<journal, job>>
                      ELSE at' = AfterSlot /\ Judge /\ job' = Recorded
    /\ UNCHANGED <<note, kept, claim, stored, ring, ghosts, made, faults>>

\* ... and the directory if it has created it.
SyncSlotName ==
    /\ at = "enter"
    /\ Synced(AfterSlot)
    /\ job' = Recorded
    /\ UNCHANGED <<note, claim, stored, ring, ghosts, made, faults>>

Create ==
    LET e == made + 1 IN
    /\ at = "create"
    /\ SetFile(e, "partial")
    /\ claim' = [claim EXCEPT ![e] = job.drops]
    /\ job' = [job EXCEPT !.event = e]
    /\ made' = e
    /\ at' = "write"
    /\ UNCHANGED <<slots, note, kept, stored, evicted, ghosts, faults>>

\* A record's file: written to the end, synchronized, and renamed.
RecordStep(from, state, to) ==
    /\ at = from
    /\ SetFile(job.event, state)
    /\ at' = to
    /\ UNCHANGED <<slots, note, kept, claim, stored, evicted, ghosts, job, made, faults>>

WriteRecord == RecordStep("write", "written", "flush")
SyncRecord == RecordStep("flush", "pending", "rename")
Rename == RecordStep("rename", "json", "publish")

\* Mutant: Ok is returned before the rename is durable.
PublishUnsynced ==
    /\ at = "publish"
    /\ Unsynced("free")
    /\ announced' = announced \union {job.event}
    /\ job' = NoJob
    /\ UNCHANGED <<note, claim, stored, ring, expired, base, made, faults>>

Publish ==
    /\ at = "publish"
    /\ Synced("free")
    /\ announced' = announced \union {job.event}
    /\ job' = NoJob
    /\ UNCHANGED <<note, claim, stored, ring, expired, base, made, faults>>

-----------------------------------------------------------------------------
(* DesktopDiagnosticSpool.step, one file under the lock *)

\* A record cut short is rejected, a file past seven days removed unread.
Reject(e) ==
    /\ at = "free"
    /\ e \in Entries
    /\ SetFile(e, "none")
    /\ expired' = IF file[e] = "partial" THEN expired ELSE expired \union {e}
    /\ UNCHANGED <<slots, note, kept, claim, stored, evicted, announced, base,
                   at, job, made, faults>>

Take(e) ==
    /\ at = "free"
    /\ file[e] \in {"written", "pending", "json"}
    /\ job' = [NoJob EXCEPT !.event = e]
    /\ at' = "persist"
    /\ UNCHANGED <<slots, note, kept, claim, stored, ring, ghosts, made, faults>>

\* persist_external_event, which keeps an event it already has; or it refuses.
Persist ==
    /\ at = "persist"
    /\ \/ stored' = stored \union {job.event} /\ at' = "acknowledge"
       \/ at' = "free" /\ UNCHANGED stored
    /\ UNCHANGED <<slots, note, kept, claim, ring, ghosts, job, made, faults>>

Acknowledge ==
    /\ at = "acknowledge"
    /\ SetFile(job.event, "none")
    /\ at' = "free"
    /\ UNCHANGED <<slots, note, kept, claim, stored, evicted, ghosts, job, made, faults>>

-----------------------------------------------------------------------------
(* Faults *)

\* The holder of the lock dies, or a call of it fails: a slot it had written but
\* not synchronized can be read from now on.
Stop ==
    /\ faults < MaxFaults
    /\ at # "free"
    /\ faults' = faults + 1
    /\ at' = "free"
    /\ job' = NoJob
    /\ UNCHANGED <<slot, durable>>
    /\ Judge
    /\ UNCHANGED <<note, kept, claim, stored, ring, ghosts, made>>

\* What may become of an event's file: its name may return to what was
\* synchronized, and a record that was not may be cut short.
Fates(e) ==
    LET names == {file[e], kept.file[e]} IN
    names \union {state \in {"partial"} : "written" \in names}
          \union {state \in {"pending"} : file[e] = "json" /\ kept.file[e] = "none"}

\* Each slot is one of the images the disk may hold, each entry of the directory
\* what it is or was.
PowerLoss ==
    /\ faults < MaxFaults
    /\ faults' = faults + 1
    /\ \E primary \in durable[0], alternate \in durable[1] :
           slot' = [i \in {0, 1} |-> IF i = 0 THEN primary ELSE alternate]
    /\ durable' = [i \in {0, 1} |-> {slot'[i]}]
    /\ journal' = IF journal = "durable" THEN "durable" ELSE "lost"
    /\ file' \in {f \in [Event -> FileState] : \A e \in Event : f[e] \in Fates(e)}
    /\ note' \in {note, kept.note}
    /\ kept' = [file |-> file', note |-> note']
    /\ evicted' = {e \in evicted : file'[e] = "none"}
    /\ expired' = {e \in expired : file'[e] = "none"}
    /\ at' = "free"
    /\ job' = NoJob
    /\ UNCHANGED <<claim, stored, announced, base, made>>

-----------------------------------------------------------------------------
Write ==
    \/ Begin \/ RecoverNote \/ RemoveNote \/ SyncNote
    \/ \E e \in Event : Expire(e) \/ Evict(e)
    \/ Scanned \/ Evicted \/ SyncEvictions \/ BeginSlot
    \/ WriteSlot \/ SyncSlot \/ SyncSlotName
    \/ Create \/ WriteRecord \/ SyncRecord \/ Rename \/ Publish

Consume == (\E e \in Event : Reject(e) \/ Take(e)) \/ Persist \/ Acknowledge

Next == Write \/ Consume \/ Stop \/ PowerLoss

Spec == Init /\ [][Next]_vars

-----------------------------------------------------------------------------
(* Properties *)

\* Files, slots and the holder's memory keep their shape; only the primary is ever
\* in the old format.
SpoolTypeOK ==
    /\ slot \in [{0, 1} -> Image]
    /\ slot[1].kind # "legacy"
    /\ durable \in [{0, 1} -> SUBSET Image]
    /\ journal \in {"durable", "loose", "lost"}
    /\ note \in Image
    /\ file \in [Event -> FileState]
    /\ kept \in [file: [Event -> FileState], note: Image]
    /\ claim \in [Event -> Nat]
    /\ stored \in SUBSET Event /\ announced \in SUBSET Event
    /\ evicted \in SUBSET Event /\ expired \in SUBSET Event
    /\ at \in Label
    /\ job \in [count: Nat, drops: Nat, slot: {0, 1}, value: Nat,
                event: 0..MaxEvents, noted: BOOLEAN, created: BOOLEAN]
    /\ base \in Nat /\ made \in 0..MaxEvents /\ faults \in Nat

\* The slots a reader that came now could read, were the holder to stop here: not
\* the one it is writing.
Writing == at \in {"slot", "written", "enter"}
Readable == {i \in {0, 1} : Valid(i) /\ ~(Writing /\ i = job.slot)}

\* The counts that can be read from the journal: load's, and that of an old binary,
\* which reads a legacy primary and refuses anything else.
Readings ==
    {slot[i].count : i \in {k \in Readable :
                               \/ \A n \in Readable : slot[n].count <= slot[k].count
                               \/ slot[k].kind = "legacy"}}

\* Once a count can be read, one always can, and nobody ever reads a smaller one,
\* wherever a write of either slot is torn or power is lost; an old binary that is
\* started in the middle of the migration included.  Excepted is a loss of power
\* while a slot is loose: one that a stopped writer left to be read but had not
\* synchronized, which load accepts as it is.
NoReaderGoesBack ==
    [][journal' # "lost" /\ Readings # {} =>
           /\ Readings' # {}
           /\ \A c \in Readings, d \in Readings' : c <= d]_vars

\* Evictions that no loss of power undoes.
Backed == {e \in evicted : kept.file[e] = "none"}

\* The journal and the records claim no eviction that a power loss may undo (on
\* Unix), whatever the disk keeps of a slot, and every eviction there was as long
\* as nothing has failed.
CountIsBacked ==
    /\ Unix => /\ Baseline <= base + Cardinality(Backed)
               /\ \A e \in Event : claim[e] <= base + Cardinality(Backed)
    /\ at = "free" /\ faults = 0 /\ made > 0 => Baseline = base + Cardinality(evicted)

\* An event whose write returned Ok stays, until the database has it or it is
\* removed for its age or to make room; on Unix a power loss in any step included.
PublishedIsKept ==
    Unix => announced \subseteq
        stored \union evicted \union expired \union {e \in Event : file[e] = "json"}

=============================================================================
