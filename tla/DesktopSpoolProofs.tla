--------------------------- MODULE DesktopSpoolProofs ---------------------------
(***************************************************************************)
(* What the desktop spool keeps for every number of events, ring size,     *)
(* legacy count and number of faults.                                      *)
(***************************************************************************)
EXTENDS DesktopSpool, FiniteSetTheorems, TLAPS

-----------------------------------------------------------------------------
(* The inductive invariant of the journal as it is read *)

Rows ==
    /\ slot \in [{0, 1} -> Image]
    /\ durable \in [{0, 1} -> SUBSET Image]
    /\ journal \in {"durable", "loose", "lost"}
    /\ note \in Image
    /\ file \in [Event -> FileState]
    /\ kept \in [file: [Event -> FileState], note: Image]
    /\ claim \in [Event -> Nat]
    /\ stored \in SUBSET Event /\ announced \in SUBSET Event
    /\ evicted \in SUBSET Event /\ expired \in SUBSET Event
    /\ at \in Label
    /\ job \in [count: Nat, drops: Nat, slot: {0, 1}, value: Nat,
                event: 0..MaxEvents, noted: BOOLEAN, created: BOOLEAN]
    /\ base \in Nat /\ made \in 0..MaxEvents /\ faults \in Nat

\* What the disk may hold of a slot: what is read is one of it, only the primary
\* may be legacy, and an image that decodes to nothing counts nothing.
Formats ==
    /\ \A i \in {0, 1} : slot[i] \in durable[i]
    /\ \A x \in durable[1] : x.kind # "legacy"
    /\ \A i \in {0, 1} : \A x \in durable[i] : x.kind \in {"torn", "absent"} => x.count = 0

Deciding == {"recover", "forget", "forgotten", "scan", "evict", "sync", "checkpoint"}

\* A writer that has loaded the journal knows its count until it writes a slot, and
\* has room for its event.
Loaded ==
    /\ at \in Deciding => job.count = Baseline /\ job.count <= job.drops
    /\ at \in Deciding \union {"slot", "written", "enter", "create"} => made < MaxEvents

\* While a slot is written, the other one holds the count that was loaded.
Overwriting ==
    Writing =>
        /\ slot[job.slot] = IF at = "slot" THEN Torn ELSE Sound(job.value)
        /\ job.count <= job.drops
        /\ job.value = IF Half THEN job.count ELSE job.drops
        /\ job.slot = 0 => slot[1].count = job.count
        /\ job.slot = 1 => slot[0].count = job.count /\ Valid(0)

\* A file that is being written or taken over is that of an event.
Handling ==
    at \in {"write", "flush", "rename", "publish", "persist", "acknowledge"}
        => job.event \in Event

JournalInv == Rows /\ Formats /\ Loaded /\ Overwriting /\ Handling

-----------------------------------------------------------------------------
(* Images and the larger count *)

LEMMA Images ==
    /\ Torn \in Image /\ Absent \in Image
    /\ Torn.kind = "torn" /\ Torn.count = 0 /\ Absent.kind = "absent" /\ Absent.count = 0
    /\ \A c \in Nat : /\ Sound(c) \in Image /\ Sound(c).kind = "sound" /\ Sound(c).count = c
                      /\ Legacy(c) \in Image /\ Legacy(c).kind = "legacy"
                      /\ Legacy(c).count = c
  BY DEF Torn, Absent, Sound, Legacy, Image

\* Baseline is the larger of the two counts, an invalid one counting as none.
LEMMA Larger ==
    ASSUME Rows, Formats
    PROVE  /\ slot[0].count \in Nat /\ slot[1].count \in Nat /\ Baseline \in Nat
           /\ slot[0].count <= Baseline /\ slot[1].count <= Baseline
           /\ Baseline = slot[0].count \/ Baseline = slot[1].count
           /\ \A i \in {0, 1} : ~Valid(i) => slot[i].count = 0
           /\ slot[1].kind # "legacy"
  <1>1. slot[0] \in Image /\ slot[1] \in Image BY DEF Rows
  <1>2. slot[0].count \in Nat /\ slot[1].count \in Nat BY <1>1 DEF Image
  <1>3. \A i \in {0, 1} : ~Valid(i) => slot[i].count = 0
    BY <1>1 DEF Formats, Valid, Image
  <1> QED BY <1>2, <1>3 DEF Baseline, Formats

LEMMA LargerAfter ==
    (Rows /\ Formats => /\ Baseline \in Nat
                        /\ slot[0].count <= Baseline /\ slot[1].count <= Baseline
                        /\ \A i \in {0, 1} : ~Valid(i) => slot[i].count = 0)'
  <1>1. Rows /\ Formats => /\ Baseline \in Nat
                           /\ slot[0].count <= Baseline /\ slot[1].count <= Baseline
                           /\ \A i \in {0, 1} : ~Valid(i) => slot[i].count = 0
    BY Larger
  <1> QED BY <1>1, PTL

-----------------------------------------------------------------------------
(* Rows *)

LEMMA RowsInit == Init => Rows
  <1> SUFFICES ASSUME Init PROVE Rows OBVIOUS
  <1>1. slot \in [{0, 1} -> Image] /\ note \in Image
    BY SpoolAssumption DEF Init, Image, Absent, Torn, Legacy
  <1>2. file \in [Event -> FileState] BY DEF Init, FileState
  <1>3. base \in Nat /\ job \in [count: Nat, drops: Nat, slot: {0, 1}, value: Nat,
                event: 0..MaxEvents, noted: BOOLEAN, created: BOOLEAN]
    BY <1>1, SpoolAssumption DEF Init, NoJob, Image
  <1>4. durable \in [{0, 1} -> SUBSET Image] BY <1>1 DEF Init
  <1> QED BY <1>1, <1>2, <1>3, <1>4, SpoolAssumption DEF Init, Rows, Label

LEMMA JobTypes ==
    ASSUME Rows
    PROVE  /\ job.count \in Nat /\ job.drops \in Nat /\ job.slot \in {0, 1}
           /\ job.value \in Nat /\ job.event \in 0..MaxEvents
           /\ job.noted \in BOOLEAN /\ job.created \in BOOLEAN
           /\ NoJob \in [count: Nat, drops: Nat, slot: {0, 1}, value: Nat,
                event: 0..MaxEvents, noted: BOOLEAN, created: BOOLEAN]
  BY SpoolAssumption DEF Rows, NoJob

LEMMA SlotTypes ==
    ASSUME Rows
    PROVE  OlderSlot \in {0, 1} /\ \A i \in {0, 1} : SlotValue(i) \in Nat
  BY JobTypes DEF OlderSlot, SlotValue

\* Synchronizing the directory takes names and never images back.
LEMMA SyncTypes ==
    ASSUME Rows, SyncDirectory
    PROVE  /\ kept' \in [file: [Event -> FileState], note: Image]
           /\ durable' \in [{0, 1} -> SUBSET Image]
           /\ \A i \in {0, 1} : durable'[i] \subseteq durable[i]
                 /\ (slot[i] \in durable[i] => slot[i] \in durable'[i])
  BY DEF Rows, SyncDirectory

LEMMA JudgeTypes == ASSUME Rows, Judge PROVE journal' \in {"durable", "loose", "lost"}
  BY DEF Rows, Judge

LEMMA WriteKeepsRows == ASSUME JournalInv, Write PROVE Rows'
  <1> USE SpoolAssumption, JobTypes DEF JournalInv, slots
  <1>0. Rows OBVIOUS
  <1>1. CASE Begin
    <2>1. Baseline \in Nat BY Larger
    <2> QED BY <1>0, <1>1, <2>1 DEF Rows, Begin, NoJob, ring, ghosts, Label
  <1>2. CASE RecoverNote
    <2>1. note.count \in Nat BY DEF Rows, Image
    <2> QED BY <1>0, <1>2, <2>1 DEF Rows, RecoverNote, ring, ghosts, Label
  <1>3. CASE RemoveNote
    BY <1>0, <1>3, Images DEF Rows, RemoveNote, ring, ghosts, Label
  <1>4. CASE SyncNote
    <2>1. SyncDirectory /\ Judge /\ UNCHANGED slot BY <1>4 DEF SyncNote, Synced
    <2> QED BY <1>0, <1>4, <2>1, SyncTypes, JudgeTypes
            DEF Rows, SyncNote, Synced, ring, ghosts, Label
  <1>5. ASSUME NEW e \in Event, Expire(e) \/ Evict(e) PROVE Rows'
    BY <1>0, <1>5 DEF Rows, Expire, Evict, Remove, SetFile, FileState, ghosts, Label
  <1>6. CASE Scanned
    BY <1>0, <1>6 DEF Rows, Scanned, ring, ghosts, Label
  <1>7. CASE Evicted
    BY <1>0, <1>7 DEF Rows, Evicted, ring, ghosts, Label
  <1>8. CASE SyncEvictions
    <2>1. SyncDirectory /\ Judge /\ UNCHANGED slot BY <1>8 DEF SyncEvictions, Synced
    <2> QED BY <1>0, <1>8, <2>1, SyncTypes, JudgeTypes
            DEF Rows, SyncEvictions, Synced, ring, ghosts, Label
  <1>9. CASE BeginSlot
    <2>1. OlderSlot \in {0, 1} /\ SlotValue(OlderSlot) \in Nat BY SlotTypes
    <2>2. slot' \in [{0, 1} -> Image] /\ durable' \in [{0, 1} -> SUBSET Image]
      BY <1>0, <1>9, <2>1, Images DEF Rows, BeginSlot, SetSlot
    <2>3. job' \in [count: Nat, drops: Nat, slot: {0, 1}, value: Nat,
                event: 0..MaxEvents, noted: BOOLEAN, created: BOOLEAN]
      BY <1>0, <1>9, <2>1 DEF Rows, BeginSlot
    <2> QED BY <1>0, <1>9, <2>2, <2>3 DEF Rows, BeginSlot, ring, ghosts, Label
  <1>10. CASE WriteSlot
    <2>1. Sound(job.value) \in Image BY Images
    <2> QED BY <1>0, <1>10, <2>1 DEF Rows, WriteSlot, SetSlot, ring, ghosts, Label
  <1>11. CASE SyncSlot
    <2>1. slot' \in [{0, 1} -> Image] /\ durable' \in [{0, 1} -> SUBSET Image]
      BY <1>0, <1>11, Images DEF Rows, SyncSlot, SetSlot
    <2>2. journal' \in {"durable", "loose", "lost"}
      BY <1>0, <1>11, JudgeTypes DEF Rows, SyncSlot
    <2>3. at' \in Label /\ job' \in [count: Nat, drops: Nat, slot: {0, 1}, value: Nat,
                event: 0..MaxEvents, noted: BOOLEAN, created: BOOLEAN]
      BY <1>0, <1>11 DEF Rows, SyncSlot, AfterSlot, Recorded, Label
    <2> QED BY <1>0, <1>11, <2>1, <2>2, <2>3 DEF Rows, SyncSlot, ring, ghosts
  <1>12. CASE SyncSlotName
    <2>1. SyncDirectory /\ Judge /\ UNCHANGED slot BY <1>12 DEF SyncSlotName, Synced
    <2>2. at' \in Label /\ job' \in [count: Nat, drops: Nat, slot: {0, 1}, value: Nat,
                event: 0..MaxEvents, noted: BOOLEAN, created: BOOLEAN]
      BY <1>0, <1>12 DEF Rows, SyncSlotName, Synced, AfterSlot, Recorded, Label
    <2> QED BY <1>0, <1>12, <2>1, <2>2, SyncTypes, JudgeTypes
            DEF Rows, SyncSlotName, ring, ghosts
  <1>13. CASE Create
    <2>3. at = "create" BY <1>13 DEF Create
    <2>4. made < MaxEvents BY <2>3 DEF Loaded
    <2>1. made + 1 \in Event BY <1>0, <2>4 DEF Rows, Event
    <2>2. made + 1 \in 0..MaxEvents BY <2>1 DEF Event
    <2> QED BY <1>0, <1>13, <2>1, <2>2 DEF Rows, Create, SetFile, FileState, ghosts, Label
  <1>14. CASE WriteRecord \/ SyncRecord \/ Rename
    BY <1>0, <1>14 DEF Rows, WriteRecord, SyncRecord, Rename, RecordStep, SetFile, FileState,
       ghosts, Label
  <1>15. CASE Publish
    <2>1. job.event \in Event BY <1>15 DEF Handling, Publish
    <2>2. SyncDirectory /\ Judge /\ UNCHANGED slot BY <1>15 DEF Publish, Synced
    <2> QED BY <1>0, <1>15, <2>1, <2>2, SyncTypes, JudgeTypes
            DEF Rows, Publish, Synced, ring, Label
  <1> QED BY <1>1, <1>2, <1>3, <1>4, <1>5, <1>6, <1>7, <1>8, <1>9, <1>10,
             <1>11, <1>12, <1>13, <1>14, <1>15 DEF Write

LEMMA OtherKeepRows == ASSUME JournalInv, Consume \/ Stop \/ PowerLoss PROVE Rows'
  <1> USE SpoolAssumption, JobTypes DEF JournalInv, slots
  <1>0. Rows OBVIOUS
  <1>1. ASSUME NEW e \in Event, Reject(e) PROVE Rows'
    BY <1>0, <1>1 DEF Rows, Reject, SetFile, FileState
  <1>2. ASSUME NEW e \in Event, Take(e) PROVE Rows'
    <2>1. e \in 0..MaxEvents BY DEF Event
    <2> QED BY <1>0, <1>2, <2>1 DEF Rows, Take, NoJob, ring, ghosts, Label
  <1>3. CASE Persist
    <2>1. job.event \in Event BY <1>3 DEF Handling, Persist
    <2> QED BY <1>0, <1>3, <2>1 DEF Rows, Persist, ring, ghosts, Label
  <1>4. CASE Acknowledge
    BY <1>0, <1>4 DEF Rows, Acknowledge, SetFile, FileState, ghosts, Label
  <1>5. CASE Stop
    BY <1>0, <1>5, JudgeTypes DEF Rows, Stop, ring, ghosts, Label
  <1>6. CASE PowerLoss
    <2>1. file' \in [Event -> FileState] BY <1>6 DEF PowerLoss
    <2>2. note' \in Image BY <1>0, <1>6 DEF Rows, PowerLoss
    <2>3. kept' \in [file: [Event -> FileState], note: Image]
      BY <1>6, <2>1, <2>2 DEF PowerLoss
    <2>4. evicted' \in SUBSET Event /\ expired' \in SUBSET Event
      BY <1>0, <1>6 DEF Rows, PowerLoss
    <2>5. slot' \in [{0, 1} -> Image]
      BY <1>0, <1>6 DEF Rows, PowerLoss
    <2>6. durable' \in [{0, 1} -> SUBSET Image] BY <1>6, <2>5 DEF PowerLoss
    <2> QED BY <1>0, <1>6, <2>1, <2>2, <2>3, <2>4, <2>5, <2>6 DEF Rows, PowerLoss, Label
  <1> QED BY <1>1, <1>2, <1>3, <1>4, <1>5, <1>6 DEF Consume

-----------------------------------------------------------------------------
(* Steps that leave what is read of the slots *)

LEMMA SlotStays == UNCHANGED slot => Baseline' = Baseline /\ \A i \in {0, 1} : Valid(i)' = Valid(i)
  BY DEF Baseline, Valid

\* The step that ends the write of a slot.
Closing == (SyncSlot /\ ~job.created) \/ SyncSlotName

LEMMA QuietKeeps ==
    ASSUME JournalInv, Next, ~BeginSlot, ~WriteSlot, ~SyncSlot, ~SyncSlotName, ~PowerLoss
    PROVE  UNCHANGED slot /\ Loaded' /\ ~Writing' /\ Handling'
  <1> USE SpoolAssumption DEF JournalInv, slots
  <1>0. UNCHANGED slot
    BY DEF Next, Write, Consume, Begin, RecoverNote, RemoveNote, SyncNote, Expire,
       Evict, Scanned, Evicted, SyncEvictions, Create, WriteRecord, SyncRecord, Rename,
       RecordStep, Publish, Reject, Take, Persist, Acknowledge, Stop, Synced
  <1>1. Baseline' = Baseline BY <1>0, SlotStays
  <1>2. ~Writing'
    BY DEF Next, Write, Consume, Begin, RecoverNote, RemoveNote, SyncNote, Expire,
       Evict, Scanned, Evicted, SyncEvictions, Create, WriteRecord, SyncRecord, Rename,
       RecordStep, Publish, Reject, Take, Persist, Acknowledge, Stop, Synced, Writing
  <1>4. Rows OBVIOUS
  <1> USE JobTypes
  <1>5. CASE Begin
    <2>1. Baseline \in Nat BY Larger
    <2>2. /\ job'.count = Baseline /\ job'.drops = Baseline /\ at' = "recover"
          /\ made < MaxEvents /\ made' = made
      BY <1>5 DEF Begin, NoJob
    <2> QED BY <1>0, <1>1, <1>2, <2>1, <2>2 DEF Loaded, Deciding, Handling
  <1>6. CASE RecoverNote
    <2>1. note.count \in Nat BY DEF Rows, Image
    <2> QED BY <1>0, <1>1, <1>2, <1>4, <1>6, <2>1
            DEF RecoverNote, Loaded, Deciding, Handling, Rows
  <1>7. CASE RemoveNote
    BY <1>0, <1>1, <1>2, <1>7 DEF RemoveNote, Loaded, Deciding, Handling
  <1>8. CASE SyncNote
    BY <1>0, <1>1, <1>2, <1>4, <1>8 DEF SyncNote, Synced, Loaded, Deciding, Handling, Rows
  <1>9. ASSUME NEW e \in Event, Expire(e) \/ Evict(e) PROVE Loaded' /\ Handling'
    BY <1>0, <1>1, <1>4, <1>9 DEF Expire, Evict, Remove, Loaded, Deciding, Handling, Rows
  <1>10. CASE Scanned
    BY <1>0, <1>1, <1>2, <1>10 DEF Scanned, Loaded, Deciding, Handling
  <1>11. CASE Evicted
    BY <1>0, <1>1, <1>2, <1>11 DEF Evicted, Loaded, Deciding, Handling
  <1>12. CASE SyncEvictions
    BY <1>0, <1>1, <1>2, <1>12 DEF SyncEvictions, Synced, Loaded, Deciding, Handling
  <1>13. CASE Create
    <2>1. at = "create" /\ at' = "write" BY <1>13 DEF Create
    <2>2. made + 1 \in Event BY <1>4, <2>1 DEF Loaded, Rows, Event
    <2>3. job'.event = made + 1 BY <1>4, <1>13 DEF Create, Rows
    <2> QED BY <1>0, <1>1, <1>2, <2>1, <2>2, <2>3 DEF Loaded, Deciding, Handling
  <1>14. CASE WriteRecord \/ SyncRecord \/ Rename
    BY <1>0, <1>1, <1>2, <1>14
       DEF WriteRecord, SyncRecord, Rename, RecordStep, Loaded, Deciding, Handling
  <1>15. CASE Publish \/ Persist \/ Acknowledge
    BY <1>0, <1>1, <1>2, <1>15
       DEF Publish, Persist, Acknowledge, Synced, Loaded, Deciding, Handling
  <1>16. ASSUME NEW e \in Event, Reject(e) \/ Take(e) PROVE Loaded' /\ Handling'
    BY <1>0, <1>1, <1>16 DEF Reject, Take, Loaded, Deciding, Handling, NoJob
  <1>17. CASE Stop
    BY <1>0, <1>1, <1>2, <1>17 DEF Stop, Loaded, Deciding, Handling
  <1> QED BY <1>0, <1>2, <1>5, <1>6, <1>7, <1>8, <1>9, <1>10, <1>11, <1>12,
             <1>13, <1>14, <1>15, <1>16, <1>17 DEF Next, Write, Consume

-----------------------------------------------------------------------------
(* The steps of write_slot *)

\* The slot that is chosen is not the one with the loaded count.
LEMMA OtherHasCount ==
    ASSUME Rows, Formats, job.count = Baseline
    PROVE  /\ OlderSlot \in {0, 1}
           /\ OlderSlot = 0 => slot[1].count = job.count
           /\ OlderSlot = 1 => slot[0].count = job.count /\ Valid(0)
           /\ Valid(0) \/ Valid(1) => \E i \in {0, 1} : i # OlderSlot /\ Valid(i)
  <1>1. /\ slot[0].count \in Nat /\ slot[1].count \in Nat /\ Baseline \in Nat
        /\ slot[0].count <= Baseline /\ slot[1].count <= Baseline
        /\ Baseline = slot[0].count \/ Baseline = slot[1].count
        /\ (~Valid(0) => slot[0].count = 0) /\ (~Valid(1) => slot[1].count = 0) BY Larger
  <1>2. slot[0].kind = "legacy" => Valid(0) BY DEF Valid
  <1> QED BY <1>1, <1>2 DEF OlderSlot, Baseline

LEMMA BeginSlotFacts ==
    ASSUME JournalInv, BeginSlot
    PROVE  /\ at = "checkpoint" /\ at' = "slot" /\ made' = made /\ made < MaxEvents
           /\ job.count = Baseline /\ job.count <= job.drops
           /\ job'.slot = OlderSlot /\ job'.value = SlotValue(OlderSlot)
           /\ job'.count = job.count /\ job'.drops = job.drops /\ job'.noted = job.noted
           /\ OlderSlot \in {0, 1} /\ slot'[OlderSlot] = Torn
           /\ durable'[OlderSlot] = durable[OlderSlot] \union {Torn}
           /\ \A i \in {0, 1} : i # OlderSlot => slot'[i] = slot[i] /\ durable'[i] = durable[i]
           /\ journal' = journal
  <1>1. Rows /\ Loaded BY DEF JournalInv
  <1>2. at = "checkpoint" BY DEF BeginSlot
  <1>3. OlderSlot \in {0, 1} BY <1>1, SlotTypes
  <1>4. /\ slot' = [slot EXCEPT ![OlderSlot] = Torn]
        /\ durable' = [durable EXCEPT ![OlderSlot] = durable[OlderSlot] \union {Torn}]
    BY DEF BeginSlot, SetSlot
  <1>5. /\ slot'[OlderSlot] = Torn
        /\ durable'[OlderSlot] = durable[OlderSlot] \union {Torn}
        /\ \A i \in {0, 1} : i # OlderSlot => slot'[i] = slot[i] /\ durable'[i] = durable[i]
    BY <1>1, <1>3, <1>4 DEF Rows
  <1> QED BY <1>1, <1>2, <1>3, <1>5 DEF Rows, Loaded, Deciding, BeginSlot

LEMMA BeginSlotKeeps ==
    ASSUME JournalInv, BeginSlot PROVE Loaded' /\ Overwriting' /\ Handling' /\ Baseline' = Baseline
  <1> USE BeginSlotFacts
  <1>1. Rows /\ Formats BY DEF JournalInv
  <1>2. job.count = Baseline OBVIOUS
  <1>6. Loaded' /\ Handling' BY DEF Loaded, Deciding, Handling
  <1>7. /\ OlderSlot = 0 => slot'[1] = slot[1] /\ slot[1].count = job.count
        /\ OlderSlot = 1 => slot'[0] = slot[0] /\ slot[0].count = job.count /\ Valid(0)
    BY <1>1, <1>2, OtherHasCount
  <1>8. Half' <=> OlderSlot = 1 /\ slot[0].kind = "legacy" BY <1>7 DEF Half
  <1>9. SlotValue(OlderSlot) = IF Half' THEN job.count ELSE job.drops
    BY <1>8 DEF SlotValue
  <1>11. Overwriting' BY <1>7, <1>9 DEF Overwriting, Writing, Valid
  <1>12. Torn.kind = "torn" /\ Torn.count = 0 BY Images
  <1>13. Valid(0) \/ Valid(1) => \E i \in {0, 1} : i # OlderSlot /\ Valid(i)
    BY <1>1, <1>2, OtherHasCount
  <1>14. Baseline' = Baseline
    BY <1>1, <1>2, <1>7, <1>12, <1>13, Larger DEF Baseline, Valid
  <1> QED BY <1>6, <1>11, <1>14

LEMMA WriteSlotFacts ==
    ASSUME JournalInv, WriteSlot
    PROVE  /\ at = "slot" /\ at' = "written" /\ job' = job /\ made' = made /\ made < MaxEvents
           /\ job.count \in Nat /\ job.drops \in Nat /\ job.value \in Nat
           /\ job.count <= job.drops /\ job.count <= job.value /\ job.value <= job.drops
           /\ job.slot \in {0, 1} /\ slot[job.slot] = Torn
           /\ slot'[job.slot] = Sound(job.value)
           /\ durable'[job.slot] = durable[job.slot] \union {Sound(job.value)}
           /\ \A i \in {0, 1} : i # job.slot =>
                 slot'[i] = slot[i] /\ durable'[i] = durable[i] /\ slot[i].count = job.count
           /\ journal' = journal
  <1>1. Rows /\ Loaded /\ Overwriting BY DEF JournalInv
  <1>2. at = "slot" /\ at' = "written" /\ UNCHANGED <<job, made, journal>> BY DEF WriteSlot
  <1>3. /\ job.count \in Nat /\ job.drops \in Nat /\ job.value \in Nat /\ job.slot \in {0, 1}
    BY <1>1, JobTypes
  <1>4. /\ slot' = [slot EXCEPT ![job.slot] = Sound(job.value)]
        /\ durable' = [durable EXCEPT ![job.slot] = durable[job.slot] \union {Sound(job.value)}]
    BY DEF WriteSlot, SetSlot
  <1>5. /\ slot'[job.slot] = Sound(job.value)
        /\ durable'[job.slot] = durable[job.slot] \union {Sound(job.value)}
        /\ \A i \in {0, 1} : i # job.slot => slot'[i] = slot[i] /\ durable'[i] = durable[i]
    BY <1>1, <1>3, <1>4 DEF Rows
  <1>6. /\ made < MaxEvents /\ slot[job.slot] = Torn /\ job.count <= job.drops
        /\ job.value = job.count \/ job.value = job.drops
        /\ \A i \in {0, 1} : i # job.slot => slot[i].count = job.count
    BY <1>1, <1>2, <1>3 DEF Loaded, Overwriting, Writing
  <1> QED BY <1>2, <1>3, <1>5, <1>6

LEMMA WriteSlotKeeps ==
    ASSUME JournalInv, WriteSlot
    PROVE  /\ Loaded' /\ Overwriting' /\ Handling'
           /\ Baseline = job.count /\ Baseline' = job.value
  <1> USE WriteSlotFacts
  <1>1. Rows /\ Formats /\ Overwriting BY DEF JournalInv
  <1>2. /\ Torn.kind = "torn" /\ Torn.count = 0
        /\ Sound(job.value).kind = "sound" /\ Sound(job.value).count = job.value
    BY Images
  <1>3. /\ job.slot = 0 => slot'[1] = slot[1]
        /\ job.slot = 1 => slot'[0] = slot[0]
    OBVIOUS
  <1>4. Half' = Half BY <1>3 DEF Half
  <1>5. Overwriting' BY <1>1, <1>3, <1>4 DEF Overwriting, Writing, Valid
  <1>6. Loaded' /\ Handling' BY DEF Loaded, Deciding, Handling
  <1>7. \A i \in {0, 1} : ~Valid(i) => slot[i].count = 0 BY <1>1, Larger
  <1>8. Baseline = job.count BY <1>2, <1>7 DEF Baseline, Valid
  <1>9. Baseline' = job.value BY <1>2, <1>7 DEF Baseline, Valid
  <1> QED BY <1>5, <1>6, <1>8, <1>9

LEMMA SyncSlotFacts ==
    ASSUME JournalInv, SyncSlot \/ SyncSlotName
    PROVE  /\ UNCHANGED slot /\ made' = made /\ made < MaxEvents /\ at \in {"written", "enter"}
           /\ job.slot \in {0, 1} /\ slot[job.slot] = Sound(job.value)
           /\ job.count \in Nat /\ job.drops \in Nat /\ job.value \in Nat
           /\ job.count <= job.drops /\ Baseline = job.value
           /\ \A i \in {0, 1} : i # job.slot => slot[i].count = job.count
           /\ job'.drops = job.drops /\ job'.noted = job.noted
           /\ \A i \in {0, 1} : slot[i] \in durable'[i] /\ durable'[i] \subseteq durable[i]
           /\ ~Closing => at' = "enter" /\ job' = job /\ journal' = journal
           /\ Closing =>
                /\ Judge /\ job' = Recorded
                /\ \/ /\ Half /\ at' = "checkpoint" /\ job.value = job.count
                      /\ job'.count = job.count
                   \/ /\ ~Half /\ job.value = job.drops /\ job'.count = job.drops
                      /\ at' = IF job.noted THEN "forget" ELSE "create"
  <1>1. Rows /\ Loaded /\ Overwriting /\ Formats BY DEF JournalInv
  <1>2. at \in {"written", "enter"} /\ Writing BY DEF SyncSlot, SyncSlotName, Writing
  <1>3. /\ job.count \in Nat /\ job.drops \in Nat /\ job.value \in Nat /\ job.slot \in {0, 1}
    BY <1>1, JobTypes
  <1>4. /\ made < MaxEvents /\ slot[job.slot] = Sound(job.value) /\ job.count <= job.drops
        /\ job.value = IF Half THEN job.count ELSE job.drops
        /\ \A i \in {0, 1} : i # job.slot => slot[i].count = job.count
    BY <1>1, <1>2, <1>3 DEF Loaded, Overwriting
  <1>5. Baseline = job.value
    <2>1. Sound(job.value).kind = "sound" /\ Sound(job.value).count = job.value
      BY <1>3, Images
    <2> QED BY <1>1, <1>3, <1>4, <2>1, Larger DEF Baseline, Valid
  <1>6. UNCHANGED slot
    <2>1. CASE SyncSlot
      <3>1. slot' = [slot EXCEPT ![job.slot] = slot[job.slot]] BY <2>1 DEF SyncSlot, SetSlot
      <3> QED BY <1>1, <1>3, <3>1 DEF Rows
    <2> QED BY <2>1 DEF SyncSlotName, Synced
  <1>7. \A i \in {0, 1} : slot[i] \in durable'[i] /\ durable'[i] \subseteq durable[i]
    <2>1. CASE SyncSlot
      <3>1. durable' = [durable EXCEPT ![job.slot] =
                          {slot[job.slot]} \union (durable[job.slot] \intersect {Absent})]
        BY <2>1 DEF SyncSlot, SetSlot
      <3> QED BY <1>1, <1>3, <3>1 DEF Rows, Formats
    <2>2. CASE SyncSlotName
      <3>1. SyncDirectory BY <2>2 DEF SyncSlotName, Synced
      <3> QED BY <1>1, <3>1, SyncTypes DEF Formats
    <2> QED BY <2>1, <2>2
  <1>8. ~Closing => at' = "enter" /\ job' = job /\ journal' = journal
    BY DEF Closing, SyncSlot
  <1>9. Closing => Judge /\ job' = Recorded /\ at' = AfterSlot
    BY <1>1, JobTypes DEF Closing, SyncSlot, SyncSlotName, Synced
  <1>10. job' = job \/ job' = Recorded BY <1>8, <1>9
  <1>11. job'.drops = job.drops /\ job'.noted = job.noted BY <1>1, <1>10 DEF Recorded, Rows
  <1>12. Closing => \/ /\ Half /\ at' = "checkpoint" /\ job.value = job.count
                       /\ job'.count = job.count
                    \/ /\ ~Half /\ job.value = job.drops /\ job'.count = job.drops
                       /\ at' = IF job.noted THEN "forget" ELSE "create"
    BY <1>1, <1>4, <1>9 DEF Recorded, AfterSlot, Rows
  <1>13. made' = made BY DEF SyncSlot, SyncSlotName
  <1> QED BY <1>2, <1>3, <1>4, <1>5, <1>6, <1>7, <1>8, <1>9, <1>11, <1>12, <1>13

LEMMA SyncSlotKeeps ==
    ASSUME JournalInv, SyncSlot \/ SyncSlotName
    PROVE  /\ Loaded' /\ Overwriting' /\ Handling' /\ Baseline' = Baseline
           /\ Writing' <=> ~Closing
  <1> USE SyncSlotFacts
  <1>1. Overwriting /\ Writing BY DEF JournalInv, Writing
  <1>2. Baseline' = Baseline BY SlotStays
  <1>3. CASE ~Closing
    <2>1. Half' = Half BY <1>3 DEF Half
    <2>2. Valid(0)' = Valid(0) BY SlotStays
    <2> QED BY <1>1, <1>2, <1>3, <2>1, <2>2 DEF Overwriting, Writing, Loaded, Deciding, Handling
  <1>4. CASE Closing
    BY <1>2, <1>4 DEF Overwriting, Writing, Loaded, Deciding, Handling
  <1> QED BY <1>2, <1>3, <1>4

LEMMA PowerLossKeeps ==
    ASSUME JournalInv, PowerLoss PROVE Loaded' /\ ~Writing' /\ Handling'
  BY DEF PowerLoss, Loaded, Deciding, Writing, Handling

-----------------------------------------------------------------------------
(* What the disk may hold *)

\* A step that only takes images back.
LEMMA FormatsShrink ==
    ASSUME Formats, UNCHANGED slot,
           \A i \in {0, 1} : slot[i] \in durable'[i] /\ durable'[i] \subseteq durable[i]
    PROVE  Formats'
  BY DEF Formats

\* The steps that write neither a slot nor what the disk may hold of it, and those
\* that synchronize the directory and judge the journal.
LEMMA SlotSteps ==
    ASSUME Next
    PROVE  \/ UNCHANGED slots /\ ~Writing /\ ~Writing'
           \/ UNCHANGED slot /\ Judge /\ (durable' = durable \/ SyncDirectory) /\ ~Writing'
           \/ BeginSlot \/ WriteSlot \/ SyncSlot \/ SyncSlotName \/ PowerLoss
  BY DEF Next, Write, Consume, Begin, RecoverNote, RemoveNote, SyncNote, Expire,
     Evict, Scanned, Evicted, SyncEvictions, Create, WriteRecord, SyncRecord, Rename,
     RecordStep, Publish, Reject, Take, Persist, Acknowledge, Stop, Synced, Writing

LEMMA FormatsStep == ASSUME JournalInv, Next PROVE Formats'
  <1>0. Rows /\ Formats BY DEF JournalInv
  <1>1. /\ Torn.kind = "torn" /\ Torn.count = 0
        /\ \A c \in Nat : Sound(c).kind = "sound"
    BY Images
  <1>2. CASE UNCHANGED slots BY <1>0, <1>2 DEF slots, Formats
  <1>3. CASE UNCHANGED slot /\ (durable' = durable \/ SyncDirectory)
    <2>1. \A i \in {0, 1} : slot[i] \in durable'[i] /\ durable'[i] \subseteq durable[i]
      BY <1>0, <1>3, SyncTypes DEF Formats
    <2> QED BY <1>0, <1>3, <2>1, FormatsShrink
  <1>4. CASE BeginSlot
    BY <1>0, <1>1, <1>4, BeginSlotFacts DEF Formats
  <1>5. CASE WriteSlot
    BY <1>0, <1>1, <1>5, WriteSlotFacts DEF Formats
  <1>6. CASE SyncSlot \/ SyncSlotName
    BY <1>0, <1>6, SyncSlotFacts, FormatsShrink
  <1>7. CASE PowerLoss
    <2>1. \A i \in {0, 1} : slot'[i] \in durable[i] /\ durable'[i] = {slot'[i]}
      BY <1>7 DEF PowerLoss
    <2> QED BY <1>0, <2>1 DEF Formats
  <1> QED BY <1>2, <1>3, <1>4, <1>5, <1>6, <1>7, SlotSteps

LEMMA JournalInit == Init => JournalInv
  <1> SUFFICES ASSUME Init PROVE JournalInv OBVIOUS
  <1>1. Rows BY RowsInit
  <1>2. at = "free" BY DEF Init
  <1>3. /\ slot[1] = Absent /\ (slot[0] = Absent \/ slot[0].kind = "legacy")
        /\ durable[0] = {slot[0]} /\ durable[1] = {slot[1]}
    BY SpoolAssumption DEF Init, Legacy, Absent
  <1>4. Formats BY <1>3, Images DEF Formats
  <1>5. Loaded /\ Overwriting /\ Handling
    BY <1>2 DEF Loaded, Deciding, Overwriting, Writing, Handling
  <1> QED BY <1>1, <1>4, <1>5 DEF JournalInv

LEMMA JournalStep == JournalInv /\ [Next]_vars => JournalInv'
  <1> SUFFICES ASSUME JournalInv, [Next]_vars PROVE JournalInv' OBVIOUS
  <1>1. ASSUME Next PROVE JournalInv'
    <2>1. Rows' /\ Formats'
      BY <1>1, WriteKeepsRows, OtherKeepRows, FormatsStep DEF Next
    <2>2. CASE BeginSlot BY <2>1, <2>2, BeginSlotKeeps DEF JournalInv
    <2>3. CASE WriteSlot BY <2>1, <2>3, WriteSlotKeeps DEF JournalInv
    <2>4. CASE SyncSlot \/ SyncSlotName BY <2>1, <2>4, SyncSlotKeeps DEF JournalInv
    <2>5. CASE PowerLoss BY <2>1, <2>5, PowerLossKeeps DEF JournalInv, Overwriting
    <2>6. CASE ~BeginSlot /\ ~WriteSlot /\ ~SyncSlot /\ ~SyncSlotName /\ ~PowerLoss
      BY <1>1, <2>1, <2>6, QuietKeeps DEF JournalInv, Overwriting
    <2> QED BY <2>2, <2>3, <2>4, <2>5, <2>6
  <1>2. CASE UNCHANGED vars
    <2>1. Rows' /\ Formats' BY <1>2 DEF JournalInv, Rows, Formats, vars
    <2>2. UNCHANGED <<slot, at, job, made>> BY <1>2 DEF vars
    <2>3. Loaded /\ Overwriting /\ Handling BY DEF JournalInv
    <2>4. Baseline' = Baseline /\ Valid(0)' = Valid(0) /\ Half' = Half /\ Writing' = Writing
      BY <2>2, SlotStays DEF Half, Writing
    <2>5. Loaded' /\ Overwriting' /\ Handling'
      BY <2>2, <2>3, <2>4 DEF Loaded, Deciding, Overwriting, Handling
    <2> QED BY <2>1, <2>5 DEF JournalInv
  <1> QED BY <1>1, <1>2

LEMMA JournalAlways == Spec => []JournalInv
  BY JournalInit, JournalStep, PTL DEF Spec

\* Files, slots and the memory of a writer keep their shape, whatever the disk makes of
\* them: only the primary is ever in the old format.
THEOREM SpoolTypes == Spec => []SpoolTypeOK
  <1>1. JournalInv => SpoolTypeOK BY DEF JournalInv, Rows, Formats, SpoolTypeOK
  <1> QED BY <1>1, JournalAlways, PTL

-----------------------------------------------------------------------------
(* The readings *)

\* Until power is lost with a loose slot, the backup of a legacy primary never
\* exceeds it.
Ordered ==
    journal # "lost" /\ slot[0].kind = "legacy" => slot[1].count <= slot[0].count

\* A slot that can be read is durable while the journal is, and whatever the disk
\* holds of both, the backup of a legacy primary does not exceed it.
Firm ==
    journal = "durable" =>
        /\ \A i \in Readable : durable[i] = {slot[i]}
        /\ \A x \in durable[0], y \in durable[1] : x.kind = "legacy" => y.count <= x.count

ReadingInv == Ordered /\ Firm

\* Who reads now, or when the holder stops here, reads this count if any.
CanRead == \E i \in {0, 1} : i \in Readable
Count == IF Writing THEN job.count ELSE Baseline

LEMMA OneReading ==
    ASSUME JournalInv, Ordered, journal # "lost"
    PROVE  /\ \A c \in Readings : c = Count
           /\ Readings # {} <=> CanRead
  <1>1. Rows /\ Formats /\ Overwriting BY DEF JournalInv
  <1>2. /\ slot[0].count \in Nat /\ slot[1].count \in Nat
        /\ slot[1].kind # "legacy" /\ job.slot \in {0, 1}
    BY <1>1, Larger, JobTypes
  <1>3. slot[0].kind = "legacy" => Valid(0) /\ slot[1].count <= slot[0].count
    BY DEF Ordered, Valid
  <1>4. CASE Writing
    <2>1. Readable \subseteq {1 - job.slot} /\ slot[1 - job.slot].count = job.count
      BY <1>1, <1>2, <1>4 DEF Readable, Overwriting
    <2>2. \A i \in Readable : slot[i].count = Count BY <1>2, <1>4, <2>1 DEF Count
    <2>3. \A i \in Readable : slot[i].count \in Readings
      BY <1>2, <2>1, <2>2 DEF Readings, Readable
    <2> QED BY <1>2, <2>2, <2>3 DEF Readings, CanRead, Readable
  <1>5. CASE ~Writing
    <2>1. Readable = {i \in {0, 1} : Valid(i)} BY <1>5 DEF Readable
    <2>2. Valid(0) \/ Valid(1) => Baseline \in Readings
      BY <1>2, <2>1 DEF Readings, Baseline
    <2>3. \A c \in Readings : c = Baseline
      BY <1>2, <1>3, <2>1 DEF Readings, Baseline
    <2> QED BY <1>5, <2>1, <2>2, <2>3 DEF Count, CanRead, Readings
  <1> QED BY <1>4, <1>5

LEMMA OneReadingAfter ==
    (JournalInv /\ Ordered /\ journal # "lost" =>
        (\A c \in Readings : c = Count) /\ (Readings # {} <=> CanRead))'
  <1>1. JournalInv /\ Ordered /\ journal # "lost" =>
          (\A c \in Readings : c = Count) /\ (Readings # {} <=> CanRead)
    BY OneReading
  <1> QED BY <1>1, PTL

\* Judging the journal: while it is durable no slot that can be read is not.
LEMMA JudgeFirm ==
    ASSUME JournalInv, ReadingInv, UNCHANGED slot, Judge,
           \A i \in {0, 1} : durable'[i] \subseteq durable[i]
    PROVE  Ordered' /\ Firm'
  <1>1. Ordered' BY DEF ReadingInv, Ordered, Judge
  <1>2. ASSUME journal' = "durable" PROVE Firm'
    <2>1. CASE Settled'
      <3>1. \A i \in {0, 1} : durable'[i] = {slot'[i]} BY <2>1 DEF Settled
      <3> QED BY <1>1, <1>2, <3>1 DEF Firm, Ordered, Readable
    <2>2. CASE ~Settled'
      <3>1. journal = "durable" /\ ~Loose' BY <1>2, <2>2 DEF Judge
      <3>2. \A i \in {0, 1} : Valid(i)' => durable'[i] = {slot'[i]} BY <3>1 DEF Loose
      <3> QED BY <3>1, <3>2 DEF ReadingInv, Firm, Readable
    <2> QED BY <2>1, <2>2
  <1> QED BY <1>1, <1>2 DEF Firm

LEMMA BeginFirm == ASSUME JournalInv, ReadingInv, BeginSlot PROVE Ordered' /\ Firm'
  <1>1. Rows BY DEF JournalInv
  <1>2. /\ Torn.kind = "torn" /\ Torn.count = 0
        /\ \A x \in durable[0] : x.count \in Nat
        /\ slot[0].count \in Nat
    BY <1>1, Images DEF Rows, Image
  <1>3. Ordered' BY <1>2, BeginSlotFacts DEF ReadingInv, Ordered
  <1>4. \A i \in Readable' : i \in Readable /\ i # OlderSlot
    BY <1>2, BeginSlotFacts DEF Readable, Valid, Writing
  <1>5. Firm' BY <1>2, <1>4, BeginSlotFacts DEF ReadingInv, Firm, Readable
  <1> QED BY <1>3, <1>5

LEMMA WriteFirm == ASSUME JournalInv, ReadingInv, WriteSlot PROVE Ordered' /\ Firm'
  <1>1. Rows /\ Overwriting /\ Writing BY WriteSlotFacts DEF JournalInv, Writing
  <1>2. /\ Sound(job.value).kind = "sound" /\ Sound(job.value).count = job.value
    BY WriteSlotFacts, Images
  <1>3. job.slot = 1 /\ slot[0].kind = "legacy" => job.value = slot[0].count
    BY <1>1 DEF Overwriting, Half
  <1>4. job.slot = 1 => 0 \in Readable BY <1>1 DEF Overwriting, Readable
  <1>5. Ordered' BY <1>2, <1>3, WriteSlotFacts DEF ReadingInv, Ordered
  <1>6. \A i \in Readable' : i \in Readable /\ i # job.slot
    BY <1>1, WriteSlotFacts DEF Readable, Valid, Writing
  <1>7. ASSUME journal = "durable", NEW x \in durable'[0], NEW y \in durable'[1],
               x.kind = "legacy"
        PROVE  y.count <= x.count
    <2>1. CASE job.slot = 0
      <3>1. x \in durable[0] /\ y \in durable[1] BY <1>2, <1>7, <2>1, WriteSlotFacts
      <3> QED BY <1>7, <3>1 DEF ReadingInv, Firm
    <2>2. CASE job.slot = 1
      <3>1. x = slot[0] BY <1>4, <1>7, <2>2, WriteSlotFacts DEF ReadingInv, Firm
      <3>2. y \in durable[1] \/ y = Sound(job.value) BY <1>7, <2>2, WriteSlotFacts
      <3>3. x \in durable[0] BY <1>7, <2>2, WriteSlotFacts
      <3>4. slot[0].count \in Nat BY <1>1 DEF Rows, Image
      <3> QED BY <1>2, <1>3, <1>7, <2>2, <3>1, <3>2, <3>3, <3>4 DEF ReadingInv, Firm
    <2> QED BY <2>1, <2>2, WriteSlotFacts
  <1>8. journal' = journal BY WriteSlotFacts
  <1>9. journal = "durable" => \A i \in Readable' : durable'[i] = {slot'[i]}
    BY <1>6, WriteSlotFacts DEF ReadingInv, Firm, Readable
  <1> QED BY <1>5, <1>7, <1>8, <1>9 DEF Firm

LEMMA SyncFirm ==
    ASSUME JournalInv, ReadingInv, SyncSlot \/ SyncSlotName PROVE Ordered' /\ Firm'
  <1>1. CASE Closing BY <1>1, SyncSlotFacts, JudgeFirm
  <1>2. CASE ~Closing
    <2>1. UNCHANGED <<slot, journal>> /\ job' = job BY <1>2, SyncSlotFacts
    <2>2. Writing /\ Writing' BY <1>2, SyncSlotFacts DEF Writing
    <2>3. Readable' = Readable BY <2>1, <2>2 DEF Readable, Valid
    <2>4. \A i \in {0, 1} : slot[i] \in durable'[i] /\ durable'[i] \subseteq durable[i]
      BY SyncSlotFacts
    <2> QED BY <2>1, <2>3, <2>4 DEF ReadingInv, Ordered, Firm, Readable
  <1> QED BY <1>1, <1>2

LEMMA ReadingStep == ASSUME JournalInv, ReadingInv, Next PROVE ReadingInv'
  <1>0. Rows /\ Formats BY DEF JournalInv
  <1>1. CASE UNCHANGED slots /\ ~Writing /\ ~Writing'
    <2>1. Readable' = Readable BY <1>1 DEF Readable, Valid, slots
    <2> QED BY <1>1, <2>1 DEF ReadingInv, Ordered, Firm, slots
  <1>2. CASE UNCHANGED slot /\ Judge /\ (durable' = durable \/ SyncDirectory)
    <2>1. \A i \in {0, 1} : durable'[i] \subseteq durable[i] BY <1>0, <1>2, SyncTypes
    <2> QED BY <1>2, <2>1, JudgeFirm DEF ReadingInv
  <1>3. CASE PowerLoss
    <2>1. /\ slot'[0] \in durable[0] /\ slot'[1] \in durable[1]
          /\ \A i \in {0, 1} : durable'[i] = {slot'[i]}
          /\ journal' # "lost" => journal = "durable"
      BY <1>3 DEF PowerLoss
    <2>2. journal' # "lost" /\ slot'[0].kind = "legacy" => slot'[1].count <= slot'[0].count
      BY <2>1 DEF ReadingInv, Firm
    <2> QED BY <2>1, <2>2 DEF ReadingInv, Ordered, Firm, Readable
  <1> QED BY <1>1, <1>2, <1>3, BeginFirm, WriteFirm, SyncFirm, SlotSteps DEF ReadingInv

LEMMA ReadingInit == Init => ReadingInv
  <1> SUFFICES ASSUME Init PROVE ReadingInv OBVIOUS
  <1>1. /\ Rows /\ slot[1] = Absent /\ slot[0].count \in Nat
        /\ durable[0] = {slot[0]} /\ durable[1] = {slot[1]}
    BY RowsInit DEF Init, Rows, Image
  <1>2. Absent.count = 0 BY Images
  <1> QED BY <1>1, <1>2 DEF ReadingInv, Ordered, Firm, Readable

LEMMA ReadingAlways == Spec => []ReadingInv
  <1>1. ReadingInv /\ UNCHANGED vars => ReadingInv'
    <2> SUFFICES ASSUME ReadingInv, UNCHANGED vars PROVE ReadingInv' OBVIOUS
    <2>1. Readable' = Readable BY DEF vars, Readable, Valid, Writing
    <2> QED BY <2>1 DEF ReadingInv, Ordered, Firm, vars
  <1>2. JournalInv /\ ReadingInv /\ [Next]_vars => ReadingInv' BY <1>1, ReadingStep
  <1> QED BY <1>2, ReadingInit, JournalAlways, PTL DEF Spec

LEMMA ReadingsGrow ==
    ASSUME JournalInv, JournalInv', ReadingInv, Next, journal' # "lost", CanRead
    PROVE  CanRead' /\ Count <= Count'
  <1>0. /\ Rows /\ Formats /\ Overwriting /\ Rows' /\ Formats' BY DEF JournalInv
  <1>1. /\ Baseline \in Nat /\ slot[0].count <= Baseline /\ slot[1].count <= Baseline
        /\ slot[0].count \in Nat /\ slot[1].count \in Nat
        /\ \A i \in {0, 1} : ~Valid(i) => slot[i].count = 0
        /\ Baseline = slot[0].count \/ Baseline = slot[1].count
    BY <1>0, Larger
  <1>2. /\ Baseline' \in Nat /\ slot'[0].count <= Baseline' /\ slot'[1].count <= Baseline'
    BY <1>0, LargerAfter
  <1>3. job.count \in Nat /\ job.slot \in {0, 1} BY <1>0, JobTypes
  <1>4. \A i \in Readable : /\ i \in {0, 1}
                             /\ Writing => i # job.slot /\ slot[i].count = job.count
    BY <1>0, <1>3 DEF Readable, Overwriting
  <1>5. CASE UNCHANGED slots /\ ~Writing /\ ~Writing'
    <2>1. Readable' = Readable /\ Baseline' = Baseline
      BY <1>5, SlotStays DEF Readable, Valid, slots
    <2> QED BY <1>1, <1>5, <2>1 DEF CanRead, Count
  <1>6. CASE UNCHANGED slot /\ ~Writing'
    <2>1. Baseline' = Baseline /\ Readable \subseteq Readable'
      BY <1>6, SlotStays DEF Readable, Valid
    <2>2. Count <= Baseline
      <3>1. CASE Writing
        <4>1. PICK i \in {0, 1} : i \in Readable BY DEF CanRead
        <4>2. slot[i].count = job.count BY <1>4, <3>1, <4>1
        <4>3. slot[i].count <= Baseline BY <1>1
        <4> QED BY <3>1, <4>2, <4>3 DEF Count
      <3>2. CASE ~Writing BY <1>1, <3>2 DEF Count
      <3> QED BY <3>1, <3>2
    <2> QED BY <1>6, <2>1, <2>2 DEF CanRead, Count
  <1>7. CASE BeginSlot
    <2>5. at = "checkpoint" /\ at' = "slot" /\ job.count = Baseline /\ job'.count = job.count
      BY <1>7, BeginSlotFacts DEF BeginSlot
    <2>6. ~Writing /\ Writing' BY <2>5 DEF Writing
    <2>1. Count = job.count /\ Count' = job.count BY <2>5, <2>6 DEF Count
    <2>2. Valid(0) \/ Valid(1) BY DEF CanRead, Readable
    <2>3. PICK i \in {0, 1} : i # OlderSlot /\ Valid(i)
      BY <1>0, <1>7, <2>2, BeginSlotFacts, OtherHasCount
    <2>4. i \in Readable' BY <1>7, <2>3, BeginSlotFacts DEF Readable, Valid
    <2> QED BY <1>3, <2>1, <2>4 DEF CanRead
  <1>8. CASE WriteSlot
    <2>1. Writing /\ Writing' /\ job' = job BY <1>8, WriteSlotFacts DEF Writing
    <2>2. \A i \in Readable : i \in Readable'
      BY <1>4, <1>8, <2>1, WriteSlotFacts DEF Readable, Valid
    <2> QED BY <1>3, <2>1, <2>2 DEF CanRead, Count
  <1>9. CASE (SyncSlot \/ SyncSlotName) /\ ~Closing
    <2>1. Writing /\ Writing' /\ job' = job /\ UNCHANGED slot
      BY <1>9, SyncSlotFacts DEF Writing
    <2>2. Readable' = Readable BY <2>1 DEF Readable, Valid
    <2> QED BY <1>3, <2>1, <2>2 DEF CanRead, Count
  <1>10. CASE (SyncSlot \/ SyncSlotName) /\ Closing
    <2>1. ~Writing' /\ UNCHANGED slot BY <1>10, SyncSlotFacts, SyncSlotKeeps
    <2> QED BY <1>6, <2>1
  <1>11. CASE PowerLoss
    <2>1. journal = "durable" /\ ~Writing' /\ \A i \in {0, 1} : slot'[i] \in durable[i]
      BY <1>11 DEF PowerLoss, Writing
    <2>2. ASSUME NEW i \in Readable PROVE slot'[i] = slot[i] /\ i \in Readable'
      <3>1. i \in {0, 1} /\ Valid(i) BY DEF Readable
      <3>2. durable[i] = {slot[i]} BY <2>1 DEF ReadingInv, Firm
      <3>3. slot'[i] = slot[i] BY <2>1, <3>1, <3>2
      <3> QED BY <2>1, <3>1, <3>3 DEF Readable, Valid
    <2>3. ASSUME NEW i \in Readable PROVE slot[i].count <= Baseline'
      <3>1. i = 0 \/ i = 1 BY DEF Readable
      <3>2. slot'[i].count <= Baseline' BY <1>2, <3>1
      <3> QED BY <2>2, <3>2
    <2>4. Count <= Baseline'
      <3>1. CASE Writing BY <1>4, <2>3, <3>1 DEF CanRead, Count
      <3>2. CASE ~Writing
        <4>1. Count = 0 \/ \E i \in Readable : Count = slot[i].count
          BY <1>1, <3>2 DEF Count, Readable
        <4> QED BY <1>2, <2>3, <4>1
      <3> QED BY <3>1, <3>2
    <2> QED BY <2>1, <2>2, <2>4 DEF CanRead, Count
  <1> QED BY <1>5, <1>6, <1>7, <1>8, <1>9, <1>10, <1>11, SlotSteps

\* Once the journal can be read it always can, and no reader, an old binary included,
\* ever sees the count fall, wherever the writing of a slot stops or power is lost,
\* unless it is lost while a slot can be read that was not synchronized.
THEOREM CountsNeverFall == Spec => NoReaderGoesBack
  <1> DEFINE Grows == journal' # "lost" /\ Readings # {} =>
                        /\ Readings' # {}
                        /\ \A c \in Readings, d \in Readings' : c <= d
  <1>1. ASSUME JournalInv, JournalInv', ReadingInv, ReadingInv', Next PROVE Grows
    <2> SUFFICES ASSUME journal' # "lost", Readings # {}
                 PROVE  Readings' # {} /\ \A c \in Readings, d \in Readings' : c <= d
      OBVIOUS
    <2>1. Ordered /\ Ordered' BY <1>1 DEF ReadingInv
    <2>2. journal # "lost"
      <3>1. journal' = journal \/ Judge \/ (journal' # "lost" => journal = "durable")
        BY <1>1, SlotSteps, BeginSlotFacts, WriteSlotFacts, SyncSlotFacts
           DEF slots, PowerLoss
      <3> QED BY <3>1 DEF Judge
    <2>3. CanRead /\ \A c \in Readings : c = Count BY <1>1, <2>1, <2>2, OneReading
    <2>4. CanRead' /\ Count <= Count' BY <1>1, <2>3, ReadingsGrow
    <2>5. Readings' # {} /\ \A d \in Readings' : d = Count'
      BY <1>1, <2>1, <2>4, OneReadingAfter
    <2> QED BY <2>3, <2>4, <2>5
  <1>2. JournalInv /\ JournalInv' /\ ReadingInv /\ ReadingInv' /\ [Next]_vars => [Grows]_vars
    BY <1>1
  <1> QED BY <1>2, JournalAlways, ReadingAlways, PTL DEF Spec, NoReaderGoesBack

-----------------------------------------------------------------------------
(* Published events *)

\* An announced event is under its name, also in the directory as it was last
\* synchronized, or it was removed on purpose.
Safe(e) ==
    /\ file[e] \in {"json", "none"} /\ kept.file[e] \in {"json", "none"}
    /\ file[e] = "none" => e \in evicted \union expired
    /\ kept.file[e] = "none" => file[e] = "none"

Recording == {"write", "flush", "rename", "publish"}

PublishedInv ==
    /\ announced \subseteq 1..made
    /\ at \in Recording => job.event = made /\ made \notin announced
    /\ at = "publish" => file[job.event] = "json"
    /\ at = "acknowledge" => job.event \in stored
    /\ \A e \in announced : e \in stored \/ Safe(e)

\* A step that leaves the files, and synchronizes the directory or does not.
LEMMA FilesStay ==
    ASSUME JournalInv, PublishedInv,
           UNCHANGED <<file, evicted, expired, announced, made>>,
           stored \subseteq stored', kept' = kept \/ kept' = [file |-> file, note |-> note],
           at' \notin Recording,
           at' = "acknowledge" => job'.event \in stored'
    PROVE  PublishedInv'
  <1>1. kept'.file = kept.file \/ kept'.file = file OBVIOUS
  <1>2. ASSUME NEW e \in announced' PROVE e \in stored' \/ Safe(e)'
    <2>1. e \in stored \/ Safe(e) BY <1>2 DEF PublishedInv
    <2> QED BY <1>1, <2>1 DEF Safe
  <1> QED BY <1>2 DEF PublishedInv, Recording

LEMMA QuietPublished ==
    ASSUME JournalInv, PublishedInv,
           \/ Begin \/ RecoverNote \/ RemoveNote \/ SyncNote \/ Scanned \/ Evicted
           \/ SyncEvictions \/ BeginSlot \/ WriteSlot \/ SyncSlot \/ SyncSlotName
           \/ Persist \/ Stop
    PROVE  PublishedInv'
  <1> USE DEF ring, ghosts, slots, Recording
  <1>1. CASE Begin \/ RecoverNote \/ RemoveNote \/ Scanned \/ Evicted \/ Stop \/ BeginSlot
    BY <1>1, FilesStay
       DEF Begin, RecoverNote, RemoveNote, Scanned, Evicted, Stop, BeginSlot
  <1>2. CASE SyncNote \/ SyncEvictions
    BY <1>2, FilesStay DEF SyncNote, SyncEvictions, Synced, SyncDirectory
  <1>3. CASE WriteSlot \/ SyncSlot
    BY <1>3, FilesStay DEF WriteSlot, SyncSlot, AfterSlot
  <1>4. CASE SyncSlotName
    BY <1>4, FilesStay DEF SyncSlotName, AfterSlot, Synced, SyncDirectory
  <1>5. CASE Persist BY <1>5, FilesStay DEF Persist
  <1> QED BY <1>1, <1>2, <1>3, <1>4, <1>5

\* A step that changes one file, of an event that is not announced, that the database
\* has, or that is removed on purpose.
LEMMA OneFileChanges ==
    ASSUME JournalInv, PublishedInv, NEW d \in Event, NEW state,
           SetFile(d, state), UNCHANGED <<kept, stored, announced>>,
           evicted \subseteq evicted', expired \subseteq expired',
           \/ d \notin announced \/ d \in stored
           \/ state = "none" /\ (file[d] = "json" => d \in evicted' \union expired')
    PROVE  \A e \in announced' : e \in stored' \/ Safe(e)'
  <1> SUFFICES ASSUME NEW e \in announced' PROVE e \in stored' \/ Safe(e)' OBVIOUS
  <1>1. file \in [Event -> FileState] /\ announced \subseteq Event
    BY DEF JournalInv, Rows
  <1>2. file'[e] = IF e = d THEN state ELSE file[e] BY <1>1 DEF SetFile
  <1>3. e \in stored \/ Safe(e) BY DEF PublishedInv
  <1> QED BY <1>2, <1>3 DEF Safe

LEMMA FilePublished ==
    ASSUME JournalInv, PublishedInv,
           \/ \E e \in Event : Expire(e) \/ Evict(e) \/ Reject(e) \/ Take(e)
           \/ Create \/ WriteRecord \/ SyncRecord \/ Rename \/ Acknowledge
    PROVE  PublishedInv'
  <1> USE DEF slots, Recording
  <1>0. /\ file \in [Event -> FileState]
        /\ announced \subseteq Event /\ made \in 0..MaxEvents
    BY DEF JournalInv, Rows
  <1>1. ASSUME NEW e \in Event, Expire(e) \/ Evict(e) PROVE PublishedInv'
    <2>1. SetFile(e, "none") /\ evicted' = evicted \union {e} /\ at' \in {"scan", "evict"}
          /\ UNCHANGED <<kept, stored, announced, expired, made>>
      BY <1>1 DEF Expire, Evict, Remove, ghosts
    <2>2. \A d \in announced' : d \in stored' \/ Safe(d)' BY <2>1, OneFileChanges
    <2> QED BY <2>1, <2>2 DEF PublishedInv
  <1>2. ASSUME NEW e \in Event, Reject(e) PROVE PublishedInv'
    <2>1. SetFile(e, "none") /\ at' = "free" /\ UNCHANGED <<kept, stored, announced, made, evicted>>
      BY <1>2 DEF Reject
    <2>2. expired \subseteq expired' /\ (file[e] = "json" => e \in expired')
      BY <1>2 DEF Reject
    <2>3. \A d \in announced' : d \in stored' \/ Safe(d)' BY <2>1, <2>2, OneFileChanges
    <2> QED BY <2>1, <2>3 DEF PublishedInv
  <1>3. ASSUME NEW e \in Event, Take(e) PROVE PublishedInv'
    BY <1>3, FilesStay DEF Take, ring, ghosts
  <1>4. CASE Create
    <2>1. made < MaxEvents BY <1>4 DEF Create, JournalInv, Loaded
    <2>2. made + 1 \in Event /\ made + 1 \notin announced /\ announced \subseteq 1..(made + 1)
      BY <1>0, <2>1, SpoolAssumption DEF Event, PublishedInv
    <2>3. SetFile(made + 1, "partial") /\ made' = made + 1 /\ job'.event = made + 1
          /\ at' = "write" /\ UNCHANGED <<kept, stored, announced, evicted, expired>>
      BY <1>4 DEF Create, ghosts, JournalInv, Rows
    <2>4. \A d \in announced' : d \in stored' \/ Safe(d)' BY <2>2, <2>3, OneFileChanges
    <2> QED BY <2>2, <2>3, <2>4 DEF PublishedInv
  <1>5. CASE WriteRecord \/ SyncRecord \/ Rename
    <2>1. at \in Recording BY <1>5 DEF WriteRecord, SyncRecord, Rename, RecordStep
    <2>2. job.event \in Event BY <2>1 DEF JournalInv, Handling
    <2>3. job.event = made /\ made \notin announced BY <2>1 DEF PublishedInv
    <2>4. /\ UNCHANGED <<kept, stored, announced, evicted, expired, job, made>>
          /\ \/ SetFile(job.event, "written") /\ at' = "flush"
             \/ SetFile(job.event, "pending") /\ at' = "rename"
             \/ SetFile(job.event, "json") /\ at' = "publish"
      BY <1>5 DEF WriteRecord, SyncRecord, Rename, RecordStep, ghosts
    <2>5. \A d \in announced' : d \in stored' \/ Safe(d)' BY <2>2, <2>3, <2>4, OneFileChanges
    <2>6. at' = "publish" => file'[job.event] = "json" BY <1>0, <2>2, <2>4 DEF SetFile
    <2> QED BY <2>3, <2>4, <2>5, <2>6 DEF PublishedInv
  <1>6. CASE Acknowledge
    <2>1. job.event \in Event BY <1>6 DEF Acknowledge, JournalInv, Handling
    <2>2. job.event \in stored BY <1>6 DEF Acknowledge, PublishedInv
    <2>3. SetFile(job.event, "none") /\ at' = "free"
          /\ UNCHANGED <<kept, stored, announced, evicted, expired, made>>
      BY <1>6 DEF Acknowledge, ghosts
    <2>4. \A d \in announced' : d \in stored' \/ Safe(d)' BY <2>1, <2>2, <2>3, OneFileChanges
    <2> QED BY <2>3, <2>4 DEF PublishedInv
  <1> QED BY <1>1, <1>2, <1>3, <1>4, <1>5, <1>6

LEMMA PublishPublished ==
    ASSUME JournalInv, PublishedInv, Unix, Publish PROVE PublishedInv'
  <1>1. /\ kept'.file = file /\ file' = file /\ announced' = announced \union {job.event}
        /\ at' = "free" /\ at = "publish" /\ UNCHANGED <<stored, evicted, expired, made>>
    BY DEF Publish, Synced, SyncDirectory, ring
  <1>2. job.event \in Event /\ job.event = made /\ file[job.event] = "json"
    BY <1>1 DEF JournalInv, Handling, PublishedInv, Recording
  <1>3. announced' \subseteq 1..made
    <2>1. made \in Event BY <1>2
    <2>2. made \in 1..made BY <2>1, SpoolAssumption DEF Event
    <2> QED BY <1>1, <1>2, <2>2 DEF PublishedInv
  <1>4. ASSUME NEW e \in announced' PROVE e \in stored' \/ Safe(e)'
    BY <1>1, <1>2, <1>4 DEF PublishedInv, Safe
  <1> QED BY <1>1, <1>3, <1>4 DEF PublishedInv, Recording

LEMMA PowerLossPublished == ASSUME JournalInv, PublishedInv, PowerLoss PROVE PublishedInv'
  <1>1. /\ kept'.file = file' /\ at' = "free" /\ UNCHANGED <<stored, announced, made>>
        /\ evicted' = {e \in evicted : file'[e] = "none"}
        /\ expired' = {e \in expired : file'[e] = "none"}
    BY DEF PowerLoss
  <1>2. \A e \in Event : file'[e] \in Fates(e) BY DEF PowerLoss
  <1>3. announced \subseteq Event BY DEF JournalInv, Rows
  <1>4. ASSUME NEW e \in announced' PROVE e \in stored' \/ Safe(e)'
    <2>1. e \in stored \/ Safe(e) BY <1>1, <1>4 DEF PublishedInv
    <2>2. Safe(e) => file'[e] = file[e] \/ file'[e] = kept.file[e]
      BY <1>1, <1>2, <1>3, <1>4 DEF Fates, Safe
    <2> QED BY <1>1, <2>1, <2>2 DEF Safe
  <1> QED BY <1>1, <1>4 DEF PublishedInv, Recording

\* On Unix an event whose write returned Ok stays until the database has it or it is
\* removed for its age or to make room, whatever stops, fails or loses power when.
THEOREM PublishedStays == Spec => []PublishedIsKept
  <1>1. Init => PublishedInv BY DEF Init, PublishedInv, Recording
  <1>2. JournalInv /\ (Unix => PublishedInv) /\ [Next]_vars => (Unix => PublishedInv)'
    <2>1. ASSUME JournalInv, Unix, PublishedInv, Next PROVE PublishedInv'
      BY <2>1, QuietPublished, FilePublished, PublishPublished, PowerLossPublished
         DEF Next, Write, Consume
    <2>2. ASSUME PublishedInv, UNCHANGED vars PROVE PublishedInv'
      BY <2>2 DEF PublishedInv, Safe, vars
    <2> QED BY <2>1, <2>2
  <1>3. JournalInv /\ (Unix => PublishedInv) => PublishedIsKept
    <2> SUFFICES ASSUME JournalInv, Unix, PublishedInv, NEW e \in announced
                 PROVE  e \in stored \union evicted \union expired
                                \union {d \in Event : file[d] = "json"}
      BY DEF PublishedIsKept
    <2> QED BY DEF PublishedInv, Safe, JournalInv, Rows
  <1> QED BY <1>1, <1>2, <1>3, JournalAlways, PTL DEF Spec

-----------------------------------------------------------------------------
(* What the journal counts *)

\* The counts with the evictions that no loss of power undoes, and with every one.
BackedCount == base + Cardinality(Backed)
EvictedCount == base + Cardinality(evicted)

Checkpointing == {"checkpoint", "slot", "written", "enter"}

\* Only events have files; what was evicted has none, and is not being written.
Gone ==
    /\ \A e \in Event \ (1..made) : file[e] = "none" /\ kept.file[e] = "none"
    /\ evicted \subseteq 1..made
    /\ \A e \in evicted : file[e] = "none"
    /\ at \in Recording => job.event \in (1..made) \ evicted

\* A note counts nothing but what the installation had counted.
Noted == note.count <= base /\ kept.note.count <= base

\* A writer that has evicted nothing yet counts what it loaded, and one that is about
\* to create its file what the journal has.
Carried ==
    /\ at \in {"recover", "forget", "forgotten"} => job.drops = job.count
    /\ at = "create" => job.drops = Baseline

\* What the disk may hold of a slot, a record or the writer counts is evicted, and
\* synchronized once it is written down.
Counting ==
    /\ \A i \in {0, 1} : \A x \in durable[i] : x.count <= BackedCount
    /\ \A e \in Event : claim[e] <= BackedCount
    /\ at \in {"scan", "evict", "sync"} => job.drops <= EvictedCount
    /\ at \in Checkpointing => job.drops <= BackedCount

\* As long as nothing has failed: before the first event the count is that of the
\* journal or of the note, afterwards nothing is missing from the journal.
Unrecovered ==
    /\ made > 0 => note = Absent /\ Baseline = EvictedCount
    /\ made = 0 => /\ Baseline <= base
                   /\ Baseline = base \/ (note.kind = "legacy" /\ note.count = base)

Counted == {"forget", "forgotten", "scan", "evict", "sync", "create"} \union Checkpointing

Exact ==
    faults = 0 =>
        /\ at \in {"free", "persist", "acknowledge", "recover"} => Unrecovered
        /\ at \in {"recover", "scan", "evict", "sync", "create"} => ~job.noted
        /\ at \in Counted => job.drops = EvictedCount
        /\ \/ at \in {"forgotten", "scan", "evict", "sync", "create"}
           \/ at \in Checkpointing /\ ~job.noted
           => note = Absent
        /\ at \in Recording => made > 0 /\ note = Absent /\ Baseline = EvictedCount

CountInv == Gone /\ Noted /\ Carried /\ Exact /\ (Unix => Counting)

LEMMA Counts ==
    ASSUME Rows
    PROVE  /\ IsFiniteSet(Event) /\ IsFiniteSet(evicted) /\ IsFiniteSet(Backed)
           /\ BackedCount \in Nat /\ EvictedCount \in Nat /\ BackedCount <= EvictedCount
           /\ base \in Nat /\ base <= BackedCount
  <1>1. IsFiniteSet(Event) BY SpoolAssumption, FS_Interval DEF Event
  <1>2. evicted \subseteq Event /\ Backed \subseteq evicted BY DEF Rows, Backed
  <1>3. IsFiniteSet(evicted) /\ IsFiniteSet(Backed) BY <1>1, <1>2, FS_Subset
  <1>4. Cardinality(evicted) \in Nat /\ Cardinality(Backed) \in Nat
        /\ Cardinality(Backed) <= Cardinality(evicted)
    BY <1>2, <1>3, FS_Subset, FS_CardinalityType
  <1>5. base \in Nat BY DEF Rows
  <1> QED BY <1>1, <1>3, <1>4, <1>5 DEF BackedCount, EvictedCount

LEMMA CountsAfter ==
    (Rows => BackedCount \in Nat /\ EvictedCount \in Nat /\ BackedCount <= EvictedCount)'
  <1>1. Rows => BackedCount \in Nat /\ EvictedCount \in Nat /\ BackedCount <= EvictedCount
    BY Counts
  <1> QED BY <1>1, PTL

\* What a step does to the directory as it was synchronized and to what is evicted.
LEMMA DirectorySteps ==
    ASSUME Next
    PROVE  \/ evicted' = evicted /\ (kept' = kept \/ kept' = [file |-> file, note |-> note])
           \/ \E e \in Event : Expire(e) \/ Evict(e)
           \/ PowerLoss
  BY DEF Next, Write, Consume, Begin, RecoverNote, RemoveNote, SyncNote, Scanned, Evicted,
     SyncEvictions, BeginSlot, WriteSlot, SyncSlot, SyncSlotName, Create, WriteRecord,
     SyncRecord, Rename, RecordStep, Publish, Reject, Take, Persist, Acknowledge, Stop,
     Synced, SyncDirectory, ring

LEMMA NoteSteps ==
    ASSUME Next
    PROVE  /\ base' = base
           /\ \/ note' = note \/ note' = Absent \/ note' = kept.note
           /\ kept'.note \in {note, kept.note, note'}
  BY DEF Next, Write, Consume, Begin, RecoverNote, RemoveNote, SyncNote, Scanned, Evicted,
     SyncEvictions, BeginSlot, WriteSlot, SyncSlot, SyncSlotName, Create, WriteRecord,
     SyncRecord, Rename, RecordStep, Reject, Take, Persist, Acknowledge, Stop, Expire, Evict,
     Remove, Publish, PowerLoss, Synced, SyncDirectory, ring, ghosts

LEMMA NotedStep == ASSUME Noted, JournalInv, Next PROVE Noted'
  BY NoteSteps, Images DEF Noted, JournalInv, Rows

\* Synchronized evictions stay what they are, whatever returns with a power loss.
LEMMA BackedStays ==
    ASSUME JournalInv, Gone, Next
    PROVE  BackedCount <= BackedCount'
  <1>1. Rows /\ base' = base BY NoteSteps DEF JournalInv
  <1>2. evicted \subseteq Event BY <1>1 DEF Rows
  <1>3. Backed \subseteq Backed'
    <2>1. CASE evicted' = evicted /\ (kept' = kept \/ kept' = [file |-> file, note |-> note])
      <3>1. kept'.file = kept.file \/ kept'.file = file BY <2>1
      <3>2. \A e \in evicted : file[e] = "none" BY DEF Gone
      <3> QED BY <2>1, <3>1, <3>2 DEF Backed
    <2>2. ASSUME NEW e \in Event, Expire(e) \/ Evict(e) PROVE Backed \subseteq Backed'
      BY <2>2 DEF Expire, Evict, Remove, Backed
    <2>3. CASE PowerLoss
      <3>1. \A e \in Event : file'[e] \in Fates(e) BY <2>3 DEF PowerLoss
      <3>2. \A e \in Backed : file'[e] = "none" BY <1>2, <3>1 DEF Gone, Backed, Fates
      <3>3. kept'.file = file' /\ evicted' = {e \in evicted : file'[e] = "none"}
        BY <2>3 DEF PowerLoss
      <3> QED BY <3>2, <3>3 DEF Backed
    <2> QED BY <2>1, <2>2, <2>3, DirectorySteps
  <1>4. IsFiniteSet(Backed')
    <2>1. evicted' \subseteq Event
      <3>1. JournalInv' BY JournalStep DEF vars
      <3> QED BY <3>1 DEF JournalInv, Rows
    <2>2. Backed' \subseteq Event BY <2>1 DEF Backed
    <2> QED BY <1>1, <2>2, Counts, FS_Subset
  <1>5. Cardinality(Backed) \in Nat /\ Cardinality(Backed') \in Nat
        /\ Cardinality(Backed) <= Cardinality(Backed')
    BY <1>3, <1>4, FS_Subset, FS_CardinalityType
  <1> QED BY <1>1, <1>5, Counts DEF BackedCount

\* Once the directory is synchronized, every eviction is.
LEMMA AllBacked ==
    ASSUME Gone, Unix, Synced(at'), UNCHANGED <<file, evicted, base>>
    PROVE  BackedCount' = EvictedCount
  <1>1. Backed' = evicted BY DEF Gone, Synced, SyncDirectory, Backed
  <1> QED BY <1>1 DEF BackedCount, EvictedCount

LEMMA OneMore ==
    ASSUME JournalInv, Gone, NEW e \in Event, Expire(e) \/ Evict(e)
    PROVE  EvictedCount' = EvictedCount + 1 /\ job'.drops = job.drops + 1
  <1>1. e \notin evicted /\ evicted' = evicted \union {e} /\ base' = base
    BY DEF Gone, Expire, Evict, Remove, Entries, Oldest, ghosts
  <1>2. Cardinality(evicted') = Cardinality(evicted) + 1
    BY <1>1, Counts, FS_AddElement DEF JournalInv
  <1>3. job'.drops = job.drops + 1
    BY JobTypes DEF Expire, Evict, Remove, JournalInv, Rows
  <1>4. Cardinality(evicted) \in Nat BY Counts, FS_CardinalityType DEF JournalInv
  <1> QED BY <1>1, <1>2, <1>3, <1>4, Counts DEF EvictedCount, JournalInv

\* The count moves when a slot has been written, or when power is lost.
LEMMA SlotCounts ==
    ASSUME JournalInv, Next
    PROVE  /\ ~WriteSlot /\ ~PowerLoss => Baseline' = Baseline
           /\ Baseline \in Nat /\ Baseline' \in Nat
  <1>1. JournalInv' BY JournalStep DEF vars
  <1>2. Baseline \in Nat /\ Baseline' \in Nat BY <1>1, Larger, LargerAfter DEF JournalInv
  <1>3. UNCHANGED slot => Baseline' = Baseline BY SlotStays
  <1> QED BY <1>2, <1>3, SlotSteps, BeginSlotKeeps, SyncSlotKeeps DEF slots

-----------------------------------------------------------------------------
(* The count stays backed *)

LEMMA GoneStep == ASSUME JournalInv, Gone, Next PROVE Gone'
  <1> USE DEF Recording, slots
  <1>0. /\ Rows /\ made \in Nat /\ evicted \subseteq Event /\ file \in [Event -> FileState]
    BY DEF JournalInv, Rows
  <1>1. CASE Create
    <2>1. made < MaxEvents /\ made + 1 \in Event
      BY <1>0, <1>1, SpoolAssumption DEF Create, JournalInv, Loaded, Event
    <2>2. made + 1 \notin evicted /\ evicted \subseteq 1..(made + 1) BY <1>0 DEF Gone
    <2>3. job'.event = made + 1 /\ made' = made + 1 /\ UNCHANGED <<evicted, kept>>
          /\ file' = [file EXCEPT ![made + 1] = "partial"]
      BY <1>1 DEF Create, SetFile, JournalInv, Rows
    <2>4. \A e \in Event \ 1..(made + 1) : file'[e] = "none" /\ kept.file[e] = "none"
      BY <1>0, <2>1, <2>3 DEF Gone
    <2>5. \A e \in evicted : file'[e] = "none" BY <1>0, <2>2, <2>3 DEF Gone
    <2>6. made + 1 \in 1..(made + 1) BY <1>0
    <2> QED BY <2>2, <2>3, <2>4, <2>5, <2>6 DEF Gone
  <1>2. CASE WriteRecord \/ SyncRecord \/ Rename
    <2>1. /\ at \in Recording /\ UNCHANGED <<job, made, evicted, kept>>
          /\ \E state : SetFile(job.event, state)
      BY <1>2 DEF WriteRecord, SyncRecord, Rename, RecordStep
    <2>2. job.event \in (1..made) \ evicted BY <2>1 DEF Gone
    <2>3. \A e \in Event : e # job.event => file'[e] = file[e] BY <1>0, <2>1 DEF SetFile
    <2> QED BY <1>0, <2>1, <2>2, <2>3 DEF Gone
  <1>3. ASSUME NEW e \in Event, Expire(e) \/ Evict(e) PROVE Gone'
    <2>1. /\ evicted' = evicted \union {e} /\ file' = [file EXCEPT ![e] = "none"]
          /\ UNCHANGED <<made, kept>> /\ at' \in {"scan", "evict"}
      BY <1>3 DEF Expire, Evict, Remove, SetFile
    <2>2. e \in 1..made
      BY <1>3 DEF Expire, Evict, Oldest, Entries, Gone
    <2> QED BY <1>0, <2>1, <2>2 DEF Gone
  <1>4. ASSUME NEW e \in Event, Reject(e) \/ Take(e) PROVE Gone'
    BY <1>0, <1>4 DEF Reject, Take, SetFile, Gone, ring
  <1>5. CASE Acknowledge
    BY <1>0, <1>5 DEF Acknowledge, SetFile, Gone
  <1>6. CASE PowerLoss
    <2>1. /\ kept'.file = file' /\ at' = "free" /\ made' = made
          /\ evicted' = {e \in evicted : file'[e] = "none"}
          /\ \A e \in Event : file'[e] \in Fates(e)
      BY <1>6 DEF PowerLoss
    <2>2. \A e \in Event \ (1..made) : file'[e] = "none" BY <2>1 DEF Gone, Fates
    <2> QED BY <2>1, <2>2 DEF Gone
  <1>7. ASSUME UNCHANGED <<file, evicted, made>>, kept'.file = kept.file \/ kept'.file = file,
               at' \notin Recording
        PROVE  Gone'
    BY <1>7 DEF Gone
  <1>8. \/ /\ UNCHANGED <<file, evicted, made>> /\ at' \notin Recording
           /\ kept'.file = kept.file \/ kept'.file = file
        \/ Create \/ WriteRecord \/ SyncRecord \/ Rename \/ Acknowledge \/ PowerLoss
        \/ \E e \in Event : Expire(e) \/ Evict(e) \/ Reject(e) \/ Take(e)
    BY DEF Next, Write, Consume, Begin, RecoverNote, RemoveNote, SyncNote, Scanned, Evicted,
       SyncEvictions, BeginSlot, WriteSlot, SyncSlot, SyncSlotName, AfterSlot, Publish,
       Persist, Stop, Synced, SyncDirectory, ring
  <1> QED BY <1>1, <1>2, <1>3, <1>4, <1>5, <1>6, <1>7, <1>8

LEMMA CarriedStep == ASSUME JournalInv, Carried, Next PROVE Carried'
  <1>0. Rows /\ (at \in Deciding => job.count = Baseline) BY DEF JournalInv, Loaded
  <1>1. CASE Begin BY <1>1 DEF Begin, NoJob, Carried
  <1>2. CASE RecoverNote
    BY <1>0, <1>2, SlotStays DEF RecoverNote, Carried, slots, Deciding
  <1>3. CASE RemoveNote BY <1>0, <1>3 DEF RemoveNote, Carried
  <1>4. CASE SyncNote BY <1>4 DEF SyncNote, Synced, Carried
  <1>5. CASE Evicted
    BY <1>0, <1>5, SlotStays DEF Evicted, Carried, slots, Deciding
  <1>6. CASE SyncSlot \/ SyncSlotName
    BY <1>6, SyncSlotFacts, SyncSlotKeeps DEF Carried
  <1>7. \/ Begin \/ RecoverNote \/ RemoveNote \/ SyncNote \/ Evicted \/ SyncSlot \/ SyncSlotName
        \/ at' \notin {"recover", "forget", "forgotten", "create"}
    BY DEF Next, Write, Consume, Scanned, SyncEvictions, BeginSlot, WriteSlot, Create,
       WriteRecord, SyncRecord, Rename, RecordStep, Reject, Take, Persist, Acknowledge, Stop,
       Expire, Evict, Publish, PowerLoss, Synced
  <1> QED BY <1>1, <1>2, <1>3, <1>4, <1>5, <1>6, <1>7 DEF Carried

\* What the disk may hold of a slot counts no more than is backed.
LEMMA ImagesBacked ==
    ASSUME JournalInv, Gone, Counting, Next
    PROVE  \A i \in {0, 1} : \A x \in durable'[i] : x.count <= BackedCount'
  <1>0. Rows /\ Rows' BY JournalStep DEF JournalInv, vars
  <1>1. BackedCount \in Nat /\ BackedCount' \in Nat /\ BackedCount <= BackedCount'
    BY <1>0, Counts, CountsAfter, BackedStays
  <1>2. \A i \in {0, 1} : \A x \in durable[i] : x.count \in Nat BY <1>0 DEF Rows, Image
  <1>3. \A i \in {0, 1} : \A x \in durable[i] : x.count <= BackedCount'
    BY <1>1, <1>2 DEF Counting
  <1>4. CASE BeginSlot
    <2>1. \A i \in {0, 1} : \A x \in durable'[i] : x \in durable[i] \/ x = Torn
      BY <1>4, BeginSlotFacts
    <2> QED BY <1>1, <1>3, <2>1, Images
  <1>5. CASE WriteSlot
    <2>1. \A i \in {0, 1} : \A x \in durable'[i] : x \in durable[i] \/ x = Sound(job.value)
      BY <1>5, WriteSlotFacts
    <2>2. job.value \in Nat /\ job.value <= job.drops /\ job.drops \in Nat
          /\ job.drops <= BackedCount
      BY <1>5, WriteSlotFacts DEF Counting, Checkpointing
    <2>3. Sound(job.value).count <= BackedCount' BY <1>1, <2>2, Images
    <2> QED BY <1>3, <2>1, <2>3
  <1>6. CASE \A i \in {0, 1} : durable'[i] \subseteq durable[i] BY <1>3, <1>6
  <1>7. CASE PowerLoss
    <2>1. \A i \in {0, 1} : durable'[i] = {slot'[i]} /\ slot'[i] \in durable[i]
      BY <1>7 DEF PowerLoss
    <2> QED BY <1>3, <2>1
  <1>8. \/ BeginSlot \/ WriteSlot \/ PowerLoss
        \/ \A i \in {0, 1} : durable'[i] \subseteq durable[i]
    BY <1>0, SlotSteps, SyncTypes, SyncSlotFacts DEF slots
  <1> QED BY <1>4, <1>5, <1>6, <1>7, <1>8

LEMMA CountingStep ==
    ASSUME JournalInv, Gone, Noted, Carried, Unix, Counting, Next
    PROVE  Counting'
  <1>0. /\ JournalInv' /\ Rows /\ Rows' /\ Formats /\ base' = base
        /\ \A e \in Event : claim[e] \in Nat
        /\ note.count \in Nat
    BY JournalStep, NoteSteps DEF JournalInv, vars, Rows, Image
  <1>1. /\ BackedCount \in Nat /\ BackedCount <= BackedCount' /\ BackedCount' <= EvictedCount'
        /\ BackedCount' \in Nat /\ EvictedCount' \in Nat /\ EvictedCount \in Nat
        /\ BackedCount <= EvictedCount
    BY <1>0, Counts, CountsAfter, BackedStays
  <1>2. Baseline \in Nat /\ Baseline <= BackedCount
    <2>1. slot[0].count <= BackedCount /\ slot[1].count <= BackedCount
      BY <1>0 DEF Counting, Formats
    <2> QED BY <1>0, <2>1, Larger
  <1>3. /\ job.drops \in Nat /\ job.count \in Nat
        /\ at \in Deciding => job.count = Baseline
    BY <1>0, JobTypes DEF JournalInv, Loaded
  <1>4. \A i \in {0, 1} : \A x \in durable'[i] : x.count <= BackedCount'
    BY ImagesBacked
  <1>5. \A e \in Event : claim'[e] <= BackedCount'
    <2>1. CASE Create
      <3>1. claim' = [claim EXCEPT ![made + 1] = job.drops] /\ job.drops = Baseline
        BY <2>1 DEF Create, Carried
      <3> QED BY <1>0, <1>1, <1>2, <3>1 DEF Counting, Rows
    <2>2. CASE ~Create
      <3>1. claim' = claim
        BY <2>2 DEF Next, Write, Consume, Begin, RecoverNote, RemoveNote, SyncNote, Scanned,
           Evicted, SyncEvictions, BeginSlot, WriteSlot, SyncSlot, SyncSlotName, WriteRecord,
           SyncRecord, Rename, RecordStep, Reject, Take, Persist, Acknowledge, Stop, Expire,
           Evict, Publish, PowerLoss
      <3> QED BY <1>0, <1>1, <3>1 DEF Counting
    <2> QED BY <2>1, <2>2
  <1>. DEFINE Phases ==
         /\ at' \in {"scan", "evict", "sync"} => job'.drops <= EvictedCount'
         /\ at' \in Checkpointing => job'.drops <= BackedCount'
  <1> USE DEF Checkpointing
  <1>7. ASSUME RecoverNote PROVE Phases
    <2>1. \/ at' \in {"scan", "forget"} /\ job' = job /\ job.drops = Baseline
          \/ at' = "checkpoint" /\ job'.drops = note.count
      BY <1>0, <1>3, <1>7 DEF RecoverNote, Carried, Deciding, Rows
    <2>2. note.count <= base /\ base <= BackedCount /\ base \in Nat
      BY <1>0, Counts DEF Noted
    <2> QED BY <1>0, <1>1, <1>2, <2>1, <2>2
  <1>8. ASSUME RemoveNote \/ SyncNote PROVE Phases
    <2>1. job'.drops = job.drops /\ at' \in {"forgotten", "scan"} /\ job.drops = Baseline
      BY <1>0, <1>3, <1>8 DEF RemoveNote, SyncNote, Synced, Carried, Deciding, Rows
    <2> QED BY <1>1, <1>2, <2>1
  <1>9. ASSUME NEW e \in Event, Expire(e) \/ Evict(e) PROVE Phases
    <2>1. /\ EvictedCount' = EvictedCount + 1 /\ job'.drops = job.drops + 1
          /\ at' = at /\ at \in {"scan", "evict"}
      BY <1>9, OneMore DEF Expire, Evict
    <2> QED BY <1>1, <1>3, <2>1 DEF Counting
  <1>10. ASSUME Scanned \/ Evicted PROVE Phases
    <2>1. /\ UNCHANGED <<job, evicted, base>> /\ at \in {"scan", "evict"}
          /\ at' \in {"evict", "sync"} \/ (at' \in {"checkpoint", "create"} /\ job.drops = job.count)
      BY <1>10 DEF Scanned, Evicted, ring, ghosts
    <2>2. EvictedCount' = EvictedCount BY <2>1 DEF EvictedCount
    <2> QED BY <1>1, <1>2, <1>3, <2>1, <2>2 DEF Counting, Deciding
  <1>11. ASSUME SyncEvictions PROVE Phases
    <2>1. /\ job' = job /\ at = "sync" /\ at' = "checkpoint"
          /\ Synced(at') /\ UNCHANGED <<file, evicted, base>>
      BY <1>11 DEF SyncEvictions, Synced, ring, ghosts
    <2>2. BackedCount' = EvictedCount BY <2>1, AllBacked
    <2> QED BY <2>1, <2>2 DEF Counting
  <1>12. ASSUME BeginSlot \/ WriteSlot \/ SyncSlot \/ SyncSlotName PROVE Phases
    <2>1. at \in Checkpointing /\ at' \notin {"scan", "evict", "sync"} /\ job'.drops = job.drops
      BY <1>12, BeginSlotFacts, WriteSlotFacts, SyncSlotFacts
    <2> QED BY <1>1, <1>3, <2>1 DEF Counting
  <1>13. ASSUME at' \notin {"scan", "evict", "sync"} \union Checkpointing PROVE Phases
    BY <1>13
  <1>14. \/ RecoverNote \/ RemoveNote \/ SyncNote \/ Scanned \/ Evicted \/ SyncEvictions
         \/ BeginSlot \/ WriteSlot \/ SyncSlot \/ SyncSlotName
         \/ \E e \in Event : Expire(e) \/ Evict(e)
         \/ at' \notin {"scan", "evict", "sync"} \union Checkpointing
    BY DEF Next, Write, Consume, Begin, Create, WriteRecord, SyncRecord, Rename, RecordStep,
       Reject, Take, Persist, Acknowledge, Stop, Publish, PowerLoss, Synced
  <1>15. Phases
    BY <1>7, <1>8, <1>9, <1>10, <1>11, <1>12, <1>13, <1>14
  <1> QED BY <1>4, <1>5, <1>15 DEF Counting

LEMMA NothingEvicted == ASSUME Rows, Gone, made = 0 PROVE EvictedCount = base
  <1>1. evicted = {} BY DEF Gone
  <1> QED BY <1>1, FS_EmptySet, Counts DEF EvictedCount

\* The phases of Exact, for a step after which nothing has failed.
ExactAfter ==
    /\ at' \in {"free", "persist", "acknowledge", "recover"} => Unrecovered'
    /\ at' \in {"recover", "scan", "evict", "sync", "create"} => ~job'.noted
    /\ at' \in Counted => job'.drops = EvictedCount'
    /\ \/ at' \in {"forgotten", "scan", "evict", "sync", "create"}
       \/ at' \in Checkpointing /\ ~job'.noted
       => note' = Absent
    /\ at' \in Recording => made' > 0 /\ note' = Absent /\ Baseline' = EvictedCount'

LEMMA RecoverExact ==
    ASSUME JournalInv, Gone, Noted, Carried, Exact, faults = 0, RecoverNote
    PROVE  ExactAfter
  <1> USE DEF Counted, Checkpointing, Recording
  <1>0. /\ Rows /\ base \in Nat /\ note.count \in Nat /\ made \in Nat
        /\ at = "recover" /\ job.drops = job.count /\ job.count = Baseline
        /\ Unrecovered /\ ~job.noted /\ UNCHANGED <<note, made, evicted, base, slot>>
    BY DEF JournalInv, Rows, Image, RecoverNote, Loaded, Deciding, Carried, Exact, ring, ghosts,
       slots
  <1>1. EvictedCount' = EvictedCount BY <1>0 DEF EvictedCount
  <1>2. Baseline \in Nat /\ EvictedCount \in Nat
    BY <1>0, Counts, Larger DEF JournalInv
  <1>3. Absent.kind # "legacy" BY Images
  <1>4. made = 0 => EvictedCount = base BY <1>0, NothingEvicted
  <1>5. CASE note = Absent
    <2>1. at' = "scan" /\ job' = job BY <1>5 DEF RecoverNote
    <2>2. Baseline = EvictedCount BY <1>0, <1>3, <1>4, <1>5 DEF Unrecovered
    <2> QED BY <1>0, <1>1, <1>5, <2>1, <2>2 DEF ExactAfter
  <1>6. CASE note # Absent
    <2>1. made = 0 /\ EvictedCount = base /\ Baseline <= base /\ note.count <= base
      BY <1>0, <1>4, <1>6 DEF Unrecovered, Noted
    <2>2. CASE note.kind = "legacy" /\ note.count >= job.count
      <3>1. at' = "checkpoint" /\ job' = [job EXCEPT !.drops = note.count, !.noted = TRUE]
        BY <1>6, <2>2 DEF RecoverNote
      <3>2. job'.drops = note.count /\ job'.noted = TRUE BY <1>0, <3>1 DEF Rows
      <3>3. note.count = base BY <1>0, <1>2, <2>1, <2>2 DEF Unrecovered
      <3> QED BY <1>1, <2>1, <3>1, <3>2, <3>3 DEF ExactAfter
    <2>3. CASE ~(note.kind = "legacy" /\ note.count >= job.count)
      <3>1. at' = "forget" /\ job' = job BY <1>6, <2>3 DEF RecoverNote
      <3>2. Baseline = base BY <1>0, <1>2, <2>1, <2>3 DEF Unrecovered
      <3> QED BY <1>0, <1>1, <2>1, <3>1, <3>2 DEF ExactAfter
    <2> QED BY <2>2, <2>3
  <1> QED BY <1>5, <1>6

LEMMA ExactStep ==
    ASSUME JournalInv, Gone, Noted, Carried, Exact, Next
    PROVE  Exact'
  <1> USE DEF Counted, Checkpointing, Recording
  <1>. SUFFICES ASSUME faults' = 0 PROVE ExactAfter
    BY DEF Exact, ExactAfter
  <1>0. Rows /\ made \in Nat /\ base' = base BY NoteSteps DEF JournalInv, Rows
  <1>1. faults = 0 /\ ~Stop /\ ~PowerLoss
    <2>1. faults \in Nat BY <1>0 DEF Rows
    <2>2. ~Stop /\ ~PowerLoss BY <2>1 DEF Stop, PowerLoss
    <2> QED BY <2>2 DEF Next, Write, Consume, Begin, RecoverNote, RemoveNote, SyncNote, Scanned,
         Evicted, SyncEvictions, BeginSlot, WriteSlot, SyncSlot, SyncSlotName, Create,
         WriteRecord, SyncRecord, Rename, RecordStep, Reject, Take, Persist, Acknowledge,
         Expire, Evict, Publish
  <1>2. ~WriteSlot => Baseline' = Baseline BY <1>1, SlotCounts
  <1>3. UNCHANGED <<evicted, base>> => EvictedCount' = EvictedCount BY DEF EvictedCount
  <1>4. ASSUME Begin PROVE ExactAfter
    <2>1. /\ at = "free" /\ at' = "recover" /\ job'.noted = FALSE
          /\ UNCHANGED <<evicted, base, note, made, slot>>
      BY <1>4 DEF Begin, NoJob, ring, ghosts, slots
    <2>2. Baseline' = Baseline BY <2>1, SlotStays
    <2> QED BY <1>1, <1>3, <2>1, <2>2 DEF Exact, ExactAfter, Unrecovered
  <1>5. ASSUME RecoverNote PROVE ExactAfter
    BY <1>1, <1>5, RecoverExact
  <1>6. ASSUME RemoveNote \/ SyncNote PROVE ExactAfter
    <2>1. /\ at \in {"forget", "forgotten"} /\ at' \in {"forgotten", "scan"}
          /\ UNCHANGED <<evicted, base>>
          /\ note' = Absent \/ (at = "forgotten" /\ note' = note)
      BY <1>6 DEF RemoveNote, SyncNote, Synced, ring, ghosts
    <2>2. job'.drops = job.drops /\ (at' = "scan" => job'.noted = FALSE)
      BY <1>0, <1>6 DEF RemoveNote, SyncNote, Synced, Rows
    <2> QED BY <1>1, <1>3, <2>1, <2>2 DEF Exact, ExactAfter
  <1>7. ASSUME NEW e \in Event, Expire(e) \/ Evict(e) PROVE ExactAfter
    <2>1. at' = at /\ at \in {"scan", "evict"} /\ note' = note
      BY <1>7 DEF Expire, Evict
    <2>2. EvictedCount' = EvictedCount + 1 /\ job'.drops = job.drops + 1 BY <1>7, OneMore
    <2>3. job'.noted = job.noted BY <1>0, <1>7 DEF Expire, Evict, Remove, Rows
    <2> QED BY <1>1, <2>1, <2>2, <2>3 DEF Exact, ExactAfter
  <1>8. ASSUME Scanned \/ Evicted \/ SyncEvictions PROVE ExactAfter
    <2>1. /\ UNCHANGED <<job, evicted, base, note>> /\ at \in {"scan", "evict", "sync"}
          /\ at' \in {"evict", "sync", "checkpoint", "create"}
      BY <1>8 DEF Scanned, Evicted, SyncEvictions, Synced, ring, ghosts
    <2> QED BY <1>1, <1>3, <2>1 DEF Exact, ExactAfter
  <1>9. ASSUME BeginSlot \/ WriteSlot \/ SyncSlot \/ SyncSlotName PROVE ExactAfter
    <2>1. at \in Checkpointing /\ job'.drops = job.drops /\ job'.noted = job.noted
      BY <1>9, BeginSlotFacts, WriteSlotFacts, SyncSlotFacts
    <2>2. UNCHANGED <<evicted, base, note>>
      BY <1>9 DEF BeginSlot, WriteSlot, SyncSlot, SyncSlotName, ring, ghosts
    <2>3. at' \in Checkpointing \union {"forget", "create"} /\ (at' = "create" => ~job.noted)
      BY <1>9, BeginSlotFacts, WriteSlotFacts, SyncSlotFacts
    <2> QED BY <1>1, <1>3, <2>1, <2>2, <2>3 DEF Exact, ExactAfter
  <1>11. ASSUME Create PROVE ExactAfter
    <2>1. /\ UNCHANGED <<evicted, base, note, slot>> /\ at = "create" /\ at' = "write"
          /\ made' = made + 1
      BY <1>11 DEF Create, ghosts, slots
    <2>2. job.drops = Baseline /\ Baseline' = Baseline BY <2>1, SlotStays DEF Carried
    <2> QED BY <1>0, <1>1, <1>3, <2>1, <2>2 DEF Exact, ExactAfter
  <1>12. ASSUME WriteRecord \/ SyncRecord \/ Rename \/ Publish PROVE ExactAfter
    <2>1. /\ UNCHANGED <<evicted, base, note, made, slot>> /\ at \in Recording
          /\ at' \in {"flush", "rename", "publish", "free"}
      BY <1>12 DEF WriteRecord, SyncRecord, Rename, RecordStep, Publish, Synced, ring, ghosts,
         slots
    <2>2. Baseline' = Baseline BY <2>1, SlotStays
    <2> QED BY <1>0, <1>1, <1>3, <2>1, <2>2 DEF Exact, ExactAfter, Unrecovered
  <1>13. ASSUME Persist \/ Acknowledge \/ \E e \in Event : Reject(e) \/ Take(e) PROVE ExactAfter
    <2>1. /\ UNCHANGED <<evicted, base, note, made, slot>>
          /\ at \in {"free", "persist", "acknowledge"} /\ at' \in {"free", "persist", "acknowledge"}
      BY <1>13 DEF Persist, Acknowledge, Reject, Take, ring, ghosts, slots
    <2>2. Baseline' = Baseline BY <2>1, SlotStays
    <2> QED BY <1>1, <1>3, <2>1, <2>2 DEF Exact, ExactAfter, Unrecovered
  <1> QED BY <1>1, <1>4, <1>5, <1>6, <1>7, <1>8, <1>9, <1>11, <1>12, <1>13
          DEF Next, Write, Consume

LEMMA CountInit == Init => CountInv
  <1> SUFFICES ASSUME Init PROVE CountInv OBVIOUS
  <1>1. /\ JournalInv /\ Rows /\ slot[0].count \in Nat /\ note.count \in Nat
        /\ slot[1].count = 0 /\ ~Valid(1)
        /\ Valid(0) \/ slot[0].count = 0
    BY JournalInit, Images DEF JournalInv, Rows, Image, Init, Valid, Formats
  <1>2. Baseline = slot[0].count BY <1>1 DEF Baseline
  <1>3. /\ base \in Nat /\ slot[0].count <= base /\ note.count <= base /\ kept.note = note
        /\ base = slot[0].count \/ base = note.count
        /\ durable[0] = {slot[0]} /\ durable[1] = {slot[1]}
    BY <1>1 DEF Init
  <1>4. /\ at = "free" /\ evicted = {} /\ made = 0 /\ kept.file = file
        /\ \A e \in Event : file[e] = "none" /\ claim[e] = 0
    BY DEF Init
  <1>5. Gone /\ Noted /\ Carried BY <1>3, <1>4 DEF Gone, Noted, Carried, Recording
  <1>6. Counting
    <2>1. base <= BackedCount /\ BackedCount \in Nat BY <1>1, Counts
    <2>2. \A e \in Event : claim[e] <= BackedCount BY <1>4, <2>1
    <2>3. slot[0].count <= BackedCount /\ slot[1].count <= BackedCount BY <1>1, <1>3, <2>1
    <2> QED BY <1>3, <1>4, <2>2, <2>3 DEF Counting, Checkpointing
  <1>7. Exact
    <2>1. note.count # base \/ base = slot[0].count \/ note.kind = "legacy"
      BY <1>1, <1>3, Images DEF Init
    <2> QED BY <1>2, <1>3, <1>4, <2>1
            DEF Exact, Unrecovered, Counted, Checkpointing, Recording
  <1> QED BY <1>5, <1>6, <1>7 DEF CountInv

LEMMA CountAlways == Spec => [](JournalInv /\ CountInv)
  <1>1. JournalInv /\ CountInv /\ [Next]_vars => CountInv'
    <2>1. ASSUME JournalInv, CountInv, Next PROVE CountInv'
      BY <2>1, GoneStep, NotedStep, CarriedStep, CountingStep, ExactStep DEF CountInv
    <2>2. ASSUME CountInv, UNCHANGED vars PROVE CountInv'
      <3>1. Gone' /\ Noted' BY <2>2 DEF CountInv, Gone, Noted, vars
      <3>2. Baseline' = Baseline /\ BackedCount' = BackedCount /\ EvictedCount' = EvictedCount
        BY <2>2 DEF vars, Baseline, Valid, BackedCount, Backed, EvictedCount
      <3>3. Carried' /\ (Unix => Counting)' BY <2>2, <3>2 DEF CountInv, Carried, Counting, vars
      <3>4. Exact' BY <2>2, <3>2 DEF CountInv, Exact, Unrecovered, vars
      <3> QED BY <3>1, <3>3, <3>4 DEF CountInv
    <2> QED BY <2>1, <2>2
  <1> QED BY <1>1, CountInit, JournalAlways, PTL DEF Spec

\* On Unix neither the journal nor a record ever counts an eviction that a loss of power
\* may undo, whichever image of a slot the disk keeps: evictions are synchronized before
\* a slot is written.  And as long as nothing has failed none is missing from it.
THEOREM CountsAreBacked == Spec => []CountIsBacked
  <1>1. JournalInv /\ CountInv => CountIsBacked
    <2> SUFFICES ASSUME JournalInv, CountInv PROVE CountIsBacked OBVIOUS
    <2>1. ASSUME Unix
          PROVE  /\ Baseline <= BackedCount
                 /\ \A e \in Event : claim[e] <= BackedCount
      <3>1. Rows /\ Formats /\ Counting BY <2>1 DEF JournalInv, CountInv
      <3>2. slot[0].count <= BackedCount /\ slot[1].count <= BackedCount
        BY <3>1 DEF Counting, Formats
      <3> QED BY <3>1, <3>2, Larger DEF Counting
    <2>2. at = "free" /\ faults = 0 /\ made > 0 => Baseline = EvictedCount
      BY DEF CountInv, Exact, Unrecovered
    <2> QED BY <2>1, <2>2 DEF CountIsBacked, BackedCount, EvictedCount
  <1> QED BY <1>1, CountAlways, PTL
=============================================================================
