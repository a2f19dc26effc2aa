------------------------------ MODULE OtaFlash ------------------------------
(***************************************************************************)
(* Firmware updates: the SD-card path (SdFirmwareUpdateActivity,           *)
(* FirmwareFlasher.cpp, OtaBootSwitch.cpp) and the network path            *)
(* (OtaUpdater::installUpdate), with a power cut, crash or restart between *)
(* any two flash operations.                                               *)
(*                                                                         *)
(* Two application partitions, 0 and 1, and two otadata entries.  An image *)
(* is a model value; the checks tell apart whether it is complete and      *)
(* whether it passes the chip and board-tag checks of this device.         *)
(* The ESP-IDF bootloader is external: it selects the partition of the     *)
(* usable entry with the highest sequence number, and boots the other one  *)
(* when the image there is broken.                                         *)
(***************************************************************************)
EXTENDS Naturals

CONSTANTS
  Fitting,    \* complete images that pass the chip and board-tag checks
  Foreign,    \* complete images for another chip or tagged for another board
  Torn,       \* an incomplete or corrupt image, or erased flash
  MaxSeq,     \* bound on otadata sequence numbers
  MaxSwaps    \* bound on changes of the card's file while it is being flashed

ASSUME ImageAssumption ==
  Torn \notin Fitting \cup Foreign /\ Fitting \cap Foreign = {} /\ Fitting # {}
ASSUME BoundsAssumption == MaxSeq \in Nat \ {0} /\ MaxSwaps \in Nat

VARIABLES
  part,      \* contents of the two application partitions
  otadata,   \* the two SelectEntry slots
  rollback,  \* the bootloader was built with app rollback
  running,   \* partition the CPU executes from
  pc,        \* where the update code is
  dest,      \* the update's destination partition
  source,    \* what the card's file or the server holds
  checked,   \* what the update code has verified, Torn if nothing
  swaps      \* changes of the card's file during an update so far

vars == <<part, otadata, rollback, running, pc, dest, source, checked, swaps>>

Index == {0, 1}
Intact == Fitting \cup Foreign
Content == Intact \cup {Torn}

\* ok: programmed and the CRC of ota_seq matches; bad: INVALID or ABORTED.
States == {"new", "pending", "valid", "bad"}
Entry == [ok : BOOLEAN, seq : 0..MaxSeq, state : States]
NoEntry == [ok |-> FALSE, seq |-> 0, state |-> "valid"]

\* Between the check of an image and the end of the commit.
Busy == {"copy", "stream", "end", "switch", "erased"}

TypeOK ==
  /\ part \in [Index -> Content] /\ otadata \in [Index -> Entry]
  /\ rollback \in BOOLEAN
  /\ running \in Index /\ dest \in Index /\ pc \in Busy \cup {"idle", "done"}
  /\ source \in Content /\ checked \in Content /\ swaps \in 0..MaxSwaps

-----------------------------------------------------------------------------
(* otadata, as switchTo() and the bootloader read it.                      *)

Usable(od) == {i \in Index : od[i].ok /\ od[i].state # "bad"}

\* No usable entry has a higher sequence number, no earlier one an equal one.
Highest(od, i) ==
  \A j \in Usable(od) : od[j].seq < od[i].seq \/ (od[j].seq = od[i].seq /\ i <= j)

ActiveSlot(od) == CHOOSE i \in Usable(od) : Highest(od, i)

ActiveSeq(od) == IF Usable(od) = {} THEN 0 ELSE od[ActiveSlot(od)].seq

\* (seq - 1) % 2 picks the partition.
PartitionOf(seq) == (seq + 1) % 2

\* Mutant of NewSeq: whatever comes next, without the loop.
NewSeqNext(od, d) == ActiveSeq(od) + 1

\* newSeq = activeSeq + 1; while (((newSeq - 1) % 2) != destOtaIdx) ++newSeq;
NewSeq(od, d) ==
  IF PartitionOf(ActiveSeq(od) + 1) = d THEN ActiveSeq(od) + 1 ELSE ActiveSeq(od) + 2

\* Mutant of TargetSlot: the active slot.
TargetActive(od) == IF Usable(od) # {} THEN ActiveSlot(od) ELSE 0
\* The OTHER slot.
TargetSlot(od) == IF Usable(od) # {} /\ ActiveSlot(od) = 0 THEN 1 ELSE 0

-----------------------------------------------------------------------------
(* The bootloader (external).                                              *)

\* An image that was started and never confirmed is rolled back.
Judged(od) ==
  [i \in Index |-> IF rollback /\ od[i].state = "pending"
                     THEN [od[i] EXCEPT !.state = "bad"] ELSE od[i]]

Selected(od) == IF Usable(od) = {} THEN 0 ELSE PartitionOf(od[ActiveSlot(od)].seq)

\* Falls back to the other partition when the selected image is broken.
BootTarget ==
  LET sel == Selected(Judged(otadata)) IN IF part[sel] \in Intact THEN sel ELSE 1 - sel

\* A new image that is started is on probation.
Started(od) ==
  [i \in Index |-> IF /\ rollback /\ od[i].state = "new"
                        /\ i \in Usable(od) /\ i = ActiveSlot(od)
                     THEN [od[i] EXCEPT !.state = "pending"] ELSE od[i]]

\* As delivered: partition 0 runs, selected by an entry or by default.
Init ==
  /\ part \in {p \in [Index -> Fitting \cup {Torn}] : p[0] # Torn}
  /\ \E e \in {NoEntry, [ok |-> TRUE, seq |-> 1, state |-> "valid"]} :
       otadata = [i \in Index |-> IF i = 0 THEN e ELSE NoEntry]
  /\ rollback \in BOOLEAN
  /\ running = 0 /\ dest = 1 /\ pc = "idle"
  /\ source \in Content /\ checked = Torn /\ swaps = 0

-----------------------------------------------------------------------------
(* The SD-card path: flashFromSdPath().                                    *)

\* The entry of the running image is still to be confirmed.
OnProbation(i) == otadata[i].state = "pending" /\ PartitionOf(otadata[i].seq) = running

\* initArduino() has confirmed the running image; MaxSeq leaves room.
MayUpdate ==
  /\ pc = "idle" /\ ActiveSeq(otadata) + 2 <= MaxSeq
  /\ \A i \in Index : ~OnProbation(i)

\* Mutants of ValidateFile: the partition that was not selected to boot, and
\* no chip and board-tag checks.
ValidateNotSelected ==
  /\ MayUpdate /\ source \in Fitting
  /\ dest' = 1 - Selected(otadata) /\ checked' = source /\ pc' = "copy"
  /\ UNCHANGED <<part, otadata, rollback, running, source, swaps>>
ValidateUntagged ==
  /\ MayUpdate /\ source \in Intact
  /\ dest' = 1 - running /\ checked' = source /\ pc' = "copy"
  /\ UNCHANGED <<part, otadata, rollback, running, source, swaps>>

\* esp_ota_get_next_update_partition(nullptr) is the one that is not running;
\* then validateImageFile(): header, chip, segments, board tag, checksum, SHA.
ValidateFile ==
  /\ MayUpdate /\ source \in Fitting
  /\ dest' = 1 - running /\ checked' = source /\ pc' = "copy"
  /\ UNCHANGED <<part, otadata, rollback, running, source, swaps>>

\* The interleaved erase and write of the first blocks.
CopyBegins ==
  /\ pc = "copy"
  /\ part' = [part EXCEPT ![dest] = Torn]
  /\ UNCHANGED <<otadata, rollback, running, pc, dest, source, checked, swaps>>

\* The last chunk is written: the file as it was read this second time.
CopyEnds ==
  /\ pc = "copy" /\ part[dest] = Torn
  /\ part' = [part EXCEPT ![dest] = source] /\ pc' = "switch"
  /\ UNCHANGED <<otadata, rollback, running, dest, source, checked, swaps>>

\* The card is pulled and another file takes the place of the validated one.
SwapFile ==
  /\ pc = "copy" /\ swaps < MaxSwaps
  /\ source' \in Content \ {source} /\ swaps' = swaps + 1
  /\ UNCHANGED <<part, otadata, rollback, running, pc, dest, checked>>

-----------------------------------------------------------------------------
(* The network path: OtaUpdater::installUpdate().                          *)

\* esp_ota_begin() erases the destination.
BeginDownload ==
  /\ MayUpdate
  /\ dest' = 1 - running /\ part' = [part EXCEPT ![1 - running] = Torn]
  /\ checked' = Torn /\ pc' = "stream"
  /\ UNCHANGED <<otadata, rollback, running, source, swaps>>

\* The whole body has arrived and neither the chip id nor a board tag differs.
StreamEnds ==
  /\ pc = "stream" /\ source \notin Foreign
  /\ part' = [part EXCEPT ![dest] = source] /\ pc' = "end"
  /\ UNCHANGED <<otadata, rollback, running, dest, source, checked, swaps>>

\* esp_ota_end() verifies the image that was written.
VerifyDownload ==
  /\ pc = "end" /\ part[dest] \in Intact
  /\ checked' = part[dest] /\ pc' = "switch"
  /\ UNCHANGED <<part, otadata, rollback, running, dest, source, swaps>>

-----------------------------------------------------------------------------
(* switchTo() and esp_ota_set_boot_partition(): erase the other otadata    *)
(* slot, then program it.  The code computes slot and number once; erasing *)
(* the slot that is not active changes neither (EraseKeepsActive).         *)

EraseEntry ==
  /\ pc = "switch"
  /\ otadata' = [otadata EXCEPT ![TargetSlot(otadata)] = NoEntry]
  /\ pc' = "erased"
  /\ UNCHANGED <<part, rollback, running, dest, source, checked, swaps>>

WriteEntry ==
  /\ pc = "erased"
  /\ otadata' = [otadata EXCEPT ![TargetSlot(otadata)] =
                   [ok |-> TRUE, seq |-> NewSeq(otadata, dest), state |-> "new"]]
  /\ pc' = "done"
  /\ UNCHANGED <<part, rollback, running, dest, source, checked, swaps>>

\* Any operation fails and the update returns with an error: open, read,
\* erase, write, wrong device, connection lost, image not verified.
UpdateFails ==
  /\ pc \in Busy
  /\ pc' = "idle"
  /\ UNCHANGED <<part, otadata, rollback, running, dest, source, checked, swaps>>

-----------------------------------------------------------------------------
\* ESP.restart() after an update, a power cut or a crash at any point.
Boot ==
  /\ running' = BootTarget
  /\ otadata' = Started(Judged(otadata))
  /\ pc' = "idle" /\ checked' = Torn
  /\ source' \in Content
  /\ UNCHANGED <<part, rollback, dest, swaps>>

\* initArduino() marks the started image valid.
ConfirmImage ==
  /\ \E i \in Index :
       /\ OnProbation(i)
       /\ otadata' = [otadata EXCEPT ![i].state = "valid"]
  /\ UNCHANGED <<part, rollback, running, pc, dest, source, checked, swaps>>

CardPath == ValidateFile \/ CopyBegins \/ CopyEnds \/ SwapFile
NetPath == BeginDownload \/ StreamEnds \/ VerifyDownload
Commit == EraseEntry \/ WriteEntry

Next == CardPath \/ NetPath \/ Commit \/ UpdateFails \/ Boot \/ ConfirmImage

Spec == Init /\ [][Next]_vars

-----------------------------------------------------------------------------
(* Properties.                                                             *)

\* Wherever the power is cut, even if the card's file changed after it was
\* validated, the next boot finds a complete image.
AlwaysBoots == part[BootTarget] \in Intact

\* Until the new otadata entry is programmed, a cut or a failure at any step
\* boots the firmware that was running.
OldFirmwareUntilCommit == pc \in Busy /\ swaps = 0 => BootTarget = running

\* After a completed update the bootloader takes the image that was checked:
\* no older entry, invalid or aborted ones included, wins over the new one.
SwitchTakesEffect ==
  pc = "done" /\ swaps = 0 => BootTarget = dest /\ part[dest] = checked

\* If the card's file stays what it was when it was validated, no image for
\* another chip or board and no unchecked image is ever booted.
RunsOnlyChecked == swaps = 0 => {part[running], part[BootTarget]} \subseteq Fitting

\* With app rollback, an update that dies before it is confirmed gives way
\* to the firmware before it: its entry and its image are still there.
RollsBack ==
  swaps = 0 /\ rollback =>
    \A i \in Index : OnProbation(i) => BootTarget = 1 - running
=============================================================================
