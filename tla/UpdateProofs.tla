---------------------------- MODULE UpdateProofs ----------------------------
(***************************************************************************)
(* Firmware updates: how an image gets into flash and is booted (OtaFlash, *)
(* for every set of images and every bound), and which release is chosen   *)
(* (OtaCheck, for every set of boards and any release history).  Two       *)
(* components without a common variable, and so two developments: the      *)
(* flash first, then the check.                                            *)
(***************************************************************************)
EXTENDS OtaFlash, OtaCheck, TLAPS

-----------------------------------------------------------------------------
(* Lemmas about otadata.                                                   *)

\* Consecutive sequence numbers alternate between the two partitions.
LEMMA PartitionsAlternate ==
  ASSUME NEW n \in Nat
  PROVE  PartitionOf(n) \in Index /\ PartitionOf(n + 1) = 1 - PartitionOf(n)
BY DEF PartitionOf, Index

\* CHOOSE finds the one usable slot that is highest, if any is usable.
LEMMA ActiveSlotIsHighest ==
  ASSUME NEW od \in [Index -> Entry], Usable(od) # {}
  PROVE  /\ ActiveSlot(od) \in Usable(od) /\ Highest(od, ActiveSlot(od))
         /\ \A i \in Usable(od) : Highest(od, i) => i = ActiveSlot(od)
<1>1. \A i \in Usable(od) : i \in {0, 1} /\ od[i].seq \in Nat
  BY DEF Usable, Index, Entry
<1>2. \E i \in Usable(od) : Highest(od, i)
  <2>1. CASE Usable(od) = {0}
    BY <2>1, <1>1 DEF Highest
  <2>2. CASE Usable(od) = {1}
    BY <2>2, <1>1 DEF Highest
  <2>3. CASE Usable(od) = {0, 1}
    BY <2>3, <1>1 DEF Highest
  <2> QED BY <2>1, <2>2, <2>3, <1>1
<1>3. ActiveSlot(od) \in Usable(od) /\ Highest(od, ActiveSlot(od))
  BY <1>2 DEF ActiveSlot
<1> QED BY <1>1, <1>3 DEF Highest

\* The selection depends on the sequence numbers of the usable entries only.
LEMMA SelectionDepends ==
  ASSUME NEW od \in [Index -> Entry], NEW od2 \in [Index -> Entry],
         Usable(od2) = Usable(od),
         \A i \in Usable(od) : od2[i].seq = od[i].seq
  PROVE  Selected(od2) = Selected(od) /\ ActiveSeq(od2) = ActiveSeq(od)
<1>1. CASE Usable(od) = {}
  BY <1>1 DEF Selected, ActiveSeq
<1>2. CASE Usable(od) # {}
  <2>1. ActiveSlot(od) \in Usable(od) /\ Highest(od2, ActiveSlot(od))
    BY <1>2, ActiveSlotIsHighest DEF Highest
  <2>2. ActiveSlot(od2) = ActiveSlot(od)
    BY <1>2, <2>1, ActiveSlotIsHighest
  <2> QED BY <1>2, <2>1, <2>2 DEF Selected, ActiveSeq
<1> QED BY <1>1, <1>2

\* The bootloader always selects one of the two partitions.
LEMMA SelectedIsIndex ==
  ASSUME NEW od \in [Index -> Entry]
  PROVE  ActiveSeq(od) \in Nat /\ Selected(od) \in Index /\ TargetSlot(od) \in Index
<1>1. CASE Usable(od) = {}
  BY <1>1 DEF ActiveSeq, Selected, TargetSlot, Index
<1>2. CASE Usable(od) # {}
  <2>1. ActiveSlot(od) \in Index
    BY <1>2, ActiveSlotIsHighest DEF Usable
  <2>2. od[ActiveSlot(od)].seq \in Nat
    BY <2>1 DEF Entry
  <2> QED BY <1>2, <2>2, PartitionsAlternate DEF ActiveSeq, Selected, TargetSlot, Index
<1> QED BY <1>1, <1>2

\* The new sequence number is higher than the active one, within two of it,
\* and stands for the destination.
LEMMA NewSeqPicksDest ==
  ASSUME NEW od \in [Index -> Entry], NEW d \in Index
  PROVE  /\ NewSeq(od, d) \in Nat
         /\ ActiveSeq(od) < NewSeq(od, d) /\ NewSeq(od, d) <= ActiveSeq(od) + 2
         /\ PartitionOf(NewSeq(od, d)) = d
<1>1. ActiveSeq(od) \in Nat
  BY SelectedIsIndex
<1> DEFINE n == ActiveSeq(od) + 1
<1>2. n \in Nat /\ PartitionOf(n) \in Index /\ PartitionOf(n + 1) = 1 - PartitionOf(n)
  BY <1>1, PartitionsAlternate
<1>3. n + 1 = ActiveSeq(od) + 2
  BY <1>1
<1> HIDE DEF n
<1>4. NewSeq(od, d) = IF PartitionOf(n) = d THEN n ELSE n + 1
  BY <1>3 DEF NewSeq, n
<1> QED BY <1>1, <1>2, <1>3, <1>4 DEF Index, n

LEMMA NoEntryIsEntry == NoEntry \in Entry
BY BoundsAssumption DEF NoEntry, Entry, States

\* The slot that is not active can be erased without changing the selection.
LEMMA EraseKeepsActive ==
  ASSUME NEW od \in [Index -> Entry], NEW od2,
         od2 = [od EXCEPT ![TargetSlot(od)] = NoEntry]
  PROVE  /\ ActiveSeq(od2) = ActiveSeq(od) /\ Selected(od2) = Selected(od)
         /\ TargetSlot(od2) = TargetSlot(od)
<1>1. CASE Usable(od) = {}
  <2>1. Usable(od2) = {}
    BY <1>1, SelectedIsIndex DEF Usable, NoEntry, Index
  <2> QED BY <1>1, <2>1 DEF ActiveSeq, Selected, TargetSlot
<1>2. CASE Usable(od) # {}
  <2> DEFINE a == ActiveSlot(od)
  <2>1. a \in Usable(od) /\ a \in Index
    BY <1>2, ActiveSlotIsHighest DEF Usable
  <2>2. TargetSlot(od) = 1 - a
    BY <1>2, <2>1 DEF TargetSlot, Index
  <2>3. od2 \in [Index -> Entry] /\ od2[a] = od[a] /\ od2[1 - a] = NoEntry
    BY <2>1, <2>2, NoEntryIsEntry DEF Index
  <2>4. Usable(od2) = {a}
    BY <2>1, <2>3 DEF Usable, NoEntry, Index
  <2>5. ActiveSlot(od2) = a
    BY <2>3, <2>4, ActiveSlotIsHighest
  <2> QED BY <1>2, <2>1, <2>2, <2>3, <2>4, <2>5 DEF ActiveSeq, Selected, TargetSlot
<1> QED BY <1>1, <1>2

-----------------------------------------------------------------------------
(* The inductive invariant.                                                *)

\* An update never writes the running partition, was allowed to start, and
\* the running image stays confirmed while it lasts.
UpdateUnderWay ==
  /\ pc \in Busy \cup {"done"} => dest = 1 - running
  /\ pc \in Busy => /\ ActiveSeq(otadata) + 2 <= MaxSeq
                    /\ \A i \in Index : ~OnProbation(i)

\* Without a swap, flash holds only checked images, and from the commit on
\* the destination holds the one of this update.
Clean ==
  swaps = 0 =>
    /\ part \in [Index -> Fitting \cup {Torn}]
    /\ pc = "copy" => checked \in Fitting /\ source = checked
    /\ pc \in {"switch", "erased", "done"} => checked \in Fitting /\ part[dest] = checked

\* Entry i is new, stands for the destination and beats the other entry.
Wins(i) ==
  /\ otadata[i].ok /\ otadata[i].state = "new"
  /\ PartitionOf(otadata[i].seq) = dest
  /\ (1 - i) \in Usable(otadata) => otadata[1 - i].seq < otadata[i].seq

Committed == pc = "done" => \E i \in Index : Wins(i)

IInv == TypeOK /\ part[running] \in Intact /\ UpdateUnderWay /\ Clean /\ Committed

\* A partition and its complement are the two partitions.
LEMMA TwoPartitions ==
  ASSUME NEW i \in Index
  PROVE  1 - i \in Index /\ Index = {i, 1 - i} /\ i # 1 - i
BY DEF Index

LEMMA JudgedType ==
  ASSUME NEW od \in [Index -> Entry]
  PROVE  Judged(od) \in [Index -> Entry] /\ Started(od) \in [Index -> Entry]
BY DEF Judged, Started, Entry, States

\* Whatever otadata says, one of the two partitions is booted, and it is
\* intact because the running one is.
LEMMA BootTargetIntact ==
  ASSUME TypeOK, part[running] \in Intact
  PROVE  BootTarget \in Index /\ part[BootTarget] \in Intact
<1> DEFINE sel == Selected(Judged(otadata))
<1>1. sel \in Index
  BY JudgedType, SelectedIsIndex DEF TypeOK
<1>2. running \in {sel, 1 - sel}
  BY <1>1, TwoPartitions DEF TypeOK
<1>3. BootTarget = IF part[sel] \in Intact THEN sel ELSE 1 - sel
  BY DEF BootTarget
<1> HIDE DEF sel
<1> QED BY <1>1, <1>2, <1>3, TwoPartitions

LEMMA InitIInv == Init => IInv
<1> SUFFICES ASSUME Init PROVE IInv
  OBVIOUS
<1> USE ImageAssumption, BoundsAssumption
<1>1. otadata \in [Index -> Entry]
  <2>1. PICK e \in {NoEntry, [ok |-> TRUE, seq |-> 1, state |-> "valid"]} :
          otadata = [i \in Index |-> IF i = 0 THEN e ELSE NoEntry]
    BY DEF Init
  <2>2. NoEntry \in Entry /\ [ok |-> TRUE, seq |-> 1, state |-> "valid"] \in Entry
    BY DEF Entry, NoEntry, States
  <2> QED BY <2>1, <2>2
<1>2. TypeOK
  BY <1>1 DEF Init, TypeOK, Content, Intact, Index
<1>3. part[running] \in Intact
  BY DEF Init, Intact, Index
<1> QED BY <1>2, <1>3 DEF Init, IInv, UpdateUnderWay, Clean, Committed, Busy

LEMMA NextIInv == IInv /\ [Next]_vars => IInv'
<1> SUFFICES ASSUME IInv, [Next]_vars PROVE IInv'
  OBVIOUS
<1> USE ImageAssumption, BoundsAssumption DEF IInv
<1>0. 1 - running \in Index /\ running # 1 - running
  BY TwoPartitions DEF TypeOK
<1>1. CASE ValidateFile
  BY <1>1, <1>0 DEF ValidateFile, MayUpdate, TypeOK, UpdateUnderWay, Clean, Committed,
     Busy, Content, Intact, OnProbation
<1>2. CASE CopyBegins
  BY <1>2, <1>0 DEF CopyBegins, TypeOK, UpdateUnderWay, Clean, Committed,
     Busy, Content, OnProbation
<1>3. CASE CopyEnds
  BY <1>3, <1>0 DEF CopyEnds, TypeOK, UpdateUnderWay, Clean, Committed, Busy, OnProbation
<1>4. CASE SwapFile
  BY <1>4 DEF SwapFile, TypeOK, UpdateUnderWay, Clean, Committed, Busy, OnProbation
<1>5. CASE BeginDownload
  BY <1>5, <1>0 DEF BeginDownload, MayUpdate, TypeOK, UpdateUnderWay, Clean, Committed,
     Busy, Content, OnProbation
<1>6. CASE StreamEnds
  BY <1>6, <1>0 DEF StreamEnds, TypeOK, UpdateUnderWay, Clean, Committed, Busy,
     Content, Intact, OnProbation
<1>7. CASE VerifyDownload
  BY <1>7 DEF VerifyDownload, TypeOK, UpdateUnderWay, Clean, Committed, Busy,
     Content, Intact, OnProbation
<1>8. CASE EraseEntry
  <2>1. TargetSlot(otadata) \in Index /\ ActiveSeq(otadata') = ActiveSeq(otadata)
    BY <1>8, SelectedIsIndex, EraseKeepsActive DEF EraseEntry, TypeOK
  <2>2. TypeOK'
    BY <1>8, <2>1 DEF EraseEntry, TypeOK, Busy, Entry, NoEntry, States
  <2>3. UpdateUnderWay'
    BY <1>8, <2>1 DEF EraseEntry, UpdateUnderWay, TypeOK, Busy, OnProbation, NoEntry
  <2> QED BY <1>8, <2>2, <2>3 DEF EraseEntry, Clean, Committed
<1>9. CASE WriteEntry
  <2>1. PICK t \in Index, q \in 0..MaxSeq :
          /\ t = TargetSlot(otadata) /\ q = NewSeq(otadata, dest)
          /\ PartitionOf(q) = dest /\ ActiveSeq(otadata) < q
    BY <1>9, SelectedIsIndex, NewSeqPicksDest DEF WriteEntry, TypeOK, UpdateUnderWay, Busy
  <2>2. otadata'[t] = [ok |-> TRUE, seq |-> q, state |-> "new"]
    BY <1>9, <2>1 DEF WriteEntry, TypeOK
  <2>3. otadata'[1 - t] = otadata[1 - t]
    BY <1>9, <2>1, TwoPartitions DEF WriteEntry, TypeOK
  <2>4. TypeOK'
    BY <1>9, <2>1 DEF WriteEntry, TypeOK, Busy, Entry, States
  <2>5. 1 - t \in Usable(otadata)' => 1 - t \in Usable(otadata)
    BY <2>3 DEF Usable
  <2>6. ASSUME 1 - t \in Usable(otadata) PROVE otadata[1 - t].seq < q
    BY <2>1, <2>6, ActiveSlotIsHighest, SelectedIsIndex
    DEF TypeOK, ActiveSeq, Entry, Usable, Highest
  <2>7. otadata'[t].ok /\ otadata'[t].state = "new" /\ otadata'[t].seq = q
    BY <2>2
  <2>8. dest' = dest /\ pc' = "done"
    BY <1>9 DEF WriteEntry
  <2>9. Wins(t)'
    BY <2>1, <2>3, <2>5, <2>6, <2>7, <2>8 DEF Wins
  <2>10. UpdateUnderWay' /\ Committed'
    BY <1>9, <2>8, <2>9 DEF WriteEntry, UpdateUnderWay, Committed, Busy
  <2>11. part[running]' \in Intact /\ Clean'
    BY <1>9 DEF WriteEntry, Clean
  <2> QED BY <2>4, <2>10, <2>11
<1>10. CASE UpdateFails
  BY <1>10 DEF UpdateFails, TypeOK, UpdateUnderWay, Clean, Committed, Busy
<1>11. CASE Boot
  <2>1. BootTarget \in Index /\ part[BootTarget] \in Intact
    BY BootTargetIntact
  <2>2. otadata' \in [Index -> Entry]
    BY <1>11, JudgedType DEF Boot, TypeOK
  <2>3. TypeOK'
    BY <1>11, <2>1, <2>2 DEF Boot, TypeOK, Content
  <2> QED BY <1>11, <2>1, <2>3 DEF Boot, UpdateUnderWay, Clean, Committed, Busy
<1>12. CASE ConfirmImage
  <2>1. PICK c \in Index : OnProbation(c) /\ otadata' = [otadata EXCEPT ![c].state = "valid"]
    BY <1>12 DEF ConfirmImage
  <2>2. TypeOK'
    BY <1>12, <2>1 DEF ConfirmImage, TypeOK, Entry, States
  <2>3. pc \notin Busy
    BY <2>1 DEF UpdateUnderWay
  <2>4. ASSUME NEW i \in Index, Wins(i) PROVE Wins(i)'
    <3>1. i # c
      BY <2>1, <2>4 DEF Wins, OnProbation
    <3>2. otadata'[i] = otadata[i] /\ otadata'[1 - i].seq = otadata[1 - i].seq
      BY <2>1, <3>1, TwoPartitions DEF TypeOK, Entry
    <3>3. 1 - i \in Usable(otadata)' => 1 - i \in Usable(otadata)
      BY <2>1, <3>1, TwoPartitions DEF Usable, TypeOK, Entry, OnProbation
    <3> QED BY <1>12, <2>4, <3>2, <3>3 DEF ConfirmImage, Wins
  <2>5. Committed'
    BY <1>12, <2>4 DEF ConfirmImage, Committed
  <2> QED BY <1>12, <2>2, <2>3, <2>5 DEF ConfirmImage, UpdateUnderWay, Clean
<1>13. CASE UNCHANGED vars
  BY <1>13 DEF vars, TypeOK, UpdateUnderWay, Clean, Committed, Wins, OnProbation
<1> QED BY <1>1, <1>2, <1>3, <1>4, <1>5, <1>6, <1>7, <1>8, <1>9, <1>10, <1>11, <1>12, <1>13
        DEF Next, CardPath, NetPath, Commit

-----------------------------------------------------------------------------
(* What else is invariant as long as the file is not swapped: a device     *)
(* always has a way back to the firmware it ran before.                    *)

\* Between updates the running partition is the selected one.
Settled ==
  pc # "done" =>
    /\ Selected(otadata) = running
    /\ rollback => \A i \in Index : otadata[i].state # "new"
    /\ pc = "erased" => otadata[TargetSlot(otadata)] = NoEntry

\* After a commit, without the new entry the running partition is selected.
Replaceable ==
  pc = "done" => \E t \in Index :
    /\ Wins(t) /\ Selected([otadata EXCEPT ![t].state = "bad"]) = running
    /\ rollback => otadata[1 - t].state # "new"

\* On probation, without the pending entry the other partition is selected.
Restorable ==
  \A i \in Index : otadata[i].state = "pending" =>
    /\ rollback /\ pc = "idle" /\ PartitionOf(otadata[i].seq) = running
    /\ otadata[1 - i].state # "pending"
    /\ Selected(Judged(otadata)) = 1 - running /\ part[1 - running] \in Fitting

WayBack == swaps = 0 => Settled /\ Replaceable /\ Restorable

\* Judging changes nothing if no entry is pending.
LEMMA NothingToJudge ==
  ASSUME NEW od \in [Index -> Entry], \A i \in Index : od[i].state # "pending"
  PROVE  Judged(od) = od
BY DEF Judged

\* The entry that wins is the active one.
LEMMA WinnerIsActive ==
  ASSUME NEW i \in Index, Wins(i), TypeOK
  PROVE  i \in Usable(otadata) /\ ActiveSlot(otadata) = i /\ Selected(otadata) = dest
<1>1. i \in Usable(otadata)
  BY DEF Wins, Usable
<1>2. otadata[i].seq \in Nat /\ \A j \in Usable(otadata) : j \in {i, 1 - i}
  BY TwoPartitions DEF TypeOK, Entry, Usable
<1>3. Highest(otadata, i)
  <2> SUFFICES ASSUME NEW j \in Usable(otadata)
               PROVE  \/ otadata[j].seq < otadata[i].seq
                      \/ otadata[j].seq = otadata[i].seq /\ i <= j
    BY DEF Highest
  <2>1. CASE j = i
    BY <2>1, <1>2 DEF Index
  <2>2. CASE j = 1 - i
    BY <2>2 DEF Wins
  <2> QED BY <1>2, <2>1, <2>2
<1>4. ActiveSlot(otadata) = i
  BY <1>1, <1>3, ActiveSlotIsHighest DEF TypeOK
<1> QED BY <1>1, <1>4 DEF Selected, Wins

LEMMA InitWayBack == Init => WayBack
<1> SUFFICES ASSUME Init PROVE WayBack
  OBVIOUS
<1>1. TypeOK
  BY InitIInv DEF IInv
<1>2. PICK e \in {NoEntry, [ok |-> TRUE, seq |-> 1, state |-> "valid"]} :
        otadata = [i \in Index |-> IF i = 0 THEN e ELSE NoEntry]
  BY DEF Init
<1>3. \A i \in Index : otadata[i].state = "valid"
  BY <1>2 DEF NoEntry
<1>4. Selected(otadata) = 0
  <2>1. CASE Usable(otadata) = {}
    BY <2>1 DEF Selected
  <2>2. CASE Usable(otadata) # {}
    <3>1. ActiveSlot(otadata) \in Usable(otadata)
      BY <1>1, <2>2, ActiveSlotIsHighest DEF TypeOK
    <3>2. ActiveSlot(otadata) = 0 /\ otadata[0] = e /\ e # NoEntry
      BY <3>1, <1>2 DEF Usable, Index, NoEntry
    <3>3. otadata[0].seq = 1
      BY <3>2
    <3> QED BY <2>2, <3>2, <3>3 DEF Selected, PartitionOf
  <2> QED BY <2>1, <2>2
<1> QED BY <1>3, <1>4 DEF Init, WayBack, Settled, Replaceable, Restorable

LEMMA NextWayBack == IInv /\ WayBack /\ [Next]_vars /\ IInv' => WayBack'
<1> SUFFICES ASSUME IInv, WayBack, [Next]_vars, IInv', swaps' = 0 PROVE WayBack'
  BY DEF WayBack
<1>0. swaps = 0
  <2>1. swaps \in Nat /\ (swaps' = swaps \/ swaps' = swaps + 1)
    BY DEF IInv, TypeOK, Next, vars, CardPath, NetPath, Commit, ValidateFile, CopyBegins,
       CopyEnds, SwapFile, BeginDownload, StreamEnds, VerifyDownload, EraseEntry,
       WriteEntry, UpdateFails, Boot, ConfirmImage
  <2> QED BY <2>1
<1> USE <1>0
<1>i. IInv /\ TypeOK /\ UpdateUnderWay /\ Clean /\ Settled /\ Replaceable /\ Restorable
  BY DEF IInv, WayBack
<1>p. ASSUME pc \in Busy PROVE \A i \in Index : otadata[i].state # "pending"
  BY <1>i, <1>p DEF Restorable, Busy
<1>1. CASE ValidateFile
  <2>1. \A i \in Index : otadata[i].state # "pending"
    BY <1>1, <1>i DEF ValidateFile, MayUpdate, OnProbation, Restorable
  <2> QED BY <1>1, <1>i, <2>1
          DEF ValidateFile, MayUpdate, WayBack, Settled, Replaceable, Restorable
<1>2. CASE CopyBegins
  BY <1>2, <1>i, <1>p DEF CopyBegins, Busy, WayBack, Settled, Replaceable, Restorable
<1>3. CASE CopyEnds
  BY <1>3, <1>i, <1>p DEF CopyEnds, Busy, WayBack, Settled, Replaceable, Restorable
<1>4. CASE SwapFile
  BY <1>4, <1>i DEF SwapFile, IInv, TypeOK
<1>5. CASE BeginDownload
  <2>1. \A i \in Index : otadata[i].state # "pending"
    BY <1>5, <1>i DEF BeginDownload, MayUpdate, OnProbation, Restorable
  <2> QED BY <1>5, <1>i, <2>1
          DEF BeginDownload, MayUpdate, WayBack, Settled, Replaceable, Restorable
<1>6. CASE StreamEnds
  BY <1>6, <1>i, <1>p DEF StreamEnds, Busy, WayBack, Settled, Replaceable, Restorable
<1>7. CASE VerifyDownload
  BY <1>7, <1>i, <1>p DEF VerifyDownload, Busy, WayBack, Settled, Replaceable, Restorable
<1>8. CASE EraseEntry
  <2>1. /\ Selected(otadata') = Selected(otadata)
        /\ TargetSlot(otadata') = TargetSlot(otadata) /\ TargetSlot(otadata) \in Index
    BY <1>8, <1>i, EraseKeepsActive, SelectedIsIndex DEF EraseEntry, TypeOK
  <2>2. \A i \in Index : otadata'[i] \in {otadata[i], NoEntry}
        /\ otadata'[TargetSlot(otadata)] = NoEntry
    BY <1>8, <1>i, <2>1 DEF EraseEntry, TypeOK
  <2>3. \A i \in Index : otadata'[i].state # "pending"
    BY <1>8, <1>p, <2>2 DEF EraseEntry, Busy, NoEntry
  <2>4. rollback => \A i \in Index : otadata'[i].state # "new"
    BY <1>8, <1>i, <2>2 DEF EraseEntry, Settled, NoEntry
  <2> QED BY <1>8, <1>i, <2>1, <2>2, <2>3, <2>4
          DEF EraseEntry, WayBack, Settled, Replaceable, Restorable
<1>9. CASE WriteEntry
  <2>1. PICK t \in Index, q \in 0..MaxSeq :
          /\ t = TargetSlot(otadata) /\ q = NewSeq(otadata, dest)
          /\ PartitionOf(q) = dest /\ ActiveSeq(otadata) < q
    BY <1>9, <1>i, BoundsAssumption, SelectedIsIndex, NewSeqPicksDest
       DEF WriteEntry, TypeOK, UpdateUnderWay, Busy
  <2>2. otadata'[t] = [ok |-> TRUE, seq |-> q, state |-> "new"]
        /\ otadata'[1 - t] = otadata[1 - t]
    BY <1>9, <1>i, <2>1, TwoPartitions DEF WriteEntry, TypeOK
  <2>3. ASSUME 1 - t \in Usable(otadata) PROVE otadata[1 - t].seq < q
    BY <1>i, <2>1, <2>3, BoundsAssumption, ActiveSlotIsHighest, SelectedIsIndex
       DEF TypeOK, ActiveSeq, Entry, Usable, Highest
  <2>4. Wins(t)'
    <3>1. otadata'[t].ok /\ otadata'[t].state = "new" /\ otadata'[t].seq = q
      BY <2>2
    <3>2. 1 - t \in Usable(otadata)' => 1 - t \in Usable(otadata)
      BY <2>2 DEF Usable
    <3>3. dest' = dest
      BY <1>9 DEF WriteEntry
    <3> QED BY <2>1, <2>2, <2>3, <3>1, <3>2, <3>3 DEF Wins
  <2> DEFINE od == [otadata' EXCEPT ![t].state = "bad"]
  <2>5. Selected(od) = running
    <3>1. otadata' \in [Index -> Entry] /\ otadata \in [Index -> Entry]
      BY <1>i DEF IInv, TypeOK
    <3>2. od \in [Index -> Entry] /\ od[t].state = "bad" /\ od[1 - t] = otadata[1 - t]
      BY <2>1, <2>2, <3>1, TwoPartitions DEF Entry, States
    <3>3. ~otadata[t].ok
      BY <1>9, <1>i, <2>1 DEF WriteEntry, Settled, NoEntry
    <3>4. Usable(od) = Usable(otadata)
      BY <2>1, <3>2, <3>3, TwoPartitions DEF Usable
    <3>5. \A i \in Usable(otadata) : od[i].seq = otadata[i].seq
      BY <2>1, <3>2, <3>3, TwoPartitions DEF Usable
    <3>6. Selected(od) = Selected(otadata)
      BY <3>1, <3>2, <3>4, <3>5, SelectionDepends
    <3> QED BY <1>9, <1>i, <3>6 DEF WriteEntry, Settled
  <2>6. \A i \in Index : otadata'[i].state # "pending"
    BY <1>9, <1>p, <2>1, <2>2, TwoPartitions DEF WriteEntry, Busy
  <2>7. rollback => otadata'[1 - t].state # "new"
    BY <1>9, <1>i, <2>1, <2>2, TwoPartitions DEF WriteEntry, Settled
  <2>8. pc' = "done" /\ running' = running /\ rollback' = rollback
    BY <1>9 DEF WriteEntry
  <2>9. Replaceable'
    BY <2>1, <2>4, <2>5, <2>7, <2>8 DEF Replaceable
  <2> QED BY <2>6, <2>8, <2>9 DEF WayBack, Settled, Restorable
<1>10. CASE UpdateFails
  BY <1>10, <1>i, <1>p DEF UpdateFails, Busy, WayBack, Settled, Replaceable, Restorable
<1>11. CASE Boot
  <2>b. /\ running' = BootTarget /\ otadata' = Started(Judged(otadata)) /\ pc' = "idle"
        /\ part' = part /\ rollback' = rollback
    BY <1>11 DEF Boot
  <2>t. otadata \in [Index -> Entry] /\ running \in Index /\ part[running] \in Fitting
    BY <1>i, ImageAssumption DEF IInv, TypeOK, Clean, Intact
  <2> SUFFICES Settled' /\ Restorable'
    BY <2>b DEF WayBack, Replaceable
  <2>1. CASE pc = "done"
    <3>1. PICK t \in Index :
            /\ Wins(t) /\ Selected([otadata EXCEPT ![t].state = "bad"]) = running
            /\ rollback => otadata[1 - t].state # "new"
      BY <1>i, <2>1 DEF Replaceable
    <3>2. t \in Usable(otadata) /\ ActiveSlot(otadata) = t /\ Selected(otadata) = dest
      BY <1>i, <3>1, WinnerIsActive
    <3>3. \A i \in Index : otadata[i].state # "pending"
      BY <1>i, <2>1 DEF Restorable
    <3>4. Judged(otadata) = otadata
      BY <2>t, <3>3, NothingToJudge
    <3>5. running' = dest /\ dest = 1 - running /\ dest \in Index
      <4>1. part[dest] \in Intact
        BY <1>i, <2>1 DEF Clean, Intact
      <4> QED BY <1>i, <2>1, <2>b, <3>2, <3>4, <4>1 DEF BootTarget, UpdateUnderWay, TypeOK
    <3>6. CASE rollback
      <4>1. otadata' = [otadata EXCEPT ![t].state = "pending"]
        <5>1. otadata[t].state = "new" /\ otadata[1 - t].state # "new"
          BY <3>1, <3>6 DEF Wins
        <5>2. Started(otadata) = [otadata EXCEPT ![t].state = "pending"]
          BY <2>t, <3>2, <3>6, <5>1, TwoPartitions DEF Started
        <5> QED BY <2>b, <3>4, <5>2
      <4>2. /\ otadata' \in [Index -> Entry] /\ otadata'[t].state = "pending"
            /\ otadata'[1 - t] = otadata[1 - t] /\ otadata'[t].seq = otadata[t].seq
            /\ otadata'[t].ok = otadata[t].ok
        BY <2>t, <4>1, TwoPartitions DEF Entry, States
      <4>3. Selected(otadata') = dest
        <5>1. Usable(otadata') = Usable(otadata)
          BY <3>2, <4>2, TwoPartitions DEF Usable
        <5>2. \A i \in Index : otadata'[i].seq = otadata[i].seq
          BY <4>2, TwoPartitions
        <5> QED BY <2>t, <3>2, <4>2, <5>1, <5>2, SelectionDepends DEF Usable
      <4>4. Judged(otadata)' = [otadata EXCEPT ![t].state = "bad"]
        <5>1. \A i \in Index : i # t => otadata'[i].state # "pending" /\ otadata'[i] = otadata[i]
          BY <3>3, <4>2, TwoPartitions
        <5>2. [otadata'[t] EXCEPT !.state = "bad"] = [otadata[t] EXCEPT !.state = "bad"]
          BY <2>t, <4>1 DEF Entry
        <5> QED BY <2>t, <2>b, <3>6, <4>2, <5>1, <5>2 DEF Judged
      <4>5. Selected(Judged(otadata)') = 1 - running'
        BY <2>t, <3>1, <3>5, <4>4 DEF Index
      <4>6. Settled'
        BY <2>b, <3>1, <3>5, <3>6, <4>2, <4>3, TwoPartitions DEF Settled
      <4>7. PartitionOf(otadata'[t].seq) = running' /\ otadata'[1 - t].state # "pending"
        BY <3>1, <3>3, <3>5, <4>2, TwoPartitions DEF Wins
      <4>8. part'[1 - running'] \in Fitting
        BY <2>t, <2>b, <3>5 DEF Index
      <4>9. Restorable'
        <5> SUFFICES ASSUME NEW i \in Index, otadata'[i].state = "pending"
                     PROVE  /\ rollback' /\ pc' = "idle" /\ PartitionOf(otadata'[i].seq) = running'
                            /\ otadata'[1 - i].state # "pending"
                            /\ Selected(Judged(otadata)') = 1 - running'
                            /\ part'[1 - running'] \in Fitting
          BY DEF Restorable
        <5>1. i = t
          BY <4>7, TwoPartitions
        <5> QED BY <2>b, <3>6, <4>5, <4>7, <4>8, <5>1
      <4> QED BY <4>6, <4>9
    <3>7. CASE ~rollback
      <4>1. otadata' = otadata
        BY <2>t, <2>b, <3>4, <3>7 DEF Started
      <4> QED BY <2>b, <3>2, <3>3, <3>5, <3>7, <4>1 DEF Settled, Restorable
    <3> QED BY <3>6, <3>7
  <2>2. CASE pc # "done" /\ \E i \in Index : otadata[i].state = "pending"
    <3>1. /\ rollback /\ Selected(Judged(otadata)) = 1 - running
          /\ part[1 - running] \in Fitting
      BY <1>i, <2>2 DEF Restorable
    <3>2. running' = 1 - running
      BY <2>b, <3>1 DEF BootTarget, Intact
    <3>3. \A i \in Index : Judged(otadata)[i].state \notin {"new", "pending"}
      BY <1>i, <2>t, <2>2, <3>1 DEF Judged, Settled, Entry
    <3>4. otadata' = Judged(otadata)
      BY <2>t, <2>b, <3>3, JudgedType DEF Started
    <3> QED BY <2>b, <3>1, <3>2, <3>3, <3>4 DEF Settled, Restorable
  <2>3. CASE pc # "done" /\ \A i \in Index : otadata[i].state # "pending"
    <3>1. Judged(otadata) = otadata
      BY <2>t, <2>3, NothingToJudge
    <3>2. Selected(otadata) = running
      BY <1>i, <2>3 DEF Settled
    <3>3. running' = running
      BY <2>b, <2>t, <3>1, <3>2 DEF BootTarget, Intact
    <3>4. otadata' = otadata
      BY <1>i, <2>t, <2>b, <2>3, <3>1 DEF Started, Settled
    <3> QED BY <1>i, <2>b, <2>3, <3>2, <3>3, <3>4 DEF Settled, Restorable
  <2> QED BY <2>1, <2>2, <2>3
<1>12. CASE ConfirmImage
  <2>1. PICK c \in Index : OnProbation(c) /\ otadata' = [otadata EXCEPT ![c].state = "valid"]
    BY <1>12 DEF ConfirmImage
  <2>2. /\ otadata \in [Index -> Entry] /\ otadata' \in [Index -> Entry]
        /\ otadata'[c].state = "valid" /\ otadata'[c].ok = otadata[c].ok
        /\ otadata'[c].seq = otadata[c].seq /\ otadata'[1 - c] = otadata[1 - c]
    BY <1>i, <2>1, TwoPartitions DEF IInv, TypeOK, Entry
  <2>3. pc = "idle" /\ otadata[c].state = "pending" /\ otadata[1 - c].state # "pending"
    BY <1>i, <2>1 DEF Restorable, OnProbation
  <2>4. Selected(otadata') = Selected(otadata)
    <3>1. Usable(otadata') = Usable(otadata)
      BY <2>1, <2>2, <2>3, TwoPartitions DEF Usable
    <3>2. \A i \in Index : otadata'[i].seq = otadata[i].seq
      BY <2>2, TwoPartitions
    <3> QED BY <2>2, <3>1, <3>2, SelectionDepends DEF Usable
  <2>5. \A i \in Index : otadata'[i].state # "pending"
    BY <2>2, <2>3, TwoPartitions
  <2>6. rollback => \A i \in Index : otadata'[i].state # "new"
    BY <1>i, <2>2, <2>3, TwoPartitions DEF Settled
  <2>7. pc' = pc /\ running' = running /\ rollback' = rollback
    BY <1>12 DEF ConfirmImage
  <2> QED BY <1>i, <2>3, <2>4, <2>5, <2>6, <2>7 DEF WayBack, Settled, Replaceable, Restorable
<1>13. CASE UNCHANGED vars
  BY <1>13, <1>i DEF vars, WayBack, Settled, Replaceable, Restorable, Wins, Judged
<1> QED BY <1>1, <1>2, <1>3, <1>4, <1>5, <1>6, <1>7, <1>8, <1>9, <1>10, <1>11, <1>12, <1>13
        DEF Next, CardPath, NetPath, Commit

-----------------------------------------------------------------------------
(* The theorems.                                                           *)

\* IInv and WayBack hold in every reachable state.
THEOREM Invariance == Spec => [](IInv /\ WayBack)
<1>1. Init => IInv /\ WayBack
  BY InitIInv, InitWayBack
<1>2. IInv /\ WayBack /\ [Next]_vars => (IInv /\ WayBack)'
  BY NextIInv, NextWayBack
<1> QED BY <1>1, <1>2, PTL DEF Spec

\* The variables keep their types; sequence numbers stay within the bound.
THEOREM TypeCorrect == Spec => []TypeOK
<1>1. IInv => TypeOK
  BY DEF IInv
<1> QED BY <1>1, Invariance, PTL

\* A power cut at any point of any sequence of updates leaves an intact
\* image for the bootloader, for any images and any swaps of the file.
THEOREM DeviceAlwaysBoots == Spec => []AlwaysBoots
<1>1. IInv => AlwaysBoots
  BY BootTargetIntact DEF IInv, AlwaysBoots
<1> QED BY <1>1, Invariance, PTL

\* Only checked images are ever running or about to boot.
THEOREM OnlyCheckedImagesRun == Spec => []RunsOnlyChecked
<1>1. IInv => RunsOnlyChecked
  <2> SUFFICES ASSUME IInv, swaps = 0 PROVE {part[running], part[BootTarget]} \subseteq Fitting
    BY DEF RunsOnlyChecked
  <2>1. BootTarget \in Index /\ part[BootTarget] \in Intact
    BY BootTargetIntact DEF IInv
  <2> QED BY <2>1, ImageAssumption DEF IInv, TypeOK, Clean, Intact
<1> QED BY <1>1, Invariance, PTL

\* A cut before the commit boots the firmware that was running.
THEOREM KeepsOldFirmware == Spec => []OldFirmwareUntilCommit
<1>1. IInv /\ WayBack => OldFirmwareUntilCommit
  <2> SUFFICES ASSUME IInv, WayBack, pc \in Busy, swaps = 0 PROVE BootTarget = running
    BY DEF OldFirmwareUntilCommit
  <2>1. \A i \in Index : otadata[i].state # "pending"
    BY DEF WayBack, Restorable, Busy
  <2>2. Judged(otadata) = otadata
    BY <2>1, NothingToJudge DEF IInv, TypeOK
  <2>3. Selected(otadata) = running
    BY DEF WayBack, Settled, Busy
  <2> QED BY <2>2, <2>3 DEF IInv, BootTarget
<1> QED BY <1>1, Invariance, PTL

\* An unconfirmed update that dies gives way to the firmware before it.
THEOREM ProbationEndsInRollback == Spec => []RollsBack
<1>1. WayBack => RollsBack
  <2> SUFFICES ASSUME WayBack, swaps = 0, NEW i \in Index, OnProbation(i)
               PROVE  BootTarget = 1 - running
    BY DEF RollsBack
  <2>1. Selected(Judged(otadata)) = 1 - running /\ part[1 - running] \in Fitting
    BY DEF WayBack, Restorable, OnProbation
  <2> QED BY <2>1 DEF BootTarget, Intact
<1> QED BY <1>1, Invariance, PTL

\* A completed switch makes the checked image the next one to boot.
THEOREM SwitchIsEffective == Spec => []SwitchTakesEffect
<1>1. IInv /\ WayBack => SwitchTakesEffect
  <2> SUFFICES ASSUME IInv, WayBack, pc = "done", swaps = 0
               PROVE  BootTarget = dest /\ part[dest] = checked
    BY DEF SwitchTakesEffect
  <2>1. PICK i \in Index : Wins(i)
    BY DEF IInv, Committed
  <2>2. Selected(otadata) = dest
    BY <2>1, WinnerIsActive DEF IInv
  <2>3. \A j \in Index : otadata[j].state # "pending"
    BY DEF WayBack, Restorable
  <2>4. Judged(otadata) = otadata
    BY <2>3, NothingToJudge DEF IInv, TypeOK
  <2>5. part[dest] = checked /\ checked \in Fitting
    BY DEF IInv, Clean
  <2> QED BY <2>2, <2>4, <2>5 DEF BootTarget, Intact
<1> QED BY <1>1, Invariance, PTL

-----------------------------------------------------------------------------
(* The check.  What makes its properties inductive: the file remembers one *)
(* head of its channel in all its lines, heads are the latest of their     *)
(* version, and so is an answer.                                           *)

\* What the file says is what the head of its channel was when it was written.
FileRemembers ==
  file # NoFile =>
    /\ file.etag.channel = file.channel /\ file.tag = file.etag.release.tag
    /\ file.board \in file.etag.release.assets

\* No published release of the head's version is later than the head, and the head of
\* the stable channel is a final release.
HeadsAreLatest ==
  /\ \A c \in Channels :
       /\ list[c].tag \in tags
       /\ \A t \in tags :
            t.seg = list[c].tag.seg => t = list[c].tag \/ Later(list[c].tag, t)
  /\ list["stable"].tag.rc = 0

\* The device runs a published release, and an answer of the same version is no
\* earlier one.
AnswerIsNoEarlier ==
  /\ firmware.tag \in tags
  /\ latest # NoAnswer =>
       /\ latest.tag \in tags
       /\ latest.tag.seg = firmware.tag.seg
            => latest.tag = firmware.tag \/ Later(latest.tag, firmware.tag)

\* What is about to be installed was found by a check.
Installs == state = "UPDATE_IN_PROGRESS" => latest # NoAnswer

CheckInv ==
  /\ CheckTypeOK /\ RunsOwnBoard
  /\ FileRemembers /\ HeadsAreLatest /\ AnswerIsNoEarlier /\ Installs

-----------------------------------------------------------------------------
(* The steps of the check.                                                 *)

\* A factory device runs a published release, and no check has been made.
LEMMA CheckInitInv == CheckInit => CheckInv
<1> SUFFICES ASSUME CheckInit PROVE CheckInv
  OBVIOUS
<1>1. PICK rc \in 0..MaxRc :
        LET final == [tag |-> [seg |-> 1, rc |-> 0], assets |-> {Board}]
            first == [tag |-> [seg |-> 1, rc |-> rc], assets |-> {Board}]
        IN /\ list = [c \in Channels |-> final]
           /\ tags = {final.tag, first.tag}
           /\ firmware = [tag |-> first.tag, board |-> Board]
           /\ docs = 0 /\ channel \in Channels
           /\ file = NoFile
           /\ state = "CLOSED" /\ auto = FALSE /\ latest = NoAnswer
  BY DEF CheckInit
<1>2. [seg |-> 1, rc |-> 0] \in Tags /\ [seg |-> 1, rc |-> rc] \in Tags
  BY ReleaseBounds DEF Tags
<1>3. [tag |-> [seg |-> 1, rc |-> 0], assets |-> {Board}] \in Releases
  BY <1>2, BoardsAssumption DEF Releases
<1>4. CheckTypeOK
  <2>1. list \in [Channels -> Releases] /\ tags \subseteq Tags
    BY <1>1, <1>2, <1>3
  <2>2. docs \in 0..MaxDocs /\ channel \in Channels
    BY <1>1, ReleaseBounds
  <2>3. firmware \in [tag : Tags, board : Boards]
    BY <1>1, <1>2, BoardsAssumption
  <2>4. /\ file \in Files /\ latest \in Answers /\ state \in ScreenStates
        /\ auto \in BOOLEAN
    BY <1>1 DEF Files, Answers, ScreenStates
  <2> QED
    BY <2>1, <2>2, <2>3, <2>4 DEF CheckTypeOK
<1>5. FileRemembers /\ AnswerIsNoEarlier /\ RunsOwnBoard /\ Installs
  BY <1>1 DEF FileRemembers, AnswerIsNoEarlier, RunsOwnBoard, Installs
<1>6. HeadsAreLatest
  BY <1>1 DEF HeadsAreLatest, Channels, Later
<1> QED
  BY <1>4, <1>5, <1>6 DEF CheckInv

\* The list grows in the order of the versions; what the device knows stays true of
\* what is published.
LEMMA ServerStep ==
  ASSUME CheckInv,
         \/ \E r \in Releases : Publish(r)
         \/ \E c \in Channels, b \in Boards : AddAsset(c, b)
  PROVE  CheckInv'
<1>1. CASE \E r \in Releases : Publish(r)
  <2>1. PICK r \in Releases : Publish(r)
    BY <1>1
  <2>2. r.tag \in Tags /\ r.tag.seg \in Nat /\ r.tag.rc \in Nat
    BY DEF Releases, Tags
  <2>3. CheckTypeOK'
    BY <2>1, <2>2, ReleaseBounds DEF CheckInv, CheckTypeOK, Publish
  <2>4. HeadsAreLatest'
    <3>1. tags \subseteq Tags /\ \A t \in tags : t.seg \in Nat /\ t.rc \in Nat
      BY DEF CheckInv, CheckTypeOK, Tags
    <3>2. "stable" \in Channels
      BY DEF Channels
    <3>3. ASSUME r.tag.rc # 0, r.tag.seg = list["stable"].tag.seg PROVE FALSE
      BY <2>1, <2>2, <3>1, <3>2, <3>3
      DEF CheckInv, HeadsAreLatest, Publish, Later
    <3>4. ASSUME NEW c \in Channels
          PROVE  /\ list'[c].tag \in tags'
                 /\ \A t \in tags' : t.seg = list'[c].tag.seg
                      => t = list'[c].tag \/ Later(list'[c].tag, t)
      <4>1. CASE c = "pre" \/ r.tag.rc = 0
        BY <2>1, <4>1 DEF Publish
      <4>2. CASE ~(c = "pre" \/ r.tag.rc = 0)
        BY <2>1, <3>3, <4>2 DEF CheckInv, HeadsAreLatest, Publish, Channels
      <4> QED
        BY <4>1, <4>2
    <3>5. list'["stable"].tag.rc = 0
      BY <2>1, <3>2 DEF CheckInv, HeadsAreLatest, Publish
    <3> QED
      BY <3>4, <3>5 DEF HeadsAreLatest
  <2> QED
    BY <2>1, <2>3, <2>4
    DEF CheckInv, FileRemembers, AnswerIsNoEarlier, RunsOwnBoard, Installs, Publish
<1>2. CASE \E c \in Channels, b \in Boards : AddAsset(c, b)
  <2>1. PICK c \in Channels, b \in Boards : AddAsset(c, b)
    BY <1>2
  <2>2. \A d \in Channels : list'[d] \in Releases /\ list'[d].tag = list[d].tag
    BY <2>1 DEF CheckInv, CheckTypeOK, AddAsset, Releases
  <2>3. CheckTypeOK'
    BY <2>1, <2>2, ReleaseBounds DEF CheckInv, CheckTypeOK, AddAsset
  <2>4. HeadsAreLatest'
    BY <2>1, <2>2 DEF CheckInv, HeadsAreLatest, AddAsset, Channels
  <2> QED
    BY <2>1, <2>3, <2>4
    DEF CheckInv, FileRemembers, AnswerIsNoEarlier, RunsOwnBoard, Installs, AddAsset
<1> QED
  BY <1>1, <1>2

\* What is written to the file is the head of the channel, or less of it.
LEMMA EntryIsHead ==
  ASSUME CheckInv, NEW b \in list[channel].assets, NEW n \in 0..6
  PROVE  /\ FileEntry(b, n) \in Files
         /\ FileEntry(b, n).etag.channel = FileEntry(b, n).channel
         /\ FileEntry(b, n).tag = FileEntry(b, n).etag.release.tag
         /\ FileEntry(b, n).board \in FileEntry(b, n).etag.release.assets
<1>1. /\ channel \in Channels /\ list[channel] \in Releases
      /\ list[channel].tag \in Tags /\ b \in Boards
  BY DEF CheckInv, CheckTypeOK, Releases
<1>2. ETagNow \in ETags
  BY <1>1 DEF ETagNow, ETags
<1> QED
  BY <1>1, <1>2 DEF FileEntry, Files, ETagNow

\* The answer of a check is the head of its channel: the latest of its version.
LEMMA AnswerIsHead ==
  ASSUME CheckInv, NEW a \in Answers, a # NoAnswer,
         a.tag = list[channel].tag, Judge(a),
         UNCHANGED <<serverVars, firmware>>
  PROVE  /\ state' \in ScreenStates /\ latest' \in Answers
         /\ AnswerIsNoEarlier' /\ Installs'
<1>1. channel \in Channels /\ firmware.tag \in tags
  BY DEF CheckInv, CheckTypeOK, AnswerIsNoEarlier
<1>2. /\ a.tag \in tags
      /\ a.tag.seg = firmware.tag.seg
           => a.tag = firmware.tag \/ Later(a.tag, firmware.tag)
  BY <1>1 DEF CheckInv, HeadsAreLatest
<1>3. latest' = a /\ tags' = tags /\ firmware' = firmware
  BY DEF Judge, serverVars
<1> QED
  BY <1>1, <1>2, <1>3 DEF Judge, ScreenStates, AnswerIsNoEarlier, Installs

\* A check answers from the file or from the document.
LEMMA AnswerStep == CheckInv /\ (CheckUnchanged \/ CheckReads) => CheckInv'
<1> SUFFICES ASSUME CheckInv, CheckUnchanged \/ CheckReads PROVE CheckInv'
  OBVIOUS
<1>1. /\ CheckTypeOK /\ channel \in Channels /\ list[channel] \in Releases
      /\ list[channel].tag \in Tags /\ Board \in Boards
  BY BoardsAssumption DEF CheckInv, CheckTypeOK, Releases
<1>2. CASE CheckUnchanged
  <2> DEFINE a == [kind |-> "answer", tag |-> file.tag, board |-> file.board,
                   whole |-> file.newlines >= 5]
  <2>1. /\ Judge(a) /\ UNCHANGED <<serverVars, channel, file, firmware, auto>>
        /\ file # NoFile /\ file.etag = ETagNow
    BY <1>2 DEF CheckUnchanged, Answering
  <2>2. file.tag = list[channel].tag
    BY <2>1 DEF CheckInv, FileRemembers, ETagNow
  <2>3. a \in Answers /\ a # NoAnswer /\ a.tag = list[channel].tag
    <3>1. file.tag \in Tags /\ file.board \in Boards
      BY <1>1, <2>1 DEF CheckTypeOK, Files
    <3>2. (file.newlines >= 5) \in BOOLEAN
      OBVIOUS
    <3> QED
      BY <2>2, <3>1, <3>2 DEF Answers, NoAnswer
  <2> HIDE DEF a
  <2>4. /\ state' \in ScreenStates /\ latest' \in Answers
        /\ AnswerIsNoEarlier' /\ Installs'
    BY <2>1, <2>3, AnswerIsHead
  <2>5. CheckTypeOK'
    BY <1>1, <2>1, <2>4 DEF CheckTypeOK, serverVars
  <2> QED
    BY <2>1, <2>4, <2>5
    DEF CheckInv, FileRemembers, HeadsAreLatest, RunsOwnBoard, serverVars
<1>3. CASE CheckReads /\ Board \in list[channel].assets
  <2> DEFINE a == [kind |-> "answer", tag |-> list[channel].tag, board |-> Board,
                   whole |-> TRUE]
  <2>1. PICK withETag \in BOOLEAN :
          /\ Judge(a) /\ file' \in Saved(withETag)
          /\ UNCHANGED <<serverVars, channel, firmware, auto>>
    BY <1>3 DEF CheckReads
  <2>2. a \in Answers /\ a # NoAnswer /\ a.tag = list[channel].tag
    BY <1>1 DEF Answers, NoAnswer
  <2> HIDE DEF a
  <2>3. /\ state' \in ScreenStates /\ latest' \in Answers
        /\ AnswerIsNoEarlier' /\ Installs'
    BY <2>1, <2>2, AnswerIsHead
  <2>4. \/ file' = file \/ file' = NoFile
        \/ \E n \in 0..6 : file' = FileEntry(Board, n)
    BY <2>1 DEF Saved
  <2>5. file' \in Files /\ FileRemembers'
    <3>1. CASE file' = file
      BY <1>1, <3>1 DEF CheckTypeOK, CheckInv, FileRemembers
    <3>2. CASE file' = NoFile
      BY <3>2 DEF Files, FileRemembers
    <3>3. CASE \E n \in 0..6 : file' = FileEntry(Board, n)
      BY <1>3, <3>3, EntryIsHead DEF FileRemembers
    <3> QED
      BY <2>4, <3>1, <3>2, <3>3
  <2>6. CheckTypeOK'
    BY <1>1, <2>1, <2>3, <2>5 DEF CheckTypeOK, serverVars
  <2> QED
    BY <2>1, <2>3, <2>5, <2>6
    DEF CheckInv, HeadsAreLatest, RunsOwnBoard, serverVars
<1>4. CASE CheckReads /\ Board \notin list[channel].assets
  <2>1. /\ UNCHANGED <<serverVars, channel, file, firmware, auto, latest>>
        /\ state' = "NO_UPDATE"
    BY <1>4 DEF CheckReads
  <2>2. CheckTypeOK'
    BY <1>1, <2>1 DEF CheckTypeOK, ScreenStates, serverVars
  <2> QED
    BY <2>1, <2>2
    DEF CheckInv, FileRemembers, HeadsAreLatest, AnswerIsNoEarlier, RunsOwnBoard,
        Installs, serverVars
<1> QED
  BY <1>2, <1>3, <1>4

\* What is installed is later than what ran, and of this board.
LEMMA InstallIsLater ==
  ASSUME CheckInv, state = "UPDATE_IN_PROGRESS",
         IsVersionNewer(latest.tag), ~WrongDevice(latest.board)
  PROVE  /\ Later(latest.tag, firmware.tag) /\ latest.board = Board
         /\ latest.tag \in tags /\ latest.tag \in Tags
<1>1. latest # NoAnswer /\ latest.tag \in Tags /\ latest.board \in Boards
      /\ firmware.tag \in Tags /\ latest.tag \in tags
  BY DEF CheckInv, CheckTypeOK, Installs, Answers, AnswerIsNoEarlier
<1>2. latest.board = Board
  BY BoardsAssumption DEF WrongDevice
<1>3. latest.tag.seg = firmware.tag.seg => Later(latest.tag, firmware.tag)
  BY <1>1 DEF CheckInv, AnswerIsNoEarlier, IsVersionNewer
<1>4. latest.tag.seg # firmware.tag.seg => Later(latest.tag, firmware.tag)
  BY DEF IsVersionNewer, Later
<1> QED
  BY <1>1, <1>2, <1>3, <1>4

\* The rest of the screen, the card and the power.
LEMMA ScreenStep ==
  ASSUME CheckInv,
         \/ Open \/ CheckFails \/ Confirm \/ Leave
         \/ Install \/ Restart \/ ToggleChannel \/ PowerCut
         \/ \E b \in Boards : MoveCard(b)
  PROVE  CheckInv'
<1> USE DEF serverVars
<1>1. CASE \/ Open \/ CheckFails \/ Confirm \/ Leave
           \/ Restart \/ PowerCut
  <2>1. /\ UNCHANGED <<serverVars, channel, file, firmware>>
        /\ latest' \in {latest, NoAnswer} /\ auto' \in BOOLEAN
        /\ state' \in ScreenStates \ {"UPDATE_IN_PROGRESS"}
    BY <1>1
    DEF Open, CheckFails, Confirm, Leave, Restart, PowerCut, ScreenStates, CheckInv,
        CheckTypeOK
  <2>2. CheckTypeOK'
    BY <2>1 DEF CheckInv, CheckTypeOK, Answers
  <2> QED
    BY <2>1, <2>2
    DEF CheckInv, FileRemembers, HeadsAreLatest, AnswerIsNoEarlier, RunsOwnBoard, Installs
<1>2. CASE Install
  <2>1. UNCHANGED <<serverVars, channel, file, latest>> /\ auto' = FALSE
        /\ state' \in {"FINISHED", "FAILED"}
    BY <1>2 DEF Install
  <2>2. CASE UNCHANGED firmware
    <3>1. CheckTypeOK'
      BY <2>1, <2>2 DEF CheckInv, CheckTypeOK, ScreenStates
    <3> QED
      BY <2>1, <2>2, <3>1
      DEF CheckInv, FileRemembers, HeadsAreLatest, AnswerIsNoEarlier, RunsOwnBoard,
          Installs
  <2>3. CASE /\ IsVersionNewer(latest.tag) /\ ~WrongDevice(latest.board)
             /\ firmware' = [tag |-> latest.tag, board |-> latest.board]
    <3>1. latest.board = Board /\ latest.tag \in tags /\ latest.tag \in Tags
      BY <1>2, <2>3, InstallIsLater DEF Install
    <3>2. CheckTypeOK'
      BY <2>1, <2>3, <3>1, BoardsAssumption DEF CheckInv, CheckTypeOK, ScreenStates
    <3>3. AnswerIsNoEarlier' /\ RunsOwnBoard' /\ Installs'
      BY <2>1, <2>3, <3>1 DEF AnswerIsNoEarlier, RunsOwnBoard, Installs
    <3> QED
      BY <2>1, <3>2, <3>3 DEF CheckInv, FileRemembers, HeadsAreLatest
  <2> QED
    BY <1>2, <2>2, <2>3 DEF Install
<1>3. CASE ToggleChannel
  <2>1. CheckTypeOK'
    BY <1>3 DEF ToggleChannel, CheckInv, CheckTypeOK, Channels
  <2> QED
    BY <1>3, <2>1
    DEF ToggleChannel, CheckInv, FileRemembers, HeadsAreLatest, AnswerIsNoEarlier,
        RunsOwnBoard, Installs
<1>4. CASE \E b \in Boards : MoveCard(b)
  <2>1. PICK b \in Boards : MoveCard(b)
    BY <1>4
  <2>2. file' \in Files /\ FileRemembers'
    BY <2>1, EntryIsHead DEF MoveCard, FileRemembers
  <2>3. CheckTypeOK'
    BY <2>1, <2>2 DEF MoveCard, CheckInv, CheckTypeOK
  <2> QED
    BY <2>1, <2>2, <2>3
    DEF MoveCard, CheckInv, HeadsAreLatest, AnswerIsNoEarlier, RunsOwnBoard, Installs
<1> QED
  BY <1>1, <1>2, <1>3, <1>4

\* Every step keeps the invariant.
LEMMA CheckNextInv == CheckInv /\ [CheckNext]_checkVars => CheckInv'
<1> SUFFICES ASSUME CheckInv, [CheckNext]_checkVars PROVE CheckInv'
  OBVIOUS
<1>1. CASE UNCHANGED checkVars
  BY <1>1
  DEF checkVars, serverVars, CheckInv, CheckTypeOK, FileRemembers, HeadsAreLatest,
      AnswerIsNoEarlier, RunsOwnBoard, Installs
<1> QED
  BY <1>1, ServerStep, AnswerStep, ScreenStep DEF CheckNext

\* OtaUpdater and its screen keep the inductive invariant, whatever is published, for any
\* boards of which no other one of this chip has images without a board tag.
THEOREM CheckInvariance == CheckSpec => []CheckInv
  BY CheckInitInv, CheckNextInv, PTL DEF CheckSpec

\* Every variable keeps its type, over torn writes and foreign cards, for any number of
\* boards, versions and candidates.
THEOREM CheckTypeCorrect == CheckSpec => []CheckTypeOK
<1>1. CheckInv => CheckTypeOK
  BY DEF CheckInv
<1> QED
  BY <1>1, CheckInvariance, PTL

\* The device runs firmware of its own board, though the file may name the asset of
\* another: installUpdate() compares chip and board tag (OtaUpdater.cpp:262).
THEOREM InstallsOwnBoard == CheckSpec => []RunsOwnBoard
<1>1. CheckInv => RunsOwnBoard
  BY DEF CheckInv
<1> QED
  BY <1>1, CheckInvariance, PTL

\* A check names the head of its channel, with a whole URL of this board's asset unless
\* the file is another board's (OtaUpdater.cpp:108).
THEOREM AnswersAreTrue == CheckSpec => CheckIsTrue
<1> DEFINE Truth ==
      /\ latest'.tag = list[channel].tag
      /\ latest'.whole
      /\ \/ latest'.board = Board /\ Board \in list[channel].assets
         \/ file # NoFile /\ file.board # Board
<1>1. ASSUME CheckInv, CheckNext, state = "CHECKING_FOR_UPDATE",
             latest' # latest, latest' # NoAnswer
      PROVE  Truth
  <2>1. CheckUnchanged \/ CheckReads
    BY <1>1
    DEF CheckNext, Publish, AddAsset, Open, CheckFails, Confirm, Leave, Install, Restart,
        ToggleChannel, PowerCut, MoveCard
  <2>2. CASE CheckUnchanged
    <3>1. /\ latest'.tag = file.tag /\ latest'.board = file.board
          /\ latest'.whole = (file.newlines >= 5)
          /\ file # NoFile /\ file.newlines + 1 >= 6 /\ file.etag = ETagNow
      BY <2>2 DEF CheckUnchanged, Judge, Answering, EnoughLines
    <3>2. file.newlines \in Nat
      BY <1>1, <3>1 DEF CheckInv, CheckTypeOK, Files
    <3>3. latest'.whole
      <4>1. (file.newlines >= 5) = TRUE
        BY <3>1, <3>2
      <4> QED
        BY <3>1, <4>1, Zenon
    <3>4. file.tag = list[channel].tag /\ file.board \in list[channel].assets
      BY <1>1, <3>1 DEF CheckInv, FileRemembers, ETagNow
    <3> QED
      BY <3>1, <3>3, <3>4
  <2>3. CASE CheckReads
    BY <1>1, <2>3 DEF CheckReads, Judge
  <2> QED
    BY <2>1, <2>2, <2>3
<1>2. CheckInv /\ [CheckNext]_checkVars
        => [state = "CHECKING_FOR_UPDATE" /\ latest' # latest /\ latest' # NoAnswer
              => Truth]_checkVars
  BY <1>1
<1> QED
  BY <1>2, CheckInvariance, PTL DEF CheckSpec, CheckIsTrue

\* The device never installs the firmware it has or an earlier one (OtaUpdater.h:53).
THEOREM InstallsLater == CheckSpec => NeverGoesBack
<1>1. ASSUME CheckInv, CheckNext, state' = "FINISHED", state # "FINISHED"
      PROVE  Later(firmware'.tag, firmware.tag)
  <2>1. Install
    BY <1>1
    DEF CheckNext, Publish, AddAsset, Open, CheckFails, CheckUnchanged, CheckReads, Judge,
        Confirm, Leave, Restart, ToggleChannel, PowerCut, MoveCard
  <2> QED
    BY <1>1, <2>1, InstallIsLater DEF Install
<1>2. CheckInv /\ [CheckNext]_checkVars
        => [state' = "FINISHED" /\ state # "FINISHED"
              => Later(firmware'.tag, firmware.tag)]_checkVars
  BY <1>1
<1> QED
  BY <1>2, CheckInvariance, PTL DEF CheckSpec, NeverGoesBack
=============================================================================
