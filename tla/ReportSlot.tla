----------------------------- MODULE ReportSlot -----------------------------
(***************************************************************************)
(* What the queue of one crash report promises: a report waits in the      *)
(* slot, a newer one may take its place, and the slot is emptied only of a *)
(* report the server already has.  CrashReport shows that the file on the  *)
(* card, with its failed writes, failed removals, power cuts and uploads   *)
(* by two screens, is such a slot.                                         *)
(***************************************************************************)
EXTENDS Naturals

VARIABLES
  slot,   \* number of the report that waits, 0 when none does
  got     \* numbers of the reports the server has

Init == slot = 0 /\ got = {}

\* Reports are numbered as they come; a waiting one is replaced.
Put == slot' \in Nat \ {0} /\ slot' > slot /\ UNCHANGED got

Deliver == slot # 0 /\ got' = got \cup {slot} /\ UNCHANGED slot

Empty == slot \in got /\ slot' = 0 /\ UNCHANGED got

Spec == Init /\ [][Put \/ Deliver \/ Empty]_<<slot, got>>
=============================================================================
