------------------------- MODULE CrashReportProofs --------------------------
(***************************************************************************)
(* Proofs about CrashReport: each panic makes at most one report, a report *)
(* that is complete and can be read keeps the version of the firmware that *)
(* crashed unless the bootloader goes back to the former one, and the file *)
(* on the card is the slot of module ReportSlot.                           *)
(***************************************************************************)
EXTENDS CrashReport, TLAPS

\* The reset in progress, or the marker, may still be turned into a report.
Pending == marker \/ (reset = "panic" /\ phase # "up")

Owed == IF Pending THEN 1 ELSE 0

\* Reports written, and the one that may still come, are paid for by panics.
CountInv == written + Owed <= crashes /\ file.id <= written

\* The firmware that runs while a panic is unreported is the one that panicked,
\* unless the bootloader went back: an update has to wait for checkPanic().
CulpritInv ==
  /\ phase = "boot" /\ marker => IsRebootFromPanic
  /\ card => ~marker
  /\ Pending /\ ~rolled => culprit = image

\* A file has a number, and a complete one names the firmware that panicked.
FileInv ==
  /\ file # NoFile => file.id # 0
  /\ file.whole /\ ~file.rolled => file.version = file.of /\ file.of # 0

LabelInv == CulpritInv /\ FileInv /\ LabelSurvivesUpdate

\* What is about to be removed is with the server.
SentInv == sent => phase = "up" /\ file.id \in {r.id : r \in got}

IInv == TypeOK /\ CountInv /\ LabelInv /\ SentInv

-----------------------------------------------------------------------------

\* The invariant holds at first (the state a new device is in).
LEMMA InitInv == Init => IInv
  <1> SUFFICES ASSUME Init PROVE IInv
    OBVIOUS
  <1> USE BoundsAssumption DEF Init
  <1>1. TypeOK
    <2>1. file \in Files /\ image \in Images
      BY DEF Files, NoFile, Images
    <2>2. got \subseteq Reports
      OBVIOUS
    <2>3. crashes \in 0..MaxCrashes /\ written \in 0..MaxCrashes /\ culprit \in 0..MaxImage
      OBVIOUS
    <2>4. reset \in Resets
      BY DEF Resets
    <2> QED
      BY <2>1, <2>2, <2>3, <2>4 DEF TypeOK
  <1>2. CountInv
    BY DEF CountInv, Owed, Pending, NoFile
  <1>3. LabelInv
    BY DEF LabelInv, CulpritInv, Pending, FileInv, LabelSurvivesUpdate, NoFile
  <1>4. SentInv
    BY DEF SentInv
  <1> QED
    BY <1>1, <1>2, <1>3, <1>4 DEF IInv

\* What the bootloader starts is an image, and one on probation has a former one.
LEMMA StartsType ==
  ASSUME TypeOK, NEW before \in BOOLEAN, Starts(before)
  PROVE  image' \in Images /\ trial' \in BOOLEAN /\ (trial' => image' > 1)
  <1> USE BoundsAssumption
  <1>1. image \in 1..MaxImage /\ (trial => image > 1)
    BY DEF TypeOK, Images
  <1>2. image' \in IF trial THEN {image - 1, image} ELSE {image}
    BY DEF Starts
  <1>3. image' \in Images
    BY <1>1, <1>2 DEF Images
  <1>4. trial' \in BOOLEAN /\ (trial' => trial /\ image' = image)
    BY Zenon DEF Starts
  <1> QED
    BY <1>1, <1>3, <1>4

\* A reset of any kind preserves the invariant (Panic, Hang, Restart, Update,
\* PowerCut).
LEMMA ResetInv == IInv /\ Resetting => IInv'
  <1> SUFFICES ASSUME IInv, Resetting PROVE IInv'
    OBVIOUS
  <1> USE BoundsAssumption DEF IInv
  <1>0. /\ UNCHANGED <<file, written, known, got>>
        /\ phase' = "off" /\ card' = FALSE /\ screen' = FALSE /\ sent' = FALSE
    BY DEF Resetting, Panic, Hang, Restart, Update, PowerCut, Reset, cardVars, netVars
  <1>1. CASE Panic
    <2>1. /\ crashes < MaxCrashes /\ crashes' = crashes + 1 /\ culprit' = image
          /\ reset' \in {"panic", "watchdog"}
      BY <1>1 DEF Panic, Reset
    <2>2. marker' \in BOOLEAN
      BY <1>1, Zenon DEF Panic
    <2>3. Starts(FALSE)
      BY <1>1 DEF Panic
    <2>4. rolled' \in BOOLEAN /\ (~rolled' => image' = image)
      BY <2>3, Zenon DEF Starts
    <2>5. image' \in Images /\ trial' \in BOOLEAN /\ (trial' => image' > 1)
      BY <2>3, StartsType DEF TypeOK
    <2>a. crashes' \in 0..MaxCrashes /\ culprit' \in 0..MaxImage /\ reset' \in Resets
      BY <2>1 DEF TypeOK, Images, Resets
    <2>6. TypeOK'
      BY <1>0, <2>a, <2>2, <2>4, <2>5 DEF TypeOK
    <2>7. CountInv'
      BY <1>0, <2>1 DEF CountInv, Owed, TypeOK
    <2>8. CulpritInv'
      BY <1>0, <2>1, <2>4 DEF CulpritInv
    <2> QED
      BY <1>0, <2>6, <2>7, <2>8 DEF LabelInv, FileInv, LabelSurvivesUpdate, SentInv
  <1>2. CASE Hang \/ PowerCut
    <2>1. crashes' = crashes /\ culprit' = culprit /\ reset' \in {"watchdog", "power"}
      BY <1>2 DEF Hang, PowerCut, Reset
    <2>2. marker' \in BOOLEAN /\ (marker' => marker)
      <3>1. marker \in BOOLEAN
        BY DEF TypeOK
      <3>2. CASE Hang
        BY <3>1, <3>2 DEF Hang
      <3>3. CASE PowerCut
        BY <3>3 DEF PowerCut
      <3> QED
        BY <1>2, <3>2, <3>3
    <2>3. Starts(rolled)
      BY <1>2 DEF Hang, PowerCut
    <2>4. rolled' \in BOOLEAN /\ (~rolled' => ~rolled /\ image' = image)
      BY <2>3, Zenon DEF Starts
    <2>5. image' \in Images /\ trial' \in BOOLEAN /\ (trial' => image' > 1)
      BY <2>3, StartsType DEF TypeOK
    <2>6. TypeOK'
      BY <1>0, <2>1, <2>2, <2>4, <2>5 DEF TypeOK, Resets
    <2>7. Pending' => Pending
      BY <2>1, <2>2 DEF Pending
    <2>8. CountInv'
      BY <1>0, <2>1, <2>7 DEF CountInv, Owed, TypeOK
    <2>9. CulpritInv'
      BY <1>0, <2>1, <2>4, <2>7 DEF LabelInv, CulpritInv
    <2> QED
      BY <1>0, <2>6, <2>8, <2>9 DEF LabelInv, FileInv, LabelSurvivesUpdate, SentInv
  <1>3. CASE Restart
    <2>1. UNCHANGED <<image, trial, marker, crashes, culprit, rolled>> /\ reset' = "software"
          /\ phase # "off"
      BY <1>3 DEF Restart, Reset, flashVars
    <2>2. TypeOK'
      BY <1>0, <2>1 DEF TypeOK, Resets
    <2>3. Pending' => Pending
      BY <2>1 DEF Pending
    <2>4. CountInv'
      BY <1>0, <2>1, <2>3 DEF CountInv, Owed, TypeOK
    <2>5. CulpritInv'
      BY <1>0, <2>1, <2>3 DEF LabelInv, CulpritInv
    <2> QED
      BY <1>0, <2>2, <2>4, <2>5 DEF LabelInv, FileInv, LabelSurvivesUpdate, SentInv
  <1>4. CASE Update
    <2>1. UNCHANGED <<marker, crashes, culprit, rolled>> /\ reset' = "software"
          /\ card /\ image' = image + 1 /\ image' \in Images /\ trial' = TRUE
      BY <1>4 DEF Update, Reset
    <2>a. image' > 1 /\ reset' \in Resets
      BY <2>1 DEF TypeOK, Images, Resets
    <2>2. TypeOK'
      BY <1>0, <2>1, <2>a DEF TypeOK
    <2>3. ~Pending'
      BY <2>1 DEF Pending, LabelInv, CulpritInv
    <2>4. CountInv'
      BY <1>0, <2>1, <2>3 DEF CountInv, Owed, TypeOK
    <2>5. CulpritInv'
      BY <1>0, <2>1, <2>3 DEF LabelInv, CulpritInv
    <2> QED
      BY <1>0, <2>2, <2>4, <2>5 DEF LabelInv, FileInv, LabelSurvivesUpdate, SentInv
  <1> QED
    BY <1>1, <1>2, <1>3, <1>4 DEF Resetting

\* A boot preserves the invariant (Begin, NoCard, CheckPanic).
LEMMA BootInv == IInv /\ Booting => IInv'
  <1> SUFFICES ASSUME IInv, Booting PROVE IInv'
    OBVIOUS
  <1> USE BoundsAssumption DEF IInv
  <1>0. /\ UNCHANGED <<image, reset, crashes, culprit, rolled, sent, known, got>>
        /\ trial' \in {FALSE, trial}
    BY DEF Booting, Begin, NoCard, CheckPanic, flashVars, rtcVars, uiVars, netVars, cardVars
  <1>1. CASE Begin \/ NoCard
    <2>0. UNCHANGED <<file, written>> /\ (marker' => marker)
      <3>1. CASE Begin
        <4>1. UNCHANGED <<file, written>>
          BY <3>1 DEF Begin, cardVars
        <4>2. marker' => marker
          BY <3>1, Zenon DEF Begin
        <4> QED
          BY <4>1, <4>2
      <3>2. CASE NoCard
        BY <3>2 DEF NoCard, rtcVars, cardVars
      <3> QED
        BY <1>1, <3>1, <3>2
    <2>1. marker' \in BOOLEAN
      <3>1. marker \in BOOLEAN
        BY DEF TypeOK
      <3> QED
        BY <1>1, <3>1, Zenon DEF Begin, NoCard, rtcVars
    <2>2. phase' \in {"boot", "up"} /\ phase # "up" /\ UNCHANGED <<card, screen>>
      BY <1>1 DEF Begin, NoCard, uiVars
    <2>3. TypeOK'
      <3>1. trial' = FALSE
        BY <1>1, <2>2 DEF Begin, NoCard, TypeOK, flashVars
      <3> QED
        BY <1>0, <2>0, <2>1, <2>2, <3>1 DEF TypeOK
    <2>c. Pending' => Pending
      BY <1>0, <2>0, <2>2 DEF Pending
    <2>4. CountInv'
      BY <1>0, <2>0, <2>c DEF CountInv, Owed, TypeOK
    <2>5. CulpritInv'
      <3>1. phase' = "boot" /\ marker' => IsRebootFromPanic'
        <4>1. phase' = "boot" => Begin
          BY <1>1 DEF Begin, NoCard
        <4>2. phase' = "boot" /\ marker' => IsRebootFromPanic
          BY <4>1, Zenon DEF Begin
        <4> QED
          BY <1>0, <2>0, <4>2 DEF IsRebootFromPanic
      <3> QED
        BY <1>0, <2>0, <2>2, <2>c, <3>1 DEF CulpritInv, LabelInv
    <2>6. LabelInv' /\ SentInv'
      BY <1>0, <2>0, <2>2, <2>5 DEF LabelInv, FileInv, LabelSurvivesUpdate, SentInv
    <2> QED
      BY <2>3, <2>4, <2>6 DEF IInv
  <1>2. CASE CheckPanic /\ ~IsRebootFromPanic
    <2>1. /\ UNCHANGED <<file, written, marker, trial>> /\ phase = "boot"
          /\ phase' = "up" /\ card' = TRUE /\ screen' \in BOOLEAN
      BY <1>2 DEF CheckPanic, cardVars, flashVars, IsRebootFromPanic
    <2>2. TypeOK'
      BY <1>0, <2>1 DEF TypeOK
    <2>3. ~marker
      BY <1>2, <2>1 DEF LabelInv, CulpritInv
    <2>a. ~Pending'
      BY <2>1, <2>3 DEF Pending
    <2>b. CountInv'
      BY <1>0, <2>1, <2>a DEF CountInv, Owed, TypeOK
    <2>c. CulpritInv'
      BY <2>1, <2>3, <2>a DEF CulpritInv
    <2>4. LabelInv' /\ SentInv'
      BY <1>0, <2>1, <2>c DEF LabelInv, FileInv, LabelSurvivesUpdate, SentInv
    <2> QED
      BY <2>2, <2>b, <2>4 DEF IInv
  <1>3. CASE CheckPanic /\ IsRebootFromPanic
    <2>1. /\ phase = "boot" /\ phase' = "up" /\ card' = TRUE /\ screen' = TRUE
          /\ marker' = FALSE /\ trial' = trial
      BY <1>3, Zenon DEF CheckPanic, ConsumedMarker, flashVars
    <2>2. Pending /\ ~Pending' /\ Owed = 1 /\ Owed' = 0 /\ written + 1 \in 1..MaxCrashes
      BY <1>3, <2>1, <1>0 DEF Pending, Owed, IsRebootFromPanic, CountInv, TypeOK
    <2>0. CulpritInv'
      BY <2>1, <2>2 DEF CulpritInv
    <2>3. file' \in AfterWrite(written + 1)
           /\ written' = IF file' = file THEN written ELSE written + 1
      BY <1>3 DEF CheckPanic
    <2>4. SentInv'
      BY <1>0, <2>1 DEF SentInv, TypeOK
    <2>5. CASE file' = file
      <3>1. written' = written
        BY <2>3, <2>5
      <3>2. TypeOK'
        BY <1>0, <2>1, <2>5, <3>1 DEF TypeOK
      <3>3. CountInv'
        BY <1>0, <2>2, <2>5, <3>1 DEF CountInv, TypeOK
      <3>4. LabelInv'
        BY <1>0, <2>0, <2>5 DEF LabelInv, FileInv, LabelSurvivesUpdate
      <3> QED
        BY <2>4, <3>2, <3>3, <3>4 DEF IInv
    <2>6. CASE file' # file
      <3>1. written' = written + 1
        BY <2>3, <2>6
      <3>a. PICK versions \in {{image}, {0, image}}, whole \in {{TRUE}, {FALSE}} :
              /\ whole = {TRUE} => versions = {image}
              /\ file' \in [id : {written + 1}, version : versions, of : {culprit},
                            rolled : {rolled}, whole : whole]
        BY <2>3, <2>6, Zenon DEF AfterWrite
      <3>b. image \in 1..MaxImage /\ culprit \in 0..MaxImage /\ rolled \in BOOLEAN
        BY DEF TypeOK, Images
      <3>2. /\ file' \in Files /\ file'.id = written + 1
            /\ file'.of = culprit /\ file'.rolled = rolled
            /\ (file'.whole => file'.version = image)
        <4>1. image \in 0..MaxImage /\ 0 \in 0..MaxImage /\ written + 1 \in 0..MaxCrashes
          BY <2>2, <3>b
        <4>2. /\ file'.id = written + 1 /\ file'.version \in 0..MaxImage
              /\ file'.of = culprit /\ file'.rolled = rolled /\ file'.whole \in BOOLEAN
              /\ (file'.whole => file'.version = image)
          BY <3>a, <4>1
        <4>3. file' = [id |-> file'.id, version |-> file'.version, of |-> file'.of,
                       rolled |-> file'.rolled, whole |-> file'.whole]
          BY <3>a
        <4> QED
          BY <3>b, <4>1, <4>2, <4>3 DEF Files
      <3>3. TypeOK'
        <4>1. written' \in 0..MaxCrashes
          BY <2>2, <3>1
        <4> QED
          BY <1>0, <2>1, <3>2, <4>1 DEF TypeOK
      <3>4. CountInv'
        BY <1>0, <2>2, <3>1, <3>2 DEF CountInv, TypeOK
      <3>5. LabelInv'
        <4>1. ~rolled => culprit = image
          BY <2>2 DEF LabelInv, CulpritInv
        <4>2. image # 0 /\ written + 1 # 0
          BY <2>2, <3>b
        <4>3. FileInv'
          BY <3>2, <4>1, <4>2 DEF FileInv
        <4> QED
          BY <1>0, <2>0, <4>3 DEF LabelInv, LabelSurvivesUpdate
      <3> QED
        BY <2>4, <3>3, <3>4, <3>5 DEF IInv
    <2> QED
      BY <2>5, <2>6
  <1> QED
    BY <1>1, <1>2, <1>3 DEF Booting

\* An upload preserves the invariant (Flush, SendFromScreen).
LEMMA SendInv == IInv /\ Sending => IInv'
  <1> SUFFICES ASSUME IInv, NEW net \in Networks, Flush(net) \/ SendFromScreen(net)
               PROVE  IInv'
    BY DEF Sending
  <1> USE BoundsAssumption DEF IInv
  <1>0. UNCHANGED <<image, trial, phase, reset, marker, crashes, culprit, rolled, written, file,
                    card, screen>>
    BY DEF Flush, SendFromScreen, flashVars, rtcVars, cardVars, uiVars
  <1>1. /\ phase = "up" /\ ~sent /\ file # NoFile
        /\ known' = Registered(net)
        /\ sent' = FALSE \/ (sent' = TRUE /\ Uploads(net))
    BY DEF Flush, SendFromScreen, Upload, uiVars, MayRemove, Uploads, Networks, Registered, TypeOK
  <1>2. PICK read \in BOOLEAN : got' = IF Uploads(net) THEN got \cup {Report(read)} ELSE got
    BY Zenon DEF Flush, SendFromScreen, Upload
  <1> DEFINE rec == Report(read)
  <1>3. file.id \in 1..MaxCrashes
    BY <1>1 DEF LabelInv, FileInv, TypeOK, Files
  <1>a. Label(read) \in Images /\ file.of \in 0..MaxImage
    BY DEF Label, TypeOK, Files, Images
  <1>b. (file.whole /\ read /\ ~file.rolled) \in BOOLEAN
    BY Zenon
  <1>4. rec \in Reports
    BY <1>3, <1>a, <1>b DEF Report, Reports
  <1>5. TypeOK'
    <2>1. got' \subseteq Reports
      BY <1>2, <1>4 DEF TypeOK
    <2>2. known' \in BOOLEAN
      BY <1>1 DEF Registered, TypeOK, Networks
    <2>3. sent' \in BOOLEAN
      BY <1>1
    <2> QED
      BY <1>0, <2>1, <2>2, <2>3 DEF TypeOK
  <1>6. CountInv'
    BY <1>0 DEF CountInv, Owed, Pending
  <1>7. LabelInv'
    <2>1. rec.label = Label(read) /\ rec.of = file.of
          /\ (rec.sound => file.whole /\ read /\ ~file.rolled)
      BY Zenon DEF Report
    <2>2. rec.sound => rec.label = rec.of
      BY <2>1 DEF LabelInv, FileInv, Label
    <2>3. LabelSurvivesUpdate'
      BY <1>2, <2>2 DEF LabelInv, LabelSurvivesUpdate
    <2> QED
      BY <1>0, <2>3 DEF LabelInv, CulpritInv, Pending, IsRebootFromPanic, FileInv
  <1>8. SentInv'
    <2>1. Uploads(net) => file.id \in {r.id : r \in got'}
      <3>1. Uploads(net) => rec \in got'
        BY <1>2
      <3>2. rec.id = file.id
        BY DEF Report
      <3> QED
        BY <3>1, <3>2
    <2> QED
      BY <1>0, <1>1, <2>1 DEF SentInv
  <1> QED
    BY <1>5, <1>6, <1>7, <1>8 DEF IInv

\* The remaining steps preserve the invariant.
LEMMA OtherInv == IInv /\ (Remove \/ LeaveScreen \/ Forget \/ UNCHANGED vars) => IInv'
  <1> SUFFICES ASSUME IInv, Remove \/ LeaveScreen \/ Forget \/ UNCHANGED vars PROVE IInv'
    OBVIOUS
  <1> USE BoundsAssumption DEF IInv
  <1>1. CASE Remove
    <2>0. UNCHANGED <<image, trial, phase, reset, marker, crashes, culprit, rolled, written, card, screen, known, got>>
          /\ file' \in {file, NoFile} /\ sent' = FALSE
      BY <1>1 DEF Remove, flashVars, rtcVars, netVars
    <2>1. TypeOK'
      <3>1. NoFile \in Files
        BY DEF Files, NoFile
      <3> QED
        BY <2>0, <3>1 DEF TypeOK
    <2>2. CountInv'
      BY <2>0 DEF CountInv, Owed, Pending, NoFile, TypeOK
    <2>3. LabelInv' /\ SentInv'
      BY <2>0 DEF LabelInv, CulpritInv, Pending, IsRebootFromPanic, FileInv, LabelSurvivesUpdate,
                  SentInv, NoFile
    <2> QED
      BY <2>1, <2>2, <2>3 DEF IInv
  <1>2. CASE LeaveScreen \/ Forget \/ UNCHANGED vars
    <2>0. UNCHANGED <<image, trial, phase, reset, marker, crashes, culprit, rolled, written, card, file, sent, got>>
          /\ screen' \in BOOLEAN /\ known' \in BOOLEAN
      BY <1>2 DEF LeaveScreen, Forget, vars, flashVars, rtcVars, cardVars, uiVars, netVars, TypeOK
    <2>1. TypeOK'
      BY <2>0 DEF TypeOK
    <2>2. CountInv'
      BY <2>0 DEF CountInv, Owed, Pending
    <2>3. LabelInv' /\ SentInv'
      BY <2>0 DEF LabelInv, CulpritInv, Pending, IsRebootFromPanic, FileInv, LabelSurvivesUpdate,
                  SentInv
    <2> QED
      BY <2>1, <2>2, <2>3 DEF IInv
  <1> QED
    BY <1>1, <1>2

\* Every step preserves the invariant.
LEMMA StepInv == IInv /\ [Next]_vars => IInv'
  BY ResetInv, BootInv, SendInv, OtherInv DEF Next

\* The invariant holds in every state, for every number of panics and updates.
THEOREM Invariance == Spec => []IInv
  BY InitInv, StepInv, PTL DEF Spec

\* Type correctness of the model of the crash reports.
THEOREM TypeCorrect == Spec => []TypeOK
  BY Invariance, PTL DEF IInv

\* A panic is reported at most once (HalSystem.cpp:122-126, 189-198).
THEOREM ReportedOnce == Spec => []NoStaleReport
  <1>1. IInv => NoStaleReport
    BY DEF IInv, CountInv, Owed, NoStaleReport, TypeOK
  <1> QED
    BY Invariance, <1>1, PTL

\* A complete report whose version can be read is delivered under the version that
\* crashed, unless the bootloader went back after the panic
\* (FouladDeviceTracking.cpp:757-762).
THEOREM LabelKept == Spec => []LabelSurvivesUpdate
  <1>1. IInv => LabelSurvivesUpdate
    BY DEF IInv, LabelInv
  <1> QED
    BY Invariance, <1>1, PTL

-----------------------------------------------------------------------------
(* Refinement.                                                             *)

\* Every step is a step of the slot or leaves it alone.
LEMMA StepSimulation ==
  IInv /\ [Next]_vars =>
    [Queue!Put \/ Queue!Deliver \/ Queue!Empty]_<<file.id, {r.id : r \in got}>>
  <1> SUFFICES ASSUME IInv, [Next]_vars
               PROVE  [Queue!Put \/ Queue!Deliver \/ Queue!Empty]_<<file.id, {r.id : r \in got}>>
    OBVIOUS
  <1> USE BoundsAssumption DEF IInv
  <1>1. CASE CheckPanic /\ IsRebootFromPanic /\ file' # file
    <2>1. file'.id = written + 1 /\ got' = got
      BY <1>1 DEF CheckPanic, AfterWrite, netVars
    <2>2. file.id < written + 1 /\ file.id \in Nat /\ written \in Nat
      BY DEF CountInv, TypeOK, Files
    <2>3. Queue!Put
      BY <2>1, <2>2 DEF Queue!Put
    <2> QED
      BY <2>3
  <1>2. CASE Sending
    <2>1. PICK net \in Networks : Flush(net) \/ SendFromScreen(net)
      BY <1>2 DEF Sending
    <2>2. UNCHANGED file /\ file # NoFile
      BY <2>1 DEF Flush, SendFromScreen, Upload, cardVars
    <2>3. file.id # 0
      BY <2>2 DEF LabelInv, FileInv
    <2>4. CASE Uploads(net)
      <3>a. PICK read \in BOOLEAN : got' = got \cup {Report(read)}
        BY <2>1, <2>4, Zenon DEF Flush, SendFromScreen, Upload
      <3> DEFINE rec == Report(read)
      <3>b. rec.id = file.id
        BY DEF Report
      <3>c. got' = got \cup {rec}
        BY <3>a
      <3> HIDE DEF rec
      <3>1. {r.id : r \in got'} = {r.id : r \in got} \cup {file.id}
        BY <3>b, <3>c
      <3> QED
        BY <2>2, <2>3, <3>1 DEF Queue!Deliver
    <2>5. CASE ~Uploads(net)
      BY <2>1, <2>2, <2>5 DEF Flush, SendFromScreen, Upload
    <2> QED
      BY <2>4, <2>5
  <1>3. CASE Remove
    <2>1. got' = got /\ file.id \in {r.id : r \in got} /\ file' \in {file, NoFile}
      BY <1>3 DEF Remove, SentInv, netVars
    <2> QED
      BY <2>1 DEF Queue!Empty, NoFile
  <1>4. CASE UNCHANGED <<file, got>>
    BY <1>4
  <1> QED
    BY <1>1, <1>2, <1>3, <1>4 DEF Next, Resetting, Booting, Panic, Hang, Restart, Update, PowerCut, Reset,
       Begin, NoCard, CheckPanic, LeaveScreen, Forget, vars, cardVars, netVars

\* The report file is a slot that loses a report only to a newer one and is
\* emptied only of what the server has (FouladDeviceTracking.cpp:798-801).
THEOREM Implements == Spec => ImplementsSlot
  <1>1. Init => Queue!Init
    BY DEF Init, Queue!Init, NoFile
  <1> QED
    BY <1>1, Invariance, StepSimulation, PTL DEF Spec, ImplementsSlot, Queue!Spec
=============================================================================
