--------------------------- MODULE BootFlowProofs ---------------------------
(***************************************************************************)
(* Proofs about BootFlow for every set of books and of firmware digests.   *)
(* IInv is the inductive invariant: what memory, card, frame file and RTC  *)
(* marker may hold in each state of the device, given what the histories   *)
(* say of the sleeps, resumes and choices that led there.  One lemma per   *)
(* conjunct shows that every step keeps it.                                *)
(***************************************************************************)
EXTENDS BootFlow, TLAPS

\* Up, the device has consumed the marker of the restart that brought it up, and looked
\* at what the last run ended with.
Control ==
  /\ pc \in {"off", "present", "route", "opening", "run", "committed", "exited"}
  /\ end \in Ends \cup {"none"}
  /\ rtc \in Targets \cup {"none"}
  /\ pc # "off" => rtc = "none" /\ end = "none"
  /\ pc = "off" => end # "none"

Flags == touch \in BOOLEAN /\ card \in BOOLEAN /\ wifi \in BOOLEAN
         /\ trial \in BOOLEAN /\ armed \in BOOLEAN

Locals == boot \in [after : Ends, resume : {"Silent", "SplashlessWake", "Splash"},
                    target : Targets \cup {"none"}, panic : BOOLEAN,
                    recovery : BOOLEAN, back : BOOLEAN]

Stored == mem \in AppState /\ file \in AppState

\* A book is named where one is opened, and the reader's book is APP_STATE's; the
\* rollback screen is there because of an image.
Screened ==
  /\ screen \in Screens /\ book \in Book \cup {NoBook} /\ slept \in Book \cup {NoBook}
  /\ pc = "opening" \/ (pc = "run" /\ screen = "reader") => book \in Book
  /\ pc = "run" /\ screen = "reader" => mem.path = book
  /\ pc = "run" /\ screen = "gate" => invalid \in Digest

\* The frame is what the last sleep made of it.
FrameOnRecord ==
  /\ frame \in {"none", "last", "older"} /\ framed \in {"failed", "saved", "removed"}
  /\ framed = "saved" => frame = "last"
  /\ framed = "removed" => frame = "none"

\* Both copies hold digests that were consented to.
ConsentKept ==
  /\ invalid \in Digest \cup {NoDigest} /\ consented \subseteq Digest
  /\ {mem.acked, file.acked} \subseteq consented \cup {NoDigest}
  /\ UpdatesNeedConsent

\* Both copies keep setup() from another resume while one is on trial, and the reader
\* that would reset the count still holds it.
Steady(s) == s.loads = 1 \/ ~s.fromReader
TrialOnRecord ==
  trial =>
    /\ Steady(mem) /\ Steady(file)
    /\ pc = "opening" \/ (pc = "run" /\ screen = "reader") => mem.loads = 1

\* The book that was slept on is in the copy that the next boot will look at.
Holds(s, b) == s.path = b /\ s.fromReader /\ s.loads = 0
SleptOnRecord ==
  slept # NoBook =>
    /\ pc \in {"off", "exited"} => Holds(file, slept)
    /\ pc \in {"present", "route"} => Holds(mem, slept)
    /\ pc = "committed" => screen = "reader" /\ mem.path = slept /\ mem.fromReader
    /\ pc \notin {"run", "opening"}

\* Without an unused sleep both copies ask for the splash.
ArmedOnRecord == ~armed => mem.splash /\ file.splash

IInv ==
  /\ Control /\ Flags /\ Locals /\ Stored /\ Screened /\ FrameOnRecord
  /\ ConsentKept /\ TrialOnRecord /\ SleptOnRecord /\ ArmedOnRecord

-----------------------------------------------------------------------------
USE BootAssumption
USE DEF kept, ui, history, Save, ExitsReader, EntersScreen, UsesRadio, Down, NoLocals,
        Setup, InReader, GoesToSleep, GoesDown,
        BootRejected, Boots, BootsWithoutCard, Presents, RoutesToRecovery,
        RoutesToCrashReport, RoutesToUpdate, RoutesToApp, RoutesSilentlyHome,
        RoutesToReader, RoutesHome,
        EntersReader, FailsToOpen, OpensBook, LeavesReader, OpensScreen, Acknowledges,
        SleepExitsReader, SleepExitsScreen, SleepExitsNothing, FallsAsleep,
        RestartsSilently, GoesOn, ReturnsToReader, InstallsFirmware, Crashes, PowerCut,
        PlainReset

\* A device out of the box.
LEMMA InitIInv == Init => IInv
<1> SUFFICES ASSUME Init PROVE IInv
  OBVIOUS
<1> USE DEF Init
<1>1. Control /\ Screened /\ FrameOnRecord
  BY DEF Control, Ends, Targets, Screened, Screens, FrameOnRecord
<1>2. Flags
  BY DEF Flags
<1>3. Locals
  BY DEF Locals, Ends
<1>4. Stored
  BY DEF Stored, AppState, Defaults
<1>5. ConsentKept /\ TrialOnRecord /\ SleptOnRecord /\ ArmedOnRecord
  BY DEF ConsentKept, UpdatesNeedConsent, TrialOnRecord, SleptOnRecord, ArmedOnRecord, Defaults
<1> QED BY <1>1, <1>2, <1>3, <1>4, <1>5 DEF IInv

\* The invariant contains the type invariant.
LEMMA IInvType == IInv => TypeOK
BY DEF IInv, TypeOK, Control, Flags, Locals, Stored, Screened, FrameOnRecord, ConsentKept

\* A save leaves the new state, the old file, or one that loads as the defaults.
LEMMA WritesOutcome ==
  ASSUME NEW s, Writes(s)
  PROVE  file' \in {s, file, Defaults}
BY DEF Writes

\* All steps but a restart with a choice of book leave on the card what is in memory,
\* what was there, or the defaults.
LEMMA FileStep ==
  ASSUME Setup \/ InReader \/ GoesToSleep \/ GoesOn
  PROVE  file' \in {mem', file, Defaults}
<1>1. CASE Presents \/ Resumes \/ EntersReader \/ FailsToOpen \/ LeavesReader
           \/ Acknowledges \/ SleepSaves \/ SleepExitsReader
  BY <1>1, WritesOutcome DEF Resumes, SleepSaves
<1>2. CASE GoesOn
  BY <1>2, WritesOutcome DEF SavesChoice
<1> QED BY <1>1, <1>2

-----------------------------------------------------------------------------
(* Types.                                                                  *)

\* pc, the end of the last run and the marker; every way up consumes the last two.
LEMMA ControlStep == ASSUME IInv, Next PROVE Control'
<1> USE DEF IInv, Control, Ends, Targets
<1>1. CASE Setup
  BY <1>1 DEF Resumes
<1>2. CASE InReader
  BY <1>2
<1>3. CASE GoesToSleep
  BY <1>3 DEF SleepSaves
<1>4. CASE GoesDown
  BY <1>4
<1> QED BY <1>1, <1>2, <1>3, <1>4 DEF Next

\* The booleans.
LEMMA FlagsStep == ASSUME IInv, Next PROVE Flags'
<1> USE DEF IInv, Flags
<1>1. CASE Setup
  BY <1>1 DEF Resumes
<1>2. CASE InReader
  BY <1>2
<1>3. CASE GoesToSleep
  BY <1>3 DEF SleepSaves
<1>4. CASE GoesDown
  BY <1>4
<1> QED BY <1>1, <1>2, <1>3, <1>4 DEF Next

\* What setup() keeps of the boot is set by Boots and dropped by every other step.
LEMMA LocalsStep == ASSUME IInv, Next PROVE Locals'
<1>1. CASE Boots
  <2>1. PICK recovery \in BOOLEAN, back \in BOOLEAN :
          boot' = [after |-> end,
                   resume |-> IF rtc # "none" THEN "Silent"
                             ELSE IF end \in {"sleep", "cut"} /\ ~file.splash
                                   THEN "SplashlessWake" ELSE "Splash",
                   target |-> rtc, panic |-> end = "crash",
                   recovery |-> recovery, back |-> back]
    BY <1>1
  <2>2. end \in Ends /\ rtc \in Targets \cup {"none"}
    BY <1>1 DEF IInv, Control
  <2> QED BY <2>1, <2>2 DEF Locals
<1>2. CASE ~Boots
  <2>1. boot' \in {boot, NoLocals}
    <3>1. CASE Setup
      BY <1>2, <3>1 DEF Resumes
    <3>2. CASE InReader
      BY <3>2
    <3>3. CASE GoesToSleep
      BY <3>3 DEF SleepSaves
    <3>4. CASE GoesDown
      BY <3>4
    <3> QED BY <3>1, <3>2, <3>3, <3>4 DEF Next
  <2>2. Locals /\ NoLocals \in [after : Ends, resume : {"Silent", "SplashlessWake", "Splash"},
                                target : Targets \cup {"none"}, panic : BOOLEAN,
                                recovery : BOOLEAN, back : BOOLEAN]
    BY DEF IInv, Ends, Targets
  <2> HIDE DEF NoLocals
  <2> QED BY <2>1, <2>2 DEF Locals
<1> QED BY <1>1, <1>2

\* Every update of a state is a state again.
LEMMA Updates ==
  ASSUME NEW s \in AppState, NEW b \in Book \cup {NoBook}, NEW f \in BOOLEAN,
         NEW d \in Digest \cup {NoDigest}
  PROVE  /\ [s EXCEPT !.splash = TRUE] \in AppState
         /\ [s EXCEPT !.path = b] \in AppState
         /\ [s EXCEPT !.path = NoBook, !.loads = 1] \in AppState
         /\ [s EXCEPT !.loads = 0] \in AppState
         /\ [s EXCEPT !.acked = d] \in AppState
         /\ [s EXCEPT !.fromReader = f, !.splash = FALSE] \in AppState
<1>1. [s EXCEPT !.splash = TRUE] \in AppState
  BY DEF AppState
<1>2. [s EXCEPT !.path = b] \in AppState
  BY DEF AppState
<1>3. [s EXCEPT !.path = NoBook, !.loads = 1] \in AppState
  <2> DEFINE t == [s EXCEPT !.path = NoBook]
  <2>1. t \in AppState
    BY DEF AppState
  <2> HIDE DEF t
  <2>2. [t EXCEPT !.loads = 1] \in AppState
    BY <2>1 DEF AppState
  <2> QED BY <2>2 DEF t
<1>4. [s EXCEPT !.loads = 0] \in AppState
  BY DEF AppState
<1>5. [s EXCEPT !.acked = d] \in AppState
  BY DEF AppState
<1>6. [s EXCEPT !.fromReader = f, !.splash = FALSE] \in AppState
  BY DEF AppState
<1> QED BY <1>1, <1>2, <1>3, <1>4, <1>5, <1>6

\* Memory and card hold states of CrossPointState.
LEMMA StoredStep == ASSUME IInv, Next PROVE Stored'
<1>0. Defaults \in AppState /\ mem \in AppState /\ file \in AppState
  BY DEF Defaults, AppState, IInv, Stored
<1>1. mem' \in AppState
  <2>1. CASE Setup
    BY <2>1, <1>0, Updates DEF Resumes
  <2>2. CASE InReader
    <3>1. CASE EntersReader
      BY <3>1, <1>0, Updates DEF IInv, Screened
    <3>2. CASE FailsToOpen \/ LeavesReader
      BY <3>2, <1>0, Updates
    <3>3. CASE OpensBook \/ OpensScreen
      BY <3>3, <1>0
    <3>4. CASE Acknowledges
      BY <3>4, <1>0, Updates DEF IInv, ConsentKept
    <3> QED BY <2>2, <3>1, <3>2, <3>3, <3>4
  <2>3. CASE GoesToSleep
    BY <2>3, <1>0, Updates DEF SleepSaves
  <2>4. CASE GoesDown
    BY <2>4, <1>0, Updates
  <2> QED BY <2>1, <2>2, <2>3, <2>4 DEF Next
<1>2. CASE Setup \/ InReader \/ GoesToSleep \/ GoesOn
  BY <1>0, <1>1, <1>2, FileStep DEF Stored
<1>3. CASE RestartsSilently
  <2>1. \E b \in Book \cup {NoBook} : file' \in {[mem EXCEPT !.path = b], file, Defaults}
    BY <1>3, WritesOutcome DEF SavesChoice
  <2> QED BY <1>0, <1>1, <2>1, Updates DEF Stored
<1>4. CASE ReturnsToReader \/ InstallsFirmware \/ Crashes \/ PowerCut \/ PlainReset
  BY <1>0, <1>1, <1>4 DEF Stored
<1> QED BY <1>2, <1>3, <1>4 DEF Next

\* The reader shows the book that APP_STATE names.
LEMMA ScreenedStep == ASSUME IInv, Next PROVE Screened'
<1> USE DEF IInv, Screened, Screens, Stored, AppState
<1>1. CASE Setup
  BY <1>1 DEF MayResume, planOtaRollbackRecovery, ConsentKept, Resumes
<1>2. CASE InReader
  BY <1>2
<1>3. CASE GoesToSleep
  BY <1>3 DEF SleepSaves
<1>4. CASE GoesDown
  BY <1>4
<1> QED BY <1>1, <1>2, <1>3, <1>4 DEF Next

-----------------------------------------------------------------------------
(* What is on record.                                                      *)

\* The frame file and what the last sleep did to it.
LEMMA FrameStep == ASSUME IInv, Next PROVE FrameOnRecord'
<1> USE DEF IInv, FrameOnRecord
<1>1. CASE Setup
  BY <1>1 DEF Resumes
<1>2. CASE InReader
  BY <1>2
<1>3. CASE GoesToSleep
  BY <1>3 DEF SleepSaves
<1>4. CASE GoesDown
  BY <1>4
<1> QED BY <1>1, <1>2, <1>3, <1>4 DEF Next

-----------------------------------------------------------------------------
(* What saves change in APP_STATE.                                         *)

HIDE DEF Presents, EntersReader, FailsToOpen, LeavesReader, Acknowledges,
         SleepExitsReader, RestartsSilently, GoesOn

Saves ==
  \/ Presents \/ Resumes \/ EntersReader \/ FailsToOpen \/ LeavesReader \/ Acknowledges
  \/ SleepSaves \/ SleepExitsReader \/ RestartsSilently \/ GoesOn

\* Without a save memory takes over what is there.
LEMMA OtherStep ==
  ASSUME Next, ~Saves
  PROVE  mem' \in {mem, file, Defaults} /\ file' = file
BY DEF Saves, Next

\* What a restart with a choice of book leaves on the card.
LEMMA RestartSaves ==
  ASSUME Stored, RestartsSilently
  PROVE  /\ mem' = Defaults /\ pc' = "off" /\ UNCHANGED <<trial, armed, consented, invalid>>
         /\ \/ file' \in {file, Defaults}
            \/ file'.acked = mem.acked /\ file'.splash = mem.splash
               /\ file'.loads = mem.loads /\ file'.fromReader = mem.fromReader
<1>1. PICK t \in Targets, b \in Book \cup {NoBook} : SavesChoice(t, b)
  BY DEF RestartsSilently
<1>2. file' \in {[mem EXCEPT !.path = b], file, Defaults}
  BY <1>1, WritesOutcome DEF SavesChoice
<1>3. CASE file' = [mem EXCEPT !.path = b]
  BY <1>3 DEF RestartsSilently, Stored, AppState
<1> QED BY <1>2, <1>3 DEF RestartsSilently

\* What was acknowledged changes with the acknowledgement only.
LEMMA AckedStep ==
  ASSUME Stored, Next, ~Acknowledges
  PROVE  {mem'.acked, file'.acked} \subseteq {mem.acked, file.acked, NoDigest}
<1>0. Defaults.acked = NoDigest
  BY DEF Defaults
<1>1. CASE ~Saves
  BY <1>0, <1>1, OtherStep
<1>2. CASE RestartsSilently
  BY <1>0, <1>2, RestartSaves
<1>3. CASE Presents \/ Resumes \/ EntersReader \/ FailsToOpen \/ LeavesReader
           \/ SleepSaves \/ SleepExitsReader \/ GoesOn
  <2>1. mem'.acked = mem.acked
    <3>1. CASE Presents
      BY <3>1 DEF Presents, Stored, AppState
    <3>2. CASE Resumes
      BY <3>2 DEF Resumes, Stored, AppState
    <3>3. CASE EntersReader
      BY <3>3 DEF EntersReader, Stored, AppState
    <3>4. CASE FailsToOpen \/ LeavesReader \/ SleepExitsReader
      BY <3>4 DEF FailsToOpen, LeavesReader, SleepExitsReader, Stored, AppState
    <3>5. CASE SleepSaves
      <4>1. mem' = [mem EXCEPT !.fromReader = screen = "reader", !.splash = FALSE]
        BY <3>5 DEF SleepSaves
      <4> QED BY <4>1 DEF Stored, AppState
    <3>6. CASE GoesOn
      BY <3>6 DEF GoesOn, Stored, AppState
    <3> QED BY <1>3, <3>1, <3>2, <3>3, <3>4, <3>5, <3>6
  <2>2. file' \in {mem', file, Defaults}
    BY <1>3, FileStep
  <2> QED BY <1>0, <2>1, <2>2
<1> QED BY <1>1, <1>2, <1>3 DEF Saves

\* Only a sleep asks for no splash.
LEMMA SplashStep ==
  ASSUME Stored, Next, ~SleepSaves, mem.splash, file.splash
  PROVE  mem'.splash /\ file'.splash
<1>0. Defaults.splash
  BY DEF Defaults
<1>1. CASE ~Saves
  BY <1>0, <1>1, OtherStep
<1>2. CASE RestartsSilently
  BY <1>0, <1>2, RestartSaves
<1>3. CASE Presents \/ Resumes \/ EntersReader \/ FailsToOpen \/ LeavesReader
           \/ Acknowledges \/ SleepExitsReader \/ GoesOn
  <2>1. mem'.splash
    <3>1. CASE Presents
      BY <3>1 DEF Presents, Stored, AppState
    <3>2. CASE Resumes
      <4>1. mem' = [mem EXCEPT !.path = NoBook, !.loads = 1]
        BY <3>2 DEF Resumes
      <4> QED BY <4>1 DEF Stored, AppState
    <3>3. CASE EntersReader
      BY <3>3 DEF EntersReader, Stored, AppState
    <3>4. CASE FailsToOpen \/ LeavesReader \/ SleepExitsReader
      BY <3>4 DEF FailsToOpen, LeavesReader, SleepExitsReader, Stored, AppState
    <3>5. CASE Acknowledges
      BY <3>5 DEF Acknowledges, Stored, AppState
    <3>6. CASE GoesOn
      BY <3>6 DEF GoesOn, Stored, AppState
    <3> QED BY <1>3, <3>1, <3>2, <3>3, <3>4, <3>5, <3>6
  <2>2. file' \in {mem', file, Defaults}
    BY <1>3, FileStep
  <2> QED BY <1>0, <2>1, <2>2
<1> QED BY <1>1, <1>2, <1>3 DEF Saves

\* A digest gets into a save by the acknowledgement that consents to it.
LEMMA ConsentStep == ASSUME IInv, Next PROVE ConsentKept'
<1> USE DEF IInv, ConsentKept
<1>1. /\ invalid' \in Digest \cup {NoDigest}
      /\ consented' = consented \cup (IF Acknowledges THEN {invalid} ELSE {})
      /\ Acknowledges => invalid \in Digest
  <2>1. CASE Setup
    BY <2>1 DEF Resumes, Presents, Acknowledges
  <2>2. CASE InReader
    BY <2>2 DEF EntersReader, FailsToOpen, LeavesReader, Acknowledges, Screened
  <2>3. CASE GoesToSleep
    BY <2>3 DEF SleepSaves, SleepExitsReader, Acknowledges
  <2>4. CASE GoesDown
    BY <2>4 DEF RestartsSilently, GoesOn, Acknowledges
  <2> QED BY <2>1, <2>2, <2>3, <2>4 DEF Next
<1>2. {mem'.acked, file'.acked} \subseteq consented' \cup {NoDigest}
  <2>1. CASE Acknowledges
    <3>1. mem' = [mem EXCEPT !.acked = invalid] /\ file' \in {mem', file, Defaults}
      BY <2>1, WritesOutcome DEF Acknowledges
    <3>2. mem'.acked = invalid
      BY <3>1 DEF Stored, AppState
    <3>3. file'.acked \in {invalid, file.acked, NoDigest}
      <4>1. Defaults.acked = NoDigest
        BY DEF Defaults
      <4> QED BY <3>1, <3>2, <4>1
    <3> QED BY <1>1, <2>1, <3>2, <3>3
  <2>2. CASE ~Acknowledges
    BY <1>1, <2>2, AckedStep
  <2> QED BY <2>1, <2>2
<1>3. UpdatesNeedConsent'
  <2> SUFFICES ASSUME pc' = "run", screen' = "ota"
               PROVE  invalid' \in consented' \cup {NoDigest}
    BY DEF UpdatesNeedConsent
  <2>1. \/ RoutesToUpdate /\ planOtaRollbackRecovery(mem.acked) = "ota"
        \/ pc = "run" /\ screen = "ota" /\ invalid' = invalid
    <3>1. CASE Setup
      BY <3>1 DEF Resumes, Presents
    <3>2. CASE InReader
      BY <3>2 DEF EntersReader, FailsToOpen, LeavesReader, Acknowledges
    <3>3. CASE GoesToSleep
      BY <3>3 DEF SleepSaves, SleepExitsReader
    <3>4. CASE GoesDown
      BY <3>4 DEF RestartsSilently, GoesOn
    <3> QED BY <3>1, <3>2, <3>3, <3>4 DEF Next
  <2>2. CASE RoutesToUpdate /\ planOtaRollbackRecovery(mem.acked) = "ota"
    BY <2>2 DEF planOtaRollbackRecovery
  <2>3. CASE pc = "run" /\ screen = "ota" /\ invalid' = invalid
    BY <1>1, <2>3 DEF UpdatesNeedConsent
  <2> QED BY <2>1, <2>2, <2>3
<1> QED BY <1>1, <1>2, <1>3

\* The splash is left out of a save by a sleep, and put back by the boot that used it.
LEMMA ArmedStep == ASSUME IInv, Next PROVE ArmedOnRecord'
<1> SUFFICES ASSUME ~armed' PROVE mem'.splash /\ file'.splash
  BY DEF ArmedOnRecord
<1>1. CASE Presents
  <2>1. CASE boot.resume = "SplashlessWake"
    <3>1. mem' = [mem EXCEPT !.splash = TRUE]
      BY <1>1, <2>1 DEF Presents
    <3>2. mem'.splash
      BY <3>1 DEF IInv, Stored, AppState
    <3>3. CASE armed
      <4>1. file' = mem'
        <5> SUFFICES ASSUME ~Saved PROVE FALSE
          BY DEF Saved
        <5>1. armed' = (armed /\ ~Saved)
          BY <1>1, <2>1 DEF Presents
        <5> QED BY <3>3, <5>1
      <4> QED BY <3>2, <3>3, <4>1
    <3>4. CASE ~armed
      BY <1>1, <3>2, <3>4, FileStep DEF IInv, ArmedOnRecord, Defaults
    <3> QED BY <3>3, <3>4
  <2>2. CASE boot.resume # "SplashlessWake"
    BY <1>1, <2>2 DEF Presents, IInv, ArmedOnRecord
  <2> QED BY <2>1, <2>2
<1>2. CASE ~Presents
  <2>0. ~SleepSaves
    BY DEF SleepSaves
  <2>1. ~armed
    <3>1. CASE Setup
      BY <1>2, <3>1 DEF Resumes
    <3>2. CASE InReader
      BY <3>2 DEF EntersReader, FailsToOpen, LeavesReader, Acknowledges
    <3>3. CASE GoesToSleep
      BY <2>0, <3>3 DEF SleepExitsReader
    <3>4. CASE GoesDown
      BY <3>4 DEF RestartsSilently, GoesOn
    <3> QED BY <3>1, <3>2, <3>3, <3>4 DEF Next
  <2> QED BY <2>0, <2>1, SplashStep DEF IInv, ArmedOnRecord
<1> QED BY <1>1, <1>2

\* A resume on trial keeps setup() from another in both copies, whichever of them the
\* next boot finds.
LEMMA TrialStep == ASSUME IInv, Next PROVE TrialOnRecord'
<1> SUFFICES ASSUME trial'
             PROVE  /\ Steady(mem') /\ Steady(file')
                    /\ pc' = "opening" \/ (pc' = "run" /\ screen' = "reader") => mem'.loads = 1
  BY DEF TrialOnRecord, Steady
<1> USE DEF IInv
<1>0. Steady(Defaults)
  BY DEF Steady, Defaults
<1>1. CASE Resumes
  <2>1. mem' = [mem EXCEPT !.path = NoBook, !.loads = 1]
    BY <1>1 DEF Resumes
  <2>2. mem'.loads = 1
    BY <2>1 DEF Stored, AppState
  <2>3. Saved \/ trial
    BY <1>1 DEF Resumes, Flags
  <2>4. CASE Saved
    BY <2>2, <2>4 DEF Saved, Steady
  <2>5. CASE trial
    BY <1>0, <1>1, <2>2, <2>5, FileStep DEF TrialOnRecord, Steady
  <2> QED BY <2>3, <2>4, <2>5
<1>2. CASE ~Resumes
  <2>1. trial /\ ~FailsToOpen /\ ~LeavesReader /\ ~SleepExitsReader
    <3>1. CASE Setup
      BY <1>2, <3>1 DEF Presents, FailsToOpen, LeavesReader, SleepExitsReader
    <3>2. CASE InReader
      BY <3>2 DEF EntersReader, FailsToOpen, LeavesReader, Acknowledges, SleepExitsReader
    <3>3. CASE GoesToSleep
      BY <3>3 DEF SleepSaves, SleepExitsReader, FailsToOpen, LeavesReader
    <3>4. CASE GoesDown
      BY <3>4 DEF RestartsSilently, GoesOn, FailsToOpen, LeavesReader, SleepExitsReader
    <3> QED BY <3>1, <3>2, <3>3, <3>4 DEF Next
  <2>2. Steady(mem) /\ Steady(file)
    BY <2>1 DEF TrialOnRecord
  <2>3. Steady(mem') /\ Steady(file')
    <3>1. CASE ~Saves
      BY <1>0, <2>2, <3>1, OtherStep
    <3>2. CASE RestartsSilently
      BY <1>0, <2>2, <3>2, RestartSaves DEF Steady
    <3>3. CASE Presents \/ EntersReader \/ Acknowledges \/ SleepSaves \/ GoesOn
      <4>1. Steady(mem')
        <5>1. CASE Presents
          BY <2>2, <5>1 DEF Presents, Stored, AppState, Steady
        <5>2. CASE EntersReader
          BY <2>2, <5>2 DEF EntersReader, Stored, AppState, Steady
        <5>3. CASE Acknowledges
          BY <2>2, <5>3 DEF Acknowledges, Stored, AppState, Steady
        <5>4. CASE SleepSaves
          <6>1. mem' = [mem EXCEPT !.fromReader = screen = "reader", !.splash = FALSE]
            BY <5>4 DEF SleepSaves
          <6>2. mem'.loads = mem.loads /\ mem'.fromReader = (screen = "reader")
            BY <6>1 DEF Stored, AppState
          <6>3. screen = "reader" => mem.loads = 1
            BY <2>1, <5>4 DEF SleepSaves, TrialOnRecord
          <6> QED BY <6>2, <6>3 DEF Steady
        <5>5. CASE GoesOn
          BY <2>2, <5>5 DEF GoesOn, Stored, AppState, Steady
        <5> QED BY <3>3, <5>1, <5>2, <5>3, <5>4, <5>5
      <4>2. file' \in {mem', file, Defaults}
        BY <3>3, FileStep
      <4> QED BY <1>0, <2>2, <4>1, <4>2
    <3> QED BY <1>2, <2>1, <3>1, <3>2, <3>3 DEF Saves
  <2>4. ASSUME pc' = "opening" \/ (pc' = "run" /\ screen' = "reader")
        PROVE  mem'.loads = 1
    <3>1. EntersReader
      <4>1. CASE Setup
        BY <1>2, <2>4, <4>1 DEF Presents, planOtaRollbackRecovery
      <4>2. CASE InReader
        BY <2>1, <2>4, <4>2 DEF Acknowledges
      <4>3. CASE GoesToSleep
        BY <2>4, <4>3 DEF SleepSaves, SleepExitsReader
      <4>4. CASE GoesDown
        BY <2>4, <4>4 DEF RestartsSilently, GoesOn
      <4> QED BY <4>1, <4>2, <4>3, <4>4 DEF Next
    <3> QED BY <2>1, <3>1 DEF EntersReader, TrialOnRecord, Stored, AppState
  <2> QED BY <2>3, <2>4
<1> QED BY <1>1, <1>2

\* The sleep, the exit of the reader and the boot hand the book on to each other.
LEMMA SleptStep == ASSUME IInv, Next PROVE SleptOnRecord'
<1> USE DEF IInv
<1> SUFFICES ASSUME slept' # NoBook PROVE SleptOnRecord'
  BY DEF SleptOnRecord
<1>1. CASE SleepSaves
  <2>1. mem' = [mem EXCEPT !.fromReader = screen = "reader", !.splash = FALSE]
    BY <1>1 DEF SleepSaves
  <2>2. pc = "run" /\ screen = "reader" /\ slept' = book /\ pc' = "committed" /\ screen' = screen
    BY <1>1 DEF SleepSaves
  <2>3. mem'.path = mem.path /\ mem'.fromReader = (screen = "reader")
    BY <2>1 DEF Stored, AppState
  <2> QED BY <2>2, <2>3 DEF SleptOnRecord, Screened
<1>2. CASE ~SleepSaves
  <2>1. slept' = slept /\ pc \notin {"run", "opening"}
    <3>1. CASE Setup
      BY <3>1 DEF Resumes, Presents, SleptOnRecord
    <3>2. CASE InReader
      BY <3>2 DEF EntersReader, FailsToOpen, LeavesReader, Acknowledges, SleptOnRecord
    <3>3. CASE GoesToSleep
      BY <1>2, <3>3 DEF SleepExitsReader, SleptOnRecord
    <3>4. CASE GoesDown
      BY <3>4 DEF RestartsSilently, GoesOn, SleptOnRecord
    <3> QED BY <3>1, <3>2, <3>3, <3>4 DEF Next
  <2>2. CASE Setup
    <3>1. CASE Presents
      BY <2>1, <3>1 DEF Presents, SleptOnRecord, Holds, Stored, AppState
    <3>2. CASE Boots \/ BootRejected
      BY <2>1, <3>2 DEF SleptOnRecord
    <3>3. CASE ~Presents /\ ~Boots /\ ~BootRejected
      BY <2>2, <3>3 DEF Resumes
    <3> QED BY <3>1, <3>2, <3>3
  <2>3. CASE InReader
    BY <2>1, <2>3 DEF EntersReader, FailsToOpen, LeavesReader, Acknowledges
  <2>4. CASE GoesToSleep
    <3>1. CASE SleepExitsReader
      <4>1. /\ mem' = [mem EXCEPT !.loads = 0] /\ file' = mem'
            /\ pc = "committed" /\ pc' = "exited"
        BY <3>1 DEF SleepExitsReader, Saved
      <4>2. Holds(mem', slept)
        BY <2>1, <4>1 DEF SleptOnRecord, Holds, Stored, AppState
      <4> QED BY <2>1, <4>1, <4>2 DEF SleptOnRecord
    <3>2. CASE SleepExitsScreen
      BY <2>1, <3>2 DEF SleptOnRecord
    <3>3. CASE SleepExitsNothing \/ FallsAsleep
      BY <2>1, <3>3 DEF SleptOnRecord
    <3> QED BY <1>2, <2>4, <3>1, <3>2, <3>3
  <2>5. CASE GoesDown
    BY <2>1, <2>5 DEF RestartsSilently, GoesOn, SleptOnRecord
  <2> QED BY <2>2, <2>3, <2>4, <2>5 DEF Next
<1> QED BY <1>1, <1>2

-----------------------------------------------------------------------------
(* The properties.                                                         *)

\* Every step, and a stutter, keeps the invariant.
LEMMA NextIInv == IInv /\ [Next]_vars => IInv'
<1>1. ASSUME IInv, Next PROVE IInv'
  BY <1>1, ControlStep, FlagsStep, LocalsStep, StoredStep, ScreenedStep, FrameStep,
     ConsentStep, TrialStep, SleptStep, ArmedStep DEF IInv
<1>2. ASSUME IInv, UNCHANGED vars PROVE IInv'
  <2> USE <1>2 DEF IInv, vars
  <2>1. (Control /\ Flags /\ Locals /\ Stored)'
    BY DEF Control, Flags, Locals, Stored
  <2>2. (Screened /\ FrameOnRecord /\ ConsentKept)'
    BY DEF Screened, FrameOnRecord, ConsentKept, UpdatesNeedConsent
  <2>3. (TrialOnRecord /\ SleptOnRecord /\ ArmedOnRecord)'
    BY DEF TrialOnRecord, Steady, SleptOnRecord, Holds, ArmedOnRecord
  <2> QED BY <2>1, <2>2, <2>3
<1> QED BY <1>1, <1>2

\* Memory, card and the histories agree in every state of every run.
THEOREM Invariance == Spec => []IInv
BY InitIInv, NextIInv, PTL DEF Spec

\* Every variable keeps its type.
THEOREM TypeCorrect == Spec => []TypeOK
BY Invariance, IInvType, PTL

\* The update screen is never entered for a rolled-back image that the user has not
\* chosen to go on with (planOtaRollbackRecovery()).
THEOREM ConsentBeforeUpdate == Spec => []UpdatesNeedConsent
<1>1. IInv => UpdatesNeedConsent
  BY DEF IInv, ConsentKept
<1> QED BY <1>1, Invariance, PTL

\* However often the device goes down in between, a book that was being reopened is not
\* reopened by setup() again before its reader has left (main.cpp:920).
THEOREM ResumesOnce == Spec => NoResumeLoop
<1>1. ASSUME IInv, Next, pc = "route", pc' = "opening", boot.resume # "Silent"
      PROVE  ~trial
  <2>1. mem.fromReader /\ mem.loads = 0
    <3>1. CASE Setup
      BY <1>1, <3>1 DEF Presents, Resumes, MayResume, ForSilent
    <3>2. CASE InReader
      BY <1>1, <3>2 DEF EntersReader, FailsToOpen, LeavesReader, Acknowledges
    <3>3. CASE GoesToSleep
      BY <1>1, <3>3 DEF SleepSaves, SleepExitsReader
    <3>4. CASE GoesDown
      BY <1>1, <3>4 DEF RestartsSilently, GoesOn
    <3> QED BY <1>1, <3>1, <3>2, <3>3, <3>4 DEF Next
  <2> QED BY <1>1, <2>1 DEF IInv, TrialOnRecord, Steady
<1>2. IInv /\ [Next]_vars
      => [pc = "route" /\ pc' = "opening" /\ boot.resume # "Silent" => ~trial]_vars
  BY <1>1
<1> QED BY <1>2, Invariance, PTL DEF Spec, NoResumeLoop

\* A sleep that left the reader with every save written ends in the book it was left in.
THEOREM WakesInTheBook == Spec => WakeResumesBook
<1>1. ASSUME IInv, Next, pc = "route", pc' \in {"opening", "run"}, slept # NoBook,
             Ordinary, ~boot.back
      PROVE  pc' = "opening" /\ book' = slept
  <2>1. MayResume /\ mem.path = slept
    BY <1>1 DEF IInv, SleptOnRecord, Holds, MayResume
  <2>2. Resumes
    <3>1. CASE Setup
      BY <1>1, <2>1, <3>1 DEF Presents, Ordinary, ForSilent
    <3>2. CASE InReader
      BY <1>1, <3>2 DEF EntersReader, FailsToOpen, LeavesReader, Acknowledges
    <3>3. CASE GoesToSleep
      BY <1>1, <3>3 DEF SleepSaves, SleepExitsReader
    <3>4. CASE GoesDown
      BY <1>1, <3>4 DEF RestartsSilently, GoesOn
    <3> QED BY <1>1, <3>1, <3>2, <3>3, <3>4 DEF Next
  <2> QED BY <2>1, <2>2 DEF Resumes
<1>2. IInv /\ [Next]_vars
      => [pc = "route" /\ pc' \in {"opening", "run"} /\ slept # NoBook /\ Ordinary
          /\ ~boot.back => pc' = "opening" /\ book' = slept]_vars
  BY <1>1
<1> QED BY <1>2, Invariance, PTL DEF Spec, WakeResumesBook

\* A boot leaves the splash out only while a sleep's request for that is unused
\* (main.cpp:818).
THEOREM SplashRearmed == Spec => SplashlessOncePerSleep
<1>1. ASSUME IInv, Next, pc = "off", pc' = "present", boot'.resume = "SplashlessWake"
      PROVE  armed
  <2>1. Boots
    <3>1. CASE Setup
      BY <1>1, <3>1 DEF Presents, Resumes
    <3>2. CASE InReader
      BY <1>1, <3>2 DEF EntersReader, FailsToOpen, LeavesReader, Acknowledges
    <3>3. CASE GoesToSleep
      BY <1>1, <3>3 DEF SleepSaves, SleepExitsReader
    <3>4. CASE GoesDown
      BY <1>1, <3>4 DEF RestartsSilently, GoesOn
    <3> QED BY <1>1, <3>1, <3>2, <3>3, <3>4 DEF Next
  <2>2. ~file.splash
    BY <1>1, <2>1
  <2> QED BY <1>1, <2>2 DEF IInv, ArmedOnRecord
<1>2. IInv /\ [Next]_vars
      => [pc = "off" /\ pc' = "present" /\ boot'.resume = "SplashlessWake" => armed]_vars
  BY <1>1
<1> QED BY <1>2, Invariance, PTL DEF Spec, SplashlessOncePerSleep

\* The frame a splashless wake shows is that of the sleep it ends (main.cpp:485).
THEOREM ShowsTheLastFrame == Spec => WakeShowsItsFrame
<1>1. IInv => (framed = "saved" => frame = "last") /\ (framed = "removed" => frame = "none")
  BY DEF IInv, FrameOnRecord
<1>2. IInv /\ [Next]_vars
      => [pc = "present" /\ pc' = "route" /\ boot.resume = "SplashlessWake" /\ boot.after = "sleep"
            => /\ framed = "saved" => frame = "last"
               /\ framed = "removed" => frame = "none"]_vars
  BY <1>1
<1> QED BY <1>2, Invariance, PTL DEF Spec, WakeShowsItsFrame

\* No way out of setup() leaves the marker of a silent restart behind (main.cpp:648).
THEOREM MarkerConsumed == Spec => SetupLeavesNoMarker
<1>1. ASSUME IInv, Next, pc \in {"present", "route", "opening"}, pc' = "off"
      PROVE  rtc' = "none"
  <2>0. rtc = "none"
    BY <1>1 DEF IInv, Control
  <2>1. CASE Setup
    BY <1>1, <2>1 DEF Presents, Resumes
  <2>2. CASE InReader
    BY <1>1, <2>2 DEF EntersReader, FailsToOpen, LeavesReader, Acknowledges
  <2>3. CASE GoesToSleep
    BY <1>1, <2>3 DEF SleepSaves, SleepExitsReader
  <2>4. CASE GoesDown
    BY <1>1, <2>0, <2>4 DEF RestartsSilently, GoesOn
  <2> QED BY <1>1, <2>1, <2>2, <2>3, <2>4 DEF Next
<1>2. IInv /\ [Next]_vars
      => [(pc \in {"present", "route", "opening"}) /\ pc' = "off" => rtc' = "none"]_vars
  BY <1>1
<1> QED BY <1>2, Invariance, PTL DEF Spec, SetupLeavesNoMarker

\* Between the commitment to sleep and deep sleep no screen restarts the device
\* (main.cpp:248).
THEOREM NoRestartIntoTheGesture == Spec => SleepIsFinal
<1>1. ASSUME Next, pc \in {"committed", "exited"}, pc' = "off"
      PROVE  end' # "silent"
  <2>1. CASE Setup
    BY <1>1, <2>1 DEF Presents, Resumes
  <2>2. CASE InReader
    BY <1>1, <2>2 DEF EntersReader, FailsToOpen, LeavesReader, Acknowledges
  <2>3. CASE GoesToSleep
    BY <1>1, <2>3 DEF SleepSaves, SleepExitsReader, Returns
  <2>4. CASE GoesDown
    BY <1>1, <2>4 DEF RestartsSilently, GoesOn
  <2> QED BY <1>1, <2>1, <2>2, <2>3, <2>4 DEF Next
<1>2. [Next]_vars => [(pc \in {"committed", "exited"}) /\ pc' = "off" => end' # "silent"]_vars
  BY <1>1
<1> QED BY <1>2, PTL DEF Spec, SleepIsFinal
=============================================================================
