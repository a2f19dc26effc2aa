---------------------------- MODULE CrashReport -----------------------------
(***************************************************************************)
(* A crash, from the panic to the server: the panic handler captures it in *)
(* RTC memory, the next boot writes /crash_report.txt (HalSystem.cpp), and *)
(* a later connection uploads the file and removes it                      *)
(* (FouladDeviceTracking.cpp, FouladOpdsHooks.cpp); the crash screen can   *)
(* upload it too (CrashActivity.cpp).  Resets, power cuts, a card that     *)
(* fails, a server that does not answer and a bootloader that goes back to *)
(* the former firmware happen between any two steps.                       *)
(***************************************************************************)
EXTENDS Naturals, FiniteSets

CONSTANTS
  MaxCrashes,   \* bound on the panics
  MaxImage      \* bound on the firmware versions installed in turn

ASSUME BoundsAssumption == MaxCrashes \in Nat /\ MaxImage \in Nat \ {0}

VARIABLES
  image,    \* version of the firmware that runs or starts, CROSSPOINT_VERSION
  trial,    \* it is on probation: the bootloader may yet go back to the former one
  phase,    \* "off": up to HalSystem::begin(), "boot": up to checkPanic(), "up"
  reset,    \* esp_reset_reason() of this boot
  marker,   \* panicCaptureMarker holds PANIC_CAPTURE_MAGIC
  crashes,  \* panics so far
  culprit,  \* history: the version that panicked last
  rolled,   \* history: the bootloader went back to a former version since then
  written,  \* reports written so far
  file,     \* /crash_report.txt
  card,     \* the card was mounted by this boot
  screen,   \* the crash screen is up
  sent,     \* flushPendingCrashReport() has uploaded and not yet removed
  known,    \* the server has the device registered
  got       \* the reports the server has

flashVars == <<image, trial>>
rtcVars  == <<reset, marker, crashes, culprit, rolled>>
cardVars == <<file, written>>
uiVars   == <<card, screen, sent>>
netVars  == <<known, got>>
vars == <<flashVars, phase, rtcVars, cardVars, uiVars, netVars>>

Images == 1..MaxImage
Resets == {"panic", "watchdog", "software", "power"}
NoFile == [id |-> 0, version |-> 0, of |-> 0, rolled |-> FALSE, whole |-> FALSE]

\* version: the version line, 0 when a torn write lost it.  of and rolled are not
\* in the file, they are what the history knows of the panic it reports.
Files ==
  [id : 0..MaxCrashes, version : 0..MaxImage, of : 0..MaxImage,
   rolled : BOOLEAN, whole : BOOLEAN]

\* label: firmware_version; sound: the file was whole, its version could be read,
\* and the firmware that wrote it was not one the bootloader had gone back to.
Reports == [id : 1..MaxCrashes, label : Images, of : 0..MaxImage, sound : BOOLEAN]

TypeOK ==
  /\ image \in Images /\ phase \in {"off", "boot", "up"}
  /\ trial \in BOOLEAN /\ (trial => phase = "off" /\ image > 1)
  /\ reset \in Resets /\ marker \in BOOLEAN
  /\ crashes \in 0..MaxCrashes /\ written \in 0..MaxCrashes
  /\ culprit \in 0..MaxImage /\ rolled \in BOOLEAN
  /\ file \in Files
  /\ card \in BOOLEAN /\ screen \in BOOLEAN /\ sent \in BOOLEAN /\ known \in BOOLEAN
  /\ got \subseteq Reports

Init ==
  /\ image = 1 /\ trial = FALSE /\ phase = "off" /\ reset = "power"
  /\ marker = FALSE /\ crashes = 0 /\ written = 0
  /\ culprit = 0 /\ rolled = FALSE
  /\ file = NoFile /\ got = {}
  /\ card = FALSE /\ screen = FALSE /\ sent = FALSE /\ known = FALSE

----------------------------------------------------------------------------
(* Resets.                                                                  *)

Reset(reason) ==
  /\ phase' = "off" /\ reset' = reason
  /\ card' = FALSE /\ screen' = FALSE /\ sent' = FALSE
  /\ UNCHANGED <<cardVars, netVars>>

\* The bootloader: with app rollback it gives up an image that did not come as far
\* as initArduino(), unless the power failed before it had started it at all.
\* before: it had already gone back since the last panic.
Starts(before) ==
  /\ image' \in IF trial THEN {image - 1, image} ELSE {image}
  /\ trial' = (trial /\ image' = image)
  /\ rolled' = (before \/ image' # image)

\* A panic, as early as in a static constructor: abort() and, on RISC-V, any fault go
\* through the wrapped handlers, which set the marker; a CPU lockup and an Xtensa
\* fault do not.  A handler that hangs is ended by a watchdog.
Panic ==
  /\ crashes < MaxCrashes
  /\ \E captured \in BOOLEAN, reason \in {"panic", "watchdog"} :
       /\ reason = "watchdog" => captured
       /\ marker' = (marker \/ captured)
       /\ Reset(reason)
  /\ crashes' = crashes + 1 /\ culprit' = image
  /\ Starts(FALSE)

\* The firmware hangs outside the panic handler.
Hang == Reset("watchdog") /\ Starts(rolled) /\ UNCHANGED <<marker, crashes, culprit>>

\* ESP.restart() or deep sleep.
Restart ==
  /\ phase # "off"
  /\ Reset("software")
  /\ UNCHANGED <<flashVars, marker, crashes, culprit, rolled>>

\* An update restarts into the next firmware; it takes the screens, and so a card.
Update ==
  /\ phase = "up" /\ card
  /\ Reset("software")
  /\ image' = image + 1 /\ image' \in Images /\ trial' = TRUE
  /\ UNCHANGED <<marker, crashes, culprit, rolled>>

\* The supply fails: RTC memory is random, the magic number is not there.
PowerCut ==
  /\ Reset("power") /\ Starts(rolled)
  /\ marker' = FALSE
  /\ UNCHANGED <<crashes, culprit>>

----------------------------------------------------------------------------
(* Boot.                                                                    *)

IsRebootFromPanic == reset = "panic" \/ (reset = "watchdog" /\ marker)

\* initArduino() confirms the image, and HalSystem::begin() of an ordinary boot
\* clears what an older panic left.
Begin ==
  /\ phase = "off"
  /\ phase' = "boot" /\ trial' = FALSE
  /\ marker' = (marker /\ IsRebootFromPanic)
  /\ UNCHANGED <<image, reset, crashes, culprit, rolled, cardVars, uiVars, netVars>>

\* Storage.begin() fails: setup() ends before checkPanic() with an error screen.
NoCard ==
  /\ phase = "boot"
  /\ phase' = "up"
  /\ UNCHANGED <<flashVars, rtcVars, cardVars, uiVars, netVars>>

\* What is on the card after checkPanic() tried to write report n: the file that
\* was there (it could not be opened), the report, or the first part of it.  The
\* version is that of the firmware that writes, and so boots after the panic.
AfterWrite(n) ==
  LET Parts(versions, whole) ==
        [id : {n}, version : versions, of : {culprit}, rolled : {rolled}, whole : {whole}]
  IN  {file} \cup Parts({image}, TRUE) \cup Parts({0, image}, FALSE)

\* Mutant of ConsumedMarker: the marker is left set after the write.
MarkerKept == marker

\* panicCaptureMarker = 0, whatever became of the write.
ConsumedMarker == FALSE

\* checkPanic() with the card mounted, and the routing to the crash screen.
CheckPanic ==
  /\ phase = "boot"
  /\ phase' = "up" /\ card' = TRUE /\ screen' = IsRebootFromPanic
  /\ IF IsRebootFromPanic
       THEN /\ file' \in AfterWrite(written + 1)
            /\ written' = IF file' = file THEN written ELSE written + 1
            /\ marker' = ConsumedMarker
       ELSE UNCHANGED <<cardVars, marker>>
  /\ UNCHANGED <<flashVars, reset, crashes, culprit, rolled, sent, netVars>>

----------------------------------------------------------------------------
(* Delivery.                                                                *)

\* net: the file can be sent and the server answers; it accepts a registration.
Networks == [reach : BOOLEAN, registers : BOOLEAN]

\* Mutant of Registered: a refused device is not registered before the retry.
NeverRegistered(net) == known

\* registerDevice(), from the connect hook or after a 404: known from then on.
Registered(net) == known \/ (net.reach /\ net.registers)

\* Mutant of Label: the uploading firmware stamps its own version.
LabelOfUploader(read) == image

\* readCrashReportVersion(), with the running version when there is none in the file
\* or when the file, whole or not, cannot be opened and read.
Label(read) == IF read /\ file.version # 0 THEN file.version ELSE image

\* uploadCrashReport(): the server answers 404 to a device it does not know, and
\* the upload is tried once more after a registration.
Uploads(net) == net.reach /\ Registered(net)

Report(read) ==
  [id |-> file.id, label |-> Label(read), of |-> file.of,
   sound |-> file.whole /\ read /\ ~file.rolled]

Upload(net) ==
  /\ phase = "up" /\ card /\ ~sent
  /\ file # NoFile
  /\ known' = Registered(net)
  /\ IF Uploads(net)
       THEN \E read \in BOOLEAN : got' = got \cup {Report(read)}
       ELSE UNCHANGED got

\* Mutant of MayRemove: the file is removed after a failed upload as well.
AlwaysRemoves(net) == TRUE

MayRemove(net) == Uploads(net)

\* flushPendingCrashReport(), up to the removal.
Flush(net) ==
  /\ Upload(net)
  /\ sent' = MayRemove(net)
  /\ UNCHANGED <<flashVars, phase, rtcVars, cardVars, card, screen>>

\* Storage.remove(), whose result nobody looks at.
Remove ==
  /\ sent
  /\ file' \in {file, NoFile}
  /\ sent' = FALSE
  /\ UNCHANGED <<flashVars, phase, rtcVars, written, card, screen, netVars>>

\* CrashActivity::performSend(): uploads and leaves the file where it is.
SendFromScreen(net) ==
  /\ screen
  /\ Upload(net)
  /\ UNCHANGED <<flashVars, phase, rtcVars, cardVars, uiVars>>

\* The user leaves the crash screen.
LeaveScreen ==
  /\ screen /\ ~sent
  /\ screen' = FALSE
  /\ UNCHANGED <<flashVars, phase, rtcVars, cardVars, card, sent, netVars>>

\* The device is removed from the account on the web.
Forget ==
  /\ known /\ known' = FALSE
  /\ UNCHANGED <<flashVars, phase, rtcVars, cardVars, uiVars, got>>

----------------------------------------------------------------------------

Resetting == Panic \/ Hang \/ Restart \/ Update \/ PowerCut
Booting   == Begin \/ NoCard \/ CheckPanic
Sending   == \E net \in Networks : Flush(net) \/ SendFromScreen(net)

Next == Resetting \/ Booting \/ Sending \/ Remove \/ LeaveScreen \/ Forget

GoodNet == [reach |-> TRUE, registers |-> TRUE]

\* The loader always starts the firmware, and an idle device goes to sleep and is
\* woken (both by the code); that the card is mounted, and that the device comes to
\* a network where the server answers, again and again, is asked of the user.
Fairness ==
  WF_vars(Begin) /\ WF_vars(Restart) /\ SF_vars(CheckPanic) /\ SF_vars(Flush(GoodNet))

Spec == Init /\ [][Next]_vars /\ Fairness

----------------------------------------------------------------------------
(* Properties.                                                              *)

\* A panic is reported at most once: a hang, a restart or a failed write after it
\* never makes a second report out of what it left in RTC memory
\* (HalSystem.cpp:122-126, 189-198).
NoStaleReport == written <= crashes

\* A complete report reaches the server under the version of the firmware that
\* crashed, whatever was installed, reset or hung before the device was online
\* (FouladDeviceTracking.cpp:757-762); not so when the version cannot be read back
\* or when the bootloader went back to the former firmware, which wrote the report.
LabelSurvivesUpdate == \A r \in got : r.sound => r.label = r.of

\* The file is a slot that loses a report only to a newer one, and is emptied only
\* of what the server has (FouladDeviceTracking.cpp:798-801).
Queue == INSTANCE ReportSlot WITH slot <- file.id, got <- {r.id : r \in got}
ImplementsSlot == Queue!Spec

\* While the device keeps coming online, a report on the card gets to the server or
\* gives way to a newer one.
ReportArrives ==
  \A n \in 1..MaxCrashes :
    file.id = n ~> (\E r \in got : r.id = n) \/ file.id > n
=============================================================================
