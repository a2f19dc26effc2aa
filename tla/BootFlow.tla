------------------------------ MODULE BootFlow ------------------------------
(***************************************************************************)
(* How the device goes down and comes back (src/main.cpp): deep sleep, the *)
(* silent restarts of SilentRestart.h, crashes and power cuts, and what    *)
(* setup() makes of them with the state that survives: state.json          *)
(* (CrossPointState), the Quick Resume frame on the card, the marker of a  *)
(* silent restart in RTC memory and the bootloader's record of an image    *)
(* that was rolled back.                                                   *)
(*                                                                         *)
(* A save of state.json can be refused by the card or leave a file that    *)
(* does not load; loadFromFile() then keeps the defaults, so such a file   *)
(* is modelled as one that holds the defaults.                             *)
(***************************************************************************)
EXTENDS Naturals

CONSTANTS
  Book, NoBook,      \* paths, and the empty openEpubPath
  Digest, NoDigest   \* digests of firmware images, and none

ASSUME BootAssumption == NoBook \notin Book /\ NoDigest \notin Digest

VARIABLES
  touch,     \* BoardConfig::hasTouch()
  pc,        \* off, in setup() before presentation, routing or onEnter(), running,
             \* in enterDeepSleep() after its save, or after the last onExit()
  end,       \* what the last run ended with, until setup() has looked
  rtc,       \* target of a silent restart whose magic is set, or "none"
  mem, file, \* APP_STATE in memory and on the card
  card,      \* Storage.begin() succeeded
  frame,     \* SLEEP_FRAME_FILE: none, of the last sleep, or of an older one
  invalid,   \* esp_ota_get_last_invalid_partition()'s digest
  boot,      \* setup()'s local variables
  screen, book,  \* the activity, and the bookPath of a reader
  wifi,      \* WiFi.getMode() != WIFI_MODE_NULL
  trial,     \* history: a resume is recorded on the card and its reader has not left
  armed,     \* history: a sleep's showBootScreen = false has not been used up
  slept,     \* history: the book to come back to after a sleep that went well
  framed,    \* history: what the sleep since the last boot did to the frame file
  consented  \* history: rolled-back images the user chose to continue with

kept == <<touch, rtc, file, card, frame, invalid>>
ui == <<screen, book, wifi>>
history == <<trial, armed, slept, framed, consented>>
vars == <<pc, end, mem, boot, kept, ui, history>>

Defaults == [path |-> NoBook, loads |-> 0, fromReader |-> FALSE, splash |-> TRUE,
             acked |-> NoDigest]
NoLocals == [after |-> "cut", resume |-> "Splash", target |-> "none", panic |-> FALSE,
             recovery |-> FALSE, back |-> FALSE]
AppState == [path : Book \cup {NoBook}, loads : 0..1, fromReader : BOOLEAN,
             splash : BOOLEAN, acked : Digest \cup {NoDigest}]
Ends == {"cut", "crash", "silent", "restart", "sleep"}
Targets == {"home", "reader", "ota", "app"}
Screens == {"home", "reader", "sync", "network", "ota", "gate", "sd", "crash", "error"}

TypeOK ==
  /\ touch \in BOOLEAN /\ card \in BOOLEAN
  /\ pc \in {"off", "present", "route", "opening", "run", "committed", "exited"}
  /\ end \in Ends \cup {"none"}
  /\ rtc \in Targets \cup {"none"}
  /\ mem \in AppState /\ file \in AppState
  /\ frame \in {"none", "last", "older"}
  /\ invalid \in Digest \cup {NoDigest}
  /\ boot \in [after : Ends, resume : {"Silent", "SplashlessWake", "Splash"},
               target : Targets \cup {"none"}, panic : BOOLEAN,
               recovery : BOOLEAN, back : BOOLEAN]
  /\ screen \in Screens /\ book \in Book \cup {NoBook} /\ wifi \in BOOLEAN
  /\ screen = "reader" /\ pc = "run" => book \in Book
  /\ trial \in BOOLEAN /\ armed \in BOOLEAN
  /\ slept \in Book \cup {NoBook} /\ framed \in {"failed", "saved", "removed"}
  /\ consented \subseteq Digest

\* Out of the box: never booted, nothing on the card.
Init ==
  /\ touch \in BOOLEAN /\ card = TRUE /\ pc = "off" /\ end = "cut" /\ rtc = "none"
  /\ mem = Defaults /\ file = Defaults /\ frame = "none" /\ invalid = NoDigest
  /\ boot = NoLocals
  /\ screen = "home" /\ book = NoBook /\ wifi = FALSE
  /\ trial = FALSE /\ armed = FALSE /\ slept = NoBook /\ framed = "failed" /\ consented = {}

\* APP_STATE = s; saveToFile().  Nobody looks at its result.
Writes(s) == file' \in IF card THEN {s, file, Defaults} ELSE {file}
Save(s) == mem' = s /\ Writes(s)
Saved == file' = mem'

-----------------------------------------------------------------------------
(* setup().                                                                *)

\* A button that was not held, or USB power that came back: asleep again.
BootRejected ==
  /\ pc = "off" /\ end \in {"sleep", "cut"}
  /\ rtc' = "none" /\ end' = "sleep"
  /\ UNCHANGED <<pc, mem, boot, touch, file, card, frame, invalid, ui, history>>

\* The marker is read and cleared, the state loaded.  A wake-up from deep sleep and a
\* power-on without USB both count as PowerButton; every other reset as Other.
Boots ==
  /\ pc = "off" /\ pc' = "present" /\ rtc' = "none" /\ card' = TRUE /\ mem' = file
  /\ \E recovery, back \in BOOLEAN :
       /\ recovery => end \in {"sleep", "cut"}
       /\ boot' = [after |-> end,
                   resume |-> IF rtc # "none" THEN "Silent"
                             ELSE IF end \in {"sleep", "cut"} /\ ~file.splash
                                   THEN "SplashlessWake" ELSE "Splash",
                   target |-> rtc, panic |-> end = "crash",
                   recovery |-> recovery, back |-> back]
  /\ end' = "none"
  /\ UNCHANGED <<touch, file, frame, invalid, ui, history>>

\* Storage.begin() fails: an error screen over the default state.
BootsWithoutCard ==
  /\ pc = "off" /\ pc' = "run" /\ rtc' = "none" /\ card' = FALSE /\ mem' = Defaults
  /\ end' = "none" /\ screen' = "error" /\ slept' = NoBook
  /\ UNCHANGED <<wifi, boot, touch, file, frame, invalid, book, trial, armed, framed, consented>>

\* Mutant of Presents: the flag is set again in memory, and saved some time later.
PresentsUnsaved ==
  /\ pc = "present" /\ pc' = "route"
  /\ IF boot.resume = "SplashlessWake"
       THEN mem' = [mem EXCEPT !.splash = TRUE] /\ frame' = "none" /\ armed' = FALSE
       ELSE UNCHANGED <<mem, frame, armed>>
  /\ framed' = "failed"
  /\ UNCHANGED <<end, boot, touch, rtc, file, card, invalid, ui, trial, slept, consented>>

\* The splash is re-armed and saved before anything is painted; a frame that is there is
\* loaded and removed.
Presents ==
  /\ pc = "present" /\ pc' = "route"
  /\ IF boot.resume = "SplashlessWake"
       THEN /\ Save([mem EXCEPT !.splash = TRUE])
            /\ armed' = (armed /\ ~Saved)
            /\ frame' = "none"
       ELSE UNCHANGED <<mem, file, armed, frame>>
  /\ framed' = "failed"
  /\ UNCHANGED <<end, boot, touch, rtc, card, invalid, ui, trial, slept, consented>>

\* A WiFi screen may turn the radio on; MidadSyncActivity::onEnter() does.
UsesRadio(s) ==
  wifi' \in IF s = "sync" THEN {TRUE} ELSE IF s \in {"network", "ota"} THEN {wifi, TRUE} ELSE {wifi}

EntersScreen(s) ==
  /\ pc = "route" /\ pc' = "run" /\ boot' = NoLocals
  /\ screen' = s /\ UsesRadio(s) /\ slept' = NoBook
  /\ UNCHANGED <<end, mem, kept, book, trial, armed, framed, consented>>

ForSilent(t) == ~boot.recovery /\ ~boot.panic /\ boot.resume = "Silent" /\ boot.target = t

RoutesToRecovery == boot.recovery /\ EntersScreen("sd")
RoutesToCrashReport == ~boot.recovery /\ boot.panic /\ EntersScreen("crash")

\* Mutant of planOtaRollbackRecovery: keyed to whether anything was acknowledged.
planForAnyImage(acked) == IF invalid = NoDigest \/ acked # NoDigest THEN "ota" ELSE "gate"

\* Normal, or EnterRestrictedRecovery for an image that was not acknowledged.
planOtaRollbackRecovery(acked) ==
  IF invalid = NoDigest \/ invalid = acked THEN "ota" ELSE "gate"

RoutesToUpdate == ForSilent("ota") /\ EntersScreen(planOtaRollbackRecovery(mem.acked))
RoutesToApp == ForSilent("app") /\ \E s \in {"home", "network"} : EntersScreen(s)
RoutesSilentlyHome ==
  /\ \/ ForSilent("home")
     \/ ForSilent("reader") /\ mem.path = NoBook
  /\ EntersScreen("home")

\* goToReader() on the book that was open.
RoutesToReader ==
  /\ pc = "route" /\ ForSilent("reader") /\ mem.path # NoBook
  /\ pc' = "opening" /\ boot' = NoLocals /\ book' = mem.path
  /\ slept' = NoBook /\ trial' = FALSE
  /\ UNCHANGED <<end, mem, kept, screen, wifi, armed, framed, consented>>

Ordinary == ~boot.recovery /\ ~boot.panic /\ boot.resume # "Silent"
MayResume == mem.path # NoBook /\ mem.fromReader /\ ~boot.back /\ mem.loads = 0

RoutesHome == Ordinary /\ ~MayResume /\ EntersScreen("home")

\* Mutant of Resumes: the attempt is not counted.
ResumesUncounted ==
  /\ pc = "route" /\ Ordinary /\ MayResume
  /\ Save([mem EXCEPT !.path = NoBook])
  /\ trial' = (trial \/ Saved) /\ slept' = NoBook
  /\ pc' = "opening" /\ boot' = NoLocals /\ book' = mem.path
  /\ UNCHANGED <<end, touch, rtc, card, frame, invalid, screen, wifi, armed, framed, consented>>

\* The path is cleared and the attempt counted before the book is opened.
Resumes ==
  /\ pc = "route" /\ Ordinary /\ MayResume
  /\ Save([mem EXCEPT !.path = NoBook, !.loads = 1])
  /\ trial' = (trial \/ Saved) /\ slept' = NoBook
  /\ pc' = "opening" /\ boot' = NoLocals /\ book' = mem.path
  /\ UNCHANGED <<end, touch, rtc, card, frame, invalid, screen, wifi, armed, framed, consented>>

Setup ==
  \/ BootRejected \/ Boots \/ BootsWithoutCard \/ Presents
  \/ RoutesToRecovery \/ RoutesToCrashReport \/ RoutesToUpdate \/ RoutesToApp
  \/ RoutesSilentlyHome \/ RoutesToReader \/ RoutesHome \/ Resumes

-----------------------------------------------------------------------------
(* The reader and the screens around it.                                   *)

\* ReaderActivity::onEnter() of a book that loads.
EntersReader ==
  /\ pc = "opening" /\ pc' = "run" /\ screen' = "reader"
  /\ Save([mem EXCEPT !.path = book])
  /\ UNCHANGED <<end, boot, touch, rtc, card, frame, invalid, book, wifi, history>>

\* Mutant of ExitsReader: the count is not reset.
ExitsCounted ==
  /\ Save(mem)
  /\ trial' = FALSE

\* ReaderActivity::onExit()
ExitsReader ==
  /\ Save([mem EXCEPT !.loads = 0])
  /\ trial' = FALSE

\* The file is gone or does not load: finish() leaves the reader for Home.
FailsToOpen ==
  /\ pc = "opening" /\ pc' = "run" /\ screen' = "home" /\ book' = NoBook
  /\ ExitsReader
  /\ UNCHANGED <<end, boot, touch, rtc, card, frame, invalid, wifi, armed, slept, framed, consented>>

OpensBook ==
  /\ pc = "run" /\ screen = "home" /\ card
  /\ \E b \in Book : book' = b
  /\ pc' = "opening" /\ trial' = FALSE
  /\ UNCHANGED <<end, mem, boot, kept, screen, wifi, armed, slept, framed, consented>>

\* Home, or a sync screen that replaces the reader (KOReader's is like the other WiFi
\* screens).
LeavesReader ==
  /\ pc = "run" /\ screen = "reader" /\ screen' \in {"home", "sync", "network"}
  /\ book' = NoBook /\ UsesRadio(screen')
  /\ ExitsReader
  /\ UNCHANGED <<pc, end, boot, touch, rtc, card, frame, invalid, armed, slept, framed, consented>>

\* Between screens that keep nothing here; a touch board's home gesture works everywhere.
OpensScreen ==
  /\ pc = "run"
  /\ \/ screen = "home" /\ screen' \in {"network", "sd"}
     \/ screen \in {"sd", "crash"} /\ screen' = "home"
     \/ screen = "network" /\ ~wifi /\ screen' = "home"
     \/ screen \in {"gate", "sync", "error"} /\ touch /\ screen' = "home"
     \/ screen = "gate" /\ screen' = "sd"
  /\ UsesRadio(screen')
  /\ UNCHANGED <<pc, end, mem, boot, kept, book, history>>

\* "Continue" on the rollback screen.
Acknowledges ==
  /\ pc = "run" /\ screen = "gate" /\ screen' = "home"
  /\ Save([mem EXCEPT !.acked = invalid]) /\ consented' = consented \cup {invalid}
  /\ UNCHANGED <<pc, end, boot, touch, rtc, card, frame, invalid, book, wifi, trial, armed, slept, framed>>

-----------------------------------------------------------------------------
(* Going down.                                                             *)

\* Mutant of Returns: sleeping does not supersede the restart.
ReturnsOnTouch(t) == touch /\ t \in {"home", "reader"}

\* silentRestart*() returns: the device is being put to sleep, or keeps its touch panel
\* and light powered.
Returns(t) ==
  \/ pc = "committed"
  \/ touch /\ t \in {"home", "reader"}

\* What is in RAM is lost.
Down(how, target) ==
  /\ pc' = "off" /\ end' = how /\ rtc' = target
  /\ mem' = Defaults /\ boot' = NoLocals /\ screen' = "home" /\ book' = NoBook
  /\ wifi' = FALSE

\* The catalog saves the book it has downloaded before it leaves for the reader.
SavesChoice(t, b) ==
  \/ b = mem.path /\ UNCHANGED file
  \/ screen = "network" /\ t = "reader" /\ b \in Book /\ Writes([mem EXCEPT !.path = b])

\* onExit() of a WiFi screen, a sync that is done, or Home when it wants a fresh heap.
RestartsSilently ==
  /\ pc = "run" /\ screen \in {"home", "network", "sync", "ota"}
  /\ \E t \in Targets :
       /\ t = "reader" => screen \in {"network", "sync"}
       /\ screen = "network" => wifi
       /\ ~Returns(t) /\ Down("silent", t)
       /\ \E b \in Book \cup {NoBook} : SavesChoice(t, b)
  /\ UNCHANGED <<touch, card, frame, invalid, history>>

\* The same on a touch board: the screen that was asked for follows.
GoesOn ==
  /\ pc = "run" /\ screen \in {"network", "ota"} /\ wifi /\ wifi' = FALSE /\ Returns("home")
  /\ \/ screen' = "home" /\ UNCHANGED <<pc, mem, file, book, trial>>
     \/ /\ screen = "network" /\ card
        /\ \E b \in Book : SavesChoice("reader", b) /\ mem' = [mem EXCEPT !.path = b] /\ book' = b
        /\ pc' = "opening" /\ trial' = FALSE /\ UNCHANGED screen
  /\ UNCHANGED <<end, boot, touch, rtc, card, frame, invalid, armed, slept, framed, consented>>

\* MidadSyncActivity::returnToReader() on a touch board: the radio goes off, and nothing
\* follows the call.
ReturnsToReader ==
  /\ pc = "run" /\ screen = "sync" /\ Returns("reader") /\ wifi' = FALSE
  /\ UNCHANGED <<pc, end, mem, boot, kept, screen, book, history>>

\* ESP.restart() after an update; the new image may be rolled back, or the partition
\* with the invalid one may have been overwritten.
InstallsFirmware ==
  /\ pc = "run" /\ screen \in {"ota", "sd"} /\ Down("restart", "none")
  /\ invalid' \in Digest \cup {NoDigest}
  /\ UNCHANGED <<touch, file, card, frame, history>>

\* enterDeepSleep() up to its commitment; any frame on the card is now an older one.
SleepSaves ==
  /\ pc = "run" /\ pc' = "committed"
  /\ Save([mem EXCEPT !.fromReader = screen = "reader", !.splash = FALSE])
  /\ frame' = (IF frame = "none" THEN "none" ELSE "older")
  /\ armed' = TRUE /\ framed' = "failed"
  /\ slept' = IF screen = "reader" /\ Saved THEN book ELSE NoBook
  /\ UNCHANGED <<end, boot, touch, rtc, card, invalid, ui, trial, consented>>

\* goToSleep(): the reader's onExit() saves; a WiFi screen's would restart.
SleepExitsReader ==
  /\ pc = "committed" /\ screen = "reader" /\ pc' = "exited"
  /\ ExitsReader
  /\ slept' = IF Saved THEN slept ELSE NoBook
  /\ UNCHANGED <<end, boot, touch, rtc, card, frame, invalid, ui, armed, framed, consented>>

SleepExitsScreen ==
  /\ pc = "committed" /\ screen # "reader"
  /\ \E t \in {"home", "reader", "app"} :
       IF screen \in {"network", "ota"} /\ wifi /\ ~Returns(t)
         THEN Down("silent", t)
         ELSE pc' = "exited" /\ UNCHANGED <<end, rtc, mem, boot, ui>>
  /\ UNCHANGED <<touch, file, card, frame, invalid, history>>

\* loop() returned before the sleep screen replaced the activity: no onExit().
SleepExitsNothing ==
  /\ pc = "committed" /\ pc' = "exited" /\ slept' = NoBook
  /\ UNCHANGED <<end, mem, boot, kept, ui, trial, armed, framed, consented>>

\* Mutant of FallsAsleep: only a missing Quick Resume frame is dealt with.
FallsAsleepKeeping ==
  /\ pc = "exited" /\ Down("sleep", rtc)
  /\ \/ frame' = "last" /\ framed' = "saved"
     \/ UNCHANGED frame /\ framed' = "removed"
  /\ UNCHANGED <<touch, file, card, invalid, trial, armed, slept, consented>>

\* The frame is saved (Quick Resume) or a stale one removed, if the card lets it.
FallsAsleep ==
  /\ pc = "exited" /\ Down("sleep", rtc)
  /\ \/ card /\ frame' = "last" /\ framed' = "saved"
     \/ card /\ frame' = "none" /\ framed' = "removed"
     \/ UNCHANGED frame /\ framed' = "failed"
  /\ UNCHANGED <<touch, file, card, invalid, trial, armed, slept, consented>>

\* A panic anywhere, also between silentRestart*()'s marker and its restart.
Crashes ==
  /\ pc # "off" /\ slept' = NoBook
  /\ \E t \in {rtc} \cup (IF pc = "run" THEN {"home", "reader"} ELSE {}) : Down("crash", t)
  /\ UNCHANGED <<touch, file, card, frame, invalid, trial, armed, framed, consented>>

\* The battery is empty or disconnected, with the device running or not.
PowerCut ==
  /\ Down("cut", "none")
  /\ slept' = IF pc = "off" THEN slept ELSE NoBook
  /\ UNCHANGED <<touch, file, card, frame, invalid, trial, armed, framed, consented>>

\* A reset over USB, a serial RESTART or a watchdog that is no panic; no deep-sleep wake.
PlainReset ==
  /\ pc \in {"off", "run"} /\ rtc = "none" /\ Down("restart", "none")
  /\ slept' = IF pc = "off" THEN slept ELSE NoBook
  /\ UNCHANGED <<touch, file, card, frame, invalid, trial, armed, framed, consented>>

InReader == EntersReader \/ FailsToOpen \/ OpensBook \/ LeavesReader \/ OpensScreen \/ Acknowledges
GoesToSleep ==
  SleepSaves \/ SleepExitsReader \/ SleepExitsScreen \/ SleepExitsNothing \/ FallsAsleep
GoesDown ==
  \/ RestartsSilently \/ GoesOn \/ ReturnsToReader \/ InstallsFirmware
  \/ Crashes \/ PowerCut \/ PlainReset

Next == Setup \/ InReader \/ GoesToSleep \/ GoesDown
Spec == Init /\ [][Next]_vars

-----------------------------------------------------------------------------
(* Properties.                                                             *)

\* A book that takes the device down while it is being reopened is reopened once: until
\* its reader has left, or the user has opened a book, an ordinary boot goes elsewhere
\* ("Clear app state to avoid getting into a boot loop", main.cpp:920).
NoResumeLoop ==
  [][pc = "route" /\ pc' = "opening" /\ boot.resume # "Silent" => ~trial]_vars

\* A sleep that left the reader with every save written comes back to that book, whatever
\* was slept off, rejected or reset in between, unless the boot is one that goes elsewhere.
WakeResumesBook ==
  [][pc = "route" /\ pc' \in {"opening", "run"} /\ slept # NoBook /\ Ordinary /\ ~boot.back
       => pc' = "opening" /\ book' = slept]_vars

\* The splash is left out at most once per sleep, while the save that re-arms it reaches
\* the card: also when the boot that left it out crashed at once (main.cpp:818).
SplashlessOncePerSleep ==
  [][pc = "off" /\ pc' = "present" /\ boot'.resume = "SplashlessWake" => armed]_vars

\* The frame shown on waking is the one of the sleep that ended, and none is shown after
\* a sleep that removed the older ones (main.cpp:485).
WakeShowsItsFrame ==
  [][pc = "present" /\ pc' = "route" /\ boot.resume = "SplashlessWake" /\ boot.after = "sleep"
       => /\ framed = "saved" => frame = "last"
          /\ framed = "removed" => frame = "none"]_vars

\* The update screen is entered only when no image was rolled back, or the user has
\* chosen to go on with this very one; an older consent does not do
\* (OtaRollbackRecoveryPlan.h).
UpdatesNeedConsent ==
  pc = "run" /\ screen = "ota" => invalid \in consented \cup {NoDigest}

\* Whatever ends setup(), the boot that follows is no silent one (main.cpp:648).
SetupLeavesNoMarker ==
  [][(pc \in {"present", "route", "opening"}) /\ pc' = "off" => rtc' = "none"]_vars

\* Once the device has committed to sleep, no screen's onExit() restarts it against the
\* user's gesture (main.cpp:248).
SleepIsFinal == [][(pc \in {"committed", "exited"}) /\ pc' = "off" => end' # "silent"]_vars
=============================================================================
