# A verification project for the Midad firmware

Midad is the firmware of a family of e-ink readers built on the ESP32: one
program, two FreeRTOS tasks of its own, a Bluetooth host task, one 2.4 GHz
radio for Bluetooth and WiFi, an SD card that holds books and every setting,
and a device that spends most of its life in deep sleep. This directory holds
TLA+ models of the parts whose correctness depends on the order in which things
happen, the TLC configurations that check them, and TLAPS proofs of their safety
properties. Paths below are relative to the repository (`src/src/main.cpp` is
`src/main.cpp` of the firmware).

Contents: [inventory](#inventory) · [modules](#modules-and-code) ·
[runs](#runs-and-bounds) · [fairness](#fairness) · [proofs](#proofs) ·
[findings](#findings) · [observed, without a run](#observed-without-a-run) ·
[not modelled](#not-modelled) · [plan](#plan)

To check a module: `tlc -workers 2 -config RenderSync.cfg MCRenderSync`; to check
its proofs: `tlapm RenderSyncProofs.tla`.

## Inventory

For each part: its state, its operations, whom it talks to, what is hard, and
what makes it correct.

**User interface tasks and rendering** (`src/activities/ActivityManager.cpp`,
`RenderLock.h`). *State*: `currentActivity`, `renderingMutex`, one
direct-to-task notification value per task, `requestedUpdate`,
`waitingTaskHandle`. *Operations*: `requestUpdate(immediate)`,
`requestUpdateAndWait()`, the pending-action switch in `loop()`,
`renderTaskLoop()`. *Talks to*: every activity (called back under the lock, or
not), `HalPowerManager` (the power lock of a pass), the display. *Hard*: two
tasks of equal priority, a notification value that remembers one event and not
whose it was, a 5 s timeout that races with a late answer. *Correct when* no
destroyed activity is drawn, no repaint is lost, a wait returns, and returns
with its frame when no pass was drawing beside the change.

**Activity navigation** (`ActivityManager.cpp`, `Activity.cpp`). *State*: the
current activity, the stack below it, at most one pending action with its
activity, a result handler per activity. *Operations*: push, pop, replace,
`startActivityForResult`, `finish`, the gestures, `goToSleep()`. *Talks to*:
activity callbacks, which call back into it; the Bluetooth peripheral, torn down
before `onEnter()`. *Hard*: re-entrance (a handler, `onEnter()` and `loop()` may
all navigate), a second call in one callback, gestures in between. *Correct when*
a result reaches the handler registered for that child, an activity has one
owner, and `loop()` ends.

**Firmware update** (`src/network/FirmwareFlasher.cpp`, `OtaBootSwitch.cpp`,
`OtaUpdater.cpp`). *State*: two application partitions, two otadata entries, the
file on the card. *Operations*: validate, copy, switch; download, verify, switch;
the bootloader's choice, confirmation and rollback. *Hard*: power cuts between any
two flash operations; sequence-number parity; invalid entries left by a rollback;
a file read twice. *Correct when* the next boot always finds a complete, checked
image, and until the commit the old one.

**Bluetooth link and WiFi jobs** (`lib/hal/BlePeripheralManager.cpp`,
`BleCommandDispatcher.cpp`, `BleWifiScanCache.cpp`,
`BleWifiAutoConnectCache.cpp`, the gate in `main.cpp`). *State*: `state_`, the
controller, a zombie watch, a cool-down, the undrained command, two job state
machines with cached outcomes. *Operations*: `begin()`, `end()`, `poll()`,
`pump()`, two `tick()`s, the host task's callbacks. *Talks to*: screens that use
WiFi, the phone. *Hard*: the gate looks once per iteration; commands finish
iterations later, over connections that no longer exist; NimBLE's host task runs
beside all of it. *Correct when* the radio has one user, job and link come back,
and what is reported is current.

**Saved WiFi networks** (`WifiCredentialStore.cpp`,
`lib/Serialization/PersistableStore.cpp` and four callers). *State*: a list in
memory, `wifi.json`. *Hard*: the file is replaced in place as a whole, so that a
caller that has not loaded it erases the rest; loads that fail; power cuts in the
middle of a save.
*Correct when* a save loses nothing that was readable, and an SSID has one entry.

**Boot and deep sleep** (`src/main.cpp`, `SilentRestart.h`, `CrossPointState`,
`OtaRollbackRecoveryPlan.cpp`). *State*: what survives the reset: `state.json`,
the sleep frame file, an RTC marker, the bootloader's record of a rolled-back
image. *Operations*: `setup()`'s presentation and routing, `enterDeepSleep()`,
five kinds of silent restart, the saves around the reader. *Hard*: any of these
may be the last thing that happens, and a save may fail without anybody looking.
*Correct when* a wake-up resumes the book, a book that crashes does not loop, the
one-shot splash flag is one-shot, sleeping is final.

**Power management** (`lib/hal/HalPowerManager.cpp`, `loop()` and `enterDeepSleep()`
in `main.cpp`). *State*: `currentLockMode` under `modeMutex`, the flag
`isLowPower`, the CPU's frequency, the chip's armed wake sources under
`sleepMutex`. *Operations*: `setPowerSaving()`, the scoped lock, `lightSleep()`,
`onEinkBusyWaitSlice()`, called by both tasks. *Talks to*: the render task's
passes, WiFi and BLE (asked whether they run). *Hard*: `setPowerSaving()` reads
the lock word and its own flag with no lock; `lightSleep()` decides before it has
the mutex; a second holder's lock is ignored. *Correct when* a halted chip always
has something to wake it, the clock comes back for whoever holds the lock, and a
holder is frozen for one slice at most.

**Crash reports** (`lib/hal/HalSystem.cpp`, `FouladDeviceTracking.cpp`,
`FouladOpdsHooks.cpp`, `CrashActivity.cpp`). *State*: an RTC marker and the
panic's text, `/crash_report.txt`, the server's list. *Operations*: the panic
handler, `checkPanic()` at the next boot, the upload at every connection or from
the crash screen, the removal. *Hard*: RTC memory outlives the boot that reads it,
a card or a server may fail at each step, another firmware may be running by
then, a later one or, after a rollback, an earlier one. *Correct when* a panic is
reported once at most, under the version that crashed, and is lost only to a newer one.

**KOReader synchronisation** (`KOReaderCredentialStore.cpp`,
`flushPendingKOReaderSync()` in `FouladDeviceTracking.cpp`,
`KOReaderSyncActivity.cpp`). *State*: `koreader.json` with one queued position,
the book's own position, the server's record per document hash. *Operations*:
leaving the reader queues, every connection flushes, the Sync item fetches,
decides, applies or uploads. *Talks to*: the server, and through it the user's
other devices. *Hard*: two ways for a position to reach the server, an answer
that is old when it is used, saves that fail. *Correct when* a queued position
is delivered or replaced, a smart sync levels both sides and never takes the
reader back.

**Update check** (`OtaUpdater.cpp`, `OtaUpdater.h`, `OtaUpdateActivity.cpp`).
*State*: the channel, `ota_check.txt` with the last answer and its ETag, the
confirmation carried over a restart. *Operations*: the conditional request, the
cached answer to a 304, the comparison of versions, the second check and the
install. *Hard*: the file may be torn, of the other channel, or of the board the
card was in before; releases appear between the two checks; a candidate's version
compares equal to its final one. *Correct when* a check tells what the server
has, and no install goes back or changes the board.

**Web server, WebDAV, downloads, catalogs**: requests on the main task that read
and write files. Their changes to the saved networks are in `WifiStore`.

**Settings and other stores, statistics, reader, book formats, fonts, input,
drivers, applications and games, vendored libraries**: sequential code over large
data, or wrappers around hardware. `PROJECT.json` gives the reason for each.

How the parts interact: `main.cpp`'s `loop()` runs, in this order and once per
iteration, the Bluetooth gate, `poll()`, `pump()`, the two job ticks, and
`activityManager.loop()`. The activity manager is the only one that enters and
leaves activities; it tears Bluetooth down before it enters one. Screens that use
WiFi end in a silent restart on boards without touch, which goes through
`setup()` again. The render task only meets the main task through the mutex and
the notifications. `enterDeepSleep()` runs on the main task and calls the
manager's `loop()` itself.

## Modules and code

| Module | Models | Variables and the state they stand for |
|---|---|---|
| `Screen` | what the activity manager promises an activity: ask, and a current frame appears | versions of what is to be drawn, asked for, on the panel |
| `RenderSync` | both tasks, their mutex and notifications | `mPc`, `rPc`: the two program counters; `mutex`, `rNotified`, `mNotified`, `waiting` (`waitingTaskHandle`), `requestedUpdate`; `cur`, `alive`: `currentActivity` and the objects that exist; `ver`, `drawVer`, `shown`: versions standing for the content of frames; `behind`, `blankWake`: history, what is known of the pass that answers a wait |
| `ActivityStack` | navigation on the main task | `cur`, `stack`, `pendingAction`, `pendingActivity` as in the code; `handlerFor`: the child a `resultHandler` was registered for; `phase`, `calls`, `chain`: where `loop()` is and what the running callback may still do |
| `OtaFlash` | both update paths and the bootloader | `part`, `otadata` as in flash, an image being a model value; `pc`, `dest`, `source`, `checked`: the update under way |
| `BleLink` | the Bluetooth link, the dispatcher's asynchronous commands, both jobs, the gate | `loopPc`: where `main.cpp`'s `loop()` is; `state`, `zombie`, `cooldown`, `cmd`, `scan`, `conn`, `lastConnected` as in the code; `radio`, `link`: the controller; `wifi`: who set the WiFi mode |
| `OtaCheck` | the version check and what is installed on its word | `channel`, `file` (`ota_check.txt`, with how many of its lines were written), `state`, `auto`, `latest` as in the code; `firmware`: what it runs; `list`, `tags`: what GitHub has |
| `WifiStore` | the saved networks and all their callers | `nets`, `last`; `file`: `wifi.json`, missing, torn or whole; `pc`, `todo`: the save under way; `dirty`, `before`, `blind`: history |
| `BootFlow` | going down and coming back | `mem`, `file`: `APP_STATE` in memory and on the card; `rtc`, `frame`, `invalid`: the other things that survive; `boot`: `setup()`'s locals; five history variables |
| `PowerLock` | clock, power lock and light sleep of both tasks | `mode`, `isLowPower`, `clock`, `sleepMutex`, `armed` as in the code; `mPc`, `rPc`, `ps`, `zPc`: where each task is in `loop()`, its pass, `setPowerSaving()` and a sleep |
| `ReportSlot` | what a queue of one report promises | the waiting report, those the server has |
| `CrashReport` | a crash from the panic to the server | `image`, `trial`: the firmware, and whether the bootloader may go back; `marker`, `reset`: RTC memory and the reset reason; `culprit`, `rolled`: history, who panicked last and whether the bootloader went back since; `file`; `sent`: uploaded and not yet removed; `known`, `got`: the server |
| `PositionSync` | the reading position and the KOReader server | `store`, `disk`: `koreader.json` in memory and on the card; `local`, `server`: the positions; `sync`, `fetched`: where the sync activity is; four history variables |

`MCRenderSync`, `MCActivityStack`, `MCOtaFlash` and `MCWifiStore` add symmetry
sets; the other modules are checked as they are.
`CrashReport` implements `ReportSlot` and `RenderSync` implements `Screen`. Each action stands for one
handler, or for the part of one between two points where another actor can get
in; `PROJECT.json`'s `map` names the lines. Definitions whose comment begins with
"Mutant of" are plausible bugs, never part of a specification: for each checked
property there is one that, put in the place of the original, violates it.

### Two modelling choices

*Frames as versions.* `RenderSync` counts changes of what the current activity
would draw. A pass notes the counter when it has taken the lock (`drawVer`) and leaves
a frame on the panel that counts as its oldest part. Activities make such changes with
or without the `RenderLock` (`SnakeActivity::step()`, `AppsActivity`, `CrashActivity`
take none), so the counter may move while the pass draws, and the frame may be of any
version between the two (`FinishDrawing`). Showing an old version, or a repaint that
never comes, is then a relation between counters.

*Where a step may be interrupted.* `RenderSync`, `BleLink`: between any two
accesses to state another task can see. `ActivityStack`, `WifiStore`: the main
task alone touches the state, so an operation is a step, and what is split is what
re-enters (callbacks) or what a power cut can divide (a save). `BootFlow`,
`OtaFlash`, `CrashReport`, `PositionSync`: at every write to storage that survives, and at
every request, since others write to the server meanwhile. `OtaCheck`: a boot is one check,
so its steps are the request, the confirmation and the install. `PowerLock`: at every
access to a word the other task can see; while one task has halted the chip, neither moves.

### A pass with no activity

`renderTaskLoop()` draws nothing when `currentActivity` is null, but answers the
waiter all the same (`ActivityManager.cpp:89-97`). A notification can stay behind
when the last activity is popped; the pass it starts then runs after
`goHome()` has launched Home, or before. If it read the null pointer before and
takes the waiter out after, and Home's `onEnter()` waits, the wait ends with
nothing drawn. `blankWake` records that the last wake-up came from such a pass, and
`WaitedFrameIsShown` leaves it out: the frame comes with the next pass, which that
caller has itself asked for. No comment or test claims more.

### A pass beside a change

A pass answers whoever waits when it ends, also a caller that came while it drew
(`ActivityManager.cpp:89-97`). If that caller changed a field with no lock after the pass
had begun, the frame may lack the change, in whole or in part. `behind` records that such
a pass was under way when the wait began, and `WaitedFrameIsShown` leaves those waits
out; the caller's own request is still with the render task, so that the frame
comes with the next pass, which is what `NoLostUpdate` and `ImplementsScreen` say of
every request.

## Runs and bounds

| Run | Checks | Bounds, and why they are enough |
|---|---|---|
| `RenderSync` | `DrawnActivityIsCurrent`, `NoLostUpdate`, `WaitedFrameIsShown`, `WaitReturns`, and that the protocol implements `Screen` | 3 addresses: current, one stacked, one being constructed. 3 versions: one on the panel, one in a pass, one newer. 1 timeout: a wait that ran out followed by another |
| `ActivityStack` | `ResultReachesItsHandler`, `EntersWithoutBle`, `LoopTerminates` | 3 objects: a parent, a child, and the one that intervenes. 2 calls per callback: the second replaces the first's. Chains of 2 callbacks: a handler whose navigation enters another activity |
| `OtaFlash_safety` | `AlwaysBoots`, `OldFirmwareUntilCommit`, `SwitchTakesEffect`, `RunsOnlyChecked` | sequence numbers to 6: three updates, so both parities and both slots are reused. 2 fitting images tell old from new; 1 foreign; 1 swap of the file |
| `OtaCheck` | `CheckIsTrue`, `NeverGoesBack`, `RunsOwnBoard` | 3 changes of the release list: what was cached, what the second check finds, and one between. 2 versions with 2 candidates each: a fix of an older version can come after a candidate of the next. 3 boards: this one, one with the same chip, one with another |
| `BleLink` | `RadioExclusion`, `StateTellsRadio`, `OutcomeIsCurrent`, `RequestsFinish`, `BleComesBack` | no bounds: the state is finite. Clocks are abstracted to "may have expired" |
| `WifiStore_safety` | type, `OneEntryPerSsid`, `SavesKeepNetworks` | a list of 2 for 3 names: a full list can refuse. 2 passwords: an update is visible |
| `WifiStore_hotspot` | violated: adding a network keeps the others | same |
| `BootFlow` | `UpdatesNeedConsent`, `NoResumeLoop`, `WakeResumesBook`, `SplashlessOncePerSleep`, `WakeShowsItsFrame`, `SleepIsFinal` | 2 books, 2 rolled-back images: the right one can be told from another. Nothing is counted, so histories are unbounded |
| `PowerLock` | `ArmedWhileAsleep`, `OneSlicePerLock`, `ClockRestored` | 1 refused frequency change; nothing else is counted. Idle time is one of the three ranges the code tells apart |
| `CrashReport` | `NoStaleReport`, `LabelSurvivesUpdate`, that the file implements `ReportSlot`, `ReportArrives` | 3 panics: one delivered, one waiting, one that replaces it. 2 versions: the one that crashed, and one installed after it or gone back to |
| `PositionSync` | `SmartSyncAgrees`, `QueueKeepsPosition`, `SmartNeverGoesBack`, `QueueDrains` | 2 positions: behind and ahead. 2 queued positions: the second replaces the first. 1 failed save |
| `PositionSync_remote` | violated: a smart sync applies a remote position that is further | 1 queued position, no fault |

The type invariants and a few more invariants are not in these runs: they are proved (see
[proofs](#proofs)).

What the properties say, in terms of the code, stands before each of them in its
module. The ones that took several actors to be worth checking:

- `NoLostUpdate` and `ImplementsScreen`: whatever the interleaving of deferred and
  immediate requests, waits, switches and passes, a repaint asked for is on its
  way, and some frame as new as the request is eventually painted.
- `ResultReachesItsHandler`: pushes without a handler, second pushes that replace the
  pending one, gestures and drops never bring a result to another handler.
- `OldFirmwareUntilCommit`, `SwitchTakesEffect`: over every cut, rollback and reuse of
  slots, the otadata arithmetic of `OtaBootSwitch.cpp` selects what was meant.
- `RadioExclusion`: the gate that reads WiFi once per iteration is enough, because
  every path that turns WiFi on first ends BLE.
- `SavesKeepNetworks`: over power cuts and card errors, every caller but one keeps
  what could be read, as long as its load did not fail on an intact file.
- `LabelSurvivesUpdate`: over updates, hangs, boots without a card and cuts, a panic is
  reported before any other firmware is installed, so the version written is the one
  that crashed.
- `CheckIsTrue`, `NeverGoesBack`: a 304 answered from a torn file, another channel's file
  or another board's is never taken for the present one in a way that installs backwards
  or across boards.
- `ClockRestored`: `setPowerSaving()` may slow the clock down beside a lock that is
  being taken; the main task's next iterations put it right.
- `ImplementsSlot`: two screens that upload, failed removals and power cuts lose a report
  to nothing but a newer one.
- `SmartSyncAgrees`, `SmartNeverGoesBack`: two match methods, the queue and other devices.
- `NoResumeLoop`, `WakeResumesBook`: five places write the three fields that decide
  where a wake-up goes; together they resume the book, and give up after a crash.

Some premises deserve a word. `WaitedFrameIsShown` is stated while no wait has run
out, because a late notification answers a later wait, and for waits that no pass begun
before the change can answer (see [above](#a-pass-beside-a-change) and
[observed](#observed-without-a-run)). `SavesKeepNetworks` is stated up to a load of an
intact `wifi.json` that fails and whose caller goes on (`blind`): the next save then
erases the networks, as the code does. `LabelSurvivesUpdate` is about complete reports
whose version could be read back, written by a firmware the bootloader had not gone
back to; the model delivers the others too, under whatever version the code gives them.
`OldFirmwareUntilCommit` and its relatives are stated while the card's file is the one that
was validated, since the code reads it twice. `AlwaysBoots` needs neither: the
other partition holds a complete image that was running.

`WakeResumesBook` is about a sleep whose two saves reached the card. When they do
not, the device comes back to Home, which is what the code does and no property
denies. `SmartSyncAgrees` is about a sync in peace (`alone`): since the user asked, no other
device wrote and no request failed. `QueueKeepsPosition` is about a card that takes the
saves. `CheckIsTrue` leaves the board of a cached answer open when the file came with the
card of another device; `RunsOwnBoard` says what stops that one. `NeverGoesBack` rests on
the candidates and the final release of a version being published in order, as `Publish`
requires: the code takes any other tag of a candidate's version for a newer one.

## Fairness

- `RenderSync`: both tasks have priority 1 and FreeRTOS time-slices equal
  priorities, so a step that stays possible is taken (WF). The mutex is contended,
  and the main loop yields with it free once per iteration: SF on taking it in the
  render task. An activity's `loop()` returns, so the end of the manager's `loop()`
  is reached again and again: SF on `EndOfLoop` and `FinishPop`. Nothing is assumed
  of what activities choose, nor that the 5 s limit ever strikes.
- `Screen`: WF of painting while a repaint is due: the promise.
- `ActivityStack`: callbacks return, and the `while` loop goes on (WF). A callback
  chain has at most `MaxChain` callbacks that navigate: an activity that finishes
  into another that finishes into it, forever, would not terminate in the code
  either.
- `BleLink`: `loop()` goes on and time passes (WF); a job's timeout expires although
  its tick alternates with the others (SF). `BleComesBack` also needs NimBLE to start
  for once when it is asked again and again (`FairStart`); without it the code
  promises nothing, and `RequestsFinish` does not use it.
- `PowerLock`: both tasks have the same priority and each slice of a refresh ends in a
  yield, so the main task, which can go on again and again, does (SF on `MainProgress` and
  on its sleep); its waits for the render task end, as they have a limit and a mutex is
  handed on (SF on `EndOfWait`); a sleep in the render task and time go on (WF). Nothing
  is assumed of the passes: the render task may draw forever.
- `CrashReport`: a reset boots, and the device sleeps and is woken (WF). That a boot with
  a mounted card comes again and again, and a connection on which the server answers
  (SF), is the user's part; without it nothing can be promised.
- `PositionSync`: the same for a connection on which the server answers (SF); the save
  after an upload, the end of the reader and the steps of the sync go on (WF).
- `OtaFlash`, `OtaCheck`, `WifiStore`, `BootFlow`: only safety.

## Proofs

Every invariant and every action property of the passing runs is proved for every value of
the constants: any number of activities, networks, images, boards, releases, books, digests,
crashes or positions, any bound. So is what no run repeats: the type invariants,
`HandlersMatchStack`, `OwnedOnce`, `RollsBack`, `CachesExclude`, `RadioReturned`,
`WantedOnItsScreen`, `SetupLeavesNoMarker`, `FlagTellsClock` and `DeepSleepUnarmed`.

| Module | Proves about |
|---|---|
| `RenderSyncProofs` | `RenderSync`, and that it implements `Screen` |
| `ActivityStackProofs` | `ActivityStack` |
| `WifiProofs` | `WifiStore` and `BleLink` |
| `UpdateProofs` | `OtaFlash` and `OtaCheck` |
| `BootFlowProofs` | `BootFlow` |
| `PowerLockProofs` | `PowerLock` |
| `CrashReportProofs` | `CrashReport`, and that it implements `ReportSlot` |
| `PositionSyncProofs` | `PositionSync` |

Two of them extend two components that belong together but share no variable. That is why
`BleLink` and `OtaCheck` have names of their own for what every component has: `LinkInit`,
`LinkNext`, `LinkSpec` and `LinkTypeOK`, `CheckInit`, `CheckNext`, `CheckSpec` and
`CheckTypeOK`.

For each component, `IInv` (`LinkInv`, `CheckInv`) is the inductive invariant; one lemma
shows that `Init` establishes it, others that each action keeps it, `Invariance`
(`StoreInvariance`, `LinkInvariance`, `CheckInvariance`) is `Spec => []IInv`, and every
other theorem follows from it: an action property because a step from a state of the
invariant has it.

- *RenderSync.* The properties are not inductive: one needs to know who holds the mutex
  in which state of the two tasks (`LockInv`), when there is a current activity and that
  it is alive (`CurInv`), that no part of a frame is older than the pass that drew it
  (`PassInv`), and that, until a wait runs out, the wake-up of a waiting call is in
  exactly one place: the slot, the render task's hand, or the notification, and comes
  from a pass as new as the call unless one was `behind` (`WaitInv`, `RecentPass`).
  `RefinesScreen` shows that each step of the protocol is a step of `Screen` or a
  stutter. Assumptions: `ActivityAssumption`, `BoundsAssumption`.
- *ActivityStack.* `HasCurrent` says in which phases there is an activity, and
  `CurrentHandler` that the current activity's handler is for the child it is about to
  push, or that the activity is about to go, and that what is pending starts without one.
  They close `HandlersMatchStack` under pushes and pops. `LaunchesWithoutBle` needs the
  type of the stack: a Pop, the one way to a current activity that does not end BLE,
  uncovers one that was on it. Assumption: `StackAssumption`.
- *OtaFlash.* An update never writes the running partition, and the running image is
  confirmed before it starts and stays so (`UpdateUnderWay`); without a swap of the file
  flash holds only checked images (`Clean`); from the commit on the new entry beats the
  other (`Committed`). Erasing the slot that is not active changes neither the active slot
  nor its number (`EraseKeepsActive`), so that computing both once, as the code does, is
  the same as computing them twice, as the model does. Assumptions: `ImageAssumption`,
  `BoundsAssumption`.
- *OtaCheck.* The lines of the file were written together: its tag and its board's asset
  are those of the release its ETag names (`FileRemembers`), so that a file whose ETag still
  fits holds the head of its channel. The head of a channel is the latest of its version
  (`HeadsAreLatest`); a candidate published meanwhile cannot be of the version of a final
  head, as it would have to be later than it. Hence an answer of the running version is that
  version or a later one (`AnswerIsNoEarlier`), which is what `IsVersionNewer`, blind to the
  order of candidates, leaves open. That no other board's image is installed follows from
  the two tests of `WrongDevice` alone. Assumptions: `BoardsAssumption`, on the one image
  without a tag that this chip may run, and `ReleaseBounds`.
- *WifiStore.* `OneEntry` says that the lists in memory and in the file are `Distinct`; lemmas
  on lists (`UpdateInPlace`, `AppendNew`, `RemoveSlot`, `Thinned`) show that every operation
  keeps that, and loses nothing but what it is given. What a save has at stake (`AtStake`) is
  what could be read when it began, or now. `Known` says who may save: outside the hotspot,
  while a save is due, a screen that has loaded the list is up or a connection is pending,
  each network at stake is in memory or was changed on purpose, up to a load that failed
  (`Informed`). It holds at once after a load, and where there is no whole file there is nothing at stake (`NoContent`); then
  `KnowledgeStays` carries it over updates, removals and restarts of the save. Assumption:
  `StoreAssumption`.
- *BleLink.* `begin()` runs alone with WiFi off (`InBegin`); past the gate BLE runs only
  where it is wanted (`PastGate`); one of the two jobs is always idle (`OneIdle`). No
  assumption.
- *BootFlow.* The properties speak of boots, whose outcome was settled steps or crashes
  earlier by what reached the card; a save may have been refused or torn, so each part of
  the invariant says something of *both* copies of the state. While a resume is on trial
  both copies would keep `setup()` from another one, by the count or by "not from the
  reader" (`TrialOnRecord`); the book that was slept on is in the copy the next boot looks
  at (`SleptOnRecord`); without an unused sleep both copies ask for the splash
  (`ArmedOnRecord`); both hold only digests that were consented to (`ConsentKept`); up,
  the device has consumed the marker (`Control`). `FileStep`, `OtherStep` and
  `RestartSaves` say what any step leaves on the card, `AckedStep` and `SplashStep` who
  changes which field. Assumption: `BootAssumption`.
- *PowerLock.* The holder of `sleepMutex` arms its sources one by one and strips them before
  it gives the mutex back (`ArmInv`); the lock word stands for the one valid lock
  (`LockInv`); a slice begun under the render task's lock was decided before it
  (`SliceInv`). Only the main task slows the clock down, and never while the render task
  is about to restore it, since it would have seen the lock or the flag (`FlagInv`).
  Assumption: `MaxFailsAssumption`.
- *CrashReport.* At most one panic is unreported in RTC memory, and the reports written and that
  one are paid for by panics (`CountInv`); while one is unreported, the firmware that
  panicked is the one that runs, unless the bootloader went back: an update needs the card,
  and a boot with a card has consumed the marker (`CulpritInv`); so a whole file names the
  version that crashed (`FileInv`); what is about to be removed is at the server (`SentInv`), so that removing
  it is `ReportSlot`'s `Empty`. `StepSimulation` maps each step to a step of
  `ReportSlot` or a stutter, and `Implements` concludes `Spec => ImplementsSlot`.
  Assumption: `BoundsAssumption`.
- *PositionSync.* An entry is cleared only once the server has taken it, nothing touches it
  in between, and while no save has failed memory and card agree (`QueueInv`); in a smart
  sync that nobody disturbed, what was fetched is still the server's furthest position and
  the decision taken from it still fits (`SmartInv`). Assumption: `BoundsAssumption`.

The list that `fromJson()` thins out is described, not computed: `Accepted` is the set of the
slots in their order, which has one element. A recursive filter would compute the same list
(they agree in TLC on all lists up to length 4), but what a recursive definition does to every
list needs an induction that is beyond the provers here.

Only model-checked: liveness (`ClockRestored`, `ReportArrives`, `QueueDrains`, `WaitReturns`,
`LoopTerminates`, `RequestsFinish`, `BleComesBack`, and the fairness of `ImplementsScreen`,
whose safety part is `RefinesScreen`): it needs `ENABLED` and fairness, which are beyond TLAPS
here.

## Findings

Two runs show that the code disagrees with what the repository says of it.

1. `PositionSync_remote` — `USER_GUIDE.md:676` promises that smart sync applies a remote
   position that is further ahead. The sync screen first uploads the position the reader
   queued on leaving (`KOReaderSyncActivity.cpp:148`), which overwrites the further record
   of another device under the same document; the fetch that follows finds the device's
   own position, and the other device's progress is gone.
2. `WifiStore_hotspot` — the web server started as a hotspot has not loaded
   `wifi.json`; adding a network there saves a list with that one alone.

## Observed, without a run

Read in the code while modelling; each is in a model as the code has it, or outside
of it, and no run is about it.

Tasks, screens and power:

- Snake, the applications' list, the crash screen and others change what `render()`
  reads with no `RenderLock` (`SnakeActivity.cpp:100-137`, `AppsActivity.cpp:216-244`,
  `CrashActivity.cpp:83-87`). A pass that is drawing meanwhile, for a request made
  before, can answer the wait that follows with a frame that lacks the change, against
  "Request an immediate render and block until it completes" (`Activity.h:41`); inserting
  into the snake's vector while `render()` walks it is undefined.
- After a wait that timed out, the notification of a pass that had already taken the waiter
  stays behind (`ActivityManager.cpp:552`). The next wait consumes it and returns at once,
  still registered, and the one after it finds a waiter, which line 479 asserts cannot be.
- `requestUpdateAndWait()` can be answered by a pass that was under way, while the request
  it made itself starts another: the caller then runs beside a pass that holds the power
  lock. `BleWifiScanCache.cpp:83` takes the return as the confirmation that it does not.
- `goToSleep()` runs `loop()`, which looks at gestures and the outgoing activity's
  `loop()` first; either may discard or delay the sleep screen that
  `ActivityManager.cpp:364` wants up "immediately".
- A scan asked for over BLE ends while a screen opened since uses WiFi, and turns WiFi off
  under it (`BleWifiScanCache.cpp:41`).
- On a touch board `silentRestartToReader()` returns, and `MidadSyncActivity.cpp:212` has
  nothing after it: backing out of the sync screen stays there.
- A second power lock is ignored ("already held", `HalPowerManager.cpp:309`): when the
  first is released the CPU may slow down under the second holder.
- A pass's busy wait light-sleeps the chip whether or not BLE is up
  (`onEinkBusyWaitSlice()`), while `main.cpp:1301` keeps the main task from doing so; and the
  render-wait notes of `HalPowerManager.h:101` are never called. `enterDeepSleep()` does not
  wait for a slice of the render task.

Crash reports, positions and updates:

- The version on a report is that of the firmware that boots after the panic
  (`HalSystem.cpp:151`). When an image on probation panics and the bootloader goes back,
  the older firmware stamps it with its own, against "The version that CRASHED"
  (`FouladDeviceTracking.cpp:757`). A file, torn or whole, whose version cannot be read at
  the upload goes out under the uploader's version (`:766`), as the comment at `:703-705` says. Sending from the crash screen leaves the file, so it is sent
  again at the next connection; when the new file could not be written, Send sends the
  old one. A boot without a card leaves the marker set for the next.
- A manual sync that fails does not queue the position. A queued entry uploaded later
  overwrites a newer manual upload; it goes to whichever account is set then. Another
  device's write between the fetch and the upload is overwritten
  (`KOReaderSyncActivity.cpp:287`). `flushPendingKOReaderSync()` keeps a reference to
  the entry that `clearPendingSync()` resets (`FouladDeviceTracking.cpp:638`, `:660`).
- `ota_check.txt` has no field for the board, so a card from another board answers a 304
  with that board's URL until the next release, against "Each board updates from its own
  release asset" (`OtaUpdater.cpp:133`); the install then refuses the image. The second
  check may find another release than "this exact update" the user confirmed
  (`OtaUpdateActivity.cpp:328`).

Elsewhere:

- `WifiSelectionActivity.cpp:26` ignores whether `wifi.json` could be loaded. A load that
  fails on an intact file (a read error, no memory) leaves the list empty, and the saves at
  `:457` and `:588` replace the file; `BleCommandDispatcher.cpp:79-92` bails out in that
  case. `Storage.exists()` is taken to tell the truth, and serializing to have the memory
  it needs.
- The Bluetooth gate also asks that the current activity is no reader
  (`main.cpp:1004`); `BleLink` leaves that out, which gives it more starts than the
  code, and `BleComesBack` speaks of the time outside the reader.
- `end()` leaves `zombieSinceMs_` (`BlePeripheralManager.cpp:363`), so a watch from an
  earlier session can count for the next (`.h:173` says it is cleared).
- A central that connects between `advertising->start()` and the assignment of
  `state_` is up for NimBLE but not for the manager; its replies are dropped until it
  disconnects (`BlePeripheralManager.cpp:448`, `.h:147`).
- A finished job that the phone never reads stays `Done` or `Failed` and makes the
  other command answer `busy` (`BleWifiScanCache.cpp:56`, against `.h:36`); and a
  result is consumed although its reply may not be deliverable
  (`BleCommandDispatcher.cpp:311`, `BleWifiScanCache.h:45`).
- A stale notification answers later waits beyond one frame, since each of them leaves
  one behind in turn (`ActivityManager.cpp:509`, `:552`); presses made during a wait
  are kept (`:549`).
- `goHome()` and `finish()` in one callback drop the pending activity
  (`ActivityManager.cpp:394`, `:404`: "Should never happen in practice").
- A rename over the web is two saves, and the second may fail
  (`CrossPointWebServer.cpp:1667`): the old entry is gone, the new one is only in
  memory.
- A cold power-on without USB also counts as a press of the power button
  (`HalGPIO.cpp:324-343`), so the `showBootScreen = false` of a sleep that a power cut ended suppresses
  the splash, against `main.cpp:777` ("Only a verified deep-sleep wake may use the
  one-shot persisted flag").
- A power cut between `goToSleep()` and the removal of the frame file
  (`main.cpp:485`) leaves an older frame to be shown. `WakeShowsItsFrame` is about
  sleeps that end in sleep.
- `goToReader()` that runs out of memory at boot leaves no activity.

## Not modelled

- Inside modelled parts: BLE authentication and bonds, the commands that answer at
  once (they change files, not the link), the list of networks a scan returns, the
  condition that keeps some screens from the light panel, the deep-sleep backstop
  timer, the migration of `state.bin`, a USB boot of the PaperMono board, the choice
  among recent sleep images, the pending-sync jump, `clearAll()` of the saved networks (no caller), the obfuscation of passwords
  (a bit that says whether it still decodes); of the power manager the battery reading
  and pin holds; of the reports the statistics, debug log and device reports, which are
  sent again as a whole; of the sync the mapping of positions to XPaths; of the update
  check HTTP, redirects and the JSON parser.
- Parts: see the components with status `not_modelled` in `PROJECT.json`, each with its
  reason: vendored and generated code, pure I/O, sequential layout and parsing over
  large data, hardware wrappers. Most of the repository's lines are of these kinds: fonts
  and hyphenation tries in header files, expat, miniz and uzlib, and the layout and drawing
  of books and screens, where one task computes a result from its input and the
  repository's tests are the right tool.

External, modelled from how the code uses it: the ESP-IDF bootloader's selection, its
judgement of images on probation and the fall-back to the other partition; NimBLE's
controller and host events; GitHub's releases; the Foulad and KOReader servers and other
devices; the chip's light sleep; the replacement of a file in place by the SD library;
the battery; the card outside the device.

## Plan

What is left, in order.

1. `WifiSelection`: the screen's own state machine, composed with `WifiStore` and the
   radio of `BleLink`.
2. `PowerLock` composed with `RenderSync`: the former has a pass that starts at any time,
   the latter says when it does.
3. The web server's uploads (a file written in pieces, aborted, renamed), the settings'
   migration (`MidadAppSettings`), the pending statistics of the reports.
