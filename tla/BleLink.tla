------------------------------- MODULE BleLink -------------------------------
(***************************************************************************)
(* The Bluetooth link to the phone and its claim on the one radio it       *)
(* shares with WiFi: BlePeripheralManager, BleCommandDispatcher,           *)
(* BleWifiScanCache and BleWifiAutoConnectCache, driven once per iteration *)
(* by main.cpp's loop() in the order of loopPc:                            *)
(*                                                                         *)
(*   gate (begin, check, announce) -> poll -> pump -> scanTick -> connTick *)
(*        -> activity -> gate ...                                          *)
(*                                                                         *)
(* NimBLE's host task and the controller run beside it; their events can   *)
(* come between any two of these steps.  Clocks are abstracted: a timeout  *)
(* may expire at any time after it was armed.                              *)
(***************************************************************************)
EXTENDS Naturals

VARIABLES
  loopPc,        \* where the main task is in loop()
  display,       \* the Bluetooth screen, the light panel over it, a screen that uses
                 \* WiFi, or another one
  userRequested, \* userRequested_
  state,         \* state_
  radio,         \* NimBLE: not initialized, up and silent, up and advertising
  link,          \* a central: none, accepted by the controller, known to the host
  zombie,        \* zombieSinceMs_: 0, set, set kZombiePersistMs ago
  cooldown,      \* coolingDown_: no, and yes before and after kCooldownMs
  cmd,           \* pendingCommand_
  wifi,          \* who put WiFi in a mode other than WIFI_MODE_NULL
  scan,          \* BleWifiScanCache's state
  conn,          \* BleWifiAutoConnectCache's state
  lastConnected  \* its cached outcome

ble == <<state, radio, link>>
jobs == <<scan, conn, lastConnected>>
wish == <<display, userRequested>>
linkVars == <<loopPc, wish, ble, zombie, cooldown, cmd, wifi, jobs>>

Busy == {"PendingStart", "Scanning", "Connecting"}
Finished == {"Done", "Failed"}
Commands == {"wifi.scan", "wifi.autoconnect", "other"}

LinkTypeOK ==
  /\ loopPc \in {"gate", "check", "announce", "poll", "pump", "scanTick", "connTick",
                 "activity"}
  /\ display \in {"bluetooth", "panel", "network", "other"}
  /\ userRequested \in BOOLEAN
  /\ state \in {"Off", "Advertising", "Connected", "PausedLowMemory"}
  /\ radio \in {"off", "idle", "adv"} /\ link \in {"none", "taken", "up"}
  /\ link # "none" => radio = "idle"
  /\ zombie \in {"no", "seen", "old"}
  /\ cooldown \in {"no", "running", "over"}
  /\ cmd \in Commands \cup {"none"}
  /\ wifi \in {"null", "scan", "conn", "app"}
  /\ scan \in {"Idle", "PendingStart", "Scanning"} \cup Finished
  /\ conn \in {"Idle", "PendingStart", "Connecting"} \cup Finished
  /\ lastConnected \in BOOLEAN

LinkInit ==
  /\ loopPc = "gate" /\ display = "other" /\ userRequested = FALSE
  /\ state = "Off" /\ radio = "off" /\ link = "none"
  /\ zombie = "no" /\ cooldown = "no" /\ cmd = "none"
  /\ wifi = "null" /\ scan = "Idle" /\ conn = "Idle" /\ lastConnected = FALSE

\* isActive()
Active == state \in {"Advertising", "Connected"}

\* deinit(true): every peer is disconnected and the radio is silent.
Deinit == radio' = "off" /\ link' = "none"

\* end(): a no-op unless active.  It leaves zombieSinceMs_ as it is.
End ==
  IF Active
    THEN state' = "Off" /\ Deinit
    ELSE UNCHANGED ble

-----------------------------------------------------------------------------
(* loop(): the gate, begin() and poll().                                   *)

bleAllowedNow == userRequested /\ wifi = "null"

\* Not allowed: end().  Allowed and already active: begin() returns at once.
GateStops ==
  /\ loopPc = "gate" /\ ~bleAllowedNow /\ loopPc' = "poll" /\ End
  /\ UNCHANGED <<wish, zombie, cooldown, cmd, wifi, jobs>>

GateKeeps ==
  /\ loopPc = "gate" /\ bleAllowedNow /\ Active /\ loopPc' = "poll"
  /\ UNCHANGED <<wish, ble, zombie, cooldown, cmd, wifi, jobs>>

\* Mutant of MayBegin: whatever is not Off counts as already running.
MayBeginOff == bleAllowedNow /\ state = "Off"

\* Only Advertising and Connected end begin() early: Off and PausedLowMemory retry.
MayBegin == bleAllowedNow /\ ~Active

\* The cool-down or the heap gate refuses, or a NimBLE call fails.
BeginRefused ==
  /\ loopPc = "gate" /\ bleAllowedNow /\ ~Active /\ loopPc' = "poll"
  /\ cooldown' = IF cooldown = "over" THEN "no" ELSE cooldown
  /\ UNCHANGED <<wish, ble, zombie, cmd, wifi, jobs>>

\* advertising->start() has returned true: the controller is on the air.
BeginStarts ==
  /\ loopPc = "gate" /\ MayBegin /\ cooldown # "running" /\ loopPc' = "check"
  /\ cooldown' = "no" /\ radio' = "adv"
  /\ UNCHANGED <<wish, state, link, zombie, cmd, wifi, jobs>>

\* Mutant of BeginChecks: a failed check leaves the stack up.
BeginChecksNoDeinit ==
  /\ loopPc = "check"
  /\ loopPc' = (IF radio = "adv" THEN "announce" ELSE "poll")
  /\ UNCHANGED <<wish, ble, zombie, cooldown, cmd, wifi, jobs>>

\* isAdvertising() is FALSE when a central was accepted in between.
BeginChecks ==
  /\ loopPc = "check"
  /\ \/ radio = "adv" /\ loopPc' = "announce" /\ UNCHANGED <<radio, link>>
     \/ radio # "adv" /\ loopPc' = "poll" /\ Deinit
  /\ UNCHANGED <<wish, state, zombie, cooldown, cmd, wifi, jobs>>

BeginAnnounces ==
  /\ loopPc = "announce" /\ loopPc' = "poll" /\ state' = "Advertising"
  /\ UNCHANGED <<wish, radio, link, zombie, cooldown, cmd, wifi, jobs>>

\* radioIdle && !hasConnection, while state_ says Advertising.
ZombieSign == state = "Advertising" /\ radio = "idle" /\ link # "up"

PollKillsZombie ==
  /\ loopPc = "poll" /\ ZombieSign /\ zombie = "old" /\ loopPc' = "pump"
  /\ state' = "Off" /\ Deinit /\ zombie' = "no"
  /\ UNCHANGED <<wish, cooldown, cmd, wifi, jobs>>

\* The watch is updated in Advertising only.
PollWatches ==
  IF state # "Advertising" THEN zombie
  ELSE IF ~ZombieSign THEN "no"
  ELSE IF zombie = "no" THEN "seen" ELSE zombie

\* The rest of poll(), with enough heap or below kRunningFloorBytes.
PollHeap ==
  /\ loopPc = "poll" /\ ~(ZombieSign /\ zombie = "old") /\ loopPc' = "pump"
  /\ zombie' = PollWatches
  /\ \/ UNCHANGED <<ble, cooldown>>
     \/ Active /\ state' = "PausedLowMemory" /\ Deinit /\ cooldown' = "running"
  /\ UNCHANGED <<wish, cmd, wifi, jobs>>

-----------------------------------------------------------------------------
(* The dispatcher, and the two caches it fills and empties.                *)

requestScan == scan' = IF scan = "Idle" /\ conn = "Idle" THEN "PendingStart" ELSE scan
requestConnect == conn' = IF conn = "Idle" /\ scan = "Idle" THEN "PendingStart" ELSE conn

\* A finished job is consumed, an idle one requested; otherwise "in_progress".
\* checkSavedCredential() keeps a connect from being requested at all.
handleWifiScan ==
  /\ IF scan \in Finished THEN scan' = "Idle" ELSE requestScan
  /\ UNCHANGED <<conn, lastConnected>>

handleWifiAutoconnect ==
  /\ \/ conn \in Finished /\ conn' = "Idle"
     \/ conn \notin Finished /\ requestConnect
     \/ conn = "Idle" /\ conn' = "Idle"
  /\ UNCHANGED <<scan, lastConnected>>

\* pump(): runs whether or not BLE is up, and answers after it has dispatched.
Pump ==
  /\ loopPc = "pump" /\ loopPc' = "scanTick" /\ cmd' = "none"
  /\ CASE cmd = "wifi.scan" -> handleWifiScan
       [] cmd = "wifi.autoconnect" -> handleWifiAutoconnect
       [] OTHER -> UNCHANGED jobs
  /\ UNCHANGED <<wish, ble, zombie, cooldown, wifi>>

\* Mutant of ScanStarts: the radio is taken and BLE left to the next gate.
ScanStartsEarly ==
  /\ loopPc = "scanTick" /\ scan = "PendingStart" /\ loopPc' = "connTick"
  /\ wifi' = "scan" /\ scan' = "Scanning"
  /\ UNCHANGED <<wish, ble, zombie, cooldown, cmd, conn, lastConnected>>

ScanStarts ==
  /\ loopPc = "scanTick" /\ scan = "PendingStart" /\ loopPc' = "connTick"
  /\ End /\ wifi' = "scan" /\ scan' = "Scanning"
  /\ UNCHANGED <<wish, zombie, cooldown, cmd, conn, lastConnected>>

\* Mutant of ScanFinishes: the caches tick with BLE only.
ScanFinishesWithBle ==
  /\ loopPc = "scanTick" /\ scan = "Scanning" /\ Active /\ loopPc' = "connTick"
  /\ scan' \in Finished /\ wifi' = "null"
  /\ UNCHANGED <<wish, ble, zombie, cooldown, cmd, conn, lastConnected>>
\* The radio is returned with the result.
finishScan(result) == scan' = result /\ wifi' = "null"

\* The scan ends or fails, or kScanTimeoutMs has passed.
ScanFinishes ==
  /\ loopPc = "scanTick" /\ scan = "Scanning" /\ loopPc' = "connTick"
  /\ \E result \in Finished : finishScan(result)
  /\ UNCHANGED <<wish, ble, zombie, cooldown, cmd, conn, lastConnected>>

ScanWaits ==
  /\ loopPc = "scanTick" /\ scan # "PendingStart" /\ loopPc' = "connTick"
  /\ UNCHANGED <<wish, ble, zombie, cooldown, cmd, wifi, jobs>>

\* Mutant of finishConnect: only the timeout clears the cached outcome.
finishConnectKeeps(ok) ==
  /\ conn' = (IF ok THEN "Done" ELSE "Failed") /\ wifi' = "null"
  /\ lastConnected' = IF conn = "Connecting" THEN ok ELSE lastConnected

\* finishConnect(), after tick() has set lastConnected on a success.
finishConnect(ok) ==
  conn' = (IF ok THEN "Done" ELSE "Failed") /\ wifi' = "null" /\ lastConnected' = ok

\* Without a readable credential the job fails before it touches WiFi.
ConnStarts ==
  /\ loopPc = "connTick" /\ conn = "PendingStart" /\ loopPc' = "activity" /\ End
  /\ \/ conn' = "Connecting" /\ wifi' = "conn" /\ UNCHANGED lastConnected
     \/ finishConnect(FALSE)
  /\ UNCHANGED <<wish, zombie, cooldown, cmd, scan>>

ConnFinishes ==
  /\ loopPc = "connTick" /\ conn = "Connecting" /\ loopPc' = "activity"
  /\ \E ok \in BOOLEAN : finishConnect(ok)
  /\ UNCHANGED <<wish, ble, zombie, cooldown, cmd, scan>>

ConnWaits ==
  /\ loopPc = "connTick" /\ conn # "PendingStart" /\ loopPc' = "activity"
  /\ UNCHANGED <<wish, ble, zombie, cooldown, cmd, wifi, jobs>>

-----------------------------------------------------------------------------
(* activityManager.loop().  Entering an activity runs                      *)
(* prepareForActivityEnter(), that is End, before onEnter(); coming back   *)
(* to one does not.                                                        *)

NextIteration == loopPc = "activity" /\ loopPc' = "gate"
KeepsRest == UNCHANGED <<zombie, cooldown, cmd, jobs>>

Stays == NextIteration /\ UNCHANGED <<wish, ble, wifi>> /\ KeepsRest

OpensBluetooth ==
  /\ NextIteration /\ display = "other" /\ End
  /\ display' = "bluetooth" /\ userRequested' = TRUE
  /\ UNCHANGED wifi /\ KeepsRest

\* Back: BluetoothActivity::onExit(), and the screen below is shown again.
LeavesBluetooth ==
  /\ NextIteration /\ display = "bluetooth"
  /\ display' = "other" /\ userRequested' = FALSE
  /\ UNCHANGED <<ble, wifi>> /\ KeepsRest

\* The home gesture replaces the whole stack: onExit() of each, then Home enters.
GoesHome ==
  /\ NextIteration /\ display \in {"bluetooth", "panel"} /\ End
  /\ display' = "other" /\ userRequested' = FALSE
  /\ UNCHANGED wifi /\ KeepsRest

\* The frontlight panel is pushed over any screen: no onExit() there.
OpensPanel ==
  /\ NextIteration /\ display = "bluetooth" /\ End
  /\ display' = "panel" /\ UNCHANGED <<userRequested, wifi>> /\ KeepsRest

ClosesPanel ==
  /\ NextIteration /\ display = "panel"
  /\ display' = "bluetooth" /\ UNCHANGED <<userRequested, ble, wifi>> /\ KeepsRest

\* WifiSelectionActivity and the like: WiFi.mode() in onEnter() or later.
OpensNetwork ==
  /\ NextIteration /\ display = "other" /\ End
  /\ display' = "network" /\ wifi' \in {wifi, "app"}
  /\ UNCHANGED userRequested /\ KeepsRest

UsesWifi ==
  /\ NextIteration /\ display = "network" /\ wifi' = "app"
  /\ UNCHANGED <<wish, ble>> /\ KeepsRest

\* The screen's caller powers WiFi off (Settings, or a board with touch) ...
LeavesNetwork ==
  /\ NextIteration /\ display = "network" /\ display' = "other" /\ wifi' = "null"
  /\ UNCHANGED <<userRequested, ble>> /\ KeepsRest

\* ... or the screen ends in silentRestart().
DeviceRestarts ==
  /\ NextIteration /\ display = "network" /\ display' = "other"
  /\ userRequested' = FALSE /\ state' = "Off" /\ Deinit
  /\ zombie' = "no" /\ cooldown' = "no" /\ cmd' = "none"
  /\ wifi' = "null" /\ scan' = "Idle" /\ conn' = "Idle" /\ lastConnected' = FALSE

-----------------------------------------------------------------------------
(* NimBLE's host task, the controller, the phone and the clock.            *)

MainKeeps == UNCHANGED <<loopPc, wish, wifi, jobs>>

\* CONNECT_IND: advertising stops at once, the host hears of it later.
CentralConnects ==
  /\ radio = "adv" /\ radio' = "idle" /\ link' = "taken"
  /\ UNCHANGED <<state, zombie, cooldown, cmd>> /\ MainKeeps

\* onConnected(): ignored unless state_ already says Advertising.
onConnected ==
  /\ link = "taken" /\ link' = "up"
  /\ state' = IF state = "Advertising" THEN "Connected" ELSE state
  /\ UNCHANGED <<radio, zombie, cooldown, cmd>> /\ MainKeeps

ConnectionFails ==
  /\ link = "taken" /\ link' = "none"
  /\ UNCHANGED <<state, radio, zombie, cooldown, cmd>> /\ MainKeeps

\* onDisconnected(), before the server advertises again.
onDisconnected ==
  /\ link = "up" /\ link' = "none"
  /\ state' = IF state = "Connected" THEN "Advertising" ELSE state
  /\ UNCHANGED <<radio, zombie, cooldown, cmd>> /\ MainKeeps

AdvertisingRestarts ==
  /\ radio = "idle" /\ link = "none" /\ radio' = "adv"
  /\ UNCHANGED <<state, link, zombie, cooldown, cmd>> /\ MainKeeps

RadioDies ==
  /\ radio = "adv" /\ radio' = "idle"
  /\ UNCHANGED <<state, link, zombie, cooldown, cmd>> /\ MainKeeps

\* onCommandWritten(): a write overwrites one that was not drained.
onCommandWritten ==
  /\ link = "up" /\ cmd' \in Commands
  /\ UNCHANGED <<ble, zombie, cooldown>> /\ MainKeeps

TimePasses ==
  /\ \/ zombie = "seen" /\ zombie' = "old" /\ UNCHANGED cooldown
     \/ cooldown = "running" /\ cooldown' = "over" /\ UNCHANGED zombie
  /\ UNCHANGED <<ble, cmd>> /\ MainKeeps

-----------------------------------------------------------------------------

Gate == GateStops \/ GateKeeps \/ BeginRefused \/ BeginStarts \/ BeginChecks \/ BeginAnnounces
Ticks == ScanStarts \/ ScanFinishes \/ ScanWaits \/ ConnStarts \/ ConnFinishes \/ ConnWaits
Activities ==
  \/ Stays \/ OpensBluetooth \/ LeavesBluetooth \/ GoesHome \/ OpensPanel \/ ClosesPanel
  \/ OpensNetwork \/ UsesWifi \/ LeavesNetwork \/ DeviceRestarts
Main == Gate \/ PollKillsZombie \/ PollHeap \/ Pump \/ Ticks \/ Activities
Host ==
  \/ CentralConnects \/ onConnected \/ ConnectionFails \/ onDisconnected
  \/ AdvertisingRestarts \/ RadioDies \/ onCommandWritten \/ TimePasses

LinkNext == Main \/ Host
LinkSpec == LinkInit /\ [][LinkNext]_linkVars

(***************************************************************************)
(* loop() is never descheduled for good, time passes, and a job's timeout  *)
(* expires although its tick runs once per iteration.                      *)
(***************************************************************************)
Fairness ==
  /\ WF_linkVars(Main) /\ WF_linkVars(TimePasses)
  /\ SF_linkVars(ScanFinishes) /\ SF_linkVars(ConnFinishes)

\* For BLE to come back at all, NimBLE must start for once when it is asked again
\* and again, with enough heap and no central in the instant of the check.
FairStart == SF_linkVars(BeginStarts) /\ SF_linkVars(BeginChecks /\ radio = "adv")

FairSpec == LinkSpec /\ Fairness /\ FairStart

-----------------------------------------------------------------------------
(* Properties.                                                             *)

\* WiFi and BLE never hold the radio together, whoever takes it and however the
\* gate, which looks once per iteration, is overtaken by the same iteration's
\* command or activity (BleWifiScanCache.cpp:92-107).
RadioExclusion == wifi # "null" => radio = "off"

\* A state_ of Off or PausedLowMemory outside begin() means the stack is down: its
\* heap is free and no central can still be connected (BlePeripheralManager.h:34).
StateTellsRadio == ~Active /\ loopPc \notin {"check", "announce"} => radio = "off"

\* A scan and a connection attempt never run at once (BleWifiScanCache.cpp:47-54).
CachesExclude == ~(scan \in Busy /\ conn \in Busy)

\* A job that is over has given the radio back, so that BLE can return with its
\* result (BleWifiAutoConnectCache.h:64-68).
RadioReturned ==
  (wifi = "scan" => scan = "Scanning") /\ (wifi = "conn" => conn = "Connecting")

\* What device.info reports is the outcome of the last attempt, also of one that
\* failed before it used WiFi (BleWifiAutoConnectCache.cpp:63-69).
OutcomeIsCurrent ==
  (conn = "Done" => lastConnected) /\ (conn = "Failed" => ~lastConnected)

\* BLE is wanted exactly while its screen is on the stack, whatever is pushed over
\* it and on whichever path it is left (BluetoothActivity.cpp:66-69).
WantedOnItsScreen == userRequested <=> display \in {"bluetooth", "panel"}

\* A job of either cache ends, also when BLE, the screen or WiFi's owner changes.
RequestsFinish ==
  /\ scan \in Busy ~> scan \notin Busy
  /\ conn \in Busy ~> conn \notin Busy

\* While the Bluetooth screen stays on the stack, BLE keeps coming back: after a scan, a
\* connection attempt, a zombie and a low-memory pause (BlePeripheralManager.cpp:194).
BleComesBack == <>[]userRequested => []<>Active
=============================================================================
