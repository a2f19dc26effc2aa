----------------------------- MODULE PowerLock ------------------------------
(***************************************************************************)
(* Clock and light sleep (src/lib/hal/HalPowerManager.cpp) as the two      *)
(* tasks of the user interface use them.  The Arduino loop task ("main",   *)
(* src/src/main.cpp, loop() and enterDeepSleep()) slows the clock and      *)
(* light-sleeps the chip when nobody touches the device; the render task   *)
(* holds a power lock while it draws and light-sleeps the chip while the   *)
(* panel refreshes.  The lock word is guarded by modeMutex, the arming of  *)
(* the wake sources by sleepMutex, and the rest by nothing: setPowerSaving *)
(* reads the lock word and its own flag unprotected, so it is split here   *)
(* into its reads and writes.                                              *)
(*                                                                         *)
(* While a task sleeps the chip is halted: nothing else runs.  Time is     *)
(* abstracted to the three ranges the code compares the idle time with.    *)
(***************************************************************************)
EXTENDS Naturals

CONSTANT MaxFails   \* bound on the frequency changes the driver refuses

ASSUME MaxFailsAssumption == MaxFails \in Nat

VARIABLES
  mPc,        \* where the main task is in loop() or enterDeepSleep()
  rPc,        \* where the render task is
  ps, psArg, psSaw, \* setPowerSaving per task: step, argument, lock word read
  mode,       \* currentLockMode is NormalSpeed
  lock,       \* the Lock object of each task: "none", "valid" or "ignored"
  clock,      \* what the CPU runs at
  isLowPower, \* what setPowerSaving believes
  fails,      \* frequency changes refused so far
  zPc, zKind, \* light sleep per task: step, and which of the two functions
  sleepMutex, screen, \* holders of sleepMutex and of the rendering mutex
  armed,      \* wake sources armed in the chip
  wifi, ble,  \* radios
  idle,       \* 0: under 500 ms, 1: under 1000 ms, 2: longer
  slices,     \* main's slices begun since the render task's lock
  unswapped   \* goToSleep() left the outgoing activity in place

tasksVars == <<mPc, rPc>>
psVars    == <<ps, psArg, psSaw>>
lockVars  == <<mode, lock>>
clockVars == <<clock, isLowPower, fails>>
sleepVars == <<zPc, zKind, sleepMutex, armed, slices>>
envVars   == <<wifi, ble, idle, screen, unswapped>>
vars == <<tasksVars, psVars, lockVars, clockVars, sleepVars, envVars>>

Task    == {"main", "render"}
Holder  == Task \cup {"free"}
Timer   == "timer"
Sources == {Timer, "power", "busy"}
MainPc  == {"top", "bleIn", "keys", "power", "body", "bleOut", "parked", "paint",
            "doze", "pause", "swap", "lastPaint", "deep"}

TypeOK ==
  /\ mPc \in MainPc /\ rPc \in {"wait", "draw", "drawn"}
  /\ ps \in [Task -> {"out", "mode", "decide", "slow", "fast", "slowed", "fasted"}]
  /\ psArg \in [Task -> BOOLEAN] /\ psSaw \in [Task -> BOOLEAN]
  /\ mode \in BOOLEAN /\ lock \in [Task -> {"none", "valid", "ignored"}]
  /\ clock \in {"normal", "slow"} /\ isLowPower \in BOOLEAN
  /\ fails \in 0..MaxFails
  /\ zPc \in [Task -> {"out", "take", "timer", "gpio", "start", "asleep",
                       "disarm", "give", "yield"}]
  /\ zKind \in [Task -> {"light", "busy"}]
  /\ sleepMutex \in Holder /\ screen \in Holder
  /\ armed \subseteq Sources /\ wifi \in BOOLEAN /\ ble \in BOOLEAN
  /\ idle \in 0..2 /\ slices \in 0..2 /\ unswapped \in BOOLEAN

\* begin() has run; setup() is over.
Init ==
  /\ mPc = "top" /\ rPc = "wait"
  /\ ps = [t \in Task |-> "out"]
  /\ psArg = [t \in Task |-> FALSE] /\ psSaw = [t \in Task |-> FALSE]
  /\ mode = FALSE /\ lock = [t \in Task |-> "none"]
  /\ clock = "normal" /\ isLowPower = FALSE /\ fails = 0
  /\ zPc = [t \in Task |-> "out"] /\ zKind = [t \in Task |-> "light"]
  /\ sleepMutex = "free" /\ screen = "free" /\ armed = {}
  /\ wifi = FALSE /\ ble = FALSE /\ idle = 0 /\ slices = 0
  /\ unswapped = FALSE

-----------------------------------------------------------------------------
(* Helpers.                                                                *)

\* Task t runs its own code: the chip is awake, and t is inside neither
\* setPowerSaving nor a sleep function.
Awake   == mPc # "deep" /\ \A t \in Task : zPc[t] # "asleep"
Runs(t) == Awake /\ ps[t] = "out" /\ zPc[t] = "out"

\* setPowerSaving returns: its locals are gone.
Return(t) ==
  /\ ps' = [ps EXCEPT ![t] = "out"]
  /\ psArg' = [psArg EXCEPT ![t] = FALSE]
  /\ psSaw' = [psSaw EXCEPT ![t] = FALSE]

\* Entry of setPowerSaving(enabled): an active WiFi overrides the argument.
Call(t, enabled) ==
  /\ ps' = [ps EXCEPT ![t] = "mode"]
  /\ psArg' = [psArg EXCEPT ![t] = enabled /\ ~wifi]
  /\ UNCHANGED psSaw

NoCall == UNCHANGED psVars

\* Lock::Lock(): the second lock is ignored; a valid one restores the clock.
Construct(t) ==
  /\ mode' = TRUE
  /\ lock' = [lock EXCEPT ![t] = IF mode THEN "ignored" ELSE "valid"]
  /\ IF mode THEN NoCall ELSE Call(t, FALSE)

\* Lock::~Lock()
Destroy(t) ==
  /\ mode' = (mode /\ lock[t] # "valid")
  /\ lock' = [lock EXCEPT ![t] = "none"]

-----------------------------------------------------------------------------
(* setPowerSaving, from its unprotected read of the lock word on.          *)

ReadMode(t) ==
  /\ ps[t] = "mode"
  /\ psSaw' = [psSaw EXCEPT ![t] = mode]
  /\ ps' = [ps EXCEPT ![t] = "decide"]
  /\ UNCHANGED <<tasksVars, psArg, lockVars, clockVars, sleepVars, envVars>>

\* Mutant of Decision: while somebody holds the lock the clock is left alone.
DecisionLeavesLocked(t) ==
  IF psSaw[t] \/ psArg[t] = isLowPower THEN "out"
  ELSE IF psArg[t] THEN "slow" ELSE "fast"

\* What the two branches come to.
Decision(t) ==
  IF psArg[t] /\ ~psSaw[t] /\ ~isLowPower THEN "slow"
  ELSE IF (~psArg[t] \/ psSaw[t]) /\ isLowPower THEN "fast"
  ELSE "out"

Decide(t) ==
  /\ ps[t] = "decide"
  /\ IF Decision(t) = "out" THEN Return(t)
     ELSE ps' = [ps EXCEPT ![t] = Decision(t)] /\ UNCHANGED <<psArg, psSaw>>
  /\ UNCHANGED <<tasksVars, lockVars, clockVars, sleepVars, envVars>>

SetFrequency(t) ==
  /\ ps[t] \in {"slow", "fast"}
  /\ clock' = IF ps[t] = "slow" THEN "slow" ELSE "normal"
  /\ ps' = [ps EXCEPT ![t] = IF @ = "slow" THEN "slowed" ELSE "fasted"]
  /\ UNCHANGED <<tasksVars, psArg, psSaw, lockVars, isLowPower, fails,
                 sleepVars, envVars>>

FrequencyRefused(t) ==
  /\ ps[t] \in {"slow", "fast"} /\ fails < MaxFails
  /\ fails' = fails + 1
  /\ Return(t)
  /\ UNCHANGED <<tasksVars, lockVars, clock, isLowPower, sleepVars, envVars>>

SetFlag(t) ==
  /\ ps[t] \in {"slowed", "fasted"}
  /\ isLowPower' = (ps[t] = "slowed")
  /\ Return(t)
  /\ UNCHANGED <<tasksVars, lockVars, clock, fails, sleepVars, envVars>>

Adjust(t) ==
  Awake /\ (ReadMode(t) \/ Decide(t) \/ SetFrequency(t) \/ FrequencyRefused(t) \/ SetFlag(t))

-----------------------------------------------------------------------------
(* lightSleep() ("light") and onEinkBusyWaitSlice() ("busy"), from the     *)
(* point where the checks have passed.                                     *)

\* What the function arms before it sleeps.
Wanted(t) == IF zKind[t] = "busy" THEN Sources ELSE {Timer, "power"}

zOthers == <<tasksVars, psVars, lockVars, clockVars, envVars>>

\* Mutant of TakeSleepMutex: there is no such mutex.
TakeNoSleepMutex(t) ==
  /\ zPc[t] = "take"
  /\ zPc' = [zPc EXCEPT ![t] = IF zKind[t] = "light" THEN "timer" ELSE "gpio"]
  /\ UNCHANGED <<zOthers, zKind, sleepMutex, armed, slices>>

TakeSleepMutex(t) ==
  /\ zPc[t] = "take" /\ sleepMutex = "free"
  /\ sleepMutex' = t
  /\ zPc' = [zPc EXCEPT ![t] = IF zKind[t] = "light" THEN "timer" ELSE "gpio"]
  /\ UNCHANGED <<zOthers, zKind, armed, slices>>

\* lightSleep arms the timer first, the BUSY wait its pins first.
ArmTimer(t) ==
  /\ zPc[t] = "timer"
  /\ armed' = armed \cup {Timer}
  /\ zPc' = [zPc EXCEPT ![t] = IF zKind[t] = "light" THEN "gpio" ELSE "start"]
  /\ UNCHANGED <<zOthers, zKind, sleepMutex, slices>>

ArmPins(t) ==
  /\ zPc[t] = "gpio"
  /\ armed' = armed \cup (Wanted(t) \ {Timer})
  /\ zPc' = [zPc EXCEPT ![t] = IF zKind[t] = "light" THEN "start" ELSE "timer"]
  /\ UNCHANGED <<zOthers, zKind, sleepMutex, slices>>

\* esp_light_sleep_start(): the chip halts, or refuses to.
StartSleep(t) ==
  /\ zPc[t] = "start"
  /\ \/ /\ zPc' = [zPc EXCEPT ![t] = "asleep"]
        /\ slices' = IF t = "main" /\ zKind[t] = "light" /\ lock["render"] # "none" /\ slices < 2
                     THEN slices + 1 ELSE slices
     \/ zPc' = [zPc EXCEPT ![t] = "disarm"] /\ UNCHANGED slices
  /\ UNCHANGED <<zOthers, zKind, sleepMutex, armed>>

\* Only an armed source wakes the chip.
Wake(t) ==
  /\ zPc[t] = "asleep" /\ armed # {}
  /\ zPc' = [zPc EXCEPT ![t] = "disarm"]
  /\ UNCHANGED <<zOthers, zKind, sleepMutex, armed, slices>>

\* esp_sleep_disable_wakeup_source(ALL) and the pins.
Disarm(t) ==
  /\ zPc[t] = "disarm"
  /\ armed' = {}
  /\ zPc' = [zPc EXCEPT ![t] = "give"]
  /\ UNCHANGED <<zOthers, zKind, sleepMutex, slices>>

\* After a slice the BUSY wait yields to the other task for two ticks.
GiveSleepMutex(t) ==
  /\ zPc[t] = "give"
  /\ sleepMutex' = "free"
  /\ zPc' = [zPc EXCEPT ![t] =
       IF t = "render" THEN "yield" ELSE "out"]
  /\ zKind' = [zKind EXCEPT ![t] = "light"]
  /\ UNCHANGED <<zOthers, armed, slices>>

EndYield(t) ==
  /\ zPc[t] = "yield"
  /\ zPc' = [zPc EXCEPT ![t] = "out"]
  /\ UNCHANGED <<zOthers, zKind, sleepMutex, armed, slices>>

Sleep(t) ==
  \/ Wake(t)
  \/ /\ Awake
     /\ \/ TakeSleepMutex(t) \/ ArmTimer(t) \/ ArmPins(t) \/ StartSleep(t)
        \/ Disarm(t) \/ GiveSleepMutex(t) \/ EndYield(t)

\* Who waits for the panel: a drawing pass (of any activity but the sleep
\* screen, which has no render()), or the main task when it paints.  With USB attached or a key bouncing the call returns at once.
BusySlice(t) ==
  /\ Runs(t) /\ ~wifi
  /\ IF t = "render" THEN rPc = "draw" /\ (mPc = "lastPaint" => unswapped)
     ELSE mPc \in {"paint", "lastPaint"}
  /\ zPc' = [zPc EXCEPT ![t] = "take"]
  /\ zKind' = [zKind EXCEPT ![t] = "busy"]
  /\ UNCHANGED <<zOthers, sleepMutex, armed, slices>>

-----------------------------------------------------------------------------
(* The render task: one pass of renderTaskLoop.                            *)

BeginPass ==
  /\ Runs("render") /\ rPc = "wait" /\ screen = "free"
  /\ rPc' = "draw" /\ screen' = "render"
  /\ Construct("render")
  /\ UNCHANGED <<mPc, clockVars, sleepVars, wifi, ble, idle, unswapped>>

\* render() returns, and its RenderLock with it.
EndDrawing ==
  /\ Runs("render") /\ rPc = "draw"
  /\ rPc' = "drawn" /\ screen' = "free"
  /\ UNCHANGED <<mPc, psVars, lockVars, clockVars, sleepVars, wifi, ble, idle, unswapped>>

EndPass ==
  /\ Runs("render") /\ rPc = "drawn"
  /\ rPc' = "wait" /\ Destroy("render")
  /\ slices' = 0
  /\ UNCHANGED <<mPc, psVars, clockVars, zPc, zKind, sleepMutex, armed, envVars>>

Render == BeginPass \/ EndDrawing \/ EndPass

-----------------------------------------------------------------------------
(* The main task: one iteration of loop().                                 *)

mainOthers == <<rPc, clockVars>>

\* BlePeripheral.begin() or end(), from the top of the loop or from an
\* activity: the whole of it under a power lock.
BeginBle ==
  /\ Runs("main") /\ \/ mPc = "top" /\ (ble \/ ~wifi) /\ mPc' = "bleIn"
                     \/ mPc = "body" /\ ble /\ mPc' = "bleOut"
  /\ Construct("main")
  /\ UNCHANGED <<mainOthers, sleepVars, envVars>>

EndBle ==
  /\ Runs("main") /\ mPc \in {"bleIn", "bleOut"}
  /\ ble' = ~ble
  /\ Destroy("main")
  /\ mPc' = IF mPc = "bleIn" THEN "keys" ELSE "body"
  /\ UNCHANGED <<mainOthers, psVars, sleepVars, wifi, idle, screen, unswapped>>

NoBleChange ==
  /\ Runs("main") /\ mPc = "top" /\ mPc' = "keys"
  /\ UNCHANGED <<mainOthers, psVars, lockVars, sleepVars, envVars>>

\* A key, a touch, a tilt, or an activity that prevents sleep.
UserActivity ==
  /\ Runs("main") /\ mPc = "keys" /\ mPc' = "power"
  /\ idle' = 0 /\ Call("main", FALSE)
  /\ UNCHANGED <<mainOthers, lockVars, sleepVars, wifi, ble, screen, unswapped>>

NoUserActivity ==
  /\ Runs("main") /\ mPc = "keys" /\ mPc' = "power"
  /\ UNCHANGED <<mainOthers, psVars, lockVars, sleepVars, envVars>>

\* Neither the sleep timeout nor a held power button.
NoDeepSleep ==
  /\ Runs("main") /\ mPc = "power" /\ mPc' = "body"
  /\ UNCHANGED <<mainOthers, psVars, lockVars, sleepVars, envVars>>

\* What activity code does that matters here: it switches WiFi (on only with
\* BLE down), waits for a pass, or paints by itself under the RenderLock.
SwitchWifi ==
  /\ Runs("main") /\ mPc = "body" /\ (wifi \/ ~ble)
  /\ wifi' = ~wifi
  /\ UNCHANGED <<mPc, mainOthers, psVars, lockVars, sleepVars, ble, idle, screen, unswapped>>

WaitForPass ==
  /\ Runs("main")
  /\ \/ mPc = "body" /\ mPc' = "parked"
     \/ mPc = "parked" /\ mPc' = "body"
  /\ UNCHANGED <<mainOthers, psVars, lockVars, sleepVars, envVars>>

PaintDirectly ==
  /\ Runs("main")
  /\ \/ mPc = "body" /\ screen = "free" /\ mPc' = "paint" /\ screen' = "main"
     \/ mPc = "paint" /\ mPc' = "body" /\ screen' = "free"
  /\ UNCHANGED <<mainOthers, psVars, lockVars, sleepVars, wifi, ble, idle, unswapped>>

\* The tail of loop(): full speed for an activity that skips the delay ...
EndOfBody(next) ==
  /\ Runs("main") /\ mPc = "body" /\ mPc' = next
  /\ UNCHANGED <<mainOthers, lockVars, sleepVars, envVars>>

SkipDelay == EndOfBody("top") /\ Call("main", FALSE)

\* ... and otherwise by the idle time: light sleep, slow clock, or neither.
LongIdle == idle = 2 /\ EndOfBody("doze") /\ Call("main", FALSE)

SlowDown == idle = 1 /\ ~ble /\ EndOfBody("pause") /\ Call("main", TRUE)

StayFast == (idle = 0 \/ (idle = 1 /\ ble)) /\ EndOfBody("pause") /\ NoCall

\* Mutant of EnterLightSleep: the lock word is not looked at.
EnterLightSleepAnyway ==
  /\ Runs("main") /\ mPc = "doze" /\ mPc' = "pause"
  /\ ~ble /\ ~wifi
  /\ zPc' = [zPc EXCEPT !["main"] = "take"]
  /\ zKind' = [zKind EXCEPT !["main"] = "light"]
  /\ UNCHANGED <<mainOthers, psVars, lockVars, sleepMutex, armed, slices, envVars>>

\* lightSleep(): the lock word is read once, before the mutex is taken.
EnterLightSleep ==
  /\ Runs("main") /\ mPc = "doze" /\ mPc' = "pause"
  /\ ~ble /\ ~mode /\ ~wifi
  /\ zPc' = [zPc EXCEPT !["main"] = "take"]
  /\ zKind' = [zKind EXCEPT !["main"] = "light"]
  /\ UNCHANGED <<mainOthers, psVars, lockVars, sleepMutex, armed, slices, envVars>>

\* BLE is up, a key bounces, or lightSleep() declined: delayWallClock(10).
LightSleepDeclined ==
  /\ Runs("main") /\ mPc = "doze" /\ mPc' = "pause"
  /\ UNCHANGED <<mainOthers, psVars, lockVars, sleepVars, envVars>>

NextIteration ==
  /\ Runs("main") /\ mPc = "pause" /\ mPc' = "top"
  /\ UNCHANGED <<mainOthers, psVars, lockVars, sleepVars, envVars>>

\* enterDeepSleep(): a power lock of its own, then the sleep screen.  The
\* outgoing activity is replaced under the RenderLock, BLE ends before.
EnterDeepSleep ==
  /\ Runs("main") /\ mPc = "power" /\ mPc' = "swap"
  /\ Construct("main")
  /\ UNCHANGED <<mainOthers, sleepVars, envVars>>

InstallSleepScreen ==
  /\ Runs("main") /\ mPc = "swap" /\ screen = "free"
  /\ mPc' = "lastPaint" /\ ble' = FALSE
  /\ UNCHANGED <<mainOthers, psVars, lockVars, sleepVars, wifi, idle, screen, unswapped>>

\* A home gesture in that very loop() goes home instead of installing it
\* (ActivityStack shows this); the radios end in enterDeepSleep itself.
HomeInsteadOfSleep ==
  /\ Runs("main") /\ mPc = "swap"
  /\ mPc' = "lastPaint" /\ ble' = FALSE /\ unswapped' = TRUE
  /\ UNCHANGED <<mainOthers, psVars, lockVars, sleepVars, wifi, idle, screen>>

StartDeepSleep ==
  /\ Runs("main") /\ mPc = "lastPaint"
  /\ mPc' = "deep" /\ wifi' = FALSE
  /\ UNCHANGED <<mainOthers, psVars, lockVars, sleepVars, ble, idle, screen, unswapped>>

Main ==
  \/ BeginBle \/ EndBle \/ NoBleChange
  \/ UserActivity \/ NoUserActivity \/ NoDeepSleep
  \/ SwitchWifi \/ WaitForPass \/ PaintDirectly
  \/ SkipDelay \/ LongIdle \/ SlowDown \/ StayFast
  \/ EnterLightSleep \/ LightSleepDeclined \/ NextIteration
  \/ EnterDeepSleep \/ InstallSleepScreen \/ HomeInsteadOfSleep \/ StartDeepSleep

-----------------------------------------------------------------------------
(* Time, and the reset that ends a deep sleep.                             *)

Tick ==
  /\ mPc # "deep" /\ idle < 2 /\ idle' = idle + 1
  /\ UNCHANGED <<tasksVars, psVars, lockVars, clockVars, sleepVars,
                 wifi, ble, screen, unswapped>>

Reboot ==
  /\ mPc = "deep" /\ mPc' = "top" /\ rPc' = "wait"
  /\ ps' = [t \in Task |-> "out"]
  /\ psArg' = [t \in Task |-> FALSE] /\ psSaw' = [t \in Task |-> FALSE]
  /\ mode' = FALSE /\ lock' = [t \in Task |-> "none"]
  /\ clock' = "normal" /\ isLowPower' = FALSE /\ UNCHANGED fails
  /\ zPc' = [t \in Task |-> "out"] /\ zKind' = [t \in Task |-> "light"]
  /\ sleepMutex' = "free" /\ screen' = "free" /\ armed' = {}
  /\ wifi' = FALSE /\ ble' = FALSE /\ idle' = 0 /\ slices' = 0
  /\ unswapped' = FALSE

Next ==
  \/ Main \/ Render \/ Tick \/ Reboot
  \/ \E t \in Task : Adjust(t) \/ Sleep(t) \/ BusySlice(t)

\* The chip sleeps again and again while the panel refreshes, so the main
\* task is only strongly fair: after each slice the render task yields, and
\* the two tasks have the same priority.  An activity's loop() returns, a
\* wait on the render task ends (it has a limit), a mutex is handed on.
\* Nothing is assumed of the passes: the render task may draw forever.
MainProgress ==
  \/ Adjust("main") \/ EndBle \/ NoBleChange \/ NoUserActivity \/ NoDeepSleep
  \/ SkipDelay \/ LongIdle \/ SlowDown \/ StayFast
  \/ LightSleepDeclined \/ NextIteration

EndOfWait == mPc \in {"parked", "paint"} /\ (WaitForPass \/ PaintDirectly)

Fairness ==
  /\ SF_vars(MainProgress) /\ SF_vars(EndOfWait)
  /\ SF_vars(Sleep("main")) /\ WF_vars(Sleep("render"))
  /\ WF_vars(Tick)

Spec == Init /\ [][Next]_vars /\ Fairness

-----------------------------------------------------------------------------
(* Properties.                                                             *)

\* A halted chip has every wake source of the task that halted it: neither
\* task's disarming strips the other's (sleepMutex, HalPowerManager.h:40).
ArmedWhileAsleep == \A t \in Task : zPc[t] = "asleep" => armed = Wanted(t)

\* Reading the lock word once, unprotected, freezes a task that takes its
\* lock afterwards for at most one slice (HalPowerManager.cpp:126).
OneSlicePerLock == lock["render"] = "valid" => slices <= 1

\* Between calls the flag isLowPower agrees with the clock, although both
\* tasks run setPowerSaving with no lock around its reads and writes.
FlagTellsClock ==
  (\A t \in Task : ps[t] = "out") => (isLowPower <=> clock = "slow")

\* When the device goes to deep sleep no wake source of a light sleep is
\* left armed (it would wake the device on USB power after 50 ms).
DeepSleepUnarmed == mPc = "deep" /\ ~unswapped => armed = {}

\* The clock that the main task slowed down while the render task was taking
\* its lock is restored while the lock is held, by the main task's next
\* iterations, unless the main task is on its way to deep sleep.
DeepPath == {"swap", "lastPaint", "deep"}
ClockRestored ==
  (clock = "slow" /\ lock["render"] = "valid" /\ mPc \notin DeepPath)
    ~> (clock = "normal" \/ lock["render"] # "valid" \/ mPc \in DeepPath)
=============================================================================
