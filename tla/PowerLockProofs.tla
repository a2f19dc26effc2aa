-------------------------- MODULE PowerLockProofs ---------------------------
(***************************************************************************)
(* Proofs about PowerLock: the two unprotected halves of HalPowerManager   *)
(* (lock word and flag) and the two protected ones (wake sources, screen). *)
(***************************************************************************)
EXTENDS PowerLock, TLAPS

Arming(t)   == zPc[t] \in {"timer", "gpio", "start", "asleep", "disarm", "give"}
Deciding(t) == zKind[t] = "light" /\ zPc[t] \in {"take", "timer", "gpio", "start"}

\* Who has a lock object, and when the lock word is set.
LockInv ==
  /\ mode <=> (lock["main"] = "valid" \/ lock["render"] = "valid")
  /\ ~(lock["main"] = "valid" /\ lock["render"] = "valid")
  /\ lock["render"] = "none" <=> rPc = "wait"
  /\ lock["main"] = "none" <=> mPc \notin {"bleIn", "bleOut", "swap", "lastPaint", "deep"}

\* Where each task can be inside the functions it calls.
PhaseInv ==
  /\ ps["render"] # "out" => rPc = "draw" /\ lock["render"] = "valid" /\ ~psArg["render"]
  /\ zPc["render"] # "out" => rPc = "draw"
  /\ zKind["render"] = "light" => zPc["render"] = "out" \/ zPc["render"] = "yield"
  /\ rPc = "draw" <=> screen = "render"
  /\ mPc = "paint" => screen = "main"
  /\ mPc = "deep" => ps["main"] = "out" /\ zPc["main"] = "out"
  /\ mPc \in {"lastPaint", "deep"} /\ ~unswapped => zPc["render"] = "out"

\* The holder of sleepMutex arms its sources one by one, the rest none.
ArmInv ==
  /\ \A t \in Task : Arming(t) <=> sleepMutex = t
  /\ sleepMutex = "free" => armed = {}
  /\ \A t \in Task :
       /\ zPc[t] = "give" => armed = {}
       /\ zPc[t] \in {"start", "asleep", "disarm"} => armed = Wanted(t)
       /\ zPc[t] = "timer" => armed = IF zKind[t] = "light" THEN {} ELSE Sources \ {Timer}
       /\ zPc[t] = "gpio" => armed = IF zKind[t] = "light" THEN {Timer} ELSE {}

\* A slice begun under the render task's lock was decided before the lock.
SliceInv ==
  /\ lock["render"] = "none" => slices = 0
  /\ lock["render"] = "valid" => slices <= 1
  /\ lock["render"] = "valid" /\ slices = 1 => ~Deciding("main")

\* Only the main task slows the clock, and never while the render task is
\* about to restore it: it would have seen the lock, or the flag.
FlagInv ==
  /\ ps["main"] \in {"slow", "slowed"} =>
       ~isLowPower /\ ps["render"] \notin {"fast", "fasted"}
  /\ ps["render"] \in {"fast", "fasted"} /\ ps["main"] = "decide"
       /\ psArg["main"] /\ ~psSaw["main"] => isLowPower
  /\ ps["render"] \notin {"slow", "slowed"}
  /\ ps["main"] = "slowed" => clock = "slow"
  /\ \A t \in Task : ps[t] = "fasted" => clock = "normal"
  /\ (\A t \in Task : ps[t] \notin {"slowed", "fasted"}) => (isLowPower <=> clock = "slow")

IInv == TypeOK /\ LockInv /\ PhaseInv /\ ArmInv /\ SliceInv /\ FlagInv

-----------------------------------------------------------------------------
(* Lemmas: one per kind of step.                                           *)

LEMMA Initially == Init => IInv
<1> SUFFICES ASSUME Init PROVE IInv
  OBVIOUS
<1> USE DEF Init
<1>1. TypeOK
  <2>1. /\ ps \in [Task -> {"out", "mode", "decide", "slow", "fast", "slowed", "fasted"}]
        /\ psArg \in [Task -> BOOLEAN] /\ psSaw \in [Task -> BOOLEAN]
        /\ lock \in [Task -> {"none", "valid", "ignored"}]
    OBVIOUS
  <2>2. /\ zPc \in [Task -> {"out", "take", "timer", "gpio", "start", "asleep",
                            "disarm", "give", "yield"}]
        /\ zKind \in [Task -> {"light", "busy"}]
    OBVIOUS
  <2>3. mPc \in MainPc /\ sleepMutex \in Holder /\ screen \in Holder /\ fails \in 0..MaxFails
    BY MaxFailsAssumption DEF MainPc, Holder
  <2>4. armed \subseteq Sources /\ idle \in 0..2 /\ slices \in 0..2
    OBVIOUS
  <2>5. /\ mode \in BOOLEAN /\ isLowPower \in BOOLEAN /\ wifi \in BOOLEAN
        /\ ble \in BOOLEAN /\ unswapped \in BOOLEAN
    OBVIOUS
  <2> QED
    BY <2>1, <2>2, <2>3, <2>4, <2>5 DEF TypeOK
<1>2. LockInv /\ PhaseInv /\ SliceInv
  BY DEF LockInv, PhaseInv, SliceInv, Deciding, Task
<1>3. ArmInv /\ FlagInv
  BY DEF ArmInv, FlagInv, Arming, Task
<1> QED
  BY <1>1, <1>2, <1>3 DEF IInv

\* Steps of the main task that touch no shared word.
LEMMA QuietStep == IInv /\ (NoBleChange \/ NoUserActivity \/ NoDeepSleep \/ SwitchWifi \/ WaitForPass
    \/ PaintDirectly \/ InstallSleepScreen \/ HomeInsteadOfSleep \/ StartDeepSleep
    \/ LightSleepDeclined \/ NextIteration \/ StayFast \/ Tick) => IInv'
<1> SUFFICES ASSUME IInv, NoBleChange \/ NoUserActivity \/ NoDeepSleep \/ SwitchWifi \/ WaitForPass
    \/ PaintDirectly \/ InstallSleepScreen \/ HomeInsteadOfSleep \/ StartDeepSleep
    \/ LightSleepDeclined \/ NextIteration \/ StayFast \/ Tick PROVE IInv'
  OBVIOUS
<1> USE DEF IInv, tasksVars, psVars, lockVars, clockVars, sleepVars, envVars,
            zOthers, mainOthers, Runs, Awake, NoBleChange, NoUserActivity, NoDeepSleep, SwitchWifi, WaitForPass,
            PaintDirectly, InstallSleepScreen, HomeInsteadOfSleep, StartDeepSleep,
            LightSleepDeclined, NextIteration, StayFast, EndOfBody, NoCall, Tick
<1>1. TypeOK'
  <2>1. /\ ps' \in [Task -> {"out", "mode", "decide", "slow", "fast", "slowed", "fasted"}]
        /\ psArg' \in [Task -> BOOLEAN] /\ psSaw' \in [Task -> BOOLEAN]
    BY DEF TypeOK
  <2>2. lock' \in [Task -> {"none", "valid", "ignored"}]
    BY DEF TypeOK
  <2>3. /\ zPc' \in [Task -> {"out", "take", "timer", "gpio", "start", "asleep",
                             "disarm", "give", "yield"}]
        /\ zKind' \in [Task -> {"light", "busy"}]
    BY DEF TypeOK
  <2>4. mPc' \in MainPc /\ rPc' \in {"wait", "draw", "drawn"}
    BY DEF TypeOK, MainPc
  <2>5. fails' \in 0..MaxFails /\ slices' \in 0..2 /\ idle' \in 0..2
    BY MaxFailsAssumption DEF TypeOK
  <2>6. /\ sleepMutex' \in Holder /\ screen' \in Holder
        /\ armed' \subseteq Sources /\ clock' \in {"normal", "slow"}
    BY DEF TypeOK, Holder, Task, Sources
  <2>7. mode' \in BOOLEAN /\ isLowPower' \in BOOLEAN
    BY DEF TypeOK
  <2>8. wifi' \in BOOLEAN /\ ble' \in BOOLEAN /\ unswapped' \in BOOLEAN
    BY DEF TypeOK
  <2> QED
    BY <2>1, <2>2, <2>3, <2>4, <2>5, <2>6, <2>7, <2>8 DEF TypeOK
<1>2. LockInv'
  BY DEF Task, TypeOK, LockInv
<1>3. PhaseInv'
  <2>1. CASE InstallSleepScreen
    BY <2>1 DEF Task, TypeOK, PhaseInv
  <2>2. CASE HomeInsteadOfSleep \/ StartDeepSleep
    BY <2>2 DEF Task, TypeOK, PhaseInv
  <2>4. CASE SwitchWifi \/ Tick
    BY <2>4 DEF Task, TypeOK, PhaseInv
  <2>5. CASE PaintDirectly
    BY <2>5 DEF Task, TypeOK, PhaseInv
  <2>3. CASE NoBleChange \/ NoUserActivity \/ NoDeepSleep \/ WaitForPass
             \/ LightSleepDeclined \/ NextIteration \/ StayFast
    BY <2>3 DEF Task, TypeOK, PhaseInv
  <2> QED
    BY <2>1, <2>2, <2>3, <2>4, <2>5
<1>4. ArmInv'
  BY DEF Task, TypeOK, PhaseInv, ArmInv, Arming, Wanted
<1>5. SliceInv'
  BY DEF Task, TypeOK, LockInv, PhaseInv, SliceInv, Deciding
<1>6. FlagInv'
  BY DEF Task, TypeOK, LockInv, PhaseInv, FlagInv
<1> QED
  BY <1>1, <1>2, <1>3, <1>4, <1>5, <1>6

\* The main task calls setPowerSaving.
LEMMA CallStep == IInv /\ (UserActivity \/ SkipDelay \/ LongIdle \/ SlowDown) => IInv'
<1> SUFFICES ASSUME IInv, UserActivity \/ SkipDelay \/ LongIdle \/ SlowDown PROVE IInv'
  OBVIOUS
<1> USE DEF IInv, tasksVars, psVars, lockVars, clockVars, sleepVars, envVars,
            zOthers, mainOthers, Runs, Awake, UserActivity, SkipDelay, LongIdle, SlowDown, EndOfBody, Call
<1>1. TypeOK'
  <2>1. /\ ps' \in [Task -> {"out", "mode", "decide", "slow", "fast", "slowed", "fasted"}]
        /\ psArg' \in [Task -> BOOLEAN] /\ psSaw' \in [Task -> BOOLEAN]
    BY DEF TypeOK
  <2>2. lock' \in [Task -> {"none", "valid", "ignored"}]
    BY DEF TypeOK
  <2>3. /\ zPc' \in [Task -> {"out", "take", "timer", "gpio", "start", "asleep",
                             "disarm", "give", "yield"}]
        /\ zKind' \in [Task -> {"light", "busy"}]
    BY DEF TypeOK
  <2>4. mPc' \in MainPc /\ rPc' \in {"wait", "draw", "drawn"}
    BY DEF TypeOK, MainPc
  <2>5. fails' \in 0..MaxFails /\ slices' \in 0..2 /\ idle' \in 0..2
    BY MaxFailsAssumption DEF TypeOK
  <2>6. /\ sleepMutex' \in Holder /\ screen' \in Holder
        /\ armed' \subseteq Sources /\ clock' \in {"normal", "slow"}
    BY DEF TypeOK, Holder, Task, Sources
  <2>7. mode' \in BOOLEAN /\ isLowPower' \in BOOLEAN
    BY DEF TypeOK
  <2>8. wifi' \in BOOLEAN /\ ble' \in BOOLEAN /\ unswapped' \in BOOLEAN
    BY DEF TypeOK
  <2> QED
    BY <2>1, <2>2, <2>3, <2>4, <2>5, <2>6, <2>7, <2>8 DEF TypeOK
<1>2. LockInv'
  BY DEF Task, TypeOK, LockInv
<1>3. PhaseInv'
  BY DEF Task, TypeOK, LockInv, PhaseInv
<1>4. ArmInv'
  BY DEF Task, TypeOK, PhaseInv, ArmInv, Arming, Wanted
<1>5. SliceInv'
  BY DEF Task, TypeOK, LockInv, PhaseInv, SliceInv, Deciding
<1>6. FlagInv'
  BY DEF Task, TypeOK, LockInv, PhaseInv, FlagInv
<1> QED
  BY <1>1, <1>2, <1>3, <1>4, <1>5, <1>6

\* A lock is constructed or destroyed.
LEMMA LockStep == IInv /\ (BeginBle \/ EndBle \/ EnterDeepSleep \/ BeginPass \/ EndPass) => IInv'
<1> SUFFICES ASSUME IInv, BeginBle \/ EndBle \/ EnterDeepSleep \/ BeginPass \/ EndPass PROVE IInv'
  OBVIOUS
<1> USE DEF IInv, tasksVars, psVars, lockVars, clockVars, sleepVars, envVars,
            zOthers, mainOthers, Runs, Awake, BeginBle, EndBle, EnterDeepSleep, BeginPass, EndPass, Construct, Destroy, Call, NoCall
<1>1. TypeOK'
  <2>1. /\ ps' \in [Task -> {"out", "mode", "decide", "slow", "fast", "slowed", "fasted"}]
        /\ psArg' \in [Task -> BOOLEAN] /\ psSaw' \in [Task -> BOOLEAN]
    BY DEF TypeOK
  <2>2. lock' \in [Task -> {"none", "valid", "ignored"}]
    BY DEF TypeOK
  <2>3. /\ zPc' \in [Task -> {"out", "take", "timer", "gpio", "start", "asleep",
                             "disarm", "give", "yield"}]
        /\ zKind' \in [Task -> {"light", "busy"}]
    BY DEF TypeOK
  <2>4. mPc' \in MainPc /\ rPc' \in {"wait", "draw", "drawn"}
    BY DEF TypeOK, MainPc
  <2>5. fails' \in 0..MaxFails /\ slices' \in 0..2 /\ idle' \in 0..2
    BY MaxFailsAssumption DEF TypeOK
  <2>6. /\ sleepMutex' \in Holder /\ screen' \in Holder
        /\ armed' \subseteq Sources /\ clock' \in {"normal", "slow"}
    BY DEF TypeOK, Holder, Task, Sources
  <2>7. mode' \in BOOLEAN /\ isLowPower' \in BOOLEAN
    BY DEF TypeOK
  <2>8. wifi' \in BOOLEAN /\ ble' \in BOOLEAN /\ unswapped' \in BOOLEAN
    BY DEF TypeOK
  <2> QED
    BY <2>1, <2>2, <2>3, <2>4, <2>5, <2>6, <2>7, <2>8 DEF TypeOK
<1>2. LockInv'
  BY DEF Task, TypeOK, LockInv
<1>3. PhaseInv'
  BY DEF Task, TypeOK, LockInv, PhaseInv
<1>4. ArmInv'
  BY DEF Task, TypeOK, PhaseInv, ArmInv, Arming, Wanted
<1>5. SliceInv'
  BY DEF Task, TypeOK, LockInv, PhaseInv, SliceInv, Deciding
<1>6. FlagInv'
  BY DEF Task, TypeOK, LockInv, PhaseInv, FlagInv
<1> QED
  BY <1>1, <1>2, <1>3, <1>4, <1>5, <1>6

\* A pass stops drawing, a task waits for the panel or falls asleep.
LEMMA DrawStep == IInv /\ (EndDrawing \/ BusySlice("main") \/ BusySlice("render") \/ EnterLightSleep) => IInv'
<1> SUFFICES ASSUME IInv, EndDrawing \/ BusySlice("main") \/ BusySlice("render") \/ EnterLightSleep PROVE IInv'
  OBVIOUS
<1> USE DEF IInv, tasksVars, psVars, lockVars, clockVars, sleepVars, envVars,
            zOthers, mainOthers, Runs, Awake, EndDrawing, BusySlice, EnterLightSleep
<1>1. TypeOK'
  <2>1. /\ ps' \in [Task -> {"out", "mode", "decide", "slow", "fast", "slowed", "fasted"}]
        /\ psArg' \in [Task -> BOOLEAN] /\ psSaw' \in [Task -> BOOLEAN]
    BY DEF TypeOK
  <2>2. lock' \in [Task -> {"none", "valid", "ignored"}]
    BY DEF TypeOK
  <2>3. /\ zPc' \in [Task -> {"out", "take", "timer", "gpio", "start", "asleep",
                             "disarm", "give", "yield"}]
        /\ zKind' \in [Task -> {"light", "busy"}]
    BY DEF TypeOK
  <2>4. mPc' \in MainPc /\ rPc' \in {"wait", "draw", "drawn"}
    BY DEF TypeOK, MainPc
  <2>5. fails' \in 0..MaxFails /\ slices' \in 0..2 /\ idle' \in 0..2
    BY MaxFailsAssumption DEF TypeOK
  <2>6. /\ sleepMutex' \in Holder /\ screen' \in Holder
        /\ armed' \subseteq Sources /\ clock' \in {"normal", "slow"}
    BY DEF TypeOK, Holder, Task, Sources
  <2>7. mode' \in BOOLEAN /\ isLowPower' \in BOOLEAN
    BY DEF TypeOK
  <2>8. wifi' \in BOOLEAN /\ ble' \in BOOLEAN /\ unswapped' \in BOOLEAN
    BY DEF TypeOK
  <2> QED
    BY <2>1, <2>2, <2>3, <2>4, <2>5, <2>6, <2>7, <2>8 DEF TypeOK
<1>2. LockInv'
  BY DEF Task, TypeOK, LockInv
<1>3. PhaseInv'
  BY DEF Task, TypeOK, LockInv, PhaseInv
<1>4. ArmInv'
  BY DEF Task, TypeOK, PhaseInv, ArmInv, Arming, Wanted
<1>5. SliceInv'
  BY DEF Task, TypeOK, LockInv, PhaseInv, SliceInv, Deciding
<1>6. FlagInv'
  BY DEF Task, TypeOK, LockInv, PhaseInv, FlagInv
<1> QED
  BY <1>1, <1>2, <1>3, <1>4, <1>5, <1>6

\* Steps of setPowerSaving.
LEMMA AdjustStep == IInv /\ (Adjust("main") \/ Adjust("render")) => IInv'
<1> SUFFICES ASSUME IInv, Adjust("main") \/ Adjust("render") PROVE IInv'
  OBVIOUS
<1> USE DEF IInv, tasksVars, psVars, lockVars, clockVars, sleepVars, envVars,
            zOthers, mainOthers, Runs, Awake, Adjust, ReadMode, Decide, SetFrequency, FrequencyRefused, SetFlag, Return, Decision
<1>1. TypeOK'
  <2>a. ps' \in [Task -> {"out", "mode", "decide", "slow", "fast", "slowed", "fasted"}]
    BY DEF TypeOK
  <2>b. psArg' \in [Task -> BOOLEAN]
    BY DEF TypeOK
  <2>c. psSaw' \in [Task -> BOOLEAN]
    BY DEF TypeOK
  <2>1. /\ ps' \in [Task -> {"out", "mode", "decide", "slow", "fast", "slowed", "fasted"}]
        /\ psArg' \in [Task -> BOOLEAN] /\ psSaw' \in [Task -> BOOLEAN]
    BY <2>a, <2>b, <2>c
  <2>2. lock' \in [Task -> {"none", "valid", "ignored"}]
    BY DEF TypeOK
  <2>3. /\ zPc' \in [Task -> {"out", "take", "timer", "gpio", "start", "asleep",
                             "disarm", "give", "yield"}]
        /\ zKind' \in [Task -> {"light", "busy"}]
    BY DEF TypeOK
  <2>4. mPc' \in MainPc /\ rPc' \in {"wait", "draw", "drawn"}
    BY DEF TypeOK, MainPc
  <2>5. fails' \in 0..MaxFails /\ slices' \in 0..2 /\ idle' \in 0..2
    BY MaxFailsAssumption DEF TypeOK
  <2>6. /\ sleepMutex' \in Holder /\ screen' \in Holder
        /\ armed' \subseteq Sources /\ clock' \in {"normal", "slow"}
    BY DEF TypeOK, Holder, Task, Sources
  <2>7. mode' \in BOOLEAN /\ isLowPower' \in BOOLEAN
    BY DEF TypeOK
  <2>8. wifi' \in BOOLEAN /\ ble' \in BOOLEAN /\ unswapped' \in BOOLEAN
    BY DEF TypeOK
  <2> QED
    BY <2>1, <2>2, <2>3, <2>4, <2>5, <2>6, <2>7, <2>8 DEF TypeOK
<1>2. LockInv'
  BY DEF Task, TypeOK, LockInv
<1>3. PhaseInv'
  BY DEF Task, TypeOK, LockInv, PhaseInv
<1>4. ArmInv'
  BY DEF Task, TypeOK, PhaseInv, ArmInv, Arming, Wanted
<1>5. SliceInv'
  BY DEF Task, TypeOK, LockInv, PhaseInv, SliceInv, Deciding
<1>6. FlagInv'
  <2>1. CASE ReadMode("main")
    BY <2>1 DEF Task, TypeOK, LockInv, PhaseInv, FlagInv
  <2>2. CASE Decide("main")
    BY <2>2 DEF Task, TypeOK, LockInv, PhaseInv, FlagInv
  <2>3. CASE SetFrequency("main")
    BY <2>3 DEF Task, TypeOK, LockInv, PhaseInv, FlagInv
  <2>4. CASE FrequencyRefused("main")
    BY <2>4 DEF Task, TypeOK, LockInv, PhaseInv, FlagInv
  <2>5. CASE SetFlag("main")
    BY <2>5 DEF Task, TypeOK, LockInv, PhaseInv, FlagInv
  <2>6. CASE ReadMode("render")
    BY <2>6 DEF Task, TypeOK, LockInv, PhaseInv, FlagInv
  <2>7. CASE Decide("render")
    BY <2>7 DEF Task, TypeOK, LockInv, PhaseInv, FlagInv
  <2>8. CASE SetFrequency("render")
    BY <2>8 DEF Task, TypeOK, LockInv, PhaseInv, FlagInv
  <2>9. CASE FrequencyRefused("render")
    BY <2>9 DEF Task, TypeOK, LockInv, PhaseInv, FlagInv
  <2>10. CASE SetFlag("render")
    BY <2>10 DEF Task, TypeOK, LockInv, PhaseInv, FlagInv
  <2> QED
    BY <2>1, <2>2, <2>3, <2>4, <2>5, <2>6, <2>7, <2>8, <2>9, <2>10
<1> QED
  BY <1>1, <1>2, <1>3, <1>4, <1>5, <1>6

\* Steps of a light sleep.
LEMMA SleepStep == IInv /\ (Sleep("main") \/ Sleep("render")) => IInv'
<1> SUFFICES ASSUME IInv, Sleep("main") \/ Sleep("render") PROVE IInv'
  OBVIOUS
<1> USE DEF IInv, tasksVars, psVars, lockVars, clockVars, sleepVars, envVars,
            zOthers, mainOthers, Runs, Awake, Sleep, TakeSleepMutex, ArmTimer, ArmPins, StartSleep, Wake, Disarm, GiveSleepMutex, EndYield
<1>1. TypeOK'
  <2>1. /\ ps' \in [Task -> {"out", "mode", "decide", "slow", "fast", "slowed", "fasted"}]
        /\ psArg' \in [Task -> BOOLEAN] /\ psSaw' \in [Task -> BOOLEAN]
    BY DEF TypeOK
  <2>2. lock' \in [Task -> {"none", "valid", "ignored"}]
    BY DEF TypeOK
  <2>3. /\ zPc' \in [Task -> {"out", "take", "timer", "gpio", "start", "asleep",
                             "disarm", "give", "yield"}]
        /\ zKind' \in [Task -> {"light", "busy"}]
    BY DEF TypeOK
  <2>4. mPc' \in MainPc /\ rPc' \in {"wait", "draw", "drawn"}
    BY DEF TypeOK, MainPc
  <2>5. fails' \in 0..MaxFails /\ slices' \in 0..2 /\ idle' \in 0..2
    BY MaxFailsAssumption DEF TypeOK
  <2>a. armed' \subseteq Sources
    BY DEF TypeOK, Sources, Timer, Wanted
  <2>6. /\ sleepMutex' \in Holder /\ screen' \in Holder
        /\ armed' \subseteq Sources /\ clock' \in {"normal", "slow"}
    BY <2>a DEF TypeOK, Holder, Task
  <2>7. mode' \in BOOLEAN /\ isLowPower' \in BOOLEAN
    BY DEF TypeOK
  <2>8. wifi' \in BOOLEAN /\ ble' \in BOOLEAN /\ unswapped' \in BOOLEAN
    BY DEF TypeOK
  <2> QED
    BY <2>1, <2>2, <2>3, <2>4, <2>5, <2>6, <2>7, <2>8 DEF TypeOK
<1>2. LockInv'
  BY DEF Task, TypeOK, LockInv
<1>3. PhaseInv'
  BY DEF Task, TypeOK, LockInv, PhaseInv
<1>4. ArmInv'
  <2>1. CASE Wake("main") \/ Wake("render")
    BY <2>1 DEF Task, TypeOK, PhaseInv, ArmInv, Arming, Wanted
  <2>2. CASE TakeSleepMutex("main") \/ TakeSleepMutex("render")
    BY <2>2 DEF Task, TypeOK, PhaseInv, ArmInv, Arming, Wanted
  <2>3. CASE ArmTimer("main") \/ ArmTimer("render")
    BY <2>3 DEF Sources, Timer, Task, TypeOK, PhaseInv, ArmInv, Arming, Wanted
  <2>4. CASE ArmPins("main") \/ ArmPins("render")
    BY <2>4 DEF Task, TypeOK, PhaseInv, ArmInv, Arming, Wanted
  <2>5. CASE StartSleep("main") \/ StartSleep("render")
    BY <2>5 DEF Task, TypeOK, PhaseInv, ArmInv, Arming, Wanted
  <2>6. CASE Disarm("main") \/ Disarm("render")
    BY <2>6 DEF Task, TypeOK, PhaseInv, ArmInv, Arming, Wanted
  <2>7. CASE GiveSleepMutex("main") \/ GiveSleepMutex("render")
    BY <2>7 DEF Task, TypeOK, PhaseInv, ArmInv, Arming, Wanted
  <2>8. CASE EndYield("main") \/ EndYield("render")
    BY <2>8 DEF Task, TypeOK, PhaseInv, ArmInv, Arming, Wanted
  <2> QED
    BY <2>1, <2>2, <2>3, <2>4, <2>5, <2>6, <2>7, <2>8
<1>5. SliceInv'
  BY DEF Task, TypeOK, LockInv, PhaseInv, SliceInv, Deciding
<1>6. FlagInv'
  BY DEF Task, TypeOK, LockInv, PhaseInv, FlagInv
<1> QED
  BY <1>1, <1>2, <1>3, <1>4, <1>5, <1>6

\* The reset that ends a deep sleep.
LEMMA ResetStep == IInv /\ (Reboot) => IInv'
<1> SUFFICES ASSUME IInv, Reboot PROVE IInv'
  OBVIOUS
<1> USE DEF IInv, tasksVars, psVars, lockVars, clockVars, sleepVars, envVars,
            zOthers, mainOthers, Runs, Awake, Reboot
<1>1. TypeOK'
  <2>1. /\ ps' \in [Task -> {"out", "mode", "decide", "slow", "fast", "slowed", "fasted"}]
        /\ psArg' \in [Task -> BOOLEAN] /\ psSaw' \in [Task -> BOOLEAN]
    BY DEF TypeOK
  <2>2. lock' \in [Task -> {"none", "valid", "ignored"}]
    BY DEF TypeOK
  <2>3. /\ zPc' \in [Task -> {"out", "take", "timer", "gpio", "start", "asleep",
                             "disarm", "give", "yield"}]
        /\ zKind' \in [Task -> {"light", "busy"}]
    BY DEF TypeOK
  <2>4. mPc' \in MainPc /\ rPc' \in {"wait", "draw", "drawn"}
    BY DEF TypeOK, MainPc
  <2>5. fails' \in 0..MaxFails /\ slices' \in 0..2 /\ idle' \in 0..2
    BY MaxFailsAssumption DEF TypeOK
  <2>6. /\ sleepMutex' \in Holder /\ screen' \in Holder
        /\ armed' \subseteq Sources /\ clock' \in {"normal", "slow"}
    BY DEF TypeOK, Holder, Task, Sources
  <2>7. mode' \in BOOLEAN /\ isLowPower' \in BOOLEAN
    BY DEF TypeOK
  <2>8. wifi' \in BOOLEAN /\ ble' \in BOOLEAN /\ unswapped' \in BOOLEAN
    BY DEF TypeOK
  <2> QED
    BY <2>1, <2>2, <2>3, <2>4, <2>5, <2>6, <2>7, <2>8 DEF TypeOK
<1>2. LockInv'
  BY DEF Task, TypeOK, LockInv
<1>3. PhaseInv'
  BY DEF Task, TypeOK, LockInv, PhaseInv
<1>4. ArmInv'
  BY DEF Task, TypeOK, PhaseInv, ArmInv, Arming, Wanted
<1>5. SliceInv'
  BY DEF Task, TypeOK, LockInv, PhaseInv, SliceInv, Deciding
<1>6. FlagInv'
  BY DEF Task, TypeOK, LockInv, PhaseInv, FlagInv
<1> QED
  BY <1>1, <1>2, <1>3, <1>4, <1>5, <1>6

\* The inductive invariant holds of every behaviour.
THEOREM Invariance == Spec => []IInv
<1>1. IInv /\ [Next]_vars => IInv'
  <2> SUFFICES ASSUME IInv, [Next]_vars PROVE IInv'
    OBVIOUS
  <2>1. CASE UNCHANGED vars
    BY <2>1 DEF vars, tasksVars, psVars, lockVars, clockVars, sleepVars, envVars,
       IInv, TypeOK, LockInv, PhaseInv, ArmInv, SliceInv, FlagInv, Arming, Deciding, Wanted
  <2>2. CASE Next
    BY <2>2, QuietStep, CallStep, LockStep, DrawStep, AdjustStep, SleepStep, ResetStep
    DEF Next, Main, Render, Task
  <2> QED
    BY <2>1, <2>2
<1> QED
  BY Initially, <1>1, PTL DEF Spec

\* Type correctness of the clock and sleep protocol.
THEOREM TypeCorrect == Spec => []TypeOK
<1>1. IInv => TypeOK
  BY DEF IInv
<1> QED
  BY <1>1, Invariance, PTL

\* Neither task strips the wake sources under which the other halted the
\* chip (sleepMutex around arming, sleeping and disarming).
THEOREM WakesUp == Spec => []ArmedWhileAsleep
<1>1. IInv => ArmedWhileAsleep
  BY DEF IInv, ArmInv, ArmedWhileAsleep
<1> QED
  BY <1>1, Invariance, PTL

\* The unprotected read of the lock word costs a locked task one slice.
THEOREM CostsOneSlice == Spec => []OneSlicePerLock
<1>1. IInv => OneSlicePerLock
  BY DEF IInv, SliceInv, OneSlicePerLock
<1> QED
  BY <1>1, Invariance, PTL

\* The two tasks' unprotected calls of setPowerSaving never leave the flag
\* contradicting the clock.
THEOREM FlagHonest == Spec => []FlagTellsClock
<1>1. IInv => FlagTellsClock
  BY DEF IInv, FlagInv, FlagTellsClock, Task
<1> QED
  BY <1>1, Invariance, PTL

\* Deep sleep starts with no light-sleep wake source armed.
THEOREM DeepSleepClean == Spec => []DeepSleepUnarmed
<1>1. IInv => DeepSleepUnarmed
  BY DEF IInv, TypeOK, Holder, Task, PhaseInv, ArmInv, Arming, DeepSleepUnarmed
<1> QED
  BY <1>1, Invariance, PTL
=============================================================================
