----------------------------- MODULE RenderSync -----------------------------
(***************************************************************************)
(* The two tasks of the user interface (src/activities/ActivityManager.cpp *)
(* and RenderLock.h): the Arduino loop task ("main"), which runs the       *)
(* activities, changes their state, switches between them and asks for     *)
(* repaints, and the render task, which draws the current activity.  They  *)
(* share one FreeRTOS mutex (renderingMutex), one direct-to-task           *)
(* notification each, the deferred flag requestedUpdate and the slot       *)
(* waitingTaskHandle of the task blocked in requestUpdateAndWait().        *)
(*                                                                         *)
(* What a frame contains is abstracted to version numbers: every change of *)
(* what the current activity would draw makes a new version.  Activities   *)
(* make such changes with or without the RenderLock, so the parts of a     *)
(* frame may be of several versions; a frame counts as its oldest part.    *)
(***************************************************************************)
EXTENDS Naturals

CONSTANTS
  Activity,       \* addresses at which Activity objects are allocated
  NoActivity,     \* the null currentActivity
  MaxVer,         \* bound on the changes of what is to be drawn
  MaxTimeouts     \* bound on the 5 s waits that run out

ASSUME ActivityAssumption == NoActivity \notin Activity
ASSUME BoundsAssumption == MaxVer \in Nat /\ MaxTimeouts \in Nat

VARIABLES
  mPc,              \* where the main task is
  rPc,              \* where the render task is
  mutex,            \* holder of renderingMutex
  rNotified,        \* render task's notification value is not 0
  mNotified,        \* main task's notification value is not 0
  waiting,          \* waitingTaskHandle: "none" or "main"
  requestedUpdate,  \* the deferred request, sent at the end of loop()
  resuming,         \* a Pop still owes its requestUpdate()
  cur,              \* currentActivity
  alive,            \* activities constructed and not destroyed
  drawn,            \* the activity this pass of the render task draws
  drawVer,          \* the version when it began: no part of it is older
  ver, wanted, shown, \* as in Screen
  waitVer,          \* version when requestUpdateAndWait() was called
  behind,           \* history: a pass that may lack it was under way then
  blankWake,        \* the last wake-up came from a pass with nothing to draw
  timeouts          \* waits that ran out so far

taskVars   == <<mPc, rPc, mutex>>
notifyVars == <<rNotified, mNotified, waiting, requestedUpdate, resuming>>
actVars    == <<cur, alive>>
drawVars   == <<drawn, drawVer>>
screenVars == <<ver, wanted, shown>>
waitVars   == <<waitVer, behind, blankWake, timeouts>>
vars == <<taskVars, notifyVars, actVars, drawVars, screenVars, waitVars>>

MainPc   == {"run", "notify", "wait", "woken", "late", "swap", "homeless"}
RenderPc == {"take", "lock", "drawing", "drawn", "wake", "release"}

TypeOK ==
  /\ mPc \in MainPc /\ rPc \in RenderPc
  /\ mutex \in {"free", "main", "render"}
  /\ rNotified \in BOOLEAN /\ mNotified \in BOOLEAN
  /\ waiting \in {"none", "main"}
  /\ requestedUpdate \in BOOLEAN /\ resuming \in BOOLEAN
  /\ alive \subseteq Activity /\ cur \in alive \cup {NoActivity}
  /\ drawn \in Activity \cup {NoActivity} /\ drawVer \in 0..MaxVer
  /\ ver \in 0..MaxVer /\ wanted \in 0..MaxVer /\ shown \in 0..MaxVer
  /\ waitVer \in 0..MaxVer /\ behind \in BOOLEAN /\ blankWake \in BOOLEAN
  /\ timeouts \in 0..MaxTimeouts

-----------------------------------------------------------------------------
(* begin(): the render task blocks on its notification; setup() has not    *)
(* launched an activity yet.                                               *)

Init ==
  /\ mPc = "homeless" /\ rPc = "take" /\ mutex = "free"
  /\ rNotified = FALSE /\ mNotified = FALSE /\ waiting = "none"
  /\ requestedUpdate = FALSE /\ resuming = FALSE
  /\ cur = NoActivity /\ alive = {}
  /\ drawn = NoActivity /\ drawVer = 0
  /\ ver = 0 /\ wanted = 0 /\ shown = 0
  /\ waitVer = 0 /\ behind = FALSE /\ blankWake = FALSE /\ timeouts = 0

-----------------------------------------------------------------------------
(* The main task: what activity code does between two points of loop().    *)

\* <field> = ...;   Nothing obliges an activity to hold the RenderLock: Snake's
\* step(), for one, moves the snake without it, also while a pass draws it.
Mutate ==
  /\ mPc = "run" /\ ver < MaxVer
  /\ ver' = ver + 1
  /\ UNCHANGED <<taskVars, notifyVars, actVars, drawVars, wanted, shown, waitVars>>

RequestUpdateDeferred ==
  /\ mPc = "run"
  /\ requestedUpdate' = TRUE /\ wanted' = ver
  /\ UNCHANGED <<taskVars, rNotified, mNotified, waiting, resuming, actVars,
                 drawVars, ver, shown, waitVars>>

RequestUpdateImmediate ==
  /\ mPc = "run"
  /\ rNotified' = TRUE /\ wanted' = ver
  /\ UNCHANGED <<taskVars, mNotified, waiting, requestedUpdate, resuming,
                 actVars, drawVars, ver, shown, waitVars>>

\* requestUpdateAndWait(), first critical section: this call becomes the waiter.
MayWait == waiting = "none" /\ mutex # "main"

\* History: a pass that began before the last change has yet to answer.
StalePass == drawn # NoActivity /\ rPc \in {"drawing", "drawn"} /\ drawVer < ver

RegisterAsWaiter ==
  /\ mPc = "run" /\ MayWait
  /\ waiting' = "main" /\ mPc' = "notify"
  /\ waitVer' = ver /\ wanted' = ver /\ behind' = StalePass
  /\ UNCHANGED <<rPc, mutex, rNotified, mNotified, requestedUpdate, resuming,
                 actVars, drawVars, ver, shown, blankWake, timeouts>>

\* ... or a guard tripped (asserts compiled out): fire-and-forget instead.
\* Reached from onExit() too, which runs under the RenderLock.
FallBackToRequest ==
  /\ mPc \in {"run", "swap"} /\ ~MayWait
  /\ rNotified' = TRUE /\ wanted' = ver
  /\ UNCHANGED <<taskVars, mNotified, waiting, requestedUpdate, resuming,
                 actVars, drawVars, ver, shown, waitVars>>

NotifyRenderTask ==
  /\ mPc = "notify"
  /\ rNotified' = TRUE /\ mPc' = "wait"
  /\ UNCHANGED <<rPc, mutex, mNotified, waiting, requestedUpdate, resuming,
                 actVars, drawVars, screenVars, waitVars>>

\* ulTaskNotifyTake(pdTRUE, slice) # 0
WaitSucceeds ==
  /\ mPc = "wait" /\ mNotified
  /\ mNotified' = FALSE /\ mPc' = "woken"
  /\ UNCHANGED <<rPc, mutex, rNotified, waiting, requestedUpdate, resuming,
                 actVars, drawVars, screenVars, waitVars>>

\* The last 20-tick slice of the 5000 returned 0.
WaitRunsOut ==
  /\ mPc = "wait" /\ ~mNotified /\ timeouts < MaxTimeouts
  /\ timeouts' = timeouts + 1 /\ mPc' = "late"
  /\ UNCHANGED <<rPc, mutex, notifyVars, actVars, drawVars, screenVars,
                 waitVer, behind, blankWake>>

\* Second critical section: drop the registration if it is still there.
ClearRegistration ==
  /\ mPc = "late"
  /\ waiting' = "none" /\ mPc' = "run"
  /\ UNCHANGED <<rPc, mutex, rNotified, mNotified, requestedUpdate, resuming,
                 actVars, drawVars, screenVars, waitVars>>

\* The caller goes on after requestUpdateAndWait() returned.
ReturnFromWait ==
  /\ mPc = "woken"
  /\ mPc' = "run"
  /\ UNCHANGED <<rPc, mutex, notifyVars, actVars, drawVars, screenVars, waitVars>>

\* Mutant of EndOfLoop: the flag is consumed, the render task not notified.
EndOfLoopSilent ==
  /\ mPc = "run" /\ ~resuming /\ requestedUpdate
  /\ requestedUpdate' = FALSE
  /\ UNCHANGED <<taskVars, rNotified, mNotified, waiting, resuming, actVars,
                 drawVars, screenVars, waitVars>>

\* if (requestedUpdate.exchange(false)) xTaskNotify(renderTaskHandle, ...)
EndOfLoop ==
  /\ mPc = "run" /\ ~resuming /\ requestedUpdate
  /\ requestedUpdate' = FALSE /\ rNotified' = TRUE
  /\ UNCHANGED <<taskVars, mNotified, waiting, resuming, actVars, drawVars,
                 screenVars, waitVars>>

-----------------------------------------------------------------------------
(* The main task: pending actions of ActivityManager::loop().  The stack   *)
(* of activities is the set of live ones other than the current; which of  *)
(* them a Pop returns to is the business of ActivityStack.                 *)

\* Mutant of BeginSwap: the pending action does not wait for the render task.
BeginSwapUnlocked ==
  /\ mPc = "run" /\ ver < MaxVer
  /\ mutex' = "main" /\ mPc' = "swap" /\ resuming' = FALSE
  /\ UNCHANGED <<rPc, rNotified, mNotified, waiting, requestedUpdate, actVars,
                 drawVars, screenVars, waitVars>>

\* A pending action takes the RenderLock; the outgoing onExit() runs next.
BeginSwap ==
  /\ mPc = "run" /\ mutex = "free" /\ ver < MaxVer
  /\ mutex' = "main" /\ mPc' = "swap" /\ resuming' = FALSE
  /\ UNCHANGED <<rPc, rNotified, mNotified, waiting, requestedUpdate, actVars,
                 drawVars, screenVars, waitVars>>

\* Put activity a on the screen, with the given live set, and drop the lock.
Install(a, living) ==
  /\ cur' = a /\ alive' = living
  /\ ver' = ver + 1 /\ wanted' = 0
  /\ mutex' = "free" /\ mPc' = "run"
  /\ UNCHANGED <<rPc, rNotified, mNotified, waiting, requestedUpdate, drawVars,
                 shown, waitVars>>

Push ==
  /\ mPc = "swap"
  /\ \E a \in Activity \ alive : Install(a, alive \cup {a})
  /\ UNCHANGED resuming

\* The new object was constructed before the old ones are destroyed.
Replace ==
  /\ mPc = "swap"
  /\ \E a \in Activity \ alive : Install(a, {a})
  /\ UNCHANGED resuming

\* Back to a stacked activity; its result handler runs with the lock dropped.
Pop ==
  /\ mPc = "swap"
  /\ \E a \in alive \ {cur} : Install(a, alive \ {cur})
  /\ resuming' = TRUE

\* The popped activity was the last: currentActivity is null, lock dropped.
PopLast ==
  /\ mPc = "swap" /\ alive = {cur}
  /\ cur' = NoActivity /\ alive' = {} /\ wanted' = 0
  /\ mutex' = "free" /\ mPc' = "homeless"
  /\ UNCHANGED <<rPc, notifyVars, drawVars, ver, shown, waitVars>>

\* replaceActivity() with no current activity: no lock is taken.
LaunchAtOnce ==
  /\ mPc = "homeless" /\ ver < MaxVer
  /\ \E a \in Activity : cur' = a /\ alive' = {a}
  /\ ver' = ver + 1 /\ wanted' = 0 /\ mPc' = "run"
  /\ UNCHANGED <<rPc, mutex, notifyVars, drawVars, shown, waitVars>>

\* The result handler returned without a new pending action.
FinishPop ==
  /\ mPc = "run" /\ resuming
  /\ resuming' = FALSE /\ requestedUpdate' = TRUE /\ wanted' = ver
  /\ UNCHANGED <<taskVars, rNotified, mNotified, waiting, actVars, drawVars,
                 ver, shown, waitVars>>

-----------------------------------------------------------------------------
(* The render task: renderTaskLoop().                                      *)

TakeNotification ==
  /\ rPc = "take" /\ rNotified
  /\ rNotified' = FALSE /\ rPc' = "lock"
  /\ UNCHANGED <<mPc, mutex, mNotified, waiting, requestedUpdate, resuming,
                 actVars, drawVars, screenVars, waitVars>>

\* RenderLock lock; if (currentActivity) { powerLock; currentActivity->render() ...
BeginPass ==
  /\ rPc = "lock" /\ mutex = "free"
  /\ mutex' = "render" /\ drawn' = cur /\ drawVer' = ver
  /\ rPc' = IF cur = NoActivity THEN "drawn" ELSE "drawing"
  /\ UNCHANGED <<mPc, notifyVars, actVars, screenVars, waitVars>>

\* Mutant of FinishDrawing: render() returns without waitRefreshComplete().
FinishDrawingAsync ==
  /\ rPc = "drawing"
  /\ rPc' = "drawn"
  /\ UNCHANGED <<mPc, mutex, notifyVars, actVars, drawVars, screenVars, waitVars>>

\* render() returns with the frame on the panel; powerLock is destroyed.  What
\* changed since the pass began is in the frame, or in part of it, or not.
FinishDrawing ==
  /\ rPc = "drawing"
  /\ shown' \in drawVer..ver /\ rPc' = "drawn"
  /\ UNCHANGED <<mPc, mutex, notifyVars, actVars, drawVars, ver, wanted, waitVars>>

\* Critical section: take the waiter out of the slot.
TakeWaiter ==
  /\ rPc = "drawn"
  /\ waiting' = "none"
  /\ rPc' = IF waiting = "none" THEN "release" ELSE "wake"
  /\ UNCHANGED <<mPc, mutex, rNotified, mNotified, requestedUpdate, resuming,
                 actVars, drawVars, screenVars, waitVars>>

\* Mutant of NotifyWaiter: a pass that found no activity wakes nobody.
NotifyWaiterIfDrawn ==
  /\ rPc = "wake"
  /\ mNotified' = (mNotified \/ drawn # NoActivity) /\ rPc' = "release"
  /\ blankWake' = (drawn = NoActivity)
  /\ UNCHANGED <<mPc, mutex, rNotified, waiting, requestedUpdate, resuming,
                 actVars, drawVars, screenVars, waitVer, behind, timeouts>>

NotifyWaiter ==
  /\ rPc = "wake"
  /\ mNotified' = TRUE /\ rPc' = "release"
  /\ blankWake' = (drawn = NoActivity)
  /\ UNCHANGED <<mPc, mutex, rNotified, waiting, requestedUpdate, resuming,
                 actVars, drawVars, screenVars, waitVer, behind, timeouts>>

\* Mutant of EndPass: what was requested while it drew is forgotten.
EndPassForgetful ==
  /\ rPc = "release"
  /\ mutex' = "free" /\ rPc' = "take" /\ rNotified' = FALSE
  /\ UNCHANGED <<mPc, mNotified, waiting, requestedUpdate, resuming, actVars,
                 drawVars, screenVars, waitVars>>

\* The RenderLock was never moved from: its destructor ends the iteration.
EndPass ==
  /\ rPc = "release"
  /\ mutex' = "free" /\ rPc' = "take"
  /\ UNCHANGED <<mPc, notifyVars, actVars, drawVars, screenVars, waitVars>>

-----------------------------------------------------------------------------
WaitSteps == NotifyRenderTask \/ WaitSucceeds \/ ClearRegistration \/ ReturnFromWait
SwapSteps == Push \/ Replace \/ Pop \/ PopLast

Main ==
  \/ Mutate \/ RequestUpdateDeferred \/ RequestUpdateImmediate
  \/ RegisterAsWaiter \/ FallBackToRequest \/ WaitSteps \/ WaitRunsOut
  \/ EndOfLoop \/ BeginSwap \/ SwapSteps \/ LaunchAtOnce \/ FinishPop

Render ==
  \/ TakeNotification \/ BeginPass \/ FinishDrawing
  \/ TakeWaiter \/ NotifyWaiter \/ EndPass

Next == Main \/ Render

(***************************************************************************)
(* Both tasks have priority 1 and FreeRTOS time-slices equal priorities,   *)
(* so each goes on when it can.  The mutex is contended: the main loop     *)
(* yields once per iteration with the lock free, hence SF on BeginPass.    *)
(* An activity's loop() returns, so the end of loop() is reached again     *)
(* and again (SF on EndOfLoop, whose guard a wait or a switch suspends).   *)
(* No assumption is made on the choices activities take.                   *)
(***************************************************************************)
Fairness ==
  /\ WF_vars(TakeNotification) /\ SF_vars(BeginPass)
  /\ WF_vars(FinishDrawing \/ TakeWaiter \/ NotifyWaiter \/ EndPass)
  /\ WF_vars(WaitSteps) /\ WF_vars(SwapSteps) /\ WF_vars(LaunchAtOnce)
  /\ SF_vars(FinishPop) /\ SF_vars(EndOfLoop)

Spec == Init /\ [][Next]_vars /\ Fairness

-----------------------------------------------------------------------------
(* Properties.                                                             *)

\* The render task never draws an activity that the main task has destroyed
\* or replaced: destruction happens under the RenderLock the pass holds.
DrawnActivityIsCurrent ==
  rPc = "drawing" => drawn = cur /\ drawn \in alive

\* A repaint that was asked for and not yet shown is always on its way: in
\* the deferred flag, in a notification, in a call about to notify, or in a
\* pass that has read, or is about to read, a version that is new enough.
NoLostUpdate ==
  wanted > shown =>
    \/ requestedUpdate \/ rNotified \/ mPc = "notify" \/ rPc = "lock"
    \/ rPc = "drawing" /\ drawVer >= wanted

\* While no wait has run out, a requestUpdateAndWait() that was notified
\* returns with all of its caller's changes on the panel, even when a pass that
\* was already under way answers it: unless the caller made one of them beside
\* that very pass.  (blankWake: see README, "A pass with no activity".)
WaitedFrameIsShown ==
  mPc = "woken" /\ timeouts = 0 /\ ~blankWake /\ ~behind => shown >= waitVer

\* requestUpdateAndWait() always returns, also when called under the lock,
\* and also if the 5 s limit never strikes.
WaitReturns == (mPc \in {"notify", "wait"}) ~> (mPc = "run")

\* The protocol implements the abstract screen, although activities change
\* beside a pass: a frame never takes back what was shown, and every repaint
\* that is asked for and stays wanted is eventually painted in full.
Abstract == INSTANCE Screen WITH ver <- ver, wanted <- wanted, shown <- shown
ImplementsScreen == Abstract!Spec
=============================================================================
