-------------------------- MODULE RenderSyncProofs --------------------------
(***************************************************************************)
(* Proofs about RenderSync for every set of activities and every bound.    *)
(* IInv is the inductive invariant: who holds the lock in which state of   *)
(* the two tasks, what a pass can show although its activity may change    *)
(* beside it, and where the one wake-up of a waiting main task can be.     *)
(***************************************************************************)
EXTENDS RenderSync, TLAPS

Blocked == mPc \in {"notify", "wait"}
InPass == rPc \in {"drawing", "drawn", "wake", "release"}

\* The holder of the mutex is where the program counters say.
LockInv ==
  /\ mutex = "main" <=> mPc = "swap"
  /\ mutex = "render" <=> InPass
  /\ mPc = "swap" => ver < MaxVer

CurInv ==
  /\ cur = NoActivity <=> mPc = "homeless"
  /\ mPc # "homeless" => cur \in alive
  /\ mPc = "homeless" => wanted = 0

\* A pass takes back nothing and shows at least what it found when it began.
PassInv ==
  /\ wanted <= ver /\ shown <= ver
  /\ rPc = "drawing" => drawn = cur /\ cur # NoActivity
  /\ rPc = "drawing" => shown <= drawVer /\ drawVer <= ver
  /\ InPass /\ rPc # "drawing" /\ drawn # NoActivity => drawVer <= shown

\* A wait that counts on its frame finds it in whichever pass answers: the
\* one that takes it out of the slot, or has it in its hand, is recent enough.
RecentPass ==
  /\ rPc \in {"drawing", "drawn"} /\ drawn # NoActivity => drawVer = ver
  /\ rPc = "wake" /\ drawn # NoActivity => shown = ver

\* The wake-up of a waiting call is in exactly one place: the slot, the
\* render task's hand, or the notification.  (Until a wait runs out.)
WaitInv ==
  /\ mPc \in {"notify", "wait", "woken"} => waitVer = ver
  /\ mPc = "late" => timeouts # 0
  /\ timeouts = 0 =>
       /\ waiting = "main" => Blocked /\ rPc # "wake" /\ ~mNotified
       /\ rPc = "wake" => Blocked /\ ~mNotified
       /\ mNotified => Blocked
       /\ Blocked /\ ~behind => RecentPass
       /\ Blocked /\ mNotified /\ ~behind => blankWake \/ shown = ver
       /\ mPc = "woken" /\ ~behind => blankWake \/ shown = ver

IInv == TypeOK /\ LockInv /\ CurInv /\ PassInv /\ NoLostUpdate /\ WaitInv

\* The initial states satisfy the inductive invariant.
LEMMA InitIInv == Init => IInv
<1> SUFFICES ASSUME Init PROVE IInv
  OBVIOUS
<1> USE BoundsAssumption DEF Init
<1>1. TypeOK
  <2>1. /\ rNotified \in BOOLEAN /\ mNotified \in BOOLEAN
        /\ requestedUpdate \in BOOLEAN /\ resuming \in BOOLEAN
        /\ behind \in BOOLEAN /\ blankWake \in BOOLEAN
    BY Zenon
  <2> QED
    BY <2>1 DEF TypeOK, MainPc, RenderPc
<1>2. LockInv /\ CurInv /\ PassInv
  BY DEF LockInv, InPass, CurInv, PassInv
<1>3. NoLostUpdate
  BY DEF NoLostUpdate
<1>4. WaitInv
  BY DEF WaitInv, Blocked, RecentPass
<1> QED
  BY <1>1, <1>2, <1>3, <1>4 DEF IInv

\* Every step of either task preserves the inductive invariant.
LEMMA NextIInv == IInv /\ [Next]_vars => IInv'
<1> SUFFICES ASSUME IInv, [Next]_vars PROVE IInv'
  OBVIOUS
<1> USE ActivityAssumption, BoundsAssumption
    DEF IInv, TypeOK, MainPc, RenderPc, LockInv, InPass, CurInv, PassInv,
        NoLostUpdate, WaitInv, Blocked, RecentPass, taskVars, notifyVars, actVars,
        drawVars, screenVars, waitVars
<1>1. CASE Mutate
  BY <1>1 DEF Mutate
<1>2. CASE RequestUpdateDeferred
  BY <1>2 DEF RequestUpdateDeferred
<1>3. CASE RequestUpdateImmediate
  BY <1>3 DEF RequestUpdateImmediate
<1>4. CASE RegisterAsWaiter
  <2>1. behind' \in BOOLEAN
    BY <1>4, Zenon DEF RegisterAsWaiter, StalePass
  <2>2. ~behind' => ~StalePass
    BY <1>4, Zenon DEF RegisterAsWaiter
  <2>3. ~StalePass /\ timeouts = 0 => RecentPass
    BY <1>4 DEF RegisterAsWaiter, StalePass
  <2>4. TypeOK'
    BY <1>4, <2>1 DEF RegisterAsWaiter
  <2>5. (LockInv /\ CurInv /\ PassInv /\ NoLostUpdate)'
    BY <1>4 DEF RegisterAsWaiter
  <2>6. WaitInv'
    BY <1>4, <2>2, <2>3 DEF RegisterAsWaiter, MayWait
  <2> QED
    BY <2>4, <2>5, <2>6
<1>5. CASE FallBackToRequest
  BY <1>5 DEF FallBackToRequest, MayWait
<1>6. CASE NotifyRenderTask
  BY <1>6 DEF NotifyRenderTask
<1>7. CASE WaitSucceeds
  <2>1. (TypeOK /\ LockInv /\ CurInv /\ PassInv /\ NoLostUpdate)'
    BY <1>7 DEF WaitSucceeds
  <2>2. WaitInv'
    BY <1>7 DEF WaitSucceeds
  <2> QED
    BY <2>1, <2>2
<1>8. CASE WaitRunsOut
  BY <1>8 DEF WaitRunsOut
<1>9. CASE ClearRegistration
  BY <1>9 DEF ClearRegistration
<1>10. CASE ReturnFromWait
  BY <1>10 DEF ReturnFromWait
<1>11. CASE EndOfLoop
  BY <1>11 DEF EndOfLoop
<1>12. CASE BeginSwap
  BY <1>12 DEF BeginSwap
<1>13. CASE Push
  BY <1>13 DEF Push, Install
<1>14. CASE Replace
  BY <1>14 DEF Replace, Install
<1>15. CASE Pop
  BY <1>15 DEF Pop, Install
<1>16. CASE PopLast
  BY <1>16 DEF PopLast
<1>17. CASE LaunchAtOnce
  BY <1>17 DEF LaunchAtOnce
<1>18. CASE FinishPop
  <2>1. resuming' \in BOOLEAN /\ requestedUpdate' \in BOOLEAN
    BY <1>18, Zenon DEF FinishPop
  <2> QED
    BY <1>18, <2>1 DEF FinishPop
<1>19. CASE TakeNotification
  <2>1. (TypeOK /\ LockInv /\ CurInv /\ PassInv /\ NoLostUpdate)'
    BY <1>19 DEF TakeNotification
  <2>2. WaitInv'
    BY <1>19 DEF TakeNotification
  <2> QED
    BY <2>1, <2>2
<1>20. CASE BeginPass
  BY <1>20 DEF BeginPass
<1>21. CASE FinishDrawing
  BY <1>21 DEF FinishDrawing
<1>22. CASE TakeWaiter
  BY <1>22 DEF TakeWaiter
<1>23. CASE NotifyWaiter
  BY <1>23 DEF NotifyWaiter
<1>24. CASE EndPass
  BY <1>24 DEF EndPass
<1>25. CASE UNCHANGED vars
  BY <1>25 DEF vars
<1> QED
  BY <1>1, <1>2, <1>3, <1>4, <1>5, <1>6, <1>7, <1>8, <1>9, <1>10, <1>11,
     <1>12, <1>13, <1>14, <1>15, <1>16, <1>17, <1>18, <1>19, <1>20, <1>21,
     <1>22, <1>23, <1>24, <1>25
  DEF Next, Main, Render, WaitSteps, SwapSteps

-----------------------------------------------------------------------------
(* The theorems.                                                           *)

\* The inductive invariant holds in every reachable state.
THEOREM Invariance == Spec => []IInv
  BY InitIInv, NextIInv, PTL DEF Spec

\* Every variable keeps its type (src/activities/ActivityManager.cpp:64-209).
THEOREM TypeCorrect == Spec => []TypeOK
  BY Invariance, PTL DEF IInv

\* However many activities are pushed, popped and replaced, the render task
\* only ever draws the one that is current and not destroyed (lines 67-76).
THEOREM DrawsCurrentActivity == Spec => []DrawnActivityIsCurrent
<1>1. IInv => DrawnActivityIsCurrent
  BY ActivityAssumption DEF IInv, CurInv, PassInv, DrawnActivityIsCurrent
<1> QED
  BY <1>1, Invariance, PTL

\* No repaint request is lost in the hand-over between the tasks (lines
\* 66, 202-207, 445-455, 501).
THEOREM LosesNoUpdate == Spec => []NoLostUpdate
  BY Invariance, PTL DEF IInv

\* As long as no wait runs out, requestUpdateAndWait() returns with its frame
\* on the panel, unless a change was made beside the pass that answers it
\* (lines 456-550 against 89-97; SnakeActivity.cpp:100-152).
THEOREM ShowsWaitedFrame == Spec => []WaitedFrameIsShown
<1>1. IInv => WaitedFrameIsShown
  BY DEF IInv, TypeOK, WaitInv, WaitedFrameIsShown
<1> QED
  BY <1>1, Invariance, PTL

\* The two-task protocol implements the abstract screen, fairness apart: the
\* end of a pass is a Paint, which never takes back what was shown, whatever
\* the activity changed beside it.
THEOREM RefinesScreen == Spec => Abstract!Init /\ [][Abstract!Next]_(Abstract!vars)
<1> USE DEF taskVars, notifyVars, actVars, drawVars, screenVars, waitVars,
            Abstract!Next, Abstract!vars
<1>1. Init => Abstract!Init
  BY DEF Init, Abstract!Init
<1>2. IInv /\ [Next]_vars => [Abstract!Next]_(Abstract!vars)
  <2> SUFFICES ASSUME IInv, [Next]_vars PROVE [Abstract!Next]_(Abstract!vars)
    OBVIOUS
  <2>1. CASE Mutate
    BY <2>1 DEF Mutate, Abstract!Change
  <2>2. CASE Push \/ Replace \/ Pop \/ LaunchAtOnce
    BY <2>2 DEF Push, Replace, Pop, LaunchAtOnce, Install, Abstract!Switch
  <2>3. CASE PopLast
    BY <2>3 DEF PopLast, Abstract!Leave
  <2>4. CASE \/ RequestUpdateDeferred \/ RequestUpdateImmediate
             \/ RegisterAsWaiter \/ FallBackToRequest \/ FinishPop
    BY <2>4 DEF RequestUpdateDeferred, RequestUpdateImmediate,
       RegisterAsWaiter, FallBackToRequest, FinishPop, Abstract!Ask
  <2>5. CASE FinishDrawing
    BY <2>5 DEF FinishDrawing, IInv, TypeOK, PassInv, Abstract!Paint
  <2>6. CASE WaitSteps \/ WaitRunsOut \/ EndOfLoop \/ BeginSwap
    BY <2>6 DEF WaitSteps, NotifyRenderTask, WaitSucceeds, ClearRegistration,
       ReturnFromWait, WaitRunsOut, EndOfLoop, BeginSwap
  <2>7. CASE TakeNotification \/ BeginPass \/ TakeWaiter \/ NotifyWaiter \/ EndPass
    BY <2>7 DEF TakeNotification, BeginPass, TakeWaiter, NotifyWaiter, EndPass
  <2>8. CASE UNCHANGED vars
    BY <2>8 DEF vars
  <2> QED
    BY <2>1, <2>2, <2>3, <2>4, <2>5, <2>6, <2>7, <2>8
    DEF Next, Main, Render, SwapSteps
<1> QED
  BY <1>1, <1>2, Invariance, PTL DEF Spec
=============================================================================
