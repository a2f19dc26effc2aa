---------------------------- MODULE ActivityStack ----------------------------
(***************************************************************************)
(* Navigation on the main task (src/activities/ActivityManager.cpp and     *)
(* Activity.cpp): the current activity, the stack under it, the one        *)
(* pending action, the result handlers and the system gestures.  A         *)
(* callback of an activity (loop(), onEnter(), a result handler) makes any *)
(* MaxCalls navigation calls; loop() of the manager then works them off.   *)
(* Locks and repaints are the business of RenderSync.                      *)
(***************************************************************************)
EXTENDS Naturals, Sequences, SequencesExt

CONSTANTS
  Activity,     \* addresses of Activity objects
  NoActivity,
  MaxCalls,     \* navigation calls one callback makes
  MaxChain      \* callbacks one run of the manager's loop() starts

ASSUME StackAssumption ==
  NoActivity \notin Activity /\ MaxCalls \in Nat \ {0} /\ MaxChain \in Nat \ {0}

VARIABLES
  phase,          \* what the main task runs, see Phases
  calls,          \* navigation calls the running callback may still make
  chain,          \* callbacks started since the manager's loop() was entered
  cur, stack,     \* currentActivity, stackActivities (top last)
  pendingAction, pendingActivity,
  kind,           \* what kind of screen lives at an address
  handlerFor,     \* the child whose result an activity's resultHandler is for
  delivered,      \* last result handed over: from which child, meant for which
  sleeping,       \* loop() was called by goToSleep()
  bleActive       \* BlePeripheral.isActive()

navVars == <<cur, stack, pendingAction, pendingActivity, kind, handlerFor>>
vars == <<phase, calls, chain, navVars, delivered, sleeping, bleActive>>

Phases == {"tick",      \* between two runs of ActivityManager::loop()
           "callback",  \* in loop(), onEnter() or a handler of cur
           "dispatch",  \* in the while (pendingAction != None) loop
           "homeless",  \* Pop emptied the stack, goHome() comes next
           "asleep"}    \* goToSleep() returned
Kinds == {"home", "panel", "sleep", "screen"}
Actions == {"None", "Push", "Pop", "Replace"}

MaybeActivity == Activity \cup {NoActivity}

TypeOK ==
  /\ phase \in Phases /\ calls \in 0..MaxCalls /\ chain \in 0..MaxChain
  /\ cur \in MaybeActivity /\ stack \in Seq(Activity)
  /\ pendingAction \in Actions /\ pendingActivity \in MaybeActivity
  /\ pendingActivity # NoActivity <=> pendingAction \in {"Push", "Replace"}
  /\ kind \in [Activity -> Kinds]
  /\ handlerFor \in [Activity -> MaybeActivity]
  /\ delivered \in [from : MaybeActivity, for : MaybeActivity]
  /\ sleeping \in BOOLEAN /\ bleActive \in BOOLEAN

\* Objects that exist.
Live == ToSet(stack) \cup ({cur, pendingActivity} \ {NoActivity})

\* setup(): no activity yet; replaceActivity() will launch one at once.
Init ==
  /\ phase = "homeless" /\ calls = 0 /\ chain = 0
  /\ cur = NoActivity /\ stack = <<>>
  /\ pendingAction = "None" /\ pendingActivity = NoActivity
  /\ kind = [a \in Activity |-> "screen"]
  /\ handlerFor = [a \in Activity |-> NoActivity]
  /\ delivered = [from |-> NoActivity, for |-> NoActivity]
  /\ sleeping = FALSE /\ bleActive = FALSE

-----------------------------------------------------------------------------
(* Navigation calls: pushActivity, popActivity, replaceActivity and their  *)
(* wrappers.  A new object a of kind k starts without a result handler.    *)

Construct(a, k) ==
  /\ a \in Activity \ Live
  /\ kind' = [kind EXCEPT ![a] = k]

PushActivity(a) ==
  /\ pendingActivity' = a /\ pendingAction' = "Push"

PopActivity ==
  /\ pendingActivity' = NoActivity /\ pendingAction' = "Pop"

\* replaceActivity() while there is a current activity.
ReplaceActivity(a) ==
  /\ pendingActivity' = a /\ pendingAction' = "Replace"

\* startActivityForResult(child, handler) on the current activity.
StartActivityForResult ==
  \E child \in Activity :
    /\ Construct(child, "screen")
    /\ handlerFor' = [handlerFor EXCEPT ![cur] = child, ![child] = NoActivity]
    /\ PushActivity(child)

Finish == PopActivity /\ UNCHANGED <<kind, handlerFor>>

GoTo(k) ==
  \E a \in Activity :
    /\ Construct(a, k)
    /\ handlerFor' = [handlerFor EXCEPT ![a] = NoActivity]
    /\ ReplaceActivity(a)

\* The light panel is pushed without a handler for its result.
OpenPanel ==
  \E a \in Activity :
    /\ Construct(a, "panel")
    /\ handlerFor' = [handlerFor EXCEPT ![a] = NoActivity]
    /\ PushActivity(a)

-----------------------------------------------------------------------------
(* Callbacks of activities.                                                *)

\* A callback makes one more navigation call ...
NavigationCall ==
  /\ phase = "callback" /\ calls > 0
  /\ StartActivityForResult \/ Finish \/ GoTo("screen") \/ GoTo("home")
  /\ calls' = calls - 1
  /\ UNCHANGED <<phase, chain, cur, stack, delivered, sleeping, bleActive>>

\* ... or returns, into the manager's while loop.
CallbackReturns ==
  /\ phase = "callback"
  /\ phase' = "dispatch" /\ calls' = 0
  /\ UNCHANGED <<chain, navVars, delivered, sleeping, bleActive>>

\* A callback starts; the last one that fits into the chain stays put.
StartCallback ==
  /\ phase' = "callback"
  /\ chain' = IF chain < MaxChain THEN chain + 1 ELSE chain
  /\ calls' = IF chain < MaxChain THEN MaxCalls ELSE 0

-----------------------------------------------------------------------------
(* ActivityManager::loop() up to the while loop.                           *)

\* loop() returns to main.cpp's loop(), or to goToSleep() and enterDeepSleep().
LoopReturns ==
  /\ phase' = IF sleeping THEN "asleep" ELSE "tick"
  /\ chain' = 0

HomeGesture ==
  /\ phase = "tick" /\ kind[cur] # "home"
  /\ IF kind[cur] = "panel" THEN Finish ELSE GoTo("home")
  /\ LoopReturns
  /\ UNCHANGED <<calls, cur, stack, delivered, sleeping, bleActive>>

LightPanelGesture ==
  /\ phase = "tick" /\ kind[cur] # "panel"
  /\ OpenPanel /\ LoopReturns
  /\ UNCHANGED <<calls, cur, stack, delivered, sleeping, bleActive>>

\* The panel does not fit into the heap.
LightPanelOutOfMemory ==
  /\ phase = "tick" /\ kind[cur] # "panel"
  /\ LoopReturns
  /\ UNCHANGED <<calls, navVars, delivered, sleeping, bleActive>>

\* currentActivity->loop()
ActivityLoop ==
  /\ phase = "tick"
  /\ StartCallback
  /\ UNCHANGED <<navVars, delivered, sleeping, bleActive>>

\* enterDeepSleep(): goToSleep() replaces and calls loop() itself.
GoToSleep ==
  /\ phase = "tick" /\ ~sleeping
  /\ GoTo("sleep") /\ sleeping' = TRUE
  /\ UNCHANGED <<phase, calls, chain, cur, stack, delivered, bleActive>>

-----------------------------------------------------------------------------
(* The while loop.                                                         *)

DispatchDone ==
  /\ phase = "dispatch" /\ pendingAction = "None"
  /\ LoopReturns
  /\ UNCHANGED <<calls, navVars, delivered, sleeping, bleActive>>

\* Mutant of DispatchPop: the handler is called and stays registered.
DispatchPopKeepingHandler ==
  /\ phase = "dispatch" /\ pendingAction = "Pop" /\ stack # <<>>
  /\ pendingAction' = "None"
  /\ cur' = Last(stack) /\ stack' = Front(stack)
  /\ IF handlerFor[Last(stack)] # NoActivity
       THEN delivered' = [from |-> cur, for |-> handlerFor[Last(stack)]] /\ StartCallback
       ELSE UNCHANGED <<delivered, phase, calls, chain>>
  /\ UNCHANGED <<pendingActivity, kind, handlerFor, sleeping, bleActive>>

\* Pop back to a stacked activity and hand over the result.
DispatchPop ==
  /\ phase = "dispatch" /\ pendingAction = "Pop" /\ stack # <<>>
  /\ pendingAction' = "None"
  /\ cur' = Last(stack) /\ stack' = Front(stack)
  /\ IF handlerFor[Last(stack)] # NoActivity
       THEN /\ delivered' = [from |-> cur, for |-> handlerFor[Last(stack)]]
            /\ handlerFor' = [handlerFor EXCEPT ![Last(stack)] = NoActivity]
            /\ StartCallback
       ELSE UNCHANGED <<delivered, handlerFor, phase, calls, chain>>
  /\ UNCHANGED <<pendingActivity, kind, sleeping, bleActive>>

\* Mutant of DispatchPopLast: pendingAction is still Pop when Home is launched.
DispatchPopLastPending ==
  /\ phase = "dispatch" /\ pendingAction = "Pop" /\ stack = <<>>
  /\ cur' = NoActivity /\ phase' = "homeless"
  /\ UNCHANGED <<calls, chain, stack, pendingAction, pendingActivity, kind,
                 handlerFor, delivered, sleeping, bleActive>>

\* Pop of the last activity: no current one until goHome().
DispatchPopLast ==
  /\ phase = "dispatch" /\ pendingAction = "Pop" /\ stack = <<>>
  /\ pendingAction' = "None" /\ cur' = NoActivity /\ phase' = "homeless"
  /\ UNCHANGED <<calls, chain, stack, pendingActivity, kind, handlerFor,
                 delivered, sleeping, bleActive>>

\* Mutant of LaunchAtOnce: prepareForActivityEnter() is missing on this path.
LaunchUnprepared ==
  /\ phase = "homeless"
  /\ \E a \in Activity, k \in {"home", "screen"} :
       /\ k = "home" \/ chain = 0
       /\ Construct(a, k) /\ cur' = a
       /\ handlerFor' = [handlerFor EXCEPT ![a] = NoActivity]
  /\ StartCallback
  /\ UNCHANGED <<stack, pendingAction, pendingActivity, delivered,
                 sleeping, bleActive>>

\* replaceActivity() without a current activity: goHome() after the last Pop,
\* or setup().  prepareForActivityEnter(), then onEnter() at once.
LaunchAtOnce ==
  /\ phase = "homeless"
  /\ \E a \in Activity, k \in {"home", "screen"} :
       /\ k = "home" \/ chain = 0
       /\ Construct(a, k) /\ cur' = a
       /\ handlerFor' = [handlerFor EXCEPT ![a] = NoActivity]
  /\ bleActive' = FALSE
  /\ StartCallback
  /\ UNCHANGED <<stack, pendingAction, pendingActivity, delivered, sleeping>>

\* The pending activity takes over, above the given stack, and is entered.
Enter(under) ==
  /\ cur' = pendingActivity /\ stack' = under
  /\ pendingAction' = "None" /\ pendingActivity' = NoActivity
  /\ bleActive' = FALSE
  /\ StartCallback
  /\ UNCHANGED <<kind, handlerFor, delivered, sleeping>>

DispatchPush ==
  /\ phase = "dispatch" /\ pendingAction = "Push" /\ pendingActivity # NoActivity
  /\ Enter(Append(stack, cur))

\* Current and stacked activities leave (onExit) and are destroyed.
DispatchReplace ==
  /\ phase = "dispatch" /\ pendingAction = "Replace" /\ pendingActivity # NoActivity
  /\ Enter(<<>>)

-----------------------------------------------------------------------------
(* The surroundings.                                                       *)

\* main.cpp's loop() brings BLE up or down between two ticks.
BleService ==
  /\ phase = "tick" /\ bleActive' \in BOOLEAN
  /\ UNCHANGED <<phase, calls, chain, navVars, delivered, sleeping>>

\* Waking up is a reset, and so is a silent restart or a crash.
Reset ==
  /\ phase \in {"asleep", "tick"}
  /\ phase' = "homeless" /\ calls' = 0 /\ chain' = 0
  /\ cur' = NoActivity /\ stack' = <<>>
  /\ pendingAction' = "None" /\ pendingActivity' = NoActivity
  /\ handlerFor' = [a \in Activity |-> NoActivity]
  /\ sleeping' = FALSE /\ bleActive' = FALSE
  /\ UNCHANGED <<kind, delivered>>

Dispatch == DispatchDone \/ DispatchPop \/ DispatchPopLast \/ DispatchPush \/ DispatchReplace
Tick == HomeGesture \/ LightPanelGesture \/ LightPanelOutOfMemory \/ ActivityLoop \/ GoToSleep

Next == NavigationCall \/ CallbackReturns \/ Tick \/ Dispatch \/ LaunchAtOnce
        \/ BleService \/ Reset

\* The main task keeps running: callbacks return and loop() goes on.
Spec == /\ Init /\ [][Next]_vars
        /\ WF_vars(CallbackReturns) /\ WF_vars(Dispatch) /\ WF_vars(LaunchAtOnce)

-----------------------------------------------------------------------------
(* Properties.                                                             *)

\* The activity that a stacked one is covered by.
Above(i) == IF i < Len(stack) THEN stack[i + 1] ELSE cur

\* Every stacked activity that has a result handler waits for exactly the
\* activity that covers it; what is covered by the light panel waits for none.
HandlersMatchStack ==
  \A i \in DOMAIN stack : handlerFor[stack[i]] \in {NoActivity, Above(i)}

\* A result reaches the handler that was registered for that very child,
\* whatever gestures, drops and replacements came in between.
ResultReachesItsHandler == delivered.from = delivered.for

\* An activity lives in one place only: current, pending or one stack slot.
OwnedOnce ==
  /\ IsInjective(stack)
  /\ cur \notin ToSet(stack) /\ pendingActivity \notin ToSet(stack)
  /\ cur = pendingActivity => cur = NoActivity

\* onEnter() never runs with the BLE heap resident, on either launch path.
\* (A result handler runs without prepareForActivityEnter().)
EntersWithoutBle == 
  [][cur' \notin ToSet(stack) \cup {cur, NoActivity} => ~bleActive']_vars

\* The manager's loop() works off every chain of pending actions.
LoopTerminates == phase \in {"dispatch", "callback"} ~> phase \in {"tick", "asleep"}
=============================================================================
