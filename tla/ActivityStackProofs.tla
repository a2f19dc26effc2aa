------------------------- MODULE ActivityStackProofs -------------------------
(* The invariants of ActivityStack for any number of activities, any number *)
(* of navigation calls in a callback and any chain of callbacks.            *)
EXTENDS ActivityStack, SequenceTheorems, TLAPS

-----------------------------------------------------------------------------
(* Lemmas about the stack.                                                 *)

\* Pushing an element that is not on a duplicate-free stack.
LEMMA PushKeepsInjective ==
  ASSUME NEW s \in Seq(Activity), NEW a \in Activity, IsInjective(s), a \notin ToSet(s)
  PROVE  /\ Append(s, a) \in Seq(Activity) /\ IsInjective(Append(s, a))
         /\ ToSet(Append(s, a)) = ToSet(s) \cup {a}
BY DEF IsInjective, ToSet

\* The sequence without its last element.
LEMMA FrontOfSeq ==
  ASSUME NEW s \in Seq(Activity), s # <<>>
  PROVE  /\ Front(s) \in Seq(Activity) /\ Len(Front(s)) = Len(s) - 1
         /\ DOMAIN Front(s) = 1..(Len(s) - 1)
         /\ \A i \in 1..(Len(s) - 1) : Front(s)[i] = s[i]
<1> DEFINE n == Len(s) - 1
<1>1. n \in Nat /\ n \in Int /\ 1 \in Int /\ \A i \in 1..n : s[i] \in Activity
  OBVIOUS
<1>2. /\ SubSeq(s, 1, n) \in Seq(Activity)
      /\ Len(SubSeq(s, 1, n)) = IF 1 <= n THEN n - 1 + 1 ELSE 0
      /\ \A i \in 1..(n - 1 + 1) : SubSeq(s, 1, n)[i] = s[1 + i - 1]
  BY <1>1, SubSeqProperties
<1>3. n - 1 + 1 = n /\ \A i \in 1..n : 1 + i - 1 = i
  BY <1>1
<1> HIDE DEF n
<1>4. Front(s) = SubSeq(s, 1, n)
  BY DEF Front, n
<1> QED BY <1>1, <1>2, <1>3, <1>4 DEF n

\* Taking the top element off a duplicate-free stack.
LEMMA PopKeepsInjective ==
  ASSUME NEW s \in Seq(Activity), s # <<>>, IsInjective(s)
  PROVE  /\ Last(s) \in Activity /\ Last(s) \in ToSet(s)
         /\ Front(s) \in Seq(Activity) /\ IsInjective(Front(s))
         /\ ToSet(Front(s)) \subseteq ToSet(s) /\ Last(s) \notin ToSet(Front(s))
<1>1. Len(s) \in Nat /\ Len(s) > 0 /\ \A i \in 1..Len(s) : s[i] \in Activity
  OBVIOUS
<1>2. Last(s) = s[Len(s)]
  BY DEF Last
<1> DEFINE f == Front(s)
<1>3. /\ f \in Seq(Activity) /\ DOMAIN f = 1..(Len(s) - 1) /\ DOMAIN s = 1..Len(s)
      /\ \A i \in 1..(Len(s) - 1) : f[i] = s[i]
  BY FrontOfSeq
<1> HIDE DEF f
<1>4. Last(s) \in Activity /\ Last(s) \in ToSet(s)
  BY <1>1, <1>2, <1>3 DEF ToSet
<1>5. IsInjective(f)
  BY <1>1, <1>3 DEF IsInjective
<1>6. ToSet(f) \subseteq ToSet(s)
  BY <1>1, <1>3 DEF ToSet
<1>7. \A i \in 1..(Len(s) - 1) : s[i] # s[Len(s)]
  BY <1>1, <1>3 DEF IsInjective
<1>8. Last(s) \notin ToSet(f)
  BY <1>2, <1>3, <1>7 DEF ToSet
<1> QED BY <1>3, <1>4, <1>5, <1>6, <1>8 DEF f

-----------------------------------------------------------------------------
(* The inductive invariant.                                                *)

\* There is a current activity except while goHome() or setup() launches one.
HasCurrent ==
  /\ phase = "homeless" <=> cur = NoActivity
  /\ phase = "homeless" => stack = <<>> /\ pendingAction = "None"

\* The current activity's handler is for the child it is about to push, or
\* the activity is about to go; a pending activity has no handler yet.
CurrentHandler ==
  /\ cur # NoActivity /\ handlerFor[cur] # NoActivity =>
       /\ phase # "tick"
       /\ pendingAction # "None"
       /\ pendingAction = "Push" => handlerFor[cur] = pendingActivity
  /\ pendingActivity # NoActivity => handlerFor[pendingActivity] = NoActivity

IInv == /\ TypeOK /\ HasCurrent /\ OwnedOnce /\ CurrentHandler
        /\ HandlersMatchStack /\ ResultReachesItsHandler

LEMMA InitIInv == Init => IInv
<1> SUFFICES ASSUME Init PROVE IInv
  OBVIOUS
<1> USE StackAssumption DEF Init
<1>1. TypeOK
  <2>1. stack \in Seq(Activity) /\ kind \in [Activity -> Kinds]
    BY DEF Kinds
  <2>2. calls \in 0..MaxCalls /\ chain \in 0..MaxChain
    OBVIOUS
  <2>3. handlerFor \in [Activity -> MaybeActivity]
    BY DEF MaybeActivity
  <2>4. delivered \in [from : MaybeActivity, for : MaybeActivity]
    BY DEF MaybeActivity
  <2> QED BY <2>1, <2>2, <2>3, <2>4 DEF TypeOK, Phases, Actions, MaybeActivity
<1>2. OwnedOnce
  BY DEF OwnedOnce, IsInjective, ToSet
<1> QED BY <1>1, <1>2 DEF IInv, HasCurrent, CurrentHandler, HandlersMatchStack,
        ResultReachesItsHandler

\* What a navigation call sets keeps its type.
NavigationType ==
  /\ pendingAction \in Actions /\ pendingActivity \in MaybeActivity
  /\ pendingActivity # NoActivity <=> pendingAction \in {"Push", "Replace"}
  /\ kind \in [Activity -> Kinds] /\ handlerFor \in [Activity -> MaybeActivity]

\* A call that leaves a new, handler-free object a pending.
LEMMA PendingKeeps ==
  ASSUME IInv, NEW a \in Activity \ Live, cur' = cur, stack' = stack,
         delivered' = delivered, pendingActivity' = a, pendingAction' \in {"Push", "Replace"},
         kind' \in [Activity -> Kinds],
         phase # "homeless", phase' # "homeless",
         \/ /\ handlerFor' = [handlerFor EXCEPT ![a] = NoActivity]
            /\ pendingAction' = "Push" => phase = "tick"
            /\ phase' = "tick" => phase = "tick"
         \/ /\ handlerFor' = [handlerFor EXCEPT ![cur] = a, ![a] = NoActivity]
            /\ phase' # "tick"
  PROVE  /\ NavigationType' /\ HasCurrent' /\ OwnedOnce' /\ CurrentHandler'
         /\ HandlersMatchStack' /\ ResultReachesItsHandler'
<1> USE StackAssumption DEF IInv
<1>1. /\ a # cur /\ a \notin ToSet(stack) /\ a # NoActivity /\ cur \in Activity
      /\ stack \in Seq(Activity) /\ cur \notin ToSet(stack)
  BY DEF Live, TypeOK, HasCurrent, MaybeActivity, OwnedOnce
<1>2. NavigationType'
  BY <1>1 DEF NavigationType, Actions, MaybeActivity, TypeOK
<1>3. HasCurrent' /\ OwnedOnce' /\ ResultReachesItsHandler'
  BY <1>1 DEF HasCurrent, OwnedOnce, ResultReachesItsHandler
<1>4. /\ handlerFor'[a] = NoActivity
      /\ \A b \in Activity \ {a, cur} : handlerFor'[b] = handlerFor[b]
      /\ \/ handlerFor'[cur] = handlerFor[cur] /\ (pendingAction' = "Push" => phase = "tick")
            /\ (phase' = "tick" => phase = "tick")
         \/ handlerFor'[cur] = a /\ phase' # "tick"
  BY <1>1 DEF TypeOK
<1>5. CurrentHandler'
  BY <1>1, <1>4 DEF CurrentHandler
<1>6. \A i \in DOMAIN stack : stack[i] \in Activity \ {a, cur}
  BY <1>1 DEF ToSet
<1>7. HandlersMatchStack'
  BY <1>4, <1>6 DEF HandlersMatchStack, Above
<1> QED BY <1>2, <1>3, <1>5, <1>7

\* Every navigation call.
LEMMA CallKeeps ==
  ASSUME IInv, cur' = cur, stack' = stack, delivered' = delivered,
         phase # "homeless", phase' # "homeless",
         \/ StartActivityForResult /\ phase' # "tick"
         \/ Finish /\ (phase' = "tick" => phase = "tick")
         \/ (\E k \in Kinds : GoTo(k)) /\ (phase' = "tick" => phase = "tick")
         \/ OpenPanel /\ phase = "tick"
  PROVE  /\ NavigationType' /\ HasCurrent' /\ OwnedOnce' /\ CurrentHandler'
         /\ HandlersMatchStack' /\ ResultReachesItsHandler'
<1> USE StackAssumption
<1>1. CASE StartActivityForResult /\ phase' # "tick"
  <2>1. PICK a \in Activity :
          /\ Construct(a, "screen") /\ PushActivity(a)
          /\ handlerFor' = [handlerFor EXCEPT ![cur] = a, ![a] = NoActivity]
    BY <1>1 DEF StartActivityForResult
  <2>2. kind' \in [Activity -> Kinds]
    BY <2>1 DEF Construct, PushActivity, IInv, TypeOK, Kinds
  <2> QED BY <1>1, <2>1, <2>2, PendingKeeps DEF Construct, PushActivity
<1>2. CASE Finish /\ (phase' = "tick" => phase = "tick")
  <2>1. /\ pendingActivity' = NoActivity /\ pendingAction' = "Pop" /\ kind' = kind
        /\ handlerFor' = handlerFor
    BY <1>2 DEF Finish, PopActivity, IInv, TypeOK
  <2>2. NavigationType'
    BY <2>1 DEF NavigationType, Actions, MaybeActivity, IInv, TypeOK
  <2>3. HasCurrent' /\ CurrentHandler'
    BY <1>2, <2>1 DEF IInv, HasCurrent, CurrentHandler
  <2>4. OwnedOnce'
    BY <2>1 DEF IInv, OwnedOnce, TypeOK, ToSet
  <2> QED BY <2>1, <2>2, <2>3, <2>4
          DEF IInv, HandlersMatchStack, Above, ResultReachesItsHandler
<1>3. CASE (\E k \in Kinds : GoTo(k)) /\ (phase' = "tick" => phase = "tick")
  <2>1. PICK k \in Kinds, a \in Activity :
          /\ Construct(a, k) /\ ReplaceActivity(a)
          /\ handlerFor' = [handlerFor EXCEPT ![a] = NoActivity]
    BY <1>3 DEF GoTo
  <2>2. kind' \in [Activity -> Kinds]
    BY <2>1 DEF Construct, ReplaceActivity, IInv, TypeOK
  <2> QED BY <1>3, <2>1, <2>2, PendingKeeps DEF Construct, ReplaceActivity
<1>4. CASE OpenPanel /\ phase = "tick"
  <2>1. PICK a \in Activity :
          /\ Construct(a, "panel") /\ PushActivity(a)
          /\ handlerFor' = [handlerFor EXCEPT ![a] = NoActivity]
    BY <1>4 DEF OpenPanel
  <2>2. kind' \in [Activity -> Kinds]
    BY <2>1 DEF Construct, PushActivity, IInv, TypeOK, Kinds
  <2> QED BY <1>4, <2>1, <2>2, PendingKeeps DEF Construct, PushActivity
<1> QED BY <1>1, <1>2, <1>3, <1>4

LEMMA NextIInv == IInv /\ [Next]_vars => IInv'
<1> SUFFICES ASSUME IInv, [Next]_vars PROVE IInv'
  OBVIOUS
<1> USE StackAssumption
<1>t. TypeOK /\ HasCurrent /\ OwnedOnce /\ CurrentHandler /\ HandlersMatchStack
      /\ ResultReachesItsHandler
  BY DEF IInv
<1>1. CASE NavigationCall
  <2>1. /\ NavigationType' /\ HasCurrent' /\ OwnedOnce' /\ CurrentHandler'
        /\ HandlersMatchStack' /\ ResultReachesItsHandler'
    <3>1. /\ phase = "callback" /\ phase' = "callback" /\ cur' = cur /\ stack' = stack
          /\ delivered' = delivered
          /\ StartActivityForResult \/ Finish \/ \E k \in Kinds : GoTo(k)
      BY <1>1 DEF NavigationCall, Kinds
    <3> QED BY <3>1, CallKeeps
  <2>2. TypeOK'
    BY <1>1, <1>t, <2>1 DEF NavigationCall, TypeOK, NavigationType
  <2> QED BY <2>1, <2>2 DEF IInv
<1>2. CASE CallbackReturns
  BY <1>2, <1>t DEF CallbackReturns, navVars, IInv, TypeOK, Phases, HasCurrent, OwnedOnce,
     CurrentHandler, HandlersMatchStack, Above, ResultReachesItsHandler
<1>3. CASE HomeGesture
  <2>1. /\ phase = "tick" /\ phase' \in {"tick", "asleep"} /\ chain' = 0
        /\ cur' = cur /\ stack' = stack /\ delivered' = delivered /\ calls' = calls
        /\ sleeping' = sleeping /\ bleActive' = bleActive
        /\ Finish \/ \E k \in Kinds : GoTo(k)
    BY <1>3 DEF HomeGesture, LoopReturns, Kinds
  <2>2. /\ NavigationType' /\ HasCurrent' /\ OwnedOnce' /\ CurrentHandler'
        /\ HandlersMatchStack' /\ ResultReachesItsHandler'
    BY <2>1, CallKeeps
  <2>3. TypeOK'
    BY <1>t, <2>1, <2>2 DEF TypeOK, NavigationType, Phases
  <2> QED BY <2>2, <2>3 DEF IInv
<1>4. CASE LightPanelGesture
  <2>1. /\ phase = "tick" /\ phase' \in {"tick", "asleep"} /\ chain' = 0
        /\ cur' = cur /\ stack' = stack /\ delivered' = delivered /\ calls' = calls
        /\ sleeping' = sleeping /\ bleActive' = bleActive /\ OpenPanel
    BY <1>4 DEF LightPanelGesture, LoopReturns
  <2>2. /\ NavigationType' /\ HasCurrent' /\ OwnedOnce' /\ CurrentHandler'
        /\ HandlersMatchStack' /\ ResultReachesItsHandler'
    BY <2>1, CallKeeps
  <2>3. TypeOK'
    BY <1>t, <2>1, <2>2 DEF TypeOK, NavigationType, Phases
  <2> QED BY <2>2, <2>3 DEF IInv
<1>5. CASE LightPanelOutOfMemory
  BY <1>5, <1>t DEF LightPanelOutOfMemory, LoopReturns, navVars, IInv, TypeOK, Phases,
     HasCurrent, OwnedOnce, CurrentHandler, HandlersMatchStack, Above, ResultReachesItsHandler
<1>6. CASE ActivityLoop
  BY <1>6, <1>t DEF ActivityLoop, StartCallback, navVars, IInv, TypeOK, Phases,
     HasCurrent, OwnedOnce, CurrentHandler, HandlersMatchStack, Above, ResultReachesItsHandler
<1>7. CASE GoToSleep
  <2>1. /\ phase = "tick" /\ phase' = "tick" /\ chain' = chain
        /\ cur' = cur /\ stack' = stack /\ delivered' = delivered /\ calls' = calls
        /\ sleeping' = TRUE /\ bleActive' = bleActive /\ \E k \in Kinds : GoTo(k)
    BY <1>7 DEF GoToSleep, Kinds
  <2>2. /\ NavigationType' /\ HasCurrent' /\ OwnedOnce' /\ CurrentHandler'
        /\ HandlersMatchStack' /\ ResultReachesItsHandler'
    BY <2>1, CallKeeps
  <2>3. TypeOK'
    BY <1>t, <2>1, <2>2 DEF TypeOK, NavigationType, Phases
  <2> QED BY <2>2, <2>3 DEF IInv
<1>8. CASE DispatchDone
  BY <1>8, <1>t DEF DispatchDone, LoopReturns, navVars, IInv, TypeOK, Phases,
     HasCurrent, OwnedOnce, CurrentHandler, HandlersMatchStack, Above, ResultReachesItsHandler
<1>9. CASE DispatchPop
  <2> DEFINE top == Last(stack)
  <2>1. /\ stack \in Seq(Activity) /\ stack # <<>> /\ IsInjective(stack)
        /\ pendingActivity = NoActivity /\ cur \in Activity /\ cur \notin ToSet(stack)
    BY <1>9, <1>t DEF DispatchPop, TypeOK, OwnedOnce, HasCurrent, MaybeActivity
  <2>2. /\ top \in Activity /\ top \in ToSet(stack)
        /\ Front(stack) \in Seq(Activity) /\ IsInjective(Front(stack))
        /\ ToSet(Front(stack)) \subseteq ToSet(stack) /\ top \notin ToSet(Front(stack))
    BY <2>1, PopKeepsInjective
  <2>3. /\ cur' = top /\ stack' = Front(stack) /\ pendingAction' = "None"
        /\ pendingActivity' = NoActivity /\ kind' = kind
        /\ sleeping' = sleeping /\ bleActive' = bleActive
        /\ handlerFor' = [handlerFor EXCEPT ![top] = NoActivity]
    BY <1>9, <1>t, <2>1, <2>2 DEF DispatchPop, TypeOK
  <2>4. /\ phase' \in {"dispatch", "callback"} /\ calls' \in 0..MaxCalls
        /\ chain' \in 0..MaxChain
    BY <1>9, <1>t DEF DispatchPop, StartCallback, TypeOK
  <2>5. Len(stack) \in Nat /\ Len(stack) > 0 /\ top = stack[Len(stack)]
    BY <2>1 DEF Last
  <2>6. handlerFor[top] \in {NoActivity, cur}
    BY <1>t, <2>5 DEF HandlersMatchStack, Above
  <2>7. delivered' \in [from : MaybeActivity, for : MaybeActivity] /\ delivered'.from = delivered'.for
    BY <1>9, <1>t, <2>1, <2>6
       DEF DispatchPop, TypeOK, ResultReachesItsHandler, MaybeActivity
  <2>8. TypeOK'
    BY <1>t, <2>2, <2>3, <2>4, <2>7 DEF TypeOK, Phases, Actions, MaybeActivity
  <2>9. HasCurrent' /\ CurrentHandler' /\ OwnedOnce'
    BY <1>t, <2>2, <2>3, <2>4 DEF HasCurrent, CurrentHandler, OwnedOnce, TypeOK, ToSet
  <2>10. HandlersMatchStack'
    <3>1. Len(Front(stack)) = Len(stack) - 1 /\ \A i \in DOMAIN Front(stack) :
            i \in DOMAIN stack /\ Front(stack)[i] = stack[i] /\ stack[i] # top
      <4>1. /\ Len(Front(stack)) = Len(stack) - 1 /\ DOMAIN Front(stack) = 1..(Len(stack) - 1)
            /\ \A i \in 1..(Len(stack) - 1) : Front(stack)[i] = stack[i]
        BY <2>1, FrontOfSeq
      <4>2. DOMAIN stack = 1..Len(stack) /\ 1..(Len(stack) - 1) \subseteq 1..Len(stack)
        BY <2>1, <2>5
      <4>3. \A i \in DOMAIN Front(stack) : Front(stack)[i] # top
        BY <2>2 DEF ToSet
      <4> QED BY <4>1, <4>2, <4>3
    <3> SUFFICES ASSUME NEW i \in DOMAIN Front(stack)
                 PROVE  handlerFor'[stack[i]] \in {NoActivity, Above(i)'}
      BY <2>3, <3>1 DEF HandlersMatchStack
    <3>2. Above(i)' = Above(i)
      BY <2>2, <2>3, <2>5, <3>1 DEF Above
    <3>3. handlerFor'[stack[i]] = handlerFor[stack[i]]
      BY <1>t, <2>1, <2>3, <3>1 DEF TypeOK
    <3> QED BY <1>t, <3>1, <3>2, <3>3 DEF HandlersMatchStack
  <2> QED BY <2>7, <2>8, <2>9, <2>10 DEF IInv, ResultReachesItsHandler
<1>10. CASE DispatchPopLast
  BY <1>10, <1>t DEF DispatchPopLast, IInv, TypeOK, Phases, Actions, MaybeActivity,
     HasCurrent, OwnedOnce, CurrentHandler, HandlersMatchStack, Above, ResultReachesItsHandler,
     ToSet
<1>11. CASE LaunchAtOnce
  <2>1. PICK a \in Activity, k \in {"home", "screen"} :
          /\ Construct(a, k) /\ cur' = a
          /\ handlerFor' = [handlerFor EXCEPT ![a] = NoActivity]
    BY <1>11 DEF LaunchAtOnce
  <2>2. /\ stack = <<>> /\ stack' = stack /\ pendingAction = "None" /\ pendingAction' = "None"
        /\ pendingActivity' = NoActivity /\ delivered' = delivered
        /\ sleeping' = sleeping /\ bleActive' = FALSE /\ phase' = "callback"
        /\ calls' \in 0..MaxCalls /\ chain' \in 0..MaxChain
    BY <1>11, <1>t DEF LaunchAtOnce, HasCurrent, StartCallback, TypeOK
  <2>3. kind' \in [Activity -> Kinds] /\ handlerFor' \in [Activity -> MaybeActivity]
        /\ handlerFor'[a] = NoActivity
    BY <1>t, <2>1 DEF Construct, TypeOK, Kinds, MaybeActivity
  <2>4. TypeOK'
    BY <1>t, <2>1, <2>2, <2>3 DEF TypeOK, Phases, Actions, MaybeActivity
  <2>5. HasCurrent' /\ CurrentHandler' /\ OwnedOnce'
    BY <2>1, <2>2, <2>3, <1>t DEF HasCurrent, CurrentHandler, OwnedOnce, IsInjective, ToSet
  <2> QED BY <1>t, <2>2, <2>4, <2>5 DEF IInv, HandlersMatchStack, ResultReachesItsHandler
<1>12. CASE DispatchPush
  <2> DEFINE s == Append(stack, cur)
  <2>1. /\ cur' = pendingActivity /\ stack' = s /\ pendingAction = "Push"
        /\ pendingAction' = "None" /\ pendingActivity' = NoActivity /\ kind' = kind
        /\ handlerFor' = handlerFor /\ delivered' = delivered
        /\ sleeping' = sleeping /\ bleActive' = FALSE /\ phase' = "callback"
        /\ calls' \in 0..MaxCalls /\ chain' \in 0..MaxChain /\ phase = "dispatch"
    BY <1>12, <1>t DEF DispatchPush, Enter, StartCallback, TypeOK
  <2>2. /\ stack \in Seq(Activity) /\ IsInjective(stack) /\ cur \in Activity
        /\ cur \notin ToSet(stack) /\ pendingActivity \in Activity
        /\ pendingActivity # cur /\ pendingActivity \notin ToSet(stack)
    BY <1>12, <1>t, <2>1 DEF DispatchPush, TypeOK, OwnedOnce, HasCurrent, MaybeActivity
  <2>3. s \in Seq(Activity) /\ IsInjective(s) /\ ToSet(s) = ToSet(stack) \cup {cur}
    BY <2>2, PushKeepsInjective
  <2>4. TypeOK'
    BY <1>t, <2>1, <2>2, <2>3 DEF TypeOK, Phases, Actions, MaybeActivity
  <2>5. handlerFor[pendingActivity] = NoActivity /\ handlerFor[cur] \in {NoActivity, pendingActivity}
    BY <1>t, <2>1, <2>2 DEF CurrentHandler
  <2>6. HasCurrent' /\ CurrentHandler' /\ OwnedOnce'
    BY <2>1, <2>2, <2>3, <2>5 DEF HasCurrent, CurrentHandler, OwnedOnce, ToSet
  <2>7. HandlersMatchStack'
    <3>1. /\ Len(stack) \in Nat /\ Len(s) = Len(stack) + 1 /\ s[Len(stack) + 1] = cur
          /\ DOMAIN s = 1..(Len(stack) + 1) /\ DOMAIN stack = 1..Len(stack)
          /\ \A i \in 1..Len(stack) : s[i] = stack[i]
      BY <2>2
    <3> SUFFICES ASSUME NEW i \in DOMAIN s PROVE handlerFor[s[i]] \in {NoActivity, Above(i)'}
      BY <2>1 DEF HandlersMatchStack
    <3>2. Above(i)' = IF i < Len(s) THEN s[i + 1] ELSE pendingActivity
      BY <2>1 DEF Above
    <3>3. CASE i = Len(stack) + 1
      BY <2>5, <3>1, <3>2, <3>3
    <3>4. CASE i \in 1..Len(stack)
      <4>1. Above(i)' = Above(i)
        BY <3>1, <3>2, <3>4 DEF Above
      <4> QED BY <1>t, <3>1, <3>4, <4>1 DEF HandlersMatchStack
    <3> QED BY <3>1, <3>3, <3>4
  <2> QED BY <1>t, <2>1, <2>4, <2>6, <2>7 DEF IInv, ResultReachesItsHandler
<1>13. CASE DispatchReplace
  <2>1. /\ cur' = pendingActivity /\ stack' = <<>> /\ pendingActivity \in Activity
        /\ pendingAction' = "None" /\ pendingActivity' = NoActivity /\ kind' = kind
        /\ handlerFor' = handlerFor /\ delivered' = delivered
        /\ sleeping' = sleeping /\ bleActive' = FALSE /\ phase' = "callback"
        /\ calls' \in 0..MaxCalls /\ chain' \in 0..MaxChain
    BY <1>13, <1>t DEF DispatchReplace, Enter, StartCallback, TypeOK, MaybeActivity
  <2>e. stack' \in Seq(Activity) /\ 0 \in 0..MaxCalls /\ 0 \in 0..MaxChain
    BY <2>1
  <2>2. TypeOK'
    BY <1>t, <2>1, <2>e DEF TypeOK, Phases, Actions, MaybeActivity
  <2>3. HasCurrent' /\ CurrentHandler' /\ OwnedOnce'
    BY <1>t, <2>1 DEF HasCurrent, CurrentHandler, OwnedOnce, IsInjective, ToSet
  <2> QED BY <1>t, <2>1, <2>2, <2>3 DEF IInv, HandlersMatchStack, ResultReachesItsHandler
<1>14. CASE BleService
  BY <1>14, <1>t DEF BleService, navVars, IInv, TypeOK, HasCurrent, OwnedOnce,
     CurrentHandler, HandlersMatchStack, Above, ResultReachesItsHandler
<1>15. CASE Reset
  <2>1. /\ cur' = NoActivity /\ stack' = <<>> /\ pendingAction' = "None"
        /\ pendingActivity' = NoActivity /\ kind' = kind /\ delivered' = delivered
        /\ handlerFor' = [a \in Activity |-> NoActivity]
        /\ sleeping' = FALSE /\ bleActive' = FALSE /\ phase' = "homeless"
        /\ calls' = 0 /\ chain' = 0
    BY <1>15 DEF Reset
  <2>e. stack' \in Seq(Activity) /\ 0 \in 0..MaxCalls /\ 0 \in 0..MaxChain
    BY <2>1
  <2>2. TypeOK'
    BY <1>t, <2>1, <2>e DEF TypeOK, Phases, Actions, MaybeActivity
  <2>3. HasCurrent' /\ CurrentHandler' /\ OwnedOnce'
    BY <2>1 DEF HasCurrent, CurrentHandler, OwnedOnce, IsInjective, ToSet
  <2> QED BY <1>t, <2>1, <2>2, <2>3 DEF IInv, HandlersMatchStack, ResultReachesItsHandler
<1>16. CASE UNCHANGED vars
  BY <1>16, <1>t DEF vars, navVars, IInv, TypeOK, HasCurrent, OwnedOnce, CurrentHandler,
     HandlersMatchStack, Above, ResultReachesItsHandler
<1> QED BY <1>1, <1>2, <1>3, <1>4, <1>5, <1>6, <1>7, <1>8, <1>9, <1>10, <1>11, <1>12, <1>13,
           <1>14, <1>15, <1>16 DEF Next, Tick, Dispatch

-----------------------------------------------------------------------------
(* The theorems.                                                           *)

THEOREM Invariance == Spec => []IInv
BY InitIInv, NextIInv, PTL DEF Spec

\* The variables keep their types, and an activity is pending exactly while
\* a push or a replacement is.
THEOREM TypeCorrect == Spec => []TypeOK
<1>1. IInv => TypeOK
  BY DEF IInv
<1> QED BY <1>1, Invariance, PTL

\* Every stacked activity with a handler is covered by the child it waits for.
THEOREM HandlersFollowTheStack == Spec => []HandlersMatchStack
<1>1. IInv => HandlersMatchStack
  BY DEF IInv
<1> QED BY <1>1, Invariance, PTL

\* Results reach the handlers they are meant for.
THEOREM ResultsArriveWhereDue == Spec => []ResultReachesItsHandler
<1>1. IInv => ResultReachesItsHandler
  BY DEF IInv
<1> QED BY <1>1, Invariance, PTL

\* No activity object has two owners.
THEOREM NoSharedOwnership == Spec => []OwnedOnce
<1>1. IInv => OwnedOnce
  BY DEF IInv
<1> QED BY <1>1, Invariance, PTL

\* BLE is down whenever an activity that was not on the stack becomes the current
\* one: prepareForActivityEnter() comes before onEnter() on every launch path
\* (ActivityManager.cpp).  Only a Pop leaves it alone, and it uncovers a stacked one.
THEOREM LaunchesWithoutBle == Spec => EntersWithoutBle
<1>1. ASSUME IInv, Next, cur' \notin ToSet(stack) \cup {cur, NoActivity} PROVE ~bleActive'
  <2>1. DispatchPop \/ DispatchPush \/ DispatchReplace \/ LaunchAtOnce
    BY <1>1
    DEF Next, Tick, Dispatch, navVars, NavigationCall, CallbackReturns, HomeGesture,
        LightPanelGesture, LightPanelOutOfMemory, ActivityLoop, GoToSleep, DispatchDone,
        DispatchPopLast, BleService, Reset
  <2>2. ASSUME DispatchPop PROVE FALSE
    <3>1. cur' = Last(stack) /\ stack # <<>> /\ stack \in Seq(Activity) /\ IsInjective(stack)
      BY <1>1, <2>2 DEF DispatchPop, IInv, TypeOK, OwnedOnce
    <3>2. Last(stack) \in ToSet(stack)
      BY <3>1, PopKeepsInjective
    <3> QED
      BY <1>1, <3>1, <3>2
  <2> QED
    BY <2>1, <2>2 DEF DispatchPush, DispatchReplace, Enter, LaunchAtOnce
<1>2. IInv /\ [Next]_vars
        => [cur' \notin ToSet(stack) \cup {cur, NoActivity} => ~bleActive']_vars
  BY <1>1
<1> QED
  BY <1>2, Invariance, PTL DEF Spec, EntersWithoutBle
=============================================================================
