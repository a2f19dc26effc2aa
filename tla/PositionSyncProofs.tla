------------------------- MODULE PositionSyncProofs -------------------------
(***************************************************************************)
(* Proofs about PositionSync: what empties the queue, and what a smart     *)
(* sync does to the position of the reader and of the server.              *)
(***************************************************************************)
EXTENDS PositionSync, TLAPS

\* While the store works, memory and card agree; an entry is cleared only after
\* the server took it, and nothing touches it in between.
QueueInv ==
  /\ faults = 0 => disk = store
  /\ clearing => /\ reader = "none" /\ sync \in {Asleep, "fetch"}
                 /\ store.pending.serial \in delivered
  /\ sync # Asleep => reader = "none"
  /\ turned => queued < MaxSessions

\* A remote position was found where the user, or the device, may apply one.
FoundInv == sync \in {"ask", "apply"} => fetched > 0

\* What the sync activity knows when it decides is still so when it acts.
SmartInv ==
  smart => /\ sync \notin {"ask", "none"}
           /\ sync = "apply" => fetched > local
           /\ alone => /\ sync = "apply" => fetched = Furthest(server)
                       /\ sync = "upload" => local > Furthest(server)
                       /\ sync = "done" => local = Furthest(server)

IInv == TypeOK /\ QueueInv /\ FoundInv /\ SmartInv

-----------------------------------------------------------------------------

\* The parts of the store keep their types.
LEMMA StoreTypes ==
  ASSUME store \in Stores
  PROVE  /\ Cleared \in Stores /\ Cleared.pending.serial = 0
         /\ [store EXCEPT !.account = ~@] \in Stores
         /\ [store EXCEPT !.account = ~@].pending = store.pending
         /\ Lost \in Stores
  <1> USE BoundsAssumption
  <1>1. Empty \in Slots
    BY DEF Empty, Slots, Docs, ThisBook
  <1>2. store.account \in BOOLEAN /\ store.pending \in Slots
    BY DEF Stores
  <1>3. Cleared \in Stores /\ Cleared.pending = Empty
    BY <1>1, <1>2 DEF Cleared, Stores
  <1>4. Lost \in Stores
    BY <1>1 DEF Lost, Stores
  <1>5. [store EXCEPT !.account = ~@] \in Stores /\ [store EXCEPT !.account = ~@].pending = store.pending
    BY <1>2 DEF Stores
  <1> QED
    BY <1>3, <1>4, <1>5 DEF Empty

\* A save keeps the types, and while none has failed the card has what memory has.
LEMMA SaveTypes ==
  ASSUME TypeOK, store' \in Stores, SaveStore
  PROVE  /\ disk' \in Stores /\ faults' \in 0..MaxFaults
         /\ faults' = 0 => disk' = store' /\ faults = 0
  BY BoundsAssumption, StoreTypes DEF SaveStore, TypeOK

\* The invariant holds in every initial state.
LEMMA InitInv == Init => IInv
  <1> SUFFICES ASSUME Init PROVE IInv
    OBVIOUS
  <1> USE BoundsAssumption DEF Init
  <1>1. store \in Stores
    BY DEF Stores, Slots, Empty, Docs, ThisBook
  <1>2. server \in [Docs -> 0..MaxPos] /\ local \in Pos
    BY DEF Pos
  <1>3. TypeOK
    <2>1. disk \in Stores /\ sync = "off" /\ delivered \subseteq 1..MaxSessions
      BY <1>1 DEF Asleep
    <2>2. faults \in 0..MaxFaults /\ queued \in 0..MaxSessions /\ fetched \in 0..MaxPos /\ asked \in 0..MaxPos
      OBVIOUS
    <2> QED
      BY <1>1, <1>2, <2>1, <2>2 DEF TypeOK
  <1>4. QueueInv /\ SmartInv /\ FoundInv
    BY DEF QueueInv, SmartInv, FoundInv, Asleep
  <1> QED
    BY <1>3, <1>4 DEF IInv

\* ChangeAccount and Reboot preserve the invariant.
LEMMA RestartInv == IInv /\ (ChangeAccount \/ Reboot) => IInv'
  <1> SUFFICES ASSUME IInv, ChangeAccount \/ Reboot PROVE IInv'
    OBVIOUS
  <1> USE BoundsAssumption DEF IInv
  <1>1. CASE ChangeAccount
    <2>1. /\ UNCHANGED <<smart, server, local, reader, turned, queued, delivered, clearing,
                      sync, fetched, asked, alone>>
          /\ ~clearing /\ reader = "none"
      BY <1>1 DEF ChangeAccount, bookVars, queueVars, syncVars
    <2>2. store' \in Stores
      BY <1>1, StoreTypes DEF ChangeAccount, TypeOK
    <2>3. disk' \in Stores /\ faults' \in 0..MaxFaults /\ (faults' = 0 => disk' = store')
      BY <1>1, <2>2, SaveTypes DEF ChangeAccount
    <2>4. TypeOK'
      BY <2>1, <2>2, <2>3 DEF TypeOK
    <2>5. QueueInv'
      BY <2>1, <2>3 DEF QueueInv
    <2>6. SmartInv' /\ FoundInv'
      BY <2>1 DEF SmartInv, FoundInv, Furthest
    <2> QED
      BY <2>4, <2>5, <2>6
  <1>2. CASE Reboot
    <2>1. /\ UNCHANGED <<smart, server, local, disk, faults, queued, delivered>>
          /\ store' = disk /\ clearing' = FALSE /\ turned' = FALSE /\ reader' = "none"
          /\ sync' = Asleep /\ fetched' = 0 /\ asked' = 0 /\ alone' = FALSE
      BY <1>2 DEF Reboot, Restarted, NoSync
    <2>2. TypeOK'
      <3>1. fetched' \in 0..MaxPos /\ asked' \in 0..MaxPos /\ sync' = "off"
        BY <2>1 DEF Asleep
      <3> QED
        BY <2>1, <3>1 DEF TypeOK
    <2>3. QueueInv'
      BY <2>1 DEF QueueInv
    <2>4. SmartInv' /\ FoundInv'
      BY <2>1 DEF SmartInv, FoundInv, Asleep
    <2> QED
      BY <2>2, <2>3, <2>4
  <1> QED
    BY <1>1, <1>2

\* Open, Turn and Close preserve the invariant.
LEMMA ReadingInv == IInv /\ Reading => IInv'
  <1> SUFFICES ASSUME IInv, Reading PROVE IInv'
    OBVIOUS
  <1> USE BoundsAssumption DEF IInv
  <1>1. CASE Open
    <2>1. /\ UNCHANGED <<smart, server, local, store, disk, faults, queued, delivered, clearing,
                      sync, fetched, asked, alone>>
          /\ sync = Asleep /\ ~clearing /\ turned' = FALSE /\ reader' \in {"this", "another"}
      BY <1>1 DEF Open, storeVars, queueVars, syncVars
    <2>2. TypeOK'
      BY <2>1 DEF TypeOK
    <2>3. QueueInv'
      BY <2>1 DEF QueueInv
    <2>4. SmartInv' /\ FoundInv'
      BY <2>1 DEF SmartInv, FoundInv, Furthest
    <2> QED
      BY <2>2, <2>3, <2>4
  <1>2. CASE Turn
    <2>1. /\ UNCHANGED <<smart, server, reader, store, disk, faults, queued, delivered, clearing,
                      sync, fetched, asked, alone>>
          /\ reader # "none" /\ turned' = TRUE /\ queued < MaxSessions
      BY <1>2 DEF Turn, storeVars, queueVars, syncVars
    <2>2. local' \in Pos
      BY <1>2 DEF Turn, TypeOK
    <2>3. TypeOK'
      BY <2>1, <2>2 DEF TypeOK
    <2>4. QueueInv'
      BY <2>1 DEF QueueInv
    <2>5. SmartInv' /\ FoundInv'
      BY <2>1 DEF SmartInv, FoundInv, QueueInv, Asleep
    <2> QED
      BY <2>3, <2>4, <2>5
  <1>3. CASE Close
    <2>1. /\ UNCHANGED <<smart, server, local, delivered, clearing, sync, fetched, asked, alone>>
          /\ reader # "none" /\ reader' = "none" /\ turned' = FALSE
      BY <1>3 DEF Close, syncVars
    <2>2. ~clearing /\ sync = Asleep
      BY <2>1 DEF QueueInv
    <2>3. /\ store' \in Stores /\ disk' \in Stores /\ faults' \in 0..MaxFaults
          /\ queued' \in 0..MaxSessions /\ (faults' = 0 => disk' = store')
      <3>1. CASE turned /\ store.account
        <4>0. queued' = queued + 1 /\ store' = [store EXCEPT !.pending = Entry] /\ SaveStore
              /\ queued < MaxSessions
          BY <1>3, <3>1 DEF Close, QueueInv
        <4>1. Entry \in Slots
          BY <4>0 DEF Entry, Slots, Docs, TypeOK, Pos, ThisBook
        <4>2. store' \in Stores
          BY <4>0, <4>1 DEF Stores, TypeOK
        <4> QED
          BY <4>0, <4>2, SaveTypes DEF TypeOK
      <3>2. CASE ~(turned /\ store.account)
        BY <1>3, <3>2 DEF Close, storeVars, TypeOK, QueueInv
      <3> QED
        BY <3>1, <3>2
    <2>4. TypeOK'
      BY <2>1, <2>3 DEF TypeOK
    <2>5. QueueInv'
      BY <2>1, <2>2, <2>3 DEF QueueInv
    <2>6. SmartInv' /\ FoundInv'
      BY <2>1, <2>2 DEF SmartInv, FoundInv, Asleep
    <2> QED
      BY <2>4, <2>5, <2>6
  <1> QED
    BY <1>1, <1>2, <1>3 DEF Reading

\* Flush, Clear and the other devices preserve the invariant.
LEMMA FlushingInv == IInv /\ (Flushing \/ OtherDevice) => IInv'
  <1> SUFFICES ASSUME IInv, Flushing \/ OtherDevice PROVE IInv'
    OBVIOUS
  <1> USE BoundsAssumption DEF IInv
  <1>1. ASSUME NEW ok \in BOOLEAN, Flush(ok), store.account PROVE IInv'
    <2>1. /\ UNCHANGED <<smart, local, reader, turned, queued, store, disk, faults, fetched, asked>>
          /\ sync' \in {sync, "fetch"} /\ sync \in {Asleep, "connect"}
          /\ sync = "connect" => sync' = "fetch"
      BY <1>1 DEF Flush, bookVars, storeVars, Asleep
    <2>2. /\ server' = IF ok THEN [server EXCEPT ![store.pending.doc] = store.pending.pos] ELSE server
          /\ delivered' = IF ok THEN delivered \cup {store.pending.serial} ELSE delivered
          /\ clearing' = ok
      BY <1>1 DEF Flush, Accepted
    <2>3. alone' \in BOOLEAN
      <3>1. alone' = (alone /\ (ok \/ sync = Asleep))
        BY <1>1 DEF Flush
      <3>2. alone \in BOOLEAN
        BY DEF TypeOK
      <3> QED
        BY <3>1, <3>2, Zenon
    <2>4. reader = "none"
      BY <2>1, <1>1 DEF QueueInv, Flush, Asleep
    <2>5. store.pending \in Slots /\ Pending
      BY <1>1 DEF TypeOK, Stores, Flush
    <2>6. server' \in [Docs -> 0..MaxPos] /\ delivered' \subseteq 1..MaxSessions
      <3>1. /\ store.pending.doc \in Docs /\ store.pending.pos \in 0..MaxPos
            /\ store.pending.serial \in 1..MaxSessions
        BY <2>5 DEF Slots, Pending
      <3>2. CASE ok
        BY <2>2, <3>1, <3>2 DEF TypeOK
      <3>3. CASE ~ok
        BY <2>2, <3>3 DEF TypeOK
      <3> QED
        BY <3>2, <3>3
    <2>7. TypeOK'
      BY <2>1, <2>2, <2>3, <2>6 DEF TypeOK
    <2>8. QueueInv'
      BY <2>1, <2>2, <2>4 DEF QueueInv, Asleep
    <2>9. SmartInv' /\ FoundInv'
      BY <2>1 DEF SmartInv, FoundInv, Asleep
    <2> QED
      BY <2>7, <2>8, <2>9
  <1>2. ASSUME NEW ok \in BOOLEAN, Flush(ok), ~store.account PROVE IInv'
    <2>1. /\ UNCHANGED <<smart, local, server, reader, turned, queued, delivered, clearing, fetched, asked, alone>>
          /\ ~clearing /\ store' = Cleared /\ SaveStore
          /\ sync' \in {sync, "fetch"} /\ sync \in {Asleep, "connect"}
      BY <1>2 DEF Flush, bookVars, DropWithoutAccount
    <2>2. sync # sync' => sync = "connect" /\ sync' = "fetch"
      BY <1>2 DEF Flush
    <2>3. store' \in Stores
      BY <2>1, StoreTypes DEF TypeOK
    <2>4. disk' \in Stores /\ faults' \in 0..MaxFaults /\ (faults' = 0 => disk' = store')
      BY <2>1, <2>3, SaveTypes
    <2>5. TypeOK'
      BY <2>1, <2>3, <2>4 DEF TypeOK
    <2>6. QueueInv'
      BY <2>1, <2>2, <2>4 DEF QueueInv, Asleep
    <2>7. SmartInv' /\ FoundInv'
      BY <2>1 DEF SmartInv, FoundInv, Asleep
    <2> QED
      BY <2>5, <2>6, <2>7
  <1>3. CASE Clear
    <2>1. /\ UNCHANGED <<smart, local, server, reader, turned, queued, delivered, sync, fetched, asked, alone>>
          /\ clearing' = FALSE /\ store' = Cleared /\ SaveStore
      BY <1>3 DEF Clear, bookVars, syncVars
    <2>2. store' \in Stores
      BY <2>1, StoreTypes DEF TypeOK
    <2>3. disk' \in Stores /\ faults' \in 0..MaxFaults /\ (faults' = 0 => disk' = store')
      BY <2>1, <2>2, SaveTypes
    <2>4. TypeOK'
      BY <2>1, <2>2, <2>3 DEF TypeOK
    <2>5. QueueInv'
      BY <2>1, <2>3 DEF QueueInv
    <2>6. SmartInv' /\ FoundInv'
      BY <2>1 DEF SmartInv, FoundInv, Furthest
    <2> QED
      BY <2>4, <2>5, <2>6
  <1>4. CASE OtherDevice
    <2>1. /\ UNCHANGED <<smart, local, reader, turned, store, disk, faults, queued, delivered, clearing,
                      sync, fetched, asked>> /\ alone' = FALSE
      BY <1>4 DEF OtherDevice, storeVars, bookVars, queueVars
    <2>2. server' \in [Docs -> 0..MaxPos]
      BY <1>4 DEF OtherDevice, TypeOK, Docs, ThisBook, Pos
    <2>3. TypeOK'
      BY <2>1, <2>2 DEF TypeOK
    <2>4. QueueInv' /\ SmartInv' /\ FoundInv'
      BY <2>1 DEF QueueInv, SmartInv, FoundInv
    <2> QED
      BY <2>3, <2>4
  <1> QED
    BY <1>1, <1>2, <1>3, <1>4 DEF Flushing

\* The steps of the sync activity that decide nothing preserve the invariant.
LEMMA GoingInv == IInv /\ (Launch \/ NothingQueued \/ Answer \/ Return) => IInv'
  <1> SUFFICES ASSUME IInv, Launch \/ NothingQueued \/ Answer \/ Return PROVE IInv'
    OBVIOUS
  <1> USE BoundsAssumption DEF IInv
  <1>1. CASE Launch
    <2>1. /\ UNCHANGED <<smart, local, server, store, disk, faults, queued, delivered, clearing>>
          /\ reader = "this" /\ reader' = "none" /\ turned' = FALSE /\ sync' = "connect"
          /\ alone' = TRUE /\ fetched' = 0 /\ asked' = Furthest(server)
      BY <1>1 DEF Launch, storeVars, queueVars
    <2>2. Furthest(server) \in 0..MaxPos
      BY DEF Furthest, Further, TypeOK, Docs, ThisBook
    <2>3. TypeOK'
      <3>1. asked' \in 0..MaxPos /\ fetched' \in 0..MaxPos
        BY <2>1, <2>2
      <3> QED
        BY <2>1, <3>1 DEF TypeOK
    <2>4. QueueInv' /\ SmartInv' /\ FoundInv'
      BY <2>1 DEF QueueInv, SmartInv, FoundInv
    <2> QED
      BY <2>3, <2>4
  <1>2. CASE NothingQueued \/ Answer
    <2>1. /\ UNCHANGED <<smart, local, server, reader, turned, store, disk, faults, queued, delivered,
                      clearing, fetched, asked, alone>>
      BY <1>2 DEF NothingQueued, Answer, storeVars, bookVars, queueVars
    <2>2. \/ sync = "connect" /\ sync' = "fetch"
          \/ sync = "ask" /\ sync' \in {"apply", "upload"}
          \/ sync = "none" /\ sync' = "upload"
      BY <1>2 DEF NothingQueued, Answer
    <2>3. TypeOK'
      BY <2>1, <2>2 DEF TypeOK
    <2>4. QueueInv'
      BY <2>1, <2>2 DEF QueueInv, Asleep
    <2>5. SmartInv' /\ FoundInv'
      BY <2>1, <2>2 DEF SmartInv, FoundInv, Furthest
    <2> QED
      BY <2>3, <2>4, <2>5
  <1>3. CASE Return
    <2>1. /\ UNCHANGED <<smart, local, server, queued, delivered>>
          /\ reader' = "this" /\ sync' = Asleep /\ fetched' = 0 /\ asked' = 0 /\ alone' = FALSE
          /\ sync \notin {Asleep, "fetch"}
      BY <1>3 DEF Return, Restarted, NoSync, storeVars, queueVars, Asleep
    <2>2. /\ store' \in Stores /\ disk' \in Stores /\ faults' \in 0..MaxFaults
          /\ faults' = 0 => disk' = store'
      BY <1>3 DEF Return, Restarted, storeVars, QueueInv, TypeOK
    <2>3. clearing' = FALSE
      BY <1>3, <2>1 DEF Return, Restarted, queueVars, QueueInv, TypeOK
    <2>4. turned' = FALSE \/ turned' = turned
      BY <1>3 DEF Return, Restarted
    <2>5. TypeOK'
      <3>1. fetched' \in 0..MaxPos /\ asked' \in 0..MaxPos /\ sync' = "off"
        BY <2>1 DEF Asleep
      <3> QED
        BY <2>1, <2>2, <2>3, <2>4, <3>1 DEF TypeOK
    <2>6. QueueInv'
      BY <2>1, <2>2, <2>3, <2>4 DEF QueueInv
    <2>7. SmartInv' /\ FoundInv'
      BY <2>1 DEF SmartInv, FoundInv, Asleep
    <2> QED
      BY <2>5, <2>6, <2>7
  <1> QED
    BY <1>1, <1>2, <1>3

\* The comparison and what follows it preserve the invariant.
LEMMA DecidingInv ==
  ASSUME IInv, NEW p \in BOOLEAN, NEW a \in BOOLEAN, Fetch(p, a) \/ Apply(p) \/ Upload(p)
  PROVE  IInv'
  <1> USE BoundsAssumption DEF IInv
  <1>1. CASE Fetch(p, a)
    <2>1. /\ UNCHANGED <<smart, local, server, reader, turned, store, disk, faults, queued, delivered,
                      clearing, asked>> /\ ~clearing /\ sync = "fetch"
      BY <1>1 DEF Fetch, storeVars, bookVars, queueVars
    <2>2. fetched' = Remote(p, a) /\ sync' \in {AfterFetch(p, fetched'), "failed"}
          /\ alone' = (alone /\ p /\ (a \/ ~smart))
      BY <1>1 DEF Fetch
    <2>3. fetched' \in 0..MaxPos /\ server["primary"] \in 0..MaxPos /\ server["alternate"] \in 0..MaxPos
      BY <2>2 DEF Remote, Further, TypeOK, Docs, ThisBook
    <2>4. alone' \in BOOLEAN
      BY <2>2, Zenon DEF TypeOK
    <2>5. sync' \in {"failed", "upload", "none", "done", "apply", "ask"}
      BY <2>2 DEF AfterFetch, SmartStep
    <2>6. TypeOK'
      BY <2>1, <2>3, <2>4, <2>5 DEF TypeOK
    <2>7. QueueInv'
      BY <2>1, <2>5 DEF QueueInv, Asleep
    <2>8. local \in Pos /\ local > 0
      BY DEF TypeOK, Pos
    <2>9. smart /\ alone' => fetched' = Furthest(server)
      <3> SUFFICES ASSUME smart, alone' PROVE fetched' = Furthest(server)
        OBVIOUS
      <3>1. p /\ a
        BY <2>2
      <3> QED
        BY <2>2, <3>1 DEF Remote, Furthest
    <2>10. ASSUME smart PROVE /\ sync' = "apply" => fetched' > local
                              /\ sync' = "upload" => local > fetched'
                              /\ sync' = "done" => local = fetched'
      BY <2>2, <2>3, <2>8, <2>10 DEF AfterFetch, SmartStep, Pos
    <2>11. /\ sync' \in {"ask", "apply"} => fetched' > 0
           /\ smart => sync' \notin {"ask", "none"}
      BY <2>2, <2>3, <2>8 DEF AfterFetch, SmartStep, Pos
    <2>12. FoundInv'
      BY <2>11 DEF FoundInv
    <2>13. Furthest(server)' = Furthest(server) /\ smart' = smart /\ local' = local
      BY <2>1 DEF Furthest
    <2>14. SmartInv'
      BY <2>9, <2>10, <2>11, <2>13 DEF SmartInv
    <2> QED
      BY <2>6, <2>7, <2>12, <2>14
  <1>2. CASE Apply(p)
    <2>1. /\ UNCHANGED <<smart, server, reader, turned, store, disk, faults, queued, delivered,
                      clearing, fetched, asked, alone>>
          /\ sync = "apply" /\ local' = IF p THEN fetched ELSE local
          /\ sync' = IF p THEN "done" ELSE "failed"
      BY <1>2 DEF Apply, storeVars, queueVars
    <2>2. local' \in Pos
      BY <2>1 DEF FoundInv, TypeOK, Pos
    <2>3. TypeOK'
      BY <2>1, <2>2 DEF TypeOK
    <2>4. QueueInv'
      BY <2>1 DEF QueueInv, Asleep
    <2>5. SmartInv' /\ FoundInv'
      BY <2>1 DEF SmartInv, FoundInv, Furthest
    <2> QED
      BY <2>3, <2>4, <2>5
  <1>3. CASE Upload(p)
    <2>1. /\ UNCHANGED <<smart, local, reader, turned, store, disk, faults, queued, delivered,
                      clearing, fetched, asked, alone>>
          /\ sync = "upload"
          /\ server' = IF p THEN [server EXCEPT !["primary"] = local] ELSE server
          /\ sync' = IF p THEN "done" ELSE "failed"
      BY <1>3 DEF Upload, storeVars, bookVars, queueVars
    <2>2. server' \in [Docs -> 0..MaxPos]
      <3>1. local \in 0..MaxPos /\ server \in [Docs -> 0..MaxPos]
        BY DEF TypeOK, Pos
      <3>2. CASE p
        BY <2>1, <3>1, <3>2
      <3>3. CASE ~p
        BY <2>1, <3>1, <3>3
      <3> QED
        BY <3>2, <3>3
    <2>3. TypeOK'
      BY <2>1, <2>2 DEF TypeOK
    <2>4. QueueInv'
      BY <2>1 DEF QueueInv, Asleep
    <2>5. CASE p
      <3>1. server'["primary"] = local /\ server'["alternate"] = server["alternate"]
        BY <2>1, <2>5 DEF TypeOK, Docs, ThisBook
      <3>2. server["alternate"] \in Nat /\ server["primary"] \in Nat /\ local \in Nat
        BY DEF TypeOK, Docs, ThisBook, Pos
      <3>3. local > Furthest(server) => local = Furthest(server')
        BY <3>1, <3>2 DEF Furthest, Further
      <3> QED
        <4>1. SmartInv' /\ FoundInv'
          BY <2>1, <2>5, <3>3 DEF SmartInv, FoundInv, Furthest
        <4> QED
          BY <2>3, <2>4, <4>1
    <2>6. CASE ~p
      <3>1. server' = server /\ sync' = "failed"
        BY <2>1, <2>6
      <3>2. SmartInv' /\ FoundInv'
        BY <2>1, <3>1 DEF SmartInv, FoundInv
      <3> QED
        BY <2>3, <2>4, <3>2
    <2> QED
      BY <2>5, <2>6
  <1> QED
    BY <1>1, <1>2, <1>3

\* Every step preserves the invariant.
LEMMA StepInv == IInv /\ [Next]_vars => IInv'
  <1> SUFFICES ASSUME IInv, [Next]_vars PROVE IInv'
    OBVIOUS
  <1>1. CASE UNCHANGED vars
    BY <1>1 DEF vars, storeVars, bookVars, queueVars, syncVars, IInv, TypeOK, QueueInv, SmartInv, FoundInv, Furthest
  <1>2. CASE Syncing
    BY <1>2, GoingInv, DecidingInv DEF Syncing
  <1> QED
    BY <1>1, <1>2, RestartInv, ReadingInv, FlushingInv DEF Next

\* The invariant holds in every state, whatever the bounds.
THEOREM Invariance == Spec => []IInv
  BY InitInv, StepInv, PTL DEF Spec

\* Type correctness of the model of the position queue and the sync activity.
THEOREM TypeCorrect == Spec => []TypeOK
  BY Invariance, PTL DEF IInv

\* An undisturbed smart sync ends with device and server level
\* (KOReaderSyncActivity.cpp:192-218, 275-295).
THEOREM SyncLevels == Spec => []SmartSyncAgrees
  <1>1. IInv => SmartSyncAgrees
    BY DEF IInv, SmartInv, SmartSyncAgrees
  <1> QED
    BY Invariance, <1>1, PTL

\* The slot is emptied of what the server has, or without an account
\* (FouladDeviceTracking.cpp:631-664).
THEOREM QueueKeeps == Spec => QueueKeepsPosition
  <1> DEFINE A == faults' = 0 /\ Pending /\ ~Pending'
                    => store.pending.serial \in delivered \/ ~store.account
  <1>1. IInv /\ [Next]_vars => [A]_vars
    <2> SUFFICES ASSUME IInv, Next, faults' = 0, Pending, ~Pending', store.account
                 PROVE  store.pending.serial \in delivered
      BY DEF Pending, vars
    <2> USE BoundsAssumption DEF IInv
    <2>1. CASE ChangeAccount
      BY <2>1, StoreTypes DEF ChangeAccount, Pending, TypeOK
    <2>2. CASE Reboot \/ Return
      <3>1. disk' = disk /\ faults' = faults
        BY <2>2 DEF Reboot, Return, Restarted, storeVars
      <3>2. disk = store
        BY <3>1 DEF QueueInv
      <3> QED
        BY <2>2, <3>2 DEF Reboot, Return, Restarted, storeVars, Pending
    <2>3. CASE Close
      <3>1. CASE turned
        <4>1. store' = [store EXCEPT !.pending = Entry]
          BY <2>3, <3>1 DEF Close
        <4>2. store'.pending.serial = queued + 1
          BY <4>1 DEF Entry, TypeOK, Stores
        <4> QED
          BY <4>2 DEF Pending, TypeOK
      <3>2. CASE ~turned
        BY <2>3, <3>2 DEF Close, storeVars, Pending
      <3> QED
        BY <3>1, <3>2
    <2>4. CASE Clear
      BY <2>4 DEF Clear, QueueInv
    <2>5. CASE Open \/ Turn \/ OtherDevice \/ (\E ok \in BOOLEAN : Flush(ok))
      BY <2>5 DEF Open, Turn, OtherDevice, Flush, storeVars, Pending
    <2>6. CASE Launch \/ NothingQueued \/ Answer \/ (\E p, a \in BOOLEAN : Fetch(p, a))
                 \/ (\E ok \in BOOLEAN : Apply(ok) \/ Upload(ok))
      BY <2>6 DEF Launch, NothingQueued, Answer, Fetch, Apply, Upload, storeVars, Pending
    <2> QED
      BY <2>1, <2>2, <2>3, <2>4, <2>5, <2>6 DEF Next, Reading, Flushing, Syncing
  <1> QED
    BY Invariance, <1>1, PTL DEF Spec, QueueKeepsPosition

\* A smart sync never takes the reader back in the book.
THEOREM NeverBack == Spec => SmartNeverGoesBack
  <1> DEFINE A == smart /\ reader = "none" => local' >= local
  <1>1. IInv /\ [Next]_vars => [A]_vars
    <2> SUFFICES ASSUME IInv, Next, smart, reader = "none" PROVE local' >= local
      BY DEF vars
    <2> USE BoundsAssumption DEF IInv
    <2>0. local \in Nat
      BY DEF TypeOK, Pos
    <2>1. CASE \E ok \in BOOLEAN : Apply(ok)
      BY <2>0, <2>1 DEF Apply, SmartInv, TypeOK
    <2>2. CASE local' = local
      BY <2>0, <2>2
    <2> QED
      BY <2>1, <2>2 DEF Next, ChangeAccount, Reboot, Reading, Open, Turn, Close, Flushing, Flush, Clear,
         OtherDevice, Syncing, Launch, NothingQueued, Answer, Return, Fetch, Upload, bookVars
  <1> QED
    BY Invariance, <1>1, PTL DEF Spec, SmartNeverGoesBack
=============================================================================
