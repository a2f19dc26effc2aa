---------------------------- MODULE PositionSync ----------------------------
(***************************************************************************)
(* The reading position of a book and the KOReader server.  Leaving the    *)
(* reader queues the position in the one slot of koreader.json             *)
(* (EpubReaderActivity.cpp, KOReaderCredentialStore.cpp); every connection *)
(* uploads and clears it (flushPendingKOReaderSync()); the reader's Sync   *)
(* item compares the position with the server's (KOReaderSyncActivity.cpp).*)
(* Other devices write to the server at any time, requests and saves fail, *)
(* and the device restarts between any two steps.                          *)
(***************************************************************************)
EXTENDS Naturals

CONSTANTS
  MaxPos,       \* positions in the book
  MaxSessions,  \* bound on the positions queued
  MaxFaults     \* bound on the saves of koreader.json that fail

ASSUME BoundsAssumption ==
  MaxPos \in Nat \ {0} /\ MaxSessions \in Nat /\ MaxFaults \in Nat

VARIABLES
  smart,     \* sync behaviour SMART, otherwise ASK_EVERY_TIME
  local,     \* position of this book on the card
  server,    \* position the server has per document, 0 when it has none
  store,     \* KOREADER_STORE in memory
  disk,      \* koreader.json
  faults,    \* failed saves so far
  reader,    \* book open in the reader, "none" when it is closed
  turned,    \* pageTurnedThisSession
  queued,    \* positions queued so far
  delivered, \* those the server has accepted
  clearing,  \* uploaded, clearPendingSync() is next
  sync,      \* where KOReaderSyncActivity is
  fetched,   \* remote position it compares with
  asked,     \* furthest remote position when the user asked for the sync
  alone      \* since then no other device wrote and no request failed

storeVars == <<store, disk, faults>>
bookVars  == <<local, reader, turned>>
queueVars == <<queued, delivered, clearing>>
syncVars  == <<sync, fetched, asked, alone>>
vars == <<smart, server, storeVars, bookVars, queueVars, syncVars>>

\* One book has a document hash per match method; another book has its own.
ThisBook == {"primary", "alternate"}
Docs     == ThisBook \cup {"another"}
Pos      == 1..MaxPos
Empty    == [serial |-> 0, doc |-> "primary", pos |-> 0]
Slots    == [serial : 0..MaxSessions, doc : Docs, pos : 0..MaxPos]
Stores   == [account : BOOLEAN, pending : Slots]
Lost     == [account |-> FALSE, pending |-> Empty]
Asleep   == "off"

TypeOK ==
  /\ smart \in BOOLEAN /\ local \in Pos /\ server \in [Docs -> 0..MaxPos]
  /\ store \in Stores /\ disk \in Stores /\ faults \in 0..MaxFaults
  /\ reader \in {"none", "this", "another"} /\ turned \in BOOLEAN
  /\ queued \in 0..MaxSessions /\ delivered \subseteq 1..MaxSessions
  /\ clearing \in BOOLEAN
  /\ sync \in {Asleep, "connect", "fetch", "ask", "none", "apply", "upload", "done", "failed"}
  /\ fetched \in 0..MaxPos /\ asked \in 0..MaxPos /\ alone \in BOOLEAN

Further(p, q) == IF p > q THEN p ELSE q

\* The furthest record of this book, 0 when the server has none.
Furthest(f) == Further(f["primary"], f["alternate"])

Init ==
  /\ smart \in BOOLEAN /\ local = 1 /\ server = [d \in Docs |-> 0]
  /\ store = [account |-> TRUE, pending |-> Empty] /\ disk = store /\ faults = 0
  /\ reader = "none" /\ turned = FALSE
  /\ queued = 0 /\ delivered = {} /\ clearing = FALSE
  /\ sync = Asleep /\ fetched = 0 /\ asked = 0 /\ alone = FALSE

----------------------------------------------------------------------------
(* The store: every saveToFile() writes credentials and slot together.      *)

\* The file is replaced, stays as it was, or is left unreadable.
SaveStore ==
  \/ disk' = store' /\ UNCHANGED faults
  \/ /\ faults < MaxFaults /\ faults' = faults + 1
     /\ disk' \in {disk, Lost}

\* The user types or empties name and password, or the server pushes them.
ChangeAccount ==
  /\ sync = Asleep /\ reader = "none" /\ ~clearing
  /\ store' = [store EXCEPT !.account = ~@]
  /\ SaveStore
  /\ UNCHANGED <<smart, server, bookVars, queueVars, syncVars>>

\* The sync activity is gone.
NoSync == sync' = Asleep /\ fetched' = 0 /\ asked' = 0 /\ alone' = FALSE

\* Power cut, crash, silent restart or deep sleep: memory is read from the card.
Restarted ==
  /\ store' = disk /\ clearing' = FALSE /\ turned' = FALSE
  /\ UNCHANGED <<disk, faults, queued, delivered>>

Reboot ==
  /\ Restarted
  /\ reader' = "none" /\ NoSync
  /\ UNCHANGED <<smart, server, local>>

----------------------------------------------------------------------------
(* Reading.                                                                 *)

Open ==
  /\ sync = Asleep /\ reader = "none" /\ ~clearing
  /\ reader' \in {"this", "another"} /\ turned' = FALSE
  /\ UNCHANGED <<smart, server, local, storeVars, queueVars, syncVars>>

\* A page turn of this book saves the position; of the other book only the fact
\* that a page was turned matters.
Turn ==
  /\ reader # "none" /\ queued < MaxSessions
  /\ IF reader = "this" THEN local' \in Pos \ {local} ELSE UNCHANGED local
  /\ turned' = TRUE
  /\ UNCHANGED <<smart, server, reader, storeVars, queueVars, syncVars>>

\* What the reader's onExit() queues.
Entry ==
  IF reader = "this" THEN [serial |-> queued + 1, doc |-> "primary", pos |-> local]
                     ELSE [serial |-> queued + 1, doc |-> "another", pos |-> 1]

\* EpubReaderActivity::onExit(), also on the way to sleep.
Close ==
  /\ reader # "none"
  /\ IF turned /\ store.account
       THEN /\ queued' = queued + 1
            /\ store' = [store EXCEPT !.pending = Entry]
            /\ SaveStore
       ELSE UNCHANGED <<storeVars, queued>>
  /\ reader' = "none" /\ turned' = FALSE
  /\ UNCHANGED <<smart, server, local, delivered, clearing, syncVars>>

----------------------------------------------------------------------------
(* The queue: flushPendingKOReaderSync().                                   *)

Pending == store.pending.serial # 0

Cleared == [store EXCEPT !.pending = Empty]

\* Mutant of DropWithoutAccount: an entry without credentials is kept.
KeepWithoutAccount == UNCHANGED storeVars

\* The credentials are gone since the entry was queued.
DropWithoutAccount == store' = Cleared /\ SaveStore

\* Mutant of Accepted: a failed update counts as done.
AlwaysAccepted(ok) == TRUE

\* updateProgress() returned OK.
Accepted(ok) == ok

\* One flush: from a connection for any purpose, or from the sync activity, which
\* goes on with the comparison whatever became of it.
Flush(ok) ==
  /\ \/ sync = Asleep /\ reader = "none" /\ sync' = sync
     \/ sync = "connect" /\ sync' = "fetch"
  /\ Pending /\ ~clearing
  /\ IF store.account
       THEN /\ server' = IF ok THEN [server EXCEPT ![store.pending.doc] = store.pending.pos]
                               ELSE server
            /\ delivered' = IF ok THEN delivered \cup {store.pending.serial} ELSE delivered
            /\ clearing' = Accepted(ok)
            /\ alone' = (alone /\ (ok \/ sync = Asleep))
            /\ UNCHANGED storeVars
       ELSE /\ DropWithoutAccount
            /\ UNCHANGED <<server, delivered, clearing, alone>>
  /\ UNCHANGED <<smart, bookVars, queued, fetched, asked>>

\* clearPendingSync() after the upload.
Clear ==
  /\ clearing
  /\ store' = Cleared /\ SaveStore
  /\ clearing' = FALSE
  /\ UNCHANGED <<smart, server, bookVars, queued, delivered, syncVars>>

\* Another device uploads a position, under either match method.
OtherDevice ==
  /\ \E d \in ThisBook, p \in Pos : server' = [server EXCEPT ![d] = p]
  /\ alone' = FALSE
  /\ UNCHANGED <<smart, storeVars, bookVars, queueVars, sync, fetched, asked>>

----------------------------------------------------------------------------
(* The Sync item of the reader's menu: KOReaderSyncActivity.                *)

\* launchKOReaderSync() releases the book first, so onExit() queues nothing.
Launch ==
  /\ reader = "this" /\ store.account
  /\ reader' = "none" /\ turned' = FALSE
  /\ sync' = "connect" /\ asked' = Furthest(server) /\ alone' = TRUE /\ fetched' = 0
  /\ UNCHANGED <<smart, server, local, storeVars, queueVars>>

\* WiFi is up and nothing is queued.
NothingQueued ==
  /\ sync = "connect" /\ ~Pending
  /\ sync' = "fetch"
  /\ UNCHANGED <<smart, server, storeVars, bookVars, queueVars, fetched, asked, alone>>

\* Mutant of Remote: the alternate match method is not probed.
PrimaryOnly(p, a) == IF p THEN server["primary"] ELSE 0

\* What the two requests bring, where p and a tell which one was answered: the
\* alternate record counts if it is further, or if the primary one is missing.
Remote(p, a) ==
  Further(IF p THEN server["primary"] ELSE 0,
          IF a /\ smart THEN server["alternate"] ELSE 0)

\* Mutant of SmartStep: the server is always right.
SmartStepRemoteWins(remote) == IF remote = local THEN "done" ELSE "apply"

\* The decision of smart sync.
SmartStep(remote) ==
  IF remote = local THEN "done" ELSE IF local > remote THEN "upload" ELSE "apply"

\* What follows the comparison: an unanswered primary request is fatal unless the
\* alternate record was found.
AfterFetch(p, remote) ==
  IF remote = 0 THEN IF ~p THEN "failed" ELSE IF smart THEN "upload" ELSE "none"
                ELSE IF smart THEN SmartStep(remote) ELSE "ask"

\* performSync(); it also fails when the book cannot be hashed or loaded again.
Fetch(p, a) ==
  /\ sync = "fetch" /\ ~clearing
  /\ fetched' = Remote(p, a)
  /\ alone' = (alone /\ p /\ (a \/ ~smart))
  /\ sync' \in {AfterFetch(p, fetched'), "failed"}
  /\ UNCHANGED <<smart, server, storeVars, bookVars, queueVars, asked>>

\* The user's answer in SHOWING_RESULT or NO_REMOTE_PROGRESS.
Answer ==
  /\ \/ sync = "ask" /\ sync' \in {"apply", "upload"}
     \/ sync = "none" /\ sync' = "upload"
  /\ UNCHANGED <<smart, server, storeVars, bookVars, queueVars, fetched, asked, alone>>

\* saveProgressAndReturn().
Apply(ok) ==
  /\ sync = "apply"
  /\ local' = IF ok THEN fetched ELSE local
  /\ sync' = IF ok THEN "done" ELSE "failed"
  /\ UNCHANGED <<smart, server, storeVars, reader, turned, queueVars, fetched, asked, alone>>

\* performUpload(), always under the user's own match method.
Upload(ok) ==
  /\ sync = "upload"
  /\ server' = IF ok THEN [server EXCEPT !["primary"] = local] ELSE server
  /\ sync' = IF ok THEN "done" ELSE "failed"
  /\ UNCHANGED <<smart, storeVars, bookVars, queueVars, fetched, asked, alone>>

\* returnToReader(), with the silent restart of onExit() or without it (touch
\* boards); also when no network was chosen.
Return ==
  /\ sync \in {"connect", "ask", "none", "done", "failed"}
  /\ reader' = "this" /\ NoSync
  /\ Restarted \/ UNCHANGED <<storeVars, queueVars, turned>>
  /\ UNCHANGED <<smart, server, local>>

----------------------------------------------------------------------------

Reading  == Open \/ Turn \/ Close
Flushing == (\E ok \in BOOLEAN : Flush(ok)) \/ Clear
Syncing  ==
  \/ Launch \/ NothingQueued \/ Answer \/ Return
  \/ \E p, a \in BOOLEAN : Fetch(p, a)
  \/ \E ok \in BOOLEAN : Apply(ok) \/ Upload(ok)

Next == ChangeAccount \/ Reboot \/ Reading \/ Flushing \/ OtherDevice \/ Syncing

\* The device connects again and again, and the server answers again and again.
Fairness == SF_vars(Flush(TRUE)) /\ WF_vars(Clear) /\ WF_vars(Close) /\ WF_vars(Syncing)

Spec == Init /\ [][Next]_vars /\ Fairness

----------------------------------------------------------------------------
(* Properties.                                                              *)

\* As long as koreader.json can be written, a queued position leaves the slot for a
\* newer one, or because the server has it, or because there is no account any
\* more, power cuts between upload and removal included
\* (FouladDeviceTracking.cpp:631-664).
QueueKeepsPosition ==
  [][faults' = 0 /\ Pending /\ ~Pending'
       => store.pending.serial \in delivered \/ ~store.account]_vars

\* A smart sync in peace ends with the device and the server's furthest record at
\* the same position, under whichever match method it was written
\* (KOReaderSyncActivity.cpp:192-218, 275-295).
SmartSyncAgrees == smart /\ alone /\ sync = "done" => local = Furthest(server)

\* Only reading takes the reader back in the book: a smart sync never does,
\* whatever other devices and failing requests do meanwhile.
SmartNeverGoesBack ==
  [][smart /\ reader = "none" => local' >= local]_vars

\* A queued position arrives, or gives way to a newer one, or is dropped with the
\* account; it does not wait for ever (FouladDeviceTracking.cpp:631-636).
QueueDrains ==
  \A n \in 1..MaxSessions :
    store.pending.serial = n ~> n \in delivered \/ store.pending.serial # n

\* USER_GUIDE.md:676: with smart sync, "apply remote when remote progress is further
\* ahead".  Refuted: the queued position of the same book is uploaded before the
\* server is asked, and takes the place of the further one.
FurtherRemoteApplied == smart /\ alone /\ sync = "done" => local >= asked
=============================================================================
