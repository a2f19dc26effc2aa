------------------------------ MODULE WifiStore ------------------------------
(***************************************************************************)
(* WifiCredentialStore and its file wifi.json: the list in memory, the     *)
(* whole-file saves of PersistableStore, and their callers: the WiFi       *)
(* selection screen, the web server (joined to a network or as a hotspot)  *)
(* and the phone's wifi.provision and wifi.autoconnect commands.           *)
(*                                                                         *)
(* All callers run on the main task, so one operation runs at a time; what *)
(* comes between its steps is a power cut or a card that fails.  A save is *)
(* two steps, because writeFile() replaces the file in place.  A load may  *)
(* fail whatever the file is: it is torn, or cannot be read, or memory is  *)
(* short.  Storage.exists() is taken to tell the truth.                    *)
(***************************************************************************)
EXTENDS Naturals, Sequences, SequencesExt, Functions

CONSTANTS
  Ssid, Password,
  NoSsid,       \* the empty lastConnectedSsid
  Damaged,      \* a password_obf that fails its length or checksum
  MaxNetworks   \* MAX_NETWORKS

ASSUME StoreAssumption ==
  NoSsid \notin Ssid /\ Damaged \notin Password /\ MaxNetworks \in Nat \ {0}

VARIABLES
  nets, last,   \* credentials and lastConnectedSsid in memory
  file,         \* wifi.json
  pc,           \* idle, about to save, in writeFile(), before the second half
  todo,         \* that second half: an addCredential() after a save or a load
  screen,       \* the screen the user is on
  job,          \* the network wifi.autoconnect is connecting to
  dirty,        \* history: SSIDs changed in memory since memory last met the card
  before,       \* history: what could be read from the card when this save began
  blind         \* history: a load of a whole file has failed, and its caller went on

memory == <<nets, last>>
vars == <<memory, file, pc, todo, screen, job, dirty, before, blind>>

Credential == [ssid : Ssid, password : Password]
Stored == [ssid : Ssid, password : Password \cup {Damaged}]

UpTo(n, S) == UNION {[1..k -> S] : k \in 0..n}

TypeOK ==
  /\ nets \in UpTo(MaxNetworks, Credential) /\ last \in Ssid \cup {NoSsid}
  /\ file \in [state : {"missing", "torn", "whole"},
               nets : UpTo(MaxNetworks, Stored), last : Ssid \cup {NoSsid}]
  /\ pc \in {"idle", "save", "writing", "second"}
  /\ todo \subseteq [ssid : Ssid, password : Password, after : {"save", "load"}]
  /\ pc = "idle" => todo = {}
  /\ screen \in {"other", "selection", "joined", "hotspot"}
  /\ job \in Ssid \cup {NoSsid}
  /\ dirty \subseteq Ssid /\ before \subseteq Credential /\ blind \in BOOLEAN

Lost(how) == [state |-> how, nets |-> <<>>, last |-> NoSsid]
Snapshot == [state |-> "whole", nets |-> nets, last |-> last]

Init ==
  /\ nets = <<>> /\ last = NoSsid /\ file = Lost("missing")
  /\ pc = "idle" /\ todo = {} /\ screen = "other" /\ job = NoSsid
  /\ dirty = {} /\ before = {} /\ blind = FALSE

\* The networks a set of slots holds; those fromJson() accepts.
Intact(seq) == {n \in Range(seq) : n.password # Damaged}
Index(seq, s) == {i \in DOMAIN seq : seq[i].ssid = s}

\* The slots of a list that fromJson() accepts, in their order.
Accepted(seq) ==
  {slots \in UpTo(Len(seq), DOMAIN seq) :
     /\ Range(slots) = {i \in DOMAIN seq : seq[i].password # Damaged}
     /\ \A i, j \in DOMAIN slots : i < j => slots[i] < slots[j]}

-----------------------------------------------------------------------------
(* The store.                                                              *)

\* A loadFromFile() that succeeds replaces memory; a list that fromJson() had to thin
\* out is saved again.
loadFromFile(saves) ==
  /\ \E slots \in Accepted(file.nets) : nets' = [i \in DOMAIN slots |-> file.nets[slots[i]]]
  /\ last' = file.last /\ dirty' = {} /\ blind' = FALSE
  /\ pc' = IF nets' # file.nets THEN "save" ELSE saves

\* A loadFromFile() that fails leaves memory alone.
loadFails == UNCHANGED <<memory, dirty, pc>> /\ blind' = (file.state = "whole")

\* Mutant of addCredential: no limit.
addUnlimited(n) ==
  /\ nets' = IF Index(nets, n.ssid) # {}
             THEN [i \in DOMAIN nets |-> IF nets[i].ssid = n.ssid THEN n ELSE nets[i]]
             ELSE Append(nets, n)
  /\ dirty' = dirty \cup {n.ssid} /\ pc' = "save"

\* Mutant of addCredential: never looks for an entry to update.
addAlways(n) ==
  IF Len(nets) < MaxNetworks
    THEN nets' = Append(nets, n) /\ dirty' = dirty \cup {n.ssid} /\ pc' = "save"
    ELSE pc' = "idle" /\ UNCHANGED <<nets, dirty>>

\* An entry of that SSID is updated in place; a full list refuses another one.
addCredential(n) ==
  \/ /\ Index(nets, n.ssid) # {}
     /\ nets' = [i \in DOMAIN nets |-> IF nets[i].ssid = n.ssid THEN n ELSE nets[i]]
     /\ dirty' = dirty \cup {n.ssid} /\ pc' = "save"
  \/ /\ Index(nets, n.ssid) = {} /\ Len(nets) < MaxNetworks
     /\ nets' = Append(nets, n)
     /\ dirty' = dirty \cup {n.ssid} /\ pc' = "save"
  \/ /\ Index(nets, n.ssid) = {} /\ Len(nets) >= MaxNetworks
     /\ pc' = "idle" /\ UNCHANGED <<nets, dirty>>

\* removeCredential() of an entry that is there.
removeAt(i) ==
  /\ nets' = RemoveAt(nets, i)
  /\ last' = IF last = nets[i].ssid THEN NoSsid ELSE last
  /\ dirty' = dirty \cup {nets[i].ssid} /\ pc' = "save"

setLastConnectedSsid(s) ==
  /\ last' = s /\ pc' = IF last = s THEN "idle" ELSE "save"
  /\ UNCHANGED <<nets, dirty>>

\* saveToFile(): the snapshot is taken, and writeFile() gives up the old content.
WriteBegins ==
  /\ pc = "save" /\ pc' = "writing"
  /\ before' = Intact(file.nets)
  /\ file' \in {Lost("missing"), Lost("torn")}
  /\ UNCHANGED <<memory, todo, screen, job, dirty, blind>>

WriteEnds ==
  /\ pc = "writing" /\ pc' = IF todo = {} THEN "idle" ELSE "second"
  /\ file' = Snapshot /\ dirty' = {} /\ before' = {} /\ blind' = FALSE
  /\ UNCHANGED <<memory, todo, screen, job>>

\* The card fails before or while the file is written.  A failed save ends a rename
\* (&&), not the provisioning that loaded the list: that resave is only logged.
WriteFails ==
  /\ pc \in {"save", "writing"}
  /\ \/ pc = "save" /\ UNCHANGED file
     \/ file' \in {Lost("missing"), Lost("torn")}
  /\ todo' = {t \in todo : t.after = "load"}
  /\ pc' = (IF todo' = {} THEN "idle" ELSE "second") /\ before' = {}
  /\ UNCHANGED <<memory, screen, job, dirty, blind>>

SecondHalf ==
  /\ pc = "second" /\ todo' = {}
  /\ \E t \in todo : addCredential([ssid |-> t.ssid, password |-> t.password])
  /\ UNCHANGED <<last, file, screen, job, before, blind>>

-----------------------------------------------------------------------------
(* WifiSelectionActivity.                                                  *)

Idle == pc = "idle"
KeepsUi == UNCHANGED <<file, screen, job, before, blind>>

\* onEnter() does not ask whether the load failed, and works with what is in memory.
OpensSelection ==
  /\ Idle /\ screen = "other" /\ screen' = "selection"
  /\ \/ file.state = "whole" /\ loadFromFile("idle")
     \/ loadFails
  /\ UNCHANGED <<file, todo, job, before>>

Connects ==
  /\ Idle /\ screen = "selection" /\ \E s \in Ssid : setLastConnectedSsid(s)
  /\ KeepsUi /\ UNCHANGED todo

SavesPassword ==
  /\ Idle /\ screen = "selection" /\ \E n \in Credential : addCredential(n)
  /\ KeepsUi /\ UNCHANGED <<last, todo>>

Forgets ==
  /\ Idle /\ screen = "selection" /\ \E i \in DOMAIN nets : removeAt(i)
  /\ KeepsUi /\ UNCHANGED todo

\* Settings goes on without a restart; the web server stays until one.
LeavesSelection ==
  /\ Idle /\ screen = "selection" /\ screen' \in {"other", "joined"}
  /\ UNCHANGED <<memory, file, pc, todo, job, dirty, before, blind>>

-----------------------------------------------------------------------------
(* CrossPointWebServer, and the two ways to it.                            *)

Serving == Idle /\ screen \in {"joined", "hotspot"}

\* startAccessPoint(): no network is chosen, so no list is loaded.
OpensHotspot ==
  /\ Idle /\ screen = "other" /\ screen' = "hotspot"
  /\ UNCHANGED <<memory, file, pc, todo, job, dirty, before, blind>>

PostAdds ==
  /\ Serving /\ \E n \in Credential : addCredential(n)
  /\ KeepsUi /\ UNCHANGED <<last, todo>>

\* With "index": the same SSID is updated, another one is removed and added.
PostUpdates ==
  /\ Serving
  /\ \E i \in DOMAIN nets, s \in Ssid, p \in Password :
       \/ /\ nets[i].ssid = s /\ addCredential([ssid |-> s, password |-> p])
          /\ UNCHANGED <<last, todo>>
       \/ /\ nets[i].ssid # s /\ removeAt(i)
          /\ todo' = {[ssid |-> s, password |-> p, after |-> "save"]}
  /\ KeepsUi

PostDeletes ==
  /\ Serving /\ \E i \in DOMAIN nets : removeAt(i)
  /\ KeepsUi /\ UNCHANGED todo

-----------------------------------------------------------------------------
(* The phone.                                                              *)

\* Mutant of Provision: adds to whatever is in memory.
ProvisionUnloaded ==
  /\ Idle /\ screen = "other" /\ \E n \in Credential : addCredential(n)
  /\ KeepsUi /\ UNCHANGED <<last, todo>>

\* wifi.provision: a file that exists is loaded first; if that fails, the command does
\* too and changes nothing.
Provision ==
  /\ Idle /\ screen = "other" /\ UNCHANGED <<file, screen, job, before>>
  /\ \/ /\ file.state = "missing"
        /\ \E n \in Credential : addCredential(n)
        /\ UNCHANGED <<last, todo, blind>>
     \/ /\ file.state = "whole" /\ loadFromFile("second")
        /\ \E s \in Ssid, p \in Password :
             todo' = {[ssid |-> s, password |-> p, after |-> "load"]}

\* pickCredential()
Picked(list, s) ==
  IF Index(list, s) # {} THEN s ELSE IF list = <<>> THEN NoSsid ELSE list[1].ssid

\* checkSavedCredential() only loads; tick() loads again and picks.  Both give up when
\* a file that exists cannot be loaded.
PhoneLoads ==
  /\ Idle /\ screen = "other" /\ job = NoSsid
  /\ \/ file.state = "whole" /\ loadFromFile("idle")
     \/ file.state = "missing" /\ UNCHANGED <<memory, dirty, pc, blind>>
  /\ job' \in {NoSsid, Picked(nets', last')}
  /\ UNCHANGED <<file, todo, screen, before>>

\* tick() finds the connection up, or gives up, whatever the screen is by then.
PhoneConnects ==
  /\ Idle /\ job # NoSsid /\ job' = NoSsid
  /\ \/ setLastConnectedSsid(job)
     \/ UNCHANGED <<memory, dirty, pc>>
  /\ UNCHANGED <<file, todo, screen, before, blind>>

-----------------------------------------------------------------------------

\* silentRestart() after the web server, or a power cut at any moment.
Restarts ==
  /\ nets' = <<>> /\ last' = NoSsid /\ pc' = "idle" /\ todo' = {}
  /\ screen' = "other" /\ job' = NoSsid /\ dirty' = {} /\ before' = {} /\ blind' = FALSE
  /\ UNCHANGED file

\* An entry gets damaged, or comes from a device with another key, while it is off.
EntryGetsDamaged ==
  /\ Idle /\ nets = <<>> /\ screen = "other" /\ job = NoSsid
  /\ \E i \in DOMAIN file.nets : file' = [file EXCEPT !.nets[i].password = Damaged]
  /\ UNCHANGED <<memory, pc, todo, screen, job, dirty, before, blind>>

Saving == WriteBegins \/ WriteEnds \/ WriteFails \/ SecondHalf
Selection == OpensSelection \/ Connects \/ SavesPassword \/ Forgets \/ LeavesSelection
Web == OpensHotspot \/ PostAdds \/ PostUpdates \/ PostDeletes
Phone == Provision \/ PhoneLoads \/ PhoneConnects
Next == Saving \/ Selection \/ Web \/ Phone \/ Restarts \/ EntryGetsDamaged

Spec == Init /\ [][Next]_vars

-----------------------------------------------------------------------------
(* Properties.                                                             *)

\* A network has one entry, in memory and in the file, through updates, renames to
\* a name that is already there, resaves and reloads.
OneEntryPerSsid ==
  \A s \in Ssid : \A seq \in {nets, file.nets} :
    \A i, j \in Index(seq, s) : i = j

\* A save that ends has kept every network that could be read from the card when it
\* began, but for those that were changed on purpose.
Keeps == \A n \in before : n.ssid \in dirty \/ n \in Range(file'.nets)

\* So do all callers that load first, unless they went on without what a load that
\* failed had to bring: "addCredential() below would save over wifi.json with only this
\* one credential" otherwise (BleCommandDispatcher.cpp:76).
SavesKeepNetworks == [][WriteEnds /\ screen # "hotspot" /\ ~blind => Keeps]_vars

\* docs/webserver-endpoints.md:392: POST /api/wifi "Adds or updates a saved Wi-Fi
\* network", also on a server that was started as a hotspot.
HotspotKeepsNetworks == [][WriteEnds /\ ~blind => Keeps]_vars
=============================================================================
