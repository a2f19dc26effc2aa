------------------------------ MODULE OtaCheck -------------------------------
(***************************************************************************)
(* The update check: which release the device believes is the newest, and  *)
(* what it installs on the strength of it (OtaUpdater.cpp, OtaUpdater.h,   *)
(* OtaUpdateActivity.cpp).  A check asks GitHub for its channel's newest   *)
(* release; the answer and its ETag are kept in a file on the card, so     *)
(* that an unchanged list costs a 304.  The user confirms, the device      *)
(* restarts, checks again and installs.  Releases are published meanwhile, *)
(* the channel setting is toggled, the card comes from another device and  *)
(* the power fails in the middle of a write.  The flashing itself is       *)
(* OtaFlash.                                                               *)
(***************************************************************************)
EXTENDS Naturals

CONSTANTS
  Boards,     \* the boards releases are built for
  Board,      \* this device's board, board_tag::boardName()
  Untagged,   \* the boards whose images may carry no board tag
  SameChip,   \* the boards with this board's MCU, the image header's chip_id
  MaxSeg,     \* bound on the version numbers (three segments, as one rank)
  MaxRc,      \* bound on the release candidates of a version
  MaxDocs     \* bound on the changes of the release list

ASSUME BoardsAssumption ==
  /\ Untagged \subseteq Boards
  /\ SameChip \subseteq Boards /\ Board \in SameChip
  /\ Untagged \cap SameChip \subseteq {Board}
ASSUME ReleaseBounds == MaxSeg \in Nat \ {0} /\ MaxRc \in Nat /\ MaxDocs \in Nat

VARIABLES
  list,      \* the release at the head of each channel's document
  tags,      \* the tags published so far
  docs,      \* how often the release list has changed
  channel,   \* SETTINGS.otaPrereleaseEnabled
  file,      \* /.crosspoint/ota_check.txt
  firmware,  \* the firmware the device runs
  state,     \* state of OtaUpdateActivity; "CLOSED": the screen is not up
  auto,      \* autoInstall
  latest     \* latestVersion and otaUrl of the updater

serverVars == <<list, tags, docs>>
checkVars == <<serverVars, channel, file, firmware, state, auto, latest>>

Channels == {"stable", "pre"}
\* rc = 0 is the final release of its version.
Tags == [seg : 1..MaxSeg, rc : 0..MaxRc]
Releases == [tag : Tags, assets : SUBSET Boards]
NoAnswer == [kind |-> "none"]
NoFile == [kind |-> "none"]
\* An ETag names one content of one of the two URLs.
ETags == [channel : Channels, release : Releases]

\* newlines: how many of the six lines are in the file with their line ends.  The
\* URL is known by the board whose asset it names; whole: it is not cut short.
Files == [kind : {"file"}, channel : Channels, etag : ETags, tag : Tags, board : Boards,
          newlines : 0..6] \cup {NoFile}
Answers == [kind : {"answer"}, tag : Tags, board : Boards, whole : BOOLEAN] \cup {NoAnswer}

ScreenStates == {"CLOSED", "CHECKING_FOR_UPDATE", "WAITING_CONFIRMATION",
                 "UPDATE_IN_PROGRESS", "NO_UPDATE", "FAILED", "FINISHED"}

CheckTypeOK ==
  /\ list \in [Channels -> Releases] /\ tags \subseteq Tags /\ docs \in 0..MaxDocs
  /\ channel \in Channels
  /\ file \in Files
  /\ firmware \in [tag : Tags, board : Boards]
  /\ state \in ScreenStates
  /\ auto \in BOOLEAN
  /\ latest \in Answers

\* The order the team gives its versions: candidates in turn, then the final one.
Later(t, u) ==
  \/ t.seg > u.seg
  \/ /\ t.seg = u.seg /\ t # u
     /\ t.rc = 0 \/ (u.rc # 0 /\ t.rc > u.rc)

CheckInit ==
  \E rc \in 0..MaxRc :
    LET final == [tag |-> [seg |-> 1, rc |-> 0], assets |-> {Board}]
        first == [tag |-> [seg |-> 1, rc |-> rc], assets |-> {Board}]
    IN /\ list = [c \in Channels |-> final]
       /\ tags = {final.tag, first.tag}
       /\ firmware = [tag |-> first.tag, board |-> Board]
       /\ docs = 0 /\ channel \in Channels
       /\ file = NoFile
       /\ state = "CLOSED" /\ auto = FALSE /\ latest = NoAnswer

----------------------------------------------------------------------------
(* GitHub.                                                                  *)

\* A release is published.  Candidates and final release of a version come in
\* order; a fix of an older version may come after a candidate of the next.
Publish(r) ==
  /\ docs < MaxDocs
  /\ \A t \in tags : t.seg = r.tag.seg => Later(r.tag, t)
  /\ list' = [c \in Channels |-> IF c = "pre" \/ r.tag.rc = 0 THEN r ELSE list[c]]
  /\ tags' = tags \cup {r.tag} /\ docs' = docs + 1
  /\ UNCHANGED <<channel, file, firmware, state, auto, latest>>

\* The binary of a board joins a release that is already public.
AddAsset(c, b) ==
  /\ docs < MaxDocs
  /\ b \notin list[c].assets
  /\ list' = [d \in Channels |->
       IF list[d].tag = list[c].tag
         THEN [list[d] EXCEPT !.assets = @ \cup {b}] ELSE list[d]]
  /\ docs' = docs + 1
  /\ UNCHANGED <<tags, channel, file, firmware, state, auto, latest>>

ETagNow == [channel |-> channel, release |-> list[channel]]

----------------------------------------------------------------------------
(* The file.                                                                *)

\* Mutant of EnoughLines: a file that stops inside its fifth line, the URL, will do.
OneLineShort(f) == f.newlines + 1 >= 5

\* The text after the last line end counts as a line (OtaUpdater.cpp:66-73).
EnoughLines(f) == f.newlines + 1 >= 6

\* loadCheckCache() and usable().  A file that has six lines has an ETag, a tag
\* and a URL: saveCheckCache() writes no empty ones.
Answering(f) == f # NoFile /\ EnoughLines(f) /\ f.channel = channel

FileEntry(b, newlines) ==
  [kind |-> "file", channel |-> channel, etag |-> ETagNow, tag |-> list[channel].tag,
   board |-> b, newlines |-> newlines]

\* saveCheckCache(): nothing is written without an ETag, or if the card fails
\* before the old file is gone; the write may stop after any line.
Saved(withETag) ==
  IF withETag THEN {file, NoFile} \cup {FileEntry(Board, n) : n \in 0..6} ELSE {file}

----------------------------------------------------------------------------
(* OtaUpdateActivity.                                                       *)

\* Mutant of IsVersionNewer: a candidate takes its own tag for a newer one.
IsVersionNewerOrSame(t) ==
  IF t.seg # firmware.tag.seg THEN t.seg > firmware.tag.seg ELSE firmware.tag.rc # 0

\* OtaUpdater.h:53: by segments; a release candidate takes any other tag of the
\* same version for a newer one.
IsVersionNewer(t) ==
  /\ t # firmware.tag
  /\ IF t.seg # firmware.tag.seg THEN t.seg > firmware.tag.seg ELSE firmware.tag.rc # 0

\* silentRestartToOtaCheck(): the check runs in a boot of its own.
Open ==
  /\ state = "CLOSED"
  /\ state' = "CHECKING_FOR_UPDATE" /\ auto' = FALSE /\ latest' = NoAnswer
  /\ UNCHANGED <<serverVars, channel, file, firmware>>

CheckFails ==
  /\ state = "CHECKING_FOR_UPDATE"
  /\ state' = "FAILED"
  /\ UNCHANGED <<serverVars, channel, file, firmware, auto, latest>>

\* The rest of onWifiSelectionComplete() once checkForUpdate() has succeeded.
Judge(answer) ==
  /\ latest' = answer
  /\ state' = IF ~IsVersionNewer(answer.tag) THEN "NO_UPDATE"
              ELSE IF auto THEN "UPDATE_IN_PROGRESS" ELSE "WAITING_CONFIRMATION"

\* 304: the list is what it was when the file was written.
CheckUnchanged ==
  /\ state = "CHECKING_FOR_UPDATE"
  /\ Answering(file) /\ file.etag = ETagNow
  /\ Judge([kind |-> "answer", tag |-> file.tag, board |-> file.board,
            whole |-> file.newlines >= 5])
  /\ UNCHANGED <<serverVars, channel, file, firmware, auto>>

\* 200: the document is read.  A release without this board's asset is no update,
\* and leaves the file alone.
CheckReads ==
  /\ state = "CHECKING_FOR_UPDATE"
  /\ ~(Answering(file) /\ file.etag = ETagNow)
  /\ IF Board \in list[channel].assets
       THEN /\ Judge([kind |-> "answer", tag |-> list[channel].tag, board |-> Board,
                      whole |-> TRUE])
            /\ \E withETag \in BOOLEAN : file' \in Saved(withETag)
       ELSE state' = "NO_UPDATE" /\ UNCHANGED <<file, latest>>
  /\ UNCHANGED <<serverVars, channel, firmware, auto>>

\* silentRestartToOtaInstall(): the boot that follows checks again.
Confirm ==
  /\ state = "WAITING_CONFIRMATION"
  /\ state' = "CHECKING_FOR_UPDATE" /\ auto' = TRUE /\ latest' = NoAnswer
  /\ UNCHANGED <<serverVars, channel, file, firmware>>

\* finish(), also when no network was joined: onExit() restarts the device, as the
\* radio is on.
Leave ==
  /\ state \in {"CHECKING_FOR_UPDATE", "WAITING_CONFIRMATION", "NO_UPDATE", "FAILED"}
  /\ state' = "CLOSED" /\ auto' = FALSE /\ latest' = NoAnswer
  /\ UNCHANGED <<serverVars, channel, file, firmware>>

\* Mutant of WrongDevice: only the chip is compared.
ChipOnly(b) == b \notin SameChip

\* installUpdate(): the image names another MCU, or its tag another board.
WrongDevice(b) == b \notin SameChip \/ (b \notin Untagged /\ b # Board)

\* loop() starts the install once; installUpdate() judges the version again,
\* then streams the image.  The download or the flash may fail.
Install ==
  /\ state = "UPDATE_IN_PROGRESS" /\ auto
  /\ auto' = FALSE
  /\ \/ /\ IsVersionNewer(latest.tag) /\ latest.whole /\ ~WrongDevice(latest.board)
        /\ firmware' = [tag |-> latest.tag, board |-> latest.board]
        /\ state' = "FINISHED"
     \/ state' = "FAILED" /\ UNCHANGED firmware
  /\ UNCHANGED <<serverVars, channel, file, latest>>

\* SHUTTING_DOWN: ESP.restart() into the new firmware.
Restart ==
  /\ state = "FINISHED"
  /\ state' = "CLOSED" /\ latest' = NoAnswer
  /\ UNCHANGED <<serverVars, channel, file, firmware, auto>>

----------------------------------------------------------------------------
(* The rest of the world.                                                   *)

ToggleChannel ==
  /\ state = "CLOSED"
  /\ channel' = IF channel = "pre" THEN "stable" ELSE "pre"
  /\ UNCHANGED <<serverVars, file, firmware, state, auto, latest>>

\* A card that has been in a device of another board, where a check has just found
\* a release: the file carries no board.
MoveCard(b) ==
  /\ state = "CLOSED"
  /\ b # Board /\ b \in list[channel].assets
  /\ file' = FileEntry(b, 6)
  /\ UNCHANGED <<serverVars, channel, firmware, state, auto, latest>>

\* Before the new image is committed; a write cut short is in Saved().
PowerCut ==
  /\ state \notin {"CLOSED", "FINISHED"}
  /\ state' = "CLOSED" /\ auto' = FALSE /\ latest' = NoAnswer
  /\ UNCHANGED <<serverVars, channel, file, firmware>>

CheckNext ==
  \/ \E r \in Releases : Publish(r)
  \/ \E c \in Channels, b \in Boards : AddAsset(c, b)
  \/ Open \/ CheckFails \/ CheckUnchanged \/ CheckReads \/ Confirm \/ Leave
  \/ Install \/ Restart
  \/ ToggleChannel \/ PowerCut
  \/ \E b \in Boards : MoveCard(b)

CheckSpec == CheckInit /\ [][CheckNext]_checkVars

----------------------------------------------------------------------------
(* What the check promises.                                                 *)

\* A check that answers names the release at the head of its channel at that moment,
\* whether it was read or recalled from the file, over torn writes and toggles of the
\* channel; and its URL is complete and of this board's asset, which the release has,
\* unless the card brought the file of another board (OtaUpdater.cpp:108).
CheckIsTrue ==
  [][state = "CHECKING_FOR_UPDATE" /\ latest' # latest /\ latest' # NoAnswer
       => /\ latest'.tag = list[channel].tag
          /\ latest'.whole
          /\ \/ latest'.board = Board /\ Board \in list[channel].assets
             \/ file # NoFile /\ file.board # Board]_checkVars

\* The device never installs the firmware it has or an earlier one, in the order the
\* versions are published in: no candidate reinstalls itself, no fix of an older
\* version replaces a candidate of the next (OtaUpdater.h:53, OtaUpdateActivity.cpp:70).
NeverGoesBack ==
  [][state' = "FINISHED" /\ state # "FINISHED" => Later(firmware'.tag, firmware.tag)]_checkVars

\* The device runs firmware of its own board, though the file may name the asset of
\* another (OtaUpdater.cpp:262, FirmwareBoardTag.h).
RunsOwnBoard == firmware.board = Board

=============================================================================
