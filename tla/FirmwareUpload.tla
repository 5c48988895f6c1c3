---------------------------- MODULE FirmwareUpload ----------------------------
(* The unit's own update from the Firmware page: the page (data/index.html,
   embedded in ui.cpp) asks the unit to prepare and uploads at once; the unit
   (api.cpp, firmUpdate.cpp, main.cpp) restarts a second after it was asked, and
   a request that reaches it within that second is still served to its end. *)
EXTENDS Naturals

CONSTANTS
  MaxUploads   \* times Upload Firmware is pressed

VARIABLES
  page,        \* what the page is doing
  uploads,
  mode,        \* "run", "update" (no discovery), "window" (a restart is due), "down"
  flag,        \* doFirmwareUpdate as stored in the EEPROM
  begun,       \* a file is on its way: "none", "open", or "broken": Update.begin() or write() failed
  staged,      \* a complete image waits for the restart
  image        \* the firmware that is installed

unit == <<mode, flag, begun, staged, image>>
vars == <<page, uploads, unit>>

Up == mode # "down"

Init ==
  /\ page = "idle" /\ uploads = 0
  /\ mode = "run" /\ flag = FALSE /\ begun = "none" /\ staged = FALSE /\ image = "old"

-----------------------------------------------------------------------------
(* The page. *)

Press ==
  /\ page \in {"idle", "failed"} /\ uploads < MaxUploads
  /\ page' = "preparing" /\ uploads' = uploads + 1
  /\ UNCHANGED unit

\* "Prepare failed", "Upload failed": the button is enabled again.
Unanswered ==
  /\ page \in {"preparing", "uploading"}
  /\ page' = "failed"
  /\ UNCHANGED <<uploads, unit>>

Reload ==
  /\ page = "done" /\ page' = "idle"
  /\ UNCHANGED <<uploads, unit>>

\* Reboot, from the link at the foot of the page.
RebootLink ==
  /\ page = "idle" /\ mode \in {"run", "update"}
  /\ mode' = "window"
  /\ UNCHANGED <<page, uploads, flag, begun, staged, image>>

-----------------------------------------------------------------------------
(* The unit.  doReboot set is the mode "window". *)

\* apiPostFirmwarePrepare; the answer may be lost on the way.
Prepare ==
  /\ page = "preparing" /\ Up
  /\ flag' = TRUE /\ mode' = "window"
  /\ page' \in {"uploading", "failed"}
  /\ UNCHANGED <<uploads, begun, staged, image>>

\* webFirmwareUpload, UPLOAD_FILE_START.  The page sends no second file while one
\* is on its way, and a restart clears what is left of an upload cut off.
UploadStarts ==
  /\ page = "uploading" /\ Up /\ begun = "none"
  /\ begun' \in {"open", "broken"}
  /\ UNCHANGED <<page, uploads, mode, flag, staged, image>>

\* UPLOAD_FILE_WRITE.  A failure is answered at once, and the rest is read all the same.
WriteFails ==
  /\ begun = "open" /\ Up /\ page = "uploading"
  /\ begun' = "broken"
  /\ UNCHANGED <<page, uploads, mode, flag, staged, image>>

\* Mutant: success is told though Update.end() staged nothing.
NotStaged == begun' = "none" /\ UNCHANGED staged

\* UPLOAD_FILE_END and webFirmwareUpdate: the unit has read the whole request
\* before it looks at anything else, so the restart waits for it.
Completed == staged' = TRUE /\ begun' = "none"

UploadEnds ==
  /\ begun = "open" /\ Up /\ page = "uploading"
  /\ Completed
  /\ mode' = "window"
  /\ page' \in {"done", "failed"}
  /\ UNCHANGED <<uploads, flag, image>>

\* The connection breaks: there is no answer, and no end of the file.
UploadBreaks ==
  /\ begun # "none" /\ Up /\ page = "uploading"
  /\ page' = "failed"
  /\ UNCHANGED <<uploads, unit>>

\* The image is refused at its end (Update.end()), as it is when it broke before:
\* success 0, and a restart all the same.
UploadRefused ==
  /\ begun # "none" /\ Up /\ page = "uploading"
  /\ page' = "failed" /\ begun' = "none" /\ mode' = "window"
  /\ UNCHANGED <<uploads, flag, staged, image>>

\* The second is over.  A request that is being read holds it up.
Restart ==
  /\ mode = "window" /\ ~(begun # "none" /\ page = "uploading")
  /\ mode' = "down"
  /\ UNCHANGED <<page, uploads, flag, begun, staged, image>>

\* setup().
Boots ==
  /\ mode = "down"
  /\ mode' = IF flag THEN "update" ELSE "run"
  /\ flag' = FALSE
  /\ image' = IF staged THEN "new" ELSE image
  /\ staged' = FALSE /\ begun' = "none"
  /\ UNCHANGED <<page, uploads>>

Next ==
  \/ Press \/ Unanswered \/ Reload \/ RebootLink
  \/ Prepare \/ UploadStarts \/ WriteFails \/ UploadEnds \/ UploadBreaks \/ UploadRefused \/ Restart \/ Boots

Spec == Init /\ [][Next]_vars

-----------------------------------------------------------------------------
TypeOK ==
  /\ page \in {"idle", "preparing", "uploading", "done", "failed"}
  /\ uploads \in 0..MaxUploads /\ mode \in {"run", "update", "window", "down"}
  /\ image \in {"old", "new"} /\ begun \in {"none", "open", "broken"}
  /\ \A b \in {flag, staged} : b \in BOOLEAN

\* "Firmware uploaded - rebooting" is said of an image that is complete, which the
\* restart installs, and of no upload that the restart cut off.
ToldIsInstalled == page = "done" => staged \/ image = "new"

\* Does not hold: update mode "is for this boot only" (main.cpp:125), so once the upload it was
\* for has been made, the unit that comes back runs the application.
UploadedRuns == page \in {"done", "idle"} /\ image = "new" => mode # "update"
=============================================================================
