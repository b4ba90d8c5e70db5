--------------------------- MODULE FirmwareUpdate ---------------------------
(***************************************************************************)
(* An update of the firmware: the upload into a file on the firmware page, *)
(* the restart that the browser brings about by opening /restart-wait, and *)
(* setup(), which flashes the file, removes it and restarts.  The bridge   *)
(* may be reset at any point.                                              *)
(*                                                                         *)
(* The web server receives one request at a time and an upload within one  *)
(* call of handleClient(), so that uploads do not overlap.  A file that is *)
(* not closed when the program ends keeps some beginning of what was       *)
(* written to it.  What Update makes of the file is external: it succeeds  *)
(* or fails.                                                               *)
(***************************************************************************)
EXTENDS Integers, Sequences

CONSTANTS
    Images,         \* what is uploaded
    NoImage,        \* no upload; no file
    Chunks,         \* pieces an upload arrives in
    MaxUploads,     \* bound: uploads since power-on
    MaxResets       \* bound: resets nobody asked for

ASSUME UpdateAssumption ==
    /\ NoImage \notin Images
    /\ Chunks \in Nat \ {0} /\ MaxUploads \in Nat /\ MaxResets \in Nat

VARIABLES
    stage,          \* of the program: setup() in its steps, or running
    file,           \* FILE_FIRMWARE: the pieces in it, or NoImage
    open,           \* the File object is open for writing
    uploading,
    upload, piece,  \* the upload being received, and its pieces so far
    performRestart,
    ended,          \* history: an upload since the start has been received whole
    uploads, resets \* bounds

received == <<upload, piece>>
bounds == <<uploads, resets>>
vars == <<stage, file, open, uploading, received, performRestart, ended, bounds>>

\* A file is of one upload, or of an unfinished one and the pieces of those after it.
Pieces == Images \X (1 .. Chunks)
TypeOK ==
    /\ stage \in {"boot", "flashing", "flashed", "failed", "restart", "running"}
    /\ file = NoImage \/ (file \in Seq(Pieces) /\ Len(file) <= MaxUploads * Chunks)
    /\ {open, uploading, performRestart, ended} \subseteq BOOLEAN
    /\ upload \in Images \cup {NoImage} /\ piece \in 0 .. Chunks

Init ==
    /\ stage = "boot" /\ file = NoImage
    /\ open = FALSE /\ uploading = FALSE /\ performRestart = FALSE /\ ended = FALSE
    /\ upload = NoImage /\ piece = 0
    /\ uploads = 0 /\ resets = 0

-----------------------------------------------------------------------------
(* setup(). *)

SetupStep(from, to) ==
    /\ stage = from /\ stage' = to
    /\ UNCHANGED <<open, uploading, received, performRestart, ended, bounds>>

\* No file, or SPIFFS had to be formatted.
NothingToFlash ==
    /\ SetupStep("boot", "running")
    /\ file' = NoImage

FoundFirmware ==
    /\ file # NoImage
    /\ SetupStep("boot", "flashing")
    /\ UNCHANGED file

\* Update.begin(), write() and end(true): flashed or not.
Flash ==
    /\ SetupStep("flashing", "flashed") \/ SetupStep("flashing", "failed")
    /\ UNCHANGED file

\* Mutant of RemoveFirmware: removed only when it could not be flashed.
RemoveIfFailed ==
    \/ SetupStep("flashed", "restart") /\ UNCHANGED file
    \/ SetupStep("failed", "running") /\ file' = NoImage

\* Mutant of RemoveFirmware: removed only when flashed.
RemoveIfFlashed ==
    \/ SetupStep("flashed", "restart") /\ file' = NoImage
    \/ SetupStep("failed", "running") /\ UNCHANGED file

\* SPIFFS.remove(), whether the update succeeded or not; setup() goes on only
\* when it did not.
RemoveFirmware ==
    /\ SetupStep("flashed", "restart") \/ SetupStep("failed", "running")
    /\ file' = NoImage

-----------------------------------------------------------------------------
(* The upload: firmwareUpload(), uploadFile(). *)

\* Mutant of MayStart: the check of uploading is missing.
AlwaysMayStart == TRUE

MayStart == ~uploading

\* uploadFile() at UPLOAD_FILE_START: created; or refused, or SPIFFS is not mounted.
FileStart ==
    \/ MayStart /\ file' = <<>> /\ open' = TRUE /\ uploading' = TRUE
    \/ UNCHANGED <<file, open, uploading>>

\* Whatever the client is answered (a name that does not end in .bin, too, is an
\* error), its pieces are received.
UploadStart(image) ==
    /\ stage = "running" /\ upload = NoImage /\ uploads < MaxUploads
    /\ FileStart
    /\ upload' = image /\ piece' = 0 /\ uploads' = uploads + 1
    /\ UNCHANGED <<stage, performRestart, ended, resets>>

\* Mutant of UploadWrite: a piece more than were sent.
WriteOn ==
    /\ upload # NoImage /\ piece <= Chunks
    /\ piece' = piece + 1
    /\ file' = IF open THEN Append(file, <<upload, piece'>>) ELSE file
    /\ UNCHANGED <<stage, open, uploading, upload, performRestart, ended, bounds>>

\* UPLOAD_FILE_WRITE: whoever the open file was opened for.
UploadWrite ==
    /\ upload # NoImage /\ piece < Chunks
    /\ piece' = piece + 1
    /\ file' = IF open THEN Append(file, <<upload, piece'>>) ELSE file
    /\ UNCHANGED <<stage, open, uploading, upload, performRestart, ended, bounds>>

\* UPLOAD_FILE_END: the file is closed, if there is one; a restart in any case.
UploadEnd ==
    /\ upload # NoImage /\ piece = Chunks
    /\ open' = FALSE /\ ended' = (ended \/ open)
    /\ performRestart' = TRUE
    /\ upload' = NoImage /\ piece' = 0
    /\ UNCHANGED <<stage, file, uploading, bounds>>

\* UPLOAD_FILE_ABORTED: nothing.
UploadAborted ==
    /\ upload # NoImage
    /\ upload' = NoImage /\ piece' = 0
    /\ UNCHANGED <<stage, file, open, uploading, performRestart, ended, bounds>>

-----------------------------------------------------------------------------
(* Restarts. *)

\* restartPost(), or a form that needs a restart (ConfigStore.tla).
restartPost ==
    /\ stage = "running" /\ upload = NoImage /\ ~performRestart
    /\ performRestart' = TRUE
    /\ UNCHANGED <<stage, file, open, uploading, received, ended, bounds>>

\* The program starts again.
Restarted ==
    /\ stage' = "boot"
    /\ file' \in IF open THEN { SubSeq(file, 1, n) : n \in 0 .. Len(file) } ELSE {file}
    /\ open' = FALSE /\ uploading' = FALSE /\ performRestart' = FALSE /\ ended' = FALSE
    /\ upload' = NoImage /\ piece' = 0
    /\ UNCHANGED uploads

\* restartWaitHtml(): the page is opened and a restart was asked for.
restartWaitHtml ==
    /\ stage = "running" /\ upload = NoImage /\ performRestart
    /\ Restarted /\ UNCHANGED resets

RestartAfterFlash == stage = "restart" /\ Restarted /\ UNCHANGED resets

Reset ==
    /\ resets < MaxResets /\ resets' = resets + 1
    /\ Restarted

SetupNext == NothingToFlash \/ FoundFirmware \/ Flash \/ RemoveFirmware \/ RestartAfterFlash
UploadNext ==
    \/ \E image \in Images : UploadStart(image)
    \/ UploadWrite \/ UploadEnd \/ UploadAborted

Next == SetupNext \/ UploadNext \/ restartPost \/ restartWaitHtml \/ Reset

\* setup() goes on by itself.
UpdateSpec == Init /\ [][Next]_vars /\ WF_vars(SetupNext)

-----------------------------------------------------------------------------
(* Properties. *)

\* Once an upload has been received whole, no later request changes the file:
\* only a start of the program does.
ReceivedIsKept == [][ended /\ stage' = "running" => file' = file]_vars

\* While the program runs, there is a firmware file only if it was uploaded
\* since the start: what was flashed, or could not be, is not flashed again.
NoLeftover == stage = "running" /\ file # NoImage => uploading

\* However often setup() restarts the bridge, it comes to run: a firmware file
\* does not make it flash and restart for ever.
BootEnds == []<>(stage = "running")
=============================================================================
