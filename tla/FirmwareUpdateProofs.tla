------------------------ MODULE FirmwareUpdateProofs ------------------------
(***************************************************************************)
(* What FirmwareUpdate says of the firmware file, for any images, any      *)
(* number of pieces, of uploads and of resets.                             *)
(***************************************************************************)
EXTENDS FirmwareUpdate, TLAPS

\* The file is gone, or of this start, from where setup() has looked for it; it is
\* open only while the program that opened it runs; and an upload can have been
\* received whole only after the one and only file was opened, and closed again.
FileInv ==
    /\ stage = "running" /\ file # NoImage => uploading
    /\ uploading => stage = "running"
    /\ open => uploading
    /\ ended => uploading /\ ~open

LEMMA FileInit == Init => FileInv
    BY DEF Init, FileInv

LEMMA SetupKeeps ==
    ASSUME FileInv, SetupNext
    PROVE  FileInv'
<1> USE DEF FileInv
<1>1. CASE NothingToFlash
    BY <1>1 DEF NothingToFlash, SetupStep
<1>2. CASE FoundFirmware
    BY <1>2 DEF FoundFirmware, SetupStep
<1>3. CASE Flash
    BY <1>3 DEF Flash, SetupStep
<1>4. CASE RemoveFirmware
    BY <1>4 DEF RemoveFirmware, SetupStep
<1>5. CASE RestartAfterFlash
    BY <1>5 DEF RestartAfterFlash, Restarted
<1> QED BY <1>1, <1>2, <1>3, <1>4, <1>5 DEF SetupNext

LEMMA UploadKeeps ==
    ASSUME FileInv, UploadNext
    PROVE  FileInv'
<1> USE DEF FileInv, received, bounds
<1>1. ASSUME NEW image \in Images, UploadStart(image)
      PROVE  FileInv'
    <2>1. FileStart
        BY <1>1 DEF UploadStart
    <2>2. stage = "running" /\ stage' = stage /\ ended' = ended
        BY <1>1 DEF UploadStart
    <2>3. CASE UNCHANGED <<file, open, uploading>>
        BY <2>2, <2>3
    <2>4. CASE MayStart /\ open' = TRUE /\ uploading' = TRUE
        BY <2>2, <2>4 DEF MayStart
    <2> QED BY <2>1, <2>3, <2>4 DEF FileStart
<1>2. CASE UploadWrite
    <2>1. open \/ file' = file
        BY <1>2 DEF UploadWrite
    <2> QED BY <1>2, <2>1 DEF UploadWrite
<1>3. CASE UploadEnd
    <2>1. open' = FALSE /\ ended' = (ended \/ open) /\ UNCHANGED <<stage, file, uploading>>
        BY <1>3 DEF UploadEnd
    <2> QED BY <2>1, Zenon
<1>4. CASE UploadAborted
    BY <1>4 DEF UploadAborted
<1> QED BY <1>1, <1>2, <1>3, <1>4 DEF UploadNext

LEMMA RestartKeeps ==
    ASSUME FileInv, restartPost \/ restartWaitHtml \/ Reset
    PROVE  FileInv'
    BY DEF FileInv, restartPost, restartWaitHtml, Reset, Restarted, received, bounds

LEMMA FileStutter ==
    ASSUME FileInv, UNCHANGED vars
    PROVE  FileInv'
    BY DEF FileInv, vars

LEMMA FileAlways == UpdateSpec => []FileInv
<1>1. Init => FileInv
    BY FileInit
<1>2. FileInv /\ [Next]_vars => FileInv'
    BY SetupKeeps, UploadKeeps, RestartKeeps, FileStutter DEF Next
<1> QED BY <1>1, <1>2, PTL DEF UpdateSpec

\* While the program runs there is no firmware file but one uploaded since it
\* started: setup() has removed what it flashed or could not flash.
THEOREM NothingIsLeftOver == UpdateSpec => []NoLeftover
<1>1. FileInv => NoLeftover
    BY DEF FileInv, NoLeftover
<1> QED BY <1>1, FileAlways, PTL

\* The file of an upload that was received whole is changed by no request: the
\* flag uploading, which is never taken back, keeps it from being opened again.
THEOREM ReceivedStays == UpdateSpec => ReceivedIsKept
<1>1. ASSUME FileInv, [Next]_vars
      PROVE  [ended /\ stage' = "running" => file' = file]_vars
    <2> SUFFICES ASSUME Next, ended, stage' = "running" PROVE file' = file
        BY <1>1
    <2>1. ended /\ uploading /\ ~open /\ stage = "running"
        BY <1>1 DEF FileInv
    <2>2. CASE SetupNext
        BY <2>1, <2>2
        DEF SetupNext, NothingToFlash, FoundFirmware, Flash, RemoveFirmware, SetupStep,
            RestartAfterFlash
    <2>3. ASSUME NEW image \in Images, UploadStart(image)
          PROVE  file' = file
        BY <2>1, <2>3 DEF UploadStart, FileStart, MayStart
    <2>4. CASE UploadWrite \/ UploadEnd \/ UploadAborted
        BY <2>1, <2>4 DEF UploadWrite, UploadEnd, UploadAborted
    <2>5. CASE restartPost \/ restartWaitHtml \/ Reset
        BY <2>5 DEF restartPost, restartWaitHtml, Reset, Restarted
    <2> QED BY <1>1, <2>2, <2>3, <2>4, <2>5 DEF Next, UploadNext
<1> QED BY <1>1, FileAlways, PTL DEF UpdateSpec, ReceivedIsKept

-----------------------------------------------------------------------------
(* Types.  The size of the file is bounded by the pieces received. *)

\* The pieces of the upload that are still to come.
ToCome == IF upload = NoImage THEN 0 ELSE Chunks - piece

IsFile(f) == f \in Seq(Pieces) /\ Len(f) + ToCome <= uploads * Chunks

StateTypeOK ==
    /\ stage \in {"boot", "flashing", "flashed", "failed", "restart", "running"}
    /\ open \in BOOLEAN /\ uploading \in BOOLEAN
    /\ performRestart \in BOOLEAN /\ ended \in BOOLEAN

ReceivedTypeOK ==
    /\ upload \in Images \cup {NoImage} /\ piece \in 0 .. Chunks
    /\ upload = NoImage => piece = 0
    /\ uploads \in 0 .. MaxUploads

\* The file never holds more pieces than were received since power-on, and leaves
\* room for those to come, though it may have pieces of several uploads in it.
SizeInv ==
    /\ StateTypeOK /\ ReceivedTypeOK
    /\ IsFile(file) \/ (file = NoImage /\ ~open)

LEMMA Product ==
    ASSUME NEW m \in Nat, NEW n \in Nat, NEW c \in Nat
    PROVE  /\ m * c \in Nat /\ (m + 1) * c = m * c + c
           /\ m <= n => m * c <= n * c
    OBVIOUS

LEMMA ToComeTypes == ReceivedTypeOK => ToCome \in Nat
    BY UpdateAssumption DEF ToCome, ReceivedTypeOK

\* The size TypeOK says is that of as many uploads as there may be.
LEMMA SizeImpliesTypes == SizeInv => TypeOK
<1> SUFFICES ASSUME SizeInv PROVE TypeOK
    OBVIOUS
<1>1. CASE IsFile(file)
    <2>1. uploads * Chunks \in Nat /\ MaxUploads * Chunks \in Nat
          /\ uploads * Chunks <= MaxUploads * Chunks
        BY UpdateAssumption, Product DEF SizeInv, ReceivedTypeOK
    <2>2. ToCome \in Nat
        BY ToComeTypes DEF SizeInv
    <2>3. file \in Seq(Pieces) /\ Len(file) \in Nat /\ Len(file) + ToCome <= uploads * Chunks
        BY <1>1 DEF IsFile
    <2>4. Len(file) <= MaxUploads * Chunks
        BY <2>1, <2>2, <2>3
    <2> QED BY <2>3, <2>4 DEF SizeInv, StateTypeOK, ReceivedTypeOK, TypeOK
<1>2. CASE file = NoImage
    BY <1>2 DEF SizeInv, StateTypeOK, ReceivedTypeOK, TypeOK
<1> QED BY <1>1, <1>2 DEF SizeInv

LEMMA SizeInit == Init => SizeInv
<1> SUFFICES ASSUME Init PROVE SizeInv
    OBVIOUS
<1>1. StateTypeOK /\ file = NoImage /\ ~open
    BY DEF Init, StateTypeOK
<1>2. ReceivedTypeOK
    BY UpdateAssumption DEF Init, ReceivedTypeOK
<1> QED BY <1>1, <1>2 DEF SizeInv

\* A step that receives no piece: the file stays, goes, or is cut.
LEMMA SizeKept ==
    ASSUME SizeInv, StateTypeOK', ReceivedTypeOK', UNCHANGED uploads,
           UNCHANGED <<upload, piece>> \/ upload' = NoImage,
           \/ file' = file /\ (open' => open)
           \/ file' = NoImage /\ ~open'
           \/ open /\ \E n \in 0 .. Len(file) : file' = SubSeq(file, 1, n)
    PROVE  SizeInv'
<1>1. ToCome \in Nat /\ ToCome' \in Nat
    BY ToComeTypes DEF SizeInv, ReceivedTypeOK, ToCome
<1>2. ToCome' <= ToCome
    <2>1. CASE UNCHANGED <<upload, piece>>
        BY <1>1, <2>1 DEF ToCome
    <2>2. CASE upload' = NoImage
        BY <1>1, <2>2 DEF ToCome
    <2> QED BY <2>1, <2>2
<1>3. uploads * Chunks \in Nat /\ uploads' = uploads
    BY UpdateAssumption, Product DEF SizeInv, ReceivedTypeOK
<1>4. CASE file' = file /\ (open' => open)
    <2>1. CASE IsFile(file)
        <3>1. Len(file) \in Nat
            BY <2>1 DEF IsFile
        <3>2. IsFile(file)'
            BY <1>1, <1>2, <1>3, <1>4, <2>1, <3>1 DEF IsFile
        <3> QED BY <3>2 DEF SizeInv
    <2>2. CASE file = NoImage /\ ~open
        BY <1>4, <2>2 DEF SizeInv
    <2> QED BY <2>1, <2>2 DEF SizeInv
<1>5. CASE file' = NoImage /\ ~open'
    BY <1>5 DEF SizeInv
<1>6. CASE open /\ \E n \in 0 .. Len(file) : file' = SubSeq(file, 1, n)
    <2>1. IsFile(file)
        BY <1>6 DEF SizeInv
    <2>2. file \in Seq(Pieces) /\ Len(file) \in Nat /\ Len(file) + ToCome <= uploads * Chunks
        BY <2>1 DEF IsFile
    <2>3. PICK n \in 0 .. Len(file) : file' = SubSeq(file, 1, n)
        BY <1>6
    <2>4. file' \in Seq(Pieces) /\ Len(file') = n
        BY <2>2, <2>3
    <2>5. IsFile(file)'
        BY <1>1, <1>2, <1>3, <2>2, <2>3, <2>4 DEF IsFile
    <2> QED BY <2>5 DEF SizeInv
<1> QED BY <1>4, <1>5, <1>6

LEMMA SizeUploadStart ==
    ASSUME SizeInv, NEW image \in Images, UploadStart(image)
    PROVE  SizeInv'
<1>1. /\ upload = NoImage /\ upload' = image /\ piece' = 0
      /\ uploads' = uploads + 1 /\ uploads < MaxUploads
      /\ UNCHANGED <<stage, performRestart, ended>>
    BY DEF UploadStart
<1>2. FileStart
    BY DEF UploadStart
<1>3. StateTypeOK'
    BY <1>1, <1>2 DEF FileStart, SizeInv, StateTypeOK
<1>4. ReceivedTypeOK'
    BY <1>1, UpdateAssumption DEF SizeInv, ReceivedTypeOK
<1>5. uploads * Chunks \in Nat /\ uploads' * Chunks = uploads * Chunks + Chunks
    BY <1>1, UpdateAssumption, Product DEF SizeInv, ReceivedTypeOK
<1>6. ToCome = 0 /\ ToCome' = Chunks
    BY <1>1, UpdateAssumption DEF ToCome
<1>7. CASE file' = <<>>
    <2>1. IsFile(file)'
        BY <1>5, <1>6, <1>7, UpdateAssumption DEF IsFile
    <2> QED BY <1>3, <1>4, <2>1 DEF SizeInv
<1>8. CASE UNCHANGED <<file, open>>
    <2>1. CASE IsFile(file)
        <3>1. Len(file) \in Nat
            BY <2>1 DEF IsFile
        <3>2. IsFile(file)'
            BY <1>5, <1>6, <1>8, <2>1, <3>1, UpdateAssumption DEF IsFile
        <3> QED BY <1>3, <1>4, <3>2 DEF SizeInv
    <2>2. CASE file = NoImage /\ ~open
        BY <1>3, <1>4, <1>8, <2>2 DEF SizeInv
    <2> QED BY <2>1, <2>2 DEF SizeInv
<1> QED BY <1>2, <1>7, <1>8 DEF FileStart

LEMMA SizeUploadWrite ==
    ASSUME SizeInv, UploadWrite
    PROVE  SizeInv'
<1>1. /\ upload \in Images /\ upload # NoImage /\ piece < Chunks /\ piece' = piece + 1
      /\ UNCHANGED <<stage, open, uploading, upload, performRestart, ended, uploads>>
    BY DEF UploadWrite, bounds, SizeInv, ReceivedTypeOK
<1>2. StateTypeOK' /\ ReceivedTypeOK'
    BY <1>1, UpdateAssumption DEF SizeInv, StateTypeOK, ReceivedTypeOK
<1>3. piece \in Nat /\ Chunks \in Nat /\ uploads * Chunks \in Nat
    BY UpdateAssumption, Product DEF SizeInv, ReceivedTypeOK
<1>4. ToCome = Chunks - piece /\ ToCome' = Chunks - (piece + 1)
    BY <1>1 DEF ToCome
<1>5. CASE IsFile(file)
    <2>1. file \in Seq(Pieces) /\ Len(file) \in Nat /\ Len(file) + ToCome <= uploads * Chunks
        BY <1>5 DEF IsFile
    <2>2. file' = file \/ file' = Append(file, <<upload, piece'>>)
        BY DEF UploadWrite
    <2>3. <<upload, piece'>> \in Pieces
        BY <1>1, <1>3 DEF Pieces
    <2>4. file' \in Seq(Pieces) /\ Len(file') <= Len(file) + 1 /\ Len(file') \in Nat
        <3>1. CASE file' = file
            BY <2>1, <3>1
        <3>2. CASE file' = Append(file, <<upload, piece'>>)
            <4>1. Append(file, <<upload, piece'>>) \in Seq(Pieces)
                BY <2>1, <2>3
            <4>2. Len(Append(file, <<upload, piece'>>)) = Len(file) + 1
                BY <2>1, <2>3
            <4> HIDE <2>3
            <4> QED BY <2>1, <3>2, <4>1, <4>2
        <3> QED BY <2>2, <3>1, <3>2
    <2>5. IsFile(file)'
        BY <1>1, <1>3, <1>4, <2>1, <2>4 DEF IsFile
    <2> QED BY <1>2, <2>5 DEF SizeInv
<1>6. CASE file = NoImage /\ ~open
    BY <1>1, <1>2, <1>6 DEF UploadWrite, SizeInv
<1> QED BY <1>5, <1>6 DEF SizeInv

LEMMA SizeStep ==
    ASSUME FileInv, SizeInv, [Next]_vars
    PROVE  SizeInv'
<1>1. CASE SetupNext \/ restartPost \/ restartWaitHtml \/ Reset \/ UNCHANGED vars
    <2>1. UNCHANGED <<upload, piece, uploads>> \/ (upload' = NoImage /\ piece' = 0 /\ UNCHANGED uploads)
        BY <1>1
        DEF SetupNext, NothingToFlash, FoundFirmware, Flash, RemoveFirmware, SetupStep,
            RestartAfterFlash, Restarted, restartPost, restartWaitHtml, Reset, received, bounds, vars
    <2>2. StateTypeOK'
        BY <1>1
        DEF SizeInv, StateTypeOK, SetupNext, NothingToFlash, FoundFirmware, Flash, RemoveFirmware,
            SetupStep, RestartAfterFlash, Restarted, restartPost, restartWaitHtml, Reset, vars
    <2>3. ReceivedTypeOK'
        BY <2>1, UpdateAssumption DEF SizeInv, ReceivedTypeOK
    <2>4. \/ file' = file /\ (open' => open)
          \/ file' = NoImage /\ ~open'
          \/ open /\ \E n \in 0 .. Len(file) : file' = SubSeq(file, 1, n)
        <3>1. CASE NothingToFlash \/ RemoveFirmware
            <4>1. stage # "running" /\ file' = NoImage /\ open' = open
                BY <3>1 DEF NothingToFlash, RemoveFirmware, SetupStep
            <4> QED BY <4>1 DEF FileInv
        <3>2. CASE FoundFirmware \/ Flash \/ restartPost \/ UNCHANGED vars
            BY <3>2 DEF FoundFirmware, Flash, SetupStep, restartPost, vars
        <3>3. CASE RestartAfterFlash \/ restartWaitHtml \/ Reset
            <4>1. Restarted
                BY <3>3 DEF RestartAfterFlash, restartWaitHtml, Reset
            <4>2. CASE open
                BY <4>1, <4>2 DEF Restarted
            <4>3. CASE ~open
                BY <4>1, <4>3 DEF Restarted
            <4> QED BY <4>2, <4>3
        <3> QED BY <1>1, <3>1, <3>2, <3>3 DEF SetupNext
    <2> QED BY <2>1, <2>2, <2>3, <2>4, SizeKept
<1>2. CASE UploadEnd \/ UploadAborted
    <2>1. upload' = NoImage /\ piece' = 0 /\ UNCHANGED <<file, uploads>> /\ (open' => open)
        BY <1>2 DEF UploadEnd, UploadAborted, bounds
    <2>2. ended' \in BOOLEAN
        BY <1>2 DEF UploadEnd, UploadAborted, SizeInv, StateTypeOK
    <2>3. StateTypeOK'
        BY <1>2, <2>2 DEF UploadEnd, UploadAborted, SizeInv, StateTypeOK
    <2>4. ReceivedTypeOK'
        BY <2>1, UpdateAssumption DEF SizeInv, ReceivedTypeOK
    <2> QED BY <2>1, <2>3, <2>4, SizeKept
<1> QED BY <1>1, <1>2, SizeUploadStart, SizeUploadWrite DEF Next, UploadNext

\* The firmware file is of pieces that were sent, and of no more than were: whatever
\* is aborted, refused or appended to a file left open, it does not outgrow what
\* was uploaded since power-on.
THEOREM FileTypes == UpdateSpec => []TypeOK
<1>1. Init => SizeInv
    BY SizeInit
<1>2. FileInv /\ SizeInv /\ [Next]_vars => SizeInv'
    BY SizeStep
<1> QED BY <1>1, <1>2, FileAlways, SizeImpliesTypes, PTL DEF UpdateSpec
=============================================================================
