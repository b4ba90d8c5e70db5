-------------------------- MODULE MCFirmwareUpdate --------------------------
(* The instance of FirmwareUpdate for TLC: two images in two pieces.           *)
EXTENDS FirmwareUpdate

CONSTANTS imageA, imageB

MCImages == {imageA, imageB}
=============================================================================
