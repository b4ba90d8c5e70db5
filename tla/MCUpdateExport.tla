--------------------------- MODULE MCUpdateExport ---------------------------
(* A small instance of UpdateExport for TLC. *)
EXTENDS UpdateExport

\* The first block alone can fill a pass of three messages.
MCLen == <<3, 2>>
MCThrottled == {<<2, 1>>}
MCWriteable == {<<1, 1>>, <<2, 0>>}
=============================================================================
