--------------------------- MODULE MCSessionExport ---------------------------
(* The instance of SessionExport for TLC: two blocks of one register, each of   *)
(* which fills a pass.                                                          *)
EXTENDS SessionExport

CONSTANTS a, b

MCConfigs == {a, b}
MCLen == <<1, 1>>
MCThrottled == {}
MCWriteable == {<<1, 0>>}
=============================================================================
