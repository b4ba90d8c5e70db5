---------------------------- MODULE MCMqttSession ----------------------------
(* The instance of MqttSession for TLC: two configurations, and retry periods   *)
(* of one and three ticks.                                                      *)
EXTENDS MqttSession

CONSTANTS a, b

MCConfigs == {a, b}
MCShortRetry == 1
MCLongRetry == 3
=============================================================================
