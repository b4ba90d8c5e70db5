---------------------------- MODULE MCConfigStore ----------------------------
(* The instance of ConfigStore for TLC: a record of each kind, NTP on and off.   *)
EXTENDS ConfigStore

MCValues == [system |-> {"s1"}, wifi |-> {"w1"}, mqtt |-> {"m1"},
             web |-> {"p1"}, ntp |-> {"n1", Off}]
\* The version bytes the flash starts with.
MCAnyStart == {CheckSum, Old, NoVersion}
=============================================================================
