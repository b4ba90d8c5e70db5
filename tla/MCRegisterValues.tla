-------------------------- MODULE MCRegisterValues --------------------------
(* An instance of RegisterValues for TLC: the whole register table. *)
EXTENDS RegisterValues

\* All levels, months, days, frost protection from 7 to 12 degrees, and -40.4 degrees.
MCUnitValues == {-404} \cup (-3 .. 24) \cup {59} \cup (68 .. 122)

\* Off, on, another level, a year, frost protection at 7.5 degrees.
MCPanelValues == {0, 1, 2, 24, 75}

\* A word of each kind; on and off in both cases.
MCWords == {"on", "ON", "OFF", "true", "false", "none", "electrical", "speed", "m3", "x"}

\* 0, 1, 2, 7.5, 9, 12, 22, 71.5, 90, 165, 2024, -1; -404, which is VAL_INVALID; 65132 and
\* 67000, of which 16 bits are -404, and -536 once 2000 is taken off.
MCNumbers == {0, 100, 200, 750, 900, 1200, 2200, 7150, 9000, 16500, 202400, -100,
              -40400, 6513200, 6700000}
=============================================================================
