--------------------------- MODULE ThrottleClock ---------------------------
(***************************************************************************)
(* The throttling of MQTT exports of one register: readyForMqttExport()    *)
(* compares two clock readings, in ticks of 256 ms.  In the code they are  *)
(* of 16 bits, Modulus = 65536: the clock comes round every 4.7 hours.     *)
(***************************************************************************)
EXTENDS Integers

CONSTANTS
    Modulus,        \* values m_mqtt_timestamp_256ms can have
    Period,         \* m_mqtt_period_256ms
    MaxWait         \* bound: the history counters stop here

Readings == 0 .. Modulus - 1

\* With the longest period of all, a stamped register would never be ready.
ASSUME ThrottleAssumption ==
    /\ Modulus \in Nat \ {0, 1}
    /\ Period \in 0 .. Modulus - 2
    /\ MaxWait \in Nat

VARIABLES
    now,            \* MsTo256ms(millis())
    stamp,          \* m_mqtt_timestamp_256ms
    updated,        \* FLG_VALUE_UPDATED
    waited,         \* history: ticks since the flag was raised
    since           \* history: ticks since the last export, MaxWait: long ago

vars == <<now, stamp, updated, waited, since>>

\* Mutant of diff: subtracted as signed numbers.
SignedDiff == now - stamp

\* uint16_t diff = tm - m_mqtt_timestamp_256ms
diff == (now - stamp) % Modulus

\* Mutant of readyForMqttExport: ready as soon as the period is reached.
ReadyOneTickEarly ==
    updated /\ (Period = 0 \/ stamp = 0 \/ diff >= Period)

readyForMqttExport ==
    updated /\ (Period = 0 \/ stamp = 0 \/ diff > Period)

Init ==
    /\ now \in Readings /\ stamp = 0 /\ updated = FALSE
    /\ waited = 0 /\ since = MaxWait

Capped(n) == IF n < MaxWait THEN n ELSE MaxWait

\* The visitor passes several times per tick: a ready register does not see the
\* next tick.
Tick ==
    /\ ~readyForMqttExport
    /\ now' = (now + 1) % Modulus
    /\ waited' = IF updated THEN Capped(waited + 1) ELSE 0
    /\ since' = Capped(since + 1)
    /\ UNCHANGED <<stamp, updated>>

\* Register::setValue()
NewValue ==
    /\ ~updated /\ updated' = TRUE
    /\ UNCHANGED <<now, stamp, waited, since>>

\* MQTTUpdateVisitor::visit(), confirmUpdate()
Export ==
    /\ readyForMqttExport
    /\ updated' = FALSE /\ stamp' = now
    /\ waited' = 0 /\ since' = 0
    /\ UNCHANGED now

Next == Tick \/ NewValue \/ Export

Spec == Init /\ [][Next]_vars

-----------------------------------------------------------------------------
\* No update waits longer than the period, however often the clock came round
\* since the last export: an old stamp may look recent, but not for long.
WaitBounded == waited <= Period + 1

\* Exports are more than the period apart, unless the last one fell on the tick
\* where the clock reads 0, which the code takes for "no timestamp set yet".
ExportsSpaced ==
    [][Export /\ stamp # 0 => since > Period]_vars
=============================================================================
