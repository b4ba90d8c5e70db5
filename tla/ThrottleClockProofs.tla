------------------------ MODULE ThrottleClockProofs ------------------------
(***************************************************************************)
(* The throttle of ThrottleClock, for a clock of any width and any period  *)
(* that is shorter than a round of it.                                     *)
(***************************************************************************)
EXTENDS ThrottleClock, TLAPS

-----------------------------------------------------------------------------
(* The difference of two readings. *)

\* The unsigned difference is the way forward from the one reading to the other.
LEMMA Difference ==
    ASSUME NEW m \in Nat, m > 0, NEW a \in 0 .. m - 1, NEW b \in 0 .. m - 1
    PROVE  (a - b) % m = IF a >= b THEN a - b ELSE a - b + m
    OBVIOUS

LEMMA NothingPassed ==
    ASSUME NEW m \in Nat, m > 0, NEW a \in 0 .. m - 1
    PROVE  (a - a) % m = 0
<1>1. (a - a) % m = IF a >= a THEN a - a ELSE a - a + m
    BY Difference
<1>2. a \in Int
    OBVIOUS
<1>3. a - a = 0
    BY <1>2
<1> QED BY <1>1, <1>2, <1>3

LEMMA NextReading ==
    ASSUME NEW m \in Nat, m > 0, NEW a \in 0 .. m - 1
    PROVE  (a + 1) % m = IF a + 1 = m THEN 0 ELSE a + 1
    OBVIOUS
LEMMA DiffIsWayForward ==
    ASSUME now \in Readings, stamp \in Readings
    PROVE  /\ diff = IF now >= stamp THEN now - stamp ELSE now - stamp + Modulus
           /\ diff \in Readings
<1>1. /\ now \in 0 .. Modulus - 1 /\ stamp \in 0 .. Modulus - 1
      /\ Modulus \in Nat /\ Modulus > 0
    BY ThrottleAssumption DEF Readings
<1>2. diff = IF now >= stamp THEN now - stamp ELSE now - stamp + Modulus
    BY <1>1, Difference DEF diff
<1> QED BY <1>1, <1>2 DEF Readings

-----------------------------------------------------------------------------
(* The invariant. *)

\* An update has waited at most since the last export, as far as the clock shows;
\* and the clock shows an export no longer ago than it is.
ClockInv ==
    /\ now \in Readings /\ stamp \in Readings /\ updated \in BOOLEAN
    /\ waited \in 0 .. MaxWait /\ since \in 0 .. MaxWait
    /\ WaitBounded
    /\ waited > 0 => updated /\ waited <= diff
    /\ stamp # 0 => diff <= since \/ since = MaxWait

LEMMA ClockInit == Init => ClockInv
<1> SUFFICES ASSUME Init PROVE ClockInv
    OBVIOUS
<1>1. 0 \in Readings
    BY ThrottleAssumption DEF Readings
<1>2. waited = 0 /\ since = MaxWait /\ stamp = 0 /\ now \in Readings
    BY DEF Init
<1>3. updated \in BOOLEAN
    BY DEF Init
<1>4. 0 \in 0 .. MaxWait /\ MaxWait \in 0 .. MaxWait /\ 0 <= Period + 1
    BY ThrottleAssumption
<1> QED BY <1>1, <1>2, <1>3, <1>4 DEF ClockInv, WaitBounded

\* A reading on, the difference is one more, or has come round to nothing.
LEMMA DiffAfterTick ==
    ASSUME ClockInv, Tick
    PROVE  /\ now' \in Readings
           /\ diff' = IF diff + 1 = Modulus THEN 0 ELSE diff + 1
<1>1. /\ now \in 0 .. Modulus - 1 /\ stamp \in 0 .. Modulus - 1
      /\ Modulus \in Nat /\ Modulus > 0 /\ stamp' = stamp
    BY ThrottleAssumption DEF ClockInv, Readings, Tick
<1>2. now' = IF now + 1 = Modulus THEN 0 ELSE now + 1
    BY <1>1, NextReading DEF Tick
<1>3. now' \in 0 .. Modulus - 1
    BY <1>1, <1>2
<1>4. diff = IF now >= stamp THEN now - stamp ELSE now - stamp + Modulus
    BY <1>1, Difference DEF diff
<1>5. diff' = IF now' >= stamp' THEN now' - stamp' ELSE now' - stamp' + Modulus
    BY <1>1, <1>3, Difference DEF diff
<1> QED BY <1>1, <1>2, <1>3, <1>4, <1>5 DEF Readings

LEMMA CappedBounds ==
    ASSUME NEW n \in Nat
    PROVE  Capped(n) \in 0 .. MaxWait /\ Capped(n) <= n /\ (Capped(n) = n \/ Capped(n) = MaxWait)
    BY ThrottleAssumption DEF Capped

\* An update that is not ready has a stamp and a period, and the clock has not come
\* round since the export: the next reading is one more.
LEMMA ClockTick ==
    ASSUME ClockInv, Tick
    PROVE  ClockInv'
<1>1. /\ now' \in Readings /\ stamp' = stamp /\ updated' = updated
      /\ stamp \in Readings /\ updated \in BOOLEAN /\ diff \in 0 .. Modulus - 1
    BY DiffAfterTick, DiffIsWayForward DEF ClockInv, Tick, Readings
<1>2. diff' = IF diff + 1 = Modulus THEN 0 ELSE diff + 1
    BY DiffAfterTick
<1>3. waited \in 0 .. MaxWait /\ since \in 0 .. MaxWait
    BY DEF ClockInv
<1>4. waited' \in 0 .. MaxWait /\ WaitBounded' /\ (waited' > 0 => updated' /\ waited' <= diff')
    <2>1. CASE ~updated
        BY <1>1, <2>1, ThrottleAssumption DEF Tick, WaitBounded
    <2>2. CASE updated
        <3>1. diff <= Period
            BY <1>1, <2>2, ThrottleAssumption DEF Tick, readyForMqttExport
        <3>2. waited <= diff
            BY <1>1, <1>3 DEF ClockInv
        <3>3. diff' = diff + 1
            BY <1>1, <1>2, <3>1, ThrottleAssumption
        <3>4. waited' = Capped(waited + 1)
            BY <2>2 DEF Tick
        <3>5. waited' \in 0 .. MaxWait /\ waited' <= waited + 1
            BY <1>3, <3>4, CappedBounds, waited + 1 \in Nat
        <3> QED BY <1>1, <1>3, <2>2, <3>1, <3>2, <3>3, <3>5, ThrottleAssumption DEF WaitBounded
    <2> QED BY <2>1, <2>2
<1>5. since' \in 0 .. MaxWait /\ (stamp' # 0 => diff' <= since' \/ since' = MaxWait)
    <2>1. since' = Capped(since + 1)
        BY DEF Tick
    <2>2. since' \in 0 .. MaxWait /\ (since' = since + 1 \/ since' = MaxWait)
        BY <1>3, <2>1, CappedBounds, since + 1 \in Nat
    <2>3. diff' <= diff + 1
        BY <1>1, <1>2, ThrottleAssumption
    <2>4. stamp # 0 => diff <= since \/ since = MaxWait
        BY DEF ClockInv
    <2>5. since = MaxWait => since' = MaxWait
        BY <1>3, <2>1, ThrottleAssumption DEF Capped
    <2>6. diff' \in Int
        BY <1>1, <1>2, ThrottleAssumption
    <2> QED BY <1>1, <1>3, <2>2, <2>3, <2>4, <2>5, <2>6, ThrottleAssumption
<1> QED BY <1>1, <1>4, <1>5 DEF ClockInv

LEMMA ClockOthers ==
    ASSUME ClockInv, NewValue \/ Export \/ UNCHANGED vars
    PROVE  ClockInv'
<1>1. CASE NewValue
    <2>1. diff' = diff /\ waited = 0
        BY <1>1 DEF NewValue, diff, ClockInv
    <2> QED BY <1>1, <2>1 DEF NewValue, ClockInv, WaitBounded
<1>2. CASE Export
    <2>1. now' = stamp' /\ stamp' \in Readings /\ waited' = 0 /\ since' = 0 /\ updated' = FALSE
        BY <1>2 DEF Export, ClockInv
    <2>2. diff' = 0
        <3>1. stamp' \in 0 .. Modulus - 1 /\ Modulus \in Nat /\ Modulus > 0 /\ now' = stamp'
            BY <2>1, ThrottleAssumption DEF Readings
        <3>2. (stamp' - stamp') % Modulus = 0
            BY <3>1, NothingPassed
        <3> QED BY <3>1, <3>2 DEF diff
    <2>3. updated' \in BOOLEAN
        BY <2>1
    <2>4. 0 \in 0 .. MaxWait /\ 0 <= Period + 1
        BY ThrottleAssumption
    <2> QED BY <2>1, <2>2, <2>3, <2>4 DEF ClockInv, WaitBounded
<1>3. CASE UNCHANGED vars
    BY <1>3 DEF vars, ClockInv, WaitBounded, diff
<1> QED BY <1>1, <1>2, <1>3

LEMMA ClockAlways == Spec => []ClockInv
<1>1. Init => ClockInv
    BY ClockInit
<1>2. ClockInv /\ [Next]_vars => ClockInv'
    BY ClockTick, ClockOthers DEF Next
<1> QED BY <1>1, <1>2, PTL DEF Spec

-----------------------------------------------------------------------------
(* The theorems. *)

\* No update of a throttled register waits longer than its period and a tick, for
\* any clock and any period shorter than a round of it: an old stamp may look
\* recent after the clock came round, but it is not new again before the update
\* is ready (readyForMqttExport(), register.h).
THEOREM UpdatesWaitForPeriod == Spec => []WaitBounded
<1>1. ClockInv => WaitBounded
    BY DEF ClockInv
<1> QED BY <1>1, ClockAlways, PTL

\* Exports of a throttled register are more than its period apart, unless the last
\* one got the stamp 0: the clock never shows more than has passed.  (Period 0 is
\* no throttle; the history counts further than the period.)
THEOREM ExportsAreSpaced ==
    ASSUME Period > 0, MaxWait > Period
    PROVE  Spec => ExportsSpaced
<1>1. ASSUME ClockInv, [Next]_vars
      PROVE  [Export /\ stamp # 0 => since > Period]_vars
    <2> SUFFICES ASSUME Export, stamp # 0 PROVE since > Period
        OBVIOUS
    <2>1. diff > Period
        BY ThrottleAssumption DEF Export, readyForMqttExport
    <2>3. diff \in Int
        BY <1>1, DiffIsWayForward, ThrottleAssumption DEF ClockInv, Readings
    <2>2. since \in Int /\ (diff <= since \/ since = MaxWait)
        BY <1>1 DEF ClockInv
    <2> QED BY <2>1, <2>2, <2>3, ThrottleAssumption
<1> QED BY <1>1, ClockAlways, PTL DEF Spec, ExportsSpaced
=============================================================================
