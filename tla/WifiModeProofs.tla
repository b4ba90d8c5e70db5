--------------------------- MODULE WifiModeProofs ---------------------------
(***************************************************************************)
(* That the types, the DNS server and the way back to the setup page are   *)
(* invariants of WifiMode, for every retry period, press time and number   *)
(* of forms.  None of the three alone is inductive: an attempt to connect  *)
(* leaves the DNS server as it is and starts from a mode that is not the   *)
(* access point, and such a mode is what a configuration is known by.      *)
(***************************************************************************)
EXTENDS WifiMode, TLAPS

IInv == TypeOK /\ DnsWithAccessPoint /\ UnconfiguredIsReachable

\* What a call of WiFi_connect() may do to the radio when it is not an access
\* point: TypeOK's part of it, and the two others, for a record that stays.
LEMMA ConnectKeeps ==
    ASSUME IInv, mode # "ap", WiFi_connect
    PROVE  /\ mode' \in {"off", "sta", "ap"} /\ {status', dns', mdns'} \subseteq BOOLEAN
           /\ elapsed' \in 0 .. Timeout
           /\ dns' <=> mode' = "ap"
<1> USE DEF IInv, TypeOK, DnsWithAccessPoint
<1>1. elapsed' \in 0 .. Timeout
    BY WifiAssumption DEF WiFi_connect, TimeNoted
<1>2. CASE UNCHANGED <<mode, status, dns, mdns>>
    BY <1>1, <1>2
<1>3. CASE Answers
    BY <1>1, <1>3 DEF Answers
<1>4. CASE EnterAccessPoint
    BY <1>1, <1>4 DEF EnterAccessPoint
<1>5. CASE BeginStation /\ UNCHANGED dns
    BY <1>1, <1>5 DEF BeginStation
<1> QED BY <1>2, <1>3, <1>4, <1>5 DEF WiFi_connect

\* What swapWifiMode() may do to the radio in any mode.
LEMMA SwapKeeps ==
    ASSUME IInv, swapWifiMode
    PROVE  /\ mode' \in {"off", "sta", "ap"} /\ {status', dns', mdns'} \subseteq BOOLEAN
           /\ elapsed' \in 0 .. Timeout
           /\ dns' <=> mode' = "ap"
           /\ ~hasConfig => mode' = "ap"
<1> USE DEF IInv, TypeOK, DnsWithAccessPoint
<1>1. elapsed' \in 0 .. Timeout
    BY WifiAssumption DEF swapWifiMode, LeaveAccessPoint, TimeNoted
<1>2. CASE EnterAccessPoint
    BY <1>1, <1>2 DEF EnterAccessPoint
<1>3. CASE hasConfig /\ mode' \in {"off", "sta"} /\ status' = FALSE /\ dns' = FALSE /\ mdns' \in BOOLEAN
    BY <1>1, <1>3
<1> QED BY <1>2, <1>3 DEF swapWifiMode, LeaveAccessPoint, BeginStation

LEMMA InitEstablishes == Init => IInv
<1> SUFFICES ASSUME Init PROVE IInv
    OBVIOUS
<1>1. mode = (IF record = "set" THEN "sta" ELSE "ap") /\ dns = (record # "set")
    BY DEF Init
<1>2. dns \in BOOLEAN
    BY <1>1, Zenon
<1>3. mode \in {"sta", "ap"} /\ (dns <=> mode = "ap")
    BY <1>1
<1>4. elapsed \in 0 .. Timeout /\ held \in 0 .. LongPress + 1 /\ saves \in 0 .. MaxSaves
    BY WifiAssumption DEF Init
<1>5. /\ record \in {"none", "empty", "set"} /\ pc \in {"button", "network"}
      /\ {status, mdns, wifiConnected, pressed, present} \subseteq BOOLEAN
      /\ {buttonActive, longPressActive} \subseteq BOOLEAN
    BY DEF Init
<1>6. TypeOK
    BY <1>2, <1>3, <1>4, <1>5 DEF TypeOK
<1>7. ~hasConfig => mode = "ap"
    BY <1>1 DEF hasConfig
<1> QED BY <1>3, <1>6, <1>7 DEF IInv, DnsWithAccessPoint, UnconfiguredIsReachable

LEMMA ButtonKeeps ==
    ASSUME IInv, Pressed \/ PressedLong \/ Released
    PROVE  IInv'
<1> USE WifiAssumption DEF ButtonStep, ButtonFrame, radio, button, world
<1>1. CASE Pressed
    BY <1>1 DEF Pressed, IInv, TypeOK, DnsWithAccessPoint, UnconfiguredIsReachable, hasConfig
<1>2. CASE PressedLong
    <2>1. record' = record /\ swapWifiMode
        BY <1>2 DEF PressedLong
    <2>2. /\ mode' \in {"off", "sta", "ap"} /\ {status', dns', mdns'} \subseteq BOOLEAN
          /\ elapsed' \in 0 .. Timeout
          /\ dns' <=> mode' = "ap"
          /\ ~hasConfig => mode' = "ap"
        BY <2>1, SwapKeeps
    <2> QED
        BY <1>2, <2>1, <2>2
        DEF PressedLong, IInv, TypeOK, DnsWithAccessPoint, UnconfiguredIsReachable, hasConfig
<1>3. CASE Released
    BY <1>3 DEF Released, IInv, TypeOK, DnsWithAccessPoint, UnconfiguredIsReachable, hasConfig
<1> QED BY <1>1, <1>2, <1>3

LEMMA NetworkKeeps ==
    ASSUME IInv, NotConnected \/ Connected \/ AccessPoint
    PROVE  IInv'
<1> USE WifiAssumption DEF NetworkStep, NetworkFrame, NoRequest, radio, button, world
<1>1. CASE NotConnected
    <2>1. mode # "ap" /\ WiFi_connect /\ record' = record
        BY <1>1 DEF NotConnected
    <2>2. /\ mode' \in {"off", "sta", "ap"} /\ {status', dns', mdns'} \subseteq BOOLEAN
          /\ elapsed' \in 0 .. Timeout
          /\ dns' <=> mode' = "ap"
        BY <2>1, ConnectKeeps
    <2>3. record # "none"
        BY <2>1 DEF IInv, UnconfiguredIsReachable, hasConfig
    <2> QED
        BY <1>1, <2>1, <2>2, <2>3
        DEF NotConnected, IInv, TypeOK, DnsWithAccessPoint, UnconfiguredIsReachable, hasConfig
<1>2. CASE Connected
    BY <1>2
    DEF Connected, Request, IInv, TypeOK, DnsWithAccessPoint, UnconfiguredIsReachable, hasConfig
<1>3. CASE AccessPoint
    BY <1>3
    DEF AccessPoint, Request, IInv, TypeOK, DnsWithAccessPoint, UnconfiguredIsReachable, hasConfig
<1> QED BY <1>1, <1>2, <1>3

LEMMA WorldKeeps ==
    ASSUME IInv, World \/ TimePasses \/ Restart
    PROVE  IInv'
<1> USE WifiAssumption
    DEF Frame, button, world, radio, IInv, TypeOK, DnsWithAccessPoint, UnconfiguredIsReachable,
        hasConfig
<1>1. CASE Associated
    BY <1>1 DEF Associated, Answers
<1>2. CASE ConnectionLost
    BY <1>2 DEF ConnectionLost
<1>3. CASE PressOrRelease
    BY <1>3 DEF PressOrRelease
<1>4. CASE NetworkComesOrGoes
    BY <1>4 DEF NetworkComesOrGoes
<1>5. CASE TimePasses
    BY <1>5 DEF TimePasses
<1>6. CASE Restart
    <2>1. mode' = (IF record = "set" THEN "sta" ELSE "ap") /\ dns' = (record # "set")
        BY <1>6 DEF Restart
    <2>2. dns' \in BOOLEAN
        BY <2>1, Zenon
    <2>3. mode' \in {"sta", "ap"} /\ (dns' <=> mode' = "ap")
        BY <2>1
    <2>4. elapsed' \in 0 .. Timeout /\ held' \in 0 .. LongPress + 1
        BY <1>6 DEF Restart
    <2>5. /\ UNCHANGED <<record, pressed, present, saves>> /\ pc' = "button"
          /\ {status', mdns', wifiConnected', buttonActive', longPressActive'} \subseteq BOOLEAN
        BY <1>6 DEF Restart
    <2> QED BY <2>1, <2>2, <2>3, <2>4, <2>5
<1> QED BY <1>1, <1>2, <1>3, <1>4, <1>5, <1>6 DEF World

LEMMA StutterKeeps ==
    ASSUME IInv, UNCHANGED vars
    PROVE  IInv'
    BY DEF vars, radio, button, world, IInv, TypeOK, DnsWithAccessPoint, UnconfiguredIsReachable,
           hasConfig

LEMMA Inductive == WifiSpec => []IInv
<1>1. Init => IInv
    BY InitEstablishes
<1>2. IInv /\ [Next]_vars => IInv'
    BY ButtonKeeps, NetworkKeeps, WorldKeeps, StutterKeeps DEF Next, Loop
<1> QED BY <1>1, <1>2, PTL DEF WifiSpec

\* The types of WifiMode: the counters stay within their periods and the
\* program's variables within the values the code gives them.
THEOREM WifiTypes == WifiSpec => []TypeOK
<1>1. IInv => TypeOK
    BY DEF IInv
<1> QED BY <1>1, Inductive, PTL

\* swapWifiMode() and WiFi_connect(), whichever way they call each other, leave
\* the DNS server running exactly when they leave the bridge an access point.
THEOREM DnsFollowsMode == WifiSpec => []DnsWithAccessPoint
<1>1. IInv => DnsWithAccessPoint
    BY DEF IInv
<1> QED BY <1>1, Inductive, PTL

\* Without a configuration nothing that loop(), the button or a restart does
\* leads away from the access point, where the setup page is.
THEOREM SetupReachable == WifiSpec => []UnconfiguredIsReachable
<1>1. IInv => UnconfiguredIsReachable
    BY DEF IInv
<1> QED BY <1>1, Inductive, PTL
=============================================================================
