------------------------------ MODULE WifiMode ------------------------------
(***************************************************************************)
(* The network as loop() keeps it: station or access point, the attempts   *)
(* to connect and their period, the DNS server of the access point, mDNS,  *)
(* and the button that swaps the mode when it is held.                     *)
(*                                                                         *)
(* WiFi_connect() and swapWifiMode() call each other.  They block loop(),  *)
(* so that a call from loop() is one step: WiFi_connect() notes the time   *)
(* before it swaps, and swapWifiMode() calls it with the radio off, from   *)
(* where a swap leads to the access point.  That is where the calls end.   *)
(***************************************************************************)
EXTENDS Integers

CONSTANTS
    Timeout,        \* WIFI_CONNECTION_TIMEOUT
    LongPress,      \* longPressTime
    MaxSaves        \* bound: forms saved

ASSUME WifiAssumption == Timeout \in Nat \ {0} /\ LongPress \in Nat /\ MaxSaves \in Nat

VARIABLES
    record,         \* the WiFi record: none (no configuration), empty (no SSID), set
    mode,           \* WiFi.getMode()
    status,         \* WiFi.status() = WL_CONNECTED
    dns,            \* dnsServer is not a null pointer
    mdns,           \* the name has been announced
    elapsed,        \* millis() - lastWifiRetry
    wifiConnected,
    pressed,        \* the button
    held,           \* millis() - buttonTimer
    buttonActive, longPressActive,
    pc,             \* where loop() is
    present,        \* the configured network can be reached
    saves           \* bound

radio == <<mode, status, dns, mdns, elapsed>>
button == <<held, buttonActive, longPressActive>>
world == <<pressed, present>>
vars == <<record, radio, wifiConnected, button, pc, world, saves>>

TypeOK ==
    /\ record \in {"none", "empty", "set"} /\ mode \in {"off", "sta", "ap"}
    /\ {status, dns, mdns, wifiConnected, pressed, present} \subseteq BOOLEAN
    /\ {buttonActive, longPressActive} \subseteq BOOLEAN
    /\ elapsed \in 0 .. Timeout /\ held \in 0 .. LongPress + 1
    /\ pc \in {"button", "network"}
    /\ saves \in 0 .. MaxSaves

hasConfig == record # "none"

-----------------------------------------------------------------------------
(* The radio. *)

EnterAccessPoint ==
    /\ mode' = "ap" /\ status' = FALSE /\ dns' = TRUE
    /\ UNCHANGED mdns

\* WiFi.begin() in station mode
BeginStation ==
    /\ mode' = "sta" /\ status' = FALSE
    /\ mdns' = FALSE

\* Mutant of TimeNoted: noted whether or not the period is over.
AlwaysNoted == elapsed' = 0

\* lastWifiRetry is noted when the period is over.
MayTry == elapsed = Timeout
TimeNoted == elapsed' = IF MayTry THEN 0 ELSE elapsed

\* The network answers.
Answers ==
    /\ mode = "sta" /\ ~status /\ present /\ record = "set"
    /\ status' = TRUE
    /\ UNCHANGED <<mode, dns, mdns>>

\* Mutant of WiFi_connect: that there is an SSID is not looked at.
ConnectWithoutSsid ==
    /\ TimeNoted
    /\ \/ ~MayTry /\ UNCHANGED <<mode, status, dns, mdns>>
       \/ MayTry /\ Answers
       \/ MayTry /\ BeginStation /\ UNCHANGED dns

\* WiFi_connect() from loop(), where the mode is not the access point.  The
\* status may have changed since loop() looked.
WiFi_connect ==
    /\ TimeNoted
    /\ \/ ~MayTry /\ UNCHANGED <<mode, status, dns, mdns>>
       \/ MayTry /\ Answers
       \/ MayTry /\ record # "set" /\ EnterAccessPoint
       \/ MayTry /\ record = "set" /\ BeginStation /\ UNCHANGED dns

\* Mutant of LeaveAccessPoint: the DNS server is deleted when an attempt is made.
LeaveWithDns ==
    /\ TimeNoted
    /\ \/ ~MayTry /\ mode' = "off" /\ status' = FALSE /\ UNCHANGED <<dns, mdns>>
       \/ MayTry /\ record # "set" /\ EnterAccessPoint
       \/ MayTry /\ record = "set" /\ BeginStation /\ dns' = FALSE

\* The end of swapWifiMode() when the mode was the access point: the radio is off
\* and the DNS server gone before WiFi_connect() is called.
LeaveAccessPoint ==
    /\ TimeNoted
    /\ \/ ~MayTry /\ mode' = "off" /\ status' = FALSE /\ dns' = FALSE /\ UNCHANGED mdns
       \/ MayTry /\ record # "set" /\ EnterAccessPoint
       \/ MayTry /\ record = "set" /\ BeginStation /\ dns' = FALSE

\* Mutant of swapWifiMode: hasConfig() is not asked.
SwapAnyway ==
    IF mode # "ap" THEN EnterAccessPoint /\ UNCHANGED elapsed ELSE LeaveAccessPoint

\* swapWifiMode()
swapWifiMode ==
    IF mode # "ap" \/ ~hasConfig
    THEN EnterAccessPoint /\ UNCHANGED elapsed
    ELSE LeaveAccessPoint

-----------------------------------------------------------------------------

\* setup(): lastWifiRetry is one period back, and the first attempt made at once.
Init ==
    /\ record \in {"none", "empty", "set"}
    /\ mode = (IF record = "set" THEN "sta" ELSE "ap") /\ dns = (record # "set")
    /\ elapsed = (IF record = "none" THEN Timeout ELSE 0)
    /\ status = FALSE /\ mdns = FALSE /\ wifiConnected = FALSE
    /\ held = 0 /\ buttonActive = FALSE /\ longPressActive = FALSE
    /\ pc = "button"
    /\ pressed = FALSE /\ present \in BOOLEAN
    /\ saves = 0

(* loop(): the button. *)

ButtonStep == pc = "button" /\ pc' = "network"
ButtonFrame == UNCHANGED <<record, wifiConnected, world, saves>>

\* Not yet held long enough, or swapped already.
Pressed ==
    /\ ButtonStep /\ pressed
    /\ buttonActive' = TRUE
    /\ held' = IF buttonActive THEN held ELSE 0
    /\ held' <= LongPress \/ longPressActive
    /\ UNCHANGED <<radio, longPressActive>>
    /\ ButtonFrame

\* Mutant of PressedLong: longPressActive is not set.
PressedLongAgain ==
    /\ ButtonStep /\ pressed
    /\ buttonActive /\ held > LongPress /\ ~longPressActive
    /\ swapWifiMode
    /\ UNCHANGED <<held, buttonActive, longPressActive>>
    /\ ButtonFrame

PressedLong ==
    /\ ButtonStep /\ pressed
    /\ buttonActive /\ held > LongPress /\ ~longPressActive
    /\ longPressActive' = TRUE
    /\ swapWifiMode
    /\ UNCHANGED <<held, buttonActive>>
    /\ ButtonFrame

Released ==
    /\ ButtonStep /\ ~pressed
    /\ buttonActive' = FALSE
    /\ longPressActive' = (longPressActive /\ ~buttonActive)
    /\ UNCHANGED <<radio, held>>
    /\ ButtonFrame

(* loop(): the network. *)

NetworkStep == pc = "network" /\ pc' = "button"
NetworkFrame == UNCHANGED <<button, world>>
NoRequest == UNCHANGED <<record, saves>>

NotConnected ==
    /\ NetworkStep /\ mode # "ap" /\ ~status
    /\ wifiConnected' = FALSE
    /\ WiFi_connect
    /\ NetworkFrame /\ NoRequest

\* ws.loop() may receive a form with a WiFi record, or one that makes a
\* configuration of records never written (ConfigStore.tla).
Request ==
    \/ NoRequest
    \/ saves < MaxSaves /\ saves' = saves + 1 /\ record' \in {"empty", "set"}

Connected ==
    /\ NetworkStep /\ mode # "ap" /\ status
    /\ wifiConnected' = TRUE
    /\ mdns' = (mdns \/ (~wifiConnected /\ hasConfig))
    /\ UNCHANGED <<mode, status, dns, elapsed>>
    /\ NetworkFrame /\ Request

AccessPoint ==
    /\ NetworkStep /\ mode = "ap"
    /\ UNCHANGED <<radio, wifiConnected>>
    /\ NetworkFrame /\ Request

(* The world. *)

Frame == UNCHANGED <<record, wifiConnected, pc, saves>>

Associated ==
    /\ Answers
    /\ UNCHANGED <<elapsed, button, world>> /\ Frame

ConnectionLost ==
    /\ status /\ status' = FALSE
    /\ UNCHANGED <<mode, dns, mdns, elapsed, button, world>> /\ Frame

PressOrRelease ==
    /\ pressed' = ~pressed
    /\ UNCHANGED <<radio, button, present>> /\ Frame

NetworkComesOrGoes ==
    /\ present' = ~present
    /\ status' = (status /\ present')
    /\ UNCHANGED <<mode, dns, mdns, elapsed, button, pressed>> /\ Frame

\* Mutant of TimePasses: no end to the period.
TimePassesOn ==
    /\ elapsed <= Timeout /\ elapsed' = elapsed + 1
    /\ UNCHANGED <<mode, status, dns, mdns, button, world>>
    /\ Frame

TimePasses ==
    /\ elapsed' = IF elapsed < Timeout THEN elapsed + 1 ELSE elapsed
    /\ held' = IF held <= LongPress THEN held + 1 ELSE held
    /\ <<elapsed', held'>> # <<elapsed, held>>
    /\ UNCHANGED <<mode, status, dns, mdns, buttonActive, longPressActive, world>>
    /\ Frame

\* restartWaitHtml(), or a reset.
Restart ==
    /\ mode' = (IF record = "set" THEN "sta" ELSE "ap") /\ dns' = (record # "set")
    /\ elapsed' = (IF record = "none" THEN Timeout ELSE 0)
    /\ status' = FALSE /\ mdns' = FALSE /\ wifiConnected' = FALSE
    /\ held' = 0 /\ buttonActive' = FALSE /\ longPressActive' = FALSE
    /\ pc' = "button"
    /\ UNCHANGED <<record, world, saves>>

Loop == Pressed \/ PressedLong \/ Released \/ NotConnected \/ Connected \/ AccessPoint
World == Associated \/ ConnectionLost \/ PressOrRelease \/ NetworkComesOrGoes
Next == Loop \/ World \/ TimePasses \/ Restart

\* loop() runs on and on, time passes, and a network that is there answers
\* within the period.
WifiSpec ==
    /\ Init /\ [][Next]_vars
    /\ WF_vars(Loop) /\ WF_vars(TimePasses) /\ SF_vars(Associated)

-----------------------------------------------------------------------------
(* Properties. *)

\* The DNS server that sends every name to the setup page runs exactly while the
\* bridge is an access point, whichever way WiFi_connect() and swapWifiMode()
\* went.
DnsWithAccessPoint == dns <=> mode = "ap"

\* Without a configuration the setup page can be reached: no press of the
\* button and no period that is not over leads away from the access point.
UnconfiguredIsReachable == ~hasConfig => mode = "ap"

\* Left alone, even with the button held, the bridge does not swap to and fro:
\* neither the calls between WiFi_connect() and swapWifiMode() nor one press of
\* the button change the mode again and again.
LeftAlone == <>[][~PressOrRelease /\ ~ConnectionLost /\ ~Restart /\ ~NetworkComesOrGoes]_vars
ModeSettles == LeftAlone => <>[](mode = "ap") \/ <>[](mode # "ap")

\* Left alone, with a network that answers, the bridge connects and stays
\* connected, unless the button has made it an access point.
ReconnectsOrAccessPoint ==
    LeftAlone /\ <>[](present /\ record = "set") => <>[](status \/ mode = "ap")

\* Left alone without an SSID, a bridge that is not connected becomes an access
\* point: it does not stay out of reach.
NoSsidLeadsToAccessPoint ==
    LeftAlone /\ <>[](record = "empty" /\ ~status) => <>[](mode = "ap")
=============================================================================
