---------------------------- MODULE StoredConfig ----------------------------
(***************************************************************************)
(* What the configuration store promises: there is a complete              *)
(* configuration or there is none, and of a complete one the records       *)
(* change one at a time.  A configuration comes from the setup page, from  *)
(* the old layout, or from a form; it may be erased.  ConfigStore.tla is   *)
(* the store as the code writes it, commit by commit.                      *)
(***************************************************************************)
CONSTANTS
    Kinds,          \* the records of a configuration
    Contents,       \* kind -> what its record may hold
    None            \* no configuration

VARIABLE config

Complete == { c \in [Kinds -> UNION { Contents[k] : k \in Kinds }] :
                \A k \in Kinds : c[k] \in Contents[k] }

Init == config \in Complete \cup {None}

Change(k, value) ==
    /\ config # None
    /\ config' = [config EXCEPT ![k] = value]

Erase == config' = None

Store ==
    /\ config = None
    /\ config' \in Complete

Next ==
    \/ \E k \in Kinds : \E value \in Contents[k] : Change(k, value)
    \/ Erase
    \/ Store

Spec == Init /\ [][Next]_config
=============================================================================
