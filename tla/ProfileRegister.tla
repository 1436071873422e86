---------------------------- MODULE ProfileRegister ----------------------------
(***************************************************************************)
(* What persisted schema profiles promise to the proxies that load them    *)
(* (crates/schema-discovery/src/lib.rs): one register per source           *)
(* collection.  A discovery run replaces its contents in one step, and a   *)
(* proxy that starts takes for each of its collections what is there.      *)
(*                                                                         *)
(* The promise holds of a collection from the moment it is settled, and    *)
(* for ever after.  Nothing settles a collection but a profile of its own  *)
(* that is persisted; before that a start may take any profile.            *)
(***************************************************************************)
CONSTANTS Collections, Proxies, Profiles

VARIABLES
    register,   \* collection -> the profile persisted last, a set of at most one
    settled,    \* the collections that are a register
    loaded      \* proxy -> the profiles it has loaded, by collection

NothingLoaded == [c \in {} |-> {}]

Init ==
    /\ register = [c \in Collections |-> {}]
    /\ settled = {}
    /\ loaded = [p \in Proxies |-> NothingLoaded]

Publish(c) ==
    /\ \E profile \in Profiles : register' = [register EXCEPT ![c] = {profile}]
    /\ settled' \in {settled, settled \cup {c}}
    /\ UNCHANGED loaded

Load(p, c) ==
    /\ c \notin DOMAIN loaded[p]
    /\ \E profile \in IF c \in settled THEN register[c] ELSE Profiles :
          loaded' = [loaded EXCEPT ![p] =
                        [e \in DOMAIN @ \cup {c} |-> IF e = c THEN profile ELSE @[e]]]
    /\ UNCHANGED <<register, settled>>

Stop(p) ==
    /\ loaded' = [loaded EXCEPT ![p] = NothingLoaded]
    /\ UNCHANGED <<register, settled>>

Next ==
    \/ \E c \in Collections : Publish(c)
    \/ \E p \in Proxies, c \in Collections : Load(p, c)
    \/ \E p \in Proxies : Stop(p)

Spec == Init /\ [][Next]_<<register, settled, loaded>>

=============================================================================
