---------------------------- MODULE KeyLifecycle ----------------------------
(***************************************************************************)
(* What the package promises about the key of one name, without calls,     *)
(* handles, descriptors or a provider: it is provisioned in a state that   *)
(* can be asked for, its access only ever tightens, and it is never        *)
(* replaced, only removed.                                                 *)
(***************************************************************************)
CONSTANTS Makers, States, Absent,
          Provisionable,     \* the states a new key may be in
          Tighter            \* pairs of states: the first grants nobody more

VARIABLE key             \* Absent, or who made the key and its state

LifecycleInit == key \in [maker : Makers, state : States] \cup {Absent}

Provision ==
    /\ key = Absent
    /\ key' \in [maker : Makers, state : Provisionable]

Tighten ==
    /\ key # Absent
    /\ \E state \in States :
          /\ <<state, key.state>> \in Tighter
          /\ key' = [key EXCEPT !.state = state]

Remove == key # Absent /\ key' = Absent

LifecycleNext == Provision \/ Tighten \/ Remove

LifecycleSpec == LifecycleInit /\ [][LifecycleNext]_key
=============================================================================
