--------------------------- MODULE IntentLifecycle ---------------------------
(***************************************************************************)
(* What the order journal promises, without tables, clocks or switches.     *)
(*                                                                          *)
(* An intent is decided once.  An intent that is held or committed owns its *)
(* resource alone.  Time may take back what is held, in any number and      *)
(* without notice, but never what is committed: a committed intent ends     *)
(* only by a settlement of its own.  Nothing that ended comes back.         *)
(***************************************************************************)
CONSTANTS
    Intents,
    ResourceOf      \* intent -> the resource it needs

VARIABLE phase

Phases == {"new", "refused", "held", "committed", "ended"}

Owns(ph, i) == ph[i] \in {"held", "committed"}
Free(ph, i) == \A j \in Intents : ResourceOf[j] = ResourceOf[i] => ~Owns(ph, j)

(* One intent moves.                                                        *)
Move(ph, i) ==
    {[ph EXCEPT ![i] = p] : p \in
        CASE ph[i] = "new"       -> {"refused"} \cup (IF Free(ph, i) THEN {"held", "committed"} ELSE {})
          [] ph[i] = "held"      -> {"committed", "ended"}
          [] ph[i] = "committed" -> {"ended"}
          [] OTHER               -> {}}

Lapse(S) == [i \in Intents |-> IF i \in S THEN "ended" ELSE phase[i]]

Init == phase = [i \in Intents |-> "new"]

(* Some held intents lapse, and then at most one intent moves.              *)
Next ==
    \E S \in SUBSET {i \in Intents : phase[i] = "held"} :
        \/ phase' = Lapse(S)
        \/ \E i \in Intents : phase' \in Move(Lapse(S), i)

Spec == Init /\ [][Next]_phase
=============================================================================
