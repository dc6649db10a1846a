------------------------------ MODULE Replicas ------------------------------
(***************************************************************************)
(* What syncing promises about one item (a track, a bike, a session's own  *)
(* file, its data.parquet), whatever becomes of the network and whoever    *)
(* edits meanwhile.  An item is a set of parts; every device holds one     *)
(* value of every part.  People write and clear parts.  Apart from that a  *)
(* device only ever takes, part by part, a value somebody really wrote to  *)
(* that part, and never one older than the value it holds where values are *)
(* ordered by time.                                                        *)
(***************************************************************************)
EXTENDS Naturals

CONSTANTS
    Devices,
    Unset,      \* the value of a part nobody has set
    Own,        \* the parts a device only ever derives for itself
    Ordered     \* the parts whose values are ordered by their time, `at`

VARIABLES
    held,       \* device -> part -> value
    written     \* the pairs <<part, value>> ever written

vars == <<held, written>>

(* Taking never invents a value, clears a part or goes back in time.       *)
MayTake(old, new) ==
    \A p \in DOMAIN old :
        \/ new[p] = old[p]
        \/ /\ p \notin Own
           /\ <<p, new[p]>> \in written
           /\ p \in Ordered => new[p].at >= old[p].at

Init ==
    /\ \A d \in Devices : \A p \in DOMAIN held[d] : held[d][p] = Unset
    /\ written = {}

(* Every value written is a new one. *)
Write(d) ==
    \E p \in DOMAIN held[d] :
        /\ held' = [held EXCEPT ![d][p] = held'[d][p]]
        /\ <<p, held'[d][p]>> \notin written
        /\ written' = written \cup {<<p, held'[d][p]>>}

Clear(d) ==
    /\ \E ps \in SUBSET DOMAIN held[d] :
          held' = [held EXCEPT ![d] =
                       [p \in DOMAIN held[d] |-> IF p \in ps THEN Unset ELSE held[d][p]]]
    /\ UNCHANGED written

Take(d) ==
    /\ held' = [held EXCEPT ![d] = held'[d]]
    /\ DOMAIN held'[d] = DOMAIN held[d]
    /\ MayTake(held[d], held'[d])
    /\ UNCHANGED written

Next == \E d \in Devices : Write(d) \/ Clear(d) \/ Take(d)

Spec == Init /\ [][Next]_vars
=============================================================================
