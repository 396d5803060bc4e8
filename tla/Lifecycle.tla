------------------------------ MODULE Lifecycle ------------------------------
(***************************************************************************)
(* What the mutation machine promises the holder of a registration handle, *)
(* without slots, generations, a free list or a backend: each handle lives *)
(* through one life of its own.  A handle that was never given out becomes *)
(* live once; a live one is rearmed, delivered or lost track of; a stale   *)
(* one stays stale; and one call concerns one handle.                      *)
(***************************************************************************)
EXTENDS Naturals, FiniteSets

CONSTANTS
    Handles,    \* every handle there can be
    Capacity,   \* how many may be live at once
    Interest,   \* interests
    Mode        \* modes

VARIABLE life

Phases == {"Unissued", "Armed", "Disarmed", "Uncertain", "Stale"}
Life == [phase : Phases, interest : SUBSET Interest, mode : Mode \cup {"None"}]

\* Only a registered handle has an interest and a mode that are known.
In(phase) == [phase |-> phase, interest |-> {}, mode |-> "None"]
Registered(arm, interest, mode) ==
    [phase |-> arm, interest |-> interest, mode |-> mode]

IsRegistered(h) == life[h].phase \in {"Armed", "Disarmed"}
Live == {h \in Handles : life[h].phase \in {"Armed", "Disarmed", "Uncertain"}}

Becomes(h, l) == life' = [life EXCEPT ![h] = l]

Init == life = [h \in Handles |-> In("Unissued")]

\* Registration took effect, or may have: the caller gets a handle either way.
Issue(h) ==
    /\ life[h].phase = "Unissued"
    /\ Cardinality(Live) < Capacity
    /\ \/ \E i \in (SUBSET Interest) \ {{}}, m \in Mode :
             Becomes(h, Registered("Armed", i, m))
       \/ Becomes(h, In("Uncertain"))

Rearm(h) ==
    /\ IsRegistered(h)
    /\ \E i \in (SUBSET Interest) \ {{}}, m \in Mode :
          Becomes(h, Registered("Armed", i, m))

Deliver(h) ==
    /\ life[h].phase = "Armed"
    /\ life[h].mode = "OneShot"
    /\ Becomes(h, [life[h] EXCEPT !.phase = "Disarmed"])

LoseTrack(h) == h \in Live /\ Becomes(h, In("Uncertain"))

Retire(h) == h \in Live /\ Becomes(h, In("Stale"))

Next == \E h \in Handles :
            Issue(h) \/ Rearm(h) \/ Deliver(h) \/ LoseTrack(h) \/ Retire(h)

Spec == Init /\ [][Next]_life
==============================================================================
