---------------------------- MODULE ContentStore ----------------------------
(***************************************************************************)
(* What the content-addressed stores of the program promise together: an   *)
(* address is published in one step, after the addresses that come before  *)
(* it in its publisher's order, and is never taken back except by a power  *)
(* loss that comes before the publication is on disk.                      *)
(***************************************************************************)
VARIABLES
    before,     \* before[a]: the addresses that are published before a
    published,  \* the addresses whose content is there, whole
    kept        \* those of them that a power loss cannot take back

Init == published = {} /\ kept = {}

Publish(a) ==
    /\ a \notin published
    /\ before[a] \subseteq published
    /\ published' = published \cup {a}
    /\ UNCHANGED <<before, kept>>

Keep ==
    /\ kept' \in SUBSET published
    /\ kept \subseteq kept'
    /\ UNCHANGED <<before, published>>

PowerLoss ==
    /\ published' \in SUBSET published
    /\ kept \subseteq published'
    /\ kept' = published'
    /\ UNCHANGED before

Next == Keep \/ PowerLoss \/ \E a \in DOMAIN before : Publish(a)

Spec == Init /\ [][Next]_<<before, published, kept>>
=============================================================================
