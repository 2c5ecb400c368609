--------------------------- MODULE VersionedData ---------------------------
(***************************************************************************)
(* What the import promises to sessions: a dataset appears whole, in the   *)
(* step that makes it current, and never changes; a session is pinned once *)
(* and for all to a dataset that has appeared.  No files being staged, no  *)
(* cleanup, no threads and no crashes here.                                *)
(***************************************************************************)
CONSTANTS
    Versions,     \* import batches
    Legacy,       \* the unnumbered dataset, which other tools may change
    Sessions,
    Contents,     \* what each version holds
    LegacyContents,
    None

VARIABLES
    holds,        \* what each dataset holds, None before it has appeared
    current,      \* the dataset new sessions get, None while the symbol is unknown
    pinned        \* the dataset of each session

vars == <<holds, current, pinned>>

Init ==
    /\ \E f \in LegacyContents : holds = [d \in Versions \cup {Legacy} |-> IF d = Legacy THEN f ELSE None]
    /\ current \in {None, Legacy}
    /\ pinned = [s \in Sessions |-> None]

Publish(v) ==
    /\ holds[v] = None
    /\ holds' = [holds EXCEPT ![v] = Contents[v]]
    /\ current' = v
    /\ UNCHANGED pinned

Pin(s) ==
    /\ pinned[s] = None
    /\ \E d \in DOMAIN holds : holds[d] # None /\ pinned' = [pinned EXCEPT ![s] = d]
    /\ UNCHANGED <<holds, current>>

ReplaceLegacy ==
    /\ holds'[Legacy] \in LegacyContents
    /\ holds' = [holds EXCEPT ![Legacy] = holds'[Legacy]]
    /\ UNCHANGED <<current, pinned>>

Next ==
    \/ \E v \in Versions : Publish(v)
    \/ \E s \in Sessions : Pin(s)
    \/ ReplaceLegacy

Spec == Init /\ [][Next]_vars
=============================================================================
