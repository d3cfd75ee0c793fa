------------------------- MODULE NegotiationAbstract -------------------------
(***************************************************************************)
(* What a negotiation run promises its caller, whatever the channels:     *)
(* the parties share a set of needs (one per channel); a link established *)
(* on a channel is usable from both ends at once, so every step meets the *)
(* same needs for every party, a need once met stays met, and the run     *)
(* returns a verdict once, after which nothing changes.                   *)
(***************************************************************************)
CONSTANTS
    Parties,  \* the two peers
    Needs     \* the channels a party needs a link on

VARIABLES
    met,       \* met[p]: the needs of party p that are met now
    returned   \* the run has returned its verdict

avars == <<met, returned>>

ATypeOK ==
    /\ met \in [Parties -> SUBSET Needs]
    /\ returned \in BOOLEAN

AInit ==
    /\ met = [p \in Parties |-> {}]
    /\ returned = FALSE

\* The needs S become met, for every party at once.
Establish(S) == met' = [p \in Parties |-> met[p] \cup S]

\* A step of the run that does not return.
Progress ==
    /\ ~returned
    /\ \E S \in SUBSET Needs : Establish(S)
    /\ returned' = FALSE

\* The step that returns the verdict (possibly meeting needs on the way).
Return ==
    /\ ~returned
    /\ \E S \in SUBSET Needs : Establish(S)
    /\ returned' = TRUE

ANext == Progress \/ Return

ASpec == AInit /\ [][ANext]_avars
=============================================================================
