----------------------------- MODULE MCMuCache -----------------------------
(***************************************************************************)
(* Two call graphs: TwoTier, a front end A that calls b1 and b2 of B,     *)
(* which both read k1, so that one write drops two lines; and Chain, A      *)
(* calls b of B, which calls c of C.                                        *)
(***************************************************************************)
EXTENDS MuCache

TwoTierService == {"A", "B"}
TwoTierCall == {"a", "b1", "b2"}
TwoTierOwner == [x \in TwoTierCall \cup {"k1"} |-> IF x = "a" THEN "A" ELSE "B"]
TwoTierReads == [c \in TwoTierCall |-> IF c = "a" THEN {} ELSE {"k1"}]
TwoTierCalls == [c \in TwoTierCall |-> IF c = "a" THEN {"b1", "b2"} ELSE {}]
TwoTierFootprint == [c \in TwoTierCall |-> {"k1"}]

ChainService == {"A", "B", "C"}
ChainCall == {"a", "b", "c"}
ChainOwner == [x \in ChainCall \cup {"k"} |->
                  CASE x = "a" -> "A" [] x = "b" -> "B" [] OTHER -> "C"]
ChainReads == [x \in ChainCall |-> IF x = "c" THEN {"k"} ELSE {}]
ChainCalls == [x \in ChainCall |-> CASE x = "a" -> {"b"} [] x = "b" -> {"c"} [] OTHER -> {}]
ChainFootprint == [x \in ChainCall |-> {"k"}]

-----------------------------------------------------------------------------
ASSUME ChainsEnd == Acyclic

\* Writes come at any time: the second race.
WriteRaceNext == Writers \/ ReadsAlone \/ Handlers \/ Managers
WriteRaceSpec == Init /\ [][WriteRaceNext]_vars
=============================================================================
