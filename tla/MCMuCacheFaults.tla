-------------------------- MODULE MCMuCacheFaults --------------------------
(***************************************************************************)
(* A front end A whose a1 and a2 call b1 and b2 of B, which read k: the    *)
(* end of one of B's calls can collect what the other, of which the start  *)
(* was lost, would have to know.                                           *)
(***************************************************************************)
EXTENDS MuCacheFaults

CONSTANTS a1, a2, b1, b2

PairService == {"A", "B"}
PairCall == {a1, a2, b1, b2}
PairOwner == [x \in PairCall \cup {"k"} |-> IF x \in {a1, a2} THEN "A" ELSE "B"]
PairReads == [c \in PairCall |-> IF c \in {b1, b2} THEN {"k"} ELSE {}]
PairCalls == [c \in PairCall |-> CASE c = a1 -> {b1} [] c = a2 -> {b2} [] OTHER -> {}]
PairFootprint == [c \in PairCall |-> {"k"}]

\* Renamings that keep the call graph: the two pairs of calls are alike.
PairSymmetry ==
    {p \in Permutations(PairCall) : \A c \in PairCall :
        PairOwner[p[c]] = PairOwner[c] /\ PairCalls[p[c]] = {p[d] : d \in PairCalls[c]}}
=============================================================================
