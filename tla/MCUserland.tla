----------------------------- MODULE MCUserland -----------------------------
(* The user programs, and beside them the vector of the container library. *)
EXTENDS Userland, Vector

VARIABLE part       \* which of the two a behaviour is about

allVars == <<part, vars, vectorVars>>

MCInit == /\ part \in {"gui", "vector"}
          /\ Init /\ VectorInit
          /\ part = "vector" => program = "blank" /\ s.recycled = NUL

MCNext == /\ UNCHANGED part
          /\ \/ part = "gui" /\ Next /\ UNCHANGED vectorVars
             \/ part = "vector" /\ VectorNext /\ UNCHANGED vars

MCSpec == MCInit /\ [][MCNext]_allVars /\ (part = "gui" => Fairness)
=============================================================================
