------------------------------ MODULE MCStorage ------------------------------
(* The sectors of a partition as a stream reads them, and beside it the queues *)
(* of the driver through which an NVMe disk is read.                          *)
EXTENDS DiskStream, Nvme

VARIABLE part       \* which of the two a behaviour is about

allVars == <<part, streamVars, vars>>

MCInit == part \in {"stream", "nvme"} /\ StreamInit /\ Init

MCNext == /\ UNCHANGED part
          /\ \/ part = "stream" /\ StreamNext /\ UNCHANGED vars
             \/ part = "nvme" /\ Next /\ UNCHANGED streamVars

MCSpec == MCInit /\ [][MCNext]_allVars
=============================================================================
