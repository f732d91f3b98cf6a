------------------------------- MODULE MCInput -------------------------------
(* The window system, which says whom a key or a window event goes to, and     *)
(* beside it what becomes of those that reach one process.                     *)
EXTENDS Windows, ProcessInput

VARIABLE part       \* which of the two a behaviour is about

allVars == <<part, ws, vars>>

MCInit == part \in {"windows", "process"} /\ WindowsInit /\ Init

MCNext == /\ UNCHANGED part
          /\ \/ part = "windows" /\ WindowsNext /\ UNCHANGED vars
             \/ part = "process" /\ Next /\ UNCHANGED ws

MCSpec == MCInit /\ [][MCNext]_allVars
=============================================================================
