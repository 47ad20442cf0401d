----------------------------- MODULE MCHostSlot -----------------------------
(* Small instances of HostSlot.  Processes are interchangeable, and so are *)
(* the threads of a process.                                               *)
EXTENDS HostSlot, TLC

Symmetry == Permutations(Procs)
=============================================================================
