---------------------- MODULE MCImpersonationSession ----------------------
(* Values for TLC: model values for the ids and the actors.                *)
EXTENDS ImpersonationSession, TLC

Symmetry == Permutations(Ids) \cup Permutations(Threads)
===========================================================================
