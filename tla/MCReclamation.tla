--------------------------- MODULE MCReclamation ---------------------------
(* Two storage instances, one published version and one upload. *)
EXTENDS Reclamation, TLC
=============================================================================
