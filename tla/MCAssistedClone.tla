--------------------------- MODULE MCAssistedClone --------------------------
(* The bounds are constants of the specification: see AssistedClone.cfg.     *)
EXTENDS AssistedClone
=============================================================================
