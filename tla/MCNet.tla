-------------------------------- MODULE MCNet --------------------------------
(* Model-checking instance of Net: two tasks, tiny rings so that both     *)
(* rings wrap and fill.  Sizes are set in the .cfg.                       *)
EXTENDS Net

CONSTANTS t1, t2

MCTask == {t1, t2}
=============================================================================
