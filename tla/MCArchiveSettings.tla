--------------------------- MODULE MCArchiveSettings ---------------------------
(* A small instance of ArchiveSettings: two runs, a participant that Archive  *)
(* may name otherwise, one process without environment and one whose          *)
(* environment sets the run.                                                  *)
EXTENDS ArchiveSettings

CONSTANTS p1, p2, run1, run2, iron, other

MCEnv == [p \in Processes |-> IF p = p2 THEN [NoPatch EXCEPT !.run = run2] ELSE NoPatch]

MCChanges ==
  {[NoPatch EXCEPT !.run = run1],
   [NoPatch EXCEPT !.enabled = FALSE, !.token = None],
   [NoPatch EXCEPT !.participant = None]}
=============================================================================
