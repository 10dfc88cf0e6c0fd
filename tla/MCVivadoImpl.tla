---------------------------- MODULE MCVivadoImpl ----------------------------
(* The command lines of the README's "Vivado Flow".                        *)
EXTENDS VivadoImpl

Plain == [only |-> FALSE, force |-> FALSE, buildOnly |-> FALSE, existing |-> FALSE,
          dry |-> FALSE, bit |-> "imp", ltx |-> "imp"]
Only == [Plain EXCEPT !.only = TRUE]
(* Plain runs use the default paths; --program-only any.                   *)
Documented ==
  {Plain, [Plain EXCEPT !.dry = TRUE], [Plain EXCEPT !.buildOnly = TRUE],
   [Plain EXCEPT !.existing = TRUE], [Plain EXCEPT !.force = TRUE],
   Only, [Only EXCEPT !.dry = TRUE],
   [Only EXCEPT !.bit = "own", !.ltx = "own"]}
Simple == {Plain, Only}
=============================================================================
