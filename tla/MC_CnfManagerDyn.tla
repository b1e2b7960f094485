------------------------- MODULE MC_CnfManagerDyn -------------------------
(***************************************************************************)
(* Instances of CnfManagerDyn and CnfManagerDynBlockedCl for TLC.          *)
(***************************************************************************)
EXTENDS CnfManagerDynBlockedCl

(* Binary clauses, longer ones, literals that are or become pure, clauses  *)
(* that are or become blocked, one after the other.                        *)
MCFormulas ==
  { << <<1, 2, 4>>, <<-1, 5>>, <<2, -4, 5>>, <<-2, -5, 4>> >>,
    << <<-1, -2, -4, -5>>, <<1, 2, 5>>, <<2, 4>> >>,
    << <<1, 4>>, <<-4, 5, 3>>, <<-5, 2>>, <<-4, 2, 3>>, <<-5, 3, 1>> >>,
    << <<1, 4, 5>>, <<-4, 2>>, <<-5, -1, 2>>, <<-4, 5, -2>>, <<-5, -2, 4>> >> }
===========================================================================
