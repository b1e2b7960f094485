-------------------------- MODULE BacktrackableSet --------------------------
(***************************************************************************)
(* What the occurrence list of a literal promises to the formula manager:  *)
(* a set that only shrinks between a save and the matching restore, which  *)
(* brings back exactly the set that was saved.                             *)
(***************************************************************************)
EXTENDS Sequences

CONSTANT Elements
VARIABLES content, stack

setVars == << content, stack >>

SetInit == content = Elements /\ stack = << >>

Shrink == content' \in SUBSET content /\ UNCHANGED stack

(* A list is saved and then cleaned in one step when its literal is true. *)
SaveAndShrink ==
  /\ content' \in SUBSET content
  /\ stack' = << content >> \o stack

Restore ==
  /\ stack # << >>
  /\ content' = Head(stack)
  /\ stack' = Tail(stack)

SetNext == Shrink \/ SaveAndShrink \/ Restore

SetSpec == SetInit /\ [][SetNext]_setVars
=============================================================================
