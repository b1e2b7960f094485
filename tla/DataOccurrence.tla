--------------------------- MODULE DataOccurrence ---------------------------
(***************************************************************************)
(* The occurrence list of one literal, src/src/formulaManager/cnf/         *)
(* DataOccurrence.hpp: the binary clauses grow downwards from notBin and   *)
(* the others upwards, in one array, so that all of them are one range of  *)
(* it.  A removed clause is swapped out of its range and nothing else      *)
(* remembers it: CnfManagerDyn saves the two counters before the first     *)
(* removal of a level and postUpdate only sets them back.                  *)
(*                                                                         *)
(* The two removal loops are taken one iteration at a time.  A clause is   *)
(* named by the position the constructor gives it in the array.            *)
(***************************************************************************)
EXTENDS Integers, Sequences

CONSTANTS
  NbBin,     \* how many binary clauses the literal occurs in
  NbNotBin,  \* and how many others
  MaxLevel   \* bound: calls of preUpdate not undone yet

ASSUME OccurrenceAssumption ==
  NbBin \in Nat /\ NbNotBin \in Nat /\ MaxLevel \in Nat

notBin == NbBin
Clauses == 0 .. (NbBin + NbNotBin - 1)

VARIABLES
  pc,        \* "idle", or the loop that runs: "notBin", "bin"
  data,      \* the part of m_dataOccurrenceMemory this list owns
  bin,       \* where its binary clauses start
  nbBin,
  nbNotBin,
  i,         \* the position in removeSatisfiedNotBin, "end" in the other loop
  isSat,     \* the clauses of the list with m_infoClauses[c].isSat
  saved      \* m_savedStateOccs for this literal, with the isSat saved too

occVars == << pc, data, bin, nbBin, nbNotBin, i, isSat, saved >>

OccInit ==
  /\ pc = "idle"
  /\ data = [p \in Clauses |-> p]
  /\ bin = 0
  /\ nbBin = NbBin
  /\ nbNotBin = NbNotBin
  /\ i = 0
  /\ isSat = {}
  /\ saved = << >>

(* The clauses in the range of positions a .. b - 1. *)
At(a, b) == {data[p] : p \in a .. (b - 1)}

(* Mutant of Swapped: one of the two clauses is overwritten. *)
Overwritten(p, q) == [data EXCEPT ![p] = data[q]]

Swapped(p, q) == [data EXCEPT ![p] = data[q], ![q] = data[p]]

SavedState == << [nbBin |-> nbBin, nbNotBin |-> nbNotBin, isSat |-> isSat] >>

(* The loop over the notBin clauses starts; the other loop comes after it. *)
RemoveSatisfied ==
  /\ pc' = "notBin"
  /\ i' = 0
  /\ UNCHANGED data

------------------------------------------------------------------------------
(* removeSatisfiedClauses, for the first time at a level: clauses S of the  *)
(* list have become satisfied by other literals.                            *)
PreUpdate(S) ==
  /\ pc = "idle"
  /\ Len(saved) < MaxLevel
  /\ saved' = SavedState \o saved
  /\ isSat' = isSat \cup S
  /\ RemoveSatisfied
  /\ UNCHANGED << bin, nbBin, nbNotBin >>

(* The literal itself is true: propagateTrue marks all and cleans. *)
PreUpdateTrue ==
  /\ pc = "idle"
  /\ Len(saved) < MaxLevel
  /\ saved' = SavedState \o saved
  /\ isSat' = isSat \cup At(bin, notBin + nbNotBin)
  /\ nbNotBin' = 0
  /\ bin' = bin + nbBin
  /\ nbBin' = 0
  /\ RemoveSatisfied

(* An inprocessing removes more at the same level: it was saved already. *)
Inprocessing(S) ==
  /\ pc = "idle"
  /\ saved # << >>
  /\ isSat' = isSat \cup S
  /\ RemoveSatisfied
  /\ UNCHANGED << bin, nbBin, nbNotBin, saved >>

(* One iteration of removeSatisfiedNotBin. *)
StepNotBin ==
  /\ pc = "notBin"
  /\ i < nbNotBin
  /\ \/ /\ data[notBin + i] \in isSat
        /\ data' = Swapped(notBin + i, (notBin + nbNotBin) - 1)
        /\ nbNotBin' = nbNotBin - 1
        /\ UNCHANGED i
     \/ /\ data[notBin + i] \notin isSat
        /\ i' = i + 1
        /\ UNCHANGED << data, nbNotBin >>
  /\ UNCHANGED << pc, bin, nbBin, isSat, saved >>

(* It ends, and removeSatisfiedBin returns at once or enters its loop. *)
EndNotBin ==
  /\ pc = "notBin"
  /\ i >= nbNotBin
  /\ pc' = IF nbBin = 0 THEN "idle" ELSE "bin"
  /\ i' = bin + nbBin - 1
  /\ UNCHANGED << data, bin, nbBin, nbNotBin, isSat, saved >>

(* Mutant of StepBin: "end" moves on although a new clause was put there. *)
StepBinBothMove ==
  /\ pc = "bin"
  /\ i >= bin
  /\ \/ /\ data[i] \notin isSat
        /\ UNCHANGED << data, bin >>
     \/ /\ data[i] \in isSat
        /\ data' = Swapped(i, bin)
        /\ bin' = bin + 1
  /\ i' = i - 1
  /\ UNCHANGED << pc, nbBin, nbNotBin, isSat, saved >>

(* Mutant of StepBin: the clause is swapped out but stays in the range. *)
StepBinNoProgress ==
  /\ pc = "bin"
  /\ i >= bin
  /\ \/ /\ data[i] \notin isSat
        /\ i' = i - 1
        /\ UNCHANGED data
     \/ /\ data[i] \in isSat
        /\ data' = Swapped(i, bin)
        /\ UNCHANGED i
  /\ UNCHANGED << pc, bin, nbBin, nbNotBin, isSat, saved >>

(* One iteration of removeSatisfiedBin. *)
StepBin ==
  /\ pc = "bin"
  /\ i >= bin
  /\ \/ /\ data[i] \notin isSat
        /\ i' = i - 1
        /\ UNCHANGED << data, bin >>
     \/ /\ data[i] \in isSat
        /\ data' = Swapped(i, bin)
        /\ bin' = bin + 1
        /\ UNCHANGED i
  /\ UNCHANGED << pc, nbBin, nbNotBin, isSat, saved >>

(* Its end: endSize - bin binary clauses are left. *)
EndBin ==
  /\ pc = "bin"
  /\ i < bin
  /\ nbBin' = notBin - bin
  /\ pc' = "idle"
  /\ UNCHANGED << data, bin, nbNotBin, i, isSat, saved >>

(* Mutant of RestoredBin: the pointer is moved back by the count saved. *)
RestoredBinTooLow(s) == bin - s.nbBin

(* Where postUpdate moves the pointer back to. *)
RestoredBin(s) == bin - (s.nbBin - nbBin)

PostUpdate ==
  /\ pc = "idle"
  /\ saved # << >>
  /\ nbNotBin' = Head(saved).nbNotBin
  /\ bin' = RestoredBin(Head(saved))
  /\ nbBin' = Head(saved).nbBin
  /\ isSat' = Head(saved).isSat
  /\ saved' = Tail(saved)
  /\ UNCHANGED << pc, data, i >>

OccNext ==
  \/ \E S \in (SUBSET At(bin, notBin + nbNotBin)) \ {{}} : PreUpdate(S)
  \/ PreUpdateTrue
  \/ \E S \in (SUBSET At(bin, notBin + nbNotBin)) \ {{}} : Inprocessing(S)
  \/ StepNotBin
  \/ EndNotBin
  \/ StepBin
  \/ EndBin
  \/ PostUpdate

OccSpec == OccInit /\ [][OccNext]_occVars

(* A loop that was entered goes on: it is plain sequential code. *)
FairOccSpec ==
  OccSpec /\ WF_occVars(StepNotBin \/ EndNotBin \/ StepBin \/ EndBin)

------------------------------------------------------------------------------
OccTypeOK ==
  /\ pc \in {"idle", "notBin", "bin"}
  /\ data \in [Clauses -> Clauses]
  /\ bin \in 0 .. notBin
  /\ nbBin \in 0 .. NbBin
  /\ nbNotBin \in 0 .. NbNotBin
  /\ i \in -1 .. (NbBin + NbNotBin)
  /\ isSat \in SUBSET Clauses
  /\ saved \in Seq([nbBin : 0 .. NbBin, nbNotBin : 0 .. NbNotBin,
                    isSat : SUBSET Clauses])

(* No clause is ever lost from the array or in it twice. *)
Permutation == \A p, q \in Clauses : data[p] = data[q] => p = q

(***************************************************************************)
(* Between two calls the list is one range of the array, as getClauses     *)
(* takes for granted, and holds the clauses not satisfied, no other.       *)
(***************************************************************************)
ListExact ==
  pc = "idle" =>
    /\ bin + nbBin = notBin
    /\ At(bin, notBin + nbNotBin) = Clauses \ isSat

(***************************************************************************)
(* However the loops have shuffled the array since, the two counters saved *)
(* for a level still delimit the clauses that were not satisfied then.     *)
(***************************************************************************)
SavedExact ==
  \A k \in DOMAIN saved :
     At(notBin - saved[k].nbBin, notBin + saved[k].nbNotBin)
        = Clauses \ saved[k].isSat

(* Both removal loops terminate. *)
LoopsEnd == pc # "idle" ~> pc = "idle"

(***************************************************************************)
(* The list is a set that backtracks: its content is the range of the      *)
(* array from bin to the last notBin clause, and a saved level is the      *)
(* range its two counters delimit in the array as it is now.               *)
(***************************************************************************)
BS == INSTANCE BacktrackableSet WITH
        Elements <- Clauses,
        content <- At(bin, notBin + nbNotBin),
        stack <- [k \in DOMAIN saved |->
                    At(notBin - saved[k].nbBin, notBin + saved[k].nbNotBin)]

Backtracks == BS!SetSpec

------------------------------------------------------------------------------
(* What the properties above rest on. *)

(***************************************************************************)
(* The loops: the clauses not satisfied are all in the range, and none is  *)
(* satisfied in the part of the range the running loop has been through.   *)
(***************************************************************************)
LoopInv ==
  /\ Clauses \ isSat \subseteq At(bin, notBin + nbNotBin)
  /\ pc # "bin" => bin + nbBin = notBin
  /\ pc = "idle" => At(bin, notBin + nbNotBin) \cap isSat = {}
  /\ pc = "notBin" => /\ i \in 0 .. nbNotBin
                      /\ At(notBin, notBin + i) \cap isSat = {}
  /\ pc = "bin" => /\ i \in (bin - 1) .. (notBin - 1)
                   /\ At(notBin, notBin + nbNotBin) \cap isSat = {}
                   /\ At(i + 1, notBin) \cap isSat = {}

(* The ranges of the saved levels are nested and hold the current one. *)
Nested ==
  /\ \A k \in DOMAIN saved : /\ notBin - saved[k].nbBin <= bin
                             /\ nbNotBin <= saved[k].nbNotBin
  /\ \A j, k \in DOMAIN saved :
       j <= k => /\ saved[j].nbBin <= saved[k].nbBin
                 /\ saved[j].nbNotBin <= saved[k].nbNotBin

(* The inductive invariant of OccSpec. *)
OccInv == OccTypeOK /\ Permutation /\ LoopInv /\ Nested /\ SavedExact
=============================================================================
