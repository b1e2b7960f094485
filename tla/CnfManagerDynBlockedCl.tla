----------------------- MODULE CnfManagerDynBlockedCl -----------------------
(***************************************************************************)
(* Blocked clauses: src/src/formulaManager/cnf/CnfManagerDynBlockedCl.cpp. *)
(* A clause with a literal l that is not counted is dropped when every     *)
(* clause with ~l it has a resolvent with, not a tautology, is satisfied   *)
(* or dropped itself.  One of these clauses is watched; the watches are    *)
(* not undone by postUpdate.                                               *)
(***************************************************************************)
EXTENDS CnfManagerDyn

VARIABLES
  watch,  \* the clause watched for each pair of m_clauseBlockedIndex
  queue,  \* m_indexSatClauses: the satisfied clauses not gone through
  todo,   \* the pairs left of the list of the clause being gone through
  gone    \* m_idxBlockedClauses: the clauses dropped by this inprocessing

blockedVars == << watch, queue, todo, gone >>
blVars == << cnfVars, blockedVars >>

(* listIdxNonTaut of the clause c and its literal l. *)
NonTaut(f, c, l) ==
  {d \in DOMAIN f : /\ -l \in ToSet(f[d])
                    /\ \A m \in ToSet(f[d]) : m = -l \/ -m \notin ToSet(f[c])}

(* The literals a clause may be blocked on. *)
Blockable(f, c) == {l \in ToSet(f[c]) : VarOf(l) \notin Decision}

(* What the constructor drops: its loop, then inprocessing with no literal. *)
ClosedUnder(f, S) ==
  \A c \in DOMAIN f : (\E l \in Blockable(f, c) : NonTaut(f, c, l) \subseteq S) => c \in S
InitBlocked(f) ==
  {c \in DOMAIN f : \A S \in SUBSET DOMAIN f : ClosedUnder(f, S) => c \in S}

(* The pairs kept in the lists; each watches a clause that is left. *)
BlockedInit ==
  /\ queue = {}
  /\ todo = {}
  /\ gone = {}
  /\ \/ CnfInit /\ watch = << >>
     \/ /\ manager = "blocked"
        /\ \E f \in Formulas :
             LET left == DOMAIN f \ InitBlocked(f)
                 pairs == {b \in left \X Lit : b[2] \in Blockable(f, b[1])}
             IN /\ Started(f, InitBlocked(f))
                /\ watch \in [pairs -> left]
                /\ \A b \in pairs : watch[b] \in NonTaut(f, b[1], b[2])

------------------------------------------------------------------------------
(* preUpdate, up to the call of inprocessing. *)
BlockedPreUpdate(lits) ==
  /\ manager = "blocked"
  /\ PreUpdate(lits)
  /\ queue' = NewlySat(lits)
  /\ gone' = {}
  /\ UNCHANGED << watch, todo >>

Running == manager = "blocked" /\ pc = "inprocessing"

(* The next clause of m_indexSatClauses. *)
NextSat ==
  /\ Running
  /\ todo = {}
  /\ \E idx \in queue :
       /\ queue' = queue \ {idx}
       /\ todo' = {b \in DOMAIN watch : watch[b] = idx}
  /\ UNCHANGED << cnfVars, watch, gone >>

(* Mutant of Others: nobody looks past the clause that is watched. *)
OthersNone(b) == {}

(* The other clauses that keep the pair b from being blocked. *)
Others(b) == NonTaut(m_clauses, b[1], b[2]) \ isSat

(* The clause is gone already, or its literal has a value. *)
Idle(b) == b[1] \in isSat \/ ~Undef(b[2])

(* The clause is satisfied or its literal assigned: the watch stays. *)
WatchStays(b) ==
  /\ Idle(b)
  /\ UNCHANGED << cnfVars, watch, queue, gone >>

(* Another clause is not satisfied: it is watched. *)
WatchMoves(b) ==
  /\ ~Idle(b)
  /\ \E d \in Others(b) : watch' = [watch EXCEPT ![b] = d]
  /\ UNCHANGED << cnfVars, queue, gone >>

(* None is left: the clause is blocked. *)
Block(b) ==
  /\ ~Idle(b)
  /\ Others(b) = {}
  /\ isSat' = isSat \cup {b[1]}
  /\ queue' = queue \cup {b[1]}
  /\ gone' = gone \cup {b[1]}
  /\ levels' = [levels EXCEPT ![1].clauses = SaveClauses({b[1]}, @)]
  /\ UNCHANGED << manager, pc, m_clauses, m_currentValue, m_occurrence, nbUnsat,
                  watch >>

Examine(b) ==
  /\ Running
  /\ todo' = todo \ {b}
  /\ WatchStays(b) \/ WatchMoves(b) \/ Block(b)

(* removeSatisfiedClauses(m_idxBlockedClauses), the end of preUpdate. *)
RemoveBlocked ==
  /\ Running
  /\ todo = {}
  /\ queue = {}
  /\ LET lists == UNION {LitsOf(c) : c \in gone} IN
       /\ m_occurrence' = [l \in Lit |-> IF l \in lists THEN m_occurrence[l] \ isSat
                                         ELSE m_occurrence[l]]
       /\ levels' = [levels EXCEPT ![1].occs =
            [l \in DOMAIN @ \cup lists |-> IF l \in DOMAIN @ THEN @[l]
                                           ELSE m_occurrence[l]]]
  /\ pc' = "idle"
  /\ UNCHANGED << manager, m_clauses, m_currentValue, isSat, nbUnsat, blockedVars >>

BlockedNext ==
  \/ manager # "blocked" /\ CnfNext /\ UNCHANGED blockedVars
  \/ \E lits \in SUBSET {l \in Lit : Undef(l)} : BlockedPreUpdate(lits)
  \/ NextSat
  \/ \E b \in todo : Examine(b)
  \/ RemoveBlocked
  \/ manager = "blocked" /\ PostUpdate /\ UNCHANGED blockedVars

BlockedSpec == BlockedInit /\ [][BlockedNext]_blVars
=============================================================================
