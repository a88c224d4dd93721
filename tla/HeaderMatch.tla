------------------------------ MODULE HeaderMatch ------------------------------
(***************************************************************************)
(* match2bdd (predicate_node.cpp): one pass over a match string that       *)
(* conjoins a literal of the next BDD variable for every 0 and 1.  The     *)
(* variables of the literals are all different, so the conjunction is a    *)
(* cube: a function from the constrained variables to their bits.          *)
(***************************************************************************)
EXTENDS Ternary, FiniteSets

CONSTANT MatchStrings  \* the strings rule files may hold: sequences of Chars

ASSUME StringAssumption == MatchStrings \subseteq Seq(Chars)

VARIABLES
  match,   \* the string
  i,       \* characters read
  idx,     \* the next BDD variable
  result,  \* the cube built so far
  status   \* "scanning", "done" or "aborted"

vars == <<match, i, idx, result, status>>

Init ==
  /\ match \in MatchStrings
  /\ i = 0
  /\ idx = 0
  /\ result = [v \in {} |-> "0"]
  /\ status = "scanning"

\* What match[i] may yield: the terminating null of a std::string, which is
\* no match character, and past it, where reading is undefined, anything.
Read ==
  IF i < Len(match) THEN {match[i + 1]}
  ELSE IF i = Len(match) THEN {"sep"} ELSE Chars

\* Mutant: one character too many.
Scanning_Past == status = "scanning" /\ i <= MatchLen

Scanning == status = "scanning" /\ i < MatchLen

\* An open bit: its variable stays unconstrained.
Wildcard ==
  /\ Scanning /\ "x" \in Read
  /\ i' = i + 1
  /\ idx' = idx + 1
  /\ UNCHANGED <<match, result, status>>

\* Mutant: a 0 is conjoined without moving on to the next variable.
FixBit_ZeroStays(c) ==
  /\ Scanning /\ c \in Read
  /\ idx \in HeaderVars
  /\ result' = [v \in DOMAIN result \cup {idx} |->
                  IF v = idx THEN c ELSE result[v]]
  /\ i' = i + 1
  /\ idx' = IF c = "1" THEN idx + 1 ELSE idx
  /\ UNCHANGED <<match, status>>

\* A 1 or a 0: the literal bdd_ithvar(idx) or bdd_nithvar(idx) is conjoined.
FixBit(c) ==
  /\ Scanning /\ c \in Read
  /\ idx \in HeaderVars
  /\ result' = [v \in DOMAIN result \cup {idx} |->
                  IF v = idx THEN c ELSE result[v]]
  /\ i' = i + 1
  /\ idx' = idx + 1
  /\ UNCHANGED <<match, status>>

\* The BDD package has no variable idx: its error handler ends the process.
BadVariable(c) ==
  /\ Scanning /\ c \in Read
  /\ idx \notin HeaderVars
  /\ status' = "aborted"
  /\ UNCHANGED <<match, i, idx, result>>

\* Any other character is passed over.
SkipOther ==
  /\ Scanning /\ "sep" \in Read
  /\ i' = i + 1
  /\ UNCHANGED <<match, idx, result, status>>

Finish ==
  /\ status = "scanning" /\ ~Scanning
  /\ status' = "done"
  /\ UNCHANGED <<match, i, idx, result>>

Stopped == status # "scanning" /\ UNCHANGED vars

Next ==
  \/ Wildcard \/ SkipOther \/ Finish \/ Stopped
  \/ \E c \in Bits : FixBit(c) \/ BadVariable(c)

Spec == Init /\ [][Next]_vars

-----------------------------------------------------------------------------
(***************************************************************************)
(* Properties.                                                             *)
(***************************************************************************)

\* Every variable holds a value of its type, and the scan never leaves the
\* match_len characters it is meant to read.
TypeOK ==
  /\ match \in Seq(Chars)
  /\ i \in Nat /\ (i > 0 => i <= MatchLen)
  /\ idx \in 0..i
  /\ result \in [DOMAIN result -> Bits]
  /\ DOMAIN result \subseteq HeaderVars
  /\ status \in {"scanning", "done", "aborted"}

\* The headers that satisfy the cube.
Accepted == {h \in HeaderSpace : \A v \in DOMAIN result : h[v] = result[v]}

\* A well-formed match string of any length yields exactly the headers it
\* stands for: match2bdd's variable index keeps step with the separators.
DenotesMatch ==
  status = "done" /\ WellFormed(match) => Accepted = Denotation(match)

\* A well-formed match string never asks the BDD package for a variable it
\* does not have, however the separators shift idx against i.
WellFormedLoads == WellFormed(match) => status # "aborted"

\* How many of the first p characters are a 0, a 1 or an x, wherever the
\* separators are (match2bdd checks neither their number nor their place).
BitsAmong(p) == Cardinality({q \in 1..p : match[q] # "sep"})

\* A misplaced or missing separator never reorders bits: when match2bdd
\* returns for a string of full length, its v-th bit character, counted from
\* 0, went to variable v, and no other variable is constrained.
BitsInOrder ==
  status = "done" /\ Len(match) >= MatchLen =>
    /\ \A p \in 1..MatchLen :
         LET v == BitsAmong(p - 1)
         IN  match[p] # "sep" =>
               IF v \in DOMAIN result THEN result[v] = match[p] ELSE match[p] = "x"
    /\ \A v \in DOMAIN result : v < BitsAmong(MatchLen)

\* What match2bdd makes of its string: the headers the string stands for if
\* it is well-formed, and bits in their order if it is not.
BitsInPlace == DenotesMatch /\ WellFormedLoads /\ BitsInOrder
=============================================================================
