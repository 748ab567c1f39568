------------------------------ MODULE LexerDef ------------------------------
(***************************************************************************)
(* The lexer definition that the compiler hands to the lexer at run time   *)
(* (klex/regular/LexerDef.h) and the read accesses the lexer makes to it.  *)
(*                                                                         *)
(* A definition is a record whose std::map members are functions: the keys *)
(* of the map are the function's domain.  transitions is keyed by pairs    *)
(* (state, symbol), which is what the nested map of TransitionMap is.      *)
(***************************************************************************)
EXTENDS Integers, Sequences

StateId == Nat

\* Two values of StateId that no automaton's state has: "no transition", and
\* the sentinel at the bottom of the lexer's state stack.  (The code takes
\* 808080 and either 101010 or the largest size_t for them.)
ErrorState == -2
BadState   == -1

\* The special symbol the input stream yields at its end, and the tag of the
\* rules marked with (ignore).
EndOfFile == -5
IgnoreTag == -1

LineFeed == 10

IsLexerDef(d) ==
  /\ "INITIAL" \in DOMAIN d.initialStates
  /\ \A name \in DOMAIN d.initialStates : d.initialStates[name] \in StateId
  /\ d.containsBeginOfLineStates \in BOOLEAN
  /\ \A t \in DOMAIN d.transitions :
        /\ t \in StateId \X Int
        /\ d.transitions[t] \in StateId
  /\ \A q \in DOMAIN d.acceptStates : q \in StateId /\ d.acceptStates[q] \in Int
  /\ \A q \in DOMAIN d.backtrackingStates :
        /\ q \in DOMAIN d.acceptStates
        /\ d.backtrackingStates[q] \in StateId

\* TransitionMap::apply: the state reached, or ErrorState where none is defined.
Apply(d, q, symbol) ==
  IF <<q, symbol>> \in DOMAIN d.transitions
  THEN d.transitions[<<q, symbol>>]
  ELSE ErrorState

IsAcceptState(d, q) == q \in DOMAIN d.acceptStates

\* The accept state's entry in backtrackingStates marks a rule r/s: the word
\* ends where the automaton was in the state recorded there.
HasLookahead(d, q) == q \in DOMAIN d.backtrackingStates

\* What Machine enumerates, of some start conditions.
Machines(d, names) == {d.initialStates[name] : name \in names \cap DOMAIN d.initialStates}

DefaultMachine(d) == d.initialStates["INITIAL"]

\* The lexer refuses a definition with ^-rules when it was instantiated
\* without begin-of-line support.
Constructible(d, requiresBeginOfLine) ==
  requiresBeginOfLine \/ ~d.containsBeginOfLineStates
=============================================================================
