---------------------------- MODULE MaximalMunch ----------------------------
(***************************************************************************)
(* What a lexer promises: it cuts the text, from the left, into the        *)
(* longest words its definition accepts.  One step per word, without a     *)
(* stream, a push-back buffer or a state stack.                            *)
(***************************************************************************)
EXTENDS LexerDef, SequencesExt

CONSTANTS
  Defs, Inputs, RequiresBeginOfLine,
  SwitchTo,  \* the start conditions that may be switched to
  EofReads   \* no definition reads more end-of-file symbols than this in a row

VARIABLES
  input, def,
  at,        \* how many characters the words so far took
  machine, bol,
  tokens,    \* tag and text of every word that was not ignored
  mode       \* "unopened", "ready", "returned", "thrown" or "ended"

munchVars == <<input, def, at, machine, bol, tokens, mode>>

\* The text goes on forever as end-of-file symbols.
Symbol(i) == IF i <= Len(input) THEN input[i] ELSE EndOfFile

StartState ==
  IF RequiresBeginOfLine /\ bol /\ def.containsBeginOfLineStates
  THEN machine + 1
  ELSE machine

Horizon == Len(input) + EofReads

\* The state after each number of symbols read from the current position.
Run ==
  LET run[n \in 0..Horizon] ==
        IF n = 0 THEN StartState
        ELSE Apply(def, run[n - 1], Symbol(at + n))
  IN run

Matches == {n \in 0..Horizon : IsAcceptState(def, Run[n])}
Longest == Max(Matches)

\* The length of the word: of a lookahead rule r/s the longest part after
\* which the automaton was in the state recorded for the end of r.
WordLength ==
  IF HasLookahead(def, Run[Longest])
  THEN LET ends == {n \in 0..Longest :
                      Run[n] = def.backtrackingStates[Run[Longest]]}
       IN  IF ends = {} THEN 0 ELSE Max(ends)
  ELSE Longest

Munch ==
  /\ mode = "ready"
  /\ Matches # {}
  /\ at' = at + WordLength
  /\ LET tag  == def.acceptStates[Run[Longest]]
         text == [i \in 1..WordLength |-> Symbol(at + i)]
     IN  /\ bol' \in IF text = <<>> THEN BOOLEAN ELSE {Last(text) = LineFeed}
         /\ IF tag = IgnoreTag
            THEN UNCHANGED <<tokens, mode>>
            ELSE /\ tokens' = Append(tokens, [tag |-> tag, word |-> text])
                 /\ mode' = "returned"
  /\ UNCHANGED <<input, def, machine>>

NoMatch ==
  /\ mode = "ready"
  /\ Matches = {}
  /\ mode' = "thrown"
  /\ UNCHANGED <<input, def, at, machine, bol, tokens>>

Proceed ==
  /\ mode = "returned"
  /\ mode' = "ready"
  /\ UNCHANGED <<input, def, at, machine, bol, tokens>>

Switch ==
  /\ mode = "returned"
  /\ machine' \in Machines(def, SwitchTo)
  /\ UNCHANGED <<input, def, at, bol, tokens, mode>>

Finish ==
  /\ mode = "returned"
  /\ mode' = "ended"
  /\ UNCHANGED <<input, def, at, machine, bol, tokens>>

Restart ==
  /\ mode # "ready"
  /\ at' = 0
  /\ machine' = DefaultMachine(def)
  /\ bol' = TRUE
  /\ tokens' = <<>>
  /\ mode' = "ready"
  /\ UNCHANGED <<input, def>>

Init ==
  /\ input \in Inputs
  /\ def \in Defs
  /\ at = 0
  /\ machine = DefaultMachine(def)
  /\ bol = TRUE
  /\ tokens = <<>>
  /\ mode = "unopened"

Next == Munch \/ NoMatch \/ Proceed \/ Switch \/ Finish \/ Restart

Spec == Init /\ [][Next]_munchVars

=============================================================================
