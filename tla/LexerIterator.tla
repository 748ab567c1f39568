---------------------------- MODULE LexerIterator ----------------------------
(***************************************************************************)
(* LexerIterator and the Lexable range it iterates over                    *)
(* (klex/regular/Lexable.h), driven by the loop                            *)
(*     for (i = lexable.begin(); i != lexable.end(); ++i) ...              *)
(* whose body may call i.setMachine().  The caller may leave the loop at   *)
(* any word, on LexerError, or at the end, and start over with begin().    *)
(***************************************************************************)
EXTENDS Recognizer

CONSTANTS
  MaxPasses,     \* how often begin() is called
  SwitchTo,      \* the start conditions the loop's body may switch to
  EofReads       \* how many end-of-file symbols one word may read

ASSUME ClientAssumption == MaxPasses \in Nat /\ EofReads \in Nat \ {0}

VARIABLES
  eof,       \* eof_: how often ++ met an exhausted stream
  passes,    \* history: calls of begin() so far
  previous   \* history: the tokens of the pass before this one

clientVars == <<eof, passes, previous>>
vars == <<recognizerVars, clientVars>>

Init ==
  /\ def \in {d \in Defs : Constructible(d, RequiresBeginOfLine)}
  /\ \E text \in Inputs : FreshStream(text)
  /\ FreshLexer
  /\ NoToken
  /\ NoWord
  /\ NoHistory
  /\ pc = "unopened"
  /\ eof = 0
  /\ passes = 0
  /\ previous = <<>>

\* Mutant: the stream is set back but its flags are not cleared.
BeginWithoutClear ==
  /\ pc \in {"unopened", "returned", "thrown", "ended"}
  /\ passes < MaxPasses
  /\ passes' = passes + 1
  /\ previous' = tokens
  /\ pos' = 0
  /\ machine' = DefaultMachine(def)
  /\ offset' = 0
  /\ bol' = TRUE
  /\ buffered' = <<>>
  /\ eof' = 0
  /\ literal' = <<>>
  /\ consumed' = <<>>
  /\ tokens' = <<>>
  /\ pc' = "start"
  /\ UNCHANGED <<input, good, def, tokenVars, runVars>>

\* Lexable::begin(): the stream's flags are cleared, it is set back to its
\* first character, and a new iterator recognizes its first word.
Begin ==
  /\ pc \in {"unopened", "returned", "thrown", "ended"}
  /\ passes < MaxPasses
  /\ passes' = passes + 1
  /\ previous' = tokens
  /\ pos' = 0
  /\ good' = TRUE
  /\ machine' = DefaultMachine(def)
  /\ offset' = 0
  /\ bol' = TRUE
  /\ buffered' = <<>>
  /\ eof' = 0
  /\ literal' = <<>>
  /\ consumed' = <<>>
  /\ tokens' = <<>>
  /\ pc' = "start"
  /\ UNCHANGED <<input, def, tokenVars, runVars>>

\* operator== against end(), whose offset_ is 0 and whose eof_ is 2.
AtEnd == offset = 0 \/ eof = 2

Increment ==
  /\ pc = "returned"
  /\ ~AtEnd
  /\ eof' = IF good THEN eof ELSE eof + 1
  /\ pc' = "start"
  /\ UNCHANGED <<streamVars, def, machine, offset, bol, buffered, tokenVars,
                 literal, runVars, histVars, passes, previous>>

SetMachine ==
  /\ pc = "returned"
  /\ machine' \in Machines(def, SwitchTo)
  /\ UNCHANGED <<streamVars, def, offset, bol, buffered, tokenVars, literal,
                 pc, runVars, histVars, clientVars>>

\* i == end(): the loop is left.
Leave ==
  /\ pc = "returned"
  /\ AtEnd
  /\ pc' = "ended"
  /\ UNCHANGED <<streamVars, def, machine, offset, bol, buffered, tokenVars,
                 literal, runVars, histVars, clientVars>>

Word == Recognize /\ UNCHANGED clientVars

Next == Begin \/ Increment \/ SetMachine \/ Leave \/ Word

Spec == Init /\ [][Next]_vars

\* The loop is a single thread that does nothing else: a call runs to its
\* end, and the loop goes on until i == end() or an exception leaves it.
FairSpec ==
  Spec /\ WF_vars(Word) /\ WF_vars(Increment) /\ WF_vars(Leave)

-----------------------------------------------------------------------------
TypeOK ==
  /\ RecognizerTypeOK
  /\ eof \in Nat
  /\ passes \in 0..MaxPasses
  /\ previous \in Seq([tag : Int, offset : Int, word : Seq(Int)])

EofWord == <<EndOfFile>>

\* The tokens the loop's body was given: not the one ++ arrived at end() with.
Handed(word) == \E i \in 1..(Len(tokens) - 1) : tokens[i].word = word

\* When the loop over a text that is not empty is left because i == end(), its
\* body was given everything up to the end-of-file token.  end() is told from eof_ and offset_, which the
\* overshoot of one word and the words rolled back behind it both move
\* (Lexable.h:252-275).
NothingLost == pc = "ended" /\ input # <<>> => Handed(EofWord)

\* begin() starts over, wherever the pass before it was left: if neither calls
\* setMachine(), both see the same tokens for as long as both go on
\* (Lexable.h:197-202).
Replay ==
  Machines(def, SwitchTo) \subseteq {DefaultMachine(def)} =>
    \A i \in DOMAIN tokens \cap DOMAIN previous : tokens[i] = previous[i]

\* The loop ends: every pass that goes on is left at end() or by LexerError.
PassesEnd == pc = "start" ~> pc \in {"ended", "thrown"}

-----------------------------------------------------------------------------
(* How LexerIterator implements MaximalMunch: many steps of the recognizer, *)
(* overshooting and rolling back, are one step that takes the longest word. *)

Munched ==
  INSTANCE MaximalMunch WITH
    at     <- Len(consumed),
    tokens <- [i \in DOMAIN tokens |->
                 [tag |-> tokens[i].tag, word |-> tokens[i].word]],
    mode   <- IF pc \in Scanning \cup {"start"} THEN "ready" ELSE pc

\* The words a LexerIterator recognizes, rolled-back characters, lookahead
\* rules, begin-of-line rules and machine switches included, are the ones the
\* longest-match rule cuts out of the text (Lexable.h:296-377).
ImplementsMaximalMunch == Munched!Spec

\* What that takes: no read fails within the text, its bytes come back from
\* rollback() as they were (Lexable.h:458), and there is no way through an
\* automaton on more end-of-file symbols than EofReads.
StatesOf(d) == {t[1] : t \in DOMAIN d.transitions} \cup Range(d.transitions)
PlainReading ==
  /\ ~ReadErrors
  /\ \A text \in Inputs : \A i \in DOMAIN text : text[i] < 128
  /\ \A d \in Defs : \A path \in [0..EofReads -> StatesOf(d)] :
       \E n \in 1..EofReads : path[n] # Apply(d, path[n - 1], EndOfFile)

=============================================================================
