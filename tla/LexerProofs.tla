----------------------------- MODULE LexerProofs -----------------------------
(***************************************************************************)
(* Theorems about the class Lexer, for every set of lexer definitions and  *)
(* texts and every caller.                                                 *)
(***************************************************************************)
EXTENDS Lexer, RecognizerProofs

\* The inductive invariant of a lexer that may be reset: types need the stack.
IInv == TypeOK /\ StackMatchesWord

\* What reset() does not preserve, since it leaves buffered_ as it is.
Conserving == OffsetCountsReads /\ ReadConservation

\* A new lexer satisfies both.
LEMMA InitIInv == Init => IInv /\ Conserving
<1> SUFFICES ASSUME Init PROVE IInv /\ Conserving
  OBVIOUS
<1> USE DEF Init, FreshStream, FreshLexer, NoToken, NoWord, NoHistory
<1>1. def \in Defs /\ input \in Inputs
  OBVIOUS
<1>2. machine \in StateId
  BY <1>1, DefTypes
<1>3. Len(input) \in Nat
  BY <1>1, InputsAssumption, LenProperties
<1>4. RecognizerTypeOK
  BY <1>1, <1>2, <1>3 DEF RecognizerTypeOK, Control, Scanning, Marks
<1>5. TypeOK
  BY <1>4, CallerAssumption DEF TypeOK, NoIterator
<1>6. StackMatchesWord
  BY DEF StackMatchesWord
<1>7. OffsetCountsReads
  BY DEF OffsetCountsReads, Reads
<1>8. ReadConservation
  <2>1. Seen = <<>>
    BY DEF Seen, InFlight, Scanning
  <2> QED
    BY <2>1 DEF ReadConservation, SeenIsText
<1> QED
  BY <1>5, <1>6, <1>7, <1>8 DEF IInv, Conserving

\* reset() keeps the types, and no word is under way after it.
LEMMA ResetIInv == IInv /\ Reset => IInv'
<1> SUFFICES ASSUME IInv, Reset PROVE IInv'
  OBVIOUS
<1>1. RecognizerTypeOK /\ TypeOK
  BY DEF IInv, TypeOK
<1>2. /\ input' \in Inputs /\ pos' = 0 /\ good' = TRUE /\ offset' = 0
      /\ tokenOffset' = 0 /\ bol' = TRUE /\ pc' = "unopened"
      /\ consumed' = <<>> /\ tokens' = <<>>
      /\ UNCHANGED <<def, machine, buffered, token, literal, state, stack,
                     accepted, end>>
  BY DEF Reset, runVars
<1>3. Len(input') \in Nat
  BY <1>2, InputsAssumption, LenProperties
<1>4. RecognizerTypeOK'
  BY <1>1, <1>2, <1>3 DEF RecognizerTypeOK, Control
<1>5. resets' \in 0..MaxResets
  BY <1>1, CallerAssumption DEF Reset, TypeOK
<1>6. TypeOK'
  BY <1>1, <1>2, <1>4, <1>5 DEF TypeOK
<1>7. StackMatchesWord'
  BY <1>2 DEF StackMatchesWord
<1> QED
  BY <1>6, <1>7 DEF IInv

\* The caller's other steps are taken between two words and touch neither the
\* stream nor what was read.
CallerStep == CallRecognize \/ BeginIterator \/ Increment \/ SetMachine

LEMMA CallerStepFrame ==
  ASSUME IInv, CallerStep
  PROVE  /\ pc \in {"unopened", "returned", "thrown"}
         /\ pc' \in {"start", "unopened", "returned", "thrown"}
         /\ UNCHANGED <<input, pos, good, def, offset, bol, buffered, token,
                        tokenOffset, literal, state, stack, accepted, consumed,
                        tokens, resets>>
         /\ machine' \in StateId /\ end' \in Int
<1>1. /\ pc \in {"unopened", "returned", "thrown"}
      /\ pc' \in {"start", "unopened", "returned", "thrown"}
      /\ UNCHANGED <<input, pos, good, def, offset, bol, buffered, token,
                     tokenOffset, literal, state, stack, accepted, consumed,
                     tokens, resets>>
  BY DEF CallerStep, CallRecognize, BeginIterator, Increment, SetMachine, Call,
         Idle, streamVars, tokenVars, runVars, histVars, callerVars
<1>2. machine' \in StateId
  BY DefTypes DEF CallerStep, CallRecognize, BeginIterator, Increment,
                  SetMachine, Call, IInv, TypeOK, RecognizerTypeOK
<1>3. end' \in Int
  BY DEF CallerStep, CallRecognize, BeginIterator, Increment, SetMachine,
         callerVars, IInv, TypeOK
<1> QED
  BY <1>1, <1>2, <1>3

LEMMA CallerStepIInv == IInv /\ CallerStep => IInv'
<1> SUFFICES ASSUME IInv, CallerStep PROVE IInv'
  OBVIOUS
<1>1. RecognizerTypeOK'
  BY CallerStepFrame DEF IInv, TypeOK, RecognizerTypeOK, Control
<1>2. TypeOK'
  BY <1>1, CallerStepFrame DEF IInv, TypeOK
<1>3. StackMatchesWord'
  BY CallerStepFrame DEF StackMatchesWord
<1> QED
  BY <1>2, <1>3 DEF IInv

LEMMA CallerStepConserves == IInv /\ Conserving /\ CallerStep => Conserving'
<1> SUFFICES ASSUME IInv, Conserving, CallerStep PROVE Conserving'
  OBVIOUS
<1>1. OffsetCountsReads'
  BY CallerStepFrame DEF Conserving, OffsetCountsReads, Reads
<1>2. Seen' = Seen
  BY CallerStepFrame DEF Seen, InFlight, Scanning
<1>3. ReadConservation'
  BY <1>2, CallerStepFrame DEF Conserving, ReadConservation, Ascii, SeenIsText
<1> QED
  BY <1>1, <1>3 DEF Conserving

\* Stuttering changes nothing.
LEMMA StutterIInv ==
  ASSUME UNCHANGED vars
  PROVE  (IInv => IInv') /\ (Conserving => Conserving')
  BY DEF vars, recognizerVars, callerVars, streamVars, tokenVars, runVars,
         histVars, IInv, TypeOK, RecognizerTypeOK, StackMatchesWord, Lockstep,
         RolledBack, Conserving, OffsetCountsReads, Reads, ReadConservation,
         Ascii, SeenIsText, Seen, InFlight

\* Every step preserves the invariant.
LEMMA NextIInv == IInv /\ [Next]_vars => IInv'
<1> SUFFICES ASSUME IInv, [Next]_vars PROVE IInv'
  OBVIOUS
<1>1. CASE CallerStep
  BY <1>1, CallerStepIInv
<1>2. CASE Reset
  BY <1>2, ResetIInv
<1>3. CASE Word
  <2>1. Recognize /\ UNCHANGED <<end, resets>>
    BY <1>3 DEF Word, callerVars
  <2>2. RecognizerTypeOK /\ StackMatchesWord
    BY DEF IInv, TypeOK
  <2>3. RecognizerTypeOK'
    BY <2>1, <2>2, TypeStep
  <2>4. TypeOK'
    BY <2>1, <2>3 DEF IInv, TypeOK
  <2>5. StackMatchesWord'
    BY <2>1, <2>2, StackStep
  <2> QED
    BY <2>4, <2>5 DEF IInv
<1>4. CASE UNCHANGED vars
  BY <1>4, StutterIInv
<1> QED
  BY <1>1, <1>2, <1>3, <1>4 DEF Next, CallerStep

\* Every step but reset() conserves what was read.
LEMMA NextConserves ==
  IInv /\ Conserving /\ [Next]_vars /\ ~Reset => Conserving'
<1> SUFFICES ASSUME IInv, Conserving, [Next]_vars, ~Reset PROVE Conserving'
  OBVIOUS
<1>1. CASE CallerStep
  BY <1>1, CallerStepConserves
<1>2. CASE Word
  <2>1. /\ Recognize /\ RecognizerTypeOK /\ StackMatchesWord
        /\ OffsetCountsReads /\ ReadConservation
    BY <1>2 DEF Word, IInv, TypeOK, Conserving
  <2>2. OffsetCountsReads'
    BY <2>1, OffsetStep
  <2>3. ReadConservation'
    BY <2>1, ConservationStep
  <2> QED
    BY <2>2, <2>3 DEF Conserving
<1>3. CASE UNCHANGED vars
  BY <1>3, StutterIInv
<1> QED
  BY <1>1, <1>2, <1>3 DEF Next, CallerStep

\* IInv is an invariant: types, stack and in-flight characters keep in step through
\* every call and every step of recognizeOne() (Lexer-inl.h:84-323).
THEOREM Invariance == Spec => []IInv
<1>1. Init => IInv
  BY InitIInv
<1> QED
  BY <1>1, NextIInv, PTL DEF Spec

\* All members, locals and history variables of the lexer keep their types,
\* across reset() and setMachine() too.
THEOREM TypeCorrect == Spec => []TypeOK
<1>1. IInv => TypeOK
  BY DEF IInv
<1> QED
  BY <1>1, Invariance, PTL

\* recognizeOne() never pops an empty state stack, on a lexer that was reset
\* with characters left in buffered_ as on a new one (Lexer-inl.h:196-232).
THEOREM StackSafety == Spec => []StackMatchesWord
<1>1. IInv => StackMatchesWord
  BY DEF IInv
<1> QED
  BY <1>1, Invariance, PTL

\* Until reset() is called, reads are conserved, the stream fails at the end only,
\* and a token that is handed out has been consumed.
Undisturbed ==
  /\ resets = 0 => Conserving
  /\ ~good => pos = Len(input) \/ ReadErrors
  /\ pc = "returned" =>
       /\ tokens # <<>> /\ LastWord = literal
       /\ \E before \in Seq(Int) : consumed = before \o literal

LEMMA InitUndisturbed == Init => Undisturbed
  BY InitIInv DEF Init, FreshStream, Undisturbed

\* Reading makes the stream fail at the end of the text, or anywhere if reads may fail.
LEMMA FailsAtEnd ==
  ASSUME IInv, Undisturbed, Recognize
  PROVE  ~good' => pos' = Len(input') \/ ReadErrors
<1>1. CASE FetchEnd
  BY <1>1 DEF FetchEnd
<1>2. CASE FetchByte
  BY <1>2 DEF FetchByte
<1>3. CASE ~FetchEnd /\ ~FetchByte
  <2>1. UNCHANGED <<input, pos, good>>
    BY <1>3 DEF Recognize, StartWord, FetchBuffered, FetchPastEnd, StopAdvance, Backtrack,
                StopBacktrack, Rewind, StopRewind, Fail, Accept, PopState, streamVars
  <2> QED
    BY <2>1 DEF Undisturbed
<1> QED
  BY <1>1, <1>2, <1>3

\* A word is handed out by Accept, which has appended it to what was consumed.
LEMMA HandsOutConsumed ==
  ASSUME IInv, Recognize, pc' = "returned"
  PROVE  /\ tokens' # <<>> /\ LastWord' = literal'
         /\ \E before \in Seq(Int) : consumed' = before \o literal'
<1>1. Accept
  BY DEF Recognize, StartWord, FetchBuffered, FetchPastEnd, FetchEnd, FetchByte, Advancing, Step,
         StopAdvance, Backtrack, StopBacktrack, Rewind, StopRewind, Fail, PopState
<1> DEFINE t == [tag |-> token', offset |-> tokenOffset, word |-> literal]
           T == [tag : Int, offset : Int, word : Seq(Int)]
<1>2. consumed' = consumed \o literal /\ literal' = literal /\ tokens' = Append(tokens, t)
  BY <1>1 DEF Accept
<1>3. token' = def.acceptStates[state] /\ state \in DOMAIN def.acceptStates
  BY <1>1 DEF Accept, IsAcceptState
<1>4. t \in T
  BY <1>3, DefTypes DEF IInv, TypeOK, RecognizerTypeOK
<1>5. tokens \in Seq(T) /\ consumed \in Seq(Int)
  BY DEF IInv, TypeOK, RecognizerTypeOK
<1>6. t.word = literal
  OBVIOUS
<1> HIDE DEF t, T
<1>7. tokens' # <<>> /\ Len(tokens') = Len(tokens) + 1 /\ tokens'[Len(tokens) + 1] = t
  BY <1>2, <1>4, <1>5, AppendProperties
<1> QED
  BY <1>2, <1>5, <1>6, <1>7 DEF LastWord

LEMMA NextUndisturbed == IInv /\ Undisturbed /\ [Next]_vars => Undisturbed'
<1> SUFFICES ASSUME IInv, Undisturbed, [Next]_vars PROVE Undisturbed'
  OBVIOUS
<1>1. CASE Reset
  <2>1. resets' # 0
    BY <1>1, CallerAssumption DEF Reset, IInv, TypeOK
  <2>2. good' = TRUE /\ pc' = "unopened"
    BY <1>1 DEF Reset
  <2> QED
    BY <2>1, <2>2 DEF Undisturbed
<1>2. ASSUME ~Reset PROVE resets' = 0 => Conserving'
  <2>1. resets' = resets
    BY <1>2, CallerStepFrame DEF Next, CallerStep, Word, callerVars, vars
  <2> QED
    BY <1>2, <2>1, NextConserves DEF Undisturbed
<1>3. CASE CallerStep
  <2>1. pc' = "returned" => pc = "returned"
    BY <1>3 DEF CallerStep, CallRecognize, BeginIterator, Increment, SetMachine, Call
  <2>2. ~Reset
    BY <1>3, CallerStepFrame, CallerAssumption DEF Reset, IInv, TypeOK
  <2>3. LastWord' = LastWord
    BY <1>3, CallerStepFrame DEF LastWord
  <2> QED
    BY <1>2, <1>3, <2>1, <2>2, <2>3, CallerStepFrame DEF Undisturbed
<1>4. CASE Word
  <2>1. Recognize /\ resets' = resets
    BY <1>4 DEF Word, callerVars
  <2>2. ~Reset
    BY <2>1, CallerAssumption DEF Reset, IInv, TypeOK
  <2> QED
    BY <1>2, <2>1, <2>2, FailsAtEnd, HandsOutConsumed DEF Undisturbed
<1>5. CASE UNCHANGED vars
  <2>1. UNCHANGED <<good, pos, input, pc, tokens, literal, consumed, resets>>
    BY <1>5 DEF vars, recognizerVars, callerVars, streamVars, histVars
  <2>2. LastWord' = LastWord
    BY <2>1 DEF LastWord
  <2> QED
    BY <1>5, <2>1, <2>2, StutterIInv DEF Undisturbed
<1> QED
  BY <1>1, <1>3, <1>4, <1>5 DEF Next, CallerStep

\* Undisturbed is inductive relative to IInv, over every call of Lexer-inl.h:84-323.
THEOREM UndisturbedInvariance == Spec => []Undisturbed
<1> QED
  BY InitUndisturbed, NextUndisturbed, Invariance, PTL DEF Spec

\* As long as reset() is not called on a lexer in use, no character of a 7-bit
\* text is lost, doubled or reordered (Lexer-inl.h:168-246, 276-323).
THEOREM ConservationWithoutReset == Spec => [](resets = 0 => ReadConservation)
<1>1. Undisturbed => (resets = 0 => ReadConservation)
  BY DEF Undisturbed, Conserving
<1> QED
  BY <1>1, UndisturbedInvariance, PTL

\* Whoever stops at the end-of-file token has been given the whole text, whatever
\* the definition, the text and the calls made before (README.md:69).
THEOREM EofIsLast == Spec => []EofComesLast
<1>1. IInv /\ Undisturbed => EofComesLast
  <2> SUFFICES ASSUME IInv, Undisturbed, Ascii, resets = 0, pc = "returned", LastWord = EofWord
               PROVE  /\ Len(consumed) > pos
                      /\ \A i \in 1..pos : consumed[i] = input[i]
                      /\ pos = Len(input) \/ ReadErrors
    BY DEF EofComesLast
  <2>1. SeenIsText
    BY DEF Undisturbed, Conserving, ReadConservation
  <2>2. /\ consumed \in Seq(Int) /\ buffered \in Seq(Int)
        /\ pos \in Nat /\ good \in BOOLEAN /\ input \in Seq(0..255) /\ pos \in 0..Len(input)
    BY InputsAssumption DEF IInv, TypeOK, RecognizerTypeOK
  <2>3. PICK before \in Seq(Int) : consumed = before \o <<EndOfFile>>
    BY DEF Undisturbed, EofWord
  <2> DEFINE n == Len(consumed)
  <2>4. n \in Nat /\ n > 0 /\ consumed[n] = EndOfFile
    BY <2>3 DEF EndOfFile
  <2>5. Seen = consumed \o buffered
    BY <2>2 DEF Seen, InFlight, Scanning
  <2>6. Len(Seen) >= n /\ \A i \in 1..n : Seen[i] = consumed[i]
    BY <2>2, <2>5, ConcatProperties
  <2>7. \A i \in 1..pos : input[i] # EndOfFile
    <3>1. \A i \in 1..Len(input) : input[i] \in 0..255
      BY <2>2, ElementOfSeq
    <3>2. 1..pos \subseteq 1..Len(input)
      BY <2>2, LenProperties
    <3>3. EndOfFile \notin 0..255
      BY DEF EndOfFile
    <3> QED
      BY <3>1, <3>2, <3>3, Zenon
  <2> HIDE DEF n
  <2>8. n > pos
    <3> SUFFICES ASSUME n <= pos PROVE FALSE
      BY <2>2, <2>4
    <3>1. Seen[n] = EndOfFile /\ n \in 1..Len(Seen) /\ n \in 1..pos
      BY <2>2, <2>4, <2>6
    <3>2. Seen[n] = input[n]
      BY <2>1, <3>1 DEF SeenIsText
    <3> QED
      BY <2>7, <3>1, <3>2
  <2>9. ~good
    BY <2>1, <2>2, <2>4, <2>6, <2>8 DEF SeenIsText
  <2>10. ASSUME NEW i \in 1..pos PROVE consumed[i] = input[i]
    <3>1. i \in 1..n /\ i \in 1..Len(Seen) /\ i <= pos
      BY <2>2, <2>4, <2>6, <2>8, SeenType DEF IInv, TypeOK
    <3>2. Seen[i] = input[i]
      BY <2>1, <3>1 DEF SeenIsText
    <3> QED
      BY <2>6, <3>1, <3>2
  <2> QED
    BY <2>8, <2>9, <2>10 DEF Undisturbed, n
<1> QED
  BY <1>1, Invariance, UndisturbedInvariance, PTL

\* As long as no word is empty, the flag that selects the automaton tells whether a
\* line starts, also after reset(), and after LexerError (Lexer-inl.h:84, 237, 244).
THEOREM BolCorrect == Spec /\ []NoEmptyWord => []BolFollowsText
<1>1. Init => AtLineStart
  BY DEF Init, FreshLexer, NoHistory, AtLineStart
<1>2. IInv /\ AtLineStart /\ NoEmptyWord /\ [Next]_vars => AtLineStart'
  <2> SUFFICES ASSUME IInv, AtLineStart, NoEmptyWord, [Next]_vars PROVE AtLineStart'
    OBVIOUS
  <2>1. CASE Reset
    BY <2>1 DEF Reset, AtLineStart
  <2>2. CASE CallerStep
    BY <2>2, CallerStepFrame DEF AtLineStart
  <2>3. CASE Word
    BY <2>3, BolStep DEF Word, IInv, TypeOK
  <2>4. CASE UNCHANGED vars
    BY <2>4 DEF vars, recognizerVars, histVars, AtLineStart
  <2> QED
    BY <2>1, <2>2, <2>3, <2>4 DEF Next, CallerStep
<1>3. AtLineStart => BolFollowsText
  BY DEF AtLineStart, BolFollowsText
<1> QED
  BY <1>1, <1>2, <1>3, Invariance, PTL DEF Spec

=============================================================================
