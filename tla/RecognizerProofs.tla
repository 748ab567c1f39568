--------------------------- MODULE RecognizerProofs ---------------------------
(***************************************************************************)
(* What every step of the recognizer preserves, for every set of lexer     *)
(* definitions and every text.  The modules of the two classes that        *)
(* contain it cite these lemmas for their Word action.                     *)
(***************************************************************************)
EXTENDS Recognizer, SequenceLemmas

\* The state a lexer definition leads to is a state or ErrorState, and its
\* other maps have the values their types say.
LEMMA DefTypes ==
  ASSUME NEW d \in Defs
  PROVE  /\ \A q, c : Apply(d, q, c) \in StateId \cup {ErrorState}
         /\ \A q \in DOMAIN d.acceptStates : d.acceptStates[q] \in Int
         /\ \A q \in DOMAIN d.acceptStates : q \in StateId
         /\ \A q \in DOMAIN d.backtrackingStates : q \in DOMAIN d.acceptStates
         /\ DefaultMachine(d) \in StateId
         /\ \A names : \A m \in Machines(d, names) : m \in StateId
<1>1. IsLexerDef(d)
  BY DefsAssumption
<1>2. \A q, c : Apply(d, q, c) \in StateId \cup {ErrorState}
  BY <1>1 DEF IsLexerDef, Apply
<1> QED
  BY <1>1, <1>2 DEF IsLexerDef, DefaultMachine, Machines

LEMMA InitialStateType ==
  ASSUME RecognizerTypeOK
  PROVE  InitialState \in StateId
  BY DEF RecognizerTypeOK, InitialState, StateId

LEMMA InputType ==
  ASSUME RecognizerTypeOK
  PROVE  input \in Seq(Int) /\ Len(input) \in Nat
<1>1. input \in Seq(0..255)
  BY InputsAssumption DEF RecognizerTypeOK
<1>2. 0..255 \subseteq Int
  OBVIOUS
<1>3. input \in Seq(Int)
  BY ONLY <1>1, <1>2, SeqMonotonic
<1> QED
  BY <1>3

\* Reading one symbol, from wherever it comes.
LEMMA StepType ==
  ASSUME RecognizerTypeOK, NEW c \in Int, Step(c)
  PROVE  /\ literal' \in Seq(Int) /\ stack' \in Seq(Marks) /\ state' \in Marks
         /\ state' # BadState
         /\ Len(literal') = Len(literal) + 1 /\ Len(stack') = Len(stack) + 1
<1>1. Narrow(c) \in Int
  BY DEF Narrow
<1>2. state' \in StateId \cup {ErrorState}
  BY DefTypes DEF RecognizerTypeOK, Step
<1>3. state' \in Marks /\ state' # BadState
  BY <1>2 DEF Marks, StateId, ErrorState, BadState
<1> QED
  BY <1>1, <1>3 DEF RecognizerTypeOK, Step

\* Going back by one state, which needs a state to go back to.
LEMMA PopType ==
  ASSUME RecognizerTypeOK, stack # <<>>, PopState
  PROVE  /\ state' \in Marks /\ stack' \in Seq(Marks)
         /\ literal' \in Seq(Int) /\ buffered' \in Seq(Int) /\ offset' \in Int
<1>1. Front(stack) \in Seq(Marks) /\ Last(stack) \in Marks
  BY FrontLast DEF RecognizerTypeOK
<1>2. literal # <<>> => Front(literal) \in Seq(Int) /\ Last(literal) \in Int
  BY FrontLast DEF RecognizerTypeOK
<1>3. literal' \in Seq(Int)
  BY <1>2 DEF PopState
<1>4. buffered' \in Seq(Int) /\ offset' \in Int
  <2>1. CASE literal = <<>> \/ Last(literal) = -1
    BY <2>1 DEF PopState, RecognizerTypeOK
  <2>2. CASE ~(literal = <<>> \/ Last(literal) = -1)
    <3> DEFINE back == <<Last(literal)>>
    <3>1. back \in Seq(Int)
      BY <1>2, <2>2
    <3> HIDE DEF back
    <3>2. back \o buffered \in Seq(Int) /\ offset - 1 \in Int
      BY <3>1, ConcatProperties DEF RecognizerTypeOK
    <3>3. buffered' = back \o buffered /\ offset' = offset - 1
      BY <2>2 DEF PopState, back
    <3> QED
      BY <3>2, <3>3
  <2> QED
    BY <2>1, <2>2
<1> QED
  BY <1>1, <1>3, <1>4 DEF PopState

\* There is a state on the stack whenever one is popped.
LEMMA StackNotEmpty ==
  ASSUME StackMatchesWord, RecognizerTypeOK, Backtrack \/ Rewind
  PROVE  stack # <<>>
<1>1. CASE Backtrack
  <2>1. Lockstep
    BY <1>1 DEF Backtrack, Backtracking, StackMatchesWord, RolledBack
  <2> QED
    BY <2>1 DEF Lockstep, RecognizerTypeOK
<1>2. CASE Rewind
  BY <1>2 DEF Rewind, Rewinding
<1> QED
  BY <1>1, <1>2

\* Type correctness is preserved by every step of recognize().
LEMMA TypeStep ==
  ASSUME RecognizerTypeOK, StackMatchesWord, Recognize
  PROVE  RecognizerTypeOK'
<1> USE DEF streamVars, tokenVars, runVars, histVars
<1>1. CASE StartWord
  <2>1. InitialState \in Marks /\ <<BadState>> \in Seq(Marks)
    BY InitialStateType DEF Marks
  <2>2. <<>> \in Seq(Int)
    OBVIOUS
  <2> QED
    BY <1>1, <2>1, <2>2 DEF StartWord, RecognizerTypeOK, Control, Scanning
<1>2. CASE FetchBuffered
  <2>1. Head(buffered) \in Int /\ Tail(buffered) \in Seq(Int)
    BY <1>2, HeadTailProperties DEF FetchBuffered, RecognizerTypeOK
  <2>2. literal' \in Seq(Int) /\ stack' \in Seq(Marks) /\ state' \in Marks
    BY <1>2, <2>1, StepType DEF FetchBuffered
  <2> QED
    BY <1>2, <2>1, <2>2 DEF FetchBuffered, Step, RecognizerTypeOK
<1>3. CASE FetchPastEnd
  <2>1. literal' \in Seq(Int) /\ stack' \in Seq(Marks) /\ state' \in Marks
    BY <1>3, StepType DEF FetchPastEnd, EndOfFile
  <2> QED
    BY <1>3, <2>1 DEF FetchPastEnd, Step, RecognizerTypeOK
<1>4. CASE FetchEnd
  <2>1. literal' \in Seq(Int) /\ stack' \in Seq(Marks) /\ state' \in Marks
    BY <1>4, StepType DEF FetchEnd, EndOfFile
  <2>2. good' = FALSE /\ offset' = offset + 1 /\ UNCHANGED <<input, pos, buffered>>
    BY <1>4 DEF FetchEnd
  <2>3. UNCHANGED <<def, machine, bol, tokenVars, pc, accepted, histVars>>
    BY <1>4 DEF FetchEnd, Step
  <2>4. good' \in BOOLEAN /\ UNCHANGED <<input, pos, buffered>>
    BY <2>2, Zenon
  <2>5. offset' \in Int
    BY <2>2 DEF RecognizerTypeOK
  <2> QED
    BY <2>1, <2>3, <2>4, <2>5 DEF RecognizerTypeOK
<1>5. CASE FetchByte
  <2>1. pos' \in 0..Len(input) /\ input[pos + 1] \in Int
    BY <1>5, InputType, ElementOfSeq DEF FetchByte, RecognizerTypeOK
  <2>2. literal' \in Seq(Int) /\ stack' \in Seq(Marks) /\ state' \in Marks
    BY <1>5, <2>1, StepType DEF FetchByte
  <2> QED
    BY <1>5, <2>1, <2>2 DEF FetchByte, Step, RecognizerTypeOK
<1>6. CASE StopAdvance
  BY <1>6 DEF StopAdvance, RecognizerTypeOK, Control, Scanning
<1>7. CASE Backtrack \/ Rewind
  <2>1. stack # <<>> /\ PopState
    BY <1>7, StackNotEmpty DEF Backtrack, Rewind
  <2>2. /\ state' \in Marks /\ stack' \in Seq(Marks) /\ literal' \in Seq(Int)
        /\ buffered' \in Seq(Int) /\ offset' \in Int
    BY <2>1, PopType
  <2> QED
    BY <2>1, <2>2 DEF PopState, RecognizerTypeOK
<1>8. CASE StopBacktrack
  BY <1>8 DEF StopBacktrack, RecognizerTypeOK, Control, Scanning
<1>9. CASE StopRewind
  BY <1>9 DEF StopRewind, RecognizerTypeOK, Control, Scanning
<1>10. CASE Fail
  BY <1>10 DEF Fail, RecognizerTypeOK, Control
<1>11. CASE Accept
  <2>1. token' \in Int
    BY <1>11, DefTypes DEF Accept, IsAcceptState, RecognizerTypeOK
  <2>2. bol' \in BOOLEAN
    BY <1>11 DEF Accept
  <2>3. consumed' \in Seq(Int)
    BY <1>11, ConcatProperties DEF Accept, RecognizerTypeOK
  <2>4. /\ tokens' \in Seq([tag : Int, offset : Int, word : Seq(Int)])
        /\ pc' \in Control
    <3>1. CASE token' = IgnoreTag
      BY <1>11, <3>1 DEF Accept, RecognizerTypeOK, Control
    <3>2. CASE token' # IgnoreTag
      <4> DEFINE new == [tag |-> token', offset |-> tokenOffset, word |-> literal]
      <4>1. new \in [tag : Int, offset : Int, word : Seq(Int)]
        BY <2>1 DEF RecognizerTypeOK
      <4>2. tokens' = Append(tokens, new) /\ pc' = "returned"
        BY <1>11, <3>2 DEF Accept
      <4> HIDE DEF new
      <4> QED
        BY <4>1, <4>2 DEF RecognizerTypeOK, Control
    <3> QED
      BY <3>1, <3>2
  <2> QED
    BY <1>11, <2>1, <2>2, <2>3, <2>4 DEF Accept, RecognizerTypeOK
<1> QED
  BY <1>1, <1>2, <1>3, <1>4, <1>5, <1>6, <1>7, <1>8, <1>9, <1>10, <1>11
     DEF Recognize


\* Reading a symbol puts one state and one character on top.
LEMMA StepLockstep ==
  ASSUME RecognizerTypeOK, Lockstep, NEW c \in Int, Step(c)
  PROVE  Lockstep'
<1>1. /\ Len(literal') = Len(literal) + 1 /\ Len(stack') = Len(stack) + 1
      /\ state' # BadState
  BY StepType
<1>2. stack' = Append(stack, state) /\ Len(stack) \in Nat /\ Len(literal) \in Nat
  BY DEF Step, RecognizerTypeOK
<1>3. \A i \in 1..Len(stack) : stack'[i] = stack[i]
  BY <1>2 DEF RecognizerTypeOK
<1>4. stack'[Len(stack) + 1] = state
  BY <1>2 DEF RecognizerTypeOK
<1> QED
  BY <1>1, <1>2, <1>3, <1>4 DEF Lockstep

\* Going back takes one of each off again, until both are used up.
LEMMA PopLockstep ==
  ASSUME RecognizerTypeOK, Lockstep, PopState
  PROVE  (Lockstep \/ RolledBack)'
<1>1. /\ stack # <<>> /\ Len(stack) \in Nat /\ Len(literal) \in Nat
      /\ Len(stack) = Len(literal) + 1
  BY DEF Lockstep, RecognizerTypeOK
<1>2. /\ stack' \in Seq(Marks) /\ Len(stack') = Len(stack) - 1
      /\ \A i \in 1..(Len(stack) - 1) : stack'[i] = stack[i]
      /\ state' = stack[Len(stack)]
  BY <1>1, FrontLast DEF PopState, RecognizerTypeOK, Last
<1>3. CASE literal = <<>>
  <2>1. Len(stack) = 1 /\ literal' = <<>>
    BY <1>1, <1>3 DEF PopState
  <2>2. state' = BadState /\ Len(stack') = 0
    <3>1. state' = stack[1] /\ Len(stack') = 1 - 1
      BY <1>2, <2>1
    <3> QED
      BY <3>1 DEF Lockstep
  <2>3. stack' = <<>>
    BY <1>2, <2>2, EmptySeq
  <2> QED
    BY <2>1, <2>2, <2>3 DEF RolledBack
<1>4. CASE literal # <<>>
  <2>1. Len(literal') = Len(literal) - 1
    BY <1>4, FrontLast DEF PopState, RecognizerTypeOK
  <2>2. Len(literal) > 0
    BY <1>4, EmptySeq DEF RecognizerTypeOK
  <2> QED
    BY <1>1, <1>2, <2>1, <2>2 DEF Lockstep
<1> QED
  BY <1>3, <1>4

\* The stack and the word stay in lockstep in every step of recognize().
LEMMA StackStep ==
  ASSUME RecognizerTypeOK, StackMatchesWord, Recognize
  PROVE  StackMatchesWord'
<1>1. CASE StartWord
  <2>1. InitialState # BadState
    BY InitialStateType DEF StateId, BadState
  <2>2. Lockstep'
    BY <1>1, <2>1 DEF StartWord, Lockstep
  <2> QED
    BY <1>1, <2>2 DEF StartWord, StackMatchesWord
<1>2. CASE FetchBuffered \/ FetchPastEnd \/ FetchEnd \/ FetchByte
  <2>1. PICK c \in Int : Step(c)
    <3>1. CASE FetchBuffered
      <4>1. Head(buffered) \in Int
        BY <3>1, HeadTailProperties DEF FetchBuffered, RecognizerTypeOK
      <4> QED
        BY <3>1, <4>1 DEF FetchBuffered
    <3>2. CASE FetchPastEnd
      BY <3>2 DEF FetchPastEnd, EndOfFile
    <3>3. CASE FetchEnd
      BY <3>3 DEF FetchEnd, EndOfFile
    <3>4. CASE FetchByte
      <4>1. input[pos + 1] \in Int
        BY <3>4, InputType, ElementOfSeq DEF FetchByte, RecognizerTypeOK
      <4> QED
        BY <3>4, <4>1 DEF FetchByte
    <3> QED
      BY <1>2, <3>1, <3>2, <3>3, <3>4
  <2>2. pc = "advance"
    BY <1>2 DEF FetchBuffered, FetchPastEnd, FetchEnd, FetchByte, Advancing
  <2>3. Lockstep'
    BY <2>1, <2>2, StepLockstep DEF StackMatchesWord
  <2>4. pc' = "advance"
    BY <2>1, <2>2 DEF Step
  <2> QED
    BY <2>3, <2>4 DEF StackMatchesWord
<1>3. CASE StopAdvance
  <2>1. Lockstep'
    BY <1>3 DEF StopAdvance, StackMatchesWord, Lockstep, runVars
  <2> QED
    BY <1>3, <2>1 DEF StopAdvance, StackMatchesWord
<1>4. CASE Backtrack \/ Rewind
  <2>1. stack # <<>> /\ PopState /\ pc \in {"backtrack", "rewind"}
    BY <1>4, StackNotEmpty DEF Backtrack, Rewind
  <2>2. Lockstep
    BY <2>1 DEF StackMatchesWord, RolledBack
  <2>3. (Lockstep \/ RolledBack)'
    BY <2>1, <2>2, PopLockstep
  <2>4. UNCHANGED <<pc, def, accepted>>
    BY <2>1 DEF PopState
  <2> QED
    BY <2>1, <2>3, <2>4 DEF StackMatchesWord, HasLookahead
<1>5. CASE StopBacktrack
  <2>1. /\ accepted' = state /\ UNCHANGED <<def, state, stack, literal>>
        /\ pc' = IF HasLookahead(def, state) THEN "rewind" ELSE "decide"
    BY <1>5 DEF StopBacktrack
  <2>2. (Lockstep \/ RolledBack)'
    BY <1>5, <2>1 DEF StopBacktrack, StackMatchesWord, Lockstep, RolledBack
  <2>3. ~IsAcceptState(def, state) => literal = <<>>
    BY <1>5 DEF StopBacktrack, Backtracking, StackMatchesWord, Lockstep, RolledBack
  <2> QED
    BY <2>1, <2>2, <2>3 DEF StackMatchesWord, HasLookahead, IsAcceptState
<1>6. CASE StopRewind
  <2>1. IsAcceptState(def, accepted)
    BY <1>6, DefTypes DEF StopRewind, StackMatchesWord, HasLookahead,
                          IsAcceptState, RecognizerTypeOK
  <2> QED
    BY <1>6, <2>1 DEF StopRewind, StackMatchesWord, IsAcceptState
<1>7. CASE Fail
  BY <1>7 DEF Fail, StackMatchesWord
<1>8. CASE Accept
  <2>1. pc' \in {"start", "returned"}
    BY <1>8 DEF Accept
  <2> QED
    BY <2>1 DEF StackMatchesWord
<1> QED
  BY <1>1, <1>2, <1>3, <1>4, <1>5, <1>6, <1>7, <1>8 DEF Recognize


\* offset_ keeps counting the reads in every step of recognize().
LEMMA OffsetStep ==
  ASSUME RecognizerTypeOK, StackMatchesWord, OffsetCountsReads, Recognize
  PROVE  OffsetCountsReads'
<1>1. CASE FetchBuffered
  <2>1. Len(buffered') = Len(buffered) - 1
    BY <1>1, HeadTailProperties DEF FetchBuffered, RecognizerTypeOK
  <2>2. offset' = offset + 1 /\ UNCHANGED <<pos, good>>
    BY <1>1 DEF FetchBuffered, streamVars
  <2>3. Len(buffered) \in Nat /\ Reads \in Int
    BY DEF RecognizerTypeOK, Reads
  <2> QED
    BY <2>1, <2>2, <2>3 DEF OffsetCountsReads, Reads
<1>2. CASE FetchPastEnd
  BY <1>2 DEF FetchPastEnd, streamVars, OffsetCountsReads, Reads
<1>3. CASE FetchEnd
  <2>1. offset' = offset + 1 /\ UNCHANGED <<pos, buffered>>
    BY <1>3 DEF FetchEnd
  <2>2. Reads = pos /\ Reads' = pos + 1
    BY <1>3 DEF FetchEnd, Reads
  <2>3. Len(buffered) \in Nat /\ pos \in Nat
    BY DEF RecognizerTypeOK
  <2> QED
    BY <2>1, <2>2, <2>3 DEF OffsetCountsReads
<1>4. CASE FetchByte
  <2>1. offset' = offset + 1 /\ pos' = pos + 1 /\ UNCHANGED buffered
    BY <1>4 DEF FetchByte
  <2>2. Reads = pos /\ Reads' = pos'
    BY <1>4 DEF FetchByte, Reads
  <2>3. Len(buffered) \in Nat /\ pos \in Nat
    BY DEF RecognizerTypeOK
  <2> QED
    BY <2>1, <2>2, <2>3 DEF OffsetCountsReads
<1>5. CASE Backtrack \/ Rewind
  <2>1. PopState /\ UNCHANGED <<pos, good>>
    BY <1>5 DEF Backtrack, Rewind, PopState, streamVars
  <2>2. CASE literal = <<>> \/ Last(literal) = -1
    BY <2>1, <2>2 DEF PopState, OffsetCountsReads, Reads
  <2>3. CASE ~(literal = <<>> \/ Last(literal) = -1)
    <3> DEFINE back == <<Last(literal)>>
    <3>1. back \in Seq(Int) /\ Len(back) = 1
      BY <2>3, FrontLast DEF RecognizerTypeOK
    <3>2. offset' = offset - 1 /\ buffered' = back \o buffered
      BY <2>1, <2>3 DEF PopState
    <3> HIDE DEF back
    <3>a. buffered \in Seq(Int) /\ Len(buffered) \in Nat
      BY DEF RecognizerTypeOK
    <3>b. Len(back \o buffered) = Len(back) + Len(buffered)
      BY <3>1, <3>a, ConcatProperties
    <3>3. Len(buffered') = 1 + Len(buffered) /\ Len(buffered) \in Nat
      BY <3>1, <3>2, <3>a, <3>b
    <3>4. Reads' = Reads /\ Reads \in Int
      BY <2>1 DEF Reads, RecognizerTypeOK
    <3> QED
      BY <3>2, <3>3, <3>4 DEF OffsetCountsReads
  <2> QED
    BY <2>2, <2>3
<1>6. CASE \/ StartWord \/ StopAdvance \/ StopBacktrack \/ StopRewind
           \/ Fail \/ Accept
  <2>1. UNCHANGED <<pos, good, offset, buffered>>
    BY <1>6 DEF StartWord, StopAdvance, StopBacktrack, StopRewind, Fail, Accept,
                streamVars
  <2> QED
    BY <2>1 DEF OffsetCountsReads, Reads
<1> QED
  BY <1>1, <1>2, <1>3, <1>4, <1>5, <1>6 DEF Recognize

\* The characters of a 7-bit text come back from literal as they went in, and
\* none of them is the -1 that rollback drops.
LEMMA NarrowPlain ==
  \A x \in 0..255 : x < 128 => Narrow(x) = x /\ x # -1
  BY DEF Narrow

\* So none of the characters the lexer holds changes when it is put back.
LEMMA PlainCharacters ==
  ASSUME RecognizerTypeOK, Ascii, SeenIsText
  PROVE  \A i \in 1..Len(Seen) : Narrow(Seen[i]) = Seen[i] /\ Seen[i] # -1
<1> SUFFICES ASSUME NEW i \in 1..Len(Seen)
             PROVE  Narrow(Seen[i]) = Seen[i] /\ Seen[i] # -1
  OBVIOUS
<1>1. CASE i <= pos
  <2>1. Seen[i] = input[i] /\ i \in 1..Len(input)
    BY <1>1, InputType DEF SeenIsText, RecognizerTypeOK
  <2>2. input \in Seq(0..255)
    BY InputsAssumption DEF RecognizerTypeOK
  <2>3. input[i] \in 0..255
    BY <2>1, <2>2, ElementOfSeq
  <2>4. input[i] < 128
    BY <2>1, <2>2, LenProperties DEF Ascii
  <2>5. Seen[i] \in 0..255 /\ Seen[i] < 128
    BY <2>1, <2>3, <2>4
  <2> QED
    BY <2>5, NarrowPlain
<1>2. CASE ~(i <= pos)
  <2>1. Seen[i] = -5
    BY <1>2 DEF SeenIsText, EndOfFile
  <2>2. Narrow(-5) = -5 /\ -5 # -1
    BY DEF Narrow
  <2> QED
    BY <2>1, <2>2
<1> QED
  BY <1>1, <1>2

\* Seen is a sequence of symbols; of a running word it includes literal.
LEMMA SeenType ==
  ASSUME RecognizerTypeOK
  PROVE  /\ Seen \in Seq(Int)
         /\ pc \in Scanning => Seen = (consumed \o literal) \o buffered
         /\ pc \notin Scanning => Seen = (consumed \o <<>>) \o buffered
<1>1. InFlight \in Seq(Int)
  BY DEF InFlight, RecognizerTypeOK
<1>2. consumed \o InFlight \in Seq(Int)
  BY <1>1, ConcatProperties DEF RecognizerTypeOK
<1>3. Seen \in Seq(Int)
  BY <1>2, ConcatProperties DEF Seen, RecognizerTypeOK
<1> QED
  BY <1>3 DEF Seen, InFlight

\* A symbol that is new to the lexer goes to the end of what it has seen.
LEMMA GrowSeen ==
  ASSUME RecognizerTypeOK, SeenIsText, NEW c \in Int, UNCHANGED input,
         Seen' = Append(Seen, c),
         \/ good /\ pos' = pos + 1 /\ good' = good /\ c = input[pos + 1]
         \/ pos' = pos /\ good' = FALSE /\ c = EndOfFile
  PROVE  SeenIsText'
<1>1. /\ Seen \in Seq(Int) /\ Len(Seen) \in Nat /\ pos \in Nat
      /\ Len(Seen') = Len(Seen) + 1
  BY SeenType DEF RecognizerTypeOK
<1>2. /\ \A i \in 1..Len(Seen) : Seen'[i] = Seen[i]
      /\ Seen'[Len(Seen) + 1] = c
  BY <1>1
<1>3. CASE good /\ pos' = pos + 1 /\ good' = good /\ c = input[pos + 1]
  <2>1. Len(Seen) = pos /\ pos' <= Len(Seen') /\ Len(Seen') = pos'
    BY <1>1, <1>3 DEF SeenIsText
  <2>2. \A i \in 1..Len(Seen') : i <= pos' /\ Seen'[i] = input[i]
    BY <1>1, <1>2, <1>3, <2>1 DEF SeenIsText
  <2> QED
    BY <2>1, <2>2 DEF SeenIsText
<1>4. CASE pos' = pos /\ good' = FALSE /\ c = EndOfFile
  <2>1. pos' <= Len(Seen') /\ pos <= Len(Seen)
    BY <1>1, <1>4 DEF SeenIsText
  <2>2. ASSUME NEW i \in 1..Len(Seen')
        PROVE  Seen'[i] = IF i <= pos' THEN input'[i] ELSE EndOfFile
    <3>1. CASE i \in 1..Len(Seen)
      BY <1>2, <1>4, <3>1 DEF SeenIsText
    <3>2. CASE i = Len(Seen) + 1
      BY <1>1, <1>2, <1>4, <2>1, <3>2
    <3> QED
      BY <1>1, <3>1, <3>2
  <2> QED
    BY <1>4, <2>1, <2>2 DEF SeenIsText
<1> QED
  BY <1>3, <1>4


\* Rolling a character back moves it from the word to the buffer.
LEMMA PopKeepsSeen ==
  ASSUME RecognizerTypeOK, Ascii, SeenIsText, pc \in Scanning, PopState
  PROVE  Seen' = Seen
<1>1. /\ Seen = (consumed \o literal) \o buffered
      /\ UNCHANGED <<pc, consumed>>
  BY SeenType DEF PopState, histVars
<1>2. Seen' = (consumed \o literal') \o buffered'
  BY <1>1 DEF Seen, InFlight
<1>t. consumed \in Seq(Int) /\ literal \in Seq(Int) /\ buffered \in Seq(Int)
  BY DEF RecognizerTypeOK
<1>3. CASE literal = <<>>
  BY <1>1, <1>2, <1>3 DEF PopState
<1>4. CASE literal # <<>>
  <2>1. Last(literal) # -1
    <3>1. \E i \in 1..Len((consumed \o literal) \o buffered) :
             ((consumed \o literal) \o buffered)[i] = Last(literal)
      BY <1>4, <1>t, BorderElements, Zenon
    <3>2. PICK i \in 1..Len(Seen) : Seen[i] = Last(literal)
      BY <1>1, <3>1, Zenon
    <3> QED
      BY <3>2, PlainCharacters
  <2>2. literal' = Front(literal) /\ buffered' = <<Last(literal)>> \o buffered
    BY <1>4, <2>1 DEF PopState
  <2>3. (consumed \o Front(literal)) \o (<<Last(literal)>> \o buffered)
          = (consumed \o literal) \o buffered
    BY <1>4, <1>t, MoveLeft, Zenon
  <2> QED
    BY <1>1, <1>2, <2>2, <2>3
<1> QED
  BY <1>3, <1>4

\* No step of recognize() loses, doubles or changes a character.
LEMMA ConservationStep ==
  ASSUME RecognizerTypeOK, StackMatchesWord, ReadConservation, Recognize
  PROVE  ReadConservation'
<1>0. UNCHANGED input
  BY DEF Recognize, StartWord, FetchBuffered, FetchPastEnd, FetchEnd, FetchByte,
         StopAdvance, Backtrack, StopBacktrack, Rewind, StopRewind, Fail, Accept,
         PopState, streamVars
<1> SUFFICES ASSUME Ascii PROVE SeenIsText'
  BY <1>0 DEF ReadConservation, Ascii
<1>s. SeenIsText
  BY DEF ReadConservation
<1>k. ASSUME Seen' = Seen, UNCHANGED <<pos, good>>
      PROVE  SeenIsText'
  BY <1>0, <1>s, <1>k DEF SeenIsText
<1>t. consumed \in Seq(Int) /\ literal \in Seq(Int) /\ buffered \in Seq(Int)
  BY DEF RecognizerTypeOK
<1>1. CASE StartWord
  <2>1. /\ pc \notin Scanning /\ pc' \in Scanning /\ literal' = <<>>
        /\ UNCHANGED <<consumed, buffered, pos, good>>
    BY <1>1 DEF StartWord, Scanning, streamVars, histVars
  <2> QED
    BY <1>k, <2>1 DEF Seen, InFlight
<1>2. CASE FetchBuffered
  <2>1. /\ pc \in Scanning /\ buffered # <<>> /\ buffered' = Tail(buffered)
        /\ literal' = Append(literal, Narrow(Head(buffered)))
        /\ UNCHANGED <<pc, consumed, pos, good>>
    BY <1>2 DEF FetchBuffered, Advancing, Step, Scanning, streamVars, histVars
  <2>2. Seen = (consumed \o literal) \o buffered
    BY <2>1, SeenType
  <2>3. PICK i \in 1..Len(Seen) : Seen[i] = Head(buffered)
    <3>1. \E i \in 1..Len((consumed \o literal) \o buffered) :
             ((consumed \o literal) \o buffered)[i] = Head(buffered)
      BY <1>t, <2>1, BorderElements, Zenon, SMTT(30)
    <3> QED
      BY <2>2, <3>1, Zenon
  <2>4. Narrow(Head(buffered)) = Head(buffered)
    BY <1>s, <2>3, PlainCharacters
  <2>5. Seen' = (consumed \o Append(literal, Head(buffered))) \o Tail(buffered)
    BY <2>1, <2>4 DEF Seen, InFlight
  <2>6. (consumed \o Append(literal, Head(buffered))) \o Tail(buffered)
          = (consumed \o literal) \o buffered
    BY <1>t, <2>1, MoveRight, Zenon
  <2>7. Seen' = Seen
    BY <2>2, <2>5, <2>6, Zenon
  <2> QED
    BY <1>k, <2>1, <2>7
<1>3. ASSUME NEW c \in Int, Narrow(c) = c, Advancing, Step(c), buffered = <<>>,
             UNCHANGED buffered
      PROVE  Seen' = Append(Seen, c)
  <2>1. /\ pc \in Scanning /\ literal' = Append(literal, c)
        /\ UNCHANGED <<pc, consumed>>
    BY <1>3 DEF Advancing, Step, Scanning, histVars
  <2>2. Seen = (consumed \o literal) \o <<>>
    BY <1>3, <2>1, SeenType
  <2>3. Seen' = (consumed \o Append(literal, c)) \o <<>>
    BY <1>3, <2>1 DEF Seen, InFlight
  <2> QED
    BY <1>3, <1>t, <2>2, <2>3, Extend
<1>e. EndOfFile \in Int /\ Narrow(EndOfFile) = EndOfFile
  BY DEF EndOfFile, Narrow
<1>4. CASE FetchPastEnd
  <2>1. Seen' = Append(Seen, EndOfFile)
    BY <1>3, <1>4, <1>e DEF FetchPastEnd
  <2>2. pos' = pos /\ good' = FALSE
    BY <1>4 DEF FetchPastEnd, streamVars, RecognizerTypeOK
  <2> QED
    BY <1>0, <1>e, <1>s, <2>1, <2>2, GrowSeen
<1>5. CASE FetchEnd
  <2>1. Seen' = Append(Seen, EndOfFile)
    BY <1>3, <1>5, <1>e DEF FetchEnd
  <2>2. pos' = pos /\ good' = FALSE
    BY <1>5 DEF FetchEnd
  <2> QED
    BY <1>0, <1>e, <1>s, <2>1, <2>2, GrowSeen
<1>6. CASE FetchByte
  <2> DEFINE c == input[pos + 1]
  <2>1. input \in Seq(0..255) /\ pos + 1 \in 1..Len(input)
    BY <1>6, InputsAssumption DEF FetchByte, RecognizerTypeOK
  <2>2. c \in 0..255
    BY <2>1, ElementOfSeq
  <2>3. c < 128
    BY <2>1, LenProperties DEF Ascii
  <2>4. good /\ pos' = pos + 1 /\ good' = good
    BY <1>6 DEF FetchByte
  <2>5. Advancing /\ Step(c) /\ buffered = <<>> /\ UNCHANGED buffered
    BY <1>6 DEF FetchByte
  <2>6. c = input[pos + 1]
    OBVIOUS
  <2> HIDE DEF c
  <2>7. c \in Int /\ Narrow(c) = c
    BY <2>2, <2>3 DEF Narrow
  <2>8. Seen' = Append(Seen, c)
    BY <1>3, <2>5, <2>7
  <2> QED
    BY <1>0, <1>s, <2>4, <2>6, <2>7, <2>8, GrowSeen
<1>7. CASE Backtrack \/ Rewind
  <2>1. PopState /\ pc \in Scanning /\ UNCHANGED <<pos, good>>
    BY <1>7 DEF Backtrack, Rewind, PopState, Scanning, streamVars
  <2> QED
    BY <1>k, <1>s, <2>1, PopKeepsSeen
<1>8. CASE StopAdvance \/ StopBacktrack \/ StopRewind
  <2>1. /\ pc \in Scanning /\ pc' \in Scanning
        /\ UNCHANGED <<consumed, literal, buffered, pos, good>>
    BY <1>8 DEF StopAdvance, StopBacktrack, StopRewind, Scanning, streamVars,
                histVars
  <2> QED
    BY <1>k, <2>1 DEF Seen, InFlight
<1>9. CASE Fail
  <2>1. /\ pc \in Scanning /\ pc' \notin Scanning /\ literal = <<>>
        /\ UNCHANGED <<consumed, literal, buffered, pos, good>>
    BY <1>9 DEF Fail, Scanning, streamVars, histVars, StackMatchesWord
  <2> QED
    BY <1>k, <2>1 DEF Seen, InFlight
<1>10. CASE Accept
  <2>1. /\ pc \in Scanning /\ pc' \notin Scanning
        /\ consumed' = consumed \o literal
        /\ UNCHANGED <<literal, buffered, pos, good>>
    BY <1>10 DEF Accept, Scanning, streamVars
  <2>2. Seen = (consumed \o literal) \o buffered
    BY <2>1, SeenType
  <2>3. Seen' = ((consumed \o literal) \o <<>>) \o buffered
    BY <2>1 DEF Seen, InFlight
  <2> QED
    BY <1>k, <1>t, <2>1, <2>2, <2>3, Absorb
<1> QED
  BY <1>1, <1>2, <1>4, <1>5, <1>6, <1>7, <1>8, <1>9, <1>10 DEF Recognize

\* Unless a word is empty, whose last character is undefined (Lexable.h:374), the flag
\* follows the text in every step of recognize().
NoEmptyWord == pc = "decide" /\ IsAcceptState(def, state) => literal # <<>>
AtLineStart == bol <=> consumed = <<>> \/ Last(consumed) = LineFeed

LEMMA BolStep ==
  ASSUME RecognizerTypeOK, NoEmptyWord, AtLineStart, Recognize
  PROVE  AtLineStart'
<1>1. CASE Accept
  <2>1. /\ literal # <<>> /\ consumed' = consumed \o literal
        /\ bol' = (Last(literal) = LineFeed)
    BY <1>1 DEF Accept, NoEmptyWord
  <2>2. /\ consumed \in Seq(Int) /\ literal \in Seq(Int)
        /\ Len(literal) \in Nat /\ Len(consumed) \in Nat /\ Len(literal) > 0
    BY <2>1, EmptySeq DEF RecognizerTypeOK
  <2>3. IsJoined(consumed', consumed, literal) /\ consumed' \in Seq(Int)
    BY <2>1, <2>2, ConcatAt
  <2> DEFINE c == consumed'
  <2>4. Len(c) > 0 /\ c[Len(c)] = literal[Len(literal)]
    <3>1. Len(c) = Len(consumed) + Len(literal) /\ Len(literal) \in 1..Len(literal)
      BY <2>2, <2>3 DEF IsJoined
    <3>2. c[Len(consumed) + Len(literal)] = literal[Len(literal)]
      BY <2>3, <3>1 DEF IsJoined
    <3> HIDE DEF c
    <3> QED
      BY <2>2, <3>1, <3>2
  <2>5. consumed' # <<>> /\ Last(consumed') = Last(literal)
    BY <2>3, <2>4, EmptySeq DEF Last
  <2> QED
    BY <2>1, <2>5 DEF AtLineStart
<1>2. CASE ~Accept
  <2>1. UNCHANGED <<bol, consumed>>
    BY <1>2 DEF Recognize, StartWord, FetchBuffered, FetchPastEnd, FetchEnd, FetchByte,
       StopAdvance, Backtrack, StopBacktrack, Rewind, StopRewind, Fail, Step, PopState, histVars
  <2> QED
    BY <2>1 DEF AtLineStart
<1> QED
  BY <1>1, <1>2

\* Where the word, and where the first of the characters put back is in Seen.
LEMMA PlacesInSeen ==
  ASSUME NEW c \in Seq(Int), NEW l \in Seq(Int), NEW b \in Seq(Int)
  PROVE  /\ Len((c \o l) \o b) = Len(c) + Len(l) + Len(b)
         /\ \A i \in 1..Len(l) : ((c \o l) \o b)[Len(c) + i] = l[i]
         /\ b # <<>> => ((c \o l) \o b)[Len(c) + Len(l) + 1] = Head(b)
<1> DEFINE m == c \o l
           s == m \o b
<1>1. /\ Len(c) \in Nat /\ Len(l) \in Nat /\ Len(b) \in Nat
      /\ b # <<>> => Len(b) > 0 /\ Head(b) = b[1]
  BY EmptySeq
<1>2. m \in Seq(Int) /\ IsJoined(m, c, l)
  BY ConcatAt
<1>3. IsJoined(s, m, b)
  BY <1>2, ConcatAt
<1> HIDE DEF m, s
<1>4. \A i \in 1..Len(l) : s[Len(c) + i] = l[i]
  <2> TAKE i \in 1..Len(l)
  <2>1. Len(c) + i \in 1..Len(m) /\ m[Len(c) + i] = l[i]
    BY <1>1, <1>2 DEF IsJoined
  <2> QED
    BY <1>3, <2>1 DEF IsJoined
<1>5. b # <<>> => s[Len(c) + Len(l) + 1] = Head(b)
  BY <1>1, <1>2, <1>3 DEF IsJoined
<1>6. Len(s) = Len(c) + Len(l) + Len(b)
  BY <1>1, <1>2, <1>3 DEF IsJoined
<1> QED
  BY <1>4, <1>5, <1>6 DEF s, m

-----------------------------------------------------------------------------
(* Offsets, where the end of the file ends words.                          *)

\* The last place that a word may begin at.
Limit == IF Len(consumed) <= pos THEN pos ELSE Len(consumed)
ReadTo == Len(consumed) + Len(literal)

\* One end-of-file symbol too many was read, and is waiting or in the word.
OneBeyond ==
  /\ Len(Seen) = Limit + 1
  /\ pc = "advance" /\ ReadTo = Limit + 1 => state = ErrorState \/ EndsWithEof(def, state)
  /\ pc = "backtrack" => ReadTo <= Limit \/ state = ErrorState
  /\ pc \in {"rewind", "decide"} => ReadTo <= Limit

\* The symbol was that of a rule, and another one was read behind it.
TwoBeyond ==
  /\ pc \in Scanning
  /\ Len(Seen) = Limit + 2
  /\ \/ /\ pc \in {"advance", "backtrack"} /\ state = ErrorState /\ ReadTo = Limit + 2
        /\ EndsWithEof(def, Last(stack))
     \/ /\ pc \in {"backtrack", "decide"} /\ EndsWithEof(def, state) /\ ReadTo = Limit + 1

EndInSight == ~good => OneBeyond \/ TwoBeyond
TokenStands == pc \in Scanning => tokenOffset = WordStart
Offsets == EndInSight /\ TokenStands

\* What they are counted from.
LEMMA Lengths ==
  ASSUME RecognizerTypeOK, EofEndsWords, ReadConservation, OffsetCountsReads
  PROVE  /\ Len(consumed) \in Nat /\ Len(literal) \in Nat /\ Len(buffered) \in Nat /\ pos \in Nat
         /\ SeenIsText /\ offset = Reads - Len(buffered)
         /\ pc \in Scanning => Len(Seen) = ReadTo + Len(buffered)
         /\ pc \notin Scanning => Len(Seen) = Len(consumed) + Len(buffered)
<1>1. /\ consumed \in Seq(Int) /\ literal \in Seq(Int) /\ buffered \in Seq(Int)
      /\ pos \in Nat /\ <<>> \in Seq(Int) /\ Len(<<>>) = 0
  BY DEF RecognizerTypeOK
<1>2. SeenIsText
  BY DEF EofEndsWords, ReadConservation, Ascii, RecognizerTypeOK
<1>3. pc \in Scanning => Len(Seen) = ReadTo + Len(buffered)
  BY <1>1, SeenType, PlacesInSeen DEF ReadTo
<1>4. pc \notin Scanning => Len(Seen) = Len(consumed) + Len(buffered)
  <2>1. ASSUME pc \notin Scanning PROVE Seen = (consumed \o <<>>) \o buffered
    BY <2>1, SeenType
  <2> DEFINE e == <<>>
  <2>2. e \in Seq(Int) /\ Len(e) = 0
    OBVIOUS
  <2> HIDE DEF e
  <2>3. Len((consumed \o e) \o buffered) = Len(consumed) + Len(e) + Len(buffered)
    BY <1>1, <2>2, PlacesInSeen
  <2> QED
    BY <1>1, <2>1, <2>2, <2>3 DEF e
<1> QED
  BY <1>1, <1>2, <1>3, <1>4 DEF OffsetCountsReads

\* Between two words offset_ is where the next one starts.
LEMMA OffsetBetweenWords ==
  ASSUME RecognizerTypeOK, EofEndsWords, ReadConservation, OffsetCountsReads, EndInSight,
         pc \notin Scanning
  PROVE  offset = WordStart
<1>1. /\ Len(consumed) \in Nat /\ Len(buffered) \in Nat /\ pos \in Nat
      /\ SeenIsText /\ offset = Reads - Len(buffered)
      /\ Len(Seen) = Len(consumed) + Len(buffered)
  BY Lengths
<1>2. CASE good
  BY <1>1, <1>2 DEF SeenIsText, Reads, WordStart
<1>3. CASE ~good
  BY <1>1, <1>3 DEF EndInSight, OneBeyond, TwoBeyond, Limit, Reads, WordStart
<1> QED
  BY <1>2, <1>3

\* An end-of-file symbol leads to the end of a word or nowhere.
LEMMA AfterEof ==
  ASSUME EofEndsWords, NEW d \in Defs, NEW q
  PROVE  LET r == Apply(d, q, EndOfFile) IN r = ErrorState \/ EndsWithEof(d, r)
<1> DEFINE t == <<q, EndOfFile>>
<1>1. t[2] = EndOfFile
  OBVIOUS
<1>2. CASE t \in DOMAIN d.transitions
  <2>1. EndsWithEof(d, d.transitions[t])
    BY <1>1, <1>2 DEF EofEndsWords
  <2> QED
    BY <1>2, <2>1 DEF Apply
<1>3. CASE t \notin DOMAIN d.transitions
  BY <1>3 DEF Apply
<1> QED
  BY <1>2, <1>3

\* Offsets keep being places in every step of recognize().
LEMMA OffsetsStep ==
  ASSUME RecognizerTypeOK, StackMatchesWord, ReadConservation, OffsetCountsReads, EofEndsWords,
         Offsets, Recognize
  PROVE  Offsets'
<1> DEFINE C == Len(consumed)
           n == Len(literal)
           B == Len(buffered)
<1>1. /\ C \in Nat /\ n \in Nat /\ B \in Nat /\ pos \in Nat /\ Limit \in Nat
      /\ SeenIsText /\ Ascii /\ def \in Defs
      /\ pc \in Scanning => Len(Seen) = ReadTo + B
      /\ pc \notin Scanning => Len(Seen) = C + B
      /\ ReadTo = C + n
  BY Lengths DEF Limit, ReadTo, EofEndsWords, RecognizerTypeOK, Ascii
<1>2. /\ consumed \in Seq(Int) /\ literal \in Seq(Int) /\ buffered \in Seq(Int)
      /\ consumed' \in Seq(Int) /\ literal' \in Seq(Int) /\ buffered' \in Seq(Int)
  BY TypeStep DEF RecognizerTypeOK
<1>3. ASSUME pc' \in Scanning
      PROVE  Len(Seen') = (Len(consumed') + Len(literal')) + Len(buffered')
  <2>1. Seen' = (consumed' \o literal') \o buffered'
    BY <1>3 DEF Seen, InFlight
  <2> QED
    BY <1>2, <2>1, PlacesInSeen
<1>4. ASSUME pc' \notin Scanning
      PROVE  Len(Seen') = Len(consumed') + Len(buffered')
  <2> DEFINE e == <<>>
  <2>1. Seen' = (consumed' \o e) \o buffered'
    BY <1>4 DEF Seen, InFlight
  <2>2. e \in Seq(Int) /\ Len(e) = 0
    OBVIOUS
  <2> HIDE DEF e
  <2>3. Len((consumed' \o e) \o buffered') = Len(consumed') + Len(e) + Len(buffered')
    BY <1>2, <2>2, PlacesInSeen
  <2> QED
    BY <1>2, <2>1, <2>2, <2>3
<1>5. pc \in Scanning /\ ~good => OneBeyond \/ TwoBeyond
  BY DEF Offsets, EndInSight
<1>6. ASSUME pc \in Scanning, UNCHANGED <<tokenOffset, consumed, pos>>
      PROVE  TokenStands'
  BY <1>6 DEF Offsets, TokenStands, WordStart
<1>7. UNCHANGED <<consumed, pos>> => Limit' = Limit /\ WordStart' = WordStart
  BY DEF Limit, WordStart
<1>8. CASE StartWord
  <2>1. /\ pc = "start" /\ pc' = "advance" /\ tokenOffset' = offset /\ literal' = <<>>
        /\ UNCHANGED <<consumed, buffered, pos, good>>
    BY <1>8 DEF StartWord, streamVars, histVars
  <2>2. pc \notin Scanning /\ pc' \in Scanning
    BY <2>1 DEF Scanning
  <2>3. tokenOffset' = WordStart
    BY <2>1, <2>2, OffsetBetweenWords DEF Offsets
  <2>4. TokenStands'
    BY <1>7, <2>1, <2>3 DEF TokenStands
  <2>5. ~good => OneBeyond
    BY <2>2 DEF Offsets, EndInSight, TwoBeyond
  <2>6. ReadTo' = C /\ Len(Seen') = Len(Seen)
    <3>1. Len(literal') = 0
      BY <2>1
    <3> QED
      BY <1>1, <1>3, <2>1, <2>2, <3>1 DEF ReadTo
  <2>7. ReadTo' <= Limit
    BY <1>1, <2>6 DEF Limit
  <2>8. EndInSight'
    BY <1>1, <1>7, <2>1, <2>5, <2>6, <2>7 DEF EndInSight, OneBeyond
  <2> QED
    BY <2>4, <2>8 DEF Offsets
<1>9. CASE FetchBuffered \/ FetchPastEnd \/ FetchEnd \/ FetchByte
  <2>1. pc = "advance" /\ pc' = "advance" /\ state # ErrorState /\ UNCHANGED <<tokenOffset, consumed, def>>
    BY <1>9 DEF FetchBuffered, FetchPastEnd, FetchEnd, FetchByte, Advancing, Step, tokenVars,
       histVars
  <2>2. pc \in Scanning /\ pc' \in Scanning
    BY <2>1 DEF Scanning
  <2>3. ~good => OneBeyond
    BY <1>5, <2>1, <2>2 DEF TwoBeyond
  <2>4. ASSUME NEW c \in Int, Step(c)
        PROVE  ReadTo' = ReadTo + 1 /\ state' = Apply(def, state, c) /\ stack' = Append(stack, state)
    BY <1>1, <2>1, <2>4, StepType DEF ReadTo, Step
  <2>9. EndOfFile \in Int
    BY DEF EndOfFile
  <2>5. CASE FetchBuffered
    <3>1. /\ buffered # <<>> /\ buffered' = Tail(buffered) /\ Step(Head(buffered))
          /\ UNCHANGED <<pos, good>>
      BY <2>5 DEF FetchBuffered, streamVars
    <3>2. Head(buffered) \in Int /\ Len(buffered') = B - 1 /\ B > 0
      BY <1>2, <3>1, HeadTailProperties, EmptySeq
    <3>3. ReadTo' = ReadTo + 1 /\ state' = Apply(def, state, Head(buffered))
      BY <2>4, <3>1, <3>2
    <3>4. Len(Seen') = Len(Seen)
      BY <1>1, <1>3, <2>2, <3>2, <3>3 DEF ReadTo
    <3>5. Seen[ReadTo + 1] = Head(buffered) /\ ReadTo + 1 \in 1..Len(Seen)
      <4>1. Seen = (consumed \o literal) \o buffered
        BY <2>2, SeenType
      <4>3. ((consumed \o literal) \o buffered)[C + n + 1] = Head(buffered)
        BY <1>2, <3>1, PlacesInSeen
      <4>2. Seen[C + n + 1] = Head(buffered)
        BY <4>1, <4>3
      <4> QED
        BY <1>1, <2>2, <3>2, <4>2
    <3>6. ASSUME ReadTo' = Limit + 1 PROVE state' = ErrorState \/ EndsWithEof(def, state')
      <4>1. ReadTo + 1 > pos
        BY <1>1, <3>3, <3>6 DEF Limit
      <4>2. Head(buffered) = EndOfFile
        BY <1>1, <3>5, <4>1 DEF SeenIsText
      <4> QED
        BY <1>1, <3>3, <4>2, AfterEof
    <3>7. EndInSight'
      BY <1>1, <1>7, <2>1, <2>3, <3>1, <3>4, <3>6 DEF EndInSight, OneBeyond
    <3> QED
      BY <1>6, <2>1, <2>2, <3>1, <3>7 DEF Offsets
  <2>6. CASE FetchPastEnd
    <3>1. /\ buffered = <<>> /\ ~good /\ Step(EndOfFile) /\ UNCHANGED <<pos, good, buffered>>
      BY <2>6 DEF FetchPastEnd, streamVars
    <3>2. /\ ReadTo' = ReadTo + 1 /\ state' = Apply(def, state, EndOfFile)
          /\ stack' = Append(stack, state)
      BY <2>4, <2>9, <3>1
    <3>3. B = 0 /\ ReadTo = Limit + 1 /\ EndsWithEof(def, state)
      BY <1>1, <2>1, <2>2, <2>3, <3>1 DEF OneBeyond
    <3>4. state' = ErrorState
      BY <3>2, <3>3 DEF EndsWithEof
    <3>5. ReadTo' = Limit + 2 /\ Len(Seen') = Limit + 2
      BY <1>1, <1>3, <2>2, <3>1, <3>2, <3>3 DEF ReadTo
    <3>6. Last(stack') = state
      BY <3>2, AppendFrontLast DEF RecognizerTypeOK
    <3>7. TwoBeyond'
      BY <1>7, <2>1, <2>2, <3>1, <3>3, <3>4, <3>5, <3>6 DEF TwoBeyond
    <3> QED
      BY <1>6, <2>1, <2>2, <3>1, <3>7 DEF Offsets, EndInSight
  <2>7. CASE FetchEnd
    <3>1. /\ buffered = <<>> /\ good /\ ~good' /\ Step(EndOfFile) /\ UNCHANGED <<pos, buffered>>
      BY <2>7 DEF FetchEnd
    <3>2. ReadTo' = ReadTo + 1 /\ state' = Apply(def, state, EndOfFile)
      BY <2>4, <2>9, <3>1
    <3>3. B = 0 /\ ReadTo = pos /\ Limit = pos
      BY <1>1, <2>2, <3>1 DEF SeenIsText, Limit
    <3>4. Len(Seen') = Limit + 1 /\ ReadTo' = Limit + 1
      BY <1>1, <1>3, <2>2, <3>1, <3>2, <3>3 DEF ReadTo
    <3>5. state' = ErrorState \/ EndsWithEof(def, state')
      BY <1>1, <3>2, AfterEof
    <3>6. OneBeyond'
      BY <1>7, <2>1, <3>1, <3>4, <3>5 DEF OneBeyond
    <3> QED
      BY <1>6, <2>1, <2>2, <3>1, <3>6 DEF Offsets, EndInSight
  <2>8. CASE FetchByte
    <3>1. good /\ good' /\ pos' = pos + 1
      BY <2>8 DEF FetchByte
    <3>2. C <= pos
      BY <1>1, <2>2, <3>1 DEF SeenIsText
    <3>3. WordStart' = WordStart
      BY <1>1, <2>1, <3>1, <3>2 DEF WordStart
    <3> QED
      BY <2>1, <2>2, <3>1, <3>3 DEF Offsets, EndInSight, TokenStands
  <2> QED
    BY <1>9, <2>5, <2>6, <2>7, <2>8
<1>10. CASE Backtrack \/ Rewind
  <2>1. /\ PopState /\ pc \in {"backtrack", "rewind"} /\ pc' = pc
        /\ UNCHANGED <<pos, good, consumed, def, tokenOffset>>
    BY <1>10 DEF Backtrack, Rewind, PopState, streamVars, tokenVars, histVars
  <2>2. pc \in Scanning /\ Seen' = Seen
    BY <1>1, <2>1, PopKeepsSeen DEF Scanning
  <2>3. /\ n > 0 => ReadTo' = ReadTo - 1
        /\ n = 0 => ReadTo' = C
    <3>1. n > 0 => Len(literal') = n - 1
      BY <1>2, <2>1, FrontLast, EmptySeq, SMTT(30) DEF PopState
    <3>2. n = 0 => Len(literal') = 0
      BY <1>2, <2>1, EmptySeq DEF PopState
    <3>3. Len(consumed') = C
      BY <2>1
    <3>4. ReadTo = C + n /\ ReadTo' = Len(consumed') + Len(literal')
      BY DEF ReadTo
    <3> QED
      BY <1>1, <3>1, <3>2, <3>3, <3>4
  <2>4. stack # <<>>
    BY <1>10, StackNotEmpty
  <2>5. OneBeyond => OneBeyond'
    <3> SUFFICES ASSUME OneBeyond PROVE OneBeyond'
      OBVIOUS
    <3>1. ReadTo <= Limit + 1 /\ C <= Limit
      BY <1>1, <2>2 DEF OneBeyond, Limit
    <3>2. ReadTo' <= Limit
      BY <1>1, <2>1, <2>3, <3>1
    <3> QED
      BY <1>7, <2>1, <2>2, <3>2 DEF OneBeyond
  <2>6. TwoBeyond => TwoBeyond'
    <3> SUFFICES ASSUME TwoBeyond PROVE TwoBeyond'
      OBVIOUS
    <3>1. pc = "backtrack" /\ ~IsAcceptState(def, state)
      BY <1>10, <2>1 DEF TwoBeyond, Backtrack, Rewind, Backtracking
    <3>2. ReadTo = Limit + 2 /\ EndsWithEof(def, Last(stack))
      BY <3>1 DEF TwoBeyond, EndsWithEof
    <3>3. n > 0
      BY <1>1, <3>2 DEF Limit
    <3>4. state' = Last(stack) /\ ReadTo' = Limit + 1
      BY <1>1, <2>1, <2>3, <3>2, <3>3 DEF PopState
    <3> QED
      BY <1>7, <2>1, <2>2, <3>1, <3>2, <3>4 DEF TwoBeyond
  <2> QED
    BY <1>5, <1>6, <2>1, <2>2, <2>5, <2>6 DEF Offsets, EndInSight
<1>11. CASE StopAdvance \/ StopBacktrack \/ StopRewind
  <2>1. /\ pc \in {"advance", "backtrack", "rewind"} /\ pc' \in {"backtrack", "rewind", "decide"}
        /\ UNCHANGED <<pos, good, consumed, def, tokenOffset, literal, buffered, stack>>
    BY <1>11 DEF StopAdvance, StopBacktrack, StopRewind, streamVars, tokenVars, histVars, runVars
  <2>2. pc \in Scanning /\ pc' \in Scanning
    BY <2>1 DEF Scanning
  <2>3. ReadTo' = ReadTo /\ Len(Seen') = Len(Seen)
    BY <1>1, <1>3, <2>1, <2>2 DEF ReadTo
  <2>4. ~IsAcceptState(def, ErrorState) /\ ErrorState # BadState
    BY <1>1, DefTypes DEF IsAcceptState, StateId, ErrorState, BadState
  <2>5. CASE StopAdvance
    <3>1. pc = "advance" /\ pc' = "backtrack" /\ state = ErrorState /\ UNCHANGED state
      BY <2>5 DEF StopAdvance, runVars
    <3>2. OneBeyond => OneBeyond'
      BY <1>7, <2>1, <2>3, <3>1 DEF OneBeyond
    <3>3. TwoBeyond => TwoBeyond'
      BY <1>7, <2>1, <2>2, <2>3, <3>1 DEF TwoBeyond
    <3> QED
      BY <1>5, <1>6, <2>1, <2>2, <3>2, <3>3 DEF Offsets, EndInSight
  <2>6. CASE StopBacktrack
    <3>1. /\ pc = "backtrack" /\ state # ErrorState /\ UNCHANGED state
          /\ pc' = IF HasLookahead(def, state) THEN "rewind" ELSE "decide"
      BY <2>4, <2>6 DEF StopBacktrack, Backtracking
    <3>2. OneBeyond => OneBeyond'
      BY <1>7, <2>1, <2>3, <3>1 DEF OneBeyond
    <3>3. TwoBeyond => TwoBeyond'
      BY <1>7, <2>1, <2>2, <2>3, <3>1 DEF TwoBeyond, EndsWithEof
    <3> QED
      BY <1>5, <1>6, <2>1, <2>2, <3>2, <3>3 DEF Offsets, EndInSight
  <2>7. CASE StopRewind
    <3>1. pc = "rewind" /\ pc' = "decide"
      BY <2>7 DEF StopRewind
    <3>2. OneBeyond => OneBeyond'
      BY <1>7, <2>1, <2>3, <3>1 DEF OneBeyond
    <3>3. ~TwoBeyond
      BY <3>1 DEF TwoBeyond
    <3> QED
      BY <1>5, <1>6, <2>1, <2>2, <3>2, <3>3 DEF Offsets, EndInSight
  <2> QED
    BY <1>11, <2>5, <2>6, <2>7
<1>12. CASE Fail
  <2>1. /\ pc = "decide" /\ ~IsAcceptState(def, state) /\ pc' = "thrown"
        /\ UNCHANGED <<pos, good, consumed, buffered, literal>>
    BY <1>12 DEF Fail, streamVars, histVars
  <2>2. pc \in Scanning /\ pc' \notin Scanning /\ literal = <<>>
    BY <2>1 DEF Scanning, StackMatchesWord
  <2>3. n = 0 /\ Len(Seen') = Len(Seen)
    BY <1>1, <1>4, <2>1, <2>2
  <2>4. ~good => OneBeyond
    BY <1>5, <2>1, <2>2 DEF TwoBeyond, EndsWithEof
  <2>5. EndInSight'
    BY <1>7, <2>1, <2>3, <2>4 DEF EndInSight, OneBeyond
  <2> QED
    BY <2>2, <2>5 DEF Offsets, TokenStands
<1>13. CASE Accept
  <2>1. /\ pc = "decide" /\ pc' \in {"start", "returned"} /\ consumed' = consumed \o literal
        /\ UNCHANGED <<pos, good, buffered>>
    BY <1>13 DEF Accept, streamVars
  <2>2. pc \in Scanning /\ pc' \notin Scanning
    BY <2>1 DEF Scanning
  <2>3. Len(consumed') = ReadTo
    BY <1>1, <1>2, <2>1, ConcatProperties
  <2>4. Len(Seen') = Len(Seen)
    BY <1>1, <1>4, <2>1, <2>2, <2>3
  <2>5. OneBeyond => Limit' = Limit
    BY <1>1, <2>1, <2>3 DEF OneBeyond, Limit
  <2>6. TwoBeyond => Limit' = Limit + 1
    BY <1>1, <2>1, <2>3 DEF TwoBeyond, Limit
  <2>7. EndInSight'
    <3>1. ASSUME OneBeyond PROVE OneBeyond'
      BY <2>1, <2>4, <2>5, <3>1 DEF OneBeyond
    <3>2. ASSUME TwoBeyond PROVE OneBeyond'
      BY <1>1, <2>1, <2>4, <2>6, <3>2 DEF OneBeyond, TwoBeyond
    <3> QED
      BY <1>5, <2>1, <2>2, <3>1, <3>2 DEF EndInSight
  <2> QED
    BY <2>2, <2>7 DEF Offsets, TokenStands
<1> QED
  BY <1>8, <1>9, <1>10, <1>11, <1>12, <1>13 DEF Recognize

=============================================================================
