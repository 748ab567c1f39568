---------------------------- MODULE AnalyzerProofs ----------------------------
(***************************************************************************)
(* For every table and every text: type correctness, the balance of the    *)
(* analyzer's two stacks, that a marker takes off the values of one        *)
(* handle, that an epsilon rule finds the value it takes, that analyze()   *)
(* returns the value of the start symbol's handle, that its rounds are a   *)
(* leftmost derivation, and, of a table that predicts, that the texts it   *)
(* accepts are the sentences.                                              *)
(*                                                                         *)
(* The first two are not inductive without each other: that a marker finds *)
(* the values it takes off, so that the value stack stays a sequence of    *)
(* numbers, is what the heights in frames say.  The third is, once each    *)
(* element of the stack is known to remember the symbols that precede its  *)
(* own in the handle (HandlesAligned); the result then follows from what   *)
(* each value is the value of (StartValued).  The derivation needs only    *)
(* that terminals alone were taken off (MatchedTerminals).                 *)
(*                                                                         *)
(* For the language, Parses says of every round that what came and what is *)
(* still to come generate sentences only, and the text if that is one.  A  *)
(* production keeps the latter, since the table has an entry for each word *)
(* a sentence can go on with (PredictsHandle).  That the words generated   *)
(* are those of the productions is GeneratedIsLanguage.                    *)
(***************************************************************************)
EXTENDS AnalyzerLanguage, SequenceLemmas

Frame == [symbol : Int, height : Nat]

\* Nothing has happened yet.
FreshStacks == pc = "begin" => valueStack = <<>> /\ meaning = <<>>

IInv == TypeOK /\ ValuesBalanced /\ FreshStacks

\* What ReplaceTop makes of l, x and r, element by element.
IsReplaced(s, l, x, r) ==
  /\ Len(s) = Len(l) + Len(r)
  /\ \A i \in 1..Len(l) - 1 : s[i] = l[i]
  /\ s[Len(l)] = x
  /\ \A i \in 1..Len(r) : s[Len(l) + i] = r[i]

LEMMA ReplaceTopFacts ==
  ASSUME NEW S, NEW l \in Seq(S), NEW x \in S, NEW r \in Seq(S), l # <<>>
  PROVE  /\ ReplaceTop(l, x, r) \in Seq(S)
         /\ IsReplaced(ReplaceTop(l, x, r), l, x, r)
<1> DEFINE f == Append(Front(l), x)
<1>1. Len(l) \in Nat /\ Len(l) > 0
  BY EmptySeq
<1>2. /\ f \in Seq(S) /\ Len(f) = Len(l)
      /\ \A i \in 1..Len(l) - 1 : f[i] = l[i]
      /\ f[Len(l)] = x
  BY <1>1, FrontLast, SMTT(30)
<1> HIDE DEF f
<1>3. /\ f \o r \in Seq(S) /\ Len(f \o r) = Len(f) + Len(r)
      /\ \A i \in 1..Len(f) + Len(r) :
           (f \o r)[i] = IF i <= Len(f) THEN f[i] ELSE r[i - Len(f)]
  BY <1>2, ConcatProperties
<1>4. \A i \in 1..Len(r) : (f \o r)[Len(l) + i] = r[i]
  <2> TAKE i \in 1..Len(r)
  <2>1. Len(r) \in Nat /\ Len(l) + i \in 1..Len(f) + Len(r) /\ ~(Len(l) + i <= Len(f))
    BY <1>1, <1>2
  <2>2. (Len(l) + i) - Len(f) = i
    BY <1>1, <1>2
  <2> QED
    BY <1>3, <2>1, <2>2
<1>5. \A i \in 1..Len(l) : (f \o r)[i] = f[i]
  BY <1>1, <1>2, <1>3
<1> QED
  BY <1>1, <1>2, <1>3, <1>4, <1>5 DEF f, ReplaceTop, IsReplaced

LEMMA PushedFacts ==
  ASSUME NEW S, NEW l \in Seq(S)
  PROVE  /\ Pushed(l) \in Seq(S)
         /\ Len(Pushed(l)) = Len(l)
         /\ \A i \in 1..Len(l) : Pushed(l)[i] = l[Len(l) - i + 1]
BY DEF Pushed, Reverse

\* A prefix and one more value.
LEMMA PrefixAppend ==
  ASSUME NEW S, NEW l \in Seq(S), NEW n \in Nat, n <= Len(l), NEW x \in S
  PROVE  /\ SubSeq(l, 1, n) \in Seq(S) /\ Len(SubSeq(l, 1, n)) = n
         /\ Append(SubSeq(l, 1, n), x) \in Seq(S)
         /\ Len(Append(SubSeq(l, 1, n), x)) = n + 1
<1>1. SubSeq(l, 1, n) \in Seq(S) /\ Len(SubSeq(l, 1, n)) = n
  OBVIOUS
<1> QED
  BY <1>1

\* The numbers of symbols are natural numbers, so none is a marker, and those
\* of the three kinds are apart.
LEMMA SymbolNumbers ==
  ASSUME NEW t, IsSyntaxTable(t)
  PROVE  /\ SymbolIds(t) \subseteq Nat
         /\ NonTerminalIds(t) \subseteq Nat
         /\ TerminalIds(t) \subseteq Nat
         /\ ActionIds(t) \subseteq Nat
         /\ t.startSymbol \in Nat
BY SMTT(30) DEF IsSyntaxTable, SymbolIds, NonTerminalIds, TerminalIds, ActionIds

LEMMA HandleType ==
  ASSUME NEW t, IsSyntaxTable(t), NEW a, NEW b, HasEntry(t, a, b)
  PROVE  Handle(t, a, b) \in Seq(SymbolIds(t))
BY DEF IsSyntaxTable, HasEntry, Handle

\* The stacks when the top is not empty: what the rounds start from.
LEMMA Tops ==
  ASSUME IInv, Round
  PROVE  /\ Len(stack) \in Nat \ {0} /\ Len(frames) = Len(stack)
         /\ frames # <<>>
         /\ Top \in Int /\ Top = stack[Len(stack)]
         /\ Last(frames) \in Frame /\ Last(frames) = frames[Len(stack)]
         /\ Len(valueStack) = Last(frames).height
         /\ Len(meaning) = Len(valueStack)
<1>1. Len(stack) \in Nat \ {0} /\ Len(frames) = Len(stack)
  BY EmptySeq DEF IInv, TypeOK, ValuesBalanced, Round
<1>2. frames \in Seq(Frame) /\ stack \in Seq(Int)
  BY DEF IInv, TypeOK, Frame
<1> QED
  BY <1>1, <1>2, FrontLast DEF IInv, ValuesBalanced, Round, Top, Last

\* The stacks after a round that takes the top off.
LEMMA Popped ==
  ASSUME IInv, Round, Pop
  PROVE  /\ stack' \in Seq(Int) /\ frames' \in Seq(Frame)
         /\ Len(stack') = Len(stack) - 1 /\ Len(frames') = Len(stack')
         /\ \A i \in 1..Len(stack) - 1 :
              stack'[i] = stack[i] /\ frames'[i] = frames[i]
<1>1. frames \in Seq(Frame) /\ stack \in Seq(Int)
  BY DEF IInv, TypeOK, Frame
<1>2. stack # <<>>
  BY DEF Round
<1> QED
  BY <1>1, <1>2, Tops, FrontLast DEF Pop

\* A round that takes the top off keeps the balance if the value stack grows by
\* what the top was to gain.
LEMMA PopBalanced ==
  ASSUME IInv, Round, Pop,
         Len(valueStack') = Len(valueStack) + Gain(Top),
         Len(meaning') = Len(valueStack')
  PROVE  ValuesBalanced'
<1> DEFINE n == Len(stack)
<1>1. /\ n \in Nat \ {0} /\ Top = stack[n] /\ Top \in Int
      /\ frames[n].height = Len(valueStack)
  BY Tops
<1>2. \A i \in 1..n :
        /\ stack[i] < 0 => frames[i].height >= -stack[i]
        /\ frames[i].height + Gain(stack[i]) = IF i = 1 THEN 1 ELSE frames[i - 1].height
  <2>1. DOMAIN stack = 1..n
    BY DEF IInv, TypeOK
  <2> QED
    BY <2>1 DEF IInv, ValuesBalanced, Round
<1>3. /\ Len(stack') = n - 1 /\ Len(frames') = Len(stack')
      /\ \A i \in 1..n - 1 : stack'[i] = stack[i] /\ frames'[i] = frames[i]
      /\ stack' \in Seq(Int) /\ frames' \in Seq(Frame)
  BY Popped
<1>4. \A i \in 1..n - 1 :
        /\ stack'[i] < 0 => frames'[i].height >= -stack'[i]
        /\ frames'[i].height + Gain(stack'[i]) =
             IF i = 1 THEN 1 ELSE frames'[i - 1].height
  <2> TAKE i \in 1..n - 1
  <2>1. i \in 1..n /\ stack'[i] = stack[i] /\ frames'[i] = frames[i]
    BY <1>1, <1>3
  <2>2. i # 1 => frames'[i - 1] = frames[i - 1]
    BY <1>1, <1>3
  <2> QED
    BY <1>2, <2>1, <2>2
<1>5. Len(valueStack') = IF n = 1 THEN 1 ELSE frames[n - 1].height
  <2>1. frames[n].height + Gain(stack[n]) = IF n = 1 THEN 1 ELSE frames[n - 1].height
    <3>1. n \in 1..n
      BY <1>1
    <3> QED
      BY <1>2, <3>1
  <2> QED
    BY <1>1, <2>1
<1>6. CASE n = 1
  <2>1. stack' = <<>> /\ DOMAIN stack' = {}
    BY <1>3, <1>6, EmptySeq
  <2> QED
    BY <1>3, <1>5, <1>6, <2>1 DEF ValuesBalanced
<1>7. CASE n # 1
  <2>1. stack' # <<>> /\ frames' # <<>> /\ Last(frames') = frames[n - 1]
    BY <1>1, <1>3, <1>7, EmptySeq DEF Last
  <2>2. DOMAIN stack' = 1..n - 1
    BY <1>3
  <2>3. Len(valueStack') = Last(frames').height
    BY <1>5, <1>7, <2>1
  <2>4. \A i \in DOMAIN stack' :
          /\ stack'[i] < 0 => frames'[i].height >= -stack'[i]
          /\ frames'[i].height + Gain(stack'[i]) =
               IF i = 1 THEN 1 ELSE frames'[i - 1].height
    BY <1>4, <2>2
  <2> QED
    BY <1>3, <2>1, <2>3, <2>4 DEF ValuesBalanced, Gain
<1> QED
  BY <1>6, <1>7

-----------------------------------------------------------------------------
LEMMA InitIInv == Init => IInv
<1> SUFFICES ASSUME Init PROVE IInv
  OBVIOUS
<1>1. IsSyntaxTable(st)
  BY TablesAssumption DEF Init
<1>2. input \in Seq(TerminalIds(st) \cup {Unrecognized})
  <2> DEFINE words == TerminalIds(st) \ {st.eof}
  <2>1. \A n \in Int : \A s \in BoundedSeq(words, n) : s \in Seq(words)
    BY DEF BoundedSeq, SeqOf
  <2>2. \/ input \in BoundedSeq(words, MaxWords)
        \/ \E s \in BoundedSeq(words, MaxWords - 1) : input = Append(s, Unrecognized)
    BY DEF Init, Texts
  <2>3. CASE input \in BoundedSeq(words, MaxWords)
    <3>1. MaxWords \in Int
      BY WordsAssumption
    <3>2. input \in Seq(words)
      BY <2>1, <2>3, <3>1
    <3> QED
      BY <3>2
  <2>4. CASE \E s \in BoundedSeq(words, MaxWords - 1) : input = Append(s, Unrecognized)
    <3>1. PICK s \in BoundedSeq(words, MaxWords - 1) : input = Append(s, Unrecognized)
      BY <2>4
    <3>2. MaxWords - 1 \in Int
      BY WordsAssumption
    <3>3. s \in Seq(words)
      BY <2>1, <3>2
    <3>4. s \in Seq(TerminalIds(st) \cup {Unrecognized})
      BY <3>3
    <3> QED
      BY <3>1, <3>4
  <2> QED
    BY <2>2, <2>3, <2>4
<1>3. TypeOK
  BY <1>1, <1>2 DEF Init, TypeOK, NoResult
<1> QED
  BY <1>3 DEF IInv, Init, ValuesBalanced, Analyzing, FreshStacks

\* The parts of IInv that no action changes.
LEMMA TextKept ==
  ASSUME IInv, UNCHANGED textVars
  PROVE  /\ IsSyntaxTable(st)'
         /\ (input \in Seq(TerminalIds(st) \cup {Unrecognized}))'
         /\ (exhaustedAt \in 1..Len(input) + 1)'
BY DEF IInv, TypeOK, textVars

\* IInv in the next state from what the actions are to show.
LEMMA Assemble ==
  ASSUME IInv, UNCHANGED textVars,
         at' \in Nat, end' \in Nat, errors' \in Nat,
         stack' \in Seq(Int), valueStack' \in Seq(Int),
         meaning' \in Seq(Int), matched' \in Seq(Int),
         frames' \in Seq(Frame),
         pc' \in {"analyzing", "accepted", "rejected", "thrown", "aborted",
                  "undefined"},
         result' \in Int,
         ValuesBalanced'
  PROVE  IInv'
<1>1. /\ IsSyntaxTable(st)'
      /\ (input \in Seq(TerminalIds(st) \cup {Unrecognized}))'
      /\ (exhaustedAt \in 1..Len(input) + 1)'
  BY TextKept
<1> QED
  BY <1>1 DEF IInv, TypeOK, Frame, FreshStacks

LEMMA Types ==
  IInv => /\ at \in Nat /\ end \in Nat /\ errors \in Nat /\ result \in Int
          /\ stack \in Seq(Int) /\ valueStack \in Seq(Int)
          /\ meaning \in Seq(Int) /\ matched \in Seq(Int)
          /\ frames \in Seq(Frame)
          /\ pc \in {"begin", "analyzing", "accepted", "rejected", "thrown",
                     "aborted", "undefined"}
          /\ IsSyntaxTable(st)
BY DEF IInv, TypeOK, Frame

\* A step that leaves the loop.
LEMMA Stop ==
  ASSUME IInv,
         UNCHANGED <<textVars, cursorVars, valueStack, meaning, matched>>,
         errors' \in Nat, result' \in Int,
         stack' \in Seq(Int), frames' \in Seq(Frame),
         pc' \in {"accepted", "rejected", "aborted", "undefined"}
  PROVE  IInv'
<1>1. ValuesBalanced'
  BY DEF ValuesBalanced, Analyzing
<1> QED
  BY <1>1, Types, Assemble DEF cursorVars

LEMMA StepBegin == IInv /\ Begin => IInv'
<1> SUFFICES ASSUME IInv, Begin PROVE IInv'
  OBVIOUS
<1> USE DEF Begin
<1>1. CASE TokenAt(1) = Unrecognized
  <2>1. ValuesBalanced'
    BY <1>1 DEF ValuesBalanced, Analyzing
  <2> QED
    BY <1>1, <2>1, Types, Assemble
<1>2. CASE TokenAt(1) # Unrecognized
  <2>1. st.startSymbol \in Nat
    BY Types, SymbolNumbers
  <2>2. /\ stack' = <<st.startSymbol>>
        /\ frames' = <<[symbol |-> st.startSymbol, height |-> 0]>>
    BY <1>2
  <2>5. stack' \in Seq(Int)
    BY <2>1, <2>2
  <2>6. frames' \in Seq(Frame)
    BY <2>1, <2>2 DEF Frame
  <2>3. valueStack' = <<>> /\ meaning' = <<>>
    BY DEF IInv, FreshStacks
  <2>4. ValuesBalanced'
    BY <2>1, <2>2, <2>3 DEF ValuesBalanced, Gain, Last
  <2> QED
    BY <1>2, <2>3, <2>4, <2>5, <2>6, Types, Assemble
<1> QED
  BY <1>1, <1>2

LEMMA StepAccept == IInv /\ Accept => IInv'
<1> SUFFICES ASSUME IInv, Accept PROVE IInv'
  OBVIOUS
<1>1. result' \in Int
  BY Types, FrontLast DEF Accept, NoAction
<1> QED
  BY <1>1, Types, Stop DEF Accept, cursorVars

LEMMA StepOverrun == IInv /\ Overrun => IInv'
BY Types, Stop DEF Overrun, cursorVars

LEMMA StepReject == IInv /\ Reject => IInv'
BY Types, Stop DEF Reject, cursorVars

LEMMA StepEpsilonFirst == IInv /\ EpsilonFirst => IInv'
BY Types, Popped, Stop DEF EpsilonFirst, Expanding, cursorVars

\* A round that takes the top off and pushes one value for it, in the loop or
\* leaving it with an exception.
LEMMA OneValue ==
  ASSUME IInv, Round, Pop, Gain(Top) = 1, NEW x \in Int, PushValue(x, Top),
         UNCHANGED <<textVars, result>>,
         at' \in Nat, end' \in Nat, errors' \in Nat, matched' \in Seq(Int),
         pc' \in {"analyzing", "thrown"}
  PROVE  IInv'
<1>1. /\ valueStack' \in Seq(Int) /\ meaning' \in Seq(Int)
      /\ Len(valueStack') = Len(valueStack) + 1
      /\ Len(meaning') = Len(meaning) + 1
  BY Types, Tops DEF PushValue
<1>2. ValuesBalanced'
  BY <1>1, Tops, PopBalanced
<1> QED
  BY <1>1, <1>2, Popped, Types, Assemble

LEMMA StepEatTerminal == IInv /\ EatTerminal => IInv'
<1> SUFFICES ASSUME IInv, EatTerminal PROVE IInv'
  OBVIOUS
<1> USE DEF EatTerminal
<1>1. Round /\ Pop /\ Top \in Nat
  BY Types, SymbolNumbers DEF IsTerminalId
<1>2. at' \in Nat /\ end' \in Nat /\ pc' \in {"analyzing", "thrown"}
  <2>1. at \in Nat /\ end \in Nat /\ pc = "analyzing" /\ Advance
    BY Types, <1>1 DEF Round, Analyzing
  <2> QED
    BY ONLY <2>1 DEF Advance
<1>3. errors' \in Nat /\ matched' \in Seq(Int)
  BY Types, <1>1
<1> QED
  BY <1>1, <1>2, <1>3, OneValue DEF Gain, NoAction

LEMMA StepRunAction == IInv /\ RunAction => IInv'
<1> SUFFICES ASSUME IInv, RunAction PROVE IInv'
  OBVIOUS
<1> USE DEF RunAction
<1>1. Round /\ Pop /\ Top \in Nat
  BY Types, SymbolNumbers DEF IsActionId
<1> QED
  BY <1>1, Types, OneValue DEF Gain, cursorVars, Round, Analyzing

LEMMA StepApplyEpsilon == IInv /\ ApplyEpsilon => IInv'
<1> SUFFICES ASSUME IInv, ApplyEpsilon PROVE IInv'
  OBVIOUS
<1> USE DEF ApplyEpsilon
<1>1. Round /\ Pop /\ Top \in Nat
  BY Types, SymbolNumbers DEF Expanding, IsNonTerminalId
<1>2. Last(valueStack) \in Int
  BY Types, FrontLast
<1> QED
  BY <1>1, <1>2, Types, OneValue DEF Gain, cursorVars, Round, Analyzing

LEMMA StepRewind == IInv /\ Rewind => IInv'
<1> SUFFICES ASSUME IInv, Rewind PROVE IInv'
  OBVIOUS
<1> USE DEF Rewind, Resized, ValueOfHandle
<1>1. Round /\ Pop /\ Top \in Int /\ Top < 0
  BY Tops
<1>2. Len(valueStack) >= -Top
  <2>1. Len(stack) \in Nat \ {0} /\ stack \in Seq(Int)
    BY <1>1, Tops, Types
  <2>2. Len(stack) \in DOMAIN stack
    BY ONLY <2>1
  <2> QED
    BY <1>1, <2>2, Tops DEF IInv, ValuesBalanced, Round
<1> DEFINE n == Len(valueStack) + Top
<1>3. n \in Nat /\ n <= Len(valueStack) /\ n <= Len(meaning)
  <2>1. Len(valueStack) \in Nat /\ Len(meaning) = Len(valueStack)
    BY <1>1, Tops, Types
  <2> QED
    BY <1>1, <1>2, <2>1
<1>4. Last(valueStack) \in Int /\ Last(frames).symbol \in Int
  <2>1. valueStack # <<>>
    BY <1>1, <1>2
  <2> QED
    BY <2>1, Types, Tops, FrontLast DEF Frame
<1>5. /\ valueStack' \in Seq(Int) /\ Len(valueStack') = n + 1
      /\ meaning' \in Seq(Int) /\ Len(meaning') = n + 1
  <2>1. Len(meaning) + Top = n
    BY Tops
  <2>2. /\ valueStack' = Append(SubSeq(valueStack, 1, n), Last(valueStack))
        /\ meaning' = Append(SubSeq(meaning, 1, n), Last(frames).symbol)
    BY <2>1
  <2>3. valueStack \in Seq(Int) /\ meaning \in Seq(Int)
    BY Types
  <2> DEFINE x == Last(valueStack)
             y == Last(frames).symbol
  <2> HIDE DEF n, x, y
  <2>4. /\ Append(SubSeq(valueStack, 1, n), x) \in Seq(Int)
        /\ Len(Append(SubSeq(valueStack, 1, n), x)) = n + 1
    BY <1>3, <1>4, <2>3, PrefixAppend DEF x
  <2>5. /\ Append(SubSeq(meaning, 1, n), y) \in Seq(Int)
        /\ Len(Append(SubSeq(meaning, 1, n), y)) = n + 1
    BY <1>3, <1>4, <2>3, PrefixAppend DEF y
  <2> QED
    BY <2>2, <2>4, <2>5 DEF x, y
<1>6. ValuesBalanced'
  BY <1>1, <1>3, <1>5, Types, PopBalanced DEF Gain
<1> QED
  BY <1>1, <1>5, <1>6, Popped, Types, Assemble DEF cursorVars, Round, Analyzing

LEMMA StepApplyProduction == IInv /\ ApplyProduction => IInv'
<1> SUFFICES ASSUME IInv, ApplyProduction PROVE IInv'
  OBVIOUS
<1> DEFINE handle == Handle(st, Top, Current)
           n == Len(handle)
           h == Len(valueStack)
           k == Len(stack)
           rest == [i \in 1..n |-> [symbol |-> Pushed(handle)[i], height |-> h + n - i]]
           marker == [symbol |-> Top, height |-> h + n]
<1>1. /\ Round /\ Top \in Nat
      /\ handle \in Seq(SymbolIds(st)) /\ SymbolIds(st) \subseteq Nat
  BY Types, SymbolNumbers, HandleType DEF ApplyProduction, Expanding, IsNonTerminalId
<1>2. n \in Nat /\ n > 0
  BY <1>1, EmptySeq DEF ApplyProduction
<1>3. /\ k \in Nat \ {0} /\ Top = stack[k] /\ Len(frames) = k
      /\ h \in Nat /\ frames[k].height = h /\ Len(meaning) = h
      /\ h = Last(frames).height
  BY <1>1, Tops, Types
<1>4. /\ Pushed(handle) \in Seq(SymbolIds(st)) /\ Len(Pushed(handle)) = n
      /\ Pushed(handle) \in Seq(Int)
      /\ \A i \in 1..n : Pushed(handle)[i] \in Nat
  BY <1>1, <1>2, PushedFacts
<1>5. marker \in Frame /\ rest \in Seq(Frame) /\ Len(rest) = n
  <2>1. \A i \in 1..n : [symbol |-> Pushed(handle)[i], height |-> h + n - i] \in Frame
    BY <1>2, <1>3, <1>4 DEF Frame
  <2>2. rest \in [1..n -> Frame]
    BY <2>1
  <2>3. marker \in Frame
    BY <1>1, <1>2, <1>3 DEF Frame
  <2> HIDE DEF rest, marker, n
  <2> QED
    BY <1>2, <2>2, <2>3
<1>6. /\ stack' = ReplaceTop(stack, -n, Pushed(handle))
      /\ frames' = ReplaceTop(frames, marker, rest)
      /\ UNCHANGED <<textVars, cursorVars, valueStack, errors, pc, result, meaning,
                     matched>>
  BY DEF ApplyProduction
<1>7. /\ stack \in Seq(Int) /\ stack # <<>> /\ -n \in Int
      /\ frames \in Seq(Frame) /\ frames # <<>>
  BY <1>1, <1>2, Types, Tops DEF Round
<1>8. \A i \in 1..n : rest[i].height = h + n - i
  OBVIOUS
<1>9. marker.height = h + n
  OBVIOUS
<1> HIDE DEF marker, rest, n, h, k
<1>10. /\ stack' \in Seq(Int) /\ Len(stack') = k + n
       /\ \A i \in 1..k - 1 : stack'[i] = stack[i]
       /\ stack'[k] = -n
       /\ \A i \in 1..n : stack'[k + i] = Pushed(handle)[i]
  <2>1. Len(Pushed(handle)) = n /\ Len(stack) = k
    BY <1>4 DEF k
  <2>2. stack' \in Seq(Int) /\ IsReplaced(stack', stack, -n, Pushed(handle))
    BY <1>4, <1>6, <1>7, ReplaceTopFacts
  <2> QED
    BY <2>1, <2>2 DEF IsReplaced
<1>11. /\ frames' \in Seq(Frame) /\ Len(frames') = k + n
       /\ \A i \in 1..k - 1 : frames'[i] = frames[i]
       /\ frames'[k] = marker
       /\ \A i \in 1..n : frames'[k + i] = rest[i]
  <2>1. frames' \in Seq(Frame) /\ IsReplaced(frames', frames, marker, rest)
    BY <1>5, <1>6, <1>7, ReplaceTopFacts
  <2> QED
    BY <1>3, <1>5, <2>1 DEF IsReplaced
<1>12. \A i \in 1..k :
         /\ stack[i] < 0 => frames[i].height >= -stack[i]
         /\ frames[i].height + Gain(stack[i]) = IF i = 1 THEN 1 ELSE frames[i - 1].height
  BY <1>1, <1>3, <1>7, SMTT(30) DEF IInv, ValuesBalanced, Round, k
<1>13. \A i \in 1..k + n :
         /\ stack'[i] < 0 => frames'[i].height >= -stack'[i]
         /\ frames'[i].height + Gain(stack'[i]) =
              IF i = 1 THEN 1 ELSE frames'[i - 1].height
  <2> TAKE i \in 1..k + n
  <2>1. CASE i \in 1..k - 1
    <3>1. i \in 1..k /\ stack'[i] = stack[i] /\ frames'[i] = frames[i]
      BY <1>2, <1>3, <1>10, <1>11, <2>1, SMTT(30)
    <3>2. i # 1 => frames'[i - 1] = frames[i - 1]
      BY <1>3, <1>11, <2>1
    <3> QED
      BY <1>12, <3>1, <3>2
  <2>2. CASE i = k
    <3>1. h + 1 = IF k = 1 THEN 1 ELSE frames[k - 1].height
      <4>1. k \in 1..k /\ ~(stack[k] < 0)
        BY <1>1, <1>3
      <4> QED
        BY <1>3, <1>12, <4>1 DEF Gain
    <3>2. k # 1 => frames'[k - 1] = frames[k - 1]
      BY <1>3, <1>11
    <3>3. stack'[i] = -n /\ frames'[i].height = h + n /\ Gain(-n) = 1 - n
      BY <1>2, <1>9, <1>10, <1>11, <2>2 DEF Gain
    <3>4. frames'[i].height + Gain(stack'[i]) = h + 1
      BY <1>2, <1>3, <3>3
    <3> QED
      BY <1>2, <1>3, <2>2, <3>1, <3>2, <3>3, <3>4
  <2>3. CASE i > k
    <3> DEFINE j == i - k
    <3>1. j \in 1..n /\ i = k + j
      BY <1>2, <1>3, <2>3
    <3>2. stack'[i] \in Nat /\ frames'[i].height = h + n - j
      BY <1>4, <1>8, <1>10, <1>11, <3>1, ZenonT(30)
    <3>3. frames'[i - 1].height = h + n - (j - 1)
      <4>1. CASE j = 1
        <5>1. i - 1 = k /\ h + n - (j - 1) = h + n
          BY <1>2, <1>3, <3>1, <4>1
        <5> QED
          BY <1>9, <1>11, <5>1
      <4>2. CASE j # 1
        <5>1. j - 1 \in 1..n /\ i - 1 = k + (j - 1)
          BY <1>2, <1>3, <3>1, <4>2
        <5> QED
          BY <1>8, <1>11, <5>1
      <4> QED
        BY <4>1, <4>2
    <3>4. i # 1 /\ Gain(stack'[i]) = 1 /\ ~(stack'[i] < 0)
      BY <1>3, <2>3, <3>2 DEF Gain
    <3> HIDE DEF j
    <3> QED
      BY <1>2, <1>3, <3>1, <3>2, <3>3, <3>4
  <2> QED
    BY <1>2, <1>3, <2>1, <2>2, <2>3
<1>14. Last(frames').height = h /\ stack' # <<>>
  <2>1. n \in 1..n /\ h + n - n = h
    BY <1>2, <1>3
  <2>2. frames'[k + n].height = h
    BY <1>8, <1>11, <2>1
  <2> QED
    BY <1>2, <1>3, <1>10, <1>11, <2>2, EmptySeq DEF Last
<1>15. ValuesBalanced'
  <2>1. DOMAIN stack' = 1..k + n
    BY <1>2, <1>3, <1>10
  <2>2. Len(valueStack') = h /\ Len(meaning') = h
    BY <1>3, <1>6 DEF h
  <2> QED
    BY <1>10, <1>11, <1>13, <1>14, <2>1, <2>2 DEF ValuesBalanced, Gain
<1> QED
  BY <1>1, <1>6, <1>10, <1>11, <1>15, Types, Assemble
     DEF cursorVars, Round, Analyzing

LEMMA Inductive == IInv /\ [Next]_vars => IInv'
<1> SUFFICES ASSUME IInv, [Next]_vars PROVE IInv'
  OBVIOUS
<1>1. CASE UNCHANGED vars
  BY <1>1 DEF vars, textVars, cursorVars, IInv, TypeOK, ValuesBalanced, FreshStacks,
              Analyzing, Gain
<1> QED
  BY <1>1, StepBegin, StepAccept, StepOverrun, StepRewind, StepEatTerminal,
     StepRunAction, StepApplyProduction, StepApplyEpsilon, StepEpsilonFirst,
     StepReject DEF Next

-----------------------------------------------------------------------------
\* The state of the analyzer has its type, whatever the table and the text.
THEOREM TypeCorrect == Spec => []TypeOK
<1>1. IInv => TypeOK
  BY DEF IInv
<1> QED
  BY <1>1, InitIInv, Inductive, PTL DEF Spec

\* The two stacks of analyze() stay balanced (Analyzer-inl.h:75-82, 106-113),
\* whatever the table and the text, also when mismatches were reported.
THEOREM Balanced == Spec => []ValuesBalanced
<1>1. IInv => ValuesBalanced
  BY DEF IInv
<1> QED
  BY <1>1, InitIInv, Inductive, PTL DEF Spec

-----------------------------------------------------------------------------
(* That the values a marker takes off are those of one handle needs to be known *)
(* of each element of the stack: which symbols precede it in its handle.         *)

\* The number of values below those of the element i.
Base(s, f, i) == IF s[i] < 0 THEN f[i].height + s[i] ELSE f[i].height

IsHandle(a, h) ==
  \E p \in DOMAIN st.productions : st.productionNames[p] = a /\ st.productions[p] = h

\* b[i] are the symbols that precede that of element i in its handle: with it they
\* precede that of element i - 1, or are the handle of which that is the marker.
Follows(s, f, b, i) ==
  IF s[i - 1] < 0
  THEN /\ Len(b[i]) + 1 = -s[i - 1]
       /\ IsHandle(f[i - 1].symbol, Append(b[i], f[i].symbol))
  ELSE b[i - 1] = Append(b[i], f[i].symbol)

\* Their values are there, right below those of element i.
Remembered(s, f, m, b, i) ==
  /\ Len(b[i]) <= Base(s, f, i)
  /\ \A j \in 1..Len(b[i]) : m[Base(s, f, i) - Len(b[i]) + j] = b[i][j]

Aligned(s, f, m, b) ==
  /\ Len(b) = Len(s)
  /\ \A i \in 1..Len(s) : s[i] >= 0 => f[i].symbol = s[i]
  /\ \A i \in 2..Len(s) : Follows(s, f, b, i)
  /\ \A i \in 1..Len(s) : i = Len(s) \/ s[i] < 0 => Remembered(s, f, m, b, i)
  /\ \A i, j \in 1..Len(s) : i < j /\ s[i] < 0 => Base(s, f, i) <= Base(s, f, j)

HandleOnTop(s, f, m) ==
  s # <<>> /\ s[Len(s)] < 0 =>
    IsHandle(f[Len(s)].symbol, SubSeq(m, Len(m) + s[Len(s)] + 1, Len(m)))

HandlesAligned ==
  Analyzing =>
    /\ \E b \in Seq(Seq(Int)) : Aligned(stack, frames, meaning, b)
    /\ HandleOnTop(stack, frames, meaning)

\* Where the values of a handle of l + 1 symbols begin, of c + 1 values.
LEMMA MarkerAmount ==
  ASSUME NEW l \in Nat, NEW x \in Int, NEW c \in Nat, l + 1 = -x
  PROVE  (c + 1) + x + 1 = c - l + 1
OBVIOUS

\* When the top is done, one value stands for it: from s, f and m to s2, f2 and m2,
\* with n elements and c values below the top's.
Done(s, f, m, s2, f2, m2, n, c) ==
  /\ n = Len(s) /\ n = Len(f) /\ c = Base(s, f, n)
  /\ Len(s2) = n - 1 /\ Len(f2) = n - 1
  /\ \A i \in 1..n - 1 : s2[i] = s[i] /\ f2[i] = f[i]
  /\ n # 1 => f[n - 1].height = c + 1
  /\ Len(m2) = c + 1 /\ m2[c + 1] = f[n].symbol
  /\ \A i \in 1..c : m2[i] = m[i]

\* Then the element below is on top.
LEMMA Completes ==
  ASSUME NEW s \in Seq(Int), NEW f \in Seq(Frame), NEW m \in Seq(Int), NEW b \in Seq(Seq(Int)),
         NEW s2 \in Seq(Int), NEW f2 \in Seq(Frame), NEW m2 \in Seq(Int),
         NEW n \in Nat \ {0}, NEW c \in Nat,
         Aligned(s, f, m, b), Done(s, f, m, s2, f2, m2, n, c)
  PROVE  /\ \E b2 \in Seq(Seq(Int)) : Aligned(s2, f2, m2, b2)
         /\ HandleOnTop(s2, f2, m2)
<1>s. /\ n = Len(s) /\ n = Len(f) /\ c = Base(s, f, n)
      /\ Len(s2) = n - 1 /\ Len(f2) = n - 1
      /\ Len(m2) = c + 1
  BY DEF Done
<1>k. \A i \in 1..n - 1 : s2[i] = s[i] /\ f2[i] = f[i]
  BY DEF Done
<1>h. n # 1 => f[n - 1].height = c + 1
  BY DEF Done
<1>v. \A i \in 1..c : m2[i] = m[i]
  BY DEF Done
<1>d. /\ \A i \in 1..n : s[i] >= 0 => f[i].symbol = s[i]
      /\ \A i \in 2..n : Follows(s, f, b, i)
      /\ \A i \in 1..n : i = n \/ s[i] < 0 => Remembered(s, f, m, b, i)
      /\ \A i, j \in 1..n : i < j /\ s[i] < 0 => Base(s, f, i) <= Base(s, f, j)
  BY <1>s DEF Aligned
<1> DEFINE b2 == Front(b)
<1>1. Len(b) = n /\ b # <<>>
  BY <1>s, EmptySeq DEF Aligned
<1>2. b2 \in Seq(Seq(Int)) /\ Len(b2) = n - 1 /\ \A i \in 1..n - 1 : b2[i] = b[i]
  BY <1>1, FrontLast
<1> HIDE DEF b2
<1>3. \A i \in 1..n : b[i] \in Seq(Int) /\ f[i] \in Frame /\ s[i] \in Int
  BY <1>1, <1>s, ElementOfSeq
<1>4. \A i \in 1..n - 1 : Base(s2, f2, i) = Base(s, f, i) /\ Base(s, f, i) \in Int
  <2> TAKE i \in 1..n - 1
  <2>1. i \in 1..n /\ s2[i] = s[i] /\ f2[i] = f[i]
    BY <1>k
  <2>2. s[i] \in Int /\ f[i].height \in Nat
    BY <1>3, <2>1 DEF Frame
  <2>3. Base(s2, f2, i) = Base(s, f, i)
    BY <2>1, Zenon DEF Base
  <2>4. Base(s, f, i) \in Int
    BY ONLY <2>2 DEF Base
  <2> QED
    BY <2>3, <2>4
<1>5. \A i \in 2..n - 1 : Follows(s2, f2, b2, i)
  <2> TAKE i \in 2..n - 1
  <2>1. i \in 1..n - 1 /\ i - 1 \in 1..n - 1 /\ i \in 2..n
    OBVIOUS
  <2>2. Follows(s, f, b, i)
    BY <1>d, <2>1
  <2> QED
    BY <1>2, <1>k, <2>1, <2>2 DEF Follows
<1>6. \A i \in 1..n - 1 : s[i] < 0 => Remembered(s2, f2, m2, b2, i)
  <2> SUFFICES ASSUME NEW i \in 1..n - 1, s[i] < 0 PROVE Remembered(s2, f2, m2, b2, i)
    OBVIOUS
  <2> DEFINE d == Base(s, f, i)
  <2>1. i \in 1..n /\ n \in 1..n /\ i < n
    OBVIOUS
  <2>2. Remembered(s, f, m, b, i) /\ d <= c
    BY <1>d, <1>s, <2>1
  <2> DEFINE l == Len(b[i])
  <2>3. l \in Nat /\ d \in Int /\ Base(s2, f2, i) = d /\ b2[i] = b[i]
    <3>1. b[i] \in Seq(Int)
      BY <1>3, <2>1
    <3>2. d \in Int /\ Base(s2, f2, i) = d
      BY <1>4
    <3>3. b2[i] = b[i]
      BY <1>2
    <3> QED
      BY <3>1, <3>2, <3>3, LenProperties
  <2>7. d <= c
    BY <2>2
  <2>4. l <= d /\ \A j \in 1..l : m[d - l + j] = b[i][j]
    BY <2>2 DEF Remembered
  <2> HIDE DEF d, l
  <2>5. \A j \in 1..l : d - l + j \in 1..c
    <3>1. l \in Nat /\ d \in Int /\ l <= d
      BY <2>3, <2>4
    <3> QED
      BY <2>7, <3>1
  <2>6. \A j \in 1..l : m2[d - l + j] = b[i][j]
    BY <1>v, <2>4, <2>5
  <2> QED
    BY <2>3, <2>4, <2>6 DEF Remembered, l
<1> DEFINE a == b[n]
           x == f[n].symbol
<1>7. /\ a \in Seq(Int) /\ Len(a) \in Nat /\ Len(a) <= c /\ x \in Int
      /\ \A j \in 1..Len(a) : m2[c - Len(a) + j] = a[j]
  <2>1. n \in 1..n
    OBVIOUS
  <2>2. Remembered(s, f, m, b, n)
    BY <1>d, <2>1
  <2>3. Len(a) <= c /\ \A j \in 1..Len(a) : m[c - Len(a) + j] = a[j]
    BY <1>s, <2>2 DEF Remembered
  <2>4. a \in Seq(Int) /\ Len(a) \in Nat /\ x \in Int
    BY <1>3, <2>1 DEF Frame
  <2> HIDE DEF a, x
  <2>5. \A j \in 1..Len(a) : c - Len(a) + j \in 1..c
    BY <2>3, <2>4
  <2> QED
    BY <1>v, <2>3, <2>4, <2>5
<1> DEFINE done == Append(a, x)
<1>8. m2[c + 1] = x
  BY DEF Done
<1>9. n # 1 => Follows(s, f, b, n)
  <2>1. n # 1 => n \in 2..n
    OBVIOUS
  <2> QED
    BY <1>d, <2>1
<1>10. n # 1 => IF s[n - 1] < 0 THEN Len(a) + 1 = -s[n - 1] /\ IsHandle(f[n - 1].symbol, done)
                ELSE b[n - 1] = done
  BY <1>9 DEF Follows
<1> HIDE DEF a, x
<1>11. /\ done \in Seq(Int) /\ Len(done) = Len(a) + 1
       /\ \A j \in 1..Len(a) + 1 : m2[c - Len(a) + j] = done[j]
  <2>1. done \in Seq(Int) /\ Len(done) = Len(a) + 1 /\ done[Len(a) + 1] = x
        /\ \A j \in 1..Len(a) : done[j] = a[j]
    BY <1>7
  <2> HIDE DEF done
  <2>2. c - Len(a) + (Len(a) + 1) = c + 1
    BY <1>7
  <2>3. m2[c - Len(a) + (Len(a) + 1)] = done[Len(a) + 1]
    BY <1>8, <2>1, <2>2
  <2>4. \A j \in 1..Len(a) + 1 : j \in 1..Len(a) \/ j = Len(a) + 1
    BY <1>7
  <2> QED
    BY <1>7, <2>1, <2>3, <2>4
<1> HIDE DEF done
<1>12. n # 1 /\ s[n - 1] >= 0 => Remembered(s2, f2, m2, b2, n - 1)
  <2> SUFFICES ASSUME n # 1, s[n - 1] >= 0 PROVE Remembered(s2, f2, m2, b2, n - 1)
    OBVIOUS
  <2>1. n - 1 \in 1..n - 1 /\ n - 1 \in 1..n
    OBVIOUS
  <2>5. s[n - 1] \in Int
    BY <1>3, <2>1
  <2>6. \A y \in Int : y >= 0 => ~(y < 0)
    OBVIOUS
  <2>7. ~(s[n - 1] < 0)
    BY <2>5, <2>6
  <2>2. b2[n - 1] = done /\ ~(s[n - 1] < 0)
    BY <1>2, <1>10, <2>1, <2>7, Zenon
  <2>3. Base(s2, f2, n - 1) = c + 1
    BY <1>4, <1>h, <2>1, <2>2 DEF Base
  <2>4. (c + 1) - Len(done) = c - Len(a) /\ Len(done) <= c + 1
    <3>1. Len(a) \in Nat /\ Len(a) <= c /\ Len(done) = Len(a) + 1
      BY <1>7, <1>11
    <3> QED
      BY <3>1
  <2> QED
    BY <1>11, <2>2, <2>3, <2>4 DEF Remembered
<1>13. Aligned(s2, f2, m2, b2)
  <2>1. \A i \in 1..n - 1 : s2[i] >= 0 => f2[i].symbol = s2[i]
    <3>1. \A i \in 1..n - 1 : i \in 1..n
      OBVIOUS
    <3> QED
      BY <1>d, <1>k, <3>1
  <2>2. \A i \in 1..n - 1 : i = n - 1 \/ s2[i] < 0 => Remembered(s2, f2, m2, b2, i)
    <3> SUFFICES ASSUME NEW i \in 1..n - 1, i = n - 1 \/ s[i] < 0
                 PROVE  Remembered(s2, f2, m2, b2, i)
      BY <1>k
    <3>1. CASE s[i] < 0
      BY <1>6, <3>1
    <3>2. CASE ~(s[i] < 0)
      <4>1. i = n - 1 /\ n # 1 /\ s[n - 1] >= 0
        BY <1>3, <3>2, SMTT(60)
      <4> QED
        BY <1>12, <4>1
    <3> QED
      BY <3>1, <3>2
  <2>3. \A i, j \in 1..n - 1 : i < j /\ s2[i] < 0 => Base(s2, f2, i) <= Base(s2, f2, j)
    <3>1. \A i \in 1..n - 1 : i \in 1..n
      OBVIOUS
    <3> QED
      BY <1>4, <1>d, <1>k, <3>1
  <2> QED
    BY <1>2, <1>5, <1>s, <2>1, <2>2, <2>3 DEF Aligned
<1>14. HandleOnTop(s2, f2, m2)
  <2> SUFFICES ASSUME s2 # <<>>, s2[n - 1] < 0
               PROVE  IsHandle(f2[n - 1].symbol, SubSeq(m2, Len(m2) + s2[n - 1] + 1, Len(m2)))
    BY <1>s DEF HandleOnTop
  <2>1. n # 1 /\ n - 1 \in 1..n - 1
    <3>1. Len(s2) \in Nat \ {0}
      BY EmptySeq
    <3> QED
      BY <1>s, <3>1, SMTT(30)
  <2>2. s[n - 1] < 0 /\ Len(done) = -s[n - 1] /\ IsHandle(f2[n - 1].symbol, done)
    BY <1>10, <1>11, <1>k, <2>1
  <2>3. Len(m2) + s2[n - 1] + 1 = c - Len(a) + 1
    <3>1. n - 1 \in 1..n
      BY <2>1
    <3>2. s2[n - 1] = s[n - 1] /\ s[n - 1] \in Int
      BY <1>3, <1>k, <2>1, <3>1
    <3>3. Len(a) \in Nat /\ Len(a) + 1 = -s[n - 1]
      BY <1>7, <1>11, <2>2
    <3>4. Len(m2) = c + 1
      BY <1>s
    <3> DEFINE l == Len(a)
               y == s2[n - 1]
    <3>5. l \in Nat /\ y \in Int /\ l + 1 = -y
      BY <3>2, <3>3
    <3>6. Len(m2) + y + 1 = (c + 1) + y + 1
      BY <3>4
    <3> HIDE DEF l, y
    <3>7. (c + 1) + y + 1 = c - l + 1
      BY <3>5, MarkerAmount
    <3>8. Len(m2) + y + 1 = c - l + 1
      BY ONLY <3>6, <3>7, Zenon
    <3> QED
      BY <3>8 DEF l, y
  <2> DEFINE t == SubSeq(m2, c - Len(a) + 1, c + 1)
  <2>4. \A i \in c - Len(a) + 1..c + 1 : m2[i] \in Int
    <3>1. \A i \in c - Len(a) + 1..c + 1 : i \in 1..c + 1
      BY <1>7
    <3> QED
      BY <1>s, <3>1, ElementOfSeq
  <2>5. /\ t \in Seq(Int) /\ Len(t) = Len(a) + 1
        /\ \A j \in 1..Len(a) + 1 : t[j] = m2[(c - Len(a) + 1) + j - 1]
    <3>1. c - Len(a) + 1 \in Int /\ c + 1 \in Int
      BY <1>7
    <3>2. /\ t \in Seq(Int)
          /\ Len(t) = IF c - Len(a) + 1 <= c + 1 THEN (c + 1) - (c - Len(a) + 1) + 1 ELSE 0
          /\ \A j \in 1..(c + 1) - (c - Len(a) + 1) + 1 : t[j] = m2[(c - Len(a) + 1) + j - 1]
      <4> DEFINE from == c - Len(a) + 1
                 to == c + 1
      <4>1. from \in Int /\ to \in Int /\ \A i \in from..to : m2[i] \in Int
        BY <2>4, <3>1
      <4> HIDE DEF from, to
      <4>2. /\ SubSeq(m2, from, to) \in Seq(Int)
            /\ Len(SubSeq(m2, from, to)) = IF from <= to THEN to - from + 1 ELSE 0
            /\ \A j \in 1..to - from + 1 : SubSeq(m2, from, to)[j] = m2[from + j - 1]
        BY <4>1, SubSeqProperties
      <4> QED
        BY <4>2 DEF from, to
    <3>3. (c + 1) - (c - Len(a) + 1) + 1 = Len(a) + 1 /\ c - Len(a) + 1 <= c + 1
      BY <1>7, SMTT(30)
    <3> HIDE DEF t
    <3> QED
      BY <3>2, <3>3
  <2> HIDE DEF t
  <2>6. \A j \in 1..Len(a) + 1 : t[j] = done[j]
    <3>1. \A j \in 1..Len(a) + 1 : (c - Len(a) + 1) + j - 1 = c - Len(a) + j
      BY <1>7
    <3> QED
      BY <1>11, <2>5, <3>1
  <2>7. t = done
    BY <1>11, <2>5, <2>6, SeqEqual
  <2> QED
    BY <1>s, <2>2, <2>3, <2>7 DEF t
<1> QED
  BY <1>2, <1>13, <1>14

\* A prefix and the element after it.
LEMMA PrefixStep ==
  ASSUME NEW S, NEW p \in Seq(S), NEW j \in 1..Len(p)
  PROVE  /\ SubSeq(p, 1, j) \in Seq(S)
         /\ Append(SubSeq(p, 1, j - 1), p[j]) = SubSeq(p, 1, j)
<1>1. Len(p) \in Nat /\ j \in Nat /\ j - 1 \in Nat /\ p[j] \in S
  BY ElementOfSeq
<1> DEFINE q == SubSeq(p, 1, j)
           r == Append(SubSeq(p, 1, j - 1), p[j])
<1>2. q \in Seq(S) /\ Len(q) = j /\ \A i \in 1..j : q[i] = p[i]
  BY <1>1
<1>3. r \in Seq(S) /\ Len(r) = j /\ \A i \in 1..j : r[i] = p[i]
  BY <1>1
<1> HIDE DEF q, r
<1>4. r = q
  BY <1>2, <1>3, SeqEqual
<1> QED
  BY <1>2, <1>4 DEF q, r

\* When a production takes the place of the top, at k: a marker and the symbols of
\* p, the first of them on top; h values are below the top's.
Replaced(s, f, s2, f2, k, h, p) ==
  /\ k = Len(s) /\ k = Len(f) /\ h = f[k].height
  /\ IsHandle(s[k], p)
  /\ Len(s2) = k + Len(p) /\ Len(f2) = k + Len(p)
  /\ \A i \in 1..k - 1 : s2[i] = s[i] /\ f2[i] = f[i]
  /\ s2[k] = -Len(p) /\ f2[k].symbol = s[k] /\ f2[k].height = h + Len(p)
  /\ \A i \in 1..Len(p) :
       /\ s2[k + i] = p[Len(p) - i + 1]
       /\ f2[k + i].symbol = p[Len(p) - i + 1]
       /\ f2[k + i].height = h + Len(p) - i

\* Then nothing precedes the new top in its handle.
LEMMA Expands ==
  ASSUME NEW s \in Seq(Int), NEW f \in Seq(Frame), NEW m \in Seq(Int), NEW b \in Seq(Seq(Int)),
         NEW s2 \in Seq(Int), NEW f2 \in Seq(Frame),
         NEW k \in Nat \ {0}, NEW h \in Nat, NEW p \in Seq(Nat), p # <<>>, s[k] \in Nat,
         Aligned(s, f, m, b), Replaced(s, f, s2, f2, k, h, p)
  PROVE  /\ \E b2 \in Seq(Seq(Int)) : Aligned(s2, f2, m, b2)
         /\ HandleOnTop(s2, f2, m)
<1> DEFINE n == Len(p)
           b2 == [i \in 1..k + n |-> IF i <= k THEN b[i] ELSE SubSeq(p, 1, n - (i - k))]
<1>1. n \in Nat \ {0}
  BY EmptySeq
<1>s. /\ k = Len(s) /\ k = Len(f) /\ h = f[k].height
      /\ IsHandle(s[k], p)
      /\ Len(s2) = k + n /\ Len(f2) = k + n
      /\ s2[k] = -n /\ f2[k].symbol = s[k] /\ f2[k].height = h + n
  BY DEF Replaced
<1>k. \A i \in 1..k - 1 : s2[i] = s[i] /\ f2[i] = f[i]
  BY DEF Replaced
<1>r. \A i \in 1..n :
        /\ s2[k + i] = p[n - i + 1]
        /\ f2[k + i].symbol = p[n - i + 1] /\ f2[k + i].height = h + n - i
  BY Zenon DEF Replaced
<1>d. /\ Len(b) = k
      /\ \A i \in 1..k : s[i] >= 0 => f[i].symbol = s[i]
      /\ \A i \in 2..k : Follows(s, f, b, i)
      /\ \A i \in 1..k : i = k \/ s[i] < 0 => Remembered(s, f, m, b, i)
      /\ \A i, j \in 1..k : i < j /\ s[i] < 0 => Base(s, f, i) <= Base(s, f, j)
  BY <1>s DEF Aligned
<1>2. \A i \in 1..k : b[i] \in Seq(Int) /\ f[i] \in Frame /\ s[i] \in Int
  BY <1>d, <1>s, ElementOfSeq
<1>3. \A i \in 1..n : p[i] \in Nat /\ SubSeq(p, 1, n - i) \in Seq(Int)
  <2> TAKE i \in 1..n
  <2>1. p[i] \in Nat
    BY ElementOfSeq, Zenon
  <2> DEFINE l == n - i
  <2>2. l \in Nat /\ l <= Len(p)
    BY <1>1
  <2> HIDE DEF l
  <2>3. SubSeq(p, 1, l) \in Seq(Nat)
    BY <2>1, <2>2, PrefixAppend
  <2>4. \A q \in Seq(Nat) : q \in Seq(Int)
    OBVIOUS
  <2> QED
    BY <2>1, <2>3, <2>4 DEF l
<1>4. /\ b2 \in Seq(Seq(Int)) /\ Len(b2) = k + n
      /\ \A i \in 1..k : b2[i] = b[i]
      /\ \A i \in 1..n : b2[k + i] = SubSeq(p, 1, n - i)
  <2> HIDE DEF n
  <2>1. \A i \in 1..k + n : i \in 1..k \/ (i - k \in 1..n /\ ~(i <= k))
    BY <1>1
  <2>2. \A i \in 1..k + n : b2[i] \in Seq(Int)
    BY <1>2, <1>3, <2>1, SMTT(30)
  <2>3. \A i \in 1..k : i \in 1..k + n /\ i <= k
    BY <1>1
  <2>4. \A i \in 1..n : k + i \in 1..k + n /\ ~(k + i <= k) /\ (k + i) - k = i
    BY <1>1
  <2>5. b2 \in [1..k + n -> Seq(Int)] /\ k + n \in Nat
    BY <1>1, <2>2, SMTT(30)
  <2>6. \A i \in 1..k : b2[i] = b[i]
    BY <2>3
  <2>7. \A i \in 1..n : b2[k + i] = SubSeq(p, 1, n - i)
    BY <2>4
  <2>8. \A S : \A l \in Nat : \A q \in [1..l -> S] : q \in Seq(S) /\ Len(q) = l
    OBVIOUS
  <2> HIDE DEF b2
  <2>9. b2 \in Seq(Seq(Int)) /\ Len(b2) = k + n
    BY ONLY <2>5, <2>8, Zenon
  <2> QED
    BY <2>6, <2>7, <2>9
<1> HIDE DEF n, b2
<1>5. \A i \in 1..k : Base(s2, f2, i) = Base(s, f, i) /\ Base(s, f, i) \in Int
  <2> TAKE i \in 1..k
  <2>1. s[i] \in Int /\ f[i].height \in Nat
    BY <1>2 DEF Frame
  <2>2. CASE i \in 1..k - 1
    <3>1. s2[i] = s[i] /\ f2[i] = f[i]
      BY <1>k, <2>2, Zenon
    <3>2. Base(s2, f2, i) = Base(s, f, i)
      BY <3>1, Zenon DEF Base
    <3>3. Base(s, f, i) \in Int
      BY ONLY <2>1, SMTT(30) DEF Base
    <3> QED
      BY <3>2, <3>3
  <2>3. CASE i = k
    <3>1. Base(s2, f2, k) = h + n + (-n)
      BY <1>1, <1>s DEF Base
    <3>2. Base(s, f, k) = h
      BY <1>s DEF Base
    <3> QED
      BY <1>1, <2>3, <3>1, <3>2
  <2> QED
    BY <2>2, <2>3
<1>6. \A i \in 1..n : Base(s2, f2, k + i) = h + n - i /\ s2[k + i] \in Nat
  <2> TAKE i \in 1..n
  <2>1. n - i + 1 \in 1..n
    BY <1>1
  <2>2. s2[k + i] \in Nat /\ f2[k + i].height = h + n - i
    BY <1>3, <1>r, <2>1
  <2> QED
    BY <2>2, SMTT(30) DEF Base
<1>7. \A i \in 1..k + n : i \in 1..k \/ \E j \in 1..n : i = k + j
  <2> TAKE i \in 1..k + n
  <2>1. i \in 1..k \/ (i - k \in 1..n /\ i = k + (i - k))
    BY <1>1
  <2> QED
    BY <2>1
<1>8. \A i \in 1..k + n : s2[i] >= 0 => f2[i].symbol = s2[i]
  <2> TAKE i \in 1..k + n
  <2>1. CASE i \in 1..k - 1
    <3>1. s2[i] = s[i] /\ f2[i] = f[i]
      BY <1>k, <2>1, Zenon
    <3>2. i \in 1..k
      BY <2>1
    <3>3. s[i] >= 0 => f[i].symbol = s[i]
      BY <1>d, <3>2, Zenon
    <3> QED
      BY ONLY <3>1, <3>3
  <2>2. CASE i = k
    BY <1>1, <1>s, <2>2
  <2>3. CASE \E j \in 1..n : i = k + j
    BY <1>r, <2>3
  <2>4. i \in 1..k => i \in 1..k - 1 \/ i = k
    OBVIOUS
  <2> QED
    BY <1>7, <2>1, <2>2, <2>3, <2>4
<1>9. \A i \in 2..k + n : Follows(s2, f2, b2, i)
  <2> TAKE i \in 2..k + n
  <2>1. CASE i \in 1..k
    <3>1. i - 1 \in 1..k - 1 /\ i \in 2..k /\ i - 1 \in 1..k
      BY <2>1
    <3>2. Follows(s, f, b, i) /\ b2[i] = b[i] /\ b2[i - 1] = b[i - 1]
      BY <1>4, <1>d, <2>1, <3>1
    <3>3. f2[i].symbol = f[i].symbol
      <4>1. CASE i = k
        BY <1>d, <1>s, <2>1, <4>1, SMTT(30)
      <4>2. CASE i # k
        <5>1. i \in 1..k - 1
          BY <2>1, <4>2
        <5> QED
          BY <1>k, <5>1
      <4> QED
        BY <4>1, <4>2
    <3>4. s2[i - 1] = s[i - 1] /\ f2[i - 1] = f[i - 1]
      BY <1>k, <3>1
    <3> QED
      BY <3>2, <3>3, <3>4 DEF Follows
  <2>2. CASE \E j \in 1..n : i = k + j
    <3>1. PICK j \in 1..n : i = k + j
      BY <2>2
    <3> DEFINE x == n - j + 1
    <3>2. x \in 1..n /\ x - 1 = n - j
      BY <1>1
    <3>3. Append(SubSeq(p, 1, n - j), p[x]) = SubSeq(p, 1, x)
      <4>1. x \in 1..Len(p)
        BY <3>2 DEF n
      <4>2. Append(SubSeq(p, 1, x - 1), p[x]) = SubSeq(p, 1, x)
        BY <4>1, PrefixStep
      <4> QED
        BY <3>2, <4>2
    <3>4. b2[i] = SubSeq(p, 1, n - j) /\ f2[i].symbol = p[x]
      BY <1>4, <1>r, <3>1
    <3>5. Append(b2[i], f2[i].symbol) = SubSeq(p, 1, x)
      BY <3>3, <3>4
    <3>6. CASE j = 1
      <4>1. i - 1 = k /\ x = n /\ s2[i - 1] = -n /\ s2[i - 1] < 0 /\ f2[i - 1].symbol = s[k]
        <5>1. i - 1 = k /\ n - j + 1 = n
          BY <1>1, <3>1, <3>6
        <5>2. s2[k] < 0
          BY <1>1, <1>s
        <5> QED
          BY <1>s, <5>1, <5>2
      <4>2. SubSeq(p, 1, n) = p
        <5>1. \A y \in Seq(Nat) : SubSeq(y, 1, Len(y)) = y
          OBVIOUS
        <5> QED
          BY <5>1 DEF n
      <4>3. Len(b2[i]) + 1 = -s2[i - 1]
        <5>1. n - 1 \in Nat /\ n - 1 <= Len(p)
          <6>1. n \in Nat \ {0} /\ n = Len(p)
            BY <1>1 DEF n
          <6> QED
            BY ONLY <6>1
        <5>2. Len(SubSeq(p, 1, n - 1)) = n - 1
          <6>1. \A y \in Seq(Nat), l \in Nat : l <= Len(y) => Len(SubSeq(y, 1, l)) = l
            OBVIOUS
          <6> QED
            BY ONLY <5>1, <6>1, p \in Seq(Nat)
        <5>3. Len(b2[i]) = n - 1
          BY <3>4, <3>6, <5>2
        <5> QED
          BY <1>1, <4>1, <5>3
      <4>4. IsHandle(f2[i - 1].symbol, Append(b2[i], f2[i].symbol))
        BY <1>s, <3>5, <4>1, <4>2
      <4> QED
        BY <4>1, <4>3, <4>4 DEF Follows
    <3>7. CASE j # 1
      <4>1. j - 1 \in 1..n /\ i - 1 = k + (j - 1) /\ n - (j - 1) = x
        BY <1>1, <3>1, <3>7
      <4>2. b2[i - 1] = SubSeq(p, 1, x) /\ ~(s2[i - 1] < 0)
        <5>1. b2[i - 1] = SubSeq(p, 1, n - (j - 1)) /\ s2[i - 1] \in Nat
          BY <1>4, <1>6, <4>1
        <5>2. \A y \in Nat : ~(y < 0)
          OBVIOUS
        <5>3. ~(s2[i - 1] < 0)
          BY <5>1, <5>2
        <5>4. n - (j - 1) = x
          BY <4>1
        <5> HIDE DEF x
        <5> QED
          BY ONLY <5>1, <5>3, <5>4
      <4> QED
        BY <3>5, <4>2 DEF Follows
    <3> QED
      BY <3>6, <3>7
  <2>3. i \in 1..k + n
    OBVIOUS
  <2> QED
    BY <1>7, <2>1, <2>2, <2>3
<1>10. \A i \in 1..k + n : i = k + n \/ s2[i] < 0 => Remembered(s2, f2, m, b2, i)
  <2> SUFFICES ASSUME NEW i \in 1..k + n, i = k + n \/ s2[i] < 0
               PROVE  Remembered(s2, f2, m, b2, i)
    OBVIOUS
  <2>1. CASE i = k + n
    <3>1. n \in 1..n
      BY <1>1
    <3>2. Base(s2, f2, i) = h + n - n /\ b2[i] = SubSeq(p, 1, n - n)
      BY <1>4, <1>6, <2>1, <3>1
    <3>3. Base(s2, f2, i) = h /\ Len(b2[i]) = 0
      <4>1. n - n = 0 /\ h + n - n = h
        BY <1>1
      <4>2. Len(SubSeq(p, 1, 0)) = 0
        OBVIOUS
      <4> QED
        BY <3>2, <4>1, <4>2
    <3>4. \A j \in 1..0 : FALSE
      OBVIOUS
    <3> QED
      BY <3>3, <3>4 DEF Remembered
  <2>2. CASE i # k + n
    <3>1. i \in 1..k
      <4>1. ~ \E j \in 1..n : i = k + j
        <5> SUFFICES ASSUME NEW j \in 1..n, i = k + j PROVE FALSE
          OBVIOUS
        <5>1. s2[i] \in Nat /\ s2[i] < 0
          BY <1>6, <2>2
        <5> QED
          BY <5>1, SMTT(30)
      <4> QED
        BY <1>7, <4>1
    <3>2. i = k \/ s[i] < 0
      <4>1. i = k \/ i \in 1..k - 1
        BY <3>1
      <4> QED
        BY <1>k, <2>2, <4>1
    <3>3. Remembered(s, f, m, b, i)
      BY <1>d, <3>1, <3>2
    <3>4. b2[i] = b[i] /\ Base(s2, f2, i) = Base(s, f, i)
      BY <1>4, <1>5, <3>1
    <3> QED
      BY <3>3, <3>4 DEF Remembered
  <2> QED
    BY <2>1, <2>2
<1>11. \A i, j \in 1..k + n : i < j /\ s2[i] < 0 => Base(s2, f2, i) <= Base(s2, f2, j)
  <2> SUFFICES ASSUME NEW i \in 1..k + n, NEW j \in 1..k + n, i < j, s2[i] < 0
               PROVE  Base(s2, f2, i) <= Base(s2, f2, j)
    OBVIOUS
  <2>1. i \in 1..k
    <3>1. ~ \E l \in 1..n : i = k + l
      <4> SUFFICES ASSUME NEW l \in 1..n, i = k + l PROVE FALSE
        OBVIOUS
      <4>1. s2[i] \in Nat
        BY <1>6
      <4> QED
        BY <4>1, SMTT(30)
    <3> QED
      BY <1>7, <3>1
  <2>2. k \in 1..k /\ Base(s, f, k) = h
    <3>1. k \in 1..k /\ ~(s[k] < 0)
      BY ONLY k \in Nat \ {0}, s[k] \in Nat
    <3> QED
      BY <1>s, <3>1 DEF Base
  <2>3. i # k => \A l \in 1..k : i < l => Base(s, f, i) <= Base(s, f, l)
    <3> SUFFICES ASSUME i # k PROVE \A l \in 1..k : i < l => Base(s, f, i) <= Base(s, f, l)
      OBVIOUS
    <3>1. i \in 1..k - 1
      BY <2>1
    <3>2. s[i] < 0
      BY <1>k, <3>1
    <3> QED
      BY <1>d, <2>1, <3>2
  <2>4. Base(s, f, i) <= h
    <3>1. CASE i = k
      BY <2>2, <3>1
    <3>2. CASE i # k
      <4>1. i < k
        BY <2>1, <3>2
      <4> QED
        BY <2>2, <2>3, <3>2, <4>1
    <3> QED
      BY <3>1, <3>2
  <2>5. Base(s2, f2, i) = Base(s, f, i) /\ Base(s, f, i) \in Int
    BY <1>5, <2>1
  <2>6. CASE j \in 1..k
    <3>1. i # k
      BY <2>1, <2>6
    <3>2. Base(s2, f2, j) = Base(s, f, j)
      BY <1>5, <2>6
    <3> QED
      BY <2>3, <2>5, <2>6, <3>1, <3>2
  <2>7. CASE \E l \in 1..n : j = k + l
    <3>1. PICK l \in 1..n : j = k + l
      BY <2>7
    <3>2. Base(s2, f2, j) = h + n - l
      BY <1>6, <3>1
    <3> QED
      BY <1>1, <2>4, <2>5, <3>2
  <2> QED
    BY <1>7, <2>6, <2>7
<1>12. Aligned(s2, f2, m, b2)
  BY <1>4, <1>8, <1>9, <1>10, <1>11, <1>s DEF Aligned
<1>13. HandleOnTop(s2, f2, m)
  <2>1. n \in 1..n
    BY <1>1
  <2>2. s2[k + n] \in Nat
    BY <1>6, <2>1
  <2> QED
    BY <1>s, <2>2 DEF HandleOnTop
<1> QED
  BY <1>4, <1>12, <1>13

-----------------------------------------------------------------------------
\* HandlesAligned in the next state, said of the present table.
LEMMA NextTable ==
  ASSUME st' = st,
         \E b \in Seq(Seq(Int)) : Aligned(stack', frames', meaning', b),
         HandleOnTop(stack', frames', meaning')
  PROVE  HandlesAligned'
<1>1. HandleOnTop(stack, frames, meaning)'
  BY DEF HandleOnTop, IsHandle
<1>2. PICK b \in Seq(Seq(Int)) : Aligned(stack', frames', meaning', b)
  OBVIOUS
<1>3. Aligned(stack, frames, meaning, b)'
  BY <1>2 DEF Aligned, Follows, Remembered, Base, IsHandle
<1> QED
  BY <1>1, <1>3 DEF HandlesAligned

\* What is known of the top of the stack.
LEMMA TopAligned ==
  ASSUME IInv, HandlesAligned, Round, NEW n, n = Len(stack)
  PROVE  /\ n \in Nat \ {0} /\ Len(frames) = n /\ Top = stack[n]
         /\ Last(frames) = frames[n] /\ frames[n].symbol \in Int
         /\ Len(meaning) = frames[n].height /\ Len(meaning) \in Nat
         /\ Top < 0 => -Top <= Len(meaning)
         /\ Top >= 0 => frames[n].symbol = Top
         /\ n # 1 => frames[n - 1].height = frames[n].height + Gain(Top)
<1>1. /\ n \in Nat \ {0} /\ Len(frames) = n /\ Top = stack[n]
      /\ Last(frames) = frames[n] /\ frames[n] \in Frame
      /\ Len(meaning) = frames[n].height
  BY Tops
<1>2. n \in 1..n /\ n \in DOMAIN stack
  BY <1>1, Types
<1>3. /\ stack[n] < 0 => frames[n].height >= -stack[n]
      /\ frames[n].height + Gain(stack[n]) = IF n = 1 THEN 1 ELSE frames[n - 1].height
  BY <1>2 DEF IInv, ValuesBalanced, Round
<1>4. stack[n] >= 0 => frames[n].symbol = stack[n]
  <2>1. PICK b \in Seq(Seq(Int)) : Aligned(stack, frames, meaning, b)
    BY DEF HandlesAligned, Round
  <2> QED
    BY <1>2, <2>1 DEF Aligned
<1>5. Top \in Int
  BY Tops
<1> QED
  BY <1>1, <1>3, <1>4, <1>5 DEF Frame

LEMMA InitAligned == Init => HandlesAligned
BY DEF Init, HandlesAligned, Analyzing

LEMMA BeginAligns == IInv /\ Begin => HandlesAligned'
<1> SUFFICES ASSUME IInv, Begin, TokenAt(1) # Unrecognized PROVE HandlesAligned'
  BY DEF HandlesAligned, Analyzing, Begin
<1> DEFINE b == << <<>> >>
<1>1. /\ st.startSymbol \in Nat /\ st' = st
      /\ stack' = <<st.startSymbol>>
      /\ frames' = <<[symbol |-> st.startSymbol, height |-> 0]>>
  BY Types, SymbolNumbers DEF Begin, textVars
<1>2. b \in Seq(Seq(Int)) /\ Len(b) = 1 /\ Len(b[1]) = 0
  OBVIOUS
<1>3. /\ Len(stack') = 1 /\ stack'[1] = st.startSymbol
      /\ frames'[1].symbol = st.startSymbol /\ frames'[1].height = 0
  BY <1>1
<1> HIDE DEF b
<1>4. ~(stack'[1] < 0) /\ Base(stack', frames', 1) = 0
  BY <1>1, <1>3 DEF Base
<1>5. Aligned(stack', frames', meaning', b)
  <2>1. Remembered(stack', frames', meaning', b, 1)
    BY <1>2, <1>4 DEF Remembered
  <2>2. \A i \in 1..1 : i = 1
    OBVIOUS
  <2>3. \A i \in 2..1 : FALSE
    OBVIOUS
  <2> QED
    BY <1>2, <1>3, <1>4, <2>1, <2>2, <2>3 DEF Aligned
<1>6. HandleOnTop(stack', frames', meaning')
  BY <1>3, <1>4 DEF HandleOnTop
<1> QED
  BY <1>1, <1>2, <1>5, <1>6, NextTable

\* A round that takes the top off and leaves one value for it.
LEMMA DoneAligns ==
  ASSUME IInv, HandlesAligned, Round, Pop, st' = st,
         NEW n \in Nat \ {0}, n = Len(stack),
         NEW c \in Nat, c = Base(stack, frames, n),
         meaning' \in Seq(Int), Len(meaning') = c + 1,
         meaning'[c + 1] = frames[n].symbol,
         \A i \in 1..c : meaning'[i] = meaning[i],
         n # 1 => frames[n - 1].height = c + 1
  PROVE  HandlesAligned'
<1>1. /\ stack' \in Seq(Int) /\ frames' \in Seq(Frame)
      /\ Len(stack') = n - 1 /\ Len(frames') = n - 1
      /\ \A i \in 1..n - 1 : stack'[i] = stack[i] /\ frames'[i] = frames[i]
  BY Popped
<1>2. stack \in Seq(Int) /\ frames \in Seq(Frame) /\ meaning \in Seq(Int) /\ Len(frames) = n
  BY Types, Tops
<1>3. Done(stack, frames, meaning, stack', frames', meaning', n, c)
  BY <1>1, <1>2 DEF Done
<1>4. PICK b \in Seq(Seq(Int)) : Aligned(stack, frames, meaning, b)
  BY DEF HandlesAligned, Round
<1> QED
  BY <1>1, <1>2, <1>3, <1>4, Completes, NextTable, SMTT(30)

LEMMA ValueAligns ==
  ASSUME IInv, HandlesAligned, Round, Pop, Top \in Nat, NEW x, PushValue(x, Top), st' = st
  PROVE  HandlesAligned'
<1> DEFINE n == Len(stack)
           c == Len(meaning)
<1>1. /\ n \in Nat \ {0} /\ Top = stack[n] /\ frames[n].height = c /\ c \in Nat
      /\ frames[n].symbol = Top
      /\ n # 1 => frames[n - 1].height = c + 1
  <2>1. /\ n \in Nat \ {0} /\ Top = stack[n] /\ frames[n].height = c /\ c \in Nat
        /\ Top >= 0 => frames[n].symbol = Top
        /\ n # 1 => frames[n - 1].height = frames[n].height + Gain(Top)
    BY TopAligned, Zenon
  <2>2. Top >= 0 /\ Gain(Top) = 1
    BY DEF Gain
  <2> HIDE DEF n, c
  <2> QED
    BY <2>1, <2>2
<1>2. Base(stack, frames, n) = c
  BY <1>1 DEF Base
<1>3. /\ meaning' \in Seq(Int) /\ Len(meaning') = c + 1
      /\ meaning'[c + 1] = Top
      /\ \A i \in 1..c : meaning'[i] = meaning[i]
  BY <1>1, Types, SMTT(30) DEF PushValue
<1> HIDE DEF c
<1> QED
  BY <1>1, <1>2, <1>3, DoneAligns

LEMMA RewindAligns == IInv /\ HandlesAligned /\ Rewind => HandlesAligned'
<1> SUFFICES ASSUME IInv, HandlesAligned, Rewind PROVE HandlesAligned'
  OBVIOUS
<1> DEFINE n == Len(stack)
           c == Len(meaning) + Top
           y == Last(frames).symbol
<1>1. Round /\ Pop /\ Top < 0 /\ st' = st /\ Top \in Int
  BY Tops DEF Rewind, textVars
<1>2. /\ n \in Nat \ {0} /\ Top = stack[n] /\ frames[n].height = Len(meaning)
      /\ Len(meaning) \in Nat /\ c \in Nat /\ c <= Len(meaning)
      /\ y = frames[n].symbol /\ y \in Int
      /\ n # 1 => frames[n - 1].height = c + 1
  <2> DEFINE d == Len(meaning)
  <2>1. /\ n \in Nat \ {0} /\ Top = stack[n] /\ frames[n].height = d /\ d \in Nat
        /\ Top < 0 => -Top <= d
        /\ y = frames[n].symbol /\ y \in Int
        /\ n # 1 => frames[n - 1].height = frames[n].height + Gain(Top)
    BY <1>1, TopAligned, Zenon
  <2>2. Gain(Top) = Top + 1
    BY <1>1 DEF Gain
  <2> HIDE DEF n, d, y
  <2>3. d + Top \in Nat /\ d + Top <= d /\ d + (Top + 1) = (d + Top) + 1
    BY <1>1, <2>1
  <2> QED
    BY <2>1, <2>2, <2>3 DEF d
<1>3. Base(stack, frames, n) = c
  BY <1>1, <1>2 DEF Base
<1>4. meaning' = Append(SubSeq(meaning, 1, c), y)
  BY DEF Rewind, Resized
<1> HIDE DEF c, y
<1>5. /\ meaning' \in Seq(Int) /\ Len(meaning') = c + 1
      /\ meaning'[c + 1] = y
      /\ \A i \in 1..c : meaning'[i] = meaning[i]
  <2>1. meaning \in Seq(Int)
    BY Types
  <2> QED
    BY <1>2, <1>4, <2>1
<1> QED
  BY <1>1, <1>2, <1>3, <1>5, DoneAligns

\* What the stacks are after a production was applied.
LEMMA ProductionReplaces ==
  ASSUME IInv, ApplyProduction
  PROVE  LET p == Handle(st, Top, Current) IN
         /\ Round /\ Top \in Nat /\ st' = st /\ meaning' = meaning
         /\ p \in Seq(Nat) /\ p \in Seq(SymbolIds(st)) /\ p # <<>>
         /\ IsHandle(Top, p)
         /\ stack' \in Seq(Int) /\ frames' \in Seq(Frame)
         /\ Replaced(stack, frames, stack', frames', Len(stack), Len(valueStack), p)
<1> DEFINE p == Handle(st, Top, Current)
           n == Len(p)
           h == Len(valueStack)
           k == Len(stack)
           rest == [i \in 1..n |-> [symbol |-> Pushed(p)[i], height |-> h + n - i]]
           marker == [symbol |-> Top, height |-> h + n]
<1>1. /\ Round /\ Top \in Nat /\ p # <<>> /\ st' = st /\ meaning' = meaning
      /\ p \in Seq(SymbolIds(st)) /\ SymbolIds(st) \subseteq Nat
  BY Types, SymbolNumbers, HandleType
     DEF ApplyProduction, Expanding, IsNonTerminalId, textVars
<1>2. n \in Nat \ {0} /\ p \in Seq(Nat)
  BY <1>1, EmptySeq
<1>3. IsHandle(Top, p)
  <2>1. HasEntry(st, Top, Current) /\ IsSyntaxTable(st)
    BY Types DEF ApplyProduction
  <2> QED
    BY <2>1 DEF IsHandle, HasEntry, Handle, IsSyntaxTable
<1>4. /\ k \in Nat \ {0} /\ Top = stack[k] /\ Len(frames) = k
      /\ h \in Nat /\ frames[k].height = h
      /\ frames \in Seq(Frame) /\ frames # <<>>
      /\ stack \in Seq(Int) /\ stack # <<>> /\ meaning \in Seq(Int)
  BY <1>1, Tops, Types, SMTT(30) DEF Round
<1>5. /\ stack' = ReplaceTop(stack, -n, Pushed(p))
      /\ frames' = ReplaceTop(frames, marker, rest)
  BY DEF ApplyProduction
<1>6. /\ Pushed(p) \in Seq(Nat) /\ Pushed(p) \in Seq(Int) /\ Len(Pushed(p)) = n
      /\ \A i \in 1..n : Pushed(p)[i] = p[n - i + 1] /\ Pushed(p)[i] \in Nat
  BY <1>2, PushedFacts, SMTT(30)
<1>7. marker \in Frame /\ rest \in Seq(Frame) /\ Len(rest) = n
  <2>1. \A i \in 1..n : [symbol |-> Pushed(p)[i], height |-> h + n - i] \in Frame
    <3> TAKE i \in 1..n
    <3>1. Pushed(p)[i] \in Int
      BY <1>6
    <3>2. h + n - i \in Nat
      BY <1>2, <1>4
    <3> HIDE DEF n, h, p
    <3> QED
      BY <3>1, <3>2 DEF Frame
  <2>2. rest \in [1..n -> Frame]
    BY <2>1
  <2>3. marker \in Frame
    BY <1>1, <1>2, <1>4, SMTT(30) DEF Frame
  <2> HIDE DEF rest, marker, n
  <2> QED
    BY <1>2, <2>2, <2>3
<1>8. \A i \in 1..n : rest[i].symbol = Pushed(p)[i] /\ rest[i].height = h + n - i
  OBVIOUS
<1>9. marker.symbol = Top /\ marker.height = h + n
  OBVIOUS
<1> HIDE DEF marker, rest
<1>10. stack' \in Seq(Int) /\ IsReplaced(stack', stack, -n, Pushed(p))
  <2>1. -n \in Int
    BY <1>2
  <2> QED
    BY <1>4, <1>5, <1>6, <2>1, ReplaceTopFacts
<1>11. frames' \in Seq(Frame) /\ IsReplaced(frames', frames, marker, rest)
  BY <1>4, <1>5, <1>7, ReplaceTopFacts
<1>12. Replaced(stack, frames, stack', frames', k, h, p)
  <2>1. /\ Len(stack') = k + n /\ stack'[k] = -n
        /\ \A i \in 1..k - 1 : stack'[i] = stack[i]
        /\ \A i \in 1..n : stack'[k + i] = p[n - i + 1]
    BY <1>6, <1>10 DEF IsReplaced
  <2>2. /\ Len(frames') = k + n /\ frames'[k] = marker
        /\ \A i \in 1..k - 1 : frames'[i] = frames[i]
        /\ \A i \in 1..n : frames'[k + i] = rest[i]
    BY <1>4, <1>7, <1>11 DEF IsReplaced
  <2>3. \A i \in 1..n : /\ frames'[k + i].symbol = p[n - i + 1]
                        /\ frames'[k + i].height = h + n - i
    BY <1>6, <1>8, <2>2, Zenon
  <2> HIDE DEF p, h
  <2> QED
    BY <1>3, <1>4, <1>9, <2>1, <2>2, <2>3, Zenon DEF Replaced
<1> QED
  BY <1>1, <1>2, <1>3, <1>10, <1>11, <1>12

LEMMA ProductionAligns == IInv /\ HandlesAligned /\ ApplyProduction => HandlesAligned'
<1> SUFFICES ASSUME IInv, HandlesAligned, ApplyProduction PROVE HandlesAligned'
  OBVIOUS
<1> DEFINE p == Handle(st, Top, Current)
           h == Len(valueStack)
           k == Len(stack)
<1>1. /\ Round /\ Top \in Nat /\ st' = st /\ meaning' = meaning
      /\ p \in Seq(Nat) /\ p # <<>>
      /\ stack' \in Seq(Int) /\ frames' \in Seq(Frame)
      /\ Replaced(stack, frames, stack', frames', k, h, p)
  BY ProductionReplaces
<1>2. PICK b \in Seq(Seq(Int)) : Aligned(stack, frames, meaning, b)
  BY <1>1 DEF HandlesAligned, Round
<1>3. /\ k \in Nat \ {0} /\ h \in Nat /\ stack[k] \in Nat
      /\ stack \in Seq(Int) /\ frames \in Seq(Frame) /\ meaning \in Seq(Int)
  <2>1. k \in Nat \ {0} /\ Top = stack[k]
    BY <1>1, Tops
  <2> QED
    BY <1>1, <2>1, Types
<1> HIDE DEF p, h, k
<1>4. /\ \E b2 \in Seq(Seq(Int)) : Aligned(stack', frames', meaning, b2)
      /\ HandleOnTop(stack', frames', meaning)
  BY <1>1, <1>2, <1>3, Expands
<1> QED
  BY <1>1, <1>4, NextTable

LEMMA NextAligned == IInv /\ HandlesAligned /\ [Next]_vars => HandlesAligned'
<1> SUFFICES ASSUME IInv, HandlesAligned, [Next]_vars PROVE HandlesAligned'
  OBVIOUS
<1>1. CASE EatTerminal
  <2>1. Round /\ Pop /\ Top \in Nat /\ PushValue(NoAction, Top) /\ st' = st
    BY <1>1, Types, SymbolNumbers DEF EatTerminal, IsTerminalId, textVars
  <2> QED
    BY <2>1, ValueAligns
<1>2. CASE RunAction
  <2>1. Round /\ Pop /\ Top \in Nat /\ PushValue(Top, Top) /\ st' = st
    BY <1>2, Types, SymbolNumbers DEF RunAction, IsActionId, textVars
  <2> QED
    BY <2>1, ValueAligns
<1>3. CASE ApplyEpsilon
  <2>1. Round /\ Pop /\ Top \in Nat /\ PushValue(Last(valueStack), Top) /\ st' = st
    BY <1>3, Types, SymbolNumbers DEF ApplyEpsilon, Expanding, IsNonTerminalId, textVars
  <2> QED
    BY <2>1, ValueAligns
<1>4. CASE Accept \/ Overrun \/ EpsilonFirst \/ Reject
  <2>1. pc' # "analyzing"
    BY <1>4 DEF Accept, Overrun, EpsilonFirst, Reject
  <2> QED
    BY <2>1 DEF HandlesAligned, Analyzing
<1>5. CASE UNCHANGED vars
  <2>1. UNCHANGED <<pc, stack, frames, meaning, st>>
    BY <1>5 DEF vars, textVars
  <2>2. HandleOnTop(stack, frames, meaning)' = HandleOnTop(stack, frames, meaning)
    BY <2>1 DEF HandleOnTop, IsHandle
  <2>3. \A b : Aligned(stack, frames, meaning, b)' = Aligned(stack, frames, meaning, b)
    BY <2>1 DEF Aligned, Follows, Remembered, Base, IsHandle
  <2> QED
    BY <2>1, <2>2, <2>3 DEF HandlesAligned, Analyzing
<1> QED
  BY <1>1, <1>2, <1>3, <1>4, <1>5, BeginAligns, RewindAligns, ProductionAligns DEF Next

\* The values a marker takes off the value stack are those of one handle of its
\* nonterminal, symbol by symbol (Analyzer-inl.h:75-82, 106-113), whatever the table
\* and the text.
THEOREM RewindsHandle == Spec => []RewindsOneHandle
<1>1. IInv /\ HandlesAligned => RewindsOneHandle
  <2> SUFFICES ASSUME IInv, HandlesAligned, Round, Top < 0
               PROVE  \E p \in DOMAIN st.productions :
                        /\ st.productionNames[p] = Last(frames).symbol
                        /\ st.productions[p] =
                             SubSeq(meaning, Len(meaning) + Top + 1, Len(meaning))
    BY DEF RewindsOneHandle
  <2>1. HandleOnTop(stack, frames, meaning) /\ stack # <<>>
    BY DEF HandlesAligned, Round
  <2>2. Top = stack[Len(stack)] /\ Last(frames) = frames[Len(stack)]
    BY Tops
  <2> QED
    BY <2>1, <2>2 DEF HandleOnTop, IsHandle
<1> QED
  BY <1>1, InitIInv, Inductive, InitAligned, NextAligned, PTL DEF Spec

-----------------------------------------------------------------------------
\* As long as there is no value, the first word is the current token and nothing was
\* taken off but markers and epsilon rules.
UntilFirstValue ==
  /\ pc = "begin" => matched = <<>>
  /\ Analyzing /\ valueStack = <<>> => at = 1 /\ matched = <<>>
  /\ EpsilonFindsValue

LEMMA NextUntilFirstValue ==
  IInv /\ UntilFirstValue /\ [Next]_vars => UntilFirstValue'
<1> SUFFICES ASSUME IInv, UntilFirstValue, [Next]_vars PROVE UntilFirstValue'
  OBVIOUS
<1> USE DEF UntilFirstValue, EpsilonFindsValue, Analyzing
<1>0. valueStack \in Seq(Int) /\ meaning \in Seq(Int) /\ matched \in Seq(Int)
  BY Types
<1>1. CASE Begin
  BY <1>1 DEF Begin
<1>2. CASE Accept \/ Overrun \/ Reject
  BY <1>2 DEF Accept, Overrun, Reject, cursorVars
<1>3. CASE EatTerminal \/ RunAction \/ ApplyEpsilon
  <2>1. /\ \E x, y : valueStack' = Append(valueStack, x)
        /\ pc' \in {"analyzing", "thrown"}
    BY <1>3 DEF EatTerminal, RunAction, ApplyEpsilon, PushValue, Advance, Expanding, Round
  <2>2. valueStack' # <<>>
    <3>1. PICK x, y : valueStack' = Append(valueStack, x)
      BY <2>1
    <3>2. Len(Append(valueStack, x)) = Len(valueStack) + 1 /\ Len(valueStack) \in Nat
      BY <1>0
    <3> QED
      BY <3>1, <3>2
  <2> QED
    BY <2>1, <2>2
<1>4. CASE Rewind
  <2>1. valueStack' # <<>> /\ pc' = "analyzing"
    <3>1. valueStack' = Append(Resized(valueStack), ValueOfHandle) /\ pc' = "analyzing"
      BY <1>4 DEF Rewind, Round
    <3> QED
      BY <3>1
  <2> QED
    BY <2>1
<1>5. CASE ApplyProduction
  BY <1>5 DEF ApplyProduction, Expanding, Round, cursorVars
<1>6. CASE EpsilonFirst
  <2>1. Round /\ valueStack = <<>> /\ UNCHANGED <<at, meaning, matched>> /\ pc' = "aborted"
    BY <1>6 DEF EpsilonFirst, Expanding, cursorVars
  <2>2. Len(meaning) = 0
    BY <2>1, Tops
  <2> QED
    BY <1>0, <2>1, <2>2, EmptySeq DEF Round
<1>7. CASE UNCHANGED vars
  BY <1>7 DEF vars, cursorVars
<1> QED
  BY <1>1, <1>2, <1>3, <1>4, <1>5, <1>6, <1>7 DEF Next

\* The assertion of Analyzer-inl.h:117 fails at the start of a text or never,
\* whatever the table and the text.
THEOREM EpsilonBehindValue == Spec => []EpsilonFindsValue
<1>1. Init => UntilFirstValue
  BY DEF Init, UntilFirstValue, EpsilonFindsValue, Analyzing
<1>2. UntilFirstValue => EpsilonFindsValue
  BY DEF UntilFirstValue
<1> QED
  BY <1>1, <1>2, InitIInv, Inductive, NextUntilFirstValue, PTL DEF Spec

-----------------------------------------------------------------------------
(* The values that analyze() has are those of the symbols they are said to be of. *)

\* x is what a production of the start symbol comes to.
IsStartValue(x) ==
  \E p \in DOMAIN st.productions :
    /\ st.productionNames[p] = st.startSymbol
    /\ x = IF IsActionId(st, Last(st.productions[p]))
           THEN Last(st.productions[p]) ELSE NoAction

\* x may be the value of the symbol y.
IsValueOf(x, y) ==
  /\ IsActionId(st, y) => x = y
  /\ IsTerminalId(st, y) => x = NoAction
  /\ y = st.startSymbol => IsStartValue(x)

ValuesMeant ==
  Analyzing => \A i \in 1..Len(meaning) : IsValueOf(valueStack[i], meaning[i])

\* The element at the bottom of the stack completes the start symbol.
StartAtBottom ==
  Analyzing =>
    IF stack = <<>> THEN meaning[1] = st.startSymbol
    ELSE frames[1].symbol = st.startSymbol

StartValued == ValuesMeant /\ StartAtBottom /\ ReturnsStartValue

\* The three kinds of symbols have no number in common.
LEMMA KindsApart ==
  ASSUME NEW t, IsSyntaxTable(t), NEW x
  PROVE  /\ x \in NonTerminalIds(t) => x \notin TerminalIds(t) /\ x \notin ActionIds(t)
         /\ x \in TerminalIds(t) => x \notin ActionIds(t)
BY DEF IsSyntaxTable, NonTerminalIds, TerminalIds, ActionIds

LEMMA NextValuesMeant ==
  ASSUME st' = st, \A i \in 1..Len(meaning') : IsValueOf(valueStack'[i], meaning'[i])
  PROVE  ValuesMeant'
BY DEF ValuesMeant, IsValueOf, IsStartValue

\* A value that is appended to those that were there, or to the first m of them.
LEMMA AppendMeant ==
  ASSUME IInv, ValuesMeant, Round, st' = st, NEW m \in Nat, m <= Len(meaning),
         NEW x \in Int, NEW y \in Int, IsValueOf(x, y),
         valueStack' = Append(SubSeq(valueStack, 1, m), x),
         meaning' = Append(SubSeq(meaning, 1, m), y)
  PROVE  ValuesMeant'
<1>1. /\ valueStack \in Seq(Int) /\ meaning \in Seq(Int)
      /\ Len(meaning) = Len(valueStack) /\ Len(meaning) \in Nat
  BY Types, Tops
<1>2. /\ Len(meaning') = m + 1 /\ meaning'[m + 1] = y
      /\ \A i \in 1..m : meaning'[i] = meaning[i]
  BY <1>1
<1>3. /\ valueStack'[m + 1] = x
      /\ \A i \in 1..m : valueStack'[i] = valueStack[i]
  BY <1>1
<1>4. \A i \in 1..m : IsValueOf(valueStack'[i], meaning'[i])
  <2>1. \A i \in 1..m : i \in 1..Len(meaning)
    BY <1>1
  <2>2. \A i \in 1..m : IsValueOf(valueStack[i], meaning[i])
    BY <2>1 DEF ValuesMeant, Round
  <2> QED
    BY <1>2, <1>3, <2>2
<1>5. \A i \in 1..m + 1 : i \in 1..m \/ i = m + 1
  OBVIOUS
<1>6. \A i \in 1..Len(meaning') : IsValueOf(valueStack'[i], meaning'[i])
  BY <1>2, <1>3, <1>4, <1>5
<1> QED
  BY <1>6, NextValuesMeant

LEMMA PushMeant ==
  ASSUME IInv, ValuesMeant, Round, st' = st, NEW x \in Int, Top \in Int, IsValueOf(x, Top),
         PushValue(x, Top)
  PROVE  ValuesMeant'
<1> DEFINE m == Len(meaning)
           y == Top
<1>1. m \in Nat /\ m = Len(valueStack) /\ valueStack \in Seq(Int) /\ meaning \in Seq(Int)
  BY Types, Tops
<1>2. SubSeq(valueStack, 1, m) = valueStack /\ SubSeq(meaning, 1, m) = meaning
  BY <1>1
<1>3. /\ valueStack' = Append(SubSeq(valueStack, 1, m), x)
      /\ meaning' = Append(SubSeq(meaning, 1, m), y)
  BY <1>2 DEF PushValue
<1>4. m <= Len(meaning) /\ y \in Int /\ IsValueOf(x, y)
  BY <1>1
<1> HIDE DEF m, y
<1> QED
  BY <1>1, <1>3, <1>4, AppendMeant

\* When the element at the bottom is done, its symbol has the only value.
LEMMA PopBottom ==
  ASSUME IInv, StartAtBottom, Round, Pop, st' = st,
         Len(stack) = 1 => meaning'[1] = frames[1].symbol
  PROVE  StartAtBottom'
<1> DEFINE n == Len(stack)
<1>1. /\ n \in Nat \ {0} /\ Len(stack') = n - 1 /\ stack' \in Seq(Int)
      /\ \A i \in 1..n - 1 : frames'[i] = frames[i]
  BY Tops, Popped
<1>2. frames[1].symbol = st.startSymbol
  BY DEF StartAtBottom, Round
<1>3. CASE n = 1
  <2>1. stack' = <<>>
    BY <1>1, <1>3, EmptySeq
  <2> QED
    BY <1>2, <1>3, <2>1 DEF StartAtBottom
<1>4. CASE n # 1
  <2>1. 1 \in 1..n - 1
    BY <1>1, <1>4
  <2>2. stack' # <<>>
    BY <1>1, <1>4
  <2>3. frames'[1] = frames[1]
    BY <1>1, <2>1
  <2> QED
    BY <1>2, <2>2, <2>3 DEF StartAtBottom
<1> QED
  BY <1>3, <1>4

LEMMA PushBottom ==
  ASSUME IInv, HandlesAligned, StartAtBottom, Round, Pop, st' = st, Top \in Nat,
         NEW x, PushValue(x, Top)
  PROVE  StartAtBottom'
<1> SUFFICES ASSUME Len(stack) = 1 PROVE meaning'[1] = frames[1].symbol
  BY PopBottom
<1>1. /\ Len(meaning) = frames[1].height /\ frames[1].symbol = Top
      /\ Top = stack[1] /\ meaning \in Seq(Int)
  <2> DEFINE n == Len(stack)
  <2>1. /\ Top = stack[n] /\ Len(meaning) = frames[n].height
        /\ Top >= 0 => frames[n].symbol = Top
    BY TopAligned, Zenon
  <2>2. Top >= 0
    OBVIOUS
  <2> QED
    BY <2>1, <2>2, Types
<1>2. frames[1].height = 0
  <2>1. 1 \in DOMAIN stack
    BY Types
  <2>2. frames[1].height + Gain(stack[1]) = 1
    BY <2>1 DEF IInv, ValuesBalanced, Round
  <2>3. Gain(stack[1]) = 1
    BY <1>1 DEF Gain
  <2>4. frames[1].height \in Nat
    BY <1>1
  <2> QED
    BY <2>2, <2>3, <2>4
<1>3. meaning = <<>>
  BY <1>1, <1>2, EmptySeq
<1> QED
  BY <1>1, <1>3 DEF PushValue

LEMMA LastOfSubSeq ==
  ASSUME NEW S, NEW l \in Seq(S), NEW m \in Nat, NEW k \in Nat, m < k, k <= Len(l)
  PROVE  Last(SubSeq(l, m + 1, k)) = l[k]
<1>1. /\ Len(SubSeq(l, m + 1, k)) = k - m
      /\ \A i \in 1..k - m : SubSeq(l, m + 1, k)[i] = l[m + i]
  OBVIOUS
<1>2. k - m \in 1..k - m /\ m + (k - m) = k
  OBVIOUS
<1> QED
  BY <1>1, <1>2 DEF Last

LEMMA RewindMeant ==
  ASSUME IInv, HandlesAligned, StartValued, StartIsClosed, st \in Tables, Rewind
  PROVE  ValuesMeant' /\ StartAtBottom'
<1> DEFINE k == Len(meaning)
           m == k + Top
           x == Last(valueStack)
           y == Last(frames).symbol
<1>1. /\ Round /\ Pop /\ st' = st /\ Top \in Int /\ Top < 0
      /\ valueStack' = Append(SubSeq(valueStack, 1, Len(valueStack) + Top), x)
      /\ meaning' = Append(SubSeq(meaning, 1, m), y)
  BY Tops DEF Rewind, textVars, Resized, ValueOfHandle
<1>2. /\ k \in Nat /\ -Top <= k /\ Len(valueStack) = k
      /\ y = frames[Len(stack)].symbol /\ y \in Int
      /\ k = frames[Len(stack)].height
  <2> DEFINE n == Len(stack)
  <2>1. /\ Top < 0 => -Top <= k
        /\ Last(frames) = frames[n] /\ frames[n].symbol \in Int
        /\ k = frames[n].height /\ k \in Nat
    BY <1>1, TopAligned, Zenon
  <2> QED
    BY <1>1, <2>1, Tops
<1>3. m \in Nat /\ m < k /\ k \in 1..k
  BY <1>1, <1>2, SMTT(30)
<1>4. x \in Int /\ x = valueStack[k] /\ meaning \in Seq(Int)
  <2>1. valueStack \in Seq(Int) /\ valueStack # <<>> /\ meaning \in Seq(Int)
    <3> HIDE DEF k, m, x, y
    <3>1. Len(valueStack) # 0
      BY <1>2, <1>3
    <3>2. valueStack \in Seq(Int) /\ meaning \in Seq(Int)
      BY Types
    <3> QED
      BY <3>1, <3>2
  <2> QED
    BY <1>2, <2>1, FrontLast DEF Last
<1>5. PICK p \in DOMAIN st.productions :
        /\ st.productionNames[p] = y
        /\ st.productions[p] = SubSeq(meaning, m + 1, k)
  <2>1. HandleOnTop(stack, frames, meaning) /\ stack # <<>>
    BY <1>1 DEF HandlesAligned, Round
  <2>2. Top = stack[Len(stack)]
    BY <1>1, Tops
  <2> QED
    BY <1>1, <1>2, <2>1, <2>2 DEF HandleOnTop, IsHandle
<1>6. y \in NonTerminalIds(st) /\ IsSyntaxTable(st)
  BY <1>5, Types DEF IsSyntaxTable
<1>7. Last(st.productions[p]) = meaning[k]
  <2>1. k <= Len(meaning)
    BY <1>2
  <2> HIDE DEF k, m
  <2>2. Last(SubSeq(meaning, m + 1, k)) = meaning[k]
    BY <1>2, <1>3, <1>4, <2>1, LastOfSubSeq
  <2> QED
    BY <1>5, <2>2
<1>8. IsValueOf(x, meaning[k])
  BY <1>1, <1>3, <1>4 DEF StartValued, ValuesMeant, Round
<1>9. y = st.startSymbol => IsStartValue(x)
  <2> SUFFICES ASSUME y = st.startSymbol PROVE IsStartValue(x)
    OBVIOUS
  <2> DEFINE z == Last(st.productions[p])
  <2>1. z \notin NonTerminalIds(st)
    BY <1>5 DEF StartIsClosed
  <2>2. z \in SymbolIds(st)
    <3>1. st.productions[p] # <<>>
      BY <1>5 DEF StartIsClosed
    <3>2. st.productions[p] \in Seq(SymbolIds(st))
      <4>1. st.productions \in Seq(Seq(SymbolIds(st)))
        BY <1>6 DEF IsSyntaxTable
      <4> QED
        BY ONLY <4>1, p \in DOMAIN st.productions
    <3> QED
      BY <3>1, <3>2, FrontLast
  <2>3. IsActionId(st, z) \/ IsTerminalId(st, z)
    BY <2>1, <2>2 DEF SymbolIds, IsActionId, IsTerminalId
  <2>4. z = meaning[k]
    BY <1>7
  <2>5. IsTerminalId(st, z) => ~IsActionId(st, z)
    BY <1>6, KindsApart DEF IsTerminalId, IsActionId
  <2>6. x = IF IsActionId(st, z) THEN z ELSE NoAction
    BY <1>8, <2>3, <2>4, <2>5 DEF IsValueOf
  <2> QED
    BY <1>5, <2>6 DEF IsStartValue
<1>10. IsValueOf(x, y)
  BY <1>6, <1>9, KindsApart DEF IsValueOf, IsActionId, IsTerminalId
<1>11. ValuesMeant'
  <2>1. m <= Len(meaning) /\ Len(valueStack) + Top = m
    BY <1>2, <1>3
  <2>2. ValuesMeant
    BY DEF StartValued
  <2> HIDE DEF k, m, x, y
  <2> QED
    BY <1>1, <1>2, <1>3, <1>4, <1>10, <2>1, <2>2, AppendMeant
<1>12. Len(stack) = 1 => meaning'[1] = frames[1].symbol
  <2> SUFFICES ASSUME Len(stack) = 1 PROVE meaning'[1] = frames[1].symbol
    OBVIOUS
  <2>1. m = 0
    <3>1. 1 \in DOMAIN stack
      BY Types
    <3>2. frames[1].height + Gain(stack[1]) = 1 /\ Top = stack[1]
      BY <1>1, <3>1, Tops DEF IInv, ValuesBalanced, Round
    <3> QED
      BY <1>1, <1>2, <3>2 DEF Gain
  <2>2. meaning' = <<y>>
    <3>1. SubSeq(meaning, 1, 0) = <<>>
      BY <1>4
    <3>2. meaning' = Append(SubSeq(meaning, 1, 0), y)
      BY <1>1, <2>1
    <3> HIDE DEF y, m, k, x
    <3>3. Append(<<>>, y) = <<y>>
      OBVIOUS
    <3> QED
      BY ONLY <3>1, <3>2, <3>3
  <2> QED
    BY <1>2, <2>2
<1> QED
  BY <1>1, <1>11, <1>12, PopBottom DEF StartValued

LEMMA ProductionMeant ==
  ASSUME IInv, HandlesAligned, StartValued, ApplyProduction
  PROVE  ValuesMeant' /\ StartAtBottom'
<1> DEFINE k == Len(stack)
           p == Handle(st, Top, Current)
           h == Len(valueStack)
<1>1. /\ Round /\ st' = st /\ UNCHANGED <<valueStack, meaning>> /\ Top \in Nat
      /\ p \in Seq(Nat) /\ stack' \in Seq(Int) /\ p # <<>>
      /\ Replaced(stack, frames, stack', frames', k, h, p)
  BY ProductionReplaces DEF ApplyProduction
<1>2. ValuesMeant'
  <2>1. ValuesMeant /\ Analyzing
    BY <1>1 DEF StartValued, Round
  <2> QED
    BY <1>1, <2>1, NextValuesMeant DEF ValuesMeant
<1>3. k \in Nat \ {0} /\ Top = stack[k] /\ Len(p) \in Nat /\ frames[k].symbol = Top
  <2>1. Top >= 0 => frames[k].symbol = Top
    BY <1>1, TopAligned, Zenon
  <2> QED
    BY <1>1, <2>1, Tops
<1>4. frames[1].symbol = st.startSymbol /\ Analyzing
  BY <1>1 DEF StartValued, StartAtBottom, Round
<1> HIDE DEF p, h, k
<1>5. stack' # <<>>
  <2>1. Len(stack') = k + Len(p)
    BY <1>1 DEF Replaced
  <2> QED
    BY <1>1, <1>3, <2>1
<1>6. frames'[1].symbol = frames[1].symbol
  <2>1. CASE k = 1
    BY <1>1, <1>3, <2>1 DEF Replaced
  <2>2. CASE k # 1
    <3>1. 1 \in 1..k - 1
      BY <1>3, <2>2
    <3> QED
      BY <1>1, <3>1 DEF Replaced
  <2> QED
    BY <2>1, <2>2
<1> QED
  BY <1>1, <1>2, <1>4, <1>5, <1>6 DEF StartAtBottom

LEMMA AcceptReturns == IInv /\ StartValued /\ Accept => ReturnsStartValue'
<1> SUFFICES ASSUME IInv, StartValued, Accept PROVE ReturnsStartValue'
  OBVIOUS
<1>1. Analyzing /\ stack = <<>> /\ st' = st
  BY DEF Accept, textVars
<1>2. /\ Len(valueStack) = 1 /\ Len(meaning) = 1 /\ valueStack \in Seq(Int)
      /\ meaning[1] = st.startSymbol
  BY <1>1, Types DEF IInv, ValuesBalanced, StartValued, StartAtBottom
<1>3. IsValueOf(valueStack[1], meaning[1])
  BY <1>1, <1>2 DEF StartValued, ValuesMeant
<1>4. result' = valueStack[1]
  <2>1. valueStack # <<>> /\ Last(valueStack) = valueStack[1]
    BY <1>2 DEF Last
  <2> QED
    BY <2>1 DEF Accept
<1>5. IsStartValue(result')
  BY <1>2, <1>3, <1>4 DEF IsValueOf
<1> QED
  BY <1>1, <1>5 DEF IsStartValue, ReturnsStartValue

LEMMA NextStartValued ==
  ASSUME StartIsClosed, IInv, HandlesAligned, StartValued, st \in Tables, [Next]_vars
  PROVE  StartValued' /\ (st \in Tables)'
<1>0. IsSyntaxTable(st) /\ ValuesMeant /\ StartAtBottom
  BY Types DEF StartValued
<1>1. CASE Begin
  <2>1. /\ meaning' = <<>> /\ pc' # "accepted" /\ st' = st
        /\ pc' = "analyzing" => /\ stack' # <<>>
                                /\ frames'[1].symbol = st.startSymbol
    BY <1>1 DEF Begin, IInv, FreshStacks, textVars
  <2> QED
    BY <2>1 DEF StartValued, ValuesMeant, StartAtBottom, ReturnsStartValue, Analyzing
<1>2. CASE Accept
  <2>1. pc' = "accepted" /\ st' = st
    BY <1>2 DEF Accept, textVars
  <2> QED
    BY <1>2, <2>1, AcceptReturns DEF StartValued, ValuesMeant, StartAtBottom, Analyzing
<1>3. CASE Overrun \/ Reject \/ EpsilonFirst
  <2>1. pc' \notin {"analyzing", "accepted"} /\ st' = st
    BY <1>3 DEF Overrun, Reject, EpsilonFirst, textVars
  <2> QED
    BY <2>1 DEF StartValued, ValuesMeant, StartAtBottom, ReturnsStartValue, Analyzing
<1>4. CASE Rewind
  <2>1. pc' # "accepted" /\ st' = st
    BY <1>4 DEF Rewind, Round, Analyzing, textVars
  <2> QED
    BY <1>4, <2>1, RewindMeant DEF StartValued, ReturnsStartValue
<1>5. CASE ApplyProduction
  <2>1. pc' # "accepted" /\ st' = st
    BY <1>5 DEF ApplyProduction, Expanding, Round, Analyzing, textVars
  <2> QED
    BY <1>5, <2>1, ProductionMeant DEF StartValued, ReturnsStartValue
<1>6. ASSUME NEW x \in Int, Round, Pop, Top \in Nat, PushValue(x, Top), IsValueOf(x, Top),
             st' = st, pc' # "accepted"
      PROVE  StartValued' /\ (st \in Tables)'
  <2>1. ValuesMeant' /\ StartAtBottom'
    BY <1>0, <1>6, PushMeant, PushBottom
  <2> QED
    BY <1>6, <2>1 DEF StartValued, ReturnsStartValue
<1>7. CASE EatTerminal
  <2>1. /\ Round /\ Pop /\ PushValue(NoAction, Top) /\ st' = st /\ Top \in TerminalIds(st)
        /\ pc' # "accepted"
    BY <1>7 DEF EatTerminal, IsTerminalId, textVars, Advance, Round, Analyzing
  <2>2. Top \in Nat /\ Top # st.startSymbol /\ Top \notin ActionIds(st)
    BY <1>0, <2>1, SymbolNumbers, KindsApart DEF IsSyntaxTable
  <2>3. IsValueOf(NoAction, Top) /\ NoAction \in Int
    BY <2>2 DEF IsValueOf, IsActionId, NoAction
  <2> QED
    BY <1>6, <2>1, <2>2, <2>3
<1>8. CASE RunAction
  <2>1. /\ Round /\ Pop /\ PushValue(Top, Top) /\ st' = st /\ Top \in ActionIds(st)
        /\ pc' # "accepted"
    BY <1>8 DEF RunAction, IsActionId, textVars, Round, Analyzing
  <2>2. Top \in Nat /\ Top # st.startSymbol /\ Top \notin TerminalIds(st)
    BY <1>0, <2>1, SymbolNumbers, KindsApart DEF IsSyntaxTable
  <2>3. IsValueOf(Top, Top) /\ Top \in Int
    BY <2>2 DEF IsValueOf, IsTerminalId
  <2> QED
    BY <1>6, <2>1, <2>2, <2>3
<1>9. CASE ApplyEpsilon
  <2>1. /\ Round /\ Pop /\ PushValue(Last(valueStack), Top) /\ st' = st
        /\ Top \in NonTerminalIds(st) /\ pc' # "accepted"
        /\ HasEntry(st, Top, Current) /\ Handle(st, Top, Current) = <<>>
        /\ valueStack # <<>>
    BY <1>9 DEF ApplyEpsilon, Expanding, IsNonTerminalId, textVars, Round, Analyzing
  <2>2. Top \in Nat /\ Top \notin ActionIds(st) /\ Top \notin TerminalIds(st)
    BY <1>0, <2>1, SymbolNumbers, KindsApart
  <2>3. Top # st.startSymbol
    <3> SUFFICES ASSUME Top = st.startSymbol PROVE FALSE
      OBVIOUS
    <3> DEFINE p == st.table[<<Top, Current>>]
    <3>1. p \in DOMAIN st.productions /\ st.productionNames[p] = Top
          /\ st.productions[p] = <<>>
      BY <1>0, <2>1 DEF HasEntry, Handle, IsSyntaxTable
    <3> QED
      BY <3>1 DEF StartIsClosed
  <2>4. IsValueOf(Last(valueStack), Top) /\ Last(valueStack) \in Int
    BY <2>1, <2>2, <2>3, Types, FrontLast DEF IsValueOf, IsTerminalId, IsActionId
  <2> QED
    BY <1>6, <2>1, <2>2, <2>4
<1>10. CASE UNCHANGED vars
  BY <1>10 DEF vars, textVars, StartValued, ValuesMeant, StartAtBottom, ReturnsStartValue,
               Analyzing, IsValueOf, IsStartValue
<1> QED
  BY <1>1, <1>2, <1>3, <1>4, <1>5, <1>7, <1>8, <1>9, <1>10 DEF Next

\* analyze() returns the value of the last element of the start symbol's handle
\* (Analyzer-inl.h:63-70), whatever the text, if each of the start symbol's alternatives
\* ends with a token or an action.
THEOREM ReturnsValue == StartIsClosed => (Spec => []ReturnsStartValue)
<1> SUFFICES ASSUME StartIsClosed PROVE Spec => []ReturnsStartValue
  OBVIOUS
<1>1. Init => StartValued /\ st \in Tables
  BY DEF Init, StartValued, ValuesMeant, StartAtBottom, ReturnsStartValue, Analyzing
<1>2. IInv /\ HandlesAligned /\ (StartValued /\ st \in Tables) /\ [Next]_vars
        => (StartValued /\ st \in Tables)'
  BY NextStartValued
<1>3. StartValued => ReturnsStartValue
  BY DEF StartValued
<1> QED
  BY <1>1, <1>2, <1>3, InitIInv, Inductive, InitAligned, NextAligned, PTL DEF Spec

-----------------------------------------------------------------------------
(* The rounds of analyze() are leftmost derivations: each production that is     *)
(* applied is a step of Derivation, and the others leave the sentential form.    *)

Grammatical == NonTerminalIds(st) \cup TerminalIds(st)

\* The grammar symbols below the top of the stack, the topmost first.
Below == GrammarSymbols(st, Reverse(Front(stack)))

MatchedTerminals == matched \in Seq(TerminalIds(st))

LEMMA TerminalsGrammatical == TerminalIds(st) \subseteq Grammatical
BY DEF Grammatical

\* The grammar symbols of a stack are its top, if it is one, and those below.
LEMMA SymbolsBelow ==
  ASSUME NEW l \in Seq(Int), l # <<>>, NEW K
  PROVE  /\ Kept(Reverse(Front(l)), K) \in Seq(K)
         /\ Last(l) \in K => Kept(Reverse(l), K) = <<Last(l)>> \o Kept(Reverse(Front(l)), K)
         /\ Last(l) \notin K => Kept(Reverse(l), K) = Kept(Reverse(Front(l)), K)
<1> DEFINE S == Int
           y == <<Last(l)>>
           r == Reverse(Front(l))
<1>1. y \in Seq(S) /\ r \in Seq(S) /\ Last(l) \in S
  BY FrontLast, ReverseType
<1>2. Reverse(l) = y \o r
  BY ReverseFront
<1>3. Kept(y, K) = IF Last(l) \in K THEN y ELSE <<>>
  BY KeptSingle
<1> HIDE DEF y, r, S
<1>4. Kept(y \o r, K) = Kept(y, K) \o Kept(r, K)
  BY <1>1, KeptConcat
<1>5. Kept(r, K) \in Seq(K)
  <2>1. Kept(r, K) \in Seq(S \cap K)
    BY <1>1, KeptType
  <2> QED
    BY <2>1
<1>6. <<>> \o Kept(r, K) = Kept(r, K)
  BY <1>5
<1> QED
  BY <1>2, <1>3, <1>4, <1>5, <1>6 DEF y, r

\* The sentential form at the start of a round.
LEMMA FormAtRound ==
  ASSUME IInv, Round
  PROVE  /\ Below \in Seq(Grammatical)
         /\ Top \in Grammatical => SententialForm = matched \o (<<Top>> \o Below)
         /\ Top \notin Grammatical => SententialForm = matched \o Below
<1>1. stack \in Seq(Int) /\ stack # <<>> /\ ~NothingPushed
  BY Types DEF Round, Analyzing, NothingPushed
<1>2. SententialForm = matched \o Kept(Reverse(stack), Grammatical)
  BY <1>1 DEF SententialForm, GrammarSymbols, Grammatical
<1>3. Below = Kept(Reverse(Front(stack)), Grammatical)
  BY DEF Below, GrammarSymbols, Grammatical
<1>4. Top = Last(stack)
  BY DEF Top
<1> QED
  BY <1>1, <1>2, <1>3, <1>4, SymbolsBelow

\* The sentential form after a step, said of the present table.
LEMMA FormAfter ==
  ASSUME st' = st, ~NothingPushed'
  PROVE  SententialForm' = matched' \o GrammarSymbols(st, Reverse(stack'))
BY DEF SententialForm

\* A round that takes off the top, and is no derivation step.
LEMMA PopKeepsForm ==
  ASSUME IInv, Round, Pop, st' = st, matched' = matched, pc' # "thrown", pc' # "begin",
         Top \notin Grammatical
  PROVE  SententialForm' = SententialForm
<1>1. ~NothingPushed'
  BY DEF NothingPushed
<1>2. SententialForm' = matched \o Below
  BY <1>1, FormAfter DEF Pop, Below
<1> QED
  BY <1>2, FormAtRound


\* The parts of a sequence that has x between a and r.
LEMMA Between ==
  ASSUME NEW S, NEW a \in Seq(S), NEW x \in S, NEW r \in Seq(S)
  PROVE  LET f == a \o (<<x>> \o r)
             i == Len(a) + 1
         IN  /\ f \in Seq(S) /\ i \in DOMAIN f /\ f[i] = x
             /\ \A j \in 1..i - 1 : f[j] = a[j]
             /\ SubSeq(f, 1, i - 1) = a
             /\ SubSeq(f, i + 1, Len(f)) = r
<1> DEFINE y == <<x>>
           z == y \o r
           f == a \o z
           i == Len(a) + 1
<1>1. /\ Len(a) \in Nat /\ Len(r) \in Nat
      /\ z \in Seq(S) /\ Len(z) = 1 + Len(r)
      /\ z[1] = x
      /\ \A j \in 1..Len(r) : z[1 + j] = r[j]
  <2>1. y \in Seq(S) /\ Len(y) = 1 /\ y[1] = x
    OBVIOUS
  <2> HIDE DEF y
  <2>2. y \o r \in Seq(S) /\ IsJoined(y \o r, y, r)
    BY <2>1, ConcatAt
  <2>3. Len(a) \in Nat /\ Len(r) \in Nat /\ 1 \in 1..1
    OBVIOUS
  <2> QED
    BY <2>1, <2>2, <2>3 DEF IsJoined
<1> HIDE DEF z
<1>2. /\ f \in Seq(S) /\ Len(f) = Len(a) + Len(z)
      /\ \A j \in 1..Len(a) : f[j] = a[j]
      /\ \A j \in 1..Len(z) : f[Len(a) + j] = z[j]
  <2>1. a \o z \in Seq(S) /\ IsJoined(a \o z, a, z)
    BY <1>1, ConcatAt
  <2> QED
    BY <2>1 DEF IsJoined
<1> HIDE DEF f
<1>3. i \in Nat /\ i - 1 = Len(a) /\ Len(f) = i + Len(r) /\ i \in 1..Len(f)
  BY <1>1, <1>2
<1>4. f[i] = x
  <2>1. 1 \in 1..Len(z)
    BY <1>1
  <2> QED
    BY <1>1, <1>2, <2>1
<1>5. \A j \in 1..Len(r) : f[i + j] = r[j]
  <2> TAKE j \in 1..Len(r)
  <2>1. 1 + j \in 1..Len(z) /\ Len(a) + (1 + j) = i + j
    BY <1>1
  <2> QED
    BY <1>1, <1>2, <2>1
<1> HIDE DEF i
<1>6. SubSeq(f, 1, i - 1) = a
  <2> DEFINE b == SubSeq(f, 1, i - 1)
  <2>1. b \in Seq(S) /\ Len(b) = Len(a) /\ \A j \in 1..Len(a) : b[j] = f[j]
    BY <1>1, <1>2, <1>3
  <2> HIDE DEF b
  <2>2. \A j \in 1..Len(b) : b[j] = a[j]
    BY <1>2, <2>1
  <2>3. b = a
    BY <2>1, <2>2, SeqEqual
  <2> QED
    BY <2>3 DEF b
<1>7. SubSeq(f, i + 1, Len(f)) = r
  <2> DEFINE b == SubSeq(f, i + 1, Len(f))
  <2>1. b \in Seq(S) /\ Len(b) = Len(r) /\ \A j \in 1..Len(r) : b[j] = f[i + j]
    BY <1>1, <1>2, <1>3
  <2> HIDE DEF b
  <2>2. \A j \in 1..Len(b) : b[j] = r[j]
    BY <1>5, <2>1
  <2>3. b = r
    BY <2>1, <2>2, SeqEqual
  <2> QED
    BY <2>3 DEF b
<1>8. i \in DOMAIN f
  BY <1>2, <1>3
<1> QED
  BY <1>2, <1>3, <1>4, <1>6, <1>7, <1>8 DEF f, i, z, y

\* The operators of Derivation are those of SyntaxTable.
LEMMA SameOperators ==
  \A t, s : /\ Leftmost!IsTerminalId(t, s) = IsTerminalId(t, s)
            /\ Leftmost!GrammarSymbols(t, s) = GrammarSymbols(t, s)
BY DEF Leftmost!IsTerminalId, IsTerminalId, Leftmost!GrammarSymbols, GrammarSymbols,
       Leftmost!Kept, Kept, Leftmost!TerminalIds, TerminalIds,
       Leftmost!NonTerminalIds, NonTerminalIds

\* A step of Derivation, at the first symbol that is no terminal.
LEMMA Derives ==
  ASSUME st' = st, NEW x \in NonTerminalIds(st), NEW p \in DOMAIN st.productions,
         st.productionNames[p] = x,
         NEW a \in Seq(TerminalIds(st)), NEW r \in Seq(Grammatical),
         GrammarSymbols(st, st.productions[p]) \in Seq(Grammatical),
         SententialForm = a \o (<<x>> \o r),
         SententialForm' = a \o (GrammarSymbols(st, st.productions[p]) \o r)
  PROVE  Leftmost!Derive
<1> DEFINE S == Grammatical
           f == SententialForm
           i == Len(a) + 1
           g == GrammarSymbols(st, st.productions[p])
<1>1. a \in Seq(S) /\ x \in S /\ r \in Seq(S) /\ g \in Seq(S)
  BY DEF Grammatical
<1>2. \A j \in 1..Len(a) : a[j] \in TerminalIds(st)
  OBVIOUS
<1>3. Len(a) \in Nat
  OBVIOUS
<1> HIDE DEF S, g
<1>4. /\ i \in DOMAIN f /\ f[i] = x
      /\ \A j \in 1..i - 1 : f[j] = a[j]
      /\ SubSeq(f, 1, i - 1) = a
      /\ SubSeq(f, i + 1, Len(f)) = r
  BY <1>1, Between
<1>5. SententialForm' = (a \o g) \o r
  <2>1. (a \o g) \o r = a \o (g \o r)
    BY <1>1, ConcatAssociative
  <2> QED
    BY <2>1 DEF g
<1> HIDE DEF f
<1>6. \A j \in 1..i - 1 : IsTerminalId(st, f[j])
  BY <1>2, <1>3, <1>4 DEF IsTerminalId
<1> HIDE DEF i
<1>7. SententialForm' = SubSeq(f, 1, i - 1) \o g \o SubSeq(f, i + 1, Len(f))
  BY <1>4, <1>5
<1> QED
  BY <1>4, <1>6, <1>7, SameOperators DEF Leftmost!Derive, f, g

\* A production found by lookup() is one of the top's, whose grammar symbols are
\* numbers of the table's.
LEMMA EntryFound ==
  ASSUME IInv, Expanding, HasEntry(st, Top, Current)
  PROVE  LET p == st.table[<<Top, Current>>] IN
         /\ Top \in NonTerminalIds(st) /\ Top \in Grammatical
         /\ p \in DOMAIN st.productions /\ st.productionNames[p] = Top
         /\ st.productions[p] = Handle(st, Top, Current)
         /\ Handle(st, Top, Current) \in Seq(Int)
         /\ GrammarSymbols(st, st.productions[p]) \in Seq(Grammatical)
<1> DEFINE p == st.table[<<Top, Current>>]
           h == Handle(st, Top, Current)
<1>1. IsSyntaxTable(st) /\ Top \in NonTerminalIds(st)
  BY Types DEF Expanding, IsNonTerminalId
<1>2. /\ p \in DOMAIN st.productions /\ st.productionNames[p] = Top
      /\ st.productions[p] = h
  BY <1>1 DEF HasEntry, Handle, IsSyntaxTable
<1>3. h \in Seq(SymbolIds(st)) /\ SymbolIds(st) \subseteq Int
  BY <1>1, HandleType, SymbolNumbers
<1> HIDE DEF p, h
<1>4. h \in Seq(Int)
  BY <1>3
<1>5. GrammarSymbols(st, h) \in Seq(Grammatical)
  <2> DEFINE K == Grammatical
             S == Int
  <2>1. h \in Seq(S)
    BY <1>4
  <2> HIDE DEF K, S
  <2>2. Kept(h, K) \in Seq(S \cap K)
    BY <2>1, KeptType
  <2>3. Kept(h, K) \in Seq(K)
    BY <2>2
  <2> QED
    BY <2>3 DEF GrammarSymbols, Grammatical, K
<1> QED
  BY <1>1, <1>2, <1>4, <1>5 DEF p, h, Grammatical

LEMMA ProductionDerives ==
  ASSUME IInv, MatchedTerminals, ApplyProduction
  PROVE  Leftmost!Derive
<1> DEFINE p == st.table[<<Top, Current>>]
           h == Handle(st, Top, Current)
           n == Len(h)
           K == Grammatical
           l == Append(Front(stack), -n)
<1>1. /\ Expanding /\ Round /\ HasEntry(st, Top, Current) /\ st' = st
      /\ matched' = matched /\ pc' = pc /\ h # <<>>
      /\ stack' = ReplaceTop(stack, -n, Pushed(h))
  BY DEF ApplyProduction, Expanding, textVars
<1>2. /\ Top \in NonTerminalIds(st) /\ Top \in K
      /\ p \in DOMAIN st.productions /\ st.productionNames[p] = Top
      /\ st.productions[p] = h /\ h \in Seq(Int)
      /\ GrammarSymbols(st, st.productions[p]) \in Seq(K)
  BY <1>1, EntryFound
<1>3. n \in Nat /\ -n \in Int /\ -n < 0
  BY <1>1, <1>2, EmptySeq
<1>4. -n \notin K
  <2>1. NonTerminalIds(st) \subseteq Nat /\ TerminalIds(st) \subseteq Nat
    BY Types, SymbolNumbers
  <2> HIDE DEF n
  <2> QED
    BY <1>3, <2>1 DEF Grammatical
<1>5. /\ l \in Seq(Int) /\ l # <<>> /\ Last(l) = -n /\ Front(l) = Front(stack)
  <2> DEFINE f == Front(stack)
             x == -n
  <2>1. f \in Seq(Int) /\ x \in Int
    BY <1>1, <1>3, Types, FrontLast DEF Round
  <2> HIDE DEF f, x
  <2>2. Append(f, x) \in Seq(Int) /\ Append(f, x) # <<>>
        /\ Last(Append(f, x)) = x /\ Front(Append(f, x)) = f
    BY <2>1, AppendFrontLast
  <2> QED
    BY <2>2 DEF f, x
<1>6. stack' = l \o Reverse(h)
  BY <1>1 DEF ReplaceTop, Pushed
<1>7. matched \in Seq(TerminalIds(st))
  BY DEF MatchedTerminals
<1>8. SententialForm = matched \o (<<Top>> \o Below) /\ Below \in Seq(Grammatical)
  BY <1>1, <1>2, FormAtRound
<1> HIDE DEF l, n, h, p
<1>9. Kept(Reverse(l), K) = Kept(Reverse(Front(l)), K)
  BY <1>4, <1>5, SymbolsBelow
<1>10. Kept(Reverse(l), K) = Below
  BY <1>5, <1>9 DEF Below, GrammarSymbols, Grammatical
<1>11. Reverse(stack') = h \o Reverse(l)
  <2> DEFINE S == Int
             u == Reverse(h)
  <2>1. h \in Seq(S) /\ l \in Seq(S) /\ u \in Seq(S)
    BY <1>2, <1>5, ReverseType
  <2> HIDE DEF S
  <2>2. Reverse(u) = h
    BY <2>1, ReverseTwice
  <2> HIDE DEF u
  <2>3. Reverse(l \o u) = Reverse(u) \o Reverse(l)
    BY <2>1, ReverseConcat
  <2> QED
    BY <1>6, <2>2, <2>3 DEF u
<1>12. Kept(h \o Reverse(l), K) = Kept(h, K) \o Kept(Reverse(l), K)
  <2> DEFINE S == Int
             u == Reverse(l)
  <2>1. h \in Seq(S) /\ u \in Seq(S)
    BY <1>2, <1>5, ReverseType
  <2> HIDE DEF S, u, K
  <2>2. Kept(h \o u, K) = Kept(h, K) \o Kept(u, K)
    BY <2>1, KeptConcat
  <2> QED
    BY <2>2 DEF u
<1>13. ~NothingPushed'
  BY <1>1 DEF NothingPushed, Round, Analyzing
<1>14. SententialForm' = matched \o (GrammarSymbols(st, st.productions[p]) \o Below)
  <2>1. SententialForm' = matched \o Kept(h \o Reverse(l), K)
    BY <1>1, <1>11, <1>13, FormAfter DEF GrammarSymbols, Grammatical
  <2>2. Kept(h, K) = GrammarSymbols(st, st.productions[p])
    BY <1>2 DEF GrammarSymbols, Grammatical
  <2> QED
    BY <1>10, <1>12, <2>1, <2>2
<1> HIDE DEF K
<1> QED
  BY <1>1, <1>2, <1>7, <1>8, <1>14, Derives DEF K

\* An epsilon rule, with a value to take or without.
LEMMA EpsilonDerives ==
  ASSUME IInv, MatchedTerminals, Expanding, HasEntry(st, Top, Current),
         Handle(st, Top, Current) = <<>>, Pop, st' = st, matched' = matched,
         pc' # "begin", pc' # "thrown"
  PROVE  Leftmost!Derive
<1> DEFINE p == st.table[<<Top, Current>>]
<1>1. /\ Top \in NonTerminalIds(st) /\ Top \in Grammatical
      /\ p \in DOMAIN st.productions /\ st.productionNames[p] = Top
      /\ st.productions[p] = <<>>
      /\ GrammarSymbols(st, st.productions[p]) \in Seq(Grammatical)
  BY EntryFound
<1>2. SententialForm = matched \o (<<Top>> \o Below) /\ Below \in Seq(Grammatical)
  BY <1>1, FormAtRound DEF Expanding
<1>3. ~NothingPushed'
  BY DEF NothingPushed
<1>4. SententialForm' = matched \o Below
  BY <1>3, FormAfter DEF Pop, Below
<1>5. GrammarSymbols(st, st.productions[p]) = <<>>
  BY <1>1, KeptEmpty DEF GrammarSymbols
<1>6. <<>> \o Below = Below
  BY <1>2
<1>7. matched \in Seq(TerminalIds(st))
  BY DEF MatchedTerminals
<1> HIDE DEF p
<1> QED
  BY <1>1, <1>2, <1>4, <1>5, <1>6, <1>7, Derives

LEMMA EatKeepsForm ==
  ASSUME IInv, MatchedTerminals, EatTerminal
  PROVE  SententialForm' = SententialForm /\ MatchedTerminals'
<1> DEFINE S == Grammatical
           a == matched
           t == TerminalIds(st)
           y == <<Top>>
<1>1. /\ Round /\ Pop /\ st' = st /\ Top \in t /\ matched' = Append(matched, Top)
      /\ pc' \in {"analyzing", "thrown"}
  BY DEF EatTerminal, IsTerminalId, textVars, Advance, Round, Analyzing
<1>2. a \in Seq(t)
  BY DEF MatchedTerminals
<1>3. matched' \in Seq(t) /\ matched' # <<>> /\ matched' = a \o y
  <2> HIDE DEF t, a
  <2>1. Append(a, Top) \in Seq(t) /\ Append(a, Top) # <<>> /\ Append(a, Top) = a \o <<Top>>
    BY <1>1, <1>2
  <2> QED
    BY <1>1, <2>1 DEF a
<1>4. ~NothingPushed'
  BY <1>1, <1>3 DEF NothingPushed
<1>5. SententialForm' = (a \o y) \o Below
  BY <1>1, <1>3, <1>4, FormAfter DEF Pop, Below
<1>6. SententialForm = a \o (y \o Below) /\ Below \in Seq(S)
  <2>1. Top \in Grammatical
    BY <1>1 DEF Grammatical
  <2> QED
    BY <1>1, <2>1, FormAtRound
<1>7. a \in Seq(S) /\ y \in Seq(S)
  BY <1>1, <1>2 DEF Grammatical
<1> HIDE DEF a, y, S
<1>8. (a \o y) \o Below = a \o (y \o Below)
  BY <1>6, <1>7, ConcatAssociative
<1>9. MatchedTerminals'
  BY <1>1, <1>3 DEF MatchedTerminals
<1> QED
  BY <1>5, <1>6, <1>8, <1>9

LEMMA BeginKeepsForm ==
  ASSUME IInv, MatchedTerminals, pc = "begin" => matched = <<>>, Begin
  PROVE  SententialForm' = SententialForm /\ st' = st
<1>1. /\ SententialForm = <<st.startSymbol>> /\ st' = st /\ matched = <<>>
      /\ matched' = <<>>
  BY DEF SententialForm, NothingPushed, Begin, textVars
<1>2. CASE TokenAt(1) = Unrecognized
  <2>1. NothingPushed'
    BY <1>1, <1>2 DEF NothingPushed, Begin
  <2> QED
    BY <1>1, <2>1 DEF SententialForm
<1>3. CASE TokenAt(1) # Unrecognized
  <2>1. ~NothingPushed' /\ stack' = <<st.startSymbol>>
    BY <1>3 DEF NothingPushed, Begin
  <2>2. st.startSymbol \in NonTerminalIds(st)
    BY Types DEF IsSyntaxTable
  <2>3. Reverse(stack') = <<st.startSymbol>>
    BY <2>1, ReverseSingle
  <2>4. GrammarSymbols(st, <<st.startSymbol>>) = <<st.startSymbol>>
    BY <2>2, KeptSingle DEF GrammarSymbols
  <2>5. SententialForm' = <<>> \o <<st.startSymbol>>
    BY <1>1, <2>1, <2>3, <2>4, FormAfter
  <2> QED
    BY <1>1, <2>5
<1> QED
  BY <1>2, <1>3

\* Each round is a step of Derivation, or leaves its state.
LEMMA NextDerives ==
  ASSUME IInv, MatchedTerminals, pc = "begin" => matched = <<>>, [Next]_vars
  PROVE  /\ MatchedTerminals'
         /\ Leftmost!Derive \/ (SententialForm' = SententialForm /\ st' = st)
<1>0. ASSUME st' = st, matched' = matched
      PROVE  MatchedTerminals'
  BY <1>0 DEF MatchedTerminals
<1>1. CASE Begin
  BY <1>0, <1>1, BeginKeepsForm DEF Begin, textVars
<1>2. CASE Accept \/ Overrun \/ Reject
  <2>1. /\ Analyzing /\ st' = st /\ matched' = matched /\ stack' = stack
        /\ pc' \notin {"begin", "thrown"}
    BY <1>2 DEF Accept, Overrun, Reject, Expanding, Round, textVars
  <2>2. SententialForm' = SententialForm
    BY <2>1 DEF SententialForm, NothingPushed, Analyzing
  <2> QED
    BY <1>0, <2>1, <2>2
<1>3. CASE Rewind \/ RunAction
  <2>1. /\ Round /\ Pop /\ st' = st /\ matched' = matched /\ pc' = pc
    BY <1>3 DEF Rewind, RunAction, textVars
  <2>2. Top \notin Grammatical
    <3>1. NonTerminalIds(st) \subseteq Nat /\ TerminalIds(st) \subseteq Nat
          /\ IsSyntaxTable(st)
      BY Types, SymbolNumbers
    <3>2. Top < 0 \/ Top \in ActionIds(st)
      BY <1>3 DEF Rewind, RunAction, IsActionId
    <3>3. Top \in Nat => ~(Top < 0)
      OBVIOUS
    <3> QED
      BY <3>1, <3>2, <3>3, KindsApart DEF Grammatical
  <2>3. pc' # "begin" /\ pc' # "thrown"
    BY <2>1 DEF Round, Analyzing
  <2> QED
    BY <1>0, <2>1, <2>2, <2>3, PopKeepsForm
<1>4. CASE EatTerminal
  BY <1>4, EatKeepsForm DEF EatTerminal, textVars
<1>5. CASE ApplyProduction
  <2>1. st' = st /\ matched' = matched
    BY <1>5 DEF ApplyProduction, textVars
  <2> QED
    BY <1>0, <1>5, <2>1, ProductionDerives
<1>6. CASE ApplyEpsilon \/ EpsilonFirst
  <2>1. /\ Expanding /\ HasEntry(st, Top, Current) /\ Handle(st, Top, Current) = <<>>
        /\ Pop /\ st' = st /\ matched' = matched /\ pc' \in {"analyzing", "aborted"}
    BY <1>6 DEF ApplyEpsilon, EpsilonFirst, textVars, Expanding, Round, Analyzing
  <2> QED
    BY <1>0, <2>1, EpsilonDerives
<1>7. CASE UNCHANGED vars
  <2>1. /\ st' = st /\ matched' = matched /\ stack' = stack /\ pc' = pc
    BY <1>7 DEF vars, textVars
  <2>2. SententialForm' = SententialForm
    BY <2>1 DEF SententialForm, NothingPushed
  <2> QED
    BY <1>0, <2>1, <2>2
<1> QED
  BY <1>1, <1>2, <1>3, <1>4, <1>5, <1>6, <1>7 DEF Next

\* Whatever analyze() does (Analyzer-inl.h:55-130), what it took off its stack and
\* what it left there are derived from the start symbol, one leftmost step for each
\* production it applied, for every table and every text.
THEOREM DerivesLeftmost == Spec => ImplementsDerivation
<1>1. Init => MatchedTerminals /\ Leftmost!Start
  BY DEF Init, MatchedTerminals, Leftmost!Start, SententialForm, NothingPushed
<1>2. IInv /\ UntilFirstValue /\ MatchedTerminals /\ [Next]_vars => 
        /\ MatchedTerminals'
        /\ [Leftmost!Derive]_<<st, SententialForm>>
  BY NextDerives DEF UntilFirstValue
<1>3. Init => UntilFirstValue
  BY DEF Init, UntilFirstValue, EpsilonFindsValue, Analyzing
<1> QED
  BY <1>1, <1>2, <1>3, InitIInv, Inductive, NextUntilFirstValue, PTL
     DEF Spec, ImplementsDerivation, Leftmost!Spec

-----------------------------------------------------------------------------
\* A word of three parts.
LEMMA ThreeParts ==
  ASSUME NEW T, NEW u \in Seq(T), NEW v \in Seq(T), NEW z \in Seq(T)
  PROVE  /\ (u \o v) \o z \in Seq(T) /\ Len((u \o v) \o z) \in Nat
         /\ u \o v \in Seq(T) /\ Len(u \o v) \in Nat
         /\ v \o z \in Seq(T) /\ Len(v \o z) \in Nat
         /\ Len(u \o v) <= Len((u \o v) \o z)
         /\ Len(v \o z) <= Len((u \o v) \o z)
<1>2. Len(u) \in Nat /\ Len(v) \in Nat /\ Len(z) \in Nat
  OBVIOUS
<1>3. u \o v \in Seq(T) /\ Len(u \o v) = Len(u) + Len(v)
  OBVIOUS
<1>4. v \o z \in Seq(T) /\ Len(v \o z) = Len(v) + Len(z)
  OBVIOUS
<1>5. (u \o v) \o z \in Seq(T) /\ Len((u \o v) \o z) = Len(u \o v) + Len(z)
  BY <1>3
<1> QED
  BY <1>2, <1>3, <1>4, <1>5

\* What symbols stand for is written in the symbols of T.
Spells(known, T) == \A k \in known : k[2] \in Seq(T)

LEMMA MeaningsType ==
  ASSUME NEW T, NEW known, Spells(known, T), NEW x
  PROVE  Meanings(known, x) \in SUBSET Seq(T)
BY DEF Meanings, Spells

LEMMA JoinedType ==
  ASSUME NEW T, NEW U \in SUBSET Seq(T), NEW V \in SUBSET Seq(T), NEW n
  PROVE  Joined(U, V, n) \in SUBSET Seq(T)
<1>1. \A u \in Seq(T), v \in Seq(T) : u \o v \in Seq(T)
  OBVIOUS
<1>2. SUFFICES ASSUME NEW w \in Joined(U, V, n) PROVE w \in Seq(T)
  OBVIOUS
<1>3. PICK u \in U, v \in V : w = u \o v
  BY DEF Joined
<1> QED
  BY <1>1, <1>3

LEMMA JoinedIn ==
  ASSUME NEW U, NEW V, NEW n, NEW u \in U, NEW v \in V, Len(u \o v) <= n
  PROVE  u \o v \in Joined(U, V, n)
BY DEF Joined

LEMMA JoinedParts ==
  ASSUME NEW U, NEW V, NEW n
  PROVE  \A w \in Joined(U, V, n) : \E u \in U, v \in V : w = u \o v
BY DEF Joined

LEMMA JoinedAgain ==
  ASSUME NEW T, NEW U \in SUBSET Seq(T), NEW V \in SUBSET Seq(T), NEW Z \in SUBSET Seq(T),
         NEW n \in Nat
  PROVE  Joined(Joined(U, V, n), Z, n) = Joined(U, Joined(V, Z, n), n)
<1>0. ASSUME NEW u \in U, NEW v \in V, NEW z \in Z
      PROVE  /\ u \o (v \o z) = (u \o v) \o z
             /\ Len((u \o v) \o z) \in Nat
             /\ Len(u \o v) \in Nat /\ Len(u \o v) <= Len((u \o v) \o z)
             /\ Len(v \o z) \in Nat /\ Len(v \o z) <= Len((u \o v) \o z)
  <2>1. u \in Seq(T) /\ v \in Seq(T) /\ z \in Seq(T)
    OBVIOUS
  <2>2. u \o (v \o z) = (u \o v) \o z
    BY <2>1, ConcatAssociative
  <2>3. /\ Len((u \o v) \o z) \in Nat
        /\ Len(u \o v) \in Nat /\ Len(u \o v) <= Len((u \o v) \o z)
        /\ Len(v \o z) \in Nat /\ Len(v \o z) <= Len((u \o v) \o z)
    BY <2>1, ThreeParts, Zenon
  <2> QED
    BY <2>2, <2>3
<1> DEFINE UV == Joined(U, V, n)
           VZ == Joined(V, Z, n)
<1>1. \A uv \in UV : \E u \in U, v \in V : uv = u \o v
  BY ONLY JoinedParts
<1>2. \A vz \in VZ : \E v \in V, z \in Z : vz = v \o z
  BY ONLY JoinedParts
<1> HIDE DEF UV, VZ
<1>3. ASSUME NEW w \in Joined(UV, Z, n) PROVE w \in Joined(U, VZ, n)
  <2>1. PICK uv \in UV, z \in Z : w = uv \o z /\ Len(w) <= n
    BY DEF Joined
  <2>2. PICK u \in U, v \in V : uv = u \o v
    BY <1>1
  <2>0. /\ u \o (v \o z) = (u \o v) \o z
        /\ Len((u \o v) \o z) \in Nat
        /\ Len(u \o v) \in Nat /\ Len(u \o v) <= Len((u \o v) \o z)
        /\ Len(v \o z) \in Nat /\ Len(v \o z) <= Len((u \o v) \o z)
    BY <1>0, Zenon
  <2>3. w = u \o (v \o z) /\ Len(v \o z) <= n
    <3> DEFINE whole == Len(w)
               part == Len(v \o z)
    <3>1. w = u \o (v \o z) /\ w = (u \o v) \o z
      BY ONLY <2>0, <2>1, <2>2, Zenon
    <3>2. whole \in Nat /\ part \in Nat /\ part <= whole /\ whole <= n
      BY ONLY <2>0, <2>1, <3>1, Zenon
    <3> HIDE DEF whole, part
    <3>3. part <= n
      BY ONLY <3>2, n \in Nat
    <3> QED
      BY ONLY <3>1, <3>3, Zenon DEF part
  <2>4. v \o z \in VZ
    BY <2>3, JoinedIn DEF UV, VZ
  <2> QED
    BY <2>1, <2>3, <2>4, JoinedIn
<1>4. ASSUME NEW w \in Joined(U, VZ, n) PROVE w \in Joined(UV, Z, n)
  <2>1. PICK u \in U, vz \in VZ : w = u \o vz /\ Len(w) <= n
    BY DEF Joined
  <2>2. PICK v \in V, z \in Z : vz = v \o z
    BY <1>2
  <2>0. /\ u \o (v \o z) = (u \o v) \o z
        /\ Len((u \o v) \o z) \in Nat
        /\ Len(u \o v) \in Nat /\ Len(u \o v) <= Len((u \o v) \o z)
        /\ Len(v \o z) \in Nat /\ Len(v \o z) <= Len((u \o v) \o z)
    BY <1>0, Zenon
  <2>3. w = (u \o v) \o z /\ Len(u \o v) <= n
    <3> DEFINE whole == Len(w)
               part == Len(u \o v)
    <3>1. w = (u \o v) \o z
      BY ONLY <2>0, <2>1, <2>2, Zenon
    <3>2. whole \in Nat /\ part \in Nat /\ part <= whole /\ whole <= n
      BY ONLY <2>0, <2>1, <3>1, Zenon
    <3> HIDE DEF whole, part
    <3>3. part <= n
      BY ONLY <3>2, n \in Nat
    <3> QED
      BY ONLY <3>1, <3>3, Zenon DEF part
  <2>4. u \o v \in UV
    BY <2>3, JoinedIn DEF UV, VZ
  <2> QED
    BY <2>1, <2>3, <2>4, JoinedIn
<1> QED
  BY <1>3, <1>4 DEF UV, VZ

\* The empty word is lost in a joint.
LEMMA JoinedNone ==
  ASSUME NEW T, NEW V \in SUBSET Seq(T), NEW n, \A v \in V : Len(v) <= n
  PROVE  Joined(V, {<<>>}, n) = V /\ Joined({<<>>}, V, n) = V
<1>1. \A v \in V : v \in Seq(T) /\ v \o <<>> = v /\ <<>> \o v = v
  OBVIOUS
<1> DEFINE e == <<>>
           none == {e}
<1>2. \A v \in V : v \o e = v /\ e \o v = v
  BY <1>1
<1>3. e \in none /\ \A u \in none : u = e
  OBVIOUS
<1> HIDE DEF e, none
<1>4. ASSUME NEW w \in Joined(V, none, n) PROVE w \in V
  BY <1>2, <1>3, <1>4 DEF Joined
<1>5. ASSUME NEW w \in Joined(none, V, n) PROVE w \in V
  BY <1>2, <1>3, <1>5 DEF Joined
<1>6. ASSUME NEW w \in V PROVE w \in Joined(V, none, n) /\ w \in Joined(none, V, n)
  BY <1>2, <1>3, <1>6, JoinedIn
<1> QED
  BY <1>4, <1>5, <1>6 DEF e, none

LEMMA JoinedGrows ==
  ASSUME NEW U, NEW V, NEW X, NEW Y, U \subseteq X, V \subseteq Y, NEW n
  PROVE  Joined(U, V, n) \subseteq Joined(X, Y, n)
BY DEF Joined

\* The words of the prefixes of s.
WordsSoFar(f, known, s, n) ==
  /\ f[0] = {<<>>}
  /\ \A i \in 1..Len(s) : f[i] = Joined(f[i - 1], Meanings(known, s[i]), n)

LEMMA WordsSteps ==
  ASSUME NEW T, NEW known, Spells(known, T), NEW S, NEW s \in Seq(S), NEW n
  PROVE  \E f \in [0..Len(s) -> SUBSET Seq(T)] :
           WordsSoFar(f, known, s, n) /\ Words(known, s, n) = f[Len(s)]
<1> DEFINE V == SUBSET Seq(T)
           m == Len(s)
           Body(f, i) == IF i = 0 THEN {<<>>} ELSE Joined(f[i - 1], Meanings(known, s[i]), n)
           F == CHOOSE f : f = [i \in 0..m |-> Body(f, i)]
           G == [p \in V \X (1..m) |-> Joined(p[1], Meanings(known, s[p[2]]), n)]
<1>0. m \in Nat /\ {<<>>} \in V
  OBVIOUS
<1>1. Words(known, s, n) = F[m]
  BY DEF Words
<1>2. G \in [V \X (1..m) -> V]
  <2>1. \A p \in V \X (1..m) : Joined(p[1], Meanings(known, s[p[2]]), n) \in V
    <3> TAKE p \in V \X (1..m)
    <3>1. p[1] \in SUBSET Seq(T)
      OBVIOUS
    <3> QED
      BY <3>1, MeaningsType, JoinedType
  <2> HIDE DEF V, m
  <2> QED
    BY <2>1
<1>3. PICK f \in [0..m -> V] : f[0] = {<<>>} /\ \A i \in 1..m : f[i] = G[<<f[i - 1], i>>]
  <2> DEFINE a == {<<>>}
  <2>1. a \in V
    BY <1>0
  <2> HIDE DEF V, m, G, a, F, Body
  <2>2. \E f \in [0..m -> V] : Iterates(f, a, m, G)
    <3>1. m \in Nat
      BY <1>0
    <3> QED
      BY <1>2, <2>1, <3>1, RecursiveFunction, Zenon
  <2> QED
    BY <2>2 DEF a, Iterates
<1>4. \A i \in 1..m : f[i] = Joined(f[i - 1], Meanings(known, s[i]), n)
  <2> TAKE i \in 1..m
  <2>1. i - 1 \in 0..m /\ f[i - 1] \in V
    BY <1>0
  <2>2. <<f[i - 1], i>> \in V \X (1..m)
    BY <2>1
  <2> HIDE DEF V, m
  <2> QED
    BY <1>3, <2>2
<1>5. f = [i \in 0..m |-> Body(f, i)]
  <2>1. \A i \in 0..m : f[i] = Body(f, i)
    <3>1. \A i \in 0..m : i = 0 \/ i \in 1..m
      BY <1>0
    <3>2. \A i \in 1..m : i # 0
      BY <1>0
    <3> QED
      BY <1>3, <1>4, <3>1, <3>2
  <2> HIDE DEF Body
  <2> QED
    BY <2>1
<1>6. F = [i \in 0..m |-> Body(F, i)]
  <2> HIDE DEF Body
  <2> QED
    BY <1>5
<1> HIDE DEF F
<1>7. \A i \in 0..m : F[i] = Body(F, i)
  <2> HIDE DEF Body
  <2> QED
    BY <1>6
<1> DEFINE I == {i \in Nat : i <= m => F[i] = f[i]}
<1>8. m \in I
  <2>1. 0 \in I
    <3>1. 0 \in 0..m /\ F[0] = Body(F, 0)
      BY <1>0, <1>7
    <3> QED
      BY <1>3, <3>1
  <2>2. \A i \in Nat : i \in I => i + 1 \in I
    <3> SUFFICES ASSUME NEW i \in Nat, i + 1 <= m, F[i] = f[i] PROVE F[i + 1] = f[i + 1]
      BY <1>0
    <3>1. i + 1 \in 0..m /\ i + 1 \in 1..m /\ (i + 1) - 1 = i /\ i + 1 # 0
      BY <1>0
    <3> QED
      BY <1>4, <1>7, <3>1
  <2> HIDE DEF I
  <2> QED
    BY <1>0, <2>1, <2>2, SetInduction
<1> QED
  BY <1>0, <1>1, <1>3, <1>4, <1>8 DEF WordsSoFar

\* The words are written in T too, and have n symbols at most.
LEMMA WordsType ==
  ASSUME NEW T, NEW known, Spells(known, T), NEW S, NEW s \in Seq(S), NEW n \in Nat
  PROVE  Words(known, s, n) \in SUBSET Seq(T) /\ \A w \in Words(known, s, n) : Len(w) <= n
<1>1. PICK f \in [0..Len(s) -> SUBSET Seq(T)] :
             WordsSoFar(f, known, s, n) /\ Words(known, s, n) = f[Len(s)]
  BY WordsSteps
<1>2. Len(s) \in Nat
  OBVIOUS
<1>3. CASE Len(s) = 0
  <2>1. Words(known, s, n) = {<<>>}
    BY <1>1, <1>3 DEF WordsSoFar
  <2> QED
    BY <2>1
<1>4. CASE Len(s) # 0
  <2>1. Len(s) \in 1..Len(s)
    BY <1>2, <1>4
  <2>2. Words(known, s, n) = Joined(f[Len(s) - 1], Meanings(known, s[Len(s)]), n)
    BY <1>1, <2>1 DEF WordsSoFar
  <2>3. \A w \in Words(known, s, n) : Len(w) <= n
    BY <2>2 DEF Joined
  <2> QED
    BY <1>1, <1>2, <2>3
<1> QED
  BY <1>3, <1>4

LEMMA WordsOfNone ==
  ASSUME NEW T, NEW known, Spells(known, T), NEW S, NEW n, NEW s \in Seq(S)
  PROVE  Len(s) = 0 => Words(known, s, n) = {<<>>}
<1>1. PICK f \in [0..Len(s) -> SUBSET Seq(T)] :
             WordsSoFar(f, known, s, n) /\ Words(known, s, n) = f[Len(s)]
  BY WordsSteps
<1> QED
  BY <1>1 DEF WordsSoFar

LEMMA WordsEmpty ==
  ASSUME NEW T, NEW known, Spells(known, T), NEW S, NEW n
  PROVE  Words(known, <<>>, n) = {<<>>}
<1>1. <<>> \in Seq({}) /\ Len(<<>>) = 0
  OBVIOUS
<1> QED
  BY <1>1, WordsOfNone

\* Of two sequences that agree on their first m elements, the words are the same.
LEMMA WordsSame ==
  ASSUME NEW known, NEW n, NEW s, NEW t, NEW f, NEW g, NEW m \in Nat,
         WordsSoFar(f, known, s, n), WordsSoFar(g, known, t, n),
         Len(s) \in Nat, Len(t) \in Nat, m <= Len(s), m <= Len(t),
         \A i \in 1..m : s[i] = t[i]
  PROVE  f[m] = g[m]
<1> DEFINE I == {i \in Nat : i <= m => f[i] = g[i]}
<1>1. 0 \in I
  BY DEF WordsSoFar
<1>2. \A i \in Nat : i \in I => i + 1 \in I
  <2> SUFFICES ASSUME NEW i \in Nat, i + 1 <= m, f[i] = g[i] PROVE f[i + 1] = g[i + 1]
    OBVIOUS
  <2>1. /\ i + 1 \in 1..Len(s) /\ i + 1 \in 1..Len(t) /\ i + 1 \in 1..m
        /\ (i + 1) - 1 = i
    OBVIOUS
  <2> QED
    BY <2>1 DEF WordsSoFar
<1> HIDE DEF I
<1>3. m \in I
  BY <1>1, <1>2, SetInduction
<1> QED
  BY <1>3 DEF I

LEMMA WordsAppend ==
  ASSUME NEW T, NEW known, Spells(known, T), NEW S, NEW s \in Seq(S), NEW x \in S, NEW n
  PROVE  Words(known, Append(s, x), n) = Joined(Words(known, s, n), Meanings(known, x), n)
<1> DEFINE t == Append(s, x)
           m == Len(s)
<1>1. /\ t \in Seq(S) /\ Len(t) = m + 1 /\ t[m + 1] = x /\ m \in Nat
      /\ \A i \in 1..m : s[i] = t[i]
  OBVIOUS
<1> HIDE DEF t
<1>2. PICK f \in [0..Len(s) -> SUBSET Seq(T)] :
             WordsSoFar(f, known, s, n) /\ Words(known, s, n) = f[Len(s)]
  BY WordsSteps
<1>3. PICK g \in [0..Len(t) -> SUBSET Seq(T)] :
             WordsSoFar(g, known, t, n) /\ Words(known, t, n) = g[Len(t)]
  BY <1>1, WordsSteps
<1>4. f[m] = g[m]
  <2>1. Len(s) \in Nat /\ Len(t) \in Nat /\ m <= Len(s) /\ m <= Len(t)
    BY <1>1
  <2>2. m \in Nat /\ \A i \in 1..m : s[i] = t[i]
    BY <1>1
  <2>3. WordsSoFar(f, known, s, n) /\ WordsSoFar(g, known, t, n)
    BY <1>2, <1>3
  <2> HIDE DEF m
  <2> QED
    BY ONLY <2>1, <2>2, <2>3, WordsSame
<1>5. g[m + 1] = Joined(g[m], Meanings(known, t[m + 1]), n)
  <2>1. m + 1 \in 1..Len(t) /\ (m + 1) - 1 = m
    BY <1>1
  <2> QED
    BY <1>3, <2>1 DEF WordsSoFar
<1> QED
  BY <1>1, <1>2, <1>3, <1>4, <1>5 DEF t

LEMMA WordsConcat ==
  ASSUME NEW T, NEW known, Spells(known, T), NEW n \in Nat, NEW S, NEW s \in Seq(S)
  PROVE  \A t \in Seq(S) :
           Words(known, s \o t, n) = Joined(Words(known, s, n), Words(known, t, n), n)
<1> DEFINE W(t) == Words(known, t, n)
           I == {t \in Seq(S) : W(s \o t) = Joined(W(s), W(t), n)}
<1>0. \A t \in Seq(S) : W(t) \in SUBSET Seq(T) /\ \A w \in W(t) : Len(w) <= n
  BY WordsType
<1>1. <<>> \in I
  <2>1. s \o <<>> = s /\ <<>> \in Seq(S)
    OBVIOUS
  <2>2. W(<<>>) = {<<>>}
    BY WordsEmpty
  <2>3. Joined(W(s), {<<>>}, n) = W(s)
    BY <1>0, JoinedNone
  <2> QED
    BY <2>1, <2>2, <2>3
<1>2. ASSUME NEW t \in Seq(S), NEW x \in S, t \in I PROVE Append(t, x) \in I
  <2> DEFINE M == Meanings(known, x)
  <2>1. s \o Append(t, x) = Append(s \o t, x) /\ s \o t \in Seq(S) /\ Append(t, x) \in Seq(S)
    OBVIOUS
  <2>2. \A r \in Seq(S) : W(Append(r, x)) = Joined(W(r), M, n)
    BY WordsAppend
  <2>3. W(Append(s \o t, x)) = Joined(W(s \o t), M, n)
        /\ W(Append(t, x)) = Joined(W(t), M, n)
    BY <2>1, <2>2
  <2>4. W(s) \in SUBSET Seq(T) /\ W(t) \in SUBSET Seq(T) /\ M \in SUBSET Seq(T)
    BY <1>0, MeaningsType
  <2>5. W(s \o t) = Joined(W(s), W(t), n)
    BY <1>2
  <2> HIDE DEF W, M
  <2>6. Joined(Joined(W(s), W(t), n), M, n) = Joined(W(s), Joined(W(t), M, n), n)
    BY <2>4, JoinedAgain
  <2>7. W(s \o Append(t, x)) = Joined(W(s), W(Append(t, x)), n)
    BY <2>1, <2>3, <2>5, <2>6
  <2> QED
    BY <2>1, <2>7
<1> HIDE DEF I
<1>3. \A t \in Seq(S) : t \in I
  BY <1>1, <1>2, SeqInduction
<1> QED
  BY <1>3 DEF I

LEMMA WordsSingle ==
  ASSUME NEW T, NEW known, Spells(known, T), NEW n \in Nat, NEW x
  PROVE  Words(known, <<x>>, n) = {w \in Meanings(known, x) : Len(w) <= n}
<1> DEFINE M == Meanings(known, x)
<1>1. Words(known, <<>>, n) = {<<>>} /\ Append(<<>>, x) = <<x>>
  BY WordsEmpty
<1>2. <<>> \in Seq({x}) /\ x \in {x}
  OBVIOUS
<1>3. Words(known, Append(<<>>, x), n) = Joined(Words(known, <<>>, n), M, n)
  BY <1>2, WordsAppend
<1>4. M \in SUBSET Seq(T)
  BY MeaningsType
<1> HIDE DEF M
<1>5. Joined({<<>>}, M, n) = {w \in M : Len(w) <= n}
  <2>1. \A v \in M : <<>> \o v = v
    BY <1>4
  <2> DEFINE e == <<>>
  <2>2. \A v \in M : e \o v = v
    BY <2>1
  <2> HIDE DEF e
  <2>3. Joined({e}, M, n) = {w \in M : Len(w) <= n}
    BY <2>2 DEF Joined
  <2> QED
    BY <2>3 DEF e
<1> QED
  BY <1>1, <1>3, <1>5 DEF M

\* The words of a sequence by those of its head.
LEMMA WordsHead ==
  ASSUME NEW T, NEW known, Spells(known, T), NEW n \in Nat, NEW S, NEW x \in S,
         NEW t \in Seq(S)
  PROVE  Words(known, <<x>> \o t, n) = Joined(Words(known, <<x>>, n), Words(known, t, n), n)
<1>1. <<x>> \in Seq(S)
  OBVIOUS
<1> QED
  BY <1>1, WordsConcat

\* The more is known, the more words.
LEMMA WordsGrow ==
  ASSUME NEW T, NEW known, NEW more, Spells(known, T), Spells(more, T), known \subseteq more,
         NEW n \in Nat, NEW S
  PROVE  \A s \in Seq(S) : Words(known, s, n) \subseteq Words(more, s, n)
<1> DEFINE I == {t \in Seq(S) : Words(known, t, n) \subseteq Words(more, t, n)}
<1>1. <<>> \in I
  <2>1. Words(known, <<>>, n) = {<<>>} /\ Words(more, <<>>, n) = {<<>>}
    BY WordsEmpty
  <2> QED
    BY <2>1
<1>2. ASSUME NEW t \in Seq(S), NEW x \in S, t \in I PROVE Append(t, x) \in I
  <2>1. /\ Words(known, Append(t, x), n) = Joined(Words(known, t, n), Meanings(known, x), n)
        /\ Words(more, Append(t, x), n) = Joined(Words(more, t, n), Meanings(more, x), n)
    BY WordsAppend
  <2>2. Meanings(known, x) \subseteq Meanings(more, x)
    BY DEF Meanings
  <2> QED
    BY <1>2, <2>1, <2>2, JoinedGrows
<1> HIDE DEF I
<1>3. \A t \in Seq(S) : t \in I
  BY <1>1, <1>2, SeqInduction
<1> QED
  BY <1>3 DEF I

\* The sequences of at most n elements of a finite set are finitely many: each is
\* told from the others by its graph.
LEMMA BoundedSeqFinite ==
  ASSUME NEW T, IsFiniteSet(T), NEW n \in Nat
  PROVE  IsFiniteSet(BoundedSeq(T, n))
<1> DEFINE B == BoundedSeq(T, n)
           graphs == SUBSET ((1..n) \X T)
           graph == [s \in B |-> {<<i, s[i]>> : i \in DOMAIN s}]
<1>1. \A s \in B : \E m \in 0..n : s \in [1..m -> T]
  BY DEF BoundedSeq, SeqOf
<1>2. IsFiniteSet(graphs)
  <2>1. IsFiniteSet(1..n)
    BY FS_Interval
  <2>2. IsFiniteSet((1..n) \X T)
    BY <2>1, FS_Product
  <2> QED
    BY <2>2, FS_SUBSET
<1> HIDE DEF B
<1>3. graph \in [B -> graphs]
  <2>1. ASSUME NEW s \in B PROVE {<<i, s[i]>> : i \in DOMAIN s} \in graphs
    <3>1. PICK m \in 0..n : s \in [1..m -> T]
      BY <1>1
    <3>2. \A i \in DOMAIN s : i \in 1..n /\ s[i] \in T
      BY <3>1
    <3> QED
      BY <3>2
  <2> QED
    BY <2>1
<1>4. ASSUME NEW s \in B, NEW r \in B, graph[s] = graph[r] PROVE s = r
  <2>1. PICK m \in 0..n : s \in [1..m -> T]
    BY <1>1
  <2>2. PICK k \in 0..n : r \in [1..k -> T]
    BY <1>1
  <2>3. {<<i, s[i]>> : i \in DOMAIN s} = {<<i, r[i]>> : i \in DOMAIN r}
    BY <1>4
  <2>4. ASSUME NEW i \in DOMAIN s PROVE i \in DOMAIN r /\ r[i] = s[i]
    <3>1. <<i, s[i]>> \in {<<j, r[j]>> : j \in DOMAIN r}
      BY <2>3
    <3>2. PICK j \in DOMAIN r : <<i, s[i]>> = <<j, r[j]>>
      BY <3>1
    <3> QED
      BY <3>2
  <2>5. ASSUME NEW i \in DOMAIN r PROVE i \in DOMAIN s
    <3>1. <<i, r[i]>> \in {<<j, s[j]>> : j \in DOMAIN s}
      BY <2>3
    <3>2. PICK j \in DOMAIN s : <<i, r[i]>> = <<j, s[j]>>
      BY <3>1
    <3> QED
      BY <3>2
  <2>6. DOMAIN s = DOMAIN r
    BY <2>4, <2>5
  <2>7. s = [i \in DOMAIN s |-> s[i]] /\ r = [i \in DOMAIN r |-> r[i]]
    BY <2>1, <2>2
  <2> QED
    BY <2>4, <2>6, <2>7
<1> HIDE DEF graph
<1>5. graph \in Injection(B, graphs)
  BY <1>3, <1>4 DEF Injection, IsInjective
<1>6. IsFiniteSet(B)
  BY <1>2, <1>5, FS_Injection
<1> QED
  BY <1>6 DEF B

LEMMA BoundedSeqMember ==
  ASSUME NEW T, NEW n \in Nat, NEW w
  PROVE  w \in BoundedSeq(T, n) <=> w \in Seq(T) /\ Len(w) <= n
<1>1. ASSUME w \in BoundedSeq(T, n) PROVE w \in Seq(T) /\ Len(w) <= n
  <2>1. PICK m \in 0..n : w \in [1..m -> T]
    BY <1>1 DEF BoundedSeq, SeqOf
  <2> QED
    BY <2>1
<1>2. ASSUME w \in Seq(T), Len(w) <= n PROVE w \in BoundedSeq(T, n)
  <2>1. Len(w) \in 0..n /\ w \in [1..Len(w) -> T]
    BY <1>2
  <2> QED
    BY <2>1 DEF BoundedSeq, SeqOf
<1> QED
  BY <1>1, <1>2

\* The numbers of the grammar symbols of a table.
GrammarIds(t) == NonTerminalIds(t) \cup TerminalIds(t)

LEMMA HandleSymbols ==
  ASSUME NEW t, IsSyntaxTable(t), NEW p \in DOMAIN t.productions
  PROVE  GrammarSymbols(t, t.productions[p]) \in Seq(GrammarIds(t))
<1> DEFINE h == t.productions[p]
           S == SymbolIds(t)
           K == GrammarIds(t)
<1>1. h \in Seq(S)
  BY DEF IsSyntaxTable
<1> HIDE DEF h, S, K
<1>2. Kept(h, K) \in Seq(S \cap K)
  BY <1>1, KeptType
<1>3. Kept(h, K) \in Seq(K)
  BY <1>2
<1> QED
  BY <1>3 DEF GrammarSymbols, GrammarIds, h, K

\* The step of the growth, as a function.
Growth(t, n) == [Y \in SUBSET Pairs(t, n) |-> Grown(t, n, Y)]

LEMMA PairsSpell ==
  ASSUME NEW t, NEW n \in Nat, NEW Y \in SUBSET Pairs(t, n)
  PROVE  Spells(Y, TerminalIds(t))
<1>1. \A k \in Pairs(t, n) : k[2] \in BoundedSeq(TerminalIds(t), n)
  BY DEF Pairs
<1> QED
  BY <1>1, BoundedSeqMember DEF Spells

LEMMA GrowthGrows ==
  ASSUME NEW t, IsSyntaxTable(t), NEW n \in Nat
  PROVE  /\ Growth(t, n) \in [SUBSET Pairs(t, n) -> SUBSET Pairs(t, n)]
         /\ Grows(Pairs(t, n), Growth(t, n))
<1> DEFINE F == Pairs(t, n)
           P == DOMAIN t.productions
           T == TerminalIds(t)
           s(p) == GrammarSymbols(t, t.productions[p])
           name(p) == t.productionNames[p]
           one(Y, p) == {name(p)} \X Words(Y, s(p), n)
<1>1. \A p \in P : name(p) \in NonTerminalIds(t) /\ s(p) \in Seq(GrammarIds(t))
  BY HandleSymbols DEF IsSyntaxTable
<1>2. ASSUME NEW Y \in SUBSET F, NEW p \in P PROVE one(Y, p) \in SUBSET F
  <2>1. Spells(Y, T)
    BY PairsSpell
  <2> HIDE DEF s
  <2>2. \A w \in Words(Y, s(p), n) : w \in Seq(T) /\ Len(w) <= n
    BY <1>1, <2>1, WordsType
  <2>3. \A w \in Words(Y, s(p), n) : w \in BoundedSeq(T, n)
    BY <2>2, BoundedSeqMember
  <2> QED
    BY <1>1, <2>3 DEF Pairs
<1>3. ASSUME NEW Y \in SUBSET F, NEW Z \in SUBSET F, Y \subseteq Z, NEW p \in P
      PROVE  one(Y, p) \subseteq one(Z, p)
  <2>1. Spells(Y, T) /\ Spells(Z, T)
    BY PairsSpell
  <2> HIDE DEF s
  <2>2. Words(Y, s(p), n) \subseteq Words(Z, s(p), n)
    BY <1>1, <1>3, <2>1, WordsGrow
  <2> QED
    BY <2>2
<1>4. \A Y : Grown(t, n, Y) = Y \cup UNION {one(Y, p) : p \in P}
  BY DEF Grown
<1> HIDE DEF one, P
<1>5. \A Y \in SUBSET F : Grown(t, n, Y) \in SUBSET F
  BY <1>2, <1>4
<1> HIDE DEF F
<1>6. Growth(t, n) \in [SUBSET F -> SUBSET F] /\ \A Y \in SUBSET F : Growth(t, n)[Y] = Grown(t, n, Y)
  BY <1>5 DEF Growth, F
<1>7. \A Y \in SUBSET F : Y \subseteq Grown(t, n, Y)
  BY <1>4
<1>8. ASSUME NEW Y \in SUBSET F, NEW Z \in SUBSET F, Y \subseteq Z
      PROVE  Grown(t, n, Y) \subseteq Grown(t, n, Z)
  <2>1. \A p \in P : one(Y, p) \subseteq one(Z, p)
    BY <1>3, <1>8
  <2>2. Grown(t, n, Y) = Y \cup UNION {one(Y, p) : p \in P}
        /\ Grown(t, n, Z) = Z \cup UNION {one(Z, p) : p \in P}
    BY <1>4
  <2> QED
    BY <1>8, <2>1, <2>2
<1>9. Grows(F, Growth(t, n))
  BY <1>6, <1>7, <1>8 DEF Grows
<1> QED
  BY <1>6, <1>9 DEF F

LEMMA TerminalPairs ==
  ASSUME NEW t, NEW n \in Nat, n > 0
  PROVE  TerminalWords(t) \in SUBSET Pairs(t, n)
<1> SUFFICES ASSUME NEW a \in TerminalIds(t) PROVE <<a, <<a>>>> \in Pairs(t, n)
  BY DEF TerminalWords
<1>1. <<a>> \in Seq(TerminalIds(t)) /\ Len(<<a>>) <= n
  OBVIOUS
<1>2. <<a>> \in BoundedSeq(TerminalIds(t), n)
  BY <1>1, BoundedSeqMember
<1> QED
  BY <1>2 DEF Pairs

\* What the growth ends with is the least set that does not grow.
LEMMA GeneratedIsLeast ==
  ASSUME NEW t, IsSyntaxTable(t), NEW n \in Nat, n > 0
  PROVE  Generated(t, n) = Least(Pairs(t, n), Growth(t, n), TerminalWords(t))
<1> DEFINE F == Pairs(t, n)
           G == Growth(t, n)
           all == CHOOSE all : all = [known \in SUBSET F |->
                    IF Grown(t, n, known) = known THEN known ELSE all[Grown(t, n, known)]]
<1>1. G \in [SUBSET F -> SUBSET F] /\ Grows(F, G)
      /\ \A Y \in SUBSET F : G[Y] = Grown(t, n, Y)
  BY GrowthGrows DEF Growth
<1>2. IsFiniteSet(F)
  <2>1. IsFiniteSet(NonTerminalIds(t)) /\ IsFiniteSet(TerminalIds(t))
    <3>1. t.nonterminalCount \in Nat /\ t.terminalCount \in Nat
      BY DEF IsSyntaxTable
    <3>2. t.nonterminalCount - 1 \in Int
          /\ t.nonterminalCount + t.terminalCount - 1 \in Int
      BY <3>1
    <3>3. \A a, b \in Int : IsFiniteSet(a..b)
      BY FS_Interval
    <3> QED
      BY <3>1, <3>2, <3>3 DEF NonTerminalIds, TerminalIds
  <2>2. IsFiniteSet(NonTerminalIds(t) \cup TerminalIds(t))
    BY <2>1, FS_Union
  <2>3. IsFiniteSet(BoundedSeq(TerminalIds(t), n))
    BY <2>1, BoundedSeqFinite
  <2> QED
    BY <2>2, <2>3, FS_Product DEF Pairs
<1>3. Generated(t, n) = all[TerminalWords(t)]
  BY DEF Generated
<1> HIDE DEF G, F
<1>4. Closes(all, F, G)
  <2>1. \A f : Closes(f, F, G) <=>
          f = [known \in SUBSET F |->
                 IF Grown(t, n, known) = known THEN known ELSE f[Grown(t, n, known)]]
    BY <1>1 DEF Closes
  <2>2. \E f : Closes(f, F, G)
    BY <1>1, LeastCloses
  <2> QED
    BY <2>1, <2>2
<1> HIDE DEF all
<1>5. TerminalWords(t) \in SUBSET F
  BY TerminalPairs DEF F
<1>6. all[TerminalWords(t)] = Least(F, G, TerminalWords(t))
  BY <1>1, <1>2, <1>4, <1>5, ClosingIsLeast
<1> QED
  BY <1>3, <1>6 DEF F, G

\* K holds a set's words for the handle of each production that it has the name of.
ClosedUnder(t, n, K) ==
  \A p \in DOMAIN t.productions : \A w \in Words(K, HandleOf(t, p), n) :
    <<t.productionNames[p], w>> \in K

\* K is what the grammar symbols stand for: a terminal for itself, a nonterminal for
\* what one of its handles stands for, and nothing for more than it must.
IsLanguage(t, n, K) ==
  /\ K \in SUBSET Pairs(t, n)
  /\ \A a \in TerminalIds(t) : \A w : <<a, w>> \in K <=> w = <<a>>
  /\ \A x \in NonTerminalIds(t) : \A w :
       <<x, w>> \in K <=> \E p \in DOMAIN t.productions :
                            t.productionNames[p] = x /\ w \in Words(K, HandleOf(t, p), n)
  /\ \A Z \in SUBSET Pairs(t, n) : TerminalWords(t) \subseteq Z /\ ClosedUnder(t, n, Z) => K \subseteq Z

LEMMA ClosedIsGrown ==
  ASSUME NEW t, NEW n, NEW Z
  PROVE  Grown(t, n, Z) = Z <=> ClosedUnder(t, n, Z)
<1> DEFINE P == DOMAIN t.productions
           W(p) == Words(Z, GrammarSymbols(t, t.productions[p]), n)
           name(p) == t.productionNames[p]
<1>1. Grown(t, n, Z) = Z \cup UNION {{name(p)} \X W(p) : p \in P}
  BY DEF Grown
<1>2. ClosedUnder(t, n, Z) <=> \A p \in P : \A w \in W(p) : <<name(p), w>> \in Z
  BY DEF ClosedUnder, HandleOf
<1> HIDE DEF W, P, name
<1>3. (\A p \in P : \A w \in W(p) : <<name(p), w>> \in Z)
        <=> \A p \in P : {name(p)} \X W(p) \subseteq Z
  OBVIOUS
<1>4. (\A p \in P : {name(p)} \X W(p) \subseteq Z)
        <=> Z \cup UNION {{name(p)} \X W(p) : p \in P} = Z
  OBVIOUS
<1> QED
  BY <1>1, <1>2, <1>3, <1>4

LEMMA IdsApart ==
  ASSUME NEW t, IsSyntaxTable(t)
  PROVE  \A x \in NonTerminalIds(t) : x \notin TerminalIds(t)
BY DEF IsSyntaxTable, NonTerminalIds, TerminalIds

LEMMA GeneratedIsLanguage ==
  ASSUME NEW t, IsSyntaxTable(t), NEW n \in Nat, n > 0
  PROVE  IsLanguage(t, n, Generated(t, n))
<1> DEFINE F == Pairs(t, n)
           G == Growth(t, n)
           K == Generated(t, n)
           TW == TerminalWords(t)
           P == DOMAIN t.productions
<1>1. G \in [SUBSET F -> SUBSET F] /\ Grows(F, G) /\ TW \in SUBSET F
  BY GrowthGrows, TerminalPairs
<1>2. \A Y \in SUBSET F : G[Y] = Grown(t, n, Y)
  BY DEF Growth
<1>3. K = Least(F, G, TW)
  BY GeneratedIsLeast
<1> HIDE DEF K, F, G, TW
<1>4. K \in SUBSET F /\ TW \subseteq K /\ G[K] = K
  BY <1>1, <1>3, LeastIsClosed
<1>5. ClosedUnder(t, n, K)
  BY <1>2, <1>4, ClosedIsGrown
<1>6. ASSUME NEW Z \in SUBSET F, TW \subseteq Z, ClosedUnder(t, n, Z)
      PROVE  K \subseteq Z
  <2>1. G[Z] = Z
    BY <1>2, <1>6, ClosedIsGrown
  <2> QED
    BY <1>3, <1>6, <2>1 DEF Least
<1>7. \A p \in P : t.productionNames[p] \in NonTerminalIds(t) /\ HandleOf(t, p) \in Seq(GrammarIds(t))
  BY HandleSymbols DEF IsSyntaxTable, HandleOf
<1>8. \A Y \in SUBSET F : Spells(Y, TerminalIds(t))
  BY PairsSpell DEF F
<1>9. ASSUME NEW Z \in SUBSET K, NEW p \in P
      PROVE  Words(Z, HandleOf(t, p), n) \subseteq Words(K, HandleOf(t, p), n)
  <2>1. Spells(Z, TerminalIds(t)) /\ Spells(K, TerminalIds(t))
    BY <1>4, <1>8
  <2>2. HandleOf(t, p) \in Seq(GrammarIds(t)) /\ Z \subseteq K
    BY <1>7
  <2> QED
    BY <2>1, <2>2, WordsGrow
<1>10. \A x \in NonTerminalIds(t) : x \notin TerminalIds(t)
  BY IdsApart
<1>11. \A k \in TW : k[1] \in TerminalIds(t) /\ k[2] = <<k[1]>>
  BY DEF TW, TerminalWords
<1>12. \A a \in TerminalIds(t) : <<a, <<a>>>> \in K
  BY <1>4 DEF TW, TerminalWords
<1>13. ASSUME NEW a \in TerminalIds(t), NEW w, <<a, w>> \in K PROVE w = <<a>>
  <2> DEFINE Z == {k \in K : k[1] \in TerminalIds(t) => k[2] = <<k[1]>>}
  <2>1. Z \in SUBSET F /\ TW \subseteq Z /\ Z \in SUBSET K
    BY <1>4, <1>11
  <2>2. ASSUME NEW p \in P, NEW v \in Words(Z, HandleOf(t, p), n)
        PROVE  <<t.productionNames[p], v>> \in Z
    <3>1. <<t.productionNames[p], v>> \in K
      BY <1>5, <1>9, <2>1 DEF ClosedUnder
    <3>2. t.productionNames[p] \notin TerminalIds(t)
      BY <1>7, <1>10
    <3> QED
      BY <3>1, <3>2
  <2> HIDE DEF Z
  <2>3. K \subseteq Z
    BY <1>6, <2>1, <2>2 DEF ClosedUnder
  <2>4. <<a, w>> \in Z
    BY <1>13, <2>3
  <2> QED
    BY <2>4 DEF Z
<1>14. ASSUME NEW x \in NonTerminalIds(t), NEW w, <<x, w>> \in K
       PROVE  \E p \in P : t.productionNames[p] = x /\ w \in Words(K, HandleOf(t, p), n)
  <2> DEFINE made(y, v) == \E p \in P : t.productionNames[p] = y /\ v \in Words(K, HandleOf(t, p), n)
             Z == {k \in K : k[1] \in NonTerminalIds(t) => made(k[1], k[2])}
  <2>1. Z \in SUBSET F /\ TW \subseteq Z /\ Z \in SUBSET K
    BY <1>4, <1>10, <1>11
  <2>2. ASSUME NEW p \in P, NEW v \in Words(Z, HandleOf(t, p), n)
        PROVE  <<t.productionNames[p], v>> \in Z
    <3>1. v \in Words(K, HandleOf(t, p), n)
      BY <1>9, <2>1
    <3>2. <<t.productionNames[p], v>> \in K
      BY <1>5, <3>1 DEF ClosedUnder
    <3>3. made(t.productionNames[p], v)
      BY <3>1
    <3> QED
      BY <3>2, <3>3
  <2> HIDE DEF Z, made
  <2>3. K \subseteq Z
    BY <1>6, <2>1, <2>2 DEF ClosedUnder
  <2>4. <<x, w>> \in Z
    BY <1>14, <2>3
  <2>5. made(x, w)
    BY <2>4 DEF Z
  <2> QED
    BY <2>5 DEF made
<1>15. ASSUME NEW x, NEW w, NEW p \in P, t.productionNames[p] = x, w \in Words(K, HandleOf(t, p), n)
       PROVE  <<x, w>> \in K
  BY <1>5, <1>15 DEF ClosedUnder
<1>16. \A a \in TerminalIds(t) : \A w : <<a, w>> \in K <=> w = <<a>>
  BY <1>12, <1>13
<1>17. \A x \in NonTerminalIds(t) : \A w :
         <<x, w>> \in K <=> \E p \in P : t.productionNames[p] = x /\ w \in Words(K, HandleOf(t, p), n)
  BY <1>14, <1>15
<1> HIDE DEF P
<1>18. IsLanguage(t, n, K)
  BY <1>4, <1>6, <1>16, <1>17 DEF IsLanguage, F, TW, P
<1> QED
  BY <1>18 DEF K

\* A word of s may start with b.
MayStart(nullable, first, s, b) ==
  \E j \in DOMAIN s : b \in first[s[j]] /\ \A i \in 1..j - 1 : s[i] \in nullable

LEMMA StartersStart ==
  ASSUME NEW nullable, NEW first, NEW s, NEW b
  PROVE  b \in Starters(nullable, first, s) <=> MayStart(nullable, first, s, b)
<1>1. \A j : MeetIn(nullable, s, 0, j) <=> \A i \in 1..j - 1 : s[i] \in nullable
  BY DEF MeetIn
<1> QED
  BY <1>1 DEF Starters, MayStart

LEMMA PredictsStarts ==
  ASSUME NEW t, NEW nullable, NEW first, NEW follow, Predicts(t, nullable, first, follow),
         NEW p \in DOMAIN t.productions
  PROVE  LET s == HandleOf(t, p)
             x == t.productionNames[p]
         IN  /\ MayVanish(nullable, s) => x \in nullable
             /\ \A b : MayStart(nullable, first, s, b) => b \in first[x]
             /\ \A b : MayStart(nullable, first, s, b) \/ (MayVanish(nullable, s) /\ b \in follow[x])
                         => HasEntry(t, x, b) /\ t.table[<<x, b>>] = p
<1> DEFINE s == HandleOf(t, p)
           x == t.productionNames[p]
           starters == Starters(nullable, first, s)
           met == starters \cup IF MayVanish(nullable, s) THEN follow[x] ELSE {}
<1>1. /\ MayVanish(nullable, s) => x \in nullable
      /\ starters \subseteq first[x]
      /\ \A b \in met : HasEntry(t, x, b) /\ t.table[<<x, b>>] = p
  BY DEF Predicts
<1>2. \A b : b \in starters <=> MayStart(nullable, first, s, b)
  BY StartersStart
<1> HIDE DEF s, x, starters
<1> QED
  BY <1>1, <1>2 DEF s, x

Foretold(nullable, first, x, w) ==
  IF w = <<>> THEN x \in nullable ELSE w[1] \in first[x]

ForetoldAll(nullable, first, s, w) ==
  IF w = <<>> THEN MayVanish(nullable, s) ELSE MayStart(nullable, first, s, w[1])

LEMMA FirstOfConcat ==
  ASSUME NEW T, NEW u \in Seq(T), NEW v \in Seq(T)
  PROVE  /\ u \o v = <<>> <=> u = <<>> /\ v = <<>>
         /\ u # <<>> => (u \o v)[1] = u[1]
         /\ u = <<>> => u \o v = v
<1>1. Len(u \o v) = Len(u) + Len(v) /\ Len(u) \in Nat /\ Len(v) \in Nat /\ u \o v \in Seq(T)
  OBVIOUS
<1>2. u # <<>> => Len(u) > 0
  BY EmptySeq
<1>3. u # <<>> => (u \o v)[1] = u[1]
  BY <1>2
<1>4. u \o v = <<>> <=> u = <<>> /\ v = <<>>
  BY <1>1, EmptySeq
<1>5. u = <<>> => u \o v = v
  OBVIOUS
<1> QED
  BY <1>3, <1>4, <1>5

LEMMA AppendForetold ==
  ASSUME NEW S, NEW s \in Seq(S), NEW x \in S, NEW nullable, NEW first,
         NEW T, NEW u \in Seq(T), NEW v \in Seq(T),
         ForetoldAll(nullable, first, s, u), Foretold(nullable, first, x, v)
  PROVE  ForetoldAll(nullable, first, Append(s, x), u \o v)
<1> DEFINE r == Append(s, x)
           m == Len(s)
<1>1. /\ m \in Nat /\ DOMAIN s = 1..m /\ DOMAIN r = 1..m + 1 /\ r[m + 1] = x
      /\ \A i \in 1..m : r[i] = s[i]
  OBVIOUS
<1> HIDE DEF r, m
<1>2. /\ u \o v = <<>> <=> u = <<>> /\ v = <<>>
      /\ u # <<>> => (u \o v)[1] = u[1]
      /\ u = <<>> => u \o v = v
  BY FirstOfConcat
<1>3. CASE u # <<>>
  <2>1. u \o v # <<>> /\ (u \o v)[1] = u[1]
    BY <1>2, <1>3
  <2>2. PICK j \in 1..m : u[1] \in first[s[j]] /\ \A i \in 1..j - 1 : s[i] \in nullable
    BY <1>1, <1>3 DEF ForetoldAll, MayStart
  <2>3. j \in 1..m + 1 /\ r[j] = s[j] /\ \A i \in 1..j - 1 : r[i] = s[i]
    BY <1>1
  <2>4. MayStart(nullable, first, r, u[1])
    BY <1>1, <2>2, <2>3 DEF MayStart
  <2> QED
    BY <2>1, <2>4 DEF ForetoldAll, r
<1>4. CASE u = <<>>
  <2>1. \A i \in 1..m : r[i] \in nullable
    BY <1>1, <1>4 DEF ForetoldAll, MayVanish
  <2>2. CASE v = <<>>
    <3>1. \A i \in 1..m + 1 : r[i] \in nullable
      BY <1>1, <2>1, <2>2 DEF Foretold
    <3>2. u \o v = <<>>
      BY <1>2, <1>4, <2>2
    <3> QED
      BY <1>1, <3>1, <3>2 DEF ForetoldAll, MayVanish, r
  <2>3. CASE v # <<>>
    <3>1. m + 1 \in 1..m + 1 /\ v[1] \in first[r[m + 1]] /\ \A i \in 1..(m + 1) - 1 : r[i] \in nullable
      BY <1>1, <2>1, <2>3 DEF Foretold
    <3>2. u \o v = v
      BY <1>2, <1>4
    <3>3. MayStart(nullable, first, r, v[1])
      BY <1>1, <3>1 DEF MayStart
    <3> QED
      BY <2>3, <3>2, <3>3 DEF ForetoldAll, r
  <2> QED
    BY <2>2, <2>3
<1> QED
  BY <1>3, <1>4

\* What is foretold of the meanings is foretold of the words.
LEMMA WordsForetold ==
  ASSUME NEW T, NEW Z, Spells(Z, T), NEW n \in Nat, NEW nullable, NEW first, NEW S,
         \A k \in Z : Foretold(nullable, first, k[1], k[2])
  PROVE  \A s \in Seq(S) : \A w \in Words(Z, s, n) : ForetoldAll(nullable, first, s, w)
<1> DEFINE I == {s \in Seq(S) : \A w \in Words(Z, s, n) : ForetoldAll(nullable, first, s, w)}
<1>1. <<>> \in I
  <2>1. Words(Z, <<>>, n) = {<<>>}
    BY WordsEmpty
  <2>2. MayVanish(nullable, <<>>)
    BY DEF MayVanish
  <2>3. <<>> \in Seq(S)
    OBVIOUS
  <2> QED
    BY <2>1, <2>2, <2>3 DEF ForetoldAll
<1>2. ASSUME NEW s \in Seq(S), NEW x \in S, s \in I
      PROVE  Append(s, x) \in I
  <2> SUFFICES ASSUME NEW w \in Words(Z, Append(s, x), n)
               PROVE  ForetoldAll(nullable, first, Append(s, x), w)
    OBVIOUS
  <2>1. Words(Z, Append(s, x), n) = Joined(Words(Z, s, n), Meanings(Z, x), n)
    BY WordsAppend
  <2>2. PICK u \in Words(Z, s, n), v \in Meanings(Z, x) : w = u \o v
    BY <2>1, JoinedParts
  <2>3. u \in Seq(T) /\ v \in Seq(T)
    BY WordsType, MeaningsType
  <2>4. ForetoldAll(nullable, first, s, u)
    BY <1>2
  <2>5. Foretold(nullable, first, x, v)
    <3>1. PICK k \in Z : k[1] = x /\ k[2] = v
      BY <2>2 DEF Meanings
    <3> QED
      BY <3>1
  <2>6. ForetoldAll(nullable, first, Append(s, x), u \o v)
    BY ONLY <1>2, <2>3, <2>4, <2>5, AppendForetold
  <2> QED
    BY <2>2, <2>6
<1> HIDE DEF I
<1>3. \A s \in Seq(S) : s \in I
  BY ONLY <1>1, <1>2, SeqInduction
<1> QED
  BY <1>3 DEF I

\* What a symbol stands for is what the table was made for.
LEMMA LanguageForetold ==
  ASSUME NEW t, IsSyntaxTable(t), NEW n \in Nat, NEW K, IsLanguage(t, n, K),
         NEW nullable, NEW first, NEW follow, Predicts(t, nullable, first, follow)
  PROVE  \A k \in K : Foretold(nullable, first, k[1], k[2])
<1> DEFINE Z == {k \in K : Foretold(nullable, first, k[1], k[2])}
           P == DOMAIN t.productions
<1>1. K \in SUBSET Pairs(t, n)
  BY DEF IsLanguage
<1>2. Z \in SUBSET Pairs(t, n) /\ Z \subseteq K
  BY <1>1
<1>3. Spells(Z, TerminalIds(t)) /\ Spells(K, TerminalIds(t))
  BY <1>1, <1>2, PairsSpell
<1>4. \A k \in Z : Foretold(nullable, first, k[1], k[2])
  OBVIOUS
<1>5. \A k \in K : Foretold(nullable, first, k[1], k[2]) => k \in Z
  OBVIOUS
<1> HIDE DEF Z
<1>6. TerminalWords(t) \subseteq Z
  <2> SUFFICES ASSUME NEW a \in TerminalIds(t) PROVE <<a, <<a>>>> \in Z
    BY DEF TerminalWords
  <2>1. <<a, <<a>>>> \in K
    BY DEF IsLanguage
  <2>2. <<a>> # <<>> /\ <<a>>[1] = a
    OBVIOUS
  <2>3. a \in first[a]
    BY DEF Predicts
  <2> QED
    BY <1>5, <2>1, <2>2, <2>3 DEF Foretold
<1>7. ASSUME NEW p \in P, NEW w \in Words(Z, HandleOf(t, p), n)
      PROVE  <<t.productionNames[p], w>> \in Z
  <2> DEFINE s == HandleOf(t, p)
             x == t.productionNames[p]
  <2>1. s \in Seq(GrammarIds(t)) /\ x \in NonTerminalIds(t)
    BY HandleSymbols DEF HandleOf, IsSyntaxTable
  <2>2. /\ MayVanish(nullable, s) => x \in nullable
        /\ \A b : MayStart(nullable, first, s, b) => b \in first[x]
    BY PredictsStarts
  <2> HIDE DEF s, x
  <2>3. ForetoldAll(nullable, first, s, w)
    BY <1>3, <1>4, <1>7, <2>1, WordsForetold DEF s
  <2>4. Words(Z, s, n) \subseteq Words(K, s, n)
    BY <1>2, <1>3, <2>1, WordsGrow
  <2>5. <<x, w>> \in K
    BY <1>7, <2>1, <2>4 DEF IsLanguage, s, x
  <2>6. Foretold(nullable, first, x, w)
    BY <2>2, <2>3 DEF Foretold, ForetoldAll
  <2> QED
    BY <1>5, <2>5, <2>6 DEF x
<1>8. K \subseteq Z
  BY <1>2, <1>6, <1>7 DEF IsLanguage, ClosedUnder
<1> QED
  BY <1>4, <1>8

\* Of two symbols with nothing between them, the words of the second follow the first.
InContext(t, nullable, first, follow, r) ==
  \A i \in DOMAIN r, j \in DOMAIN r :
    i < j /\ r[i] \in NonTerminalIds(t) /\ MeetIn(nullable, r, i, j)
      => first[r[j]] \subseteq follow[r[i]]

LEMMA LanguageSpells ==
  ASSUME NEW t, NEW n \in Nat, NEW K, IsLanguage(t, n, K)
  PROVE  Spells(K, TerminalIds(t))
BY PairsSpell DEF IsLanguage

\* The word w is one of x and one of r behind it.
HeadAndRest(t, n, K, x, r, w) ==
  \E u \in Seq(TerminalIds(t)), v \in Seq(TerminalIds(t)) :
    w = u \o v /\ Len(w) <= n /\ <<x, u>> \in K /\ v \in Words(K, r, n)

LEMMA HeadWord ==
  ASSUME NEW t, NEW n \in Nat, NEW K, IsLanguage(t, n, K),
         NEW x \in GrammarIds(t), NEW r \in Seq(GrammarIds(t)), NEW w
  PROVE  w \in Words(K, <<x>> \o r, n) <=> HeadAndRest(t, n, K, x, r, w)
<1> DEFINE T == TerminalIds(t)
           S == GrammarIds(t)
           one == Words(K, <<x>>, n)
           rest == Words(K, r, n)
           M == Meanings(K, x)
<1>1. Spells(K, T)
  BY LanguageSpells
<1>2. Words(K, <<x>> \o r, n) = Joined(one, rest, n)
  BY <1>1, WordsHead
<1>3. one = {u \in M : Len(u) <= n}
  BY <1>1, WordsSingle
<1>4. \A u : u \in M <=> <<x, u>> \in K
  <2>1. \A k \in K : k = <<k[1], k[2]>>
    BY DEF IsLanguage, Pairs
  <2> QED
    BY <2>1 DEF Meanings
<1>5. M \in SUBSET Seq(T) /\ rest \in SUBSET Seq(T)
  <2>1. rest \in SUBSET Seq(T)
    BY <1>1, WordsType
  <2>2. M \in SUBSET Seq(T)
    BY <1>1, MeaningsType
  <2> QED
    BY <2>1, <2>2
<1> HIDE DEF M, one, rest, T
<1>6. ASSUME w \in Joined(one, rest, n)
      PROVE  HeadAndRest(t, n, K, x, r, w)
  <2>1. PICK u \in one, v \in rest : w = u \o v
    BY <1>6, JoinedParts
  <2>2. Len(w) <= n
    BY <1>6 DEF Joined
  <2>3. u \in M
    BY <1>3
  <2> QED
    BY <1>4, <1>5, <2>1, <2>2, <2>3 DEF HeadAndRest, T, rest
<1>7. ASSUME NEW u \in Seq(T), NEW v \in Seq(T), w = u \o v, Len(w) <= n, <<x, u>> \in K, v \in rest
      PROVE  w \in Joined(one, rest, n)
  <2>1. Len(u) <= n
    <3>1. Len(u \o v) = Len(u) + Len(v) /\ Len(u) \in Nat /\ Len(v) \in Nat
      OBVIOUS
    <3> QED
      BY <1>7, <3>1
  <2>2. u \in one
    BY <1>3, <1>4, <1>7, <2>1
  <2> QED
    BY <1>7, <2>2, JoinedIn
<1> QED
  BY <1>2, <1>6, <1>7 DEF HeadAndRest, rest, T

\* The word w is one of s and one of r behind it.
WordAndRest(n, K, s, r, w) ==
  \E u \in Words(K, s, n), v \in Words(K, r, n) : w = u \o v /\ Len(w) <= n

LEMMA ConcatParts ==
  ASSUME NEW t, NEW n \in Nat, NEW K, IsLanguage(t, n, K),
         NEW s \in Seq(GrammarIds(t)), NEW r \in Seq(GrammarIds(t)), NEW w
  PROVE  w \in Words(K, s \o r, n) <=> WordAndRest(n, K, s, r, w)
<1>1. Spells(K, TerminalIds(t))
  BY LanguageSpells
<1>2. Words(K, s \o r, n) = Joined(Words(K, s, n), Words(K, r, n), n)
  BY <1>1, WordsConcat
<1> DEFINE U == Words(K, s, n)
           V == Words(K, r, n)
<1> HIDE DEF U, V
<1>3. w \in Joined(U, V, n) <=> \E u \in U, v \in V : w = u \o v /\ Len(w) <= n
  BY ONLY SMTT(60) DEF Joined
<1> QED
  BY <1>2, <1>3 DEF U, V, WordAndRest

\* With the next word of a sentence, the table gives the handle that the sentence has.
LEMMA PredictsHandle ==
  ASSUME NEW t, IsSyntaxTable(t), NEW n \in Nat, NEW K, IsLanguage(t, n, K),
         NEW nullable, NEW first, NEW follow, Predicts(t, nullable, first, follow),
         NEW x \in NonTerminalIds(t), NEW r \in Seq(GrammarIds(t)),
         InContext(t, nullable, first, follow, <<x>> \o r),
         NEW w \in Words(K, <<x>> \o r, n), w # <<>>
  PROVE  /\ HasEntry(t, x, w[1])
         /\ w \in Words(K, HandleOf(t, t.table[<<x, w[1]>>]) \o r, n)
<1> DEFINE T == TerminalIds(t)
           P == DOMAIN t.productions
           S == GrammarIds(t)
<1>1. x \in GrammarIds(t)
  BY DEF GrammarIds
<1>2. PICK u \in Seq(T), v \in Seq(T) :
             w = u \o v /\ Len(w) <= n /\ <<x, u>> \in K /\ v \in Words(K, r, n)
  <2>1. HeadAndRest(t, n, K, x, r, w)
    BY <1>1, HeadWord
  <2> QED
    BY <2>1 DEF HeadAndRest
<1>3. PICK p \in P : t.productionNames[p] = x /\ u \in Words(K, HandleOf(t, p), n)
  BY <1>2 DEF IsLanguage
<1> DEFINE s == HandleOf(t, p)
<1>4. s \in Seq(S)
  BY HandleSymbols DEF HandleOf
<1>5. Spells(K, T) /\ \A k \in K : Foretold(nullable, first, k[1], k[2])
  BY LanguageSpells, LanguageForetold
<1>6. ForetoldAll(nullable, first, s, u) /\ ForetoldAll(nullable, first, r, v)
  BY <1>2, <1>3, <1>4, <1>5, WordsForetold
<1>7. /\ u # <<>> => (u \o v)[1] = u[1]
      /\ u = <<>> => u \o v = v
  BY <1>2, FirstOfConcat
<1>8. \A b : MayStart(nullable, first, s, b) \/ (MayVanish(nullable, s) /\ b \in follow[x])
               => HasEntry(t, x, b) /\ t.table[<<x, b>>] = p
  BY <1>3, PredictsStarts
<1>9. u \o v \in Words(K, s \o r, n)
  <2>1. WordAndRest(n, K, s, r, u \o v)
    BY <1>2, <1>3 DEF WordAndRest
  <2> HIDE DEF s
  <2> QED
    BY <1>4, <2>1, ConcatParts
<1> HIDE DEF s
<1>10. HasEntry(t, x, w[1]) /\ t.table[<<x, w[1]>>] = p
  <2>1. CASE u # <<>>
    <3>1. w[1] = u[1] /\ MayStart(nullable, first, s, u[1])
      BY <1>2, <1>6, <1>7, <2>1 DEF ForetoldAll
    <3> QED
      BY <1>8, <3>1
  <2>2. CASE u = <<>>
    <3>1. w = v /\ v # <<>> /\ MayVanish(nullable, s) /\ MayStart(nullable, first, r, v[1])
      BY <1>2, <1>6, <1>7, <2>2 DEF ForetoldAll
    <3>2. PICK j \in DOMAIN r : v[1] \in first[r[j]] /\ \A i \in 1..j - 1 : r[i] \in nullable
      BY <3>1 DEF MayStart
    <3> DEFINE f == <<x>> \o r
    <3>3. /\ Len(r) \in Nat /\ DOMAIN f = 1..Len(r) + 1 /\ f[1] = x /\ DOMAIN r = 1..Len(r)
          /\ \A i \in 1..Len(r) : f[i + 1] = r[i]
      OBVIOUS
    <3> HIDE DEF f
    <3>4. 1 \in DOMAIN f /\ j + 1 \in DOMAIN f /\ 1 < j + 1 /\ f[1] \in NonTerminalIds(t)
          /\ f[j + 1] = r[j]
      BY <3>3
    <3>5. ASSUME NEW k \in 1 + 1..(j + 1) - 1 PROVE f[k] \in nullable
      <4>1. k - 1 \in 1..j - 1 /\ k - 1 \in 1..Len(r) /\ (k - 1) + 1 = k
        BY <3>3
      <4> QED
        BY <3>2, <3>3, <4>1
    <3>6. first[r[j]] \subseteq follow[x]
      BY <3>3, <3>4, <3>5 DEF InContext, MeetIn, f
    <3> QED
      BY <1>8, <3>1, <3>2, <3>6
  <2> QED
    BY <2>1, <2>2
<1> QED
  BY <1>2, <1>9, <1>10 DEF s

\* What follows the symbols of a sentential form's rest is known of the next one's.
LEMMA ContextExpands ==
  ASSUME NEW t, IsSyntaxTable(t), NEW nullable, NEW first, NEW follow,
         Predicts(t, nullable, first, follow),
         NEW p \in DOMAIN t.productions, NEW x, x = t.productionNames[p],
         NEW r \in Seq(GrammarIds(t)),
         InContext(t, nullable, first, follow, <<x>> \o r)
  PROVE  InContext(t, nullable, first, follow, HandleOf(t, p) \o r)
<1> DEFINE s == HandleOf(t, p)
           f == <<x>> \o r
           g == s \o r
           m == Len(s)
           N == NonTerminalIds(t)
<1>1. s \in Seq(GrammarIds(t))
  BY HandleSymbols DEF HandleOf
<1>2. /\ \A i \in DOMAIN s : s[i] \in N =>
           /\ \A j \in DOMAIN s :
                i < j /\ MeetIn(nullable, s, i, j) => first[s[j]] \subseteq follow[s[i]]
           /\ MeetIn(nullable, s, i, m + 1) => follow[x] \subseteq follow[s[i]]
      /\ x \in N
  BY DEF Predicts, IsSyntaxTable
<1> HIDE DEF s
<1>3. /\ Len(r) \in Nat /\ DOMAIN f = 1..Len(r) + 1 /\ f[1] = x /\ DOMAIN r = 1..Len(r)
      /\ \A i \in 1..Len(r) : f[i + 1] = r[i]
  OBVIOUS
<1>4. /\ m \in Nat /\ DOMAIN s = 1..m /\ DOMAIN g = 1..m + Len(r)
      /\ \A i \in 1..m : g[i] = s[i]
      /\ \A i \in 1..Len(r) : g[m + i] = r[i]
  BY <1>1
<1> HIDE DEF f, g, m
<1> SUFFICES ASSUME NEW i \in DOMAIN g, NEW j \in DOMAIN g, i < j, g[i] \in N,
                    MeetIn(nullable, g, i, j)
             PROVE  first[g[j]] \subseteq follow[g[i]]
  BY DEF InContext, g, s
<1>5. CASE j <= m
  <2>1. i \in 1..m /\ j \in 1..m /\ g[i] = s[i] /\ g[j] = s[j]
    BY <1>4, <1>5
  <2>2. \A k \in i + 1..j - 1 : s[k] = g[k]
    BY <1>4, <2>1
  <2>3. MeetIn(nullable, s, i, j)
    BY <2>2 DEF MeetIn
  <2> QED
    BY <1>2, <1>4, <2>1, <2>3
<1>6. CASE i <= m /\ j > m
  <2>1. /\ i \in 1..m /\ g[i] = s[i] /\ j - m \in 1..Len(r) /\ g[j] = r[j - m]
        /\ f[(j - m) + 1] = r[j - m]
    BY <1>3, <1>4, <1>6
  <2>2. \A k \in i + 1..(m + 1) - 1 : k \in i + 1..j - 1 /\ s[k] = g[k]
    BY <1>4, <1>6, <2>1
  <2>3. MeetIn(nullable, s, i, m + 1)
    BY <2>2 DEF MeetIn
  <2>4. follow[x] \subseteq follow[s[i]]
    BY <1>2, <1>4, <2>1, <2>3
  <2>5. ASSUME NEW k \in 1 + 1..((j - m) + 1) - 1 PROVE f[k] \in nullable
    <3>1. k - 1 \in 1..Len(r) /\ (k - 1) + 1 = k /\ m + (k - 1) \in i + 1..j - 1
      BY <1>3, <1>4, <1>6, <2>1, SMTT(30)
    <3>2. f[k] = r[k - 1] /\ g[m + (k - 1)] = r[k - 1]
      BY <1>3, <1>4, <3>1
    <3> QED
      BY <3>1, <3>2 DEF MeetIn
  <2>6. 1 \in DOMAIN f /\ (j - m) + 1 \in DOMAIN f /\ 1 < (j - m) + 1
    BY <1>3, <2>1
  <2>7. first[f[(j - m) + 1]] \subseteq follow[x]
    BY <1>2, <1>3, <2>5, <2>6 DEF InContext, MeetIn, f
  <2> QED
    BY <2>1, <2>4, <2>7
<1>7. CASE i > m
  <2>1. /\ i - m \in 1..Len(r) /\ g[i] = r[i - m] /\ f[(i - m) + 1] = r[i - m]
        /\ j - m \in 1..Len(r) /\ g[j] = r[j - m] /\ f[(j - m) + 1] = r[j - m]
        /\ (i - m) + 1 \in DOMAIN f /\ (j - m) + 1 \in DOMAIN f /\ (i - m) + 1 < (j - m) + 1
    BY <1>3, <1>4, <1>7
  <2>2. ASSUME NEW k \in ((i - m) + 1) + 1..((j - m) + 1) - 1 PROVE f[k] \in nullable
    <3> DEFINE l == Len(r)
    <3>0. i \in Nat /\ j \in Nat /\ m \in Nat /\ k \in Int /\ l \in Nat
          /\ i > m /\ j <= m + l
      BY <1>3, <1>4, <1>7
    <3> HIDE DEF l
    <3>1. k - 1 \in 1..l /\ (k - 1) + 1 = k /\ m + (k - 1) \in i + 1..j - 1
      BY <3>0
    <3>2. f[k] = r[k - 1] /\ g[m + (k - 1)] = r[k - 1]
      BY <1>3, <1>4, <3>1, SMTT(30)
    <3> QED
      BY <3>1, <3>2 DEF MeetIn
  <2> QED
    BY <2>1, <2>2, ZenonT(30) DEF InContext, MeetIn, f
<1> QED
  BY <1>4, <1>5, <1>6, <1>7

LEMMA ContextOfTail ==
  ASSUME NEW t, NEW nullable, NEW first, NEW follow, NEW x \in GrammarIds(t),
         NEW r \in Seq(GrammarIds(t)), InContext(t, nullable, first, follow, <<x>> \o r)
  PROVE  InContext(t, nullable, first, follow, r)
<1> DEFINE f == <<x>> \o r
<1>1. /\ Len(r) \in Nat /\ DOMAIN f = 1..Len(r) + 1 /\ DOMAIN r = 1..Len(r)
      /\ \A i \in 1..Len(r) : f[i + 1] = r[i]
  OBVIOUS
<1> HIDE DEF f
<1> SUFFICES ASSUME NEW i \in DOMAIN r, NEW j \in DOMAIN r, i < j, r[i] \in NonTerminalIds(t),
                    MeetIn(nullable, r, i, j)
             PROVE  first[r[j]] \subseteq follow[r[i]]
  BY DEF InContext
<1>2. i + 1 \in DOMAIN f /\ j + 1 \in DOMAIN f /\ i + 1 < j + 1 /\ f[i + 1] = r[i] /\ f[j + 1] = r[j]
  BY <1>1
<1>3. ASSUME NEW k \in (i + 1) + 1..(j + 1) - 1 PROVE f[k] \in nullable
  <2>1. k - 1 \in 1..Len(r) /\ (k - 1) + 1 = k /\ k - 1 \in i + 1..j - 1
    BY <1>1
  <2> QED
    BY <1>1, <2>1 DEF MeetIn
<1> QED
  BY <1>2, <1>3 DEF InContext, MeetIn, f

LEMMA ContextOfOne ==
  ASSUME NEW t, NEW nullable, NEW first, NEW follow, NEW x
  PROVE  InContext(t, nullable, first, follow, <<x>>)
<1>1. \A i, j \in DOMAIN <<x>> : ~(i < j)
  OBVIOUS
<1> QED
  BY <1>1 DEF InContext

\* The sentential form f ends with the end-of-file token and has it nowhere else, unless
\* nothing was derived yet.
EndsWithEof(t, f) ==
  \/ f = <<t.startSymbol>>
  \/ /\ f # <<>>
     /\ \A i \in DOMAIN f : f[i] # t.startSymbol /\ (f[i] = t.eof <=> i = Len(f))

\* f is m, s and r joined, element by element.
IsThreeJoined(f, m, s, r) ==
  /\ Len(f) = Len(m) + Len(s) + Len(r)
  /\ \A i \in 1..Len(m) : f[i] = m[i]
  /\ \A i \in 1..Len(s) : f[Len(m) + i] = s[i]
  /\ \A i \in 1..Len(r) : f[Len(m) + Len(s) + i] = r[i]

LEMMA ThreeJoined ==
  ASSUME NEW S, NEW m \in Seq(S), NEW s \in Seq(S), NEW r \in Seq(S)
  PROVE  m \o (s \o r) \in Seq(S) /\ IsThreeJoined(m \o (s \o r), m, s, r)
<1> DEFINE z == s \o r
           f == m \o z
<1>1. z \in Seq(S) /\ IsJoined(z, s, r)
  BY ConcatAt
<1> HIDE DEF z
<1>2. f \in Seq(S) /\ IsJoined(f, m, z)
  BY <1>1, ConcatAt
<1> HIDE DEF f
<1>3. Len(m) \in Nat /\ Len(s) \in Nat /\ Len(r) \in Nat
  OBVIOUS
<1>4. Len(z) = Len(s) + Len(r) /\ Len(f) = Len(m) + Len(z)
  BY <1>1, <1>2 DEF IsJoined
<1>5. Len(f) = Len(m) + Len(s) + Len(r)
  BY <1>3, <1>4
<1>6. ASSUME NEW i \in 1..Len(s) PROVE f[Len(m) + i] = s[i]
  <2>1. i \in 1..Len(z)
    BY <1>3, <1>4
  <2> QED
    BY <1>1, <1>2, <2>1 DEF IsJoined
<1>7. ASSUME NEW i \in 1..Len(r) PROVE f[Len(m) + Len(s) + i] = r[i]
  <2>1. Len(s) + i \in 1..Len(z) /\ Len(m) + (Len(s) + i) = Len(m) + Len(s) + i
    BY <1>3, <1>4
  <2> QED
    BY <1>1, <1>2, <2>1 DEF IsJoined
<1>8. \A i \in 1..Len(m) : f[i] = m[i]
  BY <1>2 DEF IsJoined
<1>9. IsThreeJoined(f, m, s, r)
  BY <1>5, <1>6, <1>7, <1>8 DEF IsThreeJoined
<1> QED
  BY <1>2, <1>9 DEF f, z

\* Of two alternatives of the start symbol's, one is applied, and then none.
LEMMA EofExpands ==
  ASSUME NEW t, IsSyntaxTable(t), EofEndsSentences(t), NEW p \in DOMAIN t.productions,
         NEW x, x = t.productionNames[p],
         NEW m \in Seq(TerminalIds(t)), NEW r \in Seq(GrammarIds(t)),
         EndsWithEof(t, m \o (<<x>> \o r))
  PROVE  EndsWithEof(t, m \o (HandleOf(t, p) \o r))
<1> DEFINE S == GrammarIds(t)
           s == HandleOf(t, p)
           y == <<x>>
           f == m \o (y \o r)
           g == m \o (s \o r)
<1>1. x \in NonTerminalIds(t) /\ t.startSymbol \in NonTerminalIds(t) /\ t.eof \in TerminalIds(t)
  BY DEF IsSyntaxTable
<1>2. s \in Seq(S) /\ y \in Seq(S) /\ m \in Seq(S) /\ Len(y) = 1 /\ y[1] = x
  BY <1>1, HandleSymbols DEF HandleOf, GrammarIds
<1>3. /\ {i \in DOMAIN s : s[i] = t.eof} = IF x = t.startSymbol THEN {Len(s)} ELSE {}
      /\ \A i \in DOMAIN s : s[i] # t.startSymbol
  BY DEF EofEndsSentences, HandleOf
<1> HIDE DEF S, s
<1>4. /\ f \in Seq(S) /\ DOMAIN f = 1..Len(m) + 1 + Len(r) /\ Len(f) = Len(m) + 1 + Len(r)
      /\ \A i \in 1..Len(m) : f[i] = m[i]
      /\ f[Len(m) + 1] = x
      /\ \A i \in 1..Len(r) : f[Len(m) + 1 + i] = r[i]
  <2> HIDE DEF y
  <2>0. r \in Seq(S)
    BY DEF S
  <2>1. f \in Seq(S) /\ IsThreeJoined(f, m, y, r)
    BY <1>2, <2>0, ThreeJoined
  <2> HIDE DEF f
  <2>2. 1 \in 1..Len(y) /\ DOMAIN f = 1..Len(f)
    BY <1>2, <2>1
  <2> QED
    BY <1>2, <2>1, <2>2 DEF IsThreeJoined
<1>5. /\ g \in Seq(S) /\ DOMAIN g = 1..Len(m) + Len(s) + Len(r) /\ Len(g) = Len(m) + Len(s) + Len(r)
      /\ \A i \in 1..Len(m) : g[i] = m[i]
      /\ \A i \in 1..Len(s) : g[Len(m) + i] = s[i]
      /\ \A i \in 1..Len(r) : g[Len(m) + Len(s) + i] = r[i]
  <2>0. r \in Seq(S)
    BY DEF S
  <2>1. g \in Seq(S) /\ IsThreeJoined(g, m, s, r)
    BY <1>2, <2>0, ThreeJoined
  <2> HIDE DEF g
  <2>2. DOMAIN g = 1..Len(g)
    BY <2>1
  <2> QED
    BY <2>1, <2>2 DEF IsThreeJoined
<1>6. Len(m) \in Nat /\ Len(s) \in Nat /\ Len(r) \in Nat /\ DOMAIN s = 1..Len(s)
  BY <1>2
<1>7. \A i \in 1..Len(m) : m[i] \in TerminalIds(t)
  OBVIOUS
<1>8. \A b \in NonTerminalIds(t) : b \notin TerminalIds(t)
  BY IdsApart
<1>9. ASSUME NEW i \in 1..Len(g)
      PROVE  \/ i \in 1..Len(m)
             \/ i - Len(m) \in 1..Len(s) /\ g[i] = s[i - Len(m)]
             \/ i - Len(m) - Len(s) \in 1..Len(r) /\ g[i] = r[i - Len(m) - Len(s)]
  <2>1. i \in 1..Len(m) \/ i - Len(m) \in 1..Len(s) \/ i - Len(m) - Len(s) \in 1..Len(r)
    BY <1>5, <1>6
  <2>2. Len(m) + (i - Len(m)) = i /\ Len(m) + Len(s) + (i - Len(m) - Len(s)) = i
    BY <1>5, <1>6
  <2> QED
    BY <1>5, <2>1, <2>2
<1> HIDE DEF g
<1>10. CASE f = <<t.startSymbol>>
  <2>1. Len(m) = 0 /\ Len(r) = 0 /\ x = t.startSymbol
    <3> HIDE DEF f
    <3>1. Len(f) = 1 /\ f[1] = t.startSymbol
      BY <1>10
    <3> QED
      BY <1>4, <1>6, <3>1
  <2>2. {i \in DOMAIN s : s[i] = t.eof} = {Len(s)}
    BY <1>3, <2>1
  <2>3. Len(s) \in 1..Len(s) /\ \A i \in 1..Len(s) : s[i] = t.eof <=> i = Len(s)
    BY <1>6, <2>2
  <2>4. Len(g) = Len(s) /\ \A i \in 1..Len(g) : g[i] = s[i]
    BY <1>5, <1>6, <2>1
  <2>5. g # <<>>
    BY <1>5, <2>3, <2>4, EmptySeq
  <2> QED
    BY <1>3, <1>5, <1>6, <2>3, <2>4, <2>5, ZenonT(60) DEF EndsWithEof, g, s
<1>11. CASE f # <<t.startSymbol>>
  <2>1. \A i \in 1..Len(f) : f[i] # t.startSymbol /\ (f[i] = t.eof <=> i = Len(f))
    <3> HIDE DEF f
    <3>1. DOMAIN f = 1..Len(f)
      BY <1>4
    <3> QED
      BY <1>11, <3>1 DEF EndsWithEof, f, y
  <2> HIDE DEF f
  <2>2. x # t.startSymbol /\ x # t.eof /\ \A i \in 1..Len(s) : s[i] # t.eof
    <3>1. Len(m) + 1 \in 1..Len(f)
      BY <1>4, <1>6
    <3>2. x # t.startSymbol /\ x # t.eof
      BY <1>1, <1>4, <1>8, <2>1, <3>1
    <3> QED
      BY <1>3, <1>6, <3>2
  <2>3. Len(r) > 0
    <3>1. Len(f) \in 1..Len(f) /\ f[Len(f)] = t.eof
      BY <1>4, <1>6, <2>1
    <3>2. Len(r) = 0 => Len(f) = Len(m) + 1
      BY <1>4, <1>6
    <3> QED
      BY <1>4, <1>6, <2>2, <3>1, <3>2
  <2>4. \A i \in 1..Len(r) : r[i] # t.startSymbol /\ (r[i] = t.eof <=> i = Len(r))
    <3> TAKE i \in 1..Len(r)
    <3>0. Len(f) = Len(m) + 1 + Len(r) /\ Len(m) \in Nat /\ Len(r) \in Nat /\ i \in 1..Len(r)
      BY <1>4, <1>6
    <3>1. Len(m) + 1 + i \in 1..Len(f) /\ (Len(m) + 1 + i = Len(f) <=> i = Len(r))
      BY ONLY <3>0
    <3> QED
      BY <1>4, <2>1, <3>1
  <2>5. \A i \in 1..Len(m) : m[i] # t.startSymbol /\ m[i] # t.eof
    <3> TAKE i \in 1..Len(m)
    <3>1. i \in 1..Len(f) /\ i # Len(f)
      BY <1>4, <1>6
    <3> QED
      BY <1>4, <2>1, <3>1
  <2>6. ASSUME NEW i \in 1..Len(g)
        PROVE  g[i] # t.startSymbol /\ (g[i] = t.eof <=> i = Len(g))
    <3>1. CASE i \in 1..Len(m)
      <4>1. i # Len(g)
        BY <1>5, <1>6, <2>3, <3>1
      <4> QED
        BY <1>5, <2>5, <3>1, <4>1
    <3>2. CASE i - Len(m) \in 1..Len(s) /\ g[i] = s[i - Len(m)]
      <4>1. i # Len(g)
        BY <1>5, <1>6, <2>3, <3>2
      <4> QED
        BY <1>3, <1>6, <2>2, <3>2, <4>1
    <3>3. CASE i - Len(m) - Len(s) \in 1..Len(r) /\ g[i] = r[i - Len(m) - Len(s)]
      <4>1. i = Len(g) <=> i - Len(m) - Len(s) = Len(r)
        BY <1>5, <1>6
      <4> QED
        BY <2>4, <3>3, <4>1
    <3> QED
      BY <1>9, <3>1, <3>2, <3>3
  <2>7. g # <<>>
    BY <1>5, <1>6, <2>3, EmptySeq
  <2> QED
    BY <1>5, <2>6, <2>7 DEF EndsWithEof, g, s
<1> QED
  BY <1>10, <1>11

\* Whatever r stands for, with m before it, is a sentence.
StandsFor(t, n, K, m, r) ==
  \A w \in Words(K, r, n) : Len(m \o w) <= n => <<t.startSymbol, m \o w>> \in K

\* It is so still when a nonterminal is replaced by one of its handles.
LEMMA StandsExpanded ==
  ASSUME NEW t, IsSyntaxTable(t), NEW n \in Nat, NEW K, IsLanguage(t, n, K),
         NEW p \in DOMAIN t.productions, NEW x, x = t.productionNames[p],
         NEW m, NEW r \in Seq(GrammarIds(t)), StandsFor(t, n, K, m, <<x>> \o r)
  PROVE  StandsFor(t, n, K, m, HandleOf(t, p) \o r)
<1> DEFINE s == HandleOf(t, p)
           T == TerminalIds(t)
<1> SUFFICES ASSUME NEW w \in Words(K, s \o r, n) PROVE w \in Words(K, <<x>> \o r, n)
  BY DEF StandsFor
<1>1. s \in Seq(GrammarIds(t)) /\ x \in NonTerminalIds(t) /\ x \in GrammarIds(t)
  BY HandleSymbols DEF HandleOf, IsSyntaxTable, GrammarIds
<1> HIDE DEF s
<1>2. PICK u \in Words(K, s, n), v \in Words(K, r, n) : w = u \o v /\ Len(w) <= n
  <2>1. WordAndRest(n, K, s, r, w)
    BY <1>1, ConcatParts
  <2> QED
    BY <2>1 DEF WordAndRest
<1>3. Spells(K, T)
  BY LanguageSpells
<1>4. u \in Seq(T) /\ v \in Seq(T)
  BY <1>1, <1>3, WordsType
<1>5. <<x, u>> \in K
  BY <1>1 DEF IsLanguage, s
<1>6. HeadAndRest(t, n, K, x, r, w)
  BY <1>2, <1>4, <1>5 DEF HeadAndRest
<1> QED
  BY <1>1, <1>6, HeadWord

\* And when a terminal is taken off.
LEMMA StandsEaten ==
  ASSUME NEW t, IsSyntaxTable(t), NEW n \in Nat, NEW K, IsLanguage(t, n, K),
         NEW a \in TerminalIds(t), NEW m \in Seq(TerminalIds(t)),
         NEW r \in Seq(GrammarIds(t)), StandsFor(t, n, K, m, <<a>> \o r)
  PROVE  StandsFor(t, n, K, Append(m, a), r)
<1> DEFINE T == TerminalIds(t)
           y == <<a>>
<1> SUFFICES ASSUME NEW v \in Words(K, r, n), Len(Append(m, a) \o v) <= n
             PROVE  <<t.startSymbol, Append(m, a) \o v>> \in K
  BY DEF StandsFor
<1>1. Spells(K, T)
  BY LanguageSpells
<1>2. v \in Seq(T)
  BY <1>1, WordsType
<1>3. y \in Seq(T) /\ Append(m, a) = m \o y
  OBVIOUS
<1> HIDE DEF y
<1>4. Append(m, a) \o v = m \o (y \o v) /\ y \o v \in Seq(T)
  <2>1. (m \o y) \o v = m \o (y \o v)
    BY <1>2, <1>3, ConcatAssociative, SMTT(30)
  <2> QED
    BY <1>2, <1>3, <2>1
<1>5. Len(y \o v) <= n
  <2>1. Len(m \o (y \o v)) = Len(m) + Len(y \o v) /\ Len(m) \in Nat /\ Len(y \o v) \in Nat
    BY <1>4
  <2> QED
    BY <1>4, <2>1
<1>6. <<a, y>> \in K
  BY DEF IsLanguage, y
<1>7. HeadAndRest(t, n, K, a, r, y \o v)
  BY <1>2, <1>3, <1>5, <1>6 DEF HeadAndRest
<1>8. y \o v \in Words(K, <<a>> \o r, n)
  <2>1. a \in GrammarIds(t)
    BY DEF GrammarIds
  <2> QED
    BY <1>7, <2>1, HeadWord
<1> QED
  BY <1>4, <1>8 DEF StandsFor

\* The grammar symbols of the stack, the topmost first.
Rest == GrammarSymbols(st, Reverse(stack))

\* At the start of a round.
LEMMA RestAtRound ==
  ASSUME IInv, Round
  PROVE  /\ Below \in Seq(GrammarIds(st))
         /\ Top \in GrammarIds(st) => Rest = <<Top>> \o Below
         /\ Top \notin GrammarIds(st) => Rest = Below
<1>1. stack \in Seq(Int) /\ stack # <<>>
  BY Types DEF Round
<1>2. Rest = Kept(Reverse(stack), GrammarIds(st))
      /\ Below = Kept(Reverse(Front(stack)), GrammarIds(st))
  BY DEF Rest, Below, GrammarSymbols, GrammarIds
<1> QED
  BY <1>1, <1>2, SymbolsBelow DEF Top

\* A production that is applied takes the place of the top.
LEMMA ProductionRest ==
  ASSUME IInv, ApplyProduction
  PROVE  Rest' = HandleOf(st, st.table[<<Top, Current>>]) \o Below
<1> DEFINE p == st.table[<<Top, Current>>]
           h == Handle(st, Top, Current)
           n == Len(h)
           K == GrammarIds(st)
           l == Append(Front(stack), -n)
<1>1. /\ Expanding /\ Round /\ HasEntry(st, Top, Current) /\ st' = st /\ h # <<>>
      /\ stack' = ReplaceTop(stack, -n, Pushed(h))
  BY DEF ApplyProduction, Expanding, textVars
<1>2. st.productions[p] = h /\ h \in Seq(Int)
  BY <1>1, EntryFound
<1>3. n \in Nat /\ -n \in Int /\ -n < 0
  BY <1>1, <1>2, EmptySeq
<1>4. -n \notin K
  <2>1. NonTerminalIds(st) \subseteq Nat /\ TerminalIds(st) \subseteq Nat
    BY Types, SymbolNumbers
  <2> HIDE DEF n
  <2> QED
    BY <1>3, <2>1 DEF GrammarIds
<1>5. /\ l \in Seq(Int) /\ l # <<>> /\ Last(l) = -n /\ Front(l) = Front(stack)
  <2> DEFINE f == Front(stack)
             x == -n
  <2>1. f \in Seq(Int) /\ x \in Int
    BY <1>1, <1>3, Types, FrontLast DEF Round
  <2> HIDE DEF f, x
  <2>2. Append(f, x) \in Seq(Int) /\ Append(f, x) # <<>>
        /\ Last(Append(f, x)) = x /\ Front(Append(f, x)) = f
    BY <2>1, AppendFrontLast
  <2> QED
    BY <2>2 DEF f, x
<1>6. stack' = l \o Reverse(h)
  BY <1>1 DEF ReplaceTop, Pushed
<1> HIDE DEF l, n, h, p
<1>7. Kept(Reverse(l), K) = Kept(Reverse(Front(l)), K)
  BY <1>4, <1>5, SymbolsBelow
<1>8. Kept(Reverse(l), K) = Below
  BY <1>5, <1>7 DEF Below, GrammarSymbols, GrammarIds
<1>9. Reverse(stack') = h \o Reverse(l)
  <2> DEFINE S == Int
             u == Reverse(h)
  <2>1. h \in Seq(S) /\ l \in Seq(S) /\ u \in Seq(S)
    BY <1>2, <1>5, ReverseType
  <2> HIDE DEF S
  <2>2. Reverse(u) = h
    BY <2>1, ReverseTwice
  <2> HIDE DEF u
  <2>3. Reverse(l \o u) = Reverse(u) \o Reverse(l)
    BY <2>1, ReverseConcat
  <2> QED
    BY <1>6, <2>2, <2>3 DEF u
<1>10. Kept(h \o Reverse(l), K) = Kept(h, K) \o Kept(Reverse(l), K)
  <2> DEFINE S == Int
             u == Reverse(l)
  <2>1. h \in Seq(S) /\ u \in Seq(S)
    BY <1>2, <1>5, ReverseType
  <2> HIDE DEF S, u, K
  <2>2. Kept(h \o u, K) = Kept(h, K) \o Kept(u, K)
    BY <2>1, KeptConcat
  <2> QED
    BY <2>2 DEF u
<1>11. Rest' = Kept(h \o Reverse(l), K)
  BY <1>1, <1>9 DEF Rest, GrammarSymbols, GrammarIds
<1>12. Kept(h, K) = HandleOf(st, p)
  BY <1>2 DEF HandleOf, GrammarSymbols, GrammarIds
<1> QED
  BY <1>8, <1>10, <1>11, <1>12 DEF p

-----------------------------------------------------------------------------
(* What a step does to the terminals that came and the symbols still to come. *)

\* The step leaves them.
Stays == matched' = matched /\ Rest' = Rest /\ at' = at /\ errors' = errors

\* It takes a terminal off, which it expected or not.
Eats ==
  \E a \in TerminalIds(st), r \in Seq(GrammarIds(st)) :
    /\ Rest = <<a>> \o r /\ Rest' = r
    /\ matched' = Append(matched, a) /\ at' = at + 1
    /\ errors' = IF a # Current THEN errors + 1 ELSE errors

\* It replaces a nonterminal by the handle that the table gives.
Unfolds ==
  \E x \in NonTerminalIds(st), r \in Seq(GrammarIds(st)) :
    /\ HasEntry(st, x, Current)
    /\ Rest = <<x>> \o r /\ Rest' = HandleOf(st, st.table[<<x, Current>>]) \o r
    /\ matched' = matched /\ at' = at /\ errors' = errors

\* It finds no handle in the table.
Fails ==
  \E x \in NonTerminalIds(st), r \in Seq(GrammarIds(st)) :
    /\ ~HasEntry(st, x, Current)
    /\ Rest = <<x>> \o r /\ Rest' = Rest
    /\ matched' = matched /\ at' = at /\ errors' = errors + 1 /\ pc' = "rejected"

\* Another step than Begin, by what it does.
LEMMA Moves ==
  ASSUME IInv, [Next]_vars, pc # "begin"
  PROVE  /\ st' = st /\ input' = input
         /\ \/ Stays /\ (pc' # pc => pc = "analyzing" /\ pc' \in {"accepted", "undefined"})
                     /\ (pc' = "accepted" => stack' = <<>> \/ pc = "accepted")
                     /\ (pc' = pc => stack' = stack \/ pc = "analyzing")
            \/ Eats /\ pc = "analyzing" /\ pc' \in {"analyzing", "thrown"}
            \/ Unfolds /\ pc = "analyzing" /\ pc' \in {"analyzing", "aborted"}
            \/ Fails /\ pc = "analyzing"
<1> DEFINE Same == st' = st /\ input' = input
<1>0. ~Begin
  BY DEF Begin
<1>1. CASE Accept \/ Overrun
  <2>1. /\ Same /\ matched' = matched /\ stack' = stack /\ at' = at /\ errors' = errors
        /\ pc = "analyzing" /\ pc' \in {"accepted", "undefined"} /\ stack = <<>>
    BY <1>1 DEF Accept, Overrun, Analyzing, textVars, cursorVars
  <2> QED
    BY <2>1 DEF Stays, Rest
<1>2. CASE Rewind \/ RunAction
  <2>1. /\ Round /\ Pop /\ Same /\ matched' = matched /\ pc' = pc /\ at' = at /\ errors' = errors
        /\ pc = "analyzing"
    BY <1>2 DEF Rewind, RunAction, textVars, cursorVars, Round, Analyzing
  <2>2. Top \notin GrammarIds(st)
    <3>1. NonTerminalIds(st) \subseteq Nat /\ TerminalIds(st) \subseteq Nat
          /\ IsSyntaxTable(st)
      BY Types, SymbolNumbers
    <3>2. Top < 0 \/ Top \in ActionIds(st)
      BY <1>2 DEF Rewind, RunAction, IsActionId
    <3>3. Top \in Nat => ~(Top < 0)
      OBVIOUS
    <3> QED
      BY <3>1, <3>2, <3>3, KindsApart DEF GrammarIds
  <2>3. Rest' = Below
    BY <2>1 DEF Rest, Below, Pop
  <2>4. Rest = Below
    BY <2>1, <2>2, RestAtRound
  <2> QED
    BY <2>1, <2>3, <2>4 DEF Stays
<1>3. CASE EatTerminal
  <2>1. /\ Round /\ Pop /\ Same /\ Top \in TerminalIds(st) /\ matched' = Append(matched, Top)
        /\ at' = at + 1 /\ errors' = IF Top # Current THEN errors + 1 ELSE errors
        /\ pc = "analyzing" /\ pc' \in {"analyzing", "thrown"}
    BY <1>3 DEF EatTerminal, IsTerminalId, textVars, Advance, Round, Analyzing
  <2>2. Top \in GrammarIds(st)
    BY <2>1 DEF GrammarIds
  <2>3. Rest = <<Top>> \o Below /\ Below \in Seq(GrammarIds(st))
    BY <2>1, <2>2, RestAtRound
  <2>4. Rest' = Below
    BY <2>1 DEF Rest, Below, Pop
  <2> QED
    BY <2>1, <2>3, <2>4 DEF Eats
<1>4. CASE ApplyProduction
  <2>1. /\ Expanding /\ Round /\ Same /\ HasEntry(st, Top, Current) /\ matched' = matched
        /\ at' = at /\ errors' = errors /\ pc = "analyzing" /\ pc' = pc
    BY <1>4 DEF ApplyProduction, Expanding, Round, Analyzing, textVars, cursorVars
  <2>2. Top \in NonTerminalIds(st) /\ Top \in GrammarIds(st)
    BY <2>1 DEF Expanding, IsNonTerminalId, GrammarIds
  <2>3. Rest = <<Top>> \o Below /\ Below \in Seq(GrammarIds(st))
    BY <2>1, <2>2, RestAtRound
  <2>4. Rest' = HandleOf(st, st.table[<<Top, Current>>]) \o Below
    BY <1>4, ProductionRest
  <2> QED
    BY <2>1, <2>2, <2>3, <2>4 DEF Unfolds
<1>5. CASE ApplyEpsilon \/ EpsilonFirst
  <2>1. /\ Expanding /\ Round /\ Same /\ HasEntry(st, Top, Current) /\ matched' = matched /\ Pop
        /\ Handle(st, Top, Current) = <<>>
        /\ at' = at /\ errors' = errors /\ pc = "analyzing" /\ pc' \in {"analyzing", "aborted"}
    BY <1>5 DEF ApplyEpsilon, EpsilonFirst, Expanding, Round, Analyzing, textVars, cursorVars
  <2>2. Top \in NonTerminalIds(st) /\ Top \in GrammarIds(st)
    BY <2>1 DEF Expanding, IsNonTerminalId, GrammarIds
  <2>3. Rest = <<Top>> \o Below /\ Below \in Seq(GrammarIds(st))
    BY <2>1, <2>2, RestAtRound
  <2>4. HandleOf(st, st.table[<<Top, Current>>]) = <<>>
    BY <2>1, KeptEmpty DEF HandleOf, GrammarSymbols, Handle
  <2>5. Rest' = Below
    BY <2>1 DEF Rest, Below, Pop
  <2>6. <<>> \o Below = Below
    BY <2>3
  <2> QED
    BY <2>1, <2>2, <2>3, <2>4, <2>5, <2>6 DEF Unfolds
<1>6. CASE Reject
  <2>1. /\ Expanding /\ Round /\ Same /\ ~HasEntry(st, Top, Current) /\ matched' = matched
        /\ at' = at /\ stack' = stack /\ errors' = errors + 1
        /\ pc = "analyzing" /\ pc' = "rejected"
    BY <1>6 DEF Reject, Expanding, Round, Analyzing, textVars, cursorVars
  <2>2. Top \in NonTerminalIds(st) /\ Top \in GrammarIds(st)
    BY <2>1 DEF Expanding, IsNonTerminalId, GrammarIds
  <2>3. Rest = <<Top>> \o Below /\ Below \in Seq(GrammarIds(st))
    BY <2>1, <2>2, RestAtRound
  <2>4. Rest' = Rest
    BY <2>1 DEF Rest
  <2> QED
    BY <2>1, <2>2, <2>3, <2>4 DEF Fails
<1>7. CASE UNCHANGED vars
  BY <1>7 DEF vars, textVars, cursorVars, Stays, Rest
<1> QED
  BY <1>0, <1>1, <1>2, <1>3, <1>4, <1>5, <1>6, <1>7 DEF Next

LongestText == MaxWords + 1
KnownOf(t) == Generated(t, LongestText)

\* The text s with the end of file behind it, and its i-th token.
WholeText(t, s) == Append(s, t.eof)
WordAt(t, s, i) == IF i <= Len(s) THEN s[i] ELSE t.eof

\* The terminals m came, the symbols r are still to come, the token a is looked at.
Parsing(t, s, m, r, a, e, q) ==
  /\ EndsWithEof(t, m \o r)
  /\ a = Len(m) + 1
  /\ e = 0 => \A i \in 1..Len(m) : m[i] = WordAt(t, s, i)
  /\ StandsFor(t, LongestText, KnownOf(t), m, r)
  /\ \E nullable, first, follow :
       Predicts(t, nullable, first, follow) /\ InContext(t, nullable, first, follow, r)
  /\ <<t.startSymbol, WholeText(t, s)>> \in KnownOf(t) =>
       /\ q # "rejected" /\ e = 0
       /\ \E w \in Words(KnownOf(t), r, LongestText) : WholeText(t, s) = m \o w

LEMMA KnownIsLanguage ==
  ASSUME NEW t, IsSyntaxTable(t)
  PROVE  LongestText \in Nat /\ LongestText > 0 /\ IsLanguage(t, LongestText, KnownOf(t))
<1>1. LongestText \in Nat /\ LongestText > 0
  BY WordsAssumption DEF LongestText
<1> QED
  BY <1>1, GeneratedIsLanguage DEF KnownOf

LEMMA WholeTextAt ==
  ASSUME NEW t, NEW S, NEW s \in Seq(S), t.eof \in S
  PROVE  /\ WholeText(t, s) \in Seq(S) /\ Len(WholeText(t, s)) = Len(s) + 1
         /\ \A i \in 1..Len(s) + 1 : WholeText(t, s)[i] = WordAt(t, s, i)
<1> DEFINE e == t.eof
<1> HIDE DEF e
<1>1. /\ Append(s, e) \in Seq(S) /\ Len(Append(s, e)) = Len(s) + 1
      /\ \A i \in 1..Len(s) + 1 : Append(s, e)[i] = IF i <= Len(s) THEN s[i] ELSE e
  BY DEF e
<1> QED
  BY <1>1 DEF e, WholeText, WordAt

\* The word w that is still to come starts with the token looked at.
LEMMA NextWord ==
  ASSUME NEW t, IsSyntaxTable(t), NEW S, t.eof \in S, NEW s \in Seq(S),
         NEW T, NEW m \in Seq(T), NEW w \in Seq(T), WholeText(t, s) = m \o w, w # <<>>
  PROVE  w[1] = WordAt(t, s, Len(m) + 1)
<1> DEFINE f == m \o w
<1>1. f \in Seq(T) /\ IsJoined(f, m, w)
  BY ConcatAt
<1>2. Len(w) > 0 /\ Len(w) \in Nat /\ Len(m) \in Nat /\ Len(s) \in Nat
  BY EmptySeq
<1> HIDE DEF f
<1>3. Len(f) = Len(m) + Len(w) /\ f[Len(m) + 1] = w[1]
  BY <1>1, <1>2 DEF IsJoined
<1>4. Len(f) = Len(s) + 1 /\ \A i \in 1..Len(s) + 1 : f[i] = WordAt(t, s, i)
  BY WholeTextAt DEF f
<1>5. Len(m) + 1 \in 1..Len(s) + 1
  BY <1>2, <1>3, <1>4
<1> QED
  BY <1>3, <1>4, <1>5

\* There is such a word while a nonterminal is still to come.
LEMMA WordToCome ==
  ASSUME NEW t, IsSyntaxTable(t), NEW S, t.eof \in S, NEW s \in Seq(S),
         NEW x \in NonTerminalIds(t), NEW m \in Seq(TerminalIds(t)),
         NEW r \in Seq(GrammarIds(t)), EndsWithEof(t, m \o (<<x>> \o r)),
         NEW w \in Seq(TerminalIds(t)), WholeText(t, s) = m \o w
  PROVE  w # <<>>
<1> DEFINE y == <<x>>
           f == m \o (y \o r)
           G == GrammarIds(t)
<1>1. y \in Seq(G) /\ r \in Seq(G) /\ m \in Seq(G) /\ Len(y) = 1
  BY DEF GrammarIds
<1> HIDE DEF y, G
<1>2. f \in Seq(G) /\ IsThreeJoined(f, m, y, r)
  BY <1>1, ThreeJoined
<1> HIDE DEF f
<1>3. Len(m) \in Nat /\ Len(r) \in Nat /\ Len(s) \in Nat
  OBVIOUS
<1>4. DOMAIN f = 1..Len(f) /\ Len(f) = Len(m) + 1 + Len(r) /\ \A i \in 1..Len(m) : f[i] = m[i]
  BY <1>1, <1>2 DEF IsThreeJoined
<1> SUFFICES ASSUME w = <<>> PROVE FALSE
  OBVIOUS
<1>5. WholeText(t, s) = m
  OBVIOUS
<1>6. Len(m) = Len(s) + 1 /\ m[Len(m)] = t.eof
  <2>1. Len(s) + 1 \in 1..Len(s) + 1 /\ ~(Len(s) + 1 <= Len(s))
    BY <1>3
  <2> QED
    BY <1>5, <2>1, WholeTextAt DEF WordAt
<1>7. Len(m) \in 1..Len(m) /\ Len(m) \in 1..Len(f) /\ Len(m) # Len(f) /\ Len(f) # 1
  BY <1>3, <1>4, <1>6
<1>8. f # <<t.startSymbol>>
  BY <1>7
<1> QED
  BY <1>4, <1>6, <1>7, <1>8 DEF EndsWithEof, f, y

LEMMA ParsingEats ==
  ASSUME NEW t, IsSyntaxTable(t), NEW s \in Seq(TerminalIds(t) \cup {Unrecognized}),
         NEW m \in Seq(TerminalIds(t)), NEW x \in TerminalIds(t), NEW r \in Seq(GrammarIds(t)),
         NEW a, NEW e \in Nat, NEW q, Parsing(t, s, m, <<x>> \o r, a, e, q),
         NEW d, d = IF x # WordAt(t, s, a) THEN e + 1 ELSE e,
         NEW z, z # "rejected"
  PROVE  Parsing(t, s, Append(m, x), r, a + 1, d, z)
<1> DEFINE n == LongestText
           K == KnownOf(t)
           T == TerminalIds(t)
           g == Append(m, x)
           y == <<x>>
<1>1. n \in Nat /\ IsLanguage(t, n, K)
  BY KnownIsLanguage
<1>2. /\ g \in Seq(T) /\ Len(g) = Len(m) + 1 /\ g[Len(m) + 1] = x /\ Len(m) \in Nat
      /\ \A i \in 1..Len(m) : g[i] = m[i]
  OBVIOUS
<1>3. y \in Seq(T) /\ g = m \o y /\ x \in GrammarIds(t)
  BY DEF GrammarIds
<1>4. a = Len(m) + 1
  BY DEF Parsing
<1> HIDE DEF g, y, n, K
<1>5. EndsWithEof(t, g \o r)
  <2>1. m \in Seq(GrammarIds(t)) /\ y \in Seq(GrammarIds(t))
    BY <1>3 DEF GrammarIds
  <2>2. g \o r = m \o (y \o r)
    BY <1>3, <2>1, ConcatAssociative, SMTT(30)
  <2> QED
    BY <2>2 DEF Parsing, y
<1>6. d = 0 => \A i \in 1..Len(g) : g[i] = WordAt(t, s, i)
  <2> SUFFICES ASSUME d = 0, NEW i \in 1..Len(g) PROVE g[i] = WordAt(t, s, i)
    OBVIOUS
  <2>1. e = 0 /\ x = WordAt(t, s, a)
    OBVIOUS
  <2>2. \A k \in 1..Len(m) : m[k] = WordAt(t, s, k)
    BY <2>1 DEF Parsing
  <2>3. i \in 1..Len(m) \/ i = Len(m) + 1
    BY <1>2
  <2> QED
    BY <1>2, <1>4, <2>1, <2>2, <2>3
<1>7. StandsFor(t, n, K, g, r)
  <2>1. StandsFor(t, n, K, m, <<x>> \o r)
    BY DEF Parsing, n, K
  <2> QED
    BY <1>1, <2>1, StandsEaten DEF g
<1>8. \E nullable, first, follow :
        Predicts(t, nullable, first, follow) /\ InContext(t, nullable, first, follow, r)
  <2>1. PICK nullable, first, follow :
          Predicts(t, nullable, first, follow) /\ InContext(t, nullable, first, follow, <<x>> \o r)
    BY DEF Parsing
  <2>2. InContext(t, nullable, first, follow, r)
    BY <1>3, <2>1, ContextOfTail
  <2> QED
    BY <2>1, <2>2
<1>9. ASSUME <<t.startSymbol, WholeText(t, s)>> \in K
      PROVE  d = 0 /\ \E w \in Words(K, r, n) : WholeText(t, s) = g \o w
  <2>1. e = 0
    BY <1>9 DEF Parsing, K
  <2>2. PICK w \in Words(K, <<x>> \o r, n) : WholeText(t, s) = m \o w
    BY <1>9 DEF Parsing, K, n
  <2>3. PICK v \in Words(K, r, n) : v \in Seq(T) /\ w = y \o v
    <3>1. HeadAndRest(t, n, K, x, r, w)
      BY <1>1, <1>3, <2>2, HeadWord
    <3>2. PICK u \in Seq(T), v \in Seq(T) : w = u \o v /\ <<x, u>> \in K /\ v \in Words(K, r, n)
      BY <3>1 DEF HeadAndRest
    <3>3. u = y
      BY <1>1, <3>2 DEF IsLanguage, y
    <3> QED
      BY <3>2, <3>3
  <2>4. w \in Seq(T) /\ w # <<>> /\ w[1] = x
    BY <2>3 DEF y
  <2>5. w[1] = WordAt(t, s, Len(m) + 1)
    <3> DEFINE S == T \cup {Unrecognized}
    <3>1. t.eof \in S /\ s \in Seq(S)
      BY DEF IsSyntaxTable
    <3> HIDE DEF S
    <3> QED
      BY ONLY IsSyntaxTable(t), m \in Seq(TerminalIds(t)), <2>2, <2>4, <3>1, NextWord, ZenonT(60)
  <2>6. d = 0
    BY <1>4, <2>1, <2>4, <2>5
  <2>7. WholeText(t, s) = g \o v
    <3>1. (m \o y) \o v = m \o (y \o v)
      BY ONLY m \in Seq(TerminalIds(t)), <1>3, <2>3, ConcatAssociative, SMTT(30)
    <3> QED
      BY ONLY <1>3, <2>2, <2>3, <3>1
  <2> QED
    BY <2>6, <2>7
<1>10. a + 1 = Len(g) + 1
  BY <1>2, <1>4
<1> QED
  BY <1>5, <1>6, <1>7, <1>8, <1>9, <1>10 DEF Parsing, n, K, g

LEMMA ParsingExpands ==
  ASSUME NEW t, IsSyntaxTable(t), EofEndsSentences(t),
         NEW s \in Seq(TerminalIds(t) \cup {Unrecognized}),
         NEW m \in Seq(TerminalIds(t)), NEW x \in NonTerminalIds(t), NEW r \in Seq(GrammarIds(t)),
         NEW a, NEW e \in Nat, NEW q, Parsing(t, s, m, <<x>> \o r, a, e, q)
  PROVE  LET c == WordAt(t, s, a)
             p == t.table[<<x, c>>]
         IN  /\ HasEntry(t, x, c) =>
                  \A z : z # "rejected" => Parsing(t, s, m, HandleOf(t, p) \o r, a, e, z)
             /\ ~HasEntry(t, x, c) => <<t.startSymbol, WholeText(t, s)>> \notin KnownOf(t)
<1> DEFINE n == LongestText
           K == KnownOf(t)
           T == TerminalIds(t)
           y == <<x>>
           c == WordAt(t, s, a)
           p == t.table[<<x, c>>]
<1>1. n \in Nat /\ IsLanguage(t, n, K)
  BY KnownIsLanguage
<1>2. a = Len(m) + 1 /\ EndsWithEof(t, m \o (<<x>> \o r))
  BY DEF Parsing
<1> HIDE DEF n, K
<1>3. PICK nullable, first, follow :
        Predicts(t, nullable, first, follow) /\ InContext(t, nullable, first, follow, <<x>> \o r)
  BY DEF Parsing
<1>4. ASSUME <<t.startSymbol, WholeText(t, s)>> \in K
      PROVE  /\ HasEntry(t, x, c)
             /\ e = 0
             /\ \E w \in Words(K, HandleOf(t, p) \o r, n) : WholeText(t, s) = m \o w
  <2>1. e = 0
    BY <1>4 DEF Parsing, K
  <2>2. PICK w \in Words(K, <<x>> \o r, n) : WholeText(t, s) = m \o w
    BY <1>4 DEF Parsing, K, n
  <2>3. w \in Seq(T)
    <3> DEFINE f == <<x>> \o r
    <3>1. Spells(K, T)
      BY <1>1, LanguageSpells
    <3>2. f \in Seq(GrammarIds(t))
      <4>1. <<x>> \in Seq(GrammarIds(t))
        BY DEF GrammarIds
      <4> QED
        BY <4>1
    <3> HIDE DEF f
    <3>3. \A v \in Words(K, f, n) : v \in Seq(T)
      BY <1>1, <3>1, <3>2, WordsType
    <3> QED
      BY <3>3 DEF f
  <2> DEFINE S == T \cup {Unrecognized}
  <2>4. t.eof \in S /\ s \in Seq(S)
    BY DEF IsSyntaxTable
  <2> HIDE DEF S
  <2>5. w # <<>>
    BY ONLY IsSyntaxTable(t), x \in NonTerminalIds(t), m \in Seq(TerminalIds(t)),
            r \in Seq(GrammarIds(t)), <1>2, <2>2, <2>3, <2>4, WordToCome
  <2>6. w[1] = c
    <3>1. w[1] = WordAt(t, s, Len(m) + 1)
      BY ONLY IsSyntaxTable(t), m \in Seq(TerminalIds(t)), <2>2, <2>3, <2>4, <2>5, NextWord, ZenonT(60)
    <3> QED
      BY <1>2, <3>1
  <2>7. HasEntry(t, x, w[1]) /\ w \in Words(K, HandleOf(t, t.table[<<x, w[1]>>]) \o r, n)
    BY <1>1, <1>3, <2>2, <2>5, PredictsHandle
  <2> QED
    BY <2>1, <2>2, <2>6, <2>7
<1>5. ASSUME HasEntry(t, x, c), NEW z, z # "rejected"
      PROVE  Parsing(t, s, m, HandleOf(t, p) \o r, a, e, z)
  <2>1. p \in DOMAIN t.productions /\ x = t.productionNames[p]
    BY <1>5 DEF HasEntry, IsSyntaxTable
  <2> HIDE DEF p
  <2>2. EndsWithEof(t, m \o (HandleOf(t, p) \o r))
    BY <1>2, <2>1, EofExpands
  <2>3. StandsFor(t, n, K, m, HandleOf(t, p) \o r)
    <3>1. StandsFor(t, n, K, m, <<x>> \o r)
      BY DEF Parsing, n, K
    <3> QED
      BY <1>1, <2>1, <3>1, StandsExpanded
  <2>4. InContext(t, nullable, first, follow, HandleOf(t, p) \o r)
    BY <1>3, <2>1, ContextExpands
  <2>5. e = 0 => \A i \in 1..Len(m) : m[i] = WordAt(t, s, i)
    BY DEF Parsing
  <2> DEFINE h == HandleOf(t, p) \o r
  <2>6. ASSUME <<t.startSymbol, WholeText(t, s)>> \in K
        PROVE  e = 0 /\ \E w \in Words(K, h, n) : WholeText(t, s) = m \o w
    BY <1>4, <2>6 DEF p
  <2> HIDE DEF h
  <2>7. Parsing(t, s, m, h, a, e, z)
    BY <1>2, <1>3, <1>5, <2>2, <2>3, <2>4, <2>5, <2>6 DEF Parsing, n, K, h
  <2> QED
    BY <2>7 DEF h
<1> QED
  BY <1>4, <1>5 DEF K

\* What was accepted without a report is the text.
LEMMA ParsingEnds ==
  ASSUME NEW t, IsSyntaxTable(t), NEW s \in Seq(TerminalIds(t) \cup {Unrecognized}),
         Len(s) <= MaxWords, \A i \in 1..Len(s) : s[i] # t.eof,
         NEW m \in Seq(TerminalIds(t)), NEW a, NEW q, Parsing(t, s, m, <<>>, a, 0, q)
  PROVE  <<t.startSymbol, WholeText(t, s)>> \in KnownOf(t)
<1> DEFINE n == LongestText
           K == KnownOf(t)
           T == TerminalIds(t)
           f == WholeText(t, s)
<1>1. n \in Nat /\ IsLanguage(t, n, K)
  BY KnownIsLanguage
<1>2. m \o <<>> = m
  OBVIOUS
<1>3. Len(m) \in Nat /\ Len(s) \in Nat /\ DOMAIN m = 1..Len(m)
  OBVIOUS
<1>4. m # <<t.startSymbol>>
  <2>1. t.startSymbol \notin T
    BY IdsApart DEF IsSyntaxTable
  <2> SUFFICES ASSUME m = <<t.startSymbol>> PROVE FALSE
    OBVIOUS
  <2>2. 1 \in 1..Len(m) /\ m[1] = t.startSymbol
    OBVIOUS
  <2>3. m[1] \in T
    BY <2>2
  <2> QED
    BY <2>1, <2>2, <2>3
<1>5. m # <<>> /\ \A i \in 1..Len(m) : m[i] = t.eof <=> i = Len(m)
  BY <1>2, <1>3, <1>4 DEF Parsing, EndsWithEof
<1>6. \A i \in 1..Len(m) : m[i] = WordAt(t, s, i)
  BY DEF Parsing
<1>7. Len(m) > 0
  <2>1. m \in Seq(T) /\ m # <<>> /\ Len(m) \in Nat
    BY <1>3, <1>5
  <2> QED
    BY ONLY <2>1, EmptySeq
<1>8. Len(m) > Len(s)
  <2>1. Len(m) \in 1..Len(m)
    BY <1>3, <1>7
  <2>2. m[Len(m)] = t.eof /\ m[Len(m)] = WordAt(t, s, Len(m))
    BY <1>5, <1>6, <2>1
  <2>3. Len(m) <= Len(s) => Len(m) \in 1..Len(s)
    BY <1>3, <2>1
  <2>4. Len(m) <= Len(s) => WordAt(t, s, Len(m)) # t.eof
    BY <2>3 DEF WordAt
  <2> QED
    BY <1>3, <2>2, <2>4
<1>9. Len(m) = Len(s) + 1
  <2>1. Len(s) + 1 \in 1..Len(m)
    BY <1>3, <1>8
  <2>2. ~(Len(s) + 1 <= Len(s))
    BY <1>3
  <2>3. m[Len(s) + 1] = t.eof
    BY <1>6, <2>1, <2>2 DEF WordAt
  <2> QED
    BY <1>5, <2>1, <2>3
<1>10. m = f
  <2> DEFINE S == T \cup {Unrecognized}
  <2>1. t.eof \in S /\ s \in Seq(S) /\ m \in Seq(S)
    BY DEF IsSyntaxTable
  <2> HIDE DEF S, f
  <2>2. /\ f \in Seq(S) /\ Len(f) = Len(s) + 1
        /\ \A i \in 1..Len(s) + 1 : f[i] = WordAt(t, s, i)
    BY <2>1, WholeTextAt DEF f
  <2>3. Len(m) = Len(f) /\ \A i \in 1..Len(m) : m[i] = f[i]
    BY <1>6, <1>9, <2>2
  <2> QED
    BY <2>1, <2>2, <2>3, SeqEqual
<1>11. <<>> \in Words(K, <<>>, n)
  <2>1. Spells(K, T)
    BY <1>1, LanguageSpells
  <2>2. Words(K, <<>>, n) = {<<>>}
    BY <2>1, WordsEmpty
  <2> QED
    BY <2>2
<1>12. Len(m \o <<>>) <= n
  BY <1>2, <1>3, <1>9, WordsAssumption DEF LongestText
<1>13. StandsFor(t, n, K, m, <<>>)
  BY DEF Parsing
<1>14. <<t.startSymbol, m \o <<>>>> \in K
  BY <1>11, <1>12, <1>13 DEF StandsFor
<1> QED
  BY <1>2, <1>10, <1>14

\* The text is one that is considered.
TextTaken ==
  /\ st \in Tables
  /\ Len(input) <= MaxWords
  /\ \A i \in 1..Len(input) : input[i] # st.eof

\* The parse, between the symbols that came and those still to come.
Parses ==
  /\ TextTaken /\ MatchedTerminals
  /\ NothingPushed => errors = 0
  /\ pc = "begin" => matched = <<>>
  /\ pc = "accepted" => stack = <<>>
  /\ ~NothingPushed => Parsing(st, input, matched, Rest, at, errors, pc)

\* The tables are those of grammars whose sentences end with the end-of-file token, and
\* have an entry for what may come next.
TablesPredict ==
  \A t \in Tables :
    EofEndsSentences(t) /\ \E nullable, first, follow : Predicts(t, nullable, first, follow)

LEMMA InitParses == Init => Parses
<1> SUFFICES ASSUME Init PROVE Parses
  OBVIOUS
<1> DEFINE words == TerminalIds(st) \ {st.eof}
<1>1. IsSyntaxTable(st) /\ st \in Tables /\ MaxWords \in Nat
  BY TablesAssumption, WordsAssumption DEF Init
<1>2. \/ input \in BoundedSeq(words, MaxWords)
      \/ \E s \in BoundedSeq(words, MaxWords - 1) : input = Append(s, Unrecognized)
  BY DEF Init, Texts
<1>3. CASE input \in BoundedSeq(words, MaxWords)
  <2>1. input \in Seq(words) /\ Len(input) <= MaxWords
    BY <1>1, <1>3, BoundedSeqMember
  <2>2. \A i \in 1..Len(input) : input[i] # st.eof
    BY <2>1
  <2> QED
    BY <1>1, <2>1, <2>2 DEF Init, Parses, TextTaken, MatchedTerminals, NothingPushed
<1>4. CASE \E s \in BoundedSeq(words, MaxWords - 1) : input = Append(s, Unrecognized)
  <2>1. PICK s \in BoundedSeq(words, MaxWords - 1) : input = Append(s, Unrecognized)
    BY <1>4
  <2>2. PICK k \in 0..MaxWords - 1 : s \in [1..k -> words]
    BY <2>1 DEF BoundedSeq, SeqOf
  <2>3. s \in Seq(words) /\ Len(s) = k /\ k + 1 <= MaxWords /\ k \in Nat
    BY <1>1, <2>2
  <2>4. Len(input) = Len(s) + 1
        /\ \A i \in 1..Len(input) : input[i] = Unrecognized \/ input[i] \in words
    BY <2>1, <2>3
  <2>5. st.eof # Unrecognized
    BY <1>1, SymbolNumbers, SMTT(30) DEF IsSyntaxTable, Unrecognized
  <2>6. Len(input) <= MaxWords /\ \A i \in 1..Len(input) : input[i] # st.eof
    BY <1>1, <2>3, <2>4, <2>5
  <2> QED
    BY <1>1, <2>6 DEF Init, Parses, TextTaken, MatchedTerminals, NothingPushed
<1> QED
  BY <1>2, <1>3, <1>4

\* Where the start symbol has been pushed and nothing has come.
LEMMA ParsingStarts ==
  ASSUME NEW t, IsSyntaxTable(t),
         \E nullable, first, follow : Predicts(t, nullable, first, follow),
         NEW s \in Seq(TerminalIds(t) \cup {Unrecognized})
  PROVE  Parsing(t, s, <<>>, <<t.startSymbol>>, 1, 0, "analyzing")
<1> DEFINE n == LongestText
           K == KnownOf(t)
           T == TerminalIds(t)
           x == t.startSymbol
<1>1. n \in Nat /\ IsLanguage(t, n, K)
  BY KnownIsLanguage
<1>2. Spells(K, T)
  BY <1>1, LanguageSpells
<1> HIDE DEF n, K
<1>3. Words(K, <<x>>, n) = {w \in Meanings(K, x) : Len(w) <= n}
  BY <1>1, <1>2, WordsSingle
<1>4. \A w \in Meanings(K, x) : <<x, w>> \in K /\ w \in Seq(T)
  <2>1. \A k \in K : k = <<k[1], k[2]>>
    BY <1>1 DEF IsLanguage, Pairs
  <2> QED
    BY <1>2, <2>1 DEF Meanings, Spells
<1>5. \A w : <<x, w>> \in K => w \in Meanings(K, x) /\ Len(w) <= n
  <2> SUFFICES ASSUME NEW w, <<x, w>> \in K PROVE w \in Meanings(K, x) /\ Len(w) <= n
    OBVIOUS
  <2>1. w \in BoundedSeq(T, n)
    BY <1>1 DEF IsLanguage, Pairs
  <2>2. Len(w) <= n
    BY <1>1, <2>1, BoundedSeqMember
  <2>3. <<x, w>>[1] = x /\ <<x, w>>[2] = w
    OBVIOUS
  <2> QED
    BY <2>2, <2>3 DEF Meanings
<1>6. \A w \in Seq(T) : <<>> \o w = w
  OBVIOUS
<1>7. StandsFor(t, n, K, <<>>, <<x>>)
  BY <1>3, <1>4, <1>6 DEF StandsFor
<1>8. EndsWithEof(t, <<>> \o <<x>>)
  BY DEF EndsWithEof
<1>9. ASSUME <<x, WholeText(t, s)>> \in K
      PROVE  \E w \in Words(K, <<x>>, n) : WholeText(t, s) = <<>> \o w
  <2>1. WholeText(t, s) \in Words(K, <<x>>, n)
    BY <1>3, <1>5, <1>9
  <2>2. WholeText(t, s) \in Seq(T)
    BY <1>3, <1>4, <2>1
  <2> QED
    BY <1>6, <2>1, <2>2
<1>10. 1 = Len(<<>>) + 1 /\ \A i \in 1..Len(<<>>) : FALSE
  OBVIOUS
<1>11. \E nullable, first, follow :
         Predicts(t, nullable, first, follow) /\ InContext(t, nullable, first, follow, <<x>>)
  BY ContextOfOne
<1> QED
  BY <1>7, <1>8, <1>9, <1>10, <1>11 DEF Parsing, n, K

LEMMA BeginParses == TablesPredict /\ IInv /\ Parses /\ Begin => Parses'
<1> SUFFICES ASSUME TablesPredict, IInv, Parses, Begin PROVE Parses'
  OBVIOUS
<1>1. /\ pc = "begin" /\ matched = <<>> /\ matched' = <<>> /\ errors = 0 /\ errors' = 0
      /\ st' = st /\ input' = input /\ at' = 1
  BY DEF Begin, Parses, NothingPushed, textVars
<1>2. TextTaken' /\ MatchedTerminals'
  BY <1>1 DEF Parses, TextTaken, MatchedTerminals
<1>3. CASE TokenAt(1) = Unrecognized
  <2>1. pc' = "thrown" /\ NothingPushed'
    BY <1>1, <1>3 DEF Begin, NothingPushed
  <2> QED
    BY <1>1, <1>2, <2>1 DEF Parses
<1>4. CASE TokenAt(1) # Unrecognized
  <2>1. pc' = "analyzing" /\ stack' = <<st.startSymbol>>
    BY <1>4 DEF Begin
  <2>2. Rest' = <<st.startSymbol>>
    <3>1. st.startSymbol \in NonTerminalIds(st)
      BY Types DEF IsSyntaxTable
    <3>2. Reverse(stack') = <<st.startSymbol>>
      BY <2>1, ReverseSingle
    <3>3. GrammarSymbols(st, <<st.startSymbol>>) = <<st.startSymbol>>
      BY <3>1, KeptSingle DEF GrammarSymbols
    <3> QED
      BY <1>1, <3>2, <3>3 DEF Rest
  <2>3. Parsing(st, input, <<>>, <<st.startSymbol>>, 1, 0, "analyzing")
    <3>1. \E nullable, first, follow : Predicts(st, nullable, first, follow)
      BY DEF TablesPredict, Parses, TextTaken
    <3>2. IsSyntaxTable(st) /\ input \in Seq(TerminalIds(st) \cup {Unrecognized})
      BY DEF IInv, TypeOK
    <3> QED
      BY <3>1, <3>2, ParsingStarts
  <2>4. Parsing(st', input', matched', Rest', at', errors', pc')
    BY <1>1, <2>1, <2>2, <2>3
  <2> QED
    BY <1>1, <1>2, <2>1, <2>4 DEF Parses
<1> QED
  BY <1>3, <1>4

\* Where the parse goes on.
LEMMA ParsesOn ==
  ASSUME Parses, st' = st, input' = input, MatchedTerminals', pc' # "begin",
         pc' = "accepted" => stack' = <<>>,
         pc' = "thrown" => matched' # <<>> \/ NothingPushed,
         NothingPushed => UNCHANGED <<pc, matched, errors>>,
         ~NothingPushed => Parsing(st, input, matched', Rest', at', errors', pc')
  PROVE  Parses'
<1>1. TextTaken'
  BY DEF Parses, TextTaken
<1>2. CASE NothingPushed
  <2>1. NothingPushed' /\ errors' = 0
    BY <1>2 DEF NothingPushed, Parses
  <2> QED
    BY <1>1, <2>1 DEF Parses
<1>3. CASE ~NothingPushed
  <2>1. ~NothingPushed'
    BY <1>3 DEF NothingPushed
  <2>2. Parsing(st', input', matched', Rest', at', errors', pc')
    BY <1>3
  <2> QED
    BY <1>1, <2>1, <2>2 DEF Parses
<1> QED
  BY <1>2, <1>3

LEMMA NextParses == TablesPredict /\ IInv /\ Parses /\ [Next]_vars => Parses'
<1> SUFFICES ASSUME TablesPredict, IInv, Parses, [Next]_vars PROVE Parses'
  OBVIOUS
<1>1. CASE pc = "begin"
  <2>1. Begin \/ UNCHANGED vars
    BY <1>1 DEF Next, Accept, Overrun, Rewind, EatTerminal, RunAction, ApplyProduction,
                ApplyEpsilon, EpsilonFirst, Reject, Expanding, Round, Analyzing
  <2>2. ASSUME UNCHANGED vars PROVE Parses'
    BY <2>2 DEF vars, textVars, cursorVars, Parses, TextTaken, MatchedTerminals, NothingPushed, Rest
  <2> QED
    BY <2>1, <2>2, BeginParses
<1>2. CASE pc # "begin"
  <2> DEFINE T == TerminalIds(st)
  <2>1. /\ IsSyntaxTable(st) /\ input \in Seq(T \cup {Unrecognized})
        /\ matched \in Seq(T) /\ errors \in Nat /\ EofEndsSentences(st)
    BY DEF IInv, TypeOK, Parses, MatchedTerminals, TextTaken, TablesPredict
  <2>2. Current = WordAt(st, input, at)
    BY DEF Current, TokenAt, WordAt
  <2>3. pc # "thrown" => Parsing(st, input, matched, Rest, at, errors, pc)
    BY <1>2 DEF Parses, NothingPushed
  <2>4. st' = st /\ input' = input
    BY <1>2, Moves
  <2>5. CASE /\ Stays
             /\ pc' # pc => pc = "analyzing" /\ pc' \in {"accepted", "undefined"}
             /\ pc' = "accepted" => stack' = <<>> \/ pc = "accepted"
             /\ pc' = pc => stack' = stack \/ pc = "analyzing"
    <3>1. MatchedTerminals'
      BY <2>1, <2>4, <2>5 DEF Stays, MatchedTerminals
    <3>2. pc' = "accepted" => stack' = <<>>
      BY <2>5 DEF Parses
    <3>3. ~NothingPushed => Parsing(st, input, matched', Rest', at', errors', pc')
      <4>1. ~NothingPushed => Parsing(st, input, matched, Rest, at, errors, pc)
        BY DEF Parses
      <4>2. pc' = "rejected" => pc = "rejected"
        BY <2>5
      <4> QED
        BY <2>5, <4>1, <4>2 DEF Stays, Parsing
    <3>4. pc' # "begin" /\ (pc' = "thrown" => matched' # <<>> \/ NothingPushed)
      BY <1>2, <2>5 DEF NothingPushed, Stays
    <3>5. NothingPushed => UNCHANGED <<pc, matched, errors>>
      BY <1>2, <2>5 DEF NothingPushed, Stays
    <3> QED
      BY <2>4, <3>1, <3>2, <3>3, <3>4, <3>5, ParsesOn
  <2>6. CASE Eats /\ pc = "analyzing" /\ pc' \in {"analyzing", "thrown"}
    <3>1. PICK a \in T, r \in Seq(GrammarIds(st)) :
            /\ Rest = <<a>> \o r /\ Rest' = r
            /\ matched' = Append(matched, a) /\ at' = at + 1
            /\ errors' = IF a # Current THEN errors + 1 ELSE errors
      BY <2>6 DEF Eats
    <3>2. ~NothingPushed
      BY <2>6 DEF NothingPushed
    <3>3. Parsing(st, input, matched, <<a>> \o r, at, errors, pc)
      BY <2>3, <2>6, <3>1
    <3>4. pc' # "rejected"
      BY <2>6
    <3>5. errors' = IF a # WordAt(st, input, at) THEN errors + 1 ELSE errors
      BY <2>2, <3>1
    <3>6. Parsing(st, input, Append(matched, a), r, at + 1, errors', pc')
      BY ONLY <2>1, <3>3, <3>4, <3>5, r \in Seq(GrammarIds(st)), a \in T, ParsingEats
    <3>7. matched' \in Seq(T) /\ matched' # <<>>
      BY <2>1, <3>1
    <3>8. MatchedTerminals'
      BY <2>4, <3>7 DEF MatchedTerminals
    <3> QED
      BY <2>4, <2>6, <3>1, <3>2, <3>6, <3>7, <3>8, ParsesOn
  <2>7. CASE Unfolds /\ pc = "analyzing" /\ pc' \in {"analyzing", "aborted"}
    <3>1. PICK x \in NonTerminalIds(st), r \in Seq(GrammarIds(st)) :
            /\ HasEntry(st, x, Current)
            /\ Rest = <<x>> \o r /\ Rest' = HandleOf(st, st.table[<<x, Current>>]) \o r
            /\ matched' = matched /\ at' = at /\ errors' = errors
      BY <2>7 DEF Unfolds
    <3>2. ~NothingPushed
      BY <2>7 DEF NothingPushed
    <3>3. Parsing(st, input, matched, <<x>> \o r, at, errors, pc)
      BY <2>3, <2>7, <3>1
    <3>4. pc' # "rejected"
      BY <2>7
    <3> DEFINE c == WordAt(st, input, at)
    <3>5. HasEntry(st, x, c) /\ Rest' = HandleOf(st, st.table[<<x, c>>]) \o r
      BY <2>2, <3>1
    <3>6. Parsing(st, input, matched, HandleOf(st, st.table[<<x, c>>]) \o r, at, errors, pc')
      BY ONLY <2>1, <3>3, <3>4, <3>5, r \in Seq(GrammarIds(st)), x \in NonTerminalIds(st),
              ParsingExpands
    <3>7. MatchedTerminals'
      BY <2>1, <2>4, <3>1 DEF MatchedTerminals
    <3> QED
      BY <2>4, <2>7, <3>1, <3>2, <3>5, <3>6, <3>7, ParsesOn
  <2>8. CASE Fails /\ pc = "analyzing"
    <3>1. PICK x \in NonTerminalIds(st), r \in Seq(GrammarIds(st)) :
            /\ ~HasEntry(st, x, Current)
            /\ Rest = <<x>> \o r /\ Rest' = Rest
            /\ matched' = matched /\ at' = at /\ errors' = errors + 1 /\ pc' = "rejected"
      BY <2>8 DEF Fails
    <3>2. ~NothingPushed
      BY <2>8 DEF NothingPushed
    <3>3. Parsing(st, input, matched, <<x>> \o r, at, errors, pc)
      BY <2>3, <2>8, <3>1
    <3>4. ~HasEntry(st, x, WordAt(st, input, at))
      BY <2>2, <3>1
    <3>5. <<st.startSymbol, WholeText(st, input)>> \notin KnownOf(st)
      BY ONLY <2>1, <3>3, <3>4, r \in Seq(GrammarIds(st)), x \in NonTerminalIds(st),
              ParsingExpands
    <3>6. Parsing(st, input, matched, <<x>> \o r, at, errors', pc')
      <4>1. errors' = 0 => errors = 0
        BY <2>1, <3>1
      <4> QED
        BY <3>3, <3>5, <4>1 DEF Parsing
    <3>7. MatchedTerminals'
      BY <2>1, <2>4, <3>1 DEF MatchedTerminals
    <3> QED
      BY <2>4, <3>1, <3>2, <3>6, <3>7, ParsesOn
  <2> QED
    BY <1>2, <2>5, <2>6, <2>7, <2>8, Moves
<1> QED
  BY <1>1, <1>2

LEMMA ParsesDecide == IInv /\ Parses => ParsesTheLanguage
<1> SUFFICES ASSUME IInv, Parses PROVE ParsesTheLanguage
  OBVIOUS
<1>1. /\ IsSyntaxTable(st) /\ input \in Seq(TerminalIds(st) \cup {Unrecognized})
      /\ matched \in Seq(TerminalIds(st)) /\ st \in Tables
  BY DEF IInv, TypeOK, Parses, MatchedTerminals, TextTaken
<1>2. Sentence <=> <<st.startSymbol, WholeText(st, input)>> \in KnownOf(st)
  <2>1. Sentences[st] = Meanings(KnownOf(st), st.startSymbol)
    BY <1>1 DEF Sentences, KnownOf, LongestText
  <2>2. \A k \in KnownOf(st) : k = <<k[1], k[2]>>
    BY <1>1, KnownIsLanguage DEF IsLanguage, Pairs
  <2> DEFINE K == KnownOf(st)
             x == st.startSymbol
  <2> HIDE DEF K, x
  <2>3. \A w : w \in Meanings(K, x) <=> <<x, w>> \in K
    BY <2>2 DEF Meanings, K
  <2> QED
    BY <2>1, <2>3 DEF Sentence, WholeText, K, x
<1>3. errors > 0 \/ pc = "rejected" => ~NothingPushed
  BY DEF Parses, NothingPushed
<1>4. ASSUME errors > 0 \/ pc = "rejected" PROVE ~Sentence
  <2>1. Parsing(st, input, matched, Rest, at, errors, pc)
    BY <1>3, <1>4 DEF Parses
  <2>2. errors > 0 => errors # 0
    OBVIOUS
  <2> QED
    BY <1>2, <1>4, <2>1, <2>2 DEF Parsing
<1>5. ASSUME pc = "accepted", errors = 0 PROVE Sentence
  <2>1. Parsing(st, input, matched, Rest, at, errors, pc) /\ stack = <<>>
    BY <1>5 DEF Parses, NothingPushed
  <2>2. Rest = <<>>
    <3>1. <<>> \in Seq(Int) /\ Len(<<>>) = 0
      OBVIOUS
    <3>2. Reverse(<<>>) \in Seq(Int) /\ Len(Reverse(<<>>)) = 0
      BY <3>1, ReverseType
    <3>3. Reverse(<<>>) = <<>>
      BY <3>2, EmptySeq
    <3> QED
      BY <2>1, <3>3, KeptEmpty DEF Rest, GrammarSymbols
  <2>3. Parsing(st, input, matched, <<>>, at, 0, pc)
    BY <1>5, <2>1, <2>2
  <2>4. Len(input) <= MaxWords /\ \A i \in 1..Len(input) : input[i] # st.eof
    BY DEF Parses, TextTaken
  <2> QED
    BY <1>1, <1>2, <2>3, <2>4, ParsingEnds
<1> QED
  BY <1>4, <1>5 DEF ParsesTheLanguage

\* analyze() (Analyzer-inl.h:55-130) decides its grammar's language, for every table that
\* predicts (as construct()'s do, TablePredicts of GrammarProofs) and every text of at most
\* MaxWords words: it reports no error in a sentence, and a text it accepts without a
\* report is one.  Sentences are what the productions generate, whatever analyze() does.
THEOREM DecidesLanguage == TablesPredict => (Spec => []ParsesTheLanguage)
<1> SUFFICES ASSUME TablesPredict PROVE Spec => []ParsesTheLanguage
  OBVIOUS
<1>1. Init => Parses
  BY InitParses
<1>2. IInv /\ Parses /\ [Next]_vars => Parses'
  BY NextParses
<1>3. IInv /\ Parses => ParsesTheLanguage
  BY ParsesDecide
<1> QED
  BY <1>1, <1>2, <1>3, InitIInv, Inductive, PTL DEF Spec

=============================================================================
