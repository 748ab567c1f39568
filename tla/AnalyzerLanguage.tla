--------------------------- MODULE AnalyzerLanguage ---------------------------
(***************************************************************************)
(* The analyzer against the language of its grammar.                       *)
(***************************************************************************)
EXTENDS Analyzer

\* The words of at most n symbols that are one of U and one of V behind it.
Joined(U, V, n) == {w \in {u \o v : u \in U, v \in V} : Len(w) <= n}

\* What x stands for, if known holds pairs of a symbol and a word it stands for.
Meanings(known, x) == {k[2] : k \in {k \in known : k[1] = x}}

\* The words of at most n symbols that the sequence s of symbols stands for.
Words(known, s, n) ==
  LET words[i \in 0..Len(s)] ==
        IF i = 0 THEN {<<>>} ELSE Joined(words[i - 1], Meanings(known, s[i]), n)
  IN  words[Len(s)]

\* The grammar symbols with the words of at most n symbols.
Pairs(t, n) ==
  (NonTerminalIds(t) \cup TerminalIds(t)) \X BoundedSeq(TerminalIds(t), n)

\* What is known, with one level of the derivation trees more.
Grown(t, n, known) ==
  known \cup UNION {{t.productionNames[p]} \X Words(known, GrammarSymbols(t, t.productions[p]), n)
                    : p \in DOMAIN t.productions}

TerminalWords(t) == {<<a, <<a>>>> : a \in TerminalIds(t)}

\* All the words of at most n symbols that the grammar symbols stand for: what is
\* known grows until it is all.
Generated(t, n) ==
  LET all[known \in SUBSET Pairs(t, n)] ==
        LET more == Grown(t, n, known) IN IF more = known THEN known ELSE all[more]
  IN  all[TerminalWords(t)]

\* The sentences with at most MaxWords words before the end of file.
Sentences ==
  [t \in Tables |-> Meanings(Generated(t, MaxWords + 1), t.startSymbol)]

Sentence == Append(input, st.eof) \in Sentences[st]

-----------------------------------------------------------------------------
\* Every alternative of the start symbol ends with a token or an action, as
\* injectEof() (Grammar.cpp:167-181) makes it if there is one alternative.
StartIsClosed ==
  \A t \in Tables : \A p \in DOMAIN t.productions :
    t.productionNames[p] = t.startSymbol =>
      /\ t.productions[p] # <<>>
      /\ Last(t.productions[p]) \notin NonTerminalIds(t)

\* The end-of-file token ends every handle of the start symbol and is in no other,
\* and the start symbol is in none: what injectEof() (Grammar.cpp:167-181) makes of
\* a grammar whose start symbol has one handle and is mentioned in none.
EofEndsSentences(t) ==
  \A p \in DOMAIN t.productions :
    LET s == GrammarSymbols(t, t.productions[p])
        ends == {i \in DOMAIN s : s[i] = t.eof}
    IN  /\ ends = IF t.productionNames[p] = t.startSymbol THEN {Len(s)} ELSE {}
        /\ \A i \in DOMAIN s : s[i] # t.startSymbol

\* Neither a sentence nor any part of it is ever reported as an error, and a
\* text that is accepted without a report is a sentence.
ParsesTheLanguage ==
  /\ errors > 0 \/ pc = "rejected" => ~Sentence
  /\ pc = "accepted" /\ errors = 0 => Sentence

\* The value that analyze() returns is that of the last element of the start
\* symbol's handle, untouched by what was pushed and rewound in between.
ReturnsStartValue ==
  pc = "accepted" =>
    \E p \in DOMAIN st.productions :
      /\ st.productionNames[p] = st.startSymbol
      /\ result = IF IsActionId(st, Last(st.productions[p]))
                  THEN Last(st.productions[p]) ELSE NoAction

\* When the stack is empty and nothing was reported, the text is fully parsed
\* (Analyzer-inl.h:65).
EmptyStackIsSuccess == Analyzing /\ stack = <<>> /\ errors = 0 => AtEnd

\* The assertion of Analyzer-inl.h:117 fails at the start of a text or never: an
\* epsilon rule behind a terminal, an action or a completed nonterminal finds a
\* value to take, whatever was rewound in between.
EpsilonFindsValue == pc = "aborted" => at = 1 /\ matched = <<>> /\ meaning = <<>>

\* analyze() returns, or leaves by an exception, whatever the text.
Returns == <>(pc \notin {"begin", "analyzing"})

\* Before the start symbol is pushed, or where the first word's recognition threw.
NothingPushed == pc = "begin" \/ (pc = "thrown" /\ matched = <<>>)

\* What was taken off the stack and what is left on it are a sentential form,
\* derived by one leftmost step for each production applied.
SententialForm ==
  IF NothingPushed THEN <<st.startSymbol>>
  ELSE matched \o GrammarSymbols(st, Reverse(stack))

Leftmost == INSTANCE Derivation WITH form <- SententialForm

ImplementsDerivation == Leftmost!Spec

=============================================================================
