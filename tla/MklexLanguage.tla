---------------------------- MODULE MklexLanguage ----------------------------
(***************************************************************************)
(* What mklex leaves behind, against what its command line and its rules   *)
(* mean.                                                                   *)
(***************************************************************************)
EXTENDS CompilerLanguage, Mklex

Exited == running \in {"success", "failure", "terminated", "undefined"}

Written(kind) == {o \in Range(outputs) : o.kind = kind}

\* Options that give an output no name, or two of them the same.
NamesClash ==
  \/ \E flag \in {"output-table", "output-token"} : IsSet(flag) /\ GetString(flag) = <<>>
  \/ /\ IsSet("output-table") /\ IsSet("output-token")
     /\ GetString("output-table") = GetString("output-token")
     /\ GetString("output-table") # Stream

\* The tables and the tokens are made to be compiled together: each tag the lexer
\* can come upon is that of one enumerator, which has the name of the tag's rule,
\* each enumerator is a tag the lexer can come upon, and the machines are the
\* initial states of the tables, minimized or not (src/mklex.cpp:90-219, 325-376).
OutputsAgree ==
  running = "success" =>
    \A t \in Written("tables"), k \in Written("tokens") :
      LET tags == Range(t.content.def.acceptStates) \ {IgnoreTag}
          tokens == k.content.tokens
      IN  /\ tags = {token[2] : token \in Range(tokens)}
          /\ \A i, j \in DOMAIN tokens : i # j => tokens[i][1] # tokens[j][1] /\ tokens[i][2] # tokens[j][2]
          /\ \A i \in DOMAIN tokens :
               /\ t.content.tagNames[tokens[i][2]] = tokens[i][1]
               /\ \E rule \in RuleLines :
                    source[rule].name = tokens[i][1] /\ TagOf(rule) = tokens[i][2]
          /\ k.content.machines = t.content.def.initialStates

\* mklex writes both files or neither: what is wrong with the arguments or the rules
\* is found before the first one is touched, and success means that both are there,
\* or the help or the graph that was asked for.  A missing name of the second is
\* found too late, and so are rules of which nothing can be made
\* (src/mklex.cpp:259-379).
WritesBothOrNeither ==
  Exited /\ ~NamesClash =>
    /\ Written("tokens") # {} => Written("tables") # {}
    /\ Written("tables") # {} /\ Written("tokens") = {} =>
         running # "success" /\ (~IsSet("output-token") \/ AllConditions = {})
    /\ running = "success" =>
         \/ GetBool("help") /\ outputs = <<>>
         \/ GetBool("debug-nfa") /\ Cardinality(Written("graph")) = 1
         \/ Written("tokens") # {}
    /\ running = "failure" => outputs = <<>>
    /\ running = "terminated" =>
         \/ \E flag \in {"file", "output-table", "output-token"} : ~IsSet(flag)
         \/ ~WellFormed \/ Disputed
         \/ \E i \in DOMAIN rules : ~Buildable(rules[i].regexpr)

-----------------------------------------------------------------------------
\* Where a drawing leads to from states S by a text.
Along(drawing, S, symbol) ==
  {r[3] : r \in {r \in drawing.arrows : r[1] \in S /\ symbol \in r[2]}}
Around(drawing, S) ==
  LET more(X) == X \cup Along(drawing, X, Epsilon)
      states == S \cup {r[3] : r \in drawing.arrows}
      all[X \in SUBSET states] == IF more(X) = X THEN X ELSE all[more(X)]
  IN  all[S]
Ends(drawing, S, text) ==
  LET run[n \in 0..Len(text)] ==
        IF n = 0 THEN Around(drawing, S)
        ELSE Around(drawing, Along(drawing, run[n - 1], text[n]))
  IN  run[Len(text)]

\* The rules of an automaton by its name.
RulesNamed(name) ==
  {i \in DOMAIN rules :
     \E c \in rules[i].conditions :
       \/ name = c /\ i \in RulesOf(c, ~ContainsBeginOfLineStates)
       \/ name = AtLineStart(c) /\ ContainsBeginOfLineStates}

ShowsFrom(drawing, S, names, meanings) ==
  \A name \in names : \A text \in Texts :
    Ends(drawing, S, text) \cap drawing.accepting # {} <=> Matching(meanings, RulesNamed(name), text) # {}

\* The graphs show the automata they are of: from where a drawing has the arrow of a
\* start condition, by its name or its number, the accepting states are reached by
\* the texts that the rules of the condition match, and each condition has an arrow
\* or shares one (NFA.cpp:181-209, 339-373, DFA.cpp:131-156, DotWriter.cpp:68-108).
GraphsShowTheRules ==
  Exited =>
    \A o \in Written("graph") :
      IF GetBool("debug-nfa")
      THEN IF Len(Names) = 1
           THEN ShowsFrom(o.content, {o.content.initial}, Range(Names), Meanings)
           ELSE \A k \in DOMAIN Names :
                  ShowsFrom(o.content, Along(o.content, {o.content.initial}, k), {Names[k]}, Meanings)
      ELSE /\ \A entry \in o.content.entries :
                ShowsFrom(o.content, {entry[2]},
                          {name \in Range(Names) : def.initialStates[name] = entry[2]}, Meanings)
           /\ \A name \in Range(Names) :
                \E entry \in o.content.entries : entry[2] = def.initialStates[name]

=============================================================================
