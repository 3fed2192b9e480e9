------------------------ MODULE CpplintParserProofs -------------------------
(***************************************************************************)
(* TLAPS proofs about the parsers of Cpplint: what _FunctionState,         *)
(* _IncludeState and _ClassState know at a line is what the text up to     *)
(* this line says.                                                         *)
(***************************************************************************)
EXTENDS CpplintProofs

-----------------------------------------------------------------------------
(***************************************************************************)
(* The lines a parser has seen.                                            *)
(***************************************************************************)
\* The greatest element of a set of numbers, if it is known.
LEMMA MaxIs ==
    ASSUME NEW S, S \subseteq Nat, NEW m \in S, \A x \in S : x <= m
    PROVE  Max(S) = m
<1>1. Max(S) \in S /\ \A x \in S : x <= Max(S)
  BY DEF Max
<1>2. Max(S) <= m /\ m <= Max(S) /\ Max(S) \in Nat /\ m \in Nat
  BY <1>1
<1> QED
  BY <1>2

\* The end of a function does not take the count back: that Check did not die there
\* still shows after it.
LEMMA CheckedOnce ==
    ASSUME NEW f \in FunctionState, NEW lines, NEW n, NEW v,
           ~LengthRaises(f, lines, n, v)
    PROVE  ~LengthRaises(FunctionLine(f, lines, n), lines, n, v)
<1>1. CASE Closes(lines, n)
  <2>1. FunctionLine(f, lines, n) = End(f)
    BY <1>1 DEF Closes, Opens, FunctionLine
  <2>2. /\ End(f).lines_in_function = f.lines_in_function
        /\ End(f).current_function = f.current_function
    BY DEF End, FunctionState
  <2> QED
    BY <2>1, <2>2 DEF LengthRaises, Checked, TooLong, Trigger
<1>2. CASE ~Closes(lines, n)
  BY <1>2 DEF LengthRaises, Checked
<1> QED
  BY <1>1, <1>2

\* Apart from CheckStyle and CheckLanguage, which add their line, no step of a file
\* changes the lines that the parsers have seen.
LEMMA LinesSeen ==
    ASSUME TypeInv, [Next]_vars, phase' \in Linting
    PROVE  \/ StartFile
           \/ RemoveMultiLineComments
           \/ /\ CheckStyle
              /\ LinesBefore' = LinesBefore /\ LinesMeasured = LinesBefore
              /\ LinesBefore = {n \in DOMAIN text : n < line}
              /\ LinesMeasured' = LinesBefore \cup {line}
           \/ /\ CheckLanguage
              /\ LinesBefore = {n \in DOMAIN text : n < line}
              /\ LinesBefore' = LinesBefore \cup {line}
              /\ LinesMeasured' = LinesMeasured
           \/ /\ UNCHANGED <<text, include_state, function_state>> /\ CurrentFile' = CurrentFile
              /\ LinesBefore' = LinesBefore /\ LinesMeasured' = LinesMeasured
<1>1. CASE CheckStyle
  <2>1. phase = "style" /\ phase' \in {"braces", "crashed"} /\ UNCHANGED <<text, line>>
    BY <1>1 DEF CheckStyle
  <2>2. ~LengthRaises(function_state, text, line, verbose_level)'
    BY <1>1, CheckedOnce DEF CheckStyle, settings, TypeInv, TypeOK
  <2> QED
    BY <1>1, <2>1, <2>2 DEF LinesBefore, LinesMeasured
<1>7. CASE CheckDies
  BY <1>7 DEF CheckDies, settings, parsers, LinesBefore, LinesMeasured, CurrentFile
<1>2. CASE CheckLanguage
  <2>1. phase = "language" /\ phase' \in {"nolint", "finish"}
        /\ LinesBefore' = {n \in DOMAIN text : n < line} \cup {line}
    BY <1>2, NextLine DEF CheckLanguage
  <2> QED
    BY <1>2, <2>1 DEF LinesBefore, LinesMeasured
<1>3. CASE Error \/ Done \/ UNCHANGED vars
  BY <1>3 DEF Error, Done, vars, settings, parsers, LinesBefore, LinesMeasured, CurrentFile
<1>4. CASE ParseArgumentsStops \/ ParseArguments \/ Exit \/ SkipFile
  BY <1>4 DEF ParseArgumentsStops, ParseArguments, Exit, SkipFile, Linting
<1>5. CASE CheckForHeaderGuard \/ ParseNolintSuppressions \/ CheckBracesLoop
  BY <1>5
     DEF CheckForHeaderGuard, ParseNolintSuppressions, CheckBracesLoop, settings, parsers,
         LinesBefore, LinesMeasured, CurrentFile
<1>6. CASE \/ FinishClasses \/ CheckForIncludeWhatYouUse
           \/ CheckForUnicodeReplacementCharacters \/ CheckEnd
  BY <1>6
     DEF FinishClasses, CheckForIncludeWhatYouUse, CheckForUnicodeReplacementCharacters, CheckEnd,
         settings, parsers, LinesBefore, LinesMeasured, CurrentFile, Linting
<1> QED
  BY <1>1, <1>2, <1>3, <1>4, <1>5, <1>6, <1>7 DEF Next

\* At the beginning of a file the parsers have seen nothing.
LEMMA NothingSeen ==
    ASSUME TypeInv, StartFile \/ RemoveMultiLineComments
    PROVE  /\ LinesBefore' = {} /\ LinesMeasured' = {}
           /\ RemoveMultiLineComments => LinesBefore = {} /\ LinesMeasured = {}
<1>1. phase' \in {"ifndef", "comments", "nolint"} /\ (phase' = "nolint" => line' = 0)
      /\ (RemoveMultiLineComments => phase = "comments")
  BY DEF StartFile, RemoveMultiLineComments
<1>2. TypeInv'
  BY FileStepsTyped, CommentsTyped
<1>3. \A n \in DOMAIN text' : ~(n < 0)
  <2>1. PICK k \in Nat : DOMAIN text' = 0 .. k
    BY <1>2 DEF TypeInv, Shaped
  <2> QED
    BY <2>1
<1> QED
  BY <1>1, <1>3 DEF LinesBefore, LinesMeasured

-----------------------------------------------------------------------------
(***************************************************************************)
(* _FunctionState.                                                         *)
(***************************************************************************)
\* f has measured the lines M.
Begun(lines, M) == MaxOr({n \in M : Opens(lines, n)}, -1)
Ended(lines, M) == {n \in M : n > Begun(lines, M) /\ Closes(lines, n)}
InBody(lines, M) ==
    {n \in M : n > Begun(lines, M) /\ Counted(lines, n) /\ \A e \in Ended(lines, M) : n < e}
Measures(f, lines, M) ==
    IF Begun(lines, M) = -1 THEN f = NoFunction
    ELSE /\ f.in_a_function = (Ended(lines, M) = {})
         /\ f.lines_in_function = Cardinality(InBody(lines, M))

\* LengthIsCounted in these terms.
LEMMA LengthRead ==
    LengthIsCounted <=> (phase \in Linting => Measures(function_state, text, LinesMeasured))
  BY DEF LengthIsCounted, Measures, InBody, Ended, Begun

\* One line more.
LEMMA MeasuresMore ==
    ASSUME NEW k \in Nat, NEW lines \in [0 .. k -> Line], NEW n \in 0 .. k, NEW f \in FunctionState,
           NEW M, M = {m \in DOMAIN lines : m < n}, Measures(f, lines, M)
    PROVE  Measures(FunctionLine(f, lines, n), lines, M \cup {n})
<1> DEFINE N == M \cup {n}
           O == {m \in M : Opens(lines, m)}
           P == {m \in N : Opens(lines, m)}
<1>1. /\ M \subseteq 0 .. k /\ N \subseteq 0 .. k /\ N \subseteq Nat /\ n \in Nat /\ n \notin M
      /\ \A m \in M : m < n /\ m \in Nat
  OBVIOUS
<1>2. Begun(lines, M) \in M \cup {-1} /\ (Begun(lines, M) = -1 => O = {})
  <2>1. CASE O = {}
    BY <2>1 DEF Begun, MaxOr
  <2>2. CASE O # {}
    <3>1. O \subseteq 0 .. k
      BY <1>1
    <3>2. Max(O) \in O
      BY <2>2, <3>1, MaxIsGreatest
    <3>3. Begun(lines, M) = Max(O)
      BY <2>2 DEF Begun, MaxOr
    <3> QED
      BY <1>1, <3>2, <3>3
  <2> QED
    BY <2>1, <2>2
<1>3. CASE Opens(lines, n)
  <2>1. Begun(lines, N) = n
    <3>1. n \in P /\ P \subseteq Nat /\ \A x \in P : x <= n
      BY <1>1, <1>3
    <3>2. Max(P) = n
      BY <3>1, MaxIs
    <3> QED
      BY <3>1, <3>2 DEF Begun, MaxOr
  <2>2. \A m \in N : ~(m > n)
    BY <1>1
  <2>3. Ended(lines, N) = {} /\ InBody(lines, N) = {}
    BY <2>1, <2>2 DEF Ended, InBody
  <2>4. FunctionLine(f, lines, n) = Begin(lines[n].decl)
    BY <1>3 DEF FunctionLine
  <2>5. /\ Begin(lines[n].decl).in_a_function = TRUE
        /\ Begin(lines[n].decl).lines_in_function = 0
    BY DEF Begin
  <2>6. n # -1 /\ Cardinality({}) = 0
    BY <1>1, FS_EmptySet
  <2> HIDE DEF N
  <2>7. Measures(FunctionLine(f, lines, n), lines, N)
    BY <2>1, <2>3, <2>4, <2>5, <2>6 DEF Measures
  <2> QED
    BY <2>7 DEF N
<1>4. CASE ~Opens(lines, n)
  <2>1. Begun(lines, N) = Begun(lines, M)
    <3>1. P = O
      BY <1>4
    <3> QED
      BY <3>1 DEF Begun
  <2>2. n > Begun(lines, M)
    BY <1>1, <1>2
  <2>3. Ended(lines, N) = Ended(lines, M) \cup (IF Closes(lines, n) THEN {n} ELSE {})
    BY <2>1, <2>2 DEF Ended
  <2>4. InBody(lines, N) = InBody(lines, M)
                           \cup (IF Counted(lines, n) /\ Ended(lines, M) = {} THEN {n} ELSE {})
    <3>1. ASSUME NEW m \in M
          PROVE  (\A e \in Ended(lines, N) : m < e) <=> (\A e \in Ended(lines, M) : m < e)
      BY <1>1, <2>3
    <3>2. ~(Counted(lines, n) /\ Closes(lines, n))
      BY DEF Counted, Closes
    <3>3. (\A e \in Ended(lines, M) : n < e) <=> Ended(lines, M) = {}
      BY <1>1 DEF Ended
    <3>4. Counted(lines, n) => Ended(lines, N) = Ended(lines, M)
      BY <2>3, <3>2
    <3> QED
      BY <2>1, <2>2, <3>1, <3>3, <3>4 DEF InBody
  <2>5. CASE Begun(lines, M) = -1
    <3>1. f = NoFunction
      BY <2>5 DEF Measures
    <3>2. FunctionLine(f, lines, n) = NoFunction
      BY <1>4, <3>1 DEF FunctionLine, NoFunction, End, Count
    <3> QED
      BY <2>1, <2>5, <3>2 DEF Measures
  <2>6. CASE Begun(lines, M) # -1
    <3>1. /\ f.in_a_function = (Ended(lines, M) = {})
          /\ f.lines_in_function = Cardinality(InBody(lines, M))
      BY <2>6 DEF Measures
    <3>2. IsFiniteSet(InBody(lines, M)) /\ n \notin InBody(lines, M)
      <4>1. InBody(lines, M) \subseteq 0 .. k /\ n \notin InBody(lines, M)
        BY <1>1 DEF InBody
      <4>2. IsFiniteSet(0 .. k)
        BY FS_Interval
      <4> QED
        BY <4>1, <4>2, FS_Subset
    <3>3. f.in_a_function \in BOOLEAN /\ f.lines_in_function \in Nat
      BY DEF FunctionState
    <3> DEFINE g == FunctionLine(f, lines, n)
    <3>4. CASE Closes(lines, n)
      <4>1. g = End(f) /\ Ended(lines, N) # {} /\ ~Counted(lines, n)
        BY <1>4, <2>3, <3>4 DEF FunctionLine, Counted, Closes
      <4>2. g.in_a_function = FALSE /\ g.lines_in_function = f.lines_in_function
        BY <4>1 DEF End, FunctionState
      <4> QED
        BY <2>1, <2>4, <2>6, <3>1, <4>1, <4>2 DEF Measures
    <3>5. CASE ~Closes(lines, n) /\ Counted(lines, n)
      <4>1. g = Count(f) /\ Ended(lines, N) = Ended(lines, M)
        BY <1>4, <2>3, <3>5 DEF FunctionLine
      <4>2. CASE f.in_a_function
        <5>1. g.in_a_function = f.in_a_function /\ g.lines_in_function = f.lines_in_function + 1
          BY <3>3, <4>1, <4>2 DEF Count, FunctionState
        <5>2. InBody(lines, N) = InBody(lines, M) \cup {n}
          BY <2>4, <3>1, <3>5, <4>2
        <5>3. Cardinality(InBody(lines, N)) = Cardinality(InBody(lines, M)) + 1
          BY <3>2, <5>2, FS_AddElement
        <5> QED
          BY <2>1, <2>6, <3>1, <4>1, <5>1, <5>3 DEF Measures
      <4>3. CASE ~f.in_a_function
        <5>1. g = f /\ InBody(lines, N) = InBody(lines, M)
          BY <2>4, <3>1, <4>1, <4>3 DEF Count
        <5> QED
          BY <2>1, <2>6, <3>1, <4>1, <5>1 DEF Measures
      <4> QED
        BY <3>3, <4>2, <4>3
    <3>6. CASE ~Closes(lines, n) /\ ~Counted(lines, n)
      <4>1. g = f /\ Ended(lines, N) = Ended(lines, M) /\ InBody(lines, N) = InBody(lines, M)
        BY <1>4, <2>3, <2>4, <3>6 DEF FunctionLine
      <4> QED
        BY <2>1, <2>6, <3>1, <4>1 DEF Measures
    <3> QED
      BY <3>4, <3>5, <3>6
  <2> QED
    BY <2>5, <2>6
<1> QED
  BY <1>3, <1>4

\* LengthIsCounted: whatever lines a file has, lines_in_function is the number of
\* lines of code from the last beginning of a function to its end, or to here.
THEOREM LengthsAreCounted == Spec => []LengthIsCounted
<1>1. \A lines : Measures(NoFunction, lines, {})
  BY DEF Measures, Begun, MaxOr
<1>2. Init => LengthIsCounted
  BY DEF Init, LengthIsCounted, Linting
<1>3. ASSUME TypeInv, LengthIsCounted, [Next]_vars PROVE LengthIsCounted'
  <2> SUFFICES ASSUME phase' \in Linting
               PROVE  Measures(function_state', text', LinesMeasured')
    BY DEF LengthIsCounted, Measures, InBody, Ended, Begun
  <2>1. CASE StartFile
    BY <1>1, <1>3, <2>1, NothingSeen DEF StartFile
  <2>2. phase \in Linting \/ StartFile
    BY <1>3, LinesSeen
    DEF Next, vars, settings, SkipFile, ParseArgumentsStops, ParseArguments, Exit, Error,
        CheckForHeaderGuard, RemoveMultiLineComments, ParseNolintSuppressions,
        CheckStyle, CheckDies, CheckBracesLoop, CheckLanguage, FinishClasses, CheckForIncludeWhatYouUse,
        CheckForUnicodeReplacementCharacters, CheckEnd, Done, Linting, Phases
  <2>3. ASSUME phase \in Linting PROVE Measures(function_state, text, LinesMeasured)
    BY <1>3, <2>3, LengthRead
  <2>4. CASE phase \in Linting /\ RemoveMultiLineComments
    <3>1. function_state' = function_state /\ LinesMeasured = {} /\ LinesMeasured' = {}
      BY <1>3, <2>4, NothingSeen DEF RemoveMultiLineComments, parsers
    <3>2. function_state = NoFunction
      BY <2>3, <2>4, <3>1 DEF Measures, Begun, MaxOr
    <3> QED
      BY <1>1, <3>1, <3>2
  <2>5. CASE /\ phase \in Linting /\ CheckStyle /\ LinesMeasured = LinesBefore
             /\ LinesBefore = {n \in DOMAIN text : n < line}
             /\ LinesMeasured' = LinesBefore \cup {line}
    <3>1. function_state' = FunctionLine(function_state, text, line) /\ text' = text
      BY <2>5 DEF CheckStyle
    <3>2. PICK k \in Nat : text \in [0 .. k -> Line] /\ line \in 0 .. k
      BY <1>3, StateFacts
    <3>3. function_state \in FunctionState
      BY <1>3 DEF TypeInv, TypeOK
    <3> QED
      BY <2>3, <2>5, <3>1, <3>2, <3>3, MeasuresMore
  <2>6. CASE /\ phase \in Linting /\ UNCHANGED <<text, function_state>>
             /\ LinesMeasured' = LinesMeasured
    BY <2>3, <2>6
  <2>7. CheckLanguage => UNCHANGED <<text, function_state>>
    BY DEF CheckLanguage
  <2> QED
    BY <1>3, <2>1, <2>2, <2>4, <2>5, <2>6, <2>7, LinesSeen
<1> QED
  BY <1>2, <1>3, InitTyped, TypeStep, PTL DEF Spec

-----------------------------------------------------------------------------
(***************************************************************************)
(* _IncludeState: the section.                                             *)
(***************************************************************************)
\* Of the file f and its lines, those of M that include a header for the first time,
\* and the section of such lines S.
Firsts(lines, M) ==
    {n \in M : /\ ~Blank(lines[n]) /\ lines[n].include # NoHeader
               /\ \A m \in M : m < n /\ ~Blank(lines[m]) => lines[m].include # lines[n].include}
TypeAt(f, lines, n) == ClassifyInclude(f, lines[n].include, lines[n].angle)
MineAt(f, lines, n) == TypeAt(f, lines, n) \in {LIKELY_MY, POSSIBLE_MY}
OtherAt(f, lines, S) ==
    \E n \in S : \/ TypeAt(f, lines, n) = OTHER_HEADER
                 \/ MineAt(f, lines, n) /\ \E m \in S : m < n /\ ~MineAt(f, lines, m)
Section(f, lines, S) ==
    IF S = {} THEN INITIAL
    ELSE IF \A n \in S : MineAt(f, lines, n) THEN MY_H
    ELSE IF OtherAt(f, lines, S) THEN OTHER_H
    ELSE IF \E n \in S : TypeAt(f, lines, n) = CPP_SYS THEN CPP ELSE C

\* SectionIsHighest and the state function it is built from, in these terms.
LEMMA SectionRead ==
    /\ FirstIncludes = Firsts(text, LinesBefore)
    /\ \A S : SectionOf(S) = Section(CurrentFile.name, text, S)
    /\ \A n : TypeOf(n) = TypeAt(CurrentFile.name, text, n)
<1>1. FirstIncludes = Firsts(text, LinesBefore)
  BY DEF FirstIncludes, Firsts
<1>2. \A n : TypeOf(n) = TypeAt(CurrentFile.name, text, n)
  BY DEF TypeOf, TypeAt
<1>3. \A n : Mine(n) <=> MineAt(CurrentFile.name, text, n)
  BY <1>2 DEF Mine, MineAt
<1>4. \A S : SectionOf(S) = Section(CurrentFile.name, text, S)
  BY <1>2, <1>3 DEF SectionOf, Section, OtherAt
<1> QED
  BY <1>1, <1>2, <1>4

\* NextSection, type by type.
LEMMA NextSectionIs ==
    ASSUME NEW s \in INITIAL .. OTHER_H, NEW type
    PROVE  /\ type = C_SYS => NextSection(s, type) = IF s > C THEN s ELSE C
           /\ type = CPP_SYS => NextSection(s, type) = IF s > CPP THEN s ELSE CPP
           /\ type \in {LIKELY_MY, POSSIBLE_MY} =>
                 NextSection(s, type) = IF s <= MY_H THEN MY_H ELSE OTHER_H
           /\ type = OTHER_HEADER => NextSection(s, type) = OTHER_H
<1>1. ASSUME type = C_SYS PROVE NextSection(s, type) = IF s > C THEN s ELSE C
  <2>1. type # CPP_SYS /\ type \notin {LIKELY_MY, POSSIBLE_MY}
    BY <1>1 DEF C_SYS, CPP_SYS, LIKELY_MY, POSSIBLE_MY
  <2> QED
    BY <1>1, <2>1 DEF NextSection, OutOfOrder
<1>2. ASSUME type = CPP_SYS PROVE NextSection(s, type) = IF s > CPP THEN s ELSE CPP
  <2>1. type # C_SYS /\ type \notin {LIKELY_MY, POSSIBLE_MY}
    BY <1>2 DEF C_SYS, CPP_SYS, LIKELY_MY, POSSIBLE_MY
  <2> QED
    BY <1>2, <2>1 DEF NextSection, OutOfOrder
<1>3. ASSUME type \in {LIKELY_MY, POSSIBLE_MY}
      PROVE  NextSection(s, type) = IF s <= MY_H THEN MY_H ELSE OTHER_H
  <2>1. type # C_SYS /\ type # CPP_SYS
    BY <1>3 DEF C_SYS, CPP_SYS, LIKELY_MY, POSSIBLE_MY
  <2> QED
    BY <1>3, <2>1 DEF NextSection, OutOfOrder
<1>4. ASSUME type = OTHER_HEADER PROVE NextSection(s, type) = OTHER_H
  <2>1. type # C_SYS /\ type # CPP_SYS /\ type \notin {LIKELY_MY, POSSIBLE_MY}
    BY <1>4 DEF C_SYS, CPP_SYS, LIKELY_MY, POSSIBLE_MY, OTHER_HEADER
  <2> QED
    BY <2>1 DEF NextSection, OutOfOrder
<1> QED
  BY <1>1, <1>2, <1>3, <1>4

\* One header more, after all those of S: CheckNextIncludeOrder needs the section only.
LEMMA SectionMore ==
    ASSUME NEW f, NEW lines, NEW S, S \subseteq Nat, NEW n \in Nat, \A m \in S : m < n
    PROVE  /\ Section(f, lines, S) \in INITIAL .. OTHER_H
           /\ Section(f, lines, S \cup {n}) = NextSection(Section(f, lines, S), TypeAt(f, lines, n))
<1> DEFINE N == S \cup {n}
           type == TypeAt(f, lines, n)
           mine == MineAt(f, lines, n)
           AllMine(X) == \A m \in X : MineAt(f, lines, m)
           SomeCpp(X) == \E m \in X : TypeAt(f, lines, m) = CPP_SYS
<1>1. type \in {C_SYS, CPP_SYS, LIKELY_MY, POSSIBLE_MY, OTHER_HEADER}
  BY DEF TypeAt, ClassifyInclude
<1>2. mine <=> type \in {LIKELY_MY, POSSIBLE_MY}
  BY DEF MineAt
<1>3. AllMine(N) <=> AllMine(S) /\ mine
  OBVIOUS
<1>4. SomeCpp(N) <=> SomeCpp(S) \/ type = CPP_SYS
  OBVIOUS
<1>5. OtherAt(f, lines, N) <=>
        \/ OtherAt(f, lines, S)
        \/ type = OTHER_HEADER
        \/ mine /\ ~AllMine(S)
  <2>1. ~(n < n) /\ \A m \in S : ~(n < m)
    OBVIOUS
  <2>2. ASSUME NEW j \in N
        PROVE  (\E m \in N : m < j /\ ~MineAt(f, lines, m)) <=>
                  (\E m \in S : m < j /\ ~MineAt(f, lines, m))
    BY <2>1
  <2>3. (\E m \in S : m < n /\ ~MineAt(f, lines, m)) <=> ~AllMine(S)
    OBVIOUS
  <2>4. OtherAt(f, lines, N) <=>
          \E j \in N : \/ TypeAt(f, lines, j) = OTHER_HEADER
                       \/ MineAt(f, lines, j) /\ \E m \in S : m < j /\ ~MineAt(f, lines, m)
    BY <2>2 DEF OtherAt
  <2> QED
    BY <2>3, <2>4 DEF OtherAt
<1>6. AllMine(S) => ~OtherAt(f, lines, S) /\ ~SomeCpp(S)
  BY DEF OtherAt, MineAt, LIKELY_MY, POSSIBLE_MY, OTHER_HEADER, CPP_SYS
<1>7. S = {} => AllMine(S)
  OBVIOUS
<1>8. N # {}
  OBVIOUS
<1>9. Section(f, lines, S) = IF S = {} THEN INITIAL ELSE IF AllMine(S) THEN MY_H
                             ELSE IF OtherAt(f, lines, S) THEN OTHER_H
                             ELSE IF SomeCpp(S) THEN CPP ELSE C
  BY DEF Section
<1>10. Section(f, lines, N) = IF AllMine(N) THEN MY_H
                              ELSE IF OtherAt(f, lines, N) THEN OTHER_H
                              ELSE IF SomeCpp(N) THEN CPP ELSE C
  BY <1>8 DEF Section
<1> HIDE DEF N, type, mine, AllMine, SomeCpp
<1>11. Section(f, lines, S) \in INITIAL .. OTHER_H
  BY <1>9 DEF INITIAL, MY_H, C, CPP, OTHER_H
<1> DEFINE s == Section(f, lines, S)
<1>12. CASE type = C_SYS
  <2>1. ~mine /\ type # CPP_SYS /\ type # OTHER_HEADER
    BY <1>2, <1>12 DEF C_SYS, CPP_SYS, LIKELY_MY, POSSIBLE_MY, OTHER_HEADER
  <2>2. NextSection(s, type) = IF s > C THEN s ELSE C
    BY <1>11, <1>12, NextSectionIs
  <2>3. Section(f, lines, N) =
          IF OtherAt(f, lines, S) THEN OTHER_H ELSE IF SomeCpp(S) THEN CPP ELSE C
    BY <1>3, <1>4, <1>5, <1>10, <2>1
  <2>4. Section(f, lines, N) = NextSection(s, type)
    BY <1>6, <1>7, <1>9, <2>2, <2>3 DEF INITIAL, MY_H, C, CPP, OTHER_H
  <2> QED
    BY <1>11, <2>4 DEF N, type
<1>13. CASE type = CPP_SYS
  <2>1. ~mine /\ type # OTHER_HEADER
    BY <1>2, <1>13 DEF C_SYS, CPP_SYS, LIKELY_MY, POSSIBLE_MY, OTHER_HEADER
  <2>2. NextSection(s, type) = IF s > CPP THEN s ELSE CPP
    BY <1>11, <1>13, NextSectionIs
  <2>3. Section(f, lines, N) = IF OtherAt(f, lines, S) THEN OTHER_H ELSE CPP
    BY <1>3, <1>4, <1>5, <1>10, <1>13, <2>1
  <2>4. Section(f, lines, N) = NextSection(s, type)
    BY <1>6, <1>7, <1>9, <2>2, <2>3 DEF INITIAL, MY_H, C, CPP, OTHER_H
  <2> QED
    BY <1>11, <2>4 DEF N, type
<1>14. CASE mine
  <2>1. type # CPP_SYS /\ type # OTHER_HEADER
    BY <1>2, <1>14 DEF C_SYS, CPP_SYS, LIKELY_MY, POSSIBLE_MY, OTHER_HEADER
  <2>2. NextSection(s, type) = IF s <= MY_H THEN MY_H ELSE OTHER_H
    BY <1>2, <1>11, <1>14, NextSectionIs
  <2>3. Section(f, lines, N) = IF AllMine(S) THEN MY_H ELSE OTHER_H
    BY <1>3, <1>5, <1>10, <1>14
  <2>4. Section(f, lines, N) = NextSection(s, type)
    BY <1>6, <1>7, <1>9, <2>2, <2>3 DEF INITIAL, MY_H, C, CPP, OTHER_H
  <2> QED
    BY <1>11, <2>4 DEF N, type
<1>15. CASE type = OTHER_HEADER
  <2>1. ~mine
    BY <1>2, <1>15 DEF LIKELY_MY, POSSIBLE_MY, OTHER_HEADER
  <2>2. NextSection(s, type) = OTHER_H
    BY <1>11, <1>15, NextSectionIs
  <2>3. Section(f, lines, N) = OTHER_H
    BY <1>3, <1>5, <1>10, <1>15, <2>1
  <2> QED
    BY <1>11, <2>2, <2>3 DEF N, type
<1> QED
  BY <1>1, <1>2, <1>12, <1>13, <1>14, <1>15

-----------------------------------------------------------------------------
(***************************************************************************)
(* _IncludeState: the last header.                                         *)
(***************************************************************************)
\* When LastHeader takes the last header back.  Of the lines S that include a header
\* first, those up to n, those that take it back, those since then, and where their
\* headers sort.
TakesBack(section, type) == OutOfOrder(section, type) \/ NextSection(section, type) # section
UpTo(S, n) == {m \in S : m <= n}
Resets(f, lines, S) ==
    {n \in S : \/ Section(f, lines, UpTo(S, n)) # Section(f, lines, UpTo(S, n - 1))
               \/ OutOfOrder(Section(f, lines, UpTo(S, n - 1)), TypeAt(f, lines, n))}
Run(f, lines, S) == {n \in S : n >= MaxOr(Resets(f, lines, S), 0)}
Places(lines, S) == {Canon[lines[n].include] : n \in S}

\* m is the greatest element of X, or 0 if there is none.
Greatest(m, X) == IF X = {} THEN m = 0 ELSE m \in X /\ \A x \in X : x <= m

\* What IsInAlphabeticalOrder keeps is the greater one.
LEMMA GreatestOfMore ==
    ASSUME NEW X, X \subseteq Nat, NEW m \in Nat, NEW c \in Nat, Greatest(m, X)
    PROVE  Greatest(IF m > c THEN m ELSE c, X \cup {c})
<1>1. CASE X = {}
  BY <1>1 DEF Greatest
<1>2. CASE X # {}
  <2>1. m \in X /\ \A x \in X : x <= m /\ x \in Nat
    BY <1>2 DEF Greatest
  <2>2. CASE m > c
    BY <2>1, <2>2 DEF Greatest
  <2>3. CASE ~(m > c)
    <3>1. \A x \in X \cup {c} : x <= c
      BY <2>1, <2>3
    <3> QED
      BY <2>3, <3>1 DEF Greatest
  <2> QED
    BY <2>2, <2>3
<1> QED
  BY <1>1, <1>2

\* One header more, after all those of S: it takes the last header back if and only if
\* LastHeader does.
LEMMA RunMore ==
    ASSUME NEW f, NEW lines, NEW S, S \subseteq Nat, NEW n \in Nat, \A m \in S : m < n
    PROVE  \A j : j \in Run(f, lines, S \cup {n}) <=>
              \/ j = n
              \/ j \in Run(f, lines, S) /\ ~TakesBack(Section(f, lines, S), TypeAt(f, lines, n))
<1> DEFINE N == S \cup {n}
           s == Section(f, lines, S)
           type == TypeAt(f, lines, n)
           resets == Resets(f, lines, S)
           reset == TakesBack(s, type)
<1>1. n \notin S /\ N \subseteq 0 .. n
  OBVIOUS
<1>2. \A m \in S : UpTo(N, m) = UpTo(S, m) /\ UpTo(N, m - 1) = UpTo(S, m - 1)
  BY <1>1 DEF UpTo
<1>3. UpTo(N, n) = N /\ UpTo(N, n - 1) = S
  <2>1. n <= n /\ ~(n <= n - 1) /\ \A m \in S : m <= n /\ m <= n - 1
    BY <1>1
  <2> QED
    BY <2>1 DEF UpTo
<1>4. Section(f, lines, N) = NextSection(s, type)
  BY <1>1, SectionMore
<1>5. Resets(f, lines, N) = resets \cup (IF reset THEN {n} ELSE {})
  <2>1. \A m \in S : m \in Resets(f, lines, N) <=> m \in resets
    BY <1>2 DEF Resets
  <2>2. n \in Resets(f, lines, N) <=> reset
    BY <1>3, <1>4 DEF Resets, TakesBack
  <2>3. Resets(f, lines, N) \subseteq N /\ resets \subseteq S
    BY DEF Resets
  <2> HIDE DEF reset, resets
  <2> QED
    BY <1>1, <2>1, <2>2, <2>3
<1>6. resets \subseteq S
  BY DEF Resets
<1>7. CASE reset
  <2>1. n \in Resets(f, lines, N) /\ Resets(f, lines, N) \subseteq N
    BY <1>5, <1>6, <1>7
  <2>2. n >= n /\ \A m \in S : m <= n /\ ~(m >= n)
    BY <1>1
  <2>3. \A m \in Resets(f, lines, N) : m <= n
    BY <1>1, <2>1, <2>2
  <2>4. Max(Resets(f, lines, N)) = n
    BY <1>1, <2>1, <2>3, MaxIs
  <2>5. MaxOr(Resets(f, lines, N), 0) = n
    BY <2>1, <2>4 DEF MaxOr
  <2>6. Run(f, lines, N) = {n}
    BY <2>2, <2>5 DEF Run
  <2> QED
    BY <1>7, <2>6
<1>8. CASE ~reset
  <2>1. Resets(f, lines, N) = resets
    BY <1>5, <1>8
  <2>2. MaxOr(resets, 0) <= n
    <3>1. CASE resets = {}
      BY <1>1, <3>1 DEF MaxOr
    <3>0. resets \subseteq 0 .. n
      BY <1>1, <1>6
    <3>2. CASE resets # {}
      <4> HIDE DEF resets
      <4>1. Max(resets) \in resets
        BY <3>0, <3>2, MaxIsGreatest
      <4>2. MaxOr(resets, 0) = Max(resets)
        BY <3>2 DEF MaxOr
      <4>3. Max(resets) \in S
        BY <1>6, <4>1
      <4>4. \A m \in S : m <= n
        BY <1>1
      <4> QED
        BY <4>2, <4>3, <4>4
    <3> QED
      BY <3>1, <3>2
  <2>3. Run(f, lines, N) = Run(f, lines, S) \cup {n}
    BY <2>1, <2>2 DEF Run
  <2> QED
    BY <1>8, <2>3
<1> QED
  BY <1>7, <1>8

-----------------------------------------------------------------------------
(***************************************************************************)
(* _IncludeState as a whole.                                               *)
(***************************************************************************)
\* s knows of the lines M: what they include, the section and the last header.
Knows(s, f, lines, M) ==
    /\ \A h \in Headers : s.included[h] # 0 <=> \E m \in M : ~Blank(lines[m]) /\ lines[m].include = h
    /\ s.section = Section(f, lines, Firsts(lines, M))
    /\ Greatest(s.last_header, Places(lines, Run(f, lines, Firsts(lines, M))))

\* One line more.
LEMMA KnowsMore ==
    ASSUME NEW f, NEW k \in Nat, NEW lines \in [0 .. k -> Line], Blank(lines[0]), NEW n \in 0 .. k,
           NEW s \in IncludeState, NEW M, M = {m \in DOMAIN lines : m < n}, Knows(s, f, lines, M)
    PROVE  Knows(IF Blank(lines[n]) THEN s ELSE IncludeLine(s, f, lines[n], n), f, lines, M \cup {n})
<1> DEFINE N == M \cup {n}
           S == Firsts(lines, M)
           h == lines[n].include
<1>1. /\ M \subseteq 0 .. k /\ n \notin M /\ \A m \in M : m < n /\ m \in Nat /\ ~(n < m)
      /\ n \in Nat /\ ~(n < n) /\ S \subseteq M
  BY DEF Firsts
<1>2. /\ \A m \in M : m \in Firsts(lines, N) <=> m \in S
      /\ Firsts(lines, N) \subseteq N
  BY <1>1 DEF Firsts
<1>3. CASE Blank(lines[n]) \/ h = NoHeader
  <2>1. (IF Blank(lines[n]) THEN s ELSE IncludeLine(s, f, lines[n], n)) = s
    BY <1>3 DEF IncludeLine
  <2>2. Firsts(lines, N) = S
    <3>1. n \notin Firsts(lines, N)
      BY <1>3 DEF Firsts
    <3> QED
      BY <1>1, <1>2, <3>1
  <2>3. \A g \in Headers : (\E m \in N : ~Blank(lines[m]) /\ lines[m].include = g) <=>
                           (\E m \in M : ~Blank(lines[m]) /\ lines[m].include = g)
    BY <1>3, HeadersAssumption
  <2> QED
    BY <2>1, <2>2, <2>3 DEF Knows
<1>4. CASE ~Blank(lines[n]) /\ h # NoHeader /\ s.included[h] # 0
  <2>1. IncludeLine(s, f, lines[n], n) = s
    BY <1>4 DEF IncludeLine
  <2>2. h \in Headers
    BY <1>4 DEF Line
  <2>3. PICK m \in M : ~Blank(lines[m]) /\ lines[m].include = h
    BY <1>4, <2>2 DEF Knows
  <2>4. Firsts(lines, N) = S
    <3>1. n \notin Firsts(lines, N)
      BY <1>1, <2>3 DEF Firsts
    <3> QED
      BY <1>1, <1>2, <3>1
  <2>5. \A g \in Headers : (\E j \in N : ~Blank(lines[j]) /\ lines[j].include = g) <=>
                           (\E j \in M : ~Blank(lines[j]) /\ lines[j].include = g)
    BY <2>3
  <2> QED
    BY <1>4, <2>1, <2>4, <2>5 DEF Knows
<1>5. CASE ~Blank(lines[n]) /\ h # NoHeader /\ s.included[h] = 0
  <2> DEFINE type == TypeAt(f, lines, n)
             g == IncludeLine(s, f, lines[n], n)
  <2>1. h \in Headers /\ n # 0
    BY <1>5 DEF Line
  <2>2. /\ s.included \in [Headers -> Nat] /\ s.last_header \in Nat
        /\ s.section \in INITIAL .. OTHER_H
    BY DEF IncludeState
  <2>3. /\ g.included = [s.included EXCEPT ![h] = n]
        /\ g.section = NextSection(s.section, type)
        /\ g.last_header = NewLastHeader(s, f, lines[n])
    BY <1>5 DEF IncludeLine, TypeAt
  <2>4. Firsts(lines, N) = S \cup {n}
    <3>1. \A m \in M : ~Blank(lines[m]) => lines[m].include # h
      BY <1>5, <2>1 DEF Knows
    <3>2. n \in Firsts(lines, N)
      BY <1>1, <1>5, <3>1 DEF Firsts
    <3> QED
      BY <1>1, <1>2, <3>2
  <2>5. \A j \in Headers : g.included[j] # 0 <=> \E m \in N : ~Blank(lines[m]) /\ lines[m].include = j
    <3> SUFFICES ASSUME NEW j \in Headers
                 PROVE  g.included[j] # 0 <=> \E m \in N : ~Blank(lines[m]) /\ lines[m].include = j
      OBVIOUS
    <3>1. CASE j = h
      BY <1>5, <2>1, <2>2, <2>3, <3>1
    <3>2. CASE j # h
      <4>1. g.included[j] = s.included[j]
        BY <2>2, <2>3, <3>2
      <4>2. s.included[j] # 0 <=> \E m \in M : ~Blank(lines[m]) /\ lines[m].include = j
        BY DEF Knows
      <4> QED
        BY <3>2, <4>1, <4>2
    <3> QED
      BY <3>1, <3>2
  <2>6. S \subseteq 0 .. k /\ S \subseteq Nat /\ \A m \in S : m < n
    BY <1>1
  <2>7. s.section = Section(f, lines, S)
    BY DEF Knows
  <2>8. g.section = Section(f, lines, Firsts(lines, N))
    BY <1>1, <2>3, <2>4, <2>6, <2>7, SectionMore
  <2> DEFINE reset == TakesBack(s.section, type)
             R == Run(f, lines, S)
             last == IF reset THEN 0 ELSE s.last_header
             X == IF reset THEN {} ELSE Places(lines, R)
  <2>9. \A j : j \in Run(f, lines, S \cup {n}) <=>
                 j = n \/ (j \in R /\ ~TakesBack(Section(f, lines, S), type))
    BY <1>1, <2>6, RunMore, Zenon
  <2>10. Greatest(last, X)
    BY DEF Knows, Greatest
  <2>11. X \subseteq Nat /\ Canon[h] \in Nat
    <3>1. \A m \in R : lines[m] \in Line /\ lines[m].include \in Headers
      <4>1. \A m \in S : lines[m].include # NoHeader
        BY DEF Firsts
      <4> QED
        BY <2>6, <4>1 DEF Run, Line
    <3>2. \A m \in R : Canon[lines[m].include] \in Nat
      BY <3>1, NamesAssumption
    <3> QED
      BY <2>1, <3>2, NamesAssumption DEF Places
  <2>12. LastHeader(s, type) = last
    BY DEF LastHeader, TakesBack
  <2>13. g.last_header = IF last > Canon[h] THEN last ELSE Canon[h]
    BY <2>3, <2>12 DEF NewLastHeader, OutOfAlphabet, TypeAt
  <2>14. Places(lines, Run(f, lines, Firsts(lines, N))) = X \cup {Canon[h]}
    <3>1. \A j : j \in Run(f, lines, Firsts(lines, N)) <=> j = n \/ (j \in R /\ ~reset)
      BY <2>4, <2>7, <2>9
    <3> HIDE DEF reset, R, S, N
    <3> QED
      BY <3>1 DEF Places
  <2>15. Greatest(g.last_header, Places(lines, Run(f, lines, Firsts(lines, N))))
    <3> HIDE DEF reset, X, g
    <3> QED
      <4>1. last \in Nat
        BY <2>2 DEF last
      <4> HIDE DEF last, h
      <4>2. Greatest(IF last > Canon[h] THEN last ELSE Canon[h], X \cup {Canon[h]})
        BY <2>10, <2>11, <4>1, GreatestOfMore
      <4> QED
        BY <4>2, <2>13, <2>14
  <2> QED
    BY <1>5, <2>5, <2>8, <2>15 DEF Knows
<1> QED
  BY <1>3, <1>4, <1>5

\* _IncludeState knows what the file includes, in every phase that works on a file.
Known == phase \in Linting => Knows(include_state, CurrentFile.name, text, LinesBefore)

LEMMA KnownStep ==
    ASSUME TypeInv, Uncommented, Known, [Next]_vars
    PROVE  Known'
<1> SUFFICES ASSUME phase' \in Linting
             PROVE  Knows(include_state', CurrentFile'.name, text', LinesBefore')
  BY DEF Known
<1>1. \A f, lines : Knows(NoIncludes, f, lines, {})
  <2> SUFFICES ASSUME NEW f, NEW lines PROVE Knows(NoIncludes, f, lines, {})
    OBVIOUS
  <2>1. Firsts(lines, {}) = {} /\ Run(f, lines, {}) = {} /\ Places(lines, {}) = {}
    BY DEF Firsts, Run, Places
  <2>2. /\ \A h \in Headers : NoIncludes.included[h] = 0
        /\ NoIncludes.section = INITIAL /\ NoIncludes.last_header = 0
    BY DEF NoIncludes
  <2> QED
    BY <2>1, <2>2 DEF Knows, Section, Greatest
<1>2. CASE StartFile
  BY <1>1, <1>2, NothingSeen DEF StartFile
<1>3. phase \in Linting \/ StartFile
  BY LinesSeen
  DEF Next, vars, settings, SkipFile, ParseArgumentsStops, ParseArguments, Exit, Error,
      CheckForHeaderGuard, RemoveMultiLineComments, ParseNolintSuppressions,
      CheckStyle, CheckDies, CheckBracesLoop, CheckLanguage, FinishClasses, CheckForIncludeWhatYouUse,
      CheckForUnicodeReplacementCharacters, CheckEnd, Done, Linting, Phases
<1>4. ASSUME phase \in Linting PROVE Knows(include_state, CurrentFile.name, text, LinesBefore)
  BY <1>4 DEF Known
<1>5. CASE phase \in Linting /\ RemoveMultiLineComments
  <2>1. include_state' = include_state /\ LinesBefore = {} /\ LinesBefore' = {}
    BY <1>5, NothingSeen DEF RemoveMultiLineComments, parsers
  <2>2. Knows(include_state, CurrentFile.name, text, {})
    BY <1>4, <1>5, <2>1
  <2>3. \A f, lines : Knows(include_state, f, lines, {})
    <3> SUFFICES ASSUME NEW f, NEW lines PROVE Knows(include_state, f, lines, {})
      OBVIOUS
    <3>1. \A g, ls : Firsts(ls, {}) = {} /\ Run(g, ls, {}) = {} /\ Places(ls, {}) = {}
                     /\ Section(g, ls, {}) = INITIAL
      BY DEF Firsts, Run, Places, Section
    <3> QED
      BY <2>2, <3>1 DEF Knows
  <2> QED
    BY <2>1, <2>3
<1>6. CASE /\ phase \in Linting /\ CheckLanguage
           /\ LinesBefore = {n \in DOMAIN text : n < line}
           /\ LinesBefore' = LinesBefore \cup {line}
  <2>1. /\ phase = "language" /\ text' = text /\ CurrentFile' = CurrentFile
        /\ include_state' = IF Blank(text[line]) THEN include_state
                            ELSE IncludeLine(include_state, CurrentFile.name, text[line], line)
    BY <1>6 DEF CheckLanguage, settings, CurrentFile
  <2>2. PICK k \in Nat : text \in [0 .. k -> Line] /\ line \in 0 .. k
    BY StateFacts
  <2>3. include_state \in IncludeState
    BY DEF TypeInv, TypeOK
  <2>4. Blank(text[0])
    <3>1. text = Cleaned(CurrentFile)
      BY <1>6, <2>1 DEF Uncommented, CommentsGone
    <3>2. fileno > 0
      BY <1>6 DEF TypeInv, Shaped
    <3> QED
      BY <3>1, <3>2, MarkerKept, DummyFacts DEF Blank
  <2>5. Knows(include_state, CurrentFile.name, text, LinesBefore)
    BY <1>4, <1>6
  <2>6. Knows(include_state', CurrentFile.name, text, LinesBefore \cup {line})
    BY <1>6, <2>1, <2>2, <2>3, <2>4, <2>5, KnowsMore
  <2> QED
    BY <1>6, <2>1, <2>6
<1>7. CASE /\ phase \in Linting /\ UNCHANGED <<text, include_state>>
           /\ CurrentFile' = CurrentFile /\ LinesBefore' = LinesBefore
  BY <1>4, <1>7
<1>8. CheckStyle => UNCHANGED <<text, include_state>> /\ CurrentFile' = CurrentFile
  BY DEF CheckStyle, settings, CurrentFile
<1> QED
  BY <1>2, <1>3, <1>5, <1>6, <1>7, <1>8, LinesSeen

\* Known holds in every state.
THEOREM IncludesAreKnown == Spec => [](TypeInv /\ Known)
<1>1. Init => Known
  BY DEF Init, Known, Linting
<1> QED
  BY <1>1, InitTyped, InitUncommented, TypeStep, UncommentedStep, KnownStep, PTL DEF Spec

\* SectionIsHighest: whatever a file includes, and in whatever order, the section that
\* CheckNextIncludeOrder has reached is the highest of the headers included so far.
THEOREM SectionIsTheHighest == Spec => []SectionIsHighest
<1>1. TypeInv /\ Known => SectionIsHighest
  BY SectionRead DEF Known, Knows, SectionIsHighest
<1> QED
  BY <1>1, IncludesAreKnown, PTL

\* LastHeaderIsGreatest: the header that IsInAlphabeticalOrder compares the next one with
\* is the greatest since the section changed or a header was out of order.
THEOREM LastHeaderIsTheGreatest == Spec => []LastHeaderIsGreatest
<1>1. ASSUME TypeInv, Known PROVE LastHeaderIsGreatest
  <2> DEFINE f == CurrentFile.name
             S == Firsts(text, LinesBefore)
             places == Places(text, Run(f, text, S))
  <2> SUFFICES ASSUME phase \in Linting
               PROVE  include_state.last_header = MaxOr(places, 0)
    <3>1. \A n : UpTo(S, n) = {m \in FirstIncludes : m <= n}
      BY SectionRead DEF UpTo
    <3>2. Resets(f, text, S) =
            {n \in FirstIncludes :
               \/ SectionOf({m \in FirstIncludes : m <= n})
                    # SectionOf({m \in FirstIncludes : m <= n - 1})
               \/ OutOfOrder(SectionOf({m \in FirstIncludes : m <= n - 1}), TypeOf(n))}
      BY <3>1, SectionRead DEF Resets
    <3> QED
      BY <3>2, SectionRead DEF LastHeaderIsGreatest, Run, Places
  <2>1. Greatest(include_state.last_header, places)
    BY <1>1 DEF Known, Knows
  <2>2. places \subseteq Nat
    <3>1. PICK k \in Nat : text \in [0 .. k -> Line]
      BY <1>1, StateFacts
    <3>2. LinesBefore \subseteq 0 .. k
      BY <1>1, <3>1, StateFacts DEF LinesBefore
    <3>3. \A n \in S : text[n].include \in Headers
      BY <3>1, <3>2 DEF Firsts, Line
    <3> QED
      BY <3>3, NamesAssumption DEF Places, Run
  <2> QED
    <3> HIDE DEF places
    <3>1. CASE places = {}
      BY <2>1, <3>1 DEF Greatest, MaxOr
    <3>2. CASE places # {}
      BY <2>1, <2>2, <3>2, MaxIs DEF Greatest, MaxOr
    <3> QED
      BY <3>1, <3>2
<1> QED
  BY <1>1, IncludesAreKnown, PTL

-----------------------------------------------------------------------------
(***************************************************************************)
(* _ClassState.                                                            *)
(***************************************************************************)
\* The braces of the lines of S, { less }.
Braces(t, S) == SumOf(LAMBDA n : t[n].open - t[n].close, S)

\* Of the lines S those from the declaration of c on, and those of them that
\* have a {; no other class begins there.
From(c, S) == {n \in S : n >= c.linenum}
Opening(c, t, S) == {n \in From(c, S) : t[n].open > 0}
Alone(c, t, S) == \A n \in From(c, S) \ {c.linenum} : ~t[n].class

\* A class without others has counted the braces from its { on, or is still to
\* see it.
CountsBraces(c, t, S) ==
    IF c.seen_open_brace
    THEN /\ Opening(c, t, S) # {}
         /\ c.brace_depth = Braces(t, {n \in From(c, S) : n >= Min(Opening(c, t, S))})
    ELSE Opening(c, t, S) = {} /\ c.brace_depth = 0

\* Each entry of the stack was declared by a line of S: the lines of those above
\* it keep it from being alone.
Entry(c, t, S) ==
    /\ c.linenum \in S /\ t[c.linenum].class
    /\ c.seen_open_brace => c.brace_depth > 0
    /\ Alone(c, t, S) => CountsBraces(c, t, S)
Rising(stack) == \A i, j \in DOMAIN stack : i < j => stack[i].linenum < stack[j].linenum
Nested(stack, t, S) == Rising(stack) /\ \A i \in DOMAIN stack : Entry(stack[i], t, S)
ClassesCounted == phase \in Linting => Nested(classinfo_stack, text, LinesBefore)

\* Braces as a recursive function on the sets of lines.
BracesTable(t, S, h) ==
    [s \in SUBSET S |->
        IF s = {} THEN 0
        ELSE (t[CHOOSE x \in s : TRUE].open - t[CHOOSE x \in s : TRUE].close)
             + h[s \ {CHOOSE x \in s : TRUE}]]

LEMMA BracesAsTable ==
    ASSUME NEW t, NEW S
    PROVE  Braces(t, S) = (CHOOSE h : h = BracesTable(t, S, h))[S]
  BY Zenon DEF Braces, SumOf, MapThenSumSet, MapThenFoldSet, BracesTable

\* There is such a function, and it adds the braces in any order.
LEMMA BracesSum ==
    ASSUME NEW k \in Nat, NEW t \in [0 .. k -> Line], NEW S, S \subseteq 0 .. k
    PROVE  \E h \in [SUBSET S -> Int] :
              /\ Braces(t, S) = h[S]
              /\ Sums(h, SUBSET S, [x \in 0 .. k |-> t[x].open - t[x].close])
<1> DEFINE weight == [x \in 0 .. k |-> t[x].open - t[x].close]
           choose == [s \in SUBSET S |-> CHOOSE x \in s : TRUE]
           op == [p \in S \X Int |-> (t[p[1]].open - t[p[1]].close) + p[2]]
<1>1. IsFiniteSet(S)
  <2>1. IsFiniteSet(0 .. k) /\ S \in SUBSET (0 .. k)
    BY FS_Interval
  <2> QED
    BY <2>1, FS_Subset
<1>2. \A x \in 0 .. k : t[x].open - t[x].close \in Int
  <2>1. \A x \in 0 .. k : t[x].open \in Nat /\ t[x].close \in Nat
    BY DEF Line
  <2> QED
    BY <2>1
<1>3. \A s \in SUBSET S : s # {} => (CHOOSE x \in s : TRUE) \in s
  OBVIOUS
<1>4. op \in [S \X Int -> Int]
  <2> SUFFICES ASSUME NEW p \in S \X Int PROVE (t[p[1]].open - t[p[1]].close) + p[2] \in Int
    OBVIOUS
  <2>1. p[1] \in 0 .. k /\ p[2] \in Int
    OBVIOUS
  <2>2. t[p[1]].open - t[p[1]].close \in Int
    BY <1>2, <2>1
  <2> QED
    BY <2>1, <2>2
<1>5. \A s \in SUBSET S : choose[s] = CHOOSE x \in s : TRUE
  BY Zenon
<1>6. \A x \in S, i \in Int : op[<<x, i>>] = (t[x].open - t[x].close) + i
  OBVIOUS
<1> HIDE DEF op, choose
<1>7. PICK g \in [SUBSET S -> Int] : IsFold(g, SUBSET S, 0, choose, op)
  <2>1. \A s \in SUBSET S : s # {} => choose[s] \in s
    BY <1>3, <1>5, Zenon
  <2>2. 0 \in Int
    OBVIOUS
  <2> QED
    BY <1>1, <1>4, <2>1, <2>2, FoldExists, Zenon
<1>8. \A s \in SUBSET S :
         g[s] = IF s = {} THEN 0
                ELSE (t[CHOOSE x \in s : TRUE].open - t[CHOOSE x \in s : TRUE].close)
                     + g[s \ {CHOOSE x \in s : TRUE}]
  <2> SUFFICES ASSUME NEW s \in SUBSET S
               PROVE  g[s] = IF s = {} THEN 0
                             ELSE (t[CHOOSE x \in s : TRUE].open - t[CHOOSE x \in s : TRUE].close)
                                  + g[s \ {CHOOSE x \in s : TRUE}]
    OBVIOUS
  <2> DEFINE y == CHOOSE x \in s : TRUE
  <2>1. g[s] = IF s = {} THEN 0 ELSE op[<<y, g[s \ {y}]>>]
    BY <1>5, <1>7, Zenon DEF IsFold
  <2>2. s # {} => y \in S /\ g[s \ {y}] \in Int
    <3>1. s # {} => y \in S
      BY <1>3
    <3> HIDE DEF y
    <3> QED
      BY <1>7, <3>1
  <2> HIDE DEF y
  <2>3. g[s] = IF s = {} THEN 0 ELSE (t[y].open - t[y].close) + g[s \ {y}]
    BY <1>6, <2>1, <2>2
  <2> QED
    BY <2>3 DEF y
<1>9. g = BracesTable(t, S, g)
  BY <1>7, <1>8, Zenon DEF BracesTable
<1> DEFINE h == CHOOSE f : f = BracesTable(t, S, f)
<1>10. h = BracesTable(t, S, h)
  BY <1>9, Zenon
<1>11. Braces(t, S) = h[S]
  BY BracesAsTable
<1> HIDE DEF h
<1>12. \A s \in SUBSET S :
          h[s] = IF s = {} THEN 0
                 ELSE (t[CHOOSE x \in s : TRUE].open - t[CHOOSE x \in s : TRUE].close)
                      + h[s \ {CHOOSE x \in s : TRUE}]
  BY <1>10, Zenon DEF BracesTable
<1>13. DOMAIN h = SUBSET S /\ h = [s \in SUBSET S |-> h[s]]
  BY <1>10, Zenon DEF BracesTable
\* Two folds of the same numbers are the same.
<1>14. h = g
  <2> DEFINE Bad == {s \in SUBSET S : h[s] # g[s]}
             Sizes == {Cardinality(s) : s \in Bad}
  <2>1. Bad = {}
    <3> SUFFICES ASSUME Bad # {} PROVE FALSE
      OBVIOUS
    <3>1. Sizes \subseteq Nat /\ Sizes # {}
      BY <1>1, SubsetCount
    <3>2. PICK m \in Sizes : \A j \in Sizes : m <= j
      BY <3>1, LeastExists
    <3>3. PICK s \in Bad : Cardinality(s) = m
      BY <3>2
    <3>4. s # {}
      BY <1>8, <1>12, <3>3
    <3> DEFINE y == CHOOSE x \in s : TRUE
    <3>5. y \in s
      BY <3>4
    <3>6. h[s] = (t[y].open - t[y].close) + h[s \ {y}] /\ g[s] = (t[y].open - t[y].close) + g[s \ {y}]
      BY <1>8, <1>12, <3>3, <3>4, Zenon
    <3> HIDE DEF y
    <3>7. s \ {y} \in SUBSET S /\ Cardinality(s \ {y}) = m - 1 /\ m \in Nat
      BY <1>1, <3>1, <3>3, <3>5, SubsetCount
    <3>8. s \ {y} \notin Bad
      <4> SUFFICES ASSUME s \ {y} \in Bad PROVE FALSE
        OBVIOUS
      <4>1. m - 1 \in Sizes
        BY <3>7
      <4> QED
        BY <3>2, <3>7, <4>1
    <3> QED
      BY <3>3, <3>6, <3>7, <3>8
  <2>2. \A s \in SUBSET S : h[s] = g[s]
    BY <2>1
  <2> QED
    BY <1>7, <1>13, <2>2
<1>15. Sums(g, SUBSET S, weight)
  <2>1. \A x \in S : weight[x] = t[x].open - t[x].close
    OBVIOUS
  <2>2. [x \in S |-> weight[x]] \in [S -> Int]
    BY <1>2, <2>1
  <2>3. g[{}] = 0
    BY <1>8
  <2>4. \A s \in SUBSET S : s # {} => \E x \in s : g[s] = weight[x] + g[s \ {x}]
    BY <1>3, <1>8, <2>1
  <2> HIDE DEF weight
  <2>5. \A s \in SUBSET S : s # {} => \E x \in s : g[s] = [y \in S |-> weight[y]][x] + g[s \ {x}]
    BY <2>4
  <2>6. Sums(g, SUBSET S, [x \in S |-> weight[x]])
    BY <1>1, <1>7, <2>2, <2>3, <2>5, SumsInAnyOrder
  <2> QED
    BY <2>6 DEF Sums
<1> QED
  BY <1>7, <1>11, <1>14, <1>15

\* The braces of one line more.
LEMMA BracesMore ==
    ASSUME NEW k \in Nat, NEW t \in [0 .. k -> Line], NEW S, S \subseteq 0 .. k
    PROVE  /\ Braces(t, S) \in Int
           /\ Braces(t, {}) = 0
           /\ \A n \in (0 .. k) \ S : Braces(t, S \cup {n}) = Braces(t, S) + (t[n].open - t[n].close)
<1> DEFINE weight == [x \in 0 .. k |-> t[x].open - t[x].close]
<1>1. PICK h \in [SUBSET S -> Int] : Braces(t, S) = h[S] /\ Sums(h, SUBSET S, weight)
  BY BracesSum
<1>2. Braces(t, {}) = 0
  <2>1. {} \subseteq 0 .. k
    OBVIOUS
  <2>2. PICK g \in [SUBSET {} -> Int] : Braces(t, {}) = g[{}] /\ Sums(g, SUBSET {}, weight)
    BY <2>1, BracesSum
  <2> QED
    BY <2>2 DEF Sums
<1>3. ASSUME NEW n \in (0 .. k) \ S
      PROVE  Braces(t, S \cup {n}) = Braces(t, S) + (t[n].open - t[n].close)
  <2> DEFINE T == S \cup {n}
  <2>1. T \subseteq 0 .. k /\ IsFiniteSet(S)
    <3>1. IsFiniteSet(0 .. k) /\ S \in SUBSET (0 .. k)
      BY FS_Interval
    <3> QED
      BY <3>1, FS_Subset
  <2>2. PICK g \in [SUBSET T -> Int] : Braces(t, T) = g[T] /\ Sums(g, SUBSET T, weight)
    BY <2>1, BracesSum
  <2>3. n \in T /\ T \ {n} = S /\ T \in SUBSET T /\ S \in SUBSET T /\ SUBSET S \subseteq SUBSET T
    OBVIOUS
  <2>4. g[T] = weight[n] + g[S]
    <3> HIDE DEF T, weight
    <3>1. \A y \in T : g[T] = weight[y] + g[T \ {y}]
      BY <2>2, <2>3 DEF Sums
    <3> QED
      BY <2>3, <3>1
  <2>5. h[S] = g[S]
    BY <1>1, <2>1, <2>2, <2>3, SumsAgree
  <2>6. weight[n] = t[n].open - t[n].close
    OBVIOUS
  <2>7. t[n].open \in Nat /\ t[n].close \in Nat /\ h[S] \in Int
    BY DEF Line
  <2> HIDE DEF weight, T
  <2>8. Braces(t, T) = (t[n].open - t[n].close) + Braces(t, S)
    BY <1>1, <2>2, <2>4, <2>5, <2>6
  <2>9. Braces(t, S) \in Int
    BY <1>1, <2>7
  <2> QED
    BY <2>7, <2>8, <2>9 DEF T
<1> QED
  BY <1>1, <1>2, <1>3

\* The class on top, as a line leaves it.
LEMMA TopFields ==
    ASSUME NEW c \in ClassInfo, NEW l \in Line, NEW n \in Nat
    PROVE  LET d == BeforeBody(c, l) b == Body(d, l, n) IN
           /\ d.linenum = c.linenum /\ b.linenum = c.linenum
           /\ d.seen_open_brace = (c.seen_open_brace \/ l.open > 0)
           /\ b.seen_open_brace = d.seen_open_brace
           /\ d.brace_depth = c.brace_depth
           /\ b.brace_depth = c.brace_depth + l.open - l.close
<1> DEFINE d == BeforeBody(c, l)
           b == Body(d, l, n)
<1>1. c.seen_open_brace \in BOOLEAN /\ l.open \in Nat /\ (l.open > 0) \in BOOLEAN
  <2>1. c.seen_open_brace \in BOOLEAN
    BY DEF ClassInfo
  <2>2. l.open \in Nat
    BY DEF Line
  <2> QED
    BY <2>1, <2>2
<1>2. /\ d.linenum = c.linenum /\ d.brace_depth = c.brace_depth
      /\ d.seen_open_brace = (c.seen_open_brace \/ l.open > 0)
      /\ DOMAIN d = DOMAIN c
  <2>1. CASE c.seen_open_brace
    <3>1. d = c
      BY <2>1 DEF BeforeBody
    <3>2. (c.seen_open_brace \/ l.open > 0) = c.seen_open_brace
      BY <1>1, <2>1
    <3> HIDE DEF d
    <3> QED
      BY <3>1, <3>2
  <2>2. CASE ~c.seen_open_brace
    <3>1. d = [c EXCEPT !.seen_open_brace = l.open > 0, !.is_derived = @ \/ l.colon]
      BY <2>2 DEF BeforeBody
    <3> HIDE DEF d
    <3>2. /\ d.linenum = c.linenum /\ d.brace_depth = c.brace_depth /\ DOMAIN d = DOMAIN c
          /\ d.seen_open_brace = (l.open > 0)
      BY <3>1 DEF ClassInfo
    <3>3. (c.seen_open_brace \/ l.open > 0) = (l.open > 0)
      BY <1>1, <2>2
    <3> QED
      BY <3>2, <3>3
  <2> QED
    BY <1>1, <2>1, <2>2
<1> HIDE DEF d
<1>3. DOMAIN c = {"linenum", "seen_open_brace", "is_derived", "virtual_method_linenumber",
                  "has_virtual_destructor", "brace_depth"}
  BY DEF ClassInfo
<1>4. /\ b.linenum = d.linenum /\ b.seen_open_brace = d.seen_open_brace
      /\ b.brace_depth = d.brace_depth + l.open - l.close
  BY <1>2, <1>3 DEF Body
<1> HIDE DEF b
<1> QED
  BY <1>2, <1>4 DEF b, d

\* Line n, the one after those of S, in the count of the class on top.
LEMMA CountsMore ==
    ASSUME NEW k \in Nat, NEW t \in [0 .. k -> Line], NEW n \in 0 .. k,
           NEW S, S = {m \in 0 .. k : m < n},
           NEW c \in ClassInfo, c.linenum <= n, CountsBraces(c, t, S)
    PROVE  LET d == BeforeBody(c, t[n]) IN
           CountsBraces(IF d.seen_open_brace THEN Body(d, t[n], n) ELSE d, t, S \cup {n})
<1> DEFINE T == S \cup {n}
           d == BeforeBody(c, t[n])
           e == IF d.seen_open_brace THEN Body(d, t[n], n) ELSE d
           From0(U) == {m \in U : m >= c.linenum}
           Open0(U) == {m \in From0(U) : t[m].open > 0}
<1>1. /\ t[n] \in Line /\ n \in Nat /\ t[n].open \in Nat /\ t[n].close \in Nat
      /\ c.linenum \in Nat /\ c.brace_depth \in Int /\ c.seen_open_brace \in BOOLEAN
  <2>1. t[n] \in Line /\ n \in Nat
    OBVIOUS
  <2>2. t[n].open \in Nat /\ t[n].close \in Nat
    BY <2>1 DEF Line
  <2>3. c.linenum \in Nat /\ c.brace_depth \in Int /\ c.seen_open_brace \in BOOLEAN
    BY DEF ClassInfo
  <2> QED
    BY <2>1, <2>2, <2>3
<1>2. /\ e.linenum = c.linenum
      /\ e.seen_open_brace = (c.seen_open_brace \/ t[n].open > 0)
      /\ e.brace_depth = IF c.seen_open_brace \/ t[n].open > 0
                         THEN c.brace_depth + t[n].open - t[n].close ELSE c.brace_depth
  <2> DEFINE l == t[n]
             b == Body(d, l, n)
  <2>1. /\ d.linenum = c.linenum /\ b.linenum = c.linenum
        /\ d.seen_open_brace = (c.seen_open_brace \/ l.open > 0)
        /\ b.seen_open_brace = d.seen_open_brace
        /\ d.brace_depth = c.brace_depth
        /\ b.brace_depth = c.brace_depth + l.open - l.close
    BY <1>1, TopFields
  <2>2. e = IF d.seen_open_brace THEN b ELSE d
    OBVIOUS
  <2> HIDE DEF b, d, e, l
  <2>3. CASE d.seen_open_brace
    <3>1. (c.seen_open_brace \/ l.open > 0) = TRUE
      BY <2>1, <2>3
    <3>2. e = b
      BY <2>2, <2>3
    <3> QED
      BY <2>1, <3>1, <3>2 DEF l
  <2>4. CASE ~d.seen_open_brace
    <3>1. ~(c.seen_open_brace \/ l.open > 0)
      BY <2>1, <2>4
    <3>2. e = d
      BY <2>2, <2>4
    <3> QED
      BY <2>1, <3>1, <3>2 DEF l
  <2> QED
    BY <2>3, <2>4
<1> HIDE DEF d, e
<1>3. /\ \A U : From(c, U) = From0(U) /\ From(e, U) = From0(U)
      /\ \A U : Opening(c, t, U) = Open0(U) /\ Opening(e, t, U) = Open0(U)
  BY <1>2 DEF From, Opening
<1>4. From0(T) = From0(S) \cup {n} /\ \A m \in S : m \in Nat /\ m < n
  BY <1>1
<1>5. Open0(T) = IF t[n].open > 0 THEN Open0(S) \cup {n} ELSE Open0(S)
  BY <1>1, <1>4
<1>6. IF c.seen_open_brace
      THEN Open0(S) # {} /\ c.brace_depth = Braces(t, {m \in From0(S) : m >= Min(Open0(S))})
      ELSE Open0(S) = {} /\ c.brace_depth = 0
  BY <1>3, Zenon DEF CountsBraces
<1>7. ASSUME c.seen_open_brace \/ t[n].open > 0
      PROVE  /\ Open0(T) # {}
             /\ c.brace_depth + t[n].open - t[n].close = Braces(t, {m \in From0(T) : m >= Min(Open0(T))})
  <2>1. CASE c.seen_open_brace
    <3> DEFINE body(U, o) == {m \in From0(U) : m >= o}
    <3>1. Open0(S) # {} /\ c.brace_depth = Braces(t, body(S, Min(Open0(S))))
      BY <1>6, <2>1
    <3>2. /\ Open0(S) \subseteq Nat /\ Open0(T) \subseteq Nat /\ Open0(S) \subseteq Open0(T)
          /\ Open0(T) # {}
          /\ \A m \in Open0(T) : m \in Open0(S) \/ m = n
          /\ \A m \in Open0(S) : m < n
      BY <1>1, <1>4, <1>5, <3>1
    <3> HIDE DEF Open0
    <3>3. /\ Min(Open0(S)) \in Open0(S) /\ \A m \in Open0(S) : Min(Open0(S)) <= m
          /\ Min(Open0(T)) \in Open0(T) /\ \A m \in Open0(T) : Min(Open0(T)) <= m
      BY <3>1, <3>2, MinIsLeast
    <3>4. Min(Open0(T)) = Min(Open0(S))
      <4> DEFINE a == Min(Open0(S))
                 z == Min(Open0(T))
      <4>1. a \in Nat /\ z \in Nat /\ a < n /\ z <= a /\ (z = n \/ a <= z)
        BY <3>2, <3>3
      <4> HIDE DEF a, z
      <4>2. z = a
        BY <1>1, <4>1
      <4> QED
        BY <4>2 DEF a, z
    <3> DEFINE o == Min(Open0(S))
    <3>5. o \in Nat /\ o < n
      BY <3>2, <3>3
    <3> HIDE DEF o
    <3>6. body(T, o) = body(S, o) \cup {n} /\ body(S, o) \subseteq 0 .. k /\ n \in (0 .. k) \ body(S, o)
      BY <1>1, <1>4, <3>5
    <3> HIDE DEF body
    <3>7. Braces(t, body(T, o)) = Braces(t, body(S, o)) + (t[n].open - t[n].close)
      BY <3>6, BracesMore
    <3>8. c.brace_depth = Braces(t, body(S, o))
      BY <3>1 DEF o
    <3>9. c.brace_depth + t[n].open - t[n].close = Braces(t, body(T, o))
      BY <1>1, <3>7, <3>8
    <3> QED
      BY <3>2, <3>4, <3>9 DEF o, body
  <2>2. CASE ~c.seen_open_brace
    <3>1. t[n].open > 0 /\ Open0(S) = {} /\ c.brace_depth = 0
      BY <1>6, <1>7, <2>2
    <3>2. Open0(T) = {n}
      BY <1>5, <3>1
    <3>3. Min({n}) = n
      <4>1. {n} \subseteq Nat /\ {n} # {}
        BY <1>1
      <4>2. Min({n}) \in {n}
        BY <4>1, MinIsLeast
      <4> QED
        BY <4>2
    <3>4. {m \in From0(T) : m >= n} = {} \cup {n}
      BY <1>1, <1>4
    <3>5. Braces(t, {} \cup {n}) = 0 + (t[n].open - t[n].close)
      <4>1. {} \subseteq 0 .. k /\ n \in (0 .. k) \ {}
        OBVIOUS
      <4> QED
        BY <4>1, BracesMore
    <3> HIDE DEF Open0, From0
    <3>6. Min(Open0(T)) = n
      BY <3>2, <3>3
    <3>7. Braces(t, {m \in From0(T) : m >= Min(Open0(T))}) = 0 + (t[n].open - t[n].close)
      BY <3>4, <3>5, <3>6
    <3>8. c.brace_depth + t[n].open - t[n].close = 0 + (t[n].open - t[n].close)
      BY <1>1, <3>1
    <3> QED
      BY <3>2, <3>7, <3>8
  <2> QED
    BY <1>1, <2>1, <2>2
<1>8. ASSUME ~(c.seen_open_brace \/ t[n].open > 0)
      PROVE  Open0(T) = {} /\ c.brace_depth = 0
  BY <1>5, <1>6, <1>8
<1> HIDE DEF From0, Open0, T
<1>9. CountsBraces(e, t, T)
  <2>1. CASE c.seen_open_brace \/ t[n].open > 0
    <3>1. e.seen_open_brace /\ e.brace_depth = c.brace_depth + t[n].open - t[n].close
      BY <1>2, <2>1
    <3> QED
      BY <1>3, <1>7, <2>1, <3>1, Zenon DEF CountsBraces
  <2>2. CASE ~(c.seen_open_brace \/ t[n].open > 0)
    <3>1. ~e.seen_open_brace /\ e.brace_depth = c.brace_depth
      BY <1>2, <2>2
    <3> QED
      BY <1>3, <1>8, <2>2, <3>1, Zenon DEF CountsBraces
  <2> QED
    BY <2>1, <2>2
<1> QED
  BY <1>9 DEF T, e, d

\* The stack once line n, the one after those of S, has declared its class.
LEMMA DeclaredNested ==
    ASSUME NEW k \in Nat, NEW t \in [0 .. k -> Line], NEW n \in 0 .. k,
           NEW S, S = {m \in 0 .. k : m < n},
           NEW stack \in Seq(ClassInfo), Nested(stack, t, S),
           Declared(stack, t[n], n) # <<>>
    PROVE  LET s == Declared(stack, t[n], n) T == S \cup {n} IN
           /\ s \in Seq(ClassInfo) /\ Rising(s)
           /\ \A i \in DOMAIN s : i < Len(s) => Entry(s[i], t, T)
           /\ Top(s) \in ClassInfo /\ Top(s).linenum \in T /\ t[Top(s).linenum].class
           /\ Alone(Top(s), t, T) => CountsBraces(Top(s), t, S)
<1> DEFINE s == Declared(stack, t[n], n)
           T == S \cup {n}
           x == s[Len(s)]
<1>1. n \in Nat /\ \A m \in S : m \in Nat /\ m < n
  OBVIOUS
<1>2. /\ \A i \in DOMAIN stack : Entry(stack[i], t, S) /\ stack[i].linenum \in S
      /\ Rising(stack)
  BY DEF Nested, Entry
<1>3. NewClass(n) \in ClassInfo /\ NewClass(n).linenum = n
  BY <1>1 DEF NewClass, ClassInfo
<1>4. /\ s \in Seq(ClassInfo) /\ Rising(s) /\ x \in ClassInfo
      /\ \A i \in DOMAIN s : i < Len(s) => i \in DOMAIN stack /\ s[i] = stack[i]
      /\ \A i \in DOMAIN s : i < Len(s) => s[i].linenum < x.linenum
      /\ IF t[n].class THEN x = NewClass(n) ELSE \E i \in DOMAIN stack : x = stack[i]
  <2>1. CASE t[n].class
    <3>1. s = Append(stack, NewClass(n))
      BY <2>1 DEF Declared
    <3> HIDE DEF s
    <3>2. /\ s \in Seq(ClassInfo) /\ Len(s) = Len(stack) + 1 /\ Len(stack) \in Nat
          /\ DOMAIN s = 1 .. Len(stack) + 1 /\ DOMAIN stack = 1 .. Len(stack)
          /\ \A i \in DOMAIN stack : s[i] = stack[i]
          /\ s[Len(s)] = NewClass(n)
      BY <1>3, <3>1
    <3>3. \A i \in DOMAIN s : i < Len(s) => i \in DOMAIN stack
      BY <3>2
    <3>4. \A i \in DOMAIN s : i < Len(s) => s[i].linenum < n
      BY <1>1, <1>2, <3>2, <3>3
    <3>5. Rising(s)
      <4> SUFFICES ASSUME NEW i \in DOMAIN s, NEW j \in DOMAIN s, i < j
                   PROVE  s[i].linenum < s[j].linenum
        BY DEF Rising
      <4>1. i < Len(s) /\ i \in DOMAIN stack
        BY <3>2
      <4>2. CASE j = Len(s)
        BY <1>3, <3>2, <3>4, <4>1, <4>2
      <4>3. CASE j # Len(s)
        <5>1. j < Len(s) /\ j \in DOMAIN stack
          BY <3>2, <4>3
        <5> QED
          BY <1>2, <3>2, <4>1, <5>1 DEF Rising
      <4> QED
        BY <4>2, <4>3
    <3> QED
      BY <1>3, <2>1, <3>2, <3>3, <3>4, <3>5
  <2>2. CASE ~t[n].class
    <3>1. s = stack
      BY <2>2 DEF Declared
    <3> HIDE DEF s
    <3>2. stack \in Seq(ClassInfo) /\ Len(stack) \in DOMAIN stack /\ stack[Len(stack)] \in ClassInfo
      BY <3>1 DEF s
    <3>3. \A i \in DOMAIN stack : i < Len(stack) => stack[i].linenum < stack[Len(stack)].linenum
      BY <1>2, <3>2 DEF Rising
    <3> QED
      BY <1>2, <2>2, <3>1, <3>2, <3>3
  <2> QED
    BY <2>1, <2>2
<1>5. x.linenum \in T /\ t[x.linenum].class
  <2>1. CASE t[n].class
    BY <1>3, <1>4, <2>1
  <2>2. CASE ~t[n].class
    BY <1>2, <1>4, <2>2 DEF Entry
  <2> QED
    BY <2>1, <2>2
<1> HIDE DEF s, x
<1>6. ASSUME NEW i \in DOMAIN s, i < Len(s)
      PROVE  Entry(s[i], t, T)
  <2>1. Entry(s[i], t, S)
    BY <1>2, <1>4, <1>6
  <2>2. s[i].linenum \in S /\ s[i].linenum < x.linenum /\ s[i].linenum \in Nat /\ x.linenum \in Nat
    BY <1>1, <1>4, <1>5, <1>6, <2>1 DEF Entry
  <2>3. x.linenum \in From(s[i], T) \ {s[i].linenum}
    BY <1>5, <2>2 DEF From
  <2>4. ~Alone(s[i], t, T)
    BY <1>5, <2>3 DEF Alone
  <2> QED
    BY <2>1, <2>4 DEF Entry
<1>7. Alone(x, t, T) => CountsBraces(x, t, S)
  <2>1. CASE t[n].class
    <3>1. x = NewClass(n)
      BY <1>4, <2>1
    <3>2. ~x.seen_open_brace /\ x.brace_depth = 0 /\ x.linenum = n
      BY <3>1 DEF NewClass
    <3>3. Opening(x, t, S) = {}
      BY <1>1, <3>2 DEF Opening, From
    <3> QED
      BY <3>2, <3>3 DEF CountsBraces
  <2>2. CASE ~t[n].class
    <3>1. Entry(x, t, S)
      BY <1>2, <1>4, <2>2
    <3>2. Alone(x, t, T) => Alone(x, t, S)
      BY DEF Alone, From
    <3> QED
      BY <3>1, <3>2 DEF Entry
  <2> QED
    BY <2>1, <2>2
<1> HIDE DEF T
<1> QED
  BY <1>4, <1>5, <1>6, <1>7 DEF Top, x, s, T

\* _ClassState, line n.
LEMMA NestedMore ==
    ASSUME NEW k \in Nat, NEW t \in [0 .. k -> Line], NEW n \in 0 .. k,
           NEW S, S = {m \in 0 .. k : m < n},
           NEW stack \in Seq(ClassInfo), Nested(stack, t, S)
    PROVE  Nested(ClassLine(stack, t[n], n), t, S \cup {n})
<1> DEFINE l == t[n]
           s == Declared(stack, l, n)
           T == S \cup {n}
           d == BeforeBody(Top(s), l)
           b == Body(d, l, n)
<1>1. CASE s = <<>>
  BY <1>1 DEF ClassLine, Nested, Rising
<1>2. CASE s # <<>>
  <2>1. /\ s \in Seq(ClassInfo) /\ Rising(s)
        /\ \A i \in DOMAIN s : i < Len(s) => Entry(s[i], t, T)
        /\ Top(s) \in ClassInfo /\ Top(s).linenum \in T /\ t[Top(s).linenum].class
        /\ Alone(Top(s), t, T) => CountsBraces(Top(s), t, S)
    BY <1>2, DeclaredNested
  <2>2. ClassLine(stack, l, n) \in
           {Pop(s)} \cup (IF ~d.seen_open_brace THEN {Append(Pop(s), d)} ELSE {})
                    \cup (IF d.seen_open_brace /\ ~(b.brace_depth <= 0) THEN {Append(Pop(s), b)} ELSE {})
    BY <1>2 DEF ClassLine
  <2>3. l \in Line /\ n \in Nat
    OBVIOUS
  <2> DEFINE x == Top(s)
             e == IF d.seen_open_brace THEN b ELSE d
  <2>4. /\ d.linenum = x.linenum /\ b.linenum = x.linenum
        /\ b.seen_open_brace = d.seen_open_brace
        /\ b.brace_depth = x.brace_depth + l.open - l.close
    BY <2>1, <2>3, TopFields
  <2>5. Alone(x, t, T) => CountsBraces(e, t, T)
    <3>1. x.linenum <= n
      BY <2>1
    <3> QED
      BY <2>1, <3>1, CountsMore
  <2>6. b.brace_depth \in Int
    <3>1. l.open \in Nat /\ l.close \in Nat
      BY <2>3 DEF Line
    <3>2. x.brace_depth \in Int
      BY <2>1 DEF ClassInfo
    <3> HIDE DEF b, l, x
    <3> QED
      BY <2>4, <3>1, <3>2
  <2> HIDE DEF s, d, b, x, T
  <2>7. ASSUME NEW f, f.linenum = x.linenum, f = e, f.seen_open_brace => f.brace_depth > 0
        PROVE  Entry(f, t, T)
    <3>1. Alone(f, t, T) => Alone(x, t, T)
      BY <2>7 DEF Alone, From
    <3> QED
      BY <2>1, <2>5, <2>7, <3>1 DEF Entry, x
  <2>8. /\ ~d.seen_open_brace => Entry(d, t, T)
        /\ d.seen_open_brace /\ ~(b.brace_depth <= 0) => Entry(b, t, T)
    BY <2>4, <2>6, <2>7
  <2>9. /\ Pop(s) \in Seq(ClassInfo) /\ DOMAIN Pop(s) = 1 .. Len(s) - 1 /\ Len(s) \in Nat
        /\ Len(Pop(s)) = Len(s) - 1 /\ DOMAIN s = 1 .. Len(s)
        /\ \A i \in DOMAIN Pop(s) : i \in DOMAIN s /\ i < Len(s) /\ Pop(s)[i] = s[i]
    <3>1. Len(s) \in Nat \ {0} /\ DOMAIN s = 1 .. Len(s)
      BY <1>2, <2>1
    <3>2. Pop(s) = [i \in 1 .. Len(s) - 1 |-> s[i]] /\ Len(s) - 1 \in Nat
      BY <3>1 DEF Pop
    <3>3. Pop(s) \in Seq(ClassInfo)
      BY <1>2, <2>1, PopFacts
    <3>4. /\ DOMAIN Pop(s) = 1 .. Len(s) - 1
          /\ \A i \in 1 .. Len(s) - 1 : Pop(s)[i] = s[i] /\ i < Len(s) /\ i \in 1 .. Len(s)
      BY <3>1, <3>2
    <3>5. Len(Pop(s)) = Len(s) - 1
      BY <3>2, <3>3, <3>4
    <3> QED
      BY <3>1, <3>3, <3>4, <3>5
  <2>10. Nested(Pop(s), t, T)
    BY <2>1, <2>9 DEF Nested, Rising
  <2>11. ASSUME NEW f, f.linenum = x.linenum, Entry(f, t, T)
         PROVE  Nested(Append(Pop(s), f), t, T)
    <3> DEFINE p == Pop(s)
               r == Append(p, f)
    <3>1. /\ DOMAIN r = 1 .. Len(s)
          /\ \A i \in DOMAIN r : IF i < Len(s) THEN i \in DOMAIN p /\ r[i] = s[i] ELSE r[i] = f
      <4>1. /\ DOMAIN r = 1 .. Len(p) + 1
            /\ \A i \in DOMAIN r : IF i <= Len(p) THEN r[i] = p[i] ELSE r[i] = f
        BY <2>9
      <4> HIDE DEF r, p
      <4> QED
        BY <1>2, <2>9, <4>1 DEF p
    <3> HIDE DEF r, p
    <3>2. \A i \in DOMAIN r : Entry(r[i], t, T)
      BY <2>1, <2>9, <2>11, <3>1
    <3>3. \A i, j \in DOMAIN r : i < j => r[i].linenum < r[j].linenum
      <4> SUFFICES ASSUME NEW i \in DOMAIN r, NEW j \in DOMAIN r, i < j
                   PROVE  r[i].linenum < r[j].linenum
        OBVIOUS
      <4>1. i \in DOMAIN s /\ j \in DOMAIN s /\ i < Len(s) /\ r[i] = s[i]
        BY <2>9, <3>1
      <4>2. s[i].linenum < s[j].linenum
        BY <2>1, <4>1 DEF Rising
      <4>3. r[j].linenum = s[j].linenum
        <5>1. CASE j < Len(s)
          BY <3>1, <5>1
        <5>2. CASE ~(j < Len(s))
          <6>1. j = Len(s)
            BY <2>9, <4>1, <5>2
          <6> QED
            BY <2>11, <3>1, <5>2, <6>1 DEF x, Top
        <5> QED
          BY <5>1, <5>2
      <4> QED
        BY <4>1, <4>2, <4>3
    <3> QED
      BY <3>2, <3>3 DEF Nested, Rising, r, p
  <2>12. /\ ~d.seen_open_brace => Nested(Append(Pop(s), d), t, T)
         /\ d.seen_open_brace /\ ~(b.brace_depth <= 0) => Nested(Append(Pop(s), b), t, T)
    BY <2>4, <2>8, <2>11
  <2> HIDE DEF l
  <2>13. Nested(ClassLine(stack, l, n), t, T)
    BY <2>2, <2>10, <2>12
  <2> QED
    BY <2>13 DEF l, T
<1> QED
  BY <1>1, <1>2

\* Every line of a file is parsed once, in order.
LEMMA ClassesCountedStep ==
    ASSUME TypeInv, ClassesCounted, [Next]_vars
    PROVE  ClassesCounted'
<1> SUFFICES ASSUME phase' \in Linting
             PROVE  Nested(classinfo_stack, text, LinesBefore)'
  BY DEF ClassesCounted
<1>1. CASE StartFile
  <2>1. classinfo_stack' = <<>>
    BY <1>1 DEF StartFile
  <2> QED
    BY <2>1 DEF Nested, Rising
<1>2. phase \in Linting \/ StartFile
  BY DEF Next, vars, SkipFile, ParseArgumentsStops, ParseArguments, Exit, Error,
         CheckForHeaderGuard, RemoveMultiLineComments, ParseNolintSuppressions, CheckStyle, CheckDies,
         CheckBracesLoop, CheckLanguage, FinishClasses, CheckForIncludeWhatYouUse,
         CheckForUnicodeReplacementCharacters, CheckEnd, Done, Linting, Phases
<1>3. phase \in Linting => Nested(classinfo_stack, text, LinesBefore)
  BY DEF ClassesCounted
<1>4. CASE RemoveMultiLineComments
  <2>1. phase \in Linting /\ classinfo_stack' = classinfo_stack
    BY <1>4 DEF RemoveMultiLineComments, parsers, Linting, Phases
  <2>2. \A i \in DOMAIN classinfo_stack : FALSE
    BY <1>3, <1>4, <2>1, NothingSeen DEF Nested, Entry
  <2> QED
    BY <2>1, <2>2 DEF Nested, Rising
<1>5. CASE CheckLanguage
  <2>1. PICK k \in Nat \ {0} : text \in [0 .. k -> Line] /\ DOMAIN text = 0 .. k /\ line \in 0 .. k
    BY StateFacts
  <2>2. classinfo_stack \in Seq(ClassInfo) /\ phase \in Linting
    BY <1>5 DEF TypeInv, TypeOK, CheckLanguage, Linting, Phases
  <2>3. LinesBefore = {n \in 0 .. k : n < line}
    BY <1>5, <2>1 DEF CheckLanguage, LinesBefore
  <2>4. LinesBefore' = LinesBefore \cup {line}
    BY <1>5, <2>1, <2>3, NextLine
  <2>5. text' = text /\ classinfo_stack' = ClassLine(classinfo_stack, text[line], line)
    BY <1>5 DEF CheckLanguage
  <2>6. Nested(ClassLine(classinfo_stack, text[line], line), text, LinesBefore \cup {line})
    BY <1>3, <2>1, <2>2, <2>3, NestedMore
  <2> QED
    BY <2>4, <2>5, <2>6
<1>6. CASE ~(StartFile \/ RemoveMultiLineComments \/ CheckLanguage)
  <2>1. phase \in Linting /\ text' = text /\ LinesBefore' = LinesBefore
    BY <1>2, <1>6, LinesSeen DEF CheckStyle
  <2>2. classinfo_stack' = classinfo_stack
    BY <1>6
       DEF Next, vars, parsers, SkipFile, ParseArgumentsStops, ParseArguments, Exit, Error,
           CheckForHeaderGuard, ParseNolintSuppressions, CheckStyle, CheckDies, CheckBracesLoop,
           FinishClasses, CheckForIncludeWhatYouUse, CheckForUnicodeReplacementCharacters,
           CheckEnd, Done
  <2> QED
    BY <1>3, <2>1, <2>2
<1> QED
  BY <1>1, <1>4, <1>5, <1>6

\* DepthIsCounted: whatever lines a file has, the braces that _ClassState counts
\* for a class in which no other has begun are those of the text, and the classes
\* on the stack are in the order of their lines.
THEOREM DepthsAreCounted == Spec => []DepthIsCounted
<1>1. Init => ClassesCounted
  BY DEF Init, ClassesCounted, Linting
<1>2. TypeInv /\ ClassesCounted /\ [Next]_vars => ClassesCounted'
  BY ClassesCountedStep
<1>3. ASSUME TypeInv, ClassesCounted PROVE DepthIsCounted
  <2> SUFFICES ASSUME phase \in Linting, NEW i \in DOMAIN classinfo_stack
               PROVE  LET c == classinfo_stack[i]
                          from == {n \in LinesBefore : n >= c.linenum}
                          brace == Min({n \in from : text[n].open > 0})
                          body == {n \in from : n >= brace}
                      IN /\ i > 1 => classinfo_stack[i - 1].linenum < c.linenum
                         /\ c.seen_open_brace => c.brace_depth > 0
                         /\ (c.seen_open_brace /\ \A n \in from \ {c.linenum} : ~text[n].class) =>
                               c.brace_depth = SumOf(LAMBDA n : text[n].open - text[n].close, body)
    BY DEF DepthIsCounted
  <2> DEFINE c == classinfo_stack[i]
             from == {n \in LinesBefore : n >= c.linenum}
             brace == Min({n \in from : text[n].open > 0})
             body == {n \in from : n >= brace}
  <2>1. Nested(classinfo_stack, text, LinesBefore) /\ classinfo_stack \in Seq(ClassInfo)
    BY <1>3 DEF ClassesCounted, TypeInv, TypeOK
  <2>2. i > 1 => classinfo_stack[i - 1].linenum < c.linenum
    <3>1. i > 1 => i - 1 \in DOMAIN classinfo_stack /\ i - 1 < i
      BY <2>1
    <3> QED
      BY <2>1, <3>1 DEF Nested, Rising
  <2>3. Entry(c, text, LinesBefore)
    BY <2>1 DEF Nested
  <2>4. from = From(c, LinesBefore) /\ brace = Min(Opening(c, text, LinesBefore))
    BY DEF From, Opening
  <2> HIDE DEF c, from, brace
  <2>5. c.seen_open_brace => c.brace_depth > 0
    BY <2>3 DEF Entry
  <2>6. (c.seen_open_brace /\ \A n \in from \ {c.linenum} : ~text[n].class) =>
            c.brace_depth = Braces(text, body)
    BY <2>3, <2>4, Zenon DEF Entry, Alone, CountsBraces
  <2>7. Braces(text, body) = SumOf(LAMBDA n : text[n].open - text[n].close, body)
    BY Zenon DEF Braces
  <2> QED
    BY <2>2, <2>5, <2>6, <2>7 DEF c, from, brace
<1> QED
  BY <1>1, <1>2, <1>3, InitTyped, TypeStep, PTL DEF Spec

=============================================================================
