--------------------------- MODULE CpplintProofs ----------------------------
(***************************************************************************)
(* TLAPS proofs about Cpplint, for any headers, directories, triggers and  *)
(* command lines.                                                          *)
(***************************************************************************)
EXTENDS Cpplint, FoldFacts

-----------------------------------------------------------------------------
(***************************************************************************)
(* Least and greatest line numbers.                                        *)
(***************************************************************************)
\* Min gives the least element of a set of natural numbers, ...
LEMMA MinIsLeast ==
    ASSUME NEW S, S \subseteq Nat, S # {}
    PROVE  Min(S) \in S /\ \A j \in S : Min(S) <= j
  BY LeastExists DEF Min

\* ... and Max the greatest one of a bounded set.
LEMMA MaxIsGreatest ==
    ASSUME NEW n \in Nat, NEW S, S \subseteq 0 .. n, S # {}
    PROVE  Max(S) \in S /\ \A j \in S : j <= Max(S)
<1> DEFINE T == {m \in 0 .. n : \A j \in S : j <= m}
<1>1. n \in T /\ T \subseteq Nat
  OBVIOUS
<1>2. PICK m \in T : \A j \in T : m <= j
  BY <1>1, LeastExists
<1>3. m \in S
  <2> SUFFICES ASSUME m \notin S PROVE FALSE
    OBVIOUS
  <2>1. PICK j \in S : TRUE
    OBVIOUS
  <2>2. m \in Nat /\ j \in Nat /\ j <= m /\ j # m
    BY <1>2, <2>1
  <2>3. m - 1 \in T
    BY <1>2, <2>2
  <2> QED
    BY <1>2, <2>2, <2>3
<1>4. \E k \in S : \A j \in S : k >= j
  BY <1>2, <1>3
<1>5. Max(S) \in S /\ \A j \in S : Max(S) >= j
  BY <1>4 DEF Max
<1> QED
  BY <1>5

-----------------------------------------------------------------------------
(***************************************************************************)
(* Lines and findings.                                                     *)
(***************************************************************************)
\* What stands in a NOLINT and is no category.
LEMMA NolintKinds ==
    /\ Unknown # NoLint /\ All \notin {Unknown, NoLint}
    /\ {All, Unknown, NoLint} \cap Categories = {}
<1>1. ASSUME NEW c \in Categories PROVE \E a, b : c = <<a, b>>
  <2>1. \/ c \in {"build"} \X {"class", "header_guard", "include", "include_alpha",
                                "include_order", "include_what_you_use"}
        \/ c \in {"readability"} \X {"braces", "casting", "fn_size", "multiline_comment",
                                      "nolint", "streams", "utf8"}
        \/ c \in {"runtime"} \X {"explicit", "threadsafe_fn", "virtual"}
        \/ c \in {"whitespace"} \X {"blank_line", "braces", "ending_newline", "newline", "tab"}
        \/ c = <<"legal", "copyright">>
    BY Zenon DEF Categories
  <2>2. \A S, T : c \in S \X T => c = <<c[1], c[2]>>
    OBVIOUS
  <2> QED
    BY <2>1, <2>2
<1>2. Unknown # NoLint /\ All \notin {Unknown, NoLint}
  BY DEF All, Unknown, NoLint
<1>3. ASSUME NEW c \in Categories PROVE c \notin {All, Unknown, NoLint}
  <2>1. PICK a, b : c = <<a, b>>
    BY <1>1
  <2>2. Len(c) = 2 /\ Len(All) = 1 /\ Len(Unknown) = 1 /\ Len(NoLint) = 1
    BY <2>1 DEF All, Unknown, NoLint
  <2> QED
    BY <2>2
<1> QED
  BY <1>2, <1>3

\* The line that stands for a comment is a line without anything in it.
LEMMA DummyFacts ==
    /\ Dummy \in Line
    /\ Dummy.nolint = NoLint /\ Dummy.text = "comment" /\ ~Dummy.starts /\ ~Dummy.ends
    /\ Dummy.include = NoHeader
    /\ ~Dummy.elseIf /\ Dummy.parens = 0 /\ ~Dummy.class
<1>1. /\ Dummy.nolint = NoLint /\ Dummy.text = "comment" /\ ~Dummy.starts /\ ~Dummy.ends
      /\ Dummy.include = NoHeader
      /\ ~Dummy.elseIf /\ Dummy.parens = 0 /\ ~Dummy.class
  BY DEF Dummy
<1>2. <<>> \in Seq(RuleFindings)
  OBVIOUS
<1>3. Dummy \in Line
  BY <1>2 DEF Dummy, Line
<1> QED
  BY <1>1, <1>3

\* When gives at most one finding.
LEMMA WhenIsSeq ==
    ASSUME NEW condition, NEW category \in Categories, NEW confidence \in 0 .. 5
    PROVE  When(condition, category, confidence) \in Seq(Findings)
<1>1. Finding(category, confidence) \in Findings
  BY DEF Finding, Findings
<1>2. <<Finding(category, confidence)>> \in Seq(Findings) /\ <<>> \in Seq(Findings)
  BY <1>1
<1> QED
  BY <1>2 DEF When

\* What the rules report are findings.
LEMMA RuleIsFinding == RuleFindings \subseteq Findings /\ Seq(RuleFindings) \subseteq Seq(Findings)
<1>1. RuleFindings \subseteq Findings
  BY DEF RuleFindings
<1>2. ASSUME NEW fs \in Seq(RuleFindings) PROVE fs \in Seq(Findings)
  <2>1. fs \in [1 .. Len(fs) -> RuleFindings] /\ Len(fs) \in Nat
    OBVIOUS
  <2>2. fs \in [1 .. Len(fs) -> Findings]
    BY <1>1, <2>1
  <2> QED
    BY <2>1, <2>2
<1> QED
  BY <1>1, <1>2

\* A rule gives at most one finding, not about the length of a function.
LEMMA RuleIsSeq ==
    ASSUME NEW condition, NEW category \in Categories, NEW confidence \in 0 .. 5,
           category # <<"readability", "fn_size">>
    PROVE  When(condition, category, confidence) \in Seq(RuleFindings)
<1>1. Finding(category, confidence) \in RuleFindings
  BY DEF Finding, Findings, RuleFindings
<1>2. <<Finding(category, confidence)>> \in Seq(RuleFindings) /\ <<>> \in Seq(RuleFindings)
  BY <1>1
<1> QED
  BY <1>2 DEF When

\* The top-level and the full categories are the keys of the counts.
LEMMA KeysOfCategories ==
    /\ Categories \subseteq Keys
    /\ \A c \in Categories : TopLevel(c) \in Keys
  BY DEF Keys

\* The calls that report findings at line n.
LEMMA AtIsSeq ==
    ASSUME phase \in Phases, NEW n \in Nat, NEW findings \in Seq(Findings)
    PROVE  /\ At(n, findings) \in Seq(Calls)
           /\ \A i \in DOMAIN At(n, findings) :
                 At(n, findings)[i].linenum = n /\ At(n, findings)[i].check = phase
<1>1. DOMAIN findings = 1 .. Len(findings) /\ Len(findings) \in Nat
  OBVIOUS
<1>2. ASSUME NEW i \in DOMAIN findings
      PROVE  [linenum |-> n, category |-> findings[i].category,
              confidence |-> findings[i].confidence, check |-> phase] \in Calls
  <2>1. findings[i] \in Findings
    OBVIOUS
  <2>2. findings[i].category \in Categories /\ findings[i].confidence \in 0 .. 5
    BY <2>1 DEF Findings
  <2> QED
    BY <2>2 DEF Calls
<1>3. /\ DOMAIN At(n, findings) = 1 .. Len(findings)
      /\ \A i \in DOMAIN findings :
            At(n, findings)[i] = [linenum |-> n, category |-> findings[i].category,
                                  confidence |-> findings[i].confidence, check |-> phase]
  BY <1>1 DEF At
<1>4. At(n, findings) \in [1 .. Len(findings) -> Calls]
  BY <1>1, <1>2 DEF At
<1>5. At(n, findings) \in Seq(Calls)
  BY <1>1, <1>4
<1> QED
  BY <1>1, <1>3, <1>5

\* The lines of a file, with the markers.
LEMMA MarkedLines ==
    ASSUME NEW lines \in Seq(Line)
    PROVE  /\ Len(lines) + 1 \in Nat
           /\ Marked(lines) \in [0 .. Len(lines) + 1 -> Line]
           /\ Marked(lines)[0] = Dummy /\ Marked(lines)[Len(lines) + 1] = Dummy
  BY DummyFacts DEF Marked

-----------------------------------------------------------------------------
(***************************************************************************)
(* What the checks report.                                                 *)
(***************************************************************************)
\* The categories of the model's checks, as the checks name them.
LEMMA CategoryNames ==
    /\ \A c \in {"class", "header_guard", "include", "include_alpha", "include_order",
                 "include_what_you_use"} : <<"build", c>> \in Categories
    /\ \A c \in {"braces", "casting", "fn_size", "multiline_comment", "nolint", "streams",
                 "utf8"} : <<"readability", c>> \in Categories
    /\ \A c \in {"explicit", "threadsafe_fn", "virtual"} : <<"runtime", c>> \in Categories
    /\ \A c \in {"blank_line", "braces", "ending_newline", "newline", "tab"} :
          <<"whitespace", c>> \in Categories
    /\ <<"legal", "copyright">> \in Categories
  BY DEF Categories

\* Of these only one is about the length of a function.
LEMMA RuleNames ==
    LET rules == Categories \ {<<"readability", "fn_size">>} IN
    /\ \A c \in {"class", "header_guard", "include", "include_alpha", "include_order",
                 "include_what_you_use"} : <<"build", c>> \in rules
    /\ \A c \in {"braces", "casting", "multiline_comment", "nolint", "streams", "utf8"} :
          <<"readability", c>> \in rules
    /\ \A c \in {"explicit", "threadsafe_fn", "virtual"} : <<"runtime", c>> \in rules
    /\ \A c \in {"blank_line", "braces", "ending_newline", "newline", "tab"} :
          <<"whitespace", c>> \in rules
    /\ <<"legal", "copyright">> \in rules
<1>1. \A a, b, c, d : <<a, b>> = <<c, d>> => a = c /\ b = d
  OBVIOUS
<1>2. /\ \A c : <<"build", c>> # <<"readability", "fn_size">>
      /\ \A c : c # "fn_size" => <<"readability", c>> # <<"readability", "fn_size">>
      /\ \A c : <<"runtime", c>> # <<"readability", "fn_size">>
      /\ \A c : <<"whitespace", c>> # <<"readability", "fn_size">>
      /\ <<"legal", "copyright">> # <<"readability", "fn_size">>
  BY <1>1
<1> QED
  BY <1>2, CategoryNames

\* CheckForFunctionLengths.
LEMMA FunctionFindings ==
    ASSUME NEW f, NEW lines, NEW n, NEW verbosity
    PROVE  CheckForFunctionLengths(f, lines, n, verbosity) \in Seq(Findings)
<1> DEFINE L == {l \in 0 .. 5 : l = 0 \/ Trigger(f) * 2 ^ l <= f.lines_in_function}
<1>1. L \subseteq 0 .. 5 /\ L # {}
  OBVIOUS
<1>2. Max(L) \in L
  BY <1>1, MaxIsGreatest
<1>3. Level(f) \in 0 .. 5
  BY <1>1, <1>2 DEF Level
<1> QED
  BY <1>3, WhenIsSeq, CategoryNames DEF CheckForFunctionLengths

\* CheckStyle, in the lines that surround n.
LEMMA StyleFindings ==
    ASSUME NEW lines, NEW n
    PROVE  CheckBraces(lines, n) \in Seq(RuleFindings) /\ SeveralCommands(lines, n) \in Seq(RuleFindings)
<1>1. ElseIf(lines, n) \in Seq(RuleFindings)
  BY RuleIsSeq, RuleNames DEF ElseIf
<1>2. \A c : /\ When(c, <<"whitespace", "braces">>, 4) \in Seq(RuleFindings)
             /\ When(c, <<"whitespace", "newline">>, 4) \in Seq(RuleFindings)
  BY RuleIsSeq, RuleNames
<1>3. CheckBraces(lines, n) \in Seq(RuleFindings)
  <2> DEFINE a == When(lines[n].lone = "{" /\ ~PreviousLine(lines, n).follows, <<"whitespace", "braces">>, 4)
             b == When(lines[n].else /\ PreviousLine(lines, n).lone = "}", <<"whitespace", "newline">>, 4)
             c == IF lines[n].elseIf /\ ~Raises(lines, n) THEN ElseIf(lines, n) ELSE <<>>
  <2>1. a \in Seq(RuleFindings) /\ b \in Seq(RuleFindings)
    BY <1>2
  <2>2. c \in Seq(RuleFindings)
    BY <1>1
  <2>3. CheckBraces(lines, n) = a \o b \o c
    BY DEF CheckBraces
  <2> HIDE DEF a, b, c
  <2> QED
    BY <2>1, <2>2, <2>3
<1> QED
  BY <1>2, <1>3 DEF SeveralCommands

\* The loop at the end of CheckBraces.
LEMMA SemicolonFindings ==
    ASSUME NEW lines, NEW n, NEW prev
    PROVE  SemicolonAfterBrace(lines, n, prev) \in Seq(RuleFindings)
<1>1. \A c : When(c, <<"readability", "braces">>, 4) \in Seq(RuleFindings)
  BY RuleIsSeq, RuleNames
<1> QED
  BY <1>1, Zenon DEF SemicolonAfterBrace

\* CheckSpacing, CheckLanguage and the checks after it.
LEMMA LanguageFindings ==
    ASSUME NEW lines, NEW n, NEW state, NEW stack, NEW f, NEW l \in Line
    PROVE  /\ CheckSpacing(lines, n) \in Seq(RuleFindings)
           /\ CheckIncludeLine(state, f, l) \in Seq(RuleFindings)
           /\ CheckExplicit(stack, l, n) \in Seq(RuleFindings)
           /\ CheckVirtual(stack, l, n) \in Seq(RuleFindings)
           /\ CheckFinished(stack) \in Seq(RuleFindings)
           /\ l.style \in Seq(RuleFindings) /\ l.language \in Seq(RuleFindings) /\ l.other \in Seq(RuleFindings)
<1>1. \A c : /\ When(c, <<"whitespace", "blank_line">>, 2) \in Seq(RuleFindings)
             /\ When(c, <<"whitespace", "blank_line">>, 3) \in Seq(RuleFindings)
             /\ When(c, <<"build", "include">>, 4) \in Seq(RuleFindings)
             /\ When(c, <<"build", "include_order">>, 4) \in Seq(RuleFindings)
             /\ When(c, <<"build", "include_alpha">>, 4) \in Seq(RuleFindings)
             /\ When(c, <<"readability", "streams">>, 3) \in Seq(RuleFindings)
             /\ When(c, <<"runtime", "explicit">>, 5) \in Seq(RuleFindings)
             /\ When(c, <<"runtime", "virtual">>, 4) \in Seq(RuleFindings)
             /\ When(c, <<"build", "class">>, 5) \in Seq(RuleFindings)
  BY RuleIsSeq, RuleNames
<1>2. CheckSpacing(lines, n) \in Seq(RuleFindings)
  BY <1>1 DEF CheckSpacing
<1>3. CheckIncludeLine(state, f, l) \in Seq(RuleFindings)
  <2> DEFINE again == state.included[l.include] # 0
             type == ClassifyInclude(f, l.include, l.angle)
             r1 == When(~l.angle /\ l.include.dir = "" /\ l.include.ext = "h", <<"build", "include">>, 4)
             r2 == When(again, <<"build", "include">>, 4)
             r3 == When(~again /\ OutOfOrder(state.section, type), <<"build", "include_order">>, 4)
             r4 == When(~again /\ OutOfAlphabet(state, f, l), <<"build", "include_alpha">>, 4)
             r5 == When(l.include \in Streams /\ ~IsTestFilename(f), <<"readability", "streams">>, 3)
  <2>1. /\ r1 \in Seq(RuleFindings) /\ r2 \in Seq(RuleFindings) /\ r3 \in Seq(RuleFindings)
        /\ r4 \in Seq(RuleFindings) /\ r5 \in Seq(RuleFindings)
    BY <1>1
  <2>2. CheckIncludeLine(state, f, l) = r1 \o r2 \o r3 \o r4 \o r5
    BY DEF CheckIncludeLine
  <2> HIDE DEF r1, r2, r3, r4, r5
  <2> QED
    BY <2>1, <2>2
<1>4. /\ CheckExplicit(stack, l, n) \in Seq(RuleFindings)
      /\ CheckVirtual(stack, l, n) \in Seq(RuleFindings)
      /\ CheckFinished(stack) \in Seq(RuleFindings)
  BY <1>1 DEF CheckExplicit, CheckVirtual, CheckFinished
<1>5. l.style \in Seq(RuleFindings) /\ l.language \in Seq(RuleFindings) /\ l.other \in Seq(RuleFindings)
  BY DEF Line
<1> QED
  BY <1>2, <1>3, <1>4, <1>5

-----------------------------------------------------------------------------
(***************************************************************************)
(* The parsers stay in their domains.                                      *)
(***************************************************************************)
\* _FunctionState.
LEMMA FunctionTyped ==
    ASSUME NEW f \in FunctionState, NEW lines, NEW n \in DOMAIN lines, lines[n] \in Line
    PROVE  FunctionLine(f, lines, n) \in FunctionState
<1>1. lines[n].decl \in {"no", "name", "TEST"}
  BY DEF Line
<1>2. lines[n].decl # "no" => Begin(lines[n].decl) \in FunctionState
  BY <1>1 DEF Begin, FunctionState
<1>3. End(f) \in FunctionState
  BY DEF End, FunctionState
<1>4. Count(f) \in FunctionState
  <2>1. f.in_a_function \in BOOLEAN /\ f.lines_in_function \in Nat
    BY DEF FunctionState
  <2>2. \A k \in Nat : [f EXCEPT !.lines_in_function = k] \in FunctionState
    BY DEF FunctionState
  <2>3. f.lines_in_function + 1 \in Nat
    BY <2>1
  <2>4. [f EXCEPT !.lines_in_function = f.lines_in_function + 1] \in FunctionState
    BY <2>2, <2>3
  <2> QED
    BY <2>4 DEF Count
<1> QED
  BY <1>2, <1>3, <1>4 DEF FunctionLine, Opens

\* The stack without its top.
LEMMA PopFacts ==
    ASSUME NEW s \in Seq(ClassInfo), s # <<>>
    PROVE  /\ Pop(s) \in Seq(ClassInfo)
           /\ \A i \in DOMAIN Pop(s) : i \in DOMAIN s /\ Pop(s)[i] = s[i]
<1>1. Len(s) \in Nat \ {0} /\ DOMAIN s = 1 .. Len(s)
  OBVIOUS
<1>2. Pop(s) = [i \in 1 .. Len(s) - 1 |-> s[i]]
  BY <1>1 DEF Pop
<1>3. \A i \in 1 .. Len(s) - 1 : i \in DOMAIN s /\ s[i] \in ClassInfo
  BY <1>1
<1>4. Pop(s) \in [1 .. Len(s) - 1 -> ClassInfo] /\ Len(s) - 1 \in Nat
  BY <1>1, <1>2, <1>3
<1> QED
  BY <1>2, <1>3, <1>4

\* _ClassState; line n brings at most its own class, on top.
LEMMA ClassTyped ==
    ASSUME NEW stack \in Seq(ClassInfo), NEW l \in Line, NEW n \in Nat
    PROVE  /\ ClassLine(stack, l, n) \in Seq(ClassInfo)
           /\ \A i \in DOMAIN ClassLine(stack, l, n) :
                 ClassLine(stack, l, n)[i].linenum \in {n} \cup {stack[j].linenum : j \in DOMAIN stack}
           /\ InClassBody(stack, l, n) =>
                 /\ ClassAt(stack, l, n).linenum \in Nat
                 /\ ClassAt(stack, l, n).linenum \in {n} \cup {stack[j].linenum : j \in DOMAIN stack}
<1> DEFINE Lines == {n} \cup {stack[j].linenum : j \in DOMAIN stack}
           s == Declared(stack, l, n)
<1>1. NewClass(n) \in ClassInfo /\ NewClass(n).linenum = n
  BY DEF NewClass, ClassInfo
<1>2. s \in Seq(ClassInfo) /\ \A i \in DOMAIN s : s[i].linenum \in Lines
  BY <1>1 DEF Declared
<1>3. CASE s = <<>>
  BY <1>3 DEF ClassLine, InClassBody
<1>4. CASE s # <<>>
  <2> DEFINE c == BeforeBody(Top(s), l)
             b == Body(c, l, n)
  <2>1. Len(s) \in DOMAIN s /\ Top(s) \in ClassInfo /\ Top(s).linenum \in Lines
    BY <1>2, <1>4 DEF Top
  <2>2. l.open \in Nat /\ l.close \in Nat /\ l.colon \in BOOLEAN
    BY DEF Line
  <2>3. c \in ClassInfo /\ c.linenum = Top(s).linenum
    <3> DEFINE t == Top(s)
    <3>1. (l.open > 0) \in BOOLEAN /\ (t.is_derived \/ l.colon) \in BOOLEAN
      BY <2>2
    <3>2. [t EXCEPT !.seen_open_brace = l.open > 0, !.is_derived = @ \/ l.colon] \in ClassInfo
      BY <2>1, <3>1 DEF ClassInfo
    <3>3. [t EXCEPT !.seen_open_brace = l.open > 0, !.is_derived = @ \/ l.colon].linenum = t.linenum
      BY <2>1 DEF ClassInfo
    <3> QED
      BY <2>1, <3>2, <3>3 DEF BeforeBody
  <2>4. b \in ClassInfo /\ b.linenum = Top(s).linenum
    <3>1. /\ (IF l.virtual = "no" THEN c.virtual_method_linenumber ELSE n) \in Nat \cup {-1}
          /\ (c.has_virtual_destructor \/ l.virtual = "destructor") \in BOOLEAN
          /\ c.brace_depth + l.open - l.close \in Int
      BY <2>2, <2>3 DEF ClassInfo
    <3> QED
      BY <2>3, <3>1 DEF Body, ClassInfo
  <2>5. Pop(s) \in Seq(ClassInfo) /\ \A i \in DOMAIN Pop(s) : Pop(s)[i].linenum \in Lines
    BY <1>2, <1>4, PopFacts
  <2>6. ASSUME NEW d \in ClassInfo, d.linenum = Top(s).linenum
        PROVE  /\ Append(Pop(s), d) \in Seq(ClassInfo)
               /\ \A i \in DOMAIN Append(Pop(s), d) : Append(Pop(s), d)[i].linenum \in Lines
    <3> DEFINE p == Pop(s)
    <3>1. p \in Seq(ClassInfo) /\ \A i \in DOMAIN p : p[i].linenum \in Lines
      BY <2>5
    <3>2. d.linenum \in Lines
      BY <2>1, <2>6
    <3> HIDE DEF p
    <3>3. /\ Append(p, d) \in Seq(ClassInfo)
          /\ \A i \in DOMAIN Append(p, d) :
                (i \in DOMAIN p /\ Append(p, d)[i] = p[i]) \/ Append(p, d)[i] = d
      BY <3>1
    <3> QED
      BY <3>1, <3>2, <3>3 DEF p
  <2>7. ClassLine(stack, l, n) \in {Pop(s), Append(Pop(s), c), Append(Pop(s), b)}
    BY <1>4 DEF ClassLine
  <2>8. ClassAt(stack, l, n) = b
    BY DEF ClassAt
  <2>9. ClassAt(stack, l, n).linenum \in Lines /\ ClassAt(stack, l, n).linenum \in Nat
    BY <2>1, <2>4, <2>8 DEF ClassInfo
  <2>10. /\ ClassLine(stack, l, n) \in Seq(ClassInfo)
         /\ \A i \in DOMAIN ClassLine(stack, l, n) : ClassLine(stack, l, n)[i].linenum \in Lines
    BY <2>3, <2>4, <2>5, <2>6, <2>7
  <2> QED
    BY <2>9, <2>10
<1> QED
  BY <1>3, <1>4

\* CheckNextIncludeOrder never takes the section back.
LEMMA SectionRises ==
    ASSUME NEW section \in INITIAL .. OTHER_H, NEW type
    PROVE  NextSection(section, type) \in INITIAL .. OTHER_H /\ NextSection(section, type) >= section
<1>1. CASE OutOfOrder(section, type)
  BY <1>1 DEF NextSection, INITIAL, OTHER_H
<1>2. CASE ~OutOfOrder(section, type)
  <2>1. /\ NextSection(section, type) \in {C, CPP, MY_H, OTHER_H}
        /\ NextSection(section, type) = C => type = C_SYS
        /\ NextSection(section, type) = CPP => type = CPP_SYS
        /\ NextSection(section, type) = MY_H => section <= MY_H
    BY <1>2 DEF NextSection, C, CPP, MY_H, OTHER_H
  <2> QED
    BY <1>2, <2>1 DEF OutOfOrder, INITIAL, C, CPP, MY_H, OTHER_H
<1> QED
  BY <1>1, <1>2

\* _IncludeState.
LEMMA IncludeTyped ==
    ASSUME NEW state \in IncludeState, NEW f, NEW l \in Line, NEW n \in Nat
    PROVE  /\ IncludeLine(state, f, l, n) \in IncludeState
           /\ IncludeLine(state, f, l, n).section >= state.section
<1> DEFINE type == ClassifyInclude(f, l.include, l.angle)
<1>1. state.section \in INITIAL .. OTHER_H /\ state.last_header \in Nat
      /\ state.included \in [Headers -> Nat]
  BY DEF IncludeState
<1>2. NextSection(state.section, type) \in INITIAL .. OTHER_H
      /\ NextSection(state.section, type) >= state.section
  BY <1>1, SectionRises
<1>3. CASE l.include = NoHeader \/ state.included[l.include] # 0
  <2>1. IncludeLine(state, f, l, n) = state
    BY <1>3 DEF IncludeLine
  <2> QED
    BY <1>1, <2>1 DEF INITIAL, OTHER_H
<1>4. CASE ~(l.include = NoHeader \/ state.included[l.include] # 0)
  <2>1. l.include \in Headers
    BY <1>4 DEF Line
  <2>2. NewLastHeader(state, f, l) \in Nat
    BY <1>1, <2>1, NamesAssumption DEF NewLastHeader, LastHeader
  <2>3. IncludeLine(state, f, l, n) =
          [included |-> [state.included EXCEPT ![l.include] = n],
           section |-> NextSection(state.section, type), last_header |-> NewLastHeader(state, f, l)]
    BY <1>4 DEF IncludeLine
  <2> QED
    <3>1. [state.included EXCEPT ![l.include] = n] \in [Headers -> Nat]
      BY <1>1
    <3> QED
      BY <1>2, <2>2, <2>3, <3>1 DEF IncludeState
<1> QED
  BY <1>3, <1>4

-----------------------------------------------------------------------------
(***************************************************************************)
(* The type invariant.                                                     *)
(***************************************************************************)
\* What TypeOK leaves open: the text has two markers, it has as many lines as the
\* file it is made from, and calls of Error are made on behalf of a file.
Shaped ==
    /\ \E k \in Nat \ {0} : text \in [0 .. k -> Line] /\ ~text[k].ends
    /\ phase \in Linting => fileno > 0 /\ DOMAIN text = DOMAIN Raw(CurrentFile)
    /\ phase \in {"start", "exited"} => calls = <<>>
    /\ calls # <<>> => fileno > 0
    /\ phase = "start" => printed = <<>> /\ error_count = 0 /\ errors_by_category = NoErrors
    /\ phase = "include what you use" => missing \subseteq Required(text)

TypeInv == TypeOK /\ Shaped

\* The files of the command line.
LEMMA FileFacts ==
    ASSUME command \in CommandLine
    PROVE  /\ Len(command.files) \in Nat /\ Len(command.opts) \in Nat
           /\ \A i \in 1 .. Len(command.files) :
                 LET f == command.files[i] IN
                 /\ f \in File /\ f.lines \in Seq(Line) /\ Len(f.lines) \in Nat \ {0}
                 /\ Raw(f) \in [0 .. Len(f.lines) + 1 -> Line]
                 /\ Raw(f)[0] = Dummy /\ Raw(f)[Len(f.lines) + 1] = Dummy
<1>1. command.files \in Seq(File) /\ command.opts \in Seq(Option)
  BY DEF CommandLine
<1>2. ASSUME NEW f \in File
      PROVE  /\ f.lines \in Seq(Line) /\ Len(f.lines) \in Nat \ {0}
             /\ Raw(f) \in [0 .. Len(f.lines) + 1 -> Line]
             /\ Raw(f)[0] = Dummy /\ Raw(f)[Len(f.lines) + 1] = Dummy
  <2>1. f.lines \in Seq(Line) /\ f.lines # <<>>
    BY DEF File
  <2>2. Len(f.lines) \in Nat /\ Len(f.lines) # 0
    BY <2>1
  <2> QED
    BY <2>1, <2>2, MarkedLines DEF Raw
<1>3. \A i \in 1 .. Len(command.files) : command.files[i] \in File
  BY <1>1
<1> QED
  BY <1>1, <1>2, <1>3

\* The lines of the text are numbered from 0.
LEMMA TextFacts ==
    ASSUME NEW lines, NEW k \in Nat, lines \in [0 .. k -> Line]
    PROVE  /\ DOMAIN lines = 0 .. k /\ NumLines(lines) = k + 1 /\ 0 \in DOMAIN lines
           /\ \A S \in SUBSET DOMAIN lines :
                 S # {} => /\ Min(S) \in S /\ \A j \in S : Min(S) <= j
                           /\ Max(S) \in S /\ \A j \in S : j <= Max(S)
<1>1. DOMAIN lines = 0 .. k /\ 0 .. k \subseteq Nat
  OBVIOUS
<1>2. Cardinality(0 .. k) = k + 1
  BY FS_Interval
<1>3. ASSUME NEW S \in SUBSET DOMAIN lines, S # {}
      PROVE  /\ Min(S) \in S /\ \A j \in S : Min(S) <= j
             /\ Max(S) \in S /\ \A j \in S : j <= Max(S)
  <2>1. S \subseteq 0 .. k /\ S \subseteq Nat
    BY <1>1
  <2> QED
    BY <1>3, <2>1, MinIsLeast, MaxIsGreatest
<1> QED
  BY <1>1, <1>2, <1>3 DEF NumLines

\* The lines of the header guard are lines of the text.
LEMMA GuardLines ==
    ASSUME NEW k \in Nat, text \in [0 .. k -> Line]
    PROVE  LastEndif \in DOMAIN text /\ \A kind : FirstOf(kind) \in DOMAIN text
<1>1. \A S \in SUBSET DOMAIN text : MinOr(S, 0) \in DOMAIN text /\ MaxOr(S, 0) \in DOMAIN text
  BY TextFacts DEF MinOr, MaxOr
<1> QED
  BY <1>1 DEF FirstOf, LastEndif

\* What CheckForIncludeWhatYouUse reports.
LEMMA MissingLines ==
    ASSUME NEW k \in Nat, text \in [0 .. k -> Line]
    PROVE  /\ \A f, included : Missing(f, text, included) \subseteq Required(text)
           /\ Required(text) \subseteq Headers
           /\ \A h \in Required(text) : LastUse(text, h) \in DOMAIN text
<1>1. \A f, included : Missing(f, text, included) \subseteq Required(text)
  BY DEF Missing
<1>2. Required(text) \subseteq Headers
  BY DEF Required
<1>3. ASSUME NEW h \in Required(text) PROVE LastUse(text, h) \in DOMAIN text
  <2>1. Uses(text, h) # {} /\ \A u \in Uses(text, h) : u[1] \in DOMAIN text
    BY DEF Required, Uses
  <2>2. {u[1] : u \in Uses(text, h)} # {} /\ {u[1] : u \in Uses(text, h)} \subseteq DOMAIN text
    BY <2>1
  <2> QED
    BY <2>2, TextFacts DEF LastUse
<1> QED
  BY <1>1, <1>2, <1>3

\* A run begins with two markers and no file.
LEMMA InitTyped == Init => TypeInv
<1> SUFFICES ASSUME Init PROVE TypeInv
  OBVIOUS
<1>1. command \in CommandLine /\ Len(command.files) \in Nat
  BY CommandLinesAssumption, FileFacts DEF Init
<1>2. text \in [0 .. 1 -> Line] /\ ~text[1].ends
  <2>1. <<>> \in Seq(Line) /\ Len(<<>>) + 1 = 1
    OBVIOUS
  <2>2. Marked(<<>>) \in [0 .. Len(<<>>) + 1 -> Line] /\ ~Marked(<<>>)[Len(<<>>) + 1].ends
    BY <2>1, MarkedLines, DummyFacts
  <2> QED
    BY <2>1, <2>2 DEF Init
<1>3. NoErrors \in [Keys -> Nat]
  BY DEF NoErrors
<1>4. NoIncludes \in IncludeState /\ NoFunction \in FunctionState
  <2>1. [h \in Headers |-> 0] \in [Headers -> Nat]
    OBVIOUS
  <2> QED
    BY <2>1 DEF NoIncludes, IncludeState, NoFunction, FunctionState, INITIAL, OTHER_H
<1>5. \A S : <<>> \in Seq(S)
  OBVIOUS
<1>6. TypeOK
  BY <1>1, <1>2, <1>3, <1>4, <1>5 DEF Init, TypeOK, Phases
<1>7. Shaped
  <2>1. 1 \in Nat \ {0} /\ phase = "start" /\ phase \notin Linting
    BY DEF Init, Linting
  <2>2. calls = <<>> /\ printed = <<>> /\ error_count = 0 /\ errors_by_category = NoErrors
    BY DEF Init
  <2> QED
    BY <1>2, <2>1, <2>2 DEF Shaped
<1> QED
  BY <1>6, <1>7 DEF TypeInv

\* What the type invariant says of the current line and the current file.
LEMMA StateFacts ==
    ASSUME TypeInv
    PROVE  /\ phase \in Phases /\ fileno \in Nat /\ Len(command.files) \in Nat
           /\ \E k \in Nat \ {0} :
                 /\ text \in [0 .. k -> Line] /\ DOMAIN text = 0 .. k /\ NumLines(text) = k + 1
                 /\ line \in 0 .. k /\ text[line] \in Line /\ ~text[k].ends
           /\ phase \in Linting => fileno \in 1 .. Len(command.files)
           /\ fileno \in 0 .. Len(command.files)
<1>1. PICK k \in Nat \ {0} : text \in [0 .. k -> Line] /\ ~text[k].ends
  BY DEF TypeInv, Shaped
<1>2. DOMAIN text = 0 .. k /\ NumLines(text) = k + 1
  BY <1>1, TextFacts
<1>3. line \in 0 .. k /\ text[line] \in Line
  BY <1>1, <1>2 DEF TypeInv, TypeOK
<1>4. phase \in Phases /\ fileno \in 0 .. Len(command.files) /\ Len(command.files) \in Nat
  BY FileFacts DEF TypeInv, TypeOK
<1>5. phase \in Linting => fileno > 0
  BY DEF TypeInv, Shaped
<1>6. phase \in Linting => fileno \in 1 .. Len(command.files)
  BY <1>4, <1>5
<1>7. fileno \in Nat
  BY <1>4
<1> QED
  BY <1>1, <1>2, <1>3, <1>4, <1>6, <1>7

\* A step that leaves the text and the file keeps their shape.
LEMMA ShapeKept ==
    ASSUME TypeInv, UNCHANGED <<command, fileno, text>>,
           phase' \in Linting => phase \in Linting,
           phase' # "start", phase' # "include what you use",
           phase' = "exited" => calls' = <<>>,
           calls' # <<>> => phase \in Linting \/ calls # <<>>
    PROVE  Shaped'
<1>1. PICK k \in Nat \ {0} : text' \in [0 .. k -> Line] /\ ~text'[k].ends
  BY StateFacts
<1>2. CurrentFile' = CurrentFile
  BY DEF CurrentFile
<1>3. phase' \in Linting => fileno' > 0 /\ DOMAIN text' = DOMAIN (Raw(CurrentFile)')
  BY <1>2 DEF TypeInv, Shaped, Raw
<1>4. calls' # <<>> => fileno' > 0
  BY DEF TypeInv, Shaped
<1> QED
  BY <1>1, <1>3, <1>4 DEF Shaped, Linting

\* A call of Error counts and prints the finding, or drops it.
LEMMA ErrorTyped ==
    ASSUME TypeInv, Error
    PROVE  TypeInv'
<1>1. calls \in Seq(Calls) /\ calls # <<>> /\ fileno \in Nat
  BY StateFacts DEF TypeInv, TypeOK, Error
<1>2. Head(calls) \in Calls /\ calls' \in Seq(Calls)
  BY <1>1 DEF Error
<1>3. /\ error_count' \in Nat
      /\ errors_by_category' \in [Keys -> Nat]
      /\ printed' \in Seq(Report)
  <2>1. CASE ~ShouldPrintError(Head(calls))
    BY <2>1 DEF Error, counts, TypeInv, TypeOK
  <2>2. CASE ShouldPrintError(Head(calls))
    <3> DEFINE c == Head(calls)
               r == [fileno |-> fileno, linenum |-> c.linenum,
                     category |-> c.category, confidence |-> c.confidence, check |-> c.check]
    <3>1. IncrementErrorCount(c.category) /\ printed' = Append(printed, r)
      BY <2>2 DEF Error
    <3>2. r \in Report
      BY <1>1, <1>2 DEF Report, Calls
    <3> HIDE DEF c, r
    <3>7. printed \in Seq(Report) /\ error_count \in Nat
      BY DEF TypeInv, TypeOK
    <3>3. printed' \in Seq(Report)
      BY <3>1, <3>2, <3>7
    <3>8. error_count' = error_count + 1
      BY <3>1 DEF IncrementErrorCount
    <3>4. error_count' \in Nat
      BY <3>7, <3>8
    <3>5. \A k \in Keys : errors_by_category[k] \in Nat
      BY DEF TypeInv, TypeOK
    <3>6. errors_by_category' \in [Keys -> Nat]
      BY <3>1, <3>5 DEF IncrementErrorCount
    <3> QED
      BY <3>3, <3>4, <3>6
  <2> QED
    BY <2>1, <2>2
<1>4. TypeOK'
  BY <1>2, <1>3 DEF TypeInv, TypeOK, Error, settings, parsers
<1>5. phase \notin {"start", "exited"}
  BY <1>1 DEF TypeInv, Shaped
<1>6. Shaped'
  BY <1>1, <1>5 DEF TypeInv, Shaped, Error, settings, CurrentFile, Linting
<1> QED
  BY <1>4, <1>6 DEF TypeInv

\* The values of an option are those it was given with.
LEMMA OptionFacts ==
    ASSUME command \in CommandLine
    PROVE  /\ \A o : Given(o) # {} => Max(Given(o)) \in DOMAIN command.opts
           /\ \A i \in DOMAIN command.opts : command.opts[i] \in Option
           /\ GivenFilters \in Seq(Filter)
           /\ DEFAULT_FILTERS \in Seq(Filter)
<1>1. command.opts \in Seq(Option) /\ Len(command.opts) \in Nat
  BY DEF CommandLine
<1>2. \A o : Given(o) \subseteq 0 .. Len(command.opts) /\ Given(o) \subseteq DOMAIN command.opts
  BY <1>1 DEF Given
<1>3. \A o : Given(o) # {} => Max(Given(o)) \in DOMAIN command.opts
  BY <1>1, <1>2, MaxIsGreatest
<1>4. \A i \in DOMAIN command.opts : command.opts[i] \in Option
  BY <1>1
<1>5. GivenFilters \in Seq(Filter)
  <2>1. \A i \in DOMAIN command.opts : command.opts[i].filters \in Seq(Filter)
    BY <1>4 DEF Option
  <2>2. <<>> \in Seq(Filter)
    OBVIOUS
  <2> QED
    BY <1>3, <2>1, <2>2 DEF GivenFilters
<1>6. [sign |-> "-", covers |-> {<<"build", "include_alpha">>}] \in Filter
  BY CategoryNames DEF Filter
<1>7. DEFAULT_FILTERS \in Seq(Filter)
  BY <1>6 DEF DEFAULT_FILTERS
<1> QED
  BY <1>3, <1>4, <1>5, <1>7

\* ParseArguments, and the two ways to exit.
LEMMA ArgumentsTyped ==
    ASSUME TypeInv, ParseArgumentsStops \/ ParseArguments \/ Exit
    PROVE  TypeInv'
<1>1. CASE ParseArgumentsStops
  <2>1. TypeOK'
    BY <1>1 DEF TypeInv, TypeOK, ParseArgumentsStops, settings, counts, parsers, Phases
  <2>2. calls' = <<>> /\ phase' = "exited"
    BY <1>1 DEF ParseArgumentsStops, TypeInv, Shaped
  <2>3. Shaped'
    BY <1>1, <2>2, ShapeKept DEF ParseArgumentsStops, settings, Linting
  <2> QED
    BY <2>1, <2>3 DEF TypeInv
<1>2. CASE ParseArguments
  <2>1. command \in CommandLine
    BY DEF TypeInv, TypeOK
  <2>2. verbose_level' \in Int /\ counting' \in {"", "total", "toplevel", "detailed"}
    BY <1>2, <2>1, OptionFacts DEF ParseArguments, Option, TypeInv, TypeOK
  <2>3. filters' \in Seq(Filter)
    <3>1. GivenFilters \in Seq(Filter) /\ DEFAULT_FILTERS \in Seq(Filter)
      BY <2>1, OptionFacts
    <3>2. filters' = DEFAULT_FILTERS \o GivenFilters
      BY <1>2 DEF ParseArguments
    <3> QED
      BY <3>1, <3>2
  <2>4. NoErrors \in [Keys -> Nat]
    BY DEF NoErrors
  <2>5. TypeOK'
    BY <1>2, <2>2, <2>3, <2>4 DEF TypeInv, TypeOK, ParseArguments, parsers, Phases
  <2>6. calls' = <<>> /\ phase' = "file"
    BY <1>2 DEF ParseArguments, TypeInv, Shaped
  <2>7. Shaped'
    BY <1>2, <2>6, ShapeKept DEF ParseArguments, Linting
  <2> QED
    BY <2>5, <2>7 DEF TypeInv
<1>3. CASE Exit
  <2>1. TypeOK'
    BY <1>3 DEF TypeInv, TypeOK, Exit, settings, counts, parsers, Phases
  <2>2. Shaped'
    BY <1>3, ShapeKept DEF Exit, settings, Linting
  <2> QED
    BY <2>1, <2>2 DEF TypeInv
<1> QED
  BY <1>1, <1>2, <1>3

\* The suppressions after a line are pairs of a category and a line.
LEMMA SuppressedTyped ==
    ASSUME NEW n \in Nat, text[n] \in Line,
           error_suppressions \subseteq (Categories \cup {All}) \X Nat
    PROVE  /\ Suppressed(error_suppressions, n) \subseteq (Categories \cup {All}) \X Nat
           /\ UnknownNolint(n) \in Seq(Findings)
<1>1. text[n].nolint \in Categories \cup {All, Unknown, NoLint}
  BY DEF Line
<1>2. Suppressed(error_suppressions, n) \subseteq (Categories \cup {All}) \X Nat
  <2>1. CASE text[n].nolint \in {NoLint, Unknown}
    BY <2>1 DEF Suppressed
  <2>2. CASE text[n].nolint \notin {NoLint, Unknown}
    <3>1. <<text[n].nolint, n>> \in (Categories \cup {All}) \X Nat
      BY <1>1, <2>2
    <3> QED
      BY <2>2, <3>1 DEF Suppressed
  <2> QED
    BY <2>1, <2>2
<1> QED
  BY <1>2, WhenIsSeq, CategoryNames DEF UnknownNolint

\* ProcessFile takes up the next file, or leaves it out.
LEMMA FileStepsTyped ==
    ASSUME TypeInv, SkipFile \/ StartFile
    PROVE  TypeInv'
<1>0. Len(command.files) \in Nat /\ fileno \in 0 .. Len(command.files) /\ command \in CommandLine
  BY StateFacts DEF TypeInv, TypeOK
<1>1. CASE SkipFile
  <2>1. fileno' \in 0 .. Len(command.files) /\ fileno' > 0 /\ calls = <<>> /\ phase = "file"
    BY <1>0, <1>1 DEF SkipFile
  <2>2. TypeOK'
    BY <1>1, <2>1 DEF TypeInv, TypeOK, SkipFile, settings, counts, parsers
  <2>3. Shaped'
    <3>1. PICK k \in Nat \ {0} : text' \in [0 .. k -> Line] /\ ~text'[k].ends
      BY <1>1, StateFacts DEF SkipFile
    <3> QED
      BY <1>1, <2>1, <3>1 DEF SkipFile, Shaped, Linting
  <2> QED
    BY <2>2, <2>3 DEF TypeInv
<1>2. CASE StartFile
  <2> DEFINE n == Len(NextFile.lines)
  <2>1. fileno' \in 1 .. Len(command.files) /\ fileno' = fileno + 1
    BY <1>0, <1>2 DEF StartFile
  <2>2. NextFile = command.files[fileno']
    BY <2>1 DEF NextFile
  <2>3. /\ NextFile \in File /\ n \in Nat \ {0}
        /\ Raw(NextFile) \in [0 .. n + 1 -> Line] /\ Raw(NextFile)[n + 1] = Dummy
    BY <1>0, <2>1, <2>2, FileFacts
  <2>4. text' = Raw(NextFile) /\ n + 1 \in Nat \ {0} /\ ~text'[n + 1].ends
    BY <1>2, <2>3, DummyFacts DEF StartFile, Raw
  <2>5. calls' \in Seq(Calls)
    <3>1. When(NoCopyright(text'), <<"legal", "copyright">>, 5) \in Seq(Findings)
      BY WhenIsSeq, CategoryNames
    <3>2. phase \in Phases /\ 0 \in Nat
      BY <1>2 DEF StartFile, Phases
    <3> QED
      BY <1>2, <3>1, <3>2, AtIsSeq DEF StartFile
  <2>6. NoIncludes \in IncludeState /\ NoFunction \in FunctionState
    <3>1. [h \in Headers |-> 0] \in [Headers -> Nat]
      OBVIOUS
    <3> QED
      BY <3>1 DEF NoIncludes, IncludeState, NoFunction, FunctionState, INITIAL, OTHER_H
  <2>7. 0 \in DOMAIN text' /\ \A i \in DOMAIN text' : text'[i] \in Line
    BY <2>3, <2>4
  <2>8. TypeOK'
    <3>1. fileno' \in 0 .. Len(command.files)
      BY <1>0, <2>1
    <3>2. <<>> \in Seq(ClassInfo) /\ {} \subseteq (Categories \cup {All}) \X Nat
      OBVIOUS
    <3>3. phase' \in Phases
      BY <1>2 DEF StartFile, Phases
    <3> QED
      BY <1>2, <2>5, <2>6, <2>7, <3>1, <3>2, <3>3
         DEF TypeInv, TypeOK, StartFile, settings, counts, ResetNolintSuppressions
  <2>9. Shaped'
    <3>1. CurrentFile' = NextFile /\ fileno' > 0
      BY <1>2, <2>1, <2>2 DEF CurrentFile, StartFile, settings
    <3>2. phase' \in {"ifndef", "comments"}
      BY <1>2 DEF StartFile
    <3>3. Raw(CurrentFile)' = text'
      BY <2>4, <3>1 DEF Raw
    <3>4. text' \in [0 .. n + 1 -> Line]
      BY <2>3, <2>4
    <3> QED
      BY <2>4, <3>1, <3>2, <3>3, <3>4 DEF Shaped
  <2> QED
    BY <2>8, <2>9 DEF TypeInv
<1> QED
  BY <1>1, <1>2

\* What the header guard is reported for.
LEMMA WrongGuardIsSeq ==
    ASSUME NEW n
    PROVE  WrongGuard(n) \in Seq(Findings)
<1>1. <<"build", "header_guard">> \in Categories /\ 0 \in 0 .. 5 /\ 5 \in 0 .. 5
  BY CategoryNames
<1>2. /\ When(TRUE, <<"build", "header_guard">>, 0) \in Seq(Findings)
      /\ When(TRUE, <<"build", "header_guard">>, 5) \in Seq(Findings)
  BY <1>1, WhenIsSeq
<1> QED
  BY <1>2, Zenon DEF WrongGuard

\* CheckForHeaderGuard.
LEMMA GuardTyped ==
    ASSUME TypeInv, CheckForHeaderGuard
    PROVE  TypeInv'
<1> DEFINE n == IF phase = "ifndef" THEN FirstOf("ifndef") ELSE LastEndif
<1>1. phase \in Phases /\ phase \in Linting /\ calls = <<>>
  BY DEF CheckForHeaderGuard, Phases, Linting
<1>2. n \in Nat /\ text[n] \in Line
  BY StateFacts, GuardLines
<1>3. /\ When(TRUE, <<"build", "header_guard">>, 5) \in Seq(Findings)
      /\ WrongGuard(n) \in Seq(Findings)
  <2>1. <<"build", "header_guard">> \in Categories /\ 5 \in 0 .. 5
    BY CategoryNames
  <2>2. When(TRUE, <<"build", "header_guard">>, 5) \in Seq(Findings)
    BY <2>1, WhenIsSeq
  <2>3. WrongGuard(n) \in Seq(Findings)
    BY WrongGuardIsSeq
  <2> QED
    BY <2>2, <2>3
<1>4. /\ error_suppressions \subseteq (Categories \cup {All}) \X Nat
      /\ Suppressed(error_suppressions, n) \subseteq (Categories \cup {All}) \X Nat
      /\ UnknownNolint(n) \in Seq(Findings)
  BY <1>2, SuppressedTyped DEF TypeInv, TypeOK
<1>5. UnknownNolint(n) \o WrongGuard(n) \in Seq(Findings)
  BY <1>3, <1>4
<1>6. /\ At(0, When(TRUE, <<"build", "header_guard">>, 5)) \in Seq(Calls)
      /\ At(n, UnknownNolint(n) \o WrongGuard(n)) \in Seq(Calls)
  BY <1>1, <1>2, <1>3, <1>5, AtIsSeq
<1>7. /\ calls' \in {<<>>, At(0, When(TRUE, <<"build", "header_guard">>, 5)),
                     At(n, UnknownNolint(n) \o WrongGuard(n))}
      /\ error_suppressions' \in {error_suppressions, Suppressed(error_suppressions, n)}
      /\ phase' \in {"endif", "comments"}
  BY <1>1 DEF CheckForHeaderGuard
<1> HIDE DEF n
<1>8. calls' \in Seq(Calls) /\ error_suppressions' \subseteq (Categories \cup {All}) \X Nat
  <2>1. <<>> \in Seq(Calls)
    OBVIOUS
  <2> QED
    BY <1>4, <1>6, <1>7, <2>1
<1>9. TypeOK'
  <2>1. phase' \in Phases
    BY <1>7 DEF Phases
  <2> QED
    BY <1>8, <2>1 DEF TypeInv, TypeOK, CheckForHeaderGuard, settings, counts, parsers
<1>10. Shaped'
  BY <1>1, <1>7, ShapeKept DEF CheckForHeaderGuard, settings
<1> QED
  BY <1>9, <1>10 DEF TypeInv

\* Where the next comment begins and ends, line n being the first one to look at.
LEMMA CommentBounds ==
    ASSUME NEW k \in Nat, text \in [0 .. k -> Line], ~text[k].ends, NEW n \in 0 .. k
    PROVE  LET begin == FindNextMultiLineCommentStart(text, n)
               end == FindNextMultiLineCommentEnd(text, begin)
           IN /\ begin \in n .. k + 1 /\ begin \in Nat /\ end \in 0 .. k + 1
              /\ \A i \in n .. k : text[i].starts => begin <= i
              /\ begin # k + 1 => text[begin].starts
              /\ \A i \in 0 .. k : i >= begin /\ text[i].ends => end <= i
              /\ end # k + 1 => end \in begin .. k - 1 /\ text[end].ends
<1> DEFINE begin == FindNextMultiLineCommentStart(text, n)
           end == FindNextMultiLineCommentEnd(text, begin)
           S == {i \in DOMAIN text : i >= n /\ text[i].starts}
           T == {i \in DOMAIN text : i >= begin /\ text[i].ends}
<1>1. /\ DOMAIN text = 0 .. k /\ NumLines(text) = k + 1
      /\ S # {} => Min(S) \in S /\ \A j \in S : Min(S) <= j
      /\ T # {} => Min(T) \in T /\ \A j \in T : Min(T) <= j
  BY TextFacts
<1>2. begin = IF S = {} THEN k + 1 ELSE Min(S)
  BY <1>1 DEF FindNextMultiLineCommentStart, MinOr
<1>3. end = IF T = {} THEN k + 1 ELSE Min(T)
  BY <1>1 DEF FindNextMultiLineCommentEnd, MinOr
<1> HIDE DEF begin, end
<1>4. /\ begin \in n .. k + 1 /\ begin \in Nat
      /\ \A i \in n .. k : text[i].starts => begin <= i
      /\ begin # k + 1 => text[begin].starts
  BY <1>1, <1>2
<1>5. \A i \in T : i # k
  BY <1>1
<1>6. /\ end \in 0 .. k + 1
      /\ \A i \in 0 .. k : i >= begin /\ text[i].ends => end <= i
      /\ end # k + 1 => end \in begin .. k - 1 /\ text[end].ends
  BY <1>1, <1>3, <1>4, <1>5
<1> QED
  BY <1>4, <1>6 DEF begin, end

\* One turn of RemoveMultiLineComments.
LEMMA CommentsTyped ==
    ASSUME TypeInv, RemoveMultiLineComments
    PROVE  TypeInv'
<1> DEFINE begin == FindNextMultiLineCommentStart(text, line)
           end == FindNextMultiLineCommentEnd(text, begin)
<1>1. PICK k \in Nat \ {0} :
         /\ text \in [0 .. k -> Line] /\ DOMAIN text = 0 .. k /\ NumLines(text) = k + 1
         /\ line \in 0 .. k /\ ~text[k].ends
  BY StateFacts
<1>2. begin \in Nat /\ end \in 0 .. k + 1 /\ (end # k + 1 => end + 1 \in 0 .. k)
  <2>1. begin \in Nat /\ end \in 0 .. k + 1 /\ (end # k + 1 => end \in begin .. k - 1)
    BY <1>1, CommentBounds
  <2> HIDE DEF begin, end
  <2> QED
    BY <2>1
<1>3. phase = "comments" /\ calls = <<>>
  BY DEF RemoveMultiLineComments
<1>4. CASE end < NumLines(text)
  <2>1. /\ text' = RemoveMultiLineCommentsFromRange(text, begin, end + 1)
        /\ line' = end + 1 /\ phase' = phase /\ calls' = calls
    BY <1>1, <1>2, <1>4 DEF RemoveMultiLineComments
  <2>2. line' \in 0 .. k
    BY <1>1, <1>2, <1>4, <2>1
  <2>3. \A i \in 0 .. k : text'[i] \in {text[i], Dummy}
    BY <1>1, <2>1 DEF RemoveMultiLineCommentsFromRange
  <2>4. text' \in [0 .. k -> Line] /\ DOMAIN text' = DOMAIN text
    BY <1>1, <2>1, <2>3, DummyFacts DEF RemoveMultiLineCommentsFromRange
  <2>5. ~text'[k].ends
    BY <1>1, <2>3, DummyFacts
  <2>6. TypeOK'
    BY <2>1, <2>2, <2>4 DEF TypeInv, TypeOK, RemoveMultiLineComments, settings, counts, parsers
  <2>7. Shaped'
    <3>1. CurrentFile' = CurrentFile /\ fileno' = fileno
      BY DEF CurrentFile, RemoveMultiLineComments, settings
    <3>2. fileno > 0 /\ DOMAIN text = DOMAIN Raw(CurrentFile)
      BY <1>3 DEF TypeInv, Shaped, Linting, Phases
    <3> QED
      BY <1>3, <2>1, <2>4, <2>5, <3>1, <3>2 DEF Shaped, Raw
  <2> QED
    BY <2>6, <2>7 DEF TypeInv
<1>5. CASE end = NumLines(text)
  <2>1. /\ calls' = At(begin + 1, When(begin < NumLines(text), <<"readability", "multiline_comment">>, 5))
        /\ line' = 0 /\ phase' = "nolint" /\ text' = text
    BY <1>1, <1>5 DEF RemoveMultiLineComments
  <2>2. phase \in Phases /\ phase \in Linting /\ phase' \in Phases /\ begin + 1 \in Nat
    BY <1>2, <1>3, <2>1 DEF Phases, Linting
  <2>3. When(begin < NumLines(text), <<"readability", "multiline_comment">>, 5) \in Seq(Findings)
    BY WhenIsSeq, CategoryNames
  <2>4. calls' \in Seq(Calls)
    BY <2>1, <2>2, <2>3, AtIsSeq
  <2>5. line' \in DOMAIN text'
    BY <1>1, <2>1
  <2>6. TypeOK'
    BY <2>1, <2>2, <2>4, <2>5 DEF TypeInv, TypeOK, RemoveMultiLineComments, settings, counts, parsers
  <2>7. Shaped'
    BY <2>1, <2>2, ShapeKept DEF RemoveMultiLineComments, settings
  <2> QED
    BY <2>6, <2>7 DEF TypeInv
<1> QED
  BY <1>4, <1>5 DEF RemoveMultiLineComments

\* A step within a file that keeps the text, and changes nothing else but the
\* place and the calls, keeps the types.
LEMMA LineStepTyped ==
    ASSUME TypeInv, UNCHANGED <<settings, counts, exit_code, fileno, text>>,
           phase \in Linting, phase' \in Phases \ {"start", "exited", "include what you use"},
           line' \in DOMAIN text, calls' \in Seq(Calls), prevlinenum' \in Nat \cup {-1},
           include_state' \in IncludeState, function_state' \in FunctionState,
           classinfo_stack' \in Seq(ClassInfo), missing' \subseteq Headers,
           error_suppressions' \subseteq (Categories \cup {All}) \X Nat
    PROVE  TypeInv'
<1>1. TypeOK'
  BY DEF TypeInv, TypeOK, settings, counts
<1>2. Shaped'
  BY ShapeKept DEF settings
<1> QED
  BY <1>1, <1>2 DEF TypeInv

\* What CheckLanguage reports at line n, and at the first line of a class.
InLine(state, stack, f, n) ==
    CheckSpacing(text, n)
    \o (IF Blank(text[n]) THEN <<>>
        ELSE IF text[n].include # NoHeader THEN CheckIncludeLine(state, f, text[n])
        ELSE text[n].language)
    \o CheckExplicit(stack, text[n], n) \o text[n].other
AtClass(stack, n) ==
    IF NeedsVirtualDestructor(stack, text[n], n)
    THEN At(ClassAt(stack, text[n], n).linenum, CheckVirtual(stack, text[n], n))
    ELSE <<>>

\* What is reported at the line is reported by rules.
LEMMA InLineRules ==
    ASSUME NEW state, NEW stack, NEW f, NEW n, text[n] \in Line
    PROVE  InLine(state, stack, f, n) \in Seq(RuleFindings)
<1> DEFINE l == text[n]
           a == CheckSpacing(text, n)
           b == IF Blank(l) THEN <<>>
                ELSE IF l.include # NoHeader THEN CheckIncludeLine(state, f, l)
                ELSE l.language
           c == CheckExplicit(stack, l, n)
           d == l.other
<1>1. /\ a \in Seq(RuleFindings) /\ b \in Seq(RuleFindings)
      /\ c \in Seq(RuleFindings) /\ d \in Seq(RuleFindings)
  <2>1. <<>> \in Seq(RuleFindings)
    OBVIOUS
  <2> QED
    BY <2>1, LanguageFindings
<1>2. InLine(state, stack, f, n) = a \o b \o c \o d
  BY DEF InLine
<1> HIDE DEF a, b, c, d
<1> QED
  BY <1>1, <1>2

\* Both are calls of Error.
LEMMA LanguageCalls ==
    ASSUME phase \in Phases, NEW state, NEW stack, NEW f, NEW n \in Nat, text[n] \in Line,
           InClassBody(stack, text[n], n) => ClassAt(stack, text[n], n).linenum \in Nat
    PROVE  At(n, InLine(state, stack, f, n)) \in Seq(Calls) /\ AtClass(stack, n) \in Seq(Calls)
<1> DEFINE l == text[n]
<1>1. InLine(state, stack, f, n) \in Seq(Findings)
  BY InLineRules, RuleIsFinding
<1>2. AtClass(stack, n) \in Seq(Calls)
  <2>1. <<>> \in Seq(Calls)
    OBVIOUS
  <2>2. CheckVirtual(stack, l, n) \in Seq(Findings)
    BY LanguageFindings, RuleIsFinding
  <2>3. NeedsVirtualDestructor(stack, l, n) => ClassAt(stack, l, n).linenum \in Nat
    BY DEF NeedsVirtualDestructor
  <2> QED
    BY <2>1, <2>2, <2>3, AtIsSeq DEF AtClass
<1> QED
  BY <1>1, <1>2, AtIsSeq

\* The steps of the loop over the lines.
LEMMA LineStepsTyped ==
    ASSUME TypeInv, ParseNolintSuppressions \/ CheckStyle \/ CheckDies \/ CheckBracesLoop \/ CheckLanguage
    PROVE  TypeInv'
<1>1. PICK k \in Nat \ {0} :
         /\ text \in [0 .. k -> Line] /\ DOMAIN text = 0 .. k /\ NumLines(text) = k + 1
         /\ line \in 0 .. k /\ text[line] \in Line /\ ~text[k].ends
  BY StateFacts
<1>2. line \in Nat /\ phase \in Phases
  BY <1>1, StateFacts
<1>3. /\ prevlinenum \in Nat \cup {-1} /\ include_state \in IncludeState
      /\ function_state \in FunctionState /\ classinfo_stack \in Seq(ClassInfo)
      /\ missing \subseteq Headers /\ line \in DOMAIN text
      /\ error_suppressions \subseteq (Categories \cup {All}) \X Nat
  BY DEF TypeInv, TypeOK
<1>4. CASE ParseNolintSuppressions
  <2>1. calls' \in Seq(Calls) /\ error_suppressions' \subseteq (Categories \cup {All}) \X Nat
    BY <1>1, <1>2, <1>3, <1>4, SuppressedTyped, AtIsSeq DEF ParseNolintSuppressions
  <2>2. phase \in Linting /\ phase' \in Phases \ {"start", "exited", "include what you use"}
    BY <1>4 DEF ParseNolintSuppressions, Linting, Phases
  <2> QED
    BY <1>3, <1>4, <2>1, <2>2, LineStepTyped DEF ParseNolintSuppressions, parsers
<1>5. CASE CheckStyle
  <2>1. function_state' \in FunctionState
    BY <1>1, <1>3, <1>5, FunctionTyped DEF CheckStyle
  <2>2. calls' \in Seq(Calls)
    <3> DEFINE a == CheckForFunctionLengths(function_state, text, line, verbose_level)
               b == When(text[line].starts, <<"readability", "multiline_comment">>, 5)
               c == text[line].style
               d == SeveralCommands(text, line)
               e == CheckBraces(text, line)
    <3>1. a \in Seq(Findings) /\ b \in Seq(Findings) /\ c \in Seq(Findings)
      <4>1. a \in Seq(Findings)
        BY FunctionFindings
      <4>2. b \in Seq(Findings)
        BY WhenIsSeq, CategoryNames
      <4>3. c \in Seq(Findings)
        BY <1>1, RuleIsFinding DEF Line
      <4> QED
        BY <4>1, <4>2, <4>3
    <3>2. d \in Seq(Findings) /\ e \in Seq(Findings)
      BY StyleFindings, RuleIsFinding
    <3>3. calls' = At(line, a \o b \o c \o d \o e)
      BY <1>5 DEF CheckStyle
    <3> HIDE DEF a, b, c, d, e
    <3>4. a \o b \o c \o d \o e \in Seq(Findings)
      BY <3>1, <3>2
    <3> QED
      BY <1>2, <3>3, <3>4, AtIsSeq
  <2>3. phase \in Linting /\ phase' \in Phases \ {"start", "exited", "include what you use"}
    BY <1>5 DEF CheckStyle, Linting, Phases
  <2>4. prevlinenum' \in Nat \cup {-1} /\ line' \in DOMAIN text
    BY <1>2, <1>3, <1>5 DEF CheckStyle
  <2> QED
    BY <1>3, <1>5, <2>1, <2>2, <2>3, <2>4, LineStepTyped DEF CheckStyle
<1>6. CASE CheckBracesLoop
  <2>1. GetPreviousNonBlankLine(text, prevlinenum) \in Nat \cup {-1}
    <3> DEFINE S == {i \in DOMAIN text : i < prevlinenum /\ ~Blank(text[i])}
    <3>1. S # {} => Max(S) \in S
      BY <1>1, TextFacts
    <3>2. GetPreviousNonBlankLine(text, prevlinenum) = IF S = {} THEN -1 ELSE Max(S)
      BY DEF GetPreviousNonBlankLine, MaxOr
    <3>3. S \subseteq Nat
      BY <1>1
    <3> QED
      BY <3>1, <3>2, <3>3
  <2>2. prevlinenum' \in Nat \cup {-1}
    BY <1>3, <1>6, <2>1 DEF CheckBracesLoop
  <2>3. calls' \in Seq(Calls)
    <3>1. At(line, SemicolonAfterBrace(text, line, prevlinenum)) \in Seq(Calls)
      BY <1>2, SemicolonFindings, RuleIsFinding, AtIsSeq
    <3>2. calls \in Seq(Calls)
      BY DEF TypeInv, TypeOK
    <3> QED
      BY <1>6, <3>1, <3>2 DEF CheckBracesLoop
  <2>4. phase \in Linting /\ phase' \in Phases \ {"start", "exited", "include what you use"}
    BY <1>6 DEF CheckBracesLoop, Linting, Phases
  <2> QED
    BY <1>3, <1>6, <2>2, <2>3, <2>4, LineStepTyped DEF CheckBracesLoop, parsers
<1>7. CASE CheckLanguage
  <2> DEFINE l == text[line]
             f == CurrentFile.name
  <2>1. l \in Line
    BY <1>1
  <2>2. include_state' \in IncludeState
    <3>1. IncludeLine(include_state, f, l, line) \in IncludeState
      BY <1>2, <1>3, <2>1, IncludeTyped
    <3> QED
      BY <1>3, <1>7, <3>1 DEF CheckLanguage
  <2>3. /\ classinfo_stack' \in Seq(ClassInfo)
        /\ InClassBody(classinfo_stack, l, line) => ClassAt(classinfo_stack, l, line).linenum \in Nat
    BY <1>2, <1>3, <1>7, <2>1, ClassTyped DEF CheckLanguage
  <2>4. calls' \in Seq(Calls)
    <3>1. /\ At(line, InLine(include_state, classinfo_stack, f, line)) \in Seq(Calls)
          /\ AtClass(classinfo_stack, line) \in Seq(Calls)
      BY <1>2, <2>1, <2>3, LanguageCalls
    <3>2. calls' = At(line, InLine(include_state, classinfo_stack, f, line))
                   \o AtClass(classinfo_stack, line)
      BY <1>7 DEF CheckLanguage, InLine, AtClass
    <3> QED
      BY <3>1, <3>2
  <2>5. phase \in Linting /\ phase' \in Phases \ {"start", "exited", "include what you use"}
    BY <1>7 DEF CheckLanguage, Linting, Phases
  <2>6. line' \in DOMAIN text
    BY <1>1, <1>7 DEF CheckLanguage, MoreLines
  <2> QED
    BY <1>3, <1>7, <2>2, <2>3, <2>4, <2>5, <2>6, LineStepTyped DEF CheckLanguage
<1>8. CASE CheckDies
  <2>1. phase \in Linting /\ phase' \in Phases \ {"start", "exited", "include what you use"}
    BY <1>8 DEF CheckDies, Linting, Phases
  <2>2. calls' \in Seq(Calls)
    BY <1>8 DEF CheckDies, TypeInv, TypeOK
  <2> QED
    BY <1>3, <1>8, <2>1, <2>2, LineStepTyped DEF CheckDies, parsers
<1> QED
  BY <1>4, <1>5, <1>6, <1>7, <1>8

\* The checks after the loop over the lines.
LEMMA EndStepsTyped ==
    ASSUME TypeInv,
           \/ FinishClasses \/ CheckForIncludeWhatYouUse
           \/ CheckForUnicodeReplacementCharacters \/ CheckEnd
    PROVE  TypeInv'
<1>1. PICK k \in Nat \ {0} :
         /\ text \in [0 .. k -> Line] /\ DOMAIN text = 0 .. k /\ NumLines(text) = k + 1
         /\ line \in 0 .. k /\ ~text[k].ends
  BY StateFacts
<1>2. line \in Nat /\ phase \in Phases
  BY <1>1, StateFacts
<1>3. /\ prevlinenum \in Nat \cup {-1} /\ include_state \in IncludeState
      /\ function_state \in FunctionState /\ classinfo_stack \in Seq(ClassInfo)
      /\ missing \subseteq Headers /\ line \in DOMAIN text
      /\ error_suppressions \subseteq (Categories \cup {All}) \X Nat
  BY DEF TypeInv, TypeOK
<1>4. <<>> \in Seq(Calls)
  OBVIOUS
<1>5. CASE FinishClasses
  <2>1. calls' \in Seq(Calls)
    <3>1. classinfo_stack # <<>> => classinfo_stack[1] \in ClassInfo
      BY <1>3
    <3>2. classinfo_stack # <<>> => classinfo_stack[1].linenum \in Nat
      BY <3>1 DEF ClassInfo
    <3>3. CheckFinished(classinfo_stack) \in Seq(Findings)
      BY WhenIsSeq, CategoryNames DEF CheckFinished
    <3> QED
      BY <1>2, <1>4, <1>5, <3>2, <3>3, AtIsSeq DEF FinishClasses
  <2>2. missing' \subseteq Required(text) /\ missing' \subseteq Headers
    BY <1>1, <1>5, MissingLines DEF FinishClasses
  <2>3. phase \in Linting /\ phase' = "include what you use" /\ phase' \in Phases
    BY <1>5 DEF FinishClasses, Linting, Phases
  <2>4. TypeOK'
    BY <1>5, <2>1, <2>2, <2>3 DEF TypeInv, TypeOK, FinishClasses, settings, counts, parsers
  <2>5. Shaped'
    BY <1>5, <2>2, <2>3 DEF TypeInv, Shaped, FinishClasses, settings, CurrentFile, Raw
  <2> QED
    BY <2>4, <2>5 DEF TypeInv
<1>6. CASE CheckForIncludeWhatYouUse
  <2>1. phase \in Linting /\ phase' \in Phases /\ phase' \in Linting \ {"start", "exited"}
    BY <1>6 DEF CheckForIncludeWhatYouUse, Linting, Phases
  <2>2. missing \subseteq Required(text)
    BY <1>6 DEF CheckForIncludeWhatYouUse, TypeInv, Shaped
  <2>3. calls' \in Seq(Calls)
    <3>1. ASSUME NEW h \in missing
          PROVE  At(LastUse(text, h), When(TRUE, <<"build", "include_what_you_use">>, 4)) \in Seq(Calls)
      <4>1. LastUse(text, h) \in Nat
        BY <1>1, <2>2, MissingLines
      <4>2. When(TRUE, <<"build", "include_what_you_use">>, 4) \in Seq(Findings)
        <5>1. <<"build", "include_what_you_use">> \in Categories /\ 4 \in 0 .. 5
          BY CategoryNames
        <5> QED
          BY <5>1, WhenIsSeq
      <4> QED
        BY <1>2, <4>1, <4>2, AtIsSeq
    <3> QED
      BY <1>4, <1>6, <3>1 DEF CheckForIncludeWhatYouUse
  <2>4. line' \in DOMAIN text /\ missing' \subseteq missing
    <3>1. line' \in {line, 0} /\ missing' \subseteq missing
      BY <1>6 DEF CheckForIncludeWhatYouUse
    <3> QED
      BY <1>1, <1>3, <3>1
  <2>5. TypeOK'
    BY <1>6, <2>1, <2>3, <2>4
       DEF TypeInv, TypeOK, CheckForIncludeWhatYouUse, settings, counts, parsers
  <2>6. Shaped'
    BY <1>6, <2>1, <2>2, <2>4
       DEF TypeInv, Shaped, CheckForIncludeWhatYouUse, settings, CurrentFile, Raw
  <2> QED
    BY <2>5, <2>6 DEF TypeInv
<1>7. CASE CheckForUnicodeReplacementCharacters
  <2>1. phase \in Linting /\ phase' \in Phases \ {"start", "exited", "include what you use"}
    BY <1>7 DEF CheckForUnicodeReplacementCharacters, Linting, Phases
  <2>2. calls' \in Seq(Calls)
    <3>1. When(text[line].badUtf8, <<"readability", "utf8">>, 5) \in Seq(Findings)
      BY WhenIsSeq, CategoryNames
    <3> QED
      BY <1>2, <1>7, <3>1, AtIsSeq DEF CheckForUnicodeReplacementCharacters
  <2>3. line' \in DOMAIN text
    BY <1>1, <1>7 DEF CheckForUnicodeReplacementCharacters, MoreLines
  <2> QED
    BY <1>3, <1>7, <2>1, <2>2, <2>3, LineStepTyped DEF CheckForUnicodeReplacementCharacters, parsers
<1>8. CASE CheckEnd
  <2> DEFINE last == NumLines(text) - 2
             a == When(text[last].text # "empty", <<"whitespace", "ending_newline">>, 5)
             b == When(CurrentFile.crlf, <<"whitespace", "newline">>, 1)
  <2>1. phase \in Linting /\ phase' \in Phases \ {"start", "exited", "include what you use"}
    BY <1>8 DEF CheckEnd, Linting, Phases
  <2>2. calls' \in Seq(Calls)
    <3>1. a \in Seq(Findings) /\ b \in Seq(Findings)
      BY WhenIsSeq, CategoryNames
    <3>2. last \in Nat /\ 0 \in Nat
      BY <1>1
    <3>3. calls' = At(last, a) \o At(0, b)
      BY <1>8 DEF CheckEnd
    <3> HIDE DEF last, a, b
    <3>4. At(last, a) \in Seq(Calls) /\ At(0, b) \in Seq(Calls)
      BY <1>2, <3>1, <3>2, AtIsSeq
    <3> QED
      BY <3>3, <3>4
  <2> QED
    BY <1>3, <1>8, <2>1, <2>2, LineStepTyped DEF CheckEnd, parsers
<1> QED
  BY <1>5, <1>6, <1>7, <1>8

\* Every step keeps the types.
LEMMA TypeStep == TypeInv /\ [Next]_vars => TypeInv'
<1>1. ASSUME TypeInv, UNCHANGED vars PROVE TypeInv'
  BY <1>1 DEF vars, settings, counts, parsers, TypeInv, TypeOK, Shaped, Linting, CurrentFile, Raw
<1>2. ASSUME TypeInv, Next PROVE TypeInv'
  <2>1. CASE Done
    BY <1>1, <1>2, <2>1 DEF Done
  <2> QED
    BY <1>2, <2>1, ErrorTyped, ArgumentsTyped, FileStepsTyped, GuardTyped, CommentsTyped,
       LineStepsTyped, EndStepsTyped DEF Next
<1> QED
  BY <1>1, <1>2

\* TypeOK: every variable stays in its domain, and the line the checks look at is
\* a line of the file.
THEOREM LintTypes == Spec => []TypeOK
<1>1. TypeInv => TypeOK
  BY DEF TypeInv
<1> QED
  BY <1>1, InitTyped, TypeStep, PTL DEF Spec

-----------------------------------------------------------------------------
(***************************************************************************)
(* The counts.                                                             *)
(***************************************************************************)
\* The reports that count for key k.
Counts(r, k) == \/ counting = "detailed" /\ k = r.category
                \/ counting = "toplevel" /\ k = TopLevel(r.category)
CountedReports(reports, k) == {i \in DOMAIN reports : Counts(reports[i], k)}

\* CountsAgree in these terms.
CountsMatch ==
    /\ error_count = Len(printed)
    /\ \A k \in Keys : errors_by_category[k] = Cardinality(CountedReports(printed, k))
    /\ phase = "exited" /\ exit_code = 0 => printed = <<>>

\* The two are the same.
LEMMA CountsRead == CountsAgree <=> CountsMatch
<1> DEFINE Reported(k) == {i \in DOMAIN printed :
                             \/ counting = "detailed" /\ k = printed[i].category
                             \/ counting = "toplevel" /\ k = TopLevel(printed[i].category)}
<1>1. \A k : CountedReports(printed, k) = Reported(k)
  BY DEF CountedReports, Counts
<1>2. CountsAgree <=>
        /\ error_count = Len(printed)
        /\ \A k \in Keys : errors_by_category[k] = Cardinality(Reported(k))
        /\ phase = "exited" /\ exit_code = 0 => printed = <<>>
  BY Zenon DEF CountsAgree
<1> HIDE DEF Reported
<1> QED
  BY <1>1, <1>2 DEF CountsMatch

\* A report more adds one where it counts.
LEMMA OneMore ==
    ASSUME NEW reports \in Seq(Report), NEW r \in Report, NEW k
    PROVE  Cardinality(CountedReports(Append(reports, r), k)) =
             Cardinality(CountedReports(reports, k)) + IF Counts(r, k) THEN 1 ELSE 0
<1> DEFINE n == Len(reports) + 1
           more == Append(reports, r)
           C1 == CountedReports(reports, k)
<1>1. /\ Len(reports) \in Nat /\ DOMAIN reports = 1 .. Len(reports)
      /\ DOMAIN more = DOMAIN reports \cup {n} /\ n \notin DOMAIN reports
      /\ more[n] = r /\ \A i \in DOMAIN reports : more[i] = reports[i]
  OBVIOUS
<1>2. IsFiniteSet(C1) /\ Cardinality(C1) \in Nat /\ C1 \subseteq DOMAIN reports
  <2>1. IsFiniteSet(1 .. Len(reports)) /\ C1 \subseteq 1 .. Len(reports)
    BY <1>1, FS_Interval DEF CountedReports
  <2> QED
    BY <1>1, <2>1, FS_Subset, FS_CardinalityType
<1> HIDE DEF n, more
<1>3. CASE Counts(r, k)
  <2>1. CountedReports(more, k) = C1 \cup {n}
    BY <1>1, <1>3 DEF CountedReports
  <2>2. Cardinality(CountedReports(more, k)) = Cardinality(C1) + 1
    BY <1>1, <1>2, <2>1, FS_AddElement
  <2> QED
    BY <1>3, <2>2 DEF more
<1>4. CASE ~Counts(r, k)
  <2>1. CountedReports(more, k) = C1
    BY <1>1, <1>4 DEF CountedReports
  <2>2. Cardinality(CountedReports(more, k)) = Cardinality(C1) + 0
    BY <1>2, <2>1
  <2> QED
    BY <1>4, <2>2 DEF more
<1> QED
  BY <1>3, <1>4

\* Nothing written, nothing counted.
LEMMA NothingCounted ==
    ASSUME printed = <<>>, error_count = 0, errors_by_category = NoErrors
    PROVE  /\ error_count = Len(printed)
           /\ \A k \in Keys : errors_by_category[k] = Cardinality(CountedReports(printed, k))
<1>1. \A k : CountedReports(printed, k) = {}
  BY DEF CountedReports
<1>2. Cardinality({}) = 0
  BY FS_EmptySet
<1> QED
  BY <1>1, <1>2 DEF NoErrors

\* Nothing is counted and nothing printed at first.
LEMMA InitCounted == Init => CountsAgree
  BY NothingCounted, CountsRead DEF Init, CountsMatch

\* Error counts what it prints, and no other step counts or prints.
LEMMA StepCounted ==
    ASSUME TypeInv, CountsAgree, [Next]_vars
    PROVE  CountsAgree'
<1>1. CASE UNCHANGED <<counts, counting, phase, exit_code>>
  BY <1>1 DEF CountsAgree, counts
<1>2. CASE Error
  <2> DEFINE c == Head(calls)
             r == [fileno |-> fileno, linenum |-> c.linenum,
                   category |-> c.category, confidence |-> c.confidence, check |-> c.check]
  <2>1. calls # <<>> /\ counting' = counting /\ phase' = phase /\ exit_code' = exit_code
    BY <1>2 DEF Error, settings
  <2>2. phase # "exited"
    BY <2>1 DEF TypeInv, Shaped
  <2>3. CASE ~ShouldPrintError(c)
    BY <1>1, <1>2, <2>1, <2>3 DEF Error
  <2>4. CASE ShouldPrintError(c)
    <3>1. IncrementErrorCount(c.category) /\ printed' = Append(printed, r)
      BY <1>2, <2>4 DEF Error
    <3>2. printed \in Seq(Report) /\ Len(printed) \in Nat
      <4>1. printed \in Seq(Report)
        BY DEF TypeInv, TypeOK
      <4> QED
        BY <4>1
    <3>3. r \in Report /\ r.category = c.category
      <4>1. c \in Calls /\ fileno \in Nat
        <5>1. calls \in Seq(Calls) /\ calls # <<>>
          BY <2>1 DEF TypeInv, TypeOK
        <5> QED
          BY <5>1, StateFacts
      <4> QED
        BY <4>1 DEF Calls, Report
    <3> HIDE DEF c, r
    <3>4. error_count' = Len(printed')
      BY <3>1, <3>2, <3>3 DEF IncrementErrorCount, CountsAgree
    <3>5. ASSUME NEW k \in Keys
          PROVE  errors_by_category'[k] = Cardinality(CountedReports(printed, k)')
      <4>1. errors_by_category'[k] = errors_by_category[k]
              + IF Counts(r, k) THEN 1 ELSE 0
        BY <3>1, <3>3 DEF IncrementErrorCount, Counts
      <4>2. errors_by_category[k] = Cardinality(CountedReports(printed, k))
        BY CountsRead DEF CountsMatch
      <4>3. CountedReports(printed, k)' = CountedReports(Append(printed, r), k)
        BY <2>1, <3>1 DEF CountedReports, Counts
      <4> QED
        BY <3>2, <3>3, <4>1, <4>2, <4>3, OneMore
    <3>6. phase' # "exited"
      BY <2>1, <2>2
    <3>7. CountsMatch'
      BY <3>4, <3>5, <3>6 DEF CountsMatch
    <3> QED
      BY <3>7, CountsRead, PTL
  <2> QED
    BY <2>3, <2>4
<1>3. CASE ParseArgumentsStops \/ ParseArguments
  <2>1. printed = <<>> /\ error_count = 0 /\ errors_by_category = NoErrors
    BY <1>3 DEF TypeInv, Shaped, ParseArgumentsStops, ParseArguments
  <2>2. printed' = <<>> /\ error_count' = 0 /\ errors_by_category' = NoErrors
    BY <1>3, <2>1 DEF ParseArgumentsStops, ParseArguments, counts, NoErrors
  <2>3. \A k : CountedReports(printed, k)' = {}
    BY <2>2 DEF CountedReports
  <2>4. \A k \in Keys : errors_by_category'[k] = Cardinality(CountedReports(printed, k)')
    BY <2>2, <2>3, FS_EmptySet DEF NoErrors
  <2> QED
    BY <2>2, <2>4 DEF CountsAgree, CountedReports
<1>4. CASE Exit
  <2>1. UNCHANGED <<counts, counting>>
    BY <1>4 DEF Exit, settings
  <2>2. exit_code' = 0 => error_count = 0
    <3>1. error_count \in Nat
      BY DEF TypeInv, TypeOK
    <3> QED
      BY <1>4, <3>1 DEF Exit
  <2>3. error_count = 0 => printed = <<>>
    <3>1. printed \in Seq(Report) /\ error_count = Len(printed)
      BY DEF TypeInv, TypeOK, CountsAgree
    <3>2. printed # <<>> => Len(printed) # 0
      BY <3>1
    <3> QED
      BY <3>1, <3>2
  <2> QED
    BY <2>1, <2>2, <2>3 DEF CountsAgree, counts
<1>5. CASE ~Error /\ ~ParseArgumentsStops /\ ~ParseArguments /\ ~Exit
  <2>1. UNCHANGED <<counts, counting>> /\ (phase' = "exited" => UNCHANGED <<phase, exit_code>>)
    BY <1>5
       DEF Next, vars, settings, SkipFile, StartFile, CheckForHeaderGuard, RemoveMultiLineComments,
           ParseNolintSuppressions, CheckStyle, CheckDies, CheckBracesLoop, CheckLanguage, FinishClasses,
           CheckForIncludeWhatYouUse, CheckForUnicodeReplacementCharacters, CheckEnd, Done
  <2> QED
    BY <2>1 DEF CountsAgree, counts
<1> QED
  BY <1>2, <1>3, <1>4, <1>5

\* CountsAgree: the total, the counts by category and the exit code agree with what
\* Error has written, for every style of counting.
THEOREM CountsAreKept == Spec => []CountsAgree
<1>1. TypeInv /\ CountsAgree /\ [Next]_vars => CountsAgree'
  BY StepCounted
<1> QED
  BY <1>1, InitTyped, InitCounted, TypeStep, PTL DEF Spec

-----------------------------------------------------------------------------
(***************************************************************************)
(* Multi-line comments.                                                    *)
(***************************************************************************)
\* How far RemoveMultiLineComments has come: the lines before the current one are
\* clean, and no comment reaches over it.
Uncommented ==
    /\ phase \in {"ifndef", "endif"} => text = Raw(CurrentFile) /\ line = 0
    /\ phase = "comments" =>
          /\ \A i \in DOMAIN text :
                text[i] = IF i < line THEN Cleaned(CurrentFile)[i] ELSE Raw(CurrentFile)[i]
          /\ \A b \in DOMAIN text : b < line /\ Raw(CurrentFile)[b].starts =>
                \E j \in DOMAIN text : b <= j /\ j < line /\ Raw(CurrentFile)[j].ends
    /\ CommentsGone

\* Of lines 0 to k, no comment that begins before n reaches n, and the next one from
\* n on is from begin to end; both are k + 1 for none.
NextComment(raw, k, n, begin, end) ==
    /\ DOMAIN raw = 0 .. k /\ n \in 0 .. k /\ begin \in n .. k + 1 /\ end \in 0 .. k + 1
    /\ \A i \in n .. k : raw[i].starts => begin <= i
    /\ begin # k + 1 => raw[begin].starts
    /\ \A i \in 0 .. k : i >= begin /\ raw[i].ends => end <= i
    /\ end # k + 1 => end >= begin /\ raw[end].ends
    /\ \A b \in 0 .. k : b < n /\ raw[b].starts => \E j \in 0 .. k : b <= j /\ j < n /\ raw[j].ends

\* The lines from n on that a turn of RemoveMultiLineComments finds in a comment, and
\* those it does not.
LEMMA TurnOfComments ==
    ASSUME NEW k \in Nat, NEW raw, NEW n, NEW begin, NEW end, NextComment(raw, k, n, begin, end)
    PROVE  /\ \A i \in 0 .. k : n <= i /\ i < begin => ~InComment(raw, i)
           /\ end # k + 1 => \A i \in 0 .. k : begin <= i /\ i <= end => InComment(raw, i)
           /\ end = k + 1 => \A i \in 0 .. k : n <= i => ~InComment(raw, i)
           /\ end # k + 1 => \A b \in 0 .. k : b < end + 1 /\ raw[b].starts =>
                 \E j \in 0 .. k : b <= j /\ j < end + 1 /\ raw[j].ends
<1>0. /\ DOMAIN raw = 0 .. k /\ n \in 0 .. k /\ begin \in n .. k + 1 /\ end \in 0 .. k + 1
      /\ \A i \in n .. k : raw[i].starts => begin <= i
      /\ begin # k + 1 => raw[begin].starts
      /\ \A i \in 0 .. k : i >= begin /\ raw[i].ends => end <= i
      /\ end # k + 1 => end >= begin /\ raw[end].ends
      /\ \A b \in 0 .. k :
            b < n /\ raw[b].starts => \E j \in 0 .. k : b <= j /\ j < n /\ raw[j].ends
  BY DEF NextComment
<1>1. ASSUME NEW i \in 0 .. k, n <= i, NEW b \in 0 .. k, b <= i, raw[b].starts,
             \A j \in 0 .. k : b <= j /\ j < i => ~raw[j].ends
      PROVE  b >= begin
  <2>1. CASE b < n
    <3>1. PICK j \in 0 .. k : b <= j /\ j < n /\ raw[j].ends
      BY <1>0, <1>1, <2>1
    <3>2. j < i
      BY <1>0, <1>1, <3>1
    <3> QED
      BY <1>0, <1>1, <3>1, <3>2
  <2>2. CASE ~(b < n)
    <3>1. b \in n .. k
      BY <1>0, <1>1, <2>2
    <3> QED
      BY <1>0, <1>1, <3>1
  <2> QED
    BY <2>1, <2>2
<1>2. ASSUME NEW i \in 0 .. k, n <= i, i < begin PROVE ~InComment(raw, i)
  <2> SUFFICES ASSUME InComment(raw, i) PROVE FALSE
    OBVIOUS
  <2>1. PICK b \in 0 .. k : b <= i /\ raw[b].starts /\ \A j \in 0 .. k : b <= j /\ j < i => ~raw[j].ends
    BY <1>0 DEF InComment
  <2>2. b >= begin
    BY <1>0, <1>1, <1>2, <2>1
  <2> QED
    BY <1>0, <1>2, <2>1, <2>2
<1>3. ASSUME end # k + 1, NEW i \in 0 .. k, begin <= i, i <= end PROVE InComment(raw, i)
  <2>1. begin \in 0 .. k /\ end \in 0 .. k
    BY <1>0, <1>3
  <2>2. raw[begin].starts /\ \A j \in 0 .. k : begin <= j /\ j < i => ~raw[j].ends
    BY <1>0, <1>3, <2>1
  <2>3. end >= i /\ raw[end].ends
    BY <1>0, <1>3, <2>1
  <2> QED
    BY <1>0, <1>3, <2>1, <2>2, <2>3 DEF InComment
<1>4. ASSUME end = k + 1, NEW i \in 0 .. k, n <= i PROVE ~InComment(raw, i)
  <2> SUFFICES ASSUME InComment(raw, i) PROVE FALSE
    OBVIOUS
  <2>1. PICK b \in 0 .. k : b <= i /\ raw[b].starts /\ \A j \in 0 .. k : b <= j /\ j < i => ~raw[j].ends
    BY <1>0 DEF InComment
  <2>2. PICK e \in 0 .. k : e >= i /\ raw[e].ends
    BY <1>0 DEF InComment
  <2>3. b >= begin
    BY <1>0, <1>1, <1>4, <2>1
  <2>4. e >= begin
    BY <1>0, <1>4, <2>1, <2>2, <2>3
  <2> QED
    BY <1>0, <1>4, <2>2, <2>4
<1>5. ASSUME end # k + 1, NEW b \in 0 .. k, b < end + 1, raw[b].starts
      PROVE  \E j \in 0 .. k : b <= j /\ j < end + 1 /\ raw[j].ends
  <2>1. end \in 0 .. k /\ b <= end /\ end < end + 1
    BY <1>0, <1>5
  <2> QED
    BY <1>0, <1>5, <2>1
<1> QED
  BY <1>2, <1>3, <1>4, <1>5

\* A line of the clean text.
LEMMA CleanedLine ==
    ASSUME NEW f
    PROVE  /\ DOMAIN Cleaned(f) = DOMAIN Raw(f)
           /\ \A i \in DOMAIN Raw(f) :
                 Cleaned(f)[i] = IF InComment(Raw(f), i) THEN Dummy ELSE Raw(f)[i]
           /\ Cleaned(f) = [i \in DOMAIN Raw(f) |-> Cleaned(f)[i]]
  BY DEF Cleaned

\* One turn of RemoveMultiLineComments leaves no comment before the line it comes to.
LEMMA CommentsStep ==
    ASSUME TypeInv, Uncommented, RemoveMultiLineComments
    PROVE  Uncommented'
<1> DEFINE begin == FindNextMultiLineCommentStart(text, line)
           end == FindNextMultiLineCommentEnd(text, begin)
           raw == Raw(CurrentFile)
           clean == Cleaned(CurrentFile)
<1>1. PICK k \in Nat \ {0} :
         /\ text \in [0 .. k -> Line] /\ DOMAIN text = 0 .. k /\ NumLines(text) = k + 1
         /\ line \in 0 .. k /\ ~text[k].ends
  BY StateFacts
<1>2. phase = "comments" /\ phase \in Linting
  BY DEF RemoveMultiLineComments, Linting, Phases
<1>3. /\ DOMAIN raw = 0 .. k
      /\ \A i \in 0 .. k : text[i] = IF i < line THEN clean[i] ELSE raw[i]
      /\ \A b \in 0 .. k : b < line /\ raw[b].starts => \E j \in 0 .. k : b <= j /\ j < line /\ raw[j].ends
  BY <1>1, <1>2 DEF TypeInv, Shaped, Uncommented
<1>4. /\ begin \in line .. k + 1 /\ begin \in Nat /\ end \in 0 .. k + 1
      /\ \A i \in line .. k : text[i].starts => begin <= i
      /\ begin # k + 1 => text[begin].starts
      /\ \A i \in 0 .. k : i >= begin /\ text[i].ends => end <= i
      /\ end # k + 1 => end \in begin .. k - 1 /\ text[end].ends
  BY <1>1, CommentBounds
<1>5. CurrentFile' = CurrentFile
  BY DEF CurrentFile, RemoveMultiLineComments, settings
<1>6. raw' = raw /\ clean' = clean
  BY <1>5 DEF Raw, Cleaned
<1>7. \A i \in 0 .. k : clean[i] = IF InComment(raw, i) THEN Dummy ELSE raw[i]
  BY <1>3, CleanedLine
<1>8. \/ /\ end < k + 1 /\ line' = end + 1 /\ phase' = phase
         /\ text' = RemoveMultiLineCommentsFromRange(text, begin, end + 1)
      \/ end = k + 1 /\ line' = 0 /\ phase' = "nolint" /\ text' = text
  BY <1>1 DEF RemoveMultiLineComments
<1> HIDE DEF begin, end
<1>9. /\ \A i \in line .. k : raw[i].starts => begin <= i
      /\ begin # k + 1 => raw[begin].starts
      /\ \A i \in 0 .. k : i >= begin /\ raw[i].ends => end <= i
      /\ end # k + 1 => end >= begin /\ end \in 0 .. k - 1 /\ raw[end].ends
  <2>1. \A i \in 0 .. k : i >= line => text[i] = raw[i]
    BY <1>1, <1>3
  <2>2. \A i \in 0 .. k : i >= begin => text[i] = raw[i]
    BY <1>1, <1>4, <2>1
  <2>3. \A i \in line .. k : raw[i].starts => begin <= i
    BY <1>1, <1>4, <2>1
  <2>4. begin # k + 1 => raw[begin].starts
    BY <1>1, <1>4, <2>1
  <2>5. \A i \in 0 .. k : i >= begin /\ raw[i].ends => end <= i
    BY <1>4, <2>2
  <2>6. end # k + 1 => end >= begin /\ end \in 0 .. k - 1 /\ raw[end].ends
    BY <1>1, <1>4, <2>2
  <2> QED
    BY <2>3, <2>4, <2>5, <2>6
<1>10. /\ \A i \in 0 .. k : line <= i /\ i < begin => ~InComment(raw, i)
       /\ end # k + 1 => \A i \in 0 .. k : begin <= i /\ i <= end => InComment(raw, i)
       /\ end = k + 1 => \A i \in 0 .. k : line <= i => ~InComment(raw, i)
       /\ end # k + 1 => \A b \in 0 .. k : b < end + 1 /\ raw[b].starts =>
             \E j \in 0 .. k : b <= j /\ j < end + 1 /\ raw[j].ends
  <2> HIDE DEF raw
  <2>1. DOMAIN raw = 0 .. k /\ line \in 0 .. k /\ begin \in line .. k + 1 /\ end \in 0 .. k + 1
    BY <1>1, <1>3, <1>4
  <2>2. \A b \in 0 .. k : b < line /\ raw[b].starts =>
           \E j \in 0 .. k : b <= j /\ j < line /\ raw[j].ends
    BY <1>3
  <2>3. /\ \A i \in line .. k : raw[i].starts => begin <= i
        /\ begin # k + 1 => raw[begin].starts
        /\ \A i \in 0 .. k : i >= begin /\ raw[i].ends => end <= i
        /\ end # k + 1 => end >= begin /\ raw[end].ends
    BY <1>9
  <2>4. k \in Nat
    BY <1>1
  <2>5. NextComment(raw, k, line, begin, end)
    BY <2>1, <2>2, <2>3 DEF NextComment
  <2> QED
    BY <2>4, <2>5, TurnOfComments
<1> HIDE DEF raw, clean
<1>11. CASE end < k + 1 /\ line' = end + 1 /\ phase' = phase
            /\ text' = RemoveMultiLineCommentsFromRange(text, begin, end + 1)
  <2>1. DOMAIN text' = 0 .. k /\ \A i \in 0 .. k :
           text'[i] = IF begin <= i /\ i < end + 1 THEN Dummy ELSE text[i]
    BY <1>1, <1>11 DEF RemoveMultiLineCommentsFromRange
  <2>2. ASSUME NEW i \in 0 .. k
        PROVE  text'[i] = IF i < line' THEN clean[i] ELSE raw[i]
    <3>1. end \in Nat /\ end # k + 1 /\ begin <= end /\ line <= begin /\ line \in Nat
      BY <1>1, <1>4, <1>9, <1>11
    <3>2. CASE i < line
      BY <1>3, <1>4, <1>11, <2>1, <3>1, <3>2
    <3>3. CASE line <= i /\ i < begin
      <4>1. clean[i] = raw[i] /\ text[i] = raw[i]
        BY <1>3, <1>7, <1>10, <3>1, <3>3
      <4> QED
        BY <1>4, <2>1, <3>3, <4>1
    <3>4. CASE begin <= i /\ i <= end
      <4>1. clean[i] = Dummy
        BY <1>7, <1>10, <3>1, <3>4
      <4>2. i < line' /\ i < end + 1
        BY <1>11, <3>1, <3>4
      <4> QED
        BY <2>1, <3>4, <4>1, <4>2
    <3>5. CASE end < i
      <4>1. ~(i < line') /\ ~(i < end + 1) /\ ~(i < line)
        <5>1. i \in Nat /\ line' = end + 1
          BY <1>11
        <5> QED
          BY <1>4, <3>1, <3>5, <5>1
      <4> QED
        BY <1>3, <2>1, <4>1
    <3> QED
      BY <1>4, <3>1, <3>2, <3>3, <3>4, <3>5
  <2>3. phase' = "comments"
    BY <1>2, <1>11
  <2>4. \A b \in DOMAIN text' : b < line' /\ raw[b].starts =>
           \E j \in DOMAIN text' : b <= j /\ j < line' /\ raw[j].ends
    BY <1>9, <1>10, <1>11, <2>1
  <2> QED
    BY <1>6, <2>1, <2>2, <2>3, <2>4 DEF Uncommented, CommentsGone, raw, clean
<1>12. CASE end = k + 1 /\ line' = 0 /\ phase' = "nolint" /\ text' = text
  <2>1. \A i \in 0 .. k : text[i] = clean[i]
    <3>1. ASSUME NEW i \in 0 .. k, ~(i < line) PROVE text[i] = clean[i]
      BY <1>1, <1>3, <1>7, <1>10, <1>12, <3>1
    <3> QED
      BY <1>3, <3>1
  <2>2. text = [i \in 0 .. k |-> text[i]] /\ clean = [i \in 0 .. k |-> clean[i]]
    BY <1>1, <1>3, CleanedLine DEF raw, clean
  <2>3. text' = clean'
    BY <1>6, <1>12, <2>1, <2>2
  <2> QED
    BY <1>12, <2>3 DEF Uncommented, CommentsGone, clean
<1> QED
  BY <1>8, <1>11, <1>12

\* The other steps on a file leave its text alone.
LEMMA UncommentedStep ==
    ASSUME TypeInv, Uncommented, [Next]_vars
    PROVE  Uncommented'
<1>1. CASE RemoveMultiLineComments
  BY <1>1, CommentsStep
<1>2. CASE StartFile
  <2>1. CurrentFile' = NextFile
    BY <1>2 DEF StartFile, CurrentFile, NextFile, settings
  <2>2. text' = Raw(CurrentFile)' /\ line' = 0 /\ phase' \in {"ifndef", "comments"}
    BY <1>2, <2>1 DEF StartFile, Raw
  <2>3. PICK k \in Nat : DOMAIN text' = 0 .. k
    BY <1>2, FileStepsTyped DEF TypeInv, Shaped
  <2>4. \A i \in DOMAIN text' : ~(i < line')
    BY <2>2, <2>3
  <2> QED
    BY <2>2, <2>4 DEF Uncommented, CommentsGone
<1>3. CASE CheckForHeaderGuard
  <2>1. UNCHANGED <<fileno, command, text, line>> /\ phase \in {"ifndef", "endif"}
        /\ phase' \in {"endif", "comments"}
    BY <1>3 DEF CheckForHeaderGuard, settings
  <2>2. CurrentFile' = CurrentFile /\ text = Raw(CurrentFile) /\ line = 0
    BY <2>1 DEF Uncommented, CurrentFile
  <2>3. Raw(CurrentFile)' = Raw(CurrentFile)
    BY <2>2 DEF Raw
  <2>4. PICK k \in Nat : DOMAIN text = 0 .. k
    BY StateFacts
  <2>5. \A i \in DOMAIN text' : ~(i < line')
    BY <2>1, <2>2, <2>4
  <2> QED
    BY <2>1, <2>2, <2>3, <2>5 DEF Uncommented, CommentsGone
<1>4. CASE ~RemoveMultiLineComments /\ ~StartFile /\ ~CheckForHeaderGuard
  <2>1. \/ UNCHANGED <<fileno, command, text, line, phase>>
        \/ phase' \notin Linting
        \/ /\ UNCHANGED <<fileno, command, text>>
           /\ phase \in Linting \ {"ifndef", "endif", "comments"}
           /\ phase' \notin {"ifndef", "endif", "comments"}
    <3>1. CASE Error \/ Done \/ UNCHANGED vars
      BY <3>1 DEF Error, Done, vars, settings
    <3>2. CASE ParseArgumentsStops \/ ParseArguments \/ Exit \/ SkipFile
      BY <3>2 DEF ParseArgumentsStops, ParseArguments, Exit, SkipFile, Linting
    <3>3. CASE ParseNolintSuppressions \/ CheckStyle \/ CheckDies \/ CheckBracesLoop \/ CheckLanguage
      BY <3>3
         DEF ParseNolintSuppressions, CheckStyle, CheckDies, CheckBracesLoop, CheckLanguage, settings,
             Linting, Phases
    <3>4. CASE \/ FinishClasses \/ CheckForIncludeWhatYouUse
               \/ CheckForUnicodeReplacementCharacters \/ CheckEnd
      BY <3>4
         DEF FinishClasses, CheckForIncludeWhatYouUse, CheckForUnicodeReplacementCharacters,
             CheckEnd, settings, Linting, Phases
    <3> QED
      BY <1>4, <3>1, <3>2, <3>3, <3>4 DEF Next
  <2>2. CASE UNCHANGED <<fileno, command, text, line, phase>>
    <3>1. CurrentFile' = CurrentFile
      BY <2>2 DEF CurrentFile
    <3>2. Raw(CurrentFile)' = Raw(CurrentFile) /\ Cleaned(CurrentFile)' = Cleaned(CurrentFile)
      BY <3>1 DEF Raw, Cleaned
    <3> QED
      BY <2>2, <3>2 DEF Uncommented, CommentsGone, Linting
  <2>3. CASE phase' \notin Linting
    BY <2>3 DEF Uncommented, CommentsGone, Linting, Phases
  <2>4. CASE /\ UNCHANGED <<fileno, command, text>>
             /\ phase \in Linting \ {"ifndef", "endif", "comments"}
             /\ phase' \notin {"ifndef", "endif", "comments"}
    <3>1. CurrentFile' = CurrentFile
      BY <2>4 DEF CurrentFile
    <3>2. Cleaned(CurrentFile)' = Cleaned(CurrentFile)
      BY <3>1 DEF Raw, Cleaned
    <3> QED
      BY <2>4, <3>2 DEF Uncommented, CommentsGone
  <2> QED
    BY <2>1, <2>2, <2>3, <2>4
<1> QED
  BY <1>1, <1>2, <1>3, <1>4

\* At first there is no file.
LEMMA InitUncommented == Init => Uncommented
  BY DEF Init, Uncommented, CommentsGone, Linting

\* CommentsGone: RemoveMultiLineComments leaves nothing of a multi-line comment and
\* takes nothing else, in every file.
THEOREM CommentsAreGone == Spec => []CommentsGone
<1>1. TypeInv /\ Uncommented /\ [Next]_vars => Uncommented'
  BY UncommentedStep
<1>2. Uncommented => CommentsGone
  BY DEF Uncommented
<1> QED
  BY <1>1, <1>2, InitTyped, InitUncommented, TypeStep, PTL DEF Spec

-----------------------------------------------------------------------------
(***************************************************************************)
(* Suppressions.                                                           *)
(***************************************************************************)
\* The suppressions after line n are those before it and what its NOLINT asks for.
LEMMA SuppressedBy ==
    ASSUME NEW S, NEW n
    PROVE  /\ S \subseteq Suppressed(S, n)
           /\ \A s \in Suppressed(S, n) : s \in S \/ s = <<text[n].nolint, n>>
           /\ text[n].nolint \notin {NoLint, Unknown} => <<text[n].nolint, n>> \in Suppressed(S, n)
           /\ text[n].nolint \in {NoLint, Unknown} => Suppressed(S, n) = S
  BY DEF Suppressed

\* Only a line of the file, with a NOLINT, adds a suppression, and a new file clears them.
LEMMA SuppressionStep ==
    ASSUME TypeInv, Uncommented, SuppressionIsLocal, [Next]_vars
    PROVE  SuppressionIsLocal'
<1> DEFINE raw == Raw(CurrentFile)
           Local == \A s \in error_suppressions : s[2] \in DOMAIN text /\ raw[s[2]].nolint = s[1]
<1>1. CASE phase' \notin Linting
  BY <1>1 DEF SuppressionIsLocal
<1>2. CASE StartFile
  BY <1>2 DEF StartFile, ResetNolintSuppressions, SuppressionIsLocal
<1>3. ASSUME UNCHANGED <<command, fileno>>, phase \in Linting, DOMAIN text' = DOMAIN text,
             NEW n \in DOMAIN text, raw[n].nolint = text[n].nolint \/ text[n].nolint = NoLint,
             error_suppressions' \in {error_suppressions, Suppressed(error_suppressions, n)}
      PROVE  SuppressionIsLocal'
  <2>1. Raw(CurrentFile)' = raw
    BY <1>3 DEF CurrentFile, Raw
  <2>2. Local
    BY <1>3 DEF SuppressionIsLocal
  <2>3. \A s \in error_suppressions' :
           \/ s \in error_suppressions
           \/ s = <<text[n].nolint, n>> /\ text[n].nolint # NoLint
    BY <1>3, SuppressedBy
  <2>4. ASSUME NEW s \in error_suppressions'
        PROVE  s[2] \in DOMAIN text /\ raw[s[2]].nolint = s[1]
    <3>1. CASE s \in error_suppressions
      BY <2>2, <3>1
    <3>2. CASE s = <<text[n].nolint, n>> /\ text[n].nolint # NoLint
      <4>1. s[2] = n /\ s[1] = text[n].nolint
        BY <3>2
      <4> QED
        BY <1>3, <3>2, <4>1
    <3> QED
      BY <2>3, <3>1, <3>2
  <2> QED
    BY <1>3, <2>1, <2>4 DEF SuppressionIsLocal
<1>4. CASE ParseNolintSuppressions
  <2>1. phase \in Linting \ {"ifndef", "endif", "comments"} /\ line \in DOMAIN text
    BY <1>4 DEF ParseNolintSuppressions, Linting, Phases, TypeInv, TypeOK
  <2>2. text[line] \in {raw[line], Dummy}
    BY <2>1, CleanedLine DEF Uncommented, CommentsGone, TypeInv, Shaped
  <2>3. raw[line].nolint = text[line].nolint \/ text[line].nolint = NoLint
    BY <2>2, DummyFacts
  <2> QED
    BY <1>3, <1>4, <2>1, <2>3 DEF ParseNolintSuppressions, settings
<1>5. CASE CheckForHeaderGuard
  <2> DEFINE n == IF phase = "ifndef" THEN FirstOf("ifndef") ELSE LastEndif
  <2>1. phase \in {"ifndef", "endif"} /\ phase \in Linting
    BY <1>5 DEF CheckForHeaderGuard, Linting, Phases
  <2>2. text = raw
    BY <2>1 DEF Uncommented
  <2>3. n \in DOMAIN text
    BY StateFacts, GuardLines
  <2>4. error_suppressions' \in {error_suppressions, Suppressed(error_suppressions, n)}
    BY <1>5 DEF CheckForHeaderGuard
  <2> HIDE DEF n
  <2> QED
    BY <1>3, <1>5, <2>1, <2>2, <2>3, <2>4 DEF CheckForHeaderGuard, settings
<1>6. CASE RemoveMultiLineComments
  <2>1. phase \in Linting /\ DOMAIN text' = DOMAIN text
    BY <1>6 DEF RemoveMultiLineComments, RemoveMultiLineCommentsFromRange, Linting, Phases
  <2>2. Raw(CurrentFile)' = raw /\ error_suppressions' = error_suppressions
    BY <1>6 DEF RemoveMultiLineComments, settings, CurrentFile, Raw
  <2> QED
    BY <2>1, <2>2 DEF SuppressionIsLocal
<1>7. CASE /\ phase' \in Linting
           /\ ~StartFile /\ ~ParseNolintSuppressions /\ ~CheckForHeaderGuard
           /\ ~RemoveMultiLineComments
  <2>1. UNCHANGED <<command, fileno, text, error_suppressions>> /\ phase \in Linting
    BY <1>7
       DEF Next, vars, settings, SkipFile, ParseArgumentsStops, ParseArguments, Exit, Error,
           CheckStyle, CheckDies, CheckBracesLoop, CheckLanguage, FinishClasses, CheckForIncludeWhatYouUse,
           CheckForUnicodeReplacementCharacters, CheckEnd, Done, Linting, Phases
  <2>2. Raw(CurrentFile)' = raw
    BY <2>1 DEF CurrentFile, Raw
  <2> QED
    BY <2>1, <2>2 DEF SuppressionIsLocal
<1> QED
  BY <1>1, <1>2, <1>4, <1>5, <1>6, <1>7

\* SuppressionIsLocal: no NOLINT of one file is in force in the next one.
THEOREM SuppressionsAreLocal == Spec => []SuppressionIsLocal
<1>1. Init => SuppressionIsLocal
  BY DEF Init, SuppressionIsLocal, Linting
<1>2. TypeInv /\ Uncommented /\ SuppressionIsLocal /\ [Next]_vars => SuppressionIsLocal'
  BY SuppressionStep
<1>3. TypeInv /\ Uncommented /\ [Next]_vars => Uncommented'
  BY UncommentedStep
<1> QED
  BY <1>1, <1>2, <1>3, InitTyped, InitUncommented, TypeStep, PTL DEF Spec

-----------------------------------------------------------------------------
(***************************************************************************)
(* What NOLINT promises.                                                   *)
(***************************************************************************)
\* The lines whose NOLINT, if they have one, is in force.
Obeyed ==
    {n \in Nat : LET nolint == Cleaned(CurrentFile)[n].nolint
                 IN nolint \in {NoLint, Unknown} \/ <<nolint, n>> \in error_suppressions}

\* The lines whose NOLINT has been parsed.
LinesParsed ==
    LinesBefore \cup IF phase \in {"style", "braces", "language", "crashed"} THEN {line} ELSE {}

\* Every call of Error still to be made is for a line whose NOLINT is in force; a
\* class on the stack, which may be reported later, begins on such a line.
Heeded ==
    /\ phase \in Linting => LinesParsed \subseteq Obeyed
    /\ \A i \in DOMAIN calls : calls[i].check # "comments" => calls[i].linenum \in Obeyed
    /\ phase \in Linting => \A i \in DOMAIN classinfo_stack : classinfo_stack[i].linenum \in LinesBefore
    /\ NolintHolds

\* A NOLINT in force stays in force while the file is the same.
LEMMA ObeyedKept ==
    ASSUME UNCHANGED <<command, fileno>>, error_suppressions \subseteq error_suppressions'
    PROVE  Obeyed \subseteq Obeyed'
<1>1. Cleaned(CurrentFile)' = Cleaned(CurrentFile)
  BY DEF Cleaned, Raw, CurrentFile
<1> QED
  BY <1>1 DEF Obeyed

\* What was printed stays as it was.
LEMMA HoldsKept ==
    ASSUME NolintHolds, UNCHANGED <<command, printed>>
    PROVE  NolintHolds'
<1>1. \A f : Cleaned(f)' = Cleaned(f)
  BY DEF Cleaned, Raw
<1> QED
  BY <1>1 DEF NolintHolds

\* The first line of the clean text is the marker, which has no NOLINT.
LEMMA MarkerKept == TypeInv /\ fileno > 0 => Cleaned(CurrentFile)[0] = Dummy
<1> SUFFICES ASSUME TypeInv, fileno > 0 PROVE Cleaned(CurrentFile)[0] = Dummy
  OBVIOUS
<1>1. fileno \in 1 .. Len(command.files)
  BY StateFacts
<1>2. Raw(CurrentFile)[0] = Dummy /\ 0 \in DOMAIN Raw(CurrentFile)
  <2>1. command \in CommandLine /\ CurrentFile = command.files[fileno]
    BY DEF TypeInv, TypeOK, CurrentFile
  <2> DEFINE f == command.files[fileno]
  <2>2. /\ Len(f.lines) \in Nat \ {0} /\ Raw(f)[0] = Dummy
        /\ Raw(f) \in [0 .. Len(f.lines) + 1 -> Line]
    BY <1>1, <2>1, FileFacts
  <2> HIDE DEF f
  <2>3. 0 \in DOMAIN Raw(f)
    BY <2>2
  <2> QED
    BY <2>1, <2>2, <2>3 DEF f
<1> QED
  BY <1>2, CleanedLine

LEMMA MarkerObeyed == TypeInv /\ fileno > 0 => 0 \in Obeyed
  BY MarkerKept, DummyFacts DEF Obeyed

\* Calls that are made for lines of S.
MadeFor(cs, S) == \A i \in DOMAIN cs : cs[i].linenum \in S

\* At makes calls for its line, and concatenation adds nothing else.
LEMMA CallsFor ==
    ASSUME NEW S
    PROVE  /\ \A n, fs : n \in S => MadeFor(At(n, fs), S)
           /\ MadeFor(<<>>, S)
           /\ \A cs, ds \in Seq(Calls) : MadeFor(cs, S) /\ MadeFor(ds, S) => MadeFor(cs \o ds, S)
<1>1. \A n, fs : n \in S => MadeFor(At(n, fs), S)
  BY DEF MadeFor, At
<1>2. MadeFor(<<>>, S)
  BY DEF MadeFor
<1>3. ASSUME NEW cs \in Seq(Calls), NEW ds \in Seq(Calls), MadeFor(cs, S), MadeFor(ds, S)
      PROVE  MadeFor(cs \o ds, S)
  <2>1. \A i \in DOMAIN (cs \o ds) :
           IF i <= Len(cs) THEN i \in DOMAIN cs /\ (cs \o ds)[i] = cs[i]
           ELSE i - Len(cs) \in DOMAIN ds /\ (cs \o ds)[i] = ds[i - Len(cs)]
    OBVIOUS
  <2> QED
    BY <1>3, <2>1 DEF MadeFor
<1> QED
  BY <1>1, <1>2, <1>3

\* A step that goes on in the file, reports lines parsed, and parses none.
LEMMA HeededOn ==
    ASSUME TypeInv, Heeded, phase \in Linting,
           UNCHANGED <<command, fileno, error_suppressions, printed>>,
           MadeFor(calls', LinesParsed),
           phase' \in Linting => LinesParsed' \subseteq LinesParsed,
           phase' \in Linting =>
               \A i \in DOMAIN classinfo_stack' : classinfo_stack'[i].linenum \in LinesBefore'
    PROVE  Heeded'
<1>1. Obeyed \subseteq Obeyed'
  BY ObeyedKept
<1>2. NolintHolds'
  BY HoldsKept DEF Heeded
<1> QED
  BY <1>1, <1>2 DEF Heeded, MadeFor

\* What Error prints is for a line whose NOLINT does not cover it.
LEMMA ErrorHeeds ==
    ASSUME TypeInv, Heeded, Error
    PROVE  Heeded'
<1> DEFINE c == Head(calls)
           r == [fileno |-> fileno, linenum |-> c.linenum,
                 category |-> c.category, confidence |-> c.confidence, check |-> c.check]
<1>1. /\ calls # <<>> /\ calls \in Seq(Calls) /\ calls' = Tail(calls)
      /\ UNCHANGED <<command, phase, fileno, text, line, error_suppressions, classinfo_stack>>
  BY DEF TypeInv, TypeOK, Error, settings, parsers
<1>2. Obeyed' = Obeyed
  BY <1>1 DEF Obeyed, Cleaned, Raw, CurrentFile
<1>3. /\ 1 \in DOMAIN calls /\ c = calls[1] /\ c \in Calls
      /\ \A i \in DOMAIN calls' : i + 1 \in DOMAIN calls /\ calls'[i] = calls[i + 1]
  BY <1>1
<1>4. LinesBefore' = LinesBefore /\ LinesParsed' = LinesParsed
  BY <1>1 DEF LinesBefore, LinesParsed
<1>5. NolintHolds'
  <2>1. CASE ~ShouldPrintError(c)
    BY <1>1, <2>1, HoldsKept DEF Error, counts, Heeded
  <2>2. CASE ShouldPrintError(c)
    <3>1. printed' = Append(printed, r) /\ printed \in Seq(Report)
      BY <2>2 DEF Error, TypeInv, TypeOK
    <3>2. /\ r.check = c.check /\ r.linenum = c.linenum /\ r.category = c.category
          /\ r.fileno = fileno
      OBVIOUS
    <3>3. c.check # "comments" => Cleaned(CurrentFile)[c.linenum].nolint \notin {All, c.category}
      <4> SUFFICES ASSUME c.check # "comments",
                          Cleaned(CurrentFile)[c.linenum].nolint \in {All, c.category}
                   PROVE  FALSE
        OBVIOUS
      <4> DEFINE nolint == Cleaned(CurrentFile)[c.linenum].nolint
      <4>1. c.linenum \in Obeyed
        BY <1>3 DEF Heeded
      <4>2. c.category \in Categories
        BY <1>3 DEF Calls
      <4>3. nolint \notin {NoLint, Unknown}
        BY <4>2, NolintKinds
      <4>4. <<nolint, c.linenum>> \in error_suppressions
        BY <4>1, <4>3 DEF Obeyed
      <4>5. ~IsErrorSuppressedByNolint(c.category, c.linenum)
        BY <2>2 DEF ShouldPrintError
      <4> QED
        BY <4>4, <4>5 DEF IsErrorSuppressedByNolint
    <3>4. \A f : Cleaned(f)' = Cleaned(f)
      BY DEF Cleaned, Raw
    <3> HIDE DEF c, r
    <3>5. ASSUME NEW i \in DOMAIN printed', printed'[i].check # "comments"
          PROVE  Cleaned(command.files[printed'[i].fileno])[printed'[i].linenum].nolint
                   \notin {All, printed'[i].category}
      <4>1. CASE i \in DOMAIN printed
        <5>1. printed'[i] = printed[i]
          BY <3>1, <4>1
        <5> QED
          BY <3>5, <4>1, <5>1 DEF Heeded, NolintHolds
      <4>2. CASE i \notin DOMAIN printed
        <5>1. printed'[i] = r
          BY <3>1, <4>2
        <5> QED
          BY <3>2, <3>3, <3>5, <5>1 DEF CurrentFile
      <4> QED
        BY <4>1, <4>2
    <3> QED
      BY <1>1, <3>4, <3>5 DEF NolintHolds
  <2> QED
    BY <2>1, <2>2
<1> HIDE DEF c, r
<1>6. \A i \in DOMAIN calls' : calls'[i].check # "comments" => calls'[i].linenum \in Obeyed'
  BY <1>2, <1>3 DEF Heeded
<1> QED
  BY <1>1, <1>2, <1>4, <1>5, <1>6 DEF Heeded

\* The steps that begin with a file: nothing is parsed yet.
LEMMA BeginningHeeds ==
    ASSUME TypeInv, Uncommented, Heeded, StartFile \/ CheckForHeaderGuard \/ RemoveMultiLineComments
    PROVE  Heeded'
<1>1. TypeInv' /\ UNCHANGED <<command, printed>>
  BY FileStepsTyped, GuardTyped, CommentsTyped
     DEF StartFile, CheckForHeaderGuard, RemoveMultiLineComments, settings, counts
<1>2. NolintHolds'
  BY <1>1, HoldsKept DEF Heeded
<1>3. phase \in Phases /\ (TypeInv /\ fileno > 0 => 0 \in Obeyed)'
  <2>1. (TypeInv /\ fileno > 0 => 0 \in Obeyed)'
    BY MarkerObeyed, PTL
  <2> QED
    BY <2>1, StateFacts
<1>4. CASE StartFile
  <2>1. fileno' > 0
    BY <1>4, StateFacts DEF StartFile
  <2>2. 0 \in Obeyed'
    BY <1>1, <1>3, <2>1
  <2>3. phase' \in {"ifndef", "comments"} /\ classinfo_stack' = <<>>
    BY <1>4 DEF StartFile
  <2>4. LinesParsed' = {}
    BY <2>3 DEF LinesParsed, LinesBefore
  <2>5. MadeFor(calls', {0})
    BY <1>4 DEF StartFile, MadeFor, At
  <2> QED
    BY <1>2, <2>2, <2>3, <2>4, <2>5 DEF Heeded, MadeFor
<1>5. CASE CheckForHeaderGuard
  <2> DEFINE n == IF phase = "ifndef" THEN FirstOf("ifndef") ELSE LastEndif
  <2>1. /\ phase \in {"ifndef", "endif"} /\ phase \in Linting /\ fileno > 0
        /\ phase' \in {"endif", "comments"}
        /\ UNCHANGED <<command, fileno, classinfo_stack>>
    BY <1>5 DEF CheckForHeaderGuard, settings, parsers, Linting, Phases, TypeInv, Shaped
  <2>2. LinesParsed' = {} /\ LinesBefore' = {} /\ LinesBefore = {}
    BY <2>1 DEF LinesParsed, LinesBefore
  <2>3. classinfo_stack' = <<>>
    <3>1. \A i \in DOMAIN classinfo_stack : FALSE
      BY <2>1, <2>2 DEF Heeded
    <3>2. classinfo_stack \in Seq(ClassInfo)
      BY DEF TypeInv, TypeOK
    <3> QED
      BY <2>1, <3>1, <3>2
  <2>4. 0 \in Obeyed'
    BY <1>1, <1>3, <2>1
  <2>5. n \in DOMAIN text /\ n \in Nat
    BY StateFacts, GuardLines
  <2>6. Cleaned(CurrentFile)' = Cleaned(CurrentFile)
    BY <2>1 DEF Cleaned, Raw, CurrentFile
  <2>7. Cleaned(CurrentFile)[n] \in {text[n], Dummy}
    <3>1. text = Raw(CurrentFile)
      BY <2>1 DEF Uncommented
    <3> QED
      BY <2>5, <3>1, CleanedLine
  <2> DEFINE at0 == At(0, When(TRUE, <<"build", "header_guard">>, 5))
             atn == At(n, UnknownNolint(n) \o WrongGuard(n))
  <2>8. \/ calls' = at0
        \/ calls' = <<>>
        \/ calls' = atn /\ error_suppressions' = Suppressed(error_suppressions, n)
    BY <1>5, <2>1 DEF CheckForHeaderGuard
  <2>9. ASSUME error_suppressions' = Suppressed(error_suppressions, n) PROVE n \in Obeyed'
    <3> HIDE DEF n
    <3>1. CASE Cleaned(CurrentFile)[n] = Dummy
      BY <2>5, <2>6, <3>1, DummyFacts DEF Obeyed
    <3>2. CASE Cleaned(CurrentFile)[n] = text[n]
      <4>1. text[n].nolint \in {NoLint, Unknown} \/ <<text[n].nolint, n>> \in error_suppressions'
        BY <2>9, SuppressedBy
      <4> QED
        BY <2>5, <2>6, <3>2, <4>1 DEF Obeyed
    <3> QED
      BY <2>7, <3>1, <3>2
  <2>10. MadeFor(at0, {0}) /\ MadeFor(atn, {n})
    <3> HIDE DEF n
    <3> QED
      BY DEF MadeFor, At
  <2> HIDE DEF n, at0, atn
  <2>11. MadeFor(calls', Obeyed')
    <3>1. CASE calls' = at0
      BY <2>4, <2>10, <3>1 DEF MadeFor
    <3>2. CASE calls' = <<>>
      BY <3>2 DEF MadeFor
    <3>3. CASE calls' = atn /\ error_suppressions' = Suppressed(error_suppressions, n)
      BY <2>9, <2>10, <3>3 DEF MadeFor
    <3> QED
      BY <2>8, <3>1, <3>2, <3>3
  <2>12. LinesParsed' = {} /\ \A i \in DOMAIN classinfo_stack' : FALSE
    BY <2>2, <2>3
  <2> QED
    BY <1>2, <2>11, <2>12 DEF Heeded, MadeFor
<1>6. CASE RemoveMultiLineComments
  <2>1. /\ phase = "comments" /\ phase \in Linting /\ calls = <<>>
        /\ phase' \in {"comments", "nolint"} /\ (phase' = "nolint" => line' = 0)
        /\ UNCHANGED classinfo_stack
    BY <1>6 DEF RemoveMultiLineComments, parsers, Linting, Phases
  <2>2. LinesParsed' = {} /\ LinesBefore' = {} /\ LinesBefore = {}
    <3>1. \A n \in DOMAIN text' : ~(n < 0)
      <4>1. PICK k \in Nat : DOMAIN text' = 0 .. k
        BY <1>1 DEF TypeInv, Shaped
      <4> QED
        BY <4>1
    <3> QED
      BY <2>1, <3>1 DEF LinesParsed, LinesBefore
  <2>3. classinfo_stack' = <<>>
    <3>1. \A i \in DOMAIN classinfo_stack : FALSE
      BY <2>1, <2>2 DEF Heeded
    <3>2. classinfo_stack \in Seq(ClassInfo)
      BY DEF TypeInv, TypeOK
    <3> QED
      BY <2>1, <3>1, <3>2
  <2>4. \A i \in DOMAIN calls' : calls'[i].check = "comments"
    <3> DEFINE begin == FindNextMultiLineCommentStart(text, line)
               w == When(begin < NumLines(text), <<"readability", "multiline_comment">>, 5)
    <3>1. calls' = <<>> \/ calls' = At(begin + 1, w)
      BY <1>6, <2>1 DEF RemoveMultiLineComments
    <3>2. begin + 1 \in Nat
      <4>1. begin \in Nat
        BY StateFacts, CommentBounds
      <4> HIDE DEF begin
      <4> QED
        BY <4>1
    <3>3. w \in Seq(Findings)
      BY WhenIsSeq, CategoryNames
    <3> HIDE DEF w, begin
    <3> QED
      BY <1>3, <2>1, <3>1, <3>2, <3>3, AtIsSeq
  <2> QED
    BY <1>2, <2>2, <2>3, <2>4 DEF Heeded
<1> QED
  BY <1>4, <1>5, <1>6
\* The loop over the lines: a line is parsed for NOLINT before any check sees it.
LEMMA NolintHeeds ==
    ASSUME TypeInv, Uncommented, Heeded, ParseNolintSuppressions
    PROVE  Heeded'
<1>1. /\ phase = "nolint" /\ phase \in Linting /\ phase' = "style"
      /\ UNCHANGED <<command, fileno, printed, text, line, classinfo_stack>>
      /\ error_suppressions' = Suppressed(error_suppressions, line)
      /\ calls' = At(line, UnknownNolint(line))
  BY DEF ParseNolintSuppressions, settings, counts, parsers, Linting, Phases
<1>2. line \in DOMAIN text /\ line \in Nat /\ phase \in Phases
  BY StateFacts
<1>3. Cleaned(CurrentFile)' = Cleaned(CurrentFile)
  BY <1>1 DEF Cleaned, Raw, CurrentFile
<1>4. line \in Obeyed'
  <2>1. text = Cleaned(CurrentFile)
    BY <1>1 DEF Uncommented, CommentsGone
  <2>2. text[line].nolint \in {NoLint, Unknown} \/ <<text[line].nolint, line>> \in error_suppressions'
    BY <1>1, SuppressedBy
  <2> QED
    BY <1>2, <1>3, <2>1, <2>2 DEF Obeyed
<1>5. Obeyed \subseteq Obeyed'
  BY <1>1, ObeyedKept, SuppressedBy
<1>6. MadeFor(calls', {line})
  BY <1>1 DEF MadeFor, At
<1>7. /\ LinesBefore' = LinesBefore /\ LinesParsed' = LinesBefore \cup {line}
      /\ LinesBefore \subseteq LinesParsed
  BY <1>1 DEF LinesBefore, LinesParsed
<1>8. NolintHolds'
  BY <1>1, HoldsKept DEF Heeded
<1> QED
  BY <1>1, <1>4, <1>5, <1>6, <1>7, <1>8 DEF Heeded, MadeFor

\* The loop over the lines goes on to the next one, or ends with the last.
LEMMA NextLine ==
    ASSUME TypeInv, CheckLanguage
    PROVE  /\ phase' \in {"nolint", "finish"}
           /\ LinesBefore' = {n \in DOMAIN text : n < line} \cup {line}
<1>1. PICK k \in Nat \ {0} : DOMAIN text = 0 .. k /\ NumLines(text) = k + 1 /\ line \in 0 .. k
  BY StateFacts
<1>2. CASE line + 1 < k + 1
  <2>1. phase' = "nolint" /\ line' = line + 1 /\ text' = text
    BY <1>1, <1>2 DEF CheckLanguage, MoreLines
  <2>2. {n \in DOMAIN text : n < line + 1} = {n \in DOMAIN text : n < line} \cup {line}
    BY <1>1
  <2> QED
    BY <2>1, <2>2 DEF LinesBefore
<1>3. CASE ~(line + 1 < k + 1)
  <2>1. phase' = "finish" /\ text' = text
    BY <1>1, <1>3 DEF CheckLanguage, MoreLines
  <2>2. DOMAIN text = {n \in DOMAIN text : n < line} \cup {line}
    BY <1>1, <1>3
  <2> QED
    BY <2>1, <2>2 DEF LinesBefore
<1> QED
  BY <1>2, <1>3

\* The checks of a line report that line, or the first line of a class.
LEMMA LineHeeds ==
    ASSUME TypeInv, Heeded, CheckStyle \/ CheckDies \/ CheckBracesLoop \/ CheckLanguage
    PROVE  Heeded'
<1>1. /\ phase \in {"style", "braces", "language"} /\ phase \in Linting
      /\ UNCHANGED <<command, fileno, error_suppressions, printed, text>> /\ calls = <<>>
  BY DEF CheckStyle, CheckDies, CheckBracesLoop, CheckLanguage, settings, counts, Linting, Phases
<1>2. line \in DOMAIN text /\ line \in Nat /\ text[line] \in Line /\ phase \in Phases
  BY StateFacts
<1>3. /\ LinesParsed = {n \in DOMAIN text : n < line} \cup {line}
      /\ LinesBefore = {n \in DOMAIN text : n < line}
  BY <1>1 DEF LinesParsed, LinesBefore
<1>4. \A i \in DOMAIN classinfo_stack : classinfo_stack[i].linenum \in LinesBefore
  BY <1>1 DEF Heeded
<1>5. CASE CheckStyle \/ CheckDies \/ CheckBracesLoop
  <2>1. /\ phase' \in {"braces", "language", "crashed"} /\ UNCHANGED <<line, classinfo_stack>>
        /\ calls' = <<>> \/ \E fs : calls' = At(line, fs)
    BY <1>1, <1>5 DEF CheckStyle, CheckDies, CheckBracesLoop, parsers
  <2>2. MadeFor(calls', LinesParsed)
    BY <1>3, <2>1, CallsFor
  <2>3. LinesParsed' = LinesParsed /\ LinesBefore' = LinesBefore
    BY <1>1, <1>3, <2>1 DEF LinesParsed, LinesBefore
  <2> QED
    BY <1>1, <1>4, <2>1, <2>2, <2>3, HeededOn
<1>6. CASE CheckLanguage
  <2> DEFINE f == CurrentFile.name
  <2>1. classinfo_stack \in Seq(ClassInfo)
    BY DEF TypeInv, TypeOK
  <2>2. /\ \A i \in DOMAIN classinfo_stack' : classinfo_stack'[i].linenum \in LinesParsed
        /\ InClassBody(classinfo_stack, text[line], line) =>
              /\ ClassAt(classinfo_stack, text[line], line).linenum \in Nat
              /\ ClassAt(classinfo_stack, text[line], line).linenum \in LinesParsed
    <3>1. {line} \cup {classinfo_stack[j].linenum : j \in DOMAIN classinfo_stack} \subseteq LinesParsed
      BY <1>3, <1>4
    <3>2. classinfo_stack' = ClassLine(classinfo_stack, text[line], line)
      BY <1>6 DEF CheckLanguage
    <3> QED
      BY <1>2, <2>1, <3>1, <3>2, ClassTyped
  <2>3. MadeFor(calls', LinesParsed)
    <3> DEFINE a == At(line, InLine(include_state, classinfo_stack, f, line))
               b == AtClass(classinfo_stack, line)
    <3>1. a \in Seq(Calls) /\ b \in Seq(Calls)
      BY <1>2, <2>2, LanguageCalls
    <3>2. MadeFor(a, LinesParsed)
      BY <1>3, CallsFor
    <3>3. MadeFor(b, LinesParsed)
      BY <2>2, CallsFor DEF AtClass, NeedsVirtualDestructor
    <3>4. calls' = a \o b
      BY <1>6 DEF CheckLanguage, InLine, AtClass
    <3> HIDE DEF a, b
    <3> QED
      BY <3>1, <3>2, <3>3, <3>4, CallsFor
  <2>4. LinesBefore' = LinesParsed /\ LinesParsed' = LinesParsed
    BY <1>3, <1>6, NextLine DEF LinesParsed
  <2> QED
    BY <1>1, <2>2, <2>3, <2>4, HeededOn
<1> QED
  BY <1>5, <1>6

\* After the loop every line has been parsed.
LEMMA EndHeeds ==
    ASSUME TypeInv, Heeded,
           \/ FinishClasses \/ CheckForIncludeWhatYouUse
           \/ CheckForUnicodeReplacementCharacters \/ CheckEnd
    PROVE  Heeded'
<1>1. /\ phase \in {"finish", "include what you use", "utf8", "end"} /\ phase \in Linting
      /\ phase' \in {"include what you use", "utf8", "end", "file"}
      /\ UNCHANGED <<command, fileno, error_suppressions, printed, text, classinfo_stack>>
      /\ calls = <<>>
  BY DEF FinishClasses, CheckForIncludeWhatYouUse, CheckForUnicodeReplacementCharacters, CheckEnd,
         settings, counts, parsers, Linting, Phases
<1>2. LinesParsed = DOMAIN text /\ LinesBefore = DOMAIN text
  BY <1>1 DEF LinesParsed, LinesBefore
<1>3. phase' \in Linting => LinesParsed' = DOMAIN text /\ LinesBefore' = DOMAIN text
  BY <1>1 DEF LinesParsed, LinesBefore, Linting
<1>4. \A i \in DOMAIN classinfo_stack : classinfo_stack[i].linenum \in DOMAIN text
  BY <1>1, <1>2 DEF Heeded
<1>5. PICK k \in Nat \ {0} :
         /\ text \in [0 .. k -> Line] /\ DOMAIN text = 0 .. k /\ NumLines(text) = k + 1
         /\ line \in DOMAIN text
  BY StateFacts
<1>6. MadeFor(calls', DOMAIN text)
  <2>1. CASE FinishClasses
    <3>1. classinfo_stack # <<>> => 1 \in DOMAIN classinfo_stack
      <4>1. classinfo_stack \in Seq(ClassInfo)
        BY DEF TypeInv, TypeOK
      <4> QED
        BY <4>1
    <3> QED
      BY <1>4, <2>1, <3>1, CallsFor DEF FinishClasses
  <2>2. CASE CheckForIncludeWhatYouUse
    <3>1. missing \subseteq Required(text)
      BY <2>2 DEF CheckForIncludeWhatYouUse, TypeInv, Shaped
    <3>2. calls' = <<>> \/ \E h \in missing : \E fs : calls' = At(LastUse(text, h), fs)
      BY <2>2 DEF CheckForIncludeWhatYouUse
    <3>3. \A h \in missing : LastUse(text, h) \in DOMAIN text
      BY <1>5, <3>1, MissingLines
    <3> QED
      BY <3>2, <3>3, CallsFor
  <2>3. CASE CheckForUnicodeReplacementCharacters
    BY <1>5, <2>3, CallsFor DEF CheckForUnicodeReplacementCharacters
  <2>4. CASE CheckEnd
    <3> DEFINE last == NumLines(text) - 2
               a == When(text[last].text # "empty", <<"whitespace", "ending_newline">>, 5)
               b == When(CurrentFile.crlf, <<"whitespace", "newline">>, 1)
    <3>1. a \in Seq(Findings) /\ b \in Seq(Findings)
      BY WhenIsSeq, CategoryNames
    <3>2. last \in DOMAIN text /\ 0 \in DOMAIN text /\ last \in Nat /\ phase \in Phases
      BY <1>5, StateFacts
    <3>3. calls' = At(last, a) \o At(0, b)
      BY <2>4 DEF CheckEnd
    <3> HIDE DEF last, a, b
    <3>4. At(last, a) \in Seq(Calls) /\ At(0, b) \in Seq(Calls)
      BY <3>1, <3>2, AtIsSeq
    <3> QED
      BY <3>2, <3>3, <3>4, CallsFor
  <2> QED
    BY <2>1, <2>2, <2>3, <2>4
<1> QED
  BY <1>1, <1>2, <1>3, <1>4, <1>6, HeededOn

\* All other steps make no calls, and are on no file.
LEMMA HeededStep ==
    ASSUME TypeInv, Uncommented, Heeded, [Next]_vars
    PROVE  Heeded'
<1>1. ASSUME UNCHANGED <<command, fileno, phase, line, text, error_suppressions, calls, printed,
                        classinfo_stack>>
      PROVE  Heeded'
  <2>1. Obeyed' = Obeyed
    BY <1>1 DEF Obeyed, Cleaned, Raw, CurrentFile
  <2>2. LinesParsed' = LinesParsed /\ LinesBefore' = LinesBefore
    BY <1>1 DEF LinesParsed, LinesBefore
  <2>3. NolintHolds'
    BY <1>1, HoldsKept DEF Heeded
  <2> QED
    BY <1>1, <2>1, <2>2, <2>3 DEF Heeded
<1>2. CASE ParseArgumentsStops \/ ParseArguments \/ Exit \/ SkipFile
  <2>1. phase' \notin Linting /\ calls' = <<>> /\ UNCHANGED <<command, printed>>
    BY <1>2
       DEF ParseArgumentsStops, ParseArguments, Exit, SkipFile, settings, counts, Linting, TypeInv,
           Shaped
  <2>2. NolintHolds'
    BY <2>1, HoldsKept DEF Heeded
  <2> QED
    BY <2>1, <2>2 DEF Heeded
<1>3. CASE Done \/ UNCHANGED vars
  BY <1>1, <1>3 DEF Done, vars, settings, counts, parsers
<1> QED
  BY <1>2, <1>3, ErrorHeeds, BeginningHeeds, NolintHeeds, LineHeeds, EndHeeds DEF Next

\* NolintHolds: no error is printed for a line whose NOLINT covers it, not even
\* by the checks that report a line long after they have passed it.
THEOREM NolintIsHeeded == Spec => []NolintHolds
<1>1. Init => Heeded
  BY DEF Init, Heeded, NolintHolds, Linting
<1>2. TypeInv /\ Uncommented /\ Heeded /\ [Next]_vars => Heeded'
  BY HeededStep
<1>3. Heeded => NolintHolds
  BY DEF Heeded
<1>4. TypeInv /\ Uncommented /\ [Next]_vars => Uncommented'
  BY UncommentedStep
<1> QED
  BY <1>1, <1>2, <1>3, <1>4, InitTyped, InitUncommented, TypeStep, PTL DEF Spec

-----------------------------------------------------------------------------
(***************************************************************************)
(* The length of functions is reported with a confidence that shows.       *)
(***************************************************************************)
\* Findings, or calls of Error, of which those about the length of a function
\* are shown at verbosity v.
Showing(findings, v) ==
    \A i \in DOMAIN findings :
        findings[i].category = <<"readability", "fn_size">> /\ v <= 5 => findings[i].confidence >= v

LEMMA ShowingParts ==
    ASSUME NEW v
    PROVE  /\ Showing(<<>>, v)
           /\ \A fs \in Seq(RuleFindings) : Showing(fs, v)
           /\ \A n, fs : Showing(fs, v) => Showing(At(n, fs), v)
           /\ \A S : \A fs, gs \in Seq(S) : Showing(fs, v) /\ Showing(gs, v) => Showing(fs \o gs, v)
<1>1. Showing(<<>>, v)
  BY DEF Showing
<1>2. ASSUME NEW fs \in Seq(RuleFindings) PROVE Showing(fs, v)
  <2>1. \A i \in DOMAIN fs : fs[i] \in RuleFindings
    OBVIOUS
  <2> QED
    BY <2>1 DEF Showing, RuleFindings
<1>3. ASSUME NEW n, NEW fs, Showing(fs, v) PROVE Showing(At(n, fs), v)
  BY <1>3 DEF Showing, At
<1>4. ASSUME NEW S, NEW fs \in Seq(S), NEW gs \in Seq(S), Showing(fs, v), Showing(gs, v)
      PROVE  Showing(fs \o gs, v)
  <2>1. \A i \in DOMAIN (fs \o gs) :
           IF i <= Len(fs) THEN i \in DOMAIN fs /\ (fs \o gs)[i] = fs[i]
           ELSE i - Len(fs) \in DOMAIN gs /\ (fs \o gs)[i] = gs[i - Len(fs)]
    OBVIOUS
  <2> QED
    BY <1>4, <2>1 DEF Showing
<1> QED
  BY <1>1, <1>2, <1>3, <1>4

\* CheckForFunctionLengths takes the level from the same comparison that it
\* takes the decision to report from.
LEMMA LengthShows ==
    ASSUME NEW f \in FunctionState, NEW lines, NEW n, NEW v \in Int
    PROVE  Showing(CheckForFunctionLengths(f, lines, n, v), v)
<1> DEFINE L == {l \in 0 .. 5 : l = 0 \/ Trigger(f) * 2 ^ l <= f.lines_in_function}
           unclosed == lines[n].decl # "no" /\ BodySearch(lines, n) = NumLines(lines)
           long == Checked(f, lines, n, v)
           c == <<"readability", "fn_size">>
<1>1. Max(L) \in L /\ \A l \in L : l <= Max(L)
  <2>1. L \subseteq 0 .. 5 /\ L # {}
    OBVIOUS
  <2> QED
    BY <2>1, MaxIsGreatest
<1>2. Level(f) \in 0 .. 5 /\ \A l \in L : l <= Level(f)
  BY <1>1 DEF Level
<1>3. Trigger(f) \in Nat /\ f.lines_in_function \in Nat
  BY TriggerAssumption DEF Trigger, FunctionState
<1>4. long /\ v <= 5 => Level(f) >= v
  <2> SUFFICES ASSUME long, v <= 5 PROVE Level(f) >= v
    OBVIOUS
  <2>1. CASE v < 0
    BY <1>2, <2>1
  <2>2. CASE v >= 0
    <3>1. Trigger(f) * 2 ^ v <= f.lines_in_function
      BY <1>3, <2>2 DEF Checked, TooLong
    <3>2. v \in L
      BY <2>2, <3>1
    <3> QED
      BY <1>2, <3>2
  <2> QED
    BY <2>1, <2>2
<1>5. \A p : Showing(When(p, c, 5), v)
  BY DEF When, Finding, Showing
<1>6. Showing(When(long, c, Level(f)), v)
  <2> HIDE DEF long
  <2> QED
    BY <1>2, <1>4 DEF When, Finding, Showing
<1>7. \A p : When(p, c, 5) \in Seq(Findings)
  BY WhenIsSeq, CategoryNames
<1>8. When(long, c, Level(f)) \in Seq(Findings)
  BY <1>2, WhenIsSeq, CategoryNames
<1> HIDE DEF long
<1>9. \A p : Showing(When(p, c, 5) \o When(long, c, Level(f)), v)
  BY <1>5, <1>6, <1>7, <1>8, ShowingParts
<1> QED
  BY <1>9 DEF CheckForFunctionLengths, long

\* CheckStyle reports it with the other things that are wrong with the line.
LEMMA StyleShows ==
    ASSUME TypeInv, CheckStyle
    PROVE  Showing(calls', verbose_level)
<1> DEFINE a == CheckForFunctionLengths(function_state, text, line, verbose_level)
           b == When(text[line].starts, <<"readability", "multiline_comment">>, 5)
           c == text[line].style
           d == SeveralCommands(text, line)
           e == CheckBraces(text, line)
<1>1. text[line] \in Line /\ verbose_level \in Int /\ function_state \in FunctionState
  BY StateFacts DEF TypeInv, TypeOK
<1>2. Showing(a, verbose_level) /\ a \in Seq(Findings)
  BY <1>1, LengthShows, FunctionFindings
<1>3. b \in Seq(RuleFindings) /\ c \in Seq(RuleFindings)
  <2>1. b \in Seq(RuleFindings)
    BY RuleIsSeq, RuleNames
  <2>2. c \in Seq(RuleFindings)
    BY <1>1, LanguageFindings
  <2> QED
    BY <2>1, <2>2
<1>4. d \in Seq(RuleFindings) /\ e \in Seq(RuleFindings)
  BY StyleFindings
<1>5. calls' = At(line, a \o b \o c \o d \o e)
  BY DEF CheckStyle
<1> HIDE DEF a, b, c, d, e
<1>6. /\ \A fs \in {b, c, d, e} : fs \in Seq(Findings) /\ Showing(fs, verbose_level)
      /\ \A fs, gs \in Seq(Findings) :
            Showing(fs, verbose_level) /\ Showing(gs, verbose_level) =>
                fs \o gs \in Seq(Findings) /\ Showing(fs \o gs, verbose_level)
  <2>1. \A fs \in {b, c, d, e} : fs \in Seq(RuleFindings)
    BY <1>3, <1>4
  <2>2. \A fs \in {b, c, d, e} : fs \in Seq(Findings) /\ Showing(fs, verbose_level)
    BY <2>1, ShowingParts, RuleIsFinding
  <2>3. \A fs, gs \in Seq(Findings) : fs \o gs \in Seq(Findings)
    OBVIOUS
  <2>4. \A fs, gs \in Seq(Findings) :
           Showing(fs, verbose_level) /\ Showing(gs, verbose_level) => Showing(fs \o gs, verbose_level)
    BY ShowingParts, Zenon
  <2> QED
    BY <2>2, <2>3, <2>4
<1>7. a \o b \in Seq(Findings) /\ Showing(a \o b, verbose_level)
  BY <1>2, <1>6
<1>8. a \o b \o c \in Seq(Findings) /\ Showing(a \o b \o c, verbose_level)
  BY <1>6, <1>7
<1>9. a \o b \o c \o d \in Seq(Findings) /\ Showing(a \o b \o c \o d, verbose_level)
  BY <1>6, <1>8
<1>10. Showing(a \o b \o c \o d \o e, verbose_level)
  BY <1>6, <1>9
<1> QED
  BY <1>5, <1>10, ShowingParts

\* What is reported elsewhere is not about the length of a function.
LEMMA OthersShow ==
    ASSUME TypeInv, NEW v,
           \/ StartFile \/ CheckForHeaderGuard \/ RemoveMultiLineComments
           \/ ParseNolintSuppressions \/ CheckBracesLoop \/ CheckLanguage
           \/ FinishClasses \/ CheckForIncludeWhatYouUse
           \/ CheckForUnicodeReplacementCharacters \/ CheckEnd
    PROVE  Showing(calls', v)
<1>1. phase \in Phases /\ line \in Nat /\ text[line] \in Line /\ classinfo_stack \in Seq(ClassInfo)
  <2>1. phase \in Phases /\ line \in Nat /\ text[line] \in Line
    BY StateFacts
  <2>2. classinfo_stack \in Seq(ClassInfo)
    BY DEF TypeInv, TypeOK
  <2> QED
    BY <2>1, <2>2
<1>2. \A n, fs : fs \in Seq(RuleFindings) => Showing(At(n, fs), v)
  BY ShowingParts
<1>3. /\ \A p : When(p, <<"legal", "copyright">>, 5) \in Seq(RuleFindings)
      /\ \A p : When(p, <<"build", "header_guard">>, 5) \in Seq(RuleFindings)
      /\ \A p : When(p, <<"build", "header_guard">>, 0) \in Seq(RuleFindings)
      /\ \A p : When(p, <<"build", "include_what_you_use">>, 4) \in Seq(RuleFindings)
      /\ \A p : When(p, <<"readability", "multiline_comment">>, 5) \in Seq(RuleFindings)
      /\ \A p : When(p, <<"readability", "nolint">>, 5) \in Seq(RuleFindings)
      /\ \A p : When(p, <<"readability", "utf8">>, 5) \in Seq(RuleFindings)
      /\ \A p : When(p, <<"whitespace", "ending_newline">>, 5) \in Seq(RuleFindings)
      /\ \A p : When(p, <<"whitespace", "newline">>, 1) \in Seq(RuleFindings)
  BY RuleIsSeq, RuleNames
<1>4. /\ \A n : UnknownNolint(n) \in Seq(RuleFindings) /\ WrongGuard(n) \in Seq(RuleFindings)
      /\ \A n : UnknownNolint(n) \o WrongGuard(n) \in Seq(RuleFindings)
  <2>1. \A n : UnknownNolint(n) \in Seq(RuleFindings)
    BY <1>3 DEF UnknownNolint
  <2>2. \A n : WrongGuard(n) \in Seq(RuleFindings)
    BY <1>3 DEF WrongGuard
  <2> QED
    BY <2>1, <2>2
<1>5. calls' = <<>> => Showing(calls', v)
  BY ShowingParts
<1>6. ASSUME \E n, fs : fs \in Seq(RuleFindings) /\ calls' = At(n, fs) PROVE Showing(calls', v)
  BY <1>2, <1>6
<1>7. CASE StartFile
  BY <1>3, <1>6, <1>7 DEF StartFile
<1>8. CASE CheckForHeaderGuard
  BY <1>3, <1>4, <1>5, <1>6, <1>8 DEF CheckForHeaderGuard
<1>9. CASE RemoveMultiLineComments
  BY <1>3, <1>5, <1>6, <1>9 DEF RemoveMultiLineComments
<1>10. CASE ParseNolintSuppressions
  BY <1>4, <1>6, <1>10 DEF ParseNolintSuppressions
<1>11. CASE CheckBracesLoop
  BY <1>5, <1>6, <1>11, SemicolonFindings DEF CheckBracesLoop
<1>12. CASE CheckLanguage
  <2> DEFINE f == CurrentFile.name
             a == InLine(include_state, classinfo_stack, f, line)
             b == AtClass(classinfo_stack, line)
  <2>1. At(line, a) \in Seq(Calls) /\ b \in Seq(Calls)
    BY <1>1, ClassTyped, LanguageCalls
  <2>2. Showing(At(line, a), v)
    BY <1>1, <1>2, InLineRules
  <2>3. Showing(b, v)
    BY <1>1, <1>2, LanguageFindings, ShowingParts DEF AtClass
  <2>4. calls' = At(line, a) \o b
    BY <1>12 DEF CheckLanguage, InLine, AtClass
  <2> HIDE DEF a, b
  <2> QED
    BY <2>1, <2>2, <2>3, <2>4, ShowingParts
<1>13. CASE FinishClasses
  <2>1. CheckFinished(classinfo_stack) \in Seq(RuleFindings)
    BY <1>1, LanguageFindings
  <2> QED
    BY <1>5, <1>6, <1>13, <2>1 DEF FinishClasses
<1>14. CASE CheckForIncludeWhatYouUse
  BY <1>3, <1>5, <1>6, <1>14 DEF CheckForIncludeWhatYouUse
<1>15. CASE CheckForUnicodeReplacementCharacters
  BY <1>3, <1>6, <1>15 DEF CheckForUnicodeReplacementCharacters
<1>16. CASE CheckEnd
  <2> DEFINE last == NumLines(text) - 2
             a == When(text[last].text # "empty", <<"whitespace", "ending_newline">>, 5)
             b == When(CurrentFile.crlf, <<"whitespace", "newline">>, 1)
  <2>1. a \in Seq(RuleFindings) /\ b \in Seq(RuleFindings)
    BY <1>3
  <2>2. last \in Nat
    BY StateFacts
  <2>3. calls' = At(last, a) \o At(0, b)
    BY <1>16 DEF CheckEnd
  <2> HIDE DEF last, a, b
  <2>4. At(last, a) \in Seq(Calls) /\ At(0, b) \in Seq(Calls)
    BY <1>1, <2>1, <2>2, RuleIsFinding, AtIsSeq
  <2> QED
    BY <1>2, <2>1, <2>3, <2>4, ShowingParts
<1> QED
  BY <1>7, <1>8, <1>9, <1>10, <1>11, <1>12, <1>13, <1>14, <1>15, <1>16

LEMMA ShowingStep ==
    ASSUME TypeInv, LongFunctionsShow, [Next]_vars
    PROVE  LongFunctionsShow'
<1>1. /\ LongFunctionsShow <=> Showing(calls, verbose_level)
      /\ LongFunctionsShow' <=> Showing(calls', verbose_level')
  BY DEF LongFunctionsShow, Showing
<1>2. CASE ParseArgumentsStops \/ ParseArguments \/ Exit \/ SkipFile \/ CheckDies
  <2>1. calls' = <<>>
    BY <1>2 DEF ParseArgumentsStops, ParseArguments, Exit, SkipFile, CheckDies, TypeInv, Shaped
  <2> QED
    BY <1>1, <2>1, ShowingParts
<1>3. CASE Error
  <2>1. calls \in Seq(Calls) /\ calls # <<>> /\ calls' = Tail(calls)
        /\ verbose_level' = verbose_level
    BY <1>3 DEF Error, settings, TypeInv, TypeOK
  <2>2. \A i \in DOMAIN calls' : i + 1 \in DOMAIN calls /\ calls'[i] = calls[i + 1]
    BY <2>1
  <2> QED
    BY <1>1, <2>1, <2>2 DEF Showing
<1>4. CASE CheckStyle
  <2>1. verbose_level' = verbose_level
    BY <1>4 DEF CheckStyle, settings
  <2> QED
    BY <1>1, <1>4, <2>1, StyleShows
<1>5. CASE Done \/ UNCHANGED vars
  BY <1>1, <1>5 DEF Done, vars, settings
<1> QED
  BY <1>1, <1>2, <1>3, <1>4, <1>5, OthersShow DEF Next

\* LongFunctionsShow: a function that CheckForFunctionLengths finds too long for
\* the verbosity is reported with a confidence that _ShouldPrintError lets
\* through at that verbosity, up to the 5 that Level is cut off at.
THEOREM LongFunctionsAreShown == Spec => []LongFunctionsShow
<1>1. Init => LongFunctionsShow
  BY DEF Init, LongFunctionsShow
<1>2. TypeInv /\ LongFunctionsShow /\ [Next]_vars => LongFunctionsShow'
  BY ShowingStep
<1> QED
  BY <1>1, <1>2, InitTyped, TypeStep, PTL DEF Spec

-----------------------------------------------------------------------------
(***************************************************************************)
(* The filters.                                                            *)
(***************************************************************************)
\* Of the filters fs, those at places s that cover a category.
Covering(fs, category, s) == {j \in s : category \in fs[j].covers}

\* What the last one of them says.
LastSays(fs, category, s) ==
    IF Covering(fs, category, s) = {} THEN FALSE
    ELSE fs[Max(Covering(fs, category, s))].sign = "-"

\* The loop of _ShouldPrintError over the filters, as a fold: the filter at the
\* last place goes over the verdict of those before it.
FilterFold(fs, category, h) ==
    [s \in SUBSET DOMAIN fs |->
        IF s = {} THEN FALSE
        ELSE IF category \in fs[Max(s)].covers THEN fs[Max(s)].sign = "-" ELSE h[s \ {Max(s)}]]

LEMMA FilteredIsFold ==
    ASSUME NEW category
    PROVE  IsFiltered(category)
           = (CHOOSE h : h = FilterFold(filters, category, h))[DOMAIN filters]
  BY Zenon DEF IsFiltered, FoldLeft, MapThenFoldSet, FilterFold

\* It is FALSE until a filter covers the category, and the sign of the last
\* that does from then on.
LEMMA FoldSays ==
    ASSUME NEW fs \in Seq(Filter), NEW category,
           NEW h, h = FilterFold(fs, category, h)
    PROVE  h[DOMAIN fs] = LastSays(fs, category, DOMAIN fs)
<1> DEFINE S == DOMAIN fs
           Bad == {s \in SUBSET S : h[s] # LastSays(fs, category, s)}
           Sizes == {Cardinality(s) : s \in Bad}
<1>1. S = 1 .. Len(fs) /\ Len(fs) \in Nat /\ IsFiniteSet(S)
  BY FS_Interval
<1>2. \A s \in SUBSET S :
         h[s] = IF s = {} THEN FALSE
                ELSE IF category \in fs[Max(s)].covers THEN fs[Max(s)].sign = "-"
                ELSE h[s \ {Max(s)}]
  BY DEF FilterFold
<1> HIDE DEF S
<1>3. \A s \in SUBSET S : /\ Cardinality(s) \in Nat
                          /\ \A x \in s : Cardinality(s \ {x}) = Cardinality(s) - 1
  <2>1. IsFiniteSet(S)
    BY <1>1
  <2> QED
    BY <2>1, SubsetCount
<1>4. Bad = {}
  <2> SUFFICES ASSUME Bad # {} PROVE FALSE
    OBVIOUS
  <2>1. Sizes \subseteq Nat /\ Sizes # {}
    <3>1. Bad \subseteq SUBSET S
      BY Zenon
    <3> HIDE DEF Bad
    <3>2. \A s \in Bad : Cardinality(s) \in Nat
      BY <1>3, <3>1
    <3> QED
      BY <3>2
  <2>2. PICK m \in Sizes : \A j \in Sizes : m <= j
    BY <2>1, LeastExists
  <2>3. PICK s \in Bad : Cardinality(s) = m
    BY <2>2
  <2>4. s # {}
    <3> SUFFICES ASSUME s = {} PROVE FALSE
      OBVIOUS
    <3>1. h[s] = FALSE
      BY <1>2, <2>3
    <3>2. LastSays(fs, category, s) = FALSE
      BY DEF LastSays, Covering
    <3> QED
      BY <2>3, <3>1, <3>2
  <2> DEFINE x == Max(s)
  <2>5. x \in s /\ (\A j \in s : j <= x) /\ s \subseteq S /\ s \subseteq 0 .. Len(fs)
    <3>1. s \subseteq 0 .. Len(fs) /\ s \subseteq S
      BY <1>1, <2>3
    <3> QED
      BY <1>1, <2>4, <3>1, MaxIsGreatest
  <2> HIDE DEF x
  <2>6. CASE category \in fs[x].covers
    <3>1. x \in Covering(fs, category, s) /\ \A j \in Covering(fs, category, s) : j <= x
      BY <2>5, <2>6 DEF Covering
    <3>2. Covering(fs, category, s) \subseteq 0 .. Len(fs) /\ Covering(fs, category, s) # {}
      BY <2>5, <3>1 DEF Covering
    <3>3. /\ Max(Covering(fs, category, s)) \in Covering(fs, category, s)
          /\ \A j \in Covering(fs, category, s) : j <= Max(Covering(fs, category, s))
      BY <1>1, <3>2, MaxIsGreatest
    <3>4. Max(Covering(fs, category, s)) = x
      <4> HIDE DEF Bad, Sizes
      <4>1. x \in Nat /\ Max(Covering(fs, category, s)) \in Nat
        BY <3>1, <3>2, <3>3
      <4> QED
        BY <3>1, <3>3, <4>1
    <3>5. LastSays(fs, category, s) = (fs[x].sign = "-")
      BY <3>2, <3>4, Zenon DEF LastSays
    <3>6. h[s] = (fs[x].sign = "-")
      BY <1>2, <2>3, <2>4, <2>6, Zenon DEF x
    <3> QED
      BY <2>3, <3>5, <3>6
  <2>7. CASE category \notin fs[x].covers
    <3>1. Covering(fs, category, s) = Covering(fs, category, s \ {x})
      BY <2>7 DEF Covering
    <3>2. LastSays(fs, category, s) = LastSays(fs, category, s \ {x})
      BY <3>1 DEF LastSays
    <3>3. h[s] = h[s \ {x}]
      BY <1>2, <2>3, <2>4, <2>7, Zenon DEF x
    <3>4. s \ {x} \in SUBSET S /\ Cardinality(s \ {x}) = m - 1 /\ m \in Nat
      BY <1>3, <2>1, <2>3, <2>5
    <3>5. s \ {x} \notin Bad
      <4> SUFFICES ASSUME s \ {x} \in Bad PROVE FALSE
        OBVIOUS
      <4>1. m - 1 \in Sizes
        BY <3>4
      <4> QED
        BY <2>2, <3>4, <4>1
    <3> QED
      BY <2>3, <3>2, <3>3, <3>4, <3>5
  <2> QED
    BY <2>6, <2>7
<1> QED
  BY <1>4 DEF S

\* There is such a fold, so it is what the last filter says.
LEMMA FilteredAsLastSays ==
    ASSUME filters \in Seq(Filter), NEW category
    PROVE  IsFiltered(category) = LastSays(filters, category, DOMAIN filters)
<1> DEFINE S == DOMAIN filters
           choose == [s \in SUBSET S |-> Max(s)]
           op == [p \in S \X BOOLEAN |->
                    IF category \in filters[p[1]].covers THEN filters[p[1]].sign = "-" ELSE p[2]]
<1>1. S = 1 .. Len(filters) /\ Len(filters) \in Nat /\ IsFiniteSet(S)
  BY FS_Interval
<1>2. \A s \in SUBSET S : s # {} => Max(s) \in s
  BY <1>1, MaxIsGreatest
<1>3. op \in [S \X BOOLEAN -> BOOLEAN]
  BY Zenon
<1>4. \A s \in SUBSET S : choose[s] = Max(s)
  BY Zenon
<1>5. \A x \in S, b \in BOOLEAN :
         op[<<x, b>>] = IF category \in filters[x].covers THEN filters[x].sign = "-" ELSE b
  OBVIOUS
<1> HIDE DEF op, choose
<1>6. PICK g \in [SUBSET S -> BOOLEAN] : IsFold(g, SUBSET S, FALSE, choose, op)
  <2>1. FALSE \in BOOLEAN /\ \A s \in SUBSET S : s # {} => choose[s] \in s
    BY <1>2, <1>4, Zenon
  <2> HIDE DEF S
  <2> QED
    BY <1>1, <1>3, <2>1, FoldExists, Zenon
<1>7. \A s \in SUBSET S :
         g[s] = IF s = {} THEN FALSE
                ELSE IF category \in filters[Max(s)].covers THEN filters[Max(s)].sign = "-"
                ELSE g[s \ {Max(s)}]
  <2> SUFFICES ASSUME NEW s \in SUBSET S
               PROVE  g[s] = IF s = {} THEN FALSE
                             ELSE IF category \in filters[Max(s)].covers THEN filters[Max(s)].sign = "-"
                             ELSE g[s \ {Max(s)}]
    OBVIOUS
  <2>1. g[s] = IF s = {} THEN FALSE ELSE op[<<Max(s), g[s \ {Max(s)}]>>]
    BY <1>4, <1>6, Zenon DEF IsFold
  <2>2. CASE s = {}
    BY <2>1, <2>2, Zenon
  <2>3. CASE s # {}
    <3>1. Max(s) \in S /\ g[s \ {Max(s)}] \in BOOLEAN
      BY <1>2, <2>3, <1>6
    <3>2. op[<<Max(s), g[s \ {Max(s)}]>>]
          = IF category \in filters[Max(s)].covers THEN filters[Max(s)].sign = "-"
            ELSE g[s \ {Max(s)}]
      BY <1>5, <3>1, Zenon
    <3> QED
      BY <2>1, <2>3, <3>2, Zenon
  <2> QED
    BY <2>2, <2>3
<1>8. g = FilterFold(filters, category, g)
  BY <1>6, <1>7, Zenon DEF FilterFold
<1> DEFINE h == CHOOSE f : f = FilterFold(filters, category, f)
<1>9. h = FilterFold(filters, category, h)
  BY <1>8, Zenon
<1>10. IsFiltered(category) = h[DOMAIN filters]
  BY FilteredIsFold
<1> HIDE DEF h
<1> QED
  BY <1>9, <1>10, FoldSays

\* SetFilters refuses a filter without a sign.
Signed == \A i \in DOMAIN filters : filters[i].sign # ""

\* An error that is not filtered: if a filter covers it, the last that does is a +.
LEMMA UnfilteredIsWanted ==
    ASSUME TypeInv, Signed, NEW category, ~IsFiltered(category)
    PROVE  LET covering == {j \in DOMAIN filters : category \in filters[j].covers}
           IN covering # {} => filters[Max(covering)].sign = "+"
<1> DEFINE covering == {j \in DOMAIN filters : category \in filters[j].covers}
<1> SUFFICES ASSUME covering # {} PROVE filters[Max(covering)].sign = "+"
  OBVIOUS
<1>1. filters \in Seq(Filter)
  BY DEF TypeInv, TypeOK
<1>2. covering = Covering(filters, category, DOMAIN filters)
  BY DEF Covering
<1>3. filters[Max(covering)].sign # "-"
  BY <1>1, <1>2, FilteredAsLastSays, Zenon DEF LastSays
<1>4. Max(covering) \in DOMAIN filters
  <2>1. covering \subseteq 0 .. Len(filters) /\ Len(filters) \in Nat
    BY <1>1
  <2> QED
    BY <2>1, MaxIsGreatest
<1>5. filters[Max(covering)].sign \in {"+", "-", ""}
  <2>1. filters[Max(covering)] \in Filter
    BY <1>1, <1>4
  <2> HIDE DEF covering
  <2> QED
    BY <2>1 DEF Filter
<1> QED
  BY <1>3, <1>4, <1>5 DEF Signed

\* Only ParseArguments sets the filters, before anything is printed.
LEMMA FiltersKept ==
    ASSUME TypeInv, Signed, LastFilterDecides, [Next]_vars
    PROVE  Signed' /\ LastFilterDecides'
<1>1. CASE UNCHANGED <<filters, printed>>
  BY <1>1 DEF Signed, LastFilterDecides
<1>2. CASE ParseArguments
  <2>1. printed' = <<>> /\ filters' = DEFAULT_FILTERS \o GivenFilters /\ ~BadFilter
    BY <1>2 DEF ParseArguments, TypeInv, Shaped
  <2>2. DEFAULT_FILTERS \in Seq(Filter) /\ GivenFilters \in Seq(Filter)
    BY OptionFacts DEF TypeInv, TypeOK
  <2>3. /\ \A i \in DOMAIN DEFAULT_FILTERS : DEFAULT_FILTERS[i].sign # ""
        /\ \A i \in DOMAIN GivenFilters : GivenFilters[i].sign # ""
    <3>1. DOMAIN DEFAULT_FILTERS = {1} /\ DEFAULT_FILTERS[1].sign = "-"
      BY DEF DEFAULT_FILTERS
    <3>2. \A i \in DOMAIN GivenFilters : GivenFilters[i].sign # ""
      BY <2>1 DEF BadFilter
    <3> QED
      BY <3>1, <3>2
  <2>4. \A fs, gs \in Seq(Filter) : \A i \in DOMAIN (fs \o gs) :
           IF i <= Len(fs) THEN i \in DOMAIN fs /\ (fs \o gs)[i] = fs[i]
           ELSE i - Len(fs) \in DOMAIN gs /\ (fs \o gs)[i] = gs[i - Len(fs)]
    OBVIOUS
  <2>5. Signed'
    <3> SUFFICES ASSUME NEW i \in DOMAIN filters' PROVE filters'[i].sign # ""
      BY DEF Signed
    <3> HIDE DEF DEFAULT_FILTERS
    <3> QED
      BY <2>1, <2>2, <2>3, <2>4
  <2> QED
    BY <2>1, <2>5 DEF LastFilterDecides
<1>3. CASE Error
  <2> DEFINE c == Head(calls)
             r == [fileno |-> fileno, linenum |-> c.linenum,
                   category |-> c.category, confidence |-> c.confidence, check |-> c.check]
  <2>1. filters' = filters
    BY <1>3 DEF Error, settings
  <2>2. CASE ~ShouldPrintError(c)
    BY <1>1, <1>3, <2>1, <2>2 DEF Error, counts
  <2>3. CASE ShouldPrintError(c)
    <3>1. printed' = Append(printed, r) /\ printed \in Seq(Report) /\ r.category = c.category
      BY <1>3, <2>3 DEF Error, TypeInv, TypeOK
    <3>2. ~IsFiltered(c.category)
      BY <2>3 DEF ShouldPrintError
    <3> HIDE DEF c, r
    <3>3. /\ DOMAIN printed' = DOMAIN printed \cup {Len(printed) + 1}
          /\ \A i \in DOMAIN printed : printed'[i] = printed[i]
          /\ printed'[Len(printed) + 1] = r
      BY <3>1
    <3> DEFINE Wanted(category) ==
                 LET covering == {j \in DOMAIN filters : category \in filters[j].covers}
                 IN covering # {} => filters[Max(covering)].sign = "+"
    <3>4. Wanted(r.category)
      BY <3>1, <3>2, UnfilteredIsWanted
    <3>5. \A i \in DOMAIN printed : Wanted(printed[i].category)
      BY DEF LastFilterDecides
    <3>6. (\A i \in DOMAIN printed' : Wanted(printed'[i].category)) => LastFilterDecides'
      BY <2>1 DEF LastFilterDecides
    <3> HIDE DEF Wanted
    <3>7. \A i \in DOMAIN printed' : Wanted(printed'[i].category)
      BY <3>3, <3>4, <3>5
    <3>8. Signed'
      BY <2>1 DEF Signed
    <3> QED
      BY <3>6, <3>7, <3>8
  <2> QED
    BY <2>2, <2>3
<1>4. CASE \/ ParseArgumentsStops \/ Exit \/ SkipFile \/ StartFile \/ CheckForHeaderGuard
           \/ RemoveMultiLineComments \/ ParseNolintSuppressions \/ CheckStyle \/ CheckDies \/ CheckBracesLoop
           \/ CheckLanguage \/ FinishClasses \/ CheckForIncludeWhatYouUse
           \/ CheckForUnicodeReplacementCharacters \/ CheckEnd
  BY <1>1, <1>4
     DEF ParseArgumentsStops, Exit, SkipFile, StartFile, CheckForHeaderGuard,
         RemoveMultiLineComments, ParseNolintSuppressions, CheckStyle, CheckDies, CheckBracesLoop,
         CheckLanguage, FinishClasses, CheckForIncludeWhatYouUse,
         CheckForUnicodeReplacementCharacters, CheckEnd, settings, counts
<1>5. CASE Done \/ UNCHANGED vars
  BY <1>1, <1>5 DEF Done, vars, settings, counts
<1> QED
  BY <1>2, <1>3, <1>4, <1>5 DEF Next

\* LastFilterDecides: of the filters that cover the category of an error that was
\* printed, the last one, as _ShouldPrintError goes through them, is a +.
THEOREM LastFiltersDecide == Spec => []LastFilterDecides
<1>1. Init => Signed /\ LastFilterDecides
  BY DEF Init, Signed, LastFilterDecides
<1>2. TypeInv /\ Signed /\ LastFilterDecides /\ [Next]_vars => Signed' /\ LastFilterDecides'
  BY FiltersKept
<1> QED
  BY <1>1, <1>2, InitTyped, TypeStep, PTL DEF Spec
=============================================================================
