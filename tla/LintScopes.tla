----------------------------- MODULE LintScopes -----------------------------
(***************************************************************************)
(* The two parsers of tools/cpplint.py that carry state from line to line: *)
(* _FunctionState, which measures functions, and _ClassState, which        *)
(* follows the nesting of classes.  Each is one operator that takes the    *)
(* state and a line to the next state, and one that gives what is          *)
(* reported.                                                               *)
(***************************************************************************)
EXTENDS LintText

CONSTANTS
    NORMAL_TRIGGER, \* lines of a function at --v=0: 250 in the code
    TEST_TRIGGER    \* those of a TEST: 400

ASSUME TriggerAssumption == {NORMAL_TRIGGER, TEST_TRIGGER} \subseteq Nat \ {0}

-----------------------------------------------------------------------------
(***************************************************************************)
(* Function lengths.                                                       *)
(***************************************************************************)
FunctionState ==
    [in_a_function : BOOLEAN, lines_in_function : Nat, current_function : {"", "name", "TEST"}]
NoFunction ==
    [in_a_function |-> FALSE, lines_in_function |-> 0, current_function |-> ""]

\* The first line from n on that has a ;, a } or a {.
BodySearch(text, n) ==
    MinOr({m \in DOMAIN text : m >= n /\ (text[m].semi \/ text[m].close > 0 \/ text[m].open > 0)},
          NumLines(text))

\* A declaration at line n whose body begins there or further down.
Opens(text, n) ==
    /\ text[n].decl # "no"
    /\ BodySearch(text, n) # NumLines(text)
    /\ LET m == text[BodySearch(text, n)] IN ~m.semi /\ m.close = 0

Closes(text, n) == text[n].decl = "no" /\ text[n].flush
Counted(text, n) == text[n].decl = "no" /\ ~text[n].flush /\ ~Blank(text[n])

Begin(name) == [in_a_function |-> TRUE, lines_in_function |-> 0, current_function |-> name]
End(f) == [f EXCEPT !.in_a_function = FALSE]
Count(f) == IF f.in_a_function THEN [f EXCEPT !.lines_in_function = @ + 1] ELSE f

\* Seeded fault: the end of a function is not taken note of.
FunctionLineWithoutEnd(f, text, n) ==
    IF Opens(text, n) THEN Begin(text[n].decl)
    ELSE IF Counted(text, n) THEN Count(f)
    ELSE f

FunctionLine(f, text, n) ==
    IF Opens(text, n) THEN Begin(text[n].decl)
    ELSE IF Closes(text, n) THEN End(f)
    ELSE IF Counted(text, n) THEN Count(f)
    ELSE f

Trigger(f) == IF f.current_function = "TEST" THEN TEST_TRIGGER ELSE NORMAL_TRIGGER

\* Seeded fault: the level is taken from the excess over the trigger.
LevelOfExcess(f) ==
    Max({l \in 0 .. 5 : l = 0 \/ Trigger(f) * 2 ^ l <= f.lines_in_function - Trigger(f)})

\* int(math.log(lines / base, 2)), at most 5.
Level(f) ==
    Max({l \in 0 .. 5 : l = 0 \/ Trigger(f) * 2 ^ l <= f.lines_in_function})

\* lines_in_function > trigger, which at a negative verbosity is a fraction of
\* the base trigger.
TooLong(f, verbosity) ==
    IF verbosity >= 0 THEN f.lines_in_function > Trigger(f) * 2 ^ verbosity
    ELSE f.lines_in_function * 2 ^ (-verbosity) > Trigger(f)

\* Check is made at every unindented }, also at one that ends no function, and
\* End does not take the count back.  The logarithm of 0 is an error.
Checked(f, text, n, verbosity) == Closes(text, n) /\ TooLong(f, verbosity)
LengthRaises(f, text, n, verbosity) ==
    Checked(f, text, n, verbosity) /\ f.lines_in_function < Trigger(f)

CheckForFunctionLengths(f, text, n, verbosity) ==
    When(text[n].decl # "no" /\ BodySearch(text, n) = NumLines(text), <<"readability", "fn_size">>, 5)
    \o When(Checked(f, text, n, verbosity), <<"readability", "fn_size">>, Level(f))

-----------------------------------------------------------------------------
(***************************************************************************)
(* Classes.                                                                *)
(***************************************************************************)
\* _ClassInfo; virtual_method_linenumber is -1 for None.
ClassInfo ==
    [linenum : Nat, seen_open_brace : BOOLEAN, is_derived : BOOLEAN,
     virtual_method_linenumber : Nat \cup {-1}, has_virtual_destructor : BOOLEAN,
     brace_depth : Int]

NewClass(n) ==
    [linenum |-> n, seen_open_brace |-> FALSE, is_derived |-> FALSE,
     virtual_method_linenumber |-> -1, has_virtual_destructor |-> FALSE,
     brace_depth |-> 0]

Top(stack) == stack[Len(stack)]
Pop(stack) == SubSeq(stack, 1, Len(stack) - 1)

\* The stack once a class that line n declares is on it.
Declared(stack, l, n) == IF l.class THEN Append(stack, NewClass(n)) ELSE stack

\* The class on top before its body, on line l: has l its {, or a bare colon?
BeforeBody(c, l) ==
    IF c.seen_open_brace THEN c
    ELSE [c EXCEPT !.seen_open_brace = l.open > 0, !.is_derived = @ \/ l.colon]

\* Seeded fault: of several braces on a line one is counted.
BodyCountsOne(c, l, n) ==
    [c EXCEPT !.virtual_method_linenumber = IF l.virtual = "no" THEN @ ELSE n,
              !.has_virtual_destructor = @ \/ l.virtual = "destructor",
              !.brace_depth = @ + Min({l.open, 1}) - Min({l.close, 1})]

\* The class on top inside its body, on line l.
Body(c, l, n) ==
    [c EXCEPT !.virtual_method_linenumber = IF l.virtual = "no" THEN @ ELSE n,
              !.has_virtual_destructor = @ \/ l.virtual = "destructor",
              !.brace_depth = @ + l.open - l.close]

\* A forward declaration: a ; before the {.
Forward(c, l) == ~c.seen_open_brace /\ l.semi

ClassLine(stack, l, n) ==
    LET s == Declared(stack, l, n) IN
    IF s = <<>> THEN s
    ELSE LET c == BeforeBody(Top(s), l) b == Body(c, l, n) IN
         IF Forward(Top(s), l) THEN Pop(s)
         ELSE IF ~c.seen_open_brace THEN Append(Pop(s), c)
         ELSE IF b.brace_depth <= 0 THEN Pop(s)
         ELSE Append(Pop(s), b)

\* The class whose body line n is in, as the line leaves it; none if there is no
\* class, or its { is still to come.
InClassBody(stack, l, n) ==
    LET s == Declared(stack, l, n)
    IN s # <<>> /\ ~Forward(Top(s), l) /\ BeforeBody(Top(s), l).seen_open_brace
ClassAt(stack, l, n) == Body(BeforeBody(Top(Declared(stack, l, n)), l), l, n)

CheckExplicit(stack, l, n) ==
    When(InClassBody(stack, l, n) /\ l.explicit, <<"runtime", "explicit">>, 5)

\* The class ends here with virtual methods, no virtual destructor and no base.
NeedsVirtualDestructor(stack, l, n) ==
    InClassBody(stack, l, n) /\ LET c == ClassAt(stack, l, n) IN
       /\ c.brace_depth <= 0
       /\ c.virtual_method_linenumber # -1
       /\ ~c.has_virtual_destructor
       /\ ~c.is_derived
CheckVirtual(stack, l, n) ==
    When(NeedsVirtualDestructor(stack, l, n), <<"runtime", "virtual">>, 4)

CheckFinished(stack) == When(stack # <<>>, <<"build", "class">>, 5)
=============================================================================
