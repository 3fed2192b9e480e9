------------------------------ MODULE LintText ------------------------------
(***************************************************************************)
(* What tools/cpplint.py knows of the text of a file, and the checks that  *)
(* look at more than one line of it.  A line is the record of the          *)
(* questions the checks ask of it; the regular expressions that answer     *)
(* them are not modelled.  As in the code, line 0 and the last line are    *)
(* markers that ProcessFileData puts around the file's own lines.          *)
(***************************************************************************)
EXTENDS Integers, Sequences, FiniteSets, FiniteSetsExt

CONSTANTS
    Headers,        \* names that may follow #include
    NoHeader        \* include of a line that is no #include line

ASSUME HeadersAssumption == IsFiniteSet(Headers) /\ NoHeader \notin Headers

\* _ERROR_CATEGORIES, as <<top level, rest>>; those the model's checks report.
Categories ==
    ({"build"} \X {"class", "header_guard", "include", "include_alpha",
                   "include_order", "include_what_you_use"})
    \cup ({"readability"} \X {"braces", "casting", "fn_size", "multiline_comment", "nolint",
                              "streams", "utf8"})
    \cup ({"runtime"} \X {"explicit", "threadsafe_fn", "virtual"})
    \cup ({"whitespace"} \X {"blank_line", "braces", "ending_newline", "newline", "tab"})
    \cup {<<"legal", "copyright">>}

All == <<"all">>            \* NOLINT, NOLINT(*), and the misparsed "NOLINT("
Unknown == <<"unknown">>    \* NOLINT(...) of a category that does not exist
NoLint == <<"none">>

\* What a check passes to the error handler, but for the line and the message.
Findings == [category : Categories, confidence : 0 .. 5]
Finding(category, confidence) == [category |-> category, confidence |-> confidence]
When(condition, category, confidence) ==
    IF condition THEN <<Finding(category, confidence)>> ELSE <<>>

\* The length of a function is reported by nobody but _FunctionState.Check and
\* CheckForFunctionLengths.
RuleFindings == {f \in Findings : f.category # <<"readability", "fn_size">>}

Line ==
    [nolint : Categories \cup {All, Unknown, NoLint},
     text : {"code", "comment", "space", "empty"},  \* blank but for a comment,
                                \* white space only, or nothing at all
     copyright : BOOLEAN,
     badUtf8 : BOOLEAN,
     starts : BOOLEAN,          \* begins with /* and does not close it
     ends : BOOLEAN,            \* ends with */
     guard : {"none", "ifndef", "define", "endif"},
     arg : {"none", "path", "old", "other"},    \* what it names: nothing, the
                                \* right variable, that with _ appended, another
     include : Headers \cup {NoHeader},
     angle : BOOLEAN,           \* includes with <> rather than ""
     uses : SUBSET Nat,         \* what it uses of the standard library
     decl : {"no", "name", "TEST"},     \* reads "name(", unindented; no macro,
                                \* unless it is a TEST
     open : Nat, close : Nat,   \* its braces, strings and comments removed
     semi : BOOLEAN,            \* has a ;
     commands : BOOLEAN,        \* has several ;, no for, and is no one-line case
     for : BOOLEAN,             \* has a for
     flush : BOOLEAN,           \* is an unindented } alone
     class : BOOLEAN,           \* begins a declaration of a class or struct
     colon : BOOLEAN,           \* has a bare :
     virtual : {"no", "method", "destructor"},
     explicit : BOOLEAN,        \* one-argument constructor without explicit
     parens : Int,              \* ( less )
     elseIf : BOOLEAN,          \* "} else if (", and no { after it
     thenBrace : BOOLEAN,       \* a { follows its last )
     lone : {"no", "{", "}"},   \* is a brace alone
     opener : BOOLEAN,          \* opens a block, not a namespace, and is not
                                \* the wrapped end of a function's header
     closer : BOOLEAN,          \* begins with the } of a block, not "} else"
     follows : BOOLEAN,         \* ends in ; : } or {
     else : BOOLEAN,            \* begins with else
     indented : BOOLEAN,        \* is white space, then a {
     semiBrace : BOOLEAN,       \* has {...} and then a ;
     initializer : BOOLEAN,     \* has struct, class, enum or = {
     assigns : BOOLEAN,         \* ends in =
     style : Seq(RuleFindings), \* what the rules report that look at one line
     language : Seq(RuleFindings),  \* only: those of CheckStyle, of
     other : Seq(RuleFindings)]     \* CheckLanguage, and of the checks after it

Blank(l) == l.text # "code"

\* What replaces a line of a multi-line comment: // dummy.  The two markers
\* around a file are comments too.
Dummy ==
    [nolint |-> NoLint, text |-> "comment", copyright |-> FALSE, badUtf8 |-> FALSE,
     starts |-> FALSE, ends |-> FALSE, guard |-> "none", arg |-> "none",
     include |-> NoHeader, angle |-> FALSE, uses |-> {}, decl |-> "no", open |-> 0, close |-> 0,
     semi |-> FALSE, commands |-> FALSE, for |-> FALSE, flush |-> FALSE,
     class |-> FALSE, colon |-> FALSE,
     virtual |-> "no", explicit |-> FALSE, parens |-> 0, elseIf |-> FALSE,
     thenBrace |-> FALSE, lone |-> "no", opener |-> FALSE, closer |-> FALSE,
     follows |-> FALSE, else |-> FALSE, indented |-> FALSE, semiBrace |-> FALSE,
     initializer |-> FALSE, assigns |-> FALSE, style |-> <<>>, language |-> <<>>, other |-> <<>>]

\* The lines of a file between the two markers.
Marked(lines) ==
    [i \in 0 .. Len(lines) + 1 |-> IF i \in 1 .. Len(lines) THEN lines[i] ELSE Dummy]

NumLines(text) == Cardinality(DOMAIN text)

MinOr(S, otherwise) == IF S = {} THEN otherwise ELSE Min(S)
MaxOr(S, otherwise) == IF S = {} THEN otherwise ELSE Max(S)
SumOf(f(_), S) == MapThenSumSet(f, S)

-----------------------------------------------------------------------------
(***************************************************************************)
(* Multi-line comments.                                                    *)
(***************************************************************************)
FindNextMultiLineCommentStart(text, lineix) ==
    MinOr({i \in DOMAIN text : i >= lineix /\ text[i].starts}, NumLines(text))

FindNextMultiLineCommentEnd(text, lineix) ==
    MinOr({i \in DOMAIN text : i >= lineix /\ text[i].ends}, NumLines(text))

\* Seeded fault: the line that closes the comment is left in the file.
RemoveMultiLineCommentsFromRangeShort(text, begin, end) ==
    [i \in DOMAIN text |-> IF begin <= i /\ i < end - 1 THEN Dummy ELSE text[i]]

RemoveMultiLineCommentsFromRange(text, begin, end) ==
    [i \in DOMAIN text |-> IF begin <= i /\ i < end THEN Dummy ELSE text[i]]

-----------------------------------------------------------------------------
(***************************************************************************)
(* Looking back and forward: CheckBraces and CheckSpacing.                 *)
(***************************************************************************)
\* -1 if line n is the first non-blank line.
GetPreviousNonBlankLine(text, n) ==
    MaxOr({i \in DOMAIN text : i < n /\ ~Blank(text[i])}, -1)

\* The line it returns: the empty string if there is none.
PreviousLine(text, n) ==
    LET p == GetPreviousNonBlankLine(text, n) IN IF p = -1 THEN Dummy ELSE text[p]

\* The ( of lines n to m less the ).
OpenParens(text, n, m) == SumOf(LAMBDA i : text[i].parens, n .. m)

\* Where the ( that line n leaves open is closed.  The code runs over the end
\* of the text, and dies, where the docstring promises the number of lines.
CloseExpression(text, n) ==
    MinOr({m \in DOMAIN text : m >= n /\ OpenParens(text, n, m) <= 0},
          NumLines(text))
Raises(text, n) == text[n].elseIf /\ CloseExpression(text, n) = NumLines(text)

\* The loop at the end of CheckBraces puts the lines before "  {...};" in front
\* of line n: prev is the last one it has put there, n at first, and -1 when it
\* has looked before the first line.
Joined(text, n, prev) == {p \in DOMAIN text : p = n \/ (prev <= p /\ p < n /\ ~Blank(text[p]))}

\* Seeded fault: the loop goes on over lines that have a ;.
JoinsAnotherStatement(text, n, prev) ==
    text[n].semiBrace /\ text[Min(Joined(text, n, prev))].indented

\* It goes on while what it has looks like "  {...};" and the line before has no ;.
JoinsAnother(text, n, prev) ==
    /\ text[n].semiBrace /\ text[Min(Joined(text, n, prev))].indented
    /\ ~PreviousLine(text, prev).semi

Balanced(text, joined) ==
    SumOf(LAMBDA i : text[i].open, joined) = SumOf(LAMBDA i : text[i].close, joined)

\* It looks for struct, class, enum and = { in the lines joined; all of them but
\* the first are white space and then a {.
SemicolonAfterBrace(text, n, prev) ==
    LET joined == Joined(text, n, prev)
    IN When(/\ text[n].semiBrace
            /\ Balanced(text, joined)
            /\ \A i \in joined : ~text[i].initializer
            /\ \A i \in joined \ {n} : ~text[i].assigns,
            <<"readability", "braces">>, 4)

\* The rules of CheckBraces before that loop: {, else, else if.  Those that look
\* at one line only are in its style.
ElseIf(text, n) ==
    LET m == CloseExpression(text, n)
    IN When(~text[m].thenBrace \/ OpenParens(text, n, m) < 0,
            <<"readability", "braces">>, 5)

CheckBraces(text, n) ==
    When(text[n].lone = "{" /\ ~PreviousLine(text, n).follows, <<"whitespace", "braces">>, 4)
    \o When(text[n].else /\ PreviousLine(text, n).lone = "}", <<"whitespace", "newline">>, 4)
    \o IF text[n].elseIf /\ ~Raises(text, n) THEN ElseIf(text, n) ELSE <<>>

\* A for may be spread over two lines.
SeveralCommands(text, n) ==
    When(text[n].commands /\ (~PreviousLine(text, n).for \/ PreviousLine(text, n).semi),
         <<"whitespace", "newline">>, 4)

\* CheckSpacing's rules for blank lines after { and before }.
CheckSpacing(text, n) ==
    LET blank == text[n].text \in {"empty", "space"} IN
    When(blank /\ text[n - 1].opener, <<"whitespace", "blank_line">>, 2)
    \o When(blank /\ n + 1 < NumLines(text) /\ text[n + 1].closer, <<"whitespace", "blank_line">>, 3)
=============================================================================
