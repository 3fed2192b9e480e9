------------------------------ MODULE Cpplint -------------------------------
(***************************************************************************)
(* One run of tools/cpplint.py: ParseArguments, ProcessFile for every file *)
(* of the command line (ProcessFileData, ProcessLine), and the error       *)
(* handler that every check calls.  phase is where the program stands, and *)
(* calls what the check just made has still to pass to Error: the handler  *)
(* consults and changes state of its own (the suppressions, the counts),   *)
(* so a call is a step.                                                    *)
(***************************************************************************)
EXTENDS LintScopes, LintIncludes, SequencesExt

CONSTANT CommandLines   \* what the program may be started with

(***************************************************************************)
(* A file is what split('\n') makes of it: the last line is empty if the   *)
(* file ends in a newline.  An option is one of --verbose, --filter and    *)
(* --counting with its value, or one of those that end the program:        *)
(* --help, a value that is not allowed, --filter= and (found before all    *)
(* others) an option getopt does not know.                                 *)
(***************************************************************************)
File == [name : Names, readable : BOOLEAN, crlf : BOOLEAN, lines : Seq(Line) \ {<<>>}]
Filter == [sign : {"+", "-", ""}, covers : SUBSET Categories]
Option ==
    [opt : {"--verbose", "--filter", "--counting", "--help", "bad value", "--filter=", "unknown"},
     level : Int, filters : Seq(Filter), style : {"", "total", "toplevel", "detailed"}]
CommandLine == [opts : Seq(Option), files : Seq(File)]

ASSUME CommandLinesAssumption == CommandLines \subseteq CommandLine

VARIABLES
    command,            \* sys.argv, never changed
    phase,
    exit_code,
    verbose_level, filters, counting,       \* _cpplint_state
    error_count, errors_by_category,
    fileno,             \* files taken up so far
    text,               \* lines
    line,               \* lineix, line
    prevlinenum,        \* of CheckBraces
    calls,              \* calls of Error still to be made
    error_suppressions,
    include_state, function_state, classinfo_stack,
    missing,            \* headers CheckForIncludeWhatYouUse has still to report
    printed             \* what was written to stderr

settings == <<command, verbose_level, filters, counting>>
counts == <<error_count, errors_by_category, printed>>
parsers == <<include_state, function_state, classinfo_stack>>
vars == <<settings, counts, parsers, phase, exit_code, fileno, text, line, prevlinenum,
          calls, error_suppressions, missing>>

Phases ==
    {"start", "file", "ifndef", "endif", "comments", "nolint", "style", "braces",
     "language", "finish", "include what you use", "utf8", "end", "crashed", "exited"}

\* A call of Error; check is the phase it is made in.
Calls == [linenum : Nat, category : Categories, confidence : 0 .. 5, check : Phases]
At(n, findings) ==
    [i \in DOMAIN findings |->
        [linenum |-> n, category |-> findings[i].category,
         confidence |-> findings[i].confidence, check |-> phase]]

\* The keys of errors_by_category.
TopLevel(category) == <<category[1]>>
Keys == Categories \cup {TopLevel(c) : c \in Categories}
NoErrors == [k \in Keys |-> 0]

Init ==
    /\ command \in CommandLines
    /\ phase = "start" /\ exit_code = 0
    /\ verbose_level = 1 /\ filters = <<>> /\ counting = "total"
    /\ error_count = 0 /\ errors_by_category = NoErrors /\ printed = <<>>
    /\ fileno = 0 /\ text = Marked(<<>>) /\ line = 0 /\ prevlinenum = 0
    /\ calls = <<>> /\ error_suppressions = {} /\ missing = {}
    /\ include_state = NoIncludes /\ function_state = NoFunction /\ classinfo_stack = <<>>

-----------------------------------------------------------------------------
(***************************************************************************)
(* The error handler.                                                      *)
(***************************************************************************)
IsErrorSuppressedByNolint(category, linenum) ==
    {<<category, linenum>>, <<All, linenum>>} \cap error_suppressions # {}

\* Seeded fault: a + filter wins over every - filter.
IsFilteredUnlessWanted(category) ==
    LET covering == {filters[i].sign : i \in {j \in DOMAIN filters : category \in filters[j].covers}}
    IN covering = {"-"}

IsFiltered(category) ==
    FoldLeft(LAMBDA is_filtered, f : IF category \in f.covers THEN f.sign = "-" ELSE is_filtered,
             FALSE, filters)

ShouldPrintError(c) ==
    /\ ~IsErrorSuppressedByNolint(c.category, c.linenum)
    /\ c.confidence >= verbose_level
    /\ ~IsFiltered(c.category)

\* Seeded fault: with --counting=toplevel the full category is counted as well.
IncrementErrorCountTwice(category) ==
    /\ error_count' = error_count + 1
    /\ errors_by_category' = [k \in Keys |-> errors_by_category[k]
           + IF \/ counting = "detailed" /\ k = category
                \/ counting = "toplevel" /\ k \in {category, TopLevel(category)} THEN 1 ELSE 0]

IncrementErrorCount(category) ==
    /\ error_count' = error_count + 1
    /\ errors_by_category' = [k \in Keys |-> errors_by_category[k]
           + IF \/ counting = "detailed" /\ k = category
                \/ counting = "toplevel" /\ k = TopLevel(category) THEN 1 ELSE 0]

Report == [fileno : Nat, linenum : Nat, category : Categories, confidence : 0 .. 5, check : Phases]

Error ==
    /\ calls # <<>>
    /\ calls' = Tail(calls)
    /\ LET c == Head(calls) IN
       IF ShouldPrintError(c)
       THEN /\ IncrementErrorCount(c.category)
            /\ printed' = Append(printed, [fileno |-> fileno, linenum |-> c.linenum,
                              category |-> c.category, confidence |-> c.confidence, check |-> c.check])
       ELSE UNCHANGED counts
    /\ UNCHANGED <<settings, parsers, phase, exit_code, fileno, text, line, prevlinenum,
                   error_suppressions, missing>>

-----------------------------------------------------------------------------
(***************************************************************************)
(* ParseArguments and main.                                                *)
(***************************************************************************)
DEFAULT_FILTERS == <<[sign |-> "-", covers |-> {<<"build", "include_alpha">>}]>>

Stopping == {"--help", "bad value", "--filter="}
Given(opt) == {i \in DOMAIN command.opts : command.opts[i].opt = opt}
Stops == {i \in DOMAIN command.opts : command.opts[i].opt \in Stopping}

\* The filters that SetFilters puts after the default ones.
GivenFilters ==
    IF Given("--filter") = {} THEN <<>> ELSE command.opts[Max(Given("--filter"))].filters
BadFilter == \E i \in DOMAIN GivenFilters : GivenFilters[i].sign = ""

\* PrintUsage and an uncaught ValueError exit with 1, PrintCategories with 0.
\* The first option that stops the program decides.
ParseArgumentsStops ==
    /\ phase = "start"
    /\ Given("unknown") # {} \/ Stops # {} \/ command.files = <<>> \/ BadFilter
    /\ exit_code' = IF Given("unknown") = {} /\ Stops # {} /\ command.opts[Min(Stops)].opt = "--filter="
                    THEN 0 ELSE 1
    /\ phase' = "exited"
    /\ UNCHANGED <<settings, counts, parsers, fileno, text, line, prevlinenum, calls,
                   error_suppressions, missing>>

\* Of an option given twice the last value counts; the counting style is the
\* empty string unless it is given.
ParseArguments ==
    /\ phase = "start"
    /\ Given("unknown") = {} /\ Stops = {} /\ command.files # <<>> /\ ~BadFilter
    /\ verbose_level' = IF Given("--verbose") = {} THEN verbose_level
                        ELSE command.opts[Max(Given("--verbose"))].level
    /\ filters' = DEFAULT_FILTERS \o GivenFilters
    /\ counting' = IF Given("--counting") = {} THEN ""
                   ELSE command.opts[Max(Given("--counting"))].style
    /\ error_count' = 0 /\ errors_by_category' = NoErrors
    /\ phase' = "file"
    /\ UNCHANGED <<command, printed, parsers, exit_code, fileno, text, line, prevlinenum, calls,
                   error_suppressions, missing>>

\* sys.exit at the end of main, and Python's exit after an uncaught IndexError or
\* ValueError.
Exit ==
    /\ calls = <<>>
    /\ \/ phase = "file" /\ fileno = Len(command.files) /\ exit_code' = IF error_count > 0 THEN 1 ELSE 0
       \/ phase = "crashed" /\ exit_code' = 1
    /\ phase' = "exited"
    /\ UNCHANGED <<settings, counts, parsers, fileno, text, line, prevlinenum, calls,
                   error_suppressions, missing>>

-----------------------------------------------------------------------------
(***************************************************************************)
(* ProcessFile, and ProcessFileData up to the loop over the lines.         *)
(***************************************************************************)
NextFile == command.files[fileno + 1]
CurrentFile == command.files[fileno]
Lintable(f) == f.readable /\ f.name.ext \in {"cc", "h", "cpp", "-"}

SkipFile ==
    /\ phase = "file" /\ calls = <<>>
    /\ fileno < Len(command.files) /\ ~Lintable(NextFile)
    /\ fileno' = fileno + 1
    /\ UNCHANGED <<settings, counts, parsers, phase, exit_code, text, line, prevlinenum, calls,
                   error_suppressions, missing>>

NoCopyright(lines) ==
    \A n \in DOMAIN lines : n \in 1 .. 10 => ~lines[n].copyright

\* Seeded fault: the suppressions are not cleared.
ResetNothing == error_suppressions' = error_suppressions

ResetNolintSuppressions == error_suppressions' = {}

StartFile ==
    /\ phase = "file" /\ calls = <<>>
    /\ fileno < Len(command.files) /\ Lintable(NextFile)
    /\ fileno' = fileno + 1
    /\ text' = Marked(NextFile.lines) /\ line' = 0
    /\ include_state' = NoIncludes /\ function_state' = NoFunction /\ classinfo_stack' = <<>>
    /\ ResetNolintSuppressions
    /\ calls' = At(0, When(NoCopyright(text'), <<"legal", "copyright">>, 5))
    /\ phase' = IF NextFile.name.ext = "h" THEN "ifndef" ELSE "comments"
    /\ UNCHANGED <<settings, counts, exit_code, prevlinenum, missing>>

\* Seeded fault: NOLINT of one category suppresses nothing.
SuppressedOnlyByAll(suppressions, n) ==
    IF text[n].nolint = All THEN suppressions \cup {<<All, n>>} ELSE suppressions

\* ParseNolintSuppressions: the suppressions after line n, and its error.
Suppressed(suppressions, n) ==
    IF text[n].nolint \in {NoLint, Unknown} THEN suppressions
    ELSE suppressions \cup {<<text[n].nolint, n>>}
UnknownNolint(n) == When(text[n].nolint = Unknown, <<"readability", "nolint">>, 5)

\* The first line of kind k that has an argument, and the last #endif; 0 for none.
FirstOf(k) == MinOr({n \in DOMAIN text : text[n].guard = k /\ text[n].arg # "none"}, 0)
LastEndif == MaxOr({n \in DOMAIN text : text[n].guard = "endif"}, 0)
HasGuard ==
    /\ FirstOf("ifndef") # 0 /\ FirstOf("define") # 0
    /\ text[FirstOf("ifndef")].arg = text[FirstOf("define")].arg

\* The guard line n does not have the right variable.
WrongGuard(n) == When(TRUE, <<"build", "header_guard">>, IF text[n].arg = "old" THEN 0 ELSE 5)

CheckForHeaderGuard ==
    /\ calls = <<>>
    /\ \/ /\ phase = "ifndef" /\ ~HasGuard
          /\ calls' = At(0, When(TRUE, <<"build", "header_guard">>, 5))
          /\ phase' = "comments" /\ UNCHANGED error_suppressions
       \/ /\ (phase = "ifndef" /\ HasGuard) \/ phase = "endif"
          /\ phase' = IF phase = "ifndef" THEN "endif" ELSE "comments"
          /\ LET n == IF phase = "ifndef" THEN FirstOf("ifndef") ELSE LastEndif IN
             IF text[n].arg = "path" THEN UNCHANGED <<calls, error_suppressions>>
             ELSE /\ error_suppressions' = Suppressed(error_suppressions, n)
                  /\ calls' = At(n, UnknownNolint(n) \o WrongGuard(n))
    /\ UNCHANGED <<settings, counts, parsers, exit_code, fileno, text, line, prevlinenum, missing>>

\* One turn of the loop of RemoveMultiLineComments.
RemoveMultiLineComments ==
    /\ phase = "comments" /\ calls = <<>>
    /\ LET begin == FindNextMultiLineCommentStart(text, line)
           end == FindNextMultiLineCommentEnd(text, begin)
       IN \/ /\ end < NumLines(text)
             /\ text' = RemoveMultiLineCommentsFromRange(text, begin, end + 1)
             /\ line' = end + 1
             /\ UNCHANGED <<phase, calls>>
          \/ /\ end = NumLines(text)
             /\ calls' = At(begin + 1, When(begin < NumLines(text),
                                            <<"readability", "multiline_comment">>, 5))
             /\ line' = 0 /\ phase' = "nolint"
             /\ UNCHANGED text
    /\ UNCHANGED <<settings, counts, parsers, exit_code, fileno, prevlinenum, error_suppressions, missing>>

-----------------------------------------------------------------------------
(***************************************************************************)
(* ProcessLine.                                                            *)
(***************************************************************************)
ParseNolintSuppressions ==
    /\ phase = "nolint" /\ calls = <<>>
    /\ error_suppressions' = Suppressed(error_suppressions, line)
    /\ calls' = At(line, UnknownNolint(line))
    /\ phase' = "style"
    /\ UNCHANGED <<settings, counts, parsers, exit_code, fileno, text, line, prevlinenum, missing>>

\* CheckForFunctionLengths, CheckForMultilineCommentsAndStrings, and CheckStyle
\* up to the loop of CheckBraces.
CheckStyle ==
    /\ phase = "style" /\ calls = <<>>
    /\ ~LengthRaises(function_state, text, line, verbose_level)
    /\ function_state' = FunctionLine(function_state, text, line)
    /\ calls' = At(line, CheckForFunctionLengths(function_state, text, line, verbose_level)
                         \o When(text[line].starts, <<"readability", "multiline_comment">>, 5)
                         \o text[line].style \o SeveralCommands(text, line)
                         \o CheckBraces(text, line))
    /\ prevlinenum' = line
    /\ phase' = IF Raises(text, line) THEN "crashed" ELSE "braces"
    /\ UNCHANGED <<settings, counts, include_state, classinfo_stack, exit_code, fileno, text, line,
                   error_suppressions, missing>>

\* Check dies of math.log(0), before End.
CheckDies ==
    /\ phase = "style" /\ calls = <<>>
    /\ LengthRaises(function_state, text, line, verbose_level)
    /\ phase' = "crashed"
    /\ UNCHANGED <<settings, counts, parsers, exit_code, fileno, text, line, prevlinenum, calls,
                   error_suppressions, missing>>

\* That loop.  Once prevlinenum is -1 it stays so, and the loop does not end.
CheckBracesLoop ==
    /\ phase = "braces" /\ calls = <<>>
    /\ \/ /\ JoinsAnother(text, line, prevlinenum)
          /\ prevlinenum' = GetPreviousNonBlankLine(text, prevlinenum)
          /\ UNCHANGED <<phase, calls>>
       \/ /\ ~JoinsAnother(text, line, prevlinenum)
          /\ calls' = At(line, SemicolonAfterBrace(text, line, prevlinenum))
          /\ phase' = "language"
          /\ UNCHANGED prevlinenum
    /\ UNCHANGED <<settings, counts, parsers, exit_code, fileno, text, line, error_suppressions, missing>>

\* Seeded fault: the loop over the lines makes one turn too many.
MoreLinesByOne == line < NumLines(text)

\* for line in xrange(clean_lines.NumLines())
MoreLines == line + 1 < NumLines(text)

\* CheckSpacing, CheckLanguage, CheckForNonStandardConstructs and the checks
\* after it; then the next line.
CheckLanguage ==
    LET l == text[line] f == CurrentFile.name IN
    /\ phase = "language" /\ calls = <<>>
    /\ calls' = At(line, CheckSpacing(text, line)
                         \o (IF Blank(l) THEN <<>>
                             ELSE IF l.include # NoHeader THEN CheckIncludeLine(include_state, f, l)
                             ELSE l.language)
                         \o CheckExplicit(classinfo_stack, l, line) \o l.other)
                \o IF NeedsVirtualDestructor(classinfo_stack, l, line)
                   THEN At(ClassAt(classinfo_stack, l, line).linenum, CheckVirtual(classinfo_stack, l, line))
                   ELSE <<>>
    /\ include_state' = IF Blank(l) THEN include_state ELSE IncludeLine(include_state, f, l, line)
    /\ classinfo_stack' = ClassLine(classinfo_stack, l, line)
    /\ line' = IF MoreLines THEN line + 1 ELSE line
    /\ phase' = IF MoreLines THEN "nolint" ELSE "finish"
    /\ UNCHANGED <<settings, counts, function_state, exit_code, fileno, text, prevlinenum,
                   error_suppressions, missing>>

-----------------------------------------------------------------------------
(***************************************************************************)
(* ProcessFileData after the loop over the lines, and the end of           *)
(* ProcessFile.                                                            *)
(***************************************************************************)
FinishClasses ==
    /\ phase = "finish" /\ calls = <<>>
    /\ calls' = IF classinfo_stack = <<>> THEN <<>>
                ELSE At(classinfo_stack[1].linenum, CheckFinished(classinfo_stack))
    /\ missing' = Missing(CurrentFile.name, text, include_state.included)
    /\ phase' = "include what you use"
    /\ UNCHANGED <<settings, counts, parsers, exit_code, fileno, text, line, prevlinenum,
                   error_suppressions>>

\* The dictionary of required headers has no order.
CheckForIncludeWhatYouUse ==
    /\ phase = "include what you use" /\ calls = <<>>
    /\ \/ \E h \in missing :
             /\ missing' = missing \ {h}
             /\ calls' = At(LastUse(text, h), When(TRUE, <<"build", "include_what_you_use">>, 4))
             /\ UNCHANGED <<phase, line>>
       \/ /\ missing = {}
          /\ phase' = "utf8" /\ line' = 0
          /\ UNCHANGED <<missing, calls>>
    /\ UNCHANGED <<settings, counts, parsers, exit_code, fileno, text, prevlinenum, error_suppressions>>

\* One turn of its loop over the lines.
CheckForUnicodeReplacementCharacters ==
    /\ phase = "utf8" /\ calls = <<>>
    /\ calls' = At(line, When(text[line].badUtf8, <<"readability", "utf8">>, 5))
    /\ line' = IF MoreLines THEN line + 1 ELSE line
    /\ phase' = IF MoreLines THEN "utf8" ELSE "end"
    /\ UNCHANGED <<settings, counts, parsers, exit_code, fileno, text, prevlinenum,
                   error_suppressions, missing>>

\* CheckForNewlineAtEOF, and the test for \r.
CheckEnd ==
    LET last == NumLines(text) - 2
    IN /\ phase = "end" /\ calls = <<>>
       /\ calls' = At(last, When(text[last].text # "empty", <<"whitespace", "ending_newline">>, 5))
                   \o At(0, When(CurrentFile.crlf, <<"whitespace", "newline">>, 1))
       /\ phase' = "file"
       /\ UNCHANGED <<settings, counts, parsers, exit_code, fileno, text, line, prevlinenum,
                      error_suppressions, missing>>

Done == phase = "exited" /\ UNCHANGED vars

Next ==
    \/ ParseArgumentsStops \/ ParseArguments \/ Exit
    \/ SkipFile \/ StartFile \/ CheckForHeaderGuard \/ RemoveMultiLineComments
    \/ ParseNolintSuppressions \/ CheckStyle \/ CheckDies \/ CheckBracesLoop \/ CheckLanguage
    \/ FinishClasses \/ CheckForIncludeWhatYouUse
    \/ CheckForUnicodeReplacementCharacters \/ CheckEnd
    \/ Error \/ Done

Spec == Init /\ [][Next]_vars

\* A sequential program: it goes on as long as it can.
FairSpec == Spec /\ WF_vars(Next)

-----------------------------------------------------------------------------
(***************************************************************************)
(* Properties.                                                             *)
(***************************************************************************)
\* The phases that work on a file, and the lines each parser has seen.
Linting == Phases \ {"start", "file", "exited"}
LinesBefore == IF phase \in {"finish", "include what you use", "utf8", "end"} THEN DOMAIN text
               ELSE IF phase \in {"ifndef", "endif", "comments"} THEN {}
               ELSE {n \in DOMAIN text : n < line}
LinesMeasured ==
    LinesBefore
    \cup IF \/ phase \in {"braces", "language"}
            \/ phase = "crashed" /\ ~LengthRaises(function_state, text, line, verbose_level)
         THEN {line} ELSE {}

\* A file's lines, and those without multi-line comments: a comment runs from a
\* line that starts one to the next line that ends one.
Raw(f) == Marked(f.lines)
InComment(raw, i) ==
    /\ \E b \in DOMAIN raw : b <= i /\ raw[b].starts /\ \A j \in DOMAIN raw : b <= j /\ j < i => ~raw[j].ends
    /\ \E e \in DOMAIN raw : e >= i /\ raw[e].ends
Cleaned(f) == [i \in DOMAIN Raw(f) |-> IF InComment(Raw(f), i) THEN Dummy ELSE Raw(f)[i]]

\* Every variable stays in its domain; the current line is a line of the file.
TypeOK ==
    /\ command \in CommandLine
    /\ phase \in Phases /\ exit_code \in {0, 1}
    /\ verbose_level \in Int /\ filters \in Seq(Filter)
    /\ counting \in {"", "total", "toplevel", "detailed"}
    /\ error_count \in Nat /\ errors_by_category \in [Keys -> Nat] /\ printed \in Seq(Report)
    /\ fileno \in 0 .. Len(command.files)
    /\ \A n \in DOMAIN text : text[n] \in Line
    /\ line \in DOMAIN text /\ prevlinenum \in Nat \cup {-1}
    /\ calls \in Seq(Calls)
    /\ error_suppressions \subseteq (Categories \cup {All}) \X Nat
    /\ include_state \in IncludeState /\ function_state \in FunctionState
    /\ classinfo_stack \in Seq(ClassInfo) /\ missing \subseteq Headers

\* The suppressions in force while a file is linted were all asked for by a
\* NOLINT on that line of that file: the global map that
\* ParseNolintSuppressions fills does not carry over to the next file.
SuppressionIsLocal ==
    phase \in Linting =>
        \A s \in error_suppressions :
            s[2] \in DOMAIN text /\ Raw(CurrentFile)[s[2]].nolint = s[1]

\* No error is printed for a line whose NOLINT covers it, whichever check finds
\* it and however late: a class is reported on its first line when it ends.
\* RemoveMultiLineComments, which runs before any NOLINT is parsed, is the
\* exception, and multi-line comments have no NOLINT.
NolintHolds ==
    \A i \in DOMAIN printed :
        LET r == printed[i] IN
        r.check # "comments" => Cleaned(command.files[r.fileno])[r.linenum].nolint \notin {All, r.category}

\* The usage text promises it of every error: a NOLINT(category) comment on the
\* line suppresses those of the category, and NOLINT those of all categories.
EveryNolintHolds ==
    \A i \in DOMAIN printed :
        LET r == printed[i] IN
        Cleaned(command.files[r.fileno])[r.linenum].nolint \notin {All, r.category}

\* IncrementErrorCount keeps the counts in step with what Error writes: the
\* total, the count of each category or top-level category, and the exit code.
CountsAgree ==
    /\ error_count = Len(printed)
    /\ \A k \in Keys : errors_by_category[k] =
          Cardinality({i \in DOMAIN printed :
                          \/ counting = "detailed" /\ k = printed[i].category
                          \/ counting = "toplevel" /\ k = TopLevel(printed[i].category)})
    /\ phase = "exited" /\ exit_code = 0 => printed = <<>>

\* Of the filters that cover an error's category the last one decides in
\* _ShouldPrintError, and those of the command line come after the default.
LastFilterDecides ==
    \A i \in DOMAIN printed :
        LET covering == {j \in DOMAIN filters : printed[i].category \in filters[j].covers}
        IN covering # {} => filters[Max(covering)].sign = "+"

\* RemoveMultiLineComments removes the comments, all of them and nothing else,
\* however they follow each other.
CommentsGone ==
    phase \in Linting \ {"ifndef", "endif", "comments"} => text = Cleaned(CurrentFile)

\* lines_in_function is the number of lines of code from the last beginning of a
\* function to its end, or to here.
LengthIsCounted ==
    phase \in Linting =>
        LET begin == MaxOr({n \in LinesMeasured : Opens(text, n)}, -1)
            ends == {n \in LinesMeasured : n > begin /\ Closes(text, n)}
            body == {n \in LinesMeasured : n > begin /\ Counted(text, n) /\ \A e \in ends : n < e}
        IN IF begin = -1 THEN function_state = NoFunction
           ELSE /\ function_state.in_a_function = (ends = {})
                /\ function_state.lines_in_function = Cardinality(body)

\* A function that is too long for the verbosity is reported with a confidence
\* that the same verbosity (of 0 to 5) lets through.
LongFunctionsShow ==
    \A i \in DOMAIN calls :
        calls[i].category = <<"readability", "fn_size">> /\ verbose_level <= 5
            => calls[i].confidence >= verbose_level

\* The braces a class has open, while no other class has begun in it, are those
\* of the text from its { to here, and there is one; a class that is entered
\* later stands higher on the stack.
DepthIsCounted ==
    phase \in Linting =>
        \A i \in DOMAIN classinfo_stack :
            LET c == classinfo_stack[i]
                from == {n \in LinesBefore : n >= c.linenum}
                brace == Min({n \in from : text[n].open > 0})
                body == {n \in from : n >= brace}
            IN /\ i > 1 => classinfo_stack[i - 1].linenum < c.linenum
               /\ c.seen_open_brace => c.brace_depth > 0
               /\ (c.seen_open_brace /\ \A n \in from \ {c.linenum} : ~text[n].class) =>
                     c.brace_depth = SumOf(LAMBDA n : text[n].open - text[n].close, body)

\* The lines that include a header the file has not included before.
FirstIncludes ==
    {n \in LinesBefore : /\ ~Blank(text[n]) /\ text[n].include # NoHeader
                        /\ \A m \in LinesBefore : m < n /\ ~Blank(text[m]) => text[m].include # text[n].include}
TypeOf(n) == ClassifyInclude(CurrentFile.name, text[n].include, text[n].angle)
Mine(n) == TypeOf(n) \in {LIKELY_MY, POSSIBLE_MY}
SectionOf(S) ==
    IF S = {} THEN INITIAL
    ELSE IF \A n \in S : Mine(n) THEN MY_H
    ELSE IF \E n \in S : TypeOf(n) = OTHER_HEADER \/ (Mine(n) /\ \E m \in S : m < n /\ ~Mine(m)) THEN OTHER_H
    ELSE IF \E n \in S : TypeOf(n) = CPP_SYS THEN CPP ELSE C

\* The section CheckNextIncludeOrder has reached is the highest of the headers
\* so far, where the file's own header counts as another one if it is not first.
SectionIsHighest ==
    phase \in Linting => include_state.section = SectionOf(FirstIncludes)

\* The header the next one is compared with is the greatest since the section
\* changed or a header was out of order: one that sorts wrongly does not become
\* the measure for those after it.
LastHeaderIsGreatest ==
    phase \in Linting =>
        LET upTo(n) == {m \in FirstIncludes : m <= n}
            resets == {n \in FirstIncludes :
                         \/ SectionOf(upTo(n)) # SectionOf(upTo(n - 1))
                         \/ OutOfOrder(SectionOf(upTo(n - 1)), TypeOf(n))}
            run == {n \in FirstIncludes : n >= MaxOr(resets, 0)}
        IN include_state.last_header = MaxOr({Canon[text[n].include] : n \in run}, 0)

\* A file on which the loop of CheckBraces does not end: "  {...};" with nothing
\* before it but lines that begin so and have no ;.
Hangs(f) ==
    LET t == Cleaned(f) IN
    Lintable(f) /\ \E n \in DOMAIN t :
        /\ t[n].semiBrace /\ t[n].indented
        /\ \A p \in DOMAIN t : p < n /\ ~Blank(t[p]) => t[p].indented /\ ~t[p].semi

\* The program ends on every command line without such a file.
LintEnds ==
    (\A i \in DOMAIN command.files : ~Hangs(command.files[i])) ~> phase = "exited"
=============================================================================
