----------------------------- MODULE MCCpplint ------------------------------
(***************************************************************************)
(* Command lines for TLC: every file of a few lines taken from a small set *)
(* for each of the parsers, the files of a pair after each other, and the  *)
(* options.                                                                *)
(***************************************************************************)
EXTENDS Cpplint

\* Headers: the file's own, one that may be, C, C++, and others.
Header(dir, stem, suffix, ext) == [dir |-> dir, stem |-> stem, suffix |-> suffix, ext |-> ext]
MyH == Header("d", "foo", "", "h")
MyInl == Header("d", "foo", "inl", "h")
BareH == Header("", "bar", "", "h")
OoH == Header("", "oo", "", "h")
OtherH == Header("d", "bar", "", "h")
StdioH == Header("", "stdio", "", "h")
VectorH == Header("", "vector", "", "")
StreamH == Header("", "iostream", "", "")
MapH == Header("", "map", "", "")
UtilityH == Header("", "utility", "", "")
MCHeaders == {MyH, MyInl, BareH, OoH, OtherH, StdioH, VectorH, StreamH, MapH, UtilityH}
MCCanon == [h \in MCHeaders |->
    CASE h = BareH -> 1 [] h = OtherH -> 2 [] h = MyH -> 3 [] h = MyInl -> 3
      [] h = StreamH -> 4 [] h = MapH -> 5 [] h = OoH -> 6 [] h = StdioH -> 7
      [] h = UtilityH -> 8 [] h = VectorH -> 9]
MCDirs == {"", "d"}
MCPublic == [dir \in MCDirs |-> dir]
MCHome == [dir \in MCDirs |-> dir]
MCEndsWith(p, q) ==
    /\ q.dir \in {"", p.dir} /\ p.suffix = q.suffix
    /\ p.stem = q.stem \/ (q.dir = "" /\ <<p.stem, q.stem>> = <<"foo", "oo">>)
MCFullPath(f, h) == [h EXCEPT !.dir = "d", !.stem = f.stem]
MCCppHeaders == {VectorH, StreamH, MapH, UtilityH}
MCStreams == {StreamH}
\* vector<> and pair<>.
MCTemplates == <<[header |-> VectorH, accepted |-> {}], [header |-> UtilityH, accepted |-> {MapH}]>>
MCIncludesOf == [h \in {MyH} |-> {VectorH}]

\* Lines.
Empty == [Dummy EXCEPT !.text = "empty"]
Code == [Dummy EXCEPT !.text = "code"]
Comment == [Dummy EXCEPT !.copyright = TRUE]
Include(h, angle) == [Code EXCEPT !.include = h, !.angle = angle]
Function == [Code EXCEPT !.decl = "name", !.open = 1, !.opener = TRUE, !.follows = TRUE]
Prototype == [Code EXCEPT !.decl = "name", !.semi = TRUE, !.follows = TRUE]
Statement == [Code EXCEPT !.semi = TRUE, !.follows = TRUE]
EndBrace == [Code EXCEPT !.close = 1, !.flush = TRUE, !.lone = "}", !.closer = TRUE, !.follows = TRUE]
Class == [Code EXCEPT !.class = TRUE]
ClassBrace == [Class EXCEPT !.open = 1, !.follows = TRUE, !.opener = TRUE]
Virtual == [Statement EXCEPT !.virtual = "method", !.explicit = TRUE]
TwoOpen == [Code EXCEPT !.open = 2, !.follows = TRUE, !.opener = TRUE]
ClassEnd == [Code EXCEPT !.close = 1, !.semi = TRUE, !.closer = TRUE]
StartComment == [Code EXCEPT !.starts = TRUE]
EndComment == [Dummy EXCEPT !.ends = TRUE]
OneLineBoth == [StartComment EXCEPT !.ends = TRUE]
Tabbed == [Statement EXCEPT !.style = <<Finding(<<"whitespace", "tab">>, 1)>>,
                            !.other = <<Finding(<<"runtime", "threadsafe_fn">>, 2)>>]
Cast == [Statement EXCEPT !.language = <<Finding(<<"readability", "casting">>, 4)>>]
Nolint(l, category) == [l EXCEPT !.nolint = category]
Tab == <<"whitespace", "tab">>
Initial == [Code EXCEPT !.indented = TRUE, !.open = 1, !.close = 1, !.semi = TRUE,
                        !.semiBrace = TRUE, !.follows = TRUE]
Begun == [Code EXCEPT !.indented = TRUE, !.open = 1]
Assigns == [Code EXCEPT !.assigns = TRUE]
BegunSemi == [Begun EXCEPT !.semi = TRUE, !.follows = TRUE]
Lone == [Code EXCEPT !.indented = TRUE, !.lone = "{", !.open = 1, !.follows = TRUE]
ElseIfOpen == [Code EXCEPT !.elseIf = TRUE, !.parens = 1, !.close = 1]
ParenClosed == [Code EXCEPT !.parens = -1, !.thenBrace = TRUE, !.open = 1,
                            !.opener = TRUE, !.follows = TRUE]
Commands == [Statement EXCEPT !.commands = TRUE]
For == [Code EXCEPT !.for = TRUE]
ForSemi == [For EXCEPT !.semi = TRUE, !.follows = TRUE]
Else == [Code EXCEPT !.else = TRUE]
Guard(kind, arg) == [Code EXCEPT !.guard = kind, !.arg = arg]
Use(t) == [Statement EXCEPT !.uses = {t}]

\* Files.
Words(S, n) == UNION {[1 .. k -> S] : k \in 1 .. n}
Named(stem, ext, lines) ==
    [name |-> [dir |-> "d", stem |-> stem, suffix |-> "", ext |-> ext],
     readable |-> TRUE, crlf |-> FALSE, lines |-> lines]
Foo(lines) == Named("foo", "cc", lines)
Rep(l, k) == [i \in 1 .. k |-> l]

IncludeFiles ==
    {Foo(w) : w \in Words({Include(MyH, FALSE), Include(OtherH, FALSE), Include(BareH, FALSE),
                           Include(StdioH, TRUE), Include(VectorH, TRUE), Include(StreamH, TRUE)}, 3)}
UseFiles ==
    {Named("foo", ext, w) : ext \in {"cc", "cpp"},
        w \in Words({Use(1), Use(2), Include(MyH, FALSE), Include(OoH, FALSE), Include(MapH, TRUE)}, 2)}
FunctionFiles ==
    {Foo(w) : w \in Words({Function, Prototype, Statement, EndBrace, Empty}, 4)}
    \cup {Foo(<<f>> \o Rep(Statement, k) \o <<EndBrace, Code, EndBrace>>) :
             f \in {Function, [Function EXCEPT !.decl = "TEST"]}, k \in {2, 3, 4, 5, 7, 9}}
ClassFiles ==
    {Foo(w) : w \in Words({Class, ClassBrace, Virtual, TwoOpen, ClassEnd}, 4)}
CommentFiles ==
    {Foo(w) : w \in Words({StartComment, EndComment, OneLineBoth, Nolint(Tabbed, Tab)}, 4)}
BraceFiles ==
    {Foo(w) : w \in Words({Initial, Begun, BegunSemi, Assigns, Lone, ElseIfOpen, ParenClosed, Else, EndBrace}, 3)}
    \cup {Foo(w) : w \in Words({Commands, For, ForSemi}, 3)}
GuardFiles ==
    {Named("foo", "h", <<a, b, c>>) :
        a \in {Guard("ifndef", "path"), Guard("ifndef", "old"), Nolint(Guard("ifndef", "other"), All)},
        b \in {Guard("define", "path"), Guard("define", "old"), Guard("define", "other"), Empty},
        c \in {Guard("endif", "path"), Nolint(Guard("endif", "other"), Unknown), Empty}}
NolintFiles ==
    {Foo(w) : w \in Words({Tabbed, Nolint(Tabbed, Tab), Nolint(Cast, Unknown), Nolint(ClassBrace, All),
                           Nolint(Virtual, Tab), ClassEnd}, 3)}

\* A file that leaves as much state behind as it can, and others around it.
Untidy == Foo(<<Nolint(Tabbed, All), Include(OtherH, FALSE), ClassBrace, Function, Statement>>)
PairFiles ==
    {Untidy, Foo(<<Comment, [Tabbed EXCEPT !.badUtf8 = TRUE], Empty>>),
     [Foo(<<Tabbed, Include(StdioH, TRUE)>>) EXCEPT !.crlf = TRUE],
     [Untidy EXCEPT !.readable = FALSE], Named("notes", "txt", <<Tabbed>>), Foo(<<Initial>>),
     Foo(<<ElseIfOpen>>), Named("foo", "h", <<[Empty EXCEPT !.text = "space"]>>)}

\* Options.
Opt(o) == [opt |-> o, level |-> 0, filters |-> <<>>, style |-> ""]
Verbose(v) == [Opt("--verbose") EXCEPT !.level = v]
Filters(fs) == [Opt("--filter") EXCEPT !.filters = fs]
Counting(c) == [Opt("--counting") EXCEPT !.style = c]
OneFilter(sign, top) == [sign |-> sign, covers |-> {c \in Categories : top \in {c[1], "all"}}]

CL(opts, files) == [opts |-> opts, files |-> files]
Solo(opts, F) == {CL(opts, <<f>>) : f \in F}
FilterLists ==
    Words({OneFilter("+", "all"), OneFilter("-", "all"), OneFilter("-", "runtime"), OneFilter("+", "whitespace")}, 2)
    \cup {<<OneFilter("", "all")>>}
OptionLists ==
    Words({Opt(o) : o \in {"--help", "bad value", "--filter=", "unknown"}} \cup {Verbose(0)}, 2)

MCCommandLines ==
    Solo(<<Verbose(0), Filters(<<OneFilter("+", "all")>>)>>, IncludeFiles \cup FunctionFiles \cup GuardFiles)
    \cup Solo(<<Verbose(1), Counting("toplevel")>>, FunctionFiles \cup UseFiles)
    \cup Solo(<<Verbose(-2)>>, {Foo(<<Function>> \o Rep(Statement, k) \o <<EndBrace>>) : k \in 1 .. 3})
    \cup Solo(<<Verbose(2)>>, {Foo(<<Function>> \o Rep(Statement, 9) \o <<EndBrace>>)})
    \cup Solo(<<Counting("detailed")>>, CommentFiles \cup NolintFiles)
    \cup Solo(<<>>, ClassFiles \cup BraceFiles)
    \cup {CL(<<Verbose(1)>>, <<f, g>>) : f \in PairFiles, g \in PairFiles}
    \cup {CL(<<Verbose(0), Filters(fs), Counting(c)>>, <<Untidy>>) :
             fs \in FilterLists, c \in {"total", "toplevel", "detailed"}}
    \cup {CL(os, fs) : os \in OptionLists, fs \in {<<>>, <<Untidy>>}}

\* A comment that nothing closes, and what may come after.
UnclosedComments ==
    Solo(<<>>, {Foo(<<StartComment>> \o w) : w \in Words({Statement, Nolint(Statement, All),
                   Nolint(Tabbed, <<"readability", "multiline_comment">>), Empty}, 3)})
=============================================================================
