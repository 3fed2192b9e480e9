---------------------------- MODULE LintIncludes ----------------------------
(***************************************************************************)
(* The #include lines of a file in tools/cpplint.py: _IncludeState (what   *)
(* was included, the section reached, the last header of the section),     *)
(* CheckIncludeLine, and CheckForIncludeWhatYouUse.  A file name is a      *)
(* directory, a stem, a suffix such as "test" in foo_test.cc, and an       *)
(* extension; Headers are such names.                                      *)
(***************************************************************************)
EXTENDS LintText

CONSTANTS
    Dirs,           \* directories, "" among them
    Public, Home,   \* of a directory d: d/../public, and d without its
                    \* "public" or "internal" component
    EndsWith(_, _), \* of two base names: the first, made absolute, ends with
                    \* the second as a text
    FullPath(_, _), \* of a file and a header for which that is so: what is
                    \* before that end, and then the header
    CppHeaders,     \* _STL_HEADERS and _CPP_HEADERS
    Streams,        \* those declaring the stream classes
    Canon,          \* place of a header in the canonical alphabetical order
    Templates,      \* what a line may use, in the order the patterns are
                    \* tried: its header, and those that do instead of it
    IncludesOf      \* what the header files that can be opened include

NameSuffixes == {"", "test", "regtest", "unittest", "flymake", "inl", "impl", "internal",
                 "other"}
Names == [dir : Dirs, stem : STRING, suffix : NameSuffixes, ext : STRING]

ASSUME NamesAssumption ==
    /\ "" \in Dirs
    /\ {Public, Home} \subseteq [Dirs -> Dirs]
    /\ \A h \in Headers : h \in Names
    /\ {CppHeaders, Streams} \subseteq SUBSET Headers
    /\ Canon \in [Headers -> Nat \ {0}]
    /\ Templates \in Seq([header : Headers, accepted : SUBSET Headers])
    /\ \A h \in DOMAIN IncludesOf : IncludesOf[h] \subseteq Headers

-----------------------------------------------------------------------------
(***************************************************************************)
(* Names.                                                                  *)
(***************************************************************************)
\* The base of a name without its common suffix, or without its extension.
DropCommonSuffixes(f) ==
    IF <<f.suffix, f.ext>> \in ({"test", "regtest", "unittest"} \X {"cc"})
                          \cup ({"inl", "impl", "internal"} \X {"h"})
    THEN <<f.stem, "">> ELSE <<f.stem, f.suffix>>

IsTestFilename(f) == f.suffix \in {"test", "unittest", "regtest"} /\ f.ext = "cc"

C_SYS == "C system header"
CPP_SYS == "C++ system header"
LIKELY_MY == "header this file implements"
POSSIBLE_MY == "header this file may implement"
OTHER_HEADER == "other header"

ClassifyInclude(f, h, is_system) ==
    IF is_system THEN IF h \in CppHeaders THEN CPP_SYS ELSE C_SYS
    ELSE IF /\ DropCommonSuffixes(f) = DropCommonSuffixes(h)
            /\ h.dir \in {f.dir, Public[f.dir]} THEN LIKELY_MY
    ELSE IF f.stem = h.stem THEN POSSIBLE_MY
    ELSE OTHER_HEADER

\* FilesBelongToSameModule.
Base(f, dropped) ==
    [dir |-> Home[f.dir], stem |-> f.stem, suffix |-> IF f.suffix \in dropped THEN "" ELSE f.suffix]
SameModule(f, h) ==
    /\ f.ext = "cc" /\ h.ext = "h"
    /\ EndsWith(Base(f, {"unittest", "test", "flymake"}), Base(h, {"inl"}))

-----------------------------------------------------------------------------
(***************************************************************************)
(* Order.                                                                  *)
(***************************************************************************)
INITIAL == 0
MY_H == 1
C == 2
CPP == 3
OTHER_H == 4

\* included[h] is the line that includes h first, 0 for none; last_header is 0
\* for the empty string.
IncludeState ==
    [included : [Headers -> Nat], section : INITIAL .. OTHER_H, last_header : Nat]
NoIncludes ==
    [included |-> [h \in Headers |-> 0], section |-> INITIAL, last_header |-> 0]

OutOfOrder(section, type) ==
    (type = C_SYS /\ section > C) \/ (type = CPP_SYS /\ section > CPP)

\* Seeded fault: a header out of place takes the section back to its own.
NextSectionGoesBack(section, type) ==
    CASE type = C_SYS -> C
      [] type = CPP_SYS -> CPP
      [] type \in {LIKELY_MY, POSSIBLE_MY} /\ section <= MY_H -> MY_H
      [] OTHER -> OTHER_H

NextSection(section, type) ==
    IF OutOfOrder(section, type) THEN section
    ELSE CASE type = C_SYS -> C
           [] type = CPP_SYS -> CPP
           [] type \in {LIKELY_MY, POSSIBLE_MY} /\ section <= MY_H -> MY_H
           [] OTHER -> OTHER_H

\* The header after which the next one has to sort: none when the section
\* changes and when the order is wrong.
LastHeader(state, type) ==
    IF OutOfOrder(state.section, type) \/ NextSection(state.section, type) # state.section
    THEN 0 ELSE state.last_header

OutOfAlphabet(state, f, l) ==
    LastHeader(state, ClassifyInclude(f, l.include, l.angle)) > Canon[l.include]

\* Seeded fault: a header that sorts wrongly becomes the last header.
NewLastHeaderOfAny(state, f, l) == Canon[l.include]

\* IsInAlphabeticalOrder keeps the last header when the new one sorts wrongly.
NewLastHeader(state, f, l) ==
    IF OutOfAlphabet(state, f, l) THEN LastHeader(state, ClassifyInclude(f, l.include, l.angle))
    ELSE Canon[l.include]

\* A header that is included again changes nothing.
IncludeLine(state, f, l, n) ==
    IF l.include = NoHeader \/ state.included[l.include] # 0 THEN state
    ELSE [included |-> [state.included EXCEPT ![l.include] = n],
          section |-> NextSection(state.section, ClassifyInclude(f, l.include, l.angle)),
          last_header |-> NewLastHeader(state, f, l)]

CheckIncludeLine(state, f, l) ==
    LET h == l.include
        again == state.included[h] # 0
    IN When(~l.angle /\ h.dir = "" /\ h.ext = "h", <<"build", "include">>, 4)
       \o When(again, <<"build", "include">>, 4)
       \o When(~again /\ OutOfOrder(state.section, ClassifyInclude(f, h, l.angle)),
               <<"build", "include_order">>, 4)
       \o When(~again /\ OutOfAlphabet(state, f, l), <<"build", "include_alpha">>, 4)
       \o When(h \in Streams /\ ~IsTestFilename(f), <<"readability", "streams">>, 3)

-----------------------------------------------------------------------------
(***************************************************************************)
(* Include what you use.                                                   *)
(***************************************************************************)
Uses(text, h) ==
    {u \in (DOMAIN text) \X (DOMAIN Templates) :
        u[2] \in text[u[1]].uses /\ Templates[u[2]].header = h}
Required(text) == {h \in Headers : Uses(text, h) # {}}

\* Of several uses the last one stays in required, and on one line that of the
\* last pattern.
LastUse(text, h) == Max({u[1] : u \in Uses(text, h)})
LastTemplate(text, h) == Templates[Max({u[2] : u \in {v \in Uses(text, h) : v[1] = LastUse(text, h)}})]

\* The file's own headers, among those it includes, that can be opened.
OwnHeaders(f, included) ==
    {FullPath(f, h) : h \in {g \in Headers : included[g] # 0 /\ SameModule(f, g)}}
    \cap DOMAIN IncludesOf

\* UpdateIncludeState adds what they include.
Available(f, included) ==
    {h \in Headers : included[h] # 0}
    \cup UNION {IncludesOf[p] : p \in OwnHeaders(f, included)}

\* Headers to add: none for a .cc file whose own header was not found.
Missing(f, text, included) ==
    IF f.ext = "cc" /\ OwnHeaders(f, included) = {} THEN {}
    ELSE {h \in Required(text) :
             Available(f, included) \cap ({h} \cup LastTemplate(text, h).accepted) = {}}
=============================================================================
