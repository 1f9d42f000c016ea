------------------------------- MODULE MCCpplint -------------------------------
(***************************************************************************)
(* Small families of files for Cpplint, each the files of up to some lines *)
(* over the lines one group of checks tells apart, and the command lines   *)
(* that matter to it.                                                      *)
(***************************************************************************)
EXTENDS Cpplint

(* Names and their parts. *)
P(dir, base, ext) == [dir |-> dir, base |-> base, ext |-> ext]
Paths ==
  "x/foo.cc" :> P(<<"x">>, <<"foo">>, "cc")
  @@ "x/foo_test.cc" :> P(<<"x">>, <<"foo", "_", "test">>, "cc")
  @@ "x/foo-test.cc" :> P(<<"x">>, <<"foo", "-", "test">>, "cc")
  @@ "x/afoo_unittest.cc" :> P(<<"x">>, <<"a", "foo", "_", "unittest">>, "cc")
  @@ "x/foo.cpp" :> P(<<"x">>, <<"foo">>, "cpp")
  @@ "x/foo.h" :> P(<<"x">>, <<"foo">>, "h")
  @@ "x/foo-inl.h" :> P(<<"x">>, <<"foo", "-", "inl">>, "h")
  @@ "y/foo.h" :> P(<<"y">>, <<"foo">>, "h")
  @@ "x/bar.h" :> P(<<"x">>, <<"bar">>, "h")
  @@ "bar.h" :> P(<<>>, <<"bar">>, "h")
  @@ "stdio.h" :> P(<<>>, <<"stdio">>, "h")
  @@ "vector" :> P(<<>>, <<"vector">>, "")
  @@ "iostream" :> P(<<>>, <<"iostream">>, "")
  @@ "notes.txt" :> P(<<>>, <<"notes">>, "txt")
  @@ "-" :> P(<<>>, <<"-">>, "-")

(* The canonical paths in the order of their text. *)
Alphabetical ==
  << Paths["bar.h"], Paths["iostream"], Paths["stdio.h"], Paths["vector"],
     Paths["x/bar.h"], Paths["x/foo.h"], Paths["y/foo.h"] >>
Ranks == [p \in ToSet(Alphabetical) |-> SelectInSeq(Alphabetical, LAMBDA q : q = p)]

-------------------------------------------------------------------------------
(* Lines. *)
T(text) == Line(0, text)
In(text) == Line(2, text)
Blank == T(<<>>)
Silent(line, category) == [line EXCEPT !.nolint = category]
Has(line, category, confidence) ==
  [line EXCEPT !.own = {[category |-> category, confidence |-> confidence]}]
Statement == In(<<"x", ";">>)

(* The files of the lines of a set, up to a length, that end with a        *)
(* newline.                                                                *)
Texts(set, length) ==
  {Append(t, Blank) : t \in UNION {[1 .. n -> set] : n \in 0 .. length}}

File(text) == [cr |-> FALSE, lines |-> text]

(* Command lines. *)
Option(name, number, flag, style) ==
  [name |-> name, number |-> number, filters |-> flag, style |-> style]
Verbose(n) == Option("verbose", n, <<>>, "")
Filter(flag) == Option("filter", 0, flag, "")
Counting(style) == Option("counting", 0, <<>>, style)
Minus(prefix) == [sign |-> "-", prefix |-> prefix]
Plus(prefix) == [sign |-> "+", prefix |-> prefix]
Unsigned(prefix) == [sign |-> "", prefix |-> prefix]

Lint(opts, names, contents) ==
  [argv |-> [opts |-> opts, filenames |-> names], files |-> contents]

OneFile(opts, name, texts) ==
  {Lint(opts, <<name>>, name :> File(t)) : t \in texts}

-------------------------------------------------------------------------------
(* Functions and comments, at the level that reports the shortest excess.  *)
FunctionLines ==
  { T(<<"f", "(", ")", "{">>), T(<<"f", "(", ")", ";">>), T(<<"}">>), Statement }
TestLines == { T(<<"TEST", "(", ")">>), T(<<"{">>), T(<<"}">>), Statement }
NamedLines ==
  { T(<<"int", "TestHelper", "(", ")", "{">>), T(<<"int", "A", "::", "TestHelper", "(", ")", "{">>),
    T(<<"}">>), Statement }
Functions ==
  OneFile(<<Verbose(0)>>, "x/foo.cpp",
          Texts(FunctionLines, 5) \cup Texts(TestLines, 5) \cup Texts(NamedLines, 5))

CommentLines ==
  { T(<<"/*", "c">>), In(<<"c", "*/">>), T(<<"/*", "c", "*/">>),
    In(<<"x", "=", "\"", "//", "\"", ";", "//", "c">>),
    Silent(In(<<"x", "\"", "/*">>), <<"readability", "multiline", "string">>),
    Silent(Has(T(<<"Copyright">>), <<"runtime", "int">>, 4), All) }
Comments == OneFile(<<>>, "x/foo.cpp", Texts(CommentLines, 3))

(* Classes. *)
ClassLines ==
  { T(<<"class", "A", "{">>), T(<<"class", "EXPORTED", "B", ":", "public", "A">>),
    T(<<"{">>), T(<<"}">>), T(<<"}", ";">>),
    T(<<"template", "<", "class", "T", ">", "struct", "A", "::", "C", ";">>),
    In(<<"virtual", "f", "(", ")", ";">>) }
Classes == OneFile(<<>>, "x/foo.cpp", Texts(ClassLines, 4))

(* A class of some length with a destructor and its sections. *)
LongClass(label, before) ==
  << T(<<"class", "A", "{">>), before, label,
     In(<<"virtual", "~", "A", "(", ")", ";">>), Statement, T(<<"}", ";">>), Blank >>
Sections ==
  OneFile(<<>>, "x/foo.cpp",
          {LongClass(T(<<a, ":">>), b) :
             a \in Access, b \in {Blank, Statement, In(<<"A", "(", "int", ")", ";">>), T(<<"class", "B", ";">>),
                                  In(<<"A", "(", "const", "A", "&", ")", ";">>),
                                  In(<<"inline", "A", "(", "A", "<", "T", ">", "&", ")", ";">>)}})

(* Includes, of a file with its own header and without. *)
Include(open, name, close) == T(<<"#include", open, name, close>>)
System(name) == Include("<", name, ">")
Own(name) == Include("\"", name, "\"")
IncludeLines ==
  { System("stdio.h"), System("vector"), System("iostream"),
    Own("x/foo.h"), Own("x/bar.h"), Own("bar.h") }
Includes ==
  OneFile(<<Filter(<<Plus(<<"build">>)>>)>>, "x/foo.cpp", Texts(IncludeLines, 3))

Use == In(<<"std::", "vector", "<", "int", ">", "v", ";">>)
OwnHeaders ==
  {Lint(<<>>, <<name>>,
        name :> File(t) @@ "x/foo.h" :> File(h) @@ "x/foo-inl.h" :> File(i)) :
     name \in {"x/foo.cc", "x/foo_test.cc", "x/foo-test.cc", "x/afoo_unittest.cc"},
     t \in Texts({Own("x/foo.h"), Own("x/foo-inl.h"), Own("y/foo.h"), Use,
                  In(<<"std::", "string", "s", "=", "max", "(", "s", ")", ";">>)}, 2),
     h \in {<<Blank>>, <<System("vector"), Blank>>},
     i \in {<<Blank>>, <<System("vector"), Blank>>}}

(* Braces, blank lines, commands. *)
BraceLines ==
  { Has(In(<<"{", "x", "}", ";">>), <<"whitespace", "tab">>, 1), In(<<"{">>),
    In(<<"}", "else", "if", "(", "x">>), In(<<"y", ")", "{">>),
    In(<<"else", "{">>), In(<<"}">>), Blank, Statement }
Braces == OneFile(<<>>, "x/foo.cpp", Texts(BraceLines, 3))

HeadLines ==
  { Line(4, <<":", "a", "(", "b", ")", ",">>), Line(6, <<"c", "(", "d", ")", "{">>),
    Line(4, <<"int", "a", ")", "const", "{">>), T(<<"namespace", "{">>), Blank,
    In(<<"for", "(", "x", ";", "x", ";", "x", ")">>),
    In(<<"case", "x", ":", "y", ";", "break", ";">>) }
Heads == OneFile(<<>>, "x/foo.cpp", Texts(HeadLines, 3))

(* The guard of a header. *)
Variable == <<"x", "_", "foo", "_", "h", "_">>
OldVariable == Append(Variable, "_")
GuardLines ==
  { T(<<"#ifndef">> \o Variable), T(<<"#define">> \o Variable),
    T(<<"#endif", "//">> \o Variable),
    T(<<"#ifndef">> \o OldVariable), T(<<"#define">> \o OldVariable),
    Silent(T(<<"#endif">>), <<"build", "header", "guard">>), In(<<"#endif">>),
    Silent(T(<<"#ifndef", "y">>), <<"no", "category">>) }
Guards == OneFile(<<>>, "x/foo.h", Texts(GuardLines, 3))

(* Several files, and the options. *)
Reports ==
  { <<Has(Statement, <<"whitespace", "tab">>, 1), Blank>>,
    <<Silent(Has(Statement, <<"runtime", "int">>, 4), <<"runtime", "int">>), Blank>>,
    <<Silent(Has(Statement, <<"whitespace", "tab">>, 1), <<"runtime", "int">>),
      T(<<"\\ufffd">>)>>,
    <<Has(Statement, <<"runtime", "int">>, 4), Blank>>,
    <<System("vector"), System("stdio.h"), Blank>> }
Commands ==
  { <<>>, <<Verbose(3)>>, <<Verbose(5), Counting("toplevel")>>,
    <<Counting("detailed"), Filter(<<Minus(<<"build">>), Plus(<<"build", "include">>)>>)>>,
    <<Counting("toplevel"), Filter(<<Minus(<<>>), Plus(<<"runtime">>)>>)>>,
    <<Filter(<<Plus(<<"runtime">>), Minus(<<"whitespace">>)>>), Counting("detailed")>> }
WrongCommands ==
  { <<Option("help", 0, <<>>, "")>>, <<Option("unknown", 0, <<>>, "")>>,
    <<Option("output", 0, <<>>, "vs8")>>, <<Filter(<<>>)>>,
    <<Counting("none")>>, <<Filter(<<Unsigned(<<"build">>)>>)>> }
Several ==
  {Lint(c, <<"x/foo.cpp", n, "x/foo.cc">>,
        "x/foo.cpp" :> [cr |-> TRUE, lines |-> s] @@ "x/foo.cc" :> File(t)
        @@ "-" :> File(s) @@ "notes.txt" :> File(s)) :
     c \in Commands \cup WrongCommands, n \in {"notes.txt", "-"},
     s \in Reports, t \in Reports}
Nothing == {Lint(c, <<>>, "-" :> File(<<Blank>>)) : c \in Commands}

Runs ==
  UNION { Functions, Comments, Classes, Sections, Includes, OwnHeaders, Braces,
          Heads, Guards, Several, Nothing }
===============================================================================
