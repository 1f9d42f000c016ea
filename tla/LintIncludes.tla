----------------------------- MODULE LintIncludes ------------------------------
(***************************************************************************)
(* The checks of src/cpplint.py about a file's #include lines: their order *)
(* and repetition (_IncludeState, CheckIncludeLine), the headers a file    *)
(* needs for the templates it uses (CheckForIncludeWhatYouUse), and the    *)
(* guard of a header.                                                      *)
(*                                                                         *)
(* A path is a name; Path gives its parts: the directories, the base name  *)
(* cut into pieces, the extension, "" if it has none.  Each of '-', '_'    *)
(* and '.' is a piece, and a name is cut wherever another may begin, so    *)
(* that "afoo" is <<"a", "foo">> beside a file "foo", and the end of a     *)
(* text is the end of its pieces.  A directory is one piece, of small      *)
(* letters as all names are.  Paths are relative to the root of the        *)
(* repository, where cpplint runs, and an absolute one has "" first.  The  *)
(* path of an include line is its third token, after "#include" and the    *)
(* delimiter.                                                              *)
(***************************************************************************)
EXTENDS LintLines

CONSTANTS
  Path,             \* [name -> [dir, base, ext]]
  AlphaRank,        \* [canonical path -> Nat]: the order of strings, 0 for ''
  CppHeaders,       \* _STL_HEADERS and _CPP_HEADERS
  StreamHeaders     \* the names that match the pattern of the stream headers

ASSUME IncludeAssumption ==
  /\ CppHeaders \subseteq DOMAIN Path
  /\ StreamHeaders \subseteq CppHeaders

-------------------------------------------------------------------------------
(* _IncludeState.  The sections, in the order of a file. *)
INITIAL_SECTION == 0
MY_H_SECTION == 1
C_SECTION == 2
CPP_SECTION == 3
OTHER_H_SECTION == 4

IncludeState ==
  [included |-> {}, section |-> INITIAL_SECTION, last_header |-> 0]

Separators == {"-", "_", "."}

WithoutSuffix(base, suffix) ==
  IF IsSuffix(suffix, base) THEN SubSeq(base, 1, Len(base) - Len(suffix)) ELSE base

(* The base name of a header, without "-inl". *)
HeaderBase(header) ==
  IF Path[header].ext = "h" THEN WithoutSuffix(Path[header].base, <<"-", "inl">>)
  ELSE Path[header].base

(* The pieces with the characters of a set replaced by '_'. *)
Underscored(pieces, characters) ==
  [i \in DOMAIN pieces |-> IF pieces[i] \in characters THEN "_" ELSE pieces[i]]

CanonicalizeAlphabeticalOrder(header) ==
  [Path[header] EXCEPT !.base = Underscored(HeaderBase(header), {"-"})]

IsInAlphabeticalOrder(state, header) ==
  state.last_header <= AlphaRank[CanonicalizeAlphabeticalOrder(header)]

(* The section that follows a header of a type, and whether it may come.   *)
(* Only the system headers can be out of order: the header a file          *)
(* implements, or may, counts as any other once it does not come first.    *)
LastSectionOf(type) ==
  CASE type = "C_SYS" -> C_SECTION
    [] type = "CPP_SYS" -> CPP_SECTION
    [] type \in {"LIKELY_MY", "POSSIBLE_MY"} -> MY_H_SECTION
    [] OTHER -> OTHER_H_SECTION

(* Mutant of OutOfOrder: a header of the section before is let through.    *)
OutOfOrderByTwo(state, type) ==
  type \in {"C_SYS", "CPP_SYS"} /\ state.section > LastSectionOf(type) + 1

OutOfOrder(state, type) ==
  type \in {"C_SYS", "CPP_SYS"} /\ state.section > LastSectionOf(type)

CheckNextIncludeOrder(state, type) ==
  LET section == CASE OutOfOrder(state, type) -> state.section
                   [] state.section <= LastSectionOf(type) -> LastSectionOf(type)
                   [] OTHER -> OTHER_H_SECTION
      kept == section = state.section /\ ~OutOfOrder(state, type)
  IN [state EXCEPT !.section = section,
                   !.last_header = IF kept THEN @ ELSE 0]

-------------------------------------------------------------------------------
DropCommonSuffixes(path) ==
  LET suffixes == IF path.ext = "cc" THEN {"test", "regtest", "unittest"}
                  ELSE IF path.ext = "h" THEN {"inl", "impl", "internal"} ELSE {}
      drops == {s \in {"-", "_"} \X suffixes : IsSuffix(s, path.base)}
  IN IF drops = {} THEN path.base
     ELSE SubSeq(path.base, 1, Len(path.base) - 2)

IsTestFilename(filename) ==
  /\ Path[filename].ext = "cc"
  /\ \E suffix \in {"test", "unittest", "regtest"} :
       IsSuffix(<<"_", suffix>>, Path[filename].base)

(* What is before the first separator; nothing is no match. *)
FirstComponent(base) ==
  LET separator == SelectInSeq(base, LAMBDA piece : piece \in Separators)
  IN IF separator = 0 THEN base ELSE SubSeq(base, 1, separator - 1)

(* The '/../public' of a directory; of none, it is an absolute path. *)
PublicSibling(dir) == (IF dir = <<>> THEN <<"">> ELSE Front(dir)) \o <<"public">>

ClassifyInclude(filename, include, is_system) ==
  LET target == Path[filename]
      header == Path[include]
      target_base == DropCommonSuffixes(target)
      include_base == DropCommonSuffixes(header)
  IN IF is_system
     THEN IF include \in CppHeaders THEN "CPP_SYS" ELSE "C_SYS"
     ELSE IF target_base = include_base
             /\ header.dir \in {target.dir, PublicSibling(target.dir)}
          THEN "LIKELY_MY"
          ELSE IF FirstComponent(target_base) = FirstComponent(include_base)
                  /\ FirstComponent(target_base) # <<>>
          THEN "POSSIBLE_MY"
          ELSE "OTHER"

IncludedBy(text) == text[3]

(* CheckIncludeLine: what it reports, and the state it leaves. *)
CheckIncludeLine(filename, lines, n, state) ==
  LET text == Cleansed(lines, n)
      include == IncludedBy(text)
      again == include \in state.included
      type == ClassifyInclude(filename, include, text[2] = "<")
      moved == CheckNextIncludeOrder(state, type)
      sorted == IsInAlphabeticalOrder(moved, include)
      rank == AlphaRank[CanonicalizeAlphabeticalOrder(include)]
  IN [errors |->
        ErrIf(text[2] = "\"" /\ Path[include].dir = <<>> /\ Path[include].ext = "h",
              n, <<"build", "include">>, 4)
        \o ErrIf(again, n, <<"build", "include">>, 4)
        \o ErrIf(~again /\ OutOfOrder(state, type), n,
                 <<"build", "include", "order">>, 4)
        \o ErrIf(~again /\ ~sorted, n, <<"build", "include", "alpha">>, 4)
        \o ErrIf(include \in StreamHeaders /\ ~IsTestFilename(filename), n,
                 <<"readability", "streams">>, 3),
      state |->
        IF again THEN state
        ELSE [moved EXCEPT !.included = @ \cup {include},
                           !.last_header = IF sorted THEN rank ELSE @]]

-------------------------------------------------------------------------------
(* FilesBelongToSameModule: the .cc file's path, without its test suffix   *)
(* and the directories public and internal, ends with the header's, so     *)
(* that it may also belong to a header of another directory.               *)
Internal == {"public", "internal"}

(* The path as it is compared; "/" marks the end of a directory. *)
Spelled(dir, base) == FlattenSeq([i \in DOMAIN dir |-> <<dir[i], "/">>]) \o base

(* Mutant of CcModule: the suffix of a test stays. *)
CcModuleOfTest(filename) ==
  Spelled(SelectSeq(Path[filename].dir, LAMBDA d : d \notin Internal),
          Path[filename].base)

CcModule(filename) ==
  LET path == Path[filename]
      base == IF IsSuffix(<<"_", "unittest">>, path.base)
              THEN WithoutSuffix(path.base, <<"_", "unittest">>)
              ELSE WithoutSuffix(path.base, <<"_", "test">>)
  IN Spelled(SelectSeq(path.dir, LAMBDA d : d \notin Internal), base)

(* A directory in front of a relative header keeps its name: only one with *)
(* a '/' on both sides is dropped (no directory is in one of its own name).*)
HeaderModule(header) ==
  LET dir == Path[header].dir
      dropped == {i \in 2 .. Len(dir) : dir[i] \in Internal}
      kept == SelectSeq([i \in DOMAIN dir |-> i], LAMBDA i : i \notin dropped)
  IN Spelled([i \in DOMAIN kept |-> dir[kept[i]]], HeaderBase(header))

FilesBelongToSameModule(filename, header) ==
  /\ Path[filename].ext = "cc"
  /\ Path[header].ext = "h"
  /\ IsSuffix(HeaderModule(header), CcModule(filename))

(* The file that is opened for a header: the prefix the module's path has  *)
(* before the header's, and then the header.                               *)
OpenedFor(files, filename, header) ==
  LET common == SubSeq(CcModule(filename), 1,
                       Len(CcModule(filename)) - Len(HeaderModule(header)))
      spelling(p) == Spelled(p.dir, p.base) \o <<".", p.ext>>
  IN {f \in DOMAIN files : spelling(Path[f]) = common \o spelling(Path[header])}

(* UpdateIncludeState: the headers another file includes; comments of more *)
(* than one line are not removed from it.                                  *)
UpdateIncludeState(lines) ==
  LET texts == {CleanseComments(lines[i].text) : i \in DOMAIN lines}
  IN {IncludedBy(t) : t \in {u \in texts : IsInclude(u)}}

(* The headers a line of code needs: its first "string", unless of another *)
(* namespace than std, a call of an algorithm, the templates it names.     *)
AlgorithmTemplates == {"sort", "swap", "max"}
Directives == {"#include", "#ifndef", "#define", "#endif"}
TemplateHeaders == [vector |-> "vector", map |-> "map", list |-> "list"]

NeededBy(lines, n) ==
  LET text == Elided(lines, n)
      at == First(text, "string")
      before(i) == IF i > 1 THEN text[i - 1] ELSE ""
      calls == {i \in 1 .. Len(text) - 2 :
                  /\ text[i] \in AlgorithmTemplates
                  /\ text[i + 1] = "(" /\ text[i + 2] # ")"
                  /\ i > 1 \/ lines[n].indent > 0
                  /\ before(i) \notin {"->", "."}}
      templates == {i \in 1 .. Len(text) - 1 :
                      text[i] \in DOMAIN TemplateHeaders /\ text[i + 1] = "<"}
  IN IF text # <<>> /\ Head(text) \in Directives THEN {}
     ELSE (IF at > 0 /\ before(at) # "::" THEN {"string"} ELSE {})
          \cup (IF calls # {} THEN {"algorithm"} ELSE {})
          \cup {TemplateHeaders[text[i]] : i \in templates}

CheckForIncludeWhatYouUse(files, filename, lines, included) ==
  LET needed == UNION {NeededBy(lines, n) : n \in DOMAIN lines}
      line(h) == Max({n \in DOMAIN lines : h \in NeededBy(lines, n)})
      own == UNION {OpenedFor(files, filename, h) :
                      h \in {i \in included : FilesBelongToSameModule(filename, i)}}
      known == included \cup UNION {UpdateIncludeState(files[f].lines) : f \in own}
      missing == SetToSeq(needed \ known)
  IN IF Path[filename].ext = "cc" /\ own = {} THEN <<>>
     ELSE [i \in DOMAIN missing |->
             Err(line(missing[i]), <<"build", "include", "what", "you", "use">>, 4)]

-------------------------------------------------------------------------------
(* The variable of a header's guard: its path with '_' for '-', '.' and    *)
(* '/', and one at the end; the old style has another.  A guard line is    *)
(* its directive and the pieces of its argument.                           *)
GetHeaderGuardCPPVariable(filename) ==
  LET path == Path[filename]
  IN Underscored(Spelled(path.dir, path.base) \o <<".", path.ext>>, {"-", ".", "/"})
     \o <<"_">>

CheckForHeaderGuard(filename, lines) ==
  LET cppvar == GetHeaderGuardCPPVariable(filename)
      directives(d) == {n \in DOMAIN lines : Starts(lines[n].text, d)}
      named(d) == {n \in directives(d) : Len(lines[n].text) > 1}
      ifndef == Min(named("#ifndef"))
      endif == Max({n \in directives("#endif") : lines[n].indent = 0} \cup {0})
      guard == Tail(lines[ifndef].text)
      define == Tail(lines[Min(named("#define"))].text)
      nolint(n) == IF n = 0 THEN NoLint ELSE lines[n].nolint
      endsWith(words) ==
        /\ endif # 0 /\ nolint(endif) = NoLint
        /\ lines[endif].text = <<"#endif", "//">> \o words
      guardError == <<"build", "header", "guard">>
      wrong(n, old_style) ==
        <<Nolint(n, nolint(n)), Err(n, guardError, IF old_style THEN 0 ELSE 5)>>
  IN IF named("#ifndef") = {} \/ named("#define") = {}
     THEN <<Err(0, guardError, 5)>>
     ELSE (IF guard = cppvar THEN <<>>
           ELSE wrong(ifndef, guard = Append(cppvar, "_")))
          \o IF define # guard THEN <<Err(0, guardError, 5)>>
             ELSE IF endsWith(cppvar) THEN <<>>
             ELSE wrong(endif, endsWith(Append(cppvar, "_")))
===============================================================================
