-------------------------------- MODULE Cpplint --------------------------------
(***************************************************************************)
(* A run of src/cpplint.py: main() parses the command line, then lints     *)
(* each file line by line, and exits with the sum of what it printed.  The *)
(* state of the process outlives a file: the filters and counts, and the   *)
(* map of NOLINT suppressions, which ProcessFileData empties.              *)
(*                                                                         *)
(* Actions: ParseArguments, one per way a file is opened or skipped, one   *)
(* ProcessLine per line, FinishFile after the last, Exit, which prints the *)
(* total.  Arguments that ask for a text or are wrong end the process with *)
(* "usage", an exception ends it with "raised", and a check that never     *)
(* returns leaves it "looping": none of these prints the total.            *)
(***************************************************************************)
EXTENDS LintIncludes, LintStructure

CONSTANTS
  Invocations,      \* the command lines and files to lint: [argv, files]
  CopyrightLines    \* the lines a copyright notice may be on: 10

ASSUME CopyrightAssumption == CopyrightLines \in Nat

(* A command line is its options and file names; the numbers of --verbose  *)
(* are those the usage text allows.                                        *)
ASSUME InvocationAssumption ==
  \A i \in Invocations :
    /\ i.argv.opts \in Seq([name : STRING, number : 0 .. 5, style : STRING,
                            filters : Seq([sign : STRING, prefix : Seq(STRING)])])
    /\ \A f \in DOMAIN i.files : i.files[f].lines \in Seq(FileLines)

VARIABLES
  argv,             \* [opts, filenames] of the command line
  files,            \* [name -> [readable, cr, lines]]: the files, unchanged
  pc,               \* "start", "next", "lines", or how it ended: "usage",
                    \* "raised", "exited"; "looping"
  filenames,        \* the files still to lint
  filename,         \* the file in hand
  lines,            \* its cleansed lines, comments of several lines blanked
  linenum,          \* the line ProcessLine is called for next
  include_state,
  function_state,
  class_state,      \* the stack of _ClassInfo
  exitcode

FileVars == <<filename, lines, linenum, include_state, function_state, class_state>>
vars == <<argv, files, pc, filenames, exitcode, FileVars, ErrorVars>>

Init ==
  /\ \E i \in Invocations : argv = i.argv /\ files = i.files
  /\ pc = "start" /\ exitcode = 0
  /\ filenames = <<>> /\ filename = "" /\ lines = <<>> /\ linenum = 1
  /\ include_state = IncludeState
  /\ function_state = FunctionState
  /\ class_state = <<>>
  /\ cpplint_state = CppLintState
  /\ error_suppressions = {} /\ stderr = <<>> /\ raised = <<>>

EndWith(end, code) == pc' = end /\ exitcode' = code

-------------------------------------------------------------------------------
(* An option is [name, number, filters, style], the fields it has no use   *)
(* for are any.  The options take effect together, after the last one; the *)
(* first that asks for a text or is wrong ends the run.                    *)
OptionExits(opt) ==
  CASE opt.name \in {"help", "unknown"} -> TRUE
    [] opt.name = "output" -> opt.style \notin {"emacs", "vs7"}
    [] opt.name = "filter" -> opt.filters = <<>>
    [] opt.name = "counting" -> opt.style \notin {"total", "toplevel", "detailed"}
    [] OTHER -> FALSE

Given(opts, name) == SelectLastInSeq(opts, LAMBDA o : o.name = name)

(* Without its option the counting style becomes '', which counts no       *)
(* category, like "total".                                                 *)
Configured(opts) ==
  [CppLintState EXCEPT
     !.verbose_level = IF Given(opts, "verbose") = 0 THEN @
                       ELSE opts[Given(opts, "verbose")].number,
     !.filters = IF Given(opts, "filter") = 0 THEN DefaultFilters
                 ELSE SetFilters(opts[Given(opts, "filter")].filters),
     !.counting = IF Given(opts, "counting") = 0 THEN ""
                  ELSE opts[Given(opts, "counting")].style]

ParseArguments ==
  LET opts == argv.opts
      asks == SelectInSeq(opts, OptionExits)
      lists == asks # 0 /\ opts[asks].name = "filter"     \* PrintCategories
      unknown == \E i \in DOMAIN opts : opts[i].name = "unknown"
      state == Configured(opts)
      usage == unknown \/ (asks # 0 /\ ~lists) \/ (asks = 0 /\ argv.filenames = <<>>)
  IN /\ pc = "start"
     /\ UNCHANGED <<argv, files, FileVars, error_suppressions, stderr, raised>>
     /\ \/ /\ usage
           /\ EndWith("usage", 1) /\ UNCHANGED <<filenames, cpplint_state>>
        \/ /\ ~usage /\ lists
           /\ EndWith("usage", 0) /\ UNCHANGED <<filenames, cpplint_state>>
        \/ /\ ~usage /\ ~lists
           /\ cpplint_state' = ResetErrorCounts(state)
           /\ filenames' = argv.filenames
           /\ IF AllSigned(state.filters) THEN pc' = "next" /\ UNCHANGED exitcode
              ELSE EndWith("raised", 1)

-------------------------------------------------------------------------------
Linted == {"cc", "cpp", "h"}

Lints(name) == name = "-" \/ Path[name].ext \in Linted

(* A file that cannot be opened, or is not C++, changes nothing. *)
SkipFile ==
  /\ pc = "next" /\ filenames # <<>>
  /\ LET name == Head(filenames)
     IN name \notin DOMAIN files \/ ~Lints(name)
  /\ filenames' = Tail(filenames)
  /\ filename' = "" /\ lines' = <<>>
  /\ UNCHANGED <<argv, files, pc, exitcode, linenum, include_state,
                 function_state, class_state, ErrorVars>>

(* ProcessFileData up to the first line: the checks of the file as it is,  *)
(* then the comments of several lines are blanked.                         *)
StartFile ==
  LET name == Head(filenames)
      raw == Append(files[name].lines, Marker)
      unfinished == UnfinishedComment(raw)
      header == IF Path[name].ext = "h" THEN CheckForHeaderGuard(name, raw) ELSE <<>>
  IN /\ pc = "next" /\ filenames # <<>>
     /\ name \in DOMAIN files /\ Lints(name)
     /\ ReportFrom(ResetNolintSuppressions, name,
          CheckForCopyright(raw, CopyrightLines) \o header
          \o ErrIf(unfinished # 0, unfinished + 1,
                   <<"readability", "multiline", "comment">>, 5))
     /\ pc' = "lines"
     /\ filenames' = Tail(filenames)
     /\ filename' = name /\ linenum' = 1
     /\ \E blanked \in {RemoveMultiLineComments(raw)} :
          lines' = CleansedLines(blanked)
     /\ include_state' = IncludeState
     /\ function_state' = FunctionState
     /\ class_state' = <<>>
     /\ UNCHANGED <<argv, files, exitcode>>

(* The errors of one line alone come in three places: these before the     *)
(* braces, some in CheckBraces, the others after the includes.             *)
EarlyCategories ==
  { <<"whitespace", "tab">>, <<"whitespace", "end", "of", "line">>,
    <<"whitespace", "indent">>, <<"whitespace", "labels">>,
    <<"whitespace", "line", "length">> }

LateCategories ==
  OneLineCategories \ (EarlyCategories \cup {<<"whitespace", "newline">>})

CheckStyle(n) ==
  OwnErrors(lines, n, EarlyCategories)
  \o CheckOneCommand(lines, n) \o CheckBraces(lines, n) \o CheckBlankLine(lines, n)
  \o IF class_state = <<>> THEN <<>>
     ELSE CheckSectionSpacing(lines, Last(class_state), n)

FunctionsAt(n) ==
  CheckForFunctionLengths(lines, n, function_state, cpplint_state.verbose_level)

IncludesAt(n) ==
  IF IsInclude(Elided(lines, n))
  THEN CheckIncludeLine(filename, lines, n, include_state)
  ELSE [errors |-> <<>>, state |-> include_state]

ClassesAt(n) == TrackClasses(lines, n, class_state)

(* The reports of ProcessLine for a line, in the order of its checks. *)
LineEvents(n) ==
  <<Nolint(n, lines[n].nolint)>> \o FunctionsAt(n).errors
  \o CheckForMultilineCommentsAndStrings(lines, n)
  \o CheckStyle(n) \o IncludesAt(n).errors
  \o OwnErrors(lines, n, LateCategories) \o ClassesAt(n).errors

ProcessLine ==
  /\ pc = "lines" /\ linenum \in DOMAIN lines
  /\ \E events \in {LineEvents(linenum)} :
       Stops(events) = {} /\ Report(filename, events)
  /\ linenum' = linenum + 1
  /\ function_state' = FunctionsAt(linenum).state
  /\ include_state' = IncludesAt(linenum).state
  /\ class_state' = ClassesAt(linenum).stack
  /\ UNCHANGED <<argv, files, pc, exitcode, filenames, filename, lines>>

(* CheckBraces raises, which ends the process, or does not return. *)
ProcessLineFails ==
  /\ pc = "lines" /\ linenum \in DOMAIN lines
  /\ \E events \in {LineEvents(linenum)} :
       /\ Stops(events) # {}
       /\ Report(filename, events)
       /\ IF events[Min(Stops(events))].op = "raise" THEN EndWith("raised", 1)
          ELSE pc' = "looping" /\ UNCHANGED exitcode
  /\ function_state' = FunctionsAt(linenum).state
  /\ UNCHANGED <<argv, files, filenames, filename, lines, linenum,
                 include_state, class_state>>

(* After the last line. *)
FinishFile ==
  /\ pc = "lines" /\ linenum \notin DOMAIN lines
  /\ \E events \in {CheckFinished(class_state)
       \o CheckForIncludeWhatYouUse(files, filename, lines, include_state.included)
       \o CheckForUnicodeReplacementCharacters(lines)
       \o CheckForNewlineAtEOF(lines)
       \o ErrIf(files[filename].cr, 0, <<"whitespace", "newline">>, 1)} :
       Report(filename, events)
  /\ pc' = "next"
  /\ UNCHANGED <<argv, files, filenames, exitcode, FileVars>>

(* PrintErrorCounts, and sys.exit of whether there were any. *)
Exit ==
  /\ pc = "next" /\ filenames = <<>>
  /\ EndWith("exited", IF cpplint_state.error_count > 0 THEN 1 ELSE 0)
  /\ UNCHANGED <<argv, files, filenames, FileVars, ErrorVars>>

Next ==
  \/ ParseArguments \/ SkipFile \/ StartFile \/ ProcessLine \/ ProcessLineFails
  \/ FinishFile \/ Exit

(* The process keeps running.  Every step of Next moves its position, and  *)
(* one is enabled exactly while pc says so: the fairness of Next, stated   *)
(* of the position alone.                                                  *)
Position == <<pc, filenames, linenum>>

Advance ==
  /\ pc \in {"start", "next", "lines"}
  /\ pc' \in {"next", "lines", "looping", "usage", "raised", "exited"}
  /\ filenames' \in {argv.filenames, filenames,
                     SubSeq(filenames, 2, Len(filenames))}
  /\ linenum' \in {1, linenum, linenum + 1}

Spec == Init /\ [][Next]_vars /\ WF_Position(Advance)

-------------------------------------------------------------------------------
(* With a command line whose filters all have a sign: an error is printed, *)
(* and counted in the total and under its category, exactly if a user who  *)
(* reads the command line and the file would say so.  Its confidence       *)
(* reaches --verbose, the last filter that matches its category lets it    *)
(* through, and the line it is about, of that file, has no NOLINT for it   *)
(* -- however many files and lines came before, and however the run ends   *)
(* (Error, cpplint.py:765-824; the suppressions are one global map).       *)
(* A filter without a sign is legal and means "-FOO" by the usage text     *)
(* (126, 130), but SetFilters raises ValueError (541-544) and no file is   *)
(* read: the code breaks that promise, and this property leaves it out.    *)
(* The report of a comment without end is not silenced: it precedes the    *)
(* NOLINTs.  A file whose header guard stands in a comment of several      *)
(* lines is left out of the runs: the guard's NOLINTs are read before      *)
(* comments go (1093).                                                     *)
PrintedAsAsked ==
  LET asked == Configured(argv.opts)
      raw(f) == Append(files[f].lines, Marker)
      unfinished(r) == /\ UnfinishedComment(raw(r.file)) # 0
                       /\ r.linenum = UnfinishedComment(raw(r.file)) + 1
                       /\ r.category = <<"readability", "multiline", "comment">>
      silenced(r) == /\ r.linenum \in DOMAIN raw(r.file)
                     /\ RemoveMultiLineComments(raw(r.file))[r.linenum].nolint
                          \in {All, r.category}
      matches(i, r) == IsPrefix(asked.filters[i].prefix, r.category)
      filtered(r) == \E i \in DOMAIN asked.filters :
                       /\ matches(i, r) /\ asked.filters[i].sign = "-"
                       /\ \A j \in i + 1 .. Len(asked.filters) : ~matches(j, r)
      printed == SelectSeq(raised,
                   LAMBDA r : /\ r.confidence >= asked.verbose_level
                              /\ ~filtered(r)
                              /\ silenced(r) => unfinished(r))
      under(key) == {i \in DOMAIN stderr :
                       stderr[i].category = key
                       \/ (asked.counting = "toplevel"
                           /\ Head(stderr[i].category) = Head(key))}
      counts == cpplint_state.errors_by_category
  IN AllSigned(asked.filters) =>
       /\ stderr = printed
       /\ cpplint_state.error_count = Len(printed)
       /\ \A key \in DOMAIN counts : counts[key] = Cardinality(under(key))
       /\ asked.counting \in {"toplevel", "detailed"} =>
            MapThenSumSet(LAMBDA key : counts[key], DOMAIN counts) = Len(printed)

-------------------------------------------------------------------------------
(* The reports of a category about the file just linted. *)
FileLinted == pc = "next" /\ lines # <<>>

Reported(category) ==
  {r.linenum : r \in {q \in ToSet(raised) : q.file = filename
                                             /\ q.category = category}}

(* The first inclusion of each header, whose kind ranks it; a header of    *)
(* the file itself is of the last kind unless everything above is one too. *)
FirstIncludes(text) ==
  LET includes == {n \in DOMAIN text : IsInclude(Elided(text, n))}
  IN {n \in includes : \A m \in includes :
        m < n => IncludedBy(Cleansed(text, m)) # IncludedBy(Cleansed(text, n))}

IncludeKind(name, text, n) ==
  ClassifyInclude(name, IncludedBy(Cleansed(text, n)), Cleansed(text, n)[2] = "<")

IncludeRank(name, text, n) ==
  LET own(m) == IncludeKind(name, text, m) \in {"LIKELY_MY", "POSSIBLE_MY"}
  IN CASE IncludeKind(name, text, n) = "C_SYS" -> 2
       [] IncludeKind(name, text, n) = "CPP_SYS" -> 3
       [] own(n) /\ (\A m \in FirstIncludes(text) : m < n => own(m)) -> 1
       [] OTHER -> 4

MisplacedIncludes(name, text) ==
  {n \in FirstIncludes(text) :
     /\ IncludeKind(name, text, n) \in {"C_SYS", "CPP_SYS"}
     /\ \E m \in FirstIncludes(text) :
          m < n /\ IncludeRank(name, text, m) > IncludeRank(name, text, n)}

(* The order of includes is reported by the headers' kinds alone: exactly  *)
(* at the first inclusion of a C or C++ system header that has a header of *)
(* a later kind above it.  What was reported above does not hide or cause  *)
(* a report (CheckNextIncludeOrder, 437-486, moves its section from line   *)
(* to line).                                                               *)
IncludeOrderByKind ==
  FileLinted =>
    Reported(<<"build", "include", "order">>) = MisplacedIncludes(filename, lines)

(* The suffixes that _DropCommonSuffixes (2292-2296) drops and             *)
(* FilesBelongToSameModule (2944-2961) does not, each with the separator   *)
(* before it: of a .cc file a regtest, or a test behind a '-'; of a header *)
(* an impl or internal, or an inl behind a '_'.                            *)
OneSidedSuffixes ==
  ({"-", "_"} \X {"regtest", "impl", "internal"})
  \cup { <<"-", "test">>, <<"-", "unittest">>, <<"_", "inl">> }

(* The two notions cpplint has of a file's own header agree: a .h file of  *)
(* the same directory that counts as the one a .cc file implements when    *)
(* includes are put in order (_ClassifyInclude, 2317-2373) also counts     *)
(* when they are looked up, so nothing it includes is reported missing in  *)
(* the file, and what neither includes is (FilesBelongToSameModule,        *)
(* 2917-2969; a .cc file that does not find its header is not checked at   *)
(* all).  It is not so for a name with one of OneSidedSuffixes, as         *)
(* x/foo-test.cc with x/foo.h, nor below a directory internal or public at *)
(* the root.                                                               *)
OwnHeaderCounts ==
  LET included == include_state.included
      plain(p) == \A suffix \in OneSidedSuffixes : ~IsSuffix(suffix, p.base)
      own == {h \in included \cap DOMAIN files :
                /\ ClassifyInclude(filename, h, FALSE) = "LIKELY_MY"
                /\ Path[h].ext = "h" /\ Path[h].dir = Path[filename].dir
                /\ plain(Path[h]) /\ plain(Path[filename])
                /\ Path[h].dir # <<>> => Head(Path[h].dir) \notin Internal}
      known == included \cup UNION {UpdateIncludeState(files[h].lines) : h \in own}
      anywhere == included \cup UNION {UpdateIncludeState(files[f].lines) :
                                       f \in DOMAIN files}
      needs(h) == {n \in DOMAIN lines : h \in NeededBy(lines, n)}
      last == [h \in UNION {NeededBy(lines, n) : n \in DOMAIN lines} |-> Max(needs(h))]
      reported == Reported(<<"build", "include", "what", "you", "use">>)
  IN FileLinted /\ Path[filename].ext = "cc" =>
       /\ reported \subseteq {last[h] : h \in DOMAIN last \ known}
       /\ own # {} => {last[h] : h \in DOMAIN last \ anywhere} \subseteq reported

(* The lines that begin a function with a body, that end one, and that     *)
(* count as code; the last function that begins above a line, and its size *)
(* up to the first line that ends it.                                      *)
OpeningLines(text) ==
  {n \in DOMAIN text :
     /\ StartsFunction(text, n)
     /\ BodyLines(text, n) # {}
     /\ {";", "}"} \cap ToSet(Cleansed(text, Min(BodyLines(text, n)))) = {}}

EndingLines(text) ==
  {n \in DOMAIN text : Cleansed(text, n) = <<"}">> /\ Indent(text, n) = 0}

CodeLines(text, first, last) ==
  {m \in first .. last : Cleansed(text, m) # <<>> /\ ~StartsFunction(text, m)}

FunctionAbove(text, n) == Max({m \in OpeningLines(text) : m < n} \cup {0})

FunctionSize(text, begin) ==
  LET end == Min({k \in EndingLines(text) : k > begin})
  IN Cardinality(CodeLines(text, begin + 1, end - 1))

AllowedSize(text, begin, verbose_level) ==
  LET base == IF IsTest(Cleansed(text, begin)) THEN TEST_TRIGGER ELSE NORMAL_TRIGGER
  IN base * 2 ^ verbose_level

EndsOfLongFunctions(text, verbose_level) ==
  {n \in EndingLines(text) :
     LET begin == FunctionAbove(text, n)
     IN begin # 0 /\ FunctionSize(text, begin) > AllowedSize(text, begin, verbose_level)}

(* A '}' at column 0 is reported for its function's length exactly if the  *)
(* last function that began above it has too many lines of code before its *)
(* first such '}', where a function whose name begins with TEST or Test    *)
(* may have more; every later one up to the next function is reported      *)
(* again (_FunctionState, 614-667: the count survives End).                *)
LongFunctionsReported ==
  FileLinted =>
    Reported(<<"readability", "fn", "size">>) \cap EndingLines(lines)
      = EndsOfLongFunctions(lines, cpplint_state.verbose_level)

(* The lines that declare a class, the head of such a class up to the      *)
(* first '{' or ';', and the braces its body has open after a line.        *)
Declarations(text, last) ==
  {n \in 1 .. last : DeclaredName(Elided(text, n)) # ""}

HeadEnd(text, n) ==
  Min({m \in n .. Len(text) : {"{", ";"} \cap ToSet(Elided(text, m)) # {}}
        \cup {Len(text) + 1})

IsForward(text, n) ==
  LET head == Elided(text, HeadEnd(text, n))
  IN Occurs(head, ";") /\ ~Occurs(head, "{")

Places(text, brace, first, last) ==
  UNION {{i} \X {j \in DOMAIN Elided(text, i) : Elided(text, i)[j] = brace} :
           i \in first .. last}

Balance(text, first, last) ==
  Cardinality(Places(text, "{", first, last)) - Cardinality(Places(text, "}", first, last))

OpenClasses(text, last) ==
  {n \in Declarations(text, last) :
     HeadEnd(text, n) <= last =>
       /\ ~IsForward(text, n)
       /\ \A m \in HeadEnd(text, n) .. last : Balance(text, HeadEnd(text, n), m) > 0}

(* A class has its '{' before a '}' or the next declaration, not on a line *)
(* with a ';', and no line closes more than one block.                     *)
IsTidy(text, last) ==
  /\ \A n \in 1 .. last : Balance(text, n, n) >= -1
  /\ \A n \in Declarations(text, last) :
       /\ \A m \in n .. HeadEnd(text, n) :
            /\ ~Occurs(Elided(text, m), "}")
            /\ m # n => DeclaredName(Elided(text, m)) = ""
       /\ ~({"{", ";"} \subseteq ToSet(Elided(text, HeadEnd(text, n))))

(* While a file is read, the stack holds exactly the classes whose body is *)
(* open there by counting the braces of the lines, outermost first -- in a *)
(* tidy file: only the innermost class sees a line's braces (1405-1485).   *)
ClassStackIsTheNesting ==
  pc = "lines" /\ IsTidy(lines, linenum - 1) =>
    /\ {class_state[i].linenum : i \in DOMAIN class_state}
         = OpenClasses(lines, linenum - 1)
    /\ \A i \in 2 .. Len(class_state) :
         class_state[i - 1].linenum < class_state[i].linenum

(* Two files no run of cpplint gets through.  One has a line that begins,  *)
(* indented, with a block and its ';', and every line of code above it     *)
(* begins with an indented '{' and has no ';': the loop at cpplint.py:2052 *)
(* does not end.  The other has an "} else if (" whose parentheses stay    *)
(* open to the end of the file: CloseExpression raises IndexError (996-998)*)
TextOfFile(name) ==
  CleansedLines(RemoveMultiLineComments(Append(files[name].lines, Marker)))

SearchesForEver(name) ==
  LET text == TextOfFile(name)
      opens(n) == Starts(Elided(text, n), "{") /\ Indent(text, n) > 0
      ends(n) == \E i \in 2 .. Len(Elided(text, n)) :
                   Elided(text, n)[i] = ";" /\ Elided(text, n)[i - 1] = "}"
  IN \E n \in DOMAIN text :
       /\ opens(n) /\ ends(n)
       /\ \A m \in 1 .. n - 1 : Elided(text, m) # <<>> =>
            opens(m) /\ ~Occurs(Elided(text, m), ";")

NeverCloses(name) ==
  LET text == TextOfFile(name)
      places(token, first, last) ==
        UNION {{i} \X {j \in DOMAIN Elided(text, i) : Elided(text, i)[j] = token} :
                 i \in first .. last}
      elseIf(line) == \E i, j \in DOMAIN line :
                        /\ i + 3 <= j /\ line[j] = "("
                        /\ SubSeq(line, i, i + 2) = <<"}", "else", "if">>
                        /\ \A k \in i .. Len(line) : line[k] # "{"
  IN \E n \in DOMAIN text :
       /\ elseIf(Elided(text, n))
       /\ \A last \in n .. Len(text) :
            Cardinality(places("(", n, last)) > Cardinality(places(")", n, last))

(* The number of errors is printed in the end (PrintErrorCounts, 3355), as *)
(* the usage text says it always is (137), by every run with correct       *)
(* arguments and signed filters over files that are none of the above two. *)
(* These three exceptions break the usage text: the endless loop, the      *)
(* IndexError, and the ValueError of a filter without a sign (541-544).    *)
TotalIsPrinted ==
  LET opts == argv.opts
      linted == {name \in ToSet(argv.filenames) : name \in DOMAIN files /\ Lints(name)}
  IN /\ SelectInSeq(opts, OptionExits) = 0 /\ argv.filenames # <<>>
     /\ AllSigned(Configured(opts).filters)
     /\ \A name \in linted : ~SearchesForEver(name) /\ ~NeverCloses(name)
     => <>(pc = "exited")
===============================================================================
