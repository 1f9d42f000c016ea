------------------------------ MODULE LintErrors ------------------------------
(***************************************************************************)
(* What src/cpplint.py, the checker behind the "lint" target of the        *)
(* Makefile, does with an error a check reports: NOLINT suppressions, the  *)
(* verbosity, the category filters, and the counts of _CppLintState.       *)
(*                                                                         *)
(* A category is the sequence of its words: 'build/include_order' is       *)
(* <<"build", "include", "order">>, so that a filter, a prefix of the      *)
(* category's text, is a prefix of the sequence (a prefix that ends inside *)
(* a word is left out).  The wording of the messages, the output format    *)
(* and the usage texts are left out.                                       *)
(***************************************************************************)
EXTENDS Integers, FiniteSets, Sequences, SequencesExt, FiniteSetsExt, TLC

VARIABLES
  cpplint_state,        \* the _CppLintState object of the process
  error_suppressions,   \* {<<category, linenum>>}; category All for None
  stderr,               \* the errors printed, in order
  raised                \* every call of Error, in order: an observation

All == <<"*">>      \* NOLINT or NOLINT(*)
NoLint == <<>>      \* no NOLINT on the line

(* Those of the checks that are modelled, and some of the others.          *)
ErrorCategories ==
  { <<"build", "class">>, <<"build", "header", "guard">>,
    <<"build", "include">>, <<"build", "include", "alpha">>,
    <<"build", "include", "order">>,
    <<"build", "include", "what", "you", "use">>,
    <<"legal", "copyright">>, <<"readability", "braces">>,
    <<"readability", "fn", "size">>,
    <<"readability", "multiline", "comment">>,
    <<"readability", "multiline", "string">>, <<"readability", "nolint">>,
    <<"readability", "streams">>, <<"readability", "utf8">>,
    <<"runtime", "explicit">>, <<"runtime", "virtual">>,
    <<"runtime", "int">>,
    <<"whitespace", "blank", "line">>, <<"whitespace", "braces">>,
    <<"whitespace", "end", "of", "line">>, <<"whitespace", "ending", "newline">>,
    <<"whitespace", "indent">>, <<"whitespace", "labels">>,
    <<"whitespace", "line", "length">>, <<"whitespace", "newline">>,
    <<"whitespace", "tab">> }

DefaultFilters == << [sign |-> "-", prefix |-> <<"build", "include", "alpha">>] >>

CppLintState ==
  [verbose_level |-> 1, error_count |-> 0, filters |-> DefaultFilters,
   counting |-> "total", errors_by_category |-> <<>>]

(* ResetErrorCounts. *)
ResetErrorCounts(state) ==
  [state EXCEPT !.error_count = 0, !.errors_by_category = <<>>]

(* IncrementErrorCount, for the errors printed. *)
IncrementErrorCounts(state, printed) ==
  LET key(e) == IF state.counting = "detailed" THEN e.category
                ELSE <<Head(e.category)>>
      counts == state.errors_by_category
      keys == {key(e) : e \in ToSet(printed)}
      more(k) == Cardinality({i \in DOMAIN printed : key(printed[i]) = k})
      before(k) == IF k \in DOMAIN counts THEN counts[k] ELSE 0
  IN [state EXCEPT !.error_count = @ + Len(printed),
                   !.errors_by_category =
                     IF state.counting \in {"toplevel", "detailed"}
                     THEN [k \in DOMAIN counts \cup keys |-> before(k) + more(k)]
                     ELSE @]

(* SetFilters: the flag's filters come after the default ones; one that    *)
(* has no sign raises ValueError, here the sign "".                        *)
SetFilters(flag) == DefaultFilters \o flag

AllSigned(filters) == \A f \in ToSet(filters) : f.sign \in {"-", "+"}

-------------------------------------------------------------------------------
(* A check reports a sequence of these; Nolint is a call of                *)
(* ParseNolintSuppressions, Stop an exception or a loop without end.       *)
Err(linenum, category, confidence) ==
  [op |-> "error", linenum |-> linenum, category |-> category,
   confidence |-> confidence]

Nolint(linenum, nolint) ==
  [op |-> "nolint", linenum |-> linenum, category |-> nolint, confidence |-> 5]

Stop(how) == [op |-> how, linenum |-> 0, category |-> <<>>, confidence |-> 0]

ErrIf(condition, linenum, category, confidence) ==
  IF condition THEN <<Err(linenum, category, confidence)>> ELSE <<>>

IsErrorSuppressedByNolint(suppressions, category, linenum) ==
  {<<category, linenum>>, <<All, linenum>>} \cap suppressions # {}

(* The last filter that matches the category decides. *)
IsFiltered(filters, category) ==
  FoldLeft(LAMBDA filtered, f :
             IF IsPrefix(f.prefix, category) THEN f.sign = "-" ELSE filtered,
           FALSE, filters)

ShouldPrintError(suppressions, e) ==
  /\ ~IsErrorSuppressedByNolint(suppressions, e.category, e.linenum)
  /\ e.confidence >= cpplint_state.verbose_level
  /\ ~IsFiltered(cpplint_state.filters, e.category)

(* The suppression a call of ParseNolintSuppressions adds; a category that *)
(* does not exist is an error of its own.                                  *)
Known(e) == e.category \in ErrorCategories \cup {All}

Parsed(e) ==
  {<<d.category, d.linenum>> : d \in {c \in {e} : c.op = "nolint" /\ Known(c)}}

IsError(e) ==
  e.op = "error" \/ (e.op = "nolint" /\ e.category # NoLint /\ ~Known(e))

AsError(e) ==
  IF e.op = "error" THEN e
  ELSE Err(e.linenum, <<"readability", "nolint">>, 5)

(* A step's reports count up to the one that ends it. *)
Stops(events) == {i \in DOMAIN events : events[i].op \in {"raise", "loop"}}

(* The numbers of a finite set, in ascending order. *)
Ascending(S) ==
  [k \in 1 .. Cardinality(S) |->
     CHOOSE i \in S : Cardinality({j \in S : j <= i}) = k]

(* The global state after the reports of a step about a file, which starts *)
(* from these suppressions: an error meets the ones parsed before it.      *)
ReportFrom(suppressions, file, events) ==
  LET upto == Min({i - 1 : i \in Stops(events)} \cup {Len(events)})
      before(i) == suppressions \cup UNION {Parsed(events[j]) : j \in 1 .. i - 1}
      report(i) == [file |-> file, linenum |-> events[i].linenum,
                    category |-> AsError(events[i]).category,
                    confidence |-> events[i].confidence]
      reports(at) == [k \in DOMAIN at |-> report(at[k])]
      errors == {i \in 1 .. upto : IsError(events[i])}
      shown == {i \in errors : ShouldPrintError(before(i), AsError(events[i]))}
      printed == reports(Ascending(shown))
  IN /\ error_suppressions' = before(upto + 1)
     /\ raised' = raised \o reports(Ascending(errors))
     /\ stderr' = stderr \o printed
     /\ cpplint_state' = IncrementErrorCounts(cpplint_state, printed)

Report(file, events) == ReportFrom(error_suppressions, file, events)

ErrorVars == <<cpplint_state, error_suppressions, stderr, raised>>

(* Mutant of ResetNolintSuppressions: those of the file before stay. *)
KeepNolintSuppressions == error_suppressions

(* ResetNolintSuppressions, at the start of a file. *)
ResetNolintSuppressions == {}
===============================================================================
