----------------------------- MODULE LintStructure -----------------------------
(***************************************************************************)
(* The checks of src/cpplint.py that follow the structure of a file from   *)
(* line to line: the length of functions (_FunctionState), the nesting of  *)
(* classes (_ClassInfo, _ClassState), braces and blank lines.              *)
(***************************************************************************)
EXTENDS LintLines

CONSTANTS
  NORMAL_TRIGGER, TEST_TRIGGER,     \* lines of a function: 250 and 400
  SmallClass,                       \* lines of a class left unchecked: 24
  Capitals,                         \* the words that match [A-Z_]+
  TestNames                         \* the words that begin with TEST or Test

ASSUME TriggerAssumption ==
  {NORMAL_TRIGGER, TEST_TRIGGER} \subseteq Nat \ {0} /\ SmallClass \in Nat

Symbols ==
  {"{", "}", "(", ")", "<", ">", ";", ":", ",", "=", "\"", "~", "&", "*", "::",
   "/*", "*/", "//", "#include", "#ifndef", "#define", "#endif"}
IsWord(token) == token \notin Symbols
Access == {"public", "protected", "private"}
TestMacros == {"TEST", "TEST_F"}

ASSUME NamesAssumption ==
  /\ TestMacros \subseteq Capitals \cap TestNames
  /\ (Capitals \cup TestNames) \cap Symbols = {}

-------------------------------------------------------------------------------
(* _FunctionState.  Of the function's name only its being a test matters.  *)
FunctionState ==
  [in_a_function |-> FALSE, lines_in_function |-> 0, is_test |-> FALSE]

Begin(is_test) ==
  [in_a_function |-> TRUE, lines_in_function |-> 0, is_test |-> is_test]

(* Mutant of CountLine: also outside a function. *)
CountAnyLine(state) == [state EXCEPT !.lines_in_function = @ + 1]

CountLine(state) ==
  [state EXCEPT !.lines_in_function = IF state.in_a_function THEN @ + 1 ELSE @]

(* The check does not ask whether a function is open: after End the count  *)
(* of the last one is still there.                                         *)
Check(state, n, verbose_level) ==
  LET base == IF state.is_test THEN TEST_TRIGGER ELSE NORMAL_TRIGGER
      length == state.lines_in_function
      level == Max({k \in 0 .. 5 : 2 ^ k <= length \div base} \cup {0})
  IN ErrIf(length > base * 2 ^ verbose_level, n, <<"readability", "fn", "size">>,
           level)

End(state) == [state EXCEPT !.in_a_function = FALSE]

(* The name of a function stands before the first '(' of its head, without *)
(* a space between, and '*' and '&' stand at the type before it.  It is a  *)
(* test's if the text that begins it, of a qualified name the outermost    *)
(* qualifier, is one of TestNames.                                         *)
IsQualified(text, i) == i > 1 /\ text[i - 1] = "::"

IsTest(text) ==
  LET paren == First(text, "(")
  IN \E i \in 1 .. paren - 1 :
       /\ text[i] \in TestNames /\ ~IsQualified(text, i)
       /\ \A j \in i + 1 .. paren - 1 :
            /\ text[j] \notin {"*", "&"}
            /\ text[j] = "::" \/ IsQualified(text, j)

(* A function starts at column 0 with words up to a '('; a name that is    *)
(* all capitals is a macro, unless it is a test.                           *)
StartsFunction(lines, n) ==
  LET text == Cleansed(lines, n)
      paren == First(text, "(")
      macro == text[paren - 1] \in Capitals /\ ~IsQualified(text, paren - 1)
  IN /\ Indent(lines, n) = 0 /\ paren > 1 /\ IsWord(Head(text))
     /\ \A i \in 1 .. paren - 1 : IsWord(text[i]) \/ text[i] \in {"*", "&", "::"}
     /\ macro => text[paren - 1] \in TestMacros

(* The first line from n on that tells a body from a declaration. *)
BodyLines(lines, n) ==
  {k \in n .. Len(lines) :
     {";", "{", "}"} \cap ToSet(Cleansed(lines, k)) # {}}

CheckForFunctionLengths(lines, n, state, verbose_level) ==
  LET text == Cleansed(lines, n)
      body == BodyLines(lines, n)
      opens == {";", "}"} \cap ToSet(Cleansed(lines, Min(body))) = {}
      starts == StartsFunction(lines, n)
      ends == text = <<"}">> /\ Indent(lines, n) = 0
  IN [errors |->
        ErrIf(starts /\ body = {}, n, <<"readability", "fn", "size">>, 5)
        \o IF ends THEN Check(state, n, verbose_level) ELSE <<>>,
      state |->
        CASE starts -> IF body # {} /\ opens THEN Begin(IsTest(text)) ELSE state
          [] ends -> End(state)
          [] OTHER -> IF text = <<>> THEN state ELSE CountLine(state)]

-------------------------------------------------------------------------------
(* _ClassInfo.  The last line is the first at which the braces from the    *)
(* declaration on are even: the declaration itself, if its '{' is on a     *)
(* line of its own.                                                        *)
ClassInfo(name, lines, n) ==
  LET even == {i \in n .. Len(lines) : Depth(lines, n, i) = 0}
  IN [name |-> name, linenum |-> n, seen_open_brace |-> FALSE,
      is_derived |-> FALSE, virtual_method |-> FALSE,
      has_virtual_destructor |-> FALSE, brace_depth |-> 0,
      last_line |-> IF even = {} THEN 0 ELSE Min(even)]

(* The line declares at most a template up to here. *)
IsTemplateHead(head) ==
  \/ head = <<>>
  \/ /\ Len(head) > 2
     /\ head[1] = "template" /\ head[2] = "<" /\ Last(head) = ">"
     /\ \A i \in 3 .. Len(head) :
          IsWord(head[i]) \/ head[i] \in {"<", ">", ",", ":", "::"}

(* Where the name begins that a line declares: after "class" or "struct"   *)
(* and macros.                                                             *)
NamePlaces(text) ==
  {i \in 2 .. Len(text) :
     /\ IsWord(text[i])
     /\ text[i] \in Capitals => i = Len(text) \/ ~IsWord(text[i + 1])
     /\ \E k \in 1 .. i - 1 :
          /\ text[k] \in {"class", "struct"}
          /\ IsTemplateHead(SubSeq(text, 1, k - 1))
          /\ \A j \in k + 1 .. i - 1 : text[j] \in Capitals}

(* The name without its qualifiers: the rest of the class is about that    *)
(* one (base_classname).                                                   *)
DeclaredName(text) ==
  LET begin == Max(NamePlaces(text))
      ends == {i \in begin .. Len(text) :
                 /\ IsWord(text[i])
                 /\ \A j \in begin + 1 .. i :
                      text[j] = "::" \/ (IsWord(text[j]) /\ IsQualified(text, j))}
  IN IF NamePlaces(text) = {} THEN "" ELSE text[Max(ends)]

(* A constructor of one argument that is neither void nor the class.       *)
NeedsExplicit(lines, n, name) ==
  LET line == Elided(lines, n)
      text == IF Starts(line, "inline") THEN Tail(line) ELSE line
      close == First(text, ")")
      arg == SubSeq(text, 3, close - 1)
      from == IF Starts(arg, "const") THEN Tail(arg) ELSE arg
  IN /\ Indent(lines, n) > 0 /\ Len(text) >= 4
     /\ text[1] = name /\ text[2] = "(" /\ close > 3
     /\ {",", "("} \cap ToSet(arg) = {} /\ arg # <<"void">>
     /\ ~(Starts(from, name) /\ Len(from) > 1 /\ from[2] = "&")
     /\ ~(/\ Starts(from, name) /\ Len(from) > 4 /\ IsWord(from[3])
          /\ from[2] = "<" /\ from[4] = ">" /\ from[5] = "&")

DeclaresDestructor(text, name) ==
  \E i \in 1 .. Len(text) - 2 :
    text[i] = "~" /\ text[i + 1] = name /\ text[i + 2] = "("

(* Mutant of ClosesClass: any '}' does. *)
ClosesAtBrace(class, text) == Occurs(text, "}")

(* The braces of the text, already counted, end the class. *)
ClosesClass(class, text) == class.brace_depth <= 0

(* What the line does to the innermost class, once its '{' has been seen.  *)
CloseOrContinue(lines, n, outer, top) ==
  LET text == Elided(lines, n)
      virtual == Occurs(text, "virtual")
      class == [top EXCEPT
                  !.virtual_method = @ \/ virtual,
                  !.has_virtual_destructor =
                     @ \/ (virtual /\ DeclaresDestructor(text, top.name)),
                  !.brace_depth = @ + Count(text, "{") - Count(text, "}")]
      closed == ClosesClass(class, text)
  IN [errors |->
        ErrIf(NeedsExplicit(lines, n, top.name), n, <<"runtime", "explicit">>, 5)
        \o ErrIf(/\ closed /\ class.virtual_method
                 /\ ~class.has_virtual_destructor /\ ~class.is_derived,
                 class.linenum, <<"runtime", "virtual">>, 4),
      stack |-> IF closed THEN outer ELSE Append(outer, class)]

(* The part of CheckForNonStandardConstructs that tracks classes: a        *)
(* declaration is pushed, and every line is the innermost class's.  A ';'  *)
(* before or on the line of the '{' makes it a forward declaration.        *)
TrackClasses(lines, n, stack) ==
  LET text == Elided(lines, n)
      name == DeclaredName(text)
      pushed == IF name = "" THEN stack
                ELSE Append(stack, ClassInfo(name, lines, n))
      outer == Front(pushed)
      top == Last(pushed)
      opened == [top EXCEPT !.seen_open_brace = Occurs(text, "{"),
                            !.is_derived = @ \/ Occurs(text, ":")]
  IN CASE pushed = <<>> -> [errors |-> <<>>, stack |-> <<>>]
       [] pushed # <<>> /\ top.seen_open_brace ->
            CloseOrContinue(lines, n, outer, top)
       [] pushed # <<>> /\ ~top.seen_open_brace /\ Occurs(text, ";") ->
            [errors |-> <<>>, stack |-> outer]
       [] OTHER ->
            IF opened.seen_open_brace THEN CloseOrContinue(lines, n, outer, opened)
            ELSE [errors |-> <<>>, stack |-> Append(outer, opened)]

(* _ClassState.CheckFinished: the outermost class that is still open. *)
CheckFinished(stack) ==
  IF stack = <<>> THEN <<>>
  ELSE <<Err(Head(stack).linenum, <<"build", "class">>, 5)>>

(* A blank line before an access label, in a class of some length, unless  *)
(* the label follows the head of the class.                                *)
CheckSectionSpacing(lines, class, n) ==
  LET text == Cleansed(lines, n)
      before == Cleansed(lines, n - 1)
      heads == {i \in class.linenum .. n - 1 :
                  Cleansed(lines, i) # <<>> /\ Last(Cleansed(lines, i)) = "{"}
      end_class_head == IF heads = {} THEN class.linenum ELSE Min(heads)
  IN ErrIf(/\ class.last_line - class.linenum > SmallClass
           /\ n > class.linenum
           /\ Len(text) > 1 /\ text[1] \in Access /\ text[2] = ":"
           /\ before # <<>> /\ {"class", "struct"} \cap ToSet(before) = {}
           /\ end_class_head < n - 1,
           n, <<"whitespace", "blank", "line">>, 3)

-------------------------------------------------------------------------------
(* CheckSpacing, on a line without any text. *)

(* The last '{' of the line is left open, and opens no namespace. *)
OpensBlock(text) ==
  LET brace == SelectLastInSeq(text, LAMBDA t : t = "{")
  IN /\ brace > 0
     /\ ~Occurs(SubSeq(text, brace, Len(text)), "}")
     /\ ~Occurs(SubSeq(text, 1, brace), "namespace")

(* The line before is the end of a function's head that did not fit: its   *)
(* initializers, indented by 6 below a ':', or its arguments, by 4.        *)
EndsFunctionHead(lines, p) ==
  LET text == Elided(lines, p)
      initializer(k) == Indent(lines, k) = 6 /\ Elided(lines, k) # <<>>
                        /\ IsWord(Head(Elided(lines, k)))
      above == Max({k \in 1 .. p - 1 : ~initializer(k)} \cup {0})
      close == First(text, ")")
      rest == LET r == SubSeq(text, close + 1, Len(text))
              IN IF Starts(r, "const") THEN Tail(r) ELSE r
  IN IF initializer(p)
     THEN Indent(lines, above) = 4 /\ Starts(Elided(lines, above), ":")
     ELSE /\ Indent(lines, p) = 4
          /\ \/ Starts(text, ":")
             \/ /\ close > 1 /\ IsWord(text[1])
                /\ ~Occurs(SubSeq(text, 1, close), "(")
                /\ rest = <<"{">> \/ Starts(rest, ":")

CheckBlankLine(lines, n) ==
  LET before == Elided(lines, n - 1)
      next == IF n < Len(lines) THEN lines[n + 1].text ELSE <<>>
      blank(condition, confidence) ==
        ErrIf(condition, n, <<"whitespace", "blank", "line">>, confidence)
  IN IF lines[n].text # <<>> \/ lines[n].nolint # NoLint THEN <<>>
     ELSE blank(OpensBlock(before) /\ ~EndsFunctionHead(lines, n - 1), 2)
          \o blank(/\ Starts(next, "}") /\ ~Occurs(next, "namespace")
                   /\ ~(Len(next) > 1 /\ next[2] = "else"), 3)
          \o blank(Len(before) > 1 /\ before[1] \in Access /\ before[2] = ":", 3)

(* CheckStyle, more than one command on a line: not in a for, which may    *)
(* run over two lines, nor in a case that is one line.                     *)
CheckOneCommand(lines, n) ==
  LET text == Elided(lines, n)
      before == Elided(lines, GetPreviousNonBlankLine(lines, n))
  IN ErrIf(/\ Count(text, ";") > 1
           /\ ~Occurs(text, "for")
           /\ ~Occurs(before, "for") \/ Occurs(before, ";")
           /\ ~({"case", "default"} \cap ToSet(text) # {} /\ Occurs(text, "break")),
           n, <<"whitespace", "newline">>, 4)

-------------------------------------------------------------------------------
(* CloseExpression, from a '(' on line n: it ends on the first line that    *)
(* leaves no '(' open.  One that is never closed takes the search past the *)
(* last line, and raises IndexError.                                       *)
OpenParens(lines, first, last) ==
  MapThenSumSet(LAMBDA i : Count(Elided(lines, i), "(")
                             - Count(Elided(lines, i), ")"),
                first .. last)

ClosingLines(lines, n) ==
  {k \in n .. Len(lines) : OpenParens(lines, n, k) <= 0}

(* The text after the last ')' of that line, none if the line closes more. *)
AfterExpression(lines, n) ==
  LET k == Min(ClosingLines(lines, n))
      text == Elided(lines, k)
      close == SelectLastInSeq(text, LAMBDA t : t = ")")
  IN IF OpenParens(lines, n, k) < 0 THEN <<>>
     ELSE SubSeq(text, close + 1, Len(text))

(* Braces on one side of an else are also on the other. *)
ElseBraces(lines, n) ==
  LET text == Elided(lines, n)
      elses == {i \in DOMAIN text : text[i] = "else"}
      after(i) == SubSeq(text, i + 1, Len(text))
      closesBefore == {i \in elses : /\ i > 1 /\ text[i - 1] = "}"
                                     /\ ~Occurs(after(i), "{")}
      opensAfter == {i \in elses : /\ Starts(after(i), "{")
                                   /\ ~Occurs(SubSeq(text, 1, i), "}")}
      elseIf == {i \in closesBefore : Starts(after(i), "if")}
      error == <<Err(n, <<"readability", "braces">>, 5)>>
  IN CASE closesBefore \cup opensAfter = {} -> <<>>
       [] elseIf = {} -> error
       [] elseIf # {} /\ ~Occurs(after(Min(elseIf)), "(") -> <<>>
       [] elseIf # {} /\ ClosingLines(lines, n) = {} -> <<Stop("raise")>>
       [] OTHER -> IF Occurs(AfterExpression(lines, n), "{") THEN <<>> ELSE error

(* A ';' after the '}' of a block: the line is joined to those above while *)
(* it begins, indented, with the block, and the line above has no ';'.     *)
(* With no line above left to join, the search repeats itself for ever.    *)
(* Mutant of IsIndentedBlock: one that has no ';' yet is enough. *)
IsIndentedBrace(indent, text) == indent > 0 /\ Starts(text, "{")

IsIndentedBlock(indent, text) ==
  /\ indent > 0 /\ Starts(text, "{")
  /\ \E i \in 1 .. Len(text) - 1 : text[i] = "}" /\ text[i + 1] = ";"

NeedlessSemicolon(lines, n) ==
  LET above == SelectSeq([i \in 1 .. n - 1 |-> n - i],
                         LAMBDA p : Elided(lines, p) # <<>>)
      joined(i) == FlattenSeq([j \in 1 .. i |-> Elided(lines, above[i + 1 - j])])
                     \o Elided(lines, n)
      indent(i) == Indent(lines, IF i = 0 THEN n ELSE above[i])
      ends == {i \in 0 .. Len(above) :
                 \/ ~IsIndentedBlock(indent(i), joined(i))
                 \/ i < Len(above) /\ Occurs(Elided(lines, above[i + 1]), ";")}
      line == joined(Min(ends))
      block == \E i \in DOMAIN line : /\ line[i] = "{"
                 /\ \E j \in i + 1 .. Len(line) - 1 :
                      line[j] = "}" /\ line[j + 1] = ";"
      initializer == \E i \in 1 .. Len(line) - 1 :
                       line[i] = "=" /\ line[i + 1] = "{"
  IN IF ends = {} THEN <<Stop("loop")>>
     ELSE ErrIf(/\ block /\ Count(line, "{") = Count(line, "}")
                /\ {"struct", "class", "enum"} \cap ToSet(line) = {} /\ ~initializer,
                n, <<"readability", "braces">>, 4)

(* Between the braces of an else and the ';' it reports what is on the     *)
(* line of an else or a do, errors of one line alone.                      *)
CheckBraces(lines, n) ==
  LET text == Elided(lines, n)
      before == Elided(lines, GetPreviousNonBlankLine(lines, n))
      continues == before # <<>> /\ Last(before) \in {";", ":", "{", "}"}
  IN ErrIf(text = <<"{">> /\ ~continues, n, <<"whitespace", "braces">>, 4)
     \o ErrIf(Starts(text, "else") /\ before = <<"}">>, n,
              <<"whitespace", "newline">>, 4)
     \o ElseBraces(lines, n)
     \o OwnErrors(lines, n, {<<"whitespace", "newline">>})
     \o NeedlessSemicolon(lines, n)
===============================================================================
