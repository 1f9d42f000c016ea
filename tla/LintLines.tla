------------------------------- MODULE LintLines -------------------------------
(***************************************************************************)
(* The lines of a file as src/cpplint.py sees them: comments that span     *)
(* lines are blanked, and CleansedLines gives each line without comments,  *)
(* and without comments and strings.                                       *)
(*                                                                         *)
(* A line is a record: its indentation, its text as a sequence of tokens,  *)
(* the category of its NOLINT comment, and the errors the checks that look *)
(* at this line's characters alone report of it (an input of the model).   *)
(* The text does not hold the NOLINT comment itself.                       *)
(* A file's lines are numbered from 1: cpplint puts a marker line before   *)
(* them, a comment that only makes the numbers start at 1, and one after.  *)
(***************************************************************************)
EXTENDS LintErrors

Line(indent, text) ==
  [indent |-> indent, text |-> text, nolint |-> NoLint, own |-> {}]

(* The lines a file can hold.  The checks of one line alone report none of *)
(* the categories that follow a file from line to line.                    *)
OneLineCategories ==
  ErrorCategories \ { <<"build", "include", "order">>, <<"readability", "fn", "size">> }

FileLines ==
  {line \in [indent : Nat, text : Seq(STRING), nolint : Seq(STRING),
             own : SUBSET [category : OneLineCategories, confidence : Nat]] :
     IsFiniteSet(line.own)}

Marker == Line(0, <<"//", "marker">>)
Dummy == Line(0, <<"//", "dummy">>)

Count(text, token) == Cardinality({i \in DOMAIN text : text[i] = token})
Occurs(text, token) == token \in ToSet(text)
First(text, token) == SelectInSeq(text, LAMBDA t : t = token)
Starts(text, token) == text # <<>> /\ Head(text) = token

-------------------------------------------------------------------------------
(* Only a line that begins with the marker, and does not hold the end of   *)
(* the comment, opens a comment; only a line that ends with it closes one. *)
FindNextMultiLineCommentStart(line) ==
  Starts(line.text, "/*") /\ ~Occurs(line.text, "*/")

FindNextMultiLineCommentEnd(line) == line.text # <<>> /\ Last(line.text) = "*/"

(* A line is in a comment, or closes it. *)
InComment(lines) ==
  LET open[n \in 0 .. Len(lines)] ==
        IF n = 0 THEN FALSE
        ELSE IF open[n - 1] THEN ~FindNextMultiLineCommentEnd(lines[n])
        ELSE FindNextMultiLineCommentStart(lines[n])
  IN {n \in DOMAIN lines : open[n - 1] \/ open[n]}

(* The line a comment without end begins at, 0 if there is none. *)
UnfinishedComment(lines) ==
  LET inside == InComment(lines)
      last == Len(lines)
      begins == {n \in inside : /\ n .. last \subseteq inside
                               /\ FindNextMultiLineCommentStart(lines[n])
                               /\ \A m \in n .. last :
                                    ~FindNextMultiLineCommentEnd(lines[m])}
  IN Min(begins \cup {last + 1}) % (last + 1)

(* The lines of the comments that end are blanked. *)
RemoveMultiLineComments(lines) ==
  LET unfinished == UnfinishedComment(lines)
      removed == {n \in InComment(lines) : unfinished = 0 \/ n < unfinished}
  IN [n \in DOMAIN lines |-> IF n \in removed THEN Dummy ELSE lines[n]]

(* The token at i is inside a string. *)
IsCppString(text, i) == Count(SubSeq(text, 1, i - 1), "\"") % 2 = 1

(* The first // ends the line unless it is in a string, in which case a    *)
(* later one does not; then the text between the first /* and the last     *)
(* end of a comment goes.                                                  *)
CleanseComments(text) ==
  LET slashes == First(text, "//")
      code == IF slashes > 0 /\ ~IsCppString(text, slashes)
              THEN SubSeq(text, 1, slashes - 1) ELSE text
      open == First(code, "/*")
      close == SelectLastInSeq(code, LAMBDA t : t = "*/")
  IN IF 0 < open /\ open < close
     THEN SubSeq(code, 1, open - 1) \o SubSeq(code, close + 1, Len(code))
     ELSE code

IsInclude(text) == Starts(text, "#include")

(* What is between two quotes goes, except on an include line. *)
CollapseStrings(text) ==
  LET closed(i) == \E j \in i + 1 .. Len(text) : text[j] = "\""
      kept == {i \in DOMAIN text :
                 text[i] = "\"" \/ ~IsCppString(text, i) \/ ~closed(i)}
      indices == Ascending(kept)
  IN IF IsInclude(text) THEN text
     ELSE [k \in DOMAIN indices |-> text[indices[k]]]

(* Every line with the two texts the checks look at: code, without its     *)
(* comments, and elided, without its strings too (CleansedLines.lines and  *)
(* CleansedLines.elided).                                                  *)
CleansedLines(lines) ==
  [i \in DOMAIN lines |->
     [code |-> CleanseComments(lines[i].text),
      elided |-> CleanseComments(CollapseStrings(lines[i].text)),
      indent |-> lines[i].indent, text |-> lines[i].text,
      nolint |-> lines[i].nolint, own |-> lines[i].own]]

(* From here on, lines are cleansed.  A number outside the file stands for *)
(* the empty line.                                                         *)
Cleansed(lines, n) == IF n \in DOMAIN lines THEN lines[n].code ELSE <<>>
Elided(lines, n) == IF n \in DOMAIN lines THEN lines[n].elided ELSE <<>>
Indent(lines, n) == IF n \in DOMAIN lines THEN lines[n].indent ELSE 0

(* The errors, in some categories, of the checks that look at the          *)
(* characters of one line alone.                                           *)
OwnErrors(lines, n, categories) ==
  LET own == SetToSeq({e \in lines[n].own : e.category \in categories})
  IN [i \in DOMAIN own |-> Err(n, own[i].category, own[i].confidence)]

(* GetPreviousNonBlankLine: 0 if there is none. *)
GetPreviousNonBlankLine(lines, n) ==
  Max({p \in 1 .. n - 1 : Elided(lines, p) # <<>>} \cup {0})

(* The braces a range of lines leaves open. *)
Depth(lines, first, last) ==
  MapThenSumSet(LAMBDA i : Count(Cleansed(lines, i), "{")
                             - Count(Cleansed(lines, i), "}"),
                first .. last)

-------------------------------------------------------------------------------
CheckForCopyright(lines, limit) ==
  ErrIf(\A n \in 1 .. Min({Len(lines), limit}) : ~Occurs(lines[n].text, "Copyright"),
        0, <<"legal", "copyright">>, 5)

CheckForMultilineCommentsAndStrings(lines, n) ==
  LET text == Elided(lines, n)
  IN ErrIf(Count(text, "/*") > Count(text, "*/"), n,
           <<"readability", "multiline", "comment">>, 5)
     \o ErrIf(Count(text, "\"") % 2 = 1, n,
              <<"readability", "multiline", "string">>, 5)

CheckForUnicodeReplacementCharacters(lines) ==
  LET bad == Ascending({n \in DOMAIN lines : Occurs(lines[n].text, "\\ufffd")})
  IN [i \in DOMAIN bad |-> Err(bad[i], <<"readability", "utf8">>, 5)]

(* A file that ends with a newline ends with an empty line before the      *)
(* marker.                                                                 *)
CheckForNewlineAtEOF(lines) ==
  LET last == Len(lines) - 1
  IN ErrIf(lines[last].text # <<>>, last, <<"whitespace", "ending", "newline">>, 5)
===============================================================================
