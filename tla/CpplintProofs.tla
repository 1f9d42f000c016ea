----------------------------- MODULE CpplintProofs -----------------------------
(***************************************************************************)
(* Proofs about Cpplint: what is reported of the order of includes and of  *)
(* the length of functions, and the stack of classes, for every file.      *)
(*                                                                         *)
(* The first part is about the operators: the lists of events the checks   *)
(* give, and that only the checks of includes and of functions say         *)
(* anything in their two categories.  The second carries one invariant     *)
(* through the actions: what was said of a file is what its lines down to  *)
(* linenum call for, the section of _IncludeState is that of the first     *)
(* includes, and _FunctionState that of the last function above.  The      *)
(* third counts braces, and shows that every class on the stack has        *)
(* counted exactly the braces of its lines.                                *)
(***************************************************************************)
EXTENDS Cpplint, FiniteSetTheorems, SequenceTheorems, WellFoundedInduction, TLAPS

(* A set of numbers has a smallest one, and a bounded one a largest.       *)
LEMMA Smallest ==
  ASSUME NEW S \in SUBSET Nat, S # {}
  PROVE  Min(S) \in S /\ \A y \in S : Min(S) <= y
<1>1. PICK x \in S : \A y \in Nat : <<y, x>> \in OpToRel(<, Nat) => y \notin S
  BY NatLessThanWellFounded, WFMin
<1>2. \A y \in Nat : <<y, x>> \in OpToRel(<, Nat) <=> y < x
  BY DEF OpToRel
<1>3. \A y \in Nat : y < x => y \notin S
  BY <1>1, <1>2, Zenon
<1>4. \A y \in S : x <= y
  BY <1>3
<1> QED
  BY <1>4 DEF Min

(* A bounded set of numbers has a largest one.                              *)
LEMMA Largest ==
  ASSUME NEW n \in Nat, NEW S \in SUBSET (0 .. n), S # {}
  PROVE  Max(S) \in S /\ \A y \in S : Max(S) >= y
<1> DEFINE T == {n - y : y \in S}
<1>1. T \in SUBSET Nat /\ T # {}
  <2>1. \A y \in S : y \in 0 .. n
    OBVIOUS
  <2>2. \A y \in S : n - y \in Nat
    BY <2>1
  <2> QED
    BY <2>2
<1>2. PICK z \in T : \A y \in T : z <= y
  <2> HIDE DEF T
  <2> QED
    BY <1>1, Smallest
<1>3. PICK x \in S : z = n - x
  OBVIOUS
<1>4. \A y \in S : x >= y
  BY <1>2, <1>3
<1> QED
  BY <1>4 DEF Max

-------------------------------------------------------------------------------
(* Ascending lists its set: every member once, and nothing else.           *)
LEMMA AscendingLists ==
  ASSUME NEW S \in SUBSET Nat, IsFiniteSet(S)
  PROVE  /\ Ascending(S) \in Seq(S)
         /\ Len(Ascending(S)) = Cardinality(S)
         /\ ToSet(Ascending(S)) = S
<1> DEFINE UpTo(i) == {j \in S : j <= i}
           rank == [i \in S |-> Cardinality(UpTo(i))]
           N == Cardinality(S)
<1>1. N \in Nat
  BY FS_CardinalityType
<1>2. \A i \in S : IsFiniteSet(UpTo(i)) /\ Cardinality(UpTo(i)) \in 1 .. N
  <2> TAKE i \in S
  <2>1. UpTo(i) \in SUBSET S /\ i \in UpTo(i)
    OBVIOUS
  <2>2. IsFiniteSet(UpTo(i)) /\ Cardinality(UpTo(i)) <= N
    BY <2>1, FS_Subset
  <2>3. Cardinality(UpTo(i)) \in Nat /\ Cardinality(UpTo(i)) # 0
    BY <2>1, <2>2, FS_CardinalityType, FS_EmptySet
  <2> QED
    BY <1>1, <2>2, <2>3
<1>3. \A i, k \in S : i < k => Cardinality(UpTo(i)) # Cardinality(UpTo(k))
  <2> SUFFICES ASSUME NEW i \in S, NEW k \in S, i < k
               PROVE  Cardinality(UpTo(i)) # Cardinality(UpTo(k))
    OBVIOUS
  <2>1. UpTo(i) \in SUBSET UpTo(k) /\ k \in UpTo(k) /\ k \notin UpTo(i)
    <3>1. i \in Nat /\ k \in Nat /\ \A j \in S : j \in Nat
      OBVIOUS
    <3>2. \A j \in S : j <= i => j <= k
      BY <3>1
    <3>3. ~(k <= i) /\ k <= k
      BY <3>1
    <3> QED
      BY <3>2, <3>3
  <2> QED
    BY <1>2, <2>1, FS_Subset
<1>4. \A i, k \in S : Cardinality(UpTo(i)) = Cardinality(UpTo(k)) => i = k
  BY <1>3
<1>5. rank \in Injection(S, 1 .. N)
  <2>1. rank \in [S -> 1 .. N]
    BY <1>2
  <2>2. \A i, k \in S : rank[i] = rank[k] => i = k
    BY <1>4
  <2> HIDE DEF rank
  <2> QED
    BY <2>1, <2>2 DEF Injection, IsInjective
<1>6. rank \in Surjection(S, 1 .. N)
  <2>1. IsFiniteSet(1 .. N) /\ Cardinality(1 .. N) = N
    BY <1>1, FS_Interval
  <2> HIDE DEF rank, N
  <2>2. N = Cardinality(S)
    BY DEF N
  <2> QED
    BY <1>5, <2>1, <2>2, FS_Injection
<1>7. \A k \in 1 .. N : \E i \in S : Cardinality(UpTo(i)) = k
  BY <1>6 DEF Surjection
<1>8. Ascending(S) = [k \in 1 .. N |-> CHOOSE i \in S : Cardinality(UpTo(i)) = k]
  BY DEF Ascending
<1>9. \A k \in 1 .. N : Ascending(S)[k] \in S /\ Cardinality(UpTo(Ascending(S)[k])) = k
  BY <1>7, <1>8
<1>10. DOMAIN Ascending(S) = 1 .. N
  BY <1>8
<1>11. Ascending(S) \in [1 .. N -> S]
  BY <1>8, <1>9, <1>10
<1>12. \A i \in S : Ascending(S)[Cardinality(UpTo(i))] = i
  BY <1>2, <1>4, <1>9
<1>13. ToSet(Ascending(S)) = S
  <2> HIDE DEF UpTo
  <2> QED
    BY <1>2, <1>9, <1>10, <1>12 DEF ToSet
<1> QED
  BY <1>1, <1>11, <1>13

-------------------------------------------------------------------------------
(* Sequences of events, and of reports, of whatever values.                *)
IsSeq(s) == \E S : s \in Seq(S)

Order == <<"build", "include", "order">>
FnSize == <<"readability", "fn", "size">>
Tracked == {Order, FnSize}

(* The lines that events give as errors of a category.                     *)
ErrorLines(events, c) ==
  {events[i].linenum : i \in {j \in DOMAIN events : events[j].op = "error"
                                                     /\ events[j].category = c}}

(* The length and the indices of a sequence, whatever it holds.             *)
LEMMA SeqFacts ==
  ASSUME NEW s, IsSeq(s)
  PROVE  Len(s) \in Nat /\ DOMAIN s = 1 .. Len(s)
BY DEF IsSeq

(* A concatenation is a sequence: first the one, then the other.            *)
LEMMA ConcatFacts ==
  ASSUME NEW s, NEW t, IsSeq(s), IsSeq(t)
  PROVE  /\ IsSeq(s \o t)
         /\ Len(s \o t) = Len(s) + Len(t)
         /\ \A i \in 1 .. Len(s) : (s \o t)[i] = s[i]
         /\ \A i \in 1 .. Len(t) : (s \o t)[Len(s) + i] = t[i]
<1>1. PICK S : s \in Seq(S)
  BY DEF IsSeq
<1>2. PICK T : t \in Seq(T)
  BY DEF IsSeq
<1>3. s \in Seq(S \cup T) /\ t \in Seq(S \cup T)
  BY <1>1, <1>2, SeqMonotonic
<1>4. /\ s \o t \in Seq(S \cup T)
      /\ Len(s \o t) = Len(s) + Len(t)
      /\ \A i \in 1 .. Len(s) + Len(t) :
           (s \o t)[i] = IF i <= Len(s) THEN s[i] ELSE t[i - Len(s)]
  BY <1>3, ConcatProperties
<1>5. Len(s) \in Nat /\ Len(t) \in Nat
  BY <1>3
<1>6. \A i \in 1 .. Len(s) : (s \o t)[i] = s[i]
  BY <1>4, <1>5
<1>7. \A i \in 1 .. Len(t) : (s \o t)[Len(s) + i] = t[i]
  <2> TAKE i \in 1 .. Len(t)
  <2>1. Len(s) + i \in 1 .. Len(s) + Len(t) /\ ~(Len(s) + i <= Len(s))
        /\ (Len(s) + i) - Len(s) = i
    BY <1>5
  <2> QED
    BY <1>4, <2>1
<1> QED
  BY <1>4, <1>6, <1>7 DEF IsSeq

(* What holds of all elements of two sequences holds of their concatenation*)
LEMMA ConcatRange ==
  ASSUME NEW s, NEW t, IsSeq(s), IsSeq(t)
  PROVE  /\ DOMAIN (s \o t) = 1 .. Len(s) + Len(t)
         /\ \A i \in DOMAIN (s \o t) : \/ i \in DOMAIN s /\ (s \o t)[i] = s[i]
                                     \/ \E k \in DOMAIN t : (s \o t)[i] = t[k]
         /\ \A k \in DOMAIN s : k \in DOMAIN (s \o t) /\ (s \o t)[k] = s[k]
         /\ \A k \in DOMAIN t : Len(s) + k \in DOMAIN (s \o t)
                                /\ (s \o t)[Len(s) + k] = t[k]
<1>1. /\ Len(s) \in Nat /\ DOMAIN s = 1 .. Len(s)
      /\ Len(t) \in Nat /\ DOMAIN t = 1 .. Len(t)
  BY SeqFacts
<1>2. /\ DOMAIN (s \o t) = 1 .. Len(s) + Len(t)
      /\ \A i \in 1 .. Len(s) : (s \o t)[i] = s[i]
      /\ \A i \in 1 .. Len(t) : (s \o t)[Len(s) + i] = t[i]
  BY ConcatFacts, SeqFacts
<1>3. \A i \in DOMAIN (s \o t) : \/ i \in DOMAIN s /\ (s \o t)[i] = s[i]
                                \/ \E k \in DOMAIN t : (s \o t)[i] = t[k]
  <2> TAKE i \in DOMAIN (s \o t)
  <2>1. CASE i <= Len(s)
    BY <1>1, <1>2, <2>1
  <2>2. CASE ~(i <= Len(s))
    <3>1. i - Len(s) \in 1 .. Len(t) /\ Len(s) + (i - Len(s)) = i
      BY <1>1, <1>2, <2>2
    <3> QED
      BY <1>1, <1>2, <3>1
  <2> QED
    BY <2>1, <2>2
<1> QED
  BY <1>1, <1>2, <1>3

(* The errors of two lists of events, one after the other, are those of     *)
(* both.                                                                    *)
LEMMA ConcatErrorLines ==
  ASSUME NEW s, NEW t, IsSeq(s), IsSeq(t), NEW c
  PROVE  ErrorLines(s \o t, c) = ErrorLines(s, c) \cup ErrorLines(t, c)
<1> DEFINE Is(e) == e.op = "error" /\ e.category = c
<1>1. ASSUME NEW i \in DOMAIN (s \o t), Is((s \o t)[i])
      PROVE  (s \o t)[i].linenum \in ErrorLines(s, c) \cup ErrorLines(t, c)
  <2>1. CASE i \in DOMAIN s /\ (s \o t)[i] = s[i]
    BY <1>1, <2>1 DEF ErrorLines
  <2>2. CASE \E k \in DOMAIN t : (s \o t)[i] = t[k]
    BY <1>1, <2>2 DEF ErrorLines
  <2> QED
    BY <2>1, <2>2, ConcatRange
<1>2. ASSUME NEW k \in DOMAIN s, Is(s[k])
      PROVE  s[k].linenum \in ErrorLines(s \o t, c)
  <2>1. k \in DOMAIN (s \o t) /\ (s \o t)[k] = s[k]
    BY ConcatRange
  <2> QED
    BY <1>2, <2>1 DEF ErrorLines
<1>3. ASSUME NEW k \in DOMAIN t, Is(t[k])
      PROVE  t[k].linenum \in ErrorLines(s \o t, c)
  <2>1. Len(s) + k \in DOMAIN (s \o t) /\ (s \o t)[Len(s) + k] = t[k]
    BY ConcatRange
  <2> QED
    BY <1>3, <2>1 DEF ErrorLines
<1> QED
  BY <1>1, <1>2, <1>3 DEF ErrorLines

(* No events report no error.                                               *)
LEMMA EmptyEvents ==
  IsSeq(<<>>) /\ \A c : ErrorLines(<<>>, c) = {}
BY DEF IsSeq, ErrorLines

(* One event reports its own line, if it is an error of the category.       *)
LEMMA OneEvent ==
  ASSUME NEW e
  PROVE  /\ IsSeq(<<e>>)
         /\ \A c : ErrorLines(<<e>>, c) =
              IF e.op = "error" /\ e.category = c THEN {e.linenum} ELSE {}
<1>1. <<e>> \in Seq({e})
  OBVIOUS
<1>2. DOMAIN <<e>> = {1} /\ <<e>>[1] = e
  OBVIOUS
<1> QED
  BY <1>1, <1>2 DEF IsSeq, ErrorLines

(* ErrIf reports its line exactly if the condition holds.                   *)
LEMMA ErrIfEvents ==
  ASSUME NEW condition, NEW n, NEW category, NEW confidence
  PROVE  /\ IsSeq(ErrIf(condition, n, category, confidence))
         /\ \A c : ErrorLines(ErrIf(condition, n, category, confidence), c) =
              IF condition /\ category = c THEN {n} ELSE {}
<1>1. CASE condition
  <2> DEFINE e == Err(n, category, confidence)
  <2>1. ErrIf(condition, n, category, confidence) = <<e>>
    BY <1>1 DEF ErrIf
  <2>2. e.op = "error" /\ e.category = category /\ e.linenum = n
    BY DEF Err
  <2> HIDE DEF e
  <2> QED
    BY <1>1, <2>1, <2>2, OneEvent
<1>2. CASE ~condition
  BY <1>2, EmptyEvents DEF ErrIf
<1> QED
  BY <1>1, <1>2

-------------------------------------------------------------------------------
(* The lines of a file that have been reported under a category.           *)
Said(reports, f, c) ==
  {r.linenum : r \in {q \in ToSet(reports) : q.file = f /\ q.category = c}}

(* A sequence mapped element by element holds the images.                   *)
LEMMA RangeOfMap ==
  ASSUME NEW S, NEW s \in Seq(S), NEW g, NEW t, t = [k \in DOMAIN s |-> g[s[k]]]
  PROVE  IsSeq(t) /\ ToSet(t) = {g[x] : x \in ToSet(s)}
<1>1. DOMAIN s = 1 .. Len(s) /\ Len(s) \in Nat
  OBVIOUS
<1>2. t \in [1 .. Len(s) -> {g[s[k]] : k \in DOMAIN s}]
  BY <1>1
<1>3. t \in Seq({g[s[k]] : k \in DOMAIN s})
  BY <1>1, <1>2
<1> QED
  BY <1>3 DEF IsSeq, ToSet

(* A concatenation holds what both hold.                                    *)
LEMMA ConcatToSet ==
  ASSUME NEW s, NEW t, IsSeq(s), IsSeq(t)
  PROVE  ToSet(s \o t) = ToSet(s) \cup ToSet(t)
BY ConcatRange DEF ToSet

(* The reports of a step add lines of its errors, and all of them unless   *)
(* the step is cut short, to those of its file under a tracked category.   *)
LEMMA FirstNumbers ==
  ASSUME NEW n \in Nat, NEW m \in 0 .. n
  PROVE  \A i \in 1 .. m : i \in 1 .. n
OBVIOUS

(* Reporting the events of a file adds to what was said of that file, in a  *)
(* tracked category, exactly the lines of the errors before the first event *)
(* that ends the process, and nothing of any other file (Error and          *)
(* ParseNolintSuppressions, cpplint.py:300-327 and 792-824).                *)
LEMMA ReportSays ==
  ASSUME NEW suppressions, NEW file, NEW events, IsSeq(events), IsSeq(raised),
         ReportFrom(suppressions, file, events), NEW c \in Tracked
  PROVE  /\ IsSeq(raised')
         /\ \A f : f # file => Said(raised', f, c) = Said(raised, f, c)
         /\ Said(raised, file, c) \subseteq Said(raised', file, c)
         /\ Said(raised', file, c) \subseteq Said(raised, file, c) \cup ErrorLines(events, c)
         /\ Stops(events) = {} =>
              Said(raised', file, c) = Said(raised, file, c) \cup ErrorLines(events, c)
<1>1. Len(events) \in Nat /\ DOMAIN events = 1 .. Len(events)
  BY SeqFacts
<1> DEFINE upto == Min({i - 1 : i \in Stops(events)} \cup {Len(events)})
<1>2. upto \in 0 .. Len(events) /\ (Stops(events) = {} => upto = Len(events))
  <2> DEFINE S == {i - 1 : i \in Stops(events)} \cup {Len(events)}
  <2>1. S \in SUBSET (0 .. Len(events)) /\ S # {}
    BY <1>1 DEF Stops
  <2>2. S \in SUBSET Nat
    BY <1>1, <2>1
  <2>3. Min(S) \in S
    <3> HIDE DEF S
    <3> QED
      BY <2>1, <2>2, Smallest
  <2>4. Stops(events) = {} => S = {Len(events)}
    OBVIOUS
  <2> HIDE DEF S
  <2> QED
    BY <2>1, <2>3, <2>4 DEF S
<1> HIDE DEF upto
<1> DEFINE E == {i \in 1 .. upto : IsError(events[i])}
           report(i) == [file |-> file, linenum |-> events[i].linenum,
                         category |-> AsError(events[i]).category,
                         confidence |-> events[i].confidence]
           A == Ascending(E)
           new == [k \in DOMAIN A |-> report(A[k])]
           g == [i \in E |-> report(i)]
<1>3. E \in SUBSET Nat /\ IsFiniteSet(E)
  <2>1. E \in SUBSET (1 .. Len(events))
    <3>1. \A i \in 1 .. upto : i \in 1 .. Len(events)
      BY <1>1, <1>2, FirstNumbers, Zenon
    <3> QED
      BY <3>1, SMTT(40)
  <2>3. IsFiniteSet(1 .. Len(events))
    BY <1>1, FS_Interval
  <2>2. IsFiniteSet(E)
    BY <2>1, <2>3, FS_Subset
  <2> QED
    BY <1>1, <2>1, <2>2
<1>4. A \in Seq(E) /\ ToSet(A) = E
  <2> HIDE DEF E
  <2> QED
    BY <1>3, AscendingLists, SMTT(40)
<1>5. raised' = raised \o new
  BY Zenon DEF ReportFrom, upto
<1>6. IsSeq(new) /\ ToSet(new) = {report(i) : i \in E}
  <2>1. \A k \in DOMAIN A : A[k] \in E
    <3> HIDE DEF E, A
    <3> QED
      BY <1>4
  <2>2. new = [k \in DOMAIN A |-> g[A[k]]]
    <3> HIDE DEF E, A, report
    <3> QED
      BY <2>1
  <2>3. {g[i] : i \in E} = {report(i) : i \in E}
    <3> HIDE DEF E, report
    <3> QED
      OBVIOUS
  <2> HIDE DEF E, A, g, report, new
  <2>4. IsSeq(new) /\ ToSet(new) = {g[i] : i \in ToSet(A)}
    BY <1>4, <2>2, RangeOfMap
  <2> QED
    BY <1>4, <2>3, <2>4
<1>7. IsSeq(raised') /\ ToSet(raised') = ToSet(raised) \cup {report(i) : i \in E}
  <2> HIDE DEF new, E, report
  <2> QED
    BY <1>5, <1>6, ConcatFacts, ConcatToSet
<1>8. \A i \in DOMAIN events :
        (IsError(events[i]) /\ AsError(events[i]).category = c)
          <=> (events[i].op = "error" /\ events[i].category = c)
  <2>1. c # <<"readability", "nolint">>
    BY DEF Tracked, Order, FnSize
  <2> QED
    BY <1>1, <2>1 DEF IsError, AsError, Err
<1>9. \A i \in E : /\ report(i).file = file
                   /\ report(i).linenum = events[i].linenum
                   /\ report(i).category = AsError(events[i]).category
  OBVIOUS
<1>10. E \subseteq DOMAIN events /\ \A i \in E : IsError(events[i])
  <2>1. \A i \in 1 .. upto : i \in DOMAIN events
    BY <1>1, <1>2, FirstNumbers
  <2> QED
    BY <2>1, SMTT(40)
<1>11. Stops(events) = {} => \A i \in DOMAIN events : IsError(events[i]) => i \in E
  BY <1>1, <1>2
<1> DEFINE more(f) == {r.linenum : r \in {q \in {report(i) : i \in E} :
                                            q.file = f /\ q.category = c}}
<1>12. \A f : f # file => more(f) = {}
  <2> HIDE DEF E, report
  <2> QED
    BY <1>9
<1>13. more(file) \subseteq ErrorLines(events, c)
  <2> HIDE DEF E, report
  <2> QED
    BY <1>8, <1>9, <1>10 DEF ErrorLines
<1>14. Stops(events) = {} => ErrorLines(events, c) \subseteq more(file)
  <2> HIDE DEF E, report
  <2> QED
    BY <1>8, <1>9, <1>11 DEF ErrorLines
<1>15. \A f : Said(raised', f, c) = Said(raised, f, c) \cup more(f)
  <2> HIDE DEF E, report
  <2> QED
    BY <1>7 DEF Said
<1> HIDE DEF more
<1> QED
  BY <1>7, <1>12, <1>13, <1>14, <1>15

-------------------------------------------------------------------------------
(* Of all checks, only CheckIncludeLine and CheckForFunctionLengths report *)
(* a tracked category.                                                     *)
Quiet(events) == IsSeq(events) /\ \A c \in Tracked : ErrorLines(events, c) = {}

(* Quiet events leave what was said of the tracked categories alone.        *)
LEMMA QuietReport ==
  ASSUME NEW suppressions, NEW file, NEW events, Quiet(events), IsSeq(raised),
         ReportFrom(suppressions, file, events)
  PROVE  IsSeq(raised') /\ \A f : \A c \in Tracked : Said(raised', f, c) = Said(raised, f, c)
<1>1. ASSUME NEW c \in Tracked
      PROVE  IsSeq(raised') /\ \A f : Said(raised', f, c) = Said(raised, f, c)
  <2>1. ErrorLines(events, c) = {} /\ IsSeq(events)
    BY DEF Quiet
  <2>2. /\ IsSeq(raised')
        /\ \A f : f # file => Said(raised', f, c) = Said(raised, f, c)
        /\ Said(raised, file, c) \subseteq Said(raised', file, c)
        /\ Said(raised', file, c) \subseteq Said(raised, file, c) \cup ErrorLines(events, c)
    BY <2>1, ReportSays
  <2>3. Said(raised', file, c) = Said(raised, file, c)
    BY <2>1, <2>2
  <2> QED
    BY <2>2, <2>3
<1>2. Order \in Tracked
  BY DEF Tracked
<1> QED
  BY <1>1, <1>2

(* Two quiet lists are quiet together.                                      *)
LEMMA QuietConcat ==
  ASSUME NEW s, NEW t, Quiet(s), Quiet(t)
  PROVE  Quiet(s \o t)
BY ConcatFacts, ConcatErrorLines DEF Quiet

(* No event is quiet.                                                       *)
LEMMA QuietEmpty == Quiet(<<>>)
BY EmptyEvents DEF Quiet

(* An event is quiet unless it is an error of a tracked category.           *)
LEMMA QuietOne ==
  ASSUME NEW e, e.op = "error" => e.category \notin Tracked
  PROVE  Quiet(<<e>>)
BY OneEvent DEF Quiet

(* ErrIf of another category is quiet, whether the condition holds or not.  *)
LEMMA QuietErrIf ==
  ASSUME NEW condition, NEW n, NEW category, NEW confidence, category \notin Tracked
  PROVE  Quiet(ErrIf(condition, n, category, confidence))
BY ErrIfEvents DEF Quiet

(* So is an error of another category,                                      *)
LEMMA QuietErr ==
  ASSUME NEW n, NEW category, NEW confidence, category \notin Tracked
  PROVE  Quiet(<<Err(n, category, confidence)>>)
<1>1. Err(n, category, confidence).category = category
  BY DEF Err
<1> QED
  BY <1>1, QuietOne

(* a NOLINT comment,                                                        *)
LEMMA QuietNolint ==
  ASSUME NEW n, NEW nolint
  PROVE  Quiet(<<Nolint(n, nolint)>>)
<1>1. Nolint(n, nolint).op # "error"
  BY DEF Nolint
<1> QED
  BY <1>1, QuietOne

(* an exception or a loop without end,                                      *)
LEMMA QuietStop ==
  ASSUME NEW how \in {"raise", "loop"}
  PROVE  Quiet(<<Stop(how)>>)
<1>1. Stop(how).op # "error"
  BY DEF Stop
<1> QED
  BY <1>1, QuietOne

(* and a NOLINT comment of an unknown category, with its error.             *)
LEMMA QuietNolintErr ==
  ASSUME NEW n, NEW nolint, NEW category, NEW confidence, category \notin Tracked
  PROVE  Quiet(<<Nolint(n, nolint), Err(n, category, confidence)>>)
<1> DEFINE a == Nolint(n, nolint)
           b == Err(n, category, confidence)
<1>1. a.op # "error" /\ b.category \notin Tracked
  BY DEF Nolint, Err
<1> HIDE DEF a, b
<1>2. <<a, b>> \in Seq({a, b})
  OBVIOUS
<1>3. DOMAIN <<a, b>> = {1, 2} /\ <<a, b>>[1] = a /\ <<a, b>>[2] = b
  OBVIOUS
<1>4. Quiet(<<a, b>>)
  BY <1>1, <1>2, <1>3 DEF Quiet, IsSeq, ErrorLines
<1> QED
  BY <1>4 DEF a, b

(* Quiet events before or after others add no lines to a tracked category. *)
LEMMA QuietAround ==
  ASSUME NEW s, NEW t, Quiet(s), IsSeq(t)
  PROVE  /\ IsSeq(s \o t) /\ \A c \in Tracked : ErrorLines(s \o t, c) = ErrorLines(t, c)
         /\ IsSeq(t \o s) /\ \A c \in Tracked : ErrorLines(t \o s, c) = ErrorLines(t, c)
<1>1. IsSeq(s) /\ IsSeq(t) /\ \A c \in Tracked : ErrorLines(s, c) = {}
  BY DEF Quiet
<1>2. IsSeq(s \o t) /\ IsSeq(t \o s)
  BY <1>1, ConcatFacts
<1>3. ASSUME NEW c \in Tracked
      PROVE  /\ ErrorLines(s \o t, c) = ErrorLines(t, c)
             /\ ErrorLines(t \o s, c) = ErrorLines(t, c)
  <2>1. ErrorLines(s, c) = {}
    BY <1>1
  <2>2. ErrorLines(s \o t, c) = ErrorLines(s, c) \cup ErrorLines(t, c)
    BY <1>1, ConcatErrorLines
  <2>3. ErrorLines(t \o s, c) = ErrorLines(t, c) \cup ErrorLines(s, c)
    BY <1>1, ConcatErrorLines
  <2> QED
    BY <2>1, <2>2, <2>3
<1> QED
  BY <1>2, <1>3

(* The categories of the checks that follow, none of which is tracked.      *)
LEMMA Untracked ==
  { <<"build", "class">>, <<"build", "header", "guard">>, <<"build", "include">>,
    <<"build", "include", "alpha">>, <<"build", "include", "what", "you", "use">>,
    <<"legal", "copyright">>, <<"readability", "braces">>,
    <<"readability", "multiline", "comment">>, <<"readability", "multiline", "string">>,
    <<"readability", "streams">>, <<"readability", "utf8">>, <<"runtime", "explicit">>,
    <<"runtime", "virtual">>, <<"whitespace", "blank", "line">>,
    <<"whitespace", "braces">>, <<"whitespace", "ending", "newline">>,
    <<"whitespace", "newline">> } \cap Tracked = {}
BY DEF Tracked, Order, FnSize

(* The checks other than those of includes and of functions are quiet:      *)
(* CheckForMultilineCommentsAndStrings,                                     *)
LEMMA QuietCommentsAndStrings ==
  ASSUME NEW text, NEW n
  PROVE  Quiet(CheckForMultilineCommentsAndStrings(text, n))
BY QuietErrIf, QuietConcat, Untracked DEF CheckForMultilineCommentsAndStrings

(* the one command of a line (CheckStyle),                                  *)
LEMMA QuietOneCommand ==
  ASSUME NEW text, NEW n
  PROVE  Quiet(CheckOneCommand(text, n))
BY QuietErrIf, Untracked DEF CheckOneCommand

(* the braces of an else (CheckBraces),                                     *)
LEMMA QuietElseBraces ==
  ASSUME NEW text, NEW n
  PROVE  Quiet(ElseBraces(text, n))
BY QuietEmpty, QuietErr, QuietStop, Untracked, ZenonT(40) DEF ElseBraces

(* the semicolon after a block (CheckBraces),                               *)
LEMMA QuietNeedlessSemicolon ==
  ASSUME NEW text, NEW n
  PROVE  Quiet(NeedlessSemicolon(text, n))
BY QuietErrIf, QuietStop, Untracked, Zenon DEF NeedlessSemicolon

(* SetToSeq lists a finite set.                                             *)
LEMMA SeqOfSet ==
  ASSUME NEW S, IsFiniteSet(S)
  PROVE  SetToSeq(S) \in Seq(S)
<1>1. Cardinality(S) \in Nat /\ ExistsBijection(1 .. Cardinality(S), S)
  BY FS_CardinalityType
<1>2. PICK f \in Bijection(1 .. Cardinality(S), S) : TRUE
  BY <1>1 DEF ExistsBijection
<1>3. f \in [1 .. Cardinality(S) -> S] /\ IsInjective(f)
  BY <1>2 DEF Bijection, Injection, IsInjective
<1> QED
  BY <1>1, <1>3 DEF SetToSeq, IsInjective

(* The errors of the checks of one line are an input, of other categories; *)
(* they are reported in parts,                                             *)
LEMMA QuietOwnErrors ==
  ASSUME NEW text, NEW n, NEW categories, IsFiniteSet(text[n].own),
         \A e \in text[n].own : e.category \notin Tracked
  PROVE  Quiet(OwnErrors(text, n, categories))
<1> DEFINE S == {e \in text[n].own : e.category \in categories}
           own == SetToSeq(S)
           errors == OwnErrors(text, n, categories)
<1>1. IsFiniteSet(S) /\ \A e \in S : e.category \notin Tracked
  BY FS_Subset
<1>2. own \in Seq(S)
  <2> HIDE DEF S
  <2> QED
    BY <1>1, SeqOfSet
<1>3. /\ DOMAIN own = 1 .. Len(own) /\ Len(own) \in Nat
      /\ \A i \in DOMAIN own : own[i] \in S
  <2> HIDE DEF S, own
  <2> QED
    BY <1>2
<1>4. errors = [i \in DOMAIN own |-> Err(n, own[i].category, own[i].confidence)]
  BY DEF OwnErrors
<1> HIDE DEF S, own, errors
<1>5. IsSeq(errors)
  <2>1. errors \in [1 .. Len(own) -> {errors[i] : i \in 1 .. Len(own)}]
    BY <1>3, <1>4
  <2>2. errors \in Seq({errors[i] : i \in 1 .. Len(own)})
    BY <1>3, <2>1, SeqDef
  <2> QED
    BY <2>2 DEF IsSeq
<1>6. \A i \in DOMAIN errors : errors[i].category \notin Tracked
  BY <1>1, <1>3, <1>4 DEF Err
<1> QED
  BY <1>5, <1>6 DEF Quiet, ErrorLines, errors

(* CheckBraces itself,                                                      *)
LEMMA QuietBraces ==
  ASSUME NEW text, NEW n, IsFiniteSet(text[n].own),
         \A e \in text[n].own : e.category \notin Tracked
  PROVE  Quiet(CheckBraces(text, n))
BY QuietErrIf, QuietConcat, QuietElseBraces, QuietOwnErrors, QuietNeedlessSemicolon,
   Untracked
   DEF CheckBraces

(* the blank lines of CheckSpacing,                                         *)
LEMMA QuietBlankLine ==
  ASSUME NEW text, NEW n
  PROVE  Quiet(CheckBlankLine(text, n))
BY QuietErrIf, QuietConcat, QuietEmpty, Untracked DEF CheckBlankLine

(* CheckSectionSpacing,                                                     *)
LEMMA QuietSectionSpacing ==
  ASSUME NEW text, NEW class, NEW n
  PROVE  Quiet(CheckSectionSpacing(text, class, n))
BY QuietErrIf, Untracked DEF CheckSectionSpacing

(* the classes of CheckForNonStandardConstructs,                            *)
LEMMA QuietClasses ==
  ASSUME NEW text, NEW n, NEW stack
  PROVE  Quiet(TrackClasses(text, n, stack).errors)
<1>1. ASSUME NEW outer, NEW top
      PROVE  Quiet(CloseOrContinue(text, n, outer, top).errors)
  BY QuietErrIf, QuietConcat, Untracked DEF CloseOrContinue
<1> QED
  BY <1>1, QuietEmpty DEF TrackClasses

(* CheckForCopyright,                                                       *)
LEMMA QuietCopyright ==
  ASSUME NEW text, NEW limit
  PROVE  Quiet(CheckForCopyright(text, limit))
BY QuietErrIf, Untracked DEF CheckForCopyright

(* CheckForHeaderGuard,                                                     *)
LEMMA QuietHeaderGuard ==
  ASSUME NEW name, NEW text
  PROVE  Quiet(CheckForHeaderGuard(name, text))
BY QuietErr, QuietNolintErr, QuietConcat, QuietEmpty, Untracked, Zenon DEF CheckForHeaderGuard

(* _ClassState.CheckFinished,                                               *)
LEMMA QuietFinished ==
  ASSUME NEW stack
  PROVE  Quiet(CheckFinished(stack))
BY QuietErr, QuietEmpty, Untracked DEF CheckFinished

(* and CheckForNewlineAtEOF.                                                *)
LEMMA QuietNewline ==
  ASSUME NEW text
  PROVE  Quiet(CheckForNewlineAtEOF(text))
BY QuietErrIf, Untracked DEF CheckForNewlineAtEOF

(* The replacement characters, and the headers that a file needs.          *)
LEMMA ErrSeq ==
  ASSUME NEW S, NEW s \in Seq(S), NEW line, NEW category, category \notin Tracked,
         NEW confidence, NEW events,
         events = [i \in DOMAIN s |-> Err(line[s[i]], category, confidence)]
  PROVE  Quiet(events)
<1>1. DOMAIN s = 1 .. Len(s) /\ Len(s) \in Nat
  OBVIOUS
<1>2. events \in [1 .. Len(s) -> {events[i] : i \in 1 .. Len(s)}]
  BY <1>1
<1>3. IsSeq(events)
  <2>1. events \in Seq({events[i] : i \in 1 .. Len(s)})
    BY <1>1, <1>2, SeqDef
  <2> QED
    BY <2>1 DEF IsSeq
<1>4. \A i \in DOMAIN events : events[i].category \notin Tracked
  BY DEF Err
<1> QED
  BY <1>3, <1>4 DEF Quiet, ErrorLines

(* CheckForUnicodeReplacementCharacters is quiet,                           *)
LEMMA QuietUnicode ==
  ASSUME NEW text, DOMAIN text \in SUBSET Nat, IsFiniteSet(DOMAIN text)
  PROVE  Quiet(CheckForUnicodeReplacementCharacters(text))
<1> DEFINE B == {n \in DOMAIN text : Occurs(text[n].text, "\\ufffd")}
           bad == Ascending(B)
           line == [n \in DOMAIN text |-> n]
<1>1. B \in SUBSET DOMAIN text
  OBVIOUS
<1>2. B \in SUBSET Nat /\ IsFiniteSet(B)
  BY <1>1, FS_Subset
<1>3. bad \in Seq(B)
  <2> HIDE DEF B
  <2> QED
    BY <1>2, AscendingLists
<1>4. \A i \in DOMAIN bad : bad[i] \in DOMAIN text
  <2> HIDE DEF B, bad
  <2> QED
    BY <1>1, <1>3
<1>5. CheckForUnicodeReplacementCharacters(text)
        = [i \in DOMAIN bad |-> Err(line[bad[i]], <<"readability", "utf8">>, 5)]
  BY <1>4 DEF CheckForUnicodeReplacementCharacters
<1>6. <<"readability", "utf8">> \notin Tracked
  BY Untracked
<1> HIDE DEF B, bad, line
<1> DEFINE events == CheckForUnicodeReplacementCharacters(text)
<1> HIDE DEF events
<1>7. events = [i \in DOMAIN bad |-> Err(line[bad[i]], <<"readability", "utf8">>, 5)]
  BY <1>5 DEF events
<1>8. Quiet(events)
  BY <1>3, <1>6, <1>7, ErrSeq
<1> QED
  BY <1>8 DEF events

Headers == {"string", "algorithm", "vector", "map", "list"}

(* the headers a line needs are of the tables of cpplint,                   *)
LEMMA NeededHeaders ==
  ASSUME NEW text, NEW n
  PROVE  NeededBy(text, n) \subseteq Headers
<1>1. \A x \in DOMAIN TemplateHeaders : TemplateHeaders[x] \in Headers
  BY DEF TemplateHeaders, Headers
<1>2. {"string", "algorithm"} \subseteq Headers
  BY DEF Headers
<1> QED
  BY <1>1, <1>2 DEF NeededBy

(* which are finite,                                                        *)
LEMMA HeadersFinite == IsFiniteSet(Headers)
<1>1. IsFiniteSet({"string"})
  BY FS_Singleton
<1>2. IsFiniteSet({"string"} \cup {"algorithm"})
  BY <1>1, FS_AddElement
<1>3. IsFiniteSet({"string"} \cup {"algorithm"} \cup {"vector"})
  BY <1>2, FS_AddElement
<1>4. IsFiniteSet({"string"} \cup {"algorithm"} \cup {"vector"} \cup {"map"})
  BY <1>3, FS_AddElement
<1>5. IsFiniteSet({"string"} \cup {"algorithm"} \cup {"vector"} \cup {"map"} \cup {"list"})
  BY <1>4, FS_AddElement
<1>6. Headers = {"string"} \cup {"algorithm"} \cup {"vector"} \cup {"map"} \cup {"list"}
  BY DEF Headers
<1> QED
  BY <1>5, <1>6

(* and CheckForIncludeWhatYouUse is quiet.                                  *)
LEMMA QuietNeededHeaders ==
  ASSUME NEW all, NEW name, NEW text, NEW included
  PROVE  Quiet(CheckForIncludeWhatYouUse(all, name, text, included))
<1> DEFINE needed == UNION {NeededBy(text, n) : n \in DOMAIN text}
           own == UNION {OpenedFor(all, name, h) :
                           h \in {i \in included : FilesBelongToSameModule(name, i)}}
           known == included \cup UNION {UpdateIncludeState(all[f].lines) : f \in own}
           missing == SetToSeq(needed \ known)
           line == [h \in needed |-> Max({n \in DOMAIN text : h \in NeededBy(text, n)})]
           events == [i \in DOMAIN missing |->
                        Err(line[missing[i]], <<"build", "include", "what", "you", "use">>, 4)]
<1>1. needed \ known \in SUBSET Headers
  BY NeededHeaders
<1>2. IsFiniteSet(needed \ known)
  <2> HIDE DEF needed, known
  <2> QED
    BY <1>1, HeadersFinite, FS_Subset
<1>3. missing \in Seq(needed \ known)
  <2> HIDE DEF needed, known
  <2> QED
    BY <1>2, SeqOfSet
<1>4. \A i \in DOMAIN missing : missing[i] \in needed
  <2> HIDE DEF needed, known, missing
  <2> QED
    BY <1>3
<1>5. CheckForIncludeWhatYouUse(all, name, text, included)
        \in {<<>>, events}
  BY <1>4 DEF CheckForIncludeWhatYouUse
<1>6. <<"build", "include", "what", "you", "use">> \notin Tracked
  BY Untracked
<1>7. Quiet(events)
  <2> HIDE DEF needed, known, missing, line, events
  <2>1. events = [i \in DOMAIN missing |->
                        Err(line[missing[i]], <<"build", "include", "what", "you", "use">>, 4)]
    BY DEF events
  <2> QED
    BY <1>3, <1>6, <2>1, ErrSeq
<1> HIDE DEF events
<1> QED
  BY <1>5, <1>7, QuietEmpty

-------------------------------------------------------------------------------
(* The lines of a file as the checks see them.                             *)
TextOf(own) == CleansedLines(RemoveMultiLineComments(Append(own, Marker)))

(* A line of a file, or one that cpplint makes itself.                     *)
IsLine(line) ==
  /\ IsSeq(line.text)
  /\ IsFiniteSet(line.own)
  /\ \A e \in line.own : e.category \notin Tracked

(* The lines of a file, the marker after them and a blanked line are lines. *)
LEMMA AllAreLines ==
  ASSUME NEW line \in FileLines \cup {Marker, Dummy}
  PROVE  IsLine(line)
<1>1. CASE line \in FileLines
  <2>1. line.text \in Seq(STRING) /\ IsFiniteSet(line.own)
        /\ \A e \in line.own : e.category \in OneLineCategories
    BY <1>1 DEF FileLines
  <2>2. OneLineCategories \cap Tracked = {}
    BY DEF OneLineCategories, Tracked, Order, FnSize
  <2> QED
    BY <2>1, <2>2 DEF IsLine, IsSeq
<1>2. ASSUME NEW a, NEW b
      PROVE  IsLine(Line(0, <<a, b>>))
  <2>1. <<a, b>> \in Seq({a, b})
    OBVIOUS
  <2> QED
    BY <2>1, FS_EmptySet DEF IsLine, Line, IsSeq
<1> QED
  BY <1>1, <1>2 DEF Marker, Dummy

(* The cleansed lines of a file are its lines and the marker, each with the *)
(* errors of its own characters.                                            *)
LEMMA TextFacts ==
  ASSUME NEW own \in Seq(FileLines)
  PROVE  LET text == TextOf(own)
         IN /\ Len(text) \in Nat \ {0} /\ DOMAIN text = 1 .. Len(text)
            /\ text # <<>>
            /\ \A n \in DOMAIN text : IsLine(text[n])
<1> DEFINE raw == Append(own, Marker)
           blanked == RemoveMultiLineComments(raw)
           text == TextOf(own)
           N == Len(own) + 1
           both == FileLines \cup {Marker, Dummy}
<1>1. raw \in Seq(both) /\ Len(raw) = N /\ N \in Nat \ {0}
  <2>1. own \in Seq(both)
    BY SeqMonotonic
  <2> QED
    BY <2>1
<1>2. DOMAIN blanked = 1 .. N /\ \A n \in 1 .. N : blanked[n] \in both
  <2>1. \A n \in DOMAIN raw : raw[n] \in both
    BY <1>1
  <2>2. DOMAIN raw = 1 .. N
    BY <1>1
  <2> QED
    BY <2>1, <2>2 DEF RemoveMultiLineComments
<1>3. DOMAIN text = 1 .. N /\ \A n \in 1 .. N : /\ text[n].own = blanked[n].own
                                              /\ text[n].text = blanked[n].text
  <2> HIDE DEF blanked
  <2>1. text = CleansedLines(blanked)
    BY DEF TextOf, blanked
  <2> QED
    BY <1>2, <2>1 DEF CleansedLines
<1>4. Len(text) = N /\ text # <<>>
  BY <1>1, <1>3 DEF TextOf, CleansedLines
<1>5. \A n \in 1 .. N : IsLine(blanked[n])
  BY <1>2, AllAreLines
<1> HIDE DEF blanked, text
<1>6. \A n \in 1 .. N : IsLine(text[n])
  BY <1>3, <1>5 DEF IsLine
<1> QED
  BY <1>1, <1>3, <1>4, <1>6 DEF text

-------------------------------------------------------------------------------
(* The includes.  Above line n, the section is the highest rank of a first *)
(* inclusion, 0 if there is none.                                          *)
IncludesAbove(text, n) ==
  {IncludedBy(Cleansed(text, m)) :
     m \in {k \in DOMAIN text : k < n /\ IsInclude(Elided(text, k))}}

SectionInv(name, text, n, state) ==
  /\ DOMAIN state = {"included", "section", "last_header"}
  /\ state.included = IncludesAbove(text, n)
  /\ state.section \in 0 .. 4
  /\ \A m \in FirstIncludes(text) :
       m < n => IncludeRank(name, text, m) <= state.section
  /\ state.section # 0 =>
       \E m \in FirstIncludes(text) :
         m < n /\ IncludeRank(name, text, m) = state.section

OwnKinds == {"LIKELY_MY", "POSSIBLE_MY"}

(* The rank of an include is its place in the order: 1 to 4.                *)
LEMMA RankType ==
  ASSUME NEW name, NEW text, NEW n
  PROVE  IncludeRank(name, text, n) \in 1 .. 4
BY DEF IncludeRank

(* All above are headers of the file itself exactly if none ranks higher.  *)
LEMMA OwnRanks ==
  ASSUME NEW name, NEW text, DOMAIN text \in SUBSET Nat, NEW n \in Nat
  PROVE  (\A m \in FirstIncludes(text) : m < n => IncludeKind(name, text, m) \in OwnKinds)
           <=> (\A m \in FirstIncludes(text) : m < n => IncludeRank(name, text, m) <= 1)
<1>1. FirstIncludes(text) \in SUBSET Nat
  BY DEF FirstIncludes
<1>2. ASSUME \A m \in FirstIncludes(text) : m < n => IncludeKind(name, text, m) \in OwnKinds,
             NEW m \in FirstIncludes(text), m < n
      PROVE  IncludeRank(name, text, m) <= 1
  <2>1. \A k \in FirstIncludes(text) : k < m => IncludeKind(name, text, k) \in OwnKinds
    BY <1>1, <1>2
  <2>2. IncludeRank(name, text, m) = 1
    BY <1>2, <2>1 DEF IncludeRank, OwnKinds
  <2> QED
    BY <2>2
<1>3. ASSUME NEW m \in FirstIncludes(text), IncludeRank(name, text, m) <= 1
      PROVE  IncludeKind(name, text, m) \in OwnKinds
  BY <1>3 DEF IncludeRank, OwnKinds
<1> QED
  BY <1>2, <1>3

(* An include of a header that was included above is not a first one.       *)
LEMMA AgainIsNotFirst ==
  ASSUME NEW text, DOMAIN text \in SUBSET Nat, NEW n \in DOMAIN text,
         IsInclude(Elided(text, n))
  PROVE  IncludedBy(Cleansed(text, n)) \in IncludesAbove(text, n)
           <=> n \notin FirstIncludes(text)
BY DEF IncludesAbove, FirstIncludes

(* CheckIncludeLine reports the order of a line exactly if it is misplaced, *)
(* and the section it leaves is again the one of the first includes down to *)
(* the line (CheckNextIncludeOrder, cpplint.py:437-486).                    *)
LEMMA IncludeStep ==
  ASSUME NEW name, NEW text, DOMAIN text \in SUBSET Nat, NEW n \in DOMAIN text, NEW state,
         SectionInv(name, text, n, state), IsInclude(Elided(text, n))
  PROVE  LET after == CheckIncludeLine(name, text, n, state)
         IN /\ SectionInv(name, text, n + 1, after.state)
            /\ IsSeq(after.errors)
            /\ ErrorLines(after.errors, Order) =
                 IF n \in MisplacedIncludes(name, text) THEN {n} ELSE {}
            /\ ErrorLines(after.errors, FnSize) = {}
<1> DEFINE line == Cleansed(text, n)
           include == IncludedBy(line)
           again == include \in state.included
           type == ClassifyInclude(name, include, line[2] = "<")
           first == FirstIncludes(text)
           rank(m) == IncludeRank(name, text, m)
           out == OutOfOrder(state, type)
           moved == CheckNextIncludeOrder(state, type)
           after == CheckIncludeLine(name, text, n, state)
<1>1. n \in Nat /\ first \in SUBSET Nat
  BY DEF FirstIncludes
<1>2. again <=> n \notin first
  BY AgainIsNotFirst DEF SectionInv
<1>3. type = IncludeKind(name, text, n)
  BY DEF IncludeKind
<1>4. ~out => ~(type \in {"C_SYS", "CPP_SYS"} /\ state.section > rank(n))
  BY <1>3 DEF OutOfOrder, IncludeRank, LastSectionOf, C_SECTION, CPP_SECTION
<1>5. out => type \in {"C_SYS", "CPP_SYS"} /\ state.section > rank(n)
  BY <1>3 DEF OutOfOrder, IncludeRank, LastSectionOf, C_SECTION, CPP_SECTION
<1>6. (type \in {"C_SYS", "CPP_SYS"} /\ state.section > rank(n)) =>
         \E m \in first : m < n /\ rank(m) > rank(n)
  <2>1. ASSUME state.section > rank(n)
        PROVE  \E m \in first : m < n /\ rank(m) > rank(n)
    <3>1. state.section # 0
      BY <2>1, RankType DEF SectionInv
    <3> QED
      BY <2>1, <3>1 DEF SectionInv
  <2> QED
    BY <2>1
<1>7. ASSUME NEW m \in first, m < n, rank(m) > rank(n)
      PROVE  state.section > rank(n)
  <2>1. rank(m) <= state.section
    BY <1>7 DEF SectionInv
  <2> QED
    BY <1>7, <2>1, RankType DEF SectionInv
<1>8. n \in MisplacedIncludes(name, text) <=> ~again /\ out
  BY <1>2, <1>3, <1>4, <1>5, <1>6, <1>7 DEF MisplacedIncludes
<1>9. after.errors =
        ErrIf(line[2] = "\"" /\ Path[include].dir = <<>> /\ Path[include].ext = "h",
              n, <<"build", "include">>, 4)
        \o ErrIf(again, n, <<"build", "include">>, 4)
        \o ErrIf(~again /\ out, n, Order, 4)
        \o ErrIf(~again /\ ~IsInAlphabeticalOrder(moved, include), n,
                 <<"build", "include", "alpha">>, 4)
        \o ErrIf(include \in StreamHeaders /\ ~IsTestFilename(name), n,
                 <<"readability", "streams">>, 3)
  BY DEF CheckIncludeLine, Order
<1>10. /\ IsSeq(after.errors)
       /\ \A c \in Tracked : ErrorLines(after.errors, c) =
            IF (~again /\ out) /\ Order = c THEN {n} ELSE {}
  <2> DEFINE a == ErrIf(line[2] = "\"" /\ Path[include].dir = <<>> /\ Path[include].ext = "h",
                        n, <<"build", "include">>, 4)
             b == ErrIf(again, n, <<"build", "include">>, 4)
             d == ErrIf(~again /\ out, n, Order, 4)
             e == ErrIf(~again /\ ~IsInAlphabeticalOrder(moved, include), n,
                        <<"build", "include", "alpha">>, 4)
             f == ErrIf(include \in StreamHeaders /\ ~IsTestFilename(name), n,
                        <<"readability", "streams">>, 3)
  <2>1. Quiet(a) /\ Quiet(b) /\ Quiet(e) /\ Quiet(f)
    BY QuietErrIf, Untracked
  <2>2. IsSeq(d) /\ \A c : ErrorLines(d, c) = IF (~again /\ out) /\ Order = c THEN {n} ELSE {}
    <3> HIDE DEF again, out
    <3> QED
      BY ErrIfEvents
  <2> HIDE DEF a, b, d, e, f
  <2>3. Quiet(a \o b)
    BY <2>1, QuietConcat
  <2>4. IsSeq((a \o b) \o d) /\ \A c \in Tracked : ErrorLines((a \o b) \o d, c) = ErrorLines(d, c)
    BY <2>2, <2>3, QuietAround
  <2>5. IsSeq(((a \o b) \o d) \o e)
        /\ \A c \in Tracked : ErrorLines(((a \o b) \o d) \o e, c) = ErrorLines(d, c)
    BY <2>1, <2>4, QuietAround
  <2>6. IsSeq((((a \o b) \o d) \o e) \o f)
        /\ \A c \in Tracked : ErrorLines((((a \o b) \o d) \o e) \o f, c) = ErrorLines(d, c)
    BY <2>1, <2>5, QuietAround
  <2> HIDE DEF out, again, after
  <2>7. after.errors = (((a \o b) \o d) \o e) \o f
    BY <1>9 DEF a, b, d, e, f
  <2> QED
    BY <2>2, <2>6, <2>7
<1>11. ErrorLines(after.errors, Order) =
         IF n \in MisplacedIncludes(name, text) THEN {n} ELSE {}
  <2> HIDE DEF out, again, after
  <2> QED
    BY <1>8, <1>10 DEF Tracked
<1>12. ErrorLines(after.errors, FnSize) = {}
  <2>1. FnSize # Order
    BY DEF FnSize, Order
  <2> HIDE DEF out, again, after
  <2> QED
    BY <1>10, <2>1 DEF Tracked
<1>13. IncludesAbove(text, n + 1) = IncludesAbove(text, n) \cup {include}
  <2>1. \A k \in DOMAIN text : k < n + 1 <=> k < n \/ k = n
    BY <1>1
  <2> QED
    BY <2>1 DEF IncludesAbove
<1>14. CASE again
  <2>1. after.state = state
    BY <1>14 DEF CheckIncludeLine
  <2>2. \A m \in first : m < n + 1 <=> m < n
    BY <1>1, <1>2, <1>14
  <2>3. IncludesAbove(text, n + 1) = IncludesAbove(text, n)
    BY <1>13, <1>14 DEF SectionInv
  <2>4. SectionInv(name, text, n + 1, after.state)
    BY <2>1, <2>2, <2>3 DEF SectionInv
  <2> QED
    BY <1>10, <1>11, <1>12, <2>4
<1>15. CASE ~again
  <2>1. /\ DOMAIN after.state = {"included", "section", "last_header"}
        /\ after.state.included = state.included \cup {include}
        /\ after.state.section = moved.section
    BY <1>15 DEF CheckIncludeLine, CheckNextIncludeOrder, SectionInv
  <2>2. moved.section = IF state.section <= rank(n) THEN rank(n) ELSE state.section
    <3>1. moved.section = CASE out -> state.section
                            [] state.section <= LastSectionOf(type) -> LastSectionOf(type)
                            [] OTHER -> OTHER_H_SECTION
      BY DEF CheckNextIncludeOrder, SectionInv
    <3>2. CASE type \in {"C_SYS", "CPP_SYS"}
      <4>1. LastSectionOf(type) = rank(n) /\ (out <=> state.section > rank(n))
        BY <1>3, <3>2 DEF IncludeRank, LastSectionOf, C_SECTION, CPP_SECTION, OutOfOrder
      <4> QED
        BY <3>1, <4>1, RankType DEF SectionInv
    <3>3. CASE type \in OwnKinds
      <4>1. ~out /\ LastSectionOf(type) = 1
        BY <3>3 DEF OwnKinds, OutOfOrder, LastSectionOf, MY_H_SECTION
      <4>2. rank(n) = IF \A m \in first : m < n => IncludeKind(name, text, m) \in OwnKinds
                      THEN 1 ELSE 4
        BY <1>3, <3>3 DEF IncludeRank, OwnKinds
      <4>3. state.section <= 1 <=> \A m \in first : m < n => rank(m) <= 1
        BY RankType DEF SectionInv
      <4>4. rank(n) = IF state.section <= 1 THEN 1 ELSE 4
        BY <1>1, <4>2, <4>3, OwnRanks
      <4> HIDE DEF out, rank, moved
      <4> QED
        BY <3>1, <4>1, <4>4 DEF SectionInv, OTHER_H_SECTION
    <3>4. CASE type \notin {"C_SYS", "CPP_SYS"} \cup OwnKinds
      <4>1. ~out /\ LastSectionOf(type) = 4 /\ rank(n) = 4
        BY <1>3, <3>4 DEF OwnKinds, OutOfOrder, LastSectionOf, OTHER_H_SECTION, IncludeRank
      <4> HIDE DEF out, rank, moved
      <4> QED
        BY <3>1, <4>1 DEF SectionInv
    <3> QED
      BY <3>2, <3>3, <3>4
  <2>3. n \in first /\ \A m \in first : m < n + 1 <=> m < n \/ m = n
    BY <1>1, <1>2, <1>15
  <2>4. moved.section \in 0 .. 4
    BY <2>2, RankType DEF SectionInv
  <2>5. \A m \in first : m < n + 1 => rank(m) <= moved.section
    <3> HIDE DEF rank, moved, first
    <3>1. \A m \in first : rank(m) \in 1 .. 4
      BY RankType DEF rank
    <3> QED
      BY <2>2, <2>3, <3>1 DEF SectionInv, first, rank
  <2>6. \E m \in first : m < n + 1 /\ rank(m) = moved.section
    <3>1. CASE state.section <= rank(n)
      BY <2>2, <2>3, <3>1
    <3>2. CASE ~(state.section <= rank(n))
      <4>1. state.section # 0
        BY <3>2, RankType
      <4> QED
        BY <2>2, <2>3, <3>2, <4>1 DEF SectionInv
    <3> QED
      BY <3>1, <3>2
  <2>7. SectionInv(name, text, n + 1, after.state)
    <3> HIDE DEF moved, after
    <3>1. after.state.included = IncludesAbove(text, n + 1)
      BY <1>13, <2>1 DEF SectionInv
    <3> QED
      BY <2>1, <2>4, <2>5, <2>6, <3>1 DEF SectionInv
  <2> QED
    BY <1>10, <1>11, <1>12, <2>7
<1> QED
  BY <1>14, <1>15

-------------------------------------------------------------------------------
(* What the check of function lengths reports, and the other checks of a   *)
(* line do not.                                                            *)
IsTooLong(state, verbose_level) ==
  state.lines_in_function >
    (IF state.is_test THEN TEST_TRIGGER ELSE NORMAL_TRIGGER) * 2 ^ verbose_level

(* CheckForFunctionLengths reports its own line, and only of a function     *)
(* size.                                                                    *)
LEMMA FunctionEvents ==
  ASSUME NEW text, NEW n \in DOMAIN text, NEW state, NEW verbose_level
  PROVE  LET errors == CheckForFunctionLengths(text, n, state, verbose_level).errors
         IN /\ IsSeq(errors)
            /\ ErrorLines(errors, Order) = {}
            /\ ErrorLines(errors, FnSize) =
                 IF \/ StartsFunction(text, n) /\ BodyLines(text, n) = {}
                    \/ n \in EndingLines(text) /\ IsTooLong(state, verbose_level)
                 THEN {n} ELSE {}
<1> DEFINE errors == CheckForFunctionLengths(text, n, state, verbose_level).errors
           nobody == StartsFunction(text, n) /\ BodyLines(text, n) = {}
           ends == n \in EndingLines(text)
           long == IsTooLong(state, verbose_level)
           a == ErrIf(nobody, n, FnSize, 5)
           check == Check(state, n, verbose_level)
           b == IF ends THEN check ELSE <<>>
<1>1. errors = a \o b
  BY DEF CheckForFunctionLengths, EndingLines, FnSize
<1>2. FnSize # Order
  BY DEF FnSize, Order
<1>3. IsSeq(a) /\ ErrorLines(a, Order) = {}
      /\ ErrorLines(a, FnSize) = IF nobody THEN {n} ELSE {}
  <2> HIDE DEF nobody
  <2> QED
    BY <1>2, ErrIfEvents
<1>4. IsSeq(check) /\ ErrorLines(check, Order) = {}
      /\ ErrorLines(check, FnSize) = IF long THEN {n} ELSE {}
  <2>1. PICK level : check = ErrIf(long, n, FnSize, level)
    BY DEF Check, FnSize, IsTooLong
  <2> HIDE DEF check, long
  <2> QED
    BY <1>2, <2>1, ErrIfEvents
<1>5. IsSeq(b) /\ ErrorLines(b, Order) = {}
      /\ ErrorLines(b, FnSize) = IF ends /\ long THEN {n} ELSE {}
  <2> HIDE DEF check, long, ends
  <2> QED
    BY <1>4, EmptyEvents
<1> HIDE DEF errors, a, b, nobody, ends, long
<1>6. IsSeq(errors) /\ ErrorLines(errors, Order) = {}
      /\ ErrorLines(errors, FnSize) = IF nobody \/ (ends /\ long) THEN {n} ELSE {}
  <2>1. \A c : ErrorLines(errors, c) = ErrorLines(a, c) \cup ErrorLines(b, c)
    BY <1>1, <1>3, <1>5, ConcatErrorLines
  <2>2. IsSeq(errors)
    BY <1>1, <1>3, <1>5, ConcatFacts
  <2> QED
    BY <1>3, <1>5, <2>1, <2>2
<1> QED
  BY <1>6 DEF errors, nobody, ends, long

(* Of a line, ProcessLine reports in the tracked categories what its        *)
(* include and its function say.                                            *)
LEMMA LineEventsFacts ==
  ASSUME NEW n \in DOMAIN lines, DOMAIN lines \in SUBSET Nat, IsLine(lines[n]),
         SectionInv(filename, lines, n, include_state)
  PROVE  /\ IsSeq(LineEvents(n))
         /\ ErrorLines(LineEvents(n), Order) =
              IF n \in MisplacedIncludes(filename, lines) THEN {n} ELSE {}
         /\ ErrorLines(LineEvents(n), FnSize) = ErrorLines(FunctionsAt(n).errors, FnSize)
         /\ SectionInv(filename, lines, n + 1, IncludesAt(n).state)
<1> DEFINE a == <<Nolint(n, lines[n].nolint)>>
           f == FunctionsAt(n).errors
           m == CheckForMultilineCommentsAndStrings(lines, n)
           s == CheckStyle(n)
           i == IncludesAt(n).errors
           o == OwnErrors(lines, n, LateCategories)
           c == ClassesAt(n).errors
<1>1. Quiet(a) /\ Quiet(m) /\ Quiet(o) /\ Quiet(c)
  BY QuietNolint, QuietCommentsAndStrings, QuietOwnErrors, QuietClasses DEF IsLine, ClassesAt
<1>2. Quiet(s)
  <2>1. Quiet(OwnErrors(lines, n, EarlyCategories)) /\ Quiet(CheckBraces(lines, n))
    BY QuietOwnErrors, QuietBraces DEF IsLine
  <2> QED
    BY <2>1, QuietOneCommand, QuietBlankLine, QuietSectionSpacing, QuietEmpty,
       QuietConcat DEF CheckStyle
<1>3. IsSeq(f) /\ ErrorLines(f, Order) = {}
  BY FunctionEvents DEF FunctionsAt
<1>4. /\ IsSeq(i) /\ ErrorLines(i, FnSize) = {}
      /\ ErrorLines(i, Order) = IF n \in MisplacedIncludes(filename, lines) THEN {n} ELSE {}
      /\ SectionInv(filename, lines, n + 1, IncludesAt(n).state)
  <2>1. CASE IsInclude(Elided(lines, n))
    <3>1. IncludesAt(n) = CheckIncludeLine(filename, lines, n, include_state)
      BY <2>1 DEF IncludesAt
    <3> QED
      BY <2>1, <3>1, IncludeStep
  <2>2. CASE ~IsInclude(Elided(lines, n))
    <3>1. i = <<>> /\ IncludesAt(n).state = include_state
      BY <2>2 DEF IncludesAt
    <3>2. n \notin FirstIncludes(lines)
      BY <2>2 DEF FirstIncludes
    <3>3. n \notin MisplacedIncludes(filename, lines)
      BY <3>2 DEF MisplacedIncludes
    <3>4. \A k \in DOMAIN lines : IsInclude(Elided(lines, k)) => (k < n + 1 <=> k < n)
      BY <2>2
    <3>5. IncludesAbove(lines, n + 1) = IncludesAbove(lines, n)
      BY <3>4 DEF IncludesAbove
    <3>6. \A k \in FirstIncludes(lines) : k < n + 1 <=> k < n
      BY <3>4 DEF FirstIncludes
    <3>7. SectionInv(filename, lines, n + 1, include_state)
      BY <3>5, <3>6 DEF SectionInv
    <3> QED
      BY <3>1, <3>3, <3>7, EmptyEvents
  <2> QED
    BY <2>1, <2>2
<1>5. LineEvents(n) = (((((a \o f) \o m) \o s) \o i) \o o) \o c
  BY DEF LineEvents
<1> HIDE DEF a, f, m, s, i, o, c
<1>6. IsSeq(a \o f) /\ \A k \in Tracked : ErrorLines(a \o f, k) = ErrorLines(f, k)
  BY <1>1, <1>3, QuietAround
<1>7. IsSeq((a \o f) \o m) /\ \A k \in Tracked : ErrorLines((a \o f) \o m, k) = ErrorLines(f, k)
  BY <1>1, <1>6, QuietAround
<1>8. /\ IsSeq(((a \o f) \o m) \o s)
      /\ \A k \in Tracked : ErrorLines(((a \o f) \o m) \o s, k) = ErrorLines(f, k)
  BY <1>2, <1>7, QuietAround
<1> DEFINE head == ((a \o f) \o m) \o s
<1> HIDE DEF head
<1>9. /\ IsSeq(head \o i)
      /\ \A k \in Tracked : ErrorLines(head \o i, k) = ErrorLines(f, k) \cup ErrorLines(i, k)
  BY <1>4, <1>8, ConcatFacts, ConcatErrorLines DEF head
<1>10. /\ IsSeq((head \o i) \o o)
       /\ \A k \in Tracked : ErrorLines((head \o i) \o o, k) = ErrorLines(f, k) \cup ErrorLines(i, k)
  BY <1>1, <1>9, QuietAround
<1>11. /\ IsSeq(((head \o i) \o o) \o c)
       /\ \A k \in Tracked : ErrorLines(((head \o i) \o o) \o c, k)
                             = ErrorLines(f, k) \cup ErrorLines(i, k)
  BY <1>1, <1>10, QuietAround
<1>12. LineEvents(n) = ((head \o i) \o o) \o c
  BY <1>5 DEF head
<1>13. Order \in Tracked /\ FnSize \in Tracked
  BY DEF Tracked
<1> QED
  BY <1>3, <1>4, <1>11, <1>12, <1>13 DEF f

(* The lines that end the function that begins at line b, above line n.    *)
EndsBetween(text, b, n) == {k \in EndingLines(text) : b < k /\ k < n}

TestLines(text) == {b \in DOMAIN text : IsTest(Cleansed(text, b))}

(* The size of that function as far as line n.                             *)
SizeAbove(text, b, n) ==
  LET ends == EndsBetween(text, b, n)
  IN Cardinality(CodeLines(text, b + 1, (IF ends = {} THEN n ELSE Min(ends)) - 1))

FunctionStates == [in_a_function : BOOLEAN, lines_in_function : Nat, is_test : BOOLEAN]

FunctionAt(text, b, n, state) ==
  /\ state \in FunctionStates
  /\ b = 0 => state.in_a_function = FALSE /\ state.lines_in_function = 0
  /\ b # 0 => /\ state.in_a_function = TRUE <=> EndsBetween(text, b, n) = {}
              /\ state.lines_in_function = SizeAbove(text, b, n)
              /\ state.is_test = TRUE <=> b \in TestLines(text)

FunctionInv(text, n, state) == FunctionAt(text, FunctionAbove(text, n), n, state)

(* The fields of _FunctionState.                                            *)
LEMMA FunctionStateFacts ==
  ASSUME NEW state \in FunctionStates
  PROVE  /\ End(state) \in FunctionStates
         /\ End(state).in_a_function = FALSE
         /\ End(state).lines_in_function = state.lines_in_function
         /\ End(state).is_test = state.is_test
         /\ CountLine(state) \in FunctionStates
         /\ CountLine(state).in_a_function = state.in_a_function
         /\ CountLine(state).lines_in_function =
              IF state.in_a_function THEN state.lines_in_function + 1
              ELSE state.lines_in_function
         /\ CountLine(state).is_test = state.is_test
         /\ FunctionState \in FunctionStates
         /\ FunctionState.in_a_function = FALSE
         /\ FunctionState.lines_in_function = 0
<1>1. /\ state.in_a_function \in BOOLEAN /\ state.lines_in_function \in Nat
      /\ state.is_test \in BOOLEAN
  BY DEF FunctionStates
<1>2. End(state) = [in_a_function |-> FALSE, lines_in_function |-> state.lines_in_function,
                    is_test |-> state.is_test]
  <2> DEFINE no == FALSE
  <2>1. End(state) = [state EXCEPT !.in_a_function = no]
    BY DEF End
  <2> HIDE DEF no
  <2>2. End(state) = [in_a_function |-> no, lines_in_function |-> state.lines_in_function,
                      is_test |-> state.is_test]
    BY <2>1 DEF FunctionStates
  <2> QED
    BY <2>2 DEF no
<1>3. CountLine(state) =
        [in_a_function |-> state.in_a_function,
         lines_in_function |-> IF state.in_a_function THEN state.lines_in_function + 1
                               ELSE state.lines_in_function,
         is_test |-> state.is_test]
  BY DEF CountLine, FunctionStates
<1>4. (IF state.in_a_function THEN state.lines_in_function + 1
       ELSE state.lines_in_function) \in Nat
  BY <1>1
<1>5. /\ End(state) \in FunctionStates
      /\ End(state).in_a_function = FALSE
      /\ End(state).lines_in_function = state.lines_in_function
      /\ End(state).is_test = state.is_test
  BY <1>1, <1>2 DEF FunctionStates
<1>6. /\ CountLine(state) \in FunctionStates
      /\ CountLine(state).in_a_function = state.in_a_function
      /\ CountLine(state).lines_in_function =
           IF state.in_a_function THEN state.lines_in_function + 1
           ELSE state.lines_in_function
      /\ CountLine(state).is_test = state.is_test
  BY <1>1, <1>3, <1>4 DEF FunctionStates
<1>8. /\ FunctionState \in FunctionStates
      /\ FunctionState.in_a_function = FALSE
      /\ FunctionState.lines_in_function = 0
  BY DEF FunctionStates, FunctionState
<1> QED
  BY <1>5, <1>6, <1>8

(* Begin and Count, field by field (cpplint.py:625-638).                    *)
LEMMA BeginFacts ==
  ASSUME NEW test \in BOOLEAN
  PROVE  /\ Begin(test) \in FunctionStates
         /\ Begin(test).in_a_function = TRUE
         /\ Begin(test).lines_in_function = 0
         /\ Begin(test).is_test = test
BY DEF FunctionStates, Begin

(* The lines that open a function are lines of the file,                    *)
LEMMA OpeningLinesAreLines ==
  ASSUME NEW text
  PROVE  OpeningLines(text) \subseteq DOMAIN text
<1>1. \A n \in OpeningLines(text) : n \in DOMAIN text
  BY Zenon DEF OpeningLines
<1> QED
  BY <1>1

(* those that end one too,                                                  *)
LEMMA EndingLinesAreLines ==
  ASSUME NEW text
  PROVE  EndingLines(text) \subseteq DOMAIN text
<1>1. \A n \in EndingLines(text) : n \in DOMAIN text
  BY Zenon DEF EndingLines
<1> QED
  BY <1>1

(* and the last function above a line is above it, if there is one, and     *)
(* none is later.                                                           *)
LEMMA AboveFacts ==
  ASSUME NEW text, NEW N \in Nat, DOMAIN text = 1 .. N, NEW n \in 1 .. N + 1
  PROVE  /\ FunctionAbove(text, n) \in 0 .. n - 1
         /\ FunctionAbove(text, n) # 0 => FunctionAbove(text, n) \in OpeningLines(text)
         /\ \A m \in OpeningLines(text) : m < n => m <= FunctionAbove(text, n)
<1> DEFINE S == {m \in OpeningLines(text) : m < n} \cup {0}
<1>1. S \in SUBSET (0 .. n - 1) /\ S # {} /\ n - 1 \in Nat
  BY OpeningLinesAreLines
<1>2. Max(S) \in S /\ \A y \in S : Max(S) >= y
  <2> HIDE DEF S
  <2> QED
    BY <1>1, Largest
<1>3. FunctionAbove(text, n) = Max(S)
  BY DEF FunctionAbove
<1>4. \A m \in OpeningLines(text) : m < n => m \in S
  OBVIOUS
<1>5. Max(S) # 0 => Max(S) \in OpeningLines(text)
  BY <1>2
<1> HIDE DEF S
<1>6. \A m \in OpeningLines(text) : m < n => m <= Max(S)
  <2>1. \A m \in OpeningLines(text) : m \in Nat
    BY OpeningLinesAreLines
  <2>3. Max(S) \in 0 .. n - 1
    BY <1>1, <1>2
  <2>2. Max(S) \in Nat
    BY <2>3
  <2> QED
    BY <1>2, <1>4, <2>1, <2>2
<1> QED
  BY <1>1, <1>2, <1>3, <1>5, <1>6

(* The function above a line changes only at a line that opens one.        *)
LEMMA AboveNext ==
  ASSUME NEW text, NEW N \in Nat, DOMAIN text = 1 .. N, NEW n \in 1 .. N
  PROVE  FunctionAbove(text, n + 1) =
           IF n \in OpeningLines(text) THEN n ELSE FunctionAbove(text, n)
<1> DEFINE a == FunctionAbove(text, n)
           b == FunctionAbove(text, n + 1)
<1>1. n \in 1 .. N + 1 /\ n + 1 \in 1 .. N + 1
  OBVIOUS
<1>2. /\ a \in 0 .. n - 1
      /\ a # 0 => a \in OpeningLines(text)
      /\ \A m \in OpeningLines(text) : m < n => m <= a
  BY <1>1, AboveFacts
<1>3. /\ b \in 0 .. (n + 1) - 1
      /\ b # 0 => b \in OpeningLines(text)
      /\ \A m \in OpeningLines(text) : m < n + 1 => m <= b
  BY <1>1, AboveFacts
<1> HIDE DEF a, b
<1>4. OpeningLines(text) \in SUBSET Nat
  BY OpeningLinesAreLines
<1>5. CASE n \in OpeningLines(text)
  BY <1>3, <1>5 DEF a, b
<1>6. CASE n \notin OpeningLines(text)
  <2>1. b # 0 => b < n /\ b <= a
    BY <1>2, <1>3, <1>6
  <2>2. a # 0 => a <= b
    BY <1>2, <1>3
  <2>3. a = b
    BY <1>2, <1>3, <2>1, <2>2
  <2> QED
    BY <1>6, <2>3 DEF a, b
<1> QED
  BY <1>5, <1>6

(* A line that ends a function does not begin one.                          *)
LEMMA EndsAreNotStarts ==
  ASSUME NEW text, NEW n \in EndingLines(text)
  PROVE  ~StartsFunction(text, n)
<1>1. Head(<<"}">>) = "}" /\ "}" \in Symbols
  BY DEF Symbols
<1> QED
  BY <1>1 DEF EndingLines, StartsFunction, IsWord

(* The code lines of a range are finite, and one more line adds itself if   *)
(* it is code.                                                              *)
LEMMA CodeLinesFacts ==
  ASSUME NEW text, NEW a \in Nat, NEW n \in Nat
  PROVE  /\ IsFiniteSet(CodeLines(text, a, n))
         /\ Cardinality(CodeLines(text, a, n)) \in Nat
         /\ n < a => Cardinality(CodeLines(text, a, n)) = 0
         /\ a <= n + 1 => Cardinality(CodeLines(text, a, n + 1)) =
              Cardinality(CodeLines(text, a, n))
              + (IF Cleansed(text, n + 1) # <<>> /\ ~StartsFunction(text, n + 1) THEN 1 ELSE 0)
<1>1. ASSUME NEW m \in Nat
      PROVE  IsFiniteSet(CodeLines(text, a, m)) /\ Cardinality(CodeLines(text, a, m)) \in Nat
  <2>1. CodeLines(text, a, m) \in SUBSET (a .. m) /\ IsFiniteSet(a .. m)
    BY FS_Interval DEF CodeLines
  <2> QED
    BY <2>1, FS_Subset, FS_CardinalityType
<1>2. n < a => CodeLines(text, a, n) = {}
  BY DEF CodeLines
<1>3. ASSUME a <= n + 1
      PROVE  CodeLines(text, a, n + 1) = CodeLines(text, a, n) \cup
               (IF Cleansed(text, n + 1) # <<>> /\ ~StartsFunction(text, n + 1)
                THEN {n + 1} ELSE {})
  <2>1. a .. n + 1 = (a .. n) \cup {n + 1}
    BY <1>3
  <2> QED
    BY <2>1 DEF CodeLines
<1>4. n + 1 \notin CodeLines(text, a, n)
  BY DEF CodeLines
<1> DEFINE C == CodeLines(text, a, n)
           new == Cleansed(text, n + 1) # <<>> /\ ~StartsFunction(text, n + 1)
<1>5. IsFiniteSet(C) /\ Cardinality(C) \in Nat /\ n + 1 \notin C
  BY <1>1, <1>4
<1> HIDE DEF C, new
<1>6. Cardinality(C \cup {n + 1}) = Cardinality(C) + 1
  BY <1>5, FS_AddElement
<1>7. Cardinality(C \cup (IF new THEN {n + 1} ELSE {})) = Cardinality(C) + (IF new THEN 1 ELSE 0)
  BY <1>5, <1>6
<1>8. a <= n + 1 => Cardinality(CodeLines(text, a, n + 1)) = Cardinality(C) + (IF new THEN 1 ELSE 0)
  BY <1>3, <1>7 DEF C, new
<1>9. n < a => Cardinality(C) = 0
  BY <1>2, FS_EmptySet DEF C
<1> QED
  BY <1>5, <1>8, <1>9 DEF C, new

(* An exponent of 2 is a number.                                           *)
LEMMA PowersOfTwo ==
  ASSUME NEW v \in Nat
  PROVE  2 ^ v \in Nat
<1>1. IsFiniteSet(1 .. v) /\ Cardinality(1 .. v) = v
  BY FS_Interval
<1>2. IsFiniteSet(SUBSET (1 .. v)) /\ Cardinality(SUBSET (1 .. v)) = 2 ^ v
  BY <1>1, FS_SUBSET
<1> QED
  BY <1>2, FS_CardinalityType

(* At an end of a function, its size is the one that line sees.            *)
LEMMA SizeAtEnd ==
  ASSUME NEW text, NEW N \in Nat, DOMAIN text = 1 .. N, NEW n \in EndingLines(text),
         NEW b \in 1 .. n - 1
  PROVE  FunctionSize(text, b) = SizeAbove(text, b, n)
<1>1. n \in 1 .. N /\ EndingLines(text) \in SUBSET Nat
  BY EndingLinesAreLines
<1> DEFINE all == {k \in EndingLines(text) : k > b}
           ends == EndsBetween(text, b, n)
<1>2. all \in SUBSET Nat /\ n \in all /\ ends \in SUBSET all
      /\ \A k \in all : k < n => k \in ends
  BY <1>1 DEF EndsBetween
<1>3. Min(all) \in all /\ \A k \in all : Min(all) <= k
  <2> HIDE DEF all
  <2> QED
    BY <1>2, Smallest
<1>4. CASE ends = {}
  <2>1. Min(all) = n
    <3> HIDE DEF all
    <3>1. ~(Min(all) < n) /\ Min(all) <= n /\ Min(all) \in Nat
      BY <1>2, <1>3, <1>4
    <3> QED
      BY <1>1, <3>1
  <2> QED
    BY <1>4, <2>1 DEF FunctionSize, SizeAbove
<1>5. CASE ends # {}
  <2>1. Min(ends) \in ends /\ \A k \in ends : Min(ends) <= k
    <3>1. ends \in SUBSET Nat
      BY <1>2
    <3> HIDE DEF ends
    <3> QED
      BY <1>5, <3>1, Smallest
  <2>2. Min(ends) < n
    BY <2>1 DEF EndsBetween
  <2>3. Min(all) <= Min(ends) /\ Min(all) \in ends
    <3> HIDE DEF all, ends
    <3>1. Min(all) <= Min(ends) /\ Min(all) \in Nat /\ Min(ends) \in Nat
      BY <1>2, <1>3, <2>1
    <3> QED
      BY <1>1, <1>2, <1>3, <2>2, <3>1
  <2>4. Min(ends) <= Min(all)
    BY <2>1, <2>3
  <2>5. Min(ends) = Min(all)
    <3> HIDE DEF all, ends
    <3>1. Min(all) \in Nat /\ Min(ends) \in Nat
      BY <1>2, <1>3, <2>1
    <3> QED
      BY <2>3, <2>4, <3>1
  <2> QED
    BY <1>5, <2>5 DEF FunctionSize, SizeAbove
<1> QED
  BY <1>4, <1>5

(* What line n, and the end it may be, do to the size.                     *)
LEMMA SizeNext ==
  ASSUME NEW text, NEW N \in Nat, DOMAIN text = 1 .. N, NEW n \in 1 .. N,
         NEW b \in 1 .. n - 1
  PROVE  /\ EndsBetween(text, b, n + 1) = {} <=>
              EndsBetween(text, b, n) = {} /\ n \notin EndingLines(text)
         /\ SizeAbove(text, b, n + 1) =
              SizeAbove(text, b, n) +
              (IF /\ EndsBetween(text, b, n) = {} /\ n \notin EndingLines(text)
                  /\ Cleansed(text, n) # <<>> /\ ~StartsFunction(text, n)
               THEN 1 ELSE 0)
         /\ SizeAbove(text, b, n) \in Nat
<1> DEFINE old == EndsBetween(text, b, n)
           new == EndsBetween(text, b, n + 1)
<1>1. EndingLines(text) \in SUBSET Nat
  BY EndingLinesAreLines
<1>2. new = old \cup (IF n \in EndingLines(text) THEN {n} ELSE {})
  BY <1>1 DEF EndsBetween
<1>3. old \in SUBSET Nat /\ \A k \in old : k < n /\ b < k
  BY <1>1 DEF EndsBetween
<1>4. CASE old # {}
  <2>1. Min(old) \in old /\ \A k \in old : Min(old) <= k
    <3> HIDE DEF old
    <3> QED
      BY <1>3, <1>4, Smallest
  <2>2. new \in SUBSET Nat /\ new # {}
    BY <1>2, <1>3, <1>4
  <2>3. Min(new) \in new /\ \A k \in new : Min(new) <= k
    <3> HIDE DEF new
    <3> QED
      BY <2>2, Smallest
  <2>4. Min(new) = Min(old)
    <3> HIDE DEF new, old
    <3>1. Min(old) \in new /\ Min(old) < n /\ Min(old) \in Nat /\ Min(new) \in Nat
      BY <1>2, <1>3, <2>1, <2>2, <2>3
    <3>2. Min(new) <= Min(old)
      BY <2>3, <3>1
    <3>3. Min(new) # n
      BY <3>1, <3>2
    <3>4. Min(new) \in old
      BY <1>2, <2>3, <3>3
    <3>5. Min(old) <= Min(new)
      BY <2>1, <3>4
    <3> QED
      BY <3>1, <3>2, <3>5
  <2>5. Min(old) - 1 \in Nat /\ b + 1 \in Nat
    BY <1>3, <2>1
  <2>6. Cardinality(CodeLines(text, b + 1, Min(old) - 1)) \in Nat
    <3> HIDE DEF old
    <3> QED
      BY <2>5, CodeLinesFacts
  <2> QED
    BY <1>2, <1>4, <2>2, <2>4, <2>6 DEF SizeAbove
<1>5. CASE old = {} /\ n \in EndingLines(text)
  <2>1. new = {n}
    BY <1>2, <1>5
  <2>2. Min(new) = n
    BY <2>1 DEF Min
  <2>3. n - 1 \in Nat /\ b + 1 \in Nat
    OBVIOUS
  <2>4. Cardinality(CodeLines(text, b + 1, n - 1)) \in Nat
    BY <2>3, CodeLinesFacts
  <2>5. SizeAbove(text, b, n) = Cardinality(CodeLines(text, b + 1, n - 1))
    BY <1>5 DEF SizeAbove
  <2>6. SizeAbove(text, b, n + 1) = Cardinality(CodeLines(text, b + 1, n - 1))
    <3>1. new # {}
      BY <2>1
    <3> HIDE DEF new
    <3> QED
      BY <2>2, <3>1 DEF SizeAbove, new
  <2> QED
    BY <1>5, <2>1, <2>4, <2>5, <2>6
<1>6. CASE old = {} /\ n \notin EndingLines(text)
  <2>1. new = {}
    BY <1>2, <1>6
  <2>2. n - 1 \in Nat /\ b + 1 \in Nat /\ b + 1 <= (n - 1) + 1 /\ (n - 1) + 1 = n
        /\ (n + 1) - 1 = n
    OBVIOUS
  <2>3. /\ Cardinality(CodeLines(text, b + 1, n - 1)) \in Nat
        /\ Cardinality(CodeLines(text, b + 1, (n - 1) + 1)) =
              Cardinality(CodeLines(text, b + 1, n - 1))
              + (IF Cleansed(text, (n - 1) + 1) # <<>> /\ ~StartsFunction(text, (n - 1) + 1)
                 THEN 1 ELSE 0)
    BY <2>2, CodeLinesFacts
  <2>4. Cardinality(CodeLines(text, b + 1, n)) =
              Cardinality(CodeLines(text, b + 1, n - 1))
              + (IF Cleansed(text, n) # <<>> /\ ~StartsFunction(text, n) THEN 1 ELSE 0)
    BY <2>2, <2>3
  <2> QED
    BY <1>6, <2>1, <2>2, <2>3, <2>4 DEF SizeAbove
<1> QED
  BY <1>4, <1>5, <1>6

(* A line keeps _FunctionState what the last function above says it is, and *)
(* reports an end exactly if that function is too long                      *)
(* (CheckForFunctionLengths, cpplint.py:1569-1636).                         *)
LEMMA FunctionStep ==
  ASSUME NEW text, NEW N \in Nat, DOMAIN text = 1 .. N, NEW n \in 1 .. N,
         NEW state, FunctionInv(text, n, state), NEW verbose_level \in Nat
  PROVE  LET after == CheckForFunctionLengths(text, n, state, verbose_level)
         IN /\ FunctionInv(text, n + 1, after.state)
            /\ n \in EndingLines(text) =>
                 (n \in ErrorLines(after.errors, FnSize)
                    <=> n \in EndsOfLongFunctions(text, verbose_level))
<1> DEFINE after == CheckForFunctionLengths(text, n, state, verbose_level)
           b == FunctionAbove(text, n)
           starts == StartsFunction(text, n)
           ends == n \in EndingLines(text)
           opens == n \in OpeningLines(text)
           test == IsTest(Cleansed(text, n))
           begun == Begin(test)
<1>1. b \in 0 .. n - 1 /\ (b # 0 => b \in 1 .. n - 1)
  <2>1. n \in 1 .. N + 1
    OBVIOUS
  <2>2. b \in 0 .. n - 1
    BY <2>1, AboveFacts
  <2> HIDE DEF b
  <2> QED
    BY <2>2
<1>2. FunctionAbove(text, n + 1) = IF opens THEN n ELSE b
  BY AboveNext
<1>3. opens => starts
  BY DEF OpeningLines
<1>4. ends => ~starts
  BY EndsAreNotStarts
<1>5. after.state = CASE starts -> IF opens THEN begun ELSE state
                      [] ends -> End(state)
                      [] OTHER -> IF Cleansed(text, n) = <<>> THEN state ELSE CountLine(state)
  BY DEF CheckForFunctionLengths, OpeningLines, EndingLines
<1>6. FunctionInv(text, n + 1, after.state)
  <2>1. CASE opens
    <3>1. after.state = begun
      <4> HIDE DEF begun, after, starts, ends, opens
      <4> QED
        BY <1>3, <1>4, <1>5, <2>1
    <3>2. EndsBetween(text, n, n + 1) = {}
      BY EndingLinesAreLines DEF EndsBetween
    <3>3. (n + 1) - 1 < n + 1 /\ n + 1 \in Nat /\ (n + 1) - 1 \in Nat
      OBVIOUS
    <3>4. Cardinality(CodeLines(text, n + 1, (n + 1) - 1)) = 0
      BY <3>3, CodeLinesFacts
    <3>5. SizeAbove(text, n, n + 1) = 0
      BY <3>2, <3>4 DEF SizeAbove
    <3>6. n + 1 \in 1 .. N + 1 /\ n # 0
      OBVIOUS
    <3>8. /\ begun \in FunctionStates
          /\ begun.in_a_function = TRUE
          /\ begun.lines_in_function = 0
          /\ begun.is_test = TRUE <=> n \in TestLines(text)
      <4>1. test <=> n \in TestLines(text)
        BY DEF TestLines
      <4>2. test \in BOOLEAN
        BY Zenon DEF IsTest
      <4> HIDE DEF test
      <4> QED
        BY <4>1, <4>2, BeginFacts
    <3>7. FunctionAbove(text, n + 1) = n
      BY <1>2, <2>1
    <3> HIDE DEF begun, after, opens
    <3> QED
      BY <3>1, <3>2, <3>5, <3>6, <3>7, <3>8 DEF FunctionInv, FunctionAt
  <2>2. CASE ~opens /\ b = 0
    <3>1. state \in FunctionStates /\ state.in_a_function = FALSE /\ state.lines_in_function = 0
      BY <2>2 DEF FunctionInv, FunctionAt
    <3>2. after.state \in {state, End(state), CountLine(state)}
      <4> HIDE DEF begun, after, starts, ends, opens
      <4> QED
        BY <1>5, <2>2
    <3>3. /\ after.state \in FunctionStates /\ after.state.in_a_function = FALSE
          /\ after.state.lines_in_function = 0
      <4> HIDE DEF after
      <4> QED
        BY <3>1, <3>2, FunctionStateFacts
    <3>4. FunctionAbove(text, n + 1) = 0
      BY <1>2, <2>2
    <3> HIDE DEF after
    <3> QED
      BY <3>3, <3>4 DEF FunctionInv, FunctionAt
  <2>3. CASE ~opens /\ b # 0
    <3> DEFINE old == EndsBetween(text, b, n)
               new == EndsBetween(text, b, n + 1)
               size == SizeAbove(text, b, n)
               next == SizeAbove(text, b, n + 1)
               tests == b \in TestLines(text)
    <3>1. /\ state \in FunctionStates
          /\ state.in_a_function = TRUE <=> old = {}
          /\ state.lines_in_function = size
          /\ state.is_test = TRUE <=> tests
      BY <2>3 DEF FunctionInv, FunctionAt
    <3>2. /\ new = {} <=> old = {} /\ ~ends
          /\ next = size + (IF old = {} /\ ~ends /\ Cleansed(text, n) # <<>> /\ ~starts
                            THEN 1 ELSE 0)
          /\ size \in Nat
      BY <1>1, <2>3, SizeNext
    <3>3. FunctionAbove(text, n + 1) = b
      BY <1>2, <2>3
    <3> SUFFICES /\ after.state \in FunctionStates
                 /\ after.state.in_a_function = TRUE <=> new = {}
                 /\ after.state.lines_in_function = next
                 /\ after.state.is_test = TRUE <=> tests
      <4> HIDE DEF after
      <4> QED
        BY <2>3, <3>3 DEF FunctionInv, FunctionAt
    <3> HIDE DEF begun, after, old, new, size, next, tests, b, starts, ends, opens
    <3>4. CASE starts
      <4>1. after.state = state
        BY <1>4, <1>5, <2>3, <3>4
      <4> QED
        BY <1>4, <3>1, <3>2, <3>4, <4>1
    <3>5. CASE ends
      <4>1. after.state = End(state)
        BY <1>4, <1>5, <3>5
      <4> QED
        <5>1. /\ End(state) \in FunctionStates
              /\ End(state).in_a_function = FALSE
              /\ End(state).lines_in_function = state.lines_in_function
              /\ End(state).is_test = state.is_test
          BY <3>1, FunctionStateFacts
        <5>2. new # {} /\ next = size
          BY <3>2, <3>5
        <5> QED
          BY <3>1, <4>1, <5>1, <5>2
    <3>6. CASE ~starts /\ ~ends /\ Cleansed(text, n) = <<>>
      <4>1. after.state = state
        BY <1>5, <3>6
      <4> QED
        BY <3>1, <3>2, <3>6, <4>1
    <3>7. CASE ~starts /\ ~ends /\ Cleansed(text, n) # <<>>
      <4>1. after.state = CountLine(state)
        BY <1>5, <3>7
      <4> QED
        <5>1. /\ CountLine(state) \in FunctionStates
              /\ CountLine(state).in_a_function = state.in_a_function
              /\ CountLine(state).lines_in_function =
                   IF state.in_a_function THEN state.lines_in_function + 1
                   ELSE state.lines_in_function
              /\ CountLine(state).is_test = state.is_test
          BY <3>1, FunctionStateFacts
        <5>2. (new = {} <=> old = {}) /\ next = size + (IF old = {} THEN 1 ELSE 0)
          BY <3>2, <3>7
        <5>3. CASE old = {}
          BY <3>1, <4>1, <5>1, <5>2, <5>3
        <5>4. CASE old # {}
          <6>1. state.in_a_function = FALSE
            BY <3>1, <5>4 DEF FunctionStates
          <6> QED
            BY <3>1, <3>2, <4>1, <5>1, <5>2, <5>4, <6>1
        <5> QED
          BY <5>3, <5>4
    <3> QED
      BY <3>4, <3>5, <3>6, <3>7
  <2> QED
    BY <2>1, <2>2, <2>3
<1>7. ASSUME ends
      PROVE  n \in ErrorLines(after.errors, FnSize)
               <=> n \in EndsOfLongFunctions(text, verbose_level)
  <2>1. n \in ErrorLines(after.errors, FnSize) <=> IsTooLong(state, verbose_level)
    BY <1>4, <1>7, FunctionEvents
  <2>2. n \in EndsOfLongFunctions(text, verbose_level) <=>
          b # 0 /\ FunctionSize(text, b) > AllowedSize(text, b, verbose_level)
    BY <1>7 DEF EndsOfLongFunctions
  <2>3. CASE b = 0
    <3>1. state \in FunctionStates /\ state.lines_in_function = 0
      BY <2>3 DEF FunctionInv, FunctionAt
    <3>2. 2 ^ verbose_level \in Nat /\ NORMAL_TRIGGER \in Nat /\ TEST_TRIGGER \in Nat
      BY PowersOfTwo, TriggerAssumption
    <3> DEFINE p == 2 ^ verbose_level
    <3> HIDE DEF p
    <3>3. NORMAL_TRIGGER * p \in Nat /\ TEST_TRIGGER * p \in Nat
      BY <3>2 DEF p
    <3>4. ~IsTooLong(state, verbose_level)
      BY <3>1, <3>3 DEF IsTooLong, p
    <3> QED
      BY <2>1, <2>2, <2>3, <3>4
  <2>4. CASE b # 0
    <3>1. /\ state.lines_in_function = SizeAbove(text, b, n)
          /\ state.is_test = TRUE <=> b \in TestLines(text)
      BY <2>4 DEF FunctionInv, FunctionAt
    <3>2. FunctionSize(text, b) = SizeAbove(text, b, n)
      BY <1>1, <1>7, <2>4, SizeAtEnd
    <3>3. AllowedSize(text, b, verbose_level) =
            (IF state.is_test THEN TEST_TRIGGER ELSE NORMAL_TRIGGER) * 2 ^ verbose_level
      <4>1. state.is_test \in BOOLEAN
        BY DEF FunctionInv, FunctionAt, FunctionStates
      <4>2. b \in DOMAIN text
        BY <1>1, <2>4
      <4>3. state.is_test <=> IsTest(Cleansed(text, b))
        BY <3>1, <4>1, <4>2 DEF TestLines
      <4> HIDE DEF b
      <4> QED
        BY <4>3 DEF AllowedSize
    <3> QED
      BY <2>1, <2>2, <2>4, <3>1, <3>2, <3>3 DEF IsTooLong
  <2> QED
    BY <2>3, <2>4
<1> QED
  BY <1>6, <1>7

(* What the state is in each place: while a file is read, lines are those  *)
(* of the file with its comments removed, and linenum is one of them or the *)
(* end.                                                                    *)
TypeInv ==
  /\ pc \in {"start", "next", "lines", "looping", "usage", "raised", "exited"}
  /\ IsSeq(argv.opts) /\ \A i \in DOMAIN argv.opts : argv.opts[i].number \in Nat
  /\ \A f \in DOMAIN files : files[f].lines \in Seq(FileLines)
  /\ IsSeq(raised)
  /\ DOMAIN cpplint_state = DOMAIN CppLintState
  /\ cpplint_state.verbose_level \in Nat
  /\ pc = "start" => raised = <<>> /\ lines = <<>>
  /\ pc = "lines" \/ FileLinted =>
       filename \in DOMAIN files /\ lines = TextOf(files[filename].lines)
  /\ pc = "lines" => linenum \in 1 .. Len(lines) + 1

(* The process has not ended, nor is it in the loop of CheckBraces.        *)
Reading == pc \in {"start", "next", "lines"}

(* Of the order of includes nothing was reported that is not misplaced, and *)
(* of the file being read everything misplaced above linenum, in the end    *)
(* all of it, was.                                                         *)
OrderInv ==
  /\ Reading => \A f \in DOMAIN files :
       Said(raised, f, Order) \subseteq MisplacedIncludes(f, TextOf(files[f].lines))
  /\ pc = "lines" =>
       /\ SectionInv(filename, lines, linenum, include_state)
       /\ \A n \in MisplacedIncludes(filename, lines) :
            n < linenum => n \in Said(raised, filename, Order)
  /\ FileLinted => MisplacedIncludes(filename, lines) \subseteq Said(raised, filename, Order)

(* The same of the ends of functions that are too long.                    *)
SizeInv ==
  LET verbose_level == cpplint_state.verbose_level
  IN /\ Reading => \A f \in DOMAIN files : \A n \in EndingLines(TextOf(files[f].lines)) :
          n \in Said(raised, f, FnSize)
            => n \in EndsOfLongFunctions(TextOf(files[f].lines), verbose_level)
     /\ pc = "lines" =>
          /\ FunctionInv(lines, linenum, function_state)
          /\ \A n \in EndsOfLongFunctions(lines, verbose_level) :
               n < linenum => n \in Said(raised, filename, FnSize)
     /\ FileLinted =>
          EndsOfLongFunctions(lines, verbose_level) \subseteq Said(raised, filename, FnSize)

(* The inductive invariant of the first two properties.                    *)
Inv == TypeInv /\ OrderInv /\ SizeInv

(* Printing an error counts it and leaves the verbosity alone.              *)
LEMMA VerboseKept ==
  ASSUME DOMAIN cpplint_state = DOMAIN CppLintState,
         NEW suppressions, NEW file, NEW events, ReportFrom(suppressions, file, events)
  PROVE  /\ DOMAIN cpplint_state' = DOMAIN CppLintState
         /\ cpplint_state'.verbose_level = cpplint_state.verbose_level
<1>1. PICK printed : cpplint_state' = IncrementErrorCounts(cpplint_state, printed)
  BY Zenon DEF ReportFrom
<1>2. DOMAIN CppLintState =
        {"verbose_level", "error_count", "filters", "counting", "errors_by_category"}
  BY DEF CppLintState
<1> QED
  BY <1>1, <1>2, SMTT(40) DEF IncrementErrorCounts

(* The initial state satisfies the invariant.                               *)
LEMMA InitInv ==
  ASSUME Init
  PROVE  Inv
<1>1. PICK i \in Invocations : argv = i.argv /\ files = i.files
  BY DEF Init
<1>2. IsSeq(argv.opts) /\ \A k \in DOMAIN argv.opts : argv.opts[k].number \in Nat
  <2> DEFINE Options == [name : STRING, number : 0 .. 5, style : STRING,
                         filters : Seq([sign : STRING, prefix : Seq(STRING)])]
  <2>1. argv.opts \in Seq(Options)
    BY <1>1, InvocationAssumption
  <2>2. \A o \in Options : o.number \in Nat
    OBVIOUS
  <2> HIDE DEF Options
  <2>3. \A k \in DOMAIN argv.opts : argv.opts[k] \in Options
    BY <2>1
  <2> QED
    BY <2>1, <2>2, <2>3 DEF IsSeq
<1>3. \A f \in DOMAIN files : files[f].lines \in Seq(FileLines)
  BY <1>1, InvocationAssumption
<1>4. pc = "start" /\ raised = <<>> /\ lines = <<>> /\ cpplint_state = CppLintState
  BY DEF Init
<1>5. TypeInv
  BY <1>2, <1>3, <1>4, EmptyEvents DEF TypeInv, FileLinted, CppLintState
<1>6. \A f, c : Said(raised, f, c) = {}
  BY <1>4 DEF Said, ToSet
<1> QED
  BY <1>4, <1>5, <1>6 DEF Inv, OrderInv, SizeInv, FileLinted

(* The verbosity is that of the last --verbose, a number.                  *)
LEMMA ConfiguredFacts ==
  ASSUME NEW opts, \A i \in DOMAIN opts : opts[i].number \in Nat, IsSeq(opts)
  PROVE  LET state == ResetErrorCounts(Configured(opts))
         IN DOMAIN state = DOMAIN CppLintState /\ state.verbose_level \in Nat
<1> DEFINE given == Given(opts, "verbose")
           S == {i \in 1 .. Len(opts) : opts[i].name = "verbose"}
<1>1. Len(opts) \in Nat /\ DOMAIN opts = 1 .. Len(opts)
  BY SeqFacts
<1>2. given # 0 => given \in DOMAIN opts
  <2>1. given = IF S # {} THEN Max(S) ELSE 0
    BY DEF Given, SelectLastInSeq
  <2>2. S # {} => Max(S) \in S
    <3>1. S \in SUBSET (0 .. Len(opts))
      BY <1>1
    <3> HIDE DEF S
    <3> QED
      BY <1>1, <3>1, Largest
  <2> QED
    BY <1>1, <2>1, <2>2
<1>3. given # 0 => opts[given].number \in Nat
  BY <1>2
<1> HIDE DEF given
<1>4. PICK level, filters, counting :
        /\ level \in Nat
        /\ Configured(opts) = [CppLintState EXCEPT !.verbose_level = level,
                                 !.filters = filters, !.counting = counting]
  <2>1. CASE given = 0
    BY <2>1 DEF Configured, given, CppLintState
  <2>2. CASE given # 0
    BY <1>3, <2>2 DEF Configured, given
  <2> QED
    BY <2>1, <2>2
<1> QED
  BY <1>4 DEF ResetErrorCounts, CppLintState

-------------------------------------------------------------------------------
(* main() sets the options before any file is read.                         *)
LEMMA ArgumentsKeepInv ==
  ASSUME Inv, ParseArguments
  PROVE  Inv'
<1>1. /\ pc = "start" /\ pc' \in {"next", "usage", "raised"} /\ raised' = raised
      /\ lines' = lines /\ files' = files /\ argv' = argv
  BY DEF ParseArguments, FileVars, EndWith
<1>2. raised = <<>> /\ lines = <<>>
  BY <1>1 DEF Inv, TypeInv
<1>3. cpplint_state' = cpplint_state
      \/ cpplint_state' = ResetErrorCounts(Configured(argv.opts))
  BY DEF ParseArguments
<1>4. DOMAIN cpplint_state' = DOMAIN CppLintState /\ cpplint_state'.verbose_level \in Nat
  BY <1>3, ConfiguredFacts DEF Inv, TypeInv
<1>5. TypeInv'
  BY <1>1, <1>2, <1>4 DEF Inv, TypeInv, FileLinted
<1>6. \A f, c : Said(raised', f, c) = {}
  BY <1>1, <1>2 DEF Said, ToSet
<1>7. OrderInv'
  BY <1>1, <1>2, <1>6 DEF OrderInv, FileLinted
<1>8. SizeInv'
  BY <1>1, <1>2, <1>6 DEF SizeInv, FileLinted
<1> QED
  BY <1>5, <1>7, <1>8 DEF Inv

(* A file that is skipped leaves no lines behind.                           *)
LEMMA SkipKeepsInv ==
  ASSUME Inv, SkipFile
  PROVE  Inv'
<1>1. /\ pc = "next" /\ pc' = pc /\ raised' = raised /\ lines' = <<>>
      /\ files' = files /\ argv' = argv /\ cpplint_state' = cpplint_state
  BY DEF SkipFile, ErrorVars
<1> QED
  BY <1>1 DEF Inv, TypeInv, OrderInv, SizeInv, FileLinted, Reading

(* The exit changes nothing the invariant is about.                         *)
LEMMA ExitKeepsInv ==
  ASSUME Inv, Exit
  PROVE  Inv'
<1>1. /\ pc' = "exited" /\ UNCHANGED <<argv, files, filenames, FileVars, ErrorVars>>
  BY DEF Exit, EndWith
<1> QED
  BY <1>1 DEF Inv, TypeInv, OrderInv, SizeInv, FileLinted, Reading, FileVars, ErrorVars

(* Nor does a step that changes nothing.                                    *)
LEMMA StutterKeepsInv ==
  ASSUME Inv, UNCHANGED vars
  PROVE  Inv'
BY DEF vars, FileVars, ErrorVars, Inv, TypeInv, OrderInv, SizeInv, FileLinted, Reading

(* What a file that is opened sets, and leaves alone.                       *)
LEMMA StartEffect ==
  ASSUME TypeInv, StartFile
  PROVE  /\ pc = "next" /\ pc' = "lines" /\ files' = files /\ argv' = argv
         /\ filename' \in DOMAIN files /\ lines' = TextOf(files[filename'].lines)
         /\ linenum' = 1 /\ include_state' = IncludeState /\ function_state' = FunctionState
         /\ IsSeq(raised')
         /\ \A f : \A c \in Tracked : Said(raised', f, c) = Said(raised, f, c)
         /\ DOMAIN cpplint_state' = DOMAIN CppLintState
         /\ cpplint_state'.verbose_level = cpplint_state.verbose_level
<1> DEFINE name == Head(filenames)
           raw == Append(files[name].lines, Marker)
           unfinished == UnfinishedComment(raw)
           header == IF Path[name].ext = "h" THEN CheckForHeaderGuard(name, raw) ELSE <<>>
           comment == ErrIf(unfinished # 0, unfinished + 1,
                            <<"readability", "multiline", "comment">>, 5)
           events == CheckForCopyright(raw, CopyrightLines) \o header \o comment
<1>1. Quiet(events)
  <2>1. Quiet(CheckForCopyright(raw, CopyrightLines))
    BY QuietCopyright
  <2>2. Quiet(header)
    BY QuietHeaderGuard, QuietEmpty
  <2>3. Quiet(comment)
    BY QuietErrIf, Untracked
  <2> HIDE DEF header, comment
  <2> QED
    BY <2>1, <2>2, <2>3, QuietConcat
<1>2. ReportFrom(ResetNolintSuppressions, name, events)
  BY DEF StartFile
<1>3. IsSeq(raised') /\ \A f : \A c \in Tracked : Said(raised', f, c) = Said(raised, f, c)
  <2> HIDE DEF events
  <2> QED
    BY <1>1, <1>2, QuietReport DEF TypeInv
<1>4. /\ DOMAIN cpplint_state' = DOMAIN CppLintState
      /\ cpplint_state'.verbose_level = cpplint_state.verbose_level
  <2> HIDE DEF events
  <2> QED
    BY <1>2, VerboseKept DEF TypeInv
<1>5. /\ pc = "next" /\ pc' = "lines" /\ files' = files /\ argv' = argv
      /\ filename' = name /\ name \in DOMAIN files
      /\ linenum' = 1 /\ include_state' = IncludeState /\ function_state' = FunctionState
  BY DEF StartFile
<1>6. lines' = TextOf(files[name].lines)
  BY DEF StartFile, TextOf
<1> QED
  BY <1>3, <1>4, <1>5, <1>6

(* What the checks after the last line leave alone.                         *)
LEMMA FinishEffect ==
  ASSUME TypeInv, FinishFile
  PROVE  /\ pc = "lines" /\ pc' = "next" /\ linenum \notin DOMAIN lines
         /\ UNCHANGED <<argv, files, filename, lines, linenum>>
         /\ IsSeq(raised')
         /\ \A f : \A c \in Tracked : Said(raised', f, c) = Said(raised, f, c)
         /\ DOMAIN cpplint_state' = DOMAIN CppLintState
         /\ cpplint_state'.verbose_level = cpplint_state.verbose_level
<1> DEFINE a == CheckFinished(class_state)
           b == CheckForIncludeWhatYouUse(files, filename, lines, include_state.included)
           c == CheckForUnicodeReplacementCharacters(lines)
           d == CheckForNewlineAtEOF(lines)
           e == ErrIf(files[filename].cr, 0, <<"whitespace", "newline">>, 1)
           events == a \o b \o c \o d \o e
<1>1. pc = "lines" /\ DOMAIN lines \in SUBSET Nat /\ IsFiniteSet(DOMAIN lines)
  <2>1. pc = "lines"
    BY DEF FinishFile
  <2>2. filename \in DOMAIN files /\ lines = TextOf(files[filename].lines)
        /\ files[filename].lines \in Seq(FileLines)
    BY <2>1 DEF TypeInv
  <2>3. Len(lines) \in Nat /\ DOMAIN lines = 1 .. Len(lines)
    BY <2>2, TextFacts
  <2> QED
    BY <2>1, <2>3, FS_Interval
<1>2. Quiet(events)
  <2>1. Quiet(a) /\ Quiet(b) /\ Quiet(c) /\ Quiet(d) /\ Quiet(e)
    BY <1>1, QuietFinished, QuietNeededHeaders, QuietUnicode, QuietNewline, QuietErrIf,
       Untracked
  <2> HIDE DEF a, b, c, d, e
  <2> QED
    BY <2>1, QuietConcat
<1>3. Report(filename, events)
  BY DEF FinishFile
<1>4. ReportFrom(error_suppressions, filename, events)
  <2> HIDE DEF events
  <2> QED
    BY <1>3 DEF Report
<1>5. IsSeq(raised') /\ \A f : \A k \in Tracked : Said(raised', f, k) = Said(raised, f, k)
  <2> HIDE DEF events
  <2> QED
    BY <1>2, <1>4, QuietReport DEF TypeInv
<1>6. /\ DOMAIN cpplint_state' = DOMAIN CppLintState
      /\ cpplint_state'.verbose_level = cpplint_state.verbose_level
  <2> HIDE DEF events
  <2> QED
    BY <1>4, VerboseKept DEF TypeInv
<1>7. /\ pc' = "next" /\ linenum \notin DOMAIN lines
      /\ UNCHANGED <<argv, files, filename, lines, linenum>>
  BY DEF FinishFile, FileVars
<1> QED
  BY <1>1, <1>5, <1>6, <1>7

(* What the checks of a line add to what was said.                          *)
LEMMA LineEffect ==
  ASSUME Inv, pc = "lines", linenum \in DOMAIN lines, Report(filename, LineEvents(linenum))
  PROVE  /\ Len(lines) \in Nat /\ DOMAIN lines = 1 .. Len(lines)
         /\ IsSeq(raised')
         /\ DOMAIN cpplint_state' = DOMAIN CppLintState
         /\ cpplint_state'.verbose_level = cpplint_state.verbose_level
         /\ \A f : f # filename =>
              \A c \in Tracked : Said(raised', f, c) = Said(raised, f, c)
         /\ Stops(LineEvents(linenum)) = {} =>
              /\ Said(raised', filename, Order) = Said(raised, filename, Order) \cup
                   (IF linenum \in MisplacedIncludes(filename, lines) THEN {linenum} ELSE {})
              /\ Said(raised', filename, FnSize) = Said(raised, filename, FnSize) \cup
                   ErrorLines(FunctionsAt(linenum).errors, FnSize)
         /\ SectionInv(filename, lines, linenum + 1, IncludesAt(linenum).state)
<1> DEFINE events == LineEvents(linenum)
<1>1. filename \in DOMAIN files /\ lines = TextOf(files[filename].lines)
      /\ files[filename].lines \in Seq(FileLines)
  BY DEF Inv, TypeInv
<1>2. /\ Len(lines) \in Nat /\ DOMAIN lines = 1 .. Len(lines)
      /\ IsLine(lines[linenum])
  BY <1>1, TextFacts
<1>3. SectionInv(filename, lines, linenum, include_state)
  BY DEF Inv, OrderInv
<1>4. DOMAIN lines \in SUBSET Nat
  BY <1>2
<1>5. /\ IsSeq(events)
      /\ ErrorLines(events, Order) =
           IF linenum \in MisplacedIncludes(filename, lines) THEN {linenum} ELSE {}
      /\ ErrorLines(events, FnSize) = ErrorLines(FunctionsAt(linenum).errors, FnSize)
      /\ SectionInv(filename, lines, linenum + 1, IncludesAt(linenum).state)
  BY <1>2, <1>3, <1>4, LineEventsFacts
<1> HIDE DEF events
<1>6. ReportFrom(error_suppressions, filename, events) /\ IsSeq(raised)
      /\ DOMAIN cpplint_state = DOMAIN CppLintState
  BY DEF Inv, TypeInv, Report, events
<1>7. /\ DOMAIN cpplint_state' = DOMAIN CppLintState
      /\ cpplint_state'.verbose_level = cpplint_state.verbose_level
  BY <1>6, VerboseKept
<1>8. ASSUME NEW c \in Tracked
      PROVE  /\ IsSeq(raised')
             /\ \A f : f # filename => Said(raised', f, c) = Said(raised, f, c)
             /\ Stops(events) = {} =>
                  Said(raised', filename, c) = Said(raised, filename, c) \cup ErrorLines(events, c)
  BY <1>5, <1>6, ReportSays
<1>9. Order \in Tracked /\ FnSize \in Tracked
  BY DEF Tracked
<1> QED
  BY <1>2, <1>5, <1>7, <1>8, <1>9 DEF events

(* Above the first line there is no include,                                *)
LEMMA SectionAtStart ==
  ASSUME NEW name, NEW text, NEW N \in Nat, DOMAIN text = 1 .. N
  PROVE  SectionInv(name, text, 1, IncludeState)
<1>1. \A m \in DOMAIN text : ~(m < 1)
  OBVIOUS
<1>2. \A m \in FirstIncludes(text) : ~(m < 1)
  BY <1>1 DEF FirstIncludes
<1>3. IncludesAbove(text, 1) = {}
  BY <1>1 DEF IncludesAbove
<1> QED
  BY <1>2, <1>3 DEF SectionInv, IncludeState, INITIAL_SECTION

(* and no function.                                                         *)
LEMMA FunctionAtStart ==
  ASSUME NEW text, NEW N \in Nat, DOMAIN text = 1 .. N
  PROVE  FunctionInv(text, 1, FunctionState)
<1>1. 1 \in 1 .. N + 1
  OBVIOUS
<1>2. FunctionAbove(text, 1) = 0
  BY <1>1, AboveFacts
<1>3. /\ FunctionState \in FunctionStates
      /\ FunctionState.in_a_function = FALSE
      /\ FunctionState.lines_in_function = 0
  BY DEF FunctionStates, FunctionState
<1> QED
  BY <1>2, <1>3 DEF FunctionInv, FunctionAt

(* The ends of long functions are ends of functions.                        *)
LEMMA EndsAreLines ==
  ASSUME NEW text, NEW verbose_level
  PROVE  EndsOfLongFunctions(text, verbose_level) \subseteq EndingLines(text)
BY DEF EndsOfLongFunctions

(* StartFile keeps the invariant,                                           *)
LEMMA StartKeepsInv ==
  ASSUME Inv, StartFile
  PROVE  Inv'
<1>1. /\ pc = "next" /\ pc' = "lines" /\ files' = files /\ argv' = argv
      /\ filename' \in DOMAIN files /\ lines' = TextOf(files[filename'].lines)
      /\ linenum' = 1 /\ include_state' = IncludeState /\ function_state' = FunctionState
      /\ IsSeq(raised')
      /\ \A f : \A c \in Tracked : Said(raised', f, c) = Said(raised, f, c)
      /\ DOMAIN cpplint_state' = DOMAIN CppLintState
      /\ cpplint_state'.verbose_level = cpplint_state.verbose_level
  BY StartEffect DEF Inv
<1>2. files[filename'].lines \in Seq(FileLines)
  BY <1>1 DEF Inv, TypeInv
<1>3. Len(lines') \in Nat \ {0} /\ DOMAIN lines' = 1 .. Len(lines')
  BY <1>1, <1>2, TextFacts
<1>4. TypeInv'
  BY <1>1, <1>3 DEF Inv, TypeInv, FileLinted
<1>5. Order \in Tracked /\ FnSize \in Tracked
  BY DEF Tracked
<1>6. OrderInv'
  <2>1. SectionInv(filename', lines', 1, IncludeState)
    BY <1>3, SectionAtStart
  <2>2. \A n \in MisplacedIncludes(filename', lines') : ~(n < 1)
    <3>1. \A n \in FirstIncludes(lines') : n \in DOMAIN lines'
      BY DEF FirstIncludes
    <3>2. \A n \in MisplacedIncludes(filename', lines') : n \in FirstIncludes(lines')
      BY DEF MisplacedIncludes
    <3> QED
      BY <1>3, <3>1, <3>2
  <2>3. \A f \in DOMAIN files :
          Said(raised', f, Order) \subseteq MisplacedIncludes(f, TextOf(files[f].lines))
    BY <1>1, <1>5 DEF Inv, OrderInv, Reading
  <2> QED
    BY <1>1, <2>1, <2>2, <2>3 DEF OrderInv, FileLinted
<1>7. SizeInv'
  <2>1. FunctionInv(lines', 1, FunctionState)
    BY <1>3, FunctionAtStart
  <2>2. \A n \in EndsOfLongFunctions(lines', cpplint_state'.verbose_level) : ~(n < 1)
    <3>1. \A n \in EndingLines(lines') : n \in 1 .. Len(lines')
      BY <1>3, EndingLinesAreLines
    <3> QED
      BY <1>3, <3>1, EndsAreLines
  <2>3. \A f \in DOMAIN files : \A n \in EndingLines(TextOf(files[f].lines)) :
          n \in Said(raised', f, FnSize)
            => n \in EndsOfLongFunctions(TextOf(files[f].lines), cpplint_state'.verbose_level)
    BY <1>1, <1>5 DEF Inv, SizeInv, Reading
  <2> QED
    BY <1>1, <2>1, <2>2, <2>3 DEF SizeInv, FileLinted
<1> QED
  BY <1>4, <1>6, <1>7 DEF Inv

(* and so do FinishFile,                                                    *)
LEMMA FinishKeepsInv ==
  ASSUME Inv, FinishFile
  PROVE  Inv'
<1>1. /\ pc = "lines" /\ pc' = "next" /\ linenum \notin DOMAIN lines
      /\ UNCHANGED <<argv, files, filename, lines, linenum>>
      /\ IsSeq(raised')
      /\ \A f : \A c \in Tracked : Said(raised', f, c) = Said(raised, f, c)
      /\ DOMAIN cpplint_state' = DOMAIN CppLintState
      /\ cpplint_state'.verbose_level = cpplint_state.verbose_level
  BY FinishEffect DEF Inv
<1>2. /\ Len(lines) \in Nat /\ DOMAIN lines = 1 .. Len(lines)
      /\ filename \in DOMAIN files /\ lines = TextOf(files[filename].lines)
      /\ linenum \in 1 .. Len(lines) + 1
  BY <1>1, TextFacts DEF Inv, TypeInv
<1>3. TypeInv'
  BY <1>1, <1>2 DEF Inv, TypeInv, FileLinted
<1>4. \A n \in DOMAIN lines : n < linenum
  BY <1>1, <1>2
<1>5. Order \in Tracked /\ FnSize \in Tracked
  BY DEF Tracked
<1>6. OrderInv'
  <2>1. \A n \in MisplacedIncludes(filename, lines) : n < linenum
    BY <1>4 DEF MisplacedIncludes, FirstIncludes
  <2>2. MisplacedIncludes(filename, lines) \subseteq Said(raised', filename, Order)
    BY <1>1, <1>5, <2>1 DEF Inv, OrderInv
  <2>3. \A f \in DOMAIN files :
          Said(raised', f, Order) \subseteq MisplacedIncludes(f, TextOf(files[f].lines))
    BY <1>1, <1>5 DEF Inv, OrderInv, Reading
  <2> QED
    BY <1>1, <2>2, <2>3 DEF OrderInv, FileLinted
<1>7. SizeInv'
  <2>1. \A n \in EndsOfLongFunctions(lines, cpplint_state.verbose_level) : n < linenum
    BY <1>4, EndsAreLines, EndingLinesAreLines
  <2>2. EndsOfLongFunctions(lines, cpplint_state'.verbose_level)
          \subseteq Said(raised', filename, FnSize)
    BY <1>1, <1>5, <2>1 DEF Inv, SizeInv
  <2>3. \A f \in DOMAIN files : \A n \in EndingLines(TextOf(files[f].lines)) :
          n \in Said(raised', f, FnSize)
            => n \in EndsOfLongFunctions(TextOf(files[f].lines), cpplint_state'.verbose_level)
    BY <1>1, <1>5 DEF Inv, SizeInv, Reading
  <2> QED
    BY <1>1, <2>2, <2>3 DEF SizeInv, FileLinted
<1> QED
  BY <1>3, <1>6, <1>7 DEF Inv

(* ProcessLineFails, after which nothing is read any more,                  *)
LEMMA LineFailsKeepsInv ==
  ASSUME Inv, ProcessLineFails
  PROVE  Inv'
<1>1. /\ pc = "lines" /\ linenum \in DOMAIN lines /\ pc' \in {"raised", "looping"}
      /\ Report(filename, LineEvents(linenum))
      /\ UNCHANGED <<argv, files>>
  BY DEF ProcessLineFails, EndWith
<1>2. /\ IsSeq(raised')
      /\ DOMAIN cpplint_state' = DOMAIN CppLintState
      /\ cpplint_state'.verbose_level = cpplint_state.verbose_level
  BY <1>1, LineEffect
<1> QED
  BY <1>1, <1>2 DEF Inv, TypeInv, OrderInv, SizeInv, FileLinted, Reading

(* and ProcessLine.                                                         *)
LEMMA LineKeepsInv ==
  ASSUME Inv, ProcessLine
  PROVE  Inv'
<1> DEFINE n == linenum
           v == cpplint_state.verbose_level
<1>1. /\ pc = "lines" /\ pc' = "lines" /\ n \in DOMAIN lines
      /\ UNCHANGED <<argv, files, filename, lines>>
      /\ Report(filename, LineEvents(n)) /\ Stops(LineEvents(n)) = {}
      /\ linenum' = n + 1
      /\ function_state' = FunctionsAt(n).state
      /\ include_state' = IncludesAt(n).state
  BY DEF ProcessLine
<1>2. /\ Len(lines) \in Nat /\ DOMAIN lines = 1 .. Len(lines)
      /\ IsSeq(raised')
      /\ DOMAIN cpplint_state' = DOMAIN CppLintState
      /\ cpplint_state'.verbose_level = v
      /\ \A f : f # filename =>
           \A c \in Tracked : Said(raised', f, c) = Said(raised, f, c)
      /\ Said(raised', filename, Order) = Said(raised, filename, Order) \cup
           (IF n \in MisplacedIncludes(filename, lines) THEN {n} ELSE {})
      /\ Said(raised', filename, FnSize) = Said(raised, filename, FnSize) \cup
           ErrorLines(FunctionsAt(n).errors, FnSize)
      /\ SectionInv(filename, lines, n + 1, IncludesAt(n).state)
  BY <1>1, LineEffect
<1>3. n \in 1 .. Len(lines) /\ \A m : m < n + 1 /\ m \in DOMAIN lines => m < n \/ m = n
  BY <1>1, <1>2
<1>4. filename \in DOMAIN files /\ lines = TextOf(files[filename].lines) /\ v \in Nat
  BY <1>1 DEF Inv, TypeInv
<1>5. TypeInv'
  BY <1>1, <1>2, <1>3 DEF Inv, TypeInv, FileLinted
<1>6. Order \in Tracked /\ FnSize \in Tracked
  BY DEF Tracked
<1>7. OrderInv'
  <2>1. ASSUME NEW f \in DOMAIN files
        PROVE  Said(raised', f, Order) \subseteq MisplacedIncludes(f, TextOf(files[f].lines))
    <3>1. Said(raised, f, Order) \subseteq MisplacedIncludes(f, TextOf(files[f].lines))
      BY <1>1 DEF Inv, OrderInv, Reading
    <3> QED
      BY <1>2, <1>4, <1>6, <3>1
  <2>2. ASSUME NEW m \in MisplacedIncludes(filename, lines), m < n + 1
        PROVE  m \in Said(raised', filename, Order)
    <3>1. m \in DOMAIN lines
      BY DEF MisplacedIncludes, FirstIncludes
    <3>2. m < n => m \in Said(raised, filename, Order)
      BY <1>1 DEF Inv, OrderInv
    <3> QED
      BY <1>2, <1>3, <2>2, <3>1, <3>2
  <2> QED
    BY <1>1, <1>2, <2>1, <2>2 DEF OrderInv, FileLinted
<1>8. SizeInv'
  <2> DEFINE after == CheckForFunctionLengths(lines, n, function_state, v)
  <2>1. /\ FunctionInv(lines, n + 1, after.state)
        /\ n \in EndingLines(lines) =>
             (n \in ErrorLines(after.errors, FnSize) <=> n \in EndsOfLongFunctions(lines, v))
    <3>1. FunctionInv(lines, n, function_state)
      BY <1>1 DEF Inv, SizeInv
    <3> QED
      BY <1>2, <1>3, <1>4, <3>1, FunctionStep
  <2>2. ErrorLines(after.errors, FnSize) \subseteq {n}
    BY <1>1, FunctionEvents
  <2>3. after = FunctionsAt(n)
    BY DEF FunctionsAt
  <2> HIDE DEF after
  <2>4. ASSUME NEW f \in DOMAIN files, NEW m \in EndingLines(TextOf(files[f].lines)),
               m \in Said(raised', f, FnSize)
        PROVE  m \in EndsOfLongFunctions(TextOf(files[f].lines), v)
    <3>1. m \in Said(raised, f, FnSize)
            => m \in EndsOfLongFunctions(TextOf(files[f].lines), v)
      BY <1>1 DEF Inv, SizeInv, Reading
    <3>2. CASE f # filename
      BY <1>2, <1>6, <2>4, <3>1, <3>2
    <3>3. CASE f = filename
      BY <1>2, <1>4, <2>1, <2>2, <2>3, <2>4, <3>1, <3>3
    <3> QED
      BY <3>2, <3>3
  <2>5. ASSUME NEW m \in EndsOfLongFunctions(lines, v), m < n + 1
        PROVE  m \in Said(raised', filename, FnSize)
    <3>1. m \in EndingLines(lines) /\ m \in DOMAIN lines
      BY EndsAreLines, EndingLinesAreLines
    <3>2. m < n => m \in Said(raised, filename, FnSize)
      BY <1>1 DEF Inv, SizeInv
    <3> QED
      BY <1>2, <1>3, <2>1, <2>3, <2>5, <3>1, <3>2
  <2> QED
    BY <1>1, <1>2, <2>1, <2>3, <2>4, <2>5 DEF SizeInv, FileLinted
<1> QED
  BY <1>5, <1>7, <1>8 DEF Inv

(* The invariant holds in every run of cpplint: every action of main() and  *)
(* ProcessFileData keeps it.                                                *)
THEOREM InvHolds == Spec => []Inv
<1>1. Inv /\ [Next]_vars => Inv'
  BY ArgumentsKeepInv, SkipKeepsInv, StartKeepsInv, LineKeepsInv, LineFailsKeepsInv,
     FinishKeepsInv, ExitKeepsInv, StutterKeepsInv DEF Next
<1> QED
  BY <1>1, InitInv, PTL DEF Spec

(* While a file is read, lines holds its cleansed lines and linenum is one  *)
(* of them or the one after the last (ProcessFileData,                      *)
(* cpplint.py:3155-3198).                                                   *)
THEOREM TypesHold == Spec => []TypeInv
BY InvHolds, PTL DEF Inv

(* Whatever the files, the options and the order of the files: when a file  *)
(* has been linted, the order of its includes was reported exactly at the   *)
(* first inclusions of system headers with a header of a later kind above   *)
(* them.  What _IncludeState carries from line to line never hides or       *)
(* causes a report (cpplint.py:437-486 and 2378-2446).                      *)
THEOREM IncludesAreOrderedByKind == Spec => []IncludeOrderByKind
<1>1. Inv => IncludeOrderByKind
  <2> SUFFICES ASSUME Inv, FileLinted
               PROVE  Reported(Order) = MisplacedIncludes(filename, lines)
    BY DEF IncludeOrderByKind, Order
  <2>1. Reported(Order) = Said(raised, filename, Order)
    BY DEF Reported, Said
  <2>2. filename \in DOMAIN files /\ lines = TextOf(files[filename].lines) /\ Reading
    BY DEF Inv, TypeInv, FileLinted, Reading
  <2> QED
    BY <2>1, <2>2 DEF Inv, OrderInv
<1> QED
  BY <1>1, InvHolds, PTL

(* Whatever the files, the options and the trigger sizes: a '}' at column 0 *)
(* is reported for its function's length exactly if the last function above *)
(* it is longer than the verbosity allows, for any number of lines and      *)
(* functions (_FunctionState, cpplint.py:614-667).                          *)
THEOREM LongFunctionsAreReported == Spec => []LongFunctionsReported
<1>1. Inv => LongFunctionsReported
  <2> SUFFICES ASSUME Inv, FileLinted
               PROVE  Reported(FnSize) \cap EndingLines(lines)
                        = EndsOfLongFunctions(lines, cpplint_state.verbose_level)
    BY DEF LongFunctionsReported, FnSize
  <2>1. Reported(FnSize) = Said(raised, filename, FnSize)
    BY DEF Reported, Said
  <2>2. filename \in DOMAIN files /\ lines = TextOf(files[filename].lines) /\ Reading
    BY DEF Inv, TypeInv, FileLinted, Reading
  <2>3. \A n \in EndingLines(lines) : n \in Said(raised, filename, FnSize)
          => n \in EndsOfLongFunctions(lines, cpplint_state.verbose_level)
    BY <2>2 DEF Inv, SizeInv
  <2>4. EndsOfLongFunctions(lines, cpplint_state.verbose_level)
          \subseteq Said(raised, filename, FnSize) \cap EndingLines(lines)
    BY EndsAreLines DEF Inv, SizeInv
  <2> QED
    BY <2>1, <2>3, <2>4
<1> QED
  BY <1>1, InvHolds, PTL

(* The elided lines are sequences.                                         *)
LEMMA SubSeqIsSeq ==
  ASSUME NEW s, NEW m \in Int, NEW n \in Int
  PROVE  IsSeq(SubSeq(s, m, n))
<1> DEFINE S == {s[i] : i \in m .. n}
<1>1. \A i \in m .. n : s[i] \in S
  OBVIOUS
<1> HIDE DEF S
<1>2. SubSeq(s, m, n) \in Seq(S)
  BY <1>1, SubSeqProperties
<1> QED
  BY <1>2 DEF IsSeq

(* First gives an index, or 0.                                              *)
LEMMA FirstIsNumber ==
  ASSUME NEW s, IsSeq(s), NEW token
  PROVE  First(s, token) \in Nat
<1> DEFINE S == {i \in 1 .. Len(s) : s[i] = token}
<1>1. Len(s) \in Nat
  BY SeqFacts
<1>2. S \in SUBSET Nat /\ S \in SUBSET (0 .. Len(s))
  BY <1>1
<1>3. S # {} => Min(S) \in S
  <2> HIDE DEF S
  <2> QED
    BY <1>1, <1>2, Smallest
<1>4. First(s, token) = IF S # {} THEN Min(S) ELSE 0
  BY DEF First, SelectInSeq
<1> QED
  BY <1>2, <1>3, <1>4

(* A line without its comments is a line,                                   *)
LEMMA CleansedIsSeq ==
  ASSUME NEW s, IsSeq(s)
  PROVE  IsSeq(CleanseComments(s))
<1> DEFINE slashes == First(s, "//")
           code == IF slashes > 0 /\ ~IsCppString(s, slashes)
                   THEN SubSeq(s, 1, slashes - 1) ELSE s
           open == First(code, "/*")
           close == SelectLastInSeq(code, LAMBDA t : t = "*/")
           a == SubSeq(code, 1, open - 1)
           b == SubSeq(code, close + 1, Len(code))
<1>1. IsSeq(code)
  <2>1. slashes \in Nat
    BY FirstIsNumber
  <2>2. IsSeq(SubSeq(s, 1, slashes - 1))
    BY <2>1, SubSeqIsSeq
  <2> QED
    BY <2>2
<1> HIDE DEF code
<1>2. open \in Nat /\ close \in Nat /\ Len(code) \in Nat
  <2> DEFINE S == {i \in 1 .. Len(code) : code[i] = "*/"}
  <2>1. Len(code) \in Nat
    BY <1>1, SeqFacts
  <2>2. S \in SUBSET (0 .. Len(code))
    BY <2>1
  <2>3. S # {} => Max(S) \in S
    <3> HIDE DEF S
    <3> QED
      BY <2>1, <2>2, Largest
  <2>4. close = IF S # {} THEN Max(S) ELSE 0
    BY DEF SelectLastInSeq
  <2>5. close \in 0 .. Len(code)
    <3> HIDE DEF S
    <3>1. S # {} => Max(S) \in 0 .. Len(code)
      BY <2>2, <2>3
    <3>2. 0 \in 0 .. Len(code)
      BY <2>1
    <3>3. close = Max(S) \/ close = 0
      BY <2>4
    <3>4. S = {} => close = 0
      BY <2>4
    <3> HIDE DEF close
    <3> QED
      BY <3>1, <3>2, <3>3, <3>4
  <2>6. open \in Nat
    BY <1>1, FirstIsNumber
  <2> QED
    BY <2>1, <2>5, <2>6
<1>3. IsSeq(a) /\ IsSeq(b)
  BY <1>2, SubSeqIsSeq
<1>4. IsSeq(a \o b)
  BY <1>3, ConcatFacts
<1>5. CleanseComments(s) = IF 0 < open /\ open < close THEN a \o b ELSE code
  BY DEF CleanseComments, code
<1> QED
  BY <1>1, <1>4, <1>5

(* and so is one without its strings.                                       *)
LEMMA CollapsedIsSeq ==
  ASSUME NEW s, IsSeq(s)
  PROVE  IsSeq(CollapseStrings(s))
<1> DEFINE closed(i) == \E j \in i + 1 .. Len(s) : s[j] = "\""
           kept == {i \in DOMAIN s : s[i] = "\"" \/ ~IsCppString(s, i) \/ ~closed(i)}
           indices == Ascending(kept)
           result == [k \in DOMAIN indices |-> s[indices[k]]]
<1>1. kept \in SUBSET Nat /\ IsFiniteSet(kept)
  <2>1. Len(s) \in Nat /\ DOMAIN s = 1 .. Len(s)
    BY SeqFacts
  <2>4. kept \in SUBSET (1 .. Len(s))
    BY <2>1
  <2>5. IsFiniteSet(1 .. Len(s))
    BY <2>1, FS_Interval
  <2>2. kept \in SUBSET (1 .. Len(s)) /\ IsFiniteSet(1 .. Len(s))
    BY <2>4, <2>5
  <2> HIDE DEF kept
  <2>3. IsFiniteSet(kept)
    BY <2>2, FS_Subset
  <2> QED
    BY <2>1, <2>2, <2>3
<1>2. indices \in Seq(kept)
  <2> HIDE DEF kept
  <2> QED
    BY <1>1, AscendingLists
<1>3. IsSeq(result)
  <2> HIDE DEF kept, indices
  <2>1. Len(indices) \in Nat /\ DOMAIN indices = 1 .. Len(indices)
    BY <1>2
  <2>2. result \in [1 .. Len(indices) -> {s[indices[k]] : k \in DOMAIN indices}]
    BY <2>1
  <2>3. result \in Seq({s[indices[k]] : k \in DOMAIN indices})
    BY <2>1, <2>2, SeqDef
  <2> QED
    BY <2>3 DEF IsSeq
<1>4. CollapseStrings(s) = IF IsInclude(s) THEN s ELSE result
  BY DEF CollapseStrings
<1> HIDE DEF result
<1> QED
  BY <1>3, <1>4

IsText(text) ==
  /\ Len(text) \in Nat /\ DOMAIN text = 1 .. Len(text)
  /\ \A n \in DOMAIN text : IsSeq(text[n].elided)

(* The cleansed lines of a file are numbered from 1, and each is a          *)
(* sequence.                                                                *)
LEMMA TextIsText ==
  ASSUME NEW own \in Seq(FileLines)
  PROVE  IsText(TextOf(own))
<1> DEFINE raw == Append(own, Marker)
           blanked == RemoveMultiLineComments(raw)
           all == FileLines \cup {Marker, Dummy}
<1>1. raw \in Seq(all)
  <2>1. own \in Seq(all)
    BY SeqMonotonic
  <2> QED
    BY <2>1
<1>2. \A n \in DOMAIN blanked : blanked[n] \in all
  <2>1. \A n \in DOMAIN raw : raw[n] \in all
    BY <1>1
  <2> HIDE DEF raw
  <2> QED
    BY <2>1 DEF RemoveMultiLineComments
<1>3. \A n \in DOMAIN blanked : IsSeq(CleanseComments(CollapseStrings(blanked[n].text)))
  <2> HIDE DEF blanked, all
  <2>1. \A n \in DOMAIN blanked : IsSeq(blanked[n].text)
    BY <1>2, AllAreLines DEF IsLine, all
  <2> QED
    BY <2>1, CleansedIsSeq, CollapsedIsSeq
<1>4. \A n \in DOMAIN TextOf(own) : IsSeq(TextOf(own)[n].elided)
  <2> HIDE DEF blanked
  <2>1. TextOf(own) = CleansedLines(blanked)
    BY DEF TextOf, blanked
  <2> QED
    BY <1>3, <2>1 DEF CleansedLines
<1>5. Len(TextOf(own)) \in Nat /\ DOMAIN TextOf(own) = 1 .. Len(TextOf(own))
  BY TextFacts
<1> QED
  BY <1>4, <1>5 DEF IsText

-------------------------------------------------------------------------------
(* Counting braces over lines.                                             *)
LEMMA PlacesFacts ==
  ASSUME NEW text, IsText(text), NEW brace, NEW a \in Int, NEW b \in Int
  PROVE  /\ IsFiniteSet(Places(text, brace, a, b))
         /\ Cardinality(Places(text, brace, a, b)) \in Nat
<1> DEFINE at(i) == {j \in DOMAIN Elided(text, i) : Elided(text, i)[j] = brace}
           f == [i \in a .. b |-> {i} \X at(i)]
           all == {{i} \X at(i) : i \in a .. b}
<1>1. ASSUME NEW i \in a .. b
      PROVE  IsFiniteSet({i} \X at(i))
  <2>1. IsSeq(Elided(text, i))
    BY EmptyEvents DEF IsText, Elided
  <2>2. Len(Elided(text, i)) \in Nat /\ DOMAIN Elided(text, i) = 1 .. Len(Elided(text, i))
    BY <2>1, SeqFacts
  <2>3. IsFiniteSet(DOMAIN Elided(text, i))
    BY <2>2, FS_Interval
  <2>4. at(i) \in SUBSET DOMAIN Elided(text, i)
    OBVIOUS
  <2>5. IsFiniteSet(at(i)) /\ IsFiniteSet({i})
    <3> HIDE DEF at
    <3> QED
      BY <2>3, <2>4, FS_Subset, FS_Singleton
  <2> HIDE DEF at
  <2> QED
    BY <2>5, FS_Product
<1>2. IsFiniteSet(all)
  <2>1. f \in Surjection(a .. b, all)
    <3> HIDE DEF at
    <3> QED
      BY DEF Surjection
  <2>2. IsFiniteSet(a .. b)
    BY FS_Interval
  <2> HIDE DEF f, all
  <2> QED
    BY <2>1, <2>2, FS_Surjection
<1>3. \A T \in all : IsFiniteSet(T)
  <2> HIDE DEF at
  <2> QED
    BY <1>1
<1>4. Places(text, brace, a, b) = UNION all
  BY DEF Places
<1> HIDE DEF all
<1> QED
  BY <1>2, <1>3, <1>4, FS_UNION, FS_CardinalityType

(* The braces of a range of lines are those of its two parts.               *)
LEMMA PlacesAdd ==
  ASSUME NEW text, IsText(text), NEW brace, NEW a \in Int, NEW b \in Int, NEW c \in Int,
         a <= b + 1, b <= c
  PROVE  Cardinality(Places(text, brace, a, c)) =
           Cardinality(Places(text, brace, a, b)) + Cardinality(Places(text, brace, b + 1, c))
<1> DEFINE S == Places(text, brace, a, b)
           T == Places(text, brace, b + 1, c)
<1>1. a .. c = (a .. b) \cup (b + 1 .. c) /\ (a .. b) \cap (b + 1 .. c) = {}
  OBVIOUS
<1>2. Places(text, brace, a, c) = S \cup T
  BY <1>1 DEF Places
<1>3. S \cap T = {}
  <2>1. ASSUME NEW x \in S, x \in T
        PROVE  FALSE
    <3>1. x[1] \in a .. b
      BY DEF Places
    <3>2. x[1] \in b + 1 .. c
      BY <2>1 DEF Places
    <3> QED
      BY <1>1, <3>1, <3>2
  <2> QED
    BY <2>1
<1>4. /\ IsFiniteSet(S) /\ IsFiniteSet(T)
      /\ Cardinality(S) \in Nat /\ Cardinality(T) \in Nat
  <2>1. b + 1 \in Int
    OBVIOUS
  <2> QED
    BY <2>1, PlacesFacts
<1>5. Cardinality(S \cap T) = 0
  BY <1>3, FS_EmptySet
<1> HIDE DEF S, T
<1>6. Cardinality(S \cup T) = Cardinality(S) + Cardinality(T)
  <2>1. Cardinality(S \cup T) = Cardinality(S) + Cardinality(T) - Cardinality(S \cap T)
    BY <1>4, FS_Union
  <2> QED
    BY <1>4, <1>5, <2>1
<1> QED
  BY <1>2, <1>6 DEF S, T

(* Differences add up.                                                      *)
LEMMA SumOfDifferences ==
  ASSUME NEW o1 \in Nat, NEW o2 \in Nat, NEW c1 \in Nat, NEW c2 \in Nat, NEW o, NEW c,
         o = o1 + o2, c = c1 + c2
  PROVE  /\ o - c = (o1 - c1) + (o2 - c2)
         /\ o - c \in Int /\ o1 - c1 \in Int /\ o2 - c2 \in Int
OBVIOUS

(* The balance of a range of lines is the sum of that of its two parts.     *)
LEMMA BalanceAdd ==
  ASSUME NEW text, IsText(text), NEW a \in Int, NEW b \in Int, NEW c \in Int,
         a <= b + 1, b <= c
  PROVE  /\ Balance(text, a, c) = Balance(text, a, b) + Balance(text, b + 1, c)
         /\ Balance(text, a, b) \in Int /\ Balance(text, b + 1, c) \in Int
         /\ Balance(text, a, c) \in Int
<1> DEFINE p(brace, x, y) == Cardinality(Places(text, brace, x, y))
<1>1. ASSUME NEW brace
      PROVE  /\ p(brace, a, c) = p(brace, a, b) + p(brace, b + 1, c)
             /\ p(brace, a, b) \in Nat /\ p(brace, b + 1, c) \in Nat /\ p(brace, a, c) \in Nat
  <2>1. b + 1 \in Int
    OBVIOUS
  <2> QED
    BY <2>1, PlacesAdd, PlacesFacts
<1>2. \A x, y : Balance(text, x, y) = p("{", x, y) - p("}", x, y)
  BY DEF Balance
<1> HIDE DEF p
<1>3. /\ p("{", a, c) = p("{", a, b) + p("{", b + 1, c)
      /\ p("{", a, b) \in Nat /\ p("{", b + 1, c) \in Nat /\ p("{", a, c) \in Nat
  BY <1>1
<1>4. /\ p("}", a, c) = p("}", a, b) + p("}", b + 1, c)
      /\ p("}", a, b) \in Nat /\ p("}", b + 1, c) \in Nat /\ p("}", a, c) \in Nat
  BY <1>1
<1>5. /\ Balance(text, a, c) = p("{", a, c) - p("}", a, c)
      /\ Balance(text, a, b) = p("{", a, b) - p("}", a, b)
      /\ Balance(text, b + 1, c) = p("{", b + 1, c) - p("}", b + 1, c)
  BY <1>2
<1>6. PICK o, o1, o2, k, k1, k2 :
        /\ o = p("{", a, c) /\ o1 = p("{", a, b) /\ o2 = p("{", b + 1, c)
        /\ k = p("}", a, c) /\ k1 = p("}", a, b) /\ k2 = p("}", b + 1, c)
  BY Zenon
<1>7. /\ o1 \in Nat /\ o2 \in Nat /\ k1 \in Nat /\ k2 \in Nat
      /\ o = o1 + o2 /\ k = k1 + k2
  BY <1>3, <1>4, <1>6, Zenon
<1>8. /\ o - k = (o1 - k1) + (o2 - k2)
      /\ o - k \in Int /\ o1 - k1 \in Int /\ o2 - k2 \in Int
  BY <1>7, SumOfDifferences
<1>9. /\ Balance(text, a, c) = o - k
      /\ Balance(text, a, b) = o1 - k1
      /\ Balance(text, b + 1, c) = o2 - k2
  BY <1>5, <1>6, Zenon
<1> QED
  BY <1>8, <1>9, Zenon

(* A line's balance is what the class state adds.                          *)
LEMMA BalanceOfLine ==
  ASSUME NEW text, IsText(text), NEW n \in Int
  PROVE  /\ Balance(text, n, n) = Count(Elided(text, n), "{") - Count(Elided(text, n), "}")
         /\ Count(Elided(text, n), "{") \in Nat /\ Count(Elided(text, n), "}") \in Nat
         /\ ~Occurs(Elided(text, n), "{") <=> Count(Elided(text, n), "{") = 0
         /\ ~Occurs(Elided(text, n), "}") <=> Count(Elided(text, n), "}") = 0
<1> DEFINE line == Elided(text, n)
           at(brace) == {j \in DOMAIN line : line[j] = brace}
<1>1. IsFiniteSet(DOMAIN line)
  <2>1. IsSeq(line)
    BY EmptyEvents DEF IsText, Elided
  <2>2. Len(line) \in Nat /\ DOMAIN line = 1 .. Len(line)
    BY <2>1, SeqFacts
  <2> QED
    BY <2>2, FS_Interval
<1>2. ASSUME NEW brace
      PROVE  /\ Cardinality(Places(text, brace, n, n)) = Count(line, brace)
             /\ Count(line, brace) \in Nat
             /\ ~Occurs(line, brace) <=> Count(line, brace) = 0
  <2>1. n .. n = {n}
    OBVIOUS
  <2>2. Places(text, brace, n, n) = {n} \X at(brace)
    BY <2>1 DEF Places
  <2>3. at(brace) \in SUBSET DOMAIN line
    OBVIOUS
  <2>4. IsFiniteSet(at(brace))
    <3> HIDE DEF at, line
    <3> QED
      BY <1>1, <2>3, FS_Subset
  <2>5. Count(line, brace) = Cardinality(at(brace))
    BY DEF Count
  <2>6. Occurs(line, brace) <=> at(brace) # {}
    BY DEF Occurs, ToSet
  <2> HIDE DEF at, line
  <2>7. Cardinality(at(brace)) \in Nat /\ (Cardinality(at(brace)) = 0 <=> at(brace) = {})
    BY <2>4, FS_CardinalityType, FS_EmptySet
  <2>8. IsFiniteSet({n}) /\ Cardinality({n}) = 1
    BY FS_Singleton
  <2>9. Cardinality({n} \X at(brace)) = Cardinality({n}) * Cardinality(at(brace))
    BY <2>4, <2>8, FS_Product
  <2> QED
    BY <2>2, <2>5, <2>6, <2>7, <2>8, <2>9
<1> HIDE DEF line
<1>3. /\ Cardinality(Places(text, "{", n, n)) = Count(line, "{")
      /\ Count(line, "{") \in Nat
      /\ ~Occurs(line, "{") <=> Count(line, "{") = 0
  BY <1>2
<1>4. /\ Cardinality(Places(text, "}", n, n)) = Count(line, "}")
      /\ Count(line, "}") \in Nat
      /\ ~Occurs(line, "}") <=> Count(line, "}") = 0
  BY <1>2
<1> QED
  BY <1>3, <1>4 DEF Balance, line

(* Zero from zero is zero.                                                  *)
LEMMA NoDifference == 0 - 0 = 0
OBVIOUS

(* Without braces there is nothing to balance.                              *)
LEMMA NoPlacesNoBalance ==
  ASSUME NEW text, NEW a \in Int, NEW b \in Int,
         Places(text, "{", a, b) = {}, Places(text, "}", a, b) = {}
  PROVE  Balance(text, a, b) = 0
<1>1. /\ Cardinality(Places(text, "{", a, b)) = 0
      /\ Cardinality(Places(text, "}", a, b)) = 0
  BY FS_EmptySet
<1>2. Balance(text, a, b) = 0 - 0
  BY <1>1, Zenon DEF Balance
<1> QED
  BY <1>2, NoDifference, Zenon

(* Lines without braces have no balance.                                   *)
LEMMA BalanceOfNone ==
  ASSUME NEW text, NEW a \in Int, NEW b \in Int,
         \A i \in a .. b : ~Occurs(Elided(text, i), "{") /\ ~Occurs(Elided(text, i), "}")
  PROVE  Balance(text, a, b) = 0
<1>1. Places(text, "{", a, b) = {} /\ Places(text, "}", a, b) = {}
  <2>1. ASSUME NEW i \in a .. b, NEW brace \in {"{", "}"}
        PROVE  {j \in DOMAIN Elided(text, i) : Elided(text, i)[j] = brace} = {}
    BY DEF Occurs, ToSet
  <2>2. ASSUME NEW brace \in {"{", "}"}
        PROVE  Places(text, brace, a, b) = {}
    <3>1. ASSUME NEW x \in Places(text, brace, a, b)
          PROVE  FALSE
      <4>1. PICK i \in a .. b :
              x \in {i} \X {j \in DOMAIN Elided(text, i) : Elided(text, i)[j] = brace}
        BY DEF Places
      <4> QED
        BY <2>1, <4>1
    <3> QED
      BY <3>1
  <2> QED
    BY <2>2
<1> QED
  BY <1>1, NoPlacesNoBalance

Opens(text, n) == Count(Elided(text, n), "{")
Closes(text, n) == Count(Elided(text, n), "}")
Ends(text, n) == Occurs(Elided(text, n), ";")
Declared(text, n) == DeclaredName(Elided(text, n)) # ""

(* The balance of one line is its '{' less its '}'.                         *)
LEMMA LineBraces ==
  ASSUME NEW text, IsText(text), NEW n \in Int
  PROVE  /\ Balance(text, n, n) = Opens(text, n) - Closes(text, n)
         /\ Opens(text, n) \in Nat /\ Closes(text, n) \in Nat
BY BalanceOfLine, Zenon DEF Opens, Closes

(* Lines that count no braces have no balance.                              *)
LEMMA NoBracesNoBalance ==
  ASSUME NEW text, IsText(text), NEW a \in Int, NEW b \in Int,
         \A i \in a .. b : Opens(text, i) = 0 /\ Closes(text, i) = 0
  PROVE  Balance(text, a, b) = 0
<1>1. \A i \in a .. b : i \in Int
  OBVIOUS
<1>2. \A i \in a .. b : ~Occurs(Elided(text, i), "{") /\ ~Occurs(Elided(text, i), "}")
  BY <1>1, BalanceOfLine, Zenon DEF Opens, Closes
<1> QED
  BY <1>2, BalanceOfNone, Zenon

(* The head of a class ends at its first '{' or ';', or after the last      *)
(* line.                                                                    *)
LEMMA HeadFacts ==
  ASSUME NEW text, IsText(text), NEW n \in 1 .. Len(text)
  PROVE  /\ HeadEnd(text, n) \in n .. Len(text) + 1
         /\ \A m \in n .. HeadEnd(text, n) - 1 : Opens(text, m) = 0 /\ ~Ends(text, m)
         /\ HeadEnd(text, n) <= Len(text) =>
              Opens(text, HeadEnd(text, n)) # 0 \/ Ends(text, HeadEnd(text, n))
<1> DEFINE Cut(m) == {"{", ";"} \cap ToSet(Elided(text, m)) # {}
           S == {m \in n .. Len(text) : Cut(m)} \cup {Len(text) + 1}
<1>1. Len(text) \in Nat
  BY DEF IsText
<1>2. \A m \in n .. Len(text) : Cut(m) <=> Opens(text, m) # 0 \/ Ends(text, m)
  <2>1. \A m \in n .. Len(text) : m \in Int
    BY <1>1
  <2>2. \A m \in n .. Len(text) : Cut(m) <=> Occurs(Elided(text, m), "{") \/ Ends(text, m)
    BY Zenon DEF Occurs, Ends
  <2> HIDE DEF Cut
  <2> QED
    BY <2>1, <2>2, BalanceOfLine, Zenon DEF Opens
<1>3. HeadEnd(text, n) = Min(S)
  BY Zenon DEF HeadEnd
<1> HIDE DEF Cut
<1>4. S \in SUBSET Nat /\ S # {}
  BY <1>1
<1>5. Min(S) \in S /\ \A y \in S : Min(S) <= y
  <2> HIDE DEF S
  <2> QED
    BY <1>4, Smallest
<1>6. Min(S) \in n .. Len(text) + 1
  BY <1>1, <1>5
<1>7. ASSUME NEW m \in n .. Min(S) - 1
      PROVE  Opens(text, m) = 0 /\ ~Ends(text, m)
  <2>1. m \in n .. Len(text) /\ ~(Min(S) <= m)
    BY <1>1, <1>6
  <2>2. m \notin S
    BY <1>5, <2>1
  <2> QED
    BY <1>2, <2>1, <2>2
<1>8. ASSUME Min(S) <= Len(text)
      PROVE  Opens(text, Min(S)) # 0 \/ Ends(text, Min(S))
  <2>1. Min(S) \in n .. Len(text) /\ Cut(Min(S))
    BY <1>1, <1>5, <1>6, <1>8
  <2> QED
    BY <1>2, <2>1
<1> HIDE DEF S
<1> QED
  BY <1>3, <1>6, <1>7, <1>8

(* What a tidy file says of the head of a class.                            *)
LEMMA TidyFacts ==
  ASSUME NEW text, IsText(text), NEW last \in 0 .. Len(text), IsTidy(text, last)
  PROVE  /\ \A n \in 1 .. last : Balance(text, n, n) >= -1
         /\ \A n \in 1 .. last : Declared(text, n) =>
              /\ \A m \in n .. HeadEnd(text, n) : Closes(text, m) = 0
              /\ \A m \in n .. HeadEnd(text, n) : Declared(text, m) => m = n
              /\ ~(Opens(text, HeadEnd(text, n)) # 0 /\ Ends(text, HeadEnd(text, n)))
<1>1. \A n \in 1 .. last : Balance(text, n, n) >= -1
  BY Zenon DEF IsTidy
<1>2. ASSUME NEW n \in 1 .. last, Declared(text, n)
      PROVE  /\ \A m \in n .. HeadEnd(text, n) : Closes(text, m) = 0
             /\ \A m \in n .. HeadEnd(text, n) : Declared(text, m) => m = n
             /\ ~(Opens(text, HeadEnd(text, n)) # 0 /\ Ends(text, HeadEnd(text, n)))
  <2>1. n \in 1 .. Len(text) /\ HeadEnd(text, n) \in Int
        /\ \A m \in n .. HeadEnd(text, n) : m \in Int
    <3>1. n \in 1 .. Len(text) /\ Len(text) \in Nat
      BY DEF IsText
    <3>2. HeadEnd(text, n) \in Int
      BY <3>1, HeadFacts
    <3> QED
      BY <3>1, <3>2
  <2>2. n \in Declarations(text, last)
    BY <1>2, Zenon DEF Declarations, Declared
  <2>3. \A m \in n .. HeadEnd(text, n) : ~Occurs(Elided(text, m), "}")
    BY <2>2, Zenon DEF IsTidy
  <2>4. \A m \in n .. HeadEnd(text, n) : Declared(text, m) => m = n
    BY <2>2, Zenon DEF IsTidy, Declared
  <2>5. ~({"{", ";"} \subseteq ToSet(Elided(text, HeadEnd(text, n))))
    BY <2>2, Zenon DEF IsTidy
  <2>6. ~(Occurs(Elided(text, HeadEnd(text, n)), "{") /\ Ends(text, HeadEnd(text, n)))
    BY <2>5, Zenon DEF Occurs, Ends
  <2>7. Opens(text, HeadEnd(text, n)) # 0 => Occurs(Elided(text, HeadEnd(text, n)), "{")
    BY <2>1, BalanceOfLine, Zenon DEF Opens
  <2>8. \A m \in n .. HeadEnd(text, n) : Closes(text, m) = 0
    BY <2>1, <2>3, BalanceOfLine, Zenon DEF Closes
  <2> QED
    BY <2>4, <2>6, <2>7, <2>8, Zenon
<1> QED
  BY <1>1, <1>2, Zenon

(* A file that is tidy down to a line is tidy down to the line above.       *)
LEMMA TidyAbove ==
  ASSUME NEW text, NEW n \in Nat, IsTidy(text, n)
  PROVE  IsTidy(text, n - 1)
<1>1. \A m : m \in 1 .. n - 1 => m \in 1 .. n
  OBVIOUS
<1>2. \A m : m \in Declarations(text, n - 1) => m \in Declarations(text, n)
  BY <1>1, Zenon DEF Declarations
<1> QED
  BY <1>1, <1>2, Zenon DEF IsTidy

(* The head of a class holds no brace before its end.                       *)
LEMMA HeadHasNoBraces ==
  ASSUME NEW text, IsText(text), NEW last \in 0 .. Len(text), IsTidy(text, last),
         NEW n \in 1 .. last, Declared(text, n), NEW b \in Int, b < HeadEnd(text, n)
  PROVE  Balance(text, n, b) = 0
<1>1. n \in 1 .. Len(text) /\ Len(text) \in Nat
  BY DEF IsText
<1>2. /\ HeadEnd(text, n) \in Int
      /\ \A m \in n .. HeadEnd(text, n) - 1 : Opens(text, m) = 0
  BY <1>1, HeadFacts
<1>3. \A m \in n .. HeadEnd(text, n) : Closes(text, m) = 0
  BY TidyFacts
<1>4. \A m \in n .. b : m \in n .. HeadEnd(text, n) - 1 /\ m \in n .. HeadEnd(text, n)
  BY <1>1, <1>2
<1>5. \A m \in n .. b : Opens(text, m) = 0 /\ Closes(text, m) = 0
  BY <1>2, <1>3, <1>4
<1> QED
  BY <1>5, NoBracesNoBalance

(* What the next line changes of the classes that are open.                *)
LEMMA OpenNext ==
  ASSUME NEW text, IsText(text), NEW n \in 1 .. Len(text), NEW d
  PROVE  d \in OpenClasses(text, n) <=>
           /\ d \in OpenClasses(text, n - 1) \/ (d = n /\ Declared(text, n))
           /\ HeadEnd(text, d) <= n =>
                ~IsForward(text, d) /\ Balance(text, HeadEnd(text, d), n) > 0
<1> DEFINE H == HeadEnd(text, d)
<1>1. Len(text) \in Nat /\ n \in Int /\ \A m \in 1 .. n : m \in 1 .. Len(text)
  BY DEF IsText
<1>2. \A last : d \in OpenClasses(text, last) <=>
        /\ d \in 1 .. last /\ Declared(text, d)
        /\ H <= last =>
             ~IsForward(text, d) /\ \A m \in H .. last : Balance(text, H, m) > 0
  BY Zenon DEF OpenClasses, Declarations, Declared
<1>3. CASE d \in 1 .. n
  <2>1. d \in 1 .. Len(text) /\ d \in Nat
    BY <1>1, <1>3
  <2>2. H \in d .. Len(text) + 1
    BY <2>1, HeadFacts
  <2> HIDE DEF H
  <2>3. H \in Int /\ (d \in 1 .. n - 1 \/ d = n) /\ H >= d
    BY <1>1, <1>3, <2>1, <2>2
  <2>4. (\A m \in H .. n : Balance(text, H, m) > 0) <=>
          (\A m \in H .. n - 1 : Balance(text, H, m) > 0)
          /\ (H <= n => Balance(text, H, n) > 0)
    <3>1. \A m : m \in H .. n <=> m \in H .. n - 1 \/ (m = n /\ H <= n)
      BY <1>1, <2>3
    <3> QED
      BY <3>1
  <2>5. H > n - 1 => \A m \in H .. n - 1 : FALSE
    BY <1>1, <2>3
  <2>6. H <= n - 1 <=> H <= n /\ ~(H > n - 1)
    BY <1>1, <2>3
  <2>7. d = n => d \notin 1 .. n - 1 /\ H > n - 1
    BY <1>1, <2>3
  <2>8. d \in OpenClasses(text, n) <=>
          /\ Declared(text, d)
          /\ H <= n => ~IsForward(text, d) /\ \A m \in H .. n : Balance(text, H, m) > 0
    BY <1>2, <1>3
  <2>9. d \in OpenClasses(text, n - 1) <=>
          /\ d # n /\ Declared(text, d)
          /\ H <= n - 1 =>
               ~IsForward(text, d) /\ \A m \in H .. n - 1 : Balance(text, H, m) > 0
    BY <1>2, <2>3, <2>7
  <2> QED
    BY <2>4, <2>5, <2>6, <2>7, <2>8, <2>9, Zenon DEF H
<1>4. CASE d \notin 1 .. n
  <2>1. d \notin 1 .. n - 1 /\ d # n
    BY <1>1, <1>4
  <2> QED
    BY <1>2, <1>4, <2>1, Zenon
<1> QED
  BY <1>3, <1>4

(* The fields of a _ClassInfo.                                             *)
IsClass(c) ==
  DOMAIN c = {"name", "linenum", "seen_open_brace", "is_derived", "virtual_method",
              "has_virtual_destructor", "brace_depth", "last_line"}

(* The stack holds the classes of open, outermost first.  All but the last *)
(* have seen their '{', and each has counted the braces from there to the  *)
(* next class, the last to the line above n.                               *)
StackInv(text, n, open, stack) ==
  /\ IsSeq(stack)
  /\ \A i \in DOMAIN stack : IsClass(stack[i]) /\ stack[i].linenum \in open
  /\ \A d \in open : \E i \in DOMAIN stack : stack[i].linenum = d
  /\ \A i, j \in DOMAIN stack : i < j => stack[i].linenum < stack[j].linenum
  /\ \A i \in DOMAIN stack :
       stack[i].seen_open_brace =
         IF HeadEnd(text, stack[i].linenum) < n THEN TRUE ELSE FALSE
  /\ \A i \in DOMAIN stack : i + 1 \in DOMAIN stack =>
       stack[i].brace_depth =
         Balance(text, HeadEnd(text, stack[i].linenum), stack[i + 1].linenum - 1)
  /\ \A i \in DOMAIN stack : i + 1 \notin DOMAIN stack =>
       stack[i].brace_depth =
         IF HeadEnd(text, stack[i].linenum) < n
         THEN Balance(text, HeadEnd(text, stack[i].linenum), n - 1)
         ELSE 0

(* The classes that are on the stack while line n is looked at.            *)
OpenOrDeclared(text, n) ==
  OpenClasses(text, n - 1) \cup (IF Declared(text, n) THEN {n} ELSE {})

(* A class that is open was declared, is no forward declaration, and has    *)
(* had more { than } at every line of its body.                             *)
LEMMA OpenAreDeclared ==
  ASSUME NEW text, NEW last, NEW d \in OpenClasses(text, last)
  PROVE  /\ d \in 1 .. last /\ Declared(text, d)
         /\ HeadEnd(text, d) <= last =>
              /\ ~IsForward(text, d)
              /\ \A m \in HeadEnd(text, d) .. last : Balance(text, HeadEnd(text, d), m) > 0
BY Zenon DEF OpenClasses, Declarations, Declared

(* So is one that the line declares; and the next declaration is below the  *)
(* end of its head.                                                         *)
LEMMA OpenOrDeclaredFacts ==
  ASSUME NEW text, IsText(text), NEW n \in 1 .. Len(text), IsTidy(text, n),
         NEW d \in OpenOrDeclared(text, n)
  PROVE  /\ d \in 1 .. n /\ Declared(text, d) /\ d \in 1 .. Len(text)
         /\ HeadEnd(text, d) \in d .. Len(text) + 1
         /\ HeadEnd(text, d) < n => d \in OpenClasses(text, n - 1)
         /\ \A e \in 1 .. Len(text) : Declared(text, e) /\ d < e => HeadEnd(text, d) < e
<1>1. Len(text) \in Nat /\ n \in Nat /\ \A m \in 1 .. n - 1 : m \in 1 .. n
  BY DEF IsText
<1>2. d \in OpenClasses(text, n - 1) \/ (d = n /\ Declared(text, n))
  BY DEF OpenOrDeclared
<1>3. d \in 1 .. n /\ Declared(text, d)
  BY <1>1, <1>2, OpenAreDeclared
<1>4. d \in 1 .. Len(text)
  BY <1>1, <1>3
<1>5. HeadEnd(text, d) \in d .. Len(text) + 1
  BY <1>4, HeadFacts
<1>6. HeadEnd(text, d) < n => d # n
  BY <1>1, <1>4, <1>5
<1>7. ASSUME NEW e \in 1 .. Len(text), Declared(text, e), d < e
      PROVE  HeadEnd(text, d) < e
  <2>1. n \in 0 .. Len(text)
    BY <1>1
  <2>2. \A m \in d .. HeadEnd(text, d) : Declared(text, m) => m = d
    BY <1>3, <2>1, TidyFacts
  <2>3. e \notin d .. HeadEnd(text, d)
    BY <1>4, <1>7, <2>2
  <2> QED
    BY <1>4, <1>5, <1>7, <2>3
<1> QED
  BY <1>2, <1>3, <1>4, <1>5, <1>6, <1>7

(* Append, index by index.                                                  *)
LEMMA AppendFacts ==
  ASSUME NEW s, IsSeq(s), NEW c
  PROVE  /\ IsSeq(Append(s, c)) /\ Len(Append(s, c)) = Len(s) + 1
         /\ Append(s, c)[Len(s) + 1] = c
         /\ \A i \in 1 .. Len(s) : Append(s, c)[i] = s[i]
         /\ DOMAIN Append(s, c) = 1 .. Len(s) + 1
<1>1. PICK S : s \in Seq(S)
  BY DEF IsSeq
<1>2. s \in Seq(S \cup {c})
  BY <1>1, SeqMonotonic
<1>3. Append(s, c) \in Seq(S \cup {c})
  BY <1>2
<1> QED
  BY <1>2, <1>3 DEF IsSeq

(* Front and Last, index by index.                                          *)
LEMMA FrontFacts ==
  ASSUME NEW s, IsSeq(s), s # <<>>
  PROVE  /\ Len(s) \in Nat \ {0}
         /\ IsSeq(Front(s)) /\ Len(Front(s)) = Len(s) - 1
         /\ DOMAIN Front(s) = 1 .. Len(s) - 1
         /\ \A i \in 1 .. Len(s) - 1 : Front(s)[i] = s[i]
         /\ Last(s) = s[Len(s)]
<1>1. PICK S : s \in Seq(S)
  BY DEF IsSeq
<1>2. Len(s) \in Nat \ {0}
  BY <1>1
<1>3. Front(s) = SubSeq(s, 1, Len(s) - 1) /\ Last(s) = s[Len(s)]
  BY DEF Front, Last
<1>4. \A i \in 1 .. Len(s) - 1 : s[i] \in S
  BY <1>1
<1>5. /\ SubSeq(s, 1, Len(s) - 1) \in Seq(S)
      /\ Len(SubSeq(s, 1, Len(s) - 1)) = Len(s) - 1
      /\ \A i \in 1 .. Len(s) - 1 : SubSeq(s, 1, Len(s) - 1)[i] = s[i]
  <2> DEFINE n == Len(s) - 1
  <2>1. n \in Int /\ 1 \in Int
    BY <1>2
  <2>2. /\ SubSeq(s, 1, n) \in Seq(S)
        /\ Len(SubSeq(s, 1, n)) = IF 1 <= n THEN n - 1 + 1 ELSE 0
        /\ \A i \in 1 .. n - 1 + 1 : SubSeq(s, 1, n)[i] = s[1 + i - 1]
    <3> HIDE DEF n
    <3> QED
      BY <1>4, <2>1, SubSeqProperties DEF n
  <2>3. n - 1 + 1 = n /\ (~(1 <= n) => n = 0)
    <3>1. n \in Nat
      BY <1>2
    <3> HIDE DEF n
    <3> QED
      BY <3>1
  <2>4. \A i \in 1 .. n : 1 + i - 1 = i
    OBVIOUS
  <2> HIDE DEF n
  <2>5. Len(SubSeq(s, 1, n)) = n
    BY <2>2, <2>3
  <2>6. \A i \in 1 .. n : SubSeq(s, 1, n)[i] = s[i]
    BY <2>2, <2>3, <2>4
  <2> QED
    BY <2>2, <2>5, <2>6 DEF n
<1> QED
  BY <1>2, <1>3, <1>5, SMTT(40) DEF IsSeq

(* Pushing the class a line declares: the class that was innermost has seen *)
(* its {, and has counted the lines above.                                  *)
LEMMA PushKeepsStack ==
  ASSUME NEW text, IsText(text), NEW n \in 1 .. Len(text), IsTidy(text, n), NEW stack,
         StackInv(text, n, OpenClasses(text, n - 1), stack), NEW name
  PROVE  StackInv(text, n, OpenOrDeclared(text, n),
                  IF Declared(text, n) THEN Append(stack, ClassInfo(name, text, n)) ELSE stack)
<1>1. CASE ~Declared(text, n)
  <2>1. OpenOrDeclared(text, n) = OpenClasses(text, n - 1)
    BY <1>1 DEF OpenOrDeclared
  <2> QED
    BY <1>1, <2>1
<1>2. CASE Declared(text, n)
  <2> DEFINE c == ClassInfo(name, text, n)
             pushed == Append(stack, c)
             old == OpenClasses(text, n - 1)
             k == Len(stack)
  <2>1. OpenOrDeclared(text, n) = old \cup {n}
    BY <1>2 DEF OpenOrDeclared
  <2>2. IsClass(c) /\ c.linenum = n /\ c.seen_open_brace = FALSE /\ c.brace_depth = 0
    BY DEF ClassInfo, IsClass
  <2>3. HeadEnd(text, n) >= n /\ n \in Nat /\ Len(text) \in Nat
    BY HeadFacts DEF IsText
  <2> HIDE DEF c
  <2>4. IsSeq(stack) /\ k \in Nat /\ DOMAIN stack = 1 .. k
    BY SeqFacts DEF StackInv
  <2>5. /\ IsSeq(pushed) /\ DOMAIN pushed = 1 .. k + 1 /\ pushed[k + 1] = c
        /\ \A i \in 1 .. k : pushed[i] = stack[i]
    BY <2>4, AppendFacts
  <2> HIDE DEF pushed, k
  <2>6. \A i \in 1 .. k + 1 : i \in 1 .. k \/ i = k + 1
    BY <2>4
  <2>7. \A d \in old : d < n /\ HeadEnd(text, d) < n
    <3>1. \A d \in old : d \in 1 .. n - 1
      BY OpenAreDeclared
    <3>2. \A d \in old : d \in OpenOrDeclared(text, n)
      BY <2>1
    <3>3. \A d \in old : d < n
      BY <2>3, <3>1
    <3> QED
      BY <1>2, <3>2, <3>3, OpenOrDeclaredFacts
  <2>8. \A i \in 1 .. k : /\ IsClass(stack[i]) /\ stack[i].linenum \in old
                          /\ stack[i].linenum < n /\ HeadEnd(text, stack[i].linenum) < n
                          /\ stack[i].seen_open_brace = TRUE
    BY <2>4, <2>7, ZenonT(40) DEF StackInv
  <2>9. \A i \in DOMAIN pushed : IsClass(pushed[i]) /\ pushed[i].linenum \in old \cup {n}
    BY <2>2, <2>5, <2>6, <2>8
  <2>10. \A d \in old \cup {n} : \E i \in DOMAIN pushed : pushed[i].linenum = d
    <3>1. ASSUME NEW d \in old
          PROVE  \E i \in DOMAIN pushed : pushed[i].linenum = d
      <4>1. PICK i \in 1 .. k : stack[i].linenum = d
        BY <2>4 DEF StackInv
      <4> QED
        BY <2>4, <2>5, <4>1
    <3>2. k + 1 \in DOMAIN pushed
      BY <2>4, <2>5
    <3> QED
      BY <2>2, <2>5, <3>1, <3>2
  <2>11. ASSUME NEW i \in DOMAIN pushed, NEW j \in DOMAIN pushed, i < j
         PROVE  pushed[i].linenum < pushed[j].linenum
    <3>1. i \in 1 .. k
      BY <2>4, <2>5, <2>11
    <3>2. CASE j \in 1 .. k
      BY <2>4, <2>5, <2>11, <3>1, <3>2 DEF StackInv
    <3>3. CASE j = k + 1
      BY <2>2, <2>5, <2>8, <3>1, <3>3
    <3> QED
      BY <2>5, <2>6, <3>2, <3>3
  <2>12. ASSUME NEW i \in DOMAIN pushed
         PROVE  pushed[i].seen_open_brace =
                  IF HeadEnd(text, pushed[i].linenum) < n THEN TRUE ELSE FALSE
    <3>1. CASE i \in 1 .. k
      BY <2>5, <2>8, <3>1
    <3>2. CASE i = k + 1
      <4>1. ~(HeadEnd(text, n) < n)
        <5>1. HeadEnd(text, n) \in Int
          BY <2>3, HeadFacts
        <5> QED
          BY <2>3, <5>1
      <4> QED
        BY <2>2, <2>5, <3>2, <4>1
    <3> QED
      BY <2>5, <2>6, <3>1, <3>2
  <2>13. ASSUME NEW i \in DOMAIN pushed, i + 1 \in DOMAIN pushed
         PROVE  pushed[i].brace_depth =
                  Balance(text, HeadEnd(text, pushed[i].linenum), pushed[i + 1].linenum - 1)
    <3>1. i \in 1 .. k /\ i + 1 \in 1 .. k + 1
      BY <2>4, <2>5, <2>13
    <3>2. CASE i + 1 \in 1 .. k
      BY <2>4, <2>5, <3>1, <3>2 DEF StackInv
    <3>3. CASE i + 1 = k + 1
      <4>1. i + 1 \notin 1 .. k
        BY <2>4, <3>3
      <4>2. stack[i].brace_depth = Balance(text, HeadEnd(text, stack[i].linenum), n - 1)
        BY <2>4, <2>8, <3>1, <4>1 DEF StackInv
      <4> QED
        BY <2>2, <2>5, <3>1, <3>3, <4>2
    <3> QED
      BY <2>6, <3>1, <3>2, <3>3
  <2>14. ASSUME NEW i \in DOMAIN pushed, i + 1 \notin DOMAIN pushed
         PROVE  pushed[i].brace_depth =
                  IF HeadEnd(text, pushed[i].linenum) < n
                  THEN Balance(text, HeadEnd(text, pushed[i].linenum), n - 1)
                  ELSE 0
    <3>1. i = k + 1
      BY <2>4, <2>5, <2>14
    <3>2. HeadEnd(text, n) \in Int
      BY <2>3, HeadFacts
    <3>3. ~(HeadEnd(text, n) < n)
      BY <2>3, <3>2
    <3> QED
      BY <2>2, <2>5, <3>1, <3>3
  <2> HIDE DEF old
  <2>15. StackInv(text, n, old \cup {n}, pushed)
    BY <2>5, <2>9, <2>10, <2>11, <2>12, <2>13, <2>14 DEF StackInv
  <2> QED
    BY <1>2, <2>1, <2>15 DEF pushed, c
<1> QED
  BY <1>1, <1>2

(* A difference of numbers is a number.                                     *)
LEMMA DifferenceIsInt ==
  ASSUME NEW o \in Nat, NEW c \in Nat
  PROVE  o - c \in Int
OBVIOUS

(* So is the balance of lines.                                              *)
LEMMA BalanceIsInt ==
  ASSUME NEW text, IsText(text), NEW a \in Int, NEW b \in Int
  PROVE  Balance(text, a, b) \in Int
<1>1. PICK o, c : /\ o = Cardinality(Places(text, "{", a, b))
                  /\ c = Cardinality(Places(text, "}", a, b))
  BY Zenon
<1>2. o \in Nat /\ c \in Nat
  BY <1>1, PlacesFacts, Zenon
<1>3. o - c \in Int
  BY <1>2, DifferenceIsInt, Zenon
<1> QED
  BY <1>1, <1>3, Zenon DEF Balance

(* From its declaration on, a class that is open or just declared has no   *)
(* more '}' than '{'.                                                      *)
LEMMA FromDeclaration ==
  ASSUME NEW text, IsText(text), NEW n \in 1 .. Len(text), IsTidy(text, n),
         NEW d \in OpenOrDeclared(text, n)
  PROVE  /\ HeadEnd(text, d) > n => Balance(text, d, n) = 0
         /\ HeadEnd(text, d) <= n => Balance(text, d, n) = Balance(text, HeadEnd(text, d), n)
         /\ Balance(text, d, n) \in Int /\ Balance(text, d, n) >= 0
<1> DEFINE H == HeadEnd(text, d)
<1>1. /\ d \in 1 .. n /\ Declared(text, d) /\ H \in d .. Len(text) + 1
      /\ H < n => d \in OpenClasses(text, n - 1)
      /\ n \in 0 .. Len(text) /\ Len(text) \in Nat
  BY OpenOrDeclaredFacts DEF IsText
<1>2. d \in Int /\ H \in Int /\ H - 1 \in Int /\ n \in Int /\ n - 1 \in Int /\ d <= H
  BY <1>1
<1>3. \A b \in Int : b < H => Balance(text, d, b) = 0
  BY <1>1, HeadHasNoBraces
<1> HIDE DEF H
<1>4. CASE H > n
  <2>1. Balance(text, d, n) = 0
    BY <1>2, <1>3, <1>4
  <2> QED
    BY <1>2, <1>4, <2>1 DEF H
<1>5. CASE H <= n
  <2>1. Balance(text, d, H - 1) = 0
    BY <1>2, <1>3
  <2>2. H - 1 + 1 = H /\ d <= H - 1 + 1 /\ H - 1 <= n
    BY <1>2, <1>5
  <2>3. /\ Balance(text, d, n) = Balance(text, d, H - 1) + Balance(text, H, n)
        /\ Balance(text, H, n) \in Int
    BY <1>2, <2>2, BalanceAdd
  <2>4. Balance(text, d, n) = Balance(text, H, n)
    BY <2>1, <2>3
  <2>5. /\ Balance(text, n, n) = Opens(text, n) - Closes(text, n)
        /\ Opens(text, n) \in Nat /\ Closes(text, n) \in Nat
    BY <1>2, LineBraces
  <2>6. CASE H = n
    <3>1. \A m \in d .. H : Closes(text, m) = 0
      BY <1>1, TidyFacts DEF H
    <3>2. Closes(text, n) = 0
      BY <1>1, <1>2, <2>6, <3>1
    <3> QED
      BY <1>2, <1>5, <2>3, <2>4, <2>5, <2>6, <3>2 DEF H
  <2>7. CASE H < n
    <3>1. d \in OpenClasses(text, n - 1)
      BY <1>1, <2>7 DEF H
    <3>2. H <= n - 1 /\ n - 1 \in H .. n - 1
      BY <1>2, <2>7
    <3>3. Balance(text, H, n - 1) > 0
      BY <3>1, <3>2, OpenAreDeclared DEF H
    <3>4. n - 1 + 1 = n /\ H <= n - 1 + 1 /\ n - 1 <= n
      BY <1>2, <2>7
    <3>5. /\ Balance(text, H, n) = Balance(text, H, n - 1) + Balance(text, n, n)
          /\ Balance(text, H, n - 1) \in Int
      BY <1>2, <3>4, BalanceAdd
    <3>6. n \in 1 .. n /\ Balance(text, n, n) >= -1
      BY <1>1, TidyFacts
    <3> QED
      BY <1>2, <1>5, <2>3, <2>4, <2>5, <3>3, <3>5, <3>6 DEF H
  <2> QED
    BY <1>2, <1>5, <2>6, <2>7
<1> QED
  BY <1>2, <1>4, <1>5

(* A class with another inside it stays open.                              *)
LEMMA EnclosingFacts ==
  ASSUME NEW text, IsText(text), NEW n \in 1 .. Len(text), IsTidy(text, n), NEW stack,
         StackInv(text, n, OpenOrDeclared(text, n), stack),
         NEW i \in DOMAIN stack, i + 1 \in DOMAIN stack
  PROVE  /\ stack[i].linenum \in OpenClasses(text, n)
         /\ HeadEnd(text, stack[i].linenum) < n
         /\ Balance(text, HeadEnd(text, stack[i].linenum), n) =
              Balance(text, HeadEnd(text, stack[i].linenum), stack[i + 1].linenum - 1)
              + Balance(text, stack[i + 1].linenum, n)
<1>1. PICK d, e : d = stack[i].linenum /\ e = stack[i + 1].linenum
  OBVIOUS
<1>2. DOMAIN stack = 1 .. Len(stack) /\ Len(stack) \in Nat
  BY SeqFacts DEF StackInv
<1>3. d \in OpenOrDeclared(text, n) /\ e \in OpenOrDeclared(text, n) /\ d < e
  <2>1. i < i + 1
    BY <1>2
  <2> QED
    BY <1>1, <2>1 DEF StackInv
<1>4. PICK H : H = HeadEnd(text, d)
  OBVIOUS
<1>5. /\ d \in 1 .. n /\ H \in d .. Len(text) + 1
      /\ \A m \in 1 .. Len(text) : Declared(text, m) /\ d < m => H < m
  BY <1>3, <1>4, OpenOrDeclaredFacts
<1>6. e \in 1 .. n /\ e \in 1 .. Len(text) /\ Declared(text, e)
  BY <1>3, OpenOrDeclaredFacts
<1>7. H < e
  BY <1>3, <1>5, <1>6
<1>8. /\ Len(text) \in Nat /\ H \in Int /\ n \in Int /\ e - 1 \in Int /\ H < n /\ H <= n - 1
      /\ e - 1 \in H .. n - 1 /\ H <= n
      /\ e - 1 + 1 = e /\ H <= e - 1 + 1 /\ e - 1 <= n
  <2>1. Len(text) \in Nat /\ H \in Int /\ n \in Int /\ e \in Int
    <3>1. Len(text) \in Nat
      BY DEF IsText
    <3> QED
      BY <1>5, <1>6, <3>1
  <2> QED
    BY <1>6, <1>7, <2>1
<1>9. d \in OpenClasses(text, n - 1)
  BY <1>3, <1>4, <1>8, OpenOrDeclaredFacts
<1>10. ~IsForward(text, d) /\ Balance(text, H, e - 1) > 0
  BY <1>4, <1>8, <1>9, OpenAreDeclared
<1>11. /\ Balance(text, H, n) = Balance(text, H, e - 1) + Balance(text, e, n)
       /\ Balance(text, H, e - 1) \in Int
  BY <1>8, BalanceAdd
<1>12. Balance(text, e, n) \in Int /\ Balance(text, e, n) >= 0
  BY <1>3, FromDeclaration
<1>13. Balance(text, H, n) > 0
  BY <1>10, <1>11, <1>12
<1>14. d \in OpenClasses(text, n)
  BY <1>4, <1>9, <1>10, <1>13, OpenNext
<1> QED
  BY <1>1, <1>4, <1>8, <1>11, <1>14

(* The innermost class closes at line n.                                   *)
LEMMA PopKeepsStack ==
  ASSUME NEW text, IsText(text), NEW n \in 1 .. Len(text), IsTidy(text, n), NEW stack,
         StackInv(text, n, OpenOrDeclared(text, n), stack), stack # <<>>,
         Last(stack).linenum \notin OpenClasses(text, n),
         Balance(text, Last(stack).linenum, n) = 0
  PROVE  StackInv(text, n + 1, OpenClasses(text, n), Front(stack))
<1> DEFINE k == Len(stack)
           outer == Front(stack)
<1>1. /\ k \in Nat \ {0} /\ DOMAIN stack = 1 .. k
      /\ IsSeq(outer) /\ DOMAIN outer = 1 .. k - 1
      /\ \A i \in 1 .. k - 1 : outer[i] = stack[i]
      /\ Last(stack) = stack[k]
  BY FrontFacts, SeqFacts DEF StackInv
<1> HIDE DEF k, outer
<1>2. /\ \A i \in 1 .. k - 1 : i \in 1 .. k /\ i + 1 \in 1 .. k
      /\ \A i \in 1 .. k : i \in 1 .. k - 1 \/ i = k
      /\ k \in 1 .. k
  BY <1>1
<1>3. n \in Int /\ n + 1 \in Int /\ n + 1 - 1 = n
  OBVIOUS
<1>4. ASSUME NEW i \in 1 .. k - 1
      PROVE  /\ outer[i].linenum \in OpenClasses(text, n)
             /\ HeadEnd(text, outer[i].linenum) < n
             /\ HeadEnd(text, outer[i].linenum) < n + 1
             /\ IsClass(outer[i])
             /\ outer[i].seen_open_brace = TRUE
             /\ outer[i].brace_depth =
                  Balance(text, HeadEnd(text, outer[i].linenum), stack[i + 1].linenum - 1)
             /\ Balance(text, HeadEnd(text, outer[i].linenum), n) =
                  Balance(text, HeadEnd(text, outer[i].linenum), stack[i + 1].linenum - 1)
                  + Balance(text, stack[i + 1].linenum, n)
  <2>1. i \in DOMAIN stack /\ i + 1 \in DOMAIN stack /\ outer[i] = stack[i]
    BY <1>1, <1>2
  <2>2. /\ outer[i].linenum \in OpenClasses(text, n)
        /\ HeadEnd(text, outer[i].linenum) < n
        /\ Balance(text, HeadEnd(text, outer[i].linenum), n) =
             Balance(text, HeadEnd(text, outer[i].linenum), stack[i + 1].linenum - 1)
             + Balance(text, stack[i + 1].linenum, n)
    BY <2>1, EnclosingFacts
  <2>3. HeadEnd(text, outer[i].linenum) < n + 1
    <3>1. outer[i].linenum \in OpenOrDeclared(text, n)
      BY <2>1 DEF StackInv
    <3>2. HeadEnd(text, outer[i].linenum) \in Int
      <4>1. outer[i].linenum \in 1 .. Len(text) /\ Len(text) \in Nat
        BY <3>1, OpenOrDeclaredFacts DEF IsText
      <4> QED
        BY <4>1, HeadFacts
    <3> QED
      BY <2>2, <3>2
  <2>4. /\ IsClass(outer[i])
        /\ outer[i].seen_open_brace = TRUE
        /\ outer[i].brace_depth =
             Balance(text, HeadEnd(text, outer[i].linenum), stack[i + 1].linenum - 1)
    BY <2>1, <2>2 DEF StackInv
  <2> QED
    BY <2>2, <2>3, <2>4
<1>5. \A i, j \in 1 .. k - 1 : i < j => outer[i].linenum < outer[j].linenum
  BY <1>1, <1>2, ZenonT(40) DEF StackInv
<1>6. ASSUME NEW d \in OpenClasses(text, n)
      PROVE  \E i \in 1 .. k - 1 : outer[i].linenum = d
  <2>1. d \in OpenOrDeclared(text, n)
    <3>1. d \in OpenClasses(text, n - 1) \/ (d = n /\ Declared(text, n))
      BY OpenNext
    <3> QED
      BY <3>1 DEF OpenOrDeclared
  <2>2. PICK i \in DOMAIN stack : stack[i].linenum = d
    BY <2>1 DEF StackInv
  <2>3. i # k
    BY <1>1, <2>2
  <2> QED
    BY <1>1, <1>2, <2>2, <2>3
<1>7. ASSUME NEW i \in 1 .. k - 1, i + 1 \in 1 .. k - 1
      PROVE  outer[i].brace_depth =
               Balance(text, HeadEnd(text, outer[i].linenum), outer[i + 1].linenum - 1)
  BY <1>1, <1>4, <1>7, ZenonT(40)
<1>8. ASSUME NEW i \in 1 .. k - 1, i + 1 \notin 1 .. k - 1
      PROVE  outer[i].brace_depth = Balance(text, HeadEnd(text, outer[i].linenum), n)
  <2>1. i + 1 = k
    BY <1>1, <1>8
  <2>2. Balance(text, stack[i + 1].linenum, n) = 0
    BY <1>1, <2>1
  <2>3. outer[i].linenum \in OpenOrDeclared(text, n) /\ stack[k].linenum \in OpenOrDeclared(text, n)
    BY <1>1, <1>2 DEF StackInv
  <2>4. PICK d, e : d = outer[i].linenum /\ e = stack[i + 1].linenum
    OBVIOUS
  <2>5. d \in 1 .. n /\ e \in 1 .. n /\ HeadEnd(text, d) \in Int /\ d \in 1 .. Len(text)
    <3>1. /\ d \in 1 .. n /\ e \in 1 .. n /\ d \in 1 .. Len(text)
      BY <2>1, <2>3, <2>4, OpenOrDeclaredFacts
    <3> QED
      BY <3>1, HeadFacts, SMTT(40) DEF IsText
  <2>6. Balance(text, HeadEnd(text, d), e - 1) \in Int
    <3>1. e - 1 \in Int
      BY <2>5
    <3> QED
      BY <2>5, <3>1, BalanceIsInt
  <2>7. Balance(text, HeadEnd(text, d), n) = Balance(text, HeadEnd(text, d), e - 1) + 0
    BY <1>4, <2>2, <2>4
  <2>8. outer[i].brace_depth = Balance(text, HeadEnd(text, d), e - 1)
    BY <1>4, <2>4
  <2>9. Balance(text, HeadEnd(text, d), n) = Balance(text, HeadEnd(text, d), e - 1)
    BY <2>6, <2>7
  <2> QED
    BY <2>4, <2>8, <2>9
<1>9. /\ \A i \in DOMAIN outer : IsClass(outer[i]) /\ outer[i].linenum \in OpenClasses(text, n)
      /\ \A d \in OpenClasses(text, n) : \E i \in DOMAIN outer : outer[i].linenum = d
      /\ \A i, j \in DOMAIN outer : i < j => outer[i].linenum < outer[j].linenum
  BY <1>1, <1>4, <1>5, <1>6
<1>10. \A i \in DOMAIN outer :
         outer[i].seen_open_brace =
           IF HeadEnd(text, outer[i].linenum) < n + 1 THEN TRUE ELSE FALSE
  BY <1>1, <1>4
<1>11. \A i \in DOMAIN outer : i + 1 \in DOMAIN outer =>
         outer[i].brace_depth =
           Balance(text, HeadEnd(text, outer[i].linenum), outer[i + 1].linenum - 1)
  BY <1>1, <1>7
<1>12. ASSUME NEW i \in DOMAIN outer, i + 1 \notin DOMAIN outer
       PROVE  outer[i].brace_depth =
                IF HeadEnd(text, outer[i].linenum) < n + 1
                THEN Balance(text, HeadEnd(text, outer[i].linenum), n + 1 - 1)
                ELSE 0
  <2>1. i \in 1 .. k - 1 /\ i + 1 \notin 1 .. k - 1
    BY <1>1, <1>12
  <2>2. /\ outer[i].brace_depth = Balance(text, HeadEnd(text, outer[i].linenum), n)
        /\ HeadEnd(text, outer[i].linenum) < n + 1
    BY <1>4, <1>8, <2>1
  <2> QED
    BY <1>3, <2>2, Zenon
<1>13. PICK next, open : next = n + 1 /\ open = OpenClasses(text, n)
  OBVIOUS
<1>14. StackInv(text, next, open, outer)
  <2>1. IsSeq(outer)
    BY <1>1
  <2>2. /\ \A i \in DOMAIN outer : IsClass(outer[i]) /\ outer[i].linenum \in open
        /\ \A d \in open : \E i \in DOMAIN outer : outer[i].linenum = d
    BY <1>9, <1>13
  <2>3. \A i, j \in DOMAIN outer : i < j => outer[i].linenum < outer[j].linenum
    BY <1>9
  <2>4. \A i \in DOMAIN outer :
          outer[i].seen_open_brace =
            IF HeadEnd(text, outer[i].linenum) < next THEN TRUE ELSE FALSE
    BY <1>10, <1>13
  <2>5. \A i \in DOMAIN outer : i + 1 \notin DOMAIN outer =>
          outer[i].brace_depth =
            IF HeadEnd(text, outer[i].linenum) < next
            THEN Balance(text, HeadEnd(text, outer[i].linenum), next - 1)
            ELSE 0
    BY <1>12, <1>13
  <2> QED
    BY <1>11, <2>1, <2>2, <2>3, <2>4, <2>5, Zenon DEF StackInv
<1> QED
  BY <1>13, <1>14 DEF outer

(* The innermost class stays open at line n.                               *)
LEMMA TopKeepsStack ==
  ASSUME NEW text, IsText(text), NEW n \in 1 .. Len(text), IsTidy(text, n), NEW stack,
         StackInv(text, n, OpenOrDeclared(text, n), stack), stack # <<>>, NEW c, IsClass(c),
         c.linenum = Last(stack).linenum, c.linenum \in OpenClasses(text, n),
         c.seen_open_brace = IF HeadEnd(text, c.linenum) <= n THEN TRUE ELSE FALSE,
         c.brace_depth = IF HeadEnd(text, c.linenum) <= n
                         THEN Balance(text, HeadEnd(text, c.linenum), n) ELSE 0
  PROVE  StackInv(text, n + 1, OpenClasses(text, n), Append(Front(stack), c))
<1> DEFINE k == Len(stack)
           outer == Front(stack)
           new == Append(outer, c)
<1>1. /\ k \in Nat \ {0} /\ DOMAIN stack = 1 .. k
      /\ IsSeq(outer) /\ Len(outer) = k - 1
      /\ \A i \in 1 .. k - 1 : outer[i] = stack[i]
      /\ Last(stack) = stack[k]
  BY FrontFacts, SeqFacts DEF StackInv
<1> HIDE DEF k, outer
<1>2. /\ IsSeq(new) /\ DOMAIN new = 1 .. k /\ new[k] = c
      /\ \A i \in 1 .. k - 1 : new[i] = stack[i]
  <2>1. k - 1 + 1 = k
    BY <1>1
  <2>2. /\ IsSeq(new) /\ DOMAIN new = 1 .. k - 1 + 1 /\ new[k - 1 + 1] = c
        /\ \A i \in 1 .. k - 1 : new[i] = outer[i]
    BY <1>1, AppendFacts
  <2> HIDE DEF new
  <2> QED
    BY <1>1, <2>1, <2>2
<1> HIDE DEF new
<1>3. /\ \A i \in 1 .. k - 1 : i \in 1 .. k /\ i + 1 \in 1 .. k
      /\ \A i \in 1 .. k : i \in 1 .. k - 1 \/ i = k
      /\ k \in 1 .. k
  BY <1>1
<1>4. PICK next, open : next = n + 1 /\ open = OpenClasses(text, n)
  OBVIOUS
<1>5. n \in Int /\ next - 1 = n
  BY <1>4
<1>6. \A i \in DOMAIN stack :
        stack[i].linenum \in OpenOrDeclared(text, n) /\ HeadEnd(text, stack[i].linenum) \in Int
  <2>1. ASSUME NEW i \in DOMAIN stack
        PROVE  HeadEnd(text, stack[i].linenum) \in Int
    <3>1. stack[i].linenum \in OpenOrDeclared(text, n)
      BY DEF StackInv
    <3>2. stack[i].linenum \in 1 .. Len(text) /\ Len(text) \in Nat
      BY <3>1, OpenOrDeclaredFacts DEF IsText
    <3> QED
      BY <3>2, HeadFacts
  <2> QED
    BY <2>1 DEF StackInv
<1>7. ASSUME NEW i \in 1 .. k - 1
      PROVE  /\ new[i].linenum \in open
             /\ HeadEnd(text, new[i].linenum) < next
             /\ IsClass(new[i])
             /\ new[i].seen_open_brace = TRUE
             /\ new[i].brace_depth =
                  Balance(text, HeadEnd(text, new[i].linenum), stack[i + 1].linenum - 1)
  <2>1. i \in DOMAIN stack /\ i + 1 \in DOMAIN stack /\ new[i] = stack[i]
    BY <1>1, <1>2, <1>3
  <2>2. new[i].linenum \in open /\ HeadEnd(text, new[i].linenum) < n
    BY <1>4, <2>1, EnclosingFacts
  <2>3. HeadEnd(text, new[i].linenum) < next
    BY <1>4, <1>6, <2>1, <2>2
  <2> QED
    BY <2>1, <2>2, <2>3 DEF StackInv
<1>8. /\ new[k].linenum \in open /\ IsClass(new[k])
      /\ new[k].linenum = stack[k].linenum
      /\ new[k].seen_open_brace = IF HeadEnd(text, new[k].linenum) < next THEN TRUE ELSE FALSE
      /\ new[k].brace_depth =
           IF HeadEnd(text, new[k].linenum) < next
           THEN Balance(text, HeadEnd(text, new[k].linenum), next - 1) ELSE 0
  <2>1. HeadEnd(text, c.linenum) <= n <=> HeadEnd(text, c.linenum) < next
    BY <1>1, <1>3, <1>4, <1>6
  <2>2. c.seen_open_brace = IF HeadEnd(text, c.linenum) < next THEN TRUE ELSE FALSE
    BY <2>1, Zenon
  <2>3. c.brace_depth = IF HeadEnd(text, c.linenum) < next
                        THEN Balance(text, HeadEnd(text, c.linenum), next - 1) ELSE 0
    BY <1>5, <2>1, Zenon
  <2> QED
    BY <1>1, <1>2, <1>4, <2>2, <2>3, Zenon
<1>9. /\ \A i \in DOMAIN new : IsClass(new[i]) /\ new[i].linenum \in open
      /\ \A i \in 1 .. k : new[i].linenum = stack[i].linenum
  BY <1>2, <1>3, <1>7, <1>8
<1>10. ASSUME NEW d \in open
       PROVE  \E i \in DOMAIN new : new[i].linenum = d
  <2>1. d \in OpenOrDeclared(text, n)
    <3>1. d \in OpenClasses(text, n - 1) \/ (d = n /\ Declared(text, n))
      BY <1>4, OpenNext
    <3> QED
      BY <3>1 DEF OpenOrDeclared
  <2>2. PICK i \in DOMAIN stack : stack[i].linenum = d
    BY <2>1 DEF StackInv
  <2> QED
    BY <1>1, <1>2, <1>9, <2>2
<1>11. ASSUME NEW i \in DOMAIN new, NEW j \in DOMAIN new, i < j
       PROVE  new[i].linenum < new[j].linenum
  <2>1. stack[i].linenum < stack[j].linenum
    BY <1>1, <1>2, <1>11 DEF StackInv
  <2> QED
    BY <1>2, <1>9, <2>1
<1>12. ASSUME NEW i \in DOMAIN new
       PROVE  new[i].seen_open_brace =
                IF HeadEnd(text, new[i].linenum) < next THEN TRUE ELSE FALSE
  BY <1>2, <1>3, <1>7, <1>8
<1>13. ASSUME NEW i \in DOMAIN new, i + 1 \in DOMAIN new
       PROVE  new[i].brace_depth =
                Balance(text, HeadEnd(text, new[i].linenum), new[i + 1].linenum - 1)
  <2>1. i \in 1 .. k - 1 /\ i + 1 \in 1 .. k
    BY <1>1, <1>2, <1>13
  <2> QED
    BY <1>7, <1>9, <2>1
<1>14. ASSUME NEW i \in DOMAIN new, i + 1 \notin DOMAIN new
       PROVE  new[i].brace_depth =
                IF HeadEnd(text, new[i].linenum) < next
                THEN Balance(text, HeadEnd(text, new[i].linenum), next - 1)
                ELSE 0
  <2>1. i = k
    BY <1>2, <1>3, <1>14
  <2> QED
    BY <1>8, <2>1, Zenon
<1>15. StackInv(text, next, open, new)
  BY <1>2, <1>9, <1>10, <1>11, <1>12, <1>13, <1>14, Zenon DEF StackInv
<1> QED
  BY <1>4, <1>15 DEF outer, new

(* The stack with the class a line declares, and the innermost class with  *)
(* what the line shows of its head.                                        *)
Pushed(text, n, stack) ==
  IF Declared(text, n)
  THEN Append(stack, ClassInfo(DeclaredName(Elided(text, n)), text, n))
  ELSE stack

Opened(text, n, top) ==
  [top EXCEPT !.seen_open_brace = Occurs(Elided(text, n), "{"),
              !.is_derived = @ \/ Occurs(Elided(text, n), ":")]

(* What TrackClasses does, by what the innermost class has seen.           *)
LEMMA TrackFacts ==
  ASSUME NEW text, NEW n, NEW stack, Pushed(text, n, stack) # <<>>
  PROVE  LET outer == Front(Pushed(text, n, stack))
             top == Last(Pushed(text, n, stack))
             opened == Opened(text, n, top)
             after == TrackClasses(text, n, stack).stack
         IN /\ top.seen_open_brace = TRUE =>
                 after = CloseOrContinue(text, n, outer, top).stack
            /\ top.seen_open_brace = FALSE =>
                 /\ Ends(text, n) => after = outer
                 /\ ~Ends(text, n) /\ opened.seen_open_brace = TRUE =>
                      after = CloseOrContinue(text, n, outer, opened).stack
                 /\ ~Ends(text, n) /\ opened.seen_open_brace = FALSE =>
                      after = Append(outer, opened)
<1>1. PICK pushed : pushed = Pushed(text, n, stack)
  OBVIOUS
<1>2. pushed = IF DeclaredName(Elided(text, n)) = "" THEN stack
               ELSE Append(stack, ClassInfo(DeclaredName(Elided(text, n)), text, n))
  BY <1>1, Zenon DEF Declared, Pushed
<1> QED
  BY <1>1, <1>2, Zenon DEF TrackClasses, Ends, Opened

(* Outside of classes, a line that declares none leaves the stack empty.    *)
LEMMA NothingTracked ==
  ASSUME NEW text, NEW n, NEW stack, stack = <<>>, ~Declared(text, n)
  PROVE  TrackClasses(text, n, stack).stack = <<>>
BY Zenon DEF TrackClasses, Declared

(* The balance down to a line is that down to the line above and that of    *)
(* the line.                                                                *)
LEMMA BalanceNext ==
  ASSUME NEW text, IsText(text), NEW a \in Int, NEW n \in Int, a <= n
  PROVE  /\ Balance(text, a, n) = Balance(text, a, n - 1) + Balance(text, n, n)
         /\ Balance(text, a, n - 1) \in Int /\ Balance(text, a, n) \in Int
<1>1. n - 1 \in Int /\ n - 1 + 1 = n /\ a <= n - 1 + 1 /\ n - 1 <= n
  OBVIOUS
<1> QED
  BY <1>1, BalanceAdd

(* A class whose { was seen counts the line's braces, and goes when none is *)
(* open (cpplint.py:1465-1485).                                             *)
LEMMA ContinueFacts ==
  ASSUME NEW text, NEW n, NEW outer, NEW top, IsClass(top)
  PROVE  \E class :
           /\ IsClass(class) /\ class.linenum = top.linenum
           /\ class.seen_open_brace = top.seen_open_brace
           /\ class.brace_depth = top.brace_depth + Opens(text, n) - Closes(text, n)
           /\ CloseOrContinue(text, n, outer, top).stack =
                IF class.brace_depth <= 0 THEN outer ELSE Append(outer, class)
<1>1. PICK virtual, destructor :
        /\ virtual = (top.virtual_method \/ Occurs(Elided(text, n), "virtual"))
        /\ destructor = (top.has_virtual_destructor
                         \/ (Occurs(Elided(text, n), "virtual")
                             /\ DeclaresDestructor(Elided(text, n), top.name)))
  BY Zenon
<1>2. PICK class :
        class = [top EXCEPT !.virtual_method = virtual,
                            !.has_virtual_destructor = destructor,
                            !.brace_depth = @ + Opens(text, n) - Closes(text, n)]
  OBVIOUS
<1>3. CloseOrContinue(text, n, outer, top).stack =
        IF class.brace_depth <= 0 THEN outer ELSE Append(outer, class)
  BY <1>1, <1>2, Zenon DEF CloseOrContinue, ClosesClass, Opens, Closes
<1>4. /\ IsClass(class) /\ class.linenum = top.linenum
      /\ class.seen_open_brace = top.seen_open_brace
      /\ class.brace_depth = top.brace_depth + Opens(text, n) - Closes(text, n)
  BY <1>2 DEF IsClass
<1> QED
  BY <1>3, <1>4, Zenon

(* Membership is true or false.                                             *)
LEMMA MembershipIsBoolean ==
  ASSUME NEW x, NEW S
  PROVE  (x \in S) \in BOOLEAN
OBVIOUS

(* What a line shows of the head of a class changes only that.              *)
LEMMA OpenedFacts ==
  ASSUME NEW text, IsText(text), NEW n \in Int, NEW top, IsClass(top)
  PROVE  /\ IsClass(Opened(text, n, top))
         /\ Opened(text, n, top).linenum = top.linenum
         /\ Opened(text, n, top).seen_open_brace = IF Opens(text, n) # 0 THEN TRUE ELSE FALSE
         /\ Opened(text, n, top).brace_depth = top.brace_depth
<1>1. PICK seen \in BOOLEAN : seen = Occurs(Elided(text, n), "{")
  BY MembershipIsBoolean, Zenon DEF Occurs
<1>2. PICK derived : derived = (top.is_derived \/ Occurs(Elided(text, n), ":"))
  BY Zenon
<1>3. PICK opened : opened = [top EXCEPT !.seen_open_brace = seen, !.is_derived = derived]
  OBVIOUS
<1>4. Opened(text, n, top) = opened
  BY <1>1, <1>2, <1>3, Zenon DEF Opened
<1>5. /\ IsClass(opened) /\ opened.linenum = top.linenum
      /\ opened.seen_open_brace = seen /\ opened.brace_depth = top.brace_depth
  BY <1>3 DEF IsClass
<1>6. seen <=> Opens(text, n) # 0
  BY <1>1, BalanceOfLine, Zenon DEF Opens
<1>7. opened.seen_open_brace = IF Opens(text, n) # 0 THEN TRUE ELSE FALSE
  BY <1>5, <1>6, Zenon
<1> QED
  BY <1>4, <1>5, <1>7

(* A line of a tidy file keeps the stack the nesting.                      *)
LEMMA StackStep ==
  ASSUME NEW text, IsText(text), NEW n \in 1 .. Len(text), IsTidy(text, n), NEW stack,
         StackInv(text, n, OpenClasses(text, n - 1), stack)
  PROVE  StackInv(text, n + 1, OpenClasses(text, n), TrackClasses(text, n, stack).stack)
<1>1. PICK pushed, after :
        pushed = Pushed(text, n, stack) /\ after = TrackClasses(text, n, stack).stack
  OBVIOUS
<1>2. StackInv(text, n, OpenOrDeclared(text, n), pushed)
  BY <1>1, PushKeepsStack DEF Pushed
<1>3. CASE pushed = <<>>
  <2>1. OpenOrDeclared(text, n) = {}
    BY <1>2, <1>3 DEF StackInv
  <2>2. ~Declared(text, n)
    BY <2>1 DEF OpenOrDeclared
  <2>3. stack = <<>>
    BY <1>1, <1>3, <2>2 DEF Pushed
  <2>4. after = <<>>
    BY <1>1, <2>2, <2>3, NothingTracked
  <2>5. OpenClasses(text, n) = {}
    <3>1. \A e : e \in OpenClasses(text, n) => e \in OpenOrDeclared(text, n)
      BY OpenNext DEF OpenOrDeclared
    <3> QED
      BY <2>1, <3>1, Zenon
  <2>6. StackInv(text, n + 1, {}, <<>>)
    BY EmptyEvents DEF StackInv
  <2> QED
    BY <1>1, <2>4, <2>5, <2>6, Zenon
<1>4. CASE pushed # <<>>
  <2>1. PICK top, d, H, o : /\ top = Last(pushed) /\ d = top.linenum
                            /\ H = HeadEnd(text, d) /\ o = Opened(text, n, top)
    OBVIOUS
  <2>2. /\ Len(pushed) \in Nat \ {0} /\ DOMAIN pushed = 1 .. Len(pushed)
        /\ top = pushed[Len(pushed)]
    <3>1. IsSeq(pushed)
      BY <1>2 DEF StackInv
    <3> QED
      BY <1>4, <2>1, <3>1, FrontFacts, SeqFacts
  <2>3. Len(pushed) \in DOMAIN pushed /\ Len(pushed) + 1 \notin DOMAIN pushed
    BY <2>2
  <2>4. IsClass(top) /\ d \in OpenOrDeclared(text, n)
    BY <1>2, <2>1, <2>2, <2>3, Zenon DEF StackInv
  <2>5. /\ top.seen_open_brace = IF H < n THEN TRUE ELSE FALSE
        /\ top.brace_depth = IF H < n THEN Balance(text, H, n - 1) ELSE 0
    <3>1. \A i \in DOMAIN pushed :
            pushed[i].seen_open_brace =
              IF HeadEnd(text, pushed[i].linenum) < n THEN TRUE ELSE FALSE
      BY <1>2, Zenon DEF StackInv
    <3>2. \A i \in DOMAIN pushed : i + 1 \notin DOMAIN pushed =>
            pushed[i].brace_depth =
              IF HeadEnd(text, pushed[i].linenum) < n
              THEN Balance(text, HeadEnd(text, pushed[i].linenum), n - 1)
              ELSE 0
      BY <1>2, Zenon DEF StackInv
    <3> QED
      BY <2>1, <2>2, <2>3, <3>1, <3>2, Zenon
  <2>6. /\ IsClass(o) /\ o.linenum = d /\ o.brace_depth = top.brace_depth
        /\ o.seen_open_brace = IF Opens(text, n) # 0 THEN TRUE ELSE FALSE
    <3>1. n \in Int
      OBVIOUS
    <3> QED
      BY <2>1, <2>4, <3>1, OpenedFacts, ZenonT(40)
  <2> DEFINE outer == Front(pushed)
  <2>7. /\ top.seen_open_brace = TRUE =>
             after = CloseOrContinue(text, n, outer, top).stack
        /\ top.seen_open_brace = FALSE =>
             /\ Ends(text, n) => after = outer
             /\ ~Ends(text, n) /\ o.seen_open_brace = TRUE =>
                  after = CloseOrContinue(text, n, outer, o).stack
             /\ ~Ends(text, n) /\ o.seen_open_brace = FALSE => after = Append(outer, o)
    BY <1>1, <1>4, <2>1, TrackFacts
  <2>8. /\ d \in 1 .. n /\ d \in 1 .. Len(text) /\ Declared(text, d)
        /\ H \in d .. Len(text) + 1 /\ Len(text) \in Nat
        /\ H < n => d \in OpenClasses(text, n - 1)
    BY <2>1, <2>4, OpenOrDeclaredFacts DEF IsText
  <2>9. d \in Int /\ H \in Int /\ n \in Int /\ n \in 0 .. Len(text) /\ d <= H /\ n <= Len(text)
        /\ n - 1 \in Int /\ n - 1 + 1 = n
    BY <2>8
  <2>10. /\ Balance(text, d, n) \in Int /\ Balance(text, d, n) >= 0
         /\ H > n => Balance(text, d, n) = 0
         /\ H <= n => Balance(text, d, n) = Balance(text, H, n)
    BY <2>1, <2>4, FromDeclaration
  <2>11. d \in OpenClasses(text, n) <=>
          (H <= n => ~IsForward(text, d) /\ Balance(text, H, n) > 0)
    <3>1. d \in OpenClasses(text, n - 1) \/ (d = n /\ Declared(text, n))
      BY <2>4 DEF OpenOrDeclared
    <3> QED
      BY <2>1, <3>1, OpenNext
  <2>12. /\ Opens(text, n) \in Nat /\ Closes(text, n) \in Nat
         /\ Balance(text, n, n) = Opens(text, n) - Closes(text, n)
    BY <2>9, LineBraces
  <2>13. ASSUME NEW c, IsClass(c), c.linenum = d, d \in OpenClasses(text, n),
               c.seen_open_brace = IF H <= n THEN TRUE ELSE FALSE,
               c.brace_depth = IF H <= n THEN Balance(text, H, n) ELSE 0
        PROVE  StackInv(text, n + 1, OpenClasses(text, n), Append(outer, c))
    BY <1>2, <1>4, <2>1, <2>13, TopKeepsStack
  <2>14. ASSUME d \notin OpenClasses(text, n), Balance(text, d, n) = 0
        PROVE  StackInv(text, n + 1, OpenClasses(text, n), outer)
    BY <1>2, <1>4, <2>1, <2>14, PopKeepsStack
  <2> HIDE DEF outer
  <2>15. CASE H < n
    <3>1. H <= n - 1 /\ n - 1 \in H .. n - 1 /\ H <= n
      BY <2>9, <2>15
    <3>2. PICK class :
            /\ IsClass(class) /\ class.linenum = top.linenum
            /\ class.seen_open_brace = top.seen_open_brace
            /\ class.brace_depth = top.brace_depth + Opens(text, n) - Closes(text, n)
            /\ CloseOrContinue(text, n, outer, top).stack =
                 IF class.brace_depth <= 0 THEN outer ELSE Append(outer, class)
      BY <2>4, ContinueFacts
    <3>3. top.brace_depth = Balance(text, H, n - 1) /\ top.seen_open_brace = TRUE
      BY <2>5, <2>15, Zenon
    <3>4. /\ Balance(text, H, n) = Balance(text, H, n - 1) + Balance(text, n, n)
          /\ Balance(text, H, n - 1) \in Int /\ Balance(text, H, n) \in Int
      BY <2>9, <3>1, BalanceNext
    <3>5. class.brace_depth = Balance(text, H, n)
      BY <2>12, <3>2, <3>3, <3>4
    <3>6. ~IsForward(text, d)
      BY <2>1, <2>8, <2>15, <3>1, OpenAreDeclared
    <3>7. CASE Balance(text, H, n) > 0
      <4>1. ~(class.brace_depth <= 0)
        BY <3>4, <3>5, <3>7
      <4>2. after = Append(outer, class)
        BY <2>7, <3>2, <3>3, <4>1
      <4>3. /\ class.seen_open_brace = IF H <= n THEN TRUE ELSE FALSE
            /\ class.brace_depth = IF H <= n THEN Balance(text, H, n) ELSE 0
            /\ class.linenum = d
        BY <2>1, <3>1, <3>2, <3>3, <3>5, Zenon
      <4> QED
        BY <1>1, <2>11, <2>13, <3>2, <3>6, <3>7, <4>2, <4>3
    <3>8. CASE ~(Balance(text, H, n) > 0)
      <4>1. class.brace_depth <= 0 /\ Balance(text, d, n) = 0
        BY <2>10, <3>1, <3>4, <3>5, <3>8
      <4>2. after = outer
        BY <2>7, <3>2, <3>3, <4>1
      <4> QED
        BY <1>1, <2>11, <2>14, <3>1, <3>8, <4>1, <4>2
    <3> QED
      BY <3>7, <3>8
  <2>16. CASE ~(H < n)
    <3>1. top.seen_open_brace = FALSE /\ top.brace_depth = 0
      BY <2>5, <2>16, Zenon
    <3>2. /\ \A m \in d .. H - 1 : Opens(text, m) = 0 /\ ~Ends(text, m)
          /\ H <= Len(text) => Opens(text, H) # 0 \/ Ends(text, H)
      BY <2>1, <2>8, HeadFacts
    <3>3. /\ \A m \in d .. H : Closes(text, m) = 0
          /\ ~(Opens(text, H) # 0 /\ Ends(text, H))
      BY <2>1, <2>8, <2>9, TidyFacts
    <3>4. n \in d .. H /\ (H # n => n \in d .. H - 1 /\ ~(H <= n))
      BY <2>8, <2>9, <2>16
    <3>5. Closes(text, n) = 0
      BY <3>3, <3>4
    <3>6. CASE Ends(text, n)
      <4>1. H = n /\ Opens(text, n) = 0
        BY <3>2, <3>3, <3>4, <3>6
      <4>2. Balance(text, d, n) = 0
        BY <2>9, <2>10, <2>12, <3>5, <4>1
      <4>3. d \notin OpenClasses(text, n)
        BY <2>9, <2>10, <2>11, <4>1, <4>2
      <4> QED
        BY <1>1, <2>7, <2>14, <3>1, <3>6, <4>2, <4>3
    <3>7. CASE ~Ends(text, n) /\ Opens(text, n) # 0
      <4>1. H = n
        BY <3>2, <3>4, <3>7
      <4>2. PICK class :
              /\ IsClass(class) /\ class.linenum = o.linenum
              /\ class.seen_open_brace = o.seen_open_brace
              /\ class.brace_depth = o.brace_depth + Opens(text, n) - Closes(text, n)
              /\ CloseOrContinue(text, n, outer, o).stack =
                   IF class.brace_depth <= 0 THEN outer ELSE Append(outer, class)
        <5>1. IsClass(o)
          BY <2>6
        <5> QED
          BY <5>1, ContinueFacts
      <4>3. class.brace_depth = Balance(text, H, n) /\ Balance(text, H, n) > 0
            /\ ~(class.brace_depth <= 0)
        BY <2>6, <2>12, <3>1, <3>5, <3>7, <4>1, <4>2
      <4>4. o.seen_open_brace = TRUE
        BY <2>6, <3>7, Zenon
      <4>5. after = Append(outer, class)
        BY <2>7, <3>1, <3>7, <4>2, <4>3, <4>4
      <4>6. ~IsForward(text, d)
        BY <2>1, <3>7, <4>1, Zenon DEF IsForward, Ends
      <4>7. H <= n
        BY <2>9, <4>1
      <4>8. /\ class.seen_open_brace = IF H <= n THEN TRUE ELSE FALSE
            /\ class.brace_depth = IF H <= n THEN Balance(text, H, n) ELSE 0
            /\ class.linenum = d
        BY <2>6, <4>2, <4>3, <4>4, <4>7, Zenon
      <4> QED
        BY <1>1, <2>11, <2>13, <4>2, <4>3, <4>5, <4>6, <4>8
    <3>8. CASE ~Ends(text, n) /\ Opens(text, n) = 0
      <4>1. ~(H <= n)
        BY <2>9, <3>2, <3>4, <3>8
      <4>2. o.seen_open_brace = FALSE /\ o.brace_depth = 0
        BY <2>6, <3>1, <3>8, Zenon
      <4>3. after = Append(outer, o)
        BY <2>7, <3>1, <3>8, <4>2
      <4>4. /\ o.seen_open_brace = IF H <= n THEN TRUE ELSE FALSE
            /\ o.brace_depth = IF H <= n THEN Balance(text, H, n) ELSE 0
        BY <4>1, <4>2, Zenon
      <4> QED
        BY <1>1, <2>6, <2>11, <2>13, <4>1, <4>3, <4>4
    <3> QED
      BY <3>6, <3>7, <3>8
  <2> QED
    BY <2>15, <2>16, Zenon
<1> QED
  BY <1>3, <1>4, Zenon

(* The invariant of the stack of classes, of the files IsTidy admits.      *)
StackFollows ==
  pc = "lines" /\ IsTidy(lines, linenum - 1) =>
    StackInv(lines, linenum, OpenClasses(lines, linenum - 1), class_state)

(* Above the first line no class is open.                                   *)
LEMMA NothingOpenAtStart ==
  ASSUME NEW text
  PROVE  StackInv(text, 1, OpenClasses(text, 1 - 1), <<>>)
<1>1. \A n \in 1 .. 1 - 1 : FALSE
  OBVIOUS
<1>2. OpenClasses(text, 1 - 1) = {}
  <2>1. \A d \in OpenClasses(text, 1 - 1) : d \in 1 .. 1 - 1
    BY OpenAreDeclared, Zenon
  <2> QED
    BY <1>1, <2>1, Zenon
<1>3. IsSeq(<<>>) /\ DOMAIN <<>> = {}
  BY EmptyEvents
<1> QED
  BY <1>2, <1>3, Zenon DEF StackInv

(* The stack follows the nesting before anything is read,                   *)
LEMMA StackFollowsAtInit == Init => StackFollows
BY DEF Init, StackFollows

(* and after every step.                                                    *)
LEMMA StackFollowsNext ==
  ASSUME TypeInv, StackFollows, [Next]_vars
  PROVE  StackFollows'
<1>1. ASSUME ParseArguments \/ SkipFile \/ ProcessLineFails \/ FinishFile \/ Exit
      PROVE  pc' # "lines"
  BY <1>1 DEF ParseArguments, SkipFile, ProcessLineFails, FinishFile, Exit, EndWith
<1>2. CASE StartFile
  <2>1. linenum' = 1 /\ class_state' = <<>>
    BY <1>2 DEF StartFile
  <2>2. StackInv(lines', linenum', OpenClasses(lines', linenum' - 1), class_state')
    BY <2>1, NothingOpenAtStart, Zenon
  <2> QED
    BY <2>2, Zenon DEF StackFollows
<1>3. CASE ProcessLine
  <2>1. /\ pc = "lines" /\ linenum \in DOMAIN lines /\ lines' = lines
        /\ linenum' = linenum + 1 /\ class_state' = ClassesAt(linenum).stack
    BY <1>3 DEF ProcessLine
  <2>2. IsText(lines)
    BY <2>1, TextIsText DEF TypeInv
  <2>3. linenum \in 1 .. Len(lines) /\ linenum \in Nat /\ linenum + 1 - 1 = linenum
    BY <2>1, <2>2 DEF IsText
  <2>4. ASSUME IsTidy(lines, linenum)
        PROVE  StackInv(lines, linenum + 1, OpenClasses(lines, linenum), class_state')
    <3>1. IsTidy(lines, linenum - 1)
      BY <2>3, <2>4, TidyAbove
    <3>2. StackInv(lines, linenum, OpenClasses(lines, linenum - 1), class_state)
      BY <2>1, <3>1 DEF StackFollows
    <3>3. StackInv(lines, linenum + 1, OpenClasses(lines, linenum),
                   TrackClasses(lines, linenum, class_state).stack)
      BY <2>2, <2>3, <2>4, <3>2, StackStep
    <3> QED
      BY <2>1, <3>3 DEF ClassesAt
  <2> QED
    <3>1. IsTidy(lines', linenum' - 1) =>
            StackInv(lines', linenum', OpenClasses(lines', linenum' - 1), class_state')
      BY <2>1, <2>3, <2>4
    <3> QED
      BY <3>1, Zenon DEF StackFollows
<1>4. CASE UNCHANGED vars
  BY <1>4 DEF StackFollows, vars, FileVars
<1>5. pc' # "lines" => StackFollows'
  BY DEF StackFollows
<1> QED
  BY <1>1, <1>2, <1>3, <1>4, <1>5 DEF Next

(* For every file, of any length and any depth of classes, down to the      *)
(* first line that makes it untidy: the stack of _ClassInfo holds exactly   *)
(* the classes whose bodies are open by the braces of the lines, outermost  *)
(* first, although every line is counted for the innermost class alone      *)
(* (_ClassState and CheckForNonStandardConstructs, cpplint.py:1405-1485).   *)
THEOREM ClassesFollowTheNesting == Spec => []ClassStackIsTheNesting
<1>1. TypeInv /\ StackFollows => ClassStackIsTheNesting
  <2> SUFFICES ASSUME StackInv(lines, linenum, OpenClasses(lines, linenum - 1), class_state)
               PROVE  /\ {class_state[i].linenum : i \in DOMAIN class_state}
                           = OpenClasses(lines, linenum - 1)
                      /\ \A i \in 2 .. Len(class_state) :
                           class_state[i - 1].linenum < class_state[i].linenum
    BY DEF StackFollows, ClassStackIsTheNesting
  <2>1. DOMAIN class_state = 1 .. Len(class_state) /\ Len(class_state) \in Nat
    BY SeqFacts DEF StackInv
  <2>2. {class_state[i].linenum : i \in DOMAIN class_state} = OpenClasses(lines, linenum - 1)
    BY DEF StackInv
  <2>3. \A i \in 2 .. Len(class_state) : /\ i - 1 \in DOMAIN class_state /\ i - 1 < i
                                        /\ i \in DOMAIN class_state
    BY <2>1
  <2> QED
    BY <2>2, <2>3 DEF StackInv
<1>2. TypeInv /\ StackFollows /\ [Next]_vars => StackFollows'
  BY StackFollowsNext
<1> QED
  BY <1>1, <1>2, StackFollowsAtInit, TypesHold, PTL DEF Spec
===============================================================================
