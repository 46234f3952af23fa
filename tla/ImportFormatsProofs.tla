------------------------- MODULE ImportFormatsProofs -------------------------
(***************************************************************************)
(* The import readers, for every file: what the CSV reader makes of a      *)
(* text, what the parsers make of a record, and what becomes of a file on  *)
(* its way to its items.                                                   *)
(*                                                                         *)
(* The readers are loops.  A loop over a text or a list is a recursive     *)
(* function on 0 .. N; Induction and Recursion, which rest on the natural  *)
(* numbers being well ordered, say that it is what its equations say.      *)
(***************************************************************************)
EXTENDS ImportFormats, SequenceTheorems, FiniteSetTheorems, WellFoundedInduction, TLAPS

-----------------------------------------------------------------------------
(***************************************************************************)
(* Loops.                                                                  *)
(***************************************************************************)

\* A set of naturals with something in it has a least element.
LEMMA LeastNatural ==
    ASSUME NEW T \in SUBSET Nat, T # {}
    PROVE  \E x \in T : \A y \in T : x <= y
<1>. DEFINE R == {ss \in Nat \X Nat : ss[1] < ss[2]}
<1>1. IsWellFoundedOn(R, Nat)
  BY NatLessThanWellFounded DEF OpToRel
<1>2. PICK x \in T : \A y \in T : ~(<<y, x>> \in R)
  <2>. HIDE DEF R
  <2>. QED  BY <1>1, WFMin
<1>3. ASSUME NEW y \in T PROVE x <= y
  <2>1. ~(<<y, x>> \in R) /\ x \in Nat /\ y \in Nat
    BY <1>2
  <2>. QED  BY <2>1
<1>. QED  BY <1>3

\* It is what Min returns.
LEMMA MinIsLeast ==
    ASSUME NEW T \in SUBSET Nat, T # {}
    PROVE  Min(T) \in T /\ \A y \in T : Min(T) <= y
BY LeastNatural DEF Min

\* What is so before the first turn of a loop, and stays so in every turn, is
\* so after the last.
LEMMA Induction ==
    ASSUME NEW N \in Nat, NEW T, 0 \in T, \A n \in 1 .. N : n - 1 \in T => n \in T
    PROVE  \A n \in 0 .. N : n \in T
<1>. DEFINE Missing == {n \in 0 .. N : n \notin T}
<1>. SUFFICES ASSUME Missing # {} PROVE FALSE
  OBVIOUS
<1>1. PICK n \in Missing : \A m \in Missing : n <= m
  <2>1. Missing \in SUBSET Nat
    OBVIOUS
  <2>. HIDE DEF Missing
  <2>. QED  BY <2>1, LeastNatural
<1>2. n # 0 /\ n \in 1 .. N /\ n - 1 \in 0 .. N
  OBVIOUS
<1>3. n - 1 \notin Missing
  BY <1>1, <1>2
<1>. QED  BY <1>2, <1>3

\* The states of a loop of N turns from x, whose turn n takes y to g[<<n, y>>].
Loop(S, x, N, g) ==
    {f \in [0 .. N -> S] : f[0] = x /\ \A n \in 1 .. N : f[n] = g[<<n, f[n - 1]>>]}

\* There are such states.
LEMMA Recursion ==
    ASSUME NEW S, NEW x \in S, NEW N \in Nat, NEW g \in [(1 .. N) \X S -> S]
    PROVE  Loop(S, x, N, g) # {}
<1>. DEFINE Follows(f, m) == f[0] = x /\ \A n \in 1 .. m : f[n] = g[<<n, f[n - 1]>>]
            T == {m \in 0 .. N : \E f \in [0 .. m -> S] : Follows(f, m)}
<1>1. 0 \in T
  <2>1. [n \in 0 .. 0 |-> x] \in [0 .. 0 -> S] /\ Follows([n \in 0 .. 0 |-> x], 0)
    OBVIOUS
  <2>2. \E f \in [0 .. 0 -> S] : Follows(f, 0)
    <3>. HIDE DEF Follows
    <3>. QED  BY <2>1
  <2>. QED  BY <2>2
<1>2. ASSUME NEW m \in 1 .. N, m - 1 \in T PROVE m \in T
  <2>1. PICK f \in [0 .. m - 1 -> S] : Follows(f, m - 1)
    BY <1>2
  <2>2. m - 1 \in 0 .. m - 1 /\ f[m - 1] \in S
    OBVIOUS
  <2>3. g[<<m, f[m - 1]>>] \in S
    BY <2>2
  <2>. DEFINE h == [n \in 0 .. m |-> IF n = m THEN g[<<m, f[m - 1]>>] ELSE f[n]]
  <2>4. h \in [0 .. m -> S]
    BY <2>3
  <2>5. Follows(h, m)
    <3>1. h[0] = x
      BY <2>1
    <3>2. ASSUME NEW n \in 1 .. m PROVE h[n] = g[<<n, h[n - 1]>>]
      <4>1. h[n - 1] = f[n - 1]
        OBVIOUS
      <4>2. CASE n = m
        <5>1. h[n] = g[<<m, f[m - 1]>>]
          BY <4>2
        <5>. QED  BY <4>1, <4>2, <5>1
      <4>3. CASE n # m
        <5>1. n \in 1 .. m - 1 /\ h[n] = f[n]
          BY <4>3
        <5>. QED  BY <2>1, <4>1, <5>1
      <4>. QED  BY <4>2, <4>3
    <3>. QED  BY <3>1, <3>2
  <2>. HIDE DEF h
  <2>. QED  BY <2>4, <2>5
<1>3. N \in T
  <2>. HIDE DEF T
  <2>. QED  BY <1>1, <1>2, Induction
<1>4. PICK f \in [0 .. N -> S] : Follows(f, N)
  BY <1>3
<1>. QED  BY <1>4 DEF Loop

\* A function on 1 .. n is a list.
LEMMA ListOf ==
    ASSUME NEW S, NEW n \in Nat, NEW f \in [1 .. n -> S]
    PROVE  f \in Seq(S) /\ Len(f) = n /\ DOMAIN f = 1 .. n
OBVIOUS
-----------------------------------------------------------------------------
(***************************************************************************)
(* The CSV reader is a loop over its states.                               *)
(***************************************************************************)
\* Characters are strings, and so are these: the provers have to be told.
Chars == STRING \cup {QUOTE, DELIMITER, BOM, "cr", "lf"}
Texts == Seq(Chars)
RawRecords == [line : Nat, fields : Seq(Texts), blank : BOOLEAN]
ScanStates ==
    [i : Nat \ {0}, field : Texts, fields : Seq(Texts), inQuotes : BOOLEAN,
     fieldWasQuoted : BOOLEAN, recordHadQuote : BOOLEAN, recordReported : BOOLEAN,
     line : Nat, recordLine : Nat, records : Seq(RawRecords), errors : Seq(Nat)]

\* Ending a field leads to a state of the reader.
LEMMA EndFieldType ==
    ASSUME NEW s \in ScanStates
    PROVE  /\ EndField(s) \in ScanStates
           /\ EndField(s) = [s EXCEPT !.fields = Append(s.fields, s.field), !.field = <<>>,
                                      !.fieldWasQuoted = FALSE]
<1>1. Append(s.fields, s.field) \in Seq(Texts)
  BY AppendProperties DEF ScanStates
<1>2. <<>> \in Texts
  BY EmptySeq DEF Texts
<1>. QED  BY <1>1, <1>2 DEF EndField, ScanStates

\* The record that ends at a state.
RawRecord(s) ==
    [line |-> s.recordLine, fields |-> Append(s.fields, s.field),
     blank |-> ~s.recordHadQuote /\ Append(s.fields, s.field) = << <<>> >>]

\* So does ending a record.
LEMMA EndRecordType ==
    ASSUME NEW s \in ScanStates
    PROVE  /\ RawRecord(s) \in RawRecords
           /\ EndRecord(s) \in ScanStates
           /\ EndRecord(s) =
                [s EXCEPT !.records = Append(s.records, RawRecord(s)),
                          !.fields = <<>>, !.field = <<>>, !.fieldWasQuoted = FALSE,
                          !.recordHadQuote = FALSE, !.recordReported = FALSE]
<1>1. Append(s.fields, s.field) \in Seq(Texts)
  BY AppendProperties DEF ScanStates
<1>2. <<>> \in Texts /\ <<>> \in Seq(Texts)
  BY EmptySeq DEF Texts
<1>3. RawRecord(s) \in RawRecords
  BY <1>1 DEF RawRecord, RawRecords, ScanStates
<1>4. Append(s.records, RawRecord(s)) \in Seq(RawRecords)
  BY <1>3, AppendProperties DEF ScanStates
<1>. DEFINE t == EndField(s)
<1>5. /\ t.fields = Append(s.fields, s.field)
      /\ t = [s EXCEPT !.fields = Append(s.fields, s.field), !.field = <<>>,
                       !.fieldWasQuoted = FALSE]
      /\ t.records = s.records
  <2>1. t = [s EXCEPT !.fields = Append(s.fields, s.field), !.field = <<>>,
                      !.fieldWasQuoted = FALSE]
    BY EndFieldType
  <2>. HIDE DEF t
  <2>. QED  BY <2>1 DEF ScanStates
<1>6. EndRecord(s) = [t EXCEPT !.records = Append(t.records, RawRecord(s)), !.fields = <<>>,
                               !.recordHadQuote = FALSE, !.recordReported = FALSE]
  <2>1. EndRecord(s) = [t EXCEPT !.records = Append(t.records,
                             [line |-> s.recordLine, fields |-> t.fields,
                              blank |-> ~s.recordHadQuote /\ t.fields = << <<>> >>]),
                                 !.fields = <<>>, !.recordHadQuote = FALSE,
                                 !.recordReported = FALSE]
    BY Zenon DEF EndRecord
  <2>. HIDE DEF t
  <2>. QED  BY <1>5, <2>1 DEF RawRecord
<1>7. EndRecord(s) = [s EXCEPT !.records = Append(s.records, RawRecord(s)), !.fields = <<>>,
                               !.field = <<>>, !.fieldWasQuoted = FALSE,
                               !.recordHadQuote = FALSE, !.recordReported = FALSE]
  <2>. HIDE DEF t
  <2>. QED  BY <1>5, <1>6 DEF ScanStates
<1>8. EndRecord(s) \in ScanStates
  BY <1>2, <1>4, <1>7 DEF ScanStates
<1>. QED  BY <1>3, <1>7, <1>8

\* What the end of a field and of a record leaves.
LEMMA EndFieldKeeps ==
    ASSUME NEW s \in ScanStates
    PROVE  LET t == EndField(s) IN
           /\ t.i = s.i /\ t.line = s.line /\ t.recordLine = s.recordLine
           /\ t.inQuotes = s.inQuotes /\ t.recordHadQuote = s.recordHadQuote
           /\ t.recordReported = s.recordReported
           /\ t.records = s.records /\ t.errors = s.errors
           /\ t.fields = Append(s.fields, s.field) /\ t.field = <<>>
           /\ t.fieldWasQuoted = FALSE
<1>. DEFINE t == EndField(s)
<1>1. t = [s EXCEPT !.fields = Append(s.fields, s.field), !.field = <<>>,
                    !.fieldWasQuoted = FALSE]
  BY EndFieldType
<1>. HIDE DEF t
<1>2. /\ t.i = s.i /\ t.line = s.line /\ t.recordLine = s.recordLine
      /\ t.inQuotes = s.inQuotes /\ t.recordHadQuote = s.recordHadQuote
      /\ t.recordReported = s.recordReported
      /\ t.records = s.records /\ t.errors = s.errors
      /\ t.fields = Append(s.fields, s.field) /\ t.field = <<>>
      /\ t.fieldWasQuoted = FALSE
  BY <1>1 DEF ScanStates
<1>. QED  BY <1>2 DEF t

\* What ending a record leaves alone, and the record it adds.
LEMMA EndRecordKeeps ==
    ASSUME NEW s \in ScanStates
    PROVE  LET t == EndRecord(s) IN
           /\ t.i = s.i /\ t.line = s.line /\ t.recordLine = s.recordLine
           /\ t.inQuotes = s.inQuotes /\ t.errors = s.errors
           /\ t.records = Append(s.records, RawRecord(s))
           /\ t.fields = <<>> /\ t.field = <<>> /\ t.fieldWasQuoted = FALSE
           /\ t.recordHadQuote = FALSE /\ t.recordReported = FALSE
<1>. DEFINE t == EndRecord(s)
            r == RawRecord(s)
<1>1. t = [s EXCEPT !.records = Append(s.records, r), !.fields = <<>>, !.field = <<>>,
                    !.fieldWasQuoted = FALSE, !.recordHadQuote = FALSE,
                    !.recordReported = FALSE]
  BY EndRecordType
<1>. HIDE DEF t, r
<1>2. /\ t.i = s.i /\ t.line = s.line /\ t.recordLine = s.recordLine
      /\ t.inQuotes = s.inQuotes /\ t.errors = s.errors
      /\ t.records = Append(s.records, r)
      /\ t.fields = <<>> /\ t.field = <<>> /\ t.fieldWasQuoted = FALSE
      /\ t.recordHadQuote = FALSE /\ t.recordReported = FALSE
  BY <1>1 DEF ScanStates
<1>. QED  BY <1>2 DEF t, r

\* A state stays a state when the reader moves on.
LEMMA MovedState ==
    ASSUME NEW t \in ScanStates, NEW n \in Nat \ {0}, NEW k \in Nat, NEW l \in Nat
    PROVE  /\ [t EXCEPT !.i = n] \in ScanStates
           /\ [t EXCEPT !.i = n, !.line = k, !.recordLine = l] \in ScanStates
BY DEF ScanStates

\* A turn of the loop takes a state to a state.
LEMMA NextCharType ==
    ASSUME NEW text \in Texts, NEW s \in ScanStates
    PROVE  NextChar(text, s) \in ScanStates
<1>1. CASE s.i > Len(text)
  BY <1>1 DEF NextChar
<1>. SUFFICES ASSUME ~(s.i > Len(text)) PROVE NextChar(text, s) \in ScanStates
  BY <1>1
<1>2. s.i \in 1 .. Len(text) /\ text[s.i] \in Chars /\ Len(text) \in Nat
  BY LenProperties DEF ScanStates, Texts
<1>3. Append(s.field, text[s.i]) \in Texts
  BY <1>2, AppendProperties DEF ScanStates, Texts
<1>4. Append(s.errors, s.recordLine) \in Seq(Nat)
  BY AppendProperties DEF ScanStates
<1>9. s.i + 1 \in Nat \ {0} /\ s.i + 2 \in Nat \ {0} /\ s.line + 0 \in Nat /\ s.line + 1 \in Nat
  <2>1. s.i \in Nat \ {0} /\ s.line \in Nat
    BY DEF ScanStates
  <2>. QED  BY <2>1
<1>5. CASE s.inQuotes
  <2>1. [s EXCEPT !.field = Append(@, QUOTE), !.i = @ + 2] \in ScanStates
    <3>1. QUOTE \in Chars
      BY DEF Chars
    <3>2. Append(s.field, QUOTE) \in Texts
      BY <3>1, AppendProperties DEF ScanStates, Texts
    <3>. QED  BY <1>9, <3>2 DEF ScanStates
  <2>. DEFINE closed == [s EXCEPT !.inQuotes = FALSE, !.i = @ + 1]
  <2>2. closed \in ScanStates
    BY <1>9 DEF ScanStates
  <2>3. Report([closed EXCEPT !.recordReported = TRUE]) \in ScanStates
    <3>1. /\ [closed EXCEPT !.recordReported = TRUE] \in ScanStates
          /\ [closed EXCEPT !.recordReported = TRUE].errors = s.errors
          /\ [closed EXCEPT !.recordReported = TRUE].recordLine = s.recordLine
      BY <2>2 DEF ScanStates
    <3>. HIDE DEF closed
    <3>. DEFINE u == [closed EXCEPT !.recordReported = TRUE]
    <3>2. u \in ScanStates /\ Append(u.errors, u.recordLine) \in Seq(Nat)
      BY <1>4, <3>1
    <3>. HIDE DEF u
    <3>3. Report(u) \in ScanStates
      BY <3>2 DEF Report, ScanStates
    <3>. QED  BY <3>3 DEF u
  <2>4. \A d \in {0, 1} : [s EXCEPT !.line = @ + d, !.field = Append(@, text[s.i]), !.i = @ + 1]
                          \in ScanStates
    BY <1>3, <1>9 DEF ScanStates
  <2>5. QuotedChar(text, s) \in {[s EXCEPT !.field = Append(@, QUOTE), !.i = @ + 2], closed,
                                 Report([closed EXCEPT !.recordReported = TRUE])}
                                \cup {[s EXCEPT !.line = @ + d, !.field = Append(@, text[s.i]),
                                                !.i = @ + 1] : d \in {0, 1}}
    BY DEF QuotedChar
  <2>6. QuotedChar(text, s) \in ScanStates
    BY <2>1, <2>2, <2>3, <2>4, <2>5
  <2>. QED  BY <1>5, <2>6 DEF NextChar
<1>6. CASE ~s.inQuotes
  <2>1. [s EXCEPT !.inQuotes = TRUE, !.fieldWasQuoted = TRUE, !.recordHadQuote = TRUE,
                  !.i = @ + 1] \in ScanStates
    BY <1>9 DEF ScanStates
  <2>2. [EndField(s) EXCEPT !.i = @ + 1] \in ScanStates
    <3>. DEFINE ended == EndField(s)
    <3>1. ended \in ScanStates
      BY EndFieldType
    <3>. HIDE DEF ended
    <3>2. ended.i \in Nat \ {0}
      BY <3>1 DEF ScanStates
    <3>3. ended.i + 1 \in Nat \ {0}
      BY <3>2
    <3>4. [ended EXCEPT !.i = @ + 1] \in ScanStates
      BY <3>1, <3>3, MovedState
    <3>. QED  BY <3>4 DEF ended
  <2>3. \A width \in {1, 2} : [EndRecord(s) EXCEPT !.i = @ + width, !.line = @ + 1,
                                                   !.recordLine = s.line + 1] \in ScanStates
    <3>1. EndRecord(s) \in ScanStates
      BY EndRecordType
    <3>2. EndRecord(s).i \in Nat \ {0} /\ EndRecord(s).line \in Nat /\ s.line \in Nat
      BY <3>1 DEF ScanStates
    <3>. DEFINE ended == EndRecord(s)
    <3>. HIDE DEF ended
    <3>3. ASSUME NEW width \in {1, 2}
          PROVE  [ended EXCEPT !.i = @ + width, !.line = @ + 1, !.recordLine = s.line + 1]
                 \in ScanStates
      <4>1. ended \in ScanStates /\ ended.i \in Nat \ {0} /\ ended.line \in Nat
        BY <3>1, <3>2 DEF ended
      <4>2. ended.i + width \in Nat \ {0} /\ ended.line + 1 \in Nat
        BY <4>1
      <4>. QED  BY <1>9, <4>1, <4>2, MovedState
    <3>. QED  BY <3>3 DEF ended
  <2>4. [s EXCEPT !.field = Append(@, text[s.i]), !.i = @ + 1] \in ScanStates
    BY <1>3, <1>9 DEF ScanStates
  <2>5. PlainChar(text, s) \in
            {[s EXCEPT !.inQuotes = TRUE, !.fieldWasQuoted = TRUE, !.recordHadQuote = TRUE,
                       !.i = @ + 1],
             [EndField(s) EXCEPT !.i = @ + 1],
             [s EXCEPT !.field = Append(@, text[s.i]), !.i = @ + 1]}
            \cup {[EndRecord(s) EXCEPT !.i = @ + width, !.line = @ + 1,
                                       !.recordLine = s.line + 1] : width \in {1, 2}}
    BY DEF PlainChar
  <2>6. PlainChar(text, s) \in ScanStates
    BY <2>1, <2>2, <2>3, <2>4, <2>5
  <2>. QED  BY <1>6, <2>6 DEF NextChar
<1>. QED  BY <1>5, <1>6

\* The states the reader goes through.
LEMMA ScanRunSteps ==
    ASSUME NEW text \in Texts
    PROVE  /\ ScanRun(text) \in [0 .. Len(text) -> ScanStates]
           /\ ScanRun(text)[0] = ScanStart
           /\ \A n \in 1 .. Len(text) : ScanRun(text)[n] = NextChar(text, ScanRun(text)[n - 1])
<1>. DEFINE N == Len(text)
            Eq(run) == run = [n \in 0 .. N |-> IF n = 0 THEN ScanStart
                                               ELSE NextChar(text, run[n - 1])]
<1>1. N \in Nat
  BY LenProperties DEF Texts
<1>2. ScanStart \in ScanStates
  BY EmptySeq DEF ScanStart, ScanStates, Texts
<1>. DEFINE g == [p \in (1 .. N) \X ScanStates |-> NextChar(text, p[2])]
<1>3. g \in [(1 .. N) \X ScanStates -> ScanStates]
  BY NextCharType
<1>. HIDE DEF N
<1>. HIDE DEF g
<1>4. PICK f \in [0 .. N -> ScanStates] :
             f[0] = ScanStart /\ \A n \in 1 .. N : f[n] = g[<<n, f[n - 1]>>]
  <2>1. Loop(ScanStates, ScanStart, N, g) # {}
    BY <1>1, <1>2, <1>3, Recursion
  <2>. QED  BY <2>1 DEF Loop
<1>5. ASSUME NEW n \in 1 .. N PROVE f[n] = NextChar(text, f[n - 1])
  <2>1. n - 1 \in 0 .. N /\ f[n - 1] \in ScanStates
    BY <1>1
  <2>2. g[<<n, f[n - 1]>>] = NextChar(text, f[n - 1])
    BY <2>1 DEF g
  <2>. QED  BY <1>4, <2>2
<1>6. Eq(f)
  BY <1>1, <1>4, <1>5
<1>7. Eq(ScanRun(text))
  <2>1. ScanRun(text) = CHOOSE run : Eq(run)
    BY DEF ScanRun, N
  <2>. QED  BY <1>6, <2>1
<1>. DEFINE run == ScanRun(text)
            T == {n \in 0 .. N : run[n] \in ScanStates}
<1>. HIDE DEF run
<1>8. run[0] = ScanStart /\ \A n \in 1 .. N : run[n] = NextChar(text, run[n - 1])
  BY <1>1, <1>7 DEF run
<1>9. 0 \in T
  BY <1>1, <1>2, <1>8
<1>10. \A n \in 1 .. N : n - 1 \in T => n \in T
  BY <1>1, <1>8, NextCharType
<1>11. \A n \in 0 .. N : run[n] \in ScanStates
  <2>. HIDE DEF T
  <2>1. \A n \in 0 .. N : n \in T
    BY <1>1, <1>9, <1>10, Induction
  <2>. QED  BY <2>1 DEF T
<1>12. run = [n \in 0 .. N |-> run[n]]
  BY <1>7 DEF run
<1>13. run \in [0 .. N -> ScanStates]
  BY <1>11, <1>12
<1>. QED  BY <1>8, <1>13 DEF run, N
\* The state the whole text leaves behind.
LEMMA ScanType ==
    ASSUME NEW text \in Texts
    PROVE  Scan(text) \in ScanStates
<1>1. PICK s \in ScanStates : Scan(text) = FinishScan(s)
  <2>1. Len(text) \in 0 .. Len(text)
    BY LenProperties DEF Texts
  <2>. QED  BY <2>1, ScanRunSteps DEF Scan
<1>2. Report(s) \in ScanStates
  <2>1. Append(s.errors, s.recordLine) \in Seq(Nat)
    BY AppendProperties DEF ScanStates
  <2>. QED  BY <2>1 DEF Report, ScanStates
<1>. DEFINE t == IF s.inQuotes THEN Report(s) ELSE s
<1>3. t \in ScanStates
  BY <1>2
<1>4. FinishScan(s) \in {t, EndRecord(t)}
  BY DEF FinishScan
<1>. HIDE DEF t
<1>. QED  BY <1>1, <1>3, <1>4, EndRecordType

\* A text without its byte order mark is a text.
LEMMA WithoutBomType ==
    ASSUME NEW text \in Texts
    PROVE  WithoutBom(text) \in Texts
BY HeadTailProperties DEF WithoutBom, Texts

-----------------------------------------------------------------------------
(***************************************************************************)
(* The records that are not blank.                                         *)
(***************************************************************************)

\* They are gathered one by one.
LEMMA MeaningfulSteps ==
    ASSUME NEW S, NEW records \in Seq(S)
    PROVE  \E kept \in [0 .. Len(records) -> Seq(S)] :
               /\ Meaningful(records) = kept[Len(records)]
               /\ kept[0] = <<>>
               /\ \A n \in 1 .. Len(records) :
                      kept[n] = IF records[n].blank THEN kept[n - 1]
                                ELSE Append(kept[n - 1], records[n])
<1>. DEFINE N == Len(records)
            Turn(n, k) == IF records[n].blank THEN k ELSE Append(k, records[n])
            Eq(kept) == kept = [n \in 0 .. N |-> IF n = 0 THEN <<>> ELSE Turn(n, kept[n - 1])]
            g == [p \in (1 .. N) \X Seq(S) |-> Turn(p[1], p[2])]
<1>1. N \in Nat /\ <<>> \in Seq(S) /\ DOMAIN records = 1 .. N
  BY LenProperties, EmptySeq
<1>2. \A n \in 1 .. N, k \in Seq(S) : Turn(n, k) \in Seq(S)
  BY <1>1, AppendProperties
<1>3. g \in [(1 .. N) \X Seq(S) -> Seq(S)]
  <2>. HIDE DEF Turn
  <2>. QED  BY <1>2
<1>4. PICK f \in [0 .. N -> Seq(S)] :
             f[0] = <<>> /\ \A n \in 1 .. N : f[n] = g[<<n, f[n - 1]>>]
  <2>. HIDE DEF g, N
  <2>1. Loop(Seq(S), <<>>, N, g) # {}
    BY <1>1, <1>3, Recursion
  <2>. QED  BY <2>1 DEF Loop
<1>. HIDE DEF N
<1>5. ASSUME NEW n \in 1 .. N PROVE f[n] = Turn(n, f[n - 1])
  <2>1. n - 1 \in 0 .. N /\ f[n - 1] \in Seq(S)
    BY <1>1
  <2>. HIDE DEF Turn
  <2>2. g[<<n, f[n - 1]>>] = Turn(n, f[n - 1])
    BY <2>1 DEF g
  <2>. QED  BY <1>4, <2>2
<1>. DEFINE run == CHOOSE kept : Eq(kept)
<1>6. Meaningful(records) = run[N]
  BY DEF Meaningful, N
<1>7. Eq(f)
  <2>. HIDE DEF Turn
  <2>. QED  BY <1>1, <1>4, <1>5
<1>8. Eq(run)
  <2>. HIDE DEF Eq
  <2>. QED  BY <1>7
<1>. HIDE DEF run
<1>9. run[0] = <<>> /\ \A n \in 1 .. N : run[n] = Turn(n, run[n - 1])
  <2>. HIDE DEF Turn
  <2>. QED  BY <1>1, <1>8
<1>. DEFINE T == {n \in 0 .. N : run[n] \in Seq(S)}
<1>10. 0 \in T
  <2>1. 0 \in 0 .. N /\ run[0] = <<>>
    BY <1>1, <1>9
  <2>. QED  BY <1>1, <2>1
<1>11. ASSUME NEW n \in 1 .. N, n - 1 \in T PROVE n \in T
  <2>. HIDE DEF Turn
  <2>. QED  BY <1>1, <1>2, <1>9, <1>11
<1>12. \A n \in 0 .. N : run[n] \in Seq(S)
  <2>. HIDE DEF T
  <2>1. \A n \in 0 .. N : n \in T
    BY <1>1, <1>10, <1>11, Induction
  <2>. QED  BY <2>1 DEF T
<1>13. run \in [0 .. N -> Seq(S)]
  <2>. HIDE DEF Turn
  <2>1. run = [n \in 0 .. N |-> run[n]]
    BY <1>8
  <2>. QED  BY <1>12, <2>1
<1>. QED  BY <1>6, <1>9, <1>13 DEF N

\* The records that are not blank are records.
LEMMA MeaningfulType ==
    ASSUME NEW S, NEW records \in Seq(S)
    PROVE  Meaningful(records) \in Seq(S)
<1>1. Len(records) \in 0 .. Len(records)
  BY LenProperties
<1>. QED  BY <1>1, MeaningfulSteps

-----------------------------------------------------------------------------
(***************************************************************************)
(* What the CSV reader hands to a parser.                                  *)
(***************************************************************************)
Tables == [header : Seq(Texts), rows : Seq(RawRecords), errors : Seq(Nat)]

\* Both readers return a table.
LEMMA ParseCsvType ==
    ASSUME NEW text \in Texts
    PROVE  ParseCsv(text) \in Tables /\ ParseCsvRecords(text) \in Tables
<1>. DEFINE s == Scan(WithoutBom(text))
            records == Meaningful(s.records)
<1>1. s \in ScanStates
  BY WithoutBomType, ScanType
<1>2. s.records \in Seq(RawRecords) /\ s.errors \in Seq(Nat)
  BY <1>1 DEF ScanStates
<1>. HIDE DEF s
<1>3. records \in Seq(RawRecords)
  BY <1>2, MeaningfulType
<1>. HIDE DEF records
<1>4. ParseCsv(text) = IF records = <<>>
                       THEN [header |-> <<>>, rows |-> <<>>, errors |-> s.errors]
                       ELSE [header |-> records[1].fields, rows |-> Tail(records),
                             errors |-> s.errors]
  BY DEF ParseCsv, s, records
<1>5. ParseCsvRecords(text) = [header |-> <<>>, rows |-> records, errors |-> s.errors]
  BY DEF ParseCsvRecords, s, records
<1>6. <<>> \in Seq(Texts) /\ <<>> \in Seq(RawRecords)
  BY EmptySeq
<1>7. ASSUME records # <<>> PROVE records[1].fields \in Seq(Texts) /\ Tail(records) \in Seq(RawRecords)
  <2>1. Len(records) \in Nat \ {0} /\ Tail(records) \in Seq(RawRecords)
    BY <1>3, <1>7, LenProperties, EmptySeq, HeadTailProperties
  <2>2. records[1] \in RawRecords
    BY <1>3, <2>1, ElementOfSeq
  <2>. QED  BY <2>1, <2>2 DEF RawRecords
<1>. QED  BY <1>2, <1>3, <1>4, <1>5, <1>6, <1>7 DEF Tables
-----------------------------------------------------------------------------
(***************************************************************************)
(* What a parser makes of a record holds values of the record and nothing  *)
(* else, and is a login only with a password.                              *)
(***************************************************************************)
ValuesOf(record) == {record.cells[c] : c \in DOMAIN record.cells}

\* An item whose fields hold some of the values V.
ImportItems(V) ==
    [type : {"login", "note"}, name : SUBSET V, username : SUBSET V, password : SUBSET V,
     urls : SUBSET V, notes : SUBSET V, favorite : SUBSET V, folderPath : SUBSET V,
     extra : SUBSET V]

FieldNames == {"name", "username", "password", "urls", "notes", "favorite", "folderPath", "extra"}

\* What is taken from a record is of the record.
LEMMA CellOfRecord ==
    ASSUME NEW record
    PROVE  /\ \A key : Cell(record, key) \subseteq ValuesOf(record)
           /\ \A keys : Cells(record, keys) \subseteq ValuesOf(record)
           /\ \A keys : FirstCell(record, keys) \subseteq ValuesOf(record)
           /\ \A key : Flag(record, key) \subseteq ValuesOf(record)
           /\ \A key : Metadata(record, key) \subseteq ValuesOf(record)
<1>1. ASSUME NEW key PROVE Value(record, key) \in ValuesOf(record) \/ Value(record, key) = <<>>
  BY DEF Value, ValuesOf
<1>2. ASSUME NEW key PROVE Cell(record, key) \subseteq ValuesOf(record)
  BY <1>1 DEF Cell
<1>3. ASSUME NEW keys PROVE Cells(record, keys) \subseteq ValuesOf(record)
  BY <1>2 DEF Cells
<1>4. ASSUME NEW keys PROVE FirstCell(record, keys) \subseteq ValuesOf(record)
  <2>. DEFINE held == {k \in DOMAIN keys : Cell(record, keys[k]) # {}}
  <2>1. FirstCell(record, keys) \in {{}, Cell(record, keys[Min(held)])}
    BY DEF FirstCell
  <2>. HIDE DEF held
  <2>. QED  BY <1>2, <2>1
<1>5. ASSUME NEW key PROVE Flag(record, key) \subseteq ValuesOf(record)
  <2>1. <<>> \notin {<<"1">>, <<"true">>}
    OBVIOUS
  <2>. QED  BY <1>1, <2>1 DEF Flag
<1>6. ASSUME NEW key PROVE Metadata(record, key) \subseteq ValuesOf(record)
  BY <1>1 DEF Metadata, No
<1>. QED  BY <1>2, <1>3, <1>4, <1>5, <1>6

\* An item of fields.
LEMMA FieldsOfItem ==
    ASSUME NEW V, NEW fields, DOMAIN fields \subseteq FieldNames,
           \A field \in DOMAIN fields : fields[field] \subseteq V
    PROVE  /\ Fields(fields) \in ImportItems(V)
           /\ Fields(fields).type = "login"
           /\ \A field \in FieldNames :
                  Fields(fields)[field] = IF field \in DOMAIN fields THEN fields[field] ELSE {}
<1>1. /\ DOMAIN BlankImportItem = FieldNames \cup {"type"}
      /\ BlankImportItem.type = "login"
      /\ \A field \in FieldNames : BlankImportItem[field] = {}
  BY DEF BlankImportItem, FieldNames
<1>. DEFINE item == Fields(fields)
<1>2. item = [field \in FieldNames \cup {"type"} |->
                  IF field \in DOMAIN fields THEN fields[field] ELSE BlankImportItem[field]]
  BY <1>1 DEF Fields
<1>3. "type" \notin FieldNames
  BY DEF FieldNames
<1>4. \A field \in FieldNames :
          item[field] = IF field \in DOMAIN fields THEN fields[field] ELSE {}
  BY <1>1, <1>2
<1>5. item.type = "login"
  BY <1>1, <1>2, <1>3
<1>6. \A field \in FieldNames : item[field] \subseteq V
  BY <1>4
<1>7. item \in ImportItems(V)
  BY <1>2, <1>5, <1>6 DEF ImportItems, FieldNames
<1>. QED  BY <1>4, <1>5, <1>7

\* What requiredPassword makes of an item.
LEMMA RequiredPasswordItem ==
    ASSUME NEW record, NEW key, NEW item \in ImportItems(ValuesOf(record))
    PROVE  \/ RequiredPassword(record, key, item) = RowError
           \/ /\ RequiredPassword(record, key, item) \in ImportItems(ValuesOf(record))
              /\ RequiredPassword(record, key, item).password # {}
BY CellOfRecord DEF RequiredPassword, ImportItems

\* A parser's outcome: an error, a note, or a login with a password.
Outcomes(record) ==
    {RowError} \cup {item \in ImportItems(ValuesOf(record)) :
                        item.type = "login" => item.password # {}}

\* What a parser makes of a record: by a layout,
LEMMA LayoutOutcome ==
    ASSUME NEW record, NEW layout
    PROVE  LayoutItem(record, layout) \in Outcomes(record)
<1>. DEFINE V == ValuesOf(record)
            fields == [name |-> FirstCell(record, layout.name),
                       username |-> Cell(record, layout.username),
                       urls |-> Cell(record, layout.url),
                       notes |-> Cell(record, layout.notes),
                       folderPath |-> Cell(record, layout.folder),
                       extra |-> Cells(record, layout.carry)]
<1>1. DOMAIN fields \subseteq FieldNames /\ \A field \in DOMAIN fields : fields[field] \subseteq V
  <2>. HIDE DEF V
  <2>. QED  BY CellOfRecord DEF FieldNames, V
<1>2. LayoutItem(record, layout) = RequiredPassword(record, layout.password, Fields(fields))
  BY DEF LayoutItem
<1>. HIDE DEF fields
<1>3. Fields(fields) \in ImportItems(V)
  BY <1>1, FieldsOfItem
<1>. QED  BY <1>2, <1>3, RequiredPasswordItem DEF Outcomes

\* as a note,
LEMMA NoteOutcome ==
    ASSUME NEW record, NEW item \in ImportItems(ValuesOf(record))
    PROVE  [item EXCEPT !.type = "note"] \in Outcomes(record)
BY DEF ImportItems, Outcomes

\* as a login with the password it requires,
LEMMA LoginOutcome ==
    ASSUME NEW record, NEW key, NEW item \in ImportItems(ValuesOf(record))
    PROVE  RequiredPassword(record, key, item) \in Outcomes(record)
BY RequiredPasswordItem DEF Outcomes

\* or as an error.
LEMMA ErrorOutcome == \A record : RowError \in Outcomes(record)
BY DEF Outcomes

\* LastPass's parser.
LEMMA LastPassOutcome ==
    ASSUME NEW record
    PROVE  LastPassItem(record) \in Outcomes(record)
<1>. DEFINE V == ValuesOf(record)
            fields == [name |-> Cell(record, "name"), notes |-> Cell(record, "extra"),
                       favorite |-> Flag(record, "fav"), folderPath |-> Cell(record, "grouping")]
            item == Fields(fields)
            login == [item EXCEPT !.username = Cell(record, "username"),
                                  !.urls = Cell(record, "url"), !.extra = Cell(record, "totp")]
<1>1. DOMAIN fields \subseteq FieldNames /\ \A field \in DOMAIN fields : fields[field] \subseteq V
  BY CellOfRecord DEF FieldNames
<1>2. LastPassItem(record) \in {[item EXCEPT !.type = "note"],
                                RequiredPassword(record, "password", login)}
  BY DEF LastPassItem
<1>. HIDE DEF fields
<1>3. item \in ImportItems(V)
  BY <1>1, FieldsOfItem
<1>. HIDE DEF item
<1>4. login \in ImportItems(V)
  BY <1>3, CellOfRecord DEF ImportItems
<1>. HIDE DEF login
<1>. QED  BY <1>2, <1>3, <1>4, NoteOutcome, LoginOutcome

\* NordPass's parser.
LEMMA NordPassOutcome ==
    ASSUME NEW record
    PROVE  NordPassItem(record) \in Outcomes(record)
<1>. DEFINE V == ValuesOf(record)
            fields == [name |-> Cell(record, "name"), notes |-> Cell(record, "note"),
                       folderPath |-> Cell(record, "folder"),
                       extra |-> Cell(record, "custom_fields")]
            item == Fields(fields)
            login == [item EXCEPT !.username = Cell(record, "username"),
                                  !.urls = Cells(record, {"url", "additional_urls"})]
<1>1. DOMAIN fields \subseteq FieldNames /\ \A field \in DOMAIN fields : fields[field] \subseteq V
  BY CellOfRecord DEF FieldNames
<1>2. NordPassItem(record) \in {RowError, [item EXCEPT !.type = "note"],
                                RequiredPassword(record, "password", login)}
  BY DEF NordPassItem
<1>. HIDE DEF fields
<1>3. item \in ImportItems(V)
  BY <1>1, FieldsOfItem
<1>. HIDE DEF item
<1>4. login \in ImportItems(V)
  BY <1>3, CellOfRecord DEF ImportItems
<1>. HIDE DEF login
<1>. QED  BY <1>2, <1>3, <1>4, NoteOutcome, LoginOutcome, ErrorOutcome

\* Dashlane's parser of JSON.
LEMMA DashlaneJsonOutcome ==
    ASSUME NEW record
    PROVE  DashlaneJsonRecord(record) \in Outcomes(record)
<1>. DEFINE V == ValuesOf(record)
            fields == [name |-> FirstCell(record, <<"title", "name">>)]
            item == Fields(fields)
            note == [item EXCEPT !.notes = Cell(record, "content")]
            login == [item EXCEPT !.username = FirstCell(record, <<"login", "email">>),
                                  !.notes = Cell(record, "note"),
                                  !.folderPath = Cell(record, "category"),
                                  !.urls = FirstCell(record, <<"url", "domain">>),
                                  !.extra = Cell(record, "otpSecret") \cup
                                    (Cell(record, "email") \ FirstCell(record, <<"login", "email">>))]
<1>1. DOMAIN fields \subseteq FieldNames /\ \A field \in DOMAIN fields : fields[field] \subseteq V
  BY CellOfRecord DEF FieldNames
<1>2. DashlaneJsonRecord(record) \in {RowError, [note EXCEPT !.type = "note"],
                                      RequiredPassword(record, "password", login)}
  <2>1. [note EXCEPT !.type = "note"] = [item EXCEPT !.type = "note", !.notes = Cell(record, "content")]
    <3>. HIDE DEF item
    <3>. QED  OBVIOUS
  <2>. QED  BY <2>1 DEF DashlaneJsonRecord
<1>. HIDE DEF fields
<1>3. item \in ImportItems(V)
  BY <1>1, FieldsOfItem
<1>. HIDE DEF item
<1>4. login \in ImportItems(V) /\ note \in ImportItems(V)
  BY <1>3, CellOfRecord DEF ImportItems
<1>. HIDE DEF login, note
<1>. QED  BY <1>2, <1>3, <1>4, NoteOutcome, LoginOutcome, ErrorOutcome

\* Proton Pass's parser.
LEMMA ProtonPassOutcome ==
    ASSUME NEW record
    PROVE  ProtonPassItem(record) \in Outcomes(record)
<1>. DEFINE V == ValuesOf(record)
            fields == [name |-> Cell(record, "name"), notes |-> Cell(record, "note"),
                       folderPath |-> Cell(record, "vault"),
                       extra |-> Cell(record, "extraFields")]
            item == Fields(fields)
            username == FirstCell(record, <<"itemUsername", "itemEmail">>)
            login == [item EXCEPT !.username = username,
                                  !.urls = Cell(record, "urls"),
                                  !.extra = @ \cup (Cell(record, "itemEmail") \ username)
                                              \cup Cells(record, {"totpUri", "passkeys"})]
<1>1. DOMAIN fields \subseteq FieldNames /\ \A field \in DOMAIN fields : fields[field] \subseteq V
  BY CellOfRecord DEF FieldNames
<1>2. ProtonPassItem(record) \in {RowError, [item EXCEPT !.type = "note"],
                                  RequiredPassword(record, "password", login)}
  BY DEF ProtonPassItem
<1>. HIDE DEF fields
<1>3. item \in ImportItems(V)
  BY <1>1, FieldsOfItem
<1>. HIDE DEF item
<1>4. login \in ImportItems(V)
  BY <1>3, CellOfRecord DEF ImportItems
<1>. HIDE DEF login
<1>. QED  BY <1>2, <1>3, <1>4, NoteOutcome, LoginOutcome, ErrorOutcome

\* Bitwarden's parser of JSON.
LEMMA BitwardenJsonOutcome ==
    ASSUME NEW record
    PROVE  BitwardenJsonItem(record) \in Outcomes(record)
<1>. DEFINE V == ValuesOf(record)
            folder == Cell(record, "folderOfId")
            extra == Cells(record, {"collectionIds", "fields"})
                     \cup Metadata(record, "reprompt")
                     \cup IF folder = {} THEN Cell(record, "folderId") ELSE {}
            fields == [name |-> Cell(record, "name"), notes |-> Cell(record, "notes"),
                       favorite |-> Flag(record, "favorite"),
                       folderPath |-> folder, extra |-> extra]
            item == Fields(fields)
            login == [item EXCEPT !.username = Cell(record, "username"),
                                  !.urls = Cell(record, "uris"),
                                  !.extra = @ \cup Cell(record, "totp")]
<1>1. DOMAIN fields \subseteq FieldNames /\ \A field \in DOMAIN fields : fields[field] \subseteq V
  <2>1. extra \subseteq V /\ folder \subseteq V
    BY CellOfRecord
  <2>. HIDE DEF extra, folder
  <2>. QED  BY <2>1, CellOfRecord DEF FieldNames
<1>2. BitwardenJsonItem(record) \in {RowError, [item EXCEPT !.type = "note"],
                                     RequiredPassword(record, "password", login)}
  BY DEF BitwardenJsonItem
<1>. HIDE DEF fields
<1>3. item \in ImportItems(V)
  BY <1>1, FieldsOfItem
<1>. HIDE DEF item
<1>4. login \in ImportItems(V)
  BY <1>3, CellOfRecord DEF ImportItems
<1>. HIDE DEF login
<1>. QED  BY <1>2, <1>3, <1>4, NoteOutcome, LoginOutcome, ErrorOutcome

\* Bitwarden's parser of CSV.
LEMMA BitwardenCsvOutcome ==
    ASSUME NEW record
    PROVE  BitwardenCsvItem(record) \in Outcomes(record)
<1>. DEFINE V == ValuesOf(record)
            fields == [name |-> Cell(record, "name"), notes |-> Cell(record, "notes"),
                       favorite |-> Flag(record, "favorite"),
                       folderPath |-> Cell(record, "folder"),
                       extra |-> Cell(record, "fields") \cup Metadata(record, "reprompt")]
            item == Fields(fields)
            login == [item EXCEPT !.username = Cell(record, "login_username"),
                                  !.urls = Cell(record, "login_uri"),
                                  !.extra = @ \cup Cell(record, "login_totp")]
<1>1. DOMAIN fields \subseteq FieldNames /\ \A field \in DOMAIN fields : fields[field] \subseteq V
  BY CellOfRecord DEF FieldNames
<1>2. BitwardenCsvItem(record) \in {RowError, [item EXCEPT !.type = "note"],
                                    RequiredPassword(record, "login_password", login)}
  BY DEF BitwardenCsvItem
<1>. HIDE DEF fields
<1>3. item \in ImportItems(V)
  BY <1>1, FieldsOfItem
<1>. HIDE DEF item
<1>4. login \in ImportItems(V)
  BY <1>3, CellOfRecord DEF ImportItems
<1>. HIDE DEF login
<1>. QED  BY <1>2, <1>3, <1>4, NoteOutcome, LoginOutcome, ErrorOutcome

\* 1Password's parser of archives.
LEMMA OnePasswordOutcome ==
    ASSUME NEW record
    PROVE  OnePasswordItem(record) \in Outcomes(record)
<1>. DEFINE V == ValuesOf(record)
            fields == [name |-> Cell(record, "title"), notes |-> Cell(record, "notesPlain"),
                       favorite |-> Metadata(record, "favIndex"),
                       folderPath |-> Cell(record, "vault"),
                       extra |-> Cells(record, {"sections", "tags", "account"})
                                 \cup (Cell(record, "state") \ {<<"active">>})]
            item == Fields(fields)
            login == [item EXCEPT !.username = Cell(record, "username"),
                                  !.urls = FirstCell(record, <<"urls", "url">>),
                                  !.extra = @ \cup Cell(record, "otherFields")]
<1>1. DOMAIN fields \subseteq FieldNames /\ \A field \in DOMAIN fields : fields[field] \subseteq V
  BY CellOfRecord DEF FieldNames
<1>2. OnePasswordItem(record) \in {RowError, [item EXCEPT !.type = "note"],
                                   RequiredPassword(record, "password", login)}
  BY DEF OnePasswordItem
<1>. HIDE DEF fields
<1>3. item \in ImportItems(V)
  BY <1>1, FieldsOfItem
<1>. HIDE DEF item
<1>4. login \in ImportItems(V)
  BY <1>3, CellOfRecord DEF ImportItems
<1>. HIDE DEF login
<1>. QED  BY <1>2, <1>3, <1>4, NoteOutcome, LoginOutcome, ErrorOutcome

\* 1Password's parser of CSV.
LEMMA OnePasswordCsvOutcome ==
    ASSUME NEW record, NEW header
    PROVE  OnePasswordCsvItem(record, header) \in Outcomes(record)
<1>. DEFINE V == ValuesOf(record)
            fields == [name |-> Cell(record, "title"), username |-> Cell(record, "username"),
                       notes |-> Cell(record, FirstColumn(header, <<"notes", "note">>)),
                       favorite |-> Flag(record, "favorite"),
                       urls |-> Cell(record, FirstColumn(header, <<"url", "website", "urls">>)),
                       extra |-> Cells(record, {"otpauth", "tags"}) \cup Flag(record, "archived")]
<1>1. DOMAIN fields \subseteq FieldNames /\ \A field \in DOMAIN fields : fields[field] \subseteq V
  BY CellOfRecord DEF FieldNames
<1>2. OnePasswordCsvItem(record, header) = RequiredPassword(record, "password", Fields(fields))
  BY DEF OnePasswordCsvItem
<1>. HIDE DEF fields
<1>3. Fields(fields) \in ImportItems(V)
  BY <1>1, FieldsOfItem
<1>. QED  BY <1>2, <1>3, LoginOutcome

\* Whatever the format.
LEMMA OutcomeOfRecord ==
    ASSUME NEW fmt \in MANUAL_FORMATS, NEW record, NEW header, NEW map
    PROVE  Outcome(fmt, record, header, map) \in Outcomes(record)
<1>1. CASE record.flaw # "none"
  BY <1>1, ErrorOutcome DEF Outcome
<1>2. CASE record.flaw = "none"
  <2>1. \A layout : LayoutItem(record, layout) \in Outcomes(record)
    BY LayoutOutcome
  <2>2. /\ BrowserItem(record, header) \in Outcomes(record)
        /\ KeePassItem(record, header) \in Outcomes(record)
        /\ DashlaneCsvItem(record) \in Outcomes(record)
        /\ KeeperCsvRecord(record) \in Outcomes(record)
        /\ KeeperJsonRecord(record) \in Outcomes(record)
        /\ GenericRow(record, map) \in Outcomes(record)
    BY <2>1, Zenon DEF BrowserItem, KeePassItem, DashlaneCsvItem, KeeperCsvRecord,
                       KeeperJsonRecord, GenericRow
  <2>3. /\ LastPassItem(record) \in Outcomes(record)
        /\ NordPassItem(record) \in Outcomes(record)
        /\ DashlaneJsonRecord(record) \in Outcomes(record)
        /\ ProtonPassItem(record) \in Outcomes(record)
        /\ BitwardenJsonItem(record) \in Outcomes(record)
        /\ BitwardenCsvItem(record) \in Outcomes(record)
        /\ OnePasswordItem(record) \in Outcomes(record)
        /\ OnePasswordCsvItem(record, header) \in Outcomes(record)
    BY LastPassOutcome, NordPassOutcome, DashlaneJsonOutcome, ProtonPassOutcome,
       BitwardenJsonOutcome, BitwardenCsvOutcome, OnePasswordOutcome, OnePasswordCsvOutcome
  <2>. QED  BY <1>2, <2>2, <2>3 DEF Outcome, MANUAL_FORMATS
<1>. QED  BY <1>1, <1>2

\* The plaintext of an outcome: a login or a note, a login with a password, and
\* with the record's values alone.
LEMMA PlaintextOfOutcome ==
    ASSUME NEW record, NEW outcome \in Outcomes(record), ~IsRowError(outcome)
    PROVE  LET plaintext == ToItemPlaintext(outcome) IN
           /\ plaintext.type \in {"login", "note"}
           /\ plaintext.type = "login" => plaintext.password # {}
           /\ Landed(plaintext) \subseteq ValuesOf(record)
<1>1. outcome \in ImportItems(ValuesOf(record))
  BY DEF Outcomes, IsRowError, RowError
<1>2. outcome.type = "login" => outcome.password # {}
  BY DEF Outcomes, IsRowError, RowError
<1>. QED  BY <1>1, <1>2 DEF ToItemPlaintext, Landed, ImportItems
-----------------------------------------------------------------------------
(***************************************************************************)
(* What parseFile hands to a parser, whatever the file.                    *)
(***************************************************************************)

\* A list has a length and places.
LEMMA ListPlaces ==
    ASSUME NEW s, IsList(s)
    PROVE  Len(s) \in Nat /\ DOMAIN s = 1 .. Len(s) /\ s = [k \in 1 .. Len(s) |-> s[k]]
BY LenProperties DEF IsList

\* A function on 1 .. n is a list.
LEMMA ListIs ==
    ASSUME NEW s, NEW n \in Nat, DOMAIN s = 1 .. n, s = [k \in 1 .. n |-> s[k]]
    PROVE  IsList(s) /\ Len(s) = n
<1>. DEFINE S == {s[k] : k \in DOMAIN s}
<1>1. s \in [1 .. n -> S]
  OBVIOUS
<1>. HIDE DEF S
<1>2. s \in Seq(S) /\ Len(s) = n
  BY <1>1, ListOf
<1>. QED  BY <1>2 DEF IsList, S

\* A list that grows by an element.
LEMMA ListAppend ==
    ASSUME NEW s, IsList(s), NEW e
    PROVE  /\ IsList(Append(s, e))
           /\ Len(Append(s, e)) = Len(s) + 1
           /\ \A k \in 1 .. Len(s) : Append(s, e)[k] = s[k]
           /\ Append(s, e)[Len(s) + 1] = e
<1>. DEFINE S == {s[k] : k \in DOMAIN s} \cup {e}
            t == Append(s, e)
<1>1. s \in Seq(S) /\ e \in S
  BY ListPlaces DEF IsList
<1>2. /\ t \in Seq(S) /\ Len(t) = Len(s) + 1 /\ Len(s) \in Nat
      /\ \A k \in 1 .. Len(s) : t[k] = s[k]
      /\ t[Len(s) + 1] = e
  <2>. HIDE DEF S
  <2>. QED  BY <1>1, AppendProperties, LenProperties
<1>. HIDE DEF S, t
<1>3. DOMAIN t = 1 .. Len(t) /\ Len(t) \in Nat /\ t = [k \in 1 .. Len(t) |-> t[k]]
  BY <1>2, LenProperties
<1>4. IsList(t)
  BY <1>3, ListIs
<1>. QED  BY <1>2, <1>4 DEF t

\* What an archive holds under export.data is what one of its entries holds.
LEMMA ExportOfEntry ==
    ASSUME NEW f, IsList(f.archive.entries), ~IsZipProblem(ExportData(f))
    PROVE  \E i \in DOMAIN f.archive.entries :
               /\ f.archive.entries[i].name = "export.data"
               /\ \A k \in DOMAIN UnreadableEntries :
                      UnreadableEntries[k] \notin f.archive.entries[i].fails
               /\ ExportData(f).contents = f.archive.entries[i].data
<1>. DEFINE opened == OpenZip(f.archive)
            entries == f.archive.entries
            held == {i \in DOMAIN entries : entries[i].name = "export.data"}
            read == ReadEntry(opened, "export.data")
            first == Min(held)
            wrong == {k \in DOMAIN UnreadableEntries :
                          UnreadableEntries[k] \in entries[first].fails}
<1>1. \A p : IsZipProblem([problem |-> p])
  BY DEF IsZipProblem
<1>2. ~IsZipProblem(opened) /\ ExportData(f) = ReadText(opened, "export.data")
  BY DEF ExportData
<1>3. opened = [entries |-> entries]
  BY <1>1, <1>2 DEF OpenZip, NOT_AN_ARCHIVE
<1>4. ExportData(f) = read /\ ~IsZipProblem(read)
  <2>. HIDE DEF opened, read
  <2>1. ReadText(opened, "export.data") = IF IsZipProblem(read) THEN read
            ELSE IF read.contents.text THEN read ELSE [problem |-> "not text"]
    BY DEF ReadText, read
  <2>. QED  BY <1>1, <1>2, <2>1
<1>5. opened.entries = entries
  BY <1>3
<1>6. held # {} /\ wrong = {} /\ read = [contents |-> entries[first].data]
  <2>1. read = IF held = {} THEN [problem |-> "missing"]
               ELSE IF wrong # {} THEN [problem |-> UnreadableEntries[Min(wrong)]]
               ELSE [contents |-> entries[first].data]
    <3>. HIDE DEF opened
    <3>. QED  BY <1>5 DEF ReadEntry
  <2>. HIDE DEF read, wrong, held
  <2>. QED  BY <1>1, <1>4, <2>1
<1>7. first \in held
  <2>1. held \in SUBSET Nat
    BY ListPlaces
  <2>. HIDE DEF held
  <2>. QED  BY <1>6, <2>1, MinIsLeast
<1>8. ExportData(f).contents = entries[first].data
  <2>. HIDE DEF opened, held, first, read
  <2>. QED  BY <1>4, <1>6
<1>9. \A k \in DOMAIN UnreadableEntries : UnreadableEntries[k] \notin entries[first].fails
  <2>. HIDE DEF first
  <2>. QED  BY <1>6, Zenon
<1>. HIDE DEF first
<1>. QED  BY <1>7, <1>8, <1>9

\* The records are a list, each with its line.
LEMMA ParsedRecords ==
    ASSUME NEW f \in Files, NEW fmt, NEW map
    PROVE  /\ IsList(Parsed(f, fmt, map).records)
           /\ \A k \in 1 .. Len(Parsed(f, fmt, map).records) :
                  Parsed(f, fmt, map).records[k].line \in Nat
           /\ Parsed(f, fmt, map).reported \subseteq Nat
<1>. DEFINE table == IF fmt = "keeper-csv" THEN ParseCsvRecords(f.text) ELSE ParseCsv(f.text)
            data == ExportData(f)
            json == IF fmt = "onepassword-1pux" /\ ~IsZipProblem(data)
                    THEN data.contents ELSE [json |-> f.json, records |-> f.records]
            isJson == fmt \in JsonFormats \cup {"onepassword-1pux"}
            csv == CsvRecords(table, fmt = "keeper-csv")
            numbered == [k \in DOMAIN json.records |-> AtLine(json.records[k], k)]
            p == Parsed(f, fmt, map)
<1>1. p.records = IF isJson THEN numbered ELSE csv
  BY DEF Parsed
<1>2. p.reported = IF isJson THEN {} ELSE {table.errors[e] : e \in DOMAIN table.errors}
  BY DEF Parsed
<1>3. table \in Tables
  <2>1. f.text \in Texts
    BY FilesAssumption DEF Texts, Chars
  <2>. QED  BY <2>1, ParseCsvType
<1>4. IsList(json.records)
  <2>1. IsList(f.records) /\ IsList(f.archive.entries)
    BY FilesAssumption
  <2>2. CASE fmt = "onepassword-1pux" /\ ~IsZipProblem(data)
    <3>1. PICK i \in DOMAIN f.archive.entries : data.contents = f.archive.entries[i].data
      BY <2>1, <2>2, ExportOfEntry
    <3>2. json.records = f.archive.entries[i].data.records
      BY <2>2, <3>1
    <3>. QED  BY <3>2, FilesAssumption
  <2>3. CASE ~(fmt = "onepassword-1pux" /\ ~IsZipProblem(data))
    BY <2>1, <2>3
  <2>. QED  BY <2>2, <2>3
<1>. HIDE DEF table, data, json, isJson, p
<1>5. IsList(numbered) /\ \A k \in 1 .. Len(numbered) : numbered[k].line \in Nat
  <2>1. Len(json.records) \in Nat /\ DOMAIN json.records = 1 .. Len(json.records)
    BY <1>4, ListPlaces
  <2>2. \A k \in 1 .. Len(json.records) : numbered[k].line = k
    BY <2>1 DEF AtLine
  <2>3. DOMAIN numbered = 1 .. Len(json.records)
    BY <2>1
  <2>4. numbered = [k \in 1 .. Len(json.records) |-> numbered[k]]
    BY <2>3
  <2>. HIDE DEF numbered
  <2>5. IsList(numbered) /\ Len(numbered) = Len(json.records)
    BY <2>1, <2>3, <2>4, ListIs
  <2>. QED  BY <2>1, <2>2, <2>5
<1>6. IsList(csv) /\ \A k \in 1 .. Len(csv) : csv[k].line \in Nat
  <2>1. table.rows \in Seq(RawRecords)
    BY <1>3 DEF Tables
  <2>2. Len(table.rows) \in Nat /\ DOMAIN table.rows = 1 .. Len(table.rows)
    BY <2>1, LenProperties
  <2>3. \A k \in 1 .. Len(table.rows) : table.rows[k].line \in Nat
    <3>1. \A k \in 1 .. Len(table.rows) : table.rows[k] \in RawRecords
      BY <2>1, ElementOfSeq
    <3>. QED  BY <3>1 DEF RawRecords
  <2>4. DOMAIN csv = DOMAIN table.rows
    BY DEF CsvRecords
  <2>5. \A k \in DOMAIN table.rows : csv[k].line = table.rows[k].line
    BY DEF CsvRecords
  <2>6. csv = [k \in DOMAIN csv |-> csv[k]]
    BY DEF CsvRecords
  <2>. HIDE DEF csv
  <2>7. IsList(csv) /\ Len(csv) = Len(table.rows)
    BY <2>2, <2>4, <2>6, ListIs
  <2>. QED  BY <2>2, <2>3, <2>5, <2>7
<1>7. {table.errors[e] : e \in DOMAIN table.errors} \subseteq Nat
  <2>1. table.errors \in Seq(Nat)
    BY <1>3 DEF Tables
  <2>. QED  BY <2>1, ElementOfSeq, LenProperties
<1>. HIDE DEF csv, numbered
<1>. QED  BY <1>1, <1>2, <1>5, <1>6, <1>7 DEF p
-----------------------------------------------------------------------------
(***************************************************************************)
(* The way of a file to its items.                                         *)
(***************************************************************************)

\* Detection names a parser the picker offers.
LEMMA DetectedFormat ==
    ASSUME NEW seen
    PROVE  Detect(seen) \in MANUAL_FORMATS
<1>. DEFINE places == Signatures(seen)
            first == Min(places)
<1>1. CASE places = {}
  BY <1>1 DEF Detect, MANUAL_FORMATS
<1>2. CASE places # {}
  <2>1. places \in SUBSET (1 .. 15)
    BY DEF Signatures, SignatureOrder
  <2>2. first \in 1 .. 15
    <3>1. places \in SUBSET Nat
      BY <2>1
    <3>. HIDE DEF places
    <3>2. Min(places) \in places
      BY <1>2, <3>1, MinIsLeast
    <3>. QED  BY <2>1, <3>2
  <2>3. Detect(seen) = ParserOf(SignatureOrder[first])
    BY <1>2 DEF Detect
  <2>. HIDE DEF first
  <2>4. \/ SignatureOrder[first] \in MANUAL_FORMATS
        \/ SignatureOrder[first] \in {"chromium-csv", "firefox-csv", "safari-csv", "keepassxc-csv"}
    BY <2>2 DEF SignatureOrder, MANUAL_FORMATS
  <2>. QED  BY <2>3, <2>4 DEF ParserOf, MANUAL_FORMATS
<1>. QED  BY <1>1, <1>2

\* No column is left without a place.
LEMMA MappingIsWhole ==
    ASSUME NEW header
    PROVE  /\ DOMAIN SuggestMapping(header).placed = DOMAIN Candidates
           /\ {header[i] : i \in DOMAIN header} \subseteq
                  SuggestMapping(header).custom
                  \cup {SuggestMapping(header).placed[field] :
                            field \in DOMAIN SuggestMapping(header).placed}
BY DEF SuggestMapping

\* No record read, none refused.
LEMMA NoRefusals == Refusals(0) = {} /\ Refusals(0)' = {}
BY DEF Refusals

\* The invariant holds of a file that was just chosen.
LEMMA ReaderInit ==
    ASSUME Init
    PROVE  ReaderInv /\ file \in Files
<1>1. IsList(<<>>) /\ Len(<<>>) = 0 /\ DOMAIN <<>> = {}
  BY EmptySeq DEF IsList
<1>2. Cardinality(Refusals(0)) = 0
  BY NoRefusals, FS_EmptySet
<1>3. phase = "chosen" /\ at = 0 /\ items = <<>> /\ errors = {} /\ format = "generic-csv"
  BY DEF Init
<1>4. MappingInv /\ RecordsInv
  BY <1>3 DEF MappingInv, RecordsInv
<1>5. Len(items) + Cardinality(Refusals(at)) = at
  BY <1>1, <1>2, <1>3
<1>. QED  BY <1>1, <1>3, <1>4, <1>5 DEF ReaderInv, Init, MANUAL_FORMATS

\* Before the first record there is nothing to keep but the mapping.
LEMMA ReaderBefore ==
    ASSUME ReaderInv, file \in Files, phase = "inspected",
           phase' \in {"inspected"}, UNCHANGED <<file, result, at, items, errors>>,
           format' \in MANUAL_FORMATS, MappingInv'
    PROVE  ReaderInv' /\ (file \in Files)'
<1>1. at' = 0 /\ items' = <<>> /\ errors' \subseteq Nat /\ IsList(items')
  BY DEF ReaderInv, RecordsInv
<1>2. RecordsInv'
  BY <1>1 DEF RecordsInv
<1>3. Len(items') = 0 /\ DOMAIN items' = {}
  BY <1>1, EmptySeq
<1>4. (Len(items) + Cardinality(Refusals(at)) = at)'
  <2>1. Refusals(at)' = {}
    BY <1>1 DEF Refusals
  <2>2. Cardinality(Refusals(at)') = 0
    BY <2>1, FS_EmptySet
  <2>. QED  BY <1>1, <1>3, <2>2
<1>. QED  BY <1>1, <1>2, <1>3, <1>4 DEF ReaderInv

\* A parser that turns the file away, or takes it, leaves no item yet.
LEMMA ReaderParse ==
    ASSUME ReaderInv, file \in Files, Parse
    PROVE  ReaderInv' /\ (file \in Files)'
<1>. DEFINE p == Parsed(file, format, mapping)
<1>1. /\ result' = p /\ at' = 0 /\ items' = <<>> /\ IsList(items')
      /\ UNCHANGED <<file, evidence, format, mapping>>
  BY DEF Parse, ReaderInv, RecordsInv
<1>2. IsList(p.records) /\ p.reported \subseteq Nat
  BY ParsedRecords
<1>. HIDE DEF p
<1>3. errors' \subseteq Nat
  BY <1>1, <1>2 DEF Parse
<1>4. /\ phase' = IF ~p.accepted THEN "refused"
                  ELSE IF p.records = <<>> THEN "done" ELSE "rows"
  BY <1>1 DEF Parse
<1>5. Len(p.records) \in Nat /\ (p.records = <<>> <=> Len(p.records) = 0)
  BY <1>2, LenProperties, EmptySeq DEF IsList
<1>6. RecordsInv'
  <2>1. result' = Parsed(file', format', mapping')
    BY <1>1 DEF p
  <2>2. at' = 0 /\ items' = <<>> /\ Len(result'.records) = Len(p.records)
        /\ result'.accepted = p.accepted
    BY <1>1
  <2>. QED  BY <1>4, <1>5, <2>1, <2>2 DEF RecordsInv
<1>7. MappingInv'
  BY <1>1, <1>4 DEF MappingInv, ReaderInv, Parse
<1>8. Len(items') = 0 /\ DOMAIN items' = {}
  BY <1>1, EmptySeq
<1>9. (Len(items) + Cardinality(Refusals(at)) = at)'
  BY <1>1, <1>8, NoRefusals, FS_EmptySet
<1>10. phase' \in {"rows", "done", "refused"} /\ format' \in MANUAL_FORMATS
  BY <1>1, <1>4 DEF ReaderInv
<1>. QED  BY <1>1, <1>3, <1>6, <1>7, <1>8, <1>9, <1>10 DEF ReaderInv

\* One more record is read: it is an item or an error.
LEMMA ReaderReadRecord ==
    ASSUME ReaderInv, file \in Files, ReadRecord
    PROVE  ReaderInv' /\ (file \in Files)'
<1>. DEFINE N == Len(result.records)
            r == at + 1
<1>1. /\ UNCHANGED <<file, evidence, format, mapping, result>>
      /\ phase = "rows" /\ at' = r
      /\ phase' = IF r = N THEN "done" ELSE "rows"
      /\ IF IsRowError(OutcomeAt(r))
         THEN errors' = errors \cup {result.records[r].line} /\ items' = items
         ELSE items' = Append(items, ItemOf(r)) /\ errors' = errors
  BY DEF ReadRecord, OutcomeAt, ItemOf
<1>2. /\ result = Parsed(file, format, mapping) /\ result.accepted
      /\ at \in Nat /\ at < N
  BY <1>1 DEF ReaderInv, RecordsInv
<1>3. /\ N \in Nat /\ r \in 1 .. N
      /\ result.records[r].line \in Nat
  <2>1. IsList(result.records) /\ \A k \in 1 .. N : result.records[k].line \in Nat
    BY <1>2, ParsedRecords
  <2>2. N \in Nat
    BY <2>1, ListPlaces
  <2>3. r \in 1 .. N
    BY <1>2, <2>2
  <2>. HIDE DEF r, N
  <2>. QED  BY <2>1, <2>2, <2>3
<1>4. /\ \A k : OutcomeAt(k)' = OutcomeAt(k)
      /\ \A k : ItemOf(k)' = ItemOf(k)
  BY <1>1 DEF OutcomeAt, ItemOf
<1>5. errors' \subseteq Nat
  BY <1>1, <1>3 DEF ReaderInv
<1>6. MappingInv'
  BY <1>1 DEF MappingInv, ReaderInv
<1>7. RecordsInv'
  <2>. HIDE DEF N
  <2>1. at' \in Nat /\ at' <= N /\ (phase' = "rows" => at' < N) /\ (phase' = "done" => at' = N)
        /\ phase' \in {"rows", "done"}
    BY <1>1, <1>2, <1>3
  <2>2. result' = Parsed(file', format', mapping') /\ result'.accepted /\ Len(result'.records) = N
    BY <1>1, <1>2 DEF N
  <2>. QED  BY <2>1, <2>2 DEF RecordsInv
<1>8. IsFiniteSet(Refusals(at)) /\ Cardinality(Refusals(at)) \in Nat
  <2>1. IsFiniteSet(1 .. at) /\ Refusals(at) \subseteq 1 .. at
    BY <1>2, FS_Interval DEF Refusals
  <2>. QED  BY <2>1, FS_Subset, FS_CardinalityType
<1>9. Refusals(at)' = IF IsRowError(OutcomeAt(r)) THEN Refusals(at) \cup {r} ELSE Refusals(at)
  <2>1. Refusals(at)' = {k \in 1 .. r : IsRowError(OutcomeAt(k))}
    BY <1>1, <1>4 DEF Refusals
  <2>2. 1 .. r = (1 .. at) \cup {r} /\ r \notin 1 .. at
    BY <1>2
  <2>. HIDE DEF r
  <2>. QED  BY <2>1, <2>2 DEF Refusals
<1>10. r \notin Refusals(at)
  BY <1>2 DEF Refusals
<1>11. /\ IsList(items)
       /\ \A k \in DOMAIN items : \E q \in 1 .. at : ~IsRowError(OutcomeAt(q)) /\ items[k] = ItemOf(q)
       /\ Len(items) + Cardinality(Refusals(at)) = at
  BY DEF ReaderInv
<1>12. Len(items) \in Nat /\ DOMAIN items = 1 .. Len(items)
  BY <1>11, ListPlaces
<1>. HIDE DEF r, N
<1>13. r \in 1 .. r /\ 1 .. at \subseteq 1 .. r
  BY <1>2 DEF r
<1>14. /\ IsList(items')
       /\ \A k \in DOMAIN items' : \E q \in 1 .. r : ~IsRowError(OutcomeAt(q)) /\ items'[k] = ItemOf(q)
       /\ Len(items') + Cardinality(Refusals(at)') = r
  <2>1. CASE IsRowError(OutcomeAt(r))
    <3>1. Cardinality(Refusals(at)') = Cardinality(Refusals(at)) + 1
      BY <1>8, <1>9, <1>10, <2>1, FS_AddElement
    <3>2. Len(items) + (Cardinality(Refusals(at)) + 1) = r
      BY <1>8, <1>11, <1>12 DEF r
    <3>. QED  BY <1>1, <1>11, <1>13, <2>1, <3>1, <3>2
  <2>2. CASE ~IsRowError(OutcomeAt(r))
    <3>1. /\ IsList(items') /\ Len(items') = Len(items) + 1
          /\ \A k \in 1 .. Len(items) : items'[k] = items[k]
          /\ items'[Len(items) + 1] = ItemOf(r)
      <4>. DEFINE e == ItemOf(r)
      <4>1. items' = Append(items, e)
        BY <1>1, <2>2
      <4>. HIDE DEF e
      <4>2. /\ IsList(Append(items, e)) /\ Len(Append(items, e)) = Len(items) + 1
            /\ \A k \in 1 .. Len(items) : Append(items, e)[k] = items[k]
            /\ Append(items, e)[Len(items) + 1] = e
        BY <1>11, ListAppend
      <4>. QED  BY <4>1, <4>2 DEF e
    <3>2. DOMAIN items' = 1 .. Len(items')
      BY <3>1, ListPlaces
    <3>3. ASSUME NEW k \in DOMAIN items'
          PROVE  \E q \in 1 .. r : ~IsRowError(OutcomeAt(q)) /\ items'[k] = ItemOf(q)
      <4>1. k \in 1 .. Len(items) \/ k = Len(items) + 1
        BY <1>12, <3>1, <3>2, <3>3
      <4>2. CASE k \in 1 .. Len(items)
        BY <1>11, <1>12, <1>13, <3>1, <4>2
      <4>3. CASE k = Len(items) + 1
        BY <1>13, <2>2, <3>1, <4>3
      <4>. QED  BY <4>1, <4>2, <4>3
    <3>4. (Len(items) + 1) + Cardinality(Refusals(at)) = r
      BY <1>8, <1>11, <1>12 DEF r
    <3>5. Refusals(at)' = Refusals(at)
      BY <1>9, <2>2
    <3>. QED  BY <3>1, <3>3, <3>4, <3>5
  <2>. QED  BY <2>1, <2>2
<1>15. \A k \in DOMAIN items' : \E q \in 1 .. at' : ~IsRowError(OutcomeAt(q)') /\ items'[k] = ItemOf(q)'
  BY <1>1, <1>4, <1>14
<1>16. (Len(items) + Cardinality(Refusals(at)) = at)'
  BY <1>1, <1>14
<1>17. phase' \in {"rows", "done"} /\ format' \in MANUAL_FORMATS /\ file' \in Files
  BY <1>1 DEF ReaderInv
<1>. QED  BY <1>5, <1>6, <1>7, <1>14, <1>15, <1>16, <1>17 DEF ReaderInv

\* Every step keeps the invariant.
LEMMA ReaderStep ==
    ASSUME ReaderInv, file \in Files, [Next]_vars
    PROVE  ReaderInv' /\ (file \in Files)'
<1>1. CASE Inspect
  <2>1. /\ phase = "chosen" /\ phase' = "inspected" /\ evidence' = Probe(file)
        /\ format' = Detect(evidence') /\ mapping' = SuggestMapping(evidence'.header)
        /\ UNCHANGED <<file, result, at, items, errors>>
    BY <1>1 DEF Inspect
  <2>2. MappingInv'
    BY <2>1, MappingIsWhole DEF MappingInv
  <2>3. format' \in MANUAL_FORMATS
    BY <2>1, DetectedFormat
  <2>4. at' = 0 /\ items' = <<>> /\ errors' \subseteq Nat /\ IsList(items')
    BY <2>1 DEF ReaderInv, RecordsInv
  <2>5. RecordsInv'
    BY <2>1, <2>4 DEF RecordsInv
  <2>6. Len(items') = 0 /\ DOMAIN items' = {}
    BY <2>4, EmptySeq
  <2>7. (Len(items) + Cardinality(Refusals(at)) = at)'
    BY <2>4, <2>6, NoRefusals, FS_EmptySet
  <2>. QED  BY <2>1, <2>2, <2>3, <2>4, <2>5, <2>6, <2>7 DEF ReaderInv
<1>2. CASE ChooseFormat
  <2>1. format' \in MANUAL_FORMATS
    BY <1>2 DEF ChooseFormat, MANUAL_FORMATS
  <2>2. MappingInv'
    BY <1>2 DEF ChooseFormat, MappingInv, ReaderInv
  <2>. QED  BY <1>2, <2>1, <2>2, ReaderBefore DEF ChooseFormat
<1>3. CASE MapColumn
  <2>1. PICK chosen : mapping' = NormalizeMapping(chosen, evidence.header)
                      /\ DOMAIN chosen.placed = DOMAIN mapping.placed
                      /\ "custom" \in DOMAIN chosen /\ "placed" \in DOMAIN chosen
    <3>1. PICK field \in MapFields, k \in 0 .. Len(evidence.header) :
              mapping' = NormalizeMapping([mapping EXCEPT !.placed[field] =
                             IF k = 0 THEN "" ELSE evidence.header[k]], evidence.header)
      BY <1>3 DEF MapColumn
    <3>. DEFINE chosen == [mapping EXCEPT !.placed[field] =
                             IF k = 0 THEN "" ELSE evidence.header[k]]
    <3>2. DOMAIN mapping = {"placed", "custom"}
      BY <1>3 DEF MapColumn, SuggestMapping
    <3>3. DOMAIN chosen.placed = DOMAIN mapping.placed /\ DOMAIN chosen = {"placed", "custom"}
      BY <3>2
    <3>. HIDE DEF chosen
    <3>. QED  BY <3>1, <3>3 DEF chosen
  <2>2. /\ mapping'.placed = chosen.placed
        /\ mapping'.custom = {evidence.header[i] : i \in DOMAIN evidence.header}
                             \ {chosen.placed[field] : field \in DOMAIN chosen.placed}
    BY <2>1 DEF NormalizeMapping
  <2>3. UNCHANGED <<file, evidence, format, phase, result, at, items, errors>>
        /\ phase = "inspected"
    BY <1>3 DEF MapColumn
  <2>4. MappingInv'
    BY <2>1, <2>2, <2>3 DEF MappingInv, ReaderInv
  <2>. QED  BY <2>3, <2>4, ReaderBefore DEF ReaderInv
<1>4. CASE UNCHANGED vars
  <2>1. /\ \A k : OutcomeAt(k)' = OutcomeAt(k)
        /\ \A k : ItemOf(k)' = ItemOf(k)
        /\ Refusals(at)' = Refusals(at)
    BY <1>4 DEF vars, OutcomeAt, ItemOf, Refusals
  <2>2. MappingInv' /\ RecordsInv'
    BY <1>4 DEF vars, MappingInv, RecordsInv, ReaderInv
  <2>. QED  BY <1>4, <2>1, <2>2 DEF vars, ReaderInv
<1>. QED  BY <1>1, <1>2, <1>3, <1>4, ReaderParse, ReaderReadRecord DEF Next

\* The reader keeps its books: what it has read of a file, each record an item
\* or an error, is what its parser makes of the file.
THEOREM ReaderCorrect == Spec => [](ReaderInv /\ file \in Files)
<1>1. Init => ReaderInv /\ file \in Files
  BY ReaderInit
<1>2. (ReaderInv /\ file \in Files) /\ [Next]_vars => (ReaderInv /\ file \in Files)'
  BY ReaderStep
<1>. QED  BY <1>1, <1>2, PTL DEF Spec

\* ItemsInv: whatever the file, the parser and the mapping, an item is a login
\* or a note and no login is without a password (requiredPassword).
THEOREM ItemsAreWhole == Spec => []ItemsInv
<1>1. ASSUME ReaderInv
      PROVE  ItemsInv
  <2>1. ASSUME NEW k \in DOMAIN items
        PROVE  /\ items[k].plaintext.type \in {"login", "note"}
               /\ items[k].plaintext.type = "login" => items[k].plaintext.password # {}
    <3>1. PICK r \in 1 .. at : ~IsRowError(OutcomeAt(r)) /\ items[k] = ItemOf(r)
      BY <1>1, <2>1 DEF ReaderInv
    <3>2. OutcomeAt(r) \in Outcomes(result.records[r])
      BY <1>1, OutcomeOfRecord DEF OutcomeAt, ReaderInv
    <3>3. items[k].plaintext = ToItemPlaintext(OutcomeAt(r))
      BY <3>1 DEF ItemOf
    <3>. QED  BY <3>1, <3>2, <3>3, PlaintextOfOutcome
  <2>. QED  BY <1>1, <2>1 DEF ItemsInv, TypeOK, NoBlankPasswords, ReaderInv, RecordsInv
<1>. QED  BY <1>1, ReaderCorrect, PTL
-----------------------------------------------------------------------------
(***************************************************************************)
(* A file that is recognised is read.                                      *)
(***************************************************************************)

\* How each parser but Keeper's decides, on the header or the keys of a file.
LEMMA AcceptedBy ==
    ASSUME NEW f, NEW fmt, fmt # "keeper-csv", NEW map
    PROVE  LET header == HeaderOf(ParseCsv(f.text))
               accepted == Parsed(f, fmt, map).accepted IN
           /\ fmt = "bitwarden-json" => accepted = ParseBitwardenJson(f.json)
           /\ fmt = "dashlane-json" => accepted = ParseDashlaneJson(f.json)
           /\ fmt = "protonpass-json" => accepted = ParseProtonPassJson(f.json)
           /\ fmt = "keeper-json" => accepted = ParseKeeperJson(f.json)
           /\ fmt = "onepassword-1pux" /\ ~IsZipProblem(ExportData(f)) =>
                  accepted = ParseOnePasswordExportData(ExportData(f).contents.json)
           /\ fmt = "bitwarden-csv" => accepted = ParseBitwardenCsv(header)
           /\ fmt = "onepassword-csv" => accepted = ParseOnePasswordCsv(header)
           /\ fmt = "lastpass-csv" => accepted = ParseLastPassCsv(header)
           /\ fmt = "browser-csv" => accepted = ParseBrowserCsv(header)
           /\ fmt = "keepass-csv" => accepted = ParseKeePassCsv(header)
           /\ fmt = "nordpass-csv" => accepted = ParseNordPassCsv(header)
           /\ fmt = "dashlane-csv" => accepted = ParseDashlaneCsv(header)
<1>. DEFINE header == HeaderOf(ParseCsv(f.text))
            data == ExportData(f)
            json == IF fmt = "onepassword-1pux" /\ ~IsZipProblem(data)
                    THEN data.contents ELSE [json |-> f.json, records |-> f.records]
            accepted == Parsed(f, fmt, map).accepted
<1>1. accepted =
            CASE fmt = "bitwarden-json" -> ParseBitwardenJson(json.json)
              [] fmt = "dashlane-json" -> ParseDashlaneJson(json.json)
              [] fmt = "protonpass-json" -> ParseProtonPassJson(json.json)
              [] fmt = "keeper-json" -> ParseKeeperJson(json.json)
              [] fmt = "onepassword-1pux" ->
                   ~IsZipProblem(data) /\ ParseOnePasswordExportData(json.json)
              [] fmt = "bitwarden-csv" -> ParseBitwardenCsv(header)
              [] fmt = "onepassword-csv" -> ParseOnePasswordCsv(header)
              [] fmt = "lastpass-csv" -> ParseLastPassCsv(header)
              [] fmt = "browser-csv" -> ParseBrowserCsv(header)
              [] fmt = "keepass-csv" -> ParseKeePassCsv(header)
              [] fmt = "nordpass-csv" -> ParseNordPassCsv(header)
              [] fmt = "dashlane-csv" -> ParseDashlaneCsv(header)
              [] fmt = "generic-csv" -> ParseGenericCsv(map)
              [] fmt = "keeper-csv" -> TRUE
  BY DEF Parsed
<1>2. /\ fmt # "onepassword-1pux" => json.json = f.json
      /\ fmt = "onepassword-1pux" /\ ~IsZipProblem(data) => json.json = data.contents.json
  OBVIOUS
<1>. HIDE DEF header, data, json, accepted
<1>3. /\ fmt = "bitwarden-json" => accepted = ParseBitwardenJson(f.json)
      /\ fmt = "dashlane-json" => accepted = ParseDashlaneJson(f.json)
      /\ fmt = "protonpass-json" => accepted = ParseProtonPassJson(f.json)
      /\ fmt = "keeper-json" => accepted = ParseKeeperJson(f.json)
      /\ fmt = "onepassword-1pux" /\ ~IsZipProblem(data) =>
             accepted = ParseOnePasswordExportData(data.contents.json)
  BY <1>1, <1>2 DEF ParseOnePasswordExportData
<1>4. /\ fmt = "bitwarden-csv" => accepted = ParseBitwardenCsv(header)
      /\ fmt = "onepassword-csv" => accepted = ParseOnePasswordCsv(header)
      /\ fmt = "lastpass-csv" => accepted = ParseLastPassCsv(header)
      /\ fmt = "browser-csv" => accepted = ParseBrowserCsv(header)
      /\ fmt = "keepass-csv" => accepted = ParseKeePassCsv(header)
      /\ fmt = "nordpass-csv" => accepted = ParseNordPassCsv(header)
      /\ fmt = "dashlane-csv" => accepted = ParseDashlaneCsv(header)
  BY <1>1
<1>. QED  BY <1>3, <1>4 DEF header, data, accepted

\* What a signature asks for its parser asks for too.
LEMMA SignatureIsEnough ==
    ASSUME NEW seen, NEW id, Matches(id, seen)
    PROVE  /\ id = "bitwarden-json" =>
                  \/ ParseBitwardenJson(seen.json)
                  \/ seen.json.true \cap {"encrypted", "passwordProtected"} # {}
           /\ id = "protonpass-json" =>
                  \/ ParseProtonPassJson(seen.json)
                  \/ seen.json.true \cap {"encrypted", "passwordProtected"} # {}
           /\ id = "dashlane-json" => ParseDashlaneJson(seen.json)
           /\ id = "keeper-json" => ParseKeeperJson(seen.json)
           /\ id = "bitwarden-csv" => ParseBitwardenCsv(seen.header)
           /\ id = "onepassword-csv" => ParseOnePasswordCsv(seen.header)
           /\ id = "lastpass-csv" => ParseLastPassCsv(seen.header)
           /\ id = "nordpass-csv" => ParseNordPassCsv(seen.header)
           /\ id = "dashlane-csv" => ParseDashlaneCsv(seen.header)
           /\ id \in {"chromium-csv", "firefox-csv", "safari-csv"} => ParseBrowserCsv(seen.header)
           /\ id \in {"keepassxc-csv", "keepass-csv"} => ParseKeePassCsv(seen.header)
<1>1. /\ id = "bitwarden-json" =>
             \/ ParseBitwardenJson(seen.json)
             \/ seen.json.true \cap {"encrypted", "passwordProtected"} # {}
      /\ id = "protonpass-json" =>
             \/ ParseProtonPassJson(seen.json)
             \/ seen.json.true \cap {"encrypted", "passwordProtected"} # {}
      /\ id = "dashlane-json" => ParseDashlaneJson(seen.json)
      /\ id = "keeper-json" => ParseKeeperJson(seen.json)
  BY DEF Matches, IsBitwardenJson, ParseBitwardenJson, ParseProtonPassJson,
         ParseDashlaneJson, ParseKeeperJson
<1>2. /\ id = "bitwarden-csv" => ParseBitwardenCsv(seen.header)
      /\ id = "onepassword-csv" => ParseOnePasswordCsv(seen.header)
      /\ id = "lastpass-csv" => ParseLastPassCsv(seen.header)
      /\ id = "nordpass-csv" => ParseNordPassCsv(seen.header)
      /\ id = "dashlane-csv" => ParseDashlaneCsv(seen.header)
  BY DEF Matches, SignatureColumns, HasColumns, ParseBitwardenCsv, ParseOnePasswordCsv,
         ParseLastPassCsv, ParseNordPassCsv, ParseDashlaneCsv
<1>3. ASSUME NEW layouts, NEW k \in DOMAIN layouts,
             layouts[k].fingerprint \subseteq HeaderSet(seen)
      PROVE  Fitting(layouts, seen.header) # {}
  BY <1>3 DEF Fitting, HasColumns, HeaderSet
<1>4. /\ DOMAIN BrowserLayouts = 1 .. 3
      /\ BrowserLayouts[1].fingerprint = SignatureColumns("firefox-csv")
      /\ BrowserLayouts[2].fingerprint = {"title", "url", "username", "password"}
      /\ BrowserLayouts[3].fingerprint = {"name", "url", "username", "password"}
  <2>1. DOMAIN BrowserLayouts = 1 .. 3
    BY DEF BrowserLayouts
  <2>2. BrowserLayouts[1].fingerprint = SignatureColumns("firefox-csv")
    BY DEF BrowserLayouts, SignatureColumns
  <2>3. BrowserLayouts[2].fingerprint = {"title", "url", "username", "password"}
    BY DEF BrowserLayouts
  <2>4. BrowserLayouts[3].fingerprint = {"name", "url", "username", "password"}
    BY DEF BrowserLayouts
  <2>. QED  BY <2>1, <2>2, <2>3, <2>4
<1>5. id = "firefox-csv" => ParseBrowserCsv(seen.header)
  <2>1. id = "firefox-csv" => SignatureColumns("firefox-csv") \subseteq HeaderSet(seen)
    BY DEF Matches, HasColumns, HeaderSet
  <2>2. 1 \in 1 .. 3
    OBVIOUS
  <2>. HIDE DEF ParseBrowserCsv
  <2>. QED  BY <1>3, <1>4, <2>1, <2>2 DEF ParseBrowserCsv
<1>6. id = "safari-csv" => ParseBrowserCsv(seen.header)
  <2>1. id = "safari-csv" => {"title", "url", "username", "password"} \subseteq HeaderSet(seen)
    BY DEF Matches, HeaderSetIs
  <2>2. 2 \in 1 .. 3
    OBVIOUS
  <2>. QED  BY <1>3, <1>4, <2>1, <2>2 DEF ParseBrowserCsv
<1>7. id = "chromium-csv" => ParseBrowserCsv(seen.header)
  <2>1. id = "chromium-csv" => {"name", "url", "username", "password"} \subseteq HeaderSet(seen)
    BY DEF Matches, IsChromium, HeaderSetIs
  <2>2. 3 \in 1 .. 3
    OBVIOUS
  <2>. QED  BY <1>3, <1>4, <2>1, <2>2 DEF ParseBrowserCsv
<1>8. /\ DOMAIN KeePassLayouts = 1 .. 2
      /\ KeePassLayouts[1].fingerprint = {"group", "title", "username", "password", "url", "notes"}
      /\ KeePassLayouts[2].fingerprint =
             {"account", "login name", "password", "web site", "comments"}
  <2>1. DOMAIN KeePassLayouts = 1 .. 2
    BY DEF KeePassLayouts
  <2>2. KeePassLayouts[1].fingerprint =
            {"group", "title", "username", "password", "url", "notes"}
    BY DEF KeePassLayouts
  <2>3. KeePassLayouts[2].fingerprint =
            {"account", "login name", "password", "web site", "comments"}
    BY DEF KeePassLayouts
  <2>. QED  BY <2>1, <2>2, <2>3
<1>9. id = "keepassxc-csv" => ParseKeePassCsv(seen.header)
  <2>1. id = "keepassxc-csv" =>
            {"group", "title", "username", "password", "url", "notes"} \subseteq HeaderSet(seen)
    BY DEF Matches, HasColumns, SignatureColumns, HeaderSet
  <2>2. 1 \in 1 .. 2
    OBVIOUS
  <2>. QED  BY <1>3, <1>8, <2>1, <2>2 DEF ParseKeePassCsv
<1>10. id = "keepass-csv" => ParseKeePassCsv(seen.header)
  <2>. DEFINE columns == <<"account", "login name", "password", "web site", "comments">>
  <2>1. id = "keepass-csv" => seen.header = columns
    BY DEF Matches
  <2>2. /\ DOMAIN columns = 1 .. 5 /\ columns[1] = "account" /\ columns[2] = "login name"
        /\ columns[3] = "password" /\ columns[4] = "web site" /\ columns[5] = "comments"
    OBVIOUS
  <2>. HIDE DEF columns
  <2>3. 1 \in 1 .. 5 /\ 2 \in 1 .. 5 /\ 3 \in 1 .. 5 /\ 4 \in 1 .. 5 /\ 5 \in 1 .. 5
    OBVIOUS
  <2>4. id = "keepass-csv" => {columns[1], columns[2], columns[3], columns[4], columns[5]}
                              \subseteq HeaderSet(seen)
    BY <2>1, <2>2, <2>3 DEF HeaderSet
  <2>5. KeePassLayouts[2].fingerprint =
            {columns[1], columns[2], columns[3], columns[4], columns[5]}
    BY <1>8, <2>2
  <2>6. 2 \in 1 .. 2
    OBVIOUS
  <2>. QED  BY <1>3, <1>8, <2>4, <2>5, <2>6 DEF ParseKeePassCsv
<1>. QED  BY <1>1, <1>2, <1>5, <1>6, <1>7, <1>9, <1>10

\* RecognisedIsReadable: no file is refused by the parser detection chose for
\* it, but an encrypted one or a damaged archive (FORMAT_SIGNATURES in detect.ts
\* and the guards the parsers begin with).
THEOREM RecognisedFilesAreRead ==
    ASSUME ArchivesAreExports
    PROVE  Spec => []RecognisedIsReadable
<1>1. ASSUME ReaderInv, file \in Files, phase = "refused", format = Detect(evidence),
             format # "generic-csv"
      PROVE  \/ file.json.true \cap {"encrypted", "passwordProtected"} # {}
             \/ format = "onepassword-1pux" /\ IsZipProblem(ExportData(file))
  <2>. DEFINE places == Signatures(evidence)
              id == SignatureOrder[Min(places)]
              accepted == Parsed(file, format, mapping).accepted
  <2>1. evidence = Probe(file) /\ ~accepted
    BY <1>1 DEF ReaderInv, MappingInv, RecordsInv
  <2>2. evidence.json = file.json /\ evidence.header = HeaderOf(ParseCsv(file.text))
    BY <2>1 DEF Probe
  <2>3. places # {} /\ format = ParserOf(id)
    BY <1>1 DEF Detect
  <2>4. Min(places) \in places
    <3>1. places \in SUBSET Nat
      BY DEF Signatures, SignatureOrder
    <3>. HIDE DEF places
    <3>. QED  BY <2>3, <3>1, MinIsLeast
  <2>5. Matches(id, evidence)
    BY <2>4 DEF Signatures
  <2>6. id \in {"bitwarden-json", "protonpass-json", "dashlane-json", "keeper-json",
                "onepassword-1pux", "bitwarden-csv", "lastpass-csv", "chromium-csv",
                "firefox-csv", "safari-csv", "onepassword-csv", "keepassxc-csv", "keepass-csv",
                "nordpass-csv", "dashlane-csv"}
    BY <2>4 DEF Signatures, SignatureOrder
  <2>. HIDE DEF places, id, accepted
  <2>7. format # "keeper-csv"
    BY <2>3, <2>6 DEF ParserOf
  <2>8. CASE id = "onepassword-1pux"
    <3>1. format = "onepassword-1pux"
      BY <2>3, <2>8 DEF ParserOf
    <3>2. ~IsZipProblem(ExportData(file)) => accepted
      BY <1>1, <2>7, <3>1, AcceptedBy DEF ArchivesAreExports, accepted
    <3>. QED  BY <2>1, <3>1, <3>2
  <2>9. CASE id \in {"bitwarden-json", "protonpass-json", "dashlane-json", "keeper-json"}
    <3>1. format = id
      BY <2>3, <2>9 DEF ParserOf
    <3>2. accepted \/ file.json.true \cap {"encrypted", "passwordProtected"} # {}
      BY <2>2, <2>5, <2>7, <2>9, <3>1, AcceptedBy, SignatureIsEnough DEF accepted
    <3>. QED  BY <2>1, <3>2
  <2>10. CASE id \in {"bitwarden-csv", "lastpass-csv", "onepassword-csv", "nordpass-csv",
                      "dashlane-csv"}
    <3>1. format = id
      BY <2>3, <2>10 DEF ParserOf
    <3>2. accepted
      BY <2>2, <2>5, <2>7, <2>10, <3>1, AcceptedBy, SignatureIsEnough DEF accepted
    <3>. QED  BY <2>1, <3>2
  <2>11. CASE id \in {"chromium-csv", "firefox-csv", "safari-csv"}
    <3>1. format = "browser-csv"
      BY <2>3, <2>11 DEF ParserOf
    <3>2. accepted
      BY <2>2, <2>5, <2>7, <2>11, <3>1, AcceptedBy, SignatureIsEnough DEF accepted
    <3>. QED  BY <2>1, <3>2
  <2>12. CASE id \in {"keepassxc-csv", "keepass-csv"}
    <3>1. format = "keepass-csv"
      BY <2>3, <2>12 DEF ParserOf
    <3>2. accepted
      BY <2>2, <2>5, <2>7, <2>12, <3>1, AcceptedBy, SignatureIsEnough DEF accepted
    <3>. QED  BY <2>1, <3>2
  <2>. QED  BY <2>6, <2>8, <2>9, <2>10, <2>11, <2>12
<1>2. ReaderInv /\ file \in Files => RecognisedIsReadable
  BY <1>1 DEF RecognisedIsReadable
<1>. QED  BY <1>2, ReaderCorrect, PTL
-----------------------------------------------------------------------------
(***************************************************************************)
(* Every record has a line of its own.                                     *)
(***************************************************************************)
Increasing(records) ==
    \A j, k \in 1 .. Len(records) : j < k => records[j].line < records[k].line

\* The records of a state come before the one it is in.
Ordered(s) ==
    /\ s.recordLine <= s.line
    /\ Increasing(s.records)
    /\ \A k \in 1 .. Len(s.records) : s.records[k].line < s.recordLine

\* A record on a later line keeps the lines increasing.
LEMMA IncreasingAppend ==
    ASSUME NEW records \in Seq(RawRecords), NEW r \in RawRecords, Increasing(records),
           \A k \in 1 .. Len(records) : records[k].line < r.line
    PROVE  Increasing(Append(records, r))
<1>. DEFINE t == Append(records, r)
<1>1. /\ Len(t) = Len(records) + 1 /\ Len(records) \in Nat
      /\ \A k \in 1 .. Len(records) : t[k] = records[k]
      /\ t[Len(records) + 1] = r
  BY AppendProperties, LenProperties
<1>. HIDE DEF t
<1>2. ASSUME NEW j \in 1 .. Len(t), NEW k \in 1 .. Len(t), j < k
      PROVE  t[j].line < t[k].line
  <2>1. j \in 1 .. Len(records) /\ (k \in 1 .. Len(records) \/ k = Len(records) + 1)
    BY <1>1, <1>2
  <2>2. CASE k \in 1 .. Len(records)
    BY <1>1, <1>2, <2>1, <2>2 DEF Increasing
  <2>3. CASE k = Len(records) + 1
    BY <1>1, <2>1, <2>3
  <2>. QED  BY <2>1, <2>2, <2>3
<1>. QED  BY <1>2 DEF Increasing, t

\* The record that ends comes after the others.
LEMMA OrderedEnd ==
    ASSUME NEW s \in ScanStates, Ordered(s)
    PROVE  /\ Increasing(EndRecord(s).records)
           /\ \A k \in 1 .. Len(EndRecord(s).records) :
                  EndRecord(s).records[k].line <= s.recordLine
           /\ EndRecord(s).i = s.i /\ EndRecord(s).line = s.line
<1>1. /\ s.records \in Seq(RawRecords) /\ s.recordLine \in Nat
  BY DEF ScanStates
<1>2. /\ EndRecord(s).records = Append(s.records, RawRecord(s))
      /\ EndRecord(s).i = s.i /\ EndRecord(s).line = s.line
      /\ RawRecord(s) \in RawRecords
  BY EndRecordType, EndRecordKeeps
<1>3. RawRecord(s).line = s.recordLine
  BY DEF RawRecord
<1>. DEFINE r == RawRecord(s)
<1>. HIDE DEF r
<1>4. Increasing(Append(s.records, r))
  BY <1>1, <1>2, <1>3, IncreasingAppend DEF Ordered, r
<1>5. /\ Len(Append(s.records, r)) = Len(s.records) + 1 /\ Len(s.records) \in Nat
      /\ \A k \in 1 .. Len(s.records) : Append(s.records, r)[k] = s.records[k]
      /\ Append(s.records, r)[Len(s.records) + 1] = r
  BY <1>1, <1>2, AppendProperties, LenProperties DEF r
<1>6. ASSUME NEW k \in 1 .. Len(Append(s.records, r))
      PROVE  Append(s.records, r)[k].line <= s.recordLine
  <2>1. k \in 1 .. Len(s.records) \/ k = Len(s.records) + 1
    BY <1>5
  <2>2. CASE k \in 1 .. Len(s.records)
    <3>1. s.records[k].line < s.recordLine /\ s.records[k] \in RawRecords
      BY <1>1, <2>2, ElementOfSeq DEF Ordered
    <3>2. s.records[k].line \in Nat
      BY <3>1 DEF RawRecords
    <3>. QED  BY <1>1, <1>5, <2>2, <3>1, <3>2
  <2>3. CASE k = Len(s.records) + 1
    BY <1>1, <1>3, <1>5, <2>3 DEF r
  <2>. QED  BY <2>1, <2>2, <2>3
<1>. QED  BY <1>2, <1>4, <1>6 DEF r

\* A turn of the loop leaves the records alone, or ends one.
LEMMA NextCharRecords ==
    ASSUME NEW text \in Texts, NEW s \in ScanStates
    PROVE  \/ /\ NextChar(text, s).records = s.records
              /\ NextChar(text, s).recordLine = s.recordLine
              /\ NextChar(text, s).line \in {s.line, s.line + 1}
           \/ /\ NextChar(text, s).records = EndRecord(s).records
              /\ NextChar(text, s).recordLine = s.line + 1
              /\ NextChar(text, s).line = s.line + 1
<1>. DEFINE n == NextChar(text, s)
            Same(t) == t.records = s.records /\ t.recordLine = s.recordLine
                       /\ t.line \in {s.line, s.line + 1}
<1>1. CASE s.i > Len(text)
  BY <1>1 DEF NextChar
<1>2. CASE ~(s.i > Len(text)) /\ s.inQuotes
  <2>1. n = QuotedChar(text, s)
    BY <1>2 DEF NextChar
  <2>2. Same([s EXCEPT !.field = Append(@, QUOTE), !.i = @ + 2])
    BY DEF ScanStates
  <2>. DEFINE closed == [s EXCEPT !.inQuotes = FALSE, !.i = @ + 1]
  <2>3. Same(closed)
    BY DEF ScanStates
  <2>4. Same(Report([closed EXCEPT !.recordReported = TRUE]))
    BY DEF ScanStates, Report
  <2>5. \A d \in {0, 1} : Same([s EXCEPT !.line = @ + d, !.field = Append(@, text[s.i]),
                                         !.i = @ + 1])
    <3>1. s.line \in Nat
      BY DEF ScanStates
    <3>. QED  BY <3>1 DEF ScanStates
  <2>6. QuotedChar(text, s) \in {[s EXCEPT !.field = Append(@, QUOTE), !.i = @ + 2], closed,
                                 Report([closed EXCEPT !.recordReported = TRUE])}
                                \cup {[s EXCEPT !.line = @ + d, !.field = Append(@, text[s.i]),
                                                !.i = @ + 1] : d \in {0, 1}}
    BY DEF QuotedChar
  <2>. HIDE DEF closed, Same
  <2>7. Same(n)
    BY <2>1, <2>2, <2>3, <2>4, <2>5, <2>6
  <2>. QED  BY <2>7 DEF Same
<1>3. CASE ~(s.i > Len(text)) /\ ~s.inQuotes
  <2>1. n = PlainChar(text, s)
    BY <1>3 DEF NextChar
  <2>. DEFINE opened == [s EXCEPT !.inQuotes = TRUE, !.fieldWasQuoted = TRUE,
                                  !.recordHadQuote = TRUE, !.i = @ + 1]
              separated == [EndField(s) EXCEPT !.i = @ + 1]
              read == [s EXCEPT !.field = Append(@, text[s.i]), !.i = @ + 1]
              Ends(t) == /\ t.records = EndRecord(s).records
                         /\ t.recordLine = s.line + 1 /\ t.line = s.line + 1
  <2>2. Same(opened) /\ Same(read)
    BY DEF ScanStates
  <2>3. Same(separated)
    <3>. DEFINE ended == EndField(s)
    <3>1. /\ ended \in ScanStates /\ ended.line = s.line
          /\ ended.records = s.records /\ ended.recordLine = s.recordLine
      BY EndFieldType, EndFieldKeeps
    <3>. HIDE DEF ended
    <3>2. Same([ended EXCEPT !.i = @ + 1])
      BY <3>1 DEF ScanStates
    <3>. QED  BY <3>2 DEF ended
  <2>4. \A width \in {1, 2} : Ends([EndRecord(s) EXCEPT !.i = @ + width, !.line = @ + 1,
                                                        !.recordLine = s.line + 1])
    <3>. DEFINE ended == EndRecord(s)
    <3>1. ended \in ScanStates /\ ended.line = s.line
      BY EndRecordType, EndRecordKeeps
    <3>. HIDE DEF ended
    <3>2. ASSUME NEW width \in {1, 2}
          PROVE  LET t == [ended EXCEPT !.i = @ + width, !.line = @ + 1, !.recordLine = s.line + 1]
                 IN  /\ t.records = ended.records
                     /\ t.recordLine = s.line + 1 /\ t.line = s.line + 1
      BY <3>1 DEF ScanStates
    <3>. QED  BY <3>2 DEF ended
  <2>5. PlainChar(text, s) \in
            {opened, separated, read}
            \cup {[EndRecord(s) EXCEPT !.i = @ + width, !.line = @ + 1,
                                       !.recordLine = s.line + 1] : width \in {1, 2}}
    BY DEF PlainChar
  <2>. HIDE DEF opened, separated, read, Same, Ends
  <2>6. Same(n) \/ Ends(n)
    BY <2>1, <2>2, <2>3, <2>4, <2>5
  <2>. QED  BY <2>6 DEF Same, Ends
<1>. QED  BY <1>1, <1>2, <1>3

\* A turn of the loop keeps the lines in order.
LEMMA OrderedStep ==
    ASSUME NEW text \in Texts, NEW s \in ScanStates, Ordered(s)
    PROVE  Ordered(NextChar(text, s))
<1>. DEFINE n == NextChar(text, s)
<1>1. /\ s.line \in Nat /\ s.recordLine \in Nat /\ s.records \in Seq(RawRecords)
      /\ s.recordLine <= s.line
  BY DEF ScanStates, Ordered
<1>. HIDE DEF n
<1>2. CASE /\ n.records = s.records /\ n.recordLine = s.recordLine
           /\ n.line \in {s.line, s.line + 1}
  <2>1. Ordered(n)
    BY <1>1, <1>2 DEF Ordered
  <2>. QED  BY <2>1 DEF n
<1>3. CASE /\ n.records = EndRecord(s).records
           /\ n.recordLine = s.line + 1 /\ n.line = s.line + 1
  <2>1. /\ Increasing(n.records)
        /\ \A k \in 1 .. Len(n.records) : n.records[k].line <= s.recordLine
    BY <1>3, OrderedEnd
  <2>2. \A k \in 1 .. Len(n.records) : n.records[k].line \in Nat
    <3>1. n.records \in Seq(RawRecords)
      BY <1>3, EndRecordType DEF ScanStates
    <3>2. \A k \in 1 .. Len(n.records) : n.records[k] \in RawRecords
      BY <3>1, ElementOfSeq
    <3>. QED  BY <3>2 DEF RawRecords
  <2>3. \A k \in 1 .. Len(n.records) : n.records[k].line < n.recordLine
    BY <1>1, <1>3, <2>1, <2>2
  <2>4. Ordered(n)
    BY <1>1, <1>3, <2>1, <2>3 DEF Ordered
  <2>. QED  BY <2>4 DEF n
<1>. QED  BY <1>2, <1>3, NextCharRecords DEF n

\* The records are on increasing lines.
LEMMA ScanIncreasing ==
    ASSUME NEW text \in Texts
    PROVE  Increasing(Scan(text).records)
<1>. DEFINE N == Len(text)
            run == ScanRun(text)
            T == {n \in 0 .. N : Ordered(run[n])}
<1>1. /\ run \in [0 .. N -> ScanStates] /\ run[0] = ScanStart
      /\ \A n \in 1 .. N : run[n] = NextChar(text, run[n - 1])
      /\ N \in Nat
  BY ScanRunSteps, LenProperties DEF Texts
<1>. HIDE DEF N, run
<1>2. 0 \in T
  <2>1. Len(ScanStart.records) = 0 /\ ScanStart.recordLine = 1 /\ ScanStart.line = 1
    BY EmptySeq DEF ScanStart
  <2>2. Ordered(ScanStart)
    BY <2>1 DEF Ordered, Increasing
  <2>. QED  BY <1>1, <2>2
<1>3. ASSUME NEW n \in 1 .. N, n - 1 \in T PROVE n \in T
  <2>1. n - 1 \in 0 .. N /\ run[n - 1] \in ScanStates /\ Ordered(run[n - 1])
    BY <1>1, <1>3
  <2>2. Ordered(run[n])
    BY <1>1, <2>1, OrderedStep
  <2>. QED  BY <1>1, <2>2
<1>4. N \in T
  <2>1. N \in 0 .. N
    BY <1>1
  <2>. HIDE DEF T
  <2>2. \A n \in 0 .. N : n \in T
    BY <1>1, <1>2, <1>3, Induction
  <2>. QED  BY <2>1, <2>2
<1>. DEFINE s == run[N]
<1>5. s \in ScanStates /\ Ordered(s) /\ Scan(text) = FinishScan(s)
  BY <1>1, <1>4 DEF Scan, run, N
<1>. HIDE DEF s
<1>. DEFINE t == IF s.inQuotes THEN Report(s) ELSE s
<1>6. t \in ScanStates /\ Ordered(t)
  <2>1. Append(s.errors, s.recordLine) \in Seq(Nat)
    BY <1>5, AppendProperties DEF ScanStates
  <2>2. /\ Report(s) \in ScanStates /\ Report(s).records = s.records
        /\ Report(s).line = s.line /\ Report(s).recordLine = s.recordLine
    BY <1>5, <2>1 DEF Report, ScanStates
  <2>3. Ordered(Report(s))
    BY <1>5, <2>2 DEF Ordered
  <2>. QED  BY <1>5, <2>2, <2>3
<1>7. FinishScan(s) \in {t, EndRecord(t)}
  BY DEF FinishScan
<1>. HIDE DEF t
<1>8. Increasing(t.records) /\ Increasing(EndRecord(t).records)
  BY <1>6, OrderedEnd DEF Ordered
<1>. QED  BY <1>5, <1>7, <1>8
\* Leaving the blank lines out keeps the order.
LEMMA MeaningfulIncreasing ==
    ASSUME NEW records \in Seq(RawRecords), Increasing(records)
    PROVE  Increasing(Meaningful(records))
<1>. DEFINE N == Len(records)
<1>1. PICK kept \in [0 .. N -> Seq(RawRecords)] :
          /\ Meaningful(records) = kept[N]
          /\ kept[0] = <<>>
          /\ \A n \in 1 .. N :
                 kept[n] = IF records[n].blank THEN kept[n - 1]
                           ELSE Append(kept[n - 1], records[n])
  BY MeaningfulSteps
<1>2. N \in Nat
  BY LenProperties
<1>. DEFINE Upto(n) == \A k \in 1 .. Len(kept[n]) : \E m \in 1 .. n : kept[n][k] = records[m]
            T == {n \in 0 .. N : Increasing(kept[n]) /\ Upto(n)}
<1>. HIDE DEF N
<1>3. 0 \in T
  <2>1. Len(kept[0]) = 0 /\ 0 \in 0 .. N
    BY <1>1, <1>2, EmptySeq
  <2>. QED  BY <2>1 DEF Increasing
<1>4. ASSUME NEW n \in 1 .. N, n - 1 \in T PROVE n \in T
  <2>1. /\ n - 1 \in 0 .. N /\ n \in 0 .. N /\ kept[n - 1] \in Seq(RawRecords)
        /\ Increasing(kept[n - 1]) /\ Upto(n - 1)
    BY <1>1, <1>2, <1>4
  <2>2. CASE records[n].blank
    <3>1. kept[n] = kept[n - 1]
      BY <1>1, <2>2
    <3>. QED  BY <2>1, <3>1
  <2>3. CASE ~records[n].blank
    <3>. DEFINE r == records[n]
                before == kept[n - 1]
    <3>1. kept[n] = Append(before, r)
      BY <1>1, <2>3
    <3>2. r \in RawRecords
      BY <1>2, ElementOfSeq DEF N
    <3>3. \A k \in 1 .. Len(before) : before[k].line < r.line
      <4>1. ASSUME NEW k \in 1 .. Len(before) PROVE before[k].line < r.line
        <5>1. PICK m \in 1 .. n - 1 : before[k] = records[m]
          BY <2>1
        <5>2. m \in 1 .. N /\ n \in 1 .. N /\ m < n
          BY <1>2
        <5>3. records[m].line < records[n].line
          BY <5>2 DEF Increasing, N
        <5>. QED  BY <5>1, <5>3
      <4>. QED  BY <4>1
    <3>. HIDE DEF r, before
    <3>4. Increasing(Append(before, r))
      BY <2>1, <3>2, <3>3, IncreasingAppend DEF before
    <3>5. /\ Len(Append(before, r)) = Len(before) + 1 /\ Len(before) \in Nat
          /\ \A k \in 1 .. Len(before) : Append(before, r)[k] = before[k]
          /\ Append(before, r)[Len(before) + 1] = r
      BY <2>1, <3>2, AppendProperties, LenProperties DEF before
    <3>6. ASSUME NEW k \in 1 .. Len(kept[n]) PROVE \E m \in 1 .. n : kept[n][k] = records[m]
      <4>1. k \in 1 .. Len(before) \/ k = Len(before) + 1
        BY <3>1, <3>5
      <4>2. CASE k \in 1 .. Len(before)
        <5>1. PICK m \in 1 .. n - 1 : before[k] = records[m]
          BY <2>1, <4>2 DEF before
        <5>2. m \in 1 .. n /\ kept[n][k] = records[m]
          BY <1>2, <3>1, <3>5, <4>2, <5>1
        <5>. QED  BY <5>2
      <4>3. CASE k = Len(before) + 1
        <5>1. n \in 1 .. n /\ kept[n][k] = records[n]
          BY <1>2, <3>1, <3>5, <4>3 DEF r
        <5>. QED  BY <5>1
      <4>. QED  BY <4>1, <4>2, <4>3
    <3>. QED  BY <2>1, <3>1, <3>4, <3>6
  <2>. QED  BY <2>2, <2>3
<1>5. N \in T
  <2>1. N \in 0 .. N
    BY <1>2
  <2>. HIDE DEF T
  <2>2. \A n \in 0 .. N : n \in T
    BY <1>2, <1>3, <1>4, Induction
  <2>. QED  BY <2>1, <2>2
<1>. QED  BY <1>1, <1>5

\* So the rows of a table have different lines.
LEMMA RowsIncreasing ==
    ASSUME NEW text \in Texts
    PROVE  Increasing(ParseCsv(text).rows) /\ Increasing(ParseCsvRecords(text).rows)
<1>. DEFINE s == Scan(WithoutBom(text))
            records == Meaningful(s.records)
<1>1. s.records \in Seq(RawRecords) /\ Increasing(s.records)
  BY WithoutBomType, ScanType, ScanIncreasing DEF ScanStates
<1>. HIDE DEF s
<1>2. records \in Seq(RawRecords) /\ Increasing(records)
  BY <1>1, MeaningfulType, MeaningfulIncreasing
<1>. HIDE DEF records
<1>3. ParseCsv(text).rows = IF records = <<>> THEN <<>> ELSE Tail(records)
  BY DEF ParseCsv, s, records
<1>4. ParseCsvRecords(text).rows = records
  BY DEF ParseCsvRecords, s, records
<1>5. ASSUME records # <<>> PROVE Increasing(Tail(records))
  <2>1. /\ Len(records) \in Nat \ {0}
        /\ Len(Tail(records)) = Len(records) - 1
        /\ \A k \in 1 .. Len(Tail(records)) : Tail(records)[k] = records[k + 1]
    BY <1>2, <1>5, LenProperties, EmptySeq, HeadTailProperties
  <2>. DEFINE t == Tail(records)
  <2>. HIDE DEF t
  <2>2. ASSUME NEW j \in 1 .. Len(t), NEW k \in 1 .. Len(t), j < k
        PROVE  t[j].line < t[k].line
    <3>1. j + 1 \in 1 .. Len(records) /\ k + 1 \in 1 .. Len(records) /\ j + 1 < k + 1
      BY <2>1, <2>2 DEF t
    <3>2. records[j + 1].line < records[k + 1].line
      BY <1>2, <3>1 DEF Increasing
    <3>. QED  BY <2>1, <3>2 DEF t
  <2>. QED  BY <2>2 DEF Increasing, t
<1>6. Increasing(<<>>)
  BY EmptySeq DEF Increasing
<1>. QED  BY <1>2, <1>3, <1>4, <1>5, <1>6

\* And so have the records a parser is handed.
LEMMA ParsedLines ==
    ASSUME NEW f \in Files, NEW fmt, NEW map
    PROVE  LET records == Parsed(f, fmt, map).records IN
           \A j, k \in 1 .. Len(records) : records[j].line = records[k].line => j = k
<1>. DEFINE table == IF fmt = "keeper-csv" THEN ParseCsvRecords(f.text) ELSE ParseCsv(f.text)
            data == ExportData(f)
            json == IF fmt = "onepassword-1pux" /\ ~IsZipProblem(data)
                    THEN data.contents ELSE [json |-> f.json, records |-> f.records]
            isJson == fmt \in JsonFormats \cup {"onepassword-1pux"}
            csv == CsvRecords(table, fmt = "keeper-csv")
            numbered == [k \in DOMAIN json.records |-> AtLine(json.records[k], k)]
            records == Parsed(f, fmt, map).records
<1>1. records = IF isJson THEN numbered ELSE csv
  BY DEF Parsed
<1>2. IsList(records)
  BY ParsedRecords
<1>3. DOMAIN records = 1 .. Len(records) /\ Len(records) \in Nat
  <2>. HIDE DEF records
  <2>. QED  BY <1>2, ListPlaces
<1>4. table.rows \in Seq(RawRecords) /\ Increasing(table.rows)
  <2>1. f.text \in Texts
    BY FilesAssumption DEF Texts, Chars
  <2>. QED  BY <2>1, ParseCsvType, RowsIncreasing DEF Tables
<1>. HIDE DEF table, data, json, isJson, records
<1>5. CASE isJson
  <2>1. \A k \in DOMAIN records : records[k].line = k
    BY <1>1, <1>5 DEF AtLine
  <2>2. \A j, k \in 1 .. Len(records) : records[j].line = records[k].line => j = k
    BY <1>3, <2>1
  <2>. QED  BY <2>2 DEF records
<1>6. CASE ~isJson
  <2>1. DOMAIN records = DOMAIN table.rows
        /\ \A k \in DOMAIN records : records[k].line = table.rows[k].line
    BY <1>1, <1>6 DEF CsvRecords
  <2>2. DOMAIN table.rows = 1 .. Len(table.rows) /\ Len(table.rows) \in Nat
        /\ \A k \in 1 .. Len(table.rows) : table.rows[k].line \in Nat
    <3>1. \A k \in 1 .. Len(table.rows) : table.rows[k] \in RawRecords
      BY <1>4, ElementOfSeq
    <3>. QED  BY <1>4, <3>1, LenProperties DEF RawRecords
  <2>3. ASSUME NEW j \in 1 .. Len(records), NEW k \in 1 .. Len(records),
               records[j].line = records[k].line
        PROVE  j = k
    <3>1. j \in 1 .. Len(table.rows) /\ k \in 1 .. Len(table.rows)
          /\ table.rows[j].line = table.rows[k].line
      BY <1>3, <2>1, <2>2, <2>3
    <3>2. ~(j < k) /\ ~(k < j)
      BY <1>4, <2>2, <3>1 DEF Increasing
    <3>. QED  BY <3>2
  <2>. QED  BY <2>3 DEF records
<1>. QED  BY <1>5, <1>6
-----------------------------------------------------------------------------
(***************************************************************************)
(* Of the columns an exporter writes none is dropped.                      *)
(***************************************************************************)
Everything(item) ==
    UNION {item.name, item.username, item.password, item.urls, item.notes, item.favorite,
           item.folderPath, item.extra}

\* What a column holds that is worth keeping.
Held(record, c) == Cell(record, c) \ No

\* A parser keeps all the columns of a login, and of a note those it knows.
Keeps(fmt, record, outcome) ==
    \/ outcome = RowError
    \/ /\ outcome \in ImportItems(ValuesOf(record))
       /\ outcome.type = "note" /\ outcome.password = {} /\ fmt # "generic-csv"
       /\ \A c \in NoteKeys(fmt) \ LeftBehind(fmt) : Held(record, c) \subseteq Everything(outcome)
    \/ /\ outcome \in ImportItems(ValuesOf(record))
       /\ outcome.type = "login" /\ outcome.password # {}
       /\ \A c \in DOMAIN record.cells \ LeftBehind(fmt) :
              Held(record, c) \subseteq Everything(outcome)

\* The plaintext has all that the outcome has.
LEMMA EverythingLands ==
    ASSUME NEW V, NEW item \in ImportItems(V)
    PROVE  Landed(ToItemPlaintext(item)) = Everything(item)
<1>1. CASE item.type = "login" \/ item.password # {}
  BY <1>1 DEF ToItemPlaintext, Landed, Everything, ImportItems
<1>2. CASE ~(item.type = "login" \/ item.password # {})
  BY <1>2 DEF ToItemPlaintext, Landed, Everything, ImportItems
<1>. QED  BY <1>1, <1>2

\* A field that holds a column lands it.
LEMMA FieldLands ==
    ASSUME NEW item, NEW X
    PROVE  \/ X \subseteq item.name \/ X \subseteq item.username \/ X \subseteq item.password
           \/ X \subseteq item.urls \/ X \subseteq item.notes \/ X \subseteq item.favorite
           \/ X \subseteq item.folderPath \/ X \subseteq item.extra
           => X \subseteq Everything(item)
BY DEF Everything

\* The first of some columns is kept when it holds something.
LEMMA FirstCellHolds ==
    ASSUME NEW record, NEW keys, 1 \in DOMAIN keys, DOMAIN keys \subseteq Nat \ {0}
    PROVE  Cell(record, keys[1]) \subseteq FirstCell(record, keys)
<1>. DEFINE held == {k \in DOMAIN keys : Cell(record, keys[k]) # {}}
<1>1. CASE Cell(record, keys[1]) = {}
  BY <1>1
<1>2. CASE Cell(record, keys[1]) # {}
  <2>1. 1 \in held /\ held \in SUBSET Nat /\ \A k \in held : 1 <= k
    BY <1>2
  <2>2. FirstCell(record, keys) = IF held = {} THEN {} ELSE Cell(record, keys[Min(held)])
    BY DEF FirstCell
  <2>. HIDE DEF held
  <2>3. Min(held) \in held /\ \A y \in held : Min(held) <= y
    BY <2>1, MinIsLeast
  <2>4. Min(held) = 1
    <3>1. Min(held) \in Nat /\ 1 <= Min(held) /\ Min(held) <= 1
      BY <2>1, <2>3
    <3>. QED  BY <3>1
  <2>. QED  BY <2>1, <2>2, <2>4
<1>. QED  BY <1>1, <1>2

\* The columns of a layout are kept.
LEMMA LayoutKeeps ==
    ASSUME NEW record, NEW layout, 1 \in DOMAIN layout.name, DOMAIN layout.name \subseteq Nat \ {0}
    PROVE  LET outcome == LayoutItem(record, layout) IN
           \/ outcome = RowError
           \/ /\ outcome \in ImportItems(ValuesOf(record))
              /\ outcome.type = "login" /\ outcome.password # {}
              /\ \A c \in {layout.name[1], layout.username, layout.password, layout.url,
                           layout.notes, layout.folder} \cup layout.carry :
                     Cell(record, c) \subseteq Everything(outcome)
<1>. DEFINE V == ValuesOf(record)
            fields == [name |-> FirstCell(record, layout.name),
                       username |-> Cell(record, layout.username),
                       urls |-> Cell(record, layout.url),
                       notes |-> Cell(record, layout.notes),
                       folderPath |-> Cell(record, layout.folder),
                       extra |-> Cells(record, layout.carry)]
            item == Fields(fields)
            outcome == LayoutItem(record, layout)
<1>1. DOMAIN fields \subseteq FieldNames /\ \A field \in DOMAIN fields : fields[field] \subseteq V
  <2>. HIDE DEF V
  <2>. QED  BY CellOfRecord DEF FieldNames, V
<1>2. outcome = RequiredPassword(record, layout.password, item)
  BY DEF LayoutItem
<1>3. /\ item \in ImportItems(V) /\ item.type = "login"
      /\ \A field \in FieldNames : item[field] = IF field \in DOMAIN fields THEN fields[field] ELSE {}
  <2>. HIDE DEF fields
  <2>. QED  BY <1>1, FieldsOfItem
<1>4. /\ item.name = FirstCell(record, layout.name)
      /\ item.username = Cell(record, layout.username)
      /\ item.urls = Cell(record, layout.url)
      /\ item.notes = Cell(record, layout.notes)
      /\ item.folderPath = Cell(record, layout.folder)
      /\ item.extra = Cells(record, layout.carry)
  <2>. HIDE DEF item
  <2>. QED  BY <1>3 DEF FieldNames
<1>. HIDE DEF fields, item, outcome
<1>5. CASE Cell(record, layout.password) = {}
  BY <1>2, <1>5 DEF RequiredPassword, outcome
<1>6. CASE Cell(record, layout.password) # {}
  <2>1. outcome = [item EXCEPT !.password = Cell(record, layout.password)]
    BY <1>2, <1>6 DEF RequiredPassword
  <2>2. Cell(record, layout.password) \subseteq V
    BY CellOfRecord
  <2>3. /\ outcome \in ImportItems(V) /\ outcome.type = "login"
        /\ outcome.password = Cell(record, layout.password)
        /\ outcome.name = FirstCell(record, layout.name)
        /\ outcome.username = Cell(record, layout.username)
        /\ outcome.urls = Cell(record, layout.url)
        /\ outcome.notes = Cell(record, layout.notes)
        /\ outcome.folderPath = Cell(record, layout.folder)
        /\ outcome.extra = Cells(record, layout.carry)
    BY <1>3, <1>4, <2>1, <2>2 DEF ImportItems
  <2>4. Cell(record, layout.name[1]) \subseteq FirstCell(record, layout.name)
    BY FirstCellHolds
  <2>5. \A c \in layout.carry : Cell(record, c) \subseteq Cells(record, layout.carry)
    BY DEF Cells
  <2>6. /\ Cell(record, layout.name[1]) \subseteq Everything(outcome)
        /\ Cell(record, layout.username) \subseteq Everything(outcome)
        /\ Cell(record, layout.password) \subseteq Everything(outcome)
        /\ Cell(record, layout.url) \subseteq Everything(outcome)
        /\ Cell(record, layout.notes) \subseteq Everything(outcome)
        /\ Cell(record, layout.folder) \subseteq Everything(outcome)
        /\ \A c \in layout.carry : Cell(record, c) \subseteq Everything(outcome)
    BY <2>3, <2>4, <2>5, FieldLands
  <2>7. \A c \in {layout.name[1], layout.username, layout.password, layout.url,
                  layout.notes, layout.folder} \cup layout.carry :
            Cell(record, c) \subseteq Everything(outcome)
    BY <2>6
  <2>. QED  BY <1>6, <2>3, <2>7 DEF outcome
<1>. QED  BY <1>5, <1>6

\* A layout whose columns are all the record has keeps them all.
LEMMA LayoutKeepsAll ==
    ASSUME NEW fmt, NEW record, NEW layout,
           1 \in DOMAIN layout.name, DOMAIN layout.name \subseteq Nat \ {0},
           DOMAIN record.cells \ LeftBehind(fmt) \subseteq
               {layout.name[1], layout.username, layout.password, layout.url, layout.notes,
                layout.folder} \cup layout.carry
    PROVE  Keeps(fmt, record, LayoutItem(record, layout))
<1>. DEFINE outcome == LayoutItem(record, layout)
<1>. HIDE DEF outcome
<1>1. \/ outcome = RowError
      \/ /\ outcome \in ImportItems(ValuesOf(record))
         /\ outcome.type = "login" /\ outcome.password # {}
         /\ \A c \in {layout.name[1], layout.username, layout.password, layout.url,
                      layout.notes, layout.folder} \cup layout.carry :
                Cell(record, c) \subseteq Everything(outcome)
  BY LayoutKeeps DEF outcome
<1>2. \A c : Held(record, c) \subseteq Cell(record, c)
  BY DEF Held
<1>3. outcome # RowError => \A c \in DOMAIN record.cells \ LeftBehind(fmt) :
          Held(record, c) \subseteq Everything(outcome)
  BY <1>1, <1>2
<1>. QED  BY <1>1, <1>3 DEF Keeps, outcome

\* Any CSV through any mapping of all its columns.
LEMMA GenericKeeps ==
    ASSUME NEW record, NEW map, DOMAIN map.placed = DOMAIN Candidates,
           DOMAIN record.cells \subseteq
               map.custom \cup {map.placed[field] : field \in DOMAIN map.placed}
    PROVE  Keeps("generic-csv", record, GenericRow(record, map))
<1>. DEFINE layout == [name |-> <<map.placed.name, map.placed.url>>,
                       username |-> map.placed.username, password |-> map.placed.password,
                       url |-> map.placed.url, notes |-> map.placed.notes,
                       folder |-> map.placed.folder,
                       carry |-> map.custom \cup {map.placed.totp}]
<1>1. /\ 1 \in DOMAIN layout.name /\ DOMAIN layout.name \subseteq Nat \ {0}
      /\ layout.name[1] = map.placed.name
  OBVIOUS
<1>2. DOMAIN Candidates = {"name", "username", "password", "url", "notes", "folder", "totp"}
  BY DEF Candidates
<1>3. DOMAIN record.cells \ LeftBehind("generic-csv") \subseteq
          {layout.name[1], layout.username, layout.password, layout.url, layout.notes,
           layout.folder} \cup layout.carry
  BY <1>1, <1>2
<1>4. GenericRow(record, map) = LayoutItem(record, layout)
  BY DEF GenericRow
<1>. HIDE DEF layout
<1>. QED  BY <1>1, <1>3, <1>4, LayoutKeepsAll
\* The password is kept beside the rest of a login.
LEMMA LoginKeeps ==
    ASSUME NEW fmt, NEW record, NEW key, NEW login \in ImportItems(ValuesOf(record)),
           login.type = "login", login.password = {},
           \A c \in DOMAIN record.cells \ (LeftBehind(fmt) \cup {key}) :
               Held(record, c) \subseteq Everything(login)
    PROVE  Keeps(fmt, record, RequiredPassword(record, key, login))
<1>. DEFINE outcome == RequiredPassword(record, key, login)
<1>1. CASE Cell(record, key) = {}
  BY <1>1 DEF RequiredPassword, Keeps
<1>2. CASE Cell(record, key) # {}
  <2>1. outcome = [login EXCEPT !.password = Cell(record, key)]
    BY <1>2 DEF RequiredPassword
  <2>2. Cell(record, key) \subseteq ValuesOf(record)
    BY CellOfRecord
  <2>. HIDE DEF outcome
  <2>3. /\ outcome \in ImportItems(ValuesOf(record)) /\ outcome.type = "login"
        /\ outcome.password = Cell(record, key)
        /\ outcome.name = login.name /\ outcome.username = login.username
        /\ outcome.urls = login.urls /\ outcome.notes = login.notes
        /\ outcome.favorite = login.favorite /\ outcome.folderPath = login.folderPath
        /\ outcome.extra = login.extra
    BY <2>1, <2>2 DEF ImportItems
  <2>4. Everything(login) \subseteq Everything(outcome)
    BY <2>3 DEF Everything
  <2>5. Held(record, key) \subseteq Everything(outcome)
    BY <2>3, FieldLands DEF Held
  <2>6. \A c \in DOMAIN record.cells \ LeftBehind(fmt) :
            Held(record, c) \subseteq Everything(outcome)
    BY <2>4, <2>5
  <2>. QED  BY <1>2, <2>3, <2>6 DEF Keeps, outcome
<1>. QED  BY <1>1, <1>2

\* A note that holds what a note's keys hold keeps what it should.
LEMMA NoteKeeps ==
    ASSUME NEW fmt, NEW record, NEW item \in ImportItems(ValuesOf(record)), item.password = {},
           fmt # "generic-csv",
           \A c \in NoteKeys(fmt) \ LeftBehind(fmt) : Held(record, c) \subseteq Everything(item)
    PROVE  Keeps(fmt, record, [item EXCEPT !.type = "note"])
<1>. DEFINE outcome == [item EXCEPT !.type = "note"]
<1>1. /\ outcome \in ImportItems(ValuesOf(record)) /\ outcome.type = "note"
      /\ outcome.password = {} /\ Everything(outcome) = Everything(item)
  BY DEF ImportItems, Everything
<1>. HIDE DEF outcome
<1>2. Keeps(fmt, record, outcome)
  BY <1>1 DEF Keeps
<1>. QED  BY <1>2 DEF outcome

\* A flag that says yes, and a setting that is set, are kept.
LEMMA FlagHolds ==
    ASSUME NEW record, NEW c,
           c \in DOMAIN record.cells => record.cells[c] \in No \cup {<<"1">>, <<"true">>}
    PROVE  Held(record, c) \subseteq Flag(record, c)
BY DEF Held, Cell, Flag, Value, No

\* What is held, but for texts that mean no, is metadata.
LEMMA MetadataHolds ==
    ASSUME NEW record, NEW c
    PROVE  Held(record, c) \subseteq Metadata(record, c)
BY DEF Held, Cell, Metadata

\* What is held is in the cell, and the cell in those of several columns.
LEMMA HeldInCell ==
    /\ \A record, c : Held(record, c) \subseteq Cell(record, c)
    /\ \A record, keys : \A c \in keys : Cell(record, c) \subseteq Cells(record, keys)
BY DEF Held, Cells

\* A refused record is not imported: nothing of it has to be kept.
LEMMA ErrorKeeps == \A fmt, record : Keeps(fmt, record, RowError)
BY DEF Keeps

\* LastPass's parser keeps every value that is held.
LEMMA LastPassKeeps ==
    ASSUME NEW record, KnownRecord("lastpass-csv", record)
    PROVE  Keeps("lastpass-csv", record, LastPassItem(record))
<1>. DEFINE V == ValuesOf(record)
            fields == [name |-> Cell(record, "name"), notes |-> Cell(record, "extra"),
                       favorite |-> Flag(record, "fav"), folderPath |-> Cell(record, "grouping")]
            item == Fields(fields)
            login == [item EXCEPT !.username = Cell(record, "username"),
                                  !.urls = Cell(record, "url"), !.extra = Cell(record, "totp")]
<1>1. DOMAIN fields \subseteq FieldNames /\ \A field \in DOMAIN fields : fields[field] \subseteq V
  BY CellOfRecord DEF FieldNames
<1>2. LastPassItem(record) \in {[item EXCEPT !.type = "note"],
                                RequiredPassword(record, "password", login)}
  BY DEF LastPassItem
<1>3. /\ item \in ImportItems(V) /\ item.type = "login"
      /\ \A field \in FieldNames : item[field] = IF field \in DOMAIN fields THEN fields[field] ELSE {}
  <2>. HIDE DEF fields
  <2>. QED  BY <1>1, FieldsOfItem
<1>4. /\ item.name = Cell(record, "name") /\ item.notes = Cell(record, "extra")
      /\ item.favorite = Flag(record, "fav") /\ item.folderPath = Cell(record, "grouping")
      /\ item.password = {}
  <2>. HIDE DEF item
  <2>. QED  BY <1>3 DEF FieldNames
<1>. HIDE DEF fields, item
<1>5. /\ login \in ImportItems(V) /\ login.type = "login" /\ login.password = {}
      /\ login.name = Cell(record, "name") /\ login.notes = Cell(record, "extra")
      /\ login.favorite = Flag(record, "fav") /\ login.folderPath = Cell(record, "grouping")
      /\ login.username = Cell(record, "username") /\ login.urls = Cell(record, "url")
      /\ login.extra = Cell(record, "totp")
  BY <1>3, <1>4, CellOfRecord DEF ImportItems
<1>. HIDE DEF login
<1>6. \A c \in {"name", "extra", "grouping"} : Held(record, c) \subseteq Everything(item)
  BY <1>4, HeldInCell, FieldLands
<1>7. \A c \in {"url", "username", "totp", "extra", "name", "grouping"} :
          Held(record, c) \subseteq Everything(login)
  BY <1>5, HeldInCell, FieldLands
<1>8. Held(record, "fav") \subseteq Everything(login)
  BY <1>5, FlagHolds, FieldLands DEF KnownRecord
<1>9. DOMAIN record.cells \subseteq
          {"url", "username", "password", "totp", "extra", "name", "grouping", "fav"}
  BY DEF KnownRecord, ExportColumns
<1>10. Keeps("lastpass-csv", record, [item EXCEPT !.type = "note"])
  BY <1>3, <1>4, <1>6, NoteKeeps DEF NoteKeys
<1>11. Keeps("lastpass-csv", record, RequiredPassword(record, "password", login))
  BY <1>5, <1>7, <1>8, <1>9, LoginKeeps
<1>. QED  BY <1>2, <1>10, <1>11

\* NordPass's parser does.
LEMMA NordPassKeeps ==
    ASSUME NEW record, KnownRecord("nordpass-csv", record)
    PROVE  Keeps("nordpass-csv", record, NordPassItem(record))
<1>. DEFINE V == ValuesOf(record)
            fields == [name |-> Cell(record, "name"), notes |-> Cell(record, "note"),
                       folderPath |-> Cell(record, "folder"),
                       extra |-> Cell(record, "custom_fields")]
            item == Fields(fields)
            login == [item EXCEPT !.username = Cell(record, "username"),
                                  !.urls = Cells(record, {"url", "additional_urls"})]
<1>1. DOMAIN fields \subseteq FieldNames /\ \A field \in DOMAIN fields : fields[field] \subseteq V
  BY CellOfRecord DEF FieldNames
<1>2. NordPassItem(record) \in {RowError, [item EXCEPT !.type = "note"],
                                RequiredPassword(record, "password", login)}
  BY DEF NordPassItem
<1>3. /\ item \in ImportItems(V) /\ item.type = "login"
      /\ \A field \in FieldNames : item[field] = IF field \in DOMAIN fields THEN fields[field] ELSE {}
  <2>. HIDE DEF fields
  <2>. QED  BY <1>1, FieldsOfItem
<1>4. /\ item.name = Cell(record, "name") /\ item.notes = Cell(record, "note")
      /\ item.folderPath = Cell(record, "folder") /\ item.extra = Cell(record, "custom_fields")
      /\ item.password = {}
  <2>. HIDE DEF item
  <2>. QED  BY <1>3 DEF FieldNames
<1>. HIDE DEF fields, item
<1>5. /\ login \in ImportItems(V) /\ login.type = "login" /\ login.password = {}
      /\ login.name = Cell(record, "name") /\ login.notes = Cell(record, "note")
      /\ login.folderPath = Cell(record, "folder") /\ login.extra = Cell(record, "custom_fields")
      /\ login.username = Cell(record, "username")
      /\ login.urls = Cells(record, {"url", "additional_urls"})
  BY <1>3, <1>4, CellOfRecord DEF ImportItems
<1>. HIDE DEF login
<1>6. \A c \in {"name", "note", "folder", "custom_fields"} :
          Held(record, c) \subseteq Everything(item)
  BY <1>4, HeldInCell, FieldLands
<1>7. \A c \in {"name", "note", "folder", "custom_fields", "username", "url", "additional_urls"} :
          Held(record, c) \subseteq Everything(login)
  BY <1>5, HeldInCell, FieldLands
<1>8. DOMAIN record.cells \ LeftBehind("nordpass-csv") \subseteq
          {"name", "note", "folder", "custom_fields", "username", "url", "additional_urls",
           "password"}
  BY DEF KnownRecord, ExportColumns, NordPassColumns, LeftBehind, CardColumns, IdentityColumns
<1>9. Keeps("nordpass-csv", record, [item EXCEPT !.type = "note"])
  BY <1>3, <1>4, <1>6, NoteKeeps DEF NoteKeys
<1>10. Keeps("nordpass-csv", record, RequiredPassword(record, "password", login))
  BY <1>5, <1>7, <1>8, LoginKeeps
<1>. QED  BY <1>2, <1>9, <1>10, ErrorKeeps

\* Dashlane's parser of JSON does.
LEMMA DashlaneJsonKeeps ==
    ASSUME NEW record, KnownRecord("dashlane-json", record)
    PROVE  Keeps("dashlane-json", record, DashlaneJsonRecord(record))
<1>. DEFINE V == ValuesOf(record)
            fields == [name |-> FirstCell(record, <<"title", "name">>)]
            item == Fields(fields)
            note == [item EXCEPT !.notes = Cell(record, "content")]
            username == FirstCell(record, <<"login", "email">>)
            login == [item EXCEPT !.username = username,
                                  !.notes = Cell(record, "note"),
                                  !.folderPath = Cell(record, "category"),
                                  !.urls = FirstCell(record, <<"url", "domain">>),
                                  !.extra = Cell(record, "otpSecret") \cup
                                            (Cell(record, "email") \ username)]
<1>1. DOMAIN fields \subseteq FieldNames /\ \A field \in DOMAIN fields : fields[field] \subseteq V
  BY CellOfRecord DEF FieldNames
<1>2. DashlaneJsonRecord(record) \in {RowError, [note EXCEPT !.type = "note"],
                                      RequiredPassword(record, "password", login)}
  <2>1. [note EXCEPT !.type = "note"] = [item EXCEPT !.type = "note", !.notes = Cell(record, "content")]
    <3>. HIDE DEF item
    <3>. QED  OBVIOUS
  <2>. QED  BY <2>1 DEF DashlaneJsonRecord
<1>3. /\ item \in ImportItems(V) /\ item.type = "login"
      /\ \A field \in FieldNames : item[field] = IF field \in DOMAIN fields THEN fields[field] ELSE {}
  <2>. HIDE DEF fields
  <2>. QED  BY <1>1, FieldsOfItem
<1>4. item.name = FirstCell(record, <<"title", "name">>) /\ item.password = {}
  <2>. HIDE DEF item
  <2>. QED  BY <1>3 DEF FieldNames
<1>. HIDE DEF fields, item
<1>5. /\ Cell(record, "title") \subseteq FirstCell(record, <<"title", "name">>)
      /\ Cell(record, "login") \subseteq username
      /\ Cell(record, "url") \subseteq FirstCell(record, <<"url", "domain">>)
  <2>1. \A a, b : 1 \in DOMAIN <<a, b>> /\ DOMAIN <<a, b>> \subseteq Nat \ {0} /\ <<a, b>>[1] = a
    OBVIOUS
  <2>2. \A a, b : Cell(record, a) \subseteq FirstCell(record, <<a, b>>)
    BY <2>1, FirstCellHolds
  <2>. QED  BY <2>2
<1>6. username \subseteq V
  BY CellOfRecord
<1>. HIDE DEF username
<1>7. /\ login \in ImportItems(V) /\ login.type = "login" /\ login.password = {}
      /\ login.name = FirstCell(record, <<"title", "name">>) /\ login.username = username
      /\ login.notes = Cell(record, "note") /\ login.folderPath = Cell(record, "category")
      /\ login.urls = FirstCell(record, <<"url", "domain">>)
      /\ login.extra = Cell(record, "otpSecret") \cup (Cell(record, "email") \ username)
  BY <1>3, <1>4, <1>6, CellOfRecord DEF ImportItems
<1>8. /\ note \in ImportItems(V) /\ note.password = {} /\ note.notes = Cell(record, "content")
      /\ note.name = FirstCell(record, <<"title", "name">>)
  BY <1>3, <1>4, CellOfRecord DEF ImportItems
<1>. HIDE DEF login, note
<1>9. \A c \in {"title", "content"} : Held(record, c) \subseteq Everything(note)
  BY <1>5, <1>8, HeldInCell, FieldLands
<1>10. \A c \in {"title", "login", "note", "category", "url", "otpSecret"} :
          Held(record, c) \subseteq Everything(login)
  BY <1>5, <1>7, HeldInCell, FieldLands
<1>11. Held(record, "email") \subseteq Everything(login)
  <2>1. Cell(record, "email") \subseteq login.username \cup login.extra
    BY <1>7
  <2>2. Cell(record, "email") \subseteq Everything(login)
    BY <2>1 DEF Everything
  <2>. QED  BY <2>2, HeldInCell
<1>12. Keeps("dashlane-json", record, [note EXCEPT !.type = "note"])
  BY <1>8, <1>9, NoteKeeps DEF NoteKeys
<1>13. Keeps("dashlane-json", record, RequiredPassword(record, "password", login))
  <2>1. CASE Cell(record, "password") = {}
    BY <2>1 DEF RequiredPassword, Keeps
  <2>2. CASE Cell(record, "password") # {}
    <3>1. "password" \in DOMAIN record.cells
      BY <2>2 DEF Cell, Value
    <3>2. DOMAIN record.cells \ LeftBehind("dashlane-json") \subseteq
              {"title", "login", "email", "password", "note", "category", "url", "otpSecret"}
      BY <3>1 DEF KnownRecord, ExportColumns, LeftBehind
    <3>. QED  BY <1>7, <1>10, <1>11, <3>2, LoginKeeps
  <2>. QED  BY <2>1, <2>2
<1>. QED  BY <1>2, <1>12, <1>13, ErrorKeeps

\* Proton Pass's parser does.
LEMMA ProtonPassKeeps ==
    ASSUME NEW record, KnownRecord("protonpass-json", record)
    PROVE  Keeps("protonpass-json", record, ProtonPassItem(record))
<1>. DEFINE V == ValuesOf(record)
            fields == [name |-> Cell(record, "name"), notes |-> Cell(record, "note"),
                       folderPath |-> Cell(record, "vault"),
                       extra |-> Cell(record, "extraFields")]
            item == Fields(fields)
            username == FirstCell(record, <<"itemUsername", "itemEmail">>)
            login == [item EXCEPT !.username = username,
                                  !.urls = Cell(record, "urls"),
                                  !.extra = @ \cup (Cell(record, "itemEmail") \ username)
                                              \cup Cells(record, {"totpUri", "passkeys"})]
<1>1. DOMAIN fields \subseteq FieldNames /\ \A field \in DOMAIN fields : fields[field] \subseteq V
  BY CellOfRecord DEF FieldNames
<1>2. ProtonPassItem(record) \in {RowError, [item EXCEPT !.type = "note"],
                                  RequiredPassword(record, "password", login)}
  BY DEF ProtonPassItem
<1>3. /\ item \in ImportItems(V) /\ item.type = "login"
      /\ \A field \in FieldNames : item[field] = IF field \in DOMAIN fields THEN fields[field] ELSE {}
  <2>. HIDE DEF fields
  <2>. QED  BY <1>1, FieldsOfItem
<1>4. /\ item.name = Cell(record, "name") /\ item.notes = Cell(record, "note")
      /\ item.folderPath = Cell(record, "vault") /\ item.extra = Cell(record, "extraFields")
      /\ item.password = {}
  <2>. HIDE DEF item
  <2>. QED  BY <1>3 DEF FieldNames
<1>. HIDE DEF fields, item
<1>5. Cell(record, "itemUsername") \subseteq username /\ username \subseteq V
  <2>1. \A a, b : 1 \in DOMAIN <<a, b>> /\ DOMAIN <<a, b>> \subseteq Nat \ {0} /\ <<a, b>>[1] = a
    OBVIOUS
  <2>. QED  BY <2>1, FirstCellHolds, CellOfRecord
<1>. HIDE DEF username
<1>6. /\ login \in ImportItems(V) /\ login.type = "login" /\ login.password = {}
      /\ login.name = Cell(record, "name") /\ login.notes = Cell(record, "note")
      /\ login.folderPath = Cell(record, "vault") /\ login.username = username
      /\ login.urls = Cell(record, "urls")
      /\ login.extra = Cell(record, "extraFields") \cup (Cell(record, "itemEmail") \ username)
                       \cup Cells(record, {"totpUri", "passkeys"})
  BY <1>3, <1>4, <1>5, CellOfRecord DEF ImportItems
<1>. HIDE DEF login
<1>7. \A c \in {"name", "note", "vault", "extraFields"} :
          Held(record, c) \subseteq Everything(item)
  BY <1>4, HeldInCell, FieldLands
<1>8. \A c \in {"name", "note", "vault", "itemUsername", "urls"} :
          Held(record, c) \subseteq Everything(login)
  BY <1>5, <1>6, HeldInCell, FieldLands
<1>9. \A c \in {"extraFields", "totpUri", "passkeys"} : Held(record, c) \subseteq Everything(login)
  <2>1. \A c \in {"extraFields", "totpUri", "passkeys"} : Cell(record, c) \subseteq login.extra
    BY <1>6, HeldInCell
  <2>. QED  BY <2>1, HeldInCell, FieldLands
<1>10. Held(record, "itemEmail") \subseteq Everything(login)
  <2>1. Cell(record, "itemEmail") \subseteq login.username \cup login.extra
    BY <1>6
  <2>2. Cell(record, "itemEmail") \subseteq Everything(login)
    BY <2>1 DEF Everything
  <2>. QED  BY <2>2, HeldInCell
<1>11. DOMAIN record.cells \ LeftBehind("protonpass-json") \subseteq
          {"name", "note", "vault", "itemUsername", "urls", "extraFields", "totpUri", "passkeys",
           "itemEmail", "password"}
  BY DEF KnownRecord, ExportColumns, LeftBehind
<1>12. Keeps("protonpass-json", record, [item EXCEPT !.type = "note"])
  BY <1>3, <1>4, <1>7, NoteKeeps DEF NoteKeys
<1>13. Keeps("protonpass-json", record, RequiredPassword(record, "password", login))
  BY <1>6, <1>8, <1>9, <1>10, <1>11, LoginKeeps
<1>. QED  BY <1>2, <1>12, <1>13, ErrorKeeps

\* Bitwarden's parser of CSV does.
LEMMA BitwardenCsvKeeps ==
    ASSUME NEW record, KnownRecord("bitwarden-csv", record)
    PROVE  Keeps("bitwarden-csv", record, BitwardenCsvItem(record))
<1>. DEFINE V == ValuesOf(record)
            extra == Cell(record, "fields") \cup Metadata(record, "reprompt")
            fields == [name |-> Cell(record, "name"), notes |-> Cell(record, "notes"),
                       favorite |-> Flag(record, "favorite"),
                       folderPath |-> Cell(record, "folder"), extra |-> extra]
            item == Fields(fields)
            login == [item EXCEPT !.username = Cell(record, "login_username"),
                                  !.urls = Cell(record, "login_uri"),
                                  !.extra = @ \cup Cell(record, "login_totp")]
<1>1. DOMAIN fields \subseteq FieldNames /\ \A field \in DOMAIN fields : fields[field] \subseteq V
  BY CellOfRecord DEF FieldNames
<1>2. BitwardenCsvItem(record) \in {RowError, [item EXCEPT !.type = "note"],
                                    RequiredPassword(record, "login_password", login)}
  BY DEF BitwardenCsvItem
<1>3. /\ item \in ImportItems(V) /\ item.type = "login"
      /\ \A field \in FieldNames : item[field] = IF field \in DOMAIN fields THEN fields[field] ELSE {}
  <2>. HIDE DEF fields
  <2>. QED  BY <1>1, FieldsOfItem
<1>4. /\ item.name = Cell(record, "name") /\ item.notes = Cell(record, "notes")
      /\ item.favorite = Flag(record, "favorite") /\ item.folderPath = Cell(record, "folder")
      /\ item.extra = extra /\ item.password = {}
  <2>. HIDE DEF item
  <2>. QED  BY <1>3 DEF FieldNames
<1>5. extra \subseteq V
  BY CellOfRecord
<1>6. Held(record, "fields") \subseteq extra /\ Held(record, "reprompt") \subseteq extra
  BY HeldInCell, MetadataHolds
<1>. HIDE DEF extra, fields, item
<1>7. /\ login \in ImportItems(V) /\ login.type = "login" /\ login.password = {}
      /\ login.name = Cell(record, "name") /\ login.notes = Cell(record, "notes")
      /\ login.favorite = Flag(record, "favorite") /\ login.folderPath = Cell(record, "folder")
      /\ login.username = Cell(record, "login_username") /\ login.urls = Cell(record, "login_uri")
      /\ login.extra = extra \cup Cell(record, "login_totp")
  BY <1>3, <1>4, <1>5, CellOfRecord DEF ImportItems
<1>. HIDE DEF login
<1>8. \A c \in {"name", "notes", "folder", "fields", "reprompt"} :
          Held(record, c) \subseteq Everything(item)
  BY <1>4, <1>6, HeldInCell, FieldLands
<1>9. \A c \in {"name", "notes", "folder", "login_username", "login_uri"} :
          Held(record, c) \subseteq Everything(login)
  BY <1>7, HeldInCell, FieldLands
<1>10. \A c \in {"fields", "reprompt", "login_totp"} : Held(record, c) \subseteq Everything(login)
  <2>1. \A c \in {"fields", "reprompt", "login_totp"} : Held(record, c) \subseteq login.extra
    BY <1>6, <1>7, HeldInCell
  <2>. QED  BY <2>1, FieldLands
<1>11. Held(record, "favorite") \subseteq Everything(login)
  BY <1>7, FlagHolds, FieldLands DEF KnownRecord
<1>12. DOMAIN record.cells \ LeftBehind("bitwarden-csv") \subseteq
          {"name", "notes", "folder", "login_username", "login_uri", "fields", "reprompt",
           "login_totp", "favorite", "login_password"}
  BY DEF KnownRecord, ExportColumns, LeftBehind
<1>13. Keeps("bitwarden-csv", record, [item EXCEPT !.type = "note"])
  BY <1>3, <1>4, <1>8, NoteKeeps DEF NoteKeys
<1>14. Keeps("bitwarden-csv", record, RequiredPassword(record, "login_password", login))
  BY <1>7, <1>9, <1>10, <1>11, <1>12, LoginKeeps
<1>. QED  BY <1>2, <1>13, <1>14, ErrorKeeps

\* Bitwarden's parser of JSON does.
LEMMA BitwardenJsonKeeps ==
    ASSUME NEW record, KnownRecord("bitwarden-json", record)
    PROVE  Keeps("bitwarden-json", record, BitwardenJsonItem(record))
<1>. DEFINE V == ValuesOf(record)
            folder == Cell(record, "folderOfId")
            extra == Cells(record, {"collectionIds", "fields"})
                     \cup Metadata(record, "reprompt")
                     \cup IF folder = {} THEN Cell(record, "folderId") ELSE {}
            fields == [name |-> Cell(record, "name"), notes |-> Cell(record, "notes"),
                       favorite |-> Flag(record, "favorite"),
                       folderPath |-> folder, extra |-> extra]
            item == Fields(fields)
            login == [item EXCEPT !.username = Cell(record, "username"),
                                  !.urls = Cell(record, "uris"),
                                  !.extra = @ \cup Cell(record, "totp")]
<1>1. extra \subseteq V /\ folder \subseteq V
  BY CellOfRecord
<1>2. DOMAIN fields \subseteq FieldNames /\ \A field \in DOMAIN fields : fields[field] \subseteq V
  <2>. HIDE DEF extra, folder
  <2>. QED  BY <1>1, CellOfRecord DEF FieldNames
<1>3. BitwardenJsonItem(record) \in {RowError, [item EXCEPT !.type = "note"],
                                     RequiredPassword(record, "password", login)}
  BY DEF BitwardenJsonItem
<1>4. /\ item \in ImportItems(V) /\ item.type = "login"
      /\ \A field \in FieldNames : item[field] = IF field \in DOMAIN fields THEN fields[field] ELSE {}
  <2>. HIDE DEF fields
  <2>. QED  BY <1>2, FieldsOfItem
<1>5. /\ Held(record, "collectionIds") \subseteq extra /\ Held(record, "fields") \subseteq extra
      /\ Held(record, "reprompt") \subseteq extra
  BY HeldInCell, MetadataHolds
<1>. HIDE DEF extra
<1>6. /\ item.name = Cell(record, "name") /\ item.notes = Cell(record, "notes")
      /\ item.favorite = Flag(record, "favorite") /\ item.folderPath = folder
      /\ item.extra = extra /\ item.password = {}
  <2>. HIDE DEF item, folder
  <2>. QED  BY <1>4 DEF FieldNames
<1>. HIDE DEF fields, item
<1>7. Held(record, "folderOfId") \subseteq folder
  BY HeldInCell
<1>. HIDE DEF folder
<1>8. /\ login \in ImportItems(V) /\ login.type = "login" /\ login.password = {}
      /\ login.name = Cell(record, "name") /\ login.notes = Cell(record, "notes")
      /\ login.favorite = Flag(record, "favorite") /\ login.folderPath = folder
      /\ login.username = Cell(record, "username") /\ login.urls = Cell(record, "uris")
      /\ login.extra = extra \cup Cell(record, "totp")
  BY <1>1, <1>4, <1>6, CellOfRecord DEF ImportItems
<1>. HIDE DEF login
<1>9. \A c \in {"name", "notes", "folderOfId", "collectionIds", "fields", "reprompt"} :
          Held(record, c) \subseteq Everything(item)
  BY <1>5, <1>6, <1>7, HeldInCell, FieldLands
<1>10. \A c \in {"name", "notes", "username", "uris", "folderOfId"} :
          Held(record, c) \subseteq Everything(login)
  BY <1>7, <1>8, HeldInCell, FieldLands
<1>11. \A c \in {"collectionIds", "fields", "reprompt", "totp"} :
           Held(record, c) \subseteq Everything(login)
  <2>1. \A c \in {"collectionIds", "fields", "reprompt", "totp"} :
            Held(record, c) \subseteq login.extra
    BY <1>5, <1>8, HeldInCell
  <2>. QED  BY <2>1, FieldLands
<1>12. Held(record, "favorite") \subseteq Everything(login)
  BY <1>8, FlagHolds, FieldLands DEF KnownRecord
<1>13. DOMAIN record.cells \ LeftBehind("bitwarden-json") \subseteq
          {"name", "notes", "username", "uris", "folderOfId", "collectionIds", "fields",
           "reprompt", "totp", "favorite", "password"}
  BY DEF KnownRecord, ExportColumns, LeftBehind
<1>14. Keeps("bitwarden-json", record, [item EXCEPT !.type = "note"])
  BY <1>4, <1>6, <1>9, NoteKeeps DEF NoteKeys
<1>15. Keeps("bitwarden-json", record, RequiredPassword(record, "password", login))
  BY <1>8, <1>10, <1>11, <1>12, <1>13, LoginKeeps
<1>. QED  BY <1>3, <1>14, <1>15, ErrorKeeps

\* 1Password's parser of archives does.
LEMMA OnePasswordKeeps ==
    ASSUME NEW record, KnownRecord("onepassword-1pux", record)
    PROVE  Keeps("onepassword-1pux", record, OnePasswordItem(record))
<1>. DEFINE V == ValuesOf(record)
            extra == Cells(record, {"sections", "tags", "account"})
                     \cup (Cell(record, "state") \ {<<"active">>})
            fields == [name |-> Cell(record, "title"), notes |-> Cell(record, "notesPlain"),
                       favorite |-> Metadata(record, "favIndex"),
                       folderPath |-> Cell(record, "vault"), extra |-> extra]
            item == Fields(fields)
            login == [item EXCEPT !.username = Cell(record, "username"),
                                  !.urls = FirstCell(record, <<"urls", "url">>),
                                  !.extra = @ \cup Cell(record, "otherFields")]
<1>1. extra \subseteq V
  BY CellOfRecord
<1>2. DOMAIN fields \subseteq FieldNames /\ \A field \in DOMAIN fields : fields[field] \subseteq V
  <2>. HIDE DEF extra
  <2>. QED  BY <1>1, CellOfRecord DEF FieldNames
<1>3. OnePasswordItem(record) \in {RowError, [item EXCEPT !.type = "note"],
                                   RequiredPassword(record, "password", login)}
  BY DEF OnePasswordItem
<1>4. /\ item \in ImportItems(V) /\ item.type = "login"
      /\ \A field \in FieldNames : item[field] = IF field \in DOMAIN fields THEN fields[field] ELSE {}
  <2>. HIDE DEF fields
  <2>. QED  BY <1>2, FieldsOfItem
<1>5. \A c \in {"sections", "tags", "account"} : Held(record, c) \subseteq extra
  BY HeldInCell
<1>. HIDE DEF extra
<1>6. /\ item.name = Cell(record, "title") /\ item.notes = Cell(record, "notesPlain")
      /\ item.favorite = Metadata(record, "favIndex") /\ item.folderPath = Cell(record, "vault")
      /\ item.extra = extra /\ item.password = {}
  <2>. HIDE DEF item
  <2>. QED  BY <1>4 DEF FieldNames
<1>. HIDE DEF fields, item
<1>7. Cell(record, "urls") \subseteq FirstCell(record, <<"urls", "url">>)
  <2>1. \A a, b : 1 \in DOMAIN <<a, b>> /\ DOMAIN <<a, b>> \subseteq Nat \ {0} /\ <<a, b>>[1] = a
    OBVIOUS
  <2>. QED  BY <2>1, FirstCellHolds
<1>8. /\ login \in ImportItems(V) /\ login.type = "login" /\ login.password = {}
      /\ login.name = Cell(record, "title") /\ login.notes = Cell(record, "notesPlain")
      /\ login.favorite = Metadata(record, "favIndex") /\ login.folderPath = Cell(record, "vault")
      /\ login.username = Cell(record, "username")
      /\ login.urls = FirstCell(record, <<"urls", "url">>)
      /\ login.extra = extra \cup Cell(record, "otherFields")
  BY <1>1, <1>4, <1>6, CellOfRecord DEF ImportItems
<1>. HIDE DEF login
<1>9. \A c \in {"title", "notesPlain", "vault", "sections", "tags", "account"} :
          Held(record, c) \subseteq Everything(item)
  BY <1>5, <1>6, HeldInCell, FieldLands
<1>10. \A c \in {"title", "notesPlain", "vault", "username", "urls"} :
          Held(record, c) \subseteq Everything(login)
  BY <1>7, <1>8, HeldInCell, FieldLands
<1>11. \A c \in {"sections", "tags", "account", "otherFields"} :
           Held(record, c) \subseteq Everything(login)
  <2>1. \A c \in {"sections", "tags", "account", "otherFields"} :
            Held(record, c) \subseteq login.extra
    BY <1>5, <1>8, HeldInCell
  <2>. QED  BY <2>1, FieldLands
<1>12. Held(record, "favIndex") \subseteq Everything(login)
  BY <1>8, MetadataHolds, FieldLands
<1>13. DOMAIN record.cells \ LeftBehind("onepassword-1pux") \subseteq
          {"title", "notesPlain", "vault", "username", "urls", "sections", "tags", "account",
           "otherFields", "favIndex", "password"}
  BY DEF KnownRecord, ExportColumns, LeftBehind
<1>14. Keeps("onepassword-1pux", record, [item EXCEPT !.type = "note"])
  BY <1>4, <1>6, <1>9, NoteKeeps DEF NoteKeys
<1>15. Keeps("onepassword-1pux", record, RequiredPassword(record, "password", login))
  BY <1>8, <1>10, <1>11, <1>12, <1>13, LoginKeeps
<1>. QED  BY <1>3, <1>14, <1>15, ErrorKeeps

\* A column that goes by one of two or three names in a header that has one.
LEMMA FirstColumnIs ==
    ASSUME NEW header, NEW names, DOMAIN names \subseteq Nat, NEW j \in DOMAIN names,
           names[j] \in {header[i] : i \in DOMAIN header},
           \A k \in DOMAIN names :
               names[k] \in {header[i] : i \in DOMAIN header} => names[k] = names[j]
    PROVE  FirstColumn(header, names) = names[j]
<1>. DEFINE found == {k \in DOMAIN names : HasColumns(header, {names[k]})}
<1>1. j \in found /\ found \in SUBSET Nat /\ \A k \in found : names[k] = names[j]
  BY DEF HasColumns
<1>2. FirstColumn(header, names) = IF found = {} THEN "" ELSE names[Min(found)]
  BY DEF FirstColumn
<1>. HIDE DEF found
<1>3. Min(found) \in found
  BY <1>1, MinIsLeast
<1>. QED  BY <1>1, <1>2, <1>3

\* 1Password's parser of CSV does, whichever columns hold the address and the note.
LEMMA OnePasswordCsvKeeps ==
    ASSUME NEW record, NEW header, KnownRecord("onepassword-csv", record),
           DOMAIN record.cells = {header[i] : i \in DOMAIN header}
    PROVE  Keeps("onepassword-csv", record, OnePasswordCsvItem(record, header))
<1>. DEFINE V == ValuesOf(record)
            notes == Cell(record, FirstColumn(header, <<"notes", "note">>))
            urls == Cell(record, FirstColumn(header, <<"url", "website", "urls">>))
            extra == Cells(record, {"otpauth", "tags"}) \cup Flag(record, "archived")
            fields == [name |-> Cell(record, "title"), username |-> Cell(record, "username"),
                       notes |-> notes, favorite |-> Flag(record, "favorite"),
                       urls |-> urls, extra |-> extra]
            item == Fields(fields)
<1>1. notes \subseteq V /\ urls \subseteq V /\ extra \subseteq V
  BY CellOfRecord
<1>2. DOMAIN fields \subseteq FieldNames /\ \A field \in DOMAIN fields : fields[field] \subseteq V
  <2>. HIDE DEF notes, urls, extra
  <2>. QED  BY <1>1, CellOfRecord DEF FieldNames
<1>3. OnePasswordCsvItem(record, header) = RequiredPassword(record, "password", item)
  BY DEF OnePasswordCsvItem
<1>4. /\ item \in ImportItems(V) /\ item.type = "login"
      /\ \A field \in FieldNames : item[field] = IF field \in DOMAIN fields THEN fields[field] ELSE {}
  <2>. HIDE DEF fields
  <2>. QED  BY <1>2, FieldsOfItem
<1>5. \A c \in {"otpauth", "tags", "archived"} : Held(record, c) \subseteq extra
  <2>1. Held(record, "archived") \subseteq Flag(record, "archived")
    BY FlagHolds DEF KnownRecord
  <2>. QED  BY <2>1, HeldInCell
<1>6. PICK address \in {"url", "website", "urls"}, note \in {"notes", "note"} :
          DOMAIN record.cells \subseteq {"title", "username", "password", "otpauth", "favorite",
                                         "archived", "tags", address, note}
  BY DEF KnownRecord, ExportColumns
<1>7. address \in DOMAIN record.cells => Cell(record, address) = urls
  <2>. DEFINE names == <<"url", "website", "urls">>
  <2>1. DOMAIN names = 1 .. 3 /\ names[1] = "url" /\ names[2] = "website" /\ names[3] = "urls"
    OBVIOUS
  <2>. HIDE DEF names
  <2>2. PICK j \in DOMAIN names : names[j] = address
    BY <2>1
  <2>3. \A k \in DOMAIN names : names[k] \in DOMAIN record.cells => names[k] = names[j]
    BY <1>6, <2>1, <2>2
  <2>4. address \in DOMAIN record.cells => FirstColumn(header, names) = address
    BY <2>1, <2>2, <2>3, FirstColumnIs
  <2>. QED  BY <2>4 DEF names
<1>8. note \in DOMAIN record.cells => Cell(record, note) = notes
  <2>. DEFINE names == <<"notes", "note">>
  <2>1. DOMAIN names = 1 .. 2 /\ names[1] = "notes" /\ names[2] = "note"
    OBVIOUS
  <2>. HIDE DEF names
  <2>2. PICK j \in DOMAIN names : names[j] = note
    BY <2>1
  <2>3. \A k \in DOMAIN names : names[k] \in DOMAIN record.cells => names[k] = names[j]
    BY <1>6, <2>1, <2>2
  <2>4. note \in DOMAIN record.cells => FirstColumn(header, names) = note
    BY <2>1, <2>2, <2>3, FirstColumnIs
  <2>. QED  BY <2>4 DEF names
<1>. HIDE DEF notes, urls, extra
<1>9. /\ item.name = Cell(record, "title") /\ item.username = Cell(record, "username")
      /\ item.notes = notes /\ item.favorite = Flag(record, "favorite")
      /\ item.urls = urls /\ item.extra = extra /\ item.password = {}
  <2>. HIDE DEF item
  <2>. QED  BY <1>4 DEF FieldNames
<1>. HIDE DEF fields, item
<1>10. \A c \in {"title", "username", "otpauth", "tags", "archived"} :
          Held(record, c) \subseteq Everything(item)
  BY <1>5, <1>9, HeldInCell, FieldLands
<1>11. Held(record, "favorite") \subseteq Everything(item)
  BY <1>9, FlagHolds, FieldLands DEF KnownRecord
<1>12. /\ address \in DOMAIN record.cells => Held(record, address) \subseteq Everything(item)
       /\ note \in DOMAIN record.cells => Held(record, note) \subseteq Everything(item)
  BY <1>7, <1>8, <1>9, HeldInCell, FieldLands
<1>13. \A c \in DOMAIN record.cells \ (LeftBehind("onepassword-csv") \cup {"password"}) :
          Held(record, c) \subseteq Everything(item)
  BY <1>6, <1>10, <1>11, <1>12
<1>. QED  BY <1>3, <1>4, <1>9, <1>13, LoginKeeps

\* The browsers' parser does, with the layout the header fits first.
LEMMA BrowserKeeps ==
    ASSUME NEW record, NEW header, KnownRecord("browser-csv", record),
           DOMAIN record.cells = {header[i] : i \in DOMAIN header}, ParseBrowserCsv(header)
    PROVE  Keeps("browser-csv", record, BrowserItem(record, header))
<1>. DEFINE fit == Fitting(BrowserLayouts, header)
            k == Min(fit)
            D == DOMAIN record.cells
<1>1. DOMAIN BrowserLayouts = 1 .. 3
  BY DEF BrowserLayouts
<1>2. k \in 1 .. 3 /\ BrowserLayouts[k].fingerprint \subseteq D
  <2>1. fit # {} /\ fit \in SUBSET Nat /\ (\A j \in fit : j \in 1 .. 3)
        /\ \A j \in fit : BrowserLayouts[j].fingerprint \subseteq D
    BY <1>1 DEF ParseBrowserCsv, Fitting, HasColumns
  <2>. HIDE DEF fit
  <2>2. Min(fit) \in fit
    BY <2>1, MinIsLeast
  <2>. QED  BY <2>1, <2>2
<1>. HIDE DEF k
<1>3. \/ D \subseteq {"url", "username", "password", "httprealm", "formactionorigin", "guid",
                      "timecreated", "timelastused", "timepasswordchanged"}
      \/ D \subseteq {"title", "url", "username", "password", "notes", "otpauth"}
      \/ D \subseteq {"name", "url", "username", "password", "note"}
  <2>1. ExportColumns("browser-csv") = {FirefoxColumns, SafariColumns, ChromiumColumns}
    BY DEF ExportColumns
  <2>. QED  BY <2>1 DEF KnownRecord, FirefoxColumns, SafariColumns, ChromiumColumns
<1>4. BrowserItem(record, header) = LayoutItem(record, BrowserLayouts[k])
  BY DEF BrowserItem, k
<1>5. LeftBehind("browser-csv") =
          {"formactionorigin", "guid", "timecreated", "timelastused", "timepasswordchanged"}
  BY DEF LeftBehind
<1>. HIDE DEF D
<1>6. ASSUME NEW layout, layout = BrowserLayouts[k],
             1 \in DOMAIN layout.name, DOMAIN layout.name \subseteq Nat \ {0},
             D \ LeftBehind("browser-csv") \subseteq
                 {layout.name[1], layout.username, layout.password, layout.url, layout.notes,
                  layout.folder} \cup layout.carry
      PROVE  Keeps("browser-csv", record, BrowserItem(record, header))
  BY <1>4, <1>6, LayoutKeepsAll DEF D
<1>7. CASE k = 1
  <2>. DEFINE layout == BrowserLayouts[1]
  <2>1. /\ "httprealm" \in layout.fingerprint /\ layout.name = <<"url">>
        /\ layout.username = "username" /\ layout.password = "password" /\ layout.url = "url"
        /\ layout.carry = {"httprealm"}
    BY DEF BrowserLayouts
  <2>. HIDE DEF layout
  <2>2. D \ LeftBehind("browser-csv") \subseteq {"url", "username", "password", "httprealm"}
    BY <1>2, <1>3, <1>5, <1>7, <2>1 DEF layout
  <2>3. 1 \in DOMAIN layout.name /\ DOMAIN layout.name \subseteq Nat \ {0}
    BY <2>1
  <2>4. D \ LeftBehind("browser-csv") \subseteq
            {layout.name[1], layout.username, layout.password, layout.url, layout.notes,
             layout.folder} \cup layout.carry
    BY <2>1, <2>2
  <2>. QED  BY <1>6, <1>7, <2>3, <2>4 DEF layout
<1>8. CASE k = 2
  <2>. DEFINE layout == BrowserLayouts[2]
  <2>1. /\ "title" \in layout.fingerprint /\ layout.name = <<"title", "url">>
        /\ layout.username = "username" /\ layout.password = "password" /\ layout.url = "url"
        /\ layout.notes = "notes" /\ layout.carry = {"otpauth"}
    BY DEF BrowserLayouts
  <2>. HIDE DEF layout
  <2>2. D \subseteq {"title", "url", "username", "password", "notes", "otpauth"}
    BY <1>2, <1>3, <1>8, <2>1 DEF layout
  <2>3. 1 \in DOMAIN layout.name /\ DOMAIN layout.name \subseteq Nat \ {0}
        /\ layout.name[1] = "title"
    BY <2>1
  <2>4. D \ LeftBehind("browser-csv") \subseteq
            {layout.name[1], layout.username, layout.password, layout.url, layout.notes,
             layout.folder} \cup layout.carry
    BY <2>1, <2>2, <2>3
  <2>. QED  BY <1>6, <1>8, <2>3, <2>4 DEF layout
<1>9. CASE k = 3
  <2>. DEFINE layout == BrowserLayouts[3]
  <2>1. /\ "name" \in layout.fingerprint /\ layout.name = <<"name", "url">>
        /\ layout.username = "username" /\ layout.password = "password" /\ layout.url = "url"
        /\ layout.notes = "note"
    BY DEF BrowserLayouts
  <2>. HIDE DEF layout
  <2>2. D \subseteq {"name", "url", "username", "password", "note"}
    BY <1>2, <1>3, <1>9, <2>1 DEF layout
  <2>3. 1 \in DOMAIN layout.name /\ DOMAIN layout.name \subseteq Nat \ {0}
        /\ layout.name[1] = "name"
    BY <2>1
  <2>4. D \ LeftBehind("browser-csv") \subseteq
            {layout.name[1], layout.username, layout.password, layout.url, layout.notes,
             layout.folder} \cup layout.carry
    BY <2>1, <2>2, <2>3
  <2>. QED  BY <1>6, <1>9, <2>3, <2>4 DEF layout
<1>. QED  BY <1>2, <1>7, <1>8, <1>9

\* KeePass's parser does, with either layout.
LEMMA KeePassKeeps ==
    ASSUME NEW record, NEW header, KnownRecord("keepass-csv", record),
           DOMAIN record.cells = {header[i] : i \in DOMAIN header}, ParseKeePassCsv(header)
    PROVE  Keeps("keepass-csv", record, KeePassItem(record, header))
<1>. DEFINE fit == Fitting(KeePassLayouts, header)
            k == Min(fit)
            D == DOMAIN record.cells
            dropped == {"icon", "last modified", "created"}
            carried == {"group", "title", "username", "password", "url", "notes", "totp"}
            newer == carried \cup dropped
            older == KeePassColumns
<1>1. DOMAIN KeePassLayouts = 1 .. 2
  BY DEF KeePassLayouts
<1>2. k \in 1 .. 2 /\ KeePassLayouts[k].fingerprint \subseteq D
  <2>1. fit # {} /\ fit \in SUBSET Nat /\ (\A j \in fit : j \in 1 .. 2)
        /\ \A j \in fit : KeePassLayouts[j].fingerprint \subseteq D
    BY <1>1 DEF ParseKeePassCsv, Fitting, HasColumns
  <2>. HIDE DEF fit
  <2>2. Min(fit) \in fit
    BY <2>1, MinIsLeast
  <2>. QED  BY <2>1, <2>2
<1>. HIDE DEF k
<1>3. D \subseteq newer \/ D \subseteq older
  <2>1. ExportColumns("keepass-csv") = {KeePassXCColumns, KeePassColumns}
    BY DEF ExportColumns
  <2>2. KeePassXCColumns \subseteq newer
    BY DEF KeePassXCColumns
  <2>. HIDE DEF newer
  <2>. QED  BY <2>1, <2>2 DEF KnownRecord, D
<1>4. KeePassItem(record, header) = LayoutItem(record, KeePassLayouts[k])
  BY DEF KeePassItem, k
<1>5. "group" \notin older /\ "account" \notin newer
  BY Zenon DEF KeePassColumns
<1>. HIDE DEF D
<1>6. ASSUME NEW layout, layout = KeePassLayouts[k],
             1 \in DOMAIN layout.name, DOMAIN layout.name \subseteq Nat \ {0},
             D \ dropped \subseteq {layout.name[1], layout.username, layout.password, layout.url,
                                   layout.notes, layout.folder} \cup layout.carry
      PROVE  Keeps("keepass-csv", record, KeePassItem(record, header))
  <2>1. LeftBehind("keepass-csv") = dropped
    BY DEF LeftBehind
  <2>2. Keeps("keepass-csv", record, LayoutItem(record, layout))
    <3>. HIDE DEF dropped
    <3>. QED  BY <1>6, <2>1, LayoutKeepsAll DEF D
  <2>. QED  BY <1>4, <1>6, <2>2
<1>7. CASE k = 1
  <2>. DEFINE layout == KeePassLayouts[1]
  <2>1. /\ "group" \in layout.fingerprint /\ layout.name = <<"title">>
        /\ layout.username = "username" /\ layout.password = "password" /\ layout.url = "url"
        /\ layout.notes = "notes" /\ layout.folder = "group" /\ layout.carry = {"totp"}
    BY DEF KeePassLayouts
  <2>. HIDE DEF layout
  <2>2. D \subseteq newer
    <3>. HIDE DEF newer, older
    <3>. QED  BY <1>2, <1>3, <1>5, <1>7, <2>1 DEF layout
  <2>3. 1 \in DOMAIN layout.name /\ DOMAIN layout.name \subseteq Nat \ {0}
        /\ layout.name[1] = "title"
    BY <2>1
  <2>4. carried = {layout.name[1], layout.username, layout.password, layout.url,
                   layout.notes, layout.folder} \cup layout.carry
    BY <2>1, <2>3
  <2>5. D \ dropped \subseteq carried
    <3>. HIDE DEF carried, dropped
    <3>. QED  BY <2>2 DEF newer
  <2>. QED  BY <1>6, <1>7, <2>3, <2>4, <2>5 DEF layout
<1>8. CASE k = 2
  <2>. DEFINE layout == KeePassLayouts[2]
  <2>1. layout.fingerprint = older
    BY DEF KeePassLayouts, KeePassColumns
  <2>2. /\ layout.username = "login name" /\ layout.password = "password"
        /\ layout.url = "web site" /\ layout.notes = "comments"
    BY DEF KeePassLayouts
  <2>0. layout.name = <<"account">>
    BY DEF KeePassLayouts
  <2>. HIDE DEF layout
  <2>3. 1 \in DOMAIN layout.name /\ DOMAIN layout.name \subseteq Nat \ {0}
        /\ layout.name[1] = "account"
    BY <2>0
  <2>4. older = {layout.name[1], layout.username, layout.password, layout.url, layout.notes}
    BY <2>2, <2>3, Zenon DEF KeePassColumns
  <2>5. "account" \in older
    BY Zenon DEF KeePassColumns
  <2>. HIDE DEF older, newer
  <2>6. D \subseteq older
    BY <1>2, <1>3, <1>5, <1>8, <2>1, <2>5 DEF layout
  <2>7. D \ dropped \subseteq {layout.name[1], layout.username, layout.password, layout.url,
                              layout.notes, layout.folder} \cup layout.carry
    <3>. HIDE DEF dropped
    <3>. QED  BY <2>4, <2>6
  <2>. QED  BY <1>6, <1>8, <2>3, <2>7 DEF layout
<1>. QED  BY <1>2, <1>7, <1>8

\* Dashlane's parser of CSV does.
LEMMA DashlaneCsvKeeps ==
    ASSUME NEW record, KnownRecord("dashlane-csv", record)
    PROVE  Keeps("dashlane-csv", record, DashlaneCsvItem(record))
<1>. DEFINE layout ==
            [name |-> <<"title">>, username |-> "username", password |-> "password",
             url |-> "url", notes |-> "note", folder |-> "category",
             carry |-> {"username2", "username3", "otpsecret"}]
<1>1. /\ 1 \in DOMAIN layout.name /\ DOMAIN layout.name \subseteq Nat \ {0}
      /\ layout.name[1] = "title"
  OBVIOUS
<1>2. DOMAIN record.cells \ LeftBehind("dashlane-csv") \subseteq
          {layout.name[1], layout.username, layout.password, layout.url, layout.notes,
           layout.folder} \cup layout.carry
  BY <1>1 DEF KnownRecord, ExportColumns
<1>3. DashlaneCsvItem(record) = LayoutItem(record, layout)
  BY DEF DashlaneCsvItem
<1>. HIDE DEF layout
<1>. QED  BY <1>1, <1>2, <1>3, LayoutKeepsAll

\* Keeper's parser of JSON does.
LEMMA KeeperJsonKeeps ==
    ASSUME NEW record, KnownRecord("keeper-json", record)
    PROVE  Keeps("keeper-json", record, KeeperJsonRecord(record))
<1>. DEFINE layout ==
            [name |-> <<"title">>, username |-> "login", password |-> "password",
             url |-> "login_url", notes |-> "notes", folder |-> "folders",
             carry |-> {"otherFolders", "custom_fields"}]
<1>1. /\ 1 \in DOMAIN layout.name /\ DOMAIN layout.name \subseteq Nat \ {0}
      /\ layout.name[1] = "title"
  OBVIOUS
<1>2. DOMAIN record.cells \ LeftBehind("keeper-json") \subseteq
          {layout.name[1], layout.username, layout.password, layout.url, layout.notes,
           layout.folder} \cup layout.carry
  BY <1>1 DEF KnownRecord, ExportColumns
<1>3. KeeperJsonRecord(record) = LayoutItem(record, layout)
  BY DEF KeeperJsonRecord
<1>. HIDE DEF layout
<1>. QED  BY <1>1, <1>2, <1>3, LayoutKeepsAll

\* The columns of a Keeper CSV.
LEMMA KeeperColumnSet ==
    {KeeperPositions[i] : i \in DOMAIN KeeperPositions} =
        {"folder", "title", "login", "password", "url", "notes", "customName", "customValue"}
<1>. DEFINE S == {"folder", "title", "login", "password", "url", "notes", "customName",
                  "customValue"}
            more == <<"customName", "customValue">>
            columns == KeeperPositions
<1>0. KeeperColumns \in Seq(S) /\ Len(KeeperColumns) = 6
  BY DEF KeeperColumns
<1>1. /\ KeeperColumns[1] = "folder"
      /\ KeeperColumns[2] = "title" /\ KeeperColumns[3] = "login"
      /\ KeeperColumns[4] = "password" /\ KeeperColumns[5] = "url"
      /\ KeeperColumns[6] = "notes"
  BY DEF KeeperColumns
<1>2. more \in Seq(S) /\ Len(more) = 2
  OBVIOUS
<1>10. more[1] = "customName" /\ more[2] = "customValue"
  OBVIOUS
<1>3. columns = KeeperColumns \o more
  BY DEF KeeperPositions
<1>. HIDE DEF more, columns, S
<1>11. /\ columns \in Seq(S) /\ Len(columns) = Len(KeeperColumns) + Len(more)
       /\ \A i \in 1 .. Len(KeeperColumns) + Len(more) :
              columns[i] = IF i <= Len(KeeperColumns) THEN KeeperColumns[i]
                           ELSE more[i - Len(KeeperColumns)]
  BY <1>0, <1>2, <1>3, ConcatProperties, Zenon
<1>12. columns \in Seq(S) /\ Len(columns) = 8
  BY <1>0, <1>2, <1>11
<1>4. \A i \in 1 .. 8 : columns[i] = IF i <= 6 THEN KeeperColumns[i] ELSE more[i - 6]
  BY <1>0, <1>2, <1>11
<1>5. /\ columns[1] = "folder" /\ columns[2] = "title" /\ columns[3] = "login"
      /\ columns[4] = "password" /\ columns[5] = "url" /\ columns[6] = "notes"
      /\ columns[7] = "customName" /\ columns[8] = "customValue"
  BY <1>1, <1>10, <1>4
<1>6. DOMAIN columns = 1 .. 8
  BY <1>12
<1>7. {columns[i] : i \in DOMAIN columns} \subseteq S
  <2>1. \A i \in DOMAIN columns : columns[i] \in S
    BY <1>12, <1>6, ElementOfSeq
  <2>. QED  BY <2>1, Zenon
<1>8. S \subseteq {columns[i] : i \in DOMAIN columns}
  <2>1. /\ 1 \in DOMAIN columns /\ 2 \in DOMAIN columns /\ 3 \in DOMAIN columns
        /\ 4 \in DOMAIN columns /\ 5 \in DOMAIN columns /\ 6 \in DOMAIN columns
        /\ 7 \in DOMAIN columns /\ 8 \in DOMAIN columns
    BY <1>6
  <2>. QED  BY <1>5, <2>1 DEF S
<1>9. {columns[i] : i \in DOMAIN columns} = S
  BY <1>7, <1>8
<1>. QED  BY <1>9 DEF columns, S

\* Keeper's parser of CSV does.
LEMMA KeeperCsvKeeps ==
    ASSUME NEW record,
           DOMAIN record.cells = {KeeperPositions[i] : i \in DOMAIN KeeperPositions}
    PROVE  Keeps("keeper-csv", record, KeeperCsvRecord(record))
<1>. DEFINE layout ==
            [name |-> <<"title">>, username |-> "login", password |-> "password", url |-> "url",
             notes |-> "notes", folder |-> "folder", carry |-> {"customName", "customValue"}]
<1>1. /\ 1 \in DOMAIN layout.name /\ DOMAIN layout.name \subseteq Nat \ {0}
      /\ layout.name[1] = "title"
  OBVIOUS
<1>2. DOMAIN record.cells \ LeftBehind("keeper-csv") \subseteq
          {layout.name[1], layout.username, layout.password, layout.url, layout.notes,
           layout.folder} \cup layout.carry
  BY <1>1, KeeperColumnSet
<1>3. KeeperCsvRecord(record) = LayoutItem(record, layout)
  BY DEF KeeperCsvRecord
<1>. HIDE DEF layout
<1>. QED  BY <1>1, <1>2, <1>3, LayoutKeepsAll
-----------------------------------------------------------------------------
(***************************************************************************)
(* Nothing is lost.                                                        *)
(***************************************************************************)

\* The records of a file are the same whatever the mapping of its columns.
LEMMA ParsedParts ==
    ASSUME NEW f, NEW fmt, NEW map
    PROVE  /\ Parsed(f, fmt, map).records = Parsed(f, fmt, SuggestMapping(<<>>)).records
           /\ fmt # "keeper-csv" => Parsed(f, fmt, map).header = HeaderOf(ParseCsv(f.text))
<1>1. Parsed(f, fmt, map).records = Parsed(f, fmt, SuggestMapping(<<>>)).records
  BY Zenon DEF Parsed
<1>2. fmt # "keeper-csv" => Parsed(f, fmt, map).header = HeaderOf(ParseCsv(f.text))
  BY DEF Parsed
<1>. QED  BY <1>1, <1>2

\* The columns of a CSV's records are those of its header, or Keeper's.
LEMMA ColumnsOfRecords ==
    ASSUME NEW f, NEW fmt, fmt \notin JsonFormats \cup {"onepassword-1pux"}, NEW map,
           NEW r \in DOMAIN Parsed(f, fmt, map).records
    PROVE  LET header == HeaderOf(ParseCsv(f.text))
               columns == DOMAIN Parsed(f, fmt, map).records[r].cells IN
           /\ fmt = "keeper-csv" =>
                  columns = {KeeperPositions[i] : i \in DOMAIN KeeperPositions}
           /\ fmt # "keeper-csv" => columns = {header[i] : i \in DOMAIN header}
<1>. DEFINE table == IF fmt = "keeper-csv" THEN ParseCsvRecords(f.text) ELSE ParseCsv(f.text)
            records == Parsed(f, fmt, map).records
<1>1. records = CsvRecords(table, fmt = "keeper-csv")
  BY DEF Parsed
<1>2. r \in DOMAIN table.rows
  BY <1>1 DEF CsvRecords
<1>3. records[r].cells =
          IF fmt = "keeper-csv" THEN ByName(table.rows[r], KeeperPositions)
          ELSE ByName(table.rows[r], HeaderOf(table))
  BY <1>1, <1>2 DEF CsvRecords
<1>. HIDE DEF records
<1>4. \A row, names : DOMAIN ByName(row, names) = {names[i] : i \in DOMAIN names}
  BY DEF ByName
<1>5. ASSUME fmt = "keeper-csv"
      PROVE  DOMAIN records[r].cells = {KeeperPositions[i] : i \in DOMAIN KeeperPositions}
  BY <1>3, <1>4, <1>5
<1>6. ASSUME fmt # "keeper-csv"
      PROVE  LET header == HeaderOf(ParseCsv(f.text))
             IN  DOMAIN records[r].cells = {header[i] : i \in DOMAIN header}
  BY <1>3, <1>4, <1>6, Zenon
<1>. QED  BY <1>5, <1>6 DEF records

\* A file is read by Keeper's parser, with a mapping of its columns, or by the
\* parser it was recognised for; each keeps what it should of a record.
LEMMA OutcomeKeeps ==
    ASSUME ExportsAreKnown, ReaderInv, file \in Files, phase = "done", RightReader,
           NEW r \in 1 .. at
    PROVE  Keeps(format, result.records[r], OutcomeAt(r))
<1>. DEFINE record == result.records[r]
            header == HeaderOf(ParseCsv(file.text))
<1>1. /\ result = Parsed(file, format, mapping) /\ result.accepted
      /\ at = Len(result.records) /\ evidence = Probe(file) /\ format \in MANUAL_FORMATS
      /\ DOMAIN mapping.placed = DOMAIN Candidates
      /\ {evidence.header[i] : i \in DOMAIN evidence.header} \subseteq
             mapping.custom \cup {mapping.placed[field] : field \in DOMAIN mapping.placed}
  BY DEF ReaderInv, RecordsInv, MappingInv
<1>2. r \in DOMAIN result.records
  BY <1>1, ParsedRecords, ListPlaces
<1>3. evidence.header = header
  BY <1>1 DEF Probe
<1>4. format \in {"keeper-csv", "generic-csv", Detect(evidence)}
  BY DEF RightReader
<1>5. format # "keeper-csv" => result.header = header
  BY <1>1, ParsedParts
<1>6. format \notin JsonFormats \cup {"onepassword-1pux"} =>
          /\ format = "keeper-csv" =>
                 DOMAIN record.cells = {KeeperPositions[i] : i \in DOMAIN KeeperPositions}
          /\ format # "keeper-csv" => DOMAIN record.cells = {header[i] : i \in DOMAIN header}
  <2>. DEFINE parsed == Parsed(file, format, mapping)
  <2>1. r \in DOMAIN parsed.records /\ record = parsed.records[r]
    BY <1>1, <1>2, Zenon
  <2>2. format \notin JsonFormats \cup {"onepassword-1pux"} =>
            /\ format = "keeper-csv" =>
                   DOMAIN parsed.records[r].cells =
                       {KeeperPositions[i] : i \in DOMAIN KeeperPositions}
            /\ format # "keeper-csv" =>
                   DOMAIN parsed.records[r].cells = {header[i] : i \in DOMAIN header}
    BY <2>1, ColumnsOfRecords, Zenon
  <2>. HIDE DEF parsed, header, record
  <2>. QED  BY <2>1, <2>2, Zenon
<1>. HIDE DEF header
<1>7. CASE record.flaw # "none"
  BY <1>7, ErrorKeeps DEF OutcomeAt, Outcome
<1>8. CASE record.flaw = "none" /\ format = "keeper-csv"
  <2>1. OutcomeAt(r) = KeeperCsvRecord(record)
    BY <1>8 DEF OutcomeAt, Outcome
  <2>2. DOMAIN record.cells = {KeeperPositions[i] : i \in DOMAIN KeeperPositions}
    BY <1>6, <1>8 DEF JsonFormats
  <2>. QED  BY <1>8, <2>1, <2>2, KeeperCsvKeeps
<1>9. CASE record.flaw = "none" /\ format = "generic-csv"
  <2>1. OutcomeAt(r) = GenericRow(record, mapping)
    BY <1>9 DEF OutcomeAt, Outcome
  <2>2. DOMAIN record.cells = {header[i] : i \in DOMAIN header}
    BY <1>6, <1>9 DEF JsonFormats
  <2>. QED  BY <1>1, <1>3, <1>9, <2>1, <2>2, GenericKeeps
<1>10. CASE record.flaw = "none" /\ format \notin {"keeper-csv", "generic-csv"}
  <2>1. KnownRecord(format, record)
    <3>1. format = Detect(Probe(file)) /\ format # "generic-csv"
      BY <1>1, <1>4, <1>10
    <3>2. result.records = Parsed(file, format, SuggestMapping(<<>>)).records
      BY <1>1, ParsedParts
    <3>. QED  BY <1>2, <3>1, <3>2 DEF ExportsAreKnown
  <2>2. /\ format = "browser-csv" => ParseBrowserCsv(header)
        /\ format = "keepass-csv" => ParseKeePassCsv(header)
    BY <1>1, <1>10, AcceptedBy DEF header
  <2>3. format \in {"browser-csv", "keepass-csv", "onepassword-csv"} =>
            result.header = header /\ DOMAIN record.cells = {header[i] : i \in DOMAIN header}
    BY <1>5, <1>6 DEF JsonFormats
  <2>. HIDE DEF record
  <2>4. OutcomeAt(r) = Outcome(format, record, result.header, mapping)
    BY DEF OutcomeAt, record
  <2>5. /\ format = "lastpass-csv" => Keeps(format, record, LastPassItem(record))
        /\ format = "nordpass-csv" => Keeps(format, record, NordPassItem(record))
        /\ format = "dashlane-json" => Keeps(format, record, DashlaneJsonRecord(record))
        /\ format = "protonpass-json" => Keeps(format, record, ProtonPassItem(record))
        /\ format = "bitwarden-csv" => Keeps(format, record, BitwardenCsvItem(record))
        /\ format = "bitwarden-json" => Keeps(format, record, BitwardenJsonItem(record))
        /\ format = "onepassword-1pux" => Keeps(format, record, OnePasswordItem(record))
        /\ format = "dashlane-csv" => Keeps(format, record, DashlaneCsvItem(record))
        /\ format = "keeper-json" => Keeps(format, record, KeeperJsonRecord(record))
    BY <2>1, LastPassKeeps, NordPassKeeps, DashlaneJsonKeeps, ProtonPassKeeps,
       BitwardenCsvKeeps, BitwardenJsonKeeps, OnePasswordKeeps, DashlaneCsvKeeps, KeeperJsonKeeps
  <2>6. /\ format = "browser-csv" => Keeps(format, record, BrowserItem(record, result.header))
        /\ format = "keepass-csv" => Keeps(format, record, KeePassItem(record, result.header))
        /\ format = "onepassword-csv" =>
               Keeps(format, record, OnePasswordCsvItem(record, result.header))
    BY <2>1, <2>2, <2>3, BrowserKeeps, KeePassKeeps, OnePasswordCsvKeeps
  <2>. QED  BY <1>1, <1>10, <2>4, <2>5, <2>6 DEF Outcome, MANUAL_FORMATS, record
<1>. QED  BY <1>7, <1>8, <1>9, <1>10

\* What a record holds beside what its format leaves behind lands in its item,
\* a note's login columns apart.
LEMMA KeptLands ==
    ASSUME NEW fmt, NEW record, NEW outcome, Keeps(fmt, record, outcome), ~IsRowError(outcome),
           NEW c \in DOMAIN record.cells \ LeftBehind(fmt)
    PROVE  LET plaintext == ToItemPlaintext(outcome) IN
           \/ record.cells[c] \in No
           \/ record.cells[c] \in Landed(plaintext)
           \/ plaintext.type = "note" /\ fmt # "generic-csv" /\ c \notin NoteKeys(fmt)
<1>1. outcome # RowError
  BY DEF IsRowError, RowError
<1>2. outcome \in ImportItems(ValuesOf(record))
  BY <1>1 DEF Keeps
<1>3. Landed(ToItemPlaintext(outcome)) = Everything(outcome)
  BY <1>2, EverythingLands
<1>4. record.cells[c] \notin No => record.cells[c] \in Held(record, c)
  BY DEF Held, Cell, Value, No
<1>5. outcome.type = "note" /\ outcome.password = {} => ToItemPlaintext(outcome).type = "note"
  BY <1>2 DEF ToItemPlaintext, ImportItems
<1>6. CASE /\ outcome.type = "note" /\ outcome.password = {} /\ fmt # "generic-csv"
           /\ \A k \in NoteKeys(fmt) \ LeftBehind(fmt) :
                  Held(record, k) \subseteq Everything(outcome)
  BY <1>3, <1>4, <1>5, <1>6
<1>7. CASE \A k \in DOMAIN record.cells \ LeftBehind(fmt) :
               Held(record, k) \subseteq Everything(outcome)
  BY <1>3, <1>4, <1>7
<1>. QED  BY <1>1, <1>6, <1>7 DEF Keeps

\* When the records of the exports are as their exporters write them, every value
\* of a record that is imported lands in its item: with the detected parser, with
\* Keeper's, and with any mapping of the columns.
THEOREM NothingIsLost ==
    ASSUME ExportsAreKnown
    PROVE  Spec => []NothingLost
<1>1. ASSUME ReaderInv, file \in Files, phase = "done", RightReader, NEW k \in DOMAIN items
      PROVE  LET record == result.records[CHOOSE r \in DOMAIN result.records :
                                              result.records[r].line = items[k].line]
                 isNote == items[k].plaintext.type = "note"
             IN  \A c \in DOMAIN record.cells \ LeftBehind(format) :
                     \/ record.cells[c] \in No
                     \/ record.cells[c] \in Landed(items[k].plaintext)
                     \/ isNote /\ format # "generic-csv" /\ c \notin NoteKeys(format)
  <2>1. PICK r \in 1 .. at : ~IsRowError(OutcomeAt(r)) /\ items[k] = ItemOf(r)
    BY <1>1 DEF ReaderInv
  <2>2. /\ items[k].line = result.records[r].line
        /\ items[k].plaintext = ToItemPlaintext(OutcomeAt(r))
    BY <2>1 DEF ItemOf
  <2>3. DOMAIN result.records = 1 .. at
    BY <1>1, ParsedRecords, ListPlaces DEF ReaderInv, RecordsInv
  <2>4. \A j \in 1 .. at : result.records[j].line = result.records[r].line => j = r
    BY <1>1, ParsedLines DEF ReaderInv, RecordsInv
  <2>5. (CHOOSE j \in DOMAIN result.records : result.records[j].line = items[k].line) = r
    BY <2>2, <2>3, <2>4
  <2>6. Keeps(format, result.records[r], OutcomeAt(r))
    BY <1>1, OutcomeKeeps
  <2>7. \A c \in DOMAIN result.records[r].cells \ LeftBehind(format) :
            \/ result.records[r].cells[c] \in No
            \/ result.records[r].cells[c] \in Landed(items[k].plaintext)
            \/ /\ items[k].plaintext.type = "note" /\ format # "generic-csv"
               /\ c \notin NoteKeys(format)
    BY <2>1, <2>2, <2>6, KeptLands
  <2>. QED  BY <2>5, <2>7, Zenon
<1>2. ReaderInv /\ file \in Files => NothingLost
  BY <1>1, Zenon DEF NothingLost
<1>. QED  BY <1>2, ReaderCorrect, PTL
-----------------------------------------------------------------------------
(***************************************************************************)
(* What is written is read back: the text of a table, and the way of the   *)
(* reader through it.                                                      *)
(***************************************************************************)

\* The first n elements.
FirstOf(s, n) == [k \in 1 .. n |-> s[k]]

\* A sequence grows by its next element.
LEMMA FirstOfGrows ==
    ASSUME NEW S, NEW s \in Seq(S)
    PROVE  /\ FirstOf(s, 0) = <<>> /\ FirstOf(s, Len(s)) = s
           /\ \A n \in 0 .. Len(s) : FirstOf(s, n) \in Seq(S) /\ Len(FirstOf(s, n)) = n
           /\ \A n \in 1 .. Len(s) : FirstOf(s, n) = Append(FirstOf(s, n - 1), s[n])
<1>1. Len(s) \in Nat /\ DOMAIN s = 1 .. Len(s) /\ s = [k \in 1 .. Len(s) |-> s[k]]
      /\ \A k \in 1 .. Len(s) : s[k] \in S
  BY LenProperties, ElementOfSeq
<1>2. FirstOf(s, Len(s)) = s
  BY <1>1 DEF FirstOf
<1>3. ASSUME NEW n \in 0 .. Len(s) PROVE FirstOf(s, n) \in Seq(S) /\ Len(FirstOf(s, n)) = n
  <2>1. n \in Nat /\ FirstOf(s, n) \in [1 .. n -> S]
    BY <1>1 DEF FirstOf
  <2>. QED  BY <2>1, ListOf
<1>4. FirstOf(s, 0) = <<>>
  <2>1. FirstOf(s, 0) \in Seq(S) /\ Len(FirstOf(s, 0)) = 0
    BY <1>1, <1>3
  <2>. QED  BY <2>1, EmptySeq
<1>5. ASSUME NEW n \in 1 .. Len(s) PROVE FirstOf(s, n) = Append(FirstOf(s, n - 1), s[n])
  <2>. DEFINE a == FirstOf(s, n)
              b == FirstOf(s, n - 1)
              c == Append(b, s[n])
  <2>1. /\ n - 1 \in 0 .. Len(s) /\ n \in 0 .. Len(s) /\ s[n] \in S /\ n \in Nat /\ n - 1 \in Nat
    BY <1>1
  <2>2. a \in Seq(S) /\ Len(a) = n /\ b \in Seq(S) /\ Len(b) = n - 1
    BY <1>3, <2>1
  <2>3. /\ \A k \in 1 .. n : a[k] = s[k]
        /\ \A k \in 1 .. n - 1 : b[k] = s[k]
    BY DEF FirstOf
  <2>. HIDE DEF a, b
  <2>4. /\ c \in Seq(S) /\ Len(c) = n /\ c[n] = s[n]
        /\ \A k \in 1 .. n - 1 : c[k] = b[k]
    BY <2>1, <2>2, AppendProperties
  <2>. HIDE DEF c
  <2>5. \A k \in 1 .. n : a[k] = c[k]
    BY <2>1, <2>3, <2>4
  <2>6. a = c
    BY <2>2, <2>4, <2>5, SeqEqual
  <2>. QED  BY <2>6 DEF a, b, c
<1>. QED  BY <1>2, <1>3, <1>4, <1>5

\* A flattened sequence is put together piece by piece.
LEMMA FlattenSteps ==
    ASSUME NEW S, NEW ws \in Seq(Seq(S))
    PROVE  \E flat \in [0 .. Len(ws) -> Seq(S)] :
               /\ flat[0] = <<>> /\ FlattenSeq(ws) = flat[Len(ws)]
               /\ \A n \in 1 .. Len(ws) : flat[n] = flat[n - 1] \o ws[n]
<1>. DEFINE N == Len(ws)
            g == [p \in (1 .. N) \X Seq(S) |-> p[2] \o ws[p[1]]]
            Eq(flatten) == flatten = [i \in 1 .. N |-> IF i = 1 THEN ws[i]
                                                       ELSE flatten[i - 1] \o ws[i]]
            flatten == CHOOSE h : Eq(h)
<1>1. N \in Nat /\ <<>> \in Seq(S) /\ \A n \in 1 .. N : ws[n] \in Seq(S)
  BY LenProperties, EmptySeq, ElementOfSeq
<1>2. FlattenSeq(ws) = IF N = 0 THEN ws ELSE flatten[N]
  BY DEF FlattenSeq
<1>. HIDE DEF N
<1>3. g \in [(1 .. N) \X Seq(S) -> Seq(S)]
  BY <1>1, ConcatProperties
<1>4. PICK flat \in [0 .. N -> Seq(S)] :
             flat[0] = <<>> /\ \A n \in 1 .. N : flat[n] = g[<<n, flat[n - 1]>>]
  <2>. HIDE DEF g
  <2>1. Loop(Seq(S), <<>>, N, g) # {}
    BY <1>1, <1>3, Recursion
  <2>. QED  BY <2>1 DEF Loop
<1>5. ASSUME NEW n \in 1 .. N PROVE flat[n] = flat[n - 1] \o ws[n]
  <2>1. n - 1 \in 0 .. N /\ flat[n - 1] \in Seq(S)
    BY <1>1
  <2>2. g[<<n, flat[n - 1]>>] = flat[n - 1] \o ws[n]
    BY <2>1
  <2>. QED  BY <1>4, <2>2
<1>6. N > 0 => flat[1] = ws[1]
  <2>1. N > 0 => 1 \in 1 .. N
    BY <1>1
  <2>2. N > 0 => flat[1] = <<>> \o ws[1] /\ ws[1] \in Seq(S)
    <3>1. N > 0 => flat[1] = flat[1 - 1] \o ws[1]
      BY <1>5, <2>1
    <3>2. 1 - 1 = 0
      OBVIOUS
    <3>. QED  BY <1>1, <1>4, <2>1, <3>1, <3>2
  <2>. QED  BY <2>2, ConcatEmptySeq
<1>7. ASSUME N > 0 PROVE flatten[N] = flat[N]
  <2>. DEFINE h == [i \in 1 .. N |-> flat[i]]
  <2>1. Eq(h)
    <3>1. ASSUME NEW i \in 1 .. N
          PROVE  flat[i] = IF i = 1 THEN ws[i] ELSE h[i - 1] \o ws[i]
      <4>1. i # 1 => i - 1 \in 1 .. N
        BY <1>1
      <4>. QED  BY <1>5, <1>6, <1>7, <4>1
    <3>. QED  BY <3>1
  <2>2. Eq(flatten)
    <3>. HIDE DEF Eq
    <3>. QED  BY <2>1
  <2>. HIDE DEF flatten
  <2>. DEFINE T == {n \in 0 .. N : n > 0 => flatten[n] = flat[n]}
  <2>3. 0 \in T
    BY <1>1
  <2>4. ASSUME NEW n \in 1 .. N, n - 1 \in T PROVE n \in T
    <3>1. flatten[n] = IF n = 1 THEN ws[n] ELSE flatten[n - 1] \o ws[n]
      BY <2>2
    <3>2. n # 1 => flatten[n - 1] = flat[n - 1]
      BY <1>1, <2>4
    <3>3. flatten[n] = flat[n]
      BY <1>5, <1>6, <1>7, <3>1, <3>2
    <3>. QED  BY <1>1, <3>3
  <2>5. N \in T
    <3>. HIDE DEF T
    <3>1. \A n \in 0 .. N : n \in T
      BY <1>1, <2>3, <2>4, Induction
    <3>. QED  BY <1>1, <3>1
  <2>. QED  BY <1>7, <2>5
<1>8. N = 0 => ws = <<>>
  BY EmptySeq DEF N
<1>9. FlattenSeq(ws) = flat[N]
  <2>. HIDE DEF flatten
  <2>. QED  BY <1>1, <1>2, <1>4, <1>7, <1>8
<1>. QED  BY <1>4, <1>5, <1>9 DEF N

\* A word stands at a place of a text.
Occurs(text, i, w) ==
    i + Len(w) <= Len(text) + 1 /\ \A j \in 1 .. Len(w) : text[i + j - 1] = w[j]

\* A text that is put together stands where its parts stand.
LEMMA OccursParts ==
    ASSUME NEW text \in Texts, NEW i \in Nat \ {0}, NEW u \in Texts, NEW v \in Texts,
           Occurs(text, i, u \o v)
    PROVE  Occurs(text, i, u) /\ Occurs(text, i + Len(u), v)
<1>. DEFINE w == u \o v
<1>1. /\ Len(w) = Len(u) + Len(v) /\ Len(u) \in Nat /\ Len(v) \in Nat /\ Len(text) \in Nat
      /\ \A j \in 1 .. Len(u) + Len(v) : w[j] = IF j <= Len(u) THEN u[j] ELSE v[j - Len(u)]
  BY ConcatProperties, LenProperties DEF Texts
<1>2. /\ i + Len(w) <= Len(text) + 1
      /\ \A j \in 1 .. Len(w) : text[i + j - 1] = w[j]
  BY DEF Occurs
<1>. HIDE DEF w
<1>3. i + Len(u) <= Len(text) + 1 /\ i + Len(u) + Len(v) <= Len(text) + 1
  BY <1>1, <1>2
<1>4. ASSUME NEW j \in 1 .. Len(u) PROVE text[i + j - 1] = u[j]
  <2>1. j \in 1 .. Len(w) /\ j <= Len(u) /\ j \in 1 .. Len(u) + Len(v)
    BY <1>1
  <2>2. w[j] = u[j]
    BY <1>1, <2>1
  <2>. QED  BY <1>2, <2>1, <2>2
<1>5. ASSUME NEW j \in 1 .. Len(v) PROVE text[i + Len(u) + j - 1] = v[j]
  <2>. DEFINE k == Len(u) + j
  <2>1. /\ k \in 1 .. Len(w) /\ ~(k <= Len(u)) /\ k \in 1 .. Len(u) + Len(v)
        /\ k - Len(u) = j /\ i + k - 1 = i + Len(u) + j - 1
    BY <1>1
  <2>. HIDE DEF k
  <2>2. w[k] = v[j]
    BY <1>1, <2>1
  <2>3. text[i + k - 1] = w[k]
    BY <1>2, <2>1
  <2>. QED  BY <2>1, <2>2, <2>3
<1>. QED  BY <1>3, <1>4, <1>5 DEF Occurs

\* The places of the pieces of a flattened sequence.
LEMMA OccursPieces ==
    ASSUME NEW text \in Texts, NEW i \in Nat \ {0}, NEW ws \in Seq(Texts),
           Occurs(text, i, FlattenSeq(ws))
    PROVE  \E place \in [0 .. Len(ws) -> Nat \ {0}] :
               /\ place[0] = i /\ place[Len(ws)] = i + Len(FlattenSeq(ws))
               /\ \A n \in 1 .. Len(ws) :
                      place[n] = place[n - 1] + Len(ws[n]) /\ Occurs(text, place[n - 1], ws[n])
<1>. DEFINE N == Len(ws)
<1>1. N \in Nat /\ \A n \in 1 .. N : ws[n] \in Texts
  BY LenProperties, ElementOfSeq
<1>2. PICK flat \in [0 .. N -> Texts] :
             /\ flat[0] = <<>> /\ FlattenSeq(ws) = flat[N]
             /\ \A n \in 1 .. N : flat[n] = flat[n - 1] \o ws[n]
  BY FlattenSteps DEF Texts
<1>. HIDE DEF N
<1>. DEFINE T == {m \in 0 .. N : Occurs(text, i, flat[N - m])}
<1>3. \A m \in 0 .. N : m \in T
  <2>1. 0 \in T
    BY <1>1, <1>2
  <2>2. ASSUME NEW m \in 1 .. N, m - 1 \in T PROVE m \in T
    <3>. DEFINE n == N - (m - 1)
    <3>1. n \in 1 .. N /\ n - 1 = N - m /\ n - 1 \in 0 .. N /\ Occurs(text, i, flat[n])
      BY <1>1, <2>2
    <3>. HIDE DEF n
    <3>2. flat[n] = flat[n - 1] \o ws[n] /\ flat[n - 1] \in Texts /\ ws[n] \in Texts
      BY <1>1, <1>2, <3>1
    <3>3. Occurs(text, i, flat[n - 1])
      BY <3>1, <3>2, OccursParts
    <3>. QED  BY <1>1, <3>1, <3>3
  <2>. HIDE DEF T
  <2>. QED  BY <1>1, <2>1, <2>2, Induction
<1>4. ASSUME NEW n \in 0 .. N PROVE Occurs(text, i, flat[n])
  <2>1. N - n \in 0 .. N /\ N - (N - n) = n
    BY <1>1
  <2>. QED  BY <1>3, <2>1
<1>. DEFINE place == [n \in 0 .. N |-> i + Len(flat[n])]
<1>5. \A n \in 0 .. N : Len(flat[n]) \in Nat
  BY <1>2, LenProperties DEF Texts
<1>6. place \in [0 .. N -> Nat \ {0}]
  <2>1. \A n \in 0 .. N : i + Len(flat[n]) \in Nat \ {0}
    BY <1>5
  <2>. QED  BY <2>1
<1>7. place[0] = i /\ place[N] = i + Len(FlattenSeq(ws))
  <2>1. Len(flat[0]) = 0
    BY <1>2, EmptySeq
  <2>. QED  BY <1>1, <1>2, <2>1
<1>8. ASSUME NEW n \in 1 .. N
      PROVE  place[n] = place[n - 1] + Len(ws[n]) /\ Occurs(text, place[n - 1], ws[n])
  <2>0. n - 1 \in 0 .. N /\ n \in 0 .. N
    BY <1>1
  <2>1. /\ n - 1 \in 0 .. N /\ n \in 0 .. N /\ flat[n] = flat[n - 1] \o ws[n]
        /\ flat[n - 1] \in Texts /\ ws[n] \in Texts
    BY <1>1, <1>2, <2>0
  <2>2. Occurs(text, i + Len(flat[n - 1]), ws[n])
    <3>1. Occurs(text, i, flat[n - 1] \o ws[n])
      BY <1>4, <2>1
    <3>. QED  BY <2>1, <3>1, OccursParts
  <2>3. Len(flat[n]) = Len(flat[n - 1]) + Len(ws[n]) /\ Len(ws[n]) \in Nat
    BY <2>1, ConcatProperties, LenProperties DEF Texts
  <2>4. place[n] = i + Len(flat[n]) /\ place[n - 1] = i + Len(flat[n - 1])
    BY <2>0
  <2>. HIDE DEF place
  <2>5. Len(flat[n - 1]) \in Nat
    BY <1>5, <2>0
  <2>6. place[n] = place[n - 1] + Len(ws[n])
    <3>1. \A a, b \in Nat : i + (a + b) = (i + a) + b
      OBVIOUS
    <3>2. place[n] = i + (Len(flat[n - 1]) + Len(ws[n]))
      BY <2>3, <2>4
    <3>. QED  BY <2>3, <2>4, <2>5, <3>1, <3>2, Zenon
  <2>. QED  BY <2>2, <2>4, <2>6
<1>. HIDE DEF place
<1>. QED  BY <1>6, <1>7, <1>8 DEF N

\* The states of the reader that are reached before the text ends: every turn
\* takes a character at least.
Reached(text) ==
    {s \in ScanStates : \E n \in 0 .. Len(text) : ScanRun(text)[n] = s /\ n < s.i}

\* The reader goes on from a state it reaches.
LEMMA ReachedNext ==
    ASSUME NEW text \in Texts, NEW s \in Reached(text), s.i <= Len(text),
           NextChar(text, s).i > s.i
    PROVE  NextChar(text, s) \in Reached(text)
<1>1. s \in ScanStates /\ Len(text) \in Nat /\ s.i \in Nat
  BY LenProperties DEF Reached, ScanStates, Texts
<1>2. PICK n \in 0 .. Len(text) : ScanRun(text)[n] = s /\ n < s.i
  BY DEF Reached
<1>3. n + 1 \in 1 .. Len(text) /\ n + 1 \in 0 .. Len(text) /\ n + 1 - 1 = n
  BY <1>1, <1>2
<1>. DEFINE t == NextChar(text, s)
<1>4. t \in ScanStates /\ t.i \in Nat
  BY <1>1, NextCharType DEF ScanStates
<1>5. ScanRun(text)[n + 1] = t
  BY <1>2, <1>3, ScanRunSteps
<1>6. t.i > s.i
  OBVIOUS
<1>. HIDE DEF t
<1>7. n + 1 < t.i
  BY <1>1, <1>2, <1>4, <1>6
<1>. QED  BY <1>3, <1>4, <1>5, <1>7 DEF Reached, t

\* The state that is past the text stays to the end.
LEMMA ReachedEnd ==
    ASSUME NEW text \in Texts, NEW s \in Reached(text), s.i > Len(text)
    PROVE  Scan(text) = FinishScan(s)
<1>1. s \in ScanStates /\ Len(text) \in Nat
  BY LenProperties DEF Reached, Texts
<1>2. PICK n \in 0 .. Len(text) : ScanRun(text)[n] = s
  BY DEF Reached
<1>. DEFINE run == ScanRun(text)
            N == Len(text)
            T == {m \in 0 .. N - n : run[n + m] = s}
<1>3. \A m \in 1 .. N : run[m] = NextChar(text, run[m - 1])
  BY ScanRunSteps
<1>4. NextChar(text, s) = s
  BY DEF NextChar
<1>5. N - n \in Nat
  BY <1>1
<1>. HIDE DEF run, N
<1>6. 0 \in T
  BY <1>1, <1>2, <1>5 DEF run
<1>7. ASSUME NEW m \in 1 .. N - n, m - 1 \in T PROVE m \in T
  <2>1. n + m \in 1 .. N /\ n + m - 1 = n + (m - 1)
    BY <1>1, <1>5 DEF N
  <2>2. run[n + m] = NextChar(text, run[n + (m - 1)])
    BY <1>3, <2>1
  <2>. QED  BY <1>4, <1>5, <1>7, <2>2
<1>8. run[N] = s
  <2>1. \A m \in 0 .. N - n : m \in T
    <3>. HIDE DEF T
    <3>. QED  BY <1>5, <1>6, <1>7, Induction
  <2>2. N - n \in T
    <3>. HIDE DEF T
    <3>. QED  BY <1>5, <2>1
  <2>3. n + (N - n) = N
    BY <1>1 DEF N
  <2>. QED  BY <2>2, <2>3
<1>. QED  BY <1>8 DEF Scan, run, N

\* The records read are whole: they have the fields written, and none is blank.
Whole(records, done) ==
    /\ Len(records) = Len(done)
    /\ \A k \in 1 .. Len(done) : records[k].fields = done[k] /\ ~records[k].blank

\* A record that ends with more than one field is whole.
LEMMA WholeGrows ==
    ASSUME NEW s \in ScanStates, NEW done \in Seq(Seq(Texts)), Whole(s.records, done),
           Len(s.fields) > 0
    PROVE  Whole(Append(s.records, RawRecord(s)), Append(done, Append(s.fields, s.field)))
<1>. DEFINE record == RawRecord(s)
            more == Append(s.fields, s.field)
            after == Append(done, more)
            records == Append(s.records, record)
<1>1. /\ s.field \in Texts /\ s.fields \in Seq(Texts) /\ s.records \in Seq(RawRecords)
      /\ record \in RawRecords
  BY EndRecordType DEF ScanStates
<1>2. more \in Seq(Texts) /\ Len(more) = Len(s.fields) + 1 /\ Len(s.fields) \in Nat
  BY <1>1, AppendProperties, LenProperties
<1>3. more # << <<>> >>
  <2>1. Len(<< <<>> >>) = 1 /\ Len(more) # 1
    BY <1>2
  <2>. QED  BY <2>1
<1>4. record.fields = more /\ ~record.blank
  BY <1>3 DEF RawRecord
<1>. HIDE DEF record, more
<1>5. /\ after \in Seq(Seq(Texts)) /\ Len(after) = Len(done) + 1 /\ after[Len(done) + 1] = more
      /\ \A k \in 1 .. Len(done) : after[k] = done[k]
      /\ Len(done) \in Nat
  BY <1>2, AppendProperties, LenProperties
<1>6. /\ Len(records) = Len(s.records) + 1 /\ records[Len(s.records) + 1] = record
      /\ \A k \in 1 .. Len(s.records) : records[k] = s.records[k]
      /\ Len(s.records) \in Nat
  BY <1>1, AppendProperties, LenProperties
<1>. HIDE DEF records, after
<1>7. /\ Len(s.records) = Len(done)
      /\ \A k \in 1 .. Len(done) : s.records[k].fields = done[k] /\ ~s.records[k].blank
  BY DEF Whole
<1>8. Len(records) = Len(after)
  BY <1>5, <1>6, <1>7
<1>9. ASSUME NEW k \in 1 .. Len(after)
      PROVE  records[k].fields = after[k] /\ ~records[k].blank
  <2>1. CASE k \in 1 .. Len(done)
    BY <1>5, <1>6, <1>7, <2>1
  <2>2. CASE k = Len(done) + 1
    BY <1>4, <1>5, <1>6, <1>7, <2>2
  <2>. QED  BY <1>5, <2>1, <2>2
<1>10. Whole(records, after)
  BY <1>8, <1>9 DEF Whole
<1>. QED  BY <1>10 DEF records, record, after, more

\* The field ends here, or the text does.
FieldEnds(text, i) == CharAt(text, i) \in LineEnds \cup {"", DELIMITER}

\* The states in which a text is read up to i: the characters of a field without
\* quotes, inside them or after them, the fields before it, and the records before
\* those.
ReadTo(text, i, mode, field, fields, done) ==
    {s \in Reached(text) :
        /\ s.i = i /\ s.fieldWasQuoted = (mode # "plain") /\ s.inQuotes = (mode = "open")
        /\ s.field = field /\ s.fields = fields
        /\ ~s.recordReported /\ s.errors = <<>> /\ Whole(s.records, done)}

\* A character inside quotes.
LEMMA QuotedRead ==
    ASSUME NEW text \in Texts, NEW i \in 1 .. Len(text), NEW field, NEW fields,
           NEW done, ReadTo(text, i, "open", field, fields, done) # {}
    PROVE  /\ text[i] # QUOTE =>
                  ReadTo(text, i + 1, "open", Append(field, text[i]), fields, done) # {}
           /\ text[i] = QUOTE /\ CharAt(text, i + 1) = QUOTE =>
                  ReadTo(text, i + 2, "open", Append(field, QUOTE), fields, done) # {}
           /\ text[i] = QUOTE /\ FieldEnds(text, i + 1) =>
                  ReadTo(text, i + 1, "closed", field, fields, done) # {}
<1>1. PICK s \in ReadTo(text, i, "open", field, fields, done) : TRUE
  OBVIOUS
<1>2. /\ s \in Reached(text) /\ s \in ScanStates
      /\ s.i = i /\ s.fieldWasQuoted = TRUE /\ s.inQuotes = TRUE
      /\ s.field = field /\ s.fields = fields
      /\ ~s.recordReported /\ s.errors = <<>> /\ Whole(s.records, done)
  BY <1>1 DEF ReadTo, Reached
<1>3. Len(text) \in Nat /\ ~(i > Len(text)) /\ i <= Len(text) /\ i + 1 > i /\ i + 2 > i
  BY LenProperties DEF Texts
<1>. DEFINE t == NextChar(text, s)
<1>4. t = QuotedChar(text, s)
  BY <1>2, <1>3 DEF NextChar
<1>5. t.i > i => t \in Reached(text)
  BY <1>2, <1>3, ReachedNext
<1>6. ASSUME text[i] # QUOTE
      PROVE  ReadTo(text, i + 1, "open", Append(field, text[i]), fields, done) # {}
  <2>. DEFINE l == s.line + (IF text[i] = "lf" THEN 1 ELSE 0)
              e == Append(field, text[i])
  <2>1. t = [s EXCEPT !.line = l, !.field = e, !.i = i + 1]
    BY <1>2, <1>4, <1>6 DEF QuotedChar
  <2>. HIDE DEF l, e, t
  <2>2. /\ t.i = i + 1 /\ t.fieldWasQuoted = TRUE /\ t.inQuotes = TRUE
        /\ t.field = e /\ t.fields = fields
        /\ ~t.recordReported /\ t.errors = <<>> /\ t.records = s.records
    BY <1>2, <2>1 DEF ScanStates
  <2>3. t \in ReadTo(text, i + 1, "open", e, fields, done)
    BY <1>2, <1>3, <1>5, <2>2 DEF ReadTo
  <2>. QED  BY <2>3 DEF e
<1>7. ASSUME text[i] = QUOTE, CharAt(text, i + 1) = QUOTE
      PROVE  ReadTo(text, i + 2, "open", Append(field, QUOTE), fields, done) # {}
  <2>. DEFINE e == Append(field, QUOTE)
  <2>1. t = [s EXCEPT !.field = e, !.i = i + 2]
    BY <1>2, <1>4, <1>7 DEF QuotedChar
  <2>. HIDE DEF e, t
  <2>2. /\ t.i = i + 2 /\ t.fieldWasQuoted = TRUE /\ t.inQuotes = TRUE
        /\ t.field = e /\ t.fields = fields
        /\ ~t.recordReported /\ t.errors = <<>> /\ t.records = s.records
    BY <1>2, <2>1 DEF ScanStates
  <2>3. t \in ReadTo(text, i + 2, "open", e, fields, done)
    BY <1>2, <1>3, <1>5, <2>2 DEF ReadTo
  <2>. QED  BY <2>3 DEF e
<1>8. ASSUME text[i] = QUOTE, FieldEnds(text, i + 1)
      PROVE  ReadTo(text, i + 1, "closed", field, fields, done) # {}
  <2>0. CharAt(text, i + 1) # QUOTE
    BY <1>8 DEF FieldEnds, LineEnds, DELIMITER, QUOTE
  <2>1. t = [s EXCEPT !.inQuotes = FALSE, !.i = i + 1]
    BY <1>2, <1>4, <1>8, <2>0 DEF QuotedChar, FieldEnds
  <2>. HIDE DEF t
  <2>2. /\ t.i = i + 1 /\ t.fieldWasQuoted = TRUE /\ t.inQuotes = FALSE
        /\ t.field = field /\ t.fields = fields
        /\ ~t.recordReported /\ t.errors = <<>> /\ t.records = s.records
    BY <1>2, <2>1 DEF ScanStates
  <2>3. t \in ReadTo(text, i + 1, "closed", field, fields, done)
    BY <1>2, <1>3, <1>5, <2>2 DEF ReadTo
  <2>. QED  BY <2>3
<1>. QED  BY <1>6, <1>7, <1>8

\* A character outside quotes.
LEMMA PlainRead ==
    ASSUME NEW text \in Texts, NEW i \in 1 .. Len(text), NEW mode \in {"plain", "closed"}, NEW field,
           NEW fields \in Seq(Texts), NEW done \in Seq(Seq(Texts)),
           ReadTo(text, i, mode, field, fields, done) # {}
    PROVE  /\ text[i] \notin {QUOTE, DELIMITER} \cup LineEnds =>
                  ReadTo(text, i + 1, mode, Append(field, text[i]), fields, done) # {}
           /\ text[i] = QUOTE /\ field = <<>> /\ mode = "plain" =>
                  ReadTo(text, i + 1, "open", <<>>, fields, done) # {}
           /\ text[i] = DELIMITER =>
                  ReadTo(text, i + 1, "plain", <<>>, Append(fields, field), done) # {}
           /\ text[i] \in LineEnds /\ Len(fields) > 0 =>
                  ReadTo(text,
                         i + (IF text[i] = "cr" /\ CharAt(text, i + 1) = "lf" THEN 2 ELSE 1),
                         "plain", <<>>, <<>>, Append(done, Append(fields, field))) # {}
<1>1. PICK s \in ReadTo(text, i, mode, field, fields, done) : TRUE
  OBVIOUS
<1>2. /\ s \in Reached(text) /\ s \in ScanStates
      /\ s.i = i /\ s.fieldWasQuoted = (mode # "plain") /\ s.inQuotes = FALSE
      /\ s.field = field /\ s.fields = fields
      /\ ~s.recordReported /\ s.errors = <<>> /\ Whole(s.records, done)
  BY <1>1 DEF ReadTo, Reached
<1>3. Len(text) \in Nat /\ ~(i > Len(text)) /\ i <= Len(text) /\ i + 1 > i /\ i + 2 > i
  BY LenProperties DEF Texts
<1>. DEFINE t == NextChar(text, s)
<1>4. t = PlainChar(text, s)
  BY <1>2, <1>3 DEF NextChar
<1>. DEFINE opened == [s EXCEPT !.inQuotes = TRUE, !.fieldWasQuoted = TRUE,
                                !.recordHadQuote = TRUE, !.i = @ + 1]
            parted == [EndField(s) EXCEPT !.i = @ + 1]
            lined == LET width == IF text[s.i] = "cr" /\ CharAt(text, s.i + 1) = "lf"
                                  THEN 2 ELSE 1
                     IN  [EndRecord(s) EXCEPT !.i = @ + width, !.line = @ + 1,
                                              !.recordLine = s.line + 1]
            grown == [s EXCEPT !.field = Append(@, text[s.i]), !.i = @ + 1]
<1>10. PlainChar(text, s) = CASE text[s.i] = QUOTE /\ s.field = <<>> /\ ~s.fieldWasQuoted -> opened
                              [] text[s.i] = DELIMITER -> parted
                              [] text[s.i] \in LineEnds -> lined
                              [] OTHER -> grown
  BY Zenon DEF PlainChar
<1>11. /\ text[s.i] = QUOTE /\ s.field = <<>> /\ ~s.fieldWasQuoted => PlainChar(text, s) = opened
       /\ text[s.i] = DELIMITER => PlainChar(text, s) = parted
       /\ text[s.i] \in LineEnds => PlainChar(text, s) = lined
       /\ text[s.i] \notin {QUOTE, DELIMITER} \cup LineEnds => PlainChar(text, s) = grown
  <2>. HIDE DEF opened, parted, lined, grown
  <2>1. QUOTE \notin LineEnds /\ DELIMITER \notin LineEnds /\ QUOTE # DELIMITER
    BY DEF QUOTE, DELIMITER, LineEnds
  <2>. QED  BY <1>10, <2>1
<1>5. t.i > i => t \in Reached(text)
  BY <1>2, <1>3, ReachedNext
<1>6. ASSUME text[i] \notin {QUOTE, DELIMITER} \cup LineEnds
      PROVE  ReadTo(text, i + 1, mode, Append(field, text[i]), fields, done) # {}
  <2>. DEFINE e == Append(field, text[i])
  <2>1. t = [s EXCEPT !.field = e, !.i = i + 1]
    <3>1. t = grown
      BY <1>2, <1>4, <1>6, <1>11
    <3>. HIDE DEF t
    <3>. QED  BY <1>2, <3>1
  <2>. HIDE DEF e, t
  <2>2. /\ t.i = i + 1 /\ t.fieldWasQuoted = (mode # "plain") /\ t.inQuotes = FALSE
        /\ t.field = e /\ t.fields = fields
        /\ ~t.recordReported /\ t.errors = <<>> /\ t.records = s.records
    BY <1>2, <2>1 DEF ScanStates
  <2>3. t \in ReadTo(text, i + 1, mode, e, fields, done)
    BY <1>2, <1>3, <1>5, <2>2 DEF ReadTo
  <2>. QED  BY <2>3 DEF e
<1>7. ASSUME text[i] = QUOTE, field = <<>>, mode = "plain"
      PROVE  ReadTo(text, i + 1, "open", <<>>, fields, done) # {}
  <2>1. t = [s EXCEPT !.inQuotes = TRUE, !.fieldWasQuoted = TRUE, !.recordHadQuote = TRUE,
                      !.i = i + 1]
    <3>1. text[s.i] = QUOTE /\ s.field = <<>> /\ ~s.fieldWasQuoted
      BY <1>2, <1>7
    <3>2. t = opened
      BY <1>4, <1>11, <3>1
    <3>. HIDE DEF t
    <3>. QED  BY <1>2, <3>2
  <2>. HIDE DEF t
  <2>2. /\ t.i = i + 1 /\ t.fieldWasQuoted = TRUE /\ t.inQuotes = TRUE
        /\ t.field = <<>> /\ t.fields = fields
        /\ ~t.recordReported /\ t.errors = <<>> /\ t.records = s.records
    BY <1>2, <1>7, <2>1 DEF ScanStates
  <2>3. t \in ReadTo(text, i + 1, "open", <<>>, fields, done)
    BY <1>2, <1>3, <1>5, <2>2 DEF ReadTo
  <2>. QED  BY <2>3
<1>8. ASSUME text[i] = DELIMITER
      PROVE  ReadTo(text, i + 1, "plain", <<>>, Append(fields, field), done) # {}
  <2>. DEFINE ended == EndField(s)
              more == Append(fields, field)
  <2>1. t = [ended EXCEPT !.i = ended.i + 1]
    <3>2. t = parted
      BY <1>2, <1>4, <1>8, <1>11
    <3>. HIDE DEF t
    <3>. QED  BY <3>2
  <2>2. /\ ended \in ScanStates /\ ended.i = i /\ ended.inQuotes = FALSE
        /\ ended.recordReported = s.recordReported /\ ended.records = s.records
        /\ ended.errors = <<>> /\ ended.fields = more /\ ended.field = <<>>
        /\ ended.fieldWasQuoted = FALSE
    BY <1>2, EndFieldType, EndFieldKeeps
  <2>. HIDE DEF t, ended, more
  <2>3. /\ t.i = i + 1 /\ t.fieldWasQuoted = FALSE /\ t.inQuotes = FALSE
        /\ t.field = <<>> /\ t.fields = more
        /\ ~t.recordReported /\ t.errors = <<>> /\ t.records = s.records
    BY <1>2, <2>1, <2>2 DEF ScanStates
  <2>4. t \in ReadTo(text, i + 1, "plain", <<>>, more, done)
    BY <1>2, <1>3, <1>5, <2>3 DEF ReadTo
  <2>. QED  BY <2>4 DEF more
<1>9. ASSUME text[i] \in LineEnds, Len(fields) > 0
      PROVE  ReadTo(text,
                    i + (IF text[i] = "cr" /\ CharAt(text, i + 1) = "lf" THEN 2 ELSE 1),
                    "plain", <<>>, <<>>, Append(done, Append(fields, field))) # {}
  <2>. DEFINE ended == EndRecord(s)
              width == IF text[i] = "cr" /\ CharAt(text, i + 1) = "lf" THEN 2 ELSE 1
              record == RawRecord(s)
              more == Append(fields, field)
              after == Append(done, more)
  <2>1. t = [ended EXCEPT !.i = ended.i + width, !.line = ended.line + 1,
                          !.recordLine = s.line + 1]
    <3>1. t = lined
      BY <1>2, <1>4, <1>9, <1>11
    <3>. HIDE DEF t
    <3>. QED  BY <1>2, <3>1
  <2>2. /\ ended \in ScanStates /\ ended.i = i /\ ended.inQuotes = FALSE
        /\ ended.recordReported = FALSE /\ ended.records = Append(s.records, record)
        /\ ended.errors = <<>> /\ ended.fields = <<>> /\ ended.field = <<>>
        /\ ended.fieldWasQuoted = FALSE
    BY <1>2, EndRecordType, EndRecordKeeps
  <2>3. width \in {1, 2} /\ i + width > i
    OBVIOUS
  <2>4. Whole(Append(s.records, record), after)
    BY <1>2, <1>9, WholeGrows
  <2>. HIDE DEF t, ended, more, width, record, after
  <2>5. /\ t.i = i + width /\ t.fieldWasQuoted = FALSE /\ t.inQuotes = FALSE
        /\ t.field = <<>> /\ t.fields = <<>>
        /\ ~t.recordReported /\ t.errors = <<>> /\ t.records = Append(s.records, record)
    BY <1>2, <2>1, <2>2 DEF ScanStates
  <2>6. t \in ReadTo(text, i + width, "plain", <<>>, <<>>, after)
    BY <1>2, <1>3, <1>5, <2>3, <2>4, <2>5 DEF ReadTo
  <2>. QED  BY <2>6 DEF after, more, width
<1>. QED  BY <1>6, <1>7, <1>8, <1>9

\* A word of one character, and of two.
LEMMA ShortWords ==
    ASSUME NEW a \in Chars, NEW b \in Chars
    PROVE  /\ <<a>> \in Texts /\ Len(<<a>>) = 1 /\ <<a>>[1] = a
           /\ <<a, b>> \in Texts /\ Len(<<a, b>>) = 2 /\ <<a, b>>[1] = a /\ <<a, b>>[2] = b
BY DEF Texts

\* A value that needs no quotes is read as it stands.
LEMMA PlainFieldRead ==
    ASSUME NEW text \in Texts, NEW i \in Nat \ {0}, NEW value \in Texts, ~NeedsQuotes(value),
           Occurs(text, i, value), NEW fields \in Seq(Texts), NEW done \in Seq(Seq(Texts)),
           ReadTo(text, i, "plain", <<>>, fields, done) # {}
    PROVE  ReadTo(text, i + Len(value), "plain", value, fields, done) # {}
<1>. DEFINE N == Len(value)
            T == {j \in 0 .. N :
                      ReadTo(text, i + j, "plain", FirstOf(value, j), fields, done) # {}}
<1>1. /\ N \in Nat /\ Len(text) \in Nat /\ FirstOf(value, 0) = <<>> /\ FirstOf(value, N) = value
      /\ \A j \in 1 .. N : FirstOf(value, j) = Append(FirstOf(value, j - 1), value[j])
      /\ DOMAIN value = 1 .. N
  BY FirstOfGrows, LenProperties DEF Texts
<1>2. i + N <= Len(text) + 1 /\ \A j \in 1 .. N : text[i + j - 1] = value[j]
  BY DEF Occurs
<1>3. \A j \in 1 .. N : value[j] \notin {QUOTE, DELIMITER} \cup LineEnds
  BY <1>1 DEF NeedsQuotes
<1>. HIDE DEF N
<1>4. 0 \in T
  <2>1. i + 0 = i
    OBVIOUS
  <2>. QED  BY <1>1, <2>1
<1>5. ASSUME NEW j \in 1 .. N, j - 1 \in T PROVE j \in T
  <2>1. i + (j - 1) \in 1 .. Len(text) /\ i + (j - 1) = i + j - 1 /\ (i + (j - 1)) + 1 = i + j
    BY <1>1, <1>2
  <2>2. text[i + (j - 1)] = value[j]
    BY <1>2, <2>1
  <2>. DEFINE k == i + (j - 1)
              field == FirstOf(value, j - 1)
  <2>3. ReadTo(text, k, "plain", field, fields, done) # {}
    BY <1>5
  <2>4. k \in 1 .. Len(text) /\ text[k] = value[j] /\ k + 1 = i + j
    BY <2>1, <2>2
  <2>. HIDE DEF k, field
  <2>5. ReadTo(text, k + 1, "plain", Append(field, text[k]), fields, done) # {}
    BY <1>3, <2>3, <2>4, PlainRead
  <2>6. Append(field, text[k]) = FirstOf(value, j)
    BY <1>1, <2>4 DEF field
  <2>7. ReadTo(text, i + j, "plain", FirstOf(value, j), fields, done) # {}
    BY <2>4, <2>5, <2>6, Zenon
  <2>8. j \in 0 .. N
    BY <1>1
  <2>. QED  BY <2>7, <2>8
<1>6. \A j \in 0 .. N : j \in T
  <2>. HIDE DEF T
  <2>. QED  BY <1>1, <1>4, <1>5, Induction
<1>7. N \in T
  <2>1. N \in 0 .. N
    BY <1>1
  <2>. HIDE DEF T
  <2>. QED  BY <1>6, <2>1
<1>8. ReadTo(text, i + N, "plain", value, fields, done) # {}
  BY <1>1, <1>7
<1>. QED  BY <1>8 DEF N

\* A quoted value is read without its quotes, a doubled one as one.
LEMMA QuotedFieldRead ==
    ASSUME NEW text \in Texts, NEW i \in Nat \ {0}, NEW value \in Texts,
           Occurs(text, i, Quoted(value)),
           FieldEnds(text, i + Len(Quoted(value))),
           NEW fields \in Seq(Texts), NEW done \in Seq(Seq(Texts)),
           ReadTo(text, i, "plain", <<>>, fields, done) # {}
    PROVE  ReadTo(text, i + Len(Quoted(value)), "closed", value, fields, done) # {}
<1>. DEFINE N == Len(value)
            pieces == [k \in DOMAIN value |-> IF value[k] = QUOTE THEN <<QUOTE, QUOTE>>
                                              ELSE <<value[k]>>]
            body == FlattenSeq(pieces)
            quote == <<QUOTE>>
<1>1. /\ N \in Nat /\ Len(text) \in Nat /\ FirstOf(value, 0) = <<>> /\ FirstOf(value, N) = value
      /\ \A j \in 1 .. N : FirstOf(value, j) = Append(FirstOf(value, j - 1), value[j])
      /\ DOMAIN value = 1 .. N
  BY FirstOfGrows, LenProperties DEF Texts
<1>2. QUOTE \in Chars /\ \A k \in 1 .. N : value[k] \in Chars
  BY ElementOfSeq DEF Texts, Chars
<1>3. quote \in Texts /\ Len(quote) = 1 /\ quote[1] = QUOTE
  BY <1>2, ShortWords
<1>4. pieces \in Seq(Texts) /\ Len(pieces) = N
  <2>1. \A k \in 1 .. N : pieces[k] \in Texts
    BY <1>1, <1>2, ShortWords
  <2>2. pieces = [k \in 1 .. N |-> pieces[k]]
    BY <1>1
  <2>. HIDE DEF pieces
  <2>3. pieces \in [1 .. N -> Texts]
    BY <2>1, <2>2
  <2>. QED  BY <1>1, <2>3, ListOf
<1>5. \A k \in 1 .. N :
          /\ value[k] = QUOTE => Len(pieces[k]) = 2 /\ pieces[k][1] = QUOTE /\ pieces[k][2] = QUOTE
          /\ value[k] # QUOTE => Len(pieces[k]) = 1 /\ pieces[k][1] = value[k]
  <2>1. \A k \in 1 .. N : pieces[k] = IF value[k] = QUOTE THEN <<QUOTE, QUOTE>> ELSE <<value[k]>>
    BY <1>1
  <2>. HIDE DEF pieces
  <2>2. ASSUME NEW k \in 1 .. N, value[k] = QUOTE
        PROVE  Len(pieces[k]) = 2 /\ pieces[k][1] = QUOTE /\ pieces[k][2] = QUOTE
    <3>1. pieces[k] = <<QUOTE, QUOTE>>
      BY <2>1, <2>2
    <3>. QED  BY <1>2, <3>1, ShortWords
  <2>3. ASSUME NEW k \in 1 .. N, value[k] # QUOTE
        PROVE  Len(pieces[k]) = 1 /\ pieces[k][1] = value[k]
    <3>1. pieces[k] = <<value[k]>>
      BY <2>1, <2>3
    <3>. QED  BY <1>2, <3>1, ShortWords
  <2>. QED  BY <2>2, <2>3
<1>6. Quoted(value) = (quote \o body) \o quote
  BY DEF Quoted
<1>. HIDE DEF N, pieces, quote
<1>7. body \in Texts
  <2>1. pieces \in Seq(Seq(Chars))
    BY <1>4 DEF Texts
  <2>2. body \in Seq(Chars)
    <3>1. Len(pieces) \in 0 .. Len(pieces)
      BY <1>1, <1>4
    <3>2. PICK flat \in [0 .. Len(pieces) -> Seq(Chars)] : body = flat[Len(pieces)]
      BY <2>1, FlattenSteps
    <3>. QED  BY <3>1, <3>2
  <2>. QED  BY <2>2 DEF Texts
<1>. DEFINE last == i + 1 + Len(body)
<1>. HIDE DEF body
<1>8. /\ quote \o body \in Texts /\ Len(quote \o body) = 1 + Len(body) /\ Len(body) \in Nat
      /\ Len(Quoted(value)) = Len(body) + 2
  <2>1. quote \o body \in Seq(Chars) /\ Len(quote \o body) = 1 + Len(body) /\ Len(body) \in Nat
    BY <1>3, <1>7, ConcatProperties, LenProperties DEF Texts
  <2>2. Len((quote \o body) \o quote) = Len(quote \o body) + Len(quote)
    BY <1>3, <2>1, ConcatProperties DEF Texts
  <2>. QED  BY <1>3, <1>6, <2>1, <2>2 DEF Texts
<1>9. /\ Occurs(text, i, quote) /\ Occurs(text, i + 1, body) /\ Occurs(text, last, quote)
  <2>1. Occurs(text, i, quote \o body) /\ Occurs(text, i + Len(quote \o body), quote)
    <3>1. Occurs(text, i, (quote \o body) \o quote)
      BY <1>6, Zenon
    <3>. HIDE DEF Occurs
    <3>. QED  BY <1>3, <1>8, <3>1, OccursParts
  <2>2. Occurs(text, i, quote) /\ Occurs(text, i + Len(quote), body)
    BY <1>3, <1>7, <2>1, OccursParts
  <2>3. i + Len(quote \o body) = last
    BY <1>8
  <2>. QED  BY <1>3, <2>1, <2>2, <2>3
<1>10. /\ i \in 1 .. Len(text) /\ text[i] = QUOTE
       /\ last \in 1 .. Len(text) /\ text[last] = QUOTE
  <2>1. i + 1 <= Len(text) + 1 /\ text[i + 1 - 1] = QUOTE
    BY <1>3, <1>9 DEF Occurs
  <2>2. last + 1 <= Len(text) + 1 /\ text[last + 1 - 1] = QUOTE
    BY <1>3, <1>9 DEF Occurs
  <2>3. last \in Nat \ {0} /\ last + 1 - 1 = last /\ i + 1 - 1 = i
    BY <1>8
  <2>. QED  BY <1>1, <2>1, <2>2, <2>3
<1>11. ReadTo(text, i + 1, "open", <<>>, fields, done) # {}
  BY <1>10, PlainRead
<1>12. PICK place \in [0 .. N -> Nat \ {0}] :
              /\ place[0] = i + 1 /\ place[N] = last
              /\ \A n \in 1 .. N : /\ place[n] = place[n - 1] + Len(pieces[n])
                                   /\ Occurs(text, place[n - 1], pieces[n])
  <2>1. i + 1 \in Nat \ {0}
    OBVIOUS
  <2>2. Occurs(text, i + 1, FlattenSeq(pieces))
    BY <1>9 DEF body
  <2>3. PICK place \in [0 .. Len(pieces) -> Nat \ {0}] :
               /\ place[0] = i + 1 /\ place[Len(pieces)] = i + 1 + Len(FlattenSeq(pieces))
               /\ \A n \in 1 .. Len(pieces) :
                      /\ place[n] = place[n - 1] + Len(pieces[n])
                      /\ Occurs(text, place[n - 1], pieces[n])
    BY <1>4, <2>1, <2>2, OccursPieces
  <2>. QED  BY <1>4, <2>3 DEF body
<1>. HIDE DEF last
<1>. DEFINE T == {j \in 0 .. N :
                      ReadTo(text, place[j], "open", FirstOf(value, j), fields, done) # {}}
<1>13. 0 \in T
  BY <1>1, <1>11, <1>12
<1>14. ASSUME NEW j \in 1 .. N, j - 1 \in T PROVE j \in T
  <2>. DEFINE k == place[j - 1]
              field == FirstOf(value, j - 1)
  <2>1. j - 1 \in 0 .. N
    BY <1>1
  <2>2. /\ k \in Nat \ {0} /\ place[j] = k + Len(pieces[j])
        /\ k + Len(pieces[j]) <= Len(text) + 1
        /\ \A m \in 1 .. Len(pieces[j]) : text[k + m - 1] = pieces[j][m]
    BY <1>12, <2>1 DEF Occurs
  <2>3. ReadTo(text, k, "open", field, fields, done) # {}
    BY <1>14
  <2>4. Append(field, value[j]) = FirstOf(value, j)
    BY <1>1
  <2>. HIDE DEF k, field
  <2>5. CASE value[j] = QUOTE
    <3>1. Len(pieces[j]) = 2 /\ pieces[j][1] = QUOTE /\ pieces[j][2] = QUOTE
      BY <1>5, <2>5
    <3>2. text[k + 1 - 1] = QUOTE /\ text[k + 2 - 1] = QUOTE /\ k + 2 <= Len(text) + 1
      BY <2>2, <3>1
    <3>3. /\ k \in 1 .. Len(text) /\ k + 1 <= Len(text) /\ text[k] = QUOTE /\ text[k + 1] = QUOTE
          /\ place[j] = k + 2
      <4>1. k + 1 - 1 = k /\ k + 2 - 1 = k + 1
        BY <2>2
      <4>2. k \in 1 .. Len(text) /\ k + 1 <= Len(text)
        <5>1. k \in Nat \ {0} /\ k + 2 <= Len(text) + 1 /\ Len(text) \in Nat
          BY <1>1, <2>2, <3>2
        <5>. QED  BY <5>1
      <4>3. text[k] = QUOTE /\ text[k + 1] = QUOTE
        BY <3>2, <4>1, Zenon
      <4>. QED  BY <2>2, <3>1, <4>2, <4>3
    <3>4. ReadTo(text, k + 2, "open", Append(field, QUOTE), fields, done) # {}
      BY <2>3, <3>3, QuotedRead DEF CharAt
    <3>5. ReadTo(text, place[j], "open", FirstOf(value, j), fields, done) # {}
      BY <2>4, <2>5, <3>3, <3>4, Zenon
    <3>. QED  BY <1>1, <3>5
  <2>6. CASE value[j] # QUOTE
    <3>1. Len(pieces[j]) = 1 /\ pieces[j][1] = value[j]
      BY <1>5, <2>6
    <3>2. text[k + 1 - 1] = value[j] /\ k + 1 <= Len(text) + 1
      BY <2>2, <3>1
    <3>3. k \in 1 .. Len(text) /\ text[k] = value[j] /\ place[j] = k + 1
      <4>1. k + 1 - 1 = k
        BY <2>2
      <4>2. k \in 1 .. Len(text)
        <5>1. k \in Nat \ {0} /\ k + 1 <= Len(text) + 1 /\ Len(text) \in Nat
          BY <1>1, <2>2, <3>2
        <5>. QED  BY <5>1
      <4>3. text[k] = value[j]
        BY <3>2, <4>1, Zenon
      <4>. QED  BY <2>2, <3>1, <4>2, <4>3
    <3>4. ReadTo(text, k + 1, "open", Append(field, text[k]), fields, done) # {}
      BY <2>3, <2>6, <3>3, QuotedRead
    <3>5. ReadTo(text, place[j], "open", FirstOf(value, j), fields, done) # {}
      BY <2>4, <3>3, <3>4, Zenon
    <3>. QED  BY <1>1, <3>5
  <2>. QED  BY <2>5, <2>6
<1>15. \A j \in 0 .. N : j \in T
  <2>. HIDE DEF T
  <2>. QED  BY <1>1, <1>13, <1>14, Induction
<1>16. ReadTo(text, last, "open", value, fields, done) # {}
  BY <1>1, <1>12, <1>15
<1>17. last + 1 = i + Len(Quoted(value))
  BY <1>8 DEF last
<1>. QED  BY <1>10, <1>16, <1>17, QuotedRead

\* A quoted value begins with a quote.
LEMMA QuotedType ==
    ASSUME NEW value \in Texts
    PROVE  Quoted(value) \in Texts /\ Len(Quoted(value)) > 0 /\ Quoted(value)[1] = QUOTE
<1>. DEFINE pieces == [k \in DOMAIN value |-> IF value[k] = QUOTE THEN <<QUOTE, QUOTE>>
                                              ELSE <<value[k]>>]
            body == FlattenSeq(pieces)
            quote == <<QUOTE>>
<1>1. /\ DOMAIN value = 1 .. Len(value) /\ Len(value) \in Nat
      /\ QUOTE \in Chars /\ \A k \in 1 .. Len(value) : value[k] \in Chars
  BY ElementOfSeq, LenProperties DEF Texts, Chars
<1>2. quote \in Seq(Chars) /\ Len(quote) = 1 /\ quote[1] = QUOTE
  BY <1>1, ShortWords DEF Texts
<1>3. pieces \in Seq(Seq(Chars))
  <2>1. \A k \in 1 .. Len(value) : pieces[k] \in Texts
    BY <1>1, ShortWords
  <2>2. pieces = [k \in 1 .. Len(value) |-> pieces[k]]
    BY <1>1
  <2>. HIDE DEF pieces
  <2>3. pieces \in [1 .. Len(value) -> Seq(Chars)]
    BY <2>1, <2>2 DEF Texts
  <2>. QED  BY <1>1, <2>3, ListOf
<1>4. Quoted(value) = (quote \o body) \o quote
  BY DEF Quoted
<1>. HIDE DEF pieces, quote
<1>5. body \in Seq(Chars)
  <2>1. Len(pieces) \in 0 .. Len(pieces)
    BY <1>3, LenProperties
  <2>2. PICK flat \in [0 .. Len(pieces) -> Seq(Chars)] : body = flat[Len(pieces)]
    BY <1>3, FlattenSteps
  <2>. QED  BY <2>1, <2>2
<1>. HIDE DEF body
<1>. DEFINE u == quote \o body
<1>6. u \in Seq(Chars) /\ Len(u) = 1 + Len(body) /\ u[1] = QUOTE /\ Len(body) \in Nat
  <2>1. 1 \in 1 .. Len(quote) + Len(body) /\ 1 <= Len(quote) /\ Len(body) \in Nat
    BY <1>2, <1>5, LenProperties
  <2>. QED  BY <1>2, <1>5, <2>1, ConcatProperties
<1>. HIDE DEF u
<1>7. u \o quote \in Seq(Chars) /\ Len(u \o quote) = Len(u) + 1 /\ (u \o quote)[1] = QUOTE
  <2>1. 1 \in 1 .. Len(u) + Len(quote) /\ 1 <= Len(u)
    BY <1>2, <1>6
  <2>. QED  BY <1>2, <1>6, <2>1, ConcatProperties
<1>. QED  BY <1>4, <1>6, <1>7 DEF u, Texts

\* A field is written with quotes, or as it stands when it needs none.
LEMMA WrittenField ==
    ASSUME NEW value \in Texts, NEW style, style.damage = "none", NEW spot
    PROVE  /\ WriteField(value, style, spot) \in Texts
           /\ \/ WriteField(value, style, spot) = Quoted(value)
              \/ WriteField(value, style, spot) = value /\ ~NeedsQuotes(value)
<1>1. WriteField(value, style, spot) =
          IF style.always \/ NeedsQuotes(value) THEN Quoted(value) ELSE value
  BY DEF WriteField
<1>. QED  BY <1>1, QuotedType

\* A text is read up to the end of a field, quoted or not.
FieldDone(text, i, field, fields, done) ==
    \E mode \in {"plain", "closed"} : ReadTo(text, i, mode, field, fields, done) # {}

\* A field is read back as it was written.
LEMMA FieldRead ==
    ASSUME NEW text \in Texts, NEW i \in Nat \ {0}, NEW value \in Texts,
           NEW style, style.damage = "none", NEW spot,
           Occurs(text, i, WriteField(value, style, spot)),
           FieldEnds(text, i + Len(WriteField(value, style, spot))),
           NEW fields \in Seq(Texts), NEW done \in Seq(Seq(Texts)),
           ReadTo(text, i, "plain", <<>>, fields, done) # {}
    PROVE  FieldDone(text, i + Len(WriteField(value, style, spot)), value, fields, done)
<1>. DEFINE w == WriteField(value, style, spot)
<1>1. w = Quoted(value) \/ (w = value /\ ~NeedsQuotes(value))
  BY WrittenField
<1>2. Occurs(text, i, w) /\ FieldEnds(text, i + Len(w))
  OBVIOUS
<1>. HIDE DEF w
<1>3. CASE w = Quoted(value)
  <2>1. ReadTo(text, i + Len(w), "closed", value, fields, done) # {}
    BY <1>2, <1>3, QuotedFieldRead
  <2>. QED  BY <2>1 DEF w, FieldDone
<1>4. CASE w = value /\ ~NeedsQuotes(value)
  <2>1. ReadTo(text, i + Len(w), "plain", value, fields, done) # {}
    BY <1>2, <1>4, PlainFieldRead
  <2>. QED  BY <2>1 DEF w, FieldDone
<1>. QED  BY <1>1, <1>3, <1>4

\* The fields of a record, with what parts them.
PiecesOf(values, style, r) ==
    [k \in DOMAIN values |-> (IF k > 1 THEN <<DELIMITER>> ELSE <<>>)
                             \o WriteField(values[k], style, <<r, k>>)]

\* A record's text is that of its fields, each after the first with a delimiter.
LEMMA PiecesType ==
    ASSUME NEW values \in Seq(Texts), NEW style, style.damage = "none", NEW r
    PROVE  /\ PiecesOf(values, style, r) \in Seq(Texts)
           /\ Len(PiecesOf(values, style, r)) = Len(values)
           /\ WriteRecord(values, style, r) = FlattenSeq(PiecesOf(values, style, r))
           /\ WriteRecord(values, style, r) \in Texts
           /\ <<DELIMITER>> \in Texts /\ Len(<<DELIMITER>>) = 1 /\ <<DELIMITER>>[1] = DELIMITER
<1>. DEFINE N == Len(values)
            pieces == PiecesOf(values, style, r)
<1>1. N \in Nat /\ DOMAIN values = 1 .. N /\ \A k \in 1 .. N : values[k] \in Texts
  BY ElementOfSeq, LenProperties
<1>2. <<DELIMITER>> \in Texts /\ Len(<<DELIMITER>>) = 1 /\ <<DELIMITER>>[1] = DELIMITER
  <2>1. DELIMITER \in Chars
    BY DEF DELIMITER, Chars
  <2>. QED  BY <2>1, ShortWords
<1>3. ASSUME NEW k \in 1 .. N
      PROVE  (IF k > 1 THEN <<DELIMITER>> ELSE <<>>) \o WriteField(values[k], style, <<r, k>>)
             \in Texts
  <2>. DEFINE w == WriteField(values[k], style, <<r, k>>)
              comma == IF k > 1 THEN <<DELIMITER>> ELSE <<>>
  <2>1. w \in Texts
    BY <1>1, WrittenField
  <2>2. comma \in Texts
    BY <1>2, EmptySeq DEF Texts
  <2>. HIDE DEF w, comma
  <2>3. comma \o w \in Texts
    BY <2>1, <2>2, ConcatProperties DEF Texts
  <2>. QED  BY <2>3 DEF w, comma
<1>4. pieces \in Seq(Texts) /\ Len(pieces) = N
  <2>1. pieces \in [1 .. N -> Texts]
    BY <1>1, <1>3 DEF PiecesOf
  <2>. QED  BY <1>1, <2>1, ListOf
<1>5. WriteRecord(values, style, r) = FlattenSeq(pieces)
  BY DEF WriteRecord, PiecesOf
<1>. HIDE DEF pieces
<1>6. FlattenSeq(pieces) \in Texts
  <2>1. Len(pieces) \in 0 .. Len(pieces) /\ pieces \in Seq(Seq(Chars))
    BY <1>1, <1>4 DEF Texts
  <2>2. PICK flat \in [0 .. Len(pieces) -> Seq(Chars)] : FlattenSeq(pieces) = flat[Len(pieces)]
    BY <2>1, FlattenSteps
  <2>. QED  BY <2>1, <2>2 DEF Texts
<1>. QED  BY <1>2, <1>4, <1>5, <1>6 DEF pieces, N

\* The places at which the fields of a record end in a text, and where each begins:
\* after a comma, but for the first.
FieldStart(place, k) == IF k = 1 THEN place[0] ELSE place[k - 1] + 1

RecordPlaces(text, i, values, style, r) ==
    {place \in [0 .. Len(values) -> Nat \ {0}] :
        /\ place[0] = i /\ place[Len(values)] = i + Len(WriteRecord(values, style, r))
        /\ \A k \in 1 .. Len(values) :
               /\ Occurs(text, FieldStart(place, k), WriteField(values[k], style, <<r, k>>))
               /\ place[k] = FieldStart(place, k) + Len(WriteField(values[k], style, <<r, k>>))
               /\ k > 1 => place[k - 1] \in 1 .. Len(text) /\ text[place[k - 1]] = DELIMITER}

\* A record that stands in a text has such places.
LEMMA RecordHasPlaces ==
    ASSUME NEW text \in Texts, NEW i \in Nat \ {0},
           NEW values \in Seq(Texts), NEW style, style.damage = "none", NEW r,
           Occurs(text, i, WriteRecord(values, style, r))
    PROVE  RecordPlaces(text, i, values, style, r) # {}
<1>. DEFINE N == Len(values)
            pieces == PiecesOf(values, style, r)
            comma(k) == IF k > 1 THEN <<DELIMITER>> ELSE <<>>
            w(k) == WriteField(values[k], style, <<r, k>>)
<1>1. /\ N \in Nat /\ DOMAIN values = 1 .. N /\ Len(text) \in Nat
      /\ \A k \in 1 .. N : values[k] \in Texts
  BY ElementOfSeq, LenProperties DEF Texts
<1>2. /\ pieces \in Seq(Texts) /\ Len(pieces) = N
      /\ WriteRecord(values, style, r) = FlattenSeq(pieces)
      /\ <<DELIMITER>> \in Texts /\ Len(<<DELIMITER>>) = 1 /\ <<DELIMITER>>[1] = DELIMITER
  BY PiecesType
<1>3. \A k \in 1 .. N : pieces[k] = comma(k) \o w(k)
  BY <1>1 DEF PiecesOf
<1>. HIDE DEF pieces
<1>4. PICK place \in [0 .. N -> Nat \ {0}] :
             /\ place[0] = i /\ place[N] = i + Len(FlattenSeq(pieces))
             /\ \A k \in 1 .. N : /\ place[k] = place[k - 1] + Len(pieces[k])
                                  /\ Occurs(text, place[k - 1], pieces[k])
  <2>1. Occurs(text, i, FlattenSeq(pieces))
    BY <1>2
  <2>2. PICK place \in [0 .. Len(pieces) -> Nat \ {0}] :
               /\ place[0] = i /\ place[Len(pieces)] = i + Len(FlattenSeq(pieces))
               /\ \A k \in 1 .. Len(pieces) :
                      /\ place[k] = place[k - 1] + Len(pieces[k])
                      /\ Occurs(text, place[k - 1], pieces[k])
    BY <1>2, <2>1, OccursPieces
  <2>. QED  BY <1>2, <2>2
<1>. DEFINE start == [k \in 1 .. N |-> place[k - 1] + Len(comma(k))]
<1>5. ASSUME NEW k \in 1 .. N
      PROVE  /\ place[k - 1] + Len(comma(k)) \in Nat \ {0}
             /\ Occurs(text, start[k], w(k)) /\ place[k] = start[k] + Len(w(k))
             /\ k = 1 => start[k] = place[k - 1]
             /\ k > 1 => /\ start[k] = place[k - 1] + 1
                         /\ place[k - 1] \in 1 .. Len(text)
                         /\ text[place[k - 1]] = DELIMITER
  <2>. DEFINE p == place[k - 1]
              c == comma(k)
              v == w(k)
  <2>1. k - 1 \in 0 .. N
    BY <1>1
  <2>2. p \in Nat \ {0} /\ place[k] = p + Len(pieces[k]) /\ Occurs(text, p, pieces[k])
    BY <1>4, <2>1
  <2>3. v \in Texts
    BY <1>1, WrittenField
  <2>4. c \in Texts /\ Len(c) = (IF k > 1 THEN 1 ELSE 0) /\ (k > 1 => c[1] = DELIMITER)
    BY <1>2, EmptySeq DEF Texts
  <2>5. pieces[k] = c \o v
    BY <1>3
  <2>6. start[k] = p + Len(c)
    OBVIOUS
  <2>. HIDE DEF p, c, v, start, comma, w
  <2>7. Occurs(text, p, c) /\ Occurs(text, p + Len(c), v)
    <3>1. Occurs(text, p, c \o v)
      BY <2>2, <2>5, Zenon
    <3>. QED  BY <2>2, <2>3, <2>4, <3>1, OccursParts
  <2>8. Len(pieces[k]) = Len(c) + Len(v) /\ Len(v) \in Nat /\ Len(c) \in Nat
    BY <2>3, <2>4, <2>5, ConcatProperties, LenProperties DEF Texts
  <2>9. place[k] = start[k] + Len(v)
    <3>1. place[k] = p + (Len(c) + Len(v))
      BY <2>2, <2>8
    <3>2. \A a, b \in Nat : p + (a + b) = (p + a) + b
      BY <2>2
    <3>. QED  BY <2>6, <2>8, <3>1, <3>2, Zenon
  <2>10. k > 1 => p \in 1 .. Len(text) /\ text[p] = DELIMITER
    <3>1. k > 1 => p + 1 <= Len(text) + 1 /\ text[p + 1 - 1] = DELIMITER
      BY <2>4, <2>7 DEF Occurs
    <3>2. p + 1 - 1 = p
      BY <2>2
    <3>. QED  BY <1>1, <2>2, <3>1, <3>2
  <2>11. Occurs(text, start[k], v)
    BY <2>6, <2>7
  <2>12. /\ k = 1 => start[k] = p
         /\ k > 1 => start[k] = p + 1
         /\ p + Len(c) \in Nat \ {0}
    BY <2>2, <2>4, <2>6, <2>8
  <2>. QED  BY <2>9, <2>10, <2>11, <2>12 DEF p, c, v
<1>6. ASSUME NEW k \in 1 .. N PROVE start[k] = FieldStart(place, k)
  <2>1. k = 1 => start[k] = place[0]
    <3>1. 1 - 1 = 0
      OBVIOUS
    <3>. QED  BY <1>5, <3>1
  <2>2. k # 1 => start[k] = place[k - 1] + 1
    BY <1>1, <1>5
  <2>. HIDE DEF start
  <2>. QED  BY <2>1, <2>2 DEF FieldStart
<1>. HIDE DEF start, N
<1>7. \A k \in 1 .. N :
          /\ Occurs(text, FieldStart(place, k), w(k))
          /\ place[k] = FieldStart(place, k) + Len(w(k))
          /\ k > 1 => place[k - 1] \in 1 .. Len(text) /\ text[place[k - 1]] = DELIMITER
  BY <1>5, <1>6
<1>8. place[0] = i /\ place[N] = i + Len(WriteRecord(values, style, r))
  BY <1>2, <1>4
<1>9. place \in RecordPlaces(text, i, values, style, r)
  BY <1>4, <1>7, <1>8 DEF N, RecordPlaces
<1>. QED  BY <1>9

\* A record is read back field by field.
LEMMA RecordRead ==
    ASSUME NEW text \in Texts, NEW i \in Nat \ {0},
           NEW values \in Seq(Texts), Len(values) > 1,
           NEW style, style.damage = "none", NEW r,
           Occurs(text, i, WriteRecord(values, style, r)),
           FieldEnds(text, i + Len(WriteRecord(values, style, r))),
           NEW done \in Seq(Seq(Texts)), ReadTo(text, i, "plain", <<>>, <<>>, done) # {}
    PROVE  FieldDone(text, i + Len(WriteRecord(values, style, r)), values[Len(values)],
                     FirstOf(values, Len(values) - 1), done)
<1>. DEFINE N == Len(values)
            w(k) == WriteField(values[k], style, <<r, k>>)
            finish == i + Len(WriteRecord(values, style, r))
<1>1. /\ N \in Nat /\ DOMAIN values = 1 .. N /\ Len(text) \in Nat
      /\ \A k \in 1 .. N : values[k] \in Texts
  BY ElementOfSeq, LenProperties DEF Texts
<1>2. /\ FirstOf(values, 0) = <<>>
      /\ \A k \in 0 .. N : FirstOf(values, k) \in Seq(Texts)
      /\ \A k \in 1 .. N : FirstOf(values, k) = Append(FirstOf(values, k - 1), values[k])
  BY FirstOfGrows
<1>3. PICK place \in RecordPlaces(text, i, values, style, r) : TRUE
  BY RecordHasPlaces
<1>. DEFINE start(k) == FieldStart(place, k)
<1>10. /\ place \in [0 .. N -> Nat \ {0}] /\ place[0] = i /\ place[N] = finish
       /\ \A k \in 1 .. N :
              /\ Occurs(text, start(k), w(k)) /\ place[k] = start(k) + Len(w(k))
              /\ k > 1 => place[k - 1] \in 1 .. Len(text) /\ text[place[k - 1]] = DELIMITER
  BY <1>3, Zenon DEF RecordPlaces
<1>4. FieldEnds(text, finish) /\ N > 1
  OBVIOUS
<1>. HIDE DEF finish, N
<1>5. ASSUME NEW k \in 1 .. N PROVE FieldEnds(text, place[k])
  <2>1. CASE k = N
    BY <1>10, <1>4, <2>1
  <2>2. CASE k # N
    <3>1. k + 1 \in 1 .. N /\ k + 1 > 1 /\ k + 1 - 1 = k
      BY <1>1, <2>2
    <3>2. \A n \in 1 .. N : n > 1 => place[n - 1] \in 1 .. Len(text) /\ text[place[n - 1]] = DELIMITER
      BY <1>10
    <3>3. place[k] <= Len(text) /\ text[place[k]] = DELIMITER
      <4>1. place[k] \in 1 .. Len(text) /\ text[place[k]] = DELIMITER
        BY <3>1, <3>2
      <4>. QED  BY <1>1, <4>1
    <3>4. CharAt(text, place[k]) = DELIMITER
      BY <3>3 DEF CharAt
    <3>. QED  BY <3>4, Zenon DEF FieldEnds
  <2>. QED  BY <2>1, <2>2
<1>. DEFINE After(k) == FieldDone(text, place[k], values[k], FirstOf(values, k - 1), done)
            T == {k \in 0 .. N : k > 0 => After(k)}
<1>6. ASSUME NEW k \in 1 .. N,
             ReadTo(text, start(k), "plain", <<>>, FirstOf(values, k - 1), done) # {}
      PROVE  After(k)
  <2>1. /\ start(k) \in Nat \ {0} /\ values[k] \in Texts /\ FirstOf(values, k - 1) \in Seq(Texts)
    <3>1. k - 1 \in 0 .. N /\ 0 \in 0 .. N
      BY <1>1
    <3>2. place[0] \in Nat \ {0} /\ place[k - 1] \in Nat \ {0}
      BY <1>10, <3>1
    <3>3. start(k) \in Nat \ {0}
      BY <3>2 DEF FieldStart
    <3>. QED  BY <1>1, <1>2, <3>1, <3>3
  <2>2. Occurs(text, start(k), w(k)) /\ place[k] = start(k) + Len(w(k))
    BY <1>10
  <2>3. FieldEnds(text, start(k) + Len(w(k)))
    BY <1>5, <2>2
  <2>. DEFINE b == start(k)
              v == values[k]
              before == FirstOf(values, k - 1)
              spot == <<r, k>>
  <2>. HIDE DEF b, v, before, spot
  <2>4. /\ b \in Nat \ {0} /\ v \in Texts /\ before \in Seq(Texts)
        /\ Occurs(text, b, WriteField(v, style, spot))
        /\ FieldEnds(text, b + Len(WriteField(v, style, spot)))
        /\ ReadTo(text, b, "plain", <<>>, before, done) # {}
    BY <1>6, <2>1, <2>2, <2>3, Zenon DEF b, v, before, spot
  <2>5. FieldDone(text, b + Len(WriteField(v, style, spot)), v, before, done)
    BY <2>4, FieldRead
  <2>6. place[k] = b + Len(WriteField(v, style, spot))
    BY <2>2, Zenon DEF b, v, spot
  <2>. QED  BY <2>5, <2>6, Zenon DEF v, before
<1>7. 0 \in T
  BY <1>1
<1>8. ASSUME NEW k \in 1 .. N, k - 1 \in T PROVE k \in T
  <2>1. CASE k = 1
    <3>1. start(1) = place[0] /\ 1 \in 1 .. N
      BY <1>1, <1>4 DEF FieldStart
    <3>2. FirstOf(values, 1 - 1) = <<>>
      BY <1>2
    <3>3. ReadTo(text, start(1), "plain", <<>>, FirstOf(values, 1 - 1), done) # {}
      BY <1>10, <3>1, <3>2, Zenon
    <3>4. After(1)
      <4>. HIDE DEF After
      <4>. QED  BY <1>6, <3>1, <3>3
    <3>. QED  BY <1>1, <2>1, <3>1, <3>4
  <2>2. CASE k # 1
    <3>. DEFINE m == k - 1
                p == place[m]
    <3>1. m \in 1 .. N /\ k > 1 /\ m \in 0 .. N /\ m > 0
      BY <1>1, <2>2
    <3>2. After(m)
      BY <1>8, <3>1
    <3>3. PICK mode \in {"plain", "closed"} :
                 ReadTo(text, p, mode, values[m], FirstOf(values, m - 1), done) # {}
      BY <3>2 DEF FieldDone
    <3>4. start(k) = p + 1 /\ p \in 1 .. Len(text) /\ text[p] = DELIMITER
      <4>1. k # 1 => start(k) = place[k - 1] + 1
        BY DEF FieldStart
      <4>2. \A n \in 1 .. N : n > 1 => place[n - 1] \in 1 .. Len(text) /\ text[place[n - 1]] = DELIMITER
        BY <1>10
      <4>. QED  BY <2>2, <3>1, <4>1, <4>2
    <3>5. FirstOf(values, m - 1) \in Seq(Texts)
      <4>1. m - 1 \in 0 .. N
        BY <1>1, <3>1
      <4>. QED  BY <1>2, <4>1
    <3>6. Append(FirstOf(values, m - 1), values[m]) = FirstOf(values, m)
      BY <1>2, <3>1
    <3>. HIDE DEF p, After
    <3>7. ReadTo(text, p + 1, "plain", <<>>, Append(FirstOf(values, m - 1), values[m]), done) # {}
      <4>. HIDE DEF m
      <4>. QED  BY <3>3, <3>4, <3>5, PlainRead
    <3>8. ReadTo(text, start(k), "plain", <<>>, FirstOf(values, k - 1), done) # {}
      BY <3>4, <3>6, <3>7, Zenon
    <3>9. After(k)
      BY <1>6, <3>8
    <3>. QED  BY <1>1, <3>9
  <2>. QED  BY <2>1, <2>2
<1>9. After(N)
  <2>1. N \in 0 .. N /\ N > 0
    BY <1>1, <1>4
  <2>2. N \in T
    <3>. HIDE DEF T
    <3>1. \A k \in 0 .. N : k \in T
      BY <1>1, <1>7, <1>8, Induction
    <3>. QED  BY <2>1, <3>1
  <2>. HIDE DEF After
  <2>. QED  BY <2>1, <2>2
<1>. QED  BY <1>10, <1>9 DEF finish, N

\* A record does not begin with a line feed.
LEMMA RecordStart ==
    ASSUME NEW text \in Texts, NEW i \in Nat \ {0},
           NEW values \in Seq(Texts), Len(values) > 1,
           NEW style, style.damage = "none", NEW r,
           Occurs(text, i, WriteRecord(values, style, r))
    PROVE  i \in 1 .. Len(text) /\ text[i] # "lf"
<1>. DEFINE N == Len(values)
            w == WriteField(values[1], style, <<r, 1>>)
<1>1. N \in Nat /\ Len(text) \in Nat /\ 1 \in 1 .. N /\ 2 \in 1 .. N /\ values[1] \in Texts
  BY ElementOfSeq, LenProperties DEF Texts
<1>2. PICK place \in RecordPlaces(text, i, values, style, r) : TRUE
  BY RecordHasPlaces
<1>10. /\ place \in [0 .. N -> Nat \ {0}] /\ place[0] = i
       /\ \A k \in 1 .. N :
              LET v == WriteField(values[k], style, <<r, k>>) IN
              /\ Occurs(text, FieldStart(place, k), v) /\ place[k] = FieldStart(place, k) + Len(v)
              /\ k > 1 => place[k - 1] \in 1 .. Len(text) /\ text[place[k - 1]] = DELIMITER
  BY <1>2, Zenon DEF RecordPlaces
<1>3. Occurs(text, i, w) /\ place[1] = i + Len(w)
  <2>1. Occurs(text, FieldStart(place, 1), w) /\ place[1] = FieldStart(place, 1) + Len(w)
    BY <1>1, <1>10
  <2>2. FieldStart(place, 1) = i
    BY <1>10 DEF FieldStart
  <2>. QED  BY <2>1, <2>2
<1>4. place[1] \in 1 .. Len(text) /\ text[place[1]] = DELIMITER
  <2>1. 2 > 1 /\ 2 - 1 = 1
    OBVIOUS
  <2>2. \A n \in 1 .. N : n > 1 => place[n - 1] \in 1 .. Len(text) /\ text[place[n - 1]] = DELIMITER
    BY <1>10
  <2>. QED  BY <1>1, <2>1, <2>2
<1>5. w \in Texts /\ (w = Quoted(values[1]) \/ (w = values[1] /\ ~NeedsQuotes(values[1])))
  BY <1>1, WrittenField
<1>6. Len(w) \in Nat
  BY <1>5, LenProperties DEF Texts
<1>. HIDE DEF w, N
<1>7. CASE Len(w) = 0
  <2>1. place[1] = i
    BY <1>3, <1>7
  <2>. QED  BY <1>4, <2>1 DEF DELIMITER
<1>8. CASE Len(w) > 0
  <2>1. i \in 1 .. Len(text)
    BY <1>1, <1>3, <1>6, <1>8 DEF Occurs
  <2>2. text[i] = w[1]
    <3>1. 1 \in 1 .. Len(w) /\ i + 1 - 1 = i
      BY <1>6, <1>8
    <3>. QED  BY <1>3, <3>1 DEF Occurs
  <2>3. CASE w = Quoted(values[1])
    BY <1>1, <2>1, <2>2, <2>3, QuotedType DEF QUOTE
  <2>4. CASE w = values[1] /\ ~NeedsQuotes(values[1])
    <3>1. 1 \in DOMAIN values[1]
      BY <1>1, <1>8, <2>4, LenProperties DEF Texts
    <3>2. w[1] \notin LineEnds
      BY <2>4, <3>1 DEF NeedsQuotes
    <3>. QED  BY <2>1, <2>2, <3>2 DEF LineEnds
  <2>. QED  BY <1>5, <2>3, <2>4
<1>. QED  BY <1>6, <1>7, <1>8

\* The ends of lines, as words.
LineWords == {<<"cr">>, <<"lf">>, <<"cr", "lf">>}

\* A line end is a character or two.
LEMMA LineWord ==
    ASSUME NEW eol \in LineWords
    PROVE  /\ eol \in Texts /\ Len(eol) \in {1, 2} /\ eol[1] \in LineEnds
           /\ eol = <<"cr">> => Len(eol) = 1 /\ eol[1] = "cr"
           /\ eol = <<"lf">> => Len(eol) = 1 /\ eol[1] = "lf"
           /\ eol = <<"cr", "lf">> => Len(eol) = 2 /\ eol[1] = "cr" /\ eol[2] = "lf"
<1>1. "cr" \in Chars /\ "lf" \in Chars
  BY DEF Chars
<1>2. <<"cr">> \in Texts /\ Len(<<"cr">>) = 1 /\ <<"cr">>[1] = "cr"
  BY <1>1, ShortWords
<1>3. <<"lf">> \in Texts /\ Len(<<"lf">>) = 1 /\ <<"lf">>[1] = "lf"
  BY <1>1, ShortWords
<1>4. /\ <<"cr", "lf">> \in Texts /\ Len(<<"cr", "lf">>) = 2
      /\ <<"cr", "lf">>[1] = "cr" /\ <<"cr", "lf">>[2] = "lf"
  BY <1>1, ShortWords
<1>5. CASE eol = <<"cr">>
  <2>1. eol # <<"lf">> /\ eol # <<"cr", "lf">>
    BY <1>2, <1>3, <1>4, <1>5
  <2>. QED  BY <1>2, <1>5, <2>1 DEF LineEnds
<1>6. CASE eol = <<"lf">>
  <2>1. eol # <<"cr">> /\ eol # <<"cr", "lf">>
    BY <1>2, <1>3, <1>4, <1>6
  <2>. QED  BY <1>3, <1>6, <2>1 DEF LineEnds
<1>7. CASE eol = <<"cr", "lf">>
  <2>1. eol # <<"cr">> /\ eol # <<"lf">>
    BY <1>2, <1>3, <1>4, <1>7
  <2>. QED  BY <1>4, <1>7, <2>1 DEF LineEnds
<1>. QED  BY <1>5, <1>6, <1>7 DEF LineWords

\* A record and the end of its line are read back.
LEMMA LineRead ==
    ASSUME NEW text \in Texts, NEW i \in Nat \ {0},
           NEW values \in Seq(Texts), Len(values) > 1,
           NEW style, style.damage = "none", NEW r, NEW eol \in LineWords,
           Occurs(text, i, WriteRecord(values, style, r) \o eol),
           eol = <<"cr">> => CharAt(text, i + Len(WriteRecord(values, style, r) \o eol)) # "lf",
           NEW done \in Seq(Seq(Texts)), ReadTo(text, i, "plain", <<>>, <<>>, done) # {}
    PROVE  ReadTo(text, i + Len(WriteRecord(values, style, r) \o eol), "plain", <<>>, <<>>,
                  Append(done, values)) # {}
<1>. DEFINE record == WriteRecord(values, style, r)
            N == Len(values)
            fields == FirstOf(values, N - 1)
            field == values[N]
            p == i + Len(record)
            finish == i + Len(record \o eol)
<1>1. record \in Texts
  BY PiecesType
<1>2. /\ eol \in Texts /\ Len(eol) \in {1, 2} /\ eol[1] \in LineEnds
      /\ eol = <<"cr">> => Len(eol) = 1 /\ eol[1] = "cr"
      /\ eol = <<"lf">> => Len(eol) = 1 /\ eol[1] = "lf"
      /\ eol = <<"cr", "lf">> => Len(eol) = 2 /\ eol[1] = "cr" /\ eol[2] = "lf"
  BY LineWord
<1>3. /\ N \in Nat /\ N > 1 /\ fields \in Seq(Texts) /\ Len(fields) = N - 1
      /\ Append(fields, field) = values
  <2>1. N \in Nat /\ N > 1 /\ N - 1 \in 0 .. N /\ N \in 1 .. N
    BY LenProperties
  <2>. QED  BY <2>1, FirstOfGrows
<1>4. Occurs(text, i, record) /\ Occurs(text, p, eol)
  BY <1>1, <1>2, OccursParts
<1>5. Len(record) \in Nat /\ Len(text) \in Nat /\ finish = p + Len(eol) /\ p \in Nat \ {0}
  <2>1. Len(record) \in Nat /\ Len(text) \in Nat
    BY <1>1, LenProperties DEF Texts
  <2>2. Len(record \o eol) = Len(record) + Len(eol)
    BY <1>1, <1>2, ConcatProperties DEF Texts
  <2>. HIDE DEF record
  <2>. QED  BY <1>2, <2>1, <2>2
<1>6. eol = <<"cr">> => CharAt(text, finish) # "lf"
  OBVIOUS
<1>7. FieldDone(text, p, field, fields, done) \/ ~FieldEnds(text, p)
  BY <1>4, RecordRead
<1>. HIDE DEF record, N, fields, field, p, finish
<1>8. /\ p \in 1 .. Len(text) /\ text[p] = eol[1]
      /\ Len(eol) = 2 => p + 1 <= Len(text) /\ text[p + 1] = eol[2]
  <2>1. p + Len(eol) <= Len(text) + 1 /\ \A j \in 1 .. Len(eol) : text[p + j - 1] = eol[j]
    BY <1>4 DEF Occurs
  <2>2. 1 \in 1 .. Len(eol) /\ p + 1 - 1 = p
    BY <1>2, <1>5
  <2>3. text[p] = eol[1]
    BY <2>1, <2>2
  <2>4. Len(eol) = 2 => 2 \in 1 .. Len(eol) /\ p + 2 - 1 = p + 1
    BY <1>5
  <2>5. Len(eol) = 2 => text[p + 1] = eol[2]
    BY <2>1, <2>4
  <2>. QED  BY <1>2, <1>5, <2>1, <2>3, <2>5
<1>9. FieldEnds(text, p)
  <2>1. CharAt(text, p) = eol[1]
    BY <1>8 DEF CharAt
  <2>. QED  BY <1>2, <2>1, Zenon DEF FieldEnds
<1>10. PICK mode \in {"plain", "closed"} : ReadTo(text, p, mode, field, fields, done) # {}
  BY <1>7, <1>9 DEF FieldDone
<1>. DEFINE width == IF text[p] = "cr" /\ CharAt(text, p + 1) = "lf" THEN 2 ELSE 1
<1>11. ReadTo(text, p + width, "plain", <<>>, <<>>, Append(done, Append(fields, field))) # {}
  <2>1. text[p] \in LineEnds /\ Len(fields) > 0 /\ p \in 1 .. Len(text)
    BY <1>2, <1>3, <1>8
  <2>. QED  BY <1>3, <1>10, <2>1, PlainRead
<1>12. width = Len(eol)
  <2>1. CASE eol = <<"cr">>
    BY <1>2, <1>5, <1>6, <1>8, <2>1
  <2>2. CASE eol = <<"lf">>
    BY <1>2, <1>8, <2>2
  <2>3. CASE eol = <<"cr", "lf">>
    BY <1>2, <1>8, <2>3 DEF CharAt
  <2>. QED  BY <2>1, <2>2, <2>3 DEF LineWords
<1>13. p + width = finish
  BY <1>5, <1>12
<1>. HIDE DEF width
<1>14. ReadTo(text, finish, "plain", <<>>, <<>>, Append(done, values)) # {}
  BY <1>3, <1>11, <1>13, Zenon
<1>. QED  BY <1>14 DEF finish, record

\* The text is read to its end: no quote is open, and nothing was reported.
ReadsTo(text, done) == Whole(Scan(text).records, done) /\ Scan(text).errors = <<>>

\* The last line ends with a line end.
LEMMA LastLineEnds ==
    ASSUME NEW text \in Texts, NEW i, i = Len(text) + 1, NEW done \in Seq(Seq(Texts)),
           ReadTo(text, i, "plain", <<>>, <<>>, done) # {}
    PROVE  ReadsTo(text, done)
<1>1. PICK s \in ReadTo(text, i, "plain", <<>>, <<>>, done) : TRUE
  OBVIOUS
<1>2. /\ s \in Reached(text) /\ s \in ScanStates
      /\ s.i = i /\ s.fieldWasQuoted = FALSE /\ s.inQuotes = FALSE
      /\ s.field = <<>> /\ s.fields = <<>>
      /\ s.errors = <<>> /\ Whole(s.records, done)
  BY <1>1 DEF ReadTo, Reached
<1>3. Scan(text) = FinishScan(s)
  BY <1>2, LenProperties, ReachedEnd DEF Texts
<1>4. FinishScan(s) = s
  BY <1>2, Zenon DEF FinishScan
<1>. QED  BY <1>2, <1>3, <1>4, Zenon DEF ReadsTo

\* The last record has no line end.
LEMMA LastRecordRead ==
    ASSUME NEW text \in Texts, NEW i \in Nat \ {0},
           NEW values \in Seq(Texts), Len(values) > 1,
           NEW style, style.damage = "none", NEW r,
           Occurs(text, i, WriteRecord(values, style, r)),
           i + Len(WriteRecord(values, style, r)) = Len(text) + 1,
           NEW done \in Seq(Seq(Texts)), ReadTo(text, i, "plain", <<>>, <<>>, done) # {}
    PROVE  ReadsTo(text, Append(done, values))
<1>. DEFINE N == Len(values)
            fields == FirstOf(values, N - 1)
            field == values[N]
            p == i + Len(WriteRecord(values, style, r))
<1>1. /\ N \in Nat /\ N > 1 /\ fields \in Seq(Texts) /\ Len(fields) = N - 1
      /\ Append(fields, field) = values
  <2>1. N \in Nat /\ N > 1 /\ N - 1 \in 0 .. N /\ N \in 1 .. N
    BY LenProperties
  <2>. QED  BY <2>1, FirstOfGrows
<1>2. p = Len(text) + 1 /\ Len(text) \in Nat
  BY LenProperties DEF Texts
<1>3. FieldEnds(text, p)
  <2>. HIDE DEF p
  <2>1. ~(p <= Len(text))
    BY <1>2
  <2>. QED  BY <2>1, Zenon DEF FieldEnds, CharAt
<1>4. FieldDone(text, p, field, fields, done)
  BY <1>3, RecordRead
<1>. HIDE DEF N, fields, field, p
<1>5. PICK mode \in {"plain", "closed"} : ReadTo(text, p, mode, field, fields, done) # {}
  BY <1>4 DEF FieldDone
<1>6. PICK s \in ReadTo(text, p, mode, field, fields, done) : TRUE
  BY <1>5
<1>7. /\ s \in Reached(text) /\ s \in ScanStates
      /\ s.i = p /\ s.inQuotes = FALSE
      /\ s.field = field /\ s.fields = fields
      /\ s.errors = <<>> /\ Whole(s.records, done)
  BY <1>6 DEF ReadTo, Reached
<1>8. Scan(text) = FinishScan(s)
  BY <1>2, <1>7, ReachedEnd
<1>9. FinishScan(s) = EndRecord(s)
  <2>1. s.fields # <<>>
    BY <1>1, <1>7, EmptySeq
  <2>. QED  BY <1>7, <2>1, Zenon DEF FinishScan
<1>. DEFINE ended == EndRecord(s)
<1>10. ended.errors = <<>> /\ ended.records = Append(s.records, RawRecord(s))
  BY <1>7, EndRecordKeeps
<1>11. Whole(Append(s.records, RawRecord(s)), Append(done, Append(s.fields, s.field)))
  BY <1>1, <1>7, WholeGrows
<1>. HIDE DEF ended
<1>12. ended = Scan(text)
  BY <1>8, <1>9 DEF ended
<1>13. Append(s.fields, s.field) = values
  BY <1>1, <1>7
<1>. QED  BY <1>10, <1>11, <1>12, <1>13, Zenon DEF ReadsTo

\* The lines of a table.
LineEnd(records, style, r) == IF r < Len(records) \/ style.last THEN style.eol ELSE <<>>

LinesOf(records, style) ==
    [r \in DOMAIN records |-> WriteRecord(records[r], style, r) \o LineEnd(records, style, r)]

\* A table's text is that of its records, each with its line end.
LEMMA LinesType ==
    ASSUME NEW records \in Seq(Seq(Texts)), NEW style, style.damage = "none",
           style.eol \in LineWords
    PROVE  /\ LinesOf(records, style) \in Seq(Texts)
           /\ Len(LinesOf(records, style)) = Len(records)
           /\ \A r \in 1 .. Len(records) :
                  /\ LinesOf(records, style)[r]
                         = WriteRecord(records[r], style, r) \o LineEnd(records, style, r)
                  /\ WriteRecord(records[r], style, r) \in Texts
                  /\ LineEnd(records, style, r) \in Texts
<1>. DEFINE N == Len(records)
<1>1. N \in Nat /\ DOMAIN records = 1 .. N /\ \A r \in 1 .. N : records[r] \in Seq(Texts)
  BY ElementOfSeq, LenProperties
<1>2. style.eol \in Texts /\ <<>> \in Texts
  BY LineWord, EmptySeq DEF Texts
<1>3. ASSUME NEW r \in 1 .. N
      PROVE  /\ WriteRecord(records[r], style, r) \in Texts
             /\ LineEnd(records, style, r) \in Texts
             /\ WriteRecord(records[r], style, r) \o LineEnd(records, style, r) \in Texts
  <2>1. WriteRecord(records[r], style, r) \in Texts
    BY <1>1, PiecesType
  <2>2. LineEnd(records, style, r) \in Texts
    BY <1>2 DEF LineEnd
  <2>. QED  BY <2>1, <2>2, ConcatProperties DEF Texts
<1>4. LinesOf(records, style) \in [1 .. N -> Texts]
  BY <1>1, <1>3 DEF LinesOf
<1>5. LinesOf(records, style) \in Seq(Texts) /\ Len(LinesOf(records, style)) = N
  BY <1>1, <1>4, ListOf
<1>6. ASSUME NEW r \in 1 .. N
      PROVE  LinesOf(records, style)[r]
                 = WriteRecord(records[r], style, r) \o LineEnd(records, style, r)
  BY <1>1 DEF LinesOf
<1>. QED  BY <1>3, <1>5, <1>6

\* The reader starts at the beginning of a text.
LEMMA StartRead ==
    ASSUME NEW text \in Texts
    PROVE  ReadTo(text, 1, "plain", <<>>, <<>>, <<>>) # {}
<1>1. Len(text) \in Nat /\ 0 \in 0 .. Len(text)
  BY LenProperties DEF Texts
<1>2. ScanRun(text)[0] = ScanStart /\ ScanStart \in ScanStates
  BY ScanRunSteps
<1>3. ScanStart.i = 1
  BY DEF ScanStart
<1>4. ScanStart \in Reached(text)
  BY <1>1, <1>2, <1>3 DEF Reached
<1>5. Whole(<<>>, <<>>)
  BY DEF Whole
<1>6. ScanStart \in ReadTo(text, 1, "plain", <<>>, <<>>, <<>>)
  BY <1>4, <1>5 DEF ReadTo, ScanStart
<1>. QED  BY <1>6

\* A table is read back record by record.
LEMMA TableRead ==
    ASSUME NEW records \in Seq(Seq(Texts)), \A r \in DOMAIN records : Len(records[r]) > 1,
           NEW style, style.damage = "none", style.eol \in LineWords,
           NEW text \in Texts, text = FlattenSeq(LinesOf(records, style))
    PROVE  ReadsTo(text, records)
<1>. DEFINE N == Len(records)
            lines == LinesOf(records, style)
            record(r) == WriteRecord(records[r], style, r)
<1>1. /\ N \in Nat /\ Len(text) \in Nat
      /\ \A r \in 1 .. N : records[r] \in Seq(Texts) /\ Len(records[r]) > 1
  BY ElementOfSeq, LenProperties DEF Texts
<1>2. /\ lines \in Seq(Texts) /\ Len(lines) = N
      /\ \A r \in 1 .. N : /\ lines[r] = record(r) \o LineEnd(records, style, r)
                           /\ record(r) \in Texts /\ LineEnd(records, style, r) \in Texts
  BY LinesType
<1>3. /\ FirstOf(records, 0) = <<>> /\ FirstOf(records, N) = records
      /\ \A r \in 0 .. N : FirstOf(records, r) \in Seq(Seq(Texts))
      /\ \A r \in 1 .. N : FirstOf(records, r) = Append(FirstOf(records, r - 1), records[r])
  BY FirstOfGrows
<1>. HIDE DEF lines
<1>4. PICK place \in [0 .. N -> Nat \ {0}] :
             /\ place[0] = 1 /\ place[N] = 1 + Len(text)
             /\ \A r \in 1 .. N : /\ place[r] = place[r - 1] + Len(lines[r])
                                  /\ Occurs(text, place[r - 1], lines[r])
  <2>1. Occurs(text, 1, text)
    <3>1. \A j \in 1 .. Len(text) : 1 + j - 1 = j
      BY <1>1
    <3>2. \A j \in 1 .. Len(text) : text[1 + j - 1] = text[j]
      BY <3>1
    <3>. QED  BY <1>1, <3>2 DEF Occurs
  <2>2. text = FlattenSeq(lines)
    BY DEF lines
  <2>3. Occurs(text, 1, FlattenSeq(lines)) /\ 1 \in Nat \ {0}
    BY <2>1, <2>2
  <2>4. PICK place \in [0 .. Len(lines) -> Nat \ {0}] :
               /\ place[0] = 1 /\ place[Len(lines)] = 1 + Len(FlattenSeq(lines))
               /\ \A r \in 1 .. Len(lines) : /\ place[r] = place[r - 1] + Len(lines[r])
                                             /\ Occurs(text, place[r - 1], lines[r])
    BY <1>2, <2>3, OccursPieces
  <2>. QED  BY <1>2, <2>2, <2>4, Zenon
<1>. HIDE DEF N
<1>5. ASSUME NEW r \in 1 .. N
      PROVE  /\ r - 1 \in 0 .. N /\ place[r - 1] \in Nat \ {0}
             /\ Occurs(text, place[r - 1], record(r) \o LineEnd(records, style, r))
             /\ Occurs(text, place[r - 1], record(r))
             /\ place[r] = place[r - 1] + Len(record(r) \o LineEnd(records, style, r))
  <2>1. r - 1 \in 0 .. N
    BY <1>1
  <2>2. place[r - 1] \in Nat \ {0}
    BY <1>4, <2>1
  <2>3. Occurs(text, place[r - 1], record(r) \o LineEnd(records, style, r))
    BY <1>2, <1>4, Zenon
  <2>4. Occurs(text, place[r - 1], record(r))
    <3>. HIDE DEF record
    <3>. QED  BY <1>2, <2>2, <2>3, OccursParts
  <2>5. place[r] = place[r - 1] + Len(record(r) \o LineEnd(records, style, r))
    BY <1>2, <1>4, Zenon
  <2>. QED  BY <2>1, <2>2, <2>3, <2>4, <2>5, Zenon
<1>6. ASSUME NEW r \in 1 .. N PROVE CharAt(text, place[r]) # "lf"
  <2>. DEFINE p == place[r]
  <2>1. CASE r = N
    <3>1. ~(p <= Len(text))
      BY <1>1, <1>4, <2>1
    <3>2. "" # "lf"
      BY Zenon
    <3>. HIDE DEF p
    <3>3. CharAt(text, p) # "lf"
      BY <3>1, <3>2, Zenon DEF CharAt
    <3>. QED  BY <3>3 DEF p
  <2>2. CASE r # N
    <3>. DEFINE m == r + 1
                values == records[m]
    <3>1. m \in 1 .. N /\ m - 1 = r
      BY <1>1, <2>2
    <3>2. values \in Seq(Texts) /\ Len(values) > 1
      BY <1>1, <3>1
    <3>3. p \in Nat \ {0} /\ Occurs(text, p, WriteRecord(values, style, m))
      <4>1. place[m - 1] \in Nat \ {0} /\ Occurs(text, place[m - 1], record(m))
        <5>. HIDE DEF m, record
        <5>. QED  BY <1>5, <3>1
      <4>. HIDE DEF m
      <4>. QED  BY <3>1, <4>1
    <3>. HIDE DEF p, values, m
    <3>4. p \in 1 .. Len(text) /\ text[p] # "lf"
      BY <3>2, <3>3, RecordStart
    <3>5. p <= Len(text)
      BY <1>1, <3>4
    <3>6. CharAt(text, p) # "lf"
      BY <3>4, <3>5, Zenon DEF CharAt
    <3>. QED  BY <3>6 DEF p
  <2>. QED  BY <2>1, <2>2
<1>. DEFINE After(r) == ReadTo(text, place[r], "plain", <<>>, <<>>, FirstOf(records, r)) # {}
<1>7. ASSUME NEW r \in 1 .. N, r < N \/ style.last, After(r - 1) PROVE After(r)
  <2>. DEFINE i == place[r - 1]
              values == records[r]
              done == FirstOf(records, r - 1)
              eol == style.eol
  <2>1. LineEnd(records, style, r) = eol
    BY <1>7, Zenon DEF LineEnd, N
  <2>2. /\ i \in Nat \ {0} /\ Occurs(text, i, WriteRecord(values, style, r) \o eol)
        /\ place[r] = i + Len(WriteRecord(values, style, r) \o eol)
    BY <1>5, <2>1, Zenon
  <2>3. values \in Seq(Texts) /\ Len(values) > 1 /\ done \in Seq(Seq(Texts))
    BY <1>1, <1>3, <1>5
  <2>4. ReadTo(text, i, "plain", <<>>, <<>>, done) # {}
    BY <1>7
  <2>5. CharAt(text, i + Len(WriteRecord(values, style, r) \o eol)) # "lf"
    BY <1>6, <2>2, Zenon
  <2>6. eol \in LineWords /\ FirstOf(records, r) = Append(done, values)
    BY <1>3
  <2>. HIDE DEF i, values, done, eol
  <2>7. ReadTo(text, i + Len(WriteRecord(values, style, r) \o eol), "plain", <<>>, <<>>,
               Append(done, values)) # {}
    BY <2>2, <2>3, <2>4, <2>5, <2>6, LineRead
  <2>. QED  BY <2>2, <2>6, <2>7, Zenon
<1>8. After(0)
  BY <1>3, <1>4, StartRead, Zenon
<1>. HIDE DEF After
<1>. DEFINE T == {r \in 0 .. N : r < N \/ style.last => After(r)}
<1>9. \A r \in 0 .. N : r \in T
  <2>1. 0 \in T
    BY <1>1, <1>8
  <2>2. ASSUME NEW r \in 1 .. N, r - 1 \in T PROVE r \in T
    <3>1. After(r - 1)
      BY <1>1, <2>2
    <3>. QED  BY <1>1, <1>7, <3>1
  <2>. HIDE DEF T
  <2>. QED  BY <1>1, <2>1, <2>2, Induction
<1>10. CASE style.last \/ N = 0
  <2>1. After(N)
    <3>1. N \in 0 .. N
      BY <1>1
    <3>. QED  BY <1>8, <1>9, <1>10, <3>1
  <2>2. ReadTo(text, place[N], "plain", <<>>, <<>>, records) # {}
    BY <1>3, <2>1, Zenon DEF After
  <2>3. place[N] = Len(text) + 1
    BY <1>1, <1>4
  <2>. DEFINE p == place[N]
  <2>. HIDE DEF p
  <2>4. p = Len(text) + 1 /\ ReadTo(text, p, "plain", <<>>, <<>>, records) # {}
    BY <2>2, <2>3 DEF p
  <2>. QED  BY <2>4, LastLineEnds
<1>11. CASE ~style.last /\ N # 0
  <2>. DEFINE i == place[N - 1]
              values == records[N]
              done == FirstOf(records, N - 1)
  <2>1. N \in 1 .. N /\ N - 1 \in 0 .. N /\ N - 1 < N /\ ~(N < N)
    BY <1>1, <1>11
  <2>2. ReadTo(text, i, "plain", <<>>, <<>>, done) # {}
    <3>1. After(N - 1)
      BY <1>9, <2>1
    <3>. QED  BY <3>1 DEF After
  <2>3. LineEnd(records, style, N) = <<>>
    BY <1>11, <2>1, Zenon DEF LineEnd, N
  <2>4. /\ i \in Nat \ {0} /\ Occurs(text, i, WriteRecord(values, style, N))
        /\ place[N] = i + Len(WriteRecord(values, style, N) \o <<>>)
        /\ WriteRecord(values, style, N) \in Texts
    BY <1>2, <1>5, <2>1, <2>3, Zenon
  <2>5. i + Len(WriteRecord(values, style, N)) = Len(text) + 1
    <3>. DEFINE w == WriteRecord(values, style, N)
    <3>1. w \o <<>> = w
      <4>. HIDE DEF w
      <4>. QED  BY <2>4, ConcatEmptySeq DEF Texts, w
    <3>2. place[N] = Len(text) + 1
      BY <1>1, <1>4
    <3>. HIDE DEF i
    <3>. QED  BY <2>4, <3>1, <3>2, Zenon
  <2>6. values \in Seq(Texts) /\ Len(values) > 1 /\ done \in Seq(Seq(Texts))
    BY <1>1, <1>3, <2>1
  <2>7. Append(done, values) = records
    BY <1>3, <2>1
  <2>. HIDE DEF i, values, done
  <2>8. ReadsTo(text, Append(done, values))
    BY <2>2, <2>4, <2>5, <2>6, LastRecordRead
  <2>. QED  BY <2>7, <2>8
<1>. QED  BY <1>10, <1>11

\* None of the records is dropped when none is blank.
LEMMA MeaningfulWhole ==
    ASSUME NEW records \in Seq(RawRecords), \A k \in 1 .. Len(records) : ~records[k].blank
    PROVE  Meaningful(records) = records
<1>. DEFINE N == Len(records)
<1>1. /\ N \in Nat /\ FirstOf(records, 0) = <<>> /\ FirstOf(records, N) = records
      /\ \A n \in 1 .. N : FirstOf(records, n) = Append(FirstOf(records, n - 1), records[n])
  BY FirstOfGrows, LenProperties
<1>2. PICK kept \in [0 .. N -> Seq(RawRecords)] :
             /\ Meaningful(records) = kept[N] /\ kept[0] = <<>>
             /\ \A n \in 1 .. N : kept[n] = IF records[n].blank THEN kept[n - 1]
                                            ELSE Append(kept[n - 1], records[n])
  BY MeaningfulSteps
<1>3. \A n \in 1 .. N : kept[n] = Append(kept[n - 1], records[n])
  BY <1>2
<1>. HIDE DEF N
<1>. DEFINE T == {n \in 0 .. N : kept[n] = FirstOf(records, n)}
<1>4. 0 \in T
  BY <1>1, <1>2
<1>5. ASSUME NEW n \in 1 .. N, n - 1 \in T PROVE n \in T
  <2>1. kept[n - 1] = FirstOf(records, n - 1)
    BY <1>5
  <2>2. kept[n] = FirstOf(records, n)
    BY <1>1, <1>3, <2>1, Zenon
  <2>. QED  BY <1>1, <2>2
<1>6. N \in T
  <2>. HIDE DEF T
  <2>1. \A n \in 0 .. N : n \in T
    BY <1>1, <1>4, <1>5, Induction
  <2>. QED  BY <1>1, <2>1
<1>. QED  BY <1>1, <1>2, <1>6

\* The text of a table, without the byte order mark.
LEMMA WrittenText ==
    ASSUME NEW records \in Seq(Seq(Texts)), NEW style, style.damage = "none",
           style.eol \in LineWords,
           WriteTable(records, style) # <<>> /\ Head(WriteTable(records, style)) = BOM => style.bom
    PROVE  /\ WriteTable(records, style) \in Texts
           /\ FlattenSeq(LinesOf(records, style)) \in Texts
           /\ WithoutBom(WriteTable(records, style)) = FlattenSeq(LinesOf(records, style))
<1>. DEFINE body == FlattenSeq(LinesOf(records, style))
            text == WriteTable(records, style)
            mark == IF style.bom THEN <<BOM>> ELSE <<>>
<1>1. body \in Texts
  <2>. DEFINE lines == LinesOf(records, style)
  <2>1. lines \in Seq(Seq(Chars)) /\ Len(lines) \in 0 .. Len(lines)
    BY LinesType, LenProperties DEF Texts
  <2>. HIDE DEF lines
  <2>2. PICK flat \in [0 .. Len(lines) -> Seq(Chars)] : FlattenSeq(lines) = flat[Len(lines)]
    BY <2>1, FlattenSteps
  <2>3. FlattenSeq(lines) \in Seq(Chars)
    BY <2>1, <2>2
  <2>. QED  BY <2>3 DEF Texts, lines
<1>2. text = mark \o body
  BY DEF WriteTable, LinesOf, LineEnd
<1>3. <<BOM>> \in Texts /\ Len(<<BOM>>) = 1 /\ <<BOM>>[1] = BOM /\ <<>> \in Texts
  <2>1. BOM \in Chars
    BY DEF Chars
  <2>. QED  BY <2>1, ShortWords, EmptySeq DEF Texts
<1>. HIDE DEF body, text
<1>4. CASE style.bom
  <2>1. text = <<BOM>> \o body
    BY <1>2, <1>4
  <2>2. /\ text \in Texts /\ Len(text) = 1 + Len(body) /\ Len(body) \in Nat
        /\ \A k \in 1 .. 1 + Len(body) :
               text[k] = IF k <= 1 THEN <<BOM>>[k] ELSE body[k - 1]
    BY <1>1, <1>3, <2>1, ConcatProperties, LenProperties DEF Texts
  <2>3. text # <<>> /\ Head(text) = BOM
    <3>1. text # <<>>
      BY <2>2, EmptySeq
    <3>2. text[1] = BOM
      BY <1>3, <2>2
    <3>. QED  BY <3>1, <3>2 DEF Head
  <2>4. Tail(text) = body
    <3>. DEFINE rest == Tail(text)
    <3>1. /\ rest \in Texts /\ Len(rest) = Len(body)
          /\ \A k \in 1 .. Len(rest) : rest[k] = text[k + 1]
      BY <2>2, <2>3, HeadTailProperties DEF Texts
    <3>2. \A k \in 1 .. Len(body) : text[k + 1] = body[k]
      <4>1. \A k \in 1 .. Len(body) : k + 1 \in 1 .. 1 + Len(body) /\ ~(k + 1 <= 1) /\ k + 1 - 1 = k
        BY <2>2
      <4>. QED  BY <2>2, <4>1
    <3>. HIDE DEF rest
    <3>3. rest = body
      BY <1>1, <3>1, <3>2, SeqEqual DEF Texts
    <3>. QED  BY <3>3 DEF rest
  <2>. QED  BY <1>1, <2>2, <2>3, <2>4 DEF WithoutBom, text, body
<1>5. CASE ~style.bom
  <2>1. text = body
    <3>1. text = <<>> \o body
      BY <1>2, <1>5
    <3>. QED  BY <1>1, <3>1, ConcatEmptySeq DEF Texts
  <2>2. ~(text # <<>> /\ Head(text) = BOM)
    BY <1>5 DEF text
  <2>. QED  BY <1>1, <2>1, <2>2 DEF WithoutBom, text, body
<1>. QED  BY <1>4, <1>5

\* "Every field of the record, in source order, exactly as the file held it" (csv.ts):
\* a table of two columns or more that is written, in any style, is read back, field
\* by field and record by record, and nothing is reported.
THEOREM WrittenTablesAreReadBack ==
    ASSUME NEW records \in Seq(Seq(Texts)), \A r \in DOMAIN records : Len(records[r]) > 1,
           NEW style, style.damage = "none", style.eol \in LineWords,
           WriteTable(records, style) # <<>> /\ Head(WriteTable(records, style)) = BOM => style.bom
    PROVE  LET positional == ParseCsvRecords(WriteTable(records, style))
               named == ParseCsv(WriteTable(records, style)) IN
           /\ positional.errors = <<>> /\ named.errors = <<>>
           /\ Len(positional.rows) = Len(records)
           /\ \A r \in 1 .. Len(records) : positional.rows[r].fields = records[r]
           /\ Len(records) > 0 =>
                  /\ named.header = records[1] /\ Len(named.rows) = Len(records) - 1
                  /\ \A r \in 1 .. Len(records) - 1 : named.rows[r].fields = records[r + 1]
<1>. DEFINE text == WriteTable(records, style)
            body == FlattenSeq(LinesOf(records, style))
            read == Scan(body).records
            positional == ParseCsvRecords(text)
            named == ParseCsv(text)
            N == Len(records)
<1>1. text \in Texts /\ body \in Texts /\ WithoutBom(text) = body
  BY WrittenText
<1>2. ReadsTo(body, records)
  BY <1>1, TableRead
<1>3. Scan(body) \in ScanStates
  BY <1>1, ScanType
<1>. HIDE DEF text, body
<1>4. /\ read \in Seq(RawRecords) /\ Len(read) = N /\ N \in Nat
      /\ \A k \in 1 .. N : read[k].fields = records[k] /\ ~read[k].blank
      /\ Scan(body).errors = <<>>
  BY <1>2, <1>3, LenProperties DEF ReadsTo, Whole, ScanStates
<1>5. Meaningful(read) = read
  <2>. HIDE DEF read, N
  <2>. QED  BY <1>4, MeaningfulWhole
<1>6. /\ positional = [header |-> <<>>, rows |-> read, errors |-> <<>>]
      /\ named = IF read = <<>> THEN [header |-> <<>>, rows |-> <<>>, errors |-> <<>>]
                 ELSE [header |-> read[1].fields, rows |-> Tail(read), errors |-> <<>>]
  <2>1. positional = [header |-> <<>>, rows |-> Meaningful(read), errors |-> Scan(body).errors]
    BY <1>1, Zenon DEF ParseCsvRecords
  <2>2. named = IF Meaningful(read) = <<>>
                THEN [header |-> <<>>, rows |-> <<>>, errors |-> Scan(body).errors]
                ELSE [header |-> Meaningful(read)[1].fields, rows |-> Tail(Meaningful(read)),
                      errors |-> Scan(body).errors]
    BY <1>1, Zenon DEF ParseCsv
  <2>. HIDE DEF read, positional, named
  <2>. QED  BY <1>4, <1>5, <2>1, <2>2
<1>. HIDE DEF read, positional, named, N
<1>7. /\ positional.errors = <<>> /\ named.errors = <<>>
      /\ Len(positional.rows) = N /\ \A r \in 1 .. N : positional.rows[r].fields = records[r]
  BY <1>4, <1>6
<1>8. ASSUME N > 0
      PROVE  /\ named.header = records[1] /\ Len(named.rows) = N - 1
             /\ \A r \in 1 .. N - 1 : named.rows[r].fields = records[r + 1]
  <2>1. read # <<>>
    BY <1>4, <1>8, EmptySeq
  <2>2. Len(Tail(read)) = N - 1 /\ \A r \in 1 .. N - 1 : Tail(read)[r] = read[r + 1]
    BY <1>4, <2>1, HeadTailProperties
  <2>3. read[1].fields = records[1]
    BY <1>4, <1>8
  <2>4. \A r \in 1 .. N - 1 : read[r + 1].fields = records[r + 1]
    <3>1. \A r \in 1 .. N - 1 : r + 1 \in 1 .. N
      BY <1>4
    <3>. QED  BY <1>4, <3>1
  <2>. QED  BY <1>6, <2>1, <2>2, <2>3, <2>4
<1>. QED  BY <1>7, <1>8 DEF positional, named, text, N
-----------------------------------------------------------------------------
(***************************************************************************)
(* The records of an undamaged file are those its exporter wrote.          *)
(***************************************************************************)

\* To the parser of a format, a is the record b.
ReadAs(fmt, a, b) ==
    /\ a.cells = b.cells /\ a.flaw = b.flaw
    /\ fmt \in JsonFormats \cup {"onepassword-1pux"} => a.list = b.list /\ a.details = b.details

\* What is taken from a record depends on its cells.
LEMMA SameCells ==
    ASSUME NEW a, NEW b, a.cells = b.cells
    PROVE  /\ \A key : Value(a, key) = Value(b, key)
           /\ \A key : Cell(a, key) = Cell(b, key)
           /\ \A keys : Cells(a, keys) = Cells(b, keys)
           /\ \A keys : FirstCell(a, keys) = FirstCell(b, keys)
           /\ \A key : Flag(a, key) = Flag(b, key)
           /\ \A key : Metadata(a, key) = Metadata(b, key)
           /\ \A key, item : RequiredPassword(a, key, item) = RequiredPassword(b, key, item)
           /\ \A layout : LayoutItem(a, layout) = LayoutItem(b, layout)
<1>1. \A key : Value(a, key) = Value(b, key)
  BY DEF Value
<1>2. \A key : Cell(a, key) = Cell(b, key)
  BY <1>1, Zenon DEF Cell
<1>3. \A keys : Cells(a, keys) = Cells(b, keys)
  BY <1>2 DEF Cells
<1>4. \A keys : FirstCell(a, keys) = FirstCell(b, keys)
  <2>1. ASSUME NEW keys PROVE FirstCell(a, keys) = FirstCell(b, keys)
    <3>1. {k \in DOMAIN keys : Cell(a, keys[k]) # {}} = {k \in DOMAIN keys : Cell(b, keys[k]) # {}}
      BY <1>2
    <3>. QED  BY <1>2, <3>1, Zenon DEF FirstCell
  <2>. QED  BY <2>1
<1>5. (\A key : Flag(a, key) = Flag(b, key)) /\ \A key : Metadata(a, key) = Metadata(b, key)
  BY <1>1, Zenon DEF Flag, Metadata
<1>6. \A key, item : RequiredPassword(a, key, item) = RequiredPassword(b, key, item)
  <2>1. ASSUME NEW key, NEW item
        PROVE  RequiredPassword(a, key, item) = RequiredPassword(b, key, item)
    <3>1. Cell(a, key) = Cell(b, key)
      BY <1>2
    <3>. QED  BY <3>1, Zenon DEF RequiredPassword
  <2>. QED  BY <2>1
<1>7. ASSUME NEW layout PROVE LayoutItem(a, layout) = LayoutItem(b, layout)
  <2>1. /\ FirstCell(a, layout.name) = FirstCell(b, layout.name)
        /\ Cell(a, layout.username) = Cell(b, layout.username)
        /\ Cell(a, layout.url) = Cell(b, layout.url)
        /\ Cell(a, layout.notes) = Cell(b, layout.notes)
        /\ Cell(a, layout.folder) = Cell(b, layout.folder)
        /\ Cells(a, layout.carry) = Cells(b, layout.carry)
    BY <1>2, <1>3, <1>4
  <2>. QED  BY <1>6, <2>1, Zenon DEF LayoutItem
<1>. QED  BY <1>1, <1>2, <1>3, <1>4, <1>5, <1>6, <1>7

\* The same is taken from both records.
SameTo(a, b) ==
    /\ \A key : Value(a, key) = Value(b, key)
    /\ \A key : Cell(a, key) = Cell(b, key)
    /\ \A keys : Cells(a, keys) = Cells(b, keys)
    /\ \A keys : FirstCell(a, keys) = FirstCell(b, keys)
    /\ \A key : Flag(a, key) = Flag(b, key)
    /\ \A key : Metadata(a, key) = Metadata(b, key)
    /\ \A key, item : RequiredPassword(a, key, item) = RequiredPassword(b, key, item)

\* LastPass's parser.
LEMMA LastPassSame ==
    ASSUME NEW a, NEW b, SameTo(a, b)
    PROVE  LastPassItem(a) = LastPassItem(b)
<1>. DEFINE item(r) == Fields([name |-> Cell(r, "name"), notes |-> Cell(r, "extra"),
                               favorite |-> Flag(r, "fav"), folderPath |-> Cell(r, "grouping")])
            login(r) == [item(r) EXCEPT !.username = Cell(r, "username"),
                                        !.urls = Cell(r, "url"), !.extra = Cell(r, "totp")]
            made(r) == IF Value(r, "url") = SecureNoteUrl THEN [item(r) EXCEPT !.type = "note"]
                       ELSE RequiredPassword(r, "password", login(r))
<1>1. item(a) = item(b)
  <2>1. /\ Cell(a, "name") = Cell(b, "name")
        /\ Cell(a, "extra") = Cell(b, "extra")
        /\ Flag(a, "fav") = Flag(b, "fav")
        /\ Cell(a, "grouping") = Cell(b, "grouping")
    BY Zenon DEF SameTo
  <2>. QED  BY <2>1, Zenon
<1>. HIDE DEF item
<1>2. login(a) = login(b)
  <2>1. /\ Cell(a, "username") = Cell(b, "username")
        /\ Cell(a, "url") = Cell(b, "url")
        /\ Cell(a, "totp") = Cell(b, "totp")
    BY Zenon DEF SameTo
  <2>. QED  BY <1>1, <2>1, Zenon
<1>3. /\ LastPassItem(a) = made(a)
      /\ LastPassItem(b) = made(b)
  BY Zenon DEF LastPassItem, item
<1>. HIDE DEF login
<1>4. /\ Value(a, "url") = Value(b, "url")
      /\ RequiredPassword(a, "password", login(a)) = RequiredPassword(b, "password", login(b))
  BY <1>2, Zenon DEF SameTo
<1>5. made(a) = made(b)
  BY <1>1, <1>4, Zenon
<1>. HIDE DEF made
<1>. QED  BY <1>3, <1>5, Zenon

\* NordPass's parser.
LEMMA NordPassSame ==
    ASSUME NEW a, NEW b, SameTo(a, b)
    PROVE  NordPassItem(a) = NordPassItem(b)
<1>. DEFINE item(r) == Fields([name |-> Cell(r, "name"), notes |-> Cell(r, "note"),
                               folderPath |-> Cell(r, "folder"),
                               extra |-> Cell(r, "custom_fields")])
            login(r) == [item(r) EXCEPT !.username = Cell(r, "username"),
                                        !.urls = Cells(r, {"url", "additional_urls"})]
            made(r) == CASE Value(r, "type") = <<"note">> -> [item(r) EXCEPT !.type = "note"]
                         [] Value(r, "type") \in {<<>>, <<"password">>} ->
                              RequiredPassword(r, "password", login(r))
                         [] OTHER -> RowError
<1>1. item(a) = item(b)
  <2>1. /\ Cell(a, "name") = Cell(b, "name")
        /\ Cell(a, "note") = Cell(b, "note")
        /\ Cell(a, "folder") = Cell(b, "folder")
        /\ Cell(a, "custom_fields") = Cell(b, "custom_fields")
    BY Zenon DEF SameTo
  <2>. QED  BY <2>1, Zenon
<1>. HIDE DEF item
<1>2. login(a) = login(b)
  <2>1. /\ Cell(a, "username") = Cell(b, "username")
        /\ Cells(a, {"url", "additional_urls"}) = Cells(b, {"url", "additional_urls"})
    BY Zenon DEF SameTo
  <2>. QED  BY <1>1, <2>1, Zenon
<1>3. /\ NordPassItem(a) = made(a)
      /\ NordPassItem(b) = made(b)
  BY Zenon DEF NordPassItem, item
<1>. HIDE DEF login
<1>4. /\ Value(a, "type") = Value(b, "type")
      /\ RequiredPassword(a, "password", login(a)) = RequiredPassword(b, "password", login(b))
  BY <1>2, Zenon DEF SameTo
<1>5. made(a) = made(b)
  BY <1>1, <1>4, Zenon
<1>. HIDE DEF made
<1>. QED  BY <1>3, <1>5, Zenon

\* Bitwarden's CSV parser.
LEMMA BitwardenCsvSame ==
    ASSUME NEW a, NEW b, SameTo(a, b)
    PROVE  BitwardenCsvItem(a) = BitwardenCsvItem(b)
<1>. DEFINE item(r) == Fields([name |-> Cell(r, "name"), notes |-> Cell(r, "notes"),
                               favorite |-> Flag(r, "favorite"),
                               folderPath |-> Cell(r, "folder"),
                               extra |-> Cell(r, "fields") \cup Metadata(r, "reprompt")])
            login(r) == [item(r) EXCEPT !.username = Cell(r, "login_username"),
                                        !.urls = Cell(r, "login_uri"),
                                        !.extra = @ \cup Cell(r, "login_totp")]
            made(r) == CASE Value(r, "type") \in {<<"note">>, <<"securenote">>} ->
                              [item(r) EXCEPT !.type = "note"]
                         [] Value(r, "type") \in {<<>>, <<"login">>} ->
                              RequiredPassword(r, "login_password", login(r))
                         [] OTHER -> RowError
<1>1. item(a) = item(b)
  <2>1. /\ Cell(a, "name") = Cell(b, "name")
        /\ Cell(a, "notes") = Cell(b, "notes")
        /\ Flag(a, "favorite") = Flag(b, "favorite")
        /\ Cell(a, "folder") = Cell(b, "folder")
        /\ Cell(a, "fields") = Cell(b, "fields")
        /\ Metadata(a, "reprompt") = Metadata(b, "reprompt")
    BY Zenon DEF SameTo
  <2>. QED  BY <2>1, Zenon
<1>. HIDE DEF item
<1>2. login(a) = login(b)
  <2>1. /\ Cell(a, "login_username") = Cell(b, "login_username")
        /\ Cell(a, "login_uri") = Cell(b, "login_uri")
        /\ Cell(a, "login_totp") = Cell(b, "login_totp")
    BY Zenon DEF SameTo
  <2>. QED  BY <1>1, <2>1, Zenon
<1>3. /\ BitwardenCsvItem(a) = made(a)
      /\ BitwardenCsvItem(b) = made(b)
  BY Zenon DEF BitwardenCsvItem, item
<1>. HIDE DEF login
<1>4. /\ Value(a, "type") = Value(b, "type")
      /\ RequiredPassword(a, "login_password", login(a)) = RequiredPassword(b, "login_password", login(b))
  BY <1>2, Zenon DEF SameTo
<1>5. made(a) = made(b)
  BY <1>1, <1>4, Zenon
<1>. HIDE DEF made
<1>. QED  BY <1>3, <1>5, Zenon

\* Dashlane's JSON parser.
LEMMA DashlaneJsonSame ==
    ASSUME NEW a, NEW b, SameTo(a, b), a.list = b.list, a.details = b.details
    PROVE  DashlaneJsonRecord(a) = DashlaneJsonRecord(b)
<1>. DEFINE item(r) == Fields([name |-> FirstCell(r, <<"title", "name">>)])
            login(r) == [item(r) EXCEPT !.username = FirstCell(r, <<"login", "email">>),
                                        !.notes = Cell(r, "note"),
                                        !.folderPath = Cell(r, "category"),
                                        !.urls = FirstCell(r, <<"url", "domain">>),
                                        !.extra = Cell(r, "otpSecret") \cup
                                    (Cell(r, "email") \ FirstCell(r, <<"login", "email">>))]
            made(r) == CASE r.list = "SECURENOTE" ->
                              [item(r) EXCEPT !.type = "note", !.notes = Cell(r, "content")]
                         [] r.list = "AUTHENTIFIANT" ->
                              RequiredPassword(r, "password", login(r))
                         [] OTHER -> RowError
<1>1. item(a) = item(b)
  <2>1. /\ FirstCell(a, <<"title", "name">>) = FirstCell(b, <<"title", "name">>)
    BY Zenon DEF SameTo
  <2>. QED  BY <2>1, Zenon
<1>. HIDE DEF item
<1>2. login(a) = login(b)
  <2>1. /\ FirstCell(a, <<"login", "email">>) = FirstCell(b, <<"login", "email">>)
        /\ Cell(a, "note") = Cell(b, "note")
        /\ Cell(a, "category") = Cell(b, "category")
        /\ FirstCell(a, <<"url", "domain">>) = FirstCell(b, <<"url", "domain">>)
        /\ Cell(a, "otpSecret") = Cell(b, "otpSecret")
        /\ Cell(a, "email") = Cell(b, "email")
    BY Zenon DEF SameTo
  <2>. QED  BY <1>1, <2>1, Zenon
<1>3. /\ DashlaneJsonRecord(a) = made(a)
      /\ DashlaneJsonRecord(b) = made(b)
  BY Zenon DEF DashlaneJsonRecord, item
<1>. HIDE DEF login
<1>4. /\ Cell(a, "content") = Cell(b, "content")
      /\ RequiredPassword(a, "password", login(a)) = RequiredPassword(b, "password", login(b))
  BY <1>2, Zenon DEF SameTo
<1>5. made(a) = made(b)
  BY <1>1, <1>4, Zenon
<1>. HIDE DEF made
<1>. QED  BY <1>3, <1>5, Zenon

\* Proton Pass's parser.
LEMMA ProtonPassSame ==
    ASSUME NEW a, NEW b, SameTo(a, b), a.list = b.list, a.details = b.details
    PROVE  ProtonPassItem(a) = ProtonPassItem(b)
<1>. DEFINE item(r) == Fields([name |-> Cell(r, "name"), notes |-> Cell(r, "note"),
                               folderPath |-> Cell(r, "vault"),
                               extra |-> Cell(r, "extraFields")])
            login(r) == [item(r) EXCEPT !.username = FirstCell(r, <<"itemUsername", "itemEmail">>),
                                        !.urls = Cell(r, "urls"),
                                        !.extra = @ \cup (Cell(r, "itemEmail")
                                              \ FirstCell(r, <<"itemUsername", "itemEmail">>))
                                              \cup Cells(r, {"totpUri", "passkeys"})]
            made(r) == IF Value(r, "state") = <<"trashed">> THEN RowError ELSE
                       CASE Value(r, "type") = <<"note">> -> [item(r) EXCEPT !.type = "note"]
                         [] Value(r, "type") = <<"login">> /\ r.details ->
                              RequiredPassword(r, "password", login(r))
                         [] OTHER -> RowError
<1>1. item(a) = item(b)
  <2>1. /\ Cell(a, "name") = Cell(b, "name")
        /\ Cell(a, "note") = Cell(b, "note")
        /\ Cell(a, "vault") = Cell(b, "vault")
        /\ Cell(a, "extraFields") = Cell(b, "extraFields")
    BY Zenon DEF SameTo
  <2>. QED  BY <2>1, Zenon
<1>. HIDE DEF item
<1>2. login(a) = login(b)
  <2>1. /\ FirstCell(a, <<"itemUsername", "itemEmail">>) = FirstCell(b, <<"itemUsername", "itemEmail">>)
        /\ Cell(a, "urls") = Cell(b, "urls")
        /\ Cell(a, "itemEmail") = Cell(b, "itemEmail")
        /\ Cells(a, {"totpUri", "passkeys"}) = Cells(b, {"totpUri", "passkeys"})
    BY Zenon DEF SameTo
  <2>. QED  BY <1>1, <2>1, Zenon
<1>3. /\ ProtonPassItem(a) = made(a)
      /\ ProtonPassItem(b) = made(b)
  BY Zenon DEF ProtonPassItem, item
<1>. HIDE DEF login
<1>4. /\ Value(a, "state") = Value(b, "state")
      /\ Value(a, "type") = Value(b, "type")
      /\ RequiredPassword(a, "password", login(a)) = RequiredPassword(b, "password", login(b))
  BY <1>2, Zenon DEF SameTo
<1>5. made(a) = made(b)
  <2>. DEFINE rest(r) == CASE Value(r, "type") = <<"note">> -> [item(r) EXCEPT !.type = "note"]
                           [] Value(r, "type") = <<"login">> /\ r.details ->
                                RequiredPassword(r, "password", login(r))
                           [] OTHER -> RowError
  <2>1. rest(a) = rest(b)
    BY <1>1, <1>4, Zenon
  <2>2. /\ made(a) = IF Value(a, "state") = <<"trashed">> THEN RowError ELSE rest(a)
        /\ made(b) = IF Value(b, "state") = <<"trashed">> THEN RowError ELSE rest(b)
    BY Zenon
  <2>3. Value(a, "state") = Value(b, "state")
    BY Zenon DEF SameTo
  <2>. HIDE DEF made, rest
  <2>. QED  BY <2>1, <2>2, <2>3
<1>. HIDE DEF made
<1>. QED  BY <1>3, <1>5, Zenon

\* Bitwarden's JSON parser.
LEMMA BitwardenJsonSame ==
    ASSUME NEW a, NEW b, SameTo(a, b), a.list = b.list, a.details = b.details
    PROVE  BitwardenJsonItem(a) = BitwardenJsonItem(b)
<1>. DEFINE item(r) == Fields([name |-> Cell(r, "name"), notes |-> Cell(r, "notes"),
                               favorite |-> Flag(r, "favorite"),
                               folderPath |-> Cell(r, "folderOfId"),
                               extra |-> Cells(r, {"collectionIds", "fields"})
                                         \cup Metadata(r, "reprompt")
                                         \cup IF Cell(r, "folderOfId") = {}
                                              THEN Cell(r, "folderId") ELSE {}])
            login(r) == [item(r) EXCEPT !.username = Cell(r, "username"),
                                        !.urls = Cell(r, "uris"),
                                        !.extra = @ \cup Cell(r, "totp")]
            made(r) == CASE Value(r, "type") = <<"2">> -> [item(r) EXCEPT !.type = "note"]
                         [] Value(r, "type") = <<"1">> /\ r.details ->
                              RequiredPassword(r, "password", login(r))
                         [] OTHER -> RowError
<1>1. item(a) = item(b)
  <2>1. /\ Cell(a, "name") = Cell(b, "name")
        /\ Cell(a, "notes") = Cell(b, "notes")
        /\ Flag(a, "favorite") = Flag(b, "favorite")
        /\ Cell(a, "folderOfId") = Cell(b, "folderOfId")
        /\ Cells(a, {"collectionIds", "fields"}) = Cells(b, {"collectionIds", "fields"})
        /\ Metadata(a, "reprompt") = Metadata(b, "reprompt")
        /\ Cell(a, "folderId") = Cell(b, "folderId")
    BY Zenon DEF SameTo
  <2>. QED  BY <2>1, Zenon
<1>. HIDE DEF item
<1>2. login(a) = login(b)
  <2>1. /\ Cell(a, "username") = Cell(b, "username")
        /\ Cell(a, "uris") = Cell(b, "uris")
        /\ Cell(a, "totp") = Cell(b, "totp")
    BY Zenon DEF SameTo
  <2>. QED  BY <1>1, <2>1, Zenon
<1>3. /\ BitwardenJsonItem(a) = made(a)
      /\ BitwardenJsonItem(b) = made(b)
  BY Zenon DEF BitwardenJsonItem, item
<1>. HIDE DEF login
<1>4. /\ Value(a, "type") = Value(b, "type")
      /\ RequiredPassword(a, "password", login(a)) = RequiredPassword(b, "password", login(b))
  BY <1>2, Zenon DEF SameTo
<1>5. made(a) = made(b)
  BY <1>1, <1>4, Zenon
<1>. HIDE DEF made
<1>. QED  BY <1>3, <1>5, Zenon

\* 1Password's archive parser.
LEMMA OnePasswordSame ==
    ASSUME NEW a, NEW b, SameTo(a, b), a.list = b.list, a.details = b.details
    PROVE  OnePasswordItem(a) = OnePasswordItem(b)
<1>. DEFINE item(r) == Fields([name |-> Cell(r, "title"), notes |-> Cell(r, "notesPlain"),
                               favorite |-> Metadata(r, "favIndex"),
                               folderPath |-> Cell(r, "vault"),
                               extra |-> Cells(r, {"sections", "tags", "account"})
                                         \cup (Cell(r, "state") \ {<<"active">>})])
            login(r) == [item(r) EXCEPT !.username = Cell(r, "username"),
                                        !.urls = FirstCell(r, <<"urls", "url">>),
                                        !.extra = @ \cup Cell(r, "otherFields")]
            made(r) == CASE Value(r, "categoryUuid") = <<"003">> -> [item(r) EXCEPT !.type = "note"]
                         [] Value(r, "categoryUuid") = <<"001">> /\ r.details ->
                              RequiredPassword(r, "password", login(r))
                         [] OTHER -> RowError
<1>1. item(a) = item(b)
  <2>1. /\ Cell(a, "title") = Cell(b, "title")
        /\ Cell(a, "notesPlain") = Cell(b, "notesPlain")
        /\ Metadata(a, "favIndex") = Metadata(b, "favIndex")
        /\ Cell(a, "vault") = Cell(b, "vault")
        /\ Cells(a, {"sections", "tags", "account"}) = Cells(b, {"sections", "tags", "account"})
        /\ Cell(a, "state") = Cell(b, "state")
    BY Zenon DEF SameTo
  <2>. QED  BY <2>1, Zenon
<1>. HIDE DEF item
<1>2. login(a) = login(b)
  <2>1. /\ Cell(a, "username") = Cell(b, "username")
        /\ FirstCell(a, <<"urls", "url">>) = FirstCell(b, <<"urls", "url">>)
        /\ Cell(a, "otherFields") = Cell(b, "otherFields")
    BY Zenon DEF SameTo
  <2>. QED  BY <1>1, <2>1, Zenon
<1>3. /\ OnePasswordItem(a) = made(a)
      /\ OnePasswordItem(b) = made(b)
  BY Zenon DEF OnePasswordItem, item
<1>. HIDE DEF login
<1>4. /\ Value(a, "categoryUuid") = Value(b, "categoryUuid")
      /\ RequiredPassword(a, "password", login(a)) = RequiredPassword(b, "password", login(b))
  BY <1>2, Zenon DEF SameTo
<1>5. made(a) = made(b)
  BY <1>1, <1>4, Zenon
<1>. HIDE DEF made
<1>. QED  BY <1>3, <1>5, Zenon

\* What a parser makes of a record.
LEMMA SameOutcome ==
    ASSUME NEW fmt \in MANUAL_FORMATS, NEW a, NEW b, ReadAs(fmt, a, b), NEW header, NEW map
    PROVE  Outcome(fmt, a, header, map) = Outcome(fmt, b, header, map)
<1>1. a.cells = b.cells /\ a.flaw = b.flaw
  BY DEF ReadAs
<1>2. SameTo(a, b)
  BY <1>1, SameCells, Zenon DEF SameTo
<1>3. \A layout : LayoutItem(a, layout) = LayoutItem(b, layout)
  BY <1>1, SameCells
<1>4. /\ LastPassItem(a) = LastPassItem(b)
      /\ NordPassItem(a) = NordPassItem(b)
      /\ BitwardenCsvItem(a) = BitwardenCsvItem(b)
  BY <1>2, LastPassSame, NordPassSame, BitwardenCsvSame, Zenon
<1>5. OnePasswordCsvItem(a, header) = OnePasswordCsvItem(b, header)
  BY <1>2 DEF OnePasswordCsvItem, SameTo
<1>6. /\ BrowserItem(a, header) = BrowserItem(b, header)
      /\ KeePassItem(a, header) = KeePassItem(b, header)
      /\ DashlaneCsvItem(a) = DashlaneCsvItem(b)
      /\ KeeperCsvRecord(a) = KeeperCsvRecord(b) /\ KeeperJsonRecord(a) = KeeperJsonRecord(b)
      /\ GenericRow(a, map) = GenericRow(b, map)
  BY <1>3, Zenon DEF BrowserItem, KeePassItem, DashlaneCsvItem, KeeperCsvRecord,
     KeeperJsonRecord, GenericRow
<1>7. CASE fmt \in JsonFormats \cup {"onepassword-1pux"}
  <2>1. a.list = b.list /\ a.details = b.details
    BY <1>7 DEF ReadAs
  <2>2. /\ DashlaneJsonRecord(a) = DashlaneJsonRecord(b)
        /\ ProtonPassItem(a) = ProtonPassItem(b)
        /\ BitwardenJsonItem(a) = BitwardenJsonItem(b)
        /\ OnePasswordItem(a) = OnePasswordItem(b)
    BY <1>2, <2>1, DashlaneJsonSame, ProtonPassSame, BitwardenJsonSame, OnePasswordSame, Zenon
  <2>. QED  BY <1>1, <1>6, <1>7, <2>2 DEF Outcome, JsonFormats
<1>8. CASE fmt \notin JsonFormats \cup {"onepassword-1pux"}
  BY <1>1, <1>4, <1>5, <1>6, <1>8 DEF Outcome, JsonFormats, MANUAL_FORMATS
<1>. QED  BY <1>7, <1>8
\* A record's values, by the names of the columns.
Named(cells, columns) ==
    /\ columns \in Seq(STRING)
    /\ \A i, j \in DOMAIN columns : columns[i] = columns[j] => i = j
    /\ cells \in [{columns[i] : i \in DOMAIN columns} -> Seq(STRING)]

InOrder(row, cells, columns) == row.fields = [i \in DOMAIN columns |-> cells[columns[i]]]

\* A row that holds the values of a record, in the order of the columns, is that record.
LEMMA RowIsRecord ==
    ASSUME NEW cells, NEW columns, Named(cells, columns), NEW row,
           InOrder(row, cells, columns)
    PROVE  ByName(row, columns) = cells
<1>0. /\ columns \in Seq(STRING)
      /\ \A i, j \in DOMAIN columns : columns[i] = columns[j] => i = j
      /\ row.fields = [i \in DOMAIN columns |-> cells[columns[i]]]
  BY Zenon DEF Named, InOrder
<1>. DEFINE M == Len(columns)
            place(name) == CHOOSE i \in DOMAIN columns :
                               columns[i] = name
                               /\ \A j \in DOMAIN columns : columns[j] = name => i <= j
            values == [i \in DOMAIN columns |-> cells[columns[i]]]
<1>1. M \in Nat /\ DOMAIN columns = 1 .. M
  BY <1>0, LenProperties
<1>2. Len(values) = M
  <2>1. values \in [1 .. M -> {cells[columns[i]] : i \in DOMAIN columns}]
    BY <1>1
  <2>. QED  BY <1>1, <2>1, ListOf
<1>3. ASSUME NEW j \in DOMAIN columns PROVE place(columns[j]) = j
  <2>. DEFINE i == place(columns[j])
  <2>1. i \in DOMAIN columns /\ columns[i] = columns[j]
    <3>1. \A k \in DOMAIN columns : columns[k] = columns[j] => j <= k
      BY <1>0, <1>1
    <3>. QED  BY <3>1
  <2>. HIDE DEF i
  <2>2. i = j
    BY <1>0, <2>1
  <2>. QED  BY <2>2 DEF i
<1>4. ByName(row, columns) =
          [name \in {columns[i] : i \in DOMAIN columns} |->
              IF place(name) <= Len(row.fields) THEN row.fields[place(name)] ELSE <<>>]
  BY Zenon DEF ByName
<1>. HIDE DEF place
<1>5. ASSUME NEW j \in DOMAIN columns
      PROVE  (IF place(columns[j]) <= Len(row.fields) THEN row.fields[place(columns[j])]
              ELSE <<>>) = cells[columns[j]]
  <2>1. place(columns[j]) = j
    BY <1>3
  <2>2. row.fields = values /\ j <= Len(values) /\ values[j] = cells[columns[j]]
    BY <1>0, <1>1, <1>2
  <2>. HIDE DEF values
  <2>. QED  BY <2>1, <2>2
<1>6. cells = [name \in {columns[i] : i \in DOMAIN columns} |-> cells[name]]
  BY DEF Named
<1>7. \A name \in {columns[i] : i \in DOMAIN columns} :
          (IF place(name) <= Len(row.fields) THEN row.fields[place(name)] ELSE <<>>) = cells[name]
  BY <1>5
<1>. QED  BY <1>4, <1>6, <1>7, Zenon

\* The table of a CSV, as texts.
LEMMA TableType ==
    ASSUME NEW f, IsWrittenCsv(f)
    PROVE  LET names == [i \in DOMAIN f.columns |-> <<f.columns[i]>>]
               values == [r \in DOMAIN f.source |->
                             [i \in DOMAIN f.columns |-> f.source[r].cells[f.columns[i]]]] IN
           /\ names \in Seq(Texts) /\ Len(names) = Len(f.columns)
           /\ values \in Seq(Seq(Texts)) /\ Len(values) = Len(f.source)
           /\ \A r \in 1 .. Len(values) : Len(values[r]) = Len(f.columns)
<1>. DEFINE M == Len(f.columns)
            N == Len(f.source)
            names == [i \in DOMAIN f.columns |-> <<f.columns[i]>>]
            row(r) == [i \in DOMAIN f.columns |-> f.source[r].cells[f.columns[i]]]
            values == [r \in DOMAIN f.source |-> row(r)]
<1>1. /\ M \in Nat /\ DOMAIN f.columns = 1 .. M /\ \A i \in 1 .. M : f.columns[i] \in STRING
      /\ N \in Nat /\ DOMAIN f.source = 1 .. N
      /\ \A r \in 1 .. N :
             f.source[r].cells \in [{f.columns[i] : i \in DOMAIN f.columns} -> Seq(STRING)]
  BY LenProperties, ElementOfSeq, ListPlaces DEF IsWrittenCsv
<1>. HIDE DEF M, N
<1>2. \A s \in Seq(STRING) : s \in Texts
  BY DEF Texts, Chars
<1>3. names \in Seq(Texts) /\ Len(names) = M
  <2>1. \A i \in 1 .. M : <<f.columns[i]>> \in Texts
    <3>1. \A i \in 1 .. M : f.columns[i] \in Chars
      BY <1>1 DEF Chars
    <3>. QED  BY <3>1, ShortWords
  <2>2. names \in [1 .. M -> Texts]
    BY <1>1, <2>1
  <2>. HIDE DEF names
  <2>. QED  BY <1>1, <2>2, ListOf
<1>4. ASSUME NEW r \in 1 .. N PROVE row(r) \in Seq(Texts) /\ Len(row(r)) = M
  <2>1. \A i \in 1 .. M : f.source[r].cells[f.columns[i]] \in Texts
    BY <1>1, <1>2
  <2>2. row(r) \in [1 .. M -> Texts]
    BY <1>1, <2>1
  <2>. HIDE DEF row
  <2>. QED  BY <1>1, <2>2, ListOf
<1>5. /\ values \in Seq(Seq(Texts)) /\ Len(values) = N
      /\ \A r \in 1 .. Len(values) : Len(values[r]) = M
  <2>. HIDE DEF row
  <2>1. values \in [1 .. N -> Seq(Texts)] /\ \A r \in 1 .. N : values[r] = row(r)
    BY <1>1, <1>4
  <2>. HIDE DEF values
  <2>. QED  BY <1>1, <1>4, <2>1, ListOf
<1>. QED  BY <1>3, <1>5 DEF M, N
\* The records of a CSV, by position where it has no header.
RowOf(f, r) == [i \in DOMAIN f.columns |-> f.source[r].cells[f.columns[i]]]

\* The rows of a CSV without a header are its records.
LEMMA HeaderlessRead ==
    ASSUME NEW f, IsWrittenCsv(f), f.kind = "headerless"
    PROVE  LET table == ParseCsvRecords(f.text) IN
           /\ table.errors = <<>> /\ DOMAIN table.rows = DOMAIN f.source
           /\ \A r \in DOMAIN f.source : table.rows[r].fields = RowOf(f, r)
<1>. DEFINE N == Len(f.source)
            M == Len(f.columns)
            values == [r \in DOMAIN f.source |->
                          [i \in DOMAIN f.columns |-> f.source[r].cells[f.columns[i]]]]
            table == ParseCsvRecords(f.text)
<1>1. /\ values \in Seq(Seq(Texts)) /\ Len(values) = N /\ N \in Nat /\ DOMAIN f.source = 1 .. N
      /\ \A r \in 1 .. Len(values) : Len(values[r]) = M
  BY TableType, ListPlaces, Zenon DEF IsWrittenCsv
<1>2. TableOf(f) = values
  <2>1. TableOf(f) = <<>> \o values
    BY DEF TableOf
  <2>. HIDE DEF values
  <2>. QED  BY <1>1, <2>1, ConcatEmptySeq
<1>3. \A r \in DOMAIN f.source : values[r] = RowOf(f, r)
  BY DEF RowOf
<1>. HIDE DEF values
<1>4. \A r \in DOMAIN values : Len(values[r]) > 1
  BY <1>1, LenProperties DEF IsWrittenCsv
<1>5. /\ f.style.damage = "none" /\ f.style.eol \in LineWords
      /\ f.text = WriteTable(values, f.style)
      /\ f.text # <<>> /\ Head(f.text) = BOM => f.style.bom
  BY <1>2 DEF IsWrittenCsv, LineWords
<1>6. /\ table.errors = <<>> /\ Len(table.rows) = N
      /\ \A r \in 1 .. N : table.rows[r].fields = values[r]
  BY <1>1, <1>4, <1>5, WrittenTablesAreReadBack
<1>7. DOMAIN table.rows = 1 .. Len(table.rows)
  <2>1. f.text \in Texts
    BY <1>1, <1>5, WrittenText
  <2>2. table \in Tables
    BY <2>1, ParseCsvType
  <2>. HIDE DEF table
  <2>. QED  BY <2>2, LenProperties DEF Tables
<1>. QED  BY <1>1, <1>3, <1>6, <1>7

\* The rows of a CSV with a header are its records, and its header its columns.
LEMMA HeaderRead ==
    ASSUME NEW f, IsWrittenCsv(f), f.kind # "headerless"
    PROVE  LET table == ParseCsv(f.text) IN
           /\ table.errors = <<>> /\ DOMAIN table.rows = DOMAIN f.source
           /\ HeaderOf(table) = f.columns /\ Len(table.header) = Len(f.columns)
           /\ \A r \in DOMAIN f.source : table.rows[r].fields = RowOf(f, r)
<1>. DEFINE N == Len(f.source)
            M == Len(f.columns)
            names == [i \in DOMAIN f.columns |-> <<f.columns[i]>>]
            values == [r \in DOMAIN f.source |->
                          [i \in DOMAIN f.columns |-> f.source[r].cells[f.columns[i]]]]
            all == <<names>> \o values
            table == ParseCsv(f.text)
<1>1. /\ names \in Seq(Texts) /\ Len(names) = M /\ M > 1
      /\ values \in Seq(Seq(Texts)) /\ Len(values) = N /\ N \in Nat /\ DOMAIN f.source = 1 .. N
      /\ \A r \in 1 .. Len(values) : Len(values[r]) = M
  BY TableType, ListPlaces, Zenon DEF IsWrittenCsv
<1>2. TableOf(f) = all
  BY DEF TableOf
<1>3. \A r \in DOMAIN f.source : values[r] = RowOf(f, r)
  BY DEF RowOf
<1>4. /\ f.columns \in Seq(STRING) /\ DOMAIN names = DOMAIN f.columns
      /\ \A i \in DOMAIN f.columns : ColumnName(names[i]) = f.columns[i]
  <2>1. \A c : Len(<<c>>) = 1 /\ <<c>>[1] = c
    OBVIOUS
  <2>. QED  BY <2>1 DEF IsWrittenCsv, ColumnName
<1>. HIDE DEF values, names
<1>5. /\ all \in Seq(Seq(Texts)) /\ Len(all) = N + 1 /\ all[1] = names
      /\ \A r \in 1 .. N : all[r + 1] = values[r]
  <2>1. <<names>> \in Seq(Seq(Texts)) /\ Len(<<names>>) = 1 /\ <<names>>[1] = names
    BY <1>1
  <2>. QED  BY <1>1, <2>1, ConcatProperties
<1>. HIDE DEF all
<1>6. \A r \in DOMAIN all : Len(all[r]) > 1
  <2>1. DOMAIN all = 1 .. N + 1
    BY <1>5, LenProperties
  <2>2. \A r \in 1 .. N + 1 : r = 1 \/ (r - 1 \in 1 .. N /\ r = (r - 1) + 1)
    BY <1>1
  <2>3. \A k \in 1 .. N : Len(all[k + 1]) > 1
    BY <1>1, <1>5
  <2>. QED  BY <1>1, <1>5, <2>1, <2>2, <2>3
<1>7. /\ f.style.damage = "none" /\ f.style.eol \in LineWords
      /\ f.text = WriteTable(all, f.style)
      /\ f.text # <<>> /\ Head(f.text) = BOM => f.style.bom
  BY <1>2 DEF IsWrittenCsv, LineWords
<1>8. /\ table.errors = <<>> /\ Len(table.rows) = N /\ table.header = names
      /\ \A r \in 1 .. N : table.rows[r].fields = values[r]
  <2>1. /\ table.errors = <<>>
        /\ Len(all) > 0 =>
               /\ table.header = all[1] /\ Len(table.rows) = Len(all) - 1
               /\ \A r \in 1 .. Len(all) - 1 : table.rows[r].fields = all[r + 1]
    <3>. DEFINE written == ParseCsv(WriteTable(all, f.style))
    <3>1. /\ written.errors = <<>>
          /\ Len(all) > 0 => written.header = all[1] /\ Len(written.rows) = Len(all) - 1
          /\ Len(all) > 0 => \A r \in 1 .. Len(all) - 1 : written.rows[r].fields = all[r + 1]
      <4>1. WriteTable(all, f.style) # <<>> /\ Head(WriteTable(all, f.style)) = BOM => f.style.bom
        BY <1>7, Zenon
      <4>. QED  BY <1>5, <1>6, <1>7, <4>1, WrittenTablesAreReadBack
    <3>2. table = written
      BY <1>7, Zenon
    <3>. HIDE DEF written, table
    <3>. QED  BY <3>1, <3>2
  <2>. HIDE DEF table
  <2>2. Len(all) > 0 /\ Len(all) - 1 = N
    BY <1>1, <1>5
  <2>3. /\ table.header = all[1] /\ Len(table.rows) = N
        /\ \A r \in 1 .. N : table.rows[r].fields = all[r + 1]
    BY <2>1, <2>2
  <2>. QED  BY <1>5, <2>1, <2>3
<1>9. DOMAIN table.rows = 1 .. Len(table.rows)
  <2>1. f.text \in Texts
    BY <1>5, <1>7, WrittenText
  <2>2. table \in Tables
    BY <2>1, ParseCsvType
  <2>. HIDE DEF table
  <2>. QED  BY <2>2, LenProperties DEF Tables
<1>10. HeaderOf(table) = f.columns
  <2>. HIDE DEF table
  <2>. QED  BY <1>4, <1>8, LenProperties DEF HeaderOf
<1>. QED  BY <1>1, <1>3, <1>8, <1>9, <1>10
\* What the right reader is handed of an undamaged CSV are the records in it.
LEMMA CsvSource ==
    ASSUME NEW f, IsWrittenCsv(f), NEW map,
           NEW fmt, fmt \notin JsonFormats \cup {"onepassword-1pux"},
           fmt = "keeper-csv" => f.kind = "headerless" /\ f.columns = KeeperPositions,
           fmt # "keeper-csv" => f.kind # "headerless"
    PROVE  LET records == Parsed(f, fmt, map).records IN
           /\ DOMAIN records = DOMAIN f.source
           /\ \A r \in DOMAIN f.source : ReadAs(fmt, records[r], f.source[r])
<1>. DEFINE table == IF fmt = "keeper-csv" THEN ParseCsvRecords(f.text) ELSE ParseCsv(f.text)
            records == Parsed(f, fmt, map).records
            cells(row) == IF fmt = "keeper-csv" THEN ByName(row, KeeperPositions)
                          ELSE ByName(row, HeaderOf(table))
            flaw(row) == IF \E e \in DOMAIN table.errors : table.errors[e] = row.line
                         THEN "damaged"
                         ELSE IF fmt # "keeper-csv" /\ Len(row.fields) > Len(table.header)
                         THEN "surplus" ELSE "none"
<1>1. records = CsvRecords(table, fmt = "keeper-csv")
  BY DEF Parsed
<1>2. /\ DOMAIN records = DOMAIN table.rows
      /\ \A r \in DOMAIN table.rows :
             records[r].cells = cells(table.rows[r]) /\ records[r].flaw = flaw(table.rows[r])
  <2>. HIDE DEF table, records
  <2>. QED  BY <1>1 DEF CsvRecords
<1>3. /\ table.errors = <<>> /\ DOMAIN table.rows = DOMAIN f.source
      /\ \A r \in DOMAIN f.source : table.rows[r].fields = RowOf(f, r)
      /\ fmt # "keeper-csv" => HeaderOf(table) = f.columns /\ Len(table.header) = Len(f.columns)
  <2>1. CASE fmt = "keeper-csv"
    <3>1. table = ParseCsvRecords(f.text)
      BY <2>1
    <3>. HIDE DEF table
    <3>. QED  BY <2>1, <3>1, HeaderlessRead
  <2>2. CASE fmt # "keeper-csv"
    <3>1. table = ParseCsv(f.text)
      BY <2>2
    <3>. HIDE DEF table
    <3>. QED  BY <2>2, <3>1, HeaderRead
  <2>. QED  BY <2>1, <2>2
<1>. HIDE DEF records, table
<1>4. DOMAIN f.source = 1 .. Len(f.source) /\ Len(f.source) \in Nat
  BY ListPlaces DEF IsWrittenCsv
<1>5. /\ f.columns \in Seq(STRING)
      /\ \A i, j \in DOMAIN f.columns : f.columns[i] = f.columns[j] => i = j
      /\ \A r \in DOMAIN f.source :
             /\ f.source[r].flaw = "none"
             /\ f.source[r].cells \in [{f.columns[i] : i \in DOMAIN f.columns} -> Seq(STRING)]
  BY Zenon DEF IsWrittenCsv
<1>6. ASSUME NEW r \in DOMAIN f.source PROVE ReadAs(fmt, records[r], f.source[r])
  <2>. DEFINE row == table.rows[r]
  <2>1. row.fields = [i \in DOMAIN f.columns |-> f.source[r].cells[f.columns[i]]]
    BY <1>3, Zenon DEF RowOf
  <2>. HIDE DEF row
  <2>2. ByName(row, f.columns) = f.source[r].cells
    <3>. DEFINE held == f.source[r].cells
    <3>1. Named(held, f.columns)
      BY <1>5, Zenon DEF Named
    <3>2. InOrder(row, held, f.columns)
      BY <2>1 DEF InOrder
    <3>. HIDE DEF held
    <3>3. ByName(row, f.columns) = held
      BY <3>1, <3>2, RowIsRecord, Zenon
    <3>. QED  BY <3>3 DEF held
  <2>3. cells(row) = f.source[r].cells
    <3>1. CASE fmt = "keeper-csv"
      BY <2>2, <3>1, Zenon
    <3>2. CASE fmt # "keeper-csv"
      BY <1>3, <2>2, <3>2, Zenon
    <3>. QED  BY <3>1, <3>2
  <2>4. Len(row.fields) = Len(f.columns) /\ Len(f.columns) \in Nat
    <3>. DEFINE values == [i \in DOMAIN f.columns |-> f.source[r].cells[f.columns[i]]]
    <3>1. /\ Len(f.columns) \in Nat /\ DOMAIN f.columns = 1 .. Len(f.columns)
          /\ values \in [1 .. Len(f.columns) -> Seq(STRING)]
      <4>1. Len(f.columns) \in Nat /\ DOMAIN f.columns = 1 .. Len(f.columns)
        BY <1>5, LenProperties
      <4>2. \A i \in DOMAIN f.columns : f.source[r].cells[f.columns[i]] \in Seq(STRING)
        BY <1>5
      <4>. QED  BY <4>1, <4>2
    <3>. HIDE DEF values
    <3>2. Len(values) = Len(f.columns)
      BY <3>1, ListOf
    <3>. QED  BY <2>1, <3>1, <3>2 DEF values
  <2>5. flaw(row) = "none"
    <3>1. DOMAIN table.errors = {}
      BY <1>3
    <3>2. fmt # "keeper-csv" => ~(Len(row.fields) > Len(table.header))
      BY <1>3, <2>4
    <3>. QED  BY <3>1, <3>2
  <2>6. records[r].cells = cells(row) /\ records[r].flaw = flaw(row)
    BY <1>2, <1>3 DEF row
  <2>. HIDE DEF cells, flaw
  <2>. QED  BY <1>5, <2>3, <2>5, <2>6 DEF ReadAs
<1>. QED  BY <1>2, <1>3, <1>6 DEF records
\* What the right reader is handed of an export in JSON are the records in it.
LEMMA JsonSource ==
    ASSUME NEW f, NEW fmt \in JsonFormats, NEW map, f.source = f.records
    PROVE  LET records == Parsed(f, fmt, map).records IN
           /\ DOMAIN records = DOMAIN f.source
           /\ \A r \in DOMAIN f.source : ReadAs(fmt, records[r], f.source[r])
<1>1. Parsed(f, fmt, map).records = [k \in DOMAIN f.records |-> AtLine(f.records[k], k)]
  BY DEF Parsed, JsonFormats
<1>. QED  BY <1>1 DEF ReadAs, AtLine

\* And of an archive, the records of its export.
LEMMA ArchiveSource ==
    ASSUME NEW f, IsList(f.archive.entries), NEW map, Parsed(f, "onepassword-1pux", map).accepted,
           \A i \in DOMAIN f.archive.entries :
               LET entry == f.archive.entries[i] IN
               /\ entry.name = "export.data"
               /\ \A k \in DOMAIN UnreadableEntries : UnreadableEntries[k] \notin entry.fails
               => entry.data.records = f.source
    PROVE  LET records == Parsed(f, "onepassword-1pux", map).records IN
           /\ DOMAIN records = DOMAIN f.source
           /\ \A r \in DOMAIN f.source : ReadAs("onepassword-1pux", records[r], f.source[r])
<1>. DEFINE data == ExportData(f)
            records == Parsed(f, "onepassword-1pux", map).records
<1>1. ~IsZipProblem(data)
  BY DEF Parsed
<1>2. records = [k \in DOMAIN data.contents.records |-> AtLine(data.contents.records[k], k)]
  BY <1>1 DEF Parsed
<1>3. data.contents.records = f.source
  <2>1. PICK i \in DOMAIN f.archive.entries :
            /\ f.archive.entries[i].name = "export.data"
            /\ \A k \in DOMAIN UnreadableEntries :
                   UnreadableEntries[k] \notin f.archive.entries[i].fails
            /\ data.contents = f.archive.entries[i].data
    BY <1>1, ExportOfEntry
  <2>. HIDE DEF data
  <2>. QED  BY <2>1
<1>. HIDE DEF data, records
<1>. QED  BY <1>2, <1>3 DEF ReadAs, AtLine, records

\* With the right reader, the records of an undamaged file are those it was written from.
LEMMA SourceIsRead ==
    ASSUME FilesAreWritten, ReaderInv, file \in Files, ~file.damaged, phase = "done", RightReader
    PROVE  /\ DOMAIN file.source = 1 .. at /\ at \in Nat
           /\ \A r \in 1 .. at : ReadAs(format, result.records[r], file.source[r])
<1>. DEFINE records == Parsed(file, format, mapping).records
<1>1. /\ result = Parsed(file, format, mapping) /\ result.accepted
      /\ at = Len(result.records) /\ at \in Nat /\ evidence = Probe(file)
  BY DEF ReaderInv, RecordsInv, MappingInv
<1>2. DOMAIN result.records = 1 .. at
  BY <1>1, ParsedRecords, ListPlaces
<1>3. file.kind \in {"headerless", "csv", "json", "archive"}
  BY DEF FilesAreWritten
<1>4. CASE file.kind = "headerless"
  <2>1. IsWrittenCsv(file) /\ file.columns = KeeperPositions
    BY <1>4 DEF FilesAreWritten
  <2>2. format = "keeper-csv"
    BY <1>4 DEF RightReader
  <2>3. /\ DOMAIN records = DOMAIN file.source
        /\ \A r \in DOMAIN file.source : ReadAs(format, records[r], file.source[r])
    BY <1>4, <2>1, <2>2, CsvSource DEF JsonFormats
  <2>. QED  BY <1>1, <1>2, <2>3
<1>5. CASE file.kind = "csv"
  <2>1. /\ IsWrittenCsv(file)
        /\ Detect(Probe(file)) \notin JsonFormats \cup {"onepassword-1pux", "keeper-csv"}
    BY <1>5 DEF FilesAreWritten
  <2>2. format \in {Detect(Probe(file)), "generic-csv"}
    BY <1>1, <1>5 DEF RightReader
  <2>3. format \notin JsonFormats \cup {"onepassword-1pux", "keeper-csv"}
    BY <2>1, <2>2 DEF JsonFormats
  <2>4. /\ DOMAIN records = DOMAIN file.source
        /\ \A r \in DOMAIN file.source : ReadAs(format, records[r], file.source[r])
    BY <1>5, <2>1, <2>3, CsvSource
  <2>. QED  BY <1>1, <1>2, <2>4
<1>6. CASE file.kind = "json"
  <2>1. file.source = file.records /\ Detect(Probe(file)) \in JsonFormats \cup {"generic-csv"}
    BY <1>6 DEF FilesAreWritten
  <2>2. format \in JsonFormats
    BY <1>1, <1>6, <2>1 DEF RightReader
  <2>3. /\ DOMAIN records = DOMAIN file.source
        /\ \A r \in DOMAIN file.source : ReadAs(format, records[r], file.source[r])
    BY <2>1, <2>2, JsonSource
  <2>. QED  BY <1>1, <1>2, <2>3
<1>7. CASE file.kind = "archive"
  <2>1. /\ Detect(Probe(file)) \in {"onepassword-1pux", "generic-csv"}
        /\ \A i \in DOMAIN file.archive.entries :
               LET entry == file.archive.entries[i] IN
               /\ entry.name = "export.data"
               /\ \A k \in DOMAIN UnreadableEntries : UnreadableEntries[k] \notin entry.fails
               => entry.data.records = file.source
    BY <1>7 DEF FilesAreWritten
  <2>2. format = "onepassword-1pux"
    BY <1>1, <1>7, <2>1 DEF RightReader
  <2>3. IsList(file.archive.entries)
    BY FilesAssumption
  <2>4. /\ DOMAIN records = DOMAIN file.source
        /\ \A r \in DOMAIN file.source : ReadAs(format, records[r], file.source[r])
    BY <1>1, <2>1, <2>2, <2>3, ArchiveSource
  <2>. QED  BY <1>1, <1>2, <2>4
<1>. QED  BY <1>3, <1>4, <1>5, <1>6, <1>7
\* What was written is what is read, for every undamaged file: when the exports are
\* written as their exporters write them, each item holds values of one record of the
\* file and nothing else, and no record is missing that the parser did not refuse.
THEOREM SoundFilesAreReadBack ==
    ASSUME FilesAreWritten
    PROVE  Spec => [](~file.damaged => ReadBackAsWritten)
<1>1. ASSUME ReaderInv, file \in Files, ~file.damaged, phase = "done", RightReader
      PROVE  LET values(r) == {file.source[r].cells[c] : c \in DOMAIN file.source[r].cells}
             IN  /\ \A k \in DOMAIN items : \E r \in DOMAIN file.source :
                        Landed(items[k].plaintext) \subseteq values(r)
                 /\ Len(items) = Cardinality({r \in DOMAIN file.source :
                        ~IsRowError(Outcome(format, file.source[r], result.header, mapping))})
  <2>. DEFINE values(r) == {file.source[r].cells[c] : c \in DOMAIN file.source[r].cells}
              kept == {r \in DOMAIN file.source :
                          ~IsRowError(Outcome(format, file.source[r], result.header, mapping))}
  <2>1. /\ DOMAIN file.source = 1 .. at /\ at \in Nat
        /\ \A r \in 1 .. at : ReadAs(format, result.records[r], file.source[r])
    BY <1>1, SourceIsRead
  <2>2. format \in MANUAL_FORMATS
    BY <1>1 DEF ReaderInv
  <2>3. \A r \in 1 .. at :
            OutcomeAt(r) = Outcome(format, file.source[r], result.header, mapping)
    BY <2>1, <2>2, SameOutcome DEF OutcomeAt
  <2>4. ASSUME NEW k \in DOMAIN items
        PROVE  \E r \in DOMAIN file.source : Landed(items[k].plaintext) \subseteq values(r)
    <3>1. PICK r \in 1 .. at : ~IsRowError(OutcomeAt(r)) /\ items[k] = ItemOf(r)
      BY <1>1 DEF ReaderInv
    <3>2. items[k].plaintext = ToItemPlaintext(OutcomeAt(r))
      BY <3>1 DEF ItemOf
    <3>3. OutcomeAt(r) \in Outcomes(result.records[r])
      BY <2>2, OutcomeOfRecord DEF OutcomeAt
    <3>4. Landed(items[k].plaintext) \subseteq ValuesOf(result.records[r])
      BY <3>1, <3>2, <3>3, PlaintextOfOutcome
    <3>5. ValuesOf(result.records[r]) = values(r)
      <4>1. result.records[r].cells = file.source[r].cells
        BY <2>1 DEF ReadAs
      <4>. QED  BY <4>1, Zenon DEF ValuesOf
    <3>. HIDE DEF values
    <3>. QED  BY <2>1, <3>4, <3>5
  <2>5. Len(items) = Cardinality(kept)
    <3>. DEFINE refused == Refusals(at)
    <3>1. kept = (1 .. at) \ refused /\ refused \subseteq 1 .. at
      BY <2>1, <2>3 DEF Refusals
    <3>2. Len(items) + Cardinality(refused) = at /\ Len(items) \in Nat
      BY <1>1, ListPlaces DEF ReaderInv
    <3>3. IsFiniteSet(1 .. at) /\ Cardinality(1 .. at) = at
      BY <2>1, FS_Interval
    <3>. HIDE DEF kept, refused
    <3>4. IsFiniteSet(refused) /\ Cardinality(refused) \in Nat
      BY <3>1, <3>3, FS_Subset, FS_CardinalityType
    <3>5. Cardinality((1 .. at) \ refused) = at - Cardinality((1 .. at) \cap refused)
      BY <3>3, FS_Difference, Zenon
    <3>6. (1 .. at) \cap refused = refused
      BY <3>1
    <3>7. Cardinality(kept) = at - Cardinality(refused)
      BY <3>1, <3>5, <3>6, Zenon
    <3>. QED  BY <2>1, <3>2, <3>4, <3>7
  <2>. QED  BY <2>4, <2>5
<1>2. ReaderInv /\ file \in Files => (~file.damaged => ReadBackAsWritten)
  BY <1>1, Zenon DEF ReadBackAsWritten
<1>. QED  BY <1>2, ReaderCorrect, PTL
-----------------------------------------------------------------------------
(***************************************************************************)
(* One signature: which columns and keys tell the products apart.          *)
(***************************************************************************)

\* A header of as many columns as the set it holds has no others.
LEMMA ExactHeader ==
    ASSUME NEW seen, IsList(seen.header), NEW columns, IsFiniteSet(columns),
           HeaderSetIs(seen, columns)
    PROVE  HeaderSet(seen) = columns
<1>. DEFINE n == Len(seen.header)
            H == HeaderSet(seen)
<1>1. n \in Nat /\ DOMAIN seen.header = 1 .. n /\ n = Cardinality(columns) /\ columns \subseteq H
  BY ListPlaces DEF HeaderSetIs
<1>2. IsFiniteSet(1 .. n) /\ Cardinality(1 .. n) = n
  BY <1>1, FS_Interval
<1>3. seen.header \in [1 .. n -> H] /\ H = {seen.header[i] : i \in 1 .. n}
  <2>1. H = {seen.header[i] : i \in 1 .. n}
    BY <1>1 DEF HeaderSet
  <2>2. seen.header = [i \in 1 .. n |-> seen.header[i]]
    BY ListPlaces
  <2>. QED  BY <2>1, <2>2
<1>4. seen.header \in Surjection(1 .. n, H)
  BY <1>3 DEF Surjection
<1>. HIDE DEF H
<1>5. IsFiniteSet(H) /\ Cardinality(H) <= n
  <2>1. IsFiniteSet(H) /\ Cardinality(H) <= Cardinality(1 .. n)
    BY <1>2, <1>4, FS_Surjection, Zenon
  <2>. QED  BY <1>2, <2>1, Zenon
<1>6. columns = H
  <2>1. Cardinality(columns) <= Cardinality(H)
    BY <1>1, <1>5, FS_Subset
  <2>2. Cardinality(H) \in Nat /\ Cardinality(columns) \in Nat
    BY <1>5, FS_CardinalityType
  <2>. QED  BY <1>1, <1>5, <2>1, <2>2, FS_Subset
<1>. QED  BY <1>6 DEF H

\* A set of six elements at most is finite.
LEMMA SixElements ==
    ASSUME NEW a, NEW b, NEW c, NEW d, NEW e, NEW f
    PROVE  IsFiniteSet({a, b, c, d, e, f})
<1>1. IsFiniteSet({}) /\ \A S, x : IsFiniteSet(S) => IsFiniteSet(S \cup {x})
  BY FS_EmptySet, FS_AddElement
<1>2. IsFiniteSet(((((({} \cup {a}) \cup {b}) \cup {c}) \cup {d}) \cup {e}) \cup {f})
  BY <1>1, Zenon
<1>3. {a, b, c, d, e, f} = ((((({} \cup {a}) \cup {b}) \cup {c}) \cup {d}) \cup {e}) \cup {f}
  OBVIOUS
<1>. QED  BY <1>2, <1>3, Zenon

\* What tells the products' exports apart: a column of its own in a CSV, a key of
\* its own in a JSON object.
MarkedColumns ==
    {"login_uri", "grouping", "httprealm", "archived", "group", "cardholdername", "otpsecret"}

JsonMarks(id, json) ==
    CASE id = "bitwarden-json" ->
           (json.arrays \cap {"items"}) \cup (json.texts \cap {"data"})
      [] id = "protonpass-json" -> json.objects \cap {"vaults"}
      [] id = "dashlane-json" -> json.arrays \cap RecordLists
      [] id = "keeper-json" -> json.arrays \cap {"records"}

\* What the signature in a place says of a file that it matches.
Says(k, seen) ==
    LET H == HeaderSet(seen) IN
    /\ k \in 1 .. 15
    /\ k \in 1 .. 4 =>
           SignatureOrder[k] \in {id \in JsonFormats : JsonMarks(id, seen.json) # {}}
    /\ k = 5 => seen.magic
    /\ k = 6 => "login_uri" \in H
    /\ k \in 7 .. 15 => "password" \in H
    /\ k = 7 => "grouping" \in H
    /\ k = 8 => "name" \in H /\ "title" \notin H /\ H \cap MarkedColumns = {}
    /\ k = 9 => "httprealm" \in H
    /\ k = 10 => "title" \in H /\ "name" \notin H /\ H \cap MarkedColumns = {}
    /\ k = 11 => "archived" \in H
    /\ k = 12 => "group" \in H
    /\ k = 13 => "name" \notin H /\ "title" \notin H /\ H \cap MarkedColumns = {}
    /\ k = 14 => "cardholdername" \in H
    /\ k = 15 => "otpsecret" \in H

\* A signature that matches says so.
LEMMA SignatureMarks ==
    ASSUME NEW seen, IsList(seen.header), NEW k \in Signatures(seen)
    PROVE  Says(k, seen)
<1>. DEFINE H == HeaderSet(seen)
<1>1. /\ k \in 1 .. 15 /\ Matches(SignatureOrder[k], seen)
      /\ SignatureOrder[1] = "bitwarden-json" /\ SignatureOrder[2] = "protonpass-json"
      /\ SignatureOrder[3] = "dashlane-json" /\ SignatureOrder[4] = "keeper-json"
      /\ SignatureOrder[5] = "onepassword-1pux" /\ SignatureOrder[6] = "bitwarden-csv"
      /\ SignatureOrder[7] = "lastpass-csv" /\ SignatureOrder[8] = "chromium-csv"
      /\ SignatureOrder[9] = "firefox-csv" /\ SignatureOrder[10] = "safari-csv"
      /\ SignatureOrder[11] = "onepassword-csv" /\ SignatureOrder[12] = "keepassxc-csv"
      /\ SignatureOrder[13] = "keepass-csv" /\ SignatureOrder[14] = "nordpass-csv"
      /\ SignatureOrder[15] = "dashlane-csv"
  BY DEF Signatures, SignatureOrder
<1>2. \A columns : HasColumns(seen.header, columns) => columns \subseteq H
  BY DEF HasColumns, HeaderSet
<1>. HIDE DEF H
<1>3. k = 1 => JsonMarks("bitwarden-json", seen.json) # {}
  BY <1>1 DEF Matches, IsBitwardenJson, JsonMarks
<1>4. k = 2 => JsonMarks("protonpass-json", seen.json) # {}
  BY <1>1 DEF Matches, JsonMarks
<1>5. k = 3 => JsonMarks("dashlane-json", seen.json) # {}
  BY <1>1 DEF Matches, JsonMarks
<1>6. k = 4 => JsonMarks("keeper-json", seen.json) # {}
  BY <1>1 DEF Matches, JsonMarks
<1>7. k \in 1 .. 4 => JsonMarks(SignatureOrder[k], seen.json) # {} /\ SignatureOrder[k] \in JsonFormats
  BY <1>1, <1>3, <1>4, <1>5, <1>6 DEF JsonFormats
<1>8. k = 5 => seen.magic
  BY <1>1 DEF Matches
<1>9. k = 6 => "login_uri" \in H
  BY <1>1, <1>2 DEF Matches, SignatureColumns
<1>10. k = 7 => "grouping" \in H /\ "password" \in H
  BY <1>1, <1>2 DEF Matches, SignatureColumns
<1>11. k = 9 => "httprealm" \in H /\ "password" \in H
  BY <1>1, <1>2 DEF Matches, SignatureColumns
<1>12. k = 11 => "archived" \in H /\ "password" \in H
  BY <1>1, <1>2 DEF Matches, SignatureColumns
<1>13. k = 12 => "group" \in H /\ "password" \in H
  BY <1>1, <1>2 DEF Matches, SignatureColumns
<1>14. k = 14 => "cardholdername" \in H /\ "password" \in H
  BY <1>1, <1>2 DEF Matches, SignatureColumns
<1>15. k = 15 => "otpsecret" \in H /\ "password" \in H
  BY <1>1, <1>2 DEF Matches, SignatureColumns
<1>16. ASSUME NEW columns, IsFiniteSet(columns), HeaderSetIs(seen, columns) PROVE H = columns
  BY <1>16, ExactHeader DEF H
<1>17. ASSUME k = 8
       PROVE  "name" \in H /\ "password" \in H /\ "title" \notin H /\ H \cap MarkedColumns = {}
  <2>. DEFINE four == {"name", "url", "username", "password"}
              five == {"name", "url", "username", "password", "note"}
  <2>1. HeaderSetIs(seen, five) \/ HeaderSetIs(seen, four)
    BY <1>1, <1>17 DEF Matches, IsChromium
  <2>2. IsFiniteSet(four) /\ IsFiniteSet(five)
    <3>1. /\ four = {"name", "url", "username", "password", "password", "password"}
          /\ five = {"name", "url", "username", "password", "note", "note"}
      OBVIOUS
    <3>. QED  BY <3>1, SixElements, Zenon
  <2>3. H = four \/ H = five
    <3>. HIDE DEF four, five
    <3>. QED  BY <1>16, <2>1, <2>2
  <2>. QED  BY <2>3 DEF MarkedColumns
<1>18. ASSUME k = 10
       PROVE  "title" \in H /\ "password" \in H /\ "name" \notin H /\ H \cap MarkedColumns = {}
  <2>. DEFINE five == {"title", "url", "username", "password", "notes"}
              six == {"title", "url", "username", "password", "notes", "otpauth"}
  <2>1. HeaderSetIs(seen, six) \/ HeaderSetIs(seen, five)
    BY <1>1, <1>18 DEF Matches
  <2>2. IsFiniteSet(five) /\ IsFiniteSet(six)
    <3>1. five = {"title", "url", "username", "password", "notes", "notes"}
      OBVIOUS
    <3>. QED  BY <3>1, SixElements, Zenon
  <2>3. H = five \/ H = six
    <3>. HIDE DEF five, six
    <3>. QED  BY <1>16, <2>1, <2>2
  <2>. QED  BY <2>3 DEF MarkedColumns
<1>19. ASSUME k = 13
       PROVE  /\ "password" \in H /\ "name" \notin H /\ "title" \notin H
              /\ H \cap MarkedColumns = {}
  <2>. DEFINE columns == <<"account", "login name", "password", "web site", "comments">>
  <2>1. seen.header = columns
    BY <1>1, <1>19 DEF Matches
  <2>2. /\ DOMAIN columns = 1 .. 5 /\ columns[1] = "account" /\ columns[2] = "login name"
        /\ columns[3] = "password" /\ columns[4] = "web site" /\ columns[5] = "comments"
    OBVIOUS
  <2>. DEFINE others == {"name", "title"} \cup MarkedColumns
  <2>. HIDE DEF columns
  <2>3. \A i \in 1 .. 5 : columns[i] \notin others
    <3>1. /\ "account" \notin others /\ "login name" \notin others /\ "password" \notin others
          /\ "web site" \notin others /\ "comments" \notin others
      BY Zenon DEF MarkedColumns
    <3>2. /\ columns[1] \notin others /\ columns[2] \notin others /\ columns[3] \notin others
          /\ columns[4] \notin others /\ columns[5] \notin others
      BY <2>2, <3>1, Zenon
    <3>. HIDE DEF others
    <3>. QED  BY <3>2
  <2>4. H = {columns[i] : i \in 1 .. 5} /\ 3 \in 1 .. 5
    <3>1. DOMAIN columns = 1 .. 5
      BY <2>2
    <3>. QED  BY <2>1, <3>1 DEF H, HeaderSet
  <2>. QED  BY <2>2, <2>3, <2>4
<1>. QED  BY <1>1, <1>7, <1>8, <1>9, <1>10, <1>11, <1>12, <1>13, <1>14, <1>15, <1>17, <1>18, <1>19
          DEF H, Says

\* The signatures by their places.
LEMMA SignaturePlaces ==
    /\ DOMAIN SignatureOrder = 1 .. 15
    /\ SignatureOrder[1] = "bitwarden-json" /\ SignatureOrder[2] = "protonpass-json"
    /\ SignatureOrder[3] = "dashlane-json" /\ SignatureOrder[4] = "keeper-json"
    /\ SignatureOrder[5] = "onepassword-1pux" /\ SignatureOrder[6] = "bitwarden-csv"
    /\ SignatureOrder[7] = "lastpass-csv" /\ SignatureOrder[8] = "chromium-csv"
    /\ SignatureOrder[9] = "firefox-csv" /\ SignatureOrder[10] = "safari-csv"
    /\ SignatureOrder[11] = "onepassword-csv" /\ SignatureOrder[12] = "keepassxc-csv"
    /\ SignatureOrder[13] = "keepass-csv" /\ SignatureOrder[14] = "nordpass-csv"
    /\ SignatureOrder[15] = "dashlane-csv"
BY DEF SignatureOrder

\* What the export of a product shows of the marks.
ShowsJson(k, seen) ==
    /\ \A i \in 1 .. 4 : JsonMarks(SignatureOrder[i], seen.json) # {} <=> i = k
    /\ seen.magic <=> k = 5
    /\ k <= 5 => HeaderSet(seen) \cap {"password", "login_uri"} = {}

ShowsColumns(k, seen) ==
    LET H == HeaderSet(seen) IN
    /\ "login_uri" \in H <=> k = 6
    /\ k = 6 => "password" \notin H
    /\ "grouping" \in H <=> k = 7
    /\ "httprealm" \in H <=> k = 9
    /\ "archived" \in H <=> k = 11
    /\ "group" \in H <=> k = 12
    /\ "cardholdername" \in H <=> k = 14
    /\ "otpsecret" \in H <=> k = 15
    /\ k = 8 => "name" \in H /\ "title" \notin H
    /\ k = 10 => "title" \in H /\ "name" \notin H
    /\ k = 13 => "name" \notin H /\ "title" \notin H

\* A JSON export, or an archive, shows its own mark alone.
LEMMA JsonExportShows ==
    ASSUME NEW k \in 1 .. 15, NEW seen, IsJsonExportOf(SignatureOrder[k], seen), k <= 5
    PROVE  ShowsJson(k, seen)
<1>1. SignatureOrder[k] \in {"bitwarden-json", "protonpass-json", "dashlane-json", "keeper-json",
                             "onepassword-1pux"}
  BY SignaturePlaces
<1>2. k \in {1, 2, 3, 4, 5}
  OBVIOUS
<1>3. /\ seen.magic <=> k = 5
      /\ HeaderSet(seen) \cap {"password", "login_uri"} = {}
  BY <1>2, SignaturePlaces DEF IsJsonExportOf
<1>. DEFINE m1 == (seen.json.arrays \cap {"items"}) \cup (seen.json.texts \cap {"data"})
            m2 == seen.json.objects \cap {"vaults"}
            m3 == seen.json.arrays \cap RecordLists
            m4 == seen.json.arrays \cap {"records"}
<1>4. /\ JsonMarks("bitwarden-json", seen.json) = m1
      /\ JsonMarks("protonpass-json", seen.json) = m2
      /\ JsonMarks("dashlane-json", seen.json) = m3
      /\ JsonMarks("keeper-json", seen.json) = m4
  BY DEF JsonMarks
<1>5. (m1 # {} <=> k = 1) /\ (m2 # {} <=> k = 2) /\ (m3 # {} <=> k = 3) /\ (m4 # {} <=> k = 4)
  <2>1. CASE k = 1
    <3>1. /\ seen.json.objects = {}
          /\ \/ "items" \in seen.json.arrays
                /\ seen.json.arrays \subseteq {"items", "folders", "collections"}
             \/ seen.json.arrays = {} /\ "data" \in seen.json.texts
      BY <2>1, SignaturePlaces DEF IsJsonExportOf
    <3>. QED  BY <2>1, <3>1 DEF RecordLists
  <2>2. CASE k = 2
    <3>1. /\ seen.json.objects = {"vaults"} /\ seen.json.arrays = {}
          /\ "data" \notin seen.json.texts
      BY <2>2, SignaturePlaces DEF IsJsonExportOf
    <3>. QED  BY <2>2, <3>1
  <2>3. CASE k = 3
    <3>1. /\ seen.json.arrays \subseteq RecordLists /\ seen.json.arrays # {}
          /\ seen.json.objects = {} /\ seen.json.texts = {}
      BY <2>3, SignaturePlaces DEF IsJsonExportOf
    <3>. QED  BY <2>3, <3>1 DEF RecordLists
  <2>4. CASE k = 4
    <3>1. /\ seen.json.arrays = {"records", "shared_folders"}
          /\ seen.json.objects = {} /\ seen.json.texts = {}
      BY <2>4, SignaturePlaces DEF IsJsonExportOf
    <3>. QED  BY <2>4, <3>1 DEF RecordLists
  <2>5. CASE k = 5
    <3>1. seen.json = NoJson
      BY <2>5, SignaturePlaces DEF IsJsonExportOf
    <3>. QED  BY <2>5, <3>1 DEF NoJson
  <2>. QED  BY <1>2, <2>1, <2>2, <2>3, <2>4, <2>5
<1>. QED  BY <1>3, <1>4, <1>5, SignaturePlaces DEF ShowsJson

\* A table shows none of theirs.
LEMMA TableShowsNoJson ==
    ASSUME NEW k \in 6 .. 15, NEW seen, seen.json = NoJson, ~seen.magic
    PROVE  ShowsJson(k, seen)
<1>1. \A i \in 1 .. 4 : JsonMarks(SignatureOrder[i], seen.json) = {}
  BY SignaturePlaces DEF JsonMarks, NoJson
<1>. QED  BY <1>1 DEF ShowsJson

\* A table shows the mark of its product alone, of those that have one.
LEMMA TableShows ==
    ASSUME NEW k \in 6 .. 15, NEW seen, IsCsvExportOf(SignatureOrder[k], seen)
    PROVE  ShowsColumns(k, seen)
<1>. DEFINE H == HeaderSet(seen)
<1>1. k \in {6, 7, 8, 9, 10, 11, 12, 13, 14, 15}
  OBVIOUS
<1>2. ASSUME NEW id, id = SignatureOrder[k], id # "keepass-csv"
      PROVE  /\ ColumnsAlwaysThere(id) \subseteq H
             /\ \E columns \in ExportColumns(ParserOf(id)) : H \subseteq columns
  BY <1>2 DEF IsCsvExportOf
<1>3. CASE k = 6
  <2>. DEFINE columns == {"folder", "favorite", "type", "name", "notes", "fields", "reprompt",
                          "login_uri", "login_username", "login_password", "login_totp"}
  <2>1. /\ ExportColumns("bitwarden-csv") = {columns}
        /\ ColumnsAlwaysThere("bitwarden-csv") = UNION ExportColumns("bitwarden-csv")
    BY DEF ExportColumns, ColumnsAlwaysThere
  <2>2. SignatureOrder[k] = "bitwarden-csv" /\ ParserOf("bitwarden-csv") = "bitwarden-csv"
    BY <1>3, SignaturePlaces DEF ParserOf
  <2>. HIDE DEF H
  <2>3. "login_uri" \in H /\ H \subseteq columns
    BY <1>2, <2>1, <2>2
  <2>. QED  BY <1>3, <2>3 DEF ShowsColumns, H
<1>4. CASE k = 7
  <2>. DEFINE columns ==
                  {"url", "username", "password", "totp", "extra", "name", "grouping", "fav"}
  <2>1. ExportColumns("lastpass-csv") = {columns} /\ "grouping" \in ColumnsAlwaysThere("lastpass-csv")
    BY DEF ExportColumns, ColumnsAlwaysThere
  <2>2. SignatureOrder[k] = "lastpass-csv" /\ ParserOf("lastpass-csv") = "lastpass-csv"
    BY <1>4, SignaturePlaces DEF ParserOf
  <2>. HIDE DEF H
  <2>3. "grouping" \in H /\ H \subseteq columns
    BY <1>2, <2>1, <2>2
  <2>. QED  BY <1>4, <2>3 DEF ShowsColumns, H
<1>5. k \in {8, 9, 10} => H \subseteq FirefoxColumns \/ H \subseteq SafariColumns
                    \/ H \subseteq ChromiumColumns
  <2>1. k \in {8, 9, 10} => ParserOf(SignatureOrder[k]) = "browser-csv"
                            /\ SignatureOrder[k] # "keepass-csv"
    BY SignaturePlaces DEF ParserOf
  <2>2. ExportColumns("browser-csv") = {FirefoxColumns, SafariColumns, ChromiumColumns}
    BY DEF ExportColumns
  <2>. QED  BY <1>2, <2>1, <2>2
<1>6. CASE k = 8
  <2>1. "name" \in H
    BY <1>2, <1>6, SignaturePlaces DEF ColumnsAlwaysThere
  <2>2. H \subseteq ChromiumColumns
    <3>. HIDE DEF H
    <3>. QED  BY <1>5, <1>6, <2>1 DEF FirefoxColumns, SafariColumns
  <2>. HIDE DEF H
  <2>. QED  BY <1>6, <2>1, <2>2 DEF ShowsColumns, ChromiumColumns, H
<1>7. CASE k = 9
  <2>1. "httprealm" \in H
    BY <1>2, <1>7, SignaturePlaces DEF ColumnsAlwaysThere
  <2>2. H \subseteq FirefoxColumns
    <3>. HIDE DEF H
    <3>. QED  BY <1>5, <1>7, <2>1 DEF SafariColumns, ChromiumColumns
  <2>. HIDE DEF H
  <2>. QED  BY <1>7, <2>1, <2>2 DEF ShowsColumns, FirefoxColumns, H
<1>8. CASE k = 10
  <2>1. "title" \in H
    BY <1>2, <1>8, SignaturePlaces DEF ColumnsAlwaysThere
  <2>2. H \subseteq SafariColumns
    <3>. HIDE DEF H
    <3>. QED  BY <1>5, <1>8, <2>1 DEF FirefoxColumns, ChromiumColumns
  <2>. HIDE DEF H
  <2>. QED  BY <1>8, <2>1, <2>2 DEF ShowsColumns, SafariColumns, H
<1>9. CASE k = 11
  <2>1. SignatureOrder[k] = "onepassword-csv" /\ ParserOf("onepassword-csv") = "onepassword-csv"
    BY <1>9, SignaturePlaces DEF ParserOf
  <2>2. "archived" \in H
    BY <1>2, <2>1 DEF ColumnsAlwaysThere
  <2>3. H \subseteq {"title", "username", "password", "otpauth", "favorite", "archived", "tags",
                     "url", "website", "urls", "notes", "note"}
    <3>1. PICK columns \in ExportColumns("onepassword-csv") : H \subseteq columns
      BY <1>2, <2>1
    <3>2. PICK address \in {"url", "website", "urls"}, note \in {"notes", "note"} :
              columns = {"title", "username", "password", "otpauth", "favorite", "archived",
                         "tags", address, note}
      BY DEF ExportColumns
    <3>. HIDE DEF H
    <3>. QED  BY <3>1, <3>2
  <2>. HIDE DEF H
  <2>. QED  BY <1>9, <2>2, <2>3 DEF ShowsColumns, H
<1>10. CASE k = 12
  <2>1. SignatureOrder[k] = "keepassxc-csv" /\ ParserOf("keepassxc-csv") = "keepass-csv"
    BY <1>10, SignaturePlaces DEF ParserOf
  <2>2. "group" \in H
    BY <1>2, <2>1 DEF ColumnsAlwaysThere
  <2>3. ExportColumns("keepass-csv") = {KeePassXCColumns, KeePassColumns}
    BY DEF ExportColumns
  <2>. HIDE DEF H
  <2>4. H \subseteq KeePassColumns \/ H \subseteq KeePassXCColumns
    BY <1>2, <2>1, <2>3
  <2>5. /\ "group" \notin KeePassColumns /\ "login_uri" \notin KeePassXCColumns
        /\ "grouping" \notin KeePassXCColumns /\ "httprealm" \notin KeePassXCColumns
        /\ "archived" \notin KeePassXCColumns /\ "cardholdername" \notin KeePassXCColumns
        /\ "otpsecret" \notin KeePassXCColumns
    BY Zenon DEF KeePassColumns, KeePassXCColumns
  <2>. QED  BY <1>10, <2>2, <2>4, <2>5 DEF ShowsColumns, H
<1>11. CASE k = 13
  <2>. DEFINE columns == <<"account", "login name", "password", "web site", "comments">>
  <2>1. seen.header = columns
    BY <1>11, SignaturePlaces DEF IsCsvExportOf
  <2>2. /\ DOMAIN columns = 1 .. 5 /\ columns[1] = "account" /\ columns[2] = "login name"
        /\ columns[3] = "password" /\ columns[4] = "web site" /\ columns[5] = "comments"
    OBVIOUS
  <2>. HIDE DEF columns
  <2>3. /\ columns[1] \in KeePassColumns /\ columns[2] \in KeePassColumns
        /\ columns[3] \in KeePassColumns /\ columns[4] \in KeePassColumns
        /\ columns[5] \in KeePassColumns
    BY <2>2, Zenon DEF KeePassColumns
  <2>4. H \subseteq KeePassColumns
    <3>1. \A i \in 1 .. 5 : i = 1 \/ i = 2 \/ i = 3 \/ i = 4 \/ i = 5
      OBVIOUS
    <3>2. DOMAIN columns = 1 .. 5
      BY <2>2
    <3>3. \A i \in DOMAIN columns : columns[i] \in KeePassColumns
      BY <2>3, <3>1, <3>2
    <3>. QED  BY <2>1, <3>3 DEF HeaderSet
  <2>5. /\ "login_uri" \notin KeePassColumns /\ "grouping" \notin KeePassColumns
        /\ "httprealm" \notin KeePassColumns /\ "archived" \notin KeePassColumns
        /\ "group" \notin KeePassColumns /\ "cardholdername" \notin KeePassColumns
        /\ "otpsecret" \notin KeePassColumns /\ "name" \notin KeePassColumns
        /\ "title" \notin KeePassColumns
    BY Zenon DEF KeePassColumns
  <2>. HIDE DEF H
  <2>. QED  BY <1>11, <2>4, <2>5 DEF ShowsColumns, H
<1>12. CASE k = 14
  <2>1. SignatureOrder[k] = "nordpass-csv" /\ ParserOf("nordpass-csv") = "nordpass-csv"
    BY <1>12, SignaturePlaces DEF ParserOf
  <2>2. ExportColumns("nordpass-csv") = {NordPassColumns}
    BY DEF ExportColumns
  <2>3. ColumnsAlwaysThere("nordpass-csv") = UNION ExportColumns("nordpass-csv")
    BY DEF ColumnsAlwaysThere
  <2>4. "cardholdername" \in H
    <3>1. "cardholdername" \in NordPassColumns
      BY DEF NordPassColumns, CardColumns
    <3>. HIDE DEF H
    <3>. QED  BY <1>2, <2>1, <2>2, <2>3, <3>1
  <2>5. H \subseteq NordPassColumns
    BY <1>2, <2>1, <2>2
  <2>. HIDE DEF H
  <2>. QED  BY <1>12, <2>4, <2>5 DEF ShowsColumns, NordPassColumns, CardColumns, IdentityColumns,
                                        H
<1>13. CASE k = 15
  <2>. DEFINE columns == {"username", "username2", "username3", "title", "password", "note", "url",
                          "category", "otpsecret"}
  <2>1. /\ ExportColumns("dashlane-csv") = {columns}
        /\ ColumnsAlwaysThere("dashlane-csv") = UNION ExportColumns("dashlane-csv")
    BY DEF ExportColumns, ColumnsAlwaysThere
  <2>2. SignatureOrder[k] = "dashlane-csv" /\ ParserOf("dashlane-csv") = "dashlane-csv"
    BY <1>13, SignaturePlaces DEF ParserOf
  <2>. HIDE DEF H
  <2>3. "otpsecret" \in H /\ H \subseteq columns
    BY <1>2, <2>1, <2>2
  <2>. QED  BY <1>13, <2>3 DEF ShowsColumns, H
<1>. QED  BY <1>1, <1>3, <1>4, <1>6, <1>7, <1>8, <1>9, <1>10, <1>11, <1>12, <1>13

\* What a product exports is recognised by its own signature.
LEMMA OwnSignature ==
    ASSUME NEW k \in 1 .. 15, NEW seen, IsExportOf(SignatureOrder[k], seen)
    PROVE  Matches(SignatureOrder[k], seen)
<1>. DEFINE id == SignatureOrder[k]
            H == HeaderSet(seen)
<1>1. k \in {1, 2, 3, 4, 5, 6, 7, 8, 9, 10, 11, 12, 13, 14, 15}
  OBVIOUS
<1>2. \A columns : columns \subseteq H => HasColumns(seen.header, columns)
  BY DEF HasColumns, HeaderSet
<1>3. CASE k <= 5
  <2>1. /\ id \in JsonFormats \cup {"onepassword-1pux"}
        /\ k \in {1, 2, 3, 4, 5}
    BY <1>1, <1>3, SignaturePlaces DEF JsonFormats
  <2>2. IsJsonExportOf(id, seen)
    BY <2>1 DEF IsExportOf
  <2>3. CASE k = 1
    <3>1. \/ "items" \in seen.json.arrays
             /\ seen.json.arrays \in (SUBSET {"items", "folders", "collections"}) \ {{"items"}}
          \/ /\ seen.json.arrays = {} /\ "data" \in seen.json.texts
             /\ "passwordProtected" \in seen.json.true
      BY <2>2, <2>3, SignaturePlaces DEF IsJsonExportOf
    <3>2. IsBitwardenJson(seen.json)
      BY <3>1 DEF IsBitwardenJson
    <3>. QED  BY <2>3, <3>2, SignaturePlaces DEF Matches
  <2>4. CASE k = 2
    BY <2>2, <2>4, SignaturePlaces DEF IsJsonExportOf, Matches
  <2>5. CASE k = 3
    <3>1. seen.json.arrays \subseteq RecordLists /\ seen.json.arrays # {}
      BY <2>2, <2>5, SignaturePlaces DEF IsJsonExportOf
    <3>2. seen.json.arrays \cap RecordLists # {}
      BY <3>1
    <3>. QED  BY <2>5, <3>2, SignaturePlaces DEF Matches
  <2>6. CASE k = 4
    BY <2>2, <2>6, SignaturePlaces DEF IsJsonExportOf, Matches
  <2>7. CASE k = 5
    BY <2>2, <2>7, SignaturePlaces DEF IsJsonExportOf, Matches
  <2>. QED  BY <2>1, <2>3, <2>4, <2>5, <2>6, <2>7
<1>4. k > 5 => IsCsvExportOf(id, seen)
  <2>1. k > 5 => id \notin JsonFormats \cup {"onepassword-1pux"}
    BY <1>1, SignaturePlaces DEF JsonFormats
  <2>. QED  BY <2>1 DEF IsExportOf
<1>5. k > 5 /\ k # 13 => /\ ColumnsAlwaysThere(id) \subseteq H
                         /\ \E columns \in ExportColumns(ParserOf(id)) : H \subseteq columns
                         /\ Len(seen.header) = Cardinality(H)
  <2>1. k > 5 /\ k # 13 => id # "keepass-csv"
    BY <1>1, SignaturePlaces
  <2>. QED  BY <1>4, <2>1 DEF IsCsvExportOf
<1>6. CASE k \in {6, 7, 9, 11, 12, 14, 15}
  <2>1. SignatureColumns(id) \subseteq ColumnsAlwaysThere(id)
    <3>1. CASE k = 6
      BY <3>1, SignaturePlaces DEF SignatureColumns, ColumnsAlwaysThere, ExportColumns
    <3>2. CASE k = 7
      BY <3>2, SignaturePlaces DEF SignatureColumns, ColumnsAlwaysThere
    <3>3. CASE k = 9
      BY <3>3, SignaturePlaces DEF SignatureColumns, ColumnsAlwaysThere
    <3>4. CASE k = 11
      BY <3>4, SignaturePlaces DEF SignatureColumns, ColumnsAlwaysThere
    <3>5. CASE k = 12
      BY <3>5, SignaturePlaces DEF SignatureColumns, ColumnsAlwaysThere
    <3>6. CASE k = 14
      <4>1. ExportColumns("nordpass-csv") = {NordPassColumns}
        BY DEF ExportColumns
      <4>2. /\ ColumnsAlwaysThere("nordpass-csv") = UNION ExportColumns("nordpass-csv")
            /\ SignatureColumns("nordpass-csv") =
                   {"name", "url", "username", "password", "cardholdername", "cvc", "folder"}
        BY DEF ColumnsAlwaysThere, SignatureColumns
      <4>3. {"name", "url", "username", "password", "cardholdername", "cvc", "folder"} \subseteq
                UNION ExportColumns("nordpass-csv")
        <5>1. {"name", "url", "username", "password", "cardholdername", "cvc", "folder"}
                  \subseteq NordPassColumns
          BY DEF NordPassColumns, CardColumns
        <5>. QED  BY <4>1, <5>1
      <4>. QED  BY <3>6, <4>2, <4>3, SignaturePlaces
    <3>7. CASE k = 15
      BY <3>7, SignaturePlaces DEF SignatureColumns, ColumnsAlwaysThere, ExportColumns
    <3>. QED  BY <1>6, <3>1, <3>2, <3>3, <3>4, <3>5, <3>6, <3>7
  <2>2. HasColumns(seen.header, SignatureColumns(id))
    <3>. HIDE DEF H, id
    <3>. QED  BY <1>2, <1>5, <1>6, <2>1
  <2>. QED  BY <1>6, <2>2, SignaturePlaces DEF Matches
<1>7. ASSUME NEW columns, H = columns, Len(seen.header) = Cardinality(H)
      PROVE  HeaderSetIs(seen, columns)
  BY <1>7 DEF HeaderSetIs
<1>8. k \in {8, 10} => H \subseteq FirefoxColumns \/ H \subseteq SafariColumns
                    \/ H \subseteq ChromiumColumns
  <2>1. k \in {8, 10} => ParserOf(SignatureOrder[k]) = "browser-csv"
    BY SignaturePlaces DEF ParserOf
  <2>2. ExportColumns("browser-csv") = {FirefoxColumns, SafariColumns, ChromiumColumns}
    BY DEF ExportColumns
  <2>. QED  BY <1>5, <2>1, <2>2
<1>9. CASE k = 8
  <2>1. {"name", "url", "username", "password"} \subseteq H
    BY <1>5, <1>9, SignaturePlaces DEF ColumnsAlwaysThere
  <2>2. H = ChromiumColumns \/ H = {"name", "url", "username", "password"}
    <3>1. "name" \in H /\ "name" \notin FirefoxColumns /\ "name" \notin SafariColumns
      BY <2>1 DEF FirefoxColumns, SafariColumns
    <3>. HIDE DEF H
    <3>. QED  BY <1>8, <1>9, <2>1, <3>1 DEF ChromiumColumns
  <2>3. Len(seen.header) = Cardinality(H)
    BY <1>5, <1>9
  <2>. HIDE DEF H
  <2>4. HeaderSetIs(seen, ChromiumColumns)
        \/ HeaderSetIs(seen, {"name", "url", "username", "password"})
    BY <1>7, <2>2, <2>3, Zenon
  <2>5. IsChromium(seen)
    BY <2>4, Zenon DEF IsChromium, ChromiumColumns
  <2>. QED  BY <1>9, <2>5, SignaturePlaces DEF Matches
<1>10. CASE k = 10
  <2>1. {"title", "url", "username", "password", "notes"} \subseteq H
    BY <1>5, <1>10, SignaturePlaces DEF ColumnsAlwaysThere
  <2>2. H = SafariColumns \/ H = {"title", "url", "username", "password", "notes"}
    <3>1. "title" \in H /\ "title" \notin FirefoxColumns /\ "title" \notin ChromiumColumns
      BY <2>1 DEF FirefoxColumns, ChromiumColumns
    <3>. HIDE DEF H
    <3>. QED  BY <1>8, <1>10, <2>1, <3>1 DEF SafariColumns
  <2>3. Len(seen.header) = Cardinality(H)
    BY <1>5, <1>10
  <2>. HIDE DEF H
  <2>4. HeaderSetIs(seen, SafariColumns)
        \/ HeaderSetIs(seen, {"title", "url", "username", "password", "notes"})
    BY <1>7, <2>2, <2>3, Zenon
  <2>. QED  BY <1>10, <2>4, SignaturePlaces DEF Matches, SafariColumns
<1>11. CASE k = 13
  <2>1. id = "keepass-csv" /\ IsCsvExportOf(id, seen)
    BY <1>4, <1>11, SignaturePlaces
  <2>2. SignatureOrder[k] = "keepass-csv" /\ IsCsvExportOf("keepass-csv", seen)
    BY <2>1
  <2>3. seen.header = <<"account", "login name", "password", "web site", "comments">>
    BY <2>2, Zenon DEF IsCsvExportOf
  <2>4. Matches("keepass-csv", seen)
    BY <2>3, Zenon DEF Matches
  <2>. QED  BY <2>2, <2>4
<1>. QED  BY <1>1, <1>3, <1>6, <1>9, <1>10, <1>11

\* Nothing but what shows a mark says so.
LEMMA OnlyOneSays ==
    ASSUME NEW k \in 1 .. 15, NEW j, NEW seen, Says(j, seen), ShowsJson(k, seen),
           k >= 6 => ShowsColumns(k, seen)
    PROVE  j = k
<1>. DEFINE H == HeaderSet(seen)
<1>1. /\ j \in 1 .. 15
      /\ j \in 1 .. 4 => JsonMarks(SignatureOrder[j], seen.json) # {}
      /\ j = 5 => seen.magic
      /\ j = 6 => "login_uri" \in H
      /\ j \in 7 .. 15 => "password" \in H
  BY DEF Says
<1>2. CASE j <= 5
  BY <1>1, <1>2 DEF ShowsJson
<1>3. CASE j > 5
  <2>1. "password" \in H \/ "login_uri" \in H
    BY <1>1, <1>3
  <2>2. k >= 6
    BY <2>1 DEF ShowsJson
  <2>3. /\ j = 7 => "grouping" \in H
        /\ j = 8 => "name" \in H /\ "title" \notin H /\ H \cap MarkedColumns = {}
        /\ j = 9 => "httprealm" \in H
        /\ j = 10 => "title" \in H /\ "name" \notin H /\ H \cap MarkedColumns = {}
        /\ j = 11 => "archived" \in H
        /\ j = 12 => "group" \in H
        /\ j = 13 => "name" \notin H /\ "title" \notin H /\ H \cap MarkedColumns = {}
        /\ j = 14 => "cardholdername" \in H
        /\ j = 15 => "otpsecret" \in H
    BY DEF Says
  <2>4. /\ "login_uri" \in H <=> k = 6
        /\ k = 6 => "password" \notin H
        /\ "grouping" \in H <=> k = 7
        /\ "httprealm" \in H <=> k = 9
        /\ "archived" \in H <=> k = 11
        /\ "group" \in H <=> k = 12
        /\ "cardholdername" \in H <=> k = 14
        /\ "otpsecret" \in H <=> k = 15
        /\ k = 8 => "name" \in H /\ "title" \notin H
        /\ k = 10 => "title" \in H /\ "name" \notin H
        /\ k = 13 => "name" \notin H /\ "title" \notin H
    BY <2>2 DEF ShowsColumns
  <2>5. H \cap MarkedColumns = {} => k \in {8, 10, 13}
    <3>. HIDE DEF H
    <3>. QED  BY <2>2, <2>4 DEF MarkedColumns
  <2>. HIDE DEF H
  <2>. QED  BY <1>1, <1>3, <2>2, <2>3, <2>4, <2>5
<1>. QED  BY <1>1, <1>2, <1>3

\* "exactly one signature matches" (detect.ts): whatever the order of its columns and
\* whatever its records hold, what a product exports is recognised by that product's
\* signature and by no other.  Seven tables have a column of their own, the signatures
\* of Chrome, Safari and KeePass ask for their columns and no others, and the objects
\* have a key of their own.
THEOREM OneSignatureMatches == Spec => []OneSignature
<1>1. ASSUME NEW seen, IsList(seen.header), NEW k \in DOMAIN SignatureOrder,
             IsExportOf(SignatureOrder[k], seen)
      PROVE  Signatures(seen) = {k}
  <2>1. k \in 1 .. 15
    BY <1>1, SignaturePlaces
  <2>2. k \in Signatures(seen)
    BY <1>1, <2>1, OwnSignature DEF Signatures
  <2>3. ShowsJson(k, seen) /\ (k >= 6 => ShowsColumns(k, seen))
    <3>1. CASE k <= 5
      <4>1. k \in {1, 2, 3, 4, 5}
        BY <2>1, <3>1
      <4>2. SignatureOrder[k] \in JsonFormats \cup {"onepassword-1pux"}
        BY <4>1, SignaturePlaces DEF JsonFormats
      <4>3. IsJsonExportOf(SignatureOrder[k], seen)
        BY <1>1, <4>2 DEF IsExportOf
      <4>. QED  BY <2>1, <3>1, <4>3, JsonExportShows
    <3>2. CASE k >= 6
      <4>1. k \in {6, 7, 8, 9, 10, 11, 12, 13, 14, 15}
        BY <2>1, <3>2
      <4>2. SignatureOrder[k] \notin JsonFormats \cup {"onepassword-1pux"}
        BY <4>1, SignaturePlaces DEF JsonFormats
      <4>3. IsCsvExportOf(SignatureOrder[k], seen)
        BY <1>1, <4>2 DEF IsExportOf
      <4>4. seen.json = NoJson /\ ~seen.magic
        BY <4>3 DEF IsCsvExportOf
      <4>5. k \in 6 .. 15
        BY <2>1, <3>2
      <4>. QED  BY <4>3, <4>4, <4>5, TableShows, TableShowsNoJson
    <3>. QED  BY <2>1, <3>1, <3>2
  <2>4. ASSUME NEW j \in Signatures(seen) PROVE j = k
    <3>1. Says(j, seen)
      BY <1>1, SignatureMarks
    <3>. QED  BY <2>1, <2>3, <3>1, OnlyOneSays
  <2>. QED  BY <2>2, <2>4
<1>2. ASSUME ReaderInv, file \in Files, phase = "inspected",
             NEW k \in DOMAIN SignatureOrder, IsExportOf(SignatureOrder[k], evidence)
      PROVE  Signatures(evidence) = {k}
  <2>1. evidence = Probe(file)
    BY <1>2 DEF ReaderInv, MappingInv
  <2>2. IsList(evidence.header)
    <3>. DEFINE table == ParseCsv(file.text)
    <3>1. file.text \in Texts
      BY <1>2, FilesAssumption DEF Texts, Chars
    <3>2. table \in Tables
      BY <3>1, ParseCsvType
    <3>3. evidence.header = HeaderOf(table)
      BY <2>1 DEF Probe
    <3>. HIDE DEF table
    <3>4. Len(table.header) \in Nat /\ DOMAIN table.header = 1 .. Len(table.header)
      BY <3>2, LenProperties DEF Tables
    <3>. DEFINE names == HeaderOf(table)
    <3>5. DOMAIN names = 1 .. Len(table.header) /\ names = [i \in 1 .. Len(table.header) |-> names[i]]
      BY <3>4 DEF HeaderOf
    <3>. HIDE DEF names
    <3>6. IsList(names)
      BY <3>4, <3>5, ListIs
    <3>. QED  BY <3>3, <3>6 DEF names
  <2>. QED  BY <1>1, <1>2, <2>2
<1>3. ReaderInv /\ file \in Files => OneSignature
  BY <1>2 DEF OneSignature
<1>. QED  BY <1>3, ReaderCorrect, PTL
=============================================================================
