------------------------------ MODULE ImportCsv ------------------------------
(***************************************************************************)
(* The CSV reader (packages/vault/src/import/csv.ts).                      *)
(*                                                                         *)
(* A text is a sequence of characters: the four the reader treats          *)
(* specially, the byte order mark, and any others.                         *)
(***************************************************************************)
EXTENDS Integers, Sequences, SequencesExt

QUOTE == "quote"
DELIMITER == "comma"
BOM == "bom"
LineEnds == {"cr", "lf"}

CharAt(text, i) == IF i <= Len(text) THEN text[i] ELSE ""

\* The variables of scan().
ScanStart ==
    [i |-> 1, field |-> <<>>, fields |-> <<>>, inQuotes |-> FALSE,
     fieldWasQuoted |-> FALSE, recordHadQuote |-> FALSE, recordReported |-> FALSE,
     line |-> 1, recordLine |-> 1, records |-> <<>>, errors |-> <<>>]

EndField(s) ==
    [s EXCEPT !.fields = Append(@, s.field), !.field = <<>>, !.fieldWasQuoted = FALSE]

EndRecord(s) ==
    LET t == EndField(s) IN
    [t EXCEPT !.records = Append(@, [line |-> s.recordLine, fields |-> t.fields,
                                     blank |-> ~s.recordHadQuote /\ t.fields = << <<>> >>]),
              !.fields = <<>>, !.recordHadQuote = FALSE, !.recordReported = FALSE]

Report(s) == [s EXCEPT !.errors = Append(@, s.recordLine)]

\* [bug] the second quote of a pair ends the field.
QuotedCharNoEscape(text, s) ==
    LET ch == text[s.i] IN
    IF ch = QUOTE THEN [s EXCEPT !.inQuotes = FALSE, !.i = @ + 1]
    ELSE [s EXCEPT !.line = @ + (IF ch = "lf" THEN 1 ELSE 0),
                   !.field = Append(@, ch), !.i = @ + 1]

\* A character inside a quoted field: a doubled quote is data, a single one
\* closes the field and must be followed by the end of it.
QuotedChar(text, s) ==
    LET ch == text[s.i]
        next == CharAt(text, s.i + 1)
        closed == [s EXCEPT !.inQuotes = FALSE, !.i = @ + 1]
    IN  CASE ch = QUOTE /\ next = QUOTE ->
               [s EXCEPT !.field = Append(@, QUOTE), !.i = @ + 2]
          [] ch = QUOTE /\ next # QUOTE ->
               IF next \in LineEnds \cup {"", DELIMITER} \/ s.recordReported
               THEN closed ELSE Report([closed EXCEPT !.recordReported = TRUE])
          [] OTHER ->
               [s EXCEPT !.line = @ + (IF ch = "lf" THEN 1 ELSE 0),
                         !.field = Append(@, ch), !.i = @ + 1]

\* A character outside quotes.
PlainChar(text, s) ==
    LET ch == text[s.i] IN
    CASE ch = QUOTE /\ s.field = <<>> /\ ~s.fieldWasQuoted ->
           [s EXCEPT !.inQuotes = TRUE, !.fieldWasQuoted = TRUE,
                     !.recordHadQuote = TRUE, !.i = @ + 1]
      [] ch = DELIMITER -> [EndField(s) EXCEPT !.i = @ + 1]
      [] ch \in LineEnds ->
           LET width == IF ch = "cr" /\ CharAt(text, s.i + 1) = "lf" THEN 2 ELSE 1
               ended == EndRecord(s)
           IN  [ended EXCEPT !.i = @ + width, !.line = @ + 1, !.recordLine = s.line + 1]
      [] OTHER -> [s EXCEPT !.field = Append(@, ch), !.i = @ + 1]

\* An unclosed quote is reported; a last line without a line end is a record.
FinishScan(s) ==
    LET t == IF s.inQuotes THEN Report(s) ELSE s IN
    IF t.field # <<>> \/ t.fields # <<>> \/ t.fieldWasQuoted \/ t.inQuotes
    THEN EndRecord(t) ELSE t

\* One turn of the loop of scan().
NextChar(text, s) ==
    IF s.i > Len(text) THEN s
    ELSE IF s.inQuotes THEN QuotedChar(text, s) ELSE PlainChar(text, s)

\* The states it goes through: every turn takes a character or two.
ScanRun(text) ==
    LET run[n \in 0 .. Len(text)] ==
            IF n = 0 THEN ScanStart ELSE NextChar(text, run[n - 1])
    IN  run

Scan(text) == FinishScan(ScanRun(text)[Len(text)])

WithoutBom(text) == IF text # <<>> /\ Head(text) = BOM THEN Tail(text) ELSE text

\* Without the blank lines.
Meaningful(records) ==
    LET kept[n \in 0 .. Len(records)] ==
            IF n = 0 THEN <<>>
            ELSE IF records[n].blank THEN kept[n - 1] ELSE Append(kept[n - 1], records[n])
    IN  kept[Len(records)]

\* Without a header: Keeper's files have none.
ParseCsvRecords(text) ==
    LET s == Scan(WithoutBom(text)) IN
    [header |-> <<>>, rows |-> Meaningful(s.records), errors |-> s.errors]

\* The first record that is not blank is the header.
ParseCsv(text) ==
    LET s == Scan(WithoutBom(text))
        records == Meaningful(s.records)
    IN  IF records = <<>>
        THEN [header |-> <<>>, rows |-> <<>>, errors |-> s.errors]
        ELSE [header |-> records[1].fields, rows |-> Tail(records), errors |-> s.errors]

-----------------------------------------------------------------------------
(***************************************************************************)
(* The reference: how a table is written by RFC 4180.  eol is the line end *)
(* the writer uses, and may be missing after the last record.              *)
(***************************************************************************)
Quoted(value) ==
    <<QUOTE>> \o FlattenSeq([i \in DOMAIN value |->
        IF value[i] = QUOTE THEN <<QUOTE, QUOTE>> ELSE <<value[i]>>]) \o <<QUOTE>>

NeedsQuotes(value) == \E i \in DOMAIN value : value[i] \in LineEnds \cup {QUOTE, DELIMITER}

\* What a broken exporter, or an edit by hand, makes of a quoted value.
Damaged(value, damage) ==
    CASE damage = "unclosed" -> Front(Quoted(value))
      [] damage = "undoubled" -> <<QUOTE>> \o value \o <<QUOTE>>

\* style.damage is what is wrong with the text, and style.at the record and the
\* field it is wrong in.
WriteField(value, style, at) ==
    IF style.damage # "none" /\ style.at = at THEN Damaged(value, style.damage)
    ELSE IF style.always \/ NeedsQuotes(value) THEN Quoted(value) ELSE value

WriteRecord(values, style, r) ==
    FlattenSeq([i \in DOMAIN values |->
        (IF i > 1 THEN <<DELIMITER>> ELSE <<>>) \o WriteField(values[i], style, <<r, i>>)])

WriteTable(records, style) ==
    (IF style.bom THEN <<BOM>> ELSE <<>>) \o
    FlattenSeq([r \in DOMAIN records |->
        WriteRecord(records[r], style, r) \o
        (IF r < Len(records) \/ style.last THEN style.eol ELSE <<>>)])
=============================================================================
