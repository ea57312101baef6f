----------------------------- MODULE Citations ------------------------------
(***************************************************************************)
(* The citation framework: validate_answer_citations finds the citations   *)
(* and the unsourced claims of an answer, build_sources_section lists the  *)
(* citations, and an answer that ends in that list is validated again.     *)
(*                                                                         *)
(* An answer is a sequence of lines, a line a sequence of the pieces       *)
(* between its commas.  Blank lines mean nothing and are left out.         *)
(***************************************************************************)
EXTENDS Integers, Sequences, SequencesExt, FiniteSets, Arrangement

CONSTANTS
    Lines,      \* what an agent may write
    Fields,     \* texts without a comma
    Hints,      \* for a field, the source types it has a marker word of
    Page,       \* "p.24", alone
    Heading,    \* "## Sources & References"
    RowText,    \* what stands in a row of the list
    Blank,      \* white space only
    Nothing,    \* not even that
    MaxLines    \* bound on the length of an answer

Texts == Fields \cup {Page, Heading, RowText, Blank, Nothing}

\* How often a piece says "Source:", whether it says "[UNSOURCED]", and its text.
Piece == [sources : Nat, marked : BOOLEAN, text : Texts]
Line == Seq(Piece) \ {<<>>}

Empty(piece) == piece.text \in {Blank, Nothing}
Void(piece) == piece.sources = 0 /\ Empty(piece)

\* A comma stands between two texts, or it ends a line; a mark is text.
ASSUME CitationsAssumption ==
    /\ Lines \subseteq Line
    /\ \A line \in Lines : /\ ~Void(line[1])
                           /\ \A k \in 1..(Len(line) - 1) : ~Empty(line[k])
                           /\ \A k \in DOMAIN line : line[k].marked => ~Empty(line[k])
    /\ {Heading, RowText} \cap {Blank, Nothing} = {}
    /\ MaxLines \in Nat

VARIABLES answer, stage, report, section

citationVars == <<answer, stage, report, section>>

(***************************************************************************)
(* _classify_source: the first type with a marker in the name.  Nothing    *)
(* classifies as market data.                                              *)
(***************************************************************************)
SourceTypes ==
    <<"sec_filing", "earnings_release", "earnings_transcript", "investor_presentation",
      "database_query", "spreadsheet", "calculation">>
HintsOf(text) == IF text \in Fields THEN Hints[text] ELSE {}
ClassifySource(text) ==
    LET hits == {i \in DOMAIN SourceTypes : SourceTypes[i] \in HintsOf(text)}
    IN  IF hits = {} THEN "other" ELSE SourceTypes[Min(hits)]

(***************************************************************************)
(* _CITATION_PATTERN.  A source starts after the first "Source:" of a      *)
(* line: a name, a page, a table.  The white space after "Source:", and    *)
(* after the comma that follows the name or the page, may be a line break, *)
(* so a line that ends there goes on in the next one, whatever that says.  *)
(***************************************************************************)
AfterSource(piece) ==
    [sources |-> piece.sources - 1, marked |-> piece.marked, text |-> piece.text]
FromSource(line) ==
    LET hits == {k \in DOMAIN line : line[k].sources > 0}
    IN  IF hits = {} THEN <<>>
        ELSE <<AfterSource(line[Min(hits)])>> \o SubSeq(line, Min(hits) + 1, Len(line))

IsPage(piece) == piece.sources = 0 /\ ~piece.marked /\ piece.text = Page
HasPage(pieces) == Len(pieces) > 1 /\ IsPage(pieces[2])

\* What the pattern has of a source does not end at the line break.
GoesOn(pieces) ==
    /\ Void(Last(pieces))
    /\ Len(pieces) <= IF HasPage(pieces) THEN 3 ELSE 2

\* Where the text ends after the comma, with not even a blank, the pattern cannot take the
\* page for one.  (Nor can it take the comma for one: it ends the name, or the table.)
Citation(pieces) ==
    LET paged == /\ HasPage(pieces)
                 /\ ~(Len(pieces) = 3 /\ Void(pieces[3]) /\ pieces[3].text = Nothing)
    IN  [name |-> pieces[1], type |-> ClassifySource(pieces[1].text), page |-> paged,
         table |-> SubSeq(pieces, IF paged THEN 3 ELSE 2, Len(pieces))]

\* The source that is open takes the line, or the line may start one.
Read(state, line) ==
    LET pieces == IF state.open = <<>> THEN FromSource(line) ELSE Front(state.open) \o line
    IN  IF pieces = <<>> THEN state
        ELSE IF GoesOn(pieces) THEN [cites |-> state.cites, open |-> pieces]
        ELSE [cites |-> Append(state.cites, Citation(pieces)), open |-> <<>>]

\* What has been read after the last line.
Scan(lines) ==
    LET Upto[i \in 0..Len(lines)] ==
            IF i = 0 THEN [cites |-> <<>>, open |-> <<>>] ELSE Read(Upto[i - 1], lines[i])
    IN  Upto[Len(lines)]

\* finditer: where the answer ends, a source needs one character, which may be a blank.
CitationsIn(lines) ==
    LET end == Scan(lines)
    IN  IF end.open = <<>> \/ (Len(end.open) = 1 /\ end.open[1].text = Nothing)
        THEN end.cites ELSE Append(end.cites, Citation(end.open))

(***************************************************************************)
(* validate_answer_citations.                                              *)
(***************************************************************************)
Has(lines, text) == \E i \in DOMAIN lines : \E k \in DOMAIN lines[i] : lines[i][k].text = text
Marked(line) == \E k \in DOMAIN line : line[k].marked
Unsourced(lines) == Cardinality({i \in DOMAIN lines : Marked(lines[i])})

Report(lines) ==
    [citations |-> CitationsIn(lines), unsourced |-> Unsourced(lines),
     complete |-> CitationsIn(lines) # <<>> /\ Has(lines, Heading) /\ Unsourced(lines) = 0]

(***************************************************************************)
(* build_sources_section.                                                  *)
(***************************************************************************)
Groups == <<"sec_filing", "earnings_release", "earnings_transcript",
            "database_query", "calculation", "other">>
\* Mutant of GroupOf: what is not one of the five types is left out.
GroupOfType(citation) == citation.type

GroupOf(citation) == IF citation.type \in ToSet(Groups) THEN citation.type ELSE "other"

Listing(citations) ==
    [i \in DOMAIN Groups |->
        Picked(citations, {k \in DOMAIN citations : GroupOf(citations[k]) = Groups[i]})]

\* No comma parts the name from the table in a row.
RowPieces(name, table) ==
    IF table = <<>> THEN <<name>>
    ELSE <<[sources |-> name.sources + table[1].sources,
            marked |-> name.marked \/ table[1].marked, text |-> RowText]>> \o Tail(table)

\* A row has all that the name and the table say, "Source:" included, and other text
\* around it, so that a page is one only between two commas.
Row(pieces) ==
    [k \in DOMAIN pieces |->
        [sources |-> pieces[k].sources, marked |-> pieces[k].marked,
         text |-> IF k \in 2..(Len(pieces) - 1) /\ pieces[k].text = Page
                  THEN Page ELSE RowText]]

\* A calculation has its formula in a line below.
RowsOf(citation) ==
    IF citation.type = "calculation" /\ citation.table # <<>>
    THEN <<Row(<<citation.name>>), Row(citation.table)>>
    ELSE <<Row(RowPieces(citation.name, citation.table))>>

\* The headings of the groups are text without a mark; notes of the caller are left out.
SectionLines(citations) ==
    LET rows == [k \in DOMAIN citations |-> RowsOf(citations[k])]
        heading == [sources |-> 0, marked |-> FALSE, text |-> Heading]
    IN  IF citations = <<>> THEN <<>> ELSE <<<<heading>>>> \o FlattenSeq(rows)

(***************************************************************************)
(* An answer is written, validated, given the list of its citations, and   *)
(* validated again.                                                        *)
(***************************************************************************)
CitationInit ==
    /\ answer = <<>>
    /\ stage = "writing"
    /\ report = Report(<<>>)
    /\ section = Listing(<<>>)

\* The agent, who is not part of the code.
Write(line) ==
    /\ stage = "writing"
    /\ Len(answer) < MaxLines
    /\ answer' = Append(answer, line)
    /\ UNCHANGED <<stage, report, section>>

ValidateAnswer ==
    /\ \/ stage = "writing" /\ stage' = "validated"
       \/ stage = "listed" /\ stage' = "done"
    /\ report' = Report(answer)
    /\ UNCHANGED <<answer, section>>

\* Without a citation the section is empty.
BuildSection ==
    /\ stage = "validated"
    /\ stage' = "listed"
    /\ section' = Listing(report.citations)
    /\ answer' = answer \o SectionLines(FlattenSeq(section'))
    /\ UNCHANGED report

CitationNext ==
    \/ \E line \in Lines : Write(line)
    \/ ValidateAnswer
    \/ BuildSection

CitationSpec == CitationInit /\ [][CitationNext]_citationVars

(***************************************************************************)
(* Properties.                                                             *)
(***************************************************************************)

\* Types.
CitationTypeOK ==
    /\ answer \in Seq(Line)
    /\ stage \in {"writing", "validated", "listed", "done"}
    /\ \A i \in DOMAIN report.citations : /\ report.citations[i].name \in Piece
                                          /\ report.citations[i].table \in Seq(Piece)
    /\ report.unsourced \in Nat
    /\ report.complete \in BOOLEAN

Occurrences(x, seq) == Cardinality({i \in DOMAIN seq : seq[i] = x})

\* The answer that the list was appended to, and whether its text breaks off after
\* "Source:" or a comma.
Written == SubSeq(answer, 1, Len(answer) - Len(SectionLines(FlattenSeq(section))))
BreaksOff(lines) == lines # <<>> /\ Empty(Last(Last(lines)))

\* The text of a citation says "Source:" itself.
Nested(citation) ==
    \/ citation.name.sources > 0
    \/ \E k \in DOMAIN citation.table : citation.table[k].sources > 0

\* The list has every citation once, whatever its type, and settles the report.  Validated
\* again, an answer with a citation is complete unless a claim is marked unsourced.  Its
\* citations are found again, in their order and before any other, all but the last one
\* even if the answer breaks off in that one's source, which then takes the heading of the
\* list.  The list adds citations of its own exactly if the text of one says "Source:".
ListSettlesReport ==
    [][stage = "listed" /\ stage' = "done" =>
          LET before == report.citations
              after == report'.citations
          IN  /\ \A x \in ToSet(before) :
                    Occurrences(x, FlattenSeq(section)) = Occurrences(x, before)
              /\ report'.complete <=> before # <<>> /\ report.unsourced = 0
              /\ before # <<>> => IsPrefix(Front(before), after)
              /\ ~BreaksOff(Written) =>
                    /\ IsPrefix(before, after)
                    /\ before = after <=> \A k \in DOMAIN before : ~Nested(before[k])]_citationVars
=============================================================================
