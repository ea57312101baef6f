------------------------------ MODULE MCLibrary -----------------------------
(***************************************************************************)
(* Small instances of the five parts of Library, for TLC.                  *)
(***************************************************************************)
EXTENDS Library, TLC

CONSTANTS a, b, c,              \* graph nodes
          tenQ, ledger, both, table,
          h1, h2,               \* headings
          reader1, reader2

(***************************************************************************)
(* Three nodes and four edges between any of them; the two in the middle   *)
(* have equal trust and the last one may not be a dependency.              *)
(***************************************************************************)
MCGraphs ==
    LET Pairs == GraphNodes \X GraphNodes
        EdgeOf(p, d, t) == [from |-> p[1], to |-> p[2], dependency |-> d,
                            trust |-> t, active |-> TRUE]
    IN  {<<EdgeOf(p, TRUE, 2), EdgeOf(q, TRUE, 1), EdgeOf(r, TRUE, 1), EdgeOf(s, d, 2)>> :
            p \in Pairs, q \in Pairs, r \in Pairs, s \in Pairs, d \in BOOLEAN}

(***************************************************************************)
(* Answers of the model, with five score tokens: all on A, on C and E over *)
(* two positions with E twice, and one with none of the five.              *)
(***************************************************************************)
MCResponses ==
    {<<1 :> 10>>, <<3 :> 6 @@ 5 :> 4, 5 :> 8>>, <<7 :> 10>>}

\* Criterion 1 has the text of two keys, criterion 2 of none.
MCKeys == <<"correctness", "citations">>
MCKeyWeight == "correctness" :> 45 @@ "citations" :> 15
MCMentions == <<{"correctness", "citations"}, {}>>

(***************************************************************************)
(* Lines an agent may write.                                               *)
(***************************************************************************)
MCHints == tenQ :> {"sec_filing"} @@ ledger :> {"database_query"}
           @@ both :> {"spreadsheet", "calculation"} @@ table :> {}
MCPiece(sources, marked, text) == [sources |-> sources, marked |-> marked, text |-> text]
MCLines ==
    LET plain(text) == MCPiece(0, FALSE, text)
        source(text) == MCPiece(1, FALSE, text)
    IN  {<<source(Nothing)>>, <<source(Blank)>>,
         <<source(tenQ), plain(Page), plain(table)>>, <<source(tenQ), plain(table), plain(Page)>>,
         <<source(tenQ), plain(Nothing)>>, <<source(ledger), plain(Page), plain(Nothing)>>,
         <<source(both), source(table)>>, <<plain(table), source(ledger)>>,
         <<MCPiece(0, TRUE, table)>>, <<plain(Page), plain(Blank)>>, <<plain(Heading)>>}

(***************************************************************************)
(* Two snapshots: a PDF with a section of two pages and its own root, and  *)
(* one page of the company that the second page only mentions.             *)
(***************************************************************************)
MCCorpus == <<"root1", "sec", "p1", "p2", "root2", "p3">>
MCNodes == ToSet(MCCorpus)
MCCreatedAt == [n \in MCNodes |-> SelectInSeq(MCCorpus, LAMBDA m : m = n)]
MCHome == [n \in MCNodes |-> IF n \in {"root2", "p3"} THEN 2 ELSE 1]
MCParent == "sec" :> "root1" @@ "p1" :> "sec" @@ "p2" :> "sec" @@ "p3" :> "root2"
MCChapter == [n \in MCNodes |-> IF n \in {"p1", "p2"} THEN "Item 7." ELSE NoChapter]
MCBody ==
    LET text(margin, length, titled, mentioned) ==
            [occurs |-> "margin" :> margin @@ "tax" :> 0, length |-> length,
             titled |-> titled, mentioned |-> mentioned]
    IN  "root1" :> text(0, 3, {}, {}) @@ "root2" :> text(0, 3, {}, {})
        @@ "sec" :> text(1, 9, {}, {"Amcor"}) @@ "p1" :> text(1, 4, {}, {})
        @@ "p2" :> text(0, 5, {}, {"Amcor"}) @@ "p3" :> text(1, 5, {"Amcor"}, {"Amcor"})
MCAsked == "margin?" :> [terms |-> {"margin"}, company |-> {}]
           @@ "tax at Amcor?" :> [terms |-> {"tax"}, company |-> {"Amcor"}]
MCIdf == <<<<100>>, <<141, 100>>, <<169, 129, 100>>, <<192, 151, 122, 100>>,
           <<210, 169, 141, 118, 100>>, <<225, 185, 156, 134, 115, 100>>>>
MCLexical ==
    "margin?" :> ("root1" :> 5 @@ "sec" :> 10 @@ "p1" :> 30 @@ "p2" :> 5 @@ "root2" :> 5 @@ "p3" :> 30)
    @@ "tax at Amcor?" :> [n \in MCNodes |-> IF n \in {"sec", "p2", "p3"} THEN 20 ELSE 0]
MCNear ==
    "margin?" :> [n \in MCNodes |-> IF n \in {"p1", "p2"} THEN 60 ELSE 0]
    @@ "tax at Amcor?" :> [n \in MCNodes |-> IF n \in {"p2", "p3"} THEN 40 ELSE 0]
MCServing == [n \in MCNodes |-> IF n \in {"p1", "p3"} THEN 60 ELSE 100]
MCInquiries ==
    {[question |-> "margin?", snapshot |-> 0, wanted |-> {}],
     [question |-> "margin?", snapshot |-> 1, wanted |-> {"p2"}],
     [question |-> "margin?", snapshot |-> 2, wanted |-> {"p2"}],
     [question |-> "tax at Amcor?", snapshot |-> 0, wanted |-> {}]}

\* Arrangement says what the operators on sequences say.
ASSUME ArrangedIsSorted ==
    \A S \in SUBSET (0..5) :
        /\ Arranged(S, {p \in S \X S : p[1] > p[2]}) = SetToSortSeq(S, >)
        /\ \A list \in {<<3, 1, 5, 1, 0>>, <<2, 2>>, <<>>} :
              Picked(list, {i \in DOMAIN list : list[i] \in S})
                  = SelectSeq(list, LAMBDA x : x \in S)

MCSymmetry == Permutations(Readers)

(***************************************************************************)
(* PDFs: none, blank, one whose first heading comes back after another,    *)
(* one whose second page cannot be formatted, and one that is all preface. *)
(***************************************************************************)
MCDocuments ==
    LET page(heading, blank, uneven) == [heading |-> heading, blank |-> blank, uneven |-> uneven]
        plain(heading) == page(heading, FALSE, FALSE)
        empty == page(NoHeading, TRUE, FALSE)
    IN  {<<>>, <<empty>>,
         <<plain(NoHeading), plain(h1), plain(NoHeading), plain(h2), empty, plain(h1)>>,
         <<plain(h2), page(h1, FALSE, TRUE), plain(NoHeading)>>,
         <<plain(NoHeading), plain(NoHeading)>>}
=============================================================================
