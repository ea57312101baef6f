------------------------------ MODULE PdfLayout -----------------------------
(***************************************************************************)
(* The nodes and edges of a PDF snapshot: _ingest_impl over the files of a *)
(* directory and the four builders it calls.  listed is its list of nodes; *)
(* each but the root gets one BELONGS_TO edge with it, to parent.  A step  *)
(* is one file read by one extractor; the commits around them are those of *)
(* SnapshotIngest.                                                         *)
(*                                                                         *)
(* A page is the heading matched in its text, whether it has text, and     *)
(* whether it has an uneven table, a row longer than the header: neither   *)
(* table format can be made of that, and building its node raises.  text   *)
(* is the set of pages whose text, or its beginning, a node holds.         *)
(***************************************************************************)
EXTENDS Integers, FiniteSets, SequencesExt, FiniteSetsExt, Arrangement

CONSTANTS
    NumFiles,
    Documents,    \* contents a file may have: sequences of pages
    Headings,     \* the headings that match SECTION_HEADING_PATTERN
    NoHeading,
    FrontMatter,  \* "Front Matter"
    Fit           \* pages whose text fits the body of a document node

PdfModes == {"structured", "pymupdf4llm", "docling", "page", "document"}
PdfPage == [heading : Headings \cup {NoHeading}, blank : BOOLEAN, uneven : BOOLEAN]
Files == 1..NumFiles

ASSUME PdfAssumption ==
    /\ NumFiles \in Nat /\ Fit \in Nat \ {0}
    /\ NoHeading \notin Headings
    /\ Documents \subseteq Seq(PdfPage)
    /\ \A d \in Documents : \A i \in DOMAIN d : d[i].blank => d[i].heading = NoHeading

VARIABLES
    pdfMode,   \* page_mode
    contents,  \* what the files hold
    listed,    \* nodes, the root first
    file,      \* the file at hand
    step,      \* "extract", "fallback", "completed" or "failed"
    filed      \* what became of each file

pdfVars == <<pdfMode, contents, listed, file, step, filed>>

PdfNode(kind, f, parent, title, page, text) ==
    [kind |-> kind, file |-> f, parent |-> parent, title |-> title, page |-> page,
     text |-> text]

PdfInit ==
    /\ pdfMode \in PdfModes
    /\ contents \in [Files -> Documents]
    /\ listed = <<PdfNode("root", 0, 0, NoHeading, 0, {})>>
    /\ file = 1
    /\ step = "extract"
    /\ filed = [f \in Files |-> "waiting"]

(***************************************************************************)
(* The builders; doc is the index the document's node gets.                *)
(***************************************************************************)
Firsts(S) == {i \in S : Cardinality({j \in S : j < i}) < Fit}
WithText(pages) == {i \in DOMAIN pages : ~pages[i].blank}

Document(kind, f, text) == PdfNode(kind, f, 1, NoHeading, 0, text)
FlatPage(f, doc, i) == PdfNode("page", f, doc, NoHeading, i, {i})

\* Mutant of HeadingOf: a heading holds for its own page only.
HeadingOnPage(pages, i) ==
    IF pages[i].heading = NoHeading THEN FrontMatter ELSE pages[i].heading

\* A heading holds until the next one.
HeadingOf(pages, i) ==
    LET above == {j \in 1..i : pages[j].heading # NoHeading}
    IN  IF above = {} THEN FrontMatter ELSE pages[Max(above)].heading

\* The sections, in the order of their first pages.  A heading that comes back has one.
PagesUnder(pages, title) == {i \in DOMAIN pages : HeadingOf(pages, i) = title}
Titles(pages) ==
    LET titles == {HeadingOf(pages, i) : i \in DOMAIN pages}
        FirstPage(title) == Min(PagesUnder(pages, title))
    IN  Arranged(titles, {p \in titles \X titles : FirstPage(p[1]) < FirstPage(p[2])})

\* The row that is longer than the header does not fit a data frame, and zip is strict.
Unformattable(pages) == {i \in DOMAIN pages : pages[i].uneven}

\* _ingest_structured_pdf: the document, its sections, and its pages up to one whose
\* table cannot be formatted.
SectionTree(f, pages, doc) ==
    LET titles == Titles(pages)
        built == IF Unformattable(pages) = {} THEN Len(pages)
                 ELSE Min(Unformattable(pages)) - 1
    IN  <<Document("document", f, {1})>>
        \o [k \in DOMAIN titles |->
               PdfNode("section", f, doc, titles[k], 0, PagesUnder(pages, titles[k]))]
        \o [i \in 1..built |->
               LET title == HeadingOf(pages, i)
                   place == CHOOSE k \in DOMAIN titles : titles[k] = title
               IN  PdfNode("page", f, doc + place, title, i, {i})]

\* _ingest_pymupdf4llm_pdf, with one chunk per page: pages without text are dropped.
ChunkTree(f, pages, doc) ==
    <<Document("document", f, Firsts(WithText(pages)))>>
    \o Picked([i \in DOMAIN pages |-> FlatPage(f, doc, i)], WithText(pages))

\* _build_flat_nodes.
FlatTree(f, pages, doc, mode) ==
    IF mode # "document" /\ pages # <<>>
    THEN <<Document("document", f, Firsts(DOMAIN pages))>>
         \o [i \in DOMAIN pages |-> FlatPage(f, doc, i)]
    ELSE <<Document("whole", f, Firsts(DOMAIN pages))>>

(***************************************************************************)
(* _ingest_impl.                                                           *)
(***************************************************************************)
Settle(outcome) ==
    /\ filed' = [filed EXCEPT ![file] = outcome]
    /\ file' = file + 1
    /\ step' = "extract"

AtFile(s, modes) == step = s /\ file \in Files /\ pdfMode \in modes

Structured ==
    LET pages == contents[file] IN
    /\ AtFile("extract", {"structured"})
    /\ IF pages = <<>> THEN UNCHANGED listed /\ Settle("empty")
       ELSE /\ listed' = listed \o SectionTree(file, pages, Len(listed) + 1)
            /\ IF Unformattable(pages) # {}
               THEN step' = "fallback" /\ UNCHANGED <<file, filed>>
               ELSE Settle("whole")
    /\ UNCHANGED <<pdfMode, contents>>

Chunked ==
    LET pages == contents[file]
        empty == WithText(pages) = {}
    IN  /\ AtFile("extract", {"pymupdf4llm"})
        /\ listed' = IF empty THEN listed
                     ELSE listed \o ChunkTree(file, pages, Len(listed) + 1)
        /\ Settle(IF empty THEN "empty" ELSE "whole")
        /\ UNCHANGED <<pdfMode, contents>>

\* Docling: one text, even of an empty file.
Converted ==
    LET text == DOMAIN contents[file] IN
    /\ AtFile("extract", {"docling"})
    /\ listed' = listed \o <<Document("document", file, Firsts(text)),
                             PdfNode("whole", file, Len(listed) + 1, NoHeading, 0, text)>>
    /\ Settle("whole")
    /\ UNCHANGED <<pdfMode, contents>>

Flat ==
    /\ AtFile("extract", {"page", "document"})
    /\ listed' = listed \o FlatTree(file, contents[file], Len(listed) + 1, pdfMode)
    /\ Settle("whole")
    /\ UNCHANGED <<pdfMode, contents>>

\* The extractor raises.  pdfplumber's failure falls back to pypdf2; any other fails the
\* request, and the snapshot stays pending with its root.
ExtractRaises ==
    /\ AtFile("extract", PdfModes)
    /\ step' = IF pdfMode = "structured" THEN "fallback" ELSE "failed"
    /\ UNCHANGED <<pdfMode, contents, listed, file, filed>>

\* The fallback adds to what the structured builder left.
Fallback ==
    /\ AtFile("fallback", PdfModes)
    /\ listed' = listed \o FlatTree(file, contents[file], Len(listed) + 1, "page")
    /\ Settle("fallback")
    /\ UNCHANGED <<pdfMode, contents>>

\* Its own failure passes unnoticed.
FallbackRaises ==
    /\ AtFile("fallback", PdfModes)
    /\ Settle("lost")
    /\ UNCHANGED <<pdfMode, contents, listed>>

StoreTree ==
    /\ step = "extract"
    /\ file > NumFiles
    /\ step' = "completed"
    /\ UNCHANGED <<pdfMode, contents, listed, file, filed>>

PdfNext ==
    \/ Structured \/ Chunked \/ Converted \/ Flat
    \/ ExtractRaises \/ Fallback \/ FallbackRaises \/ StoreTree

PdfSpec == PdfInit /\ [][PdfNext]_pdfVars

(***************************************************************************)
(* Properties.                                                             *)
(***************************************************************************)

\* Types.
PdfTypeOK ==
    /\ \A i \in DOMAIN listed :
          /\ listed[i].kind \in {"root", "document", "section", "page", "whole"}
          /\ listed[i].file \in 0..NumFiles
          /\ listed[i].title \in Headings \cup {NoHeading, FrontMatter}
    /\ file \in 1..(NumFiles + 1)
    /\ step \in {"extract", "fallback", "completed", "failed"}
    /\ filed \in [Files -> {"waiting", "whole", "fallback", "empty", "lost"}]

\* An edge leads to an earlier node, of the same file or the root, one level up.
EdgesStayInFile ==
    \A i \in DOMAIN listed \ {1} :
        LET node == listed[i]
            up == listed[node.parent]
        IN  /\ node.parent < i
            /\ node.kind = "document" => up.kind = "root"
            /\ node.kind \in {"section", "page"} => up.file = node.file
            /\ node.kind = "section" => up.kind = "document"
            /\ node.kind = "page" => up.kind \in {"document", "section"}
            /\ node.kind = "whole" => up.kind \in {"root", "document"} /\ up.file \in {0, node.file}

PageNodes(f, p) == {i \in DOMAIN listed : listed[i].kind = "page" /\ listed[i].file = f
                                          /\ listed[i].page = p}
SectionOf(i) == listed[listed[i].parent].title

\* In sections, a page with a heading is under it and one without stays with the page
\* before; a section has the text of the pages under it, and of no other.
SectionsHoldTheirPages ==
    \A f \in Files : pdfMode = "structured" /\ filed[f] = "whole" =>
        /\ \A p \in DOMAIN contents[f] : \A i \in PageNodes(f, p) :
              SectionOf(i) =
                  IF contents[f][p].heading # NoHeading THEN contents[f][p].heading
                  ELSE IF p = 1 THEN FrontMatter
                  ELSE SectionOf(CHOOSE j \in PageNodes(f, p - 1) : TRUE)
        /\ \A i \in DOMAIN listed : listed[i].kind = "section" /\ listed[i].file = f =>
              listed[i].text = {p \in DOMAIN contents[f] :
                                    \E j \in PageNodes(f, p) : listed[j].parent = i}

\* A snapshot of a directory of PDFs holds each file where it belongs: edges stay in the
\* file, sections have their pages, and when it is completed a file that was built has
\* each page that has text once, one that fell back has it at least once (the half that
\* the structured builder left stays), and only the structured mode loses a file.
PagesAreFiled ==
    /\ EdgesStayInFile
    /\ SectionsHoldTheirPages
    /\ step = "completed" => \A f \in Files :
          /\ pdfMode \in {"structured", "pymupdf4llm", "page"} =>
                \A p \in WithText(contents[f]) :
                    /\ filed[f] = "whole" => Cardinality(PageNodes(f, p)) = 1
                    /\ filed[f] = "fallback" => Cardinality(PageNodes(f, p)) \in {1, 2}
          /\ filed[f] = "lost" => pdfMode = "structured"
          /\ filed[f] = "empty" => WithText(contents[f]) = {}
          /\ filed[f] # "waiting"
=============================================================================
