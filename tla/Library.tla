------------------------------- MODULE Library ------------------------------
(***************************************************************************)
(* Parts that share nothing: the graph functions, the verifier and the     *)
(* citations, which nothing calls yet, the retrieval path and the layout   *)
(* of PDF snapshots.  A behaviour uses one of them while the others keep   *)
(* still, in one of the states that they may start in.                     *)
(***************************************************************************)
EXTENDS LatticeGraph, Verifier, Citations, Retrieval, PdfLayout

VARIABLE subject  \* the part in use

libraryVars == <<subject, graphVars, verifierVars, citationVars, retrievalVars, pdfVars>>

GraphIdle == edges = (CHOOSE list \in Graphs : TRUE) /\ GraphInit
RetrievalIdle == router = "baseline" /\ enabled = FALSE /\ RetrievalInit
PdfIdle == pdfMode = "page" /\ contents = [f \in Files |-> <<>>] /\ PdfInit

LibraryInit ==
    /\ subject \in {"graph", "verifier", "citations", "retrieval", "pdf"}
    /\ IF subject = "graph" THEN GraphInit ELSE GraphIdle
    /\ VerifierInit
    /\ CitationInit
    /\ IF subject = "retrieval" THEN RetrievalInit ELSE RetrievalIdle
    /\ IF subject = "pdf" THEN PdfInit ELSE PdfIdle

LibraryNext ==
    /\ UNCHANGED subject
    /\ \/ /\ subject = "graph" /\ GraphNext
          /\ UNCHANGED <<verifierVars, citationVars, retrievalVars, pdfVars>>
       \/ /\ subject = "verifier" /\ VerifierNext
          /\ UNCHANGED <<graphVars, citationVars, retrievalVars, pdfVars>>
       \/ /\ subject = "citations" /\ CitationNext
          /\ UNCHANGED <<graphVars, verifierVars, retrievalVars, pdfVars>>
       \/ /\ subject = "retrieval" /\ RetrievalNext
          /\ UNCHANGED <<graphVars, verifierVars, citationVars, pdfVars>>
       \/ /\ subject = "pdf" /\ PdfNext
          /\ UNCHANGED <<graphVars, verifierVars, citationVars, retrievalVars>>

LibrarySpec == LibraryInit /\ [][LibraryNext]_libraryVars

\* Types of the five parts.
LibraryTypeOK ==
    GraphTypeOK /\ VerifierTypeOK /\ CitationTypeOK /\ RetrievalTypeOK /\ PdfTypeOK
=============================================================================
