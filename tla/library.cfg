CONSTANTS
    a = a
    b = b
    c = c
    tenQ = tenQ
    ledger = ledger
    both = both
    table = table
    GraphNodes = {a, b, c}
    NumEdges = 4
    Trusts = {1, 2}
    Graphs <- MCGraphs
    NumTrajectories = 3
    NumCriteria = 2
    Repeats = 2
    Granularity = 5
    Unit = 40
    Responses <- MCResponses
    NoAnswer = NoAnswer
    Keys <- MCKeys
    KeyWeight <- MCKeyWeight
    Mentions <- MCMentions
    Lines <- MCLines
    Fields = {tenQ, ledger, both, table}
    Hints <- MCHints
    Page = Page
    Blank = Blank
    Heading = Heading
    RowText = RowText
    Nothing = Nothing
    MaxLines = 3
    h1 = h1
    h2 = h2
    reader1 = reader1
    reader2 = reader2
    Readers = {reader1, reader2}
    Nodes <- MCNodes
    CreatedAt <- MCCreatedAt
    Measure = 180
    Home <- MCHome
    Roots = {"root1", "root2"}
    Parent <- MCParent
    Chapter <- MCChapter
    NoChapter = NoChapter
    Body <- MCBody
    Asked <- MCAsked
    IdfPercent <- MCIdf
    Lexical <- MCLexical
    Near <- MCNear
    Serving <- MCServing
    Inquiries <- MCInquiries
    MaxNodes = 2
    Budget = 3
    NumSnapshots = 2
    MaxInquiries = 2
    NumFiles = 2
    Documents <- MCDocuments
    Headings = {h1, h2}
    NoHeading = NoHeading
    FrontMatter = FrontMatter
    Fit = 2
SPECIFICATION LibrarySpec
SYMMETRY MCSymmetry
CHECK_DEADLOCK FALSE
INVARIANTS
    LibraryTypeOK
    ResultsAreRight
    WinnerUnbeaten
    AnswersFromItsSnapshot
    PagesAreFiled
PROPERTIES
    UpstreamSurvives
    ListSettlesReport
