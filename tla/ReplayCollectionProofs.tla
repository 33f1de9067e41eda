----------------------- MODULE ReplayCollectionProofs -----------------------
(***************************************************************************)
(* The crawl of ReplayCollection passes over no match, for every set of    *)
(* matches, page size and number of kills.  What makes NothingMissed       *)
(* inductive is the order in which ids move from a page through f's buffer *)
(* to the file: Descending keeps each stage below the one after it, and    *)
(* below it all what was listed and let go.  What is finished stays: the   *)
(* decompression and the parse look for the file they would write, and the *)
(* download's list, which is made once from the parses that are there, does *)
(* not go out of date while the cell runs (ListHolds).                     *)
(***************************************************************************)
EXTENDS ReplayCollection, TLAPS

\* What a page still holds is below what is in the buffer, which is below what is
\* in the file; a match that is in none of them though it was listed is below all.
Descending ==
    /\ cell # "write" => page = {} /\ buffer = {}
    /\ \A m \in buffer, l \in lines : m < l
    /\ \A m \in page, l \in buffer \cup lines : m < l
    /\ \A m \in owed \ (page \cup buffer \cup lines) :
         \A l \in page \cup buffer \cup lines : m < l

CollectionInv == TypeOK /\ Descending

-----------------------------------------------------------------------------
\* The types hold whatever the cells do (ReplayCollection's variables).
LEMMA TypeStep == TypeOK /\ [Next]_vars => TypeOK'
<1> SUFFICES ASSUME TypeOK, [Next]_vars PROVE TypeOK'
  OBVIOUS
<1> USE CollectionConstants DEF TypeOK, crawled, entered, files
<1>1. CASE Parsed
  BY <1>1 DEF Parsed
<1>2. CASE Crawl
  <2>1. CASE StartCrawl
    BY <2>1 DEF StartCrawl
  <2>2. CASE EndCrawl
    BY <2>2 DEF EndCrawl
  <2>3. CASE FetchPage
    BY <2>3 DEF FetchPage, Below
  <2>4. CASE FetchMatch
    BY <2>4 DEF FetchMatch
  <2>5. CASE Close
    BY <2>5 DEF Close
  <2>. QED  BY <1>2, <2>1, <2>2, <2>3, <2>4, <2>5 DEF Crawl
<1>3. CASE Book
  BY <1>3 DEF Book, CreateBook, StartMerge, EndMerge
<1>4. CASE Produce
  <2>1. CASE StartDownload
    BY <2>1 DEF StartDownload, StartCell
  <2>2. CASE StartDecompress
    BY <2>2 DEF StartDecompress, StartCell
  <2>3. CASE StartParse
    BY <2>3 DEF StartParse, StartCell
  <2>4. CASE EndCell
    BY <2>4 DEF EndCell
  <2>5. ASSUME NEW m \in Matches, Download(m) PROVE TypeOK'
    BY <2>5 DEF Download
  <2>6. ASSUME NEW m \in Matches, Decompress(m) PROVE TypeOK'
    BY <2>6 DEF Decompress, Unpacked
  <2>7. ASSUME NEW m \in Matches, Parse(m) PROVE TypeOK'
    BY <2>7 DEF Parse, Answered
  <2>. QED  BY <1>4, <2>1, <2>2, <2>3, <2>4, <2>5, <2>6, <2>7 DEF Produce, Work
<1>5. CASE Interrupt
  BY <1>5 DEF Interrupt
<1>6. CASE Kill
  <2>1. torn' \in BOOLEAN /\ lines' \subseteq Matches
    BY <1>6 DEF Kill
  <2>2. kills' \in 0..MaxKills
    BY <1>6 DEF Kill
  <2>. QED  BY <1>6, <2>1, <2>2 DEF Kill
<1>7. CASE UNCHANGED vars
  BY <1>7 DEF vars
<1>. QED  BY <1>1, <1>2, <1>3, <1>4, <1>5, <1>6, <1>7 DEF Next

\* Ids are natural numbers, so that a match that is not above another one and is
\* not it is below it.
LEMMA Ordered == ASSUME NEW m \in Matches, NEW o \in Matches, o <= m, o # m
                 PROVE  o < m
  BY CollectionConstants

\* And the order of ids is transitive.
LEMMA Transitive == ASSUME NEW a \in Matches, NEW b \in Matches, NEW c \in Matches,
                           a < b, b < c
                    PROVE  a < c
  BY CollectionConstants

-----------------------------------------------------------------------------
\* No step breaks the descending order.
LEMMA DescendingStep == CollectionInv /\ [Next]_vars => Descending'
<1> SUFFICES ASSUME TypeOK, Descending, [Next]_vars PROVE Descending'
  BY DEF CollectionInv
<1>t. /\ page \subseteq Matches /\ buffer \subseteq Matches /\ lines \subseteq Matches
      /\ owed \subseteq parsed /\ parsed \subseteq Matches
  BY DEF TypeOK
<1>1. CASE FetchPage
  <2>1. PICK ids \in SUBSET Below :
          IsPage(ids) /\ page' = ids /\ owed' = owed \cup ids
    BY <1>1 DEF FetchPage
  <2>2. page = {} /\ buffer = {} /\ buffer' = {} /\ lines' = lines /\ cell' = "write"
    BY <1>1 DEF FetchPage, Descending
  <2>3. \A m \in page', l \in buffer' \cup lines' : m < l
    BY <2>1, <2>2 DEF Below
  <2>4. ASSUME NEW m \in owed' \ (page' \cup buffer' \cup lines'),
               NEW l \in page' \cup buffer' \cup lines'
        PROVE  m < l
    <3>1. m \in owed \ (page \cup buffer \cup lines)
      BY <2>1, <2>2, <2>4
    <3>2. m \in Below \ ids
      BY <3>1, <2>1, <2>2, <2>4, <1>t DEF Below, Descending
    <3>. QED  BY <3>1, <3>2, <2>1, <2>2 DEF IsPage, Descending
  <2>. QED  BY <2>2, <2>3, <2>4 DEF Descending
<1>2. CASE FetchMatch
  <2>1. PICK m \in page :
          /\ IsNext(m) /\ page' = page \ {m}
          /\ \/ buffer' = buffer \cup {m} /\ UNCHANGED owed
             \/ owed' = owed \ {m} /\ UNCHANGED buffer
    BY <1>2 DEF FetchMatch
  <2>2. lines' = lines /\ cell' = "write"
    BY <1>2 DEF FetchMatch
  <2>3. \A o \in page' : o < m
    BY <2>1, <1>t, Ordered DEF IsNext
  <2>4. \A o \in buffer', l \in lines' : o < l
    BY <2>1, <2>2 DEF Descending
  <2>5. \A o \in page', l \in buffer' \cup lines' : o < l
    BY <2>1, <2>2, <2>3 DEF Descending
  <2>6. \A o \in owed' \ (page' \cup buffer' \cup lines') :
          \A l \in page' \cup buffer' \cup lines' : o < l
    BY <2>1, <2>2 DEF Descending
  <2>. QED  BY <2>2, <2>4, <2>5, <2>6 DEF Descending
<1>3. CASE Close
  BY <1>3 DEF Close, Descending
<1>4. CASE Interrupt
  <2>1. /\ page' = {} /\ buffer' = {} /\ lines' = lines \cup buffer /\ owed' = owed
    BY <1>4 DEF Interrupt
  <2>2. \A m \in owed \ (lines \cup buffer) : \A l \in lines \cup buffer : m < l
    BY DEF Descending
  <2>. QED  BY <2>1, <2>2 DEF Descending
<1>5. CASE Kill
  <2>1. PICK kept \in SUBSET buffer :
          /\ \A m \in kept, o \in buffer \ kept : o < m
          /\ lines' = lines \cup kept
    BY <1>5 DEF Kill
  <2>2. page' = {} /\ buffer' = {} /\ owed' = owed
    BY <1>5 DEF Kill
  <2>3. \A m \in owed \ (lines \cup kept) : \A l \in lines \cup kept : m < l
    BY <2>1 DEF Descending
  <2>. QED  BY <2>1, <2>2, <2>3 DEF Descending
<1>6. CASE UNCHANGED <<page, buffer, lines, owed>> /\ (cell = "write" => cell' = "write")
  BY <1>6 DEF Descending
<1>7. Parsed \/ EndCrawl \/ StartCrawl \/ Book \/ Produce \/ UNCHANGED vars
        => UNCHANGED <<page, buffer, lines, owed>>
           /\ (cell = "write" => cell' = "write")
  BY DEF Parsed, EndCrawl, StartCrawl, Book, CreateBook, StartMerge, EndMerge,
         Produce, StartDownload, StartDecompress, StartParse, StartCell, EndCell,
         Work, Download, Decompress, Parse, vars, crawled
<1>. QED  BY <1>1, <1>2, <1>3, <1>4, <1>5, <1>6, <1>7 DEF Next, Crawl

-----------------------------------------------------------------------------
\* No cell has run yet.
LEMMA InitialTypes == Init => TypeOK
<1> SUFFICES ASSUME Init PROVE TypeOK
  OBVIOUS
<1>1. kills \in 0..MaxKills
  BY CollectionConstants DEF Init
<1>2. /\ archive \in [Matches -> {"none", "part", "whole"}]
      /\ dem \in [Matches -> {"none", "part", "whole"}]
      /\ parse \in [Matches -> {"none", "cut", "whole"}]
  BY DEF Init, NoFiles
<1>. QED  BY <1>1, <1>2 DEF Init, TypeOK

\* The variables keep their types.
THEOREM CollectionTypeCorrect == Spec => []TypeOK
  BY InitialTypes, TypeStep, PTL DEF Spec

\* Each stage of the crawl stays below the next one (produce_dataset.ipynb:215-253).
THEOREM CollectionInvariant == Spec => []CollectionInv
<1>1. Init => CollectionInv
  BY InitialTypes DEF Init, CollectionInv, Descending
<1>2. CollectionInv /\ [Next]_vars => CollectionInv'
  BY TypeStep, DescendingStep DEF CollectionInv
<1>. QED  BY <1>1, <1>2, PTL DEF Spec

\* The crawl passes over no match that was on a page.
THEOREM CollectionMissesNothing == Spec => []NothingMissed
<1>1. CollectionInv => NothingMissed
  <2> SUFFICES ASSUME TypeOK, Descending,
                      NEW m \in owed \ lines, NEW l \in lines
               PROVE  m < l
    BY DEF CollectionInv, NothingMissed
  <2>1. CASE m \in page \cup buffer
    BY <2>1 DEF Descending
  <2>2. CASE m \notin page \cup buffer
    BY <2>2 DEF Descending
  <2>. QED  BY <2>1, <2>2
<1>. QED  BY <1>1, CollectionInvariant, PTL

-----------------------------------------------------------------------------
\* While the download runs, no match on its list gets a parse.
ListHolds == cell = "download" => \A m \in todo : parse[m] = "none"

\* Only the cell of the parse makes one.
LEMMA ListStep == TypeOK /\ ListHolds /\ [Next]_vars => ListHolds'
<1> SUFFICES ASSUME TypeOK, ListHolds, [Next]_vars, cell' = "download",
                    NEW m \in todo'
             PROVE  parse'[m] = "none"
  BY DEF ListHolds
<1>1. CASE cell = "download" /\ todo' \subseteq todo /\ parse' = parse
  BY <1>1 DEF ListHolds
<1>2. CASE StartDownload
  BY <1>2 DEF StartDownload, StartCell, files
<1>3. CASE \E o \in Matches : Download(o)
  <2>1. cell = "download" /\ todo' \subseteq todo /\ parse' = parse
    BY <1>3 DEF Download
  <2>. QED  BY <1>1, <2>1
<1>4. ~(StartDecompress \/ StartParse \/ EndCell)
  BY DEF StartDecompress, StartParse, StartCell, EndCell
<1>5. ~\E o \in Matches : Decompress(o) \/ Parse(o)
  BY DEF Decompress, Parse
<1>6. CASE Parsed \/ Crawl \/ Book \/ Interrupt \/ Kill \/ UNCHANGED vars
  <2>1. cell = "download" /\ todo' \subseteq todo /\ parse' = parse
    BY <1>6 DEF Parsed, Crawl, StartCrawl, EndCrawl, FetchPage, FetchMatch, Close,
                Book, CreateBook, StartMerge, EndMerge, Interrupt, Kill, vars, files
  <2>. QED  BY <1>1, <2>1
<1>. QED  BY <1>2, <1>3, <1>4, <1>5, <1>6 DEF Next, Produce, Work

\* No run of a cell, failure or kill spoils a whole .dem, a whole parse or a saved
\* line, nor the whole archive of a match that has a parse.
THEOREM CollectionKeepsWork == Spec => WorkIsKept
<1> DEFINE Kept == /\ \A m \in Matches :
                        /\ dem[m] = "whole" => dem'[m] = "whole"
                        /\ parse[m] = "whole" => parse'[m] = "whole"
                        /\ archive[m] = "whole" /\ parse[m] # "none" => archive'[m] = "whole"
                   /\ lines \subseteq lines'
<1>1. TypeOK /\ ListHolds /\ [Next]_vars => [Kept]_vars
  <2> SUFFICES ASSUME TypeOK, ListHolds, Next PROVE Kept
    OBVIOUS
  <2>1. lines \subseteq lines'
    BY DEF Next, Parsed, Crawl, StartCrawl, EndCrawl, FetchPage, FetchMatch, Close,
           Book, CreateBook, StartMerge, EndMerge, Produce, StartDownload,
           StartDecompress, StartParse, StartCell, EndCell, Work, Download,
           Decompress, Parse, Interrupt, Kill, crawled
  <2>2. UNCHANGED files \/ \E m \in Matches : Work(m)
    BY DEF Next, Parsed, Crawl, StartCrawl, EndCrawl, FetchPage, FetchMatch, Close,
           Book, CreateBook, StartMerge, EndMerge, Produce, StartDownload,
           StartDecompress, StartParse, StartCell, EndCell, Interrupt, Kill
  <2>3. CASE UNCHANGED files
    BY <2>1, <2>3 DEF files
  <2>4. ASSUME NEW o \in Matches, Work(o), NEW m \in Matches
        PROVE  /\ dem[m] = "whole" => dem'[m] = "whole"
               /\ parse[m] = "whole" => parse'[m] = "whole"
               /\ archive[m] = "whole" /\ parse[m] # "none" => archive'[m] = "whole"
    <3>1. CASE Download(o)
      <4>1. dem' = dem /\ parse' = parse
        BY <3>1 DEF Download
      <4>2. parse[o] = "none"
        BY <3>1 DEF Download, ListHolds
      <4>3. m # o => archive'[m] = archive[m]
        BY <3>1 DEF Download, TypeOK
      <4>. QED  BY <4>1, <4>2, <4>3
    <3>2. CASE Decompress(o)
      BY <3>2 DEF Decompress, Unpacked, TypeOK
    <3>3. CASE Parse(o)
      BY <3>3 DEF Parse, Answered, TypeOK
    <3>. QED  BY <2>4, <3>1, <3>2, <3>3 DEF Work
  <2>. QED  BY <2>1, <2>2, <2>3, <2>4
<1>2. Init => ListHolds
  BY DEF Init, ListHolds
<1>. QED  BY <1>1, <1>2, ListStep, CollectionTypeCorrect, PTL DEF Spec, WorkIsKept
=============================================================================
