-------------------------- MODULE ReplayCollection --------------------------
(***************************************************************************)
(* The notebook produce_dataset.ipynb, which collects the replays the      *)
(* dataset is made from: it crawls OpenDota's list of parsed matches       *)
(* downwards by id into match_ids.jsonl, merges that into match_ids.json   *)
(* (the book), downloads the replays of the book, decompresses them and    *)
(* has them parsed.  All its state is files: which are there decides what  *)
(* the next run of a cell does.  One cell runs at a time; its kernel may   *)
(* be killed in it, and a person runs any cell again.                      *)
(*                                                                         *)
(* A match is its id.  A page comes in descending order, as OpenDota sends *)
(* it, so the rest of a page, the lines in f's buffer and the lines of the *)
(* file are sets.  That a merge which is run twice enters its matches      *)
(* twice is left out: the readers of the book make a dict of it, but for   *)
(* the statistics that are printed.                                        *)
(***************************************************************************)
EXTENDS Integers, FiniteSets

CONSTANTS Matches,   \* ids of the matches
          PageSize,  \* most matches on a page (100)
          Enough,    \* lines at which the crawl ends (2000)
          MaxKills   \* bound: how often a cell is killed

ASSUME CollectionConstants ==
    /\ Matches \subseteq Nat /\ IsFiniteSet(Matches)
    /\ PageSize \in Nat \ {0} /\ Enough \in Nat /\ MaxKills \in Nat

VARIABLES
    cell,     \* the cell that runs, "idle" if none does
    parsed,   \* the matches OpenDota has parsed so far
    page,     \* new_match_ids that are not fetched yet
    buffer,   \* lines written to f that may not be in the file yet
    lines,    \* the whole lines of match_ids.jsonl
    torn,     \* the file ends in a piece of a line
    owed,     \* history: matches that were on a page and were not refused
    book,     \* the matches in match_ids.json
    book_is,  \* "missing", "whole" or "cut" off by a kill
    archive,  \* replays/<id>.dem.bz2: "none", "part" or "whole"
    dem,      \* replays_dem/<id>.dem: likewise
    parse,    \* parses/<id>.jsonl: "none", "cut" or "whole"
    todo,     \* matches a cell over files has not come to
    kills

crawled == <<parsed, page, buffer, lines, torn, owed>>
entered == <<book, book_is>>
files == <<archive, dem, parse>>
vars == <<cell, crawled, entered, files, todo, kills>>

NoFiles == [m \in Matches |-> "none"]

Init ==
    /\ cell = "idle" /\ parsed = {}
    /\ page = {} /\ buffer = {} /\ lines = {} /\ torn = FALSE
    /\ owed = {}
    /\ book = {} /\ book_is = "missing"
    /\ archive = NoFiles /\ dem = NoFiles /\ parse = NoFiles
    /\ todo = {} /\ kills = 0

\* Outside: OpenDota parses one more match, old or new.
Parsed ==
    /\ \E m \in Matches \ parsed : parsed' = parsed \cup {m}
    /\ UNCHANGED <<cell, page, buffer, lines, torn, owed, entered,
                   files, todo, kills>>

-----------------------------------------------------------------------------
(* Collecting the ids.                                                     *)

StartCrawl ==
    /\ cell = "idle"
    /\ cell' = "crawl"
    /\ UNCHANGED <<crawled, entered, files, todo, kills>>

\* Mutant of Below: ids are counted down instead of asked for.
BelowUnasked == {m \in Matches : \A l \in lines : m < l}

\* The matches the server chooses a page from: less_than_match_id is the lowest
\* saved id, or above all ids.
Below == {m \in parsed : \A l \in lines : m < l}

\* The parsedMatches endpoint answers with the highest of them; nothing depends
\* on how many.
IsPage(ids) ==
    /\ \A m \in ids, o \in Below \ ids : o < m
    /\ Cardinality(ids) <= PageSize
    /\ ids = {} => Below = {}

\* The file is read again before every page; a piece of a line raises.  A request
\* that fails is repeated: `continue`.
EndCrawl ==
    /\ cell = "crawl"
    /\ torn \/ Cardinality(lines) >= Enough
    /\ cell' = "idle"
    /\ UNCHANGED <<crawled, entered, files, todo, kills>>

FetchPage ==
    /\ cell = "crawl" /\ ~torn /\ Cardinality(lines) < Enough
    /\ \E ids \in SUBSET Below :
         /\ IsPage(ids)
         /\ page' = ids
         /\ owed' = owed \cup ids
    /\ cell' = "write"
    /\ UNCHANGED <<parsed, buffer, lines, torn, entered, files, todo, kills>>

\* Mutant of IsNext: the page is worked off from its end.
IsNextFromEnd(m) == \A o \in page : m <= o

IsNext(m) == \A o \in page : o <= m

\* get_match_data: a match is written, or refused because it is not of the modes
\* 1, 2 and 22 or because the request failed.
FetchMatch ==
    /\ cell = "write"
    /\ \E m \in page :
         /\ IsNext(m)
         /\ page' = page \ {m}
         /\ \/ buffer' = buffer \cup {m} /\ UNCHANGED owed
            \/ owed' = owed \ {m} /\ UNCHANGED buffer
    /\ UNCHANGED <<cell, parsed, lines, torn, entered, files, todo, kills>>

\* `with open` closes f, whose lines are then all in the file.
Close ==
    /\ cell = "write" /\ page = {}
    /\ buffer' = {}
    /\ lines' = lines \cup buffer
    /\ cell' = "crawl"
    /\ UNCHANGED <<parsed, page, torn, owed, entered, files, todo, kills>>

CreateBook ==
    /\ cell = "idle" /\ book_is = "missing"
    /\ book_is' = "whole"
    /\ UNCHANGED <<cell, crawled, book, files, todo, kills>>

\* Both files are read, then match_ids.json is opened for writing, which empties
\* it; either file raises if a kill left a piece of a line in it.  (That a file
\* without a line can be merged too is left out.)
StartMerge ==
    /\ cell = "idle" /\ book_is = "whole" /\ ~torn /\ lines # {}
    /\ cell' = "merge"
    /\ book_is' = "cut"
    /\ UNCHANGED <<crawled, book, files, todo, kills>>

EndMerge ==
    /\ cell = "merge" /\ cell' = "idle"
    /\ book' = book \cup lines /\ book_is' = "whole"
    /\ UNCHANGED <<crawled, files, todo, kills>>

-----------------------------------------------------------------------------
(* From ids to parsed replays.  Each of the three cells makes its list and *)
(* works it off in any order: 14 threads download, iterdir has no order.   *)

StartCell(name, matches) ==
    /\ cell = "idle" /\ cell' = name
    /\ todo' = matches
    /\ UNCHANGED <<crawled, entered, files, kills>>

StartDownload ==
    /\ book_is = "whole"
    /\ StartCell("download", {m \in book : parse[m] = "none"})

StartDecompress == StartCell("decompress", {m \in Matches : archive[m] # "none"})

StartParse == StartCell("parse", {m \in Matches : dem[m] # "none"})

EndCell ==
    /\ cell \in {"download", "decompress", "parse"} /\ todo = {}
    /\ cell' = "idle"
    /\ UNCHANGED <<crawled, entered, files, todo, kills>>

\* download: the request fails, or breaks off in the middle of the file, which
\* replaces the one that is there.
Download(m) ==
    /\ cell = "download" /\ m \in todo
    /\ todo' = todo \ {m}
    /\ \E result \in {archive[m], "part", "whole"} :
         archive' = [archive EXCEPT ![m] = result]
    /\ UNCHANGED <<cell, crawled, entered, dem, parse, kills>>

\* Mutant of Unpacked: a replay that is there is unpacked again.
UnpackedAgain(m) == IF archive[m] = "whole" THEN {"part", "whole"} ELSE {"part"}

\* What becomes of a match's .dem: it is skipped if it is there; otherwise it is
\* created before the first byte is read, and a broken archive or a full disk
\* leaves the part of it that was copied.
Unpacked(m) ==
    IF dem[m] # "none" THEN {dem[m]}
    ELSE IF archive[m] = "whole" THEN {"part", "whole"} ELSE {"part"}

Decompress(m) ==
    /\ cell = "decompress" /\ m \in todo
    /\ todo' = todo \ {m}
    /\ \E result \in Unpacked(m) : dem' = [dem EXCEPT ![m] = result]
    /\ UNCHANGED <<cell, crawled, entered, archive, parse, kills>>

\* Mutant of Answered: the check for the file is the wrong way round.
AnsweredInverted(m) ==
    IF parse[m] = "none" THEN {"none"}
    ELSE IF dem[m] = "whole" THEN {"none", "cut", "whole"} ELSE {"none", "cut"}

\* What becomes of its .jsonl: skipped if it is there; the parser rejects the
\* replay or its answer is saved, cut off if the replay was or the disk is full.
Answered(m) ==
    IF parse[m] # "none" THEN {parse[m]}
    ELSE IF dem[m] = "whole" THEN {"none", "cut", "whole"} ELSE {"none", "cut"}

Parse(m) ==
    /\ cell = "parse" /\ m \in todo
    /\ todo' = todo \ {m}
    /\ \E result \in Answered(m) : parse' = [parse EXCEPT ![m] = result]
    /\ UNCHANGED <<cell, crawled, entered, archive, dem, kills>>

-----------------------------------------------------------------------------
\* The crawl is interrupted, or an answer lacks a field: f is closed.  (What an
\* interrupt leaves of another cell, a kill leaves too.)
Interrupt ==
    /\ cell \in {"crawl", "write"} /\ cell' = "idle"
    /\ lines' = lines \cup buffer
    /\ page' = {} /\ buffer' = {}
    /\ UNCHANGED <<parsed, torn, owed, entered, files, todo, kills>>

\* The kernel dies.  Of the lines in f's buffer a first part is in the file, the
\* last of them perhaps in pieces.
Kill ==
    /\ cell # "idle" /\ kills < MaxKills
    /\ kills' = kills + 1
    /\ cell' = "idle"
    /\ \E kept \in SUBSET buffer :
         /\ \A m \in kept, o \in buffer \ kept : o < m
         /\ lines' = lines \cup kept
         /\ torn' \in IF kept = buffer THEN {torn} ELSE {torn, TRUE}
    /\ page' = {} /\ buffer' = {} /\ todo' = {}
    /\ UNCHANGED <<parsed, owed, entered, files>>

Crawl == StartCrawl \/ EndCrawl \/ FetchPage \/ FetchMatch \/ Close
Book == CreateBook \/ StartMerge \/ EndMerge
Work(m) == Download(m) \/ Decompress(m) \/ Parse(m)
Produce == StartDownload \/ StartDecompress \/ StartParse \/ EndCell
             \/ \E m \in Matches : Work(m)

Next == Parsed \/ Crawl \/ Book \/ Produce \/ Interrupt \/ Kill

\* The cell that runs goes on; a crawl that finds nothing more asks for the same
\* page again and again until it is interrupted.  Whoever makes the dataset runs the three cells
\* over files again and again, a download that breaks off is not the only outcome
\* of all tries, and the parser does not reject a whole replay each time.
Fairness ==
    /\ WF_vars(EndCrawl \/ FetchPage \/ FetchMatch \/ Close \/ EndMerge \/ EndCell
                 \/ \E m \in Matches : Work(m))
    /\ SF_vars(cell = "crawl" /\ Interrupt)
    /\ SF_vars(StartDownload) /\ SF_vars(StartDecompress) /\ SF_vars(StartParse)
    /\ \A m \in Matches : SF_vars(Download(m) /\ archive'[m] # "none")
    /\ \A m \in Matches : SF_vars(Parse(m) /\ parse'[m] # "none" /\ dem[m] = "whole")

Spec == Init /\ [][Next]_vars
FairSpec == Spec /\ Fairness

-----------------------------------------------------------------------------
TypeOK ==
    /\ cell \in {"idle", "crawl", "write", "merge", "download", "decompress", "parse"}
    /\ parsed \subseteq Matches
    /\ page \subseteq Matches /\ buffer \subseteq Matches
    /\ lines \subseteq Matches /\ torn \in BOOLEAN
    /\ owed \subseteq parsed
    /\ book \subseteq Matches /\ book_is \in {"missing", "whole", "cut"}
    /\ archive \in [Matches -> {"none", "part", "whole"}]
    /\ dem \in [Matches -> {"none", "part", "whole"}]
    /\ parse \in [Matches -> {"none", "cut", "whole"}]
    /\ todo \subseteq Matches /\ kills \in 0..MaxKills

\* The crawl goes on below the lowest saved id, so what it passes over is lost.
\* It passes over nothing: a match that was on a page is saved, was refused, or is
\* below all saved ones and comes up again, however cells broke off or were
\* killed in the middle of a page (produce_dataset.ipynb:215-253).
NothingMissed ==
    \A m \in owed \ lines : \A l \in lines : m < l

\* However cells are run again, fail or are killed: no whole .dem, no whole parse and
\* no saved line is lost, and a whole archive only while its match has no parse - the
\* list of the download is made before 14 threads work on it, and what is on it is
\* fetched again over the archive that is there (produce_dataset.ipynb:2339-2360).
\* So an archive may be spoiled before it was of use; nothing is said of the book,
\* which a kill in the merge cuts off (281).
WorkIsKept ==
    [][/\ \A m \in Matches :
            /\ dem[m] = "whole" => dem'[m] = "whole"
            /\ parse[m] = "whole" => parse'[m] = "whole"
            /\ archive[m] = "whole" /\ parse[m] # "none" => archive'[m] = "whole"
       /\ lines \subseteq lines']_vars

\* What a failure or a kill cut off for good: each of these three files is skipped,
\* or cannot be read, by every later run.
LeftCut(m) == dem[m] = "part" \/ parse[m] = "cut" \/ book_is = "cut"

\* In the end every match of the book has a whole parse or one of those three files
\* cut off.  Nothing else stands in the way: a cell that failed, or was killed half
\* way through its list, made its next list from the files that were there, and a
\* match without its file was on it (produce_dataset.ipynb:2333-2342, 3990-4001).
EveryMatchParsed ==
    <>[](\A m \in book : parse[m] = "whole" \/ LeftCut(m))
=============================================================================
