---------------------------- MODULE MatchParser -----------------------------
(***************************************************************************)
(* The dataset builder's worker pool: main, workerParse and makeOneMatch   *)
(* (parser/main.go) and SaveWorker (postgres/worker.go).  main feeds the   *)
(* file names to the workers through one channel; a worker parses a file   *)
(* in three goroutines and passes the match to one saver through another   *)
(* channel; main leaves when a WaitGroup and the saver's signal say that   *)
(* all is done.  A goroutine makes one channel, WaitGroup or database      *)
(* operation per step.                                                     *)
(***************************************************************************)
EXTENDS Naturals, Sequences, FiniteSets, SequencesExt

CONSTANTS Files,    \* the .json and .jsonl files of MATCHES_DIR
          Broken,   \* those with a line that is not JSON, or cut off
          Workers,  \* runtime.NumCPU() goroutines
          JobsCap,  \* capacity of jobs (1000)
          DbCap,    \* capacity of dbChan (20)
          NoFile

ASSUME ParserConstants ==
    /\ IsFiniteSet(Files)
    /\ IsFiniteSet(Workers)
    /\ Broken \subseteq Files
    /\ NoFile \notin Files
    /\ JobsCap \in Nat \ {0}
    /\ DbCap \in Nat \ {0}

VARIABLES
    main,        \* where main stands
    rest,        \* files of the directory main has not come to
    next,        \* the file main is sending
    jobs,        \* channel of files
    jobs_closed,
    wq,          \* the WaitGroup's counter
    worker,      \* where each worker stands
    file,        \* the file it works on
    track,       \* what the goroutines of its makeOneMatch have sent
    dbChan,      \* channel of parsed matches, by file
    db_closed,
    saver,       \* where SaveWorker stands
    match,       \* the match it saves
    parsed,      \* history: files that made a match
    offered,     \* history: matches given to saveMatch, in order
    saved        \* matches committed to the database

pool == <<worker, file, track>>
saving == <<saver, match, offered, saved>>
feeding == <<main, rest, next>>
vars == <<feeding, jobs, jobs_closed, wq, pool, dbChan, db_closed, saving, parsed>>

\* The goroutines of makeOneMatch: vision of Radiant, of Dire, general data.
Tracks == {"radiant", "dire", "general"}
Unparsed == [g \in Tracks |-> "nothing"]

Init ==
    /\ main = "start"
    /\ rest = Files
    /\ next = NoFile
    /\ jobs = <<>> /\ jobs_closed = FALSE
    /\ wq = 0
    /\ worker = [w \in Workers |-> "receive"]
    /\ file = [w \in Workers |-> NoFile]
    /\ track = [w \in Workers |-> Unparsed]
    /\ dbChan = <<>> /\ db_closed = FALSE
    /\ saver = "receive"
    /\ match = NoFile
    /\ parsed = {}
    /\ offered = <<>>
    /\ saved = {}

-----------------------------------------------------------------------------
(***************************************************************************)
(* main                                                                    *)
(***************************************************************************)

\* Reading the directory or the game data may fail: main returns.
Start ==
    /\ main = "start"
    /\ main' \in {"feed", "exit"}
    /\ UNCHANGED <<rest, next, jobs, jobs_closed, wq, pool, dbChan, db_closed,
                   saving, parsed>>

\* Mutant of AddJob: the WaitGroup is not told of the job.
AddNothing ==
    /\ main = "feed"
    /\ \E f \in rest : next' = f /\ rest' = rest \ {f}
    /\ main' = "send"
    /\ UNCHANGED <<wq, jobs, jobs_closed, pool, dbChan, db_closed, saving, parsed>>

\* wq.Add(1)
AddJob ==
    /\ main = "feed"
    /\ \E f \in rest : next' = f /\ rest' = rest \ {f}
    /\ wq' = wq + 1
    /\ main' = "send"
    /\ UNCHANGED <<jobs, jobs_closed, pool, dbChan, db_closed, saving, parsed>>

\* jobs <- filePath
SendJob ==
    /\ main = "send"
    /\ Len(jobs) < JobsCap
    /\ jobs' = Append(jobs, next)
    /\ next' = NoFile
    /\ main' = "feed"
    /\ UNCHANGED <<rest, jobs_closed, wq, pool, dbChan, db_closed, saving, parsed>>

\* close(jobs)
CloseJobs ==
    /\ main = "feed"
    /\ rest = {}
    /\ jobs_closed' = TRUE
    /\ main' = "wait"
    /\ UNCHANGED <<rest, next, jobs, wq, pool, dbChan, db_closed, saving, parsed>>

\* Mutant of CloseDb: main does not wait for the workers.
CloseDbAtOnce ==
    /\ main = "wait"
    /\ db_closed' = TRUE
    /\ main' = "join"
    /\ UNCHANGED <<rest, next, jobs, jobs_closed, wq, pool, dbChan, saving, parsed>>

\* wq.Wait(), then close(dbChan)
CloseDb ==
    /\ main = "wait"
    /\ wq = 0
    /\ db_closed' = TRUE
    /\ main' = "join"
    /\ UNCHANGED <<rest, next, jobs, jobs_closed, wq, pool, dbChan, saving, parsed>>

\* Mutant of Join: main does not wait for the saver.
JoinNobody ==
    /\ main = "join"
    /\ main' = "exit"
    /\ UNCHANGED <<rest, next, jobs, jobs_closed, wq, pool, dbChan, db_closed,
                   saving, parsed>>

\* <-dbDone, where SaveWorker is at done <- true; main returns.
Join ==
    /\ main = "join"
    /\ saver = "signal"
    /\ main' = "exit"
    /\ saver' = "end"
    /\ UNCHANGED <<rest, next, jobs, jobs_closed, wq, pool, dbChan, db_closed,
                   match, offered, saved, parsed>>

Main == Start \/ AddJob \/ SendJob \/ CloseJobs \/ CloseDb \/ Join

-----------------------------------------------------------------------------
(***************************************************************************)
(* workerParse                                                             *)
(***************************************************************************)

WorkerAt(w, from, to) ==
    /\ worker[w] = from
    /\ worker' = [worker EXCEPT ![w] = to]

\* range jobs
TakeJob(w) ==
    /\ WorkerAt(w, "receive", "parse")
    /\ jobs # <<>>
    /\ file' = [file EXCEPT ![w] = Head(jobs)]
    /\ jobs' = Tail(jobs)
    /\ UNCHANGED <<feeding, jobs_closed, wq, track, dbChan, db_closed, saving, parsed>>

EndWorker(w) ==
    /\ WorkerAt(w, "receive", "end")
    /\ jobs = <<>> /\ jobs_closed
    /\ UNCHANGED <<feeding, jobs, jobs_closed, wq, file, track, dbChan, db_closed,
                   saving, parsed>>

\* A goroutine sends its data to its channel, or an error, or its panic as an
\* error, to errChan; all of them have room.  json.Decoder keeps a syntax error
\* and does not move on, so in a broken file `continue` comes back to the same
\* line for ever; opening the file may still fail.
Track(w, g) ==
    /\ worker[w] = "parse"
    /\ track[w][g] = "nothing"
    /\ \E sent \in {"error", IF file[w] \in Broken THEN "spins" ELSE "data"} :
            track' = [track EXCEPT ![w][g] = sent]
    /\ UNCHANGED <<feeding, jobs, jobs_closed, wq, worker, file, dbChan, db_closed,
                   saving, parsed>>

\* Mutant of ParseFails: a panic ends the worker, nothing is deferred.
ParsePanics(w) ==
    /\ WorkerAt(w, "parse", "end")
    /\ UNCHANGED <<feeding, jobs, jobs_closed, wq, file, track, dbChan, db_closed,
                   saving, parsed>>

\* makeOneMatch returns the first error, and does not wait for the goroutines
\* that still run; or all have sent data, some of it of no length.
ParseFails(w) ==
    /\ WorkerAt(w, "parse", "done")
    /\ \/ \E g \in Tracks : track[w][g] = "error"
       \/ \A g \in Tracks : track[w][g] = "data"
    /\ track' = [track EXCEPT ![w] = Unparsed]
    /\ UNCHANGED <<feeding, jobs, jobs_closed, wq, file, dbChan, db_closed, saving,
                   parsed>>

\* errChan is closed, which takes all three goroutines, and no error came.
Parse(w) ==
    /\ WorkerAt(w, "parse", "send")
    /\ \A g \in Tracks : track[w][g] = "data"
    /\ track' = [track EXCEPT ![w] = Unparsed]
    /\ parsed' = parsed \cup {file[w]}
    /\ UNCHANGED <<feeding, jobs, jobs_closed, wq, file, dbChan, db_closed, saving>>

\* dbChan <- fm
SendMatch(w) ==
    /\ WorkerAt(w, "send", "done")
    /\ Len(dbChan) < DbCap
    /\ dbChan' = Append(dbChan, file[w])
    /\ UNCHANGED <<feeding, jobs, jobs_closed, wq, file, track, db_closed, saving,
                   parsed>>

\* The deferred wq.Done().
Done(w) ==
    /\ WorkerAt(w, "done", "receive")
    /\ wq' = wq - 1
    /\ file' = [file EXCEPT ![w] = NoFile]
    /\ UNCHANGED <<feeding, jobs, jobs_closed, track, dbChan, db_closed, saving, parsed>>

Work(w) == \/ TakeJob(w) \/ EndWorker(w)
           \/ \E g \in Tracks : Track(w, g)
           \/ ParseFails(w) \/ Parse(w) \/ SendMatch(w) \/ Done(w)

-----------------------------------------------------------------------------
(***************************************************************************)
(* SaveWorker                                                              *)
(***************************************************************************)

TakeMatch ==
    /\ saver = "receive"
    /\ dbChan # <<>>
    /\ match' = Head(dbChan)
    /\ dbChan' = Tail(dbChan)
    /\ offered' = Append(offered, Head(dbChan))
    /\ saver' = "save"
    /\ UNCHANGED <<feeding, jobs, jobs_closed, wq, pool, db_closed, saved, parsed>>

\* saveMatch commits its transaction, or fails, which is logged.
SaveMatch ==
    /\ saver = "save"
    /\ saved' \in {saved, saved \cup {match}}
    /\ match' = NoFile
    /\ saver' = "receive"
    /\ UNCHANGED <<feeding, jobs, jobs_closed, wq, pool, dbChan, db_closed, offered,
                   parsed>>

\* Mutant of Signal: a closed channel is left with what is still in it.
SignalAtOnce ==
    /\ saver = "receive"
    /\ db_closed
    /\ saver' = "signal"
    /\ UNCHANGED <<feeding, jobs, jobs_closed, wq, pool, dbChan, db_closed, match,
                   offered, saved, parsed>>

\* dbChan is closed and empty: done <- true, an unbuffered channel.
Signal ==
    /\ saver = "receive"
    /\ dbChan = <<>> /\ db_closed
    /\ saver' = "signal"
    /\ UNCHANGED <<feeding, jobs, jobs_closed, wq, pool, dbChan, db_closed, match,
                   offered, saved, parsed>>

Saver == TakeMatch \/ SaveMatch \/ Signal

-----------------------------------------------------------------------------
\* When main returns the process ends, and with it every goroutine.
Next == main # "exit" /\ (Main \/ (\E w \in Workers : Work(w)) \/ Saver)

Spec == Init /\ [][Next]_vars

\* The Go scheduler lets every goroutine that can move go on in the end; parsing
\* a file and saving a match come to an end.
Fairness == /\ WF_vars(main # "exit" /\ Main)
            /\ \A w \in Workers : WF_vars(main # "exit" /\ Work(w))
            /\ WF_vars(main # "exit" /\ Saver)
FairSpec == Spec /\ Fairness

-----------------------------------------------------------------------------
(***************************************************************************)
(* Properties                                                              *)
(***************************************************************************)

\* Every variable has its type; no channel holds more than its capacity.
TypeOK ==
    /\ main \in {"start", "feed", "send", "wait", "join", "exit"}
    /\ rest \in SUBSET Files
    /\ next \in Files \cup {NoFile}
    /\ jobs \in Seq(Files) /\ Len(jobs) <= JobsCap
    /\ jobs_closed \in BOOLEAN
    /\ wq \in Nat
    /\ worker \in [Workers -> {"receive", "parse", "send", "done", "end"}]
    /\ file \in [Workers -> Files \cup {NoFile}]
    /\ track \in [Workers -> [Tracks -> {"nothing", "data", "error", "spins"}]]
    /\ dbChan \in Seq(Files) /\ Len(dbChan) <= DbCap
    /\ db_closed \in BOOLEAN
    /\ saver \in {"receive", "save", "signal", "end"}
    /\ match \in Files \cup {NoFile}
    /\ parsed \in SUBSET Files
    /\ offered \in Seq(Files)
    /\ saved \in SUBSET Files

\* The WaitGroup counts exactly the files main has taken up and no worker has
\* finished: it never goes below zero and wq.Wait never returns too early.
WaitGroupCounts ==
    wq = Len(jobs) + Cardinality({w \in Workers : file[w] # NoFile})
            + (IF next # NoFile THEN 1 ELSE 0)

\* No worker sends on dbChan after main has closed it, which would panic.
NoSendAfterClose == db_closed => \A w \in Workers : worker[w] \notin {"parse", "send"}

\* When main has returned after feeding the pool, every match that was parsed
\* was given to saveMatch, and none twice, however workers and saver interleave.
EveryMatchOfferedOnce ==
    /\ main = "exit" /\ jobs_closed =>
            parsed = {offered[k] : k \in DOMAIN offered}
    /\ \A k, l \in DOMAIN offered : offered[k] = offered[l] => k = l

\* The run as one batch: a file is unjudged until its worker has parsed it or has
\* failed, ready until the saver takes its match, and saved when its transaction
\* is committed.
Before == rest \cup ToSet(jobs) \cup ({next} \ {NoFile})
FilesAt(place) == {file[w] : w \in {v \in Workers : worker[v] = place}}

Batch == INSTANCE MatchBatch WITH
            Matches  <- Files,
            unjudged <- Before \cup FilesAt("parse"),
            ready    <- FilesAt("send") \cup ToSet(dbChan),
            saving   <- IF saver = "save" THEN {match} ELSE {},
            over     <- main = "exit"

\* Channels, WaitGroups and goroutines together do what one loop over the files
\* would do: no match is lost or saved in two transactions between a worker and
\* the saver, and main does not return while a match is under way or its
\* transaction is open, which the end of the process would roll back.
ImplementsBatch == Batch!Spec

\* The program ends when no file is broken: no goroutine waits for another for
\* ever, although both channels are bounded and files and matches fail.
PoolEnds == Broken = {} => <>(main = "exit")

\* A file that cannot be parsed ends with an error, "Ошибка в матче"
\* (main.go:105), and costs the builder of a fault-tolerant system
\* (readme.md:31) that match only: no worker stays with one file for ever.
FileLeavesWorker ==
    \A w \in Workers : worker[w] = "parse" ~> worker[w] # "parse" \/ main = "exit"

=============================================================================
