-------------------------- MODULE MatchParserProofs --------------------------
(***************************************************************************)
(* The worker pool of MatchParser for every number of files, workers and   *)
(* channel places: the WaitGroup counts the files under way, so nobody     *)
(* sends on a closed channel, and every parsed match is offered to         *)
(* saveMatch exactly once; and the pool implements MatchBatch.             *)
(***************************************************************************)
EXTENDS MatchParser, SequenceTheorems, FiniteSetTheorems, TLAPS

\* The workers that hold a file.
Holders == {w \in Workers : file[w] # NoFile}

Distinct(s) == \A k, l \in DOMAIN s : s[k] = s[l] => k = l

\* A worker holds a file from receiving it to wq.Done(), main while it sends it;
\* the saver has a match while it saves.
FilesHeld ==
    /\ \A w \in Workers : worker[w] \in {"parse", "send", "done"} <=> file[w] # NoFile
    /\ main = "send" <=> next # NoFile
    /\ saver = "save" => match # NoFile

\* dbChan is closed when no file is under way any more, and none comes after.
ClosedAfterWork ==
    db_closed => main \in {"join", "exit"} /\ jobs = <<>> /\ Holders = {}

PoolInv == TypeOK /\ FilesHeld /\ WaitGroupCounts /\ ClosedAfterWork

-----------------------------------------------------------------------------
\* Appending adds one element, at the end.
LEMMA Appended ==
  ASSUME NEW S, NEW s \in Seq(S), NEW x \in S
  PROVE  /\ Append(s, x) \in Seq(S)
         /\ Len(Append(s, x)) = Len(s) + 1
         /\ ToSet(Append(s, x)) = ToSet(s) \cup {x}
         /\ Distinct(s) /\ x \notin ToSet(s) => Distinct(Append(s, x))
<1> DEFINE t == Append(s, x)
<1>1. /\ t \in Seq(S) /\ Len(t) = Len(s) + 1 /\ Len(s) \in Nat
      /\ \A i \in 1..Len(s) : t[i] = s[i]
      /\ t[Len(s) + 1] = x
  OBVIOUS
<1>2. DOMAIN s = 1..Len(s) /\ DOMAIN t = 1..(Len(s) + 1)
  BY <1>1, LenProperties
<1>3. DOMAIN t = DOMAIN s \cup {Len(s) + 1} /\ Len(s) + 1 \notin DOMAIN s
  BY <1>1, <1>2
<1> HIDE DEF t
<1>4. ToSet(t) = ToSet(s) \cup {x}
  BY <1>1, <1>2, <1>3 DEF ToSet
<1>5. Distinct(s) /\ x \notin ToSet(s) => Distinct(t)
  BY <1>1, <1>2, <1>3 DEF ToSet, Distinct
<1>. QED  BY <1>1, <1>4, <1>5 DEF t

\* Head and Tail part a sequence into its first element and the others.
LEMMA Parted ==
  ASSUME NEW S, NEW s \in Seq(S), s # <<>>
  PROVE  /\ Head(s) \in S /\ Tail(s) \in Seq(S)
         /\ Len(s) = Len(Tail(s)) + 1
         /\ ToSet(s) = ToSet(Tail(s)) \cup {Head(s)}
         /\ Distinct(s) => Distinct(Tail(s)) /\ Head(s) \notin ToSet(Tail(s))
<1> DEFINE t == Tail(s)
           h == Head(s)
<1>1. /\ h \in S /\ t \in Seq(S) /\ Len(t) = Len(s) - 1
      /\ \A i \in 1..Len(t) : t[i] = s[i + 1]
      /\ h = s[1]
  BY HeadTailProperties
<1>2. /\ DOMAIN s = 1..Len(s) /\ DOMAIN t = 1..Len(t)
      /\ Len(s) \in Nat \ {0} /\ Len(t) \in Nat
  BY <1>1, LenProperties, EmptySeq
<1> HIDE DEF t, h
<1>3. \A i \in DOMAIN t : i + 1 \in DOMAIN s /\ i + 1 # 1 /\ t[i] = s[i + 1]
  BY <1>1, <1>2
<1>4. \A i \in DOMAIN s : i = 1 \/ (i - 1 \in DOMAIN t /\ s[i] = t[i - 1])
  <2> TAKE i \in DOMAIN s
  <2>1. i \in 1..Len(s) /\ i \in Nat
    BY <1>2
  <2>2. i # 1 => i - 1 \in 1..Len(t) /\ (i - 1) + 1 = i
    BY <2>1, <1>1, <1>2
  <2>. QED  BY <2>2, <1>1, <1>2
<1>5. 1 \in DOMAIN s
  BY <1>2
<1>6. ToSet(s) = ToSet(t) \cup {h}
  <2>1. ToSet(t) \cup {h} \subseteq ToSet(s)
    BY <1>1, <1>3, <1>5 DEF ToSet
  <2>2. ToSet(s) \subseteq ToSet(t) \cup {h}
    BY <1>1, <1>4 DEF ToSet
  <2>. QED  BY <2>1, <2>2
<1>7. ASSUME Distinct(s) PROVE Distinct(t) /\ h \notin ToSet(t)
  <2>1. ASSUME NEW k \in DOMAIN t, NEW l \in DOMAIN t, t[k] = t[l] PROVE k = l
    <3>1. k + 1 = l + 1
      BY <2>1, <1>3, <1>7 DEF Distinct
    <3>. QED  BY <3>1, <1>2
  <2>2. h \notin ToSet(t)
    BY <1>1, <1>3, <1>5, <1>7 DEF ToSet, Distinct
  <2>. QED  BY <2>1, <2>2 DEF Distinct
<1>8. Len(s) = Len(t) + 1
  BY <1>1, <1>2
<1>. QED  BY <1>1, <1>6, <1>7, <1>8 DEF t, h

-----------------------------------------------------------------------------
\* What a step of TakeJob, Done and the other moves of a worker does to it alone.
LEMMA FilesHeldStep == TypeOK /\ FilesHeld /\ [Next]_vars => FilesHeld'
<1> SUFFICES ASSUME TypeOK, FilesHeld, [Next]_vars PROVE FilesHeld'
  OBVIOUS
<1>t. /\ worker \in [Workers -> {"receive", "parse", "send", "done", "end"}]
      /\ file \in [Workers -> Files \cup {NoFile}]
      /\ jobs \in Seq(Files) /\ dbChan \in Seq(Files)
      /\ NoFile \notin Files /\ rest \subseteq Files
  BY ParserConstants DEF TypeOK
<1> USE DEF FilesHeld, feeding, pool, saving
<1>1. CASE Main
  BY <1>1, <1>t DEF Main, Start, AddJob, SendJob, CloseJobs, CloseDb, Join
<1>2. ASSUME NEW w \in Workers, Work(w) PROVE FilesHeld'
  <2> USE <1>t DEF WorkerAt
  <2>1. CASE TakeJob(w)
    <3>1. Head(jobs) \in Files
      BY <2>1, HeadTailProperties, Zenon DEF TakeJob
    <3>. QED  BY <2>1, <3>1 DEF TakeJob
  <2>2. CASE EndWorker(w)
    BY <2>2 DEF EndWorker
  <2>3. CASE \E g \in Tracks : Track(w, g)
    BY <2>3 DEF Track
  <2>4. CASE ParseFails(w)
    BY <2>4 DEF ParseFails
  <2>5. CASE Parse(w)
    BY <2>5 DEF Parse
  <2>6. CASE SendMatch(w)
    BY <2>6 DEF SendMatch
  <2>7. CASE Done(w)
    BY <2>7 DEF Done
  <2>. QED  BY <1>2, <2>1, <2>2, <2>3, <2>4, <2>5, <2>6, <2>7 DEF Work
<1>3. CASE Saver
  <2>1. dbChan # <<>> => Head(dbChan) \in Files
    BY <1>t, HeadTailProperties, Zenon
  <2>. QED  BY <1>3, <1>t, <2>1 DEF Saver, TakeMatch, SaveMatch, Signal
<1>4. CASE UNCHANGED vars
  BY <1>4 DEF vars
<1>. QED  BY <1>1, <1>2, <1>3, <1>4 DEF Next

\* The holders change when a worker takes a file or is done with it, by one.
LEMMA HoldersStep ==
  ASSUME TypeOK, FilesHeld, NEW w \in Workers
  PROVE  /\ TakeJob(w) => Holders' = Holders \cup {w} /\ w \notin Holders
         /\ Done(w) => Holders' = Holders \ {w} /\ w \in Holders
<1>t. /\ worker \in [Workers -> {"receive", "parse", "send", "done", "end"}]
      /\ file \in [Workers -> Files \cup {NoFile}]
      /\ jobs \in Seq(Files) /\ NoFile \notin Files
  BY ParserConstants DEF TypeOK
<1>1. ASSUME TakeJob(w) PROVE Holders' = Holders \cup {w} /\ w \notin Holders
  <2>1. Head(jobs) \in Files
    BY <1>1, <1>t, HeadTailProperties, Zenon DEF TakeJob
  <2>2. file' = [file EXCEPT ![w] = Head(jobs)] /\ worker[w] = "receive"
    BY <1>1 DEF TakeJob, WorkerAt
  <2>. QED  BY <2>1, <2>2, <1>t DEF Holders, FilesHeld
<1>2. ASSUME Done(w) PROVE Holders' = Holders \ {w} /\ w \in Holders
  <2>1. file' = [file EXCEPT ![w] = NoFile] /\ worker[w] = "done"
    BY <1>2 DEF Done, WorkerAt
  <2>. QED  BY <2>1, <1>t DEF Holders, FilesHeld
<1>. QED  BY <1>1, <1>2

\* How many they are.
LEMMA HoldersNumber ==
  /\ IsFiniteSet(Holders) /\ Cardinality(Holders) \in Nat
  /\ Cardinality(Holders) = 0 => Holders = {}
  /\ \A w \in Workers :
       /\ w \notin Holders => Cardinality(Holders \cup {w}) = Cardinality(Holders) + 1
       /\ w \in Holders => Cardinality(Holders \ {w}) = Cardinality(Holders) - 1
<1>1. Holders \in SUBSET Workers /\ IsFiniteSet(Workers)
  BY ParserConstants DEF Holders
<1>2. IsFiniteSet(Holders)
  BY <1>1, FS_Subset, Zenon
<1>3. Cardinality(Holders) \in Nat
  BY <1>2, FS_CardinalityType, Zenon
<1>4. Cardinality(Holders) = 0 => Holders = {}
  BY <1>2, FS_EmptySet, Zenon
<1>5. ASSUME NEW w \in Workers, w \notin Holders
      PROVE  Cardinality(Holders \cup {w}) = Cardinality(Holders) + 1
  BY <1>2, <1>5, FS_AddElement, Zenon
<1>6. ASSUME NEW w \in Workers, w \in Holders
      PROVE  Cardinality(Holders \ {w}) = Cardinality(Holders) - 1
  BY <1>2, <1>6, FS_RemoveElement, Zenon
<1>. QED  BY <1>2, <1>3, <1>4, <1>5, <1>6

\* The sum of WaitGroupCounts, apart from its counter.
UnderWay == Len(jobs) + Cardinality(Holders) + (IF next # NoFile THEN 1 ELSE 0)

\* A step that adds or moves a file adds or moves it in the counter too.
LEMMA CountStep ==
  TypeOK /\ FilesHeld /\ WaitGroupCounts /\ [Next]_vars => WaitGroupCounts' /\ wq' \in Nat
<1> SUFFICES ASSUME TypeOK, FilesHeld, WaitGroupCounts, [Next]_vars
             PROVE  WaitGroupCounts' /\ wq' \in Nat
  OBVIOUS
<1>t. /\ jobs \in Seq(Files) /\ wq \in Nat /\ NoFile \notin Files
      /\ rest \subseteq Files /\ next \in Files \cup {NoFile} /\ Len(jobs) \in Nat
  BY ParserConstants, LenProperties DEF TypeOK
<1>c. wq = UnderWay
  BY DEF WaitGroupCounts, UnderWay, Holders
<1>n. Cardinality(Holders) \in Nat
  BY HoldersNumber
<1>s. SUFFICES wq' = UnderWay' /\ wq' \in Nat
  BY DEF WaitGroupCounts, UnderWay, Holders
<1>1. CASE AddJob
  <2>1. next = NoFile /\ next' # NoFile /\ wq' = wq + 1 /\ jobs' = jobs
    BY <1>1, <1>t DEF AddJob, FilesHeld
  <2>2. Holders' = Holders
    BY <1>1 DEF AddJob, Holders, pool
  <2>. QED  BY <2>1, <2>2, <1>t, <1>c, <1>n DEF UnderWay
<1>2. CASE SendJob
  <2>1. next # NoFile /\ next' = NoFile /\ wq' = wq /\ jobs' = Append(jobs, next)
    BY <1>2 DEF SendJob, FilesHeld
  <2>2. Holders' = Holders
    BY <1>2 DEF SendJob, Holders, pool
  <2>3. Len(jobs') = Len(jobs) + 1
    BY <2>1, <1>t
  <2>. QED  BY <2>1, <2>2, <2>3, <1>t, <1>c, <1>n DEF UnderWay
<1>3. ASSUME NEW w \in Workers, TakeJob(w) PROVE wq' = UnderWay' /\ wq' \in Nat
  <2>1. wq' = wq /\ next' = next /\ jobs # <<>> /\ jobs' = Tail(jobs)
    BY <1>3 DEF TakeJob, feeding
  <2>2. Cardinality(Holders') = Cardinality(Holders) + 1
    BY <1>3, HoldersStep, HoldersNumber
  <2>3. Len(jobs) = Len(jobs') + 1 /\ jobs' \in Seq(Files)
    BY <2>1, <1>t, Parted, Zenon
  <2>4. Len(jobs') \in Nat
    BY <2>3
  <2>. QED  BY <2>1, <2>2, <2>3, <2>4, <1>t, <1>c, <1>n DEF UnderWay
<1>4. ASSUME NEW w \in Workers, Done(w) PROVE wq' = UnderWay' /\ wq' \in Nat
  <2>1. wq' = wq - 1 /\ next' = next /\ jobs' = jobs
    BY <1>4 DEF Done, feeding
  <2>2. Cardinality(Holders') = Cardinality(Holders) - 1
    BY <1>4, HoldersStep, HoldersNumber
  <2>3. Holders # {}
    BY <1>4, HoldersStep
  <2>4. Cardinality(Holders) # 0
    BY <2>3, HoldersNumber
  <2>. QED  BY <2>1, <2>2, <2>4, <1>t, <1>c, <1>n DEF UnderWay
<1>5. CASE UNCHANGED <<wq, jobs, next, file>>
  BY <1>5, <1>c, <1>t DEF UnderWay, Holders
<1>6. Start \/ CloseJobs \/ CloseDb \/ Join \/ Saver => UNCHANGED <<wq, jobs, next, file>>
  BY DEF Start, CloseJobs, CloseDb, Join, Saver, TakeMatch, SaveMatch, Signal, feeding, pool
<1>7. \A w \in Workers :
        EndWorker(w) \/ (\E g \in Tracks : Track(w, g)) \/ ParseFails(w) \/ Parse(w)
          \/ SendMatch(w) => UNCHANGED <<wq, jobs, next, file>>
  BY DEF EndWorker, Track, ParseFails, Parse, SendMatch, feeding, pool
<1>8. UNCHANGED vars => UNCHANGED <<wq, jobs, next, file>>
  BY DEF vars, feeding, pool
<1>. QED  BY <1>1, <1>2, <1>3, <1>4, <1>5, <1>6, <1>7, <1>8 DEF Next, Main, Work

\* The types hold whatever main, workers and saver do.
LEMMA TypeStep ==
  TypeOK /\ FilesHeld /\ WaitGroupCounts /\ [Next]_vars => TypeOK'
<1> SUFFICES ASSUME TypeOK, FilesHeld, WaitGroupCounts, [Next]_vars PROVE TypeOK'
  OBVIOUS
<1>w. wq' \in Nat
  BY CountStep
<1>t. /\ main \in {"start", "feed", "send", "wait", "join", "exit"}
      /\ rest \in SUBSET Files /\ next \in Files \cup {NoFile}
      /\ jobs \in Seq(Files) /\ Len(jobs) <= JobsCap
      /\ worker \in [Workers -> {"receive", "parse", "send", "done", "end"}]
      /\ file \in [Workers -> Files \cup {NoFile}]
      /\ track \in [Workers -> [Tracks -> {"nothing", "data", "error", "spins"}]]
      /\ dbChan \in Seq(Files) /\ Len(dbChan) <= DbCap
      /\ saver \in {"receive", "save", "signal", "end"}
      /\ match \in Files \cup {NoFile}
      /\ parsed \in SUBSET Files /\ offered \in Seq(Files) /\ saved \in SUBSET Files
      /\ jobs_closed \in BOOLEAN /\ db_closed \in BOOLEAN
  BY DEF TypeOK
<1>k. JobsCap \in Nat /\ DbCap \in Nat /\ NoFile \notin Files
  BY ParserConstants
\* Main's part: what it sends, and what it closes.
<1>1. /\ main' \in {"start", "feed", "send", "wait", "join", "exit"}
      /\ rest' \in SUBSET Files /\ next' \in Files \cup {NoFile}
      /\ jobs_closed' \in BOOLEAN /\ db_closed' \in BOOLEAN
  <2>1. CASE Main
    BY <2>1, <1>t DEF Main, Start, AddJob, SendJob, CloseJobs, CloseDb, Join
  <2>2. ASSUME NEW w \in Workers, Work(w)
        PROVE  UNCHANGED <<feeding, jobs_closed, db_closed>>
    BY <2>2 DEF Work, TakeJob, EndWorker, Track, ParseFails, Parse, SendMatch, Done
  <2>3. CASE Saver
    BY <2>3, <1>t DEF Saver, TakeMatch, SaveMatch, Signal, feeding
  <2>. QED  BY <1>t, <2>1, <2>2, <2>3 DEF Next, vars, feeding
\* The two channels and what has gone through them.
<1>2. jobs' \in Seq(Files) /\ Len(jobs') <= JobsCap
  <2>1. CASE SendJob
    <3>1. jobs' = Append(jobs, next) /\ next \in Files /\ Len(jobs) < JobsCap
      BY <2>1, <1>t DEF SendJob, FilesHeld
    <3>. QED  BY <3>1, <1>t, <1>k
  <2>2. ASSUME NEW w \in Workers, TakeJob(w)
        PROVE  jobs' \in Seq(Files) /\ Len(jobs') <= JobsCap
    <3>1. jobs # <<>> /\ jobs' = Tail(jobs)
      BY <2>2 DEF TakeJob
    <3>. QED  BY <3>1, <1>t, <1>k
  <2>3. Start \/ AddJob \/ CloseJobs \/ CloseDb \/ Join \/ Saver => jobs' = jobs
    BY DEF Start, AddJob, CloseJobs, CloseDb, Join, Saver, TakeMatch, SaveMatch, Signal
  <2>4. \A w \in Workers :
          EndWorker(w) \/ (\E g \in Tracks : Track(w, g)) \/ ParseFails(w) \/ Parse(w)
            \/ SendMatch(w) \/ Done(w) => jobs' = jobs
    BY DEF EndWorker, Track, ParseFails, Parse, SendMatch, Done
  <2>5. UNCHANGED vars => jobs' = jobs
    BY DEF vars
  <2>. QED  BY <1>t, <2>1, <2>2, <2>3, <2>4, <2>5 DEF Next, Main, Work
<1>3. dbChan' \in Seq(Files) /\ Len(dbChan') <= DbCap
  <2>1. ASSUME NEW w \in Workers, SendMatch(w)
        PROVE  dbChan' \in Seq(Files) /\ Len(dbChan') <= DbCap
    <3>1. dbChan' = Append(dbChan, file[w]) /\ file[w] \in Files /\ Len(dbChan) < DbCap
      BY <2>1, <1>t DEF SendMatch, FilesHeld, WorkerAt
    <3>. QED  BY <3>1, <1>t, <1>k
  <2>2. CASE TakeMatch
    <3>1. dbChan # <<>> /\ dbChan' = Tail(dbChan)
      BY <2>2 DEF TakeMatch
    <3>. QED  BY <3>1, <1>t, <1>k
  <2>3. Main \/ SaveMatch \/ Signal => dbChan' = dbChan
    BY DEF Main, Start, AddJob, SendJob, CloseJobs, CloseDb, Join, SaveMatch, Signal
  <2>4. \A w \in Workers :
          TakeJob(w) \/ EndWorker(w) \/ (\E g \in Tracks : Track(w, g)) \/ ParseFails(w)
            \/ Parse(w) \/ Done(w) => dbChan' = dbChan
    BY DEF TakeJob, EndWorker, Track, ParseFails, Parse, Done
  <2>5. UNCHANGED vars => dbChan' = dbChan
    BY DEF vars
  <2>. QED  BY <1>t, <2>1, <2>2, <2>3, <2>4, <2>5 DEF Next, Saver, Work
\* The workers.
<1>4. /\ worker' \in [Workers -> {"receive", "parse", "send", "done", "end"}]
      /\ file' \in [Workers -> Files \cup {NoFile}]
      /\ track' \in [Workers -> [Tracks -> {"nothing", "data", "error", "spins"}]]
      /\ parsed' \in SUBSET Files
  <2>0. Unparsed \in [Tracks -> {"nothing", "data", "error", "spins"}]
    BY DEF Unparsed
  <2>1. ASSUME NEW w \in Workers, Work(w)
        PROVE  /\ worker' \in [Workers -> {"receive", "parse", "send", "done", "end"}]
               /\ file' \in [Workers -> Files \cup {NoFile}]
               /\ track' \in [Workers -> [Tracks -> {"nothing", "data", "error", "spins"}]]
               /\ parsed' \in SUBSET Files
    <3>1. CASE TakeJob(w)
      <4>1. Head(jobs) \in Files
        BY <3>1, <1>t, HeadTailProperties, Zenon DEF TakeJob
      <4>. QED  BY <3>1, <4>1, <1>t DEF TakeJob, WorkerAt
    <3>2. CASE \E g \in Tracks : Track(w, g)
      <4>1. PICK g \in Tracks, sent \in {"error", "spins", "data"} :
              track' = [track EXCEPT ![w][g] = sent]
        BY <3>2 DEF Track
      <4>2. [track[w] EXCEPT ![g] = sent] \in [Tracks -> {"nothing", "data", "error", "spins"}]
        BY <1>t
      <4>3. track' = [track EXCEPT ![w] = [track[w] EXCEPT ![g] = sent]]
        BY <4>1, <1>t
      <4>4. UNCHANGED <<worker, file, parsed>>
        BY <3>2 DEF Track
      <4>. QED  BY <4>2, <4>3, <4>4, <1>t
    <3>3. CASE EndWorker(w)
      BY <3>3, <1>t DEF EndWorker, WorkerAt
    <3>4. CASE ParseFails(w)
      BY <3>4, <2>0, <1>t DEF ParseFails, WorkerAt
    <3>5. CASE Parse(w)
      <4>1. file[w] \in Files
        BY <3>5, <1>t DEF Parse, WorkerAt, FilesHeld
      <4>. QED  BY <3>5, <4>1, <2>0, <1>t DEF Parse, WorkerAt
    <3>6. CASE SendMatch(w)
      BY <3>6, <1>t DEF SendMatch, WorkerAt
    <3>7. CASE Done(w)
      BY <3>7, <1>t DEF Done, WorkerAt
    <3>. QED  BY <2>1, <3>1, <3>2, <3>3, <3>4, <3>5, <3>6, <3>7 DEF Work
  <2>2. Main \/ Saver => UNCHANGED <<pool, parsed>>
    BY DEF Main, Start, AddJob, SendJob, CloseJobs, CloseDb, Join, Saver, TakeMatch,
           SaveMatch, Signal
  <2>. QED  BY <1>t, <2>1, <2>2 DEF Next, vars, pool
\* The saver.
<1>5. /\ saver' \in {"receive", "save", "signal", "end"}
      /\ match' \in Files \cup {NoFile}
      /\ offered' \in Seq(Files) /\ saved' \in SUBSET Files
  <2>1. CASE TakeMatch
    <3>1. Head(dbChan) \in Files
      BY <2>1, <1>t, HeadTailProperties, Zenon DEF TakeMatch
    <3>. QED  BY <2>1, <3>1, <1>t DEF TakeMatch
  <2>2. CASE SaveMatch
    BY <2>2, <1>t DEF SaveMatch, FilesHeld
  <2>3. CASE Signal \/ Join
    BY <2>3, <1>t DEF Signal, Join
  <2>4. Start \/ AddJob \/ SendJob \/ CloseJobs \/ CloseDb => UNCHANGED saving
    BY DEF Start, AddJob, SendJob, CloseJobs, CloseDb
  <2>5. \A w \in Workers : Work(w) => UNCHANGED saving
    BY DEF Work, TakeJob, EndWorker, Track, ParseFails, Parse, SendMatch, Done
  <2>. QED  BY <1>t, <2>1, <2>2, <2>3, <2>4, <2>5 DEF Next, Main, Saver, vars, saving
<1>. QED  BY <1>w, <1>1, <1>2, <1>3, <1>4, <1>5 DEF TypeOK

\* Once dbChan is closed no file comes up: main feeds no more, jobs is empty and
\* only what is in jobs makes a worker hold a file.
LEMMA ClosedStep == PoolInv /\ [Next]_vars => ClosedAfterWork'
<1> SUFFICES ASSUME TypeOK, FilesHeld, WaitGroupCounts, ClosedAfterWork, [Next]_vars
             PROVE  ClosedAfterWork'
  BY DEF PoolInv
<1>t. file \in [Workers -> Files \cup {NoFile}] /\ jobs \in Seq(Files)
  BY DEF TypeOK
<1>1. CASE CloseDb
  <2>1. wq = 0 /\ wq = Len(jobs) + Cardinality(Holders) + (IF next # NoFile THEN 1 ELSE 0)
    BY <1>1 DEF CloseDb, WaitGroupCounts, Holders
  <2>2. Len(jobs) \in Nat /\ Cardinality(Holders) \in Nat
    BY <1>t, LenProperties, HoldersNumber
  <2>3. Len(jobs) = 0 /\ Cardinality(Holders) = 0
    BY <2>1, <2>2
  <2>4. jobs = <<>>
    BY <2>3, <1>t, EmptySeq
  <2>6. Holders = {}
    BY <2>3, HoldersNumber
  <2>5. main' = "join" /\ jobs' = jobs /\ Holders' = Holders
    BY <1>1 DEF CloseDb, Holders, pool
  <2>. QED  BY <2>4, <2>5, <2>6 DEF ClosedAfterWork
<1>2. ASSUME NEW w \in Workers, TakeJob(w) PROVE ClosedAfterWork'
  BY <1>2 DEF TakeJob, ClosedAfterWork
<1>3. ASSUME NEW w \in Workers, Done(w) PROVE ClosedAfterWork'
  <2>1. Holders' \subseteq Holders
    BY <1>3, HoldersStep
  <2>. QED  BY <1>3, <2>1 DEF Done, ClosedAfterWork, feeding
<1>4. CASE UNCHANGED <<db_closed, jobs, file>> /\ (main' = main \/ main' = "exit")
  BY <1>4 DEF ClosedAfterWork, Holders
<1>5. Join \/ Saver \/ UNCHANGED vars
        => UNCHANGED <<db_closed, jobs, file>> /\ (main' = main \/ main' = "exit")
  BY DEF Join, Saver, TakeMatch, SaveMatch, Signal, feeding, pool, vars
<1>6. \A w \in Workers :
        EndWorker(w) \/ (\E g \in Tracks : Track(w, g)) \/ ParseFails(w) \/ Parse(w)
          \/ SendMatch(w)
            => UNCHANGED <<db_closed, jobs, file>> /\ (main' = main \/ main' = "exit")
  BY DEF EndWorker, Track, ParseFails, Parse, SendMatch, feeding, pool
<1>7. CASE Start \/ AddJob \/ SendJob \/ CloseJobs
  BY <1>7 DEF Start, AddJob, SendJob, CloseJobs, ClosedAfterWork
<1>. QED  BY <1>1, <1>2, <1>3, <1>4, <1>5, <1>6, <1>7 DEF Next, Main, Work

\* The pool's invariant holds at the start, and no step breaks it.
LEMMA PoolStarts == Init => PoolInv
<1> SUFFICES ASSUME Init PROVE PoolInv
  OBVIOUS
<1>1. Holders = {} /\ jobs = <<>> /\ next = NoFile /\ wq = 0
  BY DEF Init, Holders
<1>2. TypeOK
  <2>1. <<>> \in Seq(Files) /\ Len(<<>>) = 0 /\ 0 <= JobsCap /\ 0 <= DbCap
    BY ParserConstants, EmptySeq
  <2>2. track \in [Workers -> [Tracks -> {"nothing", "data", "error", "spins"}]]
    BY DEF Init, Unparsed
  <2>. QED  BY <2>1, <2>2 DEF Init, TypeOK
<1>3. FilesHeld /\ ClosedAfterWork
  BY DEF Init, FilesHeld, ClosedAfterWork
<1>4. Cardinality(Holders) = 0 /\ Len(jobs) = 0
  BY <1>1, FS_EmptySet
<1>5. WaitGroupCounts
  BY <1>1, <1>4 DEF WaitGroupCounts, Holders
<1>. QED  BY <1>2, <1>3, <1>5 DEF PoolInv

\* See TypeStep, FilesHeldStep, CountStep and ClosedStep.
LEMMA PoolStep == PoolInv /\ [Next]_vars => PoolInv'
  BY TypeStep, FilesHeldStep, CountStep, ClosedStep DEF PoolInv

\* The pool's invariant: types, who holds a file, the counter, the closed channel.
THEOREM PoolInvariant == Spec => []PoolInv
  BY PoolStarts, PoolStep, PTL DEF Spec

\* TypeOK of MatchParser, for every size of the pool and of its channels.
THEOREM PoolTypeCorrect == Spec => []TypeOK
<1>1. PoolInv => TypeOK
  BY DEF PoolInv
<1>. QED  BY <1>1, PoolInvariant, PTL

\* main's wq.Add and the workers' wq.Done agree with the files under way: wq.Wait
\* returns only when every file fed has been worked off.
THEOREM PoolCounts == Spec => []WaitGroupCounts
<1>1. PoolInv => WaitGroupCounts
  BY DEF PoolInv
<1>. QED  BY <1>1, PoolInvariant, PTL

\* No worker is at or before dbChan <- fm when main has closed dbChan.
THEOREM PoolSendsBeforeClose == Spec => []NoSendAfterClose
<1>1. PoolInv => NoSendAfterClose
  BY DEF PoolInv, ClosedAfterWork, Holders, FilesHeld, NoSendAfterClose
<1>. QED  BY <1>1, PoolInvariant, PTL

-----------------------------------------------------------------------------
(***************************************************************************)
(* Every match is offered once.  A file is in one place of the pool at a   *)
(* time and never comes back to an earlier one, so what was offered cannot *)
(* be offered again; and parsed is the sum of what waits to be sent, what  *)
(* is in dbChan and what was offered, of which the first two are empty     *)
(* when the saver signals.                                                 *)
(***************************************************************************)

\* A file is in one place before it is parsed.
OnePlace ==
    /\ Distinct(jobs)
    /\ rest \cap ToSet(jobs) = {}
    /\ next \notin rest \cup ToSet(jobs)
    /\ \A w \in Holders : file[w] \notin rest \cup ToSet(jobs) \cup {next}
    /\ \A w, v \in Holders : file[w] = file[v] => w = v

\* The files of the matches that went into dbChan, and of those that will.
Seen == ToSet(dbChan) \cup ToSet(offered)
Sending == {file[w] : w \in {v \in Workers : worker[v] = "send"}}

\* A match of dbChan or of the saver is of no file still to be parsed or sent.
SentOnce ==
    /\ Distinct(dbChan) /\ Distinct(offered)
    /\ ToSet(dbChan) \cap ToSet(offered) = {}
    /\ \A f \in Seen : f \notin rest \cup ToSet(jobs) \cup {next}
    /\ \A w \in Workers : worker[w] \in {"parse", "send"} => file[w] \notin Seen

Accounted == parsed = Sending \cup Seen

\* The saver signals after the last match, and main leaves after the signal.
EndsInOrder ==
    /\ jobs_closed => main \in {"wait", "join", "exit"}
    /\ main = "exit" /\ jobs_closed => saver = "end"
    /\ saver \in {"signal", "end"} => dbChan = <<>> /\ db_closed

OfferInv == PoolInv /\ OnePlace /\ SentOnce /\ Accounted /\ EndsInOrder

\* The conjuncts of TypeOK the proofs below use.
LEMMA PoolTypes ==
  TypeOK => /\ rest \subseteq Files /\ next \in Files \cup {NoFile}
            /\ jobs \in Seq(Files) /\ dbChan \in Seq(Files) /\ offered \in Seq(Files)
            /\ worker \in [Workers -> {"receive", "parse", "send", "done", "end"}]
            /\ file \in [Workers -> Files \cup {NoFile}]
            /\ NoFile \notin Files
  BY ParserConstants DEF TypeOK

\* A sequence of files holds files.
LEMMA ElemsAreFiles == ASSUME NEW s \in Seq(Files) PROVE ToSet(s) \subseteq Files
  BY LenProperties DEF ToSet

\* A file goes on from place to place, and no step copies it.
LEMMA OnePlaceStep == PoolInv /\ OnePlace /\ [Next]_vars => OnePlace'
<1> SUFFICES ASSUME TypeOK, FilesHeld, OnePlace, [Next]_vars PROVE OnePlace'
  BY DEF PoolInv
<1>t. /\ rest \subseteq Files /\ next \in Files \cup {NoFile} /\ jobs \in Seq(Files)
      /\ file \in [Workers -> Files \cup {NoFile}] /\ NoFile \notin Files
      /\ ToSet(jobs) \subseteq Files
  BY PoolTypes, ElemsAreFiles
<1>1. CASE AddJob
  <2>1. PICK f \in rest : next' = f /\ rest' = rest \ {f}
    BY <1>1 DEF AddJob
  <2>2. jobs' = jobs /\ file' = file /\ Holders' = Holders
    BY <1>1 DEF AddJob, pool, Holders
  <2>. QED  BY <2>1, <2>2 DEF OnePlace
<1>2. CASE SendJob
  <2>1. /\ next \in Files /\ next' = NoFile /\ jobs' = Append(jobs, next)
        /\ rest' = rest /\ file' = file /\ Holders' = Holders
    BY <1>2, <1>t DEF SendJob, FilesHeld, pool, Holders
  <2>2. ToSet(jobs') = ToSet(jobs) \cup {next} /\ Distinct(jobs')
    BY <2>1, <1>t, Appended DEF OnePlace
  <2>3. \A w \in Holders : file[w] # NoFile
    BY DEF Holders
  <2>. QED  BY <2>1, <2>2, <2>3, <1>t DEF OnePlace
<1>3. ASSUME NEW w \in Workers, TakeJob(w) PROVE OnePlace'
  <2>1. /\ jobs # <<>> /\ jobs' = Tail(jobs) /\ file' = [file EXCEPT ![w] = Head(jobs)]
        /\ rest' = rest /\ next' = next
    BY <1>3 DEF TakeJob, feeding
  <2>2. /\ Head(jobs) \in Files /\ Distinct(jobs')
        /\ ToSet(jobs) = ToSet(jobs') \cup {Head(jobs)} /\ Head(jobs) \notin ToSet(jobs')
    BY <2>1, <1>t, Parted, Zenon DEF OnePlace
  <2>3. Holders' = Holders \cup {w} /\ w \notin Holders
    BY <1>3, HoldersStep
  <2>4. file'[w] = Head(jobs) /\ \A v \in Holders : file'[v] = file[v]
    BY <2>1, <2>3, <1>t DEF Holders
  <2>5. \A v \in Holders' : file'[v] \notin rest' \cup ToSet(jobs') \cup {next'}
    BY <2>1, <2>2, <2>3, <2>4 DEF OnePlace
  <2>6. \A v, u \in Holders' : file'[v] = file'[u] => v = u
    BY <2>2, <2>3, <2>4 DEF OnePlace
  <2>. QED  BY <2>1, <2>2, <2>5, <2>6 DEF OnePlace
<1>4. ASSUME NEW w \in Workers, Done(w) PROVE OnePlace'
  <2>1. jobs' = jobs /\ rest' = rest /\ next' = next /\ file' = [file EXCEPT ![w] = NoFile]
    BY <1>4 DEF Done, feeding
  <2>2. Holders' = Holders \ {w}
    BY <1>4, HoldersStep
  <2>3. \A v \in Holders' : v \in Holders /\ file'[v] = file[v]
    BY <2>1, <2>2, <1>t DEF Holders
  <2>. QED  BY <2>1, <2>3 DEF OnePlace
<1>5. CASE UNCHANGED <<rest, next, jobs, file>>
  BY <1>5 DEF OnePlace, Holders
<1>6. Start \/ CloseJobs \/ CloseDb \/ Join \/ Saver => UNCHANGED <<rest, next, jobs, file>>
  BY DEF Start, CloseJobs, CloseDb, Join, Saver, TakeMatch, SaveMatch, Signal, feeding, pool
<1>7. \A w \in Workers :
        EndWorker(w) \/ (\E g \in Tracks : Track(w, g)) \/ ParseFails(w) \/ Parse(w)
          \/ SendMatch(w) => UNCHANGED <<rest, next, jobs, file>>
  BY DEF EndWorker, Track, ParseFails, Parse, SendMatch, feeding, pool
<1>8. UNCHANGED vars => UNCHANGED <<rest, next, jobs, file>>
  BY DEF vars, feeding, pool
<1>. QED  BY <1>1, <1>2, <1>3, <1>4, <1>5, <1>6, <1>7, <1>8 DEF Next, Main, Work

\* The saver's part: a match goes from dbChan to offered.
LEMMA TakeMatchStep ==
  ASSUME TypeOK, SentOnce, Accounted, TakeMatch
  PROVE  SentOnce' /\ Accounted'
<1>t. dbChan \in Seq(Files) /\ offered \in Seq(Files)
  BY PoolTypes
<1>1. /\ dbChan # <<>> /\ dbChan' = Tail(dbChan) /\ offered' = Append(offered, Head(dbChan))
      /\ UNCHANGED <<rest, next, jobs, worker, file, parsed>>
  BY DEF TakeMatch, feeding, pool
<1>2. /\ Head(dbChan) \in Files /\ Distinct(dbChan')
      /\ ToSet(dbChan) = ToSet(dbChan') \cup {Head(dbChan)}
      /\ Head(dbChan) \notin ToSet(dbChan')
  BY <1>1, <1>t, Parted, Zenon DEF SentOnce
<1>3. Head(dbChan) \notin ToSet(offered)
  BY <1>2 DEF SentOnce
<1>4. ToSet(offered') = ToSet(offered) \cup {Head(dbChan)} /\ Distinct(offered')
  <2>1. Distinct(offered) /\ Head(dbChan) \in Files /\ offered \in Seq(Files)
    BY <1>2, <1>t DEF SentOnce
  <2>2. offered' = Append(offered, Head(dbChan))
    BY <1>1
  <2>. QED  BY <2>1, <2>2, <1>3, Appended, Zenon
<1>5. Seen' = Seen /\ Sending' = Sending
  BY <1>1, <1>2, <1>4 DEF Seen, Sending
<1>6. ToSet(dbChan') \cap ToSet(offered') = {}
  BY <1>2, <1>4 DEF SentOnce
<1>7. ToSet(jobs)' = ToSet(jobs)
  BY <1>1
<1>. QED  BY <1>1, <1>2, <1>4, <1>5, <1>6, <1>7 DEF SentOnce, Accounted

\* A worker's part: its match goes to dbChan, where its file was not yet.
LEMMA SendMatchStep ==
  ASSUME TypeOK, FilesHeld, OnePlace, SentOnce, Accounted, NEW w \in Workers, SendMatch(w)
  PROVE  SentOnce' /\ Accounted'
<1>t. /\ worker \in [Workers -> {"receive", "parse", "send", "done", "end"}]
      /\ file \in [Workers -> Files \cup {NoFile}]
      /\ dbChan \in Seq(Files) /\ NoFile \notin Files
  BY PoolTypes
<1>1. /\ worker[w] = "send" /\ worker' = [worker EXCEPT ![w] = "done"]
      /\ dbChan' = Append(dbChan, file[w])
      /\ UNCHANGED <<rest, next, jobs, file, offered, parsed>>
  BY DEF SendMatch, WorkerAt, feeding, saving
<1>2. file[w] \in Files /\ w \in Holders
  BY <1>1, <1>t DEF FilesHeld, Holders
<1>3. file[w] \notin Seen
  BY <1>1 DEF SentOnce
<1>4. ToSet(dbChan') = ToSet(dbChan) \cup {file[w]} /\ Distinct(dbChan')
  <2>1. Distinct(dbChan) /\ file[w] \in Files /\ file[w] \notin ToSet(dbChan)
    BY <1>2, <1>3 DEF SentOnce, Seen
  <2>2. dbChan' = Append(dbChan, file[w]) /\ dbChan \in Seq(Files)
    BY <1>1, <1>t
  <2>. QED  BY <2>1, <2>2, Appended, Zenon
<1>5. ToSet(jobs)' = ToSet(jobs) /\ ToSet(offered)' = ToSet(offered)
  BY <1>1
<1>6. Seen' = Seen \cup {file[w]}
  BY <1>4, <1>5 DEF Seen
<1>7. \A v \in Workers : worker'[v] \in {"parse", "send"} =>
        v # w /\ v \in Holders /\ worker[v] = worker'[v] /\ file[v] \notin Seen
  BY <1>1, <1>t DEF SentOnce, FilesHeld, Holders
<1>8. \A v \in Workers : worker'[v] \in {"parse", "send"} => file'[v] \notin Seen'
  BY <1>1, <1>2, <1>6, <1>7 DEF OnePlace
<1>9. \A f \in Seen' : f \notin rest' \cup ToSet(jobs)' \cup {next'}
  BY <1>1, <1>2, <1>5, <1>6 DEF OnePlace, SentOnce
<1>10. ToSet(dbChan') \cap ToSet(offered') = {}
  BY <1>1, <1>3, <1>4 DEF SentOnce, Seen
<1>11. Sending' \subseteq Sending /\ Sending \subseteq Sending' \cup {file[w]}
  BY <1>1, <1>t DEF Sending
<1>12. Accounted'
  <2>1. file[w] \in Sending
    BY <1>1 DEF Sending
  <2>. QED  BY <1>1, <1>6, <1>11, <2>1 DEF Accounted
<1>. QED  BY <1>1, <1>4, <1>8, <1>9, <1>10, <1>12 DEF SentOnce

\* Every step keeps the matches apart and accounted for.
LEMMA SentOnceStep ==
  PoolInv /\ OnePlace /\ SentOnce /\ Accounted /\ [Next]_vars => SentOnce' /\ Accounted'
<1> SUFFICES ASSUME TypeOK, FilesHeld, OnePlace, SentOnce, Accounted, [Next]_vars
             PROVE  SentOnce' /\ Accounted'
  BY DEF PoolInv
<1>t. /\ rest \subseteq Files /\ next \in Files \cup {NoFile} /\ jobs \in Seq(Files)
      /\ worker \in [Workers -> {"receive", "parse", "send", "done", "end"}]
      /\ file \in [Workers -> Files \cup {NoFile}] /\ NoFile \notin Files
      /\ ToSet(dbChan) \subseteq Files /\ ToSet(offered) \subseteq Files
  BY PoolTypes, ElemsAreFiles
<1>s. Seen \subseteq Files
  BY <1>t DEF Seen
\* Steps before dbChan: a file goes on from rest over next and jobs to a worker.
<1>u. ASSUME UNCHANGED <<dbChan, offered, parsed>>,
             Sending' = Sending,
             \A f \in Files : f \in rest' \cup ToSet(jobs') \cup {next'}
                                => f \in rest \cup ToSet(jobs) \cup {next},
             \A w \in Workers : worker'[w] \in {"parse", "send"} => file'[w] \notin Seen
      PROVE  SentOnce' /\ Accounted'
  <2>1. Seen' = Seen
    BY <1>u DEF Seen
  <2>2. \A f \in Seen' : f \notin rest' \cup ToSet(jobs') \cup {next'}
    BY <2>1, <1>s, <1>u DEF SentOnce
  <2>3. Distinct(dbChan') /\ Distinct(offered') /\ ToSet(dbChan') \cap ToSet(offered') = {}
    BY <1>u DEF SentOnce
  <2>4. \A w \in Workers : worker'[w] \in {"parse", "send"} => file'[w] \notin Seen'
    BY <2>1, <1>u
  <2>5. Accounted'
    BY <2>1, <1>u DEF Accounted
  <2>. QED  BY <2>2, <2>3, <2>4, <2>5 DEF SentOnce
<1>0. \A w \in Workers : worker[w] \in {"parse", "send"} => file[w] \notin Seen
  BY DEF SentOnce
<1>1. CASE AddJob
  <2>1. PICK f \in rest : next' = f /\ rest' = rest \ {f}
    BY <1>1 DEF AddJob
  <2>2. UNCHANGED <<jobs, worker, file, dbChan, offered, parsed>>
    BY <1>1 DEF AddJob, pool, saving
  <2>3. Sending' = Sending /\ ToSet(jobs') = ToSet(jobs)
    BY <2>2 DEF Sending
  <2>. QED  BY <2>1, <2>2, <2>3, <1>0, <1>u
<1>2. CASE SendJob
  <2>1. /\ next \in Files /\ next' = NoFile /\ jobs' = Append(jobs, next)
        /\ UNCHANGED <<rest, worker, file, dbChan, offered, parsed>>
    BY <1>2, <1>t DEF SendJob, FilesHeld, pool, saving
  <2>2. ToSet(jobs') = ToSet(jobs) \cup {next}
    BY <2>1, <1>t, Appended
  <2>3. Sending' = Sending
    BY <2>1 DEF Sending
  <2>. QED  BY <2>1, <2>2, <2>3, <1>0, <1>t, <1>u
<1>3. ASSUME NEW w \in Workers, TakeJob(w) PROVE SentOnce' /\ Accounted'
  <2>1. /\ jobs # <<>> /\ jobs' = Tail(jobs) /\ file' = [file EXCEPT ![w] = Head(jobs)]
        /\ worker[w] = "receive" /\ worker' = [worker EXCEPT ![w] = "parse"]
        /\ UNCHANGED <<rest, next, dbChan, offered, parsed>>
    BY <1>3 DEF TakeJob, WorkerAt, feeding, saving
  <2>2. ToSet(jobs) = ToSet(jobs') \cup {Head(jobs)}
    BY <2>1, <1>t, Parted, Zenon
  <2>3. Sending' = Sending
    BY <2>1, <1>t DEF Sending
  <2>4. Head(jobs) \notin Seen
    BY <2>2 DEF SentOnce
  <2>5. \A v \in Workers : worker'[v] \in {"parse", "send"} => file'[v] \notin Seen
    BY <2>1, <2>4, <1>0, <1>t
  <2>. QED  BY <2>1, <2>2, <2>3, <2>5, <1>u
<1>4. ASSUME NEW w \in Workers, Parse(w) PROVE SentOnce' /\ Accounted'
  <2>1. /\ worker[w] = "parse" /\ worker' = [worker EXCEPT ![w] = "send"]
        /\ parsed' = parsed \cup {file[w]}
        /\ UNCHANGED <<rest, next, jobs, file, dbChan, offered>>
    BY <1>4 DEF Parse, WorkerAt, feeding, saving
  <2>2. Sending' = Sending \cup {file[w]}
    BY <2>1, <1>t DEF Sending
  <2>3. Seen' = Seen /\ ToSet(jobs') = ToSet(jobs)
    BY <2>1 DEF Seen
  <2>4. \A v \in Workers : worker'[v] \in {"parse", "send"} => file'[v] \notin Seen'
    BY <2>1, <2>3, <1>0, <1>t
  <2>5. Accounted'
    BY <2>1, <2>2, <2>3 DEF Accounted
  <2>. QED  BY <2>1, <2>3, <2>4, <2>5 DEF SentOnce
<1>5. ASSUME NEW w \in Workers, Done(w) PROVE SentOnce' /\ Accounted'
  <2>1. /\ file' = [file EXCEPT ![w] = NoFile]
        /\ worker[w] = "done" /\ worker' = [worker EXCEPT ![w] = "receive"]
        /\ UNCHANGED <<rest, next, jobs, dbChan, offered, parsed>>
    BY <1>5 DEF Done, WorkerAt, feeding, saving
  <2>2. Sending' = Sending /\ ToSet(jobs') = ToSet(jobs)
    BY <2>1, <1>t DEF Sending
  <2>3. \A v \in Workers : worker'[v] \in {"parse", "send"} => file'[v] \notin Seen
    BY <2>1, <1>0, <1>t
  <2>. QED  BY <2>1, <2>2, <2>3, <1>u
<1>6. ASSUME NEW w \in Workers, EndWorker(w) \/ ParseFails(w) PROVE SentOnce' /\ Accounted'
  <2>1. /\ \/ worker[w] = "receive" /\ worker' = [worker EXCEPT ![w] = "end"]
           \/ worker[w] = "parse" /\ worker' = [worker EXCEPT ![w] = "done"]
        /\ UNCHANGED <<rest, next, jobs, file, dbChan, offered, parsed>>
    BY <1>6 DEF EndWorker, ParseFails, WorkerAt, feeding, saving
  <2>2. Sending' = Sending /\ ToSet(jobs') = ToSet(jobs)
    BY <2>1, <1>t DEF Sending
  <2>3. \A v \in Workers : worker'[v] \in {"parse", "send"} => file'[v] \notin Seen
    BY <2>1, <1>0, <1>t
  <2>. QED  BY <2>1, <2>2, <2>3, <1>u
<1>7. ASSUME NEW w \in Workers, SendMatch(w) PROVE SentOnce' /\ Accounted'
  BY <1>7, SendMatchStep
<1>8. CASE TakeMatch
  BY <1>8, TakeMatchStep
<1>9. CASE UNCHANGED <<rest, next, jobs, worker, file, dbChan, offered, parsed>>
  <2>1. Sending' = Sending /\ ToSet(jobs') = ToSet(jobs)
    BY <1>9 DEF Sending
  <2>. QED  BY <1>9, <2>1, <1>0, <1>u
<1>10. Start \/ CloseJobs \/ CloseDb \/ Join \/ SaveMatch \/ Signal \/ UNCHANGED vars
         => UNCHANGED <<rest, next, jobs, worker, file, dbChan, offered, parsed>>
  BY DEF Start, CloseJobs, CloseDb, Join, SaveMatch, Signal, feeding, pool, saving, vars
<1>11. \A w \in Workers : (\E g \in Tracks : Track(w, g))
         => UNCHANGED <<rest, next, jobs, worker, file, dbChan, offered, parsed>>
  BY DEF Track, feeding, saving
<1>. QED  BY <1>1, <1>2, <1>3, <1>4, <1>5, <1>6, <1>7, <1>8, <1>9, <1>10, <1>11
             DEF Next, Main, Work, Saver

\* After the saver's signal dbChan stays empty: no worker is left to send.
LEMMA EndsStep == PoolInv /\ EndsInOrder /\ [Next]_vars => EndsInOrder'
<1> SUFFICES ASSUME TypeOK, FilesHeld, ClosedAfterWork, EndsInOrder, [Next]_vars
             PROVE  EndsInOrder'
  BY DEF PoolInv
<1>1. CASE Start \/ AddJob \/ SendJob \/ CloseJobs \/ CloseDb \/ Join
  BY <1>1 DEF Start, AddJob, SendJob, CloseJobs, CloseDb, Join, EndsInOrder, ClosedAfterWork,
                saving
<1>2. CASE TakeMatch \/ SaveMatch \/ Signal
  BY <1>2 DEF TakeMatch, SaveMatch, Signal, EndsInOrder, feeding
<1>3. ASSUME NEW w \in Workers, SendMatch(w) PROVE EndsInOrder'
  <2>1. w \in Holders
    BY <1>3 DEF SendMatch, WorkerAt, FilesHeld, Holders
  <2>2. ~db_closed
    BY <2>1 DEF ClosedAfterWork
  <2>. QED  BY <1>3, <2>2 DEF SendMatch, EndsInOrder, feeding, saving
<1>4. CASE UNCHANGED <<main, jobs_closed, saver, dbChan, db_closed>>
  BY <1>4 DEF EndsInOrder
<1>5. \A w \in Workers :
        TakeJob(w) \/ EndWorker(w) \/ (\E g \in Tracks : Track(w, g)) \/ ParseFails(w)
          \/ Parse(w) \/ Done(w) => UNCHANGED <<main, jobs_closed, saver, dbChan, db_closed>>
  BY DEF TakeJob, EndWorker, Track, ParseFails, Parse, Done, feeding, saving
<1>6. UNCHANGED vars => UNCHANGED <<main, jobs_closed, saver, dbChan, db_closed>>
  BY DEF vars, feeding, saving
<1>. QED  BY <1>1, <1>2, <1>3, <1>4, <1>5, <1>6 DEF Next, Main, Work, Saver

\* The invariant holds of every run.
LEMMA OfferHolds == Spec => []OfferInv
<1>1. Init => OfferInv
  <2> SUFFICES ASSUME Init PROVE OfferInv
    OBVIOUS
  <2>1. /\ jobs = <<>> /\ dbChan = <<>> /\ offered = <<>> /\ parsed = {}
        /\ next = NoFile /\ rest = Files /\ main = "start" /\ saver = "receive"
        /\ worker = [w \in Workers |-> "receive"] /\ Holders = {}
    BY DEF Init, Holders
  <2>2. ToSet(<<>>) = {} /\ Distinct(<<>>)
    BY DEF ToSet, Distinct
  <2>3. OnePlace
    BY <2>1, <2>2, ParserConstants DEF OnePlace
  <2>4. Seen = {} /\ Sending = {}
    BY <2>1, <2>2 DEF Seen, Sending
  <2>5. SentOnce
    BY <2>1, <2>2, <2>4 DEF SentOnce
  <2>6. Accounted
    BY <2>1, <2>4 DEF Accounted
  <2>7. EndsInOrder
    BY DEF Init, EndsInOrder
  <2>. QED  BY <2>3, <2>5, <2>6, <2>7, PoolStarts DEF OfferInv
<1>2. OfferInv /\ [Next]_vars => OfferInv'
  BY PoolStep, OnePlaceStep, SentOnceStep, EndsStep DEF OfferInv
<1>. QED  BY <1>1, <1>2, PTL DEF Spec

\* EveryMatchOfferedOnce: whatever the number of files, workers and places in the
\* channels, main leaves only when every parsed match was given to saveMatch, once.
THEOREM PoolOffersEveryMatchOnce == Spec => []EveryMatchOfferedOnce
<1>1. OfferInv => EveryMatchOfferedOnce
  <2> SUFFICES ASSUME OfferInv PROVE EveryMatchOfferedOnce
    OBVIOUS
  <2>1. ASSUME main = "exit", jobs_closed PROVE parsed = ToSet(offered)
    <3>1. dbChan = <<>> /\ Holders = {}
      BY <2>1 DEF OfferInv, PoolInv, EndsInOrder, ClosedAfterWork
    <3>2. ToSet(dbChan) = {}
      BY <3>1 DEF ToSet
    <3>3. Sending = {}
      BY <3>1 DEF OfferInv, PoolInv, FilesHeld, Holders, Sending
    <3>. QED  BY <3>2, <3>3 DEF OfferInv, Accounted, Seen
  <2>2. Distinct(offered)
    BY DEF OfferInv, SentOnce
  <2>. QED  BY <2>1, <2>2 DEF EveryMatchOfferedOnce, ToSet, Distinct
<1>. QED  BY <1>1, OfferHolds, PTL

-----------------------------------------------------------------------------
(***************************************************************************)
(* The pool implements MatchBatch.  Only three kinds of steps show: a      *)
(* worker judges its file, the saver opens and ends a transaction, main    *)
(* returns.  All others pass a file on without anyone seeing it.           *)
(***************************************************************************)

\* Nothing happens before main feeds the pool.
NothingBegun ==
    main = "start" => /\ rest = Files /\ next = NoFile /\ jobs = <<>> /\ dbChan = <<>>
                      /\ Holders = {} /\ saver # "save" /\ saved = {}

\* main waits only when all files are in the pool.
AllFed == main \in {"wait", "join"} => rest = {}

BatchInv == OfferInv /\ NothingBegun /\ AllFed

\* Every step keeps what main has fed.
LEMMA BatchInvStep == BatchInv /\ [Next]_vars => BatchInv'
<1> SUFFICES ASSUME OfferInv, NothingBegun, AllFed, [Next]_vars, OfferInv'
             PROVE  NothingBegun' /\ AllFed'
  BY PoolStep, OnePlaceStep, SentOnceStep, EndsStep DEF BatchInv, OfferInv
<1>f. FilesHeld
  BY DEF OfferInv, PoolInv
<1>1. CASE Start \/ AddJob \/ SendJob \/ CloseJobs \/ CloseDb \/ Join
  BY <1>1 DEF Start, AddJob, SendJob, CloseJobs, CloseDb, Join, NothingBegun, AllFed
<1>2. ASSUME NEW w \in Workers, Work(w) PROVE NothingBegun' /\ AllFed'
  <2>1. main' = main /\ rest' = rest
    BY <1>2 DEF Work, TakeJob, EndWorker, Track, ParseFails, Parse, SendMatch, Done, feeding
  <2>2. ASSUME main = "start" PROVE NothingBegun'
    <3>1. jobs = <<>> /\ Holders = {} /\ file[w] = NoFile
      BY <2>2 DEF NothingBegun, Holders
    <3>2. worker[w] \notin {"parse", "send", "done"}
      BY <3>1, <1>f DEF FilesHeld
    <3>3. EndWorker(w)
      BY <1>2, <3>1, <3>2 DEF Work, TakeJob, Track, ParseFails, Parse, SendMatch, Done, WorkerAt
    <3>. QED  BY <3>3 DEF EndWorker, feeding, saving, NothingBegun, Holders
  <2>. QED  BY <2>1, <2>2 DEF NothingBegun, AllFed
<1>3. CASE TakeMatch \/ SaveMatch \/ Signal
  BY <1>3 DEF TakeMatch, SaveMatch, Signal, feeding, pool, NothingBegun, AllFed, Holders
<1>4. CASE UNCHANGED vars
  BY <1>4 DEF vars, feeding, pool, saving, NothingBegun, AllFed, Holders
<1>. QED  BY <1>1, <1>2, <1>3, <1>4 DEF Next, Main, Saver

\* What the batch sees of a state.
Unjudged == Before \cup FilesAt("parse")
Ready == FilesAt("send") \cup ToSet(dbChan)
Saving == IF saver = "save" THEN {match} ELSE {}

\* A step that no place of a file in the batch shows.
LEMMA UnseenStep ==
  ASSUME Unjudged' = Unjudged, Ready' = Ready,
         UNCHANGED <<saver, match, saved>>, main # "exit", main' # "exit"
  PROVE  UNCHANGED Batch!vars
BY DEF Batch!vars, Unjudged, Ready

\* A worker judges its file: it leaves the unjudged ones and becomes ready or not.
LEMMA JudgeStep ==
  ASSUME BatchInv, main # "exit", NEW w \in Workers, Parse(w) \/ ParseFails(w)
  PROVE  Batch!Judge
<1>1. TypeOK /\ FilesHeld /\ OnePlace
  BY DEF BatchInv, OfferInv, PoolInv
<1>2. /\ worker \in [Workers -> {"receive", "parse", "send", "done", "end"}]
      /\ NoFile \notin Files
  BY <1>1, PoolTypes
<1>3. /\ worker[w] = "parse"
      /\ worker' = [worker EXCEPT ![w] = "send"] \/ worker' = [worker EXCEPT ![w] = "done"]
      /\ UNCHANGED <<rest, next, jobs, file, dbChan, saver, match, saved, main>>
  BY DEF Parse, ParseFails, WorkerAt, feeding, saving
<1>4. w \in Holders /\ \A v \in Workers : worker[v] = "parse" => v \in Holders
  BY <1>1, <1>3 DEF FilesHeld, Holders
<1>5. file[w] \in Unjudged
  BY <1>3 DEF Unjudged, FilesAt
<1>6. Before' = Before /\ file[w] \notin Before
  BY <1>1, <1>3, <1>4 DEF Before, OnePlace
<1>7. FilesAt("parse")' = FilesAt("parse") \ {file[w]}
  BY <1>1, <1>2, <1>3, <1>4 DEF FilesAt, OnePlace
<1>8. Unjudged' = Unjudged \ {file[w]}
  BY <1>6, <1>7 DEF Unjudged
<1>9. Ready' \in {Ready, Ready \cup {file[w]}}
  <2>1. CASE worker' = [worker EXCEPT ![w] = "send"]
    <3>1. FilesAt("send")' = FilesAt("send") \cup {file[w]}
      BY <1>2, <1>3, <2>1 DEF FilesAt
    <3>. QED  BY <1>3, <3>1 DEF Ready
  <2>2. CASE worker' = [worker EXCEPT ![w] = "done"]
    <3>1. FilesAt("send")' = FilesAt("send")
      BY <1>2, <1>3, <2>2 DEF FilesAt
    <3>. QED  BY <1>3, <3>1 DEF Ready
  <2>. QED  BY <1>3, <2>1, <2>2
<1>10. Saving' = Saving /\ saved' = saved /\ main' = main
  BY <1>3 DEF Saving
<1>. QED  BY <1>5, <1>8, <1>9, <1>10 DEF Batch!Judge, Unjudged, Ready, Saving

\* The saver opens a transaction for a match that was ready and is not any more.
LEMMA BeginStep ==
  ASSUME BatchInv, main # "exit", TakeMatch
  PROVE  Batch!Begin
<1>1. TypeOK /\ SentOnce
  BY DEF BatchInv, OfferInv, PoolInv
<1>2. /\ saver = "receive" /\ saver' = "save"
      /\ dbChan # <<>> /\ dbChan' = Tail(dbChan) /\ match' = Head(dbChan)
      /\ UNCHANGED <<rest, next, jobs, worker, file, saved, main>>
  BY DEF TakeMatch, feeding, pool
<1>3. /\ ToSet(dbChan) = ToSet(dbChan') \cup {Head(dbChan)}
      /\ Head(dbChan) \notin ToSet(dbChan')
  BY <1>1, <1>2, PoolTypes, Parted, Zenon DEF SentOnce
<1>4. Head(dbChan) \in Seen
  BY <1>3 DEF Seen
<1>5. Head(dbChan) \notin FilesAt("send") /\ FilesAt("send")' = FilesAt("send")
  BY <1>1, <1>2, <1>4 DEF SentOnce, FilesAt
<1>6. Ready' = Ready \ {Head(dbChan)} /\ Head(dbChan) \in Ready
  BY <1>3, <1>5 DEF Ready
<1>7. Unjudged' = Unjudged
  BY <1>2 DEF Unjudged, Before, FilesAt
<1>8. Saving = {} /\ Saving' = {Head(dbChan)}
  BY <1>2 DEF Saving
<1>. QED  BY <1>2, <1>6, <1>7, <1>8 DEF Batch!Begin, Unjudged, Ready, Saving

\* The transaction ends.
LEMMA FinishStep ==
  ASSUME main # "exit", SaveMatch
  PROVE  Batch!Finish
<1>1. /\ saver = "save" /\ saver' = "receive" /\ saved' \in {saved, saved \cup {match}}
      /\ UNCHANGED <<rest, next, jobs, worker, file, dbChan, main>>
  BY DEF SaveMatch, feeding, pool
<1>2. Unjudged' = Unjudged /\ Ready' = Ready
  BY <1>1 DEF Unjudged, Ready, Before, FilesAt
<1>3. Saving = {match} /\ Saving' = {}
  BY <1>1 DEF Saving
<1>. QED  BY <1>1, <1>2, <1>3 DEF Batch!Finish, Unjudged, Ready, Saving

\* main returns after everything, or before anything.
LEMMA EndStep ==
  ASSUME BatchInv, main # "exit", main' = "exit", Start \/ Join
  PROVE  Batch!End
<1>1. /\ TypeOK /\ FilesHeld /\ ClosedAfterWork /\ EndsInOrder /\ NothingBegun /\ AllFed
  BY DEF BatchInv, OfferInv, PoolInv
<1>2. /\ saver # "save" /\ dbChan = <<>> /\ Holders = {} /\ jobs = <<>> /\ next = NoFile
      /\ saver' # "save" /\ (rest = {} \/ (rest = Files /\ saved = {}))
      /\ UNCHANGED <<rest, next, jobs, worker, file, dbChan, saved>>
  <2>1. CASE Start
    BY <1>1, <2>1 DEF Start, NothingBegun, pool, saving
  <2>2. CASE Join
    <3>1. main = "join" /\ saver = "signal" /\ saver' = "end"
          /\ UNCHANGED <<rest, next, jobs, worker, file, dbChan, saved>>
      BY <2>2 DEF Join, pool
    <3>2. db_closed /\ dbChan = <<>> /\ next = NoFile /\ rest = {}
      BY <1>1, <3>1 DEF EndsInOrder, FilesHeld, AllFed
    <3>. QED  BY <1>1, <3>1, <3>2 DEF ClosedAfterWork
  <2>. QED  BY <2>1, <2>2
<1>3. ToSet(jobs) = {} /\ ToSet(dbChan) = {}
  BY <1>2 DEF ToSet
<1>4. \A place \in {"parse", "send"} : FilesAt(place) = {}
  BY <1>1, <1>2 DEF FilesAt, FilesHeld, Holders
<1>5. Ready = {} /\ Unjudged = rest
  BY <1>2, <1>3, <1>4 DEF Ready, Unjudged, Before
<1>6. Unjudged' = Unjudged /\ Ready' = Ready
  BY <1>2 DEF Unjudged, Ready, Before, FilesAt
<1>7. Saving = {} /\ Saving' = {}
  BY <1>2 DEF Saving
<1>. QED  BY <1>2, <1>5, <1>6, <1>7 DEF Batch!End, Unjudged, Ready, Saving

\* A file that is passed on stays as much judged as it was.
LEMMA PassStep ==
  ASSUME BatchInv, main # "exit",
         \/ Start \/ AddJob \/ SendJob \/ CloseJobs \/ CloseDb \/ Signal
         \/ \E w \in Workers : TakeJob(w) \/ EndWorker(w) \/ SendMatch(w) \/ Done(w)
                                \/ \E g \in Tracks : Track(w, g),
         main' # "exit"
  PROVE  UNCHANGED Batch!vars
<1>1. TypeOK /\ FilesHeld
  BY DEF BatchInv, OfferInv, PoolInv
<1>2. /\ rest \subseteq Files /\ next \in Files \cup {NoFile}
      /\ jobs \in Seq(Files) /\ dbChan \in Seq(Files)
      /\ worker \in [Workers -> {"receive", "parse", "send", "done", "end"}]
      /\ file \in [Workers -> Files \cup {NoFile}]
      /\ NoFile \notin Files
  BY <1>1, PoolTypes
<1>3. CASE UNCHANGED <<rest, next, jobs, worker, file, dbChan, saver, match, saved>>
  <2>1. Unjudged' = Unjudged /\ Ready' = Ready
    BY <1>3 DEF Unjudged, Ready, Before, FilesAt
  <2>. QED  BY <1>3, <2>1, UnseenStep
<1>4. CASE Start \/ CloseJobs \/ CloseDb
  BY <1>3, <1>4 DEF Start, CloseJobs, CloseDb, pool, saving
<1>5. CASE AddJob
  <2>1. PICK f \in rest : next' = f /\ rest' = rest \ {f}
    BY <1>5 DEF AddJob
  <2>2. next = NoFile /\ f # NoFile
    BY <1>1, <1>2, <1>5 DEF AddJob, FilesHeld
  <2>3. UNCHANGED <<jobs, worker, file, dbChan, saver, match, saved>>
    BY <1>5 DEF AddJob, pool, saving
  <2>4. Before' = Before
    BY <2>1, <2>2, <2>3 DEF Before
  <2>5. Unjudged' = Unjudged /\ Ready' = Ready
    BY <2>3, <2>4 DEF Unjudged, Ready, FilesAt
  <2>. QED  BY <2>3, <2>5, UnseenStep
<1>6. CASE SendJob
  <2>1. /\ next \in Files /\ next' = NoFile /\ jobs' = Append(jobs, next)
        /\ UNCHANGED <<rest, worker, file, dbChan, saver, match, saved>>
    BY <1>1, <1>2, <1>6 DEF SendJob, FilesHeld, pool, saving
  <2>2. ToSet(jobs') = ToSet(jobs) \cup {next}
    BY <1>2, <2>1, Appended
  <2>3. Before' = Before
    BY <1>2, <2>1, <2>2 DEF Before
  <2>4. Unjudged' = Unjudged /\ Ready' = Ready
    BY <2>1, <2>3 DEF Unjudged, Ready, FilesAt
  <2>. QED  BY <2>1, <2>4, UnseenStep
<1>7. CASE Signal
  <2>1. /\ saver = "receive" /\ saver' = "signal"
        /\ UNCHANGED <<rest, next, jobs, worker, file, dbChan, match, saved>>
    BY <1>7 DEF Signal, feeding, pool
  <2>2. Unjudged' = Unjudged /\ Ready' = Ready /\ Saving' = Saving
    BY <2>1 DEF Unjudged, Ready, Saving, Before, FilesAt
  <2>. QED  BY <2>1, <2>2 DEF Batch!vars, Unjudged, Ready, Saving
<1>8. ASSUME NEW w \in Workers, TakeJob(w) PROVE UNCHANGED Batch!vars
  <2>1. /\ worker[w] = "receive" /\ worker' = [worker EXCEPT ![w] = "parse"]
        /\ jobs # <<>> /\ jobs' = Tail(jobs) /\ file' = [file EXCEPT ![w] = Head(jobs)]
        /\ UNCHANGED <<rest, next, dbChan, saver, match, saved>>
    BY <1>8 DEF TakeJob, WorkerAt, feeding, saving
  <2>2. ToSet(jobs) = ToSet(jobs') \cup {Head(jobs)}
    BY <1>2, <2>1, Parted, Zenon
  <2>3. FilesAt("parse")' = FilesAt("parse") \cup {Head(jobs)}
    BY <1>2, <2>1 DEF FilesAt
  <2>4. FilesAt("send")' = FilesAt("send")
    BY <1>2, <2>1 DEF FilesAt
  <2>5. Unjudged' = Unjudged
    BY <2>1, <2>2, <2>3 DEF Unjudged, Before
  <2>6. Ready' = Ready
    BY <2>1, <2>4 DEF Ready
  <2>. QED  BY <2>1, <2>5, <2>6, UnseenStep
<1>9. ASSUME NEW w \in Workers, SendMatch(w) PROVE UNCHANGED Batch!vars
  <2>1. /\ worker[w] = "send" /\ worker' = [worker EXCEPT ![w] = "done"]
        /\ dbChan' = Append(dbChan, file[w]) /\ file[w] \in Files
        /\ UNCHANGED <<rest, next, jobs, file, saver, match, saved>>
    BY <1>1, <1>2, <1>9 DEF SendMatch, WorkerAt, FilesHeld, feeding, saving
  <2>2. ToSet(dbChan') = ToSet(dbChan) \cup {file[w]}
    BY <1>2, <2>1, Appended
  <2>3. FilesAt("send") = FilesAt("send")' \cup {file[w]}
    BY <1>2, <2>1 DEF FilesAt
  <2>4. FilesAt("parse")' = FilesAt("parse")
    BY <1>2, <2>1 DEF FilesAt
  <2>5. Unjudged' = Unjudged
    BY <2>1, <2>4 DEF Unjudged, Before
  <2>6. Ready' = Ready
    BY <2>2, <2>3 DEF Ready
  <2>. QED  BY <2>1, <2>5, <2>6, UnseenStep
<1>10. ASSUME NEW w \in Workers, Done(w) \/ EndWorker(w) PROVE UNCHANGED Batch!vars
  <2>1. /\ worker[w] \in {"done", "receive"}
        /\ worker' = [worker EXCEPT ![w] = "receive"] \/ worker' = [worker EXCEPT ![w] = "end"]
        /\ file' = file \/ file' = [file EXCEPT ![w] = NoFile]
        /\ UNCHANGED <<rest, next, jobs, dbChan, saver, match, saved>>
    BY <1>10 DEF Done, EndWorker, WorkerAt, feeding, saving
  <2>2. \A v \in Workers : \A place \in {"parse", "send"} :
          /\ worker'[v] = place <=> worker[v] = place
          /\ worker[v] = place => file'[v] = file[v]
    BY <1>2, <2>1
  <2>3. \A place \in {"parse", "send"} : FilesAt(place)' = FilesAt(place)
    BY <2>2 DEF FilesAt
  <2>4. Unjudged' = Unjudged /\ Ready' = Ready
    BY <2>1, <2>3 DEF Unjudged, Ready, Before
  <2>. QED  BY <2>1, <2>4, UnseenStep
<1>11. ASSUME NEW w \in Workers, NEW g \in Tracks, Track(w, g) PROVE UNCHANGED Batch!vars
  BY <1>3, <1>11 DEF Track, feeding, saving
<1>. QED  BY <1>4, <1>5, <1>6, <1>7, <1>8, <1>9, <1>10, <1>11

\* Every step of the pool is one of the batch, or does not show.
LEMMA PoolStepIsBatchStep == BatchInv /\ [Next]_vars => [Batch!Next]_(Batch!vars)
<1> SUFFICES ASSUME BatchInv, [Next]_vars PROVE Batch!Next \/ UNCHANGED Batch!vars
  OBVIOUS
<1>1. CASE UNCHANGED vars
  BY <1>1 DEF vars, feeding, pool, saving, Batch!vars, Before, FilesAt
<1>2. CASE Next
  <2>0. main # "exit"
    BY <1>2 DEF Next
  <2>1. CASE Start \/ Join
    <3>1. Start => main' # "exit" \/ main' = "exit"
      OBVIOUS
    <3>2. Join => main' = "exit"
      BY DEF Join
    <3>. QED  BY <2>0, <2>1, <3>1, <3>2, EndStep, PassStep DEF Batch!Next
  <2>2. CASE AddJob \/ SendJob \/ CloseJobs \/ CloseDb \/ Signal
    <3>1. main' # "exit"
      BY <2>0, <2>2 DEF AddJob, SendJob, CloseJobs, CloseDb, Signal, feeding
    <3>. QED  BY <2>0, <2>2, <3>1, PassStep
  <2>3. CASE TakeMatch \/ SaveMatch
    BY <2>0, <2>3, BeginStep, FinishStep DEF Batch!Next
  <2>4. ASSUME NEW w \in Workers, Work(w) PROVE Batch!Next \/ UNCHANGED Batch!vars
    <3>1. CASE Parse(w) \/ ParseFails(w)
      BY <2>0, <3>1, JudgeStep DEF Batch!Next
    <3>2. CASE TakeJob(w) \/ EndWorker(w) \/ SendMatch(w) \/ Done(w)
                 \/ \E g \in Tracks : Track(w, g)
      <4>1. main' # "exit"
        BY <2>0, <3>2 DEF TakeJob, EndWorker, SendMatch, Done, Track, feeding
      <4>. QED  BY <2>0, <3>2, <4>1, PassStep
    <3>. QED  BY <2>4, <3>1, <3>2 DEF Work
  <2>. QED  BY <1>2, <2>1, <2>2, <2>3, <2>4 DEF Next, Main, Saver
<1>. QED  BY <1>1, <1>2

\* The pool keeps the promise of MatchBatch: however main, workers and saver
\* interleave, every file is judged once, every parsed match gets one transaction,
\* and main returns when no match is under way and no transaction is open.
THEOREM PoolImplementsBatch == Spec => ImplementsBatch
<1>1. Init => Batch!Init
  <2> SUFFICES ASSUME Init PROVE Batch!Init
    OBVIOUS
  <2>1. /\ rest = Files /\ next = NoFile /\ jobs = <<>> /\ dbChan = <<>>
        /\ worker = [w \in Workers |-> "receive"] /\ saver = "receive"
        /\ saved = {} /\ main = "start"
    BY DEF Init
  <2>2. ToSet(<<>>) = {}
    BY DEF ToSet
  <2>3. \A place \in {"parse", "send"} : FilesAt(place) = {}
    BY <2>1 DEF FilesAt
  <2>4. Before = Files
    BY <2>1, <2>2 DEF Before
  <2>. QED  BY <2>1, <2>2, <2>3, <2>4 DEF Batch!Init
<1>2. Init => NothingBegun /\ AllFed
  BY DEF Init, NothingBegun, AllFed, Holders
<1>3. Spec => []BatchInv
  <2>1. Init /\ OfferInv => BatchInv
    BY <1>2 DEF BatchInv
  <2>. QED  BY <2>1, BatchInvStep, OfferHolds, PTL DEF Spec
<1>4. BatchInv /\ [Next]_vars => [Batch!Next]_(Batch!vars)
  BY PoolStepIsBatchStep
<1>. QED  BY <1>1, <1>3, <1>4, PTL DEF Spec, ImplementsBatch, Batch!Spec

=============================================================================
