---------------------------- MODULE MatchDataset ----------------------------
(***************************************************************************)
(* How src/data/parser turns the log of one match into rows of the dataset.*)
(* The same log is read twice: ParseGeneralWorker (general.go) builds one  *)
(* frame per second with the heroes in it and labels a hero's frames when  *)
(* it dies later, ParseVisionWorker (vision.go) builds one snapshot of the *)
(* visible enemies per second.  saveMatch (postgres/worker.go) joins the   *)
(* two by INDEX, samples the frames of every hero and saves the rows in    *)
(* one transaction.                                                        *)
(*                                                                         *)
(* A log line is the second it is stamped with, its kind and a hero.  The  *)
(* log has two names for a hero.  Interval lines name its class, which     *)
(* NormalizeHeroName turns into npc_dota_hero_crystalmaiden; this is the   *)
(* name in the frames, and in the model the hero itself.  The combat log   *)
(* writes npc_dota_hero_crystal_maiden, and a death line is compared with  *)
(* the frames by that name as it is: TargetName.                           *)
(*                                                                         *)
(* What a frame tells about a hero besides its presence and its labels     *)
(* (items, attributes, position, what it saw last) is left out.  The       *)
(* seconds of a log do not decrease, except for lines stamped before the   *)
(* start of the game that come when it has been running (the epilogue),    *)
(* and a second has at most one interval line of a hero.                   *)
(***************************************************************************)
EXTENDS Integers, Sequences, FiniteSets, SequencesExt, FiniteSetsExt

CONSTANTS Heroes,      \* the heroes of the match, by their names in the frames
          TargetName,  \* the name each of them has in the combat log
          Horizons,    \* labels: the hero dies within so many seconds
          PreGame,     \* bound: seconds of a log before the game starts ...
          LastTime,    \* ... and its last second
          MaxDeaths,   \* bound: deaths in a log
          MaxSafe      \* rows saved of frames without a label

ASSUME HorizonsAssumption ==
  /\ Horizons # {} /\ Horizons \subseteq (Nat \ {0}) /\ IsFiniteSet(Horizons)
  /\ PreGame \in Nat /\ LastTime \in Nat
  /\ MaxDeaths \in Nat /\ MaxSafe \in Nat
  /\ PreGame < 9999   \* no second of a log is NoSnapshot

\* heroNames.json has for each hero one of the two spellings or both, and no
\* spelling is that of two heroes.
ASSUME NamesAssumption ==
  \A h, o \in Heroes : TargetName[h] = o => h = o

VARIABLES
  frame,     \* currentFrame: << >>, or the one frame being filled
  results,   \* the closed frames of ParseGeneralWorker
  last,      \* lastProcessedTime
  vision,    \* the seconds of the snapshots of ParseVisionWorker
  lastSnap,  \* lastTimeInt of ParseVisionWorker
  deaths,    \* history: <<hero, second>> of the deaths that were read
  phase,     \* "parse", "scan", "save" or "end"
  todo,      \* heroes that saveMatch has not scanned yet
  hero,      \* the one it scans: {} between two heroes
  tick,      \* the index it has reached
  lists,     \* ticks1 ... ticks20: the ticks of the open window, by label
  dying,     \* wasDying
  safe,      \* safeCandidates
  saveMap,   \* <<tick, hero>> chosen to be saved
  db         \* the rows of this match in dataset.match_features

parse == <<frame, results, last, vision, lastSnap, deaths>>
scan == <<todo, hero, tick, lists, dying, safe, saveMap>>
vars == <<parse, phase, scan, db>>

NotStarted == -99999
NoSnapshot == -9999

NoLabels == [h \in Heroes |-> {}]
NoTicks == [n \in Horizons |-> {}]
\* Mutant of EmptyFrame: the labels are left unset.
EmptyFrameUntyped(t) == [time |-> t, heroes |-> {}, dead |-> << >>]

EmptyFrame(t) == [time |-> t, heroes |-> {}, dead |-> NoLabels]

Init ==
  /\ frame = << >> /\ results = << >> /\ last = NotStarted
  /\ vision = << >> /\ lastSnap = NoSnapshot
  /\ deaths = {} /\ phase = "parse"
  /\ todo = {} /\ hero = {} /\ tick = 1 /\ lists = NoTicks /\ dying = FALSE
  /\ safe = {} /\ saveMap = {} /\ db = {}

-----------------------------------------------------------------------------
(* Reading the log.                                                        *)

Seconds(from, to) == [k \in 1..(to - from - 1) |-> from + k]

\* Mutant of Skipped: the check is left out.
SkippedNever(t) == FALSE

\* A line stamped before the start of the game, in a game that has started.
Skipped(t) == t < 0 /\ last > 0

\* The frames closed when a line of second t is read: the current one if it
\* is of another second, and an empty one for each second without a line.
Closed(t) ==
  LET gap == Seconds(IF frame = << >> THEN t ELSE frame[1].time, t)
  IN  IF frame # << >> /\ frame[1].time = t THEN results
      ELSE results \o frame \o [k \in DOMAIN gap |-> EmptyFrame(gap[k])]

\* Mutant of Labelled: the index counts from the start of the game.
LabelledFromZero(rs, name, t) ==
  [k \in DOMAIN rs |->
     LET i == t - (k - 1)
     IN  IF i >= 1 /\ name \in rs[k].heroes
         THEN [rs[k] EXCEPT !.dead[name] = @ \cup {n \in Horizons : i <= n}]
         ELSE rs[k]]

\* appendDeathPredict: the closed frames before second t, found by their
\* distance to the first one, get the labels of the hero of this name, if they
\* have one.
Labelled(rs, name, t) ==
  [k \in DOMAIN rs |->
     LET i == (t - rs[1].time) - (k - 1)
     IN  IF i >= 1 /\ name \in rs[k].heroes
         THEN [rs[k] EXCEPT !.dead[name] = @ \cup {n \in Horizons : i <= n}]
         ELSE rs[k]]

\* ParseVisionWorker for the same line.
Snapshot(t) ==
  /\ vision' = IF t <= lastSnap THEN vision
               ELSE IF lastSnap = NoSnapshot THEN << t >>
               ELSE Append(vision \o Seconds(lastSnap, t), t)
  /\ lastSnap' = Max({lastSnap, t})

\* One line of the log: an interval line puts h in the current frame, a death
\* line labels the frames before it that have a hero of the target's name, any
\* other line only moves the time.
Line(t, kind, h) ==
  LET here == IF frame # << >> /\ frame[1].time = t THEN frame[1] ELSE EmptyFrame(t)
  IN  /\ IF Skipped(t) THEN UNCHANGED <<frame, results, last, deaths>>
         ELSE /\ last' = t
              /\ results' = IF kind = "death" THEN Labelled(Closed(t), TargetName[h], t)
                            ELSE Closed(t)
              /\ frame' = << IF kind = "interval"
                             THEN [here EXCEPT !.heroes = @ \cup {h}] ELSE here >>
              /\ deaths' = IF kind = "death" THEN deaths \cup {<<h, t>>} ELSE deaths
      /\ Snapshot(t)

\* The order of a log.
NextSecond(t) ==
  \/ vision = << >>
  \/ t >= lastSnap
  \/ t < 0 /\ lastSnap > 0

ReadLine ==
  /\ phase = "parse"
  /\ \E t \in -PreGame..LastTime, kind \in {"interval", "death", "other"}, h \in Heroes :
       /\ NextSecond(t)
       /\ kind = "interval" /\ frame # << >> =>
            ~(frame[1].time = t /\ h \in frame[1].heroes)
       /\ kind = "death" => Cardinality(deaths) < MaxDeaths
       /\ Line(t, kind, h)
  /\ UNCHANGED <<phase, scan, db>>

\* The end of the log closes the last frame.  saveMatch takes the heroes of
\* the first frame of the game, and no others.
Ticks(rs) == 1..Min({Len(rs), Len(vision)})
FirstOfGame(rs) ==
  LET game == {k \in Ticks(rs) : rs[k].time >= 0}
  IN  IF game = {} THEN {} ELSE rs[Min(game)].heroes

EndOfLog ==
  /\ phase = "parse" /\ frame # << >>
  /\ results' = results \o frame
  /\ frame' = << >>
  /\ todo' = FirstOfGame(results')
  /\ phase' = "scan"
  /\ UNCHANGED <<last, vision, lastSnap, deaths, hero, tick, lists, dying, safe, saveMap, db>>

-----------------------------------------------------------------------------
(* saveMatch: one pass over the ticks for each hero.                       *)

NextHero ==
  /\ phase = "scan" /\ hero = {}
  /\ \E h \in todo : hero' = {h} /\ todo' = todo \ {h}
  /\ tick' = 1 /\ lists' = NoTicks /\ dying' = FALSE
  /\ UNCHANGED <<parse, phase, safe, saveMap, db>>

\* pickOneRandomTick for every list that is not empty.
Picks == {p \in [{n \in Horizons : lists[n] # {}} -> Ticks(results)] :
            \A n \in DOMAIN p : p[n] \in lists[n]}

\* Mutant of EndWindow: the lists are not emptied.
EndWindowKept(h) ==
  IF dying
  THEN /\ \E p \in Picks : saveMap' = saveMap \cup {<<p[n], h>> : n \in DOMAIN p}
       /\ dying' = FALSE /\ UNCHANGED lists
  ELSE UNCHANGED <<saveMap, lists, dying>>

EndWindow(h) ==
  IF dying
  THEN /\ \E p \in Picks : saveMap' = saveMap \cup {<<p[n], h>> : n \in DOMAIN p}
       /\ lists' = NoTicks /\ dying' = FALSE
  ELSE UNCHANGED <<saveMap, lists, dying>>

\* One tick of the scan: a frame before the game or without the hero says
\* nothing, a labelled one joins the list of its smallest label, any other
\* ends the window and is a candidate itself.
ScanTick ==
  /\ phase = "scan" /\ tick \in Ticks(results)
  /\ \E h \in hero :
       LET f == results[tick] IN
       \/ /\ f.time < 0 \/ h \notin f.heroes
          /\ UNCHANGED <<lists, dying, safe, saveMap>>
       \/ /\ f.time >= 0 /\ h \in f.heroes /\ f.dead[h] # {}
          /\ dying' = TRUE
          /\ lists' = [lists EXCEPT ![Min(f.dead[h])] = @ \cup {tick}]
          /\ UNCHANGED <<safe, saveMap>>
       \/ /\ f.time >= 0 /\ h \in f.heroes /\ f.dead[h] = {}
          /\ EndWindow(h)
          /\ safe' = safe \cup {<<tick, h>>}
  /\ tick' = tick + 1
  /\ UNCHANGED <<parse, phase, todo, hero, db>>

\* The lists of a window that the match leaves open are dropped.
EndHero ==
  /\ phase = "scan" /\ hero # {} /\ tick \notin Ticks(results)
  /\ hero' = {}
  /\ UNCHANGED <<parse, phase, todo, tick, lists, dying, safe, saveMap, db>>

\* The shuffle, and the first MaxSafe candidates of it.
ChooseSafe ==
  /\ phase = "scan" /\ hero = {} /\ todo = {}
  /\ \E s \in kSubset(Min({MaxSafe, Cardinality(safe)}), safe) :
       saveMap' = saveMap \cup s
  /\ phase' = "save"
  /\ UNCHANGED <<parse, todo, hero, tick, lists, dying, safe, db>>

\* The transaction: every chosen row joined with the snapshot of its index,
\* or none when a statement fails and the deferred Rollback runs.
Row(k, h) == [tick |-> k, hero |-> h, time |-> results[k].time,
              seen |-> vision[k], dead |-> results[k].dead[h]]

Commit ==
  /\ phase = "save" /\ phase' = "end"
  /\ db' = {Row(s[1], s[2]) : s \in saveMap}
  /\ UNCHANGED <<parse, scan>>

Rollback ==
  /\ phase = "save" /\ phase' = "end"
  /\ UNCHANGED <<parse, scan, db>>

Next == ReadLine \/ EndOfLog \/ NextHero \/ ScanTick \/ EndHero
          \/ ChooseSafe \/ Commit \/ Rollback

Spec == Init /\ [][Next]_vars

-----------------------------------------------------------------------------
FrameType == [time : Int, heroes : SUBSET Heroes, dead : [Heroes -> SUBSET Horizons]]

\* The types of the parsed frames and of the state of the scan.
TypeOK ==
  /\ results \in Seq(FrameType) /\ frame \in Seq(FrameType) /\ Len(frame) <= 1
  /\ vision \in Seq(Int) /\ {last, lastSnap} \subseteq Int
  /\ deaths \subseteq Heroes \X Int
  /\ phase \in {"parse", "scan", "save", "end"}
  /\ todo \subseteq Heroes /\ hero \subseteq Heroes /\ tick \in Nat
  /\ lists \in [Horizons -> SUBSET Nat] /\ dying \in BOOLEAN
  /\ safe \subseteq Nat \X Heroes /\ saveMap \subseteq Nat \X Heroes
  /\ \A r \in db : r.time \in Int

\* saveMatch joins fm.General[i] with fm.VisionDire[i] and VisionRadiant[i]
\* (postgres/worker.go:177-183) and appendDeathPredict finds a frame by its distance to
\* the first one.  Both need what the two parsers never compare: frame k of
\* one and snapshot k of the other are of the same second, whatever seconds
\* the log left out.
FramesAligned ==
  LET frames == results \o frame
  IN  /\ Len(frames) = Len(vision)
      /\ \A k \in DOMAIN frames :
           frames[k].time = vision[k] /\ vision[k] = vision[1] + k - 1

\* A frame of a hero whom the combat log calls by the name in the frames carries
\* the label n exactly when a death of the hero was read 1 to n seconds later: none
\* is missed over a gap in the log, none is set on the second of the death or after
\* it.  A frame of any other hero carries no label, whenever the hero dies, and none
\* that is due to another one: general.go:663 compares the name of the death line
\* (499) with the lower-cased class (549) as it is.
LabelsExact ==
  \A k \in DOMAIN results : \A h \in results[k].heroes :
    results[k].dead[h] =
      {n \in Horizons : /\ TargetName[h] = h
                        /\ \E d \in deaths :
                             d[1] = h /\ d[2] - results[k].time \in 1..n}

\* The ticks of the game that show h, and those of them with a label.
Shown(h) == {k \in DOMAIN results : results[k].time >= 0 /\ h \in results[k].heroes}
Doomed(h) == {k \in Shown(h) : results[k].dead[h] # {}}
SameWindow(h, k, j) ==
  \A i \in Shown(h) \ Doomed(h) : ~(i \in Min({k, j})..Max({k, j}))
Ended(h, k) == \E i \in Shown(h) \ Doomed(h) : i > k

\* Of a match that is saved, every run of labelled frames that a frame without
\* a label follows gives exactly one row for each smallest label in it; a run
\* the match leaves open gives none; and no more than MaxSafe rows are of
\* frames without a label.
SampledOncePerWindow ==
  db # {} =>
    /\ \A h \in FirstOfGame(results) : \A k \in Doomed(h) :
         LET peers == {r \in db : /\ r.hero = h /\ r.dead # {}
                                  /\ Min(r.dead) = Min(results[k].dead[h])
                                  /\ SameWindow(h, r.tick, k)}
         IN  Cardinality(peers) = IF Ended(h, k) THEN 1 ELSE 0
    /\ Cardinality({r \in db : r.dead = {}}) <= MaxSafe

=============================================================================
