# Verification of ml-in-dota

TLA+ models of the repository's own logic, checked with TLC on small instances.
The safety properties of the inference worker, the session API, the prediction
stream, gsi_processor's memory, the grid, the parser pool, the dataset (frames,
labels and sampling) and the replay collection are also proved with TLAPS, for every value of the constants.
`PROJECT.json` lists the runs, the lines each definition stands
for, the hazards, the findings and the theorems. Source paths below are
relative to `src/`.

To check a module: `tlc -config worker_loop.cfg MCInferenceWorker`; to check the
proofs: `tlapm InferenceWorkerProofs.tla`, and likewise each `*Proofs.tla`.

## 1. The system

A player opens the **front** and presses Start. The **BFF** stores the session
in Redis. Dota 2 posts the state of the game (GSI) to **gsi_processor**, which
turns it into a record of features and appends it to a Redis stream. The
**inference** worker reads the stream, predicts for a neighbourhood of map
squares how likely the player's hero is to die there, and writes a heatmap. The
BFF's **hub** polls the heatmap and sends it to the page over a WebSocket.
Offline, a notebook **collects replays** of past matches and the **parser** turns
their logs into a training dataset.

```
 front --POST /api/start,/api/stop--> BFF handlers --SET/DEL/XDEL--> Redis
 front <--------WebSocket frames----- BFF hub      <--GET heat_map-- Redis
 Dota  --POST gsi--> gsi_processor --GET active, GET/SET snapshot, XADD--> Redis
 Redis --XREADGROUP inference:input--> worker --SET heat_map, XADD output--> Redis
 OpenDota --notebook cells--> match_ids, replays, parses (files)
 parses (match logs) --> parser pool --> frames, labels, samples --> PostgreSQL
```

All services meet in Redis only. The keys are `active:<token>`,
`prediction-config:<token>`, `snapshot:<token>:current`, `heat_map:<token>`,
and the streams `inference:input` and `inference:output`.

| Component | State | Operations | What is hard | What makes it correct |
|---|---|---|---|---|
| inference worker (`services/inference/scr/services/worker.py`, `infra/redis.py`) | the stream, its consumer group, heatmaps; a call's batch | `process_once` from the loop and from `POST /inference/run-once`; crash, restart | two readers under one consumer name, awaits between calls, failed calls, the other services writing its keys | a record gets at most one result; nothing unanswered is acknowledged; heatmaps agree with results and do not go back; the loop goes on |
| session API (`services/bff/internal/handlers`, `redisclient/client.go`) | session and config keys with TTL; a request's progress | start, stop (DEL, two SCANs, XRANGE/XDEL/XACK on two streams) | partial failure of many calls, other writers, expiry | an active session has its client's config; "stopped" means erased |
| prediction stream (`services/bff/internal/ws`, front's `App.tsx`, `usePredictionStream.ts`) | sockets, hub goroutines, what the page shows | toggle, socket events, ticks | late events of old sockets, failing reads, clients that go away | what is shown is the running session's; no session or stream is lost silently; streams end |
| gsi_processor (`services/gsi_processor/scr`) | snapshot of enemies last seen; a request's locals | the request handler | overlapping requests over one snapshot, failed calls, expiry | memory is the session's own and counts its records |
| grid geometry (`formulas.py`, `worker.py`, `HeatmapCanvas.tsx`) | none | position to square, square to centre, neighbourhood, square to pixel | three implementations in three languages; edges | they agree |
| parser pool (`data/parser/main.go`, `postgres/worker.go`) | two channels, two WaitGroups, goroutines | feed, parse, save, close | who waits for whom; errors, panics | it ends, and every parsed match is offered once to the database |
| parser frames, labels, sampling (`utils/general.go`, `utils/vision.go`, `saveMatch`) | frames by second; ticks of the open window | a line of the log, the scan, the transaction | two parsers joined by index, gaps, late lines, index arithmetic | frames aligned, labels exact for the heroes with one name and absent for the others, one sample per window and label |
| replay collection (`data/data_scrtipts/produce_dataset.ipynb`) | files: ids, the book, archives, replays, parses | cells: crawl, merge, download, decompress, parse | cells run again in any order, broken off or killed in the middle of a write, refused by services; a file that is there counts as finished | the crawl passes over nothing; what is whole and of use stays; every match of the book gets its parse unless a file was left cut off |
| parser vision (`utils/vision.go`) | units, wards, last-seen data | update, visibility | the zero time as "never seen" | not modelled |
| front panels, service wiring, models, test double, tables, scripts, other notebooks | see `PROJECT.json` | | | not modelled |

## 2. The modules

Conventions: an action is a handler, or the part of it between two awaits or
Redis calls, with the name of the code's function where it has one. A `*Fails`
alternative or a choice over outcomes stands for a call that fails; unless a
module says otherwise a failed Redis call **may or may not have taken effect, at
the latest when the caller learns of the failure**, and is not sent again.
Definitions commented `Mutant of ...` are plausible mistakes in the code. They
are not part of any specification: each shows that a property can fail.

### InferenceWorker, RedisStreams, AtMostOnceQueue

`InferenceWorker` cuts `process_once` at each await: `Read` (`pop_raw_messages`),
`Predict` (the loop body up to the heatmap), `SetHeatmap`, `Push`
(`push_results`, a sequence of XADDs that can stop half way), `Ack`, `Delete`,
and `Abandon`, the `except`/`finally` path. `pc[p]` says where the call `p`
stands, `raw`, `todo` and `made` are its `raw_records`, the items not worked
off and `all_results`. `Loop` is `run_forever`, the other callers are HTTP
requests. A heatmap remembers the record and the config it was made from; so
does a result. The other services appear as what they may do to the worker's
keys at any time (`Others`): enqueue, trim, put a config, erase keys and entries.
`RedisStreams` holds what a stream and a consumer group do (external).

`AtMostOnceQueue` is the abstract specification: records are submitted, taken
first come first served, answered at most once by whoever took them, and may be
lost. `ImplementsQueue` maps the worker to it: `waiting` is what the group has
not delivered, `held` what some call may still answer, `answered` the ids with a
result. Loss is allowed because the code reads `">"` only: what a crash leaves
in the pending list is never read again, and no line promises it would be.

### SessionApi

Each request stands before one Redis call (`at`), with the keys of its last
SCAN (`found`) and the entries of its last XRANGE (`ids`). Ticks let the two
keys with a TTL expire. `touched` and `shared` are history variables: somebody
wrote to the session, or sent another request for it, since the request came in.
A SCAN is taken as one atomic read, and a stream as read whole: the code asks
for pages and merges them, and keys or entries that exist all the time are
returned.

### PredictionStream

`Toggle` is `App.onToggle` from click to answer; `Rerun` is `setToken` followed
by the effect of `usePredictionStream`: the cleanup closes the old socket and
the new effect opens one or resets what is shown. `OnOpen`, `OnMessage` and
`OnClose` are the events of every socket, also of one that is still closing.
`Accept` and `Tick` are the hub's goroutine: the interval is read once, then
each tick reads the session's heatmap, or the one under the base key, and
writes it if there is one.

### GsiProcessor

A request passes `CheckActive`, `Load` (`get_previous_snapshot`, then the
features), `Enqueue`, `TrimInput`, `Save`. `Merge` is `_build_enemy_snapshots`
with its keys as the code has them: hero ids for what is remembered, unit names
for what is in sight. `seen` is the history of the sightings a session reported.

### GridCells

`CellId`, `CellCentre`, `Candidates` and `Pixel` are the four computations. The
state is a position and a session's config, so that TLC goes through all pairs.
Integer arithmetic is exact: for the bounds in use, a whole coordinate lies on a
border only where the float quotient is exact too. Squares are at least two units
wide (`SquaresAreWide`; on the real map they are over 500): the centre is rounded to a
whole coordinate, which in a narrower square could be outside it.

### MatchParser, MatchBatch

`Main` feeds `jobs`, waits for the WaitGroup, closes `dbChan` and waits for the
saver; `Work` is `workerParse` with the goroutines of `makeOneMatch` (`track`);
`Saver` is `SaveWorker`. `Broken` are files whose decoder does not get past an
error.

`MatchBatch` is the abstract specification, without channels and goroutines: a match
is judged once, a good one gets one transaction, and the run ends when nothing is
left to do, or before anything was begun. `ImplementsBatch` maps the pool to it:
`unjudged` is what main, `jobs` and the parsing workers have, `ready` what workers
send and `dbChan` holds, `saving` the saver's match while it saves.

### MatchDataset

`Line` is one line of a log for both parsers: `Closed` closes the frame and
fills the gap, `Labelled` is `appendDeathPredict`, `Snapshot` the timing of
`ParseVisionWorker`. A hero is its name in the frames, which `NormalizeHeroName`
(`function.go:54-60`) makes of the class of its unit (`general.go:549`); `TargetName`
is its name in the combat log, by which a death line looks for it in the frames
(`general.go:499`, `:663`). The two differ for 30 heroes: `heroNames.json:129-158`
has `npc_dota_hero_crystalmaiden` beside `npc_dota_hero_crystal_maiden`. `NextHero`, `ScanTick`, `EndWindow` and `EndHero` are the
loop of `saveMatch` over heroes and ticks, `ChooseSafe` the shuffle, `Commit` and
`Rollback` the outcomes of the transaction. Assumed of a log: its seconds do not
decrease, except that lines stamped before the game may come late; every line
has a type; a hero has at most one interval line a second; the combat log's name of a hero is
not another hero's name in the frames (`NamesAssumption`: no spelling in
`heroNames.json` is that of two heroes). The guard
`lineTime < 0 && lastProcessedTime > 0` exists for those late lines, and the
alignment fails without it.

### ReplayCollection

The state is the notebook's files. `StartCrawl`, `FetchPage`, `FetchMatch`,
`Close` and `EndCrawl` are the cell that walks OpenDota's list of parsed matches
downwards by id; `page` is what is left of the page it has, `buffer` the lines the
open file may not have written yet. `CreateBook`, `StartMerge` and `EndMerge` fill
`match_ids.json`; the download, the decompression and the parse are cells that go
over their matches one by one (`Work`) and skip those whose file is there.
`Interrupt` breaks off the crawl where its `with` block still closes the file;
`Kill` does not even do that: of the buffered lines any first ones reach the file,
a piece of a line may follow, and a file being written stays cut off. A page comes
in descending order and its matches are worked off in that order, so sets of ids
are enough. `owed` is the history of the matches that were on a page and were not
refused.

## 3. The runs

| Run | Question and result | Bounds, and why they are enough |
|---|---|---|
| `worker_delivery` | Who gets which record, what is acknowledged; `DeliveryInv` is the inductive invariant of the proofs; `ImplementsQueue`. Holds. | Loop and one run-once call, 3 entries, batches of 2: two batches overlap and the second is short. One crash. `MaxLen` 2 makes the trim bite. |
| `worker_loop` | With the loop alone: heatmap and result of a record agree, heatmaps and results keep the order, no record waits for ever, the loop keeps polling. Holds under `FairSpec`. | Two sessions, an unparsable record and one of a hero off the grid, which has no candidate square unless the map is full; batches of 2, so that one batch has records of both or of one twice; a config change between any two steps; one crash. |
| `session` | A started session keeps its config while active; "stopped" leaves nothing that was there. Holds. | Two requests at a time for one session, TTL of 2 ticks, one entry per stream, two configs: what one request leaves the other meets. |
| `stream` | What the page shows is its session's, "Live" is shown over a live connection, the interval is the session's, no session is lost without an error, failing reads keep the stream. Holds. | Two sessions, so that the socket of the first closes while the second opens; one frame under way makes the wire full. |
| `stream_leak` | The hub ends the stream of a client that has gone. **Violated** even with a fair ticker: without a heatmap nothing is written, and only a write would fail. | One session. |
| `gsi_memory` | Snapshots are well-formed, count records, and are the session's own. Holds. | Two sessions, two requests at a time, two units of which one is unknown to the catalogue, one enemy kept: the limit is passed. |
| `gsi_fresh` | Comments say a visible enemy has time 0 and its fresh position. **Violated**: ids are compared with unit names. | One session, one enemy, two positions. |
| `grid` | Square, centre, neighbourhood and pixel agree. Holds inside the map. | The real bounds and 32 squares; coordinates on both sides of the borders at the edges and in the middle. |
| `pool` | Waiting, closing and ending; `ImplementsBatch`. Holds under `FairSpec`. | 3 files, 2 workers, channels of one place: every channel is full at some time, and files outnumber workers. |
| `pool_broken` | A file that cannot be parsed costs that match only. **Violated**: its decoder loop does not end. | Same, one broken file. |
| `dataset` | Frames and snapshots of a second have one index; labels are exact for the hero whose two names agree and never set for the one whose names differ; one row per label and window. Holds. | Two heroes, one of each kind, over seconds -1..5, with any seconds left out, and up to two deaths, so that windows merge or follow each other and a match can end in one; labels 1 and 3, so that a label has two ticks to choose from. The hero whose deaths label nothing is in at most one frame (`SeldomSeen`, a constraint): any one of them, before or after its death or the other's. |
| `collect` | Nothing listed is passed over; no whole `.dem`, whole parse or saved line is lost, nor the whole archive of a match that has a parse; and in the end every match of the book has a whole parse, unless a file that no later run makes good (its `.dem`, its parse, the book: `LeftCut`) was cut off. Holds under `FairSpec`. Not claimed, because the code does otherwise: that the archive of a match without a parse survives a download that is run again (`produce_dataset.ipynb:2360`), or the book a kill in the merge (`:281`). | Two matches on one page or on two, parsed by OpenDota in any order, also while the crawl runs; two kills, so that a kill can meet what the one before it left. |

Violation runs check one property each; `PROJECT.json` quotes the line that
states it.

**Fairness.** The loop's steps are weakly fair because `run_forever` polls again
after `POLL_INTERVAL_SECONDS` whatever the last call did, and `Restart` because
`docker-compose.yml` restarts the service; no other caller and no other service
is fair. Goroutines of the parser are weakly fair (the Go scheduler), and
parsing and saving end. For `stream_leak` the ticker, message delivery and
closing handshakes are weakly fair and a write that can be made again and again
is made (reads do not fail for ever).

In `collect` the cell that runs goes on (weak
fairness); a person starts the three cells over files again and again and
interrupts a crawl that goes round for ever (strong fairness: a start needs an idle
moment, which other cells may take); a download that is tried again and again leaves
an archive sometimes, and a whole replay is not rejected by the parser every time.
Starting the crawl or the merge is not fair: nobody has to.

**Deadlock** is off where a program ends (`pool`, `pool_broken`, `dataset`) or
where the bounds on sessions and versions use everything up (`stream`,
`stream_leak`).

## 4. What is proved

Eight modules hold the proofs, each EXTENDS the module it is about. Every
theorem is for any values of the constants that satisfy the module's named
assumption, which TLC evaluates in the runs.

**`InferenceWorkerProofs`**, for any sets of sessions, models and configs, any
number of callers, records, failures and crashes, and any batch size:
`TypeCorrect`, `DeliveryCorrect` (`DeliveryInv`), and from it `ResultsAtMostOnce`,
`BatchesAreDisjoint`, `AcknowledgedOnlyAnswered` and `WorkerImplementsQueue`
(`Spec => ImplementsQueue`). At-most-once is not inductive: it must be known that
what a call may still publish is unanswered, which needs that no other call holds
it, which needs that the stream gives out an id once and that what follows the
item loop starts with the loop complete. `DeliveryInv` says this of each call
(`BatchConsistent`) together with `DisjointBatches`, `AtMostOneResult` and the
types. Actions that leave batches and results alone go through `QuietStep`, all
exits of a call through `FinishStep`. The refinement maps `Read` to `Take`, a
single XADD of `Push` to `Answer`, every way to drop a record to `Lose`, and the
rest to stuttering.

In the same module, `WorkerFrameAgrees` (any number of callers): `FrameKnown` adds to agreement with published results that the record a
frame shows is not to be worked on any more and that whoever has its result in
hand made it with the frame's config; that no other call has it comes from
`DisjointBatches`. `LoopResultsInOrder` and `LoopHeatmapForward` assume
`Procs = {Loop}`, as `worker_loop` does: with a second caller both are false.
`OrderInv` says that what is published is older than what is in hand, and what the
heatmaps show older than what is still to be worked on.

**`SessionApiProofs`**: `ApiTypeCorrect`, `ApiConfiguredWhileActive`,
`ApiStoppedMeansErased`. The types include that a key is there exactly as long as
it has time to live. For the second, a session with one client: no other start of
it is under way (`Alone`), what a stop's SCANs found is its own (`FindsOwnKeys`),
and the config's time never ends before the session's (`ConfiguredInTime`: it is
written second, with the same TTL). For the third, `Erasing(r, t)` says of each
call of a stop what is gone already or is among the keys and entries it has in
hand; it needs that a stop begins with `inference:input` (`InputFirst`).

**`PredictionStreamProofs`**: `StreamTypeCorrect`, `StreamShownIsOwn`,
`StreamPacedBySession`, `StreamLiveMeansConnected`, `StreamStartedHasPage` and the
action property in `StreamKeepsReading`. The invariant `StreamInv` says where the
running session's token, its socket and its key in Redis are during a click
(`Clicks`), that only the running session's socket is alive and that a connection
is waited for only for a session that was started (`Sockets`), and that a stream
carries frames of its own session (`Frames`).

**`GsiProcessorProofs`**: `SnapshotAgeBounded`, `SnapshotOfOwnSession`. Between the
features and `save_current_snapshot` the sightings are in the request's hands:
before XADD they may count the record that is about to be added, after it they
must fit what the session has (`HandFits`), whatever other requests do meanwhile.

`GsiTypeCorrect`: a snapshot has at most `MaxEnemies` keys because `Merge` keeps the
closest ones (`ClosestAreFew`); what a request has in hand may also have the key of a
unit the catalogue does not know, which `Save` leaves out (`SavedEnemies`), so that
what is loaded again has hero ids only (`SnapshotTypes`).

**`GridCellsProofs`**: `GridCentreIsInSquare`, `GridCandidatesAreNear`,
`GridDrawnWhereItStands`, for any bounds of the map and any number of squares. All
rest on what integer division does at a border: a quotient is the only number whose
multiples bound the dividend (`DivUnique`), a square is its row and column
(`RowAndCol`, `SquareOf`), and the centre of a part of an axis is inside the part
(`CentreOfPart`).

**`MatchParserProofs`**: `PoolTypeCorrect`, `PoolCounts`, `PoolSendsBeforeClose`,
`PoolOffersEveryMatchOnce`. `PoolInv` adds who holds a file (`FilesHeld`) and that
a closed `dbChan` means no file is under way (`ClosedAfterWork`); the last theorem
needs that a file is in one place of the pool (`OnePlace`), is sent once
(`SentOnce`), that what was fed is somewhere, failed or was sent (`Accounted`), and
the order in which main ends (`EndsInOrder`). `PoolImplementsBatch` (`Spec =>
ImplementsBatch`) adds that nothing happens before main feeds the pool
(`NothingBegun`) and that main waits with nothing left to feed (`AllFed`). `Parse` and
`ParseFails` map to `Judge`, `TakeMatch` to `Begin`, `SaveMatch` to `Finish`, both ways
main returns to `End`; every other step passes a file on unseen (`PassStep`).

**`MatchDatasetProofs`**: `DatasetFramesAligned`, `DatasetLabelsExact`. Snapshots
are of successive seconds and closed frames of the same ones (`SameSeconds`), and
the open frame, the last snapshot and the last line are of one second (`InStep`).
Labels are exact because the index distance of `appendDeathPredict` is the
distance in time, which is the first of these, because the frame that is being
filled has no label yet and no later death was read (`NoneAhead`), and because the
name of a death line is that of the hero who dies or of nobody in the frames
(`NamesAssumption`).
`DatasetSampledOnce` and `DatasetTypeCorrect` follow from `SampleInv`, which speaks
of each hero up to the tick its scan has reached (`Reach`): the lists hold exactly
the labelled ticks of the open window, each under its smallest label (`ListsOpen`);
a picked tick is of a window that has ended (`PickedEnded`); no window gives two
ticks of one label (`PickedOnce`), every ended one gives one (`PickedAll`); and at
most `MaxSafe` of the chosen ticks have no label (`SafeRows`). A tick without a
label is the only one that moves a window from the lists to the picks
(`WindowPicks`, `WindowEnds`); every other tick is quiet (`QuietTick`). That a set
of labels has a smallest one comes from the well-foundedness of `<` (`WFMin`), which
unlike the induction theorems takes no operator as a parameter. Windows are compared
by `OneWindow`, which is transitive on labelled ticks and says the same as the
property's `SameWindow` (`Windows`).

**`ReplayCollectionProofs`**: `CollectionTypeCorrect`, `CollectionMissesNothing`,
`CollectionKeepsWork`. What a page, the buffer and the file hold is in descending
order, and what was shown and let go is below all of it; the first theorem about
the crawl is not inductive without the page and the buffer. `CollectionKeepsWork`
needs that the download's list, made once from the parses that are there, stays true
while 14 threads work it off (`ListHolds`): only so is a whole archive that is
overwritten one of a match without a parse.

The assumptions besides types of constants: the workers of the pool, the catalogue of
heroes, the horizons and the matches are finite sets, no hero's name in the combat
log is another's in the frames, squares are at least two units wide, no second of a
log is the code's mark -9999 (`PreGame < 9999`), key lifetimes are positive; and the model's: Redis keeps its data, a failed call is not sent again.

Every safety property of the passing runs is proved. Only model-checked are the four
liveness properties `LoopKeepsPolling`, `EveryRecordLeavesQueue`, `PoolEnds` and
`EveryMatchParsed` (fairness and ENABLED are outside the prover's reach), and the
violations of section 5.

## 5. Findings

1. `process.py:497`: a visible enemy that is remembered is recorded at its old
   place with a growing time (`gsi_fresh`).
2. `general.go:427`: a syntax error in a log keeps the parser in a loop
   (`pool_broken`).
3. `predictions.go:96`: the hub's goroutine of a stopped session never ends
   (`stream_leak`).

Four observations have no run of their own.

- `general.go:663`: a death is looked for under the combat log's name in frames that
  have the lower-cased class. For the 30 heroes whose spellings differ no frame is
  ever labelled, although `readme.md:81` says that the flags tell of a death within
  the next 1 to 20 seconds; in the dataset these heroes never die. `LabelsExact` and
  `DatasetLabelsExact` state it: their labels are empty whatever deaths are read.
  (Items, abilities and the last use of the BKB, lines 502-543, are kept under the
  combat log's name too and read under the other; they are not modelled.)
- `worker.py:173`: with `full_map` off and a hero off the grid there is no candidate
  square and nothing is written, so the older heatmap stays for up to its TTL,
  although the comment at 182-184 says squares are cleared; such squares exist,
  since `cell_id` gives 1024 and more at the upper edge while its docstring
  (`formulas.py:12-13`) promises 0..1023.
- The notebook takes a file that is there for a finished one, under the comment that
  what was worked off already is skipped (`produce_dataset.ipynb:5639`). A `.dem` or a
  parse that was cut off is therefore never made again (`:4001`, `:2342`, `:5640`),
  and a book that a kill cut off is never repaired (`:210`, `:281`): the three cases
  of `LeftCut`, which `EveryMatchParsed` leaves out.
- A match without a parse is downloaded again over the archive that is there
  (`:2342`, `:2360`), so a download that breaks off spoils a whole archive; if it is
  then decompressed, the `.dem` stays cut off. `WorkIsKept` says that this is all:
  once there is a parse, the archive is left alone.

## 6. Not modelled, and why

- *The other notebooks* (`data/models/*.ipynb`, `research/`): training, evaluation
  and plots, run top to bottom by hand. They keep no state between runs but the
  model files they write last, and most of their lines are stored outputs (tables,
  images), which nothing can model. They are nine tenths of the implementation's
  lines, so the share of lines the modules stand for stays low. One thing to know
  of them: a model file is named after the last character of its target column, so
  the horizons 10 and 20 would both be written as `0s`.
- *Trained models and features* (`services/model.py`, `services/features.py`):
  floating-point functions without state; a prediction is taken as a function of
  what was asked.
- *Parser vision* (`utils/vision.go`) beyond the seconds of its snapshots: who sees
  whom is decided by elevation, trees and hero tables, data of the game. That 0
  stands for "never seen" is listed as a hazard.
- *Panels and rendering of the front, settings, health, containers, scripts, the
  BFF's test double*: no state that the modelled parts do not have.
- *Tower distances, and the features gsi_processor copies from the body.*
- Within modelled parts: the page with a token in its address, a page closed with
  its session running, tokens that contain each other, the session called
  "default" that shares the base heatmap key, and several requests of different
  clients for one token (see the hazards' notes). Each service is modelled with the
  other services as an environment that may do anything they do to its keys at any
  time, which includes everything a composition of them could do.

## 7. Order of the modules, and what could follow

Worker with its queue, session API, gsi_processor, grid, parser pool, dataset,
prediction stream, replay collection; then the proofs, worker first. What could
follow: session API, gsi_processor and worker as instances over one Redis, refining
`InferenceWorker`, whose `Others` stands for the two services (what a record in
flight re-creates after a stop, `client.go:113-116`); the last-seen data of `vision.go` with a free choice of who is seen.
