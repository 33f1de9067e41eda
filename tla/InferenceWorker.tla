--------------------------- MODULE InferenceWorker --------------------------
(***************************************************************************)
(* The inference service: InferenceWorkerService.process_once and          *)
(* run_forever (services/worker.py) over InferenceRedisRepository          *)
(* (infra/redis.py).  One batch is cut at every await, so that anything    *)
(* else may happen between two Redis calls.  The background loop and the   *)
(* POST /inference/run-once handler run process_once at the same time,     *)
(* under the same consumer name.  Every Redis call may fail, with or       *)
(* without having taken effect on the server.                              *)
(***************************************************************************)
EXTENDS Sequences, RedisStreams

CONSTANTS Tokens,        \* player sessions
          Models,        \* model families a session may choose
          DefaultModel,  \* the one PredictionConfig falls back to
          Entries,       \* records gsi_processor may enqueue
          Configs,       \* configs /api/start may store
          NoConfig,      \* the prediction-config key is absent
          Procs,         \* concurrent callers of process_once
          Loop,          \* the one that is run_forever
          BatchSize,     \* settings.BATCH_SIZE
          MaxLen,        \* XTRIM MAXLEN of both streams (1000)
          MaxEntries,    \* bound: entries ever added to inference:input
          MaxCrashes     \* bound: process crashes

\* valid: pop_raw_messages parses it; on_map: its square is a cell of the grid.
Entry == [token : Tokens, valid : BOOLEAN, on_map : BOOLEAN]
Config == [model : Models, full_map : BOOLEAN]
DefaultConfig == [model |-> DefaultModel, full_map |-> TRUE]

ASSUME WorkerConstants ==
    /\ DefaultModel \in Models
    /\ Entries \subseteq Entry
    /\ Configs \subseteq Config
    /\ NoConfig \notin Config
    /\ Loop \in Procs
    /\ BatchSize \in Nat \ {0}
    /\ MaxLen \in Nat \ {0}
    /\ MaxEntries \in Nat
    /\ MaxCrashes \in Nat

VARIABLES
    entry,      \* every entry ever added to inference:input, by id
    input,      \* ids of the entries the stream inference:input holds
    delivered,  \* last-delivered id of the consumer group
    pending,    \* the group's pending entries list
    results,    \* every result ever added to inference:output, in order
    output,     \* positions in results that the stream still holds
    config,     \* prediction-config:<token>
    heat,       \* heat_map:<token>
    pc,         \* where each call of process_once stands
    raw,        \* its raw_records, by id
    todo,       \* the items of its batch the loop has not finished
    made,       \* its all_results not yet pushed
    crashes

redis == <<entry, input, delivered, pending, results, output, config, heat>>
locals == <<pc, raw, todo, made>>
vars == <<redis, locals, crashes>>

-----------------------------------------------------------------------------
Result == [rec : Nat, token : Tokens, cfg : Config]
\* A frame is known by the record and the config it was computed from.
Frame == [rec : Nat, cfg : Config]
NoFrame == [rec |-> 0, cfg |-> DefaultConfig]

Unread == Undelivered(input, delivered)

\* PredictionConfigRepository.get_for_token
ConfigOf(t) == IF config[t] = NoConfig THEN DefaultConfig ELSE config[t]

\* _get_candidate_squares returns some square.
HasCandidates(e, cfg) == cfg.full_map \/ e.on_map

\* Mutant of IsFirst: the batch is worked off from its newest record.
IsLast(i, ids) == i \in ids /\ \A j \in ids : i >= j

IsFirst(i, ids) == i \in ids /\ \A j \in ids : i <= j

Init ==
    /\ entry = <<>>
    /\ input = {}
    /\ delivered = 0
    /\ pending = {}
    /\ results = <<>>
    /\ output = {}
    /\ config = [t \in Tokens |-> NoConfig]
    /\ heat = [t \in Tokens |-> NoFrame]
    /\ pc = [p \in Procs |-> "idle"]
    /\ raw = [p \in Procs |-> {}]
    /\ todo = [p \in Procs |-> {}]
    /\ made = [p \in Procs |-> {}]
    /\ crashes = 0

-----------------------------------------------------------------------------
(***************************************************************************)
(* process_once                                                            *)
(***************************************************************************)

\* The call returns, whatever it still had in hand.
Finish(p) ==
    /\ pc' = [pc EXCEPT ![p] = "idle"]
    /\ raw' = [raw EXCEPT ![p] = {}]
    /\ todo' = [todo EXCEPT ![p] = {}]
    /\ made' = [made EXCEPT ![p] = {}]

\* The batch enters the item loop; with no usable record the call returns.
StartBatch(p, ids) ==
    /\ pc' = [pc EXCEPT ![p] = IF ids = {} THEN "idle" ELSE "config"]
    /\ raw' = [raw EXCEPT ![p] = ids]
    /\ todo' = [todo EXCEPT ![p] = ids]
    /\ UNCHANGED made

\* Mutant of Read: the read does not move the group's last-delivered id.
ReadAgain(p) ==
    /\ pc[p] = "idle"
    /\ \E last \in Unread :
        LET got == Through(Unread, last)
        IN  /\ IsRead(Unread, last, BatchSize)
            /\ pending' = pending \cup got
            /\ StartBatch(p, {i \in got : entry[i].valid})
    /\ UNCHANGED <<entry, input, delivered, results, output, config, heat, crashes>>

\* pop_raw_messages: XREADGROUP; entries it cannot parse are skipped, and stay
\* pending.  If the reply is lost the entries are delivered and [] is returned.
Read(p) ==
    /\ pc[p] = "idle"
    /\ \E last \in Unread :
        LET got == Through(Unread, last)
        IN  /\ IsRead(Unread, last, BatchSize)
            /\ delivered' = last
            /\ pending' = pending \cup got
            /\ \/ StartBatch(p, {i \in got : entry[i].valid})
               \/ UNCHANGED locals
    /\ UNCHANGED <<entry, input, results, output, config, heat, crashes>>

\* Mutant of ItemDone: the batch is acknowledged before its results are pushed.
AckBeforePush(p, i) ==
    /\ todo' = [todo EXCEPT ![p] = @ \ {i}]
    /\ pc' = [pc EXCEPT ![p] = IF todo[p] = {i} THEN "ack" ELSE "config"]

\* The loop is done with item i.
ItemDone(p, i) ==
    /\ todo' = [todo EXCEPT ![p] = @ \ {i}]
    /\ pc' = [pc EXCEPT ![p] = IF todo[p] = {i} THEN "push" ELSE "config"]

\* One item: read the session's config, predict, append the result; the heatmap
\* is written only if there are candidate squares.
Predict(p) ==
    /\ pc[p] = "config"
    /\ \E i \in todo[p] :
        LET t == entry[i].token
            cfg == ConfigOf(t)
        IN  /\ IsFirst(i, todo[p])
            /\ made' = [made EXCEPT ![p] =
                            @ \cup {[rec |-> i, token |-> t, cfg |-> cfg]}]
            /\ IF HasCandidates(entry[i], cfg)
               THEN pc' = [pc EXCEPT ![p] = "heatmap"] /\ UNCHANGED todo
               ELSE ItemDone(p, i)
    /\ UNCHANGED <<redis, raw, crashes>>

\* Mutant of SetHeatmap: the frame is labelled with the config of the moment.
SetHeatmapLateConfig(p) ==
    /\ pc[p] = "heatmap"
    /\ \E r \in made[p] :
        /\ IsFirst(r.rec, todo[p])
        /\ heat' = [heat EXCEPT ![r.token] = [rec |-> r.rec, cfg |-> ConfigOf(r.token)]]
        /\ ItemDone(p, r.rec)
    /\ UNCHANGED <<entry, input, delivered, pending, results, output, config,
                   raw, made, crashes>>

\* set_heatmap; its failure is logged and the loop goes on.
SetHeatmap(p) ==
    /\ pc[p] = "heatmap"
    /\ \E r \in made[p] :
        /\ IsFirst(r.rec, todo[p])
        /\ \/ heat' = [heat EXCEPT ![r.token] = [rec |-> r.rec, cfg |-> r.cfg]]
           \/ UNCHANGED heat
        /\ ItemDone(p, r.rec)
    /\ UNCHANGED <<entry, input, delivered, pending, results, output, config,
                   raw, made, crashes>>

\* Mutant of Abandon: the exception leaves run_forever, the process lives on.
LoopDies(p) ==
    /\ pc[p] \in {"config", "push"}
    /\ pc' = [pc EXCEPT ![p] = "ended"]
    /\ UNCHANGED <<redis, raw, todo, made, crashes>>

\* Any other exception ends the call; nothing is acknowledged.
Abandon(p) ==
    /\ pc[p] \in {"config", "push"}
    /\ Finish(p)
    /\ UNCHANGED <<redis, crashes>>

Publish(r) ==
    /\ results' = Append(results, r)
    /\ output' \in Trimmed(output \cup {Len(results')}, MaxLen)

\* Mutant of Push: after an error the push is tried again.
PushWithRetry(p) ==
    /\ pc[p] = "push"
    /\ \E r \in made[p] :
        /\ \A s \in made[p] : r.rec <= s.rec
        /\ Publish(r)
        /\ \/ /\ made' = [made EXCEPT ![p] = @ \ {r}]
              /\ pc' = [pc EXCEPT ![p] = IF made[p] = {r} THEN "ack" ELSE "push"]
              /\ UNCHANGED <<raw, todo>>
           \/ Len(results') <= MaxEntries /\ UNCHANGED locals
    /\ UNCHANGED <<entry, input, delivered, pending, config, heat, crashes>>

\* Mutant of Push: the results are pushed in no particular order.
PushAnyOrder(p) ==
    /\ pc[p] = "push"
    /\ \E r \in made[p] :
        /\ Publish(r)
        /\ made' = [made EXCEPT ![p] = @ \ {r}]
        /\ pc' = [pc EXCEPT ![p] = IF made[p] = {r} THEN "ack" ELSE "push"]
    /\ UNCHANGED <<entry, input, delivered, pending, config, heat, raw, todo, crashes>>

\* push_results: XADD, XTRIM per result, in the order of the batch; an error
\* after the XADD raises RuntimeError with the result already in the stream.
Push(p) ==
    /\ pc[p] = "push"
    /\ \E r \in made[p] :
        /\ \A s \in made[p] : r.rec <= s.rec
        /\ Publish(r)
        /\ \/ /\ made' = [made EXCEPT ![p] = @ \ {r}]
              /\ pc' = [pc EXCEPT ![p] = IF made[p] = {r} THEN "ack" ELSE "push"]
              /\ UNCHANGED <<raw, todo>>
           \/ Finish(p)
    /\ UNCHANGED <<entry, input, delivered, pending, config, heat, crashes>>

\* ack_messages, XACK: an error is logged and XDEL is not tried.
Ack(p) ==
    /\ pc[p] = "ack"
    /\ \/ /\ pending' = pending \ raw[p]
          /\ \/ pc' = [pc EXCEPT ![p] = "xdel"] /\ UNCHANGED <<raw, todo, made>>
             \/ Finish(p)
       \/ UNCHANGED pending /\ Finish(p)
    /\ UNCHANGED <<entry, input, delivered, results, output, config, heat, crashes>>

\* ack_messages, XDEL: its failure is not fatal.
Delete(p) ==
    /\ pc[p] = "xdel"
    /\ input' = input \ raw[p] \/ UNCHANGED input
    /\ Finish(p)
    /\ UNCHANGED <<entry, delivered, pending, results, output, config, heat, crashes>>

Step(p) == \/ Read(p) \/ Predict(p) \/ SetHeatmap(p) \/ Abandon(p)
           \/ Push(p) \/ Ack(p) \/ Delete(p)

\* The process dies, or is shut down and its task cancelled at an await.
Crash ==
    /\ crashes < MaxCrashes
    /\ \A p \in Procs : pc[p] # "down"
    /\ crashes' = crashes + 1
    /\ pc' = [p \in Procs |-> "down"]
    /\ raw' = [p \in Procs |-> {}]
    /\ todo' = [p \in Procs |-> {}]
    /\ made' = [p \in Procs |-> {}]
    /\ UNCHANGED redis

\* docker-compose: restart: always; lifespan starts the loop again.
Restart ==
    /\ \A p \in Procs : pc[p] = "down"
    /\ pc' = [p \in Procs |-> "idle"]
    /\ UNCHANGED <<redis, raw, todo, made, crashes>>

-----------------------------------------------------------------------------
(***************************************************************************)
(* The other services, as the worker sees them.                            *)
(***************************************************************************)

\* gsi_processor, enqueue_request, XADD.
Enqueue(e) ==
    /\ Len(entry) < MaxEntries
    /\ entry' = Append(entry, e)
    /\ input' = input \cup {Len(entry')}
    /\ UNCHANGED <<delivered, pending, results, output, config, heat, locals, crashes>>

\* enqueue_request, XTRIM MAXLEN ~, by whichever request comes to it.
TrimInput ==
    /\ input' \in Trimmed(input, MaxLen)
    /\ UNCHANGED <<entry, delivered, pending, results, output, config, heat,
                   locals, crashes>>

\* bff, SetPredictionConfig.
PutConfig(t, c) ==
    /\ config' = [config EXCEPT ![t] = c]
    /\ UNCHANGED <<entry, input, delivered, pending, results, output, heat,
                   locals, crashes>>

\* bff, StopSession, each DEL; also the keys' TTLs.
EraseKeys ==
    /\ \E ts \in SUBSET Tokens :
        config' = [t \in Tokens |-> IF t \in ts THEN NoConfig ELSE config[t]]
    /\ \E ts \in SUBSET Tokens :
        heat' = [t \in Tokens |-> IF t \in ts THEN NoFrame ELSE heat[t]]
    /\ UNCHANGED <<entry, input, delivered, pending, results, output, locals, crashes>>

\* bff, StopSession, XDEL of entries an XRANGE of its found: the worker cannot
\* tell which sessions are stopped.
EraseInput ==
    /\ \E ids \in SUBSET input : input' = input \ ids
    /\ UNCHANGED <<entry, delivered, pending, results, output, config, heat,
                   locals, crashes>>

EraseOutput ==
    /\ \E ids \in SUBSET output : output' = output \ ids
    /\ UNCHANGED <<entry, input, delivered, pending, results, config, heat,
                   locals, crashes>>

\* bff, StopSession, XACK of entries it deleted before.
Acknowledge ==
    /\ \E ids \in SUBSET (pending \ input) : pending' = pending \ ids
    /\ UNCHANGED <<entry, input, delivered, results, output, config, heat,
                   locals, crashes>>

Others == \/ \E e \in Entries : Enqueue(e)
          \/ \E t \in Tokens, c \in Configs : PutConfig(t, c)
          \/ TrimInput \/ EraseKeys \/ EraseInput \/ EraseOutput \/ Acknowledge

Next == (\E p \in Procs : Step(p)) \/ Crash \/ Restart \/ Others

Spec == Init /\ [][Next]_vars

\* The loop polls again within POLL_INTERVAL_SECONDS whatever happened in the
\* last call, and a dead container is restarted.
Fairness == WF_vars(Step(Loop)) /\ WF_vars(Restart)
FairSpec == Spec /\ Fairness

-----------------------------------------------------------------------------
(***************************************************************************)
(* Properties                                                              *)
(***************************************************************************)

\* Every variable has its type.
TypeOK ==
    /\ entry \in Seq(Entry)
    /\ input \in SUBSET (1 .. Len(entry))
    /\ delivered \in 0 .. Len(entry)
    /\ pending \in SUBSET (1 .. delivered)
    /\ results \in Seq(Result)
    /\ output \in SUBSET (1 .. Len(results))
    /\ config \in [Tokens -> Config \cup {NoConfig}]
    /\ heat \in [Tokens -> Frame]
    /\ pc \in [Procs -> {"idle", "config", "heatmap", "push", "ack", "xdel", "down"}]
    /\ raw \in [Procs -> SUBSET (1 .. delivered)]
    /\ todo \in [Procs -> SUBSET (1 .. delivered)]
    /\ made \in [Procs -> SUBSET Result]
    /\ crashes \in 0 .. MaxCrashes

\* Ids whose result was published, by anyone, at any time.
Answered == {results[k].rec : k \in DOMAIN results}
\* Ids a call of process_once may still publish a result for.
Held(p) == todo[p] \cup {r.rec : r \in made[p]}
InHand == {i \in 1 .. delivered : \E p \in Procs : i \in Held(p)}

\* What a call has in hand comes from its raw_records and is unanswered, and
\* all else in raw_records is answered; what follows the item loop starts with
\* the loop complete.
BatchConsistent(p) ==
    /\ Held(p) \subseteq raw[p]
    /\ raw[p] \subseteq Answered \cup Held(p)
    /\ Held(p) \cap Answered = {}
    /\ \A r, s \in made[p] : r.rec = s.rec => r = s
    /\ pc[p] \in {"idle", "down"} => raw[p] = {}
    /\ pc[p] = "config" => \A r \in made[p] : r.rec \notin todo[p]
    /\ pc[p] = "heatmap" =>
            \A r \in made[p] : r.rec \in todo[p] => IsFirst(r.rec, todo[p])
    /\ pc[p] \in {"push", "ack", "xdel"} => todo[p] = {}
    /\ pc[p] \in {"ack", "xdel"} => made[p] = {}

\* A record gets at most one result in inference:output, although two calls
\* read the stream under one consumer name, pushes fail half way and the
\* process crashes (worker.py, push_results then ack_messages).
AtMostOneResult ==
    \A k, l \in DOMAIN results : results[k].rec = results[l].rec => k = l

\* No record is ever in two batches: the loop and a concurrent run-once never
\* work on the same record (pop_raw_messages reads ">" only).
DisjointBatches ==
    \A p, q \in Procs : p # q => raw[p] \cap raw[q] = {}

\* The inductive invariant behind the two properties above.
DeliveryInv ==
    /\ TypeOK
    /\ Answered \subseteq 1 .. delivered
    /\ \A p \in Procs : BatchConsistent(p)
    /\ DisjointBatches
    /\ AtMostOneResult

\* Apart from what StopSession acknowledges, a record leaves the pending list
\* only when its result has been published: the worker acknowledges nothing
\* unanswered, whichever push or ack fails.
AcknowledgedIsAnswered ==
    [][~Acknowledge => pending \ pending' \subseteq Answered]_vars

\* The heatmap of a session and the result of the record it was computed from
\* used the same config, even when the session's config changes meanwhile.
FrameAgreesWithResult ==
    \A t \in Tokens : \A k \in DOMAIN results :
        results[k].rec = heat[t].rec =>
            results[k].token = t /\ results[k].cfg = heat[t].cfg

\* With the background loop alone, a session's heatmap never goes back to an
\* older record, across batches, failures and restarts (set_heatmap).
HeatmapNeverRegresses ==
    [][\A t \in Tokens : heat'[t] = NoFrame \/ heat'[t].rec >= heat[t].rec]_vars

\* With the background loop alone, results come out in the order of the records.
ResultsInOrder ==
    \A k, l \in DOMAIN results : k < l => results[k].rec < results[l].rec

\* The worker and the stream implement an at-most-once, first-come queue.
Queue == INSTANCE AtMostOnceQueue WITH
            submitted <- Len(entry),
            waiting   <- Unread,
            held      <- InHand,
            answered  <- Answered

ImplementsQueue == Queue!Spec

\* No record stays unread for ever: it is read, trimmed or erased.
EveryRecordLeavesQueue ==
    \A i \in 1 .. MaxEntries : (i \in Unread) ~> (i \notin Unread)

\* No exception, failed call or crash stops the background loop for good: it
\* keeps coming back to its poll (run_forever).
LoopKeepsPolling == []<>(pc[Loop] = "idle")

=============================================================================
