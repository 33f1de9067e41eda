----------------------- MODULE InferenceWorkerProofs ------------------------
(***************************************************************************)
(* Type correctness, at-most-once delivery and the refinement of           *)
(* AtMostOnceQueue, for any number of sessions, callers and records; that  *)
(* a heatmap and the result of its record agree; and, for the background   *)
(* loop alone, that results and heatmaps keep the order of the records.    *)
(***************************************************************************)
EXTENDS InferenceWorker, TLAPS

\* XTRIM only removes entries.
LEMMA TrimmedSubset ==
    ASSUME NEW stream, NEW maxlen, NEW kept \in Trimmed(stream, maxlen)
    PROVE  kept \subseteq stream
  BY DEF Trimmed

\* The ids one read returns come from the stream and are not above last.
LEMMA ThroughBounds ==
    ASSUME NEW ids, NEW last
    PROVE  /\ Through(ids, last) \subseteq ids
           /\ \A i \in Through(ids, last) : i <= last
  BY DEF Through

\* The default config is a config, so every read of a session's config is one.
LEMMA ConfigOfType ==
    ASSUME TypeOK, NEW t \in Tokens
    PROVE  ConfigOf(t) \in Config
  BY WorkerConstants DEF TypeOK, ConfigOf, DefaultConfig, Config

\* The group's last-delivered id is an id of some entry, or 0.
LEMMA DeliveredBound ==
    ASSUME TypeOK
    PROVE  /\ Len(entry) \in Nat
           /\ delivered \in Nat
           /\ delivered <= Len(entry)
           /\ Unread \subseteq 1 .. Len(entry)
           /\ \A i \in Unread : i > delivered
  <1>1. Len(entry) \in Nat
    BY DEF TypeOK
  <1>2. delivered \in 0 .. Len(entry)
    BY DEF TypeOK
  <1>3. Unread \subseteq 1 .. Len(entry)
    BY DEF TypeOK, Unread, Undelivered
  <1>4. \A i \in Unread : i > delivered
    BY DEF Unread, Undelivered
  <1> QED BY <1>1, <1>2, <1>3, <1>4

\* What the type invariant says of one call of process_once.
LEMMA LocalTypes ==
    ASSUME TypeOK, NEW p \in Procs
    PROVE  /\ raw[p] \subseteq 1 .. delivered
           /\ todo[p] \subseteq 1 .. delivered
           /\ made[p] \subseteq Result
  BY DEF TypeOK

\* Finish empties the hands of the call and keeps the types.
LEMMA FinishType ==
    ASSUME TypeOK, NEW p \in Procs, Finish(p)
    PROVE  /\ pc' \in [Procs -> {"idle", "config", "heatmap", "push", "ack", "xdel", "down"}]
           /\ raw' \in [Procs -> SUBSET (1 .. delivered)]
           /\ todo' \in [Procs -> SUBSET (1 .. delivered)]
           /\ made' \in [Procs -> SUBSET Result]
  BY DEF TypeOK, Finish

\* A published result is appended, and trimming keeps positions of the sequence.
LEMMA PublishType ==
    ASSUME TypeOK, NEW r \in Result, Publish(r)
    PROVE  /\ results' \in Seq(Result)
           /\ output' \in SUBSET (1 .. Len(results'))
           /\ Len(results') = Len(results) + 1
           /\ Answered' = Answered \cup {r.rec}
  <1>1. /\ results' = Append(results, r)
        /\ results \in Seq(Result)
    BY DEF Publish, TypeOK
  <1>2. /\ results' \in Seq(Result)
        /\ Len(results') = Len(results) + 1
        /\ Len(results) \in Nat
        /\ \A k \in 1 .. Len(results) : results'[k] = results[k]
        /\ results'[Len(results) + 1] = r
    BY <1>1
  <1>3. output' \subseteq output \cup {Len(results')}
    BY TrimmedSubset DEF Publish
  <1>4. output' \in SUBSET (1 .. Len(results'))
    BY <1>2, <1>3 DEF TypeOK
  <1>5. /\ DOMAIN results = 1 .. Len(results)
        /\ DOMAIN results' = 1 .. Len(results) + 1
    BY <1>1, <1>2
  <1>6. DOMAIN results' = DOMAIN results \cup {Len(results) + 1}
    BY <1>2, <1>5
  <1>7. Answered' = Answered \cup {r.rec}
    BY <1>2, <1>5, <1>6 DEF Answered
  <1> QED BY <1>2, <1>4, <1>7

-----------------------------------------------------------------------------
\* Every reachable state has its type: the worker's Redis data and its locals
\* stay within what process_once can produce.
THEOREM TypeCorrect == Spec => []TypeOK
  <1>1. Init => TypeOK
    BY WorkerConstants DEF Init, TypeOK, NoFrame, Frame, DefaultConfig, Config
  <1>2. TypeOK /\ [Next]_vars => TypeOK'
    <2> SUFFICES ASSUME TypeOK, [Next]_vars
                 PROVE  TypeOK'
      OBVIOUS
    <2> USE WorkerConstants
    <2>1. ASSUME NEW p \in Procs, Read(p)
          PROVE  TypeOK'
      <3>1. PICK last \in Unread :
                /\ delivered' = last
                /\ pending' = pending \cup Through(Unread, last)
                /\ \/ StartBatch(p, {i \in Through(Unread, last) : entry[i].valid})
                   \/ UNCHANGED locals
        BY <2>1 DEF Read
      <3>2. /\ last \in 1 .. Len(entry)
            /\ last > delivered
            /\ Unread \subseteq 1 .. Len(entry)
            /\ Len(entry) \in Nat
            /\ delivered \in Nat
        BY <3>1, DeliveredBound
      <3>3. Through(Unread, last) \subseteq 1 .. last
        <4>1. ASSUME NEW i \in Through(Unread, last)
              PROVE  i \in Unread /\ i <= last
          BY ThroughBounds
        <4>2. ASSUME NEW i \in Through(Unread, last)
              PROVE  i \in 1 .. last
          <5>1. i \in 1 .. Len(entry) /\ i <= last
            BY <3>2, <4>1
          <5> QED BY <3>2, <5>1
        <4> QED BY <4>2
      <3>4. 1 .. delivered \subseteq 1 .. last
        BY <3>2
      <3>5. pending' \in SUBSET (1 .. delivered') /\ delivered' \in 0 .. Len(entry)
        <4>1. pending \subseteq 1 .. last
          BY <3>4 DEF TypeOK
        <4>2. last \in 0 .. Len(entry)
          BY <3>2
        <4> QED BY <3>1, <3>3, <4>1, <4>2
      <3>6. /\ raw \in [Procs -> SUBSET (1 .. last)]
            /\ todo \in [Procs -> SUBSET (1 .. last)]
        BY <3>4 DEF TypeOK
      <3>7. /\ pc' \in [Procs -> {"idle", "config", "heatmap", "push", "ack", "xdel", "down"}]
            /\ raw' \in [Procs -> SUBSET (1 .. last)]
            /\ todo' \in [Procs -> SUBSET (1 .. last)]
            /\ made' \in [Procs -> SUBSET Result]
        <4>1. CASE UNCHANGED locals
          BY <3>6, <4>1 DEF TypeOK, locals
        <4>2. CASE StartBatch(p, {i \in Through(Unread, last) : entry[i].valid})
          BY <3>3, <3>6, <4>2 DEF TypeOK, StartBatch
        <4> QED BY <3>1, <4>1, <4>2
      <3> QED BY <2>1, <3>1, <3>5, <3>7 DEF TypeOK, Read
    <2>2. ASSUME NEW p \in Procs, Predict(p)
          PROVE  TypeOK'
      <3>1. PICK i \in todo[p] :
                /\ made' = [made EXCEPT ![p] = @ \cup
                     {[rec |-> i, token |-> entry[i].token, cfg |-> ConfigOf(entry[i].token)]}]
                /\ \/ pc' = [pc EXCEPT ![p] = "heatmap"] /\ UNCHANGED todo
                   \/ ItemDone(p, i)
        BY <2>2 DEF Predict
      <3>2. i \in 1 .. Len(entry) /\ i \in Nat
        BY <3>1, LocalTypes, DeliveredBound
      <3>3. entry[i].token \in Tokens
        <4>1. entry \in Seq(Entry)
          BY DEF TypeOK
        <4>2. entry[i] \in Entry
          BY <3>2, <4>1
        <4> QED BY <4>2 DEF Entry
      <3>4. [rec |-> i, token |-> entry[i].token, cfg |-> ConfigOf(entry[i].token)] \in Result
        BY <3>2, <3>3, ConfigOfType DEF Result
      <3>5. made' \in [Procs -> SUBSET Result]
        BY <3>1, <3>4 DEF TypeOK
      <3>6. /\ pc' \in [Procs -> {"idle", "config", "heatmap", "push", "ack", "xdel", "down"}]
            /\ todo' \in [Procs -> SUBSET (1 .. delivered)]
        BY <3>1 DEF TypeOK, ItemDone
      <3> QED BY <2>2, <3>5, <3>6 DEF TypeOK, Predict, redis
    <2>3. ASSUME NEW p \in Procs, SetHeatmap(p)
          PROVE  TypeOK'
      <3>1. PICK r \in made[p] :
                /\ \/ heat' = [heat EXCEPT ![r.token] = [rec |-> r.rec, cfg |-> r.cfg]]
                   \/ UNCHANGED heat
                /\ ItemDone(p, r.rec)
        BY <2>3 DEF SetHeatmap
      <3>2. r \in Result
        BY <3>1, LocalTypes
      <3>3. heat' \in [Tokens -> Frame]
        <4>1. [rec |-> r.rec, cfg |-> r.cfg] \in Frame
          BY <3>2 DEF Result, Frame
        <4>2. heat \in [Tokens -> Frame]
          BY DEF TypeOK
        <4> QED BY <3>1, <4>1, <4>2
      <3>4. /\ pc' \in [Procs -> {"idle", "config", "heatmap", "push", "ack", "xdel", "down"}]
            /\ todo' \in [Procs -> SUBSET (1 .. delivered)]
        BY <3>1 DEF TypeOK, ItemDone
      <3> QED BY <2>3, <3>3, <3>4 DEF TypeOK, SetHeatmap
    <2>4. ASSUME NEW p \in Procs, Abandon(p)
          PROVE  TypeOK'
      BY <2>4, FinishType DEF TypeOK, Abandon, redis
    <2>5. ASSUME NEW p \in Procs, Push(p)
          PROVE  TypeOK'
      <3>1. PICK r \in made[p] :
                /\ Publish(r)
                /\ \/ /\ made' = [made EXCEPT ![p] = @ \ {r}]
                      /\ pc' = [pc EXCEPT ![p] = IF made[p] = {r} THEN "ack" ELSE "push"]
                      /\ UNCHANGED <<raw, todo>>
                   \/ Finish(p)
        BY <2>5 DEF Push
      <3>2. r \in Result
        BY <3>1, LocalTypes
      <3>3. /\ results' \in Seq(Result)
            /\ output' \in SUBSET (1 .. Len(results'))
        BY <3>1, <3>2, PublishType
      <3>4. /\ pc' \in [Procs -> {"idle", "config", "heatmap", "push", "ack", "xdel", "down"}]
            /\ raw' \in [Procs -> SUBSET (1 .. delivered)]
            /\ todo' \in [Procs -> SUBSET (1 .. delivered)]
            /\ made' \in [Procs -> SUBSET Result]
        BY <3>1, FinishType DEF TypeOK
      <3> QED BY <2>5, <3>3, <3>4 DEF TypeOK, Push
    <2>6. ASSUME NEW p \in Procs, Ack(p)
          PROVE  TypeOK'
      <3>1. /\ pc' \in [Procs -> {"idle", "config", "heatmap", "push", "ack", "xdel", "down"}]
            /\ raw' \in [Procs -> SUBSET (1 .. delivered)]
            /\ todo' \in [Procs -> SUBSET (1 .. delivered)]
            /\ made' \in [Procs -> SUBSET Result]
        BY <2>6, FinishType DEF TypeOK, Ack
      <3>2. pending' \in SUBSET (1 .. delivered)
        BY <2>6 DEF TypeOK, Ack
      <3> QED BY <2>6, <3>1, <3>2 DEF TypeOK, Ack
    <2>7. ASSUME NEW p \in Procs, Delete(p)
          PROVE  TypeOK'
      <3>1. input' \in SUBSET (1 .. Len(entry))
        BY <2>7 DEF TypeOK, Delete
      <3> QED BY <2>7, <3>1, FinishType DEF TypeOK, Delete
    <2>8. CASE Crash
      BY <2>8 DEF TypeOK, Crash, redis
    <2>9. CASE Restart
      BY <2>9 DEF TypeOK, Restart, redis
    <2>10. ASSUME NEW e \in Entries, Enqueue(e)
           PROVE  TypeOK'
      <3>1. /\ entry' \in Seq(Entry)
            /\ Len(entry') = Len(entry) + 1
            /\ Len(entry) \in Nat
        BY <2>10 DEF TypeOK, Enqueue
      <3>2. input' \in SUBSET (1 .. Len(entry'))
        <4>1. input' = input \cup {Len(entry')}
          BY <2>10 DEF Enqueue
        <4>2. \A i \in input : i \in 1 .. Len(entry)
          BY DEF TypeOK
        <4>3. 1 .. Len(entry) \subseteq 1 .. Len(entry')
          BY <3>1
        <4>4. Len(entry') \in 1 .. Len(entry')
          BY <3>1
        <4> QED BY <4>1, <4>2, <4>3, <4>4
      <3>3. delivered' \in 0 .. Len(entry')
        BY <2>10, <3>1 DEF TypeOK, Enqueue
      <3> QED BY <2>10, <3>1, <3>2, <3>3 DEF TypeOK, Enqueue, locals
    <2>11. ASSUME NEW t \in Tokens, NEW c \in Configs, PutConfig(t, c)
           PROVE  TypeOK'
      BY <2>11, WorkerConstants DEF TypeOK, PutConfig, locals
    <2>12. CASE TrimInput
      BY <2>12, TrimmedSubset DEF TypeOK, TrimInput, locals
    <2>13. CASE EraseKeys
      <3>1. NoFrame \in Frame
        BY WorkerConstants DEF NoFrame, Frame, DefaultConfig, Config
      <3>2. heat' \in [Tokens -> Frame]
        BY <2>13, <3>1 DEF TypeOK, EraseKeys
      <3>3. config' \in [Tokens -> Config \cup {NoConfig}]
        BY <2>13 DEF TypeOK, EraseKeys
      <3> QED BY <2>13, <3>2, <3>3 DEF TypeOK, EraseKeys, locals
    <2>14. CASE EraseInput
      BY <2>14 DEF TypeOK, EraseInput, locals
    <2>15. CASE EraseOutput
      BY <2>15 DEF TypeOK, EraseOutput, locals
    <2>16. CASE Acknowledge
      BY <2>16 DEF TypeOK, Acknowledge, locals
    <2>17. CASE UNCHANGED vars
      BY <2>17 DEF TypeOK, vars, redis, locals
    <2> QED BY <2>1, <2>2, <2>3, <2>4, <2>5, <2>6, <2>7, <2>8, <2>9, <2>10, <2>11,
               <2>12, <2>13, <2>14, <2>15, <2>16, <2>17 DEF Next, Step, Others
  <1> QED BY <1>1, <1>2, PTL DEF Spec

-----------------------------------------------------------------------------
\* What the invariant says of one call.
LEMMA OneCall ==
    ASSUME DeliveryInv, NEW p \in Procs
    PROVE  /\ BatchConsistent(p)
           /\ raw[p] \subseteq 1 .. delivered
           /\ todo[p] \subseteq raw[p]
           /\ \A r \in made[p] : r \in Result /\ r.rec \in raw[p]
  BY DEF DeliveryInv, BatchConsistent, Held, TypeOK

\* A step of call p that publishes nothing, leaves the other calls alone and
\* takes no record another call has, keeps the invariant if p's batch stays
\* consistent.
LEMMA QuietStep ==
    ASSUME DeliveryInv, NEW p \in Procs,
           UNCHANGED results,
           \A q \in Procs \ {p} : /\ raw'[q] = raw[q]
                                  /\ todo'[q] = todo[q]
                                  /\ made'[q] = made[q]
                                  /\ pc'[q] = pc[q],
           \A q \in Procs \ {p} : raw'[p] \cap raw[q] = {},
           Answered' = Answered => BatchConsistent(p)'
    PROVE  /\ \A q \in Procs : BatchConsistent(q)'
           /\ DisjointBatches'
           /\ AtMostOneResult'
           /\ Answered' = Answered
  <1>1. Answered' = Answered
    BY DEF Answered
  <1>2. AtMostOneResult'
    BY DEF DeliveryInv, AtMostOneResult
  <1>3. DisjointBatches'
    BY DEF DeliveryInv, DisjointBatches
  <1>4. ASSUME NEW q \in Procs
        PROVE  BatchConsistent(q)'
    <2>1. CASE q = p
      BY <1>1, <2>1
    <2>2. CASE q # p
      <3>1. /\ raw'[q] = raw[q]
            /\ todo'[q] = todo[q]
            /\ made'[q] = made[q]
            /\ pc'[q] = pc[q]
            /\ Held(q)' = Held(q)
        BY <2>2 DEF Held
      <3> QED BY <1>1, <3>1 DEF DeliveryInv, BatchConsistent
    <2> QED BY <2>1, <2>2
  <1> QED BY <1>1, <1>2, <1>3, <1>4

\* A call that returns has nothing in hand, which is consistent.
LEMMA FinishConsistent ==
    ASSUME TypeOK, NEW p \in Procs, Finish(p)
    PROVE  /\ BatchConsistent(p)'
           /\ raw'[p] = {}
           /\ \A q \in Procs \ {p} : /\ raw'[q] = raw[q]
                                     /\ todo'[q] = todo[q]
                                     /\ made'[q] = made[q]
                                     /\ pc'[q] = pc[q]
  BY DEF TypeOK, Finish, BatchConsistent, Held

\* A call that returns and publishes nothing keeps the invariant.
LEMMA FinishStep ==
    ASSUME DeliveryInv, TypeOK', NEW p \in Procs, Finish(p), UNCHANGED <<results, delivered>>
    PROVE  DeliveryInv'
  <1>1. TypeOK
    BY DEF DeliveryInv
  <1>2. /\ BatchConsistent(p)'
        /\ raw'[p] = {}
        /\ \A q \in Procs \ {p} : /\ raw'[q] = raw[q]
                                  /\ todo'[q] = todo[q]
                                  /\ made'[q] = made[q]
                                  /\ pc'[q] = pc[q]
    BY <1>1, FinishConsistent
  <1>3. /\ \A q \in Procs : BatchConsistent(q)'
        /\ DisjointBatches'
        /\ AtMostOneResult'
        /\ Answered' = Answered
    <2>1. \A q \in Procs \ {p} : raw'[p] \cap raw[q] = {}
      BY <1>2
    <2> QED BY <1>2, <2>1, QuietStep
  <1> QED BY <1>3 DEF DeliveryInv

\* The invariant holds initially.
LEMMA DeliveryInit == Init => DeliveryInv
  <1> SUFFICES ASSUME Init
               PROVE  DeliveryInv
    OBVIOUS
  <1>1. TypeOK
    BY WorkerConstants DEF Init, TypeOK, NoFrame, Frame, DefaultConfig, Config
  <1>2. Answered = {}
    BY DEF Init, Answered
  <1>3. \A p \in Procs : BatchConsistent(p)
    BY DEF Init, BatchConsistent, Held
  <1>4. DisjointBatches /\ AtMostOneResult
    BY DEF Init, DisjointBatches, AtMostOneResult
  <1> QED BY <1>1, <1>2, <1>3, <1>4 DEF DeliveryInv

\* Every step of any call, service or failure keeps the invariant.
LEMMA DeliveryStep == TypeOK' /\ DeliveryInv /\ [Next]_vars => DeliveryInv'
  <1> SUFFICES ASSUME TypeOK', DeliveryInv, [Next]_vars
               PROVE  DeliveryInv'
    OBVIOUS
  <1>1. TypeOK
    BY DEF DeliveryInv
  <1>2. ASSUME NEW p \in Procs, Read(p)
        PROVE  DeliveryInv'
    <2>1. PICK last \in Unread :
              /\ delivered' = last
              /\ \/ StartBatch(p, {i \in Through(Unread, last) : entry[i].valid})
                 \/ UNCHANGED locals
      BY <1>2 DEF Read
    <2>2. /\ UNCHANGED results
          /\ pc[p] = "idle"
      BY <1>2 DEF Read
    <2>3. /\ last > delivered
          /\ last \in Nat
          /\ delivered \in Nat
          /\ \A i \in Unread : i \in Nat /\ i > delivered
      BY <1>1, <2>1, DeliveredBound
    <2>4. Answered \subseteq 1 .. delivered'
      BY <2>1, <2>3 DEF DeliveryInv
    <2>5. CASE UNCHANGED locals
      <3>1. BatchConsistent(p) /\ raw[p] = {}
        BY <2>2, OneCall DEF BatchConsistent
      <3>2. Answered' = Answered => BatchConsistent(p)'
        BY <2>5, <3>1 DEF BatchConsistent, locals, Held
      <3> QED BY <2>2, <2>4, <2>5, <3>1, <3>2, QuietStep DEF DeliveryInv, locals
    <2>6. CASE StartBatch(p, {i \in Through(Unread, last) : entry[i].valid})
      <3> DEFINE got == {i \in Through(Unread, last) : entry[i].valid}
      <3>1. /\ raw'[p] = got
            /\ todo'[p] = got
            /\ made'[p] = made[p]
            /\ pc'[p] = IF got = {} THEN "idle" ELSE "config"
            /\ \A q \in Procs \ {p} : /\ raw'[q] = raw[q]
                                      /\ todo'[q] = todo[q]
                                      /\ made'[q] = made[q]
                                      /\ pc'[q] = pc[q]
        BY <1>1, <2>6 DEF StartBatch, TypeOK
      <3>2. raw[p] = {}
        BY <2>2, OneCall DEF BatchConsistent
      <3>3. made[p] = {}
        BY <3>2, OneCall
      <3>4. \A i \in got : i > delivered /\ i \in Nat
        BY <2>3, ThroughBounds
      <3>5. \A i \in got : i \notin 1 .. delivered
        BY <2>3, <3>4
      <3>6. \A q \in Procs \ {p} : raw'[p] \cap raw[q] = {}
        BY <3>1, <3>5, OneCall
      <3>7. got \cap Answered = {}
        BY <3>5 DEF DeliveryInv
      <3>8. Held(p)' = got
        BY <3>1, <3>3 DEF Held
      <3>9. Answered' = Answered => BatchConsistent(p)'
        BY <3>1, <3>3, <3>7, <3>8 DEF BatchConsistent
      <3> HIDE DEF got
      <3> QED BY <2>2, <2>4, <3>1, <3>6, <3>9, QuietStep DEF DeliveryInv
    <2> QED BY <2>1, <2>5, <2>6
  <1>3. ASSUME NEW p \in Procs, Predict(p)
        PROVE  DeliveryInv'
    <2>1. PICK i, r :
              /\ i \in todo[p]
              /\ r = [rec |-> i, token |-> entry[i].token, cfg |-> ConfigOf(entry[i].token)]
              /\ IsFirst(i, todo[p])
              /\ made' = [made EXCEPT ![p] = @ \cup {r}]
              /\ \/ pc' = [pc EXCEPT ![p] = "heatmap"] /\ UNCHANGED todo
                 \/ ItemDone(p, i)
      BY <1>3 DEF Predict
    <2>2. /\ UNCHANGED <<results, raw, delivered>>
          /\ pc[p] = "config"
      BY <1>3 DEF Predict, redis
    <2>3. r.rec = i
      BY <2>1
    <2>4. /\ made'[p] = made[p] \cup {r}
          /\ \A q \in Procs \ {p} : /\ raw'[q] = raw[q]
                                    /\ todo'[q] = todo[q]
                                    /\ made'[q] = made[q]
                                    /\ pc'[q] = pc[q]
      BY <1>1, <2>1, <2>2 DEF TypeOK, ItemDone
    <2>5. \A q \in Procs \ {p} : raw'[p] \cap raw[q] = {}
      BY <2>2 DEF DeliveryInv, DisjointBatches
    <2>6. /\ BatchConsistent(p)
          /\ \A s \in made[p] : s.rec \notin todo[p]
      BY <2>2, OneCall DEF BatchConsistent
    <2>7. Answered' = Answered => BatchConsistent(p)'
      <3>1. CASE pc' = [pc EXCEPT ![p] = "heatmap"] /\ UNCHANGED todo
        <4>1. pc'[p] = "heatmap" /\ todo'[p] = todo[p] /\ raw'[p] = raw[p]
          BY <1>1, <2>2, <3>1 DEF TypeOK
        <4>2. Held(p)' = Held(p)
          BY <2>1, <2>3, <2>4, <4>1 DEF Held
        <4> QED BY <2>1, <2>3, <2>4, <2>6, <4>1, <4>2 DEF BatchConsistent
      <3>2. CASE ItemDone(p, i)
        <4>1. /\ todo'[p] = todo[p] \ {i}
              /\ pc'[p] = IF todo[p] = {i} THEN "push" ELSE "config"
              /\ raw'[p] = raw[p]
          BY <1>1, <2>2, <3>2 DEF TypeOK, ItemDone
        <4>2. Held(p)' = Held(p)
          BY <2>1, <2>3, <2>4, <4>1 DEF Held
        <4>3. \A s \in made'[p] : s.rec \notin todo'[p]
          BY <2>3, <2>4, <2>6, <4>1
        <4>4. \A s, u \in made'[p] : s.rec = u.rec => s = u
          BY <2>1, <2>3, <2>4, <2>6 DEF BatchConsistent
        <4>5. pc'[p] = "push" => todo'[p] = {}
          BY <4>1
        <4> QED BY <2>6, <4>1, <4>2, <4>3, <4>4, <4>5 DEF BatchConsistent
      <3> QED BY <2>1, <3>1, <3>2
    <2> QED BY <2>2, <2>4, <2>5, <2>7, QuietStep DEF DeliveryInv
  <1>4. ASSUME NEW p \in Procs, SetHeatmap(p)
        PROVE  DeliveryInv'
    <2>1. PICK r \in made[p] : IsFirst(r.rec, todo[p]) /\ ItemDone(p, r.rec)
      BY <1>4 DEF SetHeatmap
    <2>2. /\ UNCHANGED <<results, raw, made, delivered>>
          /\ pc[p] = "heatmap"
      BY <1>4 DEF SetHeatmap
    <2>3. /\ todo'[p] = todo[p] \ {r.rec}
          /\ pc'[p] = IF todo[p] = {r.rec} THEN "push" ELSE "config"
          /\ \A q \in Procs \ {p} : todo'[q] = todo[q] /\ pc'[q] = pc[q]
      BY <1>1, <2>1 DEF TypeOK, ItemDone
    <2>4. \A q \in Procs \ {p} : raw'[p] \cap raw[q] = {}
      BY <2>2 DEF DeliveryInv, DisjointBatches
    <2>5. /\ BatchConsistent(p)
          /\ \A s \in made[p] : s.rec \in todo[p] => IsFirst(s.rec, todo[p])
          /\ \A s \in made[p] : s.rec \in Nat
      BY <2>2, OneCall DEF BatchConsistent, Result
    <2>6. \A s \in made[p] : s.rec \notin todo'[p]
      BY <2>1, <2>3, <2>5 DEF IsFirst
    <2>7. Held(p)' = Held(p)
      BY <2>1, <2>2, <2>3 DEF Held, IsFirst
    <2>8. Answered' = Answered => BatchConsistent(p)'
      BY <2>2, <2>3, <2>5, <2>6, <2>7 DEF BatchConsistent
    <2> QED BY <2>2, <2>3, <2>4, <2>8, QuietStep DEF DeliveryInv
  <1>5. ASSUME NEW p \in Procs, Abandon(p)
        PROVE  DeliveryInv'
    <2>1. /\ Finish(p)
          /\ UNCHANGED <<results, delivered>>
      BY <1>5 DEF Abandon, redis
    <2> QED BY <2>1, FinishStep
  <1>6. ASSUME NEW p \in Procs, Push(p)
        PROVE  DeliveryInv'
    <2>1. PICK r \in made[p] :
              /\ Publish(r)
              /\ \/ /\ made' = [made EXCEPT ![p] = @ \ {r}]
                    /\ pc' = [pc EXCEPT ![p] = IF made[p] = {r} THEN "ack" ELSE "push"]
                    /\ UNCHANGED <<raw, todo>>
                 \/ Finish(p)
      BY <1>6 DEF Push
    <2>2. /\ UNCHANGED delivered
          /\ pc[p] = "push"
      BY <1>6 DEF Push
    <2>3. /\ BatchConsistent(p)
          /\ r \in Result
          /\ r.rec \in raw[p]
          /\ raw[p] \subseteq 1 .. delivered
          /\ todo[p] = {}
      BY <2>2, OneCall DEF BatchConsistent
    <2>4. /\ Answered' = Answered \cup {r.rec}
          /\ Len(results') = Len(results) + 1
          /\ results' = Append(results, r)
          /\ results \in Seq(Result)
      BY <1>1, <2>1, <2>3, PublishType DEF TypeOK, Publish
    <2>5. r.rec \notin Answered
      BY <2>1, <2>3 DEF BatchConsistent, Held
    <2>6. Answered' \subseteq 1 .. delivered'
      BY <2>2, <2>3, <2>4 DEF DeliveryInv
    <2>7. AtMostOneResult'
      <3>1. /\ DOMAIN results' = 1 .. Len(results) + 1
            /\ DOMAIN results = 1 .. Len(results)
            /\ Len(results) \in Nat
            /\ results'[Len(results) + 1] = r
            /\ \A k \in 1 .. Len(results) : results'[k] = results[k]
        BY <2>4
      <3>2. \A k \in DOMAIN results' : k \in DOMAIN results \/ k = Len(results) + 1
        BY <3>1
      <3>3. \A k \in DOMAIN results : results[k].rec # r.rec
        BY <2>5 DEF Answered
      <3> QED BY <3>1, <3>2, <3>3 DEF AtMostOneResult, DeliveryInv
    <2>8. ASSUME NEW q \in Procs, q # p
          PROVE  BatchConsistent(q)' /\ raw'[q] = raw[q]
      <3>1. /\ raw'[q] = raw[q]
            /\ todo'[q] = todo[q]
            /\ made'[q] = made[q]
            /\ pc'[q] = pc[q]
        BY <1>1, <2>1, <2>8 DEF TypeOK, Finish
      <3>2. Held(q)' = Held(q)
        BY <3>1 DEF Held
      <3>3. BatchConsistent(q)
        BY OneCall
      <3>4. r.rec \notin Held(q)
        BY <2>3, <2>8, <3>3 DEF DeliveryInv, DisjointBatches, BatchConsistent
      <3> QED BY <2>4, <3>1, <3>2, <3>3, <3>4 DEF BatchConsistent
    <2>9. BatchConsistent(p)' /\ raw'[p] \subseteq raw[p]
      <3>1. CASE Finish(p)
        BY <1>1, <3>1, FinishConsistent
      <3>2. CASE /\ made' = [made EXCEPT ![p] = @ \ {r}]
                 /\ pc' = [pc EXCEPT ![p] = IF made[p] = {r} THEN "ack" ELSE "push"]
                 /\ UNCHANGED <<raw, todo>>
        <4>1. /\ made'[p] = made[p] \ {r}
              /\ pc'[p] = IF made[p] = {r} THEN "ack" ELSE "push"
              /\ raw'[p] = raw[p]
              /\ todo'[p] = {}
          BY <1>1, <2>3, <3>2 DEF TypeOK
        <4>2. Held(p)' = Held(p) \ {r.rec}
          BY <2>1, <2>3, <4>1 DEF Held, BatchConsistent
        <4>3. r.rec \in Held(p)
          BY <2>1 DEF Held
        <4>4. /\ Held(p)' \subseteq raw'[p]
              /\ raw'[p] \subseteq Answered' \cup Held(p)'
              /\ Held(p)' \cap Answered' = {}
          BY <2>3, <2>4, <4>1, <4>2, <4>3 DEF BatchConsistent
        <4>5. /\ pc'[p] \in {"push", "ack"}
              /\ pc'[p] = "ack" => made'[p] = {}
          BY <4>1
        <4> QED BY <2>3, <4>1, <4>4, <4>5 DEF BatchConsistent
      <3> QED BY <2>1, <3>1, <3>2
    <2>10. DisjointBatches'
      BY <2>8, <2>9 DEF DeliveryInv, DisjointBatches
    <2> QED BY <2>6, <2>7, <2>8, <2>9, <2>10 DEF DeliveryInv
  <1>7. ASSUME NEW p \in Procs, Ack(p)
        PROVE  DeliveryInv'
    <2>1. /\ UNCHANGED <<results, delivered>>
          /\ pc[p] = "ack"
          /\ \/ pc' = [pc EXCEPT ![p] = "xdel"] /\ UNCHANGED <<raw, todo, made>>
             \/ Finish(p)
      BY <1>7 DEF Ack
    <2>2. CASE Finish(p)
      BY <2>1, <2>2, FinishStep
    <2>3. CASE pc' = [pc EXCEPT ![p] = "xdel"] /\ UNCHANGED <<raw, todo, made>>
      <3>1. /\ pc'[p] = "xdel"
            /\ \A q \in Procs \ {p} : pc'[q] = pc[q]
        BY <1>1, <2>3 DEF TypeOK
      <3>2. BatchConsistent(p)
        BY OneCall
      <3>3. Answered' = Answered => BatchConsistent(p)'
        BY <2>1, <2>3, <3>1, <3>2 DEF BatchConsistent, Held
      <3>4. \A q \in Procs \ {p} : raw'[p] \cap raw[q] = {}
        BY <2>3 DEF DeliveryInv, DisjointBatches
      <3> QED BY <2>1, <2>3, <3>1, <3>3, <3>4, QuietStep DEF DeliveryInv
    <2> QED BY <2>1, <2>2, <2>3
  <1>8. ASSUME NEW p \in Procs, Delete(p)
        PROVE  DeliveryInv'
    <2>1. /\ Finish(p)
          /\ UNCHANGED <<results, delivered>>
      BY <1>8 DEF Delete
    <2> QED BY <2>1, FinishStep
  <1>9. CASE Crash
    <2>1. /\ UNCHANGED <<results, delivered>>
          /\ \A p \in Procs : /\ pc'[p] = "down"
                              /\ raw'[p] = {}
                              /\ todo'[p] = {}
                              /\ made'[p] = {}
      BY <1>9 DEF Crash, redis
    <2>2. \A p \in Procs : BatchConsistent(p)'
      BY <2>1 DEF BatchConsistent, Held
    <2> QED BY <2>1, <2>2 DEF DeliveryInv, DisjointBatches, AtMostOneResult, Answered
  <1>10. CASE Restart
    <2>1. /\ UNCHANGED <<results, delivered, raw, todo, made>>
          /\ \A p \in Procs : pc[p] = "down" /\ pc'[p] = "idle"
      BY <1>10 DEF Restart, redis
    <2>2. Answered' = Answered
      BY <2>1 DEF Answered
    <2>3. ASSUME NEW p \in Procs
          PROVE  BatchConsistent(p)'
      <3>1. BatchConsistent(p)
        BY OneCall
      <3> QED BY <2>1, <2>2, <3>1 DEF BatchConsistent, Held
    <2> QED BY <2>1, <2>2, <2>3 DEF DeliveryInv, DisjointBatches, AtMostOneResult
  <1>11. ASSUME UNCHANGED <<results, delivered, locals>>
         PROVE  DeliveryInv'
    <2>1. UNCHANGED Answered
      BY <1>11 DEF Answered
    <2>2. ASSUME NEW p \in Procs
          PROVE  BatchConsistent(p)'
      <3>1. BatchConsistent(p)
        BY OneCall
      <3> QED BY <1>11, <2>1, <3>1 DEF BatchConsistent, Held, locals
    <2> QED BY <1>11, <2>1, <2>2
            DEF DeliveryInv, DisjointBatches, AtMostOneResult, locals
  <1>12. ASSUME NEW e \in Entries, Enqueue(e)
         PROVE  DeliveryInv'
    BY <1>11, <1>12 DEF Enqueue
  <1>13. ASSUME NEW t \in Tokens, NEW c \in Configs, PutConfig(t, c)
         PROVE  DeliveryInv'
    BY <1>11, <1>13 DEF PutConfig
  <1>14. ASSUME TrimInput \/ EraseKeys \/ EraseInput \/ EraseOutput \/ Acknowledge
         PROVE  DeliveryInv'
    BY <1>11, <1>14 DEF TrimInput, EraseKeys, EraseInput, EraseOutput, Acknowledge
  <1>15. CASE UNCHANGED vars
    BY <1>11, <1>15 DEF vars, redis
  <1> QED BY <1>2, <1>3, <1>4, <1>5, <1>6, <1>7, <1>8, <1>9, <1>10, <1>12, <1>13,
             <1>14, <1>15 DEF Next, Step, Others

\* The delivery invariant holds in every reachable state.
THEOREM DeliveryCorrect == Spec => []DeliveryInv
  <1>1. TypeOK' /\ DeliveryInv /\ [Next]_vars => DeliveryInv'
    BY DeliveryStep
  <1>2. Init => DeliveryInv
    BY DeliveryInit
  <1> QED BY <1>1, <1>2, TypeCorrect, PTL DEF Spec

\* A record gets at most one result, whatever fails and however many calls of
\* process_once run at once.
THEOREM ResultsAtMostOnce == Spec => []AtMostOneResult
  <1>1. DeliveryInv => AtMostOneResult
    BY DEF DeliveryInv
  <1> QED BY <1>1, DeliveryCorrect, PTL

\* No record is ever in the batches of two calls of process_once.
THEOREM BatchesAreDisjoint == Spec => []DisjointBatches
  <1>1. DeliveryInv => DisjointBatches
    BY DEF DeliveryInv
  <1> QED BY <1>1, DeliveryCorrect, PTL

\* Apart from StopSession's purge nothing is acknowledged unanswered.
THEOREM AcknowledgedOnlyAnswered == Spec => AcknowledgedIsAnswered
  <1> DEFINE A == ~Acknowledge => pending \ pending' \subseteq Answered
  <1>1. DeliveryInv /\ [Next]_vars => [A]_vars
    <2> SUFFICES ASSUME DeliveryInv, Next, ~Acknowledge
                 PROVE  pending \ pending' \subseteq Answered
      OBVIOUS
    <2>1. ASSUME NEW p \in Procs, Ack(p)
          PROVE  pending \ pending' \subseteq Answered
      <3>1. /\ pending \ pending' \subseteq raw[p]
            /\ pc[p] = "ack"
        BY <2>1 DEF Ack
      <3>2. raw[p] \subseteq Answered
        BY <3>1, OneCall DEF BatchConsistent, Held
      <3> QED BY <3>1, <3>2
    <2>2. ASSUME NEW p \in Procs, Step(p), ~Ack(p)
          PROVE  pending \subseteq pending'
      BY <2>2 DEF Step, Read, Predict, SetHeatmap, Abandon, Push, Delete, redis
    <2>3. ASSUME Crash \/ Restart \/ Others
          PROVE  pending \subseteq pending'
      BY <2>3 DEF Crash, Restart, Others, Enqueue, TrimInput, PutConfig, EraseKeys,
                  EraseInput, EraseOutput, redis
    <2> QED BY <2>1, <2>2, <2>3 DEF Next
  <1>2. Spec => [][A]_vars
    BY <1>1, DeliveryCorrect, PTL DEF Spec
  <1> QED BY <1>2 DEF AcknowledgedIsAnswered

-----------------------------------------------------------------------------
(***************************************************************************)
(* The worker and its stream implement AtMostOnceQueue.                    *)
(***************************************************************************)

\* A step that submits and answers nothing, and in which no record becomes
\* unread or comes into a call's hands, is a Lose step of the queue.
LEMMA LoseStep ==
    ASSUME UNCHANGED <<entry, delivered, results>>,
           input' \subseteq input,
           \A p \in Procs : Held(p)' \subseteq Held(p)
    PROVE  Queue!Next
  <1>1. UNCHANGED <<Len(entry), Answered>>
    BY DEF Answered
  <1>2. Unread' \subseteq Unread
    BY DEF Unread, Undelivered
  <1>3. InHand' \subseteq InHand
    BY DEF InHand
  <1>4. Queue!Lose
    BY <1>1, <1>2, <1>3 DEF Queue!Lose
  <1> QED BY <1>4 DEF Queue!Next

\* A call that returns has nothing in hand any more.
LEMMA FinishHeld ==
    ASSUME TypeOK, NEW p \in Procs, Finish(p)
    PROVE  \A q \in Procs : Held(q)' \subseteq Held(q)
  BY DEF TypeOK, Finish, Held

\* Every step of the worker is a step of the queue or a stuttering step.
LEMMA QueueStep == DeliveryInv /\ [Next]_vars => [Queue!Next]_(Queue!vars)
  <1> SUFFICES ASSUME DeliveryInv, [Next]_vars
               PROVE  Queue!Next \/ UNCHANGED Queue!vars
    OBVIOUS
  <1>1. TypeOK
    BY DEF DeliveryInv
  <1>2. ASSUME NEW p \in Procs, Read(p)
        PROVE  Queue!Next
    <2>1. PICK last \in Unread :
              /\ delivered' = last
              /\ \/ StartBatch(p, {i \in Through(Unread, last) : entry[i].valid})
                 \/ UNCHANGED locals
      BY <1>2 DEF Read
    <2>2. /\ UNCHANGED <<entry, input, results>>
          /\ pc[p] = "idle"
      BY <1>2 DEF Read
    <2>3. /\ last \in Nat
          /\ delivered \in Nat
          /\ last > delivered
          /\ \A i \in Unread : i \in Nat /\ i > delivered
          /\ \A i \in input : i \in Nat
      BY <1>1, <2>1, DeliveredBound DEF TypeOK
    <2>4. Unread' = {i \in Unread : i > last}
      <3>1. Unread' = {i \in input : i > last}
        BY <2>1, <2>2 DEF Unread, Undelivered
      <3>2. \A i \in input : i > last => i > delivered
        BY <2>3
      <3>3. \A i : i \in Unread <=> i \in input /\ i > delivered
        BY DEF Unread, Undelivered
      <3> QED BY <3>1, <3>2, <3>3
    <2>5. Held(p) = {}
      BY <2>2, OneCall DEF BatchConsistent
    <2>6. /\ \A q \in Procs : Held(q) \subseteq Held(q)'
          /\ \A q \in Procs : Held(q)' \subseteq Held(q) \cup Through(Unread, last)
      <3>1. CASE UNCHANGED locals
        BY <3>1 DEF locals, Held
      <3>2. CASE StartBatch(p, {i \in Through(Unread, last) : entry[i].valid})
        <4>1. /\ made' = made
              /\ todo'[p] \subseteq Through(Unread, last)
              /\ \A q \in Procs \ {p} : todo'[q] = todo[q]
          BY <1>1, <3>2 DEF StartBatch, TypeOK
        <4>2. Held(p)' \subseteq Through(Unread, last)
          BY <2>5, <4>1 DEF Held
        <4>3. \A q \in Procs \ {p} : Held(q)' = Held(q)
          BY <4>1 DEF Held
        <4> QED BY <2>5, <4>2, <4>3
      <3> QED BY <2>1, <3>1, <3>2
    <2>7. InHand \subseteq InHand'
      BY <2>1, <2>3, <2>6 DEF InHand
    <2>8. InHand' \subseteq InHand \cup (Unread \ Unread')
      <3> SUFFICES ASSUME NEW i \in InHand'
                   PROVE  i \in InHand \cup (Unread \ Unread')
        OBVIOUS
      <3>1. PICK q \in Procs : i \in Held(q)'
        BY DEF InHand
      <3>2. CASE i \in Held(q)
        BY <3>2, OneCall DEF InHand, BatchConsistent
      <3>3. CASE i \in Through(Unread, last)
        BY <2>3, <2>4, <3>3 DEF Through
      <3> QED BY <2>6, <3>1, <3>2, <3>3
    <2>9. UNCHANGED <<Len(entry), Answered>>
      BY <2>2 DEF Answered
    <2>10. Queue!Take
      BY <2>1, <2>4, <2>7, <2>8, <2>9 DEF Queue!Take
    <2> QED BY <2>10 DEF Queue!Next
  <1>3. ASSUME NEW p \in Procs, Predict(p)
        PROVE  Queue!Next
    <2>1. PICK i, r :
              /\ i \in todo[p]
              /\ r = [rec |-> i, token |-> entry[i].token, cfg |-> ConfigOf(entry[i].token)]
              /\ made' = [made EXCEPT ![p] = @ \cup {r}]
              /\ UNCHANGED todo \/ ItemDone(p, i)
      BY <1>3 DEF Predict
    <2>2. r.rec = i
      BY <2>1
    <2>3. /\ made'[p] = made[p] \cup {r}
          /\ todo'[p] = todo[p] \/ todo'[p] = todo[p] \ {i}
          /\ \A q \in Procs \ {p} : todo'[q] = todo[q] /\ made'[q] = made[q]
      BY <1>1, <2>1 DEF TypeOK, ItemDone
    <2>4. \A q \in Procs : Held(q)' \subseteq Held(q)
      BY <2>1, <2>2, <2>3 DEF Held
    <2> QED BY <1>3, <2>4, LoseStep DEF Predict, redis
  <1>4. ASSUME NEW p \in Procs, SetHeatmap(p)
        PROVE  Queue!Next
    <2>1. UNCHANGED made /\ \A q \in Procs : todo'[q] \subseteq todo[q]
      BY <1>1, <1>4 DEF TypeOK, SetHeatmap, ItemDone
    <2>2. \A q \in Procs : Held(q)' \subseteq Held(q)
      BY <2>1 DEF Held
    <2> QED BY <1>4, <2>2, LoseStep DEF SetHeatmap
  <1>5. ASSUME NEW p \in Procs, Abandon(p)
        PROVE  Queue!Next
    <2>1. Finish(p) /\ UNCHANGED <<entry, delivered, results, input>>
      BY <1>5 DEF Abandon, redis
    <2> QED BY <1>1, <2>1, FinishHeld, LoseStep
  <1>6. ASSUME NEW p \in Procs, Push(p)
        PROVE  Queue!Next
    <2>1. PICK r \in made[p] :
              /\ Publish(r)
              /\ \/ made' = [made EXCEPT ![p] = @ \ {r}] /\ UNCHANGED todo
                 \/ Finish(p)
      BY <1>6 DEF Push
    <2>2. /\ UNCHANGED <<entry, input, delivered>>
          /\ pc[p] = "push"
      BY <1>6 DEF Push
    <2>3. /\ BatchConsistent(p)
          /\ r \in Result
          /\ r.rec \in raw[p]
          /\ raw[p] \subseteq 1 .. delivered
          /\ todo[p] = {}
      BY <2>1, <2>2, OneCall DEF BatchConsistent
    <2>4. Answered' = Answered \cup {r.rec}
      BY <1>1, <2>1, <2>3, PublishType
    <2>5. r.rec \in InHand
      BY <2>1, <2>3 DEF InHand, Held
    <2>6. ASSUME NEW q \in Procs
          PROVE  Held(q)' \subseteq Held(q) \ {r.rec}
      <3>1. CASE q = p
        <4>1. CASE Finish(p)
          <5>1. todo'[p] = {} /\ made'[p] = {}
            BY <1>1, <4>1 DEF TypeOK, Finish
          <5> QED BY <3>1, <5>1 DEF Held
        <4>2. CASE made' = [made EXCEPT ![p] = @ \ {r}] /\ UNCHANGED todo
          <5>1. /\ made'[p] = made[p] \ {r}
                /\ todo'[p] = {}
            BY <1>1, <2>3, <4>2 DEF TypeOK
          <5> QED BY <2>1, <2>3, <3>1, <5>1 DEF Held, BatchConsistent
        <4> QED BY <2>1, <4>1, <4>2
      <3>2. CASE q # p
        <4>1. todo'[q] = todo[q] /\ made'[q] = made[q]
          BY <1>1, <2>1, <3>2 DEF TypeOK, Finish
        <4>2. r.rec \notin raw[q]
          BY <2>3, <3>2 DEF DeliveryInv, DisjointBatches
        <4>3. BatchConsistent(q)
          BY OneCall
        <4> QED BY <4>1, <4>2, <4>3 DEF Held, BatchConsistent
      <3> QED BY <3>1, <3>2
    <2>7. InHand' \subseteq InHand \ {r.rec}
      BY <2>2, <2>6 DEF InHand
    <2>8. UNCHANGED <<Len(entry), Unread>>
      BY <2>2 DEF Unread
    <2>9. Queue!Answer
      BY <2>4, <2>5, <2>7, <2>8 DEF Queue!Answer
    <2> QED BY <2>9 DEF Queue!Next
  <1>7. ASSUME NEW p \in Procs, Ack(p)
        PROVE  Queue!Next
    <2>1. /\ UNCHANGED <<entry, delivered, results, input>>
          /\ UNCHANGED <<todo, made>> \/ Finish(p)
      BY <1>7 DEF Ack
    <2>2. \A q \in Procs : Held(q)' \subseteq Held(q)
      BY <1>1, <2>1, FinishHeld DEF Held
    <2> QED BY <2>1, <2>2, LoseStep
  <1>8. ASSUME NEW p \in Procs, Delete(p)
        PROVE  Queue!Next
    <2>1. /\ UNCHANGED <<entry, delivered, results>>
          /\ input' \subseteq input
          /\ Finish(p)
      BY <1>8 DEF Delete
    <2> QED BY <1>1, <2>1, FinishHeld, LoseStep
  <1>9. CASE Crash
    <2>1. \A q \in Procs : Held(q)' \subseteq Held(q)
      BY <1>9 DEF Crash, Held
    <2> QED BY <1>9, <2>1, LoseStep DEF Crash, redis
  <1>10. CASE Restart
    <2>1. \A q \in Procs : Held(q)' \subseteq Held(q)
      BY <1>10 DEF Restart, Held
    <2> QED BY <1>10, <2>1, LoseStep DEF Restart, redis
  <1>11. ASSUME NEW e \in Entries, Enqueue(e)
         PROVE  Queue!Next
    <2>1. /\ UNCHANGED <<delivered, results, todo, made>>
          /\ Len(entry') = Len(entry) + 1
          /\ input' = input \cup {Len(entry) + 1}
      <3>1. Len(entry') = Len(entry) + 1
        BY <1>1, <1>11 DEF Enqueue, TypeOK
      <3> QED BY <1>11, <3>1 DEF Enqueue, locals
    <2>2. Unread' = Unread \cup {Len(entry) + 1}
      <3>1. Len(entry) + 1 > delivered
        BY <1>1, DeliveredBound
      <3> QED BY <2>1, <3>1 DEF Unread, Undelivered
    <2>3. UNCHANGED <<InHand, Answered>>
      BY <2>1 DEF InHand, Held, Answered
    <2>4. Queue!Submit
      BY <2>1, <2>2, <2>3 DEF Queue!Submit
    <2> QED BY <2>4 DEF Queue!Next
  <1>12. ASSUME NEW t \in Tokens, NEW c \in Configs, PutConfig(t, c)
         PROVE  Queue!Next
    <2>1. \A q \in Procs : Held(q)' \subseteq Held(q)
      BY <1>12 DEF PutConfig, locals, Held
    <2> QED BY <1>12, <2>1, LoseStep DEF PutConfig
  <1>13. ASSUME TrimInput \/ EraseKeys \/ EraseInput \/ EraseOutput \/ Acknowledge
         PROVE  Queue!Next
    <2>1. /\ UNCHANGED <<entry, delivered, results, locals>>
          /\ input' \subseteq input
      BY <1>13, TrimmedSubset
         DEF TrimInput, EraseKeys, EraseInput, EraseOutput, Acknowledge
    <2>2. \A q \in Procs : Held(q)' \subseteq Held(q)
      BY <2>1 DEF locals, Held
    <2> QED BY <2>1, <2>2, LoseStep
  <1>14. CASE UNCHANGED vars
    BY <1>14 DEF vars, redis, locals, Queue!vars, Unread, InHand, Held, Answered
  <1> QED BY <1>2, <1>3, <1>4, <1>5, <1>6, <1>7, <1>8, <1>9, <1>10, <1>11, <1>12,
             <1>13, <1>14 DEF Next, Step, Others

\* The inference service over its stream is an at-most-once, first-come queue:
\* records are handed over in order, and answered at most once, by their holder.
THEOREM WorkerImplementsQueue == Spec => ImplementsQueue
  <1>1. Init => Queue!Init
    <2> SUFFICES ASSUME Init
                 PROVE  Queue!Init
      OBVIOUS
    <2>1. Len(entry) = 0 /\ Unread = {}
      BY DEF Init, Unread, Undelivered
    <2>2. InHand = {} /\ Answered = {}
      BY DEF Init, InHand, Held, Answered
    <2> QED BY <2>1, <2>2 DEF Queue!Init
  <1>2. DeliveryInv /\ [Next]_vars => [Queue!Next]_(Queue!vars)
    BY QueueStep
  <1>3. Spec => Queue!Spec
    BY <1>1, <1>2, DeliveryCorrect, PTL DEF Spec, Queue!Spec
  <1> QED BY <1>3 DEF ImplementsQueue

-----------------------------------------------------------------------------
(***************************************************************************)
(* What a heatmap agrees with, for any number of callers of process_once,  *)
(* and the order in which the background loop alone publishes.  Both rest  *)
(* on the delivery invariant: a record is in one batch and has one result. *)
(***************************************************************************)

\* No item that is still to be worked on has its frame in the heatmap, and
\* whoever has made or published the result of a frame's record made both with
\* one config.
FrameKnown(t) ==
    /\ heat[t].rec \in 0 .. delivered
    /\ \A k \in DOMAIN results :
          results[k].rec = heat[t].rec =>
              results[k].token = t /\ results[k].cfg = heat[t].cfg
    /\ \A p \in Procs : heat[t].rec \notin todo[p]
    /\ \A p \in Procs : \A r \in made[p] :
          r.rec = heat[t].rec => r.token = t /\ r.cfg = heat[t].cfg

FrameInv == \A t \in Tokens : FrameKnown(t)

\* Nothing has record 0, the one of the absent frame.
LEMMA NoRecordZero ==
    ASSUME DeliveryInv
    PROVE  /\ \A k \in DOMAIN results : results[k].rec # 0
           /\ \A p \in Procs : 0 \notin todo[p]
           /\ \A p \in Procs : \A r \in made[p] : r.rec # 0
  <1>1. delivered \in Nat
    BY DeliveredBound DEF DeliveryInv
  <1>2. \A i \in 1 .. delivered : i # 0
    BY <1>1
  <1>3. \A k \in DOMAIN results : results[k].rec \in 1 .. delivered
    BY DEF DeliveryInv, Answered
  <1>4. ASSUME NEW p \in Procs
        PROVE  todo[p] \subseteq 1 .. delivered /\ \A r \in made[p] : r.rec \in 1 .. delivered
    BY OneCall
  <1> QED BY <1>2, <1>3, <1>4

\* Before and after a step in which the frames stay, nothing is published and
\* no call takes anything in hand.
Fewer ==
    /\ UNCHANGED <<heat, results, delivered>>
    /\ \A p \in Procs : todo'[p] \subseteq todo[p] /\ made'[p] \subseteq made[p]

\* A call that returns has less in hand.
LEMMA FinishFewer ==
    ASSUME TypeOK, NEW p \in Procs, Finish(p)
    PROVE  \A q \in Procs : todo'[q] \subseteq todo[q] /\ made'[q] \subseteq made[q]
  BY DEF TypeOK, Finish

\* The loop is done with an item.
LEMMA ItemDoneTodo ==
    ASSUME TypeOK, NEW p \in Procs, NEW i, ItemDone(p, i)
    PROVE  /\ todo'[p] = todo[p] \ {i}
           /\ \A q \in Procs \ {p} : todo'[q] = todo[q]
  BY DEF TypeOK, ItemDone

\* The steps in which the frames stay, nothing is published or taken in hand.
LEMMA FewerSteps ==
    ASSUME TypeOK,
           \/ \E p \in Procs : Abandon(p) \/ Ack(p) \/ Delete(p)
           \/ Crash \/ Restart
           \/ Others /\ ~EraseKeys
           \/ UNCHANGED vars
    PROVE  Fewer
  <1>1. ASSUME NEW p \in Procs, Abandon(p)
        PROVE  Fewer
    BY <1>1, FinishFewer DEF Abandon, Fewer, redis
  <1>2. ASSUME NEW p \in Procs, Ack(p)
        PROVE  Fewer
    <2>1. Finish(p) \/ UNCHANGED <<raw, todo, made>>
      BY <1>2 DEF Ack
    <2> QED BY <1>2, <2>1, FinishFewer DEF Ack, Fewer
  <1>3. ASSUME NEW p \in Procs, Delete(p)
        PROVE  Fewer
    BY <1>3, FinishFewer DEF Delete, Fewer
  <1>4. CASE Crash
    BY <1>4 DEF Crash, Fewer, redis
  <1>5. CASE Restart \/ UNCHANGED vars
    BY <1>5 DEF Restart, Fewer, vars, redis, locals
  <1>6. CASE Others /\ ~EraseKeys
    BY <1>6 DEF Others, Enqueue, TrimInput, PutConfig, EraseInput, EraseOutput,
                Acknowledge, Fewer, locals
  <1> QED BY <1>1, <1>2, <1>3, <1>4, <1>5, <1>6

\* Every step keeps what is known of the frames.
LEMMA FrameStep == DeliveryInv /\ FrameInv /\ [Next]_vars => FrameInv'
  <1> SUFFICES ASSUME DeliveryInv, FrameInv, [Next]_vars,
                      NEW t \in Tokens
               PROVE  FrameKnown(t)'
    BY DEF FrameInv
  <1>t. TypeOK /\ delivered \in Nat
    BY DeliveredBound DEF DeliveryInv
  <1>k. FrameKnown(t)
    BY DEF FrameInv
  <1>1. ASSUME Fewer
        PROVE  FrameKnown(t)'
    BY <1>1, <1>k DEF Fewer, FrameKnown
  <1>2. ASSUME NEW p \in Procs, Read(p)
        PROVE  FrameKnown(t)'
    <2>1. PICK last \in Unread :
             /\ delivered' = last
             /\ \/ StartBatch(p, {i \in Through(Unread, last) : entry[i].valid})
                \/ UNCHANGED locals
      BY <1>2 DEF Read
    <2>2. UNCHANGED <<heat, results>>
      BY <1>2 DEF Read
    <2>3. /\ last > delivered /\ last \in Nat
          /\ \A i \in Unread : i > delivered /\ i \in Nat
      BY <1>t, DeliveredBound
    <2>4. made' = made /\ \A q \in Procs : \A i \in todo'[q] : i \in todo[q] \/ i \in Unread
      BY <2>1, <1>t DEF StartBatch, locals, Through, TypeOK
    <2>5. heat[t].rec \in 0 .. delivered
      BY <1>k DEF FrameKnown
    <2>6. heat[t].rec \in 0 .. last
      BY <1>t, <2>3, <2>5
    <2>7. heat[t].rec \notin Unread
      BY <1>t, <2>3, <2>5
    <2> QED BY <1>k, <2>1, <2>2, <2>4, <2>6, <2>7 DEF FrameKnown
  <1>3. ASSUME NEW p \in Procs, Predict(p)
        PROVE  FrameKnown(t)'
    <2>1. PICK i \in todo[p] :
             /\ made' = [made EXCEPT ![p] = @ \cup {[rec |-> i, token |-> entry[i].token,
                                                    cfg |-> ConfigOf(entry[i].token)]}]
             /\ UNCHANGED todo \/ ItemDone(p, i)
      BY <1>3 DEF Predict
    <2> DEFINE r == [rec |-> i, token |-> entry[i].token, cfg |-> ConfigOf(entry[i].token)]
    <2>2. UNCHANGED <<heat, results, delivered>>
      BY <1>3 DEF Predict, redis
    <2>3. \A q \in Procs : todo'[q] \subseteq todo[q]
      BY <1>t, <2>1, ItemDoneTodo
    <2>4. \A q \in Procs : \A s \in made'[q] : s \in made[q] \/ s.rec = i
      BY <1>t, <2>1 DEF TypeOK
    <2>5. heat[t].rec # i
      BY <1>k DEF FrameKnown
    <2> QED BY <1>k, <2>2, <2>3, <2>4, <2>5 DEF FrameKnown
  <1>4. ASSUME NEW p \in Procs, SetHeatmap(p)
        PROVE  FrameKnown(t)'
    <2>1. PICK r \in made[p] :
             /\ IsFirst(r.rec, todo[p])
             /\ \/ heat' = [heat EXCEPT ![r.token] = [rec |-> r.rec, cfg |-> r.cfg]]
                \/ UNCHANGED heat
             /\ ItemDone(p, r.rec)
      BY <1>4 DEF SetHeatmap
    <2>2. UNCHANGED <<results, delivered, made>>
      BY <1>4 DEF SetHeatmap
    <2>3. /\ todo'[p] = todo[p] \ {r.rec}
          /\ \A q \in Procs \ {p} : todo'[q] = todo[q]
      BY <1>t, <2>1, ItemDoneTodo
    <2>4. CASE heat'[t] = heat[t]
      BY <1>k, <2>2, <2>3, <2>4 DEF FrameKnown
    <2>5. CASE heat'[t] # heat[t]
      <3>1. r.token = t /\ heat'[t] = [rec |-> r.rec, cfg |-> r.cfg]
        BY <1>t, <2>1, <2>5 DEF TypeOK
      <3>2. heat'[t].rec = r.rec /\ heat'[t].cfg = r.cfg
        BY <3>1
      <3>3. r.rec \in todo[p] /\ r.rec \in raw[p] /\ r.rec \in 1 .. delivered
        BY <2>1, OneCall DEF IsFirst
      <3>4. r.rec \in 0 .. delivered
        BY <1>t, <3>3
      <3>5. \A k \in DOMAIN results : results[k].rec # r.rec
        <4>1. Held(p) \cap Answered = {} /\ r.rec \in Held(p)
          BY OneCall, <3>3 DEF BatchConsistent, Held
        <4> QED BY <4>1 DEF Answered
      <3>6. ASSUME NEW q \in Procs, q # p
            PROVE  r.rec \notin todo[q] /\ \A s \in made[q] : s.rec # r.rec
        <4>1. raw[p] \cap raw[q] = {}
          BY <3>6 DEF DeliveryInv, DisjointBatches
        <4> QED BY <3>3, <4>1, OneCall
      <3>7. \A s \in made[p] : s.rec = r.rec => s = r
        BY OneCall DEF BatchConsistent
      <3>8. \A q \in Procs : r.rec \notin todo'[q]
        BY <2>3, <3>6
      <3>9. \A q \in Procs : \A s \in made[q] : s.rec = r.rec => s = r
        BY <3>6, <3>7
      <3> QED BY <2>2, <3>1, <3>2, <3>4, <3>5, <3>8, <3>9 DEF FrameKnown
    <2> QED BY <2>4, <2>5
  <1>5. ASSUME NEW p \in Procs, Push(p)
        PROVE  FrameKnown(t)'
    <2>1. PICK r \in made[p] :
             /\ Publish(r)
             /\ \/ /\ made' = [made EXCEPT ![p] = @ \ {r}]
                   /\ UNCHANGED <<raw, todo>>
                \/ Finish(p)
      BY <1>5 DEF Push
    <2>2. UNCHANGED <<heat, delivered>>
      BY <1>5 DEF Push
    <2>3. \A q \in Procs : todo'[q] \subseteq todo[q] /\ made'[q] \subseteq made[q]
      BY <1>t, <2>1, FinishFewer DEF TypeOK
    <2>4. \A k \in DOMAIN results' : results'[k] = r \/ (k \in DOMAIN results /\ results'[k] = results[k])
      <3>1. results' = Append(results, r) /\ results \in Seq(Result)
        BY <1>t, <2>1 DEF Publish, TypeOK
      <3> QED BY <3>1
    <2>5. r.rec = heat[t].rec => r.token = t /\ r.cfg = heat[t].cfg
      BY <1>k DEF FrameKnown
    <2> QED BY <1>k, <2>2, <2>3, <2>4, <2>5 DEF FrameKnown
  <1>6. ASSUME EraseKeys
        PROVE  FrameKnown(t)'
    <2>1. heat'[t] = heat[t] \/ heat'[t] = NoFrame
      BY <1>6 DEF EraseKeys
    <2>2. UNCHANGED <<results, delivered, todo, made>>
      BY <1>6 DEF EraseKeys, locals
    <2>3. CASE heat'[t] = heat[t]
      BY <1>k, <2>2, <2>3 DEF FrameKnown
    <2>4. CASE heat'[t] = NoFrame
      <3>1. heat'[t].rec = 0 /\ 0 \in 0 .. delivered
        BY <1>t, <2>4 DEF NoFrame
      <3> QED BY <2>2, <3>1, NoRecordZero DEF FrameKnown
    <2> QED BY <2>1, <2>3, <2>4
  <1> QED BY <1>t, <1>1, <1>2, <1>3, <1>4, <1>5, <1>6, FewerSteps DEF Next, Step

\* The frames are known in every reachable state.
LEMMA FrameHolds == Spec => []FrameInv
  <1>1. Init => FrameInv
    <2> SUFFICES ASSUME Init, NEW t \in Tokens
                 PROVE  FrameKnown(t)
      BY DEF FrameInv
    <2>1. heat[t].rec = 0 /\ 0 \in 0 .. delivered
      BY DEF Init, NoFrame
    <2> QED BY <2>1 DEF Init, FrameKnown
  <1>2. DeliveryInv /\ FrameInv /\ [Next]_vars => FrameInv'
    BY FrameStep
  <1> QED BY <1>1, <1>2, DeliveryCorrect, PTL DEF Spec

\* The heatmap of a session and the result of its record were computed from one
\* config (worker.py, process_once), whatever is configured meanwhile, whichever
\* call fails and however many calls run.
THEOREM WorkerFrameAgrees == Spec => []FrameAgreesWithResult
  <1>1. FrameInv => FrameAgreesWithResult
    BY DEF FrameInv, FrameKnown, FrameAgreesWithResult
  <1> QED BY <1>1, FrameHolds, PTL

-----------------------------------------------------------------------------
(***************************************************************************)
(* The background loop alone.                                              *)
(***************************************************************************)

\* All that is published is older than all that the loop has in hand, and what
\* the heatmaps show is older than what it still has to work on.
OrderInv ==
    /\ ResultsInOrder
    /\ \A k \in DOMAIN results : \A i \in Held(Loop) : results[k].rec < i
    /\ \A t \in Tokens : \A i \in todo[Loop] : heat[t].rec < i

\* With less in hand the order stays.
LEMMA OrderFewer ==
    ASSUME OrderInv, UNCHANGED <<results, heat>>,
           Held(Loop)' \subseteq Held(Loop), todo'[Loop] \subseteq todo[Loop]
    PROVE  OrderInv'
  BY DEF OrderInv, ResultsInOrder

\* The numbers the order is about.
LEMMA RecordNumbers ==
    ASSUME DeliveryInv, FrameInv
    PROVE  /\ delivered \in Nat
           /\ \A k \in DOMAIN results : results[k].rec \in Nat /\ results[k].rec <= delivered
           /\ \A p \in Procs : \A i \in Held(p) : i \in Nat /\ i <= delivered
           /\ \A t \in Tokens : heat[t].rec \in Nat /\ heat[t].rec <= delivered
  <1>1. delivered \in Nat
    BY DeliveredBound DEF DeliveryInv
  <1>2. \A k \in DOMAIN results : results[k].rec \in 1 .. delivered
    BY DEF DeliveryInv, Answered
  <1>3. \A p \in Procs : \A i \in Held(p) : i \in 1 .. delivered
    BY OneCall DEF Held
  <1>4. \A t \in Tokens : heat[t].rec \in 0 .. delivered
    BY DEF FrameInv, FrameKnown
  <1> QED BY <1>1, <1>2, <1>3, <1>4

\* SetHeatmap writes the oldest record the loop still has to work on, which is
\* newer than every frame.
LEMMA NewestFrame ==
    ASSUME DeliveryInv, FrameInv, OrderInv, Loop \in Procs, SetHeatmap(Loop),
           NEW t \in Tokens
    PROVE  /\ heat'[t].rec \in Nat /\ heat'[t].rec >= heat[t].rec
           /\ \A i \in todo'[Loop] : heat'[t].rec < i
           /\ Held(Loop)' \subseteq Held(Loop)
  <1>1. PICK r \in made[Loop] :
           /\ IsFirst(r.rec, todo[Loop])
           /\ \/ heat' = [heat EXCEPT ![r.token] = [rec |-> r.rec, cfg |-> r.cfg]]
              \/ UNCHANGED heat
           /\ ItemDone(Loop, r.rec)
    BY DEF SetHeatmap
  <1>2. TypeOK /\ made' = made
    BY DEF SetHeatmap, DeliveryInv
  <1>3. todo'[Loop] = todo[Loop] \ {r.rec}
    BY <1>1, <1>2, ItemDoneTodo
  <1>4. Held(Loop)' \subseteq Held(Loop)
    BY <1>2, <1>3 DEF Held
  <1>5. heat'[t] = heat[t] \/ heat'[t] = [rec |-> r.rec, cfg |-> r.cfg]
    BY <1>1, <1>2 DEF TypeOK
  <1>6. /\ r.rec \in todo[Loop] /\ heat[t].rec < r.rec
        /\ \A i \in todo[Loop] : r.rec <= i
    BY <1>1 DEF IsFirst, OrderInv
  <1>7. /\ heat[t].rec \in Nat
        /\ \A i \in todo[Loop] : i \in Nat
    BY RecordNumbers DEF Held
  <1>8. CASE heat'[t] = heat[t]
    <2>1. \A i \in todo'[Loop] : heat[t].rec < i
      BY <1>3 DEF OrderInv
    <2> QED BY <1>4, <1>7, <1>8, <2>1
  <1>9. CASE heat'[t] = [rec |-> r.rec, cfg |-> r.cfg]
    <2>1. heat'[t].rec = r.rec
      BY <1>9
    <2>2. \A i \in todo'[Loop] : r.rec < i
      BY <1>3, <1>6, <1>7
    <2>3. r.rec \in Nat /\ r.rec >= heat[t].rec
      BY <1>6, <1>7
    <2> QED BY <1>4, <2>1, <2>2, <2>3
  <1> QED BY <1>5, <1>8, <1>9

\* A frame that goes is replaced by none, record 0.
LEMMA ErasedFrames ==
    ASSUME EraseKeys, NEW t \in Tokens
    PROVE  heat'[t] = heat[t] \/ heat'[t] = NoFrame
  BY DEF EraseKeys

\* Every step of the loop keeps the order.
LEMMA OrderStep ==
    ASSUME Procs = {Loop}, DeliveryInv, FrameInv, OrderInv, [Next]_vars
    PROVE  OrderInv'
  <1>t. TypeOK /\ Loop \in Procs
    BY DEF DeliveryInv
  <1>n. /\ delivered \in Nat
        /\ \A k \in DOMAIN results : results[k].rec \in Nat /\ results[k].rec <= delivered
        /\ \A i \in Held(Loop) : i \in Nat /\ i <= delivered
        /\ \A t \in Tokens : heat[t].rec \in Nat /\ heat[t].rec <= delivered
    BY <1>t, RecordNumbers
  <1>1. ASSUME Fewer
        PROVE  OrderInv'
    <2>1. Held(Loop)' \subseteq Held(Loop)
      BY <1>1, <1>t DEF Fewer, Held
    <2> QED BY <1>1, <1>t, <2>1, OrderFewer DEF Fewer
  <1>2. ASSUME Read(Loop)
        PROVE  OrderInv'
    <2>1. PICK last \in Unread :
             \/ StartBatch(Loop, {i \in Through(Unread, last) : entry[i].valid})
             \/ UNCHANGED locals
      BY <1>2 DEF Read
    <2>2. UNCHANGED <<heat, results>> /\ pc[Loop] = "idle"
      BY <1>2 DEF Read
    <2>3. Held(Loop) = {}
      BY <1>t, <2>2, OneCall DEF BatchConsistent
    <2>4. made' = made /\ \A i \in todo'[Loop] : i \in todo[Loop] \/ i \in Unread
      BY <2>1, <1>t DEF StartBatch, locals, Through, TypeOK
    <2>5. \A i \in todo'[Loop] \cup Held(Loop)' : i \in Unread
      BY <2>3, <2>4 DEF Held
    <2>6. \A i \in Unread : i \in Nat /\ i > delivered
      BY <1>t, DeliveredBound
    <2>7. /\ \A k \in DOMAIN results : \A i \in Unread : results[k].rec < i
          /\ \A t \in Tokens : \A i \in Unread : heat[t].rec < i
      BY <1>n, <2>6
    <2> QED BY <2>2, <2>5, <2>7 DEF OrderInv, ResultsInOrder
  <1>3. ASSUME Predict(Loop)
        PROVE  OrderInv'
    <2>1. PICK i \in todo[Loop] :
             /\ made' = [made EXCEPT ![Loop] = @ \cup {[rec |-> i, token |-> entry[i].token,
                                                       cfg |-> ConfigOf(entry[i].token)]}]
             /\ UNCHANGED todo \/ ItemDone(Loop, i)
      BY <1>3 DEF Predict
    <2>2. UNCHANGED <<heat, results>>
      BY <1>3 DEF Predict, redis
    <2>3. todo'[Loop] \subseteq todo[Loop]
      BY <1>t, <2>1, ItemDoneTodo
    <2>4. \A s \in made'[Loop] : s \in made[Loop] \/ s.rec = i
      BY <1>t, <2>1 DEF TypeOK
    <2>5. Held(Loop)' \subseteq Held(Loop)
      BY <2>3, <2>4 DEF Held
    <2> QED BY <2>2, <2>3, <2>5, OrderFewer
  <1>4. ASSUME SetHeatmap(Loop)
        PROVE  OrderInv'
    <2>1. results' = results
      BY <1>4 DEF SetHeatmap
    <2>2. PICK r \in made[Loop] : ItemDone(Loop, r.rec) /\ made' = made
      BY <1>4 DEF SetHeatmap
    <2>3. Held(Loop)' \subseteq Held(Loop)
      BY <1>t, <2>2, ItemDoneTodo DEF Held
    <2>4. \A t \in Tokens : \A i \in todo'[Loop] : heat'[t].rec < i
      BY <1>4, <1>t, NewestFrame
    <2> QED BY <2>1, <2>3, <2>4 DEF OrderInv, ResultsInOrder
  <1>5. ASSUME Push(Loop)
        PROVE  OrderInv'
    <2>1. PICK r \in made[Loop] :
             /\ \A s \in made[Loop] : r.rec <= s.rec
             /\ Publish(r)
             /\ \/ /\ made' = [made EXCEPT ![Loop] = @ \ {r}]
                   /\ UNCHANGED <<raw, todo>>
                \/ Finish(Loop)
      BY <1>5 DEF Push
    <2>2. pc[Loop] = "push" /\ heat' = heat
      BY <1>5 DEF Push
    <2>3. todo[Loop] = {} /\ \A s \in made[Loop] : s.rec = r.rec => s = r
      BY <1>t, <2>2, OneCall DEF BatchConsistent
    <2>4. todo'[Loop] = {} /\ made'[Loop] \subseteq made[Loop] \ {r}
      BY <1>t, <2>1, <2>3 DEF TypeOK, Finish
    <2>5. /\ r.rec \in Held(Loop)
          /\ \A s \in made[Loop] : s.rec \in Held(Loop)
      BY DEF Held
    <2>6. ASSUME NEW i \in Held(Loop)'
          PROVE  i \in Held(Loop) /\ r.rec < i
      <3>1. PICK s \in made[Loop] : s # r /\ i = s.rec
        BY <2>4 DEF Held
      <3>2. r.rec <= s.rec /\ s.rec # r.rec
        BY <2>1, <2>3, <3>1
      <3> QED BY <1>n, <2>5, <3>1, <3>2
    <2>7. results' = Append(results, r) /\ results \in Seq(Result)
      BY <1>t, <2>1 DEF Publish, TypeOK
    <2>8. /\ Len(results) \in Nat /\ DOMAIN results = 1 .. Len(results)
          /\ DOMAIN results' = 1 .. (Len(results) + 1)
          /\ \A k \in 1 .. Len(results) : results'[k] = results[k]
          /\ results'[Len(results) + 1] = r
      BY <2>7
    <2>9. \A k \in DOMAIN results : results[k].rec < r.rec
      BY <2>5 DEF OrderInv
    <2>10. ResultsInOrder'
      <3>1. ASSUME NEW k \in DOMAIN results', NEW l \in DOMAIN results', k < l
            PROVE  results'[k].rec < results'[l].rec
        <4>1. k \in 1 .. Len(results) /\ results'[k] = results[k]
          BY <2>8, <3>1
        <4>2. CASE l \in 1 .. Len(results)
          BY <2>8, <3>1, <4>1, <4>2 DEF OrderInv, ResultsInOrder
        <4>3. CASE l = Len(results) + 1
          BY <2>8, <2>9, <4>1, <4>3
        <4>4. l \in 1 .. Len(results) \/ l = Len(results) + 1
          BY <2>8, <3>1
        <4> QED BY <4>2, <4>3, <4>4
      <3> QED BY <3>1 DEF ResultsInOrder
    <2>11. ASSUME NEW k \in DOMAIN results', NEW i \in Held(Loop)'
           PROVE  results'[k].rec < i
      <3>1. CASE k \in 1 .. Len(results)
        BY <2>6, <2>8, <2>11, <3>1 DEF OrderInv
      <3>2. CASE k = Len(results) + 1
        BY <2>6, <2>8, <2>11, <3>2
      <3>3. k \in 1 .. Len(results) \/ k = Len(results) + 1
        BY <2>8, <2>11
      <3> QED BY <3>1, <3>2, <3>3
    <2> QED BY <2>2, <2>4, <2>10, <2>11 DEF OrderInv
  <1>6. ASSUME EraseKeys
        PROVE  OrderInv'
    <2>1. UNCHANGED <<results, todo, made>>
      BY <1>6 DEF EraseKeys, locals
    <2>2. Held(Loop)' = Held(Loop)
      BY <2>1 DEF Held
    <2>3. ASSUME NEW t \in Tokens, NEW i \in todo[Loop]
          PROVE  heat'[t].rec < i
      <3>1. CASE heat'[t] = heat[t]
        BY <2>3, <3>1 DEF OrderInv
      <3>2. CASE heat'[t] = NoFrame
        <4>1. heat'[t].rec = 0
          BY <3>2 DEF NoFrame
        <4>2. i \in Nat /\ i # 0
          BY <1>n, <1>t, <2>3, NoRecordZero DEF Held
        <4> QED BY <4>1, <4>2
      <3> QED BY <1>6, <3>1, <3>2, ErasedFrames
    <2> QED BY <2>1, <2>2, <2>3 DEF OrderInv, ResultsInOrder
  <1> QED BY <1>t, <1>1, <1>2, <1>3, <1>4, <1>5, <1>6, FewerSteps DEF Next, Step

\* While the loop is the only caller, what is in hand follows what is out.
LEMMA OrderHolds ==
    ASSUME Procs = {Loop}
    PROVE  Spec => []OrderInv
  <1>1. Init => OrderInv
    BY WorkerConstants DEF Init, OrderInv, ResultsInOrder, Held
  <1>2. DeliveryInv /\ FrameInv /\ OrderInv /\ [Next]_vars => OrderInv'
    BY OrderStep
  <1> QED BY <1>1, <1>2, FrameHolds, DeliveryCorrect, PTL DEF Spec

\* The background loop alone publishes the results in the order of the records
\* (worker.py, push_results), over batches, failed calls, crashes and restarts.
THEOREM LoopResultsInOrder ==
    ASSUME Procs = {Loop}
    PROVE  Spec => []ResultsInOrder
  <1>1. OrderInv => ResultsInOrder
    BY DEF OrderInv
  <1> QED BY <1>1, OrderHolds, PTL

\* Under the background loop alone a session's heatmap never goes back to an
\* older record (set_heatmap), except to none at all.
THEOREM LoopHeatmapForward ==
    ASSUME Procs = {Loop}
    PROVE  Spec => HeatmapNeverRegresses
  <1> DEFINE A == \A t \in Tokens : heat'[t] = NoFrame \/ heat'[t].rec >= heat[t].rec
  <1>1. DeliveryInv /\ FrameInv /\ OrderInv /\ [Next]_vars => [A]_vars
    <2> SUFFICES ASSUME DeliveryInv, FrameInv, OrderInv, Next, NEW t \in Tokens
                 PROVE  heat'[t] = NoFrame \/ heat'[t].rec >= heat[t].rec
      OBVIOUS
    <2>n. heat[t].rec \in Nat /\ TypeOK /\ Loop \in Procs
      BY RecordNumbers DEF DeliveryInv
    <2>1. CASE heat' = heat
      BY <2>n, <2>1
    <2>2. ASSUME SetHeatmap(Loop)
          PROVE  heat'[t].rec >= heat[t].rec
      BY <2>2, <2>n, NewestFrame
    <2>3. CASE EraseKeys
      BY <2>n, <2>3, ErasedFrames
    <2>4. heat' = heat \/ SetHeatmap(Loop) \/ EraseKeys
      <3>1. ASSUME NEW p \in Procs, Step(p), ~SetHeatmap(p)
            PROVE  heat' = heat
        BY <3>1 DEF Step, Read, Predict, Abandon, Push, Ack, Delete, redis
      <3>2. ASSUME Crash \/ Restart \/ Others, ~EraseKeys
            PROVE  heat' = heat
        BY <3>2 DEF Crash, Restart, Others, Enqueue, TrimInput, PutConfig, EraseInput,
                    EraseOutput, Acknowledge, redis
      <3> QED BY <3>1, <3>2 DEF Next
    <2> QED BY <2>1, <2>2, <2>3, <2>4
  <1>2. Spec => [][A]_vars
    BY <1>1, OrderHolds, FrameHolds, DeliveryCorrect, PTL DEF Spec
  <1> QED BY <1>2 DEF HeatmapNeverRegresses

=============================================================================
