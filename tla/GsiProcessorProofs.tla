------------------------- MODULE GsiProcessorProofs -------------------------
(***************************************************************************)
(* What gsi_processor remembers of the enemies of a session, for any number *)
(* of sessions, requests at a time and heroes: only what the session's own  *)
(* requests reported, and never older than the records it has enqueued.     *)
(***************************************************************************)
EXTENDS GsiProcessor, FiniteSetTheorems, TLAPS

Busy == {"is_active", "get_snapshot", "xadd", "xtrim", "set_snapshot"}

\* The sightings in s were reported by requests of t, fewer than n of its
\* records ago.
Fits(s, t, n) ==
    \A i \in DOMAIN s : <<i, s[i].pos>> \in seen[t] /\ s[i].time \in Nat /\ s[i].time < n

\* The shapes of the variables that the proofs read.
GsiTypes ==
    /\ snapshot = [t \in Tokens |-> snapshot[t]]
    /\ seen = [t \in Tokens |-> seen[t]]
    /\ entry \in Seq(Entry)
    /\ at \in [Handlers -> Answers \cup Busy]
    /\ body \in [Handlers -> Body \cup {NoBody}]
    /\ enemies = [h \in Handlers |-> enemies[h]]

\* What a session's key holds.
KeyFits(t) == snapshot[t] # NoSnapshot => Fits(snapshot[t], t, RecordsOf(t))

\* A request in progress has its body, whose sightings are in the history.
HasBody(h) ==
    at[h] \in Busy =>
        /\ body[h] \in Body
        /\ \A u \in DOMAIN body[h].visible :
              <<HeroId[u], body[h].visible[u]>> \in seen[body[h].token]

\* The features of a request that has not enqueued its record count that record;
\* once it has, they fit what the session has enqueued.
HandFits(h) ==
    /\ at[h] = "xadd" =>
          Fits(enemies[h], body[h].token, RecordsOf(body[h].token) + 1)
    /\ at[h] \in {"xtrim", "set_snapshot"} =>
          Fits(enemies[h], body[h].token, RecordsOf(body[h].token))

MemoryInv ==
    /\ GsiTypes
    /\ \A t \in Tokens : KeyFits(t)
    /\ \A h \in Handlers : HasBody(h) /\ HandFits(h)

-----------------------------------------------------------------------------
\* A session has finitely many records.
LEMMA RecordsFinite ==
    ASSUME entry \in Seq(Entry), NEW t \in Tokens
    PROVE  /\ IsFiniteSet({i \in DOMAIN entry : entry[i].token = t})
           /\ RecordsOf(t) \in Nat
  <1>1. Len(entry) \in Nat /\ DOMAIN entry = 1 .. Len(entry)
    OBVIOUS
  <1>2. IsFiniteSet(1 .. Len(entry))
    BY <1>1, FS_Interval
  <1>3. {i \in DOMAIN entry : entry[i].token = t} \in SUBSET (1 .. Len(entry))
    BY <1>1
  <1>4. IsFiniteSet({i \in DOMAIN entry : entry[i].token = t})
    BY <1>2, <1>3, FS_Subset
  <1> QED BY <1>4, FS_CardinalityType DEF RecordsOf

\* XADD gives the session of the record one more, and no other session any.
LEMMA AddCounts ==
    ASSUME entry \in Seq(Entry), NEW e \in Entry, entry' = Append(entry, e), NEW t \in Tokens
    PROVE  /\ entry' \in Seq(Entry)
           /\ RecordsOf(t)' = IF e.token = t THEN RecordsOf(t) + 1 ELSE RecordsOf(t)
  <1> DEFINE Ids == {i \in DOMAIN entry : entry[i].token = t}
             Ids2 == {i \in DOMAIN entry' : entry'[i].token = t}
  <1>1. /\ Len(entry) \in Nat /\ DOMAIN entry = 1 .. Len(entry)
        /\ DOMAIN entry' = 1 .. (Len(entry) + 1)
        /\ \A i \in 1 .. Len(entry) : entry'[i] = entry[i]
        /\ entry'[Len(entry) + 1] = e
        /\ entry' \in Seq(Entry)
    OBVIOUS
  <1>2. /\ 1 .. (Len(entry) + 1) = (1 .. Len(entry)) \cup {Len(entry) + 1}
        /\ Len(entry) + 1 \notin 1 .. Len(entry)
    BY <1>1
  <1>3. IsFiniteSet(Ids) /\ Len(entry) + 1 \notin Ids
    BY <1>1, <1>2, RecordsFinite
  <1>4. RecordsOf(t) = Cardinality(Ids) /\ RecordsOf(t)' = Cardinality(Ids2)
    BY DEF RecordsOf
  <1>5. CASE e.token = t
    <2>1. Ids2 = Ids \cup {Len(entry) + 1}
      BY <1>1, <1>2, <1>5
    <2> HIDE DEF Ids, Ids2
    <2>2. Cardinality(Ids \cup {Len(entry) + 1}) = Cardinality(Ids) + 1
      BY <1>3, FS_AddElement
    <2> QED BY <1>1, <1>4, <1>5, <2>1, <2>2
  <1>6. CASE e.token # t
    <2>1. Ids2 = Ids
      BY <1>1, <1>2, <1>6
    <2> QED BY <1>1, <1>4, <1>6, <2>1
  <1> QED BY <1>5, <1>6

\* What fits goes on to fit while the history and the bound grow.
LEMMA FitsMore ==
    ASSUME NEW s, NEW t \in Tokens, NEW n \in Int, NEW m \in Int, n <= m,
           seen[t] \subseteq seen'[t], Fits(s, t, n)
    PROVE  \A i \in DOMAIN s :
              <<i, s[i].pos>> \in seen'[t] /\ s[i].time \in Nat /\ s[i].time < m
  <1> SUFFICES ASSUME NEW i \in DOMAIN s
               PROVE  <<i, s[i].pos>> \in seen'[t] /\ s[i].time \in Nat /\ s[i].time < m
    OBVIOUS
  <1>1. <<i, s[i].pos>> \in seen[t] /\ s[i].time \in Nat /\ s[i].time < n
    BY DEF Fits
  <1>2. s[i].time < m
    BY <1>1
  <1>3. <<i, s[i].pos>> \in seen'[t]
    BY <1>1, Zenon
  <1> QED BY <1>1, <1>2, <1>3, Zenon

\* _build_enemy_snapshots: an enemy in sight is where it is now, an enemy out of
\* sight where it was remembered, one record older.
LEMMA MergeFits ==
    ASSUME NEW previous, NEW visible, NEW S, NEW n \in Nat,
           DOMAIN visible \subseteq Units,
           \A i \in DOMAIN previous :
              <<i, previous[i].pos>> \in S /\ previous[i].time \in Nat /\ previous[i].time < n,
           \A u \in DOMAIN visible : <<HeroId[u], visible[u]>> \in S
    PROVE  \A i \in DOMAIN Merge(previous, visible) :
              /\ <<i, Merge(previous, visible)[i].pos>> \in S
              /\ Merge(previous, visible)[i].time \in Nat
              /\ Merge(previous, visible)[i].time < n + 1
  <1> DEFINE now == InSight(visible)
             old == Unseen(previous, visible)
             M == Merge(previous, visible)
             Kept(i) == [pos |-> previous[i].pos, time |-> previous[i].time + 1]
             Fresh(i) == [pos |-> now[i], time |-> 0]
  <1>1. /\ DOMAIN now = {HeroId[u] : u \in DOMAIN visible}
        /\ \A i \in DOMAIN now : now[i] = visible[CHOOSE u \in DOMAIN visible : HeroId[u] = i]
    BY DEF InSight
  <1>2. M = [i \in DOMAIN now \cup old |-> IF i \in old THEN Kept(i) ELSE Fresh(i)]
    BY DEF Merge
  <1>3. old \subseteq DOMAIN previous
    BY DEF Unseen
  <1> HIDE DEF now, old, M
  <1> SUFFICES ASSUME NEW i \in DOMAIN M
               PROVE  <<i, M[i].pos>> \in S /\ M[i].time \in Nat /\ M[i].time < n + 1
    BY DEF M
  <1>4. i \in DOMAIN now \cup old /\ M[i] = IF i \in old THEN Kept(i) ELSE Fresh(i)
    BY <1>2
  <1>5. CASE i \in old
    <2>1. M[i].pos = previous[i].pos /\ M[i].time = previous[i].time + 1
      BY <1>4, <1>5
    <2> QED BY <1>3, <1>5, <2>1
  <1>6. CASE i \notin old
    <2>1. M[i].pos = now[i] /\ M[i].time = 0 /\ i \in DOMAIN now
      BY <1>4, <1>6
    <2>2. PICK u \in DOMAIN visible : HeroId[u] = i /\ now[i] = visible[u]
      BY <1>1, <2>1
    <2> QED BY <2>1, <2>2
  <1> QED BY <1>5, <1>6

\* The five closest are some of the known ones, as they are known.
LEMMA ClosestAreKnown ==
    ASSUME NEW known, NEW c \in Closest(known)
    PROVE  DOMAIN c \subseteq DOMAIN known /\ \A i \in DOMAIN c : c[i] = known[i]
  <1>1. PICK ids \in SUBSET DOMAIN known : c = Restrict(known, ids)
    BY DEF Closest
  <1> QED BY <1>1 DEF Restrict

\* What the types say of a request.
LEMMA BodyTypes ==
    ASSUME NEW b \in Body
    PROVE  /\ b.token \in Tokens /\ b.on_map \in OnMap
           /\ DOMAIN b.visible \subseteq Units
  <1>1. b.token \in Tokens /\ b.on_map \in OnMap
        /\ b.visible \in PartialFunctions(Units, Positions)
    BY DEF Body
  <1>2. PICK S \in SUBSET Units : b.visible \in [S -> Positions]
    BY <1>1 DEF PartialFunctions
  <1> QED BY <1>1, <1>2

-----------------------------------------------------------------------------
\* A step that forgets nothing, of the history and of the records, keeps what
\* fits wherever it changes nothing else.
LEMMA Untouched ==
    ASSUME MemoryInv,
           \A t \in Tokens : seen[t] \subseteq seen'[t],
           \A t \in Tokens : RecordsOf(t)' \in Nat /\ RecordsOf(t) <= RecordsOf(t)'
    PROVE  /\ \A t \in Tokens : snapshot'[t] = snapshot[t] => KeyFits(t)'
           /\ \A h \in Handlers :
                 at'[h] = at[h] /\ body'[h] = body[h] /\ enemies'[h] = enemies[h] =>
                     HasBody(h)' /\ HandFits(h)'
  <1>r. \A t \in Tokens : RecordsOf(t) \in Nat
    BY RecordsFinite DEF MemoryInv, GsiTypes
  <1>1. ASSUME NEW t \in Tokens, snapshot'[t] = snapshot[t]
        PROVE  KeyFits(t)'
    <2>1. CASE snapshot[t] = NoSnapshot
      BY <1>1, <2>1 DEF KeyFits
    <2>2. CASE snapshot[t] # NoSnapshot
      <3>1. Fits(snapshot[t], t, RecordsOf(t))
        BY <2>2 DEF MemoryInv, KeyFits
      <3>2. PICK n \in Nat : n = RecordsOf(t)
        BY <1>r
      <3>3. PICK m \in Nat : m = RecordsOf(t)'
        OBVIOUS
      <3>4. PICK s : s = snapshot[t]
        OBVIOUS
      <3>5. n <= m /\ n \in Int /\ m \in Int
        BY <3>2, <3>3
      <3>6. \A i \in DOMAIN s :
               <<i, s[i].pos>> \in seen'[t] /\ s[i].time \in Nat /\ s[i].time < m
        BY <3>1, <3>2, <3>4, <3>5, FitsMore
      <3> QED BY <1>1, <3>3, <3>4, <3>6 DEF KeyFits, Fits
    <2> QED BY <2>1, <2>2
  <1>2. ASSUME NEW h \in Handlers,
               at'[h] = at[h], body'[h] = body[h], enemies'[h] = enemies[h]
        PROVE  HasBody(h)' /\ HandFits(h)'
    <2>1. CASE at[h] \notin Busy
      BY <1>2, <2>1 DEF HasBody, HandFits, Busy
    <2>2. CASE at[h] \in Busy
      <3>1. PICK t \in Tokens : t = body[h].token
        BY <2>2, BodyTypes DEF MemoryInv, HasBody
      <3>2. HasBody(h) /\ HandFits(h)
        BY DEF MemoryInv
      <3>3. HasBody(h)'
        BY <1>2, <2>2, <3>1, <3>2 DEF HasBody
      <3>4. PICK n \in Nat : n = RecordsOf(t)
        BY <1>r
      <3>5. PICK m \in Nat : m = RecordsOf(t)'
        OBVIOUS
      <3>6. PICK s : s = enemies[h]
        OBVIOUS
      <3>7. /\ n <= m /\ n + 1 <= m + 1
            /\ {n, m, n + 1, m + 1} \subseteq Int
        BY <3>4, <3>5
      <3>8. ASSUME at[h] = "xadd"
            PROVE  \A i \in DOMAIN s :
                      <<i, s[i].pos>> \in seen'[t] /\ s[i].time \in Nat /\ s[i].time < m + 1
        <4>1. Fits(s, t, n + 1)
          BY <3>1, <3>2, <3>4, <3>6, <3>8 DEF HandFits
        <4> QED BY <3>7, <4>1, FitsMore
      <3>9. ASSUME at[h] \in {"xtrim", "set_snapshot"}
            PROVE  \A i \in DOMAIN s :
                      <<i, s[i].pos>> \in seen'[t] /\ s[i].time \in Nat /\ s[i].time < m
        <4>1. Fits(s, t, n)
          BY <3>1, <3>2, <3>4, <3>6, <3>9 DEF HandFits
        <4> QED BY <3>7, <4>1, FitsMore
      <3>10. HandFits(h)'
        BY <1>2, <3>1, <3>5, <3>6, <3>8, <3>9 DEF HandFits, Fits
      <3> QED BY <3>3, <3>10
    <2> QED BY <2>1, <2>2
  <1> QED BY <1>1, <1>2

\* The steps of one request leave the others alone.
LEMMA OthersUntouched ==
    ASSUME MemoryInv, GsiTypes', NEW h \in Handlers,
           \A t \in Tokens : seen[t] \subseteq seen'[t],
           \A t \in Tokens : RecordsOf(t)' \in Nat /\ RecordsOf(t) <= RecordsOf(t)',
           \A t \in Tokens : snapshot'[t] = snapshot[t] \/ KeyFits(t)',
           \A q \in Handlers \ {h} : /\ at'[q] = at[q] /\ body'[q] = body[q]
                                     /\ enemies'[q] = enemies[q],
           HasBody(h)' /\ HandFits(h)'
    PROVE  MemoryInv'
  <1>1. \A t \in Tokens : KeyFits(t)'
    BY Untouched
  <1>2. \A q \in Handlers : HasBody(q)' /\ HandFits(q)'
    BY Untouched
  <1> QED BY <1>1, <1>2 DEF MemoryInv

\* An answer gives up the request.
LEMMA Returned ==
    ASSUME GsiTypes, NEW h \in Handlers, NEW answer \in Answers, Return(h, answer)
    PROVE  /\ HasBody(h)' /\ HandFits(h)'
           /\ at' \in [Handlers -> Answers \cup Busy]
           /\ body' \in [Handlers -> Body \cup {NoBody}]
           /\ enemies' = [q \in Handlers |-> enemies'[q]]
           /\ \A q \in Handlers \ {h} : /\ at'[q] = at[q] /\ body'[q] = body[q]
                                        /\ enemies'[q] = enemies[q]
  <1>1. /\ at' = [at EXCEPT ![h] = answer]
        /\ body' = [body EXCEPT ![h] = NoBody]
        /\ enemies' = [enemies EXCEPT ![h] = <<>>]
    BY DEF Return, Goto
  <1>2. at'[h] \in Answers
    BY <1>1 DEF GsiTypes
  <1>3. answer \notin Busy /\ at'[h] \notin Busy
    BY <1>2 DEF Answers, Busy
  <1>4. HasBody(h)' /\ HandFits(h)'
    BY <1>3 DEF HasBody, HandFits, Busy
  <1> QED BY <1>1, <1>4 DEF GsiTypes

\* A step that adds no record and no sighting forgets none.
LEMMA NothingForgotten ==
    ASSUME MemoryInv, UNCHANGED <<entry, seen>>
    PROVE  /\ \A t \in Tokens : seen[t] \subseteq seen'[t]
           /\ \A t \in Tokens : RecordsOf(t)' \in Nat /\ RecordsOf(t) <= RecordsOf(t)'
           /\ \A t \in Tokens : RecordsOf(t)' = RecordsOf(t)
  <1>1. \A t \in Tokens : RecordsOf(t) \in Nat
    BY RecordsFinite DEF MemoryInv, GsiTypes
  <1>2. \A t \in Tokens : RecordsOf(t)' = RecordsOf(t)
    BY DEF RecordsOf
  <1> QED BY <1>1, <1>2

-----------------------------------------------------------------------------
\* A request brings its sightings.
LEMMA ReceiveStep ==
    ASSUME MemoryInv, NEW h \in Handlers, NEW b \in Body, Receive(h, b)
    PROVE  MemoryInv'
  <1> DEFINE new == {<<HeroId[u], b.visible[u]>> : u \in DOMAIN b.visible}
  <1>1. /\ at' = [at EXCEPT ![h] = "is_active"]
        /\ body' = [body EXCEPT ![h] = b]
        /\ seen' = [seen EXCEPT ![b.token] = @ \cup new]
        /\ UNCHANGED <<snapshot, entry, enemies>>
    BY DEF Receive, Goto, redis
  <1>2. GsiTypes
    BY DEF MemoryInv
  <1>3. b.token \in Tokens
    BY BodyTypes
  <1> HIDE DEF new
  <1>4. /\ at'[h] = "is_active" /\ body'[h] = b
        /\ \A t \in Tokens : seen[t] \subseteq seen'[t]
        /\ new \subseteq seen'[b.token]
        /\ \A q \in Handlers \ {h} : /\ at'[q] = at[q] /\ body'[q] = body[q]
                                     /\ enemies'[q] = enemies[q]
    BY <1>1, <1>2, <1>3 DEF GsiTypes
  <1>5. GsiTypes'
    BY <1>1, <1>2 DEF GsiTypes, Busy
  <1>6. HandFits(h)'
    BY <1>4 DEF HandFits
  <1>7. HasBody(h)'
    BY <1>4 DEF HasBody, new
  <1>8. \A t \in Tokens : RecordsOf(t)' \in Nat /\ RecordsOf(t) <= RecordsOf(t)'
    <2>1. \A t \in Tokens : RecordsOf(t) \in Nat
      BY <1>2, RecordsFinite DEF GsiTypes
    <2>2. \A t \in Tokens : RecordsOf(t)' = RecordsOf(t)
      BY <1>1 DEF RecordsOf
    <2> QED BY <2>1, <2>2
  <1> QED BY <1>1, <1>4, <1>5, <1>6, <1>7, <1>8, OthersUntouched

\* is_active takes or answers a request.
LEMMA CheckActiveStep ==
    ASSUME MemoryInv, NEW h \in Handlers, CheckActive(h)
    PROVE  MemoryInv'
  <1>1. GsiTypes /\ HasBody(h) /\ at[h] = "is_active"
    BY DEF MemoryInv, CheckActive
  <1>2. UNCHANGED <<snapshot, entry, seen>>
    BY DEF CheckActive, redis
  <1>3. CASE \E answer \in Answers : Return(h, answer)
    <2>1. /\ HasBody(h)' /\ HandFits(h)'
          /\ \A q \in Handlers \ {h} : /\ at'[q] = at[q] /\ body'[q] = body[q]
                                       /\ enemies'[q] = enemies[q]
          /\ GsiTypes'
      BY <1>1, <1>2, <1>3, Returned DEF GsiTypes
    <2> QED BY <1>2, <2>1, NothingForgotten, OthersUntouched
  <1>4. CASE Goto(h, "get_snapshot") /\ UNCHANGED <<body, enemies>>
    <2>1. at' = [at EXCEPT ![h] = "get_snapshot"]
      BY <1>4 DEF Goto
    <2>2. /\ at'[h] = "get_snapshot"
          /\ \A q \in Handlers \ {h} : at'[q] = at[q]
          /\ at' \in [Handlers -> Answers \cup Busy]
      BY <1>1, <2>1 DEF GsiTypes, Busy
    <2>3. GsiTypes'
      BY <1>1, <1>2, <1>4, <2>2 DEF GsiTypes
    <2>4. HasBody(h)' /\ HandFits(h)'
      BY <1>1, <1>2, <1>4, <2>2 DEF HasBody, HandFits, Busy
    <2> QED BY <1>2, <1>4, <2>2, <2>3, <2>4, NothingForgotten, OthersUntouched
  <1> QED BY <1>3, <1>4 DEF CheckActive, Answers

\* The features are made of what the session's key holds and what is in sight.
LEMMA LoadStep ==
    ASSUME MemoryInv, NEW h \in Handlers, Load(h)
    PROVE  MemoryInv'
  <1>1. GsiTypes /\ HasBody(h) /\ at[h] = "get_snapshot"
    BY DEF MemoryInv, Load
  <1>2. UNCHANGED <<snapshot, entry, seen>>
    BY DEF Load, redis
  <1>3. CASE Return(h, "failed")
    <2>0. "failed" \in Answers
      BY DEF Answers
    <2>1. /\ HasBody(h)' /\ HandFits(h)'
          /\ \A q \in Handlers \ {h} : /\ at'[q] = at[q] /\ body'[q] = body[q]
                                       /\ enemies'[q] = enemies[q]
          /\ GsiTypes'
      BY <1>1, <1>2, <1>3, <2>0, Returned DEF GsiTypes
    <2> QED BY <1>2, <2>1, NothingForgotten, OthersUntouched
  <1>4. CASE ~Return(h, "failed")
    <2>a. PICK b, t : b = body[h] /\ t = b.token
      OBVIOUS
    <2>b. PICK s \in {snapshot[t], NoSnapshot} :
             \E known \in Closest(Merge(Remembered(s), b.visible)) :
                 enemies' = [enemies EXCEPT ![h] = known]
      BY <1>4, <2>a DEF Load
    <2>1. PICK known \in Closest(Merge(Remembered(s), b.visible)) :
             /\ b = body[h] /\ t = b.token
             /\ enemies' = [enemies EXCEPT ![h] = known]
             /\ at' = [at EXCEPT ![h] = "xadd"]
             /\ body' = body
      BY <1>4, <2>a, <2>b DEF Load, Goto
    <2>2. /\ b \in Body /\ t \in Tokens /\ DOMAIN b.visible \subseteq Units
          /\ \A u \in DOMAIN b.visible : <<HeroId[u], b.visible[u]>> \in seen[t]
      BY <1>1, <2>1, BodyTypes DEF HasBody, Busy
    <2>3. PICK n \in Nat : n = RecordsOf(t)
      BY <1>1, <2>2, RecordsFinite DEF GsiTypes
    <2>4. \A i \in DOMAIN Remembered(s) :
             /\ <<i, Remembered(s)[i].pos>> \in seen[t]
             /\ Remembered(s)[i].time \in Nat /\ Remembered(s)[i].time < n
      <3>1. CASE s = NoSnapshot
        BY <3>1 DEF Remembered
      <3>2. CASE s # NoSnapshot
        BY <2>1, <2>2, <2>3, <3>2 DEF Remembered, MemoryInv, KeyFits, Fits
      <3> QED BY <3>1, <3>2
    <2>5. PICK M : M = Merge(Remembered(s), b.visible)
      OBVIOUS
    <2>6. \A i \in DOMAIN M :
             <<i, M[i].pos>> \in seen[t] /\ M[i].time \in Nat /\ M[i].time < n + 1
      BY <2>2, <2>4, <2>5, MergeFits
    <2>7. Fits(known, t, n + 1)
      BY <2>1, <2>5, <2>6, ClosestAreKnown DEF Fits
    <2>8. /\ at'[h] = "xadd" /\ enemies'[h] = known
          /\ \A q \in Handlers \ {h} : /\ at'[q] = at[q] /\ body'[q] = body[q]
                                       /\ enemies'[q] = enemies[q]
          /\ GsiTypes'
      BY <1>1, <1>2, <2>1 DEF GsiTypes, Busy
    <2>9. RecordsOf(t)' = n /\ Fits(known, t, n + 1)'
      BY <1>2, <2>3, <2>7 DEF RecordsOf, Fits
    <2>10. HasBody(h)' /\ HandFits(h)'
      BY <1>1, <1>2, <2>1, <2>8, <2>9 DEF HasBody, HandFits, Busy
    <2> QED BY <1>2, <2>8, <2>10, NothingForgotten, OthersUntouched
  <1> QED BY <1>3, <1>4

\* XADD: the record the features counted on is there, or the request has failed.
LEMMA EnqueueStep ==
    ASSUME MemoryInv, NEW h \in Handlers, Enqueue(h)
    PROVE  MemoryInv'
  <1>1. GsiTypes /\ HasBody(h) /\ HandFits(h) /\ at[h] = "xadd"
    BY DEF MemoryInv, Enqueue
  <1>2. UNCHANGED <<snapshot, seen>>
    BY DEF Enqueue
  <1>3. PICK b, t : b = body[h] /\ t = b.token
    OBVIOUS
  <1>4. b \in Body /\ t \in Tokens /\ b.on_map \in OnMap
    BY <1>1, <1>3, BodyTypes DEF HasBody, Busy
  <1>5. entry' = entry \/ Add(h)
    BY DEF Enqueue
  <1>6. /\ entry' \in Seq(Entry)
        /\ \A q \in Tokens : RecordsOf(q)' \in Nat /\ RecordsOf(q) <= RecordsOf(q)'
        /\ Add(h) => RecordsOf(t)' = RecordsOf(t) + 1
    <2>0. \A q \in Tokens : RecordsOf(q) \in Nat
      BY <1>1, RecordsFinite DEF GsiTypes
    <2>1. CASE Add(h)
      <3>1. PICK e \in Entry : e.token = t /\ entry' = Append(entry, e)
        BY <1>3, <1>4, <2>1 DEF Add, Entry
      <3>2. \A q \in Tokens : entry' \in Seq(Entry)
               /\ RecordsOf(q)' = IF e.token = q THEN RecordsOf(q) + 1 ELSE RecordsOf(q)
        BY <1>1, <3>1, AddCounts DEF GsiTypes
      <3> QED BY <1>4, <2>0, <3>1, <3>2
    <2>2. CASE ~Add(h)
      <3>1. entry' = entry
        BY <1>5, <2>2
      <3>2. \A q \in Tokens : RecordsOf(q)' = RecordsOf(q)
        BY <3>1 DEF RecordsOf
      <3> QED BY <1>1, <2>0, <2>2, <3>1, <3>2 DEF GsiTypes
    <2> QED BY <2>1, <2>2
  <1>7. \A q \in Tokens : seen[q] \subseteq seen'[q] /\ snapshot'[q] = snapshot[q]
    BY <1>2
  <1>8. CASE Return(h, "failed")
    <2>0. "failed" \in Answers
      BY DEF Answers
    <2>1. /\ HasBody(h)' /\ HandFits(h)'
          /\ \A q \in Handlers \ {h} : /\ at'[q] = at[q] /\ body'[q] = body[q]
                                       /\ enemies'[q] = enemies[q]
          /\ GsiTypes'
      BY <1>1, <1>2, <1>6, <1>8, <2>0, Returned DEF GsiTypes
    <2> QED BY <1>6, <1>7, <2>1, OthersUntouched
  <1>9. CASE ~Return(h, "failed")
    <2>1. Add(h) /\ at' = [at EXCEPT ![h] = "xtrim"] /\ UNCHANGED <<body, enemies>>
      BY <1>9 DEF Enqueue, Goto
    <2>2. /\ at'[h] = "xtrim"
          /\ \A q \in Handlers \ {h} : /\ at'[q] = at[q] /\ body'[q] = body[q]
                                       /\ enemies'[q] = enemies[q]
          /\ GsiTypes'
      BY <1>1, <1>2, <1>6, <2>1 DEF GsiTypes, Busy
    <2>3. HasBody(h)'
      BY <1>1, <1>2, <2>1 DEF HasBody, Busy
    <2>4. Fits(enemies[h], t, RecordsOf(t) + 1)
      BY <1>1, <1>3 DEF HandFits
    <2>5. HandFits(h)'
      BY <1>2, <1>3, <1>6, <2>1, <2>2, <2>4 DEF HandFits, Fits
    <2> QED BY <1>6, <1>7, <2>2, <2>3, <2>5, OthersUntouched
  <1> QED BY <1>8, <1>9

\* XTRIM changes nothing a request has in hand.
LEMMA TrimStep ==
    ASSUME MemoryInv, NEW h \in Handlers, TrimInput(h)
    PROVE  MemoryInv'
  <1>1. GsiTypes /\ HasBody(h) /\ HandFits(h) /\ at[h] = "xtrim"
    BY DEF MemoryInv, TrimInput
  <1>2. UNCHANGED <<snapshot, entry, seen>>
    BY DEF TrimInput
  <1>3. CASE Return(h, "failed")
    <2>0. "failed" \in Answers
      BY DEF Answers
    <2>1. /\ HasBody(h)' /\ HandFits(h)'
          /\ \A q \in Handlers \ {h} : /\ at'[q] = at[q] /\ body'[q] = body[q]
                                       /\ enemies'[q] = enemies[q]
          /\ GsiTypes'
      BY <1>1, <1>2, <1>3, <2>0, Returned DEF GsiTypes
    <2> QED BY <1>2, <2>1, NothingForgotten, OthersUntouched
  <1>4. CASE ~Return(h, "failed")
    <2>1. at' = [at EXCEPT ![h] = "set_snapshot"] /\ UNCHANGED <<body, enemies>>
      BY <1>4 DEF TrimInput, Goto
    <2>2. /\ at'[h] = "set_snapshot"
          /\ \A q \in Handlers \ {h} : at'[q] = at[q]
          /\ GsiTypes'
      BY <1>1, <1>2, <2>1 DEF GsiTypes, Busy
    <2>3. HasBody(h)'
      BY <1>1, <1>2, <2>1 DEF HasBody, Busy
    <2>4. HandFits(h)'
      BY <1>1, <1>2, <2>1, <2>2 DEF HandFits, Fits, RecordsOf
    <2> QED BY <1>2, <2>1, <2>2, <2>3, <2>4, NothingForgotten, OthersUntouched
  <1> QED BY <1>3, <1>4

\* save_current_snapshot keeps what the request had in hand, the unknown hero apart.
LEMMA SaveStep ==
    ASSUME MemoryInv, NEW h \in Handlers, Save(h)
    PROVE  MemoryInv'
  <1>1. GsiTypes /\ HasBody(h) /\ HandFits(h) /\ at[h] = "set_snapshot"
    BY DEF MemoryInv, Save
  <1>2. UNCHANGED <<entry, seen>> /\ Return(h, "accepted")
    BY DEF Save
  <1>3. "accepted" \in Answers
    BY DEF Answers
  <1>4. PICK t \in Tokens : t = body[h].token
    BY <1>1, BodyTypes DEF HasBody, Busy
  <1>5. PICK s : s = enemies[h]
    OBVIOUS
  <1>6. PICK kept : kept = Restrict(s, DOMAIN s \ {NoHero})
    OBVIOUS
  <1>7. snapshot' = [snapshot EXCEPT ![t] = kept] \/ UNCHANGED snapshot
    BY <1>4, <1>5, <1>6 DEF Save
  <1>8. Fits(kept, t, RecordsOf(t))
    <2>1. Fits(s, t, RecordsOf(t))
      BY <1>1, <1>4, <1>5 DEF HandFits
    <2>2. DOMAIN kept \subseteq DOMAIN s /\ \A i \in DOMAIN kept : kept[i] = s[i]
      BY <1>6 DEF Restrict
    <2> QED BY <2>1, <2>2 DEF Fits
  <1>9. ASSUME NEW q \in Tokens
        PROVE  snapshot'[q] = snapshot[q] \/ KeyFits(q)'
    <2>1. snapshot'[q] = snapshot[q] \/ (q = t /\ snapshot'[q] = kept)
      BY <1>1, <1>7 DEF GsiTypes
    <2>2. ASSUME q = t, snapshot'[q] = kept
          PROVE  KeyFits(q)'
      BY <1>2, <1>8, <2>2 DEF KeyFits, Fits, RecordsOf
    <2> QED BY <2>1, <2>2
  <1>10. /\ HasBody(h)' /\ HandFits(h)'
         /\ \A q \in Handlers \ {h} : /\ at'[q] = at[q] /\ body'[q] = body[q]
                                      /\ enemies'[q] = enemies[q]
         /\ GsiTypes'
    BY <1>1, <1>2, <1>3, <1>7, Returned DEF GsiTypes
  <1> QED BY <1>2, <1>9, <1>10, NothingForgotten, OthersUntouched

\* The other services only take away.
LEMMA OthersStep ==
    ASSUME MemoryInv, Others \/ UNCHANGED vars
    PROVE  MemoryInv'
  <1>1. UNCHANGED <<entry, seen, at, body, enemies>>
    BY DEF Others, PutActive, DropSnapshot, LeaveStream, vars, redis, handlers
  <1>2. GsiTypes
    BY DEF MemoryInv
  <1>3. /\ snapshot' = [t \in Tokens |-> snapshot'[t]]
        /\ \A t \in Tokens : snapshot'[t] = snapshot[t] \/ snapshot'[t] = NoSnapshot
    BY <1>2 DEF Others, PutActive, DropSnapshot, LeaveStream, vars, redis, GsiTypes
  <1>4. GsiTypes'
    BY <1>1, <1>2, <1>3 DEF GsiTypes
  <1>5. \A t \in Tokens : KeyFits(t)'
    <2>1. ASSUME NEW t \in Tokens, snapshot'[t] = NoSnapshot PROVE KeyFits(t)'
      BY <2>1 DEF KeyFits
    <2> QED BY <1>1, <1>3, <2>1, NothingForgotten, Untouched
  <1>6. \A h \in Handlers : HasBody(h)' /\ HandFits(h)'
    BY <1>1, NothingForgotten, Untouched
  <1> QED BY <1>4, <1>5, <1>6 DEF MemoryInv

\* Every step keeps the memory of every session.
LEMMA MemoryStep == MemoryInv /\ [Next]_vars => MemoryInv'
  BY ReceiveStep, CheckActiveStep, LoadStep, EnqueueStep, TrimStep, SaveStep, OthersStep
     DEF Next, Handle

\* The memory of every session is kept in every reachable state.
LEMMA MemoryHolds == Spec => []MemoryInv
  <1>1. Init => MemoryInv
    <2> SUFFICES ASSUME Init PROVE MemoryInv
      OBVIOUS
    <2>1. GsiTypes
      BY DEF Init, GsiTypes, Answers
    <2>2. \A t \in Tokens : KeyFits(t)
      BY DEF Init, KeyFits
    <2>3. \A h \in Handlers : HasBody(h) /\ HandFits(h)
      BY DEF Init, HasBody, HandFits, Busy
    <2> QED BY <2>1, <2>2, <2>3 DEF MemoryInv
  <1> QED BY <1>1, MemoryStep, PTL DEF Spec

\* An enemy in a session's snapshot was seen fewer requests ago than the session
\* has records (process.py: enqueue_request, then save_current_snapshot), with
\* any number of requests in any order.
THEOREM SnapshotAgeBounded == Spec => []AgeBoundedByRecords
  <1>1. MemoryInv => AgeBoundedByRecords
    BY DEF MemoryInv, KeyFits, Fits, AgeBoundedByRecords
  <1> QED BY <1>1, MemoryHolds, PTL

\* A session remembers only what its own requests reported (snapshot:<token>),
\* however the requests of all sessions interleave.
THEOREM SnapshotOfOwnSession == Spec => []SightingsOfOwnSession
  <1>1. MemoryInv => SightingsOfOwnSession
    BY DEF MemoryInv, KeyFits, Fits, SightingsOfOwnSession
  <1> QED BY <1>1, MemoryHolds, PTL

-----------------------------------------------------------------------------
(***************************************************************************)
(* Types, and the number of enemies.                                       *)
(***************************************************************************)

StreamTypes ==
    /\ active \in [Tokens -> Configs \cup {NoConfig}]
    /\ input \subseteq 1 .. Len(entry)

SnapshotTypes ==
    /\ \A t \in Tokens : snapshot[t] = NoSnapshot \/ IsSnapshot(snapshot[t], Heroes)
    /\ \A h \in Handlers : IsSnapshot(enemies[h], Heroes \cup {NoHero})

\* The catalogue is finite, and None is not in it.
LEMMA HeroIds ==
    /\ NoHero \notin Heroes /\ IsFiniteSet(Heroes) /\ IsFiniteSet(Heroes \cup {NoHero})
    /\ HeroId \in [Units -> Heroes \cup {NoHero}]
    /\ MaxEnemies \in Nat
  <1>1. IsFiniteSet(Heroes) /\ NoHero \notin Heroes /\ MaxEnemies \in Nat
        /\ HeroId \in [Units -> Heroes \cup {NoHero}]
    BY GsiConstants
  <1>2. IsFiniteSet(Heroes \cup {NoHero})
    BY <1>1, FS_AddElement
  <1> QED BY <1>1, <1>2

\* No enemy at all is a snapshot.
LEMMA NoEnemies == \A ids : IsSnapshot(<<>>, ids)
  <1>1. DOMAIN <<>> = {}
    OBVIOUS
  <1>2. Cardinality({}) = 0 /\ 0 <= MaxEnemies
    BY HeroIds, FS_EmptySet
  <1> QED BY <1>1, <1>2 DEF IsSnapshot

\* _build_enemy_snapshots: every known enemy has a place and a time.
LEMMA MergeTypes ==
    ASSUME NEW previous, NEW visible \in PartialFunctions(Units, Positions),
           DOMAIN previous \subseteq Heroes,
           \A i \in DOMAIN previous : previous[i] \in Sighting
    PROVE  /\ DOMAIN Merge(previous, visible) \subseteq Heroes \cup {NoHero}
           /\ \A i \in DOMAIN Merge(previous, visible) :
                 Merge(previous, visible)[i] \in Sighting
  <1> DEFINE now == InSight(visible)
             old == Unseen(previous, visible)
             M == Merge(previous, visible)
             Kept(i) == [pos |-> previous[i].pos, time |-> previous[i].time + 1]
             Fresh(i) == [pos |-> now[i], time |-> 0]
  <1>1. /\ DOMAIN visible \subseteq Units
        /\ \A u \in DOMAIN visible : visible[u] \in Positions
    BY DEF PartialFunctions
  <1>2. /\ DOMAIN now = {HeroId[u] : u \in DOMAIN visible}
        /\ \A i \in DOMAIN now : now[i] = visible[CHOOSE u \in DOMAIN visible : HeroId[u] = i]
    BY DEF InSight
  <1>3. DOMAIN now \subseteq Heroes \cup {NoHero} /\ \A i \in DOMAIN now : now[i] \in Positions
    <2>1. DOMAIN now \subseteq Heroes \cup {NoHero}
      BY <1>1, <1>2, HeroIds
    <2>2. ASSUME NEW i \in DOMAIN now PROVE now[i] \in Positions
      <3>1. PICK u \in DOMAIN visible : now[i] = visible[u]
        BY <1>2
      <3> QED BY <1>1, <3>1
    <2> QED BY <2>1, <2>2
  <1>4. M = [i \in DOMAIN now \cup old |-> IF i \in old THEN Kept(i) ELSE Fresh(i)]
    BY DEF Merge
  <1>5. old \subseteq DOMAIN previous
    BY DEF Unseen
  <1> HIDE DEF now, old, M
  <1>6. DOMAIN M \subseteq Heroes \cup {NoHero}
    BY <1>3, <1>4, <1>5
  <1>7. ASSUME NEW i \in DOMAIN M PROVE M[i] \in Sighting
    <2>1. CASE i \in old
      <3>1. previous[i] \in Sighting /\ M[i] = Kept(i)
        BY <1>4, <1>5, <2>1
      <3> QED BY <3>1 DEF Sighting
    <2>2. CASE i \notin old
      <3>1. now[i] \in Positions /\ M[i] = Fresh(i)
        BY <1>3, <1>4, <2>2
      <3> QED BY <3>1 DEF Sighting
    <2> QED BY <2>1, <2>2
  <1> QED BY <1>6, <1>7 DEF M

\* At most MaxEnemies of them are kept.
LEMMA ClosestAreFew ==
    ASSUME NEW known, NEW c \in Closest(known)
    PROVE  Cardinality(DOMAIN c) <= MaxEnemies
  <1>1. PICK ids \in SUBSET DOMAIN known :
           /\ \/ ids = DOMAIN known /\ Cardinality(ids) <= MaxEnemies
              \/ Cardinality(ids) = MaxEnemies
           /\ c = Restrict(known, ids)
    BY DEF Closest
  <1>2. DOMAIN c = ids
    BY <1>1 DEF Restrict
  <1> QED BY <1>1, <1>2, HeroIds

\* The features of a request.
LEMMA LoadedEnemies ==
    ASSUME NEW s, s = NoSnapshot \/ IsSnapshot(s, Heroes), NEW b \in Body,
           NEW known \in Closest(Merge(Remembered(s), b.visible))
    PROVE  IsSnapshot(known, Heroes \cup {NoHero})
  <1> DEFINE previous == Remembered(s)
             M == Merge(previous, b.visible)
  <1>1. DOMAIN previous \subseteq Heroes /\ \A i \in DOMAIN previous : previous[i] \in Sighting
    <2>1. CASE s = NoSnapshot
      BY <2>1 DEF Remembered
    <2>2. CASE s # NoSnapshot
      BY <2>2 DEF Remembered, IsSnapshot
    <2> QED BY <2>1, <2>2
  <1>2. b.visible \in PartialFunctions(Units, Positions)
    BY DEF Body
  <1> HIDE DEF previous
  <1>3. DOMAIN M \subseteq Heroes \cup {NoHero} /\ \A i \in DOMAIN M : M[i] \in Sighting
    BY <1>1, <1>2, MergeTypes
  <1>4. known \in Closest(M)
    BY DEF previous
  <1> HIDE DEF M
  <1>5. DOMAIN known \subseteq DOMAIN M /\ \A i \in DOMAIN known : known[i] = M[i]
    BY <1>4, ClosestAreKnown
  <1>6. Cardinality(DOMAIN known) <= MaxEnemies
    BY <1>4, ClosestAreFew
  <1> QED BY <1>3, <1>5, <1>6 DEF IsSnapshot

\* What save_current_snapshot leaves out makes a snapshot smaller.
LEMMA SavedEnemies ==
    ASSUME NEW s, IsSnapshot(s, Heroes \cup {NoHero})
    PROVE  IsSnapshot(Restrict(s, DOMAIN s \ {NoHero}), Heroes)
  <1> DEFINE kept == Restrict(s, DOMAIN s \ {NoHero})
  <1>1. DOMAIN kept = DOMAIN s \ {NoHero} /\ \A i \in DOMAIN kept : kept[i] = s[i]
    BY DEF Restrict
  <1> HIDE DEF kept
  <1>2. IsFiniteSet(DOMAIN s)
    BY HeroIds, FS_Subset DEF IsSnapshot
  <1>3. /\ Cardinality(DOMAIN kept) <= Cardinality(DOMAIN s)
        /\ Cardinality(DOMAIN kept) \in Nat /\ Cardinality(DOMAIN s) \in Nat
    <2>1. DOMAIN kept \in SUBSET DOMAIN s
      BY <1>1
    <2>2. IsFiniteSet(DOMAIN kept) /\ Cardinality(DOMAIN kept) <= Cardinality(DOMAIN s)
      BY <1>2, <2>1, FS_Subset
    <2> QED BY <1>2, <2>2, FS_CardinalityType
  <1>4. Cardinality(DOMAIN kept) <= MaxEnemies
    BY <1>3, HeroIds DEF IsSnapshot
  <1>5. IsSnapshot(kept, Heroes)
    BY <1>1, <1>4 DEF IsSnapshot
  <1> QED BY <1>5 DEF kept

\* What a session remembers, and what a request has in hand, stay small.
LEMMA SnapshotTypesStep ==
    ASSUME MemoryInv, SnapshotTypes, [Next]_vars
    PROVE  SnapshotTypes'
  <1>0. GsiTypes
    BY DEF MemoryInv
  <1>1. ASSUME NEW h \in Handlers, NEW answer, Return(h, answer)
        PROVE  \A q \in Handlers : IsSnapshot(enemies'[q], Heroes \cup {NoHero})
    <2>1. enemies' = [enemies EXCEPT ![h] = <<>>]
      BY <1>1 DEF Return
    <2>2. \A q \in Handlers : enemies'[q] = enemies[q] \/ enemies'[q] = <<>>
      BY <1>0, <2>1 DEF GsiTypes
    <2> QED BY <2>2, NoEnemies DEF SnapshotTypes
  <1>2. ASSUME NEW h \in Handlers, NEW b \in Body, Receive(h, b) PROVE SnapshotTypes'
    BY <1>2 DEF Receive, redis, SnapshotTypes, IsSnapshot
  <1>3. ASSUME NEW h \in Handlers, CheckActive(h) \/ Enqueue(h) \/ TrimInput(h)
        PROVE  SnapshotTypes'
    <2>1. UNCHANGED snapshot
      BY <1>3 DEF CheckActive, Enqueue, TrimInput, redis
    <2>2. UNCHANGED enemies \/ \E answer \in Answers : Return(h, answer)
      BY <1>3 DEF CheckActive, Enqueue, TrimInput, Answers
    <2> QED BY <1>1, <2>1, <2>2 DEF SnapshotTypes, IsSnapshot
  <1>4. ASSUME NEW h \in Handlers, Load(h) PROVE SnapshotTypes'
    <2>1. UNCHANGED snapshot /\ at[h] = "get_snapshot"
      BY <1>4 DEF Load, redis
    <2>2. CASE Return(h, "failed")
      BY <1>1, <2>1, <2>2 DEF SnapshotTypes, IsSnapshot
    <2>3. CASE ~Return(h, "failed")
      <3>1. PICK b, t : b = body[h] /\ t = b.token
        OBVIOUS
      <3>2. b \in Body /\ t \in Tokens
        BY <2>1, <3>1, BodyTypes DEF MemoryInv, HasBody, Busy
      <3>3. PICK s \in {snapshot[t], NoSnapshot} :
               \E known \in Closest(Merge(Remembered(s), b.visible)) :
                   enemies' = [enemies EXCEPT ![h] = known]
        BY <1>4, <2>3, <3>1 DEF Load
      <3>4. PICK known \in Closest(Merge(Remembered(s), b.visible)) :
               enemies' = [enemies EXCEPT ![h] = known]
        BY <3>3
      <3>5. s = NoSnapshot \/ IsSnapshot(s, Heroes)
        BY <3>2, <3>3 DEF SnapshotTypes
      <3>6. IsSnapshot(known, Heroes \cup {NoHero})
        BY <3>2, <3>4, <3>5, LoadedEnemies
      <3>7. \A q \in Handlers : enemies'[q] = enemies[q] \/ enemies'[q] = known
        BY <1>0, <3>4 DEF GsiTypes
      <3>8. \A q \in Handlers : IsSnapshot(enemies'[q], Heroes \cup {NoHero})
        BY <3>6, <3>7 DEF SnapshotTypes
      <3> QED BY <2>1, <3>8 DEF SnapshotTypes, IsSnapshot
    <2> QED BY <2>2, <2>3
  <1>5. ASSUME NEW h \in Handlers, Save(h) PROVE SnapshotTypes'
    <2>1. PICK t, kept : /\ t = body[h].token
                         /\ kept = Restrict(enemies[h], DOMAIN enemies[h] \ {NoHero})
      OBVIOUS
    <2>2. snapshot' = [snapshot EXCEPT ![t] = kept] \/ UNCHANGED snapshot
      BY <1>5, <2>1 DEF Save
    <2>3. IsSnapshot(kept, Heroes)
      BY <2>1, SavedEnemies DEF SnapshotTypes
    <2>4. \A q \in Tokens : snapshot'[q] = snapshot[q] \/ snapshot'[q] = kept
      BY <1>0, <2>2 DEF GsiTypes
    <2>5. \A q \in Tokens : snapshot'[q] = NoSnapshot \/ IsSnapshot(snapshot'[q], Heroes)
      BY <2>3, <2>4 DEF SnapshotTypes
    <2>6. \A q \in Handlers : IsSnapshot(enemies'[q], Heroes \cup {NoHero})
      BY <1>1, <1>5 DEF Save
    <2> QED BY <2>5, <2>6 DEF SnapshotTypes, IsSnapshot
  <1>6. ASSUME Others \/ UNCHANGED vars PROVE SnapshotTypes'
    <2>1. UNCHANGED enemies
      BY <1>6 DEF Others, PutActive, DropSnapshot, LeaveStream, vars, handlers
    <2>2. \A t \in Tokens : snapshot'[t] = snapshot[t] \/ snapshot'[t] = NoSnapshot
      BY <1>0, <1>6
         DEF Others, PutActive, DropSnapshot, LeaveStream, vars, redis, GsiTypes
    <2>3. \A t \in Tokens : snapshot'[t] = NoSnapshot \/ IsSnapshot(snapshot'[t], Heroes)
      BY <2>2 DEF SnapshotTypes
    <2> QED BY <2>1, <2>3 DEF SnapshotTypes, IsSnapshot
  <1> QED BY <1>2, <1>3, <1>4, <1>5, <1>6 DEF Next, Handle

\* The stream holds ids of entries, however it is filled, trimmed and emptied.
LEMMA StreamTypesStep ==
    ASSUME GsiTypes, StreamTypes, [Next]_vars
    PROVE  StreamTypes'
  <1>0. Len(entry) \in Nat
    BY DEF GsiTypes
  <1>1. ASSUME NEW h \in Handlers, Enqueue(h) PROVE StreamTypes'
    <2>1. UNCHANGED active
      BY <1>1 DEF Enqueue
    <2>2. CASE UNCHANGED <<entry, input>>
      BY <2>1, <2>2 DEF StreamTypes
    <2>3. CASE Add(h)
      <3>1. PICK e : entry' = Append(entry, e) /\ input' = input \cup {Len(entry')}
        BY <2>3 DEF Add
      <3>2. Len(entry') = Len(entry) + 1
        BY <3>1 DEF GsiTypes
      <3>3. ASSUME NEW i \in input' PROVE i \in 1 .. Len(entry')
        <4>1. i \in 1 .. Len(entry) \/ i = Len(entry')
          BY <3>1, <3>3 DEF StreamTypes
        <4> QED BY <1>0, <3>2, <4>1
      <3> QED BY <2>1, <3>3 DEF StreamTypes
    <2> QED BY <1>1, <2>2, <2>3 DEF Enqueue
  <1>2. ASSUME NEW h \in Handlers, TrimInput(h) PROVE StreamTypes'
    <2>1. UNCHANGED <<active, entry>> /\ input' \in Trimmed(input, MaxLen)
      BY <1>2 DEF TrimInput
    <2>2. input' \subseteq input
      BY <2>1 DEF Trimmed
    <2> QED BY <2>1, <2>2 DEF StreamTypes
  <1>3. ASSUME NEW h \in Handlers,
               CheckActive(h) \/ Load(h) \/ Save(h) \/ \E b \in Body : Receive(h, b)
        PROVE  StreamTypes'
    BY <1>3 DEF CheckActive, Load, Save, Receive, redis, StreamTypes
  <1>4. ASSUME Others \/ UNCHANGED vars PROVE StreamTypes'
    BY <1>4 DEF Others, PutActive, DropSnapshot, LeaveStream, vars, redis, StreamTypes
  <1> QED BY <1>1, <1>2, <1>3, <1>4 DEF Next, Handle

\* TypeOK, with at most MaxEnemies enemies in every snapshot and every record: a
\* request that merges what is in sight with what is remembered drops the rest.
THEOREM GsiTypeCorrect == Spec => []TypeOK
  <1> DEFINE Types == MemoryInv /\ SnapshotTypes /\ StreamTypes
  <1>1. Init => SnapshotTypes /\ StreamTypes
    <2> SUFFICES ASSUME Init PROVE SnapshotTypes /\ StreamTypes
      OBVIOUS
    <2>1. SnapshotTypes
      BY NoEnemies DEF Init, SnapshotTypes
    <2>2. StreamTypes
      BY DEF Init, StreamTypes
    <2> QED BY <2>1, <2>2
  <1>2. MemoryInv /\ SnapshotTypes /\ StreamTypes /\ [Next]_vars
          => SnapshotTypes' /\ StreamTypes'
    BY SnapshotTypesStep, StreamTypesStep DEF MemoryInv
  <1>3. Types => TypeOK
    BY DEF MemoryInv, GsiTypes, SnapshotTypes, StreamTypes, TypeOK, Busy
  <1> QED BY <1>1, <1>2, <1>3, MemoryHolds, PTL DEF Spec

=============================================================================
