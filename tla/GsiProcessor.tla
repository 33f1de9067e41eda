---------------------------- MODULE GsiProcessor ----------------------------
(***************************************************************************)
(* gsi_processor: GSIProcessorService.process_gsi_data (services/          *)
(* process.py) over its Redis repositories (infra/redis.py).  A request is *)
(* cut at every await.  Of the features only what is remembered between    *)
(* requests is kept: where each enemy hero was last seen, how long ago.    *)
(***************************************************************************)
EXTENDS Sequences, Functions, RedisStreams

CONSTANTS Tokens,      \* player sessions
          Configs,     \* what active:<token> may hold
          NoConfig,    \* no active: key
          Units,       \* unit names of enemy heroes, npc_dota_hero_...
          Heroes,      \* hero ids, the keys of a snapshot
          NoHero,      \* id 0: the unit name is not in the catalogue
          HeroId,      \* heroNames.json
          Positions,   \* where a hero can be
          OnMap,       \* whether the player's square can be a cell of the grid
          MaxEnemies,  \* enemies kept per record (5)
          NoSnapshot,  \* no snapshot: key
          Handlers,    \* requests served at a time
          MaxLen,      \* XTRIM MAXLEN (1000)
          MaxEntries   \* bound: entries ever added to inference:input

ASSUME GsiConstants ==
    /\ NoConfig \notin Configs
    /\ NoHero \notin Heroes
    /\ IsFiniteSet(Heroes)
    /\ HeroId \in [Units -> Heroes \cup {NoHero}]
    /\ Units \cap Heroes = {}
    /\ OnMap \subseteq BOOLEAN
    /\ MaxEnemies \in Nat \ {0}
    /\ MaxLen \in Nat \ {0}
    /\ MaxEntries \in Nat

VARIABLES
    active,    \* active:<token>
    snapshot,  \* snapshot:<token>:current
    entry,     \* every entry ever added to inference:input, by id
    input,     \* ids the stream inference:input holds
    at,        \* the call each request stands before, or its answer
    body,      \* its GSIRequest
    enemies,   \* features.enemies
    seen       \* history: the sightings each session's requests reported

redis == <<active, snapshot, entry, input>>
handlers == <<at, body, enemies>>
vars == <<redis, handlers, seen>>

\* Functions from a subset of D to R.
PartialFunctions(D, R) == UNION {[S -> R] : S \in SUBSET D}

Entry == [token : Tokens, valid : {TRUE}, on_map : OnMap]
Body == [token : Tokens, on_map : OnMap,
         visible : {v \in PartialFunctions(Units, Positions) :
                        Cardinality(DOMAIN v) <= MaxEnemies}]
NoBody == [token |-> "none"]
Answers == {"none", "accepted", "rejected", "failed"}

Init ==
    /\ active = [t \in Tokens |-> NoConfig]
    /\ snapshot = [t \in Tokens |-> NoSnapshot]
    /\ entry = <<>>
    /\ input = {}
    /\ at = [h \in Handlers |-> "none"]
    /\ body = [h \in Handlers |-> NoBody]
    /\ enemies = [h \in Handlers |-> <<>>]
    /\ seen = [t \in Tokens |-> {}]

-----------------------------------------------------------------------------
(***************************************************************************)
(* _build_enemy_snapshots                                                  *)
(***************************************************************************)

\* The enemies a snapshot remembers.
Remembered(s) == IF s = NoSnapshot THEN <<>> ELSE s

\* merged_positions before the merge: the visible enemies, by hero id.
InSight(visible) ==
    [i \in {HeroId[u] : u \in DOMAIN visible} |->
        visible[CHOOSE u \in DOMAIN visible : HeroId[u] = i]]

\* Remembered enemies are looked up by hero id among the unit names in sight.
Unseen(previous, visible) == DOMAIN previous \ DOMAIN visible

\* Every known enemy: what was remembered is a request older now; an id without
\* a last-seen time counts as seen now.
Merge(previous, visible) ==
    LET now == InSight(visible)
        old == Unseen(previous, visible)
    IN  [i \in DOMAIN now \cup old |->
            IF i \in old
            THEN [pos |-> previous[i].pos, time |-> previous[i].time + 1]
            ELSE [pos |-> now[i], time |-> 0]]

\* The five closest: distances are not modelled, so any five.
Closest(known) ==
    {Restrict(known, ids) : ids \in {S \in SUBSET DOMAIN known :
        \/ S = DOMAIN known /\ Cardinality(S) <= MaxEnemies
        \/ Cardinality(S) = MaxEnemies}}

-----------------------------------------------------------------------------
(***************************************************************************)
(* process_gsi_data                                                        *)
(***************************************************************************)

\* The handler of h goes on to a call, or ends with an answer.
Goto(h, call) == at' = [at EXCEPT ![h] = call]

Return(h, answer) ==
    /\ Goto(h, answer)
    /\ body' = [body EXCEPT ![h] = NoBody]
    /\ enemies' = [enemies EXCEPT ![h] = <<>>]

Receive(h, b) ==
    /\ at[h] \in Answers
    /\ Goto(h, "is_active")
    /\ body' = [body EXCEPT ![h] = b]
    /\ seen' = [seen EXCEPT ![b.token] = @ \cup
                   {<<HeroId[u], b.visible[u]>> : u \in DOMAIN b.visible}]
    /\ UNCHANGED <<redis, enemies>>

\* is_active: 403 for an unknown session, 503 if Redis cannot be asked.
CheckActive(h) ==
    /\ at[h] = "is_active"
    /\ \/ /\ active[body[h].token] # NoConfig
          /\ Goto(h, "get_snapshot")
          /\ UNCHANGED <<body, enemies>>
       \/ active[body[h].token] = NoConfig /\ Return(h, "rejected")
       \/ Return(h, "failed")
    /\ UNCHANGED <<redis, seen>>

\* Mutant of Load: one snapshot serves all sessions.
LoadAnySession(h) ==
    /\ at[h] = "get_snapshot"
    /\ \E t \in Tokens :
        \E known \in Closest(Merge(Remembered(snapshot[t]), body[h].visible)) :
            enemies' = [enemies EXCEPT ![h] = known]
    /\ Goto(h, "xadd")
    /\ UNCHANGED <<redis, body, seen>>

\* get_previous_snapshot, for which an error is an absent snapshot; then the
\* features, where a catalogue or validation error ends the request.
Load(h) ==
    /\ at[h] = "get_snapshot"
    /\ \/ /\ \E s \in {snapshot[body[h].token], NoSnapshot} :
             \E known \in Closest(Merge(Remembered(s), body[h].visible)) :
                enemies' = [enemies EXCEPT ![h] = known]
          /\ Goto(h, "xadd")
          /\ UNCHANGED body
       \/ Return(h, "failed")
    /\ UNCHANGED <<redis, seen>>

Add(h) ==
    /\ entry' = Append(entry, [token |-> body[h].token, valid |-> TRUE,
                               on_map |-> body[h].on_map])
    /\ input' = input \cup {Len(entry')}

\* Mutant of Enqueue: a failed XADD is logged and the request goes on.
EnqueueOrLog(h) ==
    /\ at[h] = "xadd"
    /\ Len(entry) < MaxEntries
    /\ Add(h) \/ UNCHANGED <<entry, input>>
    /\ Goto(h, "xtrim")
    /\ UNCHANGED <<active, snapshot, body, enemies, seen>>

\* enqueue_request, XADD.
Enqueue(h) ==
    /\ at[h] = "xadd"
    /\ Len(entry) < MaxEntries
    /\ \/ Add(h) /\ Goto(h, "xtrim") /\ UNCHANGED <<body, enemies>>
       \/ Add(h) /\ Return(h, "failed")
       \/ UNCHANGED <<entry, input>> /\ Return(h, "failed")
    /\ UNCHANGED <<active, snapshot, seen>>

\* enqueue_request, XTRIM.
TrimInput(h) ==
    /\ at[h] = "xtrim"
    /\ \/ /\ input' \in Trimmed(input, MaxLen)
          /\ Goto(h, "set_snapshot")
          /\ UNCHANGED <<body, enemies>>
       \/ input' \in Trimmed(input, MaxLen) /\ Return(h, "failed")
    /\ UNCHANGED <<active, snapshot, entry, seen>>

\* Mutant of Save: an enemy the catalogue does not know is remembered as id 0.
SaveUnknown(h) ==
    /\ at[h] = "set_snapshot"
    /\ snapshot' = [snapshot EXCEPT ![body[h].token] = enemies[h]]
    /\ Return(h, "accepted")
    /\ UNCHANGED <<active, entry, input, seen>>

\* save_current_snapshot; its error is logged.
Save(h) ==
    /\ at[h] = "set_snapshot"
    /\ \/ snapshot' = [snapshot EXCEPT ![body[h].token] =
                          Restrict(enemies[h], DOMAIN enemies[h] \ {NoHero})]
       \/ UNCHANGED snapshot
    /\ Return(h, "accepted")
    /\ UNCHANGED <<active, entry, input, seen>>

Handle(h) == CheckActive(h) \/ Load(h) \/ Enqueue(h) \/ TrimInput(h) \/ Save(h)

-----------------------------------------------------------------------------
(***************************************************************************)
(* The other services, and time.                                           *)
(***************************************************************************)

\* bff: /api/start; /api/stop or the key's TTL.
PutActive(t, c) ==
    /\ active' = [active EXCEPT ![t] = c]
    /\ UNCHANGED <<snapshot, entry, input, handlers, seen>>

\* bff, /api/stop; the key's TTL of 60 s.
DropSnapshot(t) ==
    /\ snapshot' = [snapshot EXCEPT ![t] = NoSnapshot]
    /\ UNCHANGED <<active, entry, input, handlers, seen>>

\* The worker deletes what it has answered, the bff what is of a stopped session.
LeaveStream(i) ==
    /\ input' = input \ {i}
    /\ UNCHANGED <<active, snapshot, entry, handlers, seen>>

Others == \/ \E t \in Tokens, c \in Configs \cup {NoConfig} : PutActive(t, c)
          \/ \E t \in Tokens : DropSnapshot(t)
          \/ \E i \in input : LeaveStream(i)

Next == \/ \E h \in Handlers : Handle(h) \/ \E b \in Body : Receive(h, b)
        \/ Others

Spec == Init /\ [][Next]_vars

-----------------------------------------------------------------------------
(***************************************************************************)
(* Properties                                                              *)
(***************************************************************************)

\* A sighting as the snapshot stores it; enemy_last_seen_time is >= 0.
Sighting == [pos : Positions, time : Nat]

IsSnapshot(s, ids) ==
    /\ DOMAIN s \subseteq ids
    /\ Cardinality(DOMAIN s) <= MaxEnemies
    /\ \A i \in DOMAIN s : s[i] \in Sighting

\* Every variable has its type, and no snapshot or record has more than
\* MaxEnemies enemies.
TypeOK ==
    /\ active \in [Tokens -> Configs \cup {NoConfig}]
    /\ \A t \in Tokens : snapshot[t] = NoSnapshot \/ IsSnapshot(snapshot[t], Heroes)
    /\ entry \in Seq(Entry)
    /\ input \in SUBSET (1 .. Len(entry))
    /\ at \in [Handlers -> Answers \cup
                 {"is_active", "get_snapshot", "xadd", "xtrim", "set_snapshot"}]
    /\ body \in [Handlers -> Body \cup {NoBody}]
    /\ \A h \in Handlers : IsSnapshot(enemies[h], Heroes \cup {NoHero})

RecordsOf(t) == Cardinality({i \in DOMAIN entry : entry[i].token = t})

\* An enemy was last seen fewer requests ago than its session has records:
\* last-seen times count enqueued records, whichever calls fail and however
\* many requests of a session overlap (process.py: enqueue, then save).
AgeBoundedByRecords ==
    \A t \in Tokens :
        snapshot[t] # NoSnapshot =>
            \A i \in DOMAIN snapshot[t] : snapshot[t][i].time < RecordsOf(t)

\* A session remembers only enemies that its own requests reported, where they
\* reported them: nothing of another player's game, and no position of another
\* hero (snapshot:<token>:current).
SightingsOfOwnSession ==
    \A t \in Tokens :
        snapshot[t] # NoSnapshot =>
            \A i \in DOMAIN snapshot[t] : <<i, snapshot[t][i].pos>> \in seen[t]

\* "Start with visible enemies (all have time=0, fresh position)", and only for
\* an "Enemy not visible now, use previous position and increment time"
\* (process.py:490, 498): an enemy in sight is recorded where it is now.
VisibleIsFresh ==
    \A h \in Handlers :
        at[h] = "xadd" =>
            \A u \in DOMAIN body[h].visible :
                HeroId[u] \in DOMAIN enemies[h] =>
                    enemies[h][HeroId[u]] = [pos |-> body[h].visible[u], time |-> 0]

=============================================================================
