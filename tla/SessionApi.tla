----------------------------- MODULE SessionApi -----------------------------
(***************************************************************************)
(* The BFF's /api/start and /api/stop handlers (handlers.go) over          *)
(* RedisStore (redisclient/client.go).  A handler is cut at every Redis    *)
(* call.  A call may fail, with or without having taken effect; the        *)
(* handler then answers 500 at once.  The keys of a session expire after   *)
(* TTL ticks.                                                              *)
(***************************************************************************)
EXTENDS Naturals, Sequences

CONSTANTS Tokens,      \* player sessions; none is "" or "default"
          Matches,     \* Matches[t]: the tokens that contain t as a substring
          Configs,     \* configs the UI can send that pass validation
          NoConfig,    \* no active: or prediction-config: key
          Frames,      \* heatmaps the worker may store
          NoFrame,     \* no heat_map: key
          Snapshots,   \* snapshots gsi_processor may store
          NoSnapshot,  \* no snapshot: key
          Requests,    \* requests the BFF serves at a time
          TTL,         \* activeKeyTTL = predictionConfigTTL, in ticks
          MaxEntries   \* bound: entries ever added to each stream

ASSUME SessionConstants ==
    /\ Matches \in [Tokens -> SUBSET Tokens]
    /\ \A t \in Tokens : t \in Matches[t]
    /\ NoConfig \notin Configs
    /\ NoFrame \notin Frames
    /\ NoSnapshot \notin Snapshots
    /\ TTL \in Nat \ {0}
    /\ MaxEntries \in Nat

VARIABLES
    active,    \* active:<token>, the config the session was started with
    config,    \* prediction-config:<token>
    left,      \* ticks until these two keys expire
    heat,      \* heat_map:<token>
    snapshot,  \* snapshot:<token>:current
    entry,     \* every entry ever added to inference:input, by id
    input,     \* ids the stream inference:input holds
    pending,   \* ids the worker's group was given and has not acknowledged
    results,   \* every entry ever added to inference:output
    output,    \* positions in results that the stream holds
    at,        \* the call each request stands before, or its answer
    req,       \* its body
    stream,    \* the stream its loop is at
    found,     \* the keys its last SCAN returned
    ids,       \* the entries its last XRANGE returned
    touched,   \* history: was its session written to since it was received?
    shared     \* history: was there another request for its session since then?

keys == <<active, config, left, heat, snapshot>>
streams == <<entry, input, pending, results, output>>
handlers == <<at, req, stream, found, ids, touched, shared>>
vars == <<keys, streams, handlers>>

NoRequest == [op |-> "none"]
Answers == {"none", "started", "stopped", "error"}
KeyKinds == {"active", "config", "heat", "snapshot"}

Init ==
    /\ active = [t \in Tokens |-> NoConfig]
    /\ config = [t \in Tokens |-> NoConfig]
    /\ left = [t \in Tokens |-> [active |-> 0, config |-> 0]]
    /\ heat = [t \in Tokens |-> NoFrame]
    /\ snapshot = [t \in Tokens |-> NoSnapshot]
    /\ entry = <<>> /\ input = {} /\ pending = {}
    /\ results = <<>> /\ output = {}
    /\ at = [r \in Requests |-> "none"]
    /\ req = [r \in Requests |-> NoRequest]
    /\ stream = [r \in Requests |-> "input"]
    /\ found = [r \in Requests |-> {}]
    /\ ids = [r \in Requests |-> {}]
    /\ touched = [r \in Requests |-> FALSE]
    /\ shared = [r \in Requests |-> FALSE]

-----------------------------------------------------------------------------
(***************************************************************************)
(* Helpers                                                                 *)
(***************************************************************************)

\* The keys of the store, as pairs of a kind and a token.
Exists(k, t) == CASE k = "active"   -> active[t] # NoConfig
                  [] k = "config"   -> config[t] # NoConfig
                  [] k = "heat"     -> heat[t] # NoFrame
                  [] k = "snapshot" -> snapshot[t] # NoSnapshot

\* DEL of a set of keys, which is atomic.
Del(gone) ==
    LET Without(f, k, none) ==
            [t \in Tokens |-> IF <<k, t>> \in gone THEN none ELSE f[t]]
    IN  /\ active' = Without(active, "active", NoConfig)
        /\ config' = Without(config, "config", NoConfig)
        /\ left' = [t \in Tokens |->
                      [active |-> IF <<"active", t>> \in gone THEN 0 ELSE left[t].active,
                       config |-> IF <<"config", t>> \in gone THEN 0 ELSE left[t].config]]
        /\ heat' = Without(heat, "heat", NoFrame)
        /\ snapshot' = Without(snapshot, "snapshot", NoSnapshot)

\* The session of every request for t has been written to.
Touch(t) == touched' = [r \in Requests |->
                          touched[r] \/ (req[r] # NoRequest /\ req[r].token = t)]

\* A request for t comes in as r, while others may be in progress: one client's
\* requests for a session come one after the other.
Share(r, t) ==
    LET Meets(q) == q # r /\ req[q] # NoRequest
                       /\ (t \in Matches[req[q].token] \/ req[q].token \in Matches[t])
    IN  shared' = [q \in Requests |->
                     IF q = r THEN \E p \in Requests : Meets(p) /\ at[p] \notin Answers
                     ELSE shared[q] \/ Meets(q)]

\* The handler of r goes on to a call, or ends with an answer.
Goto(r, call) == at' = [at EXCEPT ![r] = call]

\* A failed call ends the handler; its effect may have been felt.
Fails(r) == Goto(r, "error")

-----------------------------------------------------------------------------
(***************************************************************************)
(* /api/start: SET active:<token>, then SET prediction-config:<token>.     *)
(***************************************************************************)

ReceiveStart(r, t, c) ==
    /\ at[r] \in Answers
    /\ Goto(r, "set_active")
    /\ req' = [req EXCEPT ![r] = [op |-> "start", token |-> t, config |-> c]]
    /\ touched' = [touched EXCEPT ![r] = FALSE]
    /\ Share(r, t)
    /\ UNCHANGED <<keys, streams, stream, found, ids>>

\* Mutant of PutActive: the key is stored without its TTL.
PutActiveForEver(t, c) ==
    /\ active' = [active EXCEPT ![t] = c]
    /\ Touch(t)
    /\ UNCHANGED <<config, left>>

\* SET with activeKeyTTL, and with predictionConfigTTL.
PutActive(t, c) ==
    /\ active' = [active EXCEPT ![t] = c]
    /\ left' = [left EXCEPT ![t].active = TTL]
    /\ Touch(t)
    /\ UNCHANGED config

PutConfig(t, c) ==
    /\ config' = [config EXCEPT ![t] = c]
    /\ left' = [left EXCEPT ![t].config = TTL]
    /\ Touch(t)
    /\ UNCHANGED active

Untouched == UNCHANGED <<active, config, left, touched>>

\* StartSession
SetActive(r) ==
    /\ at[r] = "set_active"
    /\ \/ PutActive(req[r].token, req[r].config) /\ Goto(r, "set_config")
       \/ PutActive(req[r].token, req[r].config) /\ Fails(r)
       \/ Untouched /\ Fails(r)
    /\ UNCHANGED <<heat, snapshot, streams, req, stream, found, ids, shared>>

\* Mutant of SetConfig: its error is not looked at.
SetConfigUnchecked(r) ==
    /\ at[r] = "set_config"
    /\ Goto(r, "started")
    /\ PutConfig(req[r].token, req[r].config) \/ Untouched
    /\ UNCHANGED <<heat, snapshot, streams, req, stream, found, ids, shared>>

\* SetPredictionConfig
SetConfig(r) ==
    /\ at[r] = "set_config"
    /\ \/ PutConfig(req[r].token, req[r].config) /\ Goto(r, "started")
       \/ PutConfig(req[r].token, req[r].config) /\ Fails(r)
       \/ Untouched /\ Fails(r)
    /\ UNCHANGED <<heat, snapshot, streams, req, stream, found, ids, shared>>

-----------------------------------------------------------------------------
(***************************************************************************)
(* /api/stop                                                               *)
(***************************************************************************)

ReceiveStop(r, t) ==
    /\ at[r] \in Answers
    /\ Goto(r, "del")
    /\ req' = [req EXCEPT ![r] = [op |-> "stop", token |-> t]]
    /\ touched' = [touched EXCEPT ![r] = FALSE]
    /\ Share(r, t)
    /\ UNCHANGED <<keys, streams, stream, found, ids>>

\* One DEL of a Stop, which goes on to another call if it succeeds.
DelThen(r, gone, next) ==
    /\ \/ Del(gone) /\ Goto(r, next)
       \/ Del(gone) /\ Fails(r)
       \/ UNCHANGED keys /\ Fails(r)
    /\ found' = [found EXCEPT ![r] = {}]
    /\ UNCHANGED <<streams, req, stream, ids, touched, shared>>

\* One SCAN: it returns the keys of these kinds whose name contains the token.
\* With nothing found, the DEL after it is skipped.
ScanThen(r, kinds, tokens, del, next) ==
    /\ LET hits == {key \in kinds \X tokens : Exists(key[1], key[2])}
       IN  \/ /\ found' = [found EXCEPT ![r] = hits]
              /\ Goto(r, IF hits = {} THEN next ELSE del)
           \/ Fails(r) /\ UNCHANGED found
    /\ UNCHANGED <<keys, streams, req, stream, ids, touched, shared>>

\* DEL of active:, prediction-config: and heat_map:<token>.
DelSession(r) ==
    /\ at[r] = "del"
    /\ DelThen(r, {"active", "config", "heat"} \X {req[r].token}, "scan_snapshots")

\* SCAN snapshot:<token>:*, then DEL.
ScanSnapshots(r) ==
    /\ at[r] = "scan_snapshots"
    /\ ScanThen(r, {"snapshot"}, {req[r].token}, "del_snapshots", "scan_all")

DelSnapshots(r) ==
    /\ at[r] = "del_snapshots"
    /\ DelThen(r, found[r], "scan_all")

\* SCAN *<token>*, then DEL.
ScanAll(r) ==
    /\ at[r] = "scan_all"
    /\ ScanThen(r, KeyKinds, Matches[req[r].token], "del_all", "xrange")

DelAll(r) ==
    /\ at[r] = "del_all"
    /\ DelThen(r, found[r], "xrange")

\* The loop over the streams is done with the one it is at.
NextStream(r) ==
    /\ Goto(r, IF stream[r] = "input" THEN "xrange" ELSE "stopped")
    /\ stream' = [stream EXCEPT ![r] = IF @ = "input" THEN "output" ELSE "input"]
    /\ ids' = [ids EXCEPT ![r] = {}]

\* A failed call leaves the loop.
StreamFails(r) ==
    /\ Fails(r)
    /\ stream' = [stream EXCEPT ![r] = "input"]
    /\ ids' = [ids EXCEPT ![r] = {}]

\* Mutant of Mine: the token is looked for in the requests only.
MineInInput(r) == IF stream[r] = "input"
                  THEN {i \in input : entry[i].token \in Matches[req[r].token]}
                  ELSE {}

\* The entries of the current stream whose data contains the token.
Mine(r) == IF stream[r] = "input"
           THEN {i \in input : entry[i].token \in Matches[req[r].token]}
           ELSE {k \in output : results[k].token \in Matches[req[r].token]}

XRange(r) ==
    /\ at[r] = "xrange"
    /\ \/ Mine(r) = {} /\ NextStream(r)
       \/ /\ Mine(r) # {}
          /\ ids' = [ids EXCEPT ![r] = Mine(r)]
          /\ Goto(r, "xdel")
          /\ UNCHANGED stream
       \/ StreamFails(r)
    /\ UNCHANGED <<keys, streams, req, found, touched, shared>>

XDel(r) ==
    /\ at[r] = "xdel"
    /\ LET Delete == IF stream[r] = "input"
                     THEN input' = input \ ids[r] /\ UNCHANGED output
                     ELSE output' = output \ ids[r] /\ UNCHANGED input
       IN  \/ Delete /\ Goto(r, "xack") /\ UNCHANGED <<stream, ids>>
           \/ Delete /\ StreamFails(r)
           \/ UNCHANGED <<input, output>> /\ StreamFails(r)
    /\ UNCHANGED <<keys, entry, pending, results, req, found, touched, shared>>

\* XACK; its error is ignored, and inference:output has no such group.
XAck(r) ==
    /\ at[r] = "xack"
    /\ \/ stream[r] = "input" /\ pending' = pending \ ids[r]
       \/ UNCHANGED pending
    /\ NextStream(r)
    /\ UNCHANGED <<keys, entry, input, results, output, req, found, touched, shared>>

Handle(r) == \/ SetActive(r) \/ SetConfig(r)
             \/ DelSession(r) \/ ScanSnapshots(r) \/ DelSnapshots(r)
             \/ ScanAll(r) \/ DelAll(r) \/ XRange(r) \/ XDel(r) \/ XAck(r)

Receive(r) == \E t \in Tokens : ReceiveStop(r, t)
                                \/ \E c \in Configs : ReceiveStart(r, t, c)

-----------------------------------------------------------------------------
(***************************************************************************)
(* Time, and the other services as the BFF sees them.                      *)
(***************************************************************************)

Tick ==
    /\ left' = [t \in Tokens |->
                  [active |-> IF left[t].active = 0 THEN 0 ELSE left[t].active - 1,
                   config |-> IF left[t].config = 0 THEN 0 ELSE left[t].config - 1]]
    /\ active' = [t \in Tokens |-> IF left'[t].active = 0 THEN NoConfig ELSE active[t]]
    /\ config' = [t \in Tokens |-> IF left'[t].config = 0 THEN NoConfig ELSE config[t]]
    /\ UNCHANGED <<heat, snapshot, streams, handlers>>

\* inference, set_heatmap; the key's TTL.
PutHeatmap(t, f) ==
    /\ heat' = [heat EXCEPT ![t] = f]
    /\ IF f = NoFrame THEN UNCHANGED touched ELSE Touch(t)
    /\ UNCHANGED <<active, config, left, snapshot, streams, at, req, stream, found, ids, shared>>

\* gsi_processor, save_current_snapshot; the key's TTL.
PutSnapshot(t, s) ==
    /\ snapshot' = [snapshot EXCEPT ![t] = s]
    /\ IF s = NoSnapshot THEN UNCHANGED touched ELSE Touch(t)
    /\ UNCHANGED <<active, config, left, heat, streams, at, req, stream, found, ids, shared>>

\* gsi_processor, enqueue_request.
AddEntry(t) ==
    /\ Len(entry) < MaxEntries
    /\ entry' = Append(entry, [token |-> t])
    /\ input' = input \cup {Len(entry')}
    /\ Touch(t)
    /\ UNCHANGED <<keys, pending, results, output, at, req, stream, found, ids, shared>>

\* inference, push_results.
AddResult(t) ==
    /\ Len(results) < MaxEntries
    /\ results' = Append(results, [token |-> t])
    /\ output' = output \cup {Len(results')}
    /\ Touch(t)
    /\ UNCHANGED <<keys, entry, input, pending, at, req, stream, found, ids, shared>>

\* inference, pop_raw_messages and ack_messages.
Deliver ==
    /\ pending' = pending \cup input
    /\ UNCHANGED <<keys, entry, input, results, output, handlers>>
Consume ==
    /\ pending' = {}
    /\ input' = input \ pending
    /\ UNCHANGED <<keys, entry, results, output, handlers>>

Others == \/ Tick \/ Deliver \/ Consume
          \/ \E t \in Tokens :
                \/ \E f \in Frames \cup {NoFrame} : PutHeatmap(t, f)
                \/ \E s \in Snapshots \cup {NoSnapshot} : PutSnapshot(t, s)
                \/ AddEntry(t) \/ AddResult(t)

Next == (\E r \in Requests : Receive(r) \/ Handle(r)) \/ Others

Spec == Init /\ [][Next]_vars

-----------------------------------------------------------------------------
(***************************************************************************)
(* Properties                                                              *)
(***************************************************************************)

Request == {NoRequest}
    \cup [op : {"start"}, token : Tokens, config : Configs]
    \cup [op : {"stop"}, token : Tokens]

\* Every variable has its type; active: and prediction-config: are there
\* while they have ticks left.
TypeOK ==
    /\ active \in [Tokens -> Configs \cup {NoConfig}]
    /\ config \in [Tokens -> Configs \cup {NoConfig}]
    /\ left \in [Tokens -> [active : 0 .. TTL, config : 0 .. TTL]]
    /\ \A t \in Tokens : /\ active[t] = NoConfig <=> left[t].active = 0
                         /\ config[t] = NoConfig <=> left[t].config = 0
    /\ heat \in [Tokens -> Frames \cup {NoFrame}]
    /\ snapshot \in [Tokens -> Snapshots \cup {NoSnapshot}]
    /\ entry \in Seq([token : Tokens])
    /\ input \in SUBSET (1 .. Len(entry))
    /\ pending \in SUBSET (1 .. Len(entry))
    /\ results \in Seq([token : Tokens])
    /\ output \in SUBSET (1 .. Len(results))
    /\ at \in [Requests -> Answers \cup
                 {"set_active", "set_config", "del", "scan_snapshots", "del_snapshots",
                  "scan_all", "del_all", "xrange", "xdel", "xack"}]
    /\ req \in [Requests -> Request]
    /\ stream \in [Requests -> {"input", "output"}]
    /\ touched \in [Requests -> BOOLEAN]
    /\ shared \in [Requests -> BOOLEAN]
    /\ found \in [Requests -> SUBSET (KeyKinds \X Tokens)]
    /\ ids \in [Requests -> SUBSET (1 .. MaxEntries)]

\* No key and no stream entry contains the token t.
NothingLeft(t) == /\ \A k \in KeyKinds : ~Exists(k, t)
                  /\ \A i \in input : entry[i].token # t
                  /\ \A k \in output : results[k].token # t

\* When /api/stop answers "stopped", no key and no stream entry of the session
\* is left that was there when the request came in: if nobody wrote to the
\* session since, nothing is left at all, whatever other requests run
\* (TestFakeStore_StopSessionCleansTokenArtifacts).
StoppedMeansErased ==
    \A r \in Requests :
        at[r] = "stopped" /\ ~touched[r] => NothingLeft(req[r].token)

\* A session whose start was answered "started" is configured for as long as it
\* is active, unless another client sends requests for it too: gsi_processor lets
\* no record in whose prediction would use the default config instead of the
\* client's, through failed calls, restarts with another config and expiry.
ConfiguredWhileActive ==
    \A r \in Requests :
        at[r] = "started" /\ ~shared[r] =>
            LET t == req[r].token
            IN  active[t] = NoConfig \/ config[t] = active[t]

=============================================================================
