-------------------------- MODULE SessionApiProofs ---------------------------
(***************************************************************************)
(* /api/start and /api/stop of SessionApi for every number of sessions,    *)
(* requests and stream entries and every TTL: what a stop erases, and that *)
(* an active session is configured.                                        *)
(***************************************************************************)
EXTENDS SessionApi, SequenceTheorems, TLAPS

StartCalls == {"set_active", "set_config", "started"}
StopCalls == {"del", "scan_snapshots", "del_snapshots", "scan_all", "del_all",
              "xrange", "xdel", "xack", "stopped"}
StartRequest == [op : {"start"}, token : Tokens, config : Configs]
StopRequest == [op : {"stop"}, token : Tokens]

\* TypeOK in three parts, after what the steps change.
KeysType ==
    /\ active \in [Tokens -> Configs \cup {NoConfig}]
    /\ config \in [Tokens -> Configs \cup {NoConfig}]
    /\ left \in [Tokens -> [active : 0 .. TTL, config : 0 .. TTL]]
    /\ \A t \in Tokens : /\ active[t] = NoConfig <=> left[t].active = 0
                         /\ config[t] = NoConfig <=> left[t].config = 0
    /\ heat \in [Tokens -> Frames \cup {NoFrame}]
    /\ snapshot \in [Tokens -> Snapshots \cup {NoSnapshot}]

StreamsType ==
    /\ entry \in Seq([token : Tokens]) /\ Len(entry) <= MaxEntries
    /\ input \in SUBSET (1 .. Len(entry))
    /\ pending \in SUBSET (1 .. Len(entry))
    /\ results \in Seq([token : Tokens]) /\ Len(results) <= MaxEntries
    /\ output \in SUBSET (1 .. Len(results))

HandlersType ==
    /\ at \in [Requests -> Answers \cup StartCalls \cup StopCalls]
    /\ req \in [Requests -> Request]
    /\ stream \in [Requests -> {"input", "output"}]
    /\ touched \in [Requests -> BOOLEAN]
    /\ shared \in [Requests -> BOOLEAN]
    /\ found \in [Requests -> SUBSET (KeyKinds \X Tokens)]
    /\ ids \in [Requests -> SUBSET (1 .. MaxEntries)]

\* A handler stands before a call of its own request's operation.
CallsOfRequest ==
    \A r \in Requests :
        /\ at[r] \in StartCalls => req[r] \in StartRequest
        /\ at[r] \in StopCalls => req[r] \in StopRequest
        /\ at[r] = "none" <=> req[r] = NoRequest

ApiTypes == KeysType /\ StreamsType /\ HandlersType /\ CallsOfRequest

-----------------------------------------------------------------------------
\* The keys keep their types and their TTLs.
LEMMA KeysStep == ApiTypes /\ [Next]_vars => KeysType'
<1> SUFFICES ASSUME ApiTypes, [Next]_vars PROVE KeysType'
  OBVIOUS
<1> USE DEF KeysType
<1>t. KeysType /\ CallsOfRequest
  BY DEF ApiTypes
<1>k. TTL \in Nat \ {0} /\ NoConfig \notin Configs
  BY SessionConstants
<1>1. ASSUME NEW r \in Requests, SetActive(r) \/ SetConfig(r) PROVE KeysType'
  <2>1. req[r].token \in Tokens /\ req[r].config \in Configs
    BY <1>1, <1>t DEF CallsOfRequest, SetActive, SetConfig, StartCalls, StartRequest
  <2>2. UNCHANGED <<heat, snapshot>>
    BY <1>1 DEF SetActive, SetConfig
  <2>3. CASE Untouched
    BY <2>2, <2>3, <1>t DEF Untouched
  <2>4. CASE PutActive(req[r].token, req[r].config)
    BY <2>1, <2>2, <2>4, <1>t, <1>k DEF PutActive
  <2>5. CASE PutConfig(req[r].token, req[r].config)
    BY <2>1, <2>2, <2>5, <1>t, <1>k DEF PutConfig
  <2>. QED  BY <1>1, <2>3, <2>4, <2>5 DEF SetActive, SetConfig
<1>2. ASSUME NEW gone, Del(gone) PROVE KeysType'
  BY <1>2, <1>t, <1>k DEF Del
<1>3. CASE Tick
  <2>1. UNCHANGED <<heat, snapshot>>
    BY <1>3 DEF Tick
  <2>2. left' \in [Tokens -> [active : 0 .. TTL, config : 0 .. TTL]]
    <3>1. ASSUME NEW n \in 0 .. TTL PROVE (IF n = 0 THEN 0 ELSE n - 1) \in 0 .. TTL
      BY <1>k
    <3>. QED  BY <1>3, <1>t, <3>1 DEF Tick
  <2>3. /\ active' = [t \in Tokens |-> IF left'[t].active = 0 THEN NoConfig ELSE active[t]]
        /\ config' = [t \in Tokens |-> IF left'[t].config = 0 THEN NoConfig ELSE config[t]]
        /\ left' = [t \in Tokens |->
                     [active |-> IF left[t].active = 0 THEN 0 ELSE left[t].active - 1,
                      config |-> IF left[t].config = 0 THEN 0 ELSE left[t].config - 1]]
    BY <1>3 DEF Tick
  <2>4. /\ active' \in [Tokens -> Configs \cup {NoConfig}]
        /\ config' \in [Tokens -> Configs \cup {NoConfig}]
    BY <2>3, <1>t
  <2>5. ASSUME NEW t \in Tokens
        PROVE  /\ active'[t] = NoConfig <=> left'[t].active = 0
               /\ config'[t] = NoConfig <=> left'[t].config = 0
    <3>1. left[t].active \in Nat /\ left[t].config \in Nat
      BY <1>t, <1>k
    <3>2. /\ left[t].active = 0 => left'[t].active = 0
          /\ left[t].config = 0 => left'[t].config = 0
      BY <2>3
    <3>. QED  BY <2>3, <3>1, <3>2, <1>t
  <2>. QED  BY <2>1, <2>2, <2>4, <2>5, <1>t
<1>4. ASSUME NEW t \in Tokens, NEW f \in Frames \cup {NoFrame}, PutHeatmap(t, f)
      PROVE  KeysType'
  BY <1>4, <1>t DEF PutHeatmap
<1>5. ASSUME NEW t \in Tokens, NEW s \in Snapshots \cup {NoSnapshot}, PutSnapshot(t, s)
      PROVE  KeysType'
  BY <1>5, <1>t DEF PutSnapshot
<1>6. CASE UNCHANGED keys
  BY <1>6, <1>t DEF keys
<1>7. ASSUME NEW r \in Requests, DelSession(r) \/ DelSnapshots(r) \/ DelAll(r)
      PROVE  KeysType'
  <2>1. \/ UNCHANGED keys
        \/ Del({"active", "config", "heat"} \X {req[r].token})
        \/ Del(found[r])
    BY <1>7 DEF DelSession, DelSnapshots, DelAll, DelThen
  <2>. QED  BY <2>1, <1>2, <1>6
<1>8. \A r \in Requests :
        Receive(r) \/ ScanSnapshots(r) \/ ScanAll(r) \/ XRange(r) \/ XDel(r) \/ XAck(r)
          => UNCHANGED keys
  BY DEF Receive, ReceiveStart, ReceiveStop, ScanSnapshots, ScanAll, ScanThen, XRange,
         XDel, XAck
<1>9. Deliver \/ Consume \/ (\E t \in Tokens : AddEntry(t) \/ AddResult(t)) \/ UNCHANGED vars
        => UNCHANGED keys
  BY DEF Deliver, Consume, AddEntry, AddResult, vars
<1>. QED  BY <1>1, <1>3, <1>4, <1>5, <1>6, <1>7, <1>8, <1>9 DEF Next, Handle, Others

\* The streams hold ids of entries that were added.
LEMMA StreamsStep == ApiTypes /\ [Next]_vars => StreamsType'
<1> SUFFICES ASSUME ApiTypes, [Next]_vars PROVE StreamsType'
  OBVIOUS
<1>t. /\ entry \in Seq([token : Tokens]) /\ Len(entry) <= MaxEntries /\ Len(entry) \in Nat
      /\ results \in Seq([token : Tokens]) /\ Len(results) <= MaxEntries /\ Len(results) \in Nat
      /\ input \in SUBSET (1 .. Len(entry)) /\ pending \in SUBSET (1 .. Len(entry))
      /\ output \in SUBSET (1 .. Len(results))
      /\ MaxEntries \in Nat
  BY SessionConstants, LenProperties DEF ApiTypes, StreamsType
<1>1. CASE /\ UNCHANGED <<entry, results>>
           /\ input' \subseteq input /\ output' \subseteq output
           /\ pending' \subseteq pending \cup input
  BY <1>1, <1>t DEF StreamsType
<1>2. ASSUME NEW t \in Tokens, AddEntry(t) PROVE StreamsType'
  <2>1. /\ entry' = Append(entry, [token |-> t]) /\ Len(entry) < MaxEntries
        /\ input' = input \cup {Len(entry')}
        /\ UNCHANGED <<pending, results, output>>
    BY <1>2 DEF AddEntry
  <2>2. entry' \in Seq([token : Tokens]) /\ Len(entry') = Len(entry) + 1
    BY <2>1, <1>t
  <2>3. 1 .. Len(entry) \subseteq 1 .. Len(entry') /\ Len(entry') \in 1 .. Len(entry')
    BY <2>2, <1>t
  <2>4. /\ input' \subseteq 1 .. Len(entry') /\ pending' \subseteq 1 .. Len(entry')
        /\ output' \subseteq 1 .. Len(results')
    BY <2>1, <2>3, <1>t
  <2>5. Len(entry') <= MaxEntries
    BY <2>1, <2>2, <1>t
  <2>. QED  BY <2>1, <2>2, <2>4, <2>5, <1>t DEF StreamsType
<1>3. ASSUME NEW t \in Tokens, AddResult(t) PROVE StreamsType'
  <2>1. /\ results' = Append(results, [token |-> t]) /\ Len(results) < MaxEntries
        /\ output' = output \cup {Len(results')}
        /\ UNCHANGED <<entry, input, pending>>
    BY <1>3 DEF AddResult
  <2>2. results' \in Seq([token : Tokens]) /\ Len(results') = Len(results) + 1
    BY <2>1, <1>t
  <2>3. 1 .. Len(results) \subseteq 1 .. Len(results') /\ Len(results') \in 1 .. Len(results')
    BY <2>2, <1>t
  <2>4. /\ input' \subseteq 1 .. Len(entry') /\ pending' \subseteq 1 .. Len(entry')
        /\ output' \subseteq 1 .. Len(results')
    BY <2>1, <2>3, <1>t
  <2>5. Len(results') <= MaxEntries
    BY <2>1, <2>2, <1>t
  <2>. QED  BY <2>1, <2>2, <2>4, <2>5, <1>t DEF StreamsType
<1>4. ASSUME NEW r \in Requests, Handle(r) \/ Receive(r)
      PROVE  /\ UNCHANGED <<entry, results>>
             /\ input' \subseteq input /\ output' \subseteq output
             /\ pending' \subseteq pending \cup input
  BY <1>4 DEF Handle, Receive, ReceiveStart, ReceiveStop, SetActive, SetConfig, DelSession,
              ScanSnapshots, DelSnapshots, ScanAll, DelAll, DelThen, ScanThen, XRange, XDel,
              XAck, streams
<1>5. Tick \/ Deliver \/ Consume \/ UNCHANGED vars
        => /\ UNCHANGED <<entry, results>>
           /\ input' \subseteq input /\ output' \subseteq output
           /\ pending' \subseteq pending \cup input
  BY DEF Tick, Deliver, Consume, vars, streams
<1>6. \A t \in Tokens :
        /\ \A f \in Frames \cup {NoFrame} : PutHeatmap(t, f) => UNCHANGED streams
        /\ \A s \in Snapshots \cup {NoSnapshot} : PutSnapshot(t, s) => UNCHANGED streams
  BY DEF PutHeatmap, PutSnapshot
<1>7. CASE UNCHANGED streams
  BY <1>7, <1>1 DEF streams
<1>. QED  BY <1>1, <1>2, <1>3, <1>4, <1>5, <1>6, <1>7 DEF Next, Others

-----------------------------------------------------------------------------
\* A call of a handler moves this handler alone, within its operation.
LEMMA HandleMoves ==
  ASSUME HandlersType, NEW r \in Requests, Handle(r)
  PROVE  /\ UNCHANGED <<req, shared>>
         /\ \E a \in StartCalls \cup StopCalls \cup {"error"} : at' = [at EXCEPT ![r] = a]
         /\ at[r] \in StartCalls \cup StopCalls
         /\ at[r] \in StartCalls => at'[r] \in StartCalls \cup {"error"}
         /\ at[r] \in StopCalls => at'[r] \in StopCalls \cup {"error"}
<1>t. at \in [Requests -> Answers \cup StartCalls \cup StopCalls]
  BY DEF HandlersType
<1>1. CASE SetActive(r) \/ SetConfig(r)
  <2>1. /\ UNCHANGED <<req, shared>> /\ at[r] \in {"set_active", "set_config"}
        /\ \E a \in {"set_config", "started", "error"} : at' = [at EXCEPT ![r] = a]
    BY <1>1 DEF SetActive, SetConfig, Goto, Fails
  <2>. QED  BY <2>1, <1>t DEF StartCalls, StopCalls
<1>2. CASE DelSession(r) \/ DelSnapshots(r) \/ DelAll(r)
  <2>1. /\ UNCHANGED <<req, shared>> /\ at[r] \in {"del", "del_snapshots", "del_all"}
        /\ \E a \in {"scan_snapshots", "scan_all", "xrange", "error"} :
              at' = [at EXCEPT ![r] = a]
    BY <1>2 DEF DelSession, DelSnapshots, DelAll, DelThen, Goto, Fails
  <2>. QED  BY <2>1, <1>t DEF StartCalls, StopCalls
<1>3. CASE ScanSnapshots(r) \/ ScanAll(r)
  <2>1. /\ UNCHANGED <<req, shared>> /\ at[r] \in {"scan_snapshots", "scan_all"}
        /\ \E a \in {"del_snapshots", "scan_all", "del_all", "xrange", "error"} :
              at' = [at EXCEPT ![r] = a]
    BY <1>3 DEF ScanSnapshots, ScanAll, ScanThen, Goto, Fails
  <2>. QED  BY <2>1, <1>t DEF StartCalls, StopCalls
<1>4. CASE XRange(r) \/ XDel(r) \/ XAck(r)
  <2>1. /\ UNCHANGED <<req, shared>> /\ at[r] \in {"xrange", "xdel", "xack"}
        /\ \E a \in {"xrange", "xdel", "xack", "stopped", "error"} :
              at' = [at EXCEPT ![r] = a]
    BY <1>4 DEF XRange, XDel, XAck, NextStream, StreamFails, Goto, Fails
  <2>. QED  BY <2>1, <1>t DEF StartCalls, StopCalls
<1>. QED  BY <1>1, <1>2, <1>3, <1>4 DEF Handle

\* A request that comes in replaces an answered one.
LEMMA ReceiveMoves ==
  ASSUME HandlersType, NEW r \in Requests, Receive(r)
  PROVE  /\ at[r] \in Answers
         /\ UNCHANGED <<keys, streams, stream, found, ids>>
         /\ touched' = [touched EXCEPT ![r] = FALSE]
         /\ \E t \in Tokens :
              /\ Share(r, t)
              /\ \/ /\ at' = [at EXCEPT ![r] = "del"]
                    /\ req' = [req EXCEPT ![r] = [op |-> "stop", token |-> t]]
                 \/ \E c \in Configs :
                       /\ at' = [at EXCEPT ![r] = "set_active"]
                       /\ req' = [req EXCEPT ![r] = [op |-> "start", token |-> t, config |-> c]]
  BY DEF Receive, ReceiveStart, ReceiveStop, Goto

\* The handlers keep their types and their operations.
LEMMA CallsStep ==
  ApiTypes /\ [Next]_vars
    => /\ at' \in [Requests -> Answers \cup StartCalls \cup StopCalls]
       /\ req' \in [Requests -> Request]
       /\ CallsOfRequest'
<1> SUFFICES ASSUME ApiTypes, [Next]_vars
             PROVE  /\ at' \in [Requests -> Answers \cup StartCalls \cup StopCalls]
                    /\ req' \in [Requests -> Request]
                    /\ CallsOfRequest'
  OBVIOUS
<1>t. /\ at \in [Requests -> Answers \cup StartCalls \cup StopCalls]
      /\ req \in [Requests -> Request] /\ CallsOfRequest /\ HandlersType
  BY DEF ApiTypes, HandlersType
<1>1. ASSUME NEW r \in Requests, Handle(r)
      PROVE  /\ at' \in [Requests -> Answers \cup StartCalls \cup StopCalls]
             /\ req' \in [Requests -> Request]
             /\ CallsOfRequest'
  <2>1. PICK a \in StartCalls \cup StopCalls \cup {"error"} : at' = [at EXCEPT ![r] = a]
    BY <1>1, <1>t, HandleMoves
  <2>2. /\ req' = req
        /\ at[r] \in StartCalls \cup StopCalls
        /\ at[r] \in StartCalls => at'[r] \in StartCalls \cup {"error"}
        /\ at[r] \in StopCalls => at'[r] \in StopCalls \cup {"error"}
    BY <1>1, <1>t, HandleMoves
  <2>3. at' \in [Requests -> Answers \cup StartCalls \cup StopCalls]
    BY <2>1, <1>t DEF Answers
  <2>4. at[r] # "none" /\ at'[r] # "none"
    BY <2>2 DEF StartCalls, StopCalls
  <2>5. StartCalls \cap StopCalls = {} /\ "error" \notin StartCalls \cup StopCalls
    BY DEF StartCalls, StopCalls
  <2>6. \A q \in Requests : q # r => at'[q] = at[q]
    BY <2>1, <1>t
  <2>. QED  BY <2>2, <2>3, <2>4, <2>5, <2>6, <1>t DEF CallsOfRequest
<1>2. ASSUME NEW r \in Requests, Receive(r)
      PROVE  /\ at' \in [Requests -> Answers \cup StartCalls \cup StopCalls]
             /\ req' \in [Requests -> Request]
             /\ CallsOfRequest'
  <2>1. PICK t \in Tokens :
              \/ /\ at' = [at EXCEPT ![r] = "del"]
                 /\ req' = [req EXCEPT ![r] = [op |-> "stop", token |-> t]]
              \/ \E c \in Configs :
                    /\ at' = [at EXCEPT ![r] = "set_active"]
                    /\ req' = [req EXCEPT ![r] = [op |-> "start", token |-> t, config |-> c]]
    BY <1>2, <1>t, ReceiveMoves
  <2>2. CASE /\ at' = [at EXCEPT ![r] = "del"]
             /\ req' = [req EXCEPT ![r] = [op |-> "stop", token |-> t]]
    <3>1. [op |-> "stop", token |-> t] \in StopRequest
      BY DEF StopRequest
    <3>2. [op |-> "stop", token |-> t] # NoRequest
      BY DEF NoRequest
    <3>3. "del" \in StopCalls \ StartCalls /\ "del" # "none"
      BY DEF StopCalls, StartCalls
    <3>. QED  BY <2>2, <3>1, <3>2, <3>3, <1>t DEF CallsOfRequest, Request, StopRequest
  <2>3. ASSUME NEW c \in Configs,
               at' = [at EXCEPT ![r] = "set_active"],
               req' = [req EXCEPT ![r] = [op |-> "start", token |-> t, config |-> c]]
        PROVE  /\ at' \in [Requests -> Answers \cup StartCalls \cup StopCalls]
               /\ req' \in [Requests -> Request]
               /\ CallsOfRequest'
    <3>1. [op |-> "start", token |-> t, config |-> c] \in StartRequest
      BY DEF StartRequest
    <3>2. [op |-> "start", token |-> t, config |-> c] # NoRequest
      BY DEF NoRequest
    <3>3. "set_active" \in StartCalls \ StopCalls /\ "set_active" # "none"
      BY DEF StopCalls, StartCalls
    <3>. QED  BY <2>3, <3>1, <3>2, <3>3, <1>t DEF CallsOfRequest, Request, StartRequest
  <2>. QED  BY <2>1, <2>2, <2>3
<1>3. CASE UNCHANGED <<at, req>>
  BY <1>3, <1>t DEF CallsOfRequest
<1>4. CASE Others
  BY <1>4, <1>3 DEF Others, Tick, Deliver, Consume, PutHeatmap, PutSnapshot, AddEntry,
                    AddResult, handlers
<1>. QED  BY <1>1, <1>2, <1>3, <1>4 DEF Next, vars, handlers

\* Touching a session marks its requests and no other; the marks are Booleans.
LEMMA TouchType ==
  ASSUME HandlersType, NEW t \in Tokens, Touch(t)
  PROVE  /\ touched' \in [Requests -> BOOLEAN]
         /\ \A r \in Requests : touched[r] => touched'[r]
         /\ \A r \in Requests : req[r] # NoRequest /\ req[r].token = t => touched'[r]
<1>1. touched' = [r \in Requests |->
                    touched[r] \/ (req[r] # NoRequest /\ req[r].token = t)]
  BY DEF Touch
<1>2. touched' \in [Requests -> BOOLEAN]
  BY <1>1, Zenon
<1>3. \A r \in Requests :
        touched'[r] = (touched[r] \/ (req[r] # NoRequest /\ req[r].token = t))
  BY <1>1, Zenon
<1>. QED  BY <1>2, <1>3, Zenon

\* What a request that comes in does to the marks `shared'.
LEMMA ShareType ==
  ASSUME HandlersType, NEW r \in Requests, NEW t \in Tokens, Share(r, t)
  PROVE  /\ shared' \in [Requests -> BOOLEAN]
         /\ \A q \in Requests : q # r /\ shared[q] => shared'[q]
         /\ \A q \in Requests :
              q # r /\ req[q] # NoRequest
                /\ (t \in Matches[req[q].token] \/ req[q].token \in Matches[t])
              => /\ shared'[q]
                 /\ at[q] \notin Answers => shared'[r]
<1> DEFINE Meets(q) == q # r /\ req[q] # NoRequest
                         /\ (t \in Matches[req[q].token] \/ req[q].token \in Matches[t])
<1>1. shared' = [q \in Requests |->
                   IF q = r THEN \E p \in Requests : Meets(p) /\ at[p] \notin Answers
                   ELSE shared[q] \/ Meets(q)]
  BY Zenon DEF Share
<1> HIDE DEF Meets
<1>t. shared \in [Requests -> BOOLEAN]
  BY DEF HandlersType
<1>2. shared' \in [Requests -> BOOLEAN]
  <2>1. ASSUME NEW q \in Requests
        PROVE  (IF q = r THEN \E p \in Requests : Meets(p) /\ at[p] \notin Answers
                ELSE shared[q] \/ Meets(q)) \in BOOLEAN
    <3>1. (shared[q] \/ Meets(q)) \in BOOLEAN
      OBVIOUS
    <3>. QED  BY <3>1
  <2>. QED  BY <1>1, <2>1, Zenon
<1>3. \A q \in Requests : q # r => shared'[q] = (shared[q] \/ Meets(q))
  BY <1>1, Zenon
<1>4. shared'[r] = (\E p \in Requests : Meets(p) /\ at[p] \notin Answers)
  BY <1>1, Zenon
<1>5. \A q \in Requests : Meets(q) => q # r
  BY DEF Meets
<1>6. \A q \in Requests : Meets(q) => shared'[q] /\ (at[q] \notin Answers => shared'[r])
  BY <1>3, <1>4, <1>5, Zenon
<1>7. \A q \in Requests : q # r /\ shared[q] => shared'[q]
  BY <1>3, Zenon
<1>. QED  BY <1>2, <1>6, <1>7, Zenon DEF Meets

\* The handlers' own variables keep their types.
LEMMA HandlersStep == ApiTypes /\ [Next]_vars => HandlersType'
<1> SUFFICES ASSUME ApiTypes, [Next]_vars PROVE HandlersType'
  OBVIOUS
<1>t. /\ stream \in [Requests -> {"input", "output"}]
      /\ touched \in [Requests -> BOOLEAN] /\ shared \in [Requests -> BOOLEAN]
      /\ found \in [Requests -> SUBSET (KeyKinds \X Tokens)]
      /\ ids \in [Requests -> SUBSET (1 .. MaxEntries)]
      /\ HandlersType /\ CallsOfRequest /\ StreamsType
  BY DEF ApiTypes, HandlersType
<1>1. /\ stream' \in [Requests -> {"input", "output"}]
      /\ ids' \in [Requests -> SUBSET (1 .. MaxEntries)]
  <2>1. ASSUME NEW r \in Requests, NextStream(r) \/ StreamFails(r)
        PROVE  /\ stream' \in [Requests -> {"input", "output"}]
               /\ ids' \in [Requests -> SUBSET (1 .. MaxEntries)]
    BY <2>1, <1>t DEF NextStream, StreamFails
  <2>2. ASSUME NEW r \in Requests, XRange(r)
        PROVE  /\ stream' \in [Requests -> {"input", "output"}]
               /\ ids' \in [Requests -> SUBSET (1 .. MaxEntries)]
    <3>1. Mine(r) \in SUBSET (1 .. MaxEntries)
      <4>1. /\ Len(entry) \in Nat /\ Len(entry) <= MaxEntries /\ MaxEntries \in Nat
            /\ Len(results) \in Nat /\ Len(results) <= MaxEntries
        BY <1>t, LenProperties, SessionConstants DEF StreamsType
      <4>2. 1 .. Len(entry) \subseteq 1 .. MaxEntries /\ 1 .. Len(results) \subseteq 1 .. MaxEntries
        BY <4>1
      <4>3. input \subseteq 1 .. Len(entry) /\ output \subseteq 1 .. Len(results)
        BY <1>t DEF StreamsType
      <4>. QED  BY <4>2, <4>3 DEF Mine
    <3>2. CASE NextStream(r) \/ StreamFails(r)
      BY <3>2, <2>1
    <3>3. CASE ids' = [ids EXCEPT ![r] = Mine(r)] /\ UNCHANGED stream
      BY <3>1, <3>3, <1>t
    <3>. QED  BY <2>2, <3>2, <3>3 DEF XRange
  <2>3. CASE UNCHANGED <<stream, ids>>
    BY <2>3, <1>t
  <2>4. ASSUME NEW r \in Requests, XDel(r)
        PROVE  StreamFails(r) \/ UNCHANGED <<stream, ids>>
    BY <2>4 DEF XDel
  <2>5. ASSUME NEW r \in Requests, XAck(r) PROVE NextStream(r)
    BY <2>5 DEF XAck
  <2>6. \A r \in Requests :
          SetActive(r) \/ SetConfig(r) \/ DelSession(r) \/ ScanSnapshots(r) \/ DelSnapshots(r)
            \/ ScanAll(r) \/ DelAll(r) \/ Receive(r) => UNCHANGED <<stream, ids>>
    BY DEF SetActive, SetConfig, DelSession, ScanSnapshots, DelSnapshots, ScanAll, DelAll,
           DelThen, ScanThen, Receive, ReceiveStart, ReceiveStop
  <2>7. Others => UNCHANGED <<stream, ids>>
    BY DEF Others, Tick, Deliver, Consume, PutHeatmap, PutSnapshot, AddEntry, AddResult,
           handlers
  <2>. QED  BY <2>1, <2>2, <2>3, <2>4, <2>5, <2>6, <2>7 DEF Next, Handle, vars, handlers
<1>2. found' \in [Requests -> SUBSET (KeyKinds \X Tokens)]
  <2>1. ASSUME NEW r \in Requests, NEW kinds \in SUBSET KeyKinds,
               NEW tokens \in SUBSET Tokens, NEW del, NEW next,
               ScanThen(r, kinds, tokens, del, next)
        PROVE  found' \in [Requests -> SUBSET (KeyKinds \X Tokens)]
    <3>1. {key \in kinds \X tokens : Exists(key[1], key[2])} \in SUBSET (KeyKinds \X Tokens)
      OBVIOUS
    <3>. QED  BY <2>1, <3>1, <1>t DEF ScanThen
  <2>2. ASSUME NEW r \in Requests, ScanSnapshots(r)
        PROVE  found' \in [Requests -> SUBSET (KeyKinds \X Tokens)]
    <3>1. {"snapshot"} \in SUBSET KeyKinds
      BY DEF KeyKinds
    <3>2. {req[r].token} \in SUBSET Tokens
      BY <2>2, <1>t DEF ScanSnapshots, CallsOfRequest, StopCalls, StopRequest
    <3>. QED  BY <2>1, <2>2, <3>1, <3>2 DEF ScanSnapshots
  <2>3. ASSUME NEW r \in Requests, ScanAll(r)
        PROVE  found' \in [Requests -> SUBSET (KeyKinds \X Tokens)]
    <3>1. req[r].token \in Tokens
      BY <2>3, <1>t DEF ScanAll, CallsOfRequest, StopCalls, StopRequest
    <3>2. Matches[req[r].token] \in SUBSET Tokens
      BY <3>1, SessionConstants
    <3>. QED  BY <2>1, <2>3, <3>2 DEF ScanAll
  <2>4. ASSUME NEW r \in Requests, DelSession(r) \/ DelSnapshots(r) \/ DelAll(r)
        PROVE  found' = [found EXCEPT ![r] = {}]
    BY <2>4 DEF DelSession, DelSnapshots, DelAll, DelThen
  <2>5. \A r \in Requests :
          SetActive(r) \/ SetConfig(r) \/ Receive(r) \/ XRange(r) \/ XDel(r) \/ XAck(r)
            => found' = found
    BY DEF SetActive, SetConfig, Receive, ReceiveStart, ReceiveStop, XRange, XDel, XAck
  <2>6. Others \/ UNCHANGED vars => found' = found
    BY DEF Others, Tick, Deliver, Consume, PutHeatmap, PutSnapshot, AddEntry, AddResult,
           vars, handlers
  <2>. QED  BY <1>t, <2>2, <2>3, <2>4, <2>5, <2>6 DEF Next, Handle
<1>3. touched' \in [Requests -> BOOLEAN]
  <2>1. ASSUME NEW t \in Tokens, Touch(t) PROVE touched' \in [Requests -> BOOLEAN]
    BY <2>1, <1>t, TouchType, Zenon
  <2>2. ASSUME NEW r \in Requests, SetActive(r) \/ SetConfig(r)
        PROVE  Touch(req[r].token) \/ touched' = touched
    BY <2>2 DEF SetActive, SetConfig, PutActive, PutConfig, Untouched
  <2>3. ASSUME NEW r \in Requests, SetActive(r) \/ SetConfig(r) PROVE req[r].token \in Tokens
    BY <2>3, <1>t DEF CallsOfRequest, SetActive, SetConfig, StartCalls, StartRequest
  <2>4. ASSUME NEW r \in Requests, Receive(r) PROVE touched' \in [Requests -> BOOLEAN]
    <3>1. touched' = [touched EXCEPT ![r] = FALSE]
      BY <2>4, <1>t, ReceiveMoves
    <3>. QED  BY <3>1, <1>t
  <2>5. \A r \in Requests :
          DelSession(r) \/ ScanSnapshots(r) \/ DelSnapshots(r) \/ ScanAll(r) \/ DelAll(r)
            \/ XRange(r) \/ XDel(r) \/ XAck(r) => touched' = touched
    BY DEF DelSession, ScanSnapshots, DelSnapshots, ScanAll, DelAll, DelThen, ScanThen,
           XRange, XDel, XAck
  <2>6. Others => touched' = touched \/ \E t \in Tokens : Touch(t)
    BY DEF Others, Tick, Deliver, Consume, PutHeatmap, PutSnapshot, AddEntry, AddResult,
           handlers
  <2>7. UNCHANGED vars => touched' = touched
    BY DEF vars, handlers
  <2>. QED  BY <1>t, <2>1, <2>2, <2>3, <2>4, <2>5, <2>6, <2>7 DEF Next, Handle
<1>4. shared' \in [Requests -> BOOLEAN]
  <2>1. ASSUME NEW r \in Requests, Receive(r) PROVE shared' \in [Requests -> BOOLEAN]
    <3>1. PICK t \in Tokens : Share(r, t)
      BY <2>1, <1>t, ReceiveMoves
    <3>. QED  BY <3>1, <1>t, ShareType, Zenon
  <2>2. \A r \in Requests : Handle(r) => shared' = shared
    BY <1>t, HandleMoves
  <2>3. Others \/ UNCHANGED vars => shared' = shared
    BY DEF Others, Tick, Deliver, Consume, PutHeatmap, PutSnapshot, AddEntry, AddResult,
           vars, handlers
  <2>. QED  BY <1>t, <2>1, <2>2, <2>3 DEF Next
<1>. QED  BY <1>1, <1>2, <1>3, <1>4, CallsStep DEF HandlersType

\* The three parts are TypeOK.
LEMMA TypesAreTypeOK == ApiTypes => TypeOK
<1>1. Answers \cup StartCalls \cup StopCalls = Answers \cup
         {"set_active", "set_config", "del", "scan_snapshots", "del_snapshots",
          "scan_all", "del_all", "xrange", "xdel", "xack"}
  BY DEF Answers, StartCalls, StopCalls
<1>. QED  BY <1>1 DEF ApiTypes, KeysType, StreamsType, HandlersType, TypeOK

\* No step breaks a part of the types.
LEMMA TypesStep == ApiTypes /\ [Next]_vars => ApiTypes'
  BY KeysStep, StreamsStep, HandlersStep, CallsStep DEF ApiTypes

\* They hold when the BFF starts on an empty store.
LEMMA TypesAtStart == Init => ApiTypes
<1> SUFFICES ASSUME Init PROVE ApiTypes
  OBVIOUS
<1>1. KeysType
  BY SessionConstants DEF Init, KeysType
<1>2. StreamsType
  <2>1. <<>> \in Seq([token : Tokens]) /\ Len(<<>>) = 0
    BY EmptySeq
  <2>. QED  BY <2>1, SessionConstants DEF Init, StreamsType
<1>3. HandlersType
  BY DEF Init, HandlersType, Answers, Request
<1>4. CallsOfRequest
  BY DEF Init, CallsOfRequest, StartCalls, StopCalls
<1>. QED  BY <1>1, <1>2, <1>3, <1>4 DEF ApiTypes

\* TypeOK of SessionApi: in particular active: and prediction-config: are there for
\* exactly as long as they have time to live.
THEOREM ApiTypeCorrect == Spec => []TypeOK
<1>1. Spec => []ApiTypes
  BY TypesAtStart, TypesStep, PTL DEF Spec
<1>. QED  BY <1>1, TypesAreTypeOK, PTL

-----------------------------------------------------------------------------
(***************************************************************************)
(* An active session is configured.  Nobody else is at work on a session   *)
(* that is not shared; SET prediction-config: comes after SET active:, so  *)
(* the config never expires before the active key.                         *)
(***************************************************************************)

Near(r, q) == req[q].token \in Matches[req[r].token] \/ req[r].token \in Matches[req[q].token]

\* No request that runs reaches the session of one that shares it with nobody.
Alone ==
    \A r \in Requests : req[r] # NoRequest /\ ~shared[r] =>
        \A q \in Requests : q # r /\ at[q] \notin Answers => ~Near(r, q)

\* A handler deletes what it found, and it looks for keys with its token.
FindsOwnKeys ==
    \A r \in Requests : at[r] \in {"del_snapshots", "del_all"} =>
        found[r] \subseteq KeyKinds \X Matches[req[r].token]

ConfiguredInTime ==
    \A r \in Requests : ~shared[r] =>
        LET t == req[r].token
        IN  /\ at[r] = "set_config" => active[t] \in {NoConfig, req[r].config}
            /\ at[r] = "started" => /\ active[t] = NoConfig \/ config[t] = active[t]
                                    /\ left[t].active <= left[t].config

ConfiguredInv == ApiTypes /\ Alone /\ FindsOwnKeys /\ ConfiguredInTime

\* A request that runs has a body.
LEMMA RunningHasRequest ==
  ApiTypes => /\ \A r \in Requests : at[r] # "none" => req[r] # NoRequest /\ req[r].token \in Tokens
              /\ \A r \in Requests : at[r] \notin Answers => req[r] # NoRequest
              /\ \A t \in Tokens : t \in Matches[t] /\ Matches[t] \subseteq Tokens
<1> SUFFICES ASSUME ApiTypes
             PROVE  /\ \A r \in Requests :
                         at[r] # "none" => req[r] # NoRequest /\ req[r].token \in Tokens
                    /\ \A r \in Requests : at[r] \notin Answers => req[r] # NoRequest
                    /\ \A t \in Tokens : t \in Matches[t] /\ Matches[t] \subseteq Tokens
  OBVIOUS
<1>1. \A r \in Requests : at[r] # "none" => req[r] # NoRequest
  BY DEF ApiTypes, CallsOfRequest
<1>2. \A r \in Requests : req[r] # NoRequest => req[r].token \in Tokens
  BY DEF ApiTypes, HandlersType, Request
<1>3. "none" \in Answers
  BY DEF Answers
<1>. QED  BY <1>1, <1>2, <1>3, SessionConstants

\* A request that comes near another one marks both, or itself while that one runs.
LEMMA AloneStep == ApiTypes /\ Alone /\ [Next]_vars => Alone'
<1> SUFFICES ASSUME ApiTypes, Alone, [Next]_vars PROVE Alone'
  OBVIOUS
<1>t. /\ at \in [Requests -> Answers \cup StartCalls \cup StopCalls]
      /\ req \in [Requests -> Request] /\ HandlersType
  BY DEF ApiTypes, HandlersType
<1>1. ASSUME NEW r \in Requests, Handle(r) PROVE Alone'
  <2>1. UNCHANGED <<req, shared>>
    BY <1>1, <1>t, HandleMoves
  <2>2. \A q \in Requests : at'[q] \notin Answers => at[q] \notin Answers
    <3>1. \E a \in StartCalls \cup StopCalls \cup {"error"} : at' = [at EXCEPT ![r] = a]
      BY <1>1, <1>t, HandleMoves
    <3>2. at[r] \notin Answers
      BY <1>1 DEF Handle, SetActive, SetConfig, DelSession, ScanSnapshots, DelSnapshots,
                  ScanAll, DelAll, XRange, XDel, XAck, Answers
    <3>. QED  BY <3>1, <3>2, <1>t
  <2>. QED  BY <2>1, <2>2 DEF Alone, Near
<1>2. ASSUME NEW r \in Requests, Receive(r) PROVE Alone'
  <2>1. PICK t \in Tokens :
              /\ Share(r, t)
              /\ \/ /\ at' = [at EXCEPT ![r] = "del"]
                    /\ req' = [req EXCEPT ![r] = [op |-> "stop", token |-> t]]
                 \/ \E c \in Configs :
                       /\ at' = [at EXCEPT ![r] = "set_active"]
                       /\ req' = [req EXCEPT ![r] = [op |-> "start", token |-> t, config |-> c]]
    BY <1>2, <1>t, ReceiveMoves
  <2>2. /\ req'[r].token = t
        /\ \A q \in Requests : q # r => req'[q] = req[q] /\ at'[q] = at[q]
    BY <2>1, <1>t
  <2>3. /\ \A q \in Requests : q # r /\ shared[q] => shared'[q]
        /\ \A q \in Requests :
              q # r /\ req[q] # NoRequest
                /\ (t \in Matches[req[q].token] \/ req[q].token \in Matches[t])
              => /\ shared'[q]
                 /\ at[q] \notin Answers => shared'[r]
    BY <2>1, <1>t, ShareType, Zenon
  <2>4. ASSUME NEW q \in Requests, NEW p \in Requests, req'[q] # NoRequest, ~shared'[q],
               p # q, at'[p] \notin Answers
        PROVE  ~Near(q, p)'
    <3>1. CASE q = r
      <4>1. req'[p] = req[p] /\ at[p] \notin Answers /\ req[p] # NoRequest
        BY <2>2, <2>4, <3>1, RunningHasRequest
      <4>. QED  BY <2>2, <2>3, <2>4, <3>1, <4>1 DEF Near
    <3>2. CASE p = r
      BY <2>2, <2>3, <2>4, <3>2 DEF Near
    <3>3. CASE q # r /\ p # r
      <4>1. req'[p] = req[p] /\ req'[q] = req[q] /\ at'[p] = at[p]
        BY <2>2, <3>3
      <4>2. ~shared[q]
        BY <2>3, <2>4, <3>3
      <4>. QED  BY <4>1, <4>2, <2>4 DEF Near, Alone
    <3>. QED  BY <3>1, <3>2, <3>3
  <2>. QED  BY <2>4 DEF Alone
<1>3. CASE UNCHANGED <<at, req, shared>>
  BY <1>3 DEF Alone, Near
<1>4. Others \/ UNCHANGED vars => UNCHANGED <<at, req, shared>>
  BY DEF Others, Tick, Deliver, Consume, PutHeatmap, PutSnapshot, AddEntry, AddResult,
         vars, handlers
<1>. QED  BY <1>1, <1>2, <1>3, <1>4 DEF Next

\* What a SCAN returns has the handler's token in its name.
LEMMA FindsOwnKeysStep == ApiTypes /\ FindsOwnKeys /\ [Next]_vars => FindsOwnKeys'
<1> SUFFICES ASSUME ApiTypes, FindsOwnKeys, [Next]_vars PROVE FindsOwnKeys'
  OBVIOUS
<1>t. /\ at \in [Requests -> Answers \cup StartCalls \cup StopCalls]
      /\ req \in [Requests -> Request] /\ HandlersType
      /\ found \in [Requests -> SUBSET (KeyKinds \X Tokens)]
  BY DEF ApiTypes, HandlersType
<1>1. ASSUME NEW r \in Requests, ScanSnapshots(r) \/ ScanAll(r) PROVE FindsOwnKeys'
  <2>1. req[r].token \in Tokens
    BY <1>1, RunningHasRequest DEF ScanSnapshots, ScanAll
  <2>2. req[r].token \in Matches[req[r].token]
    BY <2>1, RunningHasRequest
  <2>3. \/ at'[r] = "error"
        \/ found'[r] \subseteq KeyKinds \X Matches[req[r].token]
    BY <1>1, <1>t, <2>2 DEF ScanSnapshots, ScanAll, ScanThen, Fails, Goto, KeyKinds
  <2>4. \A q \in Requests : q # r => at'[q] = at[q] /\ found'[q] = found[q]
    BY <1>1, <1>t DEF ScanSnapshots, ScanAll, ScanThen, Fails, Goto
  <2>5. req' = req
    BY <1>1 DEF ScanSnapshots, ScanAll, ScanThen
  <2>. QED  BY <2>3, <2>4, <2>5 DEF FindsOwnKeys
<1>2. ASSUME NEW r \in Requests,
             \A q \in Requests : q # r => UNCHANGED <<at[q], req[q], found[q]>>,
             at'[r] \notin {"del_snapshots", "del_all"}
      PROVE  FindsOwnKeys'
  BY <1>2 DEF FindsOwnKeys
<1>3. ASSUME NEW r \in Requests, SetActive(r) \/ SetConfig(r) PROVE FindsOwnKeys'
  <2>1. /\ UNCHANGED <<req, found>>
        /\ \E a \in {"set_config", "started", "error"} : at' = [at EXCEPT ![r] = a]
    BY <1>3 DEF SetActive, SetConfig, Goto, Fails
  <2>. QED  BY <2>1, <1>2, <1>t
<1>4. ASSUME NEW r \in Requests, DelSession(r) \/ DelSnapshots(r) \/ DelAll(r)
      PROVE  FindsOwnKeys'
  <2>1. /\ req' = req /\ found' = [found EXCEPT ![r] = {}]
        /\ \E a \in {"scan_snapshots", "scan_all", "xrange", "error"} :
              at' = [at EXCEPT ![r] = a]
    BY <1>4 DEF DelSession, DelSnapshots, DelAll, DelThen, Goto, Fails
  <2>. QED  BY <2>1, <1>2, <1>t
<1>5. ASSUME NEW r \in Requests, XRange(r) \/ XDel(r) \/ XAck(r) PROVE FindsOwnKeys'
  <2>1. /\ UNCHANGED <<req, found>>
        /\ \E a \in {"xrange", "xdel", "xack", "stopped", "error"} :
              at' = [at EXCEPT ![r] = a]
    BY <1>5 DEF XRange, XDel, XAck, NextStream, StreamFails, Goto, Fails
  <2>. QED  BY <2>1, <1>2, <1>t
<1>6. ASSUME NEW r \in Requests, Receive(r) PROVE FindsOwnKeys'
  <2>1. /\ found' = found
        /\ \E a \in {"del", "set_active"} : at' = [at EXCEPT ![r] = a]
        /\ \E b : req' = [req EXCEPT ![r] = b]
    BY <1>6, <1>t DEF Receive, ReceiveStart, ReceiveStop, Goto
  <2>. QED  BY <2>1, <1>2, <1>t
<1>7. CASE UNCHANGED <<at, req, found>>
  BY <1>7 DEF FindsOwnKeys
<1>8. Others \/ UNCHANGED vars => UNCHANGED <<at, req, found>>
  BY DEF Others, Tick, Deliver, Consume, PutHeatmap, PutSnapshot, AddEntry, AddResult,
         vars, handlers
<1>. QED  BY <1>1, <1>3, <1>4, <1>5, <1>6, <1>7, <1>8 DEF Next, Handle

\* A request leaves the keys of a session alone that it does not come near.
LEMMA OthersKeys ==
  ASSUME ApiTypes, FindsOwnKeys, NEW r \in Requests, NEW q \in Requests,
         req[r] # NoRequest, ~Near(r, q), Handle(q)
  PROVE  LET t == req[r].token
         IN  active'[t] = active[t] /\ config'[t] = config[t] /\ left'[t] = left[t]
<1> DEFINE t == req[r].token
<1>t. /\ active \in [Tokens -> Configs \cup {NoConfig}]
      /\ config \in [Tokens -> Configs \cup {NoConfig}]
      /\ left \in [Tokens -> [active : 0 .. TTL, config : 0 .. TTL]]
      /\ req \in [Requests -> Request]
  BY DEF ApiTypes, KeysType, HandlersType
<1>r. t \in Tokens
  BY <1>t DEF Request
<1>q. at[q] # "none"
  BY DEF Handle, SetActive, SetConfig, DelSession, ScanSnapshots, DelSnapshots, ScanAll,
         DelAll, XRange, XDel, XAck
<1>n. req[q].token \in Tokens /\ t \notin Matches[req[q].token] /\ req[q].token # t
  BY <1>q, <1>r, RunningHasRequest DEF Near
<1>1. CASE SetActive(q) \/ SetConfig(q)
  <2>1. \/ PutActive(req[q].token, req[q].config) \/ PutConfig(req[q].token, req[q].config)
        \/ Untouched
    BY <1>1 DEF SetActive, SetConfig
  <2>. QED  BY <2>1, <1>n, <1>r, <1>t DEF PutActive, PutConfig, Untouched
<1>2. ASSUME NEW gone, \A k \in KeyKinds : <<k, t>> \notin gone, Del(gone)
      PROVE  active'[t] = active[t] /\ config'[t] = config[t] /\ left'[t] = left[t]
  <2>1. <<"active", t>> \notin gone /\ <<"config", t>> \notin gone
    BY <1>2 DEF KeyKinds
  <2>. QED  BY <1>2, <2>1, <1>r, <1>t DEF Del
<1>3. CASE UNCHANGED keys
  BY <1>3 DEF keys
<1>4. CASE DelSession(q)
  <2>1. \/ Del({"active", "config", "heat"} \X {req[q].token}) \/ UNCHANGED keys
    BY <1>4 DEF DelSession, DelThen
  <2>2. \A k \in KeyKinds : <<k, t>> \notin {"active", "config", "heat"} \X {req[q].token}
    BY <1>n
  <2>. QED  BY <2>1, <2>2, <1>2, <1>3
<1>5. CASE DelSnapshots(q) \/ DelAll(q)
  <2>1. Del(found[q]) \/ UNCHANGED keys
    BY <1>5 DEF DelSnapshots, DelAll, DelThen
  <2>2. found[q] \subseteq KeyKinds \X Matches[req[q].token]
    BY <1>5 DEF DelSnapshots, DelAll, FindsOwnKeys
  <2>3. \A k \in KeyKinds : <<k, t>> \notin found[q]
    BY <2>2, <1>n
  <2>. QED  BY <2>1, <2>3, <1>2, <1>3
<1>6. ScanSnapshots(q) \/ ScanAll(q) \/ XRange(q) \/ XDel(q) \/ XAck(q) => UNCHANGED keys
  BY DEF ScanSnapshots, ScanAll, ScanThen, XRange, XDel, XAck
<1>. QED  BY <1>1, <1>3, <1>4, <1>5, <1>6 DEF Handle

\* The two SETs of a start, and what time takes from them.
LEMMA ConfiguredStep == ConfiguredInv /\ [Next]_vars => ConfiguredInTime'
<1> SUFFICES ASSUME ApiTypes, Alone, FindsOwnKeys, ConfiguredInTime, [Next]_vars,
                    NEW r \in Requests, ~shared'[r]
             PROVE  LET t == req'[r].token
                    IN  /\ at'[r] = "set_config" => active'[t] \in {NoConfig, req'[r].config}
                        /\ at'[r] = "started" => /\ active'[t] = NoConfig \/ config'[t] = active'[t]
                                                 /\ left'[t].active <= left'[t].config
  BY DEF ConfiguredInv, ConfiguredInTime
<1> DEFINE t == req[r].token
           Then == /\ at'[r] = "set_config" => active'[t] \in {NoConfig, req[r].config}
                   /\ at'[r] = "started" => /\ active'[t] = NoConfig \/ config'[t] = active'[t]
                                            /\ left'[t].active <= left'[t].config
<1>t. /\ active \in [Tokens -> Configs \cup {NoConfig}]
      /\ config \in [Tokens -> Configs \cup {NoConfig}]
      /\ left \in [Tokens -> [active : 0 .. TTL, config : 0 .. TTL]]
      /\ req \in [Requests -> Request] /\ HandlersType
      /\ at \in [Requests -> Answers \cup StartCalls \cup StopCalls]
  BY DEF ApiTypes, KeysType, HandlersType
<1>k. TTL \in Nat \ {0} /\ NoConfig \notin Configs
  BY SessionConstants
<1>w. ~shared[r] => /\ at[r] = "set_config" => active[t] \in {NoConfig, req[r].config}
                    /\ at[r] = "started" => /\ active[t] = NoConfig \/ config[t] = active[t]
                                            /\ left[t].active <= left[t].config
  BY DEF ConfiguredInTime
<1>o. at[r] \in {"set_active", "set_config", "started"} => t \in Tokens /\ req[r] # NoRequest
  BY RunningHasRequest
\* Its own steps.
<1>1. CASE SetActive(r)
  <2>1. /\ req' = req
        /\ \/ PutActive(t, req[r].config) /\ at' = [at EXCEPT ![r] = "set_config"]
           \/ at' = [at EXCEPT ![r] = "error"]
    BY <1>1 DEF SetActive, Goto, Fails
  <2>2. t \in Tokens
    BY <1>1, <1>o DEF SetActive
  <2>. QED  BY <2>1, <2>2, <1>t DEF PutActive
<1>2. CASE SetConfig(r)
  <2>1. /\ req' = req /\ shared' = shared /\ at[r] = "set_config"
        /\ \/ PutConfig(t, req[r].config) /\ at' = [at EXCEPT ![r] = "started"]
           \/ at' = [at EXCEPT ![r] = "error"]
    BY <1>2 DEF SetConfig, Goto, Fails
  <2>2. t \in Tokens
    BY <2>1, <1>o
  <2>3. active[t] \in {NoConfig, req[r].config}
    BY <2>1, <1>w
  <2>4. CASE PutConfig(t, req[r].config) /\ at' = [at EXCEPT ![r] = "started"]
    <3>1. active'[t] = active[t] /\ config'[t] = req[r].config
      BY <2>2, <2>4, <1>t DEF PutConfig
    <3>2. left'[t].active = left[t].active /\ left'[t].config = TTL
      BY <2>2, <2>4, <1>t DEF PutConfig
    <3>3. left[t].active <= TTL
      BY <2>2, <1>t, <1>k
    <3>. QED  BY <2>1, <2>3, <2>4, <3>1, <3>2, <3>3, <1>t
  <2>. QED  BY <2>1, <2>4, <1>t
<1>3. CASE /\ ~SetActive(r) /\ ~SetConfig(r) /\ Handle(r)
  <2>1. at[r] \in StopCalls /\ req' = req
    BY <1>3, <1>t, HandleMoves DEF Handle, DelSession, ScanSnapshots, DelSnapshots, ScanAll,
       DelAll, XRange, XDel, XAck, StopCalls
  <2>2. at'[r] \in StopCalls \cup {"error"}
    BY <1>3, <2>1, <1>t, HandleMoves
  <2>. QED  BY <2>1, <2>2 DEF StopCalls
<1>4. CASE Receive(r)
  <2>1. at'[r] \in {"del", "set_active"}
    BY <1>4, <1>t DEF Receive, ReceiveStart, ReceiveStop, Goto
  <2>. QED  BY <2>1
\* The steps of others.
<1>5. ASSUME UNCHANGED <<active, config, left>>, at'[r] = at[r], req'[r] = req[r], ~shared[r]
      PROVE  Then
  BY <1>5, <1>w
<1>6. ASSUME NEW q \in Requests, q # r, Handle(q) PROVE Then /\ req' = req
  <2>1. req' = req /\ shared' = shared
    BY <1>6, <1>t, HandleMoves
  <2>2. at'[r] = at[r]
    BY <1>6, <1>t, HandleMoves
  <2>3. CASE at[r] \in {"set_config", "started"}
    <3>1. at[q] \notin Answers
      BY <1>6 DEF Handle, SetActive, SetConfig, DelSession, ScanSnapshots, DelSnapshots,
                  ScanAll, DelAll, XRange, XDel, XAck, Answers
    <3>2. req[r] # NoRequest /\ ~Near(r, q)
      BY <2>1, <2>3, <3>1, <1>o, <1>6 DEF Alone
    <3>3. active'[t] = active[t] /\ config'[t] = config[t] /\ left'[t] = left[t]
      BY <1>6, <3>2, OthersKeys
    <3>. QED  BY <2>1, <2>2, <3>3, <1>w
  <2>. QED  BY <2>1, <2>2, <2>3
<1>7. ASSUME NEW q \in Requests, q # r, Receive(q) PROVE Then /\ req'[r] = req[r]
  <2>1. UNCHANGED <<active, config, left>> /\ at'[r] = at[r] /\ req'[r] = req[r]
    BY <1>7, <1>t DEF Receive, ReceiveStart, ReceiveStop, Goto, keys
  <2>2. PICK u \in Tokens : Share(q, u)
    BY <1>7, <1>t, ReceiveMoves
  <2>3. ~shared[r]
    BY <1>7, <2>2, <1>t, ShareType, Zenon
  <2>. QED  BY <2>1, <2>3, <1>5
<1>8. CASE Tick
  <2>1. UNCHANGED <<at, req, shared>>
    BY <1>8 DEF Tick, handlers
  <2>2. CASE at[r] \in {"set_config", "started"}
    <3>1. t \in Tokens
      BY <2>2, <1>o
    <3>2. left[t].active \in Nat /\ left[t].config \in Nat
      BY <3>1, <1>t, <1>k
    <3>3. /\ left'[t].active = IF left[t].active = 0 THEN 0 ELSE left[t].active - 1
          /\ left'[t].config = IF left[t].config = 0 THEN 0 ELSE left[t].config - 1
          /\ active'[t] = IF left'[t].active = 0 THEN NoConfig ELSE active[t]
          /\ config'[t] = IF left'[t].config = 0 THEN NoConfig ELSE config[t]
      BY <1>8, <3>1 DEF Tick
    <3>4. left[t].active <= left[t].config =>
            /\ left'[t].active <= left'[t].config
            /\ left'[t].config = 0 => left'[t].active = 0
      BY <3>2, <3>3
    <3>. QED  BY <2>1, <2>2, <3>3, <3>4, <1>w
  <2>. QED  BY <2>1, <2>2
<1>9. ASSUME UNCHANGED <<active, config, left, at, req, shared>> PROVE Then /\ req' = req
  BY <1>9, <1>5
<1>10. (~Tick /\ Others) \/ UNCHANGED vars => UNCHANGED <<active, config, left, at, req, shared>>
  BY DEF Others, Deliver, Consume, PutHeatmap, PutSnapshot, AddEntry, AddResult,
         vars, keys, handlers
<1>. QED  BY <1>1, <1>2, <1>3, <1>4, <1>6, <1>7, <1>8, <1>9, <1>10 DEF Next, Handle

\* ConfiguredWhileActive: whatever the other sessions' requests do and whenever keys
\* expire, a session that a single client starts is never active without its config.
THEOREM ApiConfiguredWhileActive == Spec => []ConfiguredWhileActive
<1>1. Init => ConfiguredInv
  BY TypesAtStart DEF Init, ConfiguredInv, Alone, FindsOwnKeys, ConfiguredInTime
<1>2. ConfiguredInv /\ [Next]_vars => ConfiguredInv'
  BY TypesStep, AloneStep, FindsOwnKeysStep, ConfiguredStep DEF ConfiguredInv
<1>3. ConfiguredInv => ConfiguredWhileActive
  BY DEF ConfiguredInv, ConfiguredInTime, ConfiguredWhileActive
<1>. QED  BY <1>1, <1>2, <1>3, PTL DEF Spec

-----------------------------------------------------------------------------
(***************************************************************************)
(* What a stop erases.  Once a call has taken its part of a session away,  *)
(* that part stays empty unless somebody writes to the session.            *)
(***************************************************************************)

NoKeys(t) == \A k \in KeyKinds : ~Exists(k, t)
InputOf(t) == {i \in input : entry[i].token = t}
OutputOf(t) == {k \in output : results[k].token = t}

\* How far the stop r has come with the session t.
Erasing(r, t) ==
    /\ at[r] = "del_all" => \A k \in KeyKinds : Exists(k, t) => <<k, t>> \in found[r]
    /\ at[r] \in {"xrange", "xdel", "xack", "stopped"} => NoKeys(t)
    /\ at[r] = "xdel" /\ stream[r] = "input" => InputOf(t) \subseteq ids[r]
    /\ at[r] = "xack" /\ stream[r] = "input" => InputOf(t) = {}
    /\ at[r] \in {"xrange", "xdel", "xack"} /\ stream[r] = "output" => InputOf(t) = {}
    /\ at[r] = "xdel" /\ stream[r] = "output" => OutputOf(t) \subseteq ids[r]
    /\ at[r] = "xack" /\ stream[r] = "output" => OutputOf(t) = {}
    /\ at[r] = "stopped" => InputOf(t) = {} /\ OutputOf(t) = {}

\* A stop begins with inference:input.
InputFirst == \A r \in Requests : at[r] \notin {"xrange", "xdel", "xack"} => stream[r] = "input"

ErasedSoFar ==
    \A r \in Requests : at[r] \in StopCalls /\ ~touched[r] => Erasing(r, req[r].token)

EraseInv == ApiTypes /\ InputFirst /\ ErasedSoFar

\* A handler leaves the loop over the streams with the first stream set again.
LEMMA InputFirstStep == ApiTypes /\ InputFirst /\ [Next]_vars => InputFirst'
<1> SUFFICES ASSUME ApiTypes, InputFirst, [Next]_vars PROVE InputFirst'
  OBVIOUS
<1>t. /\ at \in [Requests -> Answers \cup StartCalls \cup StopCalls]
      /\ stream \in [Requests -> {"input", "output"}]
  BY DEF ApiTypes, HandlersType
<1>1. ASSUME NEW r \in Requests, XRange(r) \/ XDel(r) \/ XAck(r) PROVE InputFirst'
  <2>1. /\ \/ NextStream(r) \/ StreamFails(r)
           \/ /\ UNCHANGED stream
              /\ \E a \in {"xdel", "xack"} : at' = [at EXCEPT ![r] = a]
    BY <1>1 DEF XRange, XDel, XAck, Goto
  <2>2. at'[r] \notin {"xrange", "xdel", "xack"} => stream'[r] = "input"
    BY <2>1, <1>t DEF NextStream, StreamFails, Goto, Fails
  <2>3. \A q \in Requests : q # r => at'[q] = at[q] /\ stream'[q] = stream[q]
    BY <2>1, <1>t DEF NextStream, StreamFails, Goto, Fails
  <2>. QED  BY <2>2, <2>3 DEF InputFirst
<1>2. ASSUME NEW r \in Requests, UNCHANGED stream, at[r] \notin {"xrange", "xdel", "xack"},
             \A q \in Requests : q # r => at'[q] = at[q]
      PROVE  InputFirst'
  BY <1>2 DEF InputFirst
<1>3. ASSUME NEW r \in Requests,
             SetActive(r) \/ SetConfig(r) \/ DelSession(r) \/ ScanSnapshots(r)
               \/ DelSnapshots(r) \/ ScanAll(r) \/ DelAll(r) \/ Receive(r)
      PROVE  InputFirst'
  <2>1. UNCHANGED stream /\ at[r] \notin {"xrange", "xdel", "xack"}
    BY <1>3 DEF SetActive, SetConfig, DelSession, ScanSnapshots, DelSnapshots, ScanAll,
                DelAll, DelThen, ScanThen, Receive, ReceiveStart, ReceiveStop, Answers
  <2>2. \E a : at' = [at EXCEPT ![r] = a]
    BY <1>3 DEF SetActive, SetConfig, DelSession, ScanSnapshots, DelSnapshots, ScanAll,
                DelAll, DelThen, ScanThen, Receive, ReceiveStart, ReceiveStop, Goto, Fails
  <2>. QED  BY <2>1, <2>2, <1>2, <1>t
<1>4. CASE UNCHANGED <<at, stream>>
  BY <1>4 DEF InputFirst
<1>5. Others \/ UNCHANGED vars => UNCHANGED <<at, stream>>
  BY DEF Others, Tick, Deliver, Consume, PutHeatmap, PutSnapshot, AddEntry, AddResult,
         vars, handlers
<1>. QED  BY <1>1, <1>3, <1>4, <1>5 DEF Next, Handle

\* A session whose request r is not marked has got nothing new in a step.
LEMMA NothingNew ==
  ASSUME ApiTypes, [Next]_vars, NEW r \in Requests, NEW t \in Tokens, ~Receive(r),
         req[r] # NoRequest, req[r].token = t, ~touched'[r]
  PROVE  /\ \A k \in KeyKinds : Exists(k, t)' => Exists(k, t)
         /\ InputOf(t)' \subseteq InputOf(t)
         /\ OutputOf(t)' \subseteq OutputOf(t)
<1>t. /\ active \in [Tokens -> Configs \cup {NoConfig}]
      /\ config \in [Tokens -> Configs \cup {NoConfig}]
      /\ heat \in [Tokens -> Frames \cup {NoFrame}]
      /\ snapshot \in [Tokens -> Snapshots \cup {NoSnapshot}]
      /\ req \in [Requests -> Request] /\ HandlersType
      /\ entry \in Seq([token : Tokens]) /\ results \in Seq([token : Tokens])
      /\ input \subseteq 1 .. Len(entry) /\ output \subseteq 1 .. Len(results)
      /\ Len(entry) \in Nat /\ Len(results) \in Nat
  BY LenProperties DEF ApiTypes, KeysType, StreamsType, HandlersType
<1>m. ASSUME NEW u \in Tokens, Touch(u) PROVE u # t
  BY <1>m, <1>t, TouchType, Zenon
<1> DEFINE Fewer == /\ active'[t] \in {active[t], NoConfig} /\ config'[t] \in {config[t], NoConfig}
                    /\ heat'[t] \in {heat[t], NoFrame}
                    /\ snapshot'[t] \in {snapshot[t], NoSnapshot}
           Shorter == /\ InputOf(t)' \subseteq InputOf(t)
                      /\ OutputOf(t)' \subseteq OutputOf(t)
<1>k. Fewer => \A k \in KeyKinds : Exists(k, t)' => Exists(k, t)
  BY DEF KeyKinds, Exists
<1>s. /\ UNCHANGED <<entry, results>> /\ input' \subseteq input /\ output' \subseteq output
        => Shorter
  BY DEF InputOf, OutputOf
<1>1. ASSUME NEW q \in Requests, Handle(q) PROVE Fewer /\ Shorter
  <2>1. /\ UNCHANGED <<entry, results>> /\ input' \subseteq input /\ output' \subseteq output
    BY <1>1 DEF Handle, SetActive, SetConfig, DelSession, ScanSnapshots, DelSnapshots,
                ScanAll, DelAll, DelThen, ScanThen, XRange, XDel, XAck, streams
  <2>2. CASE SetActive(q) \/ SetConfig(q)
    <3>1. req[q].token \in Tokens
      BY <2>2, RunningHasRequest DEF SetActive, SetConfig
    <3>2. \/ PutActive(req[q].token, req[q].config) \/ PutConfig(req[q].token, req[q].config)
          \/ Untouched
      BY <2>2 DEF SetActive, SetConfig
    <3>3. ~Untouched => req[q].token # t
      BY <3>1, <3>2, <1>m DEF PutActive, PutConfig
    <3>4. UNCHANGED <<heat, snapshot>>
      BY <2>2 DEF SetActive, SetConfig
    <3>. QED  BY <3>1, <3>2, <3>3, <3>4, <2>1, <1>s, <1>t DEF PutActive, PutConfig, Untouched
  <2>3. ASSUME NEW gone, Del(gone) PROVE Fewer
    BY <2>3, <1>t DEF Del
  <2>4. UNCHANGED keys => Fewer
    BY DEF keys
  <2>5. CASE ~(SetActive(q) \/ SetConfig(q))
    <3>1. UNCHANGED keys \/ \E gone : Del(gone)
      BY <1>1, <2>5 DEF Handle, DelSession, ScanSnapshots, DelSnapshots,
                ScanAll, DelAll, DelThen, ScanThen, XRange, XDel, XAck
    <3>. QED  BY <3>1, <2>1, <2>3, <2>4, <1>s
  <2>. QED  BY <2>2, <2>5
<1>2. ASSUME NEW q \in Requests, Receive(q) PROVE Fewer /\ Shorter
  <2>1. UNCHANGED <<keys, streams>>
    BY <1>2, <1>t, ReceiveMoves
  <2>. QED  BY <2>1, <1>s DEF keys, streams
<1>3. ASSUME Tick PROVE Fewer /\ Shorter
  <2>1. /\ active'[t] = IF left'[t].active = 0 THEN NoConfig ELSE active[t]
        /\ config'[t] = IF left'[t].config = 0 THEN NoConfig ELSE config[t]
        /\ UNCHANGED <<heat, snapshot, streams>>
    BY <1>3 DEF Tick
  <2>. QED  BY <2>1, <1>s DEF streams
<1>4. ASSUME NEW u \in Tokens, NEW f \in Frames \cup {NoFrame}, PutHeatmap(u, f)
      PROVE  Fewer /\ Shorter
  <2>1. f = NoFrame \/ u # t
    BY <1>4, <1>m DEF PutHeatmap
  <2>. QED  BY <1>4, <2>1, <1>s, <1>t DEF PutHeatmap, streams
<1>5. ASSUME NEW u \in Tokens, NEW s \in Snapshots \cup {NoSnapshot}, PutSnapshot(u, s)
      PROVE  Fewer /\ Shorter
  <2>1. s = NoSnapshot \/ u # t
    BY <1>5, <1>m DEF PutSnapshot
  <2>. QED  BY <1>5, <2>1, <1>s, <1>t DEF PutSnapshot, streams
<1>6. ASSUME NEW u \in Tokens, AddEntry(u) PROVE Fewer /\ Shorter
  <2>1. /\ u # t /\ entry' = Append(entry, [token |-> u])
        /\ input' = input \cup {Len(entry')} /\ UNCHANGED <<keys, results, output>>
    BY <1>6, <1>m DEF AddEntry
  <2>2. /\ Len(entry') = Len(entry) + 1
        /\ entry'[Len(entry) + 1] = [token |-> u]
        /\ \A i \in 1 .. Len(entry) : entry'[i] = entry[i]
    BY <2>1, <1>t
  <2>3. InputOf(t)' \subseteq InputOf(t)
    <3> SUFFICES ASSUME NEW i \in input', entry'[i].token = t PROVE i \in InputOf(t)
      BY DEF InputOf
    <3>1. i # Len(entry) + 1
      BY <2>1, <2>2
    <3>2. i \in input /\ i \in 1 .. Len(entry)
      BY <2>1, <2>2, <3>1, <1>t
    <3>. QED  BY <2>2, <3>2 DEF InputOf
  <2>4. OutputOf(t)' = OutputOf(t)
    BY <2>1 DEF OutputOf
  <2>. QED  BY <2>1, <2>3, <2>4 DEF keys
<1>7. ASSUME NEW u \in Tokens, AddResult(u) PROVE Fewer /\ Shorter
  <2>1. /\ u # t /\ results' = Append(results, [token |-> u])
        /\ output' = output \cup {Len(results')} /\ UNCHANGED <<keys, entry, input>>
    BY <1>7, <1>m DEF AddResult
  <2>2. /\ Len(results') = Len(results) + 1
        /\ results'[Len(results) + 1] = [token |-> u]
        /\ \A i \in 1 .. Len(results) : results'[i] = results[i]
    BY <2>1, <1>t
  <2>3. OutputOf(t)' \subseteq OutputOf(t)
    <3> SUFFICES ASSUME NEW k \in output', results'[k].token = t PROVE k \in OutputOf(t)
      BY DEF OutputOf
    <3>1. k # Len(results) + 1
      BY <2>1, <2>2
    <3>2. k \in output /\ k \in 1 .. Len(results)
      BY <2>1, <2>2, <3>1, <1>t
    <3>. QED  BY <2>2, <3>2 DEF OutputOf
  <2>4. InputOf(t)' = InputOf(t)
    BY <2>1 DEF InputOf
  <2>. QED  BY <2>1, <2>3, <2>4 DEF keys
<1>8. ASSUME Deliver \/ Consume \/ UNCHANGED vars PROVE Fewer /\ Shorter
  <2>1. /\ UNCHANGED <<keys, entry, results>>
        /\ input' \subseteq input /\ output' \subseteq output
    BY <1>8 DEF Deliver, Consume, vars, streams
  <2>. QED  BY <2>1, <1>s DEF keys
<1>9. Fewer /\ Shorter
  BY <1>1, <1>2, <1>3, <1>4, <1>5, <1>6, <1>7, <1>8 DEF Next, Others
<1>. QED  BY <1>9, <1>k

\* A call of the stop itself takes its part away.
LEMMA StopErases ==
  ASSUME ApiTypes, InputFirst, NEW r \in Requests, NEW t \in Tokens, req[r].token = t,
         at[r] \in StopCalls, Handle(r), Erasing(r, t),
         \A k \in KeyKinds : Exists(k, t)' => Exists(k, t),
         InputOf(t)' \subseteq InputOf(t), OutputOf(t)' \subseteq OutputOf(t)
  PROVE  Erasing(r, t)'
<1>t. /\ at \in [Requests -> Answers \cup StartCalls \cup StopCalls]
      /\ stream \in [Requests -> {"input", "output"}]
      /\ found \in [Requests -> SUBSET (KeyKinds \X Tokens)]
      /\ ids \in [Requests -> SUBSET (1 .. MaxEntries)]
      /\ t \in Matches[t]
  BY SessionConstants DEF ApiTypes, HandlersType
<1>m. NoKeys(t) => NoKeys(t)'
  BY DEF NoKeys
\* The calls before the streams.
<1>1. CASE DelSession(r) \/ DelSnapshots(r) \/ ScanSnapshots(r)
  <2>1. \E a \in {"scan_snapshots", "del_snapshots", "scan_all", "error"} :
           at' = [at EXCEPT ![r] = a]
    BY <1>1 DEF DelSession, ScanSnapshots, DelSnapshots, DelThen, ScanThen, Goto, Fails
  <2>. QED  BY <2>1, <1>t DEF Erasing
<1>2. CASE ScanAll(r)
  <2> DEFINE hits == {key \in KeyKinds \X Matches[t] : Exists(key[1], key[2])}
  <2>1. \/ /\ found' = [found EXCEPT ![r] = hits]
           /\ at' = [at EXCEPT ![r] = IF hits = {} THEN "xrange" ELSE "del_all"]
        \/ at' = [at EXCEPT ![r] = "error"]
    BY <1>2 DEF ScanAll, ScanThen, Goto, Fails
  <2>2. \A k \in KeyKinds : Exists(k, t) => <<k, t>> \in hits
    BY <1>t
  <2>3. stream'[r] = "input"
    BY <1>2 DEF ScanAll, ScanThen, InputFirst
  <2>4. hits = {} => NoKeys(t)
    BY <2>2 DEF NoKeys
  <2> HIDE DEF hits
  <2>. QED  BY <2>1, <2>2, <2>3, <2>4, <1>m, <1>t DEF Erasing
<1>3. CASE DelAll(r)
  <2>1. \/ Del(found[r]) /\ at' = [at EXCEPT ![r] = "xrange"]
        \/ at' = [at EXCEPT ![r] = "error"]
    BY <1>3 DEF DelAll, DelThen, Goto, Fails
  <2>2. stream'[r] = "input"
    BY <1>3 DEF DelAll, DelThen, InputFirst
  <2>3. \A k \in KeyKinds : Exists(k, t) => <<k, t>> \in found[r]
    BY <1>3 DEF DelAll, Erasing
  <2>4. ASSUME Del(found[r]), NEW k \in KeyKinds, <<k, t>> \in found[r] PROVE ~Exists(k, t)'
    BY <2>4 DEF Del, KeyKinds, Exists
  <2>5. Del(found[r]) => NoKeys(t)'
    BY <2>3, <2>4 DEF NoKeys
  <2>. QED  BY <2>1, <2>2, <2>5, <1>t DEF Erasing
\* The calls for a stream.
<1>4. CASE XRange(r) \/ XDel(r) \/ XAck(r)
  <2>k. NoKeys(t)'
    BY <1>4, <1>m DEF XRange, XDel, XAck, Erasing
  <2>1. ASSUME NextStream(r), stream[r] = "input" => InputOf(t) = {},
               stream[r] = "output" => InputOf(t) = {} /\ OutputOf(t) = {}
        PROVE  Erasing(r, t)'
    <3>1. \/ /\ stream[r] = "input" /\ stream'[r] = "output" /\ at'[r] = "xrange"
          \/ /\ stream[r] = "output" /\ stream'[r] = "input" /\ at'[r] = "stopped"
      BY <2>1, <1>t DEF NextStream, Goto
    <3>. QED  BY <2>1, <2>k, <3>1 DEF Erasing
  <2>2. ASSUME StreamFails(r) PROVE Erasing(r, t)'
    <3>1. at'[r] = "error"
      BY <2>2, <1>t DEF StreamFails, Fails, Goto
    <3>. QED  BY <3>1 DEF Erasing
  <2>3. CASE XRange(r)
    <3>1. /\ stream[r] = "input" => InputOf(t) \subseteq Mine(r)
          /\ stream[r] = "output" => OutputOf(t) \subseteq Mine(r) /\ InputOf(t) = {}
      BY <2>3, <1>t DEF InputOf, OutputOf, Mine, XRange, Erasing
    <3>2. CASE Mine(r) = {} /\ NextStream(r)
      BY <3>1, <3>2, <2>1
    <3>3. CASE ids' = [ids EXCEPT ![r] = Mine(r)] /\ Goto(r, "xdel") /\ UNCHANGED stream
      <4>1. ids'[r] = Mine(r) /\ at'[r] = "xdel" /\ stream'[r] = stream[r]
        BY <3>3, <1>t DEF Goto
      <4>. QED  BY <4>1, <3>1, <2>k DEF Erasing
    <3>. QED  BY <2>2, <2>3, <3>2, <3>3 DEF XRange
  <2>4. CASE XDel(r)
    <3>1. CASE StreamFails(r)
      BY <3>1, <2>2
    <3>2. CASE ~StreamFails(r)
      <4>1. /\ at'[r] = "xack" /\ stream'[r] = stream[r] /\ UNCHANGED <<entry, results>>
            /\ stream[r] = "input" => input' = input \ ids[r]
            /\ stream[r] = "output" => output' = output \ ids[r]
        BY <2>4, <3>2, <1>t DEF XDel, Goto
      <4>2. /\ stream[r] = "input" => InputOf(t) \subseteq ids[r]
            /\ stream[r] = "output" => OutputOf(t) \subseteq ids[r] /\ InputOf(t) = {}
        BY <2>4 DEF XDel, Erasing
      <4>3. /\ stream[r] = "input" => InputOf(t)' = {}
            /\ stream[r] = "output" => OutputOf(t)' = {} /\ InputOf(t)' = {}
        BY <4>1, <4>2 DEF InputOf, OutputOf
      <4>. QED  BY <4>1, <4>3, <2>k DEF Erasing
    <3>. QED  BY <3>1, <3>2
  <2>5. CASE XAck(r)
    <3>1. NextStream(r) /\ at[r] = "xack"
      BY <2>5 DEF XAck
    <3>2. /\ stream[r] = "input" => InputOf(t) = {}
          /\ stream[r] = "output" => InputOf(t) = {} /\ OutputOf(t) = {}
      BY <3>1 DEF Erasing
    <3>. QED  BY <3>1, <3>2, <2>1
  <2>. QED  BY <1>4, <2>3, <2>4, <2>5
<1>5. ~SetActive(r) /\ ~SetConfig(r)
  BY DEF SetActive, SetConfig, StopCalls
<1>. QED  BY <1>1, <1>2, <1>3, <1>4, <1>5 DEF Handle

\* What a stop has erased stays erased until its session is written to.
LEMMA ErasedStep == EraseInv /\ [Next]_vars => ErasedSoFar'
<1> SUFFICES ASSUME ApiTypes, InputFirst, ErasedSoFar, [Next]_vars,
                    NEW r \in Requests, at'[r] \in StopCalls, ~touched'[r]
             PROVE  Erasing(r, req[r].token)'
  BY DEF EraseInv, ErasedSoFar
<1>t. /\ at \in [Requests -> Answers \cup StartCalls \cup StopCalls]
      /\ touched \in [Requests -> BOOLEAN]
      /\ stream \in [Requests -> {"input", "output"}]
      /\ found \in [Requests -> SUBSET (KeyKinds \X Tokens)]
      /\ ids \in [Requests -> SUBSET (1 .. MaxEntries)]
      /\ req \in [Requests -> Request] /\ HandlersType
  BY DEF ApiTypes, HandlersType
<1>1. CASE Receive(r)
  <2>1. at'[r] \in {"del", "set_active"}
    BY <1>1, <1>t DEF Receive, ReceiveStart, ReceiveStop, Goto
  <2>. QED  BY <2>1 DEF Erasing
<1>2. CASE ~Receive(r)
  <2>1. req'[r] = req[r] /\ at[r] \in StopCalls
    <3>1. ASSUME NEW q \in Requests, Handle(q) PROVE req'[r] = req[r] /\ at[r] \in StopCalls
      <4>1. /\ req' = req
            /\ \E a \in StartCalls \cup StopCalls \cup {"error"} : at' = [at EXCEPT ![q] = a]
            /\ at[q] \in StartCalls \cup StopCalls
            /\ at[q] \in StartCalls => at'[q] \in StartCalls \cup {"error"}
        BY <3>1, <1>t, HandleMoves
      <4>2. StopCalls \cap (StartCalls \cup {"error"}) = {}
        BY DEF StartCalls, StopCalls
      <4>. QED  BY <4>1, <4>2, <1>t
    <3>2. ASSUME NEW q \in Requests, Receive(q) PROVE req'[r] = req[r] /\ at[r] \in StopCalls
      <4>1. q # r
        BY <3>2, <1>2
      <4>2. at'[r] = at[r] /\ req'[r] = req[r]
        BY <3>2, <4>1, <1>t, ReceiveMoves
      <4>. QED  BY <4>2
    <3>3. Others \/ UNCHANGED vars => UNCHANGED <<at, req>>
      BY DEF Others, Tick, Deliver, Consume, PutHeatmap, PutSnapshot, AddEntry, AddResult,
             vars, handlers
    <3>. QED  BY <3>1, <3>2, <3>3 DEF Next
  <2>2. at[r] # "none" /\ req[r] # NoRequest /\ req[r].token \in Tokens
    BY <2>1, RunningHasRequest DEF StopCalls
  <2>3. PICK t \in Tokens : t = req[r].token
    BY <2>2
  <2>4. /\ \A k \in KeyKinds : Exists(k, t)' => Exists(k, t)
        /\ InputOf(t)' \subseteq InputOf(t)
        /\ OutputOf(t)' \subseteq OutputOf(t)
    BY <1>2, <2>2, <2>3, NothingNew
  <2>5. CASE Handle(r)
    <3>1. touched' = touched
      BY <2>1, <2>5 DEF Handle, SetActive, SetConfig, DelSession, ScanSnapshots, DelSnapshots,
                        ScanAll, DelAll, DelThen, ScanThen, XRange, XDel, XAck, StopCalls
    <3>2. Erasing(r, t)
      BY <2>1, <2>3, <3>1 DEF ErasedSoFar
    <3>3. Erasing(r, t)'
      BY <2>1, <2>3, <2>4, <2>5, <3>2, StopErases
    <3>4. t = req'[r].token
      BY <2>1, <2>3
    <3>. QED  BY <3>3, <3>4 DEF Erasing, NoKeys, InputOf, OutputOf
  <2>6. CASE ~Handle(r)
    <3>1. /\ at'[r] = at[r] /\ stream'[r] = stream[r]
          /\ found'[r] = found[r] /\ ids'[r] = ids[r]
      <4>1. ASSUME NEW q \in Requests, Handle(q)
            PROVE  /\ at'[r] = at[r] /\ stream'[r] = stream[r]
                   /\ found'[r] = found[r] /\ ids'[r] = ids[r]
        <5>1. q # r
          BY <4>1, <2>6
        <5>2. \E a \in StartCalls \cup StopCalls \cup {"error"} : at' = [at EXCEPT ![q] = a]
          BY <4>1, <1>t, HandleMoves
        <5>3. CASE SetActive(q) \/ SetConfig(q)
          BY <5>1, <5>2, <5>3, <1>t DEF SetActive, SetConfig
        <5>4. CASE \/ DelSession(q) \/ ScanSnapshots(q) \/ DelSnapshots(q) \/ ScanAll(q)
                   \/ DelAll(q)
          <6>1. /\ UNCHANGED <<stream, ids>>
                /\ found' = found \/ \E f : found' = [found EXCEPT ![q] = f]
            BY <5>4 DEF DelSession, ScanSnapshots, DelSnapshots, ScanAll, DelAll, DelThen,
                        ScanThen
          <6>. QED  BY <6>1, <5>1, <5>2, <1>t
        <5>5. CASE XRange(q) \/ XDel(q) \/ XAck(q)
          <6>1. /\ UNCHANGED found
                /\ stream' = stream \/ \E x : stream' = [stream EXCEPT ![q] = x]
                /\ ids' = ids \/ \E x : ids' = [ids EXCEPT ![q] = x]
            BY <5>5 DEF XRange, XDel, XAck, NextStream, StreamFails
          <6>. QED  BY <6>1, <5>1, <5>2, <1>t
        <5>. QED  BY <4>1, <5>3, <5>4, <5>5 DEF Handle
      <4>2. ASSUME NEW q \in Requests, Receive(q)
            PROVE  /\ at'[r] = at[r] /\ stream'[r] = stream[r]
                   /\ found'[r] = found[r] /\ ids'[r] = ids[r]
        BY <4>2, <1>2, <1>t DEF Receive, ReceiveStart, ReceiveStop, Goto
      <4>3. Others \/ UNCHANGED vars => UNCHANGED <<at, stream, found, ids>>
        BY DEF Others, Tick, Deliver, Consume, PutHeatmap, PutSnapshot, AddEntry, AddResult,
               vars, handlers
      <4>. QED  BY <4>1, <4>2, <4>3 DEF Next
    <3>2. touched'[r] = touched[r] \/ touched[r] = FALSE
      <4>1. ASSUME NEW u \in Tokens, Touch(u) PROVE touched[r] => touched'[r]
        BY <4>1, <1>t, TouchType, Zenon
      <4>2. ASSUME NEW q \in Requests, Receive(q) PROVE touched'[r] = touched[r]
        BY <4>2, <1>2, <1>t DEF Receive, ReceiveStart, ReceiveStop
      <4>3. ASSUME NEW q \in Requests, Handle(q)
            PROVE  touched' = touched \/ (Touch(req[q].token) /\ req[q].token \in Tokens)
        <5>1. at[q] # "none"
          BY <4>3 DEF Handle, SetActive, SetConfig, DelSession, ScanSnapshots, DelSnapshots,
                      ScanAll, DelAll, XRange, XDel, XAck
        <5>2. req[q].token \in Tokens
          BY <5>1, RunningHasRequest
        <5>. QED  BY <4>3, <5>2 DEF Handle, SetActive, SetConfig, DelSession, ScanSnapshots,
                    DelSnapshots, ScanAll, DelAll, DelThen, ScanThen, XRange, XDel, XAck,
                    PutActive, PutConfig, Untouched
      <4>4. Others \/ UNCHANGED vars => touched' = touched \/ \E u \in Tokens : Touch(u)
        BY DEF Others, Tick, Deliver, Consume, PutHeatmap, PutSnapshot, AddEntry, AddResult,
               vars, handlers
      <4>. QED  BY <4>1, <4>2, <4>3, <4>4, <1>t DEF Next
    <3>3. ~touched[r]
      BY <3>2
    <3>4. Erasing(r, t)
      BY <2>1, <2>3, <3>3 DEF ErasedSoFar
    <3>5. NoKeys(t) => NoKeys(t)'
      BY <2>4 DEF NoKeys
    <3>6. Erasing(r, t)'
      BY <2>4, <3>1, <3>4, <3>5 DEF Erasing
    <3>7. t = req'[r].token
      BY <2>1, <2>3
    <3>. QED  BY <3>6, <3>7 DEF Erasing, NoKeys, InputOf, OutputOf
  <2>. QED  BY <2>5, <2>6
<1>. QED  BY <1>1, <1>2

\* StoppedMeansErased: a stop that answers "stopped" has erased the session's keys and
\* stream entries, whatever else runs in between, unless the session was written to.
THEOREM ApiStoppedMeansErased == Spec => []StoppedMeansErased
<1>1. Init => EraseInv
  BY TypesAtStart DEF Init, EraseInv, InputFirst, ErasedSoFar, StopCalls
<1>2. EraseInv /\ [Next]_vars => EraseInv'
  BY TypesStep, InputFirstStep, ErasedStep DEF EraseInv
<1>3. EraseInv => StoppedMeansErased
  <2> SUFFICES ASSUME EraseInv, NEW r \in Requests, at[r] = "stopped", ~touched[r]
               PROVE  NothingLeft(req[r].token)
    BY DEF StoppedMeansErased
  <2>1. Erasing(r, req[r].token)
    BY DEF EraseInv, ErasedSoFar, StopCalls
  <2>. QED  BY <2>1 DEF Erasing, NoKeys, InputOf, OutputOf, NothingLeft
<1>. QED  BY <1>1, <1>2, <1>3, PTL DEF Spec

=============================================================================
