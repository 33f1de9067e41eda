----------------------- MODULE PredictionStreamProofs -----------------------
(***************************************************************************)
(* What the page shows is its session's, for any number of sessions,       *)
(* heatmap versions and frames under way.  The argument has three parts:   *)
(* the click that is under way says what the token, the socket and the     *)
(* session key of the last token drawn are (Clicks); only the socket of    *)
(* the token is alive, and no stream is open behind a socket that never    *)
(* was (Sockets); a socket carries frames of its own session (Frames).     *)
(***************************************************************************)
EXTENDS PredictionStream, SequenceTheorems, TLAPS

\* Until its start is answered a token has no socket and no page; a stop is of the
\* running session; a session in Redis has a page, or a start under way or failed.
Clicks ==
  /\ request \in {"start", "started"} =>
       token = NoToken /\ drawn # 0 /\ socket[drawn] = "none"
  /\ request \in {"stop", "stopped"} => token = drawn /\ token # NoToken
  /\ request = "started" => drawn \in active
  /\ request = "stopped" => drawn \notin active
  /\ \A s \in active : s \in failed \/ s = token \/ (request = "started" /\ s = drawn)

\* The hub waits for a connection only of a session that is in Redis or was stopped.
Sockets ==
  /\ \A s \in Sessions : Live(s) => s = token
  /\ \A s \in Sessions : s > drawn => socket[s] = "none"
  /\ \A s \in Sessions : socket[s] = "none" => stream[s] = "none"
  /\ \A s \in Sessions :
       socket[s] # "none" /\ stream[s] = "none" => s \in active \cup stopped

\* A key in Redis has been written, and a stream carries frames of its session.
OwnFrames(s) == {f \in FrameType : f.session = s}
Frames ==
  /\ \A k \in stored : map[k] # 0
  /\ \A s \in Sessions : wire[s] \in Seq(OwnFrames(s))

StreamInv == TypeOK /\ Clicks /\ Sockets /\ Frames

-----------------------------------------------------------------------------
\* The parts of the types that steps use one by one.
LEMMA Bounds ==
  ASSUME TypeOK
  PROVE  /\ drawn \in 0..MaxSessions /\ drawn \in Nat /\ token \in {NoToken, drawn}
         /\ stored \subseteq Sessions \cup {Base}
         /\ map \in [Sessions \cup {Base} -> 0..MaxMaps]
         /\ latest \in Seq(FrameType) /\ Len(latest) <= 1
         /\ wire \in [Sessions -> Seq(FrameType)]
         /\ \A s \in Sessions : Len(wire[s]) <= WireSize
         /\ active \subseteq Sessions /\ failed \subseteq Sessions /\ stopped \subseteq Sessions
<1>1. drawn \in 0..MaxSessions
  BY DEF TypeOK
<1>2. drawn \in Nat
  BY <1>1, StreamAssumption
<1>. QED  BY <1>1, <1>2 DEF TypeOK

\* A token that was drawn is a session.
LEMMA DrawnIsSession == ASSUME TypeOK, drawn # 0
                        PROVE  drawn \in Sessions
  BY Bounds, StreamAssumption DEF Sessions

\* A found heatmap is one frame of the stream's session.
LEMMA FoundIsOwn ==
  ASSUME TypeOK, Frames, NEW s \in Sessions, Found(s) # NoFrame
  PROVE  Found(s) \in Seq(OwnFrames(s)) /\ Len(Found(s)) = 1
<1>1. PICK k \in stored : Found(s) = Frame(s, k, map[k])
  BY DEF Found
<1>2. k \in Sessions \cup {Base} /\ map[k] \in 0..MaxMaps /\ map[k] # 0
  BY Bounds DEF Frames
<1>3. [session |-> s, key |-> k, version |-> map[k]] \in OwnFrames(s)
  BY <1>2, StreamAssumption DEF OwnFrames, FrameType
<1>. QED  BY <1>1, <1>3 DEF Frame

\* Frames of one session are frames.
LEMMA OwnIsFrame == ASSUME NEW s \in Sessions, NEW q \in Seq(OwnFrames(s))
                    PROVE  q \in Seq(FrameType)
  BY DEF OwnFrames

\* setToken keeps the types of what it assigns.
LEMMA RerunTypes ==
  ASSUME TypeOK, NEW t \in {NoToken, drawn}, Rerun(t)
  PROVE  /\ token' \in {NoToken, drawn}
         /\ socket' \in [Sessions -> {"none", "connecting", "open", "closing", "closed"}]
         /\ status' \in {"idle", "connecting"}
         /\ latest' \in Seq(FrameType) /\ Len(latest') <= 1
<1>1. latest' \in {latest, NoFrame}
  BY DEF Rerun
<1>2. latest' \in Seq(FrameType) /\ Len(latest') <= 1
  <2>1. NoFrame \in Seq(FrameType) /\ Len(NoFrame) = 0
    BY DEF NoFrame
  <2>2. CASE latest' = latest
    BY <2>2, Bounds
  <2>3. CASE latest' = NoFrame
    BY <2>1, <2>3
  <2>. QED  BY <1>1, <2>2, <2>3
<1>. QED  BY <1>2 DEF Rerun, TypeOK

-----------------------------------------------------------------------------
\* The variables keep their types; the frames keep theirs and their session.
LEMMA TypeStep == StreamInv /\ [Next]_vars => TypeOK' /\ Frames'
<1> SUFFICES ASSUME TypeOK, Clicks, Frames, [Next]_vars PROVE TypeOK' /\ Frames'
  BY DEF StreamInv
<1>1. CASE Toggle
  <2>1. UNCHANGED <<map, pace, stream, wire>> /\ stored' \subseteq stored
    BY <1>1 DEF Toggle, ClickStart, ClickStop, ServeStart, ServeStop, Answer, redis, hub
  <2>2. Frames'
    BY <2>1 DEF Frames
  <2>3. CASE ClickStart
    <3>1. drawn' \in 0..MaxSessions /\ token = NoToken
      BY <2>3, Bounds, StreamAssumption DEF ClickStart, TakesStart
    <3>. QED  BY <2>2, <2>3, <3>1 DEF ClickStart, TypeOK, redis, hub
  <2>4. CASE ClickStop
    BY <2>2, <2>4 DEF ClickStop, TypeOK, redis, hub
  <2>5. CASE ServeStart
    <3>1. drawn \in Sessions
      BY <2>5, DrawnIsSession DEF ServeStart, Clicks
    <3>2. active' \subseteq Sessions /\ failed' \subseteq Sessions
      BY <2>5, <3>1, Bounds DEF ServeStart
    <3>. QED  BY <2>2, <2>5, <3>2 DEF ServeStart, TypeOK, hub
  <2>6. CASE ServeStop
    <3>1. drawn \in Sessions
      BY <2>6, DrawnIsSession DEF ServeStop, Clicks, NoToken
    <3>2. /\ active' \subseteq Sessions /\ stopped' \subseteq Sessions
          /\ stored' \subseteq Sessions \cup {Base}
      BY <2>6, <3>1, Bounds DEF ServeStop
    <3>. QED  BY <2>2, <2>6, <3>2 DEF ServeStop, TypeOK, hub
  <2>7. CASE Answer
    <3>1. CASE request = "error"
      BY <2>2, <2>7, <3>1 DEF Answer, TypeOK, redis, hub
    <3>2. CASE request # "error"
      <4>1. PICK t \in {NoToken, drawn} : Rerun(t)
        BY <2>7, <3>2 DEF Answer
      <4>. QED  BY <2>2, <2>7, <4>1, RerunTypes DEF Answer, TypeOK, redis, hub
    <3>. QED  BY <3>1, <3>2
  <2>. QED  BY <1>1, <2>3, <2>4, <2>5, <2>6, <2>7 DEF Toggle
<1>2. ASSUME NEW s \in Sessions, OnOpen(s) \/ OnClose(s) PROVE TypeOK' /\ Frames'
  BY <1>2 DEF OnOpen, OnClose, TypeOK, Frames, redis, hub
<1>3. ASSUME NEW s \in Sessions, OnMessage(s) PROVE TypeOK' /\ Frames'
  <2>1. wire[s] \in Seq(OwnFrames(s)) /\ wire[s] # << >>
    BY <1>3 DEF OnMessage, Frames
  <2>2. /\ Head(wire[s]) \in OwnFrames(s) /\ Tail(wire[s]) \in Seq(OwnFrames(s))
        /\ Len(Tail(wire[s])) = Len(wire[s]) - 1 /\ Len(wire[s]) \in Nat
    BY <2>1, HeadTailProperties, LenProperties
  <2>3. << Head(wire[s]) >> \in Seq(FrameType) /\ Len(<< Head(wire[s]) >>) = 1
    BY <2>2 DEF OwnFrames
  <2>4. latest' \in Seq(FrameType) /\ Len(latest') <= 1
    BY <1>3, <2>3, Bounds DEF OnMessage
  <2>5. /\ wire' \in [Sessions -> Seq(FrameType)]
        /\ \A r \in Sessions : wire'[r] \in Seq(OwnFrames(r))
    BY <1>3, <2>2, OwnIsFrame DEF OnMessage, TypeOK, Frames
  <2>6. \A r \in Sessions : Len(wire'[r]) <= WireSize
    <3> SUFFICES ASSUME NEW r \in Sessions PROVE Len(wire'[r]) <= WireSize
      OBVIOUS
    <3>1. CASE r = s
      <4>1. wire'[r] = Tail(wire[s])
        BY <1>3, <3>1, Bounds DEF OnMessage
      <4>2. Len(wire[s]) <= WireSize
        BY Bounds
      <4>. QED  BY <4>1, <4>2, <2>2, StreamAssumption
    <3>2. CASE r # s
      BY <1>3, <3>2 DEF OnMessage, TypeOK
    <3>. QED  BY <3>1, <3>2
  <2>. QED  BY <1>3, <2>4, <2>5, <2>6 DEF OnMessage, TypeOK, Frames, redis, hub
<1>4. ASSUME NEW s \in Sessions, Accept(s) PROVE TypeOK' /\ Frames'
  BY <1>4 DEF Accept, TypeOK, Frames, redis, page
<1>5. ASSUME NEW s \in Sessions, Tick(s) PROVE TypeOK' /\ Frames'
  <2>1. UNCHANGED <<redis, page, socket, pace, failed, stopped>>
    BY <1>5 DEF Tick
  <2>2. CASE UNCHANGED wire
    <3>1. stream' \in [Sessions -> {"none", "open", "ended"}]
      BY <1>5 DEF Tick, Send, ReadFails, FindsNothing, TypeOK
    <3>. QED  BY <2>1, <2>2, <3>1 DEF TypeOK, Frames, redis, page
  <2>3. CASE /\ Found(s) # NoFrame /\ Len(wire[s]) < WireSize
             /\ wire' = [wire EXCEPT ![s] = @ \o Found(s)] /\ UNCHANGED stream
    <3>1. /\ wire[s] \o Found(s) \in Seq(OwnFrames(s))
          /\ Len(wire[s] \o Found(s)) = Len(wire[s]) + 1 /\ Len(wire[s]) \in Nat
      <4>1. wire[s] \in Seq(OwnFrames(s)) /\ Found(s) \in Seq(OwnFrames(s))
            /\ Len(Found(s)) = 1
        BY <2>3, FoundIsOwn DEF Frames
      <4>2. Len(wire[s]) \in Nat
        BY <4>1, LenProperties
      <4>3. /\ wire[s] \o Found(s) \in Seq(OwnFrames(s))
            /\ Len(wire[s] \o Found(s)) = Len(wire[s]) + Len(Found(s))
        BY <4>1, ConcatProperties, Zenon
      <4>. QED  BY <4>1, <4>2, <4>3
    <3>2. \A r \in Sessions : wire'[r] \in Seq(OwnFrames(r))
      BY <2>3, <3>1 DEF TypeOK, Frames
    <3>3. wire' \in [Sessions -> Seq(FrameType)]
      BY <2>3, <3>1, OwnIsFrame DEF TypeOK
    <3>4. Len(wire[s] \o Found(s)) <= WireSize
      BY <2>3, <3>1, StreamAssumption
    <3>5. \A r \in Sessions : Len(wire'[r]) <= WireSize
      BY <2>3, <3>4 DEF TypeOK
    <3>. QED  BY <2>1, <2>3, <3>2, <3>3, <3>5 DEF TypeOK, Frames, redis, page
  <2>. QED  BY <1>5, <2>2, <2>3 DEF Tick, Send, ReadFails, FindsNothing
<1>6. ASSUME NEW k \in Sessions \cup {Base}, PutMap(k) PROVE TypeOK' /\ Frames'
  <2>1. map' = [map EXCEPT ![k] = @ + 1] /\ stored' = stored \cup {k}
    BY <1>6 DEF PutMap
  <2>2. map[k] + 1 \in 1..MaxMaps
    <3>1. map[k] \in 0..MaxMaps /\ map[k] < MaxMaps
      BY <1>6, Bounds DEF PutMap
    <3>. QED  BY <3>1, StreamAssumption
  <2>3. map' \in [Sessions \cup {Base} -> 0..MaxMaps] /\ map'[k] # 0
    <3>1. map[k] + 1 \in 0..MaxMaps /\ map[k] + 1 # 0
      BY <2>2, StreamAssumption
    <3>. QED  BY <2>1, <3>1, Bounds
  <2>4. \A j \in stored' : map'[j] # 0
    BY <2>1, <2>3 DEF TypeOK, Frames
  <2>. QED  BY <1>6, <2>1, <2>3, <2>4 DEF PutMap, TypeOK, Frames, page, hub
<1>7. ASSUME NEW k \in Sessions \cup {Base}, MapExpires(k) PROVE TypeOK' /\ Frames'
  BY <1>7 DEF MapExpires, TypeOK, Frames, page, hub
<1>8. ASSUME NEW s \in Sessions, SessionExpires(s) PROVE TypeOK' /\ Frames'
  BY <1>8 DEF SessionExpires, TypeOK, Frames, page, hub
<1>9. CASE UNCHANGED vars
  BY <1>9 DEF vars, redis, page, hub, TypeOK, Frames
<1>. QED  BY <1>1, <1>2, <1>3, <1>4, <1>5, <1>6, <1>7, <1>8, <1>9 DEF Next

-----------------------------------------------------------------------------
\* The click under way keeps saying what the last token is.
LEMMA ClicksStep == StreamInv /\ [Next]_vars => Clicks'
<1> SUFFICES ASSUME TypeOK, Clicks, Sockets, [Next]_vars PROVE Clicks'
  BY DEF StreamInv
<1>1. CASE ClickStart
  <2>1. drawn' = drawn + 1 /\ drawn \in Nat /\ drawn' \in Sessions /\ request' = "start"
    BY <1>1, Bounds, StreamAssumption DEF ClickStart, TakesStart, Sessions
  <2>2. token' = token /\ token = NoToken /\ socket' = socket /\ active' = active
        /\ failed' = failed /\ request = "none"
    BY <1>1 DEF ClickStart, TakesStart, redis
  <2>3. socket[drawn'] = "none"
    BY <2>1 DEF Sockets
  <2>. QED  BY <2>1, <2>2, <2>3 DEF Clicks, Sessions
<1>2. CASE ClickStop
  BY <1>2 DEF ClickStop, Clicks, TypeOK, redis
<1>3. CASE ServeStart
  BY <1>3 DEF ServeStart, Clicks
<1>4. CASE ServeStop
  BY <1>4 DEF ServeStop, Clicks
<1>5. CASE Answer
  <2>1. CASE request = "started"
    <3>1. token' = drawn /\ request' = "none" /\ active' = active /\ failed' = failed
      BY <1>5, <2>1 DEF Answer, Rerun, redis
    <3>2. token = NoToken /\ NoToken \notin active
      BY <2>1, Bounds DEF Clicks, NoToken, Sessions
    <3>. QED  BY <2>1, <3>1, <3>2 DEF Clicks
  <2>2. CASE request = "stopped"
    BY <1>5, <2>2 DEF Answer, Clicks, Rerun, redis
  <2>3. CASE request = "error"
    BY <1>5, <2>3 DEF Answer, Clicks, redis
  <2>. QED  BY <1>5, <2>1, <2>2, <2>3 DEF Answer
<1>6. ASSUME NEW s \in Sessions, OnOpen(s) \/ OnClose(s) PROVE Clicks'
  <2>1. \A r \in Sessions : socket[r] = "none" => socket'[r] = "none"
    BY <1>6 DEF OnOpen, OnClose, TypeOK
  <2>2. UNCHANGED <<request, token, drawn, active, failed>>
    BY <1>6 DEF OnOpen, OnClose, redis
  <2>. QED  BY <2>1, <2>2, DrawnIsSession DEF Clicks
<1>7. ASSUME NEW s \in Sessions, SessionExpires(s) PROVE Clicks'
  <2>1. UNCHANGED <<request, token, drawn, failed, socket>> /\ active' = active \ {s}
        /\ stream[s] # "none"
    BY <1>7 DEF SessionExpires, page
  <2>2. request = "started" => s # drawn
    BY <2>1 DEF Clicks, Sockets
  <2>. QED  BY <2>1, <2>2 DEF Clicks
<1>8. CASE UNCHANGED <<request, token, drawn, active, failed, socket>>
  BY <1>8 DEF Clicks
<1>9. ASSUME NEW s \in Sessions, OnMessage(s) \/ Accept(s) \/ Tick(s)
      PROVE  UNCHANGED <<request, token, drawn, active, failed, socket>>
  BY <1>9 DEF OnMessage, Accept, Tick, redis, page
<1>10. ASSUME NEW k \in Sessions \cup {Base}, PutMap(k) \/ MapExpires(k)
       PROVE  UNCHANGED <<request, token, drawn, active, failed, socket>>
  BY <1>10 DEF PutMap, MapExpires, page
<1>11. UNCHANGED vars => UNCHANGED <<request, token, drawn, active, failed, socket>>
  BY DEF vars, redis, page
<1>. QED  BY <1>1, <1>2, <1>3, <1>4, <1>5, <1>6, <1>7, <1>8, <1>9, <1>10, <1>11
          DEF Next, Toggle

-----------------------------------------------------------------------------
\* What one setToken does to the sockets.
LEMMA RerunSockets ==
  ASSUME TypeOK, NEW t, Rerun(t)
  PROVE  \A s \in Sessions :
           /\ s = t => socket'[s] = "connecting"
           /\ s # t => /\ socket'[s] \notin {"connecting", "open"}
                       /\ socket'[s] = "none" <=> socket[s] = "none"
  BY DEF Rerun, Live, TypeOK

\* Only the token's socket stays alive, and nothing opens behind a missing one.
LEMMA SocketsStep == StreamInv /\ [Next]_vars => Sockets'
<1> SUFFICES ASSUME TypeOK, Clicks, Sockets, [Next]_vars PROVE Sockets'
  BY DEF StreamInv
<1>1. CASE ClickStart
  <2>1. drawn' = drawn + 1 /\ drawn \in Nat
        /\ UNCHANGED <<socket, stream, token, active, stopped>>
    BY <1>1, Bounds DEF ClickStart, redis, hub
  <2>2. \A s \in Sessions : s > drawn' => s > drawn
    BY <2>1 DEF Sessions
  <2>. QED  BY <2>1, <2>2 DEF Sockets, Live
<1>2. CASE ClickStop \/ UNCHANGED vars
  BY <1>2 DEF ClickStop, Sockets, Live, vars, redis, page, hub
<1>3. CASE ServeStart
  BY <1>3 DEF ServeStart, Sockets, Live, hub
<1>4. CASE ServeStop
  BY <1>4 DEF ServeStop, Sockets, Live, hub
<1>5. CASE Answer
  <2>1. UNCHANGED <<drawn, stream, active, stopped>>
    BY <1>5 DEF Answer, redis, hub
  <2>2. CASE request = "started"
    <3>1. /\ token' = drawn /\ drawn \in Sessions /\ drawn \in active /\ Rerun(drawn)
      BY <1>5, <2>2, DrawnIsSession DEF Answer, Rerun, Clicks
    <3>2. \A s \in Sessions : s > drawn => s # drawn
      BY DEF Sessions
    <3>. QED  BY <2>1, <3>1, <3>2, RerunSockets DEF Sockets, Live
  <2>3. CASE request = "stopped"
    <3>1. token' = NoToken /\ NoToken \notin Sessions /\ Rerun(NoToken)
      BY <1>5, <2>3 DEF Answer, Rerun, Sessions, NoToken
    <3>. QED  BY <2>1, <3>1, RerunSockets DEF Sockets, Live
  <2>4. CASE request = "error"
    BY <1>5, <2>1, <2>4 DEF Answer, Sockets, Live
  <2>. QED  BY <1>5, <2>2, <2>3, <2>4 DEF Answer
<1>6. ASSUME NEW s \in Sessions, OnOpen(s) \/ OnClose(s) PROVE Sockets'
  <2>1. UNCHANGED <<drawn, token, stream, active, stopped>>
    BY <1>6 DEF OnOpen, OnClose, redis, hub
  <2>2. \A r \in Sessions : socket'[r] \in {"connecting", "open"} => Live(r)
    BY <1>6 DEF OnOpen, OnClose, Live, TypeOK
  <2>3. \A r \in Sessions : (socket'[r] = "none") = (socket[r] = "none")
    BY <1>6 DEF OnOpen, OnClose, TypeOK
  <2>. QED  BY <2>1, <2>2, <2>3 DEF Sockets, Live
<1>7. ASSUME NEW s \in Sessions, OnMessage(s) PROVE Sockets'
  BY <1>7 DEF OnMessage, Sockets, Live, redis, hub
<1>8. ASSUME NEW s \in Sessions, Accept(s) PROVE Sockets'
  BY <1>8 DEF Accept, Sockets, Live, TypeOK, redis, page
<1>9. ASSUME NEW s \in Sessions, Tick(s) PROVE Sockets'
  BY <1>9 DEF Tick, Send, ReadFails, FindsNothing, Sockets, Live, TypeOK, redis, page
<1>10. ASSUME NEW s \in Sessions, SessionExpires(s) PROVE Sockets'
  BY <1>10 DEF SessionExpires, Sockets, Live, page, hub
<1>11. ASSUME NEW k \in Sessions \cup {Base}, PutMap(k) \/ MapExpires(k) PROVE Sockets'
  BY <1>11 DEF PutMap, MapExpires, Sockets, Live, page, hub
<1>. QED  BY <1>1, <1>2, <1>3, <1>4, <1>5, <1>6, <1>7, <1>8, <1>9, <1>10, <1>11
          DEF Next, Toggle

-----------------------------------------------------------------------------
\* Nothing has been started.
LEMMA InitialStream == Init => StreamInv
<1> SUFFICES ASSUME Init PROVE StreamInv
  OBVIOUS
<1>1. TypeOK
  <2>1. 0 \in 0..MaxSessions /\ 0 \in 0..MaxMaps /\ 0 <= WireSize
    BY StreamAssumption
  <2>2. << >> \in Seq(FrameType) /\ Len(<< >>) = 0
    OBVIOUS
  <2>3. wire \in [Sessions -> Seq(FrameType)] /\ \A s \in Sessions : Len(wire[s]) <= WireSize
    BY <2>1, <2>2 DEF Init
  <2>4. latest \in Seq(FrameType) /\ Len(latest) <= 1
    BY <2>2 DEF Init, NoFrame
  <2>5. map \in [Sessions \cup {Base} -> 0..MaxMaps]
    BY <2>1 DEF Init
  <2>. QED  BY <2>1, <2>3, <2>4, <2>5 DEF Init, TypeOK
<1>2. Clicks /\ Sockets
  BY DEF Init, Clicks, Sockets, Live
<1>3. Frames
  BY DEF Init, Frames
<1>. QED  BY <1>1, <1>2, <1>3 DEF StreamInv

\* The three parts of the argument hold together (App.tsx, usePredictionStream.ts).
THEOREM StreamInvariant == Spec => []StreamInv
<1>1. StreamInv /\ [Next]_vars => StreamInv'
  BY TypeStep, ClicksStep, SocketsStep DEF StreamInv
<1>. QED  BY InitialStream, <1>1, PTL DEF Spec

\* The variables keep their types.
THEOREM StreamTypeCorrect == Spec => []TypeOK
<1>1. StreamInv => TypeOK
  BY DEF StreamInv
<1>. QED  BY <1>1, StreamInvariant, PTL

\* No session runs, or is lost, behind the page's back.
THEOREM StreamStartedHasPage == Spec => []StartedHasPage
<1>1. StreamInv => StartedHasPage
  BY DEF StreamInv, Clicks, StartedHasPage
<1>. QED  BY <1>1, StreamInvariant, PTL

-----------------------------------------------------------------------------
\* The map on the screen is the running session's.
THEOREM StreamShownIsOwn == Spec => []ShownIsOwn
<1>1. Init => ShownIsOwn
  BY DEF Init, ShownIsOwn
<1>2. StreamInv /\ ShownIsOwn /\ [Next]_vars => ShownIsOwn'
  <2> SUFFICES ASSUME StreamInv, ShownIsOwn, [Next]_vars PROVE ShownIsOwn'
    OBVIOUS
  <2>1. CASE Answer /\ request # "error"
    <3>1. token' = NoToken => latest' = NoFrame
      BY <2>1 DEF Answer, Rerun
    <3>2. CASE request = "started"
      <4>1. token = NoToken /\ NoToken \notin Sessions
        BY <3>2 DEF StreamInv, Clicks, Sessions, NoToken
      <4>2. latest = NoFrame
        <5>1. latest # NoFrame => latest[1] \in FrameType
          BY Bounds, EmptySeq, ElementOfSeq DEF StreamInv, NoFrame
        <5>. QED  BY <4>1, <5>1 DEF ShownIsOwn, FrameType
      <4>3. latest' = latest \/ latest' = NoFrame
        BY <2>1 DEF Answer, Rerun
      <4>. QED  BY <4>2, <4>3 DEF ShownIsOwn
    <3>3. CASE request = "stopped"
      BY <2>1, <3>1, <3>3 DEF Answer, Rerun, ShownIsOwn
    <3>. QED  BY <2>1, <3>2, <3>3 DEF Answer
  <2>2. ASSUME NEW s \in Sessions, OnMessage(s) PROVE ShownIsOwn'
    <3>1. CASE socket[s] = "open"
      <4>1. s = token /\ token' = token
        BY <2>2, <3>1 DEF OnMessage, StreamInv, Sockets, Live
      <4>2. wire[s] \in Seq(OwnFrames(s)) /\ wire[s] # << >>
        BY <2>2 DEF OnMessage, StreamInv, Frames
      <4>3. Head(wire[s]).session = s
        BY <4>2, HeadTailProperties DEF OwnFrames
      <4>4. latest' = << Head(wire[s]) >>
        BY <2>2, <3>1 DEF OnMessage
      <4>. QED  BY <4>1, <4>3, <4>4 DEF ShownIsOwn
    <3>2. CASE socket[s] # "open"
      BY <2>2, <3>2 DEF OnMessage, ShownIsOwn
    <3>. QED  BY <3>1, <3>2
  <2>3. CASE UNCHANGED <<latest, token>>
    BY <2>3 DEF ShownIsOwn
  <2>4. ClickStart \/ ClickStop \/ ServeStart \/ ServeStop \/ UNCHANGED vars
          \/ (Answer /\ request = "error") => UNCHANGED <<latest, token>>
    BY DEF ClickStart, ClickStop, ServeStart, ServeStop, Answer, vars, page
  <2>5. ASSUME NEW s \in Sessions,
               OnOpen(s) \/ OnClose(s) \/ Accept(s) \/ Tick(s) \/ SessionExpires(s)
        PROVE  UNCHANGED <<latest, token>>
    BY <2>5 DEF OnOpen, OnClose, Accept, Tick, SessionExpires, page
  <2>6. ASSUME NEW k \in Sessions \cup {Base}, PutMap(k) \/ MapExpires(k)
        PROVE  UNCHANGED <<latest, token>>
    BY <2>6 DEF PutMap, MapExpires, page
  <2>. QED  BY <2>1, <2>2, <2>3, <2>4, <2>5, <2>6 DEF Next, Toggle
<1>. QED  BY <1>1, <1>2, StreamInvariant, PTL DEF Spec

\* A stream without its session's interval is one of a stopped session.
THEOREM StreamPacedBySession == Spec => []PacedBySession
<1>1. Init => PacedBySession
  BY DEF Init, PacedBySession
<1>2. StreamInv /\ PacedBySession /\ [Next]_vars => PacedBySession'
  <2> SUFFICES ASSUME StreamInv, PacedBySession, [Next]_vars PROVE PacedBySession'
    OBVIOUS
  <2>1. CASE UNCHANGED pace /\ stopped \subseteq stopped'
    BY <2>1 DEF PacedBySession
  <2>2. ASSUME NEW s \in Sessions, Accept(s) PROVE PacedBySession'
    <3>1. s \in active \/ s \in stopped
      BY <2>2 DEF Accept, StreamInv, Sockets
    <3>2. stopped' = stopped
      BY <2>2 DEF Accept
    <3>3. \A r \in Sessions : pace'[r] = "default" =>
                               pace[r] = "default" \/ (r = s /\ s \notin active)
      BY <2>2 DEF Accept, StreamInv, TypeOK
    <3>. QED  BY <3>1, <3>2, <3>3 DEF PacedBySession
  <2>3. Toggle \/ UNCHANGED vars => UNCHANGED pace /\ stopped \subseteq stopped'
    BY DEF Toggle, ClickStart, ClickStop, ServeStart, ServeStop, Answer, vars, hub
  <2>4. ASSUME NEW s \in Sessions,
               OnOpen(s) \/ OnMessage(s) \/ OnClose(s) \/ Tick(s) \/ SessionExpires(s)
        PROVE  UNCHANGED <<pace, stopped>>
    BY <2>4 DEF OnOpen, OnMessage, OnClose, Tick, SessionExpires, hub
  <2>5. ASSUME NEW k \in Sessions \cup {Base}, PutMap(k) \/ MapExpires(k)
        PROVE  UNCHANGED <<pace, stopped>>
    BY <2>5 DEF PutMap, MapExpires, hub
  <2>. QED  BY <2>1, <2>2, <2>3, <2>4, <2>5 DEF Next
<1>. QED  BY <1>1, <1>2, StreamInvariant, PTL DEF Spec

\* "Live" is shown over the open connection of the running session.
THEOREM StreamLiveMeansConnected == Spec => []LiveMeansConnected
<1>1. Init => LiveMeansConnected
  BY DEF Init, LiveMeansConnected
<1>2. StreamInv /\ LiveMeansConnected /\ [Next]_vars => LiveMeansConnected'
  <2> SUFFICES ASSUME StreamInv, LiveMeansConnected, [Next]_vars
               PROVE  LiveMeansConnected'
    OBVIOUS
  <2>1. CASE Answer /\ request # "error"
    BY <2>1 DEF Answer, Rerun, LiveMeansConnected
  <2>2. ASSUME NEW s \in Sessions, OnOpen(s) PROVE LiveMeansConnected'
    <3>1. s = token /\ token' = token
      BY <2>2 DEF OnOpen, StreamInv, Sockets, Live
    <3>2. token # NoToken
      BY <3>1 DEF Sessions, NoToken
    <3>3. socket'[s] = "open"
      BY <2>2 DEF OnOpen, StreamInv, TypeOK
    <3>. QED  BY <3>1, <3>2, <3>3 DEF LiveMeansConnected
  <2>3. ASSUME NEW s \in Sessions, OnClose(s) PROVE LiveMeansConnected'
    BY <2>3 DEF OnClose, LiveMeansConnected
  <2>4. CASE UNCHANGED <<status, token, socket>>
    BY <2>4 DEF LiveMeansConnected
  <2>5. ClickStart \/ ClickStop \/ ServeStart \/ ServeStop \/ UNCHANGED vars
          \/ (Answer /\ request = "error") => UNCHANGED <<status, token, socket>>
    BY DEF ClickStart, ClickStop, ServeStart, ServeStop, Answer, vars, page
  <2>6. ASSUME NEW s \in Sessions,
               OnMessage(s) \/ Accept(s) \/ Tick(s) \/ SessionExpires(s)
        PROVE  UNCHANGED <<status, token, socket>>
    BY <2>6 DEF OnMessage, Accept, Tick, SessionExpires, page
  <2>7. ASSUME NEW k \in Sessions \cup {Base}, PutMap(k) \/ MapExpires(k)
        PROVE  UNCHANGED <<status, token, socket>>
    BY <2>7 DEF PutMap, MapExpires, page
  <2>. QED  BY <2>1, <2>2, <2>3, <2>4, <2>5, <2>6, <2>7 DEF Next, Toggle
<1>. QED  BY <1>1, <1>2, StreamInvariant, PTL DEF Spec

\* The hub ends a stream only when a write fails.
THEOREM StreamKeepsReading == Spec => ReadFailureKeepsStream
<1> DEFINE Keeps == \A s \in Sessions : stream[s] = "open" /\ stream'[s] = "ended" =>
                     ~Live(s) \/ Len(wire[s]) = WireSize
<1>1. StreamInv /\ [Next]_vars => [Keeps]_vars
  <2> SUFFICES ASSUME StreamInv, Next PROVE Keeps
    OBVIOUS
  <2>1. CASE UNCHANGED stream
    BY <2>1
  <2>2. ASSUME NEW s \in Sessions, Tick(s) PROVE Keeps
    BY <2>2 DEF Tick, Send, ReadFails, FindsNothing, StreamInv, TypeOK
  <2>3. ASSUME NEW s \in Sessions, Accept(s) PROVE Keeps
    BY <2>3 DEF Accept, StreamInv, TypeOK
  <2>4. Toggle => UNCHANGED stream
    BY DEF Toggle, ClickStart, ClickStop, ServeStart, ServeStop, Answer, hub
  <2>5. ASSUME NEW s \in Sessions,
               OnOpen(s) \/ OnMessage(s) \/ OnClose(s) \/ SessionExpires(s)
        PROVE  UNCHANGED stream
    BY <2>5 DEF OnOpen, OnMessage, OnClose, SessionExpires, hub
  <2>6. ASSUME NEW k \in Sessions \cup {Base}, PutMap(k) \/ MapExpires(k)
        PROVE  UNCHANGED stream
    BY <2>6 DEF PutMap, MapExpires, hub
  <2>. QED  BY <2>1, <2>2, <2>3, <2>4, <2>5, <2>6 DEF Next
<1>. QED  BY <1>1, StreamInvariant, PTL DEF Spec, ReadFailureKeepsStream
=============================================================================
