-------------------------- MODULE PredictionStream --------------------------
(***************************************************************************)
(* How a page gets the heatmaps of its session: the start/stop toggle of   *)
(* the front (App.tsx), its hook usePredictionStream with one WebSocket    *)
(* for each token, and the hub of the BFF (ws/predictions.go) with one     *)
(* goroutine for each connection, which polls Redis and sends what it      *)
(* finds.  The page draws a new token for every start, so a session, its   *)
(* token and its socket are one number here.                               *)
(*                                                                         *)
(* A heatmap is its version.  The other services are taken from            *)
(* src/ as what they do to the keys: a heatmap is written for a session or *)
(* under the base key, and every key expires.  A browser hands no message  *)
(* to a socket on which close() was called, and tells it later, or when    *)
(* the server closes, that it is closed.  The page with ?token=... in its  *)
(* address, which has no button, is left out.                              *)
(***************************************************************************)
EXTENDS Naturals, Sequences

CONSTANTS MaxSessions,  \* bound: sessions the page starts
          MaxMaps,      \* bound: versions of a heatmap
          WireSize      \* frames under way before a write blocks

ASSUME StreamAssumption == MaxSessions \in Nat /\ MaxMaps \in Nat /\ WireSize \in Nat

Sessions == 1..MaxSessions
Base == 0        \* the base key heat_map, read when a session has no heatmap
NoToken == 0
NoFrame == << >>
Frame(s, k, n) == << [session |-> s, key |-> k, version |-> n] >>

VARIABLES
  active,   \* sessions whose key is in Redis, with their config
  map,      \* heatmaps: the last version written under each key
  stored,   \* keys whose heatmap is in Redis
  drawn,    \* tokens generated so far
  token,    \* App: the token, NoToken when no session runs
  request,  \* App: "none", or how far the click that makes it busy has got
  status,   \* usePredictionStream: status
  latest,   \* usePredictionStream: latest
  socket,   \* readyState of each session's WebSocket
  stream,   \* the hub's goroutine: "none", "open" or "ended"
  pace,     \* where the hub took the stream's interval from
  wire,     \* frames under way to the page
  failed,   \* history: sessions whose start was answered by an error
  stopped   \* history: sessions a stop request was served for

redis == <<active, map, stored>>
page == <<drawn, token, request, status, latest>>
hub == <<stream, pace>>
vars == <<redis, page, socket, hub, wire, failed, stopped>>

Init ==
  /\ active = {} /\ map = [k \in Sessions \cup {Base} |-> 0] /\ stored = {}
  /\ drawn = 0 /\ token = NoToken /\ request = "none"
  /\ status = "idle" /\ latest = NoFrame
  /\ socket = [s \in Sessions |-> "none"] /\ stream = [s \in Sessions |-> "none"]
  /\ pace = [s \in Sessions |-> "unread"] /\ wire = [s \in Sessions |-> << >>]
  /\ failed = {} /\ stopped = {}

Live(s) == socket[s] \in {"connecting", "open"}

-----------------------------------------------------------------------------
(* The page.                                                               *)

\* Mutant of Rerun: the effect has no cleanup function.
RerunOnly(t) ==
  /\ token' = t
  /\ socket' = [s \in Sessions |-> IF s = t THEN "connecting" ELSE socket[s]]
  /\ status' = IF t = NoToken THEN "idle" ELSE "connecting"
  /\ latest' = IF t = NoToken THEN NoFrame ELSE latest

\* Mutant of Rerun: without a token the effect returns at once.
RerunOrReturn(t) ==
  /\ token' = t
  /\ socket' = [s \in Sessions |-> IF s = t THEN "connecting"
                                   ELSE IF Live(s) THEN "closing" ELSE socket[s]]
  /\ status' = IF t = NoToken THEN status ELSE "connecting"
  /\ latest' = IF t = NoToken THEN NoFrame ELSE latest

\* setToken(t): the cleanup of the last effect closes its socket, the new one
\* resets what is shown or opens a socket of its own.
Rerun(t) ==
  /\ token' = t
  /\ socket' = [s \in Sessions |-> IF s = t THEN "connecting"
                                   ELSE IF Live(s) THEN "closing" ELSE socket[s]]
  /\ status' = IF t = NoToken THEN "idle" ELSE "connecting"
  /\ latest' = IF t = NoToken THEN NoFrame ELSE latest

\* Mutant of TakesStart: every click starts a session.
TakesAnyClick == request = "none" /\ drawn < MaxSessions

\* The button is disabled while a request is under way, and a running page
\* stops its session.
TakesStart == request = "none" /\ token = NoToken /\ drawn < MaxSessions

\* Mutant of ClickStart: the token is set before startSession is awaited.
ClickStartEarly ==
  /\ TakesStart /\ drawn' = drawn + 1 /\ request' = "start" /\ Rerun(drawn')
  /\ UNCHANGED <<redis, hub, wire, failed, stopped>>

ClickStart ==
  /\ TakesStart /\ drawn' = drawn + 1 /\ request' = "start"
  /\ UNCHANGED <<redis, token, status, latest, socket, hub, wire, failed, stopped>>

\* Mutant of ClickStop: the token is forgotten before stopSession is awaited.
ClickStopEarly ==
  /\ request = "none" /\ token # NoToken /\ request' = "stop" /\ Rerun(NoToken)
  /\ UNCHANGED <<redis, drawn, hub, wire, failed, stopped>>

ClickStop ==
  /\ request = "none" /\ token # NoToken
  /\ request' = "stop"
  /\ UNCHANGED <<redis, drawn, token, status, latest, socket, hub, wire, failed, stopped>>

\* The BFF serves the request: it answers "ok", or an error after any part of it.
ServeStart ==
  /\ request = "start"
  /\ \/ /\ active' = active \cup {drawn} /\ request' = "started" /\ UNCHANGED failed
     \/ /\ active' \in {active, active \cup {drawn}} /\ request' = "error"
        /\ failed' = failed \cup {drawn}
  /\ UNCHANGED <<map, stored, drawn, token, status, latest, socket, hub, wire, stopped>>

ServeStop ==
  /\ request = "stop"
  /\ \/ /\ active' = active \ {drawn} /\ stored' = stored \ {drawn} /\ request' = "stopped"
     \/ /\ active' \in {active, active \ {drawn}} /\ stored' \in {stored, stored \ {drawn}}
        /\ request' = "error"
  /\ stopped' = stopped \cup {drawn}
  /\ UNCHANGED <<map, drawn, token, status, latest, socket, hub, wire, failed>>

\* The answer arrives; an error is shown and changes nothing else.
Answer ==
  /\ \/ request = "started" /\ Rerun(drawn)
     \/ request = "stopped" /\ Rerun(NoToken)
     \/ request = "error" /\ UNCHANGED <<token, status, latest, socket>>
  /\ request' = "none"
  /\ UNCHANGED <<redis, drawn, hub, wire, failed, stopped>>

Toggle == ClickStart \/ ClickStop \/ ServeStart \/ ServeStop \/ Answer

-----------------------------------------------------------------------------
(* The events of the sockets.                                              *)

OnOpen(s) ==
  /\ socket[s] = "connecting" /\ stream[s] = "open"
  /\ socket' = [socket EXCEPT ![s] = "open"] /\ status' = "open"
  /\ UNCHANGED <<redis, drawn, token, request, latest, hub, wire, failed, stopped>>

OnMessage(s) ==
  /\ wire[s] # << >>
  /\ wire' = [wire EXCEPT ![s] = Tail(@)]
  /\ latest' = IF socket[s] = "open" THEN << Head(wire[s]) >> ELSE latest
  /\ socket[s] # "connecting"
  /\ UNCHANGED <<redis, drawn, token, request, status, socket, hub, failed, stopped>>

\* A lost connection, a server that refused or ended it, or the end of the
\* closing handshake: onclose, after onerror when it failed.
OnClose(s) ==
  /\ socket[s] \in {"connecting", "open", "closing"}
  /\ socket' = [socket EXCEPT ![s] = "closed"]
  /\ status' \in {"error", IF status = "error" THEN "error" ELSE "closed"}
  /\ UNCHANGED <<redis, drawn, token, request, latest, hub, wire, failed, stopped>>

-----------------------------------------------------------------------------
(* The hub.                                                                *)

\* The interval is read once, before the connection is accepted: from the
\* session, or the default when there is none or the read fails.
Accept(s) ==
  /\ socket[s] \in {"connecting", "closing"} /\ stream[s] = "none"
  /\ stream' = [stream EXCEPT ![s] = "open"]
  /\ \E from \in {"failed read", IF s \in active THEN "config" ELSE "default"} :
       pace' = [pace EXCEPT ![s] = from]
  /\ UNCHANGED <<redis, page, socket, wire, failed, stopped>>

\* What a tick finds: the session's heatmap, or the one under the base key.
Found(s) == IF s \in stored THEN Frame(s, s, map[s])
            ELSE IF Base \in stored THEN Frame(s, Base, map[Base]) ELSE NoFrame

\* c.Write reaches a page that is there and takes frames.  One that is gone
\* may be noticed by it, one that takes no frames ends the write after 2s.
Send(s) ==
  /\ Found(s) # NoFrame
  /\ \/ /\ Live(s) /\ Len(wire[s]) < WireSize
        /\ wire' = [wire EXCEPT ![s] = @ \o Found(s)] /\ UNCHANGED stream
     \/ /\ ~Live(s) \/ Len(wire[s]) = WireSize
        /\ stream' = [stream EXCEPT ![s] = "ended"] /\ UNCHANGED wire

\* Mutant of ReadFails: sendOnce returns the error of the read.
ReadFailsForGood(s) ==
  /\ stream' = [stream EXCEPT ![s] = "ended"] /\ UNCHANGED wire

\* A read that fails, one that finds nothing and a write to a page that is
\* gone but not noticed yet leave the stream as it is.
ReadFails(s) == UNCHANGED <<stream, wire>>
FindsNothing(s) == Found(s) = NoFrame /\ UNCHANGED <<stream, wire>>

Tick(s) ==
  /\ stream[s] = "open"
  /\ Send(s) \/ ReadFails(s) \/ FindsNothing(s)
  /\ UNCHANGED <<redis, page, socket, pace, failed, stopped>>

-----------------------------------------------------------------------------
(* The other services, and time.                                           *)

PutMap(k) ==
  /\ map[k] < MaxMaps /\ k <= drawn
  /\ map' = [map EXCEPT ![k] = @ + 1] /\ stored' = stored \cup {k}
  /\ UNCHANGED <<active, page, socket, hub, wire, failed, stopped>>

\* A heatmap lives for a minute, a session for an hour: longer than the page
\* takes to connect.
MapExpires(k) ==
  /\ k \in stored /\ stored' = stored \ {k}
  /\ UNCHANGED <<active, map, page, socket, hub, wire, failed, stopped>>

SessionExpires(s) ==
  /\ s \in active /\ stream[s] # "none" /\ active' = active \ {s}
  /\ UNCHANGED <<map, stored, page, socket, hub, wire, failed, stopped>>

Next ==
  \/ Toggle
  \/ \E s \in Sessions : OnOpen(s) \/ OnMessage(s) \/ OnClose(s)
  \/ \E s \in Sessions : Accept(s) \/ Tick(s) \/ SessionExpires(s)
  \/ \E k \in Sessions \cup {Base} : PutMap(k) \/ MapExpires(k)

Spec == Init /\ [][Next]_vars

\* The ticker of a stream goes on, and reads do not fail for ever: a write
\* that can be made is made.  The browser ends a closing handshake.
Fairness ==
  \A s \in Sessions :
    /\ WF_vars(Tick(s)) /\ SF_vars(stream[s] = "open" /\ Send(s) /\ Tick(s))
    /\ WF_vars(socket[s] = "closing" /\ OnClose(s)) /\ WF_vars(OnMessage(s))

FairSpec == Spec /\ Fairness

-----------------------------------------------------------------------------
FrameType == [session : Sessions, key : Sessions \cup {Base}, version : 1..MaxMaps]

\* The types of the page, the sockets, the streams and the keys.
TypeOK ==
  /\ active \subseteq Sessions /\ stored \subseteq Sessions \cup {Base}
  /\ map \in [Sessions \cup {Base} -> 0..MaxMaps]
  /\ drawn \in 0..MaxSessions /\ token \in {NoToken, drawn}
  /\ request \in {"none", "start", "stop", "started", "stopped", "error"}
  /\ status \in {"idle", "connecting", "open", "closed", "error"}
  /\ latest \in Seq(FrameType) /\ Len(latest) <= 1
  /\ socket \in [Sessions -> {"none", "connecting", "open", "closing", "closed"}]
  /\ stream \in [Sessions -> {"none", "open", "ended"}]
  /\ pace \in [Sessions -> {"unread", "config", "default", "failed read"}]
  /\ wire \in [Sessions -> Seq(FrameType)] /\ \A s \in Sessions : Len(wire[s]) <= WireSize
  /\ failed \subseteq Sessions /\ stopped \subseteq Sessions

\* The map on the screen was sent for the session that runs: no frame of a
\* stopped session is left over or comes in late (usePredictionStream.ts).
ShownIsOwn == latest # NoFrame => latest[1].session = token

\* "Live" (MapPanel.tsx) is shown over an open connection of the running
\* session: status is a single variable that the events of every socket set.
LiveMeansConnected == status = "open" => token # NoToken /\ socket[token] = "open"

\* A stream runs at the interval its session was started with: /api/start has
\* put it in Redis before the hub looks for it (App.tsx:39-40,
\* predictions.go:73), unless that read failed or the session was stopped.
PacedBySession == \A s \in Sessions : pace[s] = "default" => s \in stopped

\* Between two clicks, a session that is active and not the page's is one whose
\* start was answered by an error: a stop that fails does not lose the token.
StartedHasPage ==
  request = "none" => active \subseteq failed \cup {token}

\* The hub gives up a stream only over a page that is gone or takes no frames:
\* failing reads leave it open (predictions.go:123-125).
ReadFailureKeepsStream ==
  [][\A s \in Sessions : stream[s] = "open" /\ stream'[s] = "ended" =>
       ~Live(s) \/ Len(wire[s]) = WireSize]_vars

\* The stream of a page that has gone ends ("client gone", predictions.go:97).
GoneClientIsNoticed ==
  \A s \in Sessions : (socket[s] = "closed" /\ stream[s] = "open") ~> stream[s] = "ended"
=============================================================================
