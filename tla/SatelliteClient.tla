--------------------------- MODULE SatelliteClient ---------------------------
(***************************************************************************)
(* The browser's side of edge execution: DysonSatellite                    *)
(* (satellite/src/satellite.ts) with its guardrails and its WebSockets.    *)
(* One event loop runs every callback to its next await, so an action is   *)
(* what happens between two awaits: the application calls connect or       *)
(* disconnect, the session request settles, a socket opens, delivers a     *)
(* proposal or closes, a reconnect loop's sleep ends, a tool or its        *)
(* timeout settles.  The application, the network, the tools and the       *)
(* Sphere are external.                                                    *)
(***************************************************************************)
EXTENDS SequenceHelpers

CONSTANTS
  MaxReconnectAttempts,  (* maxReconnectAttempts, 5 by default             *)
  RateLimitPerTool,      (* rateLimitPerTool, 100 by default               *)
  RateLimitWindow,       (* rateLimitWindowMs                              *)
  MaxConnects,           (* bound on the calls of connect                  *)
  MaxSockets,            (* bound on the sockets ever created              *)
  MaxProposals,          (* bound on the proposals ever received           *)
  MaxTime                (* bound on the clock                             *)

ASSUME ClientAssumption ==
  /\ {MaxReconnectAttempts, RateLimitPerTool, RateLimitWindow} \subseteq Nat
  /\ {MaxConnects, MaxSockets, MaxProposals, MaxTime} \subseteq Nat

VARIABLES
  closed,     (* this.closed                                               *)
  attempt,    (* this.reconnectAttempt                                     *)
  transport,  (* this.transport: a socket, or NoSocket for null            *)
  stamps,     (* timestamps of the guardrails' bucket of the tool          *)
  fetching,   (* calls of connect whose fetchSession is pending            *)
  sleeping,   (* runs of attemptReconnect that are in their sleep          *)
  sockets,    (* the sockets created, by creation                          *)
  jobs,       (* the proposals received and what became of them            *)
  now,        (* Date.now()                                                *)
  connects,   (* history: calls of connect so far                          *)
  invoked,    (* history: when these guardrails let the tool run           *)
  failures,   (* history: reconnections in a row that never opened         *)
  gaveUp,     (* history: "Failed to reconnect" was reported               *)
  threw       (* history: a call of connect threw                          *)

clientVars == <<closed, attempt, transport, fetching, sleeping, gaveUp>>
toolVars   == <<stamps, jobs, invoked>>
history    == <<connects, failures, threw>>
vars == <<clientVars, toolVars, sockets, now, history>>

NoSocket == 0
Created  == DOMAIN sockets
Alive(i) == sockets[i].state \in {"connecting", "open"}

Init ==
  /\ closed    = FALSE
  /\ attempt   = 0
  /\ transport = NoSocket
  /\ stamps    = <<>>
  /\ fetching  = 0
  /\ sleeping  = 0
  /\ sockets   = <<>>
  /\ jobs      = <<>>
  /\ now       = 0
  /\ connects  = 0
  /\ invoked   = <<>>
  /\ failures  = 0
  /\ gaveUp    = FALSE
  /\ threw     = FALSE

(* Time passes.                                                            *)
Tick ==
  /\ now < MaxTime
  /\ now' = now + 1
  /\ UNCHANGED <<clientVars, toolVars, sockets, history>>

-----------------------------------------------------------------------------
OpenTransport_KeepsOld(by) ==
  /\ Len(sockets) < MaxSockets
  /\ sockets'   = Append(sockets, [state |-> "connecting", by |-> by, ours |-> FALSE])
  /\ transport' = IF by = "loop" /\ transport # NoSocket THEN transport ELSE Len(sockets) + 1

(* openTransport: a new socket becomes the transport; the previous one is  *)
(* neither closed nor deafened.                                            *)
OpenTransport(by) ==
  /\ Len(sockets) < MaxSockets
  /\ sockets'   = Append(sockets, [state |-> "connecting", by |-> by, ours |-> FALSE])
  /\ transport' = Len(sockets) + 1

(* connect, up to the await of the session request.                        *)
Connect ==
  /\ connects < MaxConnects
  /\ connects' = connects + 1
  /\ closed'   = FALSE
  /\ attempt'  = 0
  /\ fetching' = fetching + 1
  /\ UNCHANGED <<transport, sleeping, gaveUp, toolVars, sockets, now, failures, threw>>

(* fetchSession rejects: connect throws.                                   *)
FetchFails ==
  /\ fetching > 0
  /\ fetching' = fetching - 1
  /\ threw'    = TRUE
  /\ UNCHANGED <<closed, attempt, transport, sleeping, gaveUp, toolVars, sockets, now,
                 connects, failures>>

(* fetchSession resolves: new guardrails, and a socket unless the factory  *)
(* throws.  closed is not looked at again.                                 *)
FetchSucceeds ==
  /\ fetching > 0
  /\ fetching' = fetching - 1
  /\ stamps'   = <<>>
  /\ invoked'  = <<>>
  /\ \/ OpenTransport("connect") /\ UNCHANGED threw
     \/ threw' = TRUE /\ UNCHANGED <<sockets, transport>>
  /\ UNCHANGED <<closed, attempt, sleeping, gaveUp, jobs, now, connects, failures>>

(* disconnect                                                              *)
Disconnect ==
  /\ closed'    = TRUE
  /\ transport' = NoSocket
  /\ sockets'   = [i \in Created |->
                     IF i = transport /\ Alive(i)
                     THEN [sockets[i] EXCEPT !.state = "closing", !.ours = TRUE]
                     ELSE sockets[i]]
  /\ UNCHANGED <<attempt, fetching, sleeping, gaveUp, toolVars, now, history>>

-----------------------------------------------------------------------------
TryAgain_OneMore(others) ==
  \/ /\ attempt <= MaxReconnectAttempts
     /\ attempt'  = attempt + 1
     /\ sleeping' = others + 1
     /\ UNCHANGED gaveUp
  \/ /\ attempt > MaxReconnectAttempts
     /\ gaveUp'   = TRUE
     /\ sleeping' = others
     /\ UNCHANGED attempt

(* The head of the loop of attemptReconnect, while others sleep: another   *)
(* attempt and a sleep, or the end.                                        *)
TryAgain(others) ==
  \/ /\ attempt < MaxReconnectAttempts
     /\ attempt'  = attempt + 1
     /\ sleeping' = others + 1
     /\ UNCHANGED gaveUp
  \/ /\ attempt >= MaxReconnectAttempts
     /\ gaveUp'   = TRUE
     /\ sleeping' = others
     /\ UNCHANGED attempt

(* External: the handshake of a socket succeeds.                           *)
SocketOpens(i) ==
  /\ sockets[i].state = "connecting"
  /\ sockets'  = [sockets EXCEPT ![i].state = "open"]
  /\ failures' = 0
  /\ UNCHANGED <<clientVars, toolVars, now, connects, threw>>

(* A reconnection is over and never opened.                                *)
CountFailure(i) ==
  failures' = failures + IF sockets[i].by = "loop" /\ sockets[i].state = "connecting"
                         THEN 1 ELSE 0

SocketCloses_IfOpen(i) ==
  /\ sockets[i].state # "closed"
  /\ sockets' = [sockets EXCEPT ![i].state = "closed"]
  /\ CountFailure(i)
  /\ \/ ~closed /\ sockets[i].state = "open" /\ TryAgain(sleeping)
     \/ ~(~closed /\ sockets[i].state = "open") /\ UNCHANGED <<attempt, gaveUp, sleeping>>
  /\ UNCHANGED <<closed, transport, fetching, toolVars, now, connects, threw>>

(* The close event of a socket, whoever closed it and whichever socket is  *)
(* the transport: unless the client is closed, a run of attemptReconnect   *)
(* starts and gets to its first sleep.                                     *)
SocketCloses(i) ==
  /\ sockets[i].state # "closed"
  /\ sockets' = [sockets EXCEPT ![i].state = "closed"]
  /\ CountFailure(i)
  /\ \/ ~closed /\ TryAgain(sleeping)
     \/ closed /\ UNCHANGED <<attempt, gaveUp, sleeping>>
  /\ UNCHANGED <<closed, transport, fetching, toolVars, now, connects, threw>>

Wake_Anyway ==
  /\ sleeping > 0
  /\ \/ /\ OpenTransport("loop")
        /\ attempt'  = 0
        /\ sleeping' = sleeping - 1
        /\ UNCHANGED gaveUp
     \/ TryAgain(sleeping - 1) /\ UNCHANGED <<sockets, transport>>
  /\ UNCHANGED <<closed, fetching, toolVars, now, history>>

(* A sleep of attemptReconnect ends.  Unless the client is closed a socket *)
(* is created, and the attempts count from zero again before it is known   *)
(* to open; or the factory throws, and the loop goes on.                   *)
Wake ==
  /\ sleeping > 0
  /\ \/ /\ closed
        /\ sleeping' = sleeping - 1
        /\ UNCHANGED <<attempt, gaveUp, sockets, transport>>
     \/ /\ ~closed
        /\ OpenTransport("loop")
        /\ attempt'  = 0
        /\ sleeping' = sleeping - 1
        /\ UNCHANGED gaveUp
     \/ ~closed /\ TryAgain(sleeping - 1) /\ UNCHANGED <<sockets, transport>>
  /\ UNCHANGED <<closed, fetching, toolVars, now, history>>

-----------------------------------------------------------------------------
(* SatelliteGuardrails.preValidate: the timestamps of the window.          *)
Fresh_TickLess(t) == t + RateLimitWindow > now + 1
Fresh(t) == t + RateLimitWindow > now
Window   == Select(stamps, {t \in 0 .. now : Fresh(t)})
Limited  == Len(Window) >= RateLimitPerTool

(* sendResponse: what becomes of an answer sent now.                       *)
Sent == IF transport # NoSocket /\ sockets[transport].state = "open"
        THEN "answered" ELSE "lost"

(* A proposal for an unknown tool, or one that the rate limit rejects, is  *)
(* answered at once; so is one whose input does not validate, but it is    *)
(* charged to the window.                                                  *)
ReceiveUnknown(i) ==
  /\ sockets[i].state = "open"
  /\ Len(jobs) < MaxProposals
  /\ jobs' = Append(jobs, Sent)
  /\ UNCHANGED <<clientVars, stamps, invoked, sockets, now, history>>

ReceiveLimited(i) ==
  /\ sockets[i].state = "open"
  /\ Len(jobs) < MaxProposals
  /\ Limited
  /\ stamps' = Window
  /\ jobs'   = Append(jobs, Sent)
  /\ UNCHANGED <<clientVars, invoked, sockets, now, history>>

(* Otherwise the tool is started.                                          *)
Receive(i) ==
  /\ sockets[i].state = "open"
  /\ Len(jobs) < MaxProposals
  /\ ~Limited
  /\ stamps' = Append(Window, now)
  /\ \/ jobs' = Append(jobs, Sent) /\ UNCHANGED invoked
     \/ /\ jobs' = Append(jobs, "running")
        /\ invoked' = Append(invoked, now)
  /\ UNCHANGED <<clientVars, sockets, now, history>>

(* The tool resolves or rejects within its timeout.  A result that         *)
(* JSON.stringify cannot serialise makes handleToolProposal reject, and    *)
(* nothing is answered.                                                    *)
ToolSettles(j) ==
  /\ jobs[j] = "running"
  /\ \E outcome \in {Sent, "unserialisable"} : jobs' = [jobs EXCEPT ![j] = outcome]
  /\ UNCHANGED <<clientVars, stamps, invoked, sockets, now, history>>

ToolTimesOut_Never(j) == FALSE

(* The timer of executeWithTimeout fires first; a late result is dropped.  *)
ToolTimesOut(j) ==
  /\ jobs[j] = "running"
  /\ jobs' = [jobs EXCEPT ![j] = Sent]
  /\ UNCHANGED <<clientVars, stamps, invoked, sockets, now, history>>

Next ==
  \/ Tick
  \/ Connect \/ FetchFails \/ FetchSucceeds \/ Disconnect
  \/ Wake
  \/ \E i \in Created : SocketOpens(i) \/ SocketCloses(i)
                        \/ ReceiveUnknown(i) \/ ReceiveLimited(i) \/ Receive(i)
  \/ \E j \in DOMAIN jobs : ToolSettles(j) \/ ToolTimesOut(j)

Spec == Init /\ [][Next]_vars

(* Timers fire.  Nothing is assumed of the network, the tools or the       *)
(* application.                                                            *)
FairSpec ==
  /\ Spec
  /\ WF_vars(Wake)
  /\ \A j \in 1 .. MaxProposals : WF_vars(j \in DOMAIN jobs /\ ToolTimesOut(j))

-----------------------------------------------------------------------------
(* The transport is null or a socket that was created, and the attempts    *)
(* counted never exceed the maximum, however many loops count them.        *)
TypeOK ==
  /\ closed \in BOOLEAN /\ gaveUp \in BOOLEAN /\ threw \in BOOLEAN
  /\ attempt \in 0 .. MaxReconnectAttempts
  /\ transport \in Created \cup {NoSocket}
  /\ fetching \in 0 .. connects
  /\ connects \in 0 .. MaxConnects
  /\ sleeping \in Nat
  /\ sockets \in Seq([state : {"connecting", "open", "closing", "closed"},
                      by : {"connect", "loop"}, ours : BOOLEAN])
  /\ Len(sockets) <= MaxSockets
  /\ jobs \in Seq({"running", "answered", "lost", "unserialisable"})
  /\ Len(jobs) <= MaxProposals
  /\ now \in 0 .. MaxTime
  /\ stamps \in Seq(0 .. now)
  /\ invoked \in Seq(0 .. now)
  /\ failures \in Nat

(* In no window of the configured length do the guardrails let a tool run  *)
(* more often than the limit (preValidate), whatever sockets and           *)
(* reconnections the proposals come over.                                  *)
InvocationRate ==
  \A t \in 0 .. now :
    Count(invoked, {s \in 0 .. t : t < s + RateLimitWindow}) <= RateLimitPerTool

(* While the client is closed and no connect is pending, no reconnect loop *)
(* left over from before opens a socket (the test after the sleep).        *)
ClosedStaysQuiet ==
  [][closed /\ closed' /\ fetching = 0 => Len(sockets') = Len(sockets)]_vars

(* Losing the transport is always noticed: in the end the client has a     *)
(* socket that is not closed again, or has told the application that it    *)
(* gave up (onError) or could not connect (connect threw), is connecting,  *)
(* or is closed.                                                           *)
Recovers ==
  (transport # NoSocket /\ sockets[transport].state = "closed")
    ~> \/ closed \/ gaveUp \/ threw \/ fetching > 0
       \/ transport # NoSocket /\ sockets[transport].state # "closed"

(* A tool that hangs does not leave its proposal unanswered: if the socket *)
(* opened last stays open, the answer goes out over that one, although the *)
(* proposal may have come over a socket that has closed since, and however *)
(* many reconnections and calls of connect lie between.  The one exception *)
(* is a result that cannot be serialised (handleToolProposal,              *)
(* executeWithTimeout, sendResponse).                                      *)
NewestOpen == sockets # <<>> /\ sockets[Len(sockets)].state = "open"

ProposalsAreAnswered ==
  \A j \in 1 .. MaxProposals :
    (j \in DOMAIN jobs /\ jobs[j] = "running")
      ~> ((j \in DOMAIN jobs /\ jobs[j] \in {"answered", "unserialisable"}) \/ ~NewestOpen)

-----------------------------------------------------------------------------
(* types.ts:88 "Max reconnection attempts": the client stops after that    *)
(* many reconnections in a row that never opened.                          *)
RetriesBounded == failures <= MaxReconnectAttempts

(* satellite.ts:32 "Reconnects automatically on unexpected disconnects":   *)
(* no reconnection starts because of a socket the client closed itself.    *)
ReconnectsIfUnexpected ==
  [][\A i \in Created :
       (sockets[i].ours /\ sockets[i].state # "closed" /\ sockets'[i].state = "closed")
         => sleeping' = sleeping]_vars
=============================================================================
