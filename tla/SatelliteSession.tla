-------------------------- MODULE SatelliteSession --------------------------
(***************************************************************************)
(* The sphere's side of edge execution (sphere/src/satellite): HTTP        *)
(* requests create sessions, sockets are upgraded against a session's      *)
(* token, and every connected socket runs handle_ws: a select loop that    *)
(* receives one message, lets handle_message adjudicate it under the       *)
(* session-manager mutex, and sends the response.  Any number of sockets   *)
(* may serve one session, so their steps interleave between receipt,       *)
(* adjudication and send.                                                  *)
(*                                                                         *)
(* Trust is counted in halves (trust cost 1.0 is 2 units) so that the      *)
(* fractional grants a client may ask for can be expressed; suspicion is   *)
(* counted in tenths.                                                      *)
(***************************************************************************)
EXTENDS Integers

CONSTANTS
  Sessions,           (* session ids a run may create (Uuid::new_v4)       *)
  Conns,              (* WebSocket connections alive at one time           *)
  Tools,              (* tool names a satellite may name                   *)
  SatelliteTools,     (* those the registry holds in the Satellite zone    *)
  Budgets,            (* trust budgets a client asks for, in halves        *)
  Durations,          (* session durations a client asks for               *)
  NullBytesRejected,  (* input_sanitization.enabled && reject_null_bytes   *)
  NoSession,          (* the session of a connection that has none         *)
  MaxTime,            (* bound on the clock                                *)
  MaxProposals        (* bound on the proposals received per session       *)

ASSUME SessionAssumption ==
  /\ SatelliteTools \subseteq Tools
  /\ Budgets \subseteq Int
  /\ Durations \subseteq Int
  /\ NullBytesRejected \in BOOLEAN
  /\ NoSession \notin Sessions
  /\ MaxTime \in Nat
  /\ MaxProposals \in Nat

VARIABLES
  now,        (* Utc::now()                                                *)
  stored,     (* the keys of SessionManager.sessions                       *)
  initial,    (* TrustBudget.initial, per session                          *)
  remaining,  (* TrustBudget.remaining                                     *)
  suspicion,  (* TrustBudget.suspicion_score                               *)
  expiresAt,  (* SatelliteSession.expires_at                               *)
  pc,         (* where each connection's handle_ws stands                  *)
  bound,      (* the session_id handle_ws was started with                 *)
  inbox,      (* the message handle_message is working on                  *)
  reply,      (* the response it computed and has not sent                 *)
  lastSent,   (* the last frame written to the socket                      *)
  received,   (* history: proposals received, per session                  *)
  accepted,   (* history: accepting AdjudicationResults computed           *)
  rejected    (* history: rejecting AdjudicationResults computed           *)

budgetVars == <<stored, initial, remaining, suspicion, expiresAt>>
connVars   == <<pc, bound, inbox, reply, lastSent>>
history    == <<received, accepted, rejected>>
vars       == <<now, budgetVars, connVars, history>>

-----------------------------------------------------------------------------
(* The constants of trust_budget.rs, adjudicator.rs and ws.rs.             *)

TrustCost                    == 2   (* DEFAULT_TRUST_COST = 1.0            *)
SuspicionThreshold           == 10  (* DEFAULT_SUSPICION_THRESHOLD = 1.0   *)
SuspicionUnregisteredTool    == 3
SuspicionOversized           == 2
SuspicionAdjudicationFailure == 2
SuspicionInjection           == 5

(* What a payload is to the adjudicator: within MAX_RESULT_BYTES and       *)
(* without null bytes, longer than that, or containing a null byte.        *)
Payloads == {"clean", "oversized", "nul"}

(* What a socket can deliver: a proposal, the heartbeat answer, or a text  *)
(* that does not parse or that only the sphere may send.                   *)
Proposal  == [type : {"tool_proposal"}, tool : Tools, payload : Payloads]
Message   == Proposal \cup [type : {"pong", "other"}]
NoMessage == [type |-> "none"]
Replies   == {"accepted", "rejected", "session_terminated", "ping", "error"}

-----------------------------------------------------------------------------
(* TrustBudget *)

IsExhausted_Negative(left) == left < 0
IsExhausted(left)  == left <= 0

IsSuspicious(score) == score >= SuspicionThreshold

(* The budget of a session neither exhausted nor suspicious.               *)
Live(s) == ~IsExhausted(remaining[s]) /\ ~IsSuspicious(suspicion[s])

-----------------------------------------------------------------------------
(* Adjudicator::adjudicate *)

(* filter.contains("sanitiz") over the names of the wired inbound filters: *)
(* the only one is called "InputSanitization", with a capital S.           *)
ContainsSanitiz == [filter \in {"InputSanitization"} |-> FALSE]

Deduct_Free(left) == left
Deduct(left) == left - TrustCost

(* The check a proposal fails first, in the order they are made: the       *)
(* deduction, the registry, the size, the inbound filters.                 *)
Fault(s, m) ==
  CASE Deduct(remaining[s]) <= 0 -> "budget"
    [] Deduct(remaining[s]) > 0 /\ m.tool \notin SatelliteTools -> "tool"
    [] Deduct(remaining[s]) > 0 /\ m.tool \in SatelliteTools
       /\ m.payload = "oversized" -> "size"
    [] Deduct(remaining[s]) > 0 /\ m.tool \in SatelliteTools
       /\ m.payload = "nul" /\ NullBytesRejected -> "filter"
    [] OTHER -> "none"

Suspicion_SizeForgiven(fault) ==
  CASE fault = "tool"   -> SuspicionUnregisteredTool
    [] fault = "filter" -> SuspicionAdjudicationFailure
    [] OTHER            -> 0

(* What that failure adds to the suspicion score.                          *)
Suspicion(fault) ==
  CASE fault = "tool"   -> SuspicionUnregisteredTool
    [] fault = "size"   -> SuspicionOversized
    [] fault = "filter" -> IF ContainsSanitiz["InputSanitization"]
                           THEN SuspicionInjection
                           ELSE SuspicionAdjudicationFailure
    [] OTHER            -> 0

Score(s, m) == suspicion[s] + Suspicion(Fault(s, m))

(* The response to a proposal: the verdict, unless the session has no      *)
(* budget left or is over the threshold once the proposal is charged.      *)
Verdict_BudgetOnly(s, m) ==
  CASE IsExhausted(Deduct(remaining[s])) -> "session_terminated"
    [] ~IsExhausted(Deduct(remaining[s])) /\ Fault(s, m) = "none" -> "accepted"
    [] OTHER -> "rejected"
Verdict(s, m) ==
  LET over == IsExhausted(Deduct(remaining[s])) \/ IsSuspicious(Score(s, m))
  IN  CASE over -> "session_terminated"
        [] ~over /\ Fault(s, m) = "none" -> "accepted"
        [] ~over /\ Fault(s, m) # "none" -> "rejected"

-----------------------------------------------------------------------------
Init ==
  /\ now       = 0
  /\ stored    = {}
  /\ initial   = [s \in Sessions |-> 0]
  /\ remaining = [s \in Sessions |-> 0]
  /\ suspicion = [s \in Sessions |-> 0]
  /\ expiresAt = [s \in Sessions |-> 0]
  /\ pc        = [c \in Conns |-> "closed"]
  /\ bound     = [c \in Conns |-> NoSession]
  /\ inbox     = [c \in Conns |-> NoMessage]
  /\ reply     = [c \in Conns |-> "none"]
  /\ lastSent  = [c \in Conns |-> "none"]
  /\ received  = [s \in Sessions |-> 0]
  /\ accepted  = [s \in Sessions |-> 0]
  /\ rejected  = [s \in Sessions |-> 0]

(* Wall-clock time passes.                                                 *)
Tick ==
  /\ now < MaxTime
  /\ now' = now + 1
  /\ UNCHANGED <<budgetVars, connVars, history>>

(* create_session, for a caller that authenticated: the budget and the     *)
(* duration are the client's.  Nothing is ever removed from the map.       *)
CreateSession(s, budget, duration) ==
  /\ s \notin stored
  /\ stored'    = stored \cup {s}
  /\ initial'   = [initial EXCEPT ![s] = budget]
  /\ remaining' = [remaining EXCEPT ![s] = budget]
  /\ suspicion' = [suspicion EXCEPT ![s] = 0]
  /\ expiresAt' = [expiresAt EXCEPT ![s] = now + duration]
  /\ UNCHANGED <<now, connVars, history>>

WsUpgrade_UnknownToken(c, s) ==
  /\ pc[c] = "closed"
  /\ pc'       = [pc EXCEPT ![c] = "upgrading"]
  /\ bound'    = [bound EXCEPT ![c] = s]
  /\ lastSent' = [lastSent EXCEPT ![c] = "none"]
  /\ UNCHANGED <<now, budgetVars, inbox, reply, history>>

(* ws_upgrade: the token names a stored session that has not expired.  The *)
(* lock is released before the upgrade completes.                          *)
WsUpgrade(c, s) ==
  /\ pc[c] = "closed"
  /\ s \in stored
  /\ expiresAt[s] > now
  /\ pc'       = [pc EXCEPT ![c] = "upgrading"]
  /\ bound'    = [bound EXCEPT ![c] = s]
  /\ lastSent' = [lastSent EXCEPT ![c] = "none"]
  /\ UNCHANGED <<now, budgetVars, inbox, reply, history>>

(* on_upgrade runs handle_ws, which enters its select loop.                *)
StartSocket(c) ==
  /\ pc[c] = "upgrading"
  /\ pc' = [pc EXCEPT ![c] = "select"]
  /\ UNCHANGED <<now, budgetVars, bound, inbox, reply, lastSent, history>>

(* The client goes away: the upgrade fails, or recv returns Close or None, *)
(* or the ping of a heartbeat tick cannot be sent.                         *)
Disconnect(c) ==
  /\ pc[c] \in {"upgrading", "select"}
  /\ pc'    = [pc EXCEPT ![c] = "closed"]
  /\ bound' = [bound EXCEPT ![c] = NoSession]
  /\ UNCHANGED <<now, budgetVars, inbox, reply, lastSent, history>>

(* The heartbeat branch of the select.  No pong is waited for.             *)
Heartbeat(c) ==
  /\ pc[c] = "select"
  /\ lastSent' = [lastSent EXCEPT ![c] = "ping"]
  /\ UNCHANGED <<now, budgetVars, pc, bound, inbox, reply, history>>

(* The recv branch of the select, for a text frame.                        *)
Receive(c, m) ==
  /\ pc[c] = "select"
  /\ \/ m.type # "tool_proposal" /\ UNCHANGED received
     \/ /\ m.type = "tool_proposal"
        /\ received[bound[c]] < MaxProposals
        /\ received' = [received EXCEPT ![bound[c]] = @ + 1]
  /\ pc'    = [pc EXCEPT ![c] = "handling"]
  /\ inbox' = [inbox EXCEPT ![c] = m]
  /\ UNCHANGED <<now, budgetVars, bound, reply, lastSent, accepted, rejected>>

(* handle_message computed response r and returns it to the loop.          *)
Respond(c, r) ==
  /\ pc'    = [pc EXCEPT ![c] = "replying"]
  /\ inbox' = [inbox EXCEPT ![c] = NoMessage]
  /\ reply' = [reply EXCEPT ![c] = r]

(* handle_message, a proposal: adjudicated under the session-manager lock. *)
Adjudicate(c) ==
  LET s == bound[c]
      m == inbox[c]
      v == Verdict(s, m)
  IN  /\ pc[c] = "handling"
      /\ m.type = "tool_proposal"
      /\ remaining' = [remaining EXCEPT ![s] = Deduct(@)]
      /\ suspicion' = [suspicion EXCEPT ![s] = Score(s, m)]
      /\ accepted'  = [accepted EXCEPT ![s] = @ + IF v = "accepted" THEN 1 ELSE 0]
      /\ rejected'  = [rejected EXCEPT ![s] = @ + IF v = "rejected" THEN 1 ELSE 0]
      /\ Respond(c, v)
      /\ UNCHANGED <<now, stored, initial, expiresAt, bound, lastSent, received>>

(* handle_message, anything else: a pong is acknowledged with a ping.      *)
HandleOther(c) ==
  /\ pc[c] = "handling"
  /\ inbox[c].type # "tool_proposal"
  /\ Respond(c, IF inbox[c].type = "pong" THEN "ping" ELSE "error")
  /\ UNCHANGED <<now, budgetVars, bound, lastSent, history>>

SendReply_KeepOpen(c) ==
  /\ pc[c] = "replying"
  /\ reply'    = [reply EXCEPT ![c] = "none"]
  /\ lastSent' = [lastSent EXCEPT ![c] = reply[c]]
  /\ pc'    = [pc EXCEPT ![c] = "select"]
  /\ UNCHANGED <<now, budgetVars, bound, inbox, history>>

(* The response is written; a SessionTerminated ends the loop.             *)
SendReply(c) ==
  /\ pc[c] = "replying"
  /\ reply'    = [reply EXCEPT ![c] = "none"]
  /\ lastSent' = [lastSent EXCEPT ![c] = reply[c]]
  /\ \/ /\ reply[c] = "session_terminated"
        /\ pc'    = [pc EXCEPT ![c] = "closed"]
        /\ bound' = [bound EXCEPT ![c] = NoSession]
     \/ /\ reply[c] # "session_terminated"
        /\ pc' = [pc EXCEPT ![c] = "select"]
        /\ UNCHANGED bound
  /\ UNCHANGED <<now, budgetVars, inbox, history>>

(* The response cannot be written: it is lost and the loop ends.           *)
SendFails(c) ==
  /\ pc[c] = "replying"
  /\ reply' = [reply EXCEPT ![c] = "none"]
  /\ pc'    = [pc EXCEPT ![c] = "closed"]
  /\ bound' = [bound EXCEPT ![c] = NoSession]
  /\ UNCHANGED <<now, budgetVars, inbox, lastSent, history>>

Connection(c) ==
  \/ \E s \in Sessions : WsUpgrade(c, s)
  \/ StartSocket(c)
  \/ Disconnect(c)
  \/ Heartbeat(c)
  \/ \E m \in Message : Receive(c, m)
  \/ Adjudicate(c)
  \/ HandleOther(c)
  \/ SendReply(c)
  \/ SendFails(c)

Next ==
  \/ Tick
  \/ \E s \in Sessions, b \in Budgets, d \in Durations : CreateSession(s, b, d)
  \/ \E c \in Conns : Connection(c)

Spec == Init /\ [][Next]_vars

(* The tasks of connected sockets are scheduled, the mutex is granted in   *)
(* FIFO order and a send completes or fails; nothing is assumed of clients *)
(* or of the clock.                                                        *)
Task(c) == StartSocket(c) \/ Adjudicate(c) \/ HandleOther(c) \/ SendReply(c) \/ SendFails(c)

FairSpec == Spec /\ \A c \in Conns : WF_vars(Task(c))

-----------------------------------------------------------------------------
(* Every connection that is not closed serves a stored session, holds a    *)
(* message exactly while handle_message runs and a response exactly until  *)
(* it is sent.  (ws.rs: handle_ws, handle_message; session.rs: the map is  *)
(* only ever inserted into, so "session not found" cannot be answered.)    *)
TypeOK ==
  /\ now \in 0 .. MaxTime
  /\ stored \subseteq Sessions
  /\ initial \in [Sessions -> Int]
  /\ remaining \in [Sessions -> Int]
  /\ suspicion \in [Sessions -> Nat]
  /\ expiresAt \in [Sessions -> Int]
  /\ pc \in [Conns -> {"closed", "upgrading", "select", "handling", "replying"}]
  /\ bound \in [Conns -> Sessions \cup {NoSession}]
  /\ inbox \in [Conns -> Message \cup {NoMessage}]
  /\ reply \in [Conns -> Replies \cup {"none"}]
  /\ lastSent \in [Conns -> Replies \cup {"none"}]
  /\ received \in [Sessions -> 0 .. MaxProposals]
  /\ accepted \in [Sessions -> Nat]
  /\ rejected \in [Sessions -> Nat]
  /\ \A c \in Conns :
       /\ pc[c] # "closed" => bound[c] \in stored
       /\ pc[c] = "handling" <=> inbox[c] \in Message
       /\ pc[c] = "replying" <=> reply[c] \in Replies

Verdicts(s) == accepted[s] + rejected[s]

(* However many sockets a session is served over, the verdicts it gets     *)
(* were all paid for out of its initial budget, and it never gets the one  *)
(* that would use the budget up (adjudicate's deduct under the lock, the   *)
(* is_exhausted test after it).                                            *)
VerdictsWithinBudget ==
  \A s \in Sessions :
    Verdicts(s) > 0 => TrustCost * Verdicts(s) < initial[s]

(* The suspicion rejections leave behind bounds them: a session is told of *)
(* at most four rejected proposals, over all its sockets, before it is     *)
(* only ever told that it is terminated (adjudicate, is_suspicious).       *)
FewRejections ==
  \A s \in Sessions : SuspicionOversized * rejected[s] < SuspicionThreshold

(* A socket that was told its session is terminated is told nothing more   *)
(* (the break after SessionTerminated in handle_ws).                       *)
TerminatedIsLast ==
  \A c \in Conns : lastSent[c] = "session_terminated" => pc[c] = "closed"

(* The sockets, the clock and the pipeline aside, a session is a ledger of *)
(* paid verdicts that is closed for good once it is condemned.             *)
Ledger == INSTANCE TrustLedger WITH
  Grants        <- Budgets,
  VerdictPrice  <- TrustCost,
  RejectionMark <- SuspicionOversized,
  MarkLimit     <- SuspicionThreshold,
  grant         <- initial,
  phase         <- [s \in Sessions |-> IF s \notin stored THEN "absent"
                                       ELSE IF Live(s) THEN "live" ELSE "condemned"]

(* SatelliteSession implements TrustLedger: no interleaving of sockets     *)
(* gives a condemned session a verdict or brings it back to life.          *)
ImplementsLedger == Ledger!LedgerSpec

(* A proposal that reaches the lock when its session is already condemned, *)
(* by this socket or by another one, ends with its socket closed           *)
(* (handle_message answers SessionTerminated, handle_ws breaks).           *)
CondemnedSocketCloses ==
  \A c \in Conns :
    (pc[c] = "handling" /\ inbox[c].type = "tool_proposal" /\ ~Live(bound[c]))
      ~> pc[c] = "closed"

=============================================================================
