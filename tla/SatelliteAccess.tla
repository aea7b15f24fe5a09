-------------------------- MODULE SatelliteAccess ---------------------------
(***************************************************************************)
(* How a caller comes to a satellite socket: create_session authenticates  *)
(* it with the ingress gate, stores a session under the session-manager    *)
(* lock and hands out a token, ws_upgrade accepts a token whose session is *)
(* still stored and has not expired (sphere/src/satellite/ws.rs).  The     *)
(* sessions live in memory; the secret the tokens are made with comes from *)
(* the environment and survives a restart of the process.  What happens on *)
(* the socket is the subject of SatelliteSession.                          *)
(***************************************************************************)
EXTENDS IngressGate

CONSTANTS
  AuthConfigs,   (* AuthConfig values                                      *)
  Requests,      (* headers: [authorization, api_key]                      *)
  Durations,     (* duration_secs a caller may ask for                     *)
  Callers,       (* requests being handled at one time                     *)
  MaxTime,       (* bound on the clock                                     *)
  MaxSessions,   (* bound on the sessions created                          *)
  MaxRestarts    (* bound on the restarts                                  *)

ASSUME AccessAssumption ==
  /\ Durations \subseteq Int
  /\ MaxTime \in Nat /\ MaxSessions \in Nat /\ MaxRestarts \in Nat

(* The lists of the configuration.                                         *)
ASSUME GateAssumption ==
  \A config \in AuthConfigs :
    /\ config.enabled \in BOOLEAN
    /\ config.strategies \in Seq(ToSet(config.strategies))
    /\ \A strategy \in ToSet(config.strategies) :
         /\ strategy.type \in {"jwt", "api_key"}
         /\ strategy.type = "api_key" => strategy.keys \in Seq(ToSet(strategy.keys))

VARIABLES
  config,    (* AppState.config.auth                                       *)
  now,       (* Utc::now()                                                 *)
  handling,  (* what each create_session has computed, or None             *)
  sessions,  (* SessionManager.sessions: id -> [identity_sub, expires_at]  *)
  tokens,    (* the tokens handed out, each [id, sub, expires_at]          *)
  sockets,   (* the upgraded sockets, each [id, at]                        *)
  created,   (* history: the ids drawn so far                              *)
  restarts,  (* history: the restarts so far                               *)
  origin     (* history: id -> [request, at, identity, run]                *)

vars == <<config, now, handling, sessions, tokens, sockets, created, restarts, origin>>

Init ==
  /\ config   \in AuthConfigs
  /\ now      = 0
  /\ handling = [c \in Callers |-> None]
  /\ sessions = <<>>
  /\ tokens   = {}
  /\ sockets  = {}
  /\ created  = 0
  /\ restarts = 0
  /\ origin   = <<>>

Tick ==
  /\ now < MaxTime
  /\ now' = now + 1
  /\ UNCHANGED <<config, handling, sessions, tokens, sockets, created, restarts, origin>>

(* create_session up to the lock: a caller who is not authenticated gets   *)
(* the error and leaves no trace.  Uuid::new_v4 is a fresh number.         *)
Begin(c, request, duration) ==
  LET result == Authenticate(config, request, now)
  IN  /\ handling[c] = None
      /\ created < MaxSessions
      /\ result.ok
      /\ handling' = [handling EXCEPT ![c] =
           [id |-> created + 1, sub |-> result.identity.sub, expires_at |-> now + duration]]
      /\ created'  = created + 1
      /\ origin'   = Append(origin, [request |-> request, at |-> now,
                                     identity |-> result.identity, run |-> restarts])
      /\ UNCHANGED <<config, now, sessions, tokens, sockets, restarts>>

(* The lock is taken: the session is stored and its token handed out.      *)
Store(c) ==
  LET session == handling[c]
  IN  /\ session # None
      /\ sessions' = [id \in DOMAIN sessions \cup {session.id} |->
                        IF id = session.id
                        THEN [identity_sub |-> session.sub, expires_at |-> session.expires_at]
                        ELSE sessions[id]]
      /\ tokens'   = tokens \cup {session}
      /\ handling' = [handling EXCEPT ![c] = None]
      /\ UNCHANGED <<config, now, sockets, created, restarts, origin>>

(* The caller leaves while its handler waits for the lock.                 *)
Abandon(c) ==
  /\ handling[c] # None
  /\ handling' = [handling EXCEPT ![c] = None]
  /\ UNCHANGED <<config, now, sessions, tokens, sockets, created, restarts, origin>>

(* validate_token for a stored session: the token was made of its id, its  *)
(* subject and its expiry.                                                 *)
ValidateToken(token, id) ==
  token = [id |-> id, sub |-> sessions[id].identity_sub, expires_at |-> sessions[id].expires_at]

Upgrade_BySignature(token) ==
  /\ token \in tokens
  /\ token.expires_at > now
  /\ sockets' = sockets \cup {[id |-> token.id, at |-> now]}
  /\ UNCHANGED <<config, now, handling, sessions, tokens, created, restarts, origin>>

Upgrade(token) ==
  /\ token \in tokens
  /\ \E id \in DOMAIN sessions :
       /\ ValidateToken(token, id)
       /\ sessions[id].expires_at > now
       /\ sockets' = sockets \cup {[id |-> id, at |-> now]}
  /\ UNCHANGED <<config, now, handling, sessions, tokens, created, restarts, origin>>

Restart_CountsAfresh ==
  /\ restarts < MaxRestarts
  /\ restarts' = restarts + 1
  /\ handling' = [c \in Callers |-> None]
  /\ sessions' = <<>>
  /\ sockets'  = {}
  /\ created'  = 0
  /\ UNCHANGED <<config, now, tokens, origin>>

(* The process ends and main starts again: the environment and the         *)
(* configuration are the same, the callers keep their tokens.              *)
Restart ==
  /\ restarts < MaxRestarts
  /\ restarts' = restarts + 1
  /\ handling' = [c \in Callers |-> None]
  /\ sessions' = <<>>
  /\ sockets'  = {}
  /\ UNCHANGED <<config, now, tokens, created, origin>>

Next ==
  \/ Tick \/ Restart
  \/ \E c \in Callers : Store(c) \/ Abandon(c)
  \/ \E c \in Callers, request \in Requests, duration \in Durations : Begin(c, request, duration)
  \/ \E token \in tokens : Upgrade(token)

Spec == Init /\ [][Next]_vars

-----------------------------------------------------------------------------
Minted(token) == token.id \in 1 .. created /\ token.sub = origin[token.id].identity.sub

TypeOK ==
  /\ config \in AuthConfigs
  /\ now \in 0 .. MaxTime
  /\ \A c \in Callers : handling[c] # None => Minted(handling[c])
  /\ DOMAIN sessions \subseteq 1 .. created
  /\ \A token \in tokens : Minted(token)
  /\ Len(origin) = created
  /\ restarts \in 0 .. MaxRestarts

(* What the gate promises, without its loop: one strategy accepts the      *)
(* credential, all strategies before it refuse it, and it is the one the   *)
(* request presents first.                                                 *)
MayBe(request, at, identity) ==
  \/ ~config.enabled /\ identity = Anonymous
  \/ /\ config.enabled
     /\ \E token \in {request.api_key} \cup
                     (IF request.authorization = None THEN {} ELSE {request.authorization.token}) :
          /\ IF Legible(request.authorization)
             THEN /\ token = request.authorization.token
                  /\ request.authorization.scheme \in {"Bearer", "none"}
             ELSE token = request.api_key
          /\ token # None
          /\ \E i \in DOMAIN config.strategies :
               /\ Try(config.strategies[i], token, at) = Granted(identity)
               /\ \A j \in 1 .. i - 1 : ~Try(config.strategies[j], token, at).ok

(* Every session belongs to an identity that its creator's leading header  *)
(* proved when the request came, whatever other credential the request     *)
(* carried and whatever the clock and the other callers did before the     *)
(* lock was taken (create_session, IngressGate::authenticate).             *)
SessionsAreGranted ==
  \A id \in DOMAIN sessions :
    /\ MayBe(origin[id].request, origin[id].at, origin[id].identity)
    /\ sessions[id].identity_sub = origin[id].identity.sub

(* A socket belongs to a session that this run of the process created and  *)
(* that had not expired when the socket was upgraded; a token of an        *)
(* earlier run opens none, although the secret is still the one it was     *)
(* made with (ws_upgrade).                                                 *)
SocketsAreAuthentic ==
  \A socket \in sockets :
    /\ socket.id \in DOMAIN sessions
    /\ origin[socket.id].run = restarts
    /\ origin[socket.id].at <= socket.at
    /\ socket.at < sessions[socket.id].expires_at
=============================================================================
