------------------------ MODULE SatelliteAccessProofs -----------------------
(***************************************************************************)
(* Proofs about SatelliteAccess for any configurations, requests and       *)
(* durations and any number of callers, sessions and restarts: first what  *)
(* a socket relies on, then what the gate makes of a credential.           *)
(***************************************************************************)
EXTENDS SatelliteAccess, SequenceLemmas

Times      == 0 .. MaxTime
Identities == {Authenticate(c, r, t).identity : c \in AuthConfigs, r \in Requests, t \in Times}
Origins    == [request : Requests, at : Times, identity : Identities,
               run : 0 .. MaxRestarts]

(* The session with this id belongs to the present run of the process.     *)
Ours(id) == id \in 1 .. created /\ origin[id].run = restarts /\ origin[id].at <= now

(* What a caller is about to store is its own: no session, and no other    *)
(* caller, has the id.                                                     *)
HandlingInv ==
  \A c \in Callers :
    handling[c] # None =>
      /\ Ours(handling[c].id)
      /\ handling[c].id \notin DOMAIN sessions
      /\ \A d \in Callers \ {c} : handling[d] # None => handling[d].id # handling[c].id

SessionsInv == \A id \in DOMAIN sessions : Ours(id)

IInv ==
  /\ TypeOK
  /\ handling \in [Callers -> {handling[c] : c \in Callers}]
  /\ created \in Nat /\ origin \in Seq(Origins)
  /\ HandlingInv /\ SessionsInv /\ SocketsAreAuthentic
  /\ \A socket \in sockets : socket.at \in Nat /\ socket.at <= now

-----------------------------------------------------------------------------
LEMMA AppendFacts ==
  ASSUME NEW S, NEW s \in Seq(S), NEW e \in S
  PROVE  /\ Append(s, e) \in Seq(S)
         /\ Len(s) \in Nat /\ Len(Append(s, e)) = Len(s) + 1
         /\ \A i \in 1 .. Len(s) : Append(s, e)[i] = s[i]
         /\ Append(s, e)[Len(s) + 1] = e
OBVIOUS

(* An origin that was noted has a time and a run.                          *)
LEMMA OriginFacts ==
  ASSUME IInv
  PROVE  /\ Len(origin) = created /\ created \in Nat
         /\ \A id \in 1 .. created : origin[id] \in Origins /\ origin[id].at \in Nat
         /\ now \in Nat
<1>1. Len(origin) = created /\ created \in Nat /\ origin \in Seq(Origins)
  BY DEF IInv, TypeOK
<1>2. now \in Nat
  BY AccessAssumption DEF IInv, TypeOK
<1>3. \A id \in 1 .. created : origin[id] \in Origins
  <2> HIDE DEF Origins
  <2>1. QED BY <1>1
<1>4. \A entry \in Origins : entry.at \in Times
  BY DEF Origins
<1>5. \A t \in Times : t \in Nat
  BY AccessAssumption DEF Times
<1>6. QED BY <1>1, <1>2, <1>3, <1>4, <1>5

LEMMA InitIInv == Init => IInv
<1> SUFFICES ASSUME Init PROVE IInv
  OBVIOUS
<1>1. /\ handling = [c \in Callers |-> None] /\ sessions = <<>> /\ DOMAIN sessions = {}
      /\ tokens = {} /\ sockets = {} /\ created = 0 /\ restarts = 0 /\ now = 0
      /\ origin = <<>> /\ Len(origin) = 0 /\ config \in AuthConfigs
  BY DEF Init
<1>2. TypeOK
  BY <1>1, AccessAssumption DEF TypeOK
<1>3. HandlingInv /\ SessionsInv /\ SocketsAreAuthentic
  BY <1>1 DEF HandlingInv, SessionsInv, SocketsAreAuthentic
<1>4. origin \in Seq(Origins)
  BY <1>1
<1>5. handling \in [Callers -> {handling[c] : c \in Callers}]
  BY <1>1
<1>6. QED BY <1>1, <1>2, <1>3, <1>4, <1>5 DEF IInv

-----------------------------------------------------------------------------
(* One lemma for each kind of step.                                        *)
LEMMA TickStep ==
  ASSUME IInv, Tick
  PROVE  IInv'
<1>1. /\ now < MaxTime /\ now' = now + 1 /\ now \in Nat
      /\ UNCHANGED <<config, handling, sessions, tokens, sockets, created, restarts, origin>>
  BY OriginFacts DEF Tick
<1>2. TypeOK'
  BY <1>1, AccessAssumption DEF IInv, TypeOK, Minted
<1>3. \A id : Ours(id) => Ours(id)'
  BY <1>1, OriginFacts DEF Ours
<1>4. HandlingInv' /\ SessionsInv'
  BY <1>1, <1>3 DEF IInv, HandlingInv, SessionsInv
<1>5. SocketsAreAuthentic' /\ \A socket \in sockets' : socket.at \in Nat /\ socket.at <= now'
  <2>1. \A socket \in sockets : socket.at \in Nat /\ socket.at <= now
    BY DEF IInv
  <2>2. SocketsAreAuthentic
    BY DEF IInv
  <2>3. SocketsAreAuthentic'
    BY <1>1, <2>2 DEF SocketsAreAuthentic
  <2>4. \A socket \in sockets : socket.at <= now + 1
    BY <1>1, <2>1
  <2>5. QED BY <1>1, <2>1, <2>3, <2>4
<1>6. QED BY <1>1, <1>2, <1>4, <1>5 DEF IInv

LEMMA BeginStep ==
  ASSUME IInv, NEW c \in Callers, NEW request \in Requests, NEW duration \in Durations,
         Begin(c, request, duration)
  PROVE  IInv'
<1> DEFINE identity == Authenticate(config, request, now).identity
           entry    == [request |-> request, at |-> now, identity |-> identity,
                        run |-> restarts]
           session  == [id |-> created + 1, sub |-> identity.sub, expires_at |-> now + duration]
<1>1. /\ handling[c] = None
      /\ handling' = [handling EXCEPT ![c] = session]
      /\ created' = created + 1 /\ origin' = Append(origin, entry)
      /\ UNCHANGED <<config, now, sessions, tokens, sockets, restarts>>
  BY DEF Begin
<1>2. entry \in Origins
  <2>1. config \in AuthConfigs /\ now \in Times /\ restarts \in 0 .. MaxRestarts
    BY DEF IInv, TypeOK, Times
  <2>2. identity \in Identities
    BY <2>1 DEF Identities
  <2> HIDE DEF identity
  <2>3. QED BY <2>1, <2>2 DEF Origins
<1>3. /\ entry.at = now /\ entry.run = restarts /\ entry.identity = identity
      /\ session.id = created + 1 /\ session.sub = identity.sub
  OBVIOUS
<1> HIDE DEF identity, entry, session
<1>4. /\ created \in Nat /\ now \in Nat /\ origin' \in Seq(Origins) /\ Len(origin') = created'
      /\ \A i \in 1 .. created : origin'[i] = origin[i]
      /\ origin'[created + 1] = entry
  <2>1. origin \in Seq(Origins) /\ Len(origin) = created
    BY OriginFacts DEF IInv
  <2>2. QED BY <1>1, <1>2, <2>1, AppendFacts, OriginFacts
<1>5. \A i \in 1 .. created : i \in 1 .. created' /\ i # created + 1
  BY <1>1, <1>4
<1>6. created + 1 \in 1 .. created'
  BY <1>1, <1>4
<1>7. /\ handling'[c] = session
      /\ \A d \in Callers \ {c} : handling'[d] = handling[d]
      /\ handling' \in [Callers -> {handling'[d] : d \in Callers}]
  BY <1>1 DEF IInv
<1>8. TypeOK'
  <2>1. /\ handling'[c].id \in 1 .. created'
        /\ handling'[c].sub = origin'[handling'[c].id].identity.sub
    BY <1>3, <1>4, <1>6, <1>7
  <2>2. ASSUME NEW d \in Callers, handling'[d] # None, d # c
        PROVE  /\ handling'[d].id \in 1 .. created'
               /\ handling'[d].sub = origin'[handling'[d].id].identity.sub
    <3>1. /\ handling[d].id \in 1 .. created
          /\ handling[d].sub = origin[handling[d].id].identity.sub
      BY <1>7, <2>2 DEF IInv, TypeOK, Minted
    <3>2. QED BY <1>4, <1>5, <1>7, <2>2, <3>1
  <2>3. \A token \in tokens :
          token.id \in 1 .. created' /\ token.sub = origin'[token.id].identity.sub
    BY <1>4, <1>5 DEF IInv, TypeOK, Minted
  <2>4. DOMAIN sessions' \subseteq 1 .. created'
    BY <1>1, <1>5 DEF IInv, TypeOK
  <2>5. QED BY <1>1, <1>4, <2>1, <2>2, <2>3, <2>4 DEF IInv, TypeOK, Minted
<1>9. ASSUME NEW id, Ours(id)
      PROVE  id \in 1 .. created' /\ origin'[id].run = restarts' /\ origin'[id].at <= now'
  <2>1. id \in 1 .. created /\ origin[id].run = restarts /\ origin[id].at <= now
    BY <1>9 DEF Ours
  <2>2. origin'[id] = origin[id]
    BY <1>4, <2>1
  <2>3. QED BY <1>1, <1>5, <2>1, <2>2
<1>10. /\ origin'[session.id].run = restarts' /\ origin'[session.id].at <= now'
       /\ session.id \in 1 .. created'
  BY <1>1, <1>3, <1>4, <1>6
<1>11. HandlingInv'
  <2>1. HandlingInv /\ DOMAIN sessions \subseteq 1 .. created
    BY DEF IInv, TypeOK
  <2>2. \A d \in Callers \ {c} : handling[d] # None => handling[d].id \in 1 .. created
    BY <2>1 DEF HandlingInv, Ours
  <2>3. ASSUME NEW d \in Callers, handling'[d] # None
        PROVE  /\ handling'[d].id \in 1 .. created'
               /\ origin'[handling'[d].id].run = restarts' /\ origin'[handling'[d].id].at <= now'
               /\ handling'[d].id \notin DOMAIN sessions'
               /\ \A e \in Callers \ {d} :
                    handling'[e] # None => handling'[e].id # handling'[d].id
    <3>1. CASE d = c
      <4>1. session.id \notin DOMAIN sessions
        BY <1>3, <1>5, <2>1
      <4>2. \A e \in Callers \ {c} : handling'[e] # None => handling'[e].id # session.id
        BY <1>3, <1>5, <1>7, <2>2
      <4>3. QED BY <1>1, <1>7, <1>10, <3>1, <4>1, <4>2
    <3>2. CASE d # c
      <4>1. Ours(handling[d].id) /\ handling[d].id \notin DOMAIN sessions
            /\ \A e \in Callers \ {d} : handling[e] # None => handling[e].id # handling[d].id
        BY <1>7, <2>1, <2>3, <3>2 DEF HandlingInv
      <4>2. handling[d].id # created + 1
        BY <1>5, <1>7, <2>2, <2>3, <3>2
      <4>3. \A e \in Callers \ {d} : handling'[e] # None => handling'[e].id # handling'[d].id
        BY <1>3, <1>7, <3>2, <4>1, <4>2
      <4>4. QED BY <1>1, <1>7, <1>9, <3>2, <4>1, <4>3
    <3>3. QED BY <3>1, <3>2
  <2>4. QED BY <2>3 DEF HandlingInv, Ours
<1>12. SessionsInv'
  BY <1>1, <1>9 DEF IInv, SessionsInv, Ours
<1>13. SocketsAreAuthentic' /\ \A socket \in sockets' : socket.at \in Nat /\ socket.at <= now'
  <2>1. \A socket \in sockets : socket.id \in 1 .. created
    BY DEF IInv, TypeOK, SocketsAreAuthentic
  <2>2. QED BY <1>1, <1>4, <2>1 DEF IInv, SocketsAreAuthentic
<1>14. QED BY <1>1, <1>4, <1>7, <1>8, <1>11, <1>12, <1>13 DEF IInv

LEMMA StoreStep ==
  ASSUME IInv, NEW c \in Callers, Store(c)
  PROVE  IInv'
<1> DEFINE session == handling[c]
<1>1. /\ session # None
      /\ sessions' = [id \in DOMAIN sessions \cup {session.id} |->
                        IF id = session.id
                        THEN [identity_sub |-> session.sub, expires_at |-> session.expires_at]
                        ELSE sessions[id]]
      /\ tokens' = tokens \cup {session} /\ handling' = [handling EXCEPT ![c] = None]
      /\ UNCHANGED <<config, now, sockets, created, restarts, origin>>
  BY DEF Store
<1>2. /\ Ours(session.id) /\ session.id \notin DOMAIN sessions /\ Minted(session)
      /\ \A d \in Callers \ {c} : handling[d] # None => handling[d].id # session.id
  BY <1>1 DEF IInv, HandlingInv, TypeOK
<1>3. /\ DOMAIN sessions' = DOMAIN sessions \cup {session.id}
      /\ \A id \in DOMAIN sessions : sessions'[id] = sessions[id]
  BY <1>1, <1>2
<1>4. /\ \A d \in Callers : handling'[d] # None => d # c /\ handling'[d] = handling[d]
      /\ handling' \in [Callers -> {handling'[d] : d \in Callers}]
  BY <1>1 DEF IInv
<1> HIDE DEF session
<1>5. TypeOK'
  <2>1. DOMAIN sessions' \subseteq 1 .. created
    BY <1>2, <1>3 DEF IInv, TypeOK, Minted
  <2>2. \A token \in tokens' : Minted(token)
    BY <1>1, <1>2 DEF IInv, TypeOK
  <2>3. \A d \in Callers : handling'[d] # None => Minted(handling'[d])
    BY <1>4 DEF IInv, TypeOK
  <2>4. QED BY <1>1, <2>1, <2>2, <2>3 DEF IInv, TypeOK, Minted
<1>6. HandlingInv'
  <2>1. ASSUME NEW d \in Callers, handling'[d] # None
        PROVE  /\ Ours(handling'[d].id) /\ handling'[d].id \notin DOMAIN sessions'
               /\ \A e \in Callers \ {d} :
                    handling'[e] # None => handling'[e].id # handling'[d].id
    <3>1. d # c /\ handling'[d] = handling[d]
      BY <1>4, <2>1
    <3>2. /\ Ours(handling[d].id) /\ handling[d].id \notin DOMAIN sessions
          /\ \A e \in Callers \ {d} : handling[e] # None => handling[e].id # handling[d].id
      BY <2>1, <3>1 DEF IInv, HandlingInv
    <3>3. QED BY <1>2, <1>3, <1>4, <2>1, <3>1, <3>2
  <2>2. QED BY <1>1, <2>1 DEF HandlingInv, Ours
<1>7. SessionsInv'
  BY <1>1, <1>2, <1>3 DEF IInv, SessionsInv, Ours
<1>8. SocketsAreAuthentic' /\ \A socket \in sockets' : socket.at \in Nat /\ socket.at <= now'
  BY <1>1, <1>3 DEF IInv, SocketsAreAuthentic
<1>9. QED BY <1>1, <1>4, <1>5, <1>6, <1>7, <1>8 DEF IInv

LEMMA AbandonStep ==
  ASSUME IInv, NEW c \in Callers, Abandon(c)
  PROVE  IInv'
<1>1. /\ handling' = [handling EXCEPT ![c] = None]
      /\ UNCHANGED <<config, now, sessions, tokens, sockets, created, restarts, origin>>
  BY DEF Abandon
<1>2. /\ \A d \in Callers : handling'[d] # None => handling'[d] = handling[d]
      /\ handling' \in [Callers -> {handling'[d] : d \in Callers}]
  BY <1>1 DEF IInv
<1>3. \A d \in Callers : handling'[d] # None => handling[d] # None
  BY <1>2
<1>4. TypeOK'
  BY <1>1, <1>2, <1>3 DEF IInv, TypeOK, Minted
<1>5. HandlingInv'
  BY <1>1, <1>2, <1>3 DEF IInv, HandlingInv, Ours
<1>6. /\ SessionsInv' /\ SocketsAreAuthentic'
      /\ \A socket \in sockets' : socket.at \in Nat /\ socket.at <= now'
  BY <1>1 DEF IInv, SessionsInv, SocketsAreAuthentic, Ours
<1>7. QED BY <1>1, <1>2, <1>4, <1>5, <1>6 DEF IInv

LEMMA UpgradeStep ==
  ASSUME IInv, NEW token \in tokens, Upgrade(token)
  PROVE  IInv'
<1>1. UNCHANGED <<config, now, handling, sessions, tokens, created, restarts, origin>>
  BY DEF Upgrade
<1>2. PICK id \in DOMAIN sessions :
        /\ sessions[id].expires_at > now
        /\ sockets' = sockets \cup {[id |-> id, at |-> now]}
  BY DEF Upgrade
<1>3. TypeOK' /\ HandlingInv' /\ SessionsInv'
  BY <1>1 DEF IInv, TypeOK, Minted, HandlingInv, SessionsInv, Ours
<1>4. \A socket \in sockets' : socket.at \in Nat /\ socket.at <= now
  BY <1>2, OriginFacts DEF IInv
<1>5. SocketsAreAuthentic'
  <2>1. Ours(id)
    BY DEF IInv, SessionsInv
  <2>2. now < sessions[id].expires_at
    BY <1>2
  <2>3. \A socket \in sockets' : socket \in sockets \/ (socket.id = id /\ socket.at = now)
    BY <1>2
  <2>4. ASSUME NEW socket \in sockets'
        PROVE  /\ socket.id \in DOMAIN sessions /\ origin[socket.id].run = restarts
               /\ origin[socket.id].at <= socket.at
               /\ socket.at < sessions[socket.id].expires_at
    BY <2>1, <2>2, <2>3 DEF IInv, SocketsAreAuthentic, Ours
  <2>5. QED BY <1>1, <2>4 DEF SocketsAreAuthentic
<1>6. QED BY <1>1, <1>3, <1>4, <1>5 DEF IInv

LEMMA RestartStep ==
  ASSUME IInv, Restart
  PROVE  IInv'
<1>1. /\ restarts < MaxRestarts /\ restarts' = restarts + 1 /\ restarts \in 0 .. MaxRestarts
      /\ handling' = [c \in Callers |-> None] /\ sessions' = <<>> /\ DOMAIN sessions' = {}
      /\ sockets' = {}
      /\ UNCHANGED <<config, now, tokens, created, origin>>
  BY DEF Restart, IInv, TypeOK
<1>2. TypeOK'
  BY <1>1, AccessAssumption DEF IInv, TypeOK, Minted
<1>3. HandlingInv' /\ SessionsInv' /\ SocketsAreAuthentic'
  BY <1>1 DEF HandlingInv, SessionsInv, SocketsAreAuthentic
<1>4. handling' \in [Callers -> {handling'[c] : c \in Callers}]
  BY <1>1
<1>5. QED BY <1>1, <1>2, <1>3, <1>4 DEF IInv

LEMMA NextIInv == IInv /\ [Next]_vars => IInv'
<1> SUFFICES ASSUME IInv, [Next]_vars PROVE IInv'
  OBVIOUS
<1>1. CASE Tick
  BY <1>1, TickStep
<1>2. CASE Restart
  BY <1>2, RestartStep
<1>3. CASE \E c \in Callers : Store(c) \/ Abandon(c)
  BY <1>3, StoreStep, AbandonStep
<1>4. CASE \E c \in Callers, request \in Requests, duration \in Durations :
             Begin(c, request, duration)
  BY <1>4, BeginStep
<1>5. CASE \E token \in tokens : Upgrade(token)
  BY <1>5, UpgradeStep
<1>6. CASE UNCHANGED vars
  BY <1>6 DEF vars, IInv, TypeOK, Minted, HandlingInv, SessionsInv, SocketsAreAuthentic, Ours
<1>7. QED BY <1>1, <1>2, <1>3, <1>4, <1>5, <1>6 DEF Next

LEMMA Invariance == Spec => []IInv
<1>1. Init => IInv
  BY InitIInv
<1>2. IInv /\ [Next]_vars => IInv'
  BY NextIInv
<1>3. QED BY <1>1, <1>2, PTL DEF Spec

-----------------------------------------------------------------------------
(* The gate: of the strategies, the first to accept a credential decides.  *)
Answers(after, strategies, token, at) ==
  /\ after[0] = Denied("MissingToken")
  /\ \A n \in 1 .. Len(strategies) :
       after[n] = IF after[n - 1].ok THEN after[n - 1] ELSE Try(strategies[n], token, at)

LEMMA TryAllSteps ==
  ASSUME NEW T, NEW strategies \in Seq(T), NEW token, NEW at
  PROVE  \E after : /\ TryAll(strategies, token, at) = after[Len(strategies)]
                    /\ Answers(after, strategies, token, at)
<1> DEFINE n     == Len(strategies)
           first == Denied("MissingToken")
           got   == [i \in 1 .. n |-> Try(strategies[i], token, at)]
           D     == {first} \cup {got[i] : i \in 1 .. n}
           Step  == [p \in D \X (0 + 1 .. n) |-> IF p[1].ok THEN p[1] ELSE got[p[2]]]
           Is(f) == f = [i \in 0 .. n |->
                           IF i = 0 THEN first
                           ELSE IF f[i - 1].ok THEN f[i - 1] ELSE Try(strategies[i], token, at)]
<1>1. n \in Nat /\ 0 \in Nat /\ 0 <= n /\ first \in D
  OBVIOUS
<1>2. Step \in StepsOn(D, 0, n)
  <2> HIDE DEF first, got
  <2>1. QED BY DEF StepsOn
<1>3. PICK f \in [0 .. n -> D] : Follows(f, 0, n, first, Step)
  <2> HIDE DEF n, Step, D, first
  <2>1. QED BY <1>1, <1>2, RecursionExists, Zenon
<1>4. ASSUME NEW i \in 1 .. n
      PROVE  f[i] = IF f[i - 1].ok THEN f[i - 1] ELSE Try(strategies[i], token, at)
  <2>1. i \in 0 + 1 .. n /\ f[i - 1] \in D
    BY <1>1
  <2>2. f[i] = Step[<<f[i - 1], i>>]
    BY <1>3, <2>1 DEF Follows
  <2>3. got[i] = Try(strategies[i], token, at)
    OBVIOUS
  <2> HIDE DEF got, D
  <2>4. Step[<<f[i - 1], i>>] = IF f[i - 1].ok THEN f[i - 1] ELSE got[i]
    BY <2>1
  <2>5. QED BY <2>2, <2>3, <2>4
<1>5. f[0] = first
  BY <1>3 DEF Follows
<1>6. Is(f)
  <2> HIDE DEF first
  <2>1. QED BY <1>1, <1>4, <1>5
<1>7. PICK g : g = (CHOOSE h : Is(h)) /\ Is(g)
  <2> HIDE DEF Is
  <2>1. QED BY <1>6
<1>8. TryAll(strategies, token, at) = g[n]
  BY <1>7 DEF TryAll
<1>9. g = [i \in 0 .. n |->
             IF i = 0 THEN first
             ELSE IF g[i - 1].ok THEN g[i - 1] ELSE Try(strategies[i], token, at)]
  BY <1>7
<1> HIDE DEF first, Is, Step, D, got
<1>10. g[0] = first
  BY <1>1, <1>9
<1>11. ASSUME NEW i \in 1 .. n
       PROVE  g[i] = IF g[i - 1].ok THEN g[i - 1] ELSE Try(strategies[i], token, at)
  <2>1. i \in 0 .. n /\ i # 0
    BY <1>1
  <2>2. QED BY <1>9, <2>1
<1>12. QED BY <1>8, <1>10, <1>11 DEF first, Answers

(* Position i of the list accepts the credential, no position before it.   *)
Accepts(i, strategies, token, at) ==
  /\ Try(strategies[i], token, at).ok
  /\ \A j \in 1 .. i - 1 : ~Try(strategies[j], token, at).ok

LEMMA TryAllFirst ==
  ASSUME NEW T, NEW strategies \in Seq(T), NEW token, NEW at,
         TryAll(strategies, token, at).ok
  PROVE  \E i \in DOMAIN strategies :
           /\ Accepts(i, strategies, token, at)
           /\ TryAll(strategies, token, at) = Try(strategies[i], token, at)
<1> DEFINE n == Len(strategies)
           got == [i \in 1 .. n |-> Try(strategies[i], token, at)]
<1>1. n \in Nat /\ DOMAIN strategies = 1 .. n
  OBVIOUS
<1>2. PICK after : /\ TryAll(strategies, token, at) = after[n]
                   /\ Answers(after, strategies, token, at)
  BY TryAllSteps
<1>3. ~after[0].ok
  BY <1>2 DEF Denied, Answers
<1>4. after[n].ok
  BY <1>2
<1>2a. \A i \in 1 .. n : after[i] = IF after[i - 1].ok THEN after[i - 1] ELSE got[i]
  BY <1>2 DEF Answers
<1> DEFINE By(k, i) == got[i].ok /\ after[k] = got[i] /\ \A j \in 1 .. i - 1 : ~got[j].ok
           S == {k \in 0 .. n : /\ after[k].ok => \E i \in 1 .. k : By(k, i)
                                /\ ~after[k].ok => \A j \in 1 .. k : ~got[j].ok}
<1> HIDE DEF got
<1>5. 0 \in S
  BY <1>1, <1>3
<1>6. ASSUME NEW k \in 0 + 1 .. n, k - 1 \in S
      PROVE  k \in S
  <2>1. /\ k \in 1 .. n /\ k \in Nat /\ 1 .. k = (1 .. k - 1) \cup {k} /\ k \in 0 .. n
        /\ after[k] = IF after[k - 1].ok THEN after[k - 1] ELSE got[k]
    BY <1>1, <1>2a
  <2>2. CASE after[k - 1].ok
    <3>1. PICK i \in 1 .. k - 1 : By(k - 1, i)
      BY <1>6, <2>2
    <3>2. after[k] = after[k - 1] /\ i \in 1 .. k
      BY <2>1, <2>2
    <3>3. By(k, i) /\ after[k].ok
      BY <2>2, <3>1, <3>2
    <3> HIDE DEF By
    <3>4. QED BY <2>1, <3>2, <3>3
  <2>3. CASE ~after[k - 1].ok
    <3>1. \A j \in 1 .. k - 1 : ~got[j].ok
      BY <1>6, <2>3
    <3>2. after[k] = got[k]
      BY <2>1, <2>3
    <3>3. after[k].ok => By(k, k)
      BY <3>1, <3>2
    <3>4. ~after[k].ok => \A j \in 1 .. k : ~got[j].ok
      BY <2>1, <3>1, <3>2
    <3> HIDE DEF By
    <3>5. QED BY <2>1, <3>3, <3>4
  <2>4. QED BY <2>2, <2>3
<1>7. n \in S
  <2> HIDE DEF S, n
  <2>1. 0 \in Nat /\ n \in 0 .. n
    BY <1>1
  <2>2. \A i \in 0 .. n : i \in S
    BY <1>1, <1>5, <1>6, <2>1, Climb
  <2>3. QED BY <2>1, <2>2
<1>8. PICK i \in 1 .. n : By(n, i)
  BY <1>4, <1>7
<1>9. i \in Nat /\ \A j \in 1 .. i - 1 : j \in 1 .. n
  BY <1>1
<1>10. got[i] = Try(strategies[i], token, at)
       /\ \A j \in 1 .. i - 1 : got[j] = Try(strategies[j], token, at)
  BY <1>9 DEF got
<1>11. QED BY <1>1, <1>2, <1>8, <1>10 DEF Accepts

-----------------------------------------------------------------------------
(* Which credentials the strategies accept.                                *)
IsStrategy(strategy) ==
  /\ strategy.type \in {"jwt", "api_key"}
  /\ strategy.type = "api_key" => strategy.keys \in Seq(ToSet(strategy.keys))

LEMMA EntriesFacts ==
  ASSUME NEW strategy, NEW token, strategy.keys \in Seq(ToSet(strategy.keys)),
         Entries(strategy, token) # <<>>
  PROVE  token.kind = "key"
<1> DEFINE keys  == strategy.keys
           named == {entry \in ToSet(keys) : token.kind = "key" /\ entry.key = token.key}
           T     == ToSet(keys)
           found == Select(keys, named)
<1>1. keys \in Seq(T)
  OBVIOUS
<1>2. Entries(strategy, token) = found
  BY DEF Entries
<1>3. named # {} => token.kind = "key"
  OBVIOUS
<1> HIDE DEF keys, named, T, found
<1>4. found \in Seq(T) /\ \A x : x \in ToSet(found) <=> x \in ToSet(keys) /\ x \in named
  BY <1>1, SelectFacts DEF found
<1>5. ToSet(found) # {}
  BY <1>2, <1>4, EmptyHasNone
<1>6. named # {}
  BY <1>4, <1>5
<1>7. QED BY <1>3, <1>6

LEMMA TryFacts ==
  ASSUME NEW strategy, NEW token, NEW at, IsStrategy(strategy), Try(strategy, token, at).ok,
         NEW identity, identity = Try(strategy, token, at).identity
  PROVE  /\ Try(strategy, token, at) = Granted(identity)
         /\ token.kind \in {"jwt", "key"}
<1>1. CASE strategy.type = "jwt"
  <2>1. Try(strategy, token, at) = Jwt(strategy, token, at)
    BY <1>1 DEF Try
  <2>2. Decodes(strategy, token)
    BY <2>1 DEF Jwt, Denied
  <2>3. ~Expired(token, at)
    BY <2>1, <2>2 DEF Jwt, Denied
  <2>4. Jwt(strategy, token, at) = IF token.sub = None THEN Denied("InvalidToken")
                                   ELSE Granted(JwtIdentity(token))
    BY <2>2, <2>3 DEF Jwt
  <2>5. token.sub # None
    BY <2>1, <2>4 DEF Denied
  <2>6. Try(strategy, token, at) = Granted(JwtIdentity(token))
    BY <2>1, <2>4, <2>5
  <2>7. identity = JwtIdentity(token)
    BY <2>6 DEF Granted
  <2>8. token.kind = "jwt"
    BY <2>2 DEF Decodes
  <2>9. QED BY <2>6, <2>7, <2>8
<1>2. CASE strategy.type = "api_key"
  <2> DEFINE entries == Entries(strategy, token)
             given == Identity(Last(entries).identity_sub, Last(entries).roles,
                               Last(entries).scopes)
  <2>1. Try(strategy, token, at) = IF entries = <<>> THEN Denied("UnknownApiKey")
                                   ELSE Granted(given)
    BY <1>2 DEF Try, ApiKey
  <2>2. entries # <<>>
    BY <2>1 DEF Denied
  <2>3. Try(strategy, token, at) = Granted(given)
    BY <2>1, <2>2
  <2>4. identity = given
    BY <2>3 DEF Granted
  <2>5. token.kind = "key"
    BY <1>2, <2>2, EntriesFacts DEF IsStrategy
  <2>6. QED BY <2>3, <2>4, <2>5
<1>3. QED BY <1>1, <1>2 DEF IsStrategy

(* The strategy that decides, for a credential that was accepted.          *)
Decides(i, strategies, token, at, identity) ==
  /\ token # None
  /\ Accepts(i, strategies, token, at)
  /\ Try(strategies[i], token, at) = Granted(identity)
  /\ token.kind \in {"jwt", "key"}

LEMMA GateFacts ==
  ASSUME NEW c \in AuthConfigs, NEW request, NEW at,
         NEW result, result = Authenticate(c, request, at), result.ok
  PROVE  /\ ~c.enabled => result.identity = Anonymous
         /\ c.enabled => \E i \in DOMAIN c.strategies :
                           Decides(i, c.strategies, Presented(request), at, result.identity)
<1> DEFINE token      == Presented(request)
           strategies == c.strategies
<1>1. /\ c.enabled \in BOOLEAN /\ strategies \in Seq(ToSet(strategies))
      /\ \A strategy \in ToSet(strategies) : IsStrategy(strategy)
  BY GateAssumption DEF IsStrategy
<1>2. CASE ~c.enabled
  <2>1. result = Granted(Anonymous)
    BY <1>2 DEF Authenticate
  <2>2. QED BY <1>2, <2>1 DEF Granted
<1>3. CASE c.enabled
  <2>1. token # None
    BY <1>3 DEF Authenticate, Denied
  <2>2. result = TryAll(strategies, token, at)
    BY <1>3, <2>1 DEF Authenticate
  <2> HIDE DEF token, strategies
  <2>3. PICK i \in DOMAIN strategies :
          /\ Accepts(i, strategies, token, at)
          /\ result = Try(strategies[i], token, at)
    BY <1>1, <2>2, TryAllFirst
  <2>4. IsStrategy(strategies[i])
    BY <1>1 DEF ToSet
  <2>5. /\ Try(strategies[i], token, at) = Granted(result.identity)
        /\ token.kind \in {"jwt", "key"}
    BY <2>3, <2>4, TryFacts
  <2>6. Decides(i, strategies, token, at, result.identity)
    BY <2>1, <2>3, <2>5 DEF Decides
  <2>7. QED BY <1>3, <2>6 DEF token, strategies
<1>4. QED BY <1>1, <1>2, <1>3

(* What create_session relies on.                                          *)
Proved(c, request, at, identity) ==
  LET result == Authenticate(c, request, at)
  IN  result.ok /\ result.identity = identity

LEMMA ProvedMayBe ==
  ASSUME config \in AuthConfigs, NEW request, NEW at, NEW identity,
         Proved(config, request, at, identity)
  PROVE  MayBe(request, at, identity)
<1> DEFINE token == Presented(request)
<1>1. /\ ~config.enabled => identity = Anonymous
      /\ config.enabled =>
           \E i \in DOMAIN config.strategies : Decides(i, config.strategies, token, at, identity)
  BY GateFacts DEF Proved
<1>2. CASE ~config.enabled
  BY <1>1, <1>2 DEF MayBe
<1>3. CASE config.enabled
  <2>1. PICK i \in DOMAIN config.strategies :
               Decides(i, config.strategies, token, at, identity)
    BY <1>1, <1>3
  <2>2. token.kind \in {"jwt", "key"}
    BY <2>1 DEF Decides
  <2>3. IF Legible(request.authorization)
        THEN /\ token = request.authorization.token
             /\ request.authorization.scheme \in {"Bearer", "none"}
        ELSE token = request.api_key
    BY <2>2 DEF Presented
  <2>4. token \in {request.api_key} \cup
                   (IF request.authorization = None THEN {} ELSE {request.authorization.token})
    BY <2>3 DEF Legible
  <2>5. /\ token # None
        /\ Try(config.strategies[i], token, at) = Granted(identity)
        /\ \A j \in 1 .. i - 1 : ~Try(config.strategies[j], token, at).ok
    BY <2>1 DEF Decides, Accepts
  <2> HIDE DEF token
  <2>6. QED BY <1>3, <2>3, <2>4, <2>5 DEF MayBe
<1>4. QED BY <1>2, <1>3, GateAssumption

-----------------------------------------------------------------------------
(* Every session was created for an identity that the gate gave.           *)
Provenance ==
  /\ \A id \in 1 .. created : Proved(config, origin[id].request, origin[id].at, origin[id].identity)
  /\ \A id \in DOMAIN sessions : sessions[id].identity_sub = origin[id].identity.sub

LEMMA ProvenanceStands ==
  ASSUME IInv, Provenance, UNCHANGED <<config, origin, created>>,
         \A id \in DOMAIN sessions' :
           sessions'[id].identity_sub = origin[id].identity.sub
  PROVE  Provenance'
BY DEF Provenance

LEMMA ProvenanceBegin ==
  ASSUME IInv, Provenance,
         NEW c \in Callers, NEW request \in Requests, NEW duration \in Durations,
         Begin(c, request, duration)
  PROVE  Provenance'
<1> DEFINE result == Authenticate(config, request, now)
           entry  == [request |-> request, at |-> now, identity |-> result.identity,
                      run |-> restarts]
<1>1. /\ result.ok /\ created' = created + 1 /\ origin' = Append(origin, entry)
      /\ UNCHANGED <<config, now, sessions>>
  BY DEF Begin
<1>2. entry.request = request /\ entry.at = now /\ entry.identity = result.identity
  OBVIOUS
<1>3. now \in Times /\ config \in AuthConfigs /\ restarts \in 0 .. MaxRestarts
  BY DEF IInv, TypeOK, Times
<1>4. Proved(config, entry.request, entry.at, entry.identity)
  BY <1>1, <1>2 DEF Proved
<1>5. entry \in Origins
  <2>1. result.identity \in Identities
    BY <1>3 DEF Identities
  <2> HIDE DEF result
  <2>2. QED BY <1>3, <2>1 DEF Origins
<1> HIDE DEF entry
<1>6. origin \in Seq(Origins) /\ Len(origin) = created /\ created \in Nat
  BY OriginFacts DEF IInv
<1>7. /\ \A i \in 1 .. created : origin'[i] = origin[i]
      /\ origin'[created + 1] = entry
  BY <1>1, <1>5, <1>6, AppendFacts
<1>8. \A id \in 1 .. created' : id \in 1 .. created \/ id = created + 1
  BY <1>1, <1>6
<1>9. DOMAIN sessions \subseteq 1 .. created
  BY DEF IInv, TypeOK
<1> HIDE DEF result
<1>10. \A id \in 1 .. created' :
         Proved(config, origin'[id].request, origin'[id].at, origin'[id].identity)
  BY <1>4, <1>7, <1>8 DEF Provenance
<1>11. \A id \in DOMAIN sessions : sessions[id].identity_sub = origin'[id].identity.sub
  BY <1>7, <1>9 DEF Provenance
<1>12. QED BY <1>1, <1>10, <1>11 DEF Provenance

LEMMA ProvenanceStep ==
  ASSUME IInv, Provenance, [Next]_vars
  PROVE  Provenance'
<1>1. \A id \in DOMAIN sessions : sessions[id].identity_sub = origin[id].identity.sub
  BY DEF Provenance
<1>2. CASE Tick
  BY <1>1, <1>2, ProvenanceStands DEF Tick
<1>3. CASE Restart
  <2>1. sessions' = <<>> /\ DOMAIN sessions' = {} /\ UNCHANGED <<config, origin, created>>
    BY <1>3 DEF Restart
  <2>2. QED BY <2>1, ProvenanceStands
<1>4. ASSUME NEW c \in Callers, Store(c)
      PROVE  Provenance'
  <2> DEFINE session == handling[c]
  <2>1. /\ session # None /\ UNCHANGED <<config, origin, created>>
        /\ sessions' = [id \in DOMAIN sessions \cup {session.id} |->
                          IF id = session.id
                          THEN [identity_sub |-> session.sub, expires_at |-> session.expires_at]
                          ELSE sessions[id]]
    BY <1>4 DEF Store
  <2>2. session.sub = origin[session.id].identity.sub
    BY <2>1 DEF IInv, TypeOK, Minted
  <2> HIDE DEF session
  <2>3. \A id \in DOMAIN sessions' :
          sessions'[id].identity_sub = IF id = session.id THEN session.sub
                                       ELSE sessions[id].identity_sub
    BY <2>1
  <2>4. \A id \in DOMAIN sessions' : id = session.id \/ id \in DOMAIN sessions
    BY <2>1
  <2>5. \A id \in DOMAIN sessions' : sessions'[id].identity_sub = origin[id].identity.sub
    BY <1>1, <2>2, <2>3, <2>4
  <2>6. QED BY <2>1, <2>5, ProvenanceStands
<1>5. ASSUME NEW c \in Callers, Abandon(c)
      PROVE  Provenance'
  BY <1>1, <1>5, ProvenanceStands DEF Abandon
<1>6. CASE \E c \in Callers, request \in Requests, duration \in Durations :
             Begin(c, request, duration)
  BY <1>6, ProvenanceBegin
<1>7. CASE \E token \in tokens : Upgrade(token)
  BY <1>1, <1>7, ProvenanceStands DEF Upgrade
<1>8. CASE UNCHANGED vars
  BY <1>1, <1>8, ProvenanceStands DEF vars
<1>9. QED BY <1>2, <1>3, <1>4, <1>5, <1>6, <1>7, <1>8 DEF Next

LEMMA ProvenanceHolds == Spec => []Provenance
<1>1. Init => Provenance
  BY DEF Init, Provenance
<1>2. IInv /\ Provenance /\ [Next]_vars => Provenance'
  BY ProvenanceStep
<1>3. QED BY <1>1, <1>2, Invariance, PTL DEF Spec

LEMMA GrantedKept == IInv /\ Provenance => SessionsAreGranted
<1> SUFFICES ASSUME IInv, Provenance, NEW id \in DOMAIN sessions
             PROVE  /\ MayBe(origin[id].request, origin[id].at, origin[id].identity)
                    /\ sessions[id].identity_sub = origin[id].identity.sub
  BY DEF SessionsAreGranted
<1>1. id \in 1 .. created /\ config \in AuthConfigs
  BY DEF IInv, TypeOK
<1>2. Proved(config, origin[id].request, origin[id].at, origin[id].identity)
  BY <1>1 DEF Provenance
<1>3. QED BY <1>1, <1>2, ProvedMayBe DEF Provenance

-----------------------------------------------------------------------------
(* TypeOK: every session, token and pending request has an id that was     *)
(* drawn for the identity it names.                                        *)
THEOREM TypeCorrect == Spec => []TypeOK
<1>1. IInv => TypeOK
  BY DEF IInv
<1>2. QED BY <1>1, Invariance, PTL

(* SocketsAreAuthentic: through any number of restarts, a socket serves a  *)
(* session of the present run that had not expired at its upgrade.         *)
THEOREM AuthenticTheorem == Spec => []SocketsAreAuthentic
<1>1. IInv => SocketsAreAuthentic
  BY DEF IInv
<1>2. QED BY <1>1, Invariance, PTL

(* SessionsAreGranted: with any list of strategies, the loop of            *)
(* IngressGate::authenticate gives a session the identity that the first   *)
(* accepting strategy made of the leading credential, and create_session   *)
(* stores that one although it lets go of the request before it has the    *)
(* lock.                                                                   *)
THEOREM GrantedTheorem == Spec => []SessionsAreGranted
<1>1. QED BY GrantedKept, Invariance, ProvenanceHolds, PTL
=============================================================================
