------------------------ MODULE SatelliteClientProofs ------------------------
(***************************************************************************)
(* Proofs about SatelliteClient for any number of calls, sockets,          *)
(* proposals and attempts, any rate limit and window, and any answers of   *)
(* the network and the tools.                                              *)
(***************************************************************************)
EXTENDS SatelliteClient, SequenceLemmas

SocketRecords == [state : {"connecting", "open", "closing", "closed"},
                  by : {"connect", "loop"}, ours : BOOLEAN]

(* The connection's half of TypeOK.                                        *)
IInv ==
  /\ attempt \in 0 .. MaxReconnectAttempts
  /\ sockets \in Seq(SocketRecords)
  /\ transport \in 0 .. Len(sockets)
  /\ sleeping \in Nat /\ fetching \in Nat

-----------------------------------------------------------------------------
LEMMA AppendFacts ==
  ASSUME NEW S, NEW s \in Seq(S), NEW e \in S
  PROVE  /\ Append(s, e) \in Seq(S)
         /\ Len(s) \in Nat /\ Len(Append(s, e)) = Len(s) + 1
OBVIOUS

(* A socket that is changed is still one of as many.                       *)
LEMMA ExceptFacts ==
  ASSUME NEW S, NEW s \in Seq(S), NEW i \in DOMAIN s, NEW e \in S
  PROVE  /\ [s EXCEPT ![i] = e] \in Seq(S)
         /\ Len([s EXCEPT ![i] = e]) = Len(s)
OBVIOUS

LEMMA StateFacts ==
  ASSUME sockets \in Seq(SocketRecords), NEW i \in Created,
         NEW state \in {"connecting", "open", "closing", "closed"},
         sockets' = [sockets EXCEPT ![i].state = state]
  PROVE  sockets' \in Seq(SocketRecords) /\ Len(sockets') = Len(sockets)
<1> DEFINE e == [sockets[i] EXCEPT !.state = state]
<1>1. sockets[i] \in SocketRecords
  BY DEF Created
<1>2. e \in SocketRecords
  BY <1>1 DEF SocketRecords
<1>3. sockets' = [sockets EXCEPT ![i] = e]
  OBVIOUS
<1> HIDE DEF e
<1>4. QED BY <1>2, <1>3, ExceptFacts DEF Created

LEMMA OpenFacts ==
  ASSUME sockets \in Seq(SocketRecords), NEW by \in {"connect", "loop"}, OpenTransport(by)
  PROVE  /\ sockets' \in Seq(SocketRecords) /\ Len(sockets') = Len(sockets) + 1
         /\ transport' \in 0 .. Len(sockets')
<1> DEFINE e == [state |-> "connecting", by |-> by, ours |-> FALSE]
<1>1. e \in SocketRecords
  BY DEF SocketRecords
<1>2. sockets' = Append(sockets, e) /\ transport' = Len(sockets) + 1
  BY DEF OpenTransport
<1> HIDE DEF e
<1>3. QED BY <1>1, <1>2, AppendFacts

(* The head of the loop never counts past the maximum.                     *)
LEMMA TryAgainFacts ==
  ASSUME attempt \in 0 .. MaxReconnectAttempts, NEW others \in Nat, TryAgain(others)
  PROVE  attempt' \in 0 .. MaxReconnectAttempts /\ sleeping' \in Nat
BY ClientAssumption DEF TryAgain

(* disconnect changes the transport and no other socket.                   *)
LEMMA DisconnectFacts ==
  ASSUME sockets \in Seq(SocketRecords), Disconnect
  PROVE  sockets' \in Seq(SocketRecords) /\ Len(sockets') = Len(sockets)
<1>1. Len(sockets) \in Nat /\ Created = 1 .. Len(sockets)
      /\ \A i \in Created : sockets[i] \in SocketRecords
  BY DEF Created
<1>2. ASSUME NEW i \in Created
      PROVE  (IF i = transport /\ Alive(i)
              THEN [sockets[i] EXCEPT !.state = "closing", !.ours = TRUE]
              ELSE sockets[i]) \in SocketRecords
  BY <1>1 DEF SocketRecords
<1>3. sockets' \in [1 .. Len(sockets) -> SocketRecords]
  BY <1>1, <1>2 DEF Disconnect
<1>4. QED BY <1>1, <1>3

-----------------------------------------------------------------------------
LEMMA InitIInv == Init => IInv
<1> SUFFICES ASSUME Init PROVE IInv
  OBVIOUS
<1>1. /\ sockets = <<>> /\ Len(sockets) = 0 /\ transport = 0 /\ attempt = 0
      /\ sleeping = 0 /\ fetching = 0
  BY DEF Init, NoSocket
<1>2. QED BY <1>1, ClientAssumption DEF IInv

(* Every step keeps the invariant, and opens a socket only if it is        *)
(* FetchSucceeds or Wake of a client that is not closed.                   *)
LEMMA StepFacts ==
  ASSUME IInv, [Next]_vars
  PROVE  /\ IInv'
         /\ \/ Len(sockets') = Len(sockets)
            \/ fetching > 0
            \/ ~closed
<1>1. /\ attempt \in 0 .. MaxReconnectAttempts /\ sockets \in Seq(SocketRecords)
      /\ transport \in 0 .. Len(sockets) /\ sleeping \in Nat /\ fetching \in Nat
      /\ 0 \in 0 .. MaxReconnectAttempts
  BY ClientAssumption DEF IInv
<1>2. CASE Tick \/ UNCHANGED vars
  BY <1>1, <1>2 DEF Tick, vars, clientVars, IInv
<1>3. CASE Connect \/ FetchFails
  BY <1>1, <1>3 DEF Connect, FetchFails, IInv
<1>4. CASE FetchSucceeds
  <2>1. fetching > 0 /\ fetching' = fetching - 1 /\ UNCHANGED <<attempt, sleeping>>
    BY <1>4 DEF FetchSucceeds
  <2>2. sockets' \in Seq(SocketRecords) /\ transport' \in 0 .. Len(sockets')
    <3>1. CASE OpenTransport("connect")
      BY <1>1, <3>1, OpenFacts
    <3>2. CASE UNCHANGED <<sockets, transport>>
      BY <1>1, <3>2
    <3>3. QED BY <1>4, <3>1, <3>2 DEF FetchSucceeds
  <2>3. QED BY <1>1, <2>1, <2>2 DEF IInv
<1>5. CASE Disconnect
  <2>1. sockets' \in Seq(SocketRecords) /\ Len(sockets') = Len(sockets)
    BY <1>1, <1>5, DisconnectFacts
  <2>2. transport' = 0 /\ UNCHANGED <<attempt, sleeping, fetching>>
    BY <1>5 DEF Disconnect, NoSocket
  <2>3. Len(sockets') \in Nat
    BY <2>1
  <2>4. QED BY <1>1, <2>1, <2>2, <2>3 DEF IInv
<1>6. CASE Wake
  <2>1. sleeping - 1 \in Nat /\ UNCHANGED <<closed, fetching>>
    BY <1>1, <1>6 DEF Wake
  <2>2. CASE closed
    BY <1>1, <1>6, <2>1, <2>2 DEF Wake, IInv
  <2>3. CASE ~closed /\ OpenTransport("loop") /\ attempt' = 0 /\ sleeping' = sleeping - 1
    BY <1>1, <2>1, <2>3, OpenFacts DEF IInv
  <2>4. CASE ~closed /\ TryAgain(sleeping - 1) /\ UNCHANGED <<sockets, transport>>
    BY <1>1, <2>1, <2>4, TryAgainFacts DEF IInv
  <2>5. QED BY <1>6, <2>2, <2>3, <2>4 DEF Wake
<1>7. ASSUME NEW i \in Created, SocketOpens(i)
      PROVE  IInv' /\ Len(sockets') = Len(sockets)
  <2>1. sockets' \in Seq(SocketRecords) /\ Len(sockets') = Len(sockets)
    BY <1>1, <1>7, StateFacts DEF SocketOpens
  <2>2. UNCHANGED clientVars
    BY <1>7 DEF SocketOpens
  <2>3. QED BY <1>1, <2>1, <2>2 DEF IInv, clientVars
<1>8. ASSUME NEW i \in Created, SocketCloses(i)
      PROVE  IInv' /\ Len(sockets') = Len(sockets)
  <2>1. sockets' \in Seq(SocketRecords) /\ Len(sockets') = Len(sockets)
    BY <1>1, <1>8, StateFacts DEF SocketCloses
  <2>2. UNCHANGED <<transport, fetching>>
    BY <1>8 DEF SocketCloses
  <2>3. attempt' \in 0 .. MaxReconnectAttempts /\ sleeping' \in Nat
    BY <1>1, <1>8, TryAgainFacts DEF SocketCloses
  <2>4. QED BY <1>1, <2>1, <2>2, <2>3 DEF IInv
<1>9. CASE \/ \E i \in Created : ReceiveUnknown(i) \/ ReceiveLimited(i) \/ Receive(i)
           \/ \E j \in DOMAIN jobs : ToolSettles(j) \/ ToolTimesOut(j)
  <2>1. UNCHANGED <<clientVars, sockets>>
    BY <1>9 DEF ReceiveUnknown, ReceiveLimited, Receive, ToolSettles, ToolTimesOut
  <2>2. QED BY <1>1, <2>1 DEF IInv, clientVars
<1>10. QED BY <1>2, <1>3, <1>4, <1>5, <1>6, <1>7, <1>8, <1>9 DEF Next

LEMMA Invariance == Spec => []IInv
<1>1. Init => IInv
  BY InitIInv
<1>2. IInv /\ [Next]_vars => IInv'
  BY StepFacts
<1>3. QED BY <1>1, <1>2, PTL DEF Spec

-----------------------------------------------------------------------------
(* ClosedStaysQuiet: however many reconnect loops are left over from       *)
(* before, none of them opens a socket for a client that is closed.        *)
THEOREM QuietTheorem == Spec => ClosedStaysQuiet
<1>1. IInv /\ [Next]_vars =>
        [closed /\ closed' /\ fetching = 0 => Len(sockets') = Len(sockets)]_vars
  <2> SUFFICES ASSUME IInv, [Next]_vars, closed, fetching = 0
               PROVE  Len(sockets') = Len(sockets)
    OBVIOUS
  <2>1. QED BY StepFacts
<1>2. QED BY <1>1, Invariance, PTL DEF Spec, ClosedStaysQuiet

-----------------------------------------------------------------------------
(* The rest of TypeOK: the flags, the counters and the proposals.          *)
Jobs == {"running", "answered", "lost", "unserialisable"}

RestInv ==
  /\ closed \in BOOLEAN /\ gaveUp \in BOOLEAN /\ threw \in BOOLEAN
  /\ connects \in 0 .. MaxConnects /\ fetching \in 0 .. connects
  /\ Len(sockets) <= MaxSockets
  /\ jobs \in Seq(Jobs) /\ Len(jobs) <= MaxProposals
  /\ now \in 0 .. MaxTime /\ failures \in Nat

(* The times at which an invocation is in the window that ends at t.       *)
InWindow(t) == {s \in 0 .. t : t < s + RateLimitWindow}

(* The bound on invocations is not inductive: it says nothing of what the  *)
(* guardrails remember.  They remember every invocation that is fresh, so  *)
(* that a bucket below the limit means so many invocations in the window.  *)
Remembered ==
  \A S \in SUBSET {t \in 0 .. now : Fresh(t)} : Count(invoked, S) <= Count(stamps, S)

GuardInv ==
  /\ stamps \in Seq(0 .. now) /\ invoked \in Seq(0 .. now)
  /\ Remembered
  /\ InvocationRate

ClientInv == IInv /\ RestInv /\ GuardInv

-----------------------------------------------------------------------------
LEMMA ClientInit == Init => ClientInv
<1> SUFFICES ASSUME Init PROVE ClientInv
  OBVIOUS
<1>1. RestInv
  <2>1. Len(sockets) = 0 /\ jobs = <<>> /\ Len(jobs) = 0 /\ jobs \in Seq(Jobs)
    BY DEF Init
  <2>2. 0 \in 0 .. MaxConnects /\ 0 \in 0 .. 0 /\ 0 \in 0 .. MaxTime
        /\ 0 <= MaxSockets /\ 0 <= MaxProposals
    BY ClientAssumption
  <2>3. QED BY <2>1, <2>2 DEF Init, RestInv
<1>2. GuardInv
  <2>1. stamps = <<>> /\ invoked = <<>> /\ stamps \in Seq(0 .. now) /\ invoked \in Seq(0 .. now)
    BY DEF Init
  <2>2. \A S : Count(invoked, S) = 0 /\ Count(stamps, S) = 0
    BY <2>1, CountEmpty
  <2>3. Remembered
    BY <2>2 DEF Remembered
  <2>4. InvocationRate
    BY <2>2, ClientAssumption DEF InvocationRate
  <2>5. QED BY <2>1, <2>3, <2>4 DEF GuardInv
<1>3. QED BY <1>1, <1>2, InitIInv DEF ClientInv

(* An answer, or the start of a tool, is noted at the end of the jobs.     *)
LEMMA JobFacts ==
  ASSUME jobs \in Seq(Jobs), Len(jobs) < MaxProposals, NEW e \in Jobs, jobs' = Append(jobs, e)
  PROVE  jobs' \in Seq(Jobs) /\ Len(jobs') <= MaxProposals
BY AppendFacts, ClientAssumption

LEMMA SentFacts == Sent \in Jobs
BY DEF Sent, Jobs

LEMMA RestStep ==
  ASSUME IInv, RestInv, [Next]_vars
  PROVE  RestInv'
<1>1. /\ closed \in BOOLEAN /\ gaveUp \in BOOLEAN /\ threw \in BOOLEAN
      /\ connects \in 0 .. MaxConnects /\ fetching \in 0 .. connects
      /\ Len(sockets) <= MaxSockets /\ Len(sockets) \in Nat
      /\ jobs \in Seq(Jobs) /\ Len(jobs) <= MaxProposals
      /\ now \in 0 .. MaxTime /\ failures \in Nat
  BY DEF RestInv, IInv
<1>2. sockets \in Seq(SocketRecords)
  BY DEF IInv
<1>3. ASSUME NEW by \in {"connect", "loop"}, OpenTransport(by)
      PROVE  Len(sockets') <= MaxSockets
  <2>1. Len(sockets') = Len(sockets) + 1 /\ Len(sockets) < MaxSockets
    BY <1>2, <1>3, OpenFacts DEF OpenTransport
  <2>2. QED BY <1>1, <2>1, ClientAssumption
<1>4. CASE Tick \/ UNCHANGED vars
  <2>1. UNCHANGED <<clientVars, toolVars, sockets, history>>
    BY <1>4 DEF Tick, vars
  <2>2. now' \in 0 .. MaxTime
    BY <1>1, <1>4, ClientAssumption DEF Tick, vars
  <2>3. QED BY <1>1, <2>1, <2>2 DEF clientVars, toolVars, history, RestInv
<1>5. CASE Connect
  <2>1. connects' \in 0 .. MaxConnects /\ fetching' \in 0 .. connects'
    BY <1>1, <1>5, ClientAssumption DEF Connect
  <2>2. QED BY <1>1, <1>5, <2>1 DEF Connect, toolVars, RestInv
<1>6. CASE FetchFails
  <2>1. fetching' \in 0 .. connects
    BY <1>1, <1>6, ClientAssumption DEF FetchFails
  <2>2. QED BY <1>1, <1>6, <2>1 DEF FetchFails, toolVars, RestInv
<1>7. CASE FetchSucceeds
  <2>1. fetching' \in 0 .. connects /\ UNCHANGED <<closed, gaveUp, jobs, now, connects, failures>>
    BY <1>1, <1>7, ClientAssumption DEF FetchSucceeds
  <2>2. Len(sockets') <= MaxSockets /\ threw' \in BOOLEAN
    BY <1>1, <1>3, <1>7 DEF FetchSucceeds
  <2>3. QED BY <1>1, <2>1, <2>2 DEF RestInv
<1>8. CASE Disconnect
  <2>1. Len(sockets') = Len(sockets) /\ closed' = TRUE
    BY <1>2, <1>8, DisconnectFacts DEF Disconnect
  <2>2. QED BY <1>1, <1>8, <2>1 DEF Disconnect, toolVars, history, RestInv
<1>9. CASE Wake
  <2>1. Len(sockets') <= MaxSockets /\ gaveUp' \in BOOLEAN
    BY <1>1, <1>3, <1>9 DEF Wake, TryAgain
  <2>2. QED BY <1>1, <1>9, <2>1 DEF Wake, toolVars, history, RestInv
<1>10. ASSUME NEW i \in Created, SocketOpens(i)
       PROVE  RestInv'
  <2>1. Len(sockets') = Len(sockets)
    BY <1>2, <1>10, StateFacts DEF SocketOpens
  <2>2. QED BY <1>1, <1>10, <2>1 DEF SocketOpens, clientVars, toolVars, RestInv
<1>11. ASSUME NEW i \in Created, SocketCloses(i)
       PROVE  RestInv'
  <2>1. Len(sockets') = Len(sockets)
    BY <1>2, <1>11, StateFacts DEF SocketCloses
  <2>2. gaveUp' \in BOOLEAN
    BY <1>1, <1>11 DEF SocketCloses, TryAgain
  <2>3. failures' \in Nat
    BY <1>1, <1>11 DEF SocketCloses, CountFailure
  <2>4. QED BY <1>1, <1>11, <2>1, <2>2, <2>3 DEF SocketCloses, toolVars, RestInv
<1>12. ASSUME NEW i \in Created, ReceiveUnknown(i) \/ ReceiveLimited(i) \/ Receive(i)
       PROVE  RestInv'
  <2>1. jobs' \in Seq(Jobs) /\ Len(jobs') <= MaxProposals
    <3>1. PICK e \in Jobs : jobs' = Append(jobs, e)
      BY <1>12, SentFacts DEF ReceiveUnknown, ReceiveLimited, Receive, Jobs
    <3>2. Len(jobs) < MaxProposals
      BY <1>12 DEF ReceiveUnknown, ReceiveLimited, Receive
    <3>3. QED BY <1>1, <3>1, <3>2, JobFacts
  <2>2. UNCHANGED <<clientVars, sockets, now, history>>
    BY <1>12 DEF ReceiveUnknown, ReceiveLimited, Receive
  <2>3. QED BY <1>1, <2>1, <2>2 DEF clientVars, history, RestInv
<1>13. ASSUME NEW j \in DOMAIN jobs, ToolSettles(j) \/ ToolTimesOut(j)
       PROVE  RestInv'
  <2>1. jobs' \in Seq(Jobs) /\ Len(jobs') = Len(jobs)
    <3>1. PICK e \in Jobs : jobs' = [jobs EXCEPT ![j] = e]
      BY <1>13, SentFacts DEF ToolSettles, ToolTimesOut, Jobs
    <3>2. QED BY <1>1, <3>1, ExceptFacts
  <2>2. UNCHANGED <<clientVars, sockets, now, history>>
    BY <1>13 DEF ToolSettles, ToolTimesOut
  <2>3. QED BY <1>1, <2>1, <2>2 DEF clientVars, history, RestInv
<1>14. QED BY <1>4, <1>5, <1>6, <1>7, <1>8, <1>9, <1>10, <1>11, <1>12, <1>13 DEF Next

-----------------------------------------------------------------------------
(* Time only shrinks the set of fresh timestamps and the windows.          *)
LEMMA TickGuard ==
  ASSUME RestInv, GuardInv, Tick
  PROVE  GuardInv'
<1>1. /\ now \in Nat /\ now' = now + 1 /\ stamps' = stamps /\ invoked' = invoked
      /\ stamps \in Seq(0 .. now) /\ invoked \in Seq(0 .. now)
      /\ RateLimitWindow \in Nat /\ RateLimitPerTool \in Nat
  BY ClientAssumption DEF Tick, toolVars, RestInv, GuardInv
<1>2. stamps' \in Seq(0 .. now') /\ invoked' \in Seq(0 .. now')
  BY <1>1
<1>3. Remembered'
  <2> SUFFICES ASSUME NEW S \in SUBSET {t \in 0 .. now' : t + RateLimitWindow > now'}
               PROVE  Count(invoked, S) <= Count(stamps, S)
    BY <1>1 DEF Remembered, Fresh
  <2> DEFINE R == S \cap 0 .. now
  <2>1. R \in SUBSET {t \in 0 .. now : Fresh(t)}
    BY <1>1 DEF Fresh
  <2>2. Count(invoked, R) <= Count(stamps, R)
    BY <2>1 DEF GuardInv, Remembered
  <2>3. (\A i \in DOMAIN invoked : invoked[i] \in S => invoked[i] \in R)
        /\ (\A i \in DOMAIN stamps : stamps[i] \in R => stamps[i] \in S)
    BY <1>1
  <2> HIDE DEF R
  <2>4. Count(invoked, S) <= Count(invoked, R) /\ Count(stamps, R) <= Count(stamps, S)
    BY <1>1, <2>3, CountFacts
  <2>5. Count(invoked, S) \in Nat /\ Count(invoked, R) \in Nat
        /\ Count(stamps, S) \in Nat /\ Count(stamps, R) \in Nat
    BY <1>1, CountFacts
  <2>6. QED BY <2>2, <2>4, <2>5
<1>4. InvocationRate'
  <2> SUFFICES ASSUME NEW t \in 0 .. now'
               PROVE  Count(invoked, InWindow(t)) <= RateLimitPerTool
    BY <1>1 DEF InvocationRate, InWindow
  <2>1. CASE t \in 0 .. now
    BY <2>1 DEF GuardInv, InvocationRate, InWindow
  <2>2. CASE t = now + 1
    <3>1. \A i \in DOMAIN invoked : invoked[i] \in InWindow(t) => invoked[i] \in InWindow(now)
      BY <1>1, <2>2 DEF InWindow
    <3>2. Count(invoked, InWindow(now)) <= RateLimitPerTool
      BY <1>1 DEF GuardInv, InvocationRate, InWindow
    <3>3. Count(invoked, InWindow(t)) <= Count(invoked, InWindow(now))
      BY <1>1, <3>1, CountFacts
    <3>4. Count(invoked, InWindow(t)) \in Nat /\ Count(invoked, InWindow(now)) \in Nat
      BY <1>1, CountFacts
    <3>5. QED BY <1>1, <3>2, <3>3, <3>4
  <2>3. QED BY <1>1, <2>1, <2>2
<1>5. QED BY <1>2, <1>3, <1>4 DEF GuardInv

(* The window holds what is fresh and forgets nothing that is.             *)
LEMMA WindowFacts ==
  ASSUME RestInv, GuardInv
  PROVE  /\ Window \in Seq(0 .. now) /\ Len(Window) \in Nat
         /\ \A S \in SUBSET {t \in 0 .. now : Fresh(t)} : Count(Window, S) = Count(stamps, S)
         /\ Count(stamps, {t \in 0 .. now : Fresh(t)}) = Len(Window)
<1> DEFINE F == {t \in 0 .. now : Fresh(t)}
<1>1. stamps \in Seq(0 .. now) /\ Window = Select(stamps, F)
  BY DEF GuardInv, Window
<1> HIDE DEF F
<1>2. Window \in Seq(0 .. now) /\ \A x : x \in ToSet(Window) <=> x \in ToSet(stamps) /\ x \in F
  BY <1>1, SelectFacts
<1>3. Len(Window) \in Nat /\ DOMAIN Window = 1 .. Len(Window)
  BY <1>2
<1>4. \A S : Count(Window, S) = Count(stamps, F \cap S)
  BY <1>1, CountSelect
<1>5. \A S \in SUBSET F : Count(Window, S) = Count(stamps, S)
  <2>1. \A S \in SUBSET F : F \cap S = S
    OBVIOUS
  <2>2. QED BY <1>4, <2>1
<1>6. Count(Window, F) = Len(Window)
  <2>1. {i \in DOMAIN Window : Window[i] \in F} = 1 .. Len(Window)
    BY <1>2, <1>3 DEF ToSet
  <2>2. Cardinality(1 .. Len(Window)) = Len(Window)
    <3>1. 1 \in Int /\ Len(Window) \in Int
      BY <1>3
    <3>2. Cardinality(1 .. Len(Window)) =
            IF 1 > Len(Window) THEN 0 ELSE Len(Window) - 1 + 1
      BY <3>1, FS_Interval
    <3>3. QED BY <1>3, <3>2
  <2>3. QED BY <2>1, <2>2 DEF Count
<1>7. QED BY <1>2, <1>3, <1>5, <1>6 DEF F

(* A rejected proposal only tidies the bucket.                             *)
LEMMA LimitedGuard ==
  ASSUME RestInv, GuardInv, UNCHANGED <<now, invoked>>, stamps' = Window
  PROVE  GuardInv'
<1>1. stamps' \in Seq(0 .. now) /\ invoked \in Seq(0 .. now)
  BY WindowFacts DEF GuardInv
<1>2. Remembered'
  <2> SUFFICES ASSUME NEW S \in SUBSET {t \in 0 .. now : Fresh(t)}
               PROVE  Count(invoked, S) <= Count(Window, S)
    BY DEF Remembered, Fresh
  <2>1. QED BY WindowFacts DEF GuardInv, Remembered
<1>3. InvocationRate'
  BY DEF GuardInv, InvocationRate
<1>4. QED BY <1>1, <1>2, <1>3 DEF GuardInv

(* A charge, and an invocation that goes with it, fits below the limit.    *)
LEMMA ReceiveGuard ==
  ASSUME RestInv, GuardInv, ~Limited, now' = now, stamps' = Append(Window, now),
         invoked' \in {invoked, Append(invoked, now)}
  PROVE  GuardInv'
<1> DEFINE F == {t \in 0 .. now : Fresh(t)}
           one(S) == IF now \in S THEN 1 ELSE 0
<1>1. /\ now \in Nat /\ now \in 0 .. now /\ invoked \in Seq(0 .. now)
      /\ RateLimitWindow \in Nat /\ RateLimitPerTool \in Nat
  BY ClientAssumption DEF RestInv, GuardInv
<1>2. /\ Window \in Seq(0 .. now) /\ Len(Window) \in Nat
      /\ \A S \in SUBSET F : Count(Window, S) = Count(stamps, S)
      /\ Count(stamps, F) = Len(Window)
  BY WindowFacts
<1>3. stamps' \in Seq(0 .. now) /\ invoked' \in Seq(0 .. now)
  BY <1>1, <1>2, AppendFacts
<1>4. \A S \in SUBSET F : Count(invoked, S) <= Count(stamps, S)
  BY DEF GuardInv, Remembered
<1> HIDE DEF F
<1>5. \A S : Count(invoked, S) \in Nat /\ Count(Window, S) \in Nat
  BY <1>1, <1>2, CountFacts
<1>6. \A S : Count(stamps', S) = Count(Window, S) + one(S)
  BY <1>1, <1>2, CountAppend
<1>7. \A S : Count(Append(invoked, now), S) = Count(invoked, S) + one(S)
  BY <1>1, CountAppend
<1>8. ASSUME NEW S
      PROVE  Count(invoked', S) <= Count(invoked, S) + one(S) /\ Count(invoked', S) \in Nat
  <2>1. CASE invoked' = invoked
    BY <1>5, <2>1
  <2>2. CASE invoked' = Append(invoked, now)
    BY <1>5, <1>7, <2>2
  <2>3. QED BY <2>1, <2>2
<1>9. Remembered'
  <2> SUFFICES ASSUME NEW S \in SUBSET F
               PROVE  Count(invoked', S) <= Count(stamps', S)
    BY DEF Remembered, Fresh, F
  <2>1. /\ Count(invoked, S) <= Count(Window, S) /\ Count(invoked, S) \in Nat
        /\ Count(Window, S) \in Nat
    BY <1>2, <1>4, <1>5
  <2>2. Count(invoked', S) <= Count(invoked, S) + one(S)
        /\ Count(stamps', S) = Count(Window, S) + one(S) /\ Count(invoked', S) \in Nat
    BY <1>6, <1>8
  <2>3. one(S) \in Nat
    OBVIOUS
  <2> HIDE DEF one
  <2>4. QED BY <2>1, <2>2, <2>3
<1>10. InvocationRate'
  <2> SUFFICES ASSUME NEW t \in 0 .. now
               PROVE  Count(invoked', InWindow(t)) <= RateLimitPerTool
    BY DEF InvocationRate, InWindow
  <2>1. Count(invoked, InWindow(t)) <= RateLimitPerTool
    BY DEF GuardInv, InvocationRate, InWindow
  <2>2. CASE t # now
    <3>1. now \notin InWindow(t)
      BY <1>1, <2>2 DEF InWindow
    <3>2. Count(invoked', InWindow(t)) <= Count(invoked, InWindow(t)) + 0
          /\ Count(invoked', InWindow(t)) \in Nat /\ Count(invoked, InWindow(t)) \in Nat
      BY <1>5, <1>8, <3>1
    <3>3. QED BY <1>1, <2>1, <3>2
  <2>3. CASE t = now
    <3>1. InWindow(now) \in SUBSET F
      BY <1>1 DEF InWindow, Fresh, F
    <3>2. InWindow(now) = F
      BY <1>1 DEF InWindow, Fresh, F
    <3>3. Count(invoked, F) <= Len(Window) /\ Count(invoked, F) \in Nat
      BY <1>2, <1>4, <1>5
    <3>4. Len(Window) < RateLimitPerTool
      BY <1>1, <1>2 DEF Limited
    <3>5. Count(invoked', F) <= Count(invoked, F) + 1 /\ Count(invoked', F) \in Nat
      BY <1>5, <1>8
    <3>6. QED BY <1>1, <1>2, <2>3, <3>2, <3>3, <3>4, <3>5
  <2>4. QED BY <2>2, <2>3
<1>11. QED BY <1>3, <1>9, <1>10 DEF GuardInv

LEMMA GuardStep ==
  ASSUME RestInv, GuardInv, [Next]_vars
  PROVE  GuardInv'
<1>1. CASE Tick
  BY <1>1, TickGuard
<1>2. CASE FetchSucceeds
  <2>1. stamps' = <<>> /\ invoked' = <<>> /\ now' = now
    BY <1>2 DEF FetchSucceeds
  <2>2. stamps' \in Seq(0 .. now') /\ invoked' \in Seq(0 .. now')
    BY <2>1
  <2>3. \A S : Count(invoked', S) = 0 /\ Count(stamps', S) = 0
    BY <2>1, CountEmpty
  <2>4. Remembered'
    BY <2>3 DEF Remembered
  <2>5. InvocationRate'
    BY <2>3, ClientAssumption DEF InvocationRate
  <2>6. QED BY <2>2, <2>4, <2>5 DEF GuardInv
<1>3. ASSUME NEW i \in Created, ReceiveLimited(i)
      PROVE  GuardInv'
  BY <1>3, LimitedGuard DEF ReceiveLimited
<1>4. ASSUME NEW i \in Created, Receive(i)
      PROVE  GuardInv'
  BY <1>4, ReceiveGuard DEF Receive
<1>5. CASE UNCHANGED <<stamps, invoked, now>>
  BY <1>5 DEF GuardInv, Remembered, InvocationRate, Fresh
<1>6. CASE \/ Connect \/ FetchFails \/ Disconnect \/ Wake \/ UNCHANGED vars
           \/ \E i \in Created : SocketOpens(i) \/ SocketCloses(i) \/ ReceiveUnknown(i)
           \/ \E j \in DOMAIN jobs : ToolSettles(j) \/ ToolTimesOut(j)
  <2>1. UNCHANGED <<stamps, invoked, now>>
    BY <1>6 DEF Connect, FetchFails, Disconnect, Wake, vars, toolVars, SocketOpens,
                SocketCloses, ReceiveUnknown, ToolSettles, ToolTimesOut
  <2>2. QED BY <1>5, <2>1
<1>7. QED BY <1>1, <1>2, <1>3, <1>4, <1>6 DEF Next

LEMMA ClientInvariance == Spec => []ClientInv
<1>1. Init => ClientInv
  BY ClientInit
<1>2. ClientInv /\ [Next]_vars => ClientInv'
  BY StepFacts, RestStep, GuardStep DEF ClientInv
<1>3. QED BY <1>1, <1>2, PTL DEF Spec

-----------------------------------------------------------------------------
(* TypeOK: the connection, the counters and the guardrails' bucket.        *)
THEOREM TypeCorrect == Spec => []TypeOK
<1>1. ClientInv => TypeOK
  <2> SUFFICES ASSUME ClientInv PROVE TypeOK
    OBVIOUS
  <2>1. transport \in Created \cup {NoSocket}
    <3>1. DOMAIN sockets = 1 .. Len(sockets) /\ Len(sockets) \in Nat
      BY DEF ClientInv, IInv
    <3>2. QED BY <3>1 DEF ClientInv, IInv, Created, NoSocket
  <2>2. QED BY <2>1 DEF ClientInv, IInv, RestInv, GuardInv, Jobs, SocketRecords, TypeOK
<1>2. QED BY <1>1, ClientInvariance, PTL

(* InvocationRate: in no window do the guardrails let the tool run more    *)
(* often than the limit (preValidate), for any limit and window.           *)
THEOREM RateTheorem == Spec => []InvocationRate
<1>1. ClientInv => InvocationRate
  BY DEF ClientInv, GuardInv
<1>2. QED BY <1>1, ClientInvariance, PTL
=============================================================================
