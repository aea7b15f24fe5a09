----------------------- MODULE SatelliteSessionProofs -----------------------
(***************************************************************************)
(* Proofs about SatelliteSession, for any number of sessions, sockets and  *)
(* proposals, any registry and any budgets: the type invariant, the two    *)
(* bounds on verdicts, and the refinement of TrustLedger.                  *)
(***************************************************************************)
EXTENDS SatelliteSession, TLAPS

(* What is charged and what is promised, session by session: the verdicts  *)
(* were paid for with the part of the budget that is gone, and every       *)
(* rejection left its mark on the suspicion score.                         *)
Account(s) ==
  /\ s \notin stored => initial[s] = 0 /\ accepted[s] = 0 /\ rejected[s] = 0
  /\ s \in stored => TrustCost * Verdicts(s) <= initial[s] - remaining[s]
  /\ SuspicionOversized * rejected[s] <= suspicion[s]
  /\ Verdicts(s) > 0 => TrustCost * Verdicts(s) < initial[s]
  /\ SuspicionOversized * rejected[s] < SuspicionThreshold

IInv ==
  /\ TypeOK
  /\ \A s \in Sessions : Account(s)

-----------------------------------------------------------------------------
(* No failed check lowers the suspicion score, and each of the three that  *)
(* reject after the deduction raises it.                                   *)
LEMMA SuspicionFacts ==
  ASSUME NEW f
  PROVE  /\ Suspicion(f) \in Nat
         /\ f \in {"tool", "size", "filter"} => Suspicion(f) >= SuspicionOversized
  BY DEF Suspicion, ContainsSanitiz, SuspicionUnregisteredTool, SuspicionOversized,
         SuspicionInjection, SuspicionAdjudicationFailure

(* A proposal the budget still pays for fails one of the named checks or   *)
(* none (adjudicate returns early from exactly one of them).               *)
LEMMA FaultFacts ==
  ASSUME NEW s, NEW m, remaining[s] \in Int, Deduct(remaining[s]) > 0
  PROVE  Fault(s, m) \in {"tool", "size", "filter", "none"}
  BY DEF Fault, Deduct, TrustCost

(* What a verdict says about the session after the charge.                 *)
LEMMA VerdictFacts ==
  ASSUME NEW s, NEW m, remaining[s] \in Int, suspicion[s] \in Nat
  PROVE  /\ Verdict(s, m) \in {"accepted", "rejected", "session_terminated"}
         /\ Score(s, m) \in Nat
         /\ Score(s, m) >= suspicion[s]
         /\ Verdict(s, m) # "session_terminated" =>
              Deduct(remaining[s]) > 0 /\ Score(s, m) < SuspicionThreshold
         /\ Verdict(s, m) = "session_terminated" =>
              Deduct(remaining[s]) <= 0 \/ Score(s, m) >= SuspicionThreshold
         /\ Verdict(s, m) = "rejected" =>
              Score(s, m) >= suspicion[s] + SuspicionOversized
<1>1. Score(s, m) \in Nat /\ Score(s, m) >= suspicion[s]
  BY SuspicionFacts DEF Score
<1>2. Deduct(remaining[s]) \in Int
  BY DEF Deduct, TrustCost
<1>3. DEFINE over == IsExhausted(Deduct(remaining[s])) \/ IsSuspicious(Score(s, m))
<1>4. over <=> Deduct(remaining[s]) <= 0 \/ Score(s, m) >= SuspicionThreshold
  BY DEF IsExhausted, IsSuspicious
<1>5. /\ Verdict(s, m) \in {"accepted", "rejected", "session_terminated"}
      /\ Verdict(s, m) = "session_terminated" <=> over
      /\ Verdict(s, m) = "rejected" => ~over /\ Fault(s, m) # "none"
  BY DEF Verdict
<1>6. ~over => Deduct(remaining[s]) > 0 /\ Score(s, m) < SuspicionThreshold
  BY <1>1, <1>2, <1>4 DEF SuspicionThreshold
<1>7. ASSUME Verdict(s, m) = "rejected"
      PROVE  Score(s, m) >= suspicion[s] + SuspicionOversized
  <2>1. Fault(s, m) \in {"tool", "size", "filter"}
    BY <1>5, <1>6, <1>7, FaultFacts
  <2>2. QED BY <2>1, SuspicionFacts DEF Score, SuspicionOversized
<1>8. QED BY <1>1, <1>4, <1>5, <1>6, <1>7

LEMMA NoMessageFact == NoMessage \notin Message /\ "none" \notin Replies
  BY DEF NoMessage, Message, Proposal, Replies

-----------------------------------------------------------------------------
LEMMA InitIInv == Init => IInv
  BY SessionAssumption, NoMessageFact
  DEF Init, IInv, TypeOK, Account, Verdicts, TrustCost, SuspicionOversized,
      SuspicionThreshold

LEMMA NextTypeOK == TypeOK /\ [Next]_vars => TypeOK'
<1> SUFFICES ASSUME TypeOK, [Next]_vars PROVE TypeOK'
  OBVIOUS
<1> USE SessionAssumption, NoMessageFact
<1>1. CASE Tick
  BY <1>1 DEF Tick, TypeOK, budgetVars, connVars, history
<1>2. ASSUME NEW s \in Sessions, NEW b \in Budgets, NEW d \in Durations,
             CreateSession(s, b, d)
      PROVE  TypeOK'
  BY <1>2 DEF CreateSession, TypeOK, connVars, history
<1>3. ASSUME NEW c \in Conns, Connection(c)
      PROVE  TypeOK'
  <2>1. ASSUME NEW s \in Sessions, WsUpgrade(c, s) PROVE TypeOK'
    BY <2>1 DEF WsUpgrade, TypeOK, budgetVars, history
  <2>2. CASE StartSocket(c)
    BY <2>2 DEF StartSocket, TypeOK, budgetVars, history
  <2>3. CASE Disconnect(c)
    BY <2>3 DEF Disconnect, TypeOK, budgetVars, history
  <2>4. CASE Heartbeat(c)
    BY <2>4 DEF Heartbeat, TypeOK, Replies, budgetVars, history
  <2>5. ASSUME NEW m \in Message, Receive(c, m) PROVE TypeOK'
    BY <2>5 DEF Receive, TypeOK, budgetVars, history
  <2>6. CASE Adjudicate(c)
    <3>1. /\ bound[c] \in Sessions
          /\ remaining[bound[c]] \in Int
          /\ suspicion[bound[c]] \in Nat
      BY <2>6 DEF Adjudicate, TypeOK
    <3>2. /\ Score(bound[c], inbox[c]) \in Nat
          /\ Verdict(bound[c], inbox[c]) \in Replies
      BY <3>1, VerdictFacts DEF Replies
    <3>3. \A n \in Int : Deduct(n) \in Int
      BY DEF Deduct, TrustCost
    <3>4. QED BY <2>6, <3>1, <3>2, <3>3 DEF Adjudicate, Respond, TypeOK
  <2>7. CASE HandleOther(c)
    BY <2>7 DEF HandleOther, Respond, TypeOK, Replies, budgetVars, history
  <2>8. CASE SendReply(c)
    BY <2>8 DEF SendReply, TypeOK, budgetVars, history
  <2>9. CASE SendFails(c)
    BY <2>9 DEF SendFails, TypeOK, budgetVars, history
  <2>10. QED
    BY <1>3, <2>1, <2>2, <2>3, <2>4, <2>5, <2>6, <2>7, <2>8, <2>9 DEF Connection
<1>4. CASE UNCHANGED vars
  BY <1>4 DEF vars, TypeOK, budgetVars, connVars, history
<1>5. QED BY <1>1, <1>2, <1>3, <1>4 DEF Next

(* Only CreateSession and Adjudicate touch an account.                     *)
LEMMA OtherStepsKeepAccounts ==
  ASSUME UNCHANGED <<stored, initial, remaining, suspicion, accepted, rejected>>,
         \A s \in Sessions : Account(s)
  PROVE  \A s \in Sessions : Account(s)'
  BY DEF Account, Verdicts

LEMMA NextAccount ==
  ASSUME IInv, [Next]_vars
  PROVE  \A s \in Sessions : Account(s)'
<1> USE DEF IInv
<1>1. ASSUME NEW t \in Sessions, NEW b \in Budgets, NEW d \in Durations,
             CreateSession(t, b, d), NEW s \in Sessions
      PROVE  Account(s)'
  <2> USE <1>1 DEF CreateSession, TypeOK, Account, Verdicts, connVars, history,
          TrustCost, SuspicionOversized, SuspicionThreshold
  <2>0. b \in Int
    BY SessionAssumption
  <2>1. CASE s = t
    BY <2>0, <2>1
  <2>2. CASE s # t
    BY <2>2
  <2>3. QED BY <2>1, <2>2
<1>2. ASSUME NEW c \in Conns, Adjudicate(c), NEW s \in Sessions
      PROVE  Account(s)'
  <2> DEFINE t == bound[c]
             v == Verdict(bound[c], inbox[c])
  <2>1. /\ t \in Sessions /\ t \in stored
        /\ remaining[t] \in Int /\ suspicion[t] \in Nat
    BY <1>2 DEF Adjudicate, TypeOK
  <2>2. CASE s # t
    BY <1>2, <2>1, <2>2 DEF Adjudicate, Account, Verdicts, TypeOK
  <2>3. CASE s = t
    <3>1. /\ s \in stored /\ stored' = stored /\ initial' = initial
          /\ remaining'[s] = remaining[s] - 2
          /\ suspicion'[s] = Score(s, inbox[c])
          /\ accepted'[s] = accepted[s] + IF v = "accepted" THEN 1 ELSE 0
          /\ rejected'[s] = rejected[s] + IF v = "rejected" THEN 1 ELSE 0
      BY <1>2, <2>1, <2>3 DEF Adjudicate, TypeOK, Deduct, TrustCost
    <3>2. /\ v \in {"accepted", "rejected", "session_terminated"}
          /\ Score(s, inbox[c]) \in Nat
          /\ Score(s, inbox[c]) >= suspicion[s]
          /\ v # "session_terminated" =>
               remaining[s] - 2 > 0 /\ Score(s, inbox[c]) < 10
          /\ v = "rejected" => Score(s, inbox[c]) >= suspicion[s] + 2
      BY <2>1, <2>3, VerdictFacts
      DEF Deduct, TrustCost, SuspicionThreshold, SuspicionOversized
    <3>3. /\ initial[s] \in Int /\ remaining[s] \in Int /\ suspicion[s] \in Nat
          /\ accepted[s] \in Nat /\ rejected[s] \in Nat
      BY DEF TypeOK
    <3> HIDE DEF v
    <3>4. /\ 2 * (accepted[s] + rejected[s]) <= initial[s] - remaining[s]
          /\ 2 * rejected[s] <= suspicion[s]
          /\ accepted[s] + rejected[s] > 0 => 2 * (accepted[s] + rejected[s]) < initial[s]
          /\ 2 * rejected[s] < 10
      BY <3>1 DEF Account, Verdicts, TrustCost, SuspicionOversized, SuspicionThreshold
    <3>5. /\ 2 * (accepted'[s] + rejected'[s]) <= initial[s] - remaining'[s]
          /\ 2 * rejected'[s] <= suspicion'[s]
          /\ accepted'[s] + rejected'[s] > 0 => 2 * (accepted'[s] + rejected'[s]) < initial[s]
          /\ 2 * rejected'[s] < 10
      <4>1. CASE v = "accepted"
        BY <4>1, <3>1, <3>2, <3>3, <3>4
      <4>2. CASE v = "rejected"
        BY <4>2, <3>1, <3>2, <3>3, <3>4
      <4>3. CASE v = "session_terminated"
        BY <4>3, <3>1, <3>2, <3>3, <3>4
      <4>4. QED BY <3>2, <4>1, <4>2, <4>3
    <3>6. QED
      BY <3>1, <3>5 DEF Account, Verdicts, TrustCost, SuspicionOversized, SuspicionThreshold
  <2>4. QED BY <2>2, <2>3
<1>3. ASSUME \/ Tick
             \/ UNCHANGED vars
             \/ \E c \in Conns :
                  \/ \E s \in Sessions : WsUpgrade(c, s)
                  \/ StartSocket(c) \/ Disconnect(c) \/ Heartbeat(c)
                  \/ \E m \in Message : Receive(c, m)
                  \/ HandleOther(c) \/ SendReply(c) \/ SendFails(c)
      PROVE  UNCHANGED <<stored, initial, remaining, suspicion, accepted, rejected>>
  BY <1>3 DEF Tick, vars, WsUpgrade, StartSocket, Disconnect, Heartbeat, Receive,
     HandleOther, SendReply, SendFails, budgetVars, history
<1>4. QED
  BY <1>1, <1>2, <1>3, OtherStepsKeepAccounts DEF Next, Connection

LEMMA IInvariant == Spec => []IInv
<1>1. IInv /\ [Next]_vars => IInv'
  BY NextTypeOK, NextAccount DEF IInv
<1>2. QED BY InitIInv, <1>1, PTL DEF Spec

-----------------------------------------------------------------------------
(* Every reachable state is well-typed, and every live connection serves a *)
(* session the manager still stores.                                       *)
THEOREM TypeCorrect == Spec => []TypeOK
<1>1. IInv => TypeOK
  BY DEF IInv
<1>2. QED BY IInvariant, <1>1, PTL

(* Verdicts are paid for out of the initial budget, whatever the number of *)
(* sockets the session is served over.                                     *)
THEOREM BudgetTheorem == Spec => []VerdictsWithinBudget
<1>1. IInv => VerdictsWithinBudget
  BY DEF IInv, Account, VerdictsWithinBudget
<1>2. QED BY IInvariant, <1>1, PTL

(* No session is told of more than four rejected proposals.                *)
THEOREM RejectionTheorem == Spec => []FewRejections
<1>1. IInv => FewRejections
  BY DEF IInv, Account, FewRejections
<1>2. QED BY IInvariant, <1>1, PTL

(* A socket told that its session is terminated is closed and stays silent. *)
THEOREM TerminatedTheorem == Spec => []TerminatedIsLast
<1>1. Init => TerminatedIsLast
  BY DEF Init, TerminatedIsLast
<1>2. TypeOK /\ TerminatedIsLast /\ [Next]_vars => TerminatedIsLast'
  <2> SUFFICES ASSUME TypeOK, TerminatedIsLast, [Next]_vars
               PROVE  TerminatedIsLast'
    OBVIOUS
  <2>1. CASE Tick \/ UNCHANGED vars
    BY <2>1 DEF Tick, vars, connVars, TerminatedIsLast
  <2>2. ASSUME NEW s \in Sessions, NEW b \in Budgets, NEW d \in Durations,
               CreateSession(s, b, d)
        PROVE  TerminatedIsLast'
    BY <2>2 DEF CreateSession, connVars, TerminatedIsLast
  <2>3. ASSUME NEW c \in Conns, Connection(c)
        PROVE  TerminatedIsLast'
    <3>1. \A d \in Conns : d # c => pc'[d] = pc[d] /\ lastSent'[d] = lastSent[d]
      BY <2>3 DEF TypeOK, Connection, WsUpgrade, StartSocket, Disconnect, Heartbeat,
         Receive, Adjudicate, HandleOther, Respond, SendReply, SendFails
    <3>2. lastSent'[c] = "session_terminated" => pc'[c] = "closed"
      BY <2>3 DEF TypeOK, TerminatedIsLast, Connection, WsUpgrade, StartSocket,
         Disconnect, Heartbeat, Receive, Adjudicate, HandleOther, Respond, SendReply,
         SendFails
    <3>3. QED BY <3>1, <3>2 DEF TerminatedIsLast
  <2>4. QED BY <2>1, <2>2, <2>3 DEF Next
<1>3. QED BY <1>1, <1>2, TypeCorrect, PTL DEF Spec

-----------------------------------------------------------------------------
(* The abstract phase of a session, named for the proof.                   *)
Phase(s) ==
  IF s \notin stored THEN "absent" ELSE IF Live(s) THEN "live" ELSE "condemned"

(* Steps that leave the budgets and the counters alone do not show in the  *)
(* ledger.                                                                 *)
LEMMA QuietSteps ==
  ASSUME UNCHANGED <<stored, initial, remaining, suspicion, accepted, rejected>>
  PROVE  UNCHANGED Ledger!ledger
  BY DEF Ledger!ledger, Live

(* Creating a session opens its account.                                   *)
LEMMA CreateOpens ==
  ASSUME TypeOK, NEW s \in Sessions, NEW b \in Budgets, NEW d \in Durations,
         CreateSession(s, b, d)
  PROVE  Ledger!Open(s, b)
<1>1. b \in Int
  BY SessionAssumption
<1>2. /\ s \notin stored
      /\ stored' = stored \cup {s}
      /\ initial' = [initial EXCEPT ![s] = b]
      /\ remaining'[s] = b /\ suspicion'[s] = 0
      /\ \A t \in Sessions \ {s} :
           remaining'[t] = remaining[t] /\ suspicion'[t] = suspicion[t]
      /\ UNCHANGED <<accepted, rejected>>
  BY DEF CreateSession, TypeOK, history
<1>3. Live(s)' <=> b > 0
  BY <1>1, <1>2 DEF Live, IsExhausted, IsSuspicious, SuspicionThreshold
<1>4. \A t \in Sessions \ {s} : Phase(t)' = Phase(t)
  BY <1>2 DEF Phase, Live, IsExhausted, IsSuspicious
<1>5. [t \in Sessions |-> Phase(t)]'
        = [[t \in Sessions |-> Phase(t)] EXCEPT ![s] = IF b > 0 THEN "live" ELSE "condemned"]
  BY <1>2, <1>3, <1>4 DEF Phase
<1>6. QED BY <1>2, <1>5 DEF Ledger!Open, Phase

(* An adjudication gives an affordable verdict to a live session, condemns *)
(* it, or finds it condemned already and changes nothing.                  *)
LEMMA AdjudicateSettles ==
  ASSUME IInv, NEW c \in Conns, Adjudicate(c)
  PROVE  \/ \E s \in Sessions : Ledger!Accept(s) \/ Ledger!Reject(s) \/ Ledger!Condemn(s)
         \/ UNCHANGED Ledger!ledger
<1>0. PICK s \in Sessions : s = bound[c]
  BY DEF Adjudicate, IInv, TypeOK
<1> DEFINE v == Verdict(bound[c], inbox[c])
<1>1. /\ s \in Sessions /\ s \in stored
      /\ initial[s] \in Int /\ remaining[s] \in Int /\ suspicion[s] \in Nat
      /\ accepted[s] \in Nat /\ rejected[s] \in Nat
  BY <1>0 DEF Adjudicate, IInv, TypeOK
<1>2. /\ stored' = stored /\ initial' = initial
      /\ remaining'[s] = remaining[s] - 2
      /\ suspicion'[s] = Score(s, inbox[c])
      /\ accepted' = [accepted EXCEPT ![s] = @ + IF v = "accepted" THEN 1 ELSE 0]
      /\ rejected' = [rejected EXCEPT ![s] = @ + IF v = "rejected" THEN 1 ELSE 0]
      /\ \A t \in Sessions \ {s} :
           remaining'[t] = remaining[t] /\ suspicion'[t] = suspicion[t]
  BY <1>0, <1>1 DEF Adjudicate, IInv, TypeOK, Deduct, TrustCost
<1>3. /\ v \in {"accepted", "rejected", "session_terminated"}
      /\ Score(s, inbox[c]) \in Nat
      /\ Score(s, inbox[c]) >= suspicion[s]
      /\ v # "session_terminated" => remaining[s] - 2 > 0 /\ Score(s, inbox[c]) < 10
      /\ v = "session_terminated" => remaining[s] - 2 <= 0 \/ Score(s, inbox[c]) >= 10
      /\ v = "rejected" => Score(s, inbox[c]) >= suspicion[s] + 2
  BY <1>0, <1>1, VerdictFacts DEF Deduct, TrustCost, SuspicionThreshold, SuspicionOversized
<1>4. /\ 2 * (accepted[s] + rejected[s]) <= initial[s] - remaining[s]
      /\ 2 * rejected[s] <= suspicion[s]
  BY <1>1 DEF IInv, Account, Verdicts, TrustCost, SuspicionOversized
<1> HIDE DEF v
<1>5. \A t \in Sessions \ {s} : Phase(t)' = Phase(t)
  BY <1>2 DEF Phase, Live, IsExhausted, IsSuspicious
<1>6. /\ Live(s) <=> remaining[s] > 0 /\ suspicion[s] < 10
      /\ Live(s)' <=> remaining[s] - 2 > 0 /\ Score(s, inbox[c]) < 10
  BY <1>1, <1>2, <1>3 DEF Live, IsExhausted, IsSuspicious, SuspicionThreshold
<1>7. CASE v # "session_terminated"
  <2>1. Live(s) /\ Live(s)'
    BY <1>1, <1>3, <1>6, <1>7
  <2>2. [t \in Sessions |-> Phase(t)]' = [t \in Sessions |-> Phase(t)]
    BY <1>2, <1>5, <2>1 DEF Phase
  <2>3. Phase(s) = "live"
    BY <1>1, <2>1 DEF Phase
  <2>4. 2 * (accepted[s] + rejected[s] + 1) < initial[s]
    BY <1>1, <1>3, <1>4, <1>7
  <2>5. CASE v = "accepted"
    <3>1. accepted' = [accepted EXCEPT ![s] = @ + 1] /\ rejected' = rejected
      BY <1>1, <1>2, <2>5 DEF IInv, TypeOK
    <3>2. Ledger!Accept(s)
      BY <1>1, <1>2, <2>2, <2>3, <2>4, <3>1
      DEF Ledger!Accept, Ledger!Affordable, Phase, TrustCost
    <3>3. QED BY <1>1, <3>2
  <2>6. CASE v = "rejected"
    <3>1. rejected' = [rejected EXCEPT ![s] = @ + 1] /\ accepted' = accepted
      BY <1>1, <1>2, <2>6 DEF IInv, TypeOK
    <3>2. 2 * (rejected[s] + 1) < 10
      BY <1>1, <1>3, <1>4, <2>6
    <3>3. Ledger!Reject(s)
      BY <1>1, <1>2, <2>2, <2>3, <2>4, <3>1, <3>2
      DEF Ledger!Reject, Ledger!Affordable, Phase, TrustCost, SuspicionOversized,
          SuspicionThreshold
    <3>4. QED BY <1>1, <3>3
  <2>7. QED BY <1>3, <1>7, <2>5, <2>6
<1>8. CASE v = "session_terminated"
  <2>1. ~Live(s)'
    BY <1>1, <1>3, <1>6, <1>8
  <2>2. accepted' = accepted /\ rejected' = rejected
    BY <1>1, <1>2, <1>8 DEF IInv, TypeOK
  <2>3. CASE Live(s)
    <3>1. Phase(s) = "live" /\ Phase(s)' = "condemned"
      BY <1>1, <1>2, <2>1, <2>3 DEF Phase
    <3>2. [t \in Sessions |-> Phase(t)]'
            = [[t \in Sessions |-> Phase(t)] EXCEPT ![s] = "condemned"]
      BY <1>5, <3>1
    <3>3. Ledger!Condemn(s)
      BY <1>1, <1>2, <2>2, <3>1, <3>2 DEF Ledger!Condemn, Phase
    <3>4. QED BY <1>1, <3>3
  <2>4. CASE ~Live(s)
    <3>1. Phase(s)' = Phase(s)
      BY <1>2, <2>1, <2>4 DEF Phase
    <3>2. [t \in Sessions |-> Phase(t)]' = [t \in Sessions |-> Phase(t)]
      BY <1>5, <3>1
    <3>3. QED BY <1>2, <2>2, <3>2 DEF Ledger!ledger, Phase
  <2>5. QED BY <2>3, <2>4
<1>9. QED BY <1>7, <1>8

(* Sockets, clock and pipeline aside, a session is a ledger of paid        *)
(* verdicts that stays closed once the session is condemned.               *)
THEOREM LedgerRefinement == Spec => ImplementsLedger
<1>1. Init => Ledger!LedgerInit
  BY DEF Init, Ledger!LedgerInit
<1>2. IInv /\ [Next]_vars => [Ledger!LedgerNext]_(Ledger!ledger)
  <2> SUFFICES ASSUME IInv, [Next]_vars
               PROVE  Ledger!LedgerNext \/ UNCHANGED Ledger!ledger
    OBVIOUS
  <2>1. ASSUME NEW s \in Sessions, NEW b \in Budgets, NEW d \in Durations,
               CreateSession(s, b, d)
        PROVE  Ledger!LedgerNext
    BY <2>1, CreateOpens DEF IInv, Ledger!LedgerNext
  <2>2. ASSUME NEW c \in Conns, Adjudicate(c)
        PROVE  Ledger!LedgerNext \/ UNCHANGED Ledger!ledger
    BY <2>2, AdjudicateSettles DEF Ledger!LedgerNext
  <2>3. ASSUME \/ Tick
               \/ UNCHANGED vars
               \/ \E c \in Conns :
                    \/ \E s \in Sessions : WsUpgrade(c, s)
                    \/ StartSocket(c) \/ Disconnect(c) \/ Heartbeat(c)
                    \/ \E m \in Message : Receive(c, m)
                    \/ HandleOther(c) \/ SendReply(c) \/ SendFails(c)
        PROVE  UNCHANGED <<stored, initial, remaining, suspicion, accepted, rejected>>
    BY <2>3 DEF Tick, vars, WsUpgrade, StartSocket, Disconnect, Heartbeat, Receive,
       HandleOther, SendReply, SendFails, budgetVars, history
  <2>4. QED BY <2>1, <2>2, <2>3, QuietSteps DEF Next, Connection
<1>3. QED
  BY <1>1, <1>2, IInvariant, PTL DEF Spec, ImplementsLedger, Ledger!LedgerSpec
=============================================================================
