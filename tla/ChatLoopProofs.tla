--------------------------- MODULE ChatLoopProofs ---------------------------
(***************************************************************************)
(* Proofs about ChatLoop for any requests, any answers of the Core, any    *)
(* registry, any identity and any limits.                                  *)
(***************************************************************************)
EXTENDS ChatLoop, SequenceTheorems, TLAPS

AllCalls == UNION {{cs[i] : i \in DOMAIN cs} : cs \in CallLists}
Runs     == [call : AllCalls, message : Nat, index : Nat]
Answers  == [id : {call.id : call \in AllCalls}, code : Codes]
Messages == [role : {"user", "assistant"}, text : {"clean", "model"},
             calls : Seq(AllCalls), results : Seq(Answers)]

(* The shape of what the request collects.  That no message holds a text   *)
(* but a clean one or the model's is part of MessagesAreSanitized.         *)
Shapes ==
  /\ calls \in Seq(AllCalls)
  /\ results \in Seq(Answers)
  /\ started \in Seq(Runs)
  /\ transcript \in Seq(Messages)

(* The Core has been asked once for each turn of the loop begun so far.    *)
Counted ==
  endpoint = "chat" =>
    /\ asked \in 0 .. EffectiveMax
    /\ phase = "inbound" => iteration = 0 /\ asked = 0
    /\ phase = "loop" => asked = iteration
    /\ phase \in {"core", "tools", "await"} => iteration < EffectiveMax /\ asked = iteration + 1

(* Only a chat runs tools, and the Core is asked after the filter.         *)
Passed ==
  /\ phase \in {"tools", "await"} => endpoint = "chat"
  /\ phase = "inbound" => asked = 0 /\ transcript = <<>>

(* The caller's messages lead the transcript, and stay there.              *)
Leading ==
  (asked > 0 \/ phase \in {"loop", "core", "tools", "await"}) =>
    \A i \in DOMAIN inbox :
      /\ ~Rejects(inbox[i])
      /\ i \in DOMAIN transcript /\ transcript[i] = UserText(Sanitize(inbox[i]))

(* The calls being processed are those of the last message, and have been  *)
(* answered in order as far as results goes.  Every earlier message with   *)
(* calls is followed by its answers.                                       *)
Matches(i) ==
  /\ i < Len(transcript)
  /\ Ids(transcript[i + 1].results) = Ids(transcript[i].calls)

Answering ==
  /\ phase \in {"tools", "await"} =>
       /\ \A i \in DOMAIN results : results[i].id = calls[i].id
       /\ transcript # <<>> /\ transcript[Len(transcript)].calls = calls
  /\ phase = "await" => Len(results) < Len(calls)
  /\ \A i \in DOMAIN transcript :
       transcript[i].calls # <<>> =>
         \/ Matches(i)
         \/ i = Len(transcript) /\ phase \notin {"loop", "core"}

(* Of the calls of the last message, only those answered, and the one that *)
(* is awaited, have been run.                                              *)
Fresh ==
  phase \in {"tools", "await"} =>
    \A i \in DOMAIN started :
      started[i].message = Len(transcript) =>
        \/ started[i].index <= Len(results)
        \/ phase = "await" /\ started[i].index = Len(results) + 1

IInv == TypeOK /\ Shapes /\ Counted /\ Passed /\ Answering /\ Leading
        /\ EffectsAreVetted /\ Fresh

-----------------------------------------------------------------------------
(* The limit on the loop is a number under both of its sources.            *)
LEMMA LimitFacts ==
  /\ MaxToolIterations \in Nat /\ EffectiveMax \in Nat
  /\ EffectiveMax <= MaxToolIterations /\ EffectiveMax <= HardCap
<1>1. MaxToolIterations \in Nat
  BY ChatAssumption DEF MaxToolIterations
<1>2. HardCap \in Nat
  BY ChatAssumption
<1>3. QED BY <1>1, <1>2 DEF EffectiveMax

LEMMA CallListFacts ==
  ASSUME NEW cs \in CallLists
  PROVE  /\ cs \in Seq(AllCalls)
         /\ Len(cs) \in Nat /\ DOMAIN cs = 1 .. Len(cs)
<1>1. cs \in Seq({cs[i] : i \in DOMAIN cs})
  BY ChatAssumption
<1>2. {cs[i] : i \in DOMAIN cs} \subseteq AllCalls
  BY DEF AllCalls
<1>3. cs \in Seq(AllCalls)
  BY <1>1, <1>2, SeqMonotonic
<1>4. QED BY <1>3

LEMMA AppendFacts ==
  ASSUME NEW S, NEW s \in Seq(S), NEW e \in S
  PROVE  /\ Append(s, e) \in Seq(S)
         /\ Len(s) \in Nat /\ Len(Append(s, e)) = Len(s) + 1
         /\ DOMAIN s = 1 .. Len(s) /\ DOMAIN Append(s, e) = 1 .. Len(s) + 1
         /\ \A i \in DOMAIN s : Append(s, e)[i] = s[i]
         /\ Append(s, e)[Len(s) + 1] = e
         /\ Append(s, e) # <<>>
OBVIOUS

(* A pending call is one of the calls, so its answer has the right shape.  *)
LEMMA CurrentFacts ==
  ASSUME TypeOK, Shapes, Len(results) < Len(calls)
  PROVE  /\ Len(results) \in Nat /\ Len(calls) \in Nat
         /\ DOMAIN results = 1 .. Len(results) /\ DOMAIN calls = 1 .. Len(calls)
         /\ Len(results) + 1 \in DOMAIN calls
         /\ Current = calls[Len(results) + 1] /\ Current \in AllCalls
         /\ \A code \in Codes : [id |-> Current.id, code |-> code] \in Answers
<1>1. calls \in Seq(AllCalls) /\ results \in Seq(Answers)
  BY DEF Shapes
<1>2. Len(results) \in Nat /\ Len(calls) \in Nat
      /\ DOMAIN results = 1 .. Len(results) /\ DOMAIN calls = 1 .. Len(calls)
  BY <1>1
<1>3. Len(results) + 1 \in DOMAIN calls
  BY <1>2
<1>4. Current = calls[Len(results) + 1] /\ Current \in AllCalls
  BY <1>1, <1>3 DEF Current
<1>5. QED BY <1>2, <1>3, <1>4 DEF Answers

LEMMA VerdictFacts ==
  ASSUME NEW call
  PROVE  Verdict(call) \in Codes
BY DEF Verdict, Codes

(* However a vetted call ends, it ends in a code or in a panic.            *)
LEMMA EndingFacts ==
  ASSUME NEW call, Registered(call)
  PROVE  Endings(call) \subseteq (Codes \cup {"panic"}) \ {"none", "running"}
<1>1. Post(Registry[call.name].url, call.args) \subseteq {"ok", "EXECUTION_ERROR"}
  BY DEF Post
<1>2. ExecuteSphereTool(call) \subseteq
        {"ok", "EXECUTION_ERROR", "EXECUTION_TIMEOUT", "panic"}
  BY <1>1 DEF ExecuteSphereTool
<1>3. Registry[call.name].zone \in {"sphere", "satellite", "wasm"}
  BY ChatAssumption DEF Registered, Zones
<1>4. Endings(call) \subseteq {"ok", "EXECUTION_ERROR", "EXECUTION_TIMEOUT", "panic",
                              "SATELLITE_UNAVAILABLE", "NOT_IMPLEMENTED"}
  BY <1>2, <1>3 DEF Endings
<1>5. QED BY <1>4 DEF Codes

(* What has run stays vetted, and the run of a message's call, whatever    *)
(* is added to the transcript.                                             *)
LEMMA EffectsKept ==
  ASSUME EffectsAreVetted, UNCHANGED started,
         \A m \in DOMAIN transcript : m \in DOMAIN transcript' /\ transcript'[m] = transcript[m]
  PROVE  EffectsAreVetted'
BY DEF EffectsAreVetted, Vetted, Registered, Authorized, Valid

(* A run is one of a message that exists.                                  *)
LEMMA RunFacts ==
  ASSUME Shapes, EffectsAreVetted
  PROVE  \A i \in DOMAIN started :
           /\ started[i] \in Runs
           /\ started[i].message \in Nat /\ started[i].index \in Nat
           /\ started[i].message <= Len(transcript)
<1>1. started \in Seq(Runs) /\ transcript \in Seq(Messages)
  BY DEF Shapes
<1>2. \A i \in DOMAIN started : started[i] \in Runs
  BY <1>1
<1>3. DOMAIN transcript = 1 .. Len(transcript)
  BY <1>1
<1>4. \A i \in DOMAIN started : started[i].message \in DOMAIN transcript
  BY DEF EffectsAreVetted
<1>5. QED BY <1>2, <1>3, <1>4 DEF Runs

-----------------------------------------------------------------------------
LEMMA InitIInv == Init => IInv
<1> SUFFICES ASSUME Init PROVE IInv
  OBVIOUS
<1>1. /\ calls = <<>> /\ results = <<>> /\ started = <<>> /\ transcript = <<>>
      /\ DOMAIN results = {} /\ DOMAIN started = {} /\ DOMAIN transcript = {}
      /\ Len(results) = 0 /\ Len(calls) = 0
  BY DEF Init
<1>2. /\ phase = "inbound" /\ iteration = 0 /\ asked = 0 /\ task = "none"
      /\ outcome = "none" /\ endpoint \in {"chat", "stream"} /\ inbox \in Inboxes
  BY DEF Init
<1>3. system \in Systems
  BY DEF Init
<1>4. TypeOK
  BY <1>1, <1>2, <1>3, LimitFacts DEF TypeOK, Final
<1>5. Shapes
  <2>1. calls \in Seq(AllCalls) /\ results \in Seq(Answers)
        /\ started \in Seq(Runs) /\ transcript \in Seq(Messages)
    BY <1>1
  <2>2. QED BY <1>1, <2>1 DEF Shapes
<1>6. Counted /\ Passed
  BY <1>1, <1>2, LimitFacts DEF Counted, Passed
<1>7. Answering /\ Leading
  BY <1>1, <1>2 DEF Answering, Leading
<1>8. EffectsAreVetted /\ Fresh
  BY <1>1, <1>2 DEF EffectsAreVetted, Fresh
<1>9. QED BY <1>4, <1>5, <1>6, <1>7, <1>8 DEF IInv

-----------------------------------------------------------------------------
(* One lemma for each kind of step.                                        *)
LEMMA InboundStep ==
  ASSUME IInv, Inbound
  PROVE  IInv'
<1>1. /\ TypeOK /\ Shapes /\ Counted /\ Passed /\ Answering /\ Leading
      /\ EffectsAreVetted /\ Fresh
      /\ phase = "inbound"
      /\ UNCHANGED <<endpoint, inbox, system, iteration, calls, results, task, asked, started>>
  BY DEF IInv, Inbound
<1>2. asked = 0 /\ transcript = <<>>
  BY <1>1 DEF Passed
<1>3. CASE phase' = "returned" /\ outcome' = "FILTER_REJECTED" /\ UNCHANGED transcript
  <2>1. TypeOK'
    BY <1>1, <1>3 DEF TypeOK, Final
  <2>2. Shapes' /\ Counted' /\ Leading'
    BY <1>1, <1>2, <1>3 DEF Shapes, Counted, Leading
  <2>3. Passed'
    BY <1>1, <1>2, <1>3 DEF Passed
  <2>4. Answering'
    BY <1>1, <1>2, <1>3 DEF Answering
  <2>5. EffectsAreVetted' /\ Fresh'
    BY <1>1, <1>3, EffectsKept DEF Fresh
  <2>6. QED BY <2>1, <2>2, <2>3, <2>4, <2>5 DEF IInv
<1>4. CASE /\ \A i \in DOMAIN inbox : ~Rejects(inbox[i])
           /\ transcript' = [i \in DOMAIN inbox |-> UserText(Sanitize(inbox[i]))]
           /\ phase' = "loop" /\ UNCHANGED outcome
  <2>1. inbox \in Seq(Texts)
    BY <1>1, ChatAssumption DEF TypeOK
  <2>2. Len(inbox) \in Nat /\ DOMAIN inbox = 1 .. Len(inbox)
        /\ \A i \in DOMAIN inbox : inbox[i] \in Texts
    BY <2>1
  <2>3. \A i \in DOMAIN inbox : Sanitize(inbox[i]) = "clean"
    BY <1>4, <2>2 DEF Texts, Rejects, Sanitize
  <2>4. UserText("clean") \in Messages /\ UserText("clean").calls = <<>>
    BY DEF UserText, Messages
  <2>5. transcript' = [i \in 1 .. Len(inbox) |-> UserText("clean")]
    BY <1>4, <2>2, <2>3
  <2>6. /\ transcript' \in Seq(Messages)
        /\ \A i \in DOMAIN transcript' : transcript'[i].calls = <<>>
    BY <2>2, <2>4, <2>5
  <2>7. TypeOK'
    BY <1>1, <1>4 DEF TypeOK
  <2>8. Shapes'
    BY <1>1, <2>6 DEF Shapes
  <2>9. Counted' /\ Passed' /\ Leading'
    <3>1. Counted' /\ Passed'
      BY <1>1, <1>4 DEF Counted, Passed
    <3>2. \A i \in DOMAIN inbox :
            i \in DOMAIN transcript' /\ transcript'[i] = UserText(Sanitize(inbox[i]))
      BY <1>4
    <3>3. Leading'
      BY <1>1, <1>4, <3>2 DEF Leading
    <3>4. QED BY <3>1, <3>3
  <2>10. Answering'
    BY <1>4, <2>6 DEF Answering
  <2>11. EffectsAreVetted' /\ Fresh'
    <3>1. DOMAIN transcript = {}
      BY <1>2
    <3>2. QED BY <1>1, <1>4, <3>1, EffectsKept DEF Fresh
  <2>12. QED BY <2>7, <2>8, <2>9, <2>10, <2>11 DEF IInv
<1>5. QED BY <1>3, <1>4 DEF Inbound, Return

LEMMA AskCoreStep ==
  ASSUME IInv, AskCore
  PROVE  IInv'
<1>1. /\ TypeOK /\ Shapes /\ Counted /\ Passed /\ Answering /\ Leading
      /\ EffectsAreVetted /\ Fresh
      /\ phase = "loop" /\ phase' = "core" /\ asked' = asked + 1
      /\ endpoint = "chat" => iteration < EffectiveMax
      /\ UNCHANGED <<endpoint, inbox, system, transcript, iteration, calls, results, task,
                     outcome, started>>
  BY DEF IInv, AskCore
<1>2. asked \in Nat /\ iteration \in Nat
  BY <1>1, LimitFacts DEF TypeOK
<1>3. TypeOK'
  BY <1>1, <1>2 DEF TypeOK
<1>4. Shapes' /\ Passed' /\ Leading'
  BY <1>1 DEF Shapes, Passed, Leading
<1>5. Counted'
  BY <1>1, <1>2, LimitFacts DEF Counted
<1>6. Answering'
  BY <1>1 DEF Answering, Matches
<1>7. EffectsAreVetted' /\ Fresh'
  BY <1>1, EffectsKept DEF Fresh
<1>8. QED BY <1>3, <1>4, <1>5, <1>6, <1>7 DEF IInv

(* The steps that end the request, or leave it without its handler.        *)
LEMMA EndStep ==
  ASSUME IInv,
         \/ MaxIterations \/ CoreFails \/ CoreStreams \/ CallerLeaves
         \/ \E stop \in Stops, cs \in CallLists : CoreFinishes(stop, cs)
  PROVE  IInv'
<1>1. /\ TypeOK /\ Shapes /\ Counted /\ Passed /\ Answering /\ Leading
      /\ EffectsAreVetted /\ Fresh
      /\ phase \in {"loop", "core", "await"} /\ phase' \in {"returned", "dropped"}
      /\ UNCHANGED <<endpoint, inbox, system, transcript, iteration, calls, results, task,
                     asked, started>>
  BY DEF IInv, MaxIterations, CoreFails, CoreStreams, CallerLeaves, CoreFinishes, Return
<1>2.    outcome' \in {outcome, "model", "stream", "max_iterations", "CORE_ERROR",
                       "OUTBOUND_REJECTED"}
  BY <1>1 DEF MaxIterations, CoreFails, CoreStreams, CallerLeaves, CoreFinishes, Return
<1>3. TypeOK'
  BY <1>1, <1>2 DEF TypeOK, Final
<1>4. Shapes' /\ Counted' /\ Passed'
  BY <1>1 DEF Shapes, Counted, Passed
<1>5. Answering'
  BY <1>1 DEF Answering, Matches
<1>6. Leading'
  BY <1>1 DEF Leading
<1>7. EffectsAreVetted' /\ Fresh'
  BY <1>1, EffectsKept DEF Fresh
<1>8. QED BY <1>3, <1>4, <1>5, <1>6, <1>7 DEF IInv

LEMMA CoreCallsToolsStep ==
  ASSUME IInv, NEW stop \in Stops, NEW cs \in CallLists, CoreCallsTools(stop, cs)
  PROVE  IInv'
<1>1. /\ TypeOK /\ Shapes /\ Counted /\ Passed /\ Answering /\ Leading
      /\ EffectsAreVetted /\ Fresh
      /\ phase = "core" /\ phase' = "tools" /\ endpoint = "chat"
      /\ transcript' = Append(transcript, ToolUse(cs)) /\ calls' = cs /\ results' = <<>>
      /\ UNCHANGED <<endpoint, inbox, system, iteration, task, outcome, asked, started>>
  BY DEF IInv, CoreCallsTools
<1>2. cs \in Seq(AllCalls) /\ Len(cs) \in Nat
  BY CallListFacts
<1>3. ToolUse(cs) \in Messages /\ ToolUse(cs).calls = cs
  BY <1>2 DEF ToolUse, Messages
<1>4. /\ transcript' \in Seq(Messages) /\ transcript' # <<>>
      /\ Len(transcript) \in Nat /\ Len(transcript') = Len(transcript) + 1
      /\ DOMAIN transcript = 1 .. Len(transcript)
      /\ DOMAIN transcript' = 1 .. Len(transcript) + 1
      /\ \A i \in DOMAIN transcript : transcript'[i] = transcript[i]
      /\ transcript'[Len(transcript) + 1] = ToolUse(cs)
  <2>1. transcript \in Seq(Messages)
    BY <1>1 DEF Shapes
  <2>2. QED BY <1>1, <1>3, <2>1, AppendFacts
<1>5. Len(results') = 0 /\ DOMAIN results' = {} /\ results' \in Seq(Answers)
  BY <1>1
<1>6. TypeOK'
  BY <1>1, <1>2, <1>5 DEF TypeOK
<1>7. Shapes'
  BY <1>1, <1>2, <1>4, <1>5 DEF Shapes
<1>8. Counted' /\ Passed' /\ Leading'
  BY <1>1, <1>4 DEF Counted, Passed, Leading
<1>9. Answering'
  <2>1. \A i \in DOMAIN transcript :
          transcript[i].calls # <<>> =>
            /\ i < Len(transcript)
            /\ Ids(transcript[i + 1].results) = Ids(transcript[i].calls)
    BY <1>1 DEF Answering, Matches
  <2>2. ASSUME NEW i \in DOMAIN transcript', transcript'[i].calls # <<>>
        PROVE  Matches(i)' \/ i = Len(transcript')
    <3>1. CASE i \in DOMAIN transcript
      <4>1. i + 1 \in DOMAIN transcript \/ ~(i < Len(transcript))
        BY <1>4, <3>1
      <4>2. QED BY <1>4, <2>1, <2>2, <3>1, <4>1 DEF Matches, Ids
    <3>2. CASE i \notin DOMAIN transcript
      BY <1>4, <3>2
    <3>3. QED BY <3>1, <3>2
  <2>3. transcript'[Len(transcript')].calls = calls'
    BY <1>1, <1>3, <1>4
  <2>4. QED BY <1>1, <1>4, <1>5, <2>2, <2>3 DEF Answering
<1>10. EffectsAreVetted' /\ Fresh'
  <2>1. \A i \in DOMAIN started : started'[i].message # Len(transcript')
    BY <1>1, <1>4, RunFacts
  <2>2. QED BY <1>1, <1>4, <2>1, EffectsKept DEF Fresh
<1>11. QED BY <1>6, <1>7, <1>8, <1>9, <1>10 DEF IInv

(* A call is answered, without having been run or after.                   *)
LEMMA AnswerStep ==
  ASSUME IInv, phase \in {"tools", "await"}, Len(results) < Len(calls), phase' = "tools",
         task' \in {"none", task},
         NEW code \in Codes, results' = Answer(code),
         UNCHANGED <<endpoint, inbox, system, transcript, iteration, calls, outcome, asked,
                     started>>
  PROVE  IInv'
<1>1. /\ TypeOK /\ Shapes /\ Counted /\ Passed /\ Answering /\ Leading
      /\ EffectsAreVetted /\ Fresh
  BY DEF IInv
<1> DEFINE answer == [id |-> Current.id, code |-> code]
<1>2. /\ Len(results) \in Nat /\ Len(calls) \in Nat
      /\ Len(results) + 1 \in DOMAIN calls /\ Current = calls[Len(results) + 1]
      /\ answer \in Answers /\ answer.id = Current.id /\ answer.code = code
  BY <1>1, CurrentFacts
<1>3. /\ results' \in Seq(Answers) /\ Len(results') = Len(results) + 1
      /\ DOMAIN results = 1 .. Len(results) /\ DOMAIN results' = 1 .. Len(results) + 1
      /\ \A i \in DOMAIN results : results'[i] = results[i]
      /\ results'[Len(results) + 1] = answer
  <2>1. results \in Seq(Answers) /\ results' = Append(results, answer)
    BY <1>1 DEF Shapes, Answer
  <2>2. QED BY <1>2, <2>1, AppendFacts
<1>4. \A i \in DOMAIN results' : i \in DOMAIN results \/ i = Len(results) + 1
  BY <1>2, <1>3
<1>5. TypeOK'
  <2>1. \A i \in DOMAIN results' : results'[i].code \in Codes
    BY <1>1, <1>2, <1>3, <1>4 DEF TypeOK
  <2>2. Len(results') <= Len(calls')
    BY <1>2, <1>3
  <2>3. QED BY <1>1, <2>1, <2>2 DEF TypeOK
<1>6. Shapes'
  BY <1>1, <1>3 DEF Shapes
<1>7. Counted' /\ Passed' /\ Leading'
  BY <1>1 DEF Counted, Passed, Leading
<1>8. Answering'
  <2>1. \A i \in DOMAIN results' : results'[i].id = calls'[i].id
    BY <1>1, <1>2, <1>3, <1>4 DEF Answering
  <2>2. QED BY <1>1, <2>1 DEF Answering, Matches
<1>9. EffectsAreVetted' /\ Fresh'
  <2>1. Fresh'
    BY <1>1, <1>2, <1>3, RunFacts DEF Fresh
  <2>2. QED BY <1>1, <2>1, EffectsKept
<1>10. QED BY <1>5, <1>6, <1>7, <1>8, <1>9 DEF IInv

LEMMA StartToolStep ==
  ASSUME IInv, StartTool
  PROVE  IInv'
<1>1. /\ TypeOK /\ Shapes /\ Counted /\ Passed /\ Answering /\ Leading
      /\ EffectsAreVetted /\ Fresh
      /\ phase = "tools" /\ Len(results) < Len(calls) /\ Vetted(Current)
      /\ phase' = "await" /\ task' = "running" /\ started' = Append(started, Run)
      /\ UNCHANGED <<endpoint, inbox, system, transcript, iteration, calls, results,
                     outcome, asked>>
  BY DEF IInv, StartTool, Pending
<1>2. /\ Len(results) \in Nat /\ Len(results) + 1 \in DOMAIN calls
      /\ Current \in AllCalls /\ Current = calls[Len(results) + 1]
  BY <1>1, CurrentFacts
<1>3. /\ transcript # <<>> /\ transcript \in Seq(Messages)
      /\ Len(transcript) \in Nat /\ Len(transcript) \in DOMAIN transcript
      /\ transcript[Len(transcript)].calls = calls
  BY <1>1 DEF Answering, Shapes
<1>4. /\ Run \in Runs /\ Run.call = Current
      /\ Run.message = Len(transcript) /\ Run.index = Len(results) + 1
  BY <1>2, <1>3 DEF Run, Runs
<1>5. /\ started' \in Seq(Runs) /\ started' # <<>>
      /\ Len(started) \in Nat
      /\ DOMAIN started = 1 .. Len(started) /\ DOMAIN started' = 1 .. Len(started) + 1
      /\ \A i \in DOMAIN started : started'[i] = started[i]
      /\ started'[Len(started) + 1] = Run
  <2>1. started \in Seq(Runs)
    BY <1>1 DEF Shapes
  <2>2. QED BY <1>1, <1>4, <2>1, AppendFacts
<1>6. \A i \in DOMAIN started' : i \in DOMAIN started \/ i = Len(started) + 1
  BY <1>5
<1>7. TypeOK' /\ Shapes'
  BY <1>1, <1>5 DEF TypeOK, Shapes
<1>8. Counted' /\ Passed' /\ Leading'
  BY <1>1 DEF Counted, Passed, Leading
<1>9. Answering'
  BY <1>1 DEF Answering, Matches
<1>10. \A i \in DOMAIN started :
         started[i].message = Len(transcript) => started[i].index <= Len(results)
  BY <1>1 DEF Fresh
<1>11. Fresh'
  <2>1. ASSUME NEW i \in DOMAIN started', started'[i].message = Len(transcript')
        PROVE  started'[i].index <= Len(results') \/ started'[i].index = Len(results') + 1
    BY <1>1, <1>4, <1>5, <1>6, <1>10, <2>1
  <2>2. QED BY <1>1, <2>1 DEF Fresh
<1>12. EffectsAreVetted'
  <2>1. ASSUME NEW i \in DOMAIN started'
        PROVE  /\ Vetted(started'[i].call)
               /\ started'[i].message \in DOMAIN transcript
               /\ started'[i].index \in DOMAIN transcript[started'[i].message].calls
               /\ started'[i].call = transcript[started'[i].message].calls[started'[i].index]
    <3>1. CASE i \in DOMAIN started
      BY <1>1, <1>5, <3>1 DEF EffectsAreVetted
    <3>2. CASE i = Len(started) + 1
      BY <1>1, <1>2, <1>3, <1>4, <1>5, <3>2
    <3>3. QED BY <1>6, <3>1, <3>2
  <2>2. ASSUME NEW i \in DOMAIN started', NEW j \in DOMAIN started', i # j,
               started'[j].message = started'[i].message
        PROVE  started'[j].index # started'[i].index
    <3>1. CASE i \in DOMAIN started /\ j \in DOMAIN started
      BY <1>1, <1>5, <2>2, <3>1 DEF EffectsAreVetted
    <3>2. CASE i \in DOMAIN started /\ j = Len(started) + 1
      <4>1. started[i].index \in Nat /\ started[i].index <= Len(results)
        BY <1>1, <1>4, <1>5, <1>10, <2>2, <3>2, RunFacts
      <4>2. QED BY <1>2, <1>4, <1>5, <3>2, <4>1
    <3>3. CASE i = Len(started) + 1 /\ j \in DOMAIN started
      <4>1. started[j].index \in Nat /\ started[j].index <= Len(results)
        BY <1>1, <1>4, <1>5, <1>10, <2>2, <3>3, RunFacts
      <4>2. QED BY <1>2, <1>4, <1>5, <3>3, <4>1
    <3>4. QED BY <1>6, <2>2, <3>1, <3>2, <3>3
  <2>3. QED BY <1>1, <2>1, <2>2 DEF EffectsAreVetted, Vetted, Registered, Authorized, Valid
<1>13. QED BY <1>7, <1>8, <1>9, <1>11, <1>12 DEF IInv

LEMMA TaskEndsStep ==
  ASSUME IInv, TaskEnds
  PROVE  IInv'
<1>1. /\ TypeOK /\ Shapes /\ Counted /\ Passed /\ Answering /\ Leading
      /\ EffectsAreVetted /\ Fresh
      /\ task = "running" /\ task' \in Endings(started[Len(started)].call)
      /\ UNCHANGED <<endpoint, inbox, system, phase, transcript, iteration, calls, results,
                     outcome, asked, started>>
  BY DEF IInv, TaskEnds
<1>2. Len(started) \in DOMAIN started
  <2>1. started # <<>> /\ started \in Seq(Runs)
    BY <1>1 DEF TypeOK, Shapes
  <2>2. QED BY <2>1
<1>3. Registered(started[Len(started)].call)
  BY <1>1, <1>2 DEF EffectsAreVetted, Vetted
<1>4. task' \in Codes \cup {"panic"} /\ task' # "none"
  BY <1>1, <1>3, EndingFacts
<1>5. TypeOK'
  BY <1>1, <1>4 DEF TypeOK
<1>6. Shapes' /\ Counted' /\ Passed' /\ Leading'
  BY <1>1 DEF Shapes, Counted, Passed, Leading
<1>7. Answering'
  BY <1>1 DEF Answering, Matches
<1>8. EffectsAreVetted' /\ Fresh'
  BY <1>1, EffectsKept DEF Fresh
<1>9. QED BY <1>5, <1>6, <1>7, <1>8 DEF IInv

LEMMA JoinTaskStep ==
  ASSUME IInv, JoinTask
  PROVE  IInv'
<1>1. /\ TypeOK /\ Shapes /\ Counted /\ Passed /\ Answering /\ Leading
      /\ EffectsAreVetted /\ Fresh
      /\ phase = "await" /\ task \notin {"none", "running"} /\ task' = "none"
      /\ UNCHANGED <<endpoint, inbox, system, transcript, iteration, calls, outcome, asked,
                     started>>
  BY DEF IInv, JoinTask
<1>2. CASE phase' = "crashed" /\ UNCHANGED results
  <2>1. TypeOK'
    BY <1>1, <1>2 DEF TypeOK, Final
  <2>2. Shapes' /\ Counted' /\ Passed' /\ Leading'
    BY <1>1, <1>2 DEF Shapes, Counted, Passed, Leading
  <2>3. Answering'
    BY <1>1, <1>2 DEF Answering, Matches
  <2>4. EffectsAreVetted' /\ Fresh'
    BY <1>1, <1>2, EffectsKept DEF Fresh
  <2>5. QED BY <2>1, <2>2, <2>3, <2>4 DEF IInv
<1>3. CASE /\ phase' = "tools"
           /\ results' = Answer(IF task = "panic" THEN "EXECUTION_ERROR" ELSE task)
  <2> DEFINE code == IF task = "panic" THEN "EXECUTION_ERROR" ELSE task
  <2>1. code \in Codes
    BY <1>1 DEF TypeOK, Codes
  <2>2. Len(results) < Len(calls)
    BY <1>1 DEF Answering
  <2> HIDE DEF code
  <2>3. results' = Answer(code)
    BY <1>3 DEF code
  <2>4. QED BY <1>1, <1>3, <2>1, <2>2, <2>3, AnswerStep
<1>4. QED BY <1>2, <1>3 DEF JoinTask

LEMMA NextIterationStep ==
  ASSUME IInv, NextIteration
  PROVE  IInv'
<1>1. /\ TypeOK /\ Shapes /\ Counted /\ Passed /\ Answering /\ Leading
      /\ EffectsAreVetted /\ Fresh
      /\ phase = "tools" /\ phase' = "loop" /\ Len(results) = Len(calls)
      /\ transcript' = Append(transcript, ToolAnswer(results)) /\ iteration' = iteration + 1
      /\ UNCHANGED <<endpoint, inbox, system, calls, results, task, outcome, asked, started>>
  BY DEF IInv, NextIteration
<1>2. endpoint = "chat" /\ iteration \in Nat /\ iteration < EffectiveMax /\ asked = iteration + 1
  BY <1>1, LimitFacts DEF Passed, Counted, TypeOK
<1>3. /\ ToolAnswer(results) \in Messages
      /\ ToolAnswer(results).calls = <<>> /\ ToolAnswer(results).results = results
  BY <1>1 DEF ToolAnswer, Messages, Shapes
<1>4. /\ transcript' \in Seq(Messages)
      /\ Len(transcript) \in Nat /\ Len(transcript') = Len(transcript) + 1
      /\ DOMAIN transcript = 1 .. Len(transcript)
      /\ DOMAIN transcript' = 1 .. Len(transcript) + 1
      /\ \A i \in DOMAIN transcript : transcript'[i] = transcript[i]
      /\ transcript'[Len(transcript) + 1] = ToolAnswer(results)
  <2>1. transcript \in Seq(Messages)
    BY <1>1 DEF Shapes
  <2>2. QED BY <1>1, <1>3, <2>1, AppendFacts
<1>5. TypeOK'
  BY <1>1, <1>2, LimitFacts DEF TypeOK
<1>6. Shapes'
  BY <1>1, <1>4 DEF Shapes
<1>7. Counted' /\ Passed' /\ Leading'
  BY <1>1, <1>2, <1>4 DEF Counted, Passed, Leading
<1>8. Ids(results) = Ids(calls)
  <2>1. DOMAIN results = DOMAIN calls
    BY <1>1 DEF Shapes
  <2>2. \A i \in DOMAIN results : results[i].id = calls[i].id
    BY <1>1 DEF Answering
  <2>3. QED BY <2>1, <2>2 DEF Ids
<1>9. Answering'
  <2>1. ASSUME NEW i \in DOMAIN transcript', transcript'[i].calls # <<>>
        PROVE  Matches(i)'
    <3>1. i \in DOMAIN transcript /\ transcript'[i] = transcript[i]
      BY <1>3, <1>4, <2>1
    <3>2. CASE Matches(i)
      <4>1. i + 1 \in DOMAIN transcript
        BY <1>4, <3>1, <3>2 DEF Matches
      <4>2. QED BY <1>4, <3>1, <3>2, <4>1 DEF Matches, Ids
    <3>3. CASE i = Len(transcript)
      <4>1. transcript[i].calls = calls
        BY <1>1, <3>3 DEF Answering
      <4>2. transcript'[i + 1].results = results /\ i < Len(transcript')
        BY <1>3, <1>4, <3>3
      <4>3. Ids(transcript'[i + 1].results) = Ids(transcript'[i].calls)
        BY <1>8, <3>1, <4>1, <4>2
      <4>4. QED BY <4>2, <4>3 DEF Matches, Ids
    <3>4. QED BY <1>1, <2>1, <3>1, <3>2, <3>3 DEF Answering
  <2>2. QED BY <1>1, <2>1 DEF Answering
<1>10. EffectsAreVetted' /\ Fresh'
  BY <1>1, <1>4, EffectsKept DEF Fresh
<1>11. QED BY <1>5, <1>6, <1>7, <1>9, <1>10 DEF IInv

LEMMA NextIInv == IInv /\ [Next]_vars => IInv'
<1> SUFFICES ASSUME IInv, [Next]_vars PROVE IInv'
  OBVIOUS
<1>1. CASE Inbound
  BY <1>1, InboundStep
<1>2. CASE AskCore
  BY <1>2, AskCoreStep
<1>3. CASE \/ MaxIterations \/ CoreFails \/ CoreStreams \/ CallerLeaves
           \/ \E stop \in Stops, cs \in CallLists : CoreFinishes(stop, cs)
  BY <1>3, EndStep
<1>4. CASE \E stop \in Stops, cs \in CallLists : CoreCallsTools(stop, cs)
  BY <1>4, CoreCallsToolsStep
<1>5. CASE RefuseCall
  <2>1. phase = "tools" /\ Len(results) < Len(calls) /\ results' = Answer(Verdict(Current))
        /\ UNCHANGED <<endpoint, inbox, system, phase, transcript, iteration, calls, task,
                       outcome, asked, started>>
    BY <1>5 DEF RefuseCall, Pending
  <2>2. Verdict(Current) \in Codes
    BY VerdictFacts
  <2>3. QED BY <2>1, <2>2, AnswerStep
<1>6. CASE StartTool
  BY <1>6, StartToolStep
<1>7. CASE TaskEnds
  BY <1>7, TaskEndsStep
<1>8. CASE JoinTask
  BY <1>8, JoinTaskStep
<1>9. CASE NextIteration
  BY <1>9, NextIterationStep
<1>10. CASE UNCHANGED vars
  <2>1. /\ endpoint' = endpoint /\ inbox' = inbox /\ system' = system /\ phase' = phase
        /\ transcript' = transcript /\ iteration' = iteration /\ calls' = calls
        /\ results' = results /\ task' = task /\ outcome' = outcome /\ asked' = asked
        /\ started' = started
    BY <1>10 DEF vars
  <2>2. TypeOK'
    BY <2>1 DEF IInv, TypeOK
  <2>3. Shapes' /\ Counted' /\ Passed' /\ Leading'
    BY <2>1 DEF IInv, Shapes, Counted, Passed, Leading
  <2>4. Answering'
    BY <2>1 DEF IInv, Answering, Matches
  <2>5. EffectsAreVetted'
    BY <2>1, EffectsKept DEF IInv
  <2>6. Fresh'
    BY <2>1 DEF IInv, Fresh
  <2>7. QED
    BY <2>2, <2>3, <2>4, <2>5, <2>6 DEF IInv
<1>11. QED
  BY <1>1, <1>2, <1>3, <1>4, <1>5, <1>6, <1>7, <1>8, <1>9, <1>10
     DEF Next, Handler, CoreAnswers

LEMMA Invariance == Spec => []IInv
<1>1. Init => IInv
  BY InitIInv
<1>2. IInv /\ [Next]_vars => IInv'
  BY NextIInv
<1>3. QED BY <1>1, <1>2, PTL DEF Spec

-----------------------------------------------------------------------------
(* TypeOK: calls are answered with codes the Core knows, a task runs only  *)
(* for a call that was started, the loop stays within its limit.           *)
THEOREM TypeCorrect == Spec => []TypeOK
<1>1. IInv => TypeOK
  BY DEF IInv
<1>2. QED BY <1>1, Invariance, PTL

(* AnsweredInOrder: whatever became of the calls, the Core never sees one  *)
(* without its answer.                                                     *)
THEOREM AnsweredTheorem == Spec => []AnsweredInOrder
<1>1. IInv => AnsweredInOrder
  BY DEF IInv, Answering, Matches, AnsweredInOrder
<1>2. QED BY <1>1, Invariance, PTL

(* MessagesAreSanitized: each message of the caller reaches the Core as    *)
(* the inbound filter left it, in every round.                             *)
THEOREM SanitizedTheorem == Spec => []MessagesAreSanitized
<1>1. IInv => MessagesAreSanitized
  <2> SUFFICES ASSUME IInv, asked > 0 PROVE MessagesAreSanitized
    BY DEF MessagesAreSanitized
  <2>1. \A i \in DOMAIN inbox :
          /\ ~Rejects(inbox[i])
          /\ i \in DOMAIN transcript /\ transcript[i] = UserText(Sanitize(inbox[i]))
    BY DEF IInv, Leading
  <2>2. transcript \in Seq(Messages)
    BY DEF IInv, Shapes
  <2>3. \A i \in DOMAIN transcript : transcript[i] \in Messages
    BY <2>2
  <2>4. CompletionRequest.messages = transcript
    BY DEF CompletionRequest
  <2>5. QED BY <2>1, <2>3, <2>4 DEF MessagesAreSanitized, Messages
<1>2. QED BY <1>1, Invariance, PTL

(* EffectsAreVetted: tools run for vetted calls of the Core only, and at   *)
(* most once for each.                                                     *)
THEOREM VettedTheorem == Spec => []EffectsAreVetted
<1>1. IInv => EffectsAreVetted
  BY DEF IInv
<1>2. QED BY <1>1, Invariance, PTL

(* CoreCallsBounded: a chat asks the Core no more often than configured    *)
(* and no more often than the cap.                                         *)
THEOREM BoundedTheorem == Spec => []CoreCallsBounded
<1>1. IInv => CoreCallsBounded
  <2> SUFFICES ASSUME IInv, endpoint = "chat"
      PROVE  asked <= MaxToolIterations /\ asked <= HardCap
    BY DEF CoreCallsBounded
  <2>1. asked \in 0 .. EffectiveMax
    BY DEF IInv, Counted
  <2>2. HardCap \in Nat
    BY ChatAssumption
  <2>3. QED BY <2>1, <2>2, LimitFacts
<1>2. QED BY <1>1, Invariance, PTL
=============================================================================
