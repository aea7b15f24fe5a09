------------------------------ MODULE ChatLoop ------------------------------
(***************************************************************************)
(* One POST /v1/chat or /v1/chat/stream request in the Sphere: the inbound *)
(* filter, the loop that alternates completions of the Core with tool      *)
(* calls (sphere/src/api/chat.rs), the interceptor that vets each call and *)
(* runs it in a task of its own (sphere/src/tools), and the outbound       *)
(* filters.  The Core, the tool's HTTP service and the caller are          *)
(* external.  Axum drops the handler at an await when the caller leaves.   *)
(***************************************************************************)
EXTENDS Naturals, Sequences

CONSTANTS
  Inboxes,         (* the messages a request may carry: sequences of texts *)
  Systems,         (* the system text a request may carry                  *)
  CallLists,       (* the tool calls one response of the Core may make     *)
  Registry,        (* ToolRegistry: name -> [zone, scopes, roles, url]     *)
  Identity,        (* the caller, [scopes, roles], or NoIdentity           *)
  NoIdentity,
  ConfiguredMax,   (* tools.max_tool_iterations, or Unset                  *)
  Unset,           (* the configuration has no tools section               *)
  HardCap          (* 25 in the code                                       *)

Echo    == "intellisphere_echo"
Texts   == {"clean", "control", "null"}
Zones   == {"sphere", "satellite", "wasm"}
Urls    == {"none", "garbled", "insecure", "foreign", "allowed"}
Args    == {"valid", "invalid", "huge", "hugeSplit"}
Codes   == {"ok", "TOOL_NOT_FOUND", "AUTHORIZATION_DENIED", "VALIDATION_FAILED",
            "SATELLITE_UNAVAILABLE", "NOT_IMPLEMENTED", "EXECUTION_ERROR",
            "EXECUTION_TIMEOUT"}
Stops   == {"end_turn", "tool_use", "max_tokens"}

ASSUME ChatAssumption ==
  /\ \A box \in Inboxes : box \in Seq(Texts)
  /\ Systems \subseteq Texts
  /\ \A calls \in CallLists :
       /\ calls \in Seq({calls[i] : i \in DOMAIN calls})
       /\ \A i \in DOMAIN calls : calls[i].args \in Args
  /\ \A name \in DOMAIN Registry :
       Registry[name].zone \in Zones /\ Registry[name].url \in Urls
  /\ HardCap \in Nat
  /\ ConfiguredMax = Unset \/ ConfiguredMax \in Nat

VARIABLES
  endpoint,    (* "chat" or "stream"                                       *)
  inbox,       (* req.messages                                             *)
  system,      (* req.system                                               *)
  phase,       (* where the handler stands                                 *)
  transcript,  (* proto_messages                                           *)
  iteration,   (* the loop's counter                                       *)
  calls,       (* response.tool_calls being processed                      *)
  results,     (* the results collected for them                           *)
  task,        (* the spawned task: "none", "running" or how it ended      *)
  outcome,     (* what the caller got                                      *)
  asked,       (* history: completions asked of the Core                   *)
  started      (* history: the runs, each [call, message, index]           *)

vars == <<endpoint, inbox, system, phase, transcript, iteration, calls, results, task,
          outcome, asked, started>>

Final == {"returned", "dropped", "crashed"}

(* derive(Default) on ToolsConfig ignores the serde default of the field.  *)
MaxToolIterations == IF ConfiguredMax = Unset THEN 0 ELSE ConfiguredMax

EffectiveMax_Uncapped == MaxToolIterations
EffectiveMax == IF MaxToolIterations <= HardCap THEN MaxToolIterations ELSE HardCap

UserText(text) == [role |-> "user", text |-> text, calls |-> <<>>, results |-> <<>>]
ToolUse(cs)    == [role |-> "assistant", text |-> "model", calls |-> cs, results |-> <<>>]
ToolAnswer(rs) == [role |-> "user", text |-> "clean", calls |-> <<>>, results |-> rs]

Return(what) == phase' = "returned" /\ outcome' = what

Init ==
  /\ endpoint \in {"chat", "stream"}
  /\ inbox \in Inboxes
  /\ system \in Systems
  /\ phase      = "inbound"
  /\ transcript = <<>>
  /\ iteration  = 0
  /\ calls      = <<>>
  /\ results    = <<>>
  /\ task       = "none"
  /\ outcome    = "none"
  /\ asked      = 0
  /\ started    = <<>>

-----------------------------------------------------------------------------
(* InputSanitizationFilter: null bytes are rejected, control characters    *)
(* are stripped.                                                           *)
Sanitize(text) == IF text = "control" THEN "clean" ELSE text
Rejects(text)  == text = "null"

Inbound_FirstOnly ==
  /\ phase = "inbound"
  /\ \/ /\ inbox # <<>> /\ Rejects(inbox[1])
        /\ Return("FILTER_REJECTED") /\ UNCHANGED transcript
     \/ /\ ~(inbox # <<>> /\ Rejects(inbox[1]))
        /\ transcript' = [i \in DOMAIN inbox |-> UserText(Sanitize(inbox[i]))]
        /\ phase' = "loop" /\ UNCHANGED outcome
  /\ UNCHANGED <<endpoint, inbox, system, iteration, calls, results, task, asked,
                 started>>

(* run_inbound on every message of the request, before the Core is asked.  *)
(* No filter sees the request's system text.                               *)
Inbound ==
  /\ phase = "inbound"
  /\ \/ /\ \E i \in DOMAIN inbox : Rejects(inbox[i])
        /\ Return("FILTER_REJECTED") /\ UNCHANGED transcript
     \/ /\ \A i \in DOMAIN inbox : ~Rejects(inbox[i])
        /\ transcript' = [i \in DOMAIN inbox |-> UserText(Sanitize(inbox[i]))]
        /\ phase' = "loop" /\ UNCHANGED outcome
  /\ UNCHANGED <<endpoint, inbox, system, iteration, calls, results, task, asked,
                 started>>

AskCore_OnceMore ==
  /\ phase = "loop"
  /\ endpoint = "chat" => iteration <= EffectiveMax
  /\ phase' = "core"
  /\ asked' = asked + 1
  /\ UNCHANGED <<endpoint, inbox, system, transcript, iteration, calls, results,
                 task, outcome, started>>

(* The head of the loop, or the stream's only completion: the Core gets    *)
(* the system text as the caller sent it, and the messages.                *)
CompletionRequest == [system |-> system, messages |-> transcript]

AskCore ==
  /\ phase = "loop"
  /\ endpoint = "chat" => iteration < EffectiveMax
  /\ phase' = "core"
  /\ asked' = asked + 1
  /\ UNCHANGED <<endpoint, inbox, system, transcript, iteration, calls, results,
                 task, outcome, started>>

(* The loop is over: a text of the Sphere's own.                           *)
MaxIterations ==
  /\ phase = "loop"
  /\ endpoint = "chat"
  /\ iteration >= EffectiveMax
  /\ Return("max_iterations")
  /\ UNCHANGED <<endpoint, inbox, system, transcript, iteration, calls, results,
                 task, asked, started>>

(* core_client.complete or complete_stream returns a status.               *)
CoreFails ==
  /\ phase = "core"
  /\ Return("CORE_ERROR")
  /\ UNCHANGED <<endpoint, inbox, system, transcript, iteration, calls, results,
                 task, asked, started>>

(* The chat's response asks for tools.                                     *)
CoreCallsTools(stop, cs) ==
  /\ phase = "core"
  /\ endpoint = "chat"
  /\ stop = "tool_use" /\ cs # <<>>
  /\ transcript' = Append(transcript, ToolUse(cs))
  /\ calls'   = cs
  /\ results' = <<>>
  /\ phase'   = "tools"
  /\ UNCHANGED <<endpoint, inbox, system, iteration, task, outcome, asked, started>>

(* Any other response is the answer, once run_outbound lets it pass; calls *)
(* a response makes without the stop reason of one are ignored.            *)
CoreFinishes(stop, cs) ==
  /\ phase = "core"
  /\ endpoint = "chat"
  /\ ~(stop = "tool_use" /\ cs # <<>>)
  /\ Return("model") \/ Return("OUTBOUND_REJECTED")
  /\ UNCHANGED <<endpoint, inbox, system, transcript, iteration, calls, results,
                 task, asked, started>>

(* chat_stream forwards the Core's chunks as they come.                    *)
CoreStreams ==
  /\ phase = "core"
  /\ endpoint = "stream"
  /\ Return("stream")
  /\ UNCHANGED <<endpoint, inbox, system, transcript, iteration, calls, results,
                 task, asked, started>>

-----------------------------------------------------------------------------
(* ToolInterceptor::process, one call after the other.                     *)
Pending == phase = "tools" /\ Len(results) < Len(calls)
Current == calls[Len(results) + 1]
Run     == [call |-> Current, message |-> Len(transcript), index |-> Len(results) + 1]
Answer(code) == Append(results, [id |-> Current.id, code |-> code])

Registered(call) == call.name \in DOMAIN Registry

(* check_authorization                                                     *)
Authorized(call) ==
  LET tool == Registry[call.name]
  IN  \/ tool.scopes = {} /\ tool.roles = {}
      \/ /\ Identity # NoIdentity
         /\ tool.scopes \subseteq Identity.scopes
         /\ tool.roles \subseteq Identity.roles

(* validate_params                                                         *)
Valid(call) == call.args # "invalid"

Vetted(call) == Registered(call) /\ Authorized(call) /\ Valid(call)

Verdict(call) ==
  CASE ~Registered(call)                      -> "TOOL_NOT_FOUND"
    [] Registered(call) /\ ~Authorized(call)  -> "AUTHORIZATION_DENIED"
    [] OTHER                                  -> "VALIDATION_FAILED"

RefuseCall_Skips ==
  /\ Pending
  /\ ~Vetted(Current)
  /\ IF Registered(Current)
     THEN results' = Answer(Verdict(Current)) /\ UNCHANGED calls
     ELSE /\ calls' = SubSeq(calls, 1, Len(results)) \o SubSeq(calls, Len(results) + 2, Len(calls))
          /\ UNCHANGED results
  /\ UNCHANGED <<endpoint, inbox, system, phase, transcript, iteration, task,
                 outcome, asked, started>>

RefuseCall ==
  /\ Pending
  /\ ~Vetted(Current)
  /\ results' = Answer(Verdict(Current))
  /\ UNCHANGED <<endpoint, inbox, system, phase, transcript, iteration, calls,
                 task, outcome, asked, started>>

StartTool_Unvetted ==
  /\ Pending
  /\ Registered(Current) /\ Valid(Current)
  /\ phase'   = "await"
  /\ task'    = "running"
  /\ started' = Append(started, Run)
  /\ UNCHANGED <<endpoint, inbox, system, transcript, iteration, calls, results,
                 outcome, asked>>

(* execute_with_containment spawns a task and awaits it.                   *)
StartTool ==
  /\ Pending
  /\ Vetted(Current)
  /\ phase'   = "await"
  /\ task'    = "running"
  /\ started' = Append(started, Run)
  /\ UNCHANGED <<endpoint, inbox, system, transcript, iteration, calls, results,
                 outcome, asked>>

(* ScopedHttpClient: only an HTTPS URL whose host is on the allowlist, and *)
(* only a body within the limit, is sent anywhere; then the service may    *)
(* answer, fail, or answer too much.                                       *)
ValidateUrl(url) == url = "allowed"

Post(url, args) ==
  IF ValidateUrl(url) /\ args = "valid"
  THEN {"ok", "EXECUTION_ERROR"} ELSE {"EXECUTION_ERROR"}

(* A tool of the Sphere: the built-in by its name, else its handler within *)
(* the tool's timeout; an await may also end in a panic.                   *)
ExecuteSphereTool(call) ==
  LET url   == Registry[call.name].url
      ended == Post(url, call.args)
  IN  CASE call.name = Echo -> {"ok"}
        [] call.name # Echo /\ url = "none" -> {"EXECUTION_ERROR"}
        [] call.name # Echo /\ url # "none" ->
             ended \cup (IF "ok" \in ended THEN {"EXECUTION_TIMEOUT", "panic"} ELSE {})

(* How ToolExecutor::execute may end for a call.                           *)
Endings(call) ==
  CASE Registry[call.name].zone = "sphere"    -> ExecuteSphereTool(call)
    [] Registry[call.name].zone = "satellite" -> {"SATELLITE_UNAVAILABLE"}
    [] Registry[call.name].zone = "wasm"      -> {"NOT_IMPLEMENTED"}

TaskEnds_TimedByHandler ==
  /\ task = "running" /\ phase = "await"
  /\ task' \in Endings(started[Len(started)].call)
  /\ UNCHANGED <<endpoint, inbox, system, phase, transcript, iteration, calls,
                 results, outcome, asked, started>>

(* The task runs on when the handler that awaited it is gone.              *)
TaskEnds ==
  /\ task = "running"
  /\ task' \in Endings(started[Len(started)].call)
  /\ UNCHANGED <<endpoint, inbox, system, phase, transcript, iteration, calls,
                 results, outcome, asked, started>>

JoinTask_Retries ==
  /\ phase = "await"
  /\ task \notin {"none", "running"}
  /\ task' = "none"
  /\ phase' = "tools"
  /\ results' = IF task = "EXECUTION_TIMEOUT" THEN results
                ELSE Answer(IF task = "panic" THEN "EXECUTION_ERROR" ELSE task)
  /\ UNCHANGED <<endpoint, inbox, system, transcript, iteration, calls, outcome,
                 asked, started>>

(* The awaiting handler takes the result.  Cutting a result of more than   *)
(* MAX_RESULT_SIZE bytes inside a character panics, in the handler itself. *)
JoinTask ==
  /\ phase = "await"
  /\ task \notin {"none", "running"}
  /\ task' = "none"
  /\ \/ /\ task = "ok" /\ Current.args = "hugeSplit"
        /\ phase' = "crashed" /\ UNCHANGED results
     \/ /\ ~(task = "ok" /\ Current.args = "hugeSplit")
        /\ phase' = "tools"
        /\ results' = Answer(IF task = "panic" THEN "EXECUTION_ERROR" ELSE task)
  /\ UNCHANGED <<endpoint, inbox, system, transcript, iteration, calls, outcome,
                 asked, started>>

(* All calls are answered: the results go back to the Core.                *)
NextIteration ==
  /\ phase = "tools"
  /\ Len(results) = Len(calls)
  /\ transcript' = Append(transcript, ToolAnswer(results))
  /\ iteration'  = iteration + 1
  /\ phase'      = "loop"
  /\ UNCHANGED <<endpoint, inbox, system, calls, results, task, outcome, asked,
                 started>>

(* External: the caller leaves while the handler awaits something.         *)
CallerLeaves ==
  /\ phase \in {"core", "await"}
  /\ phase' = "dropped"
  /\ UNCHANGED <<endpoint, inbox, system, transcript, iteration, calls, results,
                 task, outcome, asked, started>>

CoreAnswers ==
  \/ CoreFails \/ CoreStreams
  \/ \E stop \in Stops, cs \in CallLists : CoreCallsTools(stop, cs) \/ CoreFinishes(stop, cs)

Handler == Inbound \/ AskCore \/ MaxIterations \/ CoreAnswers
           \/ RefuseCall \/ StartTool \/ JoinTask \/ NextIteration

Next == Handler \/ TaskEnds \/ CallerLeaves

Spec == Init /\ [][Next]_vars

(* Tokio polls ready tasks; the Core answers within its own 30 s timeout,  *)
(* and a tool's request within its tool's (tokio::time::timeout).          *)
FairSpec == Spec /\ WF_vars(Handler) /\ WF_vars(TaskEnds)

-----------------------------------------------------------------------------
TypeOK ==
  /\ endpoint \in {"chat", "stream"}
  /\ inbox \in Inboxes /\ system \in Systems
  /\ phase \in {"inbound", "loop", "core", "tools", "await"} \cup Final
  /\ iteration \in 0 .. EffectiveMax
  /\ calls \in CallLists \cup {<<>>}
  /\ Len(results) <= Len(calls)
  /\ \A i \in DOMAIN results : results[i].code \in Codes
  /\ task \in {"none", "running", "panic"} \cup Codes
  /\ phase = "await" => task # "none"
  /\ task # "none" => started # <<>>
  /\ outcome \in {"none", "model", "stream", "max_iterations", "FILTER_REJECTED",
                  "CORE_ERROR", "OUTBOUND_REJECTED"}
  /\ asked \in Nat

Ids(s) == [i \in DOMAIN s |-> s[i].id]

(* Whenever the Core is asked, each message of the transcript that calls   *)
(* tools is followed by one that answers exactly those calls, in order,    *)
(* whatever became of them (the protocol of the provider; process).        *)
AnsweredInOrder ==
  phase \in {"loop", "core"} =>
    \A i \in DOMAIN transcript :
      transcript[i].calls # <<>> =>
        /\ i < Len(transcript)
        /\ Ids(transcript[i + 1].results) = Ids(transcript[i].calls)

(* Every message of the caller, whatever its position, is in the Core's    *)
(* request as the inbound filter left it, and what later rounds add keeps  *)
(* them there; a request with a message that is refused asks nothing       *)
(* (run_inbound for each message).  It says nothing of the system text.    *)
MessagesAreSanitized ==
  asked > 0 =>
    /\ \A i \in DOMAIN inbox :
         /\ ~Rejects(inbox[i])
         /\ i \in DOMAIN transcript
         /\ CompletionRequest.messages[i] = UserText(Sanitize(inbox[i]))
    /\ \A i \in DOMAIN transcript : CompletionRequest.messages[i].text \in {"clean", "model"}

(* Tools run only for vetted calls the Core made in some message, and for  *)
(* each of them at most once: a failed, timed out or abandoned run is      *)
(* never repeated (execute_with_containment).                              *)
EffectsAreVetted ==
  \A i \in DOMAIN started :
    LET run == started[i]
    IN  /\ Vetted(run.call)
        /\ run.message \in DOMAIN transcript
        /\ run.index \in DOMAIN transcript[run.message].calls
        /\ run.call = transcript[run.message].calls[run.index]
        /\ \A j \in DOMAIN started \ {i} :
             started[j].message = run.message => started[j].index # run.index

(* However the model insists on tools, a request costs at most the         *)
(* configured number of completions, and never more than the cap.          *)
CoreCallsBounded ==
  endpoint = "chat" => asked <= MaxToolIterations /\ asked <= HardCap

(* Every request comes to an end, and no tool task is left running, not    *)
(* even one whose caller has left.                                         *)
RequestEnds == <>[](phase \in Final /\ task # "running")

-----------------------------------------------------------------------------
(* interceptor.rs:113 "Execute a tool call with panic containment and      *)
(* result size enforcement".                                               *)
PanicsContained == phase # "crashed"
=============================================================================
