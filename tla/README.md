# Verification of IntelliSphere

TLA+ models of IntelliSphere ("Dyson"), TLC configurations that check them on
small instances, and TLAPS proofs for every value of the constants. Paths are
relative to the repository root (`src/` here is the root of the source tree).

    tlc -workers 2 -config SatSafety.cfg MCSatelliteSession   # one run
    tlapm RateLimiterProofs.tla                               # one proof module

## 1. The system

A chat request enters the **Sphere** (Rust, axum), is filtered, and is put to
the **Core** (Go, gRPC), which holds the connection to the model's provider.
When the model asks for tools the Sphere runs them and asks again. Tools may
also live in a browser: the **satellite** client (TypeScript) connects to the
Sphere over a WebSocket and has tool calls adjudicated against a trust budget.

| Component | State it keeps | Operations | Interaction |
|---|---|---|---|
| Satellite sessions (`sphere/src/satellite`) | the map of sessions behind one mutex: budget, suspicion, expiry; per socket the point its `handle_ws` has reached | `create_session`, `ws_upgrade`, the select loop of `handle_ws`, `handle_message`, `Adjudicator::adjudicate` | HTTP and WebSocket clients; the inbound filters; the tool registry |
| Satellite client (`satellite/src`) | `closed`, `reconnectAttempt`, the current transport, pending session requests and sleeping reconnect loops, the guardrails' timestamps | `connect`, `disconnect`, socket events, `attemptReconnect`, `handleToolProposal` | the application's calls, the browser's events, timers |
| Rate limiter (`sphere/src/rate_limit`) | one global bucket, a map of identity buckets, a map of tool buckets, each behind its mutex | `check_request`, `check_tool` | built in `main.rs:92`; no handler calls it yet |
| Core streaming (`core/internal/server/grpc.go`, `adapter/anthropic.go`) | a buffered channel of chunks, a channel of one error, two contexts | `CompleteStream` on both sides | the provider's library, gRPC, the caller |
| Chat (`sphere/src/api/chat.rs`) | the transcript and the iteration counter of a request | `chat`, `chat_stream` | filters, Core, tools |
| Tools (`sphere/src/tools`) | the registry (fixed at startup); one spawned task per running call | `ToolInterceptor::process`, `execute_with_containment`, `ToolExecutor::execute` | the tools' HTTP services |
| Filter pipeline (`sphere/src/pipeline`) | the request's context: annotations, token and turn counters | `run_inbound`, `run_outbound`, one `apply` per filter | chat, adjudicator |
| Ingress gate, authentication (`sphere/src/ingress`, `auth`) | none after startup | `authenticate`, the strategies | `create_session` calls it; the chat handlers do not |
| Policy engine (`sphere/src/policy`) | none | `evaluate` | called by no handler; reads the context of the pipeline and an identity |
| Audit, health, configuration (`sphere/src`) | none after startup | logging, deserialization | audit is called by no handler |
| SDK (`sdk/src`), CLI (`cli`), protocol (`proto`) | none | builders, scaffolding | - |

What is hard in them:

- **Concurrency.** Sockets that share a session; callers that share buckets; the
  adapter's goroutine, the handler and the stream's context; a spawned tool task
  and the handler that may be dropped while awaiting it; several reconnect loops
  of one client.
- **Failure.** A response that cannot be sent after it was paid for; a provider
  that fails, hangs or times out with chunks still buffered; a panic or timeout
  of a tool; a session request that fails after `connect` reset the flags; a
  restart that loses the sessions but not the secret of their tokens.
- **Ordering.** Deduction before the checks and the termination test after them;
  `errCh` closed before `chunkCh`; a close event that arrives after the client
  has moved on; filters that read what an earlier filter left behind, or that
  undo what an earlier one ensured.
- **Bounds.** Fractional, zero and negative budgets; token buckets across idle
  time and polling; the iteration limit; the sliding window of the guardrails.

What makes each correct, in short: verdicts are paid for and a condemned session
stays condemned; no window of time exceeds the configured rate and nobody is
denied without cause; a stream that ends with OK is whole and nothing leaks;
every tool call is vetted, run at most once and answered, and no message of a
caller goes past the filters; each filter finds what it relies on; a socket serves who
was authenticated; a client reconnects when it should and only then.

## 2. The modules

| Module | Models | State and actions against the code |
|---|---|---|
| `TrustLedger` | abstract specification of a session | a grant, verdicts paid for out of it, a final condemnation; no sockets, clock or checks |
| `SatelliteSession` | `ws.rs`, `session.rs`, `trust_budget.rs`, `adjudicator.rs` | `pc` is the point of each socket's `handle_ws`; `Receive`, `Adjudicate`/`HandleOther` and `SendReply`/`SendFails` are the three steps between which other sockets run; `Adjudicate` is the whole critical section |
| `PipelineContext` | `pipeline/context.rs` | the context a request carries through the filters, and its annotations |
| `PolicyEngine` | `policy/engine.rs` | pure operators: a rule, a scope, `Evaluate` over a context and an event |
| `FilterPipeline` | `pipeline/chain.rs`, `pipeline/inbound/*.rs`, `pipeline/outbound/*.rs` | one message after the other, one action per filter; each filter is an operator from a text and a context to a text, a context or a refusal |
| `IngressGate` | `ingress/gate.rs`, `auth/jwt.rs`, `auth/api_key.rs` | pure operators: the credential a request presents, the strategies in turn |
| `SatelliteAccess` | `ws.rs` (`create_session`, `ws_upgrade`), `session.rs` (tokens), `main.rs` (secret) | `Begin` is `create_session` up to the lock, `Store` the rest; `Upgrade` is `ws_upgrade`; `Restart` keeps the environment and what callers hold |
| `TokenBucket` | `token_bucket.rs` | pure operators; the refill of `try_acquire` and of `remaining` |
| `RateLimiter` | `limiter.rs` | one action per look at a bucket; the clock may advance between the two looks of a critical section, and a caller holds no mutex between the global and the identity section |
| `Delivery` | abstract specification of a streaming call | chunks come in order, none is left out before the call is cut short, the status comes last; no buffer, no goroutines |
| `CoreStream` | `CompleteStream` of server and adapter, `mapAdapterError` | one action per select case and per channel operation; defers run in reverse order |
| `ChatLoop` | `chat.rs`, `interceptor.rs`, `executor.rs`, the URL and registry checks, `InputSanitizationFilter` | one request; `StartTool`/`TaskEnds`/`JoinTask` are the spawned task; `CallerLeaves` drops the handler at an await |
| `SatelliteClient` | `satellite.ts`, `guardrails.ts` | an action is what the event loop runs between two awaits |
| `MC*` | - | small instances for TLC |
| `SequenceHelpers` | - | filter, sum and count of a list, taking sets and sequences rather than operators, so that they can be reasoned about |
| `SequenceLemmas` | - | what these helpers and the library's folds return, by induction over the list |
| `SatelliteSessionProofs`, `SatelliteAccessProofs`, `RateLimiterProofs`, `CoreStreamProofs`, `ChatLoopProofs`, `SatelliteClientProofs`, `FilterPipelineProofs` | - | theorems |

`SatelliteSession` instantiates `TrustLedger`, and `CoreStream` `Delivery`,
under a refinement mapping; `RateLimiter` extends `TokenBucket`.
`FilterPipeline` extends `PolicyEngine`, which extends `PipelineContext`, and
instantiates `ChatLoop`: with the chain `from_config` builds, the steps of its
filters are `ChatLoop`'s single `Inbound` step and its outbound verdict.
`SatelliteAccess` extends `IngressGate` and precedes `SatelliteSession`: it ends
where a socket is upgraded, the other begins there. `SatelliteClient` and `SatelliteSession`
are two ends of one socket but do not speak one protocol in this version (the
Sphere takes `tool_proposal` from the client, the client waits for
`tool_proposal_request`), so they are not composed.

Definitions named `X_Something` just before `X` are variants of `X` with a
plausible bug; they are used by nothing and document which change of the code
each property would notice.

### Abstractions

- Trust is counted in halves and suspicion in tenths, exactly; in the code both
  are `f64`. The sums that matter (1.0 steps, multiples of 0.1 up to 1.0) may
  differ from exact ones in the last bit: `0.3 + 0.3 + 0.2 + 0.2` compares with
  `1.0` as rounding decides. The limiter's tokens are exact too.
- A session token is the id, subject and expiry it was made of; signatures are
  perfect, and the leeway of `jsonwebtoken` is a constant (external). Tokens with
  an audience are not put to a strategy that configures none: what the library
  does then is its own affair.
- In `FilterPipeline` a text is a sequence of pieces, each of a kind the filters'
  patterns tell apart (a whole e-mail address, an injection phrase, a control
  character, one hidden inside a phrase) and with its number of bytes; a cut may
  split a piece. `Shortest` gives the length of the shortest string a pattern
  matches, which is what bounds the growth of a text by redaction. `Words` are the
  kinds of pieces that only the topic guardrail tells apart (a topic it lists occurs).
- No pattern matches across the end of a piece, so what a deletion joins is modelled
  by kinds of its own (`Interrupted`): an entity together with the halves around it,
  which no pattern knows and which become a phrase, an e-mail address, an SSN or a
  card once the entity is removed. `dan_and_phone` is the digits that keep `DAN` from
  being a word. These are one joined text for each kind a join can make, one level
  deep (what a join makes is not itself the half of another), and the halves are told
  apart from a stray text only by what they make. Replies, from which nothing is
  deleted, have none of them.
- A run of digits has at most 19 (`Ordinary`), so one phone and a rest: of 20 or more
  `replace_all` takes ten again and again. An optional country code is part of the
  phone. The substitutes of `Replace` are entities in form (`user@example.com`); they
  are a kind of their own that no pattern matches, and `NoWholePiiPasses` speaks of
  the caller's entities only. What a substitute and digits next to it make, a card
  of 13 digits or more, is modelled. Custom patterns of the classifier and the filters'
  rules that no text of the run distinguishes are left out.
- A chain holds each filter at most once and in the order of `Rank`, the one
  `from_config` and `README.md:32` list them in; `PipelineChain` would take others,
  but no code builds them. This is part of `PipelineAssumption`.
- A payload is clean, oversized or contains a null byte; a text is clean, has
  control characters or a null byte; arguments are valid, invalid, or make the
  result larger than 1 MiB with the cut on or inside a character.
- The system text of a chat request is a class of text like a message's; no step looks
  at it before it goes into the completion request.
- In `ChatLoop` the outbound filters are one nondeterministic verdict. The chat's
  caller has no identity (`chat.rs` never sets one), so `Identity = NoIdentity` in
  the run.
- The shipped registry holds one tool (`intellisphere_echo`) and the executor's
  URL allowlist is empty (`main.rs`); the run's registry adds one tool for each
  way a call can be refused or end, since the registry is the library's interface.
- The guardrails are those of one tool; buckets of different tools are
  independent. `connect` builds new guardrails, so the window starts afresh.

## 3. The runs

| Run | Module, cfg | What it shows | Bounds |
|---|---|---|---|
| `satellite_safety` | `MCSatelliteSession`, `SatSafety` | type invariant, `VerdictsWithinBudget`, `FewRejections`, `TerminatedIsLast`, refinement `ImplementsLedger` | one session, two sockets, five proposals; budgets -0.5, 2.0 and 5.5 |
| `satellite_live` | `MCSatelliteSession`, `SatLive` | `CondemnedSocketCloses` under fairness | five proposals, budgets -0.5 and 5.5, so that both limits condemn; the clock stands still |
| `rate_limits` | `MCRateLimiter`, `Rate` | type invariant, `WindowBound`, `GlobalBoundsAdmitted`, `DenialFollowsGrant` | two callers, two identities, one ruled tool, three ticks of ten seconds |
| `core_stream` | `MCCoreStream`, `Stream` | `NoGap`, `OkIsWhole`, the refinement `ImplementsDelivery`, and under fairness `ProducerEnds`, `HandlerReturns` | five events, a buffer of two |
| `stream_failure_reported` | `MCCoreStream`, `StreamX_FailureIsReported` | violated | two events |
| `chat_loop` | `MCChatLoop`, `Chat` | `AnsweredInOrder`, `MessagesAreSanitized` (of the messages, not of the system text), `EffectsAreVetted`, `CoreCallsBounded`, and under fairness `RequestEnds` | limit 3 configured, cap 2; up to three calls per response |
| `chat_panic_contained` | `MCChatLoop`, `ChatX_*` | violated | as above |
| `filter_pipeline` | `MCFilterPipeline`, `Pipeline` | `InjectionsAreNoted`, `EchoIsNoticed`, `NoWholePiiPasses`, `OverrunBounded`, `BudgetsHold`, `BreachesStand` (a limit a policy counts, once exceeded, stays so), and `ImplementsChat` (with the wired chain, a step of `ChatLoop`) | five configured chains, five chains of all filters, up to two messages of twelve texts, nine replies, three policy limits |
| `satellite_access` | `MCSatelliteAccess`, `Access` | `SessionsAreGranted`, `SocketsAreAuthentic` | two callers, two sessions, one restart, four configurations, eleven kinds of headers |
| `satellite_client` | `MCSatelliteClient`, `Client` | `InvocationRate`, `ClosedStaysQuiet`, and under fairness `Recovers`, `ProposalsAreAnswered` | two connects, three sockets, two proposals, one attempt, one invocation per window of two ticks |
| `client_retries_bounded`, `client_expected_close` | `MCSatelliteClient`, `ClientX_*` | violated | four sockets, no proposals |

Why the bounds are enough to be interesting:

- *Satellite.* Five proposals with budget 5.5 reach the suspicion threshold
  before the budget runs out (four rejections are told, the fifth terminates);
  2.0 is used up exactly; -0.5 is condemned from the start. Two sockets give
  every order of receive, adjudicate and send. `MaxTime` and `MaxProposals` bound
  the clock and the proposals; the proofs need neither.
- *Limiter.* A tick refills half a global token and a third of an identity's, so
  fractions are kept across looks, and bursts of two and one are exhausted and
  refilled. The observed window may start at any tick. Callers and identities
  are interchangeable (`LimiterSymmetry`); the properties are safety properties
  that treat all of them alike.
- *Stream.* More events than the buffer holds, so the producer blocks; 32 in the
  code behaves as any capacity does.
- *Chat.* `HardCap` is 25 in the code; with 2 and a configured 3 the cap is what
  binds, which is the case the code needs it for; one round of each kind of tool
  call and a second round after it.
- *Pipeline.* The chains of `from_config` have only the sanitizer inbound; the
  other five chains put every filter, in each of its modes, in the order
  `README.md:32` documents. The texts have each kind of piece alone and next to
  the one that interferes with it (a control character inside a phrase or an e-mail
  address, a phone pattern over a longer number, inside a phrase, an address or an SSN,
  or right behind `DAN`, two entities in one text, a cap in the middle of a reply); two
  messages let the counters and annotations of one meet the other.
- *Access.* A session may expire at once or after two ticks; a credential may
  expire between two requests; one restart separates the tokens of two runs; the
  configurations have several strategies that could accept one credential, and
  keys that are listed twice.
- *Client.* Three sockets are the first, one opened by a reconnect loop and one
  by a second `connect`; two loops can sleep together. One attempt reaches "give
  up"; the limit of one invocation is exceeded by two proposals at the edge of
  the window if the eviction is wrong.

`CHECK_DEADLOCK FALSE` is given where the system comes to rest by itself: a chat
request or a stream that is over, and satellite sessions and
restarts once the bounds on time, proposals and sessions are used up. The limiter
and the client are checked for deadlock.

### Fairness, and why the code justifies it

- `SatelliteSession!FairSpec`: tokio polls the task of a socket that has work;
  the session mutex is held for a bounded computation and a send completes or
  fails. Clients and the clock may do nothing.
- `CoreStream!FairSpec`: both goroutines run and the 60 s timer fires. The
  provider may hang until `callCtx` is done, `stream.Send` until the stream's
  context is; gRPC ends that context once the handler has returned.
- `ChatLoop!FairSpec`: the handler is polled, the Core answers within its own
  timeout and the task ends because its timeout is inside the task.
- `SatelliteClient!FairSpec`: timers fire. The network, the tools and the
  application may do nothing.

## 4. The proofs

All by TLAPS, for any number of sessions, sockets, callers, identities, any
rules and any bounds, from the named assumptions on the constants only.

**`SatelliteSessionProofs`.** `TypeCorrect`, `BudgetTheorem`, `RejectionTheorem`,
`TerminatedTheorem` and `LedgerRefinement`. The bound on verdicts is not
inductive by itself: nothing in it says how much of the budget is left. The
invariant `IInv` adds `Account(s)` for every session: the verdicts were paid for
with `initial - remaining`, and each rejection left at least 2 tenths in
`suspicion`. The only step that disturbs it is `Adjudicate`, whose facts
(`FaultFacts`, `SuspicionFacts`, `VerdictFacts`) are lemmas about the verdict: it
is a verdict only if budget and suspicion are within limits *after* the charge.
The refinement maps `Adjudicate` to `Accept`, `Reject`, `Condemn` or a stutter
and `CreateSession` to `Open`; everything else stutters.

**`RateLimiterProofs`.** `TypeCorrect`, `WindowTheorem`, `GlobalTheorem`,
`DenialTheorem`. `WindowBound` speaks of tokens granted; to be inductive it needs
the tokens still in the bucket. `Window(b, t0, n0)` says that granted tokens plus
those in the bucket never exceed the capacity plus what time has refilled, both
from the start and from the observed moment. `Refilled(b)` says that a bucket
holds what has been refilled since its last grant, or is full, from which a
denial implies a recent grant. `FlightInv` counts requests the global bucket let
through that have not returned, so that what is admitted is at most what the
global bucket granted; `PresentInv` says a caller in a section has its bucket.

**`CoreStreamProofs`.** `TypeCorrect`, `NoGapTheorem`, `OkTheorem`,
`DeliveryRefinement`. What the caller has received says nothing of what is still
in flight. `Ordered` says that the received chunks, the one in the handler's hand
and the buffer are one increasing sequence of events; `Whole` that as long as the
call is live this sequence leaves nothing out; `Protocol` that OK is returned
only over an empty buffer with the producer gone. The actions that could break
`Whole` are the producer's select (it drops an event only once the call is done)
and a failed `Send`, after which nothing is sent. Under the mapping only a
completed `Send` is a delivery; the producer's steps stutter.

**`ChatLoopProofs`.** `TypeCorrect`, `AnsweredTheorem`, `SanitizedTheorem`,
`VettedTheorem`, `BoundedTheorem`, for any registry, caller, system text,
responses and limit. `Answering` relates the results collected so far to the
calls of the last message, so that appending them answers exactly these calls;
`Counted` ties the number of completions to the loop's counter by phase; `Passed`
keeps the filter's verdict on the request for as long as the Core may be asked;
`Fresh` says that of the last message's calls only the answered ones and the
awaited one have run, from which the next run is a new one.

**`SatelliteAccessProofs`.** `TypeCorrect`, `AuthenticTheorem` and
`GrantedTheorem`, for any strategies, requests and durations. The ids of
pending requests and of stored sessions belong to the present run of the process
(`HandlingInv`, `SessionsInv`), and no pending request holds an id that is stored
or pending elsewhere: therefore `Store` never replaces a session under an
upgraded socket. `Provenance` adds that the identity each session was created for
is one the request's headers prove at the time it began, and that the stored
subject is that identity's. What the gate returns is shown by induction over the
list of strategies (`TryAllFirst`): the identity is that of the first strategy
that accepts, and every earlier one refused the credential.

**`SatelliteClientProofs`.** `TypeCorrect`, `RateTheorem` (`InvocationRate`) and
`QuietTheorem` (`ClosedStaysQuiet`). `IInv` says that the sockets are a sequence
of records that only `FetchSucceeds` and `Wake` lengthen, and that the shared
counter stays within its limit under every interleaving of reconnect loops. The
rate needs `GuardInv`: the guardrails remember every invocation that is still in
the window (`Remembered`), so that a list below the limit means that the window is
too; what the eviction keeps is `SelectFacts` of `SequenceLemmas`.

**`FilterPipelineProofs`.** All invariants of the run `filter_pipeline`, its action
property (`BreachesTheorem`) and the refinement `ChatRefinement` (`ImplementsChat`),
for any configuration, any
chains in the documented order, any texts and any number of messages.
- First what each filter returns: an induction over the pieces of a text, over
  the list of entities or over the annotations (`RedactFacts`, `TruncateFacts`,
  `StripFacts`, `EstimateFacts`, ...), collected in `ApplyFacts`.
- The invariants of the run speak of texts that have left the chain. Inductive is
  `AllKept`: every text, those still inside the chain included, satisfies what
  the filters *behind it* ensure (`Passed`). `PassedStays` is the core of it: no
  later filter of the chain undoes what an earlier one ensured, where the cap's
  part allows ten bytes for each mask, and allows the fixed notice that may replace
  the whole reply. It does so for the phrases and entities that redaction cannot
  itself bring forth: `MadeFacts` lists, pattern by pattern, the kinds of pieces that
  masking, replacing and removing may write, and `Reveals` the injection phrases among
  them. These are what `InjectionsAreNoted` and `EchoIsNoticed` except (`Revealed`), and
  the entities among them are why of a redaction that removes `NoWholePiiPasses` claims
  SSNs only: they are the one kind that nothing joined after SSN has run can be.
- `TokensCounted`, `TurnsCounted`: the counters of the context equal what the
  messages sent so far cost, plus the one in hand if the counting filter is
  behind it. `BudgetsHold` follows from these; by itself it says nothing of a
  message still in the chain. `BreachesStand` needs no invariant but the shape of the
  state: no filter lowers a count (`FilterRises`), and no step of the handler does
  (`StepRises`).
- The refinement maps a text to the class `ChatLoop` knows. `InHand` says that in
  the wired chain the message in the sanitizer's hand is the one `ChatLoop` is
  about to read and that those past it hold no null byte; every other filter step
  stutters.

**`SequenceLemmas`.** A theorem of the library that takes an operator as a
parameter cannot be used here, so induction over data is done with sets: a
non-empty set of naturals has a least element (`LeastElement`), hence a set that
contains m and is closed under successors contains all up to n (`Climb`), hence
functions defined by recursion exist and satisfy their equation
(`RecursionExists`). The other lemmas (`SelectFacts`, `TotalConcat`,
`WeighFlatten`, `FlattenMembers`, ...) are about filter, sum, concatenation and
replacement in a sequence.

The theorems rest on the named assumptions about the constants (`ChatAssumption`,
`AccessAssumption`, `GateAssumption`, `PipelineAssumption`, ...), which TLC
evaluates on the instances of the runs.

**Only model-checked**: liveness under fairness (`CondemnedSocketCloses`,
`ProducerEnds`, `HandlerReturns`, `Recovers`, `ProposalsAreAnswered`, `RequestEnds`),
which the prover does not handle. Every other property of a passing run is the
statement of a theorem. The four runs that show a violation are finite
counterexamples and need no proof.

## 5. Not modelled

Unary `Complete` and `Health` of the Core and the mock adapter (no state between
steps); regular expressions character by character; the bytes of signatures; the
audit sinks (they write log events, and no handler calls them); most of
configuration loading (deserialization); `ToolRegistry::register`, which only
`main` calls before the first request; the SDK, the CLI and generated code.
In the satellite sessions, `cleanup_expired` and `remove`, which nothing calls.
In the client, application callbacks that re-enter `connect` or `disconnect`.

## 6. Where code and documents differ

Shown by a run:

- A stream whose provider failed may end with OK: the closed chunk channel and
  the buffered error are both ready and select picks either (`FailureIsReported`).
- Cutting an oversized tool result inside a character panics in the request
  handler, outside the containment (`PanicsContained`).
- The client never gives up: creating a socket resets the attempts
  (`RetriesBounded`).
- The client reconnects for a socket it closed itself, beside the one a new
  `connect` opened (`ReconnectsIfUnexpected`).

Visible in the models, without a run of their own.

Satellite sessions and access:

- A terminated session can be upgraded again, several sockets may serve one
  session and an open socket outlives its expiry
  (`dyson-implementation-guide.md:562-571` says otherwise).
- A socket that never answers a ping stays open (`:563-564`; the heartbeat,
  `ws.rs:235`, does not wait for the pong), and a pong is answered with a ping,
  which the client answers with a pong (`ws.rs:278`).
- `cleanup_expired` is never called (`session.rs:69`): the map only grows.
- The adjudicator looks for `"sanitiz"` in a filter name spelled
  `InputSanitization`: injection-like rejections cost 0.2, not 0.5.
- A `duration_secs` outside what `chrono` can represent panics in the handler.
- An `Authorization` header hides `X-API-Key` even when it holds nothing a
  strategy knows (`gate.rs:49`, "first, then").
- An `Authorization` header that is not visible ASCII counts as absent, and
  `X-API-Key` is used (`ws.rs:139`).
- No strategy fills an identity's metadata, so every identity of the gate breaks a
  policy with `RequireMfa`: `identity.rs:15` calls it "Arbitrary metadata extracted
  from the auth token", and the tests of `engine.rs` (line 258) pass with one made by
  hand.

Chat, tools and filters:

- Without a `tools` section the derived default makes `max_tool_iterations` 0, not
  10, and the Core is never asked (`config/mod.rs:235`; the shipped
  `dyson.config.yaml` sets it).
- At the iteration limit a fixed text is returned instead of the last response
  (`dyson-implementation-guide.md:728`).
- The chat handlers put no identity into the context: tools with scopes or roles
  are refused, policies on identities have nothing to look at.
- The `system` text of a request is the caller's and goes to the Core as it came: no
  inbound filter sees it, on either endpoint (`chat.rs:26`, `:102`, `:115`, `:240`,
  `:245`). `MessagesAreSanitized` is about the messages only.
- Streamed chunks pass no outbound filter and their tool calls no interceptor
  (`chat.rs:264`).
- The echo filter reads what `ContentClassifier` notes, but `from_config` never
  builds a classifier (`README.md:105-116` documents it as enabled): in the wired
  chain the filter has no effect.
- Nothing writes `known_urls`, so every URL of a reply is flagged; nothing writes
  `result_size`, so the `MaxResultSize` rule is never broken.
- The cap runs before the redaction: an entity the cap has cut is no longer
  recognised, and redaction may lengthen the text past the cap by up to ten
  bytes per mask (`OverrunBounded` says by how much at most).
- `PHONE` matches inside longer numbers and runs before the card pattern, so the
  remaining digits of a long number are left in the text.
- `PIIRedaction` runs after the classifier, each of its patterns once, and `Remove`
  joins what stood on both sides: `jail5551234567break` passes the classifier and
  reaches the Core as `jailbreak`, unnoted, so that a reply that echoes it is not
  noticed either; `john@example.c5551234567om` becomes a whole e-mail address, and
  `1111111--111-11-11111111--1111111` a card number. `Mask` makes `DAN` a word of its
  own in `DAN5551234567`. The invariants except these cases by name (`Revealed`, SSN).
- `MaxToolCallsPerSession` ("max tool calls per session", guide line 500) compares its
  limit with `turn_count`, the messages of the request, not with tool calls
  (`engine.rs:83-85`); `MaxTokensPerIdentityPerHour` ("per identity per hour", line 501)
  with the tokens of the one request. `BreachesStand` is about the counts as they are.
- The limits of `TokenBudget` and `ConversationBoundary` that are named after a
  session hold per request: each request has a context of its own.

Limiter and client:

- The quota reported by `check_request` is not the most restrictive
  (`limiter.rs:42`, `:71`); buckets are never evicted (`limiter.rs:61`).
- `disconnect` during a pending `connect` leaves a socket open; a result that
  cannot be serialised leaves its proposal without an answer.

## 7. Plan

Done: `TrustLedger`, `SatelliteSession`, `SatelliteAccess` with proofs;
`TokenBucket`, `RateLimiter` with proofs; `Delivery`, `CoreStream` with proofs;
`ChatLoop` with proofs; `FilterPipeline` over `PolicyEngine` and
`PipelineContext` with proofs, the refinement of `ChatLoop`'s filtering included;
`SatelliteClient` with proofs. Every safety property and every refinement the
runs check is a theorem.

Left, in this order:

1. The composition of `ChatLoop`'s streaming endpoint with `CoreStream` at the
   Core's interface: a caller that leaves is a context that is cancelled.
2. An abstract specification of a chat request (asked, answered, ended) that
   `ChatLoop` implements.
3. The accounting of global tokens taken by requests that their identity's bucket
   then denies (`limiter.rs:68`).
4. `ToolRegistry::register` as an action before the first request.
