-------------------------- MODULE FilterPipeline ---------------------------
(***************************************************************************)
(* The messages of one chat request and the Core's reply on their way      *)
(* through PipelineChain (sphere/src/pipeline): one step per filter.  The  *)
(* chain is one that from_config builds, or one that also holds the        *)
(* inbound filters from_config leaves out.  A text is a sequence of        *)
(* pieces: a kind, which says what the filters' patterns match in it, and  *)
(* its bytes.  No pattern matches across the end of a piece: where a       *)
(* deletion would join two halves into something a pattern knows, the      *)
(* halves and what is deleted are one piece, of a kind of its own.         *)
(***************************************************************************)
EXTENDS PolicyEngine, FiniteSetsExt

CONSTANTS
  Configs,   (* PipelineConfig values                                      *)
  Chains,    (* further chains, given filter by filter                     *)
  Words,     (* the kinds of pieces that only the topics tell apart        *)
  Inboxes,   (* the messages a request may carry                           *)
  Replies,   (* the texts the Core may answer                              *)
  Thresholds (* the limits a policy may set                                *)

VARIABLES
  chain,     (* the PipelineChain                                          *)
  inbox,     (* req.messages                                               *)
  phase,     (* where the handler stands                                   *)
  pos,       (* the next filter of the chain that runs; 0: no text in hand *)
  text,      (* content of the message in hand                             *)
  sent,      (* proto_messages                                             *)
  context,
  refusedBy, (* the filter whose error ended the request, or None          *)
  reply      (* history: what the Core answered                            *)

vars == <<chain, inbox, phase, pos, text, sent, context, refusedBy, reply>>

-----------------------------------------------------------------------------
(* Texts                                                                   *)
Piece(kind, bytes) == [is |-> kind, bytes |-> bytes]
Kinds(content)     == {content[i].is : i \in DOMAIN content}
Has(content, kind) == kind \in Kinds(content)
ByteLen(content)   == Total([i \in DOMAIN content |-> content[i].bytes])
Pieces(content, Becomes(_)) == FlattenSeq([i \in DOMAIN content |-> Becomes(content[i])])

(* A control character hides a phrase or an email from the patterns: what  *)
(* there is without it.                                                    *)
Concealed == [hidden |-> "jailbreak_keyword", hidden_email |-> "email"]

(* An entity stands inside something that no pattern knows: "jail" and     *)
(* "break" around "(555)123.4567", say.  Its pattern and bytes, and what   *)
(* the halves make without it.                                             *)
Interrupted ==
  [split_phrase |-> [by |-> "PHONE", bytes |-> 13, whole |-> "jailbreak_keyword"],
   split_email  |-> [by |-> "PHONE", bytes |-> 13, whole |-> "email"],
   split_ssn    |-> [by |-> "PHONE", bytes |-> 13, whole |-> "ssn"],
   split_card   |-> [by |-> "CREDIT_CARD", bytes |-> 15, whole |-> "card"]]

(* The fewest bytes these kinds have: "a@b.co" is the shortest email, a    *)
(* phone has ten digits, a card thirteen.                                  *)
Shortest == [email |-> 6, phone |-> 10, long_number |-> 10, ssn |-> 11, card |-> 13,
             phone_and_digits |-> 13, dan_and_phone |-> 13, hidden |-> 1, hidden_email |-> 7,
             split_phrase |-> 13, split_email |-> 19, split_ssn |-> 24, split_card |-> 28]
PieceKinds ==
  {"null", "control", "ignore_previous", "role_assignment", "dan_jailbreak",
   "jailbreak_keyword", "mask", "digits", "substitute", "i_will_now", "names_role",
   "violence", "url", "fragment", "suffix", "notice"}
    \cup DOMAIN Shortest \cup Words
WellPieces ==
  {piece \in [is : PieceKinds, bytes : Nat] :
     \A kind \in DOMAIN Shortest : piece.is = kind => piece.bytes >= Shortest[kind]}
Texts == Seq(WellPieces)

(* What a filter's apply returns.                                          *)
Ok(content, ctx)  == [ok |-> TRUE,  text |-> content, context |-> ctx]
Err(content, ctx) == [ok |-> FALSE, text |-> content, context |-> ctx]

Strip_Alone(piece) == IF piece.is \in {"control", "null"} THEN <<>> ELSE <<piece>>
Strip(piece) ==
  CASE piece.is \in {"control", "null"} -> <<>>
    [] piece.is \in DOMAIN Concealed -> <<Piece(Concealed[piece.is], piece.bytes - 1)>>
    [] OTHER -> <<piece>>

InputSanitization(filter, content, ctx) ==
  IF filter.reject_null_bytes /\ Has(content, "null") THEN Err(content, ctx)
  ELSE Ok(IF filter.strip_control_chars THEN Pieces(content, Strip) ELSE content, ctx)

(* The pattern names the inputs tell apart, in the order of the RegexSet.  *)
Injections == <<"ignore_previous", "role_assignment", "dan_jailbreak", "jailbreak_keyword">>
FoundIn(content, kinds) == Select(kinds, Kinds(content))

ContentClassifier(filter, content, ctx) ==
  LET matched == FoundIn(content, Injections)
  IN  CASE matched = <<>> \/ filter.mode = "Log" -> Ok(content, ctx)
        [] matched # <<>> /\ filter.mode = "Block" -> Err(content, ctx)
        [] matched # <<>> /\ filter.mode = "Flag"  ->
             Ok(content, AnnotateAll(ctx, "injection_patterns", matched))

(* The entity patterns, in their order.  PHONE knows no word boundary: it  *)
(* takes the first ten digits of a long number before CREDIT_CARD looks,   *)
(* and the ten digits right after DAN.  A made-up phone (12 bytes) and     *)
(* digits are a card from 13 digits on.                                    *)
Entities == <<"EMAIL", "PHONE", "SSN", "CREDIT_CARD">>

Hits(entity, piece) ==
  \/ piece.is \in DOMAIN Interrupted /\ Interrupted[piece.is].by = entity
  \/ CASE entity = "EMAIL" -> piece.is = "email"
       [] entity = "PHONE" -> piece.is \in {"phone", "long_number", "dan_and_phone"}
       [] entity = "SSN"   -> piece.is = "ssn"
       [] entity = "CREDIT_CARD" ->
            \/ piece.is = "card"
            \/ piece.is = "long_number" /\ piece.bytes >= 13
            \/ piece.is = "phone_and_digits" /\ piece.bytes >= 15

MaskLabel   == [EMAIL |-> 16, PHONE |-> 16, SSN |-> 14, CREDIT_CARD |-> 22]
Replacement == [EMAIL |-> 16, PHONE |-> 12, SSN |-> 11, CREDIT_CARD |-> 19]

(* What is written for a match.                                            *)
Instead(entity, strategy) ==
  CASE strategy = "Mask"    -> <<Piece("mask", MaskLabel[entity])>>
    [] strategy = "Remove"  -> <<>>
    [] strategy = "Replace" -> <<Piece("substitute", Replacement[entity])>>

(* \bDAN\b knows DAN only once its digits are gone.                        *)
AfterDan(piece, strategy) ==
  <<Piece(IF strategy = "Replace" THEN "fragment" ELSE "dan_jailbreak", piece.bytes - 10)>>
    \o Instead("PHONE", strategy)

OfNumber(rest, strategy) ==
  CASE rest = 0 -> Instead("PHONE", strategy)
    [] rest > 0 /\ strategy = "Replace" ->
         <<Piece("phone_and_digits", Replacement["PHONE"] + rest)>>
    [] rest > 0 /\ strategy # "Replace" ->
         Instead("PHONE", strategy) \o <<Piece("digits", rest)>>

(* An SSN around a made-up phone has the nineteen digits of a card.        *)
Within(piece, strategy) ==
  LET inner == Interrupted[piece.is]
      outer == piece.bytes - inner.bytes
      half  == outer \div 2
  IN  CASE strategy = "Remove" -> <<Piece(inner.whole, outer)>>
        [] strategy = "Replace" /\ piece.is = "split_ssn" ->
             <<Piece("phone_and_digits", outer + Replacement["PHONE"])>>
        [] OTHER -> <<Piece("fragment", half)>> \o Instead(inner.by, strategy)
                      \o <<Piece("fragment", outer - half)>>

(* What replace_all makes of a piece its pattern matches in.               *)
Substitute(entity, piece, strategy) ==
  CASE piece.is = "dan_and_phone"        -> AfterDan(piece, strategy)
    [] piece.is = "long_number"          -> OfNumber(piece.bytes - 10, strategy)
    [] piece.is \in DOMAIN Interrupted   -> Within(piece, strategy)
    [] OTHER                             -> Instead(entity, strategy)

(* Regex::replace would stop after the first match.                        *)
Rewrite_First(content, entity, strategy) ==
  LET hits == {i \in DOMAIN content : Hits(entity, content[i])}
      Becomes(i) == IF i = Min(hits) THEN Substitute(entity, content[i], strategy)
                    ELSE <<content[i]>>
  IN  IF hits = {} THEN content
      ELSE FlattenSeq([i \in DOMAIN content |-> Becomes(i)])

Rewrite(content, entity, strategy) ==
  LET Becomes(piece) ==
        IF Hits(entity, piece) THEN Substitute(entity, piece, strategy) ELSE <<piece>>
  IN  Pieces(content, Becomes)

MatchCount(content, entity) == Cardinality({i \in DOMAIN content : Hits(entity, content[i])})

(* Each pattern rewrites what the patterns before it have left.            *)
RedactOne(done, entity, strategy) ==
  LET n == MatchCount(done.text, entity)
  IN  IF n = 0 THEN done
      ELSE [text  |-> Rewrite(done.text, entity, strategy),
            found |-> Append(done.found, entity), count |-> done.count + n]

Redact(content, strategy) ==
  LET start  == [text |-> content, found |-> <<>>, count |-> 0]
      emails == RedactOne(start, "EMAIL", strategy)
      phones == RedactOne(emails, "PHONE", strategy)
      ssns   == RedactOne(phones, "SSN", strategy)
  IN  RedactOne(ssns, "CREDIT_CARD", strategy)

PIIRedaction(filter, content, ctx) ==
  LET done == Redact(content, filter.strategy)
      seen == AnnotateAll(ctx, "pii_detected", done.found)
  IN  Ok(done.text, IF done.count = 0 THEN ctx
                    ELSE Annotate(seen, "pii_entity_count", done.count))

(* A topic is a set of keywords and the number of them that triggers it.   *)
About(content, topic) ==
  Cardinality({k \in topic.keywords : Has(content, k)}) >= topic.threshold

TopicGuardrail(filter, content, ctx) ==
  IF \/ \E topic \in filter.blocked_topics : About(content, topic)
     \/ /\ filter.allowed_topics # {}
        /\ \A topic \in filter.allowed_topics : ~About(content, topic)
  THEN Err(content, ctx)
  ELSE Ok(content, ctx)

EstimateTokens(content) == (ByteLen(content) + 3) \div 4

(* The session's count is raised even by the message it then refuses.      *)
SessionTotal_Restarts(ctx, estimated) == estimated
SessionTotal(ctx, estimated) == UnwrapOr(ctx.sessionTokens, 0) + estimated

TokenBudget(filter, content, ctx) ==
  LET estimated == EstimateTokens(content)
      counted   == [ctx EXCEPT !.inputTokens = estimated]
      new_total == SessionTotal(ctx, estimated)
      total     == [counted EXCEPT !.sessionTokens = new_total]
  IN  IF filter.max_input_tokens # None /\ estimated > filter.max_input_tokens
      THEN Err(content, counted)
      ELSE IF filter.max_session_tokens = None THEN Ok(content, counted)
      ELSE IF new_total > filter.max_session_tokens THEN Err(content, total)
      ELSE Ok(content, total)

ConversationBoundary(filter, content, ctx) ==
  LET new_count == UnwrapOr(ctx.turns, 0) + 1
      counted   == IF filter.max_turns = None THEN ctx ELSE [ctx EXCEPT !.turns = new_count]
  IN  IF \/ filter.max_turns # None /\ new_count > filter.max_turns
         \/ filter.max_context_tokens # None
              /\ Exceeds(ctx.sessionTokens, filter.max_context_tokens)
      THEN Err(content, counted)
      ELSE Ok(content, counted)

-----------------------------------------------------------------------------
(* " [truncated]"                                                          *)
SuffixLen == 12

(* A cut piece is still what it was if enough of it is left to match.      *)
Enough == [email |-> 6, card |-> 16, long_number |-> 10, url |-> 9,
           ignore_previous |-> 15]
Cut(piece, n) ==
  IF piece.is \in DOMAIN Enough /\ n >= Enough[piece.is]
  THEN Piece(piece.is, n) ELSE Piece("fragment", n)

Truncate(content, at) ==
  LET whole == Max({i \in 0 .. Len(content) : ByteLen(SubSeq(content, 1, i)) <= at})
      kept  == SubSeq(content, 1, whole)
      over  == at - ByteLen(kept)
  IN  kept \o (IF over > 0 THEN <<Cut(content[whole + 1], over)>> ELSE <<>>)

TruncateAt_Whole(max_chars) == max_chars
TruncateAt(max_chars) == IF max_chars < SuffixLen THEN 0 ELSE max_chars - SuffixLen

ResultSizeEnforcement(filter, content, ctx) ==
  IF ByteLen(content) <= filter.max_chars THEN Ok(content, ctx)
  ELSE Ok(Append(Truncate(content, TruncateAt(filter.max_chars)), Piece("suffix", SuffixLen)),
          Annotate(ctx, "result_truncated", ByteLen(content)))

PIILeakDetection(filter, content, ctx) ==
  LET done == Redact(content, "Mask")
      seen == Select(Entities, {entity \in ToSet(Entities) : MatchCount(content, entity) > 0})
  IN  CASE seen = <<>> -> Ok(content, ctx)
        [] seen # <<>> /\ filter.action = "Redact" ->
             Ok(done.text, AnnotateAll(ctx, "outbound_pii_redacted", done.found))
        [] seen # <<>> /\ filter.action = "Block" -> Err(content, ctx)
        [] seen # <<>> /\ filter.action = "Flag" ->
             Ok(content, AnnotateAll(ctx, "outbound_pii_flagged", seen))

(* The indicators the replies tell apart, in their order.                  *)
EchoIndicators == <<"ignore_previous", "i_will_now", "jailbreak_keyword">>

(* "names_role" is the name of a pattern, role_assignment, spelt out.      *)
InjectionEcho(filter, content, ctx) ==
  LET flagged == GetAnnotations(ctx, "injection_patterns")
      matched == FoundIn(content, EchoIndicators)
                   \o Select(flagged, {name \in {"role_assignment"} : Has(content, "names_role")})
  IN  CASE flagged = <<>> \/ matched = <<>> \/ filter.action = "Log" -> Ok(content, ctx)
        [] flagged # <<>> /\ matched # <<>> /\ filter.action = "Block" -> Err(content, ctx)
        [] flagged # <<>> /\ matched # <<>> /\ filter.action = "Flag"  ->
             Ok(content, AnnotateAll(ctx, "injection_echo_detected", matched))

(* The notice that stands for a harmful reply has 56 bytes for violence.   *)
ResponseClassifier(filter, content, ctx) ==
  LET names == FoundIn(content, <<"violence">>)
  IN  CASE names = <<>> -> Ok(content, ctx)
        [] names # <<>> /\ filter.action = "Block" -> Err(content, ctx)
        [] names # <<>> /\ filter.action = "Redact" ->
             Ok(<<Piece("notice", 56)>>,
                Annotate(AnnotateAll(ctx, "response_classified_redacted", names),
                         "response_classifier_action", names))
        [] names # <<>> /\ filter.action = "Flag" ->
             Ok(content, AnnotateAll(ctx, "response_classified_flagged", names))

HallucinationFlag(filter, content, ctx) ==
  LET known == ToSet(GetAnnotations(ctx, "known_urls"))
      urls  == Select(content, {piece \in ToSet(content) : piece.is = "url"} \ known)
  IN  Ok(content, IF urls = <<>> THEN ctx
                  ELSE Annotate(AnnotateAll(ctx, "hallucination_flagged_url", urls),
                                "hallucination_confidence", "low"))

Apply(filter, content, ctx) ==
  CASE filter.name = "InputSanitization"     -> InputSanitization(filter, content, ctx)
    [] filter.name = "ContentClassifier"     -> ContentClassifier(filter, content, ctx)
    [] filter.name = "PIIRedaction"          -> PIIRedaction(filter, content, ctx)
    [] filter.name = "TopicGuardrail"        -> TopicGuardrail(filter, content, ctx)
    [] filter.name = "TokenBudget"           -> TokenBudget(filter, content, ctx)
    [] filter.name = "ConversationBoundary"  -> ConversationBoundary(filter, content, ctx)
    [] filter.name = "ResultSizeEnforcement" -> ResultSizeEnforcement(filter, content, ctx)
    [] filter.name = "PIILeakDetection"      -> PIILeakDetection(filter, content, ctx)
    [] filter.name = "InjectionEcho"         -> InjectionEcho(filter, content, ctx)
    [] filter.name = "ResponseClassifier"    -> ResponseClassifier(filter, content, ctx)
    [] filter.name = "HallucinationFlag"     -> HallucinationFlag(filter, content, ctx)

-----------------------------------------------------------------------------
(* PipelineChain::from_config: whatever the configuration says of other    *)
(* inbound filters is not read.                                            *)
When(enabled, filter) == IF enabled THEN <<filter>> ELSE <<>>

FromConfig(config) ==
  [inbound  |-> When(config.input_sanitization.enabled,
                     [name                |-> "InputSanitization",
                      strip_control_chars |-> config.input_sanitization.strip_control_chars,
                      reject_null_bytes   |-> config.input_sanitization.reject_null_bytes]),
   outbound |-> When(config.result_size.enabled,
                     [name |-> "ResultSizeEnforcement",
                      max_chars |-> config.result_size.max_chars])
             \o When(config.pii_leak_detection, [name |-> "PIILeakDetection", action |-> "Redact"])
             \o When(config.injection_echo, [name |-> "InjectionEcho", action |-> "Flag"])
             \o When(config.response_classifier,
                     [name |-> "ResponseClassifier", action |-> "Flag"])
             \o When(config.hallucination_flag, [name |-> "HallucinationFlag"])]

(* The chains run the filters they have in the order of from_config, after *)
(* the order README.md:32 gives for the inbound ones, none of them twice.  *)
Limits == Nat \cup {None}
Rank   == [InputSanitization |-> 1, ContentClassifier |-> 2, PIIRedaction |-> 3,
           TopicGuardrail |-> 4, TokenBudget |-> 5, ConversationBoundary |-> 6,
           ResultSizeEnforcement |-> 7, PIILeakDetection |-> 8, InjectionEcho |-> 9,
           ResponseClassifier |-> 10, HallucinationFlag |-> 11]

IsFilter(filter) ==
  /\ filter.name \in DOMAIN Rank
  /\ filter.name = "InputSanitization" =>
       filter.strip_control_chars \in BOOLEAN /\ filter.reject_null_bytes \in BOOLEAN
  /\ filter.name = "ContentClassifier" => filter.mode \in {"Log", "Flag", "Block"}
  /\ filter.name = "PIIRedaction" => filter.strategy \in {"Mask", "Remove", "Replace"}
  /\ filter.name = "TokenBudget" =>
       filter.max_input_tokens \in Limits /\ filter.max_session_tokens \in Limits
  /\ filter.name = "ConversationBoundary" =>
       filter.max_turns \in Limits /\ filter.max_context_tokens \in Limits
  /\ filter.name = "ResultSizeEnforcement" => filter.max_chars \in Nat
  /\ filter.name \in {"PIILeakDetection", "ResponseClassifier"} =>
       filter.action \in {"Redact", "Flag", "Block"}
  /\ filter.name = "InjectionEcho" => filter.action \in {"Log", "Flag", "Block"}

InOrder(filters) ==
  \A i, j \in DOMAIN filters : i < j => Rank[filters[i].name] < Rank[filters[j].name]

(* Up to 19 digits in a row are one phone, or one and a rest that is none. *)
(* Nothing is deleted from a reply: what is interrupted there is written   *)
(* as three pieces.                                                        *)
Ordinary(content) ==
  \A i \in DOMAIN content : content[i].is = "long_number" => content[i].bytes <= 19

ASSUME PipelineAssumption ==
  /\ None \notin Nat /\ None \notin DOMAIN Rank
  /\ \A config \in Configs :
       /\ config.result_size.max_chars \in Nat
       /\ config.input_sanitization \in
            [enabled : BOOLEAN, strip_control_chars : BOOLEAN, reject_null_bytes : BOOLEAN]
  /\ \A given \in Chains :
       /\ given.inbound \in Seq(ToSet(given.inbound)) /\ InOrder(given.inbound)
       /\ given.outbound \in Seq(ToSet(given.outbound)) /\ InOrder(given.outbound)
       /\ \A i \in DOMAIN given.inbound :
            IsFilter(given.inbound[i]) /\ Rank[given.inbound[i].name] <= 6
       /\ \A i \in DOMAIN given.outbound :
            IsFilter(given.outbound[i]) /\ Rank[given.outbound[i].name] > 6
  /\ Inboxes \subseteq Seq(Texts)
  /\ \A box \in Inboxes : \A i \in DOMAIN box : Ordinary(box[i])
  /\ Replies \subseteq Texts
  /\ \A answer \in Replies :
       Ordinary(answer) /\ Kinds(answer) \cap DOMAIN Interrupted = {}
  /\ Thresholds \subseteq Nat

(* PipelineContext::new for each request, before its first message.        *)
Init ==
  /\ chain \in {FromConfig(config) : config \in Configs} \cup Chains
  /\ inbox \in Inboxes
  /\ phase     = "inbound"
  /\ pos       = 0
  /\ text      = <<>>
  /\ sent      = <<>>
  /\ context   = NewContext
  /\ refusedBy = None
  /\ reply     = <<>>

(* One turn of run_inbound's or run_outbound's loop; an error ends it.     *)
Run(filters, refused) ==
  /\ pos \in DOMAIN filters
  /\ LET done == Apply(filters[pos], text, context)
     IN  /\ context' = done.context
         /\ text'    = done.text
         /\ IF done.ok
            THEN pos' = pos + 1 /\ UNCHANGED <<phase, refusedBy>>
            ELSE phase' = refused /\ refusedBy' = filters[pos].name /\ UNCHANGED pos
  /\ UNCHANGED <<chain, inbox, sent, reply>>

NextMessage ==
  /\ phase = "inbound" /\ pos = 0 /\ Len(sent) < Len(inbox)
  /\ text' = inbox[Len(sent) + 1]
  /\ pos'  = 1
  /\ UNCHANGED <<chain, inbox, phase, sent, context, refusedBy, reply>>

FilterInbound == phase = "inbound" /\ Run(chain.inbound, "FILTER_REJECTED")

MessagePasses ==
  /\ phase = "inbound" /\ pos = Len(chain.inbound) + 1
  /\ sent' = Append(sent, text)
  /\ text' = <<>>
  /\ pos'  = 0
  /\ UNCHANGED <<chain, inbox, phase, context, refusedBy, reply>>

AllPassed_AfterFirst ==
  /\ phase = "inbound" /\ pos = 0 /\ (sent # <<>> \/ inbox = <<>>)
  /\ phase' = "loop"
  /\ sent' = [i \in DOMAIN inbox |-> IF i = 1 THEN sent[1] ELSE inbox[i]]
  /\ UNCHANGED <<chain, inbox, pos, text, context, refusedBy, reply>>

AllPassed ==
  /\ phase = "inbound" /\ pos = 0 /\ Len(sent) = Len(inbox)
  /\ phase' = "loop"
  /\ UNCHANGED <<chain, inbox, pos, text, sent, context, refusedBy, reply>>

AskCore ==
  /\ phase = "loop"
  /\ phase' = "core"
  /\ UNCHANGED <<chain, inbox, pos, text, sent, context, refusedBy, reply>>

CoreReplies_NewContext ==
  /\ phase = "core"
  /\ reply' \in Replies
  /\ text'    = reply'
  /\ context' = NewContext
  /\ pos'     = 1
  /\ phase'   = "outbound"
  /\ UNCHANGED <<chain, inbox, sent, refusedBy>>

(* The answer is filtered in the context its request was filtered in.      *)
CoreReplies ==
  /\ phase = "core"
  /\ reply' \in Replies
  /\ text'  = reply'
  /\ pos'   = 1
  /\ phase' = "outbound"
  /\ UNCHANGED <<chain, inbox, sent, context, refusedBy>>

FilterOutbound_Returns == phase = "outbound" /\ Run(chain.outbound, "returned")

FilterOutbound == phase = "outbound" /\ Run(chain.outbound, "OUTBOUND_REJECTED")

Deliver ==
  /\ phase = "outbound" /\ pos = Len(chain.outbound) + 1
  /\ phase' = "returned"
  /\ UNCHANGED <<chain, inbox, pos, text, sent, context, refusedBy, reply>>

Next ==
  \/ NextMessage \/ FilterInbound \/ MessagePasses \/ AllPassed
  \/ AskCore \/ CoreReplies \/ FilterOutbound \/ Deliver

Spec == Init /\ [][Next]_vars

-----------------------------------------------------------------------------
Filters == ToSet(chain.inbound) \cup ToSet(chain.outbound)
With(name) == {filter \in Filters : filter.name = name}
Annotated(key) == GetAnnotations(context, key) # <<>>

TypeOK ==
  /\ phase \in {"inbound", "loop", "core", "outbound", "returned",
                "FILTER_REJECTED", "OUTBOUND_REJECTED"}
  /\ pos \in 0 .. Len(IF phase \in {"outbound", "returned", "OUTBOUND_REJECTED"}
                      THEN chain.outbound ELSE chain.inbound) + 1
  /\ Len(sent) <= Len(inbox)
  /\ refusedBy # None <=> phase \in {"FILTER_REJECTED", "OUTBOUND_REJECTED"}
  /\ context.inputTokens \in Nat \cup {None}
  /\ context.sessionTokens \in Nat \cup {None}
  /\ context.turns \in 0 .. Len(inbox) \cup {None}
  /\ \A i \in DOMAIN text : text[i].bytes \in Nat

(* PIIRedaction runs after the classifier and may leave phrases that were  *)
(* none before: Remove joins what stood around an entity                   *)
(* ("jail5551234567break"), and a mask is the word boundary that           *)
(* "DAN5551234567" lacked.                                                 *)
Strategies == {filter.strategy : filter \in With("PIIRedaction")}
Revealed ==
  CASE "Remove" \in Strategies                          -> ToSet(Injections)
    [] "Remove" \notin Strategies /\ "Mask" \in Strategies -> {"dan_jailbreak"}
    [] Strategies \subseteq {"Replace"}                   -> {}
Phrases(content) == ToSet(FoundIn(content, Injections)) \ Revealed

(* A phrase that a control character hid from the patterns is seen once    *)
(* the sanitizer has run: what reaches the Core with a known injection     *)
(* phrase has it noted for the outbound filters, and a classifier in block *)
(* mode lets none reach it (from_config: "always first"; README.md:32),    *)
(* but for the phrases that redaction itself reveals.                      *)
InjectionsAreNoted ==
  \A filter \in With("ContentClassifier"), i \in DOMAIN sent :
    /\ filter.mode = "Flag" =>
         Phrases(sent[i]) \subseteq ToSet(GetAnnotations(context, "injection_patterns"))
    /\ filter.mode = "Block" =>
         /\ Phrases(sent[i]) = {}
         /\ \A first \in With("InputSanitization") :
              first.strip_control_chars => Kinds(sent[i]) \cap DOMAIN Concealed = {}

(* The two halves of injection detection meet in one context: a reply that *)
(* echoes, to a request in which any message was flagged, is not returned  *)
(* unnoticed (content_classifier.rs, injection_echo.rs).  A phrase that    *)
(* redaction revealed flags nothing.                                       *)
EchoIsNoticed ==
  /\ phase = "returned"
  /\ \E filter \in With("ContentClassifier") : filter.mode = "Flag"
  /\ \E filter \in With("InjectionEcho") : filter.action = "Flag"
  /\ \E i \in DOMAIN sent : Phrases(sent[i]) # {}
  /\ FoundIn(text, EchoIndicators) # <<>>
  => Annotated("injection_echo_detected")

(* No whole entity passes a filter that redacts or blocks, however many    *)
(* there are and whatever the substitutions before it have left behind     *)
(* (pii_redaction.rs, pii_leak_detection.rs).  Remove keeps that only for  *)
(* SSN: each pattern runs once, and what a deletion joins may be an entity *)
(* of a pattern that has run ("john@example.c5551234567om"); an SSN has    *)
(* word boundaries around it and at most one hyphen in a row.              *)
Free(content, entities) ==
  \A i \in DOMAIN content : \A e \in entities : ~Hits(e, content[i])
Anonymous(content) == Free(content, ToSet(Entities))

NoWholePiiPasses ==
  /\ \A filter \in With("PIIRedaction"), i \in DOMAIN sent :
       Free(sent[i], IF filter.strategy = "Remove" THEN {"SSN"} ELSE ToSet(Entities))
  /\ phase = "returned" =>
       \A filter \in With("PIILeakDetection") :
         filter.action \in {"Redact", "Block"} => Anonymous(text)

(* What is returned exceeds the cap of result_size.rs by no more than the  *)
(* redaction that runs after it may add: ten bytes for each mask.  The cap *)
(* itself is never below the suffix.                                       *)
OverrunBounded ==
  \A filter \in With("ResultSizeEnforcement") :
    phase = "returned" /\ ~Has(text, "notice") =>
      ByteLen(text) <= Max({filter.max_chars, SuffixLen})
                         + 10 * Cardinality({i \in DOMAIN text : text[i].is = "mask"})

(* The session's limits are over all messages of the request, whatever     *)
(* their order: what has passed is within all of them together             *)
(* (token_budget.rs, conversation_boundary.rs).                            *)
BudgetsHold ==
  /\ \A filter \in With("TokenBudget") :
       /\ filter.max_input_tokens # None =>
            \A i \in DOMAIN sent : EstimateTokens(sent[i]) <= filter.max_input_tokens
       /\ filter.max_session_tokens # None =>
            Total([i \in DOMAIN sent |-> EstimateTokens(sent[i])])
              <= filter.max_session_tokens
  /\ \A filter \in With("ConversationBoundary") :
       filter.max_turns # None => Len(sent) <= filter.max_turns

(* The counts the rules read live in the context, across the messages, the *)
(* filters and the answer of the Core: a limit that is exceeded stays so   *)
(* for the rest of the request, whichever filter is the next (engine.rs,   *)
(* context.rs).  The rule named for tool calls reads turn_count, the one   *)
(* named for an hour the count of the request.                             *)
Breaks(rule, limit) ==
  Evaluate(<<[name |-> rule, scope |-> [type |-> "Session"], action |-> "Block",
              rules |-> <<[type |-> rule, limit |-> limit]>>]>>,
           context, ToolCallRequested("any")) # <<>>

BreachesStand ==
  [][\A rule \in {"MaxToolCallsPerSession", "MaxTokensPerIdentityPerHour"},
        limit \in Thresholds : Breaks(rule, limit) => Breaks(rule, limit)']_vars

(* With the sanitizer alone in front, as from_config builds it, the steps  *)
(* of the filters implement the one Inbound step of ChatLoop and its       *)
(* answers of the Core.                                                    *)
Class(content) ==
  CASE Has(content, "null") -> "null"
    [] /\ ~Has(content, "null")
       /\ Kinds(content) \cap ({"control"} \cup DOMAIN Concealed) # {} -> "control"
    [] OTHER -> "clean"

Wired ==
  chain.inbound = <<[name |-> "InputSanitization", strip_control_chars |-> TRUE,
                     reject_null_bytes |-> TRUE]>>
Ended   == phase \in {"returned", "FILTER_REJECTED", "OUTBOUND_REJECTED"}
ToldAll == phase \notin {"inbound", "FILTER_REJECTED"}

Chat == INSTANCE ChatLoop WITH
  Systems <- {"clean"}, system <- "clean",
  Inboxes <- {[i \in DOMAIN box |-> Class(box[i])] : box \in Inboxes},
  CallLists <- {<<>>}, Registry <- <<>>, Identity <- None, NoIdentity <- None,
  ConfiguredMax <- 10, Unset <- None, HardCap <- 25,
  endpoint <- "chat", inbox <- [i \in DOMAIN inbox |-> Class(inbox[i])],
  phase <- IF Ended THEN "returned" ELSE IF phase = "outbound" THEN "core" ELSE phase,
  transcript <- IF ToldAll
                THEN [i \in DOMAIN sent |-> [role |-> "user", text |-> Class(sent[i]),
                                             calls |-> <<>>, results |-> <<>>]]
                ELSE <<>>,
  iteration <- 0, calls <- <<>>, results <- <<>>, task <- "none",
  outcome <- IF phase = "returned" THEN "model" ELSE IF Ended THEN phase ELSE "none",
  asked <- IF ToldAll /\ phase # "loop" THEN 1 ELSE 0,
  started <- <<>>

ImplementsChat == (Wired => Chat!Init) /\ [][Wired => Chat!Next]_(Chat!vars)
=============================================================================
