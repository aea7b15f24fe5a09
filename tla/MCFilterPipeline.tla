-------------------------- MODULE MCFilterPipeline --------------------------
(* Configurations, chains and texts for TLC.                               *)
EXTENDS FilterPipeline

Off == [input_sanitization |-> [enabled |-> TRUE, strip_control_chars |-> TRUE,
                                reject_null_bytes |-> TRUE],
        result_size |-> [enabled |-> FALSE, max_chars |-> 100000],
        pii_leak_detection |-> FALSE, injection_echo |-> FALSE,
        response_classifier |-> FALSE, hallucination_flag |-> FALSE]
AllOn(max) ==
  [Off EXCEPT !.result_size = [enabled |-> TRUE, max_chars |-> max],
              !.pii_leak_detection = TRUE, !.injection_echo = TRUE,
              !.response_classifier = TRUE, !.hallucination_flag = TRUE]
MCConfigs ==
  {Off, AllOn(40), AllOn(8),
   [AllOn(100) EXCEPT !.input_sanitization.reject_null_bytes = FALSE],
   [AllOn(100) EXCEPT !.input_sanitization.enabled = FALSE]}

(* The inbound filters in the order of README.md:32.                       *)
Sanitizer == [name |-> "InputSanitization", strip_control_chars |-> TRUE,
              reject_null_bytes |-> TRUE]
Six(mode, strategy, maxInput, maxSession, maxTurns, maxContext) ==
  <<Sanitizer, [name |-> "ContentClassifier", mode |-> mode],
    [name |-> "PIIRedaction", strategy |-> strategy],
    [name |-> "TopicGuardrail",
     allowed_topics |-> {[keywords |-> {"weather", "word", "email", "jailbreak_keyword"},
                          threshold |-> 1],
                         [keywords |-> {"mask", "substitute", "digits", "role_assignment"},
                          threshold |-> 1]},
     blocked_topics |-> {[keywords |-> {"betting", "weather"}, threshold |-> 2]}],
    [name |-> "TokenBudget", max_input_tokens |-> maxInput, max_session_tokens |-> maxSession],
    [name |-> "ConversationBoundary", max_turns |-> maxTurns,
     max_context_tokens |-> maxContext]>>
Five(max, pii, echo, classify) ==
  <<[name |-> "ResultSizeEnforcement", max_chars |-> max],
    [name |-> "PIILeakDetection", action |-> pii],
    [name |-> "InjectionEcho", action |-> echo],
    [name |-> "ResponseClassifier", action |-> classify],
    [name |-> "HallucinationFlag"]>>
MCChains ==
  {[inbound |-> Six("Flag", "Mask", None, 12, None, None),
    outbound |-> Five(40, "Redact", "Flag", "Flag")],
   [inbound |-> Six("Flag", "Replace", None, None, 1, None),
    outbound |-> Five(100, "Flag", "Flag", "Redact")],
   [inbound |-> Six("Log", "Remove", 4, 20, 2, 3),
    outbound |-> Five(100, "Block", "Block", "Flag")],
   [inbound |-> Six("Block", "Mask", None, None, None, None),
    outbound |-> Five(100, "Redact", "Log", "Block")],
   [inbound |-> Six("Flag", "Remove", 7, None, None, None),
    outbound |-> Five(100, "Redact", "Block", "Block")]}

MCWords  == {"word", "weather", "betting"}
word     == Piece("word", 7)
null     == Piece("null", 1)
control  == Piece("control", 1)
email    == Piece("email", 7)
phone    == Piece("phone", 12)
ssn      == Piece("ssn", 11)
card     == Piece("card", 19)
number   == Piece("long_number", 16)
jail     == Piece("jailbreak_keyword", 9)
ignore   == Piece("ignore_previous", 28)
persona  == Piece("role_assignment", 17)
hidden   == Piece("hidden", 10)
splitJail  == Piece("split_phrase", 22)
splitEmail == Piece("split_email", 29)
splitSsn   == Piece("split_ssn", 24)
splitCard  == Piece("split_card", 33)
hiddenMail == Piece("hidden_email", 8)
danPhone   == Piece("dan_and_phone", 13)
betting  == Piece("betting", 7)
weather  == Piece("weather", 7)
url      == Piece("url", 13)
willNow  == Piece("i_will_now", 10)
roleName == Piece("names_role", 15)
violent  == Piece("violence", 12)

Asks ==
  {<<word>>, <<word, null>>, <<word, control, email>>, <<hidden, word>>, <<persona, word, jail>>,
   <<phone, word, number>>, <<email, word, email>>, <<weather, word, betting>>, <<ssn, word, card>>,
   <<splitJail, hiddenMail, word>>, <<splitEmail, word, splitSsn>>,
   <<danPhone, word, splitCard>>}
MCThresholds == {0, 1, 5}
MCInboxes == {<<>>} \cup {<<a>> : a \in Asks} \cup {<<a, b>> : a, b \in Asks}
MCReplies ==
  {<<word>>, <<email, word, email, word, email>>, <<card, word, ssn, word, phone, word>>,
   <<word, word, number, word, word>>, <<willNow, word, url>>, <<jail, word, roleName>>,
   <<ignore, word, violent, word>>, <<word, word, word, email, word>>, <<url, word, violent>>}
=============================================================================
