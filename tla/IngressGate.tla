---------------------------- MODULE IngressGate -----------------------------
(***************************************************************************)
(* IngressGate::authenticate and its strategies (sphere/src/ingress,       *)
(* sphere/src/auth): which identity a request's headers give at a time.    *)
(* A credential is a JWT, with the secret it was signed with and its       *)
(* claims, or an API key; cryptography is that of a perfect signature.     *)
(***************************************************************************)
EXTENDS PipelineContext

CONSTANT Leeway   (* seconds jsonwebtoken grants past exp                  *)

ASSUME LeewayAssumption == Leeway \in Nat

Identity(sub, roles, scopes) ==
  [sub |-> sub, roles |-> roles, scopes |-> scopes, metadata |-> {}]
Anonymous == Identity("anonymous", {}, <<>>)

Granted(identity) == [ok |-> TRUE,  identity |-> identity]
Denied(error)     == [ok |-> FALSE, error |-> error]

(* Scopes come as an array, as one blank-separated string, or as both; a   *)
(* word of the string that is there already is not added again.            *)
MergeScopes(scopes, scope) ==
  LET Push(merged, word) ==
        IF word \in ToSet(merged) THEN merged ELSE Append(merged, word)
  IN  FoldLeft(Push, scopes, scope)

JwtIdentity(token) ==
  Identity(token.sub, token.roles, MergeScopes(token.scopes, token.scope))

(* jsonwebtoken::decode: the signature, the claims that are required, the  *)
(* issuer and the audience where they are configured.                      *)
Decodes(strategy, token) ==
  /\ token.kind = "jwt"
  /\ token.secret = strategy.secret
  /\ token.exp # None
  /\ strategy.issuer # None   => token.iss = strategy.issuer
  /\ strategy.audience # None => token.aud = strategy.audience

Expired(token, now) == token.exp + Leeway < now

Jwt(strategy, token, now) ==
  CASE ~Decodes(strategy, token) -> Denied("InvalidToken")
    [] Decodes(strategy, token) /\ Expired(token, now) -> Denied("ExpiredToken")
    [] Decodes(strategy, token) /\ ~Expired(token, now) ->
         IF token.sub = None THEN Denied("InvalidToken") ELSE Granted(JwtIdentity(token))

(* A key that is listed twice is the identity of its last entry.           *)
Entries(strategy, token) ==
  Select(strategy.keys,
         {entry \in ToSet(strategy.keys) : token.kind = "key" /\ entry.key = token.key})

ApiKey(strategy, token) ==
  LET entries == Entries(strategy, token)
  IN  IF entries = <<>> THEN Denied("UnknownApiKey")
      ELSE Granted(Identity(Last(entries).identity_sub, Last(entries).roles,
                            Last(entries).scopes))

Try(strategy, token, now) ==
  IF strategy.type = "jwt" THEN Jwt(strategy, token, now) ELSE ApiKey(strategy, token)

(* An Authorization header hides X-API-Key, whatever it holds, unless it   *)
(* is not visible ASCII: to_str().ok() makes that one absent.  Without the *)
(* prefix "Bearer " it is taken as it is, a scheme of another name too.    *)
Legible(header) == header # None /\ header.scheme # "binary"

Presented_KeyFirst(request) ==
  CASE request.api_key # None -> request.api_key
    [] request.api_key = None /\ Legible(request.authorization) -> request.authorization.token
    [] OTHER -> None

Presented(request) ==
  CASE ~Legible(request.authorization) -> request.api_key
    [] Legible(request.authorization) /\ request.authorization.scheme \in {"Bearer", "none"} ->
         request.authorization.token
    [] OTHER -> [kind |-> "garbled"]

(* The first strategy that accepts decides; the error is the last one's.   *)
TryAll(strategies, token, now) ==
  LET after[n \in 0 .. Len(strategies)] ==   (* the answer of the first n     *)
        IF n = 0 THEN Denied("MissingToken")
        ELSE IF after[n - 1].ok THEN after[n - 1] ELSE Try(strategies[n], token, now)
  IN  after[Len(strategies)]

Authenticate(config, request, now) ==
  LET token == Presented(request)
  IN  CASE ~config.enabled -> Granted(Anonymous)
        [] config.enabled /\ token = None -> Denied("MissingHeader")
        [] config.enabled /\ token # None -> TryAll(config.strategies, token, now)
=============================================================================
