------------------------- MODULE MCSatelliteAccess --------------------------
(* Credentials, headers and configurations for TLC.                        *)
EXTENDS SatelliteAccess

Token(secret, exp, iss, sub, roles, scope) ==
  [kind |-> "jwt", secret |-> secret, exp |-> exp, iss |-> iss, aud |-> "api", sub |-> sub,
   roles |-> roles, scopes |-> <<"read">>, scope |-> scope]
Key(key) == [kind |-> "key", key |-> key]

JwtBy(secret, issuer) ==
  [type |-> "jwt", secret |-> secret, issuer |-> issuer, audience |-> "api"]
Entry(key, sub, roles) ==
  [key |-> key, identity_sub |-> sub, roles |-> roles, scopes |-> <<>>]
KeysAre(keys) == [type |-> "api_key", keys |-> keys]

MCAuthConfigs ==
  {[enabled |-> FALSE, strategies |-> <<>>],
   [enabled |-> TRUE,  strategies |-> <<>>],
   [enabled |-> TRUE,  strategies |->
      <<JwtBy("s1", None), JwtBy("s2", "issuer"),
        KeysAre(<<Entry("k1", "old", {"admin"}), Entry("k2", "bob", {}),
                  Entry("k1", "svc", {"user"})>>)>>],
   [enabled |-> TRUE,  strategies |->
      <<KeysAre(<<Entry("k1", "first", {"admin"})>>),
        KeysAre(<<Entry("k1", "second", {"admin"}), Entry("k2", "bob", {"user"})>>)>>]}

MCRequests ==
  LET Auth(scheme, token) == [scheme |-> scheme, token |-> token]
      With(a, k) == [authorization |-> a, api_key |-> k]
  IN  {With(None, None), With(None, Key("k1")), With(None, Key("k3")),
       With(Auth("none", Key("k1")), None),
       With(Auth("Bearer", Token("s1", 1, "other", "alice", {"user"}, <<"read", "admin">>)),
            Key("k1")),
       With(Auth("Bearer", Token("s2", 3, "issuer", "carol", {"admin"}, <<>>)), None),
       With(Auth("Bearer", Token("s2", 3, "other", "carol", {"admin"}, <<>>)), Key("k2")),
       With(Auth("Bearer", Token("s1", None, "issuer", "dave", {}, <<>>)), None),
       With(Auth("Bearer", Token("s1", 3, "issuer", None, {}, <<>>)), None),
       With(Auth("Basic", Key("k1")), Key("k2")),
       With(Auth("binary", Key("k1")), Key("k2"))}
=============================================================================
