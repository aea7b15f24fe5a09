--------------------------- MODULE MCRateLimiter ---------------------------
(* Small instances of RateLimiter for TLC.                                 *)
EXTENDS RateLimiter, TLC

CONSTANTS t1, t2, alice, bob, search

MCThreads    == {t1, t2}
MCIdentities == {alice, bob}
MCTools      == {search}

(* Two ticks refill the global bucket by one token, three an identity's.   *)
MCGlobalRule   == [rpm |-> 3, burst |-> 2]
MCIdentityRule == [rpm |-> 2, burst |-> 1]
MCToolRules    == [tool \in RuledTools |-> [rpm |-> 4, burst |-> 1]]

(* Callers are interchangeable, and so are identities.                     *)
LimiterSymmetry == Permutations(Threads) \cup Permutations(Identities)
=============================================================================
