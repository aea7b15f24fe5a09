---------------------------- MODULE TokenBucket ----------------------------
(***************************************************************************)
(* sphere/src/rate_limit/token_bucket.rs.  A bucket is refilled lazily,    *)
(* whenever it is looked at, with requests_per_minute / 60 tokens for each *)
(* second since the last look, up to its burst capacity.                   *)
(*                                                                         *)
(* Time is counted in ticks of which TicksPerMinute make a minute, and     *)
(* tokens in parts of which TicksPerMinute make one token: one tick        *)
(* refills requests_per_minute parts, and every quantity is an integer.    *)
(***************************************************************************)
EXTENDS Integers

CONSTANT TicksPerMinute

ASSUME TickAssumption == TicksPerMinute \in Nat \ {0}

Rule   == [rpm : Nat, burst : Nat]
Bucket == [tokens : Nat, last : Nat]

Capacity(rule) == TicksPerMinute * rule.burst

(* TokenBucket::new: a bucket starts full.                                 *)
NewBucket(rule, t) == [tokens |-> Capacity(rule), last |-> t]

AtMost(n, limit) == IF n <= limit THEN n ELSE limit

Refill_Uncapped(rule, b, t) ==
  [tokens |-> b.tokens + rule.rpm * (t - b.last), last |-> t]
Refill_WholeTokens(rule, b, t) ==
  [tokens |-> AtMost(b.tokens + TicksPerMinute * ((rule.rpm * (t - b.last)) \div TicksPerMinute),
                     Capacity(rule)),
   last   |-> t]
Refill(rule, b, t) ==
  [tokens |-> AtMost(b.tokens + rule.rpm * (t - b.last), Capacity(rule)), last |-> t]

(* try_acquire(1): whether a token is there once the bucket is refilled,   *)
(* and the bucket with that token taken.                                   *)
CanAcquire_AnyPart(rule, b, t) == Refill(rule, b, t).tokens > 0
CanAcquire(rule, b, t) == Refill(rule, b, t).tokens >= TicksPerMinute

TryAcquire(rule, b, t) ==
  IF CanAcquire(rule, b, t)
  THEN [Refill(rule, b, t) EXCEPT !.tokens = @ - TicksPerMinute]
  ELSE Refill(rule, b, t)
=============================================================================
