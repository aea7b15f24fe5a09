------------------------- MODULE RateLimiterProofs -------------------------
(***************************************************************************)
(* Proofs about RateLimiter for any number of callers, identities and      *)
(* tools, any rules and any resolution of time.                            *)
(***************************************************************************)
EXTENDS RateLimiter, FiniteSetTheorems, TLAPS

(* Since moment t0, at which bucket b had handed out n0 tokens, it handed  *)
(* out none, or what it handed out and what it still holds fit into its    *)
(* burst and what was refilled since.                                      *)
Window(b, t0, n0) ==
  \/ granted[b] = n0
  \/ /\ bucket[b].last >= t0
     /\ bucket[b].tokens + TicksPerMinute * (granted[b] - n0)
          <= Capacity(RuleOf(b)) + RuleOf(b).rpm * (bucket[b].last - t0)

(* Since its last grant a bucket refilled to the brim or kept every part.  *)
Refilled(b) ==
  /\ lastGrant[b] < 0 => bucket[b].tokens = Capacity(RuleOf(b))
  /\ lastGrant[b] >= 0 =>
       /\ lastGrant[b] <= bucket[b].last
       /\ \/ bucket[b].tokens = Capacity(RuleOf(b))
          \/ bucket[b].tokens >= RuleOf(b).rpm * (bucket[b].last - lastGrant[b])

BucketOK(b) ==
  /\ bucket[b].tokens <= Capacity(RuleOf(b)) /\ bucket[b].last <= now
  /\ b \notin present => granted[b] = 0 /\ lastGrant[b] = -1
  /\ before[b] <= granted[b]
  /\ Window(b, since, before[b])
  /\ Window(b, 0, 0)
  /\ Refilled(b)

(* Requests the global bucket let through that have not returned.          *)
InFlight ==
  {t \in Threads : pc[t] \in {"between", "identity"} \/ (pc[t] = "global" /\ allowed[t])}

BucketInv == \A b \in BucketNames : BucketOK(b)
FlightInv == admitted + Cardinality(InFlight) <= granted[Global]

(* A caller inside a critical section found its bucket or put it there.    *)
PresentInv ==
  /\ Global \in present
  /\ \A t \in Threads : pc[t] \in {"identity", "tool"} => caller[t] \in present

IInv == TypeOK /\ BucketInv /\ PresentInv /\ FlightInv

-----------------------------------------------------------------------------
(* Arithmetic: a rate times a span of time.                                *)
LEMMA Spans ==
  ASSUME NEW r \in Nat, NEW x \in Int, NEW y \in Int, NEW z \in Int, x <= y, y <= z
  PROVE  /\ r * (y - x) \in Nat
         /\ r * (z - x) = r * (y - x) + r * (z - y)
         /\ r * (y - x) <= r * (z - x)
<1>1. r * (y - x) \in Nat /\ r * (z - y) \in Nat
  <2>1. \A n \in Nat : r * n \in Nat
    OBVIOUS
  <2>2. y - x \in Nat /\ z - y \in Nat
    OBVIOUS
  <2>3. QED BY <2>1, <2>2
<1>2. r * (z - x) = r * (y - x) + r * (z - y)
  OBVIOUS
<1>3. r * (y - x) \in Int /\ r * (z - x) \in Int
  BY <1>1, <1>2
<1>4. QED BY <1>1, <1>2, <1>3

LEMMA Rules ==
  ASSUME NEW b \in BucketNames
  PROVE  /\ RuleOf(b) \in Rule /\ RuleOf(b).rpm \in Nat /\ RuleOf(b).burst \in Nat
         /\ Capacity(RuleOf(b)) \in Nat
<1>1. RuleOf(b) \in Rule
  BY LimiterAssumption DEF BucketNames, RuleOf
<1>2. RuleOf(b).rpm \in Nat /\ RuleOf(b).burst \in Nat
  BY <1>1 DEF Rule
<1>3. \A m, n \in Nat : m * n \in Nat
  OBVIOUS
<1>4. QED BY <1>1, <1>2, <1>3, TickAssumption DEF Capacity

(* What refilling a bucket at time t leaves in it (refill).                *)
LEMMA RefillFacts ==
  ASSUME NEW rule \in Rule, NEW b \in Bucket, NEW t \in Nat,
         b.tokens <= Capacity(rule), b.last <= t, Capacity(rule) \in Nat
  PROVE  LET r == Refill(rule, b, t)
         IN  /\ r \in Bucket /\ r.last = t
             /\ r.tokens <= Capacity(rule)
             /\ r.tokens >= b.tokens
             /\ r.tokens <= b.tokens + rule.rpm * (t - b.last)
             /\ r.tokens \in {Capacity(rule), b.tokens + rule.rpm * (t - b.last)}
<1>1. rule.rpm \in Nat /\ b.tokens \in Nat /\ b.last \in Nat
  BY DEF Rule, Bucket
<1>2. rule.rpm * (t - b.last) \in Nat
  BY <1>1, Spans
<1>3. QED BY <1>1, <1>2 DEF Refill, AtMost, Bucket

(* The bucket a caller finds in or puts into the map.                      *)
LEMMA EntryFacts ==
  ASSUME TypeOK, BucketInv, NEW b \in BucketNames
  PROVE  /\ Entry(b) \in Bucket
         /\ Entry(b).tokens <= Capacity(RuleOf(b)) /\ Entry(b).last <= now
         /\ now \in Nat
         /\ b \in present => Entry(b) = bucket[b]
         /\ b \notin present =>
              Entry(b).tokens = Capacity(RuleOf(b)) /\ granted[b] = 0 /\ lastGrant[b] = -1
<1>1. Capacity(RuleOf(b)) \in Nat
  BY Rules
<1>2. now \in Nat
  BY LimiterAssumption DEF TypeOK
<1>3. QED
  BY <1>1, <1>2 DEF Entry, NewBucket, TypeOK, BucketInv, BucketOK, Bucket

(* A look at a bucket at the present moment, with or without a grant,      *)
(* keeps its books in order.                                               *)
LEMMA LookKeepsBooks ==
  ASSUME TypeOK, BucketInv, NEW b \in BucketNames,
         NEW g \in {0, 1},
         g = 1 => Refill(RuleOf(b), Entry(b), now).tokens >= TicksPerMinute,
         bucket'[b].last = now,
         bucket'[b].tokens = Refill(RuleOf(b), Entry(b), now).tokens - TicksPerMinute * g,
         granted'[b] = granted[b] + g,
         lastGrant'[b] = IF g = 1 THEN now ELSE lastGrant[b],
         b \in present',
         UNCHANGED <<now, since, before>>
  PROVE  BucketOK(b)'
<1> DEFINE rule == RuleOf(b)
           e    == Entry(b)
           r    == Refill(rule, e, now)
           cap  == Capacity(rule)
<1>1. /\ rule \in Rule /\ rule.rpm \in Nat /\ cap \in Nat
      /\ TicksPerMinute \in Nat /\ TicksPerMinute > 0
  BY Rules, TickAssumption
<1>2. /\ e \in Bucket /\ e.tokens <= cap /\ e.last <= now /\ now \in Nat
      /\ e.tokens \in Nat /\ e.last \in Nat
  BY EntryFacts DEF Bucket
<1>3. /\ r.tokens \in Nat /\ r.last = now
      /\ r.tokens <= cap /\ r.tokens >= e.tokens
      /\ r.tokens <= e.tokens + rule.rpm * (now - e.last)
      /\ r.tokens \in {cap, e.tokens + rule.rpm * (now - e.last)}
  <2>1. r \in Bucket
    BY <1>1, <1>2, RefillFacts
  <2>2. r.tokens \in Nat
    BY <2>1 DEF Bucket
  <2>3. QED BY <1>1, <1>2, <2>2, RefillFacts
<1>4. /\ granted[b] \in Nat /\ lastGrant[b] \in Int /\ before[b] \in Nat
      /\ since \in Nat /\ since <= now
      /\ before[b] <= granted[b]
  BY <1>2 DEF TypeOK, BucketInv, BucketOK
<1>5. /\ b \notin present => e.tokens = cap /\ granted[b] = 0 /\ lastGrant[b] = -1
      /\ b \in present => e = bucket[b]
  BY EntryFacts
<1>6. bucket'[b].tokens \in Nat /\ bucket'[b].tokens <= cap
  BY <1>1, <1>3
<1>7. ASSUME NEW t0 \in Nat, NEW n0 \in Nat, t0 <= now, n0 <= granted[b],
             Window(b, t0, n0)
      PROVE  \/ granted'[b] = n0
             \/ bucket'[b].tokens + TicksPerMinute * (granted'[b] - n0)
                  <= cap + rule.rpm * (now - t0)
  <2>0. /\ rule.rpm * (now - t0) \in Nat
        /\ TicksPerMinute * (granted[b] + g - n0)
             = TicksPerMinute * (granted[b] - n0) + TicksPerMinute * g
        /\ TicksPerMinute * (granted[b] - n0) \in Nat
        /\ TicksPerMinute * g \in Nat
    <3>1. rule.rpm * (now - t0) \in Nat
      BY <1>1, <1>2, <1>7, Spans
    <3>2. TicksPerMinute * (granted[b] - n0) \in Nat
      BY <1>1, <1>4, <1>7, Spans
    <3>3. QED BY <1>1, <1>4, <3>1, <3>2
  <2>1. CASE granted[b] = n0
    <3>1. CASE g = 0
      BY <1>4, <2>1, <3>1
    <3>2. CASE g = 1
      <4>1. granted'[b] - n0 = 1
        BY <1>4, <2>1, <3>2
      <4>2. bucket'[b].tokens + TicksPerMinute * 1 = r.tokens
        BY <1>1, <1>3, <3>2
      <4>3. QED BY <1>1, <1>3, <2>0, <4>1, <4>2
    <3>3. QED BY <3>1, <3>2
  <2>2. CASE granted[b] # n0
    <3>1. b \in present
      BY <1>4, <1>5, <1>7, <2>2
    <3>2. /\ e.last >= t0
          /\ e.tokens + TicksPerMinute * (granted[b] - n0) <= cap + rule.rpm * (e.last - t0)
      BY <1>5, <1>7, <2>2, <3>1 DEF Window
    <3>3. /\ rule.rpm * (now - t0) = rule.rpm * (e.last - t0) + rule.rpm * (now - e.last)
          /\ rule.rpm * (e.last - t0) \in Nat /\ rule.rpm * (now - e.last) \in Nat
      BY <1>1, <1>2, <3>2, Spans
    <3>4. bucket'[b].tokens + TicksPerMinute * g = r.tokens
      BY <1>1, <1>3
    <3> HIDE DEF r, e, rule, cap
    <3>5. r.tokens + TicksPerMinute * (granted[b] - n0) <= cap + rule.rpm * (now - t0)
      BY <1>1, <1>2, <1>3, <2>0, <3>2, <3>3
    <3>6. bucket'[b].tokens + TicksPerMinute * (granted'[b] - n0)
            = r.tokens + TicksPerMinute * (granted[b] - n0)
      <4>1. granted'[b] - n0 = granted[b] + g - n0
        BY <1>4
      <4>2. TicksPerMinute * (granted'[b] - n0)
              = TicksPerMinute * (granted[b] - n0) + TicksPerMinute * g
        BY <2>0, <4>1
      <4>3. QED BY <1>3, <1>6, <2>0, <3>4, <4>2 DEF r
    <3>7. QED BY <3>5, <3>6
  <2>3. QED BY <2>1, <2>2
<1>8. Window(b, since, before[b])' /\ Window(b, 0, 0)'
  <2>1. Window(b, since, before[b]) /\ Window(b, 0, 0)
    BY DEF BucketInv, BucketOK
  <2>2. \/ granted'[b] = before[b]
        \/ bucket'[b].tokens + TicksPerMinute * (granted'[b] - before[b])
             <= cap + rule.rpm * (now - since)
    BY <1>4, <1>7, <2>1
  <2>3. \/ granted'[b] = 0
        \/ bucket'[b].tokens + TicksPerMinute * (granted'[b] - 0)
             <= cap + rule.rpm * (now - 0)
    BY <1>2, <1>4, <1>7, <2>1
  <2>4. since' = since /\ before'[b] = before[b]
    OBVIOUS
  <2>5. Window(b, since, before[b])'
    BY <1>4, <2>2, <2>4 DEF Window
  <2>6. Window(b, 0, 0)'
    BY <1>2, <2>3 DEF Window
  <2>7. QED BY <2>5, <2>6
<1>9. Refilled(b)'
  <2>1. CASE g = 1
    <3>1. lastGrant'[b] = now /\ bucket'[b].last = now
      BY <2>1
    <3>2. rule.rpm * (now - now) = 0
      BY <1>1, <1>2
    <3>3. QED BY <1>2, <1>6, <3>1, <3>2 DEF Refilled
  <2>2. CASE g = 0
    <3>1. lastGrant'[b] = lastGrant[b] /\ bucket'[b].tokens = r.tokens
      BY <1>1, <1>3, <2>2
    <3>2. CASE e.tokens = cap
      <4>1. r.tokens = cap
        BY <1>1, <1>2, <1>3, <3>2
      <4>2. lastGrant[b] >= 0 => lastGrant[b] <= now
        BY <1>2, <1>4, <1>5 DEF BucketInv, BucketOK, Refilled, TypeOK, Bucket
      <4>3. QED BY <3>1, <4>1, <4>2 DEF Refilled
    <3>3. CASE e.tokens # cap
      <4>1. b \in present /\ lastGrant[b] >= 0 /\ lastGrant[b] <= e.last
            /\ e.tokens >= rule.rpm * (e.last - lastGrant[b])
        BY <1>4, <1>5, <3>3 DEF BucketInv, BucketOK, Refilled
      <4>2. /\ rule.rpm * (now - lastGrant[b])
                 = rule.rpm * (e.last - lastGrant[b]) + rule.rpm * (now - e.last)
            /\ rule.rpm * (e.last - lastGrant[b]) \in Nat /\ rule.rpm * (now - e.last) \in Nat
        BY <1>1, <1>2, <1>4, <4>1, Spans
      <4>3. r.tokens = cap \/ r.tokens >= rule.rpm * (now - lastGrant[b])
        BY <1>1, <1>2, <1>3, <4>1, <4>2
      <4>4. lastGrant[b] <= now
        BY <1>2, <1>4, <4>1
      <4>5. QED BY <1>4, <3>1, <4>1, <4>3, <4>4 DEF Refilled
    <3>4. QED BY <3>2, <3>3
  <2>3. QED BY <2>1, <2>2
<1>10. bucket'[b].tokens <= Capacity(RuleOf(b))' /\ bucket'[b].last <= now'
  BY <1>2, <1>6
<1>11. before'[b] <= granted'[b]
  BY <1>4
<1>12. QED BY <1>8, <1>9, <1>10, <1>11 DEF BucketOK

(* A bucket nobody looks at keeps its books.                               *)
LEMMA UntouchedKeepsBooks ==
  ASSUME BucketInv, NEW b \in BucketNames,
         bucket'[b] = bucket[b], granted'[b] = granted[b], lastGrant'[b] = lastGrant[b],
         b \in present' <=> b \in present,
         UNCHANGED <<now, since, before>>
  PROVE  BucketOK(b)'
  BY DEF BucketInv, BucketOK, Window, Refilled

(* The first look at a bucket keeps all books.                             *)
LEMMA AcquireKeepsBooks ==
  ASSUME TypeOK, BucketInv, NEW t \in Threads, NEW b \in BucketNames, Acquire(t, b)
  PROVE  /\ BucketInv'
         /\ granted'[b] = granted[b] + IF allowed'[t] THEN 1 ELSE 0
         /\ bucket' \in [BucketNames -> Bucket]
<1> DEFINE r == Refill(RuleOf(b), Entry(b), now)
           g == IF CanAcquire(RuleOf(b), Entry(b), now) THEN 1 ELSE 0
<1>1. /\ RuleOf(b) \in Rule /\ Capacity(RuleOf(b)) \in Nat
      /\ TicksPerMinute \in Nat
  BY Rules, TickAssumption
<1>2. r \in Bucket /\ r.last = now /\ r.tokens \in Nat
  <2>1. r \in Bucket /\ r.last = now
    BY <1>1, EntryFacts, RefillFacts
  <2>2. QED BY <2>1 DEF Bucket
<1>3. /\ bucket'[b].last = now
      /\ bucket'[b].tokens = r.tokens - TicksPerMinute * g
      /\ g = 1 => r.tokens >= TicksPerMinute
      /\ bucket'[b] \in Bucket
  <2>1. bucket'[b] = TryAcquire(RuleOf(b), Entry(b), now)
    BY DEF Acquire, TypeOK
  <2>2. CanAcquire(RuleOf(b), Entry(b), now) <=> r.tokens >= TicksPerMinute
    BY DEF CanAcquire
  <2>3. CASE r.tokens >= TicksPerMinute
    <3>1. bucket'[b] = [r EXCEPT !.tokens = @ - TicksPerMinute] /\ g = 1
      BY <2>1, <2>2, <2>3 DEF TryAcquire
    <3>2. r.tokens - TicksPerMinute \in Nat
      BY <1>1, <1>2, <2>3
    <3> HIDE DEF r, g
    <3>3. bucket'[b] = [tokens |-> r.tokens - TicksPerMinute, last |-> r.last]
      BY <1>2, <3>1 DEF Bucket
    <3>4. TicksPerMinute * g = TicksPerMinute
      BY <1>1, <3>1
    <3>5. bucket'[b] \in Bucket
      BY <1>2, <3>2, <3>3 DEF Bucket
    <3>6. QED BY <1>2, <2>3, <3>1, <3>3, <3>4, <3>5
  <2>4. CASE ~(r.tokens >= TicksPerMinute)
    <3>1. bucket'[b] = r /\ g = 0
      BY <2>1, <2>2, <2>4 DEF TryAcquire
    <3> HIDE DEF r, g
    <3>2. QED BY <1>1, <1>2, <3>1
  <2>5. QED BY <2>3, <2>4
<1>4. /\ granted'[b] = granted[b] + g
      /\ lastGrant'[b] = IF g = 1 THEN now ELSE lastGrant[b]
      /\ allowed'[t] <=> g = 1
      /\ b \in present'
      /\ UNCHANGED <<now, since, before>>
  <2>1. CASE CanAcquire(RuleOf(b), Entry(b), now)
    BY <2>1 DEF Acquire, TypeOK
  <2>2. CASE ~CanAcquire(RuleOf(b), Entry(b), now)
    <3>1. CanAcquire(RuleOf(b), Entry(b), now) = FALSE
      BY <2>2 DEF CanAcquire
    <3>2. allowed'[t] = FALSE /\ g = 0
      BY <3>1 DEF Acquire, TypeOK
    <3>3. granted[b] \in Nat /\ granted' = granted /\ lastGrant' = lastGrant
      BY <2>2 DEF Acquire, TypeOK
    <3>4. b \in present' /\ UNCHANGED <<now, since, before>>
      BY DEF Acquire
    <3> HIDE DEF g
    <3>5. allowed'[t] <=> g = 1
      BY <3>2
    <3>6. granted'[b] = granted[b] + g /\ lastGrant'[b] = IF g = 1 THEN now ELSE lastGrant[b]
      BY <3>2, <3>3
    <3>7. QED BY <3>4, <3>5, <3>6
  <2>3. QED BY <2>1, <2>2
<1>5. g \in {0, 1}
  OBVIOUS
<1>6. BucketOK(b)'
  <2> HIDE DEF g
  <2>1. QED BY <1>3, <1>4, <1>5, LookKeepsBooks
<1>7. ASSUME NEW a \in BucketNames, a # b PROVE BucketOK(a)'
  <2>1. /\ bucket'[a] = bucket[a] /\ granted'[a] = granted[a]
        /\ lastGrant'[a] = lastGrant[a]
        /\ a \in present' <=> a \in present
    BY <1>7 DEF Acquire, TypeOK
  <2>2. QED BY <1>4, <2>1, UntouchedKeepsBooks
<1>8. bucket' \in [BucketNames -> Bucket]
  BY <1>3 DEF Acquire, TypeOK
<1>9. QED BY <1>4, <1>6, <1>7, <1>8 DEF BucketInv

(* The second look, at a bucket that is there, keeps all books.            *)
LEMMA LookKeepsAllBooks ==
  ASSUME TypeOK, BucketInv, NEW b \in present, Look(b)
  PROVE  BucketInv' /\ bucket' \in [BucketNames -> Bucket]
<1>0. b \in BucketNames
  BY DEF TypeOK
<1>1. Entry(b) = bucket[b]
  BY DEF Entry
<1>2. /\ bucket'[b] = Refill(RuleOf(b), Entry(b), now)
      /\ UNCHANGED <<now, present, granted, lastGrant, since, before>>
  BY <1>0, <1>1 DEF Look, TypeOK
<1>3. bucket'[b] \in Bucket /\ bucket'[b].last = now /\ bucket'[b].tokens \in Nat
  <2>1. bucket'[b] \in Bucket /\ bucket'[b].last = now
    BY <1>0, <1>2, EntryFacts, RefillFacts, Rules
  <2>2. QED BY <2>1 DEF Bucket
<1>4. BucketOK(b)'
  <2>1. /\ bucket'[b].tokens
              = Refill(RuleOf(b), Entry(b), now).tokens - TicksPerMinute * 0
        /\ granted'[b] = granted[b] + 0
    <3>1. granted[b] \in Nat /\ granted'[b] = granted[b]
      BY <1>0, <1>2 DEF TypeOK
    <3>2. TicksPerMinute * 0 = 0
      BY TickAssumption
    <3>3. \A n \in Nat : n = n - TicksPerMinute * 0
      BY <3>2
    <3>4. QED BY <1>2, <1>3, <3>1, <3>3
  <2>2. lastGrant'[b] = IF 0 = 1 THEN now ELSE lastGrant[b]
    BY <1>2
  <2>3. 0 \in {0, 1} /\ b \in present' /\ UNCHANGED <<now, since, before>>
    BY <1>2
  <2>4. 0 = 1 => Refill(RuleOf(b), Entry(b), now).tokens >= TicksPerMinute
    OBVIOUS
  <2> HIDE DEF Look
  <2>5. QED BY ONLY TypeOK, BucketInv, <1>0, <1>3, <2>1, <2>2, <2>3, <2>4, LookKeepsBooks
<1>5. ASSUME NEW a \in BucketNames, a # b PROVE BucketOK(a)'
  <2>1. bucket'[a] = bucket[a]
    BY <1>5 DEF Look, TypeOK
  <2>2. QED BY <1>2, <2>1, UntouchedKeepsBooks
<1>6. bucket' \in [BucketNames -> Bucket]
  BY <1>0, <1>3 DEF Look, TypeOK
<1>7. QED BY <1>4, <1>5, <1>6 DEF BucketInv

(* Time passing keeps all books, whether or not a window is started.       *)
LEMMA TickKeepsBooks ==
  ASSUME TypeOK, BucketInv, Tick
  PROVE  BucketInv'
<1> SUFFICES ASSUME NEW b \in BucketNames PROVE BucketOK(b)'
  BY DEF BucketInv
<1>1. /\ BucketOK(b) /\ now \in Nat /\ bucket[b].last \in Nat /\ granted[b] \in Nat
      /\ now' = now + 1
      /\ UNCHANGED <<bucket, present, granted, lastGrant>>
  BY LimiterAssumption DEF TypeOK, BucketInv, Tick, Bucket
<1>2. CASE UNCHANGED <<since, before>>
  BY <1>1, <1>2 DEF BucketOK, Window, Refilled
<1>3. CASE since' = now + 1 /\ before' = granted
  BY <1>1, <1>3 DEF BucketOK, Window, Refilled
<1>4. QED BY <1>2, <1>3 DEF Tick

LEMMA Names ==
  /\ Global \in BucketNames /\ Identities \subseteq BucketNames
  /\ RuledTools \subseteq BucketNames /\ Nobody \notin BucketNames
  /\ Global \notin Identities /\ Global \notin RuledTools
  BY LimiterAssumption DEF BucketNames

-----------------------------------------------------------------------------
LEMMA InitIInv == Init => IInv
<1> SUFFICES ASSUME Init PROVE IInv
  OBVIOUS
<1>1. \A b \in BucketNames :
        /\ Capacity(RuleOf(b)) \in Nat
        /\ bucket[b] = [tokens |-> Capacity(RuleOf(b)), last |-> 0]
  BY Rules DEF Init, NewBucket
<1>2. TypeOK
  <2>1. bucket \in [BucketNames -> Bucket]
    BY <1>1, Rules DEF Init, Bucket
  <2>2. \A b \in BucketNames :
          bucket[b].tokens <= Capacity(RuleOf(b)) /\ bucket[b].last <= now
    BY <1>1 DEF Init
  <2>3. QED BY <2>1, <2>2, LimiterAssumption, Names DEF Init, TypeOK
<1>3. BucketInv
  BY <1>1 DEF Init, BucketInv, BucketOK, Window, Refilled
<1>4. PresentInv
  BY DEF Init, PresentInv
<1>5. FlightInv
  <2>1. InFlight = {}
    BY DEF Init, InFlight
  <2>2. QED BY <2>1, FS_EmptySet, Names DEF Init, FlightInv
<1>6. QED BY <1>2, <1>3, <1>4, <1>5 DEF IInv

(* The requests in flight change only at the global grant and at the end   *)
(* of the identity section, by one request.                                *)
LEMMA FlightFacts ==
  ASSUME IInv
  PROVE  IsFiniteSet(InFlight) /\ Cardinality(InFlight) \in Nat
<1>1. InFlight \subseteq Threads
  BY DEF InFlight
<1>2. QED BY <1>1, LimiterAssumption, FS_Subset, FS_CardinalityType

LEMMA CheckRequestKeeps ==
  ASSUME IInv, NEW t \in Threads, NEW id \in Identities, CheckRequest(t, id)
  PROVE  IInv'
<1> USE DEF IInv
<1>1. /\ Acquire(t, Global) /\ pc[t] = "idle"
      /\ pc' = [pc EXCEPT ![t] = "global"] /\ caller' = [caller EXCEPT ![t] = id]
  BY DEF CheckRequest
<1>2. /\ BucketInv' /\ bucket' \in [BucketNames -> Bucket]
      /\ granted'[Global] = granted[Global] + IF allowed'[t] THEN 1 ELSE 0
  BY <1>1, Names, AcquireKeepsBooks
<1>3. TypeOK'
  <2>1. \A b \in BucketNames :
          bucket'[b].tokens <= Capacity(RuleOf(b)) /\ bucket'[b].last <= now'
    BY <1>2 DEF BucketInv, BucketOK
  <2>2. /\ allowed' \in [Threads -> BOOLEAN]
        /\ granted' \in [BucketNames -> Nat] /\ lastGrant' \in [BucketNames -> Int]
        /\ present' \subseteq BucketNames
        /\ UNCHANGED <<now, admitted, since, before>>
    BY <1>1, Names, LimiterAssumption DEF Acquire, TypeOK, CanAcquire
  <2>3. QED BY <1>1, <1>2, <2>1, <2>2, Names DEF TypeOK
<1>4. PresentInv'
  BY <1>1 DEF PresentInv, Acquire, TypeOK
<1>5. FlightInv'
  <2>1. t \notin InFlight /\ admitted' = admitted
    BY <1>1 DEF InFlight, Acquire
  <2>2. \A u \in Threads \ {t} : pc'[u] = pc[u] /\ allowed'[u] = allowed[u]
    BY <1>1 DEF Acquire, TypeOK
  <2>3. pc'[t] = "global"
    BY <1>1 DEF TypeOK
  <2>4. CASE allowed'[t]
    <3>1. InFlight' = InFlight \cup {t}
      BY <2>1, <2>2, <2>3, <2>4 DEF InFlight
    <3>2. Cardinality(InFlight') = Cardinality(InFlight) + 1
      BY <2>1, <3>1, FlightFacts, FS_AddElement
    <3>3. granted'[Global] = granted[Global] + 1
      BY <1>2, <2>4
    <3>4. granted[Global] \in Nat /\ admitted \in Nat
      BY Names DEF TypeOK
    <3>5. QED BY <2>1, <3>2, <3>3, <3>4, FlightFacts DEF FlightInv
  <2>5. CASE ~allowed'[t]
    <3>1. InFlight' = InFlight
      BY <2>1, <2>2, <2>3, <2>5 DEF InFlight
    <3>2. granted[Global] \in Nat
      BY Names DEF TypeOK
    <3>3. granted'[Global] = granted[Global]
      BY <1>2, <2>5, <3>2
    <3>4. QED BY <2>1, <3>1, <3>3 DEF FlightInv
  <2>6. QED BY <2>4, <2>5
<1>6. QED BY <1>2, <1>3, <1>4, <1>5

(* Sections other than the global one: the books, the types and the global *)
(* count of grants.                                                        *)
LEMMA LaterAcquireKeeps ==
  ASSUME IInv, NEW t \in Threads, NEW b \in Identities \cup RuledTools, Acquire(t, b),
         NEW section \in {"identity", "tool"},
         pc' = [pc EXCEPT ![t] = section], caller' = [caller EXCEPT ![t] = b],
         section = "identity" => b \in Identities /\ pc[t] = "between",
         section = "tool" => b \in RuledTools /\ pc[t] = "idle"
  PROVE  IInv'
<1> USE DEF IInv
<1>0. b \in BucketNames /\ b # Global
  BY Names
<1>1. BucketInv' /\ bucket' \in [BucketNames -> Bucket]
  BY <1>0, AcquireKeepsBooks
<1>2. TypeOK'
  <2>1. \A a \in BucketNames :
          bucket'[a].tokens <= Capacity(RuleOf(a)) /\ bucket'[a].last <= now'
    BY <1>1 DEF BucketInv, BucketOK
  <2>2. /\ allowed' \in [Threads -> BOOLEAN]
        /\ granted' \in [BucketNames -> Nat] /\ lastGrant' \in [BucketNames -> Int]
        /\ present' \subseteq BucketNames
        /\ UNCHANGED <<now, admitted, since, before>>
    BY <1>0, LimiterAssumption DEF Acquire, TypeOK, CanAcquire
  <2>3. QED BY <1>0, <1>1, <2>1, <2>2, Names DEF TypeOK
<1>3. PresentInv'
  BY DEF PresentInv, Acquire, TypeOK
<1>4. FlightInv'
  <2>1. granted'[Global] = granted[Global] /\ admitted' = admitted
    BY <1>0, Names DEF Acquire, TypeOK
  <2>2. \A u \in Threads \ {t} : pc'[u] = pc[u] /\ allowed'[u] = allowed[u]
    BY DEF Acquire, TypeOK
  <2>3. pc'[t] = section
    BY DEF TypeOK
  <2>4. InFlight' = InFlight
    BY <2>2, <2>3 DEF InFlight
  <2>5. QED BY <2>1, <2>4 DEF FlightInv
<1>5. QED BY <1>1, <1>2, <1>3, <1>4

(* The second looks.                                                       *)
LEMMA ReadKeeps ==
  ASSUME IInv, NEW t \in Threads, NEW b \in present, Look(b),
         NEW out \in {"between", "idle"},
         pc[t] \in {"global", "identity", "tool"},
         pc' = [pc EXCEPT ![t] = out],
         caller' \in [Threads -> BucketNames \cup {Nobody}],
         allowed' \in [Threads -> BOOLEAN],
         \A u \in Threads \ {t} : caller'[u] = caller[u] /\ allowed'[u] = allowed[u],
         out = "between" =>
           pc[t] = "global" /\ allowed[t] /\ caller' = caller /\ admitted' = admitted,
         out = "idle" =>
           \/ pc[t] = "identity" /\ admitted' \in {admitted, admitted + 1}
           \/ t \notin InFlight /\ admitted' = admitted
  PROVE  IInv'
<1> USE DEF IInv
<1>1. BucketInv' /\ bucket' \in [BucketNames -> Bucket]
  BY LookKeepsAllBooks
<1>2. UNCHANGED <<now, present, granted, lastGrant, since, before>>
  BY DEF Look
<1>3. admitted' \in Nat
  BY DEF TypeOK
<1>4. TypeOK'
  <2>1. \A a \in BucketNames :
          bucket'[a].tokens <= Capacity(RuleOf(a)) /\ bucket'[a].last <= now'
    BY <1>1 DEF BucketInv, BucketOK
  <2>2. QED BY <1>1, <1>2, <1>3, <2>1 DEF TypeOK
<1>5. PresentInv'
  BY <1>2 DEF PresentInv, TypeOK
<1>6. FlightInv'
  <2>1. granted'[Global] = granted[Global] /\ granted[Global] \in Nat /\ admitted \in Nat
    BY <1>2, Names DEF TypeOK
  <2>2. \A u \in Threads \ {t} : pc'[u] = pc[u]
    BY DEF TypeOK
  <2>3. pc'[t] = out
    BY DEF TypeOK
  <2>4. CASE out = "between"
    <3>1. InFlight' = InFlight
      BY <2>2, <2>3, <2>4 DEF InFlight
    <3>2. QED BY <2>1, <2>4, <3>1 DEF FlightInv
  <2>5. CASE out = "idle" /\ pc[t] = "identity" /\ admitted' \in {admitted, admitted + 1}
    <3>1. InFlight' = InFlight \ {t} /\ t \in InFlight
      BY <2>2, <2>3, <2>5 DEF InFlight
    <3>2. Cardinality(InFlight') = Cardinality(InFlight) - 1
      BY <3>1, FlightFacts, FS_RemoveElement
    <3>3. QED BY <2>1, <2>5, <3>2, FlightFacts DEF FlightInv
  <2>6. CASE out = "idle" /\ t \notin InFlight /\ admitted' = admitted
    <3>1. InFlight' = InFlight
      BY <2>2, <2>3, <2>6 DEF InFlight
    <3>2. QED BY <2>1, <2>6, <3>1 DEF FlightInv
  <2>7. QED BY <2>4, <2>5, <2>6
<1>7. QED BY <1>1, <1>4, <1>5, <1>6

LEMMA StepKeeps == IInv /\ [Next]_vars => IInv'
<1> SUFFICES ASSUME IInv, [Next]_vars PROVE IInv'
  OBVIOUS
<1>1. CASE Tick
  <2>1. BucketInv'
    BY <1>1, TickKeepsBooks DEF IInv
  <2>2. TypeOK'
    <3>1. \A b \in BucketNames :
            bucket'[b].tokens <= Capacity(RuleOf(b)) /\ bucket'[b].last <= now'
      BY <2>1 DEF BucketInv, BucketOK
    <3>2. now' \in 0 .. MaxTime /\ since' \in 0 .. now' /\ before' \in [BucketNames -> Nat]
      BY <1>1, LimiterAssumption DEF Tick, IInv, TypeOK
    <3>3. QED BY <1>1, <3>1, <3>2 DEF Tick, callVars, IInv, TypeOK
  <2>3. PresentInv' /\ FlightInv'
    BY <1>1 DEF Tick, callVars, IInv, PresentInv, FlightInv, InFlight
  <2>4. QED BY <2>1, <2>2, <2>3 DEF IInv
<1>2. ASSUME NEW t \in Threads, NEW id \in Identities, CheckRequest(t, id) PROVE IInv'
  BY <1>2, CheckRequestKeeps
<1>3. ASSUME NEW t \in Threads, GlobalRead(t) PROVE IInv'
  <2>1. pc[t] = "global" /\ Look(Global) /\ Global \in present /\ admitted' = admitted
    BY <1>3 DEF GlobalRead, IInv, PresentInv
  <2>3. CASE /\ allowed[t]
             /\ pc' = [pc EXCEPT ![t] = "between"]
             /\ UNCHANGED <<caller, allowed>>
    <3>1. /\ caller' \in [Threads -> BucketNames \cup {Nobody}]
          /\ allowed' \in [Threads -> BOOLEAN]
      BY <2>3 DEF IInv, TypeOK
    <3>2. QED BY <2>1, <2>3, <3>1, ReadKeeps
  <2>4. CASE ~allowed[t] /\ Return(t)
    <3>1. /\ caller' \in [Threads -> BucketNames \cup {Nobody}]
          /\ allowed' \in [Threads -> BOOLEAN]
          /\ \A u \in Threads \ {t} : caller'[u] = caller[u] /\ allowed'[u] = allowed[u]
      BY <2>4 DEF Return, IInv, TypeOK
    <3>2. t \notin InFlight /\ pc' = [pc EXCEPT ![t] = "idle"]
      BY <2>1, <2>4 DEF Return, InFlight
    <3>3. QED BY <2>1, <3>1, <3>2, ReadKeeps
  <2>5. QED BY <1>3, <2>3, <2>4 DEF GlobalRead
<1>4. ASSUME NEW t \in Threads, IdentityAcquire(t) PROVE IInv'
  <2>1. /\ pc[t] = "between" /\ Acquire(t, caller[t]) /\ caller[t] \in Identities
        /\ pc' = [pc EXCEPT ![t] = "identity"] /\ caller' = caller
    BY <1>4 DEF IdentityAcquire, IInv, TypeOK
  <2>2. caller' = [caller EXCEPT ![t] = caller[t]]
    BY <2>1 DEF IInv, TypeOK
  <2>3. QED BY <2>1, <2>2, LaterAcquireKeeps
<1>5. ASSUME NEW t \in Threads, IdentityRead(t) PROVE IInv'
  <2>1. pc[t] = "identity" /\ Look(caller[t]) /\ caller[t] \in present /\ Return(t)
    BY <1>5 DEF IdentityRead, IInv, PresentInv
  <2>2. admitted' \in {admitted, admitted + 1}
    BY <1>5 DEF IdentityRead, IInv, TypeOK
  <2>3. /\ caller' \in [Threads -> BucketNames \cup {Nobody}]
        /\ allowed' \in [Threads -> BOOLEAN]
        /\ \A u \in Threads \ {t} : caller'[u] = caller[u] /\ allowed'[u] = allowed[u]
        /\ pc' = [pc EXCEPT ![t] = "idle"]
    BY <2>1 DEF Return, IInv, TypeOK
  <2>4. QED BY <2>1, <2>2, <2>3, ReadKeeps
<1>6. ASSUME NEW t \in Threads, NEW tool \in RuledTools, CheckTool(t, tool) PROVE IInv'
  <2>1. /\ pc[t] = "idle" /\ Acquire(t, tool)
        /\ pc' = [pc EXCEPT ![t] = "tool"] /\ caller' = [caller EXCEPT ![t] = tool]
    BY <1>6 DEF CheckTool
  <2>2. QED BY <2>1, LaterAcquireKeeps
<1>7. ASSUME NEW t \in Threads, ToolRead(t) PROVE IInv'
  <2>1. /\ pc[t] = "tool" /\ Look(caller[t]) /\ caller[t] \in present /\ Return(t)
        /\ admitted' = admitted
    BY <1>7 DEF ToolRead, IInv, PresentInv
  <2>2. /\ caller' \in [Threads -> BucketNames \cup {Nobody}]
        /\ allowed' \in [Threads -> BOOLEAN]
        /\ \A u \in Threads \ {t} : caller'[u] = caller[u] /\ allowed'[u] = allowed[u]
        /\ pc' = [pc EXCEPT ![t] = "idle"]
    BY <2>1 DEF Return, IInv, TypeOK
  <2>3. t \notin InFlight
    BY <2>1 DEF InFlight
  <2>4. QED BY <2>1, <2>2, <2>3, ReadKeeps
<1>8. CASE UNCHANGED vars
  <2>1. TypeOK' /\ PresentInv' /\ FlightInv'
    BY <1>8 DEF vars, callVars, history, IInv, TypeOK, PresentInv, FlightInv, InFlight
  <2>2. BucketInv'
    <3> SUFFICES ASSUME NEW b \in BucketNames PROVE BucketOK(b)'
      BY DEF BucketInv
    <3>1. QED BY <1>8, UntouchedKeepsBooks DEF vars, history, IInv
  <2>3. QED BY <2>1, <2>2 DEF IInv
<1>9. QED BY <1>1, <1>2, <1>3, <1>4, <1>5, <1>6, <1>7, <1>8 DEF Next, Call

LEMMA IInvariant == Spec => []IInv
  BY InitIInv, StepKeeps, PTL DEF Spec

-----------------------------------------------------------------------------
(* No interleaving of the callers takes a bucket below empty or above full.*)
THEOREM TypeCorrect == Spec => []TypeOK
<1>1. IInv => TypeOK
  BY DEF IInv
<1>2. QED BY <1>1, IInvariant, PTL

(* Any window of time, any bucket: at most the burst and the refill of the *)
(* window are handed out.                                                  *)
THEOREM WindowTheorem == Spec => []WindowBound
<1>1. IInv => WindowBound
  <2> SUFFICES ASSUME IInv, NEW b \in BucketNames
               PROVE  TicksPerMinute * (granted[b] - before[b])
                        <= Capacity(RuleOf(b)) + RuleOf(b).rpm * (now - since)
    BY DEF WindowBound
  <2>1. /\ now \in Nat /\ since \in Nat /\ since <= now
        /\ granted[b] \in Nat /\ before[b] \in Nat
        /\ bucket[b].tokens \in Nat /\ bucket[b].last \in Nat /\ bucket[b].last <= now
    BY LimiterAssumption DEF IInv, TypeOK, Bucket
  <2>2. Window(b, since, before[b])
    BY DEF IInv, BucketInv, BucketOK
  <2>3. /\ RuleOf(b).rpm \in Nat /\ Capacity(RuleOf(b)) \in Nat
        /\ TicksPerMinute \in Nat
    BY Rules, TickAssumption
  <2>4. RuleOf(b).rpm * (now - since) \in Nat
    BY <2>1, <2>3, Spans
  <2>5. CASE granted[b] = before[b]
    <3>1. TicksPerMinute * (granted[b] - before[b]) = 0
      BY <2>1, <2>3, <2>5
    <3>2. QED BY <2>3, <2>4, <3>1
  <2>6. CASE granted[b] # before[b]
    <3>1. /\ bucket[b].last >= since
          /\ bucket[b].tokens + TicksPerMinute * (granted[b] - before[b])
               <= Capacity(RuleOf(b)) + RuleOf(b).rpm * (bucket[b].last - since)
      BY <2>2, <2>6 DEF Window
    <3>2. /\ RuleOf(b).rpm * (bucket[b].last - since) <= RuleOf(b).rpm * (now - since)
          /\ RuleOf(b).rpm * (bucket[b].last - since) \in Nat
      BY <2>1, <2>3, <3>1, Spans
    <3>3. TicksPerMinute * (granted[b] - before[b]) \in Int
      BY <2>1, <2>3
    <3>4. QED BY <2>1, <2>3, <2>4, <3>1, <3>2, <3>3
  <2>7. QED BY <2>5, <2>6
<1>2. QED BY <1>1, IInvariant, PTL

(* The global tier bounds what is admitted for all identities together.    *)
THEOREM GlobalTheorem == Spec => []GlobalBoundsAdmitted
<1>1. IInv => GlobalBoundsAdmitted
  <2> SUFFICES ASSUME IInv PROVE GlobalBoundsAdmitted
    OBVIOUS
  <2> DEFINE spent == TicksPerMinute * granted[Global]
             rate  == GlobalRule.rpm
             cap   == Capacity(GlobalRule)
  <2>1. /\ now \in Nat /\ admitted \in Nat /\ granted[Global] \in Nat
        /\ bucket[Global].tokens \in Nat
        /\ bucket[Global].last \in Nat /\ bucket[Global].last <= now
    BY Names, LimiterAssumption DEF IInv, TypeOK, Bucket
  <2>2. RuleOf(Global) = GlobalRule
    BY Names DEF RuleOf
  <2>3. rate \in Nat /\ cap \in Nat /\ TicksPerMinute \in Nat
    BY <2>2, Names, Rules, TickAssumption
  <2>4. TicksPerMinute * admitted <= spent
    <3>1. admitted <= granted[Global]
      BY <2>1, FlightFacts DEF IInv, FlightInv
    <3>2. TicksPerMinute * (admitted - 0) <= TicksPerMinute * (granted[Global] - 0)
      BY <2>1, <2>3, <3>1, Spans
    <3>3. QED BY <2>1, <3>2
  <2>5. spent <= cap + rate * now
    <3>1. Window(Global, 0, 0)
      BY Names DEF IInv, BucketInv, BucketOK
    <3>2. /\ rate * (now - 0) \in Nat
          /\ rate * (bucket[Global].last - 0) <= rate * (now - 0)
          /\ rate * (bucket[Global].last - 0) \in Nat
      BY <2>1, <2>3, Spans
    <3>3. rate * (now - 0) = rate * now /\ granted[Global] - 0 = granted[Global]
      BY <2>1
    <3>4. spent \in Int
      BY <2>1, <2>3
    <3>5. CASE granted[Global] = 0
      <4>1. spent = 0
        BY <2>3, <3>5
      <4>2. QED BY <2>3, <3>2, <3>3, <4>1
    <3>6. CASE granted[Global] # 0
      <4>1. bucket[Global].tokens + spent <= cap + rate * (bucket[Global].last - 0)
        BY <2>2, <3>1, <3>3, <3>6 DEF Window
      <4> HIDE DEF spent, rate, cap
      <4>2. QED BY <2>1, <2>3, <3>2, <3>3, <3>4, <4>1
    <3>7. QED BY <3>5, <3>6
  <2>6. TicksPerMinute * admitted \in Int /\ spent \in Int /\ rate * now \in Int
    BY <2>1, <2>3
  <2>7. TicksPerMinute * admitted <= cap + rate * now
    <3> HIDE DEF spent, rate, cap
    <3>1. QED BY <2>3, <2>4, <2>5, <2>6
  <2>8. QED BY <2>7 DEF GlobalBoundsAdmitted
<1>2. QED BY <1>1, IInvariant, PTL

LEMMA DenialFacts ==
  ASSUME IInv, NEW t \in Threads, NEW b \in BucketNames, Acquire(t, b),
         ~allowed'[t], RuleOf(b).burst > 0
  PROVE  /\ lastGrant[b] >= 0
         /\ RuleOf(b).rpm * (now - lastGrant[b]) < TicksPerMinute
<1> DEFINE r   == Refill(RuleOf(b), Entry(b), now)
           e   == Entry(b)
           cap == Capacity(RuleOf(b))
           rpm == RuleOf(b).rpm
<1>1. /\ rpm \in Nat /\ cap \in Nat /\ TicksPerMinute \in Nat /\ cap >= TicksPerMinute
  <2>1. \A m \in Nat, n \in Nat : n > 0 => m * n >= m
    <3> SUFFICES ASSUME NEW m \in Nat, NEW n \in Nat, n > 0 PROVE m * n >= m
      OBVIOUS
    <3>1. m * (1 - 0) <= m * (n - 0)
      BY Spans
    <3>2. QED BY <3>1
  <2>2. QED BY <2>1, Rules, TickAssumption DEF Capacity
<1>2. /\ e.tokens \in Nat /\ e.last \in Nat /\ e.tokens <= cap /\ e.last <= now /\ now \in Nat
      /\ lastGrant[b] \in Int
      /\ b \in present => e = bucket[b]
      /\ b \notin present => e.tokens = cap
  BY EntryFacts DEF IInv, TypeOK, Bucket
<1>3. /\ r.tokens \in Nat /\ r.tokens >= e.tokens
      /\ r.tokens \in {cap, e.tokens + rpm * (now - e.last)}
  <2>1. e \in Bucket /\ e.tokens <= cap /\ e.last <= now /\ RuleOf(b) \in Rule
    BY EntryFacts, Rules DEF IInv
  <2>2. r \in Bucket /\ r.tokens >= e.tokens
        /\ r.tokens \in {cap, e.tokens + rpm * (now - e.last)}
    BY <1>1, <1>2, <2>1, RefillFacts
  <2>3. QED BY <2>2 DEF Bucket
<1>4. r.tokens < TicksPerMinute
  <2>1. ~CanAcquire(RuleOf(b), Entry(b), now)
    BY DEF Acquire, IInv, TypeOK
  <2>2. QED BY <1>1, <1>3, <2>1 DEF CanAcquire
<1>5. e.tokens < cap /\ r.tokens = e.tokens + rpm * (now - e.last)
  BY <1>1, <1>2, <1>3, <1>4
<1>6. b \in present /\ e = bucket[b]
  BY <1>2, <1>5
<1>7. /\ lastGrant[b] >= 0 /\ lastGrant[b] <= e.last
      /\ e.tokens >= rpm * (e.last - lastGrant[b])
  BY <1>2, <1>5, <1>6 DEF IInv, BucketInv, BucketOK, Refilled
<1>8. /\ rpm * (now - lastGrant[b]) = rpm * (e.last - lastGrant[b]) + rpm * (now - e.last)
      /\ rpm * (e.last - lastGrant[b]) \in Nat /\ rpm * (now - e.last) \in Nat
  BY <1>1, <1>2, <1>7, Spans
<1>9. QED
  <2> HIDE DEF r, e, cap, rpm
  <2>1. rpm * (now - lastGrant[b]) < TicksPerMinute
    BY <1>1, <1>2, <1>3, <1>4, <1>5, <1>7, <1>8
  <2>2. QED BY <1>7, <2>1 DEF rpm

(* A caller is denied by a bucket with a burst only if that bucket granted *)
(* a token less than one refill interval ago, whoever polled it since.     *)
THEOREM DenialTheorem == Spec => DenialFollowsGrant
<1> DEFINE Denied(t, b) ==
      /\ pc[t] \in {"idle", "between"}
      /\ pc'[t] \in {"global", "identity", "tool"}
      /\ b = (IF pc'[t] = "global" THEN Global ELSE caller'[t])
      /\ RuleOf(b).burst > 0
      /\ ~allowed'[t]
<1>1. ASSUME IInv, Next, NEW t \in Threads, NEW b \in BucketNames, Denied(t, b)
      PROVE  Acquire(t, b)
  <2>1. CASE Tick
    BY <1>1, <2>1 DEF Tick, callVars
  <2>2. ASSUME NEW u \in Threads, NEW id \in Identities, CheckRequest(u, id)
        PROVE  Acquire(t, b)
    <3>1. u = t
      BY <1>1, <2>2 DEF CheckRequest, IInv, TypeOK
    <3>2. CheckRequest(t, id)
      BY <2>2, <3>1
    <3>3. pc'[t] = "global"
      BY <1>1, <3>2 DEF CheckRequest, IInv, TypeOK
    <3>4. Acquire(t, Global) /\ b = Global
      BY <1>1, <3>2, <3>3 DEF CheckRequest
    <3>5. QED BY <3>4
  <2>3. ASSUME NEW u \in Threads, GlobalRead(u) PROVE FALSE
    BY <1>1, <2>3 DEF GlobalRead, Return, IInv, TypeOK
  <2>4. ASSUME NEW u \in Threads, IdentityAcquire(u) PROVE Acquire(t, b)
    <3>1. u = t
      BY <1>1, <2>4 DEF IdentityAcquire, IInv, TypeOK
    <3>2. pc'[t] = "identity" /\ Acquire(t, caller[t]) /\ caller' = caller
      BY <1>1, <2>4, <3>1 DEF IdentityAcquire, IInv, TypeOK
    <3>3. QED BY <1>1, <3>2
  <2>5. ASSUME NEW u \in Threads, IdentityRead(u) PROVE FALSE
    BY <1>1, <2>5 DEF IdentityRead, Return, IInv, TypeOK
  <2>6. ASSUME NEW u \in Threads, NEW tool \in RuledTools, CheckTool(u, tool)
        PROVE  Acquire(t, b)
    <3>1. u = t
      BY <1>1, <2>6 DEF CheckTool, IInv, TypeOK
    <3>2. pc'[t] = "tool" /\ Acquire(t, tool) /\ caller'[t] = tool
      BY <1>1, <2>6, <3>1 DEF CheckTool, IInv, TypeOK
    <3>3. QED BY <1>1, <3>2
  <2>7. ASSUME NEW u \in Threads, ToolRead(u) PROVE FALSE
    BY <1>1, <2>7 DEF ToolRead, Return, IInv, TypeOK
  <2>8. QED BY <1>1, <2>1, <2>2, <2>3, <2>4, <2>5, <2>6, <2>7 DEF Next, Call
<1>2. ASSUME IInv, [Next]_vars
      PROVE  [\A t \in Threads, b \in BucketNames :
                Denied(t, b) => /\ lastGrant[b] >= 0
                                /\ RuleOf(b).rpm * (now - lastGrant[b]) < TicksPerMinute]_vars
  <2>1. CASE Next
    <3> SUFFICES ASSUME NEW t \in Threads, NEW b \in BucketNames, Denied(t, b)
                 PROVE  /\ lastGrant[b] >= 0
                        /\ RuleOf(b).rpm * (now - lastGrant[b]) < TicksPerMinute
      OBVIOUS
    <3>1. Acquire(t, b)
      BY <1>1, <1>2, <2>1
    <3>2. QED BY <1>2, <3>1, DenialFacts
  <2>2. CASE UNCHANGED vars
    BY <2>2
  <2>3. QED BY <1>2, <2>1, <2>2
<1>3. QED BY <1>2, IInvariant, PTL DEF Spec, DenialFollowsGrant
=============================================================================
