---------------------------- MODULE RateLimiter ----------------------------
(***************************************************************************)
(* sphere/src/rate_limit/limiter.rs under concurrent callers.  There are   *)
(* three mutexes: one for the global bucket, one for the whole map of      *)
(* identity buckets, one for the whole map of tool buckets.  check_request *)
(* takes the first two one after the other and holds neither in between;   *)
(* check_tool takes the third.  Inside a critical section the bucket is    *)
(* looked at twice, by try_acquire and by remaining, and the clock may     *)
(* advance between the two.                                                *)
(***************************************************************************)
EXTENDS TokenBucket, FiniteSets

CONSTANTS
  Threads,      (* concurrent callers                                      *)
  Identities,   (* identity_sub values                                     *)
  RuledTools,   (* tool names that have a per_tool rule                    *)
  Global,       (* the name of the global bucket                           *)
  Nobody,       (* the caller of a thread that is in no call               *)
  GlobalRule, IdentityRule,
  ToolRules,    (* per_tool_rules: the rule of each ruled tool             *)
  MaxTime       (* bound on the clock                                      *)

BucketNames == {Global} \cup Identities \cup RuledTools

ASSUME LimiterAssumption ==
  /\ Global \notin Identities \cup RuledTools
  /\ Nobody \notin BucketNames
  /\ Identities \cap RuledTools = {}
  /\ {GlobalRule, IdentityRule} \subseteq Rule
  /\ ToolRules \in [RuledTools -> Rule]
  /\ MaxTime \in Nat
  /\ IsFiniteSet(Threads)

VARIABLES
  now,        (* Instant::now()                                            *)
  bucket,     (* the buckets, those of the maps included                   *)
  present,    (* names that have a bucket: Global and the keys of the maps *)
  pc,         (* where each caller stands                                  *)
  caller,     (* the identity_sub of its check_request                     *)
  allowed,    (* the local `allowed' of the section it is in               *)
  granted,    (* history: tokens handed out, per bucket                    *)
  lastGrant,  (* history: when the last one was, -1 if never               *)
  admitted,   (* history: check_request calls that returned allowed        *)
  since,      (* history: where the observed window of time starts         *)
  before      (* history: granted at that moment                           *)

callVars == <<pc, caller, allowed>>
history  == <<granted, lastGrant, admitted, since, before>>
vars     == <<now, bucket, present, callVars, history>>

RuleOf(b) ==
  CASE b = Global        -> GlobalRule
    [] b \in Identities  -> IdentityRule
    [] b \in RuledTools  -> ToolRules[b]

(* A mutex is held exactly by the caller that is between its two looks at  *)
(* a bucket behind it.                                                     *)
Free(section) == \A t \in Threads : pc[t] # section

Init ==
  /\ now        = 0
  /\ bucket     = [b \in BucketNames |-> NewBucket(RuleOf(b), 0)]
  /\ present    = {Global}
  /\ pc         = [t \in Threads |-> "idle"]
  /\ caller     = [t \in Threads |-> Nobody]
  /\ allowed    = [t \in Threads |-> FALSE]
  /\ granted    = [b \in BucketNames |-> 0]
  /\ lastGrant  = [b \in BucketNames |-> -1]
  /\ admitted   = 0
  /\ since      = 0
  /\ before     = [b \in BucketNames |-> 0]

(* Time passes; the observed window may be started afresh.                 *)
Tick ==
  /\ now < MaxTime
  /\ now' = now + 1
  /\ \/ UNCHANGED <<since, before>>
     \/ since' = now + 1 /\ before' = granted
  /\ UNCHANGED <<bucket, present, callVars, granted, lastGrant, admitted>>

(* entry(name).or_insert_with(TokenBucket::new)                            *)
Entry(b) == IF b \in present THEN bucket[b] ELSE NewBucket(RuleOf(b), now)

(* The first look: try_acquire(1) on bucket b, with its mutex taken.       *)
Acquire(t, b) ==
  /\ present' = present \cup {b}
  /\ bucket'  = [bucket EXCEPT ![b] = TryAcquire(RuleOf(b), Entry(b), now)]
  /\ allowed' = [allowed EXCEPT ![t] = CanAcquire(RuleOf(b), Entry(b), now)]
  /\ \/ /\ CanAcquire(RuleOf(b), Entry(b), now)
        /\ granted'   = [granted EXCEPT ![b] = @ + 1]
        /\ lastGrant' = [lastGrant EXCEPT ![b] = now]
     \/ /\ ~CanAcquire(RuleOf(b), Entry(b), now)
        /\ UNCHANGED <<granted, lastGrant>>
  /\ UNCHANGED <<now, admitted, since, before>>

(* The second look: remaining(), after which the mutex is released.  Only  *)
(* its refill is state; the quota it reports is data of the result.        *)
Look(b) ==
  /\ bucket' = [bucket EXCEPT ![b] = Refill(RuleOf(b), @, now)]
  /\ UNCHANGED <<now, present, granted, lastGrant, since, before>>

(* The call returns and its locals are gone.                               *)
Return(t) ==
  /\ pc'      = [pc EXCEPT ![t] = "idle"]
  /\ caller'  = [caller EXCEPT ![t] = Nobody]
  /\ allowed' = [allowed EXCEPT ![t] = FALSE]

(* check_request(identity_sub), the global section.                        *)
CheckRequest(t, id) ==
  /\ pc[t] = "idle"
  /\ Free("global")
  /\ pc'     = [pc EXCEPT ![t] = "global"]
  /\ caller' = [caller EXCEPT ![t] = id]
  /\ Acquire(t, Global)

GlobalRead_NoReturn(t) ==
  /\ pc[t] = "global"
  /\ Look(Global)
  /\ pc' = [pc EXCEPT ![t] = "between"]
  /\ UNCHANGED <<caller, allowed, admitted>>

(* A request the global bucket denies returns without trying its own.      *)
GlobalRead(t) ==
  /\ pc[t] = "global"
  /\ Look(Global)
  /\ \/ /\ allowed[t]
        /\ pc' = [pc EXCEPT ![t] = "between"]
        /\ UNCHANGED <<caller, allowed>>
     \/ /\ ~allowed[t]
        /\ Return(t)
  /\ UNCHANGED admitted

(* check_request, the per-identity section.                                *)
IdentityAcquire(t) ==
  /\ pc[t] = "between"
  /\ Free("identity")
  /\ pc' = [pc EXCEPT ![t] = "identity"]
  /\ Acquire(t, caller[t])
  /\ UNCHANGED caller

IdentityRead(t) ==
  /\ pc[t] = "identity"
  /\ Look(caller[t])
  /\ admitted' = admitted + IF allowed[t] THEN 1 ELSE 0
  /\ Return(t)

(* check_tool(tool_name), for a tool that has a rule.                      *)
CheckTool(t, tool) ==
  /\ pc[t] = "idle"
  /\ Free("tool")
  /\ pc'     = [pc EXCEPT ![t] = "tool"]
  /\ caller' = [caller EXCEPT ![t] = tool]
  /\ Acquire(t, tool)

ToolRead(t) ==
  /\ pc[t] = "tool"
  /\ Look(caller[t])
  /\ Return(t)
  /\ UNCHANGED admitted

Call(t) ==
  \/ \E id \in Identities : CheckRequest(t, id)
  \/ GlobalRead(t)
  \/ IdentityAcquire(t)
  \/ IdentityRead(t)
  \/ \E tool \in RuledTools : CheckTool(t, tool)
  \/ ToolRead(t)

Next == Tick \/ \E t \in Threads : Call(t)

Spec == Init /\ [][Next]_vars

-----------------------------------------------------------------------------
(* Buckets stay between empty and full and are never looked at in the      *)
(* future; a caller inside check_request works for an identity, one inside *)
(* check_tool for a ruled tool.                                            *)
TypeOK ==
  /\ now \in 0 .. MaxTime
  /\ bucket \in [BucketNames -> Bucket]
  /\ \A b \in BucketNames :
       bucket[b].tokens <= Capacity(RuleOf(b)) /\ bucket[b].last <= now
  /\ present \subseteq BucketNames
  /\ pc \in [Threads -> {"idle", "global", "between", "identity", "tool"}]
  /\ caller \in [Threads -> BucketNames \cup {Nobody}]
  /\ \A t \in Threads :
       /\ pc[t] \in {"global", "between", "identity"} => caller[t] \in Identities
       /\ pc[t] = "tool" => caller[t] \in RuledTools
  /\ allowed \in [Threads -> BOOLEAN]
  /\ granted \in [BucketNames -> Nat]
  /\ lastGrant \in [BucketNames -> Int]
  /\ admitted \in Nat
  /\ since \in 0 .. now
  /\ before \in [BucketNames -> Nat]

(* The rate: in any window of time a bucket hands out at most its burst    *)
(* and what the window refills, however many callers contend for it and    *)
(* however often it is looked at (try_acquire, refill).                    *)
WindowBound ==
  \A b \in BucketNames :
    TicksPerMinute * (granted[b] - before[b])
      <= Capacity(RuleOf(b)) + RuleOf(b).rpm * (now - since)

(* The global tier bounds the requests admitted for all identities taken   *)
(* together, although its mutex is released before the identity's bucket   *)
(* is tried (check_request's early return).                                *)
GlobalBoundsAdmitted ==
  TicksPerMinute * admitted <= Capacity(GlobalRule) + GlobalRule.rpm * now

(* No undue denial: a bucket that denies has granted less than one refill  *)
(* interval ago, so polling an empty bucket never postpones its recovery   *)
(* (refill keeps fractions of a token).                                    *)
DenialFollowsGrant ==
  [][\A t \in Threads, b \in BucketNames :
       ( /\ pc[t] \in {"idle", "between"}
         /\ pc'[t] \in {"global", "identity", "tool"}
         /\ b = (IF pc'[t] = "global" THEN Global ELSE caller'[t])
         /\ RuleOf(b).burst > 0
         /\ ~allowed'[t] )
       => /\ lastGrant[b] >= 0
          /\ RuleOf(b).rpm * (now - lastGrant[b]) < TicksPerMinute]_vars

=============================================================================
