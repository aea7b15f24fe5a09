---------------------------- MODULE TrustLedger ----------------------------
(***************************************************************************)
(* What the sphere promises about a satellite session, with no sockets, no *)
(* clock and no adjudication pipeline: a session is granted an amount of   *)
(* trust once, every verdict is paid for out of that grant, only a few     *)
(* verdicts may be rejections, and a condemned session gets no further     *)
(* verdict.  SatelliteSession is shown to implement this module.           *)
(***************************************************************************)
EXTENDS Integers

CONSTANTS
  Sessions,       (* session identifiers                                   *)
  Grants,         (* amounts a session may be opened with                  *)
  VerdictPrice,   (* what one verdict costs                                *)
  RejectionMark,  (* least suspicion one rejection leaves behind           *)
  MarkLimit       (* suspicion at which a session is condemned             *)

VARIABLES
  phase,     (* "absent", "live" or "condemned", per session               *)
  grant,     (* the amount the session was opened with                     *)
  accepted,  (* accepting verdicts given so far                            *)
  rejected   (* rejecting verdicts given so far                            *)

ledger == <<phase, grant, accepted, rejected>>

LedgerInit ==
  /\ phase    = [s \in Sessions |-> "absent"]
  /\ grant    = [s \in Sessions |-> 0]
  /\ accepted = [s \in Sessions |-> 0]
  /\ rejected = [s \in Sessions |-> 0]

(* A grant that is not positive buys nothing: the session is condemned.    *)
Open(s, g) ==
  /\ phase[s] = "absent"
  /\ phase' = [phase EXCEPT ![s] = IF g > 0 THEN "live" ELSE "condemned"]
  /\ grant' = [grant EXCEPT ![s] = g]
  /\ UNCHANGED <<accepted, rejected>>

Affordable(s) == VerdictPrice * (accepted[s] + rejected[s] + 1) < grant[s]

Accept(s) ==
  /\ phase[s] = "live"
  /\ Affordable(s)
  /\ accepted' = [accepted EXCEPT ![s] = @ + 1]
  /\ UNCHANGED <<phase, grant, rejected>>

Reject(s) ==
  /\ phase[s] = "live"
  /\ Affordable(s)
  /\ RejectionMark * (rejected[s] + 1) < MarkLimit
  /\ rejected' = [rejected EXCEPT ![s] = @ + 1]
  /\ UNCHANGED <<phase, grant, accepted>>

Condemn(s) ==
  /\ phase[s] = "live"
  /\ phase' = [phase EXCEPT ![s] = "condemned"]
  /\ UNCHANGED <<grant, accepted, rejected>>

LedgerNext ==
  \E s \in Sessions :
    \/ \E g \in Grants : Open(s, g)
    \/ Accept(s)
    \/ Reject(s)
    \/ Condemn(s)

LedgerSpec == LedgerInit /\ [][LedgerNext]_ledger
=============================================================================
