------------------------------ MODULE Delivery ------------------------------
(***************************************************************************)
(* What a caller of CompleteStream may rely on: chunks come in the order   *)
(* the provider sent them, none is left out before the call is cut short,  *)
(* and the status is the last thing that comes.  No buffer, no goroutines. *)
(***************************************************************************)
EXTENDS Naturals, Sequences

CONSTANT Chunks   (* the numbers a chunk may have                          *)

VARIABLES
  delivered,  (* the chunks the caller has got                             *)
  cut,        (* the timeout has passed or the call's context is done      *)
  verdict     (* the status, "running" until there is one                  *)

deliveryVars == <<delivered, cut, verdict>>

DeliveryInit == delivered = <<>> /\ cut = FALSE /\ verdict = "running"

Deliver(n) ==
  /\ verdict = "running"
  /\ \A i \in DOMAIN delivered : delivered[i] < n
  /\ ~cut => n = Len(delivered) + 1
  /\ delivered' = Append(delivered, n)
  /\ UNCHANGED <<cut, verdict>>

CutShort == cut' = TRUE /\ UNCHANGED <<delivered, verdict>>

End ==
  /\ verdict = "running"
  /\ verdict' # "running"
  /\ UNCHANGED <<delivered, cut>>

DeliveryNext == CutShort \/ End \/ \E n \in Chunks : Deliver(n)

DeliverySpec == DeliveryInit /\ [][DeliveryNext]_deliveryVars
=============================================================================
