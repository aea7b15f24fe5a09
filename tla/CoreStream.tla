----------------------------- MODULE CoreStream -----------------------------
(***************************************************************************)
(* One CompleteStream call of the Core: the gRPC handler                   *)
(* (core/internal/server/grpc.go) and the goroutine of the Anthropic       *)
(* adapter (core/internal/adapter/anthropic.go) that feeds it through a    *)
(* buffered channel of chunks and a channel of one error.  The Anthropic   *)
(* client library, gRPC and the caller are external.                       *)
(*                                                                         *)
(* The events of the provider's stream are numbered; a chunk is known by   *)
(* the number of its event.                                                *)
(***************************************************************************)
EXTENDS Naturals, Sequences

CONSTANTS
  Events,       (* how many events the provider's whole answer has         *)
  ChunkCap,     (* capacity of chunkCh, 32 in the code                     *)
  Errors,       (* the patterns of mapAdapterError an error may contain    *)
  None          (* no chunk in the handler's hands                         *)

ASSUME StreamAssumption ==
  /\ Events \in Nat
  /\ ChunkCap \in Nat \ {0}
  /\ None \notin 1 .. Events

VARIABLES
  next,         (* number of the provider's next event                     *)
  producer,     (* where the adapter's goroutine stands                    *)
  chunkCh,      (* chunks buffered                                         *)
  errCh,        (* errors buffered, at most one                            *)
  expired,      (* the 60 s timeout of callCtx has passed                  *)
  ctxDone,      (* stream.Context() is done                                *)
  sending,      (* the chunk stream.Send is busy with                      *)
  status,       (* what the handler returned, "running" until then         *)
  received,     (* history: the chunks the caller was sent                 *)
  failed        (* history: CreateMessagesStream returned an error         *)

vars == <<next, producer, chunkCh, errCh, expired, ctxDone, sending, status,
          received, failed>>

(* callCtx is derived from the stream's context and has the timeout.       *)
CallDone == ctxDone \/ expired

(* close(errCh) comes before close(chunkCh): defers run last to first.     *)
ErrClosed   == producer \in {"errClosed", "done"}
ChunkClosed == producer = "done"

(* The switch of mapAdapterError, in its order.                            *)
Codes == <<
  [when |-> {"rate limit", "429"},                        code |-> "ResourceExhausted"],
  [when |-> {"unauthorized", "401", "invalid api key"},   code |-> "Unauthenticated"],
  [when |-> {"timeout", "deadline"},                      code |-> "DeadlineExceeded"],
  [when |-> {"500", "502", "503"},                        code |-> "Unavailable"]>>

(* The gRPC status of an error whose message contains these patterns: the  *)
(* first case that matches.                                                *)
MapAdapterError(patterns) ==
  LET matching == {k \in DOMAIN Codes : Codes[k].when \cap patterns # {}}
  IN  IF matching = {} THEN "Internal"
      ELSE Codes[CHOOSE k \in matching : \A j \in matching : k <= j].code

Statuses == {"running", "OK", "SendFailed", "Canceled", "Internal"}
            \cup {Codes[k].code : k \in DOMAIN Codes}

Init ==
  /\ next     = 1
  /\ producer = "reading"
  /\ chunkCh  = <<>>
  /\ errCh    = <<>>
  /\ expired  = FALSE
  /\ ctxDone  = FALSE
  /\ sending  = None
  /\ status   = "running"
  /\ received = <<>>
  /\ failed   = FALSE

-----------------------------------------------------------------------------
(* The adapter's goroutine.  The library reads an event and calls          *)
(* OnContentBlockDelta or OnMessageDelta with it.                          *)
ReadEvent ==
  /\ producer = "reading"
  /\ next <= Events
  /\ producer' = "holding"
  /\ UNCHANGED <<next, chunkCh, errCh, expired, ctxDone, sending, status, received, failed>>

(* The callback's select, case chunkCh <- chunk.                           *)
Emit ==
  /\ producer = "holding"
  /\ Len(chunkCh) < ChunkCap
  /\ chunkCh'  = Append(chunkCh, next)
  /\ next'     = next + 1
  /\ producer' = "reading"
  /\ UNCHANGED <<errCh, expired, ctxDone, sending, status, received, failed>>

Drop_WhenFull ==
  /\ producer = "holding"
  /\ CallDone \/ Len(chunkCh) = ChunkCap
  /\ next'     = next + 1
  /\ producer' = "reading"
  /\ UNCHANGED <<chunkCh, errCh, expired, ctxDone, sending, status, received, failed>>

Drop_Never == FALSE

(* The callback's select, case <-callCtx.Done(): the chunk is lost, and    *)
(* the library may still have events of its read buffer to deliver.        *)
Drop ==
  /\ producer = "holding"
  /\ CallDone
  /\ next'     = next + 1
  /\ producer' = "reading"
  /\ UNCHANGED <<chunkCh, errCh, expired, ctxDone, sending, status, received, failed>>

(* CreateMessagesStream returns after the last event.                      *)
EndOfStream ==
  /\ producer = "reading"
  /\ next > Events
  /\ producer' = "returned"
  /\ UNCHANGED <<next, chunkCh, errCh, expired, ctxDone, sending, status, received, failed>>

Fails_ReportedTwice(e) ==
  /\ producer = "reading"
  /\ errCh'    = errCh \o <<e, e>>
  /\ failed'   = TRUE
  /\ producer' = "returned"
  /\ UNCHANGED <<next, chunkCh, expired, ctxDone, sending, status, received>>

(* CreateMessagesStream returns an error; there is always room for it.     *)
Fails(e) ==
  /\ producer = "reading"
  /\ errCh'    = Append(errCh, e)
  /\ failed'   = TRUE
  /\ producer' = "returned"
  /\ UNCHANGED <<next, chunkCh, expired, ctxDone, sending, status, received>>

CloseErr ==
  /\ producer = "returned"
  /\ producer' = "errClosed"
  /\ UNCHANGED <<next, chunkCh, errCh, expired, ctxDone, sending, status, received, failed>>

CloseChunk_Forgotten == FALSE

CloseChunk ==
  /\ producer = "errClosed"
  /\ producer' = "done"
  /\ UNCHANGED <<next, chunkCh, errCh, expired, ctxDone, sending, status, received, failed>>

(* context.WithTimeout(ctx, 60s), until cancel() when the call returns.    *)
Timeout ==
  /\ producer \in {"reading", "holding"}
  /\ ~expired
  /\ expired' = TRUE
  /\ UNCHANGED <<next, producer, chunkCh, errCh, ctxDone, sending, status, received, failed>>

-----------------------------------------------------------------------------
(* The handler's select; Go picks any case that is ready.  A closed errCh  *)
(* is always ready and changes nothing.                                    *)
Selecting_AfterError == status # "OK" /\ sending = None
Selecting == status = "running" /\ sending = None

TakeChunk ==
  /\ Selecting
  /\ chunkCh # <<>>
  /\ sending' = Head(chunkCh)
  /\ chunkCh' = Tail(chunkCh)
  /\ UNCHANGED <<next, producer, errCh, expired, ctxDone, status, received, failed>>

(* stream.Send returns; while the caller does not read it may not.         *)
SendReturns ==
  /\ sending # None
  /\ sending' = None
  /\ \/ received' = Append(received, sending) /\ UNCHANGED status
     \/ status' = "SendFailed" /\ UNCHANGED received
  /\ UNCHANGED <<next, producer, chunkCh, errCh, expired, ctxDone, failed>>

(* !ok: chunkCh is closed and drained.                                     *)
EndOfChunks ==
  /\ Selecting
  /\ ChunkClosed /\ chunkCh = <<>>
  /\ status' = "OK"
  /\ UNCHANGED <<next, producer, chunkCh, errCh, expired, ctxDone, sending, received, failed>>

TakeError_EndsWhenClosed ==
  /\ Selecting
  /\ \/ /\ errCh # <<>>
        /\ status' = MapAdapterError(Head(errCh)) /\ errCh' = Tail(errCh)
     \/ /\ errCh = <<>> /\ ErrClosed
        /\ status' = "OK" /\ UNCHANGED errCh
  /\ UNCHANGED <<next, producer, chunkCh, expired, ctxDone, sending, received, failed>>

TakeError ==
  /\ Selecting
  /\ errCh # <<>>
  /\ status' = MapAdapterError(Head(errCh))
  /\ errCh'  = Tail(errCh)
  /\ UNCHANGED <<next, producer, chunkCh, expired, ctxDone, sending, received, failed>>

SeeDone ==
  /\ Selecting
  /\ ctxDone
  /\ status' = "Canceled"
  /\ UNCHANGED <<next, producer, chunkCh, errCh, expired, ctxDone, sending, received, failed>>

(* External: the caller leaves, or gRPC ends the context of a handler that *)
(* has returned.                                                           *)
ContextEnds ==
  /\ ~ctxDone
  /\ ctxDone' = TRUE
  /\ UNCHANGED <<next, producer, chunkCh, errCh, expired, sending, status, received, failed>>

Produce == ReadEvent \/ Emit \/ Drop \/ EndOfStream \/ (\E e \in Errors : Fails(e))
           \/ CloseErr \/ CloseChunk \/ Timeout
Handle  == TakeChunk \/ SendReturns \/ EndOfChunks \/ TakeError \/ SeeDone

Next == Produce \/ Handle \/ ContextEnds

Spec == Init /\ [][Next]_vars

(* The goroutines are scheduled and the timer fires.  A provider that says *)
(* nothing may hang, and the library gives up only once callCtx is done;   *)
(* stream.Send may hang, and gives up only once the stream's context is    *)
(* done; gRPC ends that context when the handler has returned.             *)
FairSpec ==
  /\ Spec
  /\ WF_vars(Emit) /\ WF_vars(Drop)
  /\ WF_vars(CloseErr) /\ WF_vars(CloseChunk) /\ WF_vars(Timeout)
  /\ WF_vars(CallDone /\ (EndOfStream \/ \E e \in Errors : Fails(e)))
  /\ WF_vars(TakeChunk \/ EndOfChunks \/ TakeError \/ SeeDone)
  /\ WF_vars(ctxDone /\ SendReturns)
  /\ WF_vars(status # "running" /\ ContextEnds)

-----------------------------------------------------------------------------
TypeOK ==
  /\ next \in 1 .. Events + 1
  /\ producer \in {"reading", "holding", "returned", "errClosed", "done"}
  /\ producer = "holding" => next <= Events
  /\ chunkCh \in Seq(1 .. Events) /\ Len(chunkCh) <= ChunkCap
  /\ errCh \in Seq(Errors) /\ Len(errCh) <= 1
  /\ expired \in BOOLEAN /\ ctxDone \in BOOLEAN
  /\ sending \in 1 .. Events \cup {None}
  /\ status \in Statuses
  /\ received \in Seq(1 .. Events)
  /\ failed \in BOOLEAN

(* The caller never sees chunks out of order or twice, and sees no gap     *)
(* before the call's context is done (the select of the callbacks).        *)
NoGap ==
  /\ \A i, j \in DOMAIN received : i < j => received[i] < received[j]
  /\ ~CallDone => \A i \in DOMAIN received : received[i] = i

(* A stream that ends with OK delivered everything the provider sent,      *)
(* unless the timeout or the caller cut it short: the buffered chunks are  *)
(* drained although errCh is closed before chunkCh (CompleteStream).       *)
OkIsWhole ==
  status = "OK" /\ ~CallDone => received = [i \in 1 .. next - 1 |-> i]

(* The buffer and the goroutines aside, a stream is a delivery in order,   *)
(* without gaps until it is cut short, that its status ends for good       *)
(* (CompleteStream returns with the status and sends nothing after it).    *)
Caller == INSTANCE Delivery WITH
  Chunks <- 1 .. Events, delivered <- received, cut <- CallDone, verdict <- status

ImplementsDelivery == Caller!DeliverySpec

(* The adapter's goroutine never leaks: not when the provider hangs, not   *)
(* when the caller stops reading and the buffer is full.                   *)
ProducerEnds == <>[](producer = "done")

(* The handler returns, unless the caller stops reading for ever without   *)
(* leaving.                                                                *)
HandlerReturns == <>(status # "running") \/ <>[](sending # None)

-----------------------------------------------------------------------------
(* dyson-implementation-guide.md:701-704: an error of the provider reaches *)
(* the caller as a gRPC status, a timeout as DEADLINE_EXCEEDED.            *)
FailureIsReported == status = "OK" => ~failed
=============================================================================
