-------------------------- MODULE CoreStreamProofs --------------------------
(***************************************************************************)
(* Proofs about CoreStream for any number of events, any buffer and any    *)
(* errors the provider may report.                                         *)
(***************************************************************************)
EXTENDS CoreStream, TLAPS

(* The chunk stream.Send is busy with counts as neither sent nor buffered. *)
InHand == IF sending = None THEN 0 ELSE 1

(* There is room for the one error, and the handler holds a chunk or has   *)
(* returned, not both.                                                     *)
Protocol ==
  /\ producer \in {"reading", "holding"} => errCh = <<>>
  /\ sending # None => status = "running"
  /\ status = "OK" => producer = "done" /\ chunkCh = <<>>

(* received, the chunk in hand and the buffer are one increasing sequence  *)
(* of events before the next one.                                          *)
Ordered ==
  /\ \A i, j \in DOMAIN received : i < j => received[i] < received[j]
  /\ \A i, j \in DOMAIN chunkCh : i < j => chunkCh[i] < chunkCh[j]
  /\ \A i \in DOMAIN received : received[i] < next
  /\ \A j \in DOMAIN chunkCh : chunkCh[j] < next
  /\ \A i \in DOMAIN received : \A j \in DOMAIN chunkCh : received[i] < chunkCh[j]
  /\ sending # None =>
       /\ sending < next
       /\ \A i \in DOMAIN received : received[i] < sending
       /\ \A j \in DOMAIN chunkCh : sending < chunkCh[j]

(* While the call is live that sequence has every event before the next.   *)
(* A chunk whose Send failed is gone, but then nothing is sent any more.   *)
Whole ==
  ~CallDone =>
    /\ \A i \in DOMAIN received : received[i] = i
    /\ status # "SendFailed" =>
         /\ sending # None => sending = Len(received) + 1
         /\ \A j \in DOMAIN chunkCh : chunkCh[j] = Len(received) + InHand + j
         /\ next = Len(received) + InHand + Len(chunkCh) + 1

IInv == TypeOK /\ Protocol /\ Ordered /\ Whole

-----------------------------------------------------------------------------
(* mapAdapterError always finds a code of gRPC, and never OK.              *)
LEMMA MapErrorType ==
  ASSUME NEW patterns
  PROVE  MapAdapterError(patterns) \in Statuses \ {"running", "OK", "SendFailed"}
<1> DEFINE matching == {k \in DOMAIN Codes : Codes[k].when \cap patterns # {}}
<1>1. DOMAIN Codes = 1 .. 4
  BY DEF Codes
<1>2. \A k \in DOMAIN Codes :
        Codes[k].code \in Statuses \ {"running", "OK", "SendFailed"}
  <2>1. /\ Codes[1].code = "ResourceExhausted" /\ Codes[2].code = "Unauthenticated"
        /\ Codes[3].code = "DeadlineExceeded"  /\ Codes[4].code = "Unavailable"
    BY DEF Codes
  <2>2. \A k \in DOMAIN Codes : Codes[k].code \in Statuses
    BY DEF Statuses
  <2>3. \A k \in 1 .. 4 : k = 1 \/ k = 2 \/ k = 3 \/ k = 4
    OBVIOUS
  <2>4. \A k \in DOMAIN Codes : Codes[k].code \notin {"running", "OK", "SendFailed"}
    BY <1>1, <2>1, <2>3
  <2>5. QED BY <2>2, <2>4
<1>3. CASE matching = {}
  BY <1>3 DEF MapAdapterError, Statuses
<1>4. CASE matching # {}
  <2>1. \E k \in matching : \A j \in matching : k <= j
    <3>1. matching \subseteq 1 .. 4
      BY <1>1
    <3>2. CASE 1 \in matching
      BY <3>1, <3>2
    <3>3. CASE 1 \notin matching /\ 2 \in matching
      BY <3>1, <3>3
    <3>4. CASE 1 \notin matching /\ 2 \notin matching /\ 3 \in matching
      BY <3>1, <3>4
    <3>5. CASE 1 \notin matching /\ 2 \notin matching /\ 3 \notin matching
      <4>1. 4 \in matching
        BY <1>4, <3>1, <3>5
      <4>2. QED BY <3>1, <3>5, <4>1
    <3>6. QED BY <3>2, <3>3, <3>4, <3>5
  <2> DEFINE first == CHOOSE k \in matching : \A j \in matching : k <= j
  <2>2. first \in matching
    BY <2>1
  <2>3. first \in DOMAIN Codes
    BY <2>2
  <2>4. MapAdapterError(patterns) = Codes[first].code
    BY <1>4 DEF MapAdapterError
  <2>5. QED BY <1>2, <2>3, <2>4
<1>5. QED BY <1>3, <1>4

(* Taking the head of a sequence moves every other element down by one.    *)
LEMMA TailFacts ==
  ASSUME NEW S, NEW s \in Seq(S), s # <<>>
  PROVE  /\ Head(s) \in S /\ Head(s) = s[1] /\ 1 \in DOMAIN s
         /\ Tail(s) \in Seq(S)
         /\ Len(s) \in Nat \ {0} /\ Len(Tail(s)) = Len(s) - 1
         /\ DOMAIN s = 1 .. Len(s) /\ DOMAIN Tail(s) = 1 .. Len(s) - 1
         /\ \A i \in DOMAIN Tail(s) : i + 1 \in DOMAIN s /\ Tail(s)[i] = s[i + 1]
<1>1. Len(s) \in Nat \ {0} /\ DOMAIN s = 1 .. Len(s)
  OBVIOUS
<1>2. Tail(s) \in Seq(S) /\ Len(Tail(s)) = Len(s) - 1
  OBVIOUS
<1>3. DOMAIN Tail(s) = 1 .. Len(s) - 1
  BY <1>1, <1>2
<1>4. \A i \in DOMAIN Tail(s) : Tail(s)[i] = s[i + 1]
  BY <1>1, <1>2, <1>3
<1>5. QED BY <1>1, <1>2, <1>3, <1>4

LEMMA AppendFacts ==
  ASSUME NEW S, NEW s \in Seq(S), NEW e \in S
  PROVE  /\ Append(s, e) \in Seq(S)
         /\ Len(s) \in Nat /\ Len(Append(s, e)) = Len(s) + 1
         /\ DOMAIN s = 1 .. Len(s) /\ DOMAIN Append(s, e) = 1 .. Len(s) + 1
         /\ \A i \in DOMAIN s : Append(s, e)[i] = s[i]
         /\ Append(s, e)[Len(s) + 1] = e
OBVIOUS

(* The numbers the invariant compares.                                     *)
LEMMA ChunkTypes ==
  ASSUME TypeOK
  PROVE  /\ next \in Nat
         /\ Len(received) \in Nat /\ DOMAIN received = 1 .. Len(received)
         /\ Len(chunkCh) \in Nat /\ DOMAIN chunkCh = 1 .. Len(chunkCh)
         /\ \A i \in DOMAIN received : received[i] \in Nat
         /\ \A j \in DOMAIN chunkCh : chunkCh[j] \in Nat
         /\ sending # None => sending \in Nat
<1>1. received \in Seq(1 .. Events) /\ chunkCh \in Seq(1 .. Events)
  BY DEF TypeOK
<1>2. \A n \in 1 .. Events : n \in Nat
  BY StreamAssumption
<1>3. QED BY <1>1, <1>2, StreamAssumption DEF TypeOK

LEMMA InitIInv == Init => IInv
<1> SUFFICES ASSUME Init PROVE IInv
  OBVIOUS
<1> USE StreamAssumption
<1>1. TypeOK
  <2>1. /\ received \in Seq(1 .. Events) /\ chunkCh \in Seq(1 .. Events)
        /\ errCh \in Seq(Errors)
    BY DEF Init
  <2>2. Len(chunkCh) = 0 /\ Len(errCh) = 0
    BY DEF Init
  <2>3. status \in Statuses /\ next \in 1 .. Events + 1
    BY DEF Init, Statuses
  <2>4. Len(chunkCh) <= ChunkCap /\ Len(errCh) <= 1
    BY <2>2
  <2>5. expired \in BOOLEAN /\ ctxDone \in BOOLEAN /\ failed \in BOOLEAN
    BY DEF Init
  <2>6. producer = "reading" /\ sending = None
    BY DEF Init
  <2>7. QED BY <2>1, <2>3, <2>4, <2>5, <2>6 DEF TypeOK
<1>2. Protocol
  BY DEF Init, Protocol
<1>3. DOMAIN received = {} /\ DOMAIN chunkCh = {} /\ Len(received) = 0 /\ Len(chunkCh) = 0
  BY DEF Init
<1>4. next = 1 /\ sending = None /\ InHand = 0
  BY DEF Init, InHand
<1>5. Ordered
  BY <1>3, <1>4 DEF Ordered
<1>6. Whole
  BY <1>3, <1>4 DEF Whole
<1>7. QED BY <1>1, <1>2, <1>5, <1>6 DEF IInv

-----------------------------------------------------------------------------
(* One lemma for each kind of step.                                        *)
LEMMA EmitStep ==
  ASSUME IInv, Emit
  PROVE  IInv'
<1>1. /\ TypeOK /\ next \in 1 .. Events /\ next' = next + 1
      /\ UNCHANGED <<errCh, expired, ctxDone, sending, status, received, failed>>
      /\ producer = "holding" /\ producer' = "reading"
      /\ Len(chunkCh) < ChunkCap
  BY StreamAssumption DEF IInv, TypeOK, Emit
<1>2. /\ chunkCh' \in Seq(1 .. Events) /\ Len(chunkCh') = Len(chunkCh) + 1
      /\ DOMAIN chunkCh' = 1 .. Len(chunkCh) + 1
      /\ \A i \in DOMAIN chunkCh : chunkCh'[i] = chunkCh[i]
      /\ chunkCh'[Len(chunkCh) + 1] = next
  <2>1. chunkCh \in Seq(1 .. Events) /\ chunkCh' = Append(chunkCh, next)
    BY DEF IInv, TypeOK, Emit
  <2>2. QED BY <1>1, <2>1, AppendFacts
<1>3. /\ next \in Nat
      /\ Len(received) \in Nat /\ DOMAIN received = 1 .. Len(received)
      /\ Len(chunkCh) \in Nat /\ DOMAIN chunkCh = 1 .. Len(chunkCh)
      /\ \A i \in DOMAIN received : received[i] \in Nat
      /\ \A j \in DOMAIN chunkCh : chunkCh[j] \in Nat
      /\ sending # None => sending \in Nat
  BY <1>1, ChunkTypes
<1>4. TypeOK'
  BY <1>1, <1>2, <1>3, StreamAssumption DEF TypeOK
<1>5. Protocol'
  BY <1>1 DEF Protocol, IInv
<1>6. Ordered'
  <2>1. Ordered
    BY DEF IInv
  <2>2. \A j \in DOMAIN chunkCh' : j \in DOMAIN chunkCh \/ j = Len(chunkCh) + 1
    BY <1>2, <1>3
  <2>3. \A j \in DOMAIN chunkCh' : chunkCh'[j] < next + 1 /\ chunkCh'[j] \in Nat
    BY <1>2, <1>3, <2>1, <2>2 DEF Ordered
  <2>4. \A i, j \in DOMAIN chunkCh' : i < j => chunkCh'[i] < chunkCh'[j]
    <3> SUFFICES ASSUME NEW i \in DOMAIN chunkCh', NEW j \in DOMAIN chunkCh', i < j
        PROVE  chunkCh'[i] < chunkCh'[j]
      OBVIOUS
    <3>1. i \in DOMAIN chunkCh
      BY <1>2, <1>3
    <3>2. CASE j \in DOMAIN chunkCh
      BY <1>2, <2>1, <3>1, <3>2 DEF Ordered
    <3>3. CASE j = Len(chunkCh) + 1
      BY <1>2, <2>1, <3>1, <3>3 DEF Ordered
    <3>4. QED BY <2>2, <3>2, <3>3
  <2>5. \A i \in DOMAIN received : \A j \in DOMAIN chunkCh' : received[i] < chunkCh'[j]
    BY <1>2, <2>1, <2>2 DEF Ordered
  <2>6. sending # None => \A j \in DOMAIN chunkCh' : sending < chunkCh'[j]
    BY <1>2, <2>1, <2>2 DEF Ordered
  <2>7. /\ \A i \in DOMAIN received : received[i] < next + 1
        /\ sending # None => sending < next + 1
    BY <1>3, <2>1 DEF Ordered
  <2>8. QED BY <1>1, <2>1, <2>3, <2>4, <2>5, <2>6, <2>7 DEF Ordered
<1>7. Whole'
  <2>1. CallDone' = CallDone /\ InHand' = InHand /\ InHand \in {0, 1}
    BY <1>1 DEF CallDone, InHand
  <2>2. Whole
    BY DEF IInv
  <2>3. ASSUME ~CallDone, status # "SendFailed"
        PROVE  /\ \A j \in DOMAIN chunkCh' : chunkCh'[j] = Len(received) + InHand + j
               /\ next' = Len(received) + InHand + Len(chunkCh') + 1
    <3>1. /\ \A j \in DOMAIN chunkCh : chunkCh[j] = Len(received) + InHand + j
          /\ next = Len(received) + InHand + Len(chunkCh) + 1
      BY <2>2, <2>3 DEF Whole
    <3>2. \A j \in DOMAIN chunkCh' : j \in DOMAIN chunkCh \/ j = Len(chunkCh) + 1
      BY <1>2, <1>3
    <3>3. next = Len(received) + InHand + (Len(chunkCh) + 1)
      BY <1>3, <2>1, <3>1
    <3>4. \A j \in DOMAIN chunkCh' : chunkCh'[j] = Len(received) + InHand + j
      BY <1>2, <3>1, <3>2, <3>3
    <3>5. next' = Len(received) + InHand + Len(chunkCh') + 1
      BY <1>1, <1>2, <1>3, <2>1, <3>1
    <3>6. QED BY <3>4, <3>5
  <2>4. QED BY <1>1, <2>1, <2>2, <2>3 DEF Whole
<1>8. QED BY <1>4, <1>5, <1>6, <1>7 DEF IInv

LEMMA DropStep ==
  ASSUME IInv, Drop
  PROVE  IInv'
<1> USE StreamAssumption DEF IInv, TypeOK, Drop
<1>1. next' = next + 1 /\ next \in 1 .. Events
  OBVIOUS
<1>2. TypeOK' /\ Protocol'
  BY <1>1 DEF Protocol
<1>3. Ordered'
  BY <1>1 DEF Ordered
<1>4. Whole'
  BY DEF Whole, CallDone
<1>5. QED BY <1>2, <1>3, <1>4

(* The steps of the goroutine that leave the chunks alone.                 *)
LEMMA QuietStep ==
  ASSUME IInv, ReadEvent \/ EndOfStream \/ CloseErr \/ CloseChunk \/ Timeout \/ ContextEnds
  PROVE  IInv'
<1> USE StreamAssumption DEF IInv
<1> USE DEF ReadEvent, EndOfStream, CloseErr, CloseChunk, Timeout, ContextEnds
<1>1. UNCHANGED <<next, chunkCh, errCh, sending, status, received, failed>>
  OBVIOUS
<1>2. TypeOK'
  BY <1>1 DEF TypeOK
<1>3. Protocol'
  BY <1>1 DEF Protocol
<1>4. Ordered'
  BY <1>1 DEF Ordered
<1>5. Whole'
  <2>1. CallDone => CallDone'
    BY DEF CallDone
  <2>2. QED BY <1>1, <2>1 DEF Whole, InHand
<1>6. QED BY <1>2, <1>3, <1>4, <1>5

LEMMA FailsStep ==
  ASSUME IInv, NEW e \in Errors, Fails(e)
  PROVE  IInv'
<1> USE StreamAssumption DEF IInv, Fails
<1>1. errCh' = <<e>>
  BY DEF Protocol, TypeOK
<1>2. TypeOK'
  BY <1>1 DEF TypeOK
<1>3. Protocol' /\ Ordered'
  BY DEF Protocol, Ordered
<1>4. Whole'
  BY DEF Whole, InHand, CallDone
<1>5. QED BY <1>2, <1>3, <1>4

LEMMA TakeChunkStep ==
  ASSUME IInv, TakeChunk
  PROVE  IInv'
<1>1. /\ TypeOK /\ Protocol /\ Ordered /\ Whole
      /\ chunkCh \in Seq(1 .. Events) /\ chunkCh # <<>>
      /\ sending' = Head(chunkCh) /\ chunkCh' = Tail(chunkCh)
      /\ status = "running" /\ sending = None
      /\ UNCHANGED <<next, producer, errCh, expired, ctxDone, status, received, failed>>
  BY DEF IInv, TypeOK, TakeChunk, Selecting
<1>2. /\ sending' = chunkCh[1] /\ sending' \in 1 .. Events /\ 1 \in DOMAIN chunkCh
      /\ chunkCh' \in Seq(1 .. Events)
      /\ Len(chunkCh) \in Nat \ {0} /\ Len(chunkCh') = Len(chunkCh) - 1
      /\ DOMAIN chunkCh = 1 .. Len(chunkCh) /\ DOMAIN chunkCh' = 1 .. Len(chunkCh) - 1
      /\ \A j \in DOMAIN chunkCh' : j + 1 \in DOMAIN chunkCh /\ chunkCh'[j] = chunkCh[j + 1]
  BY <1>1, TailFacts
<1>3. sending' # None
  BY <1>2, StreamAssumption
<1>4. TypeOK'
  BY <1>1, <1>2, StreamAssumption DEF TypeOK
<1>5. Protocol'
  BY <1>1 DEF Protocol
<1>6. Ordered'
  <2>1. \A i, j \in DOMAIN chunkCh' : i < j => chunkCh'[i] < chunkCh'[j]
    <3> SUFFICES ASSUME NEW i \in DOMAIN chunkCh', NEW j \in DOMAIN chunkCh', i < j
        PROVE  chunkCh'[i] < chunkCh'[j]
      OBVIOUS
    <3>1. i + 1 \in DOMAIN chunkCh /\ j + 1 \in DOMAIN chunkCh /\ i + 1 < j + 1
      BY <1>2
    <3>2. QED BY <1>1, <1>2, <3>1 DEF Ordered
  <2>2. \A j \in DOMAIN chunkCh' : sending' < chunkCh'[j]
    <3> SUFFICES ASSUME NEW j \in DOMAIN chunkCh'
        PROVE  sending' < chunkCh'[j]
      OBVIOUS
    <3>1. 1 < j + 1 /\ j + 1 \in DOMAIN chunkCh
      BY <1>2
    <3>2. QED BY <1>1, <1>2, <3>1 DEF Ordered
  <2>3. /\ \A j \in DOMAIN chunkCh' : chunkCh'[j] < next
        /\ \A i \in DOMAIN received : \A j \in DOMAIN chunkCh' : received[i] < chunkCh'[j]
    BY <1>1, <1>2 DEF Ordered
  <2>4. sending' < next /\ \A i \in DOMAIN received : received[i] < sending'
    BY <1>1, <1>2 DEF Ordered
  <2>5. QED BY <1>1, <2>1, <2>2, <2>3, <2>4 DEF Ordered
<1>7. Whole'
  <2>1. CallDone' = CallDone /\ InHand = 0 /\ InHand' = 1
    BY <1>1, <1>3 DEF CallDone, InHand
  <2>2. Len(received) \in Nat
    BY <1>1, ChunkTypes
  <2>3. ASSUME ~CallDone
        PROVE  /\ sending' = Len(received) + 1
               /\ \A j \in DOMAIN chunkCh' : chunkCh'[j] = Len(received) + 1 + j
               /\ next = Len(received) + 1 + Len(chunkCh') + 1
    <3>1. /\ \A j \in DOMAIN chunkCh : chunkCh[j] = Len(received) + 0 + j
          /\ next = Len(received) + 0 + Len(chunkCh) + 1
      BY <1>1, <2>1, <2>3 DEF Whole
    <3>2. \A j \in DOMAIN chunkCh' : chunkCh'[j] = Len(received) + 0 + (j + 1)
      BY <1>2, <3>1
    <3>3. sending' = Len(received) + 0 + 1
      BY <1>2, <3>1
    <3>4. \A j \in DOMAIN chunkCh' : j \in Nat
      BY <1>2
    <3>5. QED BY <1>2, <2>2, <3>1, <3>2, <3>3, <3>4
  <2>4. QED BY <1>1, <2>1, <2>3 DEF Whole
<1>8. QED BY <1>4, <1>5, <1>6, <1>7 DEF IInv

LEMMA SendReturnsStep ==
  ASSUME IInv, SendReturns
  PROVE  IInv'
<1> USE StreamAssumption DEF IInv, SendReturns
<1>1. CallDone' = CallDone /\ InHand = 1 /\ InHand' = 0
  BY DEF CallDone, InHand
<1>2. CASE received' = Append(received, sending) /\ UNCHANGED status
  <2>1. /\ received' \in Seq(1 .. Events)
        /\ Len(received) \in Nat /\ Len(received') = Len(received) + 1
        /\ DOMAIN received = 1 .. Len(received) /\ DOMAIN received' = 1 .. Len(received) + 1
        /\ \A i \in DOMAIN received : received'[i] = received[i]
        /\ received'[Len(received) + 1] = sending
        /\ sending \in 1 .. Events
    BY <1>2, AppendFacts DEF TypeOK
  <2>2. TypeOK' /\ Protocol'
    BY <1>2, <2>1 DEF TypeOK, Protocol
  <2>3. Ordered'
    BY <1>2, <2>1 DEF Ordered, TypeOK
  <2>4. Whole'
    BY <1>1, <1>2, <2>1 DEF Whole, TypeOK, Protocol
  <2>5. QED BY <2>2, <2>3, <2>4
<1>3. CASE status' = "SendFailed" /\ UNCHANGED received
  <2>1. TypeOK' /\ Protocol'
    BY <1>3 DEF TypeOK, Protocol, Statuses
  <2>2. Ordered' /\ Whole'
    BY <1>1, <1>3 DEF Ordered, Whole
  <2>3. QED BY <2>1, <2>2
<1>4. QED BY <1>2, <1>3

(* The steps in which the handler returns a status.                        *)
LEMMA ReturnStep ==
  ASSUME IInv, EndOfChunks \/ TakeError \/ SeeDone
  PROVE  IInv' /\ status = "running" /\ status' # "running" /\ UNCHANGED <<received, CallDone>>
<1> USE StreamAssumption DEF IInv, Selecting
<1>1. /\ UNCHANGED <<next, producer, chunkCh, expired, ctxDone, sending, received, failed>>
      /\ status = "running" /\ sending = None
  BY DEF EndOfChunks, TakeError, SeeDone
<1>2. CASE EndOfChunks
  <2>1. status' = "OK" /\ errCh' = errCh /\ producer = "done" /\ chunkCh = <<>>
    BY <1>2 DEF EndOfChunks, ChunkClosed
  <2>2. QED
    BY <1>1, <2>1 DEF TypeOK, Statuses, Protocol, Ordered, Whole, InHand, CallDone
<1>3. CASE TakeError
  <2>1. status' \in Statuses \ {"running", "OK", "SendFailed"}
    BY <1>3, MapErrorType DEF TakeError
  <2>2. errCh' \in Seq(Errors) /\ Len(errCh') <= 1 /\ errCh # <<>>
    BY <1>3, TailFacts DEF TakeError, TypeOK
  <2>3. QED
    BY <1>1, <2>1, <2>2 DEF TypeOK, Protocol, Ordered, Whole, InHand, CallDone
<1>4. CASE SeeDone
  <2>1. status' = "Canceled" /\ errCh' = errCh
    BY <1>4 DEF SeeDone
  <2>2. QED
    BY <1>1, <2>1 DEF TypeOK, Statuses, Protocol, Ordered, Whole, InHand, CallDone
<1>5. QED BY <1>2, <1>3, <1>4

LEMMA NextIInv == IInv /\ [Next]_vars => IInv'
<1> SUFFICES ASSUME IInv, [Next]_vars PROVE IInv'
  OBVIOUS
<1>1. CASE ReadEvent \/ EndOfStream \/ CloseErr \/ CloseChunk \/ Timeout \/ ContextEnds
  BY <1>1, QuietStep
<1>2. CASE Emit
  BY <1>2, EmitStep
<1>3. CASE Drop
  BY <1>3, DropStep
<1>4. CASE \E e \in Errors : Fails(e)
  BY <1>4, FailsStep
<1>5. CASE TakeChunk
  BY <1>5, TakeChunkStep
<1>6. CASE SendReturns
  BY <1>6, SendReturnsStep
<1>7. CASE EndOfChunks \/ TakeError \/ SeeDone
  BY <1>7, ReturnStep
<1>8. CASE UNCHANGED vars
  BY <1>8 DEF vars, IInv, TypeOK, Protocol, Ordered, Whole, InHand, CallDone
<1>9. QED
  BY <1>1, <1>2, <1>3, <1>4, <1>5, <1>6, <1>7, <1>8 DEF Next, Produce, Handle

LEMMA Invariance == Spec => []IInv
<1>1. Init => IInv
  BY InitIInv
<1>2. IInv /\ [Next]_vars => IInv'
  BY NextIInv
<1>3. QED BY <1>1, <1>2, PTL DEF Spec

-----------------------------------------------------------------------------
(* TypeOK: the channels never hold more than they have room for, and what  *)
(* the handler returns is a status.                                        *)
THEOREM TypeCorrect == Spec => []TypeOK
<1>1. IInv => TypeOK
  BY DEF IInv
<1>2. QED BY <1>1, Invariance, PTL

(* NoGap: the caller sees the provider's chunks in order, and all of them  *)
(* up to the last it has seen as long as the call is live.                 *)
THEOREM NoGapTheorem == Spec => []NoGap
<1>1. IInv => NoGap
  BY DEF IInv, Ordered, Whole, NoGap
<1>2. QED BY <1>1, Invariance, PTL

(* OkIsWhole: OK for a live call means that nothing is missing.            *)
THEOREM OkTheorem == Spec => []OkIsWhole
<1>1. IInv => OkIsWhole
  <2> SUFFICES ASSUME IInv, status = "OK", ~CallDone
      PROVE  received = [i \in 1 .. next - 1 |-> i]
    BY DEF OkIsWhole
  <2>1. chunkCh = <<>> /\ sending = None
    BY DEF IInv, Protocol
  <2>2. Len(received) \in Nat /\ received \in Seq(1 .. Events)
    BY DEF IInv, TypeOK
  <2>3. next = Len(received) + 1 /\ \A i \in DOMAIN received : received[i] = i
    BY <2>1, <2>2 DEF IInv, Whole, InHand
  <2>4. DOMAIN received = 1 .. next - 1
    BY <2>2, <2>3
  <2>5. received = [i \in DOMAIN received |-> received[i]]
    BY <2>2
  <2>6. QED BY <2>3, <2>4, <2>5
<1>2. QED BY <1>1, Invariance, PTL

(* ImplementsDelivery: the call, goroutines, channels and all, is a        *)
(* delivery in order that its status ends.                                 *)
THEOREM DeliveryRefinement == Spec => ImplementsDelivery
<1>1. Init => Caller!DeliveryInit
  BY DEF Init, Caller!DeliveryInit, CallDone
<1>2. IInv /\ [Next]_vars => [Caller!DeliveryNext]_(Caller!deliveryVars)
  <2> SUFFICES ASSUME IInv, [Next]_vars
      PROVE  \/ Caller!DeliveryNext
             \/ UNCHANGED <<received, CallDone, status>>
    BY DEF Caller!deliveryVars
  <2>1. CASE Emit \/ Drop \/ (\E e \in Errors : Fails(e)) \/ TakeChunk \/ UNCHANGED vars
    BY <2>1 DEF Emit, Drop, Fails, TakeChunk, vars, CallDone
  <2>2. CASE ReadEvent \/ EndOfStream \/ CloseErr \/ CloseChunk
    BY <2>2 DEF ReadEvent, EndOfStream, CloseErr, CloseChunk, CallDone
  <2>3. CASE Timeout \/ ContextEnds
    <3>1. CallDone' = TRUE /\ UNCHANGED <<received, status>>
      BY <2>3 DEF Timeout, ContextEnds, CallDone
    <3>2. QED BY <3>1 DEF Caller!DeliveryNext, Caller!CutShort
  <2>4. CASE SendReturns
    <3>1. sending \in 1 .. Events /\ status = "running" /\ UNCHANGED CallDone
      BY <2>4 DEF SendReturns, IInv, TypeOK, Protocol, CallDone
    <3>2. CASE received' = Append(received, sending) /\ UNCHANGED status
      <4>1. /\ \A i \in DOMAIN received : received[i] < sending
            /\ ~CallDone => sending = Len(received) + 1
        BY <2>4, <3>1 DEF SendReturns, IInv, Ordered, Whole
      <4>2. Caller!Deliver(sending)
        BY <3>1, <3>2, <4>1 DEF Caller!Deliver
      <4>3. QED BY <3>1, <4>2 DEF Caller!DeliveryNext
    <3>3. CASE status' = "SendFailed" /\ UNCHANGED received
      BY <3>1, <3>3 DEF Caller!DeliveryNext, Caller!End
    <3>4. QED BY <2>4, <3>2, <3>3 DEF SendReturns
  <2>5. CASE EndOfChunks \/ TakeError \/ SeeDone
    <3>1. status = "running" /\ status' # "running" /\ UNCHANGED <<received, CallDone>>
      BY <2>5, ReturnStep
    <3>2. QED BY <3>1 DEF Caller!DeliveryNext, Caller!End
  <2>6. QED
    BY <2>1, <2>2, <2>3, <2>4, <2>5 DEF Next, Produce, Handle
<1>3. QED
  BY <1>1, <1>2, Invariance, PTL DEF Spec, ImplementsDelivery, Caller!DeliverySpec
=============================================================================
