------------------------ MODULE FilterPipelineProofs ------------------------
(***************************************************************************)
(* Proofs about FilterPipeline, for any inboxes, replies, configurations   *)
(* and chains the assumption allows: the type invariant and the five other *)
(* invariants of the Pipeline run, its action property, and the refinement *)
(* of ChatLoop.  In order: what each filter does to a text and to the      *)
(* context, what a text that a filter has let pass keeps being, the        *)
(* invariants of the two chains, the theorems on texts and counts, and the *)
(* view of ChatLoop.                                                       *)
(***************************************************************************)
EXTENDS FilterPipeline, SequenceLemmas

(* Texts and their bytes.                                                  *)
Bytes  == [piece \in WellPieces |-> piece.bytes]
IsMask == [piece \in WellPieces |-> IF piece.is = "mask" THEN 1 ELSE 0]
Excess == [piece \in WellPieces |-> Bytes[piece] - 10 * IsMask[piece]]
Masks(content) == Cardinality({i \in DOMAIN content : content[i].is = "mask"})

LEMMA PieceFacts ==
  /\ \A piece \in WellPieces : piece.is \in PieceKinds /\ piece.bytes \in Nat
  /\ \A kind \in PieceKinds, n \in Nat :
       (kind \notin DOMAIN Shortest \/ n >= Shortest[kind]) => Piece(kind, n) \in WellPieces
BY DEF WellPieces, Piece

LEMMA TextFacts ==
  ASSUME NEW content \in Texts
  PROVE  /\ Len(content) \in Nat /\ DOMAIN content = 1 .. Len(content)
         /\ \A i \in DOMAIN content : content[i] \in WellPieces
BY DEF Texts

LEMMA WeightsTyped ==
  Bytes \in [WellPieces -> Int] /\ IsMask \in [WellPieces -> Int] /\ Excess \in [WellPieces -> Int]
BY PieceFacts DEF Bytes, IsMask, Excess

LEMMA ByteLenWeighs ==
  ASSUME NEW content \in Texts
  PROVE  ByteLen(content) = Weigh(content, Bytes) /\ ByteLen(content) \in Nat
<1> DEFINE lens == [i \in DOMAIN content |-> content[i].bytes]
           n == Len(content)
<1>1. n \in Nat /\ DOMAIN content = 1 .. n
        /\ \A i \in 1 .. n : content[i] \in WellPieces /\ content[i].bytes \in Nat
  BY TextFacts, PieceFacts
<1>2. lens = Weights(content, Bytes)
  BY <1>1 DEF Weights, Bytes
<1>3. lens \in [1 .. n -> Nat]
  BY <1>1
<1> HIDE DEF lens, n
<1>4. lens \in Seq(Nat)
  BY <1>1, <1>3, FunctionIsSeq
<1>5. Total(lens) \in Nat
  BY <1>4, TotalNat
<1>6. QED BY <1>2, <1>5 DEF ByteLen, Weigh, lens

LEMMA ByteLenFacts ==
  /\ ByteLen(<<>>) = 0
  /\ \A piece \in WellPieces : ByteLen(<<piece>>) = piece.bytes
  /\ \A s, t \in Texts : ByteLen(s \o t) = ByteLen(s) + ByteLen(t) /\ s \o t \in Texts
<1>1. /\ <<>> \in Texts /\ \A piece \in WellPieces : <<piece>> \in Texts
      /\ \A s, t \in Texts : s \o t \in Texts
  BY DEF Texts
<1>2. ByteLen(<<>>) = 0
  BY <1>1, ByteLenWeighs, WeightsTyped, WeighShort
<1>3. ASSUME NEW piece \in WellPieces
      PROVE  ByteLen(<<piece>>) = piece.bytes
  <2>1. ByteLen(<<piece>>) = Weigh(<<piece>>, Bytes)
    BY <1>1, ByteLenWeighs
  <2>2. Weigh(<<piece>>, Bytes) = Bytes[piece]
    BY WeightsTyped, WeighShort
  <2>3. QED BY <2>1, <2>2 DEF Bytes
<1>4. ASSUME NEW s \in Texts, NEW t \in Texts
      PROVE  ByteLen(s \o t) = ByteLen(s) + ByteLen(t)
  <2>1. /\ ByteLen(s) = Weigh(s, Bytes) /\ ByteLen(t) = Weigh(t, Bytes)
        /\ ByteLen(s \o t) = Weigh(s \o t, Bytes)
    BY <1>1, ByteLenWeighs
  <2>2. Weigh(s \o t, Bytes) = Weigh(s, Bytes) + Weigh(t, Bytes)
    BY WeightsTyped, WeighConcat DEF Texts
  <2>3. QED BY <2>1, <2>2
<1>5. QED BY <1>1, <1>2, <1>3, <1>4

(* The excess of a text is its bytes without ten for each of its masks.    *)
LEMMA ExcessFacts ==
  ASSUME NEW content \in Texts
  PROVE  /\ Weigh(content, Excess) = ByteLen(content) - 10 * Masks(content)
         /\ Masks(content) \in Nat
<1> DEFINE S == {piece \in WellPieces : piece.is = "mask"}
<1>1. content \in Seq(WellPieces) /\ \A i \in DOMAIN content : content[i] \in WellPieces
  BY TextFacts DEF Texts
<1>2. Masks(content) = Count(content, S)
  <2>1. {i \in DOMAIN content : content[i].is = "mask"} = {i \in DOMAIN content : content[i] \in S}
    BY <1>1
  <2>2. QED BY <2>1 DEF Masks, Count
<1>3. Indicates(IsMask, S, WellPieces)
  BY DEF IsMask, Indicates
<1> HIDE DEF S
<1>4. Count(content, S) = Weigh(content, IsMask) /\ Count(content, S) \in Nat
  <2>1. Count(content, S) = Weigh(content, IsMask)
    BY <1>1, <1>3, WeightsTyped, CountIsWeight
  <2>2. Count(content, S) \in Nat
    BY <1>1, CountFacts
  <2>3. QED BY <2>1, <2>2
<1>5. Less(Excess, Bytes, 10, IsMask, WellPieces) /\ 10 \in Int
  BY DEF Excess, Less
<1>6. Weigh(content, Excess) = Weigh(content, Bytes) - 10 * Weigh(content, IsMask)
  BY <1>1, <1>5, WeightsTyped, WeighLinear
<1>7. QED BY <1>2, <1>4, <1>6, ByteLenWeighs

LEMMA KindFacts ==
  /\ Kinds(<<>>) = {}
  /\ \A piece : Kinds(<<piece>>) = {piece.is}
  /\ \A content \in Texts : Kinds(content) = {piece.is : piece \in ToSet(content)}
  /\ \A s, t \in Texts : Kinds(s \o t) = Kinds(s) \cup Kinds(t)
<1>1. Kinds(<<>>) = {} /\ \A piece : Kinds(<<piece>>) = {piece.is}
  BY DEF Kinds
<1>2. \A content : Kinds(content) = {piece.is : piece \in ToSet(content)}
  BY DEF Kinds, ToSet
<1>3. ASSUME NEW s \in Texts, NEW t \in Texts
      PROVE  Kinds(s \o t) = Kinds(s) \cup Kinds(t)
  <2>1. ToSet(s \o t) = ToSet(s) \cup ToSet(t)
    BY ConcatMembers DEF Texts
  <2>2. QED BY <1>2, <2>1
<1>4. QED BY <1>1, <1>2, <1>3

-----------------------------------------------------------------------------
(* Redaction: the kinds of pieces that each pattern may write.             *)
EntityNames == {"EMAIL", "PHONE", "SSN", "CREDIT_CARD"}
Ways        == {"Mask", "Remove", "Replace"}
Fresh(entity, way) ==
  CASE entity = "PHONE" /\ way = "Mask"    -> {"mask", "digits", "fragment", "dan_jailbreak"}
    [] entity = "PHONE" /\ way = "Remove"  ->
         {"digits", "dan_jailbreak", "jailbreak_keyword", "email", "ssn"}
    [] entity = "PHONE" /\ way = "Replace" -> {"substitute", "fragment", "phone_and_digits"}
    [] entity # "PHONE" /\ way = "Remove"  -> {"card"}
    [] entity # "PHONE" /\ way # "Remove"  -> {"mask", "substitute", "fragment"}
Written ==
  {"mask", "digits", "substitute", "fragment", "dan_jailbreak", "jailbreak_keyword",
   "email", "ssn", "card", "phone_and_digits"}
Least(kind, n) ==
  /\ kind = "email" => n >= 6
  /\ kind = "ssn" => n >= 11
  /\ kind \in {"card", "phone_and_digits"} => n >= 13

LEMMA EntitySizes ==
  /\ MaskLabel["EMAIL"] = 16 /\ MaskLabel["PHONE"] = 16
  /\ MaskLabel["SSN"] = 14 /\ MaskLabel["CREDIT_CARD"] = 22
  /\ Replacement["PHONE"] = 12
  /\ \A entity \in EntityNames : MaskLabel[entity] \in Nat /\ Replacement[entity] \in Nat
BY DEF EntityNames, Replacement, MaskLabel

(* A text of one piece.                                                    *)
LEMMA Alone ==
  ASSUME NEW kind \in Written, NEW n \in Nat, Least(kind, n)
  PROVE  /\ Piece(kind, n) \in WellPieces /\ <<Piece(kind, n)>> \in Texts
         /\ Kinds(<<Piece(kind, n)>>) = {kind}
         /\ Weigh(<<Piece(kind, n)>>, Excess) = IF kind = "mask" THEN n - 10 ELSE n
<1> DEFINE piece == Piece(kind, n)
<1>1. kind \in PieceKinds
  BY DEF Written, PieceKinds, Shortest
<1>2. kind \notin DOMAIN Shortest \/ n >= Shortest[kind]
  BY DEF Written, Shortest, Least
<1>3. piece \in WellPieces /\ piece.is = kind /\ piece.bytes = n
  BY <1>1, <1>2, PieceFacts DEF Piece
<1>4. Excess[piece] = IF kind = "mask" THEN n - 10 ELSE n
  BY <1>3 DEF Excess, Bytes, IsMask
<1> HIDE DEF piece
<1>5. <<piece>> \in Texts /\ Kinds(<<piece>>) = {kind}
  BY <1>3, KindFacts DEF Texts
<1>6. Weigh(<<piece>>, Excess) = Excess[piece]
  BY <1>3, WeightsTyped, WeighShort
<1>7. QED BY <1>3, <1>4, <1>5, <1>6 DEF piece

LEMMA Together ==
  ASSUME NEW s \in Texts, NEW t \in Texts
  PROVE  /\ s \o t \in Texts /\ Kinds(s \o t) = Kinds(s) \cup Kinds(t)
         /\ Weigh(s \o t, Excess) = Weigh(s, Excess) + Weigh(t, Excess)
         /\ Weigh(s, Excess) \in Int /\ Weigh(t, Excess) \in Int
<1>1. Weigh(s \o t, Excess) = Weigh(s, Excess) + Weigh(t, Excess)
  BY WeightsTyped, WeighConcat DEF Texts
<1>2. Weigh(s, Excess) \in Int /\ Weigh(t, Excess) \in Int
  BY ExcessFacts, ByteLenWeighs
<1>3. QED BY <1>1, <1>2, ByteLenFacts, KindFacts

LEMMA InsteadFacts ==
  ASSUME NEW entity \in EntityNames, NEW way \in Ways
  PROVE  /\ Instead(entity, way) \in Texts
         /\ way = "Mask" => /\ Kinds(Instead(entity, way)) = {"mask"}
                            /\ Weigh(Instead(entity, way), Excess) = MaskLabel[entity] - 10
         /\ way = "Remove" => Kinds(Instead(entity, way)) = {}
         /\ way = "Replace" => Kinds(Instead(entity, way)) = {"substitute"}
<1>1. CASE way = "Mask"
  <2>1. Instead(entity, way) = <<Piece("mask", MaskLabel[entity])>>
    BY <1>1 DEF Instead
  <2>2. MaskLabel[entity] \in Nat /\ "mask" \in Written /\ Least("mask", MaskLabel[entity])
    BY EntitySizes DEF Written, Least
  <2>3. QED BY <1>1, <2>1, <2>2, Alone
<1>2. CASE way = "Remove"
  <2>1. Instead(entity, way) = <<>>
    BY <1>2 DEF Instead
  <2>2. <<>> \in Texts /\ Kinds(<<>>) = {}
    BY KindFacts DEF Texts
  <2>3. QED BY <1>2, <2>1, <2>2
<1>3. CASE way = "Replace"
  <2>1. Instead(entity, way) = <<Piece("substitute", Replacement[entity])>>
    BY <1>3 DEF Instead
  <2>2. /\ Replacement[entity] \in Nat /\ "substitute" \in Written
        /\ Least("substitute", Replacement[entity])
    BY EntitySizes DEF Written, Least
  <2>3. QED BY <1>3, <2>1, <2>2, Alone
<1>4. QED BY <1>1, <1>2, <1>3 DEF Ways

(* What a match may become: a text of the kinds the pattern writes, and if *)
(* it is a mask at most ten bytes more.                                    *)
Yields(made, entity, way, piece) ==
  /\ made \in Texts /\ Kinds(made) \subseteq Fresh(entity, way)
  /\ way = "Mask" => Weigh(made, Excess) <= Excess[piece]

LEMMA ExcessOf ==
  \A piece \in WellPieces :
    Excess[piece] = IF piece.is = "mask" THEN piece.bytes - 10 ELSE piece.bytes
BY PieceFacts DEF Excess, Bytes, IsMask

LEMMA LeastBytes ==
  ASSUME NEW piece \in WellPieces
  PROVE  /\ piece.bytes \in Nat
         /\ piece.is = "email" => piece.bytes >= 6
         /\ piece.is \in {"phone", "long_number"} => piece.bytes >= 10
         /\ piece.is = "ssn" => piece.bytes >= 11
         /\ piece.is \in {"card", "phone_and_digits", "dan_and_phone", "split_phrase"} =>
              piece.bytes >= 13
         /\ piece.is = "split_email" => piece.bytes >= 19
         /\ piece.is = "split_ssn" => piece.bytes >= 24
         /\ piece.is = "split_card" => piece.bytes >= 28
BY DEF WellPieces, Shortest

LEMMA AfterDanFacts ==
  ASSUME NEW piece \in WellPieces, piece.is = "dan_and_phone", NEW way \in Ways
  PROVE  Yields(AfterDan(piece, way), "PHONE", way, piece)
<1> DEFINE kind == IF way = "Replace" THEN "fragment" ELSE "dan_jailbreak"
           rest == piece.bytes - 10
           head == <<Piece(kind, rest)>>
           tail == Instead("PHONE", way)
<1>1. rest \in Nat /\ Excess[piece] = rest + 10
  BY LeastBytes, ExcessOf
<1>2. kind \in Written /\ Least(kind, rest) /\ kind # "mask"
        /\ kind = (IF way = "Replace" THEN "fragment" ELSE "dan_jailbreak")
  BY DEF Written, Least
<1>3. AfterDan(piece, way) = head \o tail
  BY DEF AfterDan
<1> HIDE DEF kind, rest
<1>4. head \in Texts /\ Kinds(head) = {kind} /\ Weigh(head, Excess) = rest
  BY <1>1, <1>2, Alone
<1>5. /\ tail \in Texts
      /\ way = "Mask" => Kinds(tail) = {"mask"} /\ Weigh(tail, Excess) = 6
      /\ way = "Remove" => Kinds(tail) = {}
      /\ way = "Replace" => Kinds(tail) = {"substitute"}
  <2>1. "PHONE" \in EntityNames
    BY DEF EntityNames
  <2>2. QED BY <2>1, InsteadFacts, EntitySizes
<1> HIDE DEF head, tail
<1>6. /\ head \o tail \in Texts /\ Kinds(head \o tail) = Kinds(head) \cup Kinds(tail)
      /\ Weigh(head \o tail, Excess) = Weigh(head, Excess) + Weigh(tail, Excess)
  BY <1>4, <1>5, Together
<1>7. Kinds(head \o tail) \subseteq Fresh("PHONE", way)
  BY <1>2, <1>4, <1>5, <1>6 DEF Fresh, Ways
<1>8. way = "Mask" => Weigh(head \o tail, Excess) <= Excess[piece]
  BY <1>1, <1>4, <1>5, <1>6
<1>9. QED BY <1>3, <1>6, <1>7, <1>8 DEF Yields

LEMMA OfNumberFacts ==
  ASSUME NEW piece \in WellPieces, piece.is = "long_number", NEW way \in Ways
  PROVE  Yields(OfNumber(piece.bytes - 10, way), "PHONE", way, piece)
<1> DEFINE rest == piece.bytes - 10
           made == OfNumber(rest, way)
           head == Instead("PHONE", way)
           tail == <<Piece("digits", rest)>>
           both == <<Piece("phone_and_digits", Replacement["PHONE"] + rest)>>
<1>1. rest \in Nat /\ Excess[piece] = rest + 10
  BY LeastBytes, ExcessOf
<1>2. /\ head \in Texts
      /\ way = "Mask" => Kinds(head) = {"mask"} /\ Weigh(head, Excess) = 6
      /\ way = "Remove" => Kinds(head) = {}
      /\ way = "Replace" => Kinds(head) = {"substitute"}
  <2>1. "PHONE" \in EntityNames
    BY DEF EntityNames
  <2>2. QED BY <2>1, InsteadFacts, EntitySizes
<1> HIDE DEF rest
<1>3. /\ rest = 0 => made = head
      /\ rest > 0 /\ way = "Replace" => made = both
      /\ rest > 0 /\ way # "Replace" => made = head \o tail
  BY <1>1 DEF OfNumber
<1> HIDE DEF made
<1>4. CASE rest = 0
  <2>1. Kinds(head) \subseteq Fresh("PHONE", way)
    BY <1>2 DEF Fresh, Ways
  <2>2. QED BY <1>1, <1>2, <1>3, <1>4, <2>1 DEF Yields, made, rest
<1>5. CASE rest > 0 /\ way = "Replace"
  <2>1. Replacement["PHONE"] + rest \in Nat /\ "phone_and_digits" \in Written
          /\ Least("phone_and_digits", Replacement["PHONE"] + rest)
    BY <1>1, <1>5, EntitySizes DEF Written, Least
  <2>2. both \in Texts /\ Kinds(both) = {"phone_and_digits"}
    BY <2>1, Alone
  <2> HIDE DEF both
  <2>3. Kinds(both) \subseteq Fresh("PHONE", way)
    BY <1>5, <2>2 DEF Fresh
  <2>4. QED BY <1>3, <1>5, <2>2, <2>3 DEF Yields, made, rest
<1>6. CASE rest > 0 /\ way # "Replace"
  <2>1. "digits" \in Written /\ Least("digits", rest)
    BY DEF Written, Least
  <2>2. tail \in Texts /\ Kinds(tail) = {"digits"} /\ Weigh(tail, Excess) = rest
    BY <1>1, <2>1, Alone
  <2> HIDE DEF head, tail
  <2>3. /\ head \o tail \in Texts /\ Kinds(head \o tail) = Kinds(head) \cup Kinds(tail)
        /\ Weigh(head \o tail, Excess) = Weigh(head, Excess) + Weigh(tail, Excess)
    BY <1>2, <2>2, Together
  <2>4. Kinds(head \o tail) \subseteq Fresh("PHONE", way)
    BY <1>2, <1>6, <2>2, <2>3 DEF Fresh, Ways
  <2>5. way = "Mask" => Weigh(head \o tail, Excess) <= Excess[piece]
    BY <1>1, <1>2, <2>2, <2>3
  <2>6. QED BY <1>3, <1>6, <2>3, <2>4, <2>5 DEF Yields, made, rest
<1>7. QED BY <1>1, <1>4, <1>5, <1>6

(* Two halves around what is written for the entity between them.          *)
LEMMA Halved ==
  ASSUME NEW entity \in {"PHONE", "CREDIT_CARD"}, NEW way \in {"Mask", "Replace"},
         NEW outer \in Nat
  PROVE  LET half == outer \div 2
             made == <<Piece("fragment", half)>> \o Instead(entity, way)
                       \o <<Piece("fragment", outer - half)>>
         IN  /\ made \in Texts /\ Kinds(made) \subseteq Fresh(entity, way)
             /\ way = "Mask" => Weigh(made, Excess) = outer + MaskLabel[entity] - 10
<1> DEFINE half == outer \div 2
           head == <<Piece("fragment", half)>>
           mid  == Instead(entity, way)
           last == <<Piece("fragment", outer - half)>>
<1>1. half \in Nat /\ outer - half \in Nat /\ entity \in EntityNames /\ way \in Ways
  BY DEF EntityNames, Ways
<1> HIDE DEF half
<1>2. "fragment" \in Written /\ Least("fragment", half) /\ Least("fragment", outer - half)
  BY DEF Written, Least
<1>3. /\ head \in Texts /\ Kinds(head) = {"fragment"} /\ Weigh(head, Excess) = half
      /\ last \in Texts /\ Kinds(last) = {"fragment"} /\ Weigh(last, Excess) = outer - half
  BY <1>1, <1>2, Alone
<1>4. /\ mid \in Texts
      /\ way = "Mask" => Kinds(mid) = {"mask"} /\ Weigh(mid, Excess) = MaskLabel[entity] - 10
      /\ way = "Replace" => Kinds(mid) = {"substitute"}
  BY <1>1, InsteadFacts
<1> HIDE DEF head, mid, last
<1>5. /\ head \o mid \in Texts /\ Kinds(head \o mid) = Kinds(head) \cup Kinds(mid)
      /\ Weigh(head \o mid, Excess) = Weigh(head, Excess) + Weigh(mid, Excess)
  BY <1>3, <1>4, Together
<1> DEFINE front == head \o mid
<1> HIDE DEF front
<1>6. /\ front \o last \in Texts /\ Kinds(front \o last) = Kinds(front) \cup Kinds(last)
      /\ Weigh(front \o last, Excess) = Weigh(front, Excess) + Weigh(last, Excess)
  BY <1>3, <1>5, Together DEF front
<1>7. Kinds(front \o last) \subseteq Fresh(entity, way)
  BY <1>3, <1>4, <1>5, <1>6 DEF Fresh, front
<1>8. way = "Mask" => Weigh(front \o last, Excess) = outer + MaskLabel[entity] - 10
  BY <1>1, <1>3, <1>4, <1>5, <1>6, EntitySizes DEF front
<1>9. QED BY <1>6, <1>7, <1>8 DEF front, head, mid, last, half

LEMMA InterruptedFacts ==
  /\ DOMAIN Interrupted = {"split_phrase", "split_email", "split_ssn", "split_card"}
  /\ \A kind \in {"split_phrase", "split_email", "split_ssn"} :
       Interrupted[kind].by = "PHONE" /\ Interrupted[kind].bytes = 13
  /\ Interrupted["split_card"].by = "CREDIT_CARD" /\ Interrupted["split_card"].bytes = 15
  /\ Interrupted["split_phrase"].whole = "jailbreak_keyword"
  /\ Interrupted["split_email"].whole = "email"
  /\ Interrupted["split_ssn"].whole = "ssn" /\ Interrupted["split_card"].whole = "card"
BY DEF Interrupted

LEMMA WithinFacts ==
  ASSUME NEW piece \in WellPieces, piece.is \in DOMAIN Interrupted, NEW way \in Ways
  PROVE  Yields(Within(piece, way), Interrupted[piece.is].by, way, piece)
<1> DEFINE inner == Interrupted[piece.is]
           outer == piece.bytes - inner.bytes
           half  == outer \div 2
           made  == Within(piece, way)
           split == <<Piece("fragment", half)>> \o Instead(inner.by, way)
                      \o <<Piece("fragment", outer - half)>>
<1>1. /\ piece.is \in {"split_phrase", "split_email", "split_ssn", "split_card"}
      /\ piece.is = "split_card" => inner.by = "CREDIT_CARD" /\ inner.bytes = 15
      /\ piece.is # "split_card" => inner.by = "PHONE" /\ inner.bytes = 13
      /\ inner.by \in {"PHONE", "CREDIT_CARD"}
  BY InterruptedFacts
<1>2. /\ outer \in Nat
      /\ Excess[piece] = outer + inner.bytes
      /\ piece.is = "split_email" => outer >= 6
      /\ piece.is = "split_ssn" => outer >= 11
      /\ piece.is = "split_card" => outer >= 13
  BY <1>1, LeastBytes, ExcessOf
<1>3. /\ way = "Remove" => made = <<Piece(inner.whole, outer)>>
      /\ way = "Replace" /\ piece.is = "split_ssn" =>
           made = <<Piece("phone_and_digits", outer + Replacement["PHONE"])>>
      /\ way # "Remove" /\ ~(way = "Replace" /\ piece.is = "split_ssn") => made = split
  BY DEF Within
<1> HIDE DEF made
<1>4. CASE way = "Remove"
  <2>1. /\ inner.whole \in Written /\ Least(inner.whole, outer)
        /\ inner.whole \in Fresh(inner.by, way)
    <3>1. CASE piece.is = "split_phrase"
      BY <1>1, <1>2, <1>4, <3>1, InterruptedFacts DEF Written, Least, Fresh
    <3>2. CASE piece.is = "split_email"
      BY <1>1, <1>2, <1>4, <3>2, InterruptedFacts DEF Written, Least, Fresh
    <3>3. CASE piece.is = "split_ssn"
      BY <1>1, <1>2, <1>4, <3>3, InterruptedFacts DEF Written, Least, Fresh
    <3>4. CASE piece.is = "split_card"
      BY <1>1, <1>2, <1>4, <3>4, InterruptedFacts DEF Written, Least, Fresh
    <3>5. QED BY <1>1, <3>1, <3>2, <3>3, <3>4
  <2> HIDE DEF inner, outer
  <2>2. made \in Texts /\ Kinds(made) \subseteq Fresh(inner.by, way)
    BY <1>2, <1>3, <1>4, <2>1, Alone
  <2>3. QED BY <1>4, <2>2 DEF Yields, made, inner
<1>5. CASE way = "Replace" /\ piece.is = "split_ssn"
  <2>1. /\ outer + Replacement["PHONE"] \in Nat /\ "phone_and_digits" \in Written
        /\ Least("phone_and_digits", outer + Replacement["PHONE"])
        /\ "phone_and_digits" \in Fresh(inner.by, way)
    BY <1>1, <1>2, <1>5, EntitySizes DEF Written, Least, Fresh
  <2> HIDE DEF inner, outer
  <2>2. made \in Texts /\ Kinds(made) \subseteq Fresh(inner.by, way)
    BY <1>3, <1>5, <2>1, Alone
  <2>3. QED BY <1>5, <2>2 DEF Yields, made, inner
<1>6. CASE way # "Remove" /\ ~(way = "Replace" /\ piece.is = "split_ssn")
  <2>1. way \in {"Mask", "Replace"}
    BY <1>6 DEF Ways
  <2>2. made = split
    BY <1>3, <1>6
  <2>3. way = "Mask" => outer + MaskLabel[inner.by] - 10 <= Excess[piece]
    BY <1>1, <1>2, EntitySizes
  <2> HIDE DEF inner, outer
  <2>4. /\ split \in Texts /\ Kinds(split) \subseteq Fresh(inner.by, way)
        /\ way = "Mask" => Weigh(split, Excess) = outer + MaskLabel[inner.by] - 10
    BY <1>1, <1>2, <2>1, Halved
  <2> HIDE DEF split
  <2>5. QED BY <2>2, <2>3, <2>4 DEF Yields, made, inner
<1>7. QED BY <1>4, <1>5, <1>6

LEMMA HitsFacts ==
  ASSUME NEW piece
  PROVE  /\ Hits("EMAIL", piece) <=> piece.is = "email"
         /\ Hits("PHONE", piece) <=>
              piece.is \in {"phone", "long_number", "dan_and_phone", "split_phrase",
                            "split_email", "split_ssn"}
         /\ Hits("SSN", piece) <=> piece.is = "ssn"
         /\ Hits("CREDIT_CARD", piece) <=>
              \/ piece.is \in {"card", "split_card"}
              \/ piece.is = "phone_and_digits" /\ piece.bytes >= 15
              \/ piece.is = "long_number" /\ piece.bytes >= 13
<1>1. \A entity \in EntityNames :
        (piece.is \in DOMAIN Interrupted /\ Interrupted[piece.is].by = entity) <=>
          \/ entity = "PHONE" /\ piece.is \in {"split_phrase", "split_email", "split_ssn"}
          \/ entity = "CREDIT_CARD" /\ piece.is = "split_card"
  BY InterruptedFacts DEF EntityNames
<1>2. QED BY <1>1 DEF Hits, EntityNames

(* A long number is substituted only by the pattern of phones.             *)
LEMMA SubstituteFacts ==
  ASSUME NEW entity \in EntityNames, NEW way \in Ways, NEW piece \in WellPieces,
         Hits(entity, piece), piece.is = "long_number" => entity = "PHONE"
  PROVE  Yields(Substitute(entity, piece, way), entity, way, piece)
<1> DEFINE made == Substitute(entity, piece, way)
<1>1. CASE piece.is = "dan_and_phone"
  <2>1. entity = "PHONE"
    BY <1>1, HitsFacts DEF EntityNames
  <2>2. made = AfterDan(piece, way)
    BY <1>1 DEF Substitute, Interrupted
  <2>3. QED BY <1>1, <2>1, <2>2, AfterDanFacts
<1>2. CASE piece.is = "long_number"
  <2>1. made = OfNumber(piece.bytes - 10, way)
    BY <1>2 DEF Substitute, Interrupted
  <2>2. QED BY <1>2, <2>1, OfNumberFacts
<1>3. CASE piece.is \in DOMAIN Interrupted
  <2>1. made = Within(piece, way)
    BY <1>3 DEF Substitute, Interrupted
  <2>2. Interrupted[piece.is].by = entity
    BY <1>3, HitsFacts, InterruptedFacts DEF EntityNames
  <2>3. QED BY <1>3, <2>1, <2>2, WithinFacts
<1>4. CASE piece.is \notin {"dan_and_phone", "long_number"} \cup DOMAIN Interrupted
  <2>1. made = Instead(entity, way)
    BY <1>4 DEF Substitute
  <2>2. /\ made \in Texts
        /\ way = "Mask" => Kinds(made) = {"mask"} /\ Weigh(made, Excess) = MaskLabel[entity] - 10
        /\ way = "Remove" => Kinds(made) = {}
        /\ way = "Replace" => Kinds(made) = {"substitute"}
    BY <2>1, InsteadFacts
  <2> HIDE DEF made
  <2>3. Kinds(made) \subseteq Fresh(entity, way)
    BY <2>2 DEF Fresh, Ways
  <2>4. MaskLabel[entity] - 10 <= piece.bytes /\ piece.is # "mask"
    <3>1. \/ entity = "EMAIL" /\ piece.is = "email"
          \/ entity = "PHONE" /\ piece.is = "phone"
          \/ entity = "SSN" /\ piece.is = "ssn"
          \/ entity = "CREDIT_CARD" /\ piece.is \in {"card", "phone_and_digits"}
      BY <1>4, HitsFacts, InterruptedFacts DEF EntityNames
    <3>2. QED BY <3>1, LeastBytes, EntitySizes
  <2>5. Excess[piece] = piece.bytes
    BY <2>4, ExcessOf
  <2>6. QED BY <2>2, <2>3, <2>4, <2>5 DEF Yields, made
<1>5. QED BY <1>1, <1>2, <1>3, <1>4

(* What becomes of one piece.                                              *)
Struck(entity, piece) == Hits(entity, piece) /\ (piece.is = "long_number" => entity = "PHONE")
Outcome(entity, way) ==
  [piece \in WellPieces |->
     IF Struck(entity, piece) THEN Substitute(entity, piece, way) ELSE <<piece>>]

LEMMA OutcomeFacts ==
  ASSUME NEW entity \in EntityNames, NEW way \in Ways
  PROVE  /\ Outcome(entity, way) \in [WellPieces -> Seq(WellPieces)]
         /\ \A piece \in WellPieces :
              /\ Struck(entity, piece) =>
                   Kinds(Outcome(entity, way)[piece]) \subseteq Fresh(entity, way)
              /\ ~Struck(entity, piece) => ToSet(Outcome(entity, way)[piece]) = {piece}
              /\ way = "Mask" => Weigh(Outcome(entity, way)[piece], Excess) <= Excess[piece]
<1> DEFINE f == Outcome(entity, way)
<1>1. ASSUME NEW piece \in WellPieces
      PROVE  /\ f[piece] \in Texts
             /\ Struck(entity, piece) => Kinds(f[piece]) \subseteq Fresh(entity, way)
             /\ ~Struck(entity, piece) => ToSet(f[piece]) = {piece}
             /\ way = "Mask" => Weigh(f[piece], Excess) <= Excess[piece]
  <2>1. CASE Struck(entity, piece)
    <3>1. f[piece] = Substitute(entity, piece, way)
      BY <2>1 DEF Outcome
    <3>2. Hits(entity, piece) /\ (piece.is = "long_number" => entity = "PHONE")
      BY <2>1 DEF Struck
    <3>3. Yields(Substitute(entity, piece, way), entity, way, piece)
      BY <3>2, SubstituteFacts
    <3>4. QED BY <2>1, <3>1, <3>3 DEF Yields
  <2>2. CASE ~Struck(entity, piece)
    <3>1. f[piece] = <<piece>>
      BY <2>2 DEF Outcome
    <3>2. <<piece>> \in Texts /\ ToSet(<<piece>>) = {piece}
      BY DEF Texts, ToSet
    <3>3. Weigh(<<piece>>, Excess) = Excess[piece] /\ Excess[piece] \in Int
      BY WeightsTyped, WeighShort
    <3>4. Weigh(<<piece>>, Excess) <= Excess[piece]
      BY <3>3
    <3>5. QED BY <2>2, <3>1, <3>2, <3>4
  <2>3. QED BY <2>1, <2>2
<1>2. f \in [WellPieces -> Texts]
  <2>1. f = [piece \in WellPieces |-> f[piece]]
    BY DEF Outcome
  <2> HIDE DEF f
  <2>2. QED BY <1>1, <2>1
<1>3. QED BY <1>1, <1>2 DEF Texts

(* Every piece after a pattern is one it does not know, and was there, or  *)
(* one it has written.                                                     *)
Rid(before, after, entity, way) ==
  /\ \A x \in ToSet(after) :
       \/ x \in ToSet(before) /\ ~Hits(entity, x)
       \/ x.is \in Fresh(entity, way)
  /\ way = "Mask" => Weigh(after, Excess) <= Weigh(before, Excess)

LEMMA RewriteFacts ==
  ASSUME NEW entity \in EntityNames, NEW way \in Ways, NEW content \in Texts,
         entity = "CREDIT_CARD" => "long_number" \notin Kinds(content)
  PROVE  /\ Rewrite(content, entity, way) \in Texts
         /\ Rid(content, Rewrite(content, entity, way), entity, way)
<1> DEFINE f == Outcome(entity, way)
           rewritten == Rewrite(content, entity, way)
<1>1. content \in Seq(WellPieces) /\ \A i \in DOMAIN content : content[i] \in WellPieces
  BY TextFacts DEF Texts
<1>2. \A i \in DOMAIN content : Hits(entity, content[i]) <=> Struck(entity, content[i])
  BY HitsFacts DEF Struck, EntityNames, Kinds
<1>3. rewritten = FlattenSeq(Replaced(content, f))
  <2>1. Replaced(content, f)
          = [i \in DOMAIN content |->
               IF Hits(entity, content[i]) THEN Substitute(entity, content[i], way)
               ELSE <<content[i]>>]
    BY <1>1, <1>2 DEF Replaced, Outcome
  <2>2. QED BY <2>1 DEF Rewrite, Pieces
<1> HIDE DEF rewritten
<1>4. /\ f \in [WellPieces -> Seq(WellPieces)]
      /\ \A piece \in WellPieces :
           /\ Struck(entity, piece) => Kinds(f[piece]) \subseteq Fresh(entity, way)
           /\ ~Struck(entity, piece) => ToSet(f[piece]) = {piece}
           /\ way = "Mask" => Weigh(f[piece], Excess) <= Excess[piece]
  BY OutcomeFacts
<1> HIDE DEF f
<1>5. /\ rewritten \in Seq(WellPieces)
      /\ \A x : x \in ToSet(rewritten) <=> \E i \in DOMAIN content : x \in ToSet(f[content[i]])
  BY <1>1, <1>3, <1>4, ReplacedMembers
<1>6. ASSUME NEW x \in ToSet(rewritten)
      PROVE  (x \in ToSet(content) /\ ~Hits(entity, x)) \/ x.is \in Fresh(entity, way)
  <2>1. PICK i \in DOMAIN content : x \in ToSet(f[content[i]])
    BY <1>5
  <2>2. f[content[i]] \in Texts
    BY <1>1, <1>4 DEF Texts
  <2>3. CASE Struck(entity, content[i])
    <3>1. x.is \in Kinds(f[content[i]])
      BY <2>1, <2>2, KindFacts
    <3>2. QED BY <1>1, <1>4, <2>3, <3>1
  <2>4. CASE ~Struck(entity, content[i])
    <3>1. x = content[i]
      BY <1>1, <1>4, <2>1, <2>4
    <3>2. x \in ToSet(content)
      BY <3>1 DEF ToSet
    <3>3. QED BY <1>2, <2>4, <3>1, <3>2
  <2>5. QED BY <2>3, <2>4
<1>7. ASSUME way = "Mask"
      PROVE  Weigh(rewritten, Excess) <= Weigh(content, Excess)
  <2>1. \A i \in DOMAIN content : Weigh(f[content[i]], Excess) <= Excess[content[i]]
    BY <1>1, <1>4, <1>7
  <2>2. QED BY <1>1, <1>3, <1>4, <2>1, WeightsTyped, ReplacedWeighs
<1>8. QED BY <1>5, <1>6, <1>7 DEF rewritten, Texts, Rid

(* A pattern that finds nothing leaves the text alone: it has none of the  *)
(* kinds the pattern takes.                                                *)
LEMMA MatchFacts ==
  ASSUME NEW entity \in EntityNames, NEW content \in Texts
  PROVE  /\ MatchCount(content, entity) \in Nat
         /\ MatchCount(content, entity) = 0 =>
              \A i \in DOMAIN content : ~Hits(entity, content[i])
<1> DEFINE H == {i \in DOMAIN content : Hits(entity, content[i])}
<1>1. IsFiniteSet(H)
  <2>1. IsFiniteSet(1 .. Len(content)) /\ DOMAIN content = 1 .. Len(content)
    BY TextFacts, FS_Interval
  <2>2. QED BY <2>1, FS_Subset
<1>2. MatchCount(content, entity) = Cardinality(H)
  BY DEF MatchCount
<1>3. Cardinality(H) \in Nat /\ (Cardinality(H) = 0 => H = {})
  <2> HIDE DEF H
  <2>1. QED BY <1>1, FS_CardinalityType, FS_EmptySet
<1>4. H = {} => \A i \in DOMAIN content : ~Hits(entity, content[i])
  OBVIOUS
<1>5. QED BY <1>2, <1>3, <1>4

(* What the patterns up to some of them have made of a text.               *)
Done(done) ==
  done.text \in Texts /\ done.found \in Seq(EntityNames) /\ done.count \in Nat

LEMMA RedactOneFacts ==
  ASSUME NEW done, Done(done), NEW entity \in EntityNames, NEW way \in Ways,
         entity = "CREDIT_CARD" => "long_number" \notin Kinds(done.text)
  PROVE  /\ Done(RedactOne(done, entity, way))
         /\ Rid(done.text, RedactOne(done, entity, way).text, entity, way)
<1> DEFINE n == MatchCount(done.text, entity)
           text1 == Rewrite(done.text, entity, way)
           r == RedactOne(done, entity, way)
           w0 == Weigh(done.text, Excess)
<1>1. done.text \in Texts /\ done.found \in Seq(EntityNames) /\ done.count \in Nat
  BY DEF Done
<1>2. n \in Nat /\ (n = 0 => \A i \in DOMAIN done.text : ~Hits(entity, done.text[i]))
  BY <1>1, MatchFacts
<1>3. CASE n = 0
  <2>1. r = done
    BY <1>3 DEF RedactOne
  <2>2. w0 \in Int
    BY <1>1, ExcessFacts, ByteLenWeighs
  <2>3. \A x \in ToSet(done.text) : ~Hits(entity, x)
    BY <1>2, <1>3 DEF ToSet
  <2>4. Rid(done.text, done.text, entity, way)
    BY <2>2, <2>3 DEF Rid
  <2>5. QED BY <2>1, <2>4
<1>4. CASE n # 0
  <2>1. r = [text  |-> text1, found |-> Append(done.found, entity), count |-> done.count + n]
    BY <1>4 DEF RedactOne
  <2>2. text1 \in Texts /\ Rid(done.text, text1, entity, way)
    BY <1>1, RewriteFacts
  <2>3. Append(done.found, entity) \in Seq(EntityNames) /\ done.count + n \in Nat
    BY <1>1, <1>2
  <2> HIDE DEF n, text1, r
  <2>4. r.text = text1 /\ r.found = Append(done.found, entity) /\ r.count = done.count + n
    BY <2>1
  <2>5. Done(r) /\ Rid(done.text, r.text, entity, way)
    BY <2>2, <2>3, <2>4 DEF Done
  <2>6. QED BY <2>5 DEF r
<1>5. QED BY <1>3, <1>4

LEMMA EntitySet == ToSet(Entities) = EntityNames
BY DEF Entities, EntityNames, ToSet

(* The kinds that the four patterns together may write, and the phrases    *)
(* among them.                                                             *)
Made(way) == UNION {Fresh(entity, way) : entity \in EntityNames}
Reveals(way) ==
  CASE way = "Remove"  -> ToSet(Injections)
    [] way = "Mask"    -> {"dan_jailbreak"}
    [] way = "Replace" -> {}
Guarded(way) == IF way = "Remove" THEN {"SSN"} ELSE EntityNames

LEMMA MadeFacts ==
  ASSUME NEW way \in Ways
  PROVE  /\ Made(way) \subseteq Written
         /\ Made(way) \cap ToSet(Injections) \subseteq Reveals(way)
<1>1. ToSet(Injections)
        = {"ignore_previous", "role_assignment", "dan_jailbreak", "jailbreak_keyword"}
  BY DEF Injections, ToSet
<1>2. ASSUME NEW entity \in EntityNames
      PROVE  /\ Fresh(entity, way) \subseteq Written
             /\ Fresh(entity, way) \cap ToSet(Injections) \subseteq Reveals(way)
  <2>1. CASE way = "Mask"
    BY <1>1, <2>1 DEF Fresh, Written, Reveals
  <2>2. CASE way = "Remove"
    BY <1>1, <2>2 DEF Fresh, Written, Reveals
  <2>3. CASE way = "Replace"
    BY <1>1, <2>3 DEF Fresh, Written, Reveals
  <2>4. QED BY <2>1, <2>2, <2>3 DEF Ways
<1>3. QED BY <1>2 DEF Made

(* What a later pattern writes is nothing that an earlier one knows, but   *)
(* for what Remove joins.                                                  *)
LEMMA FreshFacts ==
  ASSUME NEW x, NEW way \in Ways
  PROVE  /\ \A entity \in EntityNames : x.is \in Fresh(entity, way) => x.is # "long_number"
         /\ \A entity \in EntityNames : x.is \in Fresh(entity, way) => x.is \in Made(way)
         /\ way # "Remove" =>
              /\ x.is \in Fresh("PHONE", way) => \A e \in {"EMAIL", "PHONE", "SSN"} : ~Hits(e, x)
              /\ \A entity \in {"EMAIL", "SSN", "CREDIT_CARD"} :
                   x.is \in Fresh(entity, way) => \A e \in EntityNames : ~Hits(e, x)
         /\ \A entity \in {"SSN", "CREDIT_CARD"} :
              x.is \in Fresh(entity, "Remove") => ~Hits("SSN", x)
<1>1. \A entity \in EntityNames : x.is \in Fresh(entity, way) => x.is # "long_number"
  BY DEF Fresh, Ways, EntityNames
<1>2. \A entity \in EntityNames : x.is \in Fresh(entity, way) => x.is \in Made(way)
  BY DEF Made
<1>3. ASSUME way # "Remove", x.is \in Fresh("PHONE", way), NEW e \in {"EMAIL", "PHONE", "SSN"}
      PROVE  ~Hits(e, x)
  BY <1>3, HitsFacts DEF Fresh, Ways
<1>4. ASSUME way # "Remove", NEW entity \in {"EMAIL", "SSN", "CREDIT_CARD"},
             x.is \in Fresh(entity, way), NEW e \in EntityNames
      PROVE  ~Hits(e, x)
  <2>1. x.is \in {"mask", "substitute", "fragment"}
    BY <1>4 DEF Fresh, Ways
  <2>2. QED BY <2>1, HitsFacts DEF EntityNames
<1>5. ASSUME NEW entity \in {"SSN", "CREDIT_CARD"}, x.is \in Fresh(entity, "Remove")
      PROVE  ~Hits("SSN", x)
  BY <1>5, HitsFacts DEF Fresh
<1>6. QED BY <1>1, <1>2, <1>3, <1>4, <1>5

(* All four patterns together leave nothing that one of them would hit,    *)
(* unless they delete: then they leave no SSN.  A mask is at most ten      *)
(* bytes longer than what it covers.                                       *)
LEMMA RedactFacts ==
  ASSUME NEW content \in Texts, NEW way \in Ways
  PROVE  /\ Done(Redact(content, way))
         /\ Free(Redact(content, way).text, Guarded(way))
         /\ Kinds(Redact(content, way).text) \subseteq Kinds(content) \cup Made(way)
         /\ way = "Mask" => Weigh(Redact(content, way).text, Excess) <= Weigh(content, Excess)
<1> DEFINE start  == [text |-> content, found |-> <<>>, count |-> 0]
           emails == RedactOne(start, "EMAIL", way)
           phones == RedactOne(emails, "PHONE", way)
           ssns   == RedactOne(phones, "SSN", way)
           cards  == RedactOne(ssns, "CREDIT_CARD", way)
<1>1. Redact(content, way) = cards
  BY DEF Redact
<1>2. Done(start) /\ start.text = content
  BY DEF Done
<1>3. /\ "EMAIL" \in EntityNames /\ "PHONE" \in EntityNames /\ "SSN" \in EntityNames
      /\ "CREDIT_CARD" \in EntityNames
  BY DEF EntityNames
<1> HIDE DEF start
<1>4. Done(emails) /\ Rid(content, emails.text, "EMAIL", way)
  BY <1>2, <1>3, RedactOneFacts
<1> HIDE DEF emails
<1>5. Done(phones) /\ Rid(emails.text, phones.text, "PHONE", way)
  BY <1>3, <1>4, RedactOneFacts
<1> HIDE DEF phones
<1>6. Done(ssns) /\ Rid(phones.text, ssns.text, "SSN", way)
  BY <1>3, <1>5, RedactOneFacts
<1> HIDE DEF ssns
<1>7. "long_number" \notin Kinds(ssns.text)
  <2>1. \A x \in ToSet(phones.text) : x.is # "long_number"
    <3>1. \A x \in ToSet(phones.text) :
            (x \in ToSet(emails.text) /\ ~Hits("PHONE", x)) \/ x.is \in Fresh("PHONE", way)
      BY <1>5 DEF Rid
    <3>2. QED BY <1>3, <3>1, FreshFacts, HitsFacts
  <2>2. \A x \in ToSet(ssns.text) : x \in ToSet(phones.text) \/ x.is \in Fresh("SSN", way)
    BY <1>6 DEF Rid
  <2>3. \A x \in ToSet(ssns.text) : x.is # "long_number"
    BY <1>3, <2>1, <2>2, FreshFacts
  <2>4. QED BY <1>6, <2>3, KindFacts DEF Done
<1>8. Done(cards) /\ Rid(ssns.text, cards.text, "CREDIT_CARD", way)
  BY <1>3, <1>6, <1>7, RedactOneFacts
<1> HIDE DEF cards
<1>9. /\ \A x \in ToSet(emails.text) :
           (x \in ToSet(content) /\ ~Hits("EMAIL", x)) \/ x.is \in Fresh("EMAIL", way)
      /\ \A x \in ToSet(phones.text) :
           (x \in ToSet(emails.text) /\ ~Hits("PHONE", x)) \/ x.is \in Fresh("PHONE", way)
      /\ \A x \in ToSet(ssns.text) :
           (x \in ToSet(phones.text) /\ ~Hits("SSN", x)) \/ x.is \in Fresh("SSN", way)
      /\ \A x \in ToSet(cards.text) :
           (x \in ToSet(ssns.text) /\ ~Hits("CREDIT_CARD", x)) \/ x.is \in Fresh("CREDIT_CARD", way)
  BY <1>4, <1>5, <1>6, <1>8 DEF Rid
<1>10. Kinds(cards.text) \subseteq Kinds(content) \cup Made(way)
  <2>1. \A x \in ToSet(cards.text) : x \in ToSet(content) \/ x.is \in Made(way)
    BY <1>3, <1>9, FreshFacts
  <2>2. Kinds(content) = {x.is : x \in ToSet(content)}
          /\ Kinds(cards.text) = {x.is : x \in ToSet(cards.text)}
    BY <1>8, KindFacts DEF Done
  <2>3. QED BY <2>1, <2>2
<1>11. ASSUME NEW x \in ToSet(cards.text), NEW e \in Guarded(way)
       PROVE  ~Hits(e, x)
  <2>1. CASE way = "Remove"
    <3>1. e = "SSN"
      BY <1>11, <2>1 DEF Guarded
    <3>2. \/ x \in ToSet(phones.text) /\ ~Hits("SSN", x)
          \/ x.is \in Fresh("SSN", "Remove") \/ x.is \in Fresh("CREDIT_CARD", "Remove")
      BY <1>9, <1>11, <2>1
    <3>3. QED BY <3>1, <3>2, FreshFacts
  <2>2. CASE way # "Remove"
    <3>1. e \in EntityNames
      BY <1>11, <2>2 DEF Guarded
    <3>2. CASE x.is \in Fresh("CREDIT_CARD", way)
      BY <2>2, <3>1, <3>2, FreshFacts
    <3>3. CASE x \in ToSet(ssns.text) /\ ~Hits("CREDIT_CARD", x)
      <4>1. CASE x.is \in Fresh("SSN", way)
        BY <2>2, <3>1, <4>1, FreshFacts
      <4>2. CASE x \in ToSet(phones.text) /\ ~Hits("SSN", x)
        <5>1. CASE x.is \in Fresh("PHONE", way)
          <6>1. \A d \in {"EMAIL", "PHONE", "SSN"} : ~Hits(d, x)
            BY <2>2, <5>1, FreshFacts
          <6>2. QED BY <3>1, <3>3, <6>1 DEF EntityNames
        <5>2. CASE x \in ToSet(emails.text) /\ ~Hits("PHONE", x)
          <6>1. CASE x.is \in Fresh("EMAIL", way)
            BY <2>2, <3>1, <6>1, FreshFacts
          <6>2. CASE ~Hits("EMAIL", x)
            BY <3>1, <3>3, <4>2, <5>2, <6>2 DEF EntityNames
          <6>3. QED BY <1>9, <5>2, <6>1, <6>2
        <5>3. QED BY <1>9, <4>2, <5>1, <5>2
      <4>3. QED BY <1>9, <3>3, <4>1, <4>2
    <3>4. QED BY <1>9, <1>11, <3>2, <3>3
  <2>3. QED BY <2>1, <2>2
<1>12. Free(cards.text, Guarded(way))
  <2>1. \A i \in DOMAIN cards.text : cards.text[i] \in ToSet(cards.text)
    BY DEF ToSet
  <2>2. QED BY <1>11, <2>1 DEF Free
<1>13. ASSUME way = "Mask"
       PROVE  Weigh(cards.text, Excess) <= Weigh(content, Excess)
  <2>1. /\ Weigh(emails.text, Excess) <= Weigh(content, Excess)
        /\ Weigh(phones.text, Excess) <= Weigh(emails.text, Excess)
        /\ Weigh(ssns.text, Excess) <= Weigh(phones.text, Excess)
        /\ Weigh(cards.text, Excess) <= Weigh(ssns.text, Excess)
    BY <1>4, <1>5, <1>6, <1>8, <1>13 DEF Rid
  <2>2. \A t \in Texts : Weigh(t, Excess) \in Int
    BY ExcessFacts, ByteLenWeighs
  <2>3. /\ Weigh(emails.text, Excess) \in Int /\ Weigh(phones.text, Excess) \in Int
        /\ Weigh(ssns.text, Excess) \in Int /\ Weigh(cards.text, Excess) \in Int
        /\ Weigh(content, Excess) \in Int
    BY <1>4, <1>5, <1>6, <1>8, <2>2 DEF Done
  <2>4. QED BY <2>1, <2>3
<1>14. QED BY <1>1, <1>8, <1>10, <1>12, <1>13

-----------------------------------------------------------------------------
(* What is kept of a text that is cut.                                     *)
LEMMA GreatestIsMax ==
  ASSUME NEW n \in Nat, NEW S \in SUBSET (0 .. n), S # {}
  PROVE  Max(S) \in S /\ \A x \in S : x <= Max(S)
<1>1. \E m \in S : \A k \in S : k <= m
  BY GreatestElement
<1>2. \E m \in S : \A k \in S : m >= k
  <2>1. S \subseteq Int
    OBVIOUS
  <2>2. QED BY <1>1, <2>1
<1>3. Max(S) \in S /\ \A k \in S : Max(S) >= k
  BY <1>2, Zenon DEF Max
<1>4. QED BY <1>3

LEMMA MaxOfTwo ==
  ASSUME NEW a \in Nat, NEW b \in Nat
  PROVE  Max({a, b}) = IF a >= b THEN a ELSE b
BY DEF Max

LEMMA CutFacts ==
  ASSUME NEW piece \in WellPieces, NEW n \in Nat
  PROVE  Cut(piece, n) \in WellPieces /\ Cut(piece, n).bytes = n
<1>1. piece.is \in PieceKinds /\ "fragment" \in PieceKinds
  BY PieceFacts DEF PieceKinds
<1>2. Piece("fragment", n) \in WellPieces
  BY <1>1, PieceFacts DEF Shortest
<1>3. ASSUME piece.is \in DOMAIN Enough, n >= Enough[piece.is]
      PROVE  Piece(piece.is, n) \in WellPieces
  <2>1. piece.is \notin DOMAIN Shortest \/ n >= Shortest[piece.is]
    BY <1>3 DEF Enough, Shortest
  <2>2. QED BY <1>1, <2>1, PieceFacts
<1>4. \A kind : Piece(kind, n).bytes = n
  BY DEF Piece
<1>5. QED BY <1>2, <1>3, <1>4 DEF Cut

LEMMA TruncateFacts ==
  ASSUME NEW content \in Texts, NEW at \in Nat, at > 0 => at < ByteLen(content)
  PROVE  Truncate(content, at) \in Texts /\ ByteLen(Truncate(content, at)) <= at
<1> DEFINE n == Len(content)
           S == {i \in 0 .. n : ByteLen(SubSeq(content, 1, i)) <= at}
           whole == Max(S)
           kept == SubSeq(content, 1, whole)
           over == at - ByteLen(kept)
           last == IF over > 0 THEN <<Cut(content[whole + 1], over)>> ELSE <<>>
<1>1. n \in Nat /\ \A i \in 1 .. n : content[i] \in WellPieces
  BY TextFacts
<1>2. /\ SubSeq(content, 1, 0) = <<>> /\ SubSeq(content, 1, n) = content
      /\ \A i \in 0 .. n : SubSeq(content, 1, i) \in Texts
  BY DEF Texts
<1>3. whole \in 0 .. n /\ ByteLen(kept) <= at
  <2>1. 0 \in S /\ S \in SUBSET (0 .. n)
    <3>1. ByteLen(SubSeq(content, 1, 0)) <= at
      <4>1. ByteLen(<<>>) = 0
        BY ByteLenFacts
      <4>2. ByteLen(SubSeq(content, 1, 0)) = 0
        BY <1>2, <4>1, Zenon
      <4>3. QED BY <4>2
    <3>2. 0 \in 0 .. n
      BY <1>1
    <3>3. QED BY <3>1, <3>2
  <2>2. Max(S) \in S
    <3> HIDE DEF S
    <3>1. QED BY <1>1, <2>1, GreatestIsMax
  <2>3. QED BY <2>2
<1>4. Truncate(content, at) = kept \o last
  BY DEF Truncate
<1> HIDE DEF whole
<1>5. kept \in Texts /\ ByteLen(kept) \in Nat
  BY <1>2, <1>3, ByteLenWeighs
<1>6. over \in Nat
  BY <1>3, <1>5
<1>7. CASE over > 0
  <2>1. at > 0 /\ at < ByteLen(content)
    BY <1>5, <1>7
  <2>2. whole # n
    <3> SUFFICES ASSUME whole = n PROVE FALSE
      OBVIOUS
    <3>1. kept = content
      BY <1>2
    <3> HIDE DEF kept
    <3>2. QED BY <1>3, <1>5, <2>1, <3>1
  <2>3. content[whole + 1] \in WellPieces
    BY <1>1, <1>3, <2>2
  <2>4. Cut(content[whole + 1], over) \in WellPieces /\ Cut(content[whole + 1], over).bytes = over
    <3> HIDE DEF over
    <3>1. QED BY <1>6, <2>3, CutFacts
  <2>5. last = <<Cut(content[whole + 1], over)>>
    BY <1>7
  <2> HIDE DEF last, kept
  <2>6. last \in Texts /\ ByteLen(last) = over
    BY <2>4, <2>5, ByteLenFacts DEF Texts
  <2>7. kept \o last \in Texts /\ ByteLen(kept \o last) = ByteLen(kept) + ByteLen(last)
    BY <1>5, <2>6, ByteLenFacts
  <2>8. QED BY <1>4, <1>5, <2>6, <2>7
<1>8. CASE ~(over > 0)
  <2>1. last = <<>>
    BY <1>8
  <2> HIDE DEF last, kept
  <2>2. kept \o last = kept
    <3>1. \A t \in Seq(WellPieces) : t \o <<>> = t
      OBVIOUS
    <3>2. QED BY <1>5, <2>1, <3>1 DEF Texts
  <2>3. QED BY <1>3, <1>4, <1>5, <2>2
<1>9. QED BY <1>7, <1>8

-----------------------------------------------------------------------------
(* Contexts and their notes.                                               *)
Keys == {"injection_patterns", "pii_detected", "pii_entity_count", "result_truncated",
         "outbound_pii_redacted", "outbound_pii_flagged", "injection_echo_detected",
         "response_classified_redacted", "response_classifier_action",
         "response_classified_flagged", "hallucination_flagged_url",
         "hallucination_confidence"}
Names  == {"ignore_previous", "role_assignment", "dan_jailbreak", "jailbreak_keyword",
           "i_will_now", "violence", "low"}
Values == Names \cup EntityNames \cup Nat \cup WellPieces \cup Seq(Names)
Notes  == Keys \X Values

Contexts ==
  [identity : {None}, notes : Seq(Notes), inputTokens : Limits, sessionTokens : Limits,
   turns : Limits]

(* What is noted under a key.                                              *)
Noted(ctx, key) == {ctx.notes[i][2] : i \in {j \in DOMAIN ctx.notes : ctx.notes[j][1] = key}}
Grown(old, new) == \A key : Noted(old, key) \subseteq Noted(new, key)
SameCounts(old, new) == old.sessionTokens = new.sessionTokens /\ old.turns = new.turns

LEMMA ContextFacts ==
  ASSUME NEW ctx \in Contexts
  PROVE  /\ ctx.notes \in Seq(Notes) /\ ctx.identity = None /\ ctx.inputTokens \in Limits
         /\ ctx.sessionTokens \in Limits /\ ctx.turns \in Limits
         /\ \A n \in Seq(Notes) : /\ [ctx EXCEPT !.notes = n] \in Contexts
                                  /\ [ctx EXCEPT !.notes = n].notes = n
                                  /\ SameCounts(ctx, [ctx EXCEPT !.notes = n])
BY DEF Contexts, SameCounts

LEMMA NotedFacts ==
  ASSUME NEW ctx \in Contexts, NEW key
  PROVE  /\ GetAnnotations(ctx, key) \in Seq(Values)
         /\ ToSet(GetAnnotations(ctx, key)) = Noted(ctx, key)
         /\ GetAnnotations(ctx, key) = <<>> <=> Noted(ctx, key) = {}
<1> DEFINE f == [note \in Notes |-> IF note[1] = key THEN <<note[2]>> ELSE <<>>]
           s == ctx.notes
           got == GetAnnotations(ctx, key)
<1>1. s \in Seq(Notes) /\ \A i \in DOMAIN s : s[i] \in Notes
  <2>1. s \in Seq(Notes)
    BY ContextFacts
  <2> HIDE DEF s
  <2>2. QED BY <2>1
<1>2. f \in [Notes -> Seq(Values)]
  <2>1. \A note \in Notes : note[2] \in Values
    BY DEF Notes
  <2>2. \A v \in Values : <<v>> \in Seq(Values)
    OBVIOUS
  <2>3. <<>> \in Seq(Values)
    OBVIOUS
  <2> DEFINE D == Seq(Values)
  <2> HIDE DEF D
  <2>4. \A note \in Notes : (IF note[1] = key THEN <<note[2]>> ELSE <<>>) \in D
    BY <2>1, <2>2, <2>3 DEF D
  <2>5. f \in [Notes -> D]
    BY <2>4
  <2>6. QED BY <2>5 DEF D
<1>3. got = FlattenSeq(Replaced(s, f))
  <2>1. Replaced(s, f) = [i \in DOMAIN s |-> IF s[i][1] = key THEN <<s[i][2]>> ELSE <<>>]
    BY <1>1 DEF Replaced
  <2>2. QED BY <2>1 DEF GetAnnotations
<1>4. \A i \in DOMAIN s : ToSet(f[s[i]]) = IF s[i][1] = key THEN {s[i][2]} ELSE {}
  <2>1. \A v : ToSet(<<v>>) = {v}
    BY DEF ToSet
  <2>2. ToSet(<<>>) = {}
    BY DEF ToSet
  <2>3. \A i \in DOMAIN s : f[s[i]] = IF s[i][1] = key THEN <<s[i][2]>> ELSE <<>>
    BY <1>1
  <2> HIDE DEF f, s
  <2>4. QED BY <2>1, <2>2, <2>3
<1>5. Noted(ctx, key) = {s[i][2] : i \in {j \in DOMAIN s : s[j][1] = key}}
  BY DEF Noted
<1> HIDE DEF f, s, got
<1>6. /\ got \in Seq(Values)
      /\ \A x : x \in ToSet(got) <=> \E i \in DOMAIN s : x \in ToSet(f[s[i]])
  BY <1>1, <1>2, <1>3, ReplacedMembers
<1>7. ToSet(got) = Noted(ctx, key)
  <2>1. \A i \in DOMAIN s : \A x : x \in ToSet(f[s[i]]) <=> s[i][1] = key /\ x = s[i][2]
    BY <1>4
  <2>2. ASSUME NEW x
        PROVE  x \in ToSet(got) <=> x \in Noted(ctx, key)
    <3>1. ASSUME x \in ToSet(got)
          PROVE  x \in Noted(ctx, key)
      <4>1. PICK i \in DOMAIN s : x \in ToSet(f[s[i]])
        BY <1>6, <3>1
      <4>2. s[i][1] = key /\ x = s[i][2]
        BY <2>1, <4>1
      <4>3. QED BY <1>5, <4>2
    <3>2. ASSUME x \in Noted(ctx, key)
          PROVE  x \in ToSet(got)
      <4>1. PICK i \in DOMAIN s : s[i][1] = key /\ x = s[i][2]
        BY <1>5, <3>2
      <4>2. x \in ToSet(f[s[i]])
        BY <2>1, <4>1
      <4>3. QED BY <1>6, <4>2
    <3>3. QED BY <3>1, <3>2
  <2>3. QED BY <2>2
<1>8. got = <<>> <=> ToSet(got) = {}
  BY <1>6, EmptyHasNone
<1>9. QED BY <1>6, <1>7, <1>8 DEF got

LEMMA MoreNotes ==
  ASSUME NEW ctx \in Contexts, NEW more \in Seq(Notes)
  PROVE  /\ ctx.notes \o more \in Seq(Notes)
         /\ Grown(ctx, [ctx EXCEPT !.notes = @ \o more])
         /\ \A i \in DOMAIN more : \A key :
              more[i][1] = key => more[i][2] \in Noted([ctx EXCEPT !.notes = @ \o more], key)
<1> DEFINE s == ctx.notes
           u == s \o more
           new == [ctx EXCEPT !.notes = u]
<1>1. s \in Seq(Notes)
  BY ContextFacts
<1> HIDE DEF s
<1>2. u \in Seq(Notes) /\ Joins(u, s, more)
  BY <1>1, ConcatJoins
<1> HIDE DEF u
<1>3. new.notes = u
  BY <1>2, ContextFacts
<1>4. /\ DOMAIN s = 1 .. Len(s) /\ DOMAIN more = 1 .. Len(more)
      /\ DOMAIN u = 1 .. Len(s) + Len(more)
      /\ Len(s) \in Nat /\ Len(more) \in Nat
      /\ \A i \in 1 .. Len(s) : u[i] = s[i]
      /\ \A i \in 1 .. Len(more) : u[Len(s) + i] = more[i]
  BY <1>1, <1>2 DEF Joins
<1> HIDE DEF new
<1>5. ASSUME NEW key, NEW v \in Noted(ctx, key)
      PROVE  v \in Noted(new, key)
  <2>1. PICK i \in DOMAIN s : s[i][1] = key /\ v = s[i][2]
    BY DEF Noted, s
  <2>2. i \in DOMAIN u /\ u[i] = s[i]
    BY <1>4, <2>1
  <2>3. QED BY <1>3, <2>1, <2>2 DEF Noted
<1>6. ASSUME NEW i \in DOMAIN more, NEW key, more[i][1] = key
      PROVE  more[i][2] \in Noted(new, key)
  <2>1. Len(s) + i \in DOMAIN u /\ u[Len(s) + i] = more[i]
    BY <1>4
  <2>2. QED BY <1>3, <1>6, <2>1 DEF Noted
<1>7. new = [ctx EXCEPT !.notes = @ \o more]
  BY DEF new, u, s
<1>8. u \in Seq(Notes) /\ Grown(ctx, new)
  BY <1>2, <1>5 DEF Grown
<1>9. QED BY <1>6, <1>7, <1>8 DEF u, s

(* Making notes forgets none.                                              *)
LEMMA AnnotateAllFacts ==
  ASSUME NEW ctx \in Contexts, NEW key \in Keys, NEW values \in Seq(Values)
  PROVE  /\ AnnotateAll(ctx, key, values) \in Contexts
         /\ Grown(ctx, AnnotateAll(ctx, key, values))
         /\ SameCounts(ctx, AnnotateAll(ctx, key, values))
         /\ ToSet(values) \subseteq Noted(AnnotateAll(ctx, key, values), key)
<1> DEFINE more == [i \in DOMAIN values |-> <<key, values[i]>>]
           new == AnnotateAll(ctx, key, values)
           n == Len(values)
<1>1. n \in Nat /\ DOMAIN values = 1 .. n /\ \A i \in 1 .. n : values[i] \in Values
  OBVIOUS
<1>2. more \in [1 .. n -> Notes] /\ DOMAIN more = 1 .. n
        /\ \A i \in 1 .. n : more[i][1] = key /\ more[i][2] = values[i]
  BY <1>1 DEF Notes
<1>3. new = [ctx EXCEPT !.notes = @ \o more]
  BY DEF AnnotateAll
<1> HIDE DEF more, n
<1>4. more \in Seq(Notes)
  BY <1>1, <1>2, FunctionIsSeq
<1>5. ctx.notes \o more \in Seq(Notes) /\ Grown(ctx, new)
        /\ \A i \in DOMAIN more : \A k : more[i][1] = k => more[i][2] \in Noted(new, k)
  BY <1>3, <1>4, MoreNotes
<1>6. new \in Contexts /\ SameCounts(ctx, new)
  BY <1>3, <1>5, ContextFacts
<1> HIDE DEF new
<1>7. ToSet(values) \subseteq Noted(new, key)
  BY <1>1, <1>2, <1>5 DEF ToSet
<1>8. QED BY <1>5, <1>6, <1>7 DEF new

LEMMA AnnotateFacts ==
  ASSUME NEW ctx \in Contexts, NEW key \in Keys, NEW value \in Values
  PROVE  /\ Annotate(ctx, key, value) \in Contexts
         /\ Grown(ctx, Annotate(ctx, key, value))
         /\ SameCounts(ctx, Annotate(ctx, key, value))
<1> DEFINE note == <<key, value>>
           more == <<note>>
           new == Annotate(ctx, key, value)
<1>1. note \in Notes
  BY DEF Notes
<1> HIDE DEF note
<1>2. more \in Seq(Notes)
  BY <1>1
<1>3. new = [ctx EXCEPT !.notes = @ \o more]
  <2>1. \A s \in Seq(Notes) : Append(s, note) = s \o <<note>>
    BY <1>1
  <2>2. Append(ctx.notes, note) = ctx.notes \o more
    BY <2>1, ContextFacts
  <2>3. QED BY <2>2 DEF Annotate, note
<1> HIDE DEF more
<1>4. ctx.notes \o more \in Seq(Notes) /\ Grown(ctx, new)
  BY <1>2, <1>3, MoreNotes
<1>5. new \in Contexts /\ SameCounts(ctx, new)
  BY <1>3, <1>4, ContextFacts
<1>6. QED BY <1>4, <1>5

LEMMA GrownFacts ==
  /\ \A ctx : Grown(ctx, ctx) /\ SameCounts(ctx, ctx)
  /\ \A a, b, c : Grown(a, b) /\ Grown(b, c) => Grown(a, c)
  /\ \A a, b, c : SameCounts(a, b) /\ SameCounts(b, c) => SameCounts(a, c)
BY DEF Grown, SameCounts

-----------------------------------------------------------------------------
(* The filters.                                                            *)
Sound(r, ctx) ==
  /\ r.ok \in BOOLEAN /\ r.text \in Texts /\ r.context \in Contexts
  /\ Grown(ctx, r.context)

LEMMA Results ==
  ASSUME NEW content, NEW ctx
  PROVE  /\ Ok(content, ctx).ok /\ ~Err(content, ctx).ok /\ Err(content, ctx).ok \in BOOLEAN
         /\ Ok(content, ctx).text = content /\ Err(content, ctx).text = content
         /\ Ok(content, ctx).context = ctx /\ Err(content, ctx).context = ctx
         /\ content \in Texts /\ ctx \in Contexts =>
              Sound(Ok(content, ctx), ctx) /\ Sound(Err(content, ctx), ctx)
BY GrownFacts DEF Ok, Err, Sound

LEMMA FoundInFacts ==
  ASSUME NEW T, NEW kinds \in Seq(T), NEW content
  PROVE  /\ FoundIn(content, kinds) \in Seq(T)
         /\ ToSet(FoundIn(content, kinds)) = ToSet(kinds) \cap Kinds(content)
         /\ FoundIn(content, kinds) = <<>> <=> ToSet(kinds) \cap Kinds(content) = {}
<1> DEFINE found == FoundIn(content, kinds)
<1>1. /\ found \in Seq(T)
      /\ \A x : x \in ToSet(found) <=> x \in ToSet(kinds) /\ x \in Kinds(content)
  BY SelectFacts DEF FoundIn
<1> HIDE DEF found
<1>2. ToSet(found) = ToSet(kinds) \cap Kinds(content)
  BY <1>1
<1>3. found = <<>> <=> ToSet(found) = {}
  BY <1>1, EmptyHasNone
<1>4. QED BY <1>1, <1>2, <1>3 DEF found

Hidden == {"control", "null"} \cup DOMAIN Concealed

LEMMA StripFacts ==
  ASSUME NEW content \in Texts
  PROVE  Pieces(content, Strip) \in Texts /\ Kinds(Pieces(content, Strip)) \cap Hidden = {}
<1> DEFINE f == [piece \in WellPieces |-> Strip(piece)]
           stripped == Pieces(content, Strip)
<1>1. ASSUME NEW piece \in WellPieces
      PROVE  Strip(piece) \in Texts /\ Kinds(Strip(piece)) \cap Hidden = {}
  <2>1. CASE piece.is \in {"control", "null"}
    <3>1. Strip(piece) = <<>>
      BY <2>1 DEF Strip, Concealed
    <3>2. QED BY <3>1, KindFacts DEF Texts
  <2>2. CASE piece.is \in DOMAIN Concealed
    <3> DEFINE bare == Piece(Concealed[piece.is], piece.bytes - 1)
    <3>1. Strip(piece) = <<bare>>
      BY <2>2 DEF Strip, Concealed
    <3>2. /\ Concealed[piece.is] \in Written /\ Concealed[piece.is] \notin Hidden
          /\ piece.bytes - 1 \in Nat /\ Least(Concealed[piece.is], piece.bytes - 1)
      BY <2>2 DEF Concealed, Hidden, Written, Least, WellPieces, Shortest
    <3>3. QED BY <3>1, <3>2, Alone
  <2>3. CASE piece.is \notin Hidden
    <3>1. Strip(piece) = <<piece>>
      BY <2>3 DEF Strip, Hidden
    <3>2. QED BY <2>3, <3>1, KindFacts DEF Texts
  <2>4. QED BY <2>1, <2>2, <2>3 DEF Hidden
<1>2. f \in [WellPieces -> Texts] /\ \A piece \in WellPieces : f[piece] = Strip(piece)
  BY <1>1
<1>3. content \in Seq(WellPieces) /\ \A i \in DOMAIN content : content[i] \in WellPieces
  BY TextFacts DEF Texts
<1>4. stripped = FlattenSeq(Replaced(content, f))
  <2>1. Replaced(content, f) = [i \in DOMAIN content |-> Strip(content[i])]
    BY <1>2, <1>3 DEF Replaced
  <2>2. QED BY <2>1 DEF Pieces
<1> HIDE DEF f, stripped
<1>5. /\ stripped \in Seq(WellPieces)
      /\ \A x : x \in ToSet(stripped) <=> \E i \in DOMAIN content : x \in ToSet(f[content[i]])
  BY <1>2, <1>3, <1>4, ReplacedMembers DEF Texts
<1>6. ASSUME NEW kind \in Kinds(stripped)
      PROVE  kind \notin Hidden
  <2>1. PICK x \in ToSet(stripped) : kind = x.is
    BY <1>5, KindFacts DEF Texts
  <2>2. PICK i \in DOMAIN content : x \in ToSet(f[content[i]])
    BY <1>5, <2>1
  <2>3. f[content[i]] \in Texts /\ Kinds(f[content[i]]) \cap Hidden = {}
    BY <1>1, <1>2, <1>3
  <2>4. kind \in Kinds(f[content[i]])
    BY <2>1, <2>2, <2>3, KindFacts
  <2>5. QED BY <2>3, <2>4
<1>7. QED BY <1>5, <1>6 DEF stripped, Texts

LEMMA SanitizerFacts ==
  ASSUME NEW filter, NEW content \in Texts, NEW ctx \in Contexts,
         IsFilter(filter), filter.name = "InputSanitization"
  PROVE  LET r == InputSanitization(filter, content, ctx)
         IN  /\ Sound(r, ctx) /\ r.context = ctx
             /\ r.ok <=> ~(filter.reject_null_bytes /\ "null" \in Kinds(content))
             /\ r.ok /\ filter.strip_control_chars => Kinds(r.text) \cap Hidden = {}
             /\ r.ok /\ filter.reject_null_bytes => "null" \notin Kinds(r.text)
<1> DEFINE r == InputSanitization(filter, content, ctx)
           stripped == Pieces(content, Strip)
<1>1. filter.strip_control_chars \in BOOLEAN /\ filter.reject_null_bytes \in BOOLEAN
  BY DEF IsFilter
<1>2. stripped \in Texts /\ Kinds(stripped) \cap Hidden = {}
  BY StripFacts
<1>3. CASE filter.reject_null_bytes /\ "null" \in Kinds(content)
  <2>1. r = Err(content, ctx)
    BY <1>3 DEF InputSanitization, Has
  <2> HIDE DEF r
  <2>2. ~r.ok /\ r.context = ctx /\ Sound(r, ctx)
    BY <2>1, Results
  <2>3. QED BY <1>3, <2>2 DEF r
<1>4. CASE ~(filter.reject_null_bytes /\ "null" \in Kinds(content)) /\ filter.strip_control_chars
  <2>1. r = Ok(stripped, ctx)
    BY <1>4 DEF InputSanitization, Has
  <2> HIDE DEF stripped, r
  <2>2. r.ok /\ r.text = stripped /\ r.context = ctx /\ Sound(r, ctx)
    BY <1>2, <2>1, Results
  <2>3. QED BY <1>2, <1>4, <2>2 DEF Hidden, r
<1>5. CASE ~(filter.reject_null_bytes /\ "null" \in Kinds(content)) /\ ~filter.strip_control_chars
  <2>1. r = Ok(content, ctx)
    BY <1>5 DEF InputSanitization, Has
  <2> HIDE DEF r
  <2>2. r.ok /\ r.text = content /\ r.context = ctx /\ Sound(r, ctx)
    BY <2>1, Results
  <2>3. QED BY <1>5, <2>2 DEF r
<1>6. QED BY <1>1, <1>3, <1>4, <1>5

LEMMA ClassifierFacts ==
  ASSUME NEW filter, NEW content \in Texts, NEW ctx \in Contexts,
         IsFilter(filter), filter.name = "ContentClassifier"
  PROVE  LET r == ContentClassifier(filter, content, ctx)
             phrases == ToSet(Injections) \cap Kinds(content)
         IN  /\ Sound(r, ctx) /\ r.text = content /\ SameCounts(ctx, r.context)
             /\ r.ok /\ filter.mode = "Flag" =>
                  phrases \subseteq Noted(r.context, "injection_patterns")
             /\ r.ok /\ filter.mode = "Block" => phrases = {}
<1> DEFINE r == ContentClassifier(filter, content, ctx)
           phrases == ToSet(Injections) \cap Kinds(content)
           matched == FoundIn(content, Injections)
           flagged == AnnotateAll(ctx, "injection_patterns", matched)
<1>1. filter.mode \in {"Log", "Flag", "Block"}
  BY DEF IsFilter
<1>2. Injections \in Seq(Names) /\ Names \subseteq Values /\ "injection_patterns" \in Keys
  BY DEF Injections, Names, Values, Keys
<1>3. matched \in Seq(Names) /\ ToSet(matched) = phrases /\ (matched = <<>> <=> phrases = {})
  BY <1>2, FoundInFacts
<1>4. r = CASE matched = <<>> \/ filter.mode = "Log" -> Ok(content, ctx)
            [] matched # <<>> /\ filter.mode = "Block" -> Err(content, ctx)
            [] matched # <<>> /\ filter.mode = "Flag"  -> Ok(content, flagged)
  BY DEF ContentClassifier
<1> HIDE DEF r, phrases, matched
<1>5. matched \in Seq(Values)
  BY <1>2, <1>3
<1>6. flagged \in Contexts /\ Grown(ctx, flagged) /\ SameCounts(ctx, flagged)
        /\ ToSet(matched) \subseteq Noted(flagged, "injection_patterns")
  BY <1>2, <1>5, AnnotateAllFacts
<1> HIDE DEF flagged
<1>7. CASE matched = <<>>
  <2>1. r = Ok(content, ctx)
    BY <1>4, <1>7
  <2>2. r.text = content /\ r.context = ctx /\ Sound(r, ctx) /\ SameCounts(ctx, ctx)
    BY <2>1, Results, GrownFacts
  <2>3. QED BY <1>3, <1>7, <2>2 DEF r, phrases
<1>8. CASE matched # <<>> /\ filter.mode = "Log"
  <2>1. r = Ok(content, ctx)
    BY <1>4, <1>8
  <2>2. r.text = content /\ r.context = ctx /\ Sound(r, ctx) /\ SameCounts(ctx, ctx)
    BY <2>1, Results, GrownFacts
  <2>3. QED BY <1>8, <2>2 DEF r, phrases
<1>9. CASE matched # <<>> /\ filter.mode = "Block"
  <2>1. r = Err(content, ctx)
    BY <1>4, <1>9
  <2>2. ~r.ok /\ r.text = content /\ r.context = ctx /\ Sound(r, ctx) /\ SameCounts(ctx, ctx)
    BY <2>1, Results, GrownFacts
  <2>3. QED BY <1>9, <2>2 DEF r, phrases
<1>10. CASE matched # <<>> /\ filter.mode = "Flag"
  <2>1. r = Ok(content, flagged)
    BY <1>4, <1>10
  <2>2. r.ok /\ r.text = content /\ r.context = flagged
    BY <2>1, Results
  <2>3. Sound(r, ctx)
    BY <1>6, <2>2 DEF Sound
  <2>4. QED BY <1>3, <1>6, <1>10, <2>2, <2>3 DEF r, phrases
<1>11. QED BY <1>1, <1>7, <1>8, <1>9, <1>10

LEMMA RedactionFacts ==
  ASSUME NEW filter, NEW content \in Texts, NEW ctx \in Contexts,
         IsFilter(filter), filter.name = "PIIRedaction"
  PROVE  LET r == PIIRedaction(filter, content, ctx)
         IN  /\ Sound(r, ctx) /\ r.ok /\ SameCounts(ctx, r.context)
             /\ Free(r.text, Guarded(filter.strategy))
             /\ Kinds(r.text) \subseteq Kinds(content) \cup Made(filter.strategy)
<1> DEFINE r == PIIRedaction(filter, content, ctx)
           done == Redact(content, filter.strategy)
           seen == AnnotateAll(ctx, "pii_detected", done.found)
           all == Annotate(seen, "pii_entity_count", done.count)
<1>1. filter.strategy \in Ways
  BY DEF IsFilter, Ways
<1>2. /\ done.text \in Texts /\ done.found \in Seq(EntityNames) /\ done.count \in Nat
      /\ Free(done.text, Guarded(filter.strategy))
      /\ Kinds(done.text) \subseteq Kinds(content) \cup Made(filter.strategy)
  BY <1>1, RedactFacts DEF Done
<1>3. r = Ok(done.text, IF done.count = 0 THEN ctx ELSE all)
  BY DEF PIIRedaction
<1> HIDE DEF r, done
<1>4. done.found \in Seq(Values) /\ done.count \in Values
        /\ "pii_detected" \in Keys /\ "pii_entity_count" \in Keys
  BY <1>2 DEF Values, Keys
<1>5. seen \in Contexts /\ Grown(ctx, seen) /\ SameCounts(ctx, seen)
  BY <1>4, AnnotateAllFacts
<1> HIDE DEF seen
<1>6. all \in Contexts /\ Grown(seen, all) /\ SameCounts(seen, all)
  BY <1>4, <1>5, AnnotateFacts
<1> HIDE DEF all
<1>7. Grown(ctx, all) /\ SameCounts(ctx, all) /\ Grown(ctx, ctx) /\ SameCounts(ctx, ctx)
  BY <1>5, <1>6, GrownFacts
<1>8. r.ok /\ r.text = done.text /\ r.context = IF done.count = 0 THEN ctx ELSE all
  BY <1>3, Results
<1>9. Sound(r, ctx) /\ SameCounts(ctx, r.context)
  BY <1>2, <1>6, <1>7, <1>8 DEF Sound
<1>10. QED BY <1>2, <1>8, <1>9 DEF r

LEMMA TopicFacts ==
  ASSUME NEW filter, NEW content \in Texts, NEW ctx \in Contexts
  PROVE  LET r == TopicGuardrail(filter, content, ctx)
         IN  Sound(r, ctx) /\ r.text = content /\ r.context = ctx
<1> DEFINE r == TopicGuardrail(filter, content, ctx)
<1>1. r = Ok(content, ctx) \/ r = Err(content, ctx)
  BY DEF TopicGuardrail
<1> HIDE DEF r
<1>2. Sound(r, ctx) /\ r.text = content /\ r.context = ctx
  BY <1>1, Results
<1>3. QED BY <1>2 DEF r

LEMMA EstimateFacts ==
  ASSUME NEW content \in Texts
  PROVE  EstimateTokens(content) \in Nat
<1>1. ByteLen(content) \in Nat
  BY ByteLenWeighs
<1>2. \A n \in Nat : (n + 3) \div 4 \in Nat
  OBVIOUS
<1>3. QED BY <1>1, <1>2 DEF EstimateTokens

LEMMA LimitFacts ==
  /\ None \notin Nat /\ Nat \subseteq Limits /\ None \in Limits
  /\ \A limit \in Limits : limit # None => limit \in Nat
  /\ \A limit \in Limits : UnwrapOr(limit, 0) \in Nat
BY PipelineAssumption DEF Limits, UnwrapOr

(* What a budget has counted of a message.                                 *)
BudgetResult(filter, r, content, ctx) ==
  LET estimated == EstimateTokens(content)
      new_total == UnwrapOr(ctx.sessionTokens, 0) + estimated
  IN  /\ r.ok => /\ filter.max_input_tokens # None => estimated <= filter.max_input_tokens
                 /\ filter.max_session_tokens # None =>
                      r.context.sessionTokens = new_total /\ new_total <= filter.max_session_tokens
      /\ filter.max_session_tokens = None => r.context.sessionTokens = ctx.sessionTokens
      /\ ~r.ok /\ filter.max_input_tokens = None =>
           /\ filter.max_session_tokens # None
           /\ r.context.sessionTokens = new_total /\ new_total > filter.max_session_tokens
      /\ r.context.sessionTokens \in {ctx.sessionTokens, new_total}

LEMMA BudgetFacts ==
  ASSUME NEW filter, NEW content \in Texts, NEW ctx \in Contexts,
         IsFilter(filter), filter.name = "TokenBudget"
  PROVE  LET r == TokenBudget(filter, content, ctx)
         IN  /\ Sound(r, ctx) /\ r.text = content /\ ctx.turns = r.context.turns
             /\ BudgetResult(filter, r, content, ctx)
<1> DEFINE estimated == EstimateTokens(content)
           counted   == [ctx EXCEPT !.inputTokens = estimated]
           new_total == UnwrapOr(ctx.sessionTokens, 0) + estimated
           total     == [counted EXCEPT !.sessionTokens = new_total]
           r         == TokenBudget(filter, content, ctx)
           input     == filter.max_input_tokens
           session   == filter.max_session_tokens
<1>1. input \in Limits /\ session \in Limits
  BY DEF IsFilter
<1>2. estimated \in Nat /\ new_total \in Nat
  <2>1. UnwrapOr(ctx.sessionTokens, 0) \in Nat
    BY ContextFacts, LimitFacts
  <2>2. QED BY <2>1, EstimateFacts
<1>3. r = IF input # None /\ estimated > input THEN Err(content, counted)
          ELSE IF session = None THEN Ok(content, counted)
          ELSE IF new_total > session THEN Err(content, total)
          ELSE Ok(content, total)
  BY DEF TokenBudget, SessionTotal
<1> HIDE DEF estimated, new_total, input, session, r
<1>4. /\ counted \in Contexts /\ counted.notes = ctx.notes /\ counted.turns = ctx.turns
      /\ counted.sessionTokens = ctx.sessionTokens
  BY <1>2, LimitFacts DEF Contexts
<1> HIDE DEF counted
<1>5. /\ total \in Contexts /\ total.notes = ctx.notes /\ total.turns = ctx.turns
      /\ total.sessionTokens = new_total
  BY <1>2, <1>4, LimitFacts DEF Contexts
<1> HIDE DEF total
<1>6. Grown(ctx, counted) /\ Grown(ctx, total)
  BY <1>4, <1>5 DEF Grown, Noted
<1>7. CASE input # None /\ estimated > input
  <2>1. r = Err(content, counted)
    BY <1>3, <1>7
  <2>2. ~r.ok /\ r.ok \in BOOLEAN /\ r.text = content /\ r.context = counted
    BY <2>1, Results
  <2>3. Sound(r, ctx)
    BY <1>4, <1>6, <2>2 DEF Sound
  <2>4. BudgetResult(filter, r, content, ctx)
    BY <1>4, <1>7, <2>2 DEF BudgetResult, input
  <2>5. QED BY <1>4, <2>2, <2>3, <2>4 DEF r
<1>8. CASE ~(input # None /\ estimated > input) /\ session = None
  <2>1. r = Ok(content, counted)
    BY <1>3, <1>8
  <2>2. r.ok /\ r.text = content /\ r.context = counted
    BY <2>1, Results
  <2>3. Sound(r, ctx)
    BY <1>4, <1>6, <2>2 DEF Sound
  <2>4. input # None => estimated <= input
    BY <1>1, <1>2, <1>8, LimitFacts
  <2>5. BudgetResult(filter, r, content, ctx)
    BY <1>4, <1>8, <2>2, <2>4 DEF BudgetResult, input, session, estimated
  <2>6. QED BY <1>4, <2>2, <2>3, <2>5 DEF r
<1>9. CASE ~(input # None /\ estimated > input) /\ session # None /\ new_total > session
  <2>1. r = Err(content, total)
    BY <1>3, <1>9
  <2>2. ~r.ok /\ r.ok \in BOOLEAN /\ r.text = content /\ r.context = total
    BY <2>1, Results
  <2>3. Sound(r, ctx)
    BY <1>5, <1>6, <2>2 DEF Sound
  <2>4. BudgetResult(filter, r, content, ctx)
    BY <1>5, <1>9, <2>2 DEF BudgetResult, session, new_total, estimated
  <2>5. QED BY <1>5, <2>2, <2>3, <2>4 DEF r
<1>10. CASE ~(input # None /\ estimated > input) /\ session # None /\ ~(new_total > session)
  <2>1. r = Ok(content, total)
    BY <1>3, <1>10
  <2>2. r.ok /\ r.text = content /\ r.context = total
    BY <2>1, Results
  <2>3. Sound(r, ctx)
    BY <1>5, <1>6, <2>2 DEF Sound
  <2>4. (input # None => estimated <= input) /\ new_total <= session
    BY <1>1, <1>2, <1>10, LimitFacts
  <2>5. BudgetResult(filter, r, content, ctx)
    BY <1>5, <1>10, <2>2, <2>4 DEF BudgetResult, input, session, new_total, estimated
  <2>6. QED BY <1>5, <2>2, <2>3, <2>5 DEF r
<1>11. QED BY <1>7, <1>8, <1>9, <1>10

BoundaryResult(filter, r, ctx) ==
  LET new_count == UnwrapOr(ctx.turns, 0) + 1
  IN  /\ filter.max_turns # None =>
           /\ r.context.turns = new_count
           /\ r.ok => new_count <= filter.max_turns
      /\ filter.max_turns = None => r.context.turns = ctx.turns
      /\ ~r.ok /\ filter.max_context_tokens = None =>
           filter.max_turns # None /\ new_count > filter.max_turns

LEMMA BoundaryFacts ==
  ASSUME NEW filter, NEW content \in Texts, NEW ctx \in Contexts,
         IsFilter(filter), filter.name = "ConversationBoundary"
  PROVE  LET r == ConversationBoundary(filter, content, ctx)
         IN  /\ Sound(r, ctx) /\ r.text = content
             /\ ctx.sessionTokens = r.context.sessionTokens
             /\ BoundaryResult(filter, r, ctx)
<1> DEFINE new_count == UnwrapOr(ctx.turns, 0) + 1
           counted   == IF filter.max_turns = None THEN ctx ELSE [ctx EXCEPT !.turns = new_count]
           r         == ConversationBoundary(filter, content, ctx)
           full      == filter.max_turns # None /\ new_count > filter.max_turns
           heavy     == filter.max_context_tokens # None
                          /\ Exceeds(ctx.sessionTokens, filter.max_context_tokens)
<1>1. filter.max_turns \in Limits /\ filter.max_context_tokens \in Limits
  BY DEF IsFilter
<1>2. new_count \in Nat
  <2>1. UnwrapOr(ctx.turns, 0) \in Nat
    BY ContextFacts, LimitFacts
  <2>2. QED BY <2>1
<1>3. r = IF full \/ heavy THEN Err(content, counted) ELSE Ok(content, counted)
  BY DEF ConversationBoundary
<1> HIDE DEF new_count, r
<1>4. [ctx EXCEPT !.turns = new_count] \in Contexts
  BY <1>2, LimitFacts DEF Contexts
<1>5. /\ counted \in Contexts /\ counted.notes = ctx.notes
      /\ counted.sessionTokens = ctx.sessionTokens
      /\ filter.max_turns = None => counted.turns = ctx.turns
      /\ filter.max_turns # None => counted.turns = new_count
  BY <1>4 DEF Contexts
<1>6. heavy => filter.max_context_tokens # None
  OBVIOUS
<1>7. full => filter.max_turns # None /\ new_count > filter.max_turns
  OBVIOUS
<1>8. ~full /\ filter.max_turns # None => new_count <= filter.max_turns
  BY <1>1, <1>2, LimitFacts
<1> HIDE DEF counted, full, heavy
<1>9. Grown(ctx, counted)
  BY <1>5 DEF Grown, Noted
<1>10. CASE full \/ heavy
  <2>1. r = Err(content, counted)
    BY <1>3, <1>10
  <2>2. ~r.ok /\ r.ok \in BOOLEAN /\ r.text = content /\ r.context = counted
    BY <2>1, Results
  <2>3. Sound(r, ctx)
    BY <1>5, <1>9, <2>2 DEF Sound
  <2>4. BoundaryResult(filter, r, ctx)
    BY <1>5, <1>6, <1>7, <1>10, <2>2 DEF BoundaryResult, new_count
  <2>5. QED BY <1>5, <2>2, <2>3, <2>4 DEF r
<1>11. CASE ~(full \/ heavy)
  <2>1. r = Ok(content, counted)
    BY <1>3, <1>11
  <2>2. r.ok /\ r.text = content /\ r.context = counted
    BY <2>1, Results
  <2>3. Sound(r, ctx)
    BY <1>5, <1>9, <2>2 DEF Sound
  <2>4. BoundaryResult(filter, r, ctx)
    BY <1>5, <1>8, <1>11, <2>2 DEF BoundaryResult, new_count
  <2>5. QED BY <1>5, <2>2, <2>3, <2>4 DEF r
<1>12. QED BY <1>10, <1>11

LEMMA ResultSizeFacts ==
  ASSUME NEW filter, NEW content \in Texts, NEW ctx \in Contexts,
         IsFilter(filter), filter.name = "ResultSizeEnforcement"
  PROVE  LET r == ResultSizeEnforcement(filter, content, ctx)
         IN  /\ Sound(r, ctx) /\ r.ok /\ SameCounts(ctx, r.context)
             /\ ByteLen(r.text) <= Max({filter.max_chars, SuffixLen})
<1> DEFINE r    == ResultSizeEnforcement(filter, content, ctx)
           cap  == filter.max_chars
           len  == ByteLen(content)
           at   == TruncateAt(cap)
           kept == Truncate(content, at)
           end  == Piece("suffix", SuffixLen)
           noted == Annotate(ctx, "result_truncated", len)
<1>1. cap \in Nat /\ len \in Nat
  BY ByteLenWeighs DEF IsFilter
<1>2. at = IF cap < 12 THEN 0 ELSE cap - 12
  BY DEF TruncateAt, SuffixLen
<1>3. Max({cap, SuffixLen}) = IF cap >= 12 THEN cap ELSE 12
  BY <1>1, MaxOfTwo DEF SuffixLen
<1>4. r = IF len <= cap THEN Ok(content, ctx) ELSE Ok(Append(kept, end), noted)
  BY DEF ResultSizeEnforcement
<1> HIDE DEF r, cap, len, at
<1>5. CASE len <= cap
  <2>1. r = Ok(content, ctx)
    BY <1>4, <1>5
  <2>2. r.ok /\ r.text = content /\ r.context = ctx /\ Sound(r, ctx) /\ SameCounts(ctx, ctx)
    BY <2>1, Results, GrownFacts
  <2>3. ByteLen(r.text) <= Max({cap, SuffixLen})
    BY <1>1, <1>3, <1>5, <2>2 DEF len
  <2>4. QED BY <2>2, <2>3 DEF r, cap
<1>6. CASE ~(len <= cap)
  <2>1. at \in Nat /\ (at > 0 => at < len)
    BY <1>1, <1>2, <1>6
  <2>2. kept \in Texts /\ ByteLen(kept) <= at
    BY <2>1, TruncateFacts DEF len
  <2>3. end \in WellPieces /\ end.bytes = 12
    BY PieceFacts DEF Piece, SuffixLen, PieceKinds, Shortest
  <2> HIDE DEF kept, end
  <2>4. <<end>> \in Texts /\ ByteLen(<<end>>) = 12
    BY <2>3, ByteLenFacts DEF Texts
  <2>5. Append(kept, end) = kept \o <<end>>
    BY <2>2, <2>3 DEF Texts
  <2>6. kept \o <<end>> \in Texts /\ ByteLen(kept \o <<end>>) = ByteLen(kept) + 12
    BY <2>2, <2>4, ByteLenFacts
  <2>7. noted \in Contexts /\ Grown(ctx, noted) /\ SameCounts(ctx, noted)
    BY <1>1, AnnotateFacts DEF Keys, Values
  <2> HIDE DEF noted
  <2>8. r.ok /\ r.text = kept \o <<end>> /\ r.context = noted
    <3> DEFINE cut == Append(kept, end)
    <3>1. r = Ok(cut, noted)
      BY <1>4, <1>6
    <3> HIDE DEF cut
    <3>2. r.ok /\ r.text = cut /\ r.context = noted
      BY <3>1, Results
    <3>3. QED BY <2>5, <3>2 DEF cut
  <2>9. Sound(r, ctx)
    BY <2>6, <2>7, <2>8 DEF Sound
  <2>10. ByteLen(r.text) <= Max({cap, SuffixLen})
    <3>1. ByteLen(kept) \in Nat
      BY <2>2, ByteLenWeighs
    <3>2. ByteLen(kept) + 12 <= IF cap >= 12 THEN cap ELSE 12
      BY <1>1, <1>2, <2>1, <2>2, <3>1
    <3>3. QED BY <1>3, <2>6, <2>8, <3>2
  <2>11. QED BY <2>7, <2>8, <2>9, <2>10 DEF r, cap
<1>7. QED BY <1>5, <1>6

LEMMA LeakFacts ==
  ASSUME NEW filter, NEW content \in Texts, NEW ctx \in Contexts,
         IsFilter(filter), filter.name = "PIILeakDetection"
  PROVE  LET r == PIILeakDetection(filter, content, ctx)
         IN  /\ Sound(r, ctx) /\ SameCounts(ctx, r.context)
             /\ Weigh(r.text, Excess) <= Weigh(content, Excess)
             /\ r.ok /\ filter.action \in {"Redact", "Block"} => Anonymous(r.text)
<1> DEFINE r     == PIILeakDetection(filter, content, ctx)
           done  == Redact(content, "Mask")
           found == {entity \in ToSet(Entities) : MatchCount(content, entity) > 0}
           seen  == Select(Entities, found)
           redacted == AnnotateAll(ctx, "outbound_pii_redacted", done.found)
           flagged  == AnnotateAll(ctx, "outbound_pii_flagged", seen)
<1>1. filter.action \in {"Redact", "Flag", "Block"}
  BY DEF IsFilter
<1>2. /\ done.text \in Texts /\ done.found \in Seq(EntityNames) /\ Anonymous(done.text)
      /\ Weigh(done.text, Excess) <= Weigh(content, Excess)
  <2>1. "Mask" \in Ways /\ Guarded("Mask") = ToSet(Entities)
    BY EntitySet DEF Ways, Guarded
  <2>2. QED BY <2>1, RedactFacts DEF Done, Anonymous
<1>3. Entities \in Seq(EntityNames) /\ ToSet(Entities) = EntityNames
  BY DEF Entities, EntityNames, ToSet
<1>4. r = CASE seen = <<>> -> Ok(content, ctx)
            [] seen # <<>> /\ filter.action = "Redact" -> Ok(done.text, redacted)
            [] seen # <<>> /\ filter.action = "Block" -> Err(content, ctx)
            [] seen # <<>> /\ filter.action = "Flag" -> Ok(content, flagged)
  BY DEF PIILeakDetection
<1> HIDE DEF r, done
<1>5. seen \in Seq(EntityNames) /\ \A e : e \in ToSet(seen) <=> e \in EntityNames /\ e \in found
  BY <1>3, SelectFacts
<1>6. seen = <<>> => Anonymous(content)
  <2> SUFFICES ASSUME seen = <<>>, NEW i \in DOMAIN content, NEW e \in EntityNames
               PROVE  ~Hits(e, content[i])
    BY <1>3 DEF Anonymous, Free
  <2>1. ToSet(seen) = {}
    BY DEF ToSet
  <2>2. ~(MatchCount(content, e) > 0)
    BY <1>3, <1>5, <2>1
  <2>3. MatchCount(content, e) = 0
    BY <2>2, MatchFacts
  <2>4. QED BY <2>3, MatchFacts
<1> HIDE DEF seen
<1>7. done.found \in Seq(Values) /\ seen \in Seq(Values)
  BY <1>2, <1>5 DEF Values
<1>8. /\ redacted \in Contexts /\ Grown(ctx, redacted) /\ SameCounts(ctx, redacted)
      /\ flagged \in Contexts /\ Grown(ctx, flagged) /\ SameCounts(ctx, flagged)
  BY <1>7, AnnotateAllFacts DEF Keys
<1> HIDE DEF redacted, flagged
<1>9. Weigh(content, Excess) <= Weigh(content, Excess)
  <2>1. Weigh(content, Excess) \in Int
    BY ExcessFacts, ByteLenWeighs
  <2>2. QED BY <2>1
<1>10. CASE seen = <<>>
  <2>1. r = Ok(content, ctx)
    BY <1>4, <1>10
  <2>2. r.ok /\ r.text = content /\ r.context = ctx /\ Sound(r, ctx) /\ SameCounts(ctx, ctx)
    BY <2>1, Results, GrownFacts
  <2>3. QED BY <1>6, <1>9, <1>10, <2>2 DEF r
<1>11. CASE seen # <<>> /\ filter.action = "Redact"
  <2>1. r = Ok(done.text, redacted)
    BY <1>4, <1>11
  <2>2. r.ok /\ r.text = done.text /\ r.context = redacted
    BY <2>1, Results
  <2>3. Sound(r, ctx)
    BY <1>2, <1>8, <2>2 DEF Sound
  <2>4. QED BY <1>2, <1>8, <2>2, <2>3 DEF r
<1>12. CASE seen # <<>> /\ filter.action = "Block"
  <2>1. r = Err(content, ctx)
    BY <1>4, <1>12
  <2>2. ~r.ok /\ r.text = content /\ r.context = ctx /\ Sound(r, ctx) /\ SameCounts(ctx, ctx)
    BY <2>1, Results, GrownFacts
  <2>3. QED BY <1>9, <2>2 DEF r
<1>13. CASE seen # <<>> /\ filter.action = "Flag"
  <2>1. r = Ok(content, flagged)
    BY <1>4, <1>13
  <2>2. r.ok /\ r.text = content /\ r.context = flagged
    BY <2>1, Results
  <2>3. Sound(r, ctx)
    BY <1>8, <2>2 DEF Sound
  <2>4. QED BY <1>8, <1>9, <1>13, <2>2, <2>3 DEF r
<1>14. QED BY <1>1, <1>10, <1>11, <1>12, <1>13

LEMMA LeavesAnonymous ==
  ASSUME NEW filter, NEW content \in Texts, NEW ctx, Anonymous(content)
  PROVE  PIILeakDetection(filter, content, ctx).text = content
<1> DEFINE r     == PIILeakDetection(filter, content, ctx)
           found == {entity \in ToSet(Entities) : MatchCount(content, entity) > 0}
           seen  == Select(Entities, found)
<1>1. Entities \in Seq(EntityNames)
  BY DEF Entities, EntityNames
<1>2. ASSUME NEW e \in ToSet(Entities)
      PROVE  ~(MatchCount(content, e) > 0)
  <2>1. {i \in DOMAIN content : Hits(e, content[i])} = {}
    BY <1>2 DEF Anonymous, Free
  <2>2. MatchCount(content, e) = 0
    BY <2>1, FS_EmptySet DEF MatchCount
  <2>3. QED BY <2>2
<1>3. found = {}
  BY <1>2
<1> HIDE DEF found
<1>4. /\ seen \in Seq(EntityNames)
      /\ \A x : x \in ToSet(seen) <=> x \in ToSet(Entities) /\ x \in found
  BY <1>1, SelectFacts
<1> HIDE DEF seen
<1>5. ToSet(seen) = {}
  BY <1>3, <1>4
<1>6. seen = <<>>
  BY <1>4, <1>5, EmptyHasNone
<1>7. r = Ok(content, ctx)
  BY <1>6 DEF PIILeakDetection, seen, found
<1> HIDE DEF r
<1>8. r.text = content
  BY <1>7 DEF Ok
<1>9. QED BY <1>8 DEF r

EchoNoted(content, before, after) ==
  Noted(before, "injection_patterns") # {} /\ ToSet(EchoIndicators) \cap Kinds(content) # {}
    => Noted(after, "injection_echo_detected") # {}

LEMMA EchoFacts ==
  ASSUME NEW filter, NEW content \in Texts, NEW ctx \in Contexts,
         IsFilter(filter), filter.name = "InjectionEcho"
  PROVE  LET r == InjectionEcho(filter, content, ctx)
         IN  /\ Sound(r, ctx) /\ r.text = content /\ SameCounts(ctx, r.context)
             /\ r.ok /\ filter.action = "Flag" => EchoNoted(content, ctx, r.context)
<1> DEFINE r       == InjectionEcho(filter, content, ctx)
           flagged == GetAnnotations(ctx, "injection_patterns")
           found   == FoundIn(content, EchoIndicators)
           role    == {name \in {"role_assignment"} : Has(content, "names_role")}
           named   == Select(flagged, role)
           matched == found \o named
           noted   == AnnotateAll(ctx, "injection_echo_detected", matched)
<1>1. filter.action \in {"Log", "Flag", "Block"}
  BY DEF IsFilter
<1>2. flagged \in Seq(Values) /\ (flagged = <<>> <=> Noted(ctx, "injection_patterns") = {})
  BY NotedFacts
<1>3. EchoIndicators \in Seq(Values)
  BY DEF EchoIndicators, Names, Values
<1>4. /\ found \in Seq(Values)
      /\ found = <<>> <=> ToSet(EchoIndicators) \cap Kinds(content) = {}
      /\ ToSet(found) = ToSet(EchoIndicators) \cap Kinds(content)
  BY <1>3, FoundInFacts
<1>5. r = CASE flagged = <<>> \/ matched = <<>> \/ filter.action = "Log" -> Ok(content, ctx)
            [] flagged # <<>> /\ matched # <<>> /\ filter.action = "Block" -> Err(content, ctx)
            [] flagged # <<>> /\ matched # <<>> /\ filter.action = "Flag"  -> Ok(content, noted)
  BY DEF InjectionEcho
<1> HIDE DEF r, flagged, found, role
<1>6. named \in Seq(Values)
  BY <1>2, SelectFacts
<1> HIDE DEF named
<1>7. matched \in Seq(Values) /\ ToSet(matched) = ToSet(found) \cup ToSet(named)
  BY <1>4, <1>6, ConcatFacts, ConcatMembers
<1>8. matched = <<>> <=> ToSet(matched) = {}
  BY <1>7, EmptyHasNone
<1> HIDE DEF matched
<1>9. noted \in Contexts /\ Grown(ctx, noted) /\ SameCounts(ctx, noted)
        /\ ToSet(matched) \subseteq Noted(noted, "injection_echo_detected")
  BY <1>7, AnnotateAllFacts DEF Keys
<1> HIDE DEF noted
<1>10. CASE flagged = <<>> \/ matched = <<>> \/ filter.action = "Log"
  <2>1. r = Ok(content, ctx)
    BY <1>5, <1>10
  <2>2. r.text = content /\ r.context = ctx /\ Sound(r, ctx) /\ SameCounts(ctx, ctx)
    BY <2>1, Results, GrownFacts
  <2>3. filter.action = "Flag" => EchoNoted(content, ctx, r.context)
    BY <1>2, <1>4, <1>7, <1>8, <1>10 DEF EchoNoted
  <2>4. QED BY <2>2, <2>3 DEF r
<1>11. CASE flagged # <<>> /\ matched # <<>> /\ filter.action = "Block"
  <2>1. r = Err(content, ctx)
    BY <1>5, <1>11
  <2>2. ~r.ok /\ r.text = content /\ r.context = ctx /\ Sound(r, ctx) /\ SameCounts(ctx, ctx)
    BY <2>1, Results, GrownFacts
  <2>3. QED BY <2>2 DEF r
<1>12. CASE flagged # <<>> /\ matched # <<>> /\ filter.action = "Flag"
  <2>1. r = Ok(content, noted)
    BY <1>5, <1>12
  <2>2. r.text = content /\ r.context = noted /\ r.ok
    BY <2>1, Results
  <2>3. Sound(r, ctx)
    BY <1>9, <2>2 DEF Sound
  <2>4. EchoNoted(content, ctx, r.context)
    BY <1>8, <1>9, <1>12, <2>2 DEF EchoNoted
  <2>5. QED BY <1>9, <2>2, <2>3, <2>4 DEF r
<1>13. QED BY <1>1, <1>10, <1>11, <1>12

Notice == <<Piece("notice", 56)>>

LEMMA NoticeFacts ==
  Notice \in Texts /\ Kinds(Notice) = {"notice"} /\ Anonymous(Notice)
<1> DEFINE piece == Piece("notice", 56)
<1>1. "notice" \in PieceKinds /\ "notice" \notin DOMAIN Shortest
  BY DEF PieceKinds, Shortest
<1>2. piece \in WellPieces
  BY <1>1, PieceFacts
<1>3. piece.is = "notice"
  BY DEF Piece
<1> HIDE DEF piece
<1>4. <<piece>> \in Texts /\ Kinds(<<piece>>) = {"notice"}
  BY <1>2, <1>3, KindFacts DEF Texts
<1>5. \A e \in EntityNames : ~Hits(e, piece)
  BY <1>3, HitsFacts DEF EntityNames
<1>6. Anonymous(<<piece>>)
  BY <1>5, EntitySet DEF Anonymous, Free
<1>7. QED BY <1>4, <1>6 DEF Notice, piece

LEMMA ResponseFacts ==
  ASSUME NEW filter, NEW content \in Texts, NEW ctx \in Contexts,
         IsFilter(filter), filter.name = "ResponseClassifier"
  PROVE  LET r == ResponseClassifier(filter, content, ctx)
         IN  /\ Sound(r, ctx) /\ SameCounts(ctx, r.context)
             /\ r.text = content \/ r.text = Notice
<1> DEFINE r        == ResponseClassifier(filter, content, ctx)
           harms    == <<"violence">>
           names    == FoundIn(content, harms)
           redacted == AnnotateAll(ctx, "response_classified_redacted", names)
           both     == Annotate(redacted, "response_classifier_action", names)
           flagged  == AnnotateAll(ctx, "response_classified_flagged", names)
<1>1. filter.action \in {"Redact", "Flag", "Block"}
  BY DEF IsFilter
<1>2. harms \in Seq(Names)
  BY DEF Names
<1>3. r = CASE names = <<>> -> Ok(content, ctx)
            [] names # <<>> /\ filter.action = "Block" -> Err(content, ctx)
            [] names # <<>> /\ filter.action = "Redact" -> Ok(Notice, both)
            [] names # <<>> /\ filter.action = "Flag" -> Ok(content, flagged)
  BY DEF ResponseClassifier, Notice
<1> HIDE DEF r, harms
<1>4. names \in Seq(Names)
  BY <1>2, FoundInFacts
<1> HIDE DEF names
<1>5. names \in Seq(Values) /\ names \in Values
  BY <1>4 DEF Values
<1>6. /\ "response_classified_redacted" \in Keys /\ "response_classifier_action" \in Keys
      /\ "response_classified_flagged" \in Keys
  BY DEF Keys
<1>7. /\ redacted \in Contexts /\ Grown(ctx, redacted) /\ SameCounts(ctx, redacted)
      /\ flagged \in Contexts /\ Grown(ctx, flagged) /\ SameCounts(ctx, flagged)
  BY <1>5, <1>6, AnnotateAllFacts
<1> HIDE DEF redacted, flagged
<1>8. both \in Contexts /\ Grown(redacted, both) /\ SameCounts(redacted, both)
  BY <1>5, <1>6, <1>7, AnnotateFacts
<1> HIDE DEF both
<1>9. Grown(ctx, both) /\ SameCounts(ctx, both)
  BY <1>7, <1>8, GrownFacts
<1>10. \/ r = Ok(content, ctx) \/ r = Err(content, ctx)
       \/ r = Ok(Notice, both) \/ r = Ok(content, flagged)
  BY <1>1, <1>3
<1>11. CASE r = Ok(content, ctx) \/ r = Err(content, ctx)
  <2>1. r.text = content /\ r.context = ctx /\ Sound(r, ctx) /\ SameCounts(ctx, ctx)
    BY <1>11, Results, GrownFacts
  <2>2. QED BY <2>1 DEF r
<1>12. CASE r = Ok(Notice, both)
  <2>1. r.ok /\ r.text = Notice /\ r.context = both
    BY <1>12, Results
  <2>2. Sound(r, ctx)
    BY <1>8, <1>9, <2>1, NoticeFacts DEF Sound
  <2>3. QED BY <1>9, <2>1, <2>2 DEF r
<1>13. CASE r = Ok(content, flagged)
  <2>1. r.ok /\ r.text = content /\ r.context = flagged
    BY <1>13, Results
  <2>2. Sound(r, ctx)
    BY <1>7, <2>1 DEF Sound
  <2>3. QED BY <1>7, <2>1, <2>2 DEF r
<1>14. QED BY <1>10, <1>11, <1>12, <1>13

LEMMA HallucinationFacts ==
  ASSUME NEW filter, NEW content \in Texts, NEW ctx \in Contexts
  PROVE  LET r == HallucinationFlag(filter, content, ctx)
         IN  Sound(r, ctx) /\ SameCounts(ctx, r.context) /\ r.text = content
<1> DEFINE r     == HallucinationFlag(filter, content, ctx)
           known == ToSet(GetAnnotations(ctx, "known_urls"))
           news  == {piece \in ToSet(content) : piece.is = "url"} \ known
           urls  == Select(content, news)
           noted == AnnotateAll(ctx, "hallucination_flagged_url", urls)
           both  == Annotate(noted, "hallucination_confidence", "low")
<1>1. r = Ok(content, IF urls = <<>> THEN ctx ELSE both)
  BY DEF HallucinationFlag
<1> HIDE DEF r, news
<1>2. urls \in Seq(WellPieces)
  BY SelectFacts DEF Texts
<1> HIDE DEF urls
<1>3. urls \in Seq(Values) /\ "low" \in Values
  BY <1>2 DEF Values, Names
<1>4. "hallucination_flagged_url" \in Keys /\ "hallucination_confidence" \in Keys
  BY DEF Keys
<1>5. noted \in Contexts /\ Grown(ctx, noted) /\ SameCounts(ctx, noted)
  BY <1>3, <1>4, AnnotateAllFacts
<1> HIDE DEF noted
<1>6. both \in Contexts /\ Grown(noted, both) /\ SameCounts(noted, both)
  BY <1>3, <1>4, <1>5, AnnotateFacts
<1> HIDE DEF both
<1>7. Grown(ctx, both) /\ SameCounts(ctx, both) /\ Grown(ctx, ctx) /\ SameCounts(ctx, ctx)
  BY <1>5, <1>6, GrownFacts
<1>8. r.ok /\ r.text = content /\ r.context = IF urls = <<>> THEN ctx ELSE both
  BY <1>1, Results
<1>9. Sound(r, ctx) /\ SameCounts(ctx, r.context)
  BY <1>6, <1>7, <1>8 DEF Sound
<1>10. QED BY <1>8, <1>9 DEF r

(* What a text that a filter has let pass is, until it leaves the chain.   *)
(* noticed: whether the request's messages were flagged as injections;     *)
(* shown: the phrases that the chain's redaction may reveal.               *)
Sanitary(filter, content) ==
  /\ filter.strip_control_chars => Kinds(content) \cap Hidden = {}
  /\ filter.reject_null_bytes => "null" \notin Kinds(content)
Classified(filter, content, ctx, shown) ==
  LET phrases == (ToSet(Injections) \cap Kinds(content)) \ shown
  IN  /\ filter.mode = "Flag" => phrases \subseteq Noted(ctx, "injection_patterns")
      /\ filter.mode = "Block" => phrases = {}
Affordable(filter, content) ==
  filter.max_input_tokens # None => EstimateTokens(content) <= filter.max_input_tokens
Bounded(filter, content) ==
  content = Notice \/ Weigh(content, Excess) <= Max({filter.max_chars, SuffixLen})
Discreet(filter, content) ==
  filter.action \in {"Redact", "Block"} => Anonymous(content)
Echoed(filter, content, ctx, noticed) ==
  filter.action = "Flag" /\ noticed /\ ToSet(EchoIndicators) \cap Kinds(content) # {}
    => Noted(ctx, "injection_echo_detected") # {}

Passed(filter, content, ctx, noticed, shown) ==
  /\ filter.name = "InputSanitization" => Sanitary(filter, content)
  /\ filter.name = "ContentClassifier" => Classified(filter, content, ctx, shown)
  /\ filter.name = "PIIRedaction" => Free(content, Guarded(filter.strategy))
  /\ filter.name = "TokenBudget" => Affordable(filter, content)
  /\ filter.name = "ResultSizeEnforcement" => Bounded(filter, content)
  /\ filter.name = "PIILeakDetection" => Discreet(filter, content)
  /\ filter.name = "InjectionEcho" => Echoed(filter, content, ctx, noticed)

LEMMA RankFacts ==
  /\ DOMAIN Rank = {"InputSanitization", "ContentClassifier", "PIIRedaction", "TopicGuardrail",
                    "TokenBudget", "ConversationBoundary", "ResultSizeEnforcement",
                    "PIILeakDetection", "InjectionEcho", "ResponseClassifier",
                    "HallucinationFlag"}
  /\ Rank["InputSanitization"] = 1 /\ Rank["ContentClassifier"] = 2
  /\ Rank["PIIRedaction"] = 3 /\ Rank["TopicGuardrail"] = 4
  /\ Rank["TokenBudget"] = 5 /\ Rank["ConversationBoundary"] = 6
  /\ Rank["ResultSizeEnforcement"] = 7 /\ Rank["PIILeakDetection"] = 8
  /\ Rank["InjectionEcho"] = 9 /\ Rank["ResponseClassifier"] = 10
  /\ Rank["HallucinationFlag"] = 11
  /\ \A name \in DOMAIN Rank : Rank[name] \in Nat
BY DEF Rank

(* What each filter does to the text and to the counts.                    *)
Reads == {"ContentClassifier", "TopicGuardrail", "TokenBudget", "ConversationBoundary",
          "InjectionEcho", "HallucinationFlag"}
Effect(filter, r, content, ctx) ==
  /\ filter.name \in Reads => r.text = content
  /\ filter.name = "InputSanitization" => (r.ok => Sanitary(filter, r.text))
  /\ filter.name = "ContentClassifier" => (r.ok => Classified(filter, content, r.context, {}))
  /\ filter.name = "PIIRedaction" =>
       /\ Free(r.text, Guarded(filter.strategy))
       /\ Kinds(r.text) \subseteq Kinds(content) \cup Made(filter.strategy)
  /\ filter.name = "TokenBudget" => BudgetResult(filter, r, content, ctx)
  /\ filter.name = "ResultSizeEnforcement" => Bounded(filter, r.text)
  /\ filter.name = "PIILeakDetection" =>
       /\ Weigh(r.text, Excess) <= Weigh(content, Excess)
       /\ Anonymous(content) => r.text = content
       /\ r.ok => Discreet(filter, r.text)
  /\ filter.name = "InjectionEcho" =>
       (r.ok /\ filter.action = "Flag" => EchoNoted(content, ctx, r.context))
  /\ filter.name = "ResponseClassifier" => r.text = content \/ r.text = Notice

Counts(filter, r, ctx) ==
  /\ filter.name # "TokenBudget" => r.context.sessionTokens = ctx.sessionTokens
  /\ filter.name # "ConversationBoundary" => r.context.turns = ctx.turns
  /\ filter.name = "ConversationBoundary" => BoundaryResult(filter, r, ctx)

LEMMA ApplyFacts ==
  ASSUME NEW filter, NEW content \in Texts, NEW ctx \in Contexts, IsFilter(filter)
  PROVE  LET r == Apply(filter, content, ctx)
         IN  Sound(r, ctx) /\ Effect(filter, r, content, ctx) /\ Counts(filter, r, ctx)
<1> SUFFICES ASSUME NEW r, r = Apply(filter, content, ctx)
             PROVE  Sound(r, ctx) /\ Effect(filter, r, content, ctx) /\ Counts(filter, r, ctx)
  OBVIOUS
<1>1. filter.name \in DOMAIN Rank
  BY DEF IsFilter
<1>2. CASE filter.name = "InputSanitization"
  <2>1. r = InputSanitization(filter, content, ctx)
    BY <1>2 DEF Apply
  <2>2. Sound(r, ctx) /\ r.context = ctx /\ (r.ok => Sanitary(filter, r.text))
    BY <1>2, <2>1, SanitizerFacts DEF Sanitary
  <2>3. QED BY <1>2, <2>2 DEF Effect, Reads, Counts
<1>3. CASE filter.name = "ContentClassifier"
  <2>1. r = ContentClassifier(filter, content, ctx)
    BY <1>3 DEF Apply
  <2>2. /\ Sound(r, ctx) /\ r.text = content /\ SameCounts(ctx, r.context)
        /\ r.ok => Classified(filter, content, r.context, {})
    BY <1>3, <2>1, ClassifierFacts DEF Classified
  <2>3. QED BY <1>3, <2>2 DEF Effect, Reads, Counts, SameCounts
<1>4. CASE filter.name = "PIIRedaction"
  <2>1. r = PIIRedaction(filter, content, ctx)
    BY <1>4 DEF Apply
  <2>2. /\ Sound(r, ctx) /\ SameCounts(ctx, r.context)
        /\ Free(r.text, Guarded(filter.strategy))
        /\ Kinds(r.text) \subseteq Kinds(content) \cup Made(filter.strategy)
    BY <1>4, <2>1, RedactionFacts
  <2>3. QED BY <1>4, <2>2 DEF Effect, Reads, Counts, SameCounts
<1>5. CASE filter.name = "TopicGuardrail"
  <2>1. r = TopicGuardrail(filter, content, ctx)
    BY <1>5 DEF Apply
  <2>2. Sound(r, ctx) /\ r.text = content /\ r.context = ctx
    BY <2>1, TopicFacts
  <2>3. QED BY <1>5, <2>2 DEF Effect, Reads, Counts
<1>6. CASE filter.name = "TokenBudget"
  <2>1. r = TokenBudget(filter, content, ctx)
    BY <1>6 DEF Apply
  <2>2. /\ Sound(r, ctx) /\ r.text = content /\ ctx.turns = r.context.turns
        /\ BudgetResult(filter, r, content, ctx)
    BY <1>6, <2>1, BudgetFacts
  <2>3. QED BY <1>6, <2>2 DEF Effect, Reads, Counts
<1>7. CASE filter.name = "ConversationBoundary"
  <2>1. r = ConversationBoundary(filter, content, ctx)
    BY <1>7 DEF Apply
  <2>2. /\ Sound(r, ctx) /\ r.text = content /\ ctx.sessionTokens = r.context.sessionTokens
        /\ BoundaryResult(filter, r, ctx)
    BY <1>7, <2>1, BoundaryFacts
  <2>3. QED BY <1>7, <2>2 DEF Effect, Reads, Counts
<1>8. CASE filter.name = "ResultSizeEnforcement"
  <2>1. r = ResultSizeEnforcement(filter, content, ctx)
    BY <1>8 DEF Apply
  <2>2. /\ Sound(r, ctx) /\ r.ok /\ SameCounts(ctx, r.context)
        /\ ByteLen(r.text) <= Max({filter.max_chars, SuffixLen})
    BY <1>8, <2>1, ResultSizeFacts
  <2>3. Max({filter.max_chars, SuffixLen}) \in Int
    <3>1. filter.max_chars \in Nat /\ SuffixLen \in Nat
      BY <1>8 DEF IsFilter, SuffixLen
    <3>2. QED BY <3>1, MaxOfTwo
  <2>4. /\ ByteLen(r.text) \in Nat /\ Masks(r.text) \in Nat
        /\ Weigh(r.text, Excess) = ByteLen(r.text) - 10 * Masks(r.text)
    BY <2>2, ExcessFacts, ByteLenWeighs DEF Sound
  <2>5. Bounded(filter, r.text)
    BY <2>2, <2>3, <2>4 DEF Bounded
  <2>6. QED BY <1>8, <2>2, <2>5 DEF Effect, Reads, Counts, SameCounts
<1>9. CASE filter.name = "PIILeakDetection"
  <2>1. r = PIILeakDetection(filter, content, ctx)
    BY <1>9 DEF Apply
  <2>2. /\ Sound(r, ctx) /\ SameCounts(ctx, r.context)
        /\ Weigh(r.text, Excess) <= Weigh(content, Excess)
        /\ r.ok => Discreet(filter, r.text)
    BY <1>9, <2>1, LeakFacts DEF Discreet
  <2>3. Anonymous(content) => r.text = content
    BY <2>1, LeavesAnonymous
  <2>4. QED BY <1>9, <2>2, <2>3 DEF Effect, Reads, Counts, SameCounts
<1>10. CASE filter.name = "InjectionEcho"
  <2>1. r = InjectionEcho(filter, content, ctx)
    BY <1>10 DEF Apply
  <2>2. /\ Sound(r, ctx) /\ r.text = content /\ SameCounts(ctx, r.context)
        /\ r.ok /\ filter.action = "Flag" => EchoNoted(content, ctx, r.context)
    BY <1>10, <2>1, EchoFacts
  <2>3. QED BY <1>10, <2>2 DEF Effect, Reads, Counts, SameCounts
<1>11. CASE filter.name = "ResponseClassifier"
  <2>1. r = ResponseClassifier(filter, content, ctx)
    BY <1>11 DEF Apply
  <2>2. /\ Sound(r, ctx) /\ SameCounts(ctx, r.context)
        /\ r.text = content \/ r.text = Notice
    BY <1>11, <2>1, ResponseFacts
  <2>3. QED BY <1>11, <2>2 DEF Effect, Reads, Counts, SameCounts
<1>12. CASE filter.name = "HallucinationFlag"
  <2>1. r = HallucinationFlag(filter, content, ctx)
    BY <1>12 DEF Apply
  <2>2. Sound(r, ctx) /\ SameCounts(ctx, r.context) /\ r.text = content
    BY <2>1, HallucinationFacts
  <2>3. QED BY <1>12, <2>2 DEF Effect, Reads, Counts, SameCounts
<1>13. QED BY <1>1, <1>2, <1>3, <1>4, <1>5, <1>6, <1>7, <1>8, <1>9, <1>10, <1>11, <1>12, RankFacts

(* A filter that has let a text pass has done its part of it.              *)
LEMMA PassesThere ==
  ASSUME NEW filter, NEW content \in Texts, NEW ctx \in Contexts, IsFilter(filter),
         NEW noticed, noticed => Noted(ctx, "injection_patterns") # {}, NEW shown,
         NEW r, r = Apply(filter, content, ctx), r.ok
  PROVE  Passed(filter, r.text, r.context, noticed, shown)
<1>1. Sound(r, ctx) /\ Effect(filter, r, content, ctx)
  BY ApplyFacts
<1>2. filter.name = "TokenBudget" => Affordable(filter, r.text)
  <2> SUFFICES ASSUME filter.name = "TokenBudget" PROVE Affordable(filter, r.text)
    OBVIOUS
  <2>1. r.text = content /\ BudgetResult(filter, r, content, ctx)
    BY <1>1 DEF Effect, Reads
  <2>2. QED BY <2>1 DEF BudgetResult, Affordable
<1>3. filter.name = "InjectionEcho" => Echoed(filter, r.text, r.context, noticed)
  <2> SUFFICES ASSUME filter.name = "InjectionEcho", filter.action = "Flag", noticed,
                      ToSet(EchoIndicators) \cap Kinds(r.text) # {}
               PROVE  Noted(r.context, "injection_echo_detected") # {}
    BY DEF Echoed
  <2>1. r.text = content /\ EchoNoted(content, ctx, r.context)
    BY <1>1 DEF Effect, Reads
  <2>2. QED BY <2>1 DEF EchoNoted
<1>4. filter.name = "ContentClassifier" => Classified(filter, r.text, r.context, shown)
  BY <1>1 DEF Effect, Reads, Classified
<1>5. QED BY <1>1, <1>2, <1>3, <1>4 DEF Effect, Passed

(* What has been noted since makes no difference to it.                    *)
LEMMA PassedGrows ==
  ASSUME NEW filter, NEW content, NEW noticed, NEW shown, NEW old, NEW new, Grown(old, new),
         Passed(filter, content, old, noticed, shown)
  PROVE  Passed(filter, content, new, noticed, shown)
<1>1. Classified(filter, content, old, shown) => Classified(filter, content, new, shown)
  BY DEF Grown, Classified
<1>2. Echoed(filter, content, old, noticed) => Echoed(filter, content, new, noticed)
  BY DEF Grown, Echoed
<1>3. QED BY <1>1, <1>2 DEF Passed

(* Nor do the texts of the filters that come later in the chain.           *)
LEMMA PassedStays ==
  ASSUME NEW earlier, IsFilter(earlier), NEW filter, IsFilter(filter),
         Rank[earlier.name] < Rank[filter.name],
         Rank[earlier.name] <= 6 <=> Rank[filter.name] <= 6,
         NEW content \in Texts, NEW ctx \in Contexts, NEW noticed,
         NEW shown, filter.name = "PIIRedaction" => Reveals(filter.strategy) \subseteq shown,
         NEW r, r = Apply(filter, content, ctx),
         Passed(earlier, content, ctx, noticed, shown)
  PROVE  Passed(earlier, r.text, r.context, noticed, shown)
<1>1. Sound(r, ctx) /\ Effect(filter, r, content, ctx)
  BY ApplyFacts
<1>2. Passed(earlier, content, r.context, noticed, shown)
  BY <1>1, PassedGrows DEF Sound
<1>3. filter.name \in DOMAIN Rank /\ earlier.name \in DOMAIN Rank
  BY DEF IsFilter
<1>4. CASE r.text = content
  BY <1>2, <1>4
<1>5. CASE filter.name = "PIIRedaction"
  <2>1. /\ Kinds(r.text) \subseteq Kinds(content) \cup Made(filter.strategy)
        /\ Made(filter.strategy) \subseteq Written
        /\ Made(filter.strategy) \cap ToSet(Injections) \subseteq shown
    <3>1. filter.strategy \in Ways
      BY <1>5 DEF IsFilter, Ways
    <3>2. QED BY <1>1, <1>5, <3>1, MadeFacts DEF Effect
  <2>2. earlier.name \in {"InputSanitization", "ContentClassifier"}
    BY <1>3, <1>5, RankFacts
  <2>3. Sanitary(earlier, content) => Sanitary(earlier, r.text)
    <3>1. Written \cap Hidden = {} /\ "null" \in Hidden
      BY DEF Written, Hidden, Concealed
    <3>2. QED BY <2>1, <3>1 DEF Sanitary
  <2>4. Classified(earlier, content, r.context, shown)
          => Classified(earlier, r.text, r.context, shown)
    BY <2>1 DEF Classified
  <2>5. QED BY <1>2, <2>2, <2>3, <2>4 DEF Passed
<1>6. CASE filter.name = "PIILeakDetection" /\ r.text # content
  <2>1. /\ Weigh(r.text, Excess) <= Weigh(content, Excess)
        /\ Anonymous(content) => r.text = content
    BY <1>1, <1>6 DEF Effect
  <2>2. ~Anonymous(content) /\ content # Notice
    BY <1>6, <2>1, NoticeFacts
  <2>3. earlier.name = "ResultSizeEnforcement" => Bounded(earlier, r.text)
    <3> SUFFICES ASSUME earlier.name = "ResultSizeEnforcement" PROVE Bounded(earlier, r.text)
      OBVIOUS
    <3>1. Weigh(content, Excess) <= Max({earlier.max_chars, SuffixLen})
      BY <1>2, <2>2 DEF Passed, Bounded
    <3>2. Max({earlier.max_chars, SuffixLen}) \in Int
      <4>1. earlier.max_chars \in Nat /\ SuffixLen \in Nat
        BY DEF IsFilter, SuffixLen
      <4>2. QED BY <4>1, MaxOfTwo
    <3>3. Weigh(content, Excess) \in Int /\ Weigh(r.text, Excess) \in Int
      BY <1>1, ExcessFacts, ByteLenWeighs DEF Sound
    <3>4. QED BY <2>1, <3>1, <3>2, <3>3 DEF Bounded
  <2>4. earlier.name = "ResultSizeEnforcement"
    BY <1>3, <1>6, RankFacts
  <2>5. QED BY <1>2, <2>3, <2>4 DEF Passed
<1>7. CASE filter.name = "ResponseClassifier" /\ r.text # content
  <2>1. r.text = Notice /\ Anonymous(r.text) /\ Kinds(r.text) = {"notice"}
    BY <1>1, <1>7, NoticeFacts DEF Effect
  <2>2. earlier.name \in {"ResultSizeEnforcement", "PIILeakDetection", "InjectionEcho"}
    BY <1>3, <1>7, RankFacts
  <2>3. Bounded(earlier, r.text) /\ Discreet(earlier, r.text)
    BY <2>1 DEF Bounded, Discreet
  <2>4. ToSet(EchoIndicators) \cap Kinds(r.text) = {}
    BY <2>1 DEF EchoIndicators, ToSet
  <2>5. Echoed(earlier, r.text, r.context, noticed)
    BY <2>4 DEF Echoed
  <2>6. QED BY <2>2, <2>3, <2>5 DEF Passed
<1>8. filter.name \notin {"InputSanitization", "ResultSizeEnforcement"}
  BY <1>3, RankFacts
<1>9. filter.name \in Reads => r.text = content
  BY <1>1 DEF Effect
<1>10. QED BY <1>3, <1>4, <1>5, <1>6, <1>7, <1>8, <1>9, RankFacts DEF Reads

-----------------------------------------------------------------------------
(* The chains.  A section of one holds filters of ranks lo to hi in order. *)
Section(filters, lo, hi) ==
  /\ filters \in Seq(ToSet(filters)) /\ InOrder(filters)
  /\ \A i \in DOMAIN filters :
       IsFilter(filters[i]) /\ Rank[filters[i].name] >= lo /\ Rank[filters[i].name] <= hi

LEMMA SectionFacts ==
  ASSUME NEW filters, NEW lo, NEW hi, Section(filters, lo, hi)
  PROVE  /\ Len(filters) \in Nat /\ DOMAIN filters = 1 .. Len(filters)
         /\ \A i \in DOMAIN filters : Rank[filters[i].name] \in Nat
<1>1. Len(filters) \in Nat /\ DOMAIN filters = 1 .. Len(filters)
  BY DEF Section
<1>2. \A i \in DOMAIN filters : Rank[filters[i].name] \in Nat
  BY RankFacts DEF Section, IsFilter
<1>3. QED BY <1>1, <1>2

LEMMA SectionWhen ==
  ASSUME NEW filter, IsFilter(filter), NEW n \in Nat, Rank[filter.name] = n, NEW enabled
  PROVE  Section(When(enabled, filter), n, n)
<1> DEFINE s == When(enabled, filter)
<1>1. CASE enabled
  <2>1. s = <<filter>>
    BY <1>1 DEF When
  <2>2. ToSet(<<filter>>) = {filter}
    BY DEF ToSet
  <2>3. <<filter>> \in Seq({filter}) /\ InOrder(<<filter>>)
    BY DEF InOrder
  <2>4. QED BY <2>1, <2>2, <2>3 DEF Section
<1>2. CASE ~enabled
  <2>1. s = <<>>
    BY <1>2 DEF When
  <2>2. <<>> \in Seq(ToSet(<<>>)) /\ InOrder(<<>>)
    BY DEF InOrder
  <2>3. QED BY <2>1, <2>2 DEF Section
<1>3. QED BY <1>1, <1>2

LEMMA SectionConcat ==
  ASSUME NEW lo \in Nat, NEW mid \in Nat, NEW next \in Nat, NEW hi \in Nat,
         lo <= mid, mid < next, next <= hi,
         NEW s, Section(s, lo, mid), NEW t, Section(t, next, hi)
  PROVE  Section(s \o t, lo, hi)
<1> DEFINE T == ToSet(s) \cup ToSet(t)
           u == s \o t
<1>1. s \in Seq(T) /\ t \in Seq(T)
  <2>1. /\ s \in Seq(ToSet(s)) /\ t \in Seq(ToSet(t))
        /\ ToSet(s) \subseteq T /\ ToSet(t) \subseteq T
    BY DEF Section
  <2> HIDE DEF T
  <2>2. QED BY <2>1
<1>2. ToSet(u) = T
  <2> HIDE DEF T
  <2>1. ToSet(u) = ToSet(s) \cup ToSet(t)
    BY <1>1, ConcatMembers
  <2>2. QED BY <2>1 DEF T
<1> HIDE DEF T
<1>3. u \in Seq(T) /\ Joins(u, s, t)
  BY <1>1, ConcatJoins
<1> HIDE DEF u
<1>4. /\ Len(s) \in Nat /\ Len(t) \in Nat /\ DOMAIN s = 1 .. Len(s) /\ DOMAIN t = 1 .. Len(t)
      /\ DOMAIN u = 1 .. Len(s) + Len(t)
      /\ \A i \in 1 .. Len(s) : u[i] = s[i]
      /\ \A i \in 1 .. Len(t) : u[Len(s) + i] = t[i]
  BY <1>1, <1>3 DEF Joins
<1>5. ASSUME NEW i \in DOMAIN u
      PROVE  \/ i \in DOMAIN s /\ u[i] = s[i]
             \/ i - Len(s) \in DOMAIN t /\ i > Len(s) /\ u[i] = t[i - Len(s)]
  <2>1. CASE i <= Len(s)
    BY <1>4, <2>1
  <2>2. CASE i > Len(s)
    <3> DEFINE k == i - Len(s)
    <3>1. k \in 1 .. Len(t) /\ i = Len(s) + k
      BY <1>4, <2>2
    <3> HIDE DEF k
    <3>2. u[i] = t[k]
      BY <1>4, <3>1
    <3>3. QED BY <1>4, <2>2, <3>1, <3>2 DEF k
  <2>3. QED BY <1>4, <2>1, <2>2
<1>6. /\ \A i \in DOMAIN s : /\ IsFilter(s[i]) /\ Rank[s[i].name] \in Nat
                             /\ Rank[s[i].name] >= lo /\ Rank[s[i].name] <= mid
      /\ \A i \in DOMAIN t : /\ IsFilter(t[i]) /\ Rank[t[i].name] \in Nat
                             /\ Rank[t[i].name] >= next /\ Rank[t[i].name] <= hi
  BY SectionFacts DEF Section
<1>7. ASSUME NEW i \in DOMAIN u
      PROVE  IsFilter(u[i]) /\ Rank[u[i].name] >= lo /\ Rank[u[i].name] <= hi
  <2>1. CASE i \in DOMAIN s /\ u[i] = s[i]
    BY <1>6, <2>1
  <2>2. CASE i - Len(s) \in DOMAIN t /\ u[i] = t[i - Len(s)]
    BY <1>6, <2>2
  <2>3. QED BY <1>5, <2>1, <2>2
<1>8. ASSUME NEW i \in DOMAIN u, NEW j \in DOMAIN u, i < j
      PROVE  Rank[u[i].name] < Rank[u[j].name]
  <2>1. CASE i \in DOMAIN s /\ u[i] = s[i] /\ j \in DOMAIN s /\ u[j] = s[j]
    <3>1. Rank[s[i].name] < Rank[s[j].name]
      BY <1>8, <2>1 DEF Section, InOrder
    <3>2. QED BY <2>1, <3>1
  <2>2. CASE /\ i \in DOMAIN s /\ u[i] = s[i]
             /\ j - Len(s) \in DOMAIN t /\ u[j] = t[j - Len(s)]
    <3>1. Rank[s[i].name] \in Nat /\ Rank[s[i].name] <= mid
      BY <1>6, <2>2
    <3>2. Rank[t[j - Len(s)].name] \in Nat /\ Rank[t[j - Len(s)].name] >= next
      BY <1>6, <2>2
    <3>3. QED BY <2>2, <3>1, <3>2
  <2>3. CASE /\ i - Len(s) \in DOMAIN t /\ u[i] = t[i - Len(s)] /\ i > Len(s)
             /\ j - Len(s) \in DOMAIN t /\ u[j] = t[j - Len(s)] /\ j > Len(s)
    <3> DEFINE k == i - Len(s)
               l == j - Len(s)
    <3>1. k \in DOMAIN t /\ l \in DOMAIN t /\ k < l
      BY <1>4, <1>8, <2>3
    <3>2. u[i] = t[k] /\ u[j] = t[l]
      BY <2>3
    <3> HIDE DEF k, l
    <3>3. Rank[t[k].name] < Rank[t[l].name]
      BY <3>1 DEF Section, InOrder
    <3>4. QED BY <3>2, <3>3
  <2>4. ~(i > Len(s) /\ j \in DOMAIN s)
    BY <1>4, <1>8
  <2>5. QED BY <1>5, <2>1, <2>2, <2>3, <2>4
<1>9. u \in Seq(ToSet(u)) /\ InOrder(u)
  BY <1>2, <1>3, <1>8 DEF InOrder, u
<1>10. Section(u, lo, hi)
  BY <1>7, <1>9 DEF Section
<1>11. QED BY <1>10 DEF u

LEMMA SectionWiden ==
  ASSUME NEW filters, NEW lo \in Nat, NEW hi \in Nat, NEW l \in Nat, NEW h \in Nat,
         Section(filters, lo, hi), l <= lo, hi <= h
  PROVE  Section(filters, l, h)
<1>1. \A i \in DOMAIN filters : Rank[filters[i].name] \in Nat
  BY SectionFacts
<1>2. QED BY <1>1 DEF Section

ChainOK(c) == Section(c.inbound, 1, 6) /\ Section(c.outbound, 7, 11)

LEMMA ConfigFacts ==
  ASSUME NEW config \in Configs
  PROVE  ChainOK(FromConfig(config))
<1> DEFINE san  == [name                |-> "InputSanitization",
                    strip_control_chars |-> config.input_sanitization.strip_control_chars,
                    reject_null_bytes   |-> config.input_sanitization.reject_null_bytes]
           size == [name |-> "ResultSizeEnforcement", max_chars |-> config.result_size.max_chars]
           leak == [name |-> "PIILeakDetection", action |-> "Redact"]
           echo == [name |-> "InjectionEcho", action |-> "Flag"]
           resp == [name |-> "ResponseClassifier", action |-> "Flag"]
           hall == [name |-> "HallucinationFlag"]
           s0 == When(config.input_sanitization.enabled, san)
           s1 == When(config.result_size.enabled, size)
           s2 == When(config.pii_leak_detection, leak)
           s3 == When(config.injection_echo, echo)
           s4 == When(config.response_classifier, resp)
           s5 == When(config.hallucination_flag, hall)
           c  == FromConfig(config)
<1>1. /\ config.result_size.max_chars \in Nat
      /\ config.input_sanitization.strip_control_chars \in BOOLEAN
      /\ config.input_sanitization.reject_null_bytes \in BOOLEAN
  BY PipelineAssumption
<1>2. IsFilter(san) /\ Rank[san.name] = 1
  BY <1>1, RankFacts DEF IsFilter
<1>3. IsFilter(size) /\ Rank[size.name] = 7
  BY <1>1, RankFacts DEF IsFilter
<1>4. IsFilter(leak) /\ Rank[leak.name] = 8
  BY RankFacts DEF IsFilter
<1>5. IsFilter(echo) /\ Rank[echo.name] = 9
  BY RankFacts DEF IsFilter
<1>6. IsFilter(resp) /\ Rank[resp.name] = 10
  BY RankFacts DEF IsFilter
<1>7. IsFilter(hall) /\ Rank[hall.name] = 11
  BY RankFacts DEF IsFilter
<1>8. c.inbound = s0 /\ c.outbound = s1 \o s2 \o s3 \o s4 \o s5
  BY DEF FromConfig
<1> HIDE DEF san, size, leak, echo, resp, hall, c
<1>9. /\ Section(s0, 1, 1) /\ Section(s1, 7, 7) /\ Section(s2, 8, 8) /\ Section(s3, 9, 9)
      /\ Section(s4, 10, 10) /\ Section(s5, 11, 11)
  BY <1>2, <1>3, <1>4, <1>5, <1>6, <1>7, SectionWhen
<1> HIDE DEF s0, s1, s2, s3, s4, s5
<1>10. Section(s0, 1, 6)
  BY <1>9, SectionWiden
<1>11. Section(s1 \o s2, 7, 8)
  BY <1>9, SectionConcat
<1>12. Section(s1 \o s2 \o s3, 7, 9)
  BY <1>9, <1>11, SectionConcat
<1>13. Section(s1 \o s2 \o s3 \o s4, 7, 10)
  BY <1>9, <1>12, SectionConcat
<1>14. Section(s1 \o s2 \o s3 \o s4 \o s5, 7, 11)
  BY <1>9, <1>13, SectionConcat
<1>15. QED BY <1>8, <1>10, <1>14 DEF ChainOK, c

LEMMA ChainFacts ==
  \A c \in {FromConfig(config) : config \in Configs} \cup Chains : ChainOK(c)
<1>1. ASSUME NEW c \in Chains
      PROVE  ChainOK(c)
  <2>1. /\ c.inbound \in Seq(ToSet(c.inbound)) /\ InOrder(c.inbound)
        /\ c.outbound \in Seq(ToSet(c.outbound)) /\ InOrder(c.outbound)
    BY PipelineAssumption
  <2>2. \A i \in DOMAIN c.inbound : IsFilter(c.inbound[i]) /\ Rank[c.inbound[i].name] <= 6
    BY PipelineAssumption
  <2>3. \A i \in DOMAIN c.outbound : IsFilter(c.outbound[i]) /\ Rank[c.outbound[i].name] > 6
    BY PipelineAssumption
  <2>4. \A filter : IsFilter(filter) => Rank[filter.name] >= 1 /\ Rank[filter.name] <= 11
                                          /\ Rank[filter.name] \in Nat
    BY RankFacts DEF IsFilter
  <2>5. Section(c.inbound, 1, 6)
    BY <2>1, <2>2, <2>4 DEF Section
  <2>6. Section(c.outbound, 7, 11)
    BY <2>1, <2>3, <2>4 DEF Section
  <2>7. QED BY <2>5, <2>6 DEF ChainOK
<1>2. QED BY <1>1, ConfigFacts

-----------------------------------------------------------------------------
(* What holds in every state.                                              *)
Typed ==
  /\ ChainOK(chain) /\ inbox \in Seq(Texts)
  /\ text \in Texts /\ sent \in Seq(Texts) /\ context \in Contexts
  /\ phase \in {"inbound", "loop", "core", "outbound", "returned",
                "FILTER_REJECTED", "OUTBOUND_REJECTED"}

Placed ==
  /\ Len(sent) <= Len(inbox)
  /\ phase = "inbound" => pos \in 0 .. Len(chain.inbound) + 1
                            /\ (pos > 0 => Len(sent) < Len(inbox))
  /\ phase \in {"loop", "core"} => pos = 0
  /\ phase = "outbound" => pos \in 1 .. Len(chain.outbound) + 1
  /\ phase = "returned" => pos = Len(chain.outbound) + 1
  /\ phase = "FILTER_REJECTED" =>
       pos \in DOMAIN chain.inbound /\ refusedBy = chain.inbound[pos].name
  /\ phase = "OUTBOUND_REJECTED" =>
       pos \in DOMAIN chain.outbound /\ refusedBy = chain.outbound[pos].name
  /\ phase \notin {"FILTER_REJECTED", "OUTBOUND_REJECTED"} => refusedBy = None

Shape == Typed /\ Placed

(* The request carries an injection that a classifier has flagged.         *)
Noticed ==
  /\ \E k \in DOMAIN chain.inbound :
       chain.inbound[k].name = "ContentClassifier" /\ chain.inbound[k].mode = "Flag"
  /\ \E i \in DOMAIN sent : Phrases(sent[i]) # {}

(* Every text has passed the filters behind it, what is sent all of them.  *)
SentPassed ==
  \A i \in DOMAIN sent, k \in DOMAIN chain.inbound :
    Passed(chain.inbound[k], sent[i], context, FALSE, Revealed)
Truthful(ctx, noticed) == noticed => Noted(ctx, "injection_patterns") # {}
Behind(filters, at, content, ctx, noticed, shown) ==
  \A k \in DOMAIN filters : k < at => Passed(filters[k], content, ctx, noticed, shown)
AskPassed ==
  phase = "inbound" => Behind(chain.inbound, pos, text, context, FALSE, Revealed)
ReplyPassed ==
  phase \in {"outbound", "returned"} =>
    Behind(chain.outbound, pos, text, context, Noticed, Revealed)
AllKept == SentPassed /\ AskPassed /\ ReplyPassed

(* A session's count is of the messages sent and the one that has passed   *)
(* the filter that counts.                                                 *)
Used(option)    == UnwrapOr(option, 0)
TokensSent      == Total([i \in DOMAIN sent |-> EstimateTokens(sent[i])])
TokensInHand(k) == IF pos > k THEN EstimateTokens(text) ELSE 0
TokenLimit(k) ==
  LET filter == chain.inbound[k]
      limit  == filter.max_session_tokens
      used   == Used(context.sessionTokens)
  IN  /\ phase = "inbound" => used = TokensSent + TokensInHand(k)
      /\ refusedBy # "TokenBudget" => used <= limit
      /\ refusedBy = "TokenBudget" /\ filter.max_input_tokens = None => used > limit
      /\ TokensSent <= limit
LimitsTokens(k) ==
  chain.inbound[k].name = "TokenBudget" /\ chain.inbound[k].max_session_tokens # None
TokensCounted == \A k \in DOMAIN chain.inbound : LimitsTokens(k) => TokenLimit(k)

TurnInHand(k) == IF pos > k THEN 1 ELSE 0
TurnLimit(k) ==
  LET filter == chain.inbound[k]
      limit  == filter.max_turns
      used   == Used(context.turns)
  IN  /\ phase = "inbound" => used = Len(sent) + TurnInHand(k)
      /\ refusedBy # "ConversationBoundary" => used <= limit
      /\ refusedBy = "ConversationBoundary" /\ filter.max_context_tokens = None => used > limit
      /\ Len(sent) <= limit
LimitsTurns(k) ==
  chain.inbound[k].name = "ConversationBoundary" /\ chain.inbound[k].max_turns # None
TurnsCounted == \A k \in DOMAIN chain.inbound : LimitsTurns(k) => TurnLimit(k)
TurnsBounded == Used(context.turns) <= Len(inbox)

LEMMA RunFacts ==
  ASSUME NEW filters, NEW lo, NEW hi, Section(filters, lo, hi), NEW refused,
         text \in Texts, context \in Contexts, Run(filters, refused),
         NEW filter, filter = filters[pos], NEW r, r = Apply(filter, text, context)
  PROVE  /\ pos \in DOMAIN filters /\ pos \in Nat /\ pos >= 1 /\ pos <= Len(filters)
         /\ IsFilter(filter) /\ Rank[filter.name] >= lo /\ Rank[filter.name] <= hi
         /\ Rank[filter.name] \in Nat
         /\ Sound(r, context) /\ Effect(filter, r, text, context) /\ Counts(filter, r, context)
         /\ text' = r.text /\ context' = r.context /\ r.ok \in BOOLEAN
         /\ r.ok => pos' = pos + 1 /\ phase' = phase /\ refusedBy' = refusedBy
         /\ ~r.ok => pos' = pos /\ phase' = refused /\ refusedBy' = filter.name
         /\ UNCHANGED <<chain, inbox, sent, reply>>
<1>1. pos \in DOMAIN filters /\ UNCHANGED <<chain, inbox, sent, reply>>
  BY DEF Run
<1>2. pos \in Nat /\ pos >= 1 /\ pos <= Len(filters)
  BY <1>1, SectionFacts
<1>3. IsFilter(filter) /\ Rank[filter.name] >= lo /\ Rank[filter.name] <= hi
        /\ Rank[filter.name] \in Nat
  BY <1>1, SectionFacts DEF Section
<1>4. Sound(r, context) /\ Effect(filter, r, text, context) /\ Counts(filter, r, context)
  BY <1>3, ApplyFacts
<1>5. /\ text' = r.text /\ context' = r.context
      /\ r.ok => pos' = pos + 1 /\ phase' = phase /\ refusedBy' = refusedBy
      /\ ~r.ok => pos' = pos /\ phase' = refused /\ refusedBy' = filter.name
  BY DEF Run
<1>6. QED BY <1>1, <1>2, <1>3, <1>4, <1>5 DEF Sound

LEMMA NewContextFacts ==
  NewContext \in Contexts /\ NewContext.sessionTokens = None /\ NewContext.turns = None
<1>1. <<>> \in Seq(Notes)
  OBVIOUS
<1>2. QED BY <1>1, LimitFacts DEF NewContext, Contexts

LEMMA InboxTyped ==
  ASSUME Shape, NEW i \in 1 .. Len(inbox)
  PROVE  inbox[i] \in Texts
<1>1. inbox \in Seq(Texts)
  BY DEF Shape, Typed
<1>2. QED BY <1>1

LEMMA ShapeInit == Init => Shape
<1> SUFFICES ASSUME Init PROVE Shape
  OBVIOUS
<1>1. ChainOK(chain)
  BY ChainFacts DEF Init
<1>2. inbox \in Seq(Texts)
  BY PipelineAssumption DEF Init
<1>3. <<>> \in Texts /\ <<>> \in Seq(Texts) /\ Len(<<>>) = 0
  BY DEF Texts
<1>4. Typed
  BY <1>1, <1>2, <1>3, NewContextFacts DEF Init, Typed
<1>5. Len(inbox) \in Nat /\ Len(chain.inbound) \in Nat
  BY <1>1, <1>2, SectionFacts DEF ChainOK
<1>6. Placed
  BY <1>3, <1>5 DEF Init, Placed
<1>7. QED BY <1>4, <1>6 DEF Shape

LEMMA ShapeStep == Shape /\ [Next]_vars => Shape'
<1> SUFFICES ASSUME Shape, [Next]_vars PROVE Shape'
  OBVIOUS
<1> USE DEF Shape
<1>0. /\ ChainOK(chain) /\ inbox \in Seq(Texts)
      /\ text \in Texts /\ sent \in Seq(Texts) /\ context \in Contexts
  BY DEF Typed
<1>1. /\ Len(inbox) \in Nat /\ Len(sent) \in Nat
      /\ Len(chain.inbound) \in Nat /\ DOMAIN chain.inbound = 1 .. Len(chain.inbound)
      /\ Len(chain.outbound) \in Nat /\ DOMAIN chain.outbound = 1 .. Len(chain.outbound)
      /\ Section(chain.inbound, 1, 6) /\ Section(chain.outbound, 7, 11)
  BY <1>0, SectionFacts DEF ChainOK
<1>2. CASE NextMessage
  <2>1. text' \in Texts
    BY <1>1, <1>2, InboxTyped DEF NextMessage
  <2>2. Typed'
    BY <1>0, <1>2, <2>1 DEF NextMessage, Typed
  <2>3. Placed'
    BY <1>1, <1>2 DEF NextMessage, Placed
  <2>4. QED BY <2>2, <2>3
<1>3. CASE FilterInbound
  <2> DEFINE filter == chain.inbound[pos]
             r == Apply(filter, text, context)
  <2>1. phase = "inbound" /\ Run(chain.inbound, "FILTER_REJECTED")
    BY <1>3 DEF FilterInbound
  <2> HIDE DEF filter, r
  <2>2. /\ pos \in DOMAIN chain.inbound /\ pos \in Nat /\ pos >= 1 /\ pos <= Len(chain.inbound)
        /\ Sound(r, context) /\ text' = r.text /\ context' = r.context /\ r.ok \in BOOLEAN
        /\ r.ok => pos' = pos + 1 /\ phase' = phase /\ refusedBy' = refusedBy
        /\ ~r.ok => pos' = pos /\ phase' = "FILTER_REJECTED" /\ refusedBy' = filter.name
        /\ UNCHANGED <<chain, inbox, sent, reply>>
    BY <1>0, <1>1, <2>1, RunFacts DEF filter, r
  <2>3. Typed'
    BY <1>0, <2>1, <2>2 DEF Typed, Sound
  <2>4. Placed'
    <3>1. CASE r.ok
      BY <1>1, <2>1, <2>2, <3>1 DEF Placed
    <3>2. CASE ~r.ok
      BY <1>1, <2>1, <2>2, <3>2 DEF Placed, filter
    <3>3. QED BY <2>2, <3>1, <3>2
  <2>5. QED BY <2>3, <2>4
<1>4. CASE MessagePasses
  <2>1. sent' = Append(sent, text) /\ sent' \in Seq(Texts) /\ Len(sent') = Len(sent) + 1
    BY <1>0, <1>4 DEF MessagePasses
  <2>2. text' \in Texts
    BY <1>4 DEF MessagePasses, Texts
  <2>3. Typed'
    BY <1>0, <1>4, <2>1, <2>2 DEF MessagePasses, Typed
  <2>4. Placed'
    BY <1>1, <1>4, <2>1 DEF MessagePasses, Placed
  <2>5. QED BY <2>3, <2>4
<1>5. CASE AllPassed
  <2>1. Typed'
    BY <1>0, <1>5 DEF AllPassed, Typed
  <2>2. Placed'
    BY <1>1, <1>5 DEF AllPassed, Placed
  <2>3. QED BY <2>1, <2>2
<1>6. CASE AskCore
  <2>1. Typed'
    BY <1>0, <1>6 DEF AskCore, Typed
  <2>2. Placed'
    BY <1>1, <1>6 DEF AskCore, Placed
  <2>3. QED BY <2>1, <2>2
<1>7. CASE CoreReplies
  <2>1. text' \in Texts
    BY <1>7, PipelineAssumption DEF CoreReplies
  <2>2. Typed'
    BY <1>0, <1>7, <2>1 DEF CoreReplies, Typed
  <2>3. Placed'
    BY <1>1, <1>7 DEF CoreReplies, Placed
  <2>4. QED BY <2>2, <2>3
<1>8. CASE FilterOutbound
  <2> DEFINE filter == chain.outbound[pos]
             r == Apply(filter, text, context)
  <2>1. phase = "outbound" /\ Run(chain.outbound, "OUTBOUND_REJECTED")
    BY <1>8 DEF FilterOutbound
  <2> HIDE DEF filter, r
  <2>2. /\ pos \in DOMAIN chain.outbound /\ pos \in Nat /\ pos >= 1 /\ pos <= Len(chain.outbound)
        /\ Sound(r, context) /\ text' = r.text /\ context' = r.context /\ r.ok \in BOOLEAN
        /\ r.ok => pos' = pos + 1 /\ phase' = phase /\ refusedBy' = refusedBy
        /\ ~r.ok => pos' = pos /\ phase' = "OUTBOUND_REJECTED" /\ refusedBy' = filter.name
        /\ UNCHANGED <<chain, inbox, sent, reply>>
    BY <1>0, <1>1, <2>1, RunFacts DEF filter, r
  <2>3. Typed'
    BY <1>0, <2>1, <2>2 DEF Typed, Sound
  <2>4. Placed'
    <3>1. CASE r.ok
      BY <1>1, <2>1, <2>2, <3>1 DEF Placed
    <3>2. CASE ~r.ok
      BY <1>1, <2>1, <2>2, <3>2 DEF Placed, filter
    <3>3. QED BY <2>2, <3>1, <3>2
  <2>5. QED BY <2>3, <2>4
<1>9. CASE Deliver
  <2>1. Typed'
    BY <1>0, <1>9 DEF Deliver, Typed
  <2>2. Placed'
    BY <1>1, <1>9 DEF Deliver, Placed
  <2>3. QED BY <2>1, <2>2
<1>10. CASE UNCHANGED vars
  BY <1>10 DEF vars, Typed, Placed
<1>11. QED BY <1>2, <1>3, <1>4, <1>5, <1>6, <1>7, <1>8, <1>9, <1>10 DEF Next

LEMMA ShapeHolds == Spec => []Shape
<1>1. QED BY ShapeInit, ShapeStep, PTL DEF Spec

LEMMA KeptInit == Init => AllKept
<1> SUFFICES ASSUME Init PROVE AllKept
  OBVIOUS
<1>1. phase = "inbound" /\ sent = <<>> /\ pos = 0
  BY DEF Init
<1>2. Shape
  BY ShapeInit
<1>3. \A k \in DOMAIN chain.inbound : ~(k < pos)
  BY <1>1, <1>2, SectionFacts DEF Shape, Typed, ChainOK
<1>4. DOMAIN sent = {}
  BY <1>1
<1>5. SentPassed
  BY <1>4 DEF SentPassed
<1>6. AskPassed /\ ReplyPassed
  BY <1>1, <1>3 DEF AskPassed, ReplyPassed, Behind
<1>7. QED BY <1>5, <1>6 DEF AllKept

LEMMA PhraseFacts ==
  ASSUME NEW content
  PROVE  /\ ToSet(FoundIn(content, Injections)) = ToSet(Injections) \cap Kinds(content)
         /\ Phrases(content) = (ToSet(Injections) \cap Kinds(content)) \ Revealed
         /\ FoundIn(content, EchoIndicators) # <<>> =>
              ToSet(EchoIndicators) \cap Kinds(content) # {}
<1>1. Injections \in Seq(Names) /\ EchoIndicators \in Seq(Names)
  BY DEF Injections, EchoIndicators, Names
<1>2. QED BY <1>1, FoundInFacts DEF Phrases

LEMMA ChainStays == [Next]_vars => chain' = chain
BY DEF Next, NextMessage, FilterInbound, MessagePasses, AllPassed, AskCore, CoreReplies,
       FilterOutbound, Deliver, Run, vars

(* The phrases that the redaction of a chain may reveal are those that are *)
(* left out of what is asked of its classifier.                            *)
Shows(filters, shown) ==
  \A k \in DOMAIN filters :
    filters[k].name = "PIIRedaction" => Reveals(filters[k].strategy) \subseteq shown

LEMMA RevealedShows ==
  ASSUME ChainOK(chain)
  PROVE  Shows(chain.inbound, Revealed) /\ Shows(chain.outbound, Revealed)
<1>1. ASSUME NEW filters \in {chain.inbound, chain.outbound}, NEW k \in DOMAIN filters,
             filters[k].name = "PIIRedaction"
      PROVE  filters[k].strategy \in Strategies /\ filters[k].strategy \in Ways
  <2>1. IsFilter(filters[k])
    BY <1>1 DEF ChainOK, Section
  <2>2. filters[k] \in With("PIIRedaction")
    BY <1>1 DEF With, Filters, ToSet
  <2>3. QED BY <1>1, <2>1, <2>2 DEF IsFilter, Strategies, Ways
<1>2. ToSet(Injections)
        = {"ignore_previous", "role_assignment", "dan_jailbreak", "jailbreak_keyword"}
  BY DEF Injections, ToSet
<1>3. ASSUME NEW way \in Strategies, way \in Ways
      PROVE  Reveals(way) \subseteq Revealed
  <2>1. CASE "Remove" \in Strategies
    <3>1. Revealed = ToSet(Injections)
      BY <2>1 DEF Revealed
    <3>2. QED BY <1>2, <1>3, <3>1 DEF Reveals, Ways
  <2>2. CASE "Remove" \notin Strategies /\ way = "Mask"
    <3>1. Revealed = {"dan_jailbreak"}
      BY <1>3, <2>2 DEF Revealed
    <3>2. QED BY <2>2, <3>1 DEF Reveals
  <2>3. CASE way = "Replace"
    BY <2>3 DEF Reveals
  <2>4. QED BY <1>3, <2>1, <2>2, <2>3 DEF Ways
<1>4. QED BY <1>1, <1>3 DEF Shows

(* What has been flagged is there for the outbound filters.                *)
LEMMA NoticedIsNoted ==
  ASSUME Shape, SentPassed, Noticed
  PROVE  Noted(context, "injection_patterns") # {}
<1>1. PICK k \in DOMAIN chain.inbound :
        chain.inbound[k].name = "ContentClassifier" /\ chain.inbound[k].mode = "Flag"
  BY DEF Noticed
<1>2. PICK i \in DOMAIN sent : Phrases(sent[i]) # {}
  BY DEF Noticed
<1>3. Passed(chain.inbound[k], sent[i], context, FALSE, Revealed)
  BY DEF SentPassed
<1>4. Phrases(sent[i]) \subseteq Noted(context, "injection_patterns")
  BY <1>1, <1>3, PhraseFacts DEF Passed, Classified
<1>5. QED BY <1>2, <1>4

(* One step of either loop: the text has passed one filter more.           *)
LEMMA RunKeeps ==
  ASSUME NEW filters, NEW lo \in Nat, NEW hi \in Nat, Section(filters, lo, hi),
         hi <= 6 \/ lo > 6, NEW refused,
         text \in Texts, context \in Contexts, Run(filters, refused),
         NEW noticed, Truthful(context, noticed), NEW shown, Shows(filters, shown),
         Behind(filters, pos, text, context, noticed, shown), phase' # refused
  PROVE  Behind(filters, pos', text', context', noticed, shown)
<1> DEFINE filter == filters[pos]
           r == Apply(filter, text, context)
<1> HIDE DEF filter, r
<1>1. /\ pos \in DOMAIN filters /\ pos \in Nat
      /\ IsFilter(filter) /\ Rank[filter.name] >= lo /\ Rank[filter.name] <= hi
      /\ Rank[filter.name] \in Nat
      /\ text' = r.text /\ context' = r.context /\ r.ok \in BOOLEAN
      /\ r.ok => pos' = pos + 1
      /\ ~r.ok => phase' = refused
  BY RunFacts DEF filter, r
<1>0. filter.name = "PIIRedaction" => Reveals(filter.strategy) \subseteq shown
  BY <1>1 DEF Shows, filter
<1>2. r.ok /\ pos' = pos + 1
  BY <1>1
<1>3. Passed(filter, text', context', noticed, shown)
  BY <1>1, <1>2, PassesThere DEF r, Truthful
<1>4. DOMAIN filters = 1 .. Len(filters) /\ Len(filters) \in Nat
        /\ \A k \in DOMAIN filters : Rank[filters[k].name] \in Nat
  BY SectionFacts
<1>5. ASSUME NEW k \in DOMAIN filters, k < pos
      PROVE  Passed(filters[k], text', context', noticed, shown)
  <2>1. /\ IsFilter(filters[k]) /\ Rank[filters[k].name] >= lo /\ Rank[filters[k].name] <= hi
        /\ Rank[filters[k].name] \in Nat
    BY <1>4 DEF Section
  <2>2. Rank[filters[k].name] < Rank[filter.name]
    BY <1>1, <1>5 DEF Section, InOrder, filter
  <2>3. Rank[filters[k].name] <= 6 <=> Rank[filter.name] <= 6
    BY <1>1, <2>1
  <2>4. Passed(filters[k], text, context, noticed, shown)
    BY <1>5 DEF Behind
  <2> DEFINE earlier == filters[k]
  <2> HIDE DEF earlier
  <2>5. Passed(earlier, r.text, r.context, noticed, shown)
    BY <1>0, <1>1, <2>1, <2>2, <2>3, <2>4, PassedStays DEF r, earlier
  <2>6. QED BY <1>1, <2>5 DEF earlier
<1>6. QED BY <1>1, <1>2, <1>3, <1>4, <1>5 DEF filter, Behind

LEMMA KeptStep == Shape /\ AllKept /\ [Next]_vars => AllKept'
<1> SUFFICES ASSUME Shape, AllKept, [Next]_vars PROVE AllKept'
  OBVIOUS
<1>0. /\ ChainOK(chain) /\ inbox \in Seq(Texts)
      /\ text \in Texts /\ sent \in Seq(Texts) /\ context \in Contexts
  BY DEF Shape, Typed
<1>1. /\ Len(inbox) \in Nat /\ Len(sent) \in Nat /\ DOMAIN sent = 1 .. Len(sent)
      /\ Len(chain.inbound) \in Nat /\ DOMAIN chain.inbound = 1 .. Len(chain.inbound)
      /\ Len(chain.outbound) \in Nat /\ DOMAIN chain.outbound = 1 .. Len(chain.outbound)
      /\ Section(chain.inbound, 1, 6) /\ Section(chain.outbound, 7, 11)
  BY <1>0, SectionFacts DEF ChainOK
<1>2. SentPassed /\ AskPassed /\ ReplyPassed
  BY DEF AllKept
<1>S. /\ Revealed' = Revealed
      /\ Shows(chain.inbound, Revealed) /\ Shows(chain.outbound, Revealed)
  <2>1. chain' = chain
    BY ChainStays
  <2>2. QED BY <1>0, <2>1, RevealedShows DEF Revealed, Strategies, With, Filters
<1>3. ASSUME Grown(context, context'), UNCHANGED <<chain, sent>>
      PROVE  SentPassed'
  <2> SUFFICES ASSUME NEW i \in DOMAIN sent, NEW k \in DOMAIN chain.inbound
               PROVE  Passed(chain.inbound[k], sent[i], context', FALSE, Revealed)
    BY <1>3, <1>S DEF SentPassed
  <2>1. Passed(chain.inbound[k], sent[i], context, FALSE, Revealed)
    BY <1>2 DEF SentPassed
  <2> DEFINE filter == chain.inbound[k]
             content == sent[i]
  <2> HIDE DEF filter, content
  <2>2. Passed(filter, content, context, FALSE, Revealed)
    BY <2>1 DEF filter, content
  <2>3. Passed(filter, content, context', FALSE, Revealed)
    BY <1>3, <2>2, PassedGrows
  <2>4. QED BY <2>3 DEF filter, content
<1>4. ASSUME UNCHANGED <<chain, sent, context>>
      PROVE  SentPassed'
  BY <1>2, <1>4, <1>S DEF SentPassed
<1>5. CASE NextMessage
  <2>1. UNCHANGED <<chain, sent, context>> /\ phase' = "inbound" /\ pos' = 1
    BY <1>5 DEF NextMessage
  <2>2. AskPassed'
    BY <1>1, <2>1 DEF AskPassed, Behind
  <2>3. QED BY <1>4, <2>1, <2>2 DEF AllKept, ReplyPassed
<1>6. CASE FilterInbound
  <2> DEFINE filter == chain.inbound[pos]
             r == Apply(filter, text, context)
  <2>1. phase = "inbound" /\ Run(chain.inbound, "FILTER_REJECTED")
    BY <1>6 DEF FilterInbound
  <2> HIDE DEF filter, r
  <2>2. /\ Sound(r, context) /\ context' = r.context /\ r.ok \in BOOLEAN
        /\ r.ok => phase' = phase
        /\ ~r.ok => phase' = "FILTER_REJECTED"
        /\ UNCHANGED <<chain, sent>>
    BY <1>0, <1>1, <2>1, RunFacts DEF filter, r
  <2>3. SentPassed'
    BY <1>3, <2>2 DEF Sound
  <2>4. ASSUME phase' = "inbound"
        PROVE  AskPassed'
    <3>1. Behind(chain.inbound, pos, text, context, FALSE, Revealed)
      BY <1>2, <2>1 DEF AskPassed
    <3>2. 1 \in Nat /\ 6 \in Nat /\ 6 <= 6 /\ Truthful(context, FALSE)
      BY DEF Truthful
    <3>3. Behind(chain.inbound, pos', text', context', FALSE, Revealed)
      <4>1. /\ Section(chain.inbound, 1, 6) /\ text \in Texts /\ context \in Contexts
            /\ phase' # "FILTER_REJECTED"
        BY <1>0, <1>1, <2>4
      <4>2. QED BY <1>S, <2>1, <3>1, <3>2, <4>1, RunKeeps
    <3>4. QED BY <1>S, <2>2, <3>3 DEF AskPassed
  <2>5. phase' \notin {"outbound", "returned"}
    BY <2>1, <2>2
  <2>6. QED BY <2>3, <2>4, <2>5 DEF AllKept, AskPassed, ReplyPassed
<1>7. CASE MessagePasses
  <2>1. /\ phase = "inbound" /\ pos = Len(chain.inbound) + 1 /\ sent' = Append(sent, text)
        /\ UNCHANGED <<chain, context, phase>> /\ pos' = 0
    BY <1>7 DEF MessagePasses
  <2>2. \A k \in DOMAIN chain.inbound : Passed(chain.inbound[k], text, context, FALSE, Revealed)
    <3>1. Behind(chain.inbound, pos, text, context, FALSE, Revealed)
      BY <1>2, <2>1 DEF AskPassed
    <3>2. \A k \in DOMAIN chain.inbound : k < pos
      BY <1>1, <2>1
    <3>3. QED BY <3>1, <3>2 DEF Behind
  <2>3. /\ DOMAIN sent' = 1 .. Len(sent) + 1 /\ sent'[Len(sent) + 1] = text
        /\ \A i \in 1 .. Len(sent) : sent'[i] = sent[i]
    BY <1>0, <2>1
  <2>4. SentPassed'
    <3> SUFFICES ASSUME NEW i \in 1 .. Len(sent) + 1, NEW k \in DOMAIN chain.inbound
                 PROVE  Passed(chain.inbound[k], sent'[i], context, FALSE, Revealed)
      BY <1>S, <2>1, <2>3 DEF SentPassed
    <3>1. CASE i = Len(sent) + 1
      BY <2>2, <2>3, <3>1
    <3>2. CASE i \in 1 .. Len(sent)
      <4>1. Passed(chain.inbound[k], sent[i], context, FALSE, Revealed)
        BY <1>1, <1>2, <3>2 DEF SentPassed
      <4>2. sent'[i] = sent[i]
        BY <2>3, <3>2
      <4>3. QED BY <4>1, <4>2
    <3>3. i = Len(sent) + 1 \/ i \in 1 .. Len(sent)
      BY <1>1
    <3>4. QED BY <3>1, <3>2, <3>3
  <2>5. AskPassed'
    BY <1>1, <2>1 DEF AskPassed, Behind
  <2>6. QED BY <2>1, <2>4, <2>5 DEF AllKept, ReplyPassed
<1>8. CASE AllPassed
  <2>1. UNCHANGED <<chain, sent, context>> /\ phase' = "loop"
    BY <1>8 DEF AllPassed
  <2>2. QED BY <1>4, <2>1 DEF AllKept, AskPassed, ReplyPassed
<1>9. CASE AskCore
  <2>1. UNCHANGED <<chain, sent, context>> /\ phase' = "core"
    BY <1>9 DEF AskCore
  <2>2. QED BY <1>4, <2>1 DEF AllKept, AskPassed, ReplyPassed
<1>10. CASE CoreReplies
  <2>1. UNCHANGED <<chain, sent, context>> /\ phase' = "outbound" /\ pos' = 1
    BY <1>10 DEF CoreReplies
  <2>2. ReplyPassed'
    BY <1>1, <2>1 DEF ReplyPassed, Behind
  <2>3. QED BY <1>4, <2>1, <2>2 DEF AllKept, AskPassed
<1>11. CASE FilterOutbound
  <2> DEFINE filter == chain.outbound[pos]
             r == Apply(filter, text, context)
  <2>1. phase = "outbound" /\ Run(chain.outbound, "OUTBOUND_REJECTED")
    BY <1>11 DEF FilterOutbound
  <2> HIDE DEF filter, r
  <2>2. /\ Sound(r, context) /\ context' = r.context /\ r.ok \in BOOLEAN
        /\ r.ok => phase' = phase
        /\ ~r.ok => phase' = "OUTBOUND_REJECTED"
        /\ UNCHANGED <<chain, sent>>
    BY <1>0, <1>1, <2>1, RunFacts DEF filter, r
  <2>3. SentPassed'
    BY <1>3, <2>2 DEF Sound
  <2>4. ASSUME phase' = "outbound"
        PROVE  ReplyPassed'
    <3> DEFINE noticed == Noticed
    <3>0. Truthful(context, noticed)
      BY <1>2, NoticedIsNoted DEF Truthful
    <3>1. noticed' = noticed
      BY <1>S, <2>2 DEF Noticed, Phrases
    <3>2. Behind(chain.outbound, pos, text, context, noticed, Revealed)
      BY <1>2, <2>1 DEF ReplyPassed
    <3>3. Behind(chain.outbound, pos', text', context', noticed, Revealed)
      <4> HIDE DEF noticed
      <4>1. 7 > 6 /\ 7 \in Nat /\ 11 \in Nat
        OBVIOUS
      <4>2. /\ Section(chain.outbound, 7, 11) /\ text \in Texts /\ context \in Contexts
            /\ phase' # "OUTBOUND_REJECTED"
        BY <1>0, <1>1, <2>4
      <4>3. QED BY <1>S, <2>1, <3>0, <3>2, <4>1, <4>2, RunKeeps
    <3>4. QED BY <1>S, <2>2, <3>1, <3>3 DEF ReplyPassed
  <2>5. phase' \notin {"inbound", "returned"}
    BY <2>1, <2>2
  <2>6. QED BY <2>3, <2>4, <2>5 DEF AllKept, AskPassed, ReplyPassed
<1>12. CASE Deliver
  <2>1. UNCHANGED <<chain, sent, context, text, pos>> /\ phase = "outbound" /\ phase' = "returned"
    BY <1>12 DEF Deliver
  <2>2. Noticed' = Noticed
    BY <1>S, <2>1 DEF Noticed, Phrases
  <2>3. ReplyPassed'
    BY <1>2, <1>S, <2>1, <2>2 DEF ReplyPassed
  <2>4. QED BY <1>4, <2>1, <2>3 DEF AllKept, AskPassed
<1>13. CASE UNCHANGED vars
  <2>1. UNCHANGED <<chain, sent, context, text, pos, phase>>
    BY <1>13 DEF vars
  <2>2. Noticed' = Noticed
    BY <1>S, <2>1 DEF Noticed, Phrases
  <2>3. AskPassed'
    BY <1>2, <1>S, <2>1 DEF AskPassed
  <2>4. ReplyPassed'
    BY <1>2, <1>S, <2>1, <2>2 DEF ReplyPassed
  <2>5. QED BY <1>4, <2>1, <2>3, <2>4 DEF AllKept
<1>14. QED BY <1>5, <1>6, <1>7, <1>8, <1>9, <1>10, <1>11, <1>12, <1>13 DEF Next

LEMMA KeptHolds == Spec => []AllKept
<1>1. QED BY ShapeHolds, KeptInit, KeptStep, PTL DEF Spec

LEMMA WithFacts ==
  ASSUME Shape, NEW name, NEW filter \in With(name)
  PROVE  /\ filter.name = name /\ IsFilter(filter)
         /\ Rank[name] <= 6 => \E k \in DOMAIN chain.inbound : filter = chain.inbound[k]
         /\ Rank[name] > 6 => \E k \in DOMAIN chain.outbound : filter = chain.outbound[k]
<1>1. Section(chain.inbound, 1, 6) /\ Section(chain.outbound, 7, 11)
  BY DEF Shape, Typed, ChainOK
<1>2. filter \in ToSet(chain.inbound) \cup ToSet(chain.outbound) /\ filter.name = name
  BY DEF With, Filters
<1>3. CASE filter \in ToSet(chain.inbound)
  <2>1. PICK k \in DOMAIN chain.inbound : filter = chain.inbound[k]
    BY <1>3 DEF ToSet
  <2>2. IsFilter(filter) /\ Rank[filter.name] <= 6 /\ Rank[filter.name] \in Nat
    BY <1>1, <2>1, SectionFacts DEF Section
  <2>3. QED BY <1>2, <2>1, <2>2
<1>4. CASE filter \in ToSet(chain.outbound)
  <2>1. PICK k \in DOMAIN chain.outbound : filter = chain.outbound[k]
    BY <1>4 DEF ToSet
  <2>2. IsFilter(filter) /\ Rank[filter.name] >= 7 /\ Rank[filter.name] \in Nat
    BY <1>1, <2>1, SectionFacts DEF Section
  <2>3. QED BY <1>2, <2>1, <2>2
<1>5. QED BY <1>2, <1>3, <1>4

LEMMA WithSent ==
  ASSUME Shape, AllKept, NEW name, NEW filter \in With(name), Rank[name] <= 6,
         NEW i \in DOMAIN sent
  PROVE  filter.name = name /\ Passed(filter, sent[i], context, FALSE, Revealed)
<1>1. PICK k \in DOMAIN chain.inbound : filter = chain.inbound[k]
  BY WithFacts
<1>2. Passed(chain.inbound[k], sent[i], context, FALSE, Revealed)
  BY DEF AllKept, SentPassed
<1>3. QED BY <1>1, <1>2, WithFacts

LEMMA WithReply ==
  ASSUME Shape, AllKept, NEW name, NEW filter \in With(name), Rank[name] > 6, phase = "returned"
  PROVE  filter.name = name /\ Passed(filter, text, context, Noticed, Revealed)
<1>1. PICK k \in DOMAIN chain.outbound : filter = chain.outbound[k]
  BY WithFacts
<1>2. Behind(chain.outbound, pos, text, context, Noticed, Revealed) /\ pos = Len(chain.outbound) + 1
  BY DEF AllKept, ReplyPassed, Shape, Placed
<1>3. Len(chain.outbound) \in Nat /\ DOMAIN chain.outbound = 1 .. Len(chain.outbound)
  BY SectionFacts DEF Shape, Typed, ChainOK
<1>4. k < pos
  BY <1>2, <1>3
<1>5. Passed(chain.outbound[k], text, context, Noticed, Revealed)
  BY <1>2, <1>4 DEF Behind
<1>6. QED BY <1>1, <1>5, WithFacts

-----------------------------------------------------------------------------
LEMMA InjectionsKept == Shape /\ AllKept => InjectionsAreNoted
<1> SUFFICES ASSUME Shape, AllKept,
                    NEW filter \in With("ContentClassifier"), NEW i \in DOMAIN sent
             PROVE  /\ filter.mode = "Flag" =>
                         Phrases(sent[i])
                           \subseteq ToSet(GetAnnotations(context, "injection_patterns"))
                    /\ filter.mode = "Block" =>
                         /\ Phrases(sent[i]) = {}
                         /\ \A first \in With("InputSanitization") :
                              first.strip_control_chars =>
                                Kinds(sent[i]) \cap DOMAIN Concealed = {}
  BY DEF InjectionsAreNoted
<1>1. filter.name = "ContentClassifier" /\ Passed(filter, sent[i], context, FALSE, Revealed)
  <2>1. Rank["ContentClassifier"] <= 6
    BY RankFacts
  <2>2. QED BY <2>1, WithSent
<1>2. Classified(filter, sent[i], context, Revealed)
  BY <1>1 DEF Passed
<1>3. Phrases(sent[i]) = (ToSet(Injections) \cap Kinds(sent[i])) \ Revealed
  BY PhraseFacts
<1>4. ToSet(GetAnnotations(context, "injection_patterns")) = Noted(context, "injection_patterns")
  BY NotedFacts DEF Shape, Typed
<1>5. ASSUME NEW first \in With("InputSanitization"), first.strip_control_chars
      PROVE  Kinds(sent[i]) \cap DOMAIN Concealed = {}
  <2>1. first.name = "InputSanitization" /\ Passed(first, sent[i], context, FALSE, Revealed)
    <3>1. Rank["InputSanitization"] <= 6
      BY RankFacts
    <3>2. QED BY <3>1, WithSent
  <2>2. Kinds(sent[i]) \cap Hidden = {}
    BY <1>5, <2>1 DEF Passed, Sanitary
  <2>3. QED BY <2>2 DEF Hidden
<1>6. QED BY <1>2, <1>3, <1>4, <1>5 DEF Classified

LEMMA EchoKept == Shape /\ AllKept => EchoIsNoticed
<1> SUFFICES ASSUME Shape, AllKept, phase = "returned",
                    NEW filter \in With("ContentClassifier"), filter.mode = "Flag",
                    NEW echo \in With("InjectionEcho"), echo.action = "Flag",
                    NEW i \in DOMAIN sent, Phrases(sent[i]) # {},
                    FoundIn(text, EchoIndicators) # <<>>
             PROVE  Annotated("injection_echo_detected")
  BY DEF EchoIsNoticed
<1>1. PICK k \in DOMAIN chain.inbound : filter = chain.inbound[k]
  BY WithFacts, RankFacts
<1>2. filter.name = "ContentClassifier"
  BY WithFacts
<1>4. Noticed
  BY <1>1, <1>2 DEF Noticed
<1>5. echo.name = "InjectionEcho" /\ Passed(echo, text, context, Noticed, Revealed)
  BY WithFacts, WithReply, RankFacts
<1>6. ToSet(EchoIndicators) \cap Kinds(text) # {}
  BY PhraseFacts
<1>7. Noted(context, "injection_echo_detected") # {}
  BY <1>4, <1>5, <1>6 DEF Passed, Echoed
<1>8. GetAnnotations(context, "injection_echo_detected") # <<>>
  BY <1>7, NotedFacts DEF Shape, Typed
<1>9. QED BY <1>8 DEF Annotated

LEMMA PiiKept == Shape /\ AllKept => NoWholePiiPasses
<1> SUFFICES ASSUME Shape, AllKept PROVE NoWholePiiPasses
  OBVIOUS
<1>1. ASSUME NEW filter \in With("PIIRedaction"), NEW i \in DOMAIN sent
      PROVE  Free(sent[i], IF filter.strategy = "Remove" THEN {"SSN"} ELSE ToSet(Entities))
  <2>1. filter.name = "PIIRedaction" /\ Passed(filter, sent[i], context, FALSE, Revealed)
    <3>1. Rank["PIIRedaction"] <= 6
      BY RankFacts
    <3>2. QED BY <3>1, WithSent
  <2>2. QED BY <2>1, EntitySet DEF Passed, Guarded
<1>2. ASSUME phase = "returned", NEW filter \in With("PIILeakDetection"),
             filter.action \in {"Redact", "Block"}
      PROVE  Anonymous(text)
  <2>1. filter.name = "PIILeakDetection" /\ Passed(filter, text, context, Noticed, Revealed)
    BY <1>2, WithFacts, WithReply, RankFacts
  <2>2. QED BY <1>2, <2>1 DEF Passed, Discreet
<1>3. QED BY <1>1, <1>2 DEF NoWholePiiPasses

LEMMA OverrunKept == Shape /\ AllKept => OverrunBounded
<1> SUFFICES ASSUME Shape, AllKept, NEW filter \in With("ResultSizeEnforcement"),
                    phase = "returned", ~Has(text, "notice")
             PROVE  ByteLen(text) <= Max({filter.max_chars, SuffixLen}) + 10 * Masks(text)
  BY DEF OverrunBounded, Masks
<1>1. filter.name = "ResultSizeEnforcement" /\ Passed(filter, text, context, Noticed, Revealed)
        /\ IsFilter(filter)
  BY WithFacts, WithReply, RankFacts
<1>2. text # Notice
  BY NoticeFacts DEF Has
<1>3. Weigh(text, Excess) <= Max({filter.max_chars, SuffixLen})
  BY <1>1, <1>2 DEF Passed, Bounded
<1>4. /\ Weigh(text, Excess) = ByteLen(text) - 10 * Masks(text)
      /\ Masks(text) \in Nat /\ ByteLen(text) \in Nat
  BY ExcessFacts, ByteLenWeighs DEF Shape, Typed
<1>5. Max({filter.max_chars, SuffixLen}) \in Int
  <2>1. filter.max_chars \in Nat /\ SuffixLen \in Nat
    BY <1>1 DEF IsFilter, SuffixLen
  <2>2. QED BY <2>1, MaxOfTwo
<1>6. QED BY <1>3, <1>4, <1>5

(* InjectionsAreNoted: an injection phrase that reaches the Core past a    *)
(* flagging classifier is noted, and none passes a blocking one, not even  *)
(* one that a control character hid until the sanitizer, which runs first, *)
(* removed it.  The phrases that the redaction of the same chain may       *)
(* reveal after the classifier has run are excepted: all of them where it  *)
(* removes, DAN where it masks, none where it replaces or is not there.    *)
THEOREM InjectionsTheorem == Spec => []InjectionsAreNoted
<1>1. QED BY ShapeHolds, KeptHolds, InjectionsKept, PTL

(* EchoIsNoticed: what the classifier noted of a request is still there    *)
(* when the echo detector reads it, however many filters and messages lie  *)
(* between them: a reply that echoes is annotated when it is returned.     *)
(* The request is one with a phrase the classifier could see; phrases that *)
(* redaction reveals behind it are excepted, as above.                     *)
THEOREM EchoTheorem == Spec => []EchoIsNoticed
<1>1. QED BY ShapeHolds, KeptHolds, EchoKept, PTL

(* NoWholePiiPasses: no chain with masking or replacing redaction, or with *)
(* a leak detector that redacts or blocks, lets a whole email, phone, SSN  *)
(* or card through, although the four patterns run one after another and   *)
(* each may break or leave what the next one looks for.  Of a redaction    *)
(* that removes it is proved for SSN only: what a deletion joins may be an *)
(* email, a phone or a card.                                               *)
THEOREM PiiTheorem == Spec => []NoWholePiiPasses
<1>1. QED BY ShapeHolds, KeptHolds, PiiKept, PTL

(* The redaction that runs after the size cap makes a reply longer by ten  *)
(* bytes a mask and no more, wherever the cap has cut the text.            *)
THEOREM OverrunTheorem == Spec => []OverrunBounded
<1>1. QED BY ShapeHolds, KeptHolds, OverrunKept, PTL

-----------------------------------------------------------------------------
(* The counts.                                                             *)
Estimate == [content \in Texts |-> EstimateTokens(content)]

LEMMA UsedFacts ==
  /\ \A option \in Limits : Used(option) \in Nat /\ (option # None => Used(option) = option)
  /\ Used(None) = 0
BY LimitFacts DEF Used, UnwrapOr

LEMMA TokensSentFacts ==
  ASSUME NEW s \in Seq(Texts)
  PROVE  /\ Total([i \in DOMAIN s |-> EstimateTokens(s[i])]) = Weigh(s, Estimate)
         /\ Weigh(s, Estimate) \in Nat
<1> DEFINE n == Len(s)
           sizes == [i \in DOMAIN s |-> EstimateTokens(s[i])]
<1>1. n \in Nat /\ DOMAIN s = 1 .. n /\ \A i \in 1 .. n : s[i] \in Texts
  OBVIOUS
<1>2. \A i \in 1 .. n : EstimateTokens(s[i]) \in Nat
  BY <1>1, EstimateFacts
<1>3. sizes \in [1 .. n -> Nat]
  BY <1>1, <1>2
<1>4. sizes = Weights(s, Estimate)
  BY <1>1 DEF Weights, Estimate
<1> HIDE DEF n, sizes
<1>5. Total(sizes) \in Nat
  BY <1>1, <1>3, FunctionIsSeq, TotalNat
<1>6. QED BY <1>4, <1>5 DEF Weigh, sizes

LEMMA TokensAppend ==
  ASSUME NEW s \in Seq(Texts), NEW content \in Texts
  PROVE  Weigh(Append(s, content), Estimate) = Weigh(s, Estimate) + EstimateTokens(content)
<1>1. Estimate \in [Texts -> Int] /\ Estimate[content] = EstimateTokens(content)
  BY EstimateFacts DEF Estimate
<1>2. <<content>> \in Seq(Texts)
  OBVIOUS
<1>3. Weigh(<<content>>, Estimate) = Estimate[content]
  BY <1>1, WeighShort
<1>4. Weigh(s \o <<content>>, Estimate) = Weigh(s, Estimate) + Weigh(<<content>>, Estimate)
  BY <1>1, <1>2, WeighConcat
<1>5. Append(s, content) = s \o <<content>>
  OBVIOUS
<1>6. QED BY <1>1, <1>3, <1>4, <1>5

(* No two filters of a section have one name.                              *)
LEMMA OneOfAName ==
  ASSUME NEW filters, NEW lo, NEW hi, Section(filters, lo, hi),
         NEW i \in DOMAIN filters, NEW j \in DOMAIN filters, filters[i].name = filters[j].name
  PROVE  i = j
<1>1. /\ Len(filters) \in Nat /\ DOMAIN filters = 1 .. Len(filters)
      /\ \A k \in DOMAIN filters : Rank[filters[k].name] \in Nat
  BY SectionFacts
<1>2. ~(i < j) /\ ~(j < i)
  BY <1>1 DEF Section, InOrder
<1>3. QED BY <1>1, <1>2

(* Nothing but the message in hand and where it stands moves a count.      *)
LEMMA TokensStand ==
  ASSUME NEW k, TokenLimit(k),
         UNCHANGED <<chain, sent, refusedBy>>, context'.sessionTokens = context.sessionTokens,
         phase' = "inbound" => phase = "inbound" /\ TokensInHand(k)' = TokensInHand(k)
  PROVE  TokenLimit(k)'
<1>1. TokensSent' = TokensSent
  BY DEF TokensSent
<1>2. QED BY <1>1 DEF TokenLimit

LEMMA TokensInit == Init => TokensCounted
<1> SUFFICES ASSUME Init, NEW k \in DOMAIN chain.inbound, LimitsTokens(k)
             PROVE  TokenLimit(k)
  BY DEF TokensCounted
<1>1. Shape /\ phase = "inbound" /\ sent = <<>> /\ pos = 0 /\ refusedBy = None
        /\ context = NewContext
  BY ShapeInit DEF Init
<1>2. Section(chain.inbound, 1, 6)
  BY <1>1 DEF Shape, Typed, ChainOK
<1>3. k \in Nat /\ k >= 1 /\ IsFilter(chain.inbound[k])
  BY <1>2, SectionFacts DEF Section
<1>4. chain.inbound[k].max_session_tokens \in Nat
  BY <1>3, LimitFacts DEF IsFilter, LimitsTokens
<1>5. TokensInHand(k) = 0 /\ Used(context.sessionTokens) = 0
  BY <1>1, <1>3, NewContextFacts, UsedFacts DEF TokensInHand
<1>6. TokensSent = 0
  <2>1. [i \in DOMAIN sent |-> EstimateTokens(sent[i])] = <<>>
    BY <1>1
  <2>2. QED BY <2>1, TotalShort DEF TokensSent
<1>7. refusedBy # "TokenBudget"
  BY <1>1, PipelineAssumption, RankFacts
<1>8. QED BY <1>4, <1>5, <1>6, <1>7 DEF TokenLimit

LEMMA TokensStep == Shape /\ TokensCounted /\ [Next]_vars => TokensCounted'
<1> SUFFICES ASSUME Shape, TokensCounted, [Next]_vars PROVE TokensCounted'
  OBVIOUS
<1> SUFFICES ASSUME NEW k \in DOMAIN chain.inbound, LimitsTokens(k) PROVE TokenLimit(k)'
  BY ChainStays DEF TokensCounted, LimitsTokens
<1>0. /\ ChainOK(chain) /\ inbox \in Seq(Texts)
      /\ text \in Texts /\ sent \in Seq(Texts) /\ context \in Contexts
  BY DEF Shape, Typed
<1>1. /\ Section(chain.inbound, 1, 6) /\ Section(chain.outbound, 7, 11)
      /\ Len(chain.inbound) \in Nat /\ DOMAIN chain.inbound = 1 .. Len(chain.inbound)
  BY <1>0, SectionFacts DEF ChainOK
<1> DEFINE filter == chain.inbound[k]
           limit  == filter.max_session_tokens
           used   == Used(context.sessionTokens)
           est    == EstimateTokens(text)
<1>2. k \in Nat /\ k >= 1 /\ k <= Len(chain.inbound) /\ IsFilter(filter)
        /\ filter.name = "TokenBudget" /\ limit # None
  BY <1>1 DEF Section, LimitsTokens
<1>3. limit \in Nat
  BY <1>2, LimitFacts DEF IsFilter
<1>4. TokenLimit(k)
  BY DEF TokensCounted
<1>5. TokensSent = Weigh(sent, Estimate) /\ TokensSent \in Nat /\ used \in Nat /\ est \in Nat
  BY <1>0, TokensSentFacts, ContextFacts, UsedFacts, EstimateFacts DEF TokensSent
<1>6. phase \notin {"FILTER_REJECTED", "OUTBOUND_REJECTED"} => refusedBy # "TokenBudget"
  BY PipelineAssumption, RankFacts DEF Shape, Placed
<1>7. CASE NextMessage
  <2>1. UNCHANGED <<chain, sent, refusedBy, context>> /\ phase = "inbound" /\ pos = 0 /\ pos' = 1
    BY <1>7 DEF NextMessage
  <2>2. TokensInHand(k) = 0 /\ TokensInHand(k)' = 0
    BY <1>2, <2>1 DEF TokensInHand
  <2>3. QED BY <1>4, <2>1, <2>2, TokensStand
<1>8. CASE FilterInbound
  <2> DEFINE g == chain.inbound[pos]
             r == Apply(g, text, context)
  <2>1. phase = "inbound" /\ Run(chain.inbound, "FILTER_REJECTED")
    BY <1>8 DEF FilterInbound
  <2> HIDE DEF g, r
  <2>2. /\ pos \in DOMAIN chain.inbound /\ pos \in Nat
        /\ IsFilter(g) /\ Rank[g.name] <= 6 /\ Rank[g.name] \in Nat
        /\ Effect(g, r, text, context) /\ Counts(g, r, context)
        /\ text' = r.text /\ context' = r.context /\ r.ok \in BOOLEAN
        /\ r.ok => pos' = pos + 1 /\ phase' = phase /\ refusedBy' = refusedBy
        /\ ~r.ok => pos' = pos /\ phase' = "FILTER_REJECTED" /\ refusedBy' = g.name
        /\ UNCHANGED <<chain, inbox, sent, reply>>
    BY <1>0, <1>1, <2>1, RunFacts DEF g, r
  <2>3. TokensSent' = TokensSent
    BY <2>2 DEF TokensSent
  <2>4. used = TokensSent + TokensInHand(k) /\ used <= limit /\ TokensSent <= limit
    BY <1>4, <1>6, <2>1 DEF TokenLimit
  <2>5. CASE k = pos
    <3>1. g = filter /\ text' = text /\ BudgetResult(filter, r, text, context)
      BY <1>2, <2>2, <2>5 DEF Effect, Reads, g
    <3>2. used = TokensSent
      BY <1>5, <2>2, <2>4, <2>5 DEF TokensInHand
    <3>3. CASE r.ok
      <4>1. context'.sessionTokens = used + est /\ used + est <= limit
        BY <1>2, <2>2, <3>1, <3>3 DEF BudgetResult, Used
      <4>2. context'.sessionTokens \in Limits /\ context'.sessionTokens # None
        BY <1>5, <4>1, LimitFacts
      <4>3. Used(context'.sessionTokens) = TokensSent + est
        BY <3>2, <4>1, <4>2, UsedFacts
      <4>4. TokensInHand(k)' = est
        BY <2>2, <2>5, <3>1, <3>3 DEF TokensInHand
      <4>5. refusedBy' # "TokenBudget"
        BY <1>6, <2>1, <2>2, <3>3
      <4>6. QED BY <2>2, <2>3, <2>4, <3>2, <4>1, <4>3, <4>4, <4>5 DEF TokenLimit
    <3>4. CASE ~r.ok
      <4>1. phase' = "FILTER_REJECTED" /\ refusedBy' = "TokenBudget"
        BY <1>2, <2>2, <3>1, <3>4
      <4>2. filter.max_input_tokens = None => context'.sessionTokens = used + est
                                                /\ used + est > limit
        BY <2>2, <3>1, <3>4 DEF BudgetResult, Used
      <4>3. used + est \in Limits /\ used + est # None
        BY <1>5, LimitFacts
      <4>4. filter.max_input_tokens = None => Used(context'.sessionTokens) > limit
        BY <4>2, <4>3, UsedFacts
      <4>5. QED BY <2>2, <2>3, <2>4, <4>1, <4>4 DEF TokenLimit
    <3>5. QED BY <2>2, <3>3, <3>4
  <2>6. CASE k # pos
    <3>1. g.name # "TokenBudget"
      BY <1>1, <1>2, <2>2, <2>6, OneOfAName DEF g
    <3>2. context'.sessionTokens = context.sessionTokens
      BY <2>2, <3>1 DEF Counts
    <3>3. CASE r.ok
      <4>1. ASSUME pos > k
            PROVE  text' = text
        <5>1. Rank[filter.name] < Rank[g.name]
          BY <1>1, <2>2, <4>1 DEF Section, InOrder, g
        <5>2. g.name = "ConversationBoundary"
          <6>1. Rank[filter.name] = 5 /\ g.name \in DOMAIN Rank
            BY <1>2, <2>2, RankFacts DEF IsFilter
          <6>2. QED BY <2>2, <5>1, <6>1, RankFacts
        <5>3. QED BY <2>2, <5>2 DEF Effect, Reads
      <4>2. TokensInHand(k)' = TokensInHand(k)
        <5>1. pos' > k <=> pos > k
          BY <1>2, <2>2, <2>6, <3>3
        <5>2. QED BY <4>1, <5>1 DEF TokensInHand
      <4>3. QED BY <1>4, <2>1, <2>2, <3>2, <3>3, <4>2, TokensStand
    <3>4. CASE ~r.ok
      <4>1. phase' = "FILTER_REJECTED" /\ refusedBy' # "TokenBudget"
        BY <2>2, <3>1, <3>4
      <4>2. QED BY <2>2, <2>3, <2>4, <3>2, <4>1 DEF TokenLimit
    <3>5. QED BY <2>2, <3>3, <3>4
  <2>7. QED BY <2>5, <2>6
<1>9. CASE MessagePasses
  <2>1. /\ phase = "inbound" /\ pos = Len(chain.inbound) + 1 /\ sent' = Append(sent, text)
        /\ UNCHANGED <<chain, context, phase, refusedBy>> /\ pos' = 0
    BY <1>9 DEF MessagePasses
  <2>2. TokensInHand(k) = est /\ TokensInHand(k)' = 0
    BY <1>1, <1>2, <2>1 DEF TokensInHand
  <2>3. Append(sent, text) \in Seq(Texts)
    BY <1>0
  <2>4. TokensSent' = TokensSent + est
    <3> DEFINE s == Append(sent, text)
    <3> HIDE DEF s
    <3>1. Total([i \in DOMAIN s |-> EstimateTokens(s[i])]) = Weigh(s, Estimate)
      BY <2>3, TokensSentFacts DEF s
    <3>2. Weigh(s, Estimate) = TokensSent + est
      BY <1>0, <1>5, TokensAppend DEF s
    <3>3. sent' = s
      BY <2>1 DEF s
    <3>4. QED BY <3>1, <3>2, <3>3 DEF TokensSent
  <2>5. used = TokensSent + est /\ used <= limit
    BY <1>4, <1>6, <2>1, <2>2 DEF TokenLimit
  <2>6. QED BY <1>5, <1>6, <2>1, <2>2, <2>4, <2>5 DEF TokenLimit
<1>10. CASE AllPassed \/ AskCore \/ CoreReplies \/ Deliver
  <2>1. UNCHANGED <<chain, sent, refusedBy, context>> /\ phase' # "inbound"
    BY <1>10 DEF AllPassed, AskCore, CoreReplies, Deliver
  <2>2. QED BY <1>4, <2>1, TokensStand
<1>11. CASE FilterOutbound
  <2> DEFINE g == chain.outbound[pos]
             r == Apply(g, text, context)
  <2>1. phase = "outbound" /\ Run(chain.outbound, "OUTBOUND_REJECTED")
    BY <1>11 DEF FilterOutbound
  <2> HIDE DEF g, r
  <2>2. /\ Rank[g.name] >= 7 /\ Rank[g.name] \in Nat /\ Counts(g, r, context)
        /\ context' = r.context /\ r.ok \in BOOLEAN
        /\ r.ok => phase' = phase /\ refusedBy' = refusedBy
        /\ ~r.ok => phase' = "OUTBOUND_REJECTED" /\ refusedBy' = g.name
        /\ UNCHANGED <<chain, inbox, sent, reply>>
    BY <1>0, <1>1, <2>1, RunFacts DEF g, r
  <2>3. g.name # "TokenBudget"
    BY <2>2, RankFacts
  <2>4. context'.sessionTokens = context.sessionTokens
    BY <2>2, <2>3 DEF Counts
  <2>5. refusedBy # "TokenBudget" /\ refusedBy' # "TokenBudget" /\ phase' # "inbound"
    BY <1>6, <2>1, <2>2, <2>3
  <2>6. TokensSent' = TokensSent
    BY <2>2 DEF TokensSent
  <2>7. QED BY <1>4, <2>2, <2>4, <2>5, <2>6 DEF TokenLimit
<1>12. CASE UNCHANGED vars
  <2>1. UNCHANGED <<chain, sent, refusedBy, context, phase, pos, text>>
    BY <1>12 DEF vars
  <2>2. TokensInHand(k)' = TokensInHand(k)
    BY <2>1 DEF TokensInHand
  <2>3. QED BY <1>4, <2>1, <2>2, TokensStand
<1>13. QED BY <1>7, <1>8, <1>9, <1>10, <1>11, <1>12 DEF Next

LEMMA TokensHold == Spec => []TokensCounted
<1>1. QED BY ShapeHolds, TokensInit, TokensStep, PTL DEF Spec

LEMMA TurnsStand ==
  ASSUME NEW k, TurnLimit(k),
         UNCHANGED <<chain, sent, refusedBy>>, context'.turns = context.turns,
         phase' = "inbound" => phase = "inbound" /\ TurnInHand(k)' = TurnInHand(k)
  PROVE  TurnLimit(k)'
BY DEF TurnLimit

LEMMA TurnsInit == Init => TurnsCounted
<1> SUFFICES ASSUME Init, NEW k \in DOMAIN chain.inbound, LimitsTurns(k)
             PROVE  TurnLimit(k)
  BY DEF TurnsCounted
<1>1. Shape /\ phase = "inbound" /\ sent = <<>> /\ pos = 0 /\ refusedBy = None
        /\ context = NewContext
  BY ShapeInit DEF Init
<1>2. Section(chain.inbound, 1, 6)
  BY <1>1 DEF Shape, Typed, ChainOK
<1>3. k \in Nat /\ k >= 1 /\ IsFilter(chain.inbound[k])
  BY <1>2, SectionFacts DEF Section
<1>4. chain.inbound[k].max_turns \in Nat
  BY <1>3, LimitFacts DEF IsFilter, LimitsTurns
<1>5. TurnInHand(k) = 0 /\ Used(context.turns) = 0
  BY <1>1, <1>3, NewContextFacts, UsedFacts DEF TurnInHand
<1>6. Len(sent) = 0
  BY <1>1
<1>7. refusedBy # "ConversationBoundary"
  BY <1>1, PipelineAssumption, RankFacts
<1>8. QED BY <1>4, <1>5, <1>6, <1>7 DEF TurnLimit

LEMMA TurnsStep == Shape /\ TurnsCounted /\ [Next]_vars => TurnsCounted'
<1> SUFFICES ASSUME Shape, TurnsCounted, [Next]_vars PROVE TurnsCounted'
  OBVIOUS
<1> SUFFICES ASSUME NEW k \in DOMAIN chain.inbound, LimitsTurns(k) PROVE TurnLimit(k)'
  BY ChainStays DEF TurnsCounted, LimitsTurns
<1>0. /\ ChainOK(chain) /\ inbox \in Seq(Texts)
      /\ text \in Texts /\ sent \in Seq(Texts) /\ context \in Contexts
  BY DEF Shape, Typed
<1>1. /\ Section(chain.inbound, 1, 6) /\ Section(chain.outbound, 7, 11)
      /\ Len(chain.inbound) \in Nat /\ DOMAIN chain.inbound = 1 .. Len(chain.inbound)
  BY <1>0, SectionFacts DEF ChainOK
<1> DEFINE filter == chain.inbound[k]
           limit  == filter.max_turns
           used   == Used(context.turns)
<1>2. k \in Nat /\ k >= 1 /\ k <= Len(chain.inbound) /\ IsFilter(filter)
        /\ filter.name = "ConversationBoundary" /\ limit # None
  BY <1>1 DEF Section, LimitsTurns
<1>3. limit \in Nat
  BY <1>2, LimitFacts DEF IsFilter
<1>4. TurnLimit(k)
  BY DEF TurnsCounted
<1>5. Len(sent) \in Nat /\ used \in Nat
  BY <1>0, ContextFacts, UsedFacts
<1>6. phase \notin {"FILTER_REJECTED", "OUTBOUND_REJECTED"} => refusedBy # "ConversationBoundary"
  BY PipelineAssumption, RankFacts DEF Shape, Placed
<1>7. CASE NextMessage
  <2>1. UNCHANGED <<chain, sent, refusedBy, context>> /\ phase = "inbound" /\ pos = 0 /\ pos' = 1
    BY <1>7 DEF NextMessage
  <2>2. TurnInHand(k) = 0 /\ TurnInHand(k)' = 0
    BY <1>2, <2>1 DEF TurnInHand
  <2>3. QED BY <1>4, <2>1, <2>2, TurnsStand
<1>8. CASE FilterInbound
  <2> DEFINE g == chain.inbound[pos]
             r == Apply(g, text, context)
  <2>1. phase = "inbound" /\ Run(chain.inbound, "FILTER_REJECTED")
    BY <1>8 DEF FilterInbound
  <2> HIDE DEF g, r
  <2>2. /\ pos \in DOMAIN chain.inbound /\ pos \in Nat
        /\ IsFilter(g) /\ Rank[g.name] <= 6 /\ Rank[g.name] \in Nat
        /\ Effect(g, r, text, context) /\ Counts(g, r, context)
        /\ text' = r.text /\ context' = r.context /\ r.ok \in BOOLEAN
        /\ r.ok => pos' = pos + 1 /\ phase' = phase /\ refusedBy' = refusedBy
        /\ ~r.ok => pos' = pos /\ phase' = "FILTER_REJECTED" /\ refusedBy' = g.name
        /\ UNCHANGED <<chain, inbox, sent, reply>>
    BY <1>0, <1>1, <2>1, RunFacts DEF g, r
  <2>3. sent' = sent
    BY <2>2
  <2>4. used = Len(sent) + TurnInHand(k) /\ used <= limit /\ Len(sent) <= limit
    BY <1>4, <1>6, <2>1 DEF TurnLimit
  <2>5. CASE k = pos
    <3>1. g = filter /\ BoundaryResult(filter, r, context)
      BY <1>2, <2>2, <2>5 DEF Counts, g
    <3>2. used = Len(sent)
      BY <1>5, <2>2, <2>4, <2>5 DEF TurnInHand
    <3>3. CASE r.ok
      <4>1. context'.turns = used + 1 /\ used + 1 <= limit
        BY <1>2, <2>2, <3>1, <3>3 DEF BoundaryResult, Used
      <4>2. context'.turns \in Limits /\ context'.turns # None
        BY <1>5, <4>1, LimitFacts
      <4>3. Used(context'.turns) = Len(sent) + 1
        BY <3>2, <4>1, <4>2, UsedFacts
      <4>4. TurnInHand(k)' = 1
        BY <2>2, <2>5, <3>1, <3>3 DEF TurnInHand
      <4>5. refusedBy' # "ConversationBoundary"
        BY <1>6, <2>1, <2>2, <3>3
      <4>6. QED BY <2>2, <2>3, <2>4, <3>2, <4>1, <4>3, <4>4, <4>5 DEF TurnLimit
    <3>4. CASE ~r.ok
      <4>1. phase' = "FILTER_REJECTED" /\ refusedBy' = "ConversationBoundary"
        BY <1>2, <2>2, <3>1, <3>4
      <4>2. filter.max_context_tokens = None => context'.turns = used + 1
                                                /\ used + 1 > limit
        BY <2>2, <3>1, <3>4 DEF BoundaryResult, Used
      <4>3. used + 1 \in Limits /\ used + 1 # None
        BY <1>5, LimitFacts
      <4>4. filter.max_context_tokens = None => Used(context'.turns) > limit
        BY <4>2, <4>3, UsedFacts
      <4>5. QED BY <2>2, <2>3, <2>4, <4>1, <4>4 DEF TurnLimit
    <3>5. QED BY <2>2, <3>3, <3>4
  <2>6. CASE k # pos
    <3>1. g.name # "ConversationBoundary"
      BY <1>1, <1>2, <2>2, <2>6, OneOfAName DEF g
    <3>2. context'.turns = context.turns
      BY <2>2, <3>1 DEF Counts
    <3>3. CASE r.ok
      <4>1. pos' > k <=> pos > k
        BY <1>2, <2>2, <2>6, <3>3
      <4>2. TurnInHand(k)' = TurnInHand(k)
        BY <4>1 DEF TurnInHand
      <4>3. QED BY <1>4, <2>1, <2>2, <3>2, <3>3, <4>2, TurnsStand
    <3>4. CASE ~r.ok
      <4>1. phase' = "FILTER_REJECTED" /\ refusedBy' # "ConversationBoundary"
        BY <2>2, <3>1, <3>4
      <4>2. QED BY <2>2, <2>3, <2>4, <3>2, <4>1 DEF TurnLimit
    <3>5. QED BY <2>2, <3>3, <3>4
  <2>7. QED BY <2>5, <2>6
<1>9. CASE MessagePasses
  <2>1. /\ phase = "inbound" /\ pos = Len(chain.inbound) + 1 /\ sent' = Append(sent, text)
        /\ UNCHANGED <<chain, context, phase, refusedBy>> /\ pos' = 0
    BY <1>9 DEF MessagePasses
  <2>2. TurnInHand(k) = 1 /\ TurnInHand(k)' = 0
    BY <1>1, <1>2, <2>1 DEF TurnInHand
  <2>3. Append(sent, text) \in Seq(Texts)
    BY <1>0
  <2>4. Len(sent') = Len(sent) + 1
    BY <1>0, <2>1
  <2>5. used = Len(sent) + 1 /\ used <= limit
    BY <1>4, <1>6, <2>1, <2>2 DEF TurnLimit
  <2>6. QED BY <1>5, <1>6, <2>1, <2>2, <2>4, <2>5 DEF TurnLimit
<1>10. CASE AllPassed \/ AskCore \/ CoreReplies \/ Deliver
  <2>1. UNCHANGED <<chain, sent, refusedBy, context>> /\ phase' # "inbound"
    BY <1>10 DEF AllPassed, AskCore, CoreReplies, Deliver
  <2>2. QED BY <1>4, <2>1, TurnsStand
<1>11. CASE FilterOutbound
  <2> DEFINE g == chain.outbound[pos]
             r == Apply(g, text, context)
  <2>1. phase = "outbound" /\ Run(chain.outbound, "OUTBOUND_REJECTED")
    BY <1>11 DEF FilterOutbound
  <2> HIDE DEF g, r
  <2>2. /\ Rank[g.name] >= 7 /\ Rank[g.name] \in Nat /\ Counts(g, r, context)
        /\ context' = r.context /\ r.ok \in BOOLEAN
        /\ r.ok => phase' = phase /\ refusedBy' = refusedBy
        /\ ~r.ok => phase' = "OUTBOUND_REJECTED" /\ refusedBy' = g.name
        /\ UNCHANGED <<chain, inbox, sent, reply>>
    BY <1>0, <1>1, <2>1, RunFacts DEF g, r
  <2>3. g.name # "ConversationBoundary"
    BY <2>2, RankFacts
  <2>4. context'.turns = context.turns
    BY <2>2, <2>3 DEF Counts
  <2>5. /\ refusedBy # "ConversationBoundary" /\ refusedBy' # "ConversationBoundary"
        /\ phase' # "inbound"
    BY <1>6, <2>1, <2>2, <2>3
  <2>6. sent' = sent
    BY <2>2
  <2>7. QED BY <1>4, <2>2, <2>4, <2>5, <2>6 DEF TurnLimit
<1>12. CASE UNCHANGED vars
  <2>1. UNCHANGED <<chain, sent, refusedBy, context, phase, pos, text>>
    BY <1>12 DEF vars
  <2>2. TurnInHand(k)' = TurnInHand(k)
    BY <2>1 DEF TurnInHand
  <2>3. QED BY <1>4, <2>1, <2>2, TurnsStand
<1>13. QED BY <1>7, <1>8, <1>9, <1>10, <1>11, <1>12 DEF Next

LEMMA TurnsHold == Spec => []TurnsCounted
<1>1. QED BY ShapeHolds, TurnsInit, TurnsStep, PTL DEF Spec

LEMMA BoundedStep ==
  Shape /\ TurnsCounted /\ TurnsBounded /\ [Next]_vars => TurnsBounded'
<1> SUFFICES ASSUME Shape, TurnsCounted, TurnsBounded, [Next]_vars PROVE TurnsBounded'
  OBVIOUS
<1>0. /\ ChainOK(chain) /\ inbox \in Seq(Texts)
      /\ text \in Texts /\ sent \in Seq(Texts) /\ context \in Contexts
  BY DEF Shape, Typed
<1>1. /\ Section(chain.inbound, 1, 6) /\ Section(chain.outbound, 7, 11)
      /\ Len(inbox) \in Nat /\ Len(sent) \in Nat
  BY <1>0 DEF ChainOK
<1>2. CASE UNCHANGED <<inbox, context>>
  BY <1>2 DEF TurnsBounded
<1>3. CASE FilterInbound
  <2> DEFINE g == chain.inbound[pos]
             r == Apply(g, text, context)
  <2>1. phase = "inbound" /\ Run(chain.inbound, "FILTER_REJECTED")
    BY <1>3 DEF FilterInbound
  <2> HIDE DEF g, r
  <2>2. /\ pos \in DOMAIN chain.inbound /\ pos \in Nat /\ pos >= 1
        /\ IsFilter(g) /\ Counts(g, r, context)
        /\ context' = r.context /\ UNCHANGED <<chain, inbox, sent, reply>>
    BY <1>0, <1>1, <2>1, RunFacts DEF g, r
  <2>3. CASE context'.turns = context.turns
    BY <2>2, <2>3 DEF TurnsBounded
  <2>4. CASE context'.turns # context.turns
    <3>1. g.name = "ConversationBoundary" /\ BoundaryResult(g, r, context)
      BY <2>2, <2>4 DEF Counts
    <3>2. g.max_turns # None /\ context'.turns = Used(context.turns) + 1
      BY <2>2, <2>4, <3>1 DEF BoundaryResult, Used
    <3>3. LimitsTurns(pos)
      BY <3>1, <3>2 DEF LimitsTurns, g
    <3>4. TurnLimit(pos)
      BY <2>2, <3>3 DEF TurnsCounted
    <3>5. Used(context.turns) = Len(sent)
      BY <1>1, <2>1, <2>2, <3>4 DEF TurnLimit, TurnInHand
    <3>6. Len(sent) < Len(inbox)
      BY <2>1, <2>2 DEF Shape, Placed
    <3>7. context'.turns \in Limits /\ context'.turns # None
      <4>1. context'.turns \in Nat
        BY <1>1, <3>2, <3>5
      <4>2. \A n \in Nat : n \in Limits /\ n # None
        BY LimitFacts
      <4>3. QED BY <4>1, <4>2
    <3>8. Used(context'.turns) = Len(sent) + 1
      BY <3>2, <3>5, <3>7, UsedFacts
    <3>9. QED BY <1>1, <2>2, <3>6, <3>8 DEF TurnsBounded
  <2>5. QED BY <2>3, <2>4
<1>4. CASE FilterOutbound
  <2> DEFINE g == chain.outbound[pos]
             r == Apply(g, text, context)
  <2>1. phase = "outbound" /\ Run(chain.outbound, "OUTBOUND_REJECTED")
    BY <1>4 DEF FilterOutbound
  <2> HIDE DEF g, r
  <2>2. /\ Rank[g.name] >= 7 /\ Rank[g.name] \in Nat /\ Counts(g, r, context)
        /\ context' = r.context /\ UNCHANGED <<chain, inbox, sent, reply>>
    BY <1>0, <1>1, <2>1, RunFacts DEF g, r
  <2>3. g.name # "ConversationBoundary"
    BY <2>2, RankFacts
  <2>4. context'.turns = context.turns
    BY <2>2, <2>3 DEF Counts
  <2>5. QED BY <2>2, <2>4 DEF TurnsBounded
<1>5. QED BY <1>2, <1>3, <1>4 DEF Next, NextMessage, MessagePasses, AllPassed, AskCore,
             CoreReplies, Deliver, vars

LEMMA BoundedInit == Init => TurnsBounded
<1> SUFFICES ASSUME Init PROVE TurnsBounded
  OBVIOUS
<1>1. inbox \in Seq(Texts)
  BY ShapeInit DEF Shape, Typed
<1>2. Len(inbox) \in Nat /\ Used(context.turns) = 0
  BY <1>1, NewContextFacts, UsedFacts DEF Init
<1>3. QED BY <1>2 DEF TurnsBounded

LEMMA BoundedHolds == Spec => []TurnsBounded
<1>1. QED BY ShapeHolds, TurnsHold, BoundedInit, BoundedStep, PTL DEF Spec

LEMMA TypesKept == Shape /\ TurnsBounded => TypeOK
<1> SUFFICES ASSUME Shape, TurnsBounded PROVE TypeOK
  OBVIOUS
<1>1. /\ Section(chain.inbound, 1, 6) /\ Section(chain.outbound, 7, 11)
      /\ inbox \in Seq(Texts) /\ text \in Texts /\ context \in Contexts
      /\ phase \in {"inbound", "loop", "core", "outbound", "returned",
                    "FILTER_REJECTED", "OUTBOUND_REJECTED"}
  BY DEF Shape, Typed, ChainOK
<1>2. /\ Len(chain.inbound) \in Nat /\ DOMAIN chain.inbound = 1 .. Len(chain.inbound)
      /\ Len(chain.outbound) \in Nat /\ DOMAIN chain.outbound = 1 .. Len(chain.outbound)
      /\ Len(inbox) \in Nat
  BY <1>1, SectionFacts
<1>3. pos \in 0 .. Len(IF phase \in {"outbound", "returned", "OUTBOUND_REJECTED"}
                       THEN chain.outbound ELSE chain.inbound) + 1
  <2>1. CASE phase \in {"outbound", "returned", "OUTBOUND_REJECTED"}
    BY <1>2, <2>1 DEF Shape, Placed
  <2>2. CASE phase \in {"inbound", "loop", "core", "FILTER_REJECTED"}
    BY <1>2, <2>2 DEF Shape, Placed
  <2>3. QED BY <1>1, <2>1, <2>2
<1>4. refusedBy # None <=> phase \in {"FILTER_REJECTED", "OUTBOUND_REJECTED"}
  <2>1. ASSUME phase = "FILTER_REJECTED"
        PROVE  refusedBy # None
    <3>1. pos \in DOMAIN chain.inbound /\ refusedBy = chain.inbound[pos].name
      BY <2>1 DEF Shape, Placed
    <3>2. refusedBy \in DOMAIN Rank
      BY <1>1, <3>1 DEF Section, IsFilter
    <3>3. QED BY <3>2, PipelineAssumption
  <2>2. ASSUME phase = "OUTBOUND_REJECTED"
        PROVE  refusedBy # None
    <3>1. pos \in DOMAIN chain.outbound /\ refusedBy = chain.outbound[pos].name
      BY <2>2 DEF Shape, Placed
    <3>2. refusedBy \in DOMAIN Rank
      BY <1>1, <3>1 DEF Section, IsFilter
    <3>3. QED BY <3>2, PipelineAssumption
  <2>3. phase \notin {"FILTER_REJECTED", "OUTBOUND_REJECTED"} => refusedBy = None
    BY DEF Shape, Placed
  <2>4. QED BY <2>1, <2>2, <2>3
<1>5. context.inputTokens \in Nat \cup {None} /\ context.sessionTokens \in Nat \cup {None}
  BY <1>1, ContextFacts DEF Limits
<1>6. context.turns \in 0 .. Len(inbox) \cup {None}
  <2>1. context.turns \in Limits /\ Used(context.turns) <= Len(inbox)
    BY <1>1, ContextFacts DEF TurnsBounded
  <2>2. context.turns # None => context.turns \in Nat /\ context.turns <= Len(inbox)
    BY <2>1, LimitFacts, UsedFacts
  <2>3. QED BY <1>2, <2>2
<1>7. \A i \in DOMAIN text : text[i].bytes \in Nat
  BY <1>1, TextFacts, PieceFacts
<1>8. Len(sent) <= Len(inbox)
  BY DEF Shape, Placed
<1>9. QED BY <1>1, <1>3, <1>4, <1>5, <1>6, <1>7, <1>8 DEF TypeOK

LEMMA BudgetsKept == Shape /\ AllKept /\ TokensCounted /\ TurnsCounted => BudgetsHold
<1> SUFFICES ASSUME Shape, AllKept, TokensCounted, TurnsCounted PROVE BudgetsHold
  OBVIOUS
<1>1. ASSUME NEW filter \in With("TokenBudget"), filter.max_input_tokens # None,
             NEW i \in DOMAIN sent
      PROVE  EstimateTokens(sent[i]) <= filter.max_input_tokens
  <2>1. Rank["TokenBudget"] <= 6
    BY RankFacts
  <2>2. filter.name = "TokenBudget" /\ Passed(filter, sent[i], context, FALSE, Revealed)
    BY <2>1, WithSent
  <2>3. QED BY <1>1, <2>2 DEF Passed, Affordable
<1>2. ASSUME NEW filter \in With("TokenBudget"), filter.max_session_tokens # None
      PROVE  Total([i \in DOMAIN sent |-> EstimateTokens(sent[i])]) <= filter.max_session_tokens
  <2>1. PICK k \in DOMAIN chain.inbound : filter = chain.inbound[k]
    BY WithFacts, RankFacts
  <2>2. filter.name = "TokenBudget"
    BY WithFacts
  <2>3. TokenLimit(k)
    BY <1>2, <2>1, <2>2 DEF TokensCounted, LimitsTokens
  <2>4. QED BY <2>1, <2>3 DEF TokenLimit, TokensSent
<1>3. ASSUME NEW filter \in With("ConversationBoundary"), filter.max_turns # None
      PROVE  Len(sent) <= filter.max_turns
  <2>1. PICK k \in DOMAIN chain.inbound : filter = chain.inbound[k]
    BY WithFacts, RankFacts
  <2>2. filter.name = "ConversationBoundary"
    BY WithFacts
  <2>3. TurnLimit(k)
    BY <1>3, <2>1, <2>2 DEF TurnsCounted, LimitsTurns
  <2>4. QED BY <2>1, <2>3 DEF TurnLimit
<1>4. QED BY <1>1, <1>2, <1>3 DEF BudgetsHold

(* A policy of one rule reports something exactly if the rule is violated. *)
LEMMA BreaksFacts ==
  ASSUME NEW rule, NEW limit, NEW ctx
  PROVE  Evaluate(<<[name |-> rule, scope |-> [type |-> "Session"], action |-> "Block",
                     rules |-> <<[type |-> rule, limit |-> limit]>>]>>,
                  ctx, ToolCallRequested("any")) # <<>>
           <=> Violated([type |-> rule, limit |-> limit], ctx, ToolCallRequested("any"))
<1> DEFINE one      == [type |-> rule, limit |-> limit]
           rules    == <<one>>
           policy   == [name |-> rule, scope |-> [type |-> "Session"], action |-> "Block",
                        rules |-> rules]
           event    == ToolCallRequested("any")
           bad      == {x \in ToSet(rules) : Violated(x, ctx, event)}
           broken   == Select(rules, bad)
           report   == [i \in DOMAIN broken |->
                          [policy |-> rule, action |-> "Block", rule |-> broken[i]]]
           line     == [policy |-> rule, action |-> "Block", rule |-> one]
           violated == Violated(one, ctx, event)
           all      == Evaluate(<<policy>>, ctx, event)
<1>1. ScopeMatches(policy.scope, event)
  BY DEF ScopeMatches
<1>3. all = FlattenSeq(<<report>>)
  <2> DEFINE Broken(p) ==
               IF ScopeMatches(p.scope, event)
               THEN Select(p.rules, {x \in ToSet(p.rules) : Violated(x, ctx, event)})
               ELSE <<>>
             Report(p) == [i \in DOMAIN Broken(p) |->
                             [policy |-> p.name, action |-> p.action, rule |-> Broken(p)[i]]]
             Reports(ps) == [i \in DOMAIN ps |-> Report(ps[i])]
  <2>1. \A ps : Evaluate(ps, ctx, event) = FlattenSeq(Reports(ps))
    BY DEF Evaluate
  <2>2. Broken(policy) = broken
    BY <1>1
  <2>3. Report(policy) = report
    BY <2>2
  <2> HIDE DEF Report, report, policy
  <2>4. Reports(<<policy>>) = <<Report(policy)>>
    OBVIOUS
  <2> HIDE DEF Reports
  <2>5. all = FlattenSeq(Reports(<<policy>>))
    BY <2>1
  <2>6. QED BY <2>3, <2>4, <2>5
<1>4. rules \in Seq({one}) /\ ToSet(rules) = {one}
  BY DEF ToSet
<1>5. bad = IF violated THEN {one} ELSE {}
  BY <1>4
<1> HIDE DEF one, rules, bad, violated, all
<1>6. /\ broken \in Seq({one})
      /\ \A x : x \in ToSet(broken) <=> x \in ToSet(rules) /\ x \in bad
  BY <1>4, SelectFacts
<1> HIDE DEF broken
<1>7. ToSet(broken) = {} <=> ~violated
  BY <1>4, <1>5, <1>6
<1>8. broken = <<>> <=> ~violated
  BY <1>6, <1>7, EmptyHasNone
<1>9. report \in Seq({line}) /\ Len(report) = Len(broken)
  <2>1. DOMAIN broken = 1 .. Len(broken) /\ Len(broken) \in Nat
          /\ \A i \in 1 .. Len(broken) : broken[i] = one
    BY <1>6
  <2>2. report \in [1 .. Len(broken) -> {line}]
    BY <2>1
  <2> HIDE DEF report, line
  <2>3. QED BY <2>1, <2>2, FunctionIsSeq
<1>10. broken = <<>> <=> Len(broken) = 0
  BY <1>6
<1> HIDE DEF report, line
<1>11. <<report>> \in Seq(Seq({line})) /\ DOMAIN <<report>> = {1} /\ <<report>>[1] = report
  <2>1. report \in Seq({line})
    BY <1>9
  <2> DEFINE T == Seq({line})
  <2> HIDE DEF T
  <2>2. report \in T => <<report>> \in Seq(T) /\ DOMAIN <<report>> = {1} /\ <<report>>[1] = report
    OBVIOUS
  <2>3. QED BY <2>1, <2>2 DEF T
<1>12. /\ all \in Seq({line})
       /\ \A x : x \in ToSet(all) <=> x \in ToSet(report)
  <2> DEFINE ss == <<report>>
  <2> HIDE DEF ss
  <2>1. ss \in Seq(Seq({line})) /\ DOMAIN ss = {1} /\ ss[1] = report /\ all = FlattenSeq(ss)
    BY <1>3, <1>11 DEF ss
  <2>2. /\ FlattenSeq(ss) \in Seq({line})
        /\ \A x : x \in ToSet(FlattenSeq(ss)) <=> \E i \in DOMAIN ss : x \in ToSet(ss[i])
    BY <2>1, FlattenMembers
  <2>3. QED BY <2>1, <2>2
<1>13. all = <<>> <=> report = <<>>
  <2>1. ToSet(all) = ToSet(report)
    BY <1>12
  <2>2. QED BY <1>9, <1>12, <2>1, EmptyHasNone
<1>14. report = <<>> <=> Len(report) = 0
  BY <1>9
<1>15. all # <<>> <=> violated
  BY <1>8, <1>9, <1>10, <1>13, <1>14
<1>16. QED BY <1>15 DEF all, violated, one, rules

(* A count of the context that is there stays there, and never falls.      *)
Rises(old, new) == old # None => new # None /\ new >= old

LEMMA RisesFacts ==
  ASSUME NEW old \in Limits, NEW more \in Nat
  PROVE  Rises(old, old) /\ Rises(old, UnwrapOr(old, 0) + more)
<1>1. CASE old = None
  BY <1>1 DEF Rises
<1>2. CASE old # None
  <2>1. old \in Nat
    BY <1>2 DEF Limits
  <2>2. UnwrapOr(old, 0) = old
    BY <1>2 DEF UnwrapOr
  <2>3. old + more \in Nat /\ None \notin Nat
    BY <2>1, PipelineAssumption
  <2>4. QED BY <2>1, <2>2, <2>3 DEF Rises
<1>3. QED BY <1>1, <1>2

LEMMA FilterRises ==
  ASSUME NEW filter, NEW content \in Texts, NEW ctx \in Contexts, IsFilter(filter),
         NEW r, r = Apply(filter, content, ctx)
  PROVE  /\ Rises(ctx.sessionTokens, r.context.sessionTokens)
         /\ Rises(ctx.turns, r.context.turns)
<1>1. Effect(filter, r, content, ctx) /\ Counts(filter, r, ctx)
  BY ApplyFacts
<1>2. ctx.sessionTokens \in Limits /\ ctx.turns \in Limits /\ EstimateTokens(content) \in Nat
  BY ContextFacts, EstimateFacts
<1>3. r.context.sessionTokens
        \in {ctx.sessionTokens, UnwrapOr(ctx.sessionTokens, 0) + EstimateTokens(content)}
  <2>1. CASE filter.name = "TokenBudget"
    BY <1>1, <2>1 DEF Effect, BudgetResult
  <2>2. CASE filter.name # "TokenBudget"
    BY <1>1, <2>2 DEF Counts
  <2>3. QED BY <2>1, <2>2
<1>4. r.context.turns \in {ctx.turns, UnwrapOr(ctx.turns, 0) + 1}
  <2>1. CASE filter.name = "ConversationBoundary"
    BY <1>1, <2>1 DEF Counts, BoundaryResult
  <2>2. CASE filter.name # "ConversationBoundary"
    BY <1>1, <2>2 DEF Counts
  <2>3. QED BY <2>1, <2>2
<1>5. 1 \in Nat
  OBVIOUS
<1>6. QED BY <1>2, <1>3, <1>4, <1>5, RisesFacts

LEMMA StepRises ==
  ASSUME Shape, [Next]_vars
  PROVE  /\ Rises(context.sessionTokens, context'.sessionTokens)
         /\ Rises(context.turns, context'.turns)
<1>1. /\ text \in Texts /\ context \in Contexts
      /\ Section(chain.inbound, 1, 6) /\ Section(chain.outbound, 7, 11)
  BY DEF Shape, Typed, ChainOK
<1>2. ASSUME NEW filters, NEW lo \in Nat, NEW hi \in Nat, Section(filters, lo, hi),
             NEW refused, Run(filters, refused)
      PROVE  /\ Rises(context.sessionTokens, context'.sessionTokens)
             /\ Rises(context.turns, context'.turns)
  <2> DEFINE filter == filters[pos]
             r == Apply(filter, text, context)
  <2> HIDE DEF filter, r
  <2>1. IsFilter(filter) /\ context' = r.context
    BY <1>1, <1>2, RunFacts DEF filter, r
  <2>2. QED BY <1>1, <2>1, FilterRises DEF r
<1>3. CASE FilterInbound
  <2>1. Run(chain.inbound, "FILTER_REJECTED") /\ 1 \in Nat /\ 6 \in Nat
    BY <1>3 DEF FilterInbound
  <2>2. QED BY <1>1, <1>2, <2>1
<1>4. CASE FilterOutbound
  <2>1. Run(chain.outbound, "OUTBOUND_REJECTED") /\ 7 \in Nat /\ 11 \in Nat
    BY <1>4 DEF FilterOutbound
  <2>2. QED BY <1>1, <1>2, <2>1
<1>5. CASE ~FilterInbound /\ ~FilterOutbound
  <2>1. context' = context
    BY <1>5 DEF Next, vars, NextMessage, MessagePasses, AllPassed, AskCore, CoreReplies, Deliver
  <2>2. context.sessionTokens \in Limits /\ context.turns \in Limits /\ 0 \in Nat
    BY <1>1, ContextFacts
  <2>3. QED BY <2>1, <2>2, RisesFacts
<1>6. QED BY <1>3, <1>4, <1>5

LEMMA BreachesStep ==
  ASSUME Shape, [Next]_vars,
         NEW rule \in {"MaxToolCallsPerSession", "MaxTokensPerIdentityPerHour"},
         NEW limit \in Thresholds, Breaks(rule, limit)
  PROVE  Breaks(rule, limit)'
<1> DEFINE one   == [type |-> rule, limit |-> limit]
           event == ToolCallRequested("any")
           Read(ctx) == IF rule = "MaxToolCallsPerSession" THEN ctx.turns ELSE ctx.sessionTokens
<1>1. \A ctx : Violated(one, ctx, event) <=> Read(ctx) # None /\ Read(ctx) > limit
  <2>1. event.type = "ToolCallRequested"
    BY DEF ToolCallRequested
  <2>2. QED BY <2>1 DEF Violated, Exceeds
<1>2. Breaks(rule, limit) <=> Violated(one, context, event)
  BY BreaksFacts DEF Breaks
<1>3. Breaks(rule, limit)' <=> Violated(one, context', event)
  BY BreaksFacts DEF Breaks
<1> HIDE DEF one, event
<1>4. Rises(Read(context), Read(context'))
  BY StepRises
<1>5. Read(context) \in Limits /\ Read(context') \in Limits
  <2>1. Shape'
    BY ShapeStep
  <2>2. context \in Contexts /\ context' \in Contexts
    BY <2>1 DEF Shape, Typed
  <2>3. QED BY <2>2, ContextFacts
<1>6. limit \in Nat
  BY PipelineAssumption
<1>7. Read(context) # None /\ Read(context) > limit
  BY <1>1, <1>2
<1> HIDE DEF Read
<1>8. Read(context') # None /\ Read(context') >= Read(context)
  BY <1>4, <1>7 DEF Rises
<1>9. Read(context') > limit
  BY <1>5, <1>6, <1>7, <1>8 DEF Limits
<1>10. QED BY <1>1, <1>3, <1>8, <1>9

(* Every state is well typed, its turn numbers no larger than the number   *)
(* of messages the client sent, for any messages, replies and chains.      *)
THEOREM TypeCorrect == Spec => []TypeOK
<1>1. QED BY ShapeHolds, BoundedHolds, TypesKept, PTL

(* What reached the Core fits the token budgets of the request and of the  *)
(* session and the conversation's turns: the counts the filters keep in    *)
(* the context are those of the messages that passed, however the filters  *)
(* before and after them rewrote the text.                                 *)
THEOREM BudgetsTheorem == Spec => []BudgetsHold
<1>1. QED BY ShapeHolds, KeptHolds, TokensHold, TurnsHold, BudgetsKept, PTL

(* A limit of the rules that is exceeded stays so until the request ends:  *)
(* no filter, no later message and not the answer of the Core makes the    *)
(* context forget what it has counted (engine.rs, context.rs).             *)
THEOREM BreachesTheorem == Spec => BreachesStand
<1>1. Shape /\ [Next]_vars =>
        [\A rule \in {"MaxToolCallsPerSession", "MaxTokensPerIdentityPerHour"},
            limit \in Thresholds : Breaks(rule, limit) => Breaks(rule, limit)']_vars
  BY BreachesStep
<1>2. QED BY <1>1, ShapeHolds, PTL DEF Spec, BreachesStand

-----------------------------------------------------------------------------
(* The sanitizer alone, seen as the Inbound step of ChatLoop.  A variable  *)
(* of ChatLoop that is mapped gives its name to what it is mapped to.      *)
OnlyFilter == [name |-> "InputSanitization", strip_control_chars |-> TRUE,
               reject_null_bytes |-> TRUE]
ChatInbox      == [i \in DOMAIN inbox |-> Class(inbox[i])]
ChatPhase      == IF Ended THEN "returned" ELSE IF phase = "outbound" THEN "core" ELSE phase
ChatTranscript == IF ToldAll
                  THEN [i \in DOMAIN sent |-> [role |-> "user", text |-> Class(sent[i]),
                                               calls |-> <<>>, results |-> <<>>]]
                  ELSE <<>>
ChatOutcome    == IF phase = "returned" THEN "model" ELSE IF Ended THEN phase ELSE "none"
ChatAsked      == IF ToldAll /\ phase # "loop" THEN 1 ELSE 0
Views == <<ChatInbox, ChatPhase, ChatTranscript, ChatOutcome, ChatAsked>>

LEMMA ViewsStutter == UNCHANGED Views => UNCHANGED Chat!vars
BY DEF Views, Chat!vars, ChatInbox, ChatPhase, ChatTranscript, ChatOutcome, ChatAsked

LEMMA InboundRefuses ==
  ASSUME ChatPhase = "inbound", NEW i \in DOMAIN ChatInbox, ChatInbox[i] = "null",
         ChatPhase' = "returned", ChatOutcome' = "FILTER_REJECTED",
         UNCHANGED <<ChatInbox, ChatTranscript, ChatAsked>>
  PROVE  Chat!Next
<1>1. Chat!Inbound
  BY DEF Chat!Inbound, Chat!Rejects, Chat!Return,
     ChatInbox, ChatPhase, ChatTranscript, ChatOutcome, ChatAsked
<1>2. QED BY <1>1 DEF Chat!Next, Chat!Handler

LEMMA InboundPasses ==
  ASSUME ChatPhase = "inbound", \A i \in DOMAIN ChatInbox : ChatInbox[i] # "null",
         ChatPhase' = "loop",
         ChatTranscript' = [i \in DOMAIN ChatInbox |-> Chat!UserText("clean")],
         \A i \in DOMAIN ChatInbox : ChatInbox[i] \in {"clean", "control"},
         UNCHANGED <<ChatInbox, ChatOutcome, ChatAsked>>
  PROVE  Chat!Next
<1>1. \A i \in DOMAIN ChatInbox : Chat!Sanitize(ChatInbox[i]) = "clean"
  BY DEF Chat!Sanitize
<1>2. ChatTranscript' = [i \in DOMAIN ChatInbox |-> Chat!UserText(Chat!Sanitize(ChatInbox[i]))]
  <2> HIDE DEF Chat!Sanitize
  <2>1. QED BY <1>1
<1>3. Chat!Inbound
  BY <1>2 DEF Chat!Inbound, Chat!Rejects,
     ChatInbox, ChatPhase, ChatTranscript, ChatOutcome, ChatAsked
<1>4. QED BY <1>3 DEF Chat!Next, Chat!Handler

LEMMA AsksOnce ==
  ASSUME ChatPhase = "loop", ChatPhase' = "core", ChatAsked = 0, ChatAsked' = 1,
         UNCHANGED <<ChatInbox, ChatTranscript, ChatOutcome>>
  PROVE  Chat!Next
<1>1. 0 < Chat!EffectiveMax
  BY PipelineAssumption DEF Chat!EffectiveMax, Chat!MaxToolIterations
<1>2. Chat!AskCore
  BY <1>1 DEF Chat!AskCore,
     ChatInbox, ChatPhase, ChatTranscript, ChatOutcome, ChatAsked
<1>3. QED BY <1>2 DEF Chat!Next, Chat!Handler

LEMMA Finishes ==
  ASSUME ChatPhase = "core", ChatPhase' = "returned",
         ChatOutcome' \in {"model", "OUTBOUND_REJECTED"},
         UNCHANGED <<ChatInbox, ChatTranscript, ChatAsked>>
  PROVE  Chat!Next
<1>1. Chat!CoreFinishes("end_turn", <<>>)
  BY DEF Chat!CoreFinishes, Chat!Return,
     ChatInbox, ChatPhase, ChatTranscript, ChatOutcome, ChatAsked
<1>2. Chat!CoreAnswers
  BY <1>1 DEF Chat!CoreAnswers, Chat!Stops
<1>3. QED BY <1>2 DEF Chat!Next, Chat!Handler

(* The message at the sanitizer is the next of the request's, and those    *)
(* that are past it had no null byte.                                      *)
Examined(i) == i <= Len(sent) \/ (i = Len(sent) + 1 /\ pos > 1)
InHand ==
  phase = "inbound" =>
    /\ pos = 1 => text = inbox[Len(sent) + 1]
    /\ \A i \in DOMAIN inbox : Examined(i) => "null" \notin Kinds(inbox[i])

LEMMA WiredFacts ==
  ASSUME Shape, Wired
  PROVE  /\ Len(chain.inbound) = 1 /\ DOMAIN chain.inbound = {1} /\ chain.inbound[1] = OnlyFilter
         /\ OnlyFilter.name = "InputSanitization" /\ OnlyFilter.strip_control_chars
         /\ OnlyFilter.reject_null_bytes /\ IsFilter(OnlyFilter)
         /\ Len(inbox) \in Nat /\ Len(sent) \in Nat /\ Len(sent) <= Len(inbox)
         /\ DOMAIN inbox = 1 .. Len(inbox) /\ DOMAIN sent = 1 .. Len(sent)
         /\ phase = "inbound" => pos \in {0, 1, 2} /\ (pos > 0 => Len(sent) < Len(inbox))
<1>1. chain.inbound = <<OnlyFilter>>
  BY DEF Wired, OnlyFilter
<1>2. /\ OnlyFilter.name = "InputSanitization" /\ OnlyFilter.strip_control_chars
      /\ OnlyFilter.reject_null_bytes
  BY DEF OnlyFilter
<1> HIDE DEF OnlyFilter
<1>3. Len(chain.inbound) = 1 /\ DOMAIN chain.inbound = {1} /\ chain.inbound[1] = OnlyFilter
  BY <1>1
<1>4. IsFilter(OnlyFilter)
  BY <1>3 DEF Shape, Typed, ChainOK, Section
<1>5. inbox \in Seq(Texts) /\ sent \in Seq(Texts)
  BY DEF Shape, Typed
<1>6. /\ Len(inbox) \in Nat /\ Len(sent) \in Nat
      /\ DOMAIN inbox = 1 .. Len(inbox) /\ DOMAIN sent = 1 .. Len(sent)
  BY <1>5
<1>7. /\ Len(sent) <= Len(inbox)
      /\ phase = "inbound" => pos \in 0 .. 2 /\ (pos > 0 => Len(sent) < Len(inbox))
  BY <1>3 DEF Shape, Placed
<1>8. QED BY <1>2, <1>3, <1>4, <1>6, <1>7

LEMMA WiredRun ==
  ASSUME Shape, Wired, InHand, FilterInbound
  PROVE  /\ phase = "inbound" /\ pos = 1 /\ text = inbox[Len(sent) + 1]
         /\ Len(sent) + 1 \in DOMAIN inbox
         /\ UNCHANGED <<chain, inbox, sent>>
         /\ "null" \notin Kinds(text) => phase' = "inbound" /\ pos' = 2
         /\ "null" \in Kinds(text) => phase' = "FILTER_REJECTED"
<1> DEFINE r == Apply(OnlyFilter, text, context)
<1>1. /\ phase = "inbound" /\ Run(chain.inbound, "FILTER_REJECTED")
      /\ pos \in DOMAIN chain.inbound
  BY DEF FilterInbound, Run
<1>2. pos = 1 /\ chain.inbound[pos] = OnlyFilter
  BY <1>1, WiredFacts
<1>3. text \in Texts /\ context \in Contexts /\ Section(chain.inbound, 1, 6)
  BY DEF Shape, Typed, ChainOK
<1>4. r = InputSanitization(OnlyFilter, text, context)
  BY WiredFacts DEF Apply
<1> HIDE DEF OnlyFilter, r
<1>5. r.ok <=> "null" \notin Kinds(text)
  BY <1>3, <1>4, WiredFacts, SanitizerFacts
<1>6. /\ r.ok => pos' = pos + 1 /\ phase' = phase
      /\ ~r.ok => phase' = "FILTER_REJECTED"
      /\ UNCHANGED <<chain, inbox, sent>>
  BY <1>1, <1>2, <1>3, RunFacts DEF r
<1>7. text = inbox[Len(sent) + 1] /\ Len(sent) + 1 \in DOMAIN inbox
  BY <1>1, <1>2, WiredFacts DEF InHand
<1>8. QED BY <1>1, <1>2, <1>5, <1>6, <1>7

LEMMA InHandStep ==
  ASSUME Shape, Wired => InHand, [Next]_vars
  PROVE  (Wired => InHand)'
<1>1. chain' = chain
  BY DEF Next, vars, NextMessage, FilterInbound, FilterOutbound, Run, MessagePasses, AllPassed,
     AskCore, CoreReplies, Deliver
<1>2. Wired' => Wired
  BY <1>1 DEF Wired
<1> SUFFICES ASSUME Wired, InHand PROVE InHand'
  BY <1>2
<1> HIDE DEF OnlyFilter
<1>3. CASE NextMessage
  <2>1. /\ phase = "inbound" /\ pos = 0 /\ pos' = 1 /\ text' = inbox[Len(sent) + 1]
        /\ UNCHANGED <<inbox, sent, phase>>
    BY <1>3 DEF NextMessage
  <2>2. \A i \in DOMAIN inbox : Examined(i)' => Examined(i)
    BY <2>1 DEF Examined
  <2>3. QED BY <2>1, <2>2 DEF InHand
<1>4. CASE FilterInbound
  <2>1. CASE "null" \notin Kinds(text)
    <3>1. /\ phase = "inbound" /\ text = inbox[Len(sent) + 1] /\ pos' = 2 /\ pos = 1
          /\ UNCHANGED <<inbox, sent>>
      BY <1>4, <2>1, WiredRun
    <3>2. \A i \in DOMAIN inbox : Examined(i)' => Examined(i) \/ i = Len(sent) + 1
      BY <3>1 DEF Examined
    <3>3. \A i \in DOMAIN inbox : Examined(i)' => "null" \notin Kinds(inbox[i])
      BY <2>1, <3>1, <3>2 DEF InHand
    <3>4. QED BY <3>1, <3>3 DEF InHand
  <2>2. CASE "null" \in Kinds(text)
    BY <1>4, <2>2, WiredRun DEF InHand
  <2>3. QED BY <2>1, <2>2
<1>5. CASE MessagePasses
  <2>1. /\ phase = "inbound" /\ pos = 2 /\ pos' = 0 /\ UNCHANGED <<inbox, phase>>
        /\ sent' = Append(sent, text)
    BY <1>5, WiredFacts DEF MessagePasses
  <2>2. Len(sent') = Len(sent) + 1 /\ Len(sent) \in Nat /\ DOMAIN inbox = 1 .. Len(inbox)
    BY <2>1, WiredFacts DEF Shape, Typed
  <2>3. \A i \in DOMAIN inbox : Examined(i)' => Examined(i)
    BY <2>1, <2>2 DEF Examined
  <2>4. QED BY <2>1, <2>3 DEF InHand
<1>6. CASE AllPassed \/ AskCore \/ CoreReplies \/ FilterOutbound \/ Deliver
  <2>1. phase' # "inbound"
    BY <1>6 DEF AllPassed, AskCore, CoreReplies, FilterOutbound, Run, Deliver
  <2>2. QED BY <2>1 DEF InHand
<1>7. CASE UNCHANGED vars
  BY <1>7 DEF vars, InHand, Examined
<1>8. QED BY <1>3, <1>4, <1>5, <1>6, <1>7 DEF Next

LEMMA InHandHolds == Spec => [](Wired => InHand)
<1>1. Init => (Wired => InHand)
  <2> SUFFICES ASSUME Init, Wired PROVE InHand
    OBVIOUS
  <2>1. pos = 0 /\ Len(sent) = 0 /\ Shape
    BY ShapeInit DEF Init
  <2>2. \A i \in DOMAIN inbox : ~Examined(i)
    <3> HIDE DEF OnlyFilter
    <3>1. QED BY <2>1, WiredFacts DEF Examined
  <2>3. QED BY <2>1, <2>2 DEF InHand
<1>2. Shape /\ (Wired => InHand) /\ [Next]_vars => (Wired => InHand)'
  BY InHandStep
<1>3. QED BY <1>1, <1>2, ShapeHolds, PTL DEF Spec

(* What the sanitizer and the request's texts are to ChatLoop.             *)
LEMMA ClassFacts ==
  ASSUME NEW content
  PROVE  /\ Class(content) = "null" <=> "null" \in Kinds(content)
         /\ Class(content) \in {"null", "control", "clean"}
         /\ Kinds(content) \cap Hidden = {} => Class(content) = "clean"
BY DEF Class, Has, Hidden

LEMMA WiredSent ==
  ASSUME Shape, AllKept, Wired, NEW i \in DOMAIN sent
  PROVE  Class(sent[i]) = "clean"
<1> HIDE DEF OnlyFilter
<1>1. Passed(OnlyFilter, sent[i], context, FALSE, Revealed)
  BY WiredFacts DEF AllKept, SentPassed
<1>2. Sanitary(OnlyFilter, sent[i])
  BY <1>1, WiredFacts DEF Passed
<1>3. Kinds(sent[i]) \cap Hidden = {}
  BY <1>2, WiredFacts DEF Sanitary
<1>4. QED BY <1>3, ClassFacts

LEMMA AllPassedTells ==
  ASSUME Shape, AllKept, Wired, InHand, AllPassed
  PROVE  Chat!Next
<1> HIDE DEF OnlyFilter
<1>1. /\ phase = "inbound" /\ phase' = "loop" /\ pos = 0 /\ Len(sent) = Len(inbox)
      /\ UNCHANGED <<inbox, sent>>
  BY DEF AllPassed
<1>2. DOMAIN sent = DOMAIN inbox /\ \A i \in DOMAIN inbox : i <= Len(sent)
  BY <1>1, WiredFacts
<1>3. \A i \in DOMAIN inbox : "null" \notin Kinds(inbox[i])
  BY <1>1, <1>2 DEF InHand, Examined
<1>4. DOMAIN ChatInbox = DOMAIN inbox /\ \A i \in DOMAIN inbox : ChatInbox[i] = Class(inbox[i])
  BY DEF ChatInbox
<1>5. \A i \in DOMAIN ChatInbox : ChatInbox[i] # "null" /\ ChatInbox[i] \in {"clean", "control"}
  BY <1>3, <1>4, ClassFacts
<1>6. ChatPhase = "inbound" /\ ChatPhase' = "loop"
  BY <1>1 DEF ChatPhase, Ended
<1>7. UNCHANGED <<ChatInbox, ChatOutcome, ChatAsked>>
  BY <1>1 DEF ChatInbox, ChatOutcome, ChatAsked, Ended, ToldAll
<1>8. ChatTranscript' = [i \in DOMAIN ChatInbox |-> Chat!UserText("clean")]
  <2>1. ChatTranscript' = [i \in DOMAIN sent |-> Chat!UserText(Class(sent[i]))]
    BY <1>1 DEF ChatTranscript, ToldAll, Chat!UserText
  <2>2. \A i \in DOMAIN sent : Class(sent[i]) = "clean"
    BY WiredSent
  <2>3. QED BY <1>2, <1>4, <2>1, <2>2
<1>9. QED BY <1>5, <1>6, <1>7, <1>8, InboundPasses

LEMMA RefusalEnds ==
  ASSUME Shape, Wired, InHand, FilterInbound
  PROVE  Chat!Next \/ UNCHANGED Views
<1> HIDE DEF OnlyFilter
<1>1. /\ phase = "inbound" /\ text = inbox[Len(sent) + 1] /\ Len(sent) + 1 \in DOMAIN inbox
      /\ UNCHANGED <<chain, inbox, sent>>
      /\ "null" \notin Kinds(text) => phase' = "inbound"
      /\ "null" \in Kinds(text) => phase' = "FILTER_REJECTED"
  BY WiredRun
<1>2. CASE "null" \notin Kinds(text)
  BY <1>1, <1>2 DEF Views, ChatInbox, ChatPhase, ChatTranscript, ChatOutcome, ChatAsked,
     Ended, ToldAll
<1>3. CASE "null" \in Kinds(text)
  <2>1. /\ Len(sent) + 1 \in DOMAIN ChatInbox
        /\ ChatInbox[Len(sent) + 1] = "null"
    BY <1>1, <1>3, ClassFacts DEF ChatInbox
  <2>2. /\ ChatPhase = "inbound" /\ ChatPhase' = "returned" /\ ChatOutcome' = "FILTER_REJECTED"
        /\ UNCHANGED <<ChatInbox, ChatTranscript, ChatAsked>>
    BY <1>1, <1>3 DEF ChatInbox, ChatPhase, ChatTranscript, ChatOutcome, ChatAsked,
       Ended, ToldAll
  <2>3. QED BY <2>1, <2>2, InboundRefuses
<1>4. QED BY <1>2, <1>3

LEMMA OtherSteps ==
  ASSUME \/ NextMessage \/ MessagePasses \/ CoreReplies \/ AskCore
         \/ Deliver \/ FilterOutbound \/ UNCHANGED vars
  PROVE  Chat!Next \/ UNCHANGED Views
<1> USE DEF ChatInbox, ChatPhase, ChatTranscript, ChatOutcome, ChatAsked,
            Ended, ToldAll
<1>1. CASE NextMessage \/ MessagePasses
  <2>1. phase = "inbound" /\ UNCHANGED <<inbox, phase>>
    BY <1>1 DEF NextMessage, MessagePasses
  <2>2. QED BY <2>1 DEF Views
<1>2. CASE CoreReplies
  <2>1. phase = "core" /\ phase' = "outbound" /\ UNCHANGED <<inbox, sent>>
    BY <1>2 DEF CoreReplies
  <2>2. QED BY <2>1 DEF Views
<1>3. CASE AskCore
  <2>1. phase = "loop" /\ phase' = "core" /\ UNCHANGED <<inbox, sent>>
    BY <1>3 DEF AskCore
  <2>2. /\ ChatPhase = "loop" /\ ChatPhase' = "core" /\ ChatAsked = 0 /\ ChatAsked' = 1
        /\ UNCHANGED <<ChatInbox, ChatTranscript, ChatOutcome>>
    BY <2>1
  <2>3. QED BY <2>2, AsksOnce
<1>4. CASE Deliver
  <2>1. phase = "outbound" /\ phase' = "returned" /\ UNCHANGED <<inbox, sent>>
    BY <1>4 DEF Deliver
  <2>2. /\ ChatPhase = "core" /\ ChatPhase' = "returned"
        /\ ChatOutcome' = "model"
        /\ UNCHANGED <<ChatInbox, ChatTranscript, ChatAsked>>
    BY <2>1
  <2>3. QED BY <2>2, Finishes
<1>5. CASE FilterOutbound
  <2>1. /\ phase = "outbound" /\ phase' \in {"outbound", "OUTBOUND_REJECTED"}
        /\ UNCHANGED <<inbox, sent>>
    BY <1>5 DEF FilterOutbound, Run
  <2>2. CASE phase' = "outbound"
    BY <2>1, <2>2 DEF Views
  <2>3. CASE phase' = "OUTBOUND_REJECTED"
    <3>1. /\ ChatPhase = "core" /\ ChatPhase' = "returned"
          /\ ChatOutcome' = "OUTBOUND_REJECTED"
          /\ UNCHANGED <<ChatInbox, ChatTranscript, ChatAsked>>
      BY <2>1, <2>3
    <3>2. QED BY <3>1, Finishes
  <2>4. QED BY <2>1, <2>2, <2>3
<1>6. CASE UNCHANGED vars
  BY <1>6 DEF vars, Views
<1>7. QED BY <1>1, <1>2, <1>3, <1>4, <1>5, <1>6

LEMMA ChatStep ==
  ASSUME Shape, AllKept, Wired, InHand, [Next]_vars
  PROVE  Chat!Next \/ UNCHANGED Chat!vars
<1>1. Chat!Next \/ UNCHANGED Views
  BY AllPassedTells, RefusalEnds, OtherSteps DEF Next
<1>2. QED BY <1>1, ViewsStutter

(* Wherever the sanitizer is the only inbound filter, the loop that        *)
(* filters one message after another, and stops at the first it refuses,   *)
(* is the single Inbound step of ChatLoop, and the outbound filters decide *)
(* between its two answers: what ChatLoop says of the texts that reach the *)
(* Core, or are returned, is true of the chain (chat.rs, chain.rs).        *)
THEOREM ChatRefinement == Spec => ImplementsChat
<1>1. Init => (Wired => Chat!Init)
  <2> SUFFICES ASSUME Init PROVE Chat!Init
    OBVIOUS
  <2>1. inbox \in Inboxes /\ phase = "inbound"
    BY DEF Init
  <2>2. [i \in DOMAIN inbox |-> Class(inbox[i])]
          \in {[i \in DOMAIN box |-> Class(box[i])] : box \in Inboxes}
    BY <2>1
  <2>3. QED BY <2>1, <2>2 DEF Chat!Init, Ended, ToldAll
<1>2. Shape /\ AllKept /\ (Wired => InHand) /\ [Next]_vars
        => [Wired => Chat!Next]_(Chat!vars)
  BY ChatStep
<1>3. QED
  BY <1>1, <1>2, ShapeHolds, KeptHolds, InHandHolds, PTL DEF Spec, ImplementsChat
=============================================================================
