--------------------------- MODULE JsonlReaderProofs ---------------------------
(***************************************************************************)
(* Proofs about JsonlReader, for every input, every way of cutting it into *)
(* buffers and all limits.  The reader works on the bytes it consumed; the *)
(* properties speak of lines by number.  The invariant is stated between   *)
(* the two, about the line that starts after one byte and ends at another. *)
(***************************************************************************)
EXTENDS JsonlReader, FiniteSetTheorems, SequenceTheorems, WellFoundedInduction, TLAPS

Byte == Text \cup {CR, LF}

TypeOK ==
  /\ input \in Seq(Byte)
  /\ position \in Nat /\ buffered \in Nat /\ bytesRead = position
  /\ position <= buffered /\ buffered <= Len(input)
  /\ position <= MaxTraceBytes
  /\ mode \in {"idle", "line", "done"}
  /\ scratch \in Seq(Byte) /\ pendingCr \in BOOLEAN
  /\ emitted \in Seq(Decodable)

(* The k-th line starts after byte s and ends at e, its LF or the end.     *)
LineSpan(k, s, e) ==
  /\ s \in 0..Len(input) /\ e \in (s + 1)..(Len(input) + 1)
  /\ s = 0 \/ s \in Feeds
  /\ e \in Feeds \/ e = Len(input) + 1
  /\ \A i \in (s + 1)..(e - 1) : i \notin Feeds
  /\ FeedsBefore(s + 1) = k - 1

Raw(s, e) == SubSeq(input, s + 1, e - 1)

SpanContent(s, e) ==
  IF e <= Len(input) /\ e - 1 > s /\ input[e - 1] = CR THEN Raw(s, e - 1) ELSE Raw(s, e)

SpanLast(e) == IF e > Len(input) THEN Len(input) ELSE e

SpanVerdict(s, e) ==
  IF Len(SpanContent(s, e)) > MaxLineBytes /\ s + 1 + MaxLineBytes <= MaxTraceBytes
  THEN "LineTooLong"
  ELSE IF SpanLast(e) > MaxTraceBytes THEN "TraceBytes"
  ELSE IF SpanContent(s, e) \in Decodable THEN "record" ELSE "Codec"

(* The next line starts after byte s.                                      *)
LineFrom(s) == /\ s \in 0..Len(input)
               /\ s = 0 \/ s \in Feeds
               /\ FeedsBefore(s + 1) = Len(emitted)

(* The last line had no LF and is read: there is no next one.              *)
Exhausted == /\ position = Len(input)
             /\ FeedsBefore(Len(input) + 1) = Len(emitted) - 1

(* The reader is inside the line that starts after byte s.                 *)
Reads(s) == /\ LineFrom(s)
            /\ s <= position
            /\ \A i \in (s + 1)..position : input[i] # LF
            /\ pendingCr <=> position > s /\ input[position] = CR
            /\ Len(scratch) = position - s - (IF pendingCr THEN 1 ELSE 0)
            /\ \A i \in 1..Len(scratch) : scratch[i] = input[s + i]
            /\ Len(scratch) <= MaxLineBytes

BetweenLines == mode = "idle" => Exhausted \/ LineFrom(position)

InsideLine ==
  mode = "line" => /\ Len(emitted) < MaxRecords
                   /\ \/ Exhausted /\ scratch = <<>> /\ ~pendingCr
                      \/ \E s \in 0..position : Reads(s)

EmittedSpans ==
  \A k \in 1..Len(emitted) : \E s, e \in 0..(Len(input) + 1) :
    /\ LineSpan(k, s, e) /\ s < Len(input)
    /\ emitted[k] = SpanContent(s, e)
    /\ mode = "idle" /\ k = Len(emitted) => position = SpanLast(e)

NoLine == LineFrom(Len(input)) \/ FeedsBefore(Len(input) + 1) = Len(emitted) - 1

(* Why the reader may stop.                                                *)
Justified(why) ==
  \/ why = "Io"
  \/ why = "end" /\ NoLine
  \/ /\ why = "RecordLimit"
     /\ Len(emitted) >= MaxRecords
     /\ \E s \in 0..Len(input) : LineFrom(s) /\ s < Len(input)
  \/ /\ why # "record"
     /\ Len(emitted) < MaxRecords
     /\ \E s, e \in 0..(Len(input) + 1) : /\ LineSpan(Len(emitted) + 1, s, e)
                                          /\ s < Len(input)
                                          /\ why = SpanVerdict(s, e)

StopsWithReason == mode = "done" => Justified(outcome)

ReaderInv == /\ TypeOK
             /\ BetweenLines
             /\ InsideLine
             /\ EmittedSpans
             /\ StopsWithReason
-----------------------------------------------------------------------------
(* Counting line feeds.                                                    *)

LEMMA LeastNat ==
  ASSUME NEW T \in SUBSET Nat, T # {}
  PROVE  \E n \in T : \A m \in T : n <= m
<1>1. PICK n \in T : \A m \in T : ~(<<m, n>> \in OpToRel(<, Nat))
  BY NatLessThanWellFounded, WFMin
<1>2. \A m \in T : ~(m < n)
  BY <1>1 DEF OpToRel
<1> QED BY <1>2

LEMMA InputFacts ==
  ASSUME TypeOK
  PROVE  /\ Len(input) \in Nat
         /\ \A i : i \in Feeds <=> i \in 1..Len(input) /\ input[i] = LF
         /\ CR # LF
BY DEF TypeOK, Feeds, CR, LF

LEMMA FeedsFinite ==
  ASSUME TypeOK, NEW i
  PROVE  IsFiniteSet({j \in Feeds : j < i}) /\ FeedsBefore(i) \in Nat
<1>1. IsFiniteSet(1..Len(input))
  BY InputFacts, FS_Interval
<1>2. {j \in Feeds : j < i} \subseteq 1..Len(input)
  BY DEF Feeds
<1>3. IsFiniteSet({j \in Feeds : j < i})
  BY <1>1, <1>2, FS_Subset
<1> QED BY <1>3, FS_CardinalityType DEF FeedsBefore

LEMMA FeedsMonotone ==
  ASSUME TypeOK, NEW i \in Int, NEW j \in Int, i <= j
  PROVE  FeedsBefore(i) <= FeedsBefore(j)
<1> DEFINE B(n) == {m \in Feeds : m < n}
<1>1. B(i) \subseteq B(j)
  BY InputFacts
<1>2. IsFiniteSet(B(j)) /\ FeedsBefore(i) = Cardinality(B(i)) /\ FeedsBefore(j) = Cardinality(B(j))
  BY FeedsFinite DEF FeedsBefore
<1> HIDE DEF B
<1>3. Cardinality(B(i)) <= Cardinality(B(j))
  BY <1>1, <1>2, FS_Subset
<1> QED BY <1>2, <1>3

LEMMA FeedCounts ==
  ASSUME TypeOK, NEW i \in Feeds
  PROVE  FeedsBefore(i + 1) = FeedsBefore(i) + 1
<1>1. {n \in Feeds : n < i + 1} = {n \in Feeds : n < i} \cup {i}
  BY InputFacts
<1>2. i \notin {n \in Feeds : n < i}
  BY InputFacts
<1> QED BY <1>1, <1>2, FeedsFinite, FS_AddElement DEF FeedsBefore

LEMMA FeedsStrict ==
  ASSUME TypeOK, NEW i \in Feeds, NEW j \in Int, i < j
  PROVE  FeedsBefore(i) < FeedsBefore(j)
<1>1. i \in Int /\ i + 1 <= j
  BY InputFacts
<1>2. FeedsBefore(i + 1) <= FeedsBefore(j)
  BY <1>1, FeedsMonotone
<1>3. FeedsBefore(i) \in Nat /\ FeedsBefore(j) \in Nat
  BY FeedsFinite
<1> QED BY <1>2, <1>3, FeedCounts

LEMMA NoFeedsBetween ==
  ASSUME TypeOK, NEW i \in Int, NEW j \in Int, i <= j, \A n \in i..(j - 1) : n \notin Feeds
  PROVE  FeedsBefore(j) = FeedsBefore(i)
<1>1. {n \in Feeds : n < j} = {n \in Feeds : n < i}
  BY InputFacts
<1> QED BY <1>1 DEF FeedsBefore
-----------------------------------------------------------------------------
(* A span is a line.                                                       *)

LEMMA SpanFacts ==
  ASSUME TypeOK, NEW k, NEW s, NEW e, LineSpan(k, s, e)
  PROVE  /\ s \in Nat /\ e \in Nat /\ s < e /\ s <= Len(input) /\ e <= Len(input) + 1
         /\ FeedsBefore(s + 1) = k - 1 /\ FeedsBefore(e) = FeedsBefore(s + 1)
         /\ k - 1 \in Nat
<1>1. s \in Nat /\ e \in Nat /\ s < e /\ s <= Len(input) /\ e <= Len(input) + 1
  BY InputFacts DEF LineSpan
<1>2. FeedsBefore(e) = FeedsBefore(s + 1)
  BY <1>1, NoFeedsBetween DEF LineSpan
<1> QED BY <1>1, <1>2, FeedsFinite DEF LineSpan

LEMMA SpanIsLine ==
  ASSUME TypeOK, NEW k, NEW s, NEW e, LineSpan(k, s, e)
  PROVE  /\ Starts(k) # {} /\ Start(k) = s + 1 /\ LastByte(k) = e
         /\ HasLine(k) <=> s < Len(input)
         /\ Last(k) = SpanLast(e)
<1>1. /\ s \in Nat /\ e \in Nat /\ s < e /\ s <= Len(input) /\ e <= Len(input) + 1
      /\ Len(input) \in Nat
      /\ FeedsBefore(s + 1) = k - 1 /\ FeedsBefore(e) = k - 1
  BY SpanFacts, InputFacts
<1>2. s + 1 \in Starts(k) /\ e \in Starts(k)
  BY <1>1 DEF Starts
<1>3. ASSUME NEW i \in Starts(k) PROVE i \in Nat /\ s + 1 <= i /\ i <= e
  <2>1. i \in 1..(Len(input) + 1) /\ FeedsBefore(i) = k - 1
    BY DEF Starts
  <2>2. i \in Int
    BY <1>1, <2>1
  <2>3. ASSUME i < s + 1 PROVE FALSE
    <3>1. s \in Feeds
      BY <1>1, <2>1, <2>3 DEF LineSpan
    <3>2. FeedsBefore(i) <= FeedsBefore(s)
      BY <1>1, <2>2, <2>3, FeedsMonotone
    <3>3. FeedsBefore(s) < FeedsBefore(s + 1)
      BY <1>1, <3>1, FeedsStrict
    <3>4. FeedsBefore(i) \in Nat /\ FeedsBefore(s) \in Nat /\ FeedsBefore(s + 1) \in Nat
      BY FeedsFinite
    <3> QED BY <1>1, <2>1, <3>2, <3>3, <3>4
  <2>4. ASSUME i > e PROVE FALSE
    <3>1. e \in Feeds
      BY <1>1, <2>1, <2>4 DEF LineSpan
    <3>2. FeedsBefore(e) < FeedsBefore(i)
      BY <2>2, <2>4, <3>1, <1>1, FeedsStrict
    <3>3. FeedsBefore(i) \in Nat /\ FeedsBefore(e) \in Nat
      BY FeedsFinite
    <3> QED BY <1>1, <2>1, <3>2, <3>3
  <2> QED BY <1>1, <2>1, <2>2, <2>3, <2>4
<1>4. Start(k) = s + 1
  <2>1. Start(k) \in Starts(k) /\ \A j \in Starts(k) : Start(k) <= j
    BY <1>2, <1>3 DEF Start
  <2>2. Start(k) <= s + 1 /\ s + 1 <= Start(k) /\ Start(k) \in Nat
    BY <1>2, <1>3, <2>1
  <2> QED BY <1>1, <2>2
<1>5. LastByte(k) = e
  <2>1. LastByte(k) \in Starts(k) /\ \A j \in Starts(k) : LastByte(k) >= j
    BY <1>2, <1>3, <1>1 DEF LastByte
  <2>2. LastByte(k) <= e /\ e <= LastByte(k) /\ LastByte(k) \in Nat
    BY <1>2, <1>3, <2>1
  <2> QED BY <1>1, <2>2
<1>6. HasLine(k) <=> s < Len(input)
  BY <1>1, <1>2, <1>4 DEF HasLine
<1> QED BY <1>2, <1>4, <1>5, <1>6 DEF Last, SpanLast

LEMMA SpanText ==
  ASSUME TypeOK, NEW k, NEW s, NEW e, LineSpan(k, s, e), s < Len(input)
  PROVE  Content(k) = SpanContent(s, e)
<1>1. /\ s \in Nat /\ e \in Nat /\ s < e /\ e <= Len(input) + 1 /\ Len(input) \in Nat
  BY SpanFacts, InputFacts
<1>2. Start(k) = s + 1 /\ Last(k) = SpanLast(e)
  BY SpanIsLine
<1>3. CASE e = Len(input) + 1
  <2>1. Last(k) = Len(input) /\ Len(input) \notin Feeds
    BY <1>1, <1>2, <1>3 DEF SpanLast, LineSpan
  <2>2. Len(input) = e - 1
    BY <1>1, <1>3
  <2> QED BY <1>1, <1>2, <1>3, <2>1, <2>2 DEF Content, SpanContent, Raw
<1>4. CASE e # Len(input) + 1
  <2>1. e \in Feeds /\ e <= Len(input) /\ Last(k) = e
    BY <1>1, <1>2, <1>4 DEF LineSpan, SpanLast
  <2> DEFINE raw == SubSeq(input, s + 1, e - 1)
  <2>2. /\ raw \in Seq(Byte) /\ Len(raw) = e - 1 - s
        /\ \A i \in 1..Len(raw) : raw[i] = input[s + i]
    BY <1>1, <2>1 DEF TypeOK
  <2>3. raw # <<>> <=> e - 1 > s
    BY <1>1, <2>2
  <2>4. e - 1 > s => raw[Len(raw)] = input[e - 1]
    <3>1. e - 1 > s => Len(raw) \in 1..Len(raw) /\ s + Len(raw) = e - 1
      BY <1>1, <2>2
    <3> QED BY <2>2, <3>1
  <2>5. SubSeq(raw, 1, Len(raw) - 1) = Raw(s, e - 1)
    <3>1. s + 1 \in Int /\ e - 1 - 1 \in Int
      BY <1>1
    <3> QED BY <1>1, <2>1, <2>2 DEF Raw, TypeOK
  <2>6. Content(k) = IF raw # <<>> /\ raw[Len(raw)] = CR
                     THEN SubSeq(raw, 1, Len(raw) - 1) ELSE raw
    BY <1>2, <2>1 DEF Content
  <2> QED BY <1>1, <2>1, <2>3, <2>4, <2>5, <2>6 DEF SpanContent, Raw
<1> QED BY <1>3, <1>4

(* Every byte is followed by an end of its line.                           *)
LEMMA LineEnds ==
  ASSUME TypeOK, NEW s, LineFrom(s), NEW p \in s..Len(input),
         \A i \in (s + 1)..p : input[i] # LF
  PROVE  \E e \in (p + 1)..(Len(input) + 1) : LineSpan(Len(emitted) + 1, s, e)
<1>1. s \in Nat /\ p \in Nat /\ Len(input) \in Nat /\ s <= p /\ p <= Len(input)
  BY InputFacts DEF LineFrom
<1> DEFINE T == {i \in Nat : p < i /\ (i \in Feeds \/ i = Len(input) + 1)}
<1>2. Len(input) + 1 \in T
  BY <1>1
<1>3. PICK e \in T : \A m \in T : e <= m
  BY <1>2, LeastNat
<1>4. e \in (p + 1)..(Len(input) + 1) /\ e \in (s + 1)..(Len(input) + 1)
  BY <1>1, <1>2, <1>3
<1>5. \A i \in (s + 1)..(e - 1) : i \notin Feeds
  <2> SUFFICES ASSUME NEW i \in (s + 1)..(e - 1), i \in Feeds PROVE FALSE
    OBVIOUS
  <2>1. CASE i <= p
    BY <1>1, <2>1, InputFacts
  <2>2. CASE i > p
    BY <1>1, <1>3, <1>4, <2>2
  <2> QED BY <1>1, <1>4, <2>1, <2>2
<1>6. FeedsBefore(s + 1) = Len(emitted) /\ (s = 0 \/ s \in Feeds) /\ s \in 0..Len(input)
  BY DEF LineFrom
<1>7. Len(emitted) + 1 - 1 = Len(emitted)
  BY DEF TypeOK
<1> QED BY <1>3, <1>4, <1>5, <1>6, <1>7 DEF LineSpan

(* After the last line nothing starts.                                     *)
LEMMA NothingLeft ==
  ASSUME TypeOK, NoLine
  PROVE  ~HasLine(Len(emitted) + 1)
<1>1. Len(input) \in Nat /\ Len(emitted) \in Nat
  BY InputFacts DEF TypeOK
<1>2. CASE LineFrom(Len(input))
  <2>1. PICK e \in (Len(input) + 1)..(Len(input) + 1) :
          LineSpan(Len(emitted) + 1, Len(input), e)
    BY <1>1, <1>2, LineEnds
  <2> QED BY <1>1, <2>1, SpanIsLine
<1>3. CASE FeedsBefore(Len(input) + 1) = Len(emitted) - 1
  <2> SUFFICES ASSUME NEW i \in Starts(Len(emitted) + 1) PROVE FALSE
    BY DEF HasLine
  <2>1. i \in 1..(Len(input) + 1) /\ FeedsBefore(i) = Len(emitted)
    BY <1>1 DEF Starts
  <2>2. FeedsBefore(i) <= FeedsBefore(Len(input) + 1)
    BY <1>1, <2>1, FeedsMonotone
  <2> QED BY <1>1, <1>3, <2>1, <2>2
<1> QED BY <1>2, <1>3 DEF NoLine

(* The invariant says what the properties say.                             *)
LEMMA SpansAreLines == ReaderInv => LinesAsSplit
<1> SUFFICES ASSUME ReaderInv
             PROVE  /\ \A k \in 1..Len(emitted) : HasLine(k) /\ emitted[k] = Content(k)
                    /\ mode = "idle" /\ emitted # <<>> => position = Last(Len(emitted))
  BY DEF LinesAsSplit, ReaderInv, TypeOK
<1>1. ASSUME NEW k \in 1..Len(emitted)
      PROVE  /\ HasLine(k) /\ emitted[k] = Content(k)
             /\ mode = "idle" /\ k = Len(emitted) => position = Last(k)
  <2>1. PICK s \in 0..(Len(input) + 1), e \in 0..(Len(input) + 1) :
          /\ LineSpan(k, s, e) /\ s < Len(input)
          /\ emitted[k] = SpanContent(s, e)
          /\ mode = "idle" /\ k = Len(emitted) => position = SpanLast(e)
    BY DEF ReaderInv, EmittedSpans
  <2> QED BY <2>1, SpanIsLine, SpanText DEF ReaderInv
<1>2. emitted # <<>> => Len(emitted) \in 1..Len(emitted)
  BY DEF ReaderInv, TypeOK
<1> QED BY <1>1, <1>2

LEMMA ReasonsAreVerdicts == ReaderInv => VerdictIsBufferFree
<1> SUFFICES ASSUME ReaderInv, mode = "done", outcome # "Io"
             PROVE  outcome = Verdict(Len(emitted) + 1)
  BY DEF VerdictIsBufferFree
<1>1. TypeOK /\ Justified(outcome) /\ Len(emitted) \in Nat /\ MaxRecords \in Nat
  BY ReaderAssumption DEF ReaderInv, StopsWithReason, TypeOK
<1>2. CASE outcome = "end" /\ NoLine
  BY <1>1, <1>2, NothingLeft DEF Verdict
<1>3. ASSUME outcome = "RecordLimit", Len(emitted) >= MaxRecords,
             NEW s \in 0..Len(input), LineFrom(s), s < Len(input)
      PROVE  outcome = Verdict(Len(emitted) + 1)
  <2>1. s \in s..Len(input) /\ \A i \in (s + 1)..s : input[i] # LF
    BY <1>1, InputFacts
  <2>2. PICK e \in (s + 1)..(Len(input) + 1) : LineSpan(Len(emitted) + 1, s, e)
    BY <1>1, <1>3, <2>1, LineEnds
  <2>3. HasLine(Len(emitted) + 1) /\ Len(emitted) + 1 > MaxRecords
    BY <1>1, <1>3, <2>2, SpanIsLine
  <2> QED BY <1>3, <2>3 DEF Verdict
<1>4. ASSUME outcome # "record", Len(emitted) < MaxRecords,
             NEW s \in 0..(Len(input) + 1), NEW e \in 0..(Len(input) + 1),
             LineSpan(Len(emitted) + 1, s, e), s < Len(input), outcome = SpanVerdict(s, e)
      PROVE  outcome = Verdict(Len(emitted) + 1)
  <2>1. /\ HasLine(Len(emitted) + 1) /\ Start(Len(emitted) + 1) = s + 1
        /\ Last(Len(emitted) + 1) = SpanLast(e)
        /\ Content(Len(emitted) + 1) = SpanContent(s, e)
    BY <1>1, <1>4, SpanIsLine, SpanText
  <2>2. ~(Len(emitted) + 1 > MaxRecords)
    BY <1>1, <1>4
  <2> QED BY <1>4, <2>1, <2>2 DEF Verdict, SpanVerdict
<1> QED BY <1>1, <1>2, <1>3, <1>4 DEF Justified
-----------------------------------------------------------------------------
(* What the reader holds of its line.                                      *)

LEMMA RawFacts ==
  ASSUME TypeOK, NEW s \in Nat, NEW e \in Nat, s < e, e <= Len(input) + 1
  PROVE  /\ Raw(s, e) \in Seq(Byte) /\ Len(Raw(s, e)) = e - 1 - s
         /\ \A i \in 1..(e - 1 - s) : Raw(s, e)[i] = input[s + i]
<1>1. input \in Seq(Byte) /\ Len(input) \in Nat
  BY InputFacts DEF TypeOK
<1> QED BY <1>1 DEF Raw

LEMMA RawIs ==
  ASSUME TypeOK, NEW s \in Nat, NEW e \in Nat, s < e, e <= Len(input) + 1,
         NEW line \in Seq(Byte), Len(line) = e - 1 - s,
         \A i \in 1..Len(line) : line[i] = input[s + i]
  PROVE  line = Raw(s, e)
<1>1. /\ Raw(s, e) \in Seq(Byte) /\ Len(Raw(s, e)) = Len(line)
      /\ \A i \in 1..Len(line) : Raw(s, e)[i] = line[i]
  BY RawFacts
<1> QED BY <1>1, SeqEqual

LEMMA ContentLength ==
  ASSUME TypeOK, NEW k, NEW s, NEW e, LineSpan(k, s, e)
  PROVE  LET n == Len(SpanContent(s, e))
             cut == e <= Len(input) /\ e - 1 > s /\ input[e - 1] = CR
         IN  (cut => n = e - 2 - s) /\ (~cut => n = e - 1 - s)
<1>1. s \in Nat /\ e \in Nat /\ s < e /\ e <= Len(input) + 1 /\ Len(input) \in Nat
  BY SpanFacts, InputFacts
<1>2. Len(Raw(s, e)) = e - 1 - s
  BY <1>1, RawFacts
<1>3. ASSUME e - 1 > s PROVE Len(Raw(s, e - 1)) = e - 2 - s
  <2>1. e - 1 \in Nat /\ s < e - 1 /\ e - 1 <= Len(input) + 1
    BY <1>1, <1>3
  <2>2. Len(Raw(s, e - 1)) = e - 1 - 1 - s
    BY <2>1, RawFacts, <1>1
  <2> QED BY <1>1, <2>2
<1> QED BY <1>2, <1>3 DEF SpanContent

LEMMA ReadsFacts ==
  ASSUME TypeOK, NEW s, Reads(s)
  PROVE  /\ s \in Nat /\ position \in Nat /\ s <= position /\ position <= Len(input)
         /\ Len(input) \in Nat /\ Len(scratch) \in Nat /\ Len(scratch) <= MaxLineBytes
         /\ MaxLineBytes \in Nat /\ MaxTraceBytes \in Nat /\ position <= MaxTraceBytes
         /\ pendingCr => position > s /\ input[position] = CR /\ Len(scratch) = position - s - 1
         /\ ~pendingCr => Len(scratch) = position - s /\ (position > s => input[position] # CR)
<1>1. s \in Nat /\ s <= position
  BY InputFacts DEF Reads, LineFrom
<1>2. position \in Nat /\ position <= Len(input) /\ Len(input) \in Nat /\ position <= MaxTraceBytes
  BY DEF TypeOK
<1>3. Len(scratch) \in Nat /\ Len(scratch) <= MaxLineBytes /\ MaxLineBytes \in Nat /\ MaxTraceBytes \in Nat
  BY ReaderAssumption DEF TypeOK, Reads
<1>4. /\ pendingCr => position > s /\ input[position] = CR /\ Len(scratch) = position - s - 1
      /\ ~pendingCr => Len(scratch) = position - s /\ (position > s => input[position] # CR)
  BY <1>1, <1>2 DEF Reads
<1> QED BY <1>1, <1>2, <1>3, <1>4

(* With a byte that is no LF, a CR before it joins the line.               *)
LEMMA LineFacts ==
  ASSUME TypeOK, NEW s, Reads(s), NEW b, b # LF
  PROVE  /\ Line(b) \in Seq(Byte) /\ Len(Line(b)) = position - s
         /\ \A i \in 1..(position - s) : Line(b)[i] = input[s + i]
         /\ ~DeferredTooLong(b) => position - s <= MaxLineBytes
<1>1. /\ s \in Nat /\ position \in Nat /\ s <= position /\ Len(scratch) \in Nat
      /\ scratch \in Seq(Byte) /\ CR \in Byte
      /\ \A i \in 1..Len(scratch) : scratch[i] = input[s + i]
  BY ReadsFacts DEF TypeOK, Byte, Reads
<1>2. CASE pendingCr
  <2>1. Line(b) = Append(scratch, CR) /\ DeferredTooLong(b) <=> Full(scratch)
    BY <1>2 DEF Line, Deferred, DeferredTooLong
  <2>2. Len(scratch) = position - s - 1 /\ input[position] = CR /\ Len(scratch) <= MaxLineBytes
    BY <1>2, ReadsFacts
  <2>3. s + (position - s) = position /\ position - s = Len(scratch) + 1
    BY <1>1, <2>2
  <2>4. /\ Append(scratch, CR) \in Seq(Byte) /\ Len(Append(scratch, CR)) = Len(scratch) + 1
        /\ \A i \in 1..Len(scratch) : Append(scratch, CR)[i] = scratch[i]
        /\ Append(scratch, CR)[Len(scratch) + 1] = CR
    BY <1>1
  <2>5. Line(b) = Append(scratch, CR)
    BY <1>2 DEF Line, Deferred
  <2>6. ASSUME NEW i \in 1..(position - s) PROVE Line(b)[i] = input[s + i]
    <3>1. CASE i \in 1..Len(scratch)
      BY <1>1, <2>4, <2>5, <3>1
    <3>2. CASE i = position - s
      <4>1. i = Len(scratch) + 1 /\ s + i = position
        BY <1>1, <2>3, <3>2
      <4>2. Line(b)[i] = CR
        BY <2>4, <2>5, <4>1
      <4>3. input[s + i] = CR
        BY <2>2, <4>1
      <4> QED BY <4>2, <4>3
    <3>3. i \in 1..Len(scratch) \/ i = position - s
      BY <1>1, <2>3
    <3> QED BY <3>1, <3>2, <3>3
  <2>7. ~DeferredTooLong(b) => position - s <= MaxLineBytes
    BY <1>1, <1>2, <2>2, <2>3, ReadsFacts DEF DeferredTooLong, Deferred, Full
  <2> QED BY <2>3, <2>4, <2>5, <2>6, <2>7
<1>3. CASE ~pendingCr
  <2>1. Line(b) = scratch /\ Len(scratch) = position - s /\ Len(scratch) <= MaxLineBytes
    BY <1>3, ReadsFacts DEF Line, Deferred
  <2> QED BY <1>1, <2>1
<1> QED BY <1>2, <1>3 DEF TypeOK
-----------------------------------------------------------------------------
(* How a line ends.                                                        *)

LEMMA SameFeeds ==
  ASSUME input' = input
  PROVE  Feeds' = Feeds
BY DEF Feeds

LEMMA SameCount ==
  ASSUME input' = input, NEW i
  PROVE  FeedsBefore(i)' = FeedsBefore(i)
BY SameFeeds DEF FeedsBefore

LEMMA SameSpan ==
  ASSUME input' = input, NEW k, NEW s, NEW e
  PROVE  /\ LineSpan(k, s, e)' <=> LineSpan(k, s, e)
         /\ SpanContent(s, e)' = SpanContent(s, e)
         /\ SpanLast(e)' = SpanLast(e)
         /\ SpanVerdict(s, e)' = SpanVerdict(s, e)
<1>1. LineSpan(k, s, e)' <=> LineSpan(k, s, e)
  BY SameFeeds, SameCount DEF LineSpan
<1>2. SpanContent(s, e)' = SpanContent(s, e) /\ SpanLast(e)' = SpanLast(e)
  BY DEF SpanContent, SpanLast, Raw
<1>3. SpanVerdict(s, e)' = SpanVerdict(s, e)
  BY <1>2 DEF SpanVerdict
<1> QED BY <1>1, <1>2, <1>3

LEMMA EmittedStay ==
  ASSUME EmittedSpans, input' = input, emitted' = emitted, mode' # "idle"
  PROVE  EmittedSpans'
<1> SUFFICES ASSUME NEW k \in 1..Len(emitted)
             PROVE  \E s, e \in 0..(Len(input) + 1) :
                      /\ LineSpan(k, s, e)' /\ s < Len(input)
                      /\ emitted[k] = SpanContent(s, e)'
  BY DEF EmittedSpans
<1>1. PICK s \in 0..(Len(input) + 1), e \in 0..(Len(input) + 1) :
        LineSpan(k, s, e) /\ s < Len(input) /\ emitted[k] = SpanContent(s, e)
  BY DEF EmittedSpans
<1> QED BY <1>1, SameSpan

LEMMA StopStep ==
  ASSUME ReaderInv, TypeOK', NEW why, Stop(why), Justified(why)
  PROVE  ReaderInv'
<1>1. mode' = "done" /\ outcome' = why /\ input' = input /\ emitted' = emitted
  BY DEF Stop
<1>2. BetweenLines' /\ InsideLine' /\ EmittedSpans'
  BY <1>1, EmittedStay DEF BetweenLines, InsideLine, ReaderInv
<1>3. ASSUME NEW s PROVE LineFrom(s)' <=> LineFrom(s)
  BY <1>1, SameFeeds, SameCount DEF LineFrom
<1>4. NoLine' <=> NoLine
  BY <1>1, SameFeeds, SameCount DEF NoLine, LineFrom
<1>5. ASSUME NEW s, NEW e
      PROVE  LineSpan(Len(emitted) + 1, s, e)' <=> LineSpan(Len(emitted) + 1, s, e)
  BY <1>1, SameFeeds, SameCount DEF LineSpan
<1>6. ASSUME NEW s, NEW e PROVE SpanVerdict(s, e)' = SpanVerdict(s, e)
  BY <1>1, SameSpan
<1>7. StopsWithReason'
  BY <1>1, <1>3, <1>4, <1>5, <1>6 DEF StopsWithReason, Justified
<1> QED BY <1>2, <1>7 DEF ReaderInv

(* A line that was read to its end is decoded and counted, or refused.     *)
LEMMA DecodeStep ==
  ASSUME ReaderInv, TypeOK', Len(emitted) < MaxRecords, NEW line, Decode(line),
         NEW s \in 0..(Len(input) + 1), NEW e \in 0..(Len(input) + 1),
         LineSpan(Len(emitted) + 1, s, e), s < Len(input),
         line = SpanContent(s, e), Len(line) <= MaxLineBytes,
         SpanLast(e) <= MaxTraceBytes, position' = SpanLast(e)
  PROVE  ReaderInv'
<1>1. /\ TypeOK /\ s \in Nat /\ e \in Nat /\ s < e /\ e <= Len(input) + 1
      /\ Len(input) \in Nat /\ Len(emitted) \in Nat
      /\ MaxLineBytes \in Nat /\ MaxTraceBytes \in Nat
      /\ FeedsBefore(s + 1) = Len(emitted) /\ FeedsBefore(e) = Len(emitted)
  <2>1. TypeOK /\ Len(emitted) \in Nat
    BY DEF ReaderInv, TypeOK
  <2>2. FeedsBefore(s + 1) = Len(emitted) + 1 - 1 /\ FeedsBefore(e) = FeedsBefore(s + 1)
    BY <2>1, SpanFacts
  <2> QED BY <2>1, <2>2, SpanFacts, InputFacts, ReaderAssumption
<1>2. CASE line \in Decodable
  <2>1. /\ emitted' = Append(emitted, line) /\ mode' = "idle" /\ input' = input
        /\ outcome' = outcome
    BY <1>2 DEF Decode
  <2>2. /\ Len(emitted') = Len(emitted) + 1 /\ emitted'[Len(emitted) + 1] = line
        /\ \A k \in 1..Len(emitted) : emitted'[k] = emitted[k]
    BY <2>1 DEF ReaderInv, TypeOK
  <2>3. BetweenLines'
    <3>1. CASE e = Len(input) + 1
      <4>1. position' = Len(input) /\ FeedsBefore(Len(input) + 1) = Len(emitted)
        BY <1>1, <3>1 DEF SpanLast
      <4>2. FeedsBefore(Len(input) + 1)' = Len(emitted)
        BY <2>1, <4>1, SameFeeds DEF FeedsBefore
      <4> QED BY <1>1, <2>1, <2>2, <4>1, <4>2 DEF BetweenLines, Exhausted
    <3>2. CASE e # Len(input) + 1
      <4>1. e \in Feeds /\ position' = e /\ e <= Len(input)
        BY <1>1, <3>2 DEF LineSpan, SpanLast
      <4>2. FeedsBefore(e + 1) = Len(emitted) + 1
        BY <1>1, <4>1, FeedCounts
      <4>3. FeedsBefore(position + 1)' = Len(emitted) + 1
        BY <2>1, <4>1, <4>2, SameFeeds DEF FeedsBefore
      <4> QED BY <1>1, <2>1, <2>2, <4>1, <4>3, SameFeeds DEF BetweenLines, LineFrom
    <3> QED BY <3>1, <3>2
  <2>4. EmittedSpans'
    <3> SUFFICES ASSUME NEW k \in 1..Len(emitted')
                 PROVE  \E a, z \in 0..(Len(input) + 1) :
                          /\ LineSpan(k, a, z)' /\ a < Len(input)
                          /\ emitted'[k] = SpanContent(a, z)'
                          /\ k = Len(emitted') => position' = SpanLast(z)'
      BY <2>1 DEF EmittedSpans
    <3>1. CASE k = Len(emitted) + 1
      <4>1. LineSpan(k, s, e)
        BY <3>1
      <4>2. LineSpan(k, s, e)' /\ SpanContent(s, e)' = line /\ position' = SpanLast(e)'
        BY <2>1, <4>1, SameSpan
      <4> QED BY <2>2, <3>1, <4>2
    <3>2. CASE k \in 1..Len(emitted)
      <4>1. PICK a \in 0..(Len(input) + 1), z \in 0..(Len(input) + 1) :
              LineSpan(k, a, z) /\ a < Len(input) /\ emitted[k] = SpanContent(a, z)
        BY <3>2 DEF ReaderInv, EmittedSpans
      <4>2. LineSpan(k, a, z)' /\ SpanContent(a, z)' = SpanContent(a, z)
        BY <2>1, <4>1, SameSpan
      <4>3. k # Len(emitted')
        BY <1>1, <2>2, <3>2
      <4> QED BY <2>2, <3>2, <4>1, <4>2, <4>3
    <3> QED BY <1>1, <2>2, <3>1, <3>2
  <2>5. InsideLine' /\ StopsWithReason'
    BY <2>1 DEF InsideLine, StopsWithReason
  <2> QED BY <2>3, <2>4, <2>5 DEF ReaderInv
<1>3. CASE line \notin Decodable
  <2>1. Stop("Codec")
    BY <1>3 DEF Decode
  <2>2. Len(SpanContent(s, e)) \in Nat
    BY <1>1, ContentLength
  <2>3. ~(Len(SpanContent(s, e)) > MaxLineBytes) /\ ~(SpanLast(e) > MaxTraceBytes)
    <3>1. SpanLast(e) \in Nat
      BY <1>1 DEF SpanLast
    <3> QED BY <1>1, <2>2, <3>1
  <2>4. SpanVerdict(s, e) = "Codec"
    BY <1>3, <2>3 DEF SpanVerdict
  <2>5. Justified("Codec")
    BY <2>4 DEF Justified
  <2> QED BY <2>1, <2>5, StopStep
<1> QED BY <1>2, <1>3
-----------------------------------------------------------------------------
(* The steps.                                                              *)

LEMMA DecodeTypes ==
  ASSUME TypeOK, NEW line, Decode(line)
  PROVE  /\ input' = input /\ emitted' \in Seq(Decodable)
         /\ mode' \in {"idle", "line", "done"}
<1>1. CASE line \in Decodable
  <2>1. emitted' = Append(emitted, line) /\ mode' = "idle" /\ input' = input
    BY <1>1 DEF Decode
  <2> QED BY <1>1, <2>1 DEF TypeOK
<1>2. CASE line \notin Decodable
  BY <1>2 DEF Decode, Stop, TypeOK
<1> QED BY <1>1, <1>2

LEMMA Types ==
  ASSUME TypeOK, input' = input, position' \in Nat, buffered' \in Nat,
         bytesRead' = position', position' <= buffered', buffered' <= Len(input),
         position' <= MaxTraceBytes, mode' \in {"idle", "line", "done"},
         scratch' \in Seq(Byte), pendingCr' \in BOOLEAN, emitted' \in Seq(Decodable)
  PROVE  TypeOK'
BY DEF TypeOK

LEMMA InitHolds == Init => ReaderInv
<1> SUFFICES ASSUME Init PROVE ReaderInv
  OBVIOUS
<1>1. PICK n \in 0..MaxInput : input \in [1..n -> Byte]
  BY DEF Init, Byte
<1>2. n \in Nat /\ MaxTraceBytes \in Nat
  BY ReaderAssumption
<1>3. input \in Seq(Byte)
  BY <1>1, <1>2
<1>4. TypeOK
  <2>1. /\ position = 0 /\ buffered = 0 /\ bytesRead = 0 /\ mode = "idle"
        /\ scratch = <<>> /\ pendingCr = FALSE /\ emitted = <<>>
    BY DEF Init
  <2>2. Len(input) \in Nat /\ <<>> \in Seq(Byte) /\ <<>> \in Seq(Decodable)
    BY <1>3
  <2>3. position <= buffered /\ buffered <= Len(input) /\ position <= MaxTraceBytes
    BY <1>2, <2>1, <2>2
  <2>4. scratch \in Seq(Byte) /\ emitted \in Seq(Decodable)
    BY <2>1, <2>2
  <2> QED BY <1>3, <2>1, <2>3, <2>4 DEF TypeOK
<1>5. LineFrom(0)
  <2>1. FeedsBefore(1) = 0
    <3>1. {j \in Feeds : j < 1} = {}
      BY <1>4, InputFacts
    <3> QED BY <3>1, FS_EmptySet DEF FeedsBefore
  <2>2. 0 + 1 = 1 /\ Len(emitted) = 0
    BY DEF Init
  <2> QED BY <1>4, <2>1, <2>2, InputFacts DEF LineFrom
<1>6. BetweenLines /\ InsideLine /\ EmittedSpans /\ StopsWithReason
  BY <1>5 DEF Init, BetweenLines, InsideLine, EmittedSpans, StopsWithReason
<1> QED BY <1>4, <1>6 DEF ReaderInv

(* What the reader keeps when a step only moves it within its line.        *)
LEMMA WithinLine ==
  ASSUME ReaderInv, TypeOK', input' = input, emitted' = emitted, mode = "line", mode' = "line",
         \/ Exhausted' /\ scratch' = <<>> /\ ~pendingCr'
         \/ \E s \in 0..position' : Reads(s)'
  PROVE  ReaderInv'
<1>1. Len(emitted) < MaxRecords
  BY DEF ReaderInv, InsideLine
<1>2. EmittedSpans'
  BY EmittedStay DEF ReaderInv
<1> QED BY <1>1, <1>2 DEF ReaderInv, BetweenLines, InsideLine, StopsWithReason

LEMMA BeginLineStep == ASSUME ReaderInv, BeginLine PROVE ReaderInv'
<1>1. /\ mode = "idle" /\ mode' = "line" /\ scratch' = <<>> /\ pendingCr' = FALSE
      /\ Len(emitted) < MaxRecords
      /\ UNCHANGED <<input, position, buffered, bytesRead, emitted, outcome>>
  BY DEF BeginLine
<1>2. TypeOK'
  <2>1. <<>> \in Seq(Byte) /\ scratch' \in Seq(Byte)
    BY <1>1
  <2> QED BY <1>1, <2>1, Types DEF ReaderInv, TypeOK
<1>3. CASE Exhausted
  <2>1. Exhausted'
    BY <1>1, <1>3, SameFeeds DEF Exhausted, FeedsBefore
  <2>2. EmittedSpans'
    BY <1>1, EmittedStay DEF ReaderInv
  <2> QED BY <1>1, <1>2, <2>1, <2>2 DEF ReaderInv, BetweenLines, InsideLine, StopsWithReason
<1>4. CASE LineFrom(position)
  <2>1. position \in Nat /\ MaxLineBytes \in Nat
    BY ReaderAssumption DEF ReaderInv, TypeOK
  <2>4. EmittedSpans'
    BY <1>1, EmittedStay DEF ReaderInv
  <2>5. \E s \in 0..position' : Reads(s)'
    <3>1. \E s : s = position
      OBVIOUS
    <3>2. PICK s : s = position
      BY <3>1
    <3>3. LineFrom(s)' /\ s <= position' /\ ~(position' > s)
      BY <1>1, <1>4, <2>1, <3>2, SameFeeds DEF LineFrom, FeedsBefore
    <3>4. (s + 1)..position' = {} /\ Len(scratch') = 0 /\ position' - s = 0
      BY <1>1, <2>1, <3>2
    <3>5. Reads(s)'
      BY <1>1, <2>1, <3>3, <3>4 DEF Reads
    <3> QED BY <1>1, <2>1, <3>2, <3>5
  <2> QED BY <1>1, <1>2, <2>4, <2>5 DEF ReaderInv, BetweenLines, InsideLine, StopsWithReason
<1> QED BY <1>1, <1>3, <1>4 DEF ReaderInv, BetweenLines

LEMMA FillStep == ASSUME ReaderInv, Fill PROVE ReaderInv'
<1>1. /\ mode = "line" /\ mode' = mode
      /\ buffered' \in (position + 1)..Len(input)
      /\ UNCHANGED <<input, position, scratch, pendingCr, bytesRead, emitted, outcome>>
  BY DEF Fill
<1>2. TypeOK'
  BY <1>1, InputFacts DEF ReaderInv, TypeOK
<1>3. ASSUME NEW s, Reads(s) PROVE Reads(s)'
  BY <1>1, <1>3, SameFeeds DEF Reads, LineFrom, FeedsBefore
<1>4. Exhausted => Exhausted'
  BY <1>1, SameFeeds DEF Exhausted, FeedsBefore
<1>5. \/ Exhausted' /\ scratch' = <<>> /\ ~pendingCr'
      \/ \E s \in 0..position' : Reads(s)'
  BY <1>1, <1>3, <1>4 DEF ReaderInv, InsideLine
<1> QED BY <1>1, <1>2, <1>5, WithinLine

(* The reader stops without taking a byte.                                 *)
LEMMA StopHere ==
  ASSUME ReaderInv, NEW why, Stop(why), Justified(why),
         UNCHANGED <<position, buffered, scratch, pendingCr, bytesRead>>
  PROVE  ReaderInv'
<1>1. TypeOK'
  BY DEF Stop, ReaderInv, TypeOK
<1> QED BY <1>1, StopStep

LEMMA EndAtLimitStep == ASSUME ReaderInv, EndAtLimit PROVE ReaderInv'
<1>1. /\ Stop(IF AtEnd THEN "end" ELSE "RecordLimit")
      /\ Exhausted \/ LineFrom(position)
      /\ Len(emitted) >= MaxRecords
      /\ UNCHANGED <<position, buffered, scratch, pendingCr, bytesRead>>
  BY DEF EndAtLimit, ReaderInv, BetweenLines
<1>2. CASE AtEnd
  <2>1. NoLine
    BY <1>1, <1>2 DEF AtEnd, Exhausted, NoLine
  <2>2. Justified("end") /\ Stop("end")
    BY <1>1, <1>2, <2>1 DEF Justified
  <2> QED BY <1>1, <2>2, StopHere
<1>3. CASE ~AtEnd
  <2>1. LineFrom(position) /\ position < Len(input) /\ position \in 0..Len(input)
    BY <1>1, <1>3, InputFacts DEF AtEnd, Exhausted, ReaderInv, TypeOK
  <2>2. Justified("RecordLimit") /\ Stop("RecordLimit")
    BY <1>1, <1>3, <2>1 DEF Justified
  <2> QED BY <1>1, <2>2, StopHere
<1> QED BY <1>2, <1>3

LEMMA FailIoStep == ASSUME ReaderInv, FailIo PROVE ReaderInv'
BY StopHere DEF FailIo, Justified

(* A verdict about the line being read.                                    *)
LEMMA SpanJustifies ==
  ASSUME TypeOK, Len(emitted) < MaxRecords, NEW s, NEW e,
         LineSpan(Len(emitted) + 1, s, e), s < Len(input), SpanVerdict(s, e) # "record"
  PROVE  Justified(SpanVerdict(s, e))
<1>1. s \in 0..(Len(input) + 1) /\ e \in 0..(Len(input) + 1)
  BY SpanFacts, InputFacts
<1> QED BY <1>1 DEF Justified

LEMMA TooLong ==
  ASSUME TypeOK, Len(emitted) < MaxRecords, NEW s, NEW e,
         LineSpan(Len(emitted) + 1, s, e), s < Len(input),
         Len(SpanContent(s, e)) > MaxLineBytes, s + 1 + MaxLineBytes <= MaxTraceBytes
  PROVE  Justified("LineTooLong")
<1>1. SpanVerdict(s, e) = "LineTooLong"
  BY DEF SpanVerdict
<1> QED BY <1>1, SpanJustifies

LEMMA EndOfInputStep == ASSUME ReaderInv, EndOfInput PROVE ReaderInv'
<1>1. /\ TypeOK /\ position = Len(input) /\ Len(emitted) < MaxRecords
      /\ UNCHANGED <<position, buffered, scratch, pendingCr, bytesRead>>
  BY DEF EndOfInput, AtEnd, ReaderInv, InsideLine
<1>2. CASE Exhausted /\ scratch = <<>> /\ ~pendingCr
  <2>1. Stop("end") /\ Justified("end")
    BY <1>2 DEF EndOfInput, Justified, NoLine, Exhausted
  <2> QED BY <1>1, <2>1, StopHere
<1>3. ASSUME NEW s \in 0..position, Reads(s) PROVE ReaderInv'
  <2>1. /\ s \in Nat /\ s <= Len(input) /\ Len(input) \in Nat
        /\ Len(scratch) \in Nat /\ Len(scratch) <= MaxLineBytes
        /\ MaxLineBytes \in Nat /\ MaxTraceBytes \in Nat /\ Len(input) <= MaxTraceBytes
        /\ pendingCr => /\ Len(input) > s /\ input[Len(input)] = CR
                        /\ Len(scratch) = Len(input) - s - 1
        /\ ~pendingCr => Len(scratch) = Len(input) - s
    BY <1>1, <1>3, ReadsFacts
  <2> DEFINE e == Len(input) + 1
  <2>2. PICK z \in (Len(input) + 1)..(Len(input) + 1) : LineSpan(Len(emitted) + 1, s, z)
    <3>1. LineFrom(s) /\ \A i \in (s + 1)..Len(input) : input[i] # LF
      BY <1>1, <1>3 DEF Reads
    <3>2. Len(input) \in s..Len(input)
      BY <2>1
    <3> QED BY <1>1, <3>1, <3>2, LineEnds
  <2>3. z = e /\ LineSpan(Len(emitted) + 1, s, e)
    BY <2>1, <2>2
  <2>4. e \in Nat /\ s < e /\ e <= Len(input) + 1 /\ SpanContent(s, e) = Raw(s, e)
    BY <2>1 DEF SpanContent
  <2>5. SpanLast(e) = position /\ SpanLast(e) <= MaxTraceBytes
    BY <1>1, <2>1 DEF SpanLast
  <2>7. CASE pendingCr /\ Full(scratch)
    <3>1. Stop("LineTooLong")
      BY <1>1, <2>7 DEF EndOfInput
    <3>2. Len(SpanContent(s, e)) = Len(input) - s
      <4>1. Len(Raw(s, e)) = e - 1 - s
        BY <1>1, <2>4, <2>1, RawFacts
      <4>2. e - 1 - s = Len(input) - s
        BY <2>1
      <4> QED BY <2>4, <4>1, <4>2
    <3>3. s < Len(input) /\ Len(SpanContent(s, e)) > MaxLineBytes
          /\ s + 1 + MaxLineBytes <= MaxTraceBytes
      BY <2>1, <2>7, <3>2 DEF Full
    <3> QED BY <1>1, <2>3, <3>1, <3>3, TooLong, StopHere
  <2>8. CASE pendingCr /\ ~Full(scratch)
    <3> DEFINE line == Append(scratch, CR)
    <3>1. Decode(line)
      BY <2>8 DEF EndOfInput
    <3> HIDE DEF line
    <3>2. line = Line("") /\ "" # LF
      BY <2>8 DEF Line, Deferred, LF, line
    <3>3. /\ line \in Seq(Byte) /\ Len(line) = e - 1 - s
          /\ \A i \in 1..Len(line) : line[i] = input[s + i]
      <4>1. /\ Line("") \in Seq(Byte) /\ Len(Line("")) = position - s
            /\ \A i \in 1..(position - s) : Line("")[i] = input[s + i]
        <5>1. TypeOK /\ "" # LF
          BY <1>1, <3>2
        <5> QED BY ONLY <1>3, <5>1, LineFacts
      <4>2. e - 1 - s = position - s
        BY <1>1, <2>1
      <4>3. line \in Seq(Byte) /\ Len(line) = position - s
        BY <3>2, <4>1
      <4>4. \A i \in 1..(position - s) : line[i] = input[s + i]
        BY <3>2, <4>1
      <4> HIDE DEF e
      <4> QED BY <4>2, <4>3, <4>4
    <3>4. line = SpanContent(s, e)
      BY <1>1, <2>1, <2>4, <3>3, RawIs
    <3>5. Len(line) <= MaxLineBytes /\ s < Len(input)
      BY <2>1, <2>8, <3>3 DEF Full
    <3>6. TypeOK'
      <4>1. /\ input' = input /\ emitted' \in Seq(Decodable)
            /\ mode' \in {"idle", "line", "done"}
        BY <1>1, <3>1, DecodeTypes
      <4> QED BY <1>1, <4>1, Types DEF TypeOK
    <3>7. s \in 0..(Len(input) + 1) /\ e \in 0..(Len(input) + 1) /\ position' = SpanLast(e)
      BY <1>1, <2>1, <2>5
    <3> HIDE DEF e
    <3> QED BY <1>1, <2>3, <2>5, <3>1, <3>4, <3>5, <3>6, <3>7, DecodeStep
  <2>9. CASE ~pendingCr /\ scratch = <<>>
    <3>1. Stop("end") /\ s = Len(input)
      BY <2>1, <2>9 DEF EndOfInput
    <3>2. Justified("end")
      BY <1>3, <3>1 DEF Justified, NoLine, Reads
    <3> QED BY <1>1, <3>1, <3>2, StopHere
  <2>10. CASE ~pendingCr /\ scratch # <<>>
    <3>1. Decode(scratch)
      BY <2>10 DEF EndOfInput
    <3>2. /\ scratch \in Seq(Byte) /\ Len(scratch) = e - 1 - s /\ s < Len(input)
          /\ \A i \in 1..Len(scratch) : scratch[i] = input[s + i]
      BY <1>1, <1>3, <2>1, <2>10 DEF TypeOK, Reads
    <3>3. scratch = SpanContent(s, e)
      BY <1>1, <2>1, <2>4, <3>2, RawIs
    <3>4. TypeOK'
      <4>1. /\ input' = input /\ emitted' \in Seq(Decodable)
            /\ mode' \in {"idle", "line", "done"}
        BY <1>1, <3>1, DecodeTypes
      <4> QED BY <1>1, <4>1, Types DEF TypeOK
    <3>5. s \in 0..(Len(input) + 1) /\ e \in 0..(Len(input) + 1) /\ position' = SpanLast(e)
      BY <1>1, <2>1, <2>5
    <3> HIDE DEF e
    <3> QED BY <1>1, <2>1, <2>3, <2>5, <3>1, <3>2, <3>3, <3>4, <3>5, DecodeStep
  <2> QED BY <2>7, <2>8, <2>9, <2>10
<1> QED BY <1>2, <1>3 DEF ReaderInv, InsideLine, EndOfInput
-----------------------------------------------------------------------------
(* One byte of the buffer.                                                 *)

LEMMA AtByteFacts ==
  ASSUME ReaderInv, NEW b, AtByte(b)
  PROVE  /\ TypeOK /\ Len(emitted) < MaxRecords /\ mode = "line"
         /\ position \in Nat /\ position < Len(input) /\ position < buffered
         /\ position + 1 \in 1..Len(input) /\ input[position + 1] = b
         /\ \E s \in 0..position : Reads(s)
<1>1. TypeOK /\ mode = "line" /\ position # buffered /\ input[position + 1] = b
  BY DEF ReaderInv, AtByte, Empty
<1>2. /\ position \in Nat /\ position < buffered /\ position < Len(input)
      /\ position + 1 \in 1..Len(input)
  BY <1>1 DEF TypeOK
<1> QED BY <1>1, <1>2 DEF ReaderInv, InsideLine, Exhausted

(* The line goes on at least to the byte after it.                         *)
LEMMA LineGoesOn ==
  ASSUME ReaderInv, NEW b, AtByte(b), b # LF, NEW s, Reads(s)
  PROVE  \E e \in (position + 2)..(Len(input) + 1) : LineSpan(Len(emitted) + 1, s, e)
<1>1. /\ TypeOK /\ position \in Nat /\ position < Len(input) /\ input[position + 1] = b
  BY AtByteFacts
<1>2. s \in Nat /\ s <= position /\ Len(input) \in Nat
  BY <1>1, ReadsFacts
<1>3. \A i \in (s + 1)..(position + 1) : input[i] # LF
  <2> SUFFICES ASSUME NEW i \in (s + 1)..(position + 1) PROVE input[i] # LF
    OBVIOUS
  <2>1. CASE i = position + 1
    BY <1>1, <2>1
  <2>2. CASE i # position + 1
    <3>1. i \in (s + 1)..position
      BY <1>1, <1>2, <2>2
    <3> QED BY <3>1 DEF Reads
  <2> QED BY <2>1, <2>2
<1>4. position + 1 \in s..Len(input) /\ LineFrom(s)
  BY <1>1, <1>2 DEF Reads
<1>5. PICK e \in (position + 1 + 1)..(Len(input) + 1) : LineSpan(Len(emitted) + 1, s, e)
  BY <1>1, <1>3, <1>4, LineEnds
<1>6. e \in (position + 2)..(Len(input) + 1)
  BY <1>1, <1>2
<1> QED BY <1>5, <1>6

LEMMA RefuseDeferredStep ==
  ASSUME ReaderInv, NEW b, RefuseDeferred(b)
  PROVE  ReaderInv'
<1>1. /\ AtByte(b) /\ pendingCr /\ b # LF /\ Len(scratch) = MaxLineBytes
      /\ Stop("LineTooLong") /\ UNCHANGED <<position, buffered, scratch, pendingCr, bytesRead>>
  BY DEF RefuseDeferred, DeferredTooLong, Deferred, Full
<1>2. /\ TypeOK /\ Len(emitted) < MaxRecords /\ position \in Nat /\ position < Len(input)
  BY <1>1, AtByteFacts
<1>3. PICK s \in 0..position : Reads(s)
  BY <1>1, AtByteFacts
<1>4. PICK e \in (position + 2)..(Len(input) + 1) : LineSpan(Len(emitted) + 1, s, e)
  BY <1>1, <1>3, LineGoesOn
<1>5. /\ s \in Nat /\ s <= position /\ position <= MaxTraceBytes /\ Len(input) \in Nat
      /\ MaxLineBytes \in Nat /\ MaxTraceBytes \in Nat /\ MaxLineBytes = position - s - 1
  BY <1>1, <1>2, <1>3, ReadsFacts
<1>6. e \in Nat /\ e >= position + 2
  BY <1>2, <1>4, <1>5
<1>7. Len(SpanContent(s, e)) = e - 2 - s \/ Len(SpanContent(s, e)) = e - 1 - s
  BY <1>2, <1>4, ContentLength
<1>8. /\ s < Len(input) /\ Len(SpanContent(s, e)) > MaxLineBytes
      /\ s + 1 + MaxLineBytes <= MaxTraceBytes
  BY <1>2, <1>5, <1>6, <1>7
<1> QED BY <1>1, <1>2, <1>4, <1>8, TooLong, StopHere

LEMMA RefuseTraceStep ==
  ASSUME ReaderInv, NEW b, RefuseTrace(b)
  PROVE  ReaderInv'
<1>1. /\ AtByte(b) /\ ~DeferredTooLong(b) /\ bytesRead >= MaxTraceBytes
      /\ Stop("TraceBytes") /\ UNCHANGED <<position, buffered, scratch, pendingCr, bytesRead>>
  BY DEF RefuseTrace
<1>2. /\ TypeOK /\ Len(emitted) < MaxRecords /\ position \in Nat /\ position < Len(input)
      /\ position + 1 \in 1..Len(input) /\ input[position + 1] = b
  BY <1>1, AtByteFacts
<1>3. PICK s \in 0..position : Reads(s)
  BY <1>1, AtByteFacts
<1>4. /\ s \in Nat /\ s <= position /\ Len(input) \in Nat
      /\ MaxLineBytes \in Nat /\ MaxTraceBytes \in Nat
      /\ Len(scratch) \in Nat /\ Len(scratch) <= MaxLineBytes
      /\ pendingCr => position > s /\ input[position] = CR /\ Len(scratch) = position - s - 1
      /\ ~pendingCr => Len(scratch) = position - s
      /\ position = MaxTraceBytes
  <2>1. position <= MaxTraceBytes /\ position >= MaxTraceBytes
    BY <1>1, <1>2 DEF TypeOK
  <2> QED BY <1>2, <1>3, <2>1, ReadsFacts
<1>5. PICK e \in (position + 1)..(Len(input) + 1) : LineSpan(Len(emitted) + 1, s, e)
  <2>1. LineFrom(s) /\ position \in s..Len(input) /\ \A i \in (s + 1)..position : input[i] # LF
    BY <1>2, <1>3, <1>4 DEF Reads
  <2> QED BY <1>2, <2>1, LineEnds
<1>6. e \in Nat /\ e >= position + 1 /\ e <= Len(input) + 1
  BY <1>2, <1>4, <1>5
<1>7. SpanLast(e) > MaxTraceBytes
  BY <1>2, <1>4, <1>6 DEF SpanLast
<1>8. ASSUME Len(SpanContent(s, e)) > MaxLineBytes, s + 1 + MaxLineBytes <= MaxTraceBytes
      PROVE  FALSE
  <2>1. pendingCr /\ Len(scratch) = MaxLineBytes /\ MaxLineBytes = position - s - 1
    BY <1>2, <1>4, <1>8
  <2>2. b = LF
    BY <1>1, <2>1 DEF DeferredTooLong, Deferred, Full
  <2>3. position + 1 \in Feeds
    BY <1>2, <2>2, InputFacts
  <2>4. e = position + 1
    <3>1. position + 1 \notin (s + 1)..(e - 1)
      BY <1>5, <2>3 DEF LineSpan
    <3> QED BY <1>2, <1>4, <1>6, <3>1
  <2>5. e <= Len(input) /\ e - 1 > s /\ input[e - 1] = CR
    <3>1. e - 1 = position
      BY <1>2, <2>4
    <3> QED BY <1>2, <1>4, <2>1, <2>4, <3>1
  <2>6. Len(SpanContent(s, e)) = e - 2 - s
    BY <1>2, <1>5, <2>5, ContentLength
  <2> QED BY <1>2, <1>4, <1>8, <2>1, <2>4, <2>6
<1>9. SpanVerdict(s, e) = "TraceBytes"
  BY <1>7, <1>8 DEF SpanVerdict
<1>10. s < Len(input)
  BY <1>2, <1>4
<1>11. Justified("TraceBytes")
  BY <1>2, <1>5, <1>9, <1>10, SpanJustifies
<1> QED BY <1>1, <1>11, StopHere

LEMMA ConsumeFacts ==
  ASSUME ReaderInv, NEW b, Consume(b)
  PROVE  /\ AtByte(b) /\ ~DeferredTooLong(b) /\ position < MaxTraceBytes
         /\ position' = position + 1 /\ bytesRead' = position' /\ buffered' = buffered
         /\ position' \in Nat /\ position' <= buffered' /\ position' <= MaxTraceBytes
<1>1. /\ AtByte(b) /\ ~DeferredTooLong(b) /\ bytesRead < MaxTraceBytes
      /\ position' = position + 1 /\ bytesRead' = bytesRead + 1 /\ buffered' = buffered
  BY DEF Consume
<1>2. position \in Nat /\ position < buffered /\ TypeOK
  BY <1>1, AtByteFacts
<1> QED BY <1>1, <1>2, ReaderAssumption DEF TypeOK

LEMMA ReadLineFeedStep == ASSUME ReaderInv, ReadLineFeed PROVE ReaderInv'
<1>1. /\ Consume(LF) /\ pendingCr' = FALSE /\ Decode(scratch) /\ scratch' = scratch
  BY DEF ReadLineFeed
<1>2. /\ TypeOK /\ Len(emitted) < MaxRecords /\ position \in Nat /\ position < Len(input)
      /\ position + 1 \in 1..Len(input) /\ input[position + 1] = LF
  BY <1>1, ConsumeFacts, AtByteFacts
<1>3. PICK s \in 0..position : Reads(s)
  BY <1>1, ConsumeFacts, AtByteFacts
<1>4. /\ s \in Nat /\ s <= position /\ Len(input) \in Nat
      /\ Len(scratch) \in Nat /\ Len(scratch) <= MaxLineBytes
      /\ pendingCr => position > s /\ input[position] = CR /\ Len(scratch) = position - s - 1
      /\ ~pendingCr => Len(scratch) = position - s /\ (position > s => input[position] # CR)
  BY <1>2, <1>3, ReadsFacts
<1> DEFINE e == position + 1
<1>5. LineSpan(Len(emitted) + 1, s, e)
  <2>1. LineFrom(s) /\ \A i \in (s + 1)..position : input[i] # LF
    BY <1>3 DEF Reads
  <2>2. e \in Feeds /\ \A i \in (s + 1)..(e - 1) : i \notin Feeds
    BY <1>2, <1>4, <2>1, InputFacts
  <2>3. Len(emitted) + 1 - 1 = Len(emitted)
    BY <1>2 DEF TypeOK
  <2> QED BY <1>2, <1>4, <2>1, <2>2, <2>3 DEF LineSpan, LineFrom
<1>6. scratch = SpanContent(s, e)
  <2>1. e - 1 = position /\ e <= Len(input) /\ e \in Nat
    BY <1>2
  <2>2. scratch \in Seq(Byte) /\ \A i \in 1..Len(scratch) : scratch[i] = input[s + i]
    BY <1>2, <1>3 DEF TypeOK, Reads
  <2>3. CASE pendingCr
    <3>1. Len(scratch) = position - 1 - s /\ s < position /\ position <= Len(input) + 1
      BY <1>2, <1>4, <2>3
    <3>2. scratch = Raw(s, position)
      BY <1>2, <1>4, <2>2, <3>1, RawIs
    <3> QED BY <1>4, <2>1, <2>3, <3>2 DEF SpanContent
  <2>4. CASE ~pendingCr
    <3>1. Len(scratch) = e - 1 - s /\ s < e /\ e <= Len(input) + 1
      BY <1>2, <1>4, <2>1, <2>4
    <3>2. scratch = Raw(s, e)
      BY <1>2, <1>4, <2>1, <2>2, <3>1, RawIs
    <3> QED BY <1>4, <2>1, <2>4, <3>2 DEF SpanContent
  <2> QED BY <2>3, <2>4 DEF TypeOK
<1>7. /\ SpanLast(e) = position' /\ position' <= MaxTraceBytes
  BY <1>1, <1>2, ConsumeFacts DEF SpanLast
<1>8. TypeOK'
  <2>1. /\ input' = input /\ emitted' \in Seq(Decodable)
        /\ mode' \in {"idle", "line", "done"}
    BY <1>1, <1>2, DecodeTypes
  <2>2. /\ position' \in Nat /\ position' <= buffered' /\ position' <= MaxTraceBytes
        /\ bytesRead' = position' /\ buffered' = buffered
    BY <1>1, ConsumeFacts
  <2> QED BY <1>1, <1>2, <2>1, <2>2, Types DEF TypeOK
<1>9. s \in 0..(Len(input) + 1) /\ e \in 0..(Len(input) + 1) /\ s < Len(input)
  BY <1>2, <1>4
<1> HIDE DEF e
<1> QED BY <1>1, <1>2, <1>4, <1>5, <1>6, <1>7, <1>8, <1>9, DecodeStep

(* A byte that is no LF joins the line.                                    *)
LEMMA StillReads ==
  ASSUME ReaderInv, NEW b, b # LF, Consume(b), input' = input, emitted' = emitted,
         NEW s, Reads(s),
         pendingCr' <=> b = CR,
         IF pendingCr' THEN scratch' = Line(b)
                       ELSE scratch' = Append(Line(b), b) /\ ~Full(Line(b)),
         b \in Byte
  PROVE  Reads(s)' /\ scratch' \in Seq(Byte)
<1>1. /\ TypeOK /\ position \in Nat /\ position + 1 \in 1..Len(input)
      /\ input[position + 1] = b /\ position' = position + 1 /\ ~DeferredTooLong(b)
  BY ConsumeFacts, AtByteFacts
<1>2. s \in Nat /\ s <= position /\ MaxLineBytes \in Nat
  BY <1>1, ReadsFacts
<1>3. /\ Line(b) \in Seq(Byte) /\ Len(Line(b)) = position - s
      /\ \A i \in 1..(position - s) : Line(b)[i] = input[s + i]
      /\ position - s <= MaxLineBytes
  BY <1>1, LineFacts
<1>4. LineFrom(s)' /\ s <= position'
  BY <1>1, <1>2, SameFeeds DEF Reads, LineFrom, FeedsBefore
<1>5. \A i \in (s + 1)..position' : input[i] # LF
  <2> SUFFICES ASSUME NEW i \in (s + 1)..(position + 1) PROVE input[i] # LF
    BY <1>1
  <2>1. CASE i = position + 1
    BY <1>1, <2>1
  <2>2. CASE i # position + 1
    <3>1. i \in (s + 1)..position
      BY <1>1, <1>2, <2>2
    <3> QED BY <3>1 DEF Reads
  <2> QED BY <2>1, <2>2
<1>6. pendingCr' <=> position' > s /\ input[position'] = CR
  BY <1>1, <1>2
<1>7. CASE pendingCr'
  <2>1. scratch' = Line(b) /\ Len(scratch') = position' - s - 1
    BY <1>1, <1>2, <1>3, <1>7
  <2> QED BY <1>2, <1>3, <1>4, <1>5, <1>6, <1>7, <2>1 DEF Reads
<1>8. CASE ~pendingCr'
  <2>1. scratch' = Append(Line(b), b) /\ Len(Line(b)) # MaxLineBytes
    BY <1>8 DEF Full
  <2>2. /\ scratch' \in Seq(Byte) /\ Len(scratch') = position - s + 1
        /\ \A i \in 1..(position - s) : scratch'[i] = Line(b)[i]
        /\ scratch'[position - s + 1] = b
    BY <1>3, <2>1
  <2>3. Len(scratch') = position' - s /\ Len(scratch') <= MaxLineBytes
    BY <1>1, <1>2, <1>3, <2>1, <2>2
  <2>4. ASSUME NEW i \in 1..Len(scratch') PROVE scratch'[i] = input[s + i]
    <3>1. CASE i \in 1..(position - s)
      BY <1>3, <2>2, <3>1
    <3>2. CASE i = position - s + 1
      <4>1. s + i = position + 1
        BY <1>1, <1>2, <3>2
      <4> QED BY <1>1, <2>2, <3>2, <4>1
    <3> QED BY <1>1, <1>2, <2>2, <3>1, <3>2
  <2> QED BY <1>2, <1>4, <1>5, <1>6, <1>8, <2>2, <2>3, <2>4 DEF Reads
<1> QED BY <1>7, <1>8

LEMMA ReadReturnStep == ASSUME ReaderInv, ReadReturn PROVE ReaderInv'
<1>1. /\ Consume(CR) /\ scratch' = Line(CR) /\ pendingCr' = TRUE
      /\ UNCHANGED <<input, mode, emitted, outcome>>
  BY DEF ReadReturn
<1>2. TypeOK /\ mode = "line" /\ CR # LF /\ CR \in Byte
  BY <1>1, ConsumeFacts, AtByteFacts, InputFacts DEF Byte
<1>3. PICK s \in 0..position : Reads(s)
  BY <1>1, ConsumeFacts, AtByteFacts
<1>4. Reads(s)' /\ scratch' \in Seq(Byte)
  BY <1>1, <1>2, <1>3, StillReads
<1>5. TypeOK'
  BY <1>1, <1>2, <1>4, ConsumeFacts DEF TypeOK
<1>6. s \in 0..position'
  BY <1>1, <1>3, ConsumeFacts DEF ReaderInv, TypeOK
<1> QED BY <1>1, <1>2, <1>4, <1>5, <1>6, WithinLine

LEMMA ReadTextStep ==
  ASSUME ReaderInv, NEW b \in Text, ReadText(b)
  PROVE  ReaderInv'
<1>1. Consume(b) /\ pendingCr' = FALSE
  BY DEF ReadText
<1>2. /\ TypeOK /\ mode = "line" /\ Len(emitted) < MaxRecords /\ b \in Byte /\ b # LF /\ b # CR
      /\ position \in Nat /\ position < Len(input)
      /\ position + 1 \in 1..Len(input) /\ input[position + 1] = b
  BY <1>1, ConsumeFacts, AtByteFacts, ReaderAssumption DEF Byte
<1>3. PICK s \in 0..position : Reads(s)
  BY <1>1, ConsumeFacts, AtByteFacts
<1>4. CASE ~Full(Line(b))
  <2>1. scratch' = Append(Line(b), b) /\ UNCHANGED <<input, mode, emitted, outcome>>
    BY <1>4 DEF ReadText
  <2>2. Reads(s)' /\ scratch' \in Seq(Byte)
    BY <1>1, <1>2, <1>3, <1>4, <2>1, StillReads
  <2>3. TypeOK'
    BY <1>1, <1>2, <2>1, <2>2, ConsumeFacts DEF TypeOK
  <2>4. s \in 0..position'
    BY <1>1, <1>2, <1>3, ConsumeFacts
  <2> QED BY <1>2, <2>1, <2>2, <2>3, <2>4, WithinLine
<1>5. CASE Full(Line(b))
  <2>1. Stop("LineTooLong") /\ scratch' = scratch
    BY <1>5 DEF ReadText
  <2>2. TypeOK'
    BY <1>1, <1>2, <2>1, ConsumeFacts DEF TypeOK, Stop
  <2>3. /\ s \in Nat /\ s <= position /\ Len(input) \in Nat
        /\ MaxLineBytes \in Nat /\ MaxTraceBytes \in Nat
    BY <1>2, <1>3, ReadsFacts
  <2>4. position - s = MaxLineBytes
    BY <1>2, <1>3, <1>5, LineFacts DEF Full
  <2>5. PICK e \in (position + 2)..(Len(input) + 1) : LineSpan(Len(emitted) + 1, s, e)
    BY <1>1, <1>2, <1>3, ConsumeFacts, LineGoesOn
  <2>6. e \in Nat /\ e >= position + 2
    BY <1>2, <2>3, <2>5
  <2>7. Len(SpanContent(s, e)) > MaxLineBytes
    <3>1. CASE e <= Len(input) /\ e - 1 > s /\ input[e - 1] = CR
      <4>1. Len(SpanContent(s, e)) = e - 2 - s
        BY <1>2, <2>5, <3>1, ContentLength
      <4>2. e - 1 # position + 1
        BY <1>2, <3>1
      <4> QED BY <1>2, <2>3, <2>4, <2>6, <4>1, <4>2
    <3>2. CASE ~(e <= Len(input) /\ e - 1 > s /\ input[e - 1] = CR)
      <4>1. Len(SpanContent(s, e)) = e - 1 - s
        BY <1>2, <2>5, <3>2, ContentLength
      <4> QED BY <1>2, <2>3, <2>4, <2>6, <4>1
    <3> QED BY <3>1, <3>2
  <2>8. s < Len(input) /\ s + 1 + MaxLineBytes <= MaxTraceBytes
    <3>1. position < MaxTraceBytes
      BY <1>1, ConsumeFacts
    <3> QED BY <1>2, <2>3, <2>4, <3>1
  <2> QED BY <1>2, <2>1, <2>2, <2>5, <2>7, <2>8, TooLong, StopStep
<1> QED BY <1>4, <1>5

LEMMA StepHolds == ReaderInv /\ [Next]_vars => ReaderInv'
<1> SUFFICES ASSUME ReaderInv, [Next]_vars PROVE ReaderInv'
  OBVIOUS
<1>1. CASE BeginLine \/ EndAtLimit \/ Fill \/ FailIo \/ EndOfInput
  BY <1>1, BeginLineStep, EndAtLimitStep, FillStep, FailIoStep, EndOfInputStep
<1>2. ASSUME NEW b, RefuseDeferred(b) \/ RefuseTrace(b) PROVE ReaderInv'
  BY <1>2, RefuseDeferredStep, RefuseTraceStep
<1>3. CASE ReadLineFeed \/ ReadReturn
  BY <1>3, ReadLineFeedStep, ReadReturnStep
<1>4. ASSUME NEW b \in Text, ReadText(b) PROVE ReaderInv'
  BY <1>4, ReadTextStep
<1>5. CASE UNCHANGED vars
  <2>1. UNCHANGED <<input, position, buffered, mode, scratch, pendingCr, bytesRead, emitted,
                    outcome>>
    BY <1>5 DEF vars
  <2>2. TypeOK'
    BY <2>1 DEF ReaderInv, TypeOK
  <2>3. Feeds' = Feeds
    BY <2>1, SameFeeds
  <2>4. BetweenLines'
    BY <2>1, <2>3 DEF ReaderInv, BetweenLines, Exhausted, LineFrom, FeedsBefore
  <2>5. InsideLine'
    BY <2>1, <2>3 DEF ReaderInv, InsideLine, Exhausted, Reads, LineFrom, FeedsBefore
  <2>6. EmittedSpans'
    <3> SUFFICES ASSUME NEW k \in 1..Len(emitted)
                 PROVE  \E s, e \in 0..(Len(input) + 1) :
                          /\ LineSpan(k, s, e)' /\ s < Len(input)
                          /\ emitted[k] = SpanContent(s, e)'
                          /\ mode = "idle" /\ k = Len(emitted) => position = SpanLast(e)'
      BY <2>1 DEF EmittedSpans
    <3>1. PICK s \in 0..(Len(input) + 1), e \in 0..(Len(input) + 1) :
            /\ LineSpan(k, s, e) /\ s < Len(input)
            /\ emitted[k] = SpanContent(s, e)
            /\ mode = "idle" /\ k = Len(emitted) => position = SpanLast(e)
      BY DEF ReaderInv, EmittedSpans
    <3> QED BY <2>1, <3>1, SameSpan
  <2>7. StopsWithReason'
    <3>1. ASSUME NEW s, NEW e
          PROVE  LineSpan(Len(emitted) + 1, s, e)' <=> LineSpan(Len(emitted) + 1, s, e)
      BY <2>1, <2>3 DEF LineSpan, FeedsBefore
    <3>2. ASSUME NEW s, NEW e PROVE SpanVerdict(s, e)' = SpanVerdict(s, e)
      BY <2>1, SameSpan
    <3>3. ASSUME NEW s PROVE LineFrom(s)' <=> LineFrom(s)
      BY <2>1, <2>3 DEF LineFrom, FeedsBefore
    <3>4. NoLine' <=> NoLine
      BY <2>1, <2>3 DEF NoLine, LineFrom, FeedsBefore
    <3> QED BY <2>1, <3>1, <3>2, <3>3, <3>4 DEF ReaderInv, StopsWithReason, Justified
  <2> QED BY <2>2, <2>4, <2>5, <2>6, <2>7 DEF ReaderInv
<1> QED BY <1>1, <1>2, <1>3, <1>4, <1>5 DEF Next

(* What the reader has taken of a line is what the line holds so far,      *)
(* wherever the buffers of the inner reader end (read_record,              *)
(* src/jsonl.rs:184-277).                                                  *)
THEOREM ReaderInvariant == Spec => []ReaderInv
BY InitHolds, StepHolds, PTL DEF Spec

(* The records are the lines of the input, and between two of them the     *)
(* reader stands at the start of the next (src/jsonl.rs:184-277).          *)
THEOREM RecordsAreLines == Spec => []LinesAsSplit
BY ReaderInvariant, SpansAreLines, PTL

(* Which limit is reported, and at which record, follows from the bytes    *)
(* alone (src/jsonl.rs:184-277).                                           *)
THEOREM VerdictsAreBufferFree == Spec => []VerdictIsBufferFree
BY ReaderInvariant, ReasonsAreVerdicts, PTL
=============================================================================
