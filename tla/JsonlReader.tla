------------------------------ MODULE JsonlReader ------------------------------
(***************************************************************************)
(* JsonlReader of src/jsonl.rs: physical lines out of a BufRead whose      *)
(* buffer may end anywhere, between a CR and its LF too.  One step is one  *)
(* call of fill_buf or one byte of the buffer; bytes that are neither CR   *)
(* nor LF are members of Text.                                             *)
(***************************************************************************)
EXTENDS Integers, Sequences, FiniteSets

CONSTANTS Text,           \* bytes other than CR and LF
          Decodable,      \* lines codec::decode_line accepts
          MaxInput,       \* bound: bytes of the input
          MaxLineBytes,   \* max_line_bytes
          MaxTraceBytes,  \* max_trace_bytes
          MaxRecords      \* max_records_per_trace

CR == "CR"
LF == "LF"

ASSUME ReaderAssumption ==
  /\ Text \cap {CR, LF} = {}
  /\ <<>> \notin Decodable
  /\ {MaxInput, MaxLineBytes, MaxTraceBytes, MaxRecords} \subseteq Nat

VARIABLES input,      \* the bytes of the file
          position,   \* bytes the inner reader has given out
          buffered,   \* end of the inner reader's buffer
          mode,       \* "idle" between calls of next, "line" in read_record,
                      \* "done" once finished
          scratch, pendingCr,
          bytesRead,
          emitted,    \* lines decoded so far; records_read is their number
          outcome     \* "none", "end" or the error that was returned

vars == <<input, position, buffered, mode, scratch, pendingCr, bytesRead, emitted,
          outcome>>

Init == /\ input \in UNION {[1..n -> Text \cup {CR, LF}] : n \in 0..MaxInput}
        /\ position = 0
        /\ buffered = 0
        /\ mode = "idle"
        /\ scratch = <<>>
        /\ pendingCr = FALSE
        /\ bytesRead = 0
        /\ emitted = <<>>
        /\ outcome = "none"

AtEnd == position = Len(input)

Stop(why) == /\ mode' = "done"
             /\ outcome' = why
             /\ UNCHANGED <<input, emitted>>

(* decode_scratch *)
Decode(line) ==
  IF line \in Decodable
  THEN emitted' = Append(emitted, line) /\ mode' = "idle" /\ UNCHANGED <<input, outcome>>
  ELSE Stop("Codec")
-----------------------------------------------------------------------------
BeginLine == /\ mode = "idle"
             /\ Len(emitted) < MaxRecords
             /\ mode' = "line"
             /\ scratch' = <<>>
             /\ pendingCr' = FALSE
             /\ UNCHANGED <<input, position, buffered, bytesRead, emitted, outcome>>

(* ensure_record_limit_or_eof looks at the buffer and consumes nothing. *)
EndAtLimit ==
  /\ mode = "idle"
  /\ Len(emitted) >= MaxRecords
  /\ Stop(IF AtEnd THEN "end" ELSE "RecordLimit")
  /\ UNCHANGED <<position, buffered, scratch, pendingCr, bytesRead>>

(* fill_buf refills an empty buffer with some of the bytes that are left. *)
Empty == position = buffered

(* Slip: a CR at the end of a buffer is forgotten. *)
FillForgettingReturn ==
  /\ mode = "line"
  /\ Empty
  /\ ~AtEnd
  /\ buffered' \in (position + 1)..Len(input)
  /\ pendingCr' = FALSE
  /\ UNCHANGED <<input, position, mode, scratch, bytesRead, emitted, outcome>>

Fill == /\ mode = "line"
        /\ Empty
        /\ ~AtEnd
        /\ buffered' \in (position + 1)..Len(input)
        /\ UNCHANGED <<input, position, mode, scratch, pendingCr, bytesRead, emitted,
                       outcome>>

FailIo == /\ \/ mode = "line"
             \/ mode = "idle" /\ Len(emitted) >= MaxRecords
          /\ Empty
          /\ Stop("Io")
          /\ UNCHANGED <<position, buffered, scratch, pendingCr, bytesRead>>

(* Slip: one byte too many. *)
FullLate(line) == Len(line) > MaxLineBytes

Full(line) == Len(line) = MaxLineBytes

EndOfInput ==
  /\ mode = "line"
  /\ AtEnd
  /\ IF pendingCr
       THEN IF Full(scratch) THEN Stop("LineTooLong") ELSE Decode(Append(scratch, CR))
       ELSE IF scratch = <<>> THEN Stop("end") ELSE Decode(scratch)
  /\ UNCHANGED <<position, buffered, scratch, pendingCr, bytesRead>>
-----------------------------------------------------------------------------
(* One byte of the buffer.                                                 *)

AtByte(b) == mode = "line" /\ ~Empty /\ input[position + 1] = b

(* A CR that is not followed by LF belongs to the line. *)
Deferred(b) == pendingCr /\ b # LF

Line(b) == IF Deferred(b) THEN Append(scratch, CR) ELSE scratch

DeferredTooLong(b) == Deferred(b) /\ Full(scratch)

RefuseDeferred(b) == /\ AtByte(b)
                     /\ DeferredTooLong(b)
                     /\ Stop("LineTooLong")
                     /\ UNCHANGED <<position, buffered, scratch, pendingCr, bytesRead>>

RefuseTrace(b) == /\ AtByte(b)
                  /\ ~DeferredTooLong(b)
                  /\ bytesRead >= MaxTraceBytes
                  /\ Stop("TraceBytes")
                  /\ UNCHANGED <<position, buffered, scratch, pendingCr, bytesRead>>

Consume(b) == /\ AtByte(b)
              /\ ~DeferredTooLong(b)
              /\ bytesRead < MaxTraceBytes
              /\ position' = position + 1
              /\ bytesRead' = bytesRead + 1
              /\ UNCHANGED buffered

ReadLineFeed == /\ Consume(LF)
                /\ pendingCr' = FALSE
                /\ Decode(scratch)
                /\ UNCHANGED scratch

ReadReturn == /\ Consume(CR)
              /\ scratch' = Line(CR)
              /\ pendingCr' = TRUE
              /\ UNCHANGED <<input, mode, emitted, outcome>>

ReadText(b) == /\ Consume(b)
               /\ pendingCr' = FALSE
               /\ IF Full(Line(b))
                    THEN Stop("LineTooLong") /\ UNCHANGED scratch
                    ELSE /\ scratch' = Append(Line(b), b)
                         /\ UNCHANGED <<input, mode, emitted, outcome>>

Next == \/ BeginLine
        \/ EndAtLimit
        \/ Fill
        \/ FailIo
        \/ EndOfInput
        \/ \E b \in Text \cup {CR, LF} : RefuseDeferred(b) \/ RefuseTrace(b)
        \/ ReadLineFeed
        \/ ReadReturn
        \/ \E b \in Text : ReadText(b)

(* The caller keeps calling next until it returns None or an error. *)
Spec == Init /\ [][Next]_vars
-----------------------------------------------------------------------------
(* The lines of an input, by its terminators: each ends at an LF, a CR     *)
(* directly before the LF is part of the terminator, and what follows the  *)
(* last LF is a line when it is not empty.                                 *)

Feeds == {i \in 1..Len(input) : input[i] = LF}

FeedsBefore(i) == Cardinality({j \in Feeds : j < i})

Starts(k) == {i \in 1..(Len(input) + 1) : FeedsBefore(i) = k - 1}

Start(k) == CHOOSE i \in Starts(k) : \A j \in Starts(k) : i <= j

LastByte(k) == CHOOSE i \in Starts(k) : \A j \in Starts(k) : i >= j

Last(k) == IF LastByte(k) > Len(input) THEN Len(input) ELSE LastByte(k)

Content(k) ==
  LET raw == SubSeq(input, Start(k), IF Last(k) \in Feeds THEN Last(k) - 1 ELSE Last(k))
  IN  IF Last(k) \in Feeds /\ raw # <<>> /\ raw[Len(raw)] = CR
      THEN SubSeq(raw, 1, Len(raw) - 1) ELSE raw

HasLine(k) == Starts(k) # {} /\ Start(k) <= Len(input)

(* What the k-th call of next returns when nothing outside fails. *)
Verdict(k) ==
  CASE ~HasLine(k) -> "end"
    [] HasLine(k) /\ k > MaxRecords -> "RecordLimit"
    [] OTHER -> IF Len(Content(k)) > MaxLineBytes /\ Start(k) + MaxLineBytes <= MaxTraceBytes
                THEN "LineTooLong"
                ELSE IF Last(k) > MaxTraceBytes THEN "TraceBytes"
                ELSE IF Content(k) \in Decodable THEN "record" ELSE "Codec"
-----------------------------------------------------------------------------

(* The records are the lines of the file, however the inner reader cuts it *)
(* into buffers, and between two of them the reader stands exactly at the  *)
(* start of the next line, so into_inner loses nothing                     *)
(* (src/jsonl.rs:184-277).                                                 *)
LinesAsSplit ==
  /\ \A k \in DOMAIN emitted : HasLine(k) /\ emitted[k] = Content(k)
  /\ mode = "idle" /\ emitted # <<>> => position = Last(Len(emitted))

(* The verdict does not depend on the buffers either: which limit is       *)
(* reported, and at which record, follows from the bytes alone.            *)
VerdictIsBufferFree ==
  mode = "done" /\ outcome # "Io" => outcome = Verdict(Len(emitted) + 1)
=============================================================================
