----------------------------- MODULE RecordCodec -----------------------------
(***************************************************************************)
(* decode_line and encode_line of src/codec.rs.  A line is framed, its     *)
(* numbers are classified by a scan of its bytes, and only then serde_json *)
(* parses it, calling back into budgets that stop it at the first excess.  *)
(* Two readers of one text must agree on where its numbers are.            *)
(*                                                                         *)
(* A byte is a one-character string.  "n" stands for a literal (null or a  *)
(* boolean) and the escape "\" "u" for an escaped spelling of "a".         *)
(***************************************************************************)
EXTENDS Integers, Sequences, FiniteSets, SequencesExt

CONSTANTS Line,                \* bound: the lines decoded
          Serialized,          \* bound: what serde_json writes for the records encoded
          MaxSafeInteger,      \* MAX_SAFE_JSON_INTEGER
          MaxLineBytes, MaxDepth, MaxValues, MaxStringBytes, MaxTotalStringBytes,
          MaxArrayItems, MaxObjectMembers

ASSUME CodecAssumption ==
  /\ MaxSafeInteger \in Nat
  /\ {MaxLineBytes, MaxDepth, MaxValues, MaxStringBytes, MaxTotalStringBytes,
      MaxArrayItems, MaxObjectMembers} \subseteq Nat

VARIABLES call,      \* "decode" or "encode"
          line,      \* the bytes given, or serialized by the preflight
          text,      \* its payload
          stage,     \* "frame", "classify", "parse", "convert", "write" or "done"
          result,
          at         \* next byte of the reader at work
VARIABLES inString, escaped, previous  \* of classify_numbers
VARIABLES stack,     \* open containers, innermost first
          wants,     \* what the parser reads next
          values, stringBytes          \* DecodeState

scanVars == <<inString, escaped, previous>>
parseVars == <<stack, wants, values, stringBytes>>
vars == <<call, line, text, stage, result, at, scanVars, parseVars>>

Digits == <<"0", "1", "2", "3", "4", "5", "6", "7", "8", "9">>
Digit == {Digits[i] : i \in 1..10}
DigitValue(d) == (CHOOSE i \in 1..10 : Digits[i] = d) - 1
White == {" ", "\t", "\n", "\r"}
Quote == "\""
Backslash == "\\"
Eof == "eof"
NoByte == "none"

ByteAt(i) == IF i <= Len(text) THEN text[i] ELSE Eof

Init == /\ call \in {"decode", "encode"}
        /\ line \in IF call = "decode" THEN Line ELSE Serialized
        /\ text = <<>>
        /\ stage = "frame"
        /\ result = "none"
        /\ at = 1
        /\ inString = FALSE
        /\ escaped = FALSE
        /\ previous = NoByte
        /\ stack = <<>>
        /\ wants = "value"
        /\ values = 0
        /\ stringBytes = 0

Finish(r) == /\ stage' = "done"
             /\ result' = r
             /\ UNCHANGED <<call, line, text, at, scanVars, parseVars>>
-----------------------------------------------------------------------------
(* Framing: enforce_line_limit, split_payload, the blank line, UTF-8.      *)

HasSuffix(s) == Len(line) >= Len(s) /\ SubSeq(line, Len(line) - Len(s) + 1, Len(line)) = s

Terminator == IF HasSuffix(<<"\r", "\n">>) THEN 2 ELSE IF HasSuffix(<<"\n">>) THEN 1 ELSE 0

Payload == SubSeq(line, 1, Len(line) - Terminator)

Bytes == ToSet(Payload)

FrameResult == IF Len(Payload) > MaxLineBytes THEN "line_bytes"
               ELSE IF Bytes \cap {"\n", "\r"} # {} THEN "invalid_framing"
               ELSE IF Bytes \subseteq {" ", "\t"} THEN "empty_line"
               ELSE IF "invalid" \in Bytes THEN "invalid_utf8"
               ELSE "none"

Frame == /\ stage = "frame"
         /\ call = "decode"
         /\ text' = Payload
         /\ result' = FrameResult
         /\ stage' = IF result' = "none" THEN "classify" ELSE "done"
         /\ UNCHANGED <<call, line, at, scanVars, parseVars>>

(* A record validated under other limits is validated again. *)
RefuseRecord == /\ stage = "frame"
                /\ call = "encode"
                /\ Finish("validation")

(* preflight_record: the record serialized into a CappedWriter. *)
Preflight == /\ stage = "frame"
             /\ call = "encode"
             /\ text' = line
             /\ result' = IF Len(line) > MaxLineBytes THEN "line_bytes" ELSE "none"
             /\ stage' = IF result' = "none" THEN "classify" ELSE "done"
             /\ UNCHANGED <<call, line, at, scanVars, parseVars>>
-----------------------------------------------------------------------------
(* classify_numbers, one byte or one number at a time.                     *)

RunEnd(i) == CHOOSE j \in i..(Len(text) + 1) :
               /\ ByteAt(j) \notin Digit
               /\ \A k \in i..(j - 1) : ByteAt(k) \in Digit

SkipOne(i, Set) == IF ByteAt(i) \in Set THEN i + 1 ELSE i

Delimiter == White \cup {",", "]", "}", Eof}

(* The number that starts at i, if there is one. *)
Lexeme(i) ==
  LET start == SkipOne(i, {"-"})
      integerEnd == IF ByteAt(start) = "0" THEN start + 1 ELSE RunEnd(start)
      fractionEnd == IF ByteAt(integerEnd) = "." THEN RunEnd(integerEnd + 1) ELSE integerEnd
      power == SkipOne(fractionEnd + 1, {"+", "-"})
      end == IF ByteAt(fractionEnd) = "e" THEN RunEnd(power) ELSE fractionEnd
  IN  {t \in {[end |-> end,
               integer |-> end = integerEnd,
               digits |-> SubSeq(text, start, integerEnd - 1),
               negativeZero |-> start > i /\ ToSet(SubSeq(text, start, fractionEnd - 1))
                                               \subseteq {"0", "."}]} :
         /\ ByteAt(start) \in Digit
         /\ ByteAt(integerEnd) = "." => ByteAt(integerEnd + 1) \in Digit
         /\ ByteAt(fractionEnd) = "e" => ByteAt(power) \in Digit}

(* scan_number wants a delimiter behind the number. *)
Number(i) == {t \in Lexeme(i) : ByteAt(t.end) \in Delimiter}

(* The value of a sequence of digits. *)
Decimal(digits) == FoldLeft(LAMBDA n, d : 10 * n + DigitValue(d), 0, digits)

Unsafe(digits) == Decimal(digits) > MaxSafeInteger

(* Slip: the first element of an array is not looked at. *)
ValuePositionAfterComma == previous \in {NoByte, ":", ","}

ValuePosition == previous \in {NoByte, "[", ":", ","}

NumberStarts == /\ ~inString
                /\ ByteAt(at) \in Digit \cup {"-"}
                /\ ValuePosition
                /\ Number(at) # {}

Scanning == stage = "classify" /\ at <= Len(text)

ScanString == /\ Scanning
              /\ inString
              /\ escaped' = (~escaped /\ text[at] = Backslash)
              /\ inString' = (escaped \/ text[at] # Quote)
              /\ previous' = IF inString' THEN previous ELSE Quote
              /\ at' = at + 1
              /\ UNCHANGED <<call, line, text, stage, result, parseVars>>

ScanOther == /\ Scanning
             /\ ~inString
             /\ ~NumberStarts
             /\ inString' = (text[at] = Quote)
             /\ previous' = IF text[at] \in White \cup {Quote} THEN previous ELSE text[at]
             /\ at' = at + 1
             /\ UNCHANGED <<call, line, text, stage, result, escaped, parseVars>>

ScanNumber == /\ Scanning
              /\ NumberStarts
              /\ \E t \in Number(at) :
                   /\ t.integer
                   /\ ~Unsafe(t.digits)
                   /\ at' = t.end
                   /\ previous' = text[t.end - 1]
              /\ UNCHANGED <<call, line, text, stage, result, inString, escaped, parseVars>>

RefuseNumber == /\ Scanning
                /\ NumberStarts
                /\ \E t \in Number(at) : \/ ~t.integer /\ Finish("non_integer_number")
                                         \/ t.integer /\ Unsafe(t.digits) /\ Finish("unsafe_integer")

StartParser == /\ stage = "classify"
               /\ at > Len(text)
               /\ stage' = "parse"
               /\ at' = 1
               /\ UNCHANGED <<call, line, text, result, scanVars, parseVars>>
-----------------------------------------------------------------------------
(* serde_json reads the text and calls ValueSeed, ArrayElementSeed and     *)
(* ObjectKeySeed back.                                                     *)

Here == CHOOSE i \in at..(Len(text) + 1) :
          /\ ByteAt(i) \notin White
          /\ \A k \in at..(i - 1) : ByteAt(k) \in White

Byte == ByteAt(Here)

Frames(kind) == [kind |-> kind, items |-> 0, keys |-> {}]

Top == Head(stack)

Enclosed(kind) == stack # <<>> /\ Top.kind = kind

Escaped(i) == \E j \in 1..i : /\ (i - j) % 2 = 1
                              /\ \A k \in j..(i - 1) : ByteAt(k) = Backslash
                              /\ j = 1 \/ ByteAt(j - 1) # Backslash

StringEnd(i) == {j \in (i + 1)..Len(text) :
                   /\ text[j] = Quote /\ ~Escaped(j)
                   /\ \A k \in (i + 1)..(j - 1) : text[k] # Quote \/ Escaped(k)}

Unescape == [b \in {Quote, Backslash, "u"} |-> IF b = "u" THEN "a" ELSE b]

Decodes(i, j) == \A k \in (i + 1)..(j - 1) : Escaped(k) => text[k] \in DOMAIN Unescape

(* The characters between the quotes at i and j. *)
Content(i, j) ==
  LET Kept(k) == Escaped(k) \/ text[k] # Backslash
      kept == SelectSeq([n \in 1..(j - i - 1) |-> i + n], Kept)
  IN  [n \in 1..Len(kept) |-> IF Escaped(kept[n]) THEN Unescape[text[kept[n]]]
                              ELSE text[kept[n]]]

Parsing == stage = "parse"

Read(i) == at' = i /\ UNCHANGED <<call, line, text, stage, result, scanVars>>

(* Slip: the depth forgotten. *)
EntersFlat == IF Enclosed("array") /\ Top.items >= MaxArrayItems THEN "array_items"
              ELSE IF values >= MaxValues THEN "json_values"
              ELSE "none"

(* enter_value, after the index check of ArrayElementSeed. *)
Enters == IF Enclosed("array") /\ Top.items >= MaxArrayItems THEN "array_items"
          ELSE IF Len(stack) >= MaxDepth THEN "json_depth"
          ELSE IF values >= MaxValues THEN "json_values"
          ELSE "none"

(* account_string *)
Accounts(string) == IF Len(string) > MaxStringBytes THEN "string_bytes"
                    ELSE IF stringBytes + Len(string) > MaxTotalStringBytes
                      THEN "total_string_bytes"
                    ELSE "none"

ValueDue == /\ Parsing
            /\ wants \in {"value", "element"}
            /\ wants = "element" => Byte \notin {Eof, "]"}

RefuseValue == ValueDue /\ Enters # "none" /\ Finish(Enters)

Counted == IF Enclosed("array") THEN <<[Top EXCEPT !.items = @ + 1]>> \o Tail(stack) ELSE stack

After == IF stack = <<>> THEN "end" ELSE "next"

Enter == ValueDue /\ Enters = "none" /\ values' = values + 1

ReadLiteral == /\ Enter
               /\ Byte = "n"
               /\ stack' = Counted
               /\ wants' = After
               /\ Read(Here + 1)
               /\ UNCHANGED stringBytes

ReadString == /\ Enter
              /\ Byte = Quote
              /\ \E j \in StringEnd(Here) :
                   /\ Decodes(Here, j)
                   /\ Accounts(Content(Here, j)) = "none"
                   /\ stringBytes' = stringBytes + Len(Content(Here, j))
                   /\ Read(j + 1)
              /\ stack' = Counted
              /\ wants' = After

(* visit_i64, visit_u64 and visit_f64: every negative zero is zero.  One    *)
(* that underflows to it (-1e-999) is not among them here: it has a         *)
(* fraction or an exponent, which the number scan refuses before.           *)
Visits(t) == IF t.negativeZero THEN "none"
             ELSE IF ~t.integer THEN "non_integer_number"
             ELSE IF Unsafe(t.digits) THEN "unsafe_integer"
             ELSE "none"

(* serde_json wants no delimiter behind a number, but no digit behind a     *)
(* leading zero.                                                           *)
Parsed(i) == {t \in Lexeme(i) : Head(t.digits) = "0" => ByteAt(t.end) \notin Digit}

ReadNumber == /\ Enter
              /\ \E t \in Parsed(Here) : Visits(t) = "none" /\ Read(t.end)
              /\ stack' = Counted
              /\ wants' = After
              /\ UNCHANGED stringBytes

OpenArray == /\ Enter
             /\ Byte = "["
             /\ stack' = <<Frames("array")>> \o Counted
             /\ wants' = "element"
             /\ Read(Here + 1)
             /\ UNCHANGED stringBytes

OpenObject == /\ Enter
              /\ Byte = "{"
              /\ stack' = <<Frames("object")>> \o Counted
              /\ wants' = "key"
              /\ Read(Here + 1)
              /\ UNCHANGED stringBytes

(* A closing bracket follows a value or opens no value at all. *)
Close == /\ Parsing
         /\ \/ wants = "next"
            \/ wants = "element" /\ Top.items = 0
            \/ wants = "key" /\ Top.keys = {}
         /\ Byte = IF Top.kind = "array" THEN "]" ELSE "}"
         /\ stack' = Tail(stack)
         /\ wants' = IF Len(stack) = 1 THEN "end" ELSE "next"
         /\ Read(Here + 1)
         /\ UNCHANGED <<values, stringBytes>>

Comma == /\ Parsing
         /\ wants = "next"
         /\ Byte = ","
         /\ wants' = IF Top.kind = "array" THEN "element" ELSE "key"
         /\ Read(Here + 1)
         /\ UNCHANGED <<stack, values, stringBytes>>

KeyDue == Parsing /\ wants = "key" /\ Byte = Quote

(* ObjectKeySeed, account_string and the duplicate check of visit_map. *)
KeyResult(i, j) ==
  IF Accounts(Content(i, j)) # "none" THEN Accounts(Content(i, j))
  ELSE IF Content(i, j) \in Top.keys THEN "duplicate_key"
  ELSE "none"

ReadKey == /\ KeyDue
           /\ Cardinality(Top.keys) < MaxObjectMembers
           /\ \E j \in StringEnd(Here) :
                /\ Decodes(Here, j)
                /\ KeyResult(Here, j) = "none"
                /\ stringBytes' = stringBytes + Len(Content(Here, j))
                /\ stack' = <<[Top EXCEPT !.keys = @ \cup {Content(Here, j)}]>> \o Tail(stack)
                /\ Read(j + 1)
           /\ wants' = "colon"
           /\ UNCHANGED values

Colon == /\ Parsing
         /\ wants = "colon"
         /\ Byte = ":"
         /\ wants' = "value"
         /\ Read(Here + 1)
         /\ UNCHANGED <<stack, values, stringBytes>>

RefuseKey == /\ KeyDue
             /\ IF Cardinality(Top.keys) >= MaxObjectMembers
                  THEN Finish("object_members")
                  ELSE \E j \in StringEnd(Here) : /\ Decodes(Here, j)
                                                  /\ KeyResult(Here, j) # "none"
                                                  /\ Finish(KeyResult(Here, j))

RefuseScalar ==
  /\ ValueDue
  /\ Enters = "none"
  /\ \/ /\ Byte = Quote
        /\ \E j \in StringEnd(Here) : /\ Decodes(Here, j)
                                      /\ Accounts(Content(Here, j)) # "none"
                                      /\ Finish(Accounts(Content(Here, j)))
     \/ \E t \in Parsed(Here) : Visits(t) # "none" /\ Finish(Visits(t))

WellFormedString == \E j \in StringEnd(Here) : Decodes(Here, j)

(* Whatever else the parser meets. *)
Malformed ==
  \/ /\ ValueDue
     /\ Enters = "none"
     /\ Byte \notin {"n", "[", "{"}
     /\ Byte = Quote => ~WellFormedString
     /\ Parsed(Here) = {}
  \/ wants = "element" /\ (Byte = Eof \/ (Byte = "]" /\ Top.items > 0))
  \/ /\ wants = "key"
     /\ ~(Byte = "}" /\ Top.keys = {})
     /\ Byte = Quote => Cardinality(Top.keys) < MaxObjectMembers /\ ~WellFormedString
  \/ wants = "colon" /\ Byte # ":"
  \/ wants = "next" /\ Byte \notin {",", IF Top.kind = "array" THEN "]" ELSE "}"}
  \/ wants = "end" /\ Byte # Eof

SyntaxError == Parsing /\ Malformed /\ Finish("json_syntax")

(* deserializer.end(): decode_line goes on, the preflight drops the value. *)
EndParser == /\ Parsing
             /\ wants = "end"
             /\ Byte = Eof
             /\ stage' = IF call = "decode" THEN "convert" ELSE "write"
             /\ UNCHANGED <<call, line, text, result, at, scanVars, parseVars>>

(* The typed record and its validation, which read values and no bytes.    *)
Convert == /\ stage = "convert"
           /\ \E r \in {"accepted", "schema", "validation"} : Finish(r)

(* The canonical form reorders members: its bytes and its budgets are      *)
(* those of the preflight.                                                 *)
Write == stage = "write" /\ Finish("accepted")

Next == \/ Frame \/ RefuseRecord \/ Preflight
        \/ ScanString \/ ScanOther \/ ScanNumber \/ RefuseNumber \/ StartParser
        \/ ReadLiteral \/ ReadString \/ ReadNumber \/ OpenArray \/ OpenObject
        \/ Close \/ Comma \/ ReadKey \/ Colon
        \/ RefuseValue \/ RefuseScalar \/ RefuseKey \/ SyntaxError
        \/ EndParser \/ Convert \/ Write

Spec == Init /\ [][Next]_vars
-----------------------------------------------------------------------------
(* The document an accepted text denotes, read off the text as a whole.    *)

Quotes == {i \in 1..Len(text) : text[i] = Quote /\ ~Escaped(i)}

QuotesBefore(i) == Cardinality({q \in Quotes : q < i})

Quoted == {i \in 1..Len(text) \ Quotes : QuotesBefore(i) % 2 = 1}

Marks(S) == {i \in 1..Len(text) \ Quoted : text[i] \in S}

Depth(i) == Cardinality({o \in Marks({"[", "{"}) : o < i})
              - Cardinality({c \in Marks({"]", "}"}) : c < i})

Strings == {<<i, j>> \in Quotes \X Quotes : QuotesBefore(i) % 2 = 0 /\ j \in StringEnd(i)}

IsKey(s) == \E c \in Marks({":"}) : s[2] < c /\ \A k \in (s[2] + 1)..(c - 1) : text[k] \in White

NumberByte == Digit \cup {"-", "+", ".", "e"}

NumberStart == {i \in Marks(Digit \cup {"-"}) : i = 1 \/ text[i - 1] \notin NumberByte}

ValueStart == Marks({"[", "{", "n"}) \cup NumberStart \cup {s[1] : s \in {t \in Strings : ~IsKey(t)}}

(* Marks directly within the container that opens at o. *)
Within(o, S) == {i \in Marks(S) : /\ i > o
                                  /\ Depth(i) = Depth(o) + 1
                                  /\ \A k \in (o + 1)..i : Depth(k) > Depth(o)}

IsEmpty(o) == \E c \in Marks({"]"}) : o < c /\ \A k \in (o + 1)..(c - 1) : text[k] \in White

KeysOf(o) == {s \in Strings : s[1] > o /\ IsKey(s) /\ Depth(s[1]) = Depth(o) + 1
                               /\ \A k \in (o + 1)..s[1] : Depth(k) > Depth(o)}

(* What is decoded or encoded keeps within every structural budget, and no *)
(* object spells one decoded key twice: the counters the callbacks of      *)
(* src/codec.rs:479-524 keep count the document, and nothing the parser    *)
(* builds escapes them.                                                    *)
AcceptedWithinBudgets ==
  result = "accepted" =>
    /\ Len(text) <= MaxLineBytes
    /\ Cardinality(ValueStart) <= MaxValues
    /\ \A i \in ValueStart : Depth(i) < MaxDepth
    /\ \A s \in Strings : Len(Content(s[1], s[2])) <= MaxStringBytes
    /\ Cardinality({i \in Quoted : Escaped(i) \/ text[i] # Backslash}) <= MaxTotalStringBytes
    /\ \A o \in Marks({"["}) : IsEmpty(o) \/ Cardinality(Within(o, {","})) < MaxArrayItems
    /\ \A o \in Marks({"{"}) :
         /\ Cardinality(KeysOf(o)) <= MaxObjectMembers
         /\ \A s, t \in KeysOf(o) : s # t => Content(s[1], s[2]) # Content(t[1], t[2])

(* Every number of an accepted text is written as an integer of the safe   *)
(* range.  The visitors cannot see to it alone: they take any negative     *)
(* zero for an integer (src/codec.rs:626-644), so -0.0 is kept out only by *)
(* a scan that finds the same numbers as the parser.                       *)
AcceptedIntegersOnly ==
  result = "accepted" =>
    \A i \in NumberStart :
      LET start == SkipOne(i, {"-"})
          end == RunEnd(start)
      IN  /\ ByteAt(start) \in Digit
          /\ ByteAt(end) \notin NumberByte
          /\ ByteAt(start) = "0" => end = start + 1
          /\ ~Unsafe(SubSeq(text, start, end - 1))
=============================================================================
