------------------------------ MODULE LzwCoding ------------------------------
(***************************************************************************)
(* The LZW stream of a GIF frame: _lzw_encode of                           *)
(* tools/render_readme_media.py writes it, _lzw_decode of                  *)
(* scripts/verify_readme_media.py, written apart from it, audits it.       *)
(*                                                                         *)
(* Both sides rebuild the same dictionary, and neither transmits the width *)
(* of a code.  The decoder learns an entry one code later than the encoder *)
(* and therefore widens at another threshold.  A payload is a sequence of  *)
(* bits, least significant first.                                          *)
(***************************************************************************)
EXTENDS Integers, Sequences

CONSTANTS Minimum,   \* minimum code size: the palette has 2^Minimum symbols
          MaxWidth,  \* width at which the dictionary is full
          ByteBits,  \* bits of a byte
          MaxCodes,  \* MAX_GIF_CODES
          Inputs     \* bound: the frames encoded

Symbol == 0..(2 ^ Minimum - 1)

ASSUME LzwAssumption == /\ Minimum \in Nat \ {0, 1}
                        /\ MaxWidth \in Nat /\ Minimum < MaxWidth
                        /\ ByteBits \in Nat \ {0}
                        /\ MaxCodes \in Nat
                        /\ Inputs \subseteq Seq(Symbol) \ {<<>>}

Clear == 2 ^ Minimum
End == Clear + 1
Full == 2 ^ MaxWidth
NoCode == -1

VARIABLES stage,      \* "encode", "pack", "decode", or how the run ended:
                      \* "decoded", "rejected" (AuditError), "refused" (MediaError)
          indices,    \* the frame
          position,   \* symbols consumed
          prefix,     \* code of the longest known string read
          table,      \* the encoder's entries: <<prefix, symbol>> -> code
          nextCode, codeSize,
          emitted,    \* <<code, width>> pairs
          packed,     \* pairs packed
          payload     \* bits packed
VARIABLES strings,    \* the decoder's entries: code -> string
          freeCode,   \* its next_code
          width,      \* its code_size
          previous,   \* the string of the code before, <<>> for None
          output, codes, bitPosition

encoderVars == <<indices, position, prefix, table, nextCode, codeSize, emitted>>
decoderVars == <<strings, freeCode, width, previous, output, codes, bitPosition>>
vars == <<stage, encoderVars, packed, payload, decoderVars>>

Literals == [s \in Symbol |-> <<s>>]

Init == /\ stage = "encode"
        /\ indices \in Inputs
        /\ position = 1
        /\ prefix = indices[1]
        /\ table = <<>>
        /\ nextCode = End + 1
        /\ codeSize = Minimum + 1
        /\ emitted = <<<<Clear, Minimum + 1>>>>
        /\ packed = 0
        /\ payload = <<>>
        /\ strings = Literals
        /\ freeCode = End + 1
        /\ width = Minimum + 1
        /\ previous = <<>>
        /\ output = <<>>
        /\ codes = 0
        /\ bitPosition = 0

With(f, x, y) == [z \in DOMAIN f \cup {x} |-> IF z = x THEN y ELSE f[z]]
-----------------------------------------------------------------------------
(* _lzw_encode: one symbol of the frame at a time.                         *)

Encoding == stage = "encode" /\ position < Len(indices)

Key == <<prefix, indices[position + 1]>>

Extend == /\ Encoding
          /\ Key \in DOMAIN table
          /\ prefix' = table[Key]
          /\ position' = position + 1
          /\ UNCHANGED <<stage, indices, table, nextCode, codeSize, emitted, packed,
                         payload, decoderVars>>

(* Slip: the encoder widens one entry early, as the decoder does.          *)
WidenedEarly(next, size) ==
  IF next >= 2 ^ size /\ size < MaxWidth THEN size + 1 ELSE size

Widened(next, size) ==
  IF next > 2 ^ size /\ size < MaxWidth THEN size + 1 ELSE size

EmitAndLearn == /\ Encoding
                /\ Key \notin DOMAIN table
                /\ nextCode < Full
                /\ emitted' = Append(emitted, <<prefix, codeSize>>)
                /\ table' = With(table, Key, nextCode)
                /\ nextCode' = nextCode + 1
                /\ codeSize' = Widened(nextCode', codeSize)
                /\ prefix' = indices[position + 1]
                /\ position' = position + 1
                /\ UNCHANGED <<stage, indices, packed, payload, decoderVars>>

EmitAndClear == /\ Encoding
                /\ Key \notin DOMAIN table
                /\ nextCode >= Full
                /\ emitted' = emitted \o <<<<prefix, codeSize>>, <<Clear, codeSize>>>>
                /\ table' = <<>>
                /\ nextCode' = End + 1
                /\ codeSize' = Minimum + 1
                /\ prefix' = indices[position + 1]
                /\ position' = position + 1
                /\ UNCHANGED <<stage, indices, packed, payload, decoderVars>>

EmitEnd == /\ stage = "encode"
           /\ position = Len(indices)
           /\ emitted' = emitted \o <<<<prefix, codeSize>>, <<End, codeSize>>>>
           /\ stage' = "pack"
           /\ UNCHANGED <<indices, position, prefix, table, nextCode, codeSize, packed,
                          payload, decoderVars>>

Bits(code, n) == [k \in 1..n |-> (code \div 2 ^ (k - 1)) % 2]

Pack == /\ stage = "pack"
        /\ packed < Len(emitted)
        /\ LET code == emitted[packed + 1][1]
               size == emitted[packed + 1][2]
           IN  IF code < 2 ^ size
                 THEN /\ payload' = payload \o Bits(code, size)
                      /\ UNCHANGED stage
                 ELSE stage' = "refused" /\ UNCHANGED payload
        /\ packed' = packed + 1
        /\ UNCHANGED <<encoderVars, decoderVars>>

Padding == (ByteBits - (Len(payload) % ByteBits)) % ByteBits

(* The bits left over fill their byte with zeros. *)
Flush == /\ stage = "pack"
         /\ packed = Len(emitted)
         /\ payload' = payload \o [k \in 1..Padding |-> 0]
         /\ stage' = "decode"
         /\ UNCHANGED <<encoderVars, packed, decoderVars>>
-----------------------------------------------------------------------------
(* _lzw_decode: one code of the payload at a time.                         *)

Readable == /\ stage = "decode"
            /\ codes < MaxCodes
            /\ bitPosition + width <= Len(payload)

ValueFrom[n \in Nat] ==
  IF n = 0 THEN 0
  ELSE payload[bitPosition + n] * 2 ^ (n - 1) + ValueFrom[n - 1]

Code == ValueFrom[width]

Advance == /\ bitPosition' = bitPosition + width
           /\ codes' = codes + 1
           /\ UNCHANGED <<encoderVars, packed, payload>>

ReadClear == /\ Readable
             /\ Code = Clear
             /\ strings' = Literals
             /\ width' = Minimum + 1
             /\ freeCode' = End + 1
             /\ previous' = <<>>
             /\ Advance
             /\ UNCHANGED <<stage, output>>

ReadEnd == /\ Readable
           /\ Code = End
           /\ stage' = IF Len(output) = Len(indices) THEN "decoded" ELSE "rejected"
           /\ Advance
           /\ UNCHANGED <<strings, freeCode, width, previous, output>>

(* Slip: the entry not yet held repeats the last symbol of its string. *)
StringRepeatingLast(code) ==
  IF code \in DOMAIN strings THEN strings[code]
  ELSE Append(previous, previous[Len(previous)])

(* The string of a code: a known one, or the one its own entry will hold.  *)
StringOf(code) ==
  IF code \in DOMAIN strings THEN strings[code] ELSE Append(previous, previous[1])

Valid(code) == code \in DOMAIN strings \/ (code = freeCode /\ previous # <<>>)

Learns == previous # <<>> /\ freeCode < Full

ReadString ==
  /\ Readable
  /\ Code \notin {Clear, End}
  /\ Valid(Code)
  /\ LET string == StringOf(Code)
     IN  /\ output' = output \o string
         /\ IF Len(output') > Len(indices)
              THEN stage' = "rejected" /\ UNCHANGED <<strings, freeCode, width, previous>>
              ELSE /\ previous' = string
                   /\ UNCHANGED stage
                   /\ IF Learns
                        THEN /\ strings' = With(strings, freeCode, Append(previous, string[1]))
                             /\ freeCode' = freeCode + 1
                             /\ width' = IF freeCode' = 2 ^ width /\ width < MaxWidth
                                         THEN width + 1 ELSE width
                        ELSE UNCHANGED <<strings, freeCode, width>>
  /\ Advance

(* No code is left, one too many was read, or the code is unknown.         *)
Reject == /\ stage = "decode"
          /\ Readable => Code \notin {Clear, End} /\ ~Valid(Code)
          /\ stage' = "rejected"
          /\ UNCHANGED <<encoderVars, packed, payload, decoderVars>>
-----------------------------------------------------------------------------
Next == \/ Extend \/ EmitAndLearn \/ EmitAndClear \/ EmitEnd
        \/ Pack \/ Flush
        \/ ReadClear \/ ReadEnd \/ ReadString \/ Reject

Spec == Init /\ [][Next]_vars

(* Until END, the decoder reads every code with the width it was written   *)
(* with, although it holds one entry less and the two files compare        *)
(* next_code with different operators (render_readme_media.py:885,         *)
(* verify_readme_media.py:749).                                            *)
DecoderInStep ==
  /\ stage # "refused"
  /\ stage = "decode" /\ codes + 1 < Len(emitted) => width = emitted[codes + 1][2]

(* What the decoder accepts is the frame.  What it rejects ends exactly at *)
(* a byte: the last string made the decoder widen, the encoder wrote END   *)
(* in the narrower width, and there is no zero bit left to read for it.    *)
RoundTripUnlessUnpadded ==
  /\ stage = "decoded" => output = indices
  /\ stage = "rejected" => /\ output = indices
                           /\ width = codeSize + 1
                           /\ bitPosition + codeSize = Len(payload)

(* Every frame the renderer encodes passes the audit.                      *)
RoundTrip == stage \notin {"rejected", "refused"}
=============================================================================
