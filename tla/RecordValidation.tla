--------------------------- MODULE RecordValidation ---------------------------
(***************************************************************************)
(* One record between a line and its use: decode_line past the parser,     *)
(* ValidatedRecord::new, encode_line and the fingerprint of an envelope    *)
(* (src/codec.rs, src/ir.rs, src/fingerprint.rs, EnvelopeNormalizer of     *)
(* src/state.rs).  Two sets of budgets guard it.  Those of the codec bound *)
(* the whole document, those of ValidationContext the identities and the   *)
(* inert objects of the typed record; a record may meet each of them under *)
(* other limits than the last, and must hold what its holder relies on.    *)
(***************************************************************************)
EXTENDS RecordSchema, SequencesExt, FiniteSetsExt

CONSTANTS Lines,           \* bound: documents handed to decode_line, in compact form
          Built,           \* bound: records built by a caller, as documents
          Profile,         \* bound: the limits in use
          FingerprintLeft, \* bound: what is left of max_fingerprint_bytes_per_trace
          TraceFormat,     \* TRACE_FORMAT_VERSION
          MaxSafeInteger,  \* MAX_SAFE_JSON_INTEGER
          MaxJsonDepth     \* MAX_JSON_DEPTH

(* The limits of src/limits.rs that bound one record. *)
Limits == [max_line_bytes: Nat, max_depth: Nat, max_values: Nat, max_string_bytes: Nat,
           max_identity_bytes: Nat, max_total_string_bytes: Nat, max_array_items: Nat,
           max_object_members: Nat, max_mutations_per_envelope: Nat, max_hashes_per_mutation: Nat,
           max_hashes_per_envelope: Nat, max_opaque_hash_bytes: Nat,
           max_token_ids_per_mutation: Nat, max_token_count: Nat, max_block_size: Nat,
           max_worker_metadata: Nat, max_fault_actions: Nat, max_duplicate_copies: Nat]

ASSUME ValidationAssumption ==
  /\ Profile \subseteq Limits
  /\ FingerprintLeft \subseteq Nat
  /\ MaxSafeInteger \in Nat
  /\ MaxJsonDepth \in Nat
  /\ \A r \in Built : Read(r, "Record") = r

VARIABLES call,     \* "decode", "new", "encode", "reread" or "prepare"
          given,    \* history: the first call, its document and its limits
          document, \* what is decoded
          limits,   \* of the call at work
          stage,    \* "read", "convert", "validate", "accepted", "preflight",
                    \* "written", "hash", "prepared" or "refused"
          record,   \* the typed record
          checks,   \* what ValidationContext has still to look at
          counters, \* of ValidationContext
          left,     \* fingerprint bytes the session has left
          hashed,   \* HashWriter.written
          reason    \* why the record was refused

vars == <<call, given, document, limits, stage, record, checks, counters, left, hashed, reason>>

Counter == {"string_bytes", "json_values", "envelope_hashes"}

Fresh == [c \in Counter |-> 0]

Budget(l) == [string_bytes |-> l.max_total_string_bytes, json_values |-> l.max_values,
              envelope_hashes |-> l.max_hashes_per_envelope]
-----------------------------------------------------------------------------
(* What ValidationContext looks at, in its order: a condition, and what it *)
(* adds to a counter once the condition holds.                             *)

Need(condition, code) == <<[holds |-> condition, code |-> code, counter |-> "json_values", adds |-> 0]>>

Adding(counter, n) == <<[holds |-> TRUE, code |-> "none", counter |-> counter, adds |-> n]>>

EachOf(items, Check(_)) == FlattenSeq([i \in DOMAIN items |-> Check(items[i])])

Identity(s, l) ==
  Need(s # "", "empty_field")
    \o Need(Len(s) <= l.max_identity_bytes /\ Len(s) <= l.max_string_bytes, "field_too_long")
    \o Adding("string_bytes", Len(s))

InertString(s, l) == Need(Len(s) <= l.max_string_bytes, "string_bytes") \o Adding("string_bytes", Len(s))

Deep(depth, l) == Need(depth <= l.max_depth, "json_depth")

RECURSIVE InertValue(_, _, _)

InertObject(node, depth, l) ==
  Adding("json_values", 1)
    \o Need(Cardinality(DOMAIN Content(node)) <= l.max_object_members, "object_members")
    \o Deep(depth, l)
    \o EachOf(SetToSeq(DOMAIN Content(node)),
              LAMBDA key : InertString(key, l) \o InertValue(At(node, key), depth + 1, l))

InertValue(node, depth, l) ==
  IF Kind(node) = "object" THEN InertObject(node, depth, l)
  ELSE Adding("json_values", 1) \o Deep(depth, l) \o
       CASE Kind(node) = "number" ->
              Need(Content(node) \in -MaxSafeInteger..MaxSafeInteger, "unsafe_json_integer")
         [] Kind(node) = "string" -> InertString(Content(node), l)
         [] Kind(node) = "array" ->
              Need(Len(Content(node)) <= l.max_array_items, "array_items")
                \o EachOf(Content(node), LAMBDA child : InertValue(child, depth + 1, l))
         [] OTHER -> <<>>

Extensions(r, l) == InertObject(At(r, "extensions"), 1, l)

HeaderChecks(r, l) == Need(Content(At(r, "format")) = TraceFormat, "unsupported_format")
                        \o Identity(Content(At(r, "trace_id")), l)
                        \o Identity(Content(At(r, "created_by")), l)
                        \o Extensions(r, l)

Identities(r, names, l) == EachOf(names, LAMBDA name : Identity(Content(At(r, name)), l))

StreamChecks(r, l) ==
  LET workers == IF Has(r, "worker_metadata") THEN Content(At(r, "worker_metadata")) ELSE <<>>
  IN  Identities(r, <<"stream_id", "engine", "engine_version", "engine_instance", "publisher",
                      "epoch">>, l)
        \o Need(Len(workers) <= l.max_worker_metadata, "too_many_items")
        \o EachOf(workers, LAMBDA worker : Identity(Content(worker), l))
        \o Extensions(r, l)

HashCheck(hash, l) ==
  IF At(hash, "encoding") = Str("u64") THEN <<>>
  ELSE Need(DecodedBytes(Content(At(hash, "value"))) \in 1..l.max_opaque_hash_bytes,
            "invalid_opaque_hash_length")

HashChecks(m, l) ==
  LET hashes == Content(At(m, "hashes"))
  IN  Need(hashes # <<>>, "empty_hashes")
        \o Need(Len(hashes) <= l.max_hashes_per_mutation, "too_many_items")
        \o Adding("envelope_hashes", Len(hashes))
        \o EachOf(hashes, LAMBDA hash : HashCheck(hash, l))

MediumCheck(m, l) == IF Has(At(m, "medium"), "value")
                     THEN Identity(Content(At(At(m, "medium"), "value")), l) ELSE <<>>

EvidenceChecks(m, l) ==
  LET evidence == At(m, "token_evidence")
  IN  CASE At(evidence, "kind") = Str("keyed_digest") -> Identity(Content(At(evidence, "key_id")), l)
        [] At(evidence, "kind") = Str("unkeyed_digest") -> <<>>
        [] At(evidence, "kind") = Str("token_ids") ->
             LET ids == Len(Content(At(evidence, "values")))
             IN  Need(ids <= l.max_token_ids_per_mutation, "too_many_items")
                   \o Need(Has(m, "token_count") => Content(At(m, "token_count")) = ids,
                           "token_count_mismatch")

When(m, name, these) == IF Has(m, name) THEN these ELSE <<>>

StoreRunChecks(m, l) ==
  HashChecks(m, l)
    \o When(m, "lineage", IF Has(At(m, "lineage"), "parent_of_first")
                          THEN HashCheck(At(At(m, "lineage"), "parent_of_first"), l) ELSE <<>>)
    \o When(m, "token_count",
            Need(Content(At(m, "token_count")) <= MaxSafeInteger, "unsafe_json_integer")
              \o Need(Content(At(m, "token_count")) <= l.max_token_count, "token_count_exceeded"))
    \o When(m, "token_evidence", EvidenceChecks(m, l))
    \o When(m, "block_size",
            Need(Content(At(m, "block_size")) \in 1..l.max_block_size, "invalid_block_size"))
    \o MediumCheck(m, l)
    \o When(m, "block_metadata",
            Need(Len(Content(At(m, "block_metadata"))) = Len(Content(At(m, "hashes"))),
                 "block_metadata_length")
              \o EachOf(Content(At(m, "block_metadata")), LAMBDA object : InertObject(object, 1, l)))

MutationChecks(m, l) ==
  CASE At(m, "op") = Str("store_run") -> StoreRunChecks(m, l) \o InertObject(At(m, "metadata"), 1, l)
    [] At(m, "op") = Str("remove") ->
         HashChecks(m, l) \o MediumCheck(m, l) \o InertObject(At(m, "metadata"), 1, l)
    [] At(m, "op") = Str("clear") -> InertObject(At(m, "metadata"), 1, l)

EnvelopeChecks(r, l) ==
  Identities(r, <<"envelope_id", "stream_id">>, l)
    \o Need(Len(Content(At(r, "mutations"))) <= l.max_mutations_per_envelope, "too_many_items")
    \o EachOf(Content(At(r, "mutations")), LAMBDA m : MutationChecks(m, l))
    \o Extensions(r, l)

ActionChecks(a, l) ==
  LET Delivery(name) == Identity(Content(At(At(a, name), "envelope_id")), l)
  IN  Delivery("target") \o
      CASE At(a, "action") = Str("drop") -> <<>>
        [] At(a, "action") = Str("duplicate") ->
             Need(Content(At(a, "copies")) \in 1..l.max_duplicate_copies, "invalid_duplicate_copies")
        [] At(a, "action") = Str("move_before") ->
             Delivery("anchor") \o Need(At(a, "target") # At(a, "anchor"), "same_move_target_and_anchor")

ScheduleChecks(r, l) ==
  Identities(r, <<"schedule_id">>, l)
    \o Need(Len(Content(At(r, "actions"))) <= l.max_fault_actions, "too_many_items")
    \o EachOf(Content(At(r, "actions")), LAMBDA a : ActionChecks(a, l))
    \o Extensions(r, l)

(* Record::validate *)
Checks(r, l) == CASE At(r, "kind") = Str("trace_header") -> HeaderChecks(r, l)
                  [] At(r, "kind") = Str("stream") -> StreamChecks(r, l)
                  [] At(r, "kind") = Str("envelope") -> EnvelopeChecks(r, l)
                  [] At(r, "kind") = Str("fault_schedule") -> ScheduleChecks(r, l)
-----------------------------------------------------------------------------
(* The budgets of the codec, for a document as a whole (RecordCodec counts *)
(* them one callback at a time).                                           *)

StringsOf(node) == {n \in Nodes(node, <<>>) : Kind(n.node) = "string"}

KeysOf(node) ==
  {n \in Nodes(node, <<>>) : /\ n.path # <<>>
                             /\ [path |-> Front(n.path), node |-> <<"object">>] \in Nodes(node, <<>>)}

StringBytes(node) == MapThenSumSet(LAMBDA n : Len(Content(n.node)), StringsOf(node))
                       + MapThenSumSet(LAMBDA n : Len(Last(n.path)), KeysOf(node))

(* Slip: only the length of the line. *)
WithinLine(node, l) == Bytes(node) <= l.max_line_bytes

WithinBudgets(node, l) ==
  /\ Bytes(node) <= l.max_line_bytes
  /\ Cardinality(Nodes(node, <<>>)) <= l.max_values
  /\ StringBytes(node) <= l.max_total_string_bytes
  /\ \A n \in StringsOf(node) : Len(Content(n.node)) <= l.max_string_bytes
  /\ \A n \in KeysOf(node) : Len(Last(n.path)) <= l.max_string_bytes
  /\ \A n \in Nodes(node, <<>>) :
       LET children == Cardinality({m \in Nodes(node, <<>>) : m.path # <<>> /\ Front(m.path) = n.path})
       IN  /\ Len(n.path) < l.max_depth
           /\ Kind(n.node) = "array" => children <= l.max_array_items
           /\ Kind(n.node) = "object" => children <= l.max_object_members
           /\ Kind(n.node) = "number" => Content(n.node) \in -MaxSafeInteger..MaxSafeInteger
-----------------------------------------------------------------------------
NoRecord == Null

Init == /\ call \in {"decode", "new"}
        /\ limits \in Profile
        /\ document \in IF call = "decode" THEN Lines ELSE Built
        /\ record = IF call = "decode" THEN NoRecord ELSE document
        /\ stage = IF call = "decode" THEN "read" ELSE "validate"
        /\ checks = IF call = "decode" THEN <<>> ELSE Checks(record, limits)
        /\ counters = Fresh
        /\ given = [call |-> call, document |-> document, limits |-> limits]
        /\ left = 0
        /\ hashed = 0
        /\ reason = "none"

Refuse(code) == /\ stage' = "refused"
                /\ reason' = code
                /\ UNCHANGED <<call, given, document, limits, record, checks, counters, left, hashed>>

To(next) == stage' = next /\ UNCHANGED <<call, given, document, limits, left, hashed, reason>>

(* validate_limits comes first in both calls of the codec. *)
UnsupportedDepth == limits.max_depth > MaxJsonDepth

ReadLine == /\ stage = "read"
            /\ IF UnsupportedDepth THEN Refuse("invalid_limits")
               ELSE IF ~WithinBudgets(document, limits) THEN Refuse("budgets")
               ELSE To("convert") /\ UNCHANGED <<record, checks, counters>>

Convert == /\ stage = "convert"
           /\ IF Read(document, "Record") = Bad
                THEN Refuse("schema")
                ELSE /\ record' = Read(document, "Record")
                     /\ checks' = Checks(record', limits)
                     /\ counters' = Fresh
                     /\ To("validate")

Due == stage = "validate" /\ checks # <<>>

Sum(check) == counters[check.counter] + check.adds

Check == /\ Due
         /\ Head(checks).holds
         /\ Sum(Head(checks)) <= Budget(limits)[Head(checks).counter]
         /\ counters' = [counters EXCEPT ![Head(checks).counter] = Sum(Head(checks))]
         /\ checks' = Tail(checks)
         /\ To("validate")
         /\ UNCHANGED record

RefuseCheck == /\ Due
               /\ \/ ~Head(checks).holds /\ Refuse(Head(checks).code)
                  \/ /\ Head(checks).holds
                     /\ Sum(Head(checks)) > Budget(limits)[Head(checks).counter]
                     /\ Refuse(Head(checks).counter)

(* Where a record goes that a call found valid. *)
Valid == [decode |-> "accepted", new |-> "accepted", reread |-> "accepted",
          encode |-> "preflight", prepare |-> "hash"]

EndChecks == /\ stage = "validate"
             /\ checks = <<>>
             /\ To(Valid[call])
             /\ UNCHANGED <<record, checks, counters>>

Held == stage = "accepted" /\ call \in {"decode", "new"}

(* Slip: an accepted record is not validated again. *)
HandOnUnchecked(next, l) ==
  /\ Held
  /\ call' = next
  /\ limits' = l
  /\ counters' = Fresh
  /\ checks' = <<>>
  /\ stage' = "validate"
  /\ UNCHANGED <<given, document, record, hashed, reason>>

(* Slip: the counters of the last validation are carried on. *)
HandOnCarrying(next, l) ==
  /\ Held
  /\ call' = next
  /\ limits' = l
  /\ checks' = Checks(record, l)
  /\ stage' = "validate"
  /\ UNCHANGED <<given, document, record, counters, hashed, reason>>

HandOn(next, l) ==
  /\ Held
  /\ call' = next
  /\ limits' = l
  /\ counters' = Fresh
  /\ checks' = Checks(record, l)
  /\ stage' = "validate"
  /\ UNCHANGED <<given, document, record, hashed, reason>>

EncodeLine == \E l \in Profile : /\ l.max_depth <= MaxJsonDepth
                                 /\ HandOn("encode", l)
                                 /\ UNCHANGED left

RefuseEncodeLimits == /\ Held
                      /\ \E l \in Profile : l.max_depth > MaxJsonDepth
                      /\ Refuse("invalid_limits")

(* Slip: the preflight only measures the line. *)
PreflightOfLine == /\ stage = "preflight"
                   /\ IF Bytes(record) <= limits.max_line_bytes
                        THEN To("written") /\ UNCHANGED <<record, checks, counters>>
                        ELSE Refuse("budgets")

(* preflight_record; the canonical writer then writes as many bytes. *)
Preflight == /\ stage = "preflight"
             /\ IF WithinBudgets(record, limits)
                  THEN To("written") /\ UNCHANGED <<record, checks, counters>>
                  ELSE Refuse("budgets")

(* What was written is read back. *)
Reread == /\ stage = "written"
          /\ call' = "reread"
          /\ document' = record
          /\ stage' = "read"
          /\ UNCHANGED <<given, limits, record, checks, counters, left, hashed, reason>>

(* EnvelopeNormalizer::prepare of an envelope. *)
PrepareEnvelope == /\ Held
                   /\ At(record, "kind") = Str("envelope")
                   /\ \E l \in Profile, n \in FingerprintLeft :
                        l.max_depth <= MaxJsonDepth /\ HandOn("prepare", l) /\ left' = n

(* Canonical mutations as they are written: an opening bracket, each       *)
(* mutation with the comma before it, a closing bracket.                   *)
Mutations == Content(At(record, "mutations"))

Written == LET Piece(i) == IF i \in {0, Len(Mutations) + 1} THEN 1
                           ELSE Bytes(Mutations[i]) + IF i = 1 THEN 0 ELSE 1
               upTo[i \in 0..(Len(Mutations) + 1)] == Piece(i) + IF i = 0 THEN 0 ELSE upTo[i - 1]
           IN  upTo

Maximum == IF left < limits.max_line_bytes THEN left ELSE limits.max_line_bytes

(* fingerprint::envelope and map_fingerprint_error *)
Hash == /\ stage = "hash"
        /\ LET last == Len(Mutations) + 1
           IN  IF \A i \in 0..last : Written[i] <= Maximum
                 THEN /\ stage' = "prepared"
                      /\ hashed' = Written[last]
                      /\ UNCHANGED <<call, given, document, limits, record, checks, counters, left, reason>>
                 ELSE Refuse(IF left < limits.max_line_bytes
                               THEN "fingerprint_bytes" ELSE "canonical_mutation_bytes")

Next == \/ ReadLine \/ Convert \/ Check \/ RefuseCheck \/ EndChecks
        \/ EncodeLine \/ RefuseEncodeLimits \/ Preflight \/ Reread
        \/ PrepareEnvelope \/ Hash

Spec == Init /\ [][Next]_vars
-----------------------------------------------------------------------------
(* What an accepted record promises, read off the record as a whole.       *)

RecordNodes == Nodes(record, <<>>)

InertNames == {"extensions", "metadata", "block_metadata"}

IsInert(path) == ToSet(path) \cap InertNames # {}

(* Where the inert object above a path begins. *)
Root(path) == LET i == CHOOSE i \in DOMAIN path : /\ path[i] \in InertNames
                                                  /\ \A j \in 1..(i - 1) : path[j] \notin InertNames
              IN  IF path[i] = "block_metadata" THEN i + 1 ELSE i

Inert == {n \in RecordNodes : IsInert(n.path) /\ Len(n.path) >= Root(n.path)}

IdentityNames == {"trace_id", "created_by", "stream_id", "engine", "engine_version",
                  "engine_instance", "publisher", "epoch", "envelope_id", "schedule_id", "key_id"}

Identified == {n \in StringsOf(record) :
                 /\ ~IsInert(n.path)
                 /\ \/ Last(n.path) \in IdentityNames
                    \/ Head(n.path) = "worker_metadata"
                    \/ Last(n.path) = "value" /\ Last(Front(n.path)) = "medium"}

InertStrings == Inert \cap StringsOf(record)

InertKeys == {n \in Inert \cap KeysOf(record) : Len(n.path) > Root(n.path)}

HashPaths == {n.path : n \in {m \in RecordNodes : /\ Len(m.path) = 4
                                                  /\ Head(m.path) = "mutations"
                                                  /\ m.path[3] = "hashes"}}

Items(node, name) == Len(Content(At(node, name)))

(* Whatever limits a record was accepted under before, the one that holds  *)
(* it now has counted it anew: no budget that is spread over its parts is  *)
(* exceeded by their total, and the parts that must agree do               *)
(* (src/ir.rs:746-1080).                                                   *)
AcceptedIsValid ==
  stage \in {"accepted", "preflight", "written", "hash", "prepared"} =>
    /\ MapThenSumSet(LAMBDA n : Len(Content(n.node)), Identified \cup InertStrings)
         + MapThenSumSet(LAMBDA n : Len(Last(n.path)), InertKeys) <= limits.max_total_string_bytes
    /\ Cardinality(Inert) <= limits.max_values
    /\ \A n \in Inert : Len(n.path) - Root(n.path) < limits.max_depth
    /\ \A n \in Identified : /\ Content(n.node) # ""
                             /\ Len(Content(n.node)) <= limits.max_string_bytes
    /\ Cardinality(HashPaths) <= limits.max_hashes_per_envelope
    /\ At(record, "kind") = Str("envelope") =>
         \A i \in DOMAIN Mutations :
           /\ Has(Mutations[i], "hashes") => Items(Mutations[i], "hashes") > 0
           /\ Has(Mutations[i], "block_metadata") =>
                Items(Mutations[i], "block_metadata") = Items(Mutations[i], "hashes")
           /\ /\ Has(Mutations[i], "token_count")
              /\ Has(Mutations[i], "token_evidence")
              /\ Has(At(Mutations[i], "token_evidence"), "values")
              => Content(At(Mutations[i], "token_count")) =
                   Items(At(Mutations[i], "token_evidence"), "values")

(* A line within the budgets of the codec is within those of the typed     *)
(* record: after src/codec.rs:160 a decoded record is refused for what it  *)
(* says, never for its size as JSON, which was to be bounded before it was *)
(* built (src/codec.rs:138-140).                                           *)
TextBudgetsSuffice ==
  call \in {"decode", "reread"} =>
    reason \notin {"string_bytes", "json_values", "json_depth", "object_members", "array_items",
                   "unsafe_json_integer"}

(* What encode_line writes, decode_line accepts under the same limits as   *)
(* the same record.  ValidationContext alone would let through records     *)
(* that cannot be read back: it does not see most of the document.         *)
WrittenIsReadable ==
  call = "reread" => stage # "refused" /\ record = document

(* Every value of the record stands in the line at the same place. *)
Plain == RecordNodes \subseteq Nodes(given.document, <<>>)

(* What decode_line accepts, the encoder and the normalizer accept under   *)
(* the same limits: the canonical form of a plain line is no larger than   *)
(* the line in any measure, so only the trace-wide fingerprint budget can  *)
(* still refuse it.  Lines in serde's shorter spellings are the exception. *)
DecodedIsUsable ==
  /\ given.call = "decode" /\ call \in {"encode", "prepare"}
  /\ limits = given.limits
  /\ Plain
  => reason \in {"none", "fingerprint_bytes"}

(* spec/ir-v1.md:341-343: "Unknown fields outside `extensions` are         *)
(* rejected in v1alpha1 so misspellings cannot silently change a verdict." *)
(* Then nothing of an accepted plain line is lost but an empty worker      *)
(* list, a known field.  It does not hold: beside the tag of a variant     *)
(* without fields serde takes any member, deny_unknown_fields or not.      *)
UnknownFieldsAreRejected ==
  given.call = "decode" /\ record # NoRecord /\ Plain =>
    Nodes(given.document, <<>>) \ RecordNodes
      \subseteq {[path |-> <<"worker_metadata">>, node |-> <<"array">>]}
=============================================================================
