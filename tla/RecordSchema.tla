----------------------------- MODULE RecordSchema -----------------------------
(***************************************************************************)
(* The typed records of src/ir.rs and the JSON documents serde reads them  *)
(* from.  A document is <<kind, content>>; the members of an object are a  *)
(* function of their names, for their order and their duplicates are the   *)
(* matter of RecordCodec.  A typed record is represented by the document   *)
(* serde writes for it, so reading a document yields a document again.     *)
(* The tables are the declarations of src/ir.rs; Read is what serde        *)
(* derives from them, with every spelling serde takes for one value.       *)
(* Names are ASCII, so a string has as many bytes as characters.           *)
(***************************************************************************)
EXTENDS Integers, Sequences, FiniteSets, TLC

CONSTANTS MaxU16, MaxU32, MaxU64,  \* widths, scaled
          DigestCharacters         \* characters of a SHA-256 in hexadecimal

ASSUME SchemaAssumption == {MaxU16, MaxU32, MaxU64, DigestCharacters} \subseteq Nat

Null == <<"null">>
Bool == <<"bool">>
Num(n) == <<"number", n>>
Str(s) == <<"string", s>>
Arr(items) == <<"array", items>>
Obj(members) == <<"object", members>>
Bad == <<"bad">>   \* what cannot be read

Kind(node) == node[1]
Content(node) == node[2]
Has(node, name) == name \in DOMAIN Content(node)
At(node, name) == Content(node)[name]
-----------------------------------------------------------------------------
(* Scalars written as strings.                                             *)

Character(s, i) == SubSeq(s, i, i)

Characters(s) == {Character(s, i) : i \in 1..Len(s)}

Digit == {"0", "1", "2", "3", "4", "5", "6", "7", "8", "9"}

Place(alphabet, c) == (CHOOSE i \in 1..Len(alphabet) : Character(alphabet, i) = c) - 1

NatOf(s) == LET n[i \in 0..Len(s)] ==
                  IF i = 0 THEN 0 ELSE 10 * n[i - 1] + Place("0123456789", Character(s, i))
            IN  n[Len(s)]

(* One spelling per value: no sign, no leading zero, no overflow. *)
IsDecimalU64(s) == /\ s # ""
                   /\ Len(s) > 1 => Character(s, 1) # "0"
                   /\ Characters(s) \subseteq Digit
                   /\ Len(s) <= Len(ToString(MaxU64)) /\ NatOf(s) <= MaxU64

Base64 == "ABCDEFGHIJKLMNOPQRSTUVWXYZabcdefghijklmnopqrstuvwxyz0123456789+/"

Padding(s) == Cardinality({i \in 1..Len(s) : Character(s, i) = "="})

(* Padded to fours, the padding at the end, no bit set behind the last     *)
(* byte: the only spelling that encodes to itself.                         *)
IsBase64(s) ==
  LET symbols == Len(s) - Padding(s)
      last == Place(Base64, Character(s, symbols))
  IN  /\ Len(s) % 4 = 0
      /\ Padding(s) <= 2
      /\ Characters(SubSeq(s, 1, symbols)) \subseteq Characters(Base64)
      /\ Padding(s) = 1 => last % 4 = 0
      /\ Padding(s) = 2 => last % 16 = 0

DecodedBytes(s) == (Len(s) \div 4) * 3 - Padding(s)

IsDigest(s) == Len(s) = DigestCharacters /\ Characters(s) \subseteq Characters("0123456789abcdef")
-----------------------------------------------------------------------------
(* Declarations: the fields of a struct or variant in their order.         *)

Field(name, type) == [name |-> name, type |-> type, absent |-> FALSE]
Optional(name, type) == [name |-> name, type |-> type, absent |-> TRUE]
Variant(name, fields) == [name |-> name, unit |-> FALSE, fields |-> fields]
Unit(name) == [name |-> name, unit |-> TRUE, fields |-> <<>>]
Enum(tag, variants) == [tag |-> tag, variants |-> variants]

OpaqueHash == Enum("encoding", <<Variant("u64", <<Field("value", "DecimalU64")>>),
                                 Variant("bytes", <<Field("value", "Base64Bytes")>>)>>)

RedactionMode == {"omitted", "keyed_digests", "unkeyed_linkable", "contains_token_ids"}

TraceHeader == <<Field("format", "String"), Field("trace_id", "String"),
                 Field("redaction", "RedactionMode"), Field("created_by", "String"),
                 Field("extensions", "IrObject")>>

Baseline == Enum("kind", <<Unit("empty_at_engine_start"), Unit("unknown_at_attach")>>)

StreamDeclaration ==
  <<Field("stream_id", "String"), Field("engine", "String"), Field("engine_version", "String"),
    Field("engine_instance", "String"), Field("publisher", "String"),
    Field("data_parallel_rank", "U32"), Field("epoch", "String"),
    Field("initial_cursor", "DecimalU64"), Field("baseline", "Baseline"),
    Optional("worker_metadata", "Strings"), Field("extensions", "IrObject")>>

Origin == {"live", "replay"}

CacheGroup == Enum("kind", <<Variant("index", <<Field("value", "U32")>>), Unit("unspecified")>>)

StorageMedium == Enum("kind", <<Variant("named", <<Field("value", "String")>>), Unit("unspecified")>>)

Lineage == Enum("kind", <<Variant("chain", <<Field("parent_of_first", "OpaqueHash")>>), Unit("opaque")>>)

DigestAlgorithm == [KeyedDigestAlgorithm |-> {"hmac-sha256"}, UnkeyedDigestAlgorithm |-> {"sha256"}]

TokenEvidence ==
  Enum("kind",
    <<Variant("keyed_digest", <<Field("algorithm", "KeyedDigestAlgorithm"),
                                Field("key_id", "String"), Field("value", "Sha256Digest")>>),
      Variant("unkeyed_digest", <<Field("algorithm", "UnkeyedDigestAlgorithm"),
                                  Field("value", "Sha256Digest")>>),
      Variant("token_ids", <<Field("values", "U32s")>>)>>)

Mutation ==
  Enum("op",
    <<Variant("store_run",
        <<Field("hashes", "OpaqueHashes"), Optional("lineage", "Lineage"),
          Optional("token_count", "U64"), Optional("token_evidence", "TokenEvidence"),
          Optional("block_size", "U32"), Field("group", "CacheGroup"),
          Field("medium", "StorageMedium"), Optional("block_metadata", "IrObjects"),
          Field("metadata", "IrObject")>>),
      Variant("remove", <<Field("hashes", "OpaqueHashes"), Field("group", "CacheGroup"),
                          Field("medium", "StorageMedium"), Field("metadata", "IrObject")>>),
      Variant("clear", <<Field("metadata", "IrObject")>>)>>)

EventEnvelope == <<Field("envelope_id", "String"), Field("stream_id", "String"),
                   Field("cursor", "DecimalU64"), Field("origin", "Origin"),
                   Field("mutations", "Mutations"), Field("extensions", "IrObject")>>

DeliveryRef == <<Field("envelope_id", "String"), Field("occurrence", "U16")>>

FaultAction ==
  Enum("action",
    <<Variant("drop", <<Field("target", "DeliveryRef")>>),
      Variant("duplicate", <<Field("target", "DeliveryRef"), Field("copies", "U16")>>),
      Variant("move_before", <<Field("target", "DeliveryRef"), Field("anchor", "DeliveryRef")>>)>>)

FaultSchedule == <<Field("schedule_id", "String"), Field("actions", "FaultActions"),
                   Field("extensions", "IrObject")>>

Record == Enum("kind", <<Variant("trace_header", TraceHeader), Variant("stream", StreamDeclaration),
                         Variant("envelope", EventEnvelope), Variant("fault_schedule", FaultSchedule)>>)

Enums == [OpaqueHash |-> OpaqueHash, Baseline |-> Baseline, CacheGroup |-> CacheGroup,
          StorageMedium |-> StorageMedium, Lineage |-> Lineage, TokenEvidence |-> TokenEvidence,
          Mutation |-> Mutation, FaultAction |-> FaultAction, Record |-> Record]

Labels == [RedactionMode |-> RedactionMode, Origin |-> Origin] @@ DigestAlgorithm

ElementType == [Strings |-> "String", OpaqueHashes |-> "OpaqueHash", U32s |-> "U32",
                IrObjects |-> "IrObject", Mutations |-> "Mutation", FaultActions |-> "FaultAction"]

MaxInteger == [U16 |-> MaxU16, U32 |-> MaxU32, U64 |-> MaxU64]
-----------------------------------------------------------------------------
(* What serde makes of a document.                                         *)

IsScalar(node, type) ==
  CASE type = "String" -> Kind(node) = "string"
    [] type = "DecimalU64" -> Kind(node) = "string" /\ IsDecimalU64(Content(node))
    [] type = "Base64Bytes" -> Kind(node) = "string" /\ IsBase64(Content(node))
    [] type = "Sha256Digest" -> Kind(node) = "string" /\ IsDigest(Content(node))
    [] type = "IrObject" -> Kind(node) = "object"
    [] type \in DOMAIN MaxInteger -> Kind(node) = "number" /\ Content(node) \in 0..MaxInteger[type]

(* An enumeration of plain names is also spelled {name: null}. *)
ReadLabel(node, labels) ==
  LET named == {l \in labels : \/ node = Str(l)
                               \/ \E nothing \in {Null, Obj(<<>>)} : node = Obj(l :> nothing)}
  IN  IF named = {} THEN Bad ELSE Str(CHOOSE l \in named : TRUE)

(* The fields given by an array, in the order they are declared. *)
Positional(items, fields) ==
  [name \in {fields[i].name : i \in DOMAIN items} |->
     items[CHOOSE i \in DOMAIN items : fields[i].name = name]]

RECURSIVE Read(_, _)

(* deny_unknown_fields, the defaults and skip_serializing_if; null stands  *)
(* for no absent field.                                                    *)
ReadMembers(members, fields) ==
  LET given == {i \in DOMAIN fields : fields[i].name \in DOMAIN members}
      read == [i \in given |-> Read(members[fields[i].name], fields[i].type)]
      kept == {i \in given : ~(fields[i].name = "worker_metadata" /\ read[i] = Arr(<<>>))}
  IN  IF /\ DOMAIN members = {fields[i].name : i \in given}
         /\ \A i \in DOMAIN fields \ given : fields[i].absent
         /\ \A i \in given : read[i] # Bad
        THEN Obj([name \in {fields[i].name : i \in kept} |->
                    read[CHOOSE i \in kept : fields[i].name = name]])
        ELSE Bad

ReadStruct(node, fields) ==
  CASE Kind(node) = "object" -> ReadMembers(Content(node), fields)
    [] Kind(node) = "array" /\ Len(Content(node)) <= Len(fields) ->
         ReadMembers(Positional(Content(node), fields), fields)
    [] OTHER -> Bad

(* The tag is a member or the first item; below the top it may be the      *)
(* number of the variant.  A unit variant takes any members beside its     *)
(* tag, deny_unknown_fields or not, but no items.                          *)
ReadEnum(node, enum, nested) ==
  LET tagged == \/ Kind(node) = "object" /\ Has(node, enum.tag)
                \/ Kind(node) = "array" /\ Content(node) # <<>>
      tag == IF Kind(node) = "object" THEN At(node, enum.tag) ELSE Head(Content(node))
      body == IF Kind(node) = "object"
                THEN Obj([name \in DOMAIN Content(node) \ {enum.tag} |-> At(node, name)])
                ELSE Arr(Tail(Content(node)))
      chosen == {i \in DOMAIN enum.variants :
                   tag = Str(enum.variants[i].name) \/ (nested /\ tag = Num(i - 1))}
      variant == enum.variants[CHOOSE i \in chosen : TRUE]
      read == IF ~variant.unit THEN ReadStruct(body, variant.fields)
              ELSE IF body = Arr(<<>>) \/ Kind(body) = "object" THEN Obj(<<>>)
              ELSE Bad
  IN  IF ~tagged \/ chosen = {} \/ read = Bad
        THEN Bad
        ELSE Obj((enum.tag :> Str(variant.name)) @@ Content(read))

ReadItems(node, type) ==
  IF Kind(node) # "array" THEN Bad
  ELSE LET read == [i \in DOMAIN Content(node) |-> Read(Content(node)[i], type)]
       IN  IF \E i \in DOMAIN read : read[i] = Bad THEN Bad ELSE Arr(read)

Read(node, type) ==
  CASE type \in DOMAIN Enums -> ReadEnum(node, Enums[type], type # "Record")
    [] type \in DOMAIN Labels -> ReadLabel(node, Labels[type])
    [] type \in DOMAIN ElementType -> ReadItems(node, ElementType[type])
    [] type = "DeliveryRef" -> ReadStruct(node, DeliveryRef)
    [] OTHER -> IF IsScalar(node, type) THEN node ELSE Bad
-----------------------------------------------------------------------------
(* Measures of a document.                                                 *)

RECURSIVE Nodes(_, _)
RECURSIVE Bytes(_)

Children(node) ==
  CASE Kind(node) = "array" -> [name \in {ToString(i) : i \in DOMAIN Content(node)} |->
                                  Content(node)[CHOOSE i \in DOMAIN Content(node) : ToString(i) = name]]
    [] Kind(node) = "object" -> Content(node)
    [] OTHER -> <<>>

(* Every value of the document at its path; a container stands for its kind. *)
Nodes(node, path) ==
  {[path |-> path, node |-> IF Kind(node) \in {"array", "object"} THEN <<Kind(node)>> ELSE node]}
    \cup UNION {Nodes(Children(node)[name], Append(path, name)) : name \in DOMAIN Children(node)}

(* Bytes of its compact form. *)
Bytes(node) ==
  LET names == DOMAIN Children(node)
      sum[S \in SUBSET names] ==
        IF S = {} THEN 0
        ELSE LET name == CHOOSE n \in S : TRUE
             IN  sum[S \ {name}] + Bytes(Children(node)[name]) + 1
                   + IF Kind(node) = "object" THEN Len(name) + 3 ELSE 0
  IN  CASE Kind(node) \in {"null", "bool"} -> 4
        [] Kind(node) = "number" -> Len(ToString(Content(node)))
        [] Kind(node) = "string" -> Len(Content(node)) + 2
        [] names = {} -> 2
        [] OTHER -> 1 + sum[names]
=============================================================================
