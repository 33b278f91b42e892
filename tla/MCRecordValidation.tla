-------------------------- MODULE MCRecordValidation --------------------------
(* Records for RecordValidation: each kind, with each field that has rules *)
(* of its own, in the spelling of spec/ir-v1.md and in the others serde    *)
(* takes; and limits that are tight in a few of their budgets each.        *)
EXTENDS RecordValidation

Empty == Obj(<<>>)
With(o, name, node) == Obj((name :> node) @@ Content(o))
Without(o, name) == Obj([n \in DOMAIN Content(o) \ {name} |-> At(o, name)])

Header(extensions) ==
  Obj([kind |-> Str("trace_header"), format |-> Str("v1"), trace_id |-> Str("t"),
       redaction |-> Str("omitted"), created_by |-> Str("c"), extensions |-> extensions])

Stream == Obj([kind |-> Str("stream"), stream_id |-> Str("s"), engine |-> Str("e"),
               engine_version |-> Str("1"), engine_instance |-> Str("i"), publisher |-> Str("p"),
               data_parallel_rank |-> Num(0), epoch |-> Str("0"), initial_cursor |-> Str("0"),
               baseline |-> Obj([kind |-> Str("unknown_at_attach")]), extensions |-> Empty])

Envelope(mutations) ==
  Obj([kind |-> Str("envelope"), envelope_id |-> Str("e1"), stream_id |-> Str("s"),
       cursor |-> Str("10"), origin |-> Str("live"), mutations |-> Arr(mutations),
       extensions |-> Empty])

Schedule(actions) == Obj([kind |-> Str("fault_schedule"), schedule_id |-> Str("f"),
                          actions |-> Arr(actions), extensions |-> Empty])

U64(s) == Obj([encoding |-> Str("u64"), value |-> Str(s)])
Raw(s) == Obj([encoding |-> Str("bytes"), value |-> Str(s)])
Nowhere == Obj([kind |-> Str("unspecified")])
Named(s) == Obj([kind |-> Str("named"), value |-> Str(s)])
Group0 == Obj([kind |-> Str("index"), value |-> Num(0)])
Clear(metadata) == Obj([op |-> Str("clear"), metadata |-> metadata])
RemoveOf(hashes, medium) == Obj([op |-> Str("remove"), hashes |-> Arr(hashes), group |-> Nowhere,
                               medium |-> medium, metadata |-> Empty])
Store(hashes) == Obj([op |-> Str("store_run"), hashes |-> Arr(hashes), group |-> Group0,
                      medium |-> Named("GPU"), metadata |-> Empty])
TokenIds(n) == Obj([kind |-> Str("token_ids"), values |-> Arr([i \in 1..n |-> Num(i)])])
Keyed(key) == Obj([kind |-> Str("keyed_digest"), algorithm |-> Str("hmac-sha256"),
                   key_id |-> Str(key), value |-> Str("9f2a")])
Unkeyed == Obj([kind |-> Str("unkeyed_digest"), algorithm |-> Str("sha256"), value |-> Str("9F2a")])
Ref(o) == Obj([envelope_id |-> Str("e1"), occurrence |-> Num(o)])
DropOf(o) == Obj([action |-> Str("drop"), target |-> Ref(o)])
Copy(n) == Obj([action |-> Str("duplicate"), target |-> Ref(0), copies |-> Num(n)])
Move(o, p) == Obj([action |-> Str("move_before"), target |-> Ref(o), anchor |-> Ref(p)])

Nested == Obj([a |-> Arr(<<Num(5), Null, Str("abc")>>), b |-> Obj([c |-> Obj([d |-> Bool])])])

Plainly ==
  {Header(x) : x \in {Empty, Nested, Obj([a |-> Num(101)]), Obj([abcdefg |-> Null])}}
    \cup {With(Header(Empty), n, v) : n \in {"format", "trace_id", "typo"}, v \in {Str(""), Str("abcdefg")}}
    \cup {Stream} \cup {With(Stream, "worker_metadata", Arr(w)) :
                          w \in {<<>>, <<Str("w")>>, <<Str("w"), Str("")>>, <<Str("v"), Str("w"), Str("x")>>}}
    \cup {With(Stream, "initial_cursor", Str(s)) : s \in {"", "01", "65535", "65536", "1a"}}
    \cup {With(Stream, "data_parallel_rank", v) : v \in {Num(-1), Num(256), Str("0")}}
    \cup {Envelope(m) :
            m \in {<<>>, <<Clear(Empty)>>, <<Clear(Nested), Clear(Obj([m |-> Null]))>>,
                   <<RemoveOf(<<>>, Nowhere)>>, <<RemoveOf(<<U64("1")>>, Nowhere), Store(<<U64("1"), U64("2")>>)>>,
                   <<RemoveOf(<<U64("1"), U64("2"), U64("3")>>, Named("CPU"))>>,
                   <<RemoveOf(<<U64("01")>>, Nowhere)>>, <<RemoveOf(<<U64("1")>>, Named(""))>>,
                   <<RemoveOf(<<Raw("AAEC"), Raw("AA==")>>, Nowhere)>>, <<RemoveOf(<<Raw("")>>, Nowhere)>>,
                   <<RemoveOf(<<Raw("AB==")>>, Nowhere)>>, <<RemoveOf(<<Raw("AAECAwQF")>>, Nowhere)>>,
                   <<With(Clear(Empty), "hashes", Arr(<<>>))>>, <<Without(Clear(Empty), "metadata")>>}}
    \cup {Envelope(<<With(Store(<<U64("1"), U64("2")>>), f[1], f[2])>>) :
            f \in {<<"lineage", Obj([kind |-> Str("opaque")])>>, <<"lineage", Null>>,
                   <<"lineage", Obj([kind |-> Str("chain"), parent_of_first |-> Raw("")])>>,
                   <<"token_count", Num(2)>>, <<"token_count", Num(60)>>, <<"token_count", Num(101)>>,
                   <<"token_count", Null>>, <<"token_evidence", Keyed("k")>>, <<"token_evidence", Keyed("")>>,
                   <<"token_evidence", Unkeyed>>, <<"token_evidence", TokenIds(3)>>,
                   <<"block_size", Num(0)>>, <<"block_size", Num(16)>>,
                   <<"block_metadata", Arr(<<Empty>>)>>, <<"block_metadata", Arr(<<Empty, Nested>>)>>}}
    \cup {Envelope(<<With(With(Store(<<U64("1")>>), "token_count", Num(n)), "token_evidence", TokenIds(2))>>) :
            n \in {0, 2}}
    \cup {Schedule(a) : a \in {<<>>, <<DropOf(0), Copy(1)>>, <<Copy(0)>>, <<Copy(3)>>, <<Copy(65)>>,
                               <<Move(0, 1)>>, <<Move(1, 1)>>, <<DropOf(0), DropOf(1), DropOf(2)>>}}

Labelled(label) == Obj(label :> Null)

(* What serde takes besides: members beside a unit tag, the fields of a    *)
(* struct as an array, the number of a variant, a label as an object.      *)
Otherwise ==
  {With(Stream, "baseline", Obj([kind |-> Str("empty_at_engine_start"), since |-> Nested])),
   With(Header(Empty), "redaction", Labelled("omitted")),
   With(Header(Empty), "redaction", Labelled("none")),
   With(Envelope(<<>>), "origin", Labelled("replay")),
   Envelope(<<RemoveOf(<<U64("1")>>, With(Nowhere, "value", Str("GPU")))>>),
   Envelope(<<RemoveOf(<<U64("1")>>, With(Named("GPU"), "typo", Null))>>),
   Envelope(<<Obj([op |-> Num(2), metadata |-> Empty])>>),
   Envelope(<<Obj([op |-> Num(3), metadata |-> Empty])>>),
   Envelope(<<Arr(<<Str("clear"), Empty>>)>>),
   Envelope(<<RemoveOf(<<U64("1")>>, Arr(<<Str("unspecified")>>))>>),
   Envelope(<<RemoveOf(<<U64("1")>>, Arr(<<Str("unspecified"), Null>>))>>),
   Envelope(<<RemoveOf(<<Arr(<<Num(0), Str("1")>>), Arr(<<Num(1), Str("AAEC")>>)>>, Arr(<<Num(0), Str("GPU")>>))>>),
   Schedule(<<Obj([action |-> Str("drop"), target |-> Arr(<<Str("e1"), Num(0)>>)])>>),
   Schedule(<<Obj([action |-> Str("drop"), target |-> Arr(<<Str("e1"), Num(0), Num(0)>>)])>>),
   Arr(<<Str("trace_header"), Str("v1"), Str("t"), Str("omitted"), Str("c"), Empty>>),
   Arr(<<Num(0), Str("v1"), Str("t"), Str("omitted"), Str("c"), Empty>>),
   Arr(<<>>), Null, Obj([kind |-> Str("header")])}

MCLines == Plainly \cup Otherwise

MCBuilt == {r \in Plainly : Read(r, "Record") = r}

Roomy == [max_line_bytes |-> 400, max_depth |-> 8, max_values |-> 60, max_string_bytes |-> 40,
          max_identity_bytes |-> 20, max_total_string_bytes |-> 400, max_array_items |-> 9,
          max_object_members |-> 12, max_mutations_per_envelope |-> 3, max_hashes_per_mutation |-> 3,
          max_hashes_per_envelope |-> 4, max_opaque_hash_bytes |-> 4,
          max_token_ids_per_mutation |-> 4, max_token_count |-> 50, max_block_size |-> 32,
          max_worker_metadata |-> 3, max_fault_actions |-> 3, max_duplicate_copies |-> 4]

MCProfile ==
  {Roomy,
   [Roomy EXCEPT !.max_line_bytes = 135, !.max_identity_bytes = 6],
   [Roomy EXCEPT !.max_values = 9],
   [Roomy EXCEPT !.max_total_string_bytes = 12, !.max_string_bytes = 5],
   [Roomy EXCEPT !.max_total_string_bytes = 150, !.max_string_bytes = 16, !.max_object_members = 9],
   [Roomy EXCEPT !.max_depth = 4, !.max_array_items = 2, !.max_mutations_per_envelope = 1, !.max_fault_actions = 2],
   [Roomy EXCEPT !.max_depth = 3, !.max_hashes_per_mutation = 2, !.max_token_ids_per_mutation = 2],
   [Roomy EXCEPT !.max_hashes_per_envelope = 2, !.max_worker_metadata = 1, !.max_object_members = 1],
   [Roomy EXCEPT !.max_depth = 65]}
=============================================================================
