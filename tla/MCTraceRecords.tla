---------------------------- MODULE MCTraceRecords ----------------------------
(* Records that collide: two streams of one scope or of one identity, an   *)
(* envelope before its stream starts, an envelope identity used twice,     *)
(* token evidence of two kinds, a record its own validation refuses.       *)
EXTENDS TraceRecords

MCHeader == {[kind |-> "header", redaction |-> r, bytes |-> 0, valid |-> TRUE] :
               r \in {"KeyedDigests", "ContainsTokenIds"}}

Decl(id, scope, initial, empty, valid) ==
  [kind |-> "stream", id |-> id, scope |-> scope, initial |-> initial,
   empty |-> empty, bytes |-> 2, valid |-> valid]

MCStreamDecl == {Decl("s", "x", 1, TRUE, TRUE), Decl("t", "y", 0, FALSE, TRUE),
                 Decl("t", "x", 0, TRUE, TRUE), Decl("t", "y", 0, TRUE, FALSE)}

Env(id, stream, cursor, evidence, hashed) ==
  [kind |-> "envelope", id |-> id, stream |-> stream, cursor |-> cursor,
   evidence |-> evidence, hashed |-> hashed, bytes |-> 1, valid |-> TRUE]

MCEnvelope == {Env("a", "s", 1, {"KeyedDigests"}, 2), Env("b", "t", 0, {}, 1),
               Env("c", "s", 0, {}, 1), Env("c", "t", 2, {"ContainsTokenIds"}, 2),
               Env("a", "t", 1, {}, 3), Env("d", "t", 1, {}, 1)}

Plan(id, targets, actions, copies) ==
  [kind |-> "schedule", id |-> id, targets |-> targets, actions |-> actions,
   copies |-> copies, bytes |-> 1, valid |-> TRUE]

MCSchedule == {Plan("f", {"a"}, 1, 1), Plan("g", {"b", "c"}, 2, 0), Plan("g", {}, 0, 0)}
=============================================================================
