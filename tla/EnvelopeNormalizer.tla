-------------------------- MODULE EnvelopeNormalizer --------------------------
(***************************************************************************)
(* The normalization session: EnvelopeNormalizer of src/state.rs.  It      *)
(* registers stream contracts, fingerprints envelopes and is sealed once;  *)
(* its status is shared with every blueprint and envelope it handed out.   *)
(* It does not ask whether the stream of an envelope is registered.        *)
(***************************************************************************)
EXTENDS TraceRecords

VARIABLES session,          \* "open", "sealed" or "failed"
          contracts,        \* registered streams
          prepared,         \* normalized envelopes
          fingerprintBytes,
          sessionBytes      \* EnvelopeNormalizer.identity_bytes

normalizerVars == <<session, contracts, prepared, fingerprintBytes, sessionBytes>>

NormalizerInit == /\ session = "open"
                  /\ contracts = {}
                  /\ prepared = {}
                  /\ fingerprintBytes = 0
                  /\ sessionBytes = 0

Open == session = "open"

Fail == /\ session' = "failed"
        /\ UNCHANGED <<contracts, prepared, fingerprintBytes, sessionBytes>>

Contract(d, a) == [declaration |-> d, authority |-> a]
-----------------------------------------------------------------------------
(* register_stream and bind_stream_inner                                   *)

Mismatch(d, a) == a = "TrustDeclaredEmpty" /\ ~d.empty

New(d) == \A x \in contracts : d.id # x.declaration.id /\ d.scope # x.declaration.scope

Affordable(d) == /\ Cardinality(contracts) < MaxStreams
                 /\ sessionBytes + d.bytes <= MaxIdentityBytes

Register(d, a) == /\ Open
                  /\ d.valid
                  /\ ~Mismatch(d, a)
                  /\ New(d)
                  /\ Affordable(d)
                  /\ contracts' = contracts \cup {Contract(d, a)}
                  /\ sessionBytes' = sessionBytes + d.bytes
                  /\ UNCHANGED <<session, prepared, fingerprintBytes>>

(* Slip: an identical registration is charged again. *)
RegisterAgainCharged(d, a) ==
  /\ Open
  /\ d.valid
  /\ ~Mismatch(d, a)
  /\ Contract(d, a) \in contracts
  /\ sessionBytes' = sessionBytes + d.bytes
  /\ UNCHANGED <<session, contracts, prepared, fingerprintBytes>>

(* An identical registration returns another handle of the same contract. *)
RegisterAgain(d, a) == /\ Open
                       /\ d.valid
                       /\ ~Mismatch(d, a)
                       /\ Contract(d, a) \in contracts
                       /\ UNCHANGED normalizerVars

(* The one error that leaves the session open. *)
RefuseAuthority(d, a) == /\ Open
                         /\ d.valid
                         /\ Mismatch(d, a)
                         /\ UNCHANGED normalizerVars

FailRegistration(d, a) == /\ Open
                          /\ d.valid => /\ ~Mismatch(d, a)
                                        /\ Contract(d, a) \notin contracts
                                        /\ ~(New(d) /\ Affordable(d))
                          /\ Fail

RegisterStream(d, a) == \/ Register(d, a)
                        \/ RegisterAgain(d, a)
                        \/ RefuseAuthority(d, a)
                        \/ FailRegistration(d, a)
-----------------------------------------------------------------------------
(* prepare and prepare_inner                                               *)

Hashable(e) == /\ e.hashed <= MaxLineBytes
               /\ fingerprintBytes + e.hashed <= MaxFingerprintBytes

Preparable(e) == /\ e.valid
                 /\ e.id \notin Ids(prepared)
                 /\ Cardinality(prepared) < MaxEnvelopes
                 /\ sessionBytes + e.bytes <= MaxIdentityBytes
                 /\ Hashable(e)

Prepare(e) == /\ Open
              /\ Preparable(e)
              /\ prepared' = prepared \cup {e}
              /\ fingerprintBytes' = fingerprintBytes + e.hashed
              /\ sessionBytes' = sessionBytes + e.bytes
              /\ UNCHANGED <<session, contracts>>

FailPreparation(e) == Open /\ ~Preparable(e) /\ Fail

PrepareEnvelope(e) == Prepare(e) \/ FailPreparation(e)

(* Any other record handed to either call. *)
FailWrongKind == Open /\ Fail

Seal == /\ Open
        /\ session' = "sealed"
        /\ UNCHANGED <<contracts, prepared, fingerprintBytes, sessionBytes>>
-----------------------------------------------------------------------------
NormalizerNext == \/ \E d \in StreamDecl, a \in Authority : RegisterStream(d, a)
                  \/ \E e \in Envelope : PrepareEnvelope(e)
                  \/ FailWrongKind
                  \/ Seal

NormalizerSpec == NormalizerInit /\ [][NormalizerNext]_normalizerVars

(* Two handles of one stream identity or of one cache scope are handles of *)
(* one contract, whatever registrations were repeated, refused for their   *)
(* authority and tried again in between (src/state.rs:599-626).            *)
OneContract ==
  \A x, y \in contracts :
    \/ x.declaration.id = y.declaration.id
    \/ x.declaration.scope = y.declaration.scope
    => x = y

(* The session is charged once for what it retains: a repeated or refused  *)
(* registration costs nothing, and neither budget is ever passed           *)
(* (src/state.rs:522-545, 626-651).                                        *)
ChargedOnce ==
  /\ sessionBytes =
       Cardinality(UNION {{x.declaration} \X (1..x.declaration.bytes) : x \in contracts})
         + Cardinality(UNION {{e} \X (1..e.bytes) : e \in prepared})
  /\ sessionBytes <= MaxIdentityBytes
  /\ fingerprintBytes <= MaxFingerprintBytes
=============================================================================
