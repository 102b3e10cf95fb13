-------------------------- MODULE ShadowGateProofs --------------------------
(***************************************************************************)
(* The gate's promises for any number of threads, gates and plans, those   *)
(* of one attempt behind it, and those of the single attempt command that  *)
(* uses both.                                                              *)
(*                                                                         *)
(* The attempt: what run() builds from a reply satisfies the four checks,  *)
(* by cases on the reply; the invariant then only has to remember that the *)
(* artifacts are those of the reply.  The gate: a capability in            *)
(* circulation is in exactly one place, its gate's table, a dispatch that  *)
(* has taken it out, the list of revoked ones or the list of sent ones;    *)
(* and there is at most one capability for a plan, because only the thread *)
(* that made the marker issues one.                                        *)
(***************************************************************************)
EXTENDS SingleAttempt, ShadowAttempt, TLAPS

(* What becomes of a reply, and one attempt. *)

Parsed(r) == r.status = 200 /\ r.body # OuterInvalid

\* A reply is a failure, or a response of one of four kinds.
LEMMA ReplyCases ==
  ASSUME NEW r \in Reply
  PROVE  \/ \E why \in TransportFailure : r = Failed(why)
         \/ /\ r.kind = "response" /\ r \in [kind : {"response"}, status : 100..599,
                                            size : Nat, body : Body]
BY SizeAssumption DEF Reply, Failed, Response

\* a completion is validated with a reason of its own, or cannot be digested
LEMMA Reasons ==
  ASSUME NEW b \in Body, b # OuterInvalid, Validate(b) # "too_deep"
  PROVE  /\ Validate(b) \in InnerReason \cup {"response_shape_valid"}
         /\ Validate(b) = "response_shape_valid" =>
              b.content = "sound" /\ b.finish = "stop"
BY DEF Body, Completion, Content, Validate, InnerReason, Fault

\* The artifacts of every reply that can be digested pass the trusted
\* rebuild, the matrix of the unit and the verifier of the graph.
LEMMA ArtifactsPass ==
  ASSUME NEW e \in Evidence, NEW r \in Reply, Digests(r)
  PROVE  LET a == Artifacts(e, r)
             raw == IF a.transport = "response_received" THEN r ELSE NoReply
         IN  RebuildAccepts(a, raw) /\ UnitFits(OutcomeOf(a), a) /\ GraphAccepts(a)
<1> DEFINE a == Artifacts(e, r)
<1> DEFINE raw == IF a.transport = "response_received" THEN r ELSE NoReply
<1> SUFFICES RebuildAccepts(a, raw) /\ UnitFits(OutcomeOf(a), a) /\ GraphAccepts(a)
  OBVIOUS
<1>f. ASSUME NEW why \in TransportFailure, a = FailureArtifacts(e, why)
      PROVE  RebuildAccepts(a, raw) /\ UnitFits(OutcomeOf(a), a) /\ GraphAccepts(a)
  <2> HIDE DEF a
  <2> QED
    BY <1>f DEF TransportFailure, ProviderFailure, HttpFailure, FailureArtifacts,
       RebuildAccepts, ReceiptFits, ObservationFits, Bare, UnitFits, OutcomeOf,
       GraphAccepts, NoReply, Nothing, None
<1>1. CASE \E why \in TransportFailure : r = Failed(why)
  <2>1. PICK why \in TransportFailure : r = Failed(why)
    BY <1>1
  <2>2. a = FailureArtifacts(e, why)
    BY <2>1 DEF Artifacts, Failed
  <2> QED BY <1>f, <2>2
<1>2. CASE r \in [kind : {"response"}, status : 100..599, size : Nat, body : Body]
  <2> r.kind = "response" /\ r.status \in 100..599 /\ r.size \in Nat /\ r.body \in Body
    BY <1>2
  <2> MaxBytes \in Nat
    BY SizeAssumption
  <2>1. CASE r.size > MaxBytes
    <3>1. a = FailureArtifacts(e, "provider_response_too_large")
      BY <2>1 DEF Artifacts
    <3> QED BY <1>f, <3>1 DEF TransportFailure
  <2>2. CASE r.size <= MaxBytes /\ r.status # 200
    <3>1. a = ResponseArtifacts(e, r)
      BY <2>2 DEF Artifacts
    <3>2. raw = r
      BY <3>1 DEF ResponseArtifacts
    <3> HIDE DEF a, raw
    <3>3. HttpFailureOf(r.status) \in HttpFailure
      BY DEF HttpFailureOf, HttpFailure
    <3> QED
      BY <2>2, <3>1, <3>2, <3>3 DEF TransportFailure, ProviderFailure, HttpFailure,
         ResponseArtifacts, RebuildAccepts, ReceiptFits, ObservationFits, Bare, UnitFits,
         OutcomeOf, GraphAccepts, NoReply, Nothing, None
  <2>3. CASE r.size <= MaxBytes /\ r.status = 200 /\ r.body = OuterInvalid
    <3>1. a = [ResponseArtifacts(e, r) EXCEPT !.diagnostic = TRUE,
                 !.status = "invalid_output", !.reason = "provider_outer_contract_invalid"]
      BY <2>3 DEF Artifacts
    <3>2. raw = r
      BY <3>1 DEF ResponseArtifacts
    <3> HIDE DEF a, raw
    <3> QED
      BY <2>3, <3>1, <3>2 DEF TransportFailure, ProviderFailure, HttpFailure,
         ResponseArtifacts, RebuildAccepts, ReceiptFits, ObservationFits, Bare, UnitFits,
         OutcomeOf, GraphAccepts, NoReply, Nothing, None
  <2>4. CASE r.size <= MaxBytes /\ Parsed(r)
    <3>1. a = [ResponseArtifacts(e, r) EXCEPT !.receipt = TRUE, !.validation = Validate(r.body),
                 !.status = ValidationStatus(Validate(r.body)), !.reason = Validate(r.body)]
      BY <2>4 DEF Artifacts, Parsed
    <3>2. raw = r
      BY <3>1 DEF ResponseArtifacts
    <3>3. Validate(r.body) \in InnerReason \cup {"response_shape_valid"}
      BY <2>4, Reasons DEF Parsed, Digests
    <3> DEFINE v == Validate(r.body)
    <3> HIDE DEF a, raw, v
    <3>4. /\ a.transport = "response_received" /\ a.http = 200 /\ a.size = r.size
          /\ a.receipt = TRUE /\ a.diagnostic = FALSE /\ a.validation = v
          /\ a.status = ValidationStatus(v) /\ a.reason = v
      BY <2>4, <3>1 DEF ResponseArtifacts, v, Parsed
    <3>5. v # "none" /\ v \in InnerReason \cup {"response_shape_valid"}
      BY <3>3 DEF v, InnerReason, Fault
    <3>6. ReceiptFits(a) /\ ObservationFits(a)
      BY <2>4, <3>4, <3>5 DEF ReceiptFits, ObservationFits, ValidationStatus, None, InnerReason, Fault
    <3>7. RebuildAccepts(a, raw)
      BY <2>4, <3>2, <3>4, <3>6 DEF RebuildAccepts, NoReply, Parsed, v
    <3>8. UnitFits(OutcomeOf(a), a)
      BY <3>4, <3>5 DEF UnitFits, OutcomeOf, ValidationStatus, TransportFailure, InnerReason, Fault, None
    <3>9. GraphAccepts(a)
      BY <3>4, <3>5, <3>6 DEF GraphAccepts
    <3> QED BY <3>7, <3>8, <3>9
  <2> QED BY <2>1, <2>2, <2>3, <2>4 DEF Parsed
<1> QED BY <1>1, <1>2, ReplyCases

-----------------------------------------------------------------------------
(* The invariant of an attempt.                                            *)

Phase == {"sending", "streaming", "replied", "recorded", "sealed", "accepted", "raised"}
Answered == phase \in Phase \ {"sending", "streaming"}
Built == phase \in {"recorded", "sealed", "accepted"}

\* what streaming keeps true, so that its end gives a reply of the right kind
WireInv ==
  /\ evidence \in Evidence /\ phase \in Phase
  /\ phase = "sending" => size = 0
  /\ phase = "streaming" => size \in 0..MaxBytes /\ status \in Status

\* what the later phases remember of the reply
RunInv ==
  /\ Answered => reply \in Reply
  /\ Built => Digests(reply) /\ run = Artifacts(evidence, reply)
  /\ phase \in {"sealed", "accepted"} => outcome = OutcomeOf(run)
  /\ phase \notin {"sealed", "accepted"} => outcome = None
  /\ phase = "raised" => ~Digests(reply)

AttemptInv == WireInv /\ RunInv

LEMMA InitAttempt == AttemptInit => AttemptInv
BY SizeAssumption DEF AttemptInit, AttemptInv, WireInv, RunInv, Answered, Built, Phase

LEMMA GivesReply ==
  ASSUME AttemptInv, phase \in {"sending", "streaming"}, NEW r \in Reply, Give(r)
  PROVE  AttemptInv'
BY DEF AttemptInv, WireInv, RunInv, Answered, Built, Phase, Give

LEMMA FailureIsReply ==
  ASSUME NEW why \in TransportFailure
  PROVE  Failed(why) \in Reply
BY DEF Reply

LEMMA NextAttempt == AttemptInv /\ [AttemptNext]_attemptVars => AttemptInv'
<1> SUFFICES ASSUME AttemptInv, [AttemptNext]_attemptVars PROVE AttemptInv'
  OBVIOUS
<1> USE DEF AttemptInv
<1>1. CASE ReceiveHeaders
  BY <1>1, SizeAssumption DEF ReceiveHeaders, WireInv, RunInv, Answered, Built, Phase
<1>2. CASE ReceivePart
  <2>1. PICK n \in 1..MaxPart :
          /\ size' = size + n
          /\ IF size + n > MaxBytes
             THEN Give(Failed("provider_response_too_large"))
             ELSE UNCHANGED <<evidence, phase, status, reply, run, outcome>>
    BY <1>2 DEF ReceivePart
  <2>2. CASE size + n > MaxBytes
    BY <1>2, <2>1, <2>2, FailureIsReply, GivesReply DEF ReceivePart, TransportFailure
  <2>3. CASE ~(size + n > MaxBytes)
    BY <1>2, <2>1, <2>3, SizeAssumption
       DEF ReceivePart, WireInv, RunInv, Answered, Built, Phase
  <2> QED BY <2>2, <2>3
<1>3. CASE ReceiveEnd
  <2>1. CASE status \in 100..599 /\
             \E b \in IF size = 0 THEN {OuterInvalid} ELSE Body : Give(Response(status, size, b))
    <3>1. PICK b \in Body : Give(Response(status, size, b))
      BY <2>1 DEF Body
    <3>2. Response(status, size, b) \in Reply
      BY <1>3, <2>1, SizeAssumption DEF ReceiveEnd, WireInv, Reply
    <3> QED BY <1>3, <3>1, <3>2, GivesReply DEF ReceiveEnd
  <2>2. CASE Give(Failed("provider_transport_error"))
    BY <1>3, <2>2, FailureIsReply, GivesReply DEF ReceiveEnd, TransportFailure
  <2> QED BY <1>3, <2>1, <2>2 DEF ReceiveEnd
<1>4. CASE SendFails
  BY <1>4, FailureIsReply, GivesReply DEF SendFails, TransportFailure
<1>5. CASE InjectedReply
  BY <1>5, GivesReply DEF InjectedReply
<1>6. CASE RecordRun
  <2> reply \in Reply /\ evidence \in Evidence
    BY <1>6 DEF RecordRun, WireInv, RunInv, Answered, Phase
  <2>1. CASE Digests(reply)
    <3>1. phase' = "recorded" /\ run' = Artifacts(evidence, reply)
      BY <1>6, <2>1, ArtifactsPass DEF RecordRun
    <3> QED
      BY <1>6, <2>1, <3>1 DEF RecordRun, WireInv, RunInv, Answered, Built, Phase, Digests
  <2>2. CASE ~Digests(reply)
    BY <1>6, <2>2 DEF RecordRun, WireInv, RunInv, Answered, Built, Phase, Digests
  <2> QED BY <2>1, <2>2
<1>7. CASE SealUnit
  <2> reply \in Reply /\ evidence \in Evidence /\ Digests(reply) /\ run = Artifacts(evidence, reply)
    BY <1>7 DEF SealUnit, WireInv, RunInv, Answered, Built, Phase
  <2>1. UnitFits(OutcomeOf(run), run)
    BY ArtifactsPass
  <2>2. phase' = "sealed" /\ outcome' = OutcomeOf(run)
    BY <1>7, <2>1 DEF SealUnit
  <2> QED
    BY <1>7, <2>2 DEF SealUnit, WireInv, RunInv, Answered, Built, Phase, Digests
<1>8. CASE VerifyGraph
  <2> reply \in Reply /\ evidence \in Evidence /\ Digests(reply) /\ run = Artifacts(evidence, reply)
    BY <1>8 DEF VerifyGraph, WireInv, RunInv, Answered, Built, Phase
  <2>1. phase' = "accepted"
    BY <1>8, ArtifactsPass DEF VerifyGraph
  <2> QED
    BY <1>8, <2>1 DEF VerifyGraph, WireInv, RunInv, Answered, Built, Phase, Digests
<1>9. CASE Finished \/ UNCHANGED attemptVars
  BY <1>9 DEF Finished, attemptVars, WireInv, RunInv, Answered, Built, Phase, Digests
<1> QED BY <1>1, <1>2, <1>3, <1>4, <1>5, <1>6, <1>7, <1>8, <1>9 DEF AttemptNext

-----------------------------------------------------------------------------
(* A result that comes from somewhere else.                                *)

WellFormed(a) == a \in Artifact /\ ReceiptFits(a) /\ ObservationFits(a)

\* a completion for every reason the verifier accepts of a parsed response
LEMMA ReasonHasBody ==
  ASSUME NEW v \in InnerReason \cup {"response_shape_valid"}
  PROVE  \E b \in Body : b # OuterInvalid /\ Validate(b) = v
<1>1. PICK f \in Finish : f # "stop"
  BY WireAssumption
<1> DEFINE C(c, g) == [content |-> c, finish |-> g]
<1>2. ASSUME NEW c \in Content, NEW g \in Finish
      PROVE  C(c, g) \in Body /\ C(c, g) # OuterInvalid
  <2>1. C(c, g).content = c /\ OuterInvalid.content = "not_a_completion"
    BY DEF OuterInvalid
  <2>2. c # "not_a_completion"
    BY DEF Content, Fault
  <2> QED BY <2>1, <2>2 DEF Body, Completion
<1>3. CASE v = "non_stop_finish_reason"
  <2>1. C("sound", f) \in Body /\ C("sound", f) # OuterInvalid
    BY <1>1, <1>2 DEF Content
  <2>2. Validate(C("sound", f)) = v
    BY <1>1, <1>3 DEF Validate
  <2> QED BY <2>1, <2>2
<1>4. CASE v = "response_shape_valid"
  <2>1. C("sound", "stop") \in Body /\ C("sound", "stop") # OuterInvalid
    BY <1>2, WireAssumption DEF Content
  <2>2. Validate(C("sound", "stop")) = v
    BY <1>4 DEF Validate
  <2> QED BY <2>1, <2>2
<1>5. CASE v \in Fault
  <2>1. C(v, "stop") \in Body /\ C(v, "stop") # OuterInvalid
    BY <1>2, <1>5, WireAssumption DEF Content
  <2>2. Validate(C(v, "stop")) = v
    BY <1>5 DEF Validate, Fault
  <2> QED BY <2>1, <2>2
<1> QED BY <1>3, <1>4, <1>5 DEF InnerReason

\* a response the transport could have given, with the artifact's own fields
LEMMA ResponseOf ==
  ASSUME NEW a, WellFormed(a), a.transport = "response_received", NEW b \in Body
  PROVE  /\ Response(a.http, a.size, b) \in Reply
         /\ a.size \in 0..MaxBytes /\ a.http \in 100..599
<1>1. a.size \in 0..MaxBytes /\ a.http \in 100..599
  BY DEF WellFormed, ReceiptFits
<1>2. a.http \in Status
  BY <1>1 DEF WellFormed, Artifact, Nothing
<1> QED BY <1>1, <1>2, SizeAssumption DEF Reply

\* Two artifacts with equal fields are equal.
LEMMA SameFields ==
  ASSUME NEW a \in Artifact, NEW c \in Artifact,
         a.evidence = c.evidence, a.transport = c.transport, a.http = c.http,
         a.size = c.size, a.receipt = c.receipt, a.diagnostic = c.diagnostic,
         a.validation = c.validation, a.status = c.status, a.reason = c.reason
  PROVE  a = c
BY DEF Artifact

\* Completeness of the verifier of the graph: whatever well-formed graph it
\* accepts, some reply makes run() build exactly that graph.
LEMMA AcceptedHasReply ==
  ASSUME NEW a, WellFormed(a), GraphAccepts(a)
  PROVE  \E r \in Reply : Digests(r) /\ a = Artifacts(a.evidence, r)
<1> a \in Artifact
  BY DEF WellFormed
<1> USE DEF Nothing, None
<1>1. CASE a.transport # "response_received"
  <2> DEFINE r == Failed(a.transport)
  <2>1. a.transport \in TransportFailure
    BY <1>1 DEF Artifact
  <2>2. r \in Reply /\ Digests(r)
    BY <2>1, FailureIsReply DEF Digests, Failed
  <2>3. Artifacts(a.evidence, r) = FailureArtifacts(a.evidence, a.transport)
    BY DEF Artifacts, Failed
  <2>4. FailureArtifacts(a.evidence, a.transport) \in Artifact
    BY <2>1 DEF Artifact, FailureArtifacts, ProviderFailure
  <2>5. a = FailureArtifacts(a.evidence, a.transport)
    BY <1>1, <2>4, SameFields
       DEF FailureArtifacts, GraphAccepts, ReceiptFits, Bare, Artifact
  <2> QED BY <2>2, <2>3, <2>5
<1>2. CASE a.transport = "response_received" /\ a.http # 200
  <2> DEFINE r == Response(a.http, a.size, OuterInvalid)
  <2>1. r \in Reply /\ a.size \in 0..MaxBytes /\ a.http \in 100..599
    BY <1>2, ResponseOf DEF Body
  <2>2. Digests(r)
    BY DEF Digests, Response
  <2>3. Artifacts(a.evidence, r) = ResponseArtifacts(a.evidence, r)
    BY <1>2, <2>1, SizeAssumption DEF Artifacts, Response
  <2>4. HttpFailureOf(a.http) \in HttpFailure
    BY DEF HttpFailureOf, HttpFailure
  <2>5. ResponseArtifacts(a.evidence, r) \in Artifact
    BY <2>1, <2>4, SizeAssumption DEF Artifact, ResponseArtifacts, Response, ProviderFailure
  <2>6. a = ResponseArtifacts(a.evidence, r)
    BY <1>2, <2>5, SameFields DEF ResponseArtifacts, Response, GraphAccepts, Bare, Artifact
  <2> QED BY <2>1, <2>2, <2>3, <2>6
<1>3. CASE a.transport = "response_received" /\ a.http = 200 /\ ~a.receipt
  <2> DEFINE r == Response(a.http, a.size, OuterInvalid)
  <2> DEFINE c == [evidence |-> a.evidence, transport |-> "response_received",
                   http |-> a.http, size |-> a.size, receipt |-> FALSE,
                   validation |-> "none", diagnostic |-> TRUE,
                   status |-> "invalid_output", reason |-> "provider_outer_contract_invalid"]
  <2>1. r \in Reply /\ a.size \in 0..MaxBytes /\ a.http \in 100..599
    BY <1>3, ResponseOf DEF Body
  <2>2. Digests(r)
    BY DEF Digests, Response
  <2>3. Artifacts(a.evidence, r) = c
    <3>1. /\ r.kind = "response" /\ r.status = 200 /\ r.size = a.size
          /\ r.body = OuterInvalid /\ ~(r.size > MaxBytes)
      BY <1>3, <2>1, SizeAssumption DEF Response
    <3> QED
      BY <1>3, <3>1 DEF Artifacts, ResponseArtifacts
  <2>4. c \in Artifact
    BY <1>3 DEF Artifact
  <2>5. a = c
    BY <1>3, <2>4, SameFields DEF GraphAccepts, Artifact
  <2> QED BY <2>1, <2>2, <2>3, <2>5
<1>4. CASE a.transport = "response_received" /\ a.http = 200 /\ a.receipt
  <2>1. a.validation \in InnerReason \cup {"response_shape_valid"}
    BY <1>4 DEF GraphAccepts
  <2>2. PICK b \in Body : b # OuterInvalid /\ Validate(b) = a.validation
    BY <2>1, ReasonHasBody
  <2> DEFINE r == Response(a.http, a.size, b)
  <2> DEFINE v == a.validation
  <2> DEFINE c == [evidence |-> a.evidence, transport |-> "response_received",
                   http |-> a.http, size |-> a.size, receipt |-> TRUE,
                   validation |-> v, diagnostic |-> FALSE,
                   status |-> ValidationStatus(v), reason |-> v]
  <2>3. r \in Reply /\ a.size \in 0..MaxBytes /\ a.http \in 100..599
    BY <1>4, ResponseOf
  <2>4. Digests(r)
    BY <2>1, <2>2 DEF Digests, Response, InnerReason, Fault
  <2>5. Artifacts(a.evidence, r) = c
    <3>1. /\ r.kind = "response" /\ r.status = 200 /\ r.size = a.size
          /\ r.body = b /\ ~(r.size > MaxBytes)
      BY <1>4, <2>3, SizeAssumption DEF Response
    <3> QED
      BY <1>4, <2>2, <3>1 DEF Artifacts, ResponseArtifacts
  <2>6. c \in Artifact
    BY <1>4, <2>1 DEF Artifact, ValidationStatus
  <2>7. a = c
    BY <1>4, <2>6, SameFields DEF GraphAccepts, Artifact
  <2> QED BY <2>3, <2>4, <2>5, <2>7
<1> QED BY <1>1, <1>2, <1>3, <1>4

ForeignInv ==
  /\ WellFormed(run) /\ evidence = run.evidence /\ reply = NoReply
  /\ phase \in {"recorded", "sealed", "accepted", "raised"}
  /\ phase = "accepted" => GraphAccepts(run)
  /\ phase \in {"sealed", "accepted"} => outcome # None
  /\ outcome # None => outcome = OutcomeOf(run)

LEMMA InitForeign == ForeignInit => ForeignInv
  BY DEF ForeignInit, ForeignInv, WellFormed

LEMMA NextForeign == ForeignInv /\ [AttemptNext]_attemptVars => ForeignInv'
<1> SUFFICES ASSUME ForeignInv, [AttemptNext]_attemptVars PROVE ForeignInv'
  OBVIOUS
<1>1. CASE SealUnit
  <2>1. OutcomeOf(run) # None
    BY DEF OutcomeOf, None, ForeignInv, WellFormed, Artifact, ProviderFailure, TransportFailure, HttpFailure
  <2> QED
    BY <1>1, <2>1 DEF SealUnit, ForeignInv, WellFormed
<1>2. CASE VerifyGraph
  BY <1>2 DEF VerifyGraph, ForeignInv, WellFormed
<1>3. CASE Finished \/ UNCHANGED attemptVars
  BY <1>3 DEF Finished, attemptVars, ForeignInv, WellFormed
<1>4. ASSUME ReceiveHeaders \/ ReceivePart \/ ReceiveEnd \/ SendFails \/ InjectedReply \/ RecordRun
      PROVE  FALSE
  BY <1>4 DEF ReceiveHeaders, ReceivePart, ReceiveEnd, SendFails, InjectedReply, RecordRun, ForeignInv
<1> QED
  BY <1>1, <1>2, <1>3, <1>4 DEF AttemptNext

-----------------------------------------------------------------------------
(* Attempts of this process and results from elsewhere.                    *)

EitherInv == AttemptInv \/ ForeignInv

LEMMA EitherInvariance == EitherSpec => []EitherInv
<1>1. AttemptInit \/ ForeignInit => EitherInv
  BY InitAttempt, InitForeign DEF EitherInv
<1>2. EitherInv /\ [AttemptNext]_attemptVars => EitherInv'
  BY NextAttempt, NextForeign DEF EitherInv
<1> QED
  BY <1>1, <1>2, PTL DEF EitherSpec

\* For every limit, every status code and every reply of either transport, an
\* answered attempt is lost to an exception only if its content cannot be
\* digested: run(), the seal and the verifier accept what run() builds.
THEOREM AttemptNeverRaises == EitherSpec => []NeverRaises
<1>1. EitherInv => NeverRaises
  BY DEF EitherInv, AttemptInv, RunInv, ForeignInv, NeverRaises
<1> QED
  BY <1>1, EitherInvariance, PTL

\* Whatever well-formed graph is presented to the verifier of the campaign,
\* it accepts only what run() would have built from some reply: the verifier
\* without the raw bodies is as strict as the matrices together can be.
THEOREM ForeignIsExplained == EitherSpec => []AcceptedIsExplained
<1>1. AttemptInv => AcceptedIsExplained
  BY DEF AttemptInv, RunInv, Answered, Phase, Built, AcceptedIsExplained
<1>2. ForeignInv => AcceptedIsExplained
  BY AcceptedHasReply DEF ForeignInv, AcceptedIsExplained
<1> QED
  BY <1>1, <1>2, EitherInvariance, PTL DEF EitherInv

\* the parts of OutcomeTellsTheWire
VerifiersAgree == outcome # None /\ GraphAccepts(run) => UnitFits(outcome, run)

TellsTheWire(o, r) ==
  /\ o = "valid_shape" <=>
       /\ r.kind = "response" /\ r.status = 200 /\ r.size <= MaxBytes
       /\ r.body = [content |-> "sound", finish |-> "stop"]
  /\ o = "invalid_output_outer" <=>
       r.kind = "response" /\ r.status = 200 /\ r.size <= MaxBytes /\ r.body = OuterInvalid
  /\ o = "provider_server_error" <=>
       r.kind = "response" /\ r.status >= 500 /\ r.size <= MaxBytes

\* The outcome of what run() builds from a reply tells which kind it was.
LEMMA OutcomeOfReply ==
  ASSUME NEW e \in Evidence, NEW r \in Reply, Digests(r)
  PROVE  TellsTheWire(OutcomeOf(Artifacts(e, r)), r)
<1> DEFINE a == Artifacts(e, r)
<1> SUFFICES TellsTheWire(OutcomeOf(a), r)
  OBVIOUS
<1>f. ASSUME NEW why \in TransportFailure, a = FailureArtifacts(e, why)
      PROVE  OutcomeOf(a) \in TransportFailure
  <2> HIDE DEF a
  <2> QED
    BY <1>f DEF FailureArtifacts, OutcomeOf, TransportFailure
<1>1. CASE \E why \in TransportFailure : r = Failed(why)
  <2>1. PICK why \in TransportFailure : r = Failed(why)
    BY <1>1
  <2>2. a = FailureArtifacts(e, why) /\ r.kind = "failed"
    BY <2>1 DEF Artifacts, Failed
  <2>3. OutcomeOf(a) \in TransportFailure
    BY <1>f, <2>2
  <2> HIDE DEF a
  <2> QED BY <2>2, <2>3 DEF TellsTheWire, TransportFailure
<1>2. CASE r \in [kind : {"response"}, status : 100..599, size : Nat, body : Body]
  <2>0. /\ r.kind = "response" /\ r.status \in 100..599 /\ r.size \in Nat /\ r.body \in Body
        /\ MaxBytes \in Nat
    BY <1>2, SizeAssumption
  <2>1. CASE r.size > MaxBytes
    <3>1. a = FailureArtifacts(e, "provider_response_too_large")
      BY <2>0, <2>1 DEF Artifacts
    <3>2. OutcomeOf(a) \in TransportFailure
      BY <1>f, <3>1 DEF TransportFailure
    <3> HIDE DEF a
    <3> QED BY <2>0, <2>1, <3>2 DEF TellsTheWire, TransportFailure
  <2>2. CASE r.size <= MaxBytes /\ r.status # 200
    <3>1. a = ResponseArtifacts(e, r)
      BY <2>0, <2>2 DEF Artifacts
    <3> HIDE DEF a
    <3>2. OutcomeOf(a) = HttpFailureOf(r.status)
      BY <3>1 DEF ResponseArtifacts, OutcomeOf, HttpFailureOf
    <3> QED
      BY <2>0, <2>2, <3>2 DEF TellsTheWire, HttpFailureOf
  <2>3. CASE r.size <= MaxBytes /\ r.status = 200 /\ r.body = OuterInvalid
    <3>1. a = [ResponseArtifacts(e, r) EXCEPT !.diagnostic = TRUE,
                 !.status = "invalid_output", !.reason = "provider_outer_contract_invalid"]
      BY <2>0, <2>3 DEF Artifacts
    <3> HIDE DEF a
    <3>2. OutcomeOf(a) = "invalid_output_outer"
      BY <3>1 DEF ResponseArtifacts, OutcomeOf
    <3> QED
      BY <2>0, <2>3, <3>2 DEF TellsTheWire, OuterInvalid
  <2>4. CASE r.size <= MaxBytes /\ Parsed(r)
    <3> DEFINE v == Validate(r.body)
    <3>1. a = [ResponseArtifacts(e, r) EXCEPT !.receipt = TRUE, !.validation = Validate(r.body),
                 !.status = ValidationStatus(Validate(r.body)), !.reason = Validate(r.body)]
      BY <2>0, <2>4 DEF Artifacts, Parsed
    <3>2. /\ v \in InnerReason \cup {"response_shape_valid"}
          /\ v = "response_shape_valid" => r.body.content = "sound" /\ r.body.finish = "stop"
      BY <2>0, <2>4, Reasons DEF Parsed, Digests
    <3>3. r.body = [content |-> "sound", finish |-> "stop"] => v = "response_shape_valid"
      BY DEF Validate
    <3>4. r.body = [content |-> r.body.content, finish |-> r.body.finish]
      BY <2>0 DEF Body, Completion, OuterInvalid
    <3> HIDE DEF a, v
    <3>5. OutcomeOf(a) = IF v = "response_shape_valid" THEN "valid_shape" ELSE "invalid_output_inner"
      <4>1. a.status = ValidationStatus(v) /\ a.diagnostic = FALSE
        BY <3>1 DEF ResponseArtifacts, v
      <4> QED
        BY <4>1 DEF OutcomeOf, ValidationStatus
    <3> QED
      BY <2>0, <2>4, <3>2, <3>3, <3>4, <3>5 DEF TellsTheWire, Parsed
  <2> QED BY <2>0, <2>1, <2>2, <2>3, <2>4 DEF Parsed
<1> QED BY <1>1, <1>2, ReplyCases

\* The sealed outcome says what came over the wire, and what the verifier of
\* the graph accepts fits the matrix of the unit.
THEOREM OutcomesTellTheWire == EitherSpec => []OutcomeTellsTheWire
<1>1. AttemptInv => VerifiersAgree
  BY ArtifactsPass DEF AttemptInv, WireInv, RunInv, Answered, Phase, Built, VerifiersAgree
<1>2. ForeignInv => VerifiersAgree
  <2> SUFFICES ASSUME ForeignInv, outcome # None, GraphAccepts(run) PROVE UnitFits(outcome, run)
    BY DEF VerifiersAgree
  <2>1. PICK r \in Reply : Digests(r) /\ run = Artifacts(run.evidence, r)
    BY AcceptedHasReply DEF ForeignInv
  <2>2. run.evidence \in Evidence /\ outcome = OutcomeOf(run)
    BY DEF ForeignInv, WellFormed, Artifact
  <2> QED
    BY <2>1, <2>2, ArtifactsPass
<1>3. AttemptInv => (phase \in {"sealed", "accepted"} => TellsTheWire(outcome, reply))
  BY OutcomeOfReply DEF AttemptInv, WireInv, RunInv, Answered, Phase, Built
<1>4. ForeignInv => reply = NoReply
  BY DEF ForeignInv
<1>5. EitherInv => OutcomeTellsTheWire
  BY <1>1, <1>2, <1>3, <1>4 DEF EitherInv, VerifiersAgree, TellsTheWire, OutcomeTellsTheWire
<1> QED
  BY <1>5, EitherInvariance, PTL

-----------------------------------------------------------------------------
(* The gate. *)

Holds(c, n, g) == c.nonce = n /\ c.issuer = g
IssuedBy(n, g) == \E c \in caps : Holds(c, n, g)

\* a nonce in a table was issued by that gate
TableOK == \A g \in Gate : \A n \in nonces[g] : IssuedBy(n, g)

\* one marker yields one capability, however many gates and threads compete
OneCapabilityPerPlan == \A c, d \in caps : c.plan = d.plan => c = d

\* a capability was approved, reserved, and is the only one of its plan
CapsOK ==
  /\ \A c \in caps :
       /\ c.plan = PlanOf[c.issuer] /\ c.plan \in reserved /\ c.issuer \in consumed
       /\ c.claims.egress /\ c.claims.budget
  /\ \A c, d \in caps : c.nonce = d.nonce => c = d
  /\ OneCapabilityPerPlan

\* a call of authorize() that got past the approval
ApprovedOK ==
  \A t \in Thread : call[t].at \in {"credential", "budget", "issue"} =>
    call[t].gate \in consumed /\ call[t].claims.egress

\* the thread that made the marker is alone with it until it issues
IssuingOK ==
  \A t \in Thread : call[t].at = "issue" =>
    /\ call[t].claims.budget
    /\ PlanOf[call[t].gate] \in reserved
    /\ \A c \in caps : c.plan # PlanOf[call[t].gate]
    /\ \A u \in Thread :
         call[u].at = "issue" /\ PlanOf[call[u].gate] = PlanOf[call[t].gate] => u = t

\* a nonce that was taken out of its table
Gone(n, g) == IssuedBy(n, g) /\ n \notin nonces[g]

DispatchingOK ==
  /\ \A t \in Thread : call[t].at = "key" =>
       /\ Gone(call[t].nonce, call[t].gate)
       /\ call[t].nonce \notin revoked
       /\ \A s \in sent : s.nonce # call[t].nonce
       /\ \A u \in Thread : call[u].at = "key" /\ call[u].nonce = call[t].nonce => u = t

SpentOK ==
  /\ \A n \in revoked : \E g \in Gate : Gone(n, g)
  /\ \A s \in sent : Gone(s.nonce, s.gate) /\ s.nonce \notin revoked

CountOK ==
  \A q \in Plan :
    \/ attempts[q] = 0 /\ \A s \in sent : PlanOf[s.gate] # q
    \/ attempts[q] = 1 /\ \E s \in sent : PlanOf[s.gate] = q

\* the inductive invariant
GateInv ==
  TypeOK /\ TableOK /\ CapsOK /\ ApprovedOK /\ IssuingOK /\ DispatchingOK /\ SpentOK /\ CountOK

-----------------------------------------------------------------------------
(* Typing.                                                                 *)

\* A call of authorize() holds a gate and claims, a call of dispatch_once()
\* a gate and a nonce.
LEMMA CallTyped ==
  ASSUME TypeOK, NEW t \in Thread
  PROVE  /\ call[t].at \in {"egress", "credential", "budget", "issue"} =>
              call[t] \in Authorizing
         /\ call[t].at \in {"key", "sending"} => call[t] \in Dispatching
BY DEF TypeOK, Authorizing, Dispatching, Idle

\* Replacing the state of one thread.
LEMMA BecomeTyped ==
  ASSUME TypeOK, NEW t \in Thread, NEW state \in {Idle} \cup Authorizing \cup Dispatching,
         Become(t, state)
  PROVE  /\ call' \in [Thread -> {Idle} \cup Authorizing \cup Dispatching]
         /\ call'[t] = state
         /\ \A u \in Thread : u # t => call'[u] = call[u]
BY DEF TypeOK, Become

\* Moving a call of authorize() on.
LEMMA AdvanceAuthorize ==
  ASSUME TypeOK, NEW t \in Thread, call[t] \in Authorizing,
         NEW label \in {"egress", "credential", "budget", "issue"}, Advance(t, label)
  PROVE  /\ call' \in [Thread -> {Idle} \cup Authorizing \cup Dispatching]
         /\ call'[t] \in Authorizing
         /\ call'[t].at = label /\ call'[t].gate = call[t].gate
         /\ call'[t].claims = call[t].claims
         /\ \A u \in Thread : u # t => call'[u] = call[u]
<1>1. call' = [call EXCEPT ![t] = [call[t] EXCEPT !.at = label]]
  BY DEF Advance
<1>2. [call[t] EXCEPT !.at = label] \in Authorizing
  BY DEF Authorizing
<1>3. QED  BY <1>1, <1>2 DEF TypeOK, Authorizing

\* Moving a call of dispatch_once() on.
LEMMA AdvanceDispatch ==
  ASSUME TypeOK, NEW t \in Thread, call[t] \in Dispatching,
         NEW label \in {"key", "sending"}, Advance(t, label)
  PROVE  /\ call' \in [Thread -> {Idle} \cup Authorizing \cup Dispatching]
         /\ call'[t] \in Dispatching
         /\ call'[t].at = label /\ call'[t].gate = call[t].gate
         /\ call'[t].nonce = call[t].nonce
         /\ \A u \in Thread : u # t => call'[u] = call[u]
<1>1. call' = [call EXCEPT ![t] = [call[t] EXCEPT !.at = label]]
  BY DEF Advance
<1>2. [call[t] EXCEPT !.at = label] \in Dispatching
  BY DEF Dispatching
<1>3. QED  BY <1>1, <1>2 DEF TypeOK, Dispatching

LEMMA InitTyped == Init => TypeOK
BY GateAssumption DEF Init, TypeOK

\* Every step of a thread keeps the types.
LEMMA StepTyped ==
  ASSUME TypeOK, [Next]_vars
  PROVE  TypeOK'
<1> USE GateAssumption, ClaimsAssumption
<1>1. ASSUME NEW t \in Thread, AuthorizeStep(t) PROVE TypeOK'
  <2>1. CASE VerifyEgress(t)
    <3>1. call[t] \in Authorizing  BY <2>1, CallTyped DEF VerifyEgress
    <3>2. CASE Advance(t, "credential") /\ consumed' = consumed \cup {call[t].gate}
      BY <2>1, <3>1, <3>2, AdvanceAuthorize DEF VerifyEgress, TypeOK, Authorizing
    <3>3. CASE Become(t, Idle) /\ consumed' = consumed
      BY <2>1, <3>3, BecomeTyped DEF VerifyEgress, TypeOK
    <3>4. QED  BY <2>1, <3>2, <3>3 DEF VerifyEgress
  <2>2. CASE CheckCredential(t)
    <3>1. call[t] \in Authorizing  BY <2>2, CallTyped DEF CheckCredential
    <3>2. call' \in [Thread -> {Idle} \cup Authorizing \cup Dispatching]
      BY <2>2, <3>1, AdvanceAuthorize, BecomeTyped DEF CheckCredential
    <3>3. QED  BY <2>2, <3>2 DEF CheckCredential, TypeOK
  <2>3. CASE ReserveMarker(t)
    <3>1. call[t] \in Authorizing  BY <2>3, CallTyped DEF ReserveMarker
    <3>2. call' \in [Thread -> {Idle} \cup Authorizing \cup Dispatching]
      BY <2>3, <3>1, AdvanceAuthorize, BecomeTyped DEF ReserveMarker
    <3>3. reserved' \subseteq Plan
      BY <2>3, <3>1 DEF ReserveMarker, TypeOK, Authorizing
    <3>4. QED  BY <2>3, <3>2, <3>3 DEF ReserveMarker, TypeOK
  <2>4. CASE IssueCapability(t)
    <3>1. call[t] \in Authorizing  BY <2>4, CallTyped DEF IssueCapability
    <3>2. call' \in [Thread -> {Idle} \cup Authorizing \cup Dispatching]
      BY <2>4, BecomeTyped DEF IssueCapability
    <3>3. PICK n \in Nonce :
            /\ nonces' = [nonces EXCEPT ![call[t].gate] = @ \cup {n}]
            /\ caps' = caps \cup
                 {[nonce |-> n, plan |-> PlanOf[call[t].gate], domain |-> DomainOf[call[t].gate],
                   claims |-> call[t].claims, issuer |-> call[t].gate]}
      BY <2>4 DEF IssueCapability
    <3>4. nonces' \in [Gate -> SUBSET Nonce]
      BY <3>1, <3>3 DEF TypeOK, Authorizing
    <3>5. caps' \subseteq Capability
      BY <3>1, <3>3 DEF TypeOK, Authorizing, Capability
    <3>6. QED  BY <2>4, <3>2, <3>4, <3>5 DEF IssueCapability, TypeOK
  <2>5. QED  BY <1>1, <2>1, <2>2, <2>3, <2>4 DEF AuthorizeStep
<1>2. ASSUME NEW t \in Thread, DispatchStep(t) PROVE TypeOK'
  <2>1. CASE Send(t)
    <3>1. call[t] \in Dispatching  BY <2>1, CallTyped DEF Send
    <3>2. call' \in [Thread -> {Idle} \cup Authorizing \cup Dispatching]
      BY <2>1, <3>1, AdvanceDispatch DEF Send
    <3>3. sent' \subseteq [nonce : Nonce, gate : Gate] /\ attempts' \in [Plan -> Nat]
      BY <2>1, <3>1 DEF Send, TypeOK, Dispatching
    <3>4. QED  BY <2>1, <3>2, <3>3 DEF Send, TypeOK
  <2>2. CASE KeyMissing(t)
    BY <2>2, BecomeTyped DEF KeyMissing, TypeOK
  <2>3. CASE Return(t)
    BY <2>3, BecomeTyped DEF Return, TypeOK
  <2>4. QED  BY <1>2, <2>1, <2>2, <2>3 DEF DispatchStep
<1>3. ASSUME NEW t \in Thread, NEW g \in Gate, NEW c \in Claims, Authorize(t, g, c)
      PROVE  TypeOK'
  <2>1. [at |-> "egress", gate |-> g, claims |-> c] \in Authorizing
    BY DEF Authorizing
  <2>2. QED  BY <1>3, <2>1, BecomeTyped DEF Authorize, TypeOK
<1>4. ASSUME NEW t \in Thread, NEW g \in Gate, NEW c \in Claims, NEW cap \in caps,
             Revoke(t, g, cap, c)
      PROVE  TypeOK'
  BY <1>4 DEF Revoke, Take, TypeOK, Capability
<1>5. ASSUME NEW t \in Thread, NEW g \in Gate, NEW c \in Claims, NEW cap \in caps,
             Dispatch(t, g, cap, c)
      PROVE  TypeOK'
  <2>1. [at |-> "key", gate |-> g, nonce |-> cap.nonce] \in Dispatching
    BY DEF Dispatching, TypeOK, Capability
  <2>2. call' \in [Thread -> {Idle} \cup Authorizing \cup Dispatching]
    BY <1>5, <2>1, BecomeTyped DEF Dispatch
  <2>3. nonces' \in [Gate -> SUBSET Nonce]
    BY <1>5 DEF Dispatch, Take, TypeOK
  <2>4. QED  BY <1>5, <2>2, <2>3 DEF Dispatch, TypeOK
<1>6. CASE UNCHANGED vars
  BY <1>6 DEF vars, TypeOK
<1>7. QED  BY <1>1, <1>2, <1>3, <1>4, <1>5, <1>6 DEF Next

-----------------------------------------------------------------------------
(* The inductive invariant, one lemma per call.                            *)

LEMMA InitInv == Init => GateInv
<1> SUFFICES ASSUME Init PROVE GateInv
  OBVIOUS
<1> USE DEF Init
<1>1. TypeOK  BY InitTyped
<1>2. TableOK /\ CapsOK /\ SpentOK /\ CountOK
  BY DEF TableOK, CapsOK, OneCapabilityPerPlan, SpentOK, CountOK
<1>3. ApprovedOK /\ IssuingOK /\ DispatchingOK
  BY DEF ApprovedOK, IssuingOK, DispatchingOK, Idle
<1>4. QED  BY <1>1, <1>2, <1>3 DEF GateInv

\* A step that leaves capabilities, tables and history alone and only moves
\* one thread, to a place where nothing is claimed of it.
LEMMA QuietStep ==
  ASSUME GateInv, TypeOK', NEW t \in Thread, call'[t].at \notin {"credential", "budget", "issue", "key"},
         \A u \in Thread : u # t => call'[u] = call[u],
         UNCHANGED <<consumed, reserved, nonces, caps, revoked, sent, attempts>>
  PROVE  GateInv'
<1> USE DEF GateInv
<1>1. TableOK' /\ CapsOK' /\ SpentOK' /\ CountOK'
  BY DEF TableOK, CapsOK, OneCapabilityPerPlan, SpentOK, CountOK, IssuedBy, Gone
<1>2. ApprovedOK'
  BY DEF ApprovedOK
<1>3. IssuingOK'
  BY DEF IssuingOK
<1>4. DispatchingOK'
  BY DEF DispatchingOK, Gone, IssuedBy
<1>5. QED  BY <1>1, <1>2, <1>3, <1>4

LEMMA IdleIsQuiet == Idle.at \notin {"credential", "budget", "issue", "key"}
BY DEF Idle

LEMMA AuthorizeKeeps ==
  ASSUME GateInv, NEW t \in Thread, NEW g \in Gate, NEW c \in Claims, Authorize(t, g, c), TypeOK'
  PROVE  GateInv'
<1>1. [at |-> "egress", gate |-> g, claims |-> c] \in Authorizing
  BY DEF Authorizing
<1>2. /\ call'[t].at = "egress"
      /\ \A u \in Thread : u # t => call'[u] = call[u]
  BY <1>1, BecomeTyped DEF GateInv, Authorize
<1>3. QED  BY <1>2, QuietStep DEF Authorize

LEMMA VerifyEgressKeeps ==
  ASSUME GateInv, NEW t \in Thread, VerifyEgress(t), TypeOK'
  PROVE  GateInv'
<1> USE DEF GateInv
<1>1. CASE Become(t, Idle) /\ consumed' = consumed
  BY <1>1, BecomeTyped, IdleIsQuiet, QuietStep DEF VerifyEgress
<1>2. CASE /\ Advance(t, "credential") /\ call[t].claims.egress
           /\ consumed' = consumed \cup {call[t].gate}
  <2>1. call[t] \in Authorizing  BY CallTyped DEF VerifyEgress
  <2>2. /\ call'[t].at = "credential"
        /\ call'[t].gate = call[t].gate /\ call'[t].claims = call[t].claims
        /\ \A u \in Thread : u # t => call'[u] = call[u]
    BY <1>2, <2>1, AdvanceAuthorize
  <2>3. UNCHANGED <<reserved, nonces, caps, revoked, sent, attempts>>
    BY DEF VerifyEgress
  <2>4. TableOK' /\ CapsOK' /\ SpentOK' /\ CountOK'
    BY <1>2, <2>3 DEF TableOK, CapsOK, OneCapabilityPerPlan, SpentOK, CountOK, IssuedBy, Gone
  <2>5. ApprovedOK'
    BY <1>2, <2>2 DEF ApprovedOK
  <2>6. IssuingOK' /\ DispatchingOK'
    BY <2>2, <2>3 DEF IssuingOK, DispatchingOK, Gone, IssuedBy
  <2>7. QED  BY <2>4, <2>5, <2>6
<1>3. QED  BY <1>1, <1>2 DEF VerifyEgress

LEMMA CheckCredentialKeeps ==
  ASSUME GateInv, NEW t \in Thread, CheckCredential(t), TypeOK'
  PROVE  GateInv'
<1> USE DEF GateInv
<1>1. CASE Become(t, Idle)
  BY <1>1, BecomeTyped, IdleIsQuiet, QuietStep DEF CheckCredential
<1>2. CASE Advance(t, "budget")
  <2>1. call[t] \in Authorizing  BY CallTyped DEF CheckCredential
  <2>2. /\ call'[t].at = "budget"
        /\ call'[t].gate = call[t].gate /\ call'[t].claims = call[t].claims
        /\ \A u \in Thread : u # t => call'[u] = call[u]
    BY <1>2, <2>1, AdvanceAuthorize
  <2>3. UNCHANGED <<consumed, reserved, nonces, caps, revoked, sent, attempts>>
    BY DEF CheckCredential
  <2>4. TableOK' /\ CapsOK' /\ SpentOK' /\ CountOK'
    BY <2>3 DEF TableOK, CapsOK, OneCapabilityPerPlan, SpentOK, CountOK, IssuedBy, Gone
  <2>5. ApprovedOK'
    BY <2>2, <2>3 DEF ApprovedOK, CheckCredential
  <2>6. IssuingOK' /\ DispatchingOK'
    BY <2>2, <2>3 DEF IssuingOK, DispatchingOK, Gone, IssuedBy
  <2>7. QED  BY <2>4, <2>5, <2>6
<1>3. QED  BY <1>1, <1>2 DEF CheckCredential

LEMMA ReserveMarkerKeeps ==
  ASSUME GateInv, NEW t \in Thread, ReserveMarker(t), TypeOK'
  PROVE  GateInv'
<1> USE DEF GateInv
<1> DEFINE q == PlanOf[call[t].gate]
<1>1. call[t] \in Authorizing  BY CallTyped DEF ReserveMarker
<1>2. UNCHANGED <<consumed, nonces, caps, revoked, sent, attempts>>
  BY DEF ReserveMarker
<1>3. reserved \subseteq reserved'
  BY DEF ReserveMarker
<1>4. TableOK' /\ CapsOK' /\ SpentOK' /\ CountOK'
  BY <1>2, <1>3 DEF TableOK, CapsOK, OneCapabilityPerPlan, SpentOK, CountOK, IssuedBy, Gone
<1>5. CASE Become(t, Idle)
  <2>1. /\ call'[t] = Idle
        /\ \A u \in Thread : u # t => call'[u] = call[u]
    BY <1>5, BecomeTyped
  <2>2. ApprovedOK' /\ DispatchingOK'
    BY <1>2, <2>1, IdleIsQuiet DEF ApprovedOK, DispatchingOK, Gone, IssuedBy
  <2>3. IssuingOK'
    BY <1>2, <1>3, <2>1, IdleIsQuiet DEF IssuingOK
  <2>4. QED  BY <1>4, <2>2, <2>3
<1>6. CASE /\ Advance(t, "issue") /\ call[t].claims.budget /\ q \notin reserved
           /\ reserved' = reserved \cup {q}
  <2>1. /\ call'[t].at = "issue"
        /\ call'[t].gate = call[t].gate /\ call'[t].claims = call[t].claims
        /\ \A u \in Thread : u # t => call'[u] = call[u]
    BY <1>1, <1>6, AdvanceAuthorize
  <2>2. ApprovedOK'
    BY <1>2, <2>1 DEF ApprovedOK, ReserveMarker
  <2>3. DispatchingOK'
    BY <1>2, <2>1 DEF DispatchingOK, Gone, IssuedBy
  <2>4. \A c \in caps : c.plan # q
    BY <1>6 DEF CapsOK
  <2>5. \A u \in Thread : call[u].at = "issue" => PlanOf[call[u].gate] # q
    BY <1>6 DEF IssuingOK
  <2>6. IssuingOK'
    BY <1>2, <1>6, <2>1, <2>4, <2>5 DEF IssuingOK
  <2>7. QED  BY <1>4, <2>2, <2>3, <2>6
<1>7. QED  BY <1>5, <1>6 DEF ReserveMarker

LEMMA IssueCapabilityKeeps ==
  ASSUME GateInv, NEW t \in Thread, IssueCapability(t), TypeOK'
  PROVE  GateInv'
<1> USE DEF GateInv
<1> DEFINE g == call[t].gate
           q == PlanOf[g]
<1>1. call[t] \in Authorizing  BY CallTyped DEF IssueCapability
<1>2. g \in Gate /\ call[t].claims \in Claims  BY <1>1 DEF Authorizing
<1>3. PICK n \in Nonce \ {c.nonce : c \in caps} :
        /\ nonces' = [nonces EXCEPT ![g] = @ \cup {n}]
        /\ caps' = caps \cup
             {[nonce |-> n, plan |-> q, domain |-> DomainOf[g],
               claims |-> call[t].claims, issuer |-> g]}
  BY DEF IssueCapability
<1> DEFINE new == [nonce |-> n, plan |-> q, domain |-> DomainOf[g],
                   claims |-> call[t].claims, issuer |-> g]
<1>4. /\ new.nonce = n /\ new.plan = q /\ new.issuer = g /\ new.claims = call[t].claims
      /\ caps' = caps \cup {new}
  BY <1>3
<1> HIDE DEF new
<1>5. UNCHANGED <<consumed, reserved, revoked, sent, attempts>>
  BY DEF IssueCapability
<1>6. /\ call'[t] = Idle
      /\ \A u \in Thread : u # t => call'[u] = call[u]
  BY BecomeTyped DEF IssueCapability
<1>7. \A h \in Gate : nonces'[h] = IF h = g THEN nonces[g] \cup {n} ELSE nonces[h]
  BY <1>2, <1>3 DEF TypeOK
<1>8. \A c \in caps : c.nonce # n
  BY <1>3
<1>9. \A m, h : IssuedBy(m, h) => IssuedBy(m, h)' /\ m # n
  BY <1>4, <1>8 DEF IssuedBy, Holds
<1>10. TableOK'
  <2>1. \E c \in caps' : Holds(c, n, g)
    BY <1>4 DEF Holds
  <2> SUFFICES ASSUME NEW h \in Gate, NEW m \in nonces'[h]
               PROVE  \E c \in caps' : Holds(c, m, h)
    BY DEF TableOK, IssuedBy, Holds
  <2>2. CASE h = g /\ m = n
    BY <2>1, <2>2
  <2>3. CASE m \in nonces[h]
    BY <1>9, <2>3 DEF TableOK, IssuedBy
  <2>4. QED  BY <1>7, <2>2, <2>3
<1>11. CapsOK'
  <2>1. /\ q \in reserved /\ g \in consumed
        /\ call[t].claims.egress /\ call[t].claims.budget
        /\ \A c \in caps : c.plan # q
    BY DEF IssuingOK, ApprovedOK, IssueCapability
  <2>2. QED  BY <1>4, <1>5, <1>8, <2>1 DEF CapsOK, OneCapabilityPerPlan
<1>12. ApprovedOK'
  BY <1>5, <1>6, IdleIsQuiet DEF ApprovedOK
<1>13. IssuingOK'
  <2>1. \A u \in Thread : u # t /\ call[u].at = "issue" => PlanOf[call[u].gate] # q
    BY DEF IssuingOK, IssueCapability
  <2>2. QED  BY <1>4, <1>5, <1>6, <2>1, IdleIsQuiet DEF IssuingOK
<1>14. \A m, h : h \in Gate /\ Gone(m, h) => Gone(m, h)'
  BY <1>7, <1>9 DEF Gone
<1>15. DispatchingOK'
  <2>1. \A u \in Thread : call[u].at = "key" => call[u].gate \in Gate
    BY CallTyped DEF Dispatching
  <2>2. QED  BY <1>5, <1>6, <1>14, <2>1, IdleIsQuiet DEF DispatchingOK
<1>16. SpentOK'
  BY <1>5, <1>14 DEF SpentOK, TypeOK
<1>17. CountOK'
  BY <1>5 DEF CountOK
<1>18. QED  BY <1>10, <1>11, <1>12, <1>13, <1>15, <1>16, <1>17

\* Taking a nonce out of its table: it belongs to no other table.
LEMMA TakeKeeps ==
  ASSUME GateInv, TypeOK', NEW g \in Gate, NEW cap \in caps, Outstanding(g, cap.nonce),
         Take(g, cap.nonce), UNCHANGED <<consumed, reserved, caps, sent, attempts>>
  PROVE  /\ TableOK' /\ CapsOK' /\ CountOK'
         /\ cap.issuer = g
         /\ (Gone(cap.nonce, g))'
         /\ \A m : \A h \in Gate : Gone(m, h) => Gone(m, h)' /\ m # cap.nonce
         /\ \A s \in sent : s.nonce # cap.nonce
         /\ cap.nonce \notin revoked
<1> USE DEF GateInv
<1>1. \A h \in Gate : nonces'[h] = IF h = g THEN nonces[g] \ {cap.nonce} ELSE nonces[h]
  BY DEF Take
<1>2. cap.nonce \in nonces[g]
  BY DEF Outstanding
<1>3. PICK c \in caps : Holds(c, cap.nonce, g)
  BY <1>2 DEF TableOK, IssuedBy
<1>4. c = cap /\ cap.issuer = g
  BY <1>3 DEF CapsOK, Holds
<1>5. TableOK' /\ CapsOK' /\ CountOK'
  BY <1>1 DEF TableOK, CapsOK, CountOK, OneCapabilityPerPlan, IssuedBy
<1>6. (Gone(cap.nonce, g))'
  BY <1>1, <1>4 DEF Gone, IssuedBy, Holds
<1>7. \A m : \A h \in Gate : Gone(m, h) => Gone(m, h)' /\ m # cap.nonce
  BY <1>1, <1>2, <1>4 DEF Gone, IssuedBy, Holds, CapsOK
<1>8. \A s \in sent : s.nonce # cap.nonce
  BY <1>7 DEF SpentOK, TypeOK
<1>9. cap.nonce \notin revoked
  BY <1>7 DEF SpentOK
<1>10. QED  BY <1>4, <1>5, <1>6, <1>7, <1>8, <1>9

LEMMA RevokeKeeps ==
  ASSUME GateInv, NEW t \in Thread, NEW g \in Gate, NEW c \in Claims, NEW cap \in caps,
         Revoke(t, g, cap, c), TypeOK'
  PROVE  GateInv'
<1> USE DEF GateInv
<1>1. /\ TableOK' /\ CapsOK' /\ CountOK'
      /\ (Gone(cap.nonce, g))'
      /\ \A m : \A h \in Gate : Gone(m, h) => Gone(m, h)' /\ m # cap.nonce
      /\ \A s \in sent : s.nonce # cap.nonce
  BY TakeKeeps DEF Revoke
<1>2. /\ UNCHANGED <<call, consumed, reserved, caps, sent, attempts>>
      /\ revoked' = revoked \cup {cap.nonce}
  BY DEF Revoke
<1>3. ApprovedOK' /\ IssuingOK'
  BY <1>2 DEF ApprovedOK, IssuingOK
<1>4. DispatchingOK'
  <2>1. \A u \in Thread : call[u].at = "key" => call[u].gate \in Gate
    BY CallTyped DEF Dispatching
  <2>2. QED  BY <1>1, <1>2, <2>1 DEF DispatchingOK
<1>5. SpentOK'
  <2>1. \A n \in revoked : \E h \in Gate : Gone(n, h)'
    BY <1>1 DEF SpentOK
  <2>2. \A s \in sent : Gone(s.nonce, s.gate)' /\ s.nonce \notin revoked'
    BY <1>1, <1>2 DEF SpentOK, TypeOK
  <2>3. QED  BY <1>1, <1>2, <2>1, <2>2 DEF SpentOK
<1>6. QED  BY <1>1, <1>3, <1>4, <1>5

LEMMA DispatchKeeps ==
  ASSUME GateInv, NEW t \in Thread, NEW g \in Gate, NEW c \in Claims, NEW cap \in caps,
         Dispatch(t, g, cap, c), TypeOK'
  PROVE  GateInv'
<1> USE DEF GateInv
<1>1. /\ TableOK' /\ CapsOK' /\ CountOK'
      /\ (Gone(cap.nonce, g))'
      /\ \A m : \A h \in Gate : Gone(m, h) => Gone(m, h)' /\ m # cap.nonce
      /\ \A s \in sent : s.nonce # cap.nonce
      /\ cap.nonce \notin revoked
  BY TakeKeeps DEF Dispatch
<1>2. UNCHANGED <<consumed, reserved, caps, revoked, sent, attempts>>
  BY DEF Dispatch
<1>3. [at |-> "key", gate |-> g, nonce |-> cap.nonce] \in Dispatching
  BY DEF Dispatching, TypeOK, Capability
<1>4. /\ call'[t].at = "key" /\ call'[t].gate = g /\ call'[t].nonce = cap.nonce
      /\ \A u \in Thread : u # t => call'[u] = call[u]
  BY <1>3, BecomeTyped DEF Dispatch
<1>5. ApprovedOK' /\ IssuingOK'
  BY <1>2, <1>4 DEF ApprovedOK, IssuingOK
<1>6. SpentOK'
  BY <1>1, <1>2 DEF SpentOK, TypeOK
<1>7. \A u \in Thread : call[u].at = "key" =>
        call[u].gate \in Gate /\ Gone(call[u].nonce, call[u].gate) /\ call[u].nonce # cap.nonce
  BY <1>1, CallTyped DEF Dispatching, DispatchingOK
<1>8. DispatchingOK'
  <2> SUFFICES ASSUME NEW u \in Thread, call'[u].at = "key"
               PROVE  /\ Gone(call[u].nonce, call[u].gate)'
                      /\ call'[u].nonce \notin revoked'
                      /\ \A s \in sent' : s.nonce # call'[u].nonce
                      /\ \A v \in Thread :
                           call'[v].at = "key" /\ call'[v].nonce = call'[u].nonce => v = u
    BY DEF DispatchingOK
  <2>1. CASE u = t
    BY <1>1, <1>2, <1>4, <1>7, <2>1 DEF Gone, IssuedBy
  <2>2. CASE u # t
    <3>1. call'[u] = call[u] /\ call[u].at = "key"
      BY <1>4, <2>2
    <3>2. \A m, h : h \in Gate /\ Gone(m, h) => (\E d \in caps' : Holds(d, m, h)) /\ m \notin nonces'[h]
      BY <1>1 DEF Gone, IssuedBy, Holds
    <3>3. Gone(call[u].nonce, call[u].gate)'
      BY <1>7, <3>1, <3>2 DEF Gone, IssuedBy
    <3>4. QED  BY <1>2, <1>4, <1>7, <3>1, <3>3 DEF DispatchingOK
  <2>3. QED  BY <2>1, <2>2
<1>9. QED  BY <1>1, <1>5, <1>6, <1>8

LEMMA SendKeeps ==
  ASSUME GateInv, NEW t \in Thread, Send(t), TypeOK'
  PROVE  GateInv'
<1> USE DEF GateInv
<1> DEFINE g == call[t].gate
           n == call[t].nonce
           q == PlanOf[g]
<1>1. call[t] \in Dispatching  BY CallTyped DEF Send
<1>2. g \in Gate /\ n \in Nonce /\ q \in Plan
  BY <1>1, GateAssumption DEF Dispatching
<1>3. /\ call'[t].at = "sending"
      /\ \A u \in Thread : u # t => call'[u] = call[u]
  BY <1>1, AdvanceDispatch DEF Send
<1>4. /\ UNCHANGED <<consumed, reserved, nonces, caps, revoked>>
      /\ sent' = sent \cup {[nonce |-> n, gate |-> g]}
      /\ attempts' = [attempts EXCEPT ![q] = @ + 1]
  BY DEF Send
<1>5. /\ Gone(n, g) /\ n \notin revoked
      /\ \A s \in sent : s.nonce # n
      /\ \A u \in Thread : call[u].at = "key" /\ call[u].nonce = n => u = t
  BY DEF DispatchingOK, Send
<1>6. TableOK' /\ CapsOK'
  BY <1>4 DEF TableOK, CapsOK, OneCapabilityPerPlan, IssuedBy
<1>7. ApprovedOK' /\ IssuingOK'
  BY <1>3, <1>4 DEF ApprovedOK, IssuingOK
<1>8. DispatchingOK'
  BY <1>3, <1>4, <1>5 DEF DispatchingOK, Gone, IssuedBy
<1>9. SpentOK'
  BY <1>4, <1>5 DEF SpentOK, Gone, IssuedBy
<1>10. attempts[q] = 0 /\ \A s \in sent : PlanOf[s.gate] # q
  <2>1. ASSUME NEW s \in sent, PlanOf[s.gate] = q PROVE FALSE
    <3>1. PICK c \in caps : Holds(c, n, g)  BY <1>5 DEF Gone, IssuedBy
    <3>2. PICK d \in caps : Holds(d, s.nonce, s.gate)  BY <2>1 DEF SpentOK, Gone, IssuedBy
    <3>3. c.plan = q /\ d.plan = q  BY <2>1, <3>1, <3>2 DEF CapsOK, Holds
    <3>4. c = d  BY <3>3 DEF CapsOK, OneCapabilityPerPlan
    <3>5. QED  BY <1>5, <2>1, <3>1, <3>2, <3>4 DEF Holds
  <2>2. QED  BY <1>2, <2>1 DEF CountOK
<1>11. CountOK'
  <2> SUFFICES ASSUME NEW r \in Plan
               PROVE  \/ attempts'[r] = 0 /\ \A s \in sent' : PlanOf[s.gate] # r
                      \/ attempts'[r] = 1 /\ \E s \in sent' : PlanOf[s.gate] = r
    BY DEF CountOK
  <2> DEFINE new == [nonce |-> n, gate |-> g]
  <2>1. new \in sent' /\ PlanOf[new.gate] = q
    BY <1>4
  <2>2. CASE r = q
    <3>1. attempts \in [Plan -> Nat]
      BY DEF TypeOK
    <3>2. attempts[r] = 0
      BY <1>10, <2>2
    <3>3. attempts'[r] = attempts[r] + 1
      BY <1>4, <2>2, <3>1
    <3>4. attempts'[r] = 1
      BY <3>2, <3>3
    <3> HIDE DEF new
    <3>5. QED  BY <2>1, <2>2, <3>4
  <2>3. CASE r # q
    <3>1. attempts'[r] = attempts[r]
      BY <1>2, <1>4, <2>3 DEF TypeOK
    <3>2. \A s \in sent' : s \in sent \/ s = new
      BY <1>4
    <3>3. QED  BY <1>4, <2>1, <2>3, <3>1, <3>2 DEF CountOK
  <2>4. QED  BY <2>2, <2>3
<1>12. QED  BY <1>6, <1>7, <1>8, <1>9, <1>11

-----------------------------------------------------------------------------
(* The theorems.                                                           *)

LEMMA NextKeeps ==
  ASSUME GateInv, [Next]_vars
  PROVE  GateInv'
<1>1. TypeOK'
  BY StepTyped DEF GateInv
<1>2. ASSUME NEW t \in Thread, AuthorizeStep(t) PROVE GateInv'
  BY <1>1, <1>2, VerifyEgressKeeps, CheckCredentialKeeps, ReserveMarkerKeeps, IssueCapabilityKeeps
     DEF AuthorizeStep
<1>3. ASSUME NEW t \in Thread, KeyMissing(t) \/ Return(t) PROVE GateInv'
  <2>1. /\ Become(t, Idle)
        /\ UNCHANGED <<consumed, reserved, nonces, caps, revoked, sent, attempts>>
    BY <1>3 DEF KeyMissing, Return
  <2>2. QED  BY <1>1, <2>1, BecomeTyped, IdleIsQuiet, QuietStep DEF GateInv
<1>4. ASSUME NEW t \in Thread, DispatchStep(t) PROVE GateInv'
  BY <1>1, <1>3, <1>4, SendKeeps DEF DispatchStep
<1>5. CASE UNCHANGED vars
  BY <1>1, <1>5 DEF vars, GateInv, TableOK, CapsOK, OneCapabilityPerPlan, ApprovedOK, IssuingOK,
     DispatchingOK, SpentOK, CountOK, Gone, IssuedBy
<1>6. QED
  BY <1>1, <1>2, <1>4, <1>5, AuthorizeKeeps, RevokeKeeps, DispatchKeeps DEF Next

\* Whatever threads, gates, claims and capabilities there are: a plan is
\* sent at most once, a revoked capability never, and only through the gate
\* that issued it after approval and reservation.
THEOREM GateSafety ==
  Spec => [](AtMostOneAttempt /\ SentWasAuthorized /\ OneCapabilityPerPlan)
<1>1. Init => GateInv
  BY InitInv
<1>2. GateInv /\ [Next]_vars => GateInv'
  BY NextKeeps
<1>3. GateInv => AtMostOneAttempt /\ SentWasAuthorized /\ OneCapabilityPerPlan
  <2> SUFFICES ASSUME GateInv
               PROVE  AtMostOneAttempt /\ SentWasAuthorized /\ OneCapabilityPerPlan
    OBVIOUS
  <2>1. AtMostOneAttempt
    BY DEF GateInv, TypeOK, CountOK, AtMostOneAttempt
  <2>2. SentWasAuthorized
    <3> SUFFICES ASSUME NEW s \in sent
                 PROVE  /\ s.nonce \notin revoked
                        /\ s.gate \in consumed
                        /\ PlanOf[s.gate] \in reserved
                        /\ \E cap \in caps :
                             /\ cap.nonce = s.nonce /\ cap.issuer = s.gate
                             /\ cap.claims.egress /\ cap.claims.budget
      BY DEF SentWasAuthorized
    <3>1. PICK c \in caps : Holds(c, s.nonce, s.gate)
      BY DEF GateInv, SpentOK, Gone, IssuedBy
    <3>2. s.nonce \notin revoked  BY DEF GateInv, SpentOK
    <3>3. QED  BY <3>1, <3>2 DEF GateInv, CapsOK, Holds
  <2>3. OneCapabilityPerPlan
    BY DEF GateInv, CapsOK
  <2>4. QED  BY <2>1, <2>2, <2>3
<1>4. QED  BY <1>1, <1>2, <1>3, PTL DEF Spec

\* The gates keep the promise of OneAttempt.
THEOREM GateRefinement == Spec => ImplementsOneAttempt
<1>1. Init => Promise!Init
  BY DEF Init, Promise!Init
<1>2. GateInv /\ [Next]_vars => [Promise!Next]_(Promise!vars)
  <2> SUFFICES ASSUME GateInv, [Next]_vars
               PROVE  [Promise!Next]_(Promise!vars)
    OBVIOUS
  <2>1. ASSUME NEW t \in Thread, ReserveMarker(t) PROVE [Promise!Next]_(Promise!vars)
    <3>1. call[t] \in Authorizing
      BY <2>1, CallTyped DEF ReserveMarker, GateInv
    <3>2. PlanOf[call[t].gate] \in Plan
      BY <3>1, GateAssumption DEF Authorizing
    <3>3. UNCHANGED attempts
      BY <2>1 DEF ReserveMarker
    <3>4. CASE reserved' = reserved
      BY <3>3, <3>4 DEF Promise!vars
    <3>5. CASE PlanOf[call[t].gate] \notin reserved /\ reserved' = reserved \cup {PlanOf[call[t].gate]}
      BY <3>2, <3>3, <3>5 DEF Promise!Next, Promise!Reserve
    <3>6. QED  BY <2>1, <3>4, <3>5 DEF ReserveMarker
  <2>2. ASSUME NEW t \in Thread, Send(t) PROVE [Promise!Next]_(Promise!vars)
    <3> DEFINE q == PlanOf[call[t].gate]
    <3>1. call[t] \in Dispatching
      BY <2>2, CallTyped DEF Send, GateInv
    <3>2. q \in Plan
      BY <3>1, GateAssumption DEF Dispatching
    <3>3. q \in reserved
      <4>1. PICK c \in caps : Holds(c, call[t].nonce, call[t].gate)
        BY <2>2 DEF Send, GateInv, DispatchingOK, Gone, IssuedBy
      <4>2. QED  BY <4>1 DEF GateInv, CapsOK, Holds
    <3>4. reserved' = reserved /\ attempts' = [attempts EXCEPT ![q] = @ + 1]
      BY <2>2 DEF Send
    <3>5. attempts'[q] = 1
      <4>1. GateInv'
        BY NextKeeps
      <4>2. attempts[q] \in Nat /\ attempts'[q] = attempts[q] + 1
        BY <3>2, <3>4 DEF GateInv, TypeOK
      <4>3. attempts'[q] = 0 \/ attempts'[q] = 1
        BY <3>2, <4>1 DEF GateInv, CountOK
      <4>4. QED  BY <4>2, <4>3
    <3>6. attempts[q] = 0
      BY <3>2, <3>4, <3>5 DEF GateInv, TypeOK
    <3>7. Promise!Attempt(q)
      BY <3>2, <3>3, <3>4, <3>6 DEF Promise!Attempt
    <3>8. QED  BY <3>2, <3>7 DEF Promise!Next
  <2>3. CASE UNCHANGED <<reserved, attempts>>
    BY <2>3 DEF Promise!vars
  <2>4. QED
    BY <2>1, <2>2, <2>3
       DEF Next, AuthorizeStep, DispatchStep, VerifyEgress, CheckCredential, IssueCapability,
           KeyMissing, Return, Authorize, Revoke, Dispatch, vars
<1>3. Spec => []GateInv
  <2>1. Init => GateInv
    BY InitInv
  <2>2. GateInv /\ [Next]_vars => GateInv'
    BY NextKeeps
  <2>3. QED  BY <2>1, <2>2, PTL DEF Spec
<1>4. QED  BY <1>1, <1>2, <1>3, PTL DEF Spec, ImplementsOneAttempt, Promise!Spec

-----------------------------------------------------------------------------
(* Reservations.  The marker and the step after it are one: whoever makes  *)
(* a marker on a disk that works goes on to issue, and issuing leaves a    *)
(* capability that nobody takes out of circulation.                        *)

LEMMA ReservationKept ==
  ASSUME TypeOK, ReservationIsGranted, [Next]_vars
  PROVE  ReservationIsGranted'
<1> USE DEF ReservationIsGranted
<1>1. ASSUME NEW t \in Thread, ReserveMarker(t) PROVE ReservationIsGranted'
  <2> DEFINE p == PlanOf[call[t].gate]
  <2>1. caps' = caps /\ call[t].at = "budget"
    BY <1>1 DEF ReserveMarker
  <2>2. SUFFICES ASSUME NEW q \in reserved' \ Failing,
                        ~\E cap \in caps : cap.plan = q
                 PROVE  \E u \in Thread : call'[u].at = "issue" /\ PlanOf[call'[u].gate] = q
    BY <2>1
  <2>3. CASE q \in reserved
    <3>1. PICK u \in Thread : call[u].at = "issue" /\ PlanOf[call[u].gate] = q
      BY <2>2, <2>3
    <3>2. u # t  BY <2>1, <3>1
    <3>3. call'[u] = call[u]
      BY <1>1, <3>2 DEF ReserveMarker, Become, Advance, TypeOK
    <3>4. QED  BY <3>1, <3>3
  <2>4. CASE q \notin reserved
    <3>1. q = p /\ Advance(t, "issue")
      BY <1>1, <2>2, <2>4 DEF ReserveMarker
    <3>2. call[t] \in Authorizing
      BY <2>1 DEF TypeOK, Idle, Dispatching, Authorizing
    <3>3. call'[t].at = "issue" /\ call'[t].gate = call[t].gate
      BY <3>1, <3>2 DEF Advance, TypeOK, Authorizing
    <3>4. QED  BY <3>1, <3>3
  <2>5. QED  BY <2>3, <2>4
<1>2. ASSUME NEW t \in Thread, IssueCapability(t) PROVE ReservationIsGranted'
  <2> DEFINE cap(n) == [nonce |-> n, plan |-> PlanOf[call[t].gate], domain |-> DomainOf[call[t].gate],
                        claims |-> call[t].claims, issuer |-> call[t].gate]
  <2>1. PICK n \in Nonce : caps' = caps \cup {cap(n)}
    BY <1>2 DEF IssueCapability
  <2>3. cap(n).plan = PlanOf[call[t].gate] /\ cap(n) \in caps' /\ caps \subseteq caps'
    BY <2>1
  <2> HIDE DEF cap
  <2>2. reserved' = reserved /\ \A u \in Thread : u # t => call'[u] = call[u]
    BY <1>2 DEF IssueCapability, Become, TypeOK
  <2>4. QED  BY <2>2, <2>3
<1>3. ASSUME UNCHANGED <<reserved, caps>>,
             \A u \in Thread : call[u].at = "issue" => call'[u] = call[u]
      PROVE  ReservationIsGranted'
  BY <1>3
<1>4. ASSUME NEW t \in Thread, call[t].at # "issue", UNCHANGED <<reserved, caps>>,
             \/ \E state : Become(t, state)
             \/ \E label : Advance(t, label)
             \/ UNCHANGED call
      PROVE  ReservationIsGranted'
  <2>1. \A u \in Thread : u # t => call'[u] = call[u]
    BY <1>4 DEF Become, Advance, TypeOK
  <2>2. QED  BY <1>3, <1>4, <2>1
<1>5. ASSUME NEW t \in Thread, NEW g \in Gate, NEW c \in Claims,
             \/ Authorize(t, g, c)
             \/ \E cap \in caps : Revoke(t, g, cap, c) \/ Dispatch(t, g, cap, c)
      PROVE  ReservationIsGranted'
  <2>1. CASE Authorize(t, g, c)
    <3>1. call[t].at # "issue"  BY <2>1 DEF Authorize, Idle
    <3>2. QED  BY <1>4, <2>1, <3>1 DEF Authorize
  <2>2. ASSUME NEW cap \in caps, Revoke(t, g, cap, c) PROVE ReservationIsGranted'
    BY <1>3, <2>2 DEF Revoke
  <2>3. ASSUME NEW cap \in caps, Dispatch(t, g, cap, c) PROVE ReservationIsGranted'
    <3>1. call[t].at # "issue"  BY <2>3 DEF Dispatch, Idle
    <3>2. QED  BY <1>4, <2>3, <3>1 DEF Dispatch
  <2>4. QED  BY <1>5, <2>1, <2>2, <2>3
<1>6. ASSUME NEW t \in Thread, VerifyEgress(t) \/ CheckCredential(t) \/ DispatchStep(t)
      PROVE  ReservationIsGranted'
  BY <1>4, <1>6 DEF VerifyEgress, CheckCredential, DispatchStep, Send, KeyMissing, Return
<1>7. CASE UNCHANGED vars
  BY <1>3, <1>7 DEF vars
<1>8. QED
  BY <1>1, <1>2, <1>5, <1>6, <1>7 DEF Next, AuthorizeStep

-----------------------------------------------------------------------------
(* The single attempt command.  Its steps are steps of the gate, so what   *)
(* the gate promises holds of it.  What it prints follows from where it    *)
(* is: up to the hand-over nobody has sent through its gate, for the gate  *)
(* is in its process and nobody else's.                                    *)

Tried(g) == \E s \in sent : s.gate = g

SmokeTyped ==
  /\ home \in Homes
  /\ at \in [Thread -> {"program", "start", "approved", "authorizing", "authorized", "running", "ended"}]
  /\ told \in [Thread -> [code : Nat, network : {"none", "false", "true", "null"}]]
  /\ heard \in [Thread -> Answers \cup {NoReply}]
  /\ \A t \in Thread : at[t] = "program" <=> home[t] = "program"

\* where the call of a run is, and whether its gate has sent
CallOf(t) ==
  /\ at[t] \in {"start", "approved", "authorizing", "authorized"} => ~Tried(home[t])
  /\ at[t] \in {"start", "approved", "authorized", "ended"} => call[t] = Idle
  /\ at[t] = "authorizing" => call[t] \in Authorizing /\ call[t].gate = home[t]
  /\ at[t] = "running" =>
       /\ call[t] \in Dispatching /\ call[t].gate = home[t]
       /\ call[t].at = "key" => ~Tried(home[t])
       /\ call[t].at = "sending" => Tried(home[t])
  /\ at[t] # "ended" => heard[t] = NoReply
  /\ at[t] = "program" /\ call[t] # Idle => call[t].gate \notin Taken

\* what is true of a summary; see SummariesTellTheTruth
Truth(t) ==
  /\ told[t].network = "false" => ~Tried(home[t])
  /\ told[t].network = "true" => Tried(home[t]) /\ home[t] \in Live
  /\ Tried(home[t]) /\ home[t] \in Live /\ Digests(heard[t]) => told[t].network = "true"
  /\ told[t].code = 0 <=> (Sound(heard[t]) \/ (told[t] = Told(0, "false") /\ ~Tried(home[t])))

SmokeInv ==
  /\ GateInv /\ SmokeTyped
  /\ \A t \in Thread : CallOf(t)
  /\ \A t \in Thread : at[t] = "ended" => Truth(t)

\* the runs have different gates
LEMMA HomesDiffer ==
  ASSUME SmokeTyped, NEW t \in Thread, NEW u \in Thread, at[t] # "program", at[u] # "program",
         home[t] = home[u]
  PROVE  t = u
BY CommandAssumption DEF SmokeTyped

\* the gate of a run is one
LEMMA HomeIsGate ==
  ASSUME SmokeTyped, NEW t \in Thread, at[t] # "program"
  PROVE  home[t] \in Gate /\ Genuine(home[t]) \in Claims /\ home[t] \in Taken
BY CommandAssumption DEF SmokeTyped, Taken

\* Every step of the composition is a step of the gate.
LEMMA StepIsGates ==
  ASSUME SmokeTyped, [SmokeNext]_smokeVars
  PROVE  [Next]_vars
<1>1. CASE UNCHANGED smokeVars
  BY <1>1 DEF smokeVars, vars
<1>2. ASSUME NEW t \in Thread, Program(t) PROVE [Next]_vars
  BY <1>2 DEF Program, Next
<1>3. ASSUME NEW t \in Thread, CommandStep(t) PROVE [Next]_vars
  <2>1. CASE Prepare(t)
    BY <2>1 DEF Prepare
  <2>2. CASE Ask(t)
    <3>1. at[t] # "program"  BY <2>2 DEF Ask
    <3>2. QED  BY <2>2, <3>1, HomeIsGate DEF Ask, Next
  <2>3. CASE Authorization(t)
    BY <2>3 DEF Authorization, Next
  <2>4. CASE RunOnce(t)
    <3>1. at[t] # "program"  BY <2>4 DEF RunOnce
    <3>2. QED  BY <2>4, <3>1, HomeIsGate DEF RunOnce, Next
  <2>5. CASE HandOver(t) \/ KeyGone(t) \/ Summarize(t)
    BY <2>5 DEF HandOver, KeyGone, Summarize, DispatchStep, Next
  <2>6. QED  BY <1>3, <2>1, <2>2, <2>3, <2>4, <2>5 DEF CommandStep
<1>4. QED  BY <1>1, <1>2, <1>3 DEF SmokeNext, AllEnded

\* sizes can be compared
LEMMA WholeBytes == MaxBytes \in Nat /\ MaxPart \in Nat
BY SizeAssumption

\* The summary of an answer: the second look at the artifacts never refuses
\* what the runner has built, and the exit code knows a sound answer.
LEMMA SummaryIsTrue ==
  ASSUME NEW g, NEW r \in AnswersOf(g)
  PROVE  /\ Summary(g, r) \in [code : Nat, network : {"none", "false", "true", "null"}]
         /\ Summary(g, r).network # "false"
         /\ Summary(g, r).network = "true" => g \in Live
         /\ g \in Live /\ Digests(r) => Summary(g, r).network = "true"
         /\ Summary(g, r).code = 0 <=> Sound(r)
<1> DEFINE e == IF g \in Live THEN "httpx_tls_fixed_endpoint" ELSE "injected_untrusted_transport"
           a == Artifacts(e, r)
<1>1. r \in Reply
  BY CommandAssumption DEF AnswersOf
<1>2. CASE ~Digests(r)
  <2>1. Summary(g, r) = Told(3, "null")
    BY <1>2 DEF Summary
  <2>2. ~Sound(r)
    BY <1>2 DEF Sound, Digests, Validate
  <2>3. QED  BY <1>2, <2>1, <2>2 DEF Told
<1>3. CASE Digests(r)
  <2>1. SummaryFits(a) /\ (a.status = "valid_shape" <=> Sound(r))
    <3> USE DEF FailureArtifacts, ResponseArtifacts, Nothing, None
    <3>1. CASE r.kind = "failed"
      <4>1. r.why \in TransportFailure
        BY <1>1, <3>1 DEF Reply, Failed, Response
      <4>2. a = FailureArtifacts(e, r.why)
        BY <3>1 DEF Artifacts
      <4>3. QED  BY <3>1, <4>1, <4>2 DEF SummaryFits, Sound, TransportFailure
    <3>2. CASE r.kind # "failed" /\ r.size > MaxBytes
      <4>1. a = FailureArtifacts(e, "provider_response_too_large")
        BY <3>2 DEF Artifacts
      <4>2. ~Sound(r)
        BY <1>1, <3>2, WholeBytes DEF Sound, Reply, Failed, Response
      <4>3. QED  BY <4>1, <4>2 DEF SummaryFits
    <3>3. CASE r.kind # "failed" /\ ~(r.size > MaxBytes) /\ r.status # 200
      <4>1. a = ResponseArtifacts(e, r)
        BY <3>3 DEF Artifacts
      <4>2. QED  BY <3>3, <4>1 DEF SummaryFits, Sound, HttpFailureOf
    <3>4. CASE r.kind # "failed" /\ ~(r.size > MaxBytes) /\ r.status = 200 /\ r.body = OuterInvalid
      <4>1. a = [ResponseArtifacts(e, r) EXCEPT !.diagnostic = TRUE,
                   !.status = "invalid_output", !.reason = "provider_outer_contract_invalid"]
        BY <3>4 DEF Artifacts
      <4>2. ~a.receipt /\ a.validation = "none" /\ a.status = "invalid_output"
        BY <4>1
      <4>3. ~Sound(r)
        <5>1. r.body.content = "not_a_completion"
          BY <3>4 DEF OuterInvalid
        <5>2. QED  BY <5>1 DEF Sound
      <4> HIDE DEF a
      <4>4. QED  BY <4>2, <4>3 DEF SummaryFits
    <3>5. CASE r.kind # "failed" /\ ~(r.size > MaxBytes) /\ r.status = 200 /\ r.body # OuterInvalid
      <4> DEFINE v == Validate(r.body)
      <4>1. a = [ResponseArtifacts(e, r) EXCEPT !.receipt = TRUE, !.validation = v,
                   !.status = ValidationStatus(v), !.reason = v]
        BY <3>5 DEF Artifacts
      <4>2. r.kind = "response" /\ r.body \in Completion /\ r.size <= MaxBytes
        BY <1>1, <3>5, WholeBytes DEF Reply, Failed, Response, Body
      <4>3. /\ r.body = [content |-> r.body.content, finish |-> r.body.finish]
            /\ r.body.content \in Content
        BY <4>2 DEF Completion
      <4>4. v # "none" /\ (v = "response_shape_valid" <=> r.body = [content |-> "sound", finish |-> "stop"])
        BY <4>3 DEF Validate, Content, Fault
      <4>5. SummaryFits(a)
        <5> HIDE DEF v
        <5>1. a.receipt /\ a.validation = v /\ ~a.diagnostic /\ a.status = ValidationStatus(v)
          BY <4>1
        <5>2. QED  BY <4>4, <5>1 DEF SummaryFits
      <4>6. a.status = "valid_shape" <=> v = "response_shape_valid"
        <5> HIDE DEF v
        <5>1. a.status = ValidationStatus(v)
          BY <4>1
        <5>2. QED  BY <5>1 DEF ValidationStatus
      <4>7. QED  BY <3>5, <4>2, <4>4, <4>5, <4>6 DEF Sound
    <3>6. QED  BY <3>1, <3>2, <3>3, <3>4, <3>5
  <2>2. Summary(g, r) =
          Told(IF a.status = "valid_shape" THEN 0 ELSE 3, IF g \in Live THEN "true" ELSE "null")
    BY <1>3, <2>1 DEF Summary
  <2> HIDE DEF a
  <2>3. QED  BY <1>3, <2>1, <2>2 DEF Told
<1>4. QED  BY <1>2, <1>3

\* A step of one run changes nothing of another.
LEMMA Elsewhere ==
  ASSUME SmokeInv, NEW t \in Thread, NEW u \in Thread, u # t,
         SmokeTyped', home' = home,
         at'[u] = at[u], told'[u] = told[u], heard'[u] = heard[u], call'[u] = call[u],
         \/ sent' = sent
         \/ at[u] = "program"
         \/ \E n : sent' = sent \cup {[nonce |-> n, gate |-> home[t]]} /\ at[t] # "program"
         \/ \E n, g : sent' = sent \cup {[nonce |-> n, gate |-> g]} /\ g \notin Taken
  PROVE  CallOf(u)' /\ (at[u] = "ended" => Truth(u)')
<1>1. CASE at[u] = "program"
  <2>1. Taken' = Taken
    BY DEF Taken
  <2>2. QED  BY <1>1, <2>1 DEF SmokeInv, CallOf
<1>2. CASE at[u] # "program"
  <2>1. home[u] \in Taken /\ (at[t] # "program" => home[t] # home[u])
    BY <1>2, HomeIsGate, HomesDiffer DEF SmokeInv
  <2>2. Tried(home[u])' <=> Tried(home[u])
    BY <1>2, <2>1 DEF Tried
  <2>3. QED  BY <1>2, <2>2 DEF SmokeInv, CallOf, Truth
<1>3. QED  BY <1>1, <1>2

\* what a step of t leaves alone
Only(t) ==
  /\ home' = home
  /\ \A u \in Thread : u # t =>
       at'[u] = at[u] /\ told'[u] = told[u] /\ heard'[u] = heard[u] /\ call'[u] = call[u]

LEMMA StepKeeps ==
  ASSUME SmokeInv, NEW t \in Thread, SmokeTyped', GateInv', Only(t),
         \/ sent' = sent
         \/ \E n : sent' = sent \cup {[nonce |-> n, gate |-> home[t]]} /\ at[t] # "program"
         \/ \E n, g : sent' = sent \cup {[nonce |-> n, gate |-> g]} /\ g \notin Taken,
         CallOf(t)', at'[t] = "ended" => Truth(t)'
  PROVE  SmokeInv'
<1>1. ASSUME NEW u \in Thread, u # t
      PROVE  CallOf(u)' /\ (at'[u] = "ended" => Truth(u)')
  <2>1. /\ home' = home /\ at'[u] = at[u] /\ told'[u] = told[u]
        /\ heard'[u] = heard[u] /\ call'[u] = call[u]
    BY <1>1 DEF Only
  <2>2. QED  BY <1>1, <2>1, Elsewhere
<1>2. QED  BY <1>1 DEF SmokeInv

\* what the moves of a run do to where it is
LEMMA Moves ==
  ASSUME SmokeTyped, NEW t \in Thread, at[t] # "program"
  PROVE  /\ \A label \in {"approved", "authorizing", "authorized", "running"} :
              Goto(t, label) =>
                /\ SmokeTyped' /\ home' = home /\ at'[t] = label
                /\ told' = told /\ heard' = heard
                /\ \A u \in Thread : u # t => at'[u] = at[u]
         /\ \A w \in [code : Nat, network : {"none", "false", "true", "null"}] :
              Fail(t, w) =>
                /\ SmokeTyped' /\ home' = home /\ at'[t] = "ended"
                /\ told'[t] = w /\ heard' = heard
                /\ \A u \in Thread : u # t => at'[u] = at[u] /\ told'[u] = told[u]
BY DEF SmokeTyped, Goto, Fail, Exit

\* A thread that calls other gates leaves the runs alone.
LEMMA ProgramKeeps ==
  ASSUME SmokeInv, GateInv', NEW t \in Thread, Program(t)
  PROVE  SmokeInv'
<1> USE DEF SmokeInv, GateInv
<1>1. UNCHANGED <<home, at, told, heard>> /\ at[t] = "program"
  BY DEF Program
<1>2. SmokeTyped' /\ Taken' = Taken
  BY <1>1 DEF SmokeTyped, Taken
<1>3. CallOf(t) /\ call[t] # Idle => call[t].gate \notin Taken
  BY <1>1 DEF CallOf
<1>4. call[t] \in {Idle} \cup Authorizing \cup Dispatching
  BY DEF TypeOK
<1>5. /\ \A u \in Thread : u # t => call'[u] = call[u]
      /\ call'[t] = Idle \/ call'[t].gate \notin Taken
  <2>1. CASE AuthorizeStep(t)
    <3>1. call[t] # Idle
      BY <2>1 DEF AuthorizeStep, VerifyEgress, CheckCredential, ReserveMarker, IssueCapability, Idle
    <3>2. \/ \E label : Advance(t, label)
          \/ Become(t, Idle)
      BY <2>1 DEF AuthorizeStep, VerifyEgress, CheckCredential, ReserveMarker, IssueCapability
    <3>3. QED
      BY <1>3, <1>4, <3>1, <3>2 DEF Advance, Become, TypeOK, Authorizing, Dispatching
  <2>2. CASE DispatchStep(t)
    <3>1. call[t] # Idle
      BY <2>2 DEF DispatchStep, Send, KeyMissing, Return, Idle
    <3>2. \/ \E label : Advance(t, label)
          \/ Become(t, Idle)
      BY <2>2 DEF DispatchStep, Send, KeyMissing, Return
    <3>3. QED
      BY <1>3, <1>4, <3>1, <3>2 DEF Advance, Become, TypeOK, Authorizing, Dispatching
  <2>3. ASSUME NEW g \in Gate \ Taken, NEW c \in Claims,
               \/ Authorize(t, g, c)
               \/ \E cap \in caps : Revoke(t, g, cap, c) \/ Dispatch(t, g, cap, c)
        PROVE  /\ \A u \in Thread : u # t => call'[u] = call[u]
               /\ call'[t] = Idle \/ call'[t].gate \notin Taken
    BY <2>3 DEF Authorize, Revoke, Dispatch, Become, TypeOK
  <2>4. QED  BY <2>1, <2>2, <2>3 DEF Program
<1>6. \/ sent' = sent
      \/ \E n, g : sent' = sent \cup {[nonce |-> n, gate |-> g]} /\ g \notin Taken
  <2>1. CASE Send(t)
    <3>1. call[t] # Idle  BY <2>1 DEF Send, Idle
    <3>2. sent' = sent \cup {[nonce |-> call[t].nonce, gate |-> call[t].gate]}
      BY <2>1 DEF Send
    <3>3. QED  BY <1>3, <3>1, <3>2
  <2>2. CASE ~Send(t)
    BY <2>2 DEF Program, AuthorizeStep, VerifyEgress, CheckCredential, ReserveMarker, IssueCapability,
       DispatchStep, KeyMissing, Return, Authorize, Revoke, Dispatch
  <2>3. QED  BY <2>1, <2>2
<1>7. CallOf(t)' /\ at'[t] # "ended"
  BY <1>1, <1>2, <1>3, <1>5 DEF CallOf
<1>8. Only(t)
  BY <1>1, <1>5 DEF Only
<1>9. QED  BY <1>2, <1>6, <1>7, <1>8, StepKeeps

\* A run that ends before its transport was handed anything tells the truth
\* unless it claims an attempt, or the success of one.
LEMMA NothingSent ==
  ASSUME SmokeInv, NEW t \in Thread, at[t] # "ended", heard' = heard, home' = home,
         ~Tried(home[t])', told'[t].network # "true",
         told'[t].code = 0 => told'[t] = Told(0, "false"), told'[t] = Told(0, "false") => told'[t].code = 0
  PROVE  Truth(t)'
<1>1. heard'[t] = NoReply
  BY DEF SmokeInv, CallOf
<1>2. ~Sound(heard'[t])
  BY <1>1 DEF Sound, NoReply
<1>3. QED  BY <1>2 DEF Truth

\* Every step of a run keeps the invariant.
LEMMA CommandKeeps ==
  ASSUME SmokeInv, GateInv', NEW t \in Thread, CommandStep(t)
  PROVE  SmokeInv'
<1> USE DEF SmokeInv
<1> DEFINE Summaries == [code : Nat, network : {"none", "false", "true", "null"}]
<1>1. at[t] # "program"
  BY DEF CommandStep, Prepare, Ask, Authorization, RunOnce, HandOver, KeyGone, Summarize
<1>2. home[t] \in Gate /\ home[t] \in Taken /\ CallOf(t)
  BY <1>1, HomeIsGate
<1>3. TypeOK
  BY DEF GateInv
<1>4. ASSUME NEW w \in Summaries, Fail(t, w), at[t] # "ended", call'[t] = Idle, sent' = sent,
             \A u \in Thread : u # t => call'[u] = call[u],
             ~Tried(home[t]), w.network # "true", w.code = 0 <=> w = Told(0, "false")
      PROVE  SmokeInv'
  <2>1. /\ SmokeTyped' /\ home' = home /\ at'[t] = "ended" /\ told'[t] = w /\ heard' = heard
        /\ \A u \in Thread : u # t => at'[u] = at[u] /\ told'[u] = told[u]
    BY <1>1, <1>4, Moves
  <2>2. ~Tried(home[t])'
    BY <1>4, <2>1 DEF Tried
  <2>3. Truth(t)'
    BY <1>4, <2>1, <2>2, NothingSent
  <2>4. CallOf(t)' /\ Only(t)
    BY <1>4, <2>1 DEF CallOf, Only
  <2>5. QED  BY <1>4, <2>1, <2>3, <2>4, StepKeeps
<1>5. ASSUME NEW label \in {"approved", "authorizing", "authorized", "running"}, Goto(t, label),
             at[t] # "ended", sent' = sent, \A u \in Thread : u # t => call'[u] = call[u],
             ~Tried(home[t]),
             label \in {"approved", "authorized"} => call'[t] = Idle,
             label = "authorizing" => call'[t] \in Authorizing /\ call'[t].gate = home[t],
             label = "running" =>
               call'[t] \in Dispatching /\ call'[t].gate = home[t] /\ call'[t].at = "key"
      PROVE  SmokeInv'
  <2>1. /\ SmokeTyped' /\ home' = home /\ at'[t] = label /\ told' = told /\ heard' = heard
        /\ \A u \in Thread : u # t => at'[u] = at[u]
    BY <1>1, <1>5, Moves
  <2>2. ~Tried(home[t])'
    BY <1>5, <2>1 DEF Tried
  <2>3. heard'[t] = NoReply
    BY <1>2, <1>5, <2>1 DEF CallOf
  <2>4. CallOf(t)' /\ Only(t)
    BY <1>5, <2>1, <2>2, <2>3 DEF CallOf, Only
  <2>5. QED  BY <1>5, <2>1, <2>4, StepKeeps
<1>6. CASE Prepare(t)
  <2>1. at[t] = "start" /\ ~Tried(home[t]) /\ call[t] = Idle /\ call' = call /\ sent' = sent
    BY <1>2, <1>6 DEF Prepare, CallOf, vars
  <2>2. CASE Goto(t, "approved")
    BY <1>5, <2>1, <2>2
  <2>3. ASSUME NEW w \in {Told(2, "false"), Told(0, "false"), Told(3, "null")}, Fail(t, w)
        PROVE  SmokeInv'
    <3>1. w \in Summaries /\ w.network # "true" /\ (w.code = 0 <=> w = Told(0, "false"))
      BY <2>3 DEF Told
    <3>2. QED  BY <1>4, <2>1, <2>3, <3>1
  <2>4. QED  BY <1>6, <2>2, <2>3 DEF Prepare
<1>7. CASE Ask(t)
  <2>1. at[t] = "approved" /\ ~Tried(home[t]) /\ sent' = sent /\ Goto(t, "authorizing")
    BY <1>2, <1>7 DEF Ask, CallOf, Authorize
  <2>2. Become(t, [at |-> "egress", gate |-> home[t], claims |-> Genuine(home[t])])
    BY <1>7 DEF Ask, Authorize
  <2>3. /\ call'[t] \in Authorizing /\ call'[t].gate = home[t]
        /\ \A u \in Thread : u # t => call'[u] = call[u]
    BY <1>1, <1>2, <1>3, <2>2, HomeIsGate DEF Become, TypeOK, Authorizing
  <2>4. QED  BY <1>5, <2>1, <2>3
<1>8. CASE Authorization(t)
  <2>1. at[t] = "authorizing" /\ ~Tried(home[t]) /\ call[t] \in Authorizing /\ call[t].gate = home[t]
    BY <1>2, <1>8 DEF Authorization, CallOf
  <2>2. /\ sent' = sent
        /\ \/ \E label \in {"credential", "budget", "issue"} : Advance(t, label)
           \/ Become(t, Idle)
    BY <1>8 DEF Authorization, AuthorizeStep, VerifyEgress, CheckCredential, ReserveMarker,
       IssueCapability
  <2>3. /\ \A u \in Thread : u # t => call'[u] = call[u]
        /\ call'[t] = Idle \/ (call'[t] \in Authorizing /\ call'[t].gate = home[t])
    <3>1. ASSUME NEW label \in {"credential", "budget", "issue"}, Advance(t, label)
          PROVE  /\ \A u \in Thread : u # t => call'[u] = call[u]
                 /\ call'[t] \in Authorizing /\ call'[t].gate = home[t]
      <4>1. call' = [call EXCEPT ![t] = [call[t] EXCEPT !.at = label]]
        BY <1>3, <3>1 DEF Advance, TypeOK
      <4>2. [call[t] EXCEPT !.at = label] \in Authorizing /\ [call[t] EXCEPT !.at = label].gate = home[t]
        BY <2>1 DEF Authorizing
      <4>3. QED  BY <1>3, <4>1, <4>2 DEF TypeOK
    <3>2. CASE Become(t, Idle)
      BY <1>3, <3>2 DEF Become, TypeOK
    <3>3. QED  BY <2>2, <3>1, <3>2
  <2>4. CASE call'[t] # Idle /\ UNCHANGED <<home, at, told, heard>>
    <3>1. SmokeTyped'
      BY <2>4 DEF SmokeTyped
    <3>2. CallOf(t)' /\ Only(t) /\ at'[t] # "ended"
      BY <1>2, <2>1, <2>2, <2>3, <2>4 DEF CallOf, Only, Tried
    <3>3. QED  BY <2>2, <3>1, <3>2, StepKeeps
  <2>5. CASE call'[t] = Idle /\ Goto(t, "authorized")
    BY <1>5, <2>1, <2>2, <2>3, <2>5
  <2>6. ASSUME NEW w \in {Told(2, "false"), Told(3, "null")}, call'[t] = Idle, Fail(t, w)
        PROVE  SmokeInv'
    <3>1. w \in Summaries /\ w.network # "true" /\ (w.code = 0 <=> w = Told(0, "false"))
      BY <2>6 DEF Told
    <3>2. QED  BY <1>4, <2>1, <2>2, <2>3, <2>6, <3>1
  <2>7. QED  BY <1>8, <2>4, <2>5, <2>6 DEF Authorization
<1>9. CASE RunOnce(t)
  <2>1. at[t] = "authorized" /\ ~Tried(home[t]) /\ Goto(t, "running")
    BY <1>2, <1>9 DEF RunOnce, CallOf
  <2>2. PICK cap \in caps : Dispatch(t, home[t], cap, Genuine(home[t]))
    BY <1>9 DEF RunOnce
  <2>3. sent' = sent /\ Become(t, [at |-> "key", gate |-> home[t], nonce |-> cap.nonce])
    BY <2>2 DEF Dispatch
  <2>4. cap.nonce \in Nonce
    BY <1>3 DEF TypeOK, Capability
  <2>5. /\ call'[t] \in Dispatching /\ call'[t].gate = home[t] /\ call'[t].at = "key"
        /\ \A u \in Thread : u # t => call'[u] = call[u]
    BY <1>2, <1>3, <2>3, <2>4 DEF Become, TypeOK, Dispatching
  <2>6. QED  BY <1>5, <2>1, <2>3, <2>5
<1>10. CASE HandOver(t)
  <2>1. at[t] = "running" /\ call[t] \in Dispatching /\ call[t].gate = home[t]
    BY <1>2, <1>10 DEF HandOver, CallOf
  <2>2. /\ UNCHANGED <<home, at, told, heard>>
        /\ sent' = sent \cup {[nonce |-> call[t].nonce, gate |-> home[t]]}
        /\ Advance(t, "sending")
    BY <1>10, <2>1 DEF HandOver, Send
  <2>3. /\ call'[t] \in Dispatching /\ call'[t].gate = home[t] /\ call'[t].at = "sending"
        /\ \A u \in Thread : u # t => call'[u] = call[u]
    BY <1>3, <2>1, <2>2 DEF Advance, TypeOK, Dispatching
  <2>4. Tried(home[t])'
    <3>1. [nonce |-> call[t].nonce, gate |-> home[t]] \in sent' /\ home'[t] = home[t]
      BY <2>2
    <3>2. QED  BY <3>1 DEF Tried
  <2>5. SmokeTyped'
    BY <2>2 DEF SmokeTyped
  <2>6. CallOf(t)' /\ Only(t) /\ at'[t] # "ended"
    BY <1>2, <2>1, <2>2, <2>3, <2>4 DEF CallOf, Only
  <2>7. QED  BY <1>1, <2>2, <2>5, <2>6, StepKeeps
<1>11. CASE KeyGone(t)
  <2>1. /\ at[t] = "running" /\ ~Tried(home[t]) /\ Fail(t, Told(2, "false"))
        /\ sent' = sent /\ Become(t, Idle)
    BY <1>2, <1>11 DEF KeyGone, KeyMissing, CallOf
  <2>2. call'[t] = Idle /\ \A u \in Thread : u # t => call'[u] = call[u]
    BY <1>3, <2>1 DEF Become, TypeOK
  <2>3. Told(2, "false") \in Summaries /\ Told(2, "false").network # "true"
        /\ (Told(2, "false").code = 0 <=> Told(2, "false") = Told(0, "false"))
    BY DEF Told
  <2>4. QED  BY <1>4, <2>1, <2>2, <2>3
<1>12. CASE Summarize(t)
  <2>1. at[t] = "running" /\ Tried(home[t]) /\ sent' = sent /\ Become(t, Idle)
    BY <1>2, <1>12 DEF Summarize, Return, CallOf
  <2>2. call'[t] = Idle /\ \A u \in Thread : u # t => call'[u] = call[u]
    BY <1>3, <2>1 DEF Become, TypeOK
  <2>3. ASSUME NEW r \in AnswersOf(home[t]), Exit(t, Summary(home[t], r)),
               heard' = [heard EXCEPT ![t] = r]
        PROVE  SmokeInv'
    <3> DEFINE w == Summary(home[t], r)
    <3>1. /\ w \in Summaries /\ w.network # "false" /\ (w.network = "true" => home[t] \in Live)
          /\ (home[t] \in Live /\ Digests(r) => w.network = "true")
          /\ (w.code = 0 <=> Sound(r))
      BY SummaryIsTrue
    <3>2. r \in Answers
      BY DEF AnswersOf
    <3> HIDE DEF w
    <3>3. Exit(t, w)
      BY <2>3 DEF w
    <3>4. /\ home' = home /\ at'[t] = "ended" /\ told'[t] = w /\ heard'[t] = r
          /\ \A u \in Thread : u # t => at'[u] = at[u] /\ told'[u] = told[u] /\ heard'[u] = heard[u]
      BY <2>3, <3>3 DEF Exit, SmokeTyped
    <3>5. SmokeTyped'
      BY <1>1, <2>3, <3>1, <3>2, <3>3 DEF Exit, SmokeTyped
    <3>6. Tried(home[t])'
      BY <2>1, <3>4 DEF Tried
    <3>7. w # Told(0, "false")
      BY <3>1 DEF Told
    <3>8. Truth(t)'
      BY <3>1, <3>4, <3>6, <3>7 DEF Truth
    <3>9. CallOf(t)' /\ Only(t)
      BY <2>2, <3>4 DEF CallOf, Only
    <3>10. QED  BY <2>1, <3>5, <3>8, <3>9, StepKeeps
  <2>4. QED  BY <1>12, <2>3 DEF Summarize
<1>13. QED
  BY <1>6, <1>7, <1>8, <1>9, <1>10, <1>11, <1>12 DEF CommandStep

\* However many runs of the command and other programs use one state directory:
\* no reservation is spent in silence, and every summary tells whether the
\* plan went out, so SpendingIsAccountedFor.
THEOREM CommandsAccountForSpending ==
  SmokeSpec => []SpendingIsAccountedFor
<1>1. SmokeInit => SmokeInv /\ ReservationIsGranted
  <2> SUFFICES ASSUME SmokeInit PROVE SmokeInv /\ ReservationIsGranted
    OBVIOUS
  <2>1. Init  BY DEF SmokeInit
  <2>2. GateInv  BY <2>1, InitInv
  <2>3. SmokeTyped
    BY CommandAssumption DEF SmokeInit, SmokeTyped, Told, Untold
  <2>4. \A t \in Thread : CallOf(t) /\ at[t] # "ended"
    BY DEF SmokeInit, Init, CallOf, Tried
  <2>5. ReservationIsGranted
    BY <2>1 DEF Init, ReservationIsGranted
  <2>6. QED  BY <2>2, <2>3, <2>4, <2>5 DEF SmokeInv
<1>2. SmokeInv /\ ReservationIsGranted /\ [SmokeNext]_smokeVars => (SmokeInv /\ ReservationIsGranted)'
  <2> SUFFICES ASSUME SmokeInv, ReservationIsGranted, [SmokeNext]_smokeVars
               PROVE  SmokeInv' /\ ReservationIsGranted'
    OBVIOUS
  <2>1. [Next]_vars
    BY StepIsGates DEF SmokeInv
  <2>2. GateInv' /\ ReservationIsGranted'
    BY <2>1, NextKeeps, ReservationKept DEF SmokeInv, GateInv
  <2>3. CASE UNCHANGED smokeVars
    BY <2>2, <2>3 DEF smokeVars, SmokeInv, SmokeTyped, CallOf, Truth, Tried, Taken
  <2>4. ASSUME NEW t \in Thread, Program(t) \/ CommandStep(t) PROVE SmokeInv'
    BY <2>2, <2>4, ProgramKeeps, CommandKeeps
  <2>5. QED  BY <2>2, <2>3, <2>4 DEF SmokeNext, AllEnded
<1>3. SmokeInv /\ ReservationIsGranted => SpendingIsAccountedFor
  BY DEF SmokeInv, Truth, Tried, SpendingIsAccountedFor, SummariesTellTheTruth
<1>4. QED  BY <1>1, <1>2, <1>3, PTL DEF SmokeSpec

\* The command implements the gate, and so keeps what GateSafety and
\* GateRefinement promise: SentWasAuthorized and ImplementsOneAttempt.
THEOREM CommandsKeepThePromise ==
  SmokeSpec => [](AtMostOneAttempt /\ SentWasAuthorized) /\ ImplementsOneAttempt
<1>1. SmokeInit => Init /\ SmokeTyped
  BY CommandAssumption DEF SmokeInit, SmokeTyped, Told, Untold
<1>2. SmokeTyped /\ [SmokeNext]_smokeVars => [Next]_vars
  BY StepIsGates
<1>3. SmokeSpec => []SmokeTyped
  <2>1. SmokeInit => SmokeInv
    BY InitInv, CommandAssumption
       DEF SmokeInit, SmokeInv, SmokeTyped, Told, Untold, Init, CallOf, Tried
  <2>2. SmokeInv /\ [SmokeNext]_smokeVars => SmokeInv'
    <3> SUFFICES ASSUME SmokeInv, [SmokeNext]_smokeVars PROVE SmokeInv'
      OBVIOUS
    <3>1. GateInv'
      BY StepIsGates, NextKeeps DEF SmokeInv
    <3>2. CASE UNCHANGED smokeVars
      BY <3>1, <3>2 DEF smokeVars, SmokeInv, SmokeTyped, CallOf, Truth, Tried, Taken
    <3>3. QED  BY <3>1, <3>2, ProgramKeeps, CommandKeeps DEF SmokeNext, AllEnded
  <2>3. SmokeInv => SmokeTyped
    BY DEF SmokeInv
  <2>4. QED  BY <2>1, <2>2, <2>3, PTL DEF SmokeSpec
<1>4. SmokeSpec => Spec
  BY <1>1, <1>2, <1>3, PTL DEF SmokeSpec, Spec
<1>5. QED  BY <1>4, GateSafety, GateRefinement, PTL
=============================================================================
