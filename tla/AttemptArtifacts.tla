--------------------------- MODULE AttemptArtifacts ---------------------------
(***************************************************************************)
(* What becomes of the reply to one attempt of a shadow run.  Run builds a *)
(* graph of artifacts from it (DeepSeekShadowRunner.run() in               *)
(* shadow_runtime.py): an attempt receipt, perhaps a response receipt with *)
(* a validation or a diagnostic, an observation.  Four separately written  *)
(* checks look at it: the matrices of the sealed objects, the trusted      *)
(* rebuild from the raw bytes, the unit execution matrix, and the graph    *)
(* verifier that has no raw bytes.  Identities, hashes, latencies and      *)
(* usage are left out; the size of the body counts in units of which a     *)
(* plan allows MaxBytes.                                                   *)
(***************************************************************************)
EXTENDS Integers

CONSTANTS
  MaxBytes,   \* the plan's max_response_bytes
  MaxPart,    \* bound: the largest part of a streamed body
  Status,     \* HTTP status codes a server may answer with
  Finish      \* finish reasons of the outer contract, with "stop"

ASSUME SizeAssumption == MaxBytes \in Nat \ {0} /\ MaxPart \in Nat \ {0}
ASSUME WireAssumption ==
  200 \in Status /\ Status \subseteq Nat /\ "stop" \in Finish /\ Finish # {"stop"}

Evidence == {"httpx_tls_fixed_endpoint", "injected_untrusted_transport"}

TransportFailure ==
  {"provider_timeout", "provider_transport_error", "provider_response_too_large"}
HttpFailure == {"provider_client_error", "provider_rate_limited", "provider_server_error"}
ProviderFailure == TransportFailure \cup HttpFailure

\* what is wrong with the message of a completion that fits the outer contract
Fault ==
  {"response_empty", "schema_invalid", "invalid_json", "incomplete_taxonomy",
   "evidence_out_of_range"}

\* "too_deep" is JSON nested deeper than the stack of the interpreter: the
\* decoder answers RecursionError, which is neither TypeError nor ValueError.
Content == Fault \cup {"sound", "too_deep"}
InnerReason == Fault \cup {"non_stop_finish_reason"}

Completion == [content : Content, finish : Finish]
OuterInvalid == [content |-> "not_a_completion", finish |-> "none"]
Body == Completion \cup {OuterInvalid}

NoReply == [kind |-> "none"]
Failed(why) == [kind |-> "failed", why |-> why]
Response(s, n, b) == [kind |-> "response", status |-> s, size |-> n, body |-> b]

-----------------------------------------------------------------------------
(* From a reply to artifacts: DeepSeekShadowRunner.run().                  *)

None == "none"
Nothing == -1

\* validate_ai_tag_completion(): emptiness, then the finish reason, then the
\* content; the outer contract has already pinned the model.  "too_deep" is
\* no reason but an exception, see Digests.
Validate(b) ==
  IF b.content = "response_empty" THEN "response_empty"
  ELSE IF b.finish # "stop" THEN "non_stop_finish_reason"
  ELSE IF b.content = "sound" THEN "response_shape_valid"
  ELSE b.content

ValidationStatus(reason) ==
  IF reason = "response_shape_valid" THEN "valid_shape" ELSE "invalid_output"

\* mutant: "at least" became "more than"
HttpFailureOf_Above500(s) ==
  IF s = 429 THEN "provider_rate_limited"
  ELSE IF s > 500 THEN "provider_server_error"
  ELSE "provider_client_error"

\* _http_failure()
HttpFailureOf(s) ==
  IF s = 429 THEN "provider_rate_limited"
  ELSE IF s \in 500..599 THEN "provider_server_error"
  ELSE "provider_client_error"

FailureArtifacts(e, why) ==
  [evidence |-> e, transport |-> why, http |-> Nothing, size |-> Nothing,
   receipt |-> FALSE, validation |-> None, diagnostic |-> FALSE,
   status |-> why, reason |-> why]

ResponseArtifacts(e, r) ==
  [evidence |-> e, transport |-> "response_received", http |-> r.status, size |-> r.size,
   receipt |-> FALSE, validation |-> None, diagnostic |-> FALSE,
   status |-> HttpFailureOf(r.status), reason |-> HttpFailureOf(r.status)]

\* mutant: the size of an injected response is not looked at again
Artifacts_TrustsSize(e, r) ==
  IF r.kind = "failed" THEN FailureArtifacts(e, r.why)
  ELSE IF r.status # 200 THEN ResponseArtifacts(e, r)
  ELSE IF r.body = OuterInvalid THEN
    [ResponseArtifacts(e, r) EXCEPT !.diagnostic = TRUE,
       !.status = "invalid_output", !.reason = "provider_outer_contract_invalid"]
  ELSE
    [ResponseArtifacts(e, r) EXCEPT !.receipt = TRUE, !.validation = Validate(r.body),
       !.status = ValidationStatus(Validate(r.body)), !.reason = Validate(r.body)]

\* What run() builds.  The runner limits the size once more, because an
\* injected transport need not have done so.
Artifacts(e, r) ==
  IF r.kind = "failed" THEN FailureArtifacts(e, r.why)
  ELSE IF r.size > MaxBytes THEN FailureArtifacts(e, "provider_response_too_large")
  ELSE IF r.status # 200 THEN ResponseArtifacts(e, r)
  ELSE IF r.body = OuterInvalid THEN
    [ResponseArtifacts(e, r) EXCEPT !.diagnostic = TRUE,
       !.status = "invalid_output", !.reason = "provider_outer_contract_invalid"]
  ELSE
    [ResponseArtifacts(e, r) EXCEPT !.receipt = TRUE, !.validation = Validate(r.body),
       !.status = ValidationStatus(Validate(r.body)), !.reason = Validate(r.body)]

\* Whether run() gets as far as its artifacts: parsing the content of the
\* message is the one step whose failures are not all turned into a reason.
Digests(r) ==
  r.kind = "response" /\ r.size <= MaxBytes /\ r.status = 200 /\ r.body # OuterInvalid =>
    Validate(r.body) # "too_deep"

-----------------------------------------------------------------------------
(* The four checks.                                                        *)

\* the matrix of AITagDispatchAttemptReceipt and its comparison with the plan
ReceiptFits(a) ==
  IF a.transport = "response_received"
  THEN a.http \in 100..599 /\ a.size \in 0..MaxBytes
  ELSE a.http = Nothing /\ a.size = Nothing

\* the matrix of AITagShadowExecutionObservationV2
ObservationFits(a) ==
  \/ /\ a.status = "valid_shape" /\ a.reason = "response_shape_valid"
     /\ a.receipt /\ a.validation # None /\ ~a.diagnostic
  \/ /\ a.status = "invalid_output" /\ a.reason = "provider_outer_contract_invalid"
     /\ ~a.receipt /\ a.validation = None /\ a.diagnostic
  \/ /\ a.status = "invalid_output" /\ a.reason \in InnerReason
     /\ a.receipt /\ a.validation # None /\ ~a.diagnostic
  \/ /\ a.status \in ProviderFailure /\ a.reason = a.status
     /\ ~a.receipt /\ a.validation = None /\ ~a.diagnostic

Bare(a) == ~a.receipt /\ a.validation = None /\ ~a.diagnostic

\* verify_deepseek_shadow_run_artifacts(): the graph against the raw body;
\* raw is the reply when its bytes were kept.
RebuildAccepts(a, raw) ==
  /\ ReceiptFits(a) /\ ObservationFits(a)
  /\ IF a.transport # "response_received"
     THEN raw = NoReply /\ Bare(a) /\ a.status = a.transport
     ELSE /\ raw # NoReply /\ raw.size = a.size
          /\ IF a.http # 200
             THEN /\ Bare(a)
                  /\ a.status = HttpFailureOf(a.http) /\ a.reason = HttpFailureOf(a.http)
             ELSE IF ~a.receipt
             THEN /\ a.validation = None /\ a.diagnostic
                  /\ a.status = "invalid_output" /\ a.reason = "provider_outer_contract_invalid"
                  /\ raw.body = OuterInvalid
             ELSE /\ ~a.diagnostic
                  /\ raw.body # OuterInvalid
                  /\ a.validation = Validate(raw.body)
                  /\ a.status = ValidationStatus(a.validation) /\ a.reason = a.validation

\* mutant: the status of a parsed response is not compared
GraphAccepts_AnyStatus(a) ==
  /\ ReceiptFits(a) /\ ObservationFits(a)
  /\ \/ /\ a.transport # "response_received"
        /\ Bare(a) /\ a.status = a.transport /\ a.reason = a.transport
     \/ /\ a.transport = "response_received" /\ a.http # 200
        /\ Bare(a) /\ a.status = HttpFailureOf(a.http) /\ a.reason = a.status
     \/ /\ a.http = 200 /\ ~a.receipt
        /\ a.validation = None /\ a.diagnostic
        /\ a.status = "invalid_output" /\ a.reason = "provider_outer_contract_invalid"
     \/ /\ a.http = 200 /\ a.receipt
        /\ ~a.diagnostic
        /\ a.validation \in InnerReason \cup {"response_shape_valid"}

\* _verify_persistent_run_graph(): the same graph without the raw body.  A
\* raw completion can only carry an inner reason or be valid.
GraphAccepts(a) ==
  /\ ReceiptFits(a) /\ ObservationFits(a)
  /\ \/ /\ a.transport # "response_received"
        /\ Bare(a) /\ a.status = a.transport /\ a.reason = a.transport
     \/ /\ a.transport = "response_received" /\ a.http # 200
        /\ Bare(a) /\ a.status = HttpFailureOf(a.http) /\ a.reason = a.status
     \/ /\ a.http = 200 /\ ~a.receipt
        /\ a.validation = None /\ a.diagnostic
        /\ a.status = "invalid_output" /\ a.reason = "provider_outer_contract_invalid"
     \/ /\ a.http = 200 /\ a.receipt
        /\ ~a.diagnostic
        /\ a.validation \in InnerReason \cup {"response_shape_valid"}
        /\ a.status = ValidationStatus(a.validation) /\ a.reason = a.validation

\* _attempt_outcome()
OutcomeOf(a) ==
  IF a.status # "invalid_output" THEN a.status
  ELSE IF a.diagnostic THEN "invalid_output_outer" ELSE "invalid_output_inner"

\* the matrix of an attempted AITagShadowCampaignUnitExecution
UnitFits(o, a) ==
  /\ a.transport = IF o \in TransportFailure THEN o ELSE "response_received"
  /\ \/ /\ o = "valid_shape" /\ a.status = o /\ a.reason = "response_shape_valid"
        /\ a.receipt /\ a.validation # None /\ ~a.diagnostic
     \/ /\ o = "invalid_output_inner" /\ a.status = "invalid_output"
        /\ a.reason \in InnerReason
        /\ a.receipt /\ a.validation # None /\ ~a.diagnostic
     \/ /\ o = "invalid_output_outer" /\ a.status = "invalid_output"
        /\ a.reason = "provider_outer_contract_invalid"
        /\ ~a.receipt /\ a.validation = None /\ a.diagnostic
     \/ /\ o \in ProviderFailure /\ a.status = o /\ a.reason = o /\ Bare(a)

-----------------------------------------------------------------------------
(* Everything a transport can answer, and everything it can be made into.  *)

\* every reply a transport can give to the runner: DeepSeekHttpResponse
\* refuses a status code out of range
Reply ==
  {Failed(why) : why \in TransportFailure} \cup
  {Response(s, n, b) : s \in Status \cap 100..599, n \in 0..MaxBytes + MaxPart,
                       b \in Body}

Artifact ==
  [evidence : Evidence, transport : TransportFailure \cup {"response_received"},
   http : Status \cup {Nothing}, size : 0..MaxBytes + MaxPart \cup {Nothing},
   receipt : BOOLEAN, diagnostic : BOOLEAN,
   validation : InnerReason \cup {"response_shape_valid", "provider_timeout", None},
   status : ProviderFailure \cup {"valid_shape", "invalid_output"},
   reason : ProviderFailure \cup InnerReason \cup
            {"response_shape_valid", "provider_outer_contract_invalid"}]
=============================================================================
