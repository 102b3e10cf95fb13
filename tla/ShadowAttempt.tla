---------------------------- MODULE ShadowAttempt ----------------------------
(***************************************************************************)
(* One attempt of a shadow run after its capability has been spent:        *)
(* _HttpxDeepSeekShadowTransport.send() in deepseek_adapter.py, the rest   *)
(* of DeepSeekShadowRunner.run() in shadow_runtime.py, and what            *)
(* shadow_campaign_execution.py makes of its artifacts.                    *)
(***************************************************************************)
EXTENDS AttemptArtifacts

VARIABLES
  evidence,  \* which transport: the repository's own or an injected one
  phase,
  status,    \* status code of the response being streamed
  size,      \* bytes received of it
  reply,     \* what the transport returned or raised
  run,       \* the artifacts of the run
  outcome    \* the outcome in the sealed unit execution

attemptVars == <<evidence, phase, status, size, reply, run, outcome>>

-----------------------------------------------------------------------------
(* The attempt.                                                            *)

NoRun == FailureArtifacts("injected_untrusted_transport", "provider_timeout")

AttemptInit ==
  /\ evidence \in Evidence
  /\ phase = "sending"
  /\ status = Nothing /\ size = 0
  /\ reply = NoReply /\ run = NoRun /\ outcome = None

Give(r) ==
  /\ reply' = r
  /\ phase' = "replied"
  /\ UNCHANGED <<evidence, status, run, outcome>>

Httpx == evidence = "httpx_tls_fixed_endpoint"

ReceiveHeaders ==
  /\ Httpx /\ phase = "sending"
  /\ phase' = "streaming"
  /\ status' \in Status
  /\ UNCHANGED <<evidence, size, reply, run, outcome>>

\* a part that goes over the limit ends the attempt at once
ReceivePart ==
  /\ phase = "streaming"
  /\ \E n \in 1..MaxPart :
       /\ size' = size + n
       /\ IF size + n > MaxBytes
          THEN Give(Failed("provider_response_too_large"))
          ELSE UNCHANGED <<evidence, phase, status, reply, run, outcome>>

\* The body is complete; DeepSeekHttpResponse() refuses a code out of range,
\* and send() turns that into a transport error.
ReceiveEnd ==
  /\ phase = "streaming"
  /\ \/ /\ status \in 100..599
        /\ \E b \in IF size = 0 THEN {OuterInvalid} ELSE Body : Give(Response(status, size, b))
     \/ /\ status \notin 100..599
        /\ Give(Failed("provider_transport_error"))
  /\ UNCHANGED size

\* the absolute deadline of the plan, or the network
SendFails ==
  /\ Httpx /\ phase \in {"sending", "streaming"}
  /\ Give(Failed("provider_timeout")) \/ Give(Failed("provider_transport_error"))
  /\ UNCHANGED size

\* An injected transport gives any reply; what it raises (the credential
\* error aside, which is an authorization error), and what is no
\* DeepSeekHttpResponse, is a transport error to the runner.
InjectedReply ==
  /\ ~Httpx /\ phase = "sending"
  /\ \E r \in Reply : (r.kind = "response" => r.size > 0 \/ r.body = OuterInvalid) /\ Give(r)
  /\ UNCHANGED size

\* run() builds the artifacts and rebuilds them from the raw body at once
RecordRun ==
  /\ phase = "replied"
  /\ \/ /\ Digests(reply)
        /\ run' = Artifacts(evidence, reply)
        /\ LET raw == IF run'.transport = "response_received" THEN reply ELSE NoReply IN
             phase' = IF RebuildAccepts(run', raw) THEN "recorded" ELSE "raised"
     \/ /\ ~Digests(reply)
        /\ phase' = "raised"
        /\ UNCHANGED run
  /\ UNCHANGED <<evidence, status, size, reply, outcome>>

\* seal the unit execution
SealUnit ==
  /\ phase = "recorded"
  /\ outcome' = OutcomeOf(run)
  /\ phase' = IF UnitFits(outcome', run) THEN "sealed" ELSE "raised"
  /\ UNCHANGED <<evidence, status, size, reply, run>>

\* the campaign verifier looks at the result without the raw bodies
VerifyGraph ==
  /\ phase = "sealed"
  /\ phase' = IF GraphAccepts(run) THEN "accepted" ELSE "raised"
  /\ UNCHANGED <<evidence, status, size, reply, run, outcome>>

Finished == phase \in {"accepted", "raised"} /\ UNCHANGED attemptVars

AttemptNext ==
  \/ ReceiveHeaders \/ ReceivePart \/ ReceiveEnd \/ SendFails \/ InjectedReply
  \/ RecordRun \/ SealUnit \/ VerifyGraph \/ Finished

AttemptSpec == AttemptInit /\ [][AttemptNext]_attemptVars

\* A result that comes from somewhere else: any graph of objects that are
\* well formed one by one, presented to the verifier of the campaign.
ForeignInit ==
  /\ run \in {a \in Artifact : ReceiptFits(a) /\ ObservationFits(a)}
  /\ evidence = run.evidence
  /\ phase = "recorded"
  /\ status = Nothing /\ size = 0 /\ reply = NoReply /\ outcome = None

ForeignSpec == ForeignInit /\ [][AttemptNext]_attemptVars

\* An attempt of this process, or a result that comes from somewhere else.
EitherSpec == (AttemptInit \/ ForeignInit) /\ [][AttemptNext]_attemptVars

-----------------------------------------------------------------------------
(* Properties.                                                             *)

\* the type invariant
AttemptTypeOK ==
  /\ evidence \in Evidence
  /\ phase \in {"sending", "streaming", "replied", "recorded", "sealed", "accepted", "raised"}
  /\ status \in Status \cup {Nothing}
  /\ size \in 0..MaxBytes + MaxPart
  /\ reply = NoReply \/ reply \in Reply
  /\ run \in Artifact
  /\ outcome \in ProviderFailure \cup
       {"valid_shape", "invalid_output_inner", "invalid_output_outer", None}

\* Whatever the provider or an injected transport answers, the artifacts
\* pass every check behind the runner: the code's own verifiers never lose an
\* attempt that was made.  The exception is content that cannot be digested.
NeverRaises == phase = "raised" /\ reply # NoReply => ~Digests(reply)

\* What the contract says of an attempted unit: an attempt that was made
\* leaves its receipt and its observation, so run() does not raise.
EveryAttemptIsRecorded == phase # "raised"

\* The outcome that is sealed says what came over the wire; and the verifier
\* of the graph and the matrix of the unit, written separately in different
\* classes, agree: a graph the one accepts fits the other.
OutcomeTellsTheWire ==
  /\ outcome # None /\ GraphAccepts(run) => UnitFits(outcome, run)
  /\ phase \in {"sealed", "accepted"} /\ reply # NoReply =>
       /\ outcome = "valid_shape" <=>
            /\ reply.kind = "response" /\ reply.status = 200 /\ reply.size <= MaxBytes
            /\ reply.body = [content |-> "sound", finish |-> "stop"]
       /\ outcome = "invalid_output_outer" <=>
            /\ reply.kind = "response" /\ reply.status = 200 /\ reply.size <= MaxBytes
            /\ reply.body = OuterInvalid
       /\ outcome = "provider_server_error" <=>
            /\ reply.kind = "response" /\ reply.status >= 500 /\ reply.size <= MaxBytes

\* The graph verifier accepts nothing that some reply would not explain:
\* from the sealed artifacts alone nobody can claim a run that cannot occur.
AcceptedIsExplained ==
  phase = "accepted" => \E r \in Reply : Digests(r) /\ run = Artifacts(evidence, r)
=============================================================================
