--------------------------- MODULE FormalExecution ---------------------------
(***************************************************************************)
(* hybrid_analysis/formal_execution.py: a formal runner spends a           *)
(* capability, makes the attempt over the repository's own transport,      *)
(* rebuilds the artifacts from the raw bytes, projects them to a result,   *)
(* an outcome and a subject, has the signer attest the subject and hands   *)
(* out evidence that a verifier rebuilds once more.                        *)
(*                                                                         *)
(* Threads call run() of runners that share signers, registries and gates. *)
(* A signer keeps a bounded dictionary of signing contexts.  Registries    *)
(* and signer configurations are immutable; a registry is named by its     *)
(* content, so that a revoked key means another registry.  A domain stands *)
(* for the trust domain and the registry policy, a key for the key and the *)
(* runner it names.  The artifacts are those of AttemptArtifacts.          *)
(***************************************************************************)
EXTENDS Integers, FiniteSets

CONSTANTS
  Thread,
  Gate, DomainOf,      \* authorization gates, each with its trust domain
  Cap, GateOf,         \* capabilities, each issued by a gate
  Registry, Pinned,    \* [domain, records] of each registry
  Signer, Config,      \* [registry, domain, key, release] of each signer
  MaxPending,          \* how many contexts a signer keeps (1 024)
  Clock,               \* bound: seconds a wall clock may show
  Answers,             \* what the transport may return, per capability
  MaxBytes, MaxPart, Status, Finish   \* see AttemptArtifacts

ASSUME ClockAssumption == Clock \subseteq Nat /\ MaxPending \in Nat
ASSUME GateAssumption == GateOf \in [Cap -> Gate]
ASSUME LimitAssumption == MaxBytes \in Nat /\ MaxPart \in Nat

VARIABLES
  call,        \* what each thread is doing
  contexts,    \* per signer, the calls whose signing context it keeps
  outstanding, \* capabilities the gates have issued and not seen again
  attempted,   \* history: capabilities with which a request was sent
  excused,     \* history: those whose answer cannot be digested, or for
               \* which the clock went back between the attempt and the signature
  signed,      \* history: what the private keys have signed
  evidence     \* evidence handed to callers, as what determines it; see EvidenceOf

vars == <<call, contexts, outstanding, attempted, excused, signed, evidence>>

Fixed == "httpx_tls_fixed_endpoint"

\* what becomes of a reply
Wire == INSTANCE AttemptArtifacts

\* The transport of the repository limits the size itself, and an empty body
\* is no completion.
FixedReply ==
  {r \in Wire!Reply :
     r.kind = "response" =>
       r.size <= MaxBytes /\ (r.size = 0 => r.body = Wire!OuterInvalid)}

ASSUME AnswersAssumption == Answers \in [Cap -> SUBSET FixedReply]

-----------------------------------------------------------------------------
(* Registries and signers.                                                 *)

Allowed(g, key, release) ==
  \E rec \in Pinned[g].records :
    rec.key = key /\ rec.status = "active" /\ release \in rec.releases

\* _verify_signer_configuration()
Configured(g, s) ==
  /\ Config[s].registry = g /\ Config[s].domain = Pinned[g].domain
  /\ Allowed(g, Config[s].key, Config[s].release)

\* The runners that can be constructed.  run() asks again whether the signer
\* is configured, of the same immutable objects.
Runners ==
  {r \in [gate : Gate, signer : Signer, registry : Registry] :
     DomainOf[r.gate] = Pinned[r.registry].domain /\ Configured(r.registry, r.signer)}

-----------------------------------------------------------------------------
(* From artifacts to evidence.                                             *)

None == "none"
Inner ==
  {"evidence_out_of_range", "incomplete_taxonomy", "invalid_json",
   "non_stop_finish_reason", "response_empty", "schema_invalid"}
Outer == "provider_outer_contract_invalid"

\* mutant: a rate limit is forgotten
Unavailable_NoRateLimit ==
  {"provider_client_error", "provider_response_too_large",
   "provider_server_error", "provider_timeout", "provider_transport_error"}

\* _UNAVAILABLE_REASONS
Unavailable ==
  {"provider_client_error", "provider_rate_limited", "provider_response_too_large",
   "provider_server_error", "provider_timeout", "provider_transport_error"}

\* _RESPONSE_UNAVAILABLE_REASONS
ResponseUnavailable ==
  {"provider_client_error", "provider_rate_limited", "provider_server_error"}

\* raw_response_body, kept when there was a complete response
RawOf(r) ==
  IF Wire!Artifacts(Fixed, r).transport = "response_received" THEN r ELSE Wire!NoReply

\* The artifacts of a run name the plan and the receipt of their attempt,
\* which a capability is spent on once, and the hash of the body.
RunOf(c, r) == [attempt |-> c, hash |-> RawOf(r), a |-> Wire!Artifacts(Fixed, r)]

\* verify_deepseek_shadow_run_artifacts() and _require_fixed_transport();
\* the shadow runner has done the first of them before it returns
RunIsGenuine(c, run, raw) ==
  /\ run.attempt = c /\ run.hash = raw
  /\ Wire!RebuildAccepts(run.a, raw)
  /\ run.a.evidence = Fixed

\* _formal_status(), which raises for a status of another kind
FormalStatus(a) ==
  IF a.status = "valid_shape" THEN "valid_result"
  ELSE IF a.status = "invalid_output" THEN "invalid_output"
  ELSE IF a.status \in Unavailable THEN "unavailable"
  ELSE "unrepresentable"

FormalReason(a) ==
  IF a.status = "valid_shape" THEN "provider_response_valid" ELSE a.reason

\* _build_result_v2(): the result of a valid run, or none
ResultOf(run) == IF run.a.status = "valid_shape" THEN {run} ELSE {}

ResultFits(result) ==
  \A x \in result :
    x.a.receipt /\ x.a.validation = "response_shape_valid" /\ x.a.size # Wire!Nothing

\* _build_outcome_v2()
OutcomeOf(run) ==
  [run |-> run, result |-> ResultOf(run),
   status |-> FormalStatus(run.a), reason |-> FormalReason(run.a)]

\* the matrix of AITagExecutionOutcomeV2
OutcomeFits(o) ==
  LET a == o.run.a
      body == a.size # Wire!Nothing
      validated == a.receipt /\ a.validation # None
      bare == ~a.receipt /\ a.validation = None
  IN
  /\ body <=> a.transport = "response_received"
  /\ o.result # {} <=> o.status = "valid_result"
  /\ \/ /\ o.status = "valid_result" /\ o.reason = "provider_response_valid"
        /\ validated /\ ~a.diagnostic /\ body
     \/ /\ o.status = "invalid_output" /\ body
        /\ \/ o.reason \in Inner /\ validated /\ ~a.diagnostic
           \/ o.reason = Outer /\ bare /\ a.diagnostic
     \/ /\ o.status = "unavailable" /\ o.reason \in Unavailable
        /\ bare /\ ~a.diagnostic
        /\ body <=> o.reason \in ResponseUnavailable

\* _build_subject() for an execution x: [cap, reply, signer, started, attested]
SubjectOf(x) ==
  LET s == Config[x.signer] IN
  [outcome |-> OutcomeOf(RunOf(x.cap, x.reply)), domain |-> DomainOf[GateOf[x.cap]],
   registry |-> s.registry, key |-> s.key, release |-> s.release, started |-> x.started]

\* the matrix of AITagTrustedExecutionSubject, which asks the same of the
\* fields it shares with the outcome
SubjectFits(subject) == OutcomeFits(subject.outcome)

\* what _attest_verified_subject() signs
AttestationOf(x) ==
  [subject |-> SubjectOf(x), key |-> Config[x.signer].key, attested |-> x.attested]

\* _build_hybrid_v2(), as far as its references go
HybridOf(subject, attestation) ==
  [outcome |-> subject.outcome, subject |-> subject, attestation |-> attestation]

\* AITagFormalExecutionEvidenceV2 with its bundle
EvidenceOf(x) ==
  LET run == RunOf(x.cap, x.reply) IN
  [cap |-> x.cap, run |-> run, raw |-> RawOf(x.reply),
   result |-> ResultOf(run), outcome |-> OutcomeOf(run),
   subject |-> SubjectOf(x), attestation |-> AttestationOf(x),
   hybrid |-> HybridOf(SubjectOf(x), AttestationOf(x))]

\* AITagTrustedRunnerRegistry.verify(): a signature is the subject and the
\* time under a key; nobody signs without the key.
RegistryVerifies(g, subject, attestation) ==
  /\ attestation.subject = subject /\ attestation.key = subject.key
  /\ subject.domain = Pinned[g].domain /\ subject.registry = g
  /\ Allowed(g, subject.key, subject.release)
  /\ attestation.attested >= subject.started

\* mutant: the hybrid analysis is not rebuilt
Verifies_TrustsHybrid(g, e) ==
  /\ RunIsGenuine(e.cap, e.run, e.raw)
  /\ e.result = ResultOf(e.run) /\ ResultFits(e.result)
  /\ e.outcome = OutcomeOf(e.run) /\ OutcomeFits(e.outcome)
  /\ e.subject.outcome = e.outcome /\ e.subject.domain = DomainOf[GateOf[e.cap]]
  /\ RegistryVerifies(g, e.subject, e.attestation)

\* AITagFormalExecutionVerifierV2.verify(): everything but the signature is
\* rebuilt from the run and its raw body
Verifies(g, e) ==
  /\ RunIsGenuine(e.cap, e.run, e.raw)
  /\ e.result = ResultOf(e.run) /\ ResultFits(e.result)
  /\ e.outcome = OutcomeOf(e.run) /\ OutcomeFits(e.outcome)
  /\ e.subject.outcome = e.outcome /\ e.subject.domain = DomainOf[GateOf[e.cap]]
  /\ SubjectFits(e.subject) /\ RegistryVerifies(g, e.subject, e.attestation)
  /\ e.hybrid = HybridOf(e.subject, e.attestation)

-----------------------------------------------------------------------------
(* run().  A call keeps its context's nonce, for which the thread stands,  *)
(* and whether the context is consumed.                                    *)

Idle == [at |-> "idle"]

Init ==
  /\ call = [t \in Thread |-> Idle]
  /\ contexts = [s \in Signer |-> {}]
  /\ outstanding = Cap
  /\ attempted = {} /\ excused = {} /\ signed = {} /\ evidence = {}

Become(t, state) == call' = [call EXCEPT ![t] = state]
Advance(t, label) == call' = [call EXCEPT ![t].at = label]

Holds(s, t) == t \in contexts[s]
Drop(s, t) == contexts' = [contexts EXCEPT ![s] = @ \ {t}]

Begin(t, r, c) ==
  \E now \in Clock :
    Become(t, [at |-> "check", runner |-> r, cap |-> c, started |-> now, consumed |-> FALSE,
               reply |-> Wire!NoReply, attested |-> now])

\* run() with _begin_formalization(): under its lock the signer refuses one
\* context more than the limit, before anything has been spent.
Run(t, r, c) ==
  /\ call[t] = Idle
  /\ Cardinality(contexts[r.signer]) < MaxPending
  /\ Begin(t, r, c)
  /\ contexts' = [contexts EXCEPT ![r.signer] = @ \cup {t}]
  /\ UNCHANGED <<outstanding, attempted, excused, signed, evidence>>

\* The shadow runner refuses the arguments, a capability of another gate or
\* one that is spent already, or the machine has no way out to the network.
Refuse(t) ==
  /\ call[t].at = "check"
  /\ Advance(t, "finally")
  /\ UNCHANGED <<contexts, outstanding, attempted, excused, signed, evidence>>

\* mutant: dict.get() for dict.pop()
Spend_Peeks(t) ==
  /\ call[t].at = "check"
  /\ GateOf[call[t].cap] = call[t].runner.gate
  /\ call[t].cap \in outstanding
  /\ Advance(t, "key")
  /\ UNCHANGED <<contexts, outstanding, attempted, excused, signed, evidence>>

\* dispatch_once() takes the capability
Spend(t) ==
  /\ call[t].at = "check"
  /\ GateOf[call[t].cap] = call[t].runner.gate
  /\ call[t].cap \in outstanding
  /\ outstanding' = outstanding \ {call[t].cap}
  /\ Advance(t, "key")
  /\ UNCHANGED <<contexts, attempted, excused, signed, evidence>>

\* the credential is gone by now
KeyMissing(t) ==
  /\ call[t].at = "key"
  /\ Advance(t, "finally")
  /\ UNCHANGED <<contexts, outstanding, attempted, excused, signed, evidence>>

Send(t) ==
  /\ call[t].at = "key"
  /\ attempted' = attempted \cup {call[t].cap}
  /\ Advance(t, "wire")
  /\ UNCHANGED <<contexts, outstanding, excused, signed, evidence>>

\* The transport answers; the artifacts are built, rebuilt and captured by
\* the sink of the formal runner.
Receive(t) ==
  /\ call[t].at = "wire"
  /\ \E r \in Answers[call[t].cap] :
       \/ /\ Wire!Digests(r)
          /\ IF RunIsGenuine(call[t].cap, RunOf(call[t].cap, r), RawOf(r))
             THEN call' = [call EXCEPT ![t].at = "produce", ![t].reply = r]
             ELSE Advance(t, "finally")
          /\ UNCHANGED excused
       \/ /\ ~Wire!Digests(r)
          /\ Advance(t, "finally")
          /\ excused' = excused \cup {call[t].cap}
  /\ UNCHANGED <<contexts, outstanding, attempted, signed, evidence>>

\* whether _produce_ai_tag_formal_execution_v2() gets as far as the signer
Projects(k) ==
  LET run == RunOf(k.cap, k.reply) IN
  /\ Configured(k.runner.registry, k.runner.signer)
  /\ RunIsGenuine(k.cap, run, RawOf(k.reply))
  /\ DomainOf[GateOf[k.cap]] = Pinned[k.runner.registry].domain
  /\ ResultFits(ResultOf(run)) /\ OutcomeFits(OutcomeOf(run))
  /\ SubjectFits([outcome |-> OutcomeOf(run)])

\* The projection, and the context consumed before the key is used.
Produce(t) ==
  /\ call[t].at = "produce"
  /\ LET s == call[t].runner.signer IN
       IF Projects(call[t]) /\ Holds(s, t)
       THEN /\ Drop(s, t)
            /\ call' = [call EXCEPT ![t].at = "sign", ![t].consumed = TRUE]
       ELSE Advance(t, "finally") /\ UNCHANGED contexts
  /\ UNCHANGED <<outstanding, attempted, excused, signed, evidence>>

\* _attest_verified_subject(), the registry's look at it and the bundle.  The
\* wall clock is read again, and need not have gone forward.
Sign(t) ==
  /\ call[t].at = "sign"
  /\ \E now \in Clock :
       LET k == call[t]
           made == [cap |-> k.cap, reply |-> k.reply, signer |-> k.runner.signer,
                    started |-> k.started, attested |-> now]
       IN /\ signed' = signed \cup {made}
          /\ excused' = IF now < k.started THEN excused \cup {k.cap} ELSE excused
          /\ IF RegistryVerifies(k.runner.registry, SubjectOf(made), AttestationOf(made))
             THEN call' = [call EXCEPT ![t].at = "return", ![t].attested = now]
             ELSE Advance(t, "finally")
  /\ UNCHANGED <<contexts, outstanding, attempted, evidence>>

Returned(k) ==
  IF k.at = "return"
  THEN {[cap |-> k.cap, reply |-> k.reply, signer |-> k.runner.signer,
         started |-> k.started, attested |-> k.attested]}
  ELSE {}

\* mutant: a call that fails leaves its context behind
Cancel_NotOnFailure(t) ==
  /\ call[t].at \in {"finally", "return"}
  /\ Become(t, Idle)
  /\ IF call[t].at = "return" THEN Drop(call[t].runner.signer, t) ELSE UNCHANGED contexts
  /\ evidence' = evidence \cup Returned(call[t])
  /\ UNCHANGED <<outstanding, attempted, excused, signed>>

\* _cancel_formalization() in the finally clause.  A context that is neither
\* kept nor consumed is an error that would replace what the call returns.
Cancel(t) ==
  /\ call[t].at \in {"finally", "return"}
  /\ Become(t, Idle)
  /\ LET s == call[t].runner.signer IN
       /\ Drop(s, t)
       /\ evidence' = IF Holds(s, t) \/ call[t].consumed
                      THEN evidence \cup Returned(call[t]) ELSE evidence
  /\ UNCHANGED <<outstanding, attempted, excused, signed>>

CallStep(t) ==
  \/ Refuse(t) \/ Spend(t) \/ KeyMissing(t) \/ Send(t)
  \/ Receive(t) \/ Produce(t) \/ Sign(t) \/ Cancel(t)

Next == \E t \in Thread : CallStep(t) \/ \E r \in Runners, c \in Cap : Run(t, r, c)

Spec == Init /\ [][Next]_vars

-----------------------------------------------------------------------------
(* Properties.                                                             *)

InFlight(s, labels) ==
  {t \in Thread : call[t] # Idle /\ call[t].runner.signer = s /\ call[t].at \in labels}

\* A signer keeps the contexts of the calls that are under way and have not
\* signed, no more than its limit, and nothing of a call that is over: failed
\* calls do not fill it up for good.
ContextsAreInFlight ==
  \A s \in Signer :
    /\ InFlight(s, {"check", "key", "wire", "produce"}) \subseteq contexts[s]
    /\ contexts[s] \subseteq InFlight(s, {"check", "key", "wire", "produce", "finally"})
    /\ Cardinality(contexts[s]) <= MaxPending

Pending(c) ==
  \E t \in Thread : call[t].at \in {"wire", "produce", "sign", "return"} /\ call[t].cap = c

\* An attempt that was paid for is formalized whatever the provider answers:
\* once its call is over there is evidence, unless the answer could not be
\* digested or the clock went back.  No matrix along the way refuses what
\* another one accepted, and no limit is met after the request was sent.
SentIsFormalized ==
  \A c \in attempted \ excused : Pending(c) \/ \E e \in evidence : e.cap = c

Parts == {"cap", "run", "raw", "result", "outcome", "subject", "attestation", "hybrid"}

Mixed(e, f, kept) == [p \in Parts |-> IF p \in kept THEN e[p] ELSE f[p]]

\* New evidence is accepted by every verifier that pins the registry it was
\* signed under and by no other, not even by one that knows the same key; and
\* parts of two executions make no evidence of a third: no verifier accepts a
\* mixture of it with an older one.
NoSplicing ==
  [][\A x \in evidence' \ evidence :
       LET e == EvidenceOf(x) IN
       /\ \A g \in Registry : Verifies(g, e) <=> g = Config[x.signer].registry
       /\ \A y \in evidence, kept \in SUBSET Parts :
            LET f == EvidenceOf(y)
                mixed == Mixed(e, f, kept)
            IN mixed \in {e, f} \/ \A g \in Registry : ~Verifies(g, mixed)]_evidence

\* Whatever the calls do with a capability, one attempt is made with it, at
\* most one signature is given for it and only after the attempt.
Attested == INSTANCE AttestedAttempt WITH evidenced <- {e.cap : e \in evidence}
ImplementsAttested == Attested!Spec
=============================================================================
