------------------------ MODULE FormalExecutionProofs ------------------------
(***************************************************************************)
(* Proofs about FormalExecution.  The invariant says of every call where   *)
(* its capability is: with a gate, spent and not sent, sent and not        *)
(* signed, or signed, and that no other call has it; and of every context  *)
(* whose call it is.  That no answer gets stuck between the artifacts and  *)
(* the signature is shown by cases on the answer.                          *)
(***************************************************************************)
EXTENDS FormalExecution, FiniteSetTheorems, TLAPS

Label == {"check", "key", "wire", "produce", "sign", "return", "finally"}
Calls ==
  [at : Label, runner : Runners, cap : Cap, started : Clock, consumed : BOOLEAN,
   reply : FixedReply \cup {Wire!NoReply}, attested : Clock]
Execution ==
  [cap : Cap, reply : FixedReply \cup {Wire!NoReply}, signer : Signer, started : Clock,
   attested : Clock]

TypeOK ==
  /\ call \in [Thread -> {Idle} \cup Calls]
  /\ contexts \in [Signer -> SUBSET Thread]
  /\ outstanding \subseteq Cap
  /\ attempted \subseteq Cap /\ excused \subseteq Cap
  /\ signed \subseteq Execution /\ evidence \subseteq Execution

Spent == {"key", "wire", "produce", "sign", "return"}
Unsigned == {"key", "wire", "produce", "sign"}
Answered == {"produce", "sign", "return"}

\* what call k has signed, or is about to sign
Made(k) ==
  [cap |-> k.cap, reply |-> k.reply, signer |-> k.runner.signer,
   started |-> k.started, attested |-> k.attested]

\* an execution that every verifier of its registry accepts
Acceptable(x) ==
  /\ x.reply \in FixedReply /\ Wire!Digests(x.reply)
  /\ Configured(Config[x.signer].registry, x.signer)
  /\ DomainOf[GateOf[x.cap]] = Config[x.signer].domain
  /\ x.attested >= x.started

\* a capability is in one place
CapsOK ==
  /\ attempted \cap outstanding = {}
  /\ \A t \in Thread : call[t].at \in Spent =>
       /\ call[t].cap \notin outstanding
       /\ GateOf[call[t].cap] = call[t].runner.gate
       /\ call[t].cap \in attempted <=> call[t].at # "key"
  /\ \A t, u \in Thread :
       call[t].at \in Spent /\ call[u].at \in Spent /\ call[t].cap = call[u].cap => t = u

SignedOK ==
  /\ \A x \in signed : x.cap \in attempted
  /\ \A x, y \in signed : x.cap = y.cap => x = y
  /\ \A t \in Thread : call[t].at \in Unsigned => \A x \in signed : x.cap # call[t].cap
  /\ \A t \in Thread : call[t].at \in Answered =>
       call[t].reply \in FixedReply /\ Wire!Digests(call[t].reply)
  /\ \A t \in Thread : call[t].at = "return" =>
       Made(call[t]) \in signed /\ Acceptable(Made(call[t]))
  /\ \A x \in evidence : x \in signed /\ Acceptable(x)

Kept == {"check", "key", "wire", "produce"}

ContextsOK ==
  /\ \A s \in Signer : IsFiniteSet(contexts[s]) /\ Cardinality(contexts[s]) <= MaxPending
  /\ \A t \in Thread : call[t].at \in Kept => t \in contexts[call[t].runner.signer]
  /\ \A s \in Signer, t \in Thread : t \in contexts[s] =>
       call[t].at \in Kept \cup {"finally"} /\ call[t].runner.signer = s
  /\ \A t \in Thread : call[t].at \in {"sign", "return"} => call[t].consumed

FormalInv == TypeOK /\ CapsOK /\ SignedOK /\ ContextsOK /\ SentIsFormalized
-----------------------------------------------------------------------------
(* From an answer to an outcome.                                           *)

\* what the matrices of the result and the outcome need of artifacts
Fits(b, raw) ==
  /\ Wire!RebuildAccepts(b, raw) /\ b.evidence = Fixed
  /\ b.status \in {"valid_shape", "invalid_output"} \cup Unavailable
  /\ b.size # Wire!Nothing <=> b.transport = "response_received"
  /\ b.status = "valid_shape" =>
       b.receipt /\ b.validation = "response_shape_valid" /\ ~b.diagnostic /\ b.size # Wire!Nothing
  /\ b.status = "invalid_output" =>
       /\ b.size # Wire!Nothing
       /\ \/ b.reason \in Inner /\ b.receipt /\ b.validation # None /\ ~b.diagnostic
          \/ b.reason = Outer /\ ~b.receipt /\ b.validation = None /\ b.diagnostic
  /\ b.status \in Unavailable =>
       /\ b.reason = b.status /\ ~b.receipt /\ b.validation = None /\ ~b.diagnostic
       /\ b.size # Wire!Nothing <=> b.reason \in ResponseUnavailable

\* An answer is a failure or a response within the limit.
LEMMA ReplyCases ==
  ASSUME NEW r \in FixedReply
  PROVE  \/ \E why \in Wire!TransportFailure : r = Wire!Failed(why)
         \/ /\ r.kind = "response" /\ r.status \in 100..599 /\ r.body \in Wire!Body
            /\ r.size \in Nat /\ r.size <= MaxBytes /\ r # Wire!NoReply
BY LimitAssumption DEF FixedReply, Wire!Reply, Wire!Failed, Wire!Response, Wire!NoReply

\* What the runner makes of an answer it can digest is genuine to the formal
\* runner and fits the matrices of the result and the outcome.
LEMMA ReplyIsFormalized ==
  ASSUME NEW r \in FixedReply, Wire!Digests(r), NEW c
  PROVE  /\ RunIsGenuine(c, RunOf(c, r), RawOf(r))
         /\ ResultFits(ResultOf(RunOf(c, r))) /\ OutcomeFits(OutcomeOf(RunOf(c, r)))
<1> DEFINE a == Wire!Artifacts(Fixed, r)
           raw == RawOf(r)
           run == RunOf(c, r)
           goal == RunIsGenuine(c, run, raw) /\ ResultFits(ResultOf(run)) /\ OutcomeFits(OutcomeOf(run))
<1> SUFFICES goal
  OBVIOUS
<1>1. run.attempt = c /\ run.hash = raw /\ run.a = a
  BY DEF RunOf
<1> HIDE DEF goal
<1>2. ASSUME Fits(a, raw) PROVE goal
  <2> HIDE DEF a, raw, run
  <2>1. RunIsGenuine(c, run, raw)
    BY <1>1, <1>2 DEF RunIsGenuine, Fits
  <2>2. ResultFits(ResultOf(run))
    BY <1>1, <1>2 DEF ResultFits, ResultOf, Fits
  <2>3. /\ OutcomeOf(run).run.a = a /\ OutcomeOf(run).result = ResultOf(run)
        /\ OutcomeOf(run).status = FormalStatus(a) /\ OutcomeOf(run).reason = FormalReason(a)
    BY <1>1 DEF OutcomeOf
  <2>4. ResultOf(run) # {} <=> a.status = "valid_shape"
    BY <1>1 DEF ResultOf
  <2>5. ASSUME a.status = "valid_shape" PROVE OutcomeFits(OutcomeOf(run))
    <3>1. FormalStatus(a) = "valid_result" /\ FormalReason(a) = "provider_response_valid"
      BY <2>5 DEF FormalStatus, FormalReason
    <3>2. QED  BY <1>2, <2>3, <2>4, <2>5, <3>1 DEF Fits, OutcomeFits, None
  <2>6. ASSUME a.status = "invalid_output" PROVE OutcomeFits(OutcomeOf(run))
    <3>1. FormalStatus(a) = "invalid_output" /\ FormalReason(a) = a.reason
      BY <2>6 DEF FormalStatus, FormalReason
    <3>2. QED  BY <1>2, <2>3, <2>4, <2>6, <3>1 DEF Fits, OutcomeFits, None
  <2>7. ASSUME a.status \in Unavailable PROVE OutcomeFits(OutcomeOf(run))
    <3>1. FormalStatus(a) = "unavailable" /\ FormalReason(a) = a.reason /\ a.status # "valid_shape"
      BY <2>7 DEF FormalStatus, FormalReason, Unavailable
    <3>2. a.transport = "response_received" <=> a.reason \in ResponseUnavailable
      BY <1>2, <2>7 DEF Fits
    <3>3. QED  BY <1>2, <2>3, <2>4, <2>7, <3>1, <3>2 DEF Fits, OutcomeFits, None
  <2>8. OutcomeFits(OutcomeOf(run))
    BY <1>2, <2>5, <2>6, <2>7 DEF Fits
  <2>9. QED  BY <2>1, <2>2, <2>8 DEF goal
<1>3. CASE \E why \in Wire!TransportFailure : r = Wire!Failed(why)
  <2>1. PICK why \in Wire!TransportFailure : r = Wire!Failed(why)
    BY <1>3
  <2>2. a = Wire!FailureArtifacts(Fixed, why)
    BY <2>1 DEF Wire!Artifacts, Wire!Failed
  <2>3. raw = Wire!NoReply
    BY <2>1, <2>2 DEF RawOf, Wire!FailureArtifacts, Wire!TransportFailure
  <2> HIDE DEF a, raw
  <2>4. Fits(a, raw)
    BY <2>1, <2>2, <2>3
       DEF Fits, Wire!TransportFailure, Wire!ProviderFailure, Wire!FailureArtifacts,
           Wire!RebuildAccepts, Wire!ReceiptFits, Wire!ObservationFits, Wire!Bare, Wire!Nothing,
           Wire!None, None, Unavailable, ResponseUnavailable
  <2>5. QED  BY <1>2, <2>4
<1>4. CASE r.kind = "response"
  <2>1. /\ r.status \in 100..599 /\ r.body \in Wire!Body /\ r.size \in Nat /\ r.size <= MaxBytes
        /\ ~(r.size > MaxBytes) /\ r # Wire!NoReply
    BY <1>4, ReplyCases, LimitAssumption DEF Wire!Failed
  <2>2. ASSUME a.transport = "response_received" PROVE raw = r
    BY <2>2 DEF RawOf
  <2>3. CASE r.status # 200
    <3>1. a = Wire!ResponseArtifacts(Fixed, r)
      BY <1>4, <2>1, <2>3 DEF Wire!Artifacts
    <3>2. raw = r
      BY <2>2, <3>1 DEF Wire!ResponseArtifacts
    <3>3. Wire!HttpFailureOf(r.status) \in ResponseUnavailable
      BY DEF Wire!HttpFailureOf, ResponseUnavailable
    <3> DEFINE f == Wire!HttpFailureOf(r.status)
    <3>4. /\ a.transport = "response_received" /\ a.http = r.status /\ a.size = r.size
          /\ a.receipt = FALSE /\ a.diagnostic = FALSE /\ a.validation = "none" /\ a.evidence = Fixed
          /\ a.status = f /\ a.reason = f
      BY <3>1 DEF Wire!ResponseArtifacts, Wire!None
    <3> HIDE DEF raw, a
    <3>5. Wire!RebuildAccepts(a, raw)
      BY <2>1, <2>3, <3>2, <3>3, <3>4, LimitAssumption DEF Wire!ProviderFailure, Wire!HttpFailure,
         Wire!RebuildAccepts, Wire!ReceiptFits, Wire!ObservationFits, Wire!Bare, Wire!None,
         ResponseUnavailable
    <3> HIDE DEF f
    <3>6. Fits(a, raw)
      BY <2>1, <3>3, <3>4, <3>5
         DEF f, Fits, Wire!Nothing, None, Unavailable, ResponseUnavailable
    <3>7. QED  BY <1>2, <3>6
  <2>4. CASE r.status = 200 /\ r.body = Wire!OuterInvalid
    <3>1. a = [Wire!ResponseArtifacts(Fixed, r) EXCEPT !.diagnostic = TRUE,
                 !.status = "invalid_output", !.reason = "provider_outer_contract_invalid"]
      BY <1>4, <2>1, <2>4 DEF Wire!Artifacts
    <3>2. raw = r
      BY <2>2, <3>1 DEF Wire!ResponseArtifacts
    <3>3. /\ a.transport = "response_received" /\ a.http = 200 /\ a.size = r.size
          /\ a.receipt = FALSE /\ a.diagnostic = TRUE /\ a.validation = "none" /\ a.evidence = Fixed
          /\ a.status = "invalid_output" /\ a.reason = "provider_outer_contract_invalid"
      BY <2>4, <3>1 DEF Wire!ResponseArtifacts, Wire!None
    <3> HIDE DEF raw, a
    <3>4. Wire!RebuildAccepts(a, raw)
      BY <2>1, <2>4, <3>2, <3>3, LimitAssumption
         DEF Wire!RebuildAccepts, Wire!ReceiptFits, Wire!ObservationFits, Wire!None
    <3>5. Fits(a, raw)
      BY <2>1, <3>3, <3>4 DEF Fits, Wire!Nothing, None, Outer, Unavailable
    <3>6. QED  BY <1>2, <3>5
  <2>5. CASE r.status = 200 /\ r.body # Wire!OuterInvalid
    <3> DEFINE v == Wire!Validate(r.body)
    <3>1. a = [Wire!ResponseArtifacts(Fixed, r) EXCEPT !.receipt = TRUE, !.validation = v,
                 !.status = Wire!ValidationStatus(v), !.reason = v]
      BY <1>4, <2>1, <2>5 DEF Wire!Artifacts
    <3>2. raw = r
      BY <2>2, <3>1 DEF Wire!ResponseArtifacts
    <3>3. v \in Wire!InnerReason \cup {"response_shape_valid"} /\ v # "none"
      BY <1>4, <2>1, <2>5 DEF Wire!Body, Wire!Completion, Wire!Content, Wire!Validate,
         Wire!InnerReason, Wire!Fault, Wire!Digests
    <3> HIDE DEF raw, v
    <3>4. /\ a.transport = "response_received" /\ a.http = 200 /\ a.size = r.size
          /\ a.receipt = TRUE /\ a.diagnostic = FALSE /\ a.validation = v /\ a.evidence = Fixed
          /\ a.status = Wire!ValidationStatus(v) /\ a.reason = v
      BY <2>5, <3>1 DEF Wire!ResponseArtifacts
    <3> HIDE DEF a
    <3>5. Wire!ReceiptFits(a) /\ Wire!ObservationFits(a)
      BY <2>1, <3>3, <3>4, LimitAssumption DEF Wire!ReceiptFits, Wire!ObservationFits,
         Wire!ValidationStatus, Wire!None, Wire!InnerReason, Wire!Fault
    <3>6. Wire!RebuildAccepts(a, raw)
      BY <2>1, <2>5, <3>2, <3>4, <3>5 DEF Wire!RebuildAccepts, v
    <3>7. /\ v = "response_shape_valid" \/ v \in Inner
          /\ v \in Inner => v # "response_shape_valid"
      BY <3>3 DEF Inner, Wire!InnerReason, Wire!Fault
    <3>8. Fits(a, raw)
      BY <2>1, <3>3, <3>4, <3>6, <3>7
         DEF Fits, Wire!ValidationStatus, Wire!Nothing, None, Unavailable
    <3>9. QED  BY <1>2, <3>8
  <2>6. QED  BY <2>3, <2>4, <2>5
<1>5. QED  BY <1>3, <1>4, ReplyCases
-----------------------------------------------------------------------------
(* The steps of a call.                                                    *)

\* a call that is not idle, and the fields of its record
LEMMA CallFields ==
  ASSUME TypeOK, NEW t \in Thread, call[t].at # "idle"
  PROVE  /\ call[t] \in Calls /\ call[t] # Idle
         /\ call[t].at \in Label /\ call[t].runner \in Runners /\ call[t].cap \in Cap
         /\ call[t].started \in Clock /\ call[t].attested \in Clock
         /\ call[t].reply \in FixedReply \cup {Wire!NoReply}
         /\ call[t].runner.signer \in Signer
BY DEF TypeOK, Idle, Calls, Runners, Label

\* A thread is idle or in a call.
LEMMA IdleOrCall ==
  ASSUME TypeOK, NEW t \in Thread
  PROVE  call[t].at = "idle" \/ call[t].at \in Label
BY DEF TypeOK, Idle, Calls

\* only the label changes
LEMMA Advances ==
  ASSUME TypeOK, NEW t \in Thread, call[t].at # "idle", NEW label \in Label, Advance(t, label)
  PROVE  /\ call' \in [Thread -> {Idle} \cup Calls]
         /\ \A u \in Thread : u # t => call'[u] = call[u]
         /\ call'[t].at = label /\ call'[t] # Idle
         /\ call'[t].runner = call[t].runner /\ call'[t].cap = call[t].cap
         /\ call'[t].started = call[t].started /\ call'[t].consumed = call[t].consumed
         /\ call'[t].reply = call[t].reply /\ call'[t].attested = call[t].attested
         /\ Made(call'[t]) = Made(call[t])
<1> DEFINE k == [call[t] EXCEPT !.at = label]
<1>1. call[t] \in Calls
  BY CallFields
<1>2. /\ k \in Calls /\ k.at = label /\ k.runner = call[t].runner /\ k.cap = call[t].cap
      /\ k.started = call[t].started /\ k.consumed = call[t].consumed
      /\ k.reply = call[t].reply /\ k.attested = call[t].attested
  BY <1>1 DEF Calls
<1>3. call' = [call EXCEPT ![t] = k]
  BY DEF Advance
<1> HIDE DEF k
<1>4. call' \in [Thread -> {Idle} \cup Calls] /\ call'[t] = k /\ \A u \in Thread : u # t => call'[u] = call[u]
  BY <1>2, <1>3 DEF TypeOK
<1>5. k # Idle
  BY <1>2 DEF Idle, Label
<1>6. QED  BY <1>2, <1>4, <1>5 DEF Made

\* The invariant holds at first.
LEMMA InitFormal == Init => FormalInv
<1> SUFFICES ASSUME Init PROVE FormalInv
  OBVIOUS
<1>1. TypeOK
  BY DEF Init, TypeOK
<1>2. \A t \in Thread : call[t].at = "idle"
  BY DEF Init, Idle
<1>3. CapsOK
  BY <1>2 DEF Init, CapsOK, Spent
<1>4. SignedOK
  BY <1>2 DEF Init, SignedOK, Unsigned, Answered
<1>5. ContextsOK
  BY <1>2, FS_EmptySet, ClockAssumption DEF Init, ContextsOK, Kept
<1>6. SentIsFormalized
  BY DEF Init, SentIsFormalized
<1>7. QED  BY <1>1, <1>3, <1>4, <1>5, <1>6 DEF FormalInv

\* The steps that only move the label before the request or after a refusal.
LEMMA RefuseKeeps ==
  ASSUME FormalInv, NEW t \in Thread, Refuse(t)
  PROVE  FormalInv'
<1> USE DEF FormalInv
<1>1. /\ call' \in [Thread -> {Idle} \cup Calls]
      /\ \A u \in Thread : u # t => call'[u] = call[u]
      /\ call[t].at = "check" /\ call'[t].at = "finally" /\ call'[t].runner = call[t].runner
      /\ UNCHANGED <<contexts, outstanding, attempted, excused, signed, evidence>>
  BY Advances DEF Refuse, Label
<1>2. TypeOK'
  BY <1>1 DEF TypeOK
<1>3. CapsOK'
  BY <1>1 DEF CapsOK, Spent
<1>4. SignedOK'
  BY <1>1 DEF SignedOK, Unsigned, Answered
<1>5. ContextsOK'
  BY <1>1 DEF ContextsOK, Kept
<1>6. SentIsFormalized'
  BY <1>1 DEF SentIsFormalized, Pending
<1>7. QED  BY <1>2, <1>3, <1>4, <1>5, <1>6

\* The gate hands its capability over.
LEMMA SpendKeeps ==
  ASSUME FormalInv, NEW t \in Thread, Spend(t)
  PROVE  FormalInv'
<1> USE DEF FormalInv
<1>1. /\ call' \in [Thread -> {Idle} \cup Calls]
      /\ \A u \in Thread : u # t => call'[u] = call[u]
      /\ call[t].at = "check" /\ call'[t].at = "key"
      /\ call'[t].runner = call[t].runner /\ call'[t].cap = call[t].cap
      /\ GateOf[call[t].cap] = call[t].runner.gate
      /\ call[t].cap \in outstanding /\ outstanding' = outstanding \ {call[t].cap}
      /\ UNCHANGED <<contexts, attempted, excused, signed, evidence>>
  BY Advances DEF Spend, Label
<1>2. TypeOK'
  BY <1>1 DEF TypeOK
<1>3. CapsOK'
  BY <1>1 DEF CapsOK, Spent
<1>4. SignedOK'
  BY <1>1 DEF SignedOK, Unsigned, Answered, CapsOK
<1>5. ContextsOK'
  BY <1>1 DEF ContextsOK, Kept
<1>6. SentIsFormalized'
  BY <1>1 DEF SentIsFormalized, Pending
<1>7. QED  BY <1>2, <1>3, <1>4, <1>5, <1>6

\* A spent capability that is not sent is attempted by nobody.
LEMMA KeyMissingKeeps ==
  ASSUME FormalInv, NEW t \in Thread, KeyMissing(t)
  PROVE  FormalInv'
<1> USE DEF FormalInv
<1>1. /\ call' \in [Thread -> {Idle} \cup Calls]
      /\ \A u \in Thread : u # t => call'[u] = call[u]
      /\ call[t].at = "key" /\ call'[t].at = "finally" /\ call'[t].runner = call[t].runner
      /\ UNCHANGED <<contexts, outstanding, attempted, excused, signed, evidence>>
  BY Advances DEF KeyMissing, Label
<1>2. TypeOK'
  BY <1>1 DEF TypeOK
<1>3. CapsOK'
  BY <1>1 DEF CapsOK, Spent
<1>4. SignedOK'
  BY <1>1 DEF SignedOK, Unsigned, Answered
<1>5. ContextsOK'
  BY <1>1 DEF ContextsOK, Kept
<1>6. SentIsFormalized'
  BY <1>1 DEF SentIsFormalized, Pending
<1>7. QED  BY <1>2, <1>3, <1>4, <1>5, <1>6

\* The request is sent: the capability is this call's alone.
LEMMA SendKeeps ==
  ASSUME FormalInv, NEW t \in Thread, Send(t)
  PROVE  FormalInv'
<1> USE DEF FormalInv
<1>1. /\ call' \in [Thread -> {Idle} \cup Calls]
      /\ \A u \in Thread : u # t => call'[u] = call[u]
      /\ call[t].at = "key" /\ call'[t].at = "wire"
      /\ call'[t].runner = call[t].runner /\ call'[t].cap = call[t].cap
      /\ attempted' = attempted \cup {call[t].cap}
      /\ UNCHANGED <<contexts, outstanding, excused, signed, evidence>>
  BY Advances DEF Send, Label
<1>2. TypeOK'
  BY <1>1, CallFields DEF TypeOK
<1>3. CapsOK'
  BY <1>1 DEF CapsOK, Spent
<1>4. SignedOK'
  BY <1>1 DEF SignedOK, Unsigned, Answered
<1>5. ContextsOK'
  BY <1>1 DEF ContextsOK, Kept
<1>6. SentIsFormalized'
  <2> SUFFICES ASSUME NEW c \in attempted' \ excused'
               PROVE  (Pending(c) \/ \E e \in evidence : e.cap = c)'
    BY DEF SentIsFormalized
  <2>1. CASE c = call[t].cap
    BY <1>1, <2>1 DEF Pending
  <2>2. CASE c # call[t].cap
    BY <1>1, <2>2 DEF SentIsFormalized, Pending
  <2>3. QED  BY <2>1, <2>2
<1>7. QED  BY <1>2, <1>3, <1>4, <1>5, <1>6

\* a signer that forgets a context
LEMMA Dropped ==
  ASSUME TypeOK, ContextsOK, NEW t \in Thread, NEW s \in Signer,
         contexts' = [contexts EXCEPT ![s] = @ \ {t}]
  PROVE  /\ contexts' \in [Signer -> SUBSET Thread]
         /\ contexts'[s] = contexts[s] \ {t}
         /\ \A q \in Signer : q # s => contexts'[q] = contexts[q]
         /\ \A q \in Signer : IsFiniteSet(contexts'[q]) /\ Cardinality(contexts'[q]) <= MaxPending
<1>1. /\ contexts' \in [Signer -> SUBSET Thread] /\ contexts'[s] = contexts[s] \ {t}
      /\ \A q \in Signer : q # s => contexts'[q] = contexts[q]
  BY DEF TypeOK
<1>2. ASSUME NEW q \in Signer
      PROVE  IsFiniteSet(contexts'[q]) /\ Cardinality(contexts'[q]) <= MaxPending
  <2>1. IsFiniteSet(contexts[q]) /\ Cardinality(contexts[q]) <= MaxPending
    BY DEF ContextsOK
  <2>2. CASE q # s
    BY <1>1, <2>1, <2>2
  <2>3. CASE q = s
    <3>1. /\ IsFiniteSet(contexts[q] \ {t})
          /\ Cardinality(contexts[q] \ {t}) \in {Cardinality(contexts[q]), Cardinality(contexts[q]) - 1}
      BY <2>1, FS_RemoveElement
    <3>2. Cardinality(contexts[q]) \in Nat
      BY <2>1, FS_CardinalityType
    <3>3. QED  BY <1>1, <2>1, <2>3, <3>1, <3>2, ClockAssumption
  <2>4. QED  BY <2>2, <2>3
<1>3. QED  BY <1>1, <1>2

\* A call begins: the signer keeps one context more.
LEMMA RunKeeps ==
  ASSUME FormalInv, NEW t \in Thread, NEW r \in Runners, NEW c \in Cap, Run(t, r, c)
  PROVE  FormalInv'
<1> USE DEF FormalInv
<1>1. PICK now \in Clock :
        call' = [call EXCEPT ![t] =
                   [at |-> "check", runner |-> r, cap |-> c, started |-> now, consumed |-> FALSE,
                    reply |-> Wire!NoReply, attested |-> now]]
  BY DEF Run, Begin, Become
<1>2. /\ call' \in [Thread -> {Idle} \cup Calls]
      /\ \A u \in Thread : u # t => call'[u] = call[u]
      /\ call[t].at = "idle" /\ call'[t].at = "check" /\ call'[t].runner = r
      /\ contexts' = [contexts EXCEPT ![r.signer] = @ \cup {t}]
      /\ Cardinality(contexts[r.signer]) < MaxPending
      /\ UNCHANGED <<outstanding, attempted, excused, signed, evidence>>
  BY <1>1 DEF Run, Idle, TypeOK, Calls, Label
<1>3. r.signer \in Signer
  BY DEF Runners
<1>4. TypeOK'
  BY <1>2, <1>3 DEF TypeOK
<1>5. CapsOK'
  BY <1>2 DEF CapsOK, Spent
<1>6. SignedOK'
  BY <1>2 DEF SignedOK, Unsigned, Answered
<1>7. ContextsOK'
  <2>1. /\ contexts'[r.signer] = contexts[r.signer] \cup {t}
        /\ \A s \in Signer : s # r.signer => contexts'[s] = contexts[s]
    BY <1>2, <1>3 DEF TypeOK
  <2>2. ASSUME NEW s \in Signer
        PROVE  IsFiniteSet(contexts'[s]) /\ Cardinality(contexts'[s]) <= MaxPending
    <3>1. IsFiniteSet(contexts[s]) /\ Cardinality(contexts[s]) <= MaxPending
      BY DEF ContextsOK
    <3>2. CASE s # r.signer
      BY <2>1, <3>1, <3>2
    <3>3. CASE s = r.signer
      <4>1. /\ IsFiniteSet(contexts[s] \cup {t})
            /\ Cardinality(contexts[s] \cup {t}) \in {Cardinality(contexts[s]), Cardinality(contexts[s]) + 1}
        BY <3>1, FS_AddElement
      <4>2. Cardinality(contexts[s]) \in Nat
        BY <3>1, FS_CardinalityType
      <4> DEFINE n == Cardinality(contexts[s])
                 m == Cardinality(contexts[s] \cup {t})
      <4>3. n \in Nat /\ n < MaxPending /\ m \in {n, n + 1}
        BY <1>2, <3>3, <4>1, <4>2
      <4> HIDE DEF n, m
      <4>4. m <= MaxPending
        BY <4>3, ClockAssumption
      <4>5. contexts'[s] = contexts[s] \cup {t}
        BY <2>1, <3>3
      <4>6. QED  BY <4>1, <4>4, <4>5 DEF m
    <3>4. QED  BY <3>2, <3>3
  <2>3. ASSUME NEW u \in Thread, call'[u].at \in Kept
        PROVE  u \in contexts'[call'[u].runner.signer]
    <3>1. CASE u = t
      BY <1>2, <2>1, <3>1
    <3>2. CASE u # t
      <4>1. call[u] = call'[u] /\ u \in contexts[call[u].runner.signer]
        BY <1>2, <2>3, <3>2 DEF ContextsOK
      <4>2. call[u].runner.signer \in Signer
        BY <2>3, <4>1, CallFields DEF Kept
      <4>3. QED  BY <2>1, <4>1, <4>2
    <3>3. QED  BY <3>1, <3>2
  <2>4. ASSUME NEW s \in Signer, NEW u \in Thread, u \in contexts'[s]
        PROVE  call'[u].at \in Kept \cup {"finally"} /\ call'[u].runner.signer = s
    <3>1. CASE u = t
      <4>1. t \notin contexts[s]
        BY <1>2 DEF ContextsOK, Kept
      <4>2. s = r.signer
        BY <2>1, <2>4, <3>1, <4>1
      <4>3. QED  BY <1>2, <3>1, <4>2 DEF Kept
    <3>2. CASE u # t
      <4>1. u \in contexts[s]
        BY <2>1, <2>4, <3>2
      <4>2. QED  BY <1>2, <3>2, <4>1 DEF ContextsOK
    <3>3. QED  BY <3>1, <3>2
  <2>5. \A u \in Thread : call'[u].at \in {"sign", "return"} => call'[u].consumed
    BY <1>2 DEF ContextsOK
  <2>6. QED  BY <2>2, <2>3, <2>4, <2>5 DEF ContextsOK
<1>8. SentIsFormalized'
  BY <1>2 DEF SentIsFormalized, Pending
<1>9. QED  BY <1>4, <1>5, <1>6, <1>7, <1>8

\* An answer the runner can digest is genuine, so the call goes on with it.
LEMMA ReceiveKeeps ==
  ASSUME FormalInv, NEW t \in Thread, Receive(t)
  PROVE  FormalInv'
<1> USE DEF FormalInv
<1>1. PICK r \in Answers[call[t].cap] :
        \/ /\ Wire!Digests(r)
           /\ IF RunIsGenuine(call[t].cap, RunOf(call[t].cap, r), RawOf(r))
              THEN call' = [call EXCEPT ![t].at = "produce", ![t].reply = r]
              ELSE Advance(t, "finally")
           /\ UNCHANGED excused
        \/ /\ ~Wire!Digests(r)
           /\ Advance(t, "finally")
           /\ excused' = excused \cup {call[t].cap}
  BY DEF Receive
<1>2. call[t].at = "wire" /\ UNCHANGED <<contexts, outstanding, attempted, signed, evidence>>
  BY DEF Receive
<1>3. call[t].cap \in Cap /\ call[t] \in Calls
  BY <1>2, CallFields
<1>4. r \in FixedReply
  BY <1>3, AnswersAssumption
<1>5. CASE Wire!Digests(r)
  <2>1. call' = [call EXCEPT ![t].at = "produce", ![t].reply = r] /\ UNCHANGED excused
    BY <1>1, <1>4, <1>5, ReplyIsFormalized
  <2> DEFINE k == [call[t] EXCEPT !.at = "produce", !.reply = r]
  <2>2. /\ k \in Calls /\ k.at = "produce" /\ k.reply = r
        /\ k.runner = call[t].runner /\ k.cap = call[t].cap
    BY <1>3, <1>4 DEF Calls, Label
  <2>3. call' = [call EXCEPT ![t] = k]
    BY <2>1
  <2> HIDE DEF k
  <2>4. /\ call' \in [Thread -> {Idle} \cup Calls]
        /\ \A u \in Thread : u # t => call'[u] = call[u]
        /\ call'[t].at = "produce" /\ call'[t].reply = r
        /\ call'[t].runner = call[t].runner /\ call'[t].cap = call[t].cap
    BY <2>2, <2>3 DEF TypeOK
  <2>5. TypeOK'
    BY <1>2, <2>1, <2>4 DEF TypeOK
  <2>6. CapsOK'
    BY <1>2, <2>4 DEF CapsOK, Spent
  <2>7. SignedOK'
    BY <1>2, <1>4, <1>5, <2>4 DEF SignedOK, Unsigned, Answered
  <2>8. ContextsOK'
    BY <1>2, <2>4 DEF ContextsOK, Kept
  <2>9. SentIsFormalized'
    BY <1>2, <2>1, <2>4 DEF SentIsFormalized, Pending
  <2>10. QED  BY <2>5, <2>6, <2>7, <2>8, <2>9
<1>6. CASE ~Wire!Digests(r)
  <2>1. Advance(t, "finally") /\ excused' = excused \cup {call[t].cap}
    BY <1>1, <1>6
  <2>2. /\ call' \in [Thread -> {Idle} \cup Calls]
        /\ \A u \in Thread : u # t => call'[u] = call[u]
        /\ call'[t].at = "finally" /\ call'[t].runner = call[t].runner
    BY <1>2, <2>1, Advances DEF Label
  <2>3. TypeOK'
    BY <1>2, <1>3, <2>1, <2>2 DEF TypeOK
  <2>4. CapsOK'
    BY <1>2, <2>2 DEF CapsOK, Spent
  <2>5. SignedOK'
    BY <1>2, <2>2 DEF SignedOK, Unsigned, Answered
  <2>6. ContextsOK'
    BY <1>2, <2>2 DEF ContextsOK, Kept
  <2>7. SentIsFormalized'
    BY <1>2, <2>1, <2>2 DEF SentIsFormalized, Pending
  <2>8. QED  BY <2>3, <2>4, <2>5, <2>6, <2>7
<1>7. QED  BY <1>5, <1>6

\* The projection does not fail and the context is there.
LEMMA ProduceKeeps ==
  ASSUME FormalInv, NEW t \in Thread, Produce(t)
  PROVE  FormalInv'
<1> USE DEF FormalInv
<1> DEFINE s == call[t].runner.signer
<1>1. call[t].at = "produce" /\ UNCHANGED <<outstanding, attempted, excused, signed, evidence>>
  BY DEF Produce
<1>2. call[t] \in Calls /\ call[t].runner \in Runners /\ s \in Signer
  BY <1>1, CallFields
<1>3. Holds(s, t)
  BY <1>1 DEF ContextsOK, Kept, Holds
<1>4. Projects(call[t])
  <2>1. call[t].reply \in FixedReply /\ Wire!Digests(call[t].reply)
    BY <1>1 DEF SignedOK, Answered
  <2>2. Configured(call[t].runner.registry, call[t].runner.signer)
    BY <1>2 DEF Runners
  <2>3. DomainOf[GateOf[call[t].cap]] = Pinned[call[t].runner.registry].domain
    BY <1>1, <1>2 DEF Runners, CapsOK, Spent
  <2>4. OutcomeFits(OutcomeOf(RunOf(call[t].cap, call[t].reply))) =>
          SubjectFits([outcome |-> OutcomeOf(RunOf(call[t].cap, call[t].reply))])
    BY DEF SubjectFits
  <2>5. QED  BY <2>1, <2>2, <2>3, <2>4, ReplyIsFormalized DEF Projects
<1>5. /\ contexts' = [contexts EXCEPT ![s] = @ \ {t}]
      /\ call' = [call EXCEPT ![t].at = "sign", ![t].consumed = TRUE]
  BY <1>3, <1>4 DEF Produce, Drop
<1> DEFINE k == [call[t] EXCEPT !.at = "sign", !.consumed = TRUE]
<1>6. /\ k \in Calls /\ k.at = "sign" /\ k.reply = call[t].reply /\ k.consumed = TRUE
      /\ k.runner = call[t].runner /\ k.cap = call[t].cap
  BY <1>2 DEF Calls, Label
<1>7. call' = [call EXCEPT ![t] = k]
  BY <1>5
<1> HIDE DEF k
<1>8. /\ call' \in [Thread -> {Idle} \cup Calls]
      /\ \A u \in Thread : u # t => call'[u] = call[u]
      /\ call'[t].at = "sign" /\ call'[t].reply = call[t].reply /\ call'[t].consumed = TRUE
      /\ call'[t].runner = call[t].runner /\ call'[t].cap = call[t].cap
  BY <1>6, <1>7 DEF TypeOK
<1>9. TypeOK'
  BY <1>1, <1>5, <1>8 DEF TypeOK
<1>10. CapsOK'
  BY <1>1, <1>8 DEF CapsOK, Spent
<1>11. SignedOK'
  BY <1>1, <1>8 DEF SignedOK, Unsigned, Answered
<1>12. ContextsOK'
  <2>1. /\ contexts'[s] = contexts[s] \ {t}
        /\ \A q \in Signer : q # s => contexts'[q] = contexts[q]
        /\ \A q \in Signer : IsFiniteSet(contexts'[q]) /\ Cardinality(contexts'[q]) <= MaxPending
    BY <1>2, <1>5, Dropped
  <2>2. s = call[t].runner.signer
    OBVIOUS
  <2> HIDE DEF s
  <2>3. ASSUME NEW u \in Thread, call'[u].at \in Kept
        PROVE  u \in contexts'[call'[u].runner.signer]
    <3>1. u # t
      BY <1>8, <2>3 DEF Kept
    <3>2. call[u] = call'[u] /\ u \in contexts[call[u].runner.signer]
      BY <1>8, <2>3, <3>1 DEF ContextsOK
    <3>3. call[u].runner.signer \in Signer
      BY <2>3, <3>2, CallFields DEF Kept
    <3>4. QED  BY <1>2, <2>1, <3>1, <3>2, <3>3
  <2>4. ASSUME NEW q \in Signer, NEW u \in Thread, u \in contexts'[q]
        PROVE  call'[u].at \in Kept \cup {"finally"} /\ call'[u].runner.signer = q
    <3>1. u \in contexts[q] /\ (u = t => q # s)
      BY <2>1, <2>4
    <3>2. call[u].at \in Kept \cup {"finally"} /\ call[u].runner.signer = q
      BY <3>1 DEF ContextsOK
    <3>3. u # t
      BY <2>2, <3>1, <3>2
    <3>4. QED  BY <1>8, <3>2, <3>3
  <2>5. \A u \in Thread : call'[u].at \in {"sign", "return"} => call'[u].consumed
    BY <1>8 DEF ContextsOK
  <2>6. QED  BY <2>1, <2>3, <2>4, <2>5 DEF ContextsOK
<1>13. SentIsFormalized'
  BY <1>1, <1>8 DEF SentIsFormalized, Pending
<1>14. QED  BY <1>9, <1>10, <1>11, <1>12, <1>13

\* A registry verifies what its own signer signs in its trust domain, unless
\* the clock went back.
LEMMA VerifiedWhenLater ==
  ASSUME NEW x, NEW g, Configured(g, x.signer), DomainOf[GateOf[x.cap]] = Pinned[g].domain
  PROVE  RegistryVerifies(g, SubjectOf(x), AttestationOf(x)) <=> x.attested >= x.started
<1>1. /\ AttestationOf(x).subject = SubjectOf(x) /\ AttestationOf(x).key = Config[x.signer].key
      /\ AttestationOf(x).attested = x.attested
  BY DEF AttestationOf
<1>2. /\ SubjectOf(x).key = Config[x.signer].key /\ SubjectOf(x).registry = Config[x.signer].registry
      /\ SubjectOf(x).domain = DomainOf[GateOf[x.cap]] /\ SubjectOf(x).started = x.started
      /\ SubjectOf(x).release = Config[x.signer].release
  BY DEF SubjectOf
<1>3. QED  BY <1>1, <1>2 DEF RegistryVerifies, Configured

\* The one signature for a capability; it verifies unless the clock went back.
LEMMA SignKeeps ==
  ASSUME FormalInv, NEW t \in Thread, Sign(t)
  PROVE  FormalInv'
<1> USE DEF FormalInv
<1> DEFINE made(now) == [cap |-> call[t].cap, reply |-> call[t].reply,
                         signer |-> call[t].runner.signer, started |-> call[t].started,
                         attested |-> now]
           g == call[t].runner.registry
<1>1. /\ call[t].at = "sign" /\ UNCHANGED <<contexts, outstanding, attempted, evidence>>
      /\ \E now \in Clock :
           /\ signed' = signed \cup {made(now)}
           /\ excused' = IF now < call[t].started THEN excused \cup {call[t].cap} ELSE excused
           /\ IF RegistryVerifies(g, SubjectOf(made(now)), AttestationOf(made(now)))
              THEN call' = [call EXCEPT ![t].at = "return", ![t].attested = now]
              ELSE Advance(t, "finally")
  BY DEF Sign
<1>2. PICK now \in Clock :
        /\ signed' = signed \cup {made(now)}
        /\ excused' = IF now < call[t].started THEN excused \cup {call[t].cap} ELSE excused
        /\ IF RegistryVerifies(g, SubjectOf(made(now)), AttestationOf(made(now)))
           THEN call' = [call EXCEPT ![t].at = "return", ![t].attested = now]
           ELSE Advance(t, "finally")
  BY <1>1
<1> DEFINE x == made(now)
<1>3. /\ call[t] \in Calls /\ call[t].runner \in Runners /\ call[t].cap \in Cap
      /\ call[t].started \in Clock /\ call[t].runner.signer \in Signer
  BY <1>1, CallFields
<1>4. call[t].reply \in FixedReply /\ Wire!Digests(call[t].reply)
  BY <1>1 DEF SignedOK, Answered
<1>5. /\ x.cap = call[t].cap /\ x.reply = call[t].reply /\ x.signer = call[t].runner.signer
      /\ x.started = call[t].started /\ x.attested = now /\ x \in Execution
  BY <1>3, <1>4 DEF Execution
<1>6. /\ signed' = signed \cup {x}
      /\ excused' = IF now < call[t].started THEN excused \cup {call[t].cap} ELSE excused
      /\ IF RegistryVerifies(g, SubjectOf(x), AttestationOf(x))
         THEN call' = [call EXCEPT ![t].at = "return", ![t].attested = now]
         ELSE Advance(t, "finally")
  BY <1>2
<1>7. call[t].cap \in attempted /\ GateOf[call[t].cap] = call[t].runner.gate
  BY <1>1 DEF CapsOK, Spent
<1>8. /\ Configured(g, x.signer) /\ DomainOf[GateOf[x.cap]] = Pinned[g].domain
      /\ Config[x.signer].registry = g /\ Config[x.signer].domain = Pinned[g].domain
  BY <1>3, <1>5, <1>7 DEF Runners, Configured
<1>9. RegistryVerifies(g, SubjectOf(x), AttestationOf(x)) <=> now >= call[t].started
  <2> HIDE DEF x, g
  <2>1. QED  BY <1>5, <1>8, VerifiedWhenLater
<1>10. /\ \A y \in signed : y.cap # x.cap
       /\ \A u \in Thread : u # t /\ call[u].at \in Spent => call[u].cap # x.cap
  BY <1>1, <1>5 DEF SignedOK, CapsOK, Unsigned, Spent
<1>11. x = made(now)
  OBVIOUS
<1> HIDE DEF x
<1>12. CASE now >= call[t].started
  <2> DEFINE k == [call[t] EXCEPT !.at = "return", !.attested = now]
  <2>1. call' = [call EXCEPT ![t] = k] /\ excused' = excused
    <3>1. now \in Int /\ call[t].started \in Int
      BY <1>2, <1>3, ClockAssumption
    <3>2. ~(now < call[t].started)
      BY <1>12, <3>1
    <3>3. call' = [call EXCEPT ![t].at = "return", ![t].attested = now]
      BY <1>6, <1>9, <1>12
    <3>4. QED  BY <1>6, <3>2, <3>3
  <2>2. /\ k \in Calls /\ k.at = "return" /\ k.reply = call[t].reply
        /\ k.consumed = call[t].consumed /\ k.runner = call[t].runner /\ k.cap = call[t].cap
    BY <1>3 DEF Calls, Label
  <2>3. Made(k) = x
    BY <1>3, <1>11 DEF Made, Calls
  <2> HIDE DEF k, g, made
  <2>4. /\ call' \in [Thread -> {Idle} \cup Calls]
        /\ \A u \in Thread : u # t => call'[u] = call[u]
        /\ call'[t] = k /\ call'[t].at = "return" /\ call'[t].reply = call[t].reply
        /\ call'[t].consumed = call[t].consumed
        /\ call'[t].runner = call[t].runner /\ call'[t].cap = call[t].cap
    BY <2>1, <2>2 DEF TypeOK
  <2>5. Acceptable(x)
    BY <1>4, <1>5, <1>8, <1>12 DEF Acceptable
  <2>6. TypeOK'
    BY <1>1, <1>5, <1>6, <2>1, <2>4 DEF TypeOK
  <2>7. CapsOK'
    BY <1>1, <2>4 DEF CapsOK, Spent
  <2>8. SignedOK'
    <3>1. \A y \in signed' : y.cap \in attempted'
      BY <1>1, <1>5, <1>6, <1>7 DEF SignedOK
    <3>2. \A y, z \in signed' : y.cap = z.cap => y = z
      BY <1>6, <1>10 DEF SignedOK
    <3>3. \A u \in Thread : call'[u].at \in Unsigned => \A y \in signed' : y.cap # call'[u].cap
      BY <1>6, <1>10, <2>4 DEF SignedOK, Unsigned, Spent
    <3>4. \A u \in Thread : call'[u].at \in Answered =>
            call'[u].reply \in FixedReply /\ Wire!Digests(call'[u].reply)
      BY <1>4, <2>4 DEF SignedOK
    <3>5. \A u \in Thread : call'[u].at = "return" =>
            Made(call'[u]) \in signed' /\ Acceptable(Made(call'[u]))
      BY <1>6, <2>3, <2>4, <2>5 DEF SignedOK
    <3>6. \A y \in evidence' : y \in signed' /\ Acceptable(y)
      BY <1>1, <1>6 DEF SignedOK
    <3>7. QED  BY <3>1, <3>2, <3>3, <3>4, <3>5, <3>6 DEF SignedOK
  <2>9. ContextsOK'
    BY <1>1, <2>4 DEF ContextsOK, Kept
  <2>10. SentIsFormalized'
    BY <1>1, <2>1, <2>4 DEF SentIsFormalized, Pending
  <2>11. QED  BY <2>6, <2>7, <2>8, <2>9, <2>10
<1>13. CASE ~(now >= call[t].started)
  <2>1. Advance(t, "finally") /\ excused' = excused \cup {call[t].cap}
    BY <1>3, <1>6, <1>9, <1>13, ClockAssumption
  <2> HIDE DEF g, made
  <2>2. /\ call' \in [Thread -> {Idle} \cup Calls]
        /\ \A u \in Thread : u # t => call'[u] = call[u]
        /\ call'[t].at = "finally" /\ call'[t].runner = call[t].runner
    BY <1>1, <2>1, Advances DEF Label
  <2>3. TypeOK'
    BY <1>1, <1>3, <1>5, <1>6, <2>1, <2>2 DEF TypeOK
  <2>4. CapsOK'
    BY <1>1, <2>2 DEF CapsOK, Spent
  <2>5. SignedOK'
    <3>1. \A y \in signed' : y.cap \in attempted'
      BY <1>1, <1>5, <1>6, <1>7 DEF SignedOK
    <3>2. \A y, z \in signed' : y.cap = z.cap => y = z
      BY <1>6, <1>10 DEF SignedOK
    <3>3. \A u \in Thread : call'[u].at \in Unsigned => \A y \in signed' : y.cap # call'[u].cap
      BY <1>6, <1>10, <2>2 DEF SignedOK, Unsigned, Spent
    <3>4. QED  BY <1>1, <1>6, <2>2, <3>1, <3>2, <3>3 DEF SignedOK, Answered
  <2>6. ContextsOK'
    BY <1>1, <2>2 DEF ContextsOK, Kept
  <2>7. SentIsFormalized'
    BY <1>1, <2>1, <2>2 DEF SentIsFormalized, Pending
  <2>8. QED  BY <2>3, <2>4, <2>5, <2>6, <2>7
<1>14. QED  BY <1>12, <1>13

\* A call that signed has consumed its context, so it hands its evidence out.
LEMMA CancelKeeps ==
  ASSUME FormalInv, NEW t \in Thread, Cancel(t)
  PROVE  /\ FormalInv'
         /\ evidence' = IF call[t].at = "return" THEN evidence \cup {Made(call[t])} ELSE evidence
<1> USE DEF FormalInv
<1> DEFINE s == call[t].runner.signer
<1>1. /\ call[t].at \in {"finally", "return"} /\ call' = [call EXCEPT ![t] = Idle]
      /\ contexts' = [contexts EXCEPT ![s] = @ \ {t}]
      /\ evidence' = IF Holds(s, t) \/ call[t].consumed
                     THEN evidence \cup Returned(call[t]) ELSE evidence
      /\ UNCHANGED <<outstanding, attempted, excused, signed>>
  BY DEF Cancel, Become, Drop
<1>2. evidence' = IF call[t].at = "return" THEN evidence \cup {Made(call[t])} ELSE evidence
  BY <1>1 DEF Returned, Made, ContextsOK
<1>3. s \in Signer /\ s = call[t].runner.signer
  BY <1>1, CallFields
<1>4. /\ call' \in [Thread -> {Idle} \cup Calls]
      /\ \A u \in Thread : u # t => call'[u] = call[u]
      /\ call'[t].at = "idle"
  BY <1>1 DEF TypeOK, Idle
<1> HIDE DEF s
<1>5. ASSUME call[t].at = "return" PROVE Made(call[t]) \in signed /\ Acceptable(Made(call[t]))
  BY <1>5 DEF SignedOK
<1>6. TypeOK'
  <2>1. evidence' \subseteq Execution
    BY <1>2, <1>5 DEF TypeOK
  <2>2. contexts' \in [Signer -> SUBSET Thread]
    BY <1>1, <1>3, Dropped
  <2>3. QED  BY <1>1, <1>4, <2>1, <2>2 DEF TypeOK
<1>7. CapsOK'
  BY <1>1, <1>4 DEF CapsOK, Spent
<1>8. SignedOK'
  <2>1. \A x \in evidence' : x \in signed' /\ Acceptable(x)
    BY <1>1, <1>2, <1>5 DEF SignedOK
  <2>2. QED  BY <1>1, <1>4, <2>1 DEF SignedOK, Unsigned, Answered
<1>9. ContextsOK'
  <2>1. /\ contexts'[s] = contexts[s] \ {t}
        /\ \A q \in Signer : q # s => contexts'[q] = contexts[q]
        /\ \A q \in Signer : IsFiniteSet(contexts'[q]) /\ Cardinality(contexts'[q]) <= MaxPending
    BY <1>1, <1>3, Dropped
  <2>2. ASSUME NEW u \in Thread, call'[u].at \in Kept
        PROVE  u \in contexts'[call'[u].runner.signer]
    <3>1. u # t
      BY <1>4, <2>2 DEF Kept
    <3>2. call[u] = call'[u] /\ u \in contexts[call[u].runner.signer]
      BY <1>4, <2>2, <3>1 DEF ContextsOK
    <3>3. call[u].runner.signer \in Signer
      BY <2>2, <3>2, CallFields DEF Kept
    <3>4. QED  BY <1>3, <2>1, <3>1, <3>2, <3>3
  <2>3. ASSUME NEW q \in Signer, NEW u \in Thread, u \in contexts'[q]
        PROVE  call'[u].at \in Kept \cup {"finally"} /\ call'[u].runner.signer = q
    <3>1. u \in contexts[q] /\ (u = t => q # s)
      BY <2>1, <2>3
    <3>2. call[u].at \in Kept \cup {"finally"} /\ call[u].runner.signer = q
      BY <3>1 DEF ContextsOK
    <3>3. u # t
      BY <1>3, <3>1, <3>2
    <3>4. QED  BY <1>4, <3>2, <3>3
  <2>4. \A u \in Thread : call'[u].at \in {"sign", "return"} => call'[u].consumed
    BY <1>4 DEF ContextsOK
  <2>5. QED  BY <2>1, <2>2, <2>3, <2>4 DEF ContextsOK
<1>10. SentIsFormalized'
  <2> SUFFICES ASSUME NEW c \in attempted' \ excused'
               PROVE  (Pending(c) \/ \E e \in evidence : e.cap = c)'
    BY DEF SentIsFormalized
  <2>1. c \in attempted \ excused
    BY <1>1
  <2>2. CASE \E e \in evidence : e.cap = c
    BY <1>2, <2>2
  <2>3. CASE Pending(c)
    <3>1. PICK u \in Thread : call[u].at \in {"wire", "produce", "sign", "return"} /\ call[u].cap = c
      BY <2>3 DEF Pending
    <3>2. CASE u = t
      <4>1. call[t].at = "return" /\ call[t].cap = c
        BY <1>1, <3>1, <3>2
      <4>2. Made(call[t]) \in evidence' /\ Made(call[t]).cap = c
        BY <1>2, <4>1 DEF Made
      <4>3. QED  BY <4>2
    <3>3. CASE u # t
      BY <1>4, <3>1, <3>3 DEF Pending
    <3>4. QED  BY <3>2, <3>3
  <2>4. QED  BY <2>1, <2>2, <2>3 DEF SentIsFormalized
<1>11. QED  BY <1>2, <1>6, <1>7, <1>8, <1>9, <1>10
-----------------------------------------------------------------------------
(* The specification.                                                      *)

\* The invariant is inductive.
LEMMA FormalStep ==
  ASSUME FormalInv, [Next]_vars
  PROVE  FormalInv'
<1>1. CASE UNCHANGED vars
  BY <1>1 DEF vars, FormalInv, TypeOK, CapsOK, SignedOK, ContextsOK, SentIsFormalized, Pending
<1>2. ASSUME NEW t \in Thread, CallStep(t) \/ \E r \in Runners, c \in Cap : Run(t, r, c)
      PROVE  FormalInv'
  BY <1>2, RunKeeps, RefuseKeeps, SpendKeeps, KeyMissingKeeps, SendKeeps, ReceiveKeeps,
     ProduceKeeps, SignKeeps, CancelKeeps DEF CallStep
<1>3. QED  BY <1>1, <1>2 DEF Next

\* The inductive invariant: where each capability is, whose each context is,
\* and that nothing sent is lost on the way to its evidence.
THEOREM FormalInvariance == Spec => []FormalInv
<1>1. FormalInv /\ [Next]_vars => FormalInv'
  BY FormalStep
<1>2. QED  BY <1>1, InitFormal, PTL DEF Spec

\* A signer keeps the contexts of the calls that are under way and have not
\* signed, and none of a call that is over, within its limit.
THEOREM ContextsBelongToCalls == Spec => []ContextsAreInFlight
<1>1. FormalInv => ContextsAreInFlight
  <2> SUFFICES ASSUME FormalInv, NEW s \in Signer
               PROVE  /\ InFlight(s, {"check", "key", "wire", "produce"}) \subseteq contexts[s]
                      /\ contexts[s] \subseteq InFlight(s, {"check", "key", "wire", "produce", "finally"})
                      /\ Cardinality(contexts[s]) <= MaxPending
    BY DEF ContextsAreInFlight
  <2>1. TypeOK /\ ContextsOK
    BY DEF FormalInv
  <2>2. InFlight(s, {"check", "key", "wire", "produce"}) \subseteq contexts[s]
    BY <2>1 DEF InFlight, ContextsOK, Kept
  <2>3. ASSUME NEW t \in contexts[s]
        PROVE  t \in InFlight(s, {"check", "key", "wire", "produce", "finally"})
    <3>1. t \in Thread
      BY <2>1 DEF TypeOK
    <3>2. call[t].at \in Kept \cup {"finally"} /\ call[t].runner.signer = s
      BY <2>1, <3>1 DEF ContextsOK
    <3>3. call[t] # Idle
      BY <3>2 DEF Idle, Kept
    <3>4. QED  BY <3>1, <3>2, <3>3 DEF InFlight, Kept
  <2>4. QED  BY <2>1, <2>2, <2>3 DEF ContextsOK
<1>2. QED  BY <1>1, FormalInvariance, PTL

\* What was sent becomes evidence, whatever the provider answers.
THEOREM AttemptsBecomeEvidence == Spec => []SentIsFormalized
<1>1. FormalInv => SentIsFormalized
  BY DEF FormalInv
<1>2. QED  BY <1>1, FormalInvariance, PTL

\* Every step of a call is an attempt, a signature or a handing out of the
\* abstract runner, or leaves what it promises alone.
THEOREM ExecutionsImplementAttested == Spec => ImplementsAttested
<1>1. Init => Attested!Init
  BY DEF Init, Attested!Init
<1>2. ASSUME FormalInv, [Next]_vars PROVE [Attested!Next]_(Attested!vars)
  <2>1. CASE UNCHANGED <<attempted, signed, evidence>>
    BY <2>1 DEF Attested!vars
  <2>2. ASSUME NEW t \in Thread, Send(t) PROVE Attested!Next
    <3>1. /\ call[t].at = "key" /\ attempted' = attempted \cup {call[t].cap}
          /\ signed' = signed /\ evidence' = evidence
      BY <2>2 DEF Send
    <3>2. call[t].cap \in Cap
      BY <1>2, <3>1, CallFields DEF FormalInv
    <3>3. call[t].cap \notin attempted
      BY <1>2, <3>1 DEF FormalInv, CapsOK, Spent
    <3>4. Attested!Attempt(call[t].cap)
      BY <3>1, <3>3 DEF Attested!Attempt
    <3>5. QED  BY <3>2, <3>4 DEF Attested!Next
  <2>3. ASSUME NEW t \in Thread, Sign(t) PROVE Attested!Next
    <3>1. /\ call[t].at = "sign" /\ attempted' = attempted /\ evidence' = evidence
          /\ \E now \in Clock : signed' = signed \cup {
               [cap |-> call[t].cap, reply |-> call[t].reply, signer |-> call[t].runner.signer,
                started |-> call[t].started, attested |-> now]}
      BY <2>3 DEF Sign
    <3>2. call[t].cap \in Cap
      BY <1>2, <3>1, CallFields DEF FormalInv
    <3>3. call[t].cap \in attempted /\ \A x \in signed : x.cap # call[t].cap
      BY <1>2, <3>1 DEF FormalInv, CapsOK, SignedOK, Spent, Unsigned
    <3>4. Attested!Sign(call[t].cap)
      <4>1. PICK now \in Clock : signed' = signed \cup {
               [cap |-> call[t].cap, reply |-> call[t].reply, signer |-> call[t].runner.signer,
                started |-> call[t].started, attested |-> now]}
        BY <3>1
      <4> DEFINE x == [cap |-> call[t].cap, reply |-> call[t].reply, signer |-> call[t].runner.signer,
                       started |-> call[t].started, attested |-> now]
      <4>2. signed' = signed \cup {x} /\ x.cap = call[t].cap
        BY <4>1
      <4> HIDE DEF x
      <4>3. \E y \in signed' : y.cap = call[t].cap /\ signed' = signed \cup {y}
        BY <4>2
      <4>4. {e.cap : e \in evidence'} = {e.cap : e \in evidence}
        BY <3>1
      <4>5. QED  BY <3>1, <3>3, <4>3, <4>4 DEF Attested!Sign
    <3>5. QED  BY <3>2, <3>4 DEF Attested!Next
  <2>4. ASSUME NEW t \in Thread, Cancel(t) PROVE [Attested!Next]_(Attested!vars)
    <3>1. /\ call[t].at \in {"finally", "return"}
          /\ attempted' = attempted /\ signed' = signed
          /\ evidence' = IF call[t].at = "return" THEN evidence \cup {Made(call[t])} ELSE evidence
      BY <1>2, <2>4, CancelKeeps DEF Cancel
    <3>2. CASE call[t].at # "return"
      BY <3>1, <3>2 DEF Attested!vars
    <3>3. CASE call[t].at = "return"
      <4>1. call[t].cap \in Cap
        BY <1>2, <3>1, CallFields DEF FormalInv
      <4>2. Made(call[t]) \in signed /\ Made(call[t]).cap = call[t].cap
        BY <1>2, <3>3 DEF FormalInv, SignedOK, Made
      <4>3. {e.cap : e \in evidence'} = {e.cap : e \in evidence} \cup {call[t].cap}
        BY <3>1, <3>3, <4>2
      <4>4. \E x \in signed : x.cap = call[t].cap
        BY <4>2
      <4>5. Attested!Next
        BY <4>1, <3>1, <4>3, <4>4 DEF Attested!Next, Attested!HandOut
      <4>6. QED  BY <4>5
    <3>4. QED  BY <3>2, <3>3
  <2>5. ASSUME NEW t \in Thread,
               \/ Refuse(t) \/ Spend(t) \/ KeyMissing(t) \/ Receive(t) \/ Produce(t)
               \/ \E r \in Runners, c \in Cap : Run(t, r, c)
        PROVE  UNCHANGED <<attempted, signed, evidence>>
    BY <2>5 DEF Refuse, Spend, KeyMissing, Receive, Produce, Run
  <2>6. CASE UNCHANGED vars
    BY <2>1, <2>6 DEF vars
  <2>7. QED  BY <1>2, <2>1, <2>2, <2>3, <2>4, <2>5, <2>6 DEF Next, CallStep
<1>3. QED  BY <1>1, <1>2, FormalInvariance, PTL DEF Spec, ImplementsAttested, Attested!Spec
-----------------------------------------------------------------------------
(* Splicing.                                                               *)

\* Evidence of an acceptable execution is accepted under the registry of its
\* signer and under no other.
LEMMA AcceptedUnderOneRegistry ==
  ASSUME NEW x, Acceptable(x), NEW g
  PROVE  Verifies(g, EvidenceOf(x)) <=> g = Config[x.signer].registry
<1> DEFINE run == RunOf(x.cap, x.reply)
           e == EvidenceOf(x)
<1>1. /\ e.cap = x.cap /\ e.run = run /\ e.raw = RawOf(x.reply) /\ e.result = ResultOf(run)
      /\ e.outcome = OutcomeOf(run) /\ e.subject = SubjectOf(x)
      /\ e.attestation = AttestationOf(x) /\ e.hybrid = HybridOf(SubjectOf(x), AttestationOf(x))
  BY DEF EvidenceOf
<1>2. /\ SubjectOf(x).outcome = OutcomeOf(run) /\ SubjectOf(x).domain = DomainOf[GateOf[x.cap]]
      /\ SubjectOf(x).registry = Config[x.signer].registry
  BY DEF SubjectOf
<1>3. /\ RunIsGenuine(x.cap, run, RawOf(x.reply))
      /\ ResultFits(ResultOf(run)) /\ OutcomeFits(OutcomeOf(run))
  BY ReplyIsFormalized DEF Acceptable
<1>4. SubjectFits(SubjectOf(x))
  BY <1>2, <1>3 DEF SubjectFits
<1> HIDE DEF run, e
<1>5. Verifies(g, e) <=> RegistryVerifies(g, SubjectOf(x), AttestationOf(x))
  BY <1>1, <1>2, <1>3, <1>4 DEF Verifies
<1>6. RegistryVerifies(g, SubjectOf(x), AttestationOf(x)) => g = Config[x.signer].registry
  BY <1>2 DEF RegistryVerifies
<1>7. ASSUME g = Config[x.signer].registry
      PROVE  RegistryVerifies(g, SubjectOf(x), AttestationOf(x))
  <2>1. Configured(g, x.signer) /\ DomainOf[GateOf[x.cap]] = Pinned[g].domain
    BY <1>7 DEF Acceptable, Configured
  <2>2. QED  BY <2>1, VerifiedWhenLater DEF Acceptable
<1>8. QED  BY <1>5, <1>6, <1>7 DEF e

\* What a verifier accepts is determined by its capability: every other part
\* names it, or is rebuilt from a part that does.
LEMMA MixturesAreRefused ==
  ASSUME NEW x, NEW y, x.cap # y.cap, NEW kept \in SUBSET Parts, NEW g,
         Verifies(g, Mixed(EvidenceOf(x), EvidenceOf(y), kept))
  PROVE  Mixed(EvidenceOf(x), EvidenceOf(y), kept) \in {EvidenceOf(x), EvidenceOf(y)}
<1> DEFINE e == EvidenceOf(x)
           f == EvidenceOf(y)
           m == Mixed(e, f, kept)
<1>1. /\ e = [p \in Parts |-> e[p]] /\ f = [p \in Parts |-> f[p]]
      /\ m = [p \in Parts |-> IF p \in kept THEN e[p] ELSE f[p]]
  BY DEF EvidenceOf, Parts, Mixed
<1>2. /\ e.cap = x.cap /\ e.run.attempt = x.cap /\ e.raw = e.run.hash
      /\ e.result = ResultOf(e.run) /\ e.outcome = OutcomeOf(e.run)
      /\ e.outcome.run = e.run /\ e.subject.outcome = e.outcome
      /\ e.attestation.subject = e.subject /\ e.hybrid = HybridOf(e.subject, e.attestation)
  BY DEF EvidenceOf, RunOf, OutcomeOf, SubjectOf, AttestationOf
<1>3. /\ f.cap = y.cap /\ f.run.attempt = y.cap /\ f.raw = f.run.hash
      /\ f.result = ResultOf(f.run) /\ f.outcome = OutcomeOf(f.run)
      /\ f.outcome.run = f.run /\ f.subject.outcome = f.outcome
      /\ f.attestation.subject = f.subject /\ f.hybrid = HybridOf(f.subject, f.attestation)
  BY DEF EvidenceOf, RunOf, OutcomeOf, SubjectOf, AttestationOf
<1> HIDE DEF e, f
<1>4. \A p \in Parts : m[p] = IF p \in kept THEN e[p] ELSE f[p]
  BY <1>1
<1>5. /\ m.run.attempt = m.cap /\ m.run.hash = m.raw /\ m.result = ResultOf(m.run)
      /\ m.outcome = OutcomeOf(m.run) /\ m.subject.outcome = m.outcome
      /\ m.attestation.subject = m.subject /\ m.hybrid = HybridOf(m.subject, m.attestation)
  BY DEF e, f, Verifies, RunIsGenuine, RegistryVerifies
<1> HIDE DEF m
<1>6. /\ m.cap \in {e.cap, f.cap} /\ m.run \in {e.run, f.run} /\ m.raw \in {e.raw, f.raw}
      /\ m.result \in {e.result, f.result} /\ m.outcome \in {e.outcome, f.outcome}
      /\ m.subject \in {e.subject, f.subject} /\ m.attestation \in {e.attestation, f.attestation}
      /\ m.hybrid \in {e.hybrid, f.hybrid}
  BY <1>4 DEF Parts
<1>7. CASE m.cap = x.cap
  <2>1. m.run = e.run
    BY <1>2, <1>3, <1>5, <1>6, <1>7
  <2>2. m.raw = e.raw /\ m.result = e.result /\ m.outcome = e.outcome
    BY <1>2, <1>5, <2>1
  <2>3. e.outcome # f.outcome
    BY <1>2, <1>3
  <2>4. m.subject = e.subject
    BY <1>3, <1>5, <1>6, <2>2, <2>3
  <2>5. m.attestation = e.attestation
    BY <1>2, <1>3, <1>5, <1>6, <2>3, <2>4
  <2>6. m.hybrid = e.hybrid
    BY <1>2, <1>5, <2>4, <2>5
  <2>7. \A p \in Parts : m[p] = e[p]
    BY <1>2, <1>7, <2>1, <2>2, <2>4, <2>5, <2>6 DEF Parts
  <2>8. m = e
    BY <1>1, <2>7 DEF m
  <2>9. QED  BY <2>8 DEF m, e, f
<1>8. CASE m.cap = y.cap
  <2>1. m.run = f.run
    BY <1>2, <1>3, <1>5, <1>6, <1>8
  <2>2. m.raw = f.raw /\ m.result = f.result /\ m.outcome = f.outcome
    BY <1>3, <1>5, <2>1
  <2>3. e.outcome # f.outcome
    BY <1>2, <1>3
  <2>4. m.subject = f.subject
    BY <1>2, <1>5, <1>6, <2>2, <2>3
  <2>5. m.attestation = f.attestation
    BY <1>2, <1>3, <1>5, <1>6, <2>3, <2>4
  <2>6. m.hybrid = f.hybrid
    BY <1>3, <1>5, <2>4, <2>5
  <2>7. \A p \in Parts : m[p] = f[p]
    BY <1>3, <1>8, <2>1, <2>2, <2>4, <2>5, <2>6 DEF Parts
  <2>8. m = f
    BY <1>1, <2>7 DEF m
  <2>9. QED  BY <2>8 DEF m, e, f
<1>9. QED  BY <1>2, <1>3, <1>6, <1>7, <1>8

\* Evidence is not withdrawn.
LEMMA EvidenceIsKept ==
  ASSUME [Next]_vars
  PROVE  evidence \subseteq evidence'
<1>1. ASSUME NEW t \in Thread, Cancel(t) PROVE evidence \subseteq evidence'
  BY <1>1 DEF Cancel
<1>2. ASSUME NEW t \in Thread, CallStep(t) \/ \E r \in Runners, c \in Cap : Run(t, r, c)
      PROVE  evidence \subseteq evidence'
  BY <1>1, <1>2 DEF CallStep, Refuse, Spend, KeyMissing, Send, Receive, Produce, Sign, Run
<1>3. QED  BY <1>2 DEF Next, vars

\* New evidence is accepted under its own registry alone, and no mixture of it
\* with older evidence is accepted under any.
THEOREM EvidenceIsNotSpliced == Spec => NoSplicing
<1> DEFINE Unspliced(x, old) ==
      LET e == EvidenceOf(x) IN
      /\ \A g \in Registry : Verifies(g, e) <=> g = Config[x.signer].registry
      /\ \A y \in old, kept \in SUBSET Parts :
           LET f == EvidenceOf(y)
               mixed == Mixed(e, f, kept)
           IN mixed \in {e, f} \/ \A g \in Registry : ~Verifies(g, mixed)
<1>1. ASSUME FormalInv, [Next]_vars PROVE \A x \in evidence' \ evidence : Unspliced(x, evidence)
  <2> SUFFICES ASSUME NEW x \in evidence', x \notin evidence PROVE Unspliced(x, evidence)
    OBVIOUS
  <2>1. x \in signed' /\ Acceptable(x)
    BY <1>1, FormalStep DEF FormalInv, SignedOK
  <2>2. \A g \in Registry : Verifies(g, EvidenceOf(x)) <=> g = Config[x.signer].registry
    BY <2>1, AcceptedUnderOneRegistry
  <2>3. ASSUME NEW y \in evidence, NEW kept \in SUBSET Parts, NEW g \in Registry,
               Verifies(g, Mixed(EvidenceOf(x), EvidenceOf(y), kept))
        PROVE  Mixed(EvidenceOf(x), EvidenceOf(y), kept) \in {EvidenceOf(x), EvidenceOf(y)}
    <3>1. y \in evidence'
      BY <1>1, EvidenceIsKept
    <3>2. y.cap # x.cap
      BY <1>1, <2>1, <3>1, FormalStep DEF FormalInv, SignedOK
    <3>3. QED  BY <2>3, <3>2, MixturesAreRefused
  <2>4. QED  BY <2>2, <2>3
<1>2. QED  BY <1>1, FormalInvariance, PTL DEF Spec, NoSplicing
=============================================================================
