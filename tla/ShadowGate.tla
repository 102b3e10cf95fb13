----------------------------- MODULE ShadowGate -----------------------------
(***************************************************************************)
(* AITagShadowAuthorizationGate of hybrid_analysis/shadow_runtime.py with  *)
(* the one-shot egress verifier and the marker ledger that                 *)
(* campaign_live_smoke.py plugs into it, inside one process.               *)
(*                                                                         *)
(* Threads call authorize(), revoke_unused_capability() and                *)
(* dispatch_once() of several gates in any order and with any capability   *)
(* and claims they can lay hands on.  Gates of one plan share its marker   *)
(* and nothing else.  A call that fails a check of immutable data (plan,   *)
(* claims, capability fields) changes nothing and is not a step here.      *)
(***************************************************************************)
EXTENDS Naturals

CONSTANTS
  Thread,
  Gate,
  Plan,
  Domain,      \* a trust domain together with a credential scope
  Claims,      \* dispatch claims: [plan, domain, egress, budget]
  Nonce,       \* secrets.token_hex(32), which never repeats
  PlanOf,      \* the plan each gate trusts
  DomainOf,    \* the domain of each gate
  Live,        \* gates whose runner uses the repository's own transport
  Failing      \* plans whose state directory is on a disk that may fail

ASSUME GateAssumption ==
  /\ PlanOf \in [Gate -> Plan]
  /\ DomainOf \in [Gate -> Domain]
  /\ Live \subseteq Gate
  /\ Failing \subseteq Plan

\* egress and budget: do the claims name the gate's approval and reservation?
ASSUME ClaimsAssumption ==
  Claims \subseteq [plan : Plan, domain : Domain, egress : BOOLEAN, budget : BOOLEAN]

VARIABLES
  call,       \* what each thread is doing
  consumed,   \* gates whose one-shot egress approval is used up
  reserved,   \* plans with a marker on disk
  nonces,     \* per gate, the nonces it issued and has not taken back
  caps,       \* every capability object that was ever handed out
  revoked,    \* history: nonces revoked
  sent,       \* history: what was handed to a transport, and by which gate
  attempts    \* history: how often each plan was handed to a transport

vars == <<call, consumed, reserved, nonces, caps, revoked, sent, attempts>>

Idle == [at |-> "idle"]
Authorizing ==
  [at : {"egress", "credential", "budget", "issue"}, gate : Gate, claims : Claims]
Dispatching == [at : {"key", "sending"}, gate : Gate, nonce : Nonce]

\* issuer is history: the object itself does not name its gate
Capability ==
  [nonce : Nonce, plan : Plan, domain : Domain, claims : Claims, issuer : Gate]

\* the type invariant
TypeOK ==
  /\ call \in [Thread -> {Idle} \cup Authorizing \cup Dispatching]
  /\ consumed \subseteq Gate
  /\ reserved \subseteq Plan
  /\ nonces \in [Gate -> SUBSET Nonce]
  /\ caps \subseteq Capability
  /\ revoked \subseteq Nonce
  /\ sent \subseteq [nonce : Nonce, gate : Gate]
  /\ attempts \in [Plan -> Nat]

Init ==
  /\ call = [t \in Thread |-> Idle]
  /\ consumed = {}
  /\ reserved = {}
  /\ nonces = [g \in Gate |-> {}]
  /\ caps = {}
  /\ revoked = {}
  /\ sent = {}
  /\ attempts = [q \in Plan |-> 0]

Become(t, state) == call' = [call EXCEPT ![t] = state]
Advance(t, label) == call' = [call EXCEPT ![t].at = label]

-----------------------------------------------------------------------------
(* authorize(): egress approval, credential, reservation, capability.      *)

\* verify_claims_binding()
Bound(g, c) == c.plan = PlanOf[g] /\ c.domain = DomainOf[g]

Authorize(t, g, c) ==
  /\ call[t] = Idle
  /\ Bound(g, c)
  /\ Become(t, [at |-> "egress", gate |-> g, claims |-> c])
  /\ UNCHANGED <<consumed, reserved, nonces, caps, revoked, sent, attempts>>

\* Test and set of the approval under the verifier's lock.
VerifyEgress(t) ==
  /\ call[t].at = "egress"
  /\ LET g == call[t].gate
         approved == call[t].claims.egress /\ g \notin consumed
     IN \/ /\ approved
           /\ consumed' = consumed \cup {g}
           /\ Advance(t, "credential")
        \/ /\ ~approved
           /\ Become(t, Idle)
           /\ UNCHANGED consumed
  /\ UNCHANGED <<reserved, nonces, caps, revoked, sent, attempts>>

\* is_configured(): the environment may have no key; the approval is gone.
CheckCredential(t) ==
  /\ call[t].at = "credential"
  /\ Advance(t, "budget") \/ Become(t, Idle)
  /\ UNCHANGED <<consumed, reserved, nonces, caps, revoked, sent, attempts>>

\* mutant: an existing marker is opened again
ReserveMarker_Reopens(t) ==
  /\ call[t].at = "budget"
  /\ IF call[t].claims.budget
       THEN /\ reserved' = reserved \cup {PlanOf[call[t].gate]}
            /\ Advance(t, "issue")
       ELSE Become(t, Idle) /\ UNCHANGED reserved
  /\ UNCHANGED <<consumed, nonces, caps, revoked, sent, attempts>>

\* mutant: the marker is written before the claims are compared
ReserveMarker_WritesFirst(t) ==
  /\ call[t].at = "budget"
  /\ LET q == PlanOf[call[t].gate] IN
       \/ /\ q \notin reserved
          /\ reserved' = reserved \cup {q}
          /\ IF call[t].claims.budget THEN Advance(t, "issue") ELSE Become(t, Idle)
       \/ /\ q \in reserved
          /\ Become(t, Idle)
          /\ UNCHANGED reserved
  /\ UNCHANGED <<consumed, nonces, caps, revoked, sent, attempts>>

\* consume_one_attempt_reservation(): the marker is made with O_EXCL; a
\* failure after that leaves it behind and denies all the same.
ReserveMarker(t) ==
  /\ call[t].at = "budget"
  /\ LET q == PlanOf[call[t].gate]
         available == call[t].claims.budget /\ q \notin reserved
     IN \/ /\ available
           /\ reserved' = reserved \cup {q}
           /\ \/ Advance(t, "issue")
              \/ q \in Failing /\ Become(t, Idle)
        \/ /\ ~available \/ q \in Failing
           /\ Become(t, Idle)
           /\ UNCHANGED reserved
  /\ UNCHANGED <<consumed, nonces, caps, revoked, sent, attempts>>

\* a fresh nonce, remembered by the gate under its lock, and the capability
IssueCapability(t) ==
  /\ call[t].at = "issue"
  /\ LET g == call[t].gate IN
       \E n \in Nonce \ {c.nonce : c \in caps} :
         /\ nonces' = [nonces EXCEPT ![g] = @ \cup {n}]
         /\ caps' = caps \cup
              {[nonce |-> n, plan |-> PlanOf[g], domain |-> DomainOf[g],
                claims |-> call[t].claims, issuer |-> g]}
  /\ Become(t, Idle)
  /\ UNCHANGED <<consumed, reserved, revoked, sent, attempts>>

-----------------------------------------------------------------------------
(* Spending a capability.                                                  *)

\* the field comparison of _consume_capability(), on immutable data
Fits(g, cap, c) ==
  /\ Bound(g, c)
  /\ cap.plan = PlanOf[g] /\ cap.domain = DomainOf[g]
  /\ cap.claims = c

\* mutant: any gate of the process knows the nonce
Outstanding_Anywhere(g, n) == \E h \in Gate : n \in nonces[h]

\* does gate g know the nonce?  ("capability_replayed" if not)
Outstanding(g, n) == n \in nonces[g]

\* _issued_nonces.pop() under the gate's lock
Take(g, n) == nonces' = [h \in Gate |-> IF h = g THEN nonces[h] \ {n} ELSE nonces[h]]

\* revoke_unused_capability()
Revoke(t, g, cap, c) ==
  /\ call[t] = Idle
  /\ Fits(g, cap, c)
  /\ Outstanding(g, cap.nonce)
  /\ Take(g, cap.nonce)
  /\ revoked' = revoked \cup {cap.nonce}
  /\ UNCHANGED <<call, consumed, reserved, caps, sent, attempts>>

\* dispatch_once() up to the point where the capability is gone
Dispatch(t, g, cap, c) ==
  /\ call[t] = Idle
  /\ Fits(g, cap, c)
  /\ Outstanding(g, cap.nonce)
  /\ Take(g, cap.nonce)
  /\ Become(t, [at |-> "key", gate |-> g, nonce |-> cap.nonce])
  /\ UNCHANGED <<consumed, reserved, caps, revoked, sent, attempts>>

\* transport.send(); a live gate has read the key from its environment
Send(t) ==
  /\ call[t].at = "key"
  /\ LET g == call[t].gate IN
       /\ sent' = sent \cup {[nonce |-> call[t].nonce, gate |-> g]}
       /\ attempts' = [attempts EXCEPT ![PlanOf[g]] = @ + 1]
  /\ Advance(t, "sending")
  /\ UNCHANGED <<consumed, reserved, nonces, caps, revoked>>

\* the key is gone by now: credential_not_configured, nothing is sent
KeyMissing(t) ==
  /\ call[t].at = "key"
  /\ call[t].gate \in Live
  /\ Become(t, Idle)
  /\ UNCHANGED <<consumed, reserved, nonces, caps, revoked, sent, attempts>>

Return(t) ==
  /\ call[t].at = "sending"
  /\ Become(t, Idle)
  /\ UNCHANGED <<consumed, reserved, nonces, caps, revoked, sent, attempts>>

AuthorizeStep(t) ==
  \/ VerifyEgress(t) \/ CheckCredential(t) \/ ReserveMarker(t) \/ IssueCapability(t)

DispatchStep(t) == Send(t) \/ KeyMissing(t) \/ Return(t)

Next ==
  \E t \in Thread :
    \/ AuthorizeStep(t)
    \/ DispatchStep(t)
    \/ \E g \in Gate, c \in Claims :
         \/ Authorize(t, g, c)
         \/ \E cap \in caps : Revoke(t, g, cap, c) \/ Dispatch(t, g, cap, c)

Spec == Init /\ [][Next]_vars

-----------------------------------------------------------------------------
(* Properties.                                                             *)

\* Whatever threads and gates do with the capabilities, a plan is handed to
\* a transport at most once: the nonce is popped before the send, and one
\* marker allows one capability.
AtMostOneAttempt == \A q \in Plan : attempts[q] <= 1

\* A plan goes out only through the gate that issued the capability, after
\* that gate's own approval was consumed and the plan's marker was written,
\* for claims that named both.  Of a revoke and a dispatch that race for one
\* capability one wins: what was revoked is never sent (the harness revokes
\* what came too late and then records that the plan was not run).
SentWasAuthorized ==
  \A s \in sent :
    /\ s.nonce \notin revoked
    /\ s.gate \in consumed
    /\ PlanOf[s.gate] \in reserved
    /\ \E cap \in caps :
         /\ cap.nonce = s.nonce /\ cap.issuer = s.gate
         /\ cap.claims.egress /\ cap.claims.budget

\* On a disk that works, a marker is never spent for nothing: some thread is
\* about to get its capability or somebody has it.  Denied approvals,
\* missing credentials and foreign claims leave the reservation alone.
ReservationIsGranted ==
  \A q \in reserved \ Failing :
    \/ \E cap \in caps : cap.plan = q
    \/ \E t \in Thread : call[t].at = "issue" /\ PlanOf[call[t].gate] = q

\* The gates implement the abstract promise of OneAttempt.
Promise == INSTANCE OneAttempt WITH reserved <- reserved, attempts <- attempts
ImplementsOneAttempt == Promise!Spec
=============================================================================
