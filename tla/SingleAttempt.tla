---------------------------- MODULE SingleAttempt ----------------------------
(***************************************************************************)
(* The single attempt command, hybrid_analysis/live_smoke.py: one process  *)
(* that builds a gate for its one plan, authorizes it, makes the attempt   *)
(* and prints a summary.  Several runs may have one state directory.       *)
(*                                                                         *)
(* A thread is a run of the command, with a gate of its own, or calls the  *)
(* other gates as a program may.  A process that is killed is one that     *)
(* takes no further step: nothing it holds is in anybody's way.            *)
(***************************************************************************)
EXTENDS ShadowGate, AttemptArtifacts

CONSTANTS
  Homes,    \* what the threads may be, see home
  Answers   \* what a transport may return

\* _build_claims(): they name the approval and the reservation of the run
Genuine(g) == [plan |-> PlanOf[g], domain |-> DomainOf[g], egress |-> TRUE, budget |-> TRUE]

ASSUME CommandAssumption ==
  /\ "program" \notin Gate
  /\ \A h \in Homes :
       /\ h \in [Thread -> Gate \cup {"program"}]
       /\ \A t, u \in Thread : h[t] # "program" /\ h[t] = h[u] => t = u
       /\ \A t \in Thread : h[t] # "program" => Genuine(h[t]) \in Claims
  /\ Answers \subseteq Reply

VARIABLES
  home,   \* the gate a run of the command builds, or "program"
  at,     \* where a run of the command is
  told,   \* what it printed and its exit code
  heard   \* history: what its transport returned

smokeVars == <<call, consumed, reserved, nonces, caps, revoked, sent, attempts, home, at, told, heard>>

Told(code, network) == [code |-> code, network |-> network]
Untold == Told(1, "none")

\* the gates that live in the process of a run
Taken == {home[t] : t \in Thread}

SmokeInit ==
  /\ Init
  /\ home \in Homes
  /\ at = [t \in Thread |-> IF home[t] = "program" THEN "program" ELSE "start"]
  /\ told = [t \in Thread |-> Untold] /\ heard = [t \in Thread |-> NoReply]

Goto(t, label) == at' = [at EXCEPT ![t] = label] /\ UNCHANGED <<home, told, heard>>
Exit(t, what) == at' = [at EXCEPT ![t] = "ended"] /\ told' = [told EXCEPT ![t] = what] /\ UNCHANGED home
Fail(t, what) == Exit(t, what) /\ UNCHANGED heard

-----------------------------------------------------------------------------
\* main() up to the authorization: the plan, the controls and the approvals
\* may not fit; an inspection ends here; no key provider can be built, or the
\* transport cannot run in this process
Prepare(t) ==
  /\ at[t] = "start"
  /\ \/ Goto(t, "approved")
     \/ Fail(t, Told(2, "false"))
     \/ Fail(t, Told(0, "false"))
     \/ Fail(t, Told(3, "null"))
  /\ UNCHANGED vars

Ask(t) ==
  /\ at[t] = "approved"
  /\ Authorize(t, home[t], Genuine(home[t]))
  /\ Goto(t, "authorizing")

\* authorize() goes on, returns a capability, denies, or is left by the error of
\* a marker that was made but not written, which is no denial
Authorization(t) ==
  /\ at[t] = "authorizing"
  /\ AuthorizeStep(t)
  /\ \/ call'[t] # Idle /\ UNCHANGED <<home, at, told, heard>>
     \/ call'[t] = Idle /\ caps' # caps /\ Goto(t, "authorized")
     \/ call'[t] = Idle /\ reserved' # reserved /\ Fail(t, Told(3, "null"))
     \/ call'[t] = Idle /\ caps' = caps /\ reserved' = reserved /\ Fail(t, Told(2, "false"))

RunOnce(t) ==
  /\ at[t] = "authorized"
  /\ \E cap \in caps : cap.issuer = home[t] /\ Dispatch(t, home[t], cap, Genuine(home[t]))
  /\ Goto(t, "running")

HandOver(t) == at[t] = "running" /\ Send(t) /\ UNCHANGED <<home, at, told, heard>>

KeyGone(t) == at[t] = "running" /\ KeyMissing(t) /\ Fail(t, Told(2, "false"))

\* mutant: an answer is summarized only if it has a validation
SummaryFits_Validated(a) ==
  /\ a.receipt /\ a.validation # None /\ ~a.diagnostic
  /\ a.status = ValidationStatus(a.validation)

\* _project_validated_tag_decisions(): does it accept the artifacts of the run?
SummaryFits(a) ==
  \/ ~a.receipt /\ a.validation = None /\ a.status # "valid_shape"
  \/ /\ a.receipt /\ a.validation # None /\ ~a.diagnostic
     /\ a.status = ValidationStatus(a.validation)

\* the repository's transport limits the size itself
AnswersOf(g) == {r \in Answers : g \in Live /\ r.kind = "response" => r.size <= MaxBytes}

\* mutant: the exit code looks at the transport only
Summary_OfTransport(g, r) ==
  IF ~Digests(r) THEN Told(3, "null")
  ELSE Told(IF r.kind = "response" THEN 0 ELSE 3, IF g \in Live THEN "true" ELSE "null")

\* the rest of main() after the transport returned r
Summary(g, r) ==
  LET evidence == IF g \in Live THEN "httpx_tls_fixed_endpoint" ELSE "injected_untrusted_transport"
      artifacts == Artifacts(evidence, r)
  IN IF ~Digests(r) THEN Told(3, "null")
     ELSE IF ~SummaryFits(artifacts) THEN Told(3, "true")
     ELSE Told(IF artifacts.status = "valid_shape" THEN 0 ELSE 3, IF g \in Live THEN "true" ELSE "null")

\* the error of a denial, raised by a transport, is a failed attempt like any other
Summarize(t) ==
  /\ at[t] = "running"
  /\ Return(t)
  /\ \E r \in AnswersOf(home[t]) :
       Exit(t, Summary(home[t], r)) /\ heard' = [heard EXCEPT ![t] = r]

\* any other thread, with the gates of its own process
Program(t) ==
  /\ at[t] = "program"
  /\ \/ AuthorizeStep(t)
     \/ DispatchStep(t)
     \/ \E g \in Gate \ Taken, c \in Claims :
          \/ Authorize(t, g, c)
          \/ \E cap \in {k \in caps : k.issuer \notin Taken} :
               Revoke(t, g, cap, c) \/ Dispatch(t, g, cap, c)
  /\ UNCHANGED <<home, at, told, heard>>

CommandStep(t) ==
  \/ Prepare(t) \/ Ask(t) \/ Authorization(t) \/ RunOnce(t)
  \/ HandOver(t) \/ KeyGone(t) \/ Summarize(t)

AllEnded == (\A t \in Thread : at[t] = "ended") /\ UNCHANGED smokeVars

SmokeNext == (\E t \in Thread : Program(t) \/ CommandStep(t)) \/ AllEnded

SmokeSpec == SmokeInit /\ [][SmokeNext]_smokeVars

-----------------------------------------------------------------------------
Sound(r) ==
  /\ r.kind = "response" /\ r.status = 200 /\ r.size <= MaxBytes
  /\ r.body = [content |-> "sound", finish |-> "stop"]

\* What a run prints is what it did: "not attempted" only if no transport was
\* handed anything, "attempted" only if the repository's was, and always then
\* if the answer can be digested; the exit code is 0 for an inspection and for an
\* answer whose shape is valid, also where the summary looks at the artifacts
\* with checks of its own.
SummariesTellTheTruth ==
  \A t \in Thread : at[t] = "ended" =>
    LET g == home[t]
        tried == \E s \in sent : s.gate = g
    IN /\ told[t].network = "false" => ~tried
       /\ told[t].network = "true" => tried /\ g \in Live
       /\ tried /\ g \in Live /\ Digests(heard[t]) => told[t].network = "true"
       /\ told[t].code = 0 <=> (Sound(heard[t]) \/ (told[t] = Told(0, "false") /\ ~tried))

\* No reservation is spent in silence: on a disk that works somebody has, or
\* is about to get, the capability it was made for, and a run of the command
\* says truly whether the plan went out.
SpendingIsAccountedFor == ReservationIsGranted /\ SummariesTellTheTruth
=============================================================================
