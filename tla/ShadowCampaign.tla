--------------------------- MODULE ShadowCampaign ---------------------------
(***************************************************************************)
(* The AI tag shadow campaign: campaign_live_smoke.main() around           *)
(* AITagShadowCampaignLiveHarness.execute() in shadow_campaign_execution.py*)
(* and the authorization gate of shadow_runtime.py.                        *)
(*                                                                         *)
(* A process is one run of the command.  It looks at the markers, then     *)
(* takes the plans in order: deadline, egress approval, credential, one    *)
(* marker on disk, deadline again, dispatch, a record of what happened.    *)
(* At the end it verifies its own records, publishes them as a result      *)
(* file and reports an exit code.  Several processes share one state       *)
(* directory; each may crash anywhere, any system call may fail, and the   *)
(* machine may lose power.                                                 *)
(*                                                                         *)
(* One action is one step another process or a crash can get in between;   *)
(* process-local computation is part of the step it follows.               *)
(***************************************************************************)
EXTENDS StateDirectory, Sequences, Integers

CONSTANTS
  Proc,          \* runs of the command against this state directory
  Live,          \* those that use the repository's own HTTP transport
  Denied,        \* plans whose gate keeps the deny-all egress verifier
  Timeout,       \* per plan, wall_clock_timeout_ms in clock units
  Cap,           \* campaign_wall_clock_cap_ms in clock units
  MaxElapsed,    \* bound: the largest elapsed time a process observes
  Outcome,       \* attempt outcomes (see ShadowAttempt)
  ValidShape,    \* the outcome "valid_shape"
  IOFails,       \* may a system call on the state directory fail?
  Crashes,       \* may a process be killed?
  MaxPowerLoss   \* bound: power failures in one behaviour

ASSUME ProcAssumption == Live \subseteq Proc
ASSUME PlanAssumption == Denied \subseteq Plan /\ Timeout \in [Plan -> Nat \ {0}]
ASSUME ClockAssumption == Cap \in Nat \ {0} /\ MaxElapsed \in Nat
ASSUME OutcomeAssumption == ValidShape \in Outcome
ASSUME FaultAssumption ==
  IOFails \in BOOLEAN /\ Crashes \in BOOLEAN /\ MaxPowerLoss \in Nat

VARIABLES
  pc,           \* where each process is
  elapsed,      \* its latest reading of the campaign clock
  records,      \* the unit executions it has appended so far
  issued,       \* plans whose gate holds a nonce nobody has consumed
  exit,         \* its exit code and the summary it printed
  powerLosses,  \* bound counter
  attempts,     \* history: how often each plan was handed to a transport
  sentBy        \* history: by which process

procVars == <<pc, elapsed, records, issued, exit>>
history == <<attempts, sentBy>>
vars == <<fsVars, procVars, powerLosses, history>>

-----------------------------------------------------------------------------
(* Records of what happened to a plan. *)

NotTimed == -1

NonAttemptStages ==
  {"campaign_deadline_preflight", "campaign_deadline_post_authorization",
   "egress_authorization", "credential_availability", "budget_reservation"}

DeadlineStages ==
  {"campaign_deadline_preflight", "campaign_deadline_post_authorization"}

\* outcomes and stages are enumerations of their own in the code
ASSUME DetailAssumption == Outcome \cap NonAttemptStages = {}

Record ==
  [disposition : {"attempted", "skipped_budget", "not_run"},
   detail : Outcome \cup NonAttemptStages,
   elapsed : Nat \cup {NotTimed}]

\* mutant: a failed transport is recorded as if nothing had been sent
Attempted_OnlyValid(o) ==
  [disposition |-> IF o = ValidShape THEN "attempted" ELSE "not_run",
   detail |-> o, elapsed |-> NotTimed]

Attempted(o) ==
  [disposition |-> "attempted", detail |-> o, elapsed |-> NotTimed]

SkippedBudget ==
  [disposition |-> "skipped_budget", detail |-> "budget_reservation", elapsed |-> NotTimed]

NotRun(stage) ==
  [disposition |-> "not_run", detail |-> stage, elapsed |-> NotTimed]

PastDeadline(stage, e) ==
  [disposition |-> "not_run", detail |-> stage, elapsed |-> e]

\* The verifier's view of one record: an attempt needs a plan that fits the
\* cap at all, a deadline record must prove that the time was too short.
RecordVerifies(q, r) ==
  /\ r.disposition = "attempted" => Timeout[q] <= Cap
  /\ r.detail \in DeadlineStages => r.elapsed + Timeout[q] > Cap

ResultVerifies(rs) ==
  /\ Len(rs) = NPlans
  /\ \A q \in Plan : RecordVerifies(q, rs[q])

AttemptedCount(rs) == Cardinality({q \in Plan : rs[q].disposition = "attempted"})
ValidCount(rs) ==
  Cardinality({q \in Plan : rs[q].disposition = "attempted" /\ rs[q].detail = ValidShape})

\* network_attempted of a run that produced an execution result
NetworkAttempted(p) ==
  IF AttemptedCount(records[p]) = 0 THEN "false"
  ELSE IF p \in Live THEN "true" ELSE "null"

-----------------------------------------------------------------------------
(* Process states. *)

Working ==
  {"preflight", "transport", "deadline", "egress", "credential", "open_state",
   "sync_parent", "create_marker", "write_marker", "sync_marker_dir", "recheck",
   "dispatch", "sending", "verify", "open_result", "sync_result_parent",
   "create_temp", "fill_temp", "link", "unlink", "sync_result_dir", "report"}

PC == Working \cup {"idle", "exited", "crashed"}

Running == [code |-> -1, network |-> "null", why |-> "running"]
ExitStatus ==
  [code : {-1, 0, 2, 3}, network : {"true", "false", "null"},
   why : {"running", "campaign_plan_already_reserved", "unsafe_state_directory",
          "campaign_runtime_error", "campaign_runtime_or_integrity_invalid",
          "campaign_result_persistence_failed", "completed"}]

\* the plan a process works on: the loop appends one record per plan
Unit(p) == Len(records[p]) + 1

Goto(p, label) == pc' = [pc EXCEPT ![p] = label]

Exit(p, code, network, why) ==
  /\ Goto(p, "exited")
  /\ exit' = [exit EXCEPT ![p] = [code |-> code, network |-> network, why |-> why]]

\* append the record of the current plan, go to the next plan or to the end
Conclude(p, record) ==
  /\ records' = [records EXCEPT ![p] = Append(@, record)]
  /\ Goto(p, IF Unit(p) = NPlans THEN "verify" ELSE "deadline")

FilesOK ==
  /\ dir \in EntryState
  /\ marker \in [Plan -> EntryState]
  /\ temps \subseteq [name : Seq(Record), owner : Proc, whole : BOOLEAN]
  /\ artifacts \subseteq
       [name : Seq(Record), owner : Proc, whole : BOOLEAN, durable : BOOLEAN]

ProcessesOK ==
  /\ pc \in [Proc -> PC]
  /\ elapsed \in [Proc -> Nat]
  /\ records \in [Proc -> Seq(Record)]
  /\ issued \in [Proc -> SUBSET Plan]
  /\ exit \in [Proc -> ExitStatus]

HistoryOK ==
  /\ powerLosses \in Nat
  /\ attempts \in [Plan -> Nat]
  /\ sentBy \in [Proc -> SUBSET Plan]

\* the type invariant
TypeOK == FilesOK /\ ProcessesOK /\ HistoryOK

Init ==
  /\ FsInit
  /\ pc = [p \in Proc |-> "idle"]
  /\ elapsed = [p \in Proc |-> 0]
  /\ records = [p \in Proc |-> <<>>]
  /\ issued = [p \in Proc |-> {}]
  /\ exit = [p \in Proc |-> Running]
  /\ powerLosses = 0
  /\ attempts = [q \in Plan |-> 0]
  /\ sentBy = [p \in Proc |-> {}]

-----------------------------------------------------------------------------
(* Before the first plan. *)

Start(p) ==
  /\ pc[p] = "idle"
  /\ Goto(p, "preflight")
  /\ UNCHANGED <<fsVars, elapsed, records, issued, exit, powerLosses, history>>

\* Markers are only ever added while a process lives, so the scan of one
\* stat() per marker decides as if it looked at all of them at once.
Preflight(p) ==
  /\ pc[p] = "preflight"
  /\ \/ /\ \E q \in Plan : Reserved(q)
        /\ Exit(p, 2, "false", "campaign_plan_already_reserved")
     \/ /\ IOFails
        /\ Exit(p, 2, "false", "unsafe_state_directory")
     \/ /\ \A q \in Plan : ~Reserved(q)
        /\ Goto(p, "transport")
        /\ UNCHANGED exit
  /\ UNCHANGED <<fsVars, elapsed, records, issued, powerLosses, history>>

\* only a live run checks for an event loop and for httpx
PreflightTransport(p) ==
  /\ pc[p] = "transport"
  /\ \/ /\ Goto(p, "deadline")
        /\ UNCHANGED exit
     \/ /\ p \in Live
        /\ Exit(p, 3, "null", "campaign_runtime_error")
  /\ UNCHANGED <<fsVars, elapsed, records, issued, powerLosses, history>>

-----------------------------------------------------------------------------
(* One plan: admission. *)

\* a reading of the monotonic clock
Observe(p, e) ==
  /\ e \in elapsed[p]..MaxElapsed
  /\ elapsed' = [elapsed EXCEPT ![p] = e]

TooLate(q, e) == Cap - e < Timeout[q]

DeadlinePreflight(p) ==
  /\ pc[p] = "deadline"
  /\ \E e \in 0..MaxElapsed :
       /\ Observe(p, e)
       /\ \/ /\ TooLate(Unit(p), e)
             /\ Conclude(p, PastDeadline("campaign_deadline_preflight", e))
          \/ /\ ~TooLate(Unit(p), e)
             /\ Goto(p, "egress")
             /\ UNCHANGED records
  /\ UNCHANGED <<fsVars, issued, exit, powerLosses, history>>

\* The one-shot verifier belongs to this process and this plan, so it is
\* asked once and approves; the default verifier of a gate always denies.
VerifyEgress(p) ==
  /\ pc[p] = "egress"
  /\ \/ /\ Unit(p) \in Denied
        /\ Conclude(p, NotRun("egress_authorization"))
     \/ /\ Unit(p) \notin Denied
        /\ Goto(p, "credential")
        /\ UNCHANGED records
  /\ UNCHANGED <<fsVars, elapsed, issued, exit, powerLosses, history>>

\* the environment of a live run may lose its key between two looks
CheckCredential(p) ==
  /\ pc[p] = "credential"
  /\ \/ /\ Goto(p, "open_state")
        /\ UNCHANGED records
     \/ /\ p \in Live
        /\ Conclude(p, NotRun("credential_availability"))
  /\ UNCHANGED <<fsVars, elapsed, issued, exit, powerLosses, history>>

-----------------------------------------------------------------------------
(* One plan: the reservation marker.  Whatever goes wrong from here to     *)
(* IssueCapability is reported as budget_not_reserved, with a marker left  *)
(* behind or without.                                                      *)

BudgetNotReserved(p) ==
  /\ IOFails
  /\ Conclude(p, SkippedBudget)
  /\ UNCHANGED fsVars

\* open the directory; create it if it is missing (a concurrent creator wins)
OpenStateDirectory(p) ==
  /\ pc[p] = "open_state"
  /\ \/ /\ dir # "absent"
        /\ Goto(p, "create_marker")
        /\ UNCHANGED <<fsVars, records>>
     \/ /\ MakeDirectory
        /\ Goto(p, "sync_parent")
        /\ UNCHANGED records
     \/ BudgetNotReserved(p)
  /\ UNCHANGED <<elapsed, issued, exit, powerLosses, history>>

SyncParentDirectory(p) ==
  /\ pc[p] = "sync_parent"
  /\ \/ /\ SyncParent
        /\ Goto(p, "create_marker")
        /\ UNCHANGED records
     \/ BudgetNotReserved(p)
  /\ UNCHANGED <<elapsed, issued, exit, powerLosses, history>>

\* mutant: an existing marker is waited for instead of reported
CreateMarker_Waits(p) ==
  /\ pc[p] = "create_marker"
  /\ CreateMarkerFile(Unit(p))
  /\ Goto(p, "write_marker")
  /\ UNCHANGED <<records, elapsed, issued, exit, powerLosses, history>>

CreateMarker(p) ==
  /\ pc[p] = "create_marker"
  /\ \/ /\ CreateMarkerFile(Unit(p))
        /\ \/ /\ Goto(p, "write_marker")
              /\ UNCHANGED records
           \/ /\ IOFails      \* fchmod() fails, the file stays
              /\ Conclude(p, SkippedBudget)
     \/ /\ Reserved(Unit(p))
        /\ Conclude(p, SkippedBudget)
        /\ UNCHANGED fsVars
     \/ BudgetNotReserved(p)
  /\ UNCHANGED <<elapsed, issued, exit, powerLosses, history>>

\* write() of the whole marker and fsync() of the file
WriteMarker(p) ==
  /\ pc[p] = "write_marker"
  /\ \/ /\ Goto(p, "sync_marker_dir")
        /\ UNCHANGED <<fsVars, records>>
     \/ BudgetNotReserved(p)
  /\ UNCHANGED <<elapsed, issued, exit, powerLosses, history>>

\* fsync() of the directory, then the gate issues a capability
IssueCapability(p) ==
  /\ pc[p] = "sync_marker_dir"
  /\ \/ /\ SyncDirectory
        /\ issued' = [issued EXCEPT ![p] = @ \cup {Unit(p)}]
        /\ Goto(p, "recheck")
        /\ UNCHANGED records
     \/ /\ BudgetNotReserved(p)
        /\ UNCHANGED issued
  /\ UNCHANGED <<elapsed, exit, powerLosses, history>>

-----------------------------------------------------------------------------
(* One plan: dispatch. *)

SpendCapability(p) == issued' = [issued EXCEPT ![p] = @ \ {Unit(p)}]

\* mutant: no second look at the clock
RecheckDeadline_Trusts(p) ==
  /\ pc[p] = "recheck"
  /\ \E e \in 0..MaxElapsed : Observe(p, e)
  /\ Goto(p, "dispatch")
  /\ UNCHANGED <<fsVars, issued, records, exit, powerLosses, history>>

\* The second look at the clock; a capability that came too late is revoked.
RecheckDeadline(p) ==
  /\ pc[p] = "recheck"
  /\ \E e \in 0..MaxElapsed :
       /\ Observe(p, e)
       /\ \/ /\ TooLate(Unit(p), e)
             /\ SpendCapability(p)
             /\ Conclude(p, PastDeadline("campaign_deadline_post_authorization", e))
          \/ /\ ~TooLate(Unit(p), e)
             /\ Goto(p, "dispatch")
             /\ UNCHANGED <<issued, records>>
  /\ UNCHANGED <<fsVars, exit, powerLosses, history>>

\* dispatch_once(): the nonce goes first, then a live run reads its key
DispatchOnce(p) ==
  /\ pc[p] = "dispatch"
  /\ Unit(p) \in issued[p]
  /\ SpendCapability(p)
  /\ \/ /\ Goto(p, "sending")
        /\ attempts' = [attempts EXCEPT ![Unit(p)] = @ + 1]
        /\ sentBy' = [sentBy EXCEPT ![p] = @ \cup {Unit(p)}]
        /\ UNCHANGED records
     \/ /\ p \in Live
        /\ Conclude(p, NotRun("credential_availability"))
        /\ UNCHANGED history
  /\ UNCHANGED <<fsVars, elapsed, exit, powerLosses>>

\* the transport answers, or fails in a way the runner turns into an outcome
SendReturns(p) ==
  /\ pc[p] = "sending"
  /\ \E o \in Outcome : Conclude(p, Attempted(o))
  /\ UNCHANGED <<fsVars, elapsed, issued, exit, powerLosses, history>>

\* An exception that the runner turns into no outcome, so that execute() passes
\* it on and the records of the whole run are lost.  From the live transport:
\* any that is no DeepSeekHttpTransportError (from an injected one each becomes
\* an outcome).  After the answer, whichever transport gave it: RecursionError,
\* for a completion nested too deep for the decoder of its content.
SendAborts(p) ==
  /\ pc[p] = "sending"
  /\ Exit(p, 3, "null", "campaign_runtime_error")
  /\ UNCHANGED <<fsVars, elapsed, records, issued, powerLosses, history>>

-----------------------------------------------------------------------------
(* After the last plan: the result file. *)

\* execute() verifies what it recorded; main() then builds the summary
VerifyResult(p) ==
  /\ pc[p] = "verify"
  /\ \/ /\ ResultVerifies(records[p])
        /\ Goto(p, "open_result")
        /\ UNCHANGED exit
     \/ /\ ~ResultVerifies(records[p])
        /\ Exit(p, 3, "null", "campaign_runtime_or_integrity_invalid")
  /\ UNCHANGED <<fsVars, elapsed, records, issued, powerLosses, history>>

PersistenceFailed(p) ==
  Exit(p, 3, NetworkAttempted(p), "campaign_result_persistence_failed")

ResultUnchanged == <<elapsed, records, issued, powerLosses, history>>

OpenResultDirectory(p) ==
  /\ pc[p] = "open_result"
  /\ \/ /\ dir # "absent"
        /\ Goto(p, "create_temp")
        /\ UNCHANGED <<fsVars, exit>>
     \/ /\ MakeDirectory
        /\ Goto(p, "sync_result_parent")
        /\ UNCHANGED exit
     \/ /\ IOFails
        /\ PersistenceFailed(p)
        /\ UNCHANGED fsVars
  /\ UNCHANGED ResultUnchanged

SyncResultParent(p) ==
  /\ pc[p] = "sync_result_parent"
  /\ \/ /\ SyncParent
        /\ Goto(p, "create_temp")
        /\ UNCHANGED exit
     \/ /\ IOFails
        /\ PersistenceFailed(p)
        /\ UNCHANGED fsVars
  /\ UNCHANGED ResultUnchanged

\* O_EXCL: a temporary file somebody else owns, or left behind, stays.  The
\* name is the digest of the result; here it is the records, which collide
\* more often than digests that also cover receipts.
CreateTemp(p) ==
  /\ pc[p] = "create_temp"
  /\ \/ /\ CreateTempFile(records[p], p)
        /\ Goto(p, "fill_temp")
        /\ UNCHANGED exit
     \/ /\ TempOf(records[p]) # {} \/ IOFails
        /\ PersistenceFailed(p)
        /\ UNCHANGED fsVars
  /\ UNCHANGED ResultUnchanged

\* the finally clause: best-effort removal of the file this run created
Cleanup(p) ==
  /\ PersistenceFailed(p)
  /\ \/ RemoveTempFile(records[p])
     \/ IOFails /\ UNCHANGED fsVars

FillTemp(p) ==
  /\ pc[p] = "fill_temp"
  /\ \/ /\ FillTempFile(records[p], p)
        /\ Goto(p, "link")
        /\ UNCHANGED exit
     \/ IOFails /\ Cleanup(p)
  /\ UNCHANGED ResultUnchanged

PublishResult(p) ==
  /\ pc[p] = "link"
  /\ \/ /\ LinkArtifact(records[p])
        /\ Goto(p, "unlink")
        /\ UNCHANGED exit
     \/ /\ ArtifactOf(records[p]) # {} \/ IOFails
        /\ Cleanup(p)
  /\ UNCHANGED ResultUnchanged

UnlinkTemp(p) ==
  /\ pc[p] = "unlink"
  /\ \/ /\ RemoveTempFile(records[p])
        /\ Goto(p, "sync_result_dir")
        /\ UNCHANGED exit
     \/ IOFails /\ Cleanup(p)
  /\ UNCHANGED ResultUnchanged

SyncResultDirectory(p) ==
  /\ pc[p] = "sync_result_dir"
  /\ \/ /\ SyncDirectory
        /\ Goto(p, "report")
        /\ UNCHANGED exit
     \/ /\ IOFails
        /\ PersistenceFailed(p)
        /\ UNCHANGED fsVars
  /\ UNCHANGED ResultUnchanged

ExitCode(rs) ==
  IF ValidCount(rs) = NPlans THEN 0 ELSE IF AttemptedCount(rs) > 0 THEN 3 ELSE 2

Report(p) ==
  /\ pc[p] = "report"
  /\ Exit(p, ExitCode(records[p]), NetworkAttempted(p), "completed")
  /\ UNCHANGED <<fsVars, ResultUnchanged>>

-----------------------------------------------------------------------------
(* Failures and the specification. *)

Crash(p) ==
  /\ Crashes
  /\ pc[p] \in Working
  /\ Goto(p, "crashed")
  /\ issued' = [issued EXCEPT ![p] = {}]
  /\ UNCHANGED <<fsVars, elapsed, records, exit, powerLosses, history>>

PowerLoss ==
  /\ powerLosses < MaxPowerLoss
  /\ powerLosses' = powerLosses + 1
  /\ LosePower
  /\ pc' = [p \in Proc |-> IF pc[p] \in Working THEN "crashed" ELSE pc[p]]
  /\ issued' = [p \in Proc |-> IF pc[p] \in Working THEN {} ELSE issued[p]]
  /\ UNCHANGED <<elapsed, records, exit, history>>

\* what a running process does on its own, without waiting for a transport
LocalStep(p) ==
  \/ Preflight(p) \/ PreflightTransport(p)
  \/ DeadlinePreflight(p) \/ VerifyEgress(p) \/ CheckCredential(p)
  \/ OpenStateDirectory(p) \/ SyncParentDirectory(p)
  \/ CreateMarker(p) \/ WriteMarker(p) \/ IssueCapability(p)
  \/ RecheckDeadline(p) \/ DispatchOnce(p)
  \/ VerifyResult(p)
  \/ OpenResultDirectory(p) \/ SyncResultParent(p)
  \/ CreateTemp(p) \/ FillTemp(p) \/ PublishResult(p) \/ UnlinkTemp(p)
  \/ SyncResultDirectory(p) \/ Report(p)

Answer(p) == SendReturns(p) \/ SendAborts(p)

Finished == \A p \in Proc : pc[p] \in {"exited", "crashed"}

Terminating == Finished /\ UNCHANGED vars

Next ==
  \/ \E p \in Proc : Start(p) \/ LocalStep(p) \/ Answer(p) \/ Crash(p)
  \/ PowerLoss
  \/ Terminating

Spec == Init /\ [][Next]_vars

\* A running process keeps running.  The live transport answers within its
\* absolute deadline; an injected transport may block for ever.
Fairness ==
  /\ \A p \in Proc : WF_vars(LocalStep(p))
  /\ \A p \in Live : WF_vars(Answer(p))

FairSpec == Spec /\ Fairness

-----------------------------------------------------------------------------
(* Properties. *)

\* Each plan is handed to a transport at most once, over all processes that
\* ever share the state directory, whatever crashes: "every Plan at most one
\* attempt, no retry" (docs/architecture/data-contracts.md, 11.7).
AtMostOneAttempt == \A q \in Plan : attempts[q] <= 1

\* A plan that was sent has its marker, so that every later run sees it and
\* refuses to start: _validate_state_preflight() and _consume_marker().
SentStaysReserved == \A q \in Plan : attempts[q] > 0 => Reserved(q)

\* What a run says is what it did.  A record says "attempted" exactly when
\* this process handed the plan to a transport: no denial is recorded for a
\* sent plan and no attempt is invented, on any path of execute().  And the
\* printed summary: exit code 2 and network_attempted false are printed only
\* by a run that sent nothing, true only by a live run that did send, and
\* exit code 0 only by a run that sent every plan.
RunsTellTheTruth ==
  \A p \in Proc :
    /\ \A q \in 1..Len(records[p]) :
         records[p][q].disposition = "attempted" <=> q \in sentBy[p]
    /\ pc[p] = "exited" =>
         /\ (exit[p].code = 2 \/ exit[p].network = "false") => sentBy[p] = {}
         /\ exit[p].network = "true" => p \in Live /\ sentBy[p] # {}
         /\ exit[p].code = 0 => sentBy[p] = Plan

\* A published result is complete and unique under its name: a reader never
\* sees half a file, and two runs never share or replace one.  A run that
\* reports success published its own records, a power failure cannot take
\* them back, and no other run sent anything.
ResultsAreWhole ==
  /\ \A a \in artifacts :
       /\ a.whole
       /\ a.name = records[a.owner] /\ Len(a.name) = NPlans
       /\ \A b \in artifacts : b.name = a.name => b = a
  /\ \A p \in Proc : exit[p].code = 0 =>
       /\ [name |-> records[p], owner |-> p, whole |-> TRUE, durable |-> TRUE] \in artifacts
       /\ \A other \in Proc \ {p} : sentBy[other] = {}

\* A plan goes out only if the whole of its timeout still fitted under the
\* campaign cap when the clock was last read, after the slow reservation; and
\* a capability that came too late is revoked, so that a run that ends by
\* itself leaves none in a gate.  What the harness records of this always
\* passes its own verifier: the deadline receipts of both looks at the clock
\* prove that time was short.
LatePlansAreStopped ==
  \A p \in Proc :
    /\ exit[p].why # "campaign_runtime_or_integrity_invalid"
    /\ pc[p] \in {"dispatch", "sending"} => elapsed[p] + Timeout[Unit(p)] <= Cap
    /\ pc[p] = "exited" => issued[p] = {}

\* A live run that starts comes to an end, or is killed: nothing it waits
\* for can be withheld for ever.
LiveRunsEnd ==
  \A p \in Live : pc[p] = "preflight" ~> pc[p] \in {"exited", "crashed"}

\* The markers implement the abstract promise of OneAttempt.
Promise == INSTANCE OneAttempt WITH
  reserved <- {q \in Plan : Reserved(q)},
  attempts <- attempts
ImplementsOneAttempt == Promise!Spec
=============================================================================
