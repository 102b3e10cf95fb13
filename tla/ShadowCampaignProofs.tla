------------------------ MODULE ShadowCampaignProofs ------------------------
(***************************************************************************)
(* What the shadow campaign guarantees for any number of runs, plans and   *)
(* crashes: that the types hold, that each run tells the truth of itself   *)
(* and stops late plans, that a plan is sent at most once, and that a      *)
(* result file is whole.                                                   *)
(***************************************************************************)
EXTENDS ShadowCampaign, FiniteSetTheorems, TLAPS

USE NPlansAssumption, InitialDirAssumption, ProcAssumption, PlanAssumption,
    ClockAssumption, OutcomeAssumption, FaultAssumption

-----------------------------------------------------------------------------
(* The loop over the plans. *)

\* where a process has the plan Unit(p) before it
Unfinished ==
  {"idle", "preflight", "transport", "deadline", "egress", "credential", "open_state",
   "sync_parent", "create_marker", "write_marker", "sync_marker_dir", "recheck",
   "dispatch", "sending"}

\* the loop ends after the last plan
LoopOK == \A p \in Proc : pc[p] \in Unfinished => Len(records[p]) < NPlans

Typed == TypeOK /\ LoopOK

\* Before the end of the loop, the plan a process works on is a plan of the campaign.
LEMMA UnitInPlan ==
  ASSUME Typed, NEW p \in Proc, pc[p] \in Unfinished
  PROVE  Unit(p) \in Plan
BY DEF Typed, LoopOK, TypeOK, ProcessesOK, Unit, Plan

\* Appending a record keeps the types and leaves the loop after the last plan.
LEMMA ConcludeTyped ==
  ASSUME Typed, NEW p \in Proc, pc[p] \in Unfinished, NEW r \in Record, Conclude(p, r)
  PROVE  /\ records' \in [Proc -> Seq(Record)]
         /\ pc' \in [Proc -> PC]
         /\ LoopOK'
<1>1. records' \in [Proc -> Seq(Record)] /\ pc' \in [Proc -> PC]
  BY DEF Typed, TypeOK, ProcessesOK, Conclude, Goto, PC, Working
<1>2. ASSUME NEW o \in Proc, pc'[o] \in Unfinished
      PROVE  Len(records'[o]) < NPlans
  <2>1. CASE o = p
    <3>1. Len(records[p]) \in Nat /\ Len(records[p]) < NPlans
      BY DEF Typed, LoopOK, TypeOK, ProcessesOK
    <3>2. Unit(p) # NPlans
      BY <1>2, <2>1 DEF Conclude, Goto, Unfinished, Typed, TypeOK, ProcessesOK
    <3>3. Len(records'[p]) = Len(records[p]) + 1
      BY DEF Conclude, Typed, TypeOK, ProcessesOK
    <3> QED BY <2>1, <3>1, <3>2, <3>3 DEF Unit
  <2>2. CASE o # p
    BY <1>2, <2>2 DEF Conclude, Goto, Typed, LoopOK
  <2> QED BY <2>1, <2>2
<1> QED BY <1>1, <1>2 DEF LoopOK

\* The records a process can append.
LEMMA RecordTypes ==
  /\ \A o \in Outcome : Attempted(o) \in Record
  /\ SkippedBudget \in Record
  /\ \A stage \in NonAttemptStages :
       NotRun(stage) \in Record /\ \A e \in Nat : PastDeadline(stage, e) \in Record
BY DEF Attempted, SkippedBudget, NotRun, PastDeadline, Record, NotTimed, NonAttemptStages

Temp == [name : Seq(Record), owner : Proc, whole : BOOLEAN]
Artifact == [name : Seq(Record), owner : Proc, whole : BOOLEAN, durable : BOOLEAN]

\* What one step can do to the state directory.
FileStep ==
  \/ MakeDirectory \/ SyncParent \/ SyncDirectory \/ LosePower
  \/ \E q \in Plan : CreateMarkerFile(q)
  \/ \E p \in Proc, name \in Seq(Record) :
       \/ CreateTempFile(name, p) \/ FillTempFile(name, p)
       \/ LinkArtifact(name) \/ RemoveTempFile(name)
  \/ UNCHANGED fsVars

\* The operations on the state directory keep the types of what is in it.
LEMMA FilesTyped ==
  ASSUME FilesOK, FileStep
  PROVE  FilesOK'
<1> USE DEF FileStep
<1>1. CASE MakeDirectory \/ SyncParent \/ UNCHANGED fsVars
  BY <1>1 DEF MakeDirectory, SyncParent, fsVars, FilesOK, EntryState
<1>2. CASE SyncDirectory
  <2>1. marker' \in [Plan -> EntryState]
    BY <1>2 DEF SyncDirectory, Secured, EntryState
  <2>2. ASSUME NEW a \in artifacts
        PROVE  [a EXCEPT !.durable = TRUE] \in Artifact
    BY DEF FilesOK, Artifact
  <2>3. artifacts' \subseteq Artifact
    BY <1>2, <2>2 DEF SyncDirectory
  <2> QED BY <1>2, <2>1, <2>3 DEF SyncDirectory, FilesOK, Artifact
<1>3. CASE \E q \in Plan : CreateMarkerFile(q)
  BY <1>3 DEF CreateMarkerFile, FilesOK, EntryState
<1>4. ASSUME NEW p \in Proc, NEW name \in Seq(Record),
             \/ CreateTempFile(name, p) \/ FillTempFile(name, p)
             \/ LinkArtifact(name) \/ RemoveTempFile(name)
      PROVE  FilesOK'
  <2>1. CASE CreateTempFile(name, p)
    <3>1. [name |-> name, owner |-> p, whole |-> FALSE] \in Temp
      BY <1>4 DEF Temp
    <3> QED BY <2>1, <3>1 DEF CreateTempFile, FilesOK, Temp
  <2>2. CASE FillTempFile(name, p)
    <3>1. ASSUME NEW t \in temps
          PROVE  [t EXCEPT !.whole = TRUE] \in Temp
      BY DEF FilesOK, Temp
    <3>2. temps' \subseteq Temp
      BY <2>2, <3>1 DEF FillTempFile, FilesOK, Temp
    <3> QED BY <2>2, <3>2 DEF FillTempFile, FilesOK, Temp
  <2>3. CASE LinkArtifact(name)
    <3>1. ASSUME NEW t \in TempOf(name)
          PROVE  [name |-> t.name, owner |-> t.owner, whole |-> t.whole, durable |-> FALSE]
                   \in Artifact
      BY DEF TempOf, FilesOK, Artifact
    <3>2. artifacts' \subseteq Artifact
      BY <2>3, <3>1 DEF LinkArtifact, FilesOK, Artifact
    <3> QED BY <2>3, <3>2 DEF LinkArtifact, FilesOK, Artifact
  <2>4. CASE RemoveTempFile(name)
    BY <2>4 DEF RemoveTempFile, FilesOK
  <2> QED BY <1>4, <2>1, <2>2, <2>3, <2>4
<1>5. CASE LosePower
  <2>1. dir' \in EntryState /\ marker' \in [Plan -> EntryState] /\ temps' \subseteq temps
    BY <1>5 DEF LosePower, Secured, FilesOK, EntryState
  <2>2. ASSUME NEW a \in artifacts
        PROVE  [a EXCEPT !.durable = TRUE] \in Artifact
    BY DEF FilesOK, Artifact
  <2>3. artifacts' \subseteq Artifact
    BY <1>5, <2>2 DEF LosePower
  <2> QED BY <2>1, <2>3 DEF FilesOK, Artifact
<1> QED BY <1>1, <1>2, <1>3, <1>4, <1>5

\* What a run can print.
Networks == {"true", "false", "null"}
Reasons ==
  {"campaign_plan_already_reserved", "unsafe_state_directory", "campaign_runtime_error",
   "campaign_runtime_or_integrity_invalid", "campaign_result_persistence_failed",
   "completed"}

\* What one step can do to the control of a process.
Moves(p) ==
  /\ \E label \in PC :
       Goto(p, label) /\ (label \in Unfinished => pc[p] \in Unfinished)
  /\ UNCHANGED <<records, exit>>

Concludes(p) ==
  /\ pc[p] \in Unfinished
  /\ \E r \in Record : Conclude(p, r)
  /\ UNCHANGED exit

Exits(p) ==
  /\ \E code \in {0, 2, 3}, network \in Networks, why \in Reasons :
       Exit(p, code, network, why)
  /\ UNCHANGED records

ControlStep(p) == Moves(p) \/ Concludes(p) \/ Exits(p)

\* Whatever it does, the types and the bound of the loop stay.
LEMMA ControlTyped ==
  ASSUME Typed, NEW p \in Proc, ControlStep(p)
  PROVE  /\ pc' \in [Proc -> PC]
         /\ records' \in [Proc -> Seq(Record)]
         /\ exit' \in [Proc -> ExitStatus]
         /\ LoopOK'
<1>1. CASE Moves(p)
  BY <1>1 DEF Moves, Goto, Typed, TypeOK, ProcessesOK, LoopOK
<1>2. CASE Concludes(p)
  BY <1>2, ConcludeTyped DEF Concludes, Typed, TypeOK, ProcessesOK
<1>3. CASE Exits(p)
  <2>1. PICK code \in {0, 2, 3}, network \in Networks, why \in Reasons :
          Exit(p, code, network, why)
    BY <1>3 DEF Exits
  <2>2. [code |-> code, network |-> network, why |-> why] \in ExitStatus
    BY DEF ExitStatus, Networks, Reasons
  <2>3. exit' \in [Proc -> ExitStatus]
    BY <2>1, <2>2 DEF Exit, Typed, TypeOK, ProcessesOK
  <2>4. pc' = [pc EXCEPT ![p] = "exited"] /\ records' = records
    BY <1>3, <2>1 DEF Exit, Goto, Exits
  <2> QED BY <2>3, <2>4 DEF Typed, TypeOK, ProcessesOK, LoopOK, PC, Unfinished
<1> QED BY <1>1, <1>2, <1>3 DEF ControlStep

\* The summary of a finished run is well formed.
LEMMA SummaryTyped ==
  ASSUME NEW p \in Proc
  PROVE  NetworkAttempted(p) \in Networks /\ ExitCode(records[p]) \in {0, 2, 3}
BY DEF NetworkAttempted, Networks, ExitCode

\* What one step of one process adds up to.
LEMMA ProcessStepTyped ==
  ASSUME Typed, NEW p \in Proc, ControlStep(p), FileStep,
         elapsed' \in [Proc -> Nat], issued' \in [Proc -> SUBSET Plan], HistoryOK'
  PROVE  Typed'
<1>1. FilesOK'
  BY FilesTyped DEF Typed, TypeOK
<1>2. ProcessesOK' /\ LoopOK'
  BY ControlTyped DEF ProcessesOK
<1> QED BY <1>1, <1>2 DEF Typed, TypeOK

\* What a step leaves alone keeps its type.
LEMMA UntouchedTyped ==
  ASSUME Typed
  PROVE  /\ UNCHANGED elapsed => elapsed' \in [Proc -> Nat]
         /\ UNCHANGED issued => issued' \in [Proc -> SUBSET Plan]
         /\ UNCHANGED <<powerLosses, history>> => HistoryOK'
         /\ UNCHANGED fsVars => FileStep
BY DEF Typed, TypeOK, ProcessesOK, HistoryOK, history, FileStep

\* Reading the clock and spending a capability keep the types.
LEMMA ClockAndGateTyped ==
  ASSUME Typed, NEW p \in Proc
  PROVE  /\ \A e \in Nat : Observe(p, e) => elapsed' \in [Proc -> Nat]
         /\ SpendCapability(p) => issued' \in [Proc -> SUBSET Plan]
BY DEF Typed, TypeOK, ProcessesOK, Observe, SpendCapability

\* Every step of a process is one of these.
LEMMA StepControl ==
  ASSUME Typed, NEW p \in Proc, Start(p) \/ LocalStep(p) \/ Answer(p) \/ Crash(p)
  PROVE  ControlStep(p)
<1> USE RecordTypes, SummaryTyped
    DEF ControlStep, Moves, Concludes, Exits, Unfinished, PC, Working, NonAttemptStages,
        Networks, Reasons
<1> records[p] \in Seq(Record)
  BY DEF Typed, TypeOK, ProcessesOK
<1>1. CASE Start(p)
  BY <1>1 DEF Start
<1>2. CASE Preflight(p)
  BY <1>2 DEF Preflight
<1>3. CASE PreflightTransport(p)
  BY <1>3 DEF PreflightTransport
<1>4. CASE DeadlinePreflight(p)
  BY <1>4 DEF DeadlinePreflight
<1>5. CASE VerifyEgress(p)
  BY <1>5 DEF VerifyEgress
<1>6. CASE CheckCredential(p)
  BY <1>6 DEF CheckCredential
<1>7. CASE OpenStateDirectory(p)
  BY <1>7 DEF OpenStateDirectory, BudgetNotReserved
<1>8. CASE SyncParentDirectory(p)
  BY <1>8 DEF SyncParentDirectory, BudgetNotReserved
<1>9. CASE CreateMarker(p)
  BY <1>9 DEF CreateMarker, BudgetNotReserved
<1>10. CASE WriteMarker(p)
  BY <1>10 DEF WriteMarker, BudgetNotReserved
<1>11. CASE IssueCapability(p)
  BY <1>11 DEF IssueCapability, BudgetNotReserved
<1>12. CASE RecheckDeadline(p)
  BY <1>12 DEF RecheckDeadline
<1>13. CASE DispatchOnce(p)
  BY <1>13 DEF DispatchOnce
<1>14. CASE SendReturns(p)
  BY <1>14 DEF SendReturns
<1>15. CASE SendAborts(p)
  BY <1>15 DEF SendAborts
<1>16. CASE VerifyResult(p)
  BY <1>16 DEF VerifyResult
<1>17. CASE OpenResultDirectory(p)
  BY <1>17 DEF OpenResultDirectory, PersistenceFailed, ResultUnchanged
<1>18. CASE SyncResultParent(p)
  BY <1>18 DEF SyncResultParent, PersistenceFailed, ResultUnchanged
<1>19. CASE CreateTemp(p)
  BY <1>19 DEF CreateTemp, PersistenceFailed, ResultUnchanged
<1>20. CASE FillTemp(p)
  BY <1>20 DEF FillTemp, Cleanup, PersistenceFailed, ResultUnchanged
<1>21. CASE PublishResult(p)
  BY <1>21 DEF PublishResult, Cleanup, PersistenceFailed, ResultUnchanged
<1>22. CASE UnlinkTemp(p)
  BY <1>22 DEF UnlinkTemp, Cleanup, PersistenceFailed, ResultUnchanged
<1>23. CASE SyncResultDirectory(p)
  BY <1>23 DEF SyncResultDirectory, PersistenceFailed, ResultUnchanged
<1>24. CASE Report(p)
  BY <1>24 DEF Report, ResultUnchanged
<1>25. CASE Crash(p)
  BY <1>25 DEF Crash
<1> QED BY <1>1, <1>2, <1>3, <1>4, <1>5, <1>6, <1>7, <1>8, <1>9, <1>10, <1>11, <1>12,
           <1>13, <1>14, <1>15, <1>16, <1>17, <1>18, <1>19, <1>20, <1>21, <1>22, <1>23, <1>24,
           <1>25 DEF LocalStep, Answer

\* Before the loop, and in it while nothing is reserved.
LEMMA AdmissionTyped ==
  ASSUME Typed, NEW p \in Proc,
         \/ Start(p) \/ Preflight(p) \/ PreflightTransport(p)
         \/ DeadlinePreflight(p) \/ VerifyEgress(p) \/ CheckCredential(p)
  PROVE  Typed'
<1> USE UntouchedTyped
<1>0. ControlStep(p)
  BY StepControl DEF LocalStep, Answer
<1>1. CASE Start(p)
  BY <1>1, <1>0, ProcessStepTyped DEF Start
<1>2. CASE Preflight(p)
  BY <1>2, <1>0, ProcessStepTyped DEF Preflight
<1>3. CASE PreflightTransport(p)
  BY <1>3, <1>0, ProcessStepTyped DEF PreflightTransport
<1>4. CASE DeadlinePreflight(p)
  <2>1. elapsed' \in [Proc -> Nat]
    BY <1>4, ClockAndGateTyped DEF DeadlinePreflight
  <2> QED BY <1>4, <1>0, <2>1, ProcessStepTyped DEF DeadlinePreflight
<1>5. CASE VerifyEgress(p)
  BY <1>5, <1>0, ProcessStepTyped DEF VerifyEgress
<1>6. CASE CheckCredential(p)
  BY <1>6, <1>0, ProcessStepTyped DEF CheckCredential
<1> QED BY <1>1, <1>2, <1>3, <1>4, <1>5, <1>6

\* The reservation of a plan.
LEMMA ReservationTyped ==
  ASSUME Typed, NEW p \in Proc,
         \/ OpenStateDirectory(p) \/ SyncParentDirectory(p)
         \/ CreateMarker(p) \/ WriteMarker(p) \/ IssueCapability(p)
  PROVE  Typed'
<1> USE UntouchedTyped
<1>0. ControlStep(p)
  BY StepControl DEF LocalStep, Answer
<1>1. CASE OpenStateDirectory(p)
  <2>1. FileStep
    BY <1>1 DEF OpenStateDirectory, BudgetNotReserved, FileStep
  <2> QED BY <1>1, <1>0, <2>1, ProcessStepTyped DEF OpenStateDirectory
<1>2. CASE SyncParentDirectory(p)
  <2>1. FileStep
    BY <1>2 DEF SyncParentDirectory, BudgetNotReserved, FileStep
  <2> QED BY <1>2, <1>0, <2>1, ProcessStepTyped DEF SyncParentDirectory
<1>3. CASE CreateMarker(p)
  <2>1. FileStep
    <3>1. Unit(p) \in Plan
      BY <1>3, UnitInPlan DEF CreateMarker, Unfinished
    <3> QED BY <1>3, <3>1 DEF CreateMarker, BudgetNotReserved, FileStep
  <2> QED BY <1>3, <1>0, <2>1, ProcessStepTyped DEF CreateMarker
<1>4. CASE WriteMarker(p)
  <2>1. FileStep
    BY <1>4 DEF WriteMarker, BudgetNotReserved, FileStep
  <2> QED BY <1>4, <1>0, <2>1, ProcessStepTyped DEF WriteMarker
<1>5. CASE IssueCapability(p)
  <2>1. FileStep
    BY <1>5 DEF IssueCapability, BudgetNotReserved, FileStep
  <2>2. issued' \in [Proc -> SUBSET Plan]
    <3>1. Unit(p) \in Plan
      BY <1>5, UnitInPlan DEF IssueCapability, Unfinished
    <3> QED BY <1>5, <3>1 DEF IssueCapability, Typed, TypeOK, ProcessesOK
  <2> QED BY <1>5, <1>0, <2>1, <2>2, ProcessStepTyped DEF IssueCapability
<1> QED BY <1>1, <1>2, <1>3, <1>4, <1>5

\* The dispatch of a plan.
LEMMA DispatchTyped ==
  ASSUME Typed, NEW p \in Proc,
         \/ RecheckDeadline(p) \/ DispatchOnce(p) \/ SendReturns(p) \/ SendAborts(p)
  PROVE  Typed'
<1> USE UntouchedTyped
<1>0. ControlStep(p)
  BY StepControl DEF LocalStep, Answer
<1>1. CASE RecheckDeadline(p)
  <2>1. elapsed' \in [Proc -> Nat] /\ issued' \in [Proc -> SUBSET Plan]
    BY <1>1, ClockAndGateTyped DEF RecheckDeadline
  <2> QED BY <1>1, <1>0, <2>1, ProcessStepTyped DEF RecheckDeadline
<1>2. CASE DispatchOnce(p)
  <2>1. HistoryOK'
    <3>1. Unit(p) \in Plan
      BY <1>2, UnitInPlan DEF DispatchOnce, Unfinished
    <3> QED BY <1>2, <3>1 DEF DispatchOnce, Typed, TypeOK, HistoryOK, history
  <2> QED BY <1>2, <1>0, <2>1, ClockAndGateTyped, ProcessStepTyped DEF DispatchOnce
<1>3. CASE SendReturns(p)
  BY <1>3, <1>0, ProcessStepTyped DEF SendReturns
<1>4. CASE SendAborts(p)
  BY <1>4, <1>0, ProcessStepTyped DEF SendAborts
<1> QED BY <1>1, <1>2, <1>3, <1>4

\* The result file: nothing but control and files moves.
LEMMA PublicationTyped ==
  ASSUME Typed, NEW p \in Proc,
         \/ VerifyResult(p) \/ OpenResultDirectory(p) \/ SyncResultParent(p)
         \/ CreateTemp(p) \/ FillTemp(p) \/ PublishResult(p) \/ UnlinkTemp(p)
         \/ SyncResultDirectory(p) \/ Report(p)
  PROVE  Typed'
<1> USE UntouchedTyped, SummaryTyped
<1>0. ControlStep(p)
  BY StepControl DEF LocalStep, Answer
<1> records[p] \in Seq(Record)
  BY DEF Typed, TypeOK, ProcessesOK
<1>1. CASE VerifyResult(p)
  BY <1>1, <1>0, ProcessStepTyped DEF VerifyResult
<1>2. CASE OpenResultDirectory(p)
  <2>1. FileStep
    BY <1>2 DEF OpenResultDirectory, FileStep
  <2> QED BY <1>2, <1>0, <2>1, ProcessStepTyped DEF OpenResultDirectory, ResultUnchanged
<1>3. CASE SyncResultParent(p)
  <2>1. FileStep
    BY <1>3 DEF SyncResultParent, FileStep
  <2> QED BY <1>3, <1>0, <2>1, ProcessStepTyped DEF SyncResultParent, ResultUnchanged
<1>4. CASE CreateTemp(p)
  <2>1. FileStep
    BY <1>4 DEF CreateTemp, FileStep
  <2> QED BY <1>4, <1>0, <2>1, ProcessStepTyped DEF CreateTemp, ResultUnchanged
<1>5. CASE FillTemp(p)
  <2>1. FileStep
    BY <1>5 DEF FillTemp, Cleanup, FileStep
  <2> QED BY <1>5, <1>0, <2>1, ProcessStepTyped DEF FillTemp, ResultUnchanged
<1>6. CASE PublishResult(p)
  <2>1. FileStep
    BY <1>6 DEF PublishResult, Cleanup, FileStep
  <2> QED BY <1>6, <1>0, <2>1, ProcessStepTyped DEF PublishResult, ResultUnchanged
<1>7. CASE UnlinkTemp(p)
  <2>1. FileStep
    BY <1>7 DEF UnlinkTemp, Cleanup, FileStep
  <2> QED BY <1>7, <1>0, <2>1, ProcessStepTyped DEF UnlinkTemp, ResultUnchanged
<1>8. CASE SyncResultDirectory(p)
  <2>1. FileStep
    BY <1>8 DEF SyncResultDirectory, FileStep
  <2> QED BY <1>8, <1>0, <2>1, ProcessStepTyped DEF SyncResultDirectory, ResultUnchanged
<1>9. CASE Report(p)
  BY <1>9, <1>0, ProcessStepTyped DEF Report, ResultUnchanged
<1> QED BY <1>1, <1>2, <1>3, <1>4, <1>5, <1>6, <1>7, <1>8, <1>9

\* Failures.
LEMMA FailureTyped ==
  ASSUME Typed, PowerLoss \/ \E p \in Proc : Crash(p)
  PROVE  Typed'
<1>1. ASSUME NEW p \in Proc, Crash(p)
      PROVE  Typed'
  <2>1. issued' \in [Proc -> SUBSET Plan]
    BY <1>1 DEF Crash, Typed, TypeOK, ProcessesOK
  <2> QED BY <1>1, StepControl, <2>1, UntouchedTyped, ProcessStepTyped DEF Crash
<1>2. CASE PowerLoss
  <2>1. FilesOK'
    BY <1>2, FilesTyped DEF PowerLoss, FileStep, Typed, TypeOK
  <2>2. ProcessesOK' /\ LoopOK'
    BY <1>2 DEF PowerLoss, Typed, TypeOK, ProcessesOK, LoopOK, PC, Unfinished
  <2>3. HistoryOK'
    BY <1>2 DEF PowerLoss, Typed, TypeOK, HistoryOK, history
  <2> QED BY <2>1, <2>2, <2>3 DEF Typed, TypeOK
<1> QED BY <1>1, <1>2

\* The types and the bound of the loop are inductive.
LEMMA StepTyped == Typed /\ [Next]_vars => Typed'
<1> SUFFICES ASSUME Typed, [Next]_vars PROVE Typed'
  OBVIOUS
<1>1. CASE UNCHANGED vars
  BY <1>1 DEF vars, fsVars, procVars, history, Typed, TypeOK, FilesOK, ProcessesOK,
              HistoryOK, LoopOK
<1>2. CASE \E p \in Proc : Start(p) \/ LocalStep(p) \/ Answer(p)
  BY <1>2, AdmissionTyped, ReservationTyped, DispatchTyped, PublicationTyped
     DEF LocalStep, Answer
<1>3. CASE PowerLoss \/ \E p \in Proc : Crash(p)
  BY <1>3, FailureTyped
<1> QED BY <1>1, <1>2, <1>3 DEF Next, Terminating

\* The types hold at first.
LEMMA InitTyped == Init => Typed
<1> SUFFICES ASSUME Init PROVE Typed
  OBVIOUS
<1>1. FilesOK
  BY DEF Init, FsInit, FilesOK, EntryState
<1>2. ProcessesOK
  BY DEF Init, ProcessesOK, PC, ExitStatus, Running
<1>3. HistoryOK
  BY DEF Init, HistoryOK
<1>4. LoopOK
  BY DEF Init, LoopOK
<1> QED BY <1>1, <1>2, <1>3, <1>4 DEF Typed, TypeOK

\* Every state has the types of TypeOK, and no process ever works on a plan
\* past the last one: the loop of execute() ends.
THEOREM Typing == Spec => [](TypeOK /\ LoopOK)
<1>1. Spec => []Typed
  BY InitTyped, StepTyped, PTL DEF Spec
<1> QED BY <1>1, PTL DEF Typed

-----------------------------------------------------------------------------
(* What a run says of itself.                                              *)

\* where a process has worked through all plans
Concluded ==
  {"verify", "open_result", "sync_result_parent", "create_temp", "fill_temp", "link",
   "unlink", "sync_result_dir", "report"}

\* the plans a process has a record of
Recorded(p) == 1..Len(records[p])

Covers(p) ==
  /\ pc[p] \in {"idle", "preflight", "transport"} => records[p] = <<>>
  /\ pc[p] \in Concluded => Len(records[p]) = NPlans

\* records say "attempted" of what was sent, and pass the verifier
Recounts(p) ==
  /\ \A q \in Recorded(p) :
       /\ records[p][q].disposition = "attempted" <=> q \in sentBy[p]
       /\ RecordVerifies(q, records[p][q])
  /\ pc[p] \in Unfinished \cup Concluded =>
       sentBy[p] \ Recorded(p) = IF pc[p] = "sending" THEN {Unit(p)} ELSE {}

\* a capability lives from its reservation to its dispatch, in time
InTime(p) ==
  /\ issued[p] = IF pc[p] \in {"recheck", "dispatch"} THEN {Unit(p)} ELSE {}
  /\ pc[p] \in {"dispatch", "sending"} => elapsed[p] + Timeout[Unit(p)] <= Cap

\* the summary is printed at the end, and is true
Truthful(p, code, network, why) ==
  /\ code = 2 \/ network = "false" => sentBy[p] = {}
  /\ network = "true" => p \in Live /\ sentBy[p] # {}
  /\ code = 0 => sentBy[p] = Plan
  /\ why # "campaign_runtime_or_integrity_invalid"

Reports(p) ==
  IF pc[p] = "exited"
  THEN exit[p].code # -1 /\ Truthful(p, exit[p].code, exit[p].network, exit[p].why)
  ELSE exit[p] = Running

RunOK(p) == Covers(p) /\ Recounts(p) /\ InTime(p) /\ Reports(p)

RunInv == Typed /\ \A p \in Proc : RunOK(p)

StepOf(p) == Start(p) \/ LocalStep(p) \/ Answer(p) \/ Crash(p)

Untouched(o) ==
  UNCHANGED <<pc[o], records[o], elapsed[o], issued[o], exit[o], sentBy[o]>>

\* A process steps on its own.
LEMMA OthersUntouched ==
  ASSUME Typed, NEW p \in Proc, StepOf(p)
  PROVE  \A o \in Proc \ {p} : Untouched(o)
<1>1. ControlStep(p)
  BY StepControl DEF StepOf
<1>2. \A o \in Proc \ {p} : pc'[o] = pc[o] /\ records'[o] = records[o] /\ exit'[o] = exit[o]
  BY <1>1 DEF ControlStep, Moves, Concludes, Exits, Conclude, Exit, Goto, Typed, TypeOK, ProcessesOK
<1>3. \A o \in Proc \ {p} : elapsed'[o] = elapsed[o]
  <2>1. UNCHANGED elapsed \/ \E e \in 0..MaxElapsed : Observe(p, e)
    BY DEF StepOf, LocalStep, Answer, Start, Preflight, PreflightTransport, DeadlinePreflight,
           VerifyEgress, CheckCredential, OpenStateDirectory, SyncParentDirectory, CreateMarker,
           WriteMarker, IssueCapability, RecheckDeadline, DispatchOnce, SendReturns, SendAborts,
           VerifyResult, OpenResultDirectory, SyncResultParent, CreateTemp, FillTemp,
           PublishResult, UnlinkTemp, SyncResultDirectory, Report, ResultUnchanged, Crash
  <2>2. QED  BY <2>1 DEF Observe, Typed, TypeOK, ProcessesOK
<1>4. \A o \in Proc \ {p} : issued'[o] = issued[o]
  <2>1. \/ UNCHANGED issued \/ SpendCapability(p) \/ issued' = [issued EXCEPT ![p] = {}]
        \/ issued' = [issued EXCEPT ![p] = @ \cup {Unit(p)}]
    BY DEF StepOf, LocalStep, Answer, Start, Preflight, PreflightTransport, DeadlinePreflight,
           VerifyEgress, CheckCredential, OpenStateDirectory, SyncParentDirectory, CreateMarker,
           WriteMarker, IssueCapability, RecheckDeadline, DispatchOnce, SendReturns, SendAborts,
           VerifyResult, OpenResultDirectory, SyncResultParent, CreateTemp, FillTemp,
           PublishResult, UnlinkTemp, SyncResultDirectory, Report, ResultUnchanged, Crash
  <2>2. QED  BY <2>1 DEF SpendCapability, Typed, TypeOK, ProcessesOK
<1>5. \A o \in Proc \ {p} : sentBy'[o] = sentBy[o]
  <2>1. UNCHANGED sentBy \/ sentBy' = [sentBy EXCEPT ![p] = @ \cup {Unit(p)}]
    BY DEF StepOf, LocalStep, Answer, Start, Preflight, PreflightTransport, DeadlinePreflight,
           VerifyEgress, CheckCredential, OpenStateDirectory, SyncParentDirectory, CreateMarker,
           WriteMarker, IssueCapability, RecheckDeadline, DispatchOnce, SendReturns, SendAborts,
           VerifyResult, OpenResultDirectory, SyncResultParent, CreateTemp, FillTemp,
           PublishResult, UnlinkTemp, SyncResultDirectory, Report, ResultUnchanged, Crash, history
  <2>2. QED  BY <2>1 DEF Typed, TypeOK, HistoryOK
<1>6. QED  BY <1>2, <1>3, <1>4, <1>5 DEF Untouched

\* What nobody touched stays true.
LEMMA UntouchedKeeps ==
  ASSUME NEW o, RunOK(o), Untouched(o)
  PROVE  RunOK(o)'
BY DEF RunOK, Untouched, Covers, Recounts, Recorded, InTime, Reports, Truthful, Unit

\* before the reservation is complete, and after an unspent one
Unissued == Unfinished \ {"recheck", "dispatch", "sending"}
Fresh == {"idle", "preflight", "transport"}

\* On the way to the reservation, or past a plan.
LEMMA Advancing ==
  ASSUME Typed, NEW p \in Proc, RunOK(p), pc[p] \in Unissued,
         NEW label \in Unissued, label \in Fresh => pc[p] \in Fresh, Goto(p, label),
         UNCHANGED <<records, issued, exit, sentBy>>
  PROVE  RunOK(p)'
<1>1. pc'[p] = label
  BY DEF Goto, Typed, TypeOK, ProcessesOK
<1>2. label \in Unfinished /\ label \notin Concluded \cup {"recheck", "dispatch", "sending", "exited"}
  BY DEF Unissued, Unfinished, Concluded
<1>3. /\ pc[p] \in Unfinished
      /\ pc[p] \notin {"recheck", "dispatch", "sending", "exited"}
  BY DEF Unissued, Unfinished
<1>4. Covers(p)'
  BY <1>1, <1>2 DEF Covers, RunOK, Fresh
<1>5. Recounts(p)'
  BY <1>1, <1>2, <1>3 DEF Recounts, RunOK, Recorded
<1>6. InTime(p)'
  BY <1>1, <1>2, <1>3 DEF InTime, RunOK
<1>7. Reports(p)'
  BY <1>1, <1>2, <1>3 DEF Reports, RunOK
<1>8. QED  BY <1>4, <1>5, <1>6, <1>7 DEF RunOK

\* On the way to the published result.
LEMMA Publishing ==
  ASSUME Typed, NEW p \in Proc, RunOK(p), pc[p] \in Concluded,
         NEW label \in Concluded, Goto(p, label), UNCHANGED <<records, issued, exit, sentBy>>
  PROVE  RunOK(p)'
<1>1. pc'[p] = label
  BY DEF Goto, Typed, TypeOK, ProcessesOK
<1>2. QED  BY <1>1 DEF RunOK, Covers, Recounts, Recorded, InTime, Reports, Concluded

\* A plan is done with: its record says what became of it.
LEMMA Concluding ==
  ASSUME Typed, NEW p \in Proc, RunOK(p), pc[p] \in Unfinished,
         NEW r \in Record, Conclude(p, r), r.disposition = "attempted" <=> pc[p] = "sending",
         RecordVerifies(Unit(p), r), issued'[p] = {}, UNCHANGED <<exit, sentBy>>
  PROVE  RunOK(p)'
<1> DEFINE n == Len(records[p])
<1>1. n \in Nat /\ n < NPlans /\ records[p] \in Seq(Record) /\ Unit(p) = n + 1
  BY DEF Typed, TypeOK, ProcessesOK, LoopOK, Unit
<1>2. records'[p] = Append(records[p], r) /\ pc'[p] = IF Unit(p) = NPlans THEN "verify" ELSE "deadline"
  BY DEF Conclude, Goto, Typed, TypeOK, ProcessesOK
<1>3. /\ Len(records'[p]) = n + 1 /\ records'[p][n + 1] = r
      /\ \A q \in 1..n : records'[p][q] = records[p][q]
  BY <1>1, <1>2
<1>4. pc'[p] \in {"verify", "deadline"} /\ (pc'[p] = "verify" => n + 1 = NPlans)
  BY <1>1, <1>2
<1>5. Recorded(p) = 1..n /\ Recorded(p)' = 1..(n + 1)
  BY <1>3 DEF Recorded
<1> HIDE DEF n
<1>6. Covers(p)'
  BY <1>1, <1>3, <1>4 DEF Covers, Concluded
<1>7. sentBy[p] \ (1..n) = IF pc[p] = "sending" THEN {n + 1} ELSE {}
  BY <1>1, <1>5 DEF RunOK, Recounts
<1>8. Recounts(p)'
  <2>1. ASSUME NEW q \in 1..(n + 1)
        PROVE  /\ records'[p][q].disposition = "attempted" <=> q \in sentBy[p]
               /\ RecordVerifies(q, records'[p][q])
    <3>1. CASE q \in 1..n
      BY <1>3, <1>5, <3>1 DEF RunOK, Recounts
    <3>2. CASE q = n + 1
      <4>1. n + 1 \notin 1..n
        BY <1>1
      <4>2. n + 1 \in sentBy[p] <=> pc[p] = "sending"
        BY <1>7, <4>1
      <4>3. QED  BY <1>1, <1>3, <3>2, <4>2
    <3>3. QED  BY <1>1, <3>1, <3>2
  <2>2. sentBy[p] \ (1..(n + 1)) = {}
    BY <1>1, <1>7
  <2>3. pc'[p] # "sending" /\ sentBy'[p] = sentBy[p]
    BY <1>4
  <2>4. QED  BY <1>5, <2>1, <2>2, <2>3 DEF Recounts, RecordVerifies
<1>9. InTime(p)'
  BY <1>4 DEF InTime
<1>10. Reports(p)'
  BY <1>4 DEF Reports, RunOK, Unfinished
<1>11. QED  BY <1>6, <1>8, <1>9, <1>10 DEF RunOK

\* A run that ends prints the truth if it is the truth.
LEMMA Exiting ==
  ASSUME Typed, NEW p \in Proc, RunOK(p), pc[p] \in Unfinished \cup Concluded, issued[p] = {},
         NEW code \in {0, 2, 3}, NEW network, NEW why, Exit(p, code, network, why),
         Truthful(p, code, network, why), UNCHANGED <<records, issued, sentBy>>
  PROVE  RunOK(p)'
<1>1. pc'[p] = "exited" /\ exit'[p] = [code |-> code, network |-> network, why |-> why]
  BY DEF Exit, Goto, Typed, TypeOK, ProcessesOK
<1>2. Covers(p)'
  BY <1>1 DEF Covers, Concluded
<1>3. Recounts(p)'
  BY <1>1 DEF RunOK, Recounts, Recorded, Unfinished, Concluded
<1>4. InTime(p)'
  BY <1>1 DEF InTime
<1>5. Reports(p)'
  BY <1>1 DEF Reports, Truthful
<1>6. QED  BY <1>2, <1>3, <1>4, <1>5 DEF RunOK

\* A process that is killed prints nothing.
LEMMA Killing ==
  ASSUME Typed, NEW p \in Proc, RunOK(p), pc[p] \in Working, pc'[p] = "crashed", issued'[p] = {},
         UNCHANGED <<records, exit, sentBy>>
  PROVE  RunOK(p)'
BY DEF RunOK, Covers, Recounts, Recorded, InTime, Reports, Unfinished, Concluded, Working

\* When the loop is over the records tell what was sent, and so does the summary.
LEMMA SummaryIsTrue ==
  ASSUME Typed, NEW p \in Proc, RunOK(p), pc[p] \in Concluded
  PROVE  /\ ResultVerifies(records[p]) /\ issued[p] = {}
         /\ NetworkAttempted(p) = "false" => sentBy[p] = {}
         /\ NetworkAttempted(p) = "true" => p \in Live /\ sentBy[p] # {}
         /\ ExitCode(records[p]) = 2 => sentBy[p] = {}
         /\ ExitCode(records[p]) = 0 => sentBy[p] = Plan
<1> DEFINE rs == records[p]
           valid == {q \in Plan : rs[q].disposition = "attempted" /\ rs[q].detail = ValidShape}
           tried == {q \in Plan : rs[q].disposition = "attempted"}
<1>1. Len(rs) = NPlans /\ Recorded(p) = Plan
  BY DEF RunOK, Covers, Recorded, Plan
<1>2. sentBy[p] = tried
  <2>1. sentBy[p] \ Plan = {}
    BY <1>1 DEF RunOK, Recounts, Concluded
  <2>2. \A q \in Plan : rs[q].disposition = "attempted" <=> q \in sentBy[p]
    BY <1>1 DEF RunOK, Recounts
  <2>3. QED  BY <2>1, <2>2
<1>3. ResultVerifies(rs) /\ issued[p] = {}
  BY <1>1 DEF ResultVerifies, RunOK, Recounts, InTime, Concluded
<1>4. IsFiniteSet(Plan) /\ Cardinality(Plan) = NPlans
  BY FS_Interval DEF Plan
<1>5. /\ IsFiniteSet(valid) /\ Cardinality(valid) \in Nat /\ Cardinality(valid) <= NPlans
      /\ Cardinality(valid) = NPlans => valid = Plan
  BY <1>4, FS_Subset, FS_CardinalityType
<1>6. IsFiniteSet(tried) /\ Cardinality(tried) \in Nat /\ (Cardinality(tried) = 0 <=> tried = {})
  BY <1>4, FS_Subset, FS_CardinalityType, FS_EmptySet
<1>7. ValidCount(rs) = Cardinality(valid) /\ AttemptedCount(rs) = Cardinality(tried)
  BY DEF ValidCount, AttemptedCount
<1>8. valid \subseteq tried /\ tried \subseteq Plan
  OBVIOUS
<1>9. records[p] = rs
  OBVIOUS
<1> HIDE DEF rs, valid, tried
<1>10. NetworkAttempted(p) = "false" => sentBy[p] = {}
  BY <1>2, <1>6, <1>7, <1>9 DEF NetworkAttempted
<1>11. NetworkAttempted(p) = "true" => p \in Live /\ sentBy[p] # {}
  BY <1>2, <1>6, <1>7, <1>9 DEF NetworkAttempted
<1>12. ExitCode(rs) = 2 => sentBy[p] = {}
  BY <1>2, <1>6, <1>7 DEF ExitCode
<1>13. ExitCode(rs) = 0 => sentBy[p] = Plan
  <2>1. ExitCode(rs) = 0 => ValidCount(rs) = NPlans
    BY DEF ExitCode
  <2>2. QED  BY <1>2, <1>5, <1>7, <1>8, <2>1
<1>14. QED  BY <1>3, <1>9, <1>10, <1>11, <1>12, <1>13

\* Records of a plan that was not sent, unless the clock says so.
LEMMA UnsentRecords ==
  ASSUME NEW q
  PROVE  /\ SkippedBudget \in Record /\ RecordVerifies(q, SkippedBudget)
         /\ SkippedBudget.disposition # "attempted"
         /\ \A stage \in NonAttemptStages \ DeadlineStages :
              /\ NotRun(stage) \in Record /\ RecordVerifies(q, NotRun(stage))
              /\ NotRun(stage).disposition # "attempted"
BY RecordTypes DEF RecordVerifies, SkippedBudget, NotRun, DeadlineStages, NonAttemptStages

\* The receipt of a look at the clock proves that time was short.
LEMMA DeadlineRecords ==
  ASSUME NEW q \in Plan, NEW e \in Nat, TooLate(q, e), NEW stage \in DeadlineStages
  PROVE  /\ PastDeadline(stage, e) \in Record /\ RecordVerifies(q, PastDeadline(stage, e))
         /\ PastDeadline(stage, e).disposition # "attempted"
<1>1. PastDeadline(stage, e) \in Record
  BY RecordTypes DEF NonAttemptStages, DeadlineStages
<1>2. e + Timeout[q] > Cap
  BY DEF TooLate
<1>3. QED  BY <1>1, <1>2 DEF RecordVerifies, PastDeadline

\* Before the reservation.
LEMMA AdmissionTells ==
  ASSUME Typed, NEW p \in Proc, RunOK(p),
         \/ Start(p) \/ Preflight(p) \/ PreflightTransport(p)
         \/ DeadlinePreflight(p) \/ VerifyEgress(p) \/ CheckCredential(p)
  PROVE  RunOK(p)'
<1> USE DEF history
<1>1. ASSUME pc[p] \in Fresh
      PROVE  sentBy[p] = {} /\ issued[p] = {} /\ pc[p] \in Unissued /\ pc[p] \in Unfinished
  BY <1>1 DEF RunOK, Covers, Recounts, Recorded, InTime, Fresh, Unissued, Unfinished
<1>2. CASE Start(p)
  BY <1>2, Advancing DEF Start, Unissued, Unfinished, Fresh
<1>3. CASE Preflight(p)
  <2>1. pc[p] = "preflight" /\ pc[p] \in Fresh
    BY <1>3 DEF Preflight, Fresh
  <2>2. CASE Goto(p, "transport") /\ UNCHANGED exit
    BY <1>1, <1>3, <2>1, <2>2, Advancing DEF Preflight, Unissued, Unfinished, Fresh
  <2>3. ASSUME NEW why \in {"campaign_plan_already_reserved", "unsafe_state_directory"},
               Exit(p, 2, "false", why)
        PROVE  RunOK(p)'
    <3>1. Truthful(p, 2, "false", why)
      BY <1>1, <2>1 DEF Truthful
    <3>2. QED  BY <1>1, <1>3, <2>1, <2>3, <3>1, Exiting DEF Preflight
  <2>4. QED  BY <1>3, <2>2, <2>3 DEF Preflight
<1>4. CASE PreflightTransport(p)
  <2>1. pc[p] = "transport" /\ pc[p] \in Fresh
    BY <1>4 DEF PreflightTransport, Fresh
  <2>2. CASE Goto(p, "deadline") /\ UNCHANGED exit
    BY <1>1, <1>4, <2>1, <2>2, Advancing DEF PreflightTransport, Unissued, Unfinished, Fresh
  <2>3. CASE Exit(p, 3, "null", "campaign_runtime_error")
    <3>1. Truthful(p, 3, "null", "campaign_runtime_error")
      BY <1>1, <2>1 DEF Truthful
    <3>2. QED  BY <1>1, <1>4, <2>1, <2>3, <3>1, Exiting DEF PreflightTransport
  <2>4. QED  BY <1>4, <2>2, <2>3 DEF PreflightTransport
<1>5. ASSUME pc[p] \in {"deadline", "egress", "credential"}
      PROVE  /\ issued[p] = {} /\ pc[p] \in Unissued /\ pc[p] \in Unfinished
             /\ pc[p] # "sending" /\ Unit(p) \in Plan
  BY <1>5, UnitInPlan DEF RunOK, InTime, Unissued, Unfinished
<1>6. CASE DeadlinePreflight(p)
  <2>1. /\ pc[p] = "deadline" /\ UNCHANGED <<issued, exit, sentBy>>
        /\ \E e \in 0..MaxElapsed :
             \/ /\ TooLate(Unit(p), e)
                /\ Conclude(p, PastDeadline("campaign_deadline_preflight", e))
             \/ Goto(p, "egress") /\ UNCHANGED records
    BY <1>6 DEF DeadlinePreflight
  <2>2. ASSUME NEW e \in 0..MaxElapsed, TooLate(Unit(p), e),
               Conclude(p, PastDeadline("campaign_deadline_preflight", e))
        PROVE  RunOK(p)'
    <3>1. e \in Nat /\ "campaign_deadline_preflight" \in DeadlineStages
      BY <2>2 DEF DeadlineStages
    <3>2. QED  BY <1>5, <2>1, <2>2, <3>1, DeadlineRecords, Concluding
  <2>3. CASE Goto(p, "egress") /\ UNCHANGED records
    BY <1>5, <2>1, <2>3, Advancing DEF Unissued, Unfinished, Fresh
  <2>4. QED  BY <2>1, <2>2, <2>3
<1>7. CASE VerifyEgress(p)
  <2>1. pc[p] = "egress" /\ UNCHANGED <<issued, exit, sentBy>>
    BY <1>7 DEF VerifyEgress
  <2>2. CASE Conclude(p, NotRun("egress_authorization"))
    BY <1>5, <2>1, <2>2, UnsentRecords, Concluding DEF NonAttemptStages, DeadlineStages
  <2>3. CASE Goto(p, "credential") /\ UNCHANGED records
    BY <1>5, <2>1, <2>3, Advancing DEF Unissued, Unfinished, Fresh
  <2>4. QED  BY <1>7, <2>2, <2>3 DEF VerifyEgress
<1>8. CASE CheckCredential(p)
  <2>1. pc[p] = "credential" /\ UNCHANGED <<issued, exit, sentBy>>
    BY <1>8 DEF CheckCredential
  <2>2. CASE Conclude(p, NotRun("credential_availability"))
    BY <1>5, <2>1, <2>2, UnsentRecords, Concluding DEF NonAttemptStages, DeadlineStages
  <2>3. CASE Goto(p, "open_state") /\ UNCHANGED records
    BY <1>5, <2>1, <2>3, Advancing DEF Unissued, Unfinished, Fresh
  <2>4. QED  BY <1>8, <2>2, <2>3 DEF CheckCredential
<1>9. QED  BY <1>2, <1>3, <1>4, <1>6, <1>7, <1>8

\* The reservation.
LEMMA ReservationTells ==
  ASSUME Typed, NEW p \in Proc, RunOK(p),
         \/ OpenStateDirectory(p) \/ SyncParentDirectory(p)
         \/ CreateMarker(p) \/ WriteMarker(p) \/ IssueCapability(p)
  PROVE  RunOK(p)'
<1> USE DEF history
<1>1. /\ pc[p] \in {"open_state", "sync_parent", "create_marker", "write_marker", "sync_marker_dir"}
      /\ UNCHANGED <<exit, sentBy>>
  BY DEF OpenStateDirectory, SyncParentDirectory, CreateMarker, WriteMarker, IssueCapability
<1>2. /\ issued[p] = {} /\ pc[p] \in Unissued /\ pc[p] \in Unfinished
      /\ pc[p] # "sending" /\ Unit(p) \in Plan
  BY <1>1, UnitInPlan DEF RunOK, InTime, Unissued, Unfinished
<1>3. ASSUME Conclude(p, SkippedBudget), UNCHANGED issued PROVE RunOK(p)'
  BY <1>1, <1>2, <1>3, UnsentRecords, Concluding
<1>4. ASSUME NEW label \in {"sync_parent", "create_marker", "write_marker", "sync_marker_dir"},
             Goto(p, label), UNCHANGED <<records, issued>>
      PROVE  RunOK(p)'
  BY <1>1, <1>2, <1>4, Advancing DEF Unissued, Unfinished, Fresh
<1>5. CASE OpenStateDirectory(p)
  BY <1>3, <1>4, <1>5 DEF OpenStateDirectory, BudgetNotReserved
<1>6. CASE SyncParentDirectory(p)
  BY <1>3, <1>4, <1>6 DEF SyncParentDirectory, BudgetNotReserved
<1>7. CASE CreateMarker(p)
  BY <1>3, <1>4, <1>7 DEF CreateMarker, BudgetNotReserved
<1>8. CASE WriteMarker(p)
  BY <1>3, <1>4, <1>8 DEF WriteMarker, BudgetNotReserved
<1>9. CASE IssueCapability(p)
  <2>1. CASE Goto(p, "recheck")
    <3>1. UNCHANGED records /\ issued' = [issued EXCEPT ![p] = @ \cup {Unit(p)}]
      BY <1>1, <1>9, <2>1 DEF IssueCapability, BudgetNotReserved, Conclude, Goto, Typed, TypeOK,
                              ProcessesOK
    <3>2. pc'[p] = "recheck" /\ issued'[p] = {Unit(p)} /\ Unit(p)' = Unit(p)
      BY <1>2, <2>1, <3>1 DEF Goto, Typed, TypeOK, ProcessesOK, Unit
    <3>3. QED
      BY <1>1, <1>2, <3>1, <3>2
         DEF RunOK, Covers, Recounts, Recorded, InTime, Reports, Unfinished, Concluded
  <2>2. CASE Conclude(p, SkippedBudget) /\ UNCHANGED issued
    BY <1>3, <2>2
  <2>3. QED  BY <1>9, <2>1, <2>2 DEF IssueCapability, BudgetNotReserved
<1>10. QED  BY <1>5, <1>6, <1>7, <1>8, <1>9

\* The dispatch.
LEMMA DispatchTells ==
  ASSUME Typed, NEW p \in Proc, RunOK(p),
         \/ RecheckDeadline(p) \/ DispatchOnce(p) \/ SendReturns(p) \/ SendAborts(p)
  PROVE  RunOK(p)'
<1> USE DEF history
<1>1. pc[p] \in {"recheck", "dispatch", "sending"}
  BY DEF RecheckDeadline, DispatchOnce, SendReturns, SendAborts
<1>2. Unit(p) \in Plan /\ pc[p] \in Unfinished
  BY <1>1, UnitInPlan DEF Unfinished
<1>3. ASSUME SpendCapability(p), pc[p] # "sending" PROVE issued'[p] = {}
  BY <1>1, <1>3 DEF SpendCapability, RunOK, InTime, Typed, TypeOK, ProcessesOK
<1>4. CASE RecheckDeadline(p)
  <2>1. pc[p] = "recheck" /\ UNCHANGED <<exit, sentBy>>
    BY <1>4 DEF RecheckDeadline
  <2>2. PICK e \in 0..MaxElapsed :
          /\ Observe(p, e)
          /\ \/ /\ TooLate(Unit(p), e)
                /\ SpendCapability(p)
                /\ Conclude(p, PastDeadline("campaign_deadline_post_authorization", e))
             \/ /\ ~TooLate(Unit(p), e)
                /\ Goto(p, "dispatch")
                /\ UNCHANGED <<issued, records>>
    BY <1>4 DEF RecheckDeadline
  <2>3. CASE TooLate(Unit(p), e)
    <3>1. e \in Nat /\ "campaign_deadline_post_authorization" \in DeadlineStages
      BY <2>2 DEF DeadlineStages
    <3>2. SpendCapability(p) /\ Conclude(p, PastDeadline("campaign_deadline_post_authorization", e))
      BY <2>2, <2>3
    <3>3. QED  BY <1>2, <1>3, <2>1, <2>3, <3>1, <3>2, DeadlineRecords, Concluding
  <2>4. CASE ~TooLate(Unit(p), e)
    <3>1. Goto(p, "dispatch") /\ UNCHANGED <<issued, records>>
      BY <2>2, <2>4
    <3>2. pc'[p] = "dispatch" /\ Unit(p)' = Unit(p) /\ elapsed'[p] = e
      BY <2>2, <3>1 DEF Goto, Observe, Unit, Typed, TypeOK, ProcessesOK
    <3>3. elapsed'[p] + Timeout[Unit(p)'] <= Cap
      BY <1>2, <2>2, <2>4, <3>2 DEF TooLate
    <3>4. QED
      BY <2>1, <3>1, <3>2, <3>3
         DEF RunOK, Covers, Recounts, Recorded, InTime, Reports, Unfinished, Concluded
  <2>5. QED  BY <2>3, <2>4
<1>5. CASE DispatchOnce(p)
  <2>1. pc[p] = "dispatch" /\ SpendCapability(p) /\ UNCHANGED <<exit, elapsed>> /\ issued'[p] = {}
    BY <1>3, <1>5 DEF DispatchOnce
  <2>2. CASE Conclude(p, NotRun("credential_availability")) /\ UNCHANGED sentBy
    BY <1>2, <2>1, <2>2, UnsentRecords, Concluding DEF NonAttemptStages, DeadlineStages
  <2>3. CASE /\ Goto(p, "sending") /\ UNCHANGED records
             /\ sentBy' = [sentBy EXCEPT ![p] = @ \cup {Unit(p)}]
    <3>1. /\ pc'[p] = "sending" /\ Unit(p)' = Unit(p) /\ records'[p] = records[p]
          /\ sentBy'[p] = sentBy[p] \cup {Unit(p)}
      BY <2>3 DEF Goto, Unit, Typed, TypeOK, ProcessesOK, HistoryOK
    <3>2. Unit(p) \notin Recorded(p) /\ sentBy[p] \ Recorded(p) = {}
      BY <2>1, <1>2 DEF RunOK, Recounts, Unit, Recorded, Typed, TypeOK, ProcessesOK
    <3>3. Recounts(p)'
      BY <3>1, <3>2 DEF RunOK, Recounts, Recorded
    <3>4. QED
      BY <2>1, <3>1, <3>3 DEF RunOK, Covers, InTime, Reports, Concluded
  <2>4. QED  BY <1>5, <2>2, <2>3 DEF DispatchOnce
<1>6. ASSUME pc[p] = "sending" PROVE issued[p] = {} /\ Timeout[Unit(p)] <= Cap
  BY <1>2, <1>6 DEF RunOK, InTime, Typed, TypeOK, ProcessesOK
<1>7. CASE SendReturns(p)
  <2>1. pc[p] = "sending" /\ UNCHANGED <<issued, exit, sentBy>>
    BY <1>7 DEF SendReturns
  <2>2. PICK o \in Outcome : Conclude(p, Attempted(o))
    BY <1>7 DEF SendReturns
  <2>3. /\ Attempted(o) \in Record /\ Attempted(o).disposition = "attempted"
        /\ RecordVerifies(Unit(p), Attempted(o))
    BY <1>6, <2>1, RecordTypes, DetailAssumption
       DEF Attempted, RecordVerifies, DeadlineStages, NonAttemptStages
  <2>4. QED  BY <1>2, <1>6, <2>1, <2>2, <2>3, Concluding
<1>8. CASE SendAborts(p)
  <2>1. /\ pc[p] = "sending" /\ Exit(p, 3, "null", "campaign_runtime_error")
        /\ UNCHANGED <<records, issued, sentBy>>
    BY <1>8 DEF SendAborts
  <2>2. Truthful(p, 3, "null", "campaign_runtime_error")
    BY DEF Truthful
  <2>3. QED  BY <1>2, <1>6, <2>1, <2>2, Exiting
<1>9. QED  BY <1>4, <1>5, <1>7, <1>8

\* The result file and the summary.
LEMMA PublicationTells ==
  ASSUME Typed, NEW p \in Proc, RunOK(p),
         \/ VerifyResult(p) \/ OpenResultDirectory(p) \/ SyncResultParent(p)
         \/ CreateTemp(p) \/ FillTemp(p) \/ PublishResult(p) \/ UnlinkTemp(p)
         \/ SyncResultDirectory(p) \/ Report(p)
  PROVE  RunOK(p)'
<1> USE DEF history
<1>1. /\ pc[p] \in Concluded /\ UNCHANGED <<records, issued, sentBy>>
  BY DEF VerifyResult, OpenResultDirectory, SyncResultParent, CreateTemp, FillTemp, PublishResult,
         UnlinkTemp, SyncResultDirectory, Report, ResultUnchanged, Concluded
<1>2. ASSUME NEW label \in Concluded, Goto(p, label), UNCHANGED exit PROVE RunOK(p)'
  BY <1>1, <1>2, Publishing
<1>3. ASSUME PersistenceFailed(p) PROVE RunOK(p)'
  <2>1. Truthful(p, 3, NetworkAttempted(p), "campaign_result_persistence_failed")
    BY <1>1, SummaryIsTrue DEF Truthful
  <2>2. QED  BY <1>1, <1>3, <2>1, SummaryIsTrue, Exiting DEF PersistenceFailed
<1>4. CASE VerifyResult(p)
  BY <1>1, <1>2, <1>4, SummaryIsTrue DEF VerifyResult, Concluded
<1>5. CASE OpenResultDirectory(p) \/ SyncResultParent(p) \/ CreateTemp(p) \/ SyncResultDirectory(p)
  BY <1>2, <1>3, <1>5 DEF OpenResultDirectory, SyncResultParent, CreateTemp, SyncResultDirectory,
                          Concluded
<1>6. CASE FillTemp(p) \/ PublishResult(p) \/ UnlinkTemp(p)
  BY <1>2, <1>3, <1>6 DEF FillTemp, PublishResult, UnlinkTemp, Cleanup, Concluded
<1>7. CASE Report(p)
  <2>1. /\ ExitCode(records[p]) \in {0, 2, 3}
        /\ Truthful(p, ExitCode(records[p]), NetworkAttempted(p), "completed")
    BY <1>1, SummaryIsTrue, SummaryTyped DEF Truthful
  <2>2. QED  BY <1>1, <1>7, <2>1, SummaryIsTrue, Exiting DEF Report
<1>8. QED  BY <1>4, <1>5, <1>6, <1>7

\* The invariant of the runs holds at first.
LEMMA RunInvInit == Init => RunInv
<1> SUFFICES ASSUME Init, NEW p \in Proc PROVE RunOK(p)
  BY InitTyped DEF RunInv
<1>1. /\ pc[p] = "idle" /\ records[p] = <<>> /\ exit[p] = Running /\ issued[p] = {}
      /\ sentBy[p] = {}
  BY DEF Init
<1>2. QED  BY <1>1 DEF RunOK, Covers, Recounts, Recorded, InTime, Reports, Concluded, Unfinished

\* The invariant of the runs is inductive.
LEMMA RunInvStep == RunInv /\ [Next]_vars => RunInv'
<1> SUFFICES ASSUME RunInv, [Next]_vars, NEW o \in Proc PROVE RunOK(o)'
  BY StepTyped DEF RunInv
<1>1. Typed /\ RunOK(o)
  BY DEF RunInv
<1>2. CASE UNCHANGED vars
  BY <1>1, <1>2, UntouchedKeeps DEF vars, procVars, history, Untouched
<1>3. ASSUME NEW p \in Proc, StepOf(p)
      PROVE  RunOK(o)'
  <2>1. CASE o # p
    BY <1>1, <1>3, <2>1, OthersUntouched, UntouchedKeeps
  <2>2. CASE o = p /\ Crash(p)
    <3>1. /\ pc[p] \in Working /\ pc'[p] = "crashed" /\ issued'[p] = {}
          /\ UNCHANGED <<records, exit, sentBy>>
      BY <1>1, <2>2 DEF Crash, Goto, Typed, TypeOK, ProcessesOK, history
    <3>2. QED  BY <1>1, <2>2, <3>1, Killing
  <2>3. CASE o = p /\ (Start(p) \/ LocalStep(p) \/ Answer(p))
    BY <1>1, <2>3, AdmissionTells, ReservationTells, DispatchTells, PublicationTells
       DEF LocalStep, Answer
  <2>4. QED  BY <1>3, <2>1, <2>2, <2>3 DEF StepOf
<1>4. CASE PowerLoss
  <2>1. UNCHANGED <<elapsed, records, exit, sentBy>>
    BY <1>4 DEF PowerLoss, history
  <2>2. CASE pc[o] \in Working
    <3>1. pc'[o] = "crashed" /\ issued'[o] = {}
      BY <1>4, <2>2 DEF PowerLoss
    <3>2. QED  BY <1>1, <2>1, <2>2, <3>1, Killing
  <2>3. CASE pc[o] \notin Working
    <3>1. pc'[o] = pc[o] /\ issued'[o] = issued[o]
      BY <1>4, <2>3 DEF PowerLoss
    <3>2. QED  BY <1>1, <2>1, <3>1, UntouchedKeeps DEF Untouched
  <2>4. QED  BY <2>2, <2>3
<1>5. QED  BY <1>2, <1>3, <1>4 DEF Next, Terminating, StepOf

\* What a run records and prints is what it did, whatever fails.
THEOREM TruthfulRuns == Spec => []RunsTellTheTruth
<1>1. RunInv => RunsTellTheTruth
  BY DEF RunInv, RunOK, Recounts, Recorded, Reports, Truthful, RunsTellTheTruth
<1>2. QED  BY <1>1, RunInvInit, RunInvStep, PTL DEF Spec

\* No plan goes out that no longer fits under the cap, no capability outlives
\* its run, and the verifier never refuses what the harness records.
THEOREM DeadlinesHold == Spec => []LatePlansAreStopped
<1>1. ASSUME RunInv, NEW p \in Proc
      PROVE  /\ exit[p].why # "campaign_runtime_or_integrity_invalid"
             /\ pc[p] \in {"dispatch", "sending"} => elapsed[p] + Timeout[Unit(p)] <= Cap
             /\ pc[p] = "exited" => issued[p] = {}
  <2>1. exit[p].why # "campaign_runtime_or_integrity_invalid"
    BY <1>1 DEF RunInv, RunOK, Reports, Truthful, Running
  <2>2. QED  BY <1>1, <2>1 DEF RunInv, RunOK, InTime
<1>2. RunInv => LatePlansAreStopped
  BY <1>1 DEF LatePlansAreStopped
<1>3. QED  BY <1>2, RunInvInit, RunInvStep, PTL DEF Spec

-----------------------------------------------------------------------------
(* At most one attempt per plan, and the refinement of OneAttempt, for any *)
(* number of runs, plans, crashes and failing system calls.  With power    *)
(* failures the claim needs a state directory that was already durable     *)
(* when the first run started: run powerloss shows why.                    *)

\* the assumption on the state directory
Lasting == MaxPowerLoss = 0 \/ InitialDir = "durable"

-----------------------------------------------------------------------------
(* The inductive invariant. *)

\* where a process has created the marker of its plan and not yet used it
Holding == {"write_marker", "sync_marker_dir", "recheck", "dispatch"}

\* where that marker is on the disk
Covered == {"recheck", "dispatch"}

DirLasts == MaxPowerLoss = 0 \/ dir = "durable"

HeldReserved ==
  \A p \in Proc : pc[p] \in Holding => Reserved(Unit(p)) /\ attempts[Unit(p)] = 0

HeldOnce ==
  \A p, o \in Proc :
    pc[p] \in Holding /\ pc[o] \in Holding /\ Unit(p) = Unit(o) => p = o

HeldSecure == \A p \in Proc : pc[p] \in Covered => marker[Unit(p)] = "durable"

SentSecure == \A q \in Plan : attempts[q] > 0 => marker[q] = "durable"

OnceInv ==
  /\ Typed
  /\ DirLasts
  /\ HeldReserved
  /\ HeldOnce
  /\ HeldSecure
  /\ SentSecure
  /\ AtMostOneAttempt

-----------------------------------------------------------------------------
(* Steps that neither take a reservation nor use one. *)

\* Files: markers stay, and what is durable stays durable.
MarkersKept ==
  /\ \A q \in Plan : Reserved(q)' <=> Reserved(q)
  /\ \A q \in Plan : marker[q] = "durable" => marker'[q] = "durable"
  /\ dir = "durable" => dir' = "durable"

\* Control: the others stay where they are, and p does not start to hold.
OthersStay(p) ==
  \A o \in Proc \ {p} : pc'[o] = pc[o] /\ records'[o] = records[o]

HoldsOnly(p) ==
  pc'[p] \in Holding => pc[p] \in Holding /\ records'[p] = records[p]

CoversOnly(p) ==
  pc'[p] \in Covered => pc[p] \in Covered \/ marker'[Unit(p)] = "durable"

Quiet(p) ==
  /\ MarkersKept
  /\ OthersStay(p)
  /\ HoldsOnly(p)
  /\ CoversOnly(p)
  /\ UNCHANGED attempts

\* The operations on the directory other than creating a marker, while the
\* machine has power, keep every marker.
LEMMA FilesKeepMarkers ==
  ASSUME Typed,
         \/ UNCHANGED fsVars \/ MakeDirectory \/ SyncParent \/ SyncDirectory
         \/ \E name, owner : CreateTempFile(name, owner) \/ FillTempFile(name, owner)
         \/ \E name : LinkArtifact(name) \/ RemoveTempFile(name)
  PROVE  MarkersKept
BY DEF MarkersKept, Reserved, Secured, fsVars, MakeDirectory, SyncParent, SyncDirectory,
       CreateTempFile, FillTempFile, LinkArtifact, RemoveTempFile, Typed, TypeOK, FilesOK

\* Control steps that hold nothing afterwards.
LEMMA LeavesQuietly ==
  ASSUME Typed, NEW p \in Proc, ControlStep(p)
  PROVE  /\ OthersStay(p)
         /\ pc'[p] \notin Holding => HoldsOnly(p) /\ CoversOnly(p)
         /\ Concludes(p) \/ Exits(p) => pc'[p] \notin Holding
<1>1. CASE Moves(p)
  BY <1>1 DEF Moves, Goto, Typed, TypeOK, ProcessesOK, OthersStay, HoldsOnly, CoversOnly,
              Holding, Covered, Concludes, Conclude, Exits, Exit
<1>2. CASE Concludes(p)
  BY <1>2 DEF Concludes, Conclude, Goto, Typed, TypeOK, ProcessesOK, OthersStay,
              HoldsOnly, CoversOnly, Holding, Covered, Exits, Exit
<1>3. CASE Exits(p)
  BY <1>3 DEF Exits, Exit, Goto, Typed, TypeOK, ProcessesOK, OthersStay,
              HoldsOnly, CoversOnly, Holding, Covered, Concludes, Conclude
<1> QED BY <1>1, <1>2, <1>3 DEF ControlStep

\* the two steps that are not quiet
Reserves(p) == CreateMarker(p) /\ CreateMarkerFile(Unit(p))
Sends(p) == DispatchOnce(p) /\ Goto(p, "sending")

\* Steps that neither touch the directory nor end up holding a marker.
LEMMA IdleStepsQuiet ==
  ASSUME Typed, NEW p \in Proc,
         \/ Start(p) \/ Preflight(p) \/ PreflightTransport(p) \/ DeadlinePreflight(p)
         \/ VerifyEgress(p) \/ CheckCredential(p) \/ SendReturns(p) \/ SendAborts(p)
         \/ VerifyResult(p) \/ Report(p) \/ Crash(p)
  PROVE  Quiet(p)
<1>1. ControlStep(p)
  BY StepControl DEF LocalStep, Answer
<1>2. pc'[p] \notin Holding
  BY DEF Start, Preflight, PreflightTransport, DeadlinePreflight, VerifyEgress,
         CheckCredential, SendReturns, SendAborts, VerifyResult, Report, Crash,
         Conclude, Exit, Goto, Typed, TypeOK, ProcessesOK, Holding
<1>3. UNCHANGED fsVars /\ UNCHANGED attempts
  BY DEF Start, Preflight, PreflightTransport, DeadlinePreflight, VerifyEgress,
         CheckCredential, SendReturns, SendAborts, VerifyResult, Report, Crash,
         ResultUnchanged, history
<1> QED BY <1>1, <1>2, <1>3, FilesKeepMarkers, LeavesQuietly DEF Quiet

\* Steps on the result file.
LEMMA ResultStepsQuiet ==
  ASSUME Typed, NEW p \in Proc,
         \/ OpenResultDirectory(p) \/ SyncResultParent(p) \/ CreateTemp(p) \/ FillTemp(p)
         \/ PublishResult(p) \/ UnlinkTemp(p) \/ SyncResultDirectory(p)
  PROVE  Quiet(p)
<1>1. ControlStep(p)
  BY StepControl DEF LocalStep
<1>2. pc'[p] \notin Holding
  BY DEF OpenResultDirectory, SyncResultParent, CreateTemp, FillTemp, PublishResult,
         UnlinkTemp, SyncResultDirectory, Cleanup, PersistenceFailed, Exit, Goto,
         Typed, TypeOK, ProcessesOK, Holding
<1>3. MarkersKept
  <2>1. \/ UNCHANGED fsVars \/ MakeDirectory \/ SyncParent \/ SyncDirectory
        \/ \E name, owner : CreateTempFile(name, owner) \/ FillTempFile(name, owner)
        \/ \E name : LinkArtifact(name) \/ RemoveTempFile(name)
    BY DEF OpenResultDirectory, SyncResultParent, CreateTemp, FillTemp, PublishResult,
           UnlinkTemp, SyncResultDirectory, Cleanup
  <2> QED BY <2>1, FilesKeepMarkers
<1>4. UNCHANGED attempts
  BY DEF OpenResultDirectory, SyncResultParent, CreateTemp, FillTemp, PublishResult,
         UnlinkTemp, SyncResultDirectory, ResultUnchanged, history
<1> QED BY <1>1, <1>2, <1>3, <1>4, LeavesQuietly DEF Quiet

\* Steps of the reservation and of the dispatch that leave the plan as it is.
LEMMA AdmissionStepsQuiet ==
  ASSUME OnceInv, NEW p \in Proc,
         \/ OpenStateDirectory(p) \/ SyncParentDirectory(p) \/ CreateMarker(p)
         \/ WriteMarker(p) \/ IssueCapability(p) \/ RecheckDeadline(p) \/ DispatchOnce(p),
         ~Reserves(p), ~Sends(p)
  PROVE  Quiet(p)
<1> Typed
  BY DEF OnceInv
<1>0. ControlStep(p)
  BY StepControl DEF LocalStep
<1> USE DEF BudgetNotReserved
<1>1. CASE OpenStateDirectory(p) \/ SyncParentDirectory(p) \/ CreateMarker(p)
  <2>1. UNCHANGED fsVars \/ MakeDirectory \/ SyncParent
    BY <1>1 DEF OpenStateDirectory, SyncParentDirectory, CreateMarker, Reserves
  <2>2. pc'[p] \notin Holding
    BY <1>1 DEF OpenStateDirectory, SyncParentDirectory, CreateMarker, Reserves,
                Conclude, Goto, Typed, TypeOK, ProcessesOK, Holding
  <2>3. UNCHANGED attempts
    BY <1>1 DEF OpenStateDirectory, SyncParentDirectory, CreateMarker, history
  <2> QED BY <1>0, <2>1, <2>2, <2>3, FilesKeepMarkers, LeavesQuietly DEF Quiet
<1>2. CASE WriteMarker(p) \/ RecheckDeadline(p)
  <2>1. UNCHANGED fsVars /\ UNCHANGED attempts
    BY <1>2 DEF WriteMarker, RecheckDeadline, history
  <2>2. HoldsOnly(p) /\ CoversOnly(p)
    BY <1>2 DEF WriteMarker, RecheckDeadline, Conclude, Goto, HoldsOnly, CoversOnly,
                Holding, Covered, Typed, TypeOK, ProcessesOK
  <2> QED BY <1>0, <2>1, <2>2, FilesKeepMarkers, LeavesQuietly DEF Quiet
<1>3. CASE IssueCapability(p)
  <2>1. MarkersKept /\ UNCHANGED attempts
    BY <1>3, FilesKeepMarkers DEF IssueCapability, history
  <2>2. Reserved(Unit(p)) /\ Unit(p) \in Plan
    BY <1>3, UnitInPlan DEF IssueCapability, OnceInv, HeldReserved, Holding, Unfinished
  <2>3. HoldsOnly(p) /\ CoversOnly(p)
    BY <1>3, <2>2 DEF IssueCapability, SyncDirectory, Secured, Reserved, Conclude, Goto,
                      HoldsOnly, CoversOnly, Holding, Covered, Typed, TypeOK, ProcessesOK
  <2> QED BY <1>0, <2>1, <2>3, LeavesQuietly DEF Quiet
<1>4. CASE DispatchOnce(p)
  <2>1. UNCHANGED fsVars /\ UNCHANGED attempts
    BY <1>4 DEF DispatchOnce, Sends, history
  <2>2. pc'[p] \notin Holding
    BY <1>4 DEF DispatchOnce, Sends, Conclude, Goto, Typed, TypeOK, ProcessesOK, Holding
  <2> QED BY <1>0, <2>1, <2>2, FilesKeepMarkers, LeavesQuietly DEF Quiet
<1> QED BY <1>1, <1>2, <1>3, <1>4

\* Every step of a process reserves its plan, sends it, or is quiet.
LEMMA StepKinds ==
  ASSUME OnceInv, NEW p \in Proc, Start(p) \/ LocalStep(p) \/ Answer(p) \/ Crash(p)
  PROVE  Reserves(p) \/ Sends(p) \/ Quiet(p)
BY IdleStepsQuiet, ResultStepsQuiet, AdmissionStepsQuiet DEF LocalStep, Answer, OnceInv

-----------------------------------------------------------------------------
(* The invariant is inductive. *)

\* Quiet steps keep it.
LEMMA QuietKeeps ==
  ASSUME OnceInv, NEW p \in Proc, Quiet(p), Typed'
  PROVE  OnceInv'
<1> USE DEF Quiet, OnceInv
<1>1. \A o \in Proc :
        pc'[o] \in Holding => pc[o] \in Holding /\ records'[o] = records[o]
  BY DEF OthersStay, HoldsOnly
<1>2. \A o \in Proc : pc'[o] \in Holding => Unit(o)' = Unit(o) /\ Unit(o) \in Plan
  BY <1>1, UnitInPlan DEF Unit, Holding, Unfinished
<1>3. DirLasts' /\ SentSecure' /\ AtMostOneAttempt'
  BY DEF DirLasts, SentSecure, MarkersKept, AtMostOneAttempt
<1>4. HeldReserved'
  BY <1>1, <1>2 DEF HeldReserved, MarkersKept, Reserved
<1>5. HeldOnce'
  BY <1>1, <1>2 DEF HeldOnce
<1>6. HeldSecure'
  <2> SUFFICES ASSUME NEW o \in Proc, pc'[o] \in Covered
               PROVE  marker'[Unit(o)] = "durable" /\ Unit(o)' = Unit(o)
    BY DEF HeldSecure
  <2>1. Unit(o)' = Unit(o) /\ Unit(o) \in Plan
    BY <1>2 DEF Covered, Holding
  <2>2. CASE o = p
    BY <2>1, <2>2 DEF CoversOnly, HeldSecure, MarkersKept
  <2>3. CASE o # p
    BY <2>1, <2>3 DEF OthersStay, HeldSecure, MarkersKept
  <2> QED BY <2>1, <2>2, <2>3
<1> QED BY <1>3, <1>4, <1>5, <1>6

\* Creating the marker of a plan: nobody else holds it, and it was never sent.
LEMMA ReservesKeeps ==
  ASSUME OnceInv, NEW p \in Proc, Reserves(p), Typed'
  PROVE  OnceInv'
<1> USE DEF OnceInv, Reserves, CreateMarkerFile
<1>1. Unit(p) \in Plan /\ ~Reserved(Unit(p))
  BY UnitInPlan DEF CreateMarker, Unfinished
<1>2. UNCHANGED <<attempts, dir>>
  BY DEF CreateMarker, history
<1>3. marker' = [marker EXCEPT ![Unit(p)] = "volatile"]
  OBVIOUS
<1>4. attempts[Unit(p)] = 0
  BY <1>1 DEF SentSecure, Reserved, Typed, TypeOK, HistoryOK
<1>5. OthersStay(p)
  BY StepControl, LeavesQuietly DEF LocalStep
<1>6. pc'[p] \in Holding => pc'[p] = "write_marker" /\ records'[p] = records[p]
  BY <1>1 DEF CreateMarker, BudgetNotReserved, Conclude, Goto, Typed, TypeOK, ProcessesOK,
              Holding, fsVars
<1>7. \A o \in Proc : pc'[o] \in Holding => Unit(o)' = Unit(o) /\ Unit(o)' \in Plan
  BY <1>1, <1>5, <1>6, UnitInPlan DEF OthersStay, Unit, Holding, Unfinished
<1>8. ASSUME NEW o \in Proc, o # p, pc'[o] \in Holding
      PROVE  pc[o] \in Holding /\ Unit(o) # Unit(p)
  BY <1>1, <1>5, <1>8 DEF OthersStay, HeldReserved
<1>9. DirLasts' /\ AtMostOneAttempt'
  BY <1>2 DEF DirLasts, AtMostOneAttempt
<1>10. SentSecure'
  BY <1>2, <1>3, <1>4 DEF SentSecure, Typed, TypeOK, FilesOK
<1>11. HeldReserved'
  BY <1>1, <1>2, <1>3, <1>4, <1>7, <1>8 DEF HeldReserved, Reserved, Typed, TypeOK, FilesOK
<1>12. HeldOnce'
  BY <1>7, <1>8 DEF HeldOnce
<1>13. HeldSecure'
  <2> SUFFICES ASSUME NEW o \in Proc, pc'[o] \in Covered
               PROVE  marker'[Unit(o)'] = "durable"
    BY DEF HeldSecure
  <2>1. o # p
    BY <1>6 DEF Covered, Holding
  <2> QED BY <1>3, <1>5, <1>7, <1>8, <2>1 DEF Covered, Holding, HeldSecure, OthersStay,
                                         Typed, TypeOK, FilesOK
<1> QED BY <1>9, <1>10, <1>11, <1>12, <1>13

\* Sending a plan: its marker is on the disk, and nobody else can send it.
LEMMA SendsKeeps ==
  ASSUME OnceInv, NEW p \in Proc, Sends(p), Typed'
  PROVE  /\ OnceInv'
         /\ Unit(p) \in Plan /\ attempts[Unit(p)] = 0 /\ Reserved(Unit(p))
         /\ attempts' = [attempts EXCEPT ![Unit(p)] = 1]
<1> USE DEF OnceInv, Sends
<1>1. pc[p] = "dispatch" /\ Unit(p) \in Plan
  BY UnitInPlan DEF DispatchOnce, Unfinished
<1>2. attempts[Unit(p)] = 0 /\ Reserved(Unit(p)) /\ marker[Unit(p)] = "durable"
  BY <1>1 DEF HeldReserved, HeldSecure, Holding, Covered
<1>3. pc' = [pc EXCEPT ![p] = "sending"] /\ UNCHANGED fsVars
  BY DEF DispatchOnce, Goto
<1>4. records' = records /\ attempts' = [attempts EXCEPT ![Unit(p)] = 1]
  BY <1>2, <1>1, <1>3 DEF DispatchOnce, Conclude, Goto, Typed, TypeOK, ProcessesOK, HistoryOK
<1>5. ASSUME NEW o \in Proc, pc'[o] \in Holding
      PROVE  pc[o] \in Holding /\ Unit(o)' = Unit(o) /\ Unit(o) # Unit(p)
  BY <1>1, <1>3, <1>4, <1>5 DEF HeldOnce, Holding, Unit, Typed, TypeOK, ProcessesOK
<1>6. DirLasts' /\ SentSecure' /\ AtMostOneAttempt'
  BY <1>1, <1>2, <1>3, <1>4 DEF DirLasts, SentSecure, AtMostOneAttempt, fsVars, Typed, TypeOK,
                                HistoryOK
<1>7. HeldReserved' /\ HeldOnce'
  <2>1. \A o \in Proc : pc'[o] \in Holding => Unit(o) \in Plan
    BY <1>5, UnitInPlan DEF Holding, Unfinished
  <2> QED BY <1>3, <1>4, <1>5, <2>1 DEF HeldReserved, HeldOnce, Reserved, fsVars, Typed, TypeOK,
                                        HistoryOK
<1>8. HeldSecure'
  BY <1>3, <1>5 DEF HeldSecure, Covered, Holding, fsVars, Typed, TypeOK, ProcessesOK
<1> QED BY <1>1, <1>2, <1>4, <1>6, <1>7, <1>8

\* A power failure ends every run and keeps whatever was durable.
LEMMA PowerLossKeeps ==
  ASSUME OnceInv, PowerLoss, Typed'
  PROVE  /\ OnceInv'
         /\ \A q \in Plan : Reserved(q)' => Reserved(q)
         /\ \A q \in Plan : Reserved(q) /\ ~Reserved(q)' => attempts[q] = 0
         /\ UNCHANGED attempts
<1> USE DEF OnceInv
<1>1. dir = "durable"
  BY DEF PowerLoss, DirLasts, Typed, TypeOK, HistoryOK
<1>2. PICK lost \in SUBSET {q \in Plan : marker[q] = "volatile"} :
        /\ dir' = Secured(dir)
        /\ marker' = [q \in Plan |-> IF q \in lost THEN "absent" ELSE Secured(marker[q])]
  BY <1>1 DEF PowerLoss, LosePower
<1>3. UNCHANGED attempts
  BY DEF PowerLoss, history
<1>4. \A p \in Proc : pc'[p] \notin Holding
  BY DEF PowerLoss, Holding, Working, Typed, TypeOK, ProcessesOK
<1>5. DirLasts' /\ SentSecure' /\ AtMostOneAttempt'
  BY <1>1, <1>2, <1>3 DEF DirLasts, SentSecure, AtMostOneAttempt, Secured
<1>6. HeldReserved' /\ HeldOnce' /\ HeldSecure'
  BY <1>4 DEF HeldReserved, HeldOnce, HeldSecure, Covered, Holding
<1>7. \A q \in Plan : Reserved(q)' => Reserved(q)
  BY <1>2 DEF Reserved, Secured
<1>8. \A q \in Plan : Reserved(q) /\ ~Reserved(q)' => attempts[q] = 0
  BY <1>2 DEF Reserved, Secured, SentSecure, Typed, TypeOK, HistoryOK
<1> QED BY <1>3, <1>5, <1>6, <1>7, <1>8

\* The invariant of the markers holds at first.
LEMMA OnceInvInit == Lasting /\ Init => OnceInv
<1> SUFFICES ASSUME Lasting, Init PROVE OnceInv
  OBVIOUS
<1>1. Typed
  BY InitTyped
<1>2. DirLasts
  BY DEF Lasting, Init, FsInit, DirLasts
<1> QED BY <1>1, <1>2 DEF Init, OnceInv, HeldReserved, HeldOnce, HeldSecure, SentSecure,
                          AtMostOneAttempt, Holding, Covered

\* The invariant of the markers is inductive.
LEMMA OnceInvStep == OnceInv /\ [Next]_vars => OnceInv'
<1> SUFFICES ASSUME OnceInv, [Next]_vars PROVE OnceInv'
  OBVIOUS
<1>1. Typed'
  BY StepTyped DEF OnceInv
<1>2. CASE UNCHANGED vars
  BY <1>1, <1>2 DEF vars, fsVars, procVars, history, OnceInv, DirLasts, HeldReserved,
                    HeldOnce, HeldSecure, SentSecure, AtMostOneAttempt, Reserved, Unit
<1>3. ASSUME NEW p \in Proc, Start(p) \/ LocalStep(p) \/ Answer(p) \/ Crash(p)
      PROVE  OnceInv'
  BY <1>1, <1>3, StepKinds, QuietKeeps, ReservesKeeps, SendsKeeps
<1>4. CASE PowerLoss
  BY <1>1, <1>4, PowerLossKeeps
<1> QED BY <1>2, <1>3, <1>4 DEF Next, Terminating

-----------------------------------------------------------------------------
(* The theorems. *)

\* Every plan is sent at most once, and stays reserved once it is sent: on a
\* machine that keeps its power, or in a directory that an earlier run has
\* secured, whatever processes are killed and whatever system calls fail.
THEOREM AtMostOnce == Lasting /\ Spec => [](AtMostOneAttempt /\ SentStaysReserved)
<1>1. OnceInv => AtMostOneAttempt /\ SentStaysReserved
  BY DEF OnceInv, SentSecure, SentStaysReserved, Reserved
<1> QED BY <1>1, OnceInvInit, OnceInvStep, PTL DEF Spec

\* The same, as an implementation of the abstract specification OneAttempt.
THEOREM Refinement == Lasting /\ Spec => ImplementsOneAttempt
<1>1. Init => Promise!Init
  BY DEF Init, FsInit, Promise!Init, Reserved
<1>2. ASSUME OnceInv, [Next]_vars
      PROVE  [Promise!Next]_Promise!vars
  <2> USE <1>2
  <2>0. Typed /\ Typed'
    BY StepTyped DEF OnceInv
  <2>1. CASE UNCHANGED vars
    BY <2>1 DEF vars, fsVars, history, Promise!vars, Reserved
  <2>2. ASSUME NEW p \in Proc, Quiet(p)
        PROVE  UNCHANGED Promise!vars
    BY <2>2 DEF Quiet, MarkersKept, Promise!vars
  <2>3. ASSUME NEW p \in Proc, Reserves(p)
        PROVE  Promise!Reserve(Unit(p)) /\ Unit(p) \in Plan
    <3>1. Unit(p) \in Plan
      BY <2>0, <2>3, UnitInPlan DEF Reserves, CreateMarker, Unfinished
    <3> QED BY <2>0, <2>3, <3>1 DEF Reserves, CreateMarker, CreateMarkerFile, history, Reserved,
              Promise!Reserve, Typed, TypeOK, FilesOK
  <2>4. ASSUME NEW p \in Proc, Sends(p)
        PROVE  Promise!Attempt(Unit(p)) /\ Unit(p) \in Plan
    BY <2>0, <2>4, SendsKeeps DEF Sends, DispatchOnce, fsVars, Reserved, Promise!Attempt
  <2>5. CASE PowerLoss
    <3> DEFINE lost == {q \in Plan : Reserved(q) /\ ~Reserved(q)'}
    <3>1. Promise!Lose(lost)
      BY <2>0, <2>5, PowerLossKeeps DEF Promise!Lose
    <3> QED BY <3>1 DEF Promise!Next
  <2>6. ASSUME NEW p \in Proc, Start(p) \/ LocalStep(p) \/ Answer(p) \/ Crash(p)
        PROVE  [Promise!Next]_Promise!vars
    BY <2>2, <2>3, <2>4, <2>6, StepKinds DEF Promise!Next
  <2> QED BY <2>1, <2>5, <2>6 DEF Next, Terminating
<1> QED BY <1>1, <1>2, OnceInvInit, OnceInvStep, PTL DEF Spec, ImplementsOneAttempt, Promise!Spec

-----------------------------------------------------------------------------
(* The result files.                                                       *)

\* where a process owns the temporary file of its result
Filling == {"fill_temp", "link", "unlink"}

\* where the result of a process is published, if it ever will be
Past == {"unlink", "sync_result_dir", "report", "exited", "crashed"}

OwnTemp(p, whole) == [name |-> records[p], owner |-> p, whole |-> whole]
Published(p, durable) == [name |-> records[p], owner |-> p, whole |-> TRUE, durable |-> durable]

\* nobody else has a temporary file of that name
TempsOK ==
  \A p \in Proc : pc[p] \in Filling => TempOf(records[p]) = {OwnTemp(p, pc[p] # "fill_temp")}

ArtifactsWhole ==
  \A a \in artifacts :
    a.whole /\ a.name = records[a.owner] /\ Len(a.name) = NPlans /\ pc[a.owner] \in Past

NamesUnique == \A a, b \in artifacts : a.name = b.name => a = b

OwnPublished ==
  \A p \in Proc :
    /\ pc[p] \in {"unlink", "sync_result_dir"} =>
         \E durable \in BOOLEAN : Published(p, durable) \in artifacts
    /\ pc[p] = "report" \/ exit[p].code = 0 => Published(p, TRUE) \in artifacts

\* a plan is sent by one process
SentOnce ==
  /\ \A p \in Proc : \A q \in sentBy[p] : attempts[q] > 0
  /\ \A p, o \in Proc : sentBy[p] \cap sentBy[o] # {} => p = o

ResultInv ==
  OnceInv /\ RunInv /\ TempsOK /\ ArtifactsWhole /\ NamesUnique /\ OwnPublished /\ SentOnce

\* One process more has sent the plan, or nothing was sent.
LEMMA SendingOnce ==
  ASSUME ResultInv, NEW p \in Proc, StepOf(p)
  PROVE  SentOnce'
<1> USE DEF ResultInv
<1>1. Typed
  BY DEF OnceInv
<1>2. CASE Sends(p)
  <2>1. Unit(p) \in Plan /\ attempts[Unit(p)] = 0 /\ attempts' = [attempts EXCEPT ![Unit(p)] = 1]
    BY <1>1, <1>2, StepTyped, SendsKeeps DEF Next, StepOf, OnceInv
  <2>2. sentBy' = [sentBy EXCEPT ![p] = @ \cup {Unit(p)}]
    BY <1>1, <1>2 DEF Sends, DispatchOnce, Conclude, Goto, Typed, TypeOK, ProcessesOK
  <2>3. \A o \in Proc : Unit(p) \notin sentBy[o]
    BY <2>1 DEF SentOnce
  <2>4. \A o \in Proc : sentBy'[o] = IF o = p THEN sentBy[o] \cup {Unit(p)} ELSE sentBy[o]
    BY <1>1, <2>2 DEF Typed, TypeOK, HistoryOK
  <2>5. \A o \in Proc : sentBy[o] \subseteq Plan
    BY <1>1 DEF Typed, TypeOK, HistoryOK
  <2>6. \A q \in Plan : attempts'[q] = IF q = Unit(p) THEN 1 ELSE attempts[q]
    BY <1>1, <2>1 DEF Typed, TypeOK, HistoryOK
  <2>7. ASSUME NEW o \in Proc, NEW q \in sentBy'[o]
        PROVE  attempts'[q] > 0
    <3>1. CASE q = Unit(p)
      BY <2>1, <2>6, <3>1
    <3>2. CASE q # Unit(p)
      <4>1. q \in sentBy[o]
        BY <2>4, <2>7, <3>2
      <4>2. q \in Plan /\ attempts[q] > 0
        BY <2>5, <4>1 DEF SentOnce
      <4>3. QED  BY <2>6, <3>2, <4>2
    <3>3. QED  BY <3>1, <3>2
  <2>8. ASSUME NEW o \in Proc, NEW v \in Proc, NEW q, q \in sentBy'[o], q \in sentBy'[v]
        PROVE  o = v
    <3>1. CASE q = Unit(p)
      BY <2>3, <2>4, <2>8, <3>1
    <3>2. CASE q # Unit(p)
      <4>1. \A w \in Proc : q \in sentBy'[w] => q \in sentBy[w]
        BY <2>4, <3>2
      <4>2. QED  BY <2>8, <4>1 DEF SentOnce
    <3>3. QED  BY <3>1, <3>2
  <2>9. QED  BY <2>7, <2>8 DEF SentOnce
<1>3. CASE ~Sends(p)
  <2>1. UNCHANGED <<attempts, sentBy>>
    BY <1>3 DEF StepOf, LocalStep, Answer, Start, Preflight, PreflightTransport, DeadlinePreflight,
           VerifyEgress, CheckCredential, OpenStateDirectory, SyncParentDirectory, CreateMarker,
           WriteMarker, IssueCapability, RecheckDeadline, DispatchOnce, SendReturns, SendAborts,
           VerifyResult, OpenResultDirectory, SyncResultParent, CreateTemp, FillTemp, Sends,
           PublishResult, UnlinkTemp, SyncResultDirectory, Report, ResultUnchanged, Crash, history
  <2>2. QED  BY <2>1 DEF SentOnce
<1>4. QED  BY <1>2, <1>3

\* Two processes do not fill the temporary file of one name.
LEMMA FillingAlone ==
  ASSUME TempsOK, NEW p \in Proc, NEW o \in Proc, pc[p] \in Filling, pc[o] \in Filling,
         records[p] = records[o]
  PROVE  p = o
<1>1. OwnTemp(p, pc[p] # "fill_temp") \in TempOf(records[p])
  BY DEF TempsOK
<1>2. TempOf(records[o]) = {OwnTemp(o, pc[o] # "fill_temp")}
  BY DEF TempsOK
<1>3. OwnTemp(p, pc[p] # "fill_temp") = OwnTemp(o, pc[o] # "fill_temp")
  BY <1>1, <1>2
<1>4. QED  BY <1>3 DEF OwnTemp

\* What a step does to temporary files.
LEMMA TempSteps ==
  ASSUME Typed, NEW p \in Proc, StepOf(p)
  PROVE  \/ UNCHANGED temps /\ (pc'[p] \in Filling => pc[p] = "link" /\ pc'[p] = "unlink")
         \/ CreateTempFile(records[p], p) /\ pc[p] = "create_temp" /\ pc'[p] = "fill_temp"
         \/ FillTempFile(records[p], p) /\ pc[p] = "fill_temp" /\ pc'[p] = "link"
         \/ RemoveTempFile(records[p]) /\ pc[p] \in Filling /\ pc'[p] \notin Filling
<1> USE DEF Goto, Typed, TypeOK, ProcessesOK, Filling
<1>1. CASE CreateTemp(p)
  BY <1>1 DEF CreateTemp, PersistenceFailed, Exit, fsVars
<1>2. CASE FillTemp(p)
  BY <1>2 DEF FillTemp, Cleanup, PersistenceFailed, Exit, fsVars
<1>3. CASE PublishResult(p)
  BY <1>3 DEF PublishResult, LinkArtifact, Cleanup, PersistenceFailed, Exit, fsVars
<1>4. CASE UnlinkTemp(p)
  BY <1>4 DEF UnlinkTemp, Cleanup, PersistenceFailed, Exit, fsVars
<1>5. CASE OpenResultDirectory(p) \/ SyncResultParent(p) \/ SyncResultDirectory(p) \/ Report(p)
  BY <1>5 DEF OpenResultDirectory, SyncResultParent, SyncResultDirectory, Report, MakeDirectory,
              SyncParent, SyncDirectory, PersistenceFailed, Exit, fsVars
<1>6. CASE \/ Start(p) \/ Preflight(p) \/ PreflightTransport(p) \/ DeadlinePreflight(p)
           \/ VerifyEgress(p) \/ CheckCredential(p) \/ VerifyResult(p) \/ Crash(p)
  BY <1>6 DEF Start, Preflight, PreflightTransport, DeadlinePreflight, VerifyEgress,
              CheckCredential, VerifyResult, Crash, Conclude, Exit, fsVars
<1>7. CASE \/ OpenStateDirectory(p) \/ SyncParentDirectory(p) \/ CreateMarker(p)
           \/ WriteMarker(p) \/ IssueCapability(p)
  BY <1>7 DEF OpenStateDirectory, SyncParentDirectory, CreateMarker, WriteMarker, IssueCapability,
              BudgetNotReserved, MakeDirectory, SyncParent, SyncDirectory, CreateMarkerFile,
              Conclude, fsVars
<1>8. CASE RecheckDeadline(p) \/ DispatchOnce(p) \/ SendReturns(p) \/ SendAborts(p)
  BY <1>8 DEF RecheckDeadline, DispatchOnce, SendReturns, SendAborts, Conclude, Exit, fsVars
<1>9. QED  BY <1>1, <1>2, <1>3, <1>4, <1>5, <1>6, <1>7, <1>8 DEF StepOf, LocalStep, Answer

\* A process that has started on its result keeps its records.
LEMMA RecordsStay ==
  ASSUME Typed, NEW p \in Proc, StepOf(p), pc[p] \notin Unfinished
  PROVE  records'[p] = records[p]
<1>1. ControlStep(p)
  BY StepControl DEF StepOf
<1>2. QED  BY <1>1 DEF ControlStep, Moves, Concludes, Exits

\* The step of a process keeps the temporary files apart.
LEMMA TempsStay ==
  ASSUME ResultInv, NEW p \in Proc, StepOf(p)
  PROVE  TempsOK'
<1> USE DEF ResultInv
<1>1. Typed /\ TempsOK
  BY DEF RunInv
<1>2. \A o \in Proc \ {p} : pc'[o] = pc[o] /\ records'[o] = records[o]
  BY <1>1, OthersUntouched DEF Untouched
<1>3. ASSUME NEW o \in Proc, o # p, pc[o] \in Filling
      PROVE  {t \in temps' : t.name = records[o]} = TempOf(records[o])
  <2>1. TempOf(records[o]) = {OwnTemp(o, pc[o] # "fill_temp")}
    BY <1>1, <1>3 DEF TempsOK
  <2>2. CASE UNCHANGED temps
    BY <2>2 DEF TempOf
  <2>3. CASE CreateTempFile(records[p], p)
    <3>1. TempOf(records[p]) = {} /\ records[p] # records[o]
      BY <2>1, <2>3 DEF CreateTempFile
    <3>2. QED  BY <2>3, <3>1 DEF CreateTempFile, TempOf
  <2>4. CASE FillTempFile(records[p], p)
    <3>1. \A t \in TempOf(records[o]) : t.owner # p
      BY <1>3, <2>1 DEF OwnTemp
    <3>2. \A t \in temps : t.name = records[o] => t.owner # p
      BY <3>1 DEF TempOf
    <3>3. \A t \in temps : [t EXCEPT !.whole = TRUE].name = t.name
      BY <1>1 DEF Typed, TypeOK, FilesOK
    <3>4. QED  BY <2>4, <3>2, <3>3 DEF FillTempFile, TempOf
  <2>5. CASE RemoveTempFile(records[p]) /\ pc[p] \in Filling
    <3>1. records[p] # records[o]
      BY <1>1, <1>3, <2>5, FillingAlone
    <3>2. QED  BY <2>5, <3>1 DEF RemoveTempFile, TempOf
  <2>6. QED  BY <1>1, <2>2, <2>3, <2>4, <2>5, TempSteps
<1>4. ASSUME pc'[p] \in Filling
      PROVE  /\ records'[p] = records[p]
             /\ {t \in temps' : t.name = records[p]} = {OwnTemp(p, pc'[p] # "fill_temp")}
  <2>1. CASE UNCHANGED temps /\ pc[p] = "link" /\ pc'[p] = "unlink"
    BY <1>1, <2>1, RecordsStay DEF TempsOK, TempOf, Filling, Unfinished
  <2>2. CASE CreateTempFile(records[p], p) /\ pc[p] = "create_temp" /\ pc'[p] = "fill_temp"
    <3>1. TempOf(records[p]) = {} /\ temps' = temps \cup {OwnTemp(p, FALSE)}
      BY <2>2 DEF CreateTempFile, OwnTemp
    <3>2. OwnTemp(p, FALSE).name = records[p]
      BY DEF OwnTemp
    <3> DEFINE own == OwnTemp(p, FALSE)
    <3>3. (\A t \in temps : t.name # records[p]) /\ own.name = records[p]
      BY <3>1, <3>2 DEF TempOf
    <3> HIDE DEF own
    <3>4. {t \in temps \cup {own} : t.name = records[p]} = {own}
      BY <3>3
    <3>5. {t \in temps' : t.name = records[p]} = {OwnTemp(p, FALSE)}
      BY <3>1, <3>4 DEF own
    <3>6. QED  BY <1>1, <2>2, <3>5, RecordsStay DEF Unfinished
  <2>3. CASE FillTempFile(records[p], p) /\ pc[p] = "fill_temp" /\ pc'[p] = "link"
    <3>1. TempOf(records[p]) = {OwnTemp(p, FALSE)}
      BY <1>1, <2>3 DEF TempsOK, Filling
    <3>2. [OwnTemp(p, FALSE) EXCEPT !.whole = TRUE] = OwnTemp(p, TRUE) /\ OwnTemp(p, TRUE).name = records[p]
      <4> DEFINE r == OwnTemp(p, FALSE)
      <4>1. r.name = records[p] /\ r.owner = p /\ r \in [name : {records[p]}, owner : Proc, whole : BOOLEAN]
        BY DEF OwnTemp
      <4>2. OwnTemp(p, TRUE) = [name |-> records[p], owner |-> p, whole |-> TRUE]
        BY DEF OwnTemp
      <4> HIDE DEF r
      <4> DEFINE f == [r EXCEPT !.whole = TRUE]
      <4>3. /\ f.name = r.name /\ f.owner = r.owner /\ f.whole = TRUE
            /\ f \in [name : {records[p]}, owner : Proc, whole : BOOLEAN]
        BY <4>1
      <4> HIDE DEF f
      <4>4. f = [name |-> f.name, owner |-> f.owner, whole |-> f.whole]
        BY <4>3
      <4>5. QED  BY <4>1, <4>2, <4>3, <4>4 DEF r, f, OwnTemp
    <3>3. \A t \in temps : t.name = records[p] => t = OwnTemp(p, FALSE)
      BY <3>1 DEF TempOf
    <3>4. OwnTemp(p, FALSE) \in temps /\ OwnTemp(p, FALSE).name = records[p] /\ OwnTemp(p, FALSE).owner = p
      BY <3>1 DEF TempOf, OwnTemp
    <3> DEFINE filled(t) == IF t.name = records[p] /\ t.owner = p THEN [t EXCEPT !.whole = TRUE] ELSE t
    <3>5. temps' = {filled(t) : t \in temps} /\ filled(OwnTemp(p, FALSE)) = OwnTemp(p, TRUE)
      BY <2>3, <3>2, <3>4 DEF FillTempFile
    <3>6. \A t \in temps : t # OwnTemp(p, FALSE) => filled(t) = t /\ t.name # records[p]
      BY <3>3
    <3> HIDE DEF filled
    <3>7. {t \in temps' : t.name = records[p]} = {OwnTemp(p, TRUE)}
      <4>1. OwnTemp(p, TRUE) \in temps'
        BY <3>4, <3>5
      <4>2. ASSUME NEW t \in temps', t.name = records[p] PROVE t = OwnTemp(p, TRUE)
        BY <4>2, <3>5, <3>6
      <4>3. QED  BY <3>2, <4>1, <4>2
    <3>8. QED  BY <1>1, <2>3, <3>7, RecordsStay DEF Unfinished
  <2>4. QED  BY <1>1, <1>4, <2>1, <2>2, <2>3, TempSteps
<1>5. ASSUME NEW o \in Proc, pc'[o] \in Filling
      PROVE  {t \in temps' : t.name = records'[o]} =
               {[name |-> records'[o], owner |-> o, whole |-> pc'[o] # "fill_temp"]}
  BY <1>1, <1>2, <1>3, <1>4, <1>5 DEF OwnTemp, TempsOK
<1>6. QED  BY <1>5 DEF TempsOK, TempOf, OwnTemp

\* What a step does to published results: it links one, secures them all, or
\* leaves them alone.
LEMMA ArtifactSteps ==
  ASSUME Typed, NEW p \in Proc, StepOf(p)
  PROVE  \/ /\ LinkArtifact(records[p]) /\ pc[p] = "link" /\ pc'[p] = "unlink" /\ UNCHANGED exit
         \/ /\ UNCHANGED artifacts
            /\ pc'[p] \in Past \ {"crashed"} =>
                 \/ pc[p] = "unlink" /\ pc'[p] = "sync_result_dir" /\ UNCHANGED exit
                 \/ pc'[p] = "exited" /\ (exit'[p].code = 0 => pc[p] = "report")
            /\ pc'[p] # "exited" => UNCHANGED exit
         \/ /\ SyncDirectory /\ UNCHANGED exit
            /\ \/ pc'[p] \notin Past
               \/ pc[p] = "sync_result_dir" /\ pc'[p] = "report"
<1> USE DEF Goto, Typed, TypeOK, ProcessesOK, Past
<1>1. CASE PublishResult(p)
  BY <1>1 DEF PublishResult, Cleanup, RemoveTempFile, PersistenceFailed, Exit, fsVars
<1>2. CASE SyncResultDirectory(p)
  BY <1>2 DEF SyncResultDirectory, PersistenceFailed, Exit, fsVars
<1>3. CASE IssueCapability(p)
  BY <1>3 DEF IssueCapability, BudgetNotReserved, Conclude, fsVars
<1>4. CASE UnlinkTemp(p) \/ FillTemp(p) \/ CreateTemp(p)
  BY <1>4 DEF UnlinkTemp, FillTemp, CreateTemp, CreateTempFile, FillTempFile, RemoveTempFile, Cleanup,
              PersistenceFailed, Exit, fsVars
<1>5. CASE OpenResultDirectory(p) \/ SyncResultParent(p)
  BY <1>5 DEF OpenResultDirectory, SyncResultParent, MakeDirectory, SyncParent, PersistenceFailed,
              Exit, fsVars
<1>6. CASE Report(p) \/ VerifyResult(p)
  BY <1>6 DEF Report, VerifyResult, Exit, fsVars
<1>7. CASE \/ Start(p) \/ Preflight(p) \/ PreflightTransport(p) \/ DeadlinePreflight(p)
           \/ VerifyEgress(p) \/ CheckCredential(p) \/ Crash(p)
  BY <1>7 DEF Start, Preflight, PreflightTransport, DeadlinePreflight, VerifyEgress,
              CheckCredential, Crash, Conclude, Exit, fsVars
<1>8. CASE \/ OpenStateDirectory(p) \/ SyncParentDirectory(p) \/ CreateMarker(p) \/ WriteMarker(p)
  BY <1>8 DEF OpenStateDirectory, SyncParentDirectory, CreateMarker, WriteMarker,
              BudgetNotReserved, MakeDirectory, SyncParent, CreateMarkerFile, Conclude, fsVars
<1>9. CASE RecheckDeadline(p) \/ DispatchOnce(p) \/ SendReturns(p) \/ SendAborts(p)
  BY <1>9 DEF RecheckDeadline, DispatchOnce, SendReturns, SendAborts, Conclude, Exit, fsVars
<1>10. QED  BY <1>1, <1>2, <1>3, <1>4, <1>5, <1>6, <1>7, <1>8, <1>9 DEF StepOf, LocalStep, Answer

\* A process that has published keeps its records and does not go back.
LEMMA PastStays ==
  ASSUME Typed, NEW p \in Proc, StepOf(p), NEW o \in Proc, pc[o] \in Past
  PROVE  pc'[o] \in Past /\ records'[o] = records[o]
<1>1. CASE o # p
  BY <1>1, OthersUntouched DEF Untouched
<1>2. CASE o = p
  <2>1. pc'[p] \in Past
    BY <1>2 DEF StepOf, LocalStep, Answer, Start, Preflight, PreflightTransport, DeadlinePreflight,
       VerifyEgress, CheckCredential, OpenStateDirectory, SyncParentDirectory, CreateMarker,
       WriteMarker, IssueCapability, RecheckDeadline, DispatchOnce, SendReturns, SendAborts,
       VerifyResult, OpenResultDirectory, SyncResultParent, CreateTemp, FillTemp, PublishResult,
       UnlinkTemp, SyncResultDirectory, Report, Crash, Cleanup, PersistenceFailed, Exit, Goto,
       Past, Typed, TypeOK, ProcessesOK
  <2>2. QED  BY <1>2, <2>1, RecordsStay DEF Past, Unfinished
<1>3. QED  BY <1>1, <1>2

\* Securing entries changes nothing of them but that.
LEMMA Securing ==
  ASSUME Typed, NEW a \in artifacts
  PROVE  LET s == [a EXCEPT !.durable = TRUE] IN
         /\ s.name = a.name /\ s.owner = a.owner /\ s.whole = a.whole
         /\ s = [name |-> a.name, owner |-> a.owner, whole |-> a.whole, durable |-> TRUE]
<1> DEFINE s == [a EXCEPT !.durable = TRUE]
<1>1. a \in Artifact
  BY DEF Typed, TypeOK, FilesOK, Artifact
<1>2. s \in Artifact /\ s.name = a.name /\ s.owner = a.owner /\ s.whole = a.whole /\ s.durable = TRUE
  BY <1>1 DEF Artifact
<1> HIDE DEF s
<1>3. s = [name |-> s.name, owner |-> s.owner, whole |-> s.whole, durable |-> s.durable]
  BY <1>2 DEF Artifact
<1>4. QED  BY <1>2, <1>3 DEF s

\* the artifacts of the next state are some of this one's, secured or not
Carried ==
  \A b \in artifacts' :
    \E a \in artifacts :
      /\ b.name = a.name /\ b.owner = a.owner /\ b.whole = a.whole
      /\ b = a \/ b = [a EXCEPT !.durable = TRUE]

\* They stay whole, and the owners do not go back.
LEMMA CarriedWhole ==
  ASSUME Typed, ArtifactsWhole, Carried,
         \A o \in Proc : pc[o] \in Past => pc'[o] \in Past /\ records'[o] = records[o]
  PROVE  ArtifactsWhole'
<1>1. \A a \in artifacts : a.owner \in Proc
  BY DEF Typed, TypeOK, FilesOK
<1>2. ASSUME NEW b \in artifacts'
      PROVE  b.whole /\ b.name = records'[b.owner] /\ Len(b.name) = NPlans /\ pc'[b.owner] \in Past
  <2>1. PICK a \in artifacts : b.name = a.name /\ b.owner = a.owner /\ b.whole = a.whole
    BY DEF Carried
  <2>2. QED  BY <1>1, <2>1 DEF ArtifactsWhole
<1>3. QED  BY <1>2 DEF ArtifactsWhole

\* If all of them are secured, or none, they keep unique names.
LEMMA SecuredUnique ==
  ASSUME NamesUnique, Typed, NEW kept, kept \subseteq artifacts,
         artifacts' = {[a EXCEPT !.durable = TRUE] : a \in kept}
  PROVE  NamesUnique' /\ Carried
<1>1. \A a \in kept : [a EXCEPT !.durable = TRUE].name = a.name
  BY Securing
<1>2. NamesUnique'
  <2> SUFFICES ASSUME NEW b \in artifacts', NEW c \in artifacts', b.name = c.name PROVE b = c
    BY DEF NamesUnique
  <2>1. PICK x \in kept : b = [x EXCEPT !.durable = TRUE]
    OBVIOUS
  <2>2. PICK y \in kept : c = [y EXCEPT !.durable = TRUE]
    OBVIOUS
  <2>3. x.name = y.name
    BY <1>1, <2>1, <2>2
  <2>4. x = y
    BY <2>3 DEF NamesUnique
  <2>5. QED  BY <2>1, <2>2, <2>4
<1>3. Carried
  <2> SUFFICES ASSUME NEW b \in artifacts'
               PROVE  \E a \in artifacts :
                        /\ b.name = a.name /\ b.owner = a.owner /\ b.whole = a.whole
                        /\ b = a \/ b = [a EXCEPT !.durable = TRUE]
    BY DEF Carried
  <2>1. PICK x \in kept : b = [x EXCEPT !.durable = TRUE]
    OBVIOUS
  <2>2. x \in artifacts
    OBVIOUS
  <2>3. b.name = x.name /\ b.owner = x.owner /\ b.whole = x.whole
    BY <2>1, <2>2, Securing
  <2>4. QED  BY <2>1, <2>2, <2>3
<1>4. QED  BY <1>2, <1>3

\* What is durable stays, and what is secured becomes durable.
LEMMA SecuredPublished ==
  ASSUME Typed, NEW p \in Proc, NEW durable \in BOOLEAN, Published(p, durable) \in artifacts
  PROVE  [Published(p, durable) EXCEPT !.durable = TRUE] = Published(p, TRUE)
<1> DEFINE a == Published(p, durable)
<1>1. a.name = records[p] /\ a.owner = p /\ a.whole = TRUE
  BY DEF Published
<1>2. Published(p, TRUE) = [name |-> records[p], owner |-> p, whole |-> TRUE, durable |-> TRUE]
  BY DEF Published
<1> HIDE DEF a
<1>3. a \in artifacts
  BY DEF a
<1>4. [a EXCEPT !.durable = TRUE] =
        [name |-> a.name, owner |-> a.owner, whole |-> a.whole, durable |-> TRUE]
  BY <1>3, Securing
<1>5. QED  BY <1>1, <1>2, <1>4 DEF a

\* The step of a process keeps what is published.
LEMMA PublishedStays ==
  ASSUME ResultInv, NEW p \in Proc, StepOf(p)
  PROVE  ArtifactsWhole' /\ NamesUnique' /\ OwnPublished'
<1> USE DEF ResultInv
<1>1. Typed /\ TempsOK /\ ArtifactsWhole /\ NamesUnique /\ OwnPublished
  BY DEF RunInv
<1>2. \A o \in Proc \ {p} : pc'[o] = pc[o] /\ records'[o] = records[o] /\ exit'[o] = exit[o]
  BY <1>1, OthersUntouched DEF Untouched
<1>3. \A o \in Proc : pc[o] \in Past => pc'[o] \in Past /\ records'[o] = records[o]
  BY <1>1, PastStays
<1>4. \A o \in Proc : exit[o].code = 0 => pc[o] = "exited"
  BY DEF RunInv, RunOK, Reports, Running
<1>5. pc[p] # "exited"
  BY DEF StepOf, LocalStep, Answer, Start, Preflight, PreflightTransport, DeadlinePreflight,
         VerifyEgress, CheckCredential, OpenStateDirectory, SyncParentDirectory, CreateMarker,
         WriteMarker, IssueCapability, RecheckDeadline, DispatchOnce, SendReturns, SendAborts,
         VerifyResult, OpenResultDirectory, SyncResultParent, CreateTemp, FillTemp, PublishResult,
         UnlinkTemp, SyncResultDirectory, Report, Crash, Working
<1>6. CASE /\ LinkArtifact(records[p]) /\ pc[p] = "link" /\ pc'[p] = "unlink" /\ UNCHANGED exit
  <2> DEFINE new == Published(p, FALSE)
  <2>1. TempOf(records[p]) = {OwnTemp(p, TRUE)}
    BY <1>1, <1>6 DEF TempsOK, Filling
  <2>2. artifacts' = artifacts \cup {new}
    <3>1. /\ OwnTemp(p, TRUE).name = records[p] /\ OwnTemp(p, TRUE).owner = p
          /\ OwnTemp(p, TRUE).whole = TRUE
      BY DEF OwnTemp
    <3>2. QED  BY <1>6, <2>1, <3>1 DEF LinkArtifact, Published
  <2>3. \A a \in artifacts : a.name # records[p]
    BY <1>6 DEF LinkArtifact, ArtifactOf
  <2>4. /\ new.name = records[p] /\ new.owner = p /\ new.whole = TRUE
        /\ records'[p] = records[p] /\ Len(records[p]) = NPlans
    BY <1>1, <1>6, RecordsStay DEF Published, RunInv, RunOK, Covers, Concluded, Unfinished
  <2> HIDE DEF new
  <2>5. ASSUME NEW a \in artifacts'
        PROVE  a.whole /\ a.name = records'[a.owner] /\ Len(a.name) = NPlans /\ pc'[a.owner] \in Past
    <3>1. CASE a = new
      BY <1>6, <2>4, <3>1 DEF Past
    <3>2. CASE a \in artifacts
      <4>1. a.owner \in Proc
        BY <1>1, <3>2 DEF Typed, TypeOK, FilesOK
      <4>2. QED  BY <1>1, <1>3, <3>2, <4>1 DEF ArtifactsWhole
    <3>3. QED  BY <2>2, <3>1, <3>2
  <2>6. NamesUnique'
    BY <1>1, <2>2, <2>3, <2>4 DEF NamesUnique
  <2>7. ASSUME NEW o \in Proc
        PROVE  /\ pc'[o] \in {"unlink", "sync_result_dir"} =>
                    \E durable \in BOOLEAN : Published(o, durable)' \in artifacts'
               /\ pc'[o] = "report" \/ exit'[o].code = 0 => Published(o, TRUE)' \in artifacts'
    <3>1. CASE o = p
      <4>1. Published(p, FALSE)' = new
        BY <2>4 DEF Published, new
      <4>2. exit'[p].code # 0 /\ pc'[p] # "report"
        BY <1>4, <1>5, <1>6
      <4>3. QED  BY <2>2, <3>1, <4>1, <4>2
    <3>2. CASE o # p
      <4>1. \A durable : Published(o, durable)' = Published(o, durable)
        BY <1>2, <3>2 DEF Published
      <4>2. QED  BY <1>1, <1>2, <2>2, <3>2, <4>1 DEF OwnPublished
    <3>3. QED  BY <3>1, <3>2
  <2>8. QED  BY <2>5, <2>6, <2>7 DEF ArtifactsWhole, OwnPublished
<1>7. CASE /\ UNCHANGED artifacts
           /\ pc'[p] \in Past \ {"crashed"} =>
                \/ pc[p] = "unlink" /\ pc'[p] = "sync_result_dir" /\ UNCHANGED exit
                \/ pc'[p] = "exited" /\ (exit'[p].code = 0 => pc[p] = "report")
           /\ pc'[p] # "exited" => UNCHANGED exit
  <2>1. Carried
    BY <1>7 DEF Carried
  <2>2. ArtifactsWhole' /\ NamesUnique'
    BY <1>1, <1>3, <1>7, <2>1, CarriedWhole DEF NamesUnique
  <2>3. ASSUME NEW o \in Proc
        PROVE  /\ pc'[o] \in {"unlink", "sync_result_dir"} =>
                    \E durable \in BOOLEAN : Published(o, durable)' \in artifacts'
               /\ pc'[o] = "report" \/ exit'[o].code = 0 => Published(o, TRUE)' \in artifacts'
    <3>1. CASE o = p
      <4>1. pc[p] \in Past => \A durable : Published(p, durable)' = Published(p, durable)
        BY <1>3 DEF Published
      <4>2. CASE pc'[p] = "exited" /\ exit'[p].code = 0
        BY <1>1, <1>7, <3>1, <4>1, <4>2 DEF OwnPublished, Past
      <4>3. CASE ~(pc'[p] = "exited" /\ exit'[p].code = 0)
        <5>1. exit'[p].code # 0
          BY <1>4, <1>5, <1>7, <4>3
        <5>2. QED  BY <1>1, <1>7, <3>1, <4>1, <5>1 DEF OwnPublished, Past
      <4>4. QED  BY <4>2, <4>3
    <3>2. CASE o # p
      <4>1. \A durable : Published(o, durable)' = Published(o, durable)
        BY <1>2, <3>2 DEF Published
      <4>2. QED  BY <1>1, <1>2, <1>7, <3>2, <4>1 DEF OwnPublished
    <3>3. QED  BY <3>1, <3>2
  <2>4. QED  BY <2>2, <2>3 DEF OwnPublished
<1>8. CASE /\ SyncDirectory /\ UNCHANGED exit
           /\ pc'[p] \notin Past \/ (pc[p] = "sync_result_dir" /\ pc'[p] = "report")
  <2>1. artifacts' = {[a EXCEPT !.durable = TRUE] : a \in artifacts}
    BY <1>8 DEF SyncDirectory
  <2>2. ArtifactsWhole' /\ NamesUnique'
    BY <1>1, <1>3, <2>1, SecuredUnique, CarriedWhole
  <2>3. ASSUME NEW o \in Proc, NEW durable \in BOOLEAN, Published(o, durable) \in artifacts
        PROVE  Published(o, TRUE) \in artifacts'
    BY <1>1, <2>1, <2>3, SecuredPublished
  <2>4. ASSUME NEW o \in Proc
        PROVE  /\ pc'[o] \in {"unlink", "sync_result_dir"} =>
                    \E durable \in BOOLEAN : Published(o, durable)' \in artifacts'
               /\ pc'[o] = "report" \/ exit'[o].code = 0 => Published(o, TRUE)' \in artifacts'
    <3>1. CASE o = p
      <4>1. CASE pc'[p] \notin Past
        BY <1>4, <1>5, <1>8, <3>1, <4>1 DEF Past
      <4>2. CASE pc[p] = "sync_result_dir" /\ pc'[p] = "report"
        <5>1. Published(p, TRUE)' = Published(p, TRUE)
          BY <1>3, <4>2 DEF Published, Past
        <5>2. PICK durable \in BOOLEAN : Published(p, durable) \in artifacts
          BY <1>1, <4>2 DEF OwnPublished
        <5>3. QED  BY <2>3, <3>1, <4>2, <5>1, <5>2
      <4>3. QED  BY <1>8, <4>1, <4>2
    <3>2. CASE o # p
      <4>1. \A durable : Published(o, durable)' = Published(o, durable)
        BY <1>2, <3>2 DEF Published
      <4>2. pc'[o] \in {"unlink", "sync_result_dir"} => Published(o, TRUE) \in artifacts'
        BY <1>1, <1>2, <2>3, <3>2 DEF OwnPublished
      <4>3. pc'[o] = "report" \/ exit'[o].code = 0 => Published(o, TRUE) \in artifacts'
        BY <1>1, <1>2, <2>3, <3>2 DEF OwnPublished
      <4>4. QED  BY <4>1, <4>2, <4>3
    <3>3. QED  BY <3>1, <3>2
  <2>5. QED  BY <2>2, <2>4 DEF OwnPublished
<1>9. QED  BY <1>1, <1>6, <1>7, <1>8, ArtifactSteps

\* A power failure takes nothing that was secured, if the directory was.
LEMMA PowerLossSparesResults ==
  ASSUME ResultInv, PowerLoss
  PROVE  TempsOK' /\ ArtifactsWhole' /\ NamesUnique' /\ OwnPublished' /\ SentOnce'
<1> USE DEF ResultInv
<1>1. Typed /\ ArtifactsWhole /\ NamesUnique /\ OwnPublished /\ DirLasts
  BY DEF RunInv, OnceInv
<1>2. dir = "durable"
  BY <1>1 DEF PowerLoss, DirLasts, Typed, TypeOK, HistoryOK
<1>3. PICK lost \in SUBSET {a \in artifacts : ~a.durable} :
        artifacts' = {[a EXCEPT !.durable = TRUE] : a \in artifacts \ lost}
  BY <1>2 DEF PowerLoss, LosePower
<1>4. UNCHANGED <<records, exit, attempts, sentBy>>
  BY DEF PowerLoss, history
<1>5. \A o \in Proc : pc'[o] = IF pc[o] \in Working THEN "crashed" ELSE pc[o]
  BY DEF PowerLoss
<1>6. TempsOK'
  BY <1>5 DEF TempsOK, Filling, Working
<1>7. \A o \in Proc : pc[o] \in Past => pc'[o] \in Past /\ records'[o] = records[o]
  BY <1>4, <1>5 DEF Past
<1>8. ArtifactsWhole' /\ NamesUnique'
  BY <1>1, <1>3, <1>7, SecuredUnique, CarriedWhole
<1>9. OwnPublished'
  <2> SUFFICES ASSUME NEW o \in Proc
               PROVE  /\ pc'[o] \notin {"unlink", "sync_result_dir", "report"}
                      /\ exit'[o].code = 0 => Published(o, TRUE)' \in artifacts'
    BY DEF OwnPublished
  <2>1. pc'[o] \notin {"unlink", "sync_result_dir", "report"}
    BY <1>5 DEF Working
  <2>2. ASSUME exit'[o].code = 0 PROVE Published(o, TRUE)' \in artifacts'
    <3>1. Published(o, TRUE) \in artifacts
      BY <1>1, <1>4, <2>2 DEF OwnPublished
    <3>2. Published(o, TRUE).durable = TRUE /\ Published(o, TRUE)' = Published(o, TRUE)
      BY <1>4 DEF Published
    <3>3. Published(o, TRUE) \in artifacts \ lost
      BY <3>1, <3>2
    <3>4. [Published(o, TRUE) EXCEPT !.durable = TRUE] = Published(o, TRUE)
      BY <1>1, <3>1, SecuredPublished
    <3>5. QED  BY <1>3, <3>2, <3>3, <3>4
  <2>3. QED  BY <2>1, <2>2
<1>10. SentOnce'
  BY <1>4 DEF SentOnce
<1>11. QED  BY <1>6, <1>8, <1>9, <1>10

\* The invariant of the results holds at first.
LEMMA ResultInvInit == Lasting /\ Init => ResultInv
<1> SUFFICES ASSUME Lasting, Init PROVE ResultInv
  OBVIOUS
<1>1. OnceInv /\ RunInv
  BY OnceInvInit, RunInvInit
<1>2. \A p \in Proc : pc[p] = "idle" /\ exit[p] = Running /\ sentBy[p] = {}
  BY DEF Init
<1>3. artifacts = {}
  BY DEF Init, FsInit
<1>4. Running.code # 0
  BY DEF Running
<1>5. TempsOK /\ OwnPublished
  BY <1>2, <1>4 DEF TempsOK, OwnPublished, Filling
<1>6. QED  BY <1>1, <1>2, <1>3, <1>5 DEF ResultInv, ArtifactsWhole, NamesUnique, SentOnce

\* The invariant of the results is inductive.
LEMMA ResultInvStep == ResultInv /\ [Next]_vars => ResultInv'
<1> SUFFICES ASSUME ResultInv, [Next]_vars PROVE ResultInv'
  OBVIOUS
<1>1. OnceInv' /\ RunInv'
  BY OnceInvStep, RunInvStep DEF ResultInv
<1>2. CASE UNCHANGED vars
  BY <1>1, <1>2 DEF vars, fsVars, procVars, history, ResultInv, TempsOK, TempOf, OwnTemp,
                    ArtifactsWhole, NamesUnique, OwnPublished, Published, SentOnce
<1>3. ASSUME NEW p \in Proc, StepOf(p) PROVE ResultInv'
  BY <1>1, <1>3, SendingOnce, TempsStay, PublishedStays DEF ResultInv
<1>4. CASE PowerLoss
  BY <1>1, <1>4, PowerLossSparesResults DEF ResultInv
<1>5. QED  BY <1>2, <1>3, <1>4 DEF Next, Terminating, StepOf

\* A published result is whole, under a name of its own; a run that reports
\* success has its own on the disk, and no other run sent anything.
THEOREM WholeResults == Lasting /\ Spec => []ResultsAreWhole
<1>1. ASSUME ResultInv PROVE ResultsAreWhole
  <2> USE <1>1 DEF ResultInv
  <2>1. \A a \in artifacts :
          /\ a.whole /\ a.name = records[a.owner] /\ Len(a.name) = NPlans
          /\ \A b \in artifacts : b.name = a.name => b = a
    BY DEF ArtifactsWhole, NamesUnique
  <2>2. ASSUME NEW p \in Proc, exit[p].code = 0
        PROVE  /\ [name |-> records[p], owner |-> p, whole |-> TRUE, durable |-> TRUE] \in artifacts
               /\ \A other \in Proc \ {p} : sentBy[other] = {}
    <3>1. [name |-> records[p], owner |-> p, whole |-> TRUE, durable |-> TRUE] \in artifacts
      BY <2>2 DEF OwnPublished, Published
    <3>2. sentBy[p] = Plan
      BY <2>2 DEF RunInv, RunOK, Reports, Truthful, Running
    <3>3. \A other \in Proc : sentBy[other] \subseteq Plan
      BY DEF RunInv, Typed, TypeOK, HistoryOK
    <3>4. QED  BY <3>1, <3>2, <3>3 DEF SentOnce
  <2>3. QED  BY <2>1, <2>2 DEF ResultsAreWhole
<1>2. QED  BY <1>1, ResultInvInit, ResultInvStep, PTL DEF Spec
=============================================================================
