----------------------- MODULE DocumentCampaignProofs -----------------------
(***************************************************************************)
(* Document campaigns and single runs, for any runs, documents, replies    *)
(* and faults: type correctness, the refinement of OneAttempt, that every  *)
(* end has the cause it names, and that receipts are true. With power      *)
(* failures the refinement and the receipts need a state directory that    *)
(* was durable at the start.                                               *)
(***************************************************************************)
EXTENDS DocumentCampaign, SequenceTheorems, TLAPS

ExitType == [code : {0, 2, 3, 99}, attempted : Attempted, why : Reason]
TodoName == Names \cup {"marker", "campaign"}

\* a run goes on at another place
Goes(p) == \E place \in PC : Goto(p, place) /\ UNCHANGED exit

\* a run ends
Ends(p) == Goto(p, "exited") /\ exit' \in [Proc -> ExitType]

LEMMA UnitTyped ==
  ASSUME RunsOK, NEW p \in Proc
  PROVE  Unit(p) \in Plan
BY JobAssumption DEF RunsOK, Unit, Plans

LEMMA ExitEnds ==
  ASSUME RunsOK, NEW p \in Proc,
         NEW code \in {0, 2, 3}, NEW attempted \in Attempted, NEW why \in Reason,
         Exit(p, code, attempted, why)
  PROVE  Ends(p)
<1> DEFINE final == [code |-> code, attempted |-> attempted, why |-> why]
<1>1. final \in ExitType
  <2>1. code \in {0, 2, 3, 99}
    OBVIOUS
  <2> QED BY <2>1 DEF ExitType
<1>2. exit' = [exit EXCEPT ![p] = final] /\ Goto(p, "exited")
  BY DEF Exit
<1> QED BY <1>1, <1>2 DEF RunsOK, Ends, ExitType

LEMMA ErrorsEnd ==
  ASSUME RunsOK, NEW p \in Proc, NEW why \in Reason,
         Refused(p, why) \/ Unwritten(p, why) \/ Raises(p, why)
  PROVE  Ends(p)
<1>1. \E code \in {0, 2, 3}, attempted \in Attempted : Exit(p, code, attempted, why)
  BY DEF Refused, Unwritten, Raises, Attempted
<1> QED BY <1>1, ExitEnds

LEMMA WriteFailsEnds ==
  ASSUME RunsOK, NEW p \in Proc, NEW why \in {"exists", "os_error"}, WriteFails(p, why)
  PROVE  Ends(p)
<1>1. /\ "attempt_already_consumed" \in Reason /\ "os_error" \in Reason
      /\ "artifact_collision" \in Reason /\ "live_materialization_error" \in Reason
  BY DEF Reason
<1>2. \/ Refused(p, "attempt_already_consumed") \/ Raises(p, "os_error")
      \/ Unwritten(p, "artifact_collision") \/ Unwritten(p, "live_materialization_error")
  <2>1. CASE Head(todo[p]) = "marker" /\ why = "exists"
    BY <2>1 DEF WriteFails
  <2>2. CASE Head(todo[p]) = "marker" /\ why = "os_error"
    BY <2>2 DEF WriteFails
  <2>3. CASE Head(todo[p]) # "marker"
    BY <2>3 DEF WriteFails
  <2> QED BY <2>1, <2>2, <2>3
<1> QED BY <1>1, <1>2, ErrorsEnd

LEMMA SyncedTyped ==
  ASSUME FilesOK, NEW path
  PROVE  Synced(path) \subseteq File
BY DEF FilesOK, Synced, Secure, File

LEMMA PathTyped ==
  ASSUME RunsOK, NEW p \in Proc, todo[p] # <<>>, NEW flag \in BOOLEAN
  PROVE  LET path == Path(p, Head(todo[p])) IN
           [place |-> path.place, plan |-> path.plan, name |-> path.name,
            owner |-> p, durable |-> flag] \in File
<1>1. Head(todo[p]) \in TodoName
  BY DEF RunsOK, TodoName
<1> QED
  BY <1>1, UnitTyped, JobAssumption DEF Path, File, TodoName

\* Steps that move or end a run and leave what it has to write alone.
LEMMA MovesTyped ==
  ASSUME RunsOK, NEW p \in Proc, Goes(p) \/ Ends(p),
         pc'[p] \in {"check", "link", "sync", "written"} => todo[p] # <<>>,
         UNCHANGED memory
  PROVE  RunsOK'
<1>1. pc' \in [Proc -> PC]
  <2>1. \E place \in PC : pc' = [pc EXCEPT ![p] = place]
    BY DEF Goes, Ends, Goto, PC
  <2> QED BY <2>1 DEF RunsOK
<1>2. \A o \in Proc : pc'[o] \in {"check", "link", "sync", "written"} => todo'[o] # <<>>
  BY DEF RunsOK, Goes, Ends, Goto, memory
<1>3. exit' \in [Proc -> ExitType]
  BY DEF RunsOK, Goes, Ends, ExitType
<1> QED BY <1>1, <1>2, <1>3 DEF RunsOK, memory, Plans, ExitType
\* Steps that also set what it has to write.
LEMMA TodoTyped ==
  ASSUME RunsOK, NEW p \in Proc, Goes(p) \/ Ends(p),
         NEW names \in Seq(TodoName), todo' = [todo EXCEPT ![p] = names],
         pc'[p] \in {"check", "link", "sync", "written"} => names # <<>>,
         elapsed' \in [Proc -> Nat], tokens' \in [Proc -> Nat], replies' \in [Proc -> Seq(Reply)],
         nth' = nth \/ (nth' = [nth EXCEPT ![p] = @ + 1] /\ nth[p] < Len(Plans(p)))
  PROVE  RunsOK'
<1>1. pc' \in [Proc -> PC]
  <2>1. \E place \in PC : pc' = [pc EXCEPT ![p] = place]
    BY DEF Goes, Ends, Goto, PC
  <2> QED BY <2>1 DEF RunsOK
<1>2. \A o \in Proc : pc'[o] \in {"check", "link", "sync", "written"} => todo'[o] # <<>>
  BY DEF RunsOK, Goes, Ends, Goto
<1>3. exit' \in [Proc -> ExitType]
  BY DEF RunsOK, Goes, Ends, ExitType
<1>4. todo' \in [Proc -> Seq(TodoName)]
  BY DEF RunsOK, TodoName
<1>5. nth' \in [Proc -> Nat] /\ \A o \in Proc : nth'[o] \in DOMAIN Plans(o)
  <2>1. Plans(p) \in Seq(Plan)
    BY JobAssumption DEF Plans
  <2>2. CASE nth' = nth
    BY <2>2 DEF RunsOK
  <2>3. CASE nth' = [nth EXCEPT ![p] = @ + 1] /\ nth[p] < Len(Plans(p))
    <3>1. nth[p] + 1 \in Nat /\ nth[p] + 1 \in DOMAIN Plans(p)
      BY <2>1, <2>3 DEF RunsOK
    <3> QED BY <2>3, <3>1 DEF RunsOK
  <2> QED BY <2>2, <2>3
<1> QED BY <1>1, <1>2, <1>3, <1>4, <1>5 DEF RunsOK, Plans, ExitType, TodoName

LEMMA ArtifactsTyped ==
  ASSUME NEW r \in Reply
  PROVE  Artifacts(r) \in Seq(TodoName) /\ Artifacts(r) # <<>>
<1>1. Artifacts(r) \in {<<"receipt">>, <<"raw", "receipt">>, <<"raw", "draft", "card", "receipt">>}
  BY DEF Artifacts
<1>2. {"raw", "draft", "card", "receipt"} \subseteq TodoName
  BY DEF TodoName, Names
<1>3. \A names \in {<<"receipt">>, <<"raw", "receipt">>, <<"raw", "draft", "card", "receipt">>} :
        names \in Seq(TodoName) /\ names # <<>>
  <2>1. <<"receipt">> \in Seq(TodoName) /\ <<"receipt">> # <<>>
    BY <1>2
  <2>2. <<"raw", "receipt">> \in Seq(TodoName) /\ <<"raw", "receipt">> # <<>>
    BY <1>2
  <2>3. /\ <<"raw", "draft", "card", "receipt">> \in Seq(TodoName)
        /\ <<"raw", "draft", "card", "receipt">> # <<>>
    BY <1>2
  <2> QED BY <2>1, <2>2, <2>3
<1> QED BY <1>1, <1>3

-----------------------------------------------------------------------------
(* The type invariant. *)

Checks(p) ==
  \/ Start(p) \/ PreflightMarkers(p) \/ PreflightArtifacts(p) \/ CheckCredential(p)
  \/ AdmitPlan(p) \/ CheckFolder(p) \/ Report(p) \/ Crash(p)

LEMMA ChecksMove ==
  ASSUME RunsOK, NEW p \in Proc, Checks(p)
  PROVE  /\ Goes(p) \/ Ends(p)
         /\ pc'[p] \in {"check", "link", "sync", "written"} => pc[p] = "check" /\ pc'[p] = "link"
         /\ pc'[p] # "send"
         /\ UNCHANGED <<dir, files, losses, memory, history>>
<1> USE DEF Goes, Goto, PC, RunsOK
<1>1. CASE Start(p)
  <2>1. CASE Exit(p, 2, "false", "refused")
    <3>1. "false" \in Attempted /\ "refused" \in Reason
      BY DEF Attempted, Reason
    <3>2. Ends(p)
      BY <2>1, <3>1, ExitEnds
    <3> QED BY <3>2, <1>1 DEF Ends, Start
  <2> QED BY <1>1, <2>1 DEF Start
<1>2. CASE PreflightMarkers(p)
  BY <1>2, ErrorsEnd DEF PreflightMarkers, Ends, Reason
<1>3. CASE PreflightArtifacts(p)
  BY <1>3, ErrorsEnd DEF PreflightArtifacts, Ends, Reason
<1>4. CASE CheckCredential(p)
  BY <1>4, ErrorsEnd DEF CheckCredential, Ends, Reason
<1>5. CASE AdmitPlan(p)
  BY <1>5, ErrorsEnd DEF AdmitPlan, Ends, Reason
<1>6. CASE CheckFolder(p)
  BY <1>6, ErrorsEnd DEF CheckFolder, Ends, Reason
<1>7. CASE Report(p)
  BY <1>7, ExitEnds DEF Report, Ends, Attempted, Reason
<1>8. CASE Crash(p)
  BY <1>8 DEF Crash
<1> QED BY <1>1, <1>2, <1>3, <1>4, <1>5, <1>6, <1>7, <1>8 DEF Checks

LEMMA ChecksTyped ==
  ASSUME TypeOK, NEW p \in Proc, Checks(p)
  PROVE  TypeOK'
<1>1. RunsOK
  BY DEF TypeOK
<1>2. RunsOK'
  <2>1. pc'[p] \in {"check", "link", "sync", "written"} => todo[p] # <<>>
    BY <1>1, ChecksMove DEF RunsOK
  <2> QED BY <1>1, <2>1, ChecksMove, MovesTyped
<1> QED BY <1>1, <1>2, ChecksMove DEF TypeOK, FilesOK, history

LEMMA DirectoryTyped ==
  ASSUME TypeOK, NEW p \in Proc, LookForDirectory(p) \/ MakeDirectory(p) \/ SyncParent(p)
  PROVE  TypeOK'
<1>1. RunsOK /\ <<"marker">> \in Seq(TodoName)
  BY DEF TypeOK, TodoName
<1>2. Goes(p) \/ Ends(p)
  BY <1>1, ErrorsEnd DEF LookForDirectory, MakeDirectory, SyncParent, Goes, Goto, PC, Reason
<1>3. elapsed' \in [Proc -> Nat] /\ tokens' \in [Proc -> Nat] /\ replies' \in [Proc -> Seq(Reply)]
  BY <1>1 DEF LookForDirectory, MakeDirectory, SyncParent, memory, RunsOK
<1>4. RunsOK'
  <2>1. CASE pc'[p] \notin {"check", "link", "sync", "written"} /\ UNCHANGED memory
    BY <1>1, <1>2, <2>1, MovesTyped
  <2>2. CASE todo' = [todo EXCEPT ![p] = <<"marker">>] /\ nth' = nth
    BY <1>1, <1>2, <1>3, <2>2, TodoTyped
  <2>3. CASE LookForDirectory(p)
    BY <1>1, <2>1, <2>2, <2>3 DEF LookForDirectory, memory, Goto, RunsOK
  <2>4. CASE MakeDirectory(p)
    <3>1. Goto(p, "parent") \/ Goto(p, "exited")
      BY <2>4 DEF MakeDirectory, Raises, Exit
    <3>2. pc'[p] \in {"parent", "exited"}
      BY <1>1, <3>1 DEF Goto, RunsOK
    <3>3. UNCHANGED memory
      BY <2>4 DEF MakeDirectory
    <3> QED BY <2>1, <3>2, <3>3
  <2>5. CASE SyncParent(p)
    <3>1. \/ todo' = [todo EXCEPT ![p] = <<"marker">>]
          \/ Goto(p, "exited") /\ UNCHANGED todo
      BY <2>5 DEF SyncParent, Raises, Exit
    <3>2. UNCHANGED <<nth, elapsed, tokens, replies>>
      BY <2>5 DEF SyncParent
    <3>3. Goto(p, "exited") => pc'[p] = "exited"
      BY <1>1 DEF Goto, RunsOK
    <3> QED BY <2>1, <2>2, <3>1, <3>2, <3>3 DEF memory
  <2> QED BY <2>3, <2>4, <2>5
<1> QED BY <1>4 DEF LookForDirectory, MakeDirectory, SyncParent, TypeOK, FilesOK, history

LEMMA FilesTyped ==
  ASSUME TypeOK, NEW p \in Proc, LinkFile(p) \/ SyncFile(p)
  PROVE  TypeOK'
<1>1. RunsOK /\ FilesOK /\ todo[p] # <<>>
  BY DEF TypeOK, RunsOK, LinkFile, SyncFile
<1> DEFINE path == Path(p, Head(todo[p]))
<1>2. Goes(p) \/ Ends(p)
  BY <1>1, WriteFailsEnds DEF LinkFile, SyncFile, Goes, PC
<1>3. files' \subseteq File
  <2>1. Synced(path) \subseteq File /\ files \subseteq File
    BY <1>1, SyncedTyped DEF FilesOK
  <2>2. [place |-> path.place, plan |-> path.plan, name |-> path.name,
         owner |-> p, durable |-> FALSE] \in File
    BY <1>1, PathTyped
  <2> HIDE DEF path
  <2> QED BY <2>1, <2>2 DEF LinkFile, SyncFile, path
<1>4. RunsOK'
  BY <1>1, <1>2, MovesTyped DEF LinkFile, SyncFile
<1> QED BY <1>3, <1>4 DEF LinkFile, SyncFile, TypeOK, FilesOK, history

LEMMA ProceedTyped ==
  ASSUME TypeOK, NEW p \in Proc, Proceed(p)
  PROVE  TypeOK'
<1>1. RunsOK /\ todo[p] # <<>>
  BY DEF TypeOK, RunsOK, Proceed
<1>2. Tail(todo[p]) \in Seq(TodoName)
  BY <1>1 DEF RunsOK, TodoName
<1>3. Goes(p) /\ pc'[p] \in {"check", "link", "sync", "written"} => Tail(todo[p]) # <<>>
  BY <1>1 DEF Proceed, Goes, Goto, PC, RunsOK
<1>4. Goes(p)
  BY <1>1 DEF Proceed, Goes, Goto, PC
<1>5. nth' = nth \/ (nth' = [nth EXCEPT ![p] = @ + 1] /\ nth[p] < Len(Plans(p)))
  BY <1>1 DEF Proceed, More, RunsOK
<1>6. elapsed' \in [Proc -> Nat] /\ tokens' \in [Proc -> Nat] /\ replies' \in [Proc -> Seq(Reply)]
  BY <1>1 DEF Proceed, RunsOK
<1>7. todo' = [todo EXCEPT ![p] = Tail(todo[p])]
  BY DEF Proceed
<1>8. RunsOK'
  BY <1>1, <1>2, <1>3, <1>4, <1>5, <1>6, <1>7, TodoTyped
<1> QED BY <1>8 DEF Proceed, TypeOK, FilesOK, history

LEMMA AttemptTyped ==
  ASSUME TypeOK, NEW p \in Proc, Send(p) \/ Answer(p)
  PROVE  TypeOK'
<1>1. RunsOK /\ Unit(p) \in Plan
  BY UnitTyped DEF TypeOK
<1>2. CASE Send(p)
  <2>1. Goes(p) /\ pc'[p] = "sending"
    BY <1>1, <1>2 DEF Send, Goes, Goto, PC, RunsOK
  <2>2. RunsOK'
    BY <1>1, <1>2, <2>1, MovesTyped DEF Send
  <2> QED BY <1>1, <1>2, <2>2 DEF Send, TypeOK, FilesOK
<1>3. ASSUME NEW r \in Reply, NEW ticks \in 0..Timeout + Overhead, SendReturns(p, r, ticks)
      PROVE  TypeOK'
  <2>1. ticks \in Nat /\ r.tokens \in Nat
    BY NumberAssumption, ReplyAssumption
  <2>2. Goes(p) \/ Ends(p)
    BY <1>1, <1>3, ErrorsEnd DEF SendReturns, Goes, PC, Reason
  <2>3. elapsed' \in [Proc -> Nat]
    BY <1>1, <1>3, <2>1 DEF SendReturns, RunsOK
  <2>4. tokens' \in [Proc -> Nat]
    BY <1>1, <1>3, <2>1 DEF SendReturns, RunsOK
  <2>5. replies' \in [Proc -> Seq(Reply)]
    <3>1. Append(replies[p], r) \in Seq(Reply) /\ replies \in [Proc -> Seq(Reply)]
      BY <1>1 DEF RunsOK
    <3>2. replies' = [replies EXCEPT ![p] = Append(replies[p], r)]
      BY <1>3 DEF SendReturns
    <3> QED BY <3>1, <3>2
  <2>6. \E names \in Seq(TodoName) :
          /\ todo' = [todo EXCEPT ![p] = names]
          /\ pc'[p] \in {"check", "link", "sync", "written"} => names # <<>>
    <3>1. CASE todo' = todo /\ Ends(p)
      BY <1>1, <3>1 DEF RunsOK, Ends, Goto, TodoName
    <3>2. CASE todo' = [todo EXCEPT ![p] = Artifacts(r)]
      BY <3>2, ArtifactsTyped
    <3> QED BY <1>1, <1>3, <3>1, <3>2, ErrorsEnd DEF SendReturns, Reason
  <2>7. RunsOK'
    <3>1. nth' = nth
      BY <1>3 DEF SendReturns
    <3> QED BY <1>1, <2>2, <2>3, <2>4, <2>5, <2>6, <3>1, TodoTyped
  <2> QED BY <1>3, <2>7 DEF SendReturns, TypeOK, FilesOK, history
<1> QED BY <1>2, <1>3 DEF Answer

LEMMA SealTyped ==
  ASSUME TypeOK, NEW p \in Proc, SealCampaign(p)
  PROVE  TypeOK'
<1>1. RunsOK
  BY DEF TypeOK
<1>2. CASE UNCHANGED todo /\ Ends(p)
  <2>1. RunsOK'
    BY <1>1, <1>2, MovesTyped DEF SealCampaign, Ends, Goto, RunsOK, memory
  <2> QED BY <2>1 DEF SealCampaign, TypeOK, FilesOK, history
<1>3. CASE todo' = [todo EXCEPT ![p] = <<"campaign">>] /\ Goes(p)
  <2>1. <<"campaign">> \in Seq(TodoName) /\ <<"campaign">> # <<>>
    BY DEF TodoName
  <2>2. elapsed' \in [Proc -> Nat] /\ tokens' \in [Proc -> Nat] /\ replies' \in [Proc -> Seq(Reply)]
    BY <1>1 DEF SealCampaign, RunsOK
  <2>3. RunsOK'
    BY <1>1, <1>3, <2>1, <2>2, TodoTyped DEF SealCampaign
  <2> QED BY <2>3 DEF SealCampaign, TypeOK, FilesOK, history
<1> QED BY <1>1, <1>2, <1>3, ErrorsEnd DEF SealCampaign, Goes, PC, Reason

LEMMA PowerTyped ==
  ASSUME TypeOK, PowerLoss
  PROVE  TypeOK'
<1>1. RunsOK'
  BY DEF TypeOK, PowerLoss, RunsOK, memory, PC, Plans
<1>2. files' \subseteq File
  <2>1. \A f \in File : [f EXCEPT !.durable = TRUE] \in File
    BY DEF File
  <2> QED BY <2>1 DEF TypeOK, FilesOK, PowerLoss
<1>3. dir' \in {"absent", "volatile", "durable"} /\ losses' \in Nat
  BY DEF TypeOK, FilesOK, PowerLoss
<1> QED BY <1>1, <1>2, <1>3 DEF TypeOK, FilesOK, PowerLoss, history

LEMMA InitTyped == Init => TypeOK
<1> SUFFICES ASSUME Init PROVE TypeOK
  OBVIOUS
<1>1. FilesOK
  BY WorldAssumption DEF Init, FilesOK
<1>2. RunsOK
  <2>1. Running \in ExitType
    BY DEF Running, ExitType, Attempted, Reason
  <2>2. \A p \in Proc : 1 \in DOMAIN Plans(p)
    BY JobAssumption DEF Plans
  <2>3. <<>> \in Seq(TodoName) /\ <<>> \in Seq(Reply)
    OBVIOUS
  <2> QED BY <2>1, <2>2, <2>3 DEF Init, RunsOK, PC, ExitType, TodoName
<1> QED BY <1>1, <1>2 DEF Init, TypeOK

LEMMA StepActions ==
  ASSUME NEW p \in Proc, Start(p) \/ LocalStep(p) \/ Answer(p) \/ Crash(p)
  PROVE  \/ Checks(p) \/ LookForDirectory(p) \/ MakeDirectory(p) \/ SyncParent(p)
         \/ LinkFile(p) \/ SyncFile(p) \/ Proceed(p) \/ Send(p) \/ Answer(p) \/ SealCampaign(p)
BY DEF LocalStep, Checks

LEMMA NextTyped == TypeOK /\ [Next]_vars => TypeOK'
<1> SUFFICES ASSUME TypeOK, [Next]_vars PROVE TypeOK'
  OBVIOUS
<1>1. ASSUME NEW p \in Proc, Start(p) \/ LocalStep(p) \/ Answer(p) \/ Crash(p) PROVE TypeOK'
  BY <1>1, StepActions, ChecksTyped, DirectoryTyped, FilesTyped, ProceedTyped, AttemptTyped, SealTyped
<1>2. CASE PowerLoss
  BY <1>2, PowerTyped
<1>3. CASE UNCHANGED vars
  BY <1>3 DEF vars, memory, history, TypeOK, FilesOK, RunsOK
<1> QED BY <1>1, <1>2, <1>3 DEF Next, Finished

\* Every reachable state of the two commands is well typed: the loop never
\* leaves the plans of the run, and what is left to write is there when it
\* is written.
THEOREM DocumentsTyped == Spec => []TypeOK
<1> QED BY InitTyped, NextTyped, PTL DEF Spec

-----------------------------------------------------------------------------
(* The inductive invariant behind OneAttempt. *)

\* the assumption on the state directory
Lasting == \A w \in Worlds : w.losses = 0 \/ w.dir = "durable"

\* a marker is in the state directory, and its plan has no other owner's
MarkersOK ==
  /\ \A f \in files : f.name = "marker" => f.place = State /\ f.plan \in Plan
  /\ \A f, g \in files :
       f.name = "marker" /\ g.name = "marker" /\ f.plan = g.plan => f.owner = g.owner

\* where a run has created the marker of its plan and not yet used it
Holding(p) == pc[p] = "send" \/ (pc[p] \in {"sync", "written"} /\ Head(todo[p]) = "marker")

\* where that marker has been fsynced
Covered(p) == pc[p] \in {"send", "written"}

DirLasts == losses = 0 \/ dir = "durable"

HoldersOK ==
  \A p \in Proc : Holding(p) =>
    /\ attempts[Unit(p)] = 0
    /\ \E f \in files : /\ f.name = "marker" /\ f.plan = Unit(p) /\ f.owner = p
                        /\ Covered(p) => f.durable = TRUE

SentOK ==
  \A q \in Plan :
    /\ attempts[q] \in {0, 1}
    /\ attempts[q] = 1 => \E f \in files : f.name = "marker" /\ f.plan = q /\ f.durable = TRUE

OnceInv == TypeOK /\ DirLasts /\ MarkersOK /\ HoldersOK /\ SentOK

-----------------------------------------------------------------------------
(* Steps that neither take a marker nor use one. *)

\* markers come through a step, and what is durable stays so
MarkersKept ==
  /\ \A f \in files : f.name = "marker" =>
       \E g \in files' : /\ g.name = "marker" /\ g.plan = f.plan /\ g.owner = f.owner
                         /\ f.durable = TRUE => g.durable = TRUE
  /\ \A g \in files' : g.name = "marker" =>
       \E f \in files : /\ f.name = "marker" /\ f.plan = g.plan /\ f.owner = g.owner
                        /\ f.place = g.place

\* only p moves, and where it holds its marker it held it before
MovesOnly(p) ==
  /\ \A o \in Proc \ {p} : pc'[o] = pc[o] /\ todo'[o] = todo[o] /\ nth'[o] = nth[o]
  /\ Holding(p)' => /\ Holding(p) /\ nth'[p] = nth[p]
                    /\ \/ Covered(p)' => Covered(p)
                       \/ \A f \in files' : f.name = "marker" /\ f.plan = Unit(p) => f.durable = TRUE

Quiet(p) ==
  /\ MarkersKept /\ MovesOnly(p) /\ UNCHANGED attempts
  /\ losses' = losses /\ (dir = "durable" => dir' = "durable")

LEMMA MarkersStay ==
  ASSUME files' = files
  PROVE  MarkersKept
BY DEF MarkersKept

LEMMA SyncKeepsMarkers ==
  ASSUME FilesOK, NEW path, files' = Synced(path)
  PROVE  MarkersKept
<1>1. \A f \in files :
             /\ Secure(f, path).name = f.name /\ Secure(f, path).plan = f.plan
             /\ Secure(f, path).owner = f.owner /\ Secure(f, path).place = f.place
             /\ f.durable = TRUE => Secure(f, path).durable = TRUE
  BY DEF Secure, FilesOK, File
<1> QED BY <1>1 DEF MarkersKept, Synced

LEMMA QuietKeepsOnce ==
  ASSUME OnceInv, TypeOK', NEW p \in Proc, Quiet(p)
  PROVE  OnceInv'
<1> USE DEF Quiet
<1>1. DirLasts'
  BY DEF OnceInv, DirLasts
<1>2. MarkersOK'
  BY DEF OnceInv, MarkersOK, MarkersKept
<1>3. SentOK'
  BY DEF OnceInv, SentOK, MarkersKept
<1>4. HoldersOK'
  <2> SUFFICES ASSUME NEW o \in Proc, Holding(o)'
               PROVE  /\ attempts[Unit(o)'] = 0
                      /\ \E f \in files' : /\ f.name = "marker" /\ f.plan = Unit(o)' /\ f.owner = o
                                           /\ Covered(o)' => f.durable = TRUE
    BY DEF HoldersOK
  <2>1. Holding(o) /\ Unit(o)' = Unit(o)
    BY DEF MovesOnly, Holding, Unit
  <2>2. PICK f \in files : /\ f.name = "marker" /\ f.plan = Unit(o) /\ f.owner = o
                           /\ Covered(o) => f.durable = TRUE
    <3>1. HoldersOK
      BY DEF OnceInv
    <3> QED BY <2>1, <3>1 DEF HoldersOK
  <2>3. PICK g \in files' : /\ g.name = "marker" /\ g.plan = Unit(o) /\ g.owner = o
                            /\ f.durable = TRUE => g.durable = TRUE
    BY <2>2 DEF MarkersKept
  <2>4. Covered(o)' => g.durable = TRUE
    BY <2>2, <2>3 DEF MovesOnly, Covered
  <2> QED BY <2>1, <2>3, <2>4 DEF OnceInv, HoldersOK
<1> QED BY <1>1, <1>2, <1>3, <1>4 DEF OnceInv

LEMMA ErrorsMove ==
  ASSUME RunsOK, NEW p \in Proc, Ends(p)
  PROVE  pc'[p] = "exited" /\ \A o \in Proc \ {p} : pc'[o] = pc[o]
BY DEF Ends, Goto, RunsOK

\* nothing happens to the files, and the run is not where it holds a marker
LEMMA IdleIsQuiet ==
  ASSUME RunsOK, NEW p \in Proc, UNCHANGED <<files, losses, attempts>>,
         dir = "durable" => dir' = "durable",
         pc'[p] \notin {"send", "sync", "written"},
         \A o \in Proc \ {p} : pc'[o] = pc[o] /\ todo'[o] = todo[o] /\ nth'[o] = nth[o]
  PROVE  Quiet(p)
<1>1. MarkersKept
  BY MarkersStay
<1>2. MovesOnly(p)
  BY DEF MovesOnly, Holding
<1> QED BY <1>1, <1>2 DEF Quiet

LEMMA ChecksQuiet ==
  ASSUME RunsOK, NEW p \in Proc, Checks(p)
  PROVE  Quiet(p)
<1>1. pc'[p] \notin {"send", "sync", "written"}
  BY ChecksMove
<1>2. \A o \in Proc \ {p} : pc'[o] = pc[o]
  BY ChecksMove, ErrorsMove DEF Goes, Goto, RunsOK
<1> QED BY <1>1, <1>2, ChecksMove, IdleIsQuiet DEF memory, history

LEMMA OtherIdleQuiet ==
  ASSUME RunsOK, NEW p \in Proc,
         LookForDirectory(p) \/ MakeDirectory(p) \/ SyncParent(p) \/ Answer(p) \/ SealCampaign(p)
  PROVE  Quiet(p)
<1>1. UNCHANGED <<files, losses, attempts>> /\ (dir = "durable" => dir' = "durable")
  BY DEF LookForDirectory, MakeDirectory, SyncParent, Answer, SendReturns, SealCampaign, history
<1>2. \E place \in {"mkdir", "parent", "link", "check", "exited"} : Goto(p, place)
  BY DEF LookForDirectory, MakeDirectory, SyncParent, Answer, SendReturns, SealCampaign,
         Refused, Raises, Exit
<1>3. \A o \in Proc \ {p} : todo'[o] = todo[o] /\ nth'[o] = nth[o]
  BY DEF LookForDirectory, MakeDirectory, SyncParent, Answer, SendReturns, SealCampaign,
         memory, RunsOK
<1>4. pc'[p] \notin {"send", "sync", "written"} /\ \A o \in Proc \ {p} : pc'[o] = pc[o]
  BY <1>2 DEF Goto, RunsOK
<1> QED BY <1>1, <1>3, <1>4, IdleIsQuiet

\* the file that a run is about to create
NewFile(p) ==
  LET path == Path(p, Head(todo[p])) IN
    [place |-> path.place, plan |-> path.plan, name |-> path.name, owner |-> p, durable |-> FALSE]

\* a run takes the marker of its plan
TakesMarker(p) ==
  /\ pc[p] = "link" /\ Head(todo[p]) = "marker"
  /\ At(Path(p, "marker")) = {}
  /\ files' = files \cup {NewFile(p)}
  /\ Goto(p, "sync")
  /\ UNCHANGED <<dir, losses, memory, exit, history>>

LEMMA LinkKinds ==
  ASSUME TypeOK, NEW p \in Proc, LinkFile(p)
  PROVE  Quiet(p) \/ TakesMarker(p)
<1>1. RunsOK /\ FilesOK
  BY DEF TypeOK
<1> DEFINE path == Path(p, Head(todo[p]))
<1>2. CASE files' = files \/ files' = Synced(path)
  <2>1. MarkersKept
    BY <1>1, <1>2, MarkersStay, SyncKeepsMarkers
  <2>2. (Goto(p, "written") /\ path.name # "marker") \/ Ends(p)
    <3>1. CASE Ends(p)
      BY <3>1
    <3>2. CASE At(path) = {} /\ files' = files \cup {NewFile(p)}
      <4>1. NewFile(p) \in At(path)
        <5>1. NewFile(p) \in files'
          BY <3>2
        <5>2. CASE files' = files
          BY <5>1, <5>2 DEF At, NewFile
        <5>3. CASE files' = Synced(path)
          <6>1. PICK f \in files : NewFile(p) = Secure(f, path)
            BY <5>1, <5>3 DEF Synced
          <6>2. f \in At(path)
            BY <6>1, <1>1 DEF Secure, At, NewFile, FilesOK, File
          <6> QED BY <3>2, <6>2
        <5> QED BY <1>2, <5>2, <5>3
      <4> QED BY <3>2, <4>1
    <3>3. CASE Goto(p, "written") /\ path.name # "marker"
      BY <3>3
    <3> QED BY <1>1, <3>1, <3>2, <3>3, WriteFailsEnds DEF LinkFile, NewFile
  <2>3. ~Holding(p)'
    BY <1>1, <2>2, ErrorsMove DEF LinkFile, Holding, Goto, RunsOK, Path, memory
  <2>4. \A o \in Proc \ {p} : pc'[o] = pc[o]
    BY <1>1, <2>2, ErrorsMove DEF Goto, RunsOK
  <2>5. MovesOnly(p)
    BY <2>3, <2>4 DEF LinkFile, MovesOnly, memory
  <2> QED BY <2>1, <2>5 DEF LinkFile, Quiet, history
<1>3. CASE At(path) = {} /\ files' = files \cup {NewFile(p)} /\ Goto(p, "sync") /\ UNCHANGED exit
  <2>1. CASE Head(todo[p]) = "marker"
    BY <1>3, <2>1 DEF TakesMarker, LinkFile
  <2>2. CASE Head(todo[p]) # "marker"
    <3>1. NewFile(p).name # "marker"
      BY <2>2 DEF NewFile, Path
    <3>2. MarkersKept
      BY <1>3, <3>1 DEF MarkersKept
    <3>3. MovesOnly(p)
      BY <1>1, <1>3, <2>2 DEF LinkFile, MovesOnly, memory, Holding, Goto, RunsOK
    <3> QED BY <3>2, <3>3 DEF LinkFile, Quiet, history
  <2> QED BY <2>1, <2>2
<1> QED BY <1>2, <1>3 DEF LinkFile, NewFile

LEMMA SyncQuiet ==
  ASSUME OnceInv, NEW p \in Proc, SyncFile(p)
  PROVE  Quiet(p)
<1>1. RunsOK /\ FilesOK /\ MarkersOK
  BY DEF OnceInv, TypeOK
<1> DEFINE path == Path(p, Head(todo[p]))
<1>2. files' = files \/ files' = Synced(path)
  BY DEF SyncFile
<1>3. MarkersKept
  BY <1>1, <1>2, MarkersStay, SyncKeepsMarkers
<1>4. MovesOnly(p)
  <2>1. CASE Ends(p)
    BY <1>1, <2>1, ErrorsMove DEF SyncFile, MovesOnly, Holding, memory
  <2>2. CASE files' = Synced(path) /\ Goto(p, "written")
    <3>1. Holding(p)' => Head(todo[p]) = "marker" /\ Holding(p)
      BY <1>1, <2>2 DEF SyncFile, Holding, Goto, RunsOK, memory
    <3>2. ASSUME Head(todo[p]) = "marker", NEW g \in files', g.name = "marker"
          PROVE  g.durable = TRUE
      <4>1. PICK f \in files : g = Secure(f, path)
        BY <2>2 DEF Synced
      <4>2. f.name = "marker" /\ f \in File
        BY <1>1, <3>2, <4>1 DEF Secure, FilesOK, File
      <4>3. f.place = State /\ path.place = State
        BY <1>1, <3>2, <4>2 DEF MarkersOK, Path
      <4> QED BY <4>1, <4>2, <4>3 DEF Secure, File
    <3> QED BY <1>1, <2>2, <3>1, <3>2 DEF SyncFile, MovesOnly, memory, Goto, RunsOK
  <2> QED BY <1>1, <2>1, <2>2, WriteFailsEnds DEF SyncFile
<1> QED BY <1>3, <1>4 DEF SyncFile, Quiet, history

LEMMA ProceedQuiet ==
  ASSUME RunsOK, NEW p \in Proc, Proceed(p)
  PROVE  Quiet(p)
<1>1. MarkersKept
  BY MarkersStay DEF Proceed
<1>2. MovesOnly(p)
  <2>1. \A o \in Proc \ {p} : pc'[o] = pc[o] /\ todo'[o] = todo[o] /\ nth'[o] = nth[o]
    BY DEF Proceed, Goto, RunsOK
  <2>2. pc'[p] \in {"link", "send", "admit", "seal", "report"}
    BY DEF Proceed, Goto, RunsOK
  <2>3. pc'[p] = "send" => Head(todo[p]) = "marker" /\ nth'[p] = nth[p] /\ pc[p] = "written"
    BY DEF Proceed, Goto, RunsOK
  <2> QED BY <2>1, <2>2, <2>3 DEF MovesOnly, Holding, Covered
<1> QED BY <1>1, <1>2 DEF Proceed, Quiet, history

-----------------------------------------------------------------------------
(* The steps that matter. *)

LEMMA TakesKeepsOnce ==
  ASSUME OnceInv, TypeOK', NEW p \in Proc, TakesMarker(p)
  PROVE  /\ OnceInv' /\ Unit(p) \in Plan /\ ~Marked(Unit(p))
         /\ NewFile(p).name = "marker" /\ NewFile(p).plan = Unit(p)
<1> USE DEF TakesMarker
<1>1. RunsOK /\ FilesOK /\ MarkersOK /\ HoldersOK /\ SentOK
  BY DEF OnceInv, TypeOK
<1>2. Unit(p) \in Plan
  BY <1>1, UnitTyped
<1>3. /\ NewFile(p).name = "marker" /\ NewFile(p).plan = Unit(p) /\ NewFile(p).owner = p
      /\ NewFile(p).place = State
  BY DEF NewFile, Path
<1>4. ~Marked(Unit(p))
  BY <1>1 DEF Marked, MarkersOK, At, Path
<1>5. attempts[Unit(p)] = 0
  BY <1>1, <1>2, <1>4 DEF SentOK, Marked
<1>6. DirLasts'
  BY DEF OnceInv, DirLasts
<1>7. MarkersOK'
  BY <1>1, <1>2, <1>3, <1>4 DEF MarkersOK, Marked
<1>8. SentOK'
  BY <1>1 DEF SentOK, history
<1>9. HoldersOK'
  <2> SUFFICES ASSUME NEW o \in Proc, Holding(o)'
               PROVE  /\ attempts[Unit(o)] = 0
                      /\ \E f \in files' : /\ f.name = "marker" /\ f.plan = Unit(o) /\ f.owner = o
                                           /\ Covered(o)' => f.durable = TRUE
    BY DEF HoldersOK, Unit, memory, history
  <2>1. CASE o = p
    BY <1>1, <1>3, <1>5, <2>1 DEF Covered, Goto, RunsOK
  <2>2. CASE o # p
    BY <1>1, <2>2 DEF HoldersOK, Holding, Covered, Goto, RunsOK, memory
  <2> QED BY <2>1, <2>2
<1> QED BY <1>2, <1>3, <1>4, <1>6, <1>7, <1>8, <1>9 DEF OnceInv

LEMMA SendKeepsOnce ==
  ASSUME OnceInv, TypeOK', NEW p \in Proc, Send(p)
  PROVE  /\ OnceInv' /\ Unit(p) \in Plan /\ Marked(Unit(p))
         /\ attempts[Unit(p)] = 0 /\ attempts' = [attempts EXCEPT ![Unit(p)] = 1]
<1> USE DEF Send
<1>1. RunsOK /\ FilesOK /\ MarkersOK /\ HoldersOK /\ SentOK /\ attempts \in [Plan -> Nat]
  BY DEF OnceInv, TypeOK
<1>2. Unit(p) \in Plan
  BY <1>1, UnitTyped
<1>3. /\ attempts[Unit(p)] = 0
      /\ \E f \in files : f.name = "marker" /\ f.plan = Unit(p) /\ f.owner = p /\ f.durable = TRUE
  BY <1>1 DEF HoldersOK, Holding, Covered
<1>4. attempts' = [attempts EXCEPT ![Unit(p)] = 1]
  BY <1>1, <1>2, <1>3
<1>5. DirLasts'
  BY DEF OnceInv, DirLasts
<1>6. MarkersOK'
  BY <1>1 DEF MarkersOK
<1>7. SentOK'
  BY <1>1, <1>3, <1>4 DEF SentOK
<1>8. HoldersOK'
  <2> SUFFICES ASSUME NEW o \in Proc, Holding(o)'
               PROVE  /\ attempts'[Unit(o)] = 0
                      /\ \E f \in files : /\ f.name = "marker" /\ f.plan = Unit(o) /\ f.owner = o
                                          /\ Covered(o)' => f.durable = TRUE
    BY DEF HoldersOK, Unit, memory
  <2>1. o # p /\ Holding(o) /\ (Covered(o)' => Covered(o))
    BY <1>1 DEF Holding, Covered, Goto, RunsOK, memory
  <2>2. Unit(o) # Unit(p)
    BY <1>1, <1>3, <2>1 DEF HoldersOK, MarkersOK
  <2>3. Unit(o) \in Plan
    BY <1>1, UnitTyped
  <2> QED BY <1>1, <1>4, <2>1, <2>2, <2>3 DEF HoldersOK
<1> QED BY <1>2, <1>3, <1>4, <1>5, <1>6, <1>7, <1>8 DEF OnceInv, Marked

LEMMA PowerKeepsOnce ==
  ASSUME OnceInv, TypeOK', PowerLoss
  PROVE  /\ OnceInv' /\ UNCHANGED attempts
         /\ \A q \in Plan : (Marked(q)' => Marked(q)) /\ (attempts[q] # 0 => Marked(q)')
<1>1. RunsOK /\ FilesOK /\ MarkersOK /\ SentOK
  BY DEF OnceInv, TypeOK
<1>2. dir = "durable" /\ dir' = "durable"
  BY DEF OnceInv, DirLasts, PowerLoss, TypeOK, FilesOK
<1>3. PICK lost \in SUBSET {f \in files : Loose(f)} :
        files' = {[f EXCEPT !.durable = TRUE] : f \in files \ lost}
  BY <1>2 DEF PowerLoss
<1>4. DirLasts'
  BY <1>2 DEF DirLasts
<1>5. \A g \in files' : g.name = "marker" =>
        \E f \in files : f.name = "marker" /\ f.plan = g.plan /\ f.owner = g.owner /\ f.place = g.place
  <2>1. \A f \in files : /\ [f EXCEPT !.durable = TRUE].name = f.name
                         /\ [f EXCEPT !.durable = TRUE].plan = f.plan
                         /\ [f EXCEPT !.durable = TRUE].owner = f.owner
                         /\ [f EXCEPT !.durable = TRUE].place = f.place
    BY <1>1 DEF FilesOK, File
  <2>2. ASSUME NEW g \in files'
        PROVE  \E f \in files : g = [f EXCEPT !.durable = TRUE]
    BY <1>3
  <2> SUFFICES ASSUME NEW g \in files', g.name = "marker"
               PROVE  \E f \in files : /\ f.name = "marker" /\ f.plan = g.plan
                                       /\ f.owner = g.owner /\ f.place = g.place
    OBVIOUS
  <2>3. PICK f \in files : g = [f EXCEPT !.durable = TRUE]
    BY <2>2
  <2>4. g.name = f.name /\ g.plan = f.plan /\ g.owner = f.owner /\ g.place = f.place
    BY <2>1, <2>3
  <2> QED BY <2>4
<1>6. MarkersOK'
  BY <1>1, <1>5 DEF MarkersOK
<1>7. SentOK'
  <2>1. \A f \in files : f.name = "marker" /\ f.durable = TRUE => f \notin lost
    BY <1>1, <1>3, NameAssumption, JobAssumption DEF MarkersOK, Loose
  <2>2. \A f \in files : f.name = "marker" /\ f.durable = TRUE =>
          \E g \in files' : g.name = "marker" /\ g.plan = f.plan /\ g.durable = TRUE
    BY <1>1, <1>3, <2>1 DEF FilesOK, File
  <2> QED BY <1>1, <2>2 DEF SentOK, PowerLoss, history
<1>8. HoldersOK'
  BY <1>1 DEF HoldersOK, Holding, PowerLoss, RunsOK, Final
<1>9. UNCHANGED attempts
  BY DEF PowerLoss, history
<1> QED BY <1>1, <1>4, <1>5, <1>6, <1>7, <1>8, <1>9 DEF OnceInv, SentOK, Marked

LEMMA InitOnce == Lasting /\ Init => OnceInv
<1> SUFFICES ASSUME Lasting, Init PROVE OnceInv
  OBVIOUS
<1>1. TypeOK
  BY InitTyped
<1>2. DirLasts
  BY DEF Lasting, Init, DirLasts
<1>3. \A f \in files : f.name # "marker"
  BY WorldAssumption DEF Init, Names
<1> QED BY <1>1, <1>2, <1>3 DEF Init, OnceInv, MarkersOK, HoldersOK, Holding, SentOK

LEMMA StepKinds ==
  ASSUME OnceInv, NEW p \in Proc, Start(p) \/ LocalStep(p) \/ Answer(p) \/ Crash(p)
  PROVE  Quiet(p) \/ TakesMarker(p) \/ Send(p)
<1>1. TypeOK /\ RunsOK
  BY DEF OnceInv, TypeOK
<1> QED BY <1>1, StepActions, ChecksQuiet, OtherIdleQuiet, LinkKinds, SyncQuiet, ProceedQuiet

LEMMA NextKeepsOnce == OnceInv /\ [Next]_vars => OnceInv'
<1> SUFFICES ASSUME OnceInv, [Next]_vars PROVE OnceInv'
  OBVIOUS
<1>1. TypeOK'
  BY NextTyped DEF OnceInv
<1>2. ASSUME NEW p \in Proc, Start(p) \/ LocalStep(p) \/ Answer(p) \/ Crash(p) PROVE OnceInv'
  BY <1>1, <1>2, StepKinds, QuietKeepsOnce, TakesKeepsOnce, SendKeepsOnce
<1>3. CASE PowerLoss
  BY <1>1, <1>3, PowerKeepsOnce
<1>4. CASE UNCHANGED vars
  BY <1>1, <1>4 DEF vars, memory, history, OnceInv, DirLasts, MarkersOK, HoldersOK, SentOK,
                    Holding, Covered, Unit
<1> QED BY <1>2, <1>3, <1>4 DEF Next, Finished

-----------------------------------------------------------------------------
(* The refinement. *)

\* The two commands implement OneAttempt: a plan is handed to a transport at
\* most once, only under its marker, and its marker is never given up after
\* that, whatever runs share the state directory, whatever processes are
\* killed and whatever system calls fail.
THEOREM DocumentsRefine == Lasting /\ Spec => ImplementsOneAttempt
<1>1. Init => Promise!Init
  <2> SUFFICES ASSUME Init PROVE Promise!Init
    OBVIOUS
  <2>1. \A f \in files : f.name # "marker"
    BY WorldAssumption DEF Init, Names
  <2> QED BY <2>1 DEF Init, Promise!Init, Marked
<1>2. ASSUME OnceInv, [Next]_vars
      PROVE  [Promise!Next]_Promise!vars
  <2>0. OnceInv /\ TypeOK'
    BY <1>2, NextTyped DEF OnceInv
  <2>1. CASE UNCHANGED vars
    BY <2>1 DEF vars, history, Promise!vars, Marked
  <2>2. ASSUME NEW p \in Proc, Quiet(p)
        PROVE  UNCHANGED Promise!vars
    <3>1. \A q \in Plan : Marked(q)' <=> Marked(q)
      BY <2>2 DEF Quiet, MarkersKept, Marked
    <3> QED BY <2>2, <3>1 DEF Quiet, Promise!vars
  <2>3. ASSUME NEW p \in Proc, TakesMarker(p)
        PROVE  Promise!Reserve(Unit(p)) /\ Unit(p) \in Plan
    <3>1. /\ Unit(p) \in Plan /\ ~Marked(Unit(p))
          /\ NewFile(p).name = "marker" /\ NewFile(p).plan = Unit(p)
      BY <2>0, <2>3, TakesKeepsOnce
    <3>2. \A q \in Plan : Marked(q)' <=> Marked(q) \/ q = Unit(p)
      BY <2>3, <3>1 DEF TakesMarker, Marked
    <3> QED BY <2>3, <3>1, <3>2 DEF TakesMarker, history, Promise!Reserve
  <2>4. ASSUME NEW p \in Proc, Send(p)
        PROVE  Promise!Attempt(Unit(p)) /\ Unit(p) \in Plan
    BY <2>0, <2>4, SendKeepsOnce DEF Send, Marked, Promise!Attempt
  <2>5. CASE PowerLoss
    <3> DEFINE lost == {q \in Plan : Marked(q) /\ ~Marked(q)'}
    <3>1. Promise!Lose(lost)
      BY <2>0, <2>5, PowerKeepsOnce DEF Promise!Lose
    <3> QED BY <3>1 DEF Promise!Next
  <2>6. ASSUME NEW p \in Proc, Start(p) \/ LocalStep(p) \/ Answer(p) \/ Crash(p)
        PROVE  [Promise!Next]_Promise!vars
    BY <2>0, <2>2, <2>3, <2>4, <2>6, StepKinds DEF Promise!Next
  <2> QED BY <1>2, <2>1, <2>5, <2>6 DEF Next, Finished
<1> QED BY <1>1, <1>2, InitOnce, NextKeepsOnce, PTL DEF Spec, ImplementsOneAttempt, Promise!Spec
-----------------------------------------------------------------------------
(* What a run says at its end.                                             *)

\* the first n plans of a run
First(p, n) == {Plans(p)[i] : i \in 1 .. n}

Writing(p) == pc[p] \in {"link", "sync", "written"}
Early(p) == pc[p] \in {"idle", "markers", "artifacts", "credential"}

\* where the plan in hand has its answer
Replied(p) ==
  \/ pc[p] \in {"check", "seal", "report"}
  \/ Writing(p) /\ todo[p] # <<"marker">>

\* what can be left to write of the files of a reply
Left(r) ==
  CASE Status(r) = "transport_error" -> {<<"receipt">>}
    [] Status(r) = "valid_card" ->
         {<<"raw", "draft", "card", "receipt">>, <<"draft", "card", "receipt">>,
          <<"card", "receipt">>, <<"receipt">>}
    [] OTHER -> {<<"raw", "receipt">>, <<"receipt">>}

Current(p) == replies[p][nth[p]]

\* how far a run is, by the place where it is
ProgressInv(p) ==
  pc[p] \notin Final =>
    /\ Len(replies[p]) = IF Replied(p) THEN nth[p] ELSE nth[p] - 1
    /\ sentBy[p] = First(p, IF Replied(p) \/ pc[p] = "sending" THEN nth[p] ELSE nth[p] - 1)
    /\ Early(p) => nth[p] = 1
    /\ pc[p] \in {"markers", "artifacts", "admit", "check", "seal"} => Campaign(p)
    /\ pc[p] = "check" => todo[p] \in Left(Current(p))
    /\ Writing(p) =>
         \/ todo[p] = <<"marker">>
         \/ todo[p] = <<"campaign">> /\ Campaign(p)
         \/ todo[p] \in Left(Current(p))
    /\ pc[p] \in {"seal", "report"} \/ (Writing(p) /\ todo[p] = <<"campaign">>) =>
         nth[p] = Len(Plans(p))

\* tokens add up: without an overrun they stay within what is reserved
TokensInv(p) ==
  (\A i \in DOMAIN replies[p] : ~Overrun(replies[p][i])) => tokens[p] <= Len(replies[p]) * Reserved

EndOK(p, code, attempted, why) ==
  /\ attempted = "false" => sentBy[p] = {}
  /\ code = 0 => sentBy[p] = PlanSet(p) /\ AllValid(p)
  /\ why = "completed" => Len(replies[p]) = Len(Plans(p))
  /\ why = "attempt_already_consumed" => Unit(p) \notin sentBy[p]
  /\ why = "campaign_wall_clock_budget_insufficient" => elapsed[p] > (nth[p] - 1) * Timeout
  /\ why = "campaign_runtime_or_integrity_invalid" =>
       \E i \in DOMAIN replies[p] : Overrun(replies[p][i])
  /\ why = "live_runtime_error" => \E i \in DOMAIN replies[p] : replies[p][i].body = "deep"

EndInv(p) == pc[p] = "exited" => EndOK(p, exit[p].code, exit[p].attempted, exit[p].why)

OwnInv(p) == ProgressInv(p) /\ TokensInv(p) /\ EndInv(p)

EndsInv == TypeOK /\ \A p \in Proc : OwnInv(p)

LEMMA EndsAreTrue == EndsInv => EndsAreExplained
<1> SUFFICES ASSUME EndsInv, NEW p \in Proc, pc[p] = "exited"
             PROVE  /\ exit[p].attempted = "false" => sentBy[p] = {}
                    /\ exit[p].code = 0 => sentBy[p] = PlanSet(p) /\ AllValid(p)
                    /\ exit[p].why = "completed" => Len(replies[p]) = Len(Plans(p))
                    /\ exit[p].why = "attempt_already_consumed" => Unit(p) \notin sentBy[p]
                    /\ exit[p].why = "campaign_wall_clock_budget_insufficient" =>
                         elapsed[p] > (nth[p] - 1) * Timeout
                    /\ exit[p].why = "campaign_runtime_or_integrity_invalid" =>
                         \E i \in DOMAIN replies[p] : Overrun(replies[p][i])
                    /\ exit[p].why = "live_runtime_error" =>
                         \E i \in DOMAIN replies[p] : replies[p][i].body = "deep"
  BY DEF EndsAreExplained
<1> QED
  BY DEF EndsInv, OwnInv, EndInv, EndOK
\* A step of p leaves the other runs where they are.
Alone(p) ==
  \A o \in Proc \ {p} :
    /\ pc'[o] = pc[o] /\ nth'[o] = nth[o] /\ todo'[o] = todo[o] /\ elapsed'[o] = elapsed[o]
    /\ tokens'[o] = tokens[o] /\ replies'[o] = replies[o] /\ exit'[o] = exit[o]
    /\ sentBy'[o] = sentBy[o]

LEMMA StepsAlone ==
  ASSUME TypeOK, NEW p \in Proc, Start(p) \/ LocalStep(p) \/ Answer(p) \/ Crash(p)
  PROVE  Alone(p)
<1>1. \A o \in Proc \ {p} : pc'[o] = pc[o]
  <2>1. \E place \in PC : pc' = [pc EXCEPT ![p] = place]
    <3>1. CASE Checks(p) \/ Answer(p) \/ LookForDirectory(p) \/ MakeDirectory(p) \/ SyncParent(p)
      BY <3>1, ChecksMove, OtherIdleQuiet
      DEF TypeOK, Goes, Ends, Goto, PC, LookForDirectory, MakeDirectory, SyncParent, Answer,
          SendReturns, Raises, Exit
    <3>2. CASE Proceed(p) \/ Send(p) \/ SealCampaign(p)
      BY <3>2 DEF Proceed, Send, SealCampaign, Refused, Raises, Exit, Goto, PC
    <3>3. CASE LinkFile(p) \/ SyncFile(p)
      <4>1. RunsOK
        BY DEF TypeOK
      <4>2. Goto(p, "sync") \/ Goto(p, "written") \/ Ends(p)
        BY <3>3, <4>1, WriteFailsEnds DEF LinkFile, SyncFile
      <4> QED
        BY <4>2 DEF Ends, Goto, PC
    <3> QED
      BY <3>1, <3>2, <3>3, StepActions
  <2> QED
    BY <2>1 DEF TypeOK, RunsOK
<1>2. \A o \in Proc \ {p} : exit'[o] = exit[o]
  <2>1. exit' = exit \/ \E e : exit' = [exit EXCEPT ![p] = e]
    <3>1. CASE Checks(p)
      BY <3>1 DEF Checks, Start, PreflightMarkers, PreflightArtifacts, CheckCredential, AdmitPlan,
         CheckFolder, Report, Crash, Refused, Unwritten, Exit
    <3>2. CASE LookForDirectory(p) \/ MakeDirectory(p) \/ SyncParent(p) \/ Proceed(p) \/ Send(p)
               \/ Answer(p) \/ SealCampaign(p)
      BY <3>2 DEF LookForDirectory, MakeDirectory, SyncParent, Proceed, Send, Answer, SendReturns,
         SealCampaign, Refused, Raises, Exit
    <3>3. CASE LinkFile(p) \/ SyncFile(p)
      <4>1. ASSUME NEW why \in {"exists", "os_error"}, WriteFails(p, why)
            PROVE  \E e : exit' = [exit EXCEPT ![p] = e]
        BY <4>1 DEF WriteFails, Refused, Unwritten, Raises, Exit
      <4> QED
        BY <3>3, <4>1 DEF LinkFile, SyncFile
    <3> QED
      BY <3>1, <3>2, <3>3, StepActions
  <2> QED
    BY <2>1 DEF TypeOK, RunsOK
<1>3. \A o \in Proc \ {p} :
        /\ nth'[o] = nth[o] /\ todo'[o] = todo[o] /\ elapsed'[o] = elapsed[o]
        /\ tokens'[o] = tokens[o] /\ replies'[o] = replies[o] /\ sentBy'[o] = sentBy[o]
  <2>1. CASE Checks(p)
    BY <2>1, ChecksMove DEF TypeOK, memory, history
  <2>2. CASE LookForDirectory(p) \/ MakeDirectory(p) \/ SyncParent(p) \/ LinkFile(p) \/ SyncFile(p)
    BY <2>2 DEF LookForDirectory, MakeDirectory, SyncParent, LinkFile, SyncFile, TypeOK, RunsOK, memory, history
  <2>3. CASE Proceed(p) \/ Send(p) \/ SealCampaign(p)
    BY <2>3 DEF Proceed, Send, SealCampaign, TypeOK, RunsOK, memory, history
  <2>4. CASE Answer(p)
    BY <2>4 DEF Answer, SendReturns, TypeOK, RunsOK, history
  <2> QED
    BY <2>1, <2>2, <2>3, <2>4, StepActions
<1> QED
  BY <1>1, <1>2, <1>3 DEF Alone

LEMMA OthersOwn ==
  ASSUME NEW p \in Proc, Alone(p), NEW o \in Proc, o # p, OwnInv(o)
  PROVE  OwnInv(o)'
<1>1. /\ pc'[o] = pc[o] /\ nth'[o] = nth[o] /\ todo'[o] = todo[o] /\ elapsed'[o] = elapsed[o]
      /\ tokens'[o] = tokens[o] /\ replies'[o] = replies[o] /\ exit'[o] = exit[o]
      /\ sentBy'[o] = sentBy[o]
  BY DEF Alone
<1>2. ProgressInv(o)'
  BY <1>1 DEF OwnInv, ProgressInv, Replied, Writing, Early, Current
<1>3. TokensInv(o)' /\ EndInv(o)'
  BY <1>1 DEF OwnInv, TokensInv, EndInv, EndOK, Unit, AllValid
<1> QED
  BY <1>2, <1>3 DEF OwnInv

\* A run that ends: what it says must be so.
LEMMA ExitKeepsOwn ==
  ASSUME EndsInv, NEW p \in Proc, NEW code \in {0, 2, 3}, NEW attempted \in Attempted, NEW why \in Reason,
         Exit(p, code, attempted, why), UNCHANGED memory, UNCHANGED sentBy,
         EndOK(p, code, attempted, why)
  PROVE  OwnInv(p)'
<1>1. pc'[p] = "exited" /\ exit'[p] = [code |-> code, attempted |-> attempted, why |-> why]
  BY DEF Exit, Goto, EndsInv, TypeOK, RunsOK
<1>2. exit'[p].code = code /\ exit'[p].attempted = attempted /\ exit'[p].why = why
  BY <1>1
<1>3. EndOK(p, code, attempted, why)'
  BY DEF EndOK, memory, Unit, AllValid
<1>4. EndInv(p)'
  BY <1>2, <1>3 DEF EndInv, EndOK
<1>5. TokensInv(p)'
  BY DEF EndsInv, OwnInv, TokensInv, memory
<1>6. ProgressInv(p)'
  BY <1>1 DEF ProgressInv, Final
<1> QED
  BY <1>4, <1>5, <1>6 DEF OwnInv

\* A run that goes on and keeps what it knows.
LEMMA GoesKeepsOwn ==
  ASSUME EndsInv, NEW p \in Proc, pc'[p] # "exited", UNCHANGED <<tokens, replies>>, ProgressInv(p)'
  PROVE  OwnInv(p)'
BY DEF EndsInv, OwnInv, TokensInv, EndInv

\* plans differ, so the plan in hand is not among the earlier ones
LEMMA UnitIsNew ==
  ASSUME RunsOK, NEW p \in Proc
  PROVE  /\ Unit(p) \notin First(p, nth[p] - 1)
         /\ First(p, nth[p]) = First(p, nth[p] - 1) \cup {Unit(p)}
         /\ First(p, Len(Plans(p))) = PlanSet(p)
         /\ First(p, 0) = {}
         /\ ~Campaign(p) => nth[p] = 1
<1>1. Plans(p) \in Seq(Plan) /\ nth[p] \in 1 .. Len(Plans(p))
  BY JobAssumption DEF RunsOK, Plans
<1>2. \A i, j \in 1 .. Len(Plans(p)) : Plans(p)[i] = Plans(p)[j] => i = j
  BY <1>1, JobAssumption DEF Plans
<1>3. Unit(p) \notin First(p, nth[p] - 1)
  BY <1>1, <1>2 DEF First, Unit
<1>4. First(p, nth[p]) = First(p, nth[p] - 1) \cup {Unit(p)}
  <2>1. 1 .. nth[p] = (1 .. nth[p] - 1) \cup {nth[p]}
    BY <1>1
  <2> QED
    BY <2>1 DEF First, Unit
<1>5. First(p, Len(Plans(p))) = PlanSet(p)
  BY <1>1 DEF First, PlanSet
<1>6. First(p, 0) = {}
  BY DEF First
<1>7. ~Campaign(p) => nth[p] = 1
  BY <1>1, JobAssumption DEF Campaign, Plans
<1> QED
  BY <1>3, <1>4, <1>5, <1>6, <1>7

LEMMA LeftTails ==
  ASSUME NEW r, NEW names \in Left(r)
  PROVE  /\ names \in {<<"raw", "draft", "card", "receipt">>, <<"draft", "card", "receipt">>,
                       <<"card", "receipt">>, <<"raw", "receipt">>, <<"receipt">>}
         /\ names # <<>> /\ names # <<"marker">> /\ names # <<"campaign">>
         /\ Head(names) \in Names
         /\ Tail(names) = <<>> <=> Head(names) = "receipt"
         /\ Tail(names) # <<>> => Tail(names) \in Left(r)
<1>1. names \in {<<"raw", "draft", "card", "receipt">>, <<"draft", "card", "receipt">>,
                 <<"card", "receipt">>, <<"raw", "receipt">>, <<"receipt">>}
  BY DEF Left
<1>2. /\ Tail(<<"raw", "draft", "card", "receipt">>) = <<"draft", "card", "receipt">>
      /\ Tail(<<"draft", "card", "receipt">>) = <<"card", "receipt">>
      /\ Tail(<<"card", "receipt">>) = <<"receipt">>
      /\ Tail(<<"raw", "receipt">>) = <<"receipt">>
      /\ Tail(<<"receipt">>) = <<>>
  OBVIOUS
<1>3. /\ names # <<>> /\ names # <<"marker">> /\ names # <<"campaign">>
      /\ Head(names) \in Names
  BY <1>1 DEF Names
<1>4. Tail(names) = <<>> <=> Head(names) = "receipt"
  <2>1. CASE names = <<"receipt">>
    BY <1>2, <2>1
  <2>2. CASE names # <<"receipt">>
    <3>1. Tail(names) \in {<<"draft", "card", "receipt">>, <<"card", "receipt">>, <<"receipt">>}
      BY <1>1, <1>2, <2>2
    <3>2. Tail(names) # <<>>
      BY <3>1
    <3>3. Head(names) # "receipt"
      BY <1>1, <2>2
    <3> QED
      BY <3>2, <3>3
  <2> QED
    BY <2>1, <2>2
<1>5. ASSUME Tail(names) # <<>> PROVE Tail(names) \in Left(r)
  BY <1>2, <1>5 DEF Left
<1> QED
  BY <1>1, <1>3, <1>4, <1>5

LEMMA ArtifactsAreLeft ==
  ASSUME NEW r
  PROVE  Artifacts(r) \in Left(r)
BY DEF Artifacts, Left
\* what a failed write makes of the run
LEMMA WriteFailsHow ==
  ASSUME NEW p \in Proc, NEW why \in {"exists", "os_error"}, WriteFails(p, why)
  PROVE  \/ /\ Head(todo[p]) = "marker" /\ why = "exists"
            /\ Refused(p, "attempt_already_consumed")
         \/ \E reason \in {"os_error", "artifact_collision", "live_materialization_error"},
               attempted \in {"unknown", "true"} : Exit(p, 3, attempted, reason)
BY DEF WriteFails, Raises, Unwritten

\* the checks before the loop and inside it
LEMMA ChecksKeepOwn ==
  ASSUME EndsInv, NEW p \in Proc, Checks(p)
  PROVE  OwnInv(p)'
<1>1. RunsOK /\ OwnInv(p) /\ ProgressInv(p)
  BY DEF EndsInv, TypeOK, OwnInv
<1>2. UNCHANGED memory /\ UNCHANGED sentBy
  BY <1>1, ChecksMove DEF history
<1>3. First(p, 0) = {} /\ (~Campaign(p) => nth[p] = 1)
      /\ nth[p] \in 1 .. Len(Plans(p)) /\ Len(Plans(p)) \in Nat
  <2>1. Plans(p) \in Seq(Plan)
    BY JobAssumption DEF Plans
  <2> QED
    BY <1>1, <2>1, UnitIsNew DEF RunsOK
<1>4. Early(p) => sentBy[p] = {}
  BY <1>1, <1>3 DEF ProgressInv, Early, Final, Replied, Writing
<1>5. CASE Start(p)
  <2>1. CASE Exit(p, 2, "false", "refused")
    <3>1. EndOK(p, 2, "false", "refused")
      BY <1>4, <1>5 DEF EndOK, Start, Early
    <3> QED
      BY <1>2, <2>1, <3>1, ExitKeepsOwn DEF Attempted, Reason
  <2>2. CASE Goto(p, IF Campaign(p) THEN "markers" ELSE "credential") /\ UNCHANGED exit
    <3>1. ProgressInv(p)'
      BY <1>1, <1>2, <1>5, <2>2 DEF ProgressInv, Start, Goto, RunsOK, Early, Replied, Writing, Final, memory
    <3>2. pc'[p] # "exited"
      BY <1>1, <2>2 DEF Goto, RunsOK
    <3> QED
      BY <1>2, <3>1, <3>2, GoesKeepsOwn DEF memory
  <2> QED
    BY <1>5, <2>1, <2>2 DEF Start
<1>6. CASE PreflightMarkers(p) \/ PreflightArtifacts(p)
  <2>1. Campaign(p) /\ sentBy[p] = {}
    BY <1>1, <1>4, <1>6 DEF PreflightMarkers, PreflightArtifacts, Early, ProgressInv, Final
  <2>2. CASE \E why \in {"attempt_already_consumed", "artifact_collision"} : Refused(p, why)
    <3>1. PICK why \in {"attempt_already_consumed", "artifact_collision"} : Exit(p, 3, "unknown", why)
      BY <2>1, <2>2 DEF Refused
    <3>2. EndOK(p, 3, "unknown", why)
      BY <2>1 DEF EndOK
    <3> QED
      BY <1>2, <3>1, <3>2, ExitKeepsOwn DEF Attempted, Reason
  <2>3. CASE \E place \in {"artifacts", "credential"} : Goto(p, place)
    <3>1. ProgressInv(p)'
      BY <1>1, <1>2, <1>6, <2>1, <2>3 DEF ProgressInv, PreflightMarkers, PreflightArtifacts, Goto, RunsOK,
         Early, Replied, Writing, Final, memory
    <3>2. pc'[p] # "exited"
      BY <1>1, <2>3 DEF Goto, RunsOK
    <3> QED
      BY <1>2, <3>1, <3>2, GoesKeepsOwn DEF memory
  <2> QED
    BY <1>6, <2>2, <2>3 DEF PreflightMarkers, PreflightArtifacts
<1>7. CASE CheckCredential(p)
  <2>1. sentBy[p] = {}
    BY <1>4, <1>7 DEF CheckCredential, Early
  <2>2. CASE Refused(p, "credential_unavailable")
    <3>1. PICK code \in {2, 3}, attempted \in {"false", "unknown"} :
            Exit(p, code, attempted, "credential_unavailable")
      BY <2>2 DEF Refused
    <3>2. EndOK(p, code, attempted, "credential_unavailable")
      BY <2>1 DEF EndOK
    <3> QED
      BY <1>2, <3>1, <3>2, ExitKeepsOwn DEF Attempted, Reason
  <2>3. CASE Goto(p, IF Campaign(p) THEN "admit" ELSE "look")
    <3>1. ProgressInv(p)'
      BY <1>1, <1>2, <1>7, <2>3 DEF ProgressInv, CheckCredential, Goto, RunsOK,
         Early, Replied, Writing, Final, memory
    <3>2. pc'[p] # "exited"
      BY <1>1, <2>3 DEF Goto, RunsOK
    <3> QED
      BY <1>2, <3>1, <3>2, GoesKeepsOwn DEF memory
  <2> QED
    BY <1>7, <2>2, <2>3 DEF CheckCredential
<1>8. CASE AdmitPlan(p)
  <2>1. CASE elapsed[p] + Timeout > TotalTimeout(p)
    <3>1. Campaign(p)
      BY <1>1, <1>8 DEF AdmitPlan, ProgressInv, Final
    <3>2. Exit(p, 3, "unknown", "campaign_wall_clock_budget_insufficient")
      BY <1>8, <2>1, <3>1 DEF AdmitPlan, Refused
    <3>3. elapsed[p] > (nth[p] - 1) * Timeout
      <4> DEFINE n == nth[p]
      <4> DEFINE l == Len(Plans(p))
      <4>1. n \in Nat /\ l \in Nat /\ n <= l /\ elapsed[p] \in Nat /\ Timeout \in Nat
        BY <1>1, <1>3, NumberAssumption DEF RunsOK
      <4>2. elapsed[p] + Timeout > l * Timeout
        BY <2>1 DEF TotalTimeout
      <4> HIDE DEF n, l
      <4>3. n * Timeout <= l * Timeout
        BY <4>1
      <4>4. (n - 1) * Timeout = n * Timeout - Timeout
        BY <4>1
      <4>5. n * Timeout \in Nat /\ l * Timeout \in Nat
        BY <4>1
      <4>6. elapsed[p] > (n - 1) * Timeout
        BY <4>1, <4>2, <4>3, <4>4, <4>5
      <4> QED
        BY <4>6 DEF n
    <3>4. EndOK(p, 3, "unknown", "campaign_wall_clock_budget_insufficient")
      BY <3>3 DEF EndOK
    <3> QED
      BY <1>2, <3>2, <3>4, ExitKeepsOwn DEF Attempted, Reason
  <2>2. CASE ~(elapsed[p] + Timeout > TotalTimeout(p))
    <3>1. ProgressInv(p)'
      BY <1>1, <1>2, <1>8, <2>2 DEF ProgressInv, AdmitPlan, Goto, RunsOK,
         Early, Replied, Writing, Final, memory
    <3>2. pc'[p] # "exited"
      BY <1>1, <1>8, <2>2 DEF AdmitPlan, Goto, RunsOK
    <3> QED
      BY <1>2, <3>1, <3>2, GoesKeepsOwn DEF memory
  <2> QED
    BY <2>1, <2>2
<1>9. CASE CheckFolder(p)
  <2>1. CASE Unwritten(p, "artifact_collision")
    <3>1. PICK attempted \in {"true", "unknown"} : Exit(p, 3, attempted, "artifact_collision")
      BY <2>1 DEF Unwritten
    <3>2. EndOK(p, 3, attempted, "artifact_collision")
      BY DEF EndOK
    <3> QED
      BY <1>2, <3>1, <3>2, ExitKeepsOwn DEF Attempted, Reason
  <2>2. CASE Goto(p, "link")
    <3>1. todo[p] \in Left(Current(p))
      BY <1>1, <1>9 DEF ProgressInv, CheckFolder, Final
    <3>2. todo[p] # <<"marker">> /\ todo[p] # <<"campaign">>
      BY <3>1, LeftTails
    <3>3. ProgressInv(p)'
      BY <1>1, <1>2, <1>9, <2>2, <3>1, <3>2 DEF ProgressInv, CheckFolder, Goto, RunsOK,
         Early, Replied, Writing, Final, memory, Current
    <3>4. pc'[p] # "exited"
      BY <1>1, <2>2 DEF Goto, RunsOK
    <3> QED
      BY <1>2, <3>3, <3>4, GoesKeepsOwn DEF memory
  <2> QED
    BY <1>9, <2>1, <2>2 DEF CheckFolder
<1>10. CASE Report(p)
  <2>1. /\ Len(replies[p]) = Len(Plans(p)) /\ sentBy[p] = PlanSet(p)
    BY <1>1, <1>10, UnitIsNew DEF Report, ProgressInv, Replied, Final
  <2>2. PICK code \in {0, 3} : /\ code = 0 => AllValid(p)
                               /\ Exit(p, code, "true", "completed")
    BY <1>10 DEF Report
  <2>3. EndOK(p, code, "true", "completed")
    BY <2>1, <2>2 DEF EndOK
  <2> QED
    BY <1>2, <2>2, <2>3, ExitKeepsOwn DEF Attempted, Reason
<1>11. CASE Crash(p)
  <2>1. pc'[p] = "crashed"
    BY <1>1, <1>11 DEF Crash, Goto, RunsOK
  <2>2. ProgressInv(p)'
    BY <2>1 DEF ProgressInv, Final
  <2> QED
    BY <1>2, <2>1, <2>2, GoesKeepsOwn DEF memory
<1> QED
  BY <1>5, <1>6, <1>7, <1>8, <1>9, <1>10, <1>11 DEF Checks

\* what a run knows where it has not asked yet
LEMMA BeforeKeepsOwn ==
  ASSUME EndsInv, NEW p \in Proc, pc[p] \in {"look", "mkdir", "parent"},
         UNCHANGED <<nth, elapsed, tokens, replies, sentBy>>,
         \/ pc'[p] \in {"mkdir", "parent"}
         \/ pc'[p] = "link" /\ todo'[p] = <<"marker">>
  PROVE  OwnInv(p)'
<1>1. ProgressInv(p)
  BY DEF EndsInv, OwnInv
<1>2. ProgressInv(p)'
  BY <1>1 DEF ProgressInv, Early, Replied, Writing, Final
<1> QED
  BY <1>2, GoesKeepsOwn

LEMMA DirectoryKeepsOwn ==
  ASSUME EndsInv, NEW p \in Proc, LookForDirectory(p) \/ MakeDirectory(p) \/ SyncParent(p)
  PROVE  OwnInv(p)'
<1>1. CASE Raises(p, "os_error") /\ UNCHANGED memory
  <2>1. EndOK(p, 3, "unknown", "os_error")
    BY DEF EndOK
  <2>2. UNCHANGED sentBy
    BY DEF LookForDirectory, MakeDirectory, SyncParent, history
  <2> QED
    BY <1>1, <2>1, <2>2, ExitKeepsOwn DEF Raises, Attempted, Reason
<1>2. CASE ~(Raises(p, "os_error") /\ UNCHANGED memory)
  <2>1. /\ pc[p] \in {"look", "mkdir", "parent"}
        /\ UNCHANGED <<nth, elapsed, tokens, replies, sentBy>>
    BY DEF LookForDirectory, MakeDirectory, SyncParent, memory, history
  <2>2. \/ Goto(p, "mkdir") \/ Goto(p, "parent")
        \/ Goto(p, "link") /\ todo' = [todo EXCEPT ![p] = <<"marker">>]
    BY <1>2 DEF LookForDirectory, MakeDirectory, SyncParent, memory
  <2>3. \/ pc'[p] \in {"mkdir", "parent"}
        \/ pc'[p] = "link" /\ todo'[p] = <<"marker">>
    BY <2>2 DEF Goto, EndsInv, TypeOK, RunsOK
  <2> QED
    BY <2>1, <2>3, BeforeKeepsOwn
<1> QED
  BY <1>1, <1>2

LEMMA FilesKeepOwn ==
  ASSUME EndsInv, NEW p \in Proc, LinkFile(p) \/ SyncFile(p)
  PROVE  OwnInv(p)'
<1>1. RunsOK /\ ProgressInv(p)
  BY DEF EndsInv, TypeOK, OwnInv
<1>2. UNCHANGED memory /\ UNCHANGED sentBy /\ pc[p] \in {"link", "sync"}
  BY DEF LinkFile, SyncFile, history
<1>3. CASE \E why \in {"exists", "os_error"} : WriteFails(p, why)
  <2>1. CASE Head(todo[p]) = "marker" /\ Refused(p, "attempt_already_consumed")
    <3>1. todo[p] = <<"marker">>
      <4>1. \/ todo[p] = <<"marker">>
            \/ todo[p] = <<"campaign">>
            \/ todo[p] \in Left(Current(p))
        BY <1>1, <1>2 DEF ProgressInv, Final, Writing
      <4>2. todo[p] # <<"campaign">>
        BY <2>1
      <4>3. todo[p] \notin Left(Current(p))
        BY <2>1, LeftTails DEF Names
      <4> QED
        BY <4>1, <4>2, <4>3
    <3>2. sentBy[p] = First(p, nth[p] - 1)
      BY <1>1, <1>2, <3>1 DEF ProgressInv, Final, Replied, Writing
    <3>3. Unit(p) \notin sentBy[p] /\ (~Campaign(p) => sentBy[p] = {})
      BY <1>1, <3>2, UnitIsNew
    <3>4. PICK code \in {2, 3}, attempted \in {"false", "unknown"} :
            /\ attempted = "false" => ~Campaign(p)
            /\ Exit(p, code, attempted, "attempt_already_consumed")
      BY <2>1 DEF Refused
    <3>5. EndOK(p, code, attempted, "attempt_already_consumed")
      BY <3>3, <3>4 DEF EndOK
    <3> QED
      BY <1>2, <3>4, <3>5, ExitKeepsOwn DEF Attempted, Reason
  <2>2. ASSUME NEW reason \in {"os_error", "artifact_collision", "live_materialization_error"},
               NEW attempted \in {"unknown", "true"}, Exit(p, 3, attempted, reason)
        PROVE  OwnInv(p)'
    <3>1. EndOK(p, 3, attempted, reason)
      BY DEF EndOK
    <3> QED
      BY <1>2, <2>2, <3>1, ExitKeepsOwn DEF Attempted, Reason
  <2> QED
    BY <1>3, <2>1, <2>2, WriteFailsHow
<1>4. CASE Goto(p, "sync") \/ Goto(p, "written")
  <2>1. pc'[p] \in {"sync", "written"}
    BY <1>1, <1>4 DEF Goto, RunsOK
  <2>2. ProgressInv(p)'
    BY <1>1, <1>2, <2>1 DEF ProgressInv, Early, Replied, Writing, Final, memory, Current
  <2> QED
    BY <1>2, <2>1, <2>2, GoesKeepsOwn DEF memory
<1> QED
  BY <1>3, <1>4 DEF LinkFile, SyncFile
LEMMA ProceedKeepsOwn ==
  ASSUME EndsInv, NEW p \in Proc, Proceed(p)
  PROVE  OwnInv(p)'
<1> DEFINE name == Head(todo[p])
<1> DEFINE rest == Tail(todo[p])
<1>1. RunsOK /\ ProgressInv(p) /\ pc[p] = "written"
  BY DEF EndsInv, TypeOK, OwnInv, Proceed
<1>2. /\ todo'[p] = rest
      /\ pc'[p] = CASE rest # <<>> -> "link"
                    [] rest = <<>> /\ name = "marker" -> "send"
                    [] rest = <<>> /\ name = "receipt" /\ Campaign(p) -> IF More(p) THEN "admit" ELSE "seal"
                    [] OTHER -> "report"
      /\ nth'[p] = IF rest = <<>> /\ name = "receipt" /\ More(p) THEN nth[p] + 1 ELSE nth[p]
      /\ replies' = replies /\ tokens' = tokens /\ sentBy' = sentBy
  BY <1>1 DEF Proceed, Goto, RunsOK, history
<1>3. pc'[p] # "exited"
  BY <1>2
<1>4. /\ Len(replies[p]) = IF todo[p] # <<"marker">> THEN nth[p] ELSE nth[p] - 1
      /\ sentBy[p] = First(p, IF todo[p] # <<"marker">> THEN nth[p] ELSE nth[p] - 1)
      /\ \/ todo[p] = <<"marker">>
         \/ todo[p] = <<"campaign">> /\ Campaign(p) /\ nth[p] = Len(Plans(p))
         \/ todo[p] \in Left(Current(p))
  BY <1>1 DEF ProgressInv, Replied, Writing, Final
<1>5. nth[p] \in 1 .. Len(Plans(p)) /\ Len(Plans(p)) \in Nat /\ (~Campaign(p) => Len(Plans(p)) = 1)
  BY <1>1, JobAssumption DEF RunsOK, Plans, Campaign
<1>6. CASE todo[p] = <<"marker">>
  <2>1. pc'[p] = "send" /\ nth'[p] = nth[p]
    BY <1>2, <1>6
  <2>2. ProgressInv(p)'
    BY <1>2, <1>4, <1>6, <2>1 DEF ProgressInv, Early, Replied, Writing, Final
  <2> QED
    BY <1>2, <1>3, <2>2, GoesKeepsOwn
<1>7. CASE todo[p] = <<"campaign">>
  <2>1. pc'[p] = "report" /\ nth'[p] = nth[p] /\ nth[p] = Len(Plans(p)) /\ todo[p] # <<"marker">>
    <3>1. todo[p] # <<"marker">>
      BY <1>7
    <3>2. todo[p] \notin Left(Current(p))
      BY <1>7, LeftTails
    <3>3. name = "campaign" /\ rest = <<>>
      BY <1>7
    <3> QED
      BY <1>2, <1>4, <3>1, <3>2, <3>3
  <2>2. ProgressInv(p)'
    BY <1>2, <1>4, <2>1 DEF ProgressInv, Early, Replied, Writing, Final
  <2> QED
    BY <1>2, <1>3, <2>2, GoesKeepsOwn
<1>8. CASE todo[p] \in Left(Current(p))
  <2>1. /\ todo[p] # <<"marker">> /\ name \in Names
        /\ rest = <<>> <=> name = "receipt"
        /\ rest # <<>> => rest \in Left(Current(p)) /\ rest # <<"marker">> /\ rest # <<"campaign">>
    BY <1>8, LeftTails
  <2>2. CASE rest # <<>>
    <3>1. pc'[p] = "link" /\ nth'[p] = nth[p]
      BY <1>2, <2>2
    <3>2. ProgressInv(p)'
      BY <1>2, <1>4, <2>1, <2>2, <3>1 DEF ProgressInv, Early, Replied, Writing, Final, Current
    <3> QED
      BY <1>2, <1>3, <3>2, GoesKeepsOwn
  <2>3. CASE rest = <<>> /\ More(p)
    <3>0. nth[p] < Len(Plans(p))
      BY <2>3 DEF More
    <3>1. Campaign(p)
      <4>1. Len(Plans(p)) # 1
        BY <1>5, <3>0
      <4> QED
        BY <1>5, <4>1
    <3>2. pc'[p] = "admit" /\ nth'[p] = nth[p] + 1
      BY <1>2, <2>1, <2>3, <3>1
    <3>a. nth'[p] - 1 = nth[p]
      BY <1>5, <3>2
    <3>b. Len(replies'[p]) = nth'[p] - 1 /\ sentBy'[p] = First(p, nth'[p] - 1)
      BY <1>2, <1>4, <2>1, <3>a
    <3>3. ProgressInv(p)'
      BY <3>1, <3>2, <3>b DEF ProgressInv, Early, Replied, Writing, Final, Campaign
    <3> QED
      BY <1>2, <1>3, <3>3, GoesKeepsOwn
  <2>4. CASE rest = <<>> /\ ~More(p)
    <3>1. /\ pc'[p] = IF Campaign(p) THEN "seal" ELSE "report"
          /\ nth'[p] = nth[p]
      BY <1>2, <2>1, <2>4
    <3>2. nth[p] = Len(Plans(p))
      BY <1>5, <2>4 DEF More
    <3>3. ProgressInv(p)'
      BY <1>2, <1>4, <2>1, <3>1, <3>2 DEF ProgressInv, Early, Replied, Writing, Final, Campaign
    <3> QED
      BY <1>2, <1>3, <3>3, GoesKeepsOwn
  <2> QED
    BY <2>2, <2>3, <2>4
<1> QED
  BY <1>4, <1>6, <1>7, <1>8

LEMMA SendKeepsOwn ==
  ASSUME EndsInv, NEW p \in Proc, Send(p)
  PROVE  OwnInv(p)'
<1>1. RunsOK /\ ProgressInv(p) /\ sentBy \in [Proc -> SUBSET Plan]
  BY DEF EndsInv, TypeOK, OwnInv
<1>2. pc[p] = "send" /\ pc'[p] = "sending" /\ sentBy'[p] = sentBy[p] \cup {Unit(p)} /\ UNCHANGED memory
  BY <1>1 DEF Send, Goto, RunsOK
<1>3. /\ Len(replies[p]) = nth[p] - 1 /\ sentBy[p] = First(p, nth[p] - 1)
  BY <1>1, <1>2 DEF ProgressInv, Replied, Writing, Final
<1>4. sentBy'[p] = First(p, nth[p])
  BY <1>1, <1>2, <1>3, UnitIsNew
<1>5. ProgressInv(p)'
  BY <1>2, <1>3, <1>4 DEF ProgressInv, Early, Replied, Writing, Final, memory
<1> QED
  BY <1>2, <1>5, GoesKeepsOwn DEF memory

LEMMA OverrunCounts ==
  ASSUME NEW r \in Reply, ~Overrun(r)
  PROVE  r.tokens <= Reserved
BY ReplyAssumption, NumberAssumption DEF Overrun, Bodies

LEMMA AnswerKeepsOwn ==
  ASSUME EndsInv, NEW p \in Proc, NEW r \in Reply, NEW ticks \in 0 .. Timeout + Overhead,
         SendReturns(p, r, ticks)
  PROVE  OwnInv(p)'
<1> DEFINE n == Len(replies[p])
<1>1. RunsOK /\ ProgressInv(p) /\ TokensInv(p) /\ replies[p] \in Seq(Reply) /\ tokens[p] \in Nat
  BY DEF EndsInv, TypeOK, OwnInv, RunsOK
<1>2. /\ replies'[p] = Append(replies[p], r) /\ tokens'[p] = tokens[p] + r.tokens
      /\ nth' = nth /\ sentBy' = sentBy /\ pc[p] = "sending"
  BY <1>1 DEF SendReturns, RunsOK, history
<1>3. /\ n \in Nat /\ Len(replies'[p]) = n + 1 /\ replies'[p][n + 1] = r
      /\ DOMAIN replies[p] = 1 .. n /\ DOMAIN replies'[p] = 1 .. n + 1
      /\ \A i \in 1 .. n : replies'[p][i] = replies[p][i]
  BY <1>1, <1>2
<1>4. n = nth[p] - 1 /\ sentBy[p] = First(p, nth[p]) /\ nth[p] \in Nat
  BY <1>1, <1>2 DEF ProgressInv, Replied, Writing, Final, RunsOK
<1>5. TokensInv(p)'
  <2> SUFFICES ASSUME \A i \in DOMAIN replies'[p] : ~Overrun(replies'[p][i])
               PROVE  tokens'[p] <= Len(replies'[p]) * Reserved
    BY DEF TokensInv
  <2>1. \A i \in DOMAIN replies[p] : ~Overrun(replies[p][i])
    BY <1>3
  <2>2. tokens[p] <= n * Reserved
    BY <1>1, <2>1 DEF TokensInv
  <2>3. ~Overrun(r)
    <3>1. n + 1 \in DOMAIN replies'[p]
      BY <1>3
    <3> QED
      BY <1>3, <3>1
  <2>4. r.tokens <= Reserved
    BY <2>3, OverrunCounts
  <2>5. r.tokens \in Nat /\ Reserved \in Nat
    BY ReplyAssumption, NumberAssumption
  <2> HIDE DEF n
  <2>6. (n + 1) * Reserved = n * Reserved + Reserved /\ n * Reserved \in Nat
    BY <1>3, <2>5
  <2> QED
    BY <1>1, <1>2, <1>3, <2>2, <2>4, <2>5, <2>6
<1>6. CASE r.body = "deep" /\ Raises(p, "live_runtime_error")
  <2>1. pc'[p] = "exited" /\ exit'[p] = [code |-> 3, attempted |-> "unknown", why |-> "live_runtime_error"]
    BY <1>1, <1>6 DEF Raises, Exit, Goto, RunsOK
  <2>2. exit'[p].code = 3 /\ exit'[p].attempted = "unknown" /\ exit'[p].why = "live_runtime_error"
    BY <2>1
  <2>3. \E i \in DOMAIN replies'[p] : replies'[p][i].body = "deep"
    BY <1>3, <1>6
  <2>4. EndInv(p)'
    BY <2>2, <2>3 DEF EndInv, EndOK
  <2>5. ProgressInv(p)'
    BY <2>1 DEF ProgressInv, Final
  <2> QED
    BY <1>5, <2>4, <2>5 DEF OwnInv
<1>7. CASE ~(r.body = "deep" /\ Raises(p, "live_runtime_error"))
  <2>1. pc'[p] = (IF Campaign(p) THEN "check" ELSE "link") /\ todo'[p] = Artifacts(r)
    BY <1>1, <1>7 DEF SendReturns, Goto, RunsOK
  <2>2. Current(p)' = r
    BY <1>2, <1>3, <1>4 DEF Current
  <2>3. todo'[p] \in Left(Current(p)')
    BY <2>1, <2>2, ArtifactsAreLeft
  <2>4. todo'[p] # <<"marker">> /\ todo'[p] # <<"campaign">>
    BY <2>3, LeftTails
  <2>5. ProgressInv(p)'
    BY <1>2, <1>3, <1>4, <2>1, <2>3, <2>4 DEF ProgressInv, Early, Replied, Writing, Final, Campaign
  <2>6. EndInv(p)'
    BY <2>1 DEF EndInv
  <2> QED
    BY <1>5, <2>5, <2>6 DEF OwnInv
<1> QED
  BY <1>6, <1>7

LEMMA SealKeepsOwn ==
  ASSUME EndsInv, NEW p \in Proc, SealCampaign(p)
  PROVE  OwnInv(p)'
<1>1. RunsOK /\ ProgressInv(p) /\ TokensInv(p) /\ pc[p] = "seal"
  BY DEF EndsInv, TypeOK, OwnInv, SealCampaign
<1>2. /\ Campaign(p) /\ Len(replies[p]) = nth[p] /\ nth[p] = Len(Plans(p))
      /\ sentBy[p] = First(p, nth[p]) /\ nth[p] \in Nat
  BY <1>1 DEF ProgressInv, Final, Replied, RunsOK
<1>3. UNCHANGED <<nth, elapsed, tokens, replies, sentBy>>
  BY DEF SealCampaign, history
<1>4. CASE Refused(p, "campaign_wall_clock_budget_exceeded") /\ UNCHANGED todo
  <2>1. Exit(p, 3, "unknown", "campaign_wall_clock_budget_exceeded")
    BY <1>2, <1>4 DEF Refused
  <2>2. EndOK(p, 3, "unknown", "campaign_wall_clock_budget_exceeded")
    BY DEF EndOK
  <2> QED
    BY <1>3, <1>4, <2>1, <2>2, ExitKeepsOwn DEF memory, Attempted, Reason
<1>5. CASE Raises(p, "campaign_runtime_or_integrity_invalid") /\ UNCHANGED todo /\ tokens[p] > TotalReserved(p)
  <2>1. ~(tokens[p] <= Len(replies[p]) * Reserved)
    <3>1. tokens[p] \in Nat /\ Len(Plans(p)) * Reserved \in Nat
      BY <1>1, <1>2, NumberAssumption DEF RunsOK
    <3> QED
      BY <1>2, <1>5, <3>1 DEF TotalReserved
  <2>2. \E i \in DOMAIN replies[p] : Overrun(replies[p][i])
    BY <1>1, <2>1 DEF TokensInv
  <2>3. EndOK(p, 3, "unknown", "campaign_runtime_or_integrity_invalid")
    BY <2>2 DEF EndOK
  <2> QED
    BY <1>3, <1>5, <2>3, ExitKeepsOwn DEF Raises, memory, Attempted, Reason
<1>6. CASE Goto(p, "link") /\ todo' = [todo EXCEPT ![p] = <<"campaign">>]
  <2>1. pc'[p] = "link" /\ todo'[p] = <<"campaign">>
    BY <1>1, <1>6 DEF Goto, RunsOK
  <2>2. <<"campaign">> # <<"marker">>
    OBVIOUS
  <2>3. ProgressInv(p)'
    BY <1>2, <1>3, <2>1, <2>2 DEF ProgressInv, Early, Replied, Writing, Final, Campaign
  <2> QED
    BY <1>3, <2>1, <2>3, GoesKeepsOwn
<1> QED
  BY <1>4, <1>5, <1>6 DEF SealCampaign

LEMMA InitEnds == Init => EndsInv
<1> SUFFICES ASSUME Init PROVE EndsInv
  OBVIOUS
<1>1. TypeOK
  BY InitTyped
<1>2. ASSUME NEW p \in Proc PROVE OwnInv(p)
  <2>1. /\ pc[p] \in {"idle", "crashed"} /\ nth[p] = 1 /\ replies[p] = <<>> /\ tokens[p] = 0
        /\ sentBy[p] = {}
    BY DEF Init
  <2>2. First(p, 0) = {}
    BY DEF First
  <2>3. Len(replies[p]) = 0
    BY <2>1
  <2>4. ProgressInv(p)
    BY <2>1, <2>2, <2>3 DEF ProgressInv, Replied, Writing, Early, Final
  <2>5. TokensInv(p) /\ EndInv(p)
    BY <2>1, <2>3, NumberAssumption DEF TokensInv, EndInv
  <2> QED
    BY <2>4, <2>5 DEF OwnInv
<1> QED
  BY <1>1, <1>2 DEF EndsInv

LEMMA NextEnds == EndsInv /\ [Next]_vars => EndsInv'
<1> SUFFICES ASSUME EndsInv, [Next]_vars PROVE EndsInv'
  OBVIOUS
<1>1. TypeOK /\ TypeOK'
  BY NextTyped DEF EndsInv
<1>2. ASSUME NEW p \in Proc, Start(p) \/ LocalStep(p) \/ Answer(p) \/ Crash(p) PROVE EndsInv'
  <2>1. OwnInv(p)'
    BY <1>2, StepActions, ChecksKeepOwn, DirectoryKeepsOwn, FilesKeepOwn, ProceedKeepsOwn,
       SendKeepsOwn, AnswerKeepsOwn, SealKeepsOwn DEF Answer
  <2>2. Alone(p)
    BY <1>1, <1>2, StepsAlone
  <2> QED
    BY <1>1, <2>1, <2>2, OthersOwn DEF EndsInv
<1>3. CASE PowerLoss
  <2>1. ASSUME NEW p \in Proc PROVE OwnInv(p)'
    <3>1. /\ \/ pc'[p] = pc[p]
             \/ pc'[p] = "crashed"
          /\ UNCHANGED memory /\ UNCHANGED exit /\ UNCHANGED sentBy
      BY <1>3 DEF PowerLoss, history
    <3>2. OwnInv(p)
      BY DEF EndsInv
    <3>3. TokensInv(p)' /\ EndInv(p)'
      BY <3>1, <3>2 DEF OwnInv, TokensInv, EndInv, EndOK, Unit, AllValid, memory
    <3>4. ProgressInv(p)'
      BY <3>1, <3>2 DEF OwnInv, ProgressInv, Replied, Writing, Early, Current, Final, memory
    <3> QED
      BY <3>3, <3>4 DEF OwnInv
  <2> QED
    BY <1>1, <2>1 DEF EndsInv
<1>4. CASE UNCHANGED vars
  <2>1. ASSUME NEW p \in Proc PROVE OwnInv(p)'
    <3>1. UNCHANGED pc /\ UNCHANGED memory /\ UNCHANGED exit /\ UNCHANGED sentBy
      BY <1>4 DEF vars, history
    <3>2. OwnInv(p)
      BY DEF EndsInv
    <3>3. TokensInv(p)' /\ EndInv(p)'
      BY <3>1, <3>2 DEF OwnInv, TokensInv, EndInv, EndOK, Unit, AllValid, memory
    <3>4. ProgressInv(p)'
      BY <3>1, <3>2 DEF OwnInv, ProgressInv, Replied, Writing, Early, Current, Final, memory
    <3> QED
      BY <3>3, <3>4 DEF OwnInv
  <2> QED
    BY <1>1, <2>1 DEF EndsInv
<1> QED
  BY <1>2, <1>3, <1>4 DEF Next, Finished

\* What a run of either command says when it ends is so, whatever other runs,
\* crashes and power failures there are: exit code 0 means that every plan was
\* handed over and every card is valid, network_attempted = false that none
\* was, and an error has its cause (main() of both commands, the budget of the
\* campaign and the validator of its receipt).
THEOREM EndsHaveCauses == Spec => []EndsAreExplained
<1> QED
  BY InitEnds, NextEnds, EndsAreTrue, PTL DEF Spec
-----------------------------------------------------------------------------
(* Receipts.                                                               *)

\* where a run writes the files of one plan
Results(p) ==
  \/ pc[p] = "check"
  \/ Writing(p) /\ todo[p] # <<"marker">> /\ todo[p] # <<"campaign">>

Mine(p) == Folder(Job[p].place, Unit(p))

Elements(names) == {names[k] : k \in DOMAIN names}

\* the files that are there by now
Done(p) ==
  (Written(Current(p)) \ Elements(todo[p]))
    \cup (IF pc[p] \in {"sync", "written"} THEN {Head(todo[p])} ELSE {})

\* how many of the plans are finished
Settled(p) ==
  IF pc[p] \in {"seal", "report"} \/ (Writing(p) /\ todo[p] = <<"campaign">>) THEN nth[p] ELSE nth[p] - 1

\* names, plans and owners belong together
FileNamesOK ==
  \A f \in files :
    /\ f.name \in Names => f.plan \in Plan /\ (f.owner \in Proc => f.place = Job[f.owner].place)
    /\ f.name = "campaign" => f.plan = NoPlan /\ f.owner \in Proc /\ Campaign(f.owner)

\* what a run handed over it has marked for good
MarkInv(p) ==
  \A q \in sentBy[p] :
    \E m \in files : m.name = "marker" /\ m.plan = q /\ m.owner = p /\ m.durable = TRUE

\* Past the preflight a run finds another's file only where that one has the marker.
ForeignInv(p) ==
  Campaign(p) /\ pc[p] \notin {"idle", "markers", "artifacts"} \cup Final =>
    \A q \in PlanSet(p), g \in files :
      g.place = Job[p].place /\ g.plan = q /\ g.owner # p =>
        \E m \in files : m.name = "marker" /\ m.plan = q /\ m.owner # p

\* its own files are those of the answers it got
FreshInv(p) ==
  Campaign(p) =>
    \A i \in DOMAIN Plans(p), g \in files :
      g.place = Job[p].place /\ g.plan = Plans(p)[i] /\ g.owner = p => i <= Len(replies[p])

\* the folder it writes is its own, and durable but for the last file
FolderInv(p) ==
  Campaign(p) /\ Results(p) =>
    /\ {g.name : g \in Mine(p)} = Done(p)
    /\ \A g \in Mine(p) :
         g.owner = p /\ (g.durable = TRUE \/ (pc[p] = "sync" /\ g.name = Head(todo[p])))

\* a receipt stands for a whole folder
ReceiptInv(p) ==
  Campaign(p) => \A f \in Receipts(p) :
    /\ \A g \in Folder(f.place, f.plan) :
         /\ g.owner = p
         /\ g.durable = TRUE \/ (g.name = "receipt" /\ f.durable = FALSE)
    /\ \E i \in DOMAIN replies[p] :
         /\ i \in DOMAIN Plans(p) /\ f.plan = Plans(p)[i]
         /\ {g.name : g \in Folder(f.place, f.plan)} = Written(replies[p][i])

HasReceipt(p, q) == \E h \in files : h.name = "receipt" /\ h.owner = p /\ h.plan = q /\ h.durable = TRUE

SettledInv(p) ==
  Campaign(p) /\ pc[p] \notin Final => \A i \in 1 .. Settled(p) : HasReceipt(p, Plans(p)[i])

SealInv(p) ==
  (\E f \in files : f.name = "campaign" /\ f.owner = p) =>
    sentBy[p] = PlanSet(p) /\ \A q \in PlanSet(p) : HasReceipt(p, q)

TruthInv(p) ==
  /\ MarkInv(p) /\ ForeignInv(p) /\ FreshInv(p) /\ FolderInv(p)
  /\ ReceiptInv(p) /\ SettledInv(p) /\ SealInv(p)

ReceiptsInv == OnceInv /\ EndsInv /\ FileNamesOK /\ \A p \in Proc : TruthInv(p)

LEMMA ReceiptsInvSuffices == ReceiptsInv => ReceiptsAreTrue
<1> SUFFICES ASSUME ReceiptsInv PROVE ReceiptsAreTrue
  OBVIOUS
<1>1. ASSUME NEW p \in Proc, Campaign(p), NEW f \in Receipts(p)
      PROVE  LET folder == Folder(f.place, f.plan)
                 k == CHOOSE i \in DOMAIN Plans(p) : Plans(p)[i] = f.plan
             IN /\ \A g \in folder : g.owner = p /\ (f.durable => g.durable)
                /\ {g.name : g \in folder} = Written(replies[p][k])
  <2>1. ReceiptInv(p)
    BY DEF ReceiptsInv, TruthInv
  <2>2. PICK i \in DOMAIN replies[p] :
          /\ i \in DOMAIN Plans(p) /\ f.plan = Plans(p)[i]
          /\ {g.name : g \in Folder(f.place, f.plan)} = Written(replies[p][i])
    BY <1>1, <2>1 DEF ReceiptInv
  <2>3. \A j \in DOMAIN Plans(p) : Plans(p)[j] = f.plan => j = i
    BY <2>2, JobAssumption DEF Plans
  <2>4. (CHOOSE j \in DOMAIN Plans(p) : Plans(p)[j] = f.plan) = i
    BY <2>2, <2>3
  <2>5. f.durable \in BOOLEAN
    BY <1>1 DEF ReceiptsInv, OnceInv, TypeOK, FilesOK, File, Receipts
  <2>6. \A g \in Folder(f.place, f.plan) : g.owner = p /\ (f.durable => g.durable)
    BY <1>1, <2>1, <2>5 DEF ReceiptInv
  <2> QED
    BY <2>2, <2>4, <2>6
<1>2. ASSUME NEW f \in files, f.name = "campaign"
      PROVE  LET p == f.owner IN
             /\ sentBy[p] = PlanSet(p)
             /\ \A r \in Proc \ {p} : sentBy[r] \cap sentBy[p] = {}
             /\ {g.plan : g \in {h \in Receipts(p) : f.durable => h.durable}} = sentBy[p]
  <2> DEFINE p == f.owner
  <2>1. p \in Proc /\ Campaign(p)
    BY <1>2 DEF ReceiptsInv, FileNamesOK
  <2>2. sentBy[p] = PlanSet(p) /\ \A q \in PlanSet(p) : HasReceipt(p, q)
    BY <1>2, <2>1 DEF ReceiptsInv, TruthInv, SealInv
  <2>3. ASSUME NEW r \in Proc \ {p}, NEW q \in sentBy[r], q \in sentBy[p] PROVE FALSE
    <3>1. \E m \in files : m.name = "marker" /\ m.plan = q /\ m.owner = r
      BY DEF ReceiptsInv, TruthInv, MarkInv
    <3>2. \E m \in files : m.name = "marker" /\ m.plan = q /\ m.owner = p
      BY <2>1, <2>3 DEF ReceiptsInv, TruthInv, MarkInv
    <3> QED
      BY <3>1, <3>2 DEF ReceiptsInv, OnceInv, MarkersOK
  <2>4. ASSUME NEW q \in sentBy[p] PROVE \E h \in Receipts(p) : h.plan = q /\ h.durable = TRUE
    BY <2>2 DEF HasReceipt, Receipts
  <2>5. ASSUME NEW h \in Receipts(p) PROVE h.plan \in sentBy[p]
    BY <2>1, <2>2 DEF ReceiptsInv, TruthInv, ReceiptInv, PlanSet
  <2>6. \A r \in Proc \ {p} : sentBy[r] \cap sentBy[p] = {}
    BY <2>3
  <2>7. {g.plan : g \in {h \in Receipts(p) : f.durable => h.durable}} = sentBy[p]
    <3> DEFINE below == {h \in Receipts(p) : f.durable => h.durable}
    <3>1. \A g \in below : g.plan \in sentBy[p]
      BY <2>5
    <3>2. \A q \in sentBy[p] : \E g \in below : g.plan = q
      BY <2>4
    <3> HIDE DEF below
    <3>3. {g.plan : g \in below} = sentBy[p]
      BY <3>1, <3>2
    <3> QED
      BY <3>3 DEF below
  <2> QED
    BY <2>2, <2>6, <2>7
<1> QED
  BY <1>1, <1>2 DEF ReceiptsAreTrue
\* Files are the same but for their durability, which comes folder by folder.
Same(f, g) == f.name = g.name /\ f.plan = g.plan /\ f.owner = g.owner /\ f.place = g.place

FilesKept ==
  /\ \A f \in files : \E g \in files' : Same(f, g) /\ (f.durable = TRUE => g.durable = TRUE)
  /\ \A g \in files' :
       \E f \in files :
         /\ Same(f, g) /\ (f.durable = TRUE => g.durable = TRUE)
         /\ g.durable = TRUE =>
              \/ f.durable = TRUE
              \/ \A h \in files' : h.place = g.place /\ h.plan = g.plan => h.durable = TRUE

LEMMA SyncKeepsFiles ==
  ASSUME FilesOK, NEW path, files' = files \/ files' = Synced(path)
  PROVE  FilesKept
<1>1. CASE files' = files
  BY <1>1 DEF FilesKept, Same
<1>2. CASE files' = Synced(path)
  <2>1. ASSUME NEW f \in files
        PROVE  /\ Secure(f, path) \in files' /\ Same(f, Secure(f, path))
               /\ f.durable = TRUE => Secure(f, path).durable = TRUE
               /\ Secure(f, path).durable = TRUE /\ f.durable # TRUE =>
                    f.place = path.place /\ (f.place = State \/ f.plan = path.plan)
    BY <1>2 DEF Synced, Secure, FilesOK, File, Same
  <2>2. ASSUME NEW f \in files, f.place = path.place, f.place = State \/ f.plan = path.plan
        PROVE  Secure(f, path).durable = TRUE
    BY <2>2 DEF Secure, FilesOK, File
  <2>3. \A g \in files' : \E f \in files : g = Secure(f, path)
    BY <1>2 DEF Synced
  <2>4. ASSUME NEW g \in files'
        PROVE  \E f \in files :
                 /\ Same(f, g) /\ (f.durable = TRUE => g.durable = TRUE)
                 /\ g.durable = TRUE =>
                      \/ f.durable = TRUE
                      \/ \A h \in files' : h.place = g.place /\ h.plan = g.plan => h.durable = TRUE
    <3>1. PICK f \in files : g = Secure(f, path)
      BY <2>3
    <3>2. Same(f, g) /\ (f.durable = TRUE => g.durable = TRUE)
      BY <2>1, <3>1
    <3>3. ASSUME g.durable = TRUE, f.durable # TRUE, NEW h \in files', h.place = g.place, h.plan = g.plan
          PROVE  h.durable = TRUE
      <4>1. f.place = path.place /\ (f.place = State \/ f.plan = path.plan)
        BY <2>1, <3>1, <3>3
      <4>2. PICK e \in files : h = Secure(e, path)
        BY <2>3
      <4>3. e.place = f.place /\ e.plan = f.plan
        BY <2>1, <3>1, <3>3, <4>2 DEF Same
      <4> QED
        BY <2>2, <4>1, <4>2, <4>3
    <3> QED
      BY <3>2, <3>3
  <2> QED
    BY <2>1, <2>4 DEF FilesKept
<1> QED
  BY <1>1, <1>2

LEMMA NamesKept ==
  ASSUME FileNamesOK, FilesKept
  PROVE  FileNamesOK'
BY DEF FileNamesOK, FilesKept, Same, Campaign

LEMMA MarkKept ==
  ASSUME NEW o \in Proc, MarkInv(o), FilesKept, sentBy'[o] = sentBy[o]
  PROVE  MarkInv(o)'
BY DEF MarkInv, FilesKept, Same

Past(o) == pc[o] \notin {"idle", "markers", "artifacts"} \cup Final

LEMMA ForeignKept ==
  ASSUME NEW o \in Proc, ForeignInv(o), FilesKept, Past(o)' => Past(o)
  PROVE  ForeignInv(o)'
<1> SUFFICES ASSUME Campaign(o), Past(o), NEW q \in PlanSet(o), NEW g \in files',
                    g.place = Job[o].place, g.plan = q, g.owner # o
             PROVE  \E m \in files' : m.name = "marker" /\ m.plan = q /\ m.owner # o
  BY DEF ForeignInv, Past, Campaign, PlanSet, Plans
<1>1. PICK f \in files : Same(f, g)
  BY DEF FilesKept
<1>2. PICK m \in files : m.name = "marker" /\ m.plan = q /\ m.owner # o
  BY <1>1 DEF ForeignInv, Past, Same
<1> QED
  BY <1>2 DEF FilesKept, Same

LEMMA FreshKept ==
  ASSUME NEW o \in Proc, FreshInv(o), FilesKept, Len(replies'[o]) >= Len(replies[o]),
         Len(replies'[o]) \in Nat, Len(replies[o]) \in Nat, nth[o] \in Nat
  PROVE  FreshInv(o)'
<1> SUFFICES ASSUME Campaign(o), NEW i \in DOMAIN Plans(o), NEW g \in files',
                    g.place = Job[o].place, g.plan = Plans(o)[i], g.owner = o
             PROVE  i <= Len(replies'[o])
  BY DEF FreshInv, Campaign, Plans
<1>1. PICK f \in files : Same(f, g)
  BY DEF FilesKept
<1>2. i <= Len(replies[o])
  BY <1>1 DEF FreshInv, Same
<1>3. i \in Int
  BY JobAssumption DEF Plans
<1> QED
  BY <1>2, <1>3

LEMMA ReceiptKept ==
  ASSUME NEW o \in Proc, ReceiptInv(o), FilesKept, files' \subseteq File,
         \A i \in DOMAIN replies[o] : i \in DOMAIN replies'[o] /\ replies'[o][i] = replies[o][i]
  PROVE  ReceiptInv(o)'
<1> SUFFICES ASSUME Campaign(o), NEW g \in files', g.owner = o, g.name = "receipt"
             PROVE  /\ \A h \in files' : h.place = g.place /\ h.plan = g.plan =>
                         /\ h.owner = o
                         /\ h.durable = TRUE \/ (h.name = "receipt" /\ g.durable = FALSE)
                    /\ \E i \in DOMAIN replies'[o] :
                         /\ i \in DOMAIN Plans(o) /\ g.plan = Plans(o)[i]
                         /\ {h.name : h \in Folder(g.place, g.plan)'} = Written(replies'[o][i])
  BY DEF ReceiptInv, Receipts, Folder, Campaign, Plans
<1>1. PICK f \in files :
        /\ Same(f, g)
        /\ g.durable = TRUE =>
             \/ f.durable = TRUE
             \/ \A h \in files' : h.place = g.place /\ h.plan = g.plan => h.durable = TRUE
  BY DEF FilesKept
<1>2. /\ \A e \in files : e.place = g.place /\ e.plan = g.plan =>
           e.owner = o /\ (e.durable = TRUE \/ (e.name = "receipt" /\ f.durable = FALSE))
      /\ \E i \in DOMAIN replies[o] :
           /\ i \in DOMAIN Plans(o) /\ f.plan = Plans(o)[i]
           /\ {h.name : h \in Folder(g.place, g.plan)} = Written(replies[o][i])
  BY <1>1 DEF ReceiptInv, Receipts, Folder, Same
<1>3. g.durable \in BOOLEAN
  BY DEF File
<1>4. ASSUME NEW h \in files', h.place = g.place, h.plan = g.plan
      PROVE  h.owner = o /\ (h.durable = TRUE \/ (h.name = "receipt" /\ g.durable = FALSE))
  <2>1. PICK e \in files : Same(e, h) /\ (e.durable = TRUE => h.durable = TRUE)
    BY DEF FilesKept
  <2>2. e.owner = o /\ (e.durable = TRUE \/ (e.name = "receipt" /\ f.durable = FALSE))
    BY <1>2, <1>4, <2>1 DEF Same
  <2> QED
    BY <1>1, <1>3, <1>4, <2>1, <2>2 DEF Same
<1>5. {h.name : h \in Folder(g.place, g.plan)'} = {h.name : h \in Folder(g.place, g.plan)}
  BY DEF FilesKept, Same, Folder
<1> QED
  BY <1>1, <1>2, <1>4, <1>5 DEF Same

LEMMA ReceiptsStay ==
  ASSUME NEW o \in Proc, NEW q, HasReceipt(o, q), FilesKept
  PROVE  HasReceipt(o, q)'
BY DEF HasReceipt, FilesKept, Same

LEMMA SettledKept ==
  ASSUME NEW o \in Proc, SettledInv(o), FilesKept,
         pc'[o] \notin Final => pc[o] \notin Final /\ Settled(o)' = Settled(o)
  PROVE  SettledInv(o)'
BY ReceiptsStay DEF SettledInv, Campaign, Plans

LEMMA SealKept ==
  ASSUME NEW o \in Proc, SealInv(o), FilesKept, sentBy'[o] = sentBy[o]
  PROVE  SealInv(o)'
<1>1. (\E f \in files : f.name = "campaign" /\ f.owner = o)'
        => \E f \in files : f.name = "campaign" /\ f.owner = o
  BY DEF FilesKept, Same
<1> QED
  BY <1>1, ReceiptsStay DEF SealInv, PlanSet, Plans

\* a run that stays where it is, and its folder
LEMMA FolderKept ==
  ASSUME NEW o \in Proc, FolderInv(o), FilesKept,
         Results(o)' => Results(o) /\ Done(o)' = Done(o) /\ nth'[o] = nth[o]
                          /\ todo'[o] = todo[o] /\ (pc[o] = "sync" => pc'[o] = "sync")
  PROVE  FolderInv(o)'
<1> SUFFICES ASSUME Campaign(o), Results(o)'
             PROVE  /\ {g.name : g \in Mine(o)'} = Done(o)
                    /\ \A g \in Mine(o)' :
                         g.owner = o /\ (g.durable = TRUE \/ (pc'[o] = "sync" /\ g.name = Head(todo[o])))
  BY DEF FolderInv, Campaign
<1>1. Results(o) /\ nth'[o] = nth[o] /\ (pc[o] = "sync" => pc'[o] = "sync")
  OBVIOUS
<1> DEFINE q == Unit(o)
<1>2. Mine(o)' = {g \in files' : g.place = Job[o].place /\ g.plan = q}
  BY <1>1 DEF Mine, Folder, Unit, Plans
<1>3. Mine(o) = {g \in files : g.place = Job[o].place /\ g.plan = q}
  BY DEF Mine, Folder
<1> HIDE DEF q
<1>4. /\ {g.name : g \in Mine(o)} = Done(o)
      /\ \A g \in Mine(o) :
           g.owner = o /\ (g.durable = TRUE \/ (pc[o] = "sync" /\ g.name = Head(todo[o])))
  BY <1>1 DEF FolderInv
<1>5. {g.name : g \in Mine(o)'} = {g.name : g \in Mine(o)}
  BY <1>2, <1>3 DEF FilesKept, Same
<1>6. ASSUME NEW g \in Mine(o)'
      PROVE  g.owner = o /\ (g.durable = TRUE \/ (pc'[o] = "sync" /\ g.name = Head(todo[o])))
  <2>1. PICK f \in files : Same(f, g) /\ (f.durable = TRUE => g.durable = TRUE)
    BY <1>2 DEF FilesKept
  <2>2. f \in Mine(o)
    BY <1>2, <1>3, <2>1 DEF Same
  <2> QED
    BY <1>1, <1>4, <2>1, <2>2 DEF Same
<1> QED
  BY <1>4, <1>5, <1>6
LEMMA OthersTruth ==
  ASSUME ReceiptsInv, TypeOK', NEW p \in Proc, Alone(p), FilesKept, NEW o \in Proc, o # p
  PROVE  TruthInv(o)'
<1>1. /\ pc'[o] = pc[o] /\ nth'[o] = nth[o] /\ todo'[o] = todo[o] /\ replies'[o] = replies[o]
      /\ sentBy'[o] = sentBy[o]
  BY DEF Alone
<1>2. TruthInv(o) /\ RunsOK /\ files' \subseteq File
  BY DEF ReceiptsInv, OnceInv, TypeOK, FilesOK
<1>3. MarkInv(o)' /\ SealInv(o)'
  BY <1>1, <1>2, MarkKept, SealKept DEF TruthInv
<1>4. ForeignInv(o)'
  BY <1>1, <1>2, ForeignKept DEF TruthInv, Past
<1>5. Len(replies[o]) \in Nat /\ nth[o] \in Nat
  BY <1>2 DEF RunsOK
<1>6. FreshInv(o)'
  BY <1>1, <1>2, <1>5, FreshKept DEF TruthInv
<1>7. ReceiptInv(o)'
  BY <1>1, <1>2, ReceiptKept DEF TruthInv
<1>8. Settled(o)' = Settled(o)
  BY <1>1 DEF Settled, Writing
<1>9. SettledInv(o)'
  BY <1>1, <1>2, <1>8, SettledKept DEF TruthInv
<1>10. Done(o)' = Done(o) /\ (Results(o)' => Results(o))
  BY <1>1 DEF Done, Current, Results, Writing, Elements
<1>11. FolderInv(o)'
  BY <1>1, <1>2, <1>10, FolderKept DEF TruthInv
<1> QED
  BY <1>3, <1>4, <1>6, <1>7, <1>9, <1>11 DEF TruthInv

\* A step that creates and loses no file, and hands over no plan.
LEMMA KeptSteps ==
  ASSUME ReceiptsInv, TypeOK', OnceInv', EndsInv', NEW p \in Proc, Alone(p), FilesKept,
         sentBy'[p] = sentBy[p],
         replies'[p] = replies[p] \/ \E r \in Reply : replies'[p] = Append(replies[p], r),
         ForeignInv(p)', FolderInv(p)', SettledInv(p)'
  PROVE  ReceiptsInv'
<1>1. TruthInv(p) /\ RunsOK /\ files' \subseteq File
  BY DEF ReceiptsInv, OnceInv, TypeOK, FilesOK
<1>2. replies[p] \in Seq(Reply) /\ Len(replies[p]) \in Nat /\ nth[p] \in Nat
  BY <1>1 DEF RunsOK
<1>3. /\ Len(replies'[p]) >= Len(replies[p]) /\ Len(replies'[p]) \in Nat
      /\ \A i \in DOMAIN replies[p] : i \in DOMAIN replies'[p] /\ replies'[p][i] = replies[p][i]
  <2>1. CASE replies'[p] = replies[p]
    BY <1>2, <2>1
  <2>2. ASSUME NEW r \in Reply, replies'[p] = Append(replies[p], r)
        PROVE  /\ Len(replies'[p]) >= Len(replies[p]) /\ Len(replies'[p]) \in Nat
               /\ \A i \in DOMAIN replies[p] : i \in DOMAIN replies'[p] /\ replies'[p][i] = replies[p][i]
    BY <1>2, <2>2
  <2> QED
    BY <2>1, <2>2
<1>4. MarkInv(p)' /\ SealInv(p)'
  BY <1>1, MarkKept, SealKept DEF TruthInv
<1>5. FreshInv(p)'
  BY <1>1, <1>2, <1>3, FreshKept DEF TruthInv
<1>6. ReceiptInv(p)'
  BY <1>1, <1>3, ReceiptKept DEF TruthInv
<1>7. TruthInv(p)'
  BY <1>4, <1>5, <1>6 DEF TruthInv
<1>8. FileNamesOK'
  BY NamesKept DEF ReceiptsInv
<1>9. \A o \in Proc : TruthInv(o)'
  BY <1>7, OthersTruth
<1> QED
  BY <1>8, <1>9 DEF ReceiptsInv

\* a run that ends or is killed
LEMMA FinalSteps ==
  ASSUME ReceiptsInv, TypeOK', OnceInv', EndsInv', NEW p \in Proc, Alone(p), FilesKept,
         sentBy'[p] = sentBy[p],
         replies'[p] = replies[p] \/ \E r \in Reply : replies'[p] = Append(replies[p], r),
         pc'[p] \in Final
  PROVE  ReceiptsInv'
<1>1. ForeignInv(p)' /\ FolderInv(p)' /\ SettledInv(p)'
  BY DEF ForeignInv, FolderInv, SettledInv, Results, Writing, Final
<1> QED
  BY <1>1, KeptSteps

LEMMA ChecksKeepTruth ==
  ASSUME ReceiptsInv, TypeOK', OnceInv', EndsInv', NEW p \in Proc, Alone(p), Checks(p)
  PROVE  ReceiptsInv'
<1>1. TruthInv(p) /\ RunsOK /\ FilesOK /\ ProgressInv(p)
  BY DEF ReceiptsInv, EndsInv, OwnInv, TypeOK
<1>2. /\ UNCHANGED memory /\ sentBy'[p] = sentBy[p] /\ files' = files /\ replies'[p] = replies[p]
      /\ pc'[p] \in {"check", "link", "sync", "written"} => pc[p] = "check" /\ pc'[p] = "link"
      /\ pc'[p] # "send" /\ (Goes(p) \/ Ends(p))
  BY <1>1, ChecksMove DEF history, memory
<1>3. FilesKept
  BY <1>1, <1>2, SyncKeepsFiles
<1>4. CASE pc'[p] \in Final
  BY <1>2, <1>3, <1>4, FinalSteps
<1>5. CASE pc'[p] \notin Final
  <2>1. /\ pc[p] \notin Final /\ pc[p] # "report" /\ pc[p] # "seal" /\ ~Writing(p)
        /\ pc'[p] \notin {"report", "seal"}
    BY <1>1, <1>5 DEF Checks, Start, PreflightMarkers, PreflightArtifacts, CheckCredential, AdmitPlan,
       CheckFolder, Report, Crash, Refused, Unwritten, Exit, Goto, Final, RunsOK, Writing
  <2>2. /\ pc[p] = "check" => todo[p] # <<"campaign">>
    BY <1>1, LeftTails DEF ProgressInv, Final
  <2>3. Settled(p)' = Settled(p)
    BY <1>2, <2>1, <2>2 DEF Settled, Writing, memory
  <2>4. SettledInv(p)'
    BY <1>1, <1>3, <2>1, <2>3, SettledKept DEF TruthInv
  <2>5. Results(p)' => pc[p] = "check" /\ pc'[p] = "link"
    BY <1>2, <2>1, <1>1 DEF Results, Writing, Checks, Start, PreflightMarkers, PreflightArtifacts,
       CheckCredential, AdmitPlan, CheckFolder, Report, Crash, Goto, RunsOK, Final, Refused, Unwritten, Exit
  <2>6. Results(p)' => Results(p) /\ Done(p)' = Done(p)
    BY <1>2, <2>5 DEF Results, Done, Current, memory, Elements
  <2>7. FolderInv(p)'
    BY <1>1, <1>2, <1>3, <2>5, <2>6, FolderKept DEF TruthInv, memory
  <2>8. ForeignInv(p)'
    <3>1. CASE PreflightArtifacts(p)
      <4>1. \A f \in files : ~(f.place = Job[p].place /\ f.plan \in PlanSet(p))
        <5>1. pc'[p] # "exited"
          BY <1>5 DEF Final
        <5> QED
          BY <1>1, <3>1, <5>1 DEF PreflightArtifacts, Refused, Exit, Goto, RunsOK
      <4> QED
        BY <1>2, <4>1 DEF ForeignInv, PlanSet, Plans
    <3>2. CASE Start(p) /\ ~Campaign(p)
      BY <3>2 DEF ForeignInv, Campaign
    <3>3. CASE ~PreflightArtifacts(p) /\ ~(Start(p) /\ ~Campaign(p))
      <4>1. Past(p)' => Past(p)
        BY <1>1, <2>1, <3>3 DEF Past, Checks, Start, PreflightMarkers, CheckCredential, AdmitPlan,
           CheckFolder, Report, Crash, Goto, RunsOK, Final, Refused, Unwritten, Exit
      <4> QED
        BY <1>1, <1>3, <4>1, ForeignKept DEF TruthInv
    <3> QED
      BY <3>1, <3>2, <3>3
  <2> QED
    BY <1>2, <1>3, <2>4, <2>7, <2>8, KeptSteps
<1> QED
  BY <1>4, <1>5

\* steps of a run that asks for no file of a plan: nothing is settled by them
LEMMA QuietKeepsTruth ==
  ASSUME ReceiptsInv, TypeOK', OnceInv', EndsInv', NEW p \in Proc, Alone(p), files' = files,
         sentBy'[p] = sentBy[p], replies'[p] = replies[p], nth'[p] = nth[p],
         Past(p), pc'[p] \notin {"seal", "report", "check", "sync"},
         Writing(p)' => todo'[p] = <<"marker">>,
         ~(pc[p] \in {"seal", "report"} \/ (Writing(p) /\ todo[p] = <<"campaign">>))
  PROVE  ReceiptsInv'
<1>1. TruthInv(p) /\ FilesOK
  BY DEF ReceiptsInv, OnceInv, TypeOK
<1>2. FilesKept
  BY <1>1, SyncKeepsFiles
<1>3. ForeignInv(p)'
  BY <1>1, <1>2, ForeignKept DEF TruthInv
<1>4. FolderInv(p)'
  BY DEF FolderInv, Results, Writing
<1>5. Settled(p)' = Settled(p)
  <2>1. <<"marker">> # <<"campaign">>
    OBVIOUS
  <2> QED
    BY <2>1 DEF Settled, Writing
<1>6. SettledInv(p)'
  BY <1>1, <1>2, <1>5, SettledKept DEF TruthInv, Past
<1> QED
  BY <1>2, <1>3, <1>4, <1>6, KeptSteps

LEMMA DirectoryKeepsTruth ==
  ASSUME ReceiptsInv, TypeOK', OnceInv', EndsInv', NEW p \in Proc, Alone(p),
         LookForDirectory(p) \/ MakeDirectory(p) \/ SyncParent(p)
  PROVE  ReceiptsInv'
<1>1. RunsOK /\ FilesOK
  BY DEF ReceiptsInv, OnceInv, TypeOK
<1>2. /\ pc[p] \in {"look", "mkdir", "parent"} /\ files' = files
      /\ sentBy'[p] = sentBy[p] /\ replies'[p] = replies[p] /\ nth'[p] = nth[p]
  BY DEF LookForDirectory, MakeDirectory, SyncParent, memory, history
<1>3. CASE pc'[p] \in Final
  <2>1. FilesKept
    BY <1>1, <1>2, SyncKeepsFiles
  <2> QED
    BY <1>2, <1>3, <2>1, FinalSteps
<1>4. CASE pc'[p] \notin Final
  <2>1. \/ Goto(p, "mkdir") \/ Goto(p, "parent")
        \/ Goto(p, "link") /\ todo' = [todo EXCEPT ![p] = <<"marker">>]
        \/ Goto(p, "exited")
    BY DEF LookForDirectory, MakeDirectory, SyncParent, memory, Raises, Exit
  <2>2. \/ pc'[p] \in {"mkdir", "parent"}
        \/ pc'[p] = "link" /\ todo'[p] = <<"marker">>
    BY <1>1, <1>4, <2>1 DEF Goto, RunsOK, Final
  <2> QED
    BY <1>2, <2>2, QuietKeepsTruth DEF Past, Final, Writing
<1> QED
  BY <1>3, <1>4
\* Whoever handed over the plan in hand finds only its own files in the folder.
LEMMA FolderIsMine ==
  ASSUME ReceiptsInv, NEW p \in Proc, Campaign(p), Past(p), Unit(p) \in sentBy[p], NEW g \in Mine(p)
  PROVE  g.owner = p
<1>1. TruthInv(p) /\ MarkersOK /\ RunsOK
  BY DEF ReceiptsInv, OnceInv, TypeOK
<1>2. \E m \in files : m.name = "marker" /\ m.plan = Unit(p) /\ m.owner = p
  BY <1>1 DEF TruthInv, MarkInv
<1>3. Unit(p) \in PlanSet(p)
  BY <1>1 DEF RunsOK, Unit, PlanSet
<1> QED
  BY <1>1, <1>2, <1>3 DEF TruthInv, ForeignInv, Past, MarkersOK, Mine, Folder

LEMMA UnitHandedOver ==
  ASSUME ReceiptsInv, NEW p \in Proc, pc[p] \notin Final, Replied(p) \/ pc[p] = "sending"
  PROVE  Unit(p) \in sentBy[p]
<1>1. ProgressInv(p) /\ RunsOK
  BY DEF ReceiptsInv, EndsInv, OwnInv, TypeOK
<1>2. sentBy[p] = First(p, nth[p])
  BY <1>1 DEF ProgressInv
<1> QED
  BY <1>1, <1>2, UnitIsNew

LEMMA AnswerKeepsTruth ==
  ASSUME ReceiptsInv, TypeOK', OnceInv', EndsInv', NEW p \in Proc, Alone(p),
         NEW r \in Reply, NEW ticks \in 0 .. Timeout + Overhead, SendReturns(p, r, ticks)
  PROVE  ReceiptsInv'
<1>1. TruthInv(p) /\ RunsOK /\ FilesOK /\ ProgressInv(p) /\ replies[p] \in Seq(Reply) /\ nth[p] \in Nat
  <2>1. TruthInv(p) /\ RunsOK /\ FilesOK /\ ProgressInv(p)
    BY DEF ReceiptsInv, EndsInv, OwnInv, TypeOK
  <2> QED
    BY <2>1 DEF RunsOK
<1>2. /\ files' = files /\ sentBy'[p] = sentBy[p] /\ nth'[p] = nth[p] /\ pc[p] = "sending"
      /\ replies'[p] = Append(replies[p], r)
  BY <1>1 DEF SendReturns, history, RunsOK
<1>3. FilesKept
  BY <1>1, <1>2, SyncKeepsFiles
<1>4. CASE pc'[p] \in Final
  BY <1>2, <1>3, <1>4, FinalSteps
<1>5. CASE pc'[p] \notin Final
  <2>1. pc'[p] = (IF Campaign(p) THEN "check" ELSE "link") /\ todo'[p] = Artifacts(r)
    BY <1>1, <1>5 DEF SendReturns, Raises, Exit, Goto, RunsOK, Final
  <2>2. ForeignInv(p)'
    BY <1>1, <1>2, <1>3, ForeignKept DEF TruthInv, Past, Final
  <2>3. Settled(p)' = Settled(p)
    <3>1. todo'[p] # <<"campaign">>
      BY <2>1, ArtifactsAreLeft, LeftTails
    <3> QED
      BY <1>2, <2>1, <3>1 DEF Settled, Writing
  <2>4. SettledInv(p)'
    BY <1>1, <1>2, <1>3, <2>3, SettledKept DEF TruthInv, Final
  <2>5. FolderInv(p)'
    <3> SUFFICES ASSUME Campaign(p) PROVE FolderInv(p)'
      BY DEF FolderInv, Campaign
    <3>1. pc'[p] = "check" /\ Done(p)' = Written(Current(p)') \ Elements(todo'[p])
      BY <2>1 DEF Done, Elements
    <3>2. Current(p)' = r
      <4>1. Len(replies[p]) = nth[p] - 1
        BY <1>1, <1>2 DEF ProgressInv, Final, Replied, Writing
      <4> QED
        BY <1>1, <1>2, <4>1 DEF Current
    <3>3. Done(p)' = {}
      BY <2>1, <3>1, <3>2 DEF Written, Elements
    <3>4. Mine(p) = {}
      <4>1. ASSUME NEW g \in Mine(p) PROVE FALSE
        <5>1. g.owner = p
          BY <1>2, UnitHandedOver, FolderIsMine DEF Past, Final
        <5>2. nth[p] \in DOMAIN Plans(p) /\ g.place = Job[p].place /\ g.plan = Plans(p)[nth[p]] /\ g \in files
          BY <1>1 DEF RunsOK, Mine, Folder, Unit
        <5>3. nth[p] <= Len(replies[p])
          BY <1>1, <5>1, <5>2 DEF TruthInv, FreshInv
        <5>4. Len(replies[p]) = nth[p] - 1
          BY <1>1, <1>2 DEF ProgressInv, Final, Replied, Writing
        <5> QED
          BY <1>1, <5>3, <5>4
      <4> QED
        BY <4>1
    <3>5. Mine(p)' = {}
      BY <1>2, <3>4 DEF Mine, Folder, Unit, Plans
    <3> QED
      BY <3>3, <3>5 DEF FolderInv
  <2> QED
    BY <1>2, <1>3, <2>2, <2>4, <2>5, KeptSteps
<1> QED
  BY <1>4, <1>5

LEMMA SealKeepsTruth ==
  ASSUME ReceiptsInv, TypeOK', OnceInv', EndsInv', NEW p \in Proc, Alone(p), SealCampaign(p)
  PROVE  ReceiptsInv'
<1>1. TruthInv(p) /\ RunsOK /\ FilesOK
  BY DEF ReceiptsInv, OnceInv, TypeOK
<1>2. /\ files' = files /\ sentBy'[p] = sentBy[p] /\ nth'[p] = nth[p] /\ pc[p] = "seal"
      /\ replies'[p] = replies[p]
  BY DEF SealCampaign, history
<1>3. FilesKept
  BY <1>1, <1>2, SyncKeepsFiles
<1>4. CASE pc'[p] \in Final
  BY <1>2, <1>3, <1>4, FinalSteps
<1>5. CASE pc'[p] \notin Final
  <2>1. pc'[p] = "link" /\ todo'[p] = <<"campaign">>
    BY <1>1, <1>5 DEF SealCampaign, Refused, Raises, Exit, Goto, RunsOK, Final
  <2>2. ForeignInv(p)'
    BY <1>1, <1>2, <1>3, ForeignKept DEF TruthInv, Past, Final
  <2>3. Settled(p)' = Settled(p)
    BY <1>2, <2>1 DEF Settled, Writing
  <2>4. SettledInv(p)'
    BY <1>1, <1>2, <1>3, <2>3, SettledKept DEF TruthInv, Final
  <2>5. FolderInv(p)'
    BY <2>1 DEF FolderInv, Results
  <2> QED
    BY <1>2, <1>3, <2>2, <2>4, <2>5, KeptSteps
<1> QED
  BY <1>4, <1>5

LEMMA SendKeepsTruth ==
  ASSUME ReceiptsInv, TypeOK', OnceInv', EndsInv', NEW p \in Proc, Alone(p), Send(p)
  PROVE  ReceiptsInv'
<1>1. TruthInv(p) /\ RunsOK /\ FilesOK /\ HoldersOK /\ sentBy \in [Proc -> SUBSET Plan]
  BY DEF ReceiptsInv, OnceInv, TypeOK
<1>2. /\ files' = files /\ pc[p] = "send" /\ pc'[p] = "sending" /\ UNCHANGED memory
      /\ sentBy'[p] = sentBy[p] \cup {Unit(p)}
  BY <1>1 DEF Send, Goto, RunsOK
<1>3. FilesKept /\ files' \subseteq File
  BY <1>1, <1>2, SyncKeepsFiles DEF FilesOK
<1>4. Unit(p) \in PlanSet(p)
  BY <1>1 DEF RunsOK, Unit, PlanSet
<1>5. MarkInv(p)'
  <2>1. \E m \in files : m.name = "marker" /\ m.plan = Unit(p) /\ m.owner = p /\ m.durable = TRUE
    BY <1>1, <1>2 DEF HoldersOK, Holding, Covered
  <2> QED
    BY <1>1, <1>2, <2>1 DEF TruthInv, MarkInv
<1>6. SealInv(p)'
  BY <1>1, <1>2, <1>4 DEF TruthInv, SealInv, HasReceipt, PlanSet, Plans
<1>7. ForeignInv(p)'
  BY <1>1, <1>2, <1>3, ForeignKept DEF TruthInv, Past, Final
<1>8. FolderInv(p)'
  BY <1>2 DEF FolderInv, Results, Writing
<1>9. Settled(p)' = Settled(p)
  BY <1>2 DEF Settled, Writing, memory
<1>10. SettledInv(p)'
  BY <1>1, <1>2, <1>3, <1>9, SettledKept DEF TruthInv, Final
<1>11. FreshInv(p)'
  BY <1>1, <1>2 DEF TruthInv, FreshInv, memory, Campaign, Plans
<1>12. ReceiptInv(p)'
  BY <1>1, <1>2, <1>3, ReceiptKept DEF TruthInv, memory
<1>13. FileNamesOK'
  BY <1>3, NamesKept DEF ReceiptsInv
<1>14. TruthInv(p)'
  BY <1>5, <1>6, <1>7, <1>8, <1>10, <1>11, <1>12 DEF TruthInv
<1>15. \A o \in Proc : TruthInv(o)'
  BY <1>3, <1>14, OthersTruth
<1> QED
  BY <1>13, <1>15 DEF ReceiptsInv

\* the names that are left, one by one
LEMMA LeftElements ==
  ASSUME NEW r, NEW names \in Left(r)
  PROVE  /\ Elements(names) \subseteq Written(r)
         /\ Elements(names) = {Head(names)} \cup Elements(Tail(names))
         /\ Head(names) \notin Elements(Tail(names))
         /\ Head(names) \in Elements(names)
         /\ "receipt" \in Elements(names)
<1> DEFINE four == <<"raw", "draft", "card", "receipt">>
<1>1. /\ Tail(four) = <<"draft", "card", "receipt">>
      /\ Tail(<<"draft", "card", "receipt">>) = <<"card", "receipt">>
      /\ Tail(<<"card", "receipt">>) = <<"receipt">>
      /\ Tail(<<"raw", "receipt">>) = <<"receipt">>
      /\ Tail(<<"receipt">>) = <<>>
  OBVIOUS
<1>2. /\ Elements(four) = {"raw", "draft", "card", "receipt"}
      /\ Elements(<<"draft", "card", "receipt">>) = {"draft", "card", "receipt"}
      /\ Elements(<<"card", "receipt">>) = {"card", "receipt"}
      /\ Elements(<<"raw", "receipt">>) = {"raw", "receipt"}
      /\ Elements(<<"receipt">>) = {"receipt"}
      /\ Elements(<<>>) = {}
  <2>1. DOMAIN four = 1 .. 4 /\ DOMAIN <<"draft", "card", "receipt">> = 1 .. 3
        /\ DOMAIN <<"card", "receipt">> = 1 .. 2 /\ DOMAIN <<"raw", "receipt">> = 1 .. 2
        /\ DOMAIN <<"receipt">> = 1 .. 1 /\ DOMAIN <<>> = {}
    OBVIOUS
  <2>2. /\ 1 .. 4 = {1, 2, 3, 4} /\ 1 .. 3 = {1, 2, 3} /\ 1 .. 2 = {1, 2} /\ 1 .. 1 = {1}
    OBVIOUS
  <2> QED
    BY <2>1, <2>2 DEF Elements
<1>3. /\ Elements(names) = {Head(names)} \cup Elements(Tail(names))
      /\ Head(names) \notin Elements(Tail(names))
      /\ "receipt" \in Elements(names)
  <2>1. names \in {four, <<"draft", "card", "receipt">>, <<"card", "receipt">>, <<"raw", "receipt">>,
                   <<"receipt">>}
    BY LeftTails
  <2>2. CASE names = four
    BY <1>1, <1>2, <2>2
  <2>3. CASE names = <<"draft", "card", "receipt">>
    BY <1>1, <1>2, <2>3
  <2>4. CASE names = <<"card", "receipt">>
    BY <1>1, <1>2, <2>4
  <2>5. CASE names = <<"raw", "receipt">>
    BY <1>1, <1>2, <2>5
  <2>6. CASE names = <<"receipt">>
    BY <1>1, <1>2, <2>6
  <2> QED
    BY <2>1, <2>2, <2>3, <2>4, <2>5, <2>6
<1>4. Written(r) = Elements(Artifacts(r))
  BY DEF Written, Elements
<1>5. Elements(names) \subseteq Written(r)
  <2>1. CASE Status(r) = "transport_error"
    BY <1>2, <1>4, <2>1 DEF Left, Artifacts
  <2>2. CASE Status(r) = "valid_card"
    BY <1>2, <1>4, <2>2 DEF Left, Artifacts
  <2>3. CASE Status(r) \notin {"transport_error", "valid_card"}
    BY <1>2, <1>4, <2>3 DEF Left, Artifacts
  <2> QED
    BY <2>1, <2>2, <2>3
<1> QED
  BY <1>3, <1>5
\* where a run writes, what it has left to write
LEMMA WritingCases ==
  ASSUME ReceiptsInv, NEW p \in Proc, Writing(p)
  PROVE  /\ \/ todo[p] = <<"marker">> /\ ~Results(p)
            \/ todo[p] = <<"campaign">> /\ ~Results(p) /\ Campaign(p) /\ nth[p] = Len(Plans(p))
                 /\ sentBy[p] = PlanSet(p)
            \/ todo[p] \in Left(Current(p)) /\ Results(p) /\ todo[p] # <<"campaign">>
         /\ Results(p) => Len(replies[p]) = nth[p] /\ Unit(p) \in sentBy[p] /\ todo[p] \in Left(Current(p))
         /\ Past(p)
<1>1. ProgressInv(p) /\ RunsOK
  BY DEF ReceiptsInv, EndsInv, OwnInv, TypeOK
<1>2. pc[p] \notin Final /\ pc[p] # "check"
  BY DEF Writing, Final
<1>3. todo[p] \in Left(Current(p)) => todo[p] # <<"marker">> /\ todo[p] # <<"campaign">>
  BY LeftTails
<1>4. todo[p] = <<"campaign">> => todo[p] # <<"marker">>
  OBVIOUS
<1>5. \/ todo[p] = <<"marker">> /\ ~Results(p)
      \/ todo[p] = <<"campaign">> /\ ~Results(p) /\ Campaign(p) /\ nth[p] = Len(Plans(p))
           /\ sentBy[p] = First(p, nth[p])
      \/ todo[p] \in Left(Current(p)) /\ Results(p) /\ todo[p] # <<"campaign">>
  BY <1>1, <1>2, <1>3, <1>4 DEF ProgressInv, Results, Replied
<1>6. Results(p) => Len(replies[p]) = nth[p] /\ Unit(p) \in sentBy[p]
  BY <1>1, <1>2, UnitHandedOver DEF ProgressInv, Results, Replied
<1>7. Past(p)
  BY DEF Writing, Past, Final
<1> QED
  BY <1>1, <1>3, <1>5, <1>6, <1>7, UnitIsNew

LEMMA ProceedKeepsTruth ==
  ASSUME ReceiptsInv, TypeOK', OnceInv', EndsInv', NEW p \in Proc, Alone(p), Proceed(p)
  PROVE  ReceiptsInv'
<1> DEFINE rest == Tail(todo[p])
<1>1. TruthInv(p) /\ RunsOK /\ FilesOK /\ pc[p] = "written" /\ Writing(p)
  BY DEF ReceiptsInv, OnceInv, TypeOK, Proceed, Writing
<1>2. /\ files' = files /\ sentBy'[p] = sentBy[p] /\ replies'[p] = replies[p]
      /\ todo'[p] = rest
      /\ pc'[p] = CASE rest # <<>> -> "link"
                    [] rest = <<>> /\ Head(todo[p]) = "marker" -> "send"
                    [] rest = <<>> /\ Head(todo[p]) = "receipt" /\ Campaign(p) ->
                         IF More(p) THEN "admit" ELSE "seal"
                    [] OTHER -> "report"
      /\ nth'[p] = IF rest = <<>> /\ Head(todo[p]) = "receipt" /\ More(p) THEN nth[p] + 1 ELSE nth[p]
  BY <1>1 DEF Proceed, Goto, RunsOK, history
<1>3. FilesKept
  BY <1>1, <1>2, SyncKeepsFiles
<1>4. Past(p) /\ ForeignInv(p)'
  BY <1>1, <1>3, WritingCases, ForeignKept DEF TruthInv
<1>5. CASE todo[p] = <<"marker">>
  <2>1. pc'[p] = "send" /\ nth'[p] = nth[p]
    BY <1>2, <1>5
  <2>2. todo[p] # <<"campaign">>
    BY <1>5
  <2> QED
    BY <1>1, <1>2, <1>4, <2>1, <2>2, QuietKeepsTruth DEF Writing
<1>6. CASE todo[p] = <<"campaign">>
  <2>1. pc'[p] = "report" /\ nth'[p] = nth[p]
    BY <1>2, <1>6
  <2>2. FolderInv(p)'
    BY <2>1 DEF FolderInv, Results, Writing
  <2>3. Settled(p)' = Settled(p)
    BY <1>1, <1>6, <2>1 DEF Settled
  <2>4. SettledInv(p)'
    BY <1>1, <1>3, <2>3, SettledKept DEF TruthInv, Final
  <2> QED
    BY <1>2, <1>3, <1>4, <2>2, <2>4, KeptSteps
<1>7. CASE todo[p] \in Left(Current(p)) /\ Results(p) /\ todo[p] # <<"campaign">>
  <2>1. /\ rest = <<>> <=> Head(todo[p]) = "receipt"
        /\ rest # <<>> => rest \in Left(Current(p)) /\ rest # <<"marker">> /\ rest # <<"campaign">>
    BY <1>7, LeftTails
  <2>2. /\ Elements(todo[p]) = {Head(todo[p])} \cup Elements(rest)
        /\ Head(todo[p]) \notin Elements(rest) /\ Elements(todo[p]) \subseteq Written(Current(p))
    BY <1>7, LeftElements
  <2>3. Done(p) = Written(Current(p)) \ Elements(rest)
    BY <1>1, <2>2 DEF Done
  <2>4. Campaign(p) =>
          /\ {g.name : g \in Mine(p)} = Done(p)
          /\ \A g \in Mine(p) : g.owner = p /\ g.durable = TRUE
    BY <1>1, <1>7 DEF TruthInv, FolderInv
  <2>5. CASE rest # <<>>
    <3>1. pc'[p] = "link" /\ nth'[p] = nth[p]
      BY <1>2, <2>5
    <3>2. Settled(p)' = Settled(p)
      BY <1>1, <1>2, <1>7, <2>1, <2>5, <3>1 DEF Settled
    <3>3. SettledInv(p)'
      BY <1>1, <1>3, <3>1, <3>2, SettledKept DEF TruthInv, Final
    <3>4. Current(p)' = Current(p) /\ Mine(p)' = Mine(p)
      BY <1>2, <3>1 DEF Current, Mine, Folder, Unit, Plans
    <3>5. Done(p)' = Done(p)
      BY <1>2, <2>3, <3>1, <3>4 DEF Done, Elements
    <3>6. FolderInv(p)'
      BY <2>4, <3>4, <3>5 DEF FolderInv, Campaign
    <3> QED
      BY <1>2, <1>3, <1>4, <3>3, <3>6, KeptSteps
  <2>6. CASE rest = <<>>
    <3>1. /\ pc'[p] \in {"admit", "seal", "report"}
          /\ pc'[p] = "admit" => nth'[p] = nth[p] + 1
          /\ pc'[p] # "admit" /\ Campaign(p) => nth'[p] = nth[p]
      BY <1>2, <2>1, <2>6
    <3>2. FolderInv(p)'
      BY <3>1 DEF FolderInv, Results, Writing
    <3>3. SettledInv(p)'
      <4> SUFFICES ASSUME Campaign(p), NEW i \in 1 .. Settled(p)' PROVE HasReceipt(p, Plans(p)[i])
        BY <1>3, ReceiptsStay DEF SettledInv, Campaign, Plans
      <4>1. nth[p] \in Nat /\ Settled(p)' = nth[p] /\ Settled(p) = nth[p] - 1
        <5>1. nth[p] \in Nat /\ (nth[p] + 1) - 1 = nth[p]
          BY <1>1 DEF RunsOK
        <5>2. Settled(p) = nth[p] - 1
          BY <1>1, <1>7 DEF Settled
        <5>3. CASE pc'[p] = "admit"
          <6>1. Settled(p)' = nth'[p] - 1
            BY <5>3 DEF Settled, Writing
          <6> QED
            BY <3>1, <5>1, <5>2, <5>3, <6>1
        <5>4. CASE pc'[p] # "admit"
          <6>1. Settled(p)' = nth'[p]
            BY <3>1, <5>4 DEF Settled
          <6> QED
            BY <3>1, <5>1, <5>2, <5>4, <6>1
        <5> QED
          BY <5>3, <5>4
      <4>2. HasReceipt(p, Unit(p))
        <5>1. "receipt" \in Done(p)
          BY <1>7, <2>1, <2>2, <2>3, <2>6 DEF Elements
        <5>2. PICK g \in Mine(p) : g.name = "receipt"
          BY <2>4, <5>1
        <5> QED
          BY <2>4, <5>2 DEF HasReceipt, Mine, Folder
      <4>3. \A k \in 1 .. Settled(p) : HasReceipt(p, Plans(p)[k])
        BY <1>1 DEF TruthInv, SettledInv, Final
      <4> QED
        BY <4>1, <4>2, <4>3 DEF Unit
    <3> QED
      BY <1>2, <1>3, <1>4, <3>2, <3>3, KeptSteps
  <2> QED
    BY <2>5, <2>6
<1> QED
  BY <1>1, <1>5, <1>6, <1>7, WritingCases

\* fsync of the file and its folder
LEMMA SyncKeepsTruth ==
  ASSUME ReceiptsInv, TypeOK', OnceInv', EndsInv', NEW p \in Proc, Alone(p), SyncFile(p)
  PROVE  ReceiptsInv'
<1> DEFINE path == Path(p, Head(todo[p]))
<1>1. TruthInv(p) /\ RunsOK /\ FilesOK /\ pc[p] = "sync" /\ Writing(p)
  BY DEF ReceiptsInv, OnceInv, TypeOK, SyncFile, Writing
<1>2. /\ files' = files \/ files' = Synced(path)
      /\ sentBy'[p] = sentBy[p] /\ UNCHANGED memory
  BY DEF SyncFile, history
<1>3. FilesKept
  BY <1>1, <1>2, SyncKeepsFiles
<1>4. CASE Ends(p)
  BY <1>1, <1>2, <1>3, <1>4, ErrorsMove, FinalSteps DEF memory, Final
<1>5. CASE files' = Synced(path) /\ Goto(p, "written")
  <2>1. pc'[p] = "written"
    BY <1>1, <1>5 DEF Goto, RunsOK
  <2>2. ForeignInv(p)'
    BY <1>1, <1>3, WritingCases, ForeignKept DEF TruthInv
  <2>3. Settled(p)' = Settled(p)
    BY <1>1, <1>2, <2>1 DEF Settled, Writing, memory
  <2>4. SettledInv(p)'
    BY <1>1, <1>3, <2>3, SettledKept DEF TruthInv, Final
  <2>5. FolderInv(p)'
    <3> SUFFICES ASSUME Campaign(p), Results(p)'
                 PROVE  /\ {g.name : g \in Mine(p)'} = Done(p)'
                        /\ \A g \in Mine(p)' : g.owner = p /\ g.durable = TRUE
      BY DEF FolderInv, Campaign
    <3>1. Results(p) /\ Done(p)' = Done(p)
      BY <1>1, <1>2, <2>1 DEF Results, Writing, Done, Current, Elements, memory
    <3>2. todo[p] \in Left(Current(p))
      BY <1>1, <3>1, WritingCases
    <3>3. path.place = Job[p].place /\ path.plan = Unit(p)
      <4>1. Head(todo[p]) \in Names
        BY <3>2, LeftTails
      <4> QED
        BY <4>1 DEF Path, Names
    <3> HIDE DEF path
    <3>4. /\ {g.name : g \in Mine(p)} = Done(p)
          /\ \A g \in Mine(p) : g.owner = p
      BY <1>1, <3>1 DEF TruthInv, FolderInv
    <3>5. Mine(p)' = {Secure(f, path) : f \in Mine(p)}
      <4>1. \A f \in files : Secure(f, path).place = f.place /\ Secure(f, path).plan = f.plan
        BY <1>1 DEF Secure, FilesOK, File
      <4>2. Mine(p)' = {g \in Synced(path) : g.place = Job[p].place /\ g.plan = Unit(p)}
        BY <1>2, <1>5 DEF Mine, Folder, Unit, Plans, memory
      <4> QED
        BY <4>1, <4>2 DEF Synced, Mine, Folder
    <3>6. \A f \in Mine(p) : /\ Secure(f, path).name = f.name /\ Secure(f, path).owner = f.owner
                             /\ Secure(f, path).durable = TRUE
      BY <1>1, <3>3 DEF Secure, FilesOK, File, Mine, Folder
    <3> QED
      BY <3>1, <3>4, <3>5, <3>6
  <2> QED
    BY <1>2, <1>3, <2>2, <2>4, <2>5, KeptSteps DEF memory
<1> QED
  BY <1>1, <1>4, <1>5, WriteFailsEnds DEF SyncFile
\* The new file of a run, as far as others are concerned: it lies in the folder
\* of a plan only if its run has the marker of that plan.
LEMMA NewFileIsMine ==
  ASSUME ReceiptsInv, NEW p \in Proc, pc[p] = "link",
         NEW o \in Proc, Campaign(o), NewFile(p).place = Job[o].place, NewFile(p).plan \in Plan
  PROVE  /\ Results(p) /\ Campaign(p) /\ Job[p].place = Job[o].place /\ NewFile(p).plan = Unit(p)
         /\ \E m \in files : m.name = "marker" /\ m.plan = Unit(p) /\ m.owner = p
<1>1. NewFile(p).place = State \/ Job[o].place = Job[p].place
  BY DEF NewFile, Path
<1>2. Job[o].place # State
  BY NameAssumption, JobAssumption
<1>3. Job[p].place = Job[o].place /\ Head(todo[p]) # "marker"
  BY <1>1, <1>2 DEF NewFile, Path
<1>4. Campaign(p)
  BY <1>3, JobAssumption DEF Campaign
<1>5. Head(todo[p]) # "campaign" /\ NewFile(p).plan = Unit(p)
  BY NameAssumption DEF NewFile, Path
<1>6. Results(p) /\ Unit(p) \in sentBy[p]
  <2>1. todo[p] # <<"marker">> /\ todo[p] # <<"campaign">>
    BY <1>3, <1>5
  <2> QED
    BY <2>1, WritingCases DEF Writing
<1>7. \E m \in files : m.name = "marker" /\ m.plan = Unit(p) /\ m.owner = p
  BY <1>6 DEF ReceiptsInv, TruthInv, MarkInv
<1> QED
  BY <1>3, <1>4, <1>5, <1>6, <1>7

\* the others, when p creates a file
LEMMA NewFileKeepsOthers ==
  ASSUME ReceiptsInv, NEW p \in Proc, Alone(p), pc[p] = "link",
         files' = files \cup {NewFile(p)}, NEW o \in Proc, o # p
  PROVE  TruthInv(o)'
<1> DEFINE n == NewFile(p)
<1>1. /\ pc'[o] = pc[o] /\ nth'[o] = nth[o] /\ todo'[o] = todo[o] /\ replies'[o] = replies[o]
      /\ sentBy'[o] = sentBy[o]
  BY DEF Alone
<1>2. TruthInv(o) /\ TruthInv(p) /\ MarkersOK /\ RunsOK /\ n.owner = p
  BY DEF ReceiptsInv, OnceInv, TypeOK, NewFile
<1>3. Campaign(o) /\ n.place = Job[o].place /\ n.plan \in Plan =>
        /\ Results(p) /\ Campaign(p) /\ Job[p].place = Job[o].place /\ n.plan = Unit(p)
        /\ \E m \in files : m.name = "marker" /\ m.plan = n.plan /\ m.owner = p
  BY NewFileIsMine
<1> HIDE DEF n
<1>f. files' = files \cup {n}
  BY DEF n
<1>4. MarkInv(o)'
  BY <1>1, <1>2, <1>f DEF TruthInv, MarkInv
<1>5. ForeignInv(o)'
  <2>1. PlanSet(o) \subseteq Plan
    BY JobAssumption DEF PlanSet, Plans
  <2> QED
    BY <1>1, <1>2, <1>3, <1>f, <2>1 DEF TruthInv, ForeignInv, Campaign, PlanSet, Plans
<1>6. FreshInv(o)'
  BY <1>1, <1>2, <1>f DEF TruthInv, FreshInv, Campaign, Plans
<1>7. FolderInv(o)'
  <2> SUFFICES ASSUME Campaign(o), Results(o) PROVE FolderInv(o)'
    BY <1>1 DEF FolderInv, Campaign, Results, Writing
  <2>1. n \notin Mine(o)'
    <3> SUFFICES ASSUME n.place = Job[o].place, n.plan = Unit(o) PROVE FALSE
      BY <1>1 DEF Mine, Folder, Unit, Plans
    <3>1. Unit(o) \in Plan /\ Unit(o) \in sentBy[o]
      BY <1>2, UnitTyped, UnitHandedOver, WritingCases DEF Results, Final, Replied
    <3>2. \E m \in files : m.name = "marker" /\ m.plan = Unit(o) /\ m.owner = p
      BY <1>3, <3>1
    <3>3. \E m \in files : m.name = "marker" /\ m.plan = Unit(o) /\ m.owner = o
      BY <1>2, <3>1 DEF TruthInv, MarkInv
    <3> QED
      BY <1>2, <3>2, <3>3 DEF MarkersOK
  <2>2. Mine(o)' = Mine(o)
    BY <1>1, <1>f, <2>1 DEF Mine, Folder, Unit, Plans
  <2>3. Done(o)' = Done(o) /\ (Results(o)' <=> Results(o))
    BY <1>1 DEF Done, Current, Results, Writing, Elements
  <2> QED
    BY <1>1, <1>2, <2>2, <2>3 DEF TruthInv, FolderInv, Campaign
<1>8. ReceiptInv(o)'
  <2> SUFFICES ASSUME Campaign(o) PROVE ReceiptInv(o)'
    BY DEF ReceiptInv, Campaign
  <2>1. Receipts(o)' = Receipts(o)
    BY <1>2, <1>f DEF Receipts
  <2>2. ASSUME NEW f \in Receipts(o) PROVE Folder(f.place, f.plan)' = Folder(f.place, f.plan)
    <3> SUFFICES ASSUME n.place = f.place, n.plan = f.plan PROVE FALSE
      BY <1>f DEF Folder
    <3>1. f \in files /\ f.name = "receipt" /\ f.owner = o
      BY DEF Receipts
    <3>2. f.place = Job[o].place /\ f.plan \in Plan
      BY <3>1 DEF ReceiptsInv, FileNamesOK, Names
    <3>3. Results(p) /\ Campaign(p) /\ f \in Mine(p)
      BY <1>3, <3>1, <3>2 DEF Mine, Folder
    <3> QED
      BY <1>2, <3>1, <3>3 DEF TruthInv, FolderInv
  <2> QED
    BY <1>1, <1>2, <2>1, <2>2 DEF TruthInv, ReceiptInv, Campaign, Plans
<1>9. SettledInv(o)'
  <2>1. Settled(o)' = Settled(o)
    BY <1>1 DEF Settled, Writing
  <2> QED
    BY <1>1, <1>2, <1>f, <2>1 DEF TruthInv, SettledInv, HasReceipt, Campaign, Plans
<1>10. SealInv(o)'
  BY <1>1, <1>2, <1>f DEF TruthInv, SealInv, HasReceipt, PlanSet, Plans
<1> QED
  BY <1>4, <1>5, <1>6, <1>7, <1>8, <1>9, <1>10 DEF TruthInv

\* p itself, when it creates a file
LEMMA NewFileKeepsMine ==
  ASSUME ReceiptsInv, NEW p \in Proc, pc[p] = "link",
         files' = files \cup {NewFile(p)}, pc'[p] = "sync", sentBy' = sentBy, UNCHANGED memory
  PROVE  TruthInv(p)'
<1> DEFINE n == NewFile(p)
<1>1. TruthInv(p) /\ RunsOK /\ Writing(p)
  BY DEF ReceiptsInv, OnceInv, TypeOK, Writing
<1>2. /\ n.name = Head(todo[p]) /\ n.owner = p /\ n.durable = FALSE
      /\ n.place = (IF Head(todo[p]) = "marker" THEN State ELSE Job[p].place)
      /\ n.plan = (IF Head(todo[p]) = "campaign" THEN NoPlan ELSE Unit(p))
  BY DEF NewFile, Path
<1>3. Results(p) => n.name \in Names /\ n.place = Job[p].place /\ n.plan = Unit(p)
  <2>1. Results(p) => Head(todo[p]) \in Names
    BY <1>1, WritingCases, LeftTails
  <2> QED
    BY <1>2, <2>1 DEF Names
<1>4. ~Results(p) =>
        \/ n.name = "marker" /\ n.place = State
        \/ n.name = "campaign" /\ n.plan = NoPlan /\ todo[p] = <<"campaign">>
  BY <1>1, <1>2, WritingCases
<1>5. Results(p)' <=> Results(p)
  BY <1>1 DEF Results, Writing, memory
<1> HIDE DEF n
<1>f. files' = files \cup {n}
  BY DEF n
<1>6. Job[p].place # State /\ NoPlan \notin Plan /\ PlanSet(p) \subseteq Plan /\ Unit(p) \in Plan
  BY <1>1, UnitTyped, NameAssumption, JobAssumption DEF PlanSet, Plans
<1>7. MarkInv(p)'
  BY <1>1, <1>f DEF TruthInv, MarkInv
<1>8. ForeignInv(p)'
  <2>1. Past(p)
    BY <1>1, WritingCases
  <2> QED
    BY <1>1, <1>2, <1>f, <2>1 DEF TruthInv, ForeignInv, Past, Campaign, PlanSet, Plans
<1>9. FreshInv(p)'
  <2>1. ASSUME NEW i \in DOMAIN Plans(p), n.place = Job[p].place, n.plan = Plans(p)[i]
        PROVE  i <= Len(replies[p])
    <3>1. Plans(p)[i] \in Plan /\ nth[p] \in DOMAIN Plans(p) /\ nth[p] \in Nat
      BY <1>1, JobAssumption DEF RunsOK, Plans
    <3>2. Results(p)
      BY <1>4, <1>6, <2>1, <3>1
    <3>3. Plans(p)[i] = Plans(p)[nth[p]]
      BY <1>3, <2>1, <3>2 DEF Unit
    <3>4. i = nth[p]
      BY <3>1, <3>3, JobAssumption DEF Plans
    <3> QED
      BY <1>1, <3>1, <3>2, <3>4, WritingCases
  <2> QED
    BY <1>1, <1>f, <2>1 DEF TruthInv, FreshInv, memory, Campaign, Plans
<1>10. Campaign(p) /\ Results(p) =>
         /\ {g.name : g \in Mine(p)} = Written(Current(p)) \ Elements(todo[p])
         /\ \A g \in Mine(p) : g.owner = p /\ g.durable = TRUE
         /\ Mine(p)' = Mine(p) \cup {n}
         /\ todo[p] \in Left(Current(p))
  <2>1. Results(p) => Mine(p)' = Mine(p) \cup {n}
    BY <1>3, <1>f DEF Mine, Folder, Unit, Plans, memory
  <2> QED
    BY <1>1, <2>1, WritingCases DEF TruthInv, FolderInv, Done
<1>11. FolderInv(p)'
  <2> SUFFICES ASSUME Campaign(p), Results(p)
               PROVE  /\ {g.name : g \in Mine(p)'} = Done(p)'
                      /\ \A g \in Mine(p)' :
                           g.owner = p /\ (g.durable = TRUE \/ g.name = Head(todo[p]))
    BY <1>5 DEF FolderInv, Campaign, memory
  <2>1. Done(p)' = (Written(Current(p)) \ Elements(todo[p])) \cup {Head(todo[p])}
    BY DEF Done, Current, Elements, memory
  <2> QED
    BY <1>2, <1>10, <2>1
<1>12. ReceiptInv(p)'
  <2> SUFFICES ASSUME Campaign(p), NEW f \in Receipts(p)'
               PROVE  /\ \A g \in Folder(f.place, f.plan)' :
                           /\ g.owner = p
                           /\ g.durable = TRUE \/ (g.name = "receipt" /\ f.durable = FALSE)
                      /\ \E i \in DOMAIN replies[p] :
                           /\ i \in DOMAIN Plans(p) /\ f.plan = Plans(p)[i]
                           /\ {g.name : g \in Folder(f.place, f.plan)'} = Written(replies[p][i])
    BY DEF ReceiptInv, Campaign, memory, Plans
  <2>1. CASE f = n
    <3>1. n.name = "receipt" /\ Results(p)
      BY <1>4, <2>1 DEF Receipts
    <3>2. Folder(f.place, f.plan)' = Mine(p) \cup {n}
      <4>1. Folder(f.place, f.plan) = Mine(p)
        BY <1>3, <2>1, <3>1 DEF Mine
      <4> QED
        BY <1>f, <2>1, <4>1 DEF Folder
    <3>3. Elements(todo[p]) = {"receipt"} /\ "receipt" \in Written(Current(p))
      <4>1. Tail(todo[p]) = <<>>
        BY <1>2, <1>10, <3>1, LeftTails
      <4>2. Elements(Tail(todo[p])) = {}
        BY <4>1 DEF Elements
      <4> QED
        BY <1>2, <1>10, <3>1, <4>2, LeftElements
    <3>4. {g.name : g \in Mine(p) \cup {n}} = Written(Current(p))
      BY <1>10, <3>1, <3>3
    <3>5. nth[p] \in DOMAIN replies[p] /\ nth[p] \in DOMAIN Plans(p)
      <4>1. Len(replies[p]) = nth[p]
        BY <1>1, <3>1, WritingCases
      <4>2. nth[p] \in DOMAIN Plans(p) /\ Plans(p) \in Seq(Plan) /\ replies[p] \in Seq(Reply)
        BY <1>1, JobAssumption DEF RunsOK, Plans
      <4> QED
        BY <4>1, <4>2
    <3> QED
      BY <1>2, <1>3, <1>10, <2>1, <3>1, <3>2, <3>4, <3>5 DEF Current, Unit
  <2>2. CASE f # n
    <3>1. f \in Receipts(p) /\ f \in files /\ f.name = "receipt"
      BY <1>f, <2>2 DEF Receipts
    <3>2. f.place = Job[p].place /\ f.plan \in Plan
      BY <3>1 DEF ReceiptsInv, FileNamesOK, Names, Receipts
    <3>3. ~(n.place = f.place /\ n.plan = f.plan)
      <4> SUFFICES ASSUME n.place = f.place, n.plan = f.plan PROVE FALSE
        OBVIOUS
      <4>1. Results(p)
        BY <1>4, <1>6, <3>2
      <4>2. f \in Mine(p)
        BY <1>3, <3>1, <3>2, <4>1 DEF Mine, Folder
      <4>3. "receipt" \in Elements(todo[p])
        BY <1>10, <4>1, LeftElements
      <4> QED
        BY <1>10, <3>1, <4>1, <4>2, <4>3
    <3>4. Folder(f.place, f.plan)' = Folder(f.place, f.plan)
      BY <1>f, <3>3 DEF Folder
    <3> QED
      BY <1>1, <3>1, <3>4 DEF TruthInv, ReceiptInv
  <2> QED
    BY <2>1, <2>2
<1>13. SettledInv(p)'
  <2>1. Settled(p)' = Settled(p)
    BY <1>1 DEF Settled, Writing, memory
  <2> QED
    BY <1>1, <1>f, <2>1 DEF TruthInv, SettledInv, HasReceipt, Campaign, Plans, Final
<1>14. SealInv(p)'
  <2>1. CASE n.name = "campaign"
    <3>1. ~Results(p)
      BY <1>3, <2>1 DEF Names
    <3>2. todo[p] = <<"campaign">>
      BY <1>4, <2>1, <3>1
    <3>3. Campaign(p) /\ nth[p] = Len(Plans(p)) /\ sentBy[p] = PlanSet(p)
      <4>1. <<"campaign">> # <<"marker">>
        OBVIOUS
      <4>2. todo[p] # <<"marker">> /\ todo[p] \notin Left(Current(p))
        <5>1. todo[p] \in Left(Current(p)) => todo[p] # <<"campaign">>
          BY LeftTails
        <5> QED
          BY <3>2, <4>1, <5>1
      <4> QED
        BY <1>1, <4>2, WritingCases
    <3>4. Settled(p) = Len(Plans(p)) /\ pc[p] \notin Final
      BY <1>1, <3>2, <3>3 DEF Settled, Final
    <3>5. \A i \in 1 .. Len(Plans(p)) : HasReceipt(p, Plans(p)[i])
      BY <1>1, <3>3, <3>4 DEF TruthInv, SettledInv
    <3>6. \A q \in PlanSet(p) : HasReceipt(p, q)
      <4>1. DOMAIN Plans(p) = 1 .. Len(Plans(p))
        BY JobAssumption DEF Plans
      <4> QED
        BY <3>5, <4>1 DEF PlanSet
    <3> QED
      BY <1>f, <3>3, <3>6 DEF SealInv, HasReceipt, PlanSet, Plans
  <2>2. CASE n.name # "campaign"
    BY <1>1, <1>f, <2>2 DEF TruthInv, SealInv, HasReceipt, PlanSet, Plans
  <2> QED
    BY <2>1, <2>2
<1> QED
  BY <1>7, <1>8, <1>9, <1>11, <1>12, <1>13, <1>14 DEF TruthInv
\* _write_or_verify(): a new file, one that is there already, or an error
LEMMA LinkKeepsTruth ==
  ASSUME ReceiptsInv, TypeOK', OnceInv', EndsInv', NEW p \in Proc, Alone(p), LinkFile(p)
  PROVE  ReceiptsInv'
<1> DEFINE path == Path(p, Head(todo[p]))
<1>1. TruthInv(p) /\ RunsOK /\ FilesOK /\ pc[p] = "link" /\ Writing(p)
  BY DEF ReceiptsInv, OnceInv, TypeOK, LinkFile, Writing
<1>2. sentBy' = sentBy /\ UNCHANGED memory
  BY DEF LinkFile, history
<1>3. CASE files' = files \cup {NewFile(p)} /\ Goto(p, "sync")
  <2>1. pc'[p] = "sync"
    BY <1>1, <1>3 DEF Goto, RunsOK
  <2>2. \A o \in Proc : TruthInv(o)'
    BY <1>1, <1>2, <1>3, <2>1, NewFileKeepsOthers, NewFileKeepsMine
  <2>3. FileNamesOK'
    <3> DEFINE n == NewFile(p)
    <3>1. /\ n.name = Head(todo[p]) /\ n.owner = p
          /\ n.place = (IF Head(todo[p]) = "marker" THEN State ELSE Job[p].place)
          /\ n.plan = (IF Head(todo[p]) = "campaign" THEN NoPlan ELSE Unit(p))
      BY DEF NewFile, Path
    <3>2. Unit(p) \in Plan
      BY <1>1, UnitTyped
    <3>3. Head(todo[p]) = "campaign" => Campaign(p)
      <4>1. todo[p] \in Left(Current(p)) => Head(todo[p]) # "campaign"
        BY LeftTails DEF Names
      <4> QED
        BY <1>1, <4>1, WritingCases
    <3> HIDE DEF n
    <3>4. files' = files \cup {n}
      BY <1>3 DEF n
    <3> QED
      BY <3>1, <3>2, <3>3, <3>4 DEF ReceiptsInv, FileNamesOK, Names, Campaign
  <2> QED
    BY <2>2, <2>3 DEF ReceiptsInv
<1>4. CASE files' = files /\ At(path) # {} /\ path.name # "marker" /\ Goto(p, "written")
  <2>1. pc'[p] = "written" /\ path.name = Head(todo[p])
    BY <1>1, <1>4 DEF Goto, RunsOK, Path
  <2>2. FilesKept
    BY <1>1, <1>4, SyncKeepsFiles
  <2>3. ForeignInv(p)'
    BY <1>1, <2>2, WritingCases, ForeignKept DEF TruthInv
  <2>4. Settled(p)' = Settled(p)
    BY <1>1, <1>2, <2>1 DEF Settled, Writing, memory
  <2>5. SettledInv(p)'
    BY <1>1, <2>2, <2>4, SettledKept DEF TruthInv, Final
  <2>6. FolderInv(p)'
    <3> SUFFICES ASSUME Campaign(p), Results(p)' PROVE FALSE
      BY DEF FolderInv, Campaign
    <3>1. Results(p)
      BY <1>1, <1>2, <2>1 DEF Results, Writing, memory
    <3>2. todo[p] \in Left(Current(p))
      BY <1>1, <3>1, WritingCases
    <3>3. Head(todo[p]) \in Names /\ Head(todo[p]) \in Elements(todo[p])
      BY <3>2, LeftTails, LeftElements
    <3>4. path.place = Job[p].place /\ path.plan = Unit(p)
      BY <3>3 DEF Path, Names
    <3>5. PICK f \in Mine(p) : f.name = Head(todo[p])
      BY <1>4, <2>1, <3>4 DEF At, Mine, Folder
    <3> QED
      BY <1>1, <3>1, <3>3, <3>5 DEF TruthInv, FolderInv, Done
  <2> QED
    BY <1>2, <1>4, <2>2, <2>3, <2>5, <2>6, KeptSteps DEF memory
<1>5. CASE (files' = files \/ files' = Synced(path)) /\ Ends(p)
  <2>1. FilesKept
    BY <1>1, <1>5, SyncKeepsFiles
  <2> QED
    BY <1>1, <1>2, <1>5, <2>1, ErrorsMove, FinalSteps DEF memory, Final
<1> QED
  BY <1>1, <1>3, <1>4, <1>5, WriteFailsEnds DEF LinkFile, NewFile

\* A power failure in a state directory that lasts: what it leaves is durable,
\* and what was durable it leaves, but for the folders of single runs.
LEMMA PowerLeaves ==
  ASSUME ReceiptsInv, PowerLoss
  PROVE  /\ \A g \in files' : g.durable = TRUE /\ \E f \in files : Same(f, g)
         /\ \A f \in files :
              f.durable = TRUE /\ (\A p \in Proc : f.place = Job[p].place => Campaign(p)) =>
                \E g \in files' : Same(f, g) /\ g.durable = TRUE
<1>1. dir = "durable" /\ FilesOK
  BY DEF ReceiptsInv, OnceInv, DirLasts, PowerLoss, TypeOK, FilesOK
<1>2. PICK lost \in SUBSET {f \in files : Loose(f)} :
        files' = {[f EXCEPT !.durable = TRUE] : f \in files \ lost}
  BY <1>1 DEF PowerLoss
<1>3. \A f \in files : Same(f, [f EXCEPT !.durable = TRUE]) /\ [f EXCEPT !.durable = TRUE].durable = TRUE
  BY <1>1 DEF FilesOK, File, Same
<1>4. \A g \in files' : \E f \in files : g = [f EXCEPT !.durable = TRUE]
  BY <1>2
<1>5. ASSUME NEW f \in files, f.durable = TRUE, \A p \in Proc : f.place = Job[p].place => Campaign(p)
      PROVE  [f EXCEPT !.durable = TRUE] \in files'
  BY <1>2, <1>5 DEF Loose
<1>6. ASSUME NEW g \in files' PROVE g.durable = TRUE /\ \E f \in files : Same(f, g)
  <2>1. PICK f \in files : g = [f EXCEPT !.durable = TRUE]
    BY <1>4
  <2> QED
    BY <1>3, <2>1
<1> QED
  BY <1>3, <1>5, <1>6
LEMMA PowerKeepsTruth ==
  ASSUME ReceiptsInv, TypeOK', OnceInv', EndsInv', PowerLoss
  PROVE  ReceiptsInv'
<1>1. /\ \A g \in files' : g.durable = TRUE /\ \E f \in files : Same(f, g)
      /\ \A f \in files :
           f.durable = TRUE /\ (\A p \in Proc : f.place = Job[p].place => Campaign(p)) =>
             \E g \in files' : Same(f, g) /\ g.durable = TRUE
  BY PowerLeaves
<1>2. UNCHANGED memory /\ sentBy' = sentBy
      /\ pc' = [p \in Proc |-> IF pc[p] \in {"idle"} \cup Final THEN pc[p] ELSE "crashed"]
  BY DEF PowerLoss, history
<1>3. FileNamesOK'
  BY <1>1 DEF ReceiptsInv, FileNamesOK, Same, Campaign
<1>4. ASSUME NEW o \in Proc PROVE TruthInv(o)'
  <2>1. TruthInv(o) /\ RunsOK /\ MarkersOK /\ FilesOK /\ FileNamesOK /\ ProgressInv(o)
    BY DEF ReceiptsInv, OnceInv, EndsInv, OwnInv, TypeOK
  <2>2. pc'[o] \in {"idle"} \cup Final /\ (pc'[o] \notin Final => pc[o] = "idle")
    BY <1>2 DEF Final
  <2>3. Campaign(o) => \A f \in files : f.place = Job[o].place =>
          \A p \in Proc : f.place = Job[p].place => Campaign(p)
    BY JobAssumption DEF Campaign
  <2>4. MarkInv(o)'
    <3> SUFFICES ASSUME NEW q \in sentBy[o]
                 PROVE  \E m \in files' : m.name = "marker" /\ m.plan = q /\ m.owner = o /\ m.durable = TRUE
      BY <1>2 DEF MarkInv
    <3>1. PICK m \in files : m.name = "marker" /\ m.plan = q /\ m.owner = o /\ m.durable = TRUE
      BY <2>1 DEF TruthInv, MarkInv
    <3>2. \A p \in Proc : m.place # Job[p].place
      BY <2>1, <3>1, NameAssumption, JobAssumption DEF MarkersOK
    <3> QED
      BY <1>1, <3>1, <3>2 DEF Same
  <2>5. ForeignInv(o)' /\ FolderInv(o)'
    BY <2>2 DEF ForeignInv, FolderInv, Results, Writing, Final
  <2>6. FreshInv(o)'
    <3> SUFFICES ASSUME Campaign(o), NEW i \in DOMAIN Plans(o), NEW g \in files',
                        g.place = Job[o].place, g.plan = Plans(o)[i], g.owner = o
                 PROVE  i <= Len(replies[o])
      BY <1>2 DEF FreshInv, Campaign, Plans, memory
    <3>1. PICK f \in files : Same(f, g)
      BY <1>1
    <3> QED
      BY <2>1, <3>1 DEF TruthInv, FreshInv, Same
  <2>7. ReceiptInv(o)'
    <3> SUFFICES ASSUME Campaign(o), NEW g \in files', g.owner = o, g.name = "receipt"
                 PROVE  /\ \A h \in files' : h.place = g.place /\ h.plan = g.plan =>
                             h.owner = o /\ h.durable = TRUE
                        /\ \E i \in DOMAIN replies[o] :
                             /\ i \in DOMAIN Plans(o) /\ g.plan = Plans(o)[i]
                             /\ {h.name : h \in Folder(g.place, g.plan)'} = Written(replies[o][i])
      BY <1>2 DEF ReceiptInv, Receipts, Folder, Campaign, Plans, memory
    <3>1. PICK f \in files : Same(f, g)
      BY <1>1
    <3>2. /\ f.name = "receipt" /\ f.owner = o /\ f.place = g.place /\ f.plan = g.plan
          /\ f \in Receipts(o)
      BY <3>1 DEF Same, Receipts
    <3>3. f.place = Job[o].place
      BY <2>1, <3>2 DEF FileNamesOK, Names
    <3>4. PICK i \in DOMAIN replies[o] :
            /\ i \in DOMAIN Plans(o) /\ f.plan = Plans(o)[i]
            /\ {h.name : h \in Folder(f.place, f.plan)} = Written(replies[o][i])
      BY <2>1, <3>2 DEF TruthInv, ReceiptInv
    <3>5. \A e \in Folder(f.place, f.plan) : e.owner = o /\ (e.durable = TRUE \/ e.name = "receipt")
      BY <2>1, <3>2 DEF TruthInv, ReceiptInv
    <3>6. ASSUME NEW h \in files', h.place = g.place, h.plan = g.plan
          PROVE  h.durable = TRUE /\ \E e \in Folder(f.place, f.plan) : Same(e, h)
      BY <1>1, <3>2, <3>6 DEF Same, Folder
    <3>7. ASSUME NEW e \in Folder(f.place, f.plan)
          PROVE  \E h \in Folder(g.place, g.plan)' : h.name = e.name
      <4>1. CASE e.durable = TRUE
        <5>1. \E h \in files' : Same(e, h)
          BY <1>1, <2>3, <3>3, <4>1 DEF Folder
        <5> QED
          BY <3>2, <5>1 DEF Folder, Same
      <4>2. CASE e.name = "receipt"
        BY <4>2 DEF Folder
      <4> QED
        BY <3>5, <4>1, <4>2
    <3>8. {h.name : h \in Folder(g.place, g.plan)'} = {e.name : e \in Folder(f.place, f.plan)}
      <4>1. ASSUME NEW h \in Folder(g.place, g.plan)'
            PROVE  \E e \in Folder(f.place, f.plan) : e.name = h.name
        BY <3>6 DEF Folder, Same
      <4> QED
        BY <3>7, <4>1
    <3>9. ASSUME NEW h \in files', h.place = g.place, h.plan = g.plan
          PROVE  h.owner = o /\ h.durable = TRUE
      <4>1. PICK e \in Folder(f.place, f.plan) : Same(e, h)
        BY <3>6, <3>9
      <4>2. e.owner = o /\ e.owner = h.owner
        BY <3>5, <4>1 DEF Same
      <4> QED
        BY <3>6, <3>9, <4>2
    <3> QED
      BY <3>2, <3>4, <3>8, <3>9
  <2>8. SettledInv(o)'
    <3>1. pc'[o] \notin Final => nth[o] = 1 /\ pc'[o] = "idle"
      BY <2>1, <2>2 DEF ProgressInv, Early, Final
    <3>2. pc'[o] \notin Final => Settled(o)' = 0
      BY <1>2, <3>1 DEF Settled, Writing, memory
    <3> QED
      BY <3>2 DEF SettledInv
  <2>9. SealInv(o)'
    <3> SUFFICES ASSUME NEW g \in files', g.name = "campaign", g.owner = o
                 PROVE  sentBy[o] = PlanSet(o) /\ \A q \in PlanSet(o) : HasReceipt(o, q)'
      BY <1>2 DEF SealInv, PlanSet, Plans
    <3>1. PICK f \in files : Same(f, g)
      BY <1>1
    <3>2. Campaign(o) /\ sentBy[o] = PlanSet(o) /\ \A q \in PlanSet(o) : HasReceipt(o, q)
      BY <2>1, <3>1 DEF TruthInv, SealInv, FileNamesOK, Same
    <3>3. ASSUME NEW q \in PlanSet(o) PROVE HasReceipt(o, q)'
      <4>1. PICK h \in files : h.name = "receipt" /\ h.owner = o /\ h.plan = q /\ h.durable = TRUE
        BY <3>2 DEF HasReceipt
      <4>2. h.place = Job[o].place
        BY <2>1, <4>1 DEF FileNamesOK, Names
      <4>3. \E e \in files' : Same(h, e) /\ e.durable = TRUE
        BY <1>1, <2>3, <3>2, <4>1, <4>2
      <4> QED
        BY <4>1, <4>3 DEF HasReceipt, Same
    <3> QED
      BY <3>2, <3>3
  <2> QED
    BY <2>4, <2>5, <2>6, <2>7, <2>8, <2>9 DEF TruthInv
<1> QED
  BY <1>3, <1>4 DEF ReceiptsInv

LEMMA InitTruth == Lasting /\ Init => ReceiptsInv
<1> SUFFICES ASSUME Lasting, Init PROVE ReceiptsInv
  OBVIOUS
<1>1. OnceInv /\ EndsInv /\ RunsOK
  BY InitOnce, InitEnds DEF EndsInv, TypeOK
<1>2. \A f \in files : f.name \in Names /\ f.plan \in Plan /\ f.owner = Earlier
  BY WorldAssumption DEF Init
<1>3. FileNamesOK
  BY <1>2, NameAssumption DEF FileNamesOK, Names
<1>4. ASSUME NEW p \in Proc PROVE TruthInv(p)
  <2>1. pc[p] \in {"idle", "crashed"} /\ nth[p] = 1 /\ sentBy[p] = {}
    BY DEF Init
  <2>2. \A f \in files : f.owner # p /\ f.name # "campaign"
    BY <1>2, NameAssumption DEF Names
  <2>3. MarkInv(p) /\ ForeignInv(p) /\ FreshInv(p) /\ FolderInv(p) /\ ReceiptInv(p) /\ SealInv(p)
    BY <2>1, <2>2 DEF MarkInv, ForeignInv, FreshInv, FolderInv, ReceiptInv, SealInv, Results, Writing,
       Receipts, Final
  <2>4. SettledInv(p)
    BY <2>1 DEF SettledInv, Settled, Writing
  <2> QED
    BY <2>3, <2>4 DEF TruthInv
<1> QED
  BY <1>1, <1>3, <1>4 DEF ReceiptsInv

LEMMA NextTruth == ReceiptsInv /\ [Next]_vars => ReceiptsInv'
<1> SUFFICES ASSUME ReceiptsInv, [Next]_vars PROVE ReceiptsInv'
  OBVIOUS
<1>1. TypeOK /\ TypeOK' /\ OnceInv' /\ EndsInv'
  BY NextTyped, NextKeepsOnce, NextEnds DEF ReceiptsInv, OnceInv
<1>2. ASSUME NEW p \in Proc, Start(p) \/ LocalStep(p) \/ Answer(p) \/ Crash(p) PROVE ReceiptsInv'
  <2>1. Alone(p)
    BY <1>1, <1>2, StepsAlone
  <2> QED
    BY <1>1, <1>2, <2>1, StepActions, ChecksKeepTruth, DirectoryKeepsTruth, LinkKeepsTruth,
       SyncKeepsTruth, ProceedKeepsTruth, SendKeepsTruth, AnswerKeepsTruth, SealKeepsTruth DEF Answer
<1>3. CASE PowerLoss
  BY <1>1, <1>3, PowerKeepsTruth
<1>4. CASE UNCHANGED vars
  <2>1. /\ files' = files /\ pc' = pc /\ nth' = nth /\ todo' = todo /\ replies' = replies
        /\ sentBy' = sentBy
    BY <1>4 DEF vars, memory, history
  <2>2. FilesKept
    BY <1>1, <2>1, SyncKeepsFiles DEF TypeOK
  <2>3. FileNamesOK'
    BY <2>2, NamesKept DEF ReceiptsInv
  <2>4. ASSUME NEW p \in Proc PROVE TruthInv(p)'
    <3>1. TruthInv(p) /\ RunsOK /\ files' \subseteq File
      BY <1>1 DEF ReceiptsInv, TypeOK, FilesOK
    <3>2. Len(replies[p]) \in Nat /\ nth[p] \in Nat
      BY <3>1 DEF RunsOK
    <3>3. MarkInv(p)' /\ SealInv(p)' /\ ForeignInv(p)' /\ ReceiptInv(p)'
      BY <2>1, <2>2, <3>1, MarkKept, SealKept, ForeignKept, ReceiptKept DEF TruthInv, Past
    <3>4. FreshInv(p)'
      BY <2>1, <2>2, <3>1, <3>2, FreshKept DEF TruthInv
    <3>5. SettledInv(p)'
      BY <2>1, <2>2, <3>1, SettledKept DEF TruthInv, Settled, Writing
    <3>6. FolderInv(p)'
      BY <2>1, <2>2, <3>1, FolderKept DEF TruthInv, Done, Current, Results, Writing, Elements
    <3> QED
      BY <3>3, <3>4, <3>5, <3>6 DEF TruthInv
  <2> QED
    BY <1>1, <2>3, <2>4 DEF ReceiptsInv
<1> QED
  BY <1>2, <1>3, <1>4 DEF Next, Finished

\* A receipt of either command is true, whatever runs share the folders and
\* wherever processes are killed or power fails: the receipt of one plan comes
\* last into a campaign's folder that holds the files it speaks of and no
\* others, all of its run, and the campaign's receipt means that its run handed
\* over all plans, alone, and that the receipt of each of them is there
\* (_write_plan_run and _write_or_verify, campaign_live.py).
THEOREM ReceiptsTellTheTruth == Lasting /\ Spec => []ReceiptsAreTrue
<1> QED
  BY InitTruth, NextTruth, ReceiptsInvSuffices, PTL DEF Spec
=============================================================================
