-------------------------- MODULE DocumentCampaign --------------------------
(***************************************************************************)
(* The two commands that ask the provider for Document Cards: a campaign   *)
(* over several documents (knowledge/document_first/campaign_live.py) and  *)
(* a run for one document (live_smoke.py).  Runs share a state directory,  *)
(* where a marker forbids a plan's second attempt, and leave their results *)
(* in folders, one for each plan, receipt last.                            *)
(*                                                                         *)
(* A file is named by its place, its plan and its name.  What is in it     *)
(* follows from the run that wrote it: `owner'.  A file is written to a    *)
(* temporary name nobody else has and then linked, so it is whole or not   *)
(* there.  Approvals, prompts, hashes and the offline artifacts 00 to 05   *)
(* are left out: a run for which they do not match ends before it begins.  *)
(***************************************************************************)
EXTENDS Naturals, Sequences, FiniteSets

CONSTANTS
  Plan,       \* dispatch plans
  Proc,       \* runs
  Earlier,    \* the owner of files from a time before
  Job,        \* what each run is asked to do
  NoPlan,     \* where a file belongs to no plan
  State,      \* the state directory
  Place,      \* output directories
  Reply,      \* what the provider may answer
  Reserved,   \* max_tokens of each plan
  Timeout,    \* wall clock of each plan, in ticks
  Overhead,   \* bound: ticks a run may take beside the attempt
  Worlds,     \* bound: [dir, losses, files, runs] at the start
  IOFails,    \* may system calls fail?
  Crashes     \* may runs be killed?

Bodies == {"none", "http", "outer", "deep", "cut", "unfit", "card"}
Names == {"raw", "draft", "card", "receipt"}
File ==
  [place : Place \cup {State}, plan : Plan \cup {NoPlan}, name : Names \cup {"marker", "campaign"},
   owner : Proc \cup {Earlier}, durable : BOOLEAN]

ASSUME JobAssumption ==
  /\ \A p \in Proc :
       /\ Job[p].kind \in {"campaign", "single"} /\ Job[p].place \in Place
       /\ Job[p].plans \in Seq(Plan) /\ Job[p].plans # <<>>
       /\ Job[p].kind = "single" => Len(Job[p].plans) = 1
       /\ \A i, j \in DOMAIN Job[p].plans : Job[p].plans[i] = Job[p].plans[j] => i = j
  /\ \A p, r \in Proc : Job[p].place = Job[r].place => Job[p].kind = Job[r].kind

ASSUME NameAssumption == NoPlan \notin Plan /\ State \notin Place /\ Earlier \notin Proc

\* none: an exception, the deadline, too many bytes or an echoed credential;
\* http: no 200; outer: no completion; deep: nested too deep for the decoder;
\* cut: finish_reason is not stop; unfit: no card can be built
ASSUME ReplyAssumption ==
  /\ Reply \subseteq [body : Bodies, tokens : Nat]
  /\ \A r \in Reply : r.body \in {"none", "http", "outer", "deep"} => r.tokens = 0

ASSUME NumberAssumption ==
  Reserved \in Nat /\ Timeout \in Nat \ {0} /\ Overhead \in Nat
  /\ IOFails \in BOOLEAN /\ Crashes \in BOOLEAN

ASSUME WorldAssumption ==
  \A w \in Worlds :
    /\ w.dir \in {"absent", "durable"} /\ w.losses \in Nat
    /\ w.files \subseteq File /\ w.runs \subseteq Proc
    /\ \A f \in w.files : f.name \in Names /\ f.plan \in Plan /\ f.place \in Place /\ f.owner = Earlier

VARIABLES
  dir,       \* the state directory: "absent", "volatile" or "durable"
  files,     \* markers, artifacts and campaign receipts
  losses,    \* bound: power failures still to come
  pc,        \* where each run is
  nth,       \* the plan in hand
  todo,      \* the names of the files it still has to write
  elapsed,   \* ticks since it took its first look at the clock
  tokens,    \* completion tokens reported to it
  replies,   \* the answers it got, by plan
  exit,      \* its exit code, network_attempted and the reason
  attempts,  \* history: how often each plan was handed to a transport
  sentBy     \* history: the plans each run handed over

memory == <<nth, todo, elapsed, tokens, replies>>
history == <<attempts, sentBy>>
vars == <<dir, files, losses, pc, memory, exit, history>>

-----------------------------------------------------------------------------
Campaign(p) == Job[p].kind = "campaign"
Plans(p) == Job[p].plans
PlanSet(p) == {Plans(p)[i] : i \in DOMAIN Plans(p)}
Unit(p) == Plans(p)[nth[p]]

\* _interpret_provider_response(), and the receipt's status
Overrun(r) == r.body \in {"cut", "unfit", "card"} /\ r.tokens > Reserved
Status(r) ==
  CASE r.body = "none" -> "transport_error"
    [] r.body = "http" -> "provider_http_error"
    [] r.body = "outer" \/ Overrun(r) \/ r.body = "cut" -> "provider_response_invalid"
    [] r.body = "unfit" -> "document_card_invalid"
    [] r.body = "deep" -> "no_receipt"
    [] OTHER -> "valid_card"

\* the files of a run of one plan, in the order they are written
Artifacts(r) ==
  CASE Status(r) = "transport_error" -> <<"receipt">>
    [] Status(r) = "valid_card" -> <<"raw", "draft", "card", "receipt">>
    [] OTHER -> <<"raw", "receipt">>

Written(r) == {Artifacts(r)[k] : k \in DOMAIN Artifacts(r)}

TotalTimeout(p) == Len(Plans(p)) * Timeout
TotalReserved(p) == Len(Plans(p)) * Reserved
AllValid(p) == \A i \in DOMAIN replies[p] : Status(replies[p][i]) = "valid_card"

-----------------------------------------------------------------------------
(* Files. *)

Path(p, name) ==
  [place |-> IF name = "marker" THEN State ELSE Job[p].place,
   plan |-> IF name = "campaign" THEN NoPlan ELSE Unit(p),
   name |-> name]

At(path) == {f \in files : f.place = path.place /\ f.plan = path.plan /\ f.name = path.name}
Marked(q) == \E f \in files : f.name = "marker" /\ f.plan = q

\* the artifacts of one plan in one place
Folder(place, q) == {f \in files : f.place = place /\ f.plan = q}

\* fsync() of the directory that holds a path
Secure(f, path) ==
  IF f.place = path.place /\ (f.place = State \/ f.plan = path.plan)
    THEN [f EXCEPT !.durable = TRUE] ELSE f

Synced(path) == {Secure(f, path) : f \in files}

-----------------------------------------------------------------------------
PC ==
  {"idle", "markers", "artifacts", "credential", "admit", "look", "mkdir", "parent", "link",
   "sync", "written", "send", "sending", "check", "seal", "report", "exited", "crashed"}

Attempted == {"true", "false", "unknown"}
Reason ==
  {"running", "completed", "refused", "attempt_already_consumed", "artifact_collision",
   "credential_unavailable", "campaign_wall_clock_budget_insufficient",
   "campaign_wall_clock_budget_exceeded", "campaign_runtime_or_integrity_invalid",
   "live_runtime_error", "live_materialization_error", "os_error"}
Running == [code |-> 99, attempted |-> "unknown", why |-> "running"]
Final == {"exited", "crashed"}

Init ==
  /\ \E w \in Worlds :
       /\ dir = w.dir /\ losses = w.losses /\ files = w.files
       /\ pc = [p \in Proc |-> IF p \in w.runs THEN "idle" ELSE "crashed"]
  /\ nth = [p \in Proc |-> 1]
  /\ todo = [p \in Proc |-> <<>>]
  /\ elapsed = [p \in Proc |-> 0]
  /\ tokens = [p \in Proc |-> 0]
  /\ replies = [p \in Proc |-> <<>>]
  /\ exit = [p \in Proc |-> Running]
  /\ attempts = [q \in Plan |-> 0]
  /\ sentBy = [p \in Proc |-> {}]

Goto(p, place) == pc' = [pc EXCEPT ![p] = place]

Exit(p, code, attempted, why) ==
  /\ Goto(p, "exited")
  /\ exit' = [exit EXCEPT ![p] = [code |-> code, attempted |-> attempted, why |-> why]]

\* a control error: the single command knows that nothing was sent yet
Refused(p, why) ==
  IF Campaign(p) THEN Exit(p, 3, "unknown", why) ELSE Exit(p, 2, "false", why)

\* an error while results are written
Unwritten(p, why) == Exit(p, 3, IF Campaign(p) THEN "unknown" ELSE "true", why)

\* any other exception
Raises(p, why) == Exit(p, 3, "unknown", why)

Start(p) ==
  /\ pc[p] = "idle"
  /\ \/ Goto(p, IF Campaign(p) THEN "markers" ELSE "credential") /\ UNCHANGED exit
     \/ Exit(p, 2, "false", "refused")
  /\ UNCHANGED <<dir, files, losses, memory, history>>

\* _preflight_replay_state
PreflightMarkers(p) ==
  /\ pc[p] = "markers"
  /\ IF \E q \in PlanSet(p) : Marked(q)
       THEN Refused(p, "attempt_already_consumed")
       ELSE Goto(p, "artifacts") /\ UNCHANGED exit
  /\ UNCHANGED <<dir, files, losses, memory, history>>

\* mutant: what is left of an earlier run is not looked for
PreflightArtifacts_None(p) ==
  /\ pc[p] = "artifacts"
  /\ Goto(p, "credential") /\ UNCHANGED exit
  /\ UNCHANGED <<dir, files, losses, memory, history>>

\* _preflight_new_live_artifacts
PreflightArtifacts(p) ==
  /\ pc[p] = "artifacts"
  /\ IF \E f \in files : f.place = Job[p].place
                         /\ (f.name = "campaign" \/ f.plan \in PlanSet(p))
       THEN Refused(p, "artifact_collision")
       ELSE Goto(p, "credential") /\ UNCHANGED exit
  /\ UNCHANGED <<dir, files, losses, memory, history>>

\* credential_provider.is_configured() and get_api_key()
CheckCredential(p) ==
  /\ pc[p] = "credential"
  /\ \/ Refused(p, "credential_unavailable")
     \/ Goto(p, IF Campaign(p) THEN "admit" ELSE "look") /\ UNCHANGED exit
  /\ UNCHANGED <<dir, files, losses, memory, history>>

\* the head of the loop over the plans
AdmitPlan(p) ==
  /\ pc[p] = "admit"
  /\ IF elapsed[p] + Timeout > TotalTimeout(p)
       THEN Refused(p, "campaign_wall_clock_budget_insufficient")
       ELSE Goto(p, "look") /\ UNCHANGED exit
  /\ UNCHANGED <<dir, files, losses, memory, history>>

\* _ensure_attempt_marker: state_dir.exists()
LookForDirectory(p) ==
  /\ pc[p] = "look"
  /\ IF dir = "absent"
       THEN Goto(p, "mkdir") /\ UNCHANGED todo
       ELSE Goto(p, "link") /\ todo' = [todo EXCEPT ![p] = <<"marker">>]
  /\ UNCHANGED <<dir, files, losses, nth, elapsed, tokens, replies, exit, history>>

\* os.mkdir() fails if another run was faster
MakeDirectory(p) ==
  /\ pc[p] = "mkdir"
  /\ \/ /\ dir = "absent"
        /\ dir' = "volatile"
        /\ Goto(p, "parent") /\ UNCHANGED exit
     \/ /\ dir # "absent" \/ IOFails
        /\ Raises(p, "os_error") /\ UNCHANGED dir
  /\ UNCHANGED <<files, losses, memory, history>>

\* _fsync_directory() of the parent
SyncParent(p) ==
  /\ pc[p] = "parent"
  /\ \/ /\ dir' = "durable"
        /\ Goto(p, "link")
        /\ todo' = [todo EXCEPT ![p] = <<"marker">>]
        /\ UNCHANGED exit
     \/ /\ IOFails
        /\ Raises(p, "os_error")
        /\ UNCHANGED <<dir, todo>>
  /\ UNCHANGED <<files, losses, nth, elapsed, tokens, replies, history>>

\* what a failure to write means to the command
WriteFails(p, why) ==
  CASE Head(todo[p]) = "marker" /\ why = "exists" -> Refused(p, "attempt_already_consumed")
    [] Head(todo[p]) = "marker" /\ why = "os_error" -> Raises(p, "os_error")
    [] Head(todo[p]) # "marker" /\ (why = "exists" \/ Campaign(p)) -> Unwritten(p, "artifact_collision")
    [] OTHER -> Unwritten(p, "live_materialization_error")

\* mutant: the marker of another run is taken for one's own
LinkFile_Reuses(p) ==
  /\ pc[p] = "link"
  /\ LET path == Path(p, Head(todo[p])) IN
       /\ files' = IF At(path) = {}
            THEN files \cup {[place |-> path.place, plan |-> path.plan, name |-> path.name,
                              owner |-> p, durable |-> FALSE]}
            ELSE files
       /\ Goto(p, "sync")
  /\ UNCHANGED <<dir, losses, memory, exit, history>>

\* _write_new_atomic() up to os.link(), and _write_or_verify() around it: a
\* file that is there is accepted only if it is one of the results and holds
\* the same bytes.  A marker that is there has been fsynced by the loser as well.
LinkFile(p) ==
  /\ pc[p] = "link"
  /\ LET path == Path(p, Head(todo[p])) IN
       \/ /\ At(path) = {}
          /\ files' = files \cup
               {[place |-> path.place, plan |-> path.plan, name |-> path.name,
                 owner |-> p, durable |-> FALSE]}
          /\ Goto(p, "sync") /\ UNCHANGED exit
       \/ /\ At(path) # {} /\ path.name # "marker"
          /\ Goto(p, "written") /\ UNCHANGED <<files, exit>>
       \/ /\ At(path) # {}
          /\ WriteFails(p, "exists")
          /\ files' \in IF path.name = "marker" THEN {Synced(path)} ELSE {files, Synced(path)}
       \/ /\ IOFails
          /\ WriteFails(p, "os_error")
          /\ files' \in {files, Synced(path)}
  /\ UNCHANGED <<dir, losses, memory, history>>

\* _write_new_atomic(): fsync, unlink the temporary name, fsync
SyncFile(p) ==
  /\ pc[p] = "sync"
  /\ LET path == Path(p, Head(todo[p])) IN
       \/ /\ files' = Synced(path)
          /\ Goto(p, "written") /\ UNCHANGED exit
       \/ /\ IOFails
          /\ files' \in {files, Synced(path)}
          /\ WriteFails(p, "os_error")
  /\ UNCHANGED <<dir, losses, memory, history>>

\* the loop over campaign.plans
More(p) == nth[p] < Len(Plans(p))

\* the next file, or what comes after the last one
Proceed(p) ==
  /\ pc[p] = "written"
  /\ LET name == Head(todo[p])
         rest == Tail(todo[p])
     IN /\ todo' = [todo EXCEPT ![p] = rest]
        /\ Goto(p, CASE rest # <<>> -> "link"
                     [] rest = <<>> /\ name = "marker" -> "send"
                     [] rest = <<>> /\ name = "receipt" /\ Campaign(p) -> IF More(p) THEN "admit" ELSE "seal"
                     [] OTHER -> "report")
        /\ nth' = [nth EXCEPT ![p] = IF rest = <<>> /\ name = "receipt" /\ More(p) THEN @ + 1 ELSE @]
  /\ UNCHANGED <<dir, files, losses, elapsed, tokens, replies, exit, history>>

\* transport.send() begins
Send(p) ==
  /\ pc[p] = "send"
  /\ Goto(p, "sending")
  /\ attempts' = [attempts EXCEPT ![Unit(p)] = @ + 1]
  /\ sentBy' = [sentBy EXCEPT ![p] = @ \cup {Unit(p)}]
  /\ UNCHANGED <<dir, files, losses, memory, exit>>

\* mutant: one error for every failure, and the campaign ends with it
SendReturns_Stops(p, r, ticks) ==
  /\ pc[p] = "sending"
  /\ elapsed' = [elapsed EXCEPT ![p] = @ + ticks]
  /\ replies' = [replies EXCEPT ![p] = Append(@, r)]
  /\ tokens' = [tokens EXCEPT ![p] = @ + r.tokens]
  /\ IF Status(r) # "valid_card"
       THEN Raises(p, "live_runtime_error") /\ UNCHANGED todo
       ELSE /\ Goto(p, IF Campaign(p) THEN "check" ELSE "link") /\ UNCHANGED exit
            /\ todo' = [todo EXCEPT ![p] = Artifacts(r)]
  /\ UNCHANGED <<dir, files, losses, nth, history>>

\* The answer, at most Timeout ticks later for the alarm clock interrupts the
\* transport, its interpretation, and whatever else takes time.  The decoder
\* gives up on deep nesting with an error that nobody catches.
SendReturns(p, r, ticks) ==
  /\ pc[p] = "sending"
  /\ elapsed' = [elapsed EXCEPT ![p] = @ + ticks]
  /\ replies' = [replies EXCEPT ![p] = Append(@, r)]
  /\ tokens' = [tokens EXCEPT ![p] = @ + r.tokens]
  /\ \/ /\ r.body = "deep"
        /\ Raises(p, "live_runtime_error") /\ UNCHANGED todo
     \/ /\ r.body # "deep"
        /\ Goto(p, IF Campaign(p) THEN "check" ELSE "link") /\ UNCHANGED exit
        /\ todo' = [todo EXCEPT ![p] = Artifacts(r)]
  /\ UNCHANGED <<dir, files, losses, nth, history>>

\* _write_plan_run(): what is in the folder must be what is to be written
CheckFolder(p) ==
  /\ pc[p] = "check"
  /\ LET there == {f.name : f \in Folder(Job[p].place, Unit(p))} IN
       \/ /\ there \subseteq {todo[p][k] : k \in DOMAIN todo[p]}
          /\ Goto(p, "link") /\ UNCHANGED exit
       \/ there # {} /\ Unwritten(p, "artifact_collision")
  /\ UNCHANGED <<dir, files, losses, memory, history>>

\* the end of the loop; _seal_campaign_receipt() and its own validator
SealCampaign(p) ==
  /\ pc[p] = "seal"
  /\ \/ /\ elapsed[p] > TotalTimeout(p)
        /\ Refused(p, "campaign_wall_clock_budget_exceeded") /\ UNCHANGED todo
     \/ /\ elapsed[p] <= TotalTimeout(p) /\ tokens[p] > TotalReserved(p)
        /\ Raises(p, "campaign_runtime_or_integrity_invalid") /\ UNCHANGED todo
     \/ /\ elapsed[p] <= TotalTimeout(p) /\ tokens[p] <= TotalReserved(p)
        /\ Goto(p, "link") /\ UNCHANGED exit
        /\ todo' = [todo EXCEPT ![p] = <<"campaign">>]
  /\ UNCHANGED <<dir, files, losses, nth, elapsed, tokens, replies, history>>

\* the printed summary
Report(p) ==
  /\ pc[p] = "report"
  /\ Exit(p, IF AllValid(p) THEN 0 ELSE 3, "true", "completed")
  /\ UNCHANGED <<dir, files, losses, memory, history>>

Crash(p) ==
  /\ Crashes /\ pc[p] \notin {"idle"} \cup Final
  /\ Goto(p, "crashed")
  /\ UNCHANGED <<dir, files, losses, memory, exit, history>>

\* A power failure.  Entries that were not fsynced may be lost, a directory
\* that was not fsynced in its parent with all it holds; nobody fsyncs the
\* parent of a single run's folder.
Loose(f) ==
  ~f.durable \/ \E p \in Proc : ~Campaign(p) /\ f.place = Job[p].place

PowerLoss ==
  /\ losses > 0
  /\ losses' = losses - 1
  /\ pc' = [p \in Proc |-> IF pc[p] \in {"idle"} \cup Final THEN pc[p] ELSE "crashed"]
  /\ \E lost \in SUBSET {f \in files : Loose(f)} :
       LET left == {[f EXCEPT !.durable = TRUE] : f \in files \ lost} IN
       \/ /\ dir' = IF dir = "absent" THEN "absent" ELSE "durable"
          /\ files' = left
       \/ /\ dir = "volatile" /\ dir' = "absent"
          /\ files' = {f \in left : f.place # State}
  /\ UNCHANGED <<memory, exit, history>>

LocalStep(p) ==
  \/ PreflightMarkers(p) \/ PreflightArtifacts(p) \/ CheckCredential(p) \/ AdmitPlan(p)
  \/ LookForDirectory(p) \/ MakeDirectory(p) \/ SyncParent(p)
  \/ LinkFile(p) \/ SyncFile(p) \/ Proceed(p)
  \/ Send(p) \/ CheckFolder(p) \/ SealCampaign(p) \/ Report(p)

Answer(p) == \E r \in Reply, ticks \in 0..Timeout + Overhead : SendReturns(p, r, ticks)

Finished == (\A p \in Proc : pc[p] \in Final) /\ UNCHANGED vars

Next ==
  \/ \E p \in Proc : Start(p) \/ LocalStep(p) \/ Answer(p) \/ Crash(p)
  \/ PowerLoss
  \/ Finished

Spec == Init /\ [][Next]_vars

-----------------------------------------------------------------------------
FilesOK ==
  /\ dir \in {"absent", "volatile", "durable"}
  /\ files \subseteq File
  /\ losses \in Nat

RunsOK ==
  /\ pc \in [Proc -> PC]
  /\ nth \in [Proc -> Nat] /\ \A p \in Proc : nth[p] \in DOMAIN Plans(p)
  /\ todo \in [Proc -> Seq(Names \cup {"marker", "campaign"})]
  /\ \A p \in Proc : pc[p] \in {"check", "link", "sync", "written"} => todo[p] # <<>>
  /\ elapsed \in [Proc -> Nat] /\ tokens \in [Proc -> Nat]
  /\ replies \in [Proc -> Seq(Reply)]
  /\ exit \in [Proc -> [code : {0, 2, 3, 99}, attempted : Attempted, why : Reason]]

\* the type invariant
TypeOK ==
  /\ FilesOK
  /\ RunsOK
  /\ attempts \in [Plan -> Nat]
  /\ sentBy \in [Proc -> SUBSET Plan]

\* Both commands keep the promise of the marker: a plan is reserved for good
\* before it is handed to a transport, and handed over once
\* (data-contracts.md: "each Plan is tried once, without retry").
Promise == INSTANCE OneAttempt WITH
  reserved <- {q \in Plan : Marked(q)},
  attempts <- attempts
ImplementsOneAttempt == Promise!Spec

Receipts(p) == {f \in files : f.owner = p /\ f.name = "receipt"}

\* A receipt is true.  In a campaign's folder it is last: the files it speaks
\* of are there, of the same run, no others are, and none of them is easier to
\* lose than it.  A campaign receipt has all receipts below it, as durable as
\* it is: its run handed over every plan, and nobody else handed over any.
ReceiptsAreTrue ==
  /\ \A p \in Proc : Campaign(p) => \A f \in Receipts(p) :
       LET folder == Folder(f.place, f.plan)
           k == CHOOSE i \in DOMAIN Plans(p) : Plans(p)[i] = f.plan
       IN /\ \A g \in folder : g.owner = p /\ (f.durable => g.durable)
          /\ {g.name : g \in folder} = Written(replies[p][k])
  /\ \A f \in files : f.name = "campaign" =>
       LET p == f.owner IN
       /\ sentBy[p] = PlanSet(p)
       /\ \A r \in Proc \ {p} : sentBy[r] \cap sentBy[p] = {}
       /\ {g.plan : g \in {h \in Receipts(p) : f.durable => h.durable}} = sentBy[p]

\* What a run says when it ends is so.  Exit code 0: it handed over all its
\* plans and every card is valid.  network_attempted = false: it handed over
\* none.  And an error code has its cause, which is never an ordinary failure
\* of the transport, the provider or the card: too little time is left only
\* if earlier plans took more than their share, the campaign's receipt is
\* refused only if a reply overran what was reserved for it, a marker in the
\* way is another run's and a runtime error comes from a reply nested too deep.
EndsAreExplained ==
  \A p \in Proc : pc[p] = "exited" =>
    LET why == exit[p].why
        someReply(Test(_)) == \E i \in DOMAIN replies[p] : Test(replies[p][i])
        tooDeep(r) == r.body = "deep"
    IN /\ exit[p].attempted = "false" => sentBy[p] = {}
       /\ exit[p].code = 0 => sentBy[p] = PlanSet(p) /\ AllValid(p)
       /\ why = "completed" => Len(replies[p]) = Len(Plans(p))
       /\ why = "attempt_already_consumed" => Unit(p) \notin sentBy[p]
       /\ why = "campaign_wall_clock_budget_insufficient" => elapsed[p] > (nth[p] - 1) * Timeout
       /\ why = "campaign_runtime_or_integrity_invalid" => someReply(Overrun)
       /\ why = "live_runtime_error" => someReply(tooDeep)
=============================================================================
