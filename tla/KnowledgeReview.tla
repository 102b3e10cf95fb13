--------------------------- MODULE KnowledgeReview ---------------------------
(***************************************************************************)
(* Knowledge review by an external model, from the call to publication:    *)
(* tools/run_knowledge_grok_review.py writes what a call returns into the  *)
(* directory of a round, knowledge/review_campaign.py reads the rounds of  *)
(* a campaign back, review_consensus_build.py makes a consensus of two     *)
(* campaigns and publication.py publishes it.                              *)
(*                                                                         *)
(* Packets have files of their own, and a campaign asks the same of each,  *)
(* so the module follows one packet.  Files are written without a lock,    *)
(* while other processes write or read them; a writer truncates a file     *)
(* before it fills it.  Copy is what a person may do with the directories. *)
(***************************************************************************)
EXTENDS Naturals, FiniteSets, Sequences

CONSTANTS
  Run,       \* runs of the tool for this packet; each has its own request id
  Round,     \* directories
  RoundsOf,  \* the rounds that match each prefix; two prefixes may share some
  Pairs,     \* bound: the pairs of prefixes a consensus is asked for
  Copies,    \* bound: which round may be copied to which
  Jobs,      \* bound: the rounds each run may be given
  Answers    \* bound: what each run may be answered

\* How the model may answer: no JSON object, a wrapper whose text is not its
\* structured output, no request id or usage, a review the validator rejects,
\* a review that the model did not end itself, or a sound review, whose
\* decision follows.
Sound == {"accept", "reject"}
Unparsed == {"garbled", "mismatched"}
Answer == Sound \cup Unparsed \cup {"anonymous", "invalid", "cut"}

ASSUME ReviewAssumption ==
  /\ Run \cap {"none", "empty", "torn"} = {}
  /\ \A c \in DOMAIN RoundsOf : RoundsOf[c] \subseteq Round
  /\ \A pair \in Pairs : pair[1] # pair[2]
  /\ Jobs \in [Run -> SUBSET Round]
  /\ Answers \in [Run -> SUBSET Answer]

VARIABLES
  at,         \* where each run is
  round,      \* the round it was given, as a set
  answer,     \* what it was answered
  file,       \* per round and kind: "none", "empty", "torn" or the run it is of
  failed,     \* the rounds with a log of a call that failed
  copied,     \* the rounds a person made by copying
  build,      \* the consensus that is being built
  published   \* pairs of runs whose reviews were published

runVars == <<at, round, answer, file, failed, copied>>
vars == <<runVars, build, published>>

Kind == {"raw", "review", "receipt"}
NoFiles == [k \in Kind |-> "none"]
Idle == [at |-> <<0, "idle">>]

Init ==
  /\ at = [x \in Run |-> "idle"]
  /\ round = [x \in Run |-> {}]
  /\ answer = [x \in Run |-> "none"]
  /\ file = [r \in Round |-> NoFiles]
  /\ failed = {} /\ copied = {}
  /\ build = Idle
  /\ published = {}

-----------------------------------------------------------------------------
(* One run: run_review().                                                  *)

Go(x, label) == at' = [at EXCEPT ![x] = label]

\* Nothing of this packet may be in the round.  Other rounds are not looked at.
Begin(x) ==
  /\ at[x] = "idle"
  /\ \E r \in Jobs[x] :
       /\ round' = [round EXCEPT ![x] = {r}]
       /\ Go(x, IF file[r] = NoFiles THEN "calling" ELSE "ended")
  /\ UNCHANGED <<answer, file, failed, copied, build, published>>

\* The call times out or cannot be made, which leaves nothing behind, or it
\* exits with an error, which leaves a log.
CallFails(x) ==
  /\ at[x] = "calling"
  /\ failed' = failed \/ failed' = failed \cup round[x]
  /\ Go(x, "ended")
  /\ UNCHANGED <<round, answer, file, copied, build, published>>

Truncated(r, kind) == [file EXCEPT ![r][kind] = "empty"]

\* what a file holds once x has written to it: what another run has put there
\* since x truncated it is replaced, or sticks out behind if it is longer
Written(x, r, kind) == IF file[r][kind] = "empty" THEN {x} ELSE {x, "torn"}

\* The raw response is the first file that is opened.
CallReturns(x) ==
  /\ at[x] = "calling"
  /\ \E a \in Answers[x] : answer' = [answer EXCEPT ![x] = a]
  /\ \E r \in round[x] : file' = Truncated(r, "raw")
  /\ Go(x, "raw")
  /\ UNCHANGED <<round, failed, copied, build, published>>

\* what load_and_validate_knowledge_model_review() accepts
Valid(x) == answer[x] \in Sound \cup {"cut", "anonymous"}

\* _parse_grok_wrapper() decides whether there will be a review.
WriteRaw(x) ==
  /\ at[x] = "raw"
  /\ \E r \in round[x], text \in Run \cup {"torn"} :
       /\ text \in Written(x, r, "raw")
       /\ IF answer[x] \in Unparsed
          THEN file' = [file EXCEPT ![r].raw = text] /\ Go(x, "ended")
          ELSE file' = [file EXCEPT ![r].raw = text, ![r].review = "empty"] /\ Go(x, "review")
  /\ UNCHANGED <<round, answer, failed, copied, build, published>>

\* The review is written before it is validated.
WriteReview(x) ==
  /\ at[x] = "review"
  /\ \E r \in round[x], text \in Run \cup {"torn"} :
       text \in Written(x, r, "review") /\ file' = [file EXCEPT ![r].review = text]
  /\ Go(x, IF Valid(x) THEN "valid" ELSE "ended")
  /\ UNCHANGED <<round, answer, failed, copied, build, published>>

OpenReceipt(x) ==
  /\ at[x] = "valid"
  /\ \E r \in round[x] : file' = Truncated(r, "receipt")
  /\ Go(x, "receipt")
  /\ UNCHANGED <<round, answer, failed, copied, build, published>>

WriteReceipt(x) ==
  /\ at[x] = "receipt"
  /\ \E r \in round[x], text \in Run \cup {"torn"} :
       text \in Written(x, r, "receipt") /\ file' = [file EXCEPT ![r].receipt = text]
  /\ Go(x, "ended")
  /\ UNCHANGED <<round, answer, failed, copied, build, published>>

Kill(x) ==
  /\ at[x] \notin {"idle", "ended", "killed"}
  /\ Go(x, "killed")
  /\ UNCHANGED <<round, answer, file, failed, copied, build, published>>

Copy(r, s) ==
  /\ <<r, s>> \in Copies
  /\ file[r] # NoFiles /\ file[s] = NoFiles
  /\ file' = [file EXCEPT ![s] = file[r]]
  /\ copied' = copied \cup {s}
  /\ UNCHANGED <<at, round, answer, failed, build, published>>

-----------------------------------------------------------------------------
(* What is in the files.                                                   *)

IsJson(text) == text \in Run

\* A review is what its answer says; two sound answers may say the same.
Review(text) == IF IsJson(text) THEN answer[text] ELSE text
SameReview(a, b) == IsJson(a) /\ IsJson(b) /\ Review(a) = Review(b)

\* _validate_selected_receipt(): GrokReviewReceipt wants ids, usage and an
\* EndTurn, the hashes are those of the raw response and of the review
ReceiptAccepts(f) ==
  /\ IsJson(f.receipt) /\ answer[f.receipt] \in Sound
  /\ f.raw = f.receipt
  /\ SameReview(f.review, f.receipt)

\* mutant: the validator is not asked about an orphan
HasReceiptDue_Unvalidated(f) ==
  /\ IsJson(f.raw) /\ answer[f.raw] \in Sound \cup {"cut", "invalid"}
  /\ SameReview(f.review, f.raw)

\* _failed_attempts(): files without a receipt are the remains of a failure,
\* unless they are complete and the validator accepts them
HasReceiptDue(f) ==
  /\ IsJson(f.raw) /\ answer[f.raw] \in Sound \cup {"cut"}
  /\ SameReview(f.review, f.raw)

\* the request ids that files without a receipt tell, also those of a wrapper
\* that _parse_grok_wrapper() rejected
OrphanIds(f) == {x \in {f.raw} \cap Run : answer[x] \notin {"garbled", "anonymous"}}

\* the directories there are: a run makes its round before the call
Existing(c) == {r \in RoundsOf[c] : r \in copied \/ \E x \in Run : round[x] = {r}}
Receipts(c) == {r \in Existing(c) : file[r].receipt # "none"}

SameText(kind, a, b) == a = b \/ (kind = "review" /\ SameReview(a, b))

SameRemains(a, b) ==
  /\ a.logs = b.logs
  /\ \A r \in DOMAIN a.files, kind \in Kind : SameText(kind, a.files[r][kind], b.files[r][kind])

-----------------------------------------------------------------------------
(* build_knowledge_review_consensus_campaign(): summarize both campaigns,  *)
(* compare them, replay and capture both, then decide.  A file is read in  *)
(* a step of its own; a directory is scanned, and a whole campaign         *)
(* replayed, in one.                                                       *)

Refuse(why) == build' = [at |-> <<0, "refused">>, why |-> why]
Proceed(i, label) == build' = [build EXCEPT !.at = <<i, label>>]
Campaign(i) == build.names[i]
KeepFiles == UNCHANGED <<runVars, published>>

BeginBuild ==
  /\ build.at[1] = 0
  /\ \E pair \in Pairs : build' = [at |-> <<1, "list">>, names |-> pair, selected |-> <<>>]
  /\ KeepFiles

NoRemains == [files |-> <<>>, logs |-> {}]

\* exactly one receipt in all rounds of the campaign
ListReceipts(i) ==
  /\ build.at = <<i, "list">>
  /\ LET found == Receipts(Campaign(i)) IN
       IF found = {} THEN Refuse("missing")
       ELSE IF Cardinality(found) > 1 THEN Refuse("duplicate")
       ELSE build' = [build EXCEPT !.at = <<i, "receipt">>,
                        !.selected = Append(@, [round |-> CHOOSE r \in found : TRUE,
                                                rounds |-> Existing(Campaign(i)),
                                                seen |-> NoFiles, hash |-> NoFiles,
                                                failed |-> NoRemains])]
  /\ KeepFiles

\* _validate_selected_receipt() reads the three files and compares them
ReadFile(i, kind, next) ==
  /\ build.at = <<i, kind>>
  /\ LET text == file[build.selected[i].round][kind]
         seen == [build.selected[i].seen EXCEPT ![kind] = text]
     IN IF IsJson(text) /\ (kind = "raw" => ReceiptAccepts(seen))
        THEN build' = [build EXCEPT !.at = <<i, next>>, !.selected[i].seen = seen]
        ELSE Refuse("unreadable")
  /\ KeepFiles

\* and then reads them again for their hashes.
HashFile(i, label, kind, next) ==
  /\ build.at = <<i, label>>
  /\ build' = [build EXCEPT !.at = <<i, next>>,
                            !.selected[i].hash[kind] = file[build.selected[i].round][kind]]
  /\ KeepFiles

\* what the failed attempts of the campaign have left behind by now
FailedNow(i) ==
  [files |-> [r \in build.selected[i].rounds \ {build.selected[i].round} |-> file[r]],
   logs |-> failed \cap build.selected[i].rounds]

IdsOf(remains) == UNION {OrphanIds(remains.files[r]) : r \in DOMAIN remains.files}

\* _failed_attempts(), and request ids are unique in the campaign
ScanFailures(i) ==
  /\ build.at = <<i, "scan">>
  /\ LET remains == FailedNow(i)
         other == DOMAIN remains.files
     IN IF \E r \in other : HasReceiptDue(file[r]) THEN Refuse("orphan")
        ELSE IF \/ build.selected[i].seen.raw \in IdsOf(remains)
                \/ \E r, s \in other : r # s /\ OrphanIds(file[r]) \cap OrphanIds(file[s]) # {}
        THEN Refuse("repeated")
        ELSE build' = [build EXCEPT !.at = IF i = 1 THEN <<2, "list">> ELSE <<2, "compare">>,
                                    !.selected[i].failed = remains]
  /\ KeepFiles

Ids(i) == IdsOf(build.selected[i].failed) \cup {build.selected[i].seen.raw}

\* mutant: campaigns of different rounds count as independent
Independent_Rounds == build.selected[1].rounds \cap build.selected[2].rounds = {}

\* different rounds, and _validate_cross_campaign_independence()
Independent ==
  /\ build.selected[1].rounds \cap build.selected[2].rounds = {}
  /\ Ids(1) \cap Ids(2) = {}
  /\ build.selected[1].hash.receipt # build.selected[2].hash.receipt

CompareCampaigns ==
  /\ build.at = <<2, "compare">>
  /\ IF Independent THEN Proceed(1, "replay")
     ELSE Refuse(IF build.selected[1].rounds \cap build.selected[2].rounds # {}
                 THEN "overlap" ELSE "repeated")
  /\ KeepFiles

\* load_selected_knowledge_grok_campaign_reviews(): the campaign summarizes
\* and the receipt validates as they did before
Replay(i) ==
  /\ build.at = <<i, "replay">>
  /\ LET old == build.selected[i]
         now == file[old.round]
     IN IF /\ Existing(Campaign(i)) = old.rounds /\ Receipts(Campaign(i)) = {old.round}
           /\ ReceiptAccepts(now) /\ now.receipt = old.seen.receipt
           /\ \A kind \in Kind : SameText(kind, now[kind], old.hash[kind])
           /\ SameRemains(FailedNow(i), old.failed)
        THEN Proceed(i, "capture receipt") ELSE Refuse("changed")
  /\ KeepFiles

\* the bytes that count: read once, with the hashes of the summary
CaptureFile(i, label, kind, next) ==
  /\ build.at = <<i, label>>
  /\ IF SameText(kind, file[build.selected[i].round][kind], build.selected[i].hash[kind])
     THEN build' = [build EXCEPT !.at = next] ELSE Refuse("changed")
  /\ KeepFiles

\* build_knowledge_review_consensus(): ready if both rounds accept
Decide ==
  /\ build.at = <<2, "decide">>
  /\ LET runs == <<build.selected[1].seen.raw, build.selected[2].seen.raw>> IN
       build' = [at |-> <<0, "built">>, runs |-> runs,
                 ready |-> \A i \in 1..2 : answer[runs[i]] = "accept"]
  /\ KeepFiles

\* build_published_knowledge(), with the approval of a curator
Publish ==
  /\ build.at = <<0, "built">> /\ build.ready
  /\ published' = published \cup {build.runs}
  /\ UNCHANGED <<runVars, build>>

Step(x) ==
  \/ Begin(x) \/ CallFails(x) \/ CallReturns(x)
  \/ WriteRaw(x) \/ WriteReview(x) \/ OpenReceipt(x) \/ WriteReceipt(x) \/ Kill(x)

Summarize(i) ==
  \/ ListReceipts(i)
  \/ ReadFile(i, "receipt", "review") \/ ReadFile(i, "review", "raw")
  \/ ReadFile(i, "raw", "hash review")
  \/ HashFile(i, "hash review", "review", "hash raw") \/ HashFile(i, "hash raw", "raw", "hash receipt")
  \/ HashFile(i, "hash receipt", "receipt", "scan")
  \/ ScanFailures(i)

Load(i) ==
  \/ Replay(i)
  \/ CaptureFile(i, "capture receipt", "receipt", <<i, "capture review">>)
  \/ CaptureFile(i, "capture review", "review", <<i, "capture raw">>)
  \/ CaptureFile(i, "capture raw", "raw", IF i = 1 THEN <<2, "replay">> ELSE <<2, "decide">>)

Next ==
  \/ \E x \in Run : Step(x)
  \/ \E r, s \in Round : Copy(r, s)
  \/ BeginBuild \/ \E i \in 1..2 : Summarize(i) \/ Load(i)
  \/ CompareCampaigns \/ Decide \/ Publish

Spec == Init /\ [][Next]_vars

-----------------------------------------------------------------------------
(* Properties.                                                             *)

\* A consensus is the agreement of two calls: whatever runs and people write
\* into the directories while it is built, it holds the sound, completed
\* answers of two different calls, and what is published was accepted by
\* both.
ConsensusIsTwoReviews ==
  /\ build.at = <<0, "built">> =>
       build.runs[1] # build.runs[2] /\ \A i \in 1..2 : answer[build.runs[i]] \in Sound
  /\ \A pair \in published : pair[1] # pair[2] /\ \A i \in 1..2 : answer[pair[i]] = "accept"

RunsOf(c) == {x \in Run : round[x] # {} /\ round[x] \subseteq RoundsOf[c]}

\* one call after the other, each to its end, in a round of its own if it was
\* answered, answered to the end, and no more after a sound answer
Tidy(c) ==
  /\ RoundsOf[c] \cap copied = {}
  /\ \A x \in RunsOf(c) : at[x] = "ended" /\ answer[x] \notin {"cut", "anonymous"}
  /\ \A x, y \in RunsOf(c) :
       x # y /\ answer[x] # "none" /\ answer[y] # "none" =>
         round[x] # round[y] /\ ~(Valid(x) /\ Valid(y))

\* A campaign that was run tidily, failures and retries included, is never
\* refused for good: it lacks a receipt, shares rounds with the other one, or
\* changed while it was read.  The remains of failed calls do not block it.
TidyCampaignIsAccepted ==
  [][build.at[1] # 0 /\ build'.at = <<0, "refused">> /\ build'.why \notin {"missing", "overlap", "changed"}
       => \E i \in IF build.at[2] = "compare" THEN 1..2 ELSE {build.at[1]} : ~Tidy(Campaign(i))]_build
=============================================================================
