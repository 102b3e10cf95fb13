------------------------ MODULE KnowledgeReviewProofs ------------------------
(***************************************************************************)
(* A consensus is the agreement of two calls, and a campaign that was run  *)
(* tidily is never refused for good, for any runs, rounds, prefixes,       *)
(* copies and answers.                                                     *)
(*                                                                         *)
(* The argument: a round nobody copied holds only what its own runs were   *)
(* answered, and the files of a run that is alone in its round are exactly *)
(* those of where it stands (RoundInv).  What the builder read remains     *)
(* true although the files go on changing, because a run keeps its round   *)
(* and its answer (SelectionInv): the review of a selection is the answer  *)
(* of one sound call.  Two selections that are compared name different     *)
(* calls, whatever was copied, because request ids are compared too.       *)
(*                                                                         *)
(* In a tidy campaign every answered run is alone in its round and has     *)
(* ended, and at most one was valid, so each check of the builder finds    *)
(* the files of that one run; two tidy campaigns of different rounds have  *)
(* no run in common.                                                       *)
(***************************************************************************)
EXTENDS KnowledgeReview, FiniteSetTheorems, TLAPS

-----------------------------------------------------------------------------
(* The inductive invariant: runs and files. *)

Label == {"idle", "calling", "raw", "review", "valid", "receipt", "ended", "killed"}
Text == Run \cup {"none", "empty", "torn"}

RunsTypeOK ==
  /\ at \in [Run -> Label]
  /\ round \in [Run -> SUBSET Round]
  /\ answer \in [Run -> Answer \cup {"none"}]
  /\ file \in [Round -> [Kind -> Text]]
  /\ failed \subseteq Round /\ copied \subseteq Round

\* where a run stands and what it knows
RunInv ==
  \A x \in Run :
    /\ round[x] = {} \/ \E r \in Round : round[x] = {r}
    /\ round[x] = {} <=> at[x] = "idle"
    /\ at[x] \in {"idle", "calling"} => answer[x] = "none"
    /\ at[x] \in {"raw", "review", "valid", "receipt"} => answer[x] # "none"
    /\ at[x] = "review" => answer[x] \notin Unparsed
    /\ at[x] \in {"valid", "receipt"} => Valid(x)

\* x was answered and writes, or has written, into r
Holds(x, r) == round[x] = {r} /\ answer[x] # "none"
Alone(x, r) == Holds(x, r) /\ \A y \in Run : Holds(y, r) => y = x

\* what the files are that x alone has written
Progress(x, f) ==
  /\ at[x] = "raw" => f.raw = "empty" /\ f.review = "none" /\ f.receipt = "none"
  /\ at[x] = "review" => f.raw = x /\ f.review = "empty" /\ f.receipt = "none"
  /\ at[x] = "valid" => f.raw = x /\ f.review = x /\ f.receipt = "none"
  /\ at[x] = "receipt" => f.raw = x /\ f.review = x /\ f.receipt = "empty"
  /\ at[x] = "ended" =>
       /\ f.raw = x
       /\ f.review = IF answer[x] \in Unparsed THEN "none" ELSE x
       /\ f.receipt = IF Valid(x) THEN x ELSE "none"
  /\ f.receipt = x => at[x] = "ended"

\* a round that nobody copied: its files are its runs', a receipt means a valid
\* review, and without a run that was answered there is nothing
RoundInv(r) ==
  /\ \A k \in Kind : file[r][k] \in Run => Holds(file[r][k], r)
  /\ file[r].receipt # "none" => \E x \in Run : Holds(x, r) /\ Valid(x)
  /\ \A x \in Run : Alone(x, r) => Progress(x, file[r])
  /\ (\A x \in Run : ~Holds(x, r)) => file[r] = NoFiles

FilesInv == RunsTypeOK /\ RunInv /\ \A r \in Round \ copied : RoundInv(r)

-----------------------------------------------------------------------------
(* The inductive invariant: the builder. *)

\* labels of the summary of one campaign, and of loading both
Summary == {"receipt", "review", "raw", "hash review", "hash raw", "hash receipt", "scan"}
Loading == {"replay", "capture receipt", "capture review", "capture raw", "decide"}

SelectionOK(s) ==
  /\ s = [round |-> s.round, rounds |-> s.rounds, seen |-> s.seen, hash |-> s.hash, failed |-> s.failed]
  /\ s.round \in Round /\ s.rounds \subseteq Round
  /\ s.seen \in [Kind -> Text] /\ s.hash \in [Kind -> Text]

\* how many campaigns have a selection by now
Selected ==
  IF build.at[2] \in Loading \cup {"compare"} THEN 2
  ELSE IF build.at[2] = "list" THEN build.at[1] - 1 ELSE build.at[1]

BuildTypeOK ==
  IF build.at[1] = 0 THEN build.at \in {0} \X {"idle", "refused", "built"}
  ELSE /\ build = [at |-> build.at, names |-> build.names, selected |-> build.selected]
       /\ build.at \in (1 .. 2) \X ({"list", "compare"} \cup Summary \cup Loading)
       /\ build.at # <<1, "compare">>
       /\ build.selected = [i \in 1 .. Selected |-> build.selected[i]]
       /\ \A i \in 1 .. Selected : SelectionOK(build.selected[i])

\* campaign i has not got further than to one of these labels
Upto(i, labels) == build.at \in {i} \X labels
\* a run that was answered validly writes, or has written, into r
SomeRun(r) == \E x \in Run : Holds(x, r) /\ Valid(x)

\* what a selection tells, and what goes on being true after it was read
SelectionInv(i) ==
  LET s == build.selected[i] IN
  /\ s.round \in s.rounds /\ s.rounds \subseteq RoundsOf[build.names[i]]
  /\ ~Upto(i, {"receipt"}) => s.seen.receipt \in Run
  /\ ~Upto(i, {"receipt", "review"}) => s.seen.review \in Run
  /\ ~Upto(i, {"receipt", "review", "raw"}) =>
       s.seen.raw \in Run /\ s.seen.raw = s.seen.receipt /\ answer[s.seen.raw] \in Sound
  /\ s.round \notin copied =>
       /\ SomeRun(s.round)
       /\ \A k \in Kind : s.seen[k] \in Run => Holds(s.seen[k], s.round)
       /\ s.seen.receipt \in Run /\ Alone(s.seen.receipt, s.round) => at[s.seen.receipt] = "ended"
       /\ ~Upto(i, Summary \ {"scan"}) =>
            IF s.hash.receipt \in Run THEN Holds(s.hash.receipt, s.round)
            ELSE \A x \in Run : ~Alone(x, s.round)
  /\ ~Upto(i, Summary) =>
       \A r \in DOMAIN s.failed.files :
         /\ r \in s.rounds /\ r # s.round
         /\ r \notin copied /\ s.failed.files[r].raw \in Run => Holds(s.failed.files[r].raw, r)

\* two sound calls, and different ones from the comparison on
BuildInv ==
  /\ BuildTypeOK
  /\ build.at = <<0, "built">> =>
       /\ build.runs \in Run \X Run
       /\ build.runs[1] # build.runs[2] /\ \A i \in 1..2 : answer[build.runs[i]] \in Sound
       /\ build.ready => \A i \in 1..2 : answer[build.runs[i]] = "accept"
  /\ build.at[1] # 0 =>
       /\ \A i \in 1 .. Selected : SelectionInv(i)
       /\ build.at[2] \in Loading => build.selected[1].seen.raw # build.selected[2].seen.raw

PublishedInv ==
  \A pair \in published :
    pair \in Run \X Run /\ pair[1] # pair[2] /\ \A i \in 1..2 : answer[pair[i]] = "accept"

ReviewInv == FilesInv /\ BuildInv /\ PublishedInv
-----------------------------------------------------------------------------
(* The runs and the files. *)

LEMMA InitFiles == Init => FilesInv
BY ReviewAssumption DEF Init, FilesInv, RunsTypeOK, RunInv, RoundInv, Holds, Alone, Label, Text, NoFiles, Kind

\* A round whose files nobody touches, and whose runs do at most end.
LEMMA Untouched ==
  ASSUME NEW r \in Round, RoundInv(r), file'[r] = file[r],
         \A x \in Run : Holds(x, r)' <=> Holds(x, r),
         \A x \in Run : Holds(x, r) =>
           /\ answer'[x] = answer[x]
           /\ at'[x] = at[x] \/ (at'[x] = "killed" /\ at[x] # "ended")
  PROVE  RoundInv(r)'
<1>1. \A x \in Run : Valid(x) /\ Holds(x, r) => Valid(x)'
  BY DEF Valid
<1>2. \A x \in Run : Alone(x, r)' => Alone(x, r)
  BY DEF Alone
<1>3. ASSUME NEW x \in Run, Alone(x, r), Progress(x, file[r])
      PROVE  Progress(x, file[r])'
  <2>1. answer'[x] = answer[x] /\ (at'[x] = at[x] \/ (at'[x] = "killed" /\ at[x] # "ended"))
    BY <1>3 DEF Alone
  <2>2. CASE at'[x] = at[x]
    BY <1>3, <2>1, <2>2 DEF Progress, Valid
  <2>3. CASE at'[x] = "killed" /\ at[x] # "ended"
    BY <1>3, <2>3 DEF Progress
  <2> QED BY <2>1, <2>2, <2>3
<1>4. QED
  BY <1>1, <1>2, <1>3 DEF RoundInv

\* A run knows its round once it is past the start.
LEMMA OwnRound ==
  ASSUME RunInv, NEW x \in Run, at[x] # "idle"
  PROVE  \E r \in Round : round[x] = {r}
BY DEF RunInv

(* A step of a run, or a copy, keeps the invariant of the files. *)

LEMMA BeginStep ==
  ASSUME FilesInv, NEW x \in Run, Begin(x)
  PROVE  FilesInv'
<1> USE DEF FilesInv
<1>0. PICK r \in Jobs[x] : round' = [round EXCEPT ![x] = {r}] /\ Go(x, IF file[r] = NoFiles THEN "calling" ELSE "ended")
  BY DEF Begin
<1>1. r \in Round /\ at[x] = "idle" /\ UNCHANGED <<answer, file, failed, copied>>
  BY ReviewAssumption DEF Begin
<1>2. RunsTypeOK'
  BY <1>0, <1>1 DEF RunsTypeOK, Go, Label
<1>3. answer[x] = "none"
  BY <1>1 DEF RunInv
<1>4. RunInv'
  BY <1>0, <1>1, <1>3 DEF RunInv, RunsTypeOK, Go, Valid
<1>5. ASSUME NEW s \in Round \ copied' PROVE RoundInv(s)'
  <2>1. \A y \in Run : Holds(y, s)' <=> Holds(y, s)
    BY <1>0, <1>1, <1>3 DEF Holds, RunsTypeOK
  <2>2. \A y \in Run : Holds(y, s) => at'[y] = at[y]
    BY <1>0, <1>3 DEF Holds, RunsTypeOK, Go
  <2>3. QED BY <1>1, <2>1, <2>2, Untouched
<1>6. QED BY <1>2, <1>4, <1>5

LEMMA FailStep ==
  ASSUME FilesInv, NEW x \in Run, CallFails(x)
  PROVE  FilesInv'
<1> USE DEF FilesInv
<1>1. at[x] = "calling" /\ at' = [at EXCEPT ![x] = "ended"] /\ UNCHANGED <<round, answer, file, copied>>
  BY DEF CallFails, Go
<1>2. RunsTypeOK'
  BY <1>1 DEF CallFails, RunsTypeOK, Label
<1>3. answer[x] = "none"
  BY <1>1 DEF RunInv
<1>4. RunInv'
  BY <1>1, <1>3 DEF RunInv, RunsTypeOK, Valid
<1>5. ASSUME NEW s \in Round \ copied' PROVE RoundInv(s)'
  <2>1. \A y \in Run : Holds(y, s)' <=> Holds(y, s)
    BY <1>1 DEF Holds
  <2>2. \A y \in Run : Holds(y, s) => at'[y] = at[y]
    BY <1>1, <1>3 DEF Holds, RunsTypeOK
  <2>3. QED BY <1>1, <2>1, <2>2, Untouched
<1>6. QED BY <1>2, <1>4, <1>5

LEMMA KillStep ==
  ASSUME FilesInv, NEW x \in Run, Kill(x)
  PROVE  FilesInv'
<1> USE DEF FilesInv
<1>1. /\ at[x] \notin {"idle", "ended", "killed"} /\ at' = [at EXCEPT ![x] = "killed"]
      /\ UNCHANGED <<round, answer, file, failed, copied>>
  BY DEF Kill, Go
<1>2. RunsTypeOK'
  BY <1>1 DEF RunsTypeOK, Label
<1>4. RunInv'
  BY <1>1 DEF RunInv, RunsTypeOK, Valid
<1>5. ASSUME NEW s \in Round \ copied' PROVE RoundInv(s)'
  <2>1. \A y \in Run : Holds(y, s)' <=> Holds(y, s)
    BY <1>1 DEF Holds
  <2>2. \A y \in Run : at'[y] = at[y] \/ (at'[y] = "killed" /\ at[y] # "ended")
    BY <1>1 DEF RunsTypeOK
  <2>3. QED BY <1>1, <2>1, <2>2, Untouched
<1>6. QED BY <1>2, <1>4, <1>5

LEMMA CopyStep ==
  ASSUME FilesInv, NEW r \in Round, NEW t \in Round, Copy(r, t)
  PROVE  FilesInv'
<1> USE DEF FilesInv
<1>1. /\ file' = [file EXCEPT ![t] = file[r]] /\ copied' = copied \cup {t}
      /\ UNCHANGED <<at, round, answer, failed>>
  BY DEF Copy
<1>2. RunsTypeOK'
  BY <1>1 DEF RunsTypeOK
<1>4. RunInv'
  BY <1>1 DEF RunInv, Valid
<1>5. ASSUME NEW s \in Round \ copied' PROVE RoundInv(s)'
  <2>1. s # t /\ s \notin copied /\ file'[s] = file[s]
    BY <1>1 DEF RunsTypeOK
  <2>2. \A y \in Run : Holds(y, s)' <=> Holds(y, s)
    BY <1>1 DEF Holds
  <2>3. QED BY <1>1, <2>1, <2>2, Untouched
<1>6. QED BY <1>2, <1>4, <1>5

LEMMA ReturnStep ==
  ASSUME FilesInv, NEW x \in Run, CallReturns(x)
  PROVE  FilesInv'
<1> USE DEF FilesInv
<1>1. at[x] = "calling" /\ at' = [at EXCEPT ![x] = "raw"] /\ UNCHANGED <<round, failed, copied>>
  BY DEF CallReturns, Go
<1>2. PICK a \in Answer : answer' = [answer EXCEPT ![x] = a]
  BY ReviewAssumption DEF CallReturns
<1>3. PICK r \in Round : round[x] = {r} /\ file' = [file EXCEPT ![r].raw = "empty"]
  <2>1. PICK r \in Round : round[x] = {r}
    BY <1>1, OwnRound
  <2>2. file' = Truncated(r, "raw")
    BY <2>1 DEF CallReturns
  <2>3. QED BY <2>1, <2>2 DEF Truncated
<1>4. answer[x] = "none" /\ a # "none"
  BY <1>1 DEF RunInv, Answer, Sound, Unparsed
<1>5. RunsTypeOK'
  BY <1>1, <1>2, <1>3 DEF RunsTypeOK, Label, Kind, Text
<1>6. RunInv'
  BY <1>1, <1>2, <1>3, <1>4 DEF RunInv, RunsTypeOK, Valid
<1>7. ASSUME NEW s \in Round \ copied' PROVE RoundInv(s)'
  <2>1. \A y \in Run \ {x} : /\ at'[y] = at[y] /\ answer'[y] = answer[y]
                             /\ Holds(y, s)' <=> Holds(y, s)
    BY <1>1, <1>2 DEF Holds, RunsTypeOK
  <2>2. ~Holds(x, s)
    BY <1>4 DEF Holds
  <2>3. CASE s # r
    <3>1. ~Holds(x, s)'
      BY <1>1, <1>3, <2>3 DEF Holds
    <3>2. file'[s] = file[s]
      BY <1>3, <2>3 DEF RunsTypeOK
    <3>3. \A y \in Run : Holds(y, s)' <=> Holds(y, s)
      BY <2>1, <2>2, <3>1
    <3>4. \A y \in Run : Holds(y, s) => at'[y] = at[y] /\ answer'[y] = answer[y]
      BY <2>1, <2>2
    <3>5. QED BY <1>1, <3>2, <3>3, <3>4, Untouched
  <2>4. CASE s = r
    <3>1. Holds(x, s)'
      BY <1>1, <1>2, <1>3, <1>4, <2>4 DEF Holds, RunsTypeOK
    <3>2. /\ file'[s].raw = "empty" /\ file'[s].review = file[s].review /\ file'[s].receipt = file[s].receipt
      BY <1>3, <2>4 DEF RunsTypeOK, Kind
    <3>3. \A y \in Run : Holds(y, s) => y # x /\ Holds(y, s)' /\ (Valid(y) => Valid(y)')
      BY <2>1, <2>2 DEF Valid
    <3>4. (\A k \in Kind : file[s][k] \in Run => Holds(file[s][k], s))'
      <4>1. "empty" \notin Run
        BY ReviewAssumption
      <4>2. \A k \in Kind : k = "raw" \/ file'[s][k] = file[s][k]
        BY <3>2 DEF Kind
      <4>3. \A k \in Kind : file[s][k] \in Run => Holds(file[s][k], s)
        BY <1>1 DEF RoundInv
      <4>4. QED BY <3>2, <3>3, <4>1, <4>2, <4>3 DEF Holds
    <3>5. (file[s].receipt # "none" => \E y \in Run : Holds(y, s) /\ Valid(y))'
      BY <1>1, <3>2, <3>3 DEF RoundInv
    <3>6. ASSUME NEW y \in Run, Alone(y, s)' PROVE Progress(y, file[s])'
      <4>1. y = x
        BY <3>1, <3>6 DEF Alone
      <4>2. \A z \in Run : ~Holds(z, s)
        BY <3>3, <3>6, <4>1 DEF Alone
      <4>3. file[s] = NoFiles
        BY <1>1, <4>2 DEF RoundInv
      <4>4. at'[x] = "raw" /\ "none" \notin Run
        BY <1>1, ReviewAssumption DEF RunsTypeOK
      <4>5. file'[s].raw = "empty" /\ file'[s].review = "none" /\ file'[s].receipt = "none"
        BY <3>2, <4>3 DEF NoFiles, Kind
      <4>6. QED BY <4>1, <4>4, <4>5 DEF Progress
    <3>7. QED BY <3>1, <3>4, <3>5, <3>6 DEF RoundInv, Holds
  <2>5. QED BY <2>3, <2>4
<1>8. QED BY <1>5, <1>6, <1>7

\* What a run does to the files of its own round.
LEMMA OwnFiles ==
  ASSUME FilesInv, NEW x \in Run, NEW r \in Round, Holds(x, r), NEW label,
         at' = [at EXCEPT ![x] = label], UNCHANGED <<round, answer, copied>>,
         \A s \in Round \ {r} : file'[s] = file[s],
         \A k \in Kind : file'[r][k] = file[r][k] \/ file'[r][k] \in {x, "torn", "empty"},
         file'[r].receipt = file[r].receipt \/ Valid(x),
         Progress(x, file[r]) => Progress(x, file[r])',
         RunsTypeOK', RunInv'
  PROVE  FilesInv'
<1> USE DEF FilesInv
<1>1. \A y \in Run, s \in Round : /\ Holds(y, s)' <=> Holds(y, s)
                                  /\ Valid(y)' <=> Valid(y)
                                  /\ Alone(y, s)' <=> Alone(y, s)
  BY DEF Holds, Alone, Valid
<1>2. \A y \in Run \ {x} : at'[y] = at[y]
  BY DEF RunsTypeOK
<1>3. ASSUME NEW s \in Round \ copied', s # r PROVE RoundInv(s)'
  <2>1. ~Holds(x, s)
    BY <1>3 DEF Holds
  <2>2. RoundInv(s) /\ file'[s] = file[s]
    BY <1>3
  <2>3. \A y \in Run : Holds(y, s) => answer'[y] = answer[y] /\ at'[y] = at[y]
    BY <1>2, <2>1
  <2>4. \A y \in Run : Holds(y, s)' <=> Holds(y, s)
    BY <1>1
  <2>5. QED BY <2>2, <2>3, <2>4, Untouched
<1>4. ASSUME r \notin copied PROVE RoundInv(r)'
  <2>0. RoundInv(r)
    BY <1>4
  <2>1. (\A k \in Kind : file[r][k] \in Run => Holds(file[r][k], r))'
    <3>1. "torn" \notin Run /\ "empty" \notin Run
      BY ReviewAssumption
    <3>2. \A k \in Kind : file[r][k] \in Run => Holds(file[r][k], r)
      BY <2>0 DEF RoundInv
    <3>3. QED BY <3>1, <3>2 DEF Holds
  <2>2. (file[r].receipt # "none" => \E y \in Run : Holds(y, r) /\ Valid(y))'
    <3>1. CASE file'[r].receipt = file[r].receipt
      BY <1>1, <2>0, <3>1 DEF RoundInv
    <3>2. CASE Valid(x)
      BY <1>1, <3>2
    <3>3. QED BY <3>1, <3>2
  <2>3. ASSUME NEW y \in Run, Alone(y, r)' PROVE Progress(y, file[r])'
    <3>1. y = x /\ Alone(x, r)
      BY <1>1, <2>3 DEF Alone
    <3>2. Progress(x, file[r])
      BY <2>0, <3>1 DEF RoundInv
    <3>3. QED BY <3>1, <3>2
  <2>4. QED BY <1>1, <2>1, <2>2, <2>3 DEF RoundInv
<1>5. QED BY <1>3, <1>4

\* A run that writes was answered, and Written is its own text or torn.
LEMMA Writer ==
  ASSUME FilesInv, NEW x \in Run, at[x] \in {"raw", "review", "valid", "receipt"}
  PROVE  \E r \in Round : round[x] = {r} /\ Holds(x, r)
BY OwnRound DEF FilesInv, RunInv, Holds

\* A run writes its text over what is in the file.
LEMMA WriteRawStep ==
  ASSUME FilesInv, NEW x \in Run, WriteRaw(x)
  PROVE  FilesInv'
<1>1. at[x] = "raw" /\ UNCHANGED <<round, answer, failed, copied>>
  BY DEF WriteRaw
<1>2. PICK r \in Round : round[x] = {r} /\ Holds(x, r)
  BY <1>1, Writer
<1>3. PICK text \in Run \cup {"torn"} :
        /\ text \in Written(x, r, "raw")
        /\ IF answer[x] \in Unparsed
           THEN file' = [file EXCEPT ![r].raw = text] /\ Go(x, "ended")
           ELSE file' = [file EXCEPT ![r].raw = text, ![r].review = "empty"] /\ Go(x, "review")
  BY <1>2 DEF WriteRaw
<1>4. text \in {x, "torn"} /\ (file[r].raw = "empty" => text = x)
  BY <1>3 DEF Written
<1> DEFINE label == IF answer[x] \in Unparsed THEN "ended" ELSE "review"
<1>5. at' = [at EXCEPT ![x] = label]
  BY <1>3 DEF Go
<1>6. \A s \in Round \ {r} : file'[s] = file[s]
  BY <1>3 DEF FilesInv, RunsTypeOK
<1>7. /\ file'[r].raw = text /\ file'[r].receipt = file[r].receipt
      /\ file'[r].review = IF answer[x] \in Unparsed THEN file[r].review ELSE "empty"
  BY <1>3 DEF FilesInv, RunsTypeOK, Kind
<1>8. RunsTypeOK'
  BY <1>1, <1>3, <1>5 DEF FilesInv, RunsTypeOK, Kind, Text, Label
<1>9. RunInv'
  BY <1>1, <1>5 DEF FilesInv, RunsTypeOK, RunInv, Valid
<1>10. ASSUME Progress(x, file[r]) PROVE Progress(x, file[r])'
  <2>1. file[r].raw = "empty" /\ file[r].review = "none" /\ file[r].receipt = "none" /\ "none" # x
    BY <1>1, <1>10, ReviewAssumption DEF Progress
  <2>2. at'[x] = label /\ answer'[x] = answer[x]
    BY <1>1, <1>5 DEF FilesInv, RunsTypeOK
  <2>3. QED BY <1>4, <1>7, <2>1, <2>2 DEF Progress, Valid, Sound, Unparsed
<1>11. \A k \in Kind : file'[r][k] = file[r][k] \/ file'[r][k] \in {x, "torn", "empty"}
  BY <1>4, <1>7 DEF Kind
<1> HIDE DEF label
<1>12. QED BY <1>1, <1>2, <1>5, <1>6, <1>7, <1>8, <1>9, <1>10, <1>11, OwnFiles

LEMMA WriteReviewStep ==
  ASSUME FilesInv, NEW x \in Run, WriteReview(x)
  PROVE  FilesInv'
<1>1. at[x] = "review" /\ UNCHANGED <<round, answer, failed, copied>>
  BY DEF WriteReview
<1>2. PICK r \in Round : round[x] = {r} /\ Holds(x, r)
  BY <1>1, Writer
<1>3. PICK text \in Run \cup {"torn"} :
        text \in Written(x, r, "review") /\ file' = [file EXCEPT ![r].review = text]
  BY <1>2 DEF WriteReview
<1>4. text \in {x, "torn"} /\ (file[r].review = "empty" => text = x)
  BY <1>3 DEF Written
<1> DEFINE label == IF Valid(x) THEN "valid" ELSE "ended"
<1>5. at' = [at EXCEPT ![x] = label]
  BY DEF WriteReview, Go
<1>6. \A s \in Round \ {r} : file'[s] = file[s]
  BY <1>3 DEF FilesInv, RunsTypeOK
<1>7. file'[r].raw = file[r].raw /\ file'[r].review = text /\ file'[r].receipt = file[r].receipt
  BY <1>3 DEF FilesInv, RunsTypeOK, Kind
<1>8. RunsTypeOK'
  BY <1>1, <1>3, <1>5 DEF FilesInv, RunsTypeOK, Kind, Text, Label
<1>9. RunInv'
  BY <1>1, <1>5 DEF FilesInv, RunsTypeOK, RunInv, Valid
<1>10. ASSUME Progress(x, file[r]) PROVE Progress(x, file[r])'
  <2>1. file[r].raw = x /\ file[r].review = "empty" /\ file[r].receipt = "none" /\ "none" # x
    BY <1>1, <1>10, ReviewAssumption DEF Progress
  <2>2. at'[x] = label /\ answer'[x] = answer[x] /\ answer[x] \notin Unparsed
    BY <1>1, <1>5 DEF FilesInv, RunsTypeOK, RunInv
  <2>3. QED BY <1>4, <1>7, <2>1, <2>2 DEF Progress, Valid
<1>11. \A k \in Kind : file'[r][k] = file[r][k] \/ file'[r][k] \in {x, "torn", "empty"}
  BY <1>4, <1>7 DEF Kind
<1> HIDE DEF label
<1>12. QED BY <1>1, <1>2, <1>5, <1>6, <1>7, <1>8, <1>9, <1>10, <1>11, OwnFiles

LEMMA OpenReceiptStep ==
  ASSUME FilesInv, NEW x \in Run, OpenReceipt(x)
  PROVE  FilesInv'
<1>1. at[x] = "valid" /\ at' = [at EXCEPT ![x] = "receipt"] /\ UNCHANGED <<round, answer, failed, copied>>
  BY DEF OpenReceipt, Go
<1>2. PICK r \in Round : round[x] = {r} /\ Holds(x, r)
  BY <1>1, Writer
<1>3. file' = [file EXCEPT ![r].receipt = "empty"]
  BY <1>2 DEF OpenReceipt, Truncated
<1>4. \A s \in Round \ {r} : file'[s] = file[s]
  BY <1>3 DEF FilesInv, RunsTypeOK
<1>5. file'[r].raw = file[r].raw /\ file'[r].review = file[r].review /\ file'[r].receipt = "empty"
  BY <1>3 DEF FilesInv, RunsTypeOK, Kind
<1>6. RunsTypeOK'
  BY <1>1, <1>3 DEF FilesInv, RunsTypeOK, Kind, Text, Label
<1>7. RunInv'
  BY <1>1 DEF FilesInv, RunsTypeOK, RunInv, Valid
<1>8. Valid(x)
  BY <1>1 DEF FilesInv, RunInv
<1>9. ASSUME Progress(x, file[r]) PROVE Progress(x, file[r])'
  <2>1. file[r].raw = x /\ file[r].review = x /\ "empty" # x
    BY <1>1, <1>9, ReviewAssumption DEF Progress
  <2>2. at'[x] = "receipt"
    BY <1>1 DEF FilesInv, RunsTypeOK
  <2>3. QED BY <1>5, <2>1, <2>2 DEF Progress
<1>10. \A k \in Kind : file'[r][k] = file[r][k] \/ file'[r][k] \in {x, "torn", "empty"}
  BY <1>5 DEF Kind
<1>11. QED BY <1>1, <1>2, <1>4, <1>6, <1>7, <1>8, <1>9, <1>10, OwnFiles

LEMMA WriteReceiptStep ==
  ASSUME FilesInv, NEW x \in Run, WriteReceipt(x)
  PROVE  FilesInv'
<1>1. at[x] = "receipt" /\ at' = [at EXCEPT ![x] = "ended"] /\ UNCHANGED <<round, answer, failed, copied>>
  BY DEF WriteReceipt, Go
<1>2. PICK r \in Round : round[x] = {r} /\ Holds(x, r)
  BY <1>1, Writer
<1>3. PICK text \in Run \cup {"torn"} :
        text \in Written(x, r, "receipt") /\ file' = [file EXCEPT ![r].receipt = text]
  BY <1>2 DEF WriteReceipt
<1>4. text \in {x, "torn"} /\ (file[r].receipt = "empty" => text = x)
  BY <1>3 DEF Written
<1>5. \A s \in Round \ {r} : file'[s] = file[s]
  BY <1>3 DEF FilesInv, RunsTypeOK
<1>6. file'[r].raw = file[r].raw /\ file'[r].review = file[r].review /\ file'[r].receipt = text
  BY <1>3 DEF FilesInv, RunsTypeOK, Kind
<1>7. RunsTypeOK'
  BY <1>1, <1>3 DEF FilesInv, RunsTypeOK, Kind, Text, Label
<1>8. RunInv'
  BY <1>1 DEF FilesInv, RunsTypeOK, RunInv, Valid
<1>9. Valid(x)
  BY <1>1 DEF FilesInv, RunInv
<1>10. ASSUME Progress(x, file[r]) PROVE Progress(x, file[r])'
  <2>1. file[r].raw = x /\ file[r].review = x /\ file[r].receipt = "empty"
    BY <1>1, <1>10 DEF Progress
  <2>2. at'[x] = "ended" /\ answer'[x] = answer[x]
    BY <1>1 DEF FilesInv, RunsTypeOK
  <2>3. QED BY <1>4, <1>6, <1>9, <2>1, <2>2 DEF Progress, Valid, Sound, Unparsed
<1>11. \A k \in Kind : file'[r][k] = file[r][k] \/ file'[r][k] \in {x, "torn", "empty"}
  BY <1>4, <1>6 DEF Kind
<1>12. QED BY <1>1, <1>2, <1>5, <1>7, <1>8, <1>9, <1>10, <1>11, OwnFiles

RunsNext == (\E x \in Run : Step(x)) \/ (\E r, s \in Round : Copy(r, s))

\* Every step of the tool and of people keeps the invariant of the files.
LEMMA FilesStep ==
  ASSUME FilesInv, RunsNext \/ UNCHANGED runVars
  PROVE  FilesInv'
<1>1. CASE UNCHANGED runVars
  <2>1. UNCHANGED <<at, round, answer, file, failed, copied>>
    BY <1>1 DEF runVars
  <2>2. RunsTypeOK' /\ RunInv'
    BY <2>1 DEF FilesInv, RunsTypeOK, RunInv, Valid
  <2>3. \A r \in Round \ copied : RoundInv(r)'
    BY <2>1, Untouched DEF FilesInv, Holds
  <2>4. QED BY <2>1, <2>2, <2>3 DEF FilesInv
<1>2. CASE \E r, s \in Round : Copy(r, s)
  BY <1>2, CopyStep
<1>3. ASSUME NEW x \in Run, Step(x) PROVE FilesInv'
  BY <1>3, BeginStep, FailStep, ReturnStep, WriteRawStep, WriteReviewStep, OpenReceiptStep,
     WriteReceiptStep, KillStep DEF Step
<1>4. QED BY <1>1, <1>2, <1>3 DEF RunsNext

\* What was answered stays as it is, and ends are final.
Lasting ==
  /\ \A x \in Run : answer[x] # "none" =>
       /\ answer'[x] = answer[x] /\ round'[x] = round[x]
       /\ at[x] = "ended" => at'[x] = "ended"
  /\ copied \subseteq copied'

\* No step of the tool or of people takes back an answer or an end.
LEMMA RunsLast ==
  ASSUME FilesInv, RunsNext \/ UNCHANGED runVars
  PROVE  Lasting
<1>1. CASE UNCHANGED runVars
  BY <1>1 DEF runVars, Lasting
<1>2. CASE \E r, s \in Round : Copy(r, s)
  BY <1>2 DEF Copy, Lasting
<1>3. ASSUME NEW x \in Run, Step(x) PROVE Lasting
  BY <1>3 DEF Step, Begin, CallFails, CallReturns, WriteRaw, WriteReview, OpenReceipt, WriteReceipt,
     Kill, Go, Lasting, FilesInv, RunsTypeOK, RunInv
<1>4. QED BY <1>1, <1>2, <1>3 DEF RunsNext

-----------------------------------------------------------------------------
(* The builder, while runs go on. *)

\* What a selection tells of the runs stays true.
LEMMA SelectionLasts ==
  ASSUME Lasting, UNCHANGED build, NEW i, SelectionInv(i)
  PROVE  SelectionInv(i)'
<1> DEFINE s == build.selected[i]
<1>1. /\ \A x \in Run : \A r : Holds(x, r) => Holds(x, r)' /\ (Valid(x) => Valid(x)')
      /\ \A x \in Run : answer[x] \in Sound => answer'[x] \in Sound
  BY DEF Lasting, Holds, Valid, Sound
<1>2. \A x \in Run : \A r : Alone(x, r)' /\ Holds(x, r) => Alone(x, r)
  BY <1>1 DEF Alone
<1>3. \A l : Upto(i, l)' <=> Upto(i, l)
  BY DEF Upto
<1>4. ASSUME s.round \notin copied'
      PROVE  /\ SomeRun(s.round)'
             /\ \A k \in Kind : s.seen[k] \in Run => Holds(s.seen[k], s.round)'
             /\ s.seen.receipt \in Run /\ Alone(s.seen.receipt, s.round)' => at'[s.seen.receipt] = "ended"
             /\ ~Upto(i, Summary \ {"scan"}) =>
                  IF s.hash.receipt \in Run THEN Holds(s.hash.receipt, s.round)'
                  ELSE \A x \in Run : ~Alone(x, s.round)'
  <2>1. s.round \notin copied
    BY <1>4 DEF Lasting
  <2>2. /\ SomeRun(s.round)
        /\ \A k \in Kind : s.seen[k] \in Run => Holds(s.seen[k], s.round)
        /\ s.seen.receipt \in Run /\ Alone(s.seen.receipt, s.round) => at[s.seen.receipt] = "ended"
        /\ ~Upto(i, Summary \ {"scan"}) =>
             IF s.hash.receipt \in Run THEN Holds(s.hash.receipt, s.round)
             ELSE \A x \in Run : ~Alone(x, s.round)
    BY <2>1 DEF SelectionInv
  <2> HIDE DEF s
  <2>3. SomeRun(s.round)'
    BY <1>1, <2>2 DEF SomeRun, s
  <2>4. s.seen.receipt \in Run => Holds(s.seen.receipt, s.round)
    BY <2>2 DEF Kind
  <2>5. s.seen.receipt \in Run /\ Alone(s.seen.receipt, s.round)' => at'[s.seen.receipt] = "ended"
    <3>1. SUFFICES ASSUME s.seen.receipt \in Run, Alone(s.seen.receipt, s.round)'
                   PROVE  at'[s.seen.receipt] = "ended"
      BY DEF s
    <3>2. at[s.seen.receipt] = "ended"
      BY <1>2, <2>2, <2>4, <3>1 DEF s
    <3>3. QED BY <2>4, <3>1, <3>2 DEF Lasting, Holds
  <2>6. ASSUME NEW x \in Run, Alone(x, s.round)' PROVE Alone(x, s.round)
    <3>1. PICK y \in Run : Holds(y, s.round)
      BY <2>2 DEF SomeRun
    <3>2. y = x
      BY <1>1, <2>6, <3>1 DEF Alone, s
    <3>3. QED BY <1>2, <2>6, <3>1, <3>2 DEF s
  <2>7. QED BY <1>1, <2>2, <2>3, <2>5, <2>6 DEF s
<1>5. QED BY <1>1, <1>3, <1>4 DEF SelectionInv, Lasting

\* What the builder knows stays true while runs go on.
LEMMA BuildLasts ==
  ASSUME Lasting, UNCHANGED <<build, published>>, BuildInv, PublishedInv
  PROVE  BuildInv' /\ PublishedInv'
<1>1. \A x \in Run : /\ answer[x] \in Sound => answer'[x] \in Sound
                     /\ answer[x] = "accept" => answer'[x] = "accept"
  BY DEF Lasting, Sound
<1>2. Selected' = Selected /\ BuildTypeOK'
  BY DEF BuildInv, Selected, BuildTypeOK, SelectionOK
<1>3. ASSUME build.at[1] # 0 PROVE \A i \in 1 .. Selected' : SelectionInv(i)'
  BY <1>2, <1>3, SelectionLasts DEF BuildInv
<1>4. BuildInv'
  BY <1>1, <1>2, <1>3 DEF BuildInv
<1>5. PublishedInv'
  BY <1>1 DEF PublishedInv
<1>6. QED BY <1>4, <1>5

\* A sequence of selections is extended by one.
LEMMA AppendOne ==
  ASSUME NEW n \in Nat, NEW s, s = [j \in 1 .. n |-> s[j]], NEW e
  PROVE  /\ Append(s, e) = [j \in 1 .. n + 1 |-> Append(s, e)[j]]
         /\ Append(s, e)[n + 1] = e
         /\ \A j \in 1 .. n : Append(s, e)[j] = s[j]
<1> DEFINE T == {s[j] : j \in 1 .. n} \cup {e}
<1>1. s \in Seq(T) /\ Len(s) = n
  <2>1. s \in [1 .. n -> T]
    OBVIOUS
  <2>2. QED BY <2>1
<1>2. e \in T
  OBVIOUS
<1> HIDE DEF T
<1>3. Append(s, e) \in Seq(T) /\ Len(Append(s, e)) = n + 1
  BY <1>1, <1>2
<1>4. QED BY <1>1, <1>2, <1>3

\* the builder only reads
Still == UNCHANGED <<at, round, answer, file, failed, copied, published>>

\* A refusal keeps the invariant of the builder.
LEMMA Refused ==
  ASSUME Still, NEW why, Refuse(why)
  PROVE  BuildInv'
<1>1. build'.at = <<0, "refused">>
  BY DEF Refuse
<1>2. QED BY <1>1 DEF BuildInv, BuildTypeOK

\* A selection that is not in hand stays what it is.
LEMMA SelectionStays ==
  ASSUME Still, NEW i, SelectionInv(i),
         build'.selected[i] = build.selected[i], build'.names = build.names,
         \A label \in Summary : build.at # <<i, label>>
  PROVE  SelectionInv(i)'
<1> DEFINE s == build.selected[i]
<1>1. /\ ~Upto(i, {"receipt"}) /\ ~Upto(i, {"receipt", "review"}) /\ ~Upto(i, {"receipt", "review", "raw"})
      /\ ~Upto(i, Summary) /\ ~Upto(i, Summary \ {"scan"})
  <2>1. ASSUME NEW labels \in SUBSET Summary, Upto(i, labels) PROVE FALSE
    <3>1. PICK l \in labels : build.at = <<i, l>>
      BY <2>1 DEF Upto
    <3>2. QED BY <3>1
  <2>2. /\ {"receipt"} \in SUBSET Summary /\ {"receipt", "review"} \in SUBSET Summary
        /\ {"receipt", "review", "raw"} \in SUBSET Summary /\ Summary \in SUBSET Summary
        /\ Summary \ {"scan"} \in SUBSET Summary
    BY DEF Summary
  <2>3. QED BY <2>1, <2>2
<1>2. /\ \A x \in Run : \A r : (Holds(x, r)' <=> Holds(x, r)) /\ (Alone(x, r)' <=> Alone(x, r))
      /\ \A r : SomeRun(r)' <=> SomeRun(r)
  BY DEF Holds, Alone, SomeRun, Valid, Still
<1>3. QED
  BY <1>1, <1>2 DEF SelectionInv, Still

\* what is known of the selection in hand
LEMMA InHand ==
  ASSUME BuildInv, NEW i \in 1..2, NEW l \in Summary, build.at = <<i, l>>
  PROVE  /\ build = [at |-> build.at, names |-> build.names, selected |-> build.selected]
         /\ build.selected = [j \in 1 .. i |-> build.selected[j]]
         /\ \A j \in 1 .. i : SelectionOK(build.selected[j]) /\ SelectionInv(j)
<1>1. build.at[1] = i /\ build.at[2] = l /\ i # 0
  OBVIOUS
<1>2. l \notin Loading \cup {"compare", "list"}
  BY DEF Summary, Loading
<1>3. Selected = i
  BY <1>1, <1>2 DEF Selected
<1>4. /\ build = [at |-> build.at, names |-> build.names, selected |-> build.selected]
      /\ build.selected = [j \in 1 .. Selected |-> build.selected[j]]
      /\ \A j \in 1 .. Selected : SelectionOK(build.selected[j]) /\ SelectionInv(j)
  BY <1>1 DEF BuildInv, BuildTypeOK
<1>5. QED BY <1>3, <1>4

\* One selection of a sequence is replaced.
LEMMA Replaced ==
  ASSUME NEW n, NEW s, s = [j \in 1 .. n |-> s[j]], NEW i \in 1 .. n, NEW t,
         NEW new, new = [s EXCEPT ![i] = t]
  PROVE  /\ new[i] = t /\ new = [j \in 1 .. n |-> new[j]]
         /\ \A j \in 1 .. n : j # i => new[j] = s[j]
<1>1. new = [j \in 1 .. n |-> IF j = i THEN t ELSE s[j]]
  OBVIOUS
<1>2. QED BY <1>1

\* The selection in hand is replaced.
LEMMA Updated ==
  ASSUME BuildInv, Still, NEW i \in 1..2, NEW l \in Summary, build.at = <<i, l>>,
         NEW a, NEW t, SelectionOK(t), NEW new, new = [build.selected EXCEPT ![i] = t],
         build' = [at |-> a, names |-> build.names, selected |-> new],
         a \in {i} \X Summary \/ a = <<2, IF i = 1 THEN "list" ELSE "compare">>,
         build'.selected[i] = t /\ build'.names = build.names /\ build'.at = a => SelectionInv(i)'
  PROVE  BuildInv'
<1>1. /\ build = [at |-> build.at, names |-> build.names, selected |-> build.selected]
      /\ build.selected = [j \in 1 .. i |-> build.selected[j]]
      /\ \A j \in 1 .. i : SelectionOK(build.selected[j]) /\ SelectionInv(j)
  BY InHand
<1>2. /\ build'.at = a /\ build'.names = build.names /\ build'.selected[i] = t
      /\ \A j \in 1 .. i : j # i => build'.selected[j] = build.selected[j]
      /\ build' = [at |-> build'.at, names |-> build'.names, selected |-> build'.selected]
      /\ build'.selected = [j \in 1 .. i |-> build'.selected[j]]
  <2>1. i \in 1 .. i
    OBVIOUS
  <2>2. /\ new[i] = t /\ new = [j \in 1 .. i |-> new[j]]
        /\ \A j \in 1 .. i : j # i => new[j] = build.selected[j]
    BY <1>1, <2>1, Replaced
  <2>3. QED BY <2>2
<1>0. "list" \notin Summary \cup Loading /\ "compare" \notin Summary \cup Loading
  BY DEF Summary, Loading
<1>3. /\ build'.at[1] \in 1..2 /\ build'.at[2] \in Summary \cup {"list", "compare"}
      /\ build'.at \in (1 .. 2) \X ({"list", "compare"} \cup Summary \cup Loading)
      /\ build'.at # <<1, "compare">>
      /\ build'.at[2] = "list" => build'.at[1] = 2 /\ i = 1
      /\ build'.at[2] = "compare" => i = 2
      /\ build'.at[2] \in Summary => build'.at[1] = i
  <2>1. CASE a \in {i} \X Summary
    <3>1. PICK m \in Summary : a = <<i, m>>
      BY <2>1
    <3>2. QED BY <1>2, <3>1 DEF Summary
  <2>2. CASE a = <<2, IF i = 1 THEN "list" ELSE "compare">>
    <3>1. CASE i = 1
      <4>1. build'.at = <<2, "list">>
        BY <1>2, <2>2, <3>1
      <4>2. build'.at[1] = 2 /\ build'.at[2] = "list"
        BY <4>1
      <4>3. build'.at \in (1 .. 2) \X ({"list", "compare"} \cup Summary \cup Loading)
        BY <4>1
      <4>4. QED BY <1>0, <3>1, <4>1, <4>2, <4>3
    <3>2. CASE i = 2
      <4>1. build'.at = <<2, "compare">>
        BY <1>2, <2>2, <3>2
      <4>2. build'.at[1] = 2 /\ build'.at[2] = "compare"
        BY <4>1
      <4>3. build'.at \in (1 .. 2) \X ({"list", "compare"} \cup Summary \cup Loading)
        BY <4>1
      <4>4. QED BY <1>0, <3>2, <4>1, <4>2, <4>3
    <3>3. QED BY <3>1, <3>2
  <2>3. QED BY <2>1, <2>2
<1>9. build'.at[2] \notin Loading /\ Selected' = i
  <2>1. build'.at[2] \notin Loading
    BY <1>3 DEF Summary, Loading
  <2>2. CASE build'.at[2] = "list"
    BY <1>3, <2>1, <2>2 DEF Selected
  <2>3. CASE build'.at[2] = "compare"
    BY <1>3, <2>1, <2>3 DEF Selected
  <2>4. CASE build'.at[2] \in Summary
    BY <1>3, <2>1, <2>4 DEF Selected, Summary
  <2>5. QED BY <1>3, <2>1, <2>2, <2>3, <2>4
<1>4. BuildTypeOK'
  <2>1. \A j \in 1 .. i : SelectionOK(build'.selected[j])
    BY <1>1, <1>2
  <2>2. QED BY <1>2, <1>3, <1>9, <2>1 DEF BuildTypeOK, SelectionOK
<1>5. ASSUME NEW j \in 1 .. i PROVE SelectionInv(j)'
  <2>1. CASE j = i
    BY <1>2, <2>1
  <2>2. CASE j # i
    <3>1. \A label \in Summary : build.at # <<j, label>>
      BY <2>2
    <3>2. build'.selected[j] = build.selected[j]
      BY <1>2, <2>2
    <3>3. QED BY <1>1, <1>2, <3>1, <3>2, SelectionStays
  <2>3. QED BY <2>1, <2>2
<1>6. build'.at # <<0, "built">>
  BY <1>3
<1>8. QED BY <1>3, <1>4, <1>5, <1>6, <1>9 DEF BuildInv

\* what a selection knows of the files that are read of it, before label m
Knows(r, seen, hash, m) ==
  /\ m # "receipt" => seen.receipt \in Run
  /\ m \notin {"receipt", "review"} => seen.review \in Run
  /\ m \notin {"receipt", "review", "raw"} =>
       seen.raw \in Run /\ seen.raw = seen.receipt /\ answer[seen.raw] \in Sound
  /\ r \notin copied =>
       /\ SomeRun(r)
       /\ \A k \in Kind : seen[k] \in Run => Holds(seen[k], r)
       /\ seen.receipt \in Run /\ Alone(seen.receipt, r) => at[seen.receipt] = "ended"
       /\ m = "scan" => IF hash.receipt \in Run THEN Holds(hash.receipt, r)
                        ELSE \A x \in Run : ~Alone(x, r)

\* The summary reads on, of one selection.
LEMMA SummaryStep ==
  ASSUME BuildInv, Still, NEW i \in 1..2, NEW l \in Summary, build.at = <<i, l>>,
         NEW m \in Summary, NEW s, s = build.selected[i],
         NEW seen \in [Kind -> Text], NEW hash \in [Kind -> Text], NEW t,
         t = [round |-> s.round, rounds |-> s.rounds, seen |-> seen, hash |-> hash, failed |-> s.failed],
         build' = [at |-> <<i, m>>, names |-> build.names,
                   selected |-> [build.selected EXCEPT ![i] = t]],
         Knows(s.round, seen, hash, m)
  PROVE  BuildInv'
<1>1. i \in 1 .. i
  OBVIOUS
<1>2. SelectionOK(s) /\ SelectionInv(i)
  BY <1>1, InHand
<1>3. /\ t.round = s.round /\ t.rounds = s.rounds /\ t.seen = seen /\ t.hash = hash
      /\ t.failed = s.failed
  OBVIOUS
<1>4. SelectionOK(t)
  BY <1>2, <1>3 DEF SelectionOK
<1>5. ASSUME build'.selected[i] = t, build'.names = build.names, build'.at = <<i, m>>
      PROVE  SelectionInv(i)'
  <2>1. s.round \in s.rounds /\ s.rounds \subseteq RoundsOf[build.names[i]]
    BY <1>2 DEF SelectionInv
  <2>2. \A labels : Upto(i, labels)' <=> m \in labels
    BY <1>5 DEF Upto
  <2>3. /\ ~Upto(i, {"receipt"})' => m # "receipt"
        /\ ~Upto(i, {"receipt", "review"})' => m \notin {"receipt", "review"}
        /\ ~Upto(i, {"receipt", "review", "raw"})' => m \notin {"receipt", "review", "raw"}
        /\ Upto(i, Summary)'
        /\ ~Upto(i, Summary \ {"scan"})' => m = "scan"
    BY <2>2
  <2>4. /\ \A x \in Run : \A r : (Holds(x, r)' <=> Holds(x, r)) /\ (Alone(x, r)' <=> Alone(x, r))
        /\ \A r : SomeRun(r)' <=> SomeRun(r)
    BY DEF Holds, Alone, SomeRun, Valid, Still
  <2>5. \A k \in Kind : seen[k] \in Run /\ s.round \notin copied => Holds(seen[k], s.round)'
    BY <2>4 DEF Knows
  <2>6. s.round \notin copied =>
          /\ SomeRun(s.round)'
          /\ seen.receipt \in Run /\ Alone(seen.receipt, s.round)' => at'[seen.receipt] = "ended"
          /\ m = "scan" => IF hash.receipt \in Run THEN Holds(hash.receipt, s.round)'
                           ELSE \A x \in Run : ~Alone(x, s.round)'
    BY <2>4 DEF Knows, Still
  <2>7. QED BY <1>3, <1>5, <2>1, <2>3, <2>5, <2>6 DEF SelectionInv, Knows, Still
<1>6. QED BY <1>4, <1>5, Updated

\* what the invariant says of the selection in hand
LEMMA KnownSoFar ==
  ASSUME BuildInv, NEW i \in 1..2, NEW l \in Summary, build.at = <<i, l>>,
         NEW s, s = build.selected[i]
  PROVE  /\ SelectionOK(s) /\ Knows(s.round, s.seen, s.hash, l)
         /\ s.round \in s.rounds /\ s.rounds \subseteq RoundsOf[build.names[i]]
         /\ build = [at |-> build.at, names |-> build.names, selected |-> build.selected]
         /\ build.selected = [j \in 1 .. i |-> build.selected[j]]
<1>1. i \in 1 .. i
  OBVIOUS
<1>2. /\ SelectionOK(s) /\ SelectionInv(i)
      /\ build = [at |-> build.at, names |-> build.names, selected |-> build.selected]
      /\ build.selected = [j \in 1 .. i |-> build.selected[j]]
  BY <1>1, InHand
<1>3. \A labels : Upto(i, labels) <=> l \in labels
  BY DEF Upto
<1>4. /\ l # "receipt" => ~Upto(i, {"receipt"})
      /\ l \notin {"receipt", "review"} => ~Upto(i, {"receipt", "review"})
      /\ l \notin {"receipt", "review", "raw"} => ~Upto(i, {"receipt", "review", "raw"})
      /\ l = "scan" => ~Upto(i, Summary \ {"scan"})
  BY <1>3
<1>5. QED BY <1>2, <1>4 DEF SelectionInv, Knows

\* A field of a selection is replaced.
LEMMA Fields ==
  ASSUME NEW s, SelectionOK(s), NEW v
  PROVE  /\ [s EXCEPT !.seen = v] =
              [round |-> s.round, rounds |-> s.rounds, seen |-> v, hash |-> s.hash, failed |-> s.failed]
         /\ [s EXCEPT !.hash = v] =
              [round |-> s.round, rounds |-> s.rounds, seen |-> s.seen, hash |-> v, failed |-> s.failed]
         /\ [s EXCEPT !.failed = v] =
              [round |-> s.round, rounds |-> s.rounds, seen |-> s.seen, hash |-> s.hash, failed |-> v]
<1>1. s = [round |-> s.round, rounds |-> s.rounds, seen |-> s.seen, hash |-> s.hash, failed |-> s.failed]
  BY DEF SelectionOK
<1>2. QED BY <1>1

\* A file is read: its text is its round's.
LEMMA ReadStep ==
  ASSUME FilesInv, BuildInv, Still, NEW i \in 1..2, NEW kind, NEW next,
         \/ kind = "receipt" /\ next = "review"
         \/ kind = "review" /\ next = "raw"
         \/ kind = "raw" /\ next = "hash review",
         ReadFile(i, kind, next)
  PROVE  BuildInv'
<1> DEFINE s == build.selected[i]
           text == file[s.round][kind]
           seen == [s.seen EXCEPT ![kind] = text]
<1>0. build.at = <<i, kind>> /\ kind \in Summary /\ next \in Summary /\ kind \in Kind
  BY DEF ReadFile, Summary, Kind
<1>1. /\ SelectionOK(s) /\ Knows(s.round, s.seen, s.hash, kind)
      /\ build = [at |-> build.at, names |-> build.names, selected |-> build.selected]
      /\ build.selected = [j \in 1 .. i |-> build.selected[j]]
  <2> HIDE DEF s
  <2>1. s = build.selected[i]
    BY DEF s
  <2>2. QED BY <1>0, <2>1, KnownSoFar
<1>2. CASE ~(text \in Run /\ (kind = "raw" => ReceiptAccepts(seen)))
  <2>1. Refuse("unreadable")
    BY <1>2 DEF ReadFile, IsJson
  <2>2. QED BY <2>1, Refused
<1>3. CASE text \in Run /\ (kind = "raw" => ReceiptAccepts(seen))
  <2>1. build' = [build EXCEPT !.at = <<i, next>>, !.selected[i].seen = seen]
    BY <1>3 DEF ReadFile, IsJson
  <2>2. s = [round |-> s.round, rounds |-> s.rounds, seen |-> s.seen, hash |-> s.hash, failed |-> s.failed]
        /\ s.seen \in [Kind -> Text] /\ s.hash \in [Kind -> Text] /\ s.round \in Round
    BY <1>1 DEF SelectionOK
  <2> DEFINE t == [round |-> s.round, rounds |-> s.rounds, seen |-> seen, hash |-> s.hash, failed |-> s.failed]
  <2>3. [s EXCEPT !.seen = seen] = t
    <3> HIDE DEF seen, s
    <3>1. QED BY <1>1, Fields
  <2>4. build' = [at |-> <<i, next>>, names |-> build.names,
                  selected |-> [build.selected EXCEPT ![i] = t]]
    <3> HIDE DEF seen, t
    <3>1. build' = [at |-> <<i, next>>, names |-> build.names,
                    selected |-> [build.selected EXCEPT ![i] = [s EXCEPT !.seen = seen]]]
      BY <1>1, <2>1
    <3>2. QED BY <2>3, <3>1
  <2>5. seen \in [Kind -> Text] /\ seen[kind] = text /\ \A k \in Kind \ {kind} : seen[k] = s.seen[k]
    BY <1>0, <1>3, <2>2 DEF Text
  <2>6. Knows(s.round, seen, s.hash, next)
    <3>1. ASSUME s.round \notin copied
          PROVE  Holds(text, s.round)
                 /\ (kind = "receipt" /\ Alone(text, s.round) => at[text] = "ended")
      <4>1. RoundInv(s.round)
        BY <2>2, <3>1 DEF FilesInv
      <4>2. QED BY <1>0, <1>3, <4>1 DEF RoundInv, Progress
    <3> HIDE DEF seen, text, s
    <3>2. CASE kind = "receipt"
      <4>1. next = "review" /\ seen.receipt = text
        BY <2>5, <3>2
      <4>2. QED BY <1>1, <1>3, <2>5, <3>1, <3>2, <4>1 DEF Knows
    <3>3. CASE kind = "review"
      <4>1. next = "raw" /\ seen.review = text /\ seen.receipt = s.seen.receipt
        BY <2>5, <3>3 DEF Kind
      <4>2. QED BY <1>1, <1>3, <2>5, <3>1, <3>3, <4>1 DEF Knows
    <3>4. CASE kind = "raw"
      <4>1. /\ next = "hash review" /\ seen.raw = text /\ seen.receipt = s.seen.receipt
            /\ seen.review = s.seen.review
        BY <2>5, <3>4 DEF Kind
      <4>2. seen.raw = seen.receipt /\ answer[seen.raw] \in Sound
        BY <1>3, <3>4, <4>1 DEF ReceiptAccepts
      <4>3. QED BY <1>1, <1>3, <2>5, <3>1, <3>4, <4>1, <4>2 DEF Knows
    <3>5. QED BY <3>2, <3>3, <3>4
  <2> HIDE DEF seen, t, s
  <2>7. /\ s = build.selected[i]
        /\ t = [round |-> s.round, rounds |-> s.rounds, seen |-> seen, hash |-> s.hash, failed |-> s.failed]
    BY DEF s, t
  <2>8. QED BY <1>0, <2>2, <2>4, <2>5, <2>6, <2>7, SummaryStep
<1>4. QED BY <1>2, <1>3

\* A file is read again for its hash.
LEMMA HashStep ==
  ASSUME FilesInv, BuildInv, Still, NEW i \in 1..2, NEW label, NEW kind, NEW next,
         \/ label = "hash review" /\ kind = "review" /\ next = "hash raw"
         \/ label = "hash raw" /\ kind = "raw" /\ next = "hash receipt"
         \/ label = "hash receipt" /\ kind = "receipt" /\ next = "scan",
         HashFile(i, label, kind, next)
  PROVE  BuildInv'
<1> DEFINE s == build.selected[i]
           text == file[s.round][kind]
           hash == [s.hash EXCEPT ![kind] = text]
           t == [round |-> s.round, rounds |-> s.rounds, seen |-> s.seen, hash |-> hash, failed |-> s.failed]
<1>0. /\ build.at = <<i, label>> /\ label \in Summary /\ next \in Summary /\ kind \in Kind
      /\ label \notin {"receipt", "review", "raw"}
  BY DEF HashFile, Summary, Kind
<1>1. /\ SelectionOK(s) /\ Knows(s.round, s.seen, s.hash, label)
      /\ build = [at |-> build.at, names |-> build.names, selected |-> build.selected]
      /\ build.selected = [j \in 1 .. i |-> build.selected[j]]
  <2> HIDE DEF s
  <2>1. s = build.selected[i]
    BY DEF s
  <2>2. QED BY <1>0, <2>1, KnownSoFar
<1>2. build' = [build EXCEPT !.at = <<i, next>>, !.selected[i].hash[kind] = text]
  BY DEF HashFile
<1>3. s.seen \in [Kind -> Text] /\ s.hash \in [Kind -> Text] /\ s.round \in Round
  BY <1>1 DEF SelectionOK
<1>4. build' = [at |-> <<i, next>>, names |-> build.names,
                selected |-> [build.selected EXCEPT ![i] = t]]
  <2>1. build' = [at |-> <<i, next>>, names |-> build.names,
                  selected |-> [build.selected EXCEPT ![i] = [s EXCEPT !.hash = hash]]]
    BY <1>1, <1>2
  <2> HIDE DEF hash, s
  <2>2. [s EXCEPT !.hash = hash] = t
    BY <1>1, Fields
  <2>3. QED BY <2>1, <2>2
<1>5. text \in Text /\ hash \in [Kind -> Text] /\ hash[kind] = text
  BY <1>0, <1>3 DEF FilesInv, RunsTypeOK
<1>6. Knows(s.round, s.seen, hash, next)
  <2> HIDE DEF s, hash, text, t
  <2>1. ASSUME s.round \notin copied, label = "hash receipt"
        PROVE  IF text \in Run THEN Holds(text, s.round) ELSE \A x \in Run : ~Alone(x, s.round)
    <3>1. RoundInv(s.round)
      BY <1>3, <2>1 DEF FilesInv
    <3>2. kind = "receipt" /\ text = file[s.round].receipt
      BY <2>1 DEF text
    <3>3. CASE text \in Run
      BY <3>1, <3>2, <3>3 DEF RoundInv, Kind
    <3>4. CASE text \notin Run
      <4>1. SUFFICES ASSUME NEW x \in Run, Alone(x, s.round) PROVE FALSE
        BY <3>4
      <4>2. s.seen.receipt = x /\ answer[x] \in Sound
        BY <1>0, <1>1, <2>1, <4>1 DEF Knows, Alone, Kind
      <4>3. at[x] = "ended"
        BY <1>1, <2>1, <4>1, <4>2 DEF Knows
      <4>4. Progress(x, file[s.round]) /\ Valid(x)
        BY <3>1, <4>1, <4>2 DEF RoundInv, Valid
      <4>5. QED BY <3>2, <3>4, <4>3, <4>4 DEF Progress
    <3>5. QED BY <3>3, <3>4
  <2>2. next = "scan" => label = "hash receipt" /\ kind = "receipt"
    OBVIOUS
  <2>3. next \notin {"receipt", "review", "raw"}
    OBVIOUS
  <2>4. QED BY <1>0, <1>1, <1>5, <2>1, <2>2, <2>3 DEF Knows
<1> HIDE DEF s, t, hash
<1>7. /\ s = build.selected[i]
      /\ t = [round |-> s.round, rounds |-> s.rounds, seen |-> s.seen, hash |-> hash, failed |-> s.failed]
  BY DEF s, t
<1>8. QED BY <1>0, <1>3, <1>4, <1>5, <1>6, <1>7, SummaryStep

\* The remains of failures are scanned.
LEMMA ScanStep ==
  ASSUME FilesInv, BuildInv, Still, NEW i \in 1..2, ScanFailures(i)
  PROVE  BuildInv'
<1> DEFINE s == build.selected[i]
           remains == FailedNow(i)
           t == [round |-> s.round, rounds |-> s.rounds, seen |-> s.seen, hash |-> s.hash, failed |-> remains]
           a == <<2, IF i = 1 THEN "list" ELSE "compare">>
<1>0. build.at = <<i, "scan">> /\ "scan" \in Summary
  BY DEF ScanFailures, Summary
<1>1. /\ SelectionOK(s) /\ Knows(s.round, s.seen, s.hash, "scan")
      /\ s.round \in s.rounds /\ s.rounds \subseteq RoundsOf[build.names[i]]
      /\ build = [at |-> build.at, names |-> build.names, selected |-> build.selected]
      /\ build.selected = [j \in 1 .. i |-> build.selected[j]]
  <2> HIDE DEF s
  <2>1. s = build.selected[i]
    BY DEF s
  <2>2. QED BY <1>0, <2>1, KnownSoFar
<1>2. CASE (\E why : Refuse(why))
  BY <1>2, Refused
<1>3. CASE build' = [build EXCEPT !.at = IF i = 1 THEN <<2, "list">> ELSE <<2, "compare">>,
                                  !.selected[i].failed = remains]
  <2>1. build' = [at |-> a, names |-> build.names,
                  selected |-> [build.selected EXCEPT ![i] = t]]
    <3> HIDE DEF remains
    <3>1. build' = [at |-> a, names |-> build.names,
                    selected |-> [build.selected EXCEPT ![i] = [s EXCEPT !.failed = remains]]]
      <4>1. (IF i = 1 THEN <<2, "list">> ELSE <<2, "compare">>) = a
        OBVIOUS
      <4> HIDE DEF a
      <4>2. QED BY <1>1, <1>3, <4>1
    <3> HIDE DEF s
    <3>2. [s EXCEPT !.failed = remains] = t
      BY <1>1, Fields
    <3>3. QED BY <3>1, <3>2
  <2>2. /\ t.round = s.round /\ t.rounds = s.rounds /\ t.seen = s.seen /\ t.hash = s.hash
        /\ t.failed = remains
    OBVIOUS
  <2>3. SelectionOK(t)
    BY <1>1, <2>2 DEF SelectionOK
  <2>4. /\ DOMAIN remains.files = s.rounds \ {s.round}
        /\ \A r \in DOMAIN remains.files : remains.files[r] = file[r]
    BY DEF FailedNow
  <2>5. ASSUME build'.selected[i] = t, build'.names = build.names, build'.at = a
        PROVE  SelectionInv(i)'
    <3>1. \A x \in Run : \A r : (Holds(x, r)' <=> Holds(x, r)) /\ (Alone(x, r)' <=> Alone(x, r))
      BY DEF Holds, Alone, Still
    <3>2. \A r : SomeRun(r)' <=> SomeRun(r)
      BY <3>1 DEF SomeRun, Valid, Still
    <3>3. \A r \in DOMAIN remains.files :
            /\ r \in s.rounds /\ r # s.round
            /\ r \notin copied /\ remains.files[r].raw \in Run => Holds(remains.files[r].raw, r)
      BY <1>1, <2>4 DEF FilesInv, RoundInv, SelectionOK, Kind
    <3> HIDE DEF remains, s, t, a
    <3>4. /\ t.seen.receipt \in Run /\ t.seen.review \in Run
          /\ t.seen.raw \in Run /\ t.seen.raw = t.seen.receipt /\ answer'[t.seen.raw] \in Sound
      BY <1>1, <2>2 DEF Knows, Still
    <3>5. t.round \notin copied =>
            /\ SomeRun(t.round)
            /\ \A k \in Kind : t.seen[k] \in Run => Holds(t.seen[k], t.round)
            /\ t.seen.receipt \in Run /\ Alone(t.seen.receipt, t.round) => at[t.seen.receipt] = "ended"
            /\ IF t.hash.receipt \in Run THEN Holds(t.hash.receipt, t.round)
               ELSE \A x \in Run : ~Alone(x, t.round)
      BY <1>1, <2>2 DEF Knows
    <3>6. \A r \in DOMAIN t.failed.files :
            /\ r \in t.rounds /\ r # t.round
            /\ r \notin copied /\ t.failed.files[r].raw \in Run => Holds(t.failed.files[r].raw, r)
      BY <2>2, <3>3
    <3>7. t.round \in t.rounds /\ t.rounds \subseteq RoundsOf[build.names[i]]
      BY <1>1, <2>2
    <3>8. QED BY <2>5, <3>1, <3>2, <3>4, <3>5, <3>6, <3>7 DEF SelectionInv, Still
  <2> HIDE DEF t
  <2>6. QED BY <1>0, <2>1, <2>3, <2>5, Updated
<1>4. QED BY <1>2, <1>3 DEF ScanFailures

LEMMA BeginBuildStep ==
  ASSUME BuildInv, Still, BeginBuild
  PROVE  BuildInv'
<1>1. PICK pair \in Pairs : build' = [at |-> <<1, "list">>, names |-> pair, selected |-> <<>>]
  BY DEF BeginBuild
<1>2. /\ build'.at = <<1, "list">> /\ build'.selected = <<>>
      /\ build' = [at |-> build'.at, names |-> build'.names, selected |-> build'.selected]
  BY <1>1
<1>3. build'.at[1] = 1 /\ build'.at[2] = "list" /\ "list" \notin Loading
  BY <1>2 DEF Loading
<1>4. Selected' = 0
  BY <1>3 DEF Selected
<1>5. <<>> = [j \in 1 .. 0 |-> <<>>[j]] /\ 1 .. 0 = {}
  OBVIOUS
<1>6. BuildTypeOK'
  BY <1>2, <1>3, <1>4, <1>5 DEF BuildTypeOK
<1>7. QED BY <1>2, <1>3, <1>4, <1>5, <1>6 DEF BuildInv

\* A selection is begun: the one receipt there is belongs to a valid run.
LEMMA ListStep ==
  ASSUME FilesInv, BuildInv, Still, NEW i \in 1..2, ListReceipts(i)
  PROVE  BuildInv'
<1> DEFINE c == Campaign(i)
           found == Receipts(c)
           r == CHOOSE x \in found : TRUE
           t == [round |-> r, rounds |-> Existing(c), seen |-> NoFiles, hash |-> NoFiles,
                 failed |-> NoRemains]
<1>0. build.at = <<i, "list">> /\ build.at[1] = i /\ build.at[2] = "list" /\ "list" \notin Loading
  BY DEF ListReceipts, Loading
<1>1. Selected = i - 1
  BY <1>0 DEF Selected
<1>2. /\ build = [at |-> build.at, names |-> build.names, selected |-> build.selected]
      /\ build.selected = [j \in 1 .. i - 1 |-> build.selected[j]]
      /\ \A j \in 1 .. i - 1 : SelectionOK(build.selected[j]) /\ SelectionInv(j)
  BY <1>0, <1>1 DEF BuildInv, BuildTypeOK
<1>3. CASE \E why : Refuse(why)
  BY <1>3, Refused
<1>4. CASE found # {} /\ build' = [build EXCEPT !.at = <<i, "receipt">>, !.selected = Append(@, t)]
  <2>1. build' = [at |-> <<i, "receipt">>, names |-> build.names, selected |-> Append(build.selected, t)]
    <3> HIDE DEF t
    <3>1. QED BY <1>2, <1>4
  <2>2. /\ r \in Existing(c) /\ file[r].receipt # "none" /\ Existing(c) \subseteq RoundsOf[c]
        /\ Existing(c) \subseteq Round
    <3>1. r \in found
      BY <1>4
    <3>2. Existing(c) \subseteq RoundsOf[c] /\ Existing(c) \subseteq Round
      BY DEF Existing, FilesInv, RunsTypeOK
    <3>3. QED BY <3>1, <3>2 DEF Receipts
  <2>3. /\ t.round = r /\ t.rounds = Existing(c) /\ t.seen = NoFiles /\ t.hash = NoFiles
        /\ t = [round |-> t.round, rounds |-> t.rounds, seen |-> t.seen, hash |-> t.hash, failed |-> t.failed]
    OBVIOUS
  <2>4. SelectionOK(t)
    BY <2>2, <2>3 DEF SelectionOK, NoFiles, Text
  <2>5. t.round \notin copied => SomeRun(t.round)
    BY <2>2, <2>3 DEF FilesInv, RoundInv, SomeRun
  <2>6. /\ \A k \in Kind : t.seen[k] \notin Run
        /\ t.seen.receipt \notin Run
    BY <2>3, ReviewAssumption DEF NoFiles, Kind
  <2>7. t.round \in t.rounds /\ t.rounds \subseteq RoundsOf[build.names[i]]
    BY <2>2, <2>3 DEF Campaign
  <2> HIDE DEF t
  <2>8. /\ build'.at = <<i, "receipt">> /\ build'.names = build.names
        /\ build' = [at |-> build'.at, names |-> build'.names, selected |-> build'.selected]
        /\ build'.selected = [j \in 1 .. i |-> build'.selected[j]]
        /\ build'.selected[i] = t
        /\ \A j \in 1 .. i - 1 : build'.selected[j] = build.selected[j]
    <3>1. i - 1 \in Nat /\ i - 1 + 1 = i
      OBVIOUS
    <3>2. /\ Append(build.selected, t) = [j \in 1 .. i |-> Append(build.selected, t)[j]]
          /\ Append(build.selected, t)[i] = t
          /\ \A j \in 1 .. i - 1 : Append(build.selected, t)[j] = build.selected[j]
      BY <1>2, <3>1, AppendOne
    <3>3. build'.selected = Append(build.selected, t) /\ build'.at = <<i, "receipt">> /\ build'.names = build.names
      BY <2>1
    <3>4. QED BY <2>1, <3>2, <3>3
  <2>9. "receipt" \in Summary /\ "receipt" \notin Loading \cup {"compare", "list"}
    BY DEF Summary, Loading
  <2>10. /\ build'.at[1] = i /\ build'.at[2] = "receipt" /\ Selected' = i
         /\ build'.at \in (1 .. 2) \X ({"list", "compare"} \cup Summary \cup Loading)
         /\ build'.at # <<1, "compare">>
    BY <2>8, <2>9 DEF Selected
  <2>11. \A j \in 1 .. i : j = i \/ j \in 1 .. i - 1
    OBVIOUS
  <2>12. \A j \in 1 .. i : SelectionOK(build'.selected[j])
    BY <1>2, <2>4, <2>8, <2>11
  <2>13. BuildTypeOK'
    BY <2>8, <2>10, <2>12 DEF BuildTypeOK, SelectionOK
  <2>14. SelectionInv(i)'
    <3>1. \A labels : "receipt" \in labels => Upto(i, labels)'
      BY <2>8 DEF Upto
    <3>2. /\ Upto(i, {"receipt"})' /\ Upto(i, {"receipt", "review"})'
          /\ Upto(i, {"receipt", "review", "raw"})' /\ Upto(i, Summary)' /\ Upto(i, Summary \ {"scan"})'
      BY <2>9, <3>1
    <3>3. \A q : SomeRun(q)' <=> SomeRun(q)
      BY DEF SomeRun, Holds, Valid, Still
    <3>4. QED BY <2>5, <2>6, <2>7, <2>8, <3>2, <3>3 DEF SelectionInv, Still
  <2>15. ASSUME NEW j \in 1 .. i - 1 PROVE SelectionInv(j)'
    <3>1. \A label \in Summary : build.at # <<j, label>>
      BY <1>0
    <3>2. QED BY <1>2, <2>8, <3>1, SelectionStays
  <2>16. QED BY <2>9, <2>10, <2>11, <2>13, <2>14, <2>15 DEF BuildInv
<1>5. QED BY <1>3, <1>4 DEF ListReceipts

\* Nothing but the place of the builder changes, once both are summarized.
LEMMA BothKnown ==
  ASSUME BuildInv, NEW i \in 1..2, NEW l \in Loading \cup {"compare"}, build.at = <<i, l>>
  PROVE  /\ build = [at |-> build.at, names |-> build.names, selected |-> build.selected]
         /\ build.selected = [j \in 1 .. 2 |-> build.selected[j]]
         /\ \A j \in 1..2 : SelectionOK(build.selected[j]) /\ SelectionInv(j)
         /\ \A j \in 1..2, label \in Summary : build.at # <<j, label>>
         /\ \A j \in 1..2 : /\ build.selected[j].seen.raw \in Run
                            /\ answer[build.selected[j].seen.raw] \in Sound
         /\ l \in Loading => build.selected[1].seen.raw # build.selected[2].seen.raw
<1>1. build.at[1] = i /\ build.at[2] = l /\ i # 0
  OBVIOUS
<1>2. Selected = 2
  BY <1>1 DEF Selected
<1>3. /\ build = [at |-> build.at, names |-> build.names, selected |-> build.selected]
      /\ build.selected = [j \in 1 .. 2 |-> build.selected[j]]
      /\ \A j \in 1 .. 2 : SelectionOK(build.selected[j]) /\ SelectionInv(j)
      /\ l \in Loading => build.selected[1].seen.raw # build.selected[2].seen.raw
  BY <1>1, <1>2 DEF BuildInv, BuildTypeOK
<1>4. l \notin Summary
  BY DEF Summary, Loading
<1>5. \A j \in 1..2, label \in Summary : build.at # <<j, label>>
  BY <1>4
<1>6. \A j \in 1..2 : ~Upto(j, {"receipt", "review", "raw"})
  <2>1. SUFFICES ASSUME NEW j \in 1..2, Upto(j, {"receipt", "review", "raw"}) PROVE FALSE
    OBVIOUS
  <2>2. PICK label \in {"receipt", "review", "raw"} : build.at = <<j, label>>
    BY <2>1 DEF Upto
  <2>3. label \in Summary
    BY DEF Summary
  <2>4. QED BY <1>5, <2>2, <2>3
<1>7. \A j \in 1..2 : /\ build.selected[j].seen.raw \in Run
                      /\ answer[build.selected[j].seen.raw] \in Sound
  BY <1>3, <1>6 DEF SelectionInv
<1>8. QED BY <1>3, <1>5, <1>7

\* Only the place of the builder changes.
LEMMA GoOn ==
  ASSUME BuildInv, Still, NEW i \in 1..2, NEW l \in Loading \cup {"compare"}, build.at = <<i, l>>,
         NEW j \in 1..2, NEW m \in Loading, build' = [build EXCEPT !.at = <<j, m>>],
         build.selected[1].seen.raw # build.selected[2].seen.raw
  PROVE  BuildInv'
<1>1. /\ build = [at |-> build.at, names |-> build.names, selected |-> build.selected]
      /\ build.selected = [n \in 1 .. 2 |-> build.selected[n]]
      /\ \A n \in 1..2 : SelectionOK(build.selected[n]) /\ SelectionInv(n)
      /\ \A n \in 1..2, label \in Summary : build.at # <<n, label>>
  BY BothKnown
<1>2. /\ build'.at = <<j, m>> /\ build'.names = build.names /\ build'.selected = build.selected
      /\ build' = [at |-> build'.at, names |-> build'.names, selected |-> build'.selected]
  BY <1>1
<1>3. m # "compare" /\ m # "list"
  BY DEF Loading
<1>4. /\ build'.at[1] = j /\ build'.at[2] = m /\ Selected' = 2
      /\ build'.at \in (1 .. 2) \X ({"list", "compare"} \cup Summary \cup Loading)
      /\ build'.at # <<1, "compare">>
  BY <1>2, <1>3 DEF Selected
<1>5. BuildTypeOK'
  BY <1>1, <1>2, <1>4 DEF BuildTypeOK, SelectionOK
<1>6. \A n \in 1..2 : SelectionInv(n)'
  BY <1>1, <1>2, SelectionStays
<1>7. QED BY <1>2, <1>4, <1>5, <1>6 DEF BuildInv

\* The comparison: different request ids are different calls.
LEMMA CompareStep ==
  ASSUME BuildInv, Still, CompareCampaigns
  PROVE  BuildInv'
<1>0. build.at = <<2, "compare">> /\ 2 \in 1..2 /\ "compare" \in Loading \cup {"compare"}
  BY DEF CompareCampaigns
<1>1. CASE \E why : Refuse(why)
  BY <1>1, Refused
<1>2. CASE Independent /\ build' = [build EXCEPT !.at = <<1, "replay">>]
  <2>1. build.selected[1].seen.raw # build.selected[2].seen.raw
    BY <1>2 DEF Independent, Ids
  <2>2. "replay" \in Loading /\ 1 \in 1..2
    BY DEF Loading
  <2>3. QED BY <1>0, <1>2, <2>1, <2>2, GoOn
<1>3. QED BY <1>1, <1>2 DEF CompareCampaigns, Proceed

\* Loading a campaign goes on, or refuses a campaign that changed.
LEMMA LoadGoesOn ==
  ASSUME NEW i \in 1..2, Load(i)
  PROVE  \/ Refuse("changed")
         \/ \E l \in Loading, j \in 1..2, m \in Loading :
              build.at = <<i, l>> /\ build' = [build EXCEPT !.at = <<j, m>>]
<1>1. CASE Replay(i)
  BY <1>1 DEF Replay, Proceed, Loading
<1>2. CASE CaptureFile(i, "capture receipt", "receipt", <<i, "capture review">>)
  BY <1>2 DEF CaptureFile, Loading
<1>3. CASE CaptureFile(i, "capture review", "review", <<i, "capture raw">>)
  BY <1>3 DEF CaptureFile, Loading
<1>5. 2 \in 1..2 /\ {"capture raw", "replay", "decide"} \subseteq Loading
  BY DEF Loading
<1>4. CASE CaptureFile(i, "capture raw", "raw", IF i = 1 THEN <<2, "replay">> ELSE <<2, "decide">>)
  <2>1. CASE i = 1
    <3>1. CaptureFile(i, "capture raw", "raw", <<2, "replay">>)
      BY <1>4, <2>1
    <3>2. QED BY <3>1, <1>5 DEF CaptureFile
  <2>2. CASE i = 2
    <3>3. (IF i = 1 THEN <<2, "replay">> ELSE <<2, "decide">>) = <<2, "decide">>
      BY <2>2
    <3>1. CaptureFile(i, "capture raw", "raw", <<2, "decide">>)
      BY <1>4, <3>3
    <3>2. QED BY <3>1, <1>5 DEF CaptureFile
  <2>3. QED BY <2>1, <2>2
<1>6. QED BY <1>1, <1>2, <1>3, <1>4 DEF Load

LEMMA LoadStep ==
  ASSUME BuildInv, Still, NEW i \in 1..2, Load(i)
  PROVE  BuildInv'
<1>1. CASE \E why : Refuse(why)
  BY <1>1, Refused
<1>2. ASSUME NEW l \in Loading, build.at = <<i, l>>,
             NEW j \in 1..2, NEW m \in Loading, build' = [build EXCEPT !.at = <<j, m>>]
      PROVE  BuildInv'
  <2>1. build.selected[1].seen.raw # build.selected[2].seen.raw
    BY <1>2, BothKnown
  <2>2. QED BY <1>2, <2>1, GoOn
<1>3. QED BY <1>1, <1>2, LoadGoesOn

\* The consensus names the two calls that were compared.
LEMMA DecideStep ==
  ASSUME BuildInv, Still, Decide
  PROVE  BuildInv'
<1>0. build.at = <<2, "decide">> /\ 2 \in 1..2 /\ "decide" \in Loading
  BY DEF Decide, Loading
<1>1. /\ \A j \in 1..2 : /\ build.selected[j].seen.raw \in Run
                         /\ answer[build.selected[j].seen.raw] \in Sound
      /\ build.selected[1].seen.raw # build.selected[2].seen.raw
  BY <1>0, BothKnown
<1> DEFINE runs == <<build.selected[1].seen.raw, build.selected[2].seen.raw>>
<1>2. /\ runs \in Run \X Run /\ runs[1] # runs[2] /\ \A j \in 1..2 : answer[runs[j]] \in Sound
  BY <1>1
<1>3. build' = [at |-> <<0, "built">>, runs |-> runs, ready |-> \A j \in 1..2 : answer[runs[j]] = "accept"]
  BY DEF Decide
<1> HIDE DEF runs
<1>4. /\ build'.at = <<0, "built">> /\ build'.at[1] = 0 /\ build'.runs = runs
      /\ build'.ready <=> \A j \in 1..2 : answer[runs[j]] = "accept"
  BY <1>3
<1>5. QED BY <1>2, <1>4 DEF BuildInv, BuildTypeOK, Still

Builds == BeginBuild \/ (\E i \in 1..2 : Summarize(i) \/ Load(i)) \/ CompareCampaigns \/ Decide

LEMMA BuilderIsStill == Builds => Still
BY DEF Builds, BeginBuild, Summarize, ListReceipts, ReadFile, HashFile, ScanFailures, Load, Replay, CaptureFile,
   CompareCampaigns, Decide, KeepFiles, Still, runVars

LEMMA SummarizeStep ==
  ASSUME FilesInv, BuildInv, Still, NEW i \in 1..2, Summarize(i)
  PROVE  BuildInv'
<1>1. CASE ListReceipts(i)
  BY <1>1, ListStep
<1>2. CASE ReadFile(i, "receipt", "review")
  BY <1>2, ReadStep
<1>3. CASE ReadFile(i, "review", "raw")
  BY <1>3, ReadStep
<1>4. CASE ReadFile(i, "raw", "hash review")
  BY <1>4, ReadStep
<1>5. CASE HashFile(i, "hash review", "review", "hash raw")
  BY <1>5, HashStep
<1>6. CASE HashFile(i, "hash raw", "raw", "hash receipt")
  BY <1>6, HashStep
<1>7. CASE HashFile(i, "hash receipt", "receipt", "scan")
  BY <1>7, HashStep
<1>8. CASE ScanFailures(i)
  BY <1>8, ScanStep
<1>9. QED BY <1>1, <1>2, <1>3, <1>4, <1>5, <1>6, <1>7, <1>8 DEF Summarize

LEMMA InitReview == Init => ReviewInv
<1> SUFFICES ASSUME Init PROVE ReviewInv
  OBVIOUS
<1>1. build.at = <<0, "idle">> /\ published = {}
  BY DEF Init, Idle
<1>2. BuildInv /\ PublishedInv
  BY <1>1 DEF BuildInv, BuildTypeOK, PublishedInv
<1>3. QED BY <1>2, InitFiles DEF ReviewInv

\* Every step keeps the invariant.
LEMMA ReviewStep == ReviewInv /\ [Next]_vars => ReviewInv'
<1> SUFFICES ASSUME FilesInv, BuildInv, PublishedInv, [Next]_vars PROVE ReviewInv'
  BY DEF ReviewInv
<1>1. CASE (RunsNext \/ UNCHANGED runVars) /\ UNCHANGED <<build, published>>
  BY <1>1, FilesStep, RunsLast, BuildLasts DEF ReviewInv
<1>2. ASSUME Builds PROVE ReviewInv'
  <2>1. Still /\ UNCHANGED runVars
    BY <1>2, BuilderIsStill DEF Still, runVars
  <2>2. FilesInv'
    BY <2>1, FilesStep
  <2>3. BuildInv'
    BY <1>2, <2>1, BeginBuildStep, SummarizeStep, LoadStep, CompareStep, DecideStep DEF Builds
  <2>4. PublishedInv'
    BY <2>1 DEF PublishedInv, Still
  <2>5. QED BY <2>2, <2>3, <2>4 DEF ReviewInv
<1>3. ASSUME Publish PROVE ReviewInv'
  <2>1. UNCHANGED <<runVars, build>> /\ published' = published \cup {build.runs}
    BY <1>3 DEF Publish
  <2>2. FilesInv' /\ Lasting
    BY <2>1, FilesStep, RunsLast
  <2>3. /\ build.runs \in Run \X Run /\ build.runs[1] # build.runs[2]
        /\ \A i \in 1..2 : answer[build.runs[i]] = "accept"
    BY <1>3 DEF Publish, BuildInv
  <2>4. UNCHANGED answer
    BY <2>1 DEF runVars
  <2>5. PublishedInv'
    BY <2>1, <2>3, <2>4 DEF PublishedInv
  <2>6. Selected' = Selected /\ BuildTypeOK'
    BY <2>1 DEF BuildInv, Selected, BuildTypeOK, SelectionOK
  <2>7. build.at[1] = 0
    BY <1>3 DEF Publish
  <2>8. BuildInv'
    BY <2>1, <2>4, <2>6, <2>7 DEF BuildInv
  <2>9. QED BY <2>2, <2>5, <2>8 DEF ReviewInv
<1>4. QED
  <2>1. CASE UNCHANGED vars
    BY <1>1, <2>1 DEF vars
  <2>2. CASE Next
    <3>1. \/ RunsNext \/ Builds \/ Publish
      BY <2>2 DEF Next, RunsNext, Builds
    <3>2. RunsNext => UNCHANGED <<build, published>>
      BY DEF RunsNext, Step, Begin, CallFails, CallReturns, WriteRaw, WriteReview, OpenReceipt,
         WriteReceipt, Kill, Copy
    <3>3. QED BY <1>1, <1>2, <1>3, <3>1, <3>2
  <2>3. QED BY <2>1, <2>2

LEMMA ReviewInvariant == Spec => []ReviewInv
<1>1. QED BY InitReview, ReviewStep, PTL DEF Spec

\* For any runs, rounds, prefixes, copies and answers, and however runs and
\* people write while it is built, a consensus holds the sound answers of two
\* different calls and what is published was accepted by both.
THEOREM TwoReviews == Spec => []ConsensusIsTwoReviews
<1>1. ReviewInv => ConsensusIsTwoReviews
  BY DEF ReviewInv, BuildInv, PublishedInv, ConsensusIsTwoReviews
<1>2. QED BY <1>1, ReviewInvariant, PTL

-----------------------------------------------------------------------------
(* What a tidy campaign looks like to the builder. *)

\* A run of a tidy campaign is alone in its round, and its files are complete.
LEMMA TidyAlone ==
  ASSUME FilesInv, NEW c, Tidy(c), NEW r \in Round, r \in RoundsOf[c], NEW x \in Run, Holds(x, r)
  PROVE  /\ r \notin copied /\ Alone(x, r)
         /\ at[x] = "ended" /\ answer[x] \notin {"cut", "anonymous"}
         /\ file[r].raw = x
         /\ file[r].review = IF answer[x] \in Unparsed THEN "none" ELSE x
         /\ file[r].receipt = IF Valid(x) THEN x ELSE "none"
<1>1. \A y \in Run : Holds(y, r) => y \in RunsOf(c)
  BY DEF Holds, RunsOf
<1>2. r \notin copied /\ at[x] = "ended" /\ answer[x] \notin {"cut", "anonymous"}
  BY <1>1 DEF Tidy
<1>3. Alone(x, r)
  BY <1>1 DEF Tidy, Alone, Holds
<1>4. Progress(x, file[r])
  BY <1>2, <1>3 DEF FilesInv, RoundInv
<1>5. QED BY <1>2, <1>3, <1>4 DEF Progress

\* At most one run of a tidy campaign had a valid answer.
LEMMA TidyOnce ==
  ASSUME NEW c, Tidy(c), NEW r, NEW q, r \in RoundsOf[c], q \in RoundsOf[c], NEW x \in Run, NEW y \in Run,
         Holds(x, r), Valid(x), Holds(y, q), Valid(y)
  PROVE  x = y /\ r = q
<1>1. x \in RunsOf(c) /\ y \in RunsOf(c)
  BY DEF Holds, RunsOf
<1>2. answer[x] # "none" /\ answer[y] # "none"
  BY DEF Holds
<1>3. x = y
  BY <1>1, <1>2 DEF Tidy
<1>4. QED BY <1>3 DEF Holds

\* What the builder knows of the selection of a tidy campaign.
TidyRound(s) ==
  \E x \in Run : /\ Holds(x, s.round) /\ answer[x] \in Sound
                 /\ file[s.round].raw = x /\ file[s.round].review = x /\ file[s.round].receipt = x
                 /\ \A k \in Kind : s.seen[k] \in Run => s.seen[k] = x

LEMMA TidySelection ==
  ASSUME FilesInv, BuildInv, NEW i \in 1..2, NEW l \in Summary, build.at = <<i, l>>,
         Tidy(Campaign(i)), NEW s, s = build.selected[i]
  PROVE  /\ s.round \in Round /\ s.rounds \subseteq Round
         /\ s.round \in RoundsOf[Campaign(i)] /\ s.rounds \subseteq RoundsOf[Campaign(i)]
         /\ s.round \in s.rounds
         /\ Knows(s.round, s.seen, s.hash, l)
         /\ TidyRound(s)
<1>1. /\ SelectionOK(s) /\ Knows(s.round, s.seen, s.hash, l)
      /\ s.round \in s.rounds /\ s.rounds \subseteq RoundsOf[Campaign(i)]
  BY KnownSoFar DEF Campaign
<1>2. s.round \in Round /\ s.rounds \subseteq Round /\ s.round \in RoundsOf[Campaign(i)]
  BY <1>1 DEF SelectionOK
<1>3. s.round \notin copied
  BY <1>2 DEF Tidy
<1>4. PICK x \in Run : Holds(x, s.round) /\ Valid(x)
  BY <1>1, <1>3 DEF Knows, SomeRun
<1>5. /\ Alone(x, s.round) /\ answer[x] \notin {"cut", "anonymous"}
      /\ file[s.round].raw = x /\ file[s.round].receipt = x
      /\ file[s.round].review = IF answer[x] \in Unparsed THEN "none" ELSE x
  BY <1>2, <1>4, TidyAlone
<1>6. answer[x] \in Sound
  BY <1>4, <1>5 DEF Valid
<1>7. \A k \in Kind : s.seen[k] \in Run => s.seen[k] = x
  BY <1>1, <1>3, <1>5 DEF Knows, Alone
<1>8. TidyRound(s)
  BY <1>4, <1>5, <1>6, <1>7 DEF TidyRound, Sound, Unparsed
<1>9. QED BY <1>1, <1>2, <1>8

\* There are not two receipts,
LEMMA ListTidy ==
  ASSUME FilesInv, BuildInv, NEW i \in 1..2, ListReceipts(i), Tidy(Campaign(i)),
         Receipts(Campaign(i)) # {}
  PROVE  build'.at = <<i, "receipt">>
<1> DEFINE c == Campaign(i)
           found == Receipts(c)
<1>0. build.at[1] # 0 /\ build.at = <<i, "list">>
  BY DEF ListReceipts
<1>2. SUFFICES ASSUME Cardinality(found) > 1 PROVE FALSE
  <2>1. build = [at |-> build.at, names |-> build.names, selected |-> build.selected]
    BY <1>0 DEF BuildInv, BuildTypeOK
  <2>2. \A t : build' = [build EXCEPT !.at = <<i, "receipt">>, !.selected = Append(@, t)]
                 => build'.at = <<i, "receipt">>
    BY <2>1
  <2>3. QED BY <2>2 DEF ListReceipts
<1>3. PICK r \in found : TRUE
  OBVIOUS
<1>4. PICK q \in found : q # r
  <2>1. SUFFICES ASSUME \A q \in found : q = r PROVE FALSE
    OBVIOUS
  <2>2. found = {r}
    BY <1>3, <2>1
  <2>3. Cardinality({r}) = 1
    BY FS_Singleton
  <2> HIDE DEF found
  <2>4. QED BY <1>2, <2>2, <2>3
<1>5. \A p \in found : /\ p \in Round /\ p \in RoundsOf[c] /\ file[p].receipt # "none"
  BY DEF Receipts, Existing, FilesInv, RunsTypeOK
<1>6. \A p \in found : \E x \in Run : Holds(x, p) /\ Valid(x)
  BY <1>5 DEF FilesInv, RoundInv, Tidy
<1> HIDE DEF found, c
<1>7. PICK x \in Run : Holds(x, r) /\ Valid(x)
  BY <1>6
<1>8. PICK y \in Run : Holds(y, q) /\ Valid(y)
  BY <1>6
<1>9. QED BY <1>4, <1>5, <1>7, <1>8, TidyOnce DEF c

\* the selected files are those of one sound answer,
LEMMA ReadTidy ==
  ASSUME FilesInv, BuildInv, NEW i \in 1..2, NEW kind, NEW next,
         \/ kind = "receipt" /\ next = "review"
         \/ kind = "review" /\ next = "raw"
         \/ kind = "raw" /\ next = "hash review",
         ReadFile(i, kind, next), Tidy(Campaign(i))
  PROVE  build'.at = <<i, next>>
<1> DEFINE s == build.selected[i]
           text == file[s.round][kind]
           seen == [s.seen EXCEPT ![kind] = text]
<1>0. build.at = <<i, kind>> /\ kind \in Summary /\ kind \in Kind
  BY DEF ReadFile, Summary, Kind
<1>1. s = build.selected[i]
  OBVIOUS
<1>2. /\ SelectionOK(s) /\ Knows(s.round, s.seen, s.hash, kind)
      /\ build = [at |-> build.at, names |-> build.names, selected |-> build.selected]
  <2> HIDE DEF s
  <2>1. QED BY <1>0, <1>1, KnownSoFar
<1>4. PICK x \in Run : /\ Holds(x, s.round) /\ answer[x] \in Sound
                       /\ file[s.round].raw = x /\ file[s.round].review = x /\ file[s.round].receipt = x
                       /\ \A k \in Kind : s.seen[k] \in Run => s.seen[k] = x
  <2> HIDE DEF s
  <2>1. TidyRound(s)
    BY <1>0, <1>1, TidySelection
  <2>2. QED BY <2>1 DEF TidyRound
<1>5. text = x
  BY <1>0, <1>4 DEF Kind
<1>6. kind = "raw" => ReceiptAccepts(seen)
  <2>1. SUFFICES ASSUME kind = "raw" PROVE ReceiptAccepts(seen)
    OBVIOUS
  <2>2. s.seen.receipt = x /\ s.seen.review = x
    BY <1>2, <1>4, <2>1 DEF Knows, Kind
  <2>3. seen.receipt = x /\ seen.review = x /\ seen.raw = x
    BY <1>2, <1>5, <2>1, <2>2 DEF SelectionOK, Kind
  <2> HIDE DEF seen
  <2>4. QED BY <1>4, <2>3 DEF ReceiptAccepts, IsJson, SameReview
<1>7. build' = [build EXCEPT !.at = <<i, next>>, !.selected[i].seen = seen]
  BY <1>5, <1>6 DEF ReadFile, IsJson
<1>8. build'.at = <<i, next>>
  <2> HIDE DEF seen
  <2>1. QED BY <1>2, <1>7
<1>9. QED BY <1>8

\* and nothing else looks like an answer without a receipt or repeats an id.
LEMMA ScanTidy ==
  ASSUME FilesInv, BuildInv, NEW i \in 1..2, ScanFailures(i), build'.at = <<0, "refused">>,
         Tidy(Campaign(i))
  PROVE  FALSE
<1> DEFINE s == build.selected[i]
           remains == FailedNow(i)
           other == s.rounds \ {s.round}
<1>0. build.at = <<i, "scan">> /\ "scan" \in Summary /\ build.at[1] # 0
  BY DEF ScanFailures, Summary
<1>1. s = build.selected[i]
  OBVIOUS
<1>2. build = [at |-> build.at, names |-> build.names, selected |-> build.selected]
  BY <1>0 DEF BuildInv, BuildTypeOK
<1>3. DOMAIN remains.files = other /\ \A r \in other : remains.files[r] = file[r]
  BY DEF FailedNow
<1>4. \/ \E r \in other : HasReceiptDue(file[r])
      \/ s.seen.raw \in IdsOf(remains)
      \/ \E r, q \in other : r # q /\ OrphanIds(file[r]) \cap OrphanIds(file[q]) # {}
  <2>1. \A a : build' = [build EXCEPT !.at = a, !.selected[i].failed = remains] => a = <<0, "refused">>
    BY <1>2
  <2>2. (IF i = 1 THEN <<2, "list">> ELSE <<2, "compare">>) # <<0, "refused">>
    OBVIOUS
  <2>3. build' # [build EXCEPT !.at = IF i = 1 THEN <<2, "list">> ELSE <<2, "compare">>,
                               !.selected[i].failed = remains]
    BY <2>1, <2>2
  <2> HIDE DEF remains
  <2>4. QED BY <1>3, <2>3 DEF ScanFailures, remains
<1>5. /\ s.round \in Round /\ s.rounds \subseteq Round
      /\ s.round \in RoundsOf[Campaign(i)] /\ s.rounds \subseteq RoundsOf[Campaign(i)]
      /\ Knows(s.round, s.seen, s.hash, "scan")
  <2> HIDE DEF s
  <2>1. QED BY <1>0, <1>1, TidySelection
<1>6. PICK x \in Run : /\ Holds(x, s.round) /\ answer[x] \in Sound
                       /\ \A k \in Kind : s.seen[k] \in Run => s.seen[k] = x
  <2> HIDE DEF s
  <2>1. TidyRound(s)
    BY <1>0, <1>1, TidySelection
  <2>2. QED BY <2>1 DEF TidyRound
<1>7. s.seen.raw = x
  BY <1>5, <1>6 DEF Knows, Kind
<1>8. \A r \in other : /\ r \in Round /\ r \in RoundsOf[Campaign(i)] /\ r \notin copied
                       /\ file[r].raw \in Run => Holds(file[r].raw, r)
  BY <1>5 DEF Tidy, FilesInv, RoundInv, Kind
<1> HIDE DEF s, remains
<1>9. \A r : \A y \in OrphanIds(file[r]) : y = file[r].raw /\ y \in Run
  BY DEF OrphanIds
<1>10. CASE \E r \in other : HasReceiptDue(file[r])
  <2>1. PICK r \in other : HasReceiptDue(file[r])
    BY <1>10
  <2>2. PICK y \in Run : y = file[r].raw /\ answer[y] \in Sound \cup {"cut"} /\ Holds(y, r)
    BY <1>8, <2>1 DEF HasReceiptDue, IsJson
  <2>3. Valid(y) /\ Valid(x)
    BY <1>6, <2>2 DEF Valid
  <2>4. r = s.round
    BY <1>5, <1>6, <1>8, <2>2, <2>3, TidyOnce
  <2>5. QED BY <2>4
<1>11. CASE s.seen.raw \in IdsOf(remains)
  <2>1. PICK r \in other : x \in OrphanIds(file[r])
    BY <1>3, <1>7, <1>11 DEF IdsOf
  <2>2. Holds(x, r)
    BY <1>8, <1>9, <2>1
  <2>3. QED BY <1>6, <2>2 DEF Holds
<1>12. CASE \E r, q \in other : r # q /\ OrphanIds(file[r]) \cap OrphanIds(file[q]) # {}
  <2>1. PICK r \in other, q \in other : r # q /\ OrphanIds(file[r]) \cap OrphanIds(file[q]) # {}
    BY <1>12
  <2>2. PICK y : y \in OrphanIds(file[r]) /\ y \in OrphanIds(file[q])
    BY <2>1
  <2>3. Holds(y, r) /\ Holds(y, q)
    BY <1>8, <1>9, <2>2
  <2>4. QED BY <2>1, <2>3 DEF Holds
<1>13. QED BY <1>4, <1>10, <1>11, <1>12

\* Two tidy campaigns of different rounds are independent.
LEMMA CompareTidy ==
  ASSUME FilesInv, BuildInv, build.at = <<2, "compare">>, Tidy(Campaign(1)), Tidy(Campaign(2)),
         build.selected[1].rounds \cap build.selected[2].rounds = {}
  PROVE  Independent
<1>1. ASSUME NEW i \in 1..2, NEW s, s = build.selected[i]
      PROVE  /\ s.round \in s.rounds /\ s.rounds \subseteq Round /\ s.rounds \subseteq RoundsOf[Campaign(i)]
             /\ s.seen.raw \in Run /\ Holds(s.seen.raw, s.round)
             /\ s.hash.receipt \in Run /\ Holds(s.hash.receipt, s.round)
             /\ \A r \in DOMAIN s.failed.files :
                  r \in s.rounds /\ (s.failed.files[r].raw \in Run => Holds(s.failed.files[r].raw, r))
  <2>1. SelectionInv(i) /\ SelectionOK(s)
    <3>1. build.at[1] # 0 /\ build.at[2] = "compare"
      OBVIOUS
    <3>2. Selected = 2
      BY <3>1 DEF Selected
    <3>3. /\ \A j \in 1 .. 2 : SelectionInv(j)
          /\ \A j \in 1 .. 2 : SelectionOK(build.selected[j])
      BY <3>1, <3>2 DEF BuildInv, BuildTypeOK
    <3>4. QED BY <1>1, <3>3
  <2>2. \A labels : ~Upto(i, labels) \/ "compare" \in labels
    BY DEF Upto
  <2>3. /\ ~Upto(i, {"receipt"}) /\ ~Upto(i, {"receipt", "review"}) /\ ~Upto(i, {"receipt", "review", "raw"})
        /\ ~Upto(i, Summary \ {"scan"}) /\ ~Upto(i, Summary)
    BY <2>2 DEF Summary
  <2>4. s.round \in s.rounds /\ s.rounds \subseteq Round /\ s.rounds \subseteq RoundsOf[Campaign(i)]
    BY <1>1, <2>1 DEF SelectionInv, SelectionOK, Campaign
  <2>5. Tidy(Campaign(i))
    OBVIOUS
  <2>6. \A r \in s.rounds : r \notin copied
    BY <2>4, <2>5 DEF Tidy
  <2>7. s.seen.raw \in Run /\ Holds(s.seen.raw, s.round)
    BY <1>1, <2>1, <2>3, <2>4, <2>6 DEF SelectionInv, Kind
  <2>8. Alone(s.seen.raw, s.round)
    BY <2>4, <2>5, <2>7, TidyAlone
  <2>9. s.hash.receipt \in Run /\ Holds(s.hash.receipt, s.round)
    BY <1>1, <2>1, <2>3, <2>4, <2>6, <2>7, <2>8 DEF SelectionInv
  <2>10. \A r \in DOMAIN s.failed.files :
           r \in s.rounds /\ (s.failed.files[r].raw \in Run => Holds(s.failed.files[r].raw, r))
    BY <1>1, <2>1, <2>3, <2>6 DEF SelectionInv
  <2>11. QED BY <2>4, <2>7, <2>9, <2>10
<1>2. ASSUME NEW i \in 1..2, NEW x \in Ids(i) PROVE \E r \in build.selected[i].rounds : Holds(x, r)
  <2> DEFINE s == build.selected[i]
  <2>1. s = build.selected[i]
    OBVIOUS
  <2>2. /\ s.round \in s.rounds /\ Holds(s.seen.raw, s.round)
        /\ \A r \in DOMAIN s.failed.files :
             r \in s.rounds /\ (s.failed.files[r].raw \in Run => Holds(s.failed.files[r].raw, r))
    <3> HIDE DEF s
    <3>1. QED BY <1>1, <2>1
  <2>3. x = s.seen.raw \/ \E r \in DOMAIN s.failed.files : x \in OrphanIds(s.failed.files[r])
    BY <1>2 DEF Ids, IdsOf
  <2>4. \A f : x \in OrphanIds(f) => x = f.raw /\ x \in Run
    BY DEF OrphanIds
  <2> HIDE DEF s
  <2>5. \E r \in s.rounds : Holds(x, r)
    BY <2>2, <2>3, <2>4
  <2>6. QED BY <2>1, <2>5
<1>3. Ids(1) \cap Ids(2) = {}
  <2>1. SUFFICES ASSUME NEW x, x \in Ids(1), x \in Ids(2) PROVE FALSE
    OBVIOUS
  <2>2. PICK r \in build.selected[1].rounds : Holds(x, r)
    BY <1>2, <2>1
  <2>3. PICK q \in build.selected[2].rounds : Holds(x, q)
    BY <1>2, <2>1
  <2>4. QED BY <2>2, <2>3 DEF Holds
<1>4. build.selected[1].hash.receipt # build.selected[2].hash.receipt
  <2>1. /\ Holds(build.selected[1].hash.receipt, build.selected[1].round)
        /\ build.selected[1].round \in build.selected[1].rounds
    BY <1>1
  <2>2. /\ Holds(build.selected[2].hash.receipt, build.selected[2].round)
        /\ build.selected[2].round \in build.selected[2].rounds
    BY <1>1
  <2>3. QED BY <2>1, <2>2 DEF Holds
<1>5. QED BY <1>3, <1>4 DEF Independent

\* A step of a summary refuses a tidy campaign only for want of a receipt.
LEMMA SummarizeTidy ==
  ASSUME FilesInv, BuildInv, NEW i \in 1..2, Summarize(i), Tidy(Campaign(i))
  PROVE  build'.at # <<0, "refused">> \/ build'.why = "missing"
<1>0. \A l : <<i, l>> # <<0, "refused">>
  OBVIOUS
<1>1. CASE ListReceipts(i)
  <2>1. CASE Receipts(Campaign(i)) = {}
    BY <1>1, <2>1 DEF ListReceipts, Refuse
  <2>2. CASE Receipts(Campaign(i)) # {}
    BY <1>0, <1>1, <2>2, ListTidy
  <2>3. QED BY <2>1, <2>2
<1>2. CASE ReadFile(i, "receipt", "review")
  BY <1>0, <1>2, ReadTidy
<1>3. CASE ReadFile(i, "review", "raw")
  BY <1>0, <1>3, ReadTidy
<1>4. CASE ReadFile(i, "raw", "hash review")
  BY <1>0, <1>4, ReadTidy
<1>5. ASSUME NEW label \in Summary, NEW kind, NEW next, HashFile(i, label, kind, next)
      PROVE  build'.at = <<i, next>>
  <2>1. build.at = <<i, label>>
    BY <1>5 DEF HashFile
  <2>2. build = [at |-> build.at, names |-> build.names, selected |-> build.selected]
    BY <2>1, KnownSoFar
  <2>3. QED BY <1>5, <2>2 DEF HashFile
<1>6. "hash review" \in Summary /\ "hash raw" \in Summary /\ "hash receipt" \in Summary
  BY DEF Summary
<1>7. CASE ScanFailures(i)
  BY <1>7, ScanTidy
<1>8. QED BY <1>0, <1>1, <1>2, <1>3, <1>4, <1>5, <1>6, <1>7 DEF Summarize

\* Where a step of a summary takes place.
LEMMA SummarizeAt ==
  ASSUME NEW i \in 1..2, Summarize(i)
  PROVE  build.at[1] = i /\ build.at[2] # "compare"
<1>1. \E l \in Summary \cup {"list"} : build.at = <<i, l>>
  BY DEF Summarize, ListReceipts, ReadFile, HashFile, ScanFailures, Summary
<1>2. "compare" \notin Summary \cup {"list"}
  BY DEF Summary
<1>3. QED BY <1>1, <1>2

\* Loading refuses a campaign only because it has changed.
LEMMA LoadRefuses ==
  ASSUME BuildInv, NEW i \in 1..2, Load(i), build'.at = <<0, "refused">>
  PROVE  build'.why = "changed"
<1>1. CASE Refuse("changed")
  BY <1>1 DEF Refuse
<1>2. ASSUME NEW l \in Loading, build.at = <<i, l>>,
             NEW j \in 1..2, NEW m \in Loading, build' = [build EXCEPT !.at = <<j, m>>]
      PROVE  FALSE
  <2>1. build = [at |-> build.at, names |-> build.names, selected |-> build.selected]
    BY <1>2, BothKnown
  <2>2. <<j, m>> # <<0, "refused">>
    OBVIOUS
  <2>3. QED BY <1>2, <2>1, <2>2
<1>3. QED BY <1>1, <1>2, LoadGoesOn

\* A refusal for any other reason is one of a campaign that was not tidy.
LEMMA TidyStep ==
  ASSUME FilesInv, BuildInv, Next, build.at[1] # 0, build'.at = <<0, "refused">>,
         build'.why \notin {"missing", "overlap", "changed"}
  PROVE  \E i \in IF build.at[2] = "compare" THEN 1..2 ELSE {build.at[1]} : ~Tidy(Campaign(i))
<1>1. build' # build
  <2>1. <<0, "refused">>[1] = 0
    OBVIOUS
  <2>2. QED BY <2>1
<1>2. ~Publish /\ ~RunsNext /\ ~BeginBuild
  BY <1>1 DEF Publish, BeginBuild, RunsNext, Step, Begin, CallFails, CallReturns, WriteRaw, WriteReview,
     OpenReceipt, WriteReceipt, Kill, Copy
<1>3. ~Decide
  BY DEF Decide
<1>4. ASSUME NEW i \in 1..2, Summarize(i)
      PROVE  build.at[1] = i /\ build.at[2] # "compare" /\ ~Tidy(Campaign(i))
  <2>1. build.at[1] = i /\ build.at[2] # "compare"
    BY <1>4, SummarizeAt
  <2>2. QED BY <1>4, <2>1, SummarizeTidy
<1>5. ASSUME NEW i \in 1..2, Load(i) PROVE FALSE
  BY <1>5, LoadRefuses
<1>6. ASSUME CompareCampaigns
      PROVE  build.at[2] = "compare" /\ \E i \in 1..2 : ~Tidy(Campaign(i))
  <2>1. build.at = <<2, "compare">> /\ 2 \in 1..2
    BY <1>6 DEF CompareCampaigns
  <2>2. build = [at |-> build.at, names |-> build.names, selected |-> build.selected]
    BY <2>1, BothKnown
  <2>3. ~Independent
    BY <1>6, <2>2 DEF CompareCampaigns, Proceed
  <2>4. build.selected[1].rounds \cap build.selected[2].rounds = {}
    BY <1>6, <2>3 DEF CompareCampaigns, Refuse
  <2>5. QED BY <2>1, <2>3, <2>4, CompareTidy
<1>7. QED
  <2>1. RunsNext \/ Builds \/ Publish
    BY DEF Next, RunsNext, Builds
  <2>2. QED BY <1>2, <1>3, <1>4, <1>5, <1>6, <2>1 DEF Builds

\* Whatever the other campaign and people do meanwhile, the builder refuses a
\* campaign that was run one call after the other, failed and repeated calls
\* included, only for want of a receipt, for rounds it shares with the other
\* one, or because it changed while it was read.
THEOREM TidyAccepted == Spec => TidyCampaignIsAccepted
<1>1. ReviewInv /\ [Next]_vars =>
        [build.at[1] # 0 /\ build'.at = <<0, "refused">> /\ build'.why \notin {"missing", "overlap", "changed"}
           => \E i \in IF build.at[2] = "compare" THEN 1..2 ELSE {build.at[1]} : ~Tidy(Campaign(i))]_build
  <2>1. SUFFICES ASSUME ReviewInv, [Next]_vars, build' # build,
                        build.at[1] # 0, build'.at = <<0, "refused">>,
                        build'.why \notin {"missing", "overlap", "changed"}
                 PROVE  \E i \in IF build.at[2] = "compare" THEN 1..2 ELSE {build.at[1]} : ~Tidy(Campaign(i))
    OBVIOUS
  <2>2. Next
    BY <2>1 DEF vars
  <2>3. QED BY <2>1, <2>2, TidyStep DEF ReviewInv
<1>2. QED BY <1>1, ReviewInvariant, PTL DEF Spec, TidyCampaignIsAccepted
=============================================================================
