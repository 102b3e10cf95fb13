# A verification project for arkts-code-reviewer

TLA+ modules for the parts of this repository that keep state, cross processes
or networks, or decide whether something irreversible may happen, with the TLC
runs that check them on small instances and TLAPS proofs for every instance.

Paths are relative to the repository; `HA/` stands for
`src/arkts_code_reviewer/hybrid_analysis/`, `RT/` for
`src/arkts_code_reviewer/retrieval/`, `KN/` for
`src/arkts_code_reviewer/knowledge/`, `CA/` for `src/arkts_code_reviewer/code_analysis/`.

    tlc -config MCShadowCampaign_faults.cfg MCShadowCampaign.tla
    tlapm ShadowCampaignProofs.tla

`PROJECT.json` lists the runs with their modules and configurations, the lines
each definition models, the hazards each property is for, and for every
property a small change of the model, of the kind a bug would be, that breaks it.


## 1. The system

arkts-code-reviewer reviews changes of ArkTS programs. A change becomes review
units; units get tags, owners and dimensions; those retrieve clauses of a
knowledge base; and a hybrid analysis may ask a model provider for tags. The
final review prompt and its publication are designed, not written. Almost all of
the code is offline and pure: frozen documents with content-hash identities that
every consumer validates again. The state is at the edges.

| Component | State it keeps | Operations | Interacts with |
|---|---|---|---|
| Shadow campaign command (`HA/campaign_live_smoke.py`, `HA/shadow_campaign_execution.py`) | a state directory shared by all runs: one marker per plan, one result file per campaign | run a campaign of plans, reserve each plan's budget, write the result | gate, runner, file system, clock |
| Authorization gate and runner (`HA/shadow_runtime.py`) | per gate: nonces issued and not used; the one-shot egress approval; the marker | authorize, revoke, dispatch once, run | called by the campaign, calls the transport |
| Adapter, validator, receipts (`HA/deepseek_adapter.py`, `HA/execution.py`, `HA/provider_receipts.py`) | the bytes of one reply | send, stream under a size limit and a deadline, parse, validate, seal the evidence | provider, runner, campaign verifier |
| Single attempt command (`HA/live_smoke.py`) | a marker of its own in a state directory runs may share | make one attempt, print a summary | gate, runner, other runs |
| Formal execution (`HA/formal_execution.py`) | a signer's table of signing contexts | begin a run, spend its capability, attest, cancel, produce evidence, verify it | runners in several threads, gates, registries |
| Retrieval store and commands (`RT/postgres.py`, `RT/runtime.py`, `migrations/retrieval/`) | index versions, their entries, aliases | publish, load, switch, resolve | PostgreSQL, other commands |
| Migrations (`RT/postgres_migrations.py`, `KN/document_first/projection_postgres_migrations.py`) | the history of applied migrations | compare histories, apply files in one transaction | PostgreSQL, other deployments |
| Document projection store (`KN/document_first/projection_postgres.py`) | projections, building or sealed | put, load | PostgreSQL, other clients, migrations |
| Document-first campaign (`KN/document_first/campaign*.py`, `live_smoke.py`, `tools/run_deepseek_document_card_campaign.py`) | a state directory of markers; in one folder a plan the reply, draft, card and receipt; a campaign receipt | run a campaign, run one document | provider, file system, other runs |
| Knowledge review (`tools/run_knowledge_grok_review.py`, `KN/review_campaign.py`, `KN/review_consensus*.py`, `KN/publication.py`) | per round and packet a raw response, a review, a receipt, a log of failure | call the model, summarize a campaign, load it, build a consensus, publish | runs of the tool, people who copy rounds |
| Change review (`CA/change_set.py`, `CA/change_review.py`, `CA/review_units.py`, `CA/models.py`, `CA/analyzer.py`) | none; intermediate results that four validators look at | normalize a diff, assign its lines to regions and declarations, build review units, hand them to the planner | parser, context planner |
| Feature routing (`CA/unit_facts.py`, `feature_routing/`) | none; the facts of one unit | project the parser's facts onto units; match tags, dimensions, questions | parser, review units, planner, retrieval |
| Analysis of files (`analyze_files` in `CA/analyzer.py`, `build_units` in `CA/review_units.py`) | none; the files read so far | review whole files, or files with hunks | two lists of declarations, feature routing |
| Parser validation (`parser_validation/`) | judged packages | judge with retries | provider |
| Context planner (`CA/context_planning.py`) | none; several loops over shared sums | plan, validate a result | change sets, review questions |
| Retrieval service and its shadow (`RT/query_planner*.py`, `exact.py`, `vector.py`, `fusion.py`, `assembler.py`, `service.py`, `shadow_service_v3.py`, `shadow_models_v3.py`) | none; hits, scores and remaining tokens of one call | build a request, retrieve evidence, recall the pools, fuse and select two arms, compare | context plan, tags of formal execution, index, embedding provider |
| Parsers, document compiler, validation suites, tools, sidecars | none | functions of their input | each other |

### What is hard

* **Irreversible effects.** A request to the provider cannot be taken back. Each
  plan is to be sent at most once, over threads, processes, crashes and power
  failures, and what happened must be on record afterwards.
* **Time.** The campaign's deadline is read several times around an
  authorization; a capability issued too late must be taken back.
* **Files.** Markers and results are created exclusively, fsynced, linked and
  unlinked in an order that has to hold at any crash.
* **Matrices.** Whether an attempt succeeded is written down four times, in four
  classes. A validator that is stricter than the builder loses an attempt that
  was made; one that is laxer accepts a run that cannot have happened.
* **Budgets in loops.** The context planner compares three different sums with one
  limit in three loops, and makes the plan a second time to validate its result.
* **Transactions.** Publishers and readers of the knowledge index share one
  advisory lock, several calls make one command, and connections break at commits.
  Projections are read in four statements without any lock while they are written,
  also by clients only the triggers hold back, and while the schema is migrated.
* **Signatures.** A signer keeps a context for every formal run from before the
  capability is spent to the signature; every way a call can end must give it
  back, and what is signed must survive four lists of reasons written separately.
* **Directories as a database.** A knowledge review is three files written one
  after the other without a lock, read back by a builder that opens each of them
  three times while runs go on.
* **Partial results.** A changed line that finds no declaration makes its whole
  change unassigned; the units that had other lines of it must give them up, and
  the planner must hear of it.
* **Facts by place.** A fact of a file becomes one of a unit by the offsets of nested
  structures, the hosts the parser names, and line ranges that two parsers count
  differently. A fact given to the wrong unit asks questions about the wrong code.
* **Rankings made twice.** The shadow service ranks and selects, and the objects it
  fills rank and select once more and refuse what differs. Ten keys decide an order,
  and a key that one copy reads and the other does not shows in ties only.

### What makes each component correct

* Campaign: a plan is sent at most once and only with a marker that survives;
  the records and the exit code say what was sent; a published result is whole
  and its success durable; every live run ends; deadline records are accepted.
* Gate: no capability is used twice or after its revocation, or by a gate that
  did not issue it; nothing is sent that was not authorized in full.
* Single attempt command: it says truly whether it attempted, whatever its transport
  does; no reservation is spent without a capability or an error that admits it.
* Attempt: every reply that can be digested leaves artifacts all four checks
  accept, and what the checks accept is explained by some reply.
* Store: an index is there whole or not at all and stays; an alias moves only to
  a published index of an admitted origin, fixtures only on request; results of
  calls are true; a command fails only for a cause.
* Document-first campaign: one attempt a plan, shared with the single command;
  a receipt is last and true in its folder and at the root; an ordinary failure
  costs one document, and the exit tells why a run ended.
* Context planner: the groups are the connected components; a bundle may be
  dispatched exactly if all it needs fits and is there; no candidate disappears;
  the result accepts the plan and no other.
* Formal execution: no signing context is leaked; an attempt that was paid for is
  formalized; evidence is accepted by verifiers of its own registry only, and never
  in part; one signature for one attempt.
* Projection database: answers are true; what is stored only grows and a sealed
  version does not change; every atom of it is classified; the migrations applied
  are those of one deployment.
* Knowledge review: a consensus is the agreement of two different, sound calls; a
  campaign that was run tidily is never refused for good.
* Change review: every changed line is in a unit that shows it or its whole change is
  reported; what is dispatched is a change that was reviewed as a whole.
* Feature routing: a unit is asked only what its own text calls for, a struct all that
  anything in it calls for; a file is analyzed or refused for a cause that is known.
* Retrieval: a dimension goes without a clause only if none fits; every unit keeps to
  its share; units that may not be dispatched get nothing; the AI only adds; the two
  copies of ranking and selection agree.


## 2. Modules

| Module | Models | Composition |
|---|---|---|
| `OneAttempt` | abstract: reserved plans and attempts | implemented by `ShadowCampaign`, `ShadowGate` and `DocumentCampaign` |
| `StateDirectory` | the directory of markers and results, cached and durable | extended by `ShadowCampaign` |
| `ShadowCampaign` | the campaign command, any number of processes | extends `StateDirectory` |
| `ShadowGate` | gates, threads, capabilities inside one process | |
| `AttemptArtifacts` | what becomes of a reply: parser, validation, artifacts, checks | extended by `ShadowAttempt` and `SingleAttempt`, used by `FormalExecution` |
| `ShadowAttempt` | one attempt: the transport, the runner, the verifiers | extends `AttemptArtifacts` |
| `SingleAttempt` | runs of the single attempt command and other programs | extends `ShadowGate`, `AttemptArtifacts` |
| `AliasStore` | abstract: published indexes and aliases | implemented by `IndexStore` |
| `IndexStore` | the store's transactions and the commands that call them | |
| `AttestedAttempt` | abstract: attempts, their signatures and evidence | implemented by `FormalExecution` |
| `FormalExecution` | formal runners, signers, registries, verifier | instantiates `AttemptArtifacts` |
| `SchemaMigrations` | deployments that migrate one database | |
| `ProjectionStore` | store clients and SQL clients of the projection tables | |
| `ProjectionDatabase` | both on one database | extends `SchemaMigrations`, `ProjectionStore` |
| `Sorting` | sorting by tuples of numbers | extended by `ContextPlan` and `Retrieval` |
| `ContextPlan` | the context planner and the checks of its result | extends `Sorting` |
| `ChangeReview` | from a diff to the review units of both sides | |
| `FeatureRouting` | facts, tags, dimensions and questions of units | extends `ChangeReview` |
| `FileReview` | whole files, or files with hunks, that belong to no diff | extends `FeatureRouting` |
| `ChangeAnalysis` | from a diff to a context plan | extends `FeatureRouting`, `ContextPlan` |
| `Retrieval` | a request, its control evidence and the two shadow arms | extends `Sorting` |
| `ReviewPipeline` | from a diff to evidence | extends `ChangeAnalysis`, `FileReview`, `Retrieval` |
| `KnowledgeReview` | runs of the review tool, builder of a consensus, publication | |
| `DocumentCampaign` | campaigns and single runs of the document-first pipeline | |
| `ShadowCampaignProofs`, `ShadowGateProofs` (gate, attempt and single attempt command), `FormalExecutionProofs`, `DatabaseProofs` (projections and indexes), `ContextPlanProofs` (sorting, folding, the planner), `ReviewPipelineProofs` (change review, files, retrieval, pipeline; extends `ContextPlanProofs`), `DocumentCampaignProofs`, `KnowledgeReviewProofs` | the proofs | |

`MC...` modules only give constants values that a `.cfg` cannot write. A
definition named `X_Something` in front of `X` is the broken variant of `X` that
the mutation runs use; nothing else refers to it.

### ShadowCampaign and StateDirectory

A process is one run of `main()` (campaign_live_smoke.py:1460). Its program
counter walks through the preflight, the loop of `execute()`
(shadow_campaign_execution.py:1212) over the plans with its three looks at the
clock, the gate's steps, the dispatch, the verification of the result and the
writing of the result file. `StateDirectory` keeps for every entry whether it
exists and whether it would survive a power failure: a new entry is lost unless
the directory that holds it was fsynced, and the state directory is itself such
an entry of its parent. Only the process that created the directory syncs the
parent, as the code does.

The plans are numbers in campaign order. The clock is a counter that may advance
between any two looks. Inside one process the gate has a fresh capability for
every plan, so the guard of `DispatchOnce` always holds here; replayed and
foreign capabilities are `ShadowGate`'s subject. `Denied` are plans whose gate
has the default verifier that denies everything; the command always installs a
one-shot verifier, a program that uses the harness need not. All runs of one
campaign use the same result name here, though the code puts the outcome's hash
into it: more collisions than there can be.

A send ends in an outcome, or aborts the whole run (`SendAborts`): with an exception
of the live transport that is no transport error, or, for either transport, when the
answer nests too deep for the decoder (finding 2, here seen from the campaign).

### ShadowGate

Threads call authorize, revoke and dispatch of several gates, with any capability
that was ever issued and claims that name the gate's own approval or a foreign
one. A call that fails a check of immutable data changes nothing and is left out.
`issuer` in a capability is history: the object does not name its gate, and the
properties have to show it cannot be used elsewhere.

### AttemptArtifacts and ShadowAttempt

One call of `DeepSeekShadowRunner.run()` after the authorization. The transport
receives headers, body parts and the end, or fails at any of them; an injected
transport may also return nonsense. A body is what the properties tell apart:
broken, refused for one of the validator's reasons, valid, or nested too deep for
the decoder. `Artifacts` is what the runner builds, and `RebuildAccepts`,
`ReceiptFits`, `ObservationFits`, `UnitFits`, `GraphAccepts` are the checks, each
translated from its own class. `EitherSpec` may also start from any artifacts that
are well formed one by one, as a file written by somebody else may be
(`ForeignSpec` starts from those only). Identities, hashes, latency and token
usage are left out.

### SingleAttempt

The command is what composes the gate and the attempt: one process that builds a
gate for its plan, authorizes, dispatches, and prints a summary. A thread is a run of
it, with a gate nobody else can call, or a program that calls the other gates as in
`ShadowGate`; all share the markers. `Authorization` ends in a summary for each way
`authorize()` can be left, among them a marker that was created but not written,
which is no denial; `Summary` is the rest of `main()`: the runner's artifacts
(those of `AttemptArtifacts`), the second look at them
in `_project_validated_tag_decisions`, and the exit code. `Genuine` claims are those
`_build_claims` makes. A killed process takes no further step.

### FormalExecution

A call is a thread in `run()` of a runner: `Run` begins it and registers a signing
context, then the capability is checked and spent, the key looked up, the request
sent, the answer received, the artifacts produced and signed, and the context
cancelled in the `finally` clause; any of these may refuse. Runners with one signer
share its table of contexts. What a reply becomes is the `Artifacts` of
`AttemptArtifacts`; on top come the projections into result,
outcome, subject, attestation and evidence, and `Verifies`, the whole of the
verifier. A registry is named by its content, so revoking a key makes another
registry. Hashes and signatures are identities: what is signed cannot be forged.
`Clock` is the wall clock at the resolution of a second, which may be set back.

### SchemaMigrations, ProjectionStore and ProjectionDatabase

A deployment has a list of files; `migrate()` is one transaction after an advisory
lock. A store client puts under the advisory lock of the projection's hash (two
projections may share it) or loads with four reads of what is committed at each.
SQL clients insert rows and seal versions as the triggers allow, hold the row of a
version until they commit, and may abort at any time; this is the environment the
triggers of `0001_initial.sql` are written for. The row of a version serialises its
writers, as `SELECT ... FOR UPDATE` in the triggers does. `foreign` is history: it
says that an SQL client wrote to the version. In the composition the store's calls
fail until the first migration is committed.

### KnowledgeReview

The files of packets are independent and every campaign asks the same of each
packet, so one packet is followed. A file is `none`, `empty` after it was opened for
writing, `torn` when two writers filled it, or the run whose text it is; a hash is
the identity of a text. Two sound reviews with the same decision may be the same
text, request ids are never the same: the provider gives each response its own.
The builder reads file by file what `summarize_knowledge_grok_campaign` reads file
by file; the replay in `load_selected_...` is one step, for it must equal a summary
made before. `Copy` is a person who copies a round's directory. Of the answers the
tool refuses, one that is no JSON object tells nothing; a wrapper whose text differs
from its structured output still tells its request id to the next summary.

### ChangeReview and ChangeAnalysis

One diff, from `normalize_change_set()` to the context plan. A file is its lines,
declarations and regions on each side and its ChangeAtoms; `Normalizes`,
`ChangedFileFits`, `SnapshotsFit`, `Builds`, `FileResultFits` and `GraphFits` are the
checks it passes, each from its own class, and `BuildSource` is one turn of the
loop over files and sides. Regions go first, to the innermost ones of a line by
offset, and what remains goes to declarations by run of lines: methods, functions
and builders, the UI blocks of build methods longer than `MaxBuildLines`, classes
inside those, else the classes around, else anything, else a window of text.

`RouteUnits` gives every unit its profile, and `PlanContext` hands the units to the
planner with the questions of their profiles; the rest of a plan's arguments (limit,
relations, candidates) is one of `Requests(diff)`. A diff for which nobody asks for a plan
ends when it is routed. The units' numbering is arbitrary, for the planner sorts them
by hash. Until then the planner stands at its beginning; it may also
be called for an analysis made elsewhere, which is how `ContextPlan` is checked on
inputs of its own. Arguments that `plan()` would refuse as malformed are not handed on,
so `ContextPlan` is always about well-formed ones. A diff of more or fewer units than
there are Primaries is followed to the end of its review only.

### FeatureRouting and FileReview

A declaration has lines and offsets (`first`, `last`, `from`, `to`) and the place of the
declaration that holds it (`host`); a region has the place of its struct or class. A fact
is its kind and name. `IsOwner` is what the sidecar does: the narrowest structure around
a fact, a region before a declaration. `EligibleOwners` is
`_eligible_owner_keys()`: all declarations below the unit's own and the regions they
host. The host of a field is the nearest struct or class with a name; for a field of an
anonymous class in a method that is the struct around the method. What the triggers of a
tag match is a set of facts; those that look at the roles of owners need a configuration
`route()` refuses, and are left out.
`Profile` follows `_profile()`: exact tags from the unit's facts, hints from the
file's, drafts in the shadow.

In a `FileReview` the units are made of the older list of declarations, where one begins
at `begin`; the check of a unit's owner compares with the newer list, where it begins at
`first`. The older list counts only decorators on the lines directly above, the newer one
skips comments. `loose` are the declarations of a file the newer parser could not read.
The result goes no further than routing, for planner and retrieval need a diff.

### Retrieval and ReviewPipeline

One call of the retrieval service and of its shadow for the units of a plan.
`BuildRequest` admits the call and divides its tokens; `RetrieveUnit` makes the control
evidence of one unit: exact and vector hits, fused by reciprocal rank, selected.
Then, unit by unit, `Recall` makes the five pools, `ServeDimension`, `Consider` and
`FinishArm` fill the static and the hybrid arm as the two loops of `_select_hits` do,
and `CompareUnit` and `Conclude` are the checks of `shadow_models_v3.py`, which rank with
`Order` over all pools and select with `Replayed`, the second copy. The vector path may
fail at any unit, or find nothing.

A clause is its facts, tags, keywords, dimensions, size, authority and platform needs; a
clause's name is its number, as names only break ties. Scores are whole numbers:
weights in quarters, similarities in hundredths, reciprocal ranks in units of the
eighth decimal the code rounds them to, with the same rounding. `WellAsked` asks
that every hit counts for something after rounding, as with the weights of the
configuration, and that what a request holds is finite and numbered, which its classes see
to; a malformed request is not handed on. Import uses, the diagnostic candidate dimensions, the text of queries
and an index that does not belong to its configuration are left out.

`AskForEvidence` hands the bindings and bundles of a finished plan to retrieval, and from
each unit's profile its facts, exact tags, hints and retrieval dimensions; what the rest of
the system contributes in `Surroundings`. Retrieval may also be called
for a plan made elsewhere, which is how it is checked on richer inputs.

### IndexStore

A command is a run of `arkts-retrieval` or a program that calls the store. Every
store call is a transaction: connect, take the advisory lock, statements one by
one, commit. A transaction sees what is committed and what it wrote, each
statement anew; two writers of one primary key wait for each other and then
clash. These are facts of PostgreSQL and marked external. Unlike the code, the
model would let the lock go: the run shows what then happens. Origins and
namespaces are checked by the command, by the store and by the trigger of
migration 0002, three definitions here too. The name of an index is the hash of
its content, so an index stands for its content; `Lossy` are indexes whose
vectors are no float32 values, which `build_knowledge_index` never makes but a
caller of `publish()` can.

### ContextPlan

One call of `ContextPlanner.plan()`. The union-find of `_build_groups` takes the
grouping edges in any order, for the code takes them in the order of hashes; each
group and question is then classified, filled and emitted as the loops of the code
do it, one candidate a step. Source text is the number of its tokens, a set of
Primaries costs what `weight` says. `Result`, `Accepts` and what they use are the
second copy of the algorithm: the validators of `ContextPlanResult`.
Arguments that `plan()` refuses before it begins are left out.

### DocumentCampaign

A run is a call of the campaign command or of the single command; both end in
`run_document_card_live_once`. A file is identified by where it is, and its content
by the run that wrote it, for every file is written under a temporary name nobody
else has and then linked. `_write_or_verify` accepts a file of the same bytes: the
model lets two results be the same or not. Secured and lost entries are as in
`StateDirectory`. Folders of a campaign were made by the offline preparation and are
taken to be on the disk, the folder of a single run is made by the run, never
fsynced in its parent, and may be lost whole.

The answer takes at most the plan's timeout, for the alarm interrupts the transport,
plus `Overhead` for whatever else a run does. A world says whether the state
directory exists, how often power may fail, what an earlier run has left and which
runs take place. Errors of reading (`lstat`, `read_bytes`) end a run like the writing
errors that are modelled and are left out.


## 3. Runs

| Run | Instance | Shows |
|---|---|---|
| `campaign_faults` | 2 processes, 2 plans, an old directory, every system call may fail, kills, a power failure | `OneAttempt` implemented, markers of sent plans stay; records and exit code tell the truth; results whole and success kept |
| `campaign_deadline` | a live process with 3 plans of timeouts 1, 2, 3 and 5 ticks of clock, an injected one that may hang | a plan starts only if its timeout still fits; late capabilities are revoked; the verifier accepts every record; the live run ends |
| `campaign_powerloss` | 3 processes, a new directory, a power failure | **violation**, finding 1 |
| `gate` | 2 threads, 2 gates for each of 2 plans, 3 nonces; the marker of one plan is on a disk that may fail; two programs, one beside a run of the command with either transport, two runs for one plan; an answer of every kind | what was sent was authorized in full and never after a revocation; no reservation is spent in silence, and what a run prints and returns is what it did; `OneAttempt` implemented |
| `attempt` | bodies up to one byte over the limit in parts, status codes on both sides of each boundary; all well-formed artifacts | the four checks accept what the runner builds; the outcome tells the wire, and the verifier's lines are the matrix's; what is accepted is explained |
| `attempt_deep` | completions nested too deep | **violation**, finding 2 |
| `formal` | 2 threads, 2 capabilities of 2 domains, 3 registries of which one has revoked a key, 4 signers with room for one context, a clock of 2 seconds | no context leaked; what was sent is formalized; evidence verifies under its registry only; no splicing; `AttestedAttempt` implemented |
| `store` | 2 commands of any kind, 5 indexes of every origin, 4 aliases, all opt-ins, 2 lost connections | `AliasStore` implemented; versions whole; results true; failures explained; fixtures only on request; every command ends |
| `projection_database` | 2 store clients, an SQL client, 2 projections with one advisory lock, 2 deployments whose files part after the first | answers true; stored data only grows; sealed versions classified; one deployment's history |
| `review_pipeline` | Diffs: files of 4 lines with a struct or none, every mix of 4 members, 3 sets of fields, one or two changes of any lines; whole files, renames, broken input; files of 7 lines with a fact in any two of seven spots; small diffs of 3 units are planned and asked about as well. Calls of one or two files in both modes: hunks that overlap, are missing or go beyond the end, empty and unparsed files, decorators above a comment. Plans: 3 units, 2 questions, up to 5 candidates; every chain and cycle of relations, every mix of candidates, every size of four helpful ones. Retrieval, with the weights of `config/retrieval.yaml` and `retrieval_shadow_v3.yaml`: two clauses of any mix of signals beside a third; three clauses of any size for any of two dimensions; ties of a clause with two facts and one with three tags; two units with platforms, aliases, failures, blocked bundles | every changed line reviewed or reported; only whole changes dispatched or given evidence; questions earned by a unit's own text; files refused for two causes only; plans made in full (groups are components, nothing lost, bins tight); dispatch exactly if sufficient; the result accepts the plan and no altered one; the copies of ranking and selection agree but for one tie; uncovered dimensions explained; the AI only adds; shares kept |
| `documents` | 2 campaigns of 2 documents, or a campaign and a single run of one of them; old directory with a power failure, new one without, leftovers; system calls fail, kills | `OneAttempt` implemented; receipts true, a document's last in its folder; ends explained |
| `knowledge_review` | 3 runs, 3 rounds, 3 prefixes of which two overlap, one round that may be copied; every answer, failures, kills | a consensus is two sound reviews; a tidy campaign is accepted |

**Why the bounds are enough.** Two processes or threads already reach every race
of two steps; the third campaign process of `campaign_powerloss` is needed because
the finding takes a creator, an opener and a later run. Two gates of one plan
and two of another let a capability be used at the wrong gate of the same plan
and of another one. Three deadlines with rising timeouts make the first fit, the
second be late after its authorization and the third late before it. A command
that publishes and switches beside one that switches makes an alias move between
the two transactions; two entries let a connection break in the middle of an index.
Room for one context makes the table full as soon as two calls share a signer; one
capability has every answer, so that its evidence meets sound evidence of the other.
A projection with a bound and an unclassified atom has every kind of row and every
way to be incomplete; two deployments with different second files make each be
ahead, behind and on another branch. Four lines hold two members that share a line,
a gap and a block in a build method; seven lines hold a field, a method with an anonymous
class whose field counts for the struct, a method with a component, and two structures
that share a line, and two facts tell which of them a unit was given; two changes make one span the lines another
leaves out. Three units make every shape of a component but the longer chains; five
candidates fill two bundles and reopen the first. A limit of two results and of two
hits a pool cuts a ranking of three clauses; three tokens make each of three clauses
fit or not; and a tie needs two clauses whose weights add up alike in different
ways, of which the AI knows one. Two documents make a first, a
next and a last plan, a reply at the limit and one above it make the total fit and
not fit. Three runs make two that meet in one round and one of the other campaign.
The proofs remove the bounds where they apply.

Type invariants are not spent on runs of their own: where there are proofs they are
part of the inductive invariants.

**Deadlock** is checked in every run; `Finished`, `Ended` and `AllEnded` are the only stuttering
at the end.


## 4. Fairness

* `ShadowCampaign`: weak fairness of each process's local steps: a scheduled
  process goes on. Weak fairness of the answer only for live processes, because
  the repository's transport has an absolute deadline
  (`HA/deepseek_adapter.py`, `_send_with_absolute_deadline`); an injected
  transport has none and may hang for ever, and nothing is claimed about it.
* `IndexStore`: weak fairness of each command; strong fairness of `Lock`, for
  PostgreSQL queues the waiters of an advisory lock.
* The other modules claim no liveness.


## 5. Proofs

All are checked by TLAPS without any unproved step. The named `ASSUME`s of the
modules are the only assumptions, but for one: what the two campaigns promise of
attempts and files needs `Lasting` (in `ShadowCampaignProofs` and
`DocumentCampaignProofs`), that is, no power failure or a state directory that was
durable at the start; finding 1 is why. The `ASSUME`s say what the code makes sure of
elsewhere: arguments are well formed (`InputAssumption`, `JobAssumption`,
`ReplyAssumption`), enumerations of the code have no value in common
(`DetailAssumption`, `ClientAssumption`), limits are numbers (`LimitAssumption`), a
projection's links bind only atoms that are not set aside (`RecordAssumption`,
refused by `DocumentProjectionRecord` otherwise), a deployment's files are a finite
list (`LocalAssumption`), and a prefix matches rounds only (`ReviewAssumption`). Diffs, parsed
files, hunks and calls are what their classes admit (`ChangeAssumption`,
`RoutingAssumption`, `CallAssumption`: lines are natural numbers, kinds those of the
parser, `FileAnalysis.validate()` has passed), and what surrounds a plan in a retrieval
request has the three fields the pipeline fills in (`SurroundingsAssumption`). TLC evaluates
them in the runs.

| Theorem | States |
|---|---|
| `ShadowCampaignProofs!Typing` | type correctness, any number of processes and plans |
| `ShadowCampaignProofs!AtMostOnce` | at most one attempt per plan, and the marker of a sent plan stays |
| `ShadowCampaignProofs!Refinement` | the campaign implements `OneAttempt` |
| `ShadowCampaignProofs!TruthfulRuns`, `DeadlinesHold`, `WholeResults` | `RunsTellTheTruth`, `LatePlansAreStopped`, `ResultsAreWhole` |
| `ShadowGateProofs!GateSafety`, `GateRefinement` | the gate's safety properties; it implements `OneAttempt` |
| `ShadowGateProofs!CommandsAccountForSpending`, `CommandsKeepThePromise` | with any number of runs of the single attempt command among the threads: no reservation spent in silence, true summaries; the gate's properties and `OneAttempt` |
| `ShadowGateProofs!AttemptNeverRaises`, `ForeignIsExplained`, `OutcomesTellTheWire` | of attempts and of artifacts from elsewhere (`EitherSpec`): the checks accept what the runner builds and only what it could build; the outcome says what came over the wire |
| `FormalExecutionProofs!ContextsBelongToCalls`, `AttemptsBecomeEvidence` | `ContextsAreInFlight`, `SentIsFormalized` |
| `FormalExecutionProofs!ExecutionsImplementAttested`, `EvidenceIsNotSpliced` | formal execution implements `AttestedAttempt`; `NoSplicing` |
| `DatabaseProofs!VersionsAreWhole`, `StoreKeepsPromise` | indexes whole; the store implements `AliasStore` |
| `DatabaseProofs!FailuresHaveACause`, `MovesAreHonest` | `FailuresAreExplained`, `MovesAreAskedForAndTold` |
| `DatabaseProofs!OneDeployment`, `NothingIsLost`, `SealedVersions`, `TrueAnswers` | all four properties of the database, with migrations, store clients and SQL clients on it |
| `ContextPlanProofs!GroupsCorrect`, `PackingIsTight`, `EveryCandidateIsAccountedFor`, `PlansAreMadeInFull` | groups are components; no two bins fit one; nothing lost; the three as the runs check them |
| `ContextPlanProofs!DispatchIsEarned` | `DispatchIffSufficient` |
| `ContextPlanProofs!OnlyPlansPass` | `OnlyThePlanIsAccepted` |
| `ReviewPipelineProofs!LinesAreReviewedOrReported` | `EveryLineIsReviewedOrReported`, in the whole pipeline |
| `ReviewPipelineProofs!FilesReviewedOrRefused` | `FilesAreReviewedOrRefusedForCause` |
| `ReviewPipelineProofs!ReviewsArePlanned` | `PlannedInFull` and `DispatchIffSufficient` of plans that are made from a review |
| `ReviewPipelineProofs!OnlyWholeChangesGoOut` | `WholeChangesOnly`, from the diff to the evidence |
| `ReviewPipelineProofs!SharesAreKept` | `EvidenceKeepsItsShare` and `UncoveredIsExplained`, of `retrieve()` and both arms |
| `ReviewPipelineProofs!AIAddsOnly` | `AIOnlyAdds` |
| `ReviewPipelineProofs!TiesAreRefused` | `RefusedOnlyForATie` |
| `ReviewPipelineProofs!OnlyEarnedQuestions` | `QuestionsAreEarned` |
| `DocumentCampaignProofs!DocumentsTyped`, `DocumentsRefine` | type correctness; campaigns and single runs implement `OneAttempt` |
| `DocumentCampaignProofs!EndsHaveCauses`, `ReceiptsTellTheTruth` | `EndsAreExplained`, `ReceiptsAreTrue` |
| `KnowledgeReviewProofs!TwoReviews`, `TidyAccepted` | `ConsensusIsTwoReviews`, `TidyCampaignIsAccepted` |

Each inductive invariant was model-checked on the instance of its run, but for the parts
of the pipeline's that TLC cannot evaluate: that a variable is a sequence of anything; the
traces of the replay's folds in `ReplayInv` were checked as the folds over a prefix.

*Campaign.* `AtMostOneAttempt` is not inductive: that a plan was not sent yet
follows from who created its marker. The invariant adds that a process between the
marker and the dispatch is the only one that created it, that a plan nobody
reserved was never sent, and that a marker which is relied on is durable if power
can fail. Creation is exclusive, so at most one process is in that place.
`RunInv` is about one process at a time: its records cover the plans before the one in
hand, say "attempted" of what it sent and pass the verifier; a capability exists from
the reservation to the dispatch only; past the second look at the clock there is
time. No other process writes any of this, so it needs no assumption on power.
`ResultInv` puts both together with the files: a temporary file belongs to the process
that writes it, a published one carries the records of its owner, and two processes
never sent the same plan, so at most one of them has all plans attempted.

*Gate.* The invariant says of every nonce in which gate's table it is, of every
capability that it was issued after the plan's marker was created by its gate, and
counts attempts against nonces that are gone. A marker is created once, so a plan
has one capability, and a nonce leaves the table before it is sent. With the command,
`SmokeInv` adds where the call of a run is and whether its gate has sent: nobody else
calls that gate (`HomesDiffer`, `ProgramKeeps`), so a run that has not dispatched may
say so, and `SummaryIsTrue` shows by cases on the answer that the second look refuses
nothing the runner builds. Every step of a command is a step of the gates or a
stutter (`StepIsGates`), which carries their theorems over.

*Attempt.* `ArtifactsPass` shows by cases on the reply that all checks hold of
`Artifacts`; `AcceptedHasReply` goes the other way and names the reply for every
row of the accepted matrix; `OutcomeOfReply` reads the outcome off the reply. The
invariants only carry what phase the reply is in. `EitherSpec` starts with an attempt or
with artifacts from elsewhere, and `EitherInv` is the disjunction of their invariants.

*Formal execution.* `FormalInv` says of every call where its capability is: with its
gate, spent and not sent, sent and not signed, or signed, and that no other call has
it; of every context whose call it is; and of every signature that its evidence would
be accepted. That no answer gets stuck between the artifacts and the signature is not
an invariant but shown by cases on the answer, for the matrices one after another.
`NoSplicing` follows from what the parts of evidence have in common: each names the
capability, and two executions have different ones.

*Store.* No property is inductive, for all depend on what a transaction in
progress has written. The invariant says: it wrote nothing, or the version row
and, once past inserting, all entries; or one alias the trigger accepted, to an
index that is stored. That is enough for consistency, which does not need the lock.
`CauseInv` adds that whoever is in a transaction holds the lock (`LockInv`), so
that what it has read is still so (`SeenInv`), what earlier calls of a
command leave behind (`KnownInv`), and that an alias points where somebody asked for.

*Projection database.* `MigrationInv` says that what a transaction has applied follows on
from the committed history in its own list. `DatabaseInv` is about rows: whatever is
committed, and whatever it will be if the open transactions commit, obeys the keys and
triggers, a draft only adds to an unsealed version, and a version that no SQL client
touched is exactly its record. `ClientInv` ties each call to it: a put holds the advisory
lock and, once it has inserted, the row; what a load has compared so far is of a sealed
version, and so stays. `SealedIsClassified` needs the seal's counts: as many atoms
as declared, and a set that has as many elements as its superset is the superset.

*Planner.* For the groups: units of one tree of the forest are connected, and the two
ends of an edge already unioned are in one tree; when no edge is left, trees are
components. For the bins: two bins never fit into one bundle, which every step
keeps because a bin only grows and a new one is opened only if none had room. For
the candidates: those of the questions planned so far are in a bundle or omitted,
those of the question in hand are in exactly one of its queues, bins or omissions.
For the dispatch (`DispatchInv`): every required candidate is queued, taken or missing,
the budget in use is the sum of what was taken, and if one is missing, the sum of
all of them is too large or one cannot be used. That a candidate which did not fit beside
some of the others does not fit beside all of them is a fact on sums over finite sets,
proved from the recursion by considering a least set for which it fails
(`SumUnique` to `TotalGrows`).

*The plan and its checks.* `OnlyThePlanIsAccepted` relates two copies of the algorithm: the
planner, which goes through its candidates step by step, and the checks, which make the
selection of a question once more by folds over sorted sequences. `ReplayInv` says that the
planner is on the way of the replay: what it has taken is the value of the first fold after
some number of its steps, its bins hold those of the second after some number, and what is
neither waiting nor selected was omitted for the reason the replay finds (`InReplay`). That
the next candidate of the planner is the next one of the sorted sequence needs that keys of
candidates differ (`SortedInTurn`, `NextInTurn`); that it finds room in the same bin, that the
sum the planner keeps of a bin is the one the replay computes (`PlacedHolds`). The loops are
not interleaved the same way, but the second begins only when nothing is left of the first.
Every question that is behind the planner then has the bundles of the replay, in a row
(`MadeInFull`). For the groups, two forests that unite the same edges have the same classes
in whatever order (`GrovesAlike`), and `UnionedFinite` says that they were finitely many,
without which the fold would say nothing. So a finished plan is one of the replay (`IsPlan`), and
the rest is about `IsPlan` alone: every check of a result accepts it (`PlanAccepted`), and
an accepted result with the plan's groups has for every question the same selection and as
many bundles for each set of candidates (`QuestionMeans`), so a bundle cannot be dropped, released or
held back, nor a candidate moved, dropped or explained in another way (`AlteredRefused`).

*Review pipeline.* Nearly all of a review is computed in single steps, so the invariant
(`ReviewInv`) says little: a diff past its validation was admitted, every result is that
of one of its sources, and once the review is done every source has its result. The
work is in what one result is (`ResultTrue`): its units hold only changed lines and show
them, no two of them have one identity, and an atom's lines are all in units or none is and
the atom is reported. This goes by the path of a line: an innermost region exists if any
holds the line, for lengths are natural numbers with a least one (`LeastNumber`), and so it
does for declarations; merging keeps what units hold; taking an atom back takes it from
every unit. From it follows that `UnitFits`, `FileResultFits` and `GraphFits` accept what was
built, so the review never raises. `FileInv` says the same of files without a diff, where
the window of a unit and the two lists of declarations take the place of atoms.
`PlanningInv` carries the planner's invariant through the pipeline: until the planner is
called it stands at its beginning, and then only its own steps change what it has.
`ArgumentsInv` says what it was called with: sides and atoms of the units, for some
numbering of them, and `blocked` as the review has it; `ClassesInv` that bundles are of
groups of the forest. If a bundle may be dispatched nothing blocks the change, so no atom
is reported and no file is binary, and every changed line is in a unit
(`UnblockedIsCovered`); a replacement's units are joined by a correspondence and end in one
group. `EvidenceInv` follows the retrieval call: in the control evidence and in both
arms nothing is chosen for a unit none of whose bundles may be dispatched (`Withheld`), and
`AskedInv` that the bundles it was asked with are those of the finished plan.

*Retrieval.* `ShareInv` says that the units' shares are the request's budget divided, and that
every evidence, of `retrieve()` and of the arms, was `Given`: the unit is blocked and has
nothing, or its clauses are numbered by a rank of applicable ones and their verdicts are what
`Replayed` makes of that rank under the unit's share. The arms fill their statuses step by
step, but `ArmHolds` lets nothing else through `FinishArm`. What is left is about ranks,
selections and sums. A sort by keys that are distinct lists of numbers gives everything a
place of its own (`PositionsList`); for this the scores must be numbers, that is, sums over
finite sets (`FusedTyped`, `ExactScoreTyped`). A fold over a sequence has one value after
each step (`StepByStep`): `FoldExists` finds it by taking the first step at which there
would be none. So the two loops of a selection can be followed: every addition keeps the
budget and the limit (`AddsOne`); the search for a dimension adds a clause, or
has found all clauses with it too large, or the results are full (`FirstServes`); and what
was too large stays so (`ReplayedWell`). The shares add up because the remainder goes
to the first units, a token each (`SharesAddUp`).
`MadeInv` says what the two arms of a unit are made of: pools found for one answer of the
vector search, the fusion of those of the arm, and the selection from that. `AIAddsOnly`
then compares fusions. The keys of a clause the AI did not find are equal in both arms
(`PlainKey`), and positions order as keys do (`EarlierPrecedes`), so the AI moves no such
clause past another (`PlainOrder`). Two units that differ in the AI's tags only have
the same pools but for the AI's, which the static arm's keys do not look at
(`StaticWithoutAI`). A later place never counts for more, rounded too (`ContributionFalls`),
so a clause in a pool of limit *n* has at least what place *n* gives, and one that only the AI
found at most what its first place gives (`StrongFirst`). Here the weights matter: that what
the AI alone found comes last holds for weights by which the latter is less
(`AIWeighsLeast`), as it is for `config/retrieval_shadow_v3.yaml` (0.25/61 against 0.5/110,
1/110 and 1/90), and for those of the run.
`TiesAreRefused` is about the checks that a comparison makes of itself. The keys of the
static arm with the AI's score and without it differ in one place (`BlindAndSeeing`), so the
two rankings are the same (`SamePositions`) unless two clauses tie in all that comes before
that place (`NoTieKeepsOrder`, `TieTurnsOrder`); the bindings are always those of the unit
(`RecalledIsBound`). `SelectingInv` follows the selection loop by loop: the statuses are those
of a replay stopped after some dimensions (`Serving`) or after all of them and some clauses
(`Filling`). The next dimension is the smallest left (`NextDimension`) and takes the best
clause that fits, as the replay's inner loop finds it (`PickedIsFirst`), so a finished
selection is the one that is replayed (`FinishedIsReplayed`) and only a tie is refused. TLC
checks the same with the two predicates written as folds over prefixes.

*Feature routing.* A profile is made in one step, so what has to be carried along is where it
came from: a file that was read has units that can be routed (`ReadInv`), and a profile is what
routing makes of a unit of the source it belongs to, also after the plan has numbered the units
(`RoutedInv`). The rest is about one unit (`RoutedIsEarned`). That a unit gets nothing
from around it: a fact counts for a declaration if its owner is the declaration or reached from
it by the links of hosts, and what is reached that way lies inside (`ExactIsInside`). That a
struct or class gets everything in it is the harder half: a fact in its lines has a narrowest
structure around it (`FactHasOwner`), and the chain of hosts from there has to pass the
struct, not lead around it. The code follows the links until nothing is added, the model as
often as there are declarations; by then nothing is left to add, since every round before adds a
declaration (`DescendantsClosed`). The structures around the fact that are no wider than the
struct are reached one after the other, from the widest down (`NarrowerAreEligible`). This
half needs `IsTree`: that structures around a fact differ in width and that the struct is
around what holds the narrower ones. It is what a walk over a syntax tree gives
(`v2DiscoverStructures`), but `FileAnalysis.validate()` does not ask for it: decorators
above a struct count to its span and are not below it in the tree, so a class inside the
argument of such a decorator would be an exception. `IsTree` is part of the assumptions on the
constants, which TLC evaluates for the sources of the run; nothing but this half uses it.

*Documents.* The invariant (`OnceInv`) says that all markers of a plan have one owner,
that a run between taking a marker and sending owns the marker of a plan nobody
sent, fsynced from `written` on, and that a plan which was sent has a durable marker.
Nearly all steps are `Quiet`: they keep the markers and bring no run to where it
holds one. What remains is the link of a marker, the send and the power failure.
`EndsInv` says where a run is by its place: how many replies it has, that it sent the
plans before the one in hand, which files of a reply are left, and that the tokens so far
are within what was reserved unless a reply overran. `ReceiptsInv` adds the files: a run finds
another's file past its preflight only where that one has the marker, so the folder it
writes holds its own files, exactly those written so far and durable but for the last.

*Knowledge review.* Files change while they are read, so the invariant (`ReviewInv`) is about
what cannot: a run keeps its round and, once it has one, its answer. A file of a round that
nobody copied holds what one of its own runs was answered; if a run is alone in its round, its
files are exactly those of where it stands (`FilesInv`). A selection says that its three texts
are of one sound call, and, unless its round was copied, that those calls, the file that was
hashed and what failures left behind are of its own rounds (`SelectionInv`); this stays true
of texts long replaced. Two selections that pass the comparison have different request ids,
and that is all `TwoReviews` needs: the hashes and the replay are not used.
For `TidyAccepted`, a tidy campaign makes every answered run alone, ended, and the only
valid one, so the summary finds one receipt (`ListTidy`), reads what the receipt says
(`ReadTidy`) and no second answer among the remains (`ScanTidy`); two tidy campaigns
without a common round have no run in common (`CompareTidy`).

**Only model-checked:** liveness (`LiveRunsEnd`, `EveryCommandEnds`:
the prover knows neither fairness nor ENABLED). Every invariant and action property that a
passing run checks is a theorem.


## 6. Findings

1. **A marker can be lost with its directory** (`campaign_powerloss`). Of two runs
   that start with no state directory, only the one whose `mkdir` succeeded fsyncs
   the parent (campaign_live_smoke.py:957). The other opens the directory, writes
   and fsyncs its marker and sends; if power fails before the first one's fsync,
   the directory is gone, and a later run sends the plan again.
   `docs/architecture/data-contracts.md:1203` and `:1278` promise at most one attempt.
2. **An attempt without a record** (`attempt_deep`). The decoder's `RecursionError`
   on the content of a completion is not caught (`HA/_canonical.py:94`) although
   that of the outer document is (`HA/deepseek_adapter.py:686`). The request was
   sent, but neither receipt nor observation remain, against
   `docs/architecture/data-contracts.md:1220`. The document campaign has the same gap:
   neither `load_json_model` (`KN/document_first/_canonical.py:75`) nor its caller
   (`live_smoke.py:623`) catches it, and the campaign ends with a spent plan that has no
   receipt and leaves the rest untried, against
   `docs/architecture/data-contracts.md:256-257`; `EndsAreExplained` has it as a cause.
Noted without a run:

* The document commands secure a new state directory like the shadow campaign does
  (`live_smoke.py:532`), so finding 1 holds of them too; the runs here lose power
  only with an old directory.
* The single attempt command of the shadow pipeline fsyncs its marker but neither the
  state directory nor its parent (`HA/live_smoke.py:593-631`), so a power failure can undo
  a reservation. The ledger's docstring calls it "neither a cost ledger nor durable
  authority", so nothing is contradicted; `SingleAttempt` has no power failures.
* `_absolute_wall_clock_deadline` refuses (no main thread, timer in use) with a
  `RuntimeError` inside the `try` that turns every one of them into a
  `transport_error` receipt with `network_attempted=true` (`live_smoke.py:752-759`),
  though nothing was sent. The commands never meet it.
* A reply whose usage overran its reservation is an ordinary failed item, but can push
  the total over the cap, and then the campaign receipt refuses itself
  (`campaign_live.py:189`): all plans are recorded and the campaign is not.
  `EndsAreExplained` pins down that nothing else can make it do so.
* A single run does not look for what an earlier one left in its folder; with another
  state directory the files of two attempts can be mixed. What
  `ReceiptsAreTrue` says of the other files of a folder is claimed for campaigns only.
* `publish --switch-alias` checks the alias in a transaction after the switch
  (`RT/runtime.py:271`); a release that is overtaken reports a failure though its
  switch took effect. `FailuresAreExplained` pins down that this is the only way it
  can happen.
* A run of the review tool that is killed between the review and the receipt leaves a
  response that is complete and valid; the campaign is refused from then on
  (`KN/review_campaign.py:1027`) until somebody removes the round.
* The tool writes a receipt whatever `stopReason` says
  (`tools/run_knowledge_grok_review.py:221`), and the summary then refuses the campaign for
  it (`KN/review_campaign.py:813`), so a review that was cut off costs the campaign
  and not the round. `TidyCampaignIsAccepted` excludes exactly these.
* A run of changed lines that touches a method and also lines which only the class, or
  nothing, holds leaves those lines unassigned (`_assign_declarations` takes hosts only
  if no method was selected), so the whole change is reported and blocks the
  dispatch of the change set. `EveryLineIsReviewedOrReported` says when this may happen.
* The static arm of the shadow service is made without the AI, but checked with it.
  `_fuse` looks at the scores of the pools of its arm, so a clause's score of the AI is
  always -1 in the static arm (`RT/shadow_service_v3.py`); `validate_unit` in
  `RT/shadow_models_v3.py` reads the scores of all pools. Two clauses equal in fused,
  exact, vector, hint and keyword scores, of which the AI found the later one by
  platform, authority and name, are in two orders, and `compare()` raises "Shadow Arm
  ranking differs from the frozen fusion policy" for the whole request, though
  `docs/modules/06-retrieval.md:216` says the static arm does not consume `ai_inferred`.
  `RefusedOnlyForATie` says that the check refuses in this case, always in it, and in no
  other.
* One comment between a decorator and its declaration ends the analysis of all files of a
  call. The units of `analyze_files` come from the older list of declarations, which begin
  at decorators on the lines directly above (`_span_with_leading_decorators`,
  `CA/arkts_tree_sitter_parser.py:186`); the occurrences begin at the first decorator,
  skipping comments (`sidecars/arkts-parser/parse_arkts.js:454`).
  `_attach_declaration_identity` (`CA/file_analysis_parser.py:338`) ties the two by kind,
  names and last line, so `project()` (`CA/unit_facts.py:59-62`) finds different first lines
  and raises "ReviewUnit owner identity does not match FileAnalysis occurrence", for
  instance for `@Builder`, `// comment`, `content() {...}` on three lines.
  `tests/test_file_analysis_parser.py:313-344` asserts the two first lines under one
  identity. Change sets use the occurrences only and are not affected.
  `FilesAreReviewedOrRefusedForCause` pins down that this is one of two causes; the other is
  an empty file in full mode.
* A method that holds an anonymous class does not get the facts in the fields of that
  class: an anonymous class is no declaration, so its fields are hosted by the struct
  around the method (`v2NearestHost`, `sidecars/arkts-parser/parse_arkts.js:738`) and count
  for that only. `QuestionsAreEarned` therefore asks for all of a unit's questions of structs
  and classes only.
* Lines are counted in two ways: the ranges of declarations and regions by `"\n"`
  (`CA/change_review.py:279`), the text of units and the diff by `splitlines()`
  (`CA/text_utils.py:93`, `CA/change_set.py:64`). A form feed or U+2028 in a source shifts
  `full_text` against the unit's lines, while `docs/architecture/data-contracts.md:680`
  has it equal the source of `context_span`. Lines are numbers in the model.


## 7. Not modelled, and the plan

Order: what is irreversible first, then what is shared, then the algorithms.

1. *Done:* shadow campaign, gate, attempt, single attempt command, retrieval store, context planner,
   document-first campaign; formal execution, migrations and the document projection
   store, knowledge review from the call to the publication, change review, retrieval and
   its shadow service, feature routing and the analysis of files.
2. The GLM judge's retries; the partial audit of an unfinished knowledge review.
3. Algorithms as operators against reference definitions over bounded inputs: the
   compiler of document cards.

Not modelled in components that are: what migration files do to the schema beyond
creating the tables, TRUNCATE and clients that drop triggers, the columns of rows
beyond their identity; the parsers behind change review and their fallbacks, the
canonical names of APIs, triggers by the role of an owner and the replay of a routing; usage and latency in formal evidence; building the index from
the knowledge base, import uses and candidate dimensions in retrieval.

Left out for good: the content of prompts, hashes and canonical JSON; argument
parsing and display; the sidecars' parsers and vendored grammars; golden sets,
which are data. `campaign_summary_invalid`, the self-check of the summary object,
is not modelled.
