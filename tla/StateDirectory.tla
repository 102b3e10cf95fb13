--------------------------- MODULE StateDirectory ---------------------------
(***************************************************************************)
(* The private state directory the shadow campaign keeps on disk           *)
(* (hybrid_analysis/campaign_live_smoke.py): one marker file per plan,     *)
(* created with O_EXCL before the plan is sent, and one content-addressed  *)
(* result file per run, written to a temporary name and published with     *)
(* link().  The operating system is modelled as far as the code relies on  *)
(* it: O_CREAT|O_EXCL and link() fail on an existing name, a directory     *)
(* entry survives a power failure for sure only once its directory has     *)
(* been fsynced, and the entry of the state directory itself lives in its  *)
(* parent.                                                                 *)
(*                                                                         *)
(* The operators are fragments of actions: each constrains the primed      *)
(* value of the variables it names and leaves the rest to its caller.      *)
(***************************************************************************)
EXTENDS Naturals, FiniteSets

CONSTANTS
  NPlans,       \* how many plans the campaign has
  InitialDir    \* "absent", or "durable" when an earlier run left it behind

Plan == 1..NPlans

ASSUME NPlansAssumption == NPlans \in Nat \ {0}
ASSUME InitialDirAssumption == InitialDir \in {"absent", "durable"}

VARIABLES
  dir,        \* the state directory: "absent", "volatile" or "durable"
  marker,     \* per plan, the marker entry: "absent", "volatile" or "durable"
  temps,      \* temporary result files: [name, owner, whole]
  artifacts   \* published result files: [name, owner, whole, durable]

fsVars == <<dir, marker, temps, artifacts>>

EntryState == {"absent", "volatile", "durable"}

FsInit ==
  /\ dir = InitialDir
  /\ marker = [q \in Plan |-> "absent"]
  /\ temps = {}
  /\ artifacts = {}

Reserved(q) == marker[q] # "absent"

\* mutant: O_EXCL forgotten, an existing marker is opened again
CreateMarkerFile_Reopens(q) ==
  /\ marker' = [marker EXCEPT ![q] = IF Reserved(q) THEN @ ELSE "volatile"]
  /\ UNCHANGED <<dir, temps, artifacts>>

\* open(O_CREAT | O_EXCL) of the marker of plan q
CreateMarkerFile(q) ==
  /\ ~Reserved(q)
  /\ marker' = [marker EXCEPT ![q] = "volatile"]
  /\ UNCHANGED <<dir, temps, artifacts>>

\* the entry of the directory, made by mkdir() and secured in its parent
MakeDirectory ==
  /\ dir = "absent"
  /\ dir' = "volatile"
  /\ UNCHANGED <<marker, temps, artifacts>>

SyncParent ==
  /\ dir' = "durable"
  /\ UNCHANGED <<marker, temps, artifacts>>

Secured(state) == IF state = "absent" THEN "absent" ELSE "durable"

\* fsync() of the state directory: secures every entry it holds
SyncDirectory ==
  /\ marker' = [q \in Plan |-> Secured(marker[q])]
  /\ artifacts' = {[a EXCEPT !.durable = TRUE] : a \in artifacts}
  /\ UNCHANGED <<dir, temps>>

TempOf(name) == {t \in temps : t.name = name}
ArtifactOf(name) == {a \in artifacts : a.name = name}

\* mutant: O_EXCL forgotten, the temporary file of another run is opened
CreateTempFile_Shares(name, owner) ==
  /\ temps' = IF TempOf(name) = {}
              THEN {[name |-> name, owner |-> owner, whole |-> FALSE]} \cup temps
              ELSE temps
  /\ UNCHANGED <<dir, marker, artifacts>>

CreateTempFile(name, owner) ==
  /\ TempOf(name) = {}
  /\ temps' = temps \cup {[name |-> name, owner |-> owner, whole |-> FALSE]}
  /\ UNCHANGED <<dir, marker, artifacts>>

\* write() until everything is in, then fsync(), through the open descriptor
FillTempFile(name, owner) ==
  /\ temps' = {IF t.name = name /\ t.owner = owner THEN [t EXCEPT !.whole = TRUE] ELSE t :
                 t \in temps}
  /\ UNCHANGED <<dir, marker, artifacts>>

\* link(): a second name for whatever file the temporary name denotes
LinkArtifact(name) ==
  /\ TempOf(name) # {}
  /\ ArtifactOf(name) = {}
  /\ artifacts' = artifacts \cup
       {[name |-> t.name, owner |-> t.owner, whole |-> t.whole, durable |-> FALSE] :
          t \in TempOf(name)}
  /\ UNCHANGED <<dir, marker, temps>>

RemoveTempFile(name) ==
  /\ temps' = temps \ TempOf(name)
  /\ UNCHANGED <<dir, marker, artifacts>>

\* A power failure.  An entry that was not secured may be lost; what comes
\* back is on the disk.  A directory that was not secured in its parent may
\* be lost with everything in it.
LosePower ==
  \/ /\ dir = "volatile"
     /\ dir' = "absent"
     /\ marker' = [q \in Plan |-> "absent"]
     /\ temps' = {}
     /\ artifacts' = {}
  \/ \E lost \in SUBSET {q \in Plan : marker[q] = "volatile"} :
     \E lostArtifacts \in SUBSET {a \in artifacts : ~a.durable} :
     \E lostTemps \in SUBSET temps :
       /\ dir' = Secured(dir)
       /\ marker' = [q \in Plan |-> IF q \in lost THEN "absent" ELSE Secured(marker[q])]
       /\ artifacts' = {[a EXCEPT !.durable = TRUE] : a \in artifacts \ lostArtifacts}
       /\ temps' = temps \ lostTemps
=============================================================================
