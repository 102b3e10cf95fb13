--------------------------- MODULE AttestedAttempt ---------------------------
(***************************************************************************)
(* What a formal execution runner promises of the attempts it makes with   *)
(* the capabilities it is given: one attempt per capability, one signature *)
(* per attempt, after the attempt and over what came back, and evidence    *)
(* only for what was signed.  Evidence is never withdrawn.                 *)
(***************************************************************************)
CONSTANT Cap   \* capabilities

VARIABLES
  attempted,   \* the capabilities an attempt was made with
  signed,      \* what has been signed: [cap, content]
  evidenced    \* the capabilities for which evidence was handed out

vars == <<attempted, signed, evidenced>>

Init == attempted = {} /\ signed = {} /\ evidenced = {}

Attempt(c) ==
  /\ c \notin attempted
  /\ attempted' = attempted \cup {c}
  /\ UNCHANGED <<signed, evidenced>>

Sign(c) ==
  /\ c \in attempted
  /\ \A s \in signed : s.cap # c
  /\ \E s \in signed' : s.cap = c /\ signed' = signed \cup {s}
  /\ UNCHANGED <<attempted, evidenced>>

HandOut(c) ==
  /\ \E s \in signed : s.cap = c
  /\ evidenced' = evidenced \cup {c}
  /\ UNCHANGED <<attempted, signed>>

Next == \E c \in Cap : Attempt(c) \/ Sign(c) \/ HandOut(c)

Spec == Init /\ [][Next]_vars
=============================================================================
