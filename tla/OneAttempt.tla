----------------------------- MODULE OneAttempt -----------------------------
(***************************************************************************)
(* What the local reservation markers promise, whatever the processes,     *)
(* system calls and failures behind them: a plan is reserved before it is  *)
(* sent to the provider, it is sent at most once, and once it has been     *)
(* sent its reservation is never given back.  A reservation nobody used    *)
(* may be lost.                                                            *)
(***************************************************************************)
EXTENDS Naturals

CONSTANT Plan

VARIABLES
  reserved,   \* the plans whose reservation is taken
  attempts    \* how often each plan has been handed to the transport

vars == <<reserved, attempts>>

TypeOK ==
  /\ reserved \subseteq Plan
  /\ attempts \in [Plan -> Nat]

Init ==
  /\ reserved = {}
  /\ attempts = [q \in Plan |-> 0]

Reserve(q) ==
  /\ q \notin reserved
  /\ reserved' = reserved \cup {q}
  /\ UNCHANGED attempts

Attempt(q) ==
  /\ q \in reserved
  /\ attempts[q] = 0
  /\ attempts' = [attempts EXCEPT ![q] = 1]
  /\ UNCHANGED reserved

Lose(lost) ==
  /\ lost \subseteq {q \in reserved : attempts[q] = 0}
  /\ reserved' = reserved \ lost
  /\ UNCHANGED attempts

Next ==
  \/ \E q \in Plan : Reserve(q) \/ Attempt(q)
  \/ \E lost \in SUBSET Plan : Lose(lost)

Spec == Init /\ [][Next]_vars
=============================================================================
