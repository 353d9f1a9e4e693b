---------------------------- MODULE ReviewCycle ----------------------------
(***************************************************************************)
(* What a submit-and-review workflow promises, whoever implements it: work *)
(* is handed in as a numbered version, every version gets at most one      *)
(* decision, nothing new is handed in while a decision is due, and an      *)
(* approval is final.  Both the task workflow and the management report    *)
(* workflow implement this specification.                                  *)
(***************************************************************************)
EXTENDS Naturals, Sequences

CONSTANT Item

VARIABLES
  phase,      \* "DRAFTING", "AWAITING", "REVISING" or "APPROVED"
  versions,   \* how many versions were handed in
  decisions   \* the decision on each version, in order

cycleVars == <<phase, versions, decisions>>

Decision == {"APPROVE", "REQUEST_REVISION"}
Phase == {"DRAFTING", "AWAITING", "REVISING", "APPROVED"}

CycleInit ==
  /\ phase = [i \in Item |-> "DRAFTING"]
  /\ versions = [i \in Item |-> 0]
  /\ decisions = [i \in Item |-> << >>]

HandIn(i) ==
  /\ phase[i] \in {"DRAFTING", "REVISING"}
  /\ phase' = [phase EXCEPT ![i] = "AWAITING"]
  /\ versions' = [versions EXCEPT ![i] = @ + 1]
  /\ UNCHANGED decisions

Decide(i, d) ==
  /\ phase[i] = "AWAITING"
  /\ phase' = [phase EXCEPT ![i] = IF d = "APPROVE" THEN "APPROVED" ELSE "REVISING"]
  /\ decisions' = [decisions EXCEPT ![i] = Append(@, d)]
  /\ UNCHANGED versions

CycleNext == \E i \in Item : HandIn(i) \/ \E d \in Decision : Decide(i, d)

CycleSpec == CycleInit /\ [][CycleNext]_cycleVars
============================================================================
