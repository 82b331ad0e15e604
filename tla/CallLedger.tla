----------------------------- MODULE CallLedger -----------------------------
(***************************************************************************)
(* What the producer promises its caller, and nothing about how: every     *)
(* call on a Logger ends either as one record a reader of the segment can  *)
(* decode, whole and for good, or as exactly one counted drop.             *)
(***************************************************************************)
EXTENDS Naturals

CONSTANTS
  Loggers,   \* the Loggers calls are made on
  Calls      \* call numbers, 1..n

VARIABLES
  outcome,   \* [Loggers -> [Calls -> Outcomes]]
  lost       \* [Loggers -> Nat]: the drops the Logger reports

Outcomes == {"none", "pending", "recorded", "dropped"}

Init ==
  /\ outcome = [l \in Loggers |-> [n \in Calls |-> "none"]]
  /\ lost = [l \in Loggers |-> 0]

Move(l, n, from, to) ==
  /\ outcome[l][n] = from
  /\ outcome' = [outcome EXCEPT ![l][n] = to]

Begin(l, n) == Move(l, n, "none", "pending") /\ UNCHANGED lost

Record(l, n) == Move(l, n, "pending", "recorded") /\ UNCHANGED lost

Drop(l, n) ==
  /\ Move(l, n, "pending", "dropped")
  /\ lost' = [lost EXCEPT ![l] = @ + 1]

Next ==
  \E l \in Loggers, n \in Calls : Begin(l, n) \/ Record(l, n) \/ Drop(l, n)

Spec == Init /\ [][Next]_<<outcome, lost>>

(* Every call is settled.                                                  *)
Settles ==
  \A l \in Loggers, n \in Calls :
    outcome[l][n] = "pending" ~> outcome[l][n] \in {"recorded", "dropped"}

=============================================================================
