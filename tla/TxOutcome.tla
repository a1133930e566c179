----------------------------- MODULE TxOutcome -----------------------------
(***************************************************************************)
(* What the kernel promises about world transactions: they are prepared in *)
(* the order of their names, one at a time as long as the run has not      *)
(* ended, and each is settled at most once, for good.                      *)
(***************************************************************************)
EXTENDS Integers

CONSTANT LastTx   \* transactions are named 1..LastTx

Tx == 1..LastTx

VARIABLES
  outcome,  \* transaction_states
  ended     \* the run has reached a terminal status

vars == <<outcome, ended>>

Settled == {"committed", "rolled_back", "compensated"}

Init ==
  /\ outcome = [t \in Tx |-> "none"]
  /\ ended = FALSE

Prepare(t) ==
  /\ \A u \in Tx : u >= t => outcome[u] = "none"
  /\ ended \/ \A u \in Tx : outcome[u] # "prepared"
  /\ outcome' = [outcome EXCEPT ![t] = "prepared"]
  /\ UNCHANGED ended

Settle(t) ==
  /\ outcome[t] = "prepared"
  /\ \E o \in Settled : outcome' = [outcome EXCEPT ![t] = o]
  /\ UNCHANGED ended

End ==
  /\ ended' = TRUE
  /\ UNCHANGED outcome

Next == End \/ \E t \in Tx : Prepare(t) \/ Settle(t)

Spec == Init /\ [][Next]_vars
=============================================================================
