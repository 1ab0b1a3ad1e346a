-------------------------- MODULE RcontribPromise --------------------------
(***************************************************************************)
(* What a caller of Rcontrib.__call__ is promised, whatever the number of  *)
(* processes: a call of n rows either returns, and then holds the n        *)
(* answers in the order of the rows, or takes the whole process down.      *)
(* Answers become available in order and are never taken back.             *)
(***************************************************************************)
EXTENDS Naturals, Sequences

CONSTANT MaxRows              \* rows of the largest input

VARIABLES
  status,                     \* "idle", "busy" in a call, or "exited"
  rows,                       \* number of rows of the last call
  answers                     \* the answers of that call, so far

vars == <<status, rows, answers>>

(* The k-th answer is that of row k. *)
Answers(n) == [k \in 1..n |-> k]

Init ==
  /\ status = "idle"
  /\ rows = 0
  /\ answers = <<>>

Start(n) ==
  /\ status = "idle"
  /\ status' = "busy"
  /\ rows' = n
  /\ answers' = <<>>

Emit(n) ==
  /\ status = "busy"
  /\ Len(answers) < n /\ n <= rows
  /\ answers' = Answers(n)
  /\ UNCHANGED <<status, rows>>

Return ==
  /\ status = "busy"
  /\ answers = Answers(rows)
  /\ status' = "idle"
  /\ UNCHANGED <<rows, answers>>

Exit ==
  /\ status = "busy"
  /\ status' = "exited"
  /\ UNCHANGED <<rows, answers>>

Next ==
  \/ \E n \in 0..MaxRows : Start(n) \/ Emit(n)
  \/ Return
  \/ Exit

Safety == Init /\ [][Next]_vars

Spec == Safety /\ WF_vars(Return \/ \E n \in 1..MaxRows : Emit(n))
=============================================================================
