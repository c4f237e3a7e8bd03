------------------------------- MODULE Executor -------------------------------
(***************************************************************************)
(* What ola::thread::ExecutorInterface promises of an executor: a callback *)
(* is not run by Execute() itself, every callback is run once, in the      *)
(* order in which they were added, and none is left when the executor is   *)
(* destroyed.  SelectServer and ConsumerThread are shown to implement it.  *)
(*                                                                         *)
(* Callbacks are numbered as they are added.  The order is no longer       *)
(* promised once "ordered" is given up, which a detailed specification     *)
(* does where the code does.                                               *)
(***************************************************************************)
EXTENDS Naturals, Sequences

VARIABLES
  added,    \* how many callbacks have been added
  ran,      \* the callbacks run, in the order they were started
  ordered,  \* the order is still promised
  closed    \* the executor has been destroyed

vars == <<added, ran, ordered, closed>>

Pending == {i \in 1..added : \A k \in DOMAIN ran : ran[k] # i}

Init ==
  /\ added = 0
  /\ ran = <<>>
  /\ ordered \in BOOLEAN
  /\ closed = FALSE

Execute ==
  /\ ~closed
  /\ added' = added + 1
  /\ UNCHANGED <<ran, ordered, closed>>

RunCallback(i) ==
  /\ ~closed
  /\ i \in Pending
  /\ ordered => \A j \in Pending : i <= j
  /\ ran' = Append(ran, i)
  /\ UNCHANGED <<added, ordered, closed>>

GiveUpOrder ==
  /\ ordered' = FALSE
  /\ UNCHANGED <<added, ran, closed>>

Destroy ==
  /\ Pending = {}
  /\ closed' = TRUE
  /\ UNCHANGED <<added, ran, ordered>>

Next ==
  \/ Execute
  \/ \E i \in Pending : RunCallback(i)
  \/ GiveUpOrder
  \/ Destroy

Spec == Init /\ [][Next]_vars
=============================================================================
