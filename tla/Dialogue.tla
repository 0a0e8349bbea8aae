-------------------------------- MODULE Dialogue --------------------------------
(***************************************************************************)
(* What every loop of an agent promises, whatever model it talks to and    *)
(* however it acts: it asks, serves the calls of the answer one by one in  *)
(* their order, and asks again only when all of them are served; it asks   *)
(* a bounded number of times, and what it has given up stays as it is.     *)
(***************************************************************************)
EXTENDS Naturals, Sequences

CONSTANTS
  Replies,   \* the calls an answer may have: a set of sequences
  MaxAnswers \* the loop's max_iterations

VARIABLES
  answers,   \* the calls of each answer so far
  served,    \* how many calls of the last answer are served
  over

vars == <<answers, served, over>>

Open == answers # <<>> /\ served < Len(answers[Len(answers)])

Init == answers = <<>> /\ served = 0 /\ over = FALSE

(* The model answers; an answer that ends the loop is not served.          *)
Answer(calls) ==
  /\ ~over /\ ~Open /\ Len(answers) < MaxAnswers
  /\ answers' = Append(answers, calls)
  /\ served' = 0
  /\ over' \in BOOLEAN
  /\ calls = <<>> => over'

(* The next call is served; the last service may end the loop.             *)
Serve ==
  /\ ~over /\ Open
  /\ served' = served + 1
  /\ over' \in BOOLEAN
  /\ UNCHANGED answers

GiveUp ==
  /\ ~over /\ over' = TRUE
  /\ UNCHANGED <<answers, served>>

(* The next task of a benchmark. *)
Again ==
  /\ over /\ over' = FALSE
  /\ answers' = <<>> /\ served' = 0

Next ==
  \/ \E calls \in Replies : Answer(calls)
  \/ Serve \/ GiveUp \/ Again

Spec == Init /\ [][Next]_vars
=================================================================================
