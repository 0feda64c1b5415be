---------------------------- MODULE TransferQueue ----------------------------
(***************************************************************************)
(* What the transfer engine promises its clients, without threads, locks,  *)
(* USB or cancellation points: jobs are finished one at a time, in the     *)
(* order in which they were submitted, and only a job somebody asked to    *)
(* cancel is ever reported as cancelled.  TransferEngine implements it.    *)
(***************************************************************************)
EXTENDS Naturals, Sequences

CONSTANT Jobs

VARIABLES
  order,    (* the jobs submitted so far, oldest first *)
  status,   (* where each job is in its life *)
  asked     (* the jobs somebody asked to cancel *)

vars == <<order, status, asked>>

Terminal == {"Done", "Failed", "Cancelled"}
Status == {"Unborn", "Queued", "Active"} \cup Terminal

(* The job at position k is at the head of the line: all before it are over. *)
AtHead(k) == \A j \in 1..(k - 1) : status[order[j]] \in Terminal

Init ==
  /\ order = <<>>
  /\ status = [j \in Jobs |-> "Unborn"]
  /\ asked = {}

Submit(j) ==
  /\ status[j] = "Unborn"
  /\ order' = Append(order, j)
  /\ status' = [status EXCEPT ![j] = "Queued"]
  /\ UNCHANGED asked

Ask(some) ==
  /\ \A j \in some : status[j] # "Unborn"
  /\ asked' = asked \cup some
  /\ UNCHANGED <<order, status>>

Start(k) ==
  /\ AtHead(k)
  /\ status[order[k]] = "Queued"
  /\ status' = [status EXCEPT ![order[k]] = "Active"]
  /\ UNCHANGED <<order, asked>>

Skip(k) ==
  /\ AtHead(k)
  /\ status[order[k]] = "Queued"
  /\ order[k] \in asked
  /\ status' = [status EXCEPT ![order[k]] = "Cancelled"]
  /\ UNCHANGED <<order, asked>>

Finish(k, outcome) ==
  /\ status[order[k]] = "Active"
  /\ outcome \in Terminal
  /\ outcome = "Cancelled" => order[k] \in asked
  /\ status' = [status EXCEPT ![order[k]] = outcome]
  /\ UNCHANGED <<order, asked>>

Next ==
  \/ \E j \in Jobs : Submit(j)
  \/ \E some \in SUBSET Jobs : Ask(some)
  \/ \E k \in 1..Len(order) :
       Start(k) \/ Skip(k) \/ \E outcome \in Terminal : Finish(k, outcome)

Spec == Init /\ [][Next]_vars
==============================================================================
