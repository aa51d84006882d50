------------------------------ MODULE Workload -------------------------------
(***************************************************************************)
(* What a publisher promises, whatever its command line, its user, the     *)
(* network and other publishers do: which payloads it may send next, and   *)
(* what it has sent when it ends in good order.  It may fail at any time.  *)
(***************************************************************************)
EXTENDS Integers, Sequences

CONSTANTS Publisher, NoJob, Forever

VARIABLES
  job,      \* the mode, the length of the list, the count
  sent,     \* positions in the list, in the order sent
  status    \* "running", "done", "failed"

vars == <<job, sent, status>>

Job == [mode : {"all_once", "manual", "random"}, length : Nat,
        count : Int \cup {Forever}]

Init ==
  /\ job \in [Publisher -> Job \cup {NoJob}]
  /\ sent = [p \in Publisher |-> <<>>]
  /\ status = [p \in Publisher |-> "running"]

\* Payload k may come next: each once in the order of the list, or what the
\* user wants, or any as long as the count is not reached.
May(p, k) ==
  /\ k \in 1 .. job[p].length
  /\ \/ job[p].mode = "all_once" /\ k = Len(sent[p]) + 1
     \/ job[p].mode = "manual"
     \/ /\ job[p].mode = "random"
        /\ job[p].count = Forever \/ Len(sent[p]) < job[p].count

\* Nothing is left to do.  A run without a count never gets there.
Complete(p) ==
  /\ job[p] # NoJob
  /\ \/ job[p].mode = "all_once" /\ Len(sent[p]) = job[p].length
     \/ job[p].mode = "manual"
     \/ /\ job[p].mode = "random" /\ job[p].count # Forever
        /\ Len(sent[p]) >= job[p].count

Publish(p) ==
  /\ status[p] = "running" /\ job[p] # NoJob
  /\ \E k \in 1 .. job[p].length :
       May(p, k) /\ sent' = [sent EXCEPT ![p] = Append(@, k)]
  /\ \E how \in {"running", "failed"} : status' = [status EXCEPT ![p] = how]
  /\ UNCHANGED job

End(p) ==
  /\ status[p] = "running"
  /\ \/ Complete(p) /\ status' = [status EXCEPT ![p] = "done"]
     \/ status' = [status EXCEPT ![p] = "failed"]
  /\ UNCHANGED <<job, sent>>

Next == \E p \in Publisher : Publish(p) \/ End(p)

Spec == Init /\ [][Next]_vars
==============================================================================
