---------------------------- MODULE JobLifecycle ----------------------------
(***************************************************************************)
(* What the local queue promises about a job, without claims, snapshots or *)
(* processes: a job is absent, waits, is active with an executor and is    *)
(* over, in that order and never back; the oldest waiting job goes first;  *)
(* at most QueueCap jobs are waiting or active.  Once a write was lost a   *)
(* restart may find a job where it stood before, but never active.         *)
(***************************************************************************)
EXTENDS Naturals, FiniteSets

CONSTANTS MaxJobs, QueueCap

VARIABLES phase, lossy

Items == 1..MaxJobs
Live  == {j \in Items : phase[j] \in {"waiting", "active"}}

Init == phase = [j \in Items |-> "absent"] /\ lossy = FALSE

(* A new job is younger than every other one.                              *)
Accept(j, to) ==
    /\ phase[j] = "absent"
    /\ \A k \in Items : k > j => phase[k] = "absent"
    /\ Cardinality(Live) < QueueCap
    /\ to = "active" => \A k \in Items : phase[k] # "waiting"
    /\ phase' = [phase EXCEPT ![j] = to] /\ UNCHANGED lossy

Give(j) ==
    /\ phase[j] = "waiting"
    /\ \A k \in Items : phase[k] = "waiting" => j <= k
    /\ phase' = [phase EXCEPT ![j] = "active"] /\ UNCHANGED lossy

Close(j) ==
    /\ phase[j] \in {"waiting", "active"}
    /\ phase' = [phase EXCEPT ![j] = "over"] /\ UNCHANGED lossy

(* The executor is gone: all its jobs are over.                            *)
CloseActive ==
    /\ phase' = [j \in Items |-> IF phase[j] = "active" THEN "over" ELSE phase[j]]
    /\ UNCHANGED lossy

(* A write is lost, or a restart reads what earlier losses left.           *)
Earlier(p) ==
    CASE p = "absent"  -> {"absent"}
      [] p = "waiting" -> {"absent", "waiting"}
      [] p = "active"  -> {"absent", "waiting", "active", "over"}
      [] p = "over"    -> {"absent", "waiting", "over"}
Lapse ==
    /\ lossy' = TRUE
    /\ DOMAIN phase' = Items
    /\ \A j \in Items : phase'[j] \in Earlier(phase[j])

Next ==
    \/ \E j \in Items, to \in {"waiting", "active"} : Accept(j, to)
    \/ \E j \in Items : Give(j)
    \/ \E j \in Items : Close(j)
    \/ CloseActive
    \/ Lapse

Spec == Init /\ [][Next]_<<phase, lossy>>
=============================================================================
