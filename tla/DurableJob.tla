------------------------------ MODULE DurableJob ------------------------------
(* What a resumable background job promises to the people who watch it: it is  *)
(* open or closed, it moves forward through its checkpoints only while it is   *)
(* open, it reaches the last of them only by closing, and it never moves back, *)
(* whatever processes crash, stall or overlap and however often it is resumed. *)
EXTENDS Naturals

CONSTANTS Jobs, Last      \* the jobs, and the rank of the last checkpoint

VARIABLES phase, rank     \* phase[j]: absent, open or closed; rank[j]: checkpoint

vars == <<phase, rank>>

Init ==
    /\ phase = [j \in Jobs |-> "absent"]
    /\ rank = [j \in Jobs |-> 0]

Submit(j) ==
    /\ phase[j] = "absent"
    /\ phase' = [phase EXCEPT ![j] = "open"]
    /\ UNCHANGED rank

Advance(j) ==
    /\ phase[j] = "open"
    /\ rank[j] < rank'[j] /\ rank'[j] < Last
    /\ rank' = [rank EXCEPT ![j] = rank'[j]]
    /\ UNCHANGED phase

\* the last checkpoint is reached and the job closes, in one step
Complete(j) ==
    /\ phase[j] = "open"
    /\ rank[j] < Last
    /\ rank' = [rank EXCEPT ![j] = Last]
    /\ phase' = [phase EXCEPT ![j] = "closed"]

\* given up or cancelled, the checkpoint is kept
Close(j) ==
    /\ phase[j] = "open"
    /\ phase' = [phase EXCEPT ![j] = "closed"]
    /\ UNCHANGED rank

\* resumed where it stopped; a late resume may find the last checkpoint
Reopen(j) ==
    /\ phase[j] = "closed"
    /\ phase' = [phase EXCEPT ![j] = "open"]
    /\ UNCHANGED rank

Next == \E j \in Jobs : Submit(j) \/ Advance(j) \/ Complete(j) \/ Close(j) \/ Reopen(j)

Spec == Init /\ [][Next]_vars
=============================================================================
