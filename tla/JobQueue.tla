------------------------------- MODULE JobQueue -------------------------------
(***************************************************************************)
(* What the embedding queue promises to those who use it: jobs are taken   *)
(* one by one and served in that order, a batch at a time, until the queue *)
(* is closed and everything it took was served, or its worker is lost.     *)
(***************************************************************************)
EXTENDS Naturals, Sequences

CONSTANTS
    Jobs,
    Limit    \* jobs that are served at once

VARIABLES
    waiting,  \* jobs taken and not yet served, in order
    served,   \* jobs served, in order
    state

vars == <<waiting, served, state>>

Init ==
    /\ waiting = <<>>
    /\ served = <<>>
    /\ state = "open"

Take(job) ==
    /\ state = "open"
    /\ waiting' = Append(waiting, job)
    /\ UNCHANGED <<served, state>>

(* The next jobs leave the queue together, from its head.                   *)
Serve ==
    /\ state \in {"open", "closed"}
    /\ \E n \in 1..Len(waiting) :
         /\ n <= Limit
         /\ waiting' = SubSeq(waiting, n + 1, Len(waiting))
         /\ served' = served \o SubSeq(waiting, 1, n)
    /\ UNCHANGED state

Close ==
    /\ state = "open"
    /\ state' = "closed"
    /\ UNCHANGED <<waiting, served>>

(* Only a closed queue ends, and only when nobody waits in it.              *)
End ==
    /\ state = "closed"
    /\ waiting = <<>>
    /\ state' = "ended"
    /\ UNCHANGED <<waiting, served>>

(* What waits for a lost worker is lost.                                    *)
Lose ==
    /\ state \in {"open", "closed"}
    /\ state' = "lost"
    /\ UNCHANGED <<waiting, served>>

Next == (\E job \in Jobs : Take(job)) \/ Serve \/ Close \/ End \/ Lose
Spec == Init /\ [][Next]_vars

=============================================================================
