---------------------------- MODULE EmbeddingWorker ----------------------------
(***************************************************************************)
(* The embedding queue and the task that drains it in batches: producers   *)
(* await a place in a bounded channel, the worker takes what is there up   *)
(* to a batch, calls the engine again when it fails, and counts what came  *)
(* of it.  The vectors themselves are dropped by the worker, so a job is   *)
(* done once it is counted.                                                *)
(***************************************************************************)
EXTENDS Naturals, Sequences, FiniteSets

CONSTANTS
    Producers,
    MaxJobs,      \* jobs of one producer: a bound
    Buffer,       \* places of the channel
    BatchSize,    \* 128 in EmbeddingWorkerConfig::default
    MaxRetries    \* 2 there

ASSUME WorkerAssumption ==
    /\ MaxJobs \in Nat
    /\ Buffer \in Nat \ {0}
    /\ BatchSize \in Nat
    /\ MaxRetries \in Nat

VARIABLES
    made,       \* jobs every producer has called enqueue for
    senders,    \* producers that await a place, in the order they asked
    open,       \* the queue has not been dropped
    accepted,   \* every job the channel took, in order
    queue,
    pc,         \* where the worker is
    batch,
    attempts,   \* calls of the engine for this batch
    success,
    handled,    \* every job of a finished batch, in order
    metrics

channel == <<made, senders, open, accepted>>
work == <<batch, attempts, success>>
vars == <<channel, queue, pc, work, handled, metrics>>

-----------------------------------------------------------------------------
(* Values *)

Job == Producers \X (1..MaxJobs)

(* A batch has its first job whatever the size it is to have.               *)
BatchLimit == IF BatchSize = 0 THEN 1 ELSE BatchSize

Metrics == [batches : Nat, items : Nat, failures : Nat]

(* The channel and the batch never outgrow their limits, the engine is      *)
(* called at most MaxRetries + 1 times for one batch, and a batch has jobs  *)
(* exactly while the worker is on it.                                       *)
TypeOK ==
    /\ made \in [Producers -> 0..MaxJobs]
    /\ senders \in Seq(Producers)
    /\ \A p \in Producers : made[p] = 0 => \A i \in 1..Len(senders) : senders[i] # p
    /\ open \in BOOLEAN
    /\ accepted \in Seq(Job)
    /\ queue \in Seq(Job) /\ Len(queue) <= Buffer
    /\ pc \in {"recv", "fill", "embed", "record", "sleep", "done", "gone"}
    /\ batch \in Seq(Job) /\ Len(batch) <= BatchLimit
    /\ batch = <<>> <=> pc \in {"recv", "sleep", "done", "gone"}
    /\ attempts \in 0..(MaxRetries + 1)
    /\ pc = "embed" => attempts <= MaxRetries
    /\ success \in BOOLEAN
    /\ handled \in Seq(Job)
    /\ metrics \in Metrics

Init ==
    /\ made = [p \in Producers |-> 0]
    /\ senders = <<>>
    /\ open = TRUE
    /\ accepted = <<>>
    /\ queue = <<>>
    /\ pc = "recv"
    /\ batch = <<>>
    /\ attempts = 0
    /\ success = FALSE
    /\ handled = <<>>
    /\ metrics = [batches |-> 0, items |-> 0, failures |-> 0]

-----------------------------------------------------------------------------
(* Producers *)

Waiting(p) == \E i \in 1..Len(senders) : senders[i] = p

(* Mutant: a producer may ask again before it has its place. *)
EnqueueAgain(p) ==
    /\ open
    /\ made[p] < MaxJobs
    /\ made' = [made EXCEPT ![p] = @ + 1]
    /\ senders' = IF pc \in {"done", "gone"} THEN senders ELSE Append(senders, p)
    /\ UNCHANGED <<open, accepted, queue, pc, work, handled, metrics>>

(* A producer asks for a place; with the receiver gone it gets an error.    *)
Enqueue(p) ==
    /\ open
    /\ ~Waiting(p)
    /\ made[p] < MaxJobs
    /\ made' = [made EXCEPT ![p] = @ + 1]
    /\ senders' = IF pc \in {"done", "gone"} THEN senders ELSE Append(senders, p)
    /\ UNCHANGED <<open, accepted, queue, pc, work, handled, metrics>>

(* The channel gives its places to the producers in their order.            *)
Accept ==
    /\ senders # <<>>
    /\ Len(queue) < Buffer
    /\ LET job == <<Head(senders), made[Head(senders)]>>
       IN /\ queue' = Append(queue, job)
          /\ accepted' = Append(accepted, job)
    /\ senders' = Tail(senders)
    /\ UNCHANGED <<made, open, pc, work, handled, metrics>>

(* The queue is dropped when nobody is in enqueue any more.                 *)
DropQueue ==
    /\ open
    /\ senders = <<>>
    /\ open' = FALSE
    /\ UNCHANGED <<made, senders, accepted, queue, pc, work, handled, metrics>>

-----------------------------------------------------------------------------
(* The worker *)

Receive ==
    /\ pc = "recv"
    /\ queue # <<>>
    /\ batch' = <<Head(queue)>>
    /\ queue' = Tail(queue)
    /\ pc' = "fill"
    /\ UNCHANGED <<channel, attempts, success, handled, metrics>>

(* Mutant: the worker ends at an empty channel, whoever may still send. *)
FinishWhenEmpty ==
    /\ pc = "recv"
    /\ queue = <<>>
    /\ senders = <<>>
    /\ pc' = "done"
    /\ UNCHANGED <<channel, queue, work, handled, metrics>>

(* recv returns None only when the channel is closed and drained.           *)
Finish ==
    /\ pc = "recv"
    /\ queue = <<>>
    /\ ~open
    /\ pc' = "done"
    /\ UNCHANGED <<channel, queue, work, handled, metrics>>

(* Mutant: the size of the batch is looked at after try_recv. *)
FillDropping ==
    /\ pc = "fill"
    /\ queue # <<>>
    /\ batch' = IF Len(batch) < BatchSize THEN Append(batch, Head(queue)) ELSE batch
    /\ queue' = Tail(queue)
    /\ UNCHANGED <<channel, pc, attempts, success, handled, metrics>>

Fill ==
    /\ pc = "fill"
    /\ Len(batch) < BatchSize
    /\ queue # <<>>
    /\ batch' = Append(batch, Head(queue))
    /\ queue' = Tail(queue)
    /\ UNCHANGED <<channel, pc, attempts, success, handled, metrics>>

(* The batch is full or try_recv finds nothing.                             *)
EndFill ==
    /\ pc = "fill"
    /\ Len(batch) >= BatchSize \/ queue = <<>>
    /\ pc' = "embed"
    /\ attempts' = 0
    /\ success' = FALSE
    /\ UNCHANGED <<channel, queue, batch, handled, metrics>>

(* Mutant: the attempts start again when they are used up. *)
EmbedForever ==
    /\ pc = "embed"
    /\ \E ok \in BOOLEAN :
         /\ success' = ok
         /\ pc' = IF ok THEN "record" ELSE "embed"
    /\ attempts' = IF attempts = MaxRetries THEN 0 ELSE attempts + 1
    /\ UNCHANGED <<channel, queue, batch, handled, metrics>>

(* One call of embed_batch, which may fail at any attempt.                  *)
Embed ==
    /\ pc = "embed"
    /\ \E ok \in BOOLEAN :
         /\ success' = ok
         /\ pc' = IF ok \/ attempts = MaxRetries THEN "record" ELSE "embed"
    /\ attempts' = attempts + 1
    /\ UNCHANGED <<channel, queue, batch, handled, metrics>>

(* A batch whose calls all failed is dropped and counted as one failure.    *)
Record ==
    /\ pc = "record"
    /\ metrics' = IF success
                  THEN [metrics EXCEPT !.batches = @ + 1, !.items = @ + Len(batch)]
                  ELSE [metrics EXCEPT !.failures = @ + 1]
    /\ handled' = handled \o batch
    /\ batch' = <<>>
    /\ pc' = "sleep"
    /\ UNCHANGED <<channel, queue, attempts, success>>

Wake ==
    /\ pc = "sleep"
    /\ pc' = "recv"
    /\ UNCHANGED <<channel, queue, work, handled, metrics>>

(* The task ends outside of its code: at an await, and the channel's jobs   *)
(* are dropped with the receiver.                                           *)
Die ==
    /\ pc \in {"recv", "sleep"}
    /\ pc' = "gone"
    /\ senders' = <<>>
    /\ UNCHANGED <<made, open, accepted, queue, work, handled, metrics>>

-----------------------------------------------------------------------------
Worker == Receive \/ Finish \/ Fill \/ EndFill \/ Embed \/ Record \/ Wake
Stopped == pc \in {"done", "gone"}

Next ==
    \/ \E p \in Producers : Enqueue(p)
    \/ Accept \/ DropQueue
    \/ Receive \/ Finish \/ Fill \/ EndFill \/ Embed \/ Record \/ Wake
    \/ Die

Spec == Init /\ [][Next]_vars

(* The runtime polls the worker, and the channel serves who waits.          *)
FairSpec == Spec /\ WF_vars(Worker) /\ WF_vars(Accept)

-----------------------------------------------------------------------------
(* Properties *)

(* Every job the channel took is in exactly one place, and the jobs keep    *)
(* their order through channel, batch and engine.                           *)
JobsKeepOrder == handled \o (batch \o queue) = accepted

(* Jobs of one producer are taken once each and in the order it made them.  *)
NoJobTwice ==
    \A i, j \in 1..Len(accepted) :
        i < j /\ accepted[i][1] = accepted[j][1] => accepted[i][2] < accepted[j][2]

(* Who waits does so once, for the job it made last.                        *)
SendersInStep ==
    /\ \A i, j \in 1..Len(senders) : senders[i] = senders[j] => i = j
    /\ \A i \in 1..Len(accepted) :
         /\ accepted[i][2] <= made[accepted[i][1]]
         /\ Waiting(accepted[i][1]) => accepted[i][2] < made[accepted[i][1]]

(* The counters account for every finished batch: no item is counted that   *)
(* was not handled, and what is missing was dropped by at most as many      *)
(* failed batches as are counted.                                           *)
MetricsAccount ==
    /\ metrics.items + metrics.failures <= Len(handled)
    /\ Len(handled) <= metrics.items + metrics.failures * BatchLimit
    /\ metrics.batches <= metrics.items
    /\ metrics.items <= metrics.batches * BatchLimit

(* Nobody waits for a place in a queue that is dropped or has lost its      *)
(* worker.                                                                  *)
NobodyWaitsInVain ==
    /\ senders # <<>> => open /\ pc # "gone"
    /\ pc = "done" => ~open

(* The queue as its users know it: what is in the channel or in a batch     *)
(* waits, and a batch is served when it is counted.                         *)
QueueState ==
    CASE pc = "gone" -> "lost"
      [] pc = "done" -> "ended"
      [] OTHER       -> IF open THEN "open" ELSE "closed"

Promise == INSTANCE JobQueue
    WITH Jobs <- Job, Limit <- BatchLimit,
         waiting <- batch \o queue, served <- handled, state <- QueueState

(* The worker keeps the promise: jobs are served in the order the channel   *)
(* took them, at most a batch at once, none is served twice or left out, and*)
(* the worker ends only with a drained queue nobody can add to.             *)
ImplementsQueue == Promise!Spec

(* The inductive invariant.                                                 *)
WorkerInv ==
    /\ TypeOK /\ JobsKeepOrder /\ NoJobTwice /\ SendersInStep /\ MetricsAccount
    /\ NobodyWaitsInVain

(* A job the channel took is handled, unless the worker's task is gone.     *)
JobsAreHandled ==
    \A n \in 1..(MaxJobs * Cardinality(Producers)) :
        (Len(accepted) >= n) ~> (Len(handled) >= n \/ pc = "gone")

(* Once the queue is dropped the worker drains it and ends.                 *)
WorkerEnds == ~open ~> (Stopped /\ (pc = "done" => handled = accepted))

=============================================================================
