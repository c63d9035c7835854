------------------------- MODULE EmbeddingWorkerProofs -------------------------
(***************************************************************************)
(* Theorems about EmbeddingWorker, for any producers, any channel, any     *)
(* batch size and any number of retries.                                   *)
(***************************************************************************)
EXTENDS EmbeddingWorker, SequenceTheorems, TLAPS

(* Taking the head of one sequence to the end of the one before it.         *)
LEMMA HeadMoves ==
    ASSUME NEW S, NEW s \in Seq(S), NEW t \in Seq(S), t # <<>>
    PROVE  Append(s, Head(t)) \o Tail(t) = s \o t
<1>1. Head(t) \in S /\ Tail(t) \in Seq(S) /\ <<Head(t)>> \in Seq(S)
  BY HeadTailProperties
<1>2. <<Head(t)>> \o Tail(t) = t
  <2>1. /\ Len(<<Head(t)>> \o Tail(t)) = Len(t)
        /\ \A i \in 1..Len(t) : (<<Head(t)>> \o Tail(t))[i] = t[i]
    BY <1>1, HeadTailProperties, ConcatProperties
  <2>2. <<Head(t)>> \o Tail(t) \in Seq(S)
    BY <1>1, ConcatProperties
  <2> QED  BY <2>1, <2>2, SeqEqual
<1>3. Append(s, Head(t)) = s \o <<Head(t)>>
  BY <1>1, AppendIsConcat
<1>4. (s \o <<Head(t)>>) \o Tail(t) = s \o (<<Head(t)>> \o Tail(t))
  BY <1>1, ConcatAssociative
<1> QED  BY <1>2, <1>3, <1>4

(* Appending to the last of two sequences appends to both together.         *)
LEMMA AppendMoves ==
    ASSUME NEW S, NEW s \in Seq(S), NEW t \in Seq(S), NEW e \in S
    PROVE  s \o Append(t, e) = Append(s \o t, e)
<1>1. <<e>> \in Seq(S) /\ s \o t \in Seq(S)
  BY ConcatProperties
<1>2. Append(t, e) = t \o <<e>> /\ Append(s \o t, e) = (s \o t) \o <<e>>
  BY <1>1, AppendIsConcat
<1>3. (s \o t) \o <<e>> = s \o (t \o <<e>>)
  BY <1>1, ConcatAssociative
<1> QED  BY <1>2, <1>3

LEMMA Sequences ==
    ASSUME TypeOK
    PROVE  /\ handled \in Seq(Job) /\ batch \in Seq(Job) /\ queue \in Seq(Job)
           /\ accepted \in Seq(Job) /\ senders \in Seq(Producers)
           /\ Len(handled) \in Nat /\ Len(batch) \in Nat /\ Len(queue) \in Nat
           /\ Len(accepted) \in Nat /\ Len(senders) \in Nat
BY DEF TypeOK

LEMMA Limits == BatchLimit \in Nat \ {0} /\ BatchSize <= BatchLimit
BY WorkerAssumption DEF BatchLimit

-----------------------------------------------------------------------------
(* Types *)

LEMMA TypeProducers ==
    ASSUME TypeOK, (\E p \in Producers : Enqueue(p)) \/ Accept \/ DropQueue
    PROVE  TypeOK'
<1> USE WorkerAssumption
<1>1. ASSUME NEW p \in Producers, Enqueue(p) PROVE TypeOK'
  <2>1. made' \in [Producers -> 0..MaxJobs] /\ made'[p] # 0
    BY <1>1 DEF Enqueue, TypeOK
  <2>2. Append(senders, p) \in Seq(Producers)
        /\ Len(Append(senders, p)) = Len(senders) + 1
        /\ \A i \in 1..Len(senders) : Append(senders, p)[i] = senders[i]
        /\ Append(senders, p)[Len(senders) + 1] = p
    BY AppendProperties DEF TypeOK
  <2>3. \A q \in Producers : made'[q] = 0 => made[q] = 0 /\ q # p
    BY <1>1, <2>1 DEF Enqueue, TypeOK
  <2>4. senders' \in Seq(Producers)
    BY <1>1, <2>2 DEF Enqueue, TypeOK
  <2>5. \A i \in 1..Len(senders') :
          \/ senders'[i] = p
          \/ i \in 1..Len(senders) /\ senders'[i] = senders[i]
    <3>1. CASE senders' = senders
      BY <3>1
    <3>2. CASE senders' = Append(senders, p)
      <4>1. Len(senders) \in Nat
        BY Sequences
      <4>2. \A i \in 1..(Len(senders) + 1) : i \in 1..Len(senders) \/ i = Len(senders) + 1
        BY <4>1
      <4> QED  BY <2>2, <3>2, <4>2
    <3> QED  BY <1>1, <3>1, <3>2 DEF Enqueue
  <2>6. \A q \in Producers :
          made'[q] = 0 => \A i \in 1..Len(senders') : senders'[i] # q
    BY <2>3, <2>5 DEF TypeOK
  <2> QED  BY <1>1, <2>1, <2>4, <2>6 DEF Enqueue, TypeOK, work
<1>2. CASE Accept
  <2> DEFINE job == <<Head(senders), made[Head(senders)]>>
  <2>1. /\ Head(senders) = senders[1] /\ Head(senders) \in Producers
        /\ Tail(senders) \in Seq(Producers) /\ Len(Tail(senders)) = Len(senders) - 1
        /\ \A i \in 1..Len(Tail(senders)) : Tail(senders)[i] = senders[i + 1]
        /\ Len(senders) \in Nat /\ Len(senders) >= 1
    BY <1>2, HeadTailProperties DEF Accept, TypeOK
  <2>2. made[Head(senders)] \in 1..MaxJobs
    BY <2>1 DEF TypeOK
  <2>3. job \in Job
    BY <2>1, <2>2 DEF Job
  <2> HIDE DEF job
  <2>4. /\ Append(queue, job) \in Seq(Job) /\ Len(Append(queue, job)) = Len(queue) + 1
        /\ Append(accepted, job) \in Seq(Job)
    BY <2>3, AppendProperties DEF TypeOK
  <2>5. queue' = Append(queue, job) /\ accepted' = Append(accepted, job)
    BY <1>2 DEF Accept, job
  <2>6. queue' \in Seq(Job) /\ Len(queue') <= Buffer /\ accepted' \in Seq(Job)
    <3>1. Len(queue) < Buffer /\ Len(queue) \in Nat
      BY <1>2, Sequences DEF Accept
    <3> QED  BY <2>4, <2>5, <3>1
  <2>7. \A q \in Producers :
          made[q] = 0 => \A i \in 1..Len(Tail(senders)) : Tail(senders)[i] # q
    BY <2>1 DEF TypeOK
  <2> QED  BY <1>2, <2>1, <2>6, <2>7 DEF Accept, TypeOK, work
<1>3. CASE DropQueue
  BY <1>3 DEF DropQueue, TypeOK, work
<1> QED  BY <1>1, <1>2, <1>3

LEMMA TypeWorker ==
    ASSUME TypeOK,
           Receive \/ Finish \/ Fill \/ EndFill \/ Embed \/ Record \/ Wake \/ Die
    PROVE  TypeOK'
<1> USE WorkerAssumption, Limits
<1>1. CASE Receive
  <2>1. /\ Head(queue) \in Job /\ Tail(queue) \in Seq(Job)
        /\ Len(Tail(queue)) = Len(queue) - 1
    BY <1>1, HeadTailProperties DEF Receive, TypeOK
  <2>2. <<Head(queue)>> \in Seq(Job) /\ Len(<<Head(queue)>>) = 1 /\ <<Head(queue)>> # <<>>
    BY <2>1
  <2>3. Len(queue) \in Nat
    BY DEF TypeOK
  <2> QED  BY <1>1, <2>1, <2>2, <2>3 DEF Receive, TypeOK, channel
<1>2. CASE Finish
  BY <1>2 DEF Finish, TypeOK, channel, work
<1>3. CASE Fill
  <2>1. /\ Head(queue) \in Job /\ Tail(queue) \in Seq(Job)
        /\ Len(Tail(queue)) = Len(queue) - 1
    BY <1>3, HeadTailProperties DEF Fill, TypeOK
  <2>2. /\ Append(batch, Head(queue)) \in Seq(Job)
        /\ Append(batch, Head(queue)) # <<>>
        /\ Len(Append(batch, Head(queue))) = Len(batch) + 1
    BY <2>1, Sequences, AppendProperties
  <2>3. Len(queue) \in Nat /\ Len(batch) \in Nat
    BY DEF TypeOK
  <2> QED  BY <1>3, <2>1, <2>2, <2>3 DEF Fill, TypeOK, channel
<1>4. CASE EndFill
  <2>1. 0 \in 0..(MaxRetries + 1) /\ 0 <= MaxRetries
    OBVIOUS
  <2>2. batch # <<>>
    BY <1>4 DEF EndFill, TypeOK
  <2> QED  BY <1>4, <2>1, <2>2 DEF EndFill, TypeOK, channel
<1>5. CASE Embed
  BY <1>5 DEF Embed, TypeOK, channel
<1>6. CASE Record
  <2>1. handled' \in Seq(Job)
    BY <1>6, ConcatProperties DEF Record, TypeOK
  <2>2. metrics' \in Metrics
    <3>1. Len(batch) \in Nat /\ metrics \in Metrics
      BY Sequences DEF TypeOK
    <3>2. /\ metrics.batches + 1 \in Nat /\ metrics.failures + 1 \in Nat
          /\ metrics.items + Len(batch) \in Nat
      BY <3>1 DEF Metrics
    <3>3. [metrics EXCEPT !.failures = @ + 1] \in Metrics
      BY <3>1, <3>2 DEF Metrics
    <3>4. [metrics EXCEPT !.batches = @ + 1, !.items = @ + Len(batch)] \in Metrics
      <4> DEFINE n == metrics.items + Len(batch)
      <4>1. n \in Nat
        BY <3>2
      <4> HIDE DEF n
      <4>2. [metrics EXCEPT !.batches = @ + 1, !.items = n] \in Metrics
        BY <3>1, <3>2, <4>1 DEF Metrics
      <4> QED  BY <4>2 DEF n
    <3> QED  BY <1>6, <3>3, <3>4 DEF Record
  <2>3. <<>> \in Seq(Job) /\ Len(<<>>) = 0
    OBVIOUS
  <2> QED  BY <1>6, <2>1, <2>2, <2>3 DEF Record, TypeOK, channel
<1>7. CASE Wake
  BY <1>7 DEF Wake, TypeOK, channel, work
<1>8. CASE Die
  <2>1. <<>> \in Seq(Producers) /\ Len(<<>>) = 0
    OBVIOUS
  <2> QED  BY <1>8, <2>1 DEF Die, TypeOK, work
<1> QED  BY <1>1, <1>2, <1>3, <1>4, <1>5, <1>6, <1>7, <1>8

-----------------------------------------------------------------------------
(* Order *)

LEMMA OrderNext ==
    ASSUME TypeOK, JobsKeepOrder, [Next]_vars
    PROVE  JobsKeepOrder'
<1> USE DEF JobsKeepOrder
<1>1. CASE UNCHANGED <<accepted, queue, batch, handled>>
  BY <1>1
<1>2. CASE Accept
  <2>1. PICK job \in Job : queue' = Append(queue, job) /\ accepted' = Append(accepted, job)
    <3>1. Head(senders) = senders[1] /\ Head(senders) \in Producers /\ Len(senders) >= 1
      BY <1>2, HeadTailProperties DEF Accept, TypeOK
    <3>2. made[Head(senders)] \in 1..MaxJobs
      BY <3>1, WorkerAssumption DEF TypeOK
    <3> QED  BY <1>2, <3>1, <3>2 DEF Accept, Job
  <2>2. batch \o Append(queue, job) = Append(batch \o queue, job)
    BY Sequences, AppendMoves
  <2>3. batch \o queue \in Seq(Job)
    BY Sequences, ConcatProperties
  <2>4. handled \o Append(batch \o queue, job) = Append(handled \o (batch \o queue), job)
    <3>1. handled \in Seq(Job)
      BY Sequences
    <3>2. \A s, t \in Seq(Job) : s \o Append(t, job) = Append(s \o t, job)
      BY AppendMoves
    <3> QED  BY <2>3, <3>1, <3>2, Zenon
  <2> QED  BY <1>2, <2>1, <2>2, <2>4 DEF Accept, work
<1>3. CASE Receive
  <2>1. batch = <<>> /\ queue # <<>>
    BY <1>3 DEF Receive, TypeOK
  <2>2. <<Head(queue)>> = Append(batch, Head(queue))
    BY <2>1, HeadTailProperties DEF TypeOK
  <2>3. batch' \o queue' = batch \o queue
    BY <1>3, <2>1, <2>2, HeadMoves DEF Receive, TypeOK
  <2> QED  BY <1>3, <2>3 DEF Receive, channel
<1>4. CASE Fill
  <2>1. batch' \o queue' = batch \o queue
    BY <1>4, HeadMoves DEF Fill, TypeOK
  <2> QED  BY <1>4, <2>1 DEF Fill, channel
<1>5. CASE Record
  <2>1. (handled \o batch) \o queue = handled \o (batch \o queue)
    <3>1. handled \in Seq(Job) /\ batch \in Seq(Job) /\ queue \in Seq(Job)
      BY Sequences
    <3>2. \A s, t, u \in Seq(Job) : (s \o t) \o u = s \o (t \o u)
      BY ConcatAssociative
    <3> QED  BY <3>1, <3>2, Zenon
  <2>2. <<>> \o queue = queue
    BY ConcatEmptySeq DEF TypeOK
  <2> QED  BY <1>5, <2>1, <2>2 DEF Record, channel
<1>6. CASE \/ \E p \in Producers : Enqueue(p)
           \/ DropQueue \/ Finish \/ EndFill \/ Embed \/ Wake \/ Die
  BY <1>1, <1>6 DEF Enqueue, DropQueue, Finish, EndFill, Embed, Wake, Die, channel, work
<1> QED  BY <1>1, <1>2, <1>3, <1>4, <1>5, <1>6 DEF Next, vars, channel, work

(* What the jobs of the channel are made of.                                *)
LEMMA AcceptedTyped ==
    ASSUME TypeOK
    PROVE  /\ Len(accepted) \in Nat
           /\ \A i \in 1..Len(accepted) :
                /\ accepted[i][1] \in Producers
                /\ accepted[i][2] \in Nat
                /\ made[accepted[i][1]] \in Nat
<1>1. accepted \in Seq(Job) /\ made \in [Producers -> 0..MaxJobs]
  BY DEF TypeOK
<1>2. \A q \in Producers : made[q] \in Nat
  BY <1>1, WorkerAssumption
<1> SUFFICES ASSUME NEW i \in 1..Len(accepted)
             PROVE  /\ accepted[i][1] \in Producers
                    /\ accepted[i][2] \in Nat
                    /\ made[accepted[i][1]] \in Nat
  BY <1>1, LenProperties
<1>3. accepted[i] \in Job
  BY <1>1, ElementOfSeq
<1>4. accepted[i][1] \in Producers /\ accepted[i][2] \in Nat
  BY <1>3, WorkerAssumption DEF Job
<1> QED  BY <1>2, <1>4

(* Jobs of one producer are taken in its order: who waits has made a job    *)
(* later than all it has in the channel.                                    *)
LEMMA TakenNext ==
    ASSUME TypeOK, NoJobTwice, SendersInStep, [Next]_vars
    PROVE  NoJobTwice' /\ SendersInStep'
<1> USE DEF NoJobTwice, SendersInStep, Waiting
<1>1. CASE UNCHANGED <<made, senders, accepted>>
  BY <1>1
<1>2. ASSUME NEW p \in Producers, Enqueue(p) PROVE NoJobTwice' /\ SendersInStep'
  <2>1. accepted' = accepted /\ made' = [made EXCEPT ![p] = @ + 1] /\ ~Waiting(p)
    BY <1>2 DEF Enqueue
  <2>2. \A i \in 1..Len(accepted) :
          /\ accepted[i][1] \in Producers /\ accepted[i][2] \in Nat
          /\ made[accepted[i][1]] \in Nat
    BY AcceptedTyped
  <2>3. \A q \in Producers : made[q] \in Nat /\ made'[q] = IF q = p THEN made[q] + 1 ELSE made[q]
    BY <2>1, WorkerAssumption DEF TypeOK
  <2>4. CASE senders' = senders
    BY <2>1, <2>2, <2>3, <2>4
  <2>5. CASE senders' = Append(senders, p)
    <3>1. /\ Len(senders') = Len(senders) + 1 /\ Len(senders) \in Nat
          /\ \A i \in 1..Len(senders) : senders'[i] = senders[i]
          /\ senders'[Len(senders) + 1] = p
      BY <2>5, Sequences, AppendProperties
    <3>2. \A i \in 1..Len(senders') : i \in 1..Len(senders) \/ i = Len(senders) + 1
      BY <3>1
    <3>3. \A i, j \in 1..Len(senders') : senders'[i] = senders'[j] => i = j
      BY <2>1, <3>1, <3>2
    <3>4. \A q : Waiting(q)' => q = p \/ Waiting(q)
      BY <3>1, <3>2
    <3>5. \A i \in 1..Len(accepted) :
            /\ accepted[i][2] <= made'[accepted[i][1]]
            /\ Waiting(accepted[i][1])' => accepted[i][2] < made'[accepted[i][1]]
      <4> SUFFICES ASSUME NEW i \in 1..Len(accepted)
                   PROVE  /\ accepted[i][2] <= made'[accepted[i][1]]
                          /\ Waiting(accepted[i][1])' => accepted[i][2] < made'[accepted[i][1]]
        OBVIOUS
      <4>1. /\ accepted[i][2] <= made[accepted[i][1]]
            /\ Waiting(accepted[i][1]) => accepted[i][2] < made[accepted[i][1]]
        OBVIOUS
      <4> HIDE DEF Waiting, SendersInStep
      <4> DEFINE q == accepted[i][1]
                 n == accepted[i][2]
      <4>2. q \in Producers /\ n \in Nat /\ made[q] \in Nat
        BY <2>2
      <4>3. n <= made[q] /\ (Waiting(q) => n < made[q])
        BY <4>1
      <4>4. made'[q] = IF q = p THEN made[q] + 1 ELSE made[q]
        BY <2>3, <4>2
      <4>5. Waiting(q)' => q = p \/ Waiting(q)
        BY <3>4, <2>1
      <4> QED  BY <4>2, <4>3, <4>4, <4>5
    <3> QED  BY <2>1, <3>3, <3>5
  <2> QED  BY <1>2, <2>4, <2>5 DEF Enqueue
<1>3. CASE Accept
  <2> DEFINE h == Head(senders)
  <2>1. /\ h = senders[1] /\ h \in Producers /\ made' = made
        /\ senders' = Tail(senders) /\ Len(senders') = Len(senders) - 1
        /\ \A i \in 1..Len(senders') : senders'[i] = senders[i + 1]
        /\ Len(senders) \in Nat /\ Len(senders) >= 1
    BY <1>3, Sequences, HeadTailProperties DEF Accept
  <2>2. /\ accepted' = Append(accepted, <<h, made[h]>>) /\ made[h] \in 1..MaxJobs
    BY <1>3, <2>1, WorkerAssumption DEF Accept, TypeOK
  <2> HIDE DEF h
  <2>3. <<h, made[h]>> \in Job
    BY <2>1, <2>2 DEF Job
  <2>4. /\ Len(accepted') = Len(accepted) + 1 /\ Len(accepted) \in Nat
        /\ \A i \in 1..Len(accepted) : accepted'[i] = accepted[i]
        /\ accepted'[Len(accepted) + 1] = <<h, made[h]>>
    BY <2>2, <2>3, Sequences, AppendProperties
  <2>5. \A i \in 1..Len(accepted') : i \in 1..Len(accepted) \/ i = Len(accepted) + 1
    BY <2>4
  <2>6. \A q : Waiting(q)' => Waiting(q) /\ q # h
    BY <2>1
  <2>7. Waiting(h)
    BY <2>1
  <2>8. \A i, j \in 1..Len(senders') : senders'[i] = senders'[j] => i = j
    BY <2>1
  <2>11. \A i \in 1..Len(accepted) :
           /\ accepted[i][2] <= made[accepted[i][1]]
           /\ Waiting(accepted[i][1]) => accepted[i][2] < made[accepted[i][1]]
    OBVIOUS
  <2>12. \A i \in 1..Len(accepted) : accepted[i][2] \in Nat /\ made[accepted[i][1]] \in Nat
    BY AcceptedTyped
  <2> HIDE DEF Waiting, SendersInStep
  <2>9. \A i \in 1..Len(accepted') :
          /\ accepted'[i][2] <= made'[accepted'[i][1]]
          /\ (\E k \in 1..Len(senders') : senders'[k] = accepted'[i][1])
                             => accepted'[i][2] < made'[accepted'[i][1]]
    <3> SUFFICES ASSUME NEW i \in 1..Len(accepted')
                 PROVE  /\ accepted'[i][2] <= made[accepted'[i][1]]
                        /\ (\E k \in 1..Len(senders') : senders'[k] = accepted'[i][1])
                             => accepted'[i][2] < made[accepted'[i][1]]
      BY <2>1
    <3>1. CASE i \in 1..Len(accepted)
      <4>1. accepted'[i] = accepted[i]
        BY <2>4, <3>1
      <4>2. (\E k \in 1..Len(senders') : senders'[k] = accepted'[i][1]) => Waiting(accepted[i][1])
        BY <2>6, <4>1 DEF Waiting
      <4> QED  BY <2>11, <3>1, <4>1, <4>2
    <3>2. CASE i = Len(accepted) + 1
      <4>1. accepted'[i][1] = h /\ accepted'[i][2] = made[h]
        BY <2>4, <3>2
      <4>2. ~\E k \in 1..Len(senders') : senders'[k] = h
        BY <2>6 DEF Waiting
      <4>3. ~\E k \in 1..Len(senders') : senders'[k] = accepted'[i][1]
        BY <4>1, <4>2 DEF Waiting
      <4> QED  BY <2>2, <4>1, <4>3
    <3> QED  BY <2>5, <3>1, <3>2
  <2>10. NoJobTwice'
    <3> SUFFICES ASSUME NEW i \in 1..Len(accepted'), NEW j \in 1..Len(accepted'),
                        i < j, accepted'[i][1] = accepted'[j][1]
                 PROVE  accepted'[i][2] < accepted'[j][2]
      OBVIOUS
    <3>1. i \in 1..Len(accepted) /\ accepted'[i] = accepted[i]
      BY <2>4
    <3>2. CASE j \in 1..Len(accepted)
      BY <2>4, <3>1, <3>2
    <3>3. CASE j = Len(accepted) + 1
      <4>1. accepted'[j][1] = h /\ accepted'[j][2] = made[h]
        BY <2>4, <3>3
      <4>2. Waiting(accepted[i][1]) /\ accepted[i][1] = h
        BY <2>7, <3>1, <4>1
      <4>3. accepted[i][2] < made[accepted[i][1]]
        BY <2>11, <3>1, <4>2
      <4> QED  BY <3>1, <4>1, <4>2, <4>3
    <3> QED  BY <2>5, <3>2, <3>3
  <2>13. \A i \in 1..Len(accepted') :
           /\ accepted'[i][2] <= made'[accepted'[i][1]]
           /\ (\E k \in 1..Len(senders') : senders'[k] = accepted'[i][1])
                => accepted'[i][2] < made'[accepted'[i][1]]
    BY <2>9
  <2> QED  BY <2>8, <2>13, <2>10 DEF SendersInStep, Waiting
<1>4. CASE Die
  BY <1>4 DEF Die
<1>5. CASE \/ DropQueue \/ Receive \/ Finish \/ Fill \/ EndFill \/ Embed \/ Record \/ Wake
  <2>1. UNCHANGED <<made, senders, accepted>>
    BY <1>5 DEF DropQueue, Receive, Finish, Fill, EndFill, Embed, Record, Wake, channel
  <2> QED  BY <1>1, <2>1
<1>6. CASE UNCHANGED vars
  BY <1>1, <1>6 DEF vars, channel
<1> QED  BY <1>2, <1>3, <1>4, <1>5, <1>6 DEF Next

-----------------------------------------------------------------------------
(* The counters *)

LEMMA BatchCounted ==
    \A b, n, f, h, x, k \in Nat :
        (/\ n + f <= h /\ h <= n + f * k /\ b <= n /\ n <= b * k
         /\ 1 <= x /\ x <= k)
        => /\ n + x + f <= h + x /\ h + x <= (n + x) + f * k
           /\ b + 1 <= n + x /\ n + x <= (b + 1) * k
           /\ n + (f + 1) <= h + x /\ h + x <= n + (f + 1) * k
<1> TAKE b, n, f, h, x, k \in Nat
<1> DEFINE bk == b * k
           fk == f * k
<1>1. bk \in Nat /\ fk \in Nat /\ (b + 1) * k = bk + k /\ (f + 1) * k = fk + k
  OBVIOUS
<1> HIDE DEF bk, fk
<1>2. (/\ n + f <= h /\ h <= n + fk /\ b <= n /\ n <= bk /\ 1 <= x /\ x <= k)
      => /\ n + x + f <= h + x /\ h + x <= (n + x) + fk
         /\ b + 1 <= n + x /\ n + x <= bk + k
         /\ n + (f + 1) <= h + x /\ h + x <= n + (fk + k)
  BY <1>1
<1> QED  BY <1>1, <1>2 DEF bk, fk

LEMMA MetricsNext ==
    ASSUME TypeOK, MetricsAccount, [Next]_vars
    PROVE  MetricsAccount'
<1> USE DEF MetricsAccount
<1>1. CASE UNCHANGED <<handled, metrics>>
  BY <1>1
<1>2. CASE Record
  <2>1. /\ metrics.items \in Nat /\ metrics.batches \in Nat /\ metrics.failures \in Nat
        /\ BatchLimit \in Nat /\ Len(handled) \in Nat /\ Len(batch) \in Nat
    BY Sequences, Limits DEF TypeOK, Metrics
  <2>2. Len(batch) >= 1 /\ Len(batch) <= BatchLimit
    <3>1. batch # <<>> /\ batch \in Seq(Job) /\ Len(batch) <= BatchLimit
      BY <1>2 DEF Record, TypeOK
    <3> QED  BY <3>1
  <2>3. Len(handled') = Len(handled) + Len(batch)
    BY <1>2, Sequences, ConcatProperties DEF Record
  <2>4. LET b == metrics.batches  n == metrics.items   f == metrics.failures
            h == Len(handled)      x == Len(batch)       k == BatchLimit
        IN /\ n + x + f <= h + x /\ h + x <= (n + x) + f * k
           /\ b + 1 <= n + x /\ n + x <= (b + 1) * k
           /\ n + (f + 1) <= h + x /\ h + x <= n + (f + 1) * k
    <3> DEFINE b == metrics.batches  n == metrics.items   f == metrics.failures
               h == Len(handled)      x == Len(batch)       k == BatchLimit
    <3>1. n + f <= h /\ h <= n + f * k /\ b <= n /\ n <= b * k /\ 1 <= x /\ x <= k
      BY <2>1, <2>2
    <3>2. b \in Nat /\ n \in Nat /\ f \in Nat /\ h \in Nat /\ x \in Nat /\ k \in Nat
      BY <2>1
    <3> HIDE DEF b, n, f, h, x, k
    <3>3. /\ n + x + f <= h + x /\ h + x <= (n + x) + f * k
          /\ b + 1 <= n + x /\ n + x <= (b + 1) * k
          /\ n + (f + 1) <= h + x /\ h + x <= n + (f + 1) * k
      BY <3>1, <3>2, BatchCounted
    <3> QED  BY <3>3 DEF b, n, f, h, x, k
  <2>5. CASE success
    <3> DEFINE n == metrics.items + Len(batch)
    <3>2. metrics' = [metrics EXCEPT !.batches = @ + 1, !.items = n]
      BY <1>2, <2>5 DEF Record
    <3>3. metrics \in Metrics
      BY DEF TypeOK
    <3> HIDE DEF n
    <3>4. /\ metrics'.batches = metrics.batches + 1
          /\ metrics'.items = n
          /\ metrics'.failures = metrics.failures
      BY <3>2, <3>3 DEF Metrics
    <3>1. metrics'.items = metrics.items + Len(batch)
      BY <3>4 DEF n
    <3> QED  BY <2>3, <2>4, <3>1, <3>4
  <2>6. CASE ~success
    <3>1. /\ metrics'.batches = metrics.batches /\ metrics'.items = metrics.items
          /\ metrics'.failures = metrics.failures + 1
      <4>1. metrics' = [metrics EXCEPT !.failures = @ + 1]
        BY <1>2, <2>6 DEF Record
      <4>2. metrics \in Metrics
        BY DEF TypeOK
      <4> QED  BY <4>1, <4>2 DEF Metrics
    <3> QED  BY <1>2, <2>1, <2>3, <2>4, <3>1
  <2> QED  BY <2>5, <2>6
<1>3. CASE \/ \E p \in Producers : Enqueue(p)
           \/ Accept \/ DropQueue
           \/ Receive \/ Finish \/ Fill \/ EndFill \/ Embed \/ Wake \/ Die
  <2>1. UNCHANGED <<handled, metrics>>
    BY <1>3 DEF Enqueue, Accept, DropQueue, Receive, Finish, Fill, EndFill, Embed, Wake,
       Die
  <2> QED  BY <1>1, <2>1
<1>4. CASE UNCHANGED vars
  BY <1>1, <1>4 DEF vars
<1> QED  BY <1>2, <1>3, <1>4 DEF Next

(* A producer is told when the queue has lost its worker, and the queue is  *)
(* dropped only when nobody waits.                                          *)
LEMMA WaitsNext ==
    ASSUME NobodyWaitsInVain, [Next]_vars
    PROVE  NobodyWaitsInVain'
<1> USE DEF NobodyWaitsInVain
<1>1. ASSUME NEW p \in Producers, Enqueue(p) PROVE NobodyWaitsInVain'
  BY <1>1 DEF Enqueue
<1>2. CASE Accept \/ DropQueue
  BY <1>2 DEF Accept, DropQueue
<1>3. CASE Receive \/ Finish \/ Fill \/ EndFill \/ Embed \/ Record \/ Wake \/ Die
  BY <1>3 DEF Receive, Finish, Fill, EndFill, Embed, Record, Wake, Die, channel
<1>4. CASE UNCHANGED vars
  BY <1>4 DEF vars, channel
<1> QED  BY <1>1, <1>2, <1>3, <1>4 DEF Next

-----------------------------------------------------------------------------
(* The theorems *)

LEMMA WorkerInit == Init => WorkerInv
<1> SUFFICES ASSUME Init PROVE WorkerInv
  OBVIOUS
<1>1. <<>> \in Seq(Job) /\ <<>> \in Seq(Producers) /\ Len(<<>>) = 0
  OBVIOUS
<1>2. TypeOK
  <2>1. made \in [Producers -> 0..MaxJobs] /\ attempts \in 0..(MaxRetries + 1)
    BY WorkerAssumption DEF Init
  <2>2. metrics \in Metrics
    BY DEF Init, Metrics
  <2>3. Len(queue) <= Buffer /\ Len(batch) <= BatchLimit
    BY <1>1, WorkerAssumption, Limits DEF Init
  <2>4. /\ accepted \in Seq(Job) /\ queue \in Seq(Job) /\ batch \in Seq(Job)
        /\ handled \in Seq(Job) /\ senders \in Seq(Producers)
    BY <1>1 DEF Init
  <2>5. \A p \in Producers : \A i \in 1..Len(senders) : senders[i] # p
    BY <1>1 DEF Init
  <2>6. open \in BOOLEAN /\ pc = "recv" /\ batch = <<>> /\ success \in BOOLEAN
    BY DEF Init
  <2> QED  BY <2>1, <2>2, <2>3, <2>4, <2>5, <2>6 DEF TypeOK
<1>3. JobsKeepOrder
  BY <1>1, ConcatEmptySeq DEF Init, JobsKeepOrder
<1>4. NoJobTwice /\ SendersInStep
  BY <1>1 DEF Init, NoJobTwice, SendersInStep, Waiting
<1>5. MetricsAccount
  BY <1>1, Limits DEF Init, MetricsAccount
<1>6. NobodyWaitsInVain
  BY DEF Init, NobodyWaitsInVain
<1> QED  BY <1>2, <1>3, <1>4, <1>5, <1>6 DEF WorkerInv

(* The inductive invariant of the queue and the worker holds throughout.    *)
THEOREM WorkerInvariant == Spec => []WorkerInv
<1>1. Init => WorkerInv
  BY WorkerInit
<1>2. WorkerInv /\ [Next]_vars => WorkerInv'
  <2> SUFFICES ASSUME WorkerInv, [Next]_vars PROVE WorkerInv'
    OBVIOUS
  <2>1. TypeOK'
    <3>1. CASE UNCHANGED vars
      BY <3>1 DEF WorkerInv, TypeOK, vars, channel, work
    <3> QED  BY <3>1, TypeProducers, TypeWorker DEF WorkerInv, Next
  <2> QED  BY <2>1, OrderNext, TakenNext, MetricsNext, WaitsNext DEF WorkerInv
<1> QED  BY <1>1, <1>2, PTL DEF Spec

(* Every job the channel took is handled, in the batch or in the channel,   *)
(* once and in the order it was taken.                                      *)
THEOREM OrderKept == Spec => []JobsKeepOrder
<1>1. WorkerInv => JobsKeepOrder
  BY DEF WorkerInv
<1> QED  BY <1>1, WorkerInvariant, PTL

(* The jobs of one producer are taken once each, in the order it made them. *)
THEOREM TakenOnce == Spec => []NoJobTwice
<1>1. WorkerInv => NoJobTwice
  BY DEF WorkerInv
<1> QED  BY <1>1, WorkerInvariant, PTL

(* The counters account for every job of a finished batch.                  *)
THEOREM CountersAccount == Spec => []MetricsAccount
<1>1. WorkerInv => MetricsAccount
  BY DEF WorkerInv
<1> QED  BY <1>1, WorkerInvariant, PTL

-----------------------------------------------------------------------------
(* The refinement *)

LEMMA PromisedInit == Init => Promise!Init
<1> SUFFICES ASSUME Init PROVE Promise!Init
  OBVIOUS
<1>1. <<>> \in Seq(Job) /\ <<>> \o <<>> = <<>>
  OBVIOUS
<1> QED  BY <1>1 DEF Init, Promise!Init, QueueState

(* The worker's steps between two batches only move jobs that wait.         *)
LEMMA PromisedStutter ==
    ASSUME TypeOK,
           \/ \E p \in Producers : Enqueue(p)
           \/ Receive \/ Fill \/ EndFill \/ Embed \/ Wake
           \/ UNCHANGED vars
    PROVE  UNCHANGED Promise!vars
<1>1. QueueState' = QueueState /\ handled' = handled
  BY DEF Enqueue, Receive, Fill, EndFill, Embed, Wake, QueueState, vars, channel, work
<1>2. CASE UNCHANGED <<batch, queue>>
  BY <1>1, <1>2 DEF Promise!vars
<1>3. CASE Receive
  <2>1. batch = <<>> /\ queue # <<>>
    BY <1>3 DEF Receive, TypeOK
  <2>2. <<Head(queue)>> = Append(batch, Head(queue))
    BY <2>1, HeadTailProperties DEF TypeOK
  <2>3. batch' \o queue' = batch \o queue
    BY <1>3, <2>1, <2>2, HeadMoves DEF Receive, TypeOK
  <2> QED  BY <1>1, <2>3 DEF Promise!vars
<1>4. CASE Fill
  <2>1. batch' \o queue' = batch \o queue
    BY <1>4, HeadMoves DEF Fill, TypeOK
  <2> QED  BY <1>1, <2>1 DEF Promise!vars
<1> QED  BY <1>2, <1>3, <1>4 DEF Enqueue, EndFill, Embed, Wake, vars, work

LEMMA PromisedTake ==
    ASSUME TypeOK, NobodyWaitsInVain, Accept
    PROVE  \E job \in Job : Promise!Take(job)
<1>1. PICK job \in Job : queue' = Append(queue, job)
  <2>1. Head(senders) = senders[1] /\ Head(senders) \in Producers /\ Len(senders) >= 1
    BY HeadTailProperties DEF Accept, TypeOK
  <2>2. made[Head(senders)] \in 1..MaxJobs
    BY <2>1, WorkerAssumption DEF TypeOK
  <2> QED  BY <2>1, <2>2 DEF Accept, Job
<1>2. batch' \o queue' = Append(batch \o queue, job)
  <2>1. batch \o Append(queue, job) = Append(batch \o queue, job)
    BY Sequences, AppendMoves
  <2> QED  BY <1>1, <2>1 DEF Accept, work
<1>3. QueueState = "open" /\ QueueState' = QueueState /\ handled' = handled
  BY DEF Accept, NobodyWaitsInVain, QueueState
<1>4. Promise!Take(job)
  BY <1>2, <1>3 DEF Promise!Take
<1> QED  BY <1>4

(* A counted batch is the head of what waits.                               *)
LEMMA PromisedServe ==
    ASSUME TypeOK, Record
    PROVE  Promise!Serve
<1> DEFINE all == batch \o queue
           n == Len(batch)
<1>1. /\ all \in Seq(Job) /\ batch \in Seq(Job) /\ queue \in Seq(Job)
      /\ n \in Nat /\ Len(queue) \in Nat /\ Len(all) = n + Len(queue)
      /\ \A i \in 1..Len(all) : all[i] = IF i <= n THEN batch[i] ELSE queue[i - n]
  BY Sequences, ConcatProperties
<1>2. n \in 1..Len(all) /\ n <= BatchLimit
  <2>1. batch # <<>> /\ n <= BatchLimit
    BY DEF Record, TypeOK
  <2>2. n # 0
    BY <1>1, <2>1, EmptySeq
  <2> QED  BY <1>1, <2>1, <2>2
<1>3. SubSeq(all, 1, n) = batch
  <2>1. /\ SubSeq(all, 1, n) \in Seq(Job) /\ Len(SubSeq(all, 1, n)) = n
        /\ \A i \in 1..n : SubSeq(all, 1, n)[i] = all[i]
    BY <1>1, <1>2, SubSeqProperties
  <2>2. \A i \in 1..n : SubSeq(all, 1, n)[i] = batch[i]
    BY <1>1, <2>1
  <2> QED  BY <1>1, <2>1, <2>2, SeqEqual
<1>4. SubSeq(all, n + 1, Len(all)) = queue
  <2>1. /\ SubSeq(all, n + 1, Len(all)) \in Seq(Job)
        /\ Len(SubSeq(all, n + 1, Len(all))) = Len(queue)
        /\ \A i \in 1..Len(queue) : SubSeq(all, n + 1, Len(all))[i] = all[n + i]
    BY <1>1, <1>2, SubSeqProperties
  <2>2. \A i \in 1..Len(queue) : SubSeq(all, n + 1, Len(all))[i] = queue[i]
    BY <1>1, <2>1
  <2> QED  BY <1>1, <2>1, <2>2, SeqEqual
<1>5. batch' \o queue' = queue
  BY <1>1, ConcatEmptySeq DEF Record
<1>6. handled' = handled \o batch
  BY DEF Record
<1>7. QueueState \in {"open", "closed"} /\ QueueState' = QueueState
  BY DEF Record, QueueState, channel
<1> HIDE DEF all, n
<1>8. /\ batch' \o queue' = SubSeq(all, n + 1, Len(all))
      /\ handled' = handled \o SubSeq(all, 1, n)
  BY <1>3, <1>4, <1>5, <1>6
<1>9. /\ QueueState \in {"open", "closed"}
      /\ \E k \in 1..Len(batch \o queue) :
           /\ k <= BatchLimit
           /\ (batch \o queue)' = SubSeq(batch \o queue, k + 1, Len(batch \o queue))
           /\ handled' = handled \o SubSeq(batch \o queue, 1, k)
      /\ UNCHANGED QueueState
  BY <1>2, <1>7, <1>8 DEF all
<1> QED  BY <1>9 DEF Promise!Serve

(* Every step is one of the promised ones, or none that users see.          *)
LEMMA PromisedNext ==
    ASSUME TypeOK, NobodyWaitsInVain, [Next]_vars
    PROVE  [Promise!Next]_(Promise!vars)
<1>1. CASE Accept
  BY <1>1, PromisedTake DEF Promise!Next
<1>2. CASE Record
  BY <1>2, PromisedServe DEF Promise!Next
<1>3. CASE DropQueue
  <2>1. UNCHANGED <<batch, queue, handled, pc>> /\ open /\ ~open'
    BY <1>3 DEF DropQueue, work
  <2>2. CASE pc = "gone"
    BY <2>1, <2>2 DEF Promise!vars, QueueState
  <2>3. CASE pc # "gone"
    <3>1. Promise!Close
      BY <2>1, <2>3 DEF Promise!Close, QueueState, NobodyWaitsInVain
    <3> QED  BY <3>1 DEF Promise!Next
  <2> QED  BY <2>2, <2>3
<1>4. CASE Finish
  <2>1. /\ batch = <<>> /\ queue = <<>> /\ ~open /\ pc = "recv" /\ pc' = "done"
        /\ UNCHANGED <<batch, queue, handled, open>>
    BY <1>4 DEF Finish, TypeOK, work, channel
  <2>2. batch \o queue = <<>>
    BY <2>1, ConcatEmptySeq
  <2>3. Promise!End
    BY <2>1, <2>2 DEF Promise!End, QueueState
  <2> QED  BY <2>3 DEF Promise!Next
<1>5. CASE Die
  <2>1. /\ pc \in {"recv", "sleep"} /\ pc' = "gone"
        /\ UNCHANGED <<batch, queue, handled, open>>
    BY <1>5 DEF Die, work
  <2>2. Promise!Lose
    BY <2>1 DEF Promise!Lose, QueueState
  <2> QED  BY <2>2 DEF Promise!Next
<1>6. CASE \/ \E p \in Producers : Enqueue(p)
           \/ Receive \/ Fill \/ EndFill \/ Embed \/ Wake
           \/ UNCHANGED vars
  BY <1>6, PromisedStutter
<1> QED  BY <1>1, <1>2, <1>3, <1>4, <1>5, <1>6 DEF Next

(* The embedding worker implements the queue its users are promised: a job  *)
(* is served in the order the channel took it, never twice and with at most *)
(* a batch of others, and the worker ends only when all are served.         *)
THEOREM WorkerImplementsQueue == Spec => ImplementsQueue
<1>1. Init => Promise!Init
  BY PromisedInit
<1>2. WorkerInv /\ [Next]_vars => [Promise!Next]_(Promise!vars)
  BY PromisedNext DEF WorkerInv
<1> QED  BY <1>1, <1>2, WorkerInvariant, PTL DEF Spec, ImplementsQueue, Promise!Spec

=============================================================================
