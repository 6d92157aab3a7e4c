----------------------- MODULE SchedulerQueueProofs -----------------------
(***************************************************************************)
(* No entry of the job list is lost: the front of the list is what is left *)
(* of the current batch, and a job reported pending is still to be started.*)
(***************************************************************************)
EXTENDS SchedulerProofs, FunctionTheorems

\* The entries for d among the first n.
Among(s, n, d) == {k \in 1..n : s[k] = d}

\* The two sides that BatchIsQueueFront counts.
Left == At(Unremoved)
InFront(d) == Among(pendingJobs, Cardinality(Left), d)
Own(d) == {i \in Left : batch[i] = d}

\* Taking entry k out of a sequence that starts with n entries of interest moves
\* the entries for d among the others, and loses none.
LEMMA RemovalKeepsCount ==
    ASSUME NEW n \in Nat, NEW k \in 1..n, NEW s, NEW t, NEW d,
           \A j \in 1..(n - 1) : t[j] = IF j < k THEN s[j] ELSE s[j + 1]
    PROVE  Cardinality(Among(t, n - 1, d)) = Cardinality(Among(s, n, d) \ {k})
<1> USE DEF Among
<1> DEFINE A == Among(s, n, d) \ {k}
           B == Among(t, n - 1, d)
           f == [j \in A |-> IF j < k THEN j ELSE j - 1]
<1>1. IsFiniteSet(A)
  <2>1. IsFiniteSet(1..n)
    BY FS_Interval
  <2>2. A \in SUBSET (1..n)
    OBVIOUS
  <2> QED BY <2>1, <2>2, FS_Subset
<1>2. f \in [A -> B]
  <2>1. ASSUME NEW j \in A PROVE f[j] \in B
    OBVIOUS
  <2> QED BY <2>1
<1>3. \A a, b \in A : f[a] = f[b] => a = b
  OBVIOUS
<1>4. \A b \in B : \E a \in A : f[a] = b
  <2> TAKE b \in B
  <2>1. CASE b < k
    <3>1. b \in A /\ f[b] = b
      BY <2>1
    <3> QED BY <3>1
  <2>2. CASE ~ (b < k)
    <3>1. b + 1 \in A /\ f[b + 1] = b
      BY <2>2
    <3> QED BY <3>1
  <2> QED BY <2>1, <2>2
<1>5. f \in Bijection(A, B)
  <2> HIDE DEF f, A, B
  <2> QED BY <1>2, <1>3, <1>4, Fun_IsBij DEF Surjection
<1>6. ExistsBijection(A, B)
  BY <1>5 DEF ExistsBijection
<1> HIDE DEF A, B
<1>7. Cardinality(A) = Cardinality(B)
  BY <1>1, <1>6, FS_Bijection
<1> QED BY <1>7 DEF A, B

\* The two counts are natural numbers, and a worker for d accounts for an entry.
LEMMA CountTypes ==
    ASSUME TypeOK, NEW d
    PROVE  /\ Cardinality(Left) \in Nat
           /\ IsFiniteSet(Own(d)) /\ IsFiniteSet(InFront(d))
<1>1. IsFiniteSet(Left) /\ Cardinality(Left) \in Nat
  BY WorkersAreFinite, FS_CardinalityType DEF Left
<1>2. IsFiniteSet(Own(d))
  <2>1. Own(d) \in SUBSET Left
    BY DEF Own
  <2> QED BY <1>1, <2>1, FS_Subset
<1>3. IsFiniteSet(InFront(d))
  <2>1. IsFiniteSet(1..Cardinality(Left))
    BY <1>1, FS_Interval
  <2>2. InFront(d) \in SUBSET (1..Cardinality(Left))
    BY DEF InFront, Among
  <2> QED BY <2>1, <2>2, FS_Subset
<1> QED BY <1>1, <1>2, <1>3

\* BatchIsQueueFront in the terms of this module.
LEMMA QueueFrontMeans ==
    BatchIsQueueFront <=>
        /\ Cardinality(Left) <= Len(pendingJobs)
        /\ \A d \in Dir : Cardinality(InFront(d)) = Cardinality(Own(d))
BY DEF BatchIsQueueFront, Left, InFront, Among, Own

\* RemovePendingJob, called by worker i, takes out an entry k in the front.
LEMMA RemovalIsInFront ==
    ASSUME TypeOK, BatchIsQueueFront, NEW i \in Left
    PROVE  \E k \in 1..Cardinality(Left) :
             /\ k <= Len(pendingJobs)
             /\ pendingJobs[k] = batch[i]
             /\ Len(WithoutFirst(pendingJobs, batch[i])) = Len(pendingJobs) - 1
             /\ \A j \in 1..(Len(pendingJobs) - 1) :
                  WithoutFirst(pendingJobs, batch[i])[j]
                    = IF j < k THEN pendingJobs[j] ELSE pendingJobs[j + 1]
<1> DEFINE d == batch[i]
           n == Cardinality(Left)
<1>1. d \in Dir /\ n \in Nat /\ n <= Len(pendingJobs) /\ pendingJobs \in Seq(Dir)
  BY CountTypes, QueueFrontMeans DEF TypeOK, Left, At, Worker
<1>2. PICK m \in 1..n : pendingJobs[m] = d
  <2>1. i \in Own(d)
    BY DEF Own
  <2>2. Cardinality(Own(d)) # 0
    BY <2>1, CountTypes, FS_EmptySet
  <2>3. Cardinality(InFront(d)) # 0
    BY <1>1, <2>2, QueueFrontMeans
  <2>4. InFront(d) # {}
    BY <2>3, FS_EmptySet
  <2> QED BY <2>4 DEF InFront, Among
<1> HIDE DEF d, n
<1>3. m \in 1..Len(pendingJobs) /\ \E x \in 1..Len(pendingJobs) : pendingJobs[x] = d
  BY <1>1, <1>2
<1>4. PICK k \in 1..Len(pendingJobs) :
             /\ pendingJobs[k] = d
             /\ \A j \in 1..(k - 1) : pendingJobs[j] # d
             /\ Len(RemoveFirst(pendingJobs, d)) = Len(pendingJobs) - 1
             /\ \A j \in 1..(Len(pendingJobs) - 1) :
                  RemoveFirst(pendingJobs, d)[j]
                    = IF j < k THEN pendingJobs[j] ELSE pendingJobs[j + 1]
  BY <1>1, <1>3, RemoveFirstEffect
<1>5. k <= m
  BY <1>1, <1>2, <1>4
<1>6. k \in 1..n
  BY <1>1, <1>2, <1>4, <1>5
<1> QED BY <1>4, <1>6 DEF d, n, WithoutFirst

\* A step that neither removes an entry nor starts a batch keeps the left-over.
LEMMA LeftUnchanged ==
    ASSUME TypeOK, NEW i \in Worker, WorkerStep(i), ~ RemovePendingJob(i)
    PROVE  Left' = Left /\ UNCHANGED <<batch, pendingJobs>>
<1>1. ASSUME NEW from \in PC, NEW to \in PC, from \in Unremoved <=> to \in Unremoved,
             Goto(i, from, to), UNCHANGED batch
      PROVE  Left' = Left
  BY <1>1 DEF TypeOK, Left, At, Worker, Goto
<1> QED
  BY <1>1
  DEF WorkerStep, AcquireSlot, MarkProcessing, RegisterCancel, BodyReturns, MarkFinal,
      Deregister, ReleaseSlot, PC, Unremoved

-----------------------------------------------------------------------------
(* The front of the list. *)

\* The removal takes one from both counts of its directory, and from no other.
LEMMA RemovalKeepsFront ==
    ASSUME IInv, BatchIsQueueFront, NEW i \in Worker, RemovePendingJob(i)
    PROVE  /\ BatchIsQueueFront'
           /\ Cardinality(Left') = Cardinality(Left) - 1
<1> DEFINE n == Cardinality(Left)
<1>1. TypeOK /\ n \in Nat
  BY CountTypes DEF IInv
<1>2. i \in Left /\ Left' = Left \ {i} /\ batch' = batch
  BY <1>1 DEF RemovePendingJob, Goto, TypeOK, Left, At, Worker, Unremoved, PC
<1>3. Cardinality(Left') = n - 1
  BY <1>1, <1>2, WorkersAreFinite, FS_RemoveElement DEF Left
<1>4. PICK k \in 1..n :
             /\ k <= Len(pendingJobs)
             /\ pendingJobs[k] = batch[i]
             /\ Len(pendingJobs') = Len(pendingJobs) - 1
             /\ \A j \in 1..(Len(pendingJobs) - 1) :
                  pendingJobs'[j] = IF j < k THEN pendingJobs[j] ELSE pendingJobs[j + 1]
  BY <1>1, <1>2, RemovalIsInFront DEF RemovePendingJob
<1>5. n <= Len(pendingJobs) /\ Len(pendingJobs) \in Nat
  BY <1>1, QueueFrontMeans DEF TypeOK
<1> HIDE DEF n
<1>6. \A j \in 1..(n - 1) :
        pendingJobs'[j] = IF j < k THEN pendingJobs[j] ELSE pendingJobs[j + 1]
  BY <1>1, <1>4, <1>5
<1>7. ASSUME NEW d \in Dir PROVE Cardinality(InFront(d)') = Cardinality(Own(d)')
  <2>1. InFront(d)' = Among(pendingJobs', n - 1, d)
    BY <1>3 DEF InFront, Among
  <2>2. InFront(d) = Among(pendingJobs, n, d)
    BY DEF InFront, n
  <2>3. Cardinality(InFront(d)') = Cardinality(InFront(d) \ {k})
    <3>1. n \in Nat
      BY <1>1
    <3>2. Cardinality(Among(pendingJobs', n - 1, d)) = Cardinality(Among(pendingJobs, n, d) \ {k})
      BY ONLY k \in 1..n, <1>6, <3>1, RemovalKeepsCount
    <3> QED BY ONLY <2>1, <2>2, <3>2
  <2>4. Own(d)' = Own(d) \ {i}
    BY <1>2 DEF Own
  <2>5. k \in InFront(d) <=> i \in Own(d)
    BY <1>2, <1>4, <2>2 DEF Own, Among
  <2>6. Cardinality(InFront(d) \ {k})
          = IF k \in InFront(d) THEN Cardinality(InFront(d)) - 1 ELSE Cardinality(InFront(d))
    BY <1>1, CountTypes, FS_RemoveElement
  <2>7. Cardinality(Own(d) \ {i})
          = IF i \in Own(d) THEN Cardinality(Own(d)) - 1 ELSE Cardinality(Own(d))
    BY <1>1, CountTypes, FS_RemoveElement
  <2> QED BY <2>3, <2>4, <2>5, <2>6, <2>7, QueueFrontMeans
<1>8. Cardinality(Left') <= Len(pendingJobs')
  BY <1>1, <1>3, <1>4, <1>5
<1>9. BatchIsQueueFront'
  <2>1. \A d \in Dir : Cardinality(InFront(d)') = Cardinality(Own(d)')
    BY <1>7
  <2> QED BY <1>8, <2>1 DEF BatchIsQueueFront, Left, InFront, Among, Own
<1> QED BY <1>3, <1>9 DEF n

LEMMA FrontStep == IInv /\ BatchIsQueueFront /\ [Next]_vars => BatchIsQueueFront'
<1> SUFFICES ASSUME IInv, BatchIsQueueFront, [Next]_vars PROVE BatchIsQueueFront'
  OBVIOUS
<1>1. TypeOK /\ Cardinality(Left) \in Nat
  BY CountTypes DEF IInv
<1>2. ASSUME Left' = Left, UNCHANGED <<batch, pendingJobs>> PROVE BatchIsQueueFront'
  BY <1>2 DEF BatchIsQueueFront, Left
<1>3. ASSUME NEW d \in Dir, AddPendingJob(d) PROVE BatchIsQueueFront'
  <2>1. /\ Left' = Left /\ batch' = batch
        /\ pendingJobs \in Seq(Dir) /\ pendingJobs' = Append(pendingJobs, d)
    BY <1>1, <1>3 DEF AddPendingJob, Appended, Left, At, Worker, TypeOK
  <2>2. /\ Cardinality(Left) <= Len(pendingJobs)
        /\ \A k \in 1..Cardinality(Left) : pendingJobs'[k] = pendingJobs[k]
        /\ Len(pendingJobs) <= Len(pendingJobs')
    BY <1>1, <2>1, QueueFrontMeans
  <2>3. \A e \in Dir : InFront(e)' = InFront(e) /\ Own(e)' = Own(e)
    BY <2>1, <2>2 DEF InFront, Among, Own
  <2>4. \A e \in Dir : Cardinality(InFront(e)') = Cardinality(Own(e)')
    BY <2>3, QueueFrontMeans
  <2>5. Cardinality(Left') <= Len(pendingJobs')
    BY <1>1, <2>1, <2>2
  <2> QED BY <2>4, <2>5 DEF BatchIsQueueFront, Left, InFront, Among, Own
<1>4. ASSUME StartBatch PROVE BatchIsQueueFront'
  <2>1. /\ pendingJobs \in Seq(Dir) /\ pendingJobs' = pendingJobs /\ batch' = pendingJobs
        /\ Left' = 1..Len(pendingJobs) /\ Len(pendingJobs) \in Nat
    BY <1>1, <1>4 DEF StartBatch, Left, At, Worker, Unremoved, PC, TypeOK
  <2>2. Cardinality(Left') = Len(pendingJobs)
    BY <2>1, FS_Interval
  <2>3. \A d \in Dir : InFront(d)' = Own(d)'
    BY <2>1, <2>2 DEF InFront, Among, Own
  <2>4. \A d \in Dir : Cardinality(InFront(d)') = Cardinality(Own(d)')
    BY <2>3
  <2>5. Cardinality(Left') <= Len(pendingJobs')
    BY <2>1, <2>2
  <2> QED BY <2>4, <2>5 DEF BatchIsQueueFront, Left, InFront, Among, Own
<1>5. ASSUME NEW i \in Worker, WorkerStep(i) PROVE BatchIsQueueFront'
  BY <1>1, <1>2, <1>5, LeftUnchanged, RemovalKeepsFront
<1>6. ASSUME UNCHANGED <<batch, pc, pendingJobs>> PROVE BatchIsQueueFront'
  BY <1>2, <1>6 DEF Left, At, Worker
<1> QED
  BY <1>3, <1>4, <1>5, <1>6 DEF Next, CancelJob, CleanUp, vars

-----------------------------------------------------------------------------
(* The pending jobs. *)

LEMMA PendingStep ==
    IInv /\ BatchIsQueueFront /\ PendingIsQueued /\ [Next]_vars => PendingIsQueued'
<1> SUFFICES ASSUME IInv, BatchIsQueueFront, PendingIsQueued, [Next]_vars
             PROVE  PendingIsQueued'
  OBVIOUS
<1>1. /\ TypeOK /\ Cardinality(Left) \in Nat
      /\ Cardinality(Left) <= Len(pendingJobs) /\ Len(pendingJobs) \in Nat
  BY CountTypes, QueueFrontMeans DEF IInv, TypeOK
<1> DEFINE Fresh(d) == \E i \in At({"spawned", "acquired"}) : batch[i] = d
           Behind(d) == \E k \in DOMAIN pendingJobs :
                           k > Cardinality(Left) /\ pendingJobs[k] = d
<1>2. PendingIsQueued <=> \A d \in Dir : jobStates[d] = "pending" => Fresh(d) \/ Behind(d)
  BY DEF PendingIsQueued, Left
<1>3. SUFFICES ASSUME NEW d \in Dir, jobStates'[d] = "pending"
               PROVE  Fresh(d)' \/ Behind(d)'
  BY DEF PendingIsQueued, Left
<1>4. ASSUME NEW e \in Dir, AddPendingJob(e) PROVE Fresh(d)' \/ Behind(d)'
  <2>1. /\ pendingJobs \in Seq(Dir) /\ pendingJobs' = Append(pendingJobs, e)
        /\ Left' = Left /\ Fresh(d)' = Fresh(d)
    BY <1>1, <1>4 DEF AddPendingJob, Appended, TypeOK, Left, At, Worker
  <2>2. CASE d = e
    <3>1. Len(pendingJobs) + 1 \in DOMAIN pendingJobs' /\ pendingJobs'[Len(pendingJobs) + 1] = d
      BY <2>1, <2>2
    <3> QED BY <1>1, <2>1, <3>1
  <2>3. CASE d # e
    <3>1. Fresh(d) \/ Behind(d)
      BY <1>1, <1>2, <1>3, <1>4, <2>3 DEF AddPendingJob, TypeOK
    <3>2. Behind(d) => Behind(d)'
      BY <1>1, <2>1
    <3> QED BY <2>1, <3>1, <3>2
  <2> QED BY <2>2, <2>3
<1>5. ASSUME NEW e \in Dir, CancelJob(e) PROVE Fresh(d)' \/ Behind(d)'
  <2>1. jobStates[d] = "pending"
    BY <1>1, <1>3, <1>5 DEF CancelJob, TypeOK
  <2> QED BY <1>2, <1>5, <2>1 DEF CancelJob, Left, At, Worker
<1>6. ASSUME StartBatch PROVE Fresh(d)' \/ Behind(d)'
  <2>1. ~ Fresh(d) /\ jobStates[d] = "pending"
    BY <1>3, <1>6 DEF StartBatch, KeptAtStart, At
  <2>2. PICK k \in DOMAIN pendingJobs : pendingJobs[k] = d
    BY <1>2, <2>1
  <2> QED BY <1>6, <2>2 DEF StartBatch, At, Worker
<1>7. ASSUME NEW i \in Worker, WorkerStep(i), ~ RemovePendingJob(i)
      PROVE  Fresh(d)' \/ Behind(d)'
  <2>1. Left' = Left /\ batch' = batch /\ pendingJobs' = pendingJobs
    BY <1>1, <1>7, LeftUnchanged
  <2>2. jobStates[d] = "pending"
    BY <1>1, <1>3, <1>7
    DEF WorkerStep, AcquireSlot, MarkProcessing, RegisterCancel, BodyReturns, MarkFinal,
        FinalState, Deregister, ReleaseSlot, TypeOK
  <2>3. Behind(d) => Behind(d)'
    BY <2>1
  <2>4. Fresh(d) => Fresh(d)'
    <3> SUFFICES ASSUME NEW j \in Worker, pc[j] \in {"spawned", "acquired"}, batch[j] = d
                 PROVE  pc'[j] \in {"spawned", "acquired"}
      BY <2>1 DEF At, Worker
    <3>1. CASE MarkProcessing(i)
      <4>1. i # j
        BY <1>1, <1>3, <3>1 DEF MarkProcessing, TypeOK
      <4> QED BY <1>1, <3>1, <4>1 DEF MarkProcessing, Goto, TypeOK
    <3>2. CASE ~ MarkProcessing(i)
      BY <1>1, <1>7, <3>2
      DEF WorkerStep, AcquireSlot, RegisterCancel, BodyReturns, MarkFinal, Deregister,
          ReleaseSlot, Goto, TypeOK
    <3> QED BY <3>1, <3>2
  <2> QED BY <1>2, <2>2, <2>3, <2>4
<1>8. ASSUME NEW i \in Worker, RemovePendingJob(i) PROVE Fresh(d)' \/ Behind(d)'
  <2>1. i \in Left /\ jobStates[d] = "pending" /\ batch' = batch
    BY <1>1, <1>3, <1>8 DEF RemovePendingJob, Goto, Left, At, Unremoved, PC
  <2>2. Fresh(d) => Fresh(d)'
    BY <1>1, <1>8 DEF RemovePendingJob, Goto, At, Worker, TypeOK
  <2>3. Behind(d) => Behind(d)'
    <3>1. PICK k \in 1..Cardinality(Left) :
             /\ Len(pendingJobs') = Len(pendingJobs) - 1
             /\ \A j \in 1..(Len(pendingJobs) - 1) :
                  pendingJobs'[j] = IF j < k THEN pendingJobs[j] ELSE pendingJobs[j + 1]
      BY <1>1, <1>8, <2>1, RemovalIsInFront DEF RemovePendingJob
    <3>2. Cardinality(Left') = Cardinality(Left) - 1
      BY <1>8, RemovalKeepsFront
    <3>3. pendingJobs \in Seq(Dir) /\ pendingJobs' \in Seq(Dir)
      BY <1>1, <1>8, RemoveFirstType DEF TypeOK, RemovePendingJob, WithoutFirst
    <3>4. ASSUME NEW m \in DOMAIN pendingJobs, m > Cardinality(Left), pendingJobs[m] = d
          PROVE  Behind(d)'
      <4>1. m - 1 \in DOMAIN pendingJobs' /\ m - 1 > Cardinality(Left')
        BY <1>1, <3>1, <3>2, <3>3, <3>4
      <4>2. pendingJobs'[m - 1] = d
        BY <1>1, <3>1, <3>3, <3>4
      <4> QED BY <4>1, <4>2
    <3> QED BY <3>4
  <2> QED BY <1>2, <2>1, <2>2, <2>3
<1>9. ASSUME UNCHANGED <<batch, pc, pendingJobs, jobStates>> PROVE Fresh(d)' \/ Behind(d)'
  BY <1>2, <1>3, <1>9 DEF Left, At, Worker
<1> QED
  BY <1>4, <1>5, <1>6, <1>7, <1>8, <1>9 DEF Next, CleanUp, vars

-----------------------------------------------------------------------------
(* The jobs that can be cancelled. *)

LEMMA FrontIsListed ==
    ASSUME TypeOK, BatchIsQueueFront, NEW d \in Dir, NEW m \in InFront(d)
    PROVE  m \in DOMAIN pendingJobs /\ pendingJobs[m] = d /\ ~ (m > Cardinality(Left))
<1>1. Cardinality(Left) \in Nat
  BY CountTypes
<1>2. Cardinality(Left) <= Len(pendingJobs) /\ pendingJobs \in Seq(Dir)
  BY QueueFrontMeans DEF TypeOK
<1>3. m \in 1..Cardinality(Left) /\ pendingJobs[m] = d
  BY DEF InFront, Among
<1> QED BY <1>1, <1>2, <1>3

\* Two of what is left of the batch have two entries in the front of the list.
LEMMA TwoWorkersTwoEntries ==
    ASSUME TypeOK, BatchIsQueueFront, NEW d \in Dir, NEW i \in Own(d), NEW j \in Own(d), i # j
    PROVE  \E m, k \in DOMAIN pendingJobs : m # k /\ pendingJobs[m] = d /\ pendingJobs[k] = d
<1>1. Cardinality(InFront(d)) = Cardinality(Own(d))
  BY QueueFrontMeans
<1>2. InFront(d) \subseteq DOMAIN pendingJobs /\ \A m \in InFront(d) : pendingJobs[m] = d
  BY FrontIsListed
<1>3. PICK m \in InFront(d) : TRUE
  <2>1. Cardinality(Own(d)) # 0
    BY CountTypes, FS_EmptySet
  <2>2. Cardinality(InFront(d)) # 0
    BY <1>1, <2>1
  <2>3. InFront(d) # {}
    BY <2>2, FS_EmptySet
  <2> QED BY <2>3
<1>4. PICK k \in InFront(d) : k # m
  <2>1. Cardinality(Own(d) \ {i}) = Cardinality(Own(d)) - 1 /\ Cardinality(Own(d) \ {i}) # 0
    <3>1. j \in Own(d) \ {i} /\ IsFiniteSet(Own(d) \ {i})
      BY CountTypes, FS_RemoveElement
    <3>2. Cardinality(Own(d) \ {i}) # 0
      BY <3>1, FS_EmptySet
    <3> QED BY <3>2, CountTypes, FS_RemoveElement
  <2>2. Cardinality(InFront(d) \ {m}) = Cardinality(InFront(d)) - 1
    BY CountTypes, FS_RemoveElement
  <2>3. Cardinality(InFront(d) \ {m}) # 0
    BY <1>1, <2>1, <2>2
  <2>4. InFront(d) \ {m} # {}
    BY <2>3, FS_EmptySet
  <2> QED BY <2>4
<1> QED BY <1>2, <1>3, <1>4

LEMMA CancelNeedsTwo ==
    IInv /\ BatchIsQueueFront /\ PendingIsQueued => CancelOnlyOfDoubled
<1> SUFFICES ASSUME IInv, BatchIsQueueFront, PendingIsQueued,
                    NEW d \in Dir, CancelAnswer(d) = "ok"
             PROVE  \E j, k \in DOMAIN pendingJobs :
                       j # k /\ pendingJobs[j] = d /\ pendingJobs[k] = d
  BY DEF CancelOnlyOfDoubled
<1>1. TypeOK /\ ActiveIsLive
  BY DEF IInv
<1>2. jobStates[d] = "pending" /\ activeJobs[d] # None
  BY <1>1 DEF CancelAnswer, TypeOK, JobState
<1>3. PICK i \in At(Registered) : batch[i] = d
  BY <1>1, <1>2 DEF ActiveIsLive
<1>4. i \in Own(d)
  BY <1>3 DEF Own, Left, At, Registered, Unremoved, PC
<1>5. CASE \E j \in At({"spawned", "acquired"}) : batch[j] = d
  <2>1. PICK j \in At({"spawned", "acquired"}) : batch[j] = d
    BY <1>5
  <2>2. j \in Own(d) /\ i # j
    BY <1>3, <2>1 DEF Own, Left, At, Registered, Unremoved, PC
  <2> QED BY <1>1, <1>4, <2>2, TwoWorkersTwoEntries
<1>6. CASE \E k \in DOMAIN pendingJobs : k > Cardinality(Left) /\ pendingJobs[k] = d
  <2>1. PICK k \in DOMAIN pendingJobs : k > Cardinality(Left) /\ pendingJobs[k] = d
    BY <1>6
  <2>2. Cardinality(Own(d)) # 0
    BY <1>1, <1>4, CountTypes, FS_EmptySet
  <2>3. Cardinality(InFront(d)) # 0
    BY <2>2, QueueFrontMeans
  <2>4. PICK m \in InFront(d) : TRUE
    BY <2>3, FS_EmptySet
  <2>5. m \in DOMAIN pendingJobs /\ pendingJobs[m] = d /\ m # k
    BY <1>1, <2>1, <2>4, FrontIsListed
  <2> QED BY <2>1, <2>5
<1> QED BY <1>2, <1>5, <1>6 DEF PendingIsQueued, Left

-----------------------------------------------------------------------------
(* The theorems. *)

LEMMA QueueInit == Init => BatchIsQueueFront /\ PendingIsQueued
<1> SUFFICES ASSUME Init PROVE BatchIsQueueFront /\ PendingIsQueued
  OBVIOUS
<1>1. Left = {} /\ Cardinality(Left) = 0
  BY FS_EmptySet DEF Init, Left, At, Worker
<1>2. \A d : InFront(d) = {} /\ Own(d) = {}
  BY <1>1 DEF InFront, Among, Own
<1>3. BatchIsQueueFront
  <2>1. Cardinality(Left) <= Len(pendingJobs)
    BY <1>1 DEF Init
  <2>2. \A d \in Dir : Cardinality(InFront(d)) = Cardinality(Own(d))
    BY <1>2
  <2> QED BY <2>1, <2>2, QueueFrontMeans
<1>4. PendingIsQueued
  BY DEF PendingIsQueued, Init
<1> QED BY <1>3, <1>4

\* The front of the list is what is left of the batch: RemovePendingJob never takes
\* the entry of a job that was added after the batch began.
THEOREM RemovalTakesOwnEntry == Spec => []BatchIsQueueFront
BY QueueInit, FrontStep, Invariance, PTL DEF Spec

\* A job reported pending has an entry that a worker is still to start on.
THEOREM NoPendingJobIsLost == Spec => []PendingIsQueued
BY QueueInit, FrontStep, PendingStep, Invariance, PTL DEF Spec

\* CancelJob succeeds only when the same file is listed a second time.
THEOREM CancelReachesDoubledOnly == Spec => []CancelOnlyOfDoubled
BY NoPendingJobIsLost, RemovalTakesOwnEntry, Invariance, CancelNeedsTwo, PTL

=============================================================================
