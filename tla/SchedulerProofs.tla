-------------------------- MODULE SchedulerProofs --------------------------
(***************************************************************************)
(* The job queue keeps its safety properties for every set of directories, *)
(* every worker limit and every bound on the list.                         *)
(***************************************************************************)
EXTENDS Scheduler, SequenceTheorems, FiniteSetTheorems,
        WellFoundedInduction, TLAPS

(* What RemovePendingJob leaves of the list. *)

\* Some entry is the first one for e.
LEMMA FirstOccurrence ==
    ASSUME NEW S, NEW s \in Seq(S), NEW e, \E i \in 1..Len(s) : s[i] = e
    PROVE  \E k \in 1..Len(s) : s[k] = e /\ \A j \in 1..(k - 1) : s[j] # e
<1> DEFINE I == {i \in 1..Len(s) : s[i] = e}
           R == {p \in Nat \X Nat : p[1] < p[2]}
<1>1. I \subseteq Nat /\ I # {}
  OBVIOUS
<1>2. IsWellFoundedOn(R, Nat)
  BY NatLessThanWellFounded DEF OpToRel
<1>3. \E k \in I : \A i \in I : ~ (<<i, k>> \in R)
  <2> HIDE DEF I, R
  <2> QED BY <1>1, <1>2, WFMin
<1>4. PICK k \in I : \A i \in I : ~ (i < k)
  BY <1>1, <1>3
<1> QED BY <1>4

\* RemoveFirst removes one entry for e, the first, and keeps the order of the rest.
LEMMA RemoveFirstEffect ==
    ASSUME NEW S, NEW s \in Seq(S), NEW e, \E i \in 1..Len(s) : s[i] = e
    PROVE  \E k \in 1..Len(s) :
             /\ s[k] = e
             /\ \A j \in 1..(k - 1) : s[j] # e
             /\ RemoveFirst(s, e) \in Seq(S)
             /\ Len(RemoveFirst(s, e)) = Len(s) - 1
             /\ \A j \in 1..(Len(s) - 1) :
                  RemoveFirst(s, e)[j] = IF j < k THEN s[j] ELSE s[j + 1]
<1> DEFINE I == {i \in 1..Len(s) : s[i] = e}
           k == SelectInSeq(s, LAMBDA v : v = e)
<1>1. k = CHOOSE x \in I : \A y \in I : x <= y
  BY DEF SelectInSeq, Min
<1>2. PICK m \in 1..Len(s) : s[m] = e /\ \A j \in 1..(m - 1) : s[j] # e
  BY FirstOccurrence
<1>3. k \in I /\ \A y \in I : k <= y
  <2>1. m \in I /\ \A y \in I : m <= y
    BY <1>2
  <2> QED BY <1>1, <2>1
<1>4. RemoveFirst(s, e) = SubSeq(s, 1, k - 1) \o SubSeq(s, k + 1, Len(s))
  BY DEF RemoveFirst, RemoveAt
<1> HIDE DEF k
<1>5. /\ k \in 1..Len(s)
      /\ s[k] = e
      /\ \A j \in 1..(k - 1) : s[j] # e
  BY <1>3
<1> DEFINE l == SubSeq(s, 1, k - 1)
           r == SubSeq(s, k + 1, Len(s))
<1>6. /\ l \in Seq(S) /\ Len(l) = k - 1
      /\ \A j \in 1..(k - 1) : l[j] = s[j]
  BY <1>5, SubSeqProperties
<1>7. /\ r \in Seq(S) /\ Len(r) = Len(s) - k
      /\ \A j \in 1..(Len(s) - k) : r[j] = s[k + j]
  BY <1>5, SubSeqProperties
<1>8. /\ l \o r \in Seq(S) /\ Len(l \o r) = Len(s) - 1
      /\ \A j \in 1..(Len(s) - 1) : (l \o r)[j] = IF j < k THEN s[j] ELSE s[j + 1]
  <2> HIDE DEF l, r
  <2>0. /\ l \o r \in Seq(S)
        /\ Len(l \o r) = Len(l) + Len(r)
        /\ \A j \in 1..(Len(l) + Len(r)) :
             (l \o r)[j] = IF j <= Len(l) THEN l[j] ELSE r[j - Len(l)]
    BY <1>6, <1>7, ConcatProperties
  <2>1. l \o r \in Seq(S) /\ Len(l \o r) = Len(s) - 1
    BY <1>5, <1>6, <1>7, <2>0
  <2>2. ASSUME NEW j \in 1..(Len(s) - 1)
        PROVE  (l \o r)[j] = IF j < k THEN s[j] ELSE s[j + 1]
    BY <1>5, <1>6, <1>7, <2>0
  <2> QED BY <2>1, <2>2
<1> QED BY <1>4, <1>5, <1>8

\* RemoveFirst keeps the type of the list, whether or not e is in it.
LEMMA RemoveFirstType ==
    ASSUME NEW S, NEW s \in Seq(S), NEW e
    PROVE  RemoveFirst(s, e) \in Seq(S)
<1>1. CASE \E i \in 1..Len(s) : s[i] = e
  BY <1>1, RemoveFirstEffect
<1>2. CASE ~ \E i \in 1..Len(s) : s[i] = e
  BY <1>2 DEF RemoveFirst
<1> QED BY <1>1, <1>2

-----------------------------------------------------------------------------
(* The parts of the inductive invariant that the properties do not state. *)

\* A context is cancelled only after its worker has registered it.
CancelledIsRegistered ==
    cancelled \subseteq At(PC \ {"spawned", "acquired", "marked"})

\* The inductive invariant: the types, and the safety properties that lean on
\* one another.
IInv ==
    /\ TypeOK
    /\ SlotsAccountedFor
    /\ CancelledIsRegistered
    /\ ReturnsOnlyWhenCancelled
    /\ ActiveIsLive
    /\ LoneWorkerIsRegistered
    /\ ProcessingIsUnderway

\* The goroutines of a batch are finite in number.
LEMMA WorkersAreFinite ==
    ASSUME TypeOK, NEW S
    PROVE  IsFiniteSet(Worker) /\ IsFiniteSet(At(S))
<1>1. Worker = 1..Len(batch) /\ Len(batch) \in Nat
  BY DEF TypeOK, Worker
<1>2. IsFiniteSet(Worker)
  BY <1>1, FS_Interval
<1>3. At(S) \subseteq Worker
  BY DEF At
<1> QED BY <1>2, <1>3, FS_Subset

-----------------------------------------------------------------------------
(* Type correctness. *)

\* Every operation keeps the variables in their types: the maps are written at
\* directories only, the contexts belong to workers of the current batch.
LEMMA TypeStep == IInv /\ [Next]_vars => TypeOK'
<1> SUFFICES ASSUME IInv, [Next]_vars PROVE TypeOK'
  OBVIOUS
<1> USE DEF IInv, TypeOK, Worker
<1>1. ASSUME NEW d \in Dir, AddPendingJob(d) PROVE TypeOK'
  BY <1>1, AppendProperties DEF AddPendingJob, Appended, JobState
<1>2. ASSUME NEW d \in Dir, CancelJob(d) PROVE TypeOK'
  <2>1. activeJobs[d] \in Worker
    BY <1>2 DEF CancelJob, CancelAnswer, ActiveIsLive, At, JobState
  <2> QED BY <1>2, <2>1 DEF CancelJob, Called, Deleted, None, JobState
<1>3. ASSUME StartBatch PROVE TypeOK'
  BY <1>3 DEF StartBatch, KeptAtStart, PC, Outcome
<1>4. ASSUME NEW i \in Worker, AcquireSlot(i) PROVE TypeOK'
  BY <1>4 DEF AcquireSlot, Goto, PC
<1>5. ASSUME NEW i \in Worker, MarkProcessing(i) PROVE TypeOK'
  BY <1>5 DEF MarkProcessing, Goto, PC, JobState
<1>6. ASSUME NEW i \in Worker, RegisterCancel(i) PROVE TypeOK'
  <2>1. i \in Nat /\ batch[i] \in Dir
    OBVIOUS
  <2>2. activeJobs' \in [Dir -> Nat]
    BY <1>6, <2>1 DEF RegisterCancel
  <2> QED BY <1>6, <2>2 DEF RegisterCancel, Goto, PC
<1>7. ASSUME NEW i \in Worker, NEW r \in {"ok", "error"}, BodyReturns(i, r) PROVE TypeOK'
  BY <1>7 DEF BodyReturns, Goto, PC, Outcome
<1>8. ASSUME NEW i \in Worker, CleanUp(i) PROVE TypeOK'
  BY <1>8 DEF CleanUp
<1>9. ASSUME NEW i \in Worker, MarkFinal(i) PROVE TypeOK'
  BY <1>9 DEF MarkFinal, FinalState, Goto, PC, JobState
<1>10. ASSUME NEW i \in Worker, Deregister(i) PROVE TypeOK'
  BY <1>10 DEF Deregister, Deleted, None, Goto, PC
<1>11. ASSUME NEW i \in Worker, RemovePendingJob(i) PROVE TypeOK'
  BY <1>11, RemoveFirstType DEF RemovePendingJob, WithoutFirst, Goto, PC
<1>12. ASSUME NEW i \in Worker, ReleaseSlot(i) PROVE TypeOK'
  <2>1. semaphore # 0
    <3>1. i \in At(Holding)
      BY <1>12 DEF ReleaseSlot, Goto, At, Holding, PC
    <3> QED BY <3>1, WorkersAreFinite, FS_EmptySet DEF SlotsAccountedFor
  <2> QED BY <1>12, <2>1 DEF ReleaseSlot, TokenReceived, Goto, PC
<1>13. CASE UNCHANGED vars
  BY <1>13 DEF vars
<1> QED
  BY <1>1, <1>2, <1>3, <1>4, <1>5, <1>6, <1>7, <1>8, <1>9, <1>10, <1>11, <1>12, <1>13
  DEF Next, WorkerStep

-----------------------------------------------------------------------------
(* The contexts: who may be cancelled, and who may have returned. *)

\* A worker that steps leaves the other workers where they are.
LEMMA GotoMovesOne ==
    ASSUME TypeOK, NEW i \in Worker, NEW from, NEW to, Goto(i, from, to),
           UNCHANGED batch
    PROVE  /\ Worker' = Worker
           /\ pc[i] = from /\ pc'[i] = to
           /\ \A j \in Worker \ {i} : pc'[j] = pc[j]
BY DEF TypeOK, Worker, Goto

\* Each of the three invariants below looks at pc, cancelled, cleaned and
\* activeJobs; a step moves one worker or none.
LEMMA CancelledStep == IInv /\ [Next]_vars => CancelledIsRegistered'
<1> SUFFICES ASSUME IInv, [Next]_vars PROVE CancelledIsRegistered'
  OBVIOUS
<1> USE DEF IInv, TypeOK, Worker, CancelledIsRegistered, At
<1>1. ASSUME NEW d \in Dir, AddPendingJob(d) PROVE CancelledIsRegistered'
  BY <1>1 DEF AddPendingJob
<1>2. ASSUME NEW d \in Dir, CancelJob(d) PROVE CancelledIsRegistered'
  <2>1. activeJobs[d] \in At(Registered)
    BY <1>2 DEF CancelJob, CancelAnswer, ActiveIsLive, JobState
  <2> QED BY <1>2, <2>1 DEF CancelJob, Called, Registered, PC
<1>3. ASSUME StartBatch PROVE CancelledIsRegistered'
  BY <1>3 DEF StartBatch
<1>4. ASSUME NEW i \in Worker, WorkerStep(i) PROVE CancelledIsRegistered'
  <2>1. ASSUME NEW from \in PC, NEW to \in PC \ {"spawned", "acquired", "marked"},
               Goto(i, from, to), UNCHANGED <<batch, cancelled>>
        PROVE  CancelledIsRegistered'
    BY <2>1 DEF Goto
  <2>2. ASSUME NEW from \in {"spawned", "acquired"}, NEW to \in PC,
               Goto(i, from, to), UNCHANGED <<batch, cancelled>>
        PROVE  CancelledIsRegistered'
    BY <2>2 DEF Goto
  <2> QED
    BY <1>4, <2>1, <2>2
    DEF WorkerStep, AcquireSlot, MarkProcessing, RegisterCancel, BodyReturns, MarkFinal,
        Deregister, RemovePendingJob, ReleaseSlot, PC
<1>5. ASSUME NEW i \in Worker, CleanUp(i) PROVE CancelledIsRegistered'
  BY <1>5 DEF CleanUp
<1>6. CASE UNCHANGED vars
  BY <1>6 DEF vars
<1> QED BY <1>1, <1>2, <1>3, <1>4, <1>5, <1>6 DEF Next

\* No worker gets past the receive on cleanupDone uncancelled.
LEMMA ReturnsStep == IInv /\ [Next]_vars => ReturnsOnlyWhenCancelled'
<1> SUFFICES ASSUME IInv, [Next]_vars PROVE ReturnsOnlyWhenCancelled'
  OBVIOUS
<1> USE DEF IInv, TypeOK, Worker, ReturnsOnlyWhenCancelled, At
<1>1. ASSUME NEW d \in Dir, AddPendingJob(d) PROVE ReturnsOnlyWhenCancelled'
  BY <1>1 DEF AddPendingJob
<1>2. ASSUME NEW d \in Dir, CancelJob(d) PROVE ReturnsOnlyWhenCancelled'
  BY <1>2 DEF CancelJob, Called
<1>3. ASSUME StartBatch PROVE ReturnsOnlyWhenCancelled'
  BY <1>3 DEF StartBatch
<1>4. ASSUME NEW i \in Worker, WorkerStep(i) PROVE ReturnsOnlyWhenCancelled'
  <2> DEFINE Out == {"finished", "deregistered", "removed", "done"}
  <2>1. ASSUME NEW from \in PC, NEW to \in PC, to \in Out => from \in Out,
               Goto(i, from, to), UNCHANGED <<batch, cancelled, cleaned>>
        PROVE  ReturnsOnlyWhenCancelled'
    BY <2>1 DEF Goto
  <2>2. ASSUME MarkFinal(i) PROVE ReturnsOnlyWhenCancelled'
    BY <2>2 DEF MarkFinal, CleanupDone, Goto
  <2> QED
    BY <1>4, <2>1, <2>2
    DEF WorkerStep, AcquireSlot, MarkProcessing, RegisterCancel, BodyReturns,
        Deregister, RemovePendingJob, ReleaseSlot, PC
<1>5. ASSUME NEW i \in Worker, CleanUp(i) PROVE ReturnsOnlyWhenCancelled'
  BY <1>5 DEF CleanUp
<1>6. CASE UNCHANGED vars
  BY <1>6 DEF vars
<1> QED BY <1>1, <1>2, <1>3, <1>4, <1>5, <1>6 DEF Next

-----------------------------------------------------------------------------
(* The cancel functions in activeJobs. *)

\* An entry belongs to a live, uncancelled worker for its directory.
LEMMA ActiveStep == IInv /\ [Next]_vars => ActiveIsLive'
<1> SUFFICES ASSUME IInv, [Next]_vars PROVE ActiveIsLive'
  OBVIOUS
<1> USE DEF IInv, TypeOK, Worker, ActiveIsLive, At, None
<1>1. ASSUME NEW d \in Dir, AddPendingJob(d) PROVE ActiveIsLive'
  BY <1>1 DEF AddPendingJob
<1>2. ASSUME NEW d \in Dir, CancelJob(d) PROVE ActiveIsLive'
  BY <1>2 DEF CancelJob, Called, Deleted
<1>3. ASSUME StartBatch PROVE ActiveIsLive'
  BY <1>3 DEF StartBatch, Registered
<1>4. ASSUME NEW i \in Worker, WorkerStep(i) PROVE ActiveIsLive'
  <2>1. ASSUME NEW from \in PC, NEW to \in PC,
               from \in Registered => to \in Registered,
               Goto(i, from, to), UNCHANGED <<activeJobs, batch, cancelled>>
        PROVE  ActiveIsLive'
    BY <2>1 DEF Goto
  <2>2. ASSUME RegisterCancel(i) PROVE ActiveIsLive'
    BY <2>2 DEF RegisterCancel, Goto, CancelledIsRegistered, Registered, PC
  <2>3. ASSUME Deregister(i) PROVE ActiveIsLive'
    BY <2>3 DEF Deregister, Deleted, Goto
  <2> QED
    BY <1>4, <2>1, <2>2, <2>3
    DEF WorkerStep, AcquireSlot, MarkProcessing, BodyReturns, MarkFinal,
        RemovePendingJob, ReleaseSlot, PC, Registered
<1>5. ASSUME NEW i \in Worker, CleanUp(i) PROVE ActiveIsLive'
  BY <1>5 DEF CleanUp
<1>6. CASE UNCHANGED vars
  BY <1>6 DEF vars
<1> QED BY <1>1, <1>2, <1>3, <1>4, <1>5, <1>6 DEF Next

\* The only worker for a directory keeps its entry until it is cancelled.
LEMMA LoneStep == IInv /\ [Next]_vars => LoneWorkerIsRegistered'
<1> SUFFICES ASSUME IInv, [Next]_vars PROVE LoneWorkerIsRegistered'
  OBVIOUS
<1> USE DEF IInv, TypeOK, Worker, LoneWorkerIsRegistered, At, None
<1>1. ASSUME NEW d \in Dir, AddPendingJob(d) PROVE LoneWorkerIsRegistered'
  BY <1>1 DEF AddPendingJob
<1>2. ASSUME NEW d \in Dir, CancelJob(d) PROVE LoneWorkerIsRegistered'
  BY <1>2 DEF CancelJob, Called, Deleted
<1>3. ASSUME StartBatch PROVE LoneWorkerIsRegistered'
  BY <1>3 DEF StartBatch
<1>4. ASSUME NEW i \in Worker, WorkerStep(i) PROVE LoneWorkerIsRegistered'
  <2>1. ASSUME NEW from \in PC, NEW to \in PC,
               to \in {"processing", "awaiting"} => from \in {"processing", "awaiting"},
               Goto(i, from, to), UNCHANGED <<activeJobs, batch, cancelled>>
        PROVE  LoneWorkerIsRegistered'
    BY <2>1 DEF Goto
  <2>2. ASSUME RegisterCancel(i) PROVE LoneWorkerIsRegistered'
    <3>1. /\ activeJobs'[batch[i]] = i
          /\ \A d \in Dir : d # batch[i] => activeJobs'[d] = activeJobs[d]
      BY <2>2 DEF RegisterCancel
    <3>2. ASSUME NEW j \in Worker \ {i}, pc'[j] \in {"processing", "awaiting"},
                 j \notin cancelled, \A h \in Worker \ {j} : batch[h] # batch[j]
          PROVE  activeJobs'[batch[j]] = j
      <4>1. j \in At({"processing", "awaiting"}) \ cancelled
        BY <2>2, <3>2 DEF RegisterCancel, Goto
      <4>2. activeJobs[batch[j]] = j
        BY <3>2, <4>1
      <4> QED BY <3>1, <3>2, <4>2
    <3> QED BY <2>2, <3>1, <3>2 DEF RegisterCancel
  <2>3. ASSUME Deregister(i) PROVE LoneWorkerIsRegistered'
    BY <2>3 DEF Deregister, Deleted, Goto
  <2> QED
    BY <1>4, <2>1, <2>2, <2>3
    DEF WorkerStep, AcquireSlot, MarkProcessing, BodyReturns, MarkFinal,
        RemovePendingJob, ReleaseSlot, PC
<1>5. ASSUME NEW i \in Worker, CleanUp(i) PROVE LoneWorkerIsRegistered'
  BY <1>5 DEF CleanUp
<1>6. CASE UNCHANGED vars
  BY <1>6 DEF vars
<1> QED BY <1>1, <1>2, <1>3, <1>4, <1>5, <1>6 DEF Next

-----------------------------------------------------------------------------
(* The state "processing". *)

\* Whoever wrote "processing" last has not written the final state.
LEMMA UnderwayStep == IInv /\ [Next]_vars => ProcessingIsUnderway'
<1> SUFFICES ASSUME IInv, [Next]_vars PROVE ProcessingIsUnderway'
  OBVIOUS
<1> USE DEF IInv, TypeOK, Worker, ProcessingIsUnderway, At
<1>1. ASSUME NEW d \in Dir, AddPendingJob(d) PROVE ProcessingIsUnderway'
  BY <1>1 DEF AddPendingJob
<1>2. ASSUME NEW d \in Dir, CancelJob(d) PROVE ProcessingIsUnderway'
  BY <1>2 DEF CancelJob
<1>3. ASSUME StartBatch PROVE ProcessingIsUnderway'
  BY <1>3 DEF StartBatch, KeptAtStart, Underway
<1>4. ASSUME NEW i \in Worker, WorkerStep(i) PROVE ProcessingIsUnderway'
  <2>1. ASSUME NEW from \in PC, NEW to \in PC,
               from \in Underway => to \in Underway,
               Goto(i, from, to), UNCHANGED <<jobStates, batch>>
        PROVE  ProcessingIsUnderway'
    BY <2>1 DEF Goto
  <2>2. ASSUME MarkProcessing(i) PROVE ProcessingIsUnderway'
    BY <2>2 DEF MarkProcessing, Goto, Underway
  <2>3. ASSUME MarkFinal(i) PROVE ProcessingIsUnderway'
    <3>1. FinalState(i) # "processing"
      BY DEF FinalState
    <3> QED BY <2>3, <3>1 DEF MarkFinal, Goto
  <2> QED
    BY <1>4, <2>1, <2>2, <2>3
    DEF WorkerStep, AcquireSlot, RegisterCancel, BodyReturns, Deregister,
        RemovePendingJob, ReleaseSlot, PC, Underway
<1>5. ASSUME NEW i \in Worker, CleanUp(i) PROVE ProcessingIsUnderway'
  BY <1>5 DEF CleanUp
<1>6. CASE UNCHANGED vars
  BY <1>6 DEF vars
<1> QED BY <1>1, <1>2, <1>3, <1>4, <1>5, <1>6 DEF Next

-----------------------------------------------------------------------------
(* The semaphore. *)

\* The tokens follow the workers that hold one.
LEMMA SlotsStep == IInv /\ [Next]_vars => SlotsAccountedFor'
<1> SUFFICES ASSUME IInv, [Next]_vars PROVE SlotsAccountedFor'
  OBVIOUS
<1> USE DEF IInv, TypeOK, SlotsAccountedFor
<1>1. ASSUME UNCHANGED <<batch, pc, semaphore>> PROVE SlotsAccountedFor'
  BY <1>1 DEF At, Worker
<1>2. ASSUME StartBatch PROVE SlotsAccountedFor'
  <2>1. At(Holding) = {}
    BY <1>2 DEF StartBatch, At, Holding, PC
  <2>2. At(Holding)' = {}
    BY <1>2 DEF StartBatch, At, Worker, Holding, PC
  <2> QED BY <1>2, <2>1, <2>2 DEF StartBatch
<1>3. ASSUME NEW i \in Worker, WorkerStep(i) PROVE SlotsAccountedFor'
  <2>1. ASSUME NEW from \in Holding, NEW to \in Holding,
               Goto(i, from, to), UNCHANGED <<batch, semaphore>>
        PROVE  SlotsAccountedFor'
    <3>1. At(Holding)' = At(Holding)
      BY <2>1 DEF At, Worker, Goto
    <3> QED BY <2>1, <3>1
  <2>2. ASSUME AcquireSlot(i) PROVE SlotsAccountedFor'
    <3>1. i \notin At(Holding) /\ At(Holding)' = At(Holding) \cup {i}
      BY <2>2 DEF AcquireSlot, At, Worker, Goto, Holding, PC
    <3>2. Cardinality(At(Holding)') = Cardinality(At(Holding)) + 1
      BY <3>1, WorkersAreFinite, FS_AddElement
    <3> QED BY <2>2, <3>2, MaxWorkersAssumption DEF AcquireSlot, SlotFree
  <2>3. ASSUME ReleaseSlot(i) PROVE SlotsAccountedFor'
    <3>1. i \in At(Holding) /\ At(Holding)' = At(Holding) \ {i}
      BY <2>3 DEF ReleaseSlot, At, Worker, Goto, Holding, PC
    <3>2. Cardinality(At(Holding)') = Cardinality(At(Holding)) - 1
      BY <3>1, WorkersAreFinite, FS_RemoveElement
    <3> QED BY <2>3, <3>2, MaxWorkersAssumption DEF ReleaseSlot, TokenReceived
  <2> QED
    BY <1>3, <2>1, <2>2, <2>3
    DEF WorkerStep, MarkProcessing, RegisterCancel, BodyReturns, MarkFinal, Deregister,
        RemovePendingJob, Holding, PC
<1> QED
  BY <1>1, <1>2, <1>3 DEF Next, AddPendingJob, CancelJob, CleanUp, vars

-----------------------------------------------------------------------------
(* The theorems. *)

LEMMA InitInv == Init => IInv
<1> SUFFICES ASSUME Init PROVE IInv
  OBVIOUS
<1> USE DEF Init, Worker, At, None
<1>1. TypeOK
  BY DEF TypeOK, JobState
<1>2. SlotsAccountedFor
  <2>1. At(Holding) = {}
    OBVIOUS
  <2> QED BY <2>1, FS_EmptySet, MaxWorkersAssumption DEF SlotsAccountedFor
<1>3. /\ CancelledIsRegistered /\ ReturnsOnlyWhenCancelled /\ ActiveIsLive
      /\ LoneWorkerIsRegistered /\ ProcessingIsUnderway
  BY DEF CancelledIsRegistered, ReturnsOnlyWhenCancelled, ActiveIsLive,
         LoneWorkerIsRegistered, ProcessingIsUnderway
<1> QED BY <1>1, <1>2, <1>3 DEF IInv

LEMMA NextInv == IInv /\ [Next]_vars => IInv'
BY TypeStep, SlotsStep, CancelledStep, ReturnsStep, ActiveStep, LoneStep, UnderwayStep
DEF IInv

LEMMA Invariance == Spec => []IInv
BY InitInv, NextInv, PTL DEF Spec

\* The list, the maps and the workers of pending.go keep their types in every
\* behaviour: in particular no slot is released twice and CancelJob only ever
\* cancels contexts of the current batch.
THEOREM TypeCorrect == Spec => []TypeOK
BY Invariance, PTL DEF IInv

\* At most MaxWorkers jobs hold a slot, and each token of the semaphore is held by
\* exactly one of them, for every limit getMaxWorkers can return.
THEOREM SlotsAreBounded == Spec => []SlotsAccountedFor
BY Invariance, PTL DEF IInv

\* A successful cancel reaches a live, uncancelled context of that directory.
THEOREM CancelReachesLiveWorker == Spec => []ActiveIsLive
BY Invariance, PTL DEF IInv

\* While a directory has one worker, its cancel function stays registered.
THEOREM LoneWorkerStaysRegistered == Spec => []LoneWorkerIsRegistered
BY Invariance, PTL DEF IInv

\* ProcessJob returns to processJob only after a cancel and the clean-up.
THEOREM NothingReturnsUncancelled == Spec => []ReturnsOnlyWhenCancelled
BY Invariance, PTL DEF IInv

\* The state "processing" never outlives the worker that wrote it.
THEOREM ProcessingIsNeverStale == Spec => []ProcessingIsUnderway
BY Invariance, PTL DEF IInv

\* No job is ever written as "failed".
THEOREM FailedNeverWritten == Spec => []FailedIsUnreachable
<1>1. Init => FailedIsUnreachable
  BY DEF Init, FailedIsUnreachable
<1>2. IInv /\ FailedIsUnreachable /\ [Next]_vars => FailedIsUnreachable'
  <2> SUFFICES ASSUME IInv, FailedIsUnreachable, [Next]_vars PROVE FailedIsUnreachable'
    OBVIOUS
  <2> USE DEF IInv, TypeOK, FailedIsUnreachable
  <2>1. ASSUME NEW i \in Worker, MarkFinal(i) PROVE FailedIsUnreachable'
    <3>1. FinalState(i) # "failed"
      BY <2>1 DEF MarkFinal, CleanupDone, FinalState, ReturnsOnlyWhenCancelled
    <3> QED BY <2>1, <3>1 DEF MarkFinal
  <2>2. ASSUME NEW i \in Worker, WorkerStep(i), ~ MarkFinal(i) PROVE FailedIsUnreachable'
    BY <2>2 DEF WorkerStep, AcquireSlot, MarkProcessing, RegisterCancel, BodyReturns,
                Deregister, RemovePendingJob, ReleaseSlot
  <2> QED
    BY <2>1, <2>2 DEF Next, AddPendingJob, CancelJob, StartBatch, KeptAtStart, CleanUp, vars
<1> QED BY <1>1, <1>2, Invariance, PTL DEF Spec

=============================================================================
