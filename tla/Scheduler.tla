----------------------------- MODULE Scheduler -----------------------------
(***************************************************************************)
(* The job queue of job/pending.go: the list of pending directories, the   *)
(* two maps that hold the state and the cancel function of a job, and the  *)
(* dispatcher that turns a snapshot of the list into one goroutine per     *)
(* entry, bounded by a semaphore.                                          *)
(*                                                                         *)
(* A job is named by its directory: the hash that keys the maps is the     *)
(* base name of a directory and all of them lie under os.TempDir().        *)
(* A goroutine is named by its position in the snapshot: wg.Wait() ends a  *)
(* batch before the next snapshot is taken, so positions can be reused.    *)
(*                                                                         *)
(* ProcessJob is seen from outside: its body returns an error or nil, and  *)
(* its deferred receive holds that result back until the cleanup goroutine *)
(* has closed its channel.  JobPipeline models the body.                   *)
(***************************************************************************)
EXTENDS Integers, Sequences, FiniteSets, SequencesExt

CONSTANTS
    Dir,            \* the job directories that callers may add
    MaxWorkers,     \* what getMaxWorkers() returned
    QueueBound      \* bound: AddPendingJob is not called on a list this long

ASSUME MaxWorkersAssumption == MaxWorkers \in 1..10
ASSUME QueueBoundAssumption == QueueBound \in Nat

VARIABLES
    pendingJobs,    \* the list of directories
    jobStates,      \* directory -> its state, "absent" when it has no key
    activeJobs,     \* directory -> the goroutine whose cancel it holds, or None
    batch,          \* the dispatcher's snapshot `jobs`
    pc,             \* goroutine -> where it is
    outcome,        \* goroutine -> what ProcessJob's body returned
    cancelled,      \* the goroutines whose context is cancelled
    cleaned,        \* the goroutines whose cleanup goroutine has finished
    semaphore       \* tokens in the semaphore channel

vars == <<pendingJobs, jobStates, activeJobs, batch, pc, outcome, cancelled,
          cleaned, semaphore>>

None == 0
Worker == DOMAIN batch

JobState == {"pending", "processing", "completed", "failed", "cancelled"}
Outcome == {"none", "ok", "error"}

(***************************************************************************)
(* A goroutine: "spawned" waits for the semaphore; "acquired" and "marked" *)
(* stand before the two critical sections of processJob; "processing" is   *)
(* inside the body of ProcessJob and "awaiting" at its deferred receive;   *)
(* "finished", "deregistered" and "removed" stand after the last critical  *)
(* sections; "done" has given its token back and called wg.Done().         *)
(***************************************************************************)
PC == {"spawned", "acquired", "marked", "processing", "awaiting",
       "finished", "deregistered", "removed", "done"}

\* The goroutine holds a token of the semaphore.
Holding == PC \ {"spawned", "done"}
\* It has stored its cancel function, and has not run the deferred delete.
Registered == {"processing", "awaiting", "finished"}
\* It has written "processing" and not yet the final state of its job.
Underway == {"marked", "processing", "awaiting"}
\* It has not removed its entry from pendingJobs.
Unremoved == PC \ {"removed", "done"}

At(S) == {i \in Worker : pc[i] \in S}

TypeOK ==
    /\ pendingJobs \in Seq(Dir)
    /\ jobStates \in [Dir -> JobState \cup {"absent"}]
    /\ activeJobs \in [Dir -> Nat]
    /\ batch \in Seq(Dir)
    /\ pc \in [Worker -> PC]
    /\ outcome \in [Worker -> Outcome]
    /\ cancelled \subseteq Worker
    /\ cleaned \subseteq Worker
    /\ semaphore \in Nat

Init ==
    /\ pendingJobs = <<>>
    /\ jobStates = [d \in Dir |-> "absent"]
    /\ activeJobs = [d \in Dir |-> None]
    /\ batch = <<>>
    /\ pc = <<>>
    /\ outcome = <<>>
    /\ cancelled = {}
    /\ cleaned = {}
    /\ semaphore = 0

-----------------------------------------------------------------------------
(* The list of pending directories. *)

\* Wrong variant: every entry for d goes, a later upload's included.
WithoutAll(s, d) == Remove(s, d)

\* The loop of RemovePendingJob breaks at the first entry for d.
WithoutFirst(s, d) == RemoveFirst(s, d)

\* Wrong variant: a directory that is already listed is not added again.
AppendedIfNew(s, d) == IF \E k \in DOMAIN s : s[k] = d THEN s ELSE Append(s, d)

Appended(s, d) == Append(s, d)

\* AddPendingJob is called by the upload handler and by the start-up scan.
AddPendingJob(d) ==
    /\ Len(pendingJobs) < QueueBound
    /\ pendingJobs' = Appended(pendingJobs, d)
    /\ jobStates' = [jobStates EXCEPT ![d] = "pending"]
    /\ UNCHANGED <<activeJobs, batch, pc, outcome, cancelled, cleaned, semaphore>>

-----------------------------------------------------------------------------
(* CancelJob. *)

\* What CancelJob answers for d: nil is "ok", every other value an error.
CancelAnswer(d) ==
    CASE jobStates[d] = "absent" -> "not found"
      [] jobStates[d] \in JobState \ {"pending"} -> jobStates[d]
      [] jobStates[d] = "pending" /\ activeJobs[d] = None -> "not active"
      [] OTHER -> "ok"

\* Wrong variants: the key is not deleted; the cancel function is not called.
Kept(d) == activeJobs
NotCalled(d) == cancelled

\* delete(activeJobs, hash), whoever stored the entry.
Deleted(d) == [activeJobs EXCEPT ![d] = None]
\* cancel(), for the function stored under the hash.
Called(d) == cancelled \cup {activeJobs[d]}

\* A refused cancel changes nothing; this is the call that succeeds.
CancelJob(d) ==
    /\ CancelAnswer(d) = "ok"
    /\ cancelled' = Called(d)
    /\ activeJobs' = Deleted(d)
    /\ jobStates' = [jobStates EXCEPT ![d] = "cancelled"]
    /\ UNCHANGED <<pendingJobs, batch, pc, outcome, cleaned, semaphore>>

-----------------------------------------------------------------------------
(* The dispatcher, ProcessPendingJobs. *)

\* Wrong variant: the jobs of a batch are marked when it starts.
MarkedAtStart ==
    [d \in Dir |-> IF \E k \in DOMAIN pendingJobs : pendingJobs[k] = d
                  THEN "processing" ELSE jobStates[d]]

\* A job keeps its state until it has a slot.
KeptAtStart == jobStates

\* The previous batch has drained (wg.Wait() returned) and the list is not
\* empty: snapshot it and start a goroutine for each entry.  A goroutine that
\* is not started yet cannot be told from one that waits for the semaphore.
StartBatch ==
    /\ \A i \in Worker : pc[i] = "done"
    /\ pendingJobs # <<>>
    /\ batch' = pendingJobs
    /\ pc' = [i \in DOMAIN pendingJobs |-> "spawned"]
    /\ outcome' = [i \in DOMAIN pendingJobs |-> "none"]
    /\ cancelled' = {}
    /\ cleaned' = {}
    /\ jobStates' = KeptAtStart
    /\ UNCHANGED <<pendingJobs, activeJobs, semaphore>>

-----------------------------------------------------------------------------
(* A goroutine of the batch: the worker function and processJob. *)

Goto(i, from, to) ==
    /\ pc[i] = from
    /\ pc' = [pc EXCEPT ![i] = to]

\* Wrong variant: no limit on the slots.
AlwaysFree == TRUE

SlotFree == semaphore < MaxWorkers

\* semaphore <- struct{}{}
AcquireSlot(i) ==
    /\ Goto(i, "spawned", "acquired")
    /\ SlotFree
    /\ semaphore' = semaphore + 1
    /\ UNCHANGED <<pendingJobs, jobStates, activeJobs, batch, outcome, cancelled, cleaned>>

\* The first critical section of processJob.
MarkProcessing(i) ==
    /\ Goto(i, "acquired", "marked")
    /\ jobStates' = [jobStates EXCEPT ![batch[i]] = "processing"]
    /\ UNCHANGED <<pendingJobs, activeJobs, batch, outcome, cancelled, cleaned, semaphore>>

\* The second: the fresh context's cancel function replaces whatever the map
\* held for the hash.
RegisterCancel(i) ==
    /\ Goto(i, "marked", "processing")
    /\ activeJobs' = [activeJobs EXCEPT ![batch[i]] = i]
    /\ UNCHANGED <<pendingJobs, jobStates, batch, outcome, cancelled, cleaned, semaphore>>

\* The body of ProcessJob evaluates its return value and enters the defers.
BodyReturns(i, r) ==
    /\ Goto(i, "processing", "awaiting")
    /\ outcome' = [outcome EXCEPT ![i] = r]
    /\ UNCHANGED <<pendingJobs, jobStates, activeJobs, batch, cancelled, cleaned, semaphore>>

Listening(i) == pc[i] \in {"processing", "awaiting"}

\* The cleanup goroutine that ProcessJob starts: it waits for <-ctx.Done(),
\* removes the directory and closes cleanupDone.
CleanUp(i) ==
    /\ i \in cancelled \ cleaned
    /\ Listening(i)
    /\ cleaned' = cleaned \cup {i}
    /\ UNCHANGED <<pendingJobs, jobStates, activeJobs, batch, pc, outcome, cancelled, semaphore>>

\* The state processJob writes for what ProcessJob returned.
FinalState(i) ==
    IF outcome[i] = "ok" THEN "completed"
    ELSE IF i \in cancelled THEN "cancelled" ELSE "failed"

\* Wrong variant: ProcessJob does not wait for its cleanup goroutine.
NotAwaited(i) == TRUE

CleanupDone(i) == i \in cleaned

\* <-cleanupDone is received, ProcessJob returns, and processJob writes the
\* final state in its third critical section.
MarkFinal(i) ==
    /\ Goto(i, "awaiting", "finished")
    /\ CleanupDone(i)
    /\ jobStates' = [jobStates EXCEPT ![batch[i]] = FinalState(i)]
    /\ UNCHANGED <<pendingJobs, activeJobs, batch, outcome, cancelled, cleaned, semaphore>>

\* The deferred delete(activeJobs, hash) deletes the key, whoever stored it.
Deregister(i) ==
    /\ Goto(i, "finished", "deregistered")
    /\ activeJobs' = Deleted(batch[i])
    /\ UNCHANGED <<pendingJobs, jobStates, batch, outcome, cancelled, cleaned, semaphore>>

\* RemovePendingJob, called on success and on failure alike.
RemovePendingJob(i) ==
    /\ Goto(i, "deregistered", "removed")
    /\ pendingJobs' = WithoutFirst(pendingJobs, batch[i])
    /\ UNCHANGED <<jobStates, activeJobs, batch, outcome, cancelled, cleaned, semaphore>>

\* Wrong variants: the token stays in the channel; it is received twice.
TokenKept == semaphore
TokenReceivedTwice == semaphore - 2

TokenReceived == semaphore - 1

\* The deferred <-semaphore and wg.Done().
ReleaseSlot(i) ==
    /\ Goto(i, "removed", "done")
    /\ semaphore' = TokenReceived
    /\ UNCHANGED <<pendingJobs, jobStates, activeJobs, batch, outcome, cancelled, cleaned>>

-----------------------------------------------------------------------------
(* The next-state relation and the fairness of the Go scheduler. *)

\* The steps of goroutine i from the semaphore to its return.
WorkerStep(i) ==
    \/ AcquireSlot(i)
    \/ MarkProcessing(i)
    \/ RegisterCancel(i)
    \/ \E r \in {"ok", "error"} : BodyReturns(i, r)
    \/ MarkFinal(i)
    \/ Deregister(i)
    \/ RemovePendingJob(i)
    \/ ReleaseSlot(i)

Next ==
    \/ \E d \in Dir : AddPendingJob(d) \/ CancelJob(d)
    \/ StartBatch
    \/ \E i \in Worker : WorkerStep(i) \/ CleanUp(i)

Spec == Init /\ [][Next]_vars

\* Every goroutine that can run does run: the dispatcher (it polls each second),
\* the workers and the cleanup goroutines.  Nothing makes a caller add or
\* cancel.  That BodyReturns is fair says that encoders, backends and the
\* callback (30 s timeout) return.
Fairness ==
    /\ WF_vars(StartBatch)
    /\ \A i \in 1..QueueBound :
         /\ WF_vars(i \in Worker /\ WorkerStep(i))
         /\ WF_vars(i \in Worker /\ CleanUp(i))

FairSpec == Spec /\ Fairness

-----------------------------------------------------------------------------
(* Safety. *)

\* The tokens in the semaphore are the workers between acquiring and releasing,
\* so at most MaxWorkers jobs are worked on at once, whatever path a job takes
\* out of processJob.
SlotsAccountedFor ==
    /\ semaphore = Cardinality(At(Holding))
    /\ semaphore <= MaxWorkers

\* A cancel function in activeJobs belongs to a goroutine of the current batch
\* that works on that very directory, has not returned from processJob, and has
\* not been cancelled: a cancel that is answered with success always reaches a
\* live context, and cancels it for the first time.
ActiveIsLive ==
    \A d \in Dir : activeJobs[d] # None =>
        /\ activeJobs[d] \in At(Registered) \ cancelled
        /\ batch[activeJobs[d]] = d

\* While the only worker for a directory sits in ProcessJob with a live context,
\* activeJobs holds its cancel function.  (Two workers for one directory break
\* this: the first to leave deletes the key of the other.)
LoneWorkerIsRegistered ==
    \A i \in At({"processing", "awaiting"}) \ cancelled :
        (\A j \in Worker \ {i} : batch[j] # batch[i]) => activeJobs[batch[i]] = i

\* ProcessJob lets no result out before its context was cancelled and the
\* directory cleaned up: processJob's final write, the removal from the list and
\* the release of the slot all wait for a cancel.
ReturnsOnlyWhenCancelled ==
    /\ At({"finished", "deregistered", "removed", "done"}) \subseteq cleaned
    /\ cleaned \subseteq cancelled

\* A job is reported "processing" only while a worker for it is between writing
\* that state and writing the final one: the state never outlives the worker.
ProcessingIsUnderway ==
    \A d \in Dir : jobStates[d] = "processing" =>
        \E i \in At(Underway) : batch[i] = d

\* The front of the list is the part of the current batch that has not been
\* removed, up to the order of equal counts; what follows was added since.
\* RemovePendingJob therefore takes an entry of its own batch, never the one a
\* later upload of the same file has just added.
BatchIsQueueFront ==
    LET left == At(Unremoved)
        n == Cardinality(left)
    IN  /\ n <= Len(pendingJobs)
        /\ \A d \in Dir : Cardinality({k \in 1..n : pendingJobs[k] = d})
                          = Cardinality({i \in left : batch[i] = d})

\* A job that is reported "pending" is still to be picked up: a worker of the
\* batch has yet to mark it, or its entry waits behind the batch.
PendingIsQueued ==
    \A d \in Dir : jobStates[d] = "pending" =>
        \/ \E i \in At({"spawned", "acquired"}) : batch[i] = d
        \/ \E k \in DOMAIN pendingJobs :
               k > Cardinality(At(Unremoved)) /\ pendingJobs[k] = d

\* CancelJob succeeds only for a directory that is listed twice: a pending job has
\* no cancel function of its own, so what is called is that of another worker for
\* the same file, which is running.  A file uploaded once cannot be cancelled, though
\* "Allow cancellation of pending jobs" (pending.go:114).
CancelOnlyOfDoubled ==
    \A d \in Dir : CancelAnswer(d) = "ok" =>
        \E j, k \in DOMAIN pendingJobs : j # k /\ pendingJobs[j] = d /\ pendingJobs[k] = d

-----------------------------------------------------------------------------
(* Liveness. *)

\* If every worker that is parked at the receive on cleanupDone were cancelled in
\* the end, every pending job would be worked on: the missing cancel is the one
\* obstacle, neither the semaphore nor the end of a batch is another.
PendingStartsIfCancelled ==
    (\A i \in 1..QueueBound : (i \in At({"awaiting"})) ~> (i \in cancelled))
        => \A d \in Dir : (jobStates[d] = "pending") ~> (jobStates[d] = "processing")

-----------------------------------------------------------------------------
(* What the documentation says and the code does not do. *)

\* "Removes job from pending queue on success", "Removes failed jobs from queue":
\* once the body of ProcessJob has returned, the job leaves the list.
FinishedJobLeavesQueue ==
    \A i \in 1..QueueBound :
        (i \in At({"awaiting"})) ~> (i \in At({"removed", "done"}))

\* "failed - Job encountered an error during processing" (README.MD:55) and, of a
\* conversion or upload that fails, "Mark job as failed" (README.MD:128): a job whose
\* body has returned an error is written as failed, unless a cancel comes first.
FailedIsMarked ==
    \A d \in Dir :
        (\E i \in At({"awaiting"}) \ cancelled : batch[i] = d /\ outcome[i] = "error")
            ~> (jobStates[d] = "failed" \/ \E i \in cancelled : batch[i] = d)

\* Of these two the weaker claim, that one of them holds: a single behaviour refutes
\* it only if it refutes both.  In it a body fails, nobody cancels, and the job is
\* neither marked nor taken off the list for ever.
EndsAsDocumented == FinishedJobLeavesQueue \/ FailedIsMarked

\* What happens instead: a failing body gets past the receive on cleanupDone only
\* when its job is cancelled, and then the job is written as "cancelled", so no job
\* is ever reported as failed.
FailedIsUnreachable == \A d \in Dir : jobStates[d] # "failed"

\* "Once a job starts processing, it cannot be cancelled": no cancel reaches the
\* context of a worker that has entered ProcessJob.
RunningIsNotCancelled ==
    [][At({"processing", "awaiting"}) \cap cancelled' \subseteq cancelled]_vars

=============================================================================
