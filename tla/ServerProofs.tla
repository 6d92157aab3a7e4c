---------------------------- MODULE ServerProofs ----------------------------
(***************************************************************************)
(* For every set of directories, every number of slots and however many    *)
(* crashes, restarts and errors: what is on disk keeps what was accepted.  *)
(***************************************************************************)
EXTENDS Server, TLAPS

\* The goroutines are those of the one batch.
JobsOfBatch == \A h \in Hash : job[h] # "idle" <=> h \in batch

\* What waits for a run, or is in one, has a directory.
OnDisk ==
    /\ batch = {} => \A h \in pendingJobs : directory[h] # "none"
    /\ \A h \in Hash : job[h] \notin {"idle", "parked"} => directory[h] # "none"

\* A handler that has not queued its job has the directory to itself.
OwnDirectory ==
    \A h \in Hash :
        /\ handler[h] = "made" => directory[h] = "bare" /\ h \notin accepted
        /\ handler[h] = "created" => directory[h] = "torn" /\ h \notin accepted
        /\ handler[h] = "written" => directory[h] = "ready"
        /\ handler[h] \in {"made", "created", "written"} => job[h] \in {"idle", "parked"}
        /\ handler[h] \in {"made", "created", "written"} /\ batch = {} => h \notin pendingJobs

\* Past StoreSuccess there is a success record, or its error was dropped.
PastRecord ==
    \A h \in Hash :
        job[h] \in {"recorded", "called", "removing"} => "success" \in verdicts[h] \/ h \in lost

\* A run of this start is still held by its goroutine.
RunsCounted ==
    \A h \in Hash :
        /\ since[h] <= starts
        /\ runs[h] <= starts - since[h]
                        + (IF process = "down" \/ job[h] \notin {"idle", "waiting"} THEN 1 ELSE 0)

\* After a shutdown that was not forced no handler is left.
CutAtClose == process = "closing" => InHandler \subseteq cut

\* No batch begins and no handler runs before the scan is over; so the batch has
\* all that the scan has found.
ScanIsInBatch ==
    /\ process \in {"down", "scanning"} => batch = {} /\ InHandler = {}
    /\ scanned \subseteq pendingJobs
    /\ batch # {} => scanned \subseteq batch

IInv ==
    /\ TypeOK
    /\ JobsOfBatch
    /\ OnDisk
    /\ OwnDirectory
    /\ PastRecord
    /\ RunsCounted
    /\ CutAtClose
    /\ ScanIsInBatch
    /\ NothingForgotten
    /\ CallbackAfterRecord
    /\ ShutdownCutsNoUpload

-----------------------------------------------------------------------------
\* Every step keeps the types.
LEMMA TypeStep == TypeOK /\ [Next]_vars => TypeOK'
<1> SUFFICES ASSUME TypeOK, [Next]_vars PROVE TypeOK'
  OBVIOUS
<1> USE BoundAssumption DEF TypeOK, Process, Content, Handler, Job, Live, InHandler,
      disk, memory, ghosts
<1>1. CASE Start
  BY <1>1 DEF Start
<1>2. CASE \E h \in Hash : ScanEntry(h)
  BY <1>2 DEF ScanEntry
<1>3. CASE Serve
  BY <1>3 DEF Serve, Error
<1>4. CASE \E h \in Hash : MakeDirectory(h)
  BY <1>4 DEF MakeDirectory
<1>5. CASE \E h \in Hash : CreateInstructions(h)
  BY <1>5 DEF CreateInstructions, HandlerGoesOn
<1>6. CASE \E h \in Hash : EncodeInstructions(h)
  BY <1>6 DEF EncodeInstructions, HandlerGoesOn
<1>7. CASE \E h \in Hash : HandlerFails(h)
  BY <1>7 DEF HandlerFails, HandlerGoesOn, Error
<1>8. CASE \E h \in Hash : AddPendingJob(h)
  BY <1>8 DEF AddPendingJob, HandlerGoesOn
<1>9. CASE \E h \in Hash : RespondSuccess(h)
  BY <1>9 DEF RespondSuccess, HandlerGoesOn
<1>10. CASE StartBatch
  BY <1>10 DEF StartBatch, Dispatches
<1>11. CASE \E h \in Hash : BeginJob(h)
  BY <1>11 DEF BeginJob, JobGoesOn
<1>12. CASE \E h \in Hash : DecideJob(h)
  BY <1>12 DEF DecideJob, JobGoesOn, CanSucceed
<1>13. CASE \E h \in Hash, v \in {"success", "failed"} : StoreRecord(h, v)
  BY <1>13 DEF StoreRecord, AfterRecord, JobGoesOn
<1>14. CASE \E h \in Hash, v \in {"success", "failed"} : StoreFails(h, v)
  BY <1>14 DEF StoreFails, AfterRecord, JobGoesOn, Error
<1>15. CASE \E h \in Hash : SendCallback(h)
  BY <1>15 DEF SendCallback, CallsBack, JobGoesOn
<1>16. CASE \E h \in Hash : BeginRemove(h)
  BY <1>16 DEF BeginRemove, MayRemove, JobGoesOn
<1>17. CASE \E h \in Hash : EndRemove(h)
  BY <1>17 DEF EndRemove, JobGoesOn, Error
<1>18. CASE Signal
  BY <1>18 DEF Signal
<1>19. CASE ShutdownDone
  BY <1>19 DEF ShutdownDone, HandlersDone
<1>20. CASE ShutdownForced
  BY <1>20 DEF ShutdownForced, Error
<1>21. CASE Exit
  BY <1>21 DEF Exit, Forget
<1>22. CASE Crash
  BY <1>22 DEF Crash, Forget
<1>23. CASE UNCHANGED vars
  BY <1>23 DEF vars
<1> QED
  BY <1>1, <1>2, <1>3, <1>4, <1>5, <1>6, <1>7, <1>8, <1>9, <1>10, <1>11, <1>12, <1>13,
     <1>14, <1>15, <1>16, <1>17, <1>18, <1>19, <1>20, <1>21, <1>22, <1>23 DEF Next,
     StartStep, UploadStep, JobStep

\* Goroutines come with the batch and go with the process.
LEMMA JobsOfBatchStep == IInv /\ [Next]_vars => JobsOfBatch'
<1> SUFFICES ASSUME IInv, [Next]_vars PROVE JobsOfBatch'
  OBVIOUS
<1> USE DEF IInv, TypeOK, JobsOfBatch, Live, disk, memory, ghosts
<1>1. CASE StartBatch
  BY <1>1 DEF StartBatch, Dispatches
<1>2. CASE Exit
  BY <1>2 DEF Exit, Forget
<1>3. CASE Crash
  BY <1>3 DEF Crash, Forget
<1>4. CASE \/ Start \/ Serve \/ Signal \/ ShutdownDone \/ ShutdownForced
           \/ \E h \in Hash : ScanEntry(h) \/ MakeDirectory(h) \/ CreateInstructions(h) \/
                                   EncodeInstructions(h) \/ HandlerFails(h) \/
                                   AddPendingJob(h) \/ RespondSuccess(h) \/ BeginJob(h)
                                   \/ DecideJob(h) \/ SendCallback(h) \/ BeginRemove(h)
                                   \/ EndRemove(h)
           \/ \E h \in Hash, v \in {"success", "failed"} : StoreRecord(h, v) \/ StoreFails(h, v)
           \/ UNCHANGED vars
  BY <1>4 DEF Start, ScanEntry, Serve, Error, MakeDirectory, CreateInstructions,
     HandlerGoesOn, EncodeInstructions, HandlerFails, AddPendingJob, RespondSuccess,
     BeginJob, JobGoesOn, DecideJob, CanSucceed, StoreRecord, AfterRecord, StoreFails,
     SendCallback, CallsBack, BeginRemove, MayRemove, EndRemove, Signal, ShutdownDone,
     HandlersDone, ShutdownForced, vars
<1> QED
  BY <1>1, <1>2, <1>3, <1>4 DEF Next, StartStep, UploadStep, JobStep

\* A directory is removed only by the goroutine that has its job.
LEMMA OnDiskStep == IInv /\ [Next]_vars => OnDisk'
<1> SUFFICES ASSUME IInv, [Next]_vars PROVE OnDisk'
  OBVIOUS
<1> USE DEF IInv, TypeOK, OnDisk, OwnDirectory, JobsOfBatch, HasInstructions, Live,
      disk, memory, ghosts
<1>1. CASE \E h \in Hash : ScanEntry(h)
  BY <1>1 DEF ScanEntry
<1>2. CASE \E h \in Hash : MakeDirectory(h)
  BY <1>2 DEF MakeDirectory
<1>3. CASE \E h \in Hash : AddPendingJob(h)
  BY <1>3 DEF AddPendingJob, HandlerGoesOn
<1>4. CASE StartBatch
  BY <1>4 DEF StartBatch, Dispatches
<1>5. CASE \E h \in Hash : EndRemove(h)
  BY <1>5 DEF EndRemove, JobGoesOn, Error
<1>6. CASE Exit
  BY <1>6 DEF Exit, Forget
<1>7. CASE Crash
  BY <1>7 DEF Crash, Forget
<1>8. CASE \/ Start \/ Serve \/ Signal \/ ShutdownDone \/ ShutdownForced
           \/ \E h \in Hash : CreateInstructions(h) \/ EncodeInstructions(h) \/ HandlerFails(h) \/
                                   RespondSuccess(h) \/ BeginJob(h) \/ DecideJob(h) \/
                                   SendCallback(h) \/ BeginRemove(h)
           \/ \E h \in Hash, v \in {"success", "failed"} : StoreRecord(h, v) \/ StoreFails(h, v)
           \/ UNCHANGED vars
  BY <1>8 DEF Start, Serve, Error, CreateInstructions, HandlerGoesOn,
     EncodeInstructions, HandlerFails, RespondSuccess, BeginJob, JobGoesOn, DecideJob,
     CanSucceed, StoreRecord, AfterRecord, StoreFails, SendCallback, CallsBack,
     BeginRemove, MayRemove, Signal, ShutdownDone, HandlersDone, ShutdownForced, vars
<1> QED
  BY <1>1, <1>2, <1>3, <1>4, <1>5, <1>6, <1>7, <1>8 DEF Next, StartStep, UploadStep,
     JobStep

\* Before the job is queued nobody else touches the directory.
LEMMA OwnDirectoryStep == IInv /\ [Next]_vars => OwnDirectory'
<1> SUFFICES ASSUME IInv, [Next]_vars PROVE OwnDirectory'
  OBVIOUS
<1> USE DEF IInv, TypeOK, OnDisk, OwnDirectory, JobsOfBatch, ScanIsInBatch, InHandler,
      Live, disk, memory, ghosts
<1>1. CASE \E h \in Hash : ScanEntry(h)
  BY <1>1 DEF ScanEntry
<1>2. CASE \E h \in Hash : MakeDirectory(h)
  BY <1>2 DEF MakeDirectory
<1>3. CASE \E h \in Hash : CreateInstructions(h)
  BY <1>3 DEF CreateInstructions, HandlerGoesOn
<1>4. CASE \E h \in Hash : EncodeInstructions(h)
  BY <1>4 DEF EncodeInstructions, HandlerGoesOn
<1>5. CASE \E h \in Hash : AddPendingJob(h)
  BY <1>5 DEF AddPendingJob, HandlerGoesOn
<1>6. CASE StartBatch
  BY <1>6 DEF StartBatch, Dispatches
<1>7. CASE \E h \in Hash : BeginRemove(h)
  BY <1>7 DEF BeginRemove, MayRemove, JobGoesOn
<1>8. CASE \E h \in Hash : EndRemove(h)
  BY <1>8 DEF EndRemove, JobGoesOn, Error
<1>9. CASE Exit
  BY <1>9 DEF Exit, Forget
<1>10. CASE Crash
  BY <1>10 DEF Crash, Forget
<1>11. CASE \/ Start \/ Serve \/ Signal \/ ShutdownDone \/ ShutdownForced
            \/ \E h \in Hash : HandlerFails(h) \/ RespondSuccess(h) \/ BeginJob(h) \/ DecideJob(h) \/
                                    SendCallback(h)
            \/ \E h \in Hash, v \in {"success", "failed"} : StoreRecord(h, v) \/ StoreFails(h, v)
            \/ UNCHANGED vars
  BY <1>11 DEF Start, Serve, Error, HandlerFails, HandlerGoesOn, RespondSuccess,
     BeginJob, JobGoesOn, DecideJob, CanSucceed, StoreRecord, AfterRecord, StoreFails,
     SendCallback, CallsBack, Signal, ShutdownDone, HandlersDone, ShutdownForced, vars
<1> QED
  BY <1>1, <1>2, <1>3, <1>4, <1>5, <1>6, <1>7, <1>8, <1>9, <1>10, <1>11 DEF Next,
     StartStep, UploadStep, JobStep

\* The record comes before all that follows it.
LEMMA PastRecordStep == IInv /\ [Next]_vars => PastRecord'
<1> SUFFICES ASSUME IInv, [Next]_vars PROVE PastRecord'
  OBVIOUS
<1> USE DEF IInv, TypeOK, PastRecord, OnDisk, disk, memory, ghosts
<1>1. CASE \E h \in Hash : MakeDirectory(h)
  BY <1>1 DEF MakeDirectory
<1>2. CASE \E h \in Hash, v \in {"success", "failed"} : StoreRecord(h, v)
  BY <1>2 DEF StoreRecord, AfterRecord, JobGoesOn
<1>3. CASE \E h \in Hash, v \in {"success", "failed"} : StoreFails(h, v)
  BY <1>3 DEF StoreFails, AfterRecord, JobGoesOn, Error
<1>4. CASE \E h \in Hash : SendCallback(h)
  BY <1>4 DEF SendCallback, CallsBack, JobGoesOn
<1>5. CASE Exit
  BY <1>5 DEF Exit, Forget
<1>6. CASE Crash
  BY <1>6 DEF Crash, Forget
<1>7. CASE \/ Start \/ Serve \/ StartBatch \/ Signal \/ ShutdownDone \/ ShutdownForced
           \/ \E h \in Hash : ScanEntry(h) \/ CreateInstructions(h) \/ EncodeInstructions(h) \/
                                   HandlerFails(h) \/ AddPendingJob(h) \/
                                   RespondSuccess(h) \/ BeginJob(h) \/ DecideJob(h) \/
                                   BeginRemove(h) \/ EndRemove(h)
           \/ UNCHANGED vars
  BY <1>7 DEF Start, ScanEntry, Serve, Error, CreateInstructions, HandlerGoesOn,
     EncodeInstructions, HandlerFails, AddPendingJob, RespondSuccess, StartBatch,
     Dispatches, BeginJob, JobGoesOn, DecideJob, CanSucceed, BeginRemove, MayRemove,
     EndRemove, Signal, ShutdownDone, HandlersDone, ShutdownForced, vars
<1> QED
  BY <1>1, <1>2, <1>3, <1>4, <1>5, <1>6, <1>7 DEF Next, StartStep, UploadStep, JobStep

\* A run takes the one that this start has.
LEMMA RunsCountedStep == IInv /\ [Next]_vars => RunsCounted'
<1> SUFFICES ASSUME IInv, [Next]_vars PROVE RunsCounted'
  OBVIOUS
<1> USE BoundAssumption DEF IInv, TypeOK, RunsCounted, JobsOfBatch, Live, disk, memory,
      ghosts
<1>1. CASE Start
  BY <1>1 DEF Start
<1>2. CASE \E h \in Hash : MakeDirectory(h)
  BY <1>2 DEF MakeDirectory
<1>3. CASE StartBatch
  BY <1>3 DEF StartBatch, Dispatches
<1>4. CASE \E h \in Hash : BeginJob(h)
  BY <1>4 DEF BeginJob, JobGoesOn
<1>5. CASE Exit
  BY <1>5 DEF Exit, Forget
<1>6. CASE Crash
  BY <1>6 DEF Crash, Forget
<1>7. CASE \/ Serve \/ Signal \/ ShutdownDone \/ ShutdownForced
           \/ \E h \in Hash : ScanEntry(h) \/ CreateInstructions(h) \/ EncodeInstructions(h) \/
                                   HandlerFails(h) \/ AddPendingJob(h) \/
                                   RespondSuccess(h) \/ DecideJob(h) \/ SendCallback(h)
                                   \/ BeginRemove(h) \/ EndRemove(h)
           \/ \E h \in Hash, v \in {"success", "failed"} : StoreRecord(h, v) \/ StoreFails(h, v)
           \/ UNCHANGED vars
  BY <1>7 DEF ScanEntry, Serve, Error, CreateInstructions, HandlerGoesOn,
     EncodeInstructions, HandlerFails, AddPendingJob, RespondSuccess, DecideJob,
     JobGoesOn, CanSucceed, StoreRecord, AfterRecord, StoreFails, SendCallback,
     CallsBack, BeginRemove, MayRemove, EndRemove, Signal, ShutdownDone, HandlersDone,
     ShutdownForced, vars
<1> QED
  BY <1>1, <1>2, <1>3, <1>4, <1>5, <1>6, <1>7 DEF Next, StartStep, UploadStep, JobStep

\* A shutdown waits for the handlers or counts them.
LEMMA CutAtCloseStep == IInv /\ [Next]_vars => CutAtClose'
<1> SUFFICES ASSUME IInv, [Next]_vars PROVE CutAtClose'
  OBVIOUS
<1> USE DEF IInv, TypeOK, CutAtClose, InHandler, Live, HandlerGoesOn, disk, memory,
      ghosts
<1>1. CASE \E h \in Hash : MakeDirectory(h)
  BY <1>1 DEF MakeDirectory
<1>2. CASE \E h \in Hash : HandlerFails(h)
  BY <1>2 DEF HandlerFails, Error
<1>3. CASE ShutdownDone
  BY <1>3 DEF ShutdownDone, HandlersDone
<1>4. CASE ShutdownForced
  BY <1>4 DEF ShutdownForced, Error
<1>5. CASE \/ Start \/ Serve \/ StartBatch \/ Signal \/ Exit \/ Crash
           \/ \E h \in Hash : ScanEntry(h) \/ CreateInstructions(h) \/ EncodeInstructions(h) \/
                                   AddPendingJob(h) \/ RespondSuccess(h) \/ BeginJob(h)
                                   \/ DecideJob(h) \/ SendCallback(h) \/ BeginRemove(h)
                                   \/ EndRemove(h)
           \/ \E h \in Hash, v \in {"success", "failed"} : StoreRecord(h, v) \/ StoreFails(h, v)
           \/ UNCHANGED vars
  BY <1>5 DEF Start, ScanEntry, Serve, Error, CreateInstructions, EncodeInstructions,
     AddPendingJob, RespondSuccess, StartBatch, Dispatches, BeginJob, JobGoesOn,
     DecideJob, CanSucceed, StoreRecord, AfterRecord, StoreFails, SendCallback,
     CallsBack, BeginRemove, MayRemove, EndRemove, Signal, Exit, Forget, Crash, vars
<1> QED
  BY <1>1, <1>2, <1>3, <1>4, <1>5 DEF Next, StartStep, UploadStep, JobStep

\* The dispatcher starts after the scan.
LEMMA ScanIsInBatchStep == IInv /\ [Next]_vars => ScanIsInBatch'
<1> SUFFICES ASSUME IInv, [Next]_vars PROVE ScanIsInBatch'
  OBVIOUS
<1> USE DEF IInv, TypeOK, ScanIsInBatch, InHandler, Live, HandlerGoesOn, disk, memory,
      ghosts
<1>1. CASE Start
  BY <1>1 DEF Start
<1>2. CASE \E h \in Hash : ScanEntry(h)
  BY <1>2 DEF ScanEntry
<1>3. CASE \E h \in Hash : MakeDirectory(h)
  BY <1>3 DEF MakeDirectory
<1>4. CASE \E h \in Hash : AddPendingJob(h)
  BY <1>4 DEF AddPendingJob
<1>5. CASE StartBatch
  BY <1>5 DEF StartBatch, Dispatches
<1>6. CASE Exit
  BY <1>6 DEF Exit, Forget
<1>7. CASE Crash
  BY <1>7 DEF Crash, Forget
<1>8. CASE \/ Serve \/ Signal \/ ShutdownDone \/ ShutdownForced
           \/ \E h \in Hash : CreateInstructions(h) \/ EncodeInstructions(h) \/ HandlerFails(h) \/
                                   RespondSuccess(h) \/ BeginJob(h) \/ DecideJob(h) \/
                                   SendCallback(h) \/ BeginRemove(h) \/ EndRemove(h)
           \/ \E h \in Hash, v \in {"success", "failed"} : StoreRecord(h, v) \/ StoreFails(h, v)
           \/ UNCHANGED vars
  BY <1>8 DEF Serve, Error, CreateInstructions, EncodeInstructions, HandlerFails,
     RespondSuccess, BeginJob, JobGoesOn, DecideJob, CanSucceed, StoreRecord,
     AfterRecord, StoreFails, SendCallback, CallsBack, BeginRemove, MayRemove,
     EndRemove, Signal, ShutdownDone, HandlersDone, ShutdownForced, vars
<1> QED
  BY <1>1, <1>2, <1>3, <1>4, <1>5, <1>6, <1>7, <1>8 DEF Next, StartStep, UploadStep,
     JobStep

\* The directory of an accepted upload goes after its record.
LEMMA NothingForgottenStep == IInv /\ [Next]_vars => NothingForgotten'
<1> SUFFICES ASSUME IInv, [Next]_vars PROVE NothingForgotten'
  OBVIOUS
<1> USE DEF IInv, TypeOK, NothingForgotten, PastRecord, OwnDirectory, OnDisk, Live,
      disk, memory, ghosts
<1>1. CASE \E h \in Hash : MakeDirectory(h)
  BY <1>1 DEF MakeDirectory
<1>2. CASE \E h \in Hash : CreateInstructions(h)
  BY <1>2 DEF CreateInstructions, HandlerGoesOn
<1>3. CASE \E h \in Hash : EncodeInstructions(h)
  BY <1>3 DEF EncodeInstructions, HandlerGoesOn
<1>4. CASE \E h \in Hash, v \in {"success", "failed"} : StoreRecord(h, v)
  BY <1>4 DEF StoreRecord, AfterRecord, JobGoesOn
<1>5. CASE \E h \in Hash, v \in {"success", "failed"} : StoreFails(h, v)
  BY <1>5 DEF StoreFails, AfterRecord, JobGoesOn, Error
<1>6. CASE \E h \in Hash : BeginRemove(h)
  BY <1>6 DEF BeginRemove, MayRemove, JobGoesOn
<1>7. CASE \E h \in Hash : EndRemove(h)
  BY <1>7 DEF EndRemove, JobGoesOn, Error
<1>8. CASE \/ Start \/ Serve \/ StartBatch \/ Signal \/ ShutdownDone \/ ShutdownForced \/ Exit \/
                                   Crash
           \/ \E h \in Hash : ScanEntry(h) \/ HandlerFails(h) \/ AddPendingJob(h) \/ RespondSuccess(h)
                                   \/ BeginJob(h) \/ DecideJob(h) \/ SendCallback(h)
           \/ UNCHANGED vars
  BY <1>8 DEF Start, ScanEntry, Serve, Error, HandlerFails, HandlerGoesOn,
     AddPendingJob, RespondSuccess, StartBatch, Dispatches, BeginJob, JobGoesOn,
     DecideJob, CanSucceed, SendCallback, CallsBack, Signal, ShutdownDone, HandlersDone,
     ShutdownForced, Exit, Forget, Crash, vars
<1> QED
  BY <1>1, <1>2, <1>3, <1>4, <1>5, <1>6, <1>7, <1>8 DEF Next, StartStep, UploadStep,
     JobStep

\* The callback goes after the record.
LEMMA CallbackAfterRecordStep == IInv /\ [Next]_vars => CallbackAfterRecord'
<1> SUFFICES ASSUME IInv, [Next]_vars PROVE CallbackAfterRecord'
  OBVIOUS
<1> USE DEF IInv, TypeOK, CallbackAfterRecord, PastRecord, disk, memory, ghosts
<1>1. CASE \E h \in Hash : MakeDirectory(h)
  BY <1>1 DEF MakeDirectory
<1>2. CASE \E h \in Hash, v \in {"success", "failed"} : StoreRecord(h, v)
  BY <1>2 DEF StoreRecord, AfterRecord, JobGoesOn
<1>3. CASE \E h \in Hash, v \in {"success", "failed"} : StoreFails(h, v)
  BY <1>3 DEF StoreFails, AfterRecord, JobGoesOn, Error
<1>4. CASE \E h \in Hash : SendCallback(h)
  BY <1>4 DEF SendCallback, CallsBack, JobGoesOn
<1>5. CASE \/ Start \/ Serve \/ StartBatch \/ Signal \/ ShutdownDone \/ ShutdownForced \/ Exit \/
                                   Crash
           \/ \E h \in Hash : ScanEntry(h) \/ CreateInstructions(h) \/ EncodeInstructions(h) \/
                                   HandlerFails(h) \/ AddPendingJob(h) \/
                                   RespondSuccess(h) \/ BeginJob(h) \/ DecideJob(h) \/
                                   BeginRemove(h) \/ EndRemove(h)
           \/ UNCHANGED vars
  BY <1>5 DEF Start, ScanEntry, Serve, Error, CreateInstructions, HandlerGoesOn,
     EncodeInstructions, HandlerFails, AddPendingJob, RespondSuccess, StartBatch,
     Dispatches, BeginJob, JobGoesOn, DecideJob, CanSucceed, BeginRemove, MayRemove,
     EndRemove, Signal, ShutdownDone, HandlersDone, ShutdownForced, Exit, Forget, Crash,
     vars
<1> QED
  BY <1>1, <1>2, <1>3, <1>4, <1>5 DEF Next, StartStep, UploadStep, JobStep

\* Only what ends a handler before its time leaves torn instructions.
LEMMA ShutdownCutsNoUploadStep == IInv /\ [Next]_vars => ShutdownCutsNoUpload'
<1> SUFFICES ASSUME IInv, [Next]_vars PROVE ShutdownCutsNoUpload'
  OBVIOUS
<1> USE DEF IInv, TypeOK, ShutdownCutsNoUpload, CutAtClose, InHandler, OwnDirectory,
      Live, disk, memory, ghosts
<1>1. CASE \E h \in Hash : MakeDirectory(h)
  BY <1>1 DEF MakeDirectory
<1>2. CASE \E h \in Hash : CreateInstructions(h)
  BY <1>2 DEF CreateInstructions, HandlerGoesOn
<1>3. CASE \E h \in Hash : EncodeInstructions(h)
  BY <1>3 DEF EncodeInstructions, HandlerGoesOn
<1>4. CASE \E h \in Hash : HandlerFails(h)
  BY <1>4 DEF HandlerFails, HandlerGoesOn, Error
<1>5. CASE \E h \in Hash : BeginRemove(h)
  BY <1>5 DEF BeginRemove, MayRemove, JobGoesOn
<1>6. CASE ShutdownForced
  BY <1>6 DEF ShutdownForced, Error
<1>7. CASE Exit
  BY <1>7 DEF Exit, Forget
<1>8. CASE Crash
  BY <1>8 DEF Crash, Forget
<1>9. CASE \/ Start \/ Serve \/ StartBatch \/ Signal \/ ShutdownDone
           \/ \E h \in Hash : ScanEntry(h) \/ AddPendingJob(h) \/ RespondSuccess(h) \/ BeginJob(h) \/
                                   DecideJob(h) \/ SendCallback(h) \/ EndRemove(h)
           \/ \E h \in Hash, v \in {"success", "failed"} : StoreRecord(h, v) \/ StoreFails(h, v)
           \/ UNCHANGED vars
  BY <1>9 DEF Start, ScanEntry, Serve, Error, AddPendingJob, HandlerGoesOn,
     RespondSuccess, StartBatch, Dispatches, BeginJob, JobGoesOn, DecideJob, CanSucceed,
     StoreRecord, AfterRecord, StoreFails, SendCallback, CallsBack, EndRemove, Signal,
     ShutdownDone, HandlersDone, vars
<1> QED
  BY <1>1, <1>2, <1>3, <1>4, <1>5, <1>6, <1>7, <1>8, <1>9 DEF Next, StartStep,
     UploadStep, JobStep

\* It holds at the start.
LEMMA InitIInv == Init => IInv
<1> SUFFICES ASSUME Init PROVE IInv
  OBVIOUS
<1>1. TypeOK
  BY BoundAssumption DEF Init, TypeOK, Process, Content, Handler, Job
<1>2. JobsOfBatch /\ OnDisk /\ OwnDirectory /\ PastRecord /\ ScanIsInBatch
  BY DEF Init, JobsOfBatch, OnDisk, OwnDirectory, PastRecord, ScanIsInBatch, InHandler
<1>3. RunsCounted /\ CutAtClose
  BY DEF Init, RunsCounted, CutAtClose
<1>4. NothingForgotten /\ CallbackAfterRecord /\ ShutdownCutsNoUpload
  BY DEF Init, NothingForgotten, CallbackAfterRecord, ShutdownCutsNoUpload
<1> QED BY <1>1, <1>2, <1>3, <1>4 DEF IInv

LEMMA IInvStep == IInv /\ [Next]_vars => IInv'
<1> SUFFICES ASSUME IInv, [Next]_vars PROVE IInv'
  OBVIOUS
<1>1. TypeOK'
  BY TypeStep DEF IInv
<1>2. JobsOfBatch' /\ OnDisk' /\ OwnDirectory' /\ ScanIsInBatch'
  BY JobsOfBatchStep, OnDiskStep, OwnDirectoryStep, ScanIsInBatchStep
<1>3. PastRecord' /\ RunsCounted' /\ CutAtClose'
  BY PastRecordStep, RunsCountedStep, CutAtCloseStep
<1>4. NothingForgotten' /\ CallbackAfterRecord' /\ ShutdownCutsNoUpload'
  BY NothingForgottenStep, CallbackAfterRecordStep, ShutdownCutsNoUploadStep
<1> QED BY <1>1, <1>2, <1>3, <1>4 DEF IInv

\* What is on disk and the stage of each handler and job keep in step through every
\* crash, shutdown and restart.
THEOREM Inductive == Spec => []IInv
<1> QED BY InitIInv, IInvStep, PTL DEF Spec

\* Every variable keeps its type, and goroutines end with the process.
THEOREM ServerTypeCorrect == Spec => []TypeOK
<1>1. IInv => TypeOK
  BY DEF IInv
<1> QED BY <1>1, Inductive, PTL

\* Crashes and restarts lose no accepted upload.
THEOREM AcceptedIsKept == Spec => []NothingForgotten
<1>1. IInv => NothingForgotten
  BY DEF IInv
<1> QED BY <1>1, Inductive, PTL

\* A callback tells of a record that is there.
THEOREM CallbackIsTrue == Spec => []CallbackAfterRecord
<1>1. IInv => CallbackAfterRecord
  BY DEF IInv
<1> QED BY <1>1, Inductive, PTL

\* Only a restart runs a job again.
THEOREM AgainOnlyByRestart == Spec => []OneRunPerLife
<1>1. IInv => OneRunPerLife
  BY DEF IInv, TypeOK, RunsCounted, OneRunPerLife
<1> QED BY <1>1, Inductive, PTL

\* A shutdown in time leaves no torn instructions.
THEOREM ShutdownIsGraceful == Spec => []ShutdownCutsNoUpload
<1>1. IInv => ShutdownCutsNoUpload
  BY DEF IInv
<1> QED BY <1>1, Inductive, PTL

\* The only batch of a start begins with everything that its scan has queued: the
\* safety part of ScannedIsFinished, for every number of slots.
THEOREM BatchHasScan == Spec => [](batch # {} => scanned \subseteq batch)
<1>1. IInv => (batch # {} => scanned \subseteq batch)
  BY DEF IInv, ScanIsInBatch
<1> QED BY <1>1, Inductive, PTL

-----------------------------------------------------------------------------
(* The server implements Delivery. *)

\* Before its instructions are complete nothing has been done with an upload.
NotYet ==
    \A h \in Hash : handler[h] \in {"made", "created"} =>
        runs[h] = 0 /\ calls[h] = 0 /\ verdicts[h] = {} /\ h \notin lost

\* A goroutine that is past its slot is a run, whose callback is still to come until
\* it is "called".
CallsCounted ==
    \A h \in Hash :
        /\ calls[h] <= runs[h]
        /\ job[h] \notin {"idle", "waiting", "parked"} => runs[h] > 0
        /\ job[h] \in {"working", "failing", "succeeding", "recorded"} => calls[h] < runs[h]
        /\ job[h] \in {"called", "removing"} => calls[h] > 0

\* What can succeed was accepted, and what is being removed is no longer whole.
Complete ==
    \A h \in Hash :
        /\ directory[h] \in {"ready", "gutted"} => h \in accepted
        /\ job[h] \in {"succeeding", "recorded", "called", "removing"} => h \in accepted
        /\ job[h] = "removing" => directory[h] \in {"bare", "gutted"}

DInv == NotYet /\ CallsCounted /\ Complete

LEMMA NotYetStep == IInv /\ NotYet /\ [Next]_vars => NotYet'
<1> SUFFICES ASSUME IInv, NotYet, [Next]_vars PROVE NotYet'
  OBVIOUS
<1> USE DEF IInv, TypeOK, NotYet, OwnDirectory, disk, memory, ghosts
<1>1. CASE \E h \in Hash : MakeDirectory(h)
  BY <1>1 DEF MakeDirectory
<1>2. CASE \E h \in Hash : CreateInstructions(h)
  BY <1>2 DEF CreateInstructions, HandlerGoesOn
<1>3. CASE \E h \in Hash : EncodeInstructions(h) \/ HandlerFails(h) \/ AddPendingJob(h)
                              \/ RespondSuccess(h)
  BY <1>3 DEF EncodeInstructions, HandlerFails, AddPendingJob, RespondSuccess, HandlerGoesOn
<1>4. CASE \E h \in Hash : BeginJob(h) \/ SendCallback(h)
  BY <1>4 DEF BeginJob, SendCallback, CallsBack, JobGoesOn
<1>5. CASE \E h \in Hash, v \in {"success", "failed"} : StoreRecord(h, v) \/ StoreFails(h, v)
  BY <1>5 DEF StoreRecord, StoreFails, AfterRecord, JobGoesOn
<1>6. CASE Exit \/ Crash
  BY <1>6 DEF Exit, Crash, Forget
<1>7. CASE \/ Start \/ Serve \/ StartBatch \/ Signal \/ ShutdownDone \/ ShutdownForced
           \/ \E h \in Hash : ScanEntry(h) \/ DecideJob(h) \/ BeginRemove(h) \/ EndRemove(h)
           \/ UNCHANGED vars
  BY <1>7 DEF Start, ScanEntry, Serve, StartBatch, DecideJob, BeginRemove, EndRemove, Signal,
     ShutdownDone, ShutdownForced, vars
<1> QED
  BY <1>1, <1>2, <1>3, <1>4, <1>5, <1>6, <1>7 DEF Next, StartStep, UploadStep, JobStep

LEMMA CallsCountedStep == IInv /\ CallsCounted /\ [Next]_vars => CallsCounted'
<1> SUFFICES ASSUME IInv, CallsCounted, [Next]_vars PROVE CallsCounted'
  OBVIOUS
<1> USE DEF IInv, TypeOK, CallsCounted, OnDisk, JobGoesOn, disk, memory, ghosts
<1>1. CASE \E h \in Hash : MakeDirectory(h)
  BY <1>1 DEF MakeDirectory
<1>2. CASE StartBatch
  BY <1>2 DEF StartBatch, Dispatches, JobsOfBatch
<1>3. CASE \E h \in Hash : BeginJob(h)
  BY <1>3 DEF BeginJob
<1>4. CASE \E h \in Hash : DecideJob(h)
  BY <1>4 DEF DecideJob
<1>5. CASE \E h \in Hash, v \in {"success", "failed"} : StoreRecord(h, v) \/ StoreFails(h, v)
  BY <1>5 DEF StoreRecord, StoreFails, AfterRecord
<1>6. CASE \E h \in Hash : SendCallback(h)
  BY <1>6 DEF SendCallback, CallsBack
<1>7. CASE \E h \in Hash : BeginRemove(h) \/ EndRemove(h)
  BY <1>7 DEF BeginRemove, MayRemove, EndRemove
<1>8. CASE Exit \/ Crash
  BY <1>8 DEF Exit, Crash, Forget
<1>9. CASE \/ Start \/ Serve \/ Signal \/ ShutdownDone \/ ShutdownForced
           \/ \E h \in Hash : ScanEntry(h) \/ CreateInstructions(h) \/ EncodeInstructions(h)
                                 \/ HandlerFails(h) \/ AddPendingJob(h) \/ RespondSuccess(h)
           \/ UNCHANGED vars
  BY <1>9 DEF Start, ScanEntry, Serve, CreateInstructions, EncodeInstructions, HandlerFails,
     AddPendingJob, RespondSuccess, Signal, ShutdownDone, ShutdownForced, vars
<1> QED
  BY <1>1, <1>2, <1>3, <1>4, <1>5, <1>6, <1>7, <1>8, <1>9 DEF Next, StartStep, UploadStep,
     JobStep

LEMMA CompleteStep == IInv /\ Complete /\ [Next]_vars => Complete'
<1> SUFFICES ASSUME IInv, Complete, [Next]_vars PROVE Complete'
  OBVIOUS
<1> USE DEF IInv, TypeOK, Complete, OnDisk, OwnDirectory, HandlerGoesOn, JobGoesOn,
      disk, memory, ghosts
<1>1. CASE \E h \in Hash : MakeDirectory(h)
  BY <1>1 DEF MakeDirectory
<1>2. CASE \E h \in Hash : CreateInstructions(h) \/ EncodeInstructions(h)
  BY <1>2 DEF CreateInstructions, EncodeInstructions
<1>3. CASE StartBatch
  BY <1>3 DEF StartBatch
<1>4. CASE \E h \in Hash : BeginJob(h) \/ DecideJob(h) \/ SendCallback(h)
  BY <1>4 DEF BeginJob, DecideJob, CanSucceed, SendCallback, CallsBack
<1>5. CASE \E h \in Hash, v \in {"success", "failed"} : StoreRecord(h, v) \/ StoreFails(h, v)
  BY <1>5 DEF StoreRecord, StoreFails, AfterRecord
<1>6. CASE \E h \in Hash : BeginRemove(h) \/ EndRemove(h)
  BY <1>6 DEF BeginRemove, MayRemove, EndRemove
<1>7. CASE Exit \/ Crash
  BY <1>7 DEF Exit, Crash, Forget
<1>8. CASE \/ Start \/ Serve \/ Signal \/ ShutdownDone \/ ShutdownForced
           \/ \E h \in Hash : ScanEntry(h) \/ HandlerFails(h) \/ AddPendingJob(h)
                                 \/ RespondSuccess(h)
           \/ UNCHANGED vars
  BY <1>8 DEF Start, ScanEntry, Serve, HandlerFails, AddPendingJob, RespondSuccess, Signal,
     ShutdownDone, ShutdownForced, vars
<1> QED
  BY <1>1, <1>2, <1>3, <1>4, <1>5, <1>6, <1>7, <1>8 DEF Next, StartStep, UploadStep, JobStep

\* Runs and callbacks of an upload are counted in step with its job, and what is on its
\* way to success was complete, in every life of the process.
THEOREM DeliveryInductive == Spec => []DInv
<1>1. Init => DInv
  BY DEF Init, DInv, NotYet, CallsCounted, Complete
<1>2. IInv /\ DInv /\ [Next]_vars => DInv'
  BY NotYetStep, CallsCountedStep, CompleteStep DEF DInv
<1> QED BY <1>1, <1>2, Inductive, PTL DEF Spec

Held == {h \in accepted : directory[h] = "ready"}

LEMMA DeliveryInit == Init => Delivered!Init
BY DEF Init, Delivered!Init

\* Which step of a delivery each step of the server is, if any.
LEMMA DeliveryStep == IInv /\ DInv /\ [Next]_vars => [Delivered!Next]_Delivered!vars
<1> SUFFICES ASSUME IInv, DInv, [Next]_vars PROVE [Delivered!Next]_Delivered!vars
  OBVIOUS
<1> USE DEF IInv, TypeOK, DInv, disk, memory, ghosts
<1>1. CASE Start
  <2>1. Delivered!Live
    BY <1>1 DEF Start, Delivered!Live
  <2> QED BY <2>1 DEF Delivered!Next
<1>2. ASSUME NEW h \in Hash, MakeDirectory(h) PROVE Delivered!Receive(h)
  <2>1. Held' = Held /\ h \notin Held
    BY <1>2 DEF MakeDirectory, Held
  <2> QED BY <1>2, <2>1 DEF MakeDirectory, Held, Delivered!Receive
<1>3. ASSUME NEW h \in Hash, EncodeInstructions(h) PROVE Delivered!Accept(h)
  <2>1. handler[h] = "created" /\ h \notin accepted
    BY <1>3 DEF EncodeInstructions, HandlerGoesOn, OwnDirectory
  <2>2. runs[h] = 0 /\ calls[h] = 0 /\ verdicts[h] = {} /\ h \notin lost
    BY <2>1 DEF NotYet
  <2>3. Held' = Held \cup {h}
    BY <1>3 DEF EncodeInstructions, Held
  <2> QED BY <1>3, <2>1, <2>2, <2>3 DEF EncodeInstructions, Held, Delivered!Accept
<1>4. ASSUME NEW h \in Hash, BeginJob(h) PROVE Delivered!Try(h)
  <2>1. runs[h] <= starts - since[h]
    BY <1>4 DEF BeginJob, JobGoesOn, RunsCounted
  <2> QED BY <1>4, <2>1 DEF BeginJob, Delivered!Try
<1>5. ASSUME NEW h \in Hash, NEW v \in {"success", "failed"}, StoreRecord(h, v)
      PROVE  Delivered!Tell(h, v)
  <2>1. job[h] \in {"failing", "succeeding"} /\ (v = "success" => job[h] = "succeeding")
    BY <1>5 DEF StoreRecord, AfterRecord, JobGoesOn
  <2>2. runs[h] > 0 /\ (v = "success" => h \in accepted)
    BY <2>1 DEF CallsCounted, Complete
  <2> QED BY <1>5, <2>2 DEF StoreRecord, Delivered!Tell
<1>6. ASSUME NEW h \in Hash, NEW v \in {"success", "failed"}, StoreFails(h, v)
      PROVE  Delivered!Lose(h)
  <2>1. runs[h] > 0
    BY <1>6 DEF StoreFails, AfterRecord, JobGoesOn, CallsCounted
  <2> QED BY <1>6, <2>1 DEF StoreFails, Delivered!Lose
<1>7. ASSUME NEW h \in Hash, SendCallback(h) PROVE Delivered!Call(h)
  <2>1. job[h] = "recorded"
    BY <1>7 DEF SendCallback, CallsBack
  <2>2. calls[h] < runs[h] /\ h \in accepted /\ ("success" \in verdicts[h] \/ h \in lost)
    BY <2>1 DEF CallsCounted, Complete, PastRecord
  <2> QED BY <1>7, <2>2 DEF SendCallback, Delivered!Call, Delivered!Settled
<1>8. ASSUME NEW h \in Hash, BeginRemove(h) PROVE Delivered!Drop(h)
  <2>1. job[h] = "called"
    BY <1>8 DEF BeginRemove, MayRemove
  <2>2. calls[h] > 0 /\ ("success" \in verdicts[h] \/ h \in lost)
    BY <2>1 DEF CallsCounted, PastRecord
  <2>3. Held' = Held \ {h}
    BY <1>8 DEF BeginRemove, Held
  <2> QED BY <1>8, <2>2, <2>3 DEF BeginRemove, Held, Delivered!Drop, Delivered!Settled
<1>9. ASSUME NEW h \in Hash, CreateInstructions(h) \/ EndRemove(h)
      PROVE  UNCHANGED Delivered!vars
  <2>1. directory[h] # "ready" /\ directory'[h] # "ready"
    BY <1>9 DEF CreateInstructions, HandlerGoesOn, EndRemove, JobGoesOn, OwnDirectory, Complete
  <2>2. Held' = Held
    BY <1>9, <2>1 DEF CreateInstructions, EndRemove, Held
  <2> QED BY <1>9, <2>2 DEF CreateInstructions, EndRemove, Held, Delivered!vars
<1>10. CASE \/ Serve \/ StartBatch \/ Signal \/ ShutdownDone \/ ShutdownForced \/ Exit \/ Crash
            \/ \E h \in Hash : ScanEntry(h) \/ HandlerFails(h) \/ AddPendingJob(h)
                                  \/ RespondSuccess(h) \/ DecideJob(h)
            \/ UNCHANGED vars
  BY <1>10 DEF Serve, StartBatch, Signal, ShutdownDone, ShutdownForced, Exit, Crash, ScanEntry,
     HandlerFails, AddPendingJob, RespondSuccess, DecideJob, vars, Delivered!vars
<1>11. ASSUME NEW h \in Hash, MakeDirectory(h) \/ UploadStep(h) \/ JobStep(h)
       PROVE  [Delivered!Next]_Delivered!vars
  <2>1. CASE MakeDirectory(h) \/ EncodeInstructions(h)
    BY <1>2, <1>3, <2>1 DEF Delivered!Next
  <2>2. CASE BeginJob(h) \/ SendCallback(h) \/ BeginRemove(h)
    BY <1>4, <1>7, <1>8, <2>2 DEF Delivered!Next
  <2>3. ASSUME NEW v \in {"success", "failed"}, StoreRecord(h, v) \/ StoreFails(h, v)
        PROVE  Delivered!Next
    BY <1>5, <1>6, <2>3 DEF Delivered!Next
  <2>4. CASE CreateInstructions(h) \/ EndRemove(h)
    BY <1>9, <2>4
  <2>5. CASE HandlerFails(h) \/ AddPendingJob(h) \/ RespondSuccess(h) \/ DecideJob(h)
    BY <1>10, <2>5
  <2> QED BY <1>11, <2>1, <2>2, <2>3, <2>4, <2>5 DEF UploadStep, JobStep
<1> QED BY <1>1, <1>10, <1>11 DEF Next, StartStep

\* Crashes, restarts, shutdowns and errors at any step, the races of handlers, scan and
\* jobs: what the uploader sees of them is a delivery.
THEOREM ServerDelivers == Spec => DeliveryKept
<1> QED
  BY DeliveryInit, DeliveryStep, Inductive, DeliveryInductive, PTL
  DEF Spec, DeliveryKept, Delivered!Spec

=============================================================================
