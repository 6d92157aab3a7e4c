------------------------------- MODULE Server -------------------------------
(***************************************************************************)
(* The life of the server process (main.go) and what it leaves behind: the *)
(* start-up scan, the uploads and the jobs, SIGTERM, crashes and restarts. *)
(* A job directory and the two record stores outlive the process; the      *)
(* list of pending jobs, the batch and its workers do not.                 *)
(*                                                                         *)
(* A hash is the name of a job directory.  The upload handler and          *)
(* ProcessJob are reduced to the steps that a crash can separate (Upload   *)
(* and JobPipeline have them in full), the dispatcher to its first batch:  *)
(* nobody cancels, so the batch never ends.  No record gets old here: the  *)
(* clean-up of the stores is in RecordStore.                               *)
(***************************************************************************)
EXTENDS Integers, FiniteSets

CONSTANTS
    Hash,           \* the job directories
    Slots,          \* getMaxWorkers()
    MaxUploads,     \* bound: uploads under one hash
    MaxStarts,      \* bound: starts of the process
    MaxErrors       \* bound: errors of the disk and of the stores

ASSUME HashAssumption == IsFiniteSet(Hash)
ASSUME SlotsAssumption == Slots \in Nat \ {0}
ASSUME BoundAssumption ==
    MaxUploads \in Nat /\ MaxStarts \in Nat /\ MaxErrors \in Nat

VARIABLES
    process,    \* where main is
    starts,     \* how often it was started
    errors,     \* the errors so far
    directory,  \* hash -> the job directory on disk
    records,    \* hash -> the records in the stores, of this or an earlier upload
    handler,    \* hash -> where the upload handler is
    pendingJobs,
    batch,      \* the hashes of the batch that the dispatcher is in
    job,        \* hash -> where the goroutine of the batch is
    scanned,    \* the hashes that this start's scan has queued
    \* Ghosts, about the latest upload of a hash:
    uploads,    \* how many there were
    accepted,   \* the hashes whose instructions were written and closed
    since,      \* hash -> the value of starts at that upload
    runs,       \* hash -> how often a worker began the job
    calls,      \* hash -> how often the callback was sent
    verdicts,   \* hash -> the verdicts that its own runs have recorded
    lost,       \* the hashes for which a store returned an error
    cut         \* the hashes whose handler ended before its time

disk == <<directory, records>>
memory == <<handler, pendingJobs, batch, job, scanned>>
ghosts == <<uploads, accepted, since, runs, calls, verdicts, lost, cut>>
vars == <<process, starts, errors, disk, memory, ghosts>>

\* "scanning": main before it serves; "draining": in server.Shutdown;
\* "closing": in the two seconds before the stores are closed and main returns.
Process == {"down", "scanning", "up", "draining", "closing"}
\* What is in a directory: nothing that counts, an unfinished instructions.json,
\* instructions and file, or instructions without the file.
Content == {"none", "bare", "torn", "ready", "gutted"}
Handler == {"none", "made", "created", "written", "queued"}
\* "waiting" for a slot; "working" in the conversions and writers; "failing" and
\* "succeeding" with a verdict; "parked" at the receive on cleanupDone.
Job == {"idle", "waiting", "working", "failing", "succeeding", "recorded", "called",
        "removing", "parked"}

TypeOK ==
    /\ process \in Process
    /\ starts \in 0..MaxStarts
    /\ errors \in 0..MaxErrors
    /\ directory \in [Hash -> Content]
    /\ records \in [Hash -> SUBSET {"success", "failed"}]
    /\ handler \in [Hash -> Handler]
    /\ pendingJobs \subseteq Hash
    /\ batch \subseteq Hash
    /\ job \in [Hash -> Job]
    /\ scanned \subseteq Hash
    /\ uploads \in [Hash -> 0..MaxUploads]
    /\ accepted \subseteq Hash
    /\ since \in [Hash -> 0..MaxStarts]
    /\ runs \in [Hash -> Nat]
    /\ calls \in [Hash -> Nat]
    /\ verdicts \in [Hash -> SUBSET {"success", "failed"}]
    /\ lost \subseteq Hash
    /\ cut \subseteq Hash
    /\ \A h \in Hash : handler[h] # "none" \/ job[h] # "idle" => process # "down"

Init ==
    /\ process = "down"
    /\ starts = 0
    /\ errors = 0
    /\ directory = [h \in Hash |-> "none"]
    /\ records = [h \in Hash |-> {}]
    /\ handler = [h \in Hash |-> "none"]
    /\ pendingJobs = {}
    /\ batch = {}
    /\ job = [h \in Hash |-> "idle"]
    /\ scanned = {}
    /\ uploads = [h \in Hash |-> 0]
    /\ accepted = {}
    /\ since = [h \in Hash |-> 0]
    /\ runs = [h \in Hash |-> 0]
    /\ calls = [h \in Hash |-> 0]
    /\ verdicts = [h \in Hash |-> {}]
    /\ lost = {}
    /\ cut = {}

Live == process \in {"up", "draining", "closing"}
Error == errors < MaxErrors /\ errors' = errors + 1

-----------------------------------------------------------------------------
(* The start. *)

\* The stores open.
Start ==
    /\ process = "down"
    /\ starts < MaxStarts
    /\ process' = "scanning"
    /\ starts' = starts + 1
    /\ UNCHANGED <<errors, disk, memory, ghosts>>

HasInstructions(h) == directory[h] \in {"torn", "ready", "gutted"}

\* AddPendingJob for one entry of ScanForPendingJobs: os.Stat finds its
\* instructions.json, whatever is in it.
ScanEntry(h) ==
    /\ process = "scanning"
    /\ h \notin scanned
    /\ HasInstructions(h)
    /\ pendingJobs' = pendingJobs \cup {h}
    /\ scanned' = scanned \cup {h}
    /\ UNCHANGED <<process, starts, errors, disk, handler, batch, job, ghosts>>

\* main goes on when every entry was seen, or when os.ReadDir failed.  "up"
\* stands for the dispatcher and the HTTP server, both started after the scan.
Serve ==
    /\ process = "scanning"
    /\ \/ UNCHANGED errors /\ \A h \in Hash : HasInstructions(h) => h \in scanned
       \/ Error /\ scanned = {}
    /\ process' = "up"
    /\ UNCHANGED <<starts, disk, memory, ghosts>>

-----------------------------------------------------------------------------
(* An upload. *)

\* The Stat of checkDuplicateUpload finds nothing, MkdirAll, saveFile.  (Two
\* handlers between the two are in Upload.)  The stores are not touched: what they
\* hold of an earlier upload of the hash stays.
MakeDirectory(h) ==
    /\ process \in {"up", "draining"}
    /\ handler[h] = "none"
    /\ directory[h] = "none"
    /\ uploads[h] < MaxUploads
    /\ directory' = [directory EXCEPT ![h] = "bare"]
    /\ handler' = [handler EXCEPT ![h] = "made"]
    /\ uploads' = [uploads EXCEPT ![h] = @ + 1]
    /\ since' = [since EXCEPT ![h] = starts]
    /\ runs' = [runs EXCEPT ![h] = 0]
    /\ calls' = [calls EXCEPT ![h] = 0]
    /\ verdicts' = [verdicts EXCEPT ![h] = {}]
    /\ accepted' = accepted \ {h}
    /\ lost' = lost \ {h}
    /\ cut' = cut \ {h}
    /\ UNCHANGED <<process, starts, errors, records, pendingJobs, batch, job, scanned>>

HandlerGoesOn(h, from, to) ==
    /\ Live
    /\ handler[h] = from
    /\ handler' = [handler EXCEPT ![h] = to]

\* os.Create("instructions.json")
CreateInstructions(h) ==
    /\ HandlerGoesOn(h, "made", "created")
    /\ directory' = [directory EXCEPT ![h] = "torn"]
    /\ UNCHANGED <<process, starts, errors, records, pendingJobs, batch, job, scanned, ghosts>>

\* encoder.Encode and the deferred Close
EncodeInstructions(h) ==
    /\ HandlerGoesOn(h, "created", "written")
    /\ directory' = [directory EXCEPT ![h] = "ready"]
    /\ accepted' = accepted \cup {h}
    /\ UNCHANGED <<process, starts, errors, records, pendingJobs, batch, job, scanned,
                   uploads, since, runs, calls, verdicts, lost, cut>>

\* The token's job cannot be parsed, or the disk is full: an error is answered and
\* the directory is left as it is.
HandlerFails(h) ==
    /\ \/ HandlerGoesOn(h, "made", "none")
       \/ HandlerGoesOn(h, "created", "none")
    /\ Error
    /\ cut' = cut \cup {h}
    /\ UNCHANGED <<process, starts, disk, pendingJobs, batch, job, scanned,
                   uploads, accepted, since, runs, calls, verdicts, lost>>

AddPendingJob(h) ==
    /\ HandlerGoesOn(h, "written", "queued")
    /\ pendingJobs' = pendingJobs \cup {h}
    /\ UNCHANGED <<process, starts, errors, disk, batch, job, scanned, ghosts>>

RespondSuccess(h) ==
    /\ HandlerGoesOn(h, "queued", "none")
    /\ UNCHANGED <<process, starts, errors, disk, pendingJobs, batch, job, scanned, ghosts>>

-----------------------------------------------------------------------------
(* The dispatcher and the jobs. *)

\* Wrong variants: the dispatcher is started before the scan; the next batch does
\* not wait for this one.
DispatchesEarly == process # "down" /\ batch = {}
DispatchesAgain == Live /\ \A h \in batch : job[h] \in {"waiting", "parked"}

\* wg.Wait() has not returned since the first batch began.
Dispatches == Live /\ batch = {}

\* GetPendingJobs, and a goroutine for each entry.
StartBatch ==
    /\ Dispatches
    /\ pendingJobs # {}
    /\ batch' = pendingJobs
    /\ job' = [h \in Hash |-> IF h \in pendingJobs THEN "waiting" ELSE job[h]]
    /\ UNCHANGED <<process, starts, errors, disk, handler, pendingJobs, scanned, ghosts>>

Holding == {h \in Hash : job[h] \notin {"idle", "waiting"}}

JobGoesOn(h, from, to) ==
    /\ job[h] = from
    /\ job' = [job EXCEPT ![h] = to]

\* semaphore <- struct{}{}, and ProcessJob
BeginJob(h) ==
    /\ JobGoesOn(h, "waiting", "working")
    /\ Cardinality(Holding) < Slots
    /\ runs' = [runs EXCEPT ![h] = @ + 1]
    /\ UNCHANGED <<process, starts, errors, disk, handler, pendingJobs, batch, scanned,
                   uploads, accepted, since, calls, verdicts, lost, cut>>

\* ReadInstructions needs whole instructions; the conversions need the file, if
\* there are any.
CanSucceed(h) == directory[h] \in {"ready", "gutted"}

DecideJob(h) ==
    /\ \/ JobGoesOn(h, "working", "failing")
       \/ CanSucceed(h) /\ JobGoesOn(h, "working", "succeeding")
    /\ UNCHANGED <<process, starts, errors, disk, handler, pendingJobs, batch, scanned, ghosts>>

\* A failure ends ProcessJob; after a success the callback is next.
AfterRecord(h, v) ==
    \/ v = "failed" /\ JobGoesOn(h, "failing", "parked")
    \/ v = "success" /\ JobGoesOn(h, "succeeding", "recorded")

\* StoreSuccess or StoreFailure.
StoreRecord(h, v) ==
    /\ AfterRecord(h, v)
    /\ records' = [records EXCEPT ![h] = @ \cup {v}]
    /\ verdicts' = [verdicts EXCEPT ![h] = @ \cup {v}]
    /\ UNCHANGED <<process, starts, errors, directory, handler, pendingJobs, batch, scanned,
                   uploads, accepted, since, runs, calls, lost, cut>>

\* Its error is logged and dropped.
StoreFails(h, v) ==
    /\ AfterRecord(h, v)
    /\ Error
    /\ lost' = lost \cup {h}
    /\ UNCHANGED <<process, starts, disk, handler, pendingJobs, batch, scanned,
                   uploads, accepted, since, runs, calls, verdicts, cut>>

\* Wrong variant: the callback is sent before the record is stored.
CallsFirst(h) == job[h] = "succeeding"

CallsBack(h) == job[h] = "recorded"

\* sendCallback, whatever comes of it.
SendCallback(h) ==
    /\ CallsBack(h)
    /\ JobGoesOn(h, job[h], "called")
    /\ calls' = [calls EXCEPT ![h] = @ + 1]
    /\ UNCHANGED <<process, starts, errors, disk, handler, pendingJobs, batch, scanned,
                   uploads, accepted, since, runs, verdicts, lost, cut>>

\* Wrong variant: the directory is removed as soon as the writers are done.
RemovesFirst(h) == job[h] \in {"succeeding", "called"}

\* Wrong variant: the callback is not waited for.
RemovesUncalled(h) == job[h] \in {"recorded", "called"}

MayRemove(h) == job[h] = "called"

\* os.RemoveAll takes the entries in the order the directory has them: the file
\* or the instructions may be the first to go.
BeginRemove(h) ==
    /\ MayRemove(h)
    /\ JobGoesOn(h, job[h], "removing")
    /\ \E left \in {"bare", "gutted"} : directory' = [directory EXCEPT ![h] = left]
    /\ UNCHANGED <<process, starts, errors, records, handler, pendingJobs, batch, scanned,
                   ghosts>>

\* It removes the rest, or returns an error that is logged and dropped.
EndRemove(h) ==
    /\ JobGoesOn(h, "removing", "parked")
    /\ \/ directory' = [directory EXCEPT ![h] = "none"] /\ UNCHANGED errors
       \/ Error /\ UNCHANGED directory
    /\ UNCHANGED <<process, starts, records, handler, pendingJobs, batch, scanned, ghosts>>

JobStep(h) ==
    \/ BeginJob(h)
    \/ DecideJob(h)
    \/ \E v \in {"success", "failed"} : StoreRecord(h, v) \/ StoreFails(h, v)
    \/ SendCallback(h)
    \/ BeginRemove(h)
    \/ EndRemove(h)

-----------------------------------------------------------------------------
(* The end. *)

InHandler == {h \in Hash : handler[h] # "none"}

\* SIGINT or SIGTERM, once main listens for it.
Signal ==
    /\ process = "up"
    /\ process' = "draining"
    /\ UNCHANGED <<starts, errors, disk, memory, ghosts>>

\* Wrong variant: server.Close() for server.Shutdown().
NotAwaited == TRUE

HandlersDone == InHandler = {}

\* server.Shutdown returns nil when no request is being handled.
ShutdownDone ==
    /\ process = "draining"
    /\ HandlersDone
    /\ process' = "closing"
    /\ UNCHANGED <<starts, errors, disk, memory, ghosts>>

\* Thirty seconds were not enough: "Server forced to shutdown".  A handler goes on
\* until main returns.
ShutdownForced ==
    /\ process = "draining"
    /\ Error
    /\ process' = "closing"
    /\ cut' = cut \cup InHandler
    /\ UNCHANGED <<starts, disk, memory, uploads, accepted, since, runs, calls, verdicts, lost>>

\* Wrong variant: what main has started goes on when main returns.
GoesOn == process' = "down" /\ UNCHANGED memory

\* The process ends, and with it every goroutine.
Forget ==
    /\ process' = "down"
    /\ handler' = [h \in Hash |-> "none"]
    /\ pendingJobs' = {}
    /\ batch' = {}
    /\ job' = [h \in Hash |-> "idle"]
    /\ scanned' = {}

\* The stores are closed and main returns; no job is waited for.  A job that meets
\* a closed store panics, and ends the process a moment earlier.
Exit ==
    /\ process = "closing"
    /\ Forget
    /\ UNCHANGED <<starts, errors, disk, ghosts>>

\* A panic, SIGKILL, or SIGTERM before main listens.
Crash ==
    /\ process # "down"
    /\ Forget
    /\ cut' = cut \cup InHandler
    /\ UNCHANGED <<starts, errors, disk, uploads, accepted, since, runs, calls, verdicts, lost>>

-----------------------------------------------------------------------------

StartStep == Start \/ Serve \/ \E h \in Hash : ScanEntry(h)

UploadStep(h) ==
    \/ CreateInstructions(h) \/ EncodeInstructions(h) \/ HandlerFails(h)
    \/ AddPendingJob(h) \/ RespondSuccess(h)

Next ==
    \/ StartStep
    \/ \E h \in Hash : MakeDirectory(h) \/ UploadStep(h) \/ JobStep(h)
    \/ StartBatch
    \/ Signal \/ ShutdownDone \/ ShutdownForced \/ Exit \/ Crash

Spec == Init /\ [][Next]_vars

\* Goroutines that can run do run: encoders, backends and the callback return.
\* Nothing makes a user upload, a signal come or the process start again.
Fairness ==
    /\ WF_vars(StartBatch)
    /\ \A h \in Hash : WF_vars(JobStep(h))

FairSpec == Spec /\ Fairness

-----------------------------------------------------------------------------
(* Safety. *)

\* An upload whose instructions were written is never forgotten: whatever crashes,
\* restarts and errors come, its directory still has instructions and file, so that
\* the next scan runs it, or one of its runs has left a record, or a store has
\* refused one.
NothingForgotten ==
    \A h \in accepted : directory[h] = "ready" \/ verdicts[h] # {} \/ h \in lost

\* Whoever is called back can find the success record, also after a crash right
\* after the callback, unless the store has refused it.
CallbackAfterRecord ==
    \A h \in Hash : calls[h] > 0 => "success" \in verdicts[h] \/ h \in lost

\* A job gets another run only from another start of the server: within one life
\* of the process no job runs twice.  So a second callback, or a failure record
\* beside the success record, tells of a restart after the upload.
OneRunPerLife ==
    \A h \in Hash : runs[h] <= 1 + starts - since[h]

\* Instructions that cannot be decoded are left behind only by a crash, a forced
\* shutdown or an error that was answered: a shutdown that ends in time cuts no
\* upload in two.
ShutdownCutsNoUpload ==
    \A h \in Hash : directory[h] = "torn" => handler[h] = "created" \/ h \in cut

\* What the uploader can rely on (see Delivery).
Delivered == INSTANCE Delivery WITH
    lives <- starts,
    held <- {h \in accepted : directory[h] = "ready"},
    tries <- runs,
    told <- records     \* verdicts, since, accepted, lost and calls are their own

\* The process with its crashes and restarts, its handlers and its jobs implements
\* the delivery of every upload: the directory of an accepted upload stays whole until
\* a success of its own was recorded, or refused by the store, and called back; no life
\* tries it twice, no try calls back twice, what was never complete has no success, and
\* what can be asked for under its name is what runs of its uploads have recorded.
DeliveryKept == Delivered!Spec

-----------------------------------------------------------------------------
(* Liveness. *)

Verdict(h) == verdicts[h] # {} \/ h \in lost

\* With a slot for every directory, whatever a start finds on disk gets a verdict,
\* if the process lives on: the uploads that come meanwhile do not get between the
\* scan and the only batch.  (An upload of this life under a hash whose directory
\* its job has removed is not what the scan found.)
ScannedIsFinished ==
    Cardinality(Hash) <= Slots =>
        \A h \in Hash : (process = "up" /\ h \in scanned /\ since[h] < starts)
                ~> (Verdict(h) \/ process = "down")

=============================================================================
