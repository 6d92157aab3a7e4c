---------------------------- MODULE JobPipeline ----------------------------
(***************************************************************************)
(* One call of ProcessJob (job/processing.go): the conversions, one after  *)
(* the other; one writer goroutine for each backend and converted file; the *)
(* goroutine that closes the error channel; the goroutine that cleans up   *)
(* when the context is cancelled; and the cancel, at any time.             *)
(*                                                                         *)
(* The job directory is the set of what is in it.  A file is named by its  *)
(* output name; writer goroutines are named by backend and position, since *)
(* two conversions may produce one name.  An error is a token in the       *)
(* channel: nothing depends on which error it is.                          *)
(***************************************************************************)
EXTENDS Naturals, Sequences, FiniteSets

CONSTANTS
    Backend,        \* the backends of the job's WriterJobs
    Output,         \* the output names of its ConversionJobs, in order
    RemoveFails     \* whether os.RemoveAll may fail

ASSUME BackendAssumption == IsFiniteSet(Backend)
ASSUME RemoveAssumption == RemoveFails \in BOOLEAN
ASSUME OutputAssumption ==
    /\ Output \in Seq(STRING)
    /\ \A k \in DOMAIN Output : Output[k] \notin {"dir", "upload", "instructions", "output"}

VARIABLES
    pc,             \* where the job's goroutine is
    converted,      \* how many conversions are done: len(convertedFiles)
    outcome,        \* what the body returned
    ctxDone,        \* the context is cancelled
    cleanup,        \* the cleanup goroutine: "waiting", or "closed" at its end
    writer,         \* writer goroutine -> where it is
    errors,         \* tokens in errChan
    closed,         \* errChan is closed
    disk,           \* the contents of the job directory
    stored,         \* what the backends hold
    successRecord,  \* the success store holds a record of this run
    failureRecord,  \* the failure store does
    callback        \* the callback has been sent

vars == <<pc, converted, outcome, ctxDone, cleanup, writer, errors, closed, disk,
          stored, successRecord, failureRecord, callback>>

Writer == Backend \X DOMAIN Output
Required == {<<w[1], Output[w[2]]>> : w \in Writer}

\* What an upload leaves in its directory.
Uploaded == {"dir", "upload", "instructions"}

BeforeWriters == {"read", "mkdir", "convert", "encode", "encoding", "spawn"}
PC == BeforeWriters \cup {"collect", "succeed", "call back", "remove", "fail",
                         "await", "returned"}
WriterPC == {"none", "check", "open", "write", "report", "exit", "done"}

\* processWriters has returned nil.
Succeeding == pc \in {"succeed", "call back", "remove"} \/ outcome = "ok"

TypeOK ==
    /\ pc \in PC
    /\ converted \in 0..Len(Output)
    /\ outcome \in {"none", "ok", "error"}
    /\ ctxDone \in BOOLEAN
    /\ cleanup \in {"waiting", "closed"}
    /\ writer \in [Writer -> WriterPC]
    /\ errors \in Nat
    /\ closed \in BOOLEAN
    /\ disk \subseteq Uploaded \cup {"output"} \cup {Output[k] : k \in DOMAIN Output}
    /\ stored \subseteq Required
    /\ successRecord \in BOOLEAN
    /\ failureRecord \in BOOLEAN
    /\ callback \in BOOLEAN

\* A job starts with the directory its upload left, with instructions that do not
\* decode (the process died while writing them), or with none at all (another run
\* for the same directory has removed it).
Init ==
    /\ pc = "read"
    /\ converted = 0
    /\ outcome = "none"
    /\ ctxDone = FALSE
    /\ cleanup = "waiting"
    /\ writer = [w \in Writer |-> "none"]
    /\ errors = 0
    /\ closed = FALSE
    /\ disk \in {Uploaded, Uploaded \ {"instructions"}, {}}
    /\ stored = {}
    /\ successRecord = FALSE
    /\ failureRecord = FALSE
    /\ callback = FALSE

records == <<successRecord, failureRecord, callback>>
channel == <<writer, errors, closed>>

-----------------------------------------------------------------------------
(* The job's goroutine. *)

Goto(from, to) == pc = from /\ pc' = to

\* ReadInstructions: fails when the file is missing or does not decode.
Read ==
    /\ IF "instructions" \in disk THEN Goto("read", "mkdir") ELSE Goto("read", "fail")
    /\ UNCHANGED <<converted, outcome, ctxDone, cleanup, channel, disk, stored, records>>

\* os.MkdirAll makes the missing parents of output/ too.
MakeOutputDir ==
    /\ Goto("mkdir", "convert")
    /\ disk' = disk \cup {"dir", "output"}
    /\ UNCHANGED <<converted, outcome, ctxDone, cleanup, channel, stored, records>>

MakeOutputDirFails ==
    /\ Goto("mkdir", "fail")
    /\ UNCHANGED <<converted, outcome, ctxDone, cleanup, channel, disk, stored, records>>

\* The context is looked at before each conversion, not after the last.
NextConversion ==
    /\ pc = "convert"
    /\ pc' = IF converted = Len(Output) THEN "spawn"
             ELSE IF ctxDone THEN "fail" ELSE "encode"
    /\ UNCHANGED <<converted, outcome, ctxDone, cleanup, channel, disk, stored, records>>

\* The encoder opens the upload and creates the output file ...
EncoderOpens ==
    /\ Goto("encode", "encoding")
    /\ {"upload", "output"} \subseteq disk
    /\ disk' = disk \cup {Output[converted + 1]}
    /\ UNCHANGED <<converted, outcome, ctxDone, cleanup, channel, stored, records>>

\* ... and reads and writes on even if the directory is removed under it.
EncoderEnds ==
    /\ Goto("encoding", "convert")
    /\ converted' = converted + 1
    /\ UNCHANGED <<outcome, ctxDone, cleanup, channel, disk, stored, records>>

\* The encoder is unknown, finds no file, fails, or is killed by the context.
EncoderFails ==
    /\ \E p \in {"encode", "encoding"} : Goto(p, "fail")
    /\ UNCHANGED <<converted, outcome, ctxDone, cleanup, channel, disk, stored, records>>

StartWriters ==
    /\ Goto("spawn", "collect")
    /\ writer' = [w \in Writer |-> "check"]
    /\ UNCHANGED <<converted, outcome, ctxDone, cleanup, errors, closed, disk, stored, records>>

\* Wrong variant: a receive that does not wait.
ChannelOpen == ~ closed

ErrorWaiting == errors > 0

\* range errChan: the first error ends processWriters ...
ReceiveError ==
    /\ Goto("collect", "fail")
    /\ ErrorWaiting
    /\ errors' = errors - 1
    /\ UNCHANGED <<converted, outcome, ctxDone, cleanup, writer, closed, disk, stored, records>>

\* Wrong variant: an empty channel is taken for a closed one.
DrainedNow == errors = 0

\* ... and so does the closed and empty channel.
Drained == closed /\ errors = 0

AllWritten ==
    /\ Goto("collect", "succeed")
    /\ Drained
    /\ UNCHANGED <<converted, outcome, ctxDone, cleanup, channel, disk, stored, records>>

\* An error of the success store is logged and otherwise ignored.
StoreSuccess ==
    /\ Goto("succeed", "call back")
    /\ successRecord' \in BOOLEAN
    /\ UNCHANGED <<converted, outcome, ctxDone, cleanup, channel, disk, stored,
                   failureRecord, callback>>

\* No URL, a failed request or a bad answer: the job goes on.
SendCallback ==
    /\ Goto("call back", "remove")
    /\ callback' \in BOOLEAN
    /\ UNCHANGED <<converted, outcome, ctxDone, cleanup, channel, disk, stored,
                   successRecord, failureRecord>>

\* os.RemoveAll: its error is logged and otherwise ignored.
RemoveAll == disk' = {} \/ (RemoveFails /\ UNCHANGED disk)

RemoveJobDir ==
    /\ Goto("remove", "await")
    /\ RemoveAll
    /\ outcome' = "ok"
    /\ UNCHANGED <<converted, ctxDone, cleanup, channel, stored, records>>

\* An error of the failure store is logged and otherwise ignored.
StoreFailure ==
    /\ Goto("fail", "await")
    /\ failureRecord' \in BOOLEAN
    /\ outcome' = "error"
    /\ UNCHANGED <<converted, ctxDone, cleanup, channel, disk, stored, successRecord, callback>>

\* Wrong variant: the body's return is the end.
NotAwaited == TRUE

CleanupDone == cleanup = "closed"

Return ==
    /\ Goto("await", "returned")
    /\ CleanupDone
    /\ UNCHANGED <<converted, outcome, ctxDone, cleanup, channel, disk, stored, records>>

-----------------------------------------------------------------------------
(* The cancel function and the cleanup goroutine. *)

Cancel ==
    /\ ~ ctxDone
    /\ pc # "returned"
    /\ ctxDone' = TRUE
    /\ UNCHANGED <<pc, converted, outcome, cleanup, channel, disk, stored, records>>

\* os.RemoveAll(jobDir), then the deferred close(cleanupDone).
CleanUp ==
    /\ ctxDone
    /\ cleanup = "waiting"
    /\ RemoveAll
    /\ cleanup' = "closed"
    /\ UNCHANGED <<pc, converted, outcome, ctxDone, channel, stored, records>>

-----------------------------------------------------------------------------
(* The writer goroutines. *)

\* Wrong variants: room for one error per file, or per backend.
ErrorPerFile == converted

\* The capacity of errChan.
Capacity == Cardinality(Backend) * converted

Step(w, from, to) ==
    /\ writer[w] = from
    /\ writer' = [writer EXCEPT ![w] = to]
    /\ UNCHANGED <<pc, converted, outcome, ctxDone, cleanup, disk, closed, records>>

\* Wrong variant: the context is not looked at.
NeverCancelled == FALSE

SeesCancel == ctxDone

Check(w) ==
    /\ Step(w, "check", IF SeesCancel THEN "report" ELSE "open")
    /\ UNCHANGED <<errors, stored>>

Open(w) ==
    /\ Step(w, "open", IF Output[w[2]] \in disk THEN "write" ELSE "report")
    /\ UNCHANGED <<errors, stored>>

\* The backend takes the file; the open file outlives its directory entry.
Write(w) ==
    /\ Step(w, "write", "exit")
    /\ stored' = stored \cup {<<w[1], Output[w[2]]>>}
    /\ UNCHANGED errors

\* The backend fails, or its call is cut short by the context.
WriteFails(w) ==
    /\ Step(w, "write", "report")
    /\ UNCHANGED <<errors, stored>>

\* errChan <- err blocks when the channel is full.
Report(w) ==
    /\ Step(w, "report", "exit")
    /\ errors < Capacity
    /\ errors' = errors + 1
    /\ UNCHANGED stored

\* The deferred wg.Done().
Exit(w) ==
    /\ Step(w, "exit", "done")
    /\ UNCHANGED <<errors, stored>>

WriterStep(w) ==
    Check(w) \/ Open(w) \/ Write(w) \/ WriteFails(w) \/ Report(w) \/ Exit(w)

\* Wrong variants: wg.Add(1) inside the goroutine; close(errChan) is forgotten.
StartedWritersDone == \A w \in Writer : writer[w] \in {"check", "done"}
NeverDone == FALSE

WritersDone == \A w \in Writer : writer[w] = "done"

\* The goroutine that waits for the group and closes the channel.
CloseErrors ==
    /\ pc \notin BeforeWriters
    /\ ~ closed
    /\ WritersDone
    /\ closed' = TRUE
    /\ UNCHANGED <<pc, converted, outcome, ctxDone, cleanup, writer, errors, disk,
                   stored, records>>

-----------------------------------------------------------------------------

JobStep ==
    \/ Read
    \/ MakeOutputDir \/ MakeOutputDirFails
    \/ NextConversion
    \/ EncoderOpens \/ EncoderEnds \/ EncoderFails
    \/ StartWriters \/ ReceiveError \/ AllWritten
    \/ StoreSuccess \/ SendCallback \/ RemoveJobDir
    \/ StoreFailure
    \/ Return

Next ==
    \/ JobStep
    \/ Cancel
    \/ CleanUp
    \/ \E w \in Writer : WriterStep(w)
    \/ CloseErrors

Spec == Init /\ [][Next]_vars

\* Goroutines run, encoders end and backends answer (the code sets no limit to
\* how long they take); nobody has to cancel.
Fairness ==
    /\ WF_vars(JobStep)
    /\ WF_vars(CleanUp)
    /\ \A w \in Writer : WF_vars(WriterStep(w))
    /\ WF_vars(CloseErrors)

FairSpec == Spec /\ Fairness

-----------------------------------------------------------------------------
(* Safety. *)

\* processWriters returns nil, the success is recorded and the callback sent only
\* when every backend has every file, no writer is under way any more, and the
\* job has not failed (processing.go:94-109, 267-279).
SuccessMeansAllStored ==
    Succeeding \/ successRecord \/ callback =>
        /\ stored = Required
        /\ outcome # "error" /\ ~ failureRecord
        /\ \A w \in Writer : writer[w] = "done"

\* A writer never waits for room in errChan, so that one whose error nobody reads
\* any more, after an earlier error, still ends (processing.go:225).
ReportNeverBlocks ==
    \A w \in Writer : writer[w] = "report" => errors < Capacity

\* No writer can send on a channel that is closed: it would panic and take the
\* server down (processing.go:267-270).
NoSendOnClosed ==
    closed => \A w \in Writer : writer[w] \notin {"none", "check", "open", "write", "report"}

\* Automatic cleanup: nothing is left of a cancelled job whose ProcessJob has returned
\* (processing.go:50-66).  os.MkdirAll may come after the clean-up.
CancelLeavesNothing ==
    pc = "returned" /\ ~ RemoveFails => disk = {}

\* What the queue and the outside can rely on (see JobPromise).
Verdict ==
    IF Succeeding THEN "ok" ELSE IF pc = "fail" \/ outcome = "error" THEN "error" ELSE "open"

Promise == INSTANCE JobPromise WITH
    verdict <- Verdict,
    cleaned <- cleanup = "closed",
    returned <- pc = "returned"

\* ProcessJob, with its goroutines, implements the promise.
PromiseKept == Promise!Spec

\* The same job as the queue sees it: the one goroutine of a batch, its directory
\* listed again behind it, since only then a cancel can reach it (see Scheduler).
Listed == <<"job", "job">>
ByQueue(x) == [i \in {1} |-> x]

Queue == INSTANCE Scheduler WITH
    Dir <- {"job"},
    MaxWorkers <- 1,
    QueueBound <- 2,
    pendingJobs <- Listed,
    batch <- <<"job">>,
    semaphore <- 1,
    pc <- ByQueue(CASE pc = "await" -> "awaiting"
                    [] pc = "returned" -> "finished"
                    [] OTHER -> "processing"),
    outcome <- ByQueue(outcome),
    cancelled <- IF ctxDone THEN {1} ELSE {},
    cleaned <- IF cleanup = "closed" THEN {1} ELSE {},
    activeJobs <- [d \in {"job"} |-> IF ctxDone THEN 0 ELSE 1],
    jobStates <- [d \in {"job"} |->
                    IF pc = "returned" /\ outcome = "ok" THEN "completed"
                    ELSE IF ctxDone THEN "cancelled" ELSE "pending"]

\* Whatever its goroutines do, ProcessJob does to the queue what Scheduler takes it to
\* do, and nothing else: its body returns once, with its result; the clean-up comes
\* once, after the cancel, while the body runs or has ended; and only then the final
\* state is written, "completed" for nil and "cancelled" for an error.
SeenByQueue == [][Queue!Next]_Queue!vars

-----------------------------------------------------------------------------
(* Liveness. *)

\* The body ends, whatever fails and whenever the cancel comes: no goroutine of the
\* job waits for another one for ever (processing.go:267-279).
BodyEnds == <>(pc \in {"await", "returned"})

\* Every writer goroutine ends, also those that an early return leaves behind.
WritersEnd == pc = "collect" ~> \A w \in Writer : writer[w] = "done"

\* A job whose context is cancelled before it starts its writers fails, if it has
\* anything to store (processing.go:128-133, 235-240).
CancelledBeforeWritingFails ==
    ctxDone /\ pc \in BeforeWriters /\ Required # {} ~> outcome = "error"

=============================================================================
