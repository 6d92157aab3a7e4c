# A verification of pixerve-server

Pixerve is an HTTP server that takes an image with a signed job description,
converts it into the requested formats, writes the results to storage backends
and records the outcome. This directory holds TLA+ modules translated from its
Go source and from its TypeScript integration tests (`src/`), the TLC
configurations that check them on small instances, and proofs, checked by TLAPS,
for all values of the constants.

Run TLC with `tlc -config <file>.cfg <module>.tla`, the proofs with
`tlapm <module>.tla`. `PROJECT.json` lists every run, the code each definition
stands for, the hazards, the disagreements found between code and
documentation, and the theorems.

## 1. The system

| component | source | state | operations |
|---|---|---|---|
| Upload handler | `routes/upload.go` | job directories under `os.TempDir()` | look for duplicates, pick a name, make the directory, save, write `instructions.json`, queue |
| Job queue and dispatcher | `job/pending.go` | `pendingJobs`, `jobStates`, `activeJobs` under one mutex; a semaphore; one goroutine per entry of a batch | `AddPendingJob`, `RemovePendingJob`, `CancelJob`, `ProcessPendingJobs`, `processJob`, `ScanForPendingJobs` |
| Job pipeline | `job/processing.go`, `job/instructions.go` | the job directory, `convertedFiles`, `errChan`, the context, `cleanupDone` | read, convert, write, record, call back, remove; clean up on cancel |
| Record stores | `success/store.go`, `failures/store.go` | one Pebble database each, keyed by hash | store, get, delete, list, age out |
| Query routes | `routes/success.go`, `failures.go` | none | tell a client what the stores say |
| Status and cancel routes | `routes/status.go`, `cancel.go` | none | read `jobStates`; call `CancelJob` |
| Life cycle | `main.go` | the open databases, the cleanup ticker | start, scan, serve, shut down |
| Client | `integration-tests/src/example.ts` | one wait with its deadline | upload, ask `/success` and `/failures` in turn until a verdict or the timeout |
| Test suites and runner | `integration-tests/src/`: `common.ts`, four suites, `test-runner.ts` | results; the child process, its timers and pipes | build and start a server, test, stop it; report; exit |
| Job description | `job/token_parse.go`, `models/` | none | claims to conversions and writers; output names |
| Tokens | `utils/jwt_decoder.go` | none | verify signature, times, issuer |
| Logger | `logger/logger.go` | the default logger | two ways to initialise it |
| Task queues | `taskQueue/` | Pebble databases | not used by the server |
| Encoders, backends, credentials | `encoder/`, `writerBackends/`, `credentials/` | registry, remote storage | external commands and services |

How they interact. An upload's handler makes a directory and calls
`AddPendingJob`. The dispatcher takes a snapshot of the list, starts a goroutine
for each entry and waits for all of them before the next snapshot. A goroutine
takes a slot of the semaphore, marks its job, registers its cancel function,
calls `ProcessJob`, writes the final state, deletes the cancel function, removes
its entry and gives the slot back. `ProcessJob` starts a goroutine that waits for
the cancel of the context and removes the directory, one goroutine for each
backend and file, and one that closes the error channel. `CancelJob` may come
from any HTTP request at any moment. The directory is shared by the handler, the
pipeline and the next start-up scan. A verdict goes through one of the stores,
under the hash alone, to whoever asks; a routine of `main` ages the stores out. A
test suite starts the server as a child process, recognises by a line of its output
that it is ready, and talks to it over HTTP; the job directories and the
stores pass from one suite's server to the next one's.

What is hard, and what has to hold:

- *Upload*: nothing joins the look at the directory to its making; an error
  leaves the directory. Two uploads must not share a directory; what is queued must
  be complete; a user must not be refused for nothing.
- *Queue*: three short critical sections for each job, duplicates of one
  directory, removal by name and not by entry, a map keyed by hash and shared by
  duplicates. Slots must balance, a cancel must reach a live context, a removal must
  not take a later upload's entry, no pending job may be lost, all jobs must end.
- *Pipeline*: an early return that leaves goroutines behind, a channel nobody reads
  any more, a cancel between any two steps, a directory removed under the body.
  Success must mean that everything is stored; nothing may block or panic.
- *Records*: a sweep deletes by a snapshot that may be stale; an error in one store
  comes before the sweep of the other; a client asks two stores one after the other.
  Only old records may go, old ones must, and no answer may be made up.
- *Life cycle*: a crash or a shutdown between any two effects, which does not wait
  for jobs; a scan that queues whatever it finds. An accepted upload must not be
  forgotten, and only a restart may repeat a job.
- *Suites*: a throw that skips the cleanup and leaves a server on the port, a start
  timer that does not stop the child, a close event that is over before anybody
  listens, one content uploaded by several tests, records that outlive the server.
  Tests must meet their own server, green must mean complete, the process must end.

## 2. Modules

| module | what it is |
|---|---|
| `Scheduler` | `job/pending.go`, with `ProcessJob` seen from outside |
| `MCScheduler` | two directories |
| `SchedulerProofs`, `SchedulerQueueProofs` | its theorems |
| `JobPromise` | what `ProcessJob` promises: the abstract specification |
| `JobPipeline` | `ProcessJob` and its goroutines; implements `JobPromise` |
| `MCJobPipeline` | two backends, two files |
| `JobPipelineProofs` | its theorems, the refinement among them |
| `Upload` | `UploadHandler` from the duplicate check on, run concurrently |
| `MCUpload` | three uploads of one file |
| `UploadProofs` | its theorems |
| `RecordStore` | the two record stores and the clean-up routine |
| `Completion` | clients that upload and wait, the jobs' verdicts and `RecordStore` between them |
| `MCCompletion` | two clients of one file |
| `CompletionProofs` | theorems of both |
| `Delivery` | what an uploader can rely on: an abstract specification |
| `Server` | the process from start to crash or shutdown, over the disk it leaves behind; implements `Delivery` |
| `MCServer` | two directories, two starts |
| `ServerProofs` | its theorems, the refinement among them |
| `TestCases` | every test method of the four suites, as data |
| `IntegrationSuite` | runner, suites and servers; extends `TestCases` |
| `MCIntegrationSuite` | the invocations that are tried |
| `IntegrationSuiteProofs` | its theorems on servers, order and report |
| `SuiteVerdictProofs` | its theorems on what a suite that passes shows |

In each module a few operators begin with "Wrong variant" in their comment. They
are what the definition after them would be with a plausible mistake; no
specification uses them. They record which mistake each property would catch.

### Scheduler

A directory names a job (the map key is its base name). A goroutine is named by
its position in the snapshot. `pc` gives its place between the critical
sections: each critical section, channel operation and return is one action, so
every interleaving the mutex allows is there. `StartBatch` stands for `wg.Wait`,
`GetPendingJobs` and the spawning; `AcquireSlot` and `ReleaseSlot` for the
semaphore; `MarkProcessing`, `RegisterCancel`, `MarkFinal`, `Deregister` for the
sections of `processJob`. `BodyReturns` and `CleanUp` are `ProcessJob` as
`JobPipeline` details it: the body returns with a result, and the deferred receive
on `cleanupDone` holds it back until the clean-up has run. `ScanForPendingJobs` is
a sequence of `AddPendingJob` calls. `GetJobState` and `IsJobCancellable` only read.
`CancelOnlyOfDoubled` says what is left of cancelling in this code: it reaches a job
only while its directory is listed twice, which puts the state of a running job
back to pending.

### JobPipeline

`pc` is the place of the body, `writer` that of each writer goroutine, `errors` and
`closed` the channel, `disk` the set of what the job directory contains. Every
error return is an action or a disjunct. An encoder opens its input and creates its
output in one step and ends in another, so a directory can be removed under it; a
writer opens and writes likewise. `os.RemoveAll` and `os.MkdirAll` are atomic, and
`RemoveFails` says whether the former may fail. Encoders, backends, the callback
and the two stores are their outcomes, chosen freely. The initial directory is
the one an upload leaves, one without usable instructions (the process died while
writing them), or none (a duplicate entry whose first run removed it).

`JobPromise` keeps five variables: what is stored, the verdict, and whether the
context is cancelled, the clean-up has run and `ProcessJob` has returned. It lets a
writer of a failed job store on, which the code does, and forbids it to one that
succeeded. The refinement maps the verdict to "ok" from the moment
`processWriters` returns nil, and to "error" from the moment an error return is taken.

`SeenByQueue` joins the module to `Scheduler`: it instantiates it with a batch of this
one job, whose directory is listed a second time (only then a cancel reaches it),
and asks that each step of the pipeline is one of `Scheduler`'s, `BodyReturns`,
`CleanUp`, `CancelJob` or `MarkFinal`, or one the queue does not see.

### Upload

One content hash: other files have other names and never meet. A directory is
named by the user or by a number, and a user's name may be a number, which the code
cannot tell from a suffix. A directory is the set of requests whose `os.MkdirAll`
has returned for it; empty means absent. `os.Stat`, `filepath.Glob`, `MkdirAll`,
`WriteFile`, `os.Create` and the write of the instructions are separate steps. The
workers appear as what they do to a directory: remove it or, after a failure, leave
it. `raced` is a ghost variable: the requests that made a directory while another
one was between its own look and its own making.
Only the numbers inside names are modelled: a subject such as `a_3`, whose last
part is read as a number, only makes the next number larger.

### RecordStore and Completion

A store maps a hash to the time of its record. A record is stamped before it is set
(`Stamp`, `Set`), a sweep fixes its cutoff, takes its snapshot and then deletes one
key after the other (`BeginSweep`, `Snapshot`, `Delete`), and any of them may fail:
the iterator of the success store is not asked for its error, so it may be cut short
without notice. `Faulty` names the stores that may fail every time; errors of the
others are bounded. `overwritten` is a ghost: collected keys that were set again.

In `Completion` a job is its verdict, its record and the removal of its directory,
and a client is one call of `example()`: the two requests of the loop body are
separate steps, between which records come and go. `AnswerOfSomeRun` says "some run"
because the code has no more to offer: a record is keyed by the hash, so a client may
be told the verdict of an earlier run of the same bytes.

### Server

A hash has the step its handler is at, the step its job is at, and what is on disk:
nothing, a directory without instructions, half-written ones, a complete directory, or
one whose file `os.RemoveAll` took first. It removes the entries in any order. No handler
touches a store: the records of an earlier upload of the hash stay beside a new one
(`records`), and the ghost `verdicts` keeps those which the latest upload's own runs
have recorded. The stores are written before the callback, the callback is sent before the directory
goes; `Crash` may come between any two steps and forgets exactly what is in memory.
`Signal` leads through `server.Shutdown`, which waits for handlers for thirty
seconds, and the two seconds after it to `Exit`, which waits for no job. Nobody cancels
here, so the first batch never ends; a job of instructions without conversions may
succeed in a directory without its file. One upload of a hash is handled at a time:
their races are `Upload`'s. A crash is one of the process; a power failure that
loses written data is not modelled.

`Delivery` says the same from outside, without process, queue or directory: for each
hash, whether its latest upload is accepted and still held, how often it was tried and
called back, which verdicts it has got, which can be asked for under its name, and
whether a store has lost one. The last two differ: an answer may be of an earlier upload of
the name, also before the latest one is tried, and `Delivery` promises no more. It
lets an upload go only after its own success was told, or refused by the store, and called
back; it allows one try in a life and one callback for a try. `CallbackAfterRecord`
and `OneRunPerLife` are what the guards of its `Call` and `Try` come to; the run checks
them as parts of `DeliveryKept`, and the proofs state them by themselves too. In the refinement an
upload is held while it is accepted and its directory is whole, a try is a run that
has got its slot, and what is told is what the stores hold; a crash, a shutdown and
the steps of the queue are stutters, and the first step of `os.RemoveAll` is the one
that drops the upload.

### TestCases and IntegrationSuite

A test method is a sequence of cases: what it does (upload and wait, upload only, one
request, something the server must refuse) and what each outcome makes it do (record
a pass or a failure, throw, go on). A loop over alike cases is cut to `CaseBound`. Of
an image only whether another test uploads the same bytes is kept. `IntegrationSuite`
runs them: `Build`, `StartResolves`, `StartTimesOut`, `WaitForReady` and `Stop` are
setup and cleanup, `Throws` is the way out that skips the cleanup, `OutputResults` and
`Drains` are the two ways in which the process ends. `UploadFails` is every error that
the client sees; the server may accept the upload all the same, after the client's
timeout or with an answer that cannot be read, and `LateUpload` is that job's arrival,
as it is of the uploads which `Promise.all` leaves running when one of them fails (`late`).
`DownloadHangs` is a download whose body stops after the headers: the suite is then
"stalled" (an idle connection keeps Node) or "aborted" (nothing does but the server),
for good. `Listen` makes the callback server before its upload; it, or the interval of
the wait that closes it, keeps Node (`leaked`).

Suites and server disagree, and a `setup` says which disagreements are mended
(`Mendable`), so that what comes behind the first one can be checked as well:

| name | what the suite has | what the server has |
|---|---|---|
| `announces` | waits for "Server started on :8080" | prints "HTTP server started, listening on :8080" (`main.go:127`) |
| `token` | sends the token as a form field | takes it from the `Authorization` header |
| `answer` | reads the hash from the JSON of the answer | prints the list of files with `%q` (`upload.go:142`): for two files or more no JSON, though the job is queued |
| `unknown` | takes "failed" or "not_found" from `/failures` | says "success" of a hash without a failure (`failures.go:40`) |
| `status` | looks for the field `status` in the answer of `/status` | answers with the field `state`, whose values are others too |
| `cancel` | sends GET to `/cancel` | takes DELETE alone, and a cancel of a job listed once is refused |
| `returns` | several jobs, one after the other | the first batch never ends |
| `forgets` | the same bytes again after a failure | the directory of a failed job stays: 409 |
| `expires` | `createExpiredJWT` puts its `exp` inside the `job` claim | the token's own `exp` is an hour ahead: it is accepted |

Three more keep the suites from running at this commit and are outside the
model: `const __dirname` (`common.ts:22`) is declared again inside the wrapper that
Node puts around a CommonJS module; `go build .` runs in `integration-tests`, where
there are no Go files (`Build` has its failure); and the images are cleaned up only
by a suite that does not throw, though the test README promises it always
(`integration-tests/README.md:77`). The command of a single suite (`"none"`) ends with
exit code 0 although tests failed; with `--json` and `--junit` nothing calls
`process.exit`, so that a leaked interval or an orphaned server keeps the process.

## 3. Runs

| run | question | instance |
|---|---|---|
| `scheduler` | are slots, list, states and cancel functions consistent, and is the missing cancel the only obstacle to progress? | 2 directories, 2 slots, list of 3 |
| `pipeline` | does `ProcessJob` keep `JobPromise`, and do no more to the queue than `Scheduler` says; does everything end? | 2 backends, 2 files, every failure, a cancel at any time |
| `upload` | can two uploads share a directory; is what is queued complete? | 3 uploads, 2 users, numbers to 3 |
| `records` | does the clean-up delete only what is old, and all of it; is an answer a verdict; does a wait end? | 1 hash, 2 clients, 2 runs, clock to 2 |
| `server` | what do crashes, restarts and shutdowns leave of uploads, records and callbacks; does the server keep `Delivery`? | 2 directories, 2 uploads of each, 2 starts, 2 slots |
| `suite` | does a suite meet its own server; is green complete; can a suite pass by luck; does the runner end? | 33 invocations of one to four suites, one server that dies |
| `jobs_never_leave` | documented: a finished job leaves the list, and one that fails is marked failed | violated, both |
| `cancel_running` | documented: a job in processing cannot be cancelled | violated |
| `cancel_leaves_dir` | documented: a cancel cleans up | violated |
| `upload_twice` | documented: not the same file twice by one user | violated |
| `rejected_for_ever` | documented: 409 only while an upload is being processed | violated |
| `suites_cut_short` | documented: the runner runs all suites | violated |

What the passing runs show, property by property, is in the comment above each
definition. The six violated properties quote the documentation; `findings` in
`PROJECT.json` gives the lines. The main one: `ProcessJob` waits, in a defer, for a
clean-up goroutine that waits for a cancel, so without a cancel no job ever returns,
and after `MaxWorkers` jobs no other starts. `scheduler` keeps that in view:
`ReturnsOnlyWhenCancelled` states it as fact, and `PendingStartsIfCancelled` says
that nothing else stands in the way. The same wait is why no job is ever marked failed,
as `README.MD:55` and `README.MD:128` have it: an error that gets past it is one of a
cancelled context, and is marked cancelled. `jobs_never_leave` checks the disjunction of
the two documented claims (`FinishedJobLeavesQueue`, `FailedIsMarked`), so that its one
counterexample, a failed job that nobody cancels, refutes both; `FailedNeverWritten`
proves for every instance that the state is never written.

**Bounds.** `QueueBound` limits the list; three entries and two slots give a batch
larger than the slots, one directory twice in a batch, and an entry added behind a
batch that holds the same directory. Two backends and two files give four writers
that can fail in any order and a channel whose capacity differs from both counts.
Three uploads give a race of two seen by a third, and a number that is reused
after a directory has gone; `SuffixBound` is never reached by three requests. In
`records` the age is one tick, so that the record of one run ages out while a
second run of the hash ends, and a client waits one tick, so that its timeout
races the verdict; the success store may fail in every sweep, the other one once.
In `server` two uploads of a hash and two starts give an upload into a directory
that a first life has removed, with the record of the first still told, and a job that both lives run; one error at any
place of disk or stores. In `suite` `CaseBound` is 1: each loop keeps one of its
alike cases, but no suite loses a kind of test; it is invoked at this commit, with
only the start mended, with all mended for two suites in a row, and with all but
one mended for each suite alone, once for every disagreement that suite can meet. That
is 33 invocations and 800,000 states. The proofs remove these bounds or
take them as any natural number (`QueueBound`, `SuffixBound`, `MaxTime`,
`MaxRuns`, `MaxStarts` and their like).

**Deadlock** is not checked: in each module the system may really stop, with every
job ended, every worker parked, every request answered, the process down, or a test
runner that has ended or is held by a timer. What must go on is stated
as liveness.

**Fairness.** Weak fairness for each goroutine by itself: the Go scheduler runs
every goroutine that can run. It includes that an encoder ends and a backend
answers, for which the code sets no time limit: that is an assumption. No fairness
is given to uploads or cancels, which nobody has to send, and none to a restart.
In `Completion` time passes, the clean-up routine goes on and a client that has
begun to wait goes on; no job has to end. In `Server` only the dispatcher and the
jobs are fair. In `IntegrationSuite` Node goes on while it has something to do,
the timers of its waits among it, and a server that was started starts or fails;
jobs may never end, and neither need a download. `ProcessEnds` therefore leaves out
a server that dies by itself and a download that stops half-way: either can hold the
runner for ever. `PendingStartsIfCancelled` assumes in its own statement that
parked workers are cancelled. A semaphore or channel needs only weak fairness
here, because the checked properties hold for whichever goroutine is let through.

**Assumptions of `IntegrationSuite`.** A server starts, or finds its stores locked,
within the fifteen seconds of the start timer; nobody else has the port; downloaded
pictures have bytes that no other test has; no encoder converts an empty file; and no
suite is invoked twice in one run (`getTestSuites` names each once).

## 4. Proofs

All proofs are of safety, by induction on steps, from the named assumptions on the
constants: `MaxWorkers` is in 1..10 (the clamp of `getMaxWorkers`), `Backend` and
`Request` are finite, `Output` is a sequence of names that are not entries of the
directory, `User` gives each request a subject, `Hash` of `Server` is finite, the
bounds are natural numbers, `CaseBound` is positive (no loop of the tests is empty),
and an invocation of the runner has suites and mended disagreements of the tables above.

- `SchedulerProofs`: types; the semaphore counts exactly the goroutines that hold a
  slot (`SlotsAccountedFor` needs that the set of holders changes by one element
  at a time); every function in `activeJobs` belongs to a goroutine that has not
  returned and is not cancelled; a worker alone with its directory keeps its
  function; nothing returns before it is cancelled; "processing" always has a
  worker; "failed" is never written. The invariant adds that only registered
  goroutines are in the map and only those past registration are cancelled.
- `SchedulerQueueProofs`: `BatchIsQueueFront` and `PendingIsQueued`. Removal by name
  is safe although it does not know its entry: the first n entries of the list and
  the n goroutines that have not removed theirs agree in how often each directory
  occurs, so the first entry found lies among the first n and removing it keeps
  both facts. `CancelReachesDoubledOnly` rests on the same counts: a cancel needs a
  registered worker and a state set back to pending, hence a second entry, which is in
  the front together with another worker of the batch or behind it.
  `RemoveFirstEffect` states what removal does to a sequence,
  `RemovalKeepsCount` what it does to the counts.
- `JobPipelineProofs`: the key fact is `EndedHaveStored`: while the errors are being
  collected and the channel is empty, every writer at its end has stored its file;
  with `ClosedLast` it gives that a closed and empty channel means that all is
  stored. `Sent` bounds the errors by the writers that have ended, so that there
  is always room. `PipelineKeepsPromise` is the refinement: initial states and steps
  map to those of `JobPromise`. `PipelineFitsQueue` maps each step to one of
  `Scheduler`'s; it needs that only a cancelled job is cleaned up
  (`CleanedIsCancelled`). `CancelledNeverSucceeds` is the safety half of
  `CancelledBeforeWritingFails`: a job with something to store that is cancelled
  before its writers start is `Doomed`, since each writer looks at the context before
  it stores, so that from then on an error is on its way, in the channel or returned.
- `UploadProofs`: the next number is greater than every number in use, so a name is
  fresh when picked; what a request finds there when it makes the directory came
  since (`FoundLater`), which is exactly a race. `Filled` follows a request that is
  alone with its name step by step.
- `CompletionProofs`: `AnswerOfSomeRun` from the fact that every record, and every
  record being written, is the verdict of a run that has ended; ageing only takes
  records away. `DeletedWasOld` from the fact that a collected key which was not set
  again still has the old record the snapshot saw, the cutoff only getting older.
- `ServerProofs`: the order of the steps of a job as an invariant on each stage
  (a recorded job has its record, a called one its callback after it, a removing
  one both), which a crash cannot break because it keeps the disk and forgets only the
  stage. `OneRunPerLife` counts a life's run from the stage of the job.
  `ServerDelivers` is the refinement of `Delivery`, with what is told being what the
  stores hold, whichever upload of the hash it came from. All that is said of an upload
  rests on its own `verdicts`. It needs `DInv` besides: nothing has been done with an upload whose instructions are not yet complete (`NotYet`), a job
  that has still to call back has a run which was not called back (`CallsCounted`),
  and what can succeed was accepted and is no longer whole once it is being removed
  (`Complete`).
- `IntegrationSuiteProofs`: `OwnServer` rests on `SaidIsOwn`: only a child that serves
  has the line in its pipe, and it got the stores because no orphan had them.
  `GreenIsComplete` needs `InOrder`: every suite behind the current one is still open,
  every one before it has ended, and the report comes after the last.
- `SuiteVerdictProofs`: first what each suite has among its cases, from the definitions
  of its tests: `ConcatHas` carries a case from a test to the suite, and the loops are
  non-empty because `CaseBound` is positive. Then `SInv`: a suite meets its own child,
  is in a case it has, and, where nothing is mended, the server has one batch. Before
  it nobody is answered; after the one answer no job in it has a verdict that a test
  waits for (`OneBatch`, which gives `OneVerdictPerServer`). The job of an empty file
  leaves its directory. `PassedMeansMended` adds the cases behind the current one
  (`PInv`): each got what it asks for, the first that waits for new bytes has used up the
  one answer, the first with an empty file has left the directory that refuses the
  next. A suite that needs two of a kind has two, and so does not pass. Of the basic tests
  none waits for a verdict, yet they need jobs that return as well: they upload the one PNG
  again and again (`TwoUploads`), and only a job that returns takes its directory away
  (`PngUntaken`, `PngBlocked`). Every suite has a case that reads the hash of a job of
  several files (`Reading`), and so needs `answer`. `Needs` has thus all that a suite
  of this model has to have mended.

Only model-checked: liveness (`PendingStartsIfCancelled`, `BodyEnds`, `WritersEnd`,
`CancelledBeforeWritingFails`, `AgedIsRemoved`, `WaitEnds`, `ScannedIsFinished`,
`ProcessEnds`), which is out of the prover's reach as ENABLED and fairness are; of
`CancelledBeforeWritingFails` and `ScannedIsFinished` the safety half is proved. And the
six violated properties, of which a run is the counterexample. Every invariant of a
passing run, both refinements and the joint of `JobPipeline` to `Scheduler` are proved.

## 5. Not modelled, and what is left

Not modelled: encoders, backends and credentials (commands and services outside;
their outcomes are chosen freely), configuration, health, version and registration
routes (stateless, or read once at the start), the token's verification
(`utils/jwt_decoder.go`, comparisons without state; the suites know whether a
token is accepted), the translation of claims and the output names (`JobPipeline`
takes any names), the logger, the task queues (no caller), the unit tests, the
wording of answers and logs, and the memory model (the unsynchronised encoder
registry is listed as a hazard). Of `/status` and `/cancel` the checks of the
request are left out.

Left, in this order:

1. `JobSpec`: the two computations of output names (`calculateExpectedFiles` and
   `generateOutputFilename`) against each other over small claims; `JobPipeline`
   would take its `Output` from there.
2. The time boundaries of the token check.
3. That `Server` (which implements `Delivery`) is implemented by `Upload`, `Scheduler`
   and `JobPipeline` together.
