-------------------------- MODULE IntegrationSuite --------------------------
(***************************************************************************)
(* The integration test runner, its four suites and the server that each   *)
(* of them builds, starts, uses and stops.  The server is what the other   *)
(* modules say of it, seen from a client: the job directories, the         *)
(* records, and a dispatcher whose first batch never ends.                 *)
(*                                                                         *)
(* Suites and server disagree in several places, so that at this commit no *)
(* suite gets past its setup.  Mendable names the disagreements; a setup   *)
(* says which of them are mended, and what is stated holds for each choice.*)
(***************************************************************************)
EXTENDS TestCases, FiniteSets

CONSTANTS
    Setups,     \* [mended, suites, output]: what TLC tries
    MaxDeaths   \* bound: servers that die by themselves

\* announces: the server prints the line that start() waits for;
\* token: it takes the token from the form, and the secrets agree;
\* answer: its answer to an upload is JSON for a job of several files too;
\* unknown: /failures says "not_found" of a hash without a failure;
\* status: /status answers a status that the test accepts;
\* cancel: /cancel answers GET, and with success;
\* returns: ProcessJob returns when the job is done;
\* forgets: the directory of a failed job is removed;
\* expires: createExpiredJWT makes a token that is expired.
Mendable == {"announces", "token", "answer", "unknown", "status", "cancel", "returns",
             "forgets", "expires"}
\* "none": the command of one suite, which prints no results of its own.
Output == {"human", "json", "junit", "none"}

\* getTestSuites names no suite twice.
ASSUME SetupsAssumption ==
    /\ Setups \subseteq
         [mended : SUBSET Mendable, suites : Seq(Suite) \ {<<>>}, output : Output]
    /\ \A s \in Setups : \A j, k \in DOMAIN s.suites : s.suites[j] = s.suites[k] => j = k
ASSUME MaxDeathsAssumption == MaxDeaths \in Nat

VARIABLES
    setup,      \* an element of Setups
    process,    \* the runner: "running", or how it has ended
    suite,      \* the position of the current suite
    at,         \* where its runAll is
    test,       \* the position of the current case
    awaited,    \* the images whose verdict it waits for
    verdicts,   \* those it has got
    result,     \* suite -> what has come of it
    leaked,     \* a timer, listener or connection that nobody ends keeps Node
    late,       \* uploads of a case that is over may still be accepted
    child,      \* this suite's server process
    said,       \* its pipe holds the line that start() waits for
    orphan,     \* the server of an earlier suite runs on
    deaths,     \* servers that died by themselves
    directory,  \* the images whose job directory exists; "old": of earlier tests
    record,     \* image -> the records under its hash
    job,        \* image -> its job in the live server
    dispatcher, \* "free", or "busy" with a batch that does not end
    answers     \* ghost: waits of this server's life answered for fresh bytes

harness == <<suite, at, test, awaited, verdicts, result, leaked, late>>
processes == <<child, said, orphan, deaths>>
serverVars == <<directory, record, job, dispatcher>>
vars == <<setup, process, harness, processes, serverVars, answers>>

Content == Image \cup {"old"}
Mended(what) == what \in setup.mended
Suites == setup.suites
CurrentTests == Tests(Suites[suite])
TheCase == CurrentTests[test]

TypeOK ==
    /\ setup \in Setups
    /\ process \in {"running", "green", "red", "drained"}
    /\ suite \in 1..Len(Suites) + 1
    /\ at \in {"build", "start", "health", "test", "stalled", "aborted", "wait", "stop",
               "report", "done"}
    /\ test \in Nat \ {0}
    /\ awaited \subseteq Image
    /\ verdicts \subseteq {"success", "failed"}
    /\ result \in [1..Len(Suites) -> {"open", "passed", "failed", "threw"}]
    /\ leaked \in BOOLEAN
    /\ late \subseteq {"png", "empty", "old"}
    /\ child \in {"none", "starting", "up", "dead"}
    /\ said \in BOOLEAN
    /\ orphan \in BOOLEAN
    /\ deaths \in 0..MaxDeaths
    /\ directory \subseteq Content
    /\ record \in [Image -> SUBSET {"success", "failed"}]
    /\ job \in [Content -> {"none", "queued", "taken", "success", "failed"}]
    /\ dispatcher \in {"free", "busy"}
    /\ answers \in Nat

Init ==
    /\ setup \in Setups
    /\ process = "running"
    /\ suite = 1 /\ at = "build" /\ test = 1
    /\ awaited = {} /\ verdicts = {}
    /\ result = [k \in 1..Len(Suites) |-> "open"]
    /\ leaked = FALSE /\ late = {}
    /\ child = "none" /\ said = FALSE /\ orphan = FALSE /\ deaths = 0
    /\ directory = {}
    /\ record = [i \in Image |-> {}]
    /\ job = [c \in Content |-> "none"]
    /\ dispatcher = "free"
    /\ answers = 0

-----------------------------------------------------------------------------
(* The server. *)

\* Someone answers at the base URL.
Serving == child = "up" \/ orphan

\* What the server has in memory is gone, the uploads it handles with it.  Those
\* of a Promise.all that is over may come later.
Forget ==
    /\ job' = [c \in Content |-> "none"]
    /\ dispatcher' = "free"
    /\ late' = late \cap {"old"}

\* main up to ListenAndServe.  The stores are locked by an orphan: Fatalf.
\* Otherwise every directory with instructions is queued, and the line is
\* printed that this server prints.
ServerStarts ==
    /\ child = "starting"
    /\ IF orphan
       THEN child' = "dead" /\ UNCHANGED <<said, serverVars, answers>>
       ELSE /\ child' = "up"
            /\ said' = Mended("announces")
            /\ job' = [c \in Content |-> IF c \in directory THEN "queued" ELSE "none"]
            /\ dispatcher' = "free"
            /\ answers' = 0
            /\ UNCHANGED <<directory, record>>
    /\ UNCHANGED <<setup, process, harness, orphan, deaths>>

\* A crash, or the kernel takes its memory back.
ServerDies ==
    /\ deaths < MaxDeaths
    /\ deaths' = deaths + 1
    /\ \/ child = "up" /\ child' = "dead" /\ UNCHANGED orphan
       \/ orphan /\ orphan' = FALSE /\ UNCHANGED child
    /\ Forget
    /\ UNCHANGED <<setup, process, suite, at, test, awaited, verdicts, result, leaked, said,
                   directory, record, answers>>

\* Wrong variant: the batch ends although nobody cancels its jobs.
BatchEnds == dispatcher' = "free"

\* wg.Wait waits for jobs that do not return.  When they do the next batch
\* begins some time later; that it waits for the slowest of this one is left out.
BatchStays == dispatcher' = IF Mended("returns") THEN "free" ELSE "busy"

\* GetPendingJobs: one snapshot of what is queued.
TakeBatch ==
    /\ dispatcher = "free"
    /\ \E c \in Content : job[c] = "queued"
    /\ job' = [c \in Content |-> IF job[c] = "queued" THEN "taken" ELSE job[c]]
    /\ BatchStays
    /\ UNCHANGED <<setup, process, harness, processes, directory, record, answers>>

\* The verdict is recorded.  No encoder converts an empty file.
JobRecords(i, v) ==
    /\ job[i] = "taken"
    /\ i = "empty" => v = "failed"
    /\ job' = [job EXCEPT ![i] = v]
    /\ record' = [record EXCEPT ![i] = @ \cup {v}]
    /\ UNCHANGED <<setup, process, harness, processes, directory, dispatcher, answers>>

RemovesDirectory(v) == v = "success" \/ (v = "failed" /\ Mended("forgets"))

\* os.RemoveAll, after the record.
JobRemovesDirectory(i) ==
    /\ RemovesDirectory(job[i])
    /\ directory' = directory \ {i}
    /\ job' = [job EXCEPT ![i] = "none"]
    /\ UNCHANGED <<setup, process, harness, processes, record, dispatcher, answers>>

\* The last job that an earlier test left has gone.
OldJobsDone ==
    /\ job["old"] = "taken"
    /\ directory' = directory \ {"old"}
    /\ job' = [job EXCEPT !["old"] = "none"]
    /\ UNCHANGED <<setup, process, harness, processes, record, dispatcher, answers>>

ServerStep ==
    \/ ServerStarts
    \/ TakeBatch
    \/ \E i \in Image, v \in {"success", "failed"} : JobRecords(i, v)
    \/ \E i \in Image : JobRemovesDirectory(i)
    \/ OldJobsDone

-----------------------------------------------------------------------------
(* The suites: setup and cleanup. *)

\* Wrong variant: the loop over the suites goes one too far.
OneSuiteMore == IF suite <= Len(Suites) THEN "build" ELSE "report"

AfterSuite == IF suite < Len(Suites) THEN "build" ELSE "report"

\* runAll throws: no cleanup, so a server that runs goes on without its suite.
Throws ==
    /\ result' = [result EXCEPT ![suite] = "threw"]
    /\ suite' = suite + 1
    /\ at' = AfterSuite
    /\ orphan' = (orphan \/ child = "up")
    /\ child' = "none"
    /\ said' = FALSE

\* runAll returns.  A failed result leaves its mark as soon as it is recorded.
Returns ==
    /\ result' = [result EXCEPT ![suite] = IF @ = "open" THEN "passed" ELSE @]
    /\ suite' = suite + 1
    /\ at' = AfterSuite
    /\ child' = "none"
    /\ said' = FALSE

\* go build, and the spawn of the server in its close handler.
Build ==
    /\ at = "build"
    /\ \/ /\ at' = "start" /\ child' = "starting"
          /\ UNCHANGED <<suite, result, said, orphan>>
       \/ Throws
    /\ UNCHANGED <<setup, process, test, awaited, verdicts, leaked, late, deaths,
                   serverVars, answers>>

\* Wrong variant: the promise resolves as soon as the process is there.
SpawnedIsEnough == TRUE

\* output.includes('Server started on :8080')
HasAnnounced == said

StartResolves ==
    /\ at = "start"
    /\ HasAnnounced
    /\ at' = "health"
    /\ UNCHANGED <<setup, process, suite, test, awaited, verdicts, result, leaked, late,
                   processes, serverVars, answers>>

\* Wrong variant: the promise is rejected when the process exits, without a timer.
RejectsOnExit == child = "dead"

\* The timer fires.  Fifteen seconds are enough for a server to start or to find
\* its stores locked; it is not stopped, and its exit is not listened to.
TimerFires == child # "starting"

StartTimesOut ==
    /\ at = "start"
    /\ TimerFires
    /\ ~said
    /\ Throws
    /\ UNCHANGED <<setup, process, test, awaited, verdicts, leaked, late, deaths,
                   serverVars, answers>>

\* waitForEndpoint: an answer within thirty tries, or an error.
WaitForReady ==
    /\ at = "health"
    /\ IF Serving
       THEN /\ at' = "test" /\ test' = 1
            /\ UNCHANGED <<suite, result, child, said, orphan>>
       ELSE Throws /\ UNCHANGED test
    /\ UNCHANGED <<setup, process, awaited, verdicts, leaked, late, deaths, serverVars,
                   answers>>

\* SIGTERM, main's shutdown, and the close event.  A child that is dead already
\* has had its close event before anybody listened: stop() waits for ever.
Stop ==
    /\ at = "stop"
    /\ child = "up"
    /\ Returns
    /\ Forget
    /\ UNCHANGED <<setup, process, test, awaited, verdicts, leaked, orphan, deaths,
                   directory, record, answers>>

-----------------------------------------------------------------------------
(* The suites: the tests. *)

\* The one job that stands for those of earlier tests.
Leftover(jobs) ==
    CASE "failed" \in jobs /\ ~RemovesDirectory("failed") -> "failed"
      [] "queued" \in jobs -> "queued"
      [] jobs = {"none"} -> "none"
      [] OTHER -> "taken"

\* The bytes and jobs of a test that is over are of no later test.
CaseIsOver ==
    LET left == {"fresh", "more"} \cap directory IN
    /\ directory' = (directory \ left) \cup (IF left = {} THEN {} ELSE {"old"})
    /\ record' = [record EXCEPT !["fresh"] = {}, !["more"] = {}]
    /\ job' = [job EXCEPT !["fresh"] = "none", !["more"] = "none",
                          !["old"] = Leftover({job[c] : c \in left \cup {"old"}})]
    /\ UNCHANGED dispatcher

\* The case has its outcome: record it, then throw or go to the next case.
Concludes(outcome) ==
    LET effect == TheCase.on[outcome] IN
    /\ awaited' = {} /\ verdicts' = {}
    /\ IF effect \in {"raise", "throw"}
       THEN Throws /\ UNCHANGED test
       ELSE /\ IF test < Len(CurrentTests) THEN test' = test + 1 /\ at' = "test"
               ELSE test' = 1 /\ at' = "stop"
            /\ result' = [result EXCEPT ![suite] = IF effect = "fail" THEN "failed" ELSE @]
            /\ UNCHANGED <<suite, child, said, orphan>>
    /\ UNCHANGED <<setup, process, deaths>>

NextCase(outcome) == Concludes(outcome) /\ CaseIsOver

\* Of what changes nothing in the server.  The job to cancel makes two files, and
\* without "answer" its hash is undefined.  Nothing sets the flag that
\* waitForCallback looks at: its timeout resolves it.
Accepted(deed) ==
    CASE deed = "local" -> TRUE
      [] deed = "health" -> Serving
      [] deed = "success" -> Serving
      [] deed = "failures" -> Serving /\ ("failed" \in record["png"] \/ Mended("unknown"))
      [] deed = "status" -> Serving /\ Mended("status")
      [] deed = "cancel" -> Serving /\ Mended("cancel") /\ Mended("answer")
      [] deed = "refuse" -> FALSE
      [] deed = "callback" -> TRUE

\* HTTPUtils.get and post: one request and its answer.
Request ==
    /\ at = "test"
    /\ TheCase.does \in {"local", "health", "success", "failures", "status", "cancel",
                         "refuse", "callback"}
    /\ NextCase(IF Accepted(TheCase.does) THEN "success" ELSE "error")
    /\ UNCHANGED <<leaked, late, answers>>

\* checkDuplicateUpload: this user has no directory for these bytes.
TakesUpload(i) == Serving /\ Mended("token") /\ i \notin directory

Queue(i) ==
    /\ directory' = directory \cup {i}
    /\ job' = [job EXCEPT ![i] = "queued"]
    /\ UNCHANGED <<record, dispatcher>>

\* fmt prints a list with %q: with two or more strings that is no JSON, and the
\* hash beside it is not read.
ReadsAnswer == "hash" \in TheCase.relies => Mended("answer")

\* One of the uploads whose verdicts the case will wait for.
Upload(i) ==
    /\ at = "test"
    /\ TheCase.does \in {"process", "parallel"}
    /\ i \in TheCase.images \ awaited
    /\ TakesUpload(i) /\ ReadsAnswer
    /\ Queue(i)
    /\ awaited' = awaited \cup {i}
    /\ at' = IF TheCase.does = "process" \/ awaited' = TheCase.images THEN "wait" ELSE at
    /\ UNCHANGED <<setup, process, suite, test, verdicts, result, leaked, late, processes,
                   answers>>

\* An upload that nobody waits for; a token that has not expired is as good.
UploadOnly ==
    /\ at = "test"
    /\ \/ TheCase.does = "upload"
       \/ TheCase.does = "expired" /\ ~Mended("expires")
    /\ TakesUpload("png") /\ ReadsAnswer
    /\ Concludes("success")
    /\ Queue("png")
    /\ UNCHANGED <<leaked, late, answers>>

\* What the server may yet accept of a case that has seen an error: the client
\* gives up after its timeout, or cannot read the answer.
Unheard ==
    {c \in {"png", "empty", "old"} :
        /\ TheCase.does = "expired" => ~Mended("expires")
        /\ c \in TheCase.images \/ (c = "old" /\ TheCase.images \cap {"fresh", "more"} # {})}

\* The download or the request fails, or the server refuses: every try block
\* takes them alike.  Promise.all rejects with the first upload that fails and does
\* not stop the others, nor a download among them that hangs.
UploadFails ==
    /\ at = "test"
    /\ TheCase.does \in {"process", "parallel", "upload", "expired"}
    /\ NextCase("error")
    /\ IF TheCase.does = "parallel"
       THEN late' = late \cup {"old"} /\ leaked' \in {leaked, TRUE}
       ELSE late' \in {late} \cup {late \cup {c} : c \in Unheard} /\ UNCHANGED leaked
    /\ UNCHANGED answers

\* What is queued then belongs to no test, or is in the way of the next upload of
\* these bytes.  Of bytes that no other test has there may be more to come.
LateUpload(c) ==
    /\ c \in late
    /\ Serving /\ Mended("token")
    /\ directory' = directory \cup {c}
    /\ job' = [job EXCEPT ![c] = CASE c = "old" -> Leftover({@, "queued"})
                                   [] c \in directory -> @
                                   [] OTHER -> "queued"]
    /\ late' = late \ ({c} \ {"old"})
    /\ UNCHANGED <<setup, process, suite, at, test, awaited, verdicts, result, leaked,
                   processes, record, dispatcher, answers>>

\* downloadLoremPicsumImage waits for its file to be finished or to fail.  When the
\* body stops coming, or the connection breaks, after the headers, neither happens,
\* and axios no longer looks at its timeout.  An idle connection keeps Node, a
\* broken one does not.
DownloadHangs ==
    /\ at = "test"
    /\ "net" \in TheCase.relies
    /\ at' \in {"stalled", "aborted"}
    /\ UNCHANGED <<setup, process, suite, test, awaited, verdicts, result, leaked, late,
                   processes, serverVars, answers>>

\* createCallbackServer: it is closed when the wait for the callback is over, but
\* then the interval timer of that wait goes on.
Listen ==
    /\ at = "test"
    /\ TheCase.does = "listen"
    /\ leaked' = TRUE
    /\ NextCase("success")
    /\ UNCHANGED <<late, answers>>

\* waitForCompletion, success first.  (Completion has its two requests apart.)
VerdictOf(i) == IF "success" \in record[i] THEN "success" ELSE "failed"

Answered(i) ==
    LET got == verdicts \cup {VerdictOf(i)} IN
    /\ at = "wait"
    /\ i \in awaited
    /\ Serving
    /\ record[i] # {}
    /\ IF awaited = {i}
       THEN /\ NextCase(IF "success" \in got THEN "success" ELSE "failed")
            /\ answers' = answers + (IF i \in {"fresh", "more"} THEN 1 ELSE 0)
       ELSE /\ awaited' = awaited \ {i} /\ verdicts' = got
            /\ UNCHANGED <<setup, process, suite, at, test, result, processes, serverVars,
                           answers>>
    /\ UNCHANGED <<leaked, late>>

\* Time is over, or a request fails.
WaitFails ==
    /\ at = "wait"
    /\ NextCase("error")
    /\ UNCHANGED <<leaked, late, answers>>

-----------------------------------------------------------------------------
(* The runner and its process. *)

SuitesWith(what) == {k \in 1..Len(Suites) : result[k] = what}

\* Wrong variant: a suite that threw has no results, and adds nothing.
FailuresOfResults == SuitesWith("failed") # {}

\* totalFailed > 0
AnyFailed == SuitesWith("failed") # {} \/ SuitesWith("threw") # {}

\* outputResults, or for one suite the catch of run().  Of a suite that threw an
\* error without a message the JUnit writer finds no results, and fails.
OutputResults ==
    /\ at = "report"
    /\ at' = "done"
    /\ process' \in
         CASE setup.output = "human" -> {IF AnyFailed THEN "red" ELSE "green"}
           [] setup.output = "json" -> {process}
           [] setup.output = "junit" -> {process} \cup {"red" : k \in SuitesWith("threw")}
           [] setup.output = "none" -> {IF SuitesWith("threw") = {} THEN process ELSE "red"}
    /\ UNCHANGED <<setup, suite, test, awaited, verdicts, result, leaked, late,
                   processes, serverVars, answers>>

\* Node ends, with exit code 0, when nothing can call it back any more: no timer,
\* no child.  A promise that nobody can resolve does not keep it.
Drains ==
    /\ process = "running"
    /\ at = "done" \/ (at \in {"stop", "aborted"} /\ child = "dead")
    /\ ~leaked /\ ~orphan
    /\ process' = "drained"
    /\ UNCHANGED <<setup, harness, processes, serverVars, answers>>

SuiteStep ==
    \/ Build \/ StartResolves \/ StartTimesOut \/ WaitForReady \/ Stop
    \/ Request
    \/ \E i \in Image : Upload(i) \/ Answered(i)
    \/ UploadOnly \/ UploadFails \/ DownloadHangs \/ Listen \/ WaitFails
    \/ OutputResults \/ Drains

LateStep == \E c \in late : LateUpload(c)

Next == process = "running" /\ (SuiteStep \/ LateStep \/ ServerStep \/ ServerDies)

Spec == Init /\ [][Next]_vars

\* Node goes on while it has something to do, the timers of its waits among it,
\* and a server that is started starts.  No job and no download has to end.
Fairness ==
    /\ WF_vars(process = "running" /\ SuiteStep)
    /\ WF_vars(process = "running" /\ ServerStarts)

FairSpec == Spec /\ Fairness

-----------------------------------------------------------------------------
(* Properties. *)

\* The tests of a suite talk to the server which that suite has started: also
\* when an earlier suite has thrown and its server still has the port and the
\* stores.
OwnServer ==
    at \in {"health", "test", "stalled", "aborted", "wait", "stop"} => ~orphan

\* "All tests passed!" is printed only when every suite ran to its end and none of
\* its results is a failure.
GreenIsComplete ==
    process = "green" => \A k \in 1..Len(Suites) : result[k] = "passed"

\* What has to be mended before a suite can pass.
Needs(name) ==
    {"announces", "token", "answer", "returns"} \cup
        CASE name = "basic" -> {"status", "cancel"}
          [] name = "edge" -> {"forgets"}
          [] OTHER -> {}

\* No suite passes by luck, by a record of an earlier run, or against the server
\* of another suite: a suite that passes shows that its disagreements are mended.
PassedMeansMended ==
    \A k \in SuitesWith("passed") : Needs(Suites[k]) \subseteq setup.mended

\* As long as jobs do not return, one wait in a server's life at most is answered
\* for bytes that were not there before: all that comes after the first batch waits
\* in vain, and so the codec and backend tests cannot pass.
OneVerdictPerServer == ~Mended("returns") => answers <= 1

\* With results for a reader the runner comes to its end, unless a server died or
\* a download stopped half-way: of these nobody would tell it.
ProcessEnds ==
    setup.output = "human" =>
        <>(process # "running" \/ deaths > 0 \/ at \in {"stalled", "aborted"})

-----------------------------------------------------------------------------
(* What the documentation says and the code does not do. *)

\* "Runs all integration test suites": when the process ends each of them has
\* returned or thrown.
AllSuitesRun == process # "running" => suite > Len(Suites)

=============================================================================
