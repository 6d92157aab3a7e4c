----------------------------- MODULE Completion -----------------------------
(***************************************************************************)
(* Clients that upload a file and wait for its verdict (example.ts, and    *)
(* the same loop in the test suites), the jobs their uploads start, and    *)
(* the record stores between them.  The verdict travels by a record under  *)
(* the hash of the directory: neither the record nor the query says which  *)
(* run of the hash it is about.                                            *)
(*                                                                         *)
(* Of an upload only its effect is kept: one that finds the directory of   *)
(* the same file and user is refused (Upload models the handler).  Of a    *)
(* job only its verdict, its record and the removal of its directory are   *)
(* kept (JobPipeline models it).                                           *)
(***************************************************************************)
EXTENDS RecordStore, Sequences

CONSTANTS
    Client,     \* calls of example(): one upload and one wait each
    MaxWait,    \* waitForCompletion's maxWaitSeconds, in ticks
    MaxRuns     \* bound: accepted uploads of one hash

ASSUME MaxWaitAssumption == MaxWait \in Nat \ {0}
ASSUME MaxRunsAssumption == MaxRuns \in Nat \ {0}

VARIABLES
    verdicts,   \* hash -> the verdicts of its runs, in order
    directory,  \* the hashes whose job directory exists
    client      \* client -> where it is, what it waits for, what it got

vars == <<storeVars, verdicts, directory, client>>

Verdict == {"success", "failed"}
\* "success" and "failure" stand before the two requests of the loop body,
\* "sleeping" in the two seconds after them.
Waiting == {"success", "failure", "sleeping"}
\* What the client ends with: a verdict, the timeout, or another error.
Ended == {"answered", "timeout", "error"}

\* hash and run: what was uploaded; answer: the verdict returned; runs: how many
\* runs the hash had had by then.
ClientState ==
    [at : {"start"} \cup Waiting \cup Ended, hash : Hash, run : 0..MaxRuns,
     deadline : Nat, answer : Verdict \cup {"none"}, runs : 0..MaxRuns]

TypeOK ==
    /\ StoreTypeOK
    /\ verdicts \in [Hash -> Seq(Verdict \cup {"underway"})]
    /\ \A h \in Hash : Len(verdicts[h]) <= MaxRuns
    /\ directory \subseteq Hash
    /\ client \in [Client -> ClientState]

Init ==
    /\ StoreInit
    /\ verdicts = [h \in Hash |-> <<>>]
    /\ directory = {}
    /\ client \in [Client -> [at : {"start"}, hash : Hash, run : {0}, deadline : {0},
                              answer : {"none"}, runs : {0}]]

-----------------------------------------------------------------------------
(* The job of a hash. *)

LastVerdict(h) == IF verdicts[h] = <<>> THEN "none" ELSE verdicts[h][Len(verdicts[h])]

\* Wrong variant: the store has the name of the verdict.
NamedAsVerdict(v) == v

StoreOf(v) == IF v = "success" THEN "success" ELSE "failures"

\* ProcessJob has its verdict and enters StoreSuccess or StoreFailure.
JobDecides(h, v) ==
    /\ LastVerdict(h) = "underway"
    /\ verdicts' = [verdicts EXCEPT ![h][Len(verdicts[h])] = v]
    /\ Stamp(h, StoreOf(v))
    /\ UNCHANGED <<directory, client>>

\* The record is set, or is lost with an error that is only logged.
JobRecords(h) ==
    /\ Set(h) \/ SetFails(h)
    /\ UNCHANGED <<verdicts, directory, client>>

\* os.RemoveAll(jobDir), after the record and only on success.
JobRemovesDirectory(h) ==
    /\ h \in directory
    /\ LastVerdict(h) = "success"
    /\ writing[h] = None
    /\ directory' = directory \ {h}
    /\ UNCHANGED <<storeVars, verdicts, client>>

-----------------------------------------------------------------------------
(* The client. *)

Becomes(c, state) == client' = [client EXCEPT ![c].at = state]

\* uploadImage and the start of waitForCompletion: the server has accepted the
\* file and its job is queued.
Upload(c) ==
    LET h == client[c].hash IN
    /\ client[c].at = "start"
    /\ h \notin directory
    /\ Len(verdicts[h]) < MaxRuns /\ now + MaxWait <= MaxTime     \* bounds
    /\ directory' = directory \cup {h}
    /\ verdicts' = [verdicts EXCEPT ![h] = Append(@, "underway")]
    /\ client' = [client EXCEPT ![c].at = "success",
                                ![c].run = Len(verdicts[h]) + 1,
                                ![c].deadline = now + MaxWait]
    /\ UNCHANGED storeVars

\* A status of 409, or any other answer that axios rejects, ends example() in
\* its catch block.
UploadRefused(c) ==
    /\ client[c].at = "start"
    /\ Becomes(c, "error")
    /\ UNCHANGED <<storeVars, verdicts, directory>>

\* getStatus: what /success and /failures answer for the hash.
Status(h, type) ==
    CASE type = "success" -> IF records["success"][h] # None THEN "success" ELSE "not_found"
      [] type = "failure" -> IF records["failures"][h] # None THEN "failed" ELSE "success"

\* Wrong variant: the failures are asked whether the file was processed.
AnswersAlways(h, type) == Status(h, type) # "not_found"

\* The answer that ends the wait: "success" of the one, "failed" of the other.
\* That /failures says "success" of a hash it does not know does not end it.
Answers(h, type) ==
    Status(h, type) = (IF type = "success" THEN "success" ELSE "failed")

\* One request of the loop body.
Poll(c, type) ==
    LET h == client[c].hash IN
    /\ client[c].at = type
    /\ IF Answers(h, type)
       THEN client' = [client EXCEPT ![c].at = "answered",
                                     ![c].answer = Status(h, type),
                                     ![c].runs = Len(verdicts[h])]
       ELSE Becomes(c, IF type = "success" THEN "failure" ELSE "sleeping")
    /\ UNCHANGED <<storeVars, verdicts, directory>>

\* A request fails: nothing in waitForCompletion catches it.
PollFails(c) ==
    /\ client[c].at \in {"success", "failure"}
    /\ Becomes(c, "error")
    /\ UNCHANGED <<storeVars, verdicts, directory>>

\* Wrong variant: the loop never looks at the clock.
NoDeadline(c) == TRUE

\* Date.now() - startTime < maxWaitSeconds * 1000
InTime(c) == now < client[c].deadline

\* The sleep is over and the loop condition is evaluated.
WakeUp(c) ==
    /\ client[c].at = "sleeping"
    /\ Becomes(c, IF InTime(c) THEN "success" ELSE "timeout")
    /\ UNCHANGED <<storeVars, verdicts, directory>>

-----------------------------------------------------------------------------

ClockStep == Tick /\ UNCHANGED <<verdicts, directory, client>>
CleanerStep == (TickerFires \/ Sweep) /\ UNCHANGED <<verdicts, directory, client>>

JobStep(h) ==
    \/ \E v \in Verdict : JobDecides(h, v)
    \/ JobRecords(h)
    \/ JobRemovesDirectory(h)

WaitStep(c) ==
    \/ \E type \in {"success", "failure"} : Poll(c, type)
    \/ PollFails(c)
    \/ WakeUp(c)

Next ==
    \/ ClockStep
    \/ CleanerStep
    \/ \E h \in Hash : JobStep(h)
    \/ \E c \in Client : Upload(c) \/ UploadRefused(c) \/ WaitStep(c)

Spec == Init /\ [][Next]_vars

\* Time passes, the ticker fires and the routine runs on; a client that has begun
\* to wait goes on.  No job has to end and no client has to upload.
Fairness ==
    /\ WF_vars(ClockStep)
    /\ WF_vars(CleanerStep)
    /\ \A c \in Client : WF_vars(WaitStep(c))

FairSpec == Spec /\ Fairness

-----------------------------------------------------------------------------
(* Safety. *)

\* An answer is always the verdict of some run of the hash: the order of the two
\* requests, a record lost or aged out between them and a /failures that calls the
\* unknown a success make no answer up.  As long as the hash has had one run it is
\* that run's verdict.
AnswerOfSomeRun ==
    \A c \in Client : client[c].at = "answered" =>
        \E k \in 1..client[c].runs : verdicts[client[c].hash][k] = client[c].answer

-----------------------------------------------------------------------------
(* Liveness. *)

\* A wait ends, whether the job does or not.
WaitEnds ==
    \A c \in Client : (client[c].at \in Waiting) ~> (client[c].at \in Ended)

=============================================================================
