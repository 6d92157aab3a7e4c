------------------------------ MODULE Upload ------------------------------
(***************************************************************************)
(* Concurrent uploads of one file (routes/upload.go): each request looks   *)
(* for directories of the same content hash, picks a name, makes the       *)
(* directory, saves the file and the instructions, and queues the job.     *)
(* Uploads of other files have other hashes and never meet these.          *)
(*                                                                         *)
(* A directory is named hash_subject, here the subject, or hash_k, here    *)
(* the number k.  A subject may be a number.  A directory is the set of    *)
(* the requests whose os.MkdirAll has returned for it since it was made;   *)
(* it does not exist when that set is empty.                               *)
(***************************************************************************)
EXTENDS Integers, FiniteSets, FiniteSetsExt

CONSTANTS
    Request,        \* the upload requests, each handled once
    Subject,        \* the users
    User,           \* request -> the subject of its token
    SuffixBound,    \* bound on k
    None,           \* no name; no instructions
    Broken          \* instructions.json is created and has no content yet

ASSUME RequestAssumption == IsFiniteSet(Request)
ASSUME UserAssumption == User \in [Request -> Subject]
ASSUME BoundAssumption == SuffixBound \in Nat

Number == 0..SuffixBound
Name == Subject \cup Number
ASSUME SubjectAssumption == \A s \in Subject : s \in Int => s \in Number

ASSUME NoneAssumption == /\ {None, Broken} \cap Request = {}
                         /\ None \notin Name /\ None # Broken

VARIABLES
    pc,             \* request -> where its handler is
    finalHash,      \* request -> the name it picked
    makers,         \* name -> the directory
    saved,          \* name -> the requests that saved their file in it
    instr,          \* name -> whose instructions it holds
    queued,         \* the requests whose job is in the queue or in work
    raced           \* ghost: request -> those whose MkdirAll came between the
                    \* request's own Stat and its own MkdirAll

vars == <<pc, finalHash, makers, saved, instr, queued, raced>>

Working == {"glob", "mkdir", "save", "create", "encode", "enqueue"}
PC == Working \cup {"new", "rejected", "failed", "accepted"}

Exists(n) == makers[n] # {}

\* Types, and nothing is in a directory that does not exist.
TypeOK ==
    /\ pc \in [Request -> PC]
    /\ finalHash \in [Request -> Name \cup {None}]
    /\ makers \in [Name -> SUBSET Request]
    /\ saved \in [Name -> SUBSET Request]
    /\ instr \in [Name -> Request \cup {None, Broken}]
    /\ queued \subseteq Request
    /\ raced \in [Request -> SUBSET Request]
    /\ \A n \in Name : makers[n] = {} => saved[n] = {} /\ instr[n] = None

Init ==
    /\ pc = [h \in Request |-> "new"]
    /\ finalHash = [h \in Request |-> None]
    /\ makers = [n \in Name |-> {}]
    /\ saved = [n \in Name |-> {}]
    /\ instr = [n \in Name |-> None]
    /\ queued = {}
    /\ raced = [h \in Request |-> {}]

Goto(h, from, to) == pc[h] = from /\ pc' = [pc EXCEPT ![h] = to]

-----------------------------------------------------------------------------
(* checkDuplicateUpload: os.Stat, then filepath.Glob. *)

\* Wrong variant: the directory is not found.
NoneFound(h) == FALSE

IsDuplicate(h) == Exists(User[h])

Stat(h) ==
    /\ Goto(h, "new", IF IsDuplicate(h) THEN "rejected" ELSE "glob")
    /\ UNCHANGED <<finalHash, makers, saved, instr, queued, raced>>

Matches == {n \in Name : Exists(n)}

\* The number at the end of a directory's name, 0 if there is none.
Suffix(n) == IF n \in Int THEN n ELSE 0

\* Wrong variant: the highest number is used again.
HighestSuffix == Max({0} \cup {Suffix(n) : n \in Matches})

NextSuffix == 1 + Max({0} \cup {Suffix(n) : n \in Matches})

Glob(h) ==
    /\ Goto(h, "glob", "mkdir")
    /\ Matches # {} => NextSuffix <= SuffixBound
    /\ finalHash' = [finalHash EXCEPT ![h] = IF Matches = {} THEN User[h] ELSE NextSuffix]
    /\ UNCHANGED <<makers, saved, instr, queued, raced>>

-----------------------------------------------------------------------------
(* The rest of the handler.  After an error it answers and leaves the      *)
(* directory as it is.                                                     *)

\* os.MkdirAll is content with a directory that is there.
Mkdir(h) ==
    /\ Goto(h, "mkdir", "save")
    /\ makers' = [makers EXCEPT ![finalHash[h]] = @ \cup {h}]
    /\ raced' = [g \in Request |->
                    IF g # h /\ pc[g] \in {"glob", "mkdir"} THEN raced[g] \cup {h} ELSE raced[g]]
    /\ UNCHANGED <<finalHash, saved, instr, queued>>

\* Wrong variant: writing to a directory that is gone is no error.
Anywhere(h) == TRUE

Writable(h) == Exists(finalHash[h])

Save(h) ==
    /\ Goto(h, "save", "create")
    /\ Writable(h)
    /\ saved' = [saved EXCEPT ![finalHash[h]] = @ \cup {h}]
    /\ UNCHANGED <<finalHash, makers, instr, queued, raced>>

\* WriteInstructions: os.Create truncates ...
Create(h) ==
    /\ Goto(h, "create", "encode")
    /\ Writable(h)
    /\ instr' = [instr EXCEPT ![finalHash[h]] = Broken]
    /\ UNCHANGED <<finalHash, makers, saved, queued, raced>>

\* ... and Encode writes the whole text, which is then what a reader decodes; into
\* a file that is no longer in the directory if that has been removed meanwhile.
Encode(h) ==
    LET n == finalHash[h]
        alone == \A g \in Request \ {h} : finalHash[g] # n
    IN  /\ Goto(h, "encode", "enqueue")
        /\ \E i \in (IF alone THEN {} ELSE {instr[n]}) \cup (IF Exists(n) THEN {h} ELSE {}) :
               instr' = [instr EXCEPT ![n] = i]
        /\ UNCHANGED <<finalHash, makers, saved, queued, raced>>

\* MkdirAll, ReadAll, WriteFile, the parsing of the job, or Create fails.
Fails(h) ==
    /\ \E p \in {"mkdir", "save", "create"} : Goto(h, p, "failed")
    /\ UNCHANGED <<finalHash, makers, saved, instr, queued, raced>>

\* Wrong variant: the error of WriteInstructions is ignored.
Ignored == "enqueue"

Answered == "failed"

EncodeFails(h) ==
    /\ Goto(h, "encode", Answered)
    /\ UNCHANGED <<finalHash, makers, saved, instr, queued, raced>>

\* AddPendingJob, and the answer 200.
AddPendingJob(h) ==
    /\ Goto(h, "enqueue", "accepted")
    /\ queued' = queued \cup {h}
    /\ UNCHANGED <<finalHash, makers, saved, instr, raced>>

Handler(h) ==
    \/ Stat(h) \/ Glob(h) \/ Mkdir(h)
    \/ Save(h) \/ Create(h) \/ Encode(h)
    \/ Fails(h) \/ EncodeFails(h)
    \/ AddPendingJob(h)

-----------------------------------------------------------------------------
(* What the workers do to the directories (see JobPipeline). *)

\* A job that succeeds, or is cancelled, removes its directory.
JobRemovesDir(h) ==
    LET n == finalHash[h]
    IN  /\ h \in queued
        /\ queued' = queued \ {h}
        /\ makers' = [makers EXCEPT ![n] = {}]
        /\ saved' = [saved EXCEPT ![n] = {}]
        /\ instr' = [instr EXCEPT ![n] = None]
        /\ UNCHANGED <<pc, finalHash, raced>>

\* A job that fails leaves it.
JobFails(h) ==
    /\ h \in queued
    /\ queued' = queued \ {h}
    /\ UNCHANGED <<pc, finalHash, makers, saved, instr, raced>>

Next == \E h \in Request : Handler(h) \/ JobRemovesDir(h) \/ JobFails(h)

Spec == Init /\ [][Next]_vars

-----------------------------------------------------------------------------
(* Safety. *)

Raced(g, h) == g \in raced[h] \/ h \in raced[g]

\* Two uploads share a directory only when one made it while the other was between
\* looking for it and making it: numbering alone never gives a name that is in
\* use, whatever directories have come and gone (upload.go:62-109, 112-122).
SharedOnlyByRace ==
    \A n \in Name : \A g, h \in makers[n] : g # h => Raced(g, h)

\* While a directory named by the user exists, that user has no other directory of
\* the same file, unless the two uploads raced (upload.go:66-71).  A user whose
\* directory has a number has no such protection.
OwnNameExcludesUser ==
    \A g \in Request : User[g] \notin Int /\ g \in makers[User[g]] =>
        \A n \in Name : \A h \in makers[n] :
            User[h] = User[g] /\ h # g => Raced(g, h)

\* A job in the queue, whose name no other upload has picked, has its file and its
\* complete instructions in its directory: ProcessJob can be run, and rerun after
\* a restart, from the directory alone (upload.go:300-343).
QueuedIsIntact ==
    \A h \in queued :
        (\A g \in Request \ {h} : finalHash[g] # finalHash[h]) =>
            h \in saved[finalHash[h]] /\ instr[finalHash[h]] = h

-----------------------------------------------------------------------------
(* What the documentation says and the code does not do. *)

\* "Same user cannot upload same file twice simultaneously".
SameUserOnce == \A g, h \in queued : User[g] = User[h] => g = h

\* "file with hash %s is already being processed by this user": an upload is
\* rejected only while another of that user is handled, queued or in work.
RejectedIsBeingProcessed ==
    [][\A h \in Request : pc[h] = "new" /\ pc'[h] = "rejected" =>
          \E g \in Request : /\ User[g] = User[h]
                             /\ g \in queued \/ pc[g] \in Working]_vars

=============================================================================
