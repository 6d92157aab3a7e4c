----------------------- MODULE IntegrationSuiteProofs -----------------------
(***************************************************************************)
(* For every invocation of the runner, whatever is mended and however many *)
(* servers die: whose server the tests talk to, and what green means.      *)
(***************************************************************************)
EXTENDS IntegrationSuite, TLAPS

\* Only a server that found the stores unlocked has said that it started.
SaidIsOwn == said => ~orphan

\* The suites before the current one have come to something.
InOrder ==
    /\ at \in {"report", "done"} => suite = Len(Suites) + 1
    /\ at \notin {"report", "done"} => suite <= Len(Suites)
    /\ \A k \in 1..Len(Suites) : result[k] = "open" => k >= suite

IInv == TypeOK /\ SaidIsOwn /\ OwnServer /\ InOrder /\ GreenIsComplete

-----------------------------------------------------------------------------
(* The end of a suite and of a case. *)

LEMMA SuitesTyped ==
    ASSUME setup \in Setups
    PROVE  Len(Suites) \in Nat \ {0} /\ setup.output \in Output
<1>1. setup.suites \in Seq(Suite) /\ setup.suites # <<>> /\ setup.output \in Output
  BY SetupsAssumption
<1> QED BY <1>1 DEF Suites

\* runAll throws or returns: the next suite, or the report.
LEMMA SuiteEnds ==
    ASSUME IInv, at \notin {"report", "done"}, Throws \/ Returns, UNCHANGED setup
    PROVE  /\ suite' \in 1..Len(Suites) + 1 /\ at' \in {"build", "report"}
           /\ result' \in [1..Len(Suites) -> {"open", "passed", "failed", "threw"}]
           /\ child' = "none" /\ said' = FALSE
           /\ InOrder'
<1>1. Len(Suites) \in Nat /\ suite \in 1..Len(Suites) /\ Suites' = Suites
  BY SuitesTyped DEF IInv, TypeOK, InOrder, Suites
<1>2. suite' = suite + 1 /\ at' = IF suite < Len(Suites) THEN "build" ELSE "report"
  BY DEF Throws, Returns, AfterSuite
<1>3. \E w \in {"passed", "failed", "threw"} : result' = [result EXCEPT ![suite] = w]
  BY <1>1 DEF Throws, Returns, IInv, TypeOK
<1>4. \A k \in 1..Len(Suites) : result'[k] = "open" => k >= suite + 1
  BY <1>1, <1>3 DEF IInv, TypeOK, InOrder
<1>5. InOrder'
  BY <1>1, <1>2, <1>4 DEF InOrder
<1> QED
  BY <1>1, <1>2, <1>3, <1>5 DEF IInv, TypeOK, Throws, Returns

\* The rest of the suite's state stays within its suite.
LEMMA SuiteGoesOn ==
    ASSUME IInv, at \notin {"report", "done"}, at' \notin {"report", "done"},
           UNCHANGED <<setup, suite>>,
           \/ UNCHANGED result
           \/ \E w \in {"passed", "failed", "threw"} : result' = [result EXCEPT ![suite] = w]
    PROVE  /\ result' \in [1..Len(Suites) -> {"open", "passed", "failed", "threw"}]
           /\ InOrder'
<1>1. Len(Suites) \in Nat /\ suite \in 1..Len(Suites) /\ Suites' = Suites
  BY SuitesTyped DEF IInv, TypeOK, InOrder, Suites
<1>2. result' \in [1..Len(Suites) -> {"open", "passed", "failed", "threw"}]
  BY <1>1 DEF IInv, TypeOK
<1>3. \A k \in 1..Len(Suites) : result'[k] = "open" => result[k] = "open"
  BY <1>1 DEF IInv, TypeOK
<1>4. InOrder'
  BY <1>1, <1>3 DEF IInv, InOrder
<1> QED BY <1>2, <1>4

\* A case ends: the suite throws, or goes on with the next case or its cleanup.
LEMMA CaseEnds ==
    ASSUME IInv, at \in {"test", "wait"}, NEW outcome, Concludes(outcome)
    PROVE  /\ suite' \in 1..Len(Suites) + 1 /\ at' \in {"build", "report", "test", "stop"}
           /\ test' \in Nat \ {0}
           /\ result' \in [1..Len(Suites) -> {"open", "passed", "failed", "threw"}]
           /\ UNCHANGED <<setup, process, deaths>> /\ awaited' = {} /\ verdicts' = {}
           /\ \/ child' = "none" /\ said' = FALSE /\ at' \in {"build", "report"}
                                 /\ orphan' \in BOOLEAN
              \/ UNCHANGED <<child, said, orphan>>
           /\ InOrder'
<1> DEFINE effect == TheCase.on[outcome]
<1>1. /\ UNCHANGED <<setup, process, deaths>> /\ awaited' = {} /\ verdicts' = {}
  BY DEF Concludes
<1>2. CASE effect \in {"raise", "throw"}
  <2>1. Throws /\ UNCHANGED test
    BY <1>2 DEF Concludes
  <2>2. orphan' \in BOOLEAN
    BY <2>1 DEF Throws, IInv, TypeOK
  <2> QED BY <1>1, <2>1, <2>2, SuiteEnds DEF IInv, TypeOK
<1>3. CASE effect \notin {"raise", "throw"}
  <2>1. /\ UNCHANGED <<suite, child, said, orphan>>
        /\ at' \in {"test", "stop"} /\ test' \in {test + 1, 1}
        /\ result' = [result EXCEPT ![suite] = IF effect = "fail" THEN "failed" ELSE @]
    BY <1>3 DEF Concludes
  <2>2. \/ UNCHANGED result
        \/ \E w \in {"passed", "failed", "threw"} : result' = [result EXCEPT ![suite] = w]
    BY <2>1 DEF IInv, TypeOK
  <2> QED BY <1>1, <2>1, <2>2, SuiteGoesOn DEF IInv, TypeOK
<1> QED BY <1>2, <1>3

\* What the tests leave of the server's state.
ServerTyped ==
    /\ directory \subseteq Content
    /\ record \in [Image -> SUBSET {"success", "failed"}]
    /\ job \in [Content -> {"none", "queued", "taken", "success", "failed"}]
    /\ dispatcher \in {"free", "busy"}

LEMMA CaseIsOverTyped ==
    ASSUME TypeOK, CaseIsOver
    PROVE  ServerTyped'
<1> USE DEF CaseIsOver, TypeOK, ServerTyped
<1>1. directory' \subseteq Content
  BY DEF Content, Image
<1>2. record' \in [Image -> SUBSET {"success", "failed"}]
  OBVIOUS
<1>3. job' \in [Content -> {"none", "queued", "taken", "success", "failed"}]
  <2>1. \A jobs : Leftover(jobs) \in {"none", "queued", "taken", "success", "failed"}
    BY DEF Leftover
  <2> QED BY <2>1
<1>4. dispatcher' \in {"free", "busy"}
  OBVIOUS
<1> QED BY <1>1, <1>2, <1>3, <1>4

\* The contents whose upload can outlive its case.
CanBeLate == {"png", "empty", "old"}

-----------------------------------------------------------------------------
(* One lemma for each actor: what its steps leave true. *)

\* A step that ends a case, as both requests and waits do.
LEMMA CaseStep ==
    ASSUME IInv, process = "running", at \in {"test", "wait"}, NEW outcome,
           Concludes(outcome), ServerTyped', leaked' \in BOOLEAN, late' \subseteq CanBeLate,
           answers' \in Nat
    PROVE  IInv'
<1> USE CaseEnds
<1>1. TypeOK'
  BY DEF IInv, TypeOK, ServerTyped, Suites, CanBeLate
<1>2. SaidIsOwn' /\ OwnServer'
  BY DEF IInv, SaidIsOwn, OwnServer
<1>3. InOrder' /\ GreenIsComplete'
  BY DEF GreenIsComplete
<1> QED BY <1>1, <1>2, <1>3 DEF IInv

LEMMA ServerStartsTyped ==
    ASSUME IInv, ServerStarts
    PROVE  /\ child' \in {"none", "starting", "up", "dead"} /\ said' \in BOOLEAN
           /\ UNCHANGED <<orphan, deaths>> /\ answers' \in Nat
           /\ SaidIsOwn'
<1>1. UNCHANGED <<orphan, deaths>>
  BY DEF ServerStarts
<1>2. CASE orphan
  <2>1. child' = "dead" /\ said' = said /\ answers' = answers
    BY <1>2 DEF ServerStarts
  <2>2. orphan' = orphan
    BY <1>1
  <2> QED BY <1>1, <2>1, <2>2 DEF IInv, TypeOK, SaidIsOwn
<1>3. CASE ~orphan
  <2>1. child' = "up" /\ answers' = 0
    BY <1>3 DEF ServerStarts
  <2>2. said' \in BOOLEAN
    BY <1>3 DEF ServerStarts, Mended
  <2>3. orphan' = orphan
    BY <1>1
  <2>4. SaidIsOwn'
    BY <1>3, <2>3 DEF SaidIsOwn
  <2> QED BY <1>1, <2>1, <2>2, <2>4
<1> QED BY <1>2, <1>3

LEMMA ServerStepKeeps ==
    ASSUME IInv, process = "running", ServerStep \/ ServerDies
    PROVE  IInv'
<1>1. /\ UNCHANGED <<setup, process, suite, at, test, awaited, verdicts, result, leaked>>
      /\ late' \subseteq late
  BY DEF ServerStep, ServerStarts, TakeBatch, JobRecords, JobRemovesDirectory, OldJobsDone,
         ServerDies, Forget, harness
<1>2. /\ child' \in {"none", "starting", "up", "dead"} /\ said' \in BOOLEAN
      /\ orphan' \in BOOLEAN /\ (orphan' => orphan) /\ deaths' \in 0..MaxDeaths
      /\ SaidIsOwn'
      /\ answers' \in Nat
  <2>1. CASE ServerStarts
    <3>1. UNCHANGED <<orphan, deaths>>
      BY <2>1, ServerStartsTyped
    <3>2. orphan' \in BOOLEAN /\ (orphan' => orphan) /\ deaths' \in 0..MaxDeaths
      BY <3>1 DEF IInv, TypeOK
    <3> QED BY <2>1, <3>2, ServerStartsTyped
  <2>2. CASE ServerDies
    <3>1. child' \in {"none", "starting", "up", "dead"} /\ answers' \in Nat
      BY <2>2 DEF ServerDies, IInv, TypeOK
    <3>2. said' = said
      BY <2>2 DEF ServerDies
    <3>3. orphan' = orphan \/ orphan' = FALSE
      BY <2>2 DEF ServerDies
    <3>4. deaths' \in 0..MaxDeaths
      BY <2>2, MaxDeathsAssumption DEF ServerDies, IInv, TypeOK
    <3>5. said' \in BOOLEAN /\ orphan' \in BOOLEAN /\ (orphan' => orphan) /\ SaidIsOwn'
      <4>1. said \in BOOLEAN /\ orphan \in BOOLEAN /\ (said => ~orphan)
        BY DEF IInv, TypeOK, SaidIsOwn
      <4>2. CASE orphan' = orphan
        BY <3>2, <4>1, <4>2 DEF SaidIsOwn
      <4>3. CASE orphan' = FALSE
        BY <3>2, <4>1, <4>3 DEF SaidIsOwn
      <4> QED BY <3>3, <4>2, <4>3
    <3> QED BY <3>1, <3>4, <3>5
  <2>3. CASE UNCHANGED <<child, said, orphan, deaths, answers>>
    BY <2>3 DEF IInv, TypeOK, SaidIsOwn
  <2> QED
    BY <2>1, <2>2, <2>3 DEF ServerStep, TakeBatch, JobRecords, JobRemovesDirectory,
       OldJobsDone, processes
<1>3. ServerTyped'
  BY DEF ServerStep, ServerStarts, TakeBatch, BatchStays, JobRecords, JobRemovesDirectory,
         RemovesDirectory, OldJobsDone, ServerDies, Forget, IInv, TypeOK, ServerTyped,
         harness, processes, serverVars
<1>4. TypeOK'
  BY <1>1, <1>2, <1>3 DEF IInv, TypeOK, ServerTyped, Suites
<1>5. OwnServer'
  BY <1>1, <1>2 DEF IInv, OwnServer
<1>6. InOrder' /\ GreenIsComplete'
  BY <1>1 DEF IInv, InOrder, GreenIsComplete, Suites
<1> QED BY <1>2, <1>4, <1>5, <1>6 DEF IInv

\* With no failure counted, every suite has passed.
LEMMA NoFailureAllPassed ==
    ASSUME TypeOK, at = "report", InOrder
    PROVE  ~AnyFailed => \A k \in 1..Len(Suites) : result[k] = "passed"
<1>1. Len(Suites) \in Nat /\ suite = Len(Suites) + 1
  BY SuitesTyped DEF TypeOK, InOrder
<1>2. \A k \in 1..Len(Suites) : result[k] # "open"
  BY <1>1 DEF InOrder
<1>3. \A k \in 1..Len(Suites) : result[k] \in {"open", "passed", "failed", "threw"}
  BY <1>1 DEF TypeOK
<1>4. ~AnyFailed => \A k \in 1..Len(Suites) : result[k] # "failed" /\ result[k] # "threw"
  BY DEF AnyFailed, SuitesWith
<1> QED BY <1>2, <1>3, <1>4

LEMMA SuiteStepKeeps ==
    ASSUME IInv, process = "running", SuiteStep
    PROVE  IInv'
<1>1. CASE Build \/ StartTimesOut \/ WaitForReady \/ StartResolves \/ Stop
  <2>1. at \notin {"report", "done"}
    BY <1>1 DEF Build, StartTimesOut, WaitForReady, StartResolves, Stop
  <2>2. /\ UNCHANGED <<setup, process, awaited, verdicts, leaked, deaths, answers>>
        /\ late' \subseteq late
    BY <1>1 DEF Build, StartTimesOut, WaitForReady, StartResolves, Stop, Forget, processes,
                serverVars
  <2>3. ServerTyped' /\ test' \in Nat \ {0}
    BY <1>1 DEF Build, StartTimesOut, WaitForReady, StartResolves, Stop, Forget, processes,
                serverVars, ServerTyped, IInv, TypeOK
  <2>4. CASE (Throws \/ Returns) /\ orphan' \in BOOLEAN
    <3>1. /\ suite' \in 1..Len(Suites) + 1 /\ at' \in {"build", "report"}
          /\ result' \in [1..Len(Suites) -> {"open", "passed", "failed", "threw"}]
          /\ child' = "none" /\ said' = FALSE
          /\ InOrder'
      BY <2>1, <2>2, <2>4, SuiteEnds
    <3>2. TypeOK'
      BY <2>2, <2>3, <2>4, <3>1 DEF IInv, TypeOK, ServerTyped, Suites
    <3>3. SaidIsOwn' /\ OwnServer' /\ GreenIsComplete'
      BY <2>2, <3>1 DEF SaidIsOwn, OwnServer, GreenIsComplete
    <3> QED BY <3>1, <3>2, <3>3 DEF IInv
  <2>5. CASE /\ UNCHANGED <<suite, result, said, orphan>>
             /\ at' \notin {"report", "done"} /\ at' \in {"start", "health", "test"}
             /\ child' \in {"none", "starting", "up", "dead"}
             /\ at' \in {"health", "test"} => said \/ at = "health"
    <3>1. /\ result' \in [1..Len(Suites) -> {"open", "passed", "failed", "threw"}]
          /\ InOrder'
      BY <2>1, <2>2, <2>5, SuiteGoesOn
    <3>2. TypeOK'
      BY <2>2, <2>3, <2>5, <3>1 DEF IInv, TypeOK, ServerTyped, Suites
    <3>3. SaidIsOwn' /\ OwnServer'
      BY <2>5 DEF IInv, SaidIsOwn, OwnServer
    <3>4. GreenIsComplete'
      BY <2>2 DEF GreenIsComplete
    <3> QED BY <3>1, <3>2, <3>3, <3>4 DEF IInv
  <2>6. CASE Build
    BY <2>4, <2>5, <2>6 DEF Build, Throws, IInv, TypeOK
  <2>7. CASE StartTimesOut
    BY <2>4, <2>7 DEF StartTimesOut, Throws, IInv, TypeOK
  <2>8. CASE StartResolves
    BY <2>5, <2>8 DEF StartResolves, HasAnnounced, processes, IInv, TypeOK
  <2>9. CASE WaitForReady
    BY <2>4, <2>5, <2>9 DEF WaitForReady, Throws, IInv, TypeOK
  <2>10. CASE Stop
    BY <2>4, <2>10 DEF Stop, IInv, TypeOK
  <2> QED BY <1>1, <2>6, <2>7, <2>8, <2>9, <2>10
<1>2. CASE Request \/ UploadFails \/ WaitFails \/ Listen
  <2>1. /\ at \in {"test", "wait"} /\ \E outcome : Concludes(outcome) /\ CaseIsOver
        /\ leaked' \in BOOLEAN /\ late' \subseteq CanBeLate /\ answers' \in Nat
    <3>1. leaked \in BOOLEAN /\ late \subseteq CanBeLate /\ answers \in Nat
      BY DEF IInv, TypeOK, CanBeLate
    <3>2. CASE Request \/ WaitFails \/ Listen
      BY <3>1, <3>2 DEF Request, WaitFails, Listen, NextCase
    <3>3. CASE UploadFails
      <4>1. /\ at = "test" /\ NextCase("error") /\ UNCHANGED answers
            /\ leaked' \in {leaked, TRUE}
            /\ late' \in {late, late \cup {"old"}} \cup {late \cup {c} : c \in Unheard}
        BY <3>3 DEF UploadFails
      <4>2. Unheard \subseteq CanBeLate
        BY DEF Unheard, CanBeLate
      <4> QED BY <3>1, <4>1, <4>2 DEF NextCase, CanBeLate
    <3> QED BY <1>2, <3>2, <3>3
  <2> QED BY <2>1, CaseStep, CaseIsOverTyped DEF IInv
<1>3. ASSUME NEW i \in Image, Answered(i)
      PROVE  IInv'
  <2>1. at = "wait" /\ UNCHANGED <<leaked, late>>
    BY <1>3 DEF Answered
  <2>2. CASE awaited = {i}
    <3>1. \E outcome : NextCase(outcome)
      BY <1>3, <2>2 DEF Answered
    <3>2. answers' \in Nat
      BY <1>3, <2>2 DEF Answered, IInv, TypeOK
    <3> QED
      BY <2>1, <3>1, <3>2, CaseStep, CaseIsOverTyped DEF NextCase, CanBeLate, IInv, TypeOK
  <2>3. CASE awaited # {i}
    <3>1. /\ UNCHANGED <<setup, process, suite, at, test, result, processes, serverVars,
                         answers>>
          /\ awaited' = awaited \ {i} /\ verdicts' = verdicts \cup {VerdictOf(i)}
      BY <1>3, <2>3 DEF Answered
    <3>2. TypeOK'
      BY <2>1, <3>1 DEF IInv, TypeOK, VerdictOf, Suites, processes, serverVars
    <3> QED
      BY <3>1, <3>2 DEF IInv, SaidIsOwn, OwnServer, InOrder, GreenIsComplete, Suites,
                        processes
  <2> QED BY <2>2, <2>3
<1>4. ASSUME NEW i \in Image, Upload(i)
      PROVE  IInv'
  <2>1. /\ UNCHANGED <<setup, process, suite, test, verdicts, result, leaked, late, processes,
                       answers>>
        /\ at = "test" /\ at' \in {"test", "wait"} /\ awaited' = awaited \cup {i}
    BY <1>4 DEF Upload
  <2>2. ServerTyped'
    BY <1>4 DEF Upload, Queue, Content, IInv, TypeOK, ServerTyped
  <2>3. TypeOK'
    BY <2>1, <2>2 DEF IInv, TypeOK, ServerTyped, Suites, processes
  <2> QED
    BY <2>1, <2>3 DEF IInv, SaidIsOwn, OwnServer, InOrder, GreenIsComplete, Suites, processes
<1>5. CASE UploadOnly
  <2>1. ServerTyped'
    BY <1>5 DEF UploadOnly, Queue, Content, Image, IInv, TypeOK, ServerTyped
  <2> QED BY <1>5, <2>1, CaseStep DEF UploadOnly, CanBeLate, IInv, TypeOK
<1>6. CASE OutputResults
  <2>1. /\ UNCHANGED <<setup, suite, test, awaited, verdicts, result, leaked, late, processes,
                       serverVars, answers>>
        /\ at = "report" /\ at' = "done"
    BY <1>6 DEF OutputResults
  <2>2. setup.output \in Output
    BY SuitesTyped DEF IInv, TypeOK
  <2>3. process' \in {"running", "green", "red"} /\ (process' = "green" => ~AnyFailed)
    BY <1>6, <2>2 DEF OutputResults, Output
  <2>4. TypeOK'
    BY <2>1, <2>3 DEF IInv, TypeOK, Suites, processes, serverVars
  <2>5. GreenIsComplete'
    BY <2>1, <2>3, NoFailureAllPassed DEF IInv, GreenIsComplete, Suites
  <2> QED
    BY <2>1, <2>4, <2>5 DEF IInv, SaidIsOwn, OwnServer, InOrder, Suites, processes
<1>7. CASE Drains
  <2>1. UNCHANGED <<setup, harness, processes, serverVars, answers>> /\ process' = "drained"
    BY <1>7 DEF Drains
  <2> QED
    BY <2>1 DEF IInv, TypeOK, SaidIsOwn, OwnServer, InOrder, GreenIsComplete, Suites,
                harness, processes, serverVars
<1>8. CASE DownloadHangs
  <2>1. /\ UNCHANGED <<setup, process, suite, test, awaited, verdicts, result, leaked, late,
                       processes, serverVars, answers>>
        /\ at = "test" /\ at' \in {"stalled", "aborted"}
    BY <1>8 DEF DownloadHangs
  <2>2. TypeOK'
    BY <2>1 DEF IInv, TypeOK, Suites, processes, serverVars
  <2> QED
    BY <2>1, <2>2 DEF IInv, SaidIsOwn, OwnServer, InOrder, GreenIsComplete, Suites, processes
<1> QED BY <1>1, <1>2, <1>3, <1>4, <1>5, <1>6, <1>7, <1>8 DEF SuiteStep

-----------------------------------------------------------------------------
(* The invariant. *)

LEMMA LateUploadKeeps ==
    ASSUME IInv, process = "running", NEW c \in late, LateUpload(c)
    PROVE  IInv'
<1>1. UNCHANGED <<setup, process, suite, at, test, awaited, verdicts, result, leaked,
                 processes, answers>>
  BY DEF LateUpload
<1>2. ServerTyped'
  <2>1. \A jobs : Leftover(jobs) \in {"none", "queued", "taken", "success", "failed"}
    BY DEF Leftover
  <2>2. /\ directory' = directory \cup {c} /\ UNCHANGED <<record, dispatcher>>
        /\ c \in Content
    BY DEF LateUpload, IInv, TypeOK, Content, Image
  <2>3. job' \in [Content -> {"none", "queued", "taken", "success", "failed"}]
    BY <2>1 DEF LateUpload, IInv, TypeOK
  <2> QED BY <2>2, <2>3 DEF IInv, TypeOK, ServerTyped, Content
<1>3. late' \subseteq late
  BY DEF LateUpload
<1>4. TypeOK'
  BY <1>1, <1>2, <1>3 DEF IInv, TypeOK, ServerTyped, Suites, processes
<1> QED
  BY <1>1, <1>4 DEF IInv, SaidIsOwn, OwnServer, InOrder, GreenIsComplete, Suites, processes

LEMMA InitIInv == Init => IInv
<1> SUFFICES ASSUME Init PROVE IInv
  OBVIOUS
<1>1. Len(Suites) \in Nat \ {0}
  BY SuitesTyped DEF Init
<1>2. /\ setup \in Setups /\ process = "running" /\ suite \in 1..Len(Suites) + 1
      /\ at = "build" /\ test \in Nat \ {0} /\ awaited = {} /\ verdicts = {}
      /\ child = "none" /\ deaths \in 0..MaxDeaths /\ answers \in Nat
  BY <1>1, MaxDeathsAssumption DEF Init
<1>3. result \in [1..Len(Suites) -> {"open", "passed", "failed", "threw"}]
  BY DEF Init, Suites
<1>4. /\ leaked \in BOOLEAN /\ late \subseteq CanBeLate
      /\ said \in BOOLEAN /\ orphan \in BOOLEAN
      /\ directory = {} /\ dispatcher = "free"
      /\ record \in [Image -> SUBSET {"success", "failed"}]
      /\ job \in [Content -> {"none", "queued", "taken", "success", "failed"}]
  BY DEF Init
<1>5. TypeOK
  BY <1>2, <1>3, <1>4 DEF TypeOK, CanBeLate
<1> QED BY <1>1, <1>5 DEF Init, IInv, SaidIsOwn, OwnServer, InOrder, GreenIsComplete

LEMMA StepKeepsIInv == IInv /\ [Next]_vars => IInv'
<1>1. ASSUME IInv, Next PROVE IInv'
  BY <1>1, SuiteStepKeeps, ServerStepKeeps, LateUploadKeeps DEF Next, LateStep
<1>2. ASSUME IInv, UNCHANGED vars PROVE IInv'
  BY <1>2 DEF vars, harness, processes, serverVars, IInv, TypeOK, SaidIsOwn, OwnServer,
              InOrder, GreenIsComplete, Suites
<1> QED BY <1>1, <1>2

\* Whatever is mended, in every invocation and however many servers die.
THEOREM Inductive == Spec => []IInv
BY InitIInv, StepKeepsIInv, PTL DEF Spec

\* Every variable keeps its type: in particular the runner never runs a suite
\* that is not there, and counts no death of a server beyond the bound.
THEOREM SuiteTypeCorrect == Spec => []TypeOK
<1>1. IInv => TypeOK
  BY DEF IInv
<1> QED BY <1>1, Inductive, PTL

\* A suite's tests never talk to the server that an earlier suite left behind:
\* that server holds the stores, so the new one has nothing to announce and
\* start() rejects.
THEOREM TestsMeetOwnServer == Spec => []OwnServer
<1>1. IInv => OwnServer
  BY DEF IInv
<1> QED BY <1>1, Inductive, PTL

\* The runner says "All tests passed!" only when every suite has returned without
\* a failed result.
THEOREM GreenMeansAllPassed == Spec => []GreenIsComplete
<1>1. IInv => GreenIsComplete
  BY DEF IInv
<1> QED BY <1>1, Inductive, PTL

=============================================================================
