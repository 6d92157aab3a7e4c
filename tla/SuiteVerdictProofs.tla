-------------------------- MODULE SuiteVerdictProofs --------------------------
(***************************************************************************)
(* What a suite that passes shows, for every invocation of the runner,     *)
(* whatever is mended, however often the loops of the tests run and        *)
(* however many servers die.                                               *)
(***************************************************************************)
EXTENDS IntegrationSuiteProofs, SequenceTheorems

-----------------------------------------------------------------------------
(* The tests as data: which cases each suite has. *)

\* Some case of s is in A; two cases of s are; three are.
Has(s, A) == \E j \in 1..Len(s) : s[j] \in A
HasTwo(s, A) == \E j, k \in 1..Len(s) : j # k /\ s[j] \in A /\ s[k] \in A
HasThree(s, A) ==
    \E i, j, k \in 1..Len(s) :
        /\ i # j /\ i # k /\ j # k
        /\ s[i] \in A /\ s[j] \in A /\ s[k] \in A

LEMMA ConcatHas ==
    ASSUME NEW s \in Seq(Case), NEW t \in Seq(Case), NEW A
    PROVE  /\ s \o t \in Seq(Case)
           /\ Has(s, A) \/ Has(t, A) => Has(s \o t, A)
           /\ HasTwo(s, A) \/ HasTwo(t, A) \/ (Has(s, A) /\ Has(t, A)) => HasTwo(s \o t, A)
           /\ HasThree(s, A) \/ (HasTwo(s, A) /\ Has(t, A)) => HasThree(s \o t, A)
<1> DEFINE m == Len(s)
           n == Len(t)
           both == s \o t
<1>1. m \in Nat /\ n \in Nat
  OBVIOUS
<1>2. /\ both \in Seq(Case) /\ Len(both) = m + n
      /\ \A i \in 1..m + n : both[i] = IF i <= m THEN s[i] ELSE t[i - m]
  BY ConcatProperties
<1>3. \A i \in 1..m : i \in 1..Len(both) /\ both[i] = s[i]
  BY <1>1, <1>2
<1>4. \A i \in 1..n : i + m \in 1..Len(both) /\ both[i + m] = t[i]
  <2> TAKE i \in 1..n
  <2>1. i + m \in 1..m + n /\ ~(i + m <= m) /\ i + m - m = i
    BY <1>1
  <2> QED BY <1>2, <2>1
<1> HIDE DEF both, m, n
<1>5. Has(s, A) \/ Has(t, A) => Has(both, A)
  BY <1>3, <1>4 DEF Has, m, n
<1>6. HasTwo(s, A) => HasTwo(both, A)
  BY <1>3 DEF HasTwo, m
<1>7. HasTwo(t, A) => HasTwo(both, A)
  <2> SUFFICES ASSUME HasTwo(t, A) PROVE HasTwo(both, A)
    OBVIOUS
  <2>1. PICK j \in 1..n, k \in 1..n : j # k /\ t[j] \in A /\ t[k] \in A
    BY DEF HasTwo, n
  <2>2. j + m # k + m
    BY <1>1, <2>1
  <2> QED BY <1>4, <2>1, <2>2 DEF HasTwo
<1>8. Has(s, A) /\ Has(t, A) => HasTwo(both, A)
  <2> SUFFICES ASSUME Has(s, A), Has(t, A) PROVE HasTwo(both, A)
    OBVIOUS
  <2>1. PICK j \in 1..m : s[j] \in A
    BY DEF Has, m
  <2>2. PICK k \in 1..n : t[k] \in A
    BY DEF Has, n
  <2>3. j # k + m
    BY <1>1, <2>1, <2>2
  <2> QED BY <1>3, <1>4, <2>1, <2>2, <2>3 DEF HasTwo
<1>9. HasThree(s, A) => HasThree(both, A)
  BY <1>3 DEF HasThree, m
<1>10. HasTwo(s, A) /\ Has(t, A) => HasThree(both, A)
  <2> SUFFICES ASSUME HasTwo(s, A), Has(t, A) PROVE HasThree(both, A)
    OBVIOUS
  <2>1. PICK i \in 1..m, j \in 1..m : i # j /\ s[i] \in A /\ s[j] \in A
    BY DEF HasTwo, m
  <2>2. PICK k \in 1..n : t[k] \in A
    BY DEF Has, n
  <2>3. i # k + m /\ j # k + m
    BY <1>1, <2>1, <2>2
  <2> QED BY <1>3, <1>4, <2>1, <2>2, <2>3 DEF HasThree
<1> QED BY <1>2, <1>5, <1>6, <1>7, <1>8, <1>9, <1>10 DEF both

\* One case, whatever it does.
LEMMA OneCase ==
    /\ \A what \in Deed, images \in (SUBSET Image) \ {{}}, relies \in SUBSET Reliance,
          on \in [Outcome -> Effect] :
           /\ One(what, images, relies, on) \in Seq(Case)
           /\ Len(One(what, images, relies, on)) = 1
    /\ \A what \in Deed, on \in [Outcome -> Effect] :
           Do(what, on) \in Seq(Case) /\ Len(Do(what, on)) = 1
    /\ \A image \in Image, relies \in SUBSET Reliance, on \in [Outcome -> Effect] :
           /\ Process(image, relies, on) \in Seq(Case)
           /\ Len(Process(image, relies, on)) = 1
<1>1. \A what \in Deed, images \in (SUBSET Image) \ {{}}, relies \in SUBSET Reliance,
         on \in [Outcome -> Effect] :
         LET c == [does |-> what, images |-> images, relies |-> relies, on |-> on] IN
             c \in Case /\ <<c>> \in Seq(Case) /\ Len(<<c>>) = 1
  BY DEF Case
<1>2. \A image \in Image : {image} \in (SUBSET Image) \ {{}}
  OBVIOUS
<1>3. "png" \in Image /\ "process" \in Deed /\ {} \in SUBSET Reliance
  BY DEF Image, Deed
<1> QED BY <1>1, <1>2, <1>3 DEF One, Do, Process

\* What the methods do with an outcome is one of the effects.
LEMMA Judgements ==
    {Strict, Lenient, ExpectFailure, Unguarded, Refused, Always, Fatal, Prepare}
        \subseteq [Outcome -> Effect]
BY DEF Strict, Lenient, ExpectFailure, Unguarded, Refused, Always, Fatal, Prepare, On,
       Outcome, Effect

\* A loop over alike cases runs at least once.
LEMMA TimesIsLoop ==
    ASSUME NEW n \in Nat \ {0}, NEW one \in Seq(Case), Len(one) = 1
    PROVE  /\ Times(n, one) \in Seq(Case)
           /\ \A A : one[1] \in A => Has(Times(n, one), A)
<1> DEFINE l == IF n <= CaseBound THEN n ELSE CaseBound
<1>1. l \in Nat \ {0} /\ one[1] \in Case
  BY CaseBoundAssumption
<1>2. Times(n, one) = [i \in 1..l |-> one[1]]
  BY DEF Times
<1> HIDE DEF l
<1>3. Times(n, one) \in Seq(Case) /\ Len(Times(n, one)) = l
  BY <1>1, <1>2
<1>4. 1 \in 1..l
  BY <1>1
<1> QED BY <1>2, <1>3, <1>4 DEF Has

\* A case that an error does not let pass: one of these, one of these that waits
\* for the verdict on that image, or one that needs the answer to its upload.
Demanding == {c \in Case : c.on["error"] \notin {"pass", "next"}}
Asks(deed) == {c \in Demanding : c.does = deed}
WaitsFor(image) == {c \in Asks("process") : c.images = {image}}
Reading == {c \in Demanding : "hash" \in c.relies /\ c.does \in {"upload", "process"}}

LEMMA OneDemands ==
    ASSUME NEW what \in Deed, NEW images \in (SUBSET Image) \ {{}},
           NEW relies \in SUBSET Reliance, NEW on \in [Outcome -> Effect],
           on["error"] \notin {"pass", "next"}
    PROVE  LET one == One(what, images, relies, on) IN
           /\ one[1] \in Asks(what) /\ Has(one, Asks(what))
           /\ what \in {"upload", "process"} /\ "hash" \in relies =>
                  one[1] \in Reading /\ Has(one, Reading)
           /\ \A image \in Image : what = "process" /\ images = {image} =>
                  one[1] \in WaitsFor(image) /\ Has(one, WaitsFor(image))
<1> DEFINE c == [does |-> what, images |-> images, relies |-> relies, on |-> on]
<1>1. c \in Case /\ c.does = what /\ c.images = images /\ c.relies = relies /\ c.on = on
  BY DEF Case
<1>2. /\ c \in Asks(what)
      /\ what \in {"upload", "process"} /\ "hash" \in relies => c \in Reading
      /\ \A image \in Image : what = "process" /\ images = {image} => c \in WaitsFor(image)
  BY <1>1 DEF Demanding, Asks, WaitsFor, Reading
<1>3. One(what, images, relies, on)[1] = c /\ Len(One(what, images, relies, on)) = 1
  BY DEF One
<1> HIDE DEF c
<1> QED BY <1>2, <1>3 DEF Has

LEMMA OneProcess ==
    ASSUME NEW image \in Image, NEW relies \in SUBSET Reliance,
           NEW on \in [Outcome -> Effect], on["error"] \notin {"pass", "next"}
    PROVE  LET one == Process(image, relies, on) IN
           /\ one[1] \in WaitsFor(image) /\ Has(one, WaitsFor(image))
           /\ "hash" \in relies => one[1] \in Reading /\ Has(one, Reading)
<1>1. {image} \in (SUBSET Image) \ {{}} /\ "process" \in Deed
  BY DEF Deed
<1> QED BY <1>1, OneDemands DEF Process

LEMMA OneDo ==
    ASSUME NEW what \in Deed, NEW on \in [Outcome -> Effect],
           on["error"] \notin {"pass", "next"}
    PROVE  Has(Do(what, on), Asks(what))
<1>1. {"png"} \in (SUBSET Image) \ {{}} /\ {} \in SUBSET Reliance
  BY DEF Image
<1> QED BY <1>1, OneDemands DEF Do

\* An error is no pass to any of these.
LEMMA ErrorsCount ==
    \A on \in {Strict, Lenient, ExpectFailure, Unguarded, Fatal, Prepare} :
        on \in [Outcome -> Effect] /\ on["error"] \notin {"pass", "next"}
BY Judgements DEF Strict, Lenient, ExpectFailure, Unguarded, Fatal, Prepare, On, Outcome

LEMMA LoopOfProcess ==
    ASSUME NEW n \in Nat \ {0}, NEW image \in Image, NEW relies \in SUBSET Reliance,
           NEW on \in {Strict, Lenient, ExpectFailure, Unguarded}
    PROVE  LET loop == Times(n, Process(image, relies, on)) IN
           /\ loop \in Seq(Case) /\ Has(loop, WaitsFor(image))
           /\ "hash" \in relies => Has(loop, Reading)
<1>1. on \in [Outcome -> Effect] /\ on["error"] \notin {"pass", "next"}
  BY ErrorsCount
<1>2. Process(image, relies, on) \in Seq(Case) /\ Len(Process(image, relies, on)) = 1
  BY <1>1, OneCase
<1>3. /\ Process(image, relies, on)[1] \in WaitsFor(image)
      /\ "hash" \in relies => Process(image, relies, on)[1] \in Reading
  BY <1>1, OneProcess
<1> QED BY <1>2, <1>3, TimesIsLoop

\* A suite has a first case.
LEMMA NotEmpty == \A s, A : Has(s, A) /\ s \in Seq(Case) => Len(s) \in Nat \ {0}
BY DEF Has

\* The basic suite uploads three times and needs one answer, and it asks for a status
\* and a cancel.
LEMMA BasicHas ==
    /\ BasicTests \in Seq(Case)
    /\ HasThree(BasicTests, Asks("upload"))
    /\ Has(BasicTests, Reading)
    /\ Has(BasicTests, Asks("status"))
    /\ Has(BasicTests, Asks("cancel"))
<1> DEFINE Uploads == Asks("upload")
           a == testHealthEndpoint
           b == a \o testVersionEndpoint
           c == b \o testJWT
           d == c \o testImageUpload
           x == testSuccessEndpoint \o testFailureEndpoint
           y == Do("listen", Prepare) \o Do("upload", Prepare)
           e == d \o testStatusEndpoints
           f == e \o testCallbackFunctionality
           g == f \o testJobCancellation
           h == g \o testInvalidRequests
<1>1. \A what \in Deed : Do(what, Fatal) \in Seq(Case) /\ Do(what, Prepare) \in Seq(Case)
  BY OneCase, ErrorsCount
<1>2. \A what \in Deed : /\ Has(Do(what, Fatal), Asks(what))
                        /\ Has(Do(what, Prepare), Asks(what))
  BY OneDo, ErrorsCount
<1>3. /\ {testHealthEndpoint, testVersionEndpoint, testJWT, testSuccessEndpoint,
          testFailureEndpoint, testStatusEndpoint, testInvalidRequests} \subseteq Seq(Case)
      /\ Has(testStatusEndpoint, Asks("status"))
  BY <1>1, <1>2 DEF testHealthEndpoint, testVersionEndpoint, testJWT, testSuccessEndpoint,
     testFailureEndpoint, testStatusEndpoint, testInvalidRequests, Deed
<1>4. /\ testImageUpload \in Seq(Case) /\ Has(testImageUpload, Uploads)
      /\ Has(testImageUpload, Reading)
  <2>1. /\ "upload" \in Deed /\ {"png"} \in (SUBSET Image) \ {{}}
        /\ {"hash"} \in SUBSET Reliance
    BY DEF Deed, Image, Reliance
  <2> QED BY <2>1, OneCase, OneDemands, ErrorsCount DEF testImageUpload
<1>5. testCallbackFunctionality \in Seq(Case) /\ Has(testCallbackFunctionality, Uploads)
  <2>1. y \in Seq(Case) /\ Has(y, Uploads)
    BY <1>1, <1>2, ConcatHas DEF Deed
  <2> QED BY <2>1, <1>1, ConcatHas DEF testCallbackFunctionality, Deed
<1>6. /\ testJobCancellation \in Seq(Case) /\ Has(testJobCancellation, Uploads)
      /\ Has(testJobCancellation, Asks("cancel"))
  BY <1>1, <1>2, ConcatHas DEF testJobCancellation, Deed
<1>7. testStatusEndpoints \in Seq(Case) /\ Has(testStatusEndpoints, Asks("status"))
  <2>1. x \in Seq(Case)
    BY <1>3, ConcatHas
  <2> QED BY <2>1, <1>3, ConcatHas DEF testStatusEndpoints
<1>8. c \in Seq(Case)
  <2>1. b \in Seq(Case)
    BY <1>3, ConcatHas
  <2> QED BY <2>1, <1>3, ConcatHas
<1>9. d \in Seq(Case) /\ Has(d, Uploads) /\ Has(d, Reading)
  BY <1>4, <1>8, ConcatHas
<1>10. e \in Seq(Case) /\ Has(e, Uploads) /\ Has(e, Reading) /\ Has(e, Asks("status"))
  BY <1>7, <1>9, ConcatHas
<1>11. f \in Seq(Case) /\ HasTwo(f, Uploads) /\ Has(f, Reading) /\ Has(f, Asks("status"))
  BY <1>5, <1>10, ConcatHas
<1>12. /\ g \in Seq(Case) /\ HasThree(g, Uploads) /\ Has(g, Reading)
       /\ Has(g, Asks("status")) /\ Has(g, Asks("cancel"))
  BY <1>6, <1>11, ConcatHas
<1>13. /\ h \in Seq(Case) /\ HasThree(h, Uploads) /\ Has(h, Reading)
       /\ Has(h, Asks("status")) /\ Has(h, Asks("cancel"))
  BY <1>3, <1>12, ConcatHas
<1> QED BY <1>13 DEF BasicTests

\* The loops of the codec and backend tests wait for fresh bytes.
LEMMA FreshLoops ==
    \A n \in Nat \ {0}, on \in {Strict, Lenient, ExpectFailure, Unguarded},
       relies \in {{}, {"net"}, {"net", "hash"}} :
        LET loop == Times(n, Process("fresh", relies, on)) IN
        /\ loop \in Seq(Case) /\ Has(loop, WaitsFor("fresh"))
        /\ "hash" \in relies => Has(loop, Reading)
BY LoopOfProcess DEF Image, Reliance

\* The codec suite waits for fresh bytes twice, and needs an answer.
LEMMA CodecHas ==
    /\ CodecTests \in Seq(Case)
    /\ HasTwo(CodecTests, WaitsFor("fresh"))
    /\ Has(CodecTests, Reading)
<1> DEFINE b == testJPGFormats \o testPNGFormats
           c == b \o testWebPFormats
           d == c \o testAVIFFormats
           e == d \o testMultiFormatJobs
           f == e \o testFormatEdgeCases
           g == f \o testQualitySettings
           h == g \o testSizeVariations
           Good(s) == s \in Seq(Case) /\ HasTwo(s, WaitsFor("fresh"))
<1>1. Do("local", Always) \in Seq(Case)
  BY OneCase, Judgements DEF Deed
<1>2. /\ {testJPGFormats, testPNGFormats, testWebPFormats, testAVIFFormats,
          testMultiFormatJobs} \subseteq Seq(Case)
      /\ Has(testJPGFormats, WaitsFor("fresh")) /\ Has(testPNGFormats, WaitsFor("fresh"))
      /\ Has(testMultiFormatJobs, Reading)
  BY FreshLoops DEF testJPGFormats, testPNGFormats, testWebPFormats, testAVIFFormats,
     testMultiFormatJobs
<1>3. testQualitySettings \in Seq(Case) /\ testSizeVariations \in Seq(Case)
  BY <1>1, FreshLoops, ConcatHas DEF testQualitySettings, testSizeVariations
<1>4. testFormatEdgeCases \in Seq(Case)
  <2>1. Process("fresh", {"net", "hash"}, Strict) \in Seq(Case)
    BY OneCase, ErrorsCount DEF Image, Reliance
  <2> QED BY <2>1, FreshLoops, ConcatHas DEF testFormatEdgeCases
<1>5. Good(b)
  BY <1>2, ConcatHas
<1>6. Good(c)
  BY <1>2, <1>5, ConcatHas
<1>7. Good(d)
  BY <1>2, <1>6, ConcatHas
<1>8. Good(e) /\ Has(e, Reading)
  BY <1>2, <1>7, ConcatHas
<1>9. Good(f) /\ Has(f, Reading)
  BY <1>4, <1>8, ConcatHas
<1>10. Good(g) /\ Has(g, Reading)
  BY <1>3, <1>9, ConcatHas
<1>11. Good(h) /\ Has(h, Reading)
  BY <1>3, <1>10, ConcatHas
<1> QED BY <1>11 DEF CodecTests

\* So does the backend suite.
LEMMA BackendHas ==
    /\ BackendTests \in Seq(Case)
    /\ HasTwo(BackendTests, WaitsFor("fresh"))
    /\ Has(BackendTests, Reading)
<1> DEFINE b == testDirectHostBackend \o testS3Backend
           c == b \o testGCSBackend
           d == c \o testSFTPBackend
           e == d \o testMultipleBackends
           f == e \o testBackendErrors
           g == f \o testBackendPriorities
           Good(s) == s \in Seq(Case) /\ HasTwo(s, WaitsFor("fresh"))
<1>1. /\ {testDirectHostBackend, testS3Backend, testGCSBackend, testSFTPBackend,
          testMultipleBackends, testBackendPriorities} \subseteq Seq(Case)
      /\ Has(testDirectHostBackend, WaitsFor("fresh")) /\ Has(testS3Backend, WaitsFor("fresh"))
      /\ Has(testMultipleBackends, Reading)
  BY FreshLoops DEF testDirectHostBackend, testS3Backend, testGCSBackend, testSFTPBackend,
     testMultipleBackends, testBackendPriorities
<1>2. testBackendErrors \in Seq(Case)
  BY LoopOfProcess DEF testBackendErrors, Image
<1>3. Good(b)
  BY <1>1, ConcatHas
<1>4. Good(c)
  BY <1>1, <1>3, ConcatHas
<1>5. Good(d)
  BY <1>1, <1>4, ConcatHas
<1>6. Good(e) /\ Has(e, Reading)
  BY <1>1, <1>5, ConcatHas
<1>7. Good(f) /\ Has(f, Reading)
  BY <1>2, <1>6, ConcatHas
<1>8. Good(g) /\ Has(g, Reading)
  BY <1>1, <1>7, ConcatHas
<1> QED BY <1>8 DEF BackendTests

\* So does the edge suite, and it waits for the verdict on an empty file twice.
LEMMA EdgeHas ==
    /\ EdgeTests \in Seq(Case)
    /\ Has(EdgeTests, Reading)
    /\ HasTwo(EdgeTests, WaitsFor("fresh"))
    /\ HasTwo(EdgeTests, WaitsFor("empty"))
<1> DEFINE Fresh == WaitsFor("fresh")
           Empty == WaitsFor("empty")
           b == testLargeFiles \o testInvalidFormats
           c == b \o testNetworkErrors
           d == c \o testConcurrentRequests
           e == d \o testInvalidJWT
           f == e \o testMalformedRequests
           g == f \o testRateLimiting
           h == g \o testCorruptedFiles
           k == h \o testMemoryLimits
           Good(s) == /\ s \in Seq(Case) /\ Has(s, Reading)
                      /\ HasTwo(s, Fresh) /\ Has(s, Empty)
<1>1. /\ testLargeFiles \in Seq(Case) /\ Has(testLargeFiles, Fresh)
      /\ Has(testLargeFiles, Reading)
  BY FreshLoops DEF testLargeFiles
<1>2. /\ Process("fresh", {}, ExpectFailure) \in Seq(Case)
      /\ Has(Process("fresh", {}, ExpectFailure), Fresh)
      /\ Process("empty", {}, ExpectFailure) \in Seq(Case)
      /\ Has(Process("empty", {}, ExpectFailure), Empty)
  BY OneCase, OneProcess, ErrorsCount DEF Image
<1>3. /\ testInvalidFormats \in Seq(Case)
      /\ Has(testInvalidFormats, Fresh) /\ Has(testInvalidFormats, Empty)
  <2> DEFINE x == Process("fresh", {}, ExpectFailure) \o Process("empty", {}, ExpectFailure)
  <2>1. x \in Seq(Case) /\ Has(x, Fresh) /\ Has(x, Empty)
    BY <1>2, ConcatHas
  <2>2. Times(3, Process("fresh", {}, ExpectFailure)) \in Seq(Case)
    BY FreshLoops
  <2> QED BY <2>1, <2>2, ConcatHas DEF testInvalidFormats
<1>4. /\ Do("refuse", Refused) \in Seq(Case) /\ Len(Do("refuse", Refused)) = 1
      /\ Do("expired", Refused) \in Seq(Case)
      /\ Process("png", {}, Always) \in Seq(Case)
  BY OneCase, Judgements DEF Deed, Image
<1>5. testNetworkErrors \in Seq(Case) /\ testRateLimiting \in Seq(Case)
  BY <1>4 DEF testNetworkErrors, testRateLimiting
<1>6. testConcurrentRequests \in Seq(Case)
  <2> DEFINE one == One("parallel", {"fresh", "more"}, {"net"}, Strict)
  <2>1. one \in Seq(Case) /\ Len(one) = 1
    BY OneCase, Judgements DEF Deed, Image, Reliance
  <2>2. testConcurrentRequests = Times(3, one)
    BY DEF testConcurrentRequests
  <2> HIDE DEF one
  <2> QED BY <2>1, <2>2, TimesIsLoop
<1>7. /\ Times(2, Do("refuse", Refused)) \in Seq(Case)
      /\ Times(4, Do("refuse", Refused)) \in Seq(Case)
  BY <1>4, TimesIsLoop
<1>8. testInvalidJWT \in Seq(Case) /\ testMalformedRequests \in Seq(Case)
  BY <1>4, <1>7, ConcatHas DEF testInvalidJWT, testMalformedRequests
<1>9. testCorruptedFiles \in Seq(Case) /\ Has(testCorruptedFiles, Empty)
  <2>1. Times(2, Process("fresh", {}, ExpectFailure)) \in Seq(Case)
    BY FreshLoops
  <2> QED BY <1>2, <2>1, ConcatHas DEF testCorruptedFiles
<1>10. testMemoryLimits \in Seq(Case)
  <2> DEFINE one == One("process", {"fresh", "png"}, {"net"}, Lenient)
  <2>1. one \in Seq(Case) /\ Len(one) = 1
    BY OneCase, Judgements DEF Deed, Image, Reliance
  <2>2. testMemoryLimits = Times(3, one)
    BY DEF testMemoryLimits
  <2> HIDE DEF one
  <2> QED BY <2>1, <2>2, TimesIsLoop
<1>11. Good(b)
  BY <1>1, <1>3, ConcatHas
<1>12. Good(c)
  BY <1>5, <1>11, ConcatHas
<1>13. Good(d)
  BY <1>6, <1>12, ConcatHas
<1>14. Good(e)
  BY <1>8, <1>13, ConcatHas
<1>15. Good(f)
  BY <1>8, <1>14, ConcatHas
<1>16. Good(g)
  BY <1>5, <1>15, ConcatHas
<1>17. Good(h) /\ HasTwo(h, Empty)
  BY <1>9, <1>16, ConcatHas
<1>18. Good(k) /\ HasTwo(k, Empty)
  BY <1>10, <1>17, ConcatHas
<1> QED BY <1>18 DEF EdgeTests

\* What the suites are as sequences of cases.
LEMMA SuiteTests ==
    ASSUME NEW name \in Suite
    PROVE  /\ Tests(name) \in Seq(Case) /\ Len(Tests(name)) \in Nat \ {0}
           /\ Has(Tests(name), Reading)
           /\ name = "basic" => /\ HasThree(Tests(name), Asks("upload"))
                                /\ Has(Tests(name), Asks("status"))
                                /\ Has(Tests(name), Asks("cancel"))
           /\ name # "basic" => HasTwo(Tests(name), WaitsFor("fresh"))
           /\ name = "edge" => HasTwo(Tests(name), WaitsFor("empty"))
<1>1. \A A : \A s \in Seq(Case) : HasTwo(s, A) => Has(s, A)
  BY DEF HasTwo, Has
<1>2. CASE name = "basic"
  BY <1>2, BasicHas, NotEmpty DEF Tests
<1>3. CASE name = "codec"
  BY <1>1, <1>3, CodecHas, NotEmpty DEF Tests
<1>4. CASE name = "backend"
  BY <1>1, <1>4, BackendHas, NotEmpty DEF Tests
<1>5. CASE name = "edge"
  BY <1>1, <1>5, EdgeHas, NotEmpty DEF Tests
<1> QED BY <1>2, <1>3, <1>4, <1>5 DEF Suite

-----------------------------------------------------------------------------
(* The invariant: the server and the case that is under way. *)

\* The bytes that no other test has.
New == {"fresh", "more"}
Clean == \A i \in New : i \notin directory /\ record[i] = {} /\ job[i] = "none"
Untouched == \A i \in New : record[i] = {} /\ job[i] \in {"none", "queued"}

\* A suite starts with no server, has one while it starts it and one that has said
\* so; nobody has two servers, and without a server there are no jobs.
OwnChild ==
    /\ at = "build" => child = "none"
    /\ child = "starting" => at = "start"
    /\ said => child \in {"up", "dead"}
    /\ child = "up" => ~orphan
    /\ ~Serving => \A c \in Content : job[c] = "none"

\* A case waits for its own images; before its first upload the new bytes are new.
InCase ==
    /\ at \notin {"test", "stalled", "aborted", "wait"} => awaited = {}
    /\ at \in {"test", "wait"} => test <= Len(CurrentTests) /\ awaited \subseteq TheCase.images
    /\ at = "test" /\ awaited # {} => TheCase.does = "parallel"
    /\ at = "wait" => TheCase.does \in {"process", "parallel"}
    /\ at # "wait" /\ awaited = {} => Clean

\* start() has resolved only if the server prints the line.
Announced == said \/ at \in {"health", "test", "wait", "stop"} => Mended("announces")

\* Only a token that the server takes gets a job to wait for, and only an answer
\* that can be read gets its hash.
TokenTaken == awaited # {} => Mended("token") /\ ReadsAnswer

\* The job of an empty file leaves its directory.
EmptyStays ==
    /\ job["empty"] # "success"
    /\ ~Mended("forgets") /\ "empty" \in awaited => "empty" \in directory

\* The first batch is the only one: before it nobody is answered, and after the one
\* answer there is no job left in it whose verdict a test waits for.
OneBatch ==
    ~Mended("returns") =>
        /\ dispatcher = "free" /\ Serving => answers = 0 /\ Untouched
        /\ answers <= 1
        /\ answers = 1 => Untouched

\* Before that batch no job of the PNG is under way or done.
PngUntaken ==
    ~Mended("returns") /\ dispatcher = "free" => job["png"] \in {"none", "queued"}

SInv ==
    OwnChild /\ InCase /\ Announced /\ TokenTaken /\ EmptyStays /\ OneBatch /\ PngUntaken

-----------------------------------------------------------------------------
(* The steps, as far as the invariant tells them apart. *)

LEMMA CurrentSuite ==
    ASSUME IInv, at \notin {"report", "done"}
    PROVE  /\ Len(Suites) \in Nat /\ suite \in 1..Len(Suites) /\ Suites[suite] \in Suite
           /\ CurrentTests \in Seq(Case) /\ Len(CurrentTests) \in Nat \ {0}
<1>1. setup \in Setups /\ Len(Suites) \in Nat /\ suite \in 1..Len(Suites)
  BY SuitesTyped DEF IInv, TypeOK, InOrder
<1>2. Suites \in Seq(Suite)
  BY <1>1, SetupsAssumption DEF Suites
<1>3. Suites[suite] \in Suite
  BY <1>1, <1>2
<1> QED BY <1>1, <1>3, SuiteTests DEF CurrentTests

\* The server after a case that waited for nothing, or for images that are done;
\* the last answer may be one for new bytes.
Cleared == CaseIsOver /\ UNCHANGED answers
AnsweredLast(i) ==
    /\ at = "wait" /\ awaited = {i} /\ Serving /\ record[i] # {}
    /\ CaseIsOver
    /\ answers' = answers + (IF i \in New THEN 1 ELSE 0)
QueuedOnly ==
    /\ at = "test" /\ TheCase.does \in {"upload", "expired"}
    /\ TakesUpload("png") /\ Queue("png")
    /\ UNCHANGED answers

\* What it takes to end without an error.
Earned(outcome) ==
    outcome # "error" =>
        /\ TheCase.does \in {"status", "cancel"} => Mended(TheCase.does)
        /\ TheCase.does = "upload" => QueuedOnly /\ ReadsAnswer
        /\ TheCase.does = "process" => \E i \in Image : AnsweredLast(i)

Ends(outcome) ==
    /\ at \in {"test", "wait"}
    /\ outcome \in Outcome
    /\ Concludes(outcome)
    /\ Earned(outcome)
    /\ Cleared \/ QueuedOnly \/ \E i \in Image : AnsweredLast(i)

\* The steps of a case that goes on.
GoesOn(i) ==
    /\ at = "wait" /\ i \in awaited /\ awaited' = awaited \ {i}
    /\ UNCHANGED <<setup, process, suite, at, test, result, processes, serverVars, answers>>

LEMMA StepIsOneOf ==
    ASSUME SInv, SuiteStep
    PROVE  \/ Build \/ StartResolves \/ StartTimesOut \/ WaitForReady \/ Stop
           \/ \E outcome : Ends(outcome)
           \/ \E i \in Image : Upload(i) \/ GoesOn(i)
           \/ DownloadHangs \/ OutputResults \/ Drains
<1> USE DEF NextCase, Ends, Earned, Cleared, Outcome
<1>1. CASE Request
  <2> DEFINE outcome == IF Accepted(TheCase.does) THEN "success" ELSE "error"
  <2>1. /\ NextCase(outcome) /\ at = "test" /\ UNCHANGED answers
        /\ TheCase.does \notin {"upload", "process"}
    BY <1>1 DEF Request
  <2>2. outcome # "error" => Accepted(TheCase.does)
    OBVIOUS
  <2>3. Accepted("status") => Mended("status")
    BY DEF Accepted
  <2>4. Accepted("cancel") => Mended("cancel")
    BY DEF Accepted
  <2>5. Earned(outcome)
    BY <2>1, <2>2, <2>3, <2>4
  <2>6. outcome \in Outcome
    OBVIOUS
  <2> HIDE DEF outcome
  <2>7. Ends(outcome)
    BY <2>1, <2>5, <2>6
  <2> QED BY <2>7
<1>2. CASE UploadFails
  BY <1>2 DEF UploadFails
<1>3. CASE Listen
  BY <1>3 DEF Listen
<1>4. CASE WaitFails
  BY <1>4 DEF WaitFails
<1>5. CASE UploadOnly
  BY <1>5 DEF UploadOnly, QueuedOnly, TakesUpload
<1>6. ASSUME NEW i \in Image, Answered(i)
      PROVE  (\E outcome : Ends(outcome)) \/ GoesOn(i)
  <2>1. CASE awaited = {i}
    <3>1. PICK outcome \in {"success", "failed"} : NextCase(outcome)
      BY <1>6, <2>1 DEF Answered
    <3>2. AnsweredLast(i)
      BY <1>6, <2>1 DEF Answered, AnsweredLast, New
    <3>3. TheCase.does \in {"process", "parallel"}
      BY <3>2 DEF AnsweredLast, SInv, InCase
    <3>4. Earned(outcome)
      BY <3>2, <3>3
    <3>5. at = "wait" /\ outcome \in Outcome /\ Concludes(outcome)
      BY <3>1, <3>2 DEF AnsweredLast
    <3> QED BY <3>2, <3>4, <3>5
  <2>2. CASE awaited # {i}
    BY <1>6, <2>2 DEF Answered, GoesOn
  <2> QED BY <2>1, <2>2
<1> QED BY <1>1, <1>2, <1>3, <1>4, <1>5, <1>6 DEF SuiteStep

\* What the server's own steps leave alone.
ServerSide == ServerStep \/ ServerDies \/ LateStep

LEMMA ServerSideFrame ==
    ASSUME ServerSide
    PROVE  UNCHANGED <<setup, process, suite, at, test, awaited, verdicts, result, leaked>>
BY DEF ServerSide, ServerStep, ServerStarts, TakeBatch, JobRecords, JobRemovesDirectory,
   OldJobsDone, ServerDies, LateStep, LateUpload, harness

\* An upload that comes late adds a directory, and a job if there was none.
LEMMA LateStepAdds ==
    ASSUME TypeOK, LateStep
    PROVE  \E c \in {"png", "empty", "old"} :
               /\ directory' = directory \cup {c}
               /\ \A i \in Content \ {c} : job'[i] = job[i]
               /\ c # "old" => job'[c] = IF c \in directory THEN job[c] ELSE "queued"
               /\ Serving /\ Mended("token")
               /\ UNCHANGED <<processes, record, dispatcher, answers>>
<1>1. PICK c \in late : LateUpload(c)
  BY DEF LateStep
<1>2. c \in {"png", "empty", "old"} /\ c \in Content
  BY <1>1 DEF TypeOK, Content, Image
<1>3. \E v : job' = [job EXCEPT ![c] = v]
  BY <1>1 DEF LateUpload
<1>4. c # "old" => job'[c] = IF c \in directory THEN job[c] ELSE "queued"
  BY <1>1, <1>2 DEF LateUpload, TypeOK
<1>5. \A i \in Content \ {c} : job'[i] = job[i]
  BY <1>3 DEF TypeOK
<1> QED BY <1>1, <1>2, <1>4, <1>5 DEF LateUpload

\* The end of a case moves to the next one, to the cleanup or out of the suite, and
\* whoever serves goes on serving.
LEMMA EndsMoves ==
    ASSUME IInv, InCase, NEW outcome, Ends(outcome)
    PROVE  /\ awaited' = {} /\ setup' = setup /\ process' = process
           /\ Serving' <=> Serving
           /\ \/ /\ child' = "none" /\ said' = FALSE /\ at' \in {"build", "report"}
                 /\ TheCase.on[outcome] \in {"raise", "throw"}
                 /\ result' = [result EXCEPT ![suite] = "threw"]
                 /\ orphan' = (orphan \/ child = "up")
              \/ /\ UNCHANGED <<suite, child, said, orphan>>
                 /\ \/ at' = "test" /\ test < Len(CurrentTests) /\ test' = test + 1
                    \/ at' = "stop" /\ test = Len(CurrentTests)
                 /\ TheCase.on[outcome] \notin {"raise", "throw"}
                 /\ result' = [result EXCEPT ![suite] =
                                   IF TheCase.on[outcome] = "fail" THEN "failed" ELSE @]
<1>1. Len(CurrentTests) \in Nat /\ test \in Nat /\ test <= Len(CurrentTests)
  BY CurrentSuite DEF Ends, InCase, IInv, TypeOK
<1>2. Concludes(outcome)
  BY DEF Ends
<1>3. awaited' = {} /\ setup' = setup /\ process' = process
  BY <1>2 DEF Concludes
<1>4. CASE TheCase.on[outcome] \in {"raise", "throw"}
  BY <1>2, <1>3, <1>4 DEF Concludes, Throws, AfterSuite, Serving
<1>5. CASE TheCase.on[outcome] \notin {"raise", "throw"}
  BY <1>1, <1>2, <1>3, <1>5 DEF Concludes, Serving
<1> QED BY <1>4, <1>5

\* The new bytes are forgotten, the rest is as it was.
LEMMA CaseIsOverClears ==
    ASSUME TypeOK, CaseIsOver
    PROVE  /\ Clean' /\ dispatcher' = dispatcher
           /\ \A i \in Image \ New :
                  job'[i] = job[i] /\ (i \in directory => i \in directory')
           /\ (\A c \in Content : job[c] = "none") => \A c \in Content : job'[c] = "none"
<1> DEFINE left == {"fresh", "more"} \cap directory
           jobs == {job[c] : c \in left \cup {"old"}}
<1>1. /\ directory' = (directory \ left) \cup (IF left = {} THEN {} ELSE {"old"})
      /\ record' = [record EXCEPT !["fresh"] = {}, !["more"] = {}]
      /\ job' = [job EXCEPT !["fresh"] = "none", !["more"] = "none", !["old"] = Leftover(jobs)]
      /\ dispatcher' = dispatcher
  BY DEF CaseIsOver
<1>2. Clean'
  BY <1>1 DEF Clean, New, TypeOK, Image, Content
<1>3. \A i \in Image \ New : job'[i] = job[i] /\ (i \in directory => i \in directory')
  BY <1>1 DEF New, TypeOK, Image, Content
<1>4. ASSUME \A c \in Content : job[c] = "none"
      PROVE  \A c \in Content : job'[c] = "none"
  <2>1. left \cup {"old"} \subseteq Content
    BY DEF Content, Image
  <2>2. jobs = {"none"}
    BY <1>4, <2>1
  <2>3. Leftover(jobs) = "none"
    BY <2>2 DEF Leftover
  <2> HIDE DEF jobs
  <2> QED BY <1>1, <1>4, <2>3 DEF TypeOK
<1> QED BY <1>1, <1>2, <1>3, <1>4

-----------------------------------------------------------------------------
(* Each part of the invariant is kept. *)

LEMMA OwnChildStep == IInv /\ SInv /\ [Next]_vars => OwnChild'
<1> SUFFICES ASSUME IInv, SInv, [Next]_vars PROVE OwnChild'
  OBVIOUS
<1> USE DEF SInv, OwnChild, Serving, IInv, TypeOK
<1>1. CASE Build
  BY <1>1 DEF Build, Throws, AfterSuite, serverVars
<1>2. CASE StartResolves \/ DownloadHangs \/ OutputResults \/ Drains \/ UNCHANGED vars
  BY <1>2 DEF StartResolves, DownloadHangs, OutputResults, Drains, HasAnnounced, harness,
     processes, serverVars, vars
<1>3. CASE StartTimesOut
  BY <1>3 DEF StartTimesOut, Throws, AfterSuite, TimerFires, serverVars
<1>4. CASE WaitForReady
  BY <1>4 DEF WaitForReady, Throws, AfterSuite, serverVars
<1>5. CASE Stop
  BY <1>5 DEF Stop, Returns, AfterSuite, Forget
<1>6. ASSUME NEW outcome, Ends(outcome) PROVE OwnChild'
  <2>1. at \in {"test", "wait"} /\ child # "starting"
    BY <1>6 DEF Ends
  <2>2. ~Serving => \A c \in Content : job'[c] = "none"
    BY <1>6, CaseIsOverClears DEF Ends, Cleared, AnsweredLast, QueuedOnly, TakesUpload
  <2>3. /\ Serving' <=> Serving
        /\ \/ child' = "none" /\ said' = FALSE
           \/ UNCHANGED <<child, said, orphan>> /\ at' \in {"test", "stop"}
    BY <1>6, EndsMoves
  <2> QED BY <2>1, <2>2, <2>3
<1>7. ASSUME NEW i \in Image, Upload(i) \/ GoesOn(i) PROVE OwnChild'
  BY <1>7 DEF Upload, TakesUpload, Queue, GoesOn, processes, serverVars
<1>8. CASE ServerStarts
  BY <1>8 DEF ServerStarts, harness, serverVars
<1>9. CASE ServerDies
  BY <1>9 DEF ServerDies, Forget, harness
<1>10. CASE LateStep
  BY <1>10, LateStepAdds, ServerSideFrame DEF ServerSide, processes
<1>11. CASE \/ TakeBatch \/ OldJobsDone
            \/ \E i \in Image, v \in {"success", "failed"} : JobRecords(i, v)
            \/ \E i \in Image : JobRemovesDirectory(i)
  BY <1>11 DEF TakeBatch, OldJobsDone, JobRecords, JobRemovesDirectory,
     RemovesDirectory, Content, harness, processes
<1> QED
  BY <1>1, <1>2, <1>3, <1>4, <1>5, <1>6, <1>7, <1>8, <1>9, <1>10, <1>11, StepIsOneOf
  DEF Next, ServerStep

LEMMA InCaseStep == IInv /\ SInv /\ [Next]_vars => InCase'
<1> SUFFICES ASSUME IInv, SInv, [Next]_vars PROVE InCase'
  OBVIOUS
<1> USE DEF SInv, InCase, IInv, TypeOK
<1>1. CASE Build \/ StartResolves \/ StartTimesOut \/ Stop \/ OutputResults
  BY <1>1 DEF Build, StartResolves, StartTimesOut, Stop, OutputResults, Throws, Returns,
     AfterSuite, Forget, Clean, New, Content, Image, processes, serverVars
<1>2. CASE WaitForReady
  <2>1. Len(CurrentTests) \in Nat \ {0}
    BY <1>2, CurrentSuite DEF WaitForReady
  <2>2. UNCHANGED <<setup, awaited, serverVars>> /\ awaited = {} /\ Clean /\ at' # "wait"
    BY <1>2 DEF WaitForReady, Throws, AfterSuite
  <2>3. Clean'
    BY <2>2 DEF Clean, serverVars
  <2>4. CASE Serving
    <3>1. test' = 1 /\ CurrentTests' = CurrentTests
      BY <1>2, <2>2, <2>4 DEF WaitForReady, CurrentTests, Suites
    <3> QED BY <2>1, <2>2, <2>3, <3>1
  <2>5. CASE ~Serving
    BY <1>2, <2>2, <2>3, <2>5 DEF WaitForReady, Throws, AfterSuite
  <2> QED BY <2>4, <2>5
<1>3. ASSUME NEW outcome, Ends(outcome) PROVE InCase'
  <2>1. Clean'
    <3>1. CASE QueuedOnly
      BY <3>1 DEF QueuedOnly, Queue, Clean, New, Content, Image
    <3> QED BY <1>3, <3>1, CaseIsOverClears DEF Ends, Cleared, AnsweredLast
  <2>2. /\ awaited' = {} /\ setup' = setup
        /\ \/ at' \in {"build", "report", "stop"}
           \/ at' = "test" /\ suite' = suite /\ test < Len(CurrentTests) /\ test' = test + 1
    BY <1>3, EndsMoves
  <2>3. Len(CurrentTests) \in Nat
    BY <1>3, CurrentSuite DEF Ends
  <2> QED BY <2>1, <2>2, <2>3 DEF CurrentTests, Suites
<1>4. ASSUME NEW i \in Image, Upload(i) PROVE InCase'
  <2>1. /\ UNCHANGED <<setup, suite, test>> /\ at = "test" /\ i \in TheCase.images
        /\ TheCase.does \in {"process", "parallel"} /\ awaited' = awaited \cup {i}
        /\ at' \in {"test", "wait"} /\ (at' = "test" => TheCase.does = "parallel")
    BY <1>4 DEF Upload
  <2>2. CurrentTests' = CurrentTests /\ TheCase' = TheCase
    BY <2>1 DEF CurrentTests, TheCase, Suites
  <2> QED BY <2>1, <2>2
<1>5. ASSUME NEW i \in Image, GoesOn(i) PROVE InCase'
  <2>1. CurrentTests' = CurrentTests /\ TheCase' = TheCase
    BY <1>5 DEF GoesOn, CurrentTests, TheCase, Suites
  <2> QED BY <1>5, <2>1 DEF GoesOn
<1>6. CASE DownloadHangs \/ Drains \/ UNCHANGED vars
  BY <1>6 DEF DownloadHangs, Drains, vars, Clean, CurrentTests, TheCase, Suites, harness,
     processes, serverVars
<1>7. CASE ServerSide
  <2>1. UNCHANGED <<setup, suite, at, test, awaited>>
    BY <1>7, ServerSideFrame
  <2>2. CurrentTests' = CurrentTests /\ TheCase' = TheCase
    BY <2>1 DEF CurrentTests, TheCase, Suites
  <2>3. Clean => Clean'
    <3>1. CASE ServerStarts
      BY <3>1 DEF ServerStarts, Clean, New, Content, Image, serverVars
    <3>2. CASE ServerDies
      BY <3>2 DEF ServerDies, Forget, Clean, New, Content, Image
    <3>3. CASE TakeBatch \/ OldJobsDone
      BY <3>3 DEF TakeBatch, OldJobsDone, Clean, New, Content, Image
    <3>4. CASE LateStep
      BY <3>4, LateStepAdds DEF Clean, New, Content, Image
    <3>5. CASE \/ \E i \in Image, v \in {"success", "failed"} : JobRecords(i, v)
               \/ \E i \in Image : JobRemovesDirectory(i)
      BY <3>5 DEF JobRecords, JobRemovesDirectory, RemovesDirectory, Clean, New, Content, Image
    <3> QED BY <1>7, <3>1, <3>2, <3>3, <3>4, <3>5 DEF ServerSide, ServerStep
  <2> QED BY <2>1, <2>2, <2>3
<1> QED BY <1>1, <1>2, <1>3, <1>4, <1>5, <1>6, <1>7, StepIsOneOf DEF Next, ServerSide

LEMMA AnnouncedStep == IInv /\ SInv /\ [Next]_vars => Announced'
<1> SUFFICES ASSUME IInv, SInv, [Next]_vars PROVE Announced'
  OBVIOUS
<1> USE DEF SInv, Announced, Mended
<1>1. CASE Build \/ StartResolves \/ StartTimesOut \/ WaitForReady \/ Stop \/ OutputResults
  BY <1>1 DEF Build, StartResolves, StartTimesOut, WaitForReady, Stop, OutputResults, Throws,
     Returns, AfterSuite, HasAnnounced, processes
<1>2. ASSUME NEW outcome, Ends(outcome) PROVE Announced'
  BY <1>2, EndsMoves DEF Ends
<1>3. ASSUME NEW i \in Image, Upload(i) \/ GoesOn(i) PROVE Announced'
  BY <1>3 DEF Upload, GoesOn, processes
<1>4. CASE DownloadHangs \/ Drains \/ UNCHANGED vars
  BY <1>4 DEF DownloadHangs, Drains, vars, harness, processes
<1>5. CASE ServerStarts
  BY <1>5 DEF ServerStarts, harness
<1>6. CASE ServerSide /\ ~ServerStarts
  <2>1. UNCHANGED <<setup, at>>
    BY <1>6, ServerSideFrame
  <2>2. said' = said
    BY <1>6 DEF ServerSide, ServerStep, TakeBatch, JobRecords, JobRemovesDirectory, OldJobsDone,
       ServerDies, LateStep, LateUpload, processes
  <2> QED BY <2>1, <2>2
<1> QED BY <1>1, <1>2, <1>3, <1>4, <1>5, <1>6, StepIsOneOf DEF Next, ServerSide

LEMMA TokenTakenStep == IInv /\ SInv /\ [Next]_vars => TokenTaken'
<1> SUFFICES ASSUME IInv, SInv, [Next]_vars PROVE TokenTaken'
  OBVIOUS
<1> USE DEF SInv, TokenTaken, Mended, ReadsAnswer
<1>1. CASE Build \/ StartResolves \/ StartTimesOut \/ WaitForReady \/ Stop \/ OutputResults
  <2>1. awaited' = {}
    BY <1>1 DEF Build, StartResolves, StartTimesOut, WaitForReady, Stop, OutputResults, InCase
  <2> QED BY <2>1
<1>2. ASSUME NEW outcome, Ends(outcome) PROVE TokenTaken'
  BY <1>2, EndsMoves
<1>3. ASSUME NEW i \in Image, Upload(i) \/ GoesOn(i) PROVE TokenTaken'
  <2>1. /\ UNCHANGED <<setup, suite, test>>
        /\ awaited' # {} => awaited # {} \/ (Mended("token") /\ ReadsAnswer)
    BY <1>3 DEF Upload, TakesUpload, GoesOn
  <2>2. TheCase' = TheCase
    BY <2>1 DEF CurrentTests, TheCase, Suites
  <2> QED BY <2>1, <2>2
<1>4. CASE DownloadHangs \/ Drains \/ UNCHANGED vars \/ ServerSide
  <2>1. UNCHANGED <<setup, suite, test, awaited>>
    BY <1>4, ServerSideFrame DEF DownloadHangs, Drains, harness, vars
  <2>2. TheCase' = TheCase
    BY <2>1 DEF CurrentTests, TheCase, Suites
  <2> QED BY <2>1, <2>2
<1> QED BY <1>1, <1>2, <1>3, <1>4, StepIsOneOf DEF Next, ServerSide

LEMMA EmptyStaysStep == IInv /\ SInv /\ [Next]_vars => EmptyStays'
<1> SUFFICES ASSUME IInv, SInv, [Next]_vars PROVE EmptyStays'
  OBVIOUS
<1> USE DEF SInv, EmptyStays, Mended, IInv, TypeOK, Content, Image
<1>1. CASE \/ Build \/ StartResolves \/ StartTimesOut \/ WaitForReady \/ Stop \/ OutputResults
           \/ DownloadHangs \/ Drains \/ UNCHANGED vars
  BY <1>1 DEF Build, StartResolves, StartTimesOut, WaitForReady, Stop, OutputResults,
     DownloadHangs, Drains, Forget, harness, serverVars, vars
<1>2. ASSUME NEW outcome, Ends(outcome) PROVE EmptyStays'
  <2>1. awaited' = {}
    BY <1>2, EndsMoves
  <2>2. job'["empty"] = job["empty"]
    <3>1. CASE QueuedOnly
      BY <3>1 DEF QueuedOnly, Queue
    <3> QED BY <1>2, <3>1, CaseIsOverClears DEF Ends, Cleared, AnsweredLast, New
  <2> QED BY <2>1, <2>2
<1>3. ASSUME NEW i \in Image, Upload(i) PROVE EmptyStays'
  BY <1>3 DEF Upload, Queue
<1>4. ASSUME NEW i \in Image, GoesOn(i) PROVE EmptyStays'
  BY <1>4 DEF GoesOn, serverVars
<1>5. CASE ServerSide
  <2>1. UNCHANGED <<setup, awaited>>
    BY <1>5, ServerSideFrame
  <2>2. CASE ServerStarts
    BY <2>1, <2>2 DEF ServerStarts, serverVars
  <2>3. CASE ServerDies
    BY <2>1, <2>3 DEF ServerDies, Forget
  <2>4. CASE TakeBatch \/ OldJobsDone
    BY <2>1, <2>4 DEF TakeBatch, OldJobsDone
  <2>5. CASE LateStep
    BY <2>1, <2>5, LateStepAdds
  <2>6. CASE \/ \E i \in Image, v \in {"success", "failed"} : JobRecords(i, v)
             \/ \E i \in Image : JobRemovesDirectory(i)
    BY <2>1, <2>6 DEF JobRecords, JobRemovesDirectory, RemovesDirectory
  <2> QED BY <1>5, <2>2, <2>3, <2>4, <2>5, <2>6 DEF ServerSide, ServerStep
<1> QED BY <1>1, <1>2, <1>3, <1>4, <1>5, StepIsOneOf DEF Next, ServerSide

LEMMA SetupStays == IInv /\ SInv /\ [Next]_vars => setup' = setup
<1> SUFFICES ASSUME IInv, SInv, [Next]_vars PROVE setup' = setup
  OBVIOUS
<1>1. CASE \/ Build \/ StartResolves \/ StartTimesOut \/ WaitForReady \/ Stop \/ OutputResults
           \/ DownloadHangs \/ Drains \/ UNCHANGED vars
  BY <1>1 DEF Build, StartResolves, StartTimesOut, WaitForReady, Stop, OutputResults,
     DownloadHangs, Drains, vars
<1>2. ASSUME NEW outcome, Ends(outcome) PROVE setup' = setup
  BY <1>2, EndsMoves DEF SInv
<1>3. ASSUME NEW i \in Image, Upload(i) \/ GoesOn(i) PROVE setup' = setup
  BY <1>3 DEF Upload, GoesOn
<1>4. CASE ServerSide
  BY <1>4, ServerSideFrame
<1> QED BY <1>1, <1>2, <1>3, <1>4, StepIsOneOf DEF Next, ServerSide

LEMMA OneBatchStep == IInv /\ SInv /\ [Next]_vars => OneBatch'
<1> SUFFICES ASSUME IInv, SInv, [Next]_vars PROVE OneBatch'
  OBVIOUS
<1>0. CASE Mended("returns")
  BY <1>0, SetupStays DEF OneBatch, Mended
<1> SUFFICES ASSUME ~Mended("returns") PROVE OneBatch'
  BY <1>0
<1> USE DEF SInv, OneBatch, Untouched, New, IInv, TypeOK
<1>1. CASE Build
  BY <1>1 DEF Build, Throws, OwnChild, Serving, serverVars
<1>2. CASE StartResolves \/ DownloadHangs \/ OutputResults \/ Drains \/ UNCHANGED vars
  BY <1>2 DEF StartResolves, DownloadHangs, OutputResults, Drains, Serving, processes,
     serverVars, vars
<1>3. CASE StartTimesOut \/ WaitForReady
  BY <1>3 DEF StartTimesOut, WaitForReady, Throws, Serving, serverVars
<1>4. CASE Stop
  <2>1. ~Serving'
    BY <1>4 DEF Stop, Returns, OwnChild, Serving
  <2> QED BY <1>4, <2>1 DEF Stop, Forget, Content, Image
<1>5. ASSUME NEW outcome, Ends(outcome) PROVE OneBatch'
  <2>1. Serving' <=> Serving
    BY <1>5, EndsMoves
  <2>2. CASE QueuedOnly
    BY <2>1, <2>2 DEF QueuedOnly, Queue, Content, Image
  <2>3. CASE Cleared
    <3>1. Clean' /\ UNCHANGED <<dispatcher, answers>>
      BY <2>3, CaseIsOverClears DEF Cleared
    <3> QED BY <2>1, <3>1 DEF Clean
  <2>4. ASSUME NEW i \in Image, AnsweredLast(i) PROVE OneBatch'
    <3>1. Clean' /\ UNCHANGED dispatcher /\ Serving /\ record[i] # {}
          /\ answers' = answers + (IF i \in New THEN 1 ELSE 0)
      BY <2>4, CaseIsOverClears DEF AnsweredLast
    <3>2. i \in New => answers = 0 /\ dispatcher # "free"
      BY <3>1
    <3>3. Untouched'
      BY <3>1 DEF Clean
    <3>4. CASE i \in New
      BY <2>1, <3>1, <3>2, <3>3, <3>4
    <3>5. CASE i \notin New
      <4>1. answers' = answers
        BY <3>1, <3>5
      <4> QED BY <2>1, <3>1, <3>3, <4>1
    <3> QED BY <3>4, <3>5
  <2> QED BY <1>5, <2>2, <2>3, <2>4 DEF Ends
<1>6. ASSUME NEW i \in Image, Upload(i) PROVE OneBatch'
  BY <1>6 DEF Upload, Queue, Serving, Content, Image, processes
<1>7. ASSUME NEW i \in Image, GoesOn(i) PROVE OneBatch'
  BY <1>7 DEF GoesOn, Serving, processes, serverVars
<1>8. CASE ServerStarts
  <2>1. at = "start" /\ awaited = {} /\ Clean
    BY <1>8 DEF ServerStarts, OwnChild, InCase
  <2> QED BY <1>8, <2>1 DEF ServerStarts, Serving, Clean, Content, Image, serverVars
<1>9. CASE ServerDies
  <2>1. ~Serving'
    BY <1>9 DEF ServerDies, OwnChild, Serving
  <2> QED BY <1>9, <2>1 DEF ServerDies, Forget, Content, Image
<1>10. CASE TakeBatch
  <2>1. Serving /\ answers = 0
    BY <1>10 DEF TakeBatch, OwnChild
  <2>2. dispatcher' = "busy" /\ answers' = 0
    BY <1>10, <2>1 DEF TakeBatch, BatchStays
  <2> QED BY <2>2
<1>11. ASSUME NEW i \in Image, NEW v \in {"success", "failed"}, JobRecords(i, v) PROVE OneBatch'
  BY <1>11 DEF JobRecords, Serving, Content, Image, processes
<1>12. CASE OldJobsDone \/ \E i \in Image : JobRemovesDirectory(i)
  BY <1>12 DEF OldJobsDone, JobRemovesDirectory, RemovesDirectory, Serving, Content, Image,
     processes
<1>13. CASE LateStep
  <2>1. \A i \in New : job'[i] = job[i]
    BY <1>13, LateStepAdds DEF Content, Image
  <2> QED BY <1>13, <2>1, LateStepAdds DEF Serving, processes
<1> QED
  BY <1>1, <1>2, <1>3, <1>4, <1>5, <1>6, <1>7, <1>8, <1>9, <1>10, <1>11, <1>12, <1>13,
     StepIsOneOf DEF Next, ServerStep

LEMMA PngUntakenStep == IInv /\ SInv /\ [Next]_vars => PngUntaken'
<1> SUFFICES ASSUME IInv, SInv, [Next]_vars PROVE PngUntaken'
  OBVIOUS
<1> USE DEF SInv, PngUntaken, Mended, IInv, TypeOK, Content, Image
<1>1. CASE \/ Build \/ StartResolves \/ StartTimesOut \/ WaitForReady \/ OutputResults
           \/ DownloadHangs \/ Drains \/ UNCHANGED vars
  BY <1>1 DEF Build, StartResolves, StartTimesOut, WaitForReady, OutputResults, DownloadHangs,
     Drains, serverVars, vars
<1>2. CASE Stop \/ ServerDies
  BY <1>2 DEF Stop, ServerDies, Forget
<1>3. ASSUME NEW outcome, Ends(outcome) PROVE PngUntaken'
  <2>1. setup' = setup
    BY <1>3, EndsMoves
  <2>2. CASE QueuedOnly
    BY <2>1, <2>2 DEF QueuedOnly, Queue
  <2>3. CASE CaseIsOver
    BY <2>1, <2>3, CaseIsOverClears DEF New
  <2> QED BY <1>3, <2>2, <2>3 DEF Ends, Cleared, AnsweredLast
<1>4. ASSUME NEW i \in Image, Upload(i) \/ GoesOn(i) PROVE PngUntaken'
  BY <1>4 DEF Upload, Queue, GoesOn, serverVars
<1>5. CASE ServerStarts
  BY <1>5 DEF ServerStarts, serverVars
<1>6. CASE TakeBatch
  BY <1>6 DEF TakeBatch, BatchStays
<1>7. CASE LateStep
  <2>1. setup' = setup
    BY <1>7, ServerSideFrame DEF ServerSide
  <2> QED BY <1>7, <2>1, LateStepAdds
<1>8. CASE \/ OldJobsDone \/ \E i \in Image, v \in {"success", "failed"} : JobRecords(i, v)
           \/ \E i \in Image : JobRemovesDirectory(i)
  BY <1>8 DEF OldJobsDone, JobRecords, JobRemovesDirectory
<1> QED
  BY <1>1, <1>2, <1>3, <1>4, <1>5, <1>6, <1>7, <1>8, StepIsOneOf DEF Next, ServerStep

LEMMA InitSInv == Init => SInv
<1> SUFFICES ASSUME Init PROVE SInv
  OBVIOUS
<1> USE DEF Init
<1>1. OwnChild /\ InCase
  BY DEF OwnChild, InCase, Clean, New, Content, Image, Serving
<1>2. Announced /\ TokenTaken /\ EmptyStays /\ OneBatch /\ PngUntaken
  BY DEF Announced, TokenTaken, EmptyStays, OneBatch, PngUntaken, Serving, Content, Image
<1> QED BY <1>1, <1>2 DEF SInv

\* A suite meets its own server in the case it has come to, and the servers of this
\* commit have one batch, of one content, and keep the directory of an empty file.
THEOREM ServerAndCase == Spec => []SInv
<1>1. IInv /\ SInv /\ [Next]_vars => SInv'
  BY OwnChildStep, InCaseStep, AnnouncedStep, TokenTakenStep, EmptyStaysStep, OneBatchStep,
     PngUntakenStep DEF SInv
<1> QED BY <1>1, InitSInv, Inductive, PTL DEF Spec

\* As long as jobs do not return, a server's life answers one wait at most for bytes
\* that were not there before, whatever else is mended and however many servers die.
THEOREM OneVerdict == Spec => []OneVerdictPerServer
<1>1. SInv => OneVerdictPerServer
  BY DEF SInv, OneBatch, OneVerdictPerServer
<1> QED BY <1>1, ServerAndCase, PTL

-----------------------------------------------------------------------------
(* The invariant: the cases that the suite has behind it. *)

Behind ==
    {j \in 1..Len(CurrentTests) : at = "stop" \/ (at \in {"test", "wait"} /\ j < test)}
BehindIn(A) == {j \in Behind : CurrentTests[j] \in A}

\* The suite can still pass.
Open == at \in {"test", "wait", "stop"} /\ result[suite] = "open"

\* A case that asks for something mended gets it, or its suite does not pass.
DemandsMet ==
    Open =>
        /\ BehindIn(Asks("status")) # {} => Mended("status")
        /\ BehindIn(Asks("cancel")) # {} => Mended("cancel")
        /\ BehindIn(Asks("upload")) # {} => Mended("token")
        /\ BehindIn(Reading) # {} => Mended("answer")
        /\ BehindIn(Asks("process")) # {} => Mended("token")

\* One case has used up the one answer for new bytes.
OneFresh ==
    Open /\ ~Mended("returns") =>
        /\ BehindIn(WaitsFor("fresh")) # {} => answers >= 1
        /\ \A j, k \in BehindIn(WaitsFor("fresh")) : j = k

\* One case has left the directory that keeps the next from uploading the same.
OneEmpty ==
    Open /\ ~Mended("forgets") =>
        /\ BehindIn(WaitsFor("empty")) # {} => "empty" \in directory /\ "empty" \notin awaited
        /\ \A j, k \in BehindIn(WaitsFor("empty")) : j = k

\* The first batch has not got this job, and there is no other.
PngBlocked == dispatcher = "busy" /\ "png" \in directory /\ job["png"] = "queued"

\* The job of a first upload may get through; that of a second does not, and it is
\* in the way of the third.
TwoUploads ==
    Open /\ ~Mended("returns") =>
        LET uploads == BehindIn(Asks("upload")) IN
        /\ Serving /\ uploads # {} => "png" \in directory \/ dispatcher = "busy"
        /\ Serving /\ (\E j, k \in uploads : j # k) => PngBlocked
        /\ ~ \E i, j, k \in uploads : i # j /\ i # k /\ j # k

PInv == DemandsMet /\ OneFresh /\ OneEmpty /\ TwoUploads

\* A case that the suite leaves behind without losing its chance has been earned.
LEMMA Passing ==
    ASSUME IInv, SInv, NEW outcome, Ends(outcome), Open'
    PROVE  /\ Open
           /\ \A A : BehindIn(A)' \subseteq BehindIn(A) \cup {test}
           /\ \A A : TheCase \notin A => BehindIn(A)' \subseteq BehindIn(A)
           /\ TheCase \in Demanding => outcome # "error"
<1>1. /\ CurrentTests \in Seq(Case) /\ Len(CurrentTests) \in Nat \ {0}
      /\ suite \in 1..Len(Suites) /\ test \in 1..Len(CurrentTests) /\ TheCase \in Case
  <2>1. /\ CurrentTests \in Seq(Case) /\ Len(CurrentTests) \in Nat \ {0}
        /\ suite \in 1..Len(Suites)
    BY CurrentSuite DEF Ends
  <2>2. test \in 1..Len(CurrentTests)
    BY <2>1 DEF SInv, InCase, IInv, TypeOK, Ends
  <2> QED BY <2>1, <2>2 DEF TheCase
<1>2. /\ UNCHANGED <<suite, setup>>
      /\ \/ at' = "test" /\ test < Len(CurrentTests) /\ test' = test + 1
         \/ at' = "stop" /\ test = Len(CurrentTests)
      /\ result' = [result EXCEPT ![suite] = IF TheCase.on[outcome] = "fail" THEN "failed" ELSE @]
      /\ TheCase.on[outcome] \notin {"raise", "throw"}
  BY EndsMoves DEF SInv, Open
<1>3. Open /\ TheCase.on[outcome] # "fail"
  <2>1. result \in [1..Len(Suites) -> {"open", "passed", "failed", "threw"}]
    BY DEF IInv, TypeOK
  <2>2. result'[suite] = "open"
    BY <1>2 DEF Open
  <2> QED BY <1>1, <1>2, <2>1, <2>2 DEF Open, Ends
<1>4. TheCase \in Demanding => outcome # "error"
  <2>1. TheCase.on \in [Outcome -> Effect] /\ outcome \in Outcome
    BY <1>1 DEF Case, Ends
  <2>2. TheCase.on[outcome] \in {"pass", "next"}
    BY <1>2, <1>3, <2>1 DEF Effect
  <2> QED BY <2>2 DEF Demanding
<1>5. CurrentTests' = CurrentTests /\ Behind' \subseteq Behind \cup {test}
  <2>1. CurrentTests' = CurrentTests
    BY <1>2 DEF CurrentTests, Suites
  <2>2. at \in {"test", "wait"}
    BY DEF Ends
  <2> QED BY <1>1, <1>2, <2>1, <2>2 DEF Behind
<1>6. \A A : BehindIn(A)' \subseteq BehindIn(A) \cup {test}
  BY <1>5 DEF BehindIn
<1>7. \A A : TheCase \notin A => BehindIn(A)' \subseteq BehindIn(A)
  BY <1>5 DEF BehindIn, TheCase
<1> QED BY <1>3, <1>4, <1>6, <1>7

\* Whatever else happens, no case is left behind.
StaysBehind ==
    Open' => Open /\ UNCHANGED setup /\ \A A : BehindIn(A)' = BehindIn(A)

LEMMA PositionKept ==
    ASSUME UNCHANGED <<setup, suite, test, result>>,
           at' = at \/ (at = "test" /\ at' = "wait")
    PROVE  StaysBehind
<1>1. CurrentTests' = CurrentTests
  BY DEF CurrentTests, Suites
<1>2. Behind' = Behind
  BY <1>1 DEF Behind
<1> QED BY <1>1, <1>2 DEF StaysBehind, Open, BehindIn

\* Where the suite is not among its cases, or has none behind it, there is nothing to show.
LEMMA NothingBehind ==
    ASSUME Open' => at' = "test" /\ test' = 1
    PROVE  PInv'
<1>1. Open' => Behind' = {}
  BY DEF Behind
<1>2. Open' => \A A : BehindIn(A)' = {}
  BY <1>1 DEF BehindIn
<1> QED BY <1>2 DEF PInv, DemandsMet, OneFresh, OneEmpty, TwoUploads

\* What every step leaves of the PNG's job.
PngKept ==
    Serving' =>
        /\ Serving
        /\ dispatcher = "busy" => dispatcher' = "busy"
        /\ "png" \in directory => "png" \in directory' \/ dispatcher' = "busy"
        /\ PngBlocked => PngBlocked'

\* A step that leaves no case behind takes no answer and no directory away.
LEMMA PInvStays ==
    ASSUME PInv, StaysBehind, TypeOK,
           Open' /\ ~Mended("returns") => PngKept,
           Open' => /\ answers' = answers
                    /\ ~Mended("forgets") /\ "empty" \in directory => "empty" \in directory'
                    /\ "empty" \in awaited' =>
                           "empty" \in awaited \/ "empty" \notin directory
    PROVE  PInv'
<1> USE DEF PInv, StaysBehind
<1>1. DemandsMet'
  BY DEF DemandsMet, Mended
<1>2. OneFresh'
  BY DEF OneFresh, Mended
<1>3. OneEmpty'
  BY DEF OneEmpty, Mended
<1>4. TwoUploads'
  BY DEF TwoUploads, PngKept, Mended
<1> QED BY <1>1, <1>2, <1>3, <1>4

\* The PNG's job outlives the cases, and while it is there none of them queues another.
LEMMA EndsKeepsPng ==
    ASSUME IInv, SInv, NEW outcome, Ends(outcome)
    PROVE  PngKept
<1>1. Serving' <=> Serving
  BY EndsMoves DEF SInv
<1>2. CASE QueuedOnly
  BY <1>1, <1>2 DEF QueuedOnly, TakesUpload, Queue, PngKept, PngBlocked
<1>3. CASE CaseIsOver
  <2>1. "png" \in Image \ New
    BY DEF Image, New
  <2>2. /\ dispatcher' = dispatcher /\ job'["png"] = job["png"]
        /\ "png" \in directory => "png" \in directory'
    BY <1>3, <2>1, CaseIsOverClears DEF IInv
  <2> QED BY <1>1, <2>2 DEF PngKept, PngBlocked
<1> QED BY <1>2, <1>3 DEF Ends, Cleared, AnsweredLast

\* So does it with the steps of the server, as long as the suite can pass.
LEMMA ServerKeepsPng ==
    ASSUME IInv, SInv, ServerSide, Open, ~Mended("returns")
    PROVE  PngKept
<1> USE DEF PngKept, PngBlocked, IInv, TypeOK, Content, Image
<1>1. child # "starting" /\ ~orphan /\ dispatcher \in {"free", "busy"}
  BY DEF Open, SInv, OwnChild, OwnServer
<1>2. CASE TakeBatch
  BY <1>2 DEF TakeBatch, BatchStays, Serving, processes
<1>3. ASSUME NEW i \in Image, NEW v \in {"success", "failed"}, JobRecords(i, v) PROVE PngKept
  BY <1>3 DEF JobRecords, Serving, processes
<1>4. ASSUME NEW i \in Image, JobRemovesDirectory(i) PROVE PngKept
  <2>1. UNCHANGED <<dispatcher, child, orphan>> /\ directory' = directory \ {i}
        /\ job' = [job EXCEPT ![i] = "none"] /\ job[i] \in {"success", "failed"}
    BY <1>4 DEF JobRemovesDirectory, RemovesDirectory, processes
  <2>2. i = "png" => dispatcher = "busy"
    BY <1>1, <2>1 DEF SInv, PngUntaken
  <2> QED BY <2>1, <2>2 DEF Serving
<1>5. CASE OldJobsDone
  BY <1>5 DEF OldJobsDone, Serving, processes
<1>6. CASE ServerDies
  BY <1>1, <1>6 DEF ServerDies, Serving
<1>7. CASE LateStep
  BY <1>7, LateStepAdds DEF Serving, processes
<1> QED
  BY <1>1, <1>2, <1>3, <1>4, <1>5, <1>6, <1>7 DEF ServerSide, ServerStep, ServerStarts

LEMMA EndsKeepsPInv ==
    ASSUME IInv, SInv, SInv', PInv, NEW outcome, Ends(outcome)
    PROVE  PInv'
<1> SUFFICES ASSUME Open' PROVE PInv'
  BY DEF PInv, DemandsMet, OneFresh, OneEmpty, TwoUploads
<1>1. /\ Open
      /\ \A A : BehindIn(A)' \subseteq BehindIn(A) \cup {test}
      /\ \A A : TheCase \notin A => BehindIn(A)' \subseteq BehindIn(A)
      /\ TheCase \in Demanding => outcome # "error"
  BY Passing
<1>2. setup' = setup /\ awaited' = {}
  BY EndsMoves DEF SInv
<1>3. Earned(outcome)
  BY DEF Ends
<1>4. ASSUME NEW image \in Image, TheCase \in WaitsFor(image)
      PROVE  AnsweredLast(image)
  <2>1. TheCase \in Demanding /\ TheCase.does = "process" /\ TheCase.images = {image}
    BY <1>4 DEF WaitsFor, Asks
  <2>2. PICK i \in Image : AnsweredLast(i)
    BY <1>1, <1>3, <2>1 DEF Earned
  <2>3. i \in TheCase.images
    BY <2>2 DEF AnsweredLast, SInv, InCase
  <2> QED BY <2>1, <2>2, <2>3
<1>5. DemandsMet'
  <2>1. \A deed : TheCase \in Asks(deed) => TheCase.does = deed /\ outcome # "error"
    BY <1>1 DEF Asks
  <2>2. TheCase \in Asks("process") => Mended("token")
    BY <1>3, <2>1 DEF Earned, AnsweredLast, SInv, TokenTaken
  <2>3. /\ TheCase \in Asks("status") => Mended("status")
        /\ TheCase \in Asks("cancel") => Mended("cancel")
        /\ TheCase \in Asks("upload") => Mended("token")
    BY <1>3, <2>1 DEF Earned, QueuedOnly, TakesUpload
  <2>4. TheCase \in Reading => Mended("answer")
    <3> SUFFICES ASSUME TheCase \in Reading PROVE Mended("answer")
      OBVIOUS
    <3>1. /\ "hash" \in TheCase.relies /\ TheCase.does \in {"upload", "process"}
          /\ outcome # "error"
      BY <1>1 DEF Reading
    <3>2. ReadsAnswer
      BY <1>3, <3>1 DEF Earned, AnsweredLast, SInv, TokenTaken
    <3> QED BY <3>1, <3>2 DEF ReadsAnswer
  <2>5. \A A : TheCase \notin A => (BehindIn(A)' # {} => BehindIn(A) # {})
    BY <1>1
  <2>6. /\ BehindIn(Asks("status"))' # {} => Mended("status")
        /\ BehindIn(Asks("cancel"))' # {} => Mended("cancel")
        /\ BehindIn(Asks("upload"))' # {} => Mended("token")
        /\ BehindIn(Asks("process"))' # {} => Mended("token")
        /\ BehindIn(Reading)' # {} => Mended("answer")
    BY <1>1, <2>2, <2>3, <2>4, <2>5 DEF PInv, DemandsMet
  <2> QED BY <1>2, <2>6 DEF DemandsMet, Mended
<1>6. OneFresh'
  <2> DEFINE A == WaitsFor("fresh")
  <2>1. answers \in Nat /\ answers' \in Nat /\ answers' >= answers
    BY DEF IInv, TypeOK, Ends, Cleared, QueuedOnly, AnsweredLast
  <2>2. CASE TheCase \notin A
    <3>1. BehindIn(A)' \subseteq BehindIn(A)
      BY <1>1, <2>2
    <3> QED BY <1>1, <1>2, <2>1, <3>1 DEF PInv, OneFresh, Mended
  <2>3. CASE TheCase \in A /\ ~Mended("returns")
    <3>1. answers' = answers + 1
      <4>1. AnsweredLast("fresh")
        BY <1>4, <2>3 DEF Image
      <4> QED BY <4>1 DEF AnsweredLast, New
    <3>2. answers = 0
      BY <1>2, <2>1, <2>3, <3>1 DEF SInv, OneBatch, Mended
    <3>3. BehindIn(A) = {}
      BY <1>1, <2>3, <3>2 DEF PInv, OneFresh
    <3>4. BehindIn(A)' \subseteq {test}
      BY <1>1, <3>3
    <3> QED BY <3>1, <3>2, <3>4 DEF OneFresh
  <2>4. CASE Mended("returns")
    BY <1>2, <2>4 DEF OneFresh, Mended
  <2> QED BY <2>2, <2>3, <2>4
<1>7. OneEmpty'
  <2> DEFINE A == WaitsFor("empty")
  <2>1. "empty" \in directory => "empty" \in directory'
    <3>1. "empty" \in Image \ New
      BY DEF Image, New
    <3>2. CASE QueuedOnly
      BY <3>2 DEF QueuedOnly, Queue
    <3> QED BY <3>1, <3>2, CaseIsOverClears DEF Ends, Cleared, AnsweredLast, IInv
  <2>2. CASE TheCase \notin A
    <3>1. BehindIn(A)' \subseteq BehindIn(A)
      BY <1>1, <2>2
    <3> QED BY <1>1, <1>2, <2>1, <3>1 DEF PInv, OneEmpty, Mended
  <2>3. CASE TheCase \in A /\ ~Mended("forgets")
    <3>1. "empty" \in awaited
      <4>1. AnsweredLast("empty")
        BY <1>4, <2>3 DEF Image
      <4> QED BY <4>1 DEF AnsweredLast
    <3>2. "empty" \in directory'
      BY <2>1, <2>3, <3>1 DEF SInv, EmptyStays
    <3>3. BehindIn(A) = {}
      BY <1>1, <2>3, <3>1 DEF PInv, OneEmpty
    <3>4. BehindIn(A)' \subseteq {test}
      BY <1>1, <3>3
    <3> QED BY <1>2, <3>2, <3>4 DEF OneEmpty
  <2>4. CASE Mended("forgets")
    BY <1>2, <2>4 DEF OneEmpty, Mended
  <2> QED BY <2>2, <2>3, <2>4
<1>8. TwoUploads'
  <2> DEFINE A == Asks("upload")
  <2>1. PngKept
    BY EndsKeepsPng
  <2>2. CASE TheCase \notin A
    <3>1. BehindIn(A)' \subseteq BehindIn(A)
      BY <1>1, <2>2
    <3> HIDE DEF A
    <3> QED BY <1>1, <1>2, <2>1, <3>1 DEF PInv, TwoUploads, PngKept, Mended, A
  <2>3. CASE TheCase \in A /\ ~Mended("returns")
    <3>1. Serving /\ "png" \notin directory /\ dispatcher' = dispatcher
          /\ "png" \in directory' /\ job'["png"] = "queued"
      <4>1. QueuedOnly
        BY <1>1, <1>3, <2>3 DEF Earned, Asks
      <4> QED BY <4>1 DEF QueuedOnly, TakesUpload, Queue, IInv, TypeOK, Content, Image
    <3>2. BehindIn(A) # {} => PngBlocked'
      BY <1>1, <2>3, <3>1 DEF PInv, TwoUploads, PngBlocked
    <3>3. \A j, k \in BehindIn(A) : j = k
      BY <1>1, <2>3, <3>1 DEF PInv, TwoUploads, PngBlocked
    <3>4. BehindIn(A)' \subseteq BehindIn(A) \cup {test}
      BY <1>1
    <3> HIDE DEF A
    <3>5. \A j, k \in BehindIn(A)' : j # k => BehindIn(A) # {}
      BY <3>4
    <3>6. ~ \E i, j, k \in BehindIn(A)' : i # j /\ i # k /\ j # k
      BY <3>3, <3>4
    <3> QED BY <3>1, <3>2, <3>5, <3>6 DEF TwoUploads, A
  <2>4. CASE Mended("returns")
    BY <1>2, <2>4 DEF TwoUploads, Mended
  <2> QED BY <2>2, <2>3, <2>4
<1> QED BY <1>5, <1>6, <1>7, <1>8 DEF PInv

LEMMA PInvStep == IInv /\ SInv /\ SInv' /\ PInv /\ [Next]_vars => PInv'
<1> SUFFICES ASSUME IInv, SInv, SInv', PInv, [Next]_vars PROVE PInv'
  OBVIOUS
<1>1. CASE \/ Build \/ StartResolves \/ StartTimesOut \/ WaitForReady \/ Stop \/ OutputResults
           \/ DownloadHangs
  <2>1. Open' => at' = "test" /\ test' = 1
    BY <1>1 DEF Build, StartResolves, StartTimesOut, WaitForReady, Stop, OutputResults, Throws,
       Returns, AfterSuite, DownloadHangs, Open
  <2> QED BY <2>1, NothingBehind
<1>2. ASSUME NEW outcome, Ends(outcome) PROVE PInv'
  BY <1>2, EndsKeepsPInv
<1>3. ASSUME NEW i \in Image, Upload(i) PROVE PInv'
  <2>1. /\ UNCHANGED <<setup, suite, test, result, answers>>
        /\ at = "test" /\ at' \in {"test", "wait"}
        /\ directory' = directory \cup {i} /\ awaited' = awaited \cup {i} /\ i \notin directory
    BY <1>3 DEF Upload, TakesUpload, Queue
  <2>2. StaysBehind
    BY <2>1, PositionKept
  <2>3. PngKept
    BY <1>3 DEF Upload, TakesUpload, Queue, PngKept, PngBlocked, Serving, processes, IInv,
       TypeOK, Content, Image
  <2> QED BY <2>1, <2>2, <2>3, PInvStays DEF IInv
<1>4. ASSUME NEW i \in Image, GoesOn(i) PROVE PInv'
  <2>1. /\ UNCHANGED <<setup, suite, at, test, result, processes, serverVars, answers>>
        /\ awaited' \subseteq awaited
    BY <1>4 DEF GoesOn
  <2>2. StaysBehind
    BY <2>1, PositionKept
  <2>3. PngKept /\ directory' = directory
    BY <2>1 DEF PngKept, PngBlocked, Serving, processes, serverVars
  <2> QED BY <2>1, <2>2, <2>3, PInvStays DEF IInv
<1>5. CASE Drains \/ UNCHANGED vars
  <2>1. /\ UNCHANGED <<setup, suite, at, test, result, awaited>>
        /\ UNCHANGED <<processes, serverVars, answers>>
    BY <1>5 DEF Drains, vars, harness
  <2>2. StaysBehind
    BY <2>1, PositionKept
  <2>3. PngKept /\ directory' = directory
    BY <2>1 DEF PngKept, PngBlocked, Serving, processes, serverVars
  <2> QED BY <2>1, <2>2, <2>3, PInvStays DEF IInv
<1>6. CASE ServerSide
  <2>1. UNCHANGED <<setup, suite, at, test, result, awaited>>
    BY <1>6, ServerSideFrame
  <2>2. StaysBehind
    BY <2>1, PositionKept
  <2>3. Open' => answers' = answers
    <3>1. CASE ServerStarts
      BY <2>1, <3>1 DEF ServerStarts, Open, SInv, OwnChild
    <3> QED
      BY <1>6, <3>1 DEF ServerSide, ServerStep, TakeBatch, JobRecords, JobRemovesDirectory,
         OldJobsDone, ServerDies, LateStep, LateUpload
  <2>4. ~Mended("forgets") /\ "empty" \in directory => "empty" \in directory'
    <3>1. ASSUME NEW i \in Image, JobRemovesDirectory(i), ~Mended("forgets")
          PROVE  i # "empty" /\ directory' = directory \ {i}
      BY <3>1 DEF JobRemovesDirectory, RemovesDirectory, SInv, EmptyStays
    <3>2. CASE ServerStarts \/ TakeBatch \/ ServerDies \/ LateStep \/ OldJobsDone
               \/ \E i \in Image, v \in {"success", "failed"} : JobRecords(i, v)
      BY <3>2 DEF ServerStarts, TakeBatch, ServerDies, LateStep, LateUpload, OldJobsDone,
         JobRecords, serverVars
    <3> QED BY <1>6, <3>1, <3>2 DEF ServerSide, ServerStep
  <2>5. Open' /\ ~Mended("returns") => PngKept
    BY <1>6, <2>2, ServerKeepsPng DEF StaysBehind
  <2> QED BY <2>1, <2>2, <2>3, <2>4, <2>5, PInvStays DEF IInv
<1> QED BY <1>1, <1>2, <1>3, <1>4, <1>5, <1>6, StepIsOneOf DEF Next, ServerSide

-----------------------------------------------------------------------------
(* The suites that have passed. *)

\* Of two cases of a kind that only one can pass, one is not behind.
LEMMA TwoAreTooMany ==
    ASSUME at = "stop", NEW A, HasTwo(CurrentTests, A)
    PROVE  /\ BehindIn(A) # {}
           /\ ~ \A j, k \in BehindIn(A) : j = k
BY DEF HasTwo, BehindIn, Behind

LEMMA ThreeAreTooMany ==
    ASSUME at = "stop", NEW A, HasThree(CurrentTests, A)
    PROVE  \E i, j, k \in BehindIn(A) : i # j /\ i # k /\ j # k
BY DEF HasThree, BehindIn, Behind

LEMMA PassesMended ==
    ASSUME IInv, SInv, PInv, at = "stop", result[suite] = "open"
    PROVE  Needs(Suites[suite]) \subseteq setup.mended
<1> DEFINE name == Suites[suite]
           s == CurrentTests
<1>1. name \in Suite /\ s = Tests(name)
  BY CurrentSuite DEF CurrentTests
<1>2. Open
  BY DEF Open
<1>3. Mended("announces")
  BY DEF SInv, Announced
<1>4. \A A : Has(s, A) => BehindIn(A) # {}
  BY DEF Has, BehindIn, Behind
<1>7. Mended("answer")
  <2>1. Has(s, Reading)
    BY <1>1, SuiteTests
  <2> QED BY <1>2, <1>4, <2>1 DEF PInv, DemandsMet
<1>5. CASE name = "basic"
  <2>1. /\ HasThree(s, Asks("upload")) /\ Has(s, Asks("status")) /\ Has(s, Asks("cancel"))
    BY <1>1, <1>5, SuiteTests
  <2>2. \E i, j, k \in BehindIn(Asks("upload")) : i # j /\ i # k /\ j # k
    BY <2>1, ThreeAreTooMany
  <2>3. Mended("token") /\ Mended("status") /\ Mended("cancel")
    BY <1>2, <1>4, <2>1, <2>2 DEF PInv, DemandsMet
  <2>4. Mended("returns")
    BY <1>2, <2>2 DEF PInv, TwoUploads
  <2> QED BY <1>3, <1>5, <1>7, <2>3, <2>4 DEF Needs, Mended
<1>6. CASE name # "basic"
  <2>1. HasTwo(s, WaitsFor("fresh"))
    BY <1>1, <1>6, SuiteTests
  <2>2. Mended("returns")
    BY <1>2, <2>1, TwoAreTooMany DEF PInv, OneFresh
  <2>3. Mended("token")
    <3>1. HasTwo(s, Asks("process"))
      BY <2>1 DEF HasTwo, WaitsFor
    <3> QED BY <1>2, <3>1, TwoAreTooMany DEF PInv, DemandsMet
  <2>4. name = "edge" => Mended("forgets")
    <3>1. name = "edge" => HasTwo(s, WaitsFor("empty"))
      BY <1>1, SuiteTests
    <3> QED BY <1>2, <3>1, TwoAreTooMany DEF PInv, OneEmpty
  <2> QED BY <1>1, <1>3, <1>6, <1>7, <2>2, <2>3, <2>4 DEF Needs, Mended, Suite
<1> QED BY <1>5, <1>6

LEMMA PassedStep ==
    IInv /\ SInv /\ PInv /\ PassedMeansMended /\ [Next]_vars => PassedMeansMended'
<1> SUFFICES ASSUME IInv, SInv, PInv, PassedMeansMended, [Next]_vars PROVE PassedMeansMended'
  OBVIOUS
<1>1. setup' = setup /\ Suites' = Suites
  BY SetupStays DEF Suites
<1>2. CASE Stop
  <2>1. /\ at = "stop" /\ suite \in 1..Len(Suites)
        /\ result \in [1..Len(Suites) -> {"open", "passed", "failed", "threw"}]
    BY <1>2, CurrentSuite DEF Stop, IInv, TypeOK
  <2>2. result' = [result EXCEPT ![suite] = IF @ = "open" THEN "passed" ELSE @]
    BY <1>2 DEF Stop, Returns
  <2>3. \A k \in SuitesWith("passed")' :
            k \in SuitesWith("passed") \/ (k = suite /\ result[suite] = "open")
    BY <1>1, <2>1, <2>2 DEF SuitesWith
  <2>4. result[suite] = "open" => Needs(Suites[suite]) \subseteq setup.mended
    BY <2>1, PassesMended
  <2> QED BY <1>1, <2>3, <2>4 DEF PassedMeansMended
<1>3. CASE ~Stop
  <2>1. \/ UNCHANGED result
        \/ \E w \in {"failed", "threw"} : result' = [result EXCEPT ![suite] = w]
    <3>1. CASE \/ Build \/ StartResolves \/ StartTimesOut \/ WaitForReady \/ DownloadHangs
               \/ OutputResults \/ Drains \/ UNCHANGED vars
      BY <3>1 DEF Build, StartResolves, StartTimesOut, WaitForReady, DownloadHangs,
         OutputResults, Drains, Throws, harness, vars
    <3>2. ASSUME NEW outcome, Ends(outcome)
          PROVE  \/ UNCHANGED result
                 \/ \E w \in {"failed", "threw"} : result' = [result EXCEPT ![suite] = w]
      <4>1. \/ result' = [result EXCEPT ![suite] = "threw"]
            \/ result' = [result EXCEPT ![suite] =
                              IF TheCase.on[outcome] = "fail" THEN "failed" ELSE @]
        BY <3>2, EndsMoves DEF SInv
      <4> QED BY <4>1 DEF IInv, TypeOK
    <3>3. ASSUME NEW i \in Image, Upload(i) \/ GoesOn(i) PROVE UNCHANGED result
      BY <3>3 DEF Upload, GoesOn
    <3>4. CASE ServerSide
      BY <3>4, ServerSideFrame
    <3> QED BY <1>3, <3>1, <3>2, <3>3, <3>4, StepIsOneOf DEF Next, ServerSide
  <2>2. SuitesWith("passed")' \subseteq SuitesWith("passed")
    BY <1>1, <2>1 DEF SuitesWith, IInv, TypeOK
  <2> QED BY <1>1, <2>2 DEF PassedMeansMended
<1> QED BY <1>2, <1>3

\* A suite that passes shows that its disagreements with the server are mended: it
\* does not pass by luck, by the record of an earlier test or run, or against the
\* server of another suite, however often its loops run and however many servers die.
THEOREM PassedIsEarned == Spec => []PassedMeansMended
<1>1. Init => PInv
  BY DEF Init, PInv, DemandsMet, OneFresh, OneEmpty, TwoUploads, Open
<1>2. Init => PassedMeansMended
  BY DEF Init, PassedMeansMended, SuitesWith
<1> QED
  BY <1>1, <1>2, PInvStep, PassedStep, Inductive, ServerAndCase, PTL DEF Spec

=============================================================================
