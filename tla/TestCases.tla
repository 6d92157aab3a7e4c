----------------------------- MODULE TestCases -----------------------------
(***************************************************************************)
(* The integration tests (integration-tests/src) as data.  Each test       *)
(* method is a sequence of cases.  A case does one thing and says what     *)
(* each outcome of it makes the method do: record a pass or a failure,     *)
(* throw out of the suite, or go on.                                       *)
(*                                                                         *)
(* Of the job specifications it is kept whether they ask for several files *)
(* and whether the test then reads the answer: to the tests a job succeeds *)
(* or fails.  Of an image it is kept whether it is downloaded, and whether *)
(* another test uploads the same bytes: the server names a job after the   *)
(* bytes and the user, and every test is the same user.                    *)
(***************************************************************************)
EXTENDS Integers, Sequences

CONSTANT CaseBound      \* bound: a loop over alike cases runs this often

ASSUME CaseBoundAssumption == CaseBound \in Nat \ {0}

\* "png" is createMinimalPNG, "empty" a file without bytes; "fresh" stands for
\* bytes no other test has, "more" for those of a second upload at the same time.
Image == {"png", "empty", "fresh", "more"}

Outcome == {"success", "failed", "error"}

\* "raise" is recordFail and throw; "next" records nothing.
Effect == {"pass", "fail", "raise", "throw", "next"}

\* process: upload, then wait for the verdict; upload: only that; refuse: send
\* what the server must refuse; expired: the same, with createExpiredJWT's token;
\* parallel: uploads at the same time; local: no request to the server; listen:
\* a server for the callback; callback: wait for it; the others: one request to
\* that endpoint.
Deed == {"process", "upload", "refuse", "expired", "parallel", "local", "listen",
         "callback", "health", "success", "failures", "status", "cancel"}

\* net: downloadLoremPicsumImage gets the image; hash: the job makes several files,
\* and the case needs the hash out of the answer that lists them.
Reliance == {"net", "hash"}

Case == [does : Deed, images : (SUBSET Image) \ {{}}, relies : SUBSET Reliance,
         on : [Outcome -> Effect]]

On(success, failed, error) ==
    [o \in Outcome |-> CASE o = "success" -> success
                         [] o = "failed" -> failed
                         [] o = "error" -> error]

\* What the methods do with an outcome.
Strict == On("pass", "fail", "fail")            \* the job must succeed
Lenient == On("pass", "pass", "fail")           \* "might not be configured"
ExpectFailure == On("fail", "pass", "fail")     \* "Expected failure but got success"
Unguarded == On("next", "next", "throw")        \* no try around it
Refused == On("fail", "fail", "pass")           \* an error is what is wanted
Always == On("pass", "pass", "pass")
Fatal == On("pass", "raise", "raise")           \* the catch block rethrows
Prepare == On("next", "raise", "raise")         \* first step of a fatal method

One(what, images, relies, on) ==
    <<[does |-> what, images |-> images, relies |-> relies, on |-> on]>>
Do(what, on) == One(what, {"png"}, {}, on)
Process(image, relies, on) == One("process", {image}, relies, on)

\* n alike cases, of which CaseBound are kept.
Times(n, one) ==
    [i \in 1..(IF n <= CaseBound THEN n ELSE CaseBound) |-> one[1]]

-----------------------------------------------------------------------------
(* basic-tests.ts *)

testHealthEndpoint == Do("health", Fatal)
testVersionEndpoint == Do("health", Fatal)
testJWT == Do("local", Fatal)
\* Its job is one of two sizes, and a hash is what it is about.
testImageUpload == One("upload", {"png"}, {"hash"}, Fatal)
testSuccessEndpoint == Do("success", Fatal)
testFailureEndpoint == Do("failures", Fatal)
\* Wrong variant: a status that is not expected is only logged.
testStatusLenient == Do("status", Always)
testStatusEndpoint == Do("status", Fatal)
testStatusEndpoints == testSuccessEndpoint \o testFailureEndpoint \o testStatusEndpoint
testCallbackFunctionality ==
    Do("listen", Prepare) \o Do("upload", Prepare) \o Do("callback", Fatal)
testJobCancellation == Do("upload", Prepare) \o Do("cancel", Fatal)
\* The upload without a token passes whatever it does: the error that says it
\* should have failed is thrown inside the try that swallows it.
testInvalidRequests == Do("success", Fatal)

BasicTests ==
    testHealthEndpoint \o testVersionEndpoint \o testJWT \o testImageUpload
        \o testStatusEndpoints \o testCallbackFunctionality \o testJobCancellation
        \o testInvalidRequests

-----------------------------------------------------------------------------
(* codec-tests.ts: qualities times sizes, and for WebP speeds *)

testJPGFormats == Times(5 * 3, Process("fresh", {"net"}, Strict))
testPNGFormats == Times(4 * 2, Process("fresh", {"net"}, Strict))
testWebPFormats == Times(4 * 3 * 2, Process("fresh", {"net"}, Strict))
testAVIFFormats == Times(2, Process("fresh", {"net"}, Lenient))
testMultiFormatJobs == Times(2, Process("fresh", {"net", "hash"}, Strict))
testFormatEdgeCases ==
    Times(3, Process("fresh", {"net"}, Strict)) \o Process("fresh", {"net", "hash"}, Strict)
\* One result for the whole loop, recorded after it.
testQualitySettings == Times(4, Process("fresh", {"net"}, Unguarded)) \o Do("local", Always)
testSizeVariations == Times(6, Process("fresh", {"net"}, Unguarded)) \o Do("local", Always)

CodecTests ==
    testJPGFormats \o testPNGFormats \o testWebPFormats \o testAVIFFormats
        \o testMultiFormatJobs \o testFormatEdgeCases \o testQualitySettings
        \o testSizeVariations

-----------------------------------------------------------------------------
(* backend-tests.ts *)

testDirectHostBackend == Times(3, Process("fresh", {"net"}, Strict))
testS3Backend == Times(3, Process("fresh", {"net"}, Lenient))
testGCSBackend == Times(2, Process("fresh", {"net"}, Lenient))
testSFTPBackend == Times(2, Process("fresh", {"net"}, Lenient))
testMultipleBackends == Times(3, Process("fresh", {"net", "hash"}, Lenient))
testBackendErrors == Times(4, Process("png", {}, Lenient))
testBackendPriorities == Times(3, Process("fresh", {"net"}, Strict))

BackendTests ==
    testDirectHostBackend \o testS3Backend \o testGCSBackend \o testSFTPBackend
        \o testMultipleBackends \o testBackendErrors \o testBackendPriorities

-----------------------------------------------------------------------------
(* edge-case-tests.ts *)

testLargeFiles == Times(3, Process("fresh", {"net", "hash"}, Lenient))
\* Text, nothing, no JPEG, HTML, PDF.
testInvalidFormats ==
    Process("fresh", {}, ExpectFailure) \o Process("empty", {}, ExpectFailure)
        \o Times(3, Process("fresh", {}, ExpectFailure))
\* To a host that does not exist.
testNetworkErrors == Do("refuse", Refused)
\* All uploads must get a verdict and one must succeed; two stand for 5, 10, 20.
testConcurrentRequests ==
    Times(3, One("parallel", {"fresh", "more"}, {"net"}, Strict))
testInvalidJWT ==
    Times(2, Do("refuse", Refused)) \o Do("expired", Refused) \o Do("refuse", Refused)
testMalformedRequests == Times(4, Do("refuse", Refused))
\* Fifty uploads of the same bytes count as one: what becomes of each is swallowed.
testRateLimiting == Process("png", {}, Always)
testCorruptedFiles ==
    Times(2, Process("fresh", {}, ExpectFailure)) \o Process("empty", {}, ExpectFailure)
\* When the download fails createSyntheticLargeImage writes the minimal PNG.
testMemoryLimits ==
    Times(3, One("process", {"fresh", "png"}, {"net"}, Lenient))

EdgeTests ==
    testLargeFiles \o testInvalidFormats \o testNetworkErrors \o testConcurrentRequests
        \o testInvalidJWT \o testMalformedRequests \o testRateLimiting
        \o testCorruptedFiles \o testMemoryLimits

-----------------------------------------------------------------------------

Suite == {"basic", "codec", "backend", "edge"}

Tests(suite) ==
    CASE suite = "basic" -> BasicTests
      [] suite = "codec" -> CodecTests
      [] suite = "backend" -> BackendTests
      [] suite = "edge" -> EdgeTests

=============================================================================
