---------------------------- MODULE JobPromise ----------------------------
(***************************************************************************)
(* What ProcessJob promises to the queue and to the outside: the files of  *)
(* a job that succeeds are all stored before it succeeds and none is       *)
(* written after; a job gives its verdict once; it returns only after its  *)
(* context was cancelled and the clean-up has run.                         *)
(***************************************************************************)
CONSTANT Required       \* what a job has to store: pairs of backend and file

VARIABLES
    stored,             \* what has been stored
    verdict,            \* "open", then "ok" or "error"
    ctxDone,            \* the context is cancelled
    cleaned,            \* the clean-up has run
    returned            \* ProcessJob has returned

vars == <<stored, verdict, ctxDone, cleaned, returned>>

Init ==
    /\ stored = {}
    /\ verdict = "open"
    /\ ctxDone = FALSE
    /\ cleaned = FALSE
    /\ returned = FALSE

\* A writer of a job that has failed may still be under way.
Store(x) ==
    /\ verdict # "ok"
    /\ stored' = stored \cup {x}
    /\ UNCHANGED <<verdict, ctxDone, cleaned, returned>>

Succeed ==
    /\ verdict = "open"
    /\ stored = Required
    /\ verdict' = "ok"
    /\ UNCHANGED <<stored, ctxDone, cleaned, returned>>

Fail ==
    /\ verdict = "open"
    /\ verdict' = "error"
    /\ UNCHANGED <<stored, ctxDone, cleaned, returned>>

Cancel ==
    /\ ctxDone' = TRUE
    /\ UNCHANGED <<stored, verdict, cleaned, returned>>

CleanUp ==
    /\ ctxDone
    /\ cleaned' = TRUE
    /\ UNCHANGED <<stored, verdict, ctxDone, returned>>

Return ==
    /\ verdict # "open"
    /\ cleaned
    /\ returned' = TRUE
    /\ UNCHANGED <<stored, verdict, ctxDone, cleaned>>

Next ==
    \/ \E x \in Required : Store(x)
    \/ Succeed
    \/ Fail
    \/ Cancel
    \/ CleanUp
    \/ Return

Spec == Init /\ [][Next]_vars

=============================================================================
