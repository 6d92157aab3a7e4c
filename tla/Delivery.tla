------------------------------ MODULE Delivery ------------------------------
(***************************************************************************)
(* What the server promises to those who upload, whatever crashes and      *)
(* restarts come between: an accepted upload is held until a success was   *)
(* told and called back, or a store has lost a verdict; it is tried once in *)
(* a life of the server at most, and called back once for a try at most;   *)
(* no upload has a verdict before it is tried, and none has success that   *)
(* was never complete.                                                     *)
(*                                                                         *)
(* What it does not promise: an answer is given under the name alone, so   *)
(* that it may be the verdict of an earlier upload of that name, also      *)
(* before the latest one is tried.  That a record gets old and goes is     *)
(* left to RecordStore.                                                    *)
(***************************************************************************)
EXTENDS Integers

CONSTANT Hash           \* the names that uploads get

VARIABLES
    lives,              \* how often the server was started
    since,              \* hash -> the life in which its latest upload came
    accepted,           \* the hashes whose latest upload is complete
    held,               \* those whose upload is still there as a whole
    tries,              \* hash -> how often the latest upload was tried
    verdicts,           \* hash -> the verdicts of the latest upload
    told,               \* hash -> those that can be asked for under the name
    lost,               \* the hashes of which a store has lost a verdict
    calls               \* hash -> how often success was called back

vars == <<lives, since, accepted, held, tries, verdicts, told, lost, calls>>

Init ==
    /\ lives = 0
    /\ since = [h \in Hash |-> 0]
    /\ accepted = {}
    /\ held = {}
    /\ tries = [h \in Hash |-> 0]
    /\ verdicts = [h \in Hash |-> {}]
    /\ told = [h \in Hash |-> {}]
    /\ lost = {}
    /\ calls = [h \in Hash |-> 0]

Live ==
    /\ lives' = lives + 1
    /\ UNCHANGED <<since, accepted, held, tries, verdicts, told, lost, calls>>

\* An upload comes under a name that no upload holds.  What is told of the one before
\* it goes on being told.
Receive(h) ==
    /\ h \notin held
    /\ since' = [since EXCEPT ![h] = lives]
    /\ accepted' = accepted \ {h}
    /\ tries' = [tries EXCEPT ![h] = 0]
    /\ verdicts' = [verdicts EXCEPT ![h] = {}]
    /\ lost' = lost \ {h}
    /\ calls' = [calls EXCEPT ![h] = 0]
    /\ UNCHANGED <<lives, held, told>>

\* It is complete.  Nothing has been done with it before.
Accept(h) ==
    /\ h \notin accepted /\ h \notin lost
    /\ tries[h] = 0 /\ calls[h] = 0 /\ verdicts[h] = {}
    /\ accepted' = accepted \cup {h}
    /\ held' = held \cup {h}
    /\ UNCHANGED <<lives, since, tries, verdicts, told, lost, calls>>

\* Once in each life since it came.  (What a crash has cut short is tried too.)
Try(h) ==
    /\ tries[h] <= lives - since[h]
    /\ tries' = [tries EXCEPT ![h] = @ + 1]
    /\ UNCHANGED <<lives, since, accepted, held, verdicts, told, lost, calls>>

Tell(h, v) ==
    /\ tries[h] > 0
    /\ v = "success" => h \in accepted
    /\ verdicts' = [verdicts EXCEPT ![h] = @ \cup {v}]
    /\ told' = [told EXCEPT ![h] = @ \cup {v}]
    /\ UNCHANGED <<lives, since, accepted, held, tries, lost, calls>>

Lose(h) ==
    /\ tries[h] > 0
    /\ lost' = lost \cup {h}
    /\ UNCHANGED <<lives, since, accepted, held, tries, verdicts, told, calls>>

\* It has its own success, which can be asked for, unless a store has lost it.
Settled(h) == "success" \in verdicts[h] \/ h \in lost

Call(h) ==
    /\ h \in accepted
    /\ calls[h] < tries[h]
    /\ Settled(h)
    /\ calls' = [calls EXCEPT ![h] = @ + 1]
    /\ UNCHANGED <<lives, since, accepted, held, tries, verdicts, told, lost>>

\* The upload goes when the callback has been sent.
Drop(h) ==
    /\ calls[h] > 0
    /\ Settled(h)
    /\ held' = held \ {h}
    /\ UNCHANGED <<lives, since, accepted, tries, verdicts, told, lost, calls>>

Next ==
    \/ Live
    \/ \E h \in Hash :
        \/ Receive(h) \/ Accept(h)
        \/ Try(h) \/ (\E v \in {"success", "failed"} : Tell(h, v)) \/ Lose(h)
        \/ Call(h) \/ Drop(h)

Spec == Init /\ [][Next]_vars

=============================================================================
