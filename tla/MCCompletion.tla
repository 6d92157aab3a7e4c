---------------------------- MODULE MCCompletion ----------------------------
(* Two clients; the clock is long enough for a record of one run to age out    *)
(* while a second run of the hash ends.                                        *)
EXTENDS Completion

CONSTANTS h1, h2, c1, c2

Hashes == {h1, h2}
OneHash == {h1}
Clients == {c1, c2}
FaultyStores == {"success"}

=============================================================================
