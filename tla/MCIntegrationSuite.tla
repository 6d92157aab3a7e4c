------------------------ MODULE MCIntegrationSuite ------------------------
(* All suites at this commit and with only the start mended, two suites with   *)
(* everything mended, and each suite by itself with one thing left.             *)
EXTENDS IntegrationSuite

AllSuites == <<"basic", "codec", "backend", "edge">>
Invoke(mended, suites, output) == [mended |-> mended, suites |-> suites, output |-> output]

Unmended ==
    {Invoke(mended, AllSuites, output) :
        mended \in {{}, {"announces"}}, output \in {"human", "json", "junit"}}

Pairs == {Invoke(Mendable, pair, "human") :
             pair \in {<<"basic", "codec">>, <<"codec", "backend">>, <<"edge", "basic">>}}

\* The disagreements that a suite can meet.
Meets(name) ==
    {"announces", "token", "answer", "returns", "forgets"} \cup
        CASE name = "basic" -> {"unknown", "status", "cancel"}
          [] name = "edge" -> {"expires"}
          [] OTHER -> {}

Single ==
    UNION {{Invoke(Mendable \ {what}, <<name>>, "none") : what \in Meets(name)} :
               name \in Suite}

Invocations == Unmended \cup Pairs \cup Single

\* For the violated property: everything mended, and a server that dies.
Swallowing == Pairs

=============================================================================
