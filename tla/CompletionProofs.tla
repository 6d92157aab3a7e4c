-------------------------- MODULE CompletionProofs --------------------------
(***************************************************************************)
(* For every set of hashes and clients, every age and whatever errors the  *)
(* stores meet: what a sweep may delete, and what a client may be told.    *)
(***************************************************************************)
EXTENDS Completion, SequenceTheorems, TLAPS

\* One of the first n runs of the hash has the verdict.
HasVerdict(h, v, n) == \E k \in 1..n : verdicts[h][k] = v

StoredVerdict(s) == IF s = "success" THEN "success" ELSE "failed"

\* A record, set or about to be set, is the verdict of a run.
RecordOf(h) ==
    /\ records["success"][h] # None => HasVerdict(h, "success", Len(verdicts[h]))
    /\ records["failures"][h] # None => HasVerdict(h, "failed", Len(verdicts[h]))
    /\ writing[h] # None => HasVerdict(h, StoredVerdict(writing[h].store), Len(verdicts[h]))

RecordIsVerdict == \A h \in Hash : RecordOf(h)

\* The runs a client looked back on are still there.
AnswerOf(c) ==
    client[c].at = "answered" =>
        /\ client[c].answer \in Verdict
        /\ client[c].runs <= Len(verdicts[client[c].hash])
        /\ HasVerdict(client[c].hash, client[c].answer, client[c].runs)

AnswerIsVerdict == \A c \in Client : AnswerOf(c)

\* What is collected is old, until it is set again.
DoomedIsOld ==
    /\ cleaner = "begun" => cutoff <= now - MaxAge /\ doomed = {}
    /\ \A h \in doomed \ overwritten :
          records[sweeping][h] # None => records[sweeping][h] < now - MaxAge

IInv == TypeOK /\ RecordIsVerdict /\ AnswerIsVerdict /\ DoomedIsOld

-----------------------------------------------------------------------------
(* The list of verdicts of a hash, and the state of a client. *)

\* A verdict that replaces "underway" keeps the list and every verdict in it.
LEMMA VerdictReplaces ==
    ASSUME NEW s \in Seq(Verdict \cup {"underway"}), s # <<>>, s[Len(s)] = "underway",
           NEW v \in Verdict, NEW t, t = [s EXCEPT ![Len(s)] = v]
    PROVE  /\ t \in Seq(Verdict \cup {"underway"}) /\ Len(t) = Len(s)
           /\ t[Len(s)] = v /\ Len(s) \in 1..Len(s)
           /\ \A k \in 1..Len(s) : s[k] \in Verdict => t[k] = s[k]
<1>1. Len(s) \in 1..Len(s)
  OBVIOUS
<1>2. "underway" \notin Verdict
  BY DEF Verdict
<1>3. /\ t \in Seq(Verdict \cup {"underway"}) /\ Len(t) = Len(s)
      /\ \A k \in 1..Len(s) : t[k] = IF k = Len(s) THEN v ELSE s[k]
  <2> DEFINE S == Verdict \cup {"underway"}
  <2>1. s \in Seq(S) /\ v \in S
    OBVIOUS
  <2> HIDE DEF S
  <2>2. /\ [s EXCEPT ![Len(s)] = v] \in Seq(S)
        /\ Len([s EXCEPT ![Len(s)] = v]) = Len(s)
        /\ \A k \in 1..Len(s) : [s EXCEPT ![Len(s)] = v][k] = IF k = Len(s) THEN v ELSE s[k]
    BY <1>1, <2>1, ExceptSeq
  <2> QED BY <2>2 DEF S
<1> QED BY <1>1, <1>2, <1>3

\* A new run comes at the end.
LEMMA RunAppends ==
    ASSUME NEW s \in Seq(Verdict \cup {"underway"}), NEW t, t = Append(s, "underway")
    PROVE  /\ t \in Seq(Verdict \cup {"underway"}) /\ Len(t) = Len(s) + 1
           /\ \A k \in 1..Len(s) : t[k] = s[k]
OBVIOUS

\* What the steps of Next do to the verdicts: the lists grow, and keep the verdicts.
VerdictsGrow ==
    \A h \in Hash :
        /\ Len(verdicts'[h]) >= Len(verdicts[h])
        /\ \A k \in 1..Len(verdicts[h]) :
              verdicts[h][k] \in Verdict => verdicts'[h][k] = verdicts[h][k]

\* JobDecides fills in the last entry.
LEMMA DecidesGrows ==
    ASSUME TypeOK, NEW h \in Hash, NEW v \in Verdict, JobDecides(h, v)
    PROVE  /\ VerdictsGrow
           /\ verdicts' \in [Hash -> Seq(Verdict \cup {"underway"})]
           /\ \A g \in Hash : Len(verdicts'[g]) = Len(verdicts[g])
           /\ \E k \in 1..Len(verdicts'[h]) : verdicts'[h][k] = v
<1> DEFINE s == verdicts[h]
           t == verdicts'[h]
<1>1. /\ s \in Seq(Verdict \cup {"underway"}) /\ s # <<>> /\ s[Len(s)] = "underway"
      /\ verdicts \in [Hash -> Seq(Verdict \cup {"underway"})]
  BY DEF TypeOK, JobDecides, LastVerdict
<1>2. verdicts' = [verdicts EXCEPT ![h] = [s EXCEPT ![Len(s)] = v]]
  BY DEF JobDecides
<1>3. t = [s EXCEPT ![Len(s)] = v] /\ \A g \in Hash \ {h} : verdicts'[g] = verdicts[g]
  BY <1>1, <1>2
<1>4. /\ t \in Seq(Verdict \cup {"underway"}) /\ Len(t) = Len(s)
      /\ t[Len(s)] = v /\ Len(s) \in 1..Len(s)
      /\ \A k \in 1..Len(s) : s[k] \in Verdict => t[k] = s[k]
  <2>1. v \in Verdict
    OBVIOUS
  <2> HIDE DEF s, t
  <2> QED BY ONLY <1>1, <1>3, <2>1, VerdictReplaces
<1>5. verdicts' \in [Hash -> Seq(Verdict \cup {"underway"})]
  <2>1. [s EXCEPT ![Len(s)] = v] \in Seq(Verdict \cup {"underway"})
    BY <1>3, <1>4
  <2>2. h \in Hash
    OBVIOUS
  <2> HIDE DEF s
  <2> QED BY ONLY <1>1, <1>2, <2>1, <2>2
<1>6. \A g \in Hash : Len(verdicts[g]) \in Nat
  BY <1>1
<1>7. VerdictsGrow
  BY <1>3, <1>4, <1>6 DEF VerdictsGrow
<1> QED BY <1>3, <1>4, <1>5, <1>7

\* Upload adds an entry.
LEMMA UploadGrows ==
    ASSUME TypeOK, NEW c \in Client, Upload(c)
    PROVE  /\ VerdictsGrow
           /\ verdicts' \in [Hash -> Seq(Verdict \cup {"underway"})]
           /\ \A g \in Hash : Len(verdicts'[g]) <= MaxRuns
<1> DEFINE h == client[c].hash
           s == verdicts[h]
           t == verdicts'[h]
<1>1. /\ h \in Hash /\ s \in Seq(Verdict \cup {"underway"})
      /\ verdicts \in [Hash -> Seq(Verdict \cup {"underway"})]
  BY DEF TypeOK, ClientState
<1>2. verdicts' = [verdicts EXCEPT ![h] = Append(s, "underway")] /\ Len(s) < MaxRuns
  BY DEF Upload
<1>3. t = Append(s, "underway") /\ \A g \in Hash \ {h} : verdicts'[g] = verdicts[g]
  BY <1>1, <1>2
<1>4. /\ t \in Seq(Verdict \cup {"underway"}) /\ Len(t) = Len(s) + 1
      /\ \A k \in 1..Len(s) : t[k] = s[k]
  <2> HIDE DEF s, t
  <2> QED BY <1>1, <1>3, RunAppends
<1>5. verdicts' \in [Hash -> Seq(Verdict \cup {"underway"})]
  <2>1. Append(s, "underway") \in Seq(Verdict \cup {"underway"})
    BY <1>3, <1>4
  <2> HIDE DEF s, h
  <2> QED BY ONLY <1>1, <1>2, <2>1
<1>6. \A g \in Hash : Len(verdicts[g]) \in Nat
  BY <1>1
<1>7. VerdictsGrow
  <2> HIDE DEF s, t, h
  <2>1. verdicts[h] = s /\ verdicts'[h] = t
    BY DEF s, t
  <2> QED BY <1>1, <1>3, <1>4, <1>6, <2>1 DEF VerdictsGrow
<1>8. \A g \in Hash : Len(verdicts'[g]) <= MaxRuns
  <2> HIDE DEF s, t, h
  <2>1. verdicts[h] = s /\ verdicts'[h] = t
    BY DEF s, t
  <2>2. Len(s) \in Nat /\ \A g \in Hash : Len(verdicts[g]) <= MaxRuns
    BY <1>1, <1>6, <2>1 DEF TypeOK
  <2> QED BY <1>2, <1>3, <1>4, <2>1, <2>2, MaxRunsAssumption
<1> QED BY <1>5, <1>7, <1>8

\* A verdict that some run had is had by it for ever.
LEMMA VerdictStays ==
    ASSUME TypeOK, VerdictsGrow, NEW h \in Hash, NEW v \in Verdict,
           \E k \in 1..Len(verdicts[h]) : verdicts[h][k] = v
    PROVE  \E k \in 1..Len(verdicts'[h]) : verdicts'[h][k] = v
<1>1. PICK k \in 1..Len(verdicts[h]) : verdicts[h][k] = v
  OBVIOUS
<1>2. Len(verdicts[h]) \in Nat
  BY DEF TypeOK
<1>3. k <= Len(verdicts'[h]) /\ verdicts'[h][k] = v
  BY <1>1, <1>2 DEF VerdictsGrow
<1> QED BY <1>1, <1>2, <1>3

\* So does an answer.
LEMMA AnswerStays ==
    ASSUME TypeOK, VerdictsGrow, NEW c \in Client, AnswerOf(c), client'[c] = client[c]
    PROVE  AnswerOf(c)'
<1> SUFFICES ASSUME client[c].at = "answered" PROVE AnswerOf(c)'
  BY DEF AnswerOf
<1>1. /\ client[c].hash \in Hash /\ client[c].runs \in Nat
      /\ Len(verdicts[client[c].hash]) \in Nat
  BY DEF TypeOK, ClientState
<1>2. HasVerdict(client[c].hash, client[c].answer, client[c].runs)'
  <2>1. \E k \in 1..client[c].runs : verdicts[client[c].hash][k] = client[c].answer
    BY DEF AnswerOf, HasVerdict
  <2> QED BY <1>1, <2>1 DEF AnswerOf, HasVerdict, VerdictsGrow
<1>3. client[c].runs <= Len(verdicts'[client[c].hash])
  <2>1. \A m, n \in Nat : m <= n => \A l \in Int : l >= n => m <= l
    OBVIOUS
  <2>2. Len(verdicts'[client[c].hash]) >= Len(verdicts[client[c].hash])
    BY <1>1 DEF VerdictsGrow
  <2> QED BY <1>1, <2>2 DEF AnswerOf
<1> QED BY <1>2, <1>3 DEF AnswerOf

\* A client that goes on keeps what it waits for.
LEMMA BecomesKeeps ==
    ASSUME TypeOK, NEW c \in Client,
           NEW state \in {"start"} \cup Waiting \cup Ended, Becomes(c, state)
    PROVE  /\ client' \in [Client -> ClientState]
           /\ client'[c].at = state
           /\ \A d \in Client \ {c} : client'[d] = client[d]
<1>1. client[c] \in ClientState
  BY DEF TypeOK
<1>2. [client[c] EXCEPT !.at = state] \in ClientState
  BY <1>1 DEF ClientState
<1> QED BY <1>2 DEF TypeOK, Becomes, ClientState

-----------------------------------------------------------------------------
\* Every step keeps the types.
LEMMA TypeStep == TypeOK /\ [Next]_vars => TypeOK'
<1> SUFFICES ASSUME TypeOK, [Next]_vars PROVE TypeOK'
  OBVIOUS
<1> USE MaxAgeAssumption, MaxTimeAssumption, MaxErrorsAssumption, NoneAssumption DEF
      TypeOK, StoreTypeOK, storeVars, Store, Time, Cleaner, Verdict, Waiting, Ended,
      ClientState
<1>1. CASE ClockStep
  BY <1>1 DEF ClockStep, Tick
<1>2. CASE TickerFires /\ UNCHANGED <<verdicts, directory, client>>
  BY <1>2 DEF TickerFires, BeginSweep
<1>3. CASE Snapshot /\ UNCHANGED <<verdicts, directory, client>>
  BY <1>3 DEF Snapshot, OldKeys
<1>4. CASE SnapshotCutShort /\ UNCHANGED <<verdicts, directory, client>>
  BY <1>4 DEF SnapshotCutShort, OldKeys, Error
<1>5. CASE \E h \in Hash : Delete(h) /\ UNCHANGED <<verdicts, directory, client>>
  BY <1>5 DEF Delete
<1>6. CASE SweepDone /\ UNCHANGED <<verdicts, directory, client>>
  BY <1>6 DEF SweepDone, NextSweep, BeginSweep, Rest
<1>7. CASE SweepFails /\ UNCHANGED <<verdicts, directory, client>>
  BY <1>7 DEF SweepFails, Error, NextSweep, BeginSweep, Rest
<1>8. CASE \E h \in Hash, v \in Verdict : JobDecides(h, v)
  <2> SUFFICES ASSUME NEW h \in Hash, NEW v \in Verdict, JobDecides(h, v) PROVE TypeOK'
    BY <1>8
  <2> USE DEF JobDecides, Stamp, StoreOf
  <2>1. StoreTypeOK'
    OBVIOUS
  <2>2. /\ verdicts' \in [Hash -> Seq(Verdict \cup {"underway"})]
        /\ \A g \in Hash : Len(verdicts'[g]) <= MaxRuns
    BY DecidesGrows
  <2> QED BY <2>1, <2>2
<1>9. CASE \E h \in Hash : JobRecords(h)
  <2> SUFFICES ASSUME NEW h \in Hash, writing[h] # None,
                      Set(h) \/ SetFails(h), UNCHANGED <<verdicts, directory, client>>
               PROVE  TypeOK'
    BY <1>9 DEF JobRecords, Set, SetFails
  <2>1. writing[h] \in [store : Store, at : Time]
    OBVIOUS
  <2>2. CASE Set(h)
    <3>1. records' \in [Store -> [Hash -> Time \cup {None}]]
      BY <2>1, <2>2 DEF Set
    <3> QED BY <2>2, <3>1 DEF Set
  <2>3. CASE SetFails(h)
    BY <2>3 DEF SetFails
  <2> QED BY <2>2, <2>3
<1>10. CASE \E h \in Hash : JobRemovesDirectory(h)
  BY <1>10 DEF JobRemovesDirectory
<1>11. CASE \E c \in Client : Upload(c)
  <2> SUFFICES ASSUME NEW c \in Client, Upload(c) PROVE TypeOK'
    BY <1>11
  <2>1. /\ verdicts' \in [Hash -> Seq(Verdict \cup {"underway"})]
        /\ \A g \in Hash : Len(verdicts'[g]) <= MaxRuns
    BY UploadGrows
  <2>2. client[c] \in ClientState /\ now + MaxWait \in Nat
    BY MaxWaitAssumption
  <2>3. Len(verdicts[client[c].hash]) + 1 \in 0..MaxRuns
    BY <2>2, MaxRunsAssumption DEF Upload
  <2>4. client' \in [Client -> ClientState]
    BY <2>2, <2>3 DEF Upload
  <2>5. directory' \subseteq Hash
    BY <2>2 DEF Upload
  <2> QED BY <2>1, <2>4, <2>5 DEF Upload
<1>12. CASE \E c \in Client : UploadRefused(c)
  BY <1>12, BecomesKeeps DEF UploadRefused
<1>13. CASE \E c \in Client, type \in {"success", "failure"} : Poll(c, type)
  <2> SUFFICES ASSUME NEW c \in Client, NEW type \in {"success", "failure"}, Poll(c, type)
               PROVE  TypeOK'
    BY <1>13
  <2>1. client[c] \in ClientState
    OBVIOUS
  <2>2. Len(verdicts[client[c].hash]) \in 0..MaxRuns
    BY <2>1, MaxRunsAssumption
  <2>3. CASE Answers(client[c].hash, type)
    <3>1. Status(client[c].hash, type) \in Verdict
      BY <2>3 DEF Answers
    <3>2. [client[c] EXCEPT !.at = "answered", !.answer = Status(client[c].hash, type),
                            !.runs = Len(verdicts[client[c].hash])] \in ClientState
      BY <2>1, <2>2, <3>1
    <3>3. client' \in [Client -> ClientState]
      BY <2>3, <3>2 DEF Poll
    <3> QED BY <3>3 DEF Poll
  <2>4. CASE ~ Answers(client[c].hash, type)
    BY <2>4, BecomesKeeps DEF Poll
  <2> QED BY <2>3, <2>4
<1>14. CASE \E c \in Client : PollFails(c)
  BY <1>14, BecomesKeeps DEF PollFails
<1>15. CASE \E c \in Client : WakeUp(c)
  BY <1>15, BecomesKeeps DEF WakeUp
<1>16. CASE UNCHANGED vars
  BY <1>16 DEF vars
<1> QED
  BY <1>1, <1>2, <1>3, <1>4, <1>5, <1>6, <1>7, <1>8, <1>9, <1>10, <1>11, <1>12, <1>13,
     <1>14, <1>15, <1>16 DEF Next, CleanerStep, Sweep, JobStep, WaitStep

\* Verdicts stay, and a record is stamped when its verdict is there.
LEMMA RecordIsVerdictStep == IInv /\ [Next]_vars => RecordIsVerdict'
<1> SUFFICES ASSUME IInv, [Next]_vars PROVE RecordIsVerdict'
  OBVIOUS
<1> USE MaxAgeAssumption, MaxTimeAssumption, MaxErrorsAssumption, NoneAssumption DEF
      IInv, TypeOK, StoreTypeOK, RecordIsVerdict, HasVerdict, storeVars, Store
<1>1. CASE \E h \in Hash : Delete(h) /\ UNCHANGED <<verdicts, directory, client>>
  <2>1. UNCHANGED <<verdicts, writing>>
    BY <1>1 DEF Delete
  <2>2. \A s \in Store, h \in Hash : records'[s][h] # None => records[s][h] # None
    BY <1>1 DEF Delete
  <2> QED BY <2>1, <2>2 DEF RecordOf
<1>2. CASE \E h \in Hash, v \in Verdict : JobDecides(h, v)
  <2> SUFFICES ASSUME NEW h \in Hash, NEW v \in Verdict, JobDecides(h, v),
                      NEW g \in Hash
               PROVE  RecordOf(g)'
    BY <1>2 DEF RecordIsVerdict
  <2>1. /\ VerdictsGrow /\ Len(verdicts[g]) \in Nat /\ Len(verdicts'[g]) = Len(verdicts[g])
        /\ HasVerdict(h, v, Len(verdicts[h]))'
    BY DecidesGrows DEF HasVerdict
  <2>2. \A w \in Verdict :
           HasVerdict(g, w, Len(verdicts[g])) => HasVerdict(g, w, Len(verdicts[g]))'
    BY <2>1, VerdictStays DEF HasVerdict
  <2>3. UNCHANGED records
    BY DEF JobDecides, Stamp
  <2>4. CASE g # h
    <3>1. writing'[g] = writing[g]
      BY <2>4 DEF JobDecides, Stamp
    <3>2. RecordOf(g)
      BY DEF RecordIsVerdict
    <3> QED BY <2>2, <2>3, <3>1, <3>2 DEF RecordOf, StoredVerdict, Verdict
  <2>5. CASE g = h
    <3>1. writing'[g] = [store |-> StoreOf(v), at |-> now]
      BY <2>5 DEF JobDecides, Stamp
    <3>2. StoredVerdict(writing'[g].store) = v
      BY <3>1 DEF StoredVerdict, StoreOf, Verdict
    <3>3. RecordOf(g)
      BY DEF RecordIsVerdict
    <3> QED BY <2>1, <2>2, <2>3, <2>5, <3>2, <3>3 DEF RecordOf, Verdict
  <2> QED BY <2>4, <2>5
<1>3. CASE \E h \in Hash : JobRecords(h)
  <2> SUFFICES ASSUME NEW h \in Hash, writing[h] # None,
                      Set(h) \/ SetFails(h), UNCHANGED <<verdicts, directory, client>>,
                      NEW g \in Hash
               PROVE  RecordOf(g)'
    BY <1>3 DEF JobRecords, Set, SetFails, RecordIsVerdict
  <2>1. writing[h] \in [store : Store, at : Time] /\ RecordOf(g) /\ RecordOf(h)
    BY DEF RecordIsVerdict
  <2>2. writing'[g] # None => writing'[g] = writing[g] /\ g # h
    BY DEF Set, SetFails
  <2>3. CASE g = h /\ Set(h)
    <3>1. \A s \in Store : records'[s][g] # None => records[s][g] # None \/ s = writing[h].store
      BY <2>1, <2>3 DEF Set
    <3> QED BY <2>1, <2>2, <2>3, <3>1 DEF RecordOf, StoredVerdict
  <2>4. CASE g # h \/ SetFails(h)
    <3>1. \A s \in Store : records'[s][g] = records[s][g]
      BY <2>1, <2>4 DEF Set, SetFails
    <3> QED BY <2>1, <2>2, <3>1 DEF RecordOf
  <2> QED BY <2>3, <2>4
<1>4. CASE \E c \in Client : Upload(c)
  <2> SUFFICES ASSUME NEW c \in Client, Upload(c), NEW g \in Hash PROVE RecordOf(g)'
    BY <1>4 DEF RecordIsVerdict
  <2>1. VerdictsGrow /\ Len(verdicts[g]) \in Nat
    BY UploadGrows
  <2>2. \A w \in Verdict :
           HasVerdict(g, w, Len(verdicts[g])) => HasVerdict(g, w, Len(verdicts[g]))'
    BY <2>1, VerdictStays DEF HasVerdict
  <2>3. UNCHANGED <<records, writing>> /\ RecordOf(g)
    BY DEF Upload, RecordIsVerdict
  <2> QED BY <2>2, <2>3 DEF RecordOf, StoredVerdict, Verdict
<1>5. CASE \/ ClockStep
           \/ (TickerFires \/ Snapshot \/ SnapshotCutShort \/ SweepDone \/ SweepFails) /\ UNCHANGED
                 <<verdicts, directory, client>>
           \/ \E h \in Hash : JobRemovesDirectory(h)
           \/ \E c \in Client : UploadRefused(c) \/ PollFails(c) \/ WakeUp(c)
           \/ \E c \in Client, type \in {"success", "failure"} : Poll(c, type)
           \/ UNCHANGED vars
  <2>1. UNCHANGED <<verdicts, records, writing>>
    BY <1>5 DEF ClockStep, Tick, TickerFires, BeginSweep, Snapshot, OldKeys, SnapshotCutShort, Error,
         SweepDone, NextSweep, Rest, SweepFails, JobRemovesDirectory, UploadRefused,
         Becomes, Poll, Answers, Status, PollFails, WakeUp, InTime, vars
  <2> QED BY <2>1 DEF RecordOf
<1> QED
  BY <1>1, <1>2, <1>3, <1>4, <1>5 DEF Next, CleanerStep, Sweep, JobStep, WaitStep

\* An answer is read from a record.
LEMMA AnswerIsVerdictStep == IInv /\ [Next]_vars => AnswerIsVerdict'
<1> SUFFICES ASSUME IInv, [Next]_vars PROVE AnswerIsVerdict'
  OBVIOUS
<1> USE MaxAgeAssumption, MaxTimeAssumption, MaxErrorsAssumption, NoneAssumption DEF
      IInv, TypeOK, StoreTypeOK, RecordIsVerdict, AnswerIsVerdict, HasVerdict,
      storeVars, Verdict, ClientState
<1>1. CASE \E h \in Hash, v \in Verdict : JobDecides(h, v)
  <2> SUFFICES ASSUME NEW h \in Hash, NEW v \in Verdict, JobDecides(h, v), NEW c \in Client
               PROVE  AnswerOf(c)'
    BY <1>1 DEF AnswerIsVerdict
  <2>1. VerdictsGrow /\ UNCHANGED client
    BY DecidesGrows DEF JobDecides
  <2> QED BY <2>1, AnswerStays DEF AnswerIsVerdict
<1>2. CASE \E c \in Client : Upload(c)
  <2> SUFFICES ASSUME NEW d \in Client, Upload(d), NEW c \in Client PROVE AnswerOf(c)'
    BY <1>2 DEF AnswerIsVerdict
  <2>1. VerdictsGrow
    BY UploadGrows
  <2>2. c = d => client'[c].at # "answered"
    BY DEF Upload
  <2>3. c # d => client'[c] = client[c]
    BY DEF Upload
  <2> QED BY <2>1, <2>2, <2>3, AnswerStays DEF AnswerOf, AnswerIsVerdict
<1>3. CASE \E c \in Client, type \in {"success", "failure"} : Poll(c, type)
  <2> SUFFICES ASSUME NEW d \in Client, NEW type \in {"success", "failure"}, Poll(d, type),
                      NEW c \in Client
               PROVE  AnswerOf(c)'
    BY <1>3 DEF AnswerIsVerdict
  <2> DEFINE h == client[d].hash
  <2>1. h \in Hash /\ Len(verdicts[h]) \in Nat /\ UNCHANGED verdicts /\ AnswerOf(c)
    BY DEF Poll, AnswerIsVerdict, ClientState
  <2>2. CASE c # d
    <3>1. client'[c] = client[c]
      BY <2>2 DEF Poll, Becomes
    <3> QED BY <2>1, <3>1 DEF AnswerOf, HasVerdict
  <2>3. CASE c = d /\ Answers(h, type)
    <3>1. /\ client'[c].hash = h
          /\ client'[c].answer = Status(h, type) /\ client'[c].runs = Len(verdicts[h])
      BY <2>3 DEF Poll
    <3>2. Status(h, type) \in Verdict /\ HasVerdict(h, Status(h, type), Len(verdicts[h]))
      BY <2>1, <2>3 DEF Answers, Status, RecordIsVerdict, RecordOf, Verdict
    <3> QED BY <2>1, <3>1, <3>2 DEF AnswerOf, HasVerdict
  <2>4. CASE c = d /\ ~ Answers(h, type)
    <3>1. client'[c].at # "answered"
      BY <2>4 DEF Poll, Becomes
    <3> QED BY <3>1 DEF AnswerOf
  <2> QED BY <2>2, <2>3, <2>4
<1>4. CASE \/ ClockStep
           \/ (TickerFires \/ Snapshot \/ SnapshotCutShort \/ SweepDone \/ SweepFails) /\ UNCHANGED
                 <<verdicts, directory, client>>
           \/ \E h \in Hash : (Delete(h)) /\ UNCHANGED <<verdicts, directory, client>>
           \/ \E h \in Hash : JobRecords(h) \/ JobRemovesDirectory(h)
           \/ \E c \in Client : UploadRefused(c) \/ PollFails(c) \/ WakeUp(c)
           \/ UNCHANGED vars
  <2>1. CASE \E c \in Client : UploadRefused(c) \/ PollFails(c) \/ WakeUp(c)
    <3>1. /\ UNCHANGED verdicts
          /\ \A c \in Client : client'[c].at = "answered" => client'[c] = client[c]
      <4> SUFFICES ASSUME NEW c \in Client, NEW state \in {"error", "success", "timeout"},
                          Becomes(c, state), UNCHANGED verdicts
                   PROVE  \A d \in Client : client'[d].at = "answered" => client'[d] = client[d]
        BY <2>1 DEF UploadRefused, PollFails, WakeUp
      <4> QED BY BecomesKeeps DEF Waiting, Ended
    <3> QED BY <3>1 DEF AnswerOf
  <2>2. CASE UNCHANGED <<verdicts, client>>
    BY <2>2 DEF AnswerOf
  <2> QED
    BY <1>4, <2>1, <2>2 DEF ClockStep, Tick, TickerFires, BeginSweep, Snapshot, OldKeys, SnapshotCutShort, Error,
         Delete, SweepDone, NextSweep, Rest, SweepFails, JobRecords, Set, SetFails,
         JobRemovesDirectory, UploadRefused, Becomes, PollFails, WakeUp, InTime, vars
<1> QED
  BY <1>1, <1>2, <1>3, <1>4 DEF Next, CleanerStep, Sweep, JobStep, WaitStep

\* Time passes, and what is set again is noted.
LEMMA DoomedIsOldStep == IInv /\ [Next]_vars => DoomedIsOld'
<1> SUFFICES ASSUME IInv, [Next]_vars PROVE DoomedIsOld'
  OBVIOUS
<1> USE MaxAgeAssumption, MaxTimeAssumption, MaxErrorsAssumption, NoneAssumption DEF
      IInv, TypeOK, StoreTypeOK, DoomedIsOld, storeVars, Store, Time
<1>1. CASE ClockStep
  BY <1>1 DEF ClockStep, Tick
<1>2. CASE TickerFires /\ UNCHANGED <<verdicts, directory, client>>
  BY <1>2 DEF TickerFires, BeginSweep
<1>3. CASE Snapshot /\ UNCHANGED <<verdicts, directory, client>>
  BY <1>3 DEF Snapshot, OldKeys
<1>4. CASE SnapshotCutShort /\ UNCHANGED <<verdicts, directory, client>>
  BY <1>4 DEF SnapshotCutShort, OldKeys, Error
<1>5. CASE \E h \in Hash : Delete(h) /\ UNCHANGED <<verdicts, directory, client>>
  BY <1>5 DEF Delete
<1>6. CASE SweepDone /\ UNCHANGED <<verdicts, directory, client>>
  BY <1>6 DEF SweepDone, NextSweep, BeginSweep, Rest
<1>7. CASE SweepFails /\ UNCHANGED <<verdicts, directory, client>>
  BY <1>7 DEF SweepFails, Error, NextSweep, BeginSweep, Rest
<1>8. CASE \E h \in Hash, v \in Verdict : JobDecides(h, v)
  BY <1>8 DEF JobDecides, Stamp, StoreOf, LastVerdict
<1>9. CASE \E h \in Hash : JobRecords(h)
  BY <1>9 DEF JobRecords, Set, SetFails
<1>10. CASE \/ \E h \in Hash : JobRemovesDirectory(h)
            \/ \E c \in Client : Upload(c) \/ UploadRefused(c) \/ PollFails(c) \/ WakeUp(c)
            \/ \E c \in Client, type \in {"success", "failure"} : Poll(c, type)
            \/ UNCHANGED vars
  BY <1>10 DEF JobRemovesDirectory, Upload, UploadRefused, Becomes, Poll, Answers,
     Status, PollFails, WakeUp, InTime, vars
<1> QED
  BY <1>1, <1>2, <1>3, <1>4, <1>5, <1>6, <1>7, <1>8, <1>9, <1>10 DEF Next, CleanerStep,
     Sweep, JobStep, WaitStep

\* It holds at the start.
LEMMA InitIInv == Init => IInv
<1> SUFFICES ASSUME Init PROVE IInv
  OBVIOUS
<1> USE DEF Init, StoreInit
<1>1. StoreTypeOK /\ directory \subseteq Hash
  BY MaxTimeAssumption, MaxErrorsAssumption DEF StoreTypeOK, Store, Time, Cleaner
<1>2. /\ verdicts \in [Hash -> Seq(Verdict \cup {"underway"})]
      /\ \A h \in Hash : Len(verdicts[h]) <= MaxRuns
  BY MaxRunsAssumption
<1>3. client \in [Client -> ClientState]
  BY MaxRunsAssumption DEF ClientState
<1>4. RecordIsVerdict
  BY DEF RecordIsVerdict, RecordOf, Store
<1>5. AnswerIsVerdict
  <2>1. \A c \in Client : client[c].at = "start"
    OBVIOUS
  <2> QED BY <2>1 DEF AnswerIsVerdict, AnswerOf
<1>6. DoomedIsOld
  BY DEF DoomedIsOld
<1> QED BY <1>1, <1>2, <1>3, <1>4, <1>5, <1>6 DEF IInv, TypeOK

LEMMA IInvStep == IInv /\ [Next]_vars => IInv'
<1> SUFFICES ASSUME IInv, [Next]_vars PROVE IInv'
  OBVIOUS
<1>1. TypeOK'
  BY TypeStep DEF IInv
<1> QED
  BY <1>1, RecordIsVerdictStep, AnswerIsVerdictStep, DoomedIsOldStep DEF IInv

\* Records, answers and sweeps keep the invariant, whatever is lost, aged out or
\* overwritten between the steps of job, client and clean-up.
THEOREM Inductive == Spec => []IInv
<1> QED BY InitIInv, IInvStep, PTL DEF Spec

\* Every variable keeps its type, those of the stores included.
THEOREM CompletionTypeCorrect == Spec => []TypeOK
<1>1. IInv => TypeOK
  BY DEF IInv
<1> QED BY <1>1, Inductive, PTL

\* Nothing a client is told is made up.
THEOREM AnswersAreVerdicts == Spec => []AnswerOfSomeRun
<1>1. IInv => AnswerOfSomeRun
  BY DEF IInv, AnswerIsVerdict, AnswerOf, HasVerdict, AnswerOfSomeRun
<1> QED BY <1>1, Inductive, PTL

\* Only a sweep takes a record away, and only an old one or one that was set again.
LEMMA DeleteStep ==
    ASSUME IInv, [Next]_vars, NEW s \in Store, NEW h \in Hash,
           records[s][h] # None, records'[s][h] = None
    PROVE  records[s][h] < now - MaxAge \/ (s = sweeping /\ h \in overwritten)
<1> USE DEF IInv, TypeOK, StoreTypeOK
<1>1. CASE \E g \in Hash : Delete(g) /\ UNCHANGED <<verdicts, directory, client>>
  <2>1. PICK g \in Hash : Delete(g)
    BY <1>1
  <2>2. g = h /\ s = sweeping
    BY <2>1 DEF Delete
  <2>3. h \in doomed
    BY <2>1, <2>2 DEF Delete
  <2> QED BY <2>2, <2>3 DEF DoomedIsOld
<1>2. CASE \E g \in Hash : JobRecords(g)
  <2>1. PICK g \in Hash : Set(g) \/ SetFails(g)
    BY <1>2 DEF JobRecords
  <2>2. CASE Set(g)
    <3>1. writing[g] \in [store : Store, at : Time] /\ writing[g].at # None
      BY <2>2, NoneAssumption DEF Set, Time
    <3>2. records'[s][h] = writing[g].at \/ records'[s][h] = records[s][h]
      BY <2>2, <3>1 DEF Set
    <3> QED BY <3>1, <3>2
  <2>3. CASE SetFails(g)
    BY <2>3 DEF SetFails
  <2> QED BY <2>1, <2>2, <2>3
<1>3. CASE UNCHANGED records
  BY <1>3
<1> QED
  BY <1>1, <1>2, <1>3 DEF Next, CleanerStep, Sweep, JobStep, WaitStep, ClockStep, Tick,
     TickerFires, Snapshot, SnapshotCutShort, SweepDone, SweepFails, JobDecides, Stamp,
     JobRemovesDirectory, Upload, UploadRefused, Poll, PollFails, WakeUp, vars, storeVars

\* The one way to lose a young record is to set it during the sweep.
THEOREM OnlyOldRecordsGo == Spec => DeletedWasOld
<1>1. IInv /\ [Next]_vars => [DeletedIsOld]_storeVars
  BY DeleteStep DEF DeletedIsOld
<1>2. [][DeletedIsOld]_storeVars => DeletedWasOld
  BY PTL DEF DeletedWasOld
<1> QED BY <1>1, <1>2, Inductive, PTL DEF Spec

=============================================================================
