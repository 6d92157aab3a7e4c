--------------------------- MODULE UploadProofs ---------------------------
(***************************************************************************)
(* For every set of requests and every assignment of users to them, only a *)
(* race between looking and making lets two uploads share a directory.     *)
(***************************************************************************)
EXTENDS Upload, WellFoundedInduction, TLAPS

(* The next number is not in use. *)

\* A set of numbers up to SuffixBound has a greatest element.
LEMMA MaxOfNumbers ==
    ASSUME NEW S \in SUBSET Number, S # {}
    PROVE  Max(S) \in S /\ \A x \in S : x <= Max(S)
<1> DEFINE I == {SuffixBound - x : x \in S}
           R == {p \in Nat \X Nat : p[1] < p[2]}
<1>1. I \subseteq Nat /\ I # {}
  <2>1. \A x \in S : SuffixBound - x \in Nat
    BY BoundAssumption DEF Number
  <2> QED BY <2>1
<1>2. IsWellFoundedOn(R, Nat)
  BY NatLessThanWellFounded DEF OpToRel
<1>3. \E k \in I : \A i \in I : ~ (<<i, k>> \in R)
  <2> HIDE DEF I, R
  <2> QED BY <1>1, <1>2, WFMin
<1>4. PICK k \in I : \A i \in I : ~ (i < k)
  BY <1>1, <1>3
<1>5. PICK m \in S : k = SuffixBound - m
  OBVIOUS
<1>6. \A x \in S : x <= m
  BY <1>4, <1>5, BoundAssumption DEF Number
<1>7. \E m1 \in S : \A x \in S : m1 >= x
  BY <1>6, BoundAssumption DEF Number
<1>8. Max(S) \in S /\ \A x \in S : Max(S) >= x
  BY <1>7 DEF Max
<1> QED BY <1>8, BoundAssumption DEF Number

\* No existing directory is named by the next number.
LEMMA NextSuffixIsFresh ==
    /\ NextSuffix \in Nat
    /\ \A n \in Name : Exists(n) => n # NextSuffix
<1> DEFINE S == {0} \cup {Suffix(n) : n \in Matches}
<1>1. S \in SUBSET Number /\ S # {}
  BY BoundAssumption, SubjectAssumption DEF Number, Name, Suffix, Matches
<1>2. Max(S) \in Number /\ \A x \in S : x <= Max(S)
  <2> HIDE DEF S
  <2> QED BY <1>1, MaxOfNumbers
<1>3. NextSuffix = 1 + Max(S)
  BY DEF NextSuffix
<1> HIDE DEF S
<1>4. Max(S) \in Nat /\ NextSuffix \in Nat
  BY <1>2, <1>3, BoundAssumption DEF Number
<1>5. ASSUME NEW n \in Name, Exists(n), n = NextSuffix PROVE FALSE
  <2>1. Suffix(n) = n /\ Suffix(n) \in S
    BY <1>4, <1>5 DEF S, Matches, Suffix
  <2>2. n <= Max(S)
    BY <1>2, <2>1
  <2> QED BY <1>3, <1>4, <1>5, <2>2
<1> QED BY <1>4, <1>5

-----------------------------------------------------------------------------

Chosen == {"mkdir", "save", "create", "encode", "enqueue", "failed", "accepted"}
Made == Chosen \ {"mkdir"}

\* A name once picked stays.
Picked == \A h \in Request : finalHash[h] \in Name <=> pc[h] \in Chosen

\* Who is in a directory made it, under the name it picked.
MadeByChoice ==
    \A n \in Name : \A h \in makers[n] : finalHash[h] = n /\ pc[h] \in Made

\* What a request finds in its directory when it is about to make it came since
\* it looked.
FoundLater ==
    \A h \in Request : pc[h] = "mkdir" =>
        \A g \in makers[finalHash[h]] : g \in raced[h]

\* The same for the directory named by its user, ...
OwnFoundLater ==
    \A h \in Request : pc[h] \in {"glob", "mkdir"} =>
        \A g \in makers[User[h]] : g \in raced[h]

\* ... and for every directory, if its user's name is the one it picked.
AllFoundLater ==
    \A h \in Request : pc[h] = "mkdir" /\ User[h] \notin Int /\ finalHash[h] = User[h] =>
        \A n \in Name : \A g \in makers[n] : g \in raced[h]

Looking == FoundLater /\ OwnFoundLater /\ AllFoundLater

Alone(h) == \A g \in Request \ {h} : finalHash[g] # finalHash[h]

QueuedAreAccepted == \A h \in queued : pc[h] = "accepted"

\* How far a request that is alone with its name has filled its directory.
Filled ==
    \A h \in Request : Alone(h) =>
        /\ pc[h] \in {"save", "create", "encode", "enqueue"} \/ h \in queued => Writable(h)
        /\ pc[h] \in {"create", "encode", "enqueue"} \/ h \in queued => h \in saved[finalHash[h]]
        /\ pc[h] = "enqueue" \/ h \in queued => instr[finalHash[h]] = h

IInv ==
    /\ TypeOK
    /\ Picked
    /\ MadeByChoice
    /\ Looking
    /\ SharedOnlyByRace
    /\ OwnNameExcludesUser
    /\ QueuedAreAccepted
    /\ Filled

LEMMA InitIInv == Init => IInv
<1> SUFFICES ASSUME Init PROVE IInv
  OBVIOUS
<1> USE DEF Init
<1>1. TypeOK
  BY DEF TypeOK, PC
<1>2. Picked /\ MadeByChoice /\ Looking /\ SharedOnlyByRace
  BY NoneAssumption DEF Picked, MadeByChoice, Looking, FoundLater, OwnFoundLater, AllFoundLater,
     SharedOnlyByRace, Chosen
<1>3. OwnNameExcludesUser
  BY UserAssumption DEF OwnNameExcludesUser, Name
<1>4. QueuedAreAccepted /\ Filled
  BY DEF QueuedAreAccepted, Filled
<1> QED BY <1>1, <1>2, <1>3, <1>4 DEF IInv

(* Types. *)
LEMMA TypeStep ==
    ASSUME TypeOK, Picked, [Next]_vars
    PROVE  TypeOK'
<1> USE NoneAssumption, UserAssumption DEF TypeOK, Picked, Chosen, PC, Working, Goto, Exists, Writable, Name
<1>1. ASSUME NEW h \in Request, Handler(h) \/ JobRemovesDir(h) \/ JobFails(h)
      PROVE  TypeOK'
  <2>1. CASE Stat(h)
    BY <2>1 DEF Stat
  <2>2. CASE Glob(h)
    <3>1. User[h] \in Name /\ (Matches # {} => NextSuffix \in Name)
      BY <2>2, NextSuffixIsFresh, BoundAssumption DEF Glob, Number
    <3> QED BY <2>2, <3>1 DEF Glob
  <2>3. CASE Mkdir(h)
    BY <2>3 DEF Mkdir
  <2>4. CASE Save(h)
    BY <2>4 DEF Save
  <2>5. CASE Create(h)
    BY <2>5 DEF Create
  <2>6. CASE Encode(h)
    BY <2>6 DEF Encode
  <2>7. CASE Fails(h)
    BY <2>7 DEF Fails
  <2>8. CASE EncodeFails(h)
    BY <2>8 DEF EncodeFails, Answered
  <2>9. CASE AddPendingJob(h)
    BY <2>9 DEF AddPendingJob
  <2>10. CASE JobRemovesDir(h)
    BY <2>10 DEF JobRemovesDir
  <2>11. CASE JobFails(h)
    BY <2>11 DEF JobFails
  <2> QED BY <1>1, <2>1, <2>2, <2>3, <2>4, <2>5, <2>6, <2>7, <2>8, <2>9, <2>10, <2>11 DEF Handler
<1>2. CASE UNCHANGED vars
  BY <1>2 DEF vars
<1> QED BY <1>1, <1>2 DEF Next

(* Names and makers. *)
LEMMA PickedStep ==
    ASSUME TypeOK, Picked, MadeByChoice, QueuedAreAccepted, [Next]_vars
    PROVE  Picked' /\ MadeByChoice' /\ QueuedAreAccepted'
<1> USE NoneAssumption, UserAssumption DEF TypeOK, Picked, MadeByChoice, QueuedAreAccepted, Chosen, Made, PC, Working, Goto, Name
<1>1. ASSUME NEW h \in Request, Handler(h) \/ JobRemovesDir(h) \/ JobFails(h)
      PROVE  Picked' /\ MadeByChoice' /\ QueuedAreAccepted'
  <2>1. CASE Stat(h)
    BY <2>1 DEF Stat
  <2>2. CASE Glob(h)
    <3>1. User[h] \in Name /\ (Matches # {} => NextSuffix \in Name)
      BY <2>2, NextSuffixIsFresh, BoundAssumption DEF Glob, Number
    <3> QED BY <2>2, <3>1 DEF Glob
  <2>3. CASE Mkdir(h)
    BY <2>3 DEF Mkdir
  <2>4. CASE Save(h)
    BY <2>4 DEF Save
  <2>5. CASE Create(h)
    BY <2>5 DEF Create
  <2>6. CASE Encode(h)
    BY <2>6 DEF Encode
  <2>7. CASE Fails(h)
    BY <2>7 DEF Fails
  <2>8. CASE EncodeFails(h)
    BY <2>8 DEF EncodeFails, Answered
  <2>9. CASE AddPendingJob(h)
    BY <2>9 DEF AddPendingJob
  <2>10. CASE JobRemovesDir(h)
    BY <2>10 DEF JobRemovesDir
  <2>11. CASE JobFails(h)
    BY <2>11 DEF JobFails
  <2> QED BY <1>1, <2>1, <2>2, <2>3, <2>4, <2>5, <2>6, <2>7, <2>8, <2>9, <2>10, <2>11 DEF Handler
<1>2. CASE UNCHANGED vars
  BY <1>2 DEF vars
<1> QED BY <1>1, <1>2 DEF Next

(* What a request finds. *)
LEMMA LookingStep ==
    ASSUME TypeOK, Picked, MadeByChoice, Looking, [Next]_vars
    PROVE  Looking'
<1> USE NoneAssumption, UserAssumption DEF TypeOK, Picked, MadeByChoice, Looking, FoundLater, OwnFoundLater, AllFoundLater, Chosen, Made, PC, Goto, Name
<1>1. ASSUME NEW h \in Request, Handler(h) \/ JobRemovesDir(h) \/ JobFails(h)
      PROVE  Looking'
  <2>1. CASE Stat(h)
    BY <2>1 DEF Stat, IsDuplicate, Exists
  <2>2. CASE Glob(h)
    <3>1. \A n \in Name : makers[n] # {} => n # finalHash'[h]
      BY <2>2, NextSuffixIsFresh DEF Glob, Matches, Exists
    <3>2. finalHash'[h] \in Name
      BY <2>2, NextSuffixIsFresh, BoundAssumption DEF Glob, Number
    <3>3. User[h] \notin Int /\ finalHash'[h] = User[h] => Matches = {}
      BY <2>2, NextSuffixIsFresh DEF Glob
    <3> QED BY <2>2, <3>1, <3>2, <3>3 DEF Glob, Matches, Exists
  <2>3. CASE Mkdir(h)
    BY <2>3 DEF Mkdir
  <2>4. CASE Save(h)
    BY <2>4 DEF Save
  <2>5. CASE Create(h)
    BY <2>5 DEF Create
  <2>6. CASE Encode(h)
    BY <2>6 DEF Encode
  <2>7. CASE Fails(h)
    BY <2>7 DEF Fails
  <2>8. CASE EncodeFails(h)
    BY <2>8 DEF EncodeFails, Answered
  <2>9. CASE AddPendingJob(h)
    BY <2>9 DEF AddPendingJob
  <2>10. CASE JobRemovesDir(h)
    BY <2>10 DEF JobRemovesDir
  <2>11. CASE JobFails(h)
    BY <2>11 DEF JobFails
  <2> QED BY <1>1, <2>1, <2>2, <2>3, <2>4, <2>5, <2>6, <2>7, <2>8, <2>9, <2>10, <2>11 DEF Handler
<1>2. CASE UNCHANGED vars
  BY <1>2 DEF vars
<1> QED BY <1>1, <1>2 DEF Next

(* Sharing. *)
LEMMA SharingStep ==
    ASSUME TypeOK, Picked, MadeByChoice, Looking, SharedOnlyByRace, OwnNameExcludesUser, [Next]_vars
    PROVE  SharedOnlyByRace' /\ OwnNameExcludesUser'
<1> USE UserAssumption DEF TypeOK, MadeByChoice, SharedOnlyByRace, OwnNameExcludesUser, Raced, Made, Goto, Name
<1>1. ASSUME NEW h \in Request, Handler(h) \/ JobRemovesDir(h) \/ JobFails(h)
      PROVE  SharedOnlyByRace' /\ OwnNameExcludesUser'
  <2>1. CASE Stat(h)
    BY <2>1 DEF Stat
  <2>2. CASE Glob(h)
    BY <2>2 DEF Glob
  <2>3. CASE Mkdir(h)
    <3>1. \A g \in Request : raced[g] \subseteq raced'[g]
      BY <2>3 DEF Mkdir
    <3>2. \A n \in Name : \A g \in makers'[n] : g \in makers[n] \/ g = h
      BY <2>3 DEF Mkdir
    <3>3. \A n \in Name : h \in makers'[n] => n = finalHash[h]
      BY <2>3 DEF Mkdir
    <3>4. SharedOnlyByRace'
      BY <2>3, <3>1, <3>2, <3>3 DEF Mkdir, Looking, FoundLater
    <3>5. ASSUME NEW g \in Request, User[g] \notin Int, g \in makers'[User[g]],
                 NEW n \in Name, NEW k \in makers'[n], User[k] = User[g], k # g
          PROVE  Raced(g, k)'
      <4>1. CASE g = h
        BY <2>3, <3>1, <3>2, <3>3, <3>5, <4>1 DEF Mkdir, Looking, AllFoundLater
      <4>2. CASE k = h
        BY <2>3, <3>1, <3>2, <3>3, <3>5, <4>2 DEF Mkdir, Looking, OwnFoundLater
      <4>3. CASE g # h /\ k # h
        BY <2>3, <3>1, <3>2, <3>5, <4>3
      <4> QED BY <4>1, <4>2, <4>3
    <3> QED BY <2>3, <3>4, <3>5 DEF Mkdir
  <2>4. CASE Save(h)
    BY <2>4 DEF Save
  <2>5. CASE Create(h)
    BY <2>5 DEF Create
  <2>6. CASE Encode(h)
    BY <2>6 DEF Encode
  <2>7. CASE Fails(h)
    BY <2>7 DEF Fails
  <2>8. CASE EncodeFails(h)
    BY <2>8 DEF EncodeFails, Answered
  <2>9. CASE AddPendingJob(h)
    BY <2>9 DEF AddPendingJob
  <2>10. CASE JobRemovesDir(h)
    BY <2>10 DEF JobRemovesDir
  <2>11. CASE JobFails(h)
    BY <2>11 DEF JobFails
  <2> QED BY <1>1, <2>1, <2>2, <2>3, <2>4, <2>5, <2>6, <2>7, <2>8, <2>9, <2>10, <2>11 DEF Handler
<1>2. CASE UNCHANGED vars
  BY <1>2 DEF vars
<1> QED BY <1>1, <1>2 DEF Next

(* A request that is alone. *)
LEMMA FilledStep ==
    ASSUME TypeOK, Picked, MadeByChoice, QueuedAreAccepted, Filled, [Next]_vars
    PROVE  Filled'
<1> USE NoneAssumption DEF TypeOK, Picked, QueuedAreAccepted, Filled, Alone, Writable, Exists, Chosen, Made, PC, Goto, Name
<1>1. ASSUME NEW h \in Request, Handler(h) \/ JobRemovesDir(h) \/ JobFails(h)
      PROVE  Filled'
  <2>1. CASE Stat(h)
    BY <2>1 DEF Stat
  <2>2. CASE Glob(h)
    BY <2>2 DEF Glob
  <2>3. CASE Mkdir(h)
    BY <2>3 DEF Mkdir
  <2>4. CASE Save(h)
    BY <2>4 DEF Save
  <2>5. CASE Create(h)
    BY <2>5 DEF Create
  <2>6. CASE Encode(h)
    BY <2>6 DEF Encode
  <2>7. CASE Fails(h)
    BY <2>7 DEF Fails
  <2>8. CASE EncodeFails(h)
    BY <2>8 DEF EncodeFails, Answered
  <2>9. CASE AddPendingJob(h)
    BY <2>9 DEF AddPendingJob
  <2>10. CASE JobRemovesDir(h)
    BY <2>10 DEF JobRemovesDir
  <2>11. CASE JobFails(h)
    BY <2>11 DEF JobFails
  <2> QED BY <1>1, <2>1, <2>2, <2>3, <2>4, <2>5, <2>6, <2>7, <2>8, <2>9, <2>10, <2>11 DEF Handler
<1>2. CASE UNCHANGED vars
  BY <1>2 DEF vars
<1> QED BY <1>1, <1>2 DEF Next

LEMMA IInvStep == IInv /\ [Next]_vars => IInv'
<1> SUFFICES ASSUME IInv, [Next]_vars PROVE IInv'
  OBVIOUS
<1> QED BY TypeStep, PickedStep, LookingStep, SharingStep, FilledStep DEF IInv

\* Uploads that look, pick a name and make its directory in any order keep the
\* invariant.
THEOREM Inductive == Spec => []IInv
<1> QED BY InitIInv, IInvStep, PTL DEF Spec

\* Every variable keeps its type, and what does not exist is empty.
THEOREM UploadTypeCorrect == Spec => []TypeOK
<1>1. IInv => TypeOK
  BY DEF IInv
<1> QED BY <1>1, Inductive, PTL

\* Numbering never gives a name in use: only a race makes two uploads share.
THEOREM SharingNeedsRace == Spec => []SharedOnlyByRace
<1>1. IInv => SharedOnlyByRace
  BY DEF IInv
<1> QED BY <1>1, Inductive, PTL

\* The directory named by a user keeps other uploads of that user out.
THEOREM OwnNameProtects == Spec => []OwnNameExcludesUser
<1>1. IInv => OwnNameExcludesUser
  BY DEF IInv
<1> QED BY <1>1, Inductive, PTL

\* A queued job that is alone with its name has its file and instructions.
THEOREM QueuedCanBeRead == Spec => []QueuedIsIntact
<1>1. IInv => QueuedIsIntact
  BY DEF IInv, TypeOK, Filled, Alone, QueuedIsIntact
<1> QED BY <1>1, Inductive, PTL

=============================================================================
