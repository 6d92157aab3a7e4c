------------------------- MODULE JobPipelineProofs -------------------------
(***************************************************************************)
(* ProcessJob keeps its promise for every set of backends and every list   *)
(* of conversions.                                                         *)
(***************************************************************************)
EXTENDS JobPipeline, FiniteSetTheorems, TLAPS

WriterSteps == \E w \in Writer : WriterStep(w)

\* Before the writers start there are none, and the channel is new.
Unstarted ==
    pc \in BeforeWriters =>
        /\ writer = [w \in Writer |-> "none"]
        /\ errors = 0
        /\ ~ closed

\* Conversions end before writers start.
AllConverted ==
    /\ pc \in {"encode", "encoding"} => converted < Len(Output)
    /\ pc \in {"spawn", "collect"} => converted = Len(Output)
    /\ (\E w \in Writer : writer[w] # "none") => converted = Len(Output)

\* The body has a result once it has returned.
HasOutcome == outcome # "none" <=> pc \in {"await", "returned"}

\* While nobody has reported or taken an error, a writer at its end has stored its file.
EndedHaveStored ==
    pc = "collect" /\ errors = 0 =>
        \A w \in Writer :
            writer[w] \in {"exit", "done"} => <<w[1], Output[w[2]]>> \in stored

\* While the errors are collected, every writer has started.
Started == pc = "collect" => \A w \in Writer : writer[w] # "none"

\* The channel is closed after the last writer.
ClosedLast == closed => \A w \in Writer : writer[w] = "done"

Stored ==
    Succeeding =>
        /\ stored = Required
        /\ \A w \in Writer : writer[w] = "done"

Recorded ==
    /\ successRecord \/ callback => Succeeding
    /\ failureRecord => outcome = "error"

\* The writers that have sent their error, or had none to send.
Spent == {w \in Writer : writer[w] \in {"exit", "done"}}

Sent == errors <= Cardinality(Spent)

Control == Unstarted /\ AllConverted /\ HasOutcome

Channel == EndedHaveStored /\ Started /\ ClosedLast /\ Stored /\ Recorded

IInv == TypeOK /\ Control /\ Channel /\ Sent

LEMMA WriterFinite ==
    /\ IsFiniteSet(Writer)
    /\ Cardinality(Writer) = Cardinality(Backend) * Len(Output)
    /\ Cardinality(Backend) \in Nat
    /\ Len(Output) \in Nat
<1>1. Len(Output) \in Nat /\ DOMAIN Output = 1..Len(Output)
  BY OutputAssumption
<1>2. IsFiniteSet(DOMAIN Output) /\ Cardinality(DOMAIN Output) = Len(Output)
  <2> DEFINE n == Len(Output)
  <2>1. n \in Nat /\ 1 \in Int /\ n \in Int
    BY <1>1
  <2> HIDE DEF n
  <2>2. IsFiniteSet(1..n) /\ Cardinality(1..n) = IF 1 > n THEN 0 ELSE n - 1 + 1
    BY <2>1, FS_Interval, Zenon
  <2>3. (IF 1 > n THEN 0 ELSE n - 1 + 1) = n
    BY <2>1
  <2> QED BY <1>1, <2>2, <2>3 DEF n
<1> QED BY <1>1, <1>2, BackendAssumption, FS_Product, FS_CardinalityType DEF Writer

LEMMA InitIInv == Init => IInv
<1> SUFFICES ASSUME Init PROVE IInv
  OBVIOUS
<1>1. TypeOK
  <2>1. converted \in 0..Len(Output)
    BY WriterFinite DEF Init
  <2>2. writer \in [Writer -> WriterPC]
    BY DEF Init, WriterPC
  <2>3. disk \subseteq Uploaded
    BY DEF Init
  <2> QED BY <2>1, <2>2, <2>3 DEF Init, TypeOK, PC, BeforeWriters
<1>2. Sent
  <2>1. Spent = {}
    BY DEF Spent, Init
  <2> QED BY <2>1, FS_EmptySet DEF Sent, Init
<1>3. Unstarted /\ AllConverted /\ HasOutcome
  BY DEF Init, Unstarted, AllConverted, HasOutcome
<1>4. EndedHaveStored /\ Started /\ ClosedLast /\ Stored /\ Recorded
  BY DEF Init, EndedHaveStored, Started, ClosedLast, Stored, Recorded, Succeeding
<1> QED BY <1>1, <1>2, <1>3, <1>4 DEF IInv, Control, Channel

(* Type correctness. *)

LEMMA TypeStep == ASSUME TypeOK, AllConverted, [Next]_vars PROVE TypeOK'
<1> USE DEF TypeOK
<1>1. ASSUME JobStep PROVE TypeOK'
  <2> USE WriterFinite, OutputAssumption DEF Goto, records, channel, PC, BeforeWriters, Uploaded
  <2>1. CASE Read
    BY <2>1 DEF Read
  <2>2. CASE MakeOutputDir
    BY <2>2 DEF MakeOutputDir
  <2>3. CASE MakeOutputDirFails
    BY <2>3 DEF MakeOutputDirFails
  <2>4. CASE NextConversion
    BY <2>4 DEF NextConversion
  <2>5. CASE EncoderOpens
    <3>1. converted + 1 \in DOMAIN Output
      BY <2>5 DEF EncoderOpens, AllConverted
    <3> QED BY <2>5, <3>1 DEF EncoderOpens
  <2>6. CASE EncoderEnds
    BY <2>6 DEF EncoderEnds, AllConverted
  <2>7. CASE EncoderFails
    BY <2>7 DEF EncoderFails
  <2>8. CASE StartWriters
    BY <2>8 DEF StartWriters, WriterPC
  <2>9. CASE ReceiveError
    BY <2>9 DEF ReceiveError, ErrorWaiting
  <2>10. CASE AllWritten
    BY <2>10 DEF AllWritten
  <2>11. CASE StoreSuccess
    BY <2>11 DEF StoreSuccess
  <2>12. CASE SendCallback
    BY <2>12 DEF SendCallback
  <2>13. CASE RemoveJobDir
    BY <2>13 DEF RemoveJobDir, RemoveAll
  <2>14. CASE StoreFailure
    BY <2>14 DEF StoreFailure
  <2>15. CASE Return
    BY <2>15 DEF Return
  <2> QED BY <1>1, <2>1, <2>2, <2>3, <2>4, <2>5, <2>6, <2>7, <2>8, <2>9, <2>10, <2>11,
             <2>12, <2>13, <2>14, <2>15 DEF JobStep
<1>2. CASE Cancel
  BY <1>2 DEF Cancel, channel, records
<1>3. CASE CleanUp
  BY <1>3 DEF CleanUp, RemoveAll, channel, records
<1>4. ASSUME NEW w \in Writer, WriterStep(w) PROVE TypeOK'
  <2> USE DEF Step, WriterPC, records
  <2>1. CASE Check(w)
    BY <2>1 DEF Check
  <2>2. CASE Open(w)
    BY <2>2 DEF Open
  <2>3. CASE Write(w)
    <3>1. <<w[1], Output[w[2]]>> \in Required
      BY DEF Required
    <3> QED BY <2>3, <3>1 DEF Write
  <2>4. CASE WriteFails(w)
    BY <2>4 DEF WriteFails
  <2>5. CASE Report(w)
    BY <2>5 DEF Report
  <2>6. CASE Exit(w)
    BY <2>6 DEF Exit
  <2> QED BY <1>4, <2>1, <2>2, <2>3, <2>4, <2>5, <2>6 DEF WriterStep
<1>5. CASE CloseErrors
  BY <1>5 DEF CloseErrors, records
<1>6. CASE UNCHANGED vars
  BY <1>6 DEF vars
<1> QED BY <1>1, <1>2, <1>3, <1>4, <1>5, <1>6 DEF Next


(* Where the job's goroutine is, and what has happened by then. *)
LEMMA ControlStep == ASSUME TypeOK, Control, [Next]_vars PROVE Control'
<1> USE DEF TypeOK
<1>1. ASSUME JobStep PROVE Control'
  <2> USE DEF Goto, records, channel, PC, BeforeWriters, Succeeding, Control, Unstarted, AllConverted, HasOutcome
  <2>1. CASE Read
    BY <2>1 DEF Read
  <2>2. CASE MakeOutputDir
    BY <2>2 DEF MakeOutputDir
  <2>3. CASE MakeOutputDirFails
    BY <2>3 DEF MakeOutputDirFails
  <2>4. CASE NextConversion
    BY <2>4 DEF NextConversion
  <2>5. CASE EncoderOpens
    BY <2>5 DEF EncoderOpens
  <2>6. CASE EncoderEnds
    BY <2>6, OutputAssumption DEF EncoderEnds
  <2>7. CASE EncoderFails
    BY <2>7 DEF EncoderFails
  <2>8. CASE StartWriters
    BY <2>8 DEF StartWriters
  <2>9. CASE ReceiveError
    BY <2>9 DEF ReceiveError, ErrorWaiting
  <2>10. CASE AllWritten
    BY <2>10 DEF AllWritten, Drained
  <2>11. CASE StoreSuccess
    BY <2>11 DEF StoreSuccess
  <2>12. CASE SendCallback
    BY <2>12 DEF SendCallback
  <2>13. CASE RemoveJobDir
    BY <2>13 DEF RemoveJobDir
  <2>14. CASE StoreFailure
    BY <2>14 DEF StoreFailure
  <2>15. CASE Return
    BY <2>15 DEF Return
  <2> QED BY <1>1, <2>1, <2>2, <2>3, <2>4, <2>5, <2>6, <2>7, <2>8,
             <2>9, <2>10, <2>11, <2>12, <2>13, <2>14, <2>15 DEF JobStep
<1>2. CASE Cancel
  BY <1>2 DEF Cancel, channel, records, Succeeding, Control, Unstarted, AllConverted, HasOutcome
<1>3. CASE CleanUp
  BY <1>3 DEF CleanUp, channel, records, Succeeding, Control, Unstarted, AllConverted, HasOutcome
<1>4. ASSUME NEW w \in Writer, WriterStep(w) PROVE Control'
  <2> USE DEF Step, WriterPC, records, Succeeding, Control, Unstarted, AllConverted, HasOutcome
  <2>1. CASE Check(w)
    BY <2>1 DEF Check
  <2>2. CASE Open(w)
    BY <2>2 DEF Open
  <2>3. CASE Write(w)
    BY <2>3 DEF Write
  <2>4. CASE WriteFails(w)
    BY <2>4 DEF WriteFails
  <2>5. CASE Report(w)
    BY <2>5 DEF Report
  <2>6. CASE Exit(w)
    BY <2>6 DEF Exit
  <2> QED BY <1>4, <2>1, <2>2, <2>3, <2>4, <2>5, <2>6 DEF WriterStep
<1>5. CASE CloseErrors
  BY <1>5 DEF CloseErrors, WritersDone, records, Succeeding, Control, Unstarted, AllConverted, HasOutcome
<1>6. CASE UNCHANGED vars
  BY <1>6 DEF vars, Succeeding, Control, Unstarted, AllConverted, HasOutcome
<1> QED BY <1>1, <1>2, <1>3, <1>4, <1>5, <1>6 DEF Next

(* What an empty channel says of the writers. *)
LEMMA ChannelStep == ASSUME TypeOK, Control, Channel, [Next]_vars PROVE Channel'
<1> USE DEF TypeOK
<1>1. ASSUME JobStep PROVE Channel'
  <2> USE DEF Goto, records, channel, PC, BeforeWriters, Succeeding, Control, Unstarted, HasOutcome, Channel, EndedHaveStored, Started, ClosedLast, Stored, Recorded
  <2>1. CASE Read
    BY <2>1 DEF Read
  <2>2. CASE MakeOutputDir
    BY <2>2 DEF MakeOutputDir
  <2>3. CASE MakeOutputDirFails
    BY <2>3 DEF MakeOutputDirFails
  <2>4. CASE NextConversion
    BY <2>4 DEF NextConversion
  <2>5. CASE EncoderOpens
    BY <2>5 DEF EncoderOpens
  <2>6. CASE EncoderEnds
    BY <2>6, OutputAssumption DEF EncoderEnds
  <2>7. CASE EncoderFails
    BY <2>7 DEF EncoderFails
  <2>8. CASE StartWriters
    BY <2>8 DEF StartWriters
  <2>9. CASE ReceiveError
    BY <2>9 DEF ReceiveError, ErrorWaiting
  <2>10. CASE AllWritten
    <3>1. \A w \in Writer : writer[w] = "done" /\ <<w[1], Output[w[2]]>> \in stored
      BY <2>10 DEF AllWritten, Drained
    <3>2. stored = Required
      BY <3>1 DEF Required
    <3> QED BY <2>10, <3>1, <3>2 DEF AllWritten, Drained
  <2>11. CASE StoreSuccess
    BY <2>11 DEF StoreSuccess
  <2>12. CASE SendCallback
    BY <2>12 DEF SendCallback
  <2>13. CASE RemoveJobDir
    BY <2>13 DEF RemoveJobDir
  <2>14. CASE StoreFailure
    BY <2>14 DEF StoreFailure
  <2>15. CASE Return
    BY <2>15 DEF Return
  <2> QED BY <1>1, <2>1, <2>2, <2>3, <2>4, <2>5, <2>6, <2>7, <2>8,
             <2>9, <2>10, <2>11, <2>12, <2>13, <2>14, <2>15 DEF JobStep
<1>2. CASE Cancel
  BY <1>2 DEF Cancel, channel, records, Succeeding, Control, Unstarted, HasOutcome, Channel, EndedHaveStored, Started, ClosedLast, Stored, Recorded
<1>3. CASE CleanUp
  BY <1>3 DEF CleanUp, channel, records, Succeeding, Control, Unstarted, HasOutcome, Channel, EndedHaveStored, Started, ClosedLast, Stored, Recorded
<1>4. ASSUME NEW w \in Writer, WriterStep(w) PROVE Channel'
  <2> USE DEF Step, WriterPC, records, Succeeding, Control, Unstarted, HasOutcome, Channel, EndedHaveStored, Started, ClosedLast, Stored, Recorded
  <2>1. CASE Check(w)
    BY <2>1 DEF Check
  <2>2. CASE Open(w)
    BY <2>2 DEF Open
  <2>3. CASE Write(w)
    BY <2>3 DEF Write
  <2>4. CASE WriteFails(w)
    BY <2>4 DEF WriteFails
  <2>5. CASE Report(w)
    <3>1. errors' # 0
      <4>1. errors \in Nat /\ errors' = errors + 1
        BY <2>5 DEF Report
      <4> QED BY ONLY <4>1
    <3>2. ~ Succeeding /\ ~ closed
      BY <2>5 DEF Report
    <3>3. Started' /\ EndedHaveStored' /\ ClosedLast'
      BY <2>5, <3>1, <3>2 DEF Report
    <3>4. Stored' /\ Recorded'
      BY <2>5, <3>2 DEF Report
    <3> QED BY <3>3, <3>4
  <2>6. CASE Exit(w)
    BY <2>6 DEF Exit
  <2> QED BY <1>4, <2>1, <2>2, <2>3, <2>4, <2>5, <2>6 DEF WriterStep
<1>5. CASE CloseErrors
  BY <1>5 DEF CloseErrors, WritersDone, records, Succeeding, Control, Unstarted, HasOutcome, Channel, EndedHaveStored, Started, ClosedLast, Stored, Recorded
<1>6. CASE UNCHANGED vars
  BY <1>6 DEF vars, Succeeding, Control, Unstarted, HasOutcome, Channel, EndedHaveStored, Started, ClosedLast, Stored, Recorded
<1> QED BY <1>1, <1>2, <1>3, <1>4, <1>5, <1>6 DEF Next


(* No more errors are sent than writers have ended with one. *)

LEMMA SentStep == ASSUME TypeOK, Control, Sent, [Next]_vars PROVE Sent'
<1> USE DEF TypeOK
<1>1. Spent \subseteq Writer /\ IsFiniteSet(Spent) /\ Cardinality(Spent) \in Nat
  BY WriterFinite, FS_Subset, FS_CardinalityType DEF Spent
<1>2. CASE errors' \in Int /\ errors' <= errors /\ UNCHANGED writer
  <2>1. Spent' = Spent
    BY <1>2 DEF Spent
  <2> QED BY <1>1, <1>2, <2>1 DEF Sent
<1>3. CASE StartWriters
  <2>1. errors = 0 /\ errors' = 0
    BY <1>3 DEF StartWriters, Goto, Control, Unstarted, BeforeWriters
  <2>2. Spent' = {}
    BY <1>3 DEF StartWriters, Spent
  <2> QED BY <2>1, <2>2, FS_EmptySet DEF Sent
<1>4. ASSUME NEW w \in Writer, WriterStep(w) PROVE Sent'
  <2>1. CASE errors' = errors /\ Spent' = Spent
    BY <2>1 DEF Sent
  <2>2. CASE errors' \in {errors, errors + 1} /\ w \notin Spent /\ Spent' = Spent \cup {w}
    <3>1. Cardinality(Spent \cup {w}) = Cardinality(Spent) + 1
      BY <1>1, <2>2, FS_AddElement
    <3> QED BY <1>1, <2>2, <3>1 DEF Sent
  <2> USE DEF Step, Spent, WriterPC
  <2>3. CASE Check(w)
    BY <2>1, <2>3 DEF Check
  <2>4. CASE Open(w)
    BY <2>1, <2>4 DEF Open
  <2>5. CASE Write(w)
    BY <2>2, <2>5 DEF Write
  <2>6. CASE WriteFails(w)
    BY <2>1, <2>6 DEF WriteFails
  <2>7. CASE Report(w)
    BY <2>2, <2>7 DEF Report
  <2>8. CASE Exit(w)
    BY <2>1, <2>8 DEF Exit
  <2> QED BY <1>4, <2>3, <2>4, <2>5, <2>6, <2>7, <2>8 DEF WriterStep
<1>5. ASSUME JobStep, ~ StartWriters PROVE Sent'
  <2>1. UNCHANGED writer /\ errors' \in {errors, errors - 1}
    BY <1>5 DEF JobStep, channel, Read, MakeOutputDir, MakeOutputDirFails, NextConversion,
       EncoderOpens, EncoderEnds, EncoderFails, ReceiveError, AllWritten, StoreSuccess,
       SendCallback, RemoveJobDir, StoreFailure, Return
  <2> QED BY <1>2, <2>1
<1>6. CASE Cancel \/ CleanUp \/ CloseErrors \/ UNCHANGED vars
  BY <1>2, <1>6 DEF Cancel, CleanUp, CloseErrors, channel, vars
<1> QED BY <1>3, <1>4, <1>5, <1>6 DEF Next

LEMMA IInvStep == IInv /\ [Next]_vars => IInv'
<1> SUFFICES ASSUME IInv, [Next]_vars PROVE IInv'
  OBVIOUS
<1>1. TypeOK /\ AllConverted /\ Control /\ Channel /\ Sent
  BY DEF IInv, Control
<1>2. TypeOK' /\ Control' /\ Channel' /\ Sent'
  BY <1>1, TypeStep, ControlStep, ChannelStep, SentStep
<1> QED BY <1>2 DEF IInv

\* The body of ProcessJob, its writers, its channel and its clean-up keep the invariant
\* in every interleaving.
THEOREM Inductive == Spec => []IInv
<1> QED BY InitIInv, IInvStep, PTL DEF Spec

\* Every variable keeps its type.
THEOREM PipelineTypeCorrect == Spec => []TypeOK
<1>1. IInv => TypeOK
  BY DEF IInv
<1> QED BY <1>1, Inductive, PTL

\* A success record, a callback or a nil return of processWriters means that
\* everything is stored and no writer is left.
THEOREM SuccessIsComplete == Spec => []SuccessMeansAllStored
<1>1. IInv => SuccessMeansAllStored
  <2> SUFFICES ASSUME IInv, Succeeding \/ successRecord \/ callback
               PROVE  /\ stored = Required
                      /\ outcome # "error" /\ ~ failureRecord
                      /\ \A w \in Writer : writer[w] = "done"
    BY DEF SuccessMeansAllStored
  <2>1. Succeeding
    BY DEF IInv, Channel, Recorded
  <2>2. outcome # "error"
    BY <2>1 DEF IInv, Control, HasOutcome, Succeeding
  <2> QED BY <2>1, <2>2 DEF IInv, Channel, Stored, Recorded
<1> QED BY <1>1, Inductive, PTL

\* errChan has room for the error of every writer.
THEOREM WritersNeverBlock == Spec => []ReportNeverBlocks
<1>1. IInv => ReportNeverBlocks
  <2> SUFFICES ASSUME IInv, NEW w \in Writer, writer[w] = "report"
               PROVE  errors < Capacity
    BY DEF ReportNeverBlocks
  <2>1. Capacity = Cardinality(Writer) /\ Cardinality(Writer) \in Nat
    <3>1. converted = Len(Output)
      BY DEF IInv, Control, AllConverted
    <3> QED BY <3>1, WriterFinite, FS_CardinalityType DEF Capacity
  <2>2. /\ Spent \subseteq Writer /\ w \notin Spent
        /\ IsFiniteSet(Spent) /\ Cardinality(Spent) \in Nat
    BY WriterFinite, FS_Subset, FS_CardinalityType DEF Spent
  <2>3. Cardinality(Spent) <= Cardinality(Writer) /\ Cardinality(Spent) # Cardinality(Writer)
    BY <2>2, WriterFinite, FS_Subset
  <2>4. errors \in Nat /\ errors <= Cardinality(Spent)
    BY DEF IInv, TypeOK, Sent
  <2> QED BY ONLY <2>1, <2>2, <2>3, <2>4
<1> QED BY <1>1, Inductive, PTL

\* errChan is closed after the last send.
THEOREM ClosedAfterLastSend == Spec => []NoSendOnClosed
<1>1. IInv => NoSendOnClosed
  BY DEF IInv, Channel, ClosedLast, NoSendOnClosed
<1> QED BY <1>1, Inductive, PTL


(* ProcessJob implements its promise. *)

LEMMA PromiseInit == Init => Promise!Init
BY DEF Init, Promise!Init, Verdict, Succeeding

\* A step of the job's goroutine gives the verdict, once, or changes nothing of it.
LEMMA PromiseJobStep ==
    ASSUME IInv, JobStep PROVE [Promise!Next]_Promise!vars
<1> USE DEF IInv, TypeOK, Control, HasOutcome, Goto, records, BeforeWriters, Verdict, Succeeding
<1> DEFINE Quiet == UNCHANGED <<stored, Verdict, ctxDone, cleanup = "closed", pc = "returned">>
           Failing == /\ Verdict = "open" /\ Verdict' = "error"
                      /\ UNCHANGED <<stored, ctxDone, cleanup = "closed", pc = "returned">>
<1>1. CASE Quiet
  BY <1>1 DEF Promise!vars
<1>2. CASE Failing
  BY <1>2 DEF Promise!Next, Promise!Fail
<1>3. CASE AllWritten
  <2>1. Verdict = "open" /\ Verdict' = "ok" /\ stored = Required
        /\ UNCHANGED <<stored, ctxDone, cleanup = "closed", pc = "returned">>
    <3>1. IInv'
      BY IInvStep, <1>3 DEF Next, JobStep
    <3> QED BY <1>3, <3>1 DEF AllWritten, Channel, Stored
  <2> QED BY <2>1 DEF Promise!Next, Promise!Succeed
<1>4. CASE Return
  <2>1. Verdict # "open" /\ cleanup = "closed" /\ (pc = "returned")' = TRUE
        /\ UNCHANGED <<stored, Verdict, ctxDone, cleanup = "closed">>
    BY <1>4 DEF Return, CleanupDone
  <2> QED BY <2>1 DEF Promise!Next, Promise!Return
<1>5. CASE Read
  BY <1>1, <1>2, <1>5 DEF Read
<1>6. CASE MakeOutputDir
  BY <1>1, <1>2, <1>6 DEF MakeOutputDir
<1>7. CASE MakeOutputDirFails
  BY <1>1, <1>2, <1>7 DEF MakeOutputDirFails
<1>8. CASE NextConversion
  BY <1>1, <1>2, <1>8 DEF NextConversion
<1>9. CASE EncoderOpens
  BY <1>1, <1>2, <1>9 DEF EncoderOpens
<1>10. CASE EncoderEnds
  BY <1>1, <1>2, <1>10 DEF EncoderEnds
<1>11. CASE EncoderFails
  BY <1>1, <1>2, <1>11 DEF EncoderFails
<1>12. CASE StartWriters
  BY <1>1, <1>2, <1>12 DEF StartWriters
<1>13. CASE ReceiveError
  BY <1>1, <1>2, <1>13 DEF ReceiveError
<1>14. CASE StoreSuccess
  BY <1>1, <1>2, <1>14 DEF StoreSuccess
<1>15. CASE SendCallback
  BY <1>1, <1>2, <1>15 DEF SendCallback
<1>16. CASE RemoveJobDir
  BY <1>1, <1>2, <1>16 DEF RemoveJobDir
<1>17. CASE StoreFailure
  BY <1>1, <1>2, <1>17 DEF StoreFailure
<1> QED BY <1>3, <1>4, <1>5, <1>6, <1>7, <1>8, <1>9, <1>10,
           <1>11, <1>12, <1>13, <1>14, <1>15, <1>16, <1>17 DEF JobStep

LEMMA PromiseStep == IInv /\ [Next]_vars => [Promise!Next]_Promise!vars
<1> SUFFICES ASSUME IInv, [Next]_vars PROVE [Promise!Next]_Promise!vars
  OBVIOUS
<1> USE DEF records, channel, Verdict, Succeeding
<1>1. CASE JobStep
  BY <1>1, PromiseJobStep
<1>2. CASE Cancel
  BY <1>2 DEF Cancel, Promise!Next, Promise!Cancel
<1>3. CASE CleanUp
  BY <1>3 DEF CleanUp, Promise!Next, Promise!CleanUp
<1>4. ASSUME NEW w \in Writer, WriterStep(w) PROVE [Promise!Next]_Promise!vars
  <2> USE DEF Step
  <2>1. CASE Write(w)
    <3>1. Verdict # "ok"
      BY <2>1 DEF Write, IInv, Channel, Stored
    <3>2. <<w[1], Output[w[2]]>> \in Required
      BY DEF Required
    <3>3. Promise!Store(<<w[1], Output[w[2]]>>)
      BY <2>1, <3>1 DEF Write, Promise!Store
    <3> QED BY <3>2, <3>3 DEF Promise!Next
  <2>2. CASE Check(w) \/ Open(w) \/ WriteFails(w) \/ Report(w) \/ Exit(w)
    BY <2>2 DEF Check, Open, WriteFails, Report, Exit, Promise!vars
  <2> QED BY <1>4, <2>1, <2>2 DEF WriterStep
<1>5. CASE CloseErrors
  BY <1>5 DEF CloseErrors, Promise!vars
<1>6. CASE UNCHANGED vars
  BY <1>6 DEF vars, Promise!vars
<1> QED BY <1>1, <1>2, <1>3, <1>4, <1>5, <1>6 DEF Next

\* The pipeline, with its goroutines and its cancel, is one that stores, gives one
\* verdict and returns only after the clean-up.
THEOREM PipelineKeepsPromise == Spec => PromiseKept
<1>1. IInv /\ [Next]_vars => [Promise!Next]_Promise!vars
  BY PromiseStep
<1> QED BY PromiseInit, <1>1, Inductive, PTL DEF Spec, PromiseKept, Promise!Spec

-----------------------------------------------------------------------------
(* ProcessJob does to the queue what Scheduler takes it to do. *)

\* What the queue can see of a job.
seen == <<pc \in {"await", "returned"}, pc = "returned", outcome, ctxDone, cleanup>>

\* The body goes on, ends with a result, or the call returns.
LEMMA BodyOnlyEnds ==
    ASSUME IInv, JobStep
    PROVE  \/ UNCHANGED seen
           \/ /\ pc \notin {"await", "returned"} /\ pc' = "await"
              /\ outcome' \in {"ok", "error"}
              /\ UNCHANGED <<ctxDone, cleanup>>
           \/ Return
<1> USE DEF IInv, TypeOK, Control, HasOutcome, Goto, records, BeforeWriters, seen
<1>1. CASE Read
  BY <1>1 DEF Read
<1>2. CASE MakeOutputDir \/ MakeOutputDirFails
  BY <1>2 DEF MakeOutputDir, MakeOutputDirFails
<1>3. CASE NextConversion
  BY <1>3 DEF NextConversion
<1>4. CASE EncoderOpens
  BY <1>4 DEF EncoderOpens
<1>5. CASE EncoderEnds \/ EncoderFails
  BY <1>5 DEF EncoderEnds, EncoderFails
<1>6. CASE StartWriters
  BY <1>6 DEF StartWriters
<1>7. CASE ReceiveError \/ AllWritten
  BY <1>7 DEF ReceiveError, AllWritten
<1>8. CASE StoreSuccess \/ SendCallback
  <2>1. pc \notin {"await", "returned"} /\ pc' \notin {"await", "returned"}
    BY <1>8 DEF StoreSuccess, SendCallback
  <2>2. UNCHANGED <<outcome, ctxDone, cleanup>>
    BY <1>8 DEF StoreSuccess, SendCallback
  <2> QED BY <2>1, <2>2
<1>10. CASE StoreFailure
  BY <1>10 DEF StoreFailure
<1>9. CASE RemoveJobDir
  BY <1>9 DEF RemoveJobDir
<1> QED BY <1>1, <1>2, <1>3, <1>4, <1>5, <1>6, <1>7, <1>8, <1>9, <1>10
       DEF JobStep

\* The clean-up has run only for a cancelled job, and the call has returned only
\* after it.
CleanedIsCancelled ==
    /\ cleanup = "closed" => ctxDone
    /\ pc = "returned" => cleanup = "closed"

LEMMA CleanedStep == IInv /\ CleanedIsCancelled /\ [Next]_vars => CleanedIsCancelled'
<1> SUFFICES ASSUME IInv, CleanedIsCancelled, [Next]_vars PROVE CleanedIsCancelled'
  OBVIOUS
<1> USE DEF CleanedIsCancelled
<1>1. CASE JobStep
  BY <1>1, BodyOnlyEnds DEF seen, Return, CleanupDone, Goto
<1>2. CASE Cancel \/ CleanUp
  BY <1>2 DEF Cancel, CleanUp
<1>3. CASE WriterSteps
  BY <1>3 DEF WriterSteps, WriterStep, Check, Open, Write, WriteFails, Report, Exit, Step
<1>4. CASE CloseErrors \/ UNCHANGED vars
  BY <1>4 DEF CloseErrors, vars
<1> QED BY <1>1, <1>2, <1>3, <1>4 DEF Next, WriterSteps

LEMMA QueueStep == IInv /\ CleanedIsCancelled /\ [Next]_vars => [Queue!Next]_Queue!vars
<1> SUFFICES ASSUME IInv, CleanedIsCancelled, [Next]_vars PROVE [Queue!Next]_Queue!vars
  OBVIOUS
<1> USE DEF ByQueue, Listed
<1>0. /\ pc \in {"await", "returned"} <=> outcome # "none"
      /\ outcome \in {"none", "ok", "error"} /\ ctxDone \in BOOLEAN
  BY DEF IInv, Control, HasOutcome, TypeOK
<1>1. CASE UNCHANGED seen
  BY <1>1 DEF seen, Queue!vars
<1>2. CASE /\ pc \notin {"await", "returned"} /\ pc' = "await"
           /\ outcome' \in {"ok", "error"}
           /\ UNCHANGED <<ctxDone, cleanup>>
  <2>1. Queue!BodyReturns(1, outcome')
    BY <1>2 DEF Queue!BodyReturns, Queue!Goto
  <2> QED BY <1>2, <2>1 DEF Queue!Next, Queue!WorkerStep, Queue!Worker
<1>3. CASE Return
  <2> DEFINE final == IF outcome = "ok" THEN "completed" ELSE "cancelled"
  <2>1. /\ pc = "await" /\ pc' = "returned" /\ cleanup = "closed" /\ ctxDone
        /\ UNCHANGED <<outcome, ctxDone, cleanup>>
    BY <1>3 DEF Return, CleanupDone, Goto, CleanedIsCancelled
  <2>2. Queue!CleanupDone(1)
    BY <2>1 DEF Queue!CleanupDone
  <2>3. Queue!FinalState(1) = final
    BY <2>1 DEF Queue!FinalState
  <2>4. Queue!Goto(1, "awaiting", "finished")
    BY <2>1 DEF Queue!Goto
  <2>5. [d \in {"job"} |-> IF pc = "returned" /\ outcome = "ok" THEN "completed"
                           ELSE IF ctxDone THEN "cancelled" ELSE "pending"]'
          = [d \in {"job"} |-> final]
    BY <2>1, <1>0
  <2>6. Queue!MarkFinal(1)
    BY <2>1, <2>2, <2>3, <2>4, <2>5 DEF Queue!MarkFinal
  <2> QED BY <2>6 DEF Queue!Next, Queue!WorkerStep, Queue!Worker
<1>4. CASE Cancel
  <2>1. /\ ~ ctxDone /\ ctxDone' = TRUE /\ pc # "returned"
        /\ UNCHANGED <<pc, outcome, cleanup>>
    BY <1>4 DEF Cancel
  <2>2. Queue!CancelAnswer("job") = "ok"
    BY <2>1 DEF Queue!CancelAnswer, Queue!None, Queue!JobState
  <2>3. Queue!CancelJob("job")
    BY <2>1, <2>2 DEF Queue!CancelJob, Queue!Called, Queue!Deleted, Queue!None
  <2> QED BY <2>3 DEF Queue!Next
<1>5. CASE CleanUp
  <2>1. /\ ctxDone /\ cleanup = "waiting" /\ cleanup' = "closed" /\ pc # "returned"
        /\ UNCHANGED <<pc, outcome, ctxDone>>
    BY <1>5 DEF CleanUp, CleanedIsCancelled
  <2>2. Queue!Listening(1)
    BY <2>1 DEF Queue!Listening
  <2>3. Queue!CleanUp(1)
    BY <2>1, <2>2 DEF Queue!CleanUp
  <2> QED BY <2>3 DEF Queue!Next, Queue!Worker
<1>6. ASSUME NEW w \in Writer, WriterStep(w) PROVE UNCHANGED seen
  BY <1>6 DEF WriterStep, Check, Open, Write, WriteFails, Report, Exit, Step, records, seen
<1>7. CASE CloseErrors
  BY <1>1, <1>7 DEF CloseErrors, records, seen
<1>8. CASE UNCHANGED vars
  BY <1>1, <1>8 DEF vars, seen
<1> QED BY <1>1, <1>2, <1>3, <1>4, <1>5, <1>6, <1>7, <1>8, BodyOnlyEnds DEF Next

\* Every step of ProcessJob and its goroutines is one that Scheduler has for a job or
\* one that the queue does not see: what is checked and proved of the queue holds with
\* the whole pipeline in the place of BodyReturns and CleanUp.
THEOREM PipelineFitsQueue == Spec => SeenByQueue
<1>1. Init => CleanedIsCancelled
  BY DEF Init, CleanedIsCancelled
<1> QED BY <1>1, CleanedStep, QueueStep, Inductive, PTL DEF Spec, SeenByQueue

-----------------------------------------------------------------------------
(* A job that is cancelled before its writers start. *)

\* From there on a failure is on its way: a writer has still to look at the context,
\* or has an error to report, or has reported it, or the job has failed.
Doomed ==
    /\ ctxDone
    /\ Required # {}
    /\ \/ pc \in BeforeWriters
       \/ pc = "collect" /\ (errors > 0 \/ \E w \in Writer : writer[w] \in {"check", "report"})
       \/ pc = "fail"
       \/ pc \in {"await", "returned"} /\ outcome = "error"

LEMMA DoomedStep == IInv /\ Doomed /\ [Next]_vars => Doomed'
<1> SUFFICES ASSUME IInv, Doomed, [Next]_vars PROVE Doomed'
  OBVIOUS
<1> USE DEF IInv, TypeOK, Control, Doomed, BeforeWriters
<1>1. CASE StartWriters
  <2>1. PICK w \in Writer : TRUE
    BY DEF Required
  <2>2. ctxDone' /\ pc' = "collect" /\ writer'[w] = "check"
    BY <1>1, <2>1 DEF StartWriters, Goto, channel
  <2> QED BY <2>2
<1>2. CASE ReceiveError
  BY <1>2 DEF ReceiveError, Goto
<1>3. CASE AllWritten
  <2>1. errors = 0 /\ \A w \in Writer : writer[w] = "done"
    BY <1>3 DEF AllWritten, Drained, Channel, ClosedLast
  <2> QED BY <1>3, <2>1 DEF AllWritten, Goto
<1>4. CASE StoreFailure
  BY <1>4 DEF StoreFailure, Goto
<1>5. CASE \/ Read \/ MakeOutputDir \/ MakeOutputDirFails \/ NextConversion
           \/ EncoderOpens \/ EncoderEnds \/ EncoderFails
           \/ StoreSuccess \/ SendCallback \/ RemoveJobDir \/ Return
  BY <1>5 DEF Read, MakeOutputDir, MakeOutputDirFails, NextConversion, EncoderOpens,
     EncoderEnds, EncoderFails, StoreSuccess, SendCallback, RemoveJobDir, Return, Goto
<1>6. CASE Cancel \/ CleanUp \/ CloseErrors \/ UNCHANGED vars
  BY <1>6 DEF Cancel, CleanUp, CloseErrors, channel, vars
<1>7. ASSUME NEW w \in Writer, WriterStep(w) PROVE Doomed'
  <2>1. UNCHANGED <<pc, outcome, ctxDone>>
    BY <1>7 DEF WriterStep, Check, Open, Write, WriteFails, Report, Exit, Step
  <2>2. CASE pc = "collect"
    <3>1. CASE Report(w)
      BY <2>1, <2>2, <3>1 DEF Report
    <3>2. CASE Check(w)
      BY <2>1, <2>2, <3>2 DEF Check, Step, SeesCancel
    <3>3. CASE Open(w) \/ Write(w) \/ WriteFails(w) \/ Exit(w)
      BY <2>1, <2>2, <3>3 DEF Open, Write, WriteFails, Exit, Step
    <3> QED BY <1>7, <3>1, <3>2, <3>3 DEF WriterStep
  <2>3. CASE pc # "collect"
    BY <2>1, <2>3
  <2> QED BY <2>2, <2>3
<1> QED BY <1>1, <1>2, <1>3, <1>4, <1>5, <1>6, <1>7 DEF Next, JobStep

\* A job whose context is cancelled before it starts its writers, and which has
\* anything to store, never succeeds: no file is taken for stored, no success is
\* recorded, no callback sent.  It is the safety part of CancelledBeforeWritingFails,
\* which adds that the failure comes.
THEOREM CancelledNeverSucceeds ==
    Spec => [](ctxDone /\ pc \in BeforeWriters /\ Required # {}
                  => [](~ Succeeding /\ ~ successRecord /\ ~ callback))
<1>1. ctxDone /\ pc \in BeforeWriters /\ Required # {} => Doomed
  BY DEF Doomed
<1>2. IInv /\ Doomed => ~ Succeeding /\ ~ successRecord /\ ~ callback
  BY DEF IInv, Control, HasOutcome, Channel, Recorded, Doomed, Succeeding, BeforeWriters
<1> QED BY <1>1, <1>2, DoomedStep, Inductive, PTL DEF Spec

=============================================================================
