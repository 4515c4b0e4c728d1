------------------------- MODULE OrchestratorProofs -------------------------
(***************************************************************************)
(* Proofs about Orchestrator, for any worksheet, any answers of the        *)
(* language model, any number of slots and attempts.                       *)
(***************************************************************************)
EXTENDS Orchestrator, FiniteSetTheorems, TLAPS

\* The steps that are not the task of a partition.
ReaderOrCancel == Reader \/ Cancel

-----------------------------------------------------------------------------
(* The semaphore. *)

LEMMA BusyFinite ==
    ASSUME NEW S \in SUBSET Partitions
    PROVE  IsFiniteSet(S) /\ Cardinality(S) \in Nat
<1>1. IsFiniteSet(Partitions)
  BY WorksheetAssumption, FS_Interval DEF Partitions
<1>2. IsFiniteSet(S)
  BY <1>1, FS_Subset
<1>3. QED
  BY <1>2, FS_CardinalityType

\* A task that gives its slot back had one.
LEMMA SlotGivenBack ==
    ASSUME TypeOK, SlotsConserved, NEW p \in Busy, NEW how \in Settled, Leave(p, how)
    PROVE  SlotsConserved' /\ free' \in 0..Slots
<1>1. Busy' = Busy \ {p}
  BY DEF Leave, Busy, TypeOK, Settled
<1>2. IsFiniteSet(Busy) /\ Cardinality(Busy) \in Nat /\ Cardinality(Busy') \in Nat
  BY BusyFinite, <1>1 DEF Busy
<1>3. Cardinality(Busy') = Cardinality(Busy) - 1
  BY <1>1, <1>2, FS_RemoveElement
<1>4. free' = free + 1
  BY DEF Leave
<1>5. QED
  BY <1>2, <1>3, <1>4, LimitsAssumption DEF SlotsConserved, TypeOK

\* A task that takes a slot had none.
LEMMA SlotTaken ==
    ASSUME TypeOK, SlotsConserved, NEW p \in Partitions \ Busy, free > 0,
           free' = free - 1, task' = [task EXCEPT ![p] = "asking"]
    PROVE  SlotsConserved' /\ free' \in 0..Slots
<1>1. Busy' = Busy \cup {p}
  BY DEF Busy, TypeOK
<1>2. IsFiniteSet(Busy) /\ Cardinality(Busy) \in Nat
  BY BusyFinite DEF Busy
<1>3. Cardinality(Busy') = Cardinality(Busy) + 1
  BY <1>1, <1>2, FS_AddElement
<1>4. QED
  BY <1>2, <1>3, LimitsAssumption DEF SlotsConserved, TypeOK

LEMMA SlotsSame ==
    ASSUME TypeOK, SlotsConserved, UNCHANGED free, Busy' = Busy
    PROVE  SlotsConserved' /\ free' \in 0..Slots
BY DEF SlotsConserved, TypeOK

\* The end of a catch clause: a new attempt keeps the slot.
LEMMA RetrySlots ==
    ASSUME TypeOK, SlotsConserved, NEW p \in Busy, Retry(p)
    PROVE  SlotsConserved' /\ free' \in 0..Slots
<1>1. CASE attempt[p] = MaxAttempts
  BY <1>1, SlotGivenBack DEF Retry, GiveUp, Settled
<1>2. CASE attempt[p] # MaxAttempts
  <2>1. Busy' = Busy /\ UNCHANGED free
    BY <1>2 DEF Retry, Busy, TypeOK
  <2>2. QED
    BY <2>1, SlotsSame
<1>3. QED
  BY <1>1, <1>2

LEMMA TaskSlots ==
    ASSUME TypeOK, SlotsConserved, NEW p \in Partitions, TaskStep(p)
    PROVE  SlotsConserved' /\ free' \in 0..Slots
<1>1. CASE Acquire(p)
  <2>1. CASE p \notin Columnless /\ CleanRows[p] > 0
    BY <1>1, <2>1, SlotTaken DEF Acquire, Busy
  <2>2. CASE ~(p \notin Columnless /\ CleanRows[p] > 0)
    <3>1. Busy' = Busy /\ UNCHANGED free
      BY <1>1, <2>2 DEF Acquire, Busy, TypeOK
    <3>2. QED
      BY <3>1, SlotsSame
  <2>3. QED
    BY <2>1, <2>2
<1>2. CASE WaitCancelled(p)
  <2>1. Busy' = Busy /\ UNCHANGED free
    BY <1>2 DEF WaitCancelled, Busy, TypeOK
  <2>2. QED
    BY <2>1, SlotsSame
<1>3. ASSUME NEW a \in Answers, Answer(p, a)
      PROVE  SlotsConserved' /\ free' \in 0..Slots
  <2>1. CASE cancelled
    BY <1>3, <2>1, SlotGivenBack DEF Answer, Busy, Settled
  <2>2. CASE ~cancelled
    <3>1. Busy' = Busy /\ UNCHANGED free
      BY <1>3, <2>2 DEF Answer, Busy, TypeOK
    <3>2. QED
      BY <3>1, SlotsSame
  <2>3. QED
    BY <2>1, <2>2
<1>4. CASE AskFails(p) \/ VerifyThrows(p)
  BY <1>4, SlotGivenBack DEF AskFails, VerifyThrows, Busy, Settled
<1>5. CASE AskTimesOut(p) \/ CompileFails(p) \/ Leaks(p)
  BY <1>5, RetrySlots DEF AskTimesOut, CompileFails, Leaks, Busy
<1>6. CASE RowFits(p)
  <2>1. CASE row[p] = CleanRows[p] \/ cancelled
    BY <1>6, <2>1, SlotGivenBack DEF RowFits, Busy, Settled
  <2>2. CASE ~(row[p] = CleanRows[p] \/ cancelled)
    <3>1. Busy' = Busy /\ UNCHANGED free
      BY <1>6, <2>2 DEF RowFits, Busy
    <3>2. QED
      BY <3>1, SlotsSame
  <2>3. QED
    BY <2>1, <2>2
<1>7. QED
  BY <1>1, <1>2, <1>3, <1>4, <1>5, <1>6 DEF TaskStep

LEMMA ReaderSlots ==
    ASSUME TypeOK, SlotsConserved, NoneBeforeBegin, ReaderOrCancel
    PROVE  SlotsConserved' /\ free' \in 0..Slots
<1>1. Busy' = Busy /\ UNCHANGED free
  BY DEF ReaderOrCancel, Reader, Begin, Resume, Abandon, Yield, Rethrow, Cancel, Busy,
         TypeOK, NoneBeforeBegin
<1>2. QED
  BY <1>1, SlotsSame

-----------------------------------------------------------------------------
(* Types. *)

LEMMA TypeInit == Init => TypeOK /\ SlotsConserved /\ NoneBeforeBegin
<1> SUFFICES ASSUME Init PROVE TypeOK /\ SlotsConserved /\ NoneBeforeBegin
  OBVIOUS
<1>1. emitted = <<>> /\ pending = {} /\ free = Slots
  BY DEF Init
<1>2. emitted \in Seq(Partitions) /\ free \in 0..Slots
  BY <1>1, LimitsAssumption
<1>3. TypeOK
  <2>1. NoOutput \in Outputs /\ 1 \in 1..MaxAttempts
    BY LimitsAssumption DEF Outputs, NoOutput
  <2>2. /\ attempt \in [Partitions -> 1..MaxAttempts]
        /\ row \in [Partitions -> Nat]
        /\ output \in [Partitions -> Outputs]
    BY <2>1 DEF Init
  <2>3. QED
    BY <1>1, <1>2, <2>2 DEF Init, TypeOK
<1>4. Busy = {}
  BY DEF Init, Busy
<1>5. SlotsConserved
  BY <1>1, <1>4, FS_EmptySet, LimitsAssumption DEF SlotsConserved
<1>6. NoneBeforeBegin
  BY DEF Init, NoneBeforeBegin
<1>7. QED
  BY <1>3, <1>5, <1>6

LEMMA RetryTypes ==
    ASSUME TypeOK, NEW p \in Partitions, Retry(p)
    PROVE  /\ task' \in [Partitions -> {"none", "queued", "asking", "verifying"} \cup Settled]
           /\ attempt' \in [Partitions -> 1..MaxAttempts]
           /\ row' \in [Partitions -> Nat]
           /\ output' \in [Partitions -> Outputs]
<1> USE DEF TypeOK, Settled, progress
<1>1. CASE attempt[p] = MaxAttempts
  <2>1. [output[p] EXCEPT !.certified = FALSE] \in Outputs
    BY DEF Outputs
  <2>2. QED
    BY <1>1, <2>1 DEF Retry, GiveUp, Leave
<1>2. CASE attempt[p] # MaxAttempts
  <2>1. attempt[p] + 1 \in 1..MaxAttempts
    BY <1>2, LimitsAssumption
  <2>2. QED
    BY <1>2, <2>1 DEF Retry
<1>3. QED
  BY <1>1, <1>2

LEMMA TaskTypes ==
    ASSUME TypeOK, SlotsConserved, NEW p \in Partitions, TaskStep(p)
    PROVE  TypeOK' /\ SlotsConserved'
<1> USE DEF TypeOK, Settled, consumer, progress
<1>1. SlotsConserved' /\ free' \in 0..Slots
  BY TaskSlots
<1>2. CASE Acquire(p) \/ WaitCancelled(p)
  BY <1>1, <1>2 DEF Acquire, WaitCancelled
<1>3. ASSUME NEW a \in Answers, Answer(p, a)
      PROVE  TypeOK' /\ SlotsConserved'
  <2>1. [code |-> a, certified |-> TRUE] \in Outputs
    BY DEF Outputs
  <2>2. output' \in [Partitions -> Outputs]
    BY <1>3, <2>1 DEF Answer
  <2>3. /\ task' \in [Partitions -> {"none", "queued", "asking", "verifying"} \cup Settled]
        /\ row' \in [Partitions -> Nat]
    <3>1. \/ task' = [task EXCEPT ![p] = "faulted"] /\ UNCHANGED row
          \/ task' = [task EXCEPT ![p] = "verifying"] /\ row' = [row EXCEPT ![p] = 1]
      BY <1>3 DEF Answer, Leave
    <3>2. QED
      BY <3>1
  <2>4. UNCHANGED <<stream, pending, emitted, cancelled, attempt>>
    BY <1>3 DEF Answer
  <2>5. QED
    BY <1>1, <2>2, <2>3, <2>4
<1>4. CASE AskFails(p) \/ VerifyThrows(p)
  BY <1>1, <1>4 DEF AskFails, VerifyThrows, Leave
<1>5. CASE AskTimesOut(p) \/ CompileFails(p) \/ Leaks(p)
  BY <1>1, <1>5, RetryTypes DEF AskTimesOut, CompileFails, Leaks
<1>6. CASE RowFits(p)
  <2>1. row[p] + 1 \in Nat
    OBVIOUS
  <2>2. /\ task' \in [Partitions -> {"none", "queued", "asking", "verifying"} \cup Settled]
        /\ row' \in [Partitions -> Nat]
    BY <1>6, <2>1 DEF RowFits, Leave
  <2>3. UNCHANGED <<stream, pending, emitted, cancelled, attempt, output>>
    BY <1>6 DEF RowFits
  <2>4. QED
    BY <1>1, <2>2, <2>3
<1>7. QED
  BY <1>2, <1>3, <1>4, <1>5, <1>6 DEF TaskStep

LEMMA ReaderTypes ==
    ASSUME TypeOK, SlotsConserved, NoneBeforeBegin, ReaderOrCancel
    PROVE  TypeOK' /\ SlotsConserved'
<1> USE DEF TypeOK, consumer, progress
<1>1. SlotsConserved' /\ free' \in 0..Slots
  BY ReaderSlots
<1>2. CASE Begin
  BY <1>1, <1>2 DEF Begin, Running, Ended
<1>3. ASSUME NEW p \in Partitions, Yield(p) \/ Rethrow(p)
      PROVE  TypeOK'
  <2>1. Append(emitted, p) \in Seq(Partitions)
    OBVIOUS
  <2>2. QED
    BY <1>1, <1>3, <2>1 DEF Yield, Rethrow, Running, Ended
<1>4. CASE Resume \/ Abandon
  BY <1>1, <1>4 DEF Resume, Abandon, Running, Ended
<1>5. CASE Cancel
  BY <1>1, <1>5 DEF Cancel
<1>6. QED
  BY <1>1, <1>2, <1>3, <1>4, <1>5 DEF ReaderOrCancel, Reader

-----------------------------------------------------------------------------
(* What stands behind a certified output. *)

StampInv == AskInv /\ VerifyInv /\ CertifiedMeansReproduced

LEMMA RetryStamp ==
    ASSUME TypeOK, StampInv, NEW p \in Partitions, task[p] \in {"asking", "verifying"},
           Retry(p)
    PROVE  StampInv'
<1> USE DEF TypeOK, StampInv, progress
<1>1. CleanRows[p] \in Nat /\ CleanRows[p] > 0
  BY WorksheetAssumption DEF AskInv, VerifyInv
<1>2. CASE attempt[p] = MaxAttempts
  <2>1. /\ task' = [task EXCEPT ![p] = "settled"] /\ UNCHANGED row
        /\ output' = [output EXCEPT ![p].certified = FALSE]
    BY <1>2 DEF Retry, GiveUp, Leave
  <2>2. AskInv' /\ CertifiedMeansReproduced'
    BY <2>1 DEF AskInv, CertifiedMeansReproduced, Outputs
  <2>3. VerifyInv'
    BY <2>1 DEF VerifyInv, Compiles
  <2>4. QED
    BY <2>2, <2>3
<1>3. CASE attempt[p] # MaxAttempts
  <2>1. task' = [task EXCEPT ![p] = "asking"] /\ UNCHANGED <<row, output>>
    BY <1>3 DEF Retry
  <2>2. AskInv' /\ CertifiedMeansReproduced'
    BY <1>1, <2>1 DEF AskInv, CertifiedMeansReproduced
  <2>3. VerifyInv'
    BY <2>1 DEF VerifyInv, Compiles
  <2>4. QED
    BY <2>2, <2>3
<1>4. QED
  BY <1>2, <1>3

\* A row that fits adds to the ones before it.
LEMMA RowsFit ==
    ASSUME TypeOK, VerifyInv, NEW p \in Partitions, RowFits(p)
    PROVE  \A i \in 1..row[p] : <<p, output[p].code, i>> \in Fits
<1>1. row[p] \in Nat /\ <<p, output[p].code, row[p]>> \in Fits
  BY DEF RowFits, Case, TypeOK
<1>2. \A i \in 1..(row[p] - 1) : <<p, output[p].code, i>> \in Fits
  BY DEF RowFits, VerifyInv
<1>3. ASSUME NEW i \in 1..row[p], i # row[p]
      PROVE  i \in 1..(row[p] - 1)
  BY <1>1, <1>3
<1>4. QED
  BY <1>1, <1>2, <1>3

LEMMA TaskStamp ==
    ASSUME TypeOK, StampInv, NEW p \in Partitions, TaskStep(p)
    PROVE  StampInv'
<1> USE DEF TypeOK, StampInv, progress
<1>0. CleanRows[p] \in Nat
  BY WorksheetAssumption
<1>1. CASE Acquire(p)
  <2>1. AskInv' /\ CertifiedMeansReproduced'
    BY <1>1 DEF Acquire, AskInv, CertifiedMeansReproduced, NoOutput
  <2>2. VerifyInv'
    BY <1>1 DEF Acquire, VerifyInv, Compiles
  <2>3. QED
    BY <2>1, <2>2
<1>2. CASE WaitCancelled(p) \/ AskFails(p) \/ VerifyThrows(p)
  <2>1. task' = [task EXCEPT ![p] = "faulted"] /\ UNCHANGED <<row, output>>
    BY <1>2 DEF WaitCancelled, AskFails, VerifyThrows, Leave
  <2>2. AskInv' /\ CertifiedMeansReproduced'
    BY <2>1 DEF AskInv, CertifiedMeansReproduced
  <2>3. VerifyInv'
    BY <2>1 DEF VerifyInv, Compiles
  <2>4. QED
    BY <2>2, <2>3
<1>3. ASSUME NEW a \in Answers, Answer(p, a)
      PROVE  StampInv'
  <2>1. AskInv' /\ CertifiedMeansReproduced'
    BY <1>3 DEF Answer, Leave, AskInv, CertifiedMeansReproduced
  <2>2. VerifyInv'
    BY <1>0, <1>3 DEF Answer, Leave, VerifyInv, AskInv, Compiles
  <2>3. QED
    BY <2>1, <2>2
<1>4. CASE AskTimesOut(p) \/ CompileFails(p) \/ Leaks(p)
  BY <1>4, RetryStamp DEF AskTimesOut, CompileFails, Leaks
<1>5. CASE RowFits(p)
  <2>1. AskInv'
    BY <1>5 DEF RowFits, Leave, AskInv
  <2>2. VerifyInv'
    <3>1. CASE row[p] = CleanRows[p] \/ cancelled
      BY <1>5, <3>1 DEF RowFits, Leave, VerifyInv, Compiles
    <3>2. CASE ~(row[p] = CleanRows[p] \/ cancelled)
      <4>1. row' = [row EXCEPT ![p] = row[p] + 1] /\ UNCHANGED <<task, output>>
        BY <1>5, <3>2 DEF RowFits
      <4>2. row'[p] = row[p] + 1 /\ row[p] + 1 \in 1..CleanRows[p]
        BY <1>0, <1>5, <3>2, <4>1 DEF RowFits, VerifyInv
      <4>3. \A i \in 1..row[p] : <<p, output[p].code, i>> \in Fits
        BY <1>5, RowsFit
      <4>4. \A i \in 1..(row'[p] - 1) : <<p, output[p].code, i>> \in Fits
        BY <4>2, <4>3
      <4>5. Compiles(p)'
        BY <1>5, <4>1 DEF RowFits, Compiles
      <4>6. \A q \in Partitions \ {p} : row'[q] = row[q] /\ Compiles(q)' = Compiles(q)
        BY <4>1 DEF Compiles
      <4>7. QED
        BY <1>5, <4>1, <4>2, <4>4, <4>5, <4>6 DEF RowFits, VerifyInv
    <3>3. QED
      BY <3>1, <3>2
  <2>3. CASE row[p] = CleanRows[p]
    <3>1. Reproduces(p, output[p].code) /\ output[p].code \in Answers
      <4>1. output[p].code \in Answers /\ row[p] \in 1..CleanRows[p]
        BY <1>5 DEF RowFits, VerifyInv
      <4>2. \A i \in 1..row[p] : <<p, output[p].code, i>> \in Fits
        BY <1>5, RowsFit
      <4>3. output[p].code \notin Uncompilable
        BY <1>5 DEF RowFits, Compiles
      <4>4. QED
        BY <1>0, <2>3, <4>1, <4>2, <4>3 DEF Reproduces
    <3>2. <<p, output[p].code>> \in FaithfulAnswers
      BY <3>1 DEF FaithfulAnswers
    <3>3. CertifiedMeansReproduced'
      BY <1>5, <2>3, <3>2 DEF RowFits, Leave, CertifiedMeansReproduced
    <3>4. QED
      BY <2>1, <2>2, <3>3
  <2>4. CASE row[p] # CleanRows[p]
    <3>1. CertifiedMeansReproduced'
      BY <1>5, <2>4 DEF RowFits, Leave, CertifiedMeansReproduced
    <3>2. QED
      BY <2>1, <2>2, <3>1
  <2>5. QED
    BY <2>3, <2>4
<1>6. QED
  BY <1>1, <1>2, <1>3, <1>4, <1>5 DEF TaskStep

LEMMA ReaderStamp ==
    ASSUME TypeOK, NoneBeforeBegin, StampInv, ReaderOrCancel
    PROVE  StampInv'
<1> USE DEF TypeOK, StampInv, progress, consumer
<1>1. CASE Begin
  BY <1>1 DEF Begin, NoneBeforeBegin, AskInv, VerifyInv, CertifiedMeansReproduced,
              Compiles
<1>2. CASE ~Begin
  <2>1. UNCHANGED <<task, row, output>>
    BY <1>2 DEF ReaderOrCancel, Reader, Yield, Rethrow, Resume, Abandon, Cancel
  <2>2. QED
    BY <2>1 DEF AskInv, VerifyInv, CertifiedMeansReproduced, Compiles
<1>3. QED
  BY <1>1, <1>2

-----------------------------------------------------------------------------
(* The outputs handed out. *)

StreamInv == NoneBeforeBegin /\ EmitInv /\ EachOutputOnce

\* The task of a partition leaves the stream alone and never leaves "settled".
LEMMA TaskStream ==
    ASSUME TypeOK, StreamInv, NEW p \in Partitions, TaskStep(p)
    PROVE  StreamInv'
<1> USE DEF TypeOK, consumer, progress
<1>1. /\ UNCHANGED <<stream, pending, emitted>>
      /\ task[p] \in {"queued", "asking", "verifying"}
      /\ \A q \in Partitions \ {p} : task'[q] = task[q]
  BY DEF TaskStep, Acquire, WaitCancelled, Answer, AskFails, AskTimesOut, CompileFails,
         RowFits, Leaks, VerifyThrows, Retry, GiveUp, Leave
<1>2. Emitted' = Emitted /\ Emitted \subseteq Partitions
  BY <1>1 DEF Emitted
<1>3. EmitInv' /\ NoneBeforeBegin'
  BY <1>1, <1>2 DEF StreamInv, EmitInv, NoneBeforeBegin
<1>4. EachOutputOnce'
  BY <1>1, <1>2 DEF StreamInv, EachOutputOnce
<1>5. QED
  BY <1>3, <1>4 DEF StreamInv

LEMMA EmittedAppend ==
    ASSUME TypeOK, NEW p \in Partitions, emitted' = Append(emitted, p)
    PROVE  /\ Emitted' = Emitted \cup {p}
           /\ Len(emitted') = Len(emitted) + 1 /\ emitted'[Len(emitted) + 1] = p
           /\ \A i \in 1..Len(emitted) : emitted'[i] = emitted[i]
<1>1. /\ Len(emitted') = Len(emitted) + 1 /\ emitted'[Len(emitted) + 1] = p
      /\ \A i \in 1..Len(emitted) : emitted'[i] = emitted[i]
      /\ Len(emitted) \in Nat
  BY DEF TypeOK
<1>2. 1..(Len(emitted) + 1) = (1..Len(emitted)) \cup {Len(emitted) + 1}
  BY <1>1
<1>3. Emitted' = {emitted'[i] : i \in (1..Len(emitted)) \cup {Len(emitted) + 1}}
  BY <1>1, <1>2 DEF Emitted
<1>4. Emitted' = Emitted \cup {p}
  BY <1>1, <1>3 DEF Emitted
<1>5. QED
  BY <1>1, <1>4

LEMMA ReaderStream ==
    ASSUME TypeOK, StreamInv, ReaderOrCancel
    PROVE  StreamInv'
<1> USE DEF TypeOK, StreamInv, consumer, progress
<1>1. CASE Begin
  <2>1. emitted = <<>> /\ emitted' = <<>> /\ Len(<<>>) = 0
    BY <1>1 DEF Begin, NoneBeforeBegin
  <2>2. Emitted' = {} /\ Len(emitted') = 0
    BY <2>1 DEF Emitted
  <2>3. EmitInv' /\ NoneBeforeBegin'
    BY <1>1, <2>2 DEF Begin, EmitInv, NoneBeforeBegin
  <2>4. PartitionCount = 0 => Partitions = {}
    BY DEF Partitions
  <2>5. EachOutputOnce'
    BY <1>1, <2>2, <2>4 DEF Begin, EachOutputOnce, NoneBeforeBegin, Running
  <2>6. QED
    BY <2>3, <2>5
<1>2. ASSUME NEW p \in Partitions, Yield(p)
      PROVE  StreamInv'
  <2>1. /\ Emitted' = Emitted \cup {p}
        /\ Len(emitted') = Len(emitted) + 1 /\ emitted'[Len(emitted) + 1] = p
        /\ \A i \in 1..Len(emitted) : emitted'[i] = emitted[i]
    BY <1>2, EmittedAppend DEF Yield
  <2>2. p \in pending /\ task[p] = "settled" /\ pending' = pending \ {p} /\ UNCHANGED task
        /\ stream = "waiting" /\ stream' = "consuming"
    BY <1>2 DEF Yield
  <2>3. EmitInv' /\ NoneBeforeBegin'
    BY <2>1, <2>2 DEF EmitInv, NoneBeforeBegin
  <2>4. \A i \in 1..Len(emitted) : emitted[i] # p
    BY <2>2 DEF EachOutputOnce, Emitted
  <2>5. \A i, k \in 1..Len(emitted') : emitted'[i] = emitted'[k] => i = k
    <3>1. \A i \in 1..Len(emitted') : i \in 1..Len(emitted) \/ i = Len(emitted) + 1
      BY <2>1
    <3>2. \A i, k \in 1..Len(emitted) : emitted'[i] = emitted'[k] => i = k
      BY <2>1 DEF EachOutputOnce
    <3>3. \A i \in 1..Len(emitted) : emitted'[i] # emitted'[Len(emitted) + 1]
      BY <2>1, <2>4
    <3>4. QED
      BY <3>1, <3>2, <3>3
  <2>6. /\ Emitted' \cap pending' = {}
        /\ Emitted' \cup pending' = Partitions
    BY <2>1, <2>2 DEF EachOutputOnce, Running
  <2>7. EachOutputOnce'
    BY <2>2, <2>5, <2>6 DEF EachOutputOnce
  <2>8. QED
    BY <2>3, <2>7
<1>3. ASSUME NEW p \in Partitions, Rethrow(p)
      PROVE  StreamInv'
  <2>1. Emitted' = Emitted /\ UNCHANGED <<emitted, task>>
    BY <1>3 DEF Rethrow, Emitted
  <2>2. QED
    BY <1>3, <2>1 DEF Rethrow, EmitInv, NoneBeforeBegin, EachOutputOnce, Running
<1>4. CASE Resume \/ Abandon \/ Cancel
  <2>1. Emitted' = Emitted /\ UNCHANGED <<emitted, task, pending>>
    BY <1>4 DEF Resume, Abandon, Cancel, Emitted
  <2>2. EmitInv' /\ NoneBeforeBegin'
    BY <1>4, <2>1 DEF Resume, Abandon, Cancel, EmitInv, NoneBeforeBegin
  <2>3. EachOutputOnce'
    BY <1>4, <2>1 DEF Resume, Abandon, Cancel, EachOutputOnce, Running
  <2>4. QED
    BY <2>2, <2>3
<1>5. QED
  BY <1>1, <1>2, <1>3, <1>4 DEF ReaderOrCancel, Reader

-----------------------------------------------------------------------------
(* The inductive invariant, and what follows from it. *)

SafetyInv == TypeOK /\ SlotsConserved /\ StampInv /\ StreamInv

LEMMA SafetyInit == Init => SafetyInv
<1> SUFFICES ASSUME Init PROVE SafetyInv
  OBVIOUS
<1>1. TypeOK /\ SlotsConserved /\ NoneBeforeBegin
  BY TypeInit
<1>2. StampInv
  BY DEF Init, StampInv, AskInv, VerifyInv, CertifiedMeansReproduced
<1>3. emitted = <<>> /\ Len(<<>>) = 0 /\ pending = {} /\ stream = "idle"
  BY DEF Init
<1>4. Emitted = {} /\ Len(emitted) = 0
  BY <1>3 DEF Emitted
<1>5. EmitInv /\ EachOutputOnce
  BY <1>3, <1>4 DEF EmitInv, EachOutputOnce, Running
<1>6. QED
  BY <1>1, <1>2, <1>5 DEF SafetyInv, StreamInv

LEMMA SafetyNext == SafetyInv /\ [Next]_vars => SafetyInv'
<1> SUFFICES ASSUME SafetyInv, [Next]_vars PROVE SafetyInv'
  OBVIOUS
<1>1. CASE ReaderOrCancel
  BY <1>1, ReaderTypes, ReaderStamp, ReaderStream DEF SafetyInv, StreamInv
<1>2. CASE \E p \in Partitions : TaskStep(p)
  BY <1>2, TaskTypes, TaskStamp, TaskStream DEF SafetyInv
<1>3. CASE UNCHANGED vars
  <2>1. TypeOK' /\ SlotsConserved'
    BY <1>3 DEF vars, SafetyInv, TypeOK, SlotsConserved, Busy
  <2>2. StampInv'
    BY <1>3 DEF vars, SafetyInv, StampInv, AskInv, VerifyInv, CertifiedMeansReproduced,
                Compiles
  <2>3. StreamInv'
    BY <1>3 DEF vars, SafetyInv, StreamInv, NoneBeforeBegin, EmitInv, EachOutputOnce, Emitted
  <2>4. QED
    BY <2>1, <2>2, <2>3 DEF SafetyInv
<1>4. QED
  BY <1>1, <1>2, <1>3 DEF Next, ReaderOrCancel

\* Every reachable state satisfies the inductive invariant.
THEOREM SafetyInvariant == Spec => []SafetyInv
BY SafetyInit, SafetyNext, PTL DEF Spec

\* Every variable of the orchestrator keeps its type; in particular no partition
\* gets more than MaxAttempts attempts and the semaphore never exceeds its count.
THEOREM TypeCorrect == Spec => []TypeOK
BY SafetyInvariant, PTL DEF SafetyInv

\* No output is certified unless its code computes every clean row of its
\* partition, whatever the model answers, times out or is asked again.
THEOREM CertifiedIsReproduced == Spec => []CertifiedMeansReproduced
BY SafetyInvariant, PTL DEF SafetyInv, StampInv

\* Slots are neither lost nor made, on any path out of a task.
THEOREM SlotsAreConserved == Spec => []SlotsConserved
BY SafetyInvariant, PTL DEF SafetyInv

\* The caller gets each output once, and all of them if the stream finishes.
THEOREM OutputsOnce == Spec => []EachOutputOnce
BY SafetyInvariant, PTL DEF SafetyInv, StreamInv

-----------------------------------------------------------------------------
(* The orchestrator implements CertifiedTranslation. *)

LEMMA PromiseInit == Init => Promise!Init
<1> SUFFICES ASSUME Init PROVE Promise!Init
  OBVIOUS
<1>1. emitted = <<>> /\ Len(<<>>) = 0 /\ stream = "idle"
  BY DEF Init
<1>2. Emitted = {} /\ Outcome = "running"
  BY <1>1 DEF Emitted, Outcome, Ended
<1>3. Verdicts = [p \in Partitions |-> "open"]
  BY DEF Init, Verdicts
<1>4. VerdictAnswers = [p \in Partitions |-> NoAnswer]
  BY DEF Init, VerdictAnswers
<1>5. QED
  BY <1>2, <1>3, <1>4 DEF Promise!Init

\* The promise does not see a task that is not settled.
LEMMA UnsettledUnseen ==
    ASSUME TypeOK, UNCHANGED <<stream, emitted>>,
           \A p \in Partitions : \/ task[p] # "settled" /\ task'[p] # "settled"
                                 \/ task'[p] = task[p] /\ output'[p] = output[p]
    PROVE  UNCHANGED Promise!promise
BY DEF Promise!promise, Verdicts, VerdictAnswers, Outcome, Emitted

LEMMA SettlePromise ==
    ASSUME SafetyInv, SafetyInv', NEW p \in Partitions, UNCHANGED <<stream, emitted>>,
           task[p] # "settled", task'[p] = "settled",
           \A q \in Partitions \ {p} : task'[q] = task[q] /\ output'[q] = output[q]
    PROVE  Promise!Next
<1>1. output'[p].code \in Answers \cup {NoAnswer} /\ output'[p].certified \in BOOLEAN
  BY DEF SafetyInv, TypeOK, Outputs
<1>2. Emitted' = Emitted /\ Outcome' = Outcome
  BY DEF Emitted, Outcome
<1>3. /\ Verdicts[p] = "open"
      /\ Verdicts' = [Verdicts EXCEPT ![p] = IF output'[p].certified THEN "certified"
                                              ELSE "rejected"]
      /\ VerdictAnswers' = [VerdictAnswers EXCEPT ![p] = output'[p].code]
  BY DEF Verdicts, VerdictAnswers
<1>4. CASE output'[p].certified
  <2>1. <<p, output'[p].code>> \in FaithfulAnswers
    BY <1>4 DEF SafetyInv, StampInv, CertifiedMeansReproduced, FaithfulAnswers, Reproduces
  <2>2. output'[p].code \in Answers
    BY <2>1 DEF FaithfulAnswers
  <2>3. Promise!Certify(p, output'[p].code)
    BY <1>2, <1>3, <1>4, <2>1 DEF Promise!Certify, Promise!Settle
  <2>4. QED
    BY <2>2, <2>3 DEF Promise!Next
<1>5. CASE ~output'[p].certified
  <2>1. Promise!Reject(p, output'[p].code)
    BY <1>2, <1>3, <1>5 DEF Promise!Reject, Promise!Settle
  <2>2. QED
    BY <1>1, <2>1 DEF Promise!Next
<1>6. QED
  BY <1>1, <1>4, <1>5

LEMMA TaskPromise ==
    ASSUME SafetyInv, SafetyInv', NEW p \in Partitions, TaskStep(p)
    PROVE  [Promise!Next]_(Promise!promise)
<1>1. /\ UNCHANGED <<stream, emitted>>
      /\ task[p] # "settled"
      /\ \A q \in Partitions \ {p} : task'[q] = task[q] /\ output'[q] = output[q]
  BY DEF SafetyInv, TypeOK, consumer, progress, TaskStep, Acquire, WaitCancelled, Answer,
         AskFails, AskTimesOut, CompileFails, RowFits, Leaks, VerifyThrows, Retry, GiveUp,
         Leave
<1>2. CASE task'[p] = "settled"
  BY <1>1, <1>2, SettlePromise
<1>3. CASE task'[p] # "settled"
  BY <1>1, <1>3, UnsettledUnseen DEF SafetyInv
<1>4. QED
  BY <1>2, <1>3

LEMMA ReaderPromise ==
    ASSUME SafetyInv, SafetyInv', ReaderOrCancel
    PROVE  [Promise!Next]_(Promise!promise)
<1> USE DEF SafetyInv, TypeOK, progress, consumer
<1>1. CASE Begin
  <2>1. /\ Verdicts' = Verdicts /\ VerdictAnswers' = VerdictAnswers
        /\ Emitted' = Emitted
    BY <1>1 DEF Begin, StreamInv, NoneBeforeBegin, Verdicts, VerdictAnswers, Emitted
  <2>2. Outcome = "running"
    BY <1>1 DEF Begin, Outcome, Ended
  <2>3. CASE stream' = "waiting"
    BY <2>1, <2>2, <2>3 DEF Outcome, Ended, Promise!promise
  <2>4. CASE stream' = "finished"
    <3>1. Emitted = Partitions /\ Outcome' = "complete"
      BY <2>1, <2>4 DEF StreamInv, EachOutputOnce, Outcome
    <3>2. Promise!Complete
      BY <2>1, <2>2, <3>1 DEF Promise!Complete
    <3>3. QED
      BY <3>2 DEF Promise!Next
  <2>5. CASE stream' = "threw"
    <3>1. Promise!Break
      BY <2>1, <2>2, <2>5 DEF Outcome, Ended, Promise!Break
    <3>2. QED
      BY <3>1 DEF Promise!Next
  <2>6. QED
    BY <1>1, <2>3, <2>4, <2>5 DEF Begin
<1>2. ASSUME NEW p \in Partitions, Yield(p)
      PROVE  [Promise!Next]_(Promise!promise)
  <2>1. Emitted' = Emitted \cup {p}
    BY <1>2, EmittedAppend DEF Yield
  <2>2. p \notin Emitted
    BY <1>2 DEF Yield, StreamInv, EachOutputOnce
  <2>3. /\ Verdicts' = Verdicts /\ VerdictAnswers' = VerdictAnswers
        /\ Verdicts[p] # "open"
        /\ Outcome = "running" /\ Outcome' = "running"
    BY <1>2 DEF Yield, Verdicts, VerdictAnswers, Outcome, Ended
  <2>4. Promise!Deliver(p)
    BY <2>1, <2>2, <2>3 DEF Promise!Deliver
  <2>5. QED
    BY <2>4 DEF Promise!Next
<1>3. CASE Abandon \/ \E p \in Partitions : Rethrow(p)
  <2>1. Promise!Break
    BY <1>3 DEF Abandon, Rethrow, Promise!Break, Verdicts, VerdictAnswers, Emitted, Outcome,
                Ended
  <2>2. QED
    BY <2>1 DEF Promise!Next
<1>4. CASE Resume
  <2>1. /\ Verdicts' = Verdicts /\ VerdictAnswers' = VerdictAnswers /\ Emitted' = Emitted
        /\ Outcome = "running"
    BY <1>4 DEF Resume, Verdicts, VerdictAnswers, Emitted, Outcome, Ended
  <2>2. CASE pending = {}
    <3>1. Emitted = Partitions /\ Outcome' = "complete"
      BY <1>4, <2>2 DEF Resume, StreamInv, EachOutputOnce, Running, Outcome
    <3>2. Promise!Complete
      BY <2>1, <3>1 DEF Promise!Complete
    <3>3. QED
      BY <3>2 DEF Promise!Next
  <2>3. CASE pending # {}
    BY <1>4, <2>1, <2>3 DEF Resume, Outcome, Ended, Promise!promise
  <2>4. QED
    BY <2>2, <2>3
<1>5. CASE Cancel
  BY <1>5 DEF Cancel, Promise!promise, Verdicts, VerdictAnswers, Emitted, Outcome
<1>6. QED
  BY <1>1, <1>2, <1>3, <1>4, <1>5 DEF ReaderOrCancel, Reader

\* The detailed specification implements the promise made to the worker: every
\* behaviour of the tasks, the semaphore, the retries and the stream is one of
\* CertifiedTranslation.
THEOREM Implements == Spec => KeepsPromise
<1>1. SafetyInv /\ SafetyInv' /\ [Next]_vars => [Promise!Next]_(Promise!promise)
  <2> SUFFICES ASSUME SafetyInv, SafetyInv', [Next]_vars
               PROVE  [Promise!Next]_(Promise!promise)
    OBVIOUS
  <2>1. CASE UNCHANGED vars
    BY <2>1 DEF vars, Promise!promise, Verdicts, VerdictAnswers, Emitted, Outcome
  <2>2. QED
    BY <2>1, TaskPromise, ReaderPromise DEF Next, ReaderOrCancel
<1>2. QED
  BY <1>1, PromiseInit, SafetyInvariant, PTL DEF Spec, KeepsPromise, Promise!Spec
=============================================================================
