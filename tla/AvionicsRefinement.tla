------------------------- MODULE AvionicsRefinement -------------------------
(***************************************************************************)
(* The flight computer implements the abstract recorder: loop() and        *)
(* writeFlash(), with their flag, position and two buffers, behave like    *)
(* batches that are collected, handed over and stored as units.            *)
(***************************************************************************)
EXTENDS AvionicsProofs, SequenceTheorems

\* A function on 1 .. n is a sequence of length n.
LEMMA FunctionIsSeq ==
  ASSUME NEW S, NEW n \in Nat, NEW f \in [1 .. n -> S]
  PROVE  f \in Seq(S) /\ Len(f) = n
<1>1. f \in Seq(S)
  BY SeqDef
<1>2. Len(f) \in Nat /\ DOMAIN f = 1 .. Len(f)
  BY <1>1, LenProperties
<1>3. 1 .. n = 1 .. Len(f)
  BY <1>2
<1>4. Len(f) = n
  BY <1>2, <1>3
<1> QED BY <1>1, <1>4

\* The batch being collected is a sequence as long as the packets in it.
LEMMA PendingIsSeq ==
  ASSUME TypeOK PROVE Pending \in Seq(Samples) /\ Len(Pending) = Taken /\ Taken \in Nat
<1>1. Taken \in Nat /\ \A k \in 1 .. Taken : writeBuffer[k - 1] \in Samples
  BY SlotsAssumption DEF TypeOK, BufferTypeOK, Index, Taken, BatchSize
<1>2. Pending \in [1 .. Taken -> Samples]
  BY <1>1 DEF Pending
<1> QED BY <1>1, <1>2, FunctionIsSeq

\* A batch being written is not empty.
LEMMA SavingNotEmpty ==
  ASSUME TypeOK, pc["flash"] = "writing" PROVE Saving # <<>>
<1>1. BatchSize \in Nat \ {0}
  BY SlotsAssumption DEF BatchSize
<1>2. \A k \in 1 .. BatchSize : writeBufferCopy[k - 1] \in Samples
  BY SlotsAssumption DEF TypeOK, StoreTypeOK, Index, BatchSize
<1>3. Saving \in [1 .. BatchSize -> Samples]
  BY <1>2 DEF Saving
<1>4. Len(Saving) = BatchSize
  BY <1>1, <1>3, FunctionIsSeq
<1> QED BY <1>1, <1>4, EmptySeq

\* Finishing a packet is collecting it.
LEMMA FinishCollects ==
  ASSUME TypeOK, BufferInv, NEW r, FinishPacket(NextStamp[Newest], r),
         pc'["flash"] = pc["flash"], UNCHANGED storeVars
  PROVE  Recording!Collect
<1>1. /\ Newest' = NextStamp[Newest]
      /\ NextStamp[Newest] \in Samples
  <2>1. Newest \in Stamps
    BY StampAssumption DEF Newest, TypeOK, BuildTypeOK, Packets, Samples
  <2> QED BY <2>1, FinishStep, StampAssumption DEF Samples
<1>2. wbPos \in Nat /\ wbPos' = wbPos + 1 /\ BatchSize \in Nat /\ Slots = BatchSize + 1
  BY SlotsAssumption DEF FinishPacket, TypeOK, BufferTypeOK, BatchSize
<1>3. Pending \in Seq(Samples) /\ Len(Pending) = Taken /\ Taken \in Nat
  BY PendingIsSeq
<1>4. CASE writeSignal
  <2>1. Taken = BatchSize /\ Taken' = BatchSize
    BY <1>2, <1>4 DEF Taken, BufferInv, SignalMeansFull, BatchSize
  <2>2. writeBuffer' = writeBuffer
    BY <1>4 DEF FinishPacket, Store
  <2>3. Pending' = Pending
    BY <2>1, <2>2 DEF Pending
  <2>4. ~(Len(Pending) < BatchSize)
    BY <1>2, <1>3, <2>1
  <2> QED BY <1>1, <2>3, <2>4 DEF Recording!Collect, Saving, LastStored, storeVars, BatchSize
<1>5. CASE ~writeSignal
  <2>1. Taken = wbPos /\ Taken' = wbPos + 1 /\ wbPos < BatchSize
    BY <1>2, <1>5 DEF Taken, BufferInv, SignalMeansFull, BatchSize
  <2>2. writeBuffer' = [writeBuffer EXCEPT ![wbPos] = NextStamp[Newest]]
    BY <1>5 DEF FinishPacket, Store
  <2>3. /\ writeBuffer'[wbPos] = NextStamp[Newest]
        /\ \A k \in 0 .. wbPos - 1 : writeBuffer'[k] = writeBuffer[k]
    BY <1>2, <2>1, <2>2 DEF TypeOK, BufferTypeOK, Index
  <2> DEFINE app == Append(Pending, Newest')
  <2>4. /\ app \in Seq(Samples) /\ Len(app) = wbPos + 1
        /\ \A k \in 1 .. wbPos : app[k] = Pending[k]
        /\ app[wbPos + 1] = NextStamp[Newest]
    BY <1>1, <1>3, <2>1, AppendProperties
  <2>5. app \in [1 .. wbPos + 1 -> Samples]
    BY <2>4, LenProperties
  <2> HIDE DEF app
  <2>6. ASSUME NEW k \in 1 .. wbPos + 1 PROVE app[k] = writeBuffer'[k - 1]
    <3>1. CASE k = wbPos + 1
      BY <1>2, <2>3, <2>4, <3>1
    <3>2. CASE k \in 1 .. wbPos
      BY <1>2, <2>1, <2>3, <2>4, <3>2 DEF Pending
    <3> QED BY <1>2, <3>1, <3>2
  <2>7. Pending' = app
    <3>1. Pending' = [k \in 1 .. wbPos + 1 |-> writeBuffer'[k - 1]]
      BY <2>1 DEF Pending
    <3> QED BY <3>1, <2>5, <2>6
  <2>8. Len(Pending) < BatchSize
    BY <1>3, <2>1
  <2> QED BY <1>1, <2>7, <2>8 DEF app, Recording!Collect, Saving, LastStored, storeVars, BatchSize
<1> QED BY <1>4, <1>5

\* Every step of the flight computer is a step of the recorder or none.
THEOREM RecordingStep == AvionicsInv /\ [Next]_vars => [Recording!Next]_Recording!vars
<1> SUFFICES ASSUME AvionicsInv, [Next]_vars
             PROVE  Recording!Next \/ UNCHANGED <<Newest, Pending, Saving, LastStored>>
  BY DEF Recording!vars
<1>0. TypeOK /\ SchedTypeOK /\ BufferInv
  BY DEF AvionicsInv, TypeOK
<1>1. ASSUME NEW r, BuildQuiet(r) \/ BuildOnA(r) PROVE Recording!Collect
  <2>1. pc["loop"] = "top" /\ pc'["flash"] = pc["flash"]
    BY <1>0, <1>1, YieldPc DEF BuildQuiet, BuildOnA, Sample, At, FinishPacket, Tasks
  <2>2. stamp = Newest
    BY <1>0, <2>1 DEF BufferInv, NoGapInBuffer, Sweeping
  <2>3. FinishPacket(NextStamp[Newest], r) /\ UNCHANGED storeVars
    BY <1>1, <2>2 DEF BuildQuiet, BuildOnA, Sample
  <2> QED BY <1>0, <2>1, <2>3, FinishCollects
<1>2. CASE SweepEnd
  <2>1. pc["loop"] = "sweep" /\ pc'["flash"] = pc["flash"]
    BY <1>0, <1>2, YieldPc DEF SweepEnd, At, FinishPacket, Tasks
  <2>2. stamp = NextStamp[Newest]
    BY <1>0, <2>1 DEF BufferInv, NoGapInBuffer, Sweeping
  <2>3. FinishPacket(NextStamp[Newest], raven) /\ UNCHANGED storeVars
    BY <1>2, <2>2 DEF SweepEnd
  <2>4. Recording!Collect
    BY <1>0, <2>1, <2>3, FinishCollects
  <2> QED BY <2>4 DEF Recording!Next
<1>3. CASE SnapshotYield \/ SnapshotBlock
  <2>1. TakeOver /\ pc["flash"] = "check" /\ pc'["flash"] = "writing"
    BY <1>0, <1>3, YieldPc
       DEF SnapshotYield, SnapshotBlock, TakeOver, At, Tasks, SchedTypeOK
  <2>2. Taken = BatchSize /\ Taken' = 0 /\ wbPos >= BatchSize
    BY <1>0, <2>1, SlotsAssumption
       DEF TakeOver, BufferInv, SignalMeansFull, Taken, BatchSize, TypeOK, BufferTypeOK
  <2>3. Len(Pending) = BatchSize
    BY <1>0, <2>2, PendingIsSeq
  <2>4. \A k \in 1 .. BatchSize : writeBufferCopy'[k - 1] = writeBuffer[k - 1]
    BY <1>0, <2>1, <2>2, SlotsAssumption
       DEF TakeOver, Index, BatchSize, TypeOK, BufferTypeOK
  <2>5. Saving' = Pending
    BY <2>1, <2>2, <2>4 DEF Saving, Pending, BatchSize
  <2>6. Pending' = <<>>
    <3>1. Pending' \in [1 .. 0 -> Samples]
      BY <2>2 DEF Pending
    <3>2. Pending' \in Seq(Samples) /\ Len(Pending') = 0
      BY <3>1, FunctionIsSeq
    <3> QED BY <3>2, EmptySeq
  <2>7. Saving = <<>>
    BY <2>1 DEF Saving
  <2>8. UNCHANGED <<Newest, LastStored>>
    BY <2>1 DEF TakeOver, Newest, LastStored, buildVars
  <2> QED BY <2>3, <2>5, <2>6, <2>7, <2>8 DEF Recording!Next, Recording!HandOver
<1>4. CASE Stored \/ OpenFailed
  <2>1. pc["flash"] = "writing" /\ pc'["flash"] = "paused"
    BY <1>0, <1>4, YieldPc DEF Stored, OpenFailed, At, Tasks
  <2>2. Saving # <<>> /\ Saving' = <<>>
    BY <1>0, <2>1, SavingNotEmpty DEF Saving
  <2>3. UNCHANGED <<Newest, Pending>>
    BY <1>4 DEF Stored, OpenFailed, Newest, Pending, Taken, BatchSize, buildVars, bufferVars
  <2>4. LastStored' \in {Saving, LastStored}
    <3>1. CASE OpenFailed
      BY <3>1 DEF OpenFailed, LastStored, storeVars
    <3>2. CASE Stored
      <4> DEFINE n == IF cpyLen <= Slots THEN cpyLen ELSE Slots
      <4>1. file' = [k \in 1 .. n |-> writeBufferCopy[k - 1]]
        BY <3>2 DEF Stored, Batch
      <4>2. n \in {BatchSize, Slots} /\ Slots = BatchSize + 1 /\ BatchSize \in Nat
        BY <1>0, <2>1, SlotsAssumption
           DEF AvionicsInv, StoreInv, CopyConsecutive, BatchSize, TypeOK, StoreTypeOK
      <4> HIDE DEF n
      <4>3. DOMAIN file' \ {Slots} = 1 .. BatchSize
        <5>1. DOMAIN file' = 1 .. n
          BY <4>1
        <5>2. \A k : k \in (1 .. n) \ {Slots} <=> k \in 1 .. BatchSize
          BY <4>2
        <5> QED BY <5>1, <5>2
      <4>4. \A k \in 1 .. BatchSize : file'[k] = writeBufferCopy[k - 1]
        BY <4>1, <4>2
      <4> QED BY <2>1, <4>3, <4>4 DEF LastStored, Saving
    <3> QED BY <1>4, <3>1, <3>2
  <2> QED BY <2>2, <2>3, <2>4 DEF Recording!Next, Recording!Save
<1>5. ASSUME /\ UNCHANGED <<bufferVars, storeVars>>
             /\ packetBuffer'.tail = packetBuffer.tail
             /\ \/ pc'["flash"] = pc["flash"]
                \/ {pc["flash"], pc'["flash"]} \subseteq {"top", "check", "paused"}
      PROVE  UNCHANGED <<Newest, Pending, Saving, LastStored>>
  <2>1. Newest' = Newest
    BY <1>5 DEF Newest
  <2>2. Pending' = Pending
    BY <1>5 DEF Pending, Taken, BatchSize, bufferVars
  <2>3. Saving' = Saving
    BY <1>5 DEF Saving, BatchSize, storeVars
  <2>4. LastStored' = LastStored
    BY <1>5 DEF LastStored, storeVars
  <2> QED BY <2>1, <2>2, <2>3, <2>4
<1>6. CASE Resume("loop") \/ LoopLocked \/ SweepStep \/ Radio
  BY <1>0, <1>5, <1>6, YieldPc
     DEF Resume, LoopLocked, SweepStep, Radio, RadioSendNow, RadioLock, RadioWait,
         RadioSend, Transmit, Tasks, buildVars
<1>7. ASSUME NEW r, SweepStart(r)
      PROVE  UNCHANGED <<Newest, Pending, Saving, LastStored>>
  <2>1. packetBuffer'.tail = packetBuffer.tail
    BY <1>0, <1>7 DEF SweepStart, TypeOK, BuildTypeOK, Packets
  <2>2. pc'["flash"] = pc["flash"]
    BY <1>0, <1>7, YieldPc DEF SweepStart, Tasks
  <2>3. UNCHANGED <<bufferVars, storeVars>>
    BY <1>7 DEF SweepStart, Sample
  <2> QED BY <1>5, <2>1, <2>2, <2>3
<1>8. CASE Resume("flash") \/ FlashEntry \/ FlashIdle
  BY <1>0, <1>5, <1>8, YieldPc DEF Resume, FlashEntry, FlashIdle, At, Tasks, buildVars
<1>9. CASE Pass \/ TxDone \/ UNCHANGED vars
  BY <1>5, <1>9 DEF Pass, TxDone, vars, buildVars, schedVars
<1> QED BY <1>1, <1>2, <1>3, <1>4, <1>6, <1>7, <1>8, <1>9
  DEF Next, Cpu, Loop, Flash, Recording!Next

\* The recorder starts empty.
LEMMA RecordingStart == Init => Recording!Init
<1> SUFFICES ASSUME Init PROVE Recording!Init
  OBVIOUS
<1>1. Newest = FirstStamp /\ Saving = <<>>
  BY DEF Init, Newest, Saving, Tasks
<1>2. Taken = 0
  BY SlotsAssumption DEF Init, Taken, BatchSize
<1>3. Pending \in [1 .. 0 -> Samples]
  BY <1>2 DEF Pending
<1>4. Pending = <<>>
  <2>1. Pending \in Seq(Samples) /\ Len(Pending) = 0
    BY <1>3, FunctionIsSeq
  <2> QED BY <2>1, EmptySeq
<1>5. LastStored = <<>>
  <2>1. DOMAIN file = 1 .. 0
    BY DEF Init
  <2>2. (1 .. 0) \ {Slots} = 1 .. 0
    OBVIOUS
  <2>3. LastStored \in [1 .. 0 -> Samples]
    BY <2>1, <2>2 DEF LastStored
  <2>4. LastStored \in Seq(Samples) /\ Len(LastStored) = 0
    BY <2>3, FunctionIsSeq
  <2> QED BY <2>4, EmptySeq
<1> QED BY <1>1, <1>4, <1>5 DEF Recording!Init

\* The flight computer records as the abstract recorder promises.
THEOREM RecordsAsPromisedHolds == Spec => RecordsAsPromised
  BY RecordingStart, RecordingStep, Invariant, PTL DEF Spec, RecordsAsPromised
=============================================================================
