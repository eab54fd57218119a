--------------------------- MODULE AvionicsProofs ---------------------------
(***************************************************************************)
(* Proofs about Avionics, for every size of the write buffer, every sweep, *)
(* every delay, every set of altimeter pins and both scheduler orders.     *)
(***************************************************************************)
EXTENDS Avionics, TLAPS

-----------------------------------------------------------------------------
(* The type invariant                                                      *)

\* What is left of a delay is a number of milliseconds.
LEMMA AfterType == ASSUME NEW ms \in Nat, NEW d \in Nat PROVE After(ms, d) \in Nat
  BY DEF After

\* The ring hands the processor to a task.
LEMMA RingType == Ring \in [Tasks -> Tasks]
  BY RingAssumption DEF Rings

\* A slice that ends in a yield leaves the scheduler's variables well typed.
LEMMA YieldType ==
  ASSUME SchedTypeOK, NEW t \in Tasks, NEW label \in Labels(t), NEW ms \in Nat,
         YieldAt(t, label, ms)
  PROVE  SchedTypeOK'
<1>1. /\ pc' \in [Tasks -> UNION {Labels(u) : u \in Tasks}]
      /\ \A u \in Tasks : pc'[u] \in Labels(u)
  BY DEF SchedTypeOK, YieldAt
<1>2. wait' \in [Tasks -> Nat]
  <2>1. PICK d \in 0 .. SliceMs :
          wait' = [u \in Tasks |-> IF u = t THEN ms ELSE After(wait[u], d)]
    BY DEF YieldAt
  <2>2. \A u \in Tasks : After(wait[u], d) \in Nat
    BY AfterType, DelayAssumption DEF SchedTypeOK
  <2> QED BY <2>1, <2>2
<1>3. turn' \in Tasks
  BY RingType DEF YieldAt, SchedTypeOK
<1> QED BY <1>1, <1>2, <1>3 DEF SchedTypeOK

\* Finishing a packet keeps the packet, the write buffer and the scheduler well
\* typed.
LEMMA FinishType ==
  ASSUME BufferTypeOK, SchedTypeOK, NEW s \in Stamps, NEW r, FinishPacket(s, r)
  PROVE  packetBuffer' \in Packets /\ BufferTypeOK' /\ SchedTypeOK'
<1>1. packetBuffer' \in Packets
  BY DEF FinishPacket, Packets, Samples
<1>2. BufferTypeOK'
  <2>1. Store(s) \in [Index -> Samples]
    BY DEF Store, BufferTypeOK, Samples
  <2> QED BY <2>1, SlotsAssumption DEF FinishPacket, BufferTypeOK, Full
<1>3. SchedTypeOK'
  BY YieldType, DelayAssumption DEF FinishPacket, Tasks, Labels
<1> QED BY <1>1, <1>2, <1>3

\* setup() leaves every variable well typed.
THEOREM TypeInit == Init => TypeOK
<1> SUFFICES ASSUME Init PROVE TypeOK
  OBVIOUS
<1>1. BuildTypeOK /\ RadioTypeOK
  <2>1. [body |-> Blank, tail |-> Blank] \in Packets
    BY DEF Packets, Samples
  <2>2. SweepFrom \in SweepFrom .. SweepTo - 1
    BY SweepAssumption
  <2> QED BY <2>1, <2>2, StampAssumption DEF Init, BuildTypeOK, RadioTypeOK
<1>2. BufferTypeOK /\ StoreTypeOK
  <2>1. file \in [1 .. 0 -> Samples] /\ 0 \in 0 .. Slots
    BY SlotsAssumption DEF Init
  <2> QED BY <2>1 DEF Init, BufferTypeOK, StoreTypeOK, Samples
<1>3. SchedTypeOK
  BY DEF Init, SchedTypeOK, Labels
<1> QED BY <1>1, <1>2, <1>3 DEF TypeOK

\* Every slice of loop() keeps the types.
LEMMA TypeLoop == TypeOK /\ Loop => TypeOK'
<1> SUFFICES ASSUME TypeOK, Loop PROVE TypeOK'
  OBVIOUS
<1> USE DEF TypeOK
<1> DEFINE Pins == SUBSET (RavenA \union RavenB)
<1>1. CASE Resume("loop") \/ LoopLocked
  <2>1. SchedTypeOK'
    BY <1>1, YieldType, DelayAssumption DEF Resume, LoopLocked, Tasks, Labels
  <2> QED BY <1>1, <2>1
    DEF Resume, LoopLocked, BuildTypeOK, BufferTypeOK, StoreTypeOK, RadioTypeOK,
        buildVars, bufferVars, storeVars, radioVars
<1>2. ASSUME NEW r \in Pins, BuildQuiet(r) \/ BuildOnA(r) PROVE TypeOK'
  <2>1. NextStamp[stamp] \in Stamps
    BY StampAssumption DEF BuildTypeOK
  <2>2. packetBuffer' \in Packets /\ BufferTypeOK' /\ SchedTypeOK'
    BY <1>2, <2>1, FinishType DEF BuildQuiet, BuildOnA
  <2>3. stamp' \in Stamps /\ raven' = r /\ lastRaven' = r
    BY <1>2, <2>1 DEF BuildQuiet, BuildOnA, Sample, FinishPacket
  <2>4. deployed' \in BOOLEAN /\ servo' = servo
    BY <1>2 DEF BuildQuiet, BuildOnA, BuildTypeOK
  <2>5. UNCHANGED <<storeVars, radioVars>>
    BY <1>2 DEF BuildQuiet, BuildOnA, Sample
  <2>6. BuildTypeOK'
    BY <2>2, <2>3, <2>4 DEF BuildTypeOK
  <2> QED BY <2>2, <2>5, <2>6 DEF StoreTypeOK, RadioTypeOK, storeVars, radioVars
<1>3. ASSUME NEW r \in Pins, SweepStart(r) PROVE TypeOK'
  <2>1. stamp' \in Stamps /\ raven' = r /\ packetBuffer' \in Packets
    BY <1>3, StampAssumption
       DEF SweepStart, Sample, BuildTypeOK, Packets, Samples
  <2>2. servo' \in SweepFrom .. SweepTo - 1
    BY <1>3, SweepAssumption DEF SweepStart
  <2>3. SchedTypeOK'
    BY <1>3, YieldType, DelayAssumption DEF SweepStart, Tasks, Labels
  <2>4. BuildTypeOK'
    BY <1>3, <2>1, <2>2 DEF SweepStart, BuildTypeOK
  <2> QED BY <1>3, <2>3, <2>4
    DEF SweepStart, Sample, BufferTypeOK, StoreTypeOK, RadioTypeOK,
        bufferVars, storeVars, radioVars
<1>4. CASE SweepStep
  <2>1. servo' \in SweepFrom .. SweepTo - 1
    BY <1>4, SweepAssumption DEF SweepStep, BuildTypeOK
  <2>2. SchedTypeOK'
    BY <1>4, YieldType, DelayAssumption DEF SweepStep, Tasks, Labels
  <2> QED BY <1>4, <2>1, <2>2
    DEF SweepStep, BuildTypeOK, BufferTypeOK, StoreTypeOK, RadioTypeOK,
        bufferVars, storeVars, radioVars
<1>5. CASE SweepEnd
  <2>1. packetBuffer' \in Packets /\ BufferTypeOK' /\ SchedTypeOK'
    BY <1>5, FinishType DEF SweepEnd, BuildTypeOK
  <2>2. BuildTypeOK'
    BY <1>5, <2>1 DEF SweepEnd, FinishPacket, BuildTypeOK
  <2> QED BY <1>5, <2>1, <2>2
    DEF SweepEnd, StoreTypeOK, RadioTypeOK, storeVars, radioVars
<1> QED BY <1>1, <1>2, <1>3, <1>4, <1>5 DEF Loop

\* Every slice of writeFlash() keeps the types.
LEMMA TypeFlash == TypeOK /\ Flash => TypeOK'
<1> SUFFICES ASSUME TypeOK, Flash PROVE TypeOK'
  OBVIOUS
<1> USE DEF TypeOK
<1>1. CASE Resume("flash") \/ FlashEntry \/ FlashIdle \/ OpenFailed
  <2>1. SchedTypeOK'
    BY <1>1, YieldType, DelayAssumption
       DEF Resume, FlashEntry, FlashIdle, OpenFailed, Tasks, Labels
  <2> QED BY <1>1, <2>1
    DEF Resume, FlashEntry, FlashIdle, OpenFailed,
        BuildTypeOK, BufferTypeOK, StoreTypeOK, RadioTypeOK,
        buildVars, bufferVars, storeVars, radioVars
<1>2. CASE SnapshotYield \/ SnapshotBlock
  <2>1. TakeOver
    BY <1>2 DEF SnapshotYield, SnapshotBlock
  <2>2. BufferTypeOK'
    BY <2>1 DEF TakeOver, BufferTypeOK
  <2>3. StoreTypeOK'
    BY <2>1 DEF TakeOver, StoreTypeOK, BufferTypeOK
  <2>4. SchedTypeOK'
    <3>1. CASE SnapshotYield
      BY <3>1, YieldType, DelayAssumption DEF SnapshotYield, Tasks, Labels
    <3>2. CASE SnapshotBlock
      <4>1. pc' \in [Tasks -> UNION {Labels(t) : t \in Tasks}]
            /\ \A t \in Tasks : pc'[t] \in Labels(t)
        BY <3>2 DEF SnapshotBlock, SchedTypeOK, Labels, Tasks
      <4>2. \A ms \in 0 .. WriteMs : \A t \in Tasks : After(wait[t], ms) \in Nat
        BY AfterType, DelayAssumption DEF SchedTypeOK
      <4>3. wait' \in [Tasks -> Nat]
        BY <3>2, <4>2 DEF SnapshotBlock
      <4>4. turn' \in Tasks
        BY <3>2 DEF SnapshotBlock, SchedTypeOK
      <4> QED BY <4>1, <4>3, <4>4 DEF SchedTypeOK
    <3> QED BY <1>2, <3>1, <3>2
  <2> QED BY <2>1, <2>2, <2>3, <2>4
    DEF TakeOver, BuildTypeOK, RadioTypeOK, buildVars, radioVars
<1>3. CASE Stored
  <2>1. SchedTypeOK'
    BY <1>3, YieldType, DelayAssumption DEF Stored, Tasks, Labels
  <2>2. \E n \in 0 .. Slots : file' \in [1 .. n -> Samples]
    <3> DEFINE n == IF cpyLen <= Slots THEN cpyLen ELSE Slots
    <3>1. n \in 0 .. Slots
      BY SlotsAssumption DEF StoreTypeOK
    <3>2. \A k \in 1 .. n : writeBufferCopy[k - 1] \in Samples
      BY <3>1, SlotsAssumption DEF StoreTypeOK, Index
    <3>3. file' = [k \in 1 .. n |-> writeBufferCopy[k - 1]]
      BY <1>3 DEF Stored, Batch
    <3> HIDE DEF n
    <3> QED BY <3>1, <3>2, <3>3
  <2> QED BY <1>3, <2>1, <2>2
    DEF Stored, BuildTypeOK, BufferTypeOK, StoreTypeOK, RadioTypeOK,
        buildVars, bufferVars, radioVars
<1> QED BY <1>1, <1>2, <1>3 DEF Flash

\* Every slice of writeRadio() keeps the types.
LEMMA TypeRadio == TypeOK /\ Radio => TypeOK'
<1> SUFFICES ASSUME TypeOK, Radio PROVE TypeOK'
  OBVIOUS
<1> USE DEF TypeOK
<1>1. CASE Resume("radio") \/ RadioLock \/ RadioWait
  <2>1. SchedTypeOK'
    BY <1>1, YieldType DEF Resume, RadioLock, RadioWait, Tasks, Labels
  <2> QED BY <1>1, <2>1
    DEF Resume, RadioLock, RadioWait,
        BuildTypeOK, BufferTypeOK, StoreTypeOK, RadioTypeOK,
        buildVars, bufferVars, storeVars, radioVars
<1>2. ASSUME NEW p \in Packets, Transmit(p),
             localBuffer' \in Packets, UNCHANGED <<buildVars, bufferVars, storeVars>>
      PROVE  TypeOK'
  <2>1. SchedTypeOK'
    BY <1>2, YieldType, DelayAssumption DEF Transmit, Tasks, Labels
  <2> QED BY <1>2, <2>1
    DEF Transmit, BuildTypeOK, BufferTypeOK, StoreTypeOK, RadioTypeOK,
        buildVars, bufferVars, storeVars
<1>3. CASE RadioSendNow
  BY <1>3, <1>2 DEF RadioSendNow, BuildTypeOK
<1>4. CASE RadioSend
  BY <1>4, <1>2 DEF RadioSend, RadioTypeOK
<1> QED BY <1>1, <1>3, <1>4 DEF Radio

\* Neither a yield inside a delay nor the interrupt changes a type.
LEMMA TypeOther == TypeOK /\ (Pass \/ TxDone \/ UNCHANGED vars) => TypeOK'
<1> SUFFICES ASSUME TypeOK, Pass \/ TxDone \/ UNCHANGED vars PROVE TypeOK'
  OBVIOUS
<1> USE DEF TypeOK
<1>1. CASE Pass
  <2>1. PICK d \in 0 .. SliceMs : wait' = [u \in Tasks |-> After(wait[u], d)]
    BY <1>1 DEF Pass
  <2>2. \A u \in Tasks : After(wait[u], d) \in Nat
    BY AfterType, DelayAssumption DEF SchedTypeOK
  <2>3. SchedTypeOK'
    BY <1>1, <2>1, <2>2, RingType DEF Pass, SchedTypeOK
  <2> QED BY <1>1, <2>3
    DEF Pass, BuildTypeOK, BufferTypeOK, StoreTypeOK, RadioTypeOK,
        buildVars, bufferVars, storeVars, radioVars
<1>2. CASE TxDone \/ UNCHANGED vars
  BY <1>2
    DEF TxDone, vars, BuildTypeOK, BufferTypeOK, StoreTypeOK, RadioTypeOK,
        SchedTypeOK, buildVars, bufferVars, storeVars, radioVars, schedVars
<1> QED BY <1>1, <1>2

\* So no step changes a type.
LEMMA TypeStep == TypeOK /\ [Next]_vars => TypeOK'
  BY TypeLoop, TypeFlash, TypeRadio, TypeOther DEF Next, Cpu

\* The variables keep to their types in every behaviour.
THEOREM TypeCorrect == Spec => []TypeOK
  BY TypeInit, TypeStep, PTL DEF Spec
-----------------------------------------------------------------------------
(* Radio lock and deployment                                               *)

\* A slice of a task other than loop() leaves loop() where it is, and so on.
LEMMA YieldPc ==
  ASSUME SchedTypeOK, NEW t \in Tasks, NEW label, NEW ms, YieldAt(t, label, ms)
  PROVE  /\ pc'[t] = label
         /\ \A u \in Tasks \ {t} : pc'[u] = pc[u]
  BY DEF SchedTypeOK, YieldAt

\* No step takes the lock without copying the newest packet, builds a packet body
\* under it, or lets the sweep lose the sample its packet began with.
THEOREM LockStep == TypeOK /\ LockInv /\ [Next]_vars => LockInv'
<1> SUFFICES ASSUME TypeOK, LockInv, [Next]_vars PROVE LockInv'
  OBVIOUS
<1> USE DEF LockInv, LockMeansSending, LockedCopyIsNewest, SweepHoldsSample, Sweeping
<1>0. SchedTypeOK
  BY DEF TypeOK
<1>1. CASE Loop
  <2>1. CASE Resume("loop") \/ LoopLocked
    BY <1>0, <2>1, YieldPc
       DEF Resume, LoopLocked, Tasks, buildVars, radioVars
  <2>2. ASSUME NEW r, BuildQuiet(r) \/ BuildOnA(r) PROVE LockInv'
    BY <1>0, <2>2, YieldPc
       DEF BuildQuiet, BuildOnA, Sample, FinishPacket, Tasks, radioVars
  <2>3. ASSUME NEW r, SweepStart(r) PROVE LockInv'
    <3>1. packetBuffer'.body = stamp'
      BY <2>3 DEF SweepStart, Sample, TypeOK, BuildTypeOK, Packets
    <3> QED BY <1>0, <2>3, <3>1, YieldPc
      DEF SweepStart, Sample, Tasks, radioVars
  <2>4. CASE SweepStep
    BY <1>0, <2>4, YieldPc DEF SweepStep, At, Tasks, radioVars
  <2>5. CASE SweepEnd
    BY <1>0, <2>5, YieldPc DEF SweepEnd, At, FinishPacket, Tasks, radioVars
  <2> QED BY <1>1, <2>1, <2>2, <2>3, <2>4, <2>5 DEF Loop
<1>2. CASE Flash
  <2>1. pc'["loop"] = pc["loop"] /\ pc'["radio"] = pc["radio"]
    BY <1>0, <1>2, YieldPc
       DEF Flash, Resume, FlashEntry, FlashIdle, SnapshotYield, SnapshotBlock,
           Stored, OpenFailed, Tasks, SchedTypeOK
  <2>2. UNCHANGED <<buildVars, radioVars>>
    BY <1>2 DEF Flash, Resume, FlashEntry, FlashIdle, SnapshotYield,
                SnapshotBlock, TakeOver, Stored, OpenFailed
  <2> QED BY <2>1, <2>2 DEF buildVars, radioVars
<1>3. CASE Radio
  <2>1. UNCHANGED buildVars /\ pc'["loop"] = pc["loop"]
    BY <1>0, <1>3, YieldPc
       DEF Radio, Resume, RadioSendNow, RadioLock, RadioWait, RadioSend, Transmit, Tasks
  <2>2. LockMeansSending'
    BY <1>0, <1>3, YieldPc
       DEF Radio, Resume, RadioSendNow, RadioLock, RadioWait, RadioSend, Transmit,
           At, Tasks, radioVars
  <2>3. LockedCopyIsNewest'
    BY <1>3, <2>1
       DEF Radio, Resume, RadioSendNow, RadioLock, RadioWait, RadioSend, Transmit,
           buildVars, radioVars
  <2> QED BY <2>1, <2>2, <2>3 DEF buildVars
<1>4. CASE Pass \/ TxDone \/ UNCHANGED vars
  BY <1>4 DEF Pass, TxDone, vars, buildVars, radioVars, schedVars
<1> QED BY <1>1, <1>2, <1>3, <1>4 DEF Next, Cpu

\* No step tears a packet outside the sweep, passes over an active pin, or stops
\* the servo half way.
THEOREM DeployStep == TypeOK /\ LockInv /\ DeployInv /\ [Next]_vars => DeployInv'
<1> SUFFICES ASSUME TypeOK, LockInv, DeployInv, [Next]_vars PROVE DeployInv'
  OBVIOUS
<1> USE DEF DeployInv, TornOnlyInSweep, NoMissedSignal, ServoFollowsDeployment,
            Sweeping, Whole
<1>0. SchedTypeOK
  BY DEF TypeOK
<1>1. CASE Resume("loop") \/ LoopLocked
  BY <1>0, <1>1, YieldPc DEF Resume, LoopLocked, At, Tasks, buildVars
<1>2. ASSUME NEW r \in SUBSET (RavenA \union RavenB), BuildQuiet(r)
      PROVE  DeployInv'
  <2>1. pc["loop"] = "top" /\ pc'["loop"] = "paused"
    BY <1>0, <1>2, YieldPc DEF BuildQuiet, Sample, At, FinishPacket, Tasks
  <2>2. /\ packetBuffer'.body = packetBuffer'.tail
        /\ lastRaven' = r /\ raven' = r /\ servo' = servo /\ deployed' = deployed
    BY <1>2 DEF BuildQuiet, Sample, FinishPacket
  <2>3. ~deployed => r = {}
    BY <1>2, <2>1 DEF BuildQuiet, Fires
  <2> QED BY <2>1, <2>2, <2>3
<1>3. ASSUME NEW r \in SUBSET (RavenA \union RavenB), BuildOnA(r)
      PROVE  DeployInv'
  <2>1. pc["loop"] = "top" /\ pc'["loop"] = "paused"
    BY <1>0, <1>3, YieldPc DEF BuildOnA, Sample, At, FinishPacket, Tasks
  <2> QED BY <1>3, <2>1 DEF BuildOnA, Sample, Fires, FinishPacket
<1>4. ASSUME NEW r \in SUBSET (RavenA \union RavenB), SweepStart(r)
      PROVE  DeployInv'
  <2>1. pc["loop"] = "top" /\ pc'["loop"] = "sweep"
    BY <1>0, <1>4, YieldPc DEF SweepStart, Sample, At, Tasks
  <2> QED BY <1>4, <2>1 DEF SweepStart, Sample, Fires
<1>5. CASE SweepStep
  <2>1. pc["loop"] = "sweep" /\ pc'["loop"] = "sweep"
    BY <1>0, <1>5, YieldPc DEF SweepStep, At, Tasks
  <2> QED BY <1>5, <2>1 DEF SweepStep
<1>6. CASE SweepEnd
  <2>1. pc'["loop"] = "paused"
    BY <1>0, <1>6, YieldPc DEF SweepEnd, FinishPacket, Tasks
  <2>2. servo' = SweepTo - 1
    BY <1>6, SweepAssumption DEF SweepEnd, TypeOK, BuildTypeOK
  <2> QED BY <1>6, <2>1, <2>2 DEF SweepEnd, FinishPacket
<1>7. CASE Flash \/ Radio
  <2>1. pc'["loop"] = pc["loop"]
    BY <1>0, <1>7, YieldPc
       DEF Flash, Resume, FlashEntry, FlashIdle, SnapshotYield, SnapshotBlock,
           Stored, OpenFailed, Radio, RadioSendNow, RadioLock, RadioWait, RadioSend,
           Transmit, Tasks, SchedTypeOK
  <2>2. UNCHANGED buildVars
    BY <1>7
       DEF Flash, Resume, FlashEntry, FlashIdle, SnapshotYield, SnapshotBlock,
           TakeOver, Stored, OpenFailed, Radio, RadioSendNow, RadioLock, RadioWait,
           RadioSend
  <2> QED BY <2>1, <2>2 DEF buildVars
<1>8. CASE Pass \/ TxDone \/ UNCHANGED vars
  BY <1>8 DEF Pass, TxDone, vars, buildVars, schedVars
<1> QED BY <1>1, <1>2, <1>3, <1>4, <1>5, <1>6, <1>7, <1>8 DEF Next, Cpu, Loop

\* The lock and the deployment are in order when setup() ends.
LEMMA LockDeployInit == Init => LockInv /\ DeployInv
  BY DEF Init, LockInv, LockMeansSending, LockedCopyIsNewest, SweepHoldsSample,
         Sweeping, DeployInv, TornOnlyInSweep, NoMissedSignal,
         ServoFollowsDeployment, Whole, Tasks

-----------------------------------------------------------------------------
(* Recording                                                               *)

\* The batch being written is full and consecutive.
CopyConsecutive ==
  pc["flash"] = "writing" =>
    cpyLen >= BatchSize /\ Consecutive(writeBufferCopy, BatchSize)

StoreInv == CopyConsecutive /\ StoredConsecutive

\* Finishing a packet with the stamp that follows the last one.
LEMMA FinishStep ==
  ASSUME TypeOK, BufferInv, NEW r, FinishPacket(NextStamp[Newest], r)
  PROVE  /\ SignalMeansFull'
         /\ Consecutive(writeBuffer, Taken)'
         /\ packetBuffer'.tail = NextStamp[Newest]
         /\ packetBuffer'.tail # Blank
         /\ ~writeSignal' => writeBuffer'[wbPos' - 1] = packetBuffer'.tail
         /\ Newest' = NextStamp[Newest]
<1> DEFINE s == NextStamp[Newest]
<1>1. Newest \in Stamps
  BY StampAssumption DEF Newest, TypeOK, BuildTypeOK, Packets, Samples
<1>2. s \in Stamps /\ s # Blank
  BY <1>1, StampAssumption
<1>3. packetBuffer'.tail = s /\ Newest' = s
  BY <1>2 DEF FinishPacket, Newest
<1>4. wbPos \in Nat /\ wbPos' = wbPos + 1 /\ Slots \in Nat /\ Slots >= 2
  BY SlotsAssumption DEF FinishPacket, TypeOK, BufferTypeOK
<1>5. SignalMeansFull'
  <2>1. writeSignal' <=> writeSignal \/ Full(wbPos + 1)
    BY Zenon DEF FinishPacket
  <2>2. Full(wbPos + 1) <=> wbPos' >= BatchSize
    BY <1>4 DEF Full, BatchSize
  <2>3. wbPos >= BatchSize => wbPos' >= BatchSize
    BY <1>4 DEF BatchSize
  <2> QED BY <2>1, <2>2, <2>3 DEF BufferInv, SignalMeansFull, BatchSize
<1>6. CASE writeSignal
  <2>1. writeBuffer' = writeBuffer /\ writeSignal'
    BY <1>6 DEF FinishPacket, Store
  <2>2. Taken' = Taken
    BY <1>4, <1>6 DEF Taken, BufferInv, SignalMeansFull, BatchSize
  <2>3. Consecutive(writeBuffer, Taken)'
    BY <2>1, <2>2 DEF Consecutive, BufferInv, NoGapInBuffer
  <2> QED BY <1>2, <1>3, <1>5, <2>1, <2>3
<1>7. CASE ~writeSignal
  <2>1. wbPos < BatchSize /\ Taken = wbPos /\ Taken' = wbPos + 1
    BY <1>4, <1>7 DEF Taken, BufferInv, SignalMeansFull, BatchSize
  <2>2. wbPos \in Index
    BY <1>4, <2>1 DEF Index, BatchSize
  <2>3. writeBuffer' = [writeBuffer EXCEPT ![wbPos] = s]
    BY <1>7 DEF FinishPacket, Store
  <2>4. /\ writeBuffer'[wbPos] = s
        /\ \A k \in 0 .. wbPos - 1 : writeBuffer'[k] = writeBuffer[k]
    BY <1>4, <2>2, <2>3 DEF TypeOK, BufferTypeOK, Index
  <2>5. ASSUME NEW k \in 1 .. wbPos PROVE writeBuffer'[k] = NextStamp[writeBuffer'[k - 1]]
    <3>1. CASE k < wbPos
      BY <1>4, <2>1, <2>4, <2>5, <3>1 DEF BufferInv, NoGapInBuffer, Consecutive
    <3>2. CASE k = wbPos
      <4>1. writeBuffer[wbPos - 1] = Newest
        BY <1>4, <1>7, <2>5, <3>2 DEF BufferInv, NoGapInBuffer, Newest
      <4> QED BY <1>4, <2>4, <2>5, <3>2, <4>1
    <3> QED BY <1>4, <2>5, <3>1, <3>2
  <2>6. Consecutive(writeBuffer, Taken)'
    <3>1. \A k \in 1 .. Taken' - 1 : writeBuffer'[k] = NextStamp[writeBuffer'[k - 1]]
      BY <1>4, <2>1, <2>5
    <3> QED BY <3>1 DEF Consecutive
  <2>7. writeBuffer'[wbPos' - 1] = s
    BY <1>4, <2>4
  <2> QED BY <1>2, <1>3, <1>5, <2>6, <2>7
<1> QED BY <1>6, <1>7

\* No step of loop() or writeFlash() leaves a gap in writeBuffer, stores outside
\* it, or puts writeSignal up or down at any other time than a full batch.
THEOREM BufferStep == TypeOK /\ LockInv /\ BufferInv /\ [Next]_vars => BufferInv'
<1> SUFFICES ASSUME TypeOK, LockInv, BufferInv, [Next]_vars PROVE BufferInv'
  OBVIOUS
<1>0. SchedTypeOK
  BY DEF TypeOK
<1>1. ASSUME NEW r, BuildQuiet(r) \/ BuildOnA(r) PROVE BufferInv'
  <2>1. pc["loop"] = "top" /\ pc'["loop"] = "paused"
    BY <1>0, <1>1, YieldPc DEF BuildQuiet, BuildOnA, Sample, At, FinishPacket, Tasks
  <2>2. stamp = Newest
    BY <2>1 DEF BufferInv, NoGapInBuffer, Sweeping
  <2>3. FinishPacket(NextStamp[Newest], r) /\ stamp' = NextStamp[Newest]
    BY <1>1, <2>2 DEF BuildQuiet, BuildOnA, Sample
  <2> QED BY <2>1, <2>3, FinishStep DEF BufferInv, NoGapInBuffer, Sweeping
<1>2. CASE SweepEnd
  <2>1. pc["loop"] = "sweep" /\ pc'["loop"] = "paused"
    BY <1>0, <1>2, YieldPc DEF SweepEnd, At, FinishPacket, Tasks
  <2>2. stamp = NextStamp[Newest]
    BY <2>1 DEF BufferInv, NoGapInBuffer, Sweeping
  <2>3. FinishPacket(NextStamp[Newest], raven) /\ stamp' = NextStamp[Newest]
    BY <1>2, <2>2 DEF SweepEnd
  <2> QED BY <2>1, <2>3, FinishStep DEF BufferInv, NoGapInBuffer, Sweeping
<1>3. ASSUME NEW r, SweepStart(r) PROVE BufferInv'
  <2>1. pc["loop"] = "top" /\ pc'["loop"] = "sweep"
    BY <1>0, <1>3, YieldPc DEF SweepStart, Sample, At, Tasks
  <2>2. packetBuffer'.tail = packetBuffer.tail
    BY <1>3 DEF SweepStart, TypeOK, BuildTypeOK, Packets
  <2>3. stamp' = NextStamp[stamp] /\ UNCHANGED bufferVars
    BY <1>3 DEF SweepStart, Sample
  <2> QED BY <2>1, <2>2, <2>3
    DEF BufferInv, SignalMeansFull, NoGapInBuffer, Newest, Sweeping, Taken,
        Consecutive, bufferVars
<1>4. CASE TakeOver /\ pc'["loop"] = pc["loop"]
  BY <1>4, SlotsAssumption
     DEF TakeOver, BufferInv, SignalMeansFull, NoGapInBuffer, Newest, Sweeping,
         Taken, Consecutive, BatchSize, buildVars
<1>5. CASE /\ UNCHANGED <<bufferVars, packetBuffer, stamp>>
           /\ Sweeping' = Sweeping
  BY <1>5 DEF BufferInv, SignalMeansFull, NoGapInBuffer, Newest, Taken,
              Consecutive, bufferVars
<1>6. CASE Resume("loop") \/ LoopLocked \/ SweepStep
  BY <1>0, <1>5, <1>6, YieldPc
     DEF Resume, LoopLocked, SweepStep, At, Tasks, Sweeping, buildVars
<1>7. CASE Flash \/ Radio
  <2>1. pc'["loop"] = pc["loop"]
    BY <1>0, <1>7, YieldPc
       DEF Flash, Resume, FlashEntry, FlashIdle, SnapshotYield, SnapshotBlock,
           Stored, OpenFailed, Radio, RadioSendNow, RadioLock, RadioWait, RadioSend,
           Transmit, Tasks, SchedTypeOK
  <2>2. TakeOver \/ UNCHANGED <<bufferVars, buildVars>>
    BY <1>7
       DEF Flash, Resume, FlashEntry, FlashIdle, SnapshotYield, SnapshotBlock,
           Stored, OpenFailed, Radio, RadioSendNow, RadioLock, RadioWait, RadioSend
  <2> QED BY <1>4, <1>5, <2>1, <2>2 DEF buildVars, Sweeping
<1>8. CASE Pass \/ TxDone \/ UNCHANGED vars
  BY <1>5, <1>8 DEF Pass, TxDone, vars, buildVars, schedVars, Sweeping
<1> QED BY <1>1, <1>2, <1>3, <1>6, <1>7, <1>8 DEF Next, Cpu, Loop

\* No step changes the batch writeFlash() has taken over before it is written.
THEOREM StoreStep ==
  TypeOK /\ BufferInv /\ StoreInv /\ [Next]_vars => StoreInv'
<1> SUFFICES ASSUME TypeOK, BufferInv, StoreInv, [Next]_vars PROVE StoreInv'
  OBVIOUS
<1>0. SchedTypeOK
  BY DEF TypeOK
<1>1. CASE TakeOver
  <2>1. cpyLen' >= BatchSize /\ Taken = BatchSize
    BY <1>1, SlotsAssumption
       DEF TakeOver, BufferInv, SignalMeansFull, Taken, BatchSize, TypeOK, BufferTypeOK
  <2>2. \A k \in 0 .. BatchSize - 1 : writeBufferCopy'[k] = writeBuffer[k]
    BY <1>1, <2>1, SlotsAssumption
       DEF TakeOver, Index, BatchSize, TypeOK, BufferTypeOK
  <2>3. Consecutive(writeBufferCopy', BatchSize)
    <3> SUFFICES ASSUME NEW k \in 1 .. BatchSize - 1
                 PROVE  writeBufferCopy'[k] = NextStamp[writeBufferCopy'[k - 1]]
      BY DEF Consecutive
    <3>1. k \in 0 .. BatchSize - 1 /\ k - 1 \in 0 .. BatchSize - 1
      BY SlotsAssumption DEF BatchSize
    <3>2. writeBuffer[k] = NextStamp[writeBuffer[k - 1]]
      BY <2>1 DEF BufferInv, NoGapInBuffer, Consecutive
    <3> QED BY <2>2, <3>1, <3>2
  <2>4. file' = file
    BY <1>1 DEF TakeOver
  <2> QED BY <2>1, <2>3, <2>4
    DEF StoreInv, CopyConsecutive, StoredConsecutive, Consecutive, BatchSize
<1>2. CASE Stored
  <2>1. pc["flash"] = "writing" /\ pc'["flash"] = "paused"
    BY <1>0, <1>2, YieldPc DEF Stored, At, Tasks
  <2>2. CopyConsecutive'
    BY <2>1 DEF CopyConsecutive
  <2> DEFINE n == IF cpyLen <= Slots THEN cpyLen ELSE Slots
  <2>3. file' = [k \in 1 .. n |-> writeBufferCopy[k - 1]]
    BY <1>2 DEF Stored, Batch
  <2>4. n \in Nat /\ n >= BatchSize /\ BatchSize \in Nat /\ BatchSize >= 1
    BY <2>1, SlotsAssumption
       DEF StoreInv, CopyConsecutive, BatchSize, TypeOK, StoreTypeOK
  <2> HIDE DEF n
  <2>5. BatchSize \in DOMAIN file'
    BY <2>3, <2>4
  <2>6. ASSUME NEW k \in 2 .. BatchSize PROVE file'[k] = NextStamp[file'[k - 1]]
    <3>1. file'[k] = writeBufferCopy[k - 1] /\ file'[k - 1] = writeBufferCopy[(k - 1) - 1]
      BY <2>3, <2>4
    <3>2. k - 1 \in 1 .. BatchSize - 1
      BY <2>4
    <3> QED BY <2>1, <3>1, <3>2 DEF StoreInv, CopyConsecutive, Consecutive
  <2>7. StoredConsecutive'
    BY <2>5, <2>6 DEF StoredConsecutive, BatchSize
  <2> QED BY <2>2, <2>7 DEF StoreInv
<1>3. CASE UNCHANGED storeVars /\ (pc'["flash"] = "writing" => pc["flash"] = "writing")
  BY <1>3 DEF StoreInv, CopyConsecutive, StoredConsecutive, Consecutive, storeVars, BatchSize
<1>4. CASE Loop \/ Radio
  <2>1. pc'["flash"] = pc["flash"]
    BY <1>0, <1>4, YieldPc
       DEF Loop, Resume, LoopLocked, BuildQuiet, BuildOnA, SweepStart, SweepStep,
           SweepEnd, FinishPacket, Radio, RadioSendNow, RadioLock, RadioWait,
           RadioSend, Transmit, Tasks
  <2>2. UNCHANGED storeVars
    BY <1>4
       DEF Loop, Resume, LoopLocked, BuildQuiet, BuildOnA, SweepStart, SweepStep,
           SweepEnd, Sample, Radio, RadioSendNow, RadioLock, RadioWait, RadioSend
  <2> QED BY <1>3, <2>1, <2>2
<1>5. CASE Resume("flash") \/ FlashEntry \/ FlashIdle \/ OpenFailed
  BY <1>0, <1>3, <1>5, YieldPc DEF Resume, FlashEntry, FlashIdle, OpenFailed, Tasks
<1>6. CASE Pass \/ TxDone \/ UNCHANGED vars
  BY <1>3, <1>6 DEF Pass, TxDone, vars, schedVars
<1> QED BY <1>1, <1>2, <1>4, <1>5, <1>6
  DEF Next, Cpu, Flash, SnapshotYield, SnapshotBlock

\* The recording invariants hold at the start.
LEMMA RecordingInit == Init => BufferInv /\ StoreInv
  BY SlotsAssumption
     DEF Init, BufferInv, SignalMeansFull, NoGapInBuffer, Newest, Sweeping, Taken,
         Consecutive, BatchSize, StoreInv, CopyConsecutive, StoredConsecutive, Tasks

AvionicsInv == TypeOK /\ LockInv /\ DeployInv /\ BufferInv /\ StoreInv

\* The inductive invariant of the flight computer.
THEOREM Invariant == Spec => []AvionicsInv
<1>1. Init => AvionicsInv
  BY TypeInit, LockDeployInit, RecordingInit DEF AvionicsInv
<1>2. AvionicsInv /\ [Next]_vars => AvionicsInv'
  BY TypeStep, LockStep, DeployStep, BufferStep, StoreStep DEF AvionicsInv
<1> QED BY <1>1, <1>2, PTL DEF Spec

\* writeBuffer and its signal: stores stay inside it, the signal is up exactly when
\* it is full, and what waits in it are consecutive samples up to the newest.
THEOREM BufferInvHolds == Spec => []BufferInv
  BY Invariant, PTL DEF AvionicsInv

\* The batch last written is full and consecutive.
THEOREM StoredConsecutiveHolds == Spec => []StoredConsecutive
  BY Invariant, PTL DEF AvionicsInv, StoreInv

\* The lock is held exactly while writeRadio waits in send(), and the copy made
\* under it is the newest packet.
THEOREM LockInvHolds == Spec => []LockInv
  BY Invariant, PTL DEF AvionicsInv

\* Packets are torn during the sweep only, no altimeter signal goes unanswered, and
\* the servo is never left half way.
THEOREM DeployInvHolds == Spec => []DeployInv
  BY Invariant, PTL DEF AvionicsInv

-----------------------------------------------------------------------------
(* What a step may never do                                                *)

\* A step that sends sends the newest packet.
LEMMA SendStep ==
  ASSUME TypeOK, LockInv, [Next]_vars, fifo' # fifo
  PROVE  fifo'.body = packetBuffer.body
<1>1. RadioSendNow \/ RadioSend
  BY DEF Next, Cpu, Pass, Loop, Resume, LoopLocked, BuildQuiet, BuildOnA, Sample,
         SweepStart, SweepStep, SweepEnd, Flash, FlashEntry, FlashIdle,
         SnapshotYield, SnapshotBlock, TakeOver, Stored, OpenFailed, Radio,
         RadioLock, RadioWait, TxDone, vars, radioVars
<1>2. CASE RadioSendNow
  BY <1>2 DEF RadioSendNow, Transmit
<1>3. CASE RadioSend
  BY <1>3 DEF RadioSend, Transmit, At, LockInv, LockMeansSending, LockedCopyIsNewest
<1> QED BY <1>1, <1>2, <1>3

\* What goes on the air is the newest packet.
THEOREM SendsNewestHolds == Spec => SendsNewest
<1>1. AvionicsInv /\ [Next]_vars => [fifo' # fifo => fifo'.body = packetBuffer.body]_vars
  BY SendStep DEF AvionicsInv
<1> QED BY <1>1, Invariant, PTL DEF Spec, SendsNewest

\* Deployment happens once.
THEOREM DeployOnceHolds == Spec => DeployOnce
<1>1. AvionicsInv /\ [Next]_vars => [deployed => deployed' /\ servo' = servo]_vars
  <2> SUFFICES ASSUME AvionicsInv, Next, deployed PROVE deployed' /\ servo' = servo
    OBVIOUS
  <2>1. ~At("loop", "sweep")
    BY DEF AvionicsInv, DeployInv, ServoFollowsDeployment, Sweeping, At
  <2> QED BY <2>1
    DEF Next, Cpu, Pass, Loop, Resume, LoopLocked, BuildQuiet, BuildOnA, Fires,
        SweepStart, SweepStep, SweepEnd, Flash, FlashEntry, FlashIdle,
        SnapshotYield, SnapshotBlock, TakeOver, Stored, OpenFailed, Radio,
        RadioSendNow, RadioSend, RadioLock, RadioWait, TxDone, buildVars
<1> QED BY <1>1, Invariant, PTL DEF Spec, DeployOnce

-----------------------------------------------------------------------------
(* The backlog                                                             *)

\* The shortest time in which n packets are built.
Ms(n) == n * LoopDelay

LEMMA MsFacts ==
  /\ Ms(0) = 0
  /\ \A n \in Nat : Ms(n) \in Nat /\ Ms(n + 1) = Ms(n) + LoopDelay
  /\ \A m, n \in Nat : Ms(m) < Ms(n) => m < n
<1>1. LoopDelay \in Nat /\ LoopDelay > 0
  BY DelayAssumption
<1>2. \A n \in Nat : n * LoopDelay \in Nat /\ (n + 1) * LoopDelay = n * LoopDelay + LoopDelay
  BY <1>1
<1>3. ASSUME NEW m \in Nat, NEW n \in Nat, m >= n PROVE m * LoopDelay >= n * LoopDelay
  <2>1. PICK k \in Nat : m = n + k
    <3>1. m - n \in Nat /\ m = n + (m - n)
      BY <1>3
    <3> QED BY <3>1
  <2>2. m * LoopDelay = n * LoopDelay + k * LoopDelay /\ k * LoopDelay \in Nat
    BY <1>1, <2>1
  <2>3. n * LoopDelay \in Nat
    BY <1>1
  <2> QED BY <2>2, <2>3
<1>4. ASSUME NEW m \in Nat, NEW n \in Nat, Ms(m) < Ms(n) PROVE m < n
  <2>1. m * LoopDelay \in Nat /\ n * LoopDelay \in Nat
    BY <1>1
  <2>2. ~(m >= n)
    BY <1>3, <1>4, <2>1 DEF Ms
  <2> QED BY <2>2
<1>5. 0 * LoopDelay = 0
  BY <1>1
<1> QED BY <1>2, <1>4, <1>5 DEF Ms

\* What the two conditions on the delays say of a full batch.
LEMMA FitFacts ==
  ASSUME DelaysFit
  PROVE  /\ Slots - 2 \in Nat /\ Ms(Slots) = Ms(Slots - 2) + LoopDelay + LoopDelay
         /\ \A n \in Nat : n <= Slots - 2 => Ms(n) + PollDelay <= Ms(Slots)
         /\ Ms(Slots + 1) = Ms(Slots) + LoopDelay
         /\ WriteMs + PollDelay + LoopDelay <= Ms(Slots) + 1
<1>1. Slots \in Nat /\ Slots - 2 \in Nat /\ Slots - 1 \in Nat
  BY SlotsAssumption
<1>2. /\ (Slots - 2) + 1 = Slots - 1 /\ (Slots - 1) + 1 = Slots
  BY <1>1
<1>3. /\ Ms(Slots - 1) = Ms(Slots - 2) + LoopDelay /\ Ms(Slots) = Ms(Slots - 1) + LoopDelay
      /\ Ms(Slots - 2) \in Nat
      /\ Ms(Slots + 1) = Ms(Slots) + LoopDelay
  BY <1>1, <1>2, MsFacts
<1>4. WriteMs + PollDelay <= Ms(Slots - 1) + 1 /\ PollDelay <= 2 * LoopDelay
  BY DEF DelaysFit, Ms, BatchSize
<1>5. LoopDelay \in Nat /\ PollDelay \in Nat /\ WriteMs \in Nat
  BY DelayAssumption
<1>6. ASSUME NEW n \in Nat, n <= Slots - 2 PROVE Ms(n) <= Ms(Slots - 2) /\ Ms(n) \in Nat
  BY <1>1, <1>6, MsFacts
<1>7. ASSUME NEW n \in Nat, n <= Slots - 2 PROVE Ms(n) + PollDelay <= Ms(Slots)
  BY <1>3, <1>4, <1>5, <1>6, <1>7
<1> QED BY <1>1, <1>3, <1>4, <1>5, <1>7

\* The next turn of loop() comes before the next of writeFlash.
LoopFirst == turn = "loop" \/ (turn = "radio" /\ Ring["radio"] = "loop")

\* The delay loop() is in after a packet.
Rest == IF pc["loop"] = "paused" THEN wait["loop"] ELSE 0

\* A task with something to do is not in a delay.
DelayInv ==
  /\ pc["loop"] = "top" => wait["loop"] = 0
  /\ pc["loop"] = "paused" => wait["loop"] <= LoopDelay
  /\ pc["flash"] \in {"top", "check"} => wait["flash"] = 0

\* While writeFlash is in its delay(10): the packets so far and the delay together
\* take no longer than the buffer does to fill.
PollInv ==
  pc["flash"] = "paused" /\ wait["flash"] > 0 => Ms(wbPos) + wait["flash"] <= Ms(Slots) + Rest

\* While it writes: no more packets than the write has time for, and one.
WriteInv ==
  pc["flash"] = "writing" =>
    IF wait["flash"] > 0 THEN Ms(wbPos) + wait["flash"] <= WriteMs + Rest
    ELSE Ms(wbPos + IF LoopFirst /\ pc["loop"] # "paused" THEN 1 ELSE 0) < WriteMs + LoopDelay

\* The packets that can be built in the turns before writeFlash looks at the signal.
ToCome ==
  CASE pc["flash"] = "paused" -> IF LoopFirst /\ pc["loop"] # "paused" THEN 2 ELSE 1
    [] pc["flash"] = "top" -> IF LoopFirst \/ pc["loop"] # "paused" THEN 1 ELSE 0
    [] pc["flash"] = "check" -> IF LoopFirst /\ pc["loop"] # "paused" THEN 1 ELSE 0

\* With its delay over, writeFlash is a few turns away, and there is room for them.
TurnInv ==
  pc["flash"] # "writing" /\ wait["flash"] = 0 => wbPos + ToCome <= Slots + 1

BacklogInv == DelayInv /\ PollInv /\ WriteInv /\ TurnInv

\* Every task has one turn in a round.
LEMMA RoundTurns ==
  ASSUME TypeOK, turn' = Ring[turn]
  PROVE  /\ turn = "loop" => LoopFirst /\ ~LoopFirst'
         /\ turn = "flash" => ~LoopFirst
         /\ turn = "radio" => LoopFirst' = LoopFirst
<1>1. turn \in Tasks
  BY DEF TypeOK, SchedTypeOK
<1>2. /\ Ring["loop"] \in Tasks /\ Ring["flash"] \in Tasks /\ Ring["radio"] \in Tasks
      /\ Ring["loop"] # "loop" /\ Ring["radio"] # "radio" /\ Ring["flash"] # "flash"
      /\ Ring["loop"] = "radio" => Ring["radio"] # "loop"
  <2>1. Ring \in [Tasks -> Tasks] /\ \A t \in Tasks : {t, Ring[t], Ring[Ring[t]]} = Tasks
    BY RingAssumption DEF Rings
  <2>2. "loop" \in Tasks /\ "flash" \in Tasks /\ "radio" \in Tasks
    BY DEF Tasks
  <2>3. ASSUME NEW t \in Tasks PROVE Ring[t] # t /\ Ring[Ring[t]] # t
    <3>1. {t, Ring[t], Ring[Ring[t]]} = {"loop", "flash", "radio"}
      BY <2>1 DEF Tasks
    <3> QED BY <3>1
  <2> QED BY <2>1, <2>2, <2>3
<1>3. /\ turn \in {"loop", "flash", "radio"} /\ Ring["loop"] \in {"loop", "flash", "radio"}
      /\ Ring["radio"] \in {"loop", "flash", "radio"}
  BY <1>1, <1>2 DEF Tasks
<1>4. LoopFirst <=> turn = "loop" \/ (turn = "radio" /\ Ring["radio"] = "loop")
  BY DEF LoopFirst
<1>5. LoopFirst' <=> turn' = "loop" \/ (turn' = "radio" /\ Ring["radio"] = "loop")
  BY DEF LoopFirst
<1>6. turn = "loop" => LoopFirst /\ ~LoopFirst'
  BY <1>2, <1>3, <1>4, <1>5
<1>7. turn = "flash" => ~LoopFirst
  BY <1>4
<1>8. turn = "radio" => LoopFirst' = LoopFirst
  BY <1>2, <1>3, <1>4, <1>5 DEF LoopFirst
<1> QED BY <1>6, <1>7, <1>8

LEMMA AfterFacts ==
  ASSUME NEW ms \in Nat, NEW d \in Nat
  PROVE  /\ After(ms, d) \in Nat /\ After(ms, d) <= ms
         /\ After(ms, d) > 0 => After(ms, d) = ms - d
         /\ ms <= After(ms, d) + d
  BY DEF After

\* The numbers the invariant is about.
LEMMA BacklogTypes ==
  ASSUME TypeOK
  PROVE  /\ wait["loop"] \in Nat /\ wait["flash"] \in Nat /\ wbPos \in Nat
         /\ pc["loop"] \in {"top", "paused", "sweep"}
         /\ pc["flash"] \in {"top", "paused", "check", "writing"}
         /\ Ms(wbPos) \in Nat /\ Ms(wbPos + 1) = Ms(wbPos) + LoopDelay
         /\ Ms(Slots) \in Nat /\ Ms(Slots + 1) = Ms(Slots) + LoopDelay
         /\ Ms(wbPos) < Ms(Slots) => wbPos <= Slots - 1
         /\ Ms(wbPos) < Ms(Slots + 1) => wbPos <= Slots
         /\ wbPos + 0 = wbPos
<1>1. wait["loop"] \in Nat /\ wait["flash"] \in Nat /\ wbPos \in Nat
  BY DEF TypeOK, SchedTypeOK, BufferTypeOK, Tasks
<1>2. /\ pc["loop"] \in {"top", "paused", "sweep"}
      /\ pc["flash"] \in {"top", "paused", "check", "writing"}
  BY DEF TypeOK, SchedTypeOK, Tasks, Labels
<1>3. /\ Ms(wbPos) < Ms(Slots) => wbPos < Slots
      /\ Ms(wbPos) < Ms(Slots + 1) => wbPos < Slots + 1
      /\ Slots \in Nat /\ Slots + 1 \in Nat
  BY <1>1, MsFacts, SlotsAssumption
<1>4. /\ Ms(wbPos) < Ms(Slots) => wbPos <= Slots - 1
      /\ Ms(wbPos) < Ms(Slots + 1) => wbPos <= Slots
  BY <1>1, <1>3
<1>5. Ms(Slots) \in Nat /\ Ms(Slots + 1) = Ms(Slots) + LoopDelay
  BY <1>3, MsFacts
<1>6. Ms(wbPos) \in Nat /\ Ms(wbPos + 1) = Ms(wbPos) + LoopDelay /\ wbPos + 0 = wbPos
  BY <1>1, MsFacts
<1> QED BY <1>1, <1>2, <1>4, <1>5, <1>6

\* Time passes and nothing else: a turn of the radio, or of a task in a delay.
LEMMA BacklogWaits ==
  ASSUME TypeOK, BacklogInv, DelaysFit, NEW d \in Nat,
         wait'["loop"] = After(wait["loop"], d), wait'["flash"] = After(wait["flash"], d),
         pc'["loop"] = pc["loop"], pc'["flash"] = pc["flash"], wbPos' = wbPos,
         wait["flash"] > 0 \/ (LoopFirst' => LoopFirst)
  PROVE  BacklogInv'
<1> DEFINE L == wait["loop"]  F == wait["flash"]
<1>1. /\ L \in Nat /\ F \in Nat /\ L' \in Nat /\ F' \in Nat /\ L' <= L /\ F' <= F
      /\ F' > 0 => F' = F - d
      /\ L <= L' + d /\ F <= F' + d
  <2>1. L \in Nat /\ F \in Nat
    BY BacklogTypes
  <2>2. L' = After(L, d) /\ F' = After(F, d)
    OBVIOUS
  <2> HIDE DEF L, F
  <2> QED BY <2>1, <2>2, AfterFacts
<1>2. LoopDelay \in Nat /\ LoopDelay > 0 /\ WriteMs \in Nat
  BY DelayAssumption
<1>3. DelayInv'
  BY <1>1, <1>2, BacklogTypes DEF BacklogInv, DelayInv
<1>4. PollInv'
  BY <1>1, BacklogTypes DEF BacklogInv, PollInv, Rest
<1>5. WriteInv'
  BY <1>1, <1>2, BacklogTypes DEF BacklogInv, WriteInv, DelayInv, Rest
<1>6. TurnInv'
  <2>1. CASE F = 0
    BY <1>1, <2>1, BacklogTypes, SlotsAssumption DEF BacklogInv, TurnInv, ToCome
  <2>2. CASE F > 0 /\ pc["flash"] = "paused"
    <3>1. Ms(wbPos) + F <= Ms(Slots) + Rest
      BY <2>2 DEF BacklogInv, PollInv
    <3>2. pc["loop"] = "paused" => wbPos <= Slots
      BY <1>1, <1>2, <2>2, <3>1, BacklogTypes, SlotsAssumption
      DEF BacklogInv, DelayInv, Rest
    <3>3. pc["loop"] # "paused" => wbPos <= Slots - 1
      BY <1>1, <1>2, <2>2, <3>1, BacklogTypes, SlotsAssumption DEF Rest
    <3> QED BY <1>1, <2>2, <3>2, <3>3, BacklogTypes, SlotsAssumption DEF TurnInv, ToCome
  <2>3. CASE F > 0 /\ pc["flash"] # "paused"
    BY <2>3, BacklogTypes DEF BacklogInv, DelayInv, TurnInv
  <2> QED BY <1>1, <2>1, <2>2, <2>3
<1> QED BY <1>3, <1>4, <1>5, <1>6 DEF BacklogInv

\* A slice of loop() that finishes no packet.
LEMMA BacklogQuiet ==
  ASSUME TypeOK, BacklogInv, DelaysFit, NEW d \in Nat,
         turn = "loop", turn' = Ring[turn], wait["loop"] = 0,
         wait'["flash"] = After(wait["flash"], d), pc'["flash"] = pc["flash"],
         wbPos' = wbPos,
         \/ pc["loop"] = "paused" /\ pc'["loop"] = "top" /\ wait'["loop"] = 0
         \/ pc["loop"] # "paused" /\ pc'["loop"] = "paused" /\ wait'["loop"] = LoopDelay
         \/ pc["loop"] # "paused" /\ pc'["loop"] = "sweep"
  PROVE  BacklogInv'
<1> DEFINE F == wait["flash"]
<1>1. F \in Nat /\ F' \in Nat /\ F' <= F
  <2>1. F \in Nat /\ F' = After(F, d)
    BY BacklogTypes
  <2> HIDE DEF F
  <2> QED BY <2>1, AfterFacts
<1>2. LoopDelay \in Nat /\ LoopDelay > 0 /\ WriteMs \in Nat
  BY DelayAssumption
<1>3. LoopFirst /\ ~LoopFirst'
  BY RoundTurns
<1>4. Rest = 0 /\ Rest' \in Nat
  BY <1>2 DEF Rest
<1>5. DelayInv'
  BY <1>1, <1>2, BacklogTypes DEF BacklogInv, DelayInv
<1>6. PollInv'
  BY <1>1, <1>4, BacklogTypes, SlotsAssumption DEF BacklogInv, PollInv
<1>7. WriteInv'
  BY <1>1, <1>2, <1>3, <1>4, BacklogTypes DEF BacklogInv, WriteInv
<1>8. TurnInv'
  <2>1. CASE F = 0
    BY <1>1, <1>3, <2>1, BacklogTypes, SlotsAssumption DEF BacklogInv, TurnInv, ToCome
  <2>2. CASE F > 0 /\ pc["flash"] = "paused"
    <3>1. wbPos <= Slots - 1
      BY <1>1, <1>4, <2>2, BacklogTypes, SlotsAssumption DEF BacklogInv, PollInv
    <3> QED BY <1>3, <2>2, <3>1, BacklogTypes, SlotsAssumption DEF TurnInv, ToCome
  <2>3. CASE F > 0 /\ pc["flash"] # "paused"
    BY <2>3, BacklogTypes DEF BacklogInv, DelayInv, TurnInv
  <2> QED BY <1>1, <2>1, <2>2, <2>3
<1> QED BY <1>5, <1>6, <1>7, <1>8 DEF BacklogInv

\* A slice of loop() that does.
LEMMA BacklogGrows ==
  ASSUME TypeOK, BacklogInv, DelaysFit, NEW d \in Nat,
         turn = "loop", turn' = Ring[turn], wait["loop"] = 0,
         wait'["flash"] = After(wait["flash"], d), pc'["flash"] = pc["flash"],
         wbPos' = wbPos + 1, pc["loop"] # "paused", pc'["loop"] = "paused",
         wait'["loop"] = LoopDelay
  PROVE  BacklogInv'
<1> DEFINE F == wait["flash"]
<1>1. F \in Nat /\ F' \in Nat /\ F' <= F
  <2>1. F \in Nat /\ F' = After(F, d)
    BY BacklogTypes
  <2> HIDE DEF F
  <2> QED BY <2>1, AfterFacts
<1>2. LoopDelay \in Nat /\ LoopDelay > 0 /\ WriteMs \in Nat
  BY DelayAssumption
<1>3. LoopFirst /\ ~LoopFirst'
  BY RoundTurns
<1>4. Rest = 0 /\ Rest' = LoopDelay /\ Ms(wbPos') = Ms(wbPos) + LoopDelay
  BY <1>2, BacklogTypes DEF Rest
<1>5. DelayInv'
  BY <1>1, <1>2, BacklogTypes DEF BacklogInv, DelayInv
<1>6. PollInv'
  BY <1>1, <1>2, <1>4, BacklogTypes, SlotsAssumption DEF BacklogInv, PollInv
<1>7. WriteInv'
  <2>1. wbPos' + 0 = wbPos'
    BY BacklogTypes
  <2> QED BY <1>1, <1>2, <1>3, <1>4, <2>1, BacklogTypes DEF BacklogInv, WriteInv
<1>8. TurnInv'
  <2>1. CASE F = 0
    BY <1>1, <1>3, <2>1, BacklogTypes, SlotsAssumption DEF BacklogInv, TurnInv, ToCome
  <2>2. CASE F > 0 /\ pc["flash"] = "paused"
    <3>1. wbPos <= Slots - 1
      BY <1>1, <1>4, <2>2, BacklogTypes, SlotsAssumption DEF BacklogInv, PollInv
    <3> QED BY <1>3, <2>2, <3>1, BacklogTypes, SlotsAssumption DEF TurnInv, ToCome
  <2>3. CASE F > 0 /\ pc["flash"] # "paused"
    BY <2>3, BacklogTypes DEF BacklogInv, DelayInv, TurnInv
  <2> QED BY <1>1, <2>1, <2>2, <2>3
<1> QED BY <1>5, <1>6, <1>7, <1>8 DEF BacklogInv

\* A turn of writeFlash.
LEMMA BacklogFlash ==
  ASSUME TypeOK, BufferInv, BacklogInv, DelaysFit, Flash
  PROVE  BacklogInv'
<1> DEFINE L == wait["loop"]  F == wait["flash"]
<1>1. /\ LoopDelay \in Nat /\ LoopDelay > 0 /\ WriteMs \in Nat /\ WriteMs > 0
      /\ PollDelay \in Nat /\ PollDelay > 0
  BY DelayAssumption
<1>2. turn = "flash" /\ F = 0 /\ ~LoopFirst
  BY DEF Flash, Resume, FlashEntry, FlashIdle, SnapshotYield, SnapshotBlock, TakeOver,
         Stored, OpenFailed, At, LoopFirst
<1>3. ASSUME NEW label, NEW ms \in Nat, YieldAt("flash", label, ms)
      PROVE  /\ pc'["loop"] = pc["loop"] /\ pc'["flash"] = label
             /\ L' \in Nat /\ L' <= L /\ F' = ms
  <2>1. SchedTypeOK
    BY DEF TypeOK
  <2>2. PICK d \in 0 .. SliceMs :
          wait' = [u \in Tasks |-> IF u = "flash" THEN ms ELSE After(wait[u], d)]
    BY <1>3 DEF YieldAt
  <2>3. L' = After(L, d) /\ F' = ms
    BY <2>2 DEF Tasks
  <2>4. L \in Nat /\ d \in Nat
    BY BacklogTypes, DelayAssumption
  <2>5. pc'["loop"] = pc["loop"] /\ pc'["flash"] = label
    BY <1>3, <2>1 DEF YieldAt, SchedTypeOK, Tasks
  <2> HIDE DEF L, F
  <2> QED BY <2>3, <2>4, <2>5, AfterFacts
<1>4. ASSUME pc'["loop"] = pc["loop"], L' \in Nat, L' <= L,
             pc'["flash"] \in {"top", "check"} => F' = 0
      PROVE  DelayInv' /\ Rest' \in Nat
  BY <1>1, <1>4, BacklogTypes DEF BacklogInv, DelayInv, Rest
<1>5. CASE Resume("flash") \/ FlashEntry
  <2>1. /\ wbPos' = wbPos
        /\ \/ pc["flash"] = "paused" /\ YieldAt("flash", "top", 0)
           \/ pc["flash"] = "top" /\ YieldAt("flash", "check", 0)
    BY <1>5 DEF Resume, FlashEntry, At, bufferVars
  <2>2. /\ \/ pc["flash"] = "paused" /\ pc'["flash"] = "top"
           \/ pc["flash"] = "top" /\ pc'["flash"] = "check"
        /\ pc'["loop"] = pc["loop"] /\ L' \in Nat /\ L' <= L /\ F' = 0
    BY <1>3, <2>1
  <2>3. DelayInv'
    BY <1>4, <2>2
  <2>4. TurnInv'
    BY <1>2, <2>1, <2>2, BacklogTypes, SlotsAssumption DEF BacklogInv, TurnInv, ToCome
  <2> QED BY <2>2, <2>3, <2>4 DEF BacklogInv, PollInv, WriteInv
<1>6. CASE FlashIdle
  <2>1. wbPos' = wbPos /\ ~writeSignal /\ YieldAt("flash", "paused", PollDelay)
    BY <1>6 DEF FlashIdle, bufferVars
  <2>2. /\ pc'["flash"] = "paused" /\ F' = PollDelay
        /\ pc'["loop"] = pc["loop"] /\ L' \in Nat /\ L' <= L
    BY <1>1, <1>3, <2>1
  <2>3. DelayInv' /\ Rest' \in Nat
    BY <1>4, <2>2
  <2>4. wbPos <= Slots - 2
    BY <2>1, BacklogTypes, SlotsAssumption DEF BufferInv, SignalMeansFull, BatchSize
  <2>5. Ms(wbPos) + PollDelay <= Ms(Slots)
    BY <2>4, BacklogTypes, FitFacts
  <2>6. PollInv'
    BY <1>1, <2>1, <2>2, <2>3, <2>5, BacklogTypes DEF PollInv
  <2> QED BY <1>1, <2>2, <2>3, <2>6 DEF BacklogInv, WriteInv, TurnInv
<1>7. CASE SnapshotYield
  <2>1. PICK ms \in 0 .. WriteMs : YieldAt("flash", "writing", ms)
    BY <1>7 DEF SnapshotYield
  <2>2. /\ pc'["flash"] = "writing" /\ F' = ms /\ ms \in Nat /\ ms <= WriteMs
        /\ pc'["loop"] = pc["loop"] /\ L' \in Nat /\ L' <= L
    BY <1>1, <1>3, <2>1
  <2>3. DelayInv' /\ Rest' \in Nat
    BY <1>4, <2>2
  <2>4. wbPos' = 0
    BY <1>7 DEF SnapshotYield, TakeOver
  <2>5. Ms(0) = 0 /\ Ms(0 + 0) = 0 /\ Ms(0 + 1) = LoopDelay
    BY <1>1, MsFacts
  <2>6. WriteInv'
    BY <1>1, <2>2, <2>3, <2>4, <2>5 DEF WriteInv
  <2> QED BY <2>2, <2>3, <2>6 DEF BacklogInv, PollInv, TurnInv
<1>8. CASE SnapshotBlock
  <2>1. PICK ms \in 0 .. WriteMs : wait' = [u \in Tasks |-> After(wait[u], ms)]
    BY <1>8 DEF SnapshotBlock
  <2>2. /\ pc'["flash"] = "writing" /\ pc'["loop"] = pc["loop"] /\ turn' = "flash"
        /\ wbPos' = 0
    BY <1>2, <1>8 DEF SnapshotBlock, TakeOver, TypeOK, SchedTypeOK, Tasks
  <2>3. L' \in Nat /\ L' <= L /\ F' = 0
    <3>1. L' = After(L, ms) /\ F' = After(F, ms) /\ ms \in Nat /\ L \in Nat /\ F \in Nat
      BY <1>1, <2>1, BacklogTypes DEF Tasks
    <3>2. F = 0
      BY <1>2
    <3> HIDE DEF L, F
    <3> QED BY <3>1, <3>2, AfterFacts DEF After
  <2>4. DelayInv'
    BY <1>4, <2>2, <2>3
  <2>5. ~LoopFirst'
    BY <2>2 DEF LoopFirst
  <2>6. Ms(0 + 0) = 0
    BY MsFacts
  <2>7. WriteInv'
    BY <1>1, <2>2, <2>3, <2>5, <2>6 DEF WriteInv
  <2> QED BY <2>2, <2>4, <2>7 DEF BacklogInv, PollInv, TurnInv
<1>9. CASE Stored \/ OpenFailed
  <2>1. wbPos' = wbPos /\ pc["flash"] = "writing" /\ YieldAt("flash", "paused", PollDelay)
    BY <1>9 DEF Stored, OpenFailed, At, bufferVars
  <2>2. /\ pc'["flash"] = "paused" /\ F' = PollDelay
        /\ pc'["loop"] = pc["loop"] /\ L' \in Nat /\ L' <= L
    BY <1>1, <1>3, <2>1
  <2>3. DelayInv' /\ Rest' \in Nat
    BY <1>4, <2>2
  <2>4. Ms(wbPos) < WriteMs + LoopDelay
    BY <1>2, <2>1, BacklogTypes DEF BacklogInv, WriteInv
  <2>5. Ms(wbPos) + PollDelay <= Ms(Slots)
    BY <1>1, <2>4, BacklogTypes, FitFacts
  <2>6. PollInv'
    BY <1>1, <2>1, <2>2, <2>3, <2>5, BacklogTypes DEF PollInv
  <2> QED BY <1>1, <2>2, <2>3, <2>6 DEF BacklogInv, WriteInv, TurnInv
<1> QED BY <1>5, <1>6, <1>7, <1>8, <1>9 DEF Flash

\* A slice of loop().
LEMMA BacklogLoop ==
  ASSUME TypeOK, BacklogInv, DelaysFit, Loop
  PROVE  BacklogInv'
<1>1. turn = "loop" /\ wait["loop"] = 0
  BY DEF Loop, Resume, LoopLocked, BuildQuiet, BuildOnA, SweepStart, Sample, SweepStep,
         SweepEnd, At
<1>2. ASSUME NEW label, NEW ms \in Nat, YieldAt("loop", label, ms)
      PROVE  /\ turn' = Ring[turn]
             /\ pc'["loop"] = label /\ pc'["flash"] = pc["flash"] /\ wait'["loop"] = ms
             /\ \E d \in Nat : wait'["flash"] = After(wait["flash"], d)
  <2>1. PICK d \in 0 .. SliceMs :
          wait' = [u \in Tasks |-> IF u = "loop" THEN ms ELSE After(wait[u], d)]
    BY <1>2 DEF YieldAt
  <2>2. wait'["loop"] = ms /\ wait'["flash"] = After(wait["flash"], d) /\ d \in Nat
    BY <2>1, DelayAssumption DEF Tasks
  <2>3. turn' = Ring[turn] /\ pc'["loop"] = label /\ pc'["flash"] = pc["flash"]
    BY <1>1, <1>2 DEF YieldAt, TypeOK, SchedTypeOK, Tasks
  <2> QED BY <2>2, <2>3
<1>3. LoopDelay \in Nat /\ SweepDelay \in Nat
  BY DelayAssumption
<1>4. CASE \/ Resume("loop") \/ LoopLocked \/ SweepStep
           \/ \E r \in SUBSET (RavenA \union RavenB) : SweepStart(r)
  <2>1. /\ wbPos' = wbPos
        /\ \/ pc["loop"] = "paused" /\ YieldAt("loop", "top", 0)
           \/ pc["loop"] # "paused" /\ YieldAt("loop", "paused", LoopDelay)
           \/ pc["loop"] # "paused" /\ YieldAt("loop", "sweep", SweepDelay)
    BY <1>4 DEF Resume, LoopLocked, SweepStep, SweepStart, Sample, At, bufferVars
  <2>2. /\ \/ pc["loop"] = "paused" /\ pc'["loop"] = "top" /\ wait'["loop"] = 0
           \/ pc["loop"] # "paused" /\ pc'["loop"] = "paused" /\ wait'["loop"] = LoopDelay
           \/ pc["loop"] # "paused" /\ pc'["loop"] = "sweep"
        /\ turn' = Ring[turn] /\ pc'["flash"] = pc["flash"]
        /\ \E d \in Nat : wait'["flash"] = After(wait["flash"], d)
    BY <1>2, <1>3, <2>1
  <2>3. PICK d \in Nat : wait'["flash"] = After(wait["flash"], d)
    BY <2>2
  <2> QED BY <1>1, <2>1, <2>2, <2>3, BacklogQuiet
<1>5. CASE \/ SweepEnd
           \/ \E r \in SUBSET (RavenA \union RavenB) : BuildQuiet(r) \/ BuildOnA(r)
  <2>1. /\ wbPos' = wbPos + 1
        /\ pc["loop"] # "paused" /\ YieldAt("loop", "paused", LoopDelay)
    BY <1>5 DEF SweepEnd, BuildQuiet, BuildOnA, Sample, FinishPacket, At
  <2>2. /\ pc'["loop"] = "paused" /\ wait'["loop"] = LoopDelay
        /\ turn' = Ring[turn] /\ pc'["flash"] = pc["flash"]
        /\ \E d \in Nat : wait'["flash"] = After(wait["flash"], d)
    BY <1>2, <1>3, <2>1
  <2>3. PICK d \in Nat : wait'["flash"] = After(wait["flash"], d)
    BY <2>2
  <2> QED BY <1>1, <2>1, <2>2, <2>3, BacklogGrows
<1> QED BY <1>4, <1>5 DEF Loop

\* A turn of writeRadio, or of a task in a delay.
LEMMA BacklogOther ==
  ASSUME TypeOK, BacklogInv, DelaysFit, Pass \/ Radio
  PROVE  BacklogInv'
<1>1. /\ wbPos' = wbPos /\ turn' = Ring[turn]
      /\ pc'["loop"] = pc["loop"] /\ pc'["flash"] = pc["flash"]
      /\ turn = "radio" \/ (Pass /\ wait[turn] > 0)
  BY DEF Pass, Radio, Resume, RadioSendNow, RadioLock, RadioWait, RadioSend, Transmit,
         YieldAt, At, bufferVars, TypeOK, SchedTypeOK, Tasks
<1>2. \E d \in Nat : /\ wait'["loop"] = After(wait["loop"], d)
                     /\ wait'["flash"] = After(wait["flash"], d)
  <2>1. CASE Pass
    <3>1. PICK d \in 0 .. SliceMs : wait' = [u \in Tasks |-> After(wait[u], d)]
      BY <2>1 DEF Pass
    <3> QED BY <3>1, DelayAssumption DEF Tasks
  <2>2. CASE Radio
    <3>1. PICK label, ms : YieldAt("radio", label, ms)
      BY <2>2 DEF Radio, Resume, RadioSendNow, RadioLock, RadioWait, RadioSend, Transmit
    <3>2. PICK d \in 0 .. SliceMs :
            wait' = [u \in Tasks |-> IF u = "radio" THEN ms ELSE After(wait[u], d)]
      BY <3>1 DEF YieldAt
    <3> QED BY <3>2, DelayAssumption DEF Tasks
  <2> QED BY <2>1, <2>2
<1>3. PICK d \in Nat : /\ wait'["loop"] = After(wait["loop"], d)
                       /\ wait'["flash"] = After(wait["flash"], d)
  BY <1>2
<1>4. wait["flash"] > 0 \/ (LoopFirst' => LoopFirst)
  <2>1. turn \in {"loop", "flash", "radio"}
    BY DEF TypeOK, SchedTypeOK, Tasks
  <2> QED BY <1>1, <2>1, RoundTurns
<1> QED BY <1>1, <1>3, <1>4, BacklogWaits

\* With delays like those of the code, writeFlash never finds more than two packets
\* too many.
THEOREM BacklogBoundedHolds == ASSUME DelaysFit PROVE Spec => []BacklogBounded
<1>1. Init => BacklogInv
  <2> SUFFICES ASSUME Init PROVE BacklogInv
    OBVIOUS
  <2>1. /\ pc["loop"] = "top" /\ pc["flash"] = "top" /\ wait["loop"] = 0 /\ wait["flash"] = 0
        /\ wbPos = 0
    BY DEF Init, Tasks
  <2>2. TurnInv
    BY <2>1, SlotsAssumption DEF TurnInv, ToCome
  <2> QED BY <2>1, <2>2 DEF BacklogInv, DelayInv, PollInv, WriteInv
<1>2. AvionicsInv /\ BacklogInv /\ [Next]_vars => BacklogInv'
  <2> SUFFICES ASSUME AvionicsInv, BacklogInv, [Next]_vars PROVE BacklogInv'
    OBVIOUS
  <2>1. TypeOK /\ BufferInv
    BY DEF AvionicsInv
  <2>2. CASE Loop
    BY <2>1, <2>2, BacklogLoop
  <2>3. CASE Flash
    BY <2>1, <2>3, BacklogFlash
  <2>4. CASE Pass \/ Radio
    BY <2>1, <2>4, BacklogOther
  <2>5. CASE TxDone \/ UNCHANGED vars
    <3>1. UNCHANGED <<pc, wait, turn, wbPos>>
      BY <2>5 DEF TxDone, vars, schedVars, bufferVars
    <3> QED BY <3>1
          DEF BacklogInv, DelayInv, PollInv, WriteInv, TurnInv, ToCome, Rest, LoopFirst
  <2> QED BY <2>2, <2>3, <2>4, <2>5 DEF Next, Cpu
<1>3. AvionicsInv /\ BacklogInv => BacklogBounded
  <2> SUFFICES ASSUME TypeOK, BacklogInv PROVE wbPos <= Slots + 1
    BY DEF AvionicsInv, BacklogBounded
  <2>1. /\ LoopDelay \in Nat /\ LoopDelay > 0 /\ WriteMs \in Nat /\ PollDelay \in Nat
        /\ PollDelay > 0
    BY DelayAssumption
  <2>2. Rest \in Nat /\ Rest <= LoopDelay
    BY <2>1, BacklogTypes DEF Rest, BacklogInv, DelayInv
  <2>3. CASE pc["flash"] = "paused" /\ wait["flash"] > 0
    BY <2>1, <2>2, <2>3, BacklogTypes, SlotsAssumption DEF BacklogInv, PollInv
  <2>4. CASE pc["flash"] = "writing"
    <3>1. Ms(wbPos) < WriteMs + LoopDelay
      BY <2>1, <2>2, <2>4, BacklogTypes DEF BacklogInv, WriteInv
    <3>2. Ms(wbPos) < Ms(Slots + 1)
      BY <2>1, <3>1, BacklogTypes, FitFacts
    <3> QED BY <3>2, BacklogTypes, SlotsAssumption
  <2>5. CASE pc["flash"] # "writing" /\ wait["flash"] = 0
    BY <2>5, BacklogTypes, SlotsAssumption DEF BacklogInv, TurnInv, ToCome
  <2>6. pc["flash"] \in {"top", "check"} => wait["flash"] = 0
    BY DEF BacklogInv, DelayInv
  <2> QED BY <2>3, <2>4, <2>5, <2>6, BacklogTypes
<1> QED BY <1>1, <1>2, <1>3, Invariant, PTL DEF Spec
=============================================================================
