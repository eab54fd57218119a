------------------------------ MODULE Avionics ------------------------------
(***************************************************************************)
(* The flight computer, avionics/avionics.ino: the cooperative tasks       *)
(* loop(), writeFlash() and writeRadio(), the buffers, flags and servo     *)
(* they share, and the transmit side of the radio they drive.              *)
(*                                                                         *)
(* One action is one slice of a task: everything the task does from one    *)
(* yield() or delay() to the next.  Nothing else runs inside a slice       *)
(* except the radio interrupt, which is the action TxDone.                 *)
(*                                                                         *)
(* Operators whose name ends in _ are broken variants of the definition    *)
(* that follows them.  Nothing uses them: put in its place, each makes TLC *)
(* report the property it is there for.                                    *)
(***************************************************************************)
EXTENDS Naturals

CONSTANTS
  Slots,          \* packets that fit in writeBuffer: 2048 / PACKET_SIZE
  SweepFrom,      \* first position of the deployment sweep (25)
  SweepTo,        \* the sweep stops short of this position (75)
  LoopDelay,      \* delay(5) at the end of loop()
  PollDelay,      \* delay(10) at the end of writeFlash()
  SendDelay,      \* delay(10) at the end of writeRadio()
  SweepDelay,     \* delay(20) after each servo.write of the sweep
  SliceMs,        \* longest slice between two yields, in ms
  WriteMs,        \* longest write to the flash chip, in ms
  Ring,           \* which task yield() hands the processor on to
  RavenA,         \* altimeter pins R0A, R1A
  RavenB,         \* altimeter pins R0B, R1B
  Stamps,         \* what tells one sample from another: its millis() value
  NextStamp,      \* the stamp of the next sample
  FirstStamp,     \* the stamp before the first sample is taken
  Blank           \* the zeroed memory of a global array at boot

Tasks == {"loop", "flash", "radio"}

\* The two orders in which three tasks can follow each other.
Rings == { r \in [Tasks -> Tasks] : \A t \in Tasks : {t, r[t], r[r[t]]} = Tasks }

ASSUME SlotsAssumption == Slots \in Nat /\ Slots >= 2
ASSUME SweepAssumption ==
  SweepFrom \in Nat /\ SweepTo \in Nat /\ SweepFrom + 1 < SweepTo
ASSUME DelayAssumption ==
  /\ LoopDelay \in Nat \ {0} /\ PollDelay \in Nat \ {0}
  /\ SendDelay \in Nat \ {0} /\ SweepDelay \in Nat \ {0}
  /\ SliceMs \in Nat \ {0} /\ WriteMs \in Nat \ {0}
ASSUME RingAssumption == Ring \in Rings
ASSUME StampAssumption ==
  /\ NextStamp \in [Stamps -> Stamps]
  /\ FirstStamp \in Stamps
  /\ Blank \notin Stamps

VARIABLES
  packetBuffer,     \* the packet being built: stamp of its body and of its tail
  stamp,            \* stamp of the newest sample
  raven,            \* altimeter pins found active by the newest sample
  lastRaven,        \* what the packet before it found
  deployed,         \* the deployment code has run
  servo,            \* last position written to the servo
  writeBuffer,      \* packets collected for the flash
  wbPos,            \* write position in writeBuffer, in packets
  writeSignal,      \* "writeBuffer is ready to be written"
  writeBufferCopy,  \* writeFlash's private copy of writeBuffer
  cpyLen,           \* whole packets in that copy
  file,             \* the packets last appended to the flash file
  radioLock,        \* "the packet is being sent, do not update it"
  localBuffer,      \* writeRadio's copy of the packet
  mode,             \* RH_RF95 mode: "Idle" or "Tx"
  fifo,             \* the packet in the radio's FIFO
  pc,               \* where each task will resume
  wait,             \* what is left of the delay each task is in
  turn              \* the task that has the processor

buildVars == <<packetBuffer, stamp, raven, lastRaven, deployed, servo>>
bufferVars == <<writeBuffer, wbPos, writeSignal>>
storeVars == <<writeBufferCopy, cpyLen, file>>
radioVars == <<radioLock, localBuffer, mode, fifo>>
schedVars == <<pc, wait, turn>>
vars == <<buildVars, bufferVars, storeVars, radioVars, schedVars>>

-----------------------------------------------------------------------------
Index == 0 .. Slots - 1
Samples == Stamps \union {Blank}
Packets == [body : Samples, tail : Samples]
Whole(p) == p.body = p.tail

\* Packets 1 .. n of buffer b, as the sequence a write puts in the file.  What
\* lies behind the end of the buffer is not followed.
Batch(b, n) == [k \in 1 .. IF n <= Slots THEN n ELSE Slots |-> b[k - 1]]

-----------------------------------------------------------------------------
(* The scheduler: yield() and delay() are the only points where the         *)
(* processor changes hands.                                                *)

\* Task t is the one running, it resumes at this label, its delay is over.
At(t, label) == turn = t /\ pc[t] = label /\ wait[t] = 0

\* The subtraction without a floor.
AfterWraps_(ms, d) == ms - d

\* A delay of ms, d ms later.
After(ms, d) == IF ms > d THEN ms - d ELSE 0

\* The slice of task t ends after some time in delay(ms) (yield() when ms = 0),
\* and t will resume at label.
YieldAt(t, label, ms) ==
  /\ pc' = [pc EXCEPT ![t] = label]
  /\ \E d \in 0 .. SliceMs :
       wait' = [u \in Tasks |-> IF u = t THEN ms ELSE After(wait[u], d)]
  /\ turn' = Ring[t]

\* Inside delay(), which is not over: yield again.
Pass ==
  /\ wait[turn] > 0
  /\ \E d \in 0 .. SliceMs : wait' = [u \in Tasks |-> After(wait[u], d)]
  /\ turn' = Ring[turn]
  /\ UNCHANGED <<buildVars, bufferVars, storeVars, radioVars, pc>>

\* The yield() after the delay that ends each of the three functions.
Resume(t) ==
  /\ At(t, "paused")
  /\ YieldAt(t, "top", 0)
  /\ UNCHANGED <<buildVars, bufferVars, storeVars, radioVars>>

-----------------------------------------------------------------------------
(* loop()                                                                  *)

\* With n packets in writeBuffer there is no room for two more.
Full(n) == Slots - n <= 1

\* The copy is made before the new packet is complete.
StoreEarly_(s) == IF writeSignal THEN writeBuffer
                  ELSE [writeBuffer EXCEPT ![wbPos] = packetBuffer.tail]

\* memcpy to writeBuffer, unless it still waits to be written.
Store(s) == IF writeSignal THEN writeBuffer ELSE [writeBuffer EXCEPT ![wbPos] = s]

\* Tail of the packet, copy into the write buffer, signal for writeFlash.
FinishPacket(s, r) ==
  /\ packetBuffer' = [body |-> s, tail |-> s]
  /\ lastRaven' = r
  /\ writeBuffer' = Store(s)
  /\ wbPos' = wbPos + 1
  /\ writeSignal' = (writeSignal \/ Full(wbPos + 1))
  /\ YieldAt("loop", "paused", LoopDelay)

\* The packet is being sent: sensors are read, no packet is built.
LoopLocked ==
  /\ At("loop", "top")
  /\ radioLock
  /\ YieldAt("loop", "paused", LoopDelay)
  /\ UNCHANGED <<buildVars, bufferVars, storeVars, radioVars>>

\* The lock is not looked at.
SampleUnlocked_(r) ==
  /\ At("loop", "top")
  /\ stamp' = NextStamp[stamp]
  /\ raven' = r
  /\ UNCHANGED <<storeVars, radioVars>>

\* Up to the sampling of the altimeter pins: no yield so far.
Sample(r) ==
  /\ At("loop", "top")
  /\ ~radioLock
  /\ stamp' = NextStamp[stamp]
  /\ raven' = r
  /\ UNCHANGED <<storeVars, radioVars>>

\* deployed is not looked at.
FiresAgain_(r) == r # lastRaven

\* The pins changed and the deployment code has not run yet.
Fires(r) == r # lastRaven /\ ~deployed

\* Nothing new on the pins, or already deployed.
BuildQuiet(r) ==
  /\ Sample(r)
  /\ ~(Fires(r) /\ r \intersect (RavenA \union RavenB) # {})
  /\ FinishPacket(NextStamp[stamp], r)
  /\ UNCHANGED <<deployed, servo>>

\* A pins only: the body of for (i = 25; i >= 75; i--) never runs.
BuildOnA(r) ==
  /\ Sample(r)
  /\ Fires(r) /\ r \intersect RavenB = {} /\ r \intersect RavenA # {}
  /\ deployed' = TRUE
  /\ FinishPacket(NextStamp[stamp], r)
  /\ UNCHANGED servo

\* A B pin: the sweep starts, with the packet's body new and its tail old.
SweepStart(r) ==
  /\ Sample(r)
  /\ Fires(r) /\ r \intersect RavenB # {}
  /\ packetBuffer' = [packetBuffer EXCEPT !.body = NextStamp[stamp]]
  /\ servo' = SweepFrom
  /\ YieldAt("loop", "sweep", SweepDelay)
  /\ UNCHANGED <<lastRaven, deployed, bufferVars>>

\* i is not incremented.
SweepStuck_ ==
  /\ At("loop", "sweep")
  /\ YieldAt("loop", "sweep", SweepDelay)
  /\ UNCHANGED <<buildVars, bufferVars, storeVars, radioVars>>

SweepStep ==
  /\ At("loop", "sweep")
  /\ servo + 1 < SweepTo
  /\ servo' = servo + 1
  /\ YieldAt("loop", "sweep", SweepDelay)
  /\ UNCHANGED <<packetBuffer, stamp, raven, lastRaven, deployed,
                 bufferVars, storeVars, radioVars>>

\* The sweep ends one position early.
SweepShort_ ==
  /\ At("loop", "sweep")
  /\ servo + 2 >= SweepTo
  /\ deployed' = TRUE
  /\ FinishPacket(stamp, raven)
  /\ UNCHANGED <<stamp, raven, servo, storeVars, radioVars>>

\* radioLock is not looked at again before the packet is finished.
SweepEnd ==
  /\ At("loop", "sweep")
  /\ servo + 1 >= SweepTo
  /\ deployed' = TRUE
  /\ FinishPacket(stamp, raven)
  /\ UNCHANGED <<stamp, raven, servo, storeVars, radioVars>>

Loop ==
  \/ Resume("loop")
  \/ LoopLocked
  \/ \E r \in SUBSET (RavenA \union RavenB) :
       BuildQuiet(r) \/ BuildOnA(r) \/ SweepStart(r)
  \/ SweepStep
  \/ SweepEnd

-----------------------------------------------------------------------------
(* writeFlash()                                                            *)

\* The yield() at the entry of writeFlash.
FlashEntry ==
  /\ At("flash", "top")
  /\ YieldAt("flash", "check", 0)
  /\ UNCHANGED <<buildVars, bufferVars, storeVars, radioVars>>

\* delay(100) for delay(10).
FlashIdleSlow_ ==
  /\ At("flash", "check")
  /\ ~writeSignal
  /\ YieldAt("flash", "paused", 10 * PollDelay)
  /\ UNCHANGED <<buildVars, bufferVars, storeVars, radioVars>>

FlashIdle ==
  /\ At("flash", "check")
  /\ ~writeSignal
  /\ YieldAt("flash", "paused", PollDelay)
  /\ UNCHANGED <<buildVars, bufferVars, storeVars, radioVars>>

\* writeSignal stays up.
TakeOverSignalled_ ==
  /\ At("flash", "check")
  /\ writeSignal
  /\ cpyLen' = wbPos
  /\ writeBufferCopy' = [k \in Index |-> IF k < wbPos THEN writeBuffer[k]
                                         ELSE writeBufferCopy[k]]
  /\ wbPos' = 0
  /\ UNCHANGED <<buildVars, writeSignal, writeBuffer, file, radioVars>>

\* Take the buffer over: the snapshot that is then written to the file.
TakeOver ==
  /\ At("flash", "check")
  /\ writeSignal
  /\ cpyLen' = wbPos
  /\ writeBufferCopy' = [k \in Index |-> IF k < wbPos THEN writeBuffer[k]
                                         ELSE writeBufferCopy[k]]
  /\ wbPos' = 0
  /\ writeSignal' = FALSE
  /\ UNCHANGED <<buildVars, writeBuffer, file, radioVars>>

\* The flash library may yield while the chip is busy ...
SnapshotYield ==
  /\ TakeOver
  /\ \E ms \in 0 .. WriteMs : YieldAt("flash", "writing", ms)

\* ... or keep the processor for as long as it is.
SnapshotBlock ==
  /\ TakeOver
  /\ pc' = [pc EXCEPT !["flash"] = "writing"]
  /\ \E ms \in 0 .. WriteMs : wait' = [u \in Tasks |-> After(wait[u], ms)]
  /\ UNCHANGED turn

\* The buffer itself is written, not the copy.
StoredFromBuffer_ ==
  /\ At("flash", "writing")
  /\ file' = Batch(writeBuffer, cpyLen)
  /\ YieldAt("flash", "paused", PollDelay)
  /\ UNCHANGED <<buildVars, bufferVars, writeBufferCopy, cpyLen, radioVars>>

Stored ==
  /\ At("flash", "writing")
  /\ file' = Batch(writeBufferCopy, cpyLen)
  /\ YieldAt("flash", "paused", PollDelay)
  /\ UNCHANGED <<buildVars, bufferVars, writeBufferCopy, cpyLen, radioVars>>

\* open() failed: the LED turns yellow and the batch is gone.
OpenFailed ==
  /\ At("flash", "writing")
  /\ YieldAt("flash", "paused", PollDelay)
  /\ UNCHANGED <<buildVars, bufferVars, storeVars, radioVars>>

Flash ==
  \/ Resume("flash")
  \/ FlashEntry
  \/ FlashIdle
  \/ SnapshotYield
  \/ SnapshotBlock
  \/ Stored
  \/ OpenFailed

-----------------------------------------------------------------------------
(* writeRadio(), Radio::transmit and RH_RF95::send                         *)

\* writeRadio goes on without its delay(10).
TransmitRestless_(p) ==
  /\ mode = "Idle"
  /\ fifo' = p
  /\ mode' = "Tx"
  /\ radioLock' = FALSE
  /\ YieldAt("radio", "top", 0)

\* send() once the radio is idle: fill the FIFO and start the transmitter,
\* which goes on by itself; back in writeRadio the lock is released.
Transmit(p) ==
  /\ mode = "Idle"
  /\ fifo' = p
  /\ mode' = "Tx"
  /\ radioLock' = FALSE
  /\ YieldAt("radio", "paused", SendDelay)

\* The copy is made after the call.
RadioSendNowStale_ ==
  /\ At("radio", "top")
  /\ ~radioLock
  /\ localBuffer' = packetBuffer
  /\ Transmit(localBuffer)
  /\ UNCHANGED <<buildVars, bufferVars, storeVars>>

\* Lock, copy and send in one slice: waitPacketSent finds the radio idle.
RadioSendNow ==
  /\ At("radio", "top")
  /\ ~radioLock
  /\ localBuffer' = packetBuffer
  /\ Transmit(packetBuffer)
  /\ UNCHANGED <<buildVars, bufferVars, storeVars>>

\* Lock and copy, then waitPacketSent yields: the packet before this one is
\* still on the air.
RadioLock ==
  /\ At("radio", "top")
  /\ ~radioLock
  /\ mode = "Tx"
  /\ radioLock' = TRUE
  /\ localBuffer' = packetBuffer
  /\ YieldAt("radio", "sending", 0)
  /\ UNCHANGED <<buildVars, bufferVars, storeVars, mode, fifo>>

RadioWait ==
  /\ At("radio", "sending")
  /\ mode = "Tx"
  /\ YieldAt("radio", "sending", 0)
  /\ UNCHANGED <<buildVars, bufferVars, storeVars, radioVars>>

RadioSend ==
  /\ At("radio", "sending")
  /\ Transmit(localBuffer)
  /\ UNCHANGED <<buildVars, bufferVars, storeVars, localBuffer>>

Radio ==
  \/ Resume("radio")
  \/ RadioSendNow
  \/ RadioLock
  \/ RadioWait
  \/ RadioSend

\* handleInterrupt on TX_DONE.
TxDone ==
  /\ mode = "Tx"
  /\ mode' = "Idle"
  /\ UNCHANGED <<buildVars, bufferVars, storeVars,
                 radioLock, localBuffer, fifo, schedVars>>

-----------------------------------------------------------------------------
\* The state setup() leaves behind.  Which task runs first and in which order
\* they follow (Ring) is the scheduler library's choice.
Init ==
  /\ packetBuffer = [body |-> Blank, tail |-> Blank]
  /\ stamp = FirstStamp
  /\ raven = {} /\ lastRaven = {}
  /\ deployed = FALSE
  /\ servo = SweepFrom
  /\ writeBuffer = [k \in Index |-> Blank]
  /\ wbPos = 0
  /\ writeSignal = FALSE
  /\ writeBufferCopy = [k \in Index |-> Blank]
  /\ cpyLen = 0
  /\ file = <<>>
  /\ radioLock = FALSE
  /\ localBuffer = [body |-> Blank, tail |-> Blank]
  /\ mode = "Idle"
  /\ fifo = [body |-> Blank, tail |-> Blank]
  /\ pc = [t \in Tasks |-> "top"]
  /\ wait = [t \in Tasks |-> 0]
  /\ turn \in Tasks

Cpu == Pass \/ Loop \/ Flash \/ Radio

Next == Cpu \/ TxDone

Spec == Init /\ [][Next]_vars

\* The processor never stops, time does not stand still while it runs, and a
\* transmission that has been started ends with its interrupt.
Fairness ==
  /\ WF_vars(Cpu)
  /\ WF_vars(Cpu /\ \E t \in Tasks : wait'[t] < wait[t])
  /\ WF_vars(TxDone)

FairSpec == Spec /\ Fairness
-----------------------------------------------------------------------------
(* Properties                                                              *)

Labels(t) ==
  {"top", "paused"} \union CASE t = "loop" -> {"sweep"}
                            [] t = "flash" -> {"check", "writing"}
                            [] t = "radio" -> {"sending"}

Sweeping == pc["loop"] = "sweep"

BuildTypeOK ==
  /\ packetBuffer \in Packets
  /\ stamp \in Stamps
  /\ raven \in SUBSET (RavenA \union RavenB)
  /\ lastRaven \in SUBSET (RavenA \union RavenB)
  /\ deployed \in BOOLEAN
  /\ servo \in SweepFrom .. SweepTo - 1

BufferTypeOK ==
  /\ writeBuffer \in [Index -> Samples]
  /\ wbPos \in Nat
  /\ writeSignal \in BOOLEAN

StoreTypeOK ==
  /\ writeBufferCopy \in [Index -> Samples]
  /\ cpyLen \in Nat
  /\ \E n \in 0 .. Slots : file \in [1 .. n -> Samples]

RadioTypeOK ==
  /\ radioLock \in BOOLEAN
  /\ localBuffer \in Packets
  /\ mode \in {"Idle", "Tx"}
  /\ fifo \in Packets

SchedTypeOK ==
  /\ pc \in [Tasks -> UNION {Labels(t) : t \in Tasks}]
  /\ \A t \in Tasks : pc[t] \in Labels(t)
  /\ wait \in [Tasks -> Nat]
  /\ turn \in Tasks

\* Every variable keeps to the values its declaration is meant for; in
\* particular the servo stays inside the sweep.
TypeOK ==
  BuildTypeOK /\ BufferTypeOK /\ StoreTypeOK /\ RadioTypeOK /\ SchedTypeOK

\* The packets of a batch: the slots filled before writeSignal goes up.
BatchSize == Slots - 1
Taken == IF wbPos < BatchSize THEN wbPos ELSE BatchSize

\* loop() stores only where writeBuffer has room for a packet, and the signal is
\* up exactly when the batch is full: no store is made out of range and no batch
\* is handed over half full, whatever the order of the tasks.
SignalMeansFull == writeSignal <=> wbPos >= BatchSize

\* Slots 0 .. n - 1 of a buffer hold consecutive samples.
Consecutive(b, n) == \A k \in 1 .. n - 1 : b[k] = NextStamp[b[k - 1]]

\* Stamp of the last packet finished.
Newest == IF packetBuffer.tail = Blank THEN FirstStamp ELSE packetBuffer.tail

\* The packets waiting in writeBuffer are consecutive samples, the last of them
\* the last packet finished: between two hand-overs nothing is lost, repeated or
\* left over from the batch before.
NoGapInBuffer ==
  /\ Consecutive(writeBuffer, Taken)
  /\ wbPos > 0 => /\ packetBuffer.tail # Blank
                  /\ ~writeSignal => writeBuffer[wbPos - 1] = packetBuffer.tail
  /\ stamp = IF Sweeping THEN NextStamp[Newest] ELSE Newest

\* The hand-over from loop() to writeFlash as a whole.
BufferInv == SignalMeansFull /\ NoGapInBuffer

\* The delays of the code: a poll every 10 ms, a packet at most every 5 ms, and a
\* write and the poll after it over while the next batch is being collected.
DelaysFit ==
  /\ PollDelay <= 2 * LoopDelay
  /\ WriteMs + PollDelay <= BatchSize * LoopDelay + 1

\* writeFlash comes round often enough: between the signal and the hand-over at
\* most two packets are built, and dropped, however the tasks interleave, as long
\* as the delays fit.
BacklogBounded == wbPos <= Slots + 1

\* What reaches the file is a full batch of consecutive samples: writeFlash's
\* copy is not disturbed by the packets loop() builds during the write.
StoredConsecutive ==
  file # <<>> =>
    /\ BatchSize \in DOMAIN file
    /\ \A k \in 2 .. BatchSize : file[k] = NextStamp[file[k - 1]]

\* radioLock is held exactly while writeRadio waits inside send(): the function
\* never starts over with the lock held, which would be a loop without a yield.
LockMeansSending == radioLock <=> pc["radio"] = "sending"

\* A packet half new and half old exists only during the deployment sweep.
TornOnlyInSweep == ~Whole(packetBuffer) => Sweeping

\* While writeRadio waits for the transmitter its copy stays the newest packet:
\* the lock keeps loop() from building another one.
LockedCopyIsNewest == radioLock => localBuffer.body = packetBuffer.body

\* The sample a sweep interrupts is the one its packet's body holds.
SweepHoldsSample == Sweeping => packetBuffer.body = stamp

\* What radioLock is for: it is given back, and under it neither the copy nor the
\* packet a sweep has begun grows old.
LockInv == LockMeansSending /\ LockedCopyIsNewest /\ SweepHoldsSample

\* No sample with an active altimeter pin goes unanswered: after it, the
\* deployment code has run or is running.
NoMissedSignal == ~deployed => lastRaven = {} /\ (raven # {} => Sweeping)

\* The servo is where the deployment left it: at rest before, moving during the
\* sweep, at one of the two ends afterwards, never stopped half way.
ServoFollowsDeployment ==
  /\ Sweeping => ~deployed
  /\ ~deployed /\ ~Sweeping => servo = SweepFrom
  /\ deployed => servo \in {SweepFrom, SweepTo - 1}

\* Deployment and what it leaves behind: a torn packet is never kept past the
\* sweep, no signal is lost to the sweep's yields, and the servo is where the
\* record of the deployment says.
DeployInv == TornOnlyInSweep /\ NoMissedSignal /\ ServoFollowsDeployment

\* Deployment is final: no later signal moves the servo again.
DeployOnce == [][deployed => deployed' /\ servo' = servo]_vars

\* The radio sends packets in the order they are built and skips back to none:
\* what it puts on the air is the newest packet body, never an older one.
SendsNewest == [][fifo' # fifo => fifo'.body = packetBuffer.body]_vars

\* The batches the abstract recorder sees: the one collected, the one being
\* written, the one written last.  A snapshot taken with the signal overdue drags
\* along the never-written last slot, which is cut off here.
Pending == [k \in 1 .. Taken |-> writeBuffer[k - 1]]
Saving == IF pc["flash"] = "writing"
          THEN [k \in 1 .. BatchSize |-> writeBufferCopy[k - 1]] ELSE <<>>
LastStored == [k \in DOMAIN file \ {Slots} |-> file[k]]

Recording == INSTANCE Recorder WITH
  newest <- Newest, pending <- Pending, saving <- Saving, stored <- LastStored

\* Every behaviour records as the abstract recorder does.
RecordsAsPromised == Recording!Init /\ [][Recording!Next]_Recording!vars

\* ... and, with the fairness the scheduler gives, goes on doing so.
RecordsForever == Recording!Spec

\* A full buffer is taken over by writeFlash.
SignalServed == writeSignal ~> ~writeSignal

\* An active B pin leads to the end of the sweep.
SweepCompletes == Sweeping ~> deployed /\ servo = SweepTo - 1

\* The lock never shuts loop() out for good: packets are built again and again.
KeepsBuilding == []<><<stamp' # stamp>>_vars

\* Torn packets go out only around the one sweep: in the end the radio sends
\* nothing but whole ones.
DownlinkHeals == <>[]Whole(fifo)

-----------------------------------------------------------------------------
(* Statements the source makes of itself, which the code does not keep      *)

\* "henceforth this is now a RING BUFFER": wbPos stays inside writeBuffer.
WbPosInBuffer == wbPos < Slots

\* "signal the main loop not to update the packet buffer while the radio is
\* transmitting".
NoUpdateUnderLock == [][radioLock => packetBuffer' = packetBuffer]_vars

\* "An ADS is controlled by interpreting signals from the commercial
\* altimeters": a deployment on record has moved the servo.
DeployedMoved == deployed => servo # SweepFrom
=============================================================================
