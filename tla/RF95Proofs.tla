----------------------------- MODULE RF95Proofs -----------------------------
(***************************************************************************)
(* Proofs about RF95, for every set of frames, payload length, CAD         *)
(* time-out and room in recv, and a program that calls recv as soon as     *)
(* available() has returned true.                                          *)
(***************************************************************************)
EXTENDS RF95, TLAPS

-----------------------------------------------------------------------------
(* The inductive invariant                                                 *)

\* The driver's mode and the chip: an operation the chip has ended is on record in
\* the flags, and drives the line, until the handler has seen it; a frame is on its
\* way in, or complete and unseen, in receive mode only.
ChipInv ==
  /\ mode = "Idle" => opMode = "stdby"
  /\ mode = "Sleep" => opMode = "sleep"
  /\ mode = "Rx" => opMode = "rxcontinuous" /\ dio = "RxDone"
  /\ mode = "Tx" => dio = "TxDone" /\ (opMode = "tx" \/ (opMode = "stdby" /\ Line))
  /\ mode = "Cad" => dio = "CadDone" /\ (opMode = "cad" \/ (opMode = "stdby" /\ Line))
  /\ air # None => mode = "Rx"
  /\ "RxDone" \in irq =>
       mode = "Rx" /\ fifo \in Frames /\ ("CrcError" \notin irq => fifo.intact)

\* A message is in the buffer of a receiver that is on only within the calls that
\* collect it, and then nothing is on its way in.
UnreadInv ==
  /\ rxBufValid /\ mode = "Rx" =>
       /\ pc \in {"polled", "offered", "receiving", "clearing"}
       /\ air = None /\ "RxDone" \notin irq
  /\ pc = "clearing" => rxBufValid

DriverInv == TypeOK /\ ChipInv /\ ValidIsForUs /\ UnreadInv

\* What a message that is for us has to show of itself.
LEMMA ForUsType ==
  ASSUME NEW f \in Frames
  PROVE  f.len \in 0 .. BufSize /\ f.addressed \in BOOLEAN /\ f.intact \in BOOLEAN
  BY FrameAssumption

\* The payload length leaves room for the header, and fits a byte.
LEMMA BufSizeType == BufSize \in 4 .. 255
  BY FrameAssumption DEF HeaderLen

\* recv hands out what a valid buffer holds, and no length wraps.
LEMMA CopyContent ==
  ASSUME ValidIsForUs, rxBufValid
  PROVE  /\ [msg |-> buf.msg, len |-> Length] = Content(buf)
         /\ Content(buf) \in [msg : {f.msg : f \in Frames}, len : 0 .. BufSize - HeaderLen]
         /\ Content(buf) # None
<1>1. buf \in Frames /\ bufLen = buf.len /\ buf.len \in HeaderLen .. BufSize
  BY ForUsType DEF ValidIsForUs, ForUs, HeaderLen
<1>2. bufLen - HeaderLen \in 0 .. 251 /\ Space \in 0 .. 255
  BY <1>1, FrameAssumption, CallAssumption DEF HeaderLen
<1>3. (bufLen - HeaderLen) % 256 = bufLen - HeaderLen
  BY <1>2
<1>4. Length = IF Space < buf.len - HeaderLen THEN Space ELSE buf.len - HeaderLen
  BY <1>1, <1>2, <1>3 DEF Length
<1>5. Length \in 0 .. BufSize - HeaderLen
  BY <1>1, <1>2, <1>4, BufSizeType DEF HeaderLen
<1>6. [msg |-> buf.msg, len |-> Length] = Content(buf)
  BY <1>4 DEF Content
<1>7. Length \in 0 .. 255
  BY <1>5, BufSizeType DEF HeaderLen
<1>8. None # [msg |-> buf.msg, len |-> Length]
  BY <1>1, <1>7, FrameAssumption
<1>9. [msg |-> buf.msg, len |-> Length]
        \in [msg : {f.msg : f \in Frames}, len : 0 .. BufSize - HeaderLen]
  BY <1>1, <1>5
<1> QED BY <1>6, <1>8, <1>9

\* After init() the driver is idle and its buffer empty.
LEMMA DriverInit == Init => DriverInv
<1> SUFFICES ASSUME Init PROVE DriverInv
  OBVIOUS
<1>1. TypeOK
  <2>1. bufLen \in 0 .. BufSize /\ cadTimeout \in Nat
    BY BufSizeType DEF Init
  <2>2. rxBufValid \in BOOLEAN /\ cad \in BOOLEAN
    BY DEF Init
  <2> QED BY <2>1, <2>2, Zenon DEF Init, TypeOK, GotOK
<1>2. ChipInv /\ ValidIsForUs /\ UnreadInv
  BY DEF Init, ChipInv, ValidIsForUs, UnreadInv
<1> QED BY <1>1, <1>2 DEF DriverInv

-----------------------------------------------------------------------------
(* Every step keeps it                                                     *)

\* Operations of the chip come to an end, and a frame starts in receive mode, while
\* nothing is waiting in the buffer.
LEMMA ChipStep ==
  ASSUME DriverInv, Prompt, Chip
  PROVE  DriverInv'
<1> USE DEF DriverInv, rxVars, cadVars, callVars
<1>1. ASSUME NEW f \in Frames, FrameStarts(f) PROVE DriverInv'
  <2>1. TypeOK'
    BY <1>1 DEF FrameStarts, TypeOK, GotOK
  <2>2. ChipInv'
    BY <1>1 DEF FrameStarts, TypeOK, ChipInv, Line
  <2>3. UnreadInv'
    BY <1>1 DEF FrameStarts, TypeOK, ChipInv, UnreadInv, Busy
  <2>4. ValidIsForUs'
    BY <1>1 DEF FrameStarts, ValidIsForUs
  <2> QED BY <2>1, <2>2, <2>3, <2>4
<1>2. CASE FrameEnds
  <2>1. air \in Frames
    BY <1>2 DEF FrameEnds, TypeOK
  <2>2. TypeOK'
    BY <1>2, <2>1 DEF FrameEnds, TypeOK, GotOK
  <2>3. ChipInv'
    BY <1>2, <2>1, ForUsType DEF FrameEnds, TypeOK, ChipInv, Line
  <2>4. UnreadInv'
    BY <1>2 DEF FrameEnds, ChipInv, UnreadInv
  <2>5. ValidIsForUs'
    BY <1>2 DEF FrameEnds, ValidIsForUs
  <2> QED BY <2>2, <2>3, <2>4, <2>5
<1>3. CASE TxEnds
  <2>1. TypeOK'
    BY <1>3 DEF TxEnds, SetOpMode, TypeOK, GotOK
  <2>2. mode = "Tx" /\ dio = "TxDone"
    BY <1>3 DEF TxEnds, TypeOK, ChipInv
  <2>3. ChipInv'
    BY <1>3, <2>2 DEF TxEnds, SetOpMode, ChipInv, Line
  <2>4. UnreadInv' /\ ValidIsForUs'
    BY <1>3, <2>2 DEF TxEnds, SetOpMode, UnreadInv, ValidIsForUs
  <2> QED BY <2>1, <2>3, <2>4
<1>4. CASE CadEnds
  <2>1. PICK detected \in SUBSET {"CadDetected"} :
          irq' = irq \union {"CadDone"} \union detected
    BY <1>4 DEF CadEnds
  <2>2. TypeOK'
    BY <1>4, <2>1 DEF CadEnds, SetOpMode, TypeOK, GotOK
  <2>3. mode = "Cad" /\ dio = "CadDone"
    BY <1>4 DEF CadEnds, TypeOK, ChipInv
  <2>4. ChipInv'
    BY <1>4, <2>1, <2>3 DEF CadEnds, SetOpMode, ChipInv, Line
  <2>5. UnreadInv' /\ ValidIsForUs'
    BY <1>4, <2>1, <2>3 DEF CadEnds, SetOpMode, UnreadInv, ValidIsForUs
  <2> QED BY <2>2, <2>4, <2>5
<1> QED BY <1>1, <1>2, <1>3, <1>4 DEF Chip

\* A message the handler accepts finds the buffer empty, and it switches the receiver
\* off.
LEMMA HandleRxStep ==
  ASSUME DriverInv, Prompt, Line, HandleRx
  PROVE  ~rxBufValid /\ fifo \in Frames /\ (rxBufValid' => ForUs(fifo) /\ mode' = "Idle")
<1>1. ~rxBufValid /\ fifo \in Frames /\ fifo.intact
  BY DEF HandleRx, DriverInv, UnreadInv, ChipInv, TypeOK
<1>2. rxBufValid' => fifo.addressed /\ fifo.len >= HeaderLen
  BY <1>1, ForUsType DEF HandleRx, Validates
<1>3. rxBufValid' => mode' = "Idle"
  BY DEF HandleRx, SetModeIdle
<1> QED BY <1>1, <1>2, <1>3 DEF ForUs

\* The interrupt leaves the chip and the driver in step, whatever it was for.
LEMMA InterruptStep ==
  ASSUME DriverInv, Prompt, Interrupt
  PROVE  DriverInv'
<1> USE DEF DriverInv, rxVars, cadVars, callVars
<1>1. CASE HandleRx
  <2>1. ~rxBufValid /\ fifo \in Frames /\ (rxBufValid' => ForUs(fifo) /\ mode' = "Idle")
    BY <1>1, HandleRxStep DEF Interrupt
  <2>2. fifo.len \in 0 .. BufSize /\ rxBufValid' \in BOOLEAN
    BY <1>1, <2>1, ForUsType DEF HandleRx, Validates
  <2>3. TypeOK'
    BY <1>1, <2>1, <2>2 DEF Interrupt, HandleRx, SetModeIdle, SetOpMode, TypeOK, GotOK
  <2>4. ChipInv'
    <3>1. mode = "Rx" /\ irq' = {} /\ UNCHANGED <<dio, fifo>>
      BY <1>1 DEF Interrupt, HandleRx
    <3>2. CASE rxBufValid'
      BY <1>1, <3>1, <3>2 DEF HandleRx, SetModeIdle, SetOpMode, ChipInv
    <3>3. CASE ~rxBufValid'
      BY <1>1, <3>1, <3>3 DEF HandleRx, ChipInv
    <3> QED BY <3>2, <3>3
  <2>5. ValidIsForUs'
    BY <1>1, <2>1 DEF HandleRx, ValidIsForUs, ForUs
  <2>6. UnreadInv'
    BY <1>1, <2>1 DEF Interrupt, UnreadInv
  <2> QED BY <2>3, <2>4, <2>5, <2>6
<1>2. CASE HandleTx \/ HandleCad
  <2>0. cad' \in BOOLEAN
    <3>1. cad \in BOOLEAN /\ ("CadDetected" \in irq) \in BOOLEAN
      BY DEF TypeOK
    <3> QED BY <1>2, <3>1, Zenon DEF HandleTx, HandleCad
  <2>1. TypeOK'
    <3>1. /\ mode' = "Idle" /\ opMode' \in {"stdby", opMode} /\ air' \in {None, air}
          /\ irq' = {} /\ UNCHANGED <<dio, fifo, rxVars, cadTimeout, callVars>>
      BY <1>2 DEF Interrupt, HandleTx, HandleCad, SetModeIdle, SetOpMode
    <3> QED BY <2>0, <3>1 DEF TypeOK, GotOK
  <2>2. ChipInv'
    BY <1>2 DEF Interrupt, HandleTx, HandleCad, SetModeIdle, SetOpMode, ChipInv
  <2>3. ValidIsForUs' /\ UnreadInv'
    BY <1>2 DEF Interrupt, HandleTx, HandleCad, SetModeIdle, SetOpMode, ValidIsForUs,
                UnreadInv
  <2> QED BY <2>1, <2>2, <2>3
<1>3. CASE HandleNothing
  <2>1. TypeOK'
    BY <1>3 DEF Interrupt, HandleNothing, TypeOK, GotOK
  <2>2. ChipInv'
    BY <1>3 DEF Interrupt, HandleNothing, ChipInv, Line
  <2>3. ValidIsForUs' /\ UnreadInv'
    BY <1>3 DEF Interrupt, HandleNothing, ValidIsForUs, UnreadInv
  <2> QED BY <2>1, <2>2, <2>3
<1> QED BY <1>1, <1>2, <1>3 DEF Interrupt

\* Whether a call looks for a message or collects one: receive mode is entered with
\* nothing on its way in, so that a message still unread stays.
LEMMA ReceiveStep ==
  ASSUME DriverInv, Prompt,
         CallAvailable \/ CallRecv \/ Answer \/ Copy \/ CopyNothing \/ ClearRxBuf
  PROVE  DriverInv'
<1> USE DEF DriverInv, chipVars, rxVars, cadVars, callVars
<1>1. CASE CallAvailable \/ CallRecv
  <2>1. /\ ~Line /\ pc \in {"app", "offered"}
        /\ \/ pc' = "app" /\ mode = "Tx" /\ UNCHANGED <<mode, opMode, dio, air>>
           \/ pc' \in {"polled", "receiving"} /\ mode # "Tx" /\ SetModeRx
        /\ UNCHANGED <<irq, fifo, rxVars, cadVars, toSend, got>>
    BY <1>1 DEF CallAvailable, CallRecv, Poll, Free
  <2>2. TypeOK'
    BY <2>1 DEF SetModeRx, SetOpMode, TypeOK, GotOK
  <2>3. "RxDone" \notin irq
    BY <2>1 DEF ChipInv, Line
  <2>4. ChipInv'
    BY <2>1, <2>3 DEF SetModeRx, SetOpMode, ChipInv, Line
  <2>5. ValidIsForUs'
    BY <2>1 DEF ValidIsForUs
  <2>6. UnreadInv'
    BY <2>1, <2>3 DEF SetModeRx, SetOpMode, ChipInv, UnreadInv
  <2> QED BY <2>2, <2>4, <2>5, <2>6
<1>2. CASE Answer \/ CopyNothing
  <2>1. TypeOK'
    BY <1>2 DEF Answer, CopyNothing, TypeOK, GotOK
  <2>2. ChipInv' /\ ValidIsForUs'
    BY <1>2 DEF Answer, CopyNothing, ChipInv, Line, ValidIsForUs
  <2>3. UnreadInv'
    BY <1>2 DEF Answer, CopyNothing, UnreadInv
  <2> QED BY <2>1, <2>2, <2>3
<1>3. CASE Copy
  <2>1. got' = Content(buf) /\ GotOK'
    BY <1>3, CopyContent DEF Copy, GotOK
  <2>2. TypeOK'
    BY <1>3, <2>1 DEF Copy, TypeOK
  <2>3. ChipInv' /\ ValidIsForUs' /\ UnreadInv'
    BY <1>3 DEF Copy, ChipInv, Line, ValidIsForUs, UnreadInv
  <2> QED BY <2>2, <2>3
<1>4. CASE ClearRxBuf
  <2>1. TypeOK'
    <3>1. bufLen' \in 0 .. BufSize /\ pc' = "app"
      BY <1>4, BufSizeType DEF ClearRxBuf
    <3>3. rxBufValid' \in BOOLEAN
      BY <1>4, Zenon DEF ClearRxBuf
    <3>2. UNCHANGED <<chipVars, mode, buf, cadVars, toSend, got>>
      BY <1>4 DEF ClearRxBuf
    <3> QED BY <3>1, <3>2, <3>3 DEF TypeOK, GotOK
  <2>2. ChipInv' /\ ValidIsForUs' /\ UnreadInv'
    BY <1>4 DEF ClearRxBuf, ChipInv, Line, ValidIsForUs, UnreadInv
  <2> QED BY <2>1, <2>2
<1> QED BY <1>1, <1>2, <1>3, <1>4

\* Sending and sleeping leave the buffer alone, and the receiver off.
LEMMA SendStep ==
  ASSUME DriverInv, Prompt,
         \/ Send \/ StartCad \/ ChannelClear \/ RetryCad \/ GiveUp \/ Sleep
         \/ \E p \in Packets : CallSend(p)
         \/ \E t \in CadTimeouts : SetCADTimeout(t)
  PROVE  DriverInv'
<1> USE DEF DriverInv, chipVars, rxVars, cadVars, callVars
<1>1. CASE Send \/ ChannelClear
  <2>1. StartTx /\ ~Line
    BY <1>1 DEF Send, ChannelClear
  <2>2. toSend \in Packets \union {None}
    BY DEF TypeOK
  <2>3. TypeOK'
    BY <2>1, <2>2 DEF StartTx, SetOpMode, TypeOK, GotOK
  <2>4. "RxDone" \notin irq
    BY <2>1 DEF ChipInv, Line
  <2>5. ChipInv'
    <3>1. /\ mode' = "Tx" /\ opMode' = "tx" /\ dio' = "TxDone" /\ air' = None
          /\ UNCHANGED irq
      BY <2>1 DEF StartTx, SetOpMode
    <3> QED BY <2>4, <3>1 DEF ChipInv
  <2>6. ValidIsForUs' /\ UnreadInv'
    BY <2>1 DEF StartTx, SetOpMode, ValidIsForUs, UnreadInv
  <2> QED BY <2>3, <2>5, <2>6
<1>2. CASE StartCad \/ Sleep
  <2>1. TypeOK'
    BY <1>2 DEF StartCad, Sleep, SetOpMode, TypeOK, GotOK
  <2>2. ChipInv'
    <3>1. "RxDone" \notin irq
      BY <1>2 DEF StartCad, Sleep, ChipInv, Line
    <3>2. /\ \/ mode' = "Cad" /\ opMode' = "cad" /\ dio' = "CadDone"
             \/ mode' = "Sleep" /\ opMode' = "sleep"
          /\ air' = None /\ UNCHANGED irq
      BY <1>2 DEF StartCad, Sleep, SetOpMode
    <3> QED BY <3>1, <3>2 DEF ChipInv
  <2>3. ValidIsForUs' /\ UnreadInv'
    BY <1>2 DEF StartCad, Sleep, SetOpMode, ValidIsForUs, UnreadInv
  <2> QED BY <2>1, <2>2, <2>3
<1>3. CASE RetryCad \/ GiveUp
  <2>1. TypeOK'
    BY <1>3 DEF RetryCad, GiveUp, TypeOK, GotOK
  <2>2. ChipInv' /\ ValidIsForUs' /\ UnreadInv'
    BY <1>3 DEF RetryCad, GiveUp, ChipInv, Line, ValidIsForUs, UnreadInv
  <2> QED BY <2>1, <2>2
<1>4. ASSUME NEW p \in Packets, CallSend(p) PROVE DriverInv'
  <2>1. TypeOK'
    BY <1>4 DEF CallSend, TypeOK, GotOK
  <2>2. ChipInv' /\ ValidIsForUs'
    BY <1>4 DEF CallSend, ChipInv, Line, ValidIsForUs
  <2>3. UnreadInv'
    BY <1>4 DEF CallSend, Free, UnreadInv
  <2> QED BY <2>1, <2>2, <2>3
<1>5. ASSUME NEW t \in CadTimeouts, SetCADTimeout(t) PROVE DriverInv'
  <2>1. TypeOK'
    BY <1>5, CallAssumption DEF SetCADTimeout, TypeOK, GotOK
  <2>2. ChipInv' /\ ValidIsForUs' /\ UnreadInv'
    BY <1>5 DEF SetCADTimeout, ChipInv, Line, ValidIsForUs, UnreadInv
  <2> QED BY <2>1, <2>2
<1> QED BY <1>1, <1>2, <1>3, <1>4, <1>5

\* The driver's invariant is inductive for a prompt program.
LEMMA DriverStep == DriverInv /\ Prompt /\ [Next]_vars => DriverInv'
<1> SUFFICES ASSUME DriverInv, Prompt, [Next]_vars PROVE DriverInv'
  OBVIOUS
<1>1. CASE Next
  <2>1. CASE Program
    BY <2>1, ReceiveStep, SendStep DEF Program, Proceed
  <2> QED BY <1>1, <2>1, ChipStep, InterruptStep DEF Next
<1>2. CASE UNCHANGED vars
  <2>1. TypeOK'
    BY <1>2 DEF DriverInv, vars, chipVars, rxVars, cadVars, callVars, TypeOK, GotOK
  <2>2. ChipInv' /\ ValidIsForUs' /\ UnreadInv'
    BY <1>2 DEF DriverInv, vars, chipVars, rxVars, cadVars, callVars, ChipInv, Line,
                ValidIsForUs, UnreadInv
  <2> QED BY <2>1, <2>2 DEF DriverInv
<1> QED BY <1>1, <1>2

-----------------------------------------------------------------------------
(* Safety                                                                  *)

\* The invariant holds in every behaviour of a driver whose program is prompt.
THEOREM Invariant ==
  ASSUME Prompt
  PROVE  Spec => []DriverInv
<1>1. DriverInv /\ [Next]_vars => DriverInv'
  BY DriverStep
<1> QED BY DriverInit, <1>1, PTL DEF Spec

\* The variables keep to their types: no length handed out wraps.
THEOREM TypeCorrect ==
  ASSUME Prompt
  PROVE  Spec => []TypeOK
  BY Invariant, PTL DEF DriverInv

\* A message that can be collected is intact, for this node, and longer than its
\* header.
THEOREM ValidIsForUsHolds ==
  ASSUME Prompt
  PROVE  Spec => []ValidIsForUs
  BY Invariant, PTL DEF DriverInv

\* _mode says what the chip does.
THEOREM ModeIsChipModeHolds ==
  ASSUME Prompt
  PROVE  Spec => []ModeIsChipMode
<1>1. DriverInv => ModeIsChipMode
  BY DEF DriverInv, TypeOK, ChipInv, ModeIsChipMode
<1> QED BY <1>1, Invariant, PTL

\* While send() looks for activity on the channel nothing is transmitted.
DetectingInv == pc = "detecting" => mode \in {"Cad", "Idle"}

\* Only the handler ends the look at the channel, and it leaves the driver idle.
LEMMA DetectingStep ==
  ASSUME DetectingInv, [Next]_vars
  PROVE  DetectingInv'
<1> USE DEF DetectingInv, callVars
<1>1. CASE Interrupt
  BY <1>1 DEF Interrupt, HandleRx, HandleTx, HandleCad, HandleNothing, SetModeIdle
<1>2. CASE Chip
  BY <1>2 DEF Chip, FrameStarts, FrameEnds, TxEnds, CadEnds
<1>3. CASE Program
  BY <1>3 DEF Program, Proceed, CallAvailable, CallRecv, Poll, Free, Answer, Copy,
              CopyNothing, ClearRxBuf, CallSend, Send, StartTx, StartCad, ChannelClear,
              RetryCad, GiveUp, Sleep, SetCADTimeout
<1>4. CASE UNCHANGED vars
  BY <1>4 DEF vars
<1> QED BY <1>1, <1>2, <1>3, <1>4 DEF Next

\* A packet on the air is left alone.
THEOREM AirUndisturbedHolds ==
  ASSUME Prompt
  PROVE  Spec => AirUndisturbed
<1>1. Init => DetectingInv
  BY DEF Init, DetectingInv
<1>2. DriverInv /\ DetectingInv /\ [Next]_vars => [opMode = "tx" => fifo' = fifo]_vars
  <2> SUFFICES ASSUME DriverInv, DetectingInv, Next, opMode = "tx" PROVE fifo' = fifo
    OBVIOUS
  <2>1. mode = "Tx" /\ air = None /\ pc # "detecting"
    BY DEF DriverInv, TypeOK, ChipInv, DetectingInv
  <2>2. CASE Chip
    BY <2>1, <2>2 DEF Chip, FrameStarts, FrameEnds, TxEnds, CadEnds
  <2>3. CASE Interrupt
    BY <2>3 DEF Interrupt
  <2>4. CASE Program
    BY <2>1, <2>4
    DEF Program, Proceed, CallAvailable, CallRecv, Poll, Answer, Copy, CopyNothing,
        ClearRxBuf, CallSend, Send, StartCad, ChannelClear, RetryCad, GiveUp, Sleep,
        SetCADTimeout, chipVars
  <2> QED BY <2>2, <2>3, <2>4 DEF Next
<1> QED BY <1>1, <1>2, DetectingStep, Invariant, PTL DEF Spec, AirUndisturbed

-----------------------------------------------------------------------------
(* The driver as a mailbox                                                 *)

\* The box the refinement shows.
Shown == IF rxBufValid /\ pc # "clearing" THEN Content(buf) ELSE None

\* What the handler accepts, and nothing else, is put into the box.
LEMMA InterruptPuts ==
  ASSUME DriverInv, Prompt, Interrupt
  PROVE  \/ UNCHANGED <<Shown, got>>
         \/ \E f \in Frames : ForUs(f) /\ Box!Put(Content(f))
<1> USE DEF DriverInv
<1>1. UNCHANGED <<pc, got>>
  BY DEF Interrupt, callVars
<1>2. CASE HandleRx /\ rxBufValid'
  <2>1. ~rxBufValid /\ fifo \in Frames /\ ForUs(fifo) /\ buf' = fifo
    BY <1>2, HandleRxStep DEF Interrupt, HandleRx
  <2>2. pc # "clearing"
    BY <2>1 DEF UnreadInv
  <2>3. Shown = None /\ Shown' = Content(fifo)
    BY <1>1, <1>2, <2>1, <2>2 DEF Shown, Content
  <2>4. Box!Put(Content(fifo))
    BY <1>1, <2>3 DEF Box!Put, Shown
  <2> QED BY <2>1, <2>4
<1>3. CASE HandleRx /\ ~rxBufValid'
  <2>1. ~rxBufValid
    BY <1>3, HandleRxStep DEF Interrupt
  <2> QED BY <1>1, <1>3, <2>1 DEF Shown
<1>4. CASE UNCHANGED rxVars
  BY <1>1, <1>4 DEF rxVars, Shown, Content
<1> QED BY <1>2, <1>3, <1>4
  DEF Interrupt, HandleTx, HandleCad, HandleNothing

\* The atomic copy takes the message out of the box; it is the one that was there.
LEMMA CopyTakes ==
  ASSUME DriverInv, Copy
  PROVE  Box!Take
<1>1. Shown = Content(buf) /\ Shown' = None
  BY DEF Copy, Shown
<1>2. got' = Content(buf) /\ Content(buf) # None
  BY CopyContent DEF Copy, DriverInv
<1> QED BY <1>1, <1>2 DEF Box!Take, Shown

\* Every step of the driver is one of the mailbox, or none.
THEOREM MailboxStep ==
  ASSUME Prompt
  PROVE  DriverInv /\ [Next]_vars => [Box!Next]_Box!vars
<1> SUFFICES ASSUME DriverInv, [Next]_vars
             PROVE  Box!Next \/ UNCHANGED <<Shown, got>>
  BY DEF Box!vars, Shown
<1>1. CASE Interrupt
  BY <1>1, InterruptPuts DEF Box!Next
<1>2. CASE Copy
  BY <1>2, CopyTakes DEF Box!Next
<1>3. CASE ClearRxBuf
  BY <1>3 DEF ClearRxBuf, Shown
<1>4. CASE UNCHANGED <<buf, rxBufValid, got>> /\ (pc' = "clearing" <=> pc = "clearing")
  BY <1>4 DEF Shown, Content
<1>5. CASE Chip \/ (Program /\ ~Copy /\ ~ClearRxBuf) \/ UNCHANGED vars
  <2>1. UNCHANGED <<buf, rxBufValid, got>> /\ (pc' = "clearing" <=> pc = "clearing")
    BY <1>5
    DEF Chip, Program, Proceed, FrameStarts, FrameEnds, TxEnds, CadEnds, CallAvailable,
        CallRecv, Poll, Free, Answer, CopyNothing, CallSend, Send, StartTx, StartCad,
        ChannelClear, RetryCad, GiveUp, Sleep, SetCADTimeout, vars, rxVars, callVars
  <2> QED BY <2>1, <1>4
<1> QED BY <1>1, <1>2, <1>3, <1>5 DEF Next

\* No message is lost, changed or handed out twice between the interrupt that accepts
\* it and the recv that returns it.
THEOREM DeliversAsPromisedHolds ==
  ASSUME Prompt
  PROVE  Spec => DeliversAsPromised
<1>1. Init => Box!Init
  BY DEF Init, Box!Init
<1> QED BY <1>1, Invariant, MailboxStep, PTL DEF Spec, DeliversAsPromised, Box!Spec
=============================================================================
