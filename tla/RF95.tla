-------------------------------- MODULE RF95 --------------------------------
(***************************************************************************)
(* The LoRa driver, RH_RF95.cpp with the parts of RHGenericDriver.cpp it   *)
(* uses: the chip, the interrupt handler, and a program that calls         *)
(* available(), recv(), send() and sleep() in any order.                   *)
(*                                                                         *)
(* An action is a stretch of a call that the interrupt can come before or  *)
(* after with different results.  The interrupt preempts the program: with *)
(* the line up only Interrupt is enabled.  A frame takes longer than a     *)
(* call: none starts while the program is inside one (Busy).  recv is      *)
(* always given a buffer.                                                  *)
(*                                                                         *)
(* Operators whose name ends in _ are broken variants of the definition    *)
(* that follows them, used by nothing.                                     *)
(***************************************************************************)
EXTENDS Integers

CONSTANTS
  Frames,         \* frames on the air: [msg, len, addressed, intact]
  Packets,        \* what the program sends
  BufSize,        \* RH_RF95_MAX_PAYLOAD_LEN
  Space,          \* *len as the program passes it to recv
  CadTimeouts,    \* what the program gives setCADTimeout
  Prompt,         \* the program calls recv as soon as available() returns true
  None

HeaderLen == 4

ASSUME FrameAssumption ==
  /\ BufSize \in HeaderLen .. 255
  /\ \A f \in Frames : /\ f.len \in 0 .. BufSize
                       /\ f.addressed \in BOOLEAN /\ f.intact \in BOOLEAN
  /\ None \notin Frames \union Packets
  /\ \A f \in Frames : \A n \in 0 .. 255 : None # [msg |-> f.msg, len |-> n]
ASSUME CallAssumption ==
  Space \in 0 .. 255 /\ CadTimeouts \subseteq Nat /\ Prompt \in BOOLEAN

VARIABLES
  opMode,         \* register OP_MODE
  dio,            \* register DIO_MAPPING1: the flag that drives the line
  irq,            \* register IRQ_FLAGS
  fifo,           \* the chip's FIFO
  air,            \* the frame the chip is receiving
  mode,           \* _mode
  buf,            \* _buf, the frame copied last
  bufLen,         \* _bufLen
  rxBufValid,     \* _rxBufValid
  cad,            \* _cad
  cadTimeout,     \* _cad_timeout: 0 switches channel activity detection off
  pc,             \* where the program is in its call
  toSend,         \* the argument of send()
  got             \* what recv returned last: [msg, len]

chipVars == <<opMode, dio, irq, fifo, air>>
rxVars == <<buf, bufLen, rxBufValid>>
callVars == <<pc, toSend, got>>
cadVars == <<cad, cadTimeout>>
vars == <<chipVars, mode, rxVars, cadVars, callVars>>

-----------------------------------------------------------------------------
(* The chip                                                                *)

\* Pin DIO0, which interrupts the processor.
Line == dio \in irq

\* The program is in a stretch of code much shorter than a frame.
Busy == pc # "app" /\ (pc = "offered" => Prompt)

\* Writing OP_MODE: leaving receive mode gives up the frame on its way in.
SetOpMode(m) == opMode' = m /\ air' = IF m = "rxcontinuous" THEN air ELSE None

FrameStarts(f) ==
  /\ opMode = "rxcontinuous" /\ air = None
  /\ ~Line /\ ~Busy
  /\ air' = f
  /\ UNCHANGED <<opMode, dio, irq, fifo, mode, rxVars, cadVars, callVars>>

FrameEnds ==
  /\ air # None /\ ~Line
  /\ fifo' = air
  /\ air' = None
  /\ irq' = irq \union {"RxDone"} \union IF air.intact THEN {} ELSE {"CrcError"}
  /\ UNCHANGED <<opMode, dio, mode, rxVars, cadVars, callVars>>

TxEnds ==
  /\ opMode = "tx" /\ ~Line
  /\ irq' = irq \union {"TxDone"}
  /\ SetOpMode("stdby")
  /\ UNCHANGED <<dio, fifo, mode, rxVars, cadVars, callVars>>

CadEnds ==
  /\ opMode = "cad" /\ ~Line
  /\ \E detected \in SUBSET {"CadDetected"} : irq' = irq \union {"CadDone"} \union detected
  /\ SetOpMode("stdby")
  /\ UNCHANGED <<dio, fifo, mode, rxVars, cadVars, callVars>>

-----------------------------------------------------------------------------
(* The interrupt handler                                                   *)

\* The mode is put back without a word to the chip.
SetModeIdleQuietly_ ==
  mode' = "Idle" /\ UNCHANGED <<opMode, air>>

SetModeIdle ==
  IF mode = "Idle" THEN UNCHANGED <<mode, opMode, air>>
  ELSE mode' = "Idle" /\ SetOpMode("stdby")

\* The header's length is not looked at.
ValidatesShort_(f, valid) == valid \/ f.addressed

\* validateRxBuf sets the flag or leaves it as it was.
Validates(f, valid) == valid \/ (f.len >= HeaderLen /\ f.addressed)

\* The receiver stays on with a message in the buffer.
HandleRxStaysOn_ ==
  /\ mode = "Rx" /\ "CrcError" \notin irq /\ "RxDone" \in irq
  /\ buf' = fifo
  /\ bufLen' = fifo.len
  /\ rxBufValid' = Validates(fifo, rxBufValid)
  /\ UNCHANGED <<mode, opMode, air, cadVars>>

HandleRx ==
  /\ mode = "Rx" /\ "CrcError" \notin irq /\ "RxDone" \in irq
  /\ buf' = fifo
  /\ bufLen' = fifo.len
  /\ rxBufValid' = Validates(fifo, rxBufValid)
  /\ IF rxBufValid' THEN SetModeIdle ELSE UNCHANGED <<mode, opMode, air>>
  /\ UNCHANGED cadVars

HandleTx ==
  /\ mode = "Tx" /\ "TxDone" \in irq
  /\ SetModeIdle
  /\ UNCHANGED <<rxVars, cadVars>>

HandleCad ==
  /\ mode = "Cad" /\ "CadDone" \in irq
  /\ cad' = ("CadDetected" \in irq)
  /\ SetModeIdle
  /\ UNCHANGED <<rxVars, cadTimeout>>

\* A CRC error only counts up _rxBad; flags that do not go with the mode are
\* cleared like the others.
HandleNothing ==
  /\ ~(mode = "Rx" /\ "CrcError" \notin irq /\ "RxDone" \in irq)
  /\ ~(mode = "Tx" /\ "TxDone" \in irq)
  /\ ~(mode = "Cad" /\ "CadDone" \in irq)
  /\ UNCHANGED <<mode, opMode, air, rxVars, cadVars>>

Interrupt ==
  /\ Line
  /\ HandleRx \/ HandleTx \/ HandleCad \/ HandleNothing
  /\ irq' = {}
  /\ UNCHANGED <<dio, fifo, callVars>>

-----------------------------------------------------------------------------
(* available() and recv()                                                  *)

SetModeRx ==
  IF mode = "Rx" THEN UNCHANGED <<mode, opMode, dio, air>>
  ELSE mode' = "Rx" /\ SetOpMode("rxcontinuous") /\ dio' = "RxDone"

\* The program may call anything between two calls.
Free == pc = "app" \/ (pc = "offered" /\ ~Prompt)

\* A call of available(), or the one at the beginning of recv(), whose answer
\* is read at the given label.
Poll(from, label) ==
  /\ from /\ ~Line
  /\ IF mode = "Tx" THEN pc' = "app" /\ UNCHANGED <<mode, opMode, dio, air>>
     ELSE pc' = label /\ SetModeRx
  /\ UNCHANGED <<irq, fifo, rxVars, cadVars, toSend, got>>

CallAvailable == Poll(Free, "polled")
CallRecv == Poll(Free \/ pc = "offered", "receiving")

\* return _rxBufValid;
Answer ==
  /\ pc = "polled" /\ ~Line
  /\ pc' = IF rxBufValid THEN "offered" ELSE "app"
  /\ UNCHANGED <<chipVars, mode, rxVars, cadVars, toSend, got>>

\* The length handed out: an int subtraction assigned to a byte.
Length == IF Space > bufLen - HeaderLen THEN (bufLen - HeaderLen) % 256 ELSE Space

\* The headers are counted as part of the message.
CopyHeaders_ ==
  /\ pc = "receiving" /\ ~Line
  /\ rxBufValid
  /\ got' = [msg |-> buf.msg, len |-> IF Space > bufLen THEN bufLen ELSE Space]
  /\ pc' = "clearing"
  /\ UNCHANGED <<chipVars, mode, rxVars, cadVars, toSend>>

\* The atomic block of recv.
Copy ==
  /\ pc = "receiving" /\ ~Line
  /\ rxBufValid
  /\ got' = [msg |-> buf.msg, len |-> Length]
  /\ pc' = "clearing"
  /\ UNCHANGED <<chipVars, mode, rxVars, cadVars, toSend>>

CopyNothing ==
  /\ pc = "receiving" /\ ~Line
  /\ ~rxBufValid
  /\ pc' = "app"
  /\ UNCHANGED <<chipVars, mode, rxVars, cadVars, toSend, got>>

\* Only the length is cleared.
ClearRxBufHalf_ ==
  /\ pc = "clearing" /\ ~Line
  /\ bufLen' = 0
  /\ pc' = "app"
  /\ UNCHANGED <<chipVars, mode, buf, rxBufValid, cadVars, toSend, got>>

ClearRxBuf ==
  /\ pc = "clearing" /\ ~Line
  /\ rxBufValid' = FALSE
  /\ bufLen' = 0
  /\ pc' = "app"
  /\ UNCHANGED <<chipVars, mode, buf, cadVars, toSend, got>>

-----------------------------------------------------------------------------
(* send() and sleep()                                                      *)

\* A packet longer than RH_RF95_MAX_MESSAGE_LEN is refused at once: nothing changes.
CallSend(p) ==
  /\ Free /\ ~Line
  /\ toSend' = p
  /\ pc' = "sending"
  /\ UNCHANGED <<chipVars, mode, rxVars, cadVars, got>>

\* DIO0 still stands for RxDone.
StartTxUnmapped_ ==
  /\ fifo' = toSend
  /\ mode' = "Tx" /\ SetOpMode("tx")
  /\ toSend' = None
  /\ pc' = "app"
  /\ UNCHANGED <<dio, irq, rxVars, cadVars, got>>

\* The chip is put into transmit mode behind _mode's back.
StartTxUnnoted_ ==
  /\ fifo' = toSend
  /\ SetOpMode("tx") /\ dio' = "TxDone" /\ UNCHANGED mode
  /\ toSend' = None
  /\ pc' = "app"
  /\ UNCHANGED <<irq, rxVars, cadVars, got>>

\* Fill the FIFO, setModeTx, and back to the program.
StartTx ==
  /\ fifo' = toSend
  /\ mode' = "Tx" /\ SetOpMode("tx") /\ dio' = "TxDone"
  /\ toSend' = None
  /\ pc' = "app"
  /\ UNCHANGED <<irq, rxVars, cadVars, got>>

\* Once waitPacketSent returns, without CAD.
Send ==
  /\ pc = "sending" /\ ~Line
  /\ mode # "Tx"
  /\ cadTimeout = 0
  /\ StartTx

\* setModeIdle, then isChannelActive puts the chip into CAD mode ...
StartCad ==
  /\ pc = "sending" /\ ~Line
  /\ mode # "Tx"
  /\ cadTimeout > 0
  /\ mode' = "Cad" /\ SetOpMode("cad") /\ dio' = "CadDone"
  /\ pc' = "detecting"
  /\ UNCHANGED <<irq, fifo, rxVars, cadVars, toSend, got>>

\* ... and waits for the handler to end it.
ChannelClear ==
  /\ pc = "detecting" /\ mode # "Cad" /\ ~Line
  /\ ~cad
  /\ StartTx

\* The channel is busy: look again after a delay ...
RetryCad ==
  /\ pc = "detecting" /\ mode # "Cad" /\ ~Line
  /\ cad
  /\ pc' = "sending"
  /\ UNCHANGED <<chipVars, mode, rxVars, cadVars, toSend, got>>

\* ... or, after _cad_timeout, return false.
GiveUp ==
  /\ pc = "detecting" /\ mode # "Cad" /\ ~Line
  /\ cad
  /\ pc' = "app"
  /\ toSend' = None
  /\ UNCHANGED <<chipVars, mode, rxVars, cadVars, got>>

\* sleep(): a transmission on the air is cut off, and no interrupt will tell of it.
Sleep ==
  /\ Free /\ ~Line
  /\ mode # "Sleep"
  /\ mode' = "Sleep" /\ SetOpMode("sleep")
  /\ UNCHANGED <<dio, irq, fifo, rxVars, cadVars, callVars>>

SetCADTimeout(t) ==
  /\ Free /\ ~Line
  /\ cadTimeout' = t
  /\ UNCHANGED <<chipVars, mode, rxVars, cad, callVars>>

-----------------------------------------------------------------------------
\* The state init() leaves behind.
Init ==
  /\ opMode = "stdby" /\ dio = "RxDone" /\ irq = {}
  /\ fifo = None /\ air = None
  /\ mode = "Idle"
  /\ buf = None /\ bufLen = 0 /\ rxBufValid = FALSE
  /\ cad = FALSE /\ cadTimeout = 0
  /\ pc = "app" /\ toSend = None /\ got = None

Chip == FrameEnds \/ TxEnds \/ CadEnds \/ \E f \in Frames : FrameStarts(f)

\* What a call does once it has been made.
Proceed ==
  \/ Answer \/ Copy \/ CopyNothing \/ ClearRxBuf
  \/ Send \/ StartCad \/ ChannelClear \/ RetryCad \/ GiveUp

Program ==
  \/ CallAvailable \/ CallRecv \/ Sleep
  \/ \E p \in Packets : CallSend(p)
  \/ \E t \in CadTimeouts : SetCADTimeout(t)
  \/ Proceed

Next == Chip \/ Interrupt \/ Program

Spec == Init /\ [][Next]_vars

\* Transmissions and channel detections end, interrupts are served, calls go on,
\* and a channel that stays busy is given up when the time-out is over.  Nothing
\* is assumed of when the program makes its calls.
Fairness ==
  /\ WF_vars(TxEnds) /\ WF_vars(CadEnds) /\ WF_vars(Interrupt) /\ WF_vars(Proceed)
  /\ SF_vars(GiveUp)

FairSpec == Spec /\ Fairness
-----------------------------------------------------------------------------
(* Properties                                                              *)

\* What recv has returned: no length has wrapped.
GotOK ==
  got = None \/ got \in [msg : {f.msg : f \in Frames}, len : 0 .. BufSize - HeaderLen]

\* Every variable keeps to the values its declaration is meant for.
TypeOK ==
  /\ opMode \in {"stdby", "rxcontinuous", "tx", "cad", "sleep"}
  /\ dio \in {"RxDone", "TxDone", "CadDone"}
  /\ irq \subseteq {"RxDone", "TxDone", "CadDone", "CadDetected", "CrcError"}
  /\ fifo \in Frames \union Packets \union {None}
  /\ air \in Frames \union {None}
  /\ mode \in {"Idle", "Rx", "Tx", "Cad", "Sleep"}
  /\ buf \in Frames \union {None}
  /\ bufLen \in 0 .. BufSize
  /\ rxBufValid \in BOOLEAN
  /\ cad \in BOOLEAN /\ cadTimeout \in Nat
  /\ pc \in {"app", "polled", "offered", "receiving", "clearing", "sending",
             "detecting"}
  /\ toSend \in Packets \union {None}
  /\ GotOK

\* Frames the handler has to accept.
ForUs(f) == f.intact /\ f.addressed /\ f.len >= HeaderLen

\* A message that can be collected is addressed to this node, intact, and at
\* least as long as its header: no length handed out by recv wraps.
ValidIsForUs ==
  rxBufValid => buf \in Frames /\ ForUs(buf) /\ bufLen = buf.len

\* Between interrupts _mode says what the chip does: the driver is never deaf in
\* a receive mode the chip has left, and never waits for a transmission that is
\* not on the air.
ModeIsChipMode ==
  ~Line => opMode = CASE mode = "Idle" -> "stdby" [] mode = "Rx" -> "rxcontinuous"
                      [] mode = "Tx" -> "tx" [] mode = "Cad" -> "cad"
                      [] mode = "Sleep" -> "sleep"

\* A packet on the air is left alone: neither a reception nor the next send()
\* touches the FIFO before the transmission is over, or sleep() has cut it off.
AirUndisturbed == [][opMode = "tx" => fifo' = fifo]_vars

\* What recv should hand out of frame f: as much of the message as there is room
\* for.
Content(f) ==
  [msg |-> f.msg,
   len |-> IF Space < f.len - HeaderLen THEN Space ELSE f.len - HeaderLen]

\* Seen as a mailbox, a message is collected once it is copied.
Box == INSTANCE Mailbox WITH
  Messages <- {Content(f) : f \in {g \in Frames : ForUs(g)}}, Nothing <- None,
  box <- IF rxBufValid /\ pc # "clearing" THEN Content(buf) ELSE None

\* No message is lost, changed or handed out twice between the interrupt that
\* accepts it and the recv that returns it.
DeliversAsPromised == Box!Spec

\* A program that calls recv again and again, not only during transmissions, gets
\* every message: a message is never stuck behind the flags.
EachCollected ==
  []<><<CallRecv /\ mode # "Tx">>_vars => (rxBufValid ~> ~rxBufValid)

\* send() comes back: the transmission before it ends, so does CAD.
SendReturns == pc = "sending" ~> pc = "app"
=============================================================================
