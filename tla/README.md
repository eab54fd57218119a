# NUSTARS Foundation 2018/19: verification of the flight and ground software

The repository holds the software of a rocket's avionics: a flight computer
(Feather M0) that samples sensors, stores packets of 70 bytes in a flash file,
sends them by LoRa radio and drives an air brake servo, and a ground receiver that
passes the packets on to a computer. This directory holds TLA+ models of it,
TLC configurations that check them on small instances, and TLAPS proofs.

    tlc -workers 2 -config AvionicsTasks.cfg MCAvionics        # any run below
    tlapm DownlinkProofs.tla                                   # any proof module

## 1. Inventory

Paths are relative to `src/`.

### Flight computer, `avionics/avionics.ino`

Three cooperative tasks on one processor. `setup()` starts two of them with
`Scheduler.startLoop`; the third is the sketch's `loop()`. A task keeps the
processor until it calls `yield()` or `delay()`.

| task | does | yields at |
|---|---|---|
| `loop()` | reads a GPS character and the sensors; unless `radioLock` is up builds `packetBuffer`, runs the deployment code, copies the packet to `writeBuffer`, moves `wbPos`, raises `writeSignal` | every `delay(20)` of the servo sweep, `delay(5)`, `yield()` |
| `writeFlash()` | when `writeSignal` is up: copies `writeBuffer` out, resets `wbPos` and the signal, appends the copy to the file | entry, possibly while the library waits for the chip, `delay(10)`, `yield()` |
| `writeRadio()` | takes `radioLock`, copies the packet, sends it, releases the lock | inside `send()` while the packet before is on the air, `delay(10)`, `yield()` |

Shared state: `packetBuffer`, `writeBuffer`, `wbPos`, `writeSignal`, `radioLock`,
`deployed`, `lastRaven`, the servo position, and the driver's `_mode`, which the
radio interrupt changes.

Hard: no task is written with the others' yields in mind. The sweep yields 50 times
with the packet half built; `writeFlash` and `loop` share a position and a flag that
are changed in several assignments; `writeRadio` would spin for ever without a yield
if it ever started with the lock up; the radio is busy for a time that only an
interrupt ends.

Correct means: packets reach the file in whole batches, in order, none missing,
repeated or mixed within a batch; nothing is stored outside `writeBuffer`; what goes
on the air is the newest packet and is not overwritten there; every altimeter signal
is answered, once, and the servo ends where it should; nobody waits for ever.

### Flash files, `setup()` lines 159-199, `writeFlash()`, `matlab_parser/parse.m`

State: the files on the chip, the name `fn` chosen for the flight. At boot `setup()`
tries `data0.hex`, `data1.hex`, ... until a name is free. Hard: power goes at any
moment and comes back; a batch is written with bytes that belong to no packet; the
chip fills up and nobody looks; `parse.m` takes `NUx` for the beginning of a packet
wherever it finds it. Correct means: a flight never touches the file of
another, and every packet stored is read back whole and in order.

### Radio driver, `av_libs/RadioHead/RH_RF95.cpp`, `RHGenericDriver.cpp`, `avionics/radio.cpp`

State: `_mode`, `_buf`, `_bufLen`, `_rxBufValid`, the chip's FIFO and registers.
`send()` waits for the packet before it and for a free channel, fills the FIFO and
starts the transmitter; `handleInterrupt` ends a transmission or a channel detection
or receives a message; `available()`/`recv()` hand a message out. Hard: interrupt and
caller share `_buf`, `_bufLen` and `_rxBufValid`. Correct means: no message in the air
or not yet read is overwritten or has its length changed behind the reader's back.

### GPS, `av_libs/Adafruit_GPS_Library/Adafruit_GPS.cpp`

State: two line buffers, `lineidx`, `currentline`, `recvdflag`, the values parsed
last. Each pass of `loop()` reads one character; the pass that ends a line parses it.
Hard: passes are at least 5 ms apart, so the serial port overflows and characters are
missing anywhere; lines can be longer than a buffer; the checksum is looked for in a
fixed place. Correct means: no store behind a buffer, a parsed line is a line
received, no wrong position gets into a packet.

### Ground receiver, `grounduino/grounduino.ino`

State: `queue`, a ring of 256 bytes indexed by the bytes `head` and `tail`, and its
fill `sz`. `loop()` pushes each message, and once two packets' worth of bytes are
there searches for the tag `NUx `, checks the XOR of the payload and writes tag and
payload to the serial line. Hard: the search runs without looking at `sz`, it
consumes bytes it then fails to match, and `N` may occur in a payload. Correct means:
intact packets are handed on in order and once, torn ones are not, the receiver stays
in step with packet boundaries and its search always ends.

### Ground computer, `ground_processor/src`

State: a `ListBuffer` that `SerialReader`'s thread appends to and `Main` reads. Hard:
no synchronisation. Correct means: what `Main` prints is what the receiver wrote.

### Acknowledged datagrams, `av_libs/RadioHead/RHReliableDatagram.cpp`, `RHDatagram.cpp`

State of a node: `_lastSequenceNumber`, `_seenIds`. `sendtoWait()` transmits until its
acknowledgement comes or the retries are used up; `recvfromAck()` acknowledges what
comes and returns what is new. No sketch uses this layer yet (the rocket only ever sends
and never hears whether a packet arrived); it is the one above the driver in the library
the project carries, and its promise is what a command link to the rocket would rest on.
Hard: both sides of the air lose frames, a call that waits for an acknowledgement
throws other messages away, acknowledgements come late, and a byte of sequence number is
all that tells a repeated message from a new one. Correct means: what is reported as
acknowledged was received, nothing is returned twice or out of order, every call ends.

### The other parts

| part | why not modelled |
|---|---|
| Sensors (`avionics/sensors.cpp`) | straight-line I/O and floating point, no state, no yield |
| Offsets of the fields in `pack()` and `parse.m` | two lists of numbers; reading them side by side shows that `parse.m:41` takes the float at offset 64 for an integer |
| Interrupt-driven servo (`interruptServo`) | a separate sketch of three assignments |
| Plotting and analysis scripts, Octave data | sequential, read a file once |
| Vendored libraries the sketches do not link (RadioHead's routing and other drivers, examples), board files (`eagle`) | not part of the program |
| `boardcode.ino`, `main_code.old` | pin test, retired code |

### How the parts interact

`loop()` writes `packetBuffer`; `writeRadio` copies it under `radioLock` and gives it
to the driver; the driver's transmission ends with an interrupt. `loop()` fills
`writeBuffer` and raises `writeSignal`; `writeFlash` empties it into the file. The
air carries packets (and other senders' messages) to the ground receiver, whose
serial output the Scala and Python programs read, and whose file, or the one on the
flash chip, `parse.m` reads.

## 2. Modules

| module | models | |
|---|---|---|
| `Avionics` | the three tasks, their shared state, the scheduler | section 3 |
| `Recorder` | what recording promises, without buffers and tasks | refined by `Avionics` |
| `FlightLog` | the files on the chip, boots and power loss, what `parse.m` reads | section 4 |
| `RF95` | the radio driver, its interrupt handler and the chip | section 5 |
| `Mailbox` | what the receiving half of the driver promises | refined by `RF95` |
| `NmeaLines` | serial port, line buffers and parser of the GPS | section 6 |
| `Grounduino` | the ground receiver, byte by byte | section 7 |
| `Relay` | what the ground receiver promises | refined by `Grounduino` |
| `Downlink` | rocket, `Mailbox`, `Relay` and the two threads of the ground computer, composed | section 8 |
| `ReliableDatagram` | acknowledged datagrams between nodes | section 9 |
| `Datagrams` | what acknowledged datagrams promise | refined by `ReliableDatagram` |
| `MCAvionics`, `MCGrounduino`, `MCRF95`, `MCNmeaLines`, `MCReliableDatagram` | values of the constants for TLC | section 10 |
| `AvionicsProofs`, `AvionicsRefinement`, `FlightLogProofs`, `RF95Proofs`, `NmeaLinesProofs`, `GrounduinoProofs`, `DownlinkProofs`, `ReliableDatagramProofs` | theorems | section 11 |

The composition is by abstraction: `Downlink` takes the driver and the receiver as the
`Mailbox` and the `Relay` that `RF95` and `Grounduino` are shown to implement, and
`FlightLog` takes batches as the full, consecutive ones `Avionics` is shown to hand
over.

Definitions whose name ends in `_` are broken variants of the definition after them
and used by nothing: each is a bug that would be easy to make (a flag not reset, a
copy made too early), and put in the place of the right definition it makes TLC
report the property it is written for.

## 3. `Avionics`

One action is one slice of a task: all it does between two yields. That is sound
because the scheduler is cooperative; the only thing that happens inside a slice is
the radio interrupt, `TxDone`, which only changes the driver's mode, read once in a
slice.

| code (`avionics.ino`) | action |
|---|---|
| `loop()`, lock up (284-294, 411) | `LoopLocked` |
| `loop()`, no new signal or already deployed (294-411) | `BuildQuiet` |
| `loop()`, new signal, A pins only (374-379) | `BuildOnA` |
| `loop()`, new signal on a B pin, up to the first `delay(20)` (366-371) | `SweepStart` |
| `i++`, `servo.write`, `delay(20)` | `SweepStep` |
| end of the sweep to `delay(5)` (373-411) | `SweepEnd` |
| `writeFlash` to its entry `yield()` / nothing to write | `FlashEntry` / `FlashIdle` |
| taking the buffer over (419-423), library yields / does not yield while writing | `SnapshotYield` / `SnapshotBlock` |
| end of the write, or `open()` failed (425-440) | `Stored` / `OpenFailed` |
| `writeRadio`, radio idle (449-465) | `RadioSendNow` |
| `writeRadio`, packet before still on the air: lock and copy / wait / send | `RadioLock` / `RadioWait` / `RadioSend` |
| the last `yield()` of each function | `Resume` |
| `yield()` inside a `delay()` that is not over | `Pass` |
| `handleInterrupt` on TX_DONE | `TxDone` |

What is abstracted:

- **Packet contents** become the sample's stamp (what `millis()` puts in it). A packet
  has a body (fields packed before the deployment code) and a tail (raven byte and
  checksum, packed after it), because only there can the two differ: `Whole` and torn
  packets. Stamps are any set with a successor function; the model checker counts
  modulo 2 or 3.
- **`wbPos`** counts packets; in the code it is always a multiple of `PACKET_SIZE`.
  `WRITE_BUFFER_SIZE - wbPos <= PACKET_SIZE` becomes `Slots - wbPos <= 1`. The byte
  that `cpyLen = wbPos + 1` adds to each batch, and memory behind the end of the
  buffer, are not followed.
- **Time.** `wait[t]` is what is left of the task's delay. Each slice takes any whole
  number of milliseconds up to `SliceMs`, and every other task's delay gets shorter by
  it. The constants are scaled: 1:2:2:2, 1:1:2:2 or 1:1:2:1 for the code's 5:10:10:20,
  since only the order in which delays end matters. Safety theorems hold for every value
  of them, that of `BacklogBounded` for those that fit (`DelaysFit`, section 10).
- **Scheduler.** The library is not in the repository. `yield()` hands the processor
  to the next task of a ring; both ring orders and any first task are allowed.
- **Flash write.** The library is not in the repository either, so both outcomes are
  kept: it yields during the write, or it keeps the processor. A write takes any time
  up to `WriteMs`.
- **Radio.** `setModeTx` and the interrupt are the two ends of a transmission of any
  length; `RF95` (section 5) has what is between. CAD is off (its time-out is 0).

### Properties

| property | what would violate it |
|---|---|
| `BufferInv` (`SignalMeansFull`, `NoGapInBuffer`) | a signal a packet late: a store behind the buffer; a flag left up: a half-full batch is handed over; a packet lost, stored twice or left from the batch before; a store made before the packet is complete |
| `StoredConsecutive` | `loop()` refilling the buffer that is being written |
| `BacklogBounded` | `writeFlash` coming round too rarely: `wbPos` runs further past the buffer |
| `RecordsAsPromised`, `RecordsForever` | any difference from the abstract `Recorder` |
| `LockInv` (`LockMeansSending`, `LockedCopyIsNewest`, `SweepHoldsSample`) | the lock left up: `writeRadio` returns without a yield and everything stops; a packet built under the lock |
| `SendsNewest` | a packet built while one waits to be sent, or the blank one sent when there is a packet: an old one goes on the air |
| `DownlinkHeals` | torn packets other than around the one sweep |
| `DeployInv` (`TornOnlyInSweep`, `NoMissedSignal`, `ServoFollowsDeployment`), `DeployOnce`, `SweepCompletes` | a signal lost, answered twice, or a sweep that stops half way |
| `SignalServed`, `KeepsBuilding` | a task starving another one |

### Fairness (`FairSpec`)

Weak fairness of the processor (some task always runs: the scheduler never sleeps), of
the clock (a processor that runs does not do so in no time for ever), and of `TxDone`
(a transmission ends; `waitPacketSent` has no time-out, so the code relies on it).
No fairness of single tasks is assumed: the ring provides it.

## 4. `FlightLog`

A packet in the file is four cells: its tag, two parts of its payload, its end. That is
enough to tell a record from a piece of one and from the bytes between batches. The buffers
and tasks behind a batch are those of `Avionics`.

`parse.m` matches the bytes N, U, x anywhere (lines 10-17). They may stand in the binary
payload of a packet (the low bytes of `millis()`, a float) or in memory that never was part
of one: such a place is a false tag. A packet whose number is in `Showing` has one in its
payload, in the place of the second part; several in one payload are taken for one.

| code | action |
|---|---|
| `setup()`: chip and file system (162-180) | `Mount`, or `Halt` in the `while (1)` of an error |
| `do { ... } while (fatfs.exists(fn))` (182-189), one pass | `Search` |
| `open(fn, FILE_WRITE)`, `close()` (191-199) | `Create` or `Halt` |
| `loop()` stores a packet, or drops it while the signal is up (399-403) | `Build` |
| `writeFlash()` copies `wbPos + 1` bytes (419-423) | `TakeOver` |
| `write()`, `close()` (430-432) / `open()` failed | `CloseFile` / `OpenFailed` |
| the switch; a file open at that moment keeps any part of what was written | `PowerOn`, `PowerOff` |
| `parse.m` 10-17, 20-46 | `Matches` (where a tag or false tag is, in order, numbered by `TagsUpTo`), `Entries` |

What the copy of `wbPos + 1` bytes adds to a batch (`Strays`) depends on how many packets
came late. With none it is a byte of a slot no packet is ever stored in, which is zero.
With one it is the whole slot and the byte behind the buffer. With two, as many as
`BacklogBounded` allows, it is 71 bytes behind the buffer, and with them a false tag or
not: what lies there depends on the build, and if it is `packetBuffer` or
`writeBufferCopy` there is a tag in it, or an old packet. That the same `memcpy` also
writes 71 bytes behind `writeBufferCopy` is not followed (finding 1).
A chip with no room takes the beginning of what it is given (`Fitting`).

An entry is the four cells from a match on: `parse.m` reads up to the raven byte, offset
68, and not the checksum. The loop leaves out the last match (`length(match) - 1`). Where an
entry would reach behind the end of the file `data(offset + ...)` is an error, the script
ends there, and what has been read is the entries before: matches rise, so none behind one
that does not fit does. How many bytes
a cell has is not followed: a false tag may stand at any offset of a payload, and how far
behind it 69 bytes reach is approximated by the cell.

| property | what would violate it |
|---|---|
| `OneFlightPerFile` | a name found free that is not: power lost between boots, flights without a batch |
| `PacketsReadWhole` | a batch cut short, by a wrong length, power loss or a full chip, followed by another one, whose tag is found and whose record is not whole; packets out of order |
| `KeptIsRead` | stray bytes, a false tag or a torn batch that hide a packet |

What `PacketsReadWhole` does *not* say is that every entry is a packet. An entry that
begins at a false tag is none, or an old packet once more, and `parse.m`, which does not
compare the checksum, cannot tell. It says that such entries come in addition and
damage nothing: what is read where a packet begins is that packet, and these are
in order. It holds because the loop leaves out the last match and only behind the last
tag can a packet be cut; a false tag behind that tag makes the last but one the torn
packet's, and then there are not enough bytes behind it. The price is the last packet
of every file, which is why `KeptIsRead` does not ask for it.

## 5. `RF95`

An action is a stretch of a call that the interrupt can come before or after with
different results; between them the handler runs whenever the line is up.

| code (`RH_RF95.cpp`) | action |
|---|---|
| `handleInterrupt` (121-162) | `Interrupt` = `HandleRx`, `HandleTx`, `HandleCad` or `HandleNothing` |
| `available()` up to its `return` (202-206); its result | `CallAvailable`; `Answer` |
| `recv()`: the call of `available()`; the atomic block; `clearRxBuf()` | `CallRecv`; `Copy`, `CopyNothing`; `ClearRxBuf` |
| `send()`: the call; after `waitPacketSent()`, CAD off | `CallSend`; `Send` |
| `waitCAD()`, `isChannelActive()` (403-417) | `StartCad`, `ChannelClear`, `RetryCad`, `GiveUp` |
| `sleep()`, `setCADTimeout()` | `Sleep`, `SetCADTimeout` |
| the chip: frames, end of transmission, of channel detection | `FrameStarts`, `FrameEnds`, `TxEnds`, `CadEnds` |

The program calls these in any order, `sleep()` also during a transmission, which it cuts
off. Two refusals are left out, as they change nothing: of `send()` for a message longer
than the FIFO, and of `recv()` without a buffer, which no sketch calls. What is abstracted: a message is a model value with a
length, addressed to this node or not, intact or not; registers that configure the
modem are left out. Two facts about time are used. The handler runs before the program
goes on. And a frame is on the air for 20 ms at least, longer than any stretch of the
driver's code, so none begins and ends inside one (`Busy`); one that is under way when
a call begins may end in it anywhere.

`Prompt` says that `recv` is called as soon as `available()` has returned true, which
`grounduino.ino:89-91` does. Without it the driver does lose messages: `available()`
switches the receiver on again while one waits in `_buf` (line 206), the next one is read
over it, and a frame shorter than its header then makes the length wrap (`GotOK`).

| property | what would violate it |
|---|---|
| `ValidIsForUs` | another node's frame, or a short one, under the flag of an uncollected message |
| `ModeIsChipMode` | `_mode` and the chip going different ways: a receiver that hears nothing, a `send()` that waits for ever |
| `DeliversAsPromised` | a message overwritten between `available()` and the copy, or thrown away by `clearRxBuf()` after it |
| `AirUndisturbed` | a transmission that `_mode` does not tell of, so that the next `send()` does not wait for its end and fills the FIFO under it |
| `SendReturns` | an interrupt mapped to the wrong event; a channel busy for ever |
| `EachCollected` | a flag left up, a message stuck behind it |

Fairness (`FairSpec`): transmissions and channel detections end, interrupts are served,
calls go on, all weak. Strong fairness of `GiveUp` stands for the time-out of
`waitCAD()`: whoever finds the channel busy again and again gives up at last. Nothing
is assumed of when the program makes its calls; `EachCollected` says itself that it
calls `recv` again and again, not during transmissions only.

## 6. `NmeaLines`

A character of the module goes into the serial port or is lost there (`Keep`, `Drop`);
a pass of `loop()` takes one, stores it (`Store`) or ends the line, switches buffers and
parses (`EndLine`, `Parsed`). Characters are their codes, so the checksum is the one of
the code, with its indices: from 2, because the line begins with the line end of the
line before, to the `*`, which must be four characters from the end.

Sentences are shortened to a letter, the status and a latitude of one digit; a line
buffer of 16 is to them what 120 is to the real ones: room for any sentence, not for
two (`LinesFit`). What is read behind a comma that is not there (`strchr` returned a null
pointer) is no digit and no status. A latitude
field that is empty leaves the latitude as it was (`LatitudeFrom`). Fields other than the latitude are converted alike.

| property | what would violate it |
|---|---|
| `TypeOK` | an index one too far: a store behind a line buffer |
| `LineIsWhatCame` | a line that ends in what an older, longer one left in the buffer; a line parsed while it is overwritten |
| `OneLossIsSafe` | a sentence that arrived whole not read, because of what was lost before it; a character lost where the checksum is not looked for |
| `Recovers` | a state, after whatever losses, in which no sentence is accepted any more |

`OneLossIsSafe` is sharp. A lost *line end* joins two sentences; the joined line is cut
at the end of the buffer, has no `*` in its place, is not checked, and the RMC fields
are read as GGA fields: the latitude is wrong until the next sentence. Two losses
elsewhere can do the same. Fairness: something always goes on, since losses and the
port are bounded, so both the module and `loop()` do.

## 7. `Grounduino`

A step is a message received and pushed, or one `popq()` of the search; the payload and
its checksum are one step (`Forward`), because nothing can come between. A byte is the
set of its bits, so the XOR of the payload is the set of bits set an odd number of
times. Each byte of the tag has the value the code compares. `head` and `tail` wrap at
`RingSize` (256 in the code, where the wrap is that of `uint8_t`).

The inputs are the rocket's packets, whole or torn (their checksum does not match), and
noise: messages of other senders on the band, at most `NoiseLimit` bytes of it in the
ring at a time. `held` is a history variable, the packets pushed and not yet dealt
with, which `InStep` and the refinement of `Relay` compare the bytes with.

`InStep` says that the payload about to be forwarded is that of the oldest packet held:
no `N` in a payload, and no noise, is ever taken for a tag. `NeverPopsEmpty` is the
precondition the comment on `popq()` states. That `pushq` never has to refuse a packet
(its result is ignored) is part of both `InStep` and `RelaysAsPromised`, the refinement.
`SecondFreesFirst` says that every search ends.

All of these hold while there is less than a packet of noise, none of it with an `N`.
The bound is sharp: with `PacketSize` bytes of noise in the ring the count of two
packets is reached with one packet there, and the search runs past the end of the ring.

## 8. `Downlink`

The composition: the rocket numbers its packets, whole or torn; one that reaches the
receiver's radio is put into the `Mailbox`, one that comes too early or is lost is not;
the `Relay` hears and deals; its bytes go through a serial port with bounded room to
the reader thread, which appends them to the list that `Main` looks at.

`buffer += x` is two writes (the list and the length that `ListBuffer` keeps), which
the other thread may see in either order: `LinkFirst` and `ThenCount`, or `CountFirst`
and `ThenLink`. `Check`, `Look`, `PrintHead` and `PrintText` are `Main`'s accesses. Other
effects of the missing synchronisation (a reference seen before what it refers to) are
assumed not to occur. `PrintText` takes what is in the list, not as many elements as the
length says: the project is built with Scala 2.12.7 (`ground_processor.iml`), whose
`ListBuffer` hands `toArray` on to the list it wraps. With Scala 2.13, which takes the
length for the size of the array, the text would end in a zero byte instead of being one
byte short.

| property | what would violate it |
|---|---|
| `TextIsPackets` | any loss, doubling, swap or torn packet on the way; the last packet may be cut and the text may be one byte short of the limit, since the length may be ahead |
| `FailsOnlyAtFirst` | an exception in `Main` after it has begun to print |
| `TextAppears` | a loop that misses the limit |

`FailsOnlyAtFirst` is as much as holds: `nonEmpty` may see the length of a list whose
first element it does not see, and `buffer.head` then ends `Main`, while the reader runs
on. Fairness: both threads are scheduled; nothing is assumed of rocket and receiver.

## 9. `ReliableDatagram`

Several nodes share the air. A frame that is sent comes into the boxes of any subset of
the nodes it is for (`OnAir`): the others have lost it, because of noise, because a frame
is in the box already, or because they were not receiving. The box is what `Mailbox`
promises of the driver for a program that collects at once, as both calls do.

| code (`RHReliableDatagram.cpp`) | action |
|---|---|
| `sendtoWait`: the call (47-51) | `SendtoWait` |
| one pass of its outer loop (52-61), a broadcast returns | `Transmit` |
| the retries are used up (104-109) | `GiveUp` |
| a frame read while waiting: the acknowledgement / anything else (78-103) | `HearAck` / `HearOther` |
| the waiting time is over (76) | `Timeout` |
| `recvfromAck`: an acknowledgement (122) | `DropAck` |
| a message: acknowledge it (125-130), then compare and return it (132-141) | `Acknowledge`, `Judge` |

`recvfromAck` is two actions, because sending the acknowledgement takes time in which the
sender may already go on. `recvfromAckTimeout` is a loop around it, and a program may call
it at any moment anyway. Frames carry the number of their message as history, which is
what the properties compare; the code sees only its remainder by `IdRange` (256).
`_retransmissions`, a statistic, is left out. `_seenIds` begins at 0, as it does for a
statically allocated manager; the constructor does not set it.

| property | what would violate it |
|---|---|
| `SuccessMeansReceived` | a late acknowledgement of an older message taken for this one's; one sent for a message that is then not returned |
| `DeliversAsPromised` | a message returned twice, after a newer one, or to a node it is not for |
| `SendEnds` | transmissions that are not counted, two nodes waiting for each other |

`DeliversAsPromised` is the refinement of `Datagrams`; a message counts as accepted when
`recvfromAck` takes it and is going to return it (`accepted`). Fairness: a node inside a
call goes on, and its timeout comes; nobody is assumed to listen.

All but `SendEnds` rest on no number being used twice. A message whose number equals the
last one its receiver has of the sender is acknowledged (line 129) and then dropped as a
repeat (line 132). Such numbers come up after 256 messages, when the sender is reset and
begins with 1 again, and as 0 with a receiver that has heard nothing yet.

## 10. Runs

| run | module, config | result | shows |
|---|---|---|---|
| `avionics_tasks` | `MCAvionics`, `AvionicsTasks.cfg` | passes, 3.5 million states | buffers, lock, radio and deployment with both kinds of signal, and refinement of `Recorder` |
| `avionics_liveness` | `MCAvionics`, `AvionicsLiveness.cfg` | passes, 250,000 states | liveness under `FairSpec`, fair refinement of `Recorder` |
| `avionics_ring_buffer` | `MCAvionics`, `AvionicsRingBuffer.cfg` | violated | `wbPos` leaves `writeBuffer` |
| `avionics_lock` | `MCAvionics`, `AvionicsLock.cfg` | violated | a packet is finished under `radioLock` |
| `avionics_retract` | `MCAvionics`, `AvionicsRetract.cfg` | violated | an A signal is latched and moves nothing |
| `ground_relay` | `MCGrounduino`, `GrounduinoRelay.cfg` | passes, 210,000 states | the receiver stays in step and refines `Relay` |
| `ground_foreign` | `MCGrounduino`, `GrounduinoForeign.cfg` | violated | another sender's `N` makes the search pop an empty ring |
| `rf95` | `MCRF95`, `RF95Prompt.cfg` | passes, 9,100 states | the driver under interrupts at every point, and refinement of `Mailbox` |
| `flight_log` | `FlightLog`, `FlightLog.cfg` | passes, 552,000 states | files over three flights with power loss at any step, late packets and false tags |
| `nmea_lines` | `MCNmeaLines`, `NmeaLines.cfg` | passes, 111,000 states | lines and latitudes with characters lost anywhere |
| `downlink` | `Downlink`, `Downlink.cfg` | passes, 101,000 states | from the rocket to the printed text |
| `datagrams` | `MCReliableDatagram`, `ReliableDatagram.cfg` | passes, 176,000 states | acknowledged datagrams over a lossy air, and refinement of `Datagrams` |

Bounds and why they are enough:

- `Slots = 3`: a batch of two packets and the slot that stays free, the smallest buffer
  with a first and a later packet in a batch; 28 packets (the code) repeat the middle.
- `StampCount` 3 (2): tells a packet from its neighbours; a lost, repeated or swapped
  packet breaks the sequence of stamps. With 3, a packet of the batch before that was
  left in a slot is told apart too.
- Sweep of 3 or 4 positions: a start, one or two steps between, an end; 50 (the code)
  repeat the step.
- `RavenA`, `RavenB` of one pin each: the code treats the pins of a kind alike. Where
  A signals do not matter to the question, `RavenA` is empty.
- `WriteMs = 1`, less than the time a batch takes to collect, as it is on the rocket (28
  packets, each at least 5 ms from the next). `BacklogBounded` rests on that: with
  `WriteMs = 4` a batch fills up during the write and waits for the rest of it. What it
  needs is `DelaysFit`: the poll of 10 ms is no longer than two of the delays of 5 ms,
  and a write and the poll after it take no longer than 28 of those, 141 ms with the
  millisecond that is counted twice. `MCAvionics` assumes it of its instances; of the
  theorems of section 11 only that about `BacklogBounded` does.
- `SliceMs = 1`: a slice takes no time or as long as the shortest delay.
- `avionics_liveness` uses the reverse ring order, the other runs of `Avionics` the one
  in which the tasks are started.
- `PacketSize = 7` (two bytes of payload), `RingSize = 22`: three packets and a byte,
  the code's 70 and 256 are three packets and 46 bytes; the ring wraps at every
  position since 7 and 22 have no common factor. `NoiseLimit = PacketSize - 1`: see
  section 7.
- `RF95`: two messages for this node (of different length, one empty), one for another,
  one broken, one shorter than its header; a payload of 8 bytes (255), CAD off and on.
  Every pair of frames that `_buf` can confuse is there.
- `FlightLog`: two packets in a batch, six in a flight, three flights: a flight before
  and one after the one that is interrupted. `MaxLate = 2`, what `BacklogBounded` allows.
  20 cells: the chip fills up in the second or third batch, or not at all. Packets 1 and
  4 have a false tag: the first and the last of a batch, at the beginning of a file and in
  the packet that is torn, and with late packets also the ones that are dropped.
- `NmeaLines`: an RMC and a GGA sentence with different latitudes, two losses, a port of
  two characters: losses next to each other, in one sentence and in neighbours.
  `MCNmeaLines` assumes `LinesFit`, that a line buffer holds a sentence.
- `Downlink`: five packets of three bytes, a limit of five bytes: the text ends inside
  the second packet; a port of seven bytes, room for two packets and not three.
- `ReliableDatagram`: one node sends two messages, one sends one, one listens; two
  transmissions of each. A second message is what a late acknowledgement or repeated
  request of the first can be confused with; two senders are what can wait for each
  other. Four numbers for at most two messages of a node: none is used twice.

Deadlock is checked in every run but `flight_log`, where the flights end, `downlink`,
where the rocket stops sending, and `datagrams`, where the programs have nothing more to
send. Type correctness of the last three is proved (section 11) and left out of the runs.

### Findings

1. **`wbPos` is not a ring index** (`avionics.ino:401`). It grows also while
   `writeSignal` is up, nothing wraps it, and with `writeFlash` two polls away it
   reaches `WRITE_BUFFER_SIZE`; the `memcpy` of `wbPos + 1` bytes then runs past both
   arrays. The comment at line 111 calls it a ring buffer. `BacklogBounded` shows, and
   `BacklogBoundedHolds` proves, that the delays keep it to two packets too many.
2. **`radioLock` does not stop a packet being finished** (`avionics.ino:371`). `loop()`
   looks at the lock before it starts a packet; in the sweep it yields in the middle.
   `TornOnlyInSweep`, `DownlinkHeals` and the ground's checksum test bound the damage:
   the torn packets are sent around the one sweep only and are not forwarded.
3. **An A signal disables deployment** (`avionics.ino:375`). The retracting loop never
   runs, `deployed` is set all the same, and a later B signal is ignored.
4. **The ground search can run for ever** (`grounduino.ino:98`), see section 7.

## 11. Proofs

Checked by TLAPS to the last leaf, for every value of the constants that satisfies the
named ASSUMEs of the module. Each module has an inductive invariant, one lemma per
group of actions that it is kept, and the properties as corollaries (`...Holds`).

**`Avionics`** (`AvionicsProofs`, `AvionicsRefinement`): every buffer size of at least
two packets, sweep of at least two positions, positive delays, set of pins, ring order
and stamp succession.

    AvionicsInv == TypeOK /\ LockInv /\ DeployInv /\ BufferInv /\ StoreInv

- `LockInv` is `LockMeansSending`, `LockedCopyIsNewest` and `SweepHoldsSample`. The
  last one is the strengthening: at `SweepEnd` the packet is finished with the stamp
  of the sample, and the copy taken meanwhile stays the newest only because the
  packet's body already holds that stamp.
- `DeployInv` is `TornOnlyInSweep`, `NoMissedSignal` and `ServoFollowsDeployment`.
  They are inductive together, not alone: that a signal after the first changes
  nothing needs that `deployed` excludes a running sweep.
- `BufferInv` is `SignalMeansFull` and `NoGapInBuffer`. The relation of `stamp`
  to the last packet finished, part of the second, is what makes the next packet stored
  follow the one before.
- `StoreInv` is `CopyConsecutive` and `StoredConsecutive`: between the hand-over and
  the end of the write the copy is a full, consecutive batch.

`BacklogBounded` needs a second, timed invariant, and `DelaysFit`:

    BacklogInv == DelayInv /\ PollInv /\ WriteInv /\ TurnInv

While `writeFlash` is in its `delay(10)` (`PollInv`), the time the packets in the buffer
took to build and what is left of the delay are together no longer than the buffer takes
to fill; while it writes (`WriteInv`), no more packets are built than the write has time
for, and one. Neither can be kept without the other: a write ends where a delay begins.
With the delay over (`TurnInv`) the ring decides, and the invariant counts how many turns
`loop()` can still have before `writeFlash` looks at the signal: at most two, in both
ring orders. The length of a slice plays no part, because every delay is shortened by it.

`SendsNewest` and `DeployOnce` are action properties proved from `AvionicsInv`.
`RecordsAsPromisedHolds` proves that every step is `Collect`, `HandOver` or `Save` of the
recorder, or none, under the refinement mapping `Newest`, `Pending`, `Saving`,
`LastStored`.

**`RF95`** (`RF95Proofs`): every set of frames, payload length and CAD time-out, under
the one further assumption `Prompt`.

    DriverInv == TypeOK /\ ChipInv /\ ValidIsForUs /\ UnreadInv

`ChipInv` ties flags, operating mode and `_mode` together while an interrupt is pending
too: an operation the chip has ended stays on record until the handler has seen it.
`UnreadInv` is the argument for the mailbox: a receiver is on with a message in the
buffer only inside the calls that collect it, and nothing is then on its way in, because
`setModeRx` starts from an idle chip and a frame takes longer than the call.
`MailboxStep` proves from both that every step puts a message into the empty box, takes
it out, or neither. `AirUndisturbedHolds` needs `DetectingInv` too: while `send()` waits
for the channel detection no transmission runs.

**`FlightLog`** (`FlightLogProofs`): every batch size, number of flights and packets, and
capacity.

    LogInv == TypeOK /\ NameInv /\ OwnerInv /\ OneFlightPerFile

`NameInv` counts: every number below the one tried next is taken, and there are fewer
files than flights, so the search ends within them. `OwnerInv` says that what is in RAM,
and in the file of the running flight, is of this flight; that is what a power loss in
the middle of a write needs.

    ReadInv == SaveInv /\ TagInv /\ OrderInv /\ KeptInv

is about the cells of the files, of any length, with any set `Showing` and any number of
late packets. `SaveInv` says that what is being written is the batch with stray cells, none
of which is a packet's own tag. `TagInv` is the argument for `PacketsReadWhole`: behind
every tag lies a whole packet, except behind one with fewer than three cells to the end of
a file that nothing more will be written to (`Sealed`: the flight is over or the chip is
full), where no entry fits; it is an invariant because a write that is cut short seals its
file. `OrderInv` carries the order of the packets from the file over the batch and the
buffer to the next one built. `KeptInv` says that the packets of whole batches are in the
file somewhere, whole and rising; each but the last has a later tag behind it, so its
match is not the last one and `KeptIsRead` follows. What a search of the whole file finds
is never computed: `Matches` numbers the places by counting those up to each, and that
every place gets a number, and later places larger ones, are facts about finite sets.

**`NmeaLines`** (`NmeaLinesProofs`): every size of line buffer and port, number of losses
and list of latitudes.

    NmeaInv == TypeOK /\ WireInv /\ FillInv
    LossInv == RestInv /\ StreamInv

`FillInv` says that the line being filled holds what was heard, as far as there is room;
that no sentence holds a zero (`WireInv`) makes the zero stored at the end the first one,
so C reads exactly that line, whatever an older one left behind it (`LineIsWhatCameHolds`).

`OneLossIsSafeHolds` assumes `LinesFit` besides, and has two halves. `StreamInv` is about
the stream: every character in the port has a place in a sentence (`Chain`), from one
place to the next nothing is missing but what is recorded as lost (`Gap`), and what was
heard is the beginning of a text up to a place, without the one character that is missing
(`Heard`). At a line end this names the sentence and the character. The other half
goes through the places it can have been (`SafeG`, `SafeR`): without the `$` or the letter
the line is no sentence; behind the `*` the fields are where they were; with a comma or
the digit gone the checksum, which is then at its place, differs in a bit (`OtherSum`).
Without the status, or the comma before it, what is behind the first comma is a second
comma, or the latitude, and no status. `WholeG` and `WholeR` do the same for a sentence
that lost nothing.

**`Grounduino`** (`GrounduinoProofs`): every packet size above five, ring of more than
three packets, and set of packets and noise, under the one further assumption
`QuietBand` that section 7 explains (the constants of `ground_relay` satisfy it, those of
`ground_foreign` do not).

    RelayInv == TypeOK /\ SearchInv

`SearchInv` says what the ring holds. While `loop()` waits (`WaitInv`) that is at most one
packet somewhere in the noise, so there is room for what comes. During the search
(`TwoPackets`) the second of two packets ends the ring, and the bytes popped are
exactly the noise in front of the first and then its tag: an `N` in a payload, which may
well occur, is never at the head while the search looks for one. `PopBytes` and
`PushBytes` carry this over the wrapping indices: they say what `Peek` finds after `popq`
and `pushq`. `ForwardDeals` is the step of `RelaysAsPromisedHolds` that is not a stutter.

**`Downlink`** (`DownlinkProofs`): every number and length of packets, port and limit.

    DownInv == VarTypes /\ ReaderInv /\ StreamInv /\ OrderInv /\ CountInv /\ MainInv

`Stream` is the list, what the reader thread holds and what is in the port, one behind the
other: every byte the receiver has written. Steps of the reader leave it unchanged
(`ReaderKeeps`), in whatever order the two writes of an append are seen; `Deal` appends
one whole packet (`DealKeeps`). `StreamInv` says that it is packets, `OrderInv` that what
is behind was sent later, `CountInv` that no byte comes from nowhere. What `Main` sees
is a prefix of it.

**`ReliableDatagram`** (`ReliableDatagramProofs`): every set of nodes and number of
retries, under the one further assumption `NoWrap`: a node sends fewer messages than there
are sequence numbers.

    LinkInv == TypeOK /\ NumberInv /\ CallInv /\ TakenInv /\ BoxInv /\ SuccessMeansReceived

`NumberInv` ties the code's numbers to the history. The strengthening is `BoxInv`, about
the frames under way: a request is at least as new as anything its receiver has
(`Fresh`), an acknowledgement is of a message its sender has, or of an older one
(`Justified`). So an acknowledgement with the number of the last message can only be
that message's, and a request that is not a duplicate is newer than all that was
returned. `TakenInv` carries the same through the time between acknowledgement and
return. `StepRefines` maps the actions to those of `Datagrams`: `Acknowledge` accepts,
unless the message has been seen, and `Judge` is a stutter.

Only model-checked:

- the liveness properties (`SignalServed`, `KeepsBuilding`, `SweepCompletes`,
  `DownlinkHeals`, `SendReturns`, `EachCollected`, `SecondFreesFirst`, `Recovers`,
  `TextAppears`, `SendEnds`) and `RecordsForever`: liveness and ENABLED are out of the
  prover's reach.

Every safety property, action property and refinement that a passing run checks is
proved, as is type correctness of every module that models code.

## 12. Not modelled

Besides the parts listed at the end of section 1:

- what the configuration of the radio (frequency, power, modem) does on the air;
- what the `memcpy` of `writeFlash` overwrites behind `writeBufferCopy` once `wbPos` has left
  the buffer (finding 1); what it reads behind `writeBuffer` is in `FlightLog`;
- the Scheduler, flash and serial libraries, which are not in the repository: they are
  modelled from how the code uses them, with every outcome kept where that leaves
  one open;
- RadioHead's routing and encryption layers and its other drivers, most of the lines in
  the repository: no sketch links them.
