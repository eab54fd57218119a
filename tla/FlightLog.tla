----------------------------- MODULE FlightLog ------------------------------
(***************************************************************************)
(* The files on the flash chip: setup() of avionics/avionics.ino chooses   *)
(* one for the flight, writeFlash() appends batches of packets to it,      *)
(* power goes at any moment, and matlab_parser/parse.m reads it back.      *)
(*                                                                         *)
(* parse.m looks for the bytes N, U, x wherever they are, and finds them   *)
(* also where no packet begins: in the binary payload of a packet, or in   *)
(* memory that was never part of one.  Such a place is a false tag here.   *)
(* A packet is four cells in the file: its tag, two parts of its payload,  *)
(* the second of which may be a false tag, and its end (the raven byte:    *)
(* the checksum behind it is not read).  The tasks and buffers behind      *)
(* TakeOver are those of Avionics.  Operators whose name ends in _ are     *)
(* broken variants of the definition that follows them, used by nothing.   *)
(***************************************************************************)
EXTENDS Naturals, Sequences, FiniteSets, SequencesExt

CONSTANTS
  BatchSize,      \* packets in a batch
  MaxLate,        \* bound: packets dropped while a full batch waits
  MaxFlights,     \* bound: times the power is switched on
  MaxPackets,     \* bound: packets built in a flight
  Capacity,       \* cells the chip has room for
  Showing         \* numbers of the packets with a false tag in their payload

ASSUME BoundAssumption ==
  /\ BatchSize \in Nat \ {0} /\ MaxLate \in Nat
  /\ MaxFlights \in Nat \ {0} /\ MaxPackets \in Nat /\ Capacity \in Nat
  /\ Showing \subseteq Nat

VARIABLES
  chip,           \* the files on the chip: cells of each, by number
  used,           \* cells taken on the chip
  pc,             \* how far setup() is, or "flying", "halted", "off"
  dataID,         \* the number setup() tries next
  fn,             \* number of the file chosen
  flight,         \* history: which flight this is
  built,          \* packets built in it
  pending,        \* packets in writeBuffer
  late,           \* packets dropped since writeSignal went up
  saving,         \* what writeFlash is writing, <<>> if nothing
  batch,          \* history: the packets of which it is the image
  kept            \* history: packets of the batches written whole, by file

chipVars == <<chip, used>>
bootVars == <<pc, dataID, fn>>
saveVars == <<saving, batch>>
ramVars == <<built, pending, late, saveVars>>
vars == <<chipVars, bootVars, flight, ramVars, kept>>

-----------------------------------------------------------------------------
Cell(kind, f, n) == [kind |-> kind, flight |-> f, n |-> n]
Tag == Cell("tag", 0, 0)
False == Cell("false", 0, 0)    \* N, U, x where no packet was stored
Zero == Cell("zero", 0, 0)      \* memory never written to
Junk == Cell("junk", 0, 0)      \* what lies behind writeBuffer

\* Packet n of flight f as it lies in the file.  One false tag stands for several.
Image(p) ==
  << Tag, Cell("body", p.flight, p.n),
     IF p.n \in Showing THEN False ELSE Cell("rest", p.flight, p.n),
     Cell("end", p.flight, p.n) >>
Images(ps) ==
  [i \in 1 .. 4 * Len(ps) |-> Image(ps[((i - 1) \div 4) + 1])[((i - 1) % 4) + 1]]

\* cpyLen is wbPos + 1, n packets more than are in writeBuffer: one byte of the slot
\* no packet is ever stored in; that slot and the byte behind the buffer; or that slot
\* and 71 bytes and more of other variables.  What is there depends on the build:
\* packetBuffer or writeBufferCopy, with the bytes of an earlier packet, or neither.
Strays(n) ==
  CASE n = 0 -> {<<Zero>>}
    [] n = 1 -> {<<Zero, Junk>>}
    [] OTHER -> {<<Zero, Junk>>, <<Zero, False, Junk>>}

Files == DOMAIN chip

\* The beginning of s that the chip has room for.
Fitting(s) == IF used + Len(s) <= Capacity THEN s ELSE SubSeq(s, 1, Capacity - used)

-----------------------------------------------------------------------------
(* setup()                                                                 *)

PowerOn ==
  /\ pc = "off" /\ flight < MaxFlights
  /\ flight' = flight + 1
  /\ pc' = "mount" /\ dataID' = 0
  /\ UNCHANGED <<chipVars, fn, ramVars, kept>>

Mount ==
  /\ pc = "mount"
  /\ pc' = "search"
  /\ UNCHANGED <<chipVars, dataID, fn, flight, ramVars, kept>>

\* No flash chip, no file system, or the file cannot be opened: while (1).
Halt ==
  /\ pc \in {"mount", "create"}
  /\ pc' = "halted"
  /\ UNCHANGED <<chipVars, dataID, fn, flight, ramVars, kept>>

\* The number before the first that is free.
SearchOneShort_ ==
  /\ pc = "search"
  /\ fn' = dataID
  /\ dataID' = dataID + 1
  /\ pc' = IF dataID' \in Files THEN "search" ELSE "create"
  /\ UNCHANGED <<chipVars, flight, ramVars, kept>>

\* One pass of do { ... } while (fatfs.exists(fn)).
Search ==
  /\ pc = "search"
  /\ fn' = dataID
  /\ dataID' = dataID + 1
  /\ pc' = IF fn' \in Files THEN "search" ELSE "create"
  /\ UNCHANGED <<chipVars, flight, ramVars, kept>>

\* open(fn, FILE_WRITE) creates the file; close() makes it last.
Create ==
  /\ pc = "create"
  /\ chip' = [f \in Files \union {fn} |-> IF f \in Files THEN chip[f] ELSE <<>>]
  /\ kept' = [f \in Files \union {fn} |-> IF f \in Files THEN kept[f] ELSE <<>>]
  /\ pc' = "flying"
  /\ UNCHANGED <<used, dataID, fn, flight, ramVars>>

-----------------------------------------------------------------------------
(* loop() and writeFlash()                                                 *)

writeSignal == Len(pending) = BatchSize

\* A packet is built, and stored unless a full batch waits.
Build ==
  /\ pc = "flying" /\ built < MaxPackets
  /\ built' = built + 1
  /\ IF writeSignal THEN late < MaxLate /\ late' = late + 1 /\ UNCHANGED pending
     ELSE pending' = Append(pending, [flight |-> flight, n |-> built']) /\ UNCHANGED late
  /\ UNCHANGED <<chipVars, bootVars, flight, saveVars, kept>>

\* cpyLen is wbPos - 1.
TakeOverShort_ ==
  /\ pc = "flying" /\ writeSignal /\ saving = <<>>
  /\ saving' = SubSeq(Images(pending), 1, 4 * Len(pending) - 1) /\ batch' = pending
  /\ pending' = <<>> /\ late' = 0
  /\ UNCHANGED <<chipVars, bootVars, flight, built, kept>>

TakeOver ==
  /\ pc = "flying" /\ writeSignal /\ saving = <<>>
  /\ \E stray \in Strays(late) : saving' = Images(pending) \o stray
  /\ batch' = pending
  /\ pending' = <<>> /\ late' = 0
  /\ UNCHANGED <<chipVars, bootVars, flight, built, kept>>

\* s is what reaches the end of the file of the batch being written.
Write(s) ==
  /\ chip' = [chip EXCEPT ![fn] = @ \o s]
  /\ used' = used + Len(s)
  /\ saving' = <<>> /\ batch' = <<>>

\* write() and close(); nobody looks at how much has been written.
CloseFile ==
  /\ pc = "flying" /\ saving # <<>>
  /\ Write(Fitting(saving))
  /\ kept' = IF Fitting(saving) = saving THEN [kept EXCEPT ![fn] = @ \o batch] ELSE kept
  /\ UNCHANGED <<bootVars, flight, built, pending, late>>

\* open() fails: the LED turns yellow and the batch is gone.
OpenFailed ==
  /\ pc = "flying" /\ saving # <<>>
  /\ saving' = <<>> /\ batch' = <<>>
  /\ UNCHANGED <<chipVars, bootVars, flight, built, pending, late, kept>>

\* Power is switched off or lost: RAM is gone, and of a file that is open some part
\* of what was written has reached the chip.
PowerOff ==
  /\ pc # "off"
  /\ pc' = "off"
  /\ built' = 0 /\ pending' = <<>> /\ late' = 0
  /\ IF saving = <<>> THEN UNCHANGED <<chipVars, saveVars>>
     ELSE \E n \in 0 .. Len(Fitting(saving)) : Write(SubSeq(saving, 1, n))
  /\ UNCHANGED <<dataID, fn, flight, kept>>

-----------------------------------------------------------------------------
(* parse.m                                                                 *)

IsTag(c) == c.kind \in {"tag", "false"}

\* How many times N, U, x is found in the first n cells.
TagsUpTo(file, n) == Cardinality({i \in DOMAIN file : i <= n /\ IsTag(file[i])})

\* Records are taken to lie one behind the other.
MatchesStride_(file) == [i \in 1 .. Len(file) \div 4 |-> 4 * i - 3]

\* Where N, U, x is found in the file, in order.
Matches(file) ==
  [k \in 1 .. TagsUpTo(file, Len(file)) |->
     CHOOSE i \in DOMAIN file : IsTag(file[i]) /\ TagsUpTo(file, i) = k]

\* What for i = 1:length(match)-1 reads: the match and the cells behind it.  To read
\* past the end of the file is an error, and the script is over.
Entries(file) ==
  LET match == Matches(file)
      whole == {i \in 1 .. Len(match) - 1 : match[i] + 3 <= Len(file)}
  IN  [i \in whole |-> SubSeq(file, match[i], match[i] + 3)]

-----------------------------------------------------------------------------
Init ==
  /\ chip = <<>> /\ used = 0 /\ kept = <<>>
  /\ pc = "off" /\ dataID = 0 /\ fn = 0
  /\ flight = 0
  /\ built = 0 /\ pending = <<>> /\ late = 0
  /\ saving = <<>> /\ batch = <<>>

Setup == PowerOn \/ Mount \/ Halt \/ Search \/ Create
Fly == Build \/ TakeOver \/ CloseFile \/ OpenFailed

Next == Setup \/ Fly \/ PowerOff

Spec == Init /\ [][Next]_vars

-----------------------------------------------------------------------------
(* Properties                                                              *)

Flights == 1 .. MaxFlights
PacketsBuilt == [flight : Flights, n : 1 .. MaxPackets]
Kinds == {"tag", "false", "zero", "junk", "body", "rest", "end"}
Cells == [kind : Kinds, flight : 0 .. MaxFlights, n : 0 .. MaxPackets]

\* Every variable keeps to the values its declaration is meant for, and the chip
\* to its capacity.
TypeOK ==
  /\ \A f \in Files : f \in 0 .. MaxFlights - 1 /\ chip[f] \in Seq(Cells)
  /\ DOMAIN kept = Files /\ \A f \in Files : kept[f] \in Seq(PacketsBuilt)
  /\ used \in 0 .. Capacity
  /\ pc \in {"off", "mount", "search", "create", "flying", "halted"}
  /\ dataID \in 0 .. MaxFlights /\ fn \in 0 .. MaxFlights - 1
  /\ flight \in 0 .. MaxFlights
  /\ built \in 0 .. MaxPackets /\ late \in 0 .. MaxLate
  /\ pending \in Seq(PacketsBuilt) /\ Len(pending) <= BatchSize
  /\ saving \in Seq(Cells) /\ batch \in Seq(PacketsBuilt)

\* A file belongs to one flight, however many times the power went and came back.
OneFlightPerFile ==
  \A f \in Files : \A i, j \in DOMAIN chip[f] :
    {chip[f][i].kind, chip[f][j].kind} \subseteq {"body", "rest", "end"} =>
      chip[f][i].flight = chip[f][j].flight

\* Of what parse.m reads, at whatever moment the power went, that which begins where a
\* packet begins is that packet, whole, and these come in the order in which they were
\* built.  parse.m cannot tell them from what it reads at a false tag, which is no
\* packet, or an old one once more.
PacketsReadWhole ==
  \A f \in Files : LET e == Entries(chip[f]) IN
    /\ \A i \in DOMAIN e : e[i][1] = Tag => \E p \in PacketsBuilt : e[i] = Image(p)
    /\ \A i, j \in DOMAIN e :
         i < j /\ e[i][1] = Tag /\ e[j][1] = Tag => e[i][2].n < e[j][2].n

\* Every packet of a batch that was written whole is read, except the last one of
\* the file: no false tag, no stray bytes between batches, no torn batch behind them
\* hides it.
KeptIsRead ==
  \A f \in Files : \A k \in 1 .. Len(kept[f]) - 1 :
    \E i \in DOMAIN Entries(chip[f]) : Entries(chip[f])[i] = Image(kept[f][k])
=============================================================================
