--------------------------- MODULE FlightLogProofs --------------------------
(***************************************************************************)
(* Proofs about FlightLog, for every batch size, number of flights and     *)
(* packets, and capacity of the chip.                                      *)
(***************************************************************************)
EXTENDS FlightLog, SequenceTheorems, FiniteSetTheorems, WellFoundedInduction, TLAPS

-----------------------------------------------------------------------------
(* The inductive invariant                                                 *)

\* The name search: every number below the one tried next is taken, and until this
\* flight has its file there is one file less than flights.
NameInv ==
  /\ Files \subseteq 0 .. flight - 1
  /\ pc # "off" => flight > 0
  /\ pc \in {"mount", "search", "create"} => Files \subseteq 0 .. flight - 2
  /\ pc = "mount" => dataID = 0
  /\ pc = "search" => \A n \in 0 .. dataID - 1 : n \in Files
  /\ pc = "create" => fn \in 0 .. flight - 1 /\ fn \notin Files
  /\ pc = "flying" => fn \in Files

\* A cell that tells which packet it is of.
Marked(c) == c.kind \in {"body", "rest", "end"}

\* Whatever of packets is in RAM, or in the file of the running flight, is of this
\* flight.
OwnerInv ==
  /\ \A i \in DOMAIN pending : pending[i].flight = flight
  /\ \A i \in DOMAIN saving : Marked(saving[i]) => saving[i].flight = flight
  /\ pc = "flying" =>
       \A i \in DOMAIN chip[fn] : Marked(chip[fn][i]) => chip[fn][i].flight = flight
  /\ pc # "flying" => pending = <<>> /\ saving = <<>>

LogInv == TypeOK /\ NameInv /\ OwnerInv /\ OneFlightPerFile

\* The numbers the bounds are made of.
LEMMA BoundTypes ==
  /\ BatchSize \in Nat /\ BatchSize > 0 /\ MaxLate \in Nat
  /\ MaxFlights \in Nat /\ MaxFlights > 0 /\ MaxPackets \in Nat /\ Capacity \in Nat
  BY BoundAssumption

\* The four cells of a packet: the first is a tag, and those that are marked bear its
\* flight.
LEMMA ImageType ==
  ASSUME NEW p \in PacketsBuilt
  PROVE  /\ Len(Image(p)) = 4 /\ DOMAIN Image(p) = 1 .. 4
         /\ Image(p)[1] = Tag
         /\ Image(p)[2].kind = "body" /\ Image(p)[2].n = p.n
         /\ Image(p)[3].kind \in {"false", "rest"} /\ Image(p)[4].kind = "end"
         /\ \A j \in {1, 2, 3, 4} :
              /\ Image(p)[j] \in Cells
              /\ Marked(Image(p)[j]) => Image(p)[j].flight = p.flight
<1>1. p.flight \in 0 .. MaxFlights /\ p.n \in 0 .. MaxPackets
  BY BoundTypes DEF PacketsBuilt, Flights
<1>2. /\ \A k \in Kinds : /\ Cell(k, p.flight, p.n) \in Cells
                          /\ Cell(k, p.flight, p.n).kind = k
                          /\ Cell(k, p.flight, p.n).flight = p.flight
                          /\ Cell(k, p.flight, p.n).n = p.n
      /\ Tag \in Cells /\ ~Marked(Tag)
      /\ False \in Cells /\ False.kind = "false" /\ ~Marked(False)
  BY <1>1, BoundTypes DEF Tag, False, Cell, Cells, Kinds, Marked
<1>3. PICK mid : mid = IF p.n \in Showing THEN False ELSE Cell("rest", p.flight, p.n)
  OBVIOUS
<1>4. Image(p) = <<Tag, Cell("body", p.flight, p.n), mid, Cell("end", p.flight, p.n)>>
  BY <1>3 DEF Image
<1>5. {"body", "rest", "end"} \subseteq Kinds
  BY DEF Kinds
<1>6. /\ mid \in Cells /\ mid.kind \in {"false", "rest"}
      /\ Marked(mid) => mid.flight = p.flight
  BY <1>2, <1>3, <1>5
<1> QED BY <1>2, <1>4, <1>5, <1>6

\* The image of packets is a sequence of cells, and each cell that is marked bears
\* the flight of one of them.
LEMMA ImagesType ==
  ASSUME NEW ps \in Seq(PacketsBuilt)
  PROVE  /\ Images(ps) \in Seq(Cells)
         /\ Len(Images(ps)) = 4 * Len(ps)
         /\ \A i \in 1 .. 4 * Len(ps) : \E j \in 1 .. Len(ps) :
              Marked(Images(ps)[i]) => Images(ps)[i].flight = ps[j].flight
<1> DEFINE n == 4 * Len(ps)
           Of(i) == ((i - 1) \div 4) + 1
           At(i) == ((i - 1) % 4) + 1
<1>1. n \in Nat /\ \A i \in 1 .. n : Of(i) \in 1 .. Len(ps) /\ At(i) \in 1 .. 4
  <2>1. Len(ps) \in Nat
    OBVIOUS
  <2>2. ASSUME NEW m \in Nat, NEW i \in 1 .. 4 * m
        PROVE  ((i - 1) \div 4) + 1 \in 1 .. m /\ ((i - 1) % 4) + 1 \in 1 .. 4
    OBVIOUS
  <2> QED BY <2>1, <2>2
<1>2. ASSUME NEW i \in 1 .. n
      PROVE  /\ Image(ps[Of(i)])[At(i)] \in Cells
             /\ Marked(Image(ps[Of(i)])[At(i)]) =>
                  Image(ps[Of(i)])[At(i)].flight = ps[Of(i)].flight
  <2>1. Of(i) \in 1 .. Len(ps) /\ At(i) \in {1, 2, 3, 4}
    BY <1>1
  <2> HIDE DEF Of, At
  <2>2. ps[Of(i)] \in PacketsBuilt
    BY <2>1
  <2> QED BY <2>1, <2>2, ImageType
<1>3. Images(ps) = [i \in 1 .. n |-> Image(ps[Of(i)])[At(i)]]
  BY DEF Images
<1> HIDE DEF Of, At
<1>4. Images(ps) \in Seq(Cells) /\ Len(Images(ps)) = n
  BY <1>1, <1>2, <1>3
<1> QED BY <1>1, <1>2, <1>3, <1>4

\* The bytes behind a batch are cells that bear no flight, and that no packet has.
LEMMA StrayType ==
  ASSUME NEW n, NEW stray \in Strays(n)
  PROVE  /\ stray \in Seq(Cells)
         /\ \A i \in DOMAIN stray :
              stray[i].kind \in {"zero", "false", "junk"} /\ ~Marked(stray[i])
<1>1. \A c \in {Zero, False, Junk} :
        c \in Cells /\ c.kind \in {"zero", "false", "junk"} /\ ~Marked(c)
  BY BoundTypes DEF Zero, False, Junk, Cell, Cells, Kinds, Marked
<1>2. stray \in {<<Zero>>, <<Zero, Junk>>, <<Zero, False, Junk>>}
  BY DEF Strays
<1>3. CASE stray = <<Zero>>
  BY <1>1, <1>3
<1>4. CASE stray = <<Zero, Junk>>
  BY <1>1, <1>4
<1>5. CASE stray = <<Zero, False, Junk>>
  BY <1>1, <1>5
<1> QED BY <1>2, <1>3, <1>4, <1>5

\* What the chip has room for is the beginning of what it is given.
LEMMA FittingType ==
  ASSUME TypeOK
  PROVE  \E n \in 0 .. Len(saving) :
           Fitting(saving) = SubSeq(saving, 1, n) /\ used + n <= Capacity
<1>1. saving \in Seq(Cells) /\ used \in 0 .. Capacity
  BY DEF TypeOK
<1>2. CASE used + Len(saving) <= Capacity
  BY <1>1, <1>2, SubSeqFull DEF Fitting
<1>3. CASE used + Len(saving) > Capacity
  <2>1. Capacity - used \in 0 .. Len(saving)
    BY <1>1, <1>3, BoundTypes
  <2>2. Fitting(saving) = SubSeq(saving, 1, Capacity - used)
    BY <1>1, <1>3, BoundTypes DEF Fitting
  <2>3. used + (Capacity - used) <= Capacity
    BY <1>1, BoundTypes
  <2> QED BY <2>1, <2>2, <2>3
<1> QED BY <1>1, <1>2, <1>3, BoundTypes

-----------------------------------------------------------------------------
(* Every step keeps it                                                     *)

\* What the write appends to the flight's file is a part of what it was given.
LEMMA WriteStep ==
  ASSUME LogInv, pc = "flying", NEW n \in 0 .. Len(saving), used + n <= Capacity,
         Write(SubSeq(saving, 1, n))
  PROVE  /\ DOMAIN chip' = Files /\ used' \in 0 .. Capacity
         /\ \A f \in Files : chip'[f] \in Seq(Cells)
         /\ \A f \in Files \ {fn} : chip'[f] = chip[f]
         /\ chip'[fn] = chip[fn] \o SubSeq(saving, 1, n)
         /\ \A i \in DOMAIN chip'[fn] :
              Marked(chip'[fn][i]) => chip'[fn][i].flight = flight
         /\ OneFlightPerFile'
<1> DEFINE s == SubSeq(saving, 1, n)
<1>1. /\ saving \in Seq(Cells) /\ fn \in Files /\ chip[fn] \in Seq(Cells)
      /\ used \in 0 .. Capacity
  BY DEF LogInv, TypeOK, NameInv
<1>2. s \in Seq(Cells) /\ Len(s) = n /\ \A i \in 1 .. n : s[i] = saving[i]
  BY <1>1
<1>3. /\ chip' = [chip EXCEPT ![fn] = chip[fn] \o s] /\ used' = used + n
  BY <1>2 DEF Write
<1> HIDE DEF s
<1>4. used' \in 0 .. Capacity
  BY <1>1, <1>3, BoundTypes
<1>5. /\ DOMAIN chip' = Files /\ chip'[fn] = chip[fn] \o s
      /\ \A f \in Files \ {fn} : chip'[f] = chip[f]
  BY <1>1, <1>3 DEF Files
<1>6. /\ chip'[fn] \in Seq(Cells) /\ Len(chip'[fn]) = Len(chip[fn]) + n
      /\ \A i \in 1 .. Len(chip[fn]) + n :
           chip'[fn][i] = IF i <= Len(chip[fn]) THEN chip[fn][i] ELSE s[i - Len(chip[fn])]
  <2>1. PICK q \in Seq(Cells) : q = chip[fn]
    BY <1>1
  <2>2. /\ q \o s \in Seq(Cells) /\ Len(q \o s) = Len(q) + Len(s)
        /\ \A i \in 1 .. Len(q) + Len(s) :
             (q \o s)[i] = IF i <= Len(q) THEN q[i] ELSE s[i - Len(q)]
    BY <1>2, ConcatProperties
  <2>3. PICK u : u = chip'[fn]
    OBVIOUS
  <2>4. u = q \o s
    BY <1>5, <2>1, <2>3, Zenon
  <2>5. /\ u \in Seq(Cells) /\ Len(u) = Len(q) + n
        /\ \A i \in 1 .. Len(q) + n : u[i] = IF i <= Len(q) THEN q[i] ELSE s[i - Len(q)]
    BY <1>2, <2>2, <2>4, Zenon
  <2> QED BY <2>1, <2>3, <2>5, Zenon
<1>7. ASSUME NEW i \in DOMAIN chip'[fn], Marked(chip'[fn][i])
      PROVE  chip'[fn][i].flight = flight
  <2>1. i \in 1 .. Len(chip[fn]) + n
    BY <1>6
  <2>2. CASE i <= Len(chip[fn])
    BY <1>1, <1>6, <1>7, <2>1, <2>2 DEF LogInv, OwnerInv
  <2>3. CASE i > Len(chip[fn])
    <3>1. i - Len(chip[fn]) \in 1 .. n /\ i - Len(chip[fn]) \in DOMAIN saving
      BY <1>1, <2>1, <2>3
    <3>2. chip'[fn][i] = saving[i - Len(chip[fn])]
      <4>1. Len(chip[fn]) \in Nat /\ ~(i <= Len(chip[fn]))
        BY <1>1, <2>1, <2>3
      <4>2. chip'[fn][i] = s[i - Len(chip[fn])]
        BY <1>6, <2>1, <4>1
      <4> QED BY <1>2, <3>1, <4>2
    <3> QED BY <1>7, <3>1, <3>2 DEF LogInv, OwnerInv
  <2> QED BY <1>1, <2>1, <2>2, <2>3
<1>8. OneFlightPerFile'
  <2> SUFFICES ASSUME NEW f \in Files, NEW i \in DOMAIN chip'[f], NEW j \in DOMAIN chip'[f],
                      Marked(chip'[f][i]), Marked(chip'[f][j])
               PROVE  chip'[f][i].flight = chip'[f][j].flight
    BY <1>5 DEF OneFlightPerFile, Marked, Files
  <2>1. CASE f = fn
    BY <1>7, <2>1
  <2>2. CASE f # fn
    BY <1>5, <2>2 DEF LogInv, OneFlightPerFile, Marked, Files
  <2> QED BY <2>1, <2>2
<1>9. \A f \in Files : chip'[f] \in Seq(Cells)
  BY <1>5, <1>6 DEF LogInv, TypeOK
<1> QED BY <1>4, <1>5, <1>7, <1>8, <1>9 DEF s

\* setup(): the flight gets a number of its own, and a file with no packets.
LEMMA SetupStep ==
  ASSUME LogInv, Setup
  PROVE  LogInv'
<1> USE BoundTypes DEF LogInv, chipVars, bootVars, ramVars, saveVars, Files
<1>1. CASE PowerOn
  <2>1. TypeOK'
    BY <1>1 DEF PowerOn, TypeOK
  <2>2. NameInv'
    BY <1>1 DEF PowerOn, TypeOK, NameInv
  <2>3. OwnerInv' /\ OneFlightPerFile'
    BY <1>1 DEF PowerOn, OwnerInv, OneFlightPerFile
  <2> QED BY <2>1, <2>2, <2>3
<1>2. CASE Mount \/ Halt
  <2>1. TypeOK'
    BY <1>2 DEF Mount, Halt, TypeOK
  <2>2. NameInv'
    BY <1>2 DEF Mount, Halt, TypeOK, NameInv
  <2>3. OwnerInv' /\ OneFlightPerFile'
    BY <1>2 DEF Mount, Halt, OwnerInv, OneFlightPerFile
  <2> QED BY <2>1, <2>2, <2>3
<1>3. CASE Search
  <2>1. /\ flight \in 1 .. MaxFlights /\ dataID \in Nat /\ dataID <= flight - 1
        /\ Files \subseteq 0 .. flight - 2
        /\ \A n \in 0 .. dataID - 1 : n \in Files
    <3>1. dataID > 0 => dataID - 1 \in 0 .. flight - 2
      BY <1>3 DEF Search, TypeOK, NameInv
    <3> QED BY <1>3, <3>1 DEF Search, TypeOK, NameInv
  <2>2. TypeOK'
    BY <1>3, <2>1 DEF Search, TypeOK
  <2>3. NameInv'
    <3>1. /\ fn' = dataID /\ dataID' = dataID + 1 /\ UNCHANGED <<chip, flight>>
          /\ pc' = IF dataID \in Files THEN "search" ELSE "create"
      BY <1>3 DEF Search
    <3>2. CASE dataID \in Files
      <4>1. \A n \in 0 .. dataID' - 1 : n \in Files
        BY <2>1, <3>1, <3>2
      <4> QED BY <1>3, <2>1, <3>1, <3>2, <4>1 DEF NameInv
    <3>3. CASE dataID \notin Files
      BY <1>3, <2>1, <3>1, <3>3 DEF NameInv
    <3> QED BY <3>2, <3>3
  <2>4. OwnerInv' /\ OneFlightPerFile'
    BY <1>3 DEF Search, OwnerInv, OneFlightPerFile
  <2> QED BY <2>2, <2>3, <2>4
<1>4. CASE Create
  <2>1. /\ fn \notin Files /\ fn \in 0 .. flight - 1 /\ flight \in 1 .. MaxFlights
        /\ DOMAIN chip' = Files \union {fn} /\ chip'[fn] = <<>>
        /\ DOMAIN kept' = Files \union {fn} /\ kept'[fn] = <<>>
        /\ \A f \in Files : chip'[f] = chip[f] /\ kept'[f] = kept[f]
    BY <1>4 DEF Create, TypeOK, NameInv
  <2>2. TypeOK'
    BY <1>4, <2>1 DEF Create, TypeOK
  <2>3. NameInv'
    <3>1. pc' = "flying" /\ UNCHANGED <<fn, flight>> /\ Files \subseteq 0 .. flight - 1
      BY <1>4 DEF Create, NameInv
    <3> QED BY <2>1, <3>1 DEF NameInv
  <2>4. OwnerInv'
    BY <1>4, <2>1 DEF Create, OwnerInv
  <2>5. OneFlightPerFile'
    BY <2>1 DEF OneFlightPerFile
  <2> QED BY <2>2, <2>3, <2>4, <2>5
<1> QED BY <1>1, <1>2, <1>3, <1>4 DEF Setup

\* Packets built in a flight, kept in writeBuffer and handed over, are of that flight.
LEMMA FlyStep ==
  ASSUME LogInv, Fly
  PROVE  LogInv'
<1> USE BoundTypes DEF LogInv, chipVars, bootVars, ramVars, saveVars
<1>0. flight \in 1 .. MaxFlights
  BY DEF Fly, Build, TakeOver, CloseFile, OpenFailed, TypeOK, NameInv
<1>1. CASE Build
  <2>1. /\ built' \in 1 .. MaxPackets /\ pending \in Seq(PacketsBuilt)
        /\ pc = "flying" /\ UNCHANGED <<chipVars, bootVars, flight, saveVars, kept>>
    BY <1>1 DEF Build, TypeOK
  <2>2. CASE UNCHANGED pending
    <3>1. late' \in 0 .. MaxLate
      BY <1>1 DEF Build, TypeOK, writeSignal
    <3>2. TypeOK'
      BY <2>1, <2>2, <3>1 DEF TypeOK, Files
    <3>3. NameInv' /\ OwnerInv' /\ OneFlightPerFile'
      BY <2>1, <2>2 DEF NameInv, OwnerInv, OneFlightPerFile, Files
    <3> QED BY <3>2, <3>3
  <2>3. CASE pending' # pending
    <3> DEFINE p == [flight |-> flight, n |-> built']
    <3>1. p \in PacketsBuilt
      BY <1>0, <2>1 DEF PacketsBuilt, Flights
    <3>2. Len(pending) # BatchSize /\ pending' = Append(pending, p) /\ UNCHANGED late
      BY <1>1, <2>3 DEF Build, writeSignal
    <3> HIDE DEF p
    <3>3. /\ pending' \in Seq(PacketsBuilt) /\ Len(pending') <= BatchSize
          /\ \A i \in DOMAIN pending' : pending'[i] = IF i \in DOMAIN pending THEN pending[i] ELSE p
      BY <2>1, <3>1, <3>2 DEF TypeOK
    <3>4. TypeOK'
      BY <2>1, <3>2, <3>3 DEF TypeOK, Files
    <3>5. \A i \in DOMAIN pending' : pending'[i].flight = flight
      BY <3>3 DEF OwnerInv, p
    <3>6. NameInv' /\ OwnerInv' /\ OneFlightPerFile'
      BY <2>1, <3>5 DEF NameInv, OwnerInv, OneFlightPerFile, Files
    <3> QED BY <3>4, <3>6
  <2> QED BY <2>2, <2>3
<1>2. CASE TakeOver
  <2>1. /\ pc = "flying" /\ UNCHANGED <<chipVars, bootVars, flight, built, kept>>
        /\ batch' = pending
        /\ pending' = <<>> /\ late' = 0 /\ pending \in Seq(PacketsBuilt)
    BY <1>2 DEF TakeOver, TypeOK
  <2>0. PICK stray \in Strays(late) : saving' = Images(pending) \o stray
    BY <1>2 DEF TakeOver
  <2>2. /\ Images(pending) \in Seq(Cells) /\ stray \in Seq(Cells)
        /\ saving' \in Seq(Cells)
        /\ Len(saving') = Len(Images(pending)) + Len(stray)
        /\ \A i \in 1 .. Len(Images(pending)) + Len(stray) :
             saving'[i] = IF i <= Len(Images(pending)) THEN Images(pending)[i]
                          ELSE stray[i - Len(Images(pending))]
    BY <2>0, <2>1, ImagesType, StrayType, ConcatProperties
  <2>3. ASSUME NEW i \in DOMAIN saving', Marked(saving'[i])
        PROVE  saving'[i].flight = flight
    <3>1. i \in 1 .. Len(Images(pending)) + Len(stray)
      BY <2>2
    <3>2. CASE i <= Len(Images(pending))
      <4>0. i \in 1 .. 4 * Len(pending)
        BY <2>1, <2>2, <3>1, <3>2, ImagesType
      <4>1. PICK j \in 1 .. Len(pending) :
              Marked(Images(pending)[i]) => Images(pending)[i].flight = pending[j].flight
        BY <2>1, <4>0, ImagesType
      <4> QED BY <2>1, <2>2, <2>3, <3>1, <3>2, <4>1 DEF OwnerInv
    <3>3. CASE ~(i <= Len(Images(pending)))
      <4>1. i - Len(Images(pending)) \in 1 .. Len(stray)
        BY <2>2, <3>1, <3>3
      <4> QED BY <2>2, <2>3, <3>1, <3>3, <4>1, StrayType
    <3> QED BY <3>2, <3>3
  <2>4. TypeOK'
    BY <2>1, <2>2 DEF TypeOK, Files
  <2>5. NameInv' /\ OwnerInv' /\ OneFlightPerFile'
    BY <2>1, <2>3 DEF NameInv, OwnerInv, OneFlightPerFile, Files
  <2> QED BY <2>4, <2>5
<1>3. CASE CloseFile
  <2>1. PICK n \in 0 .. Len(saving) :
          Fitting(saving) = SubSeq(saving, 1, n) /\ used + n <= Capacity
    BY FittingType
  <2>2. /\ pc = "flying" /\ Write(SubSeq(saving, 1, n))
        /\ kept' = IF Fitting(saving) = saving THEN [kept EXCEPT ![fn] = @ \o batch] ELSE kept
        /\ UNCHANGED <<bootVars, flight, built, pending, late>>
    BY <1>3, <2>1 DEF CloseFile
  <2>3. /\ DOMAIN chip' = Files /\ used' \in 0 .. Capacity
        /\ \A f \in Files : chip'[f] \in Seq(Cells)
        /\ \A i \in DOMAIN chip'[fn] :
             Marked(chip'[fn][i]) => chip'[fn][i].flight = flight
        /\ OneFlightPerFile'
    BY <2>1, <2>2, WriteStep
  <2>4. DOMAIN kept' = Files /\ \A f \in Files : kept'[f] \in Seq(PacketsBuilt)
    <3>1. \A f \in Files : kept[f] \o batch \in Seq(PacketsBuilt)
      BY ConcatProperties DEF TypeOK
    <3> QED BY <2>2, <3>1 DEF TypeOK
  <2>5. saving' = <<>> /\ batch' = <<>>
    BY <2>2 DEF Write
  <2>6. TypeOK'
    BY <2>2, <2>3, <2>4, <2>5 DEF TypeOK, Files
  <2>7. NameInv' /\ OwnerInv'
    BY <2>2, <2>3, <2>5 DEF NameInv, OwnerInv, Files
  <2> QED BY <2>3, <2>6, <2>7
<1>4. CASE OpenFailed
  <2>1. TypeOK'
    BY <1>4 DEF OpenFailed, TypeOK, Files
  <2>2. NameInv' /\ OwnerInv' /\ OneFlightPerFile'
    BY <1>4 DEF OpenFailed, NameInv, OwnerInv, OneFlightPerFile, Files
  <2> QED BY <2>1, <2>2
<1> QED BY <1>1, <1>2, <1>3, <1>4 DEF Fly

\* Whenever the power goes, what is on the chip then is right as it is.
LEMMA PowerOffStep ==
  ASSUME LogInv, PowerOff
  PROVE  LogInv'
<1> USE BoundTypes DEF LogInv, chipVars, bootVars, ramVars, saveVars
<1>1. /\ pc' = "off" /\ built' = 0 /\ pending' = <<>> /\ late' = 0
      /\ UNCHANGED <<dataID, fn, flight, kept>>
  BY DEF PowerOff
<1>2. CASE saving = <<>>
  <2>1. UNCHANGED <<chip, used, saving, batch>>
    BY <1>2 DEF PowerOff
  <2>2. TypeOK'
    BY <1>1, <2>1 DEF TypeOK, Files
  <2>3. NameInv' /\ OwnerInv' /\ OneFlightPerFile'
    BY <1>1, <1>2, <2>1 DEF NameInv, OwnerInv, OneFlightPerFile, Files
  <2> QED BY <2>2, <2>3
<1>3. CASE saving # <<>>
  <2>1. PICK m \in 0 .. Len(saving) :
          Fitting(saving) = SubSeq(saving, 1, m) /\ used + m <= Capacity
    BY FittingType
  <2>2. saving \in Seq(Cells) /\ Len(Fitting(saving)) = m
    BY <2>1 DEF TypeOK
  <2>3. PICK n \in 0 .. m : Write(SubSeq(saving, 1, n))
    BY <1>3, <2>2 DEF PowerOff
  <2>4. n \in 0 .. Len(saving) /\ used + n <= Capacity /\ pc = "flying"
    BY <1>3, <2>1, <2>2 DEF TypeOK, OwnerInv
  <2>5. /\ DOMAIN chip' = Files /\ used' \in 0 .. Capacity
        /\ \A f \in Files : chip'[f] \in Seq(Cells)
        /\ OneFlightPerFile'
    BY <2>3, <2>4, WriteStep
  <2>6. saving' = <<>> /\ batch' = <<>>
    BY <2>3 DEF Write
  <2>7. TypeOK'
    BY <1>1, <2>5, <2>6 DEF TypeOK, Files
  <2>8. NameInv' /\ OwnerInv'
    BY <1>1, <2>4, <2>5, <2>6 DEF NameInv, OwnerInv, Files
  <2> QED BY <2>5, <2>7, <2>8
<1> QED BY <1>2, <1>3

\* Nothing has been written yet.
LEMMA LogInit == Init => LogInv
<1> USE BoundTypes DEF Init, Files
<1>1. Init => TypeOK
  BY DEF TypeOK
<1>2. Init => NameInv /\ OwnerInv /\ OneFlightPerFile
  BY DEF NameInv, OwnerInv, OneFlightPerFile
<1> QED BY <1>1, <1>2 DEF LogInv

\* The invariant is inductive.
LEMMA LogStep == LogInv /\ [Next]_vars => LogInv'
<1> SUFFICES ASSUME LogInv, [Next]_vars PROVE LogInv'
  OBVIOUS
<1>1. CASE Next
  BY <1>1, SetupStep, FlyStep, PowerOffStep DEF Next
<1>2. CASE UNCHANGED vars
  <2>1. TypeOK'
    BY <1>2 DEF LogInv, TypeOK, Files, vars, chipVars, bootVars, ramVars, saveVars
  <2>2. NameInv' /\ OwnerInv' /\ OneFlightPerFile'
    BY <1>2 DEF LogInv, NameInv, OwnerInv, OneFlightPerFile, Files, vars, chipVars,
                bootVars, ramVars, saveVars
  <2> QED BY <2>1, <2>2 DEF LogInv
<1> QED BY <1>1, <1>2

-----------------------------------------------------------------------------
(* Safety                                                                  *)

\* The invariant holds in every behaviour.
THEOREM Invariant == Spec => []LogInv
  BY LogInit, LogStep, PTL DEF Spec

\* The variables keep to their types, the file names to the number of flights and
\* the files to the chip's capacity.
THEOREM TypeCorrect == Spec => []TypeOK
  BY Invariant, PTL DEF LogInv

\* No file ever holds packets of two flights, however often and whenever the power
\* goes.
THEOREM OneFlightPerFileHolds == Spec => []OneFlightPerFile
  BY Invariant, PTL DEF LogInv

-----------------------------------------------------------------------------
(* Counting tags                                                           *)

\* A set of numbers has a least one.
LEMMA Least ==
  ASSUME NEW T \in SUBSET Nat, T # {}
  PROVE  \E x \in T : \A y \in T : x <= y
<1>1. PICK x \in T : \A y \in T : ~ (<<y, x>> \in OpToRel(<, Nat))
  BY NatLessThanWellFounded, WFMin
<1>2. \A y \in T : ~(y < x)
  BY <1>1 DEF OpToRel
<1>3. \A y \in T : x \in Int /\ y \in Int
  OBVIOUS
<1> QED BY <1>2, <1>3

\* The tags counted are finitely many.
LEMMA TagsFinite ==
  ASSUME NEW s \in Seq(Cells), NEW n \in Nat
  PROVE  /\ IsFiniteSet({i \in DOMAIN s : i <= n /\ IsTag(s[i])})
         /\ TagsUpTo(s, n) \in Nat
<1>1. IsFiniteSet(1 .. Len(s)) /\ DOMAIN s = 1 .. Len(s)
  BY FS_Interval
<1>2. {i \in DOMAIN s : i <= n /\ IsTag(s[i])} \in SUBSET (1 .. Len(s))
  BY <1>1
<1>3. IsFiniteSet({i \in DOMAIN s : i <= n /\ IsTag(s[i])})
  BY <1>1, <1>2, FS_Subset
<1> QED BY <1>3, FS_CardinalityType DEF TagsUpTo

\* Cells that are no tags do not count.
LEMMA TagsSkip ==
  ASSUME NEW s \in Seq(Cells), NEW n \in Nat, NEW m \in Nat, n <= m,
         \A i \in DOMAIN s : n < i /\ i <= m => ~IsTag(s[i])
  PROVE  TagsUpTo(s, m) = TagsUpTo(s, n)
<1>1. {i \in DOMAIN s : i <= m /\ IsTag(s[i])} = {i \in DOMAIN s : i <= n /\ IsTag(s[i])}
  <2>1. \A i \in DOMAIN s : i \in Nat
    OBVIOUS
  <2> QED BY <2>1
<1> QED BY <1>1 DEF TagsUpTo

\* A tag counts one.
LEMMA TagsNext ==
  ASSUME NEW s \in Seq(Cells), NEW i \in DOMAIN s, IsTag(s[i])
  PROVE  TagsUpTo(s, i) = TagsUpTo(s, i - 1) + 1
<1> DEFINE A == {j \in DOMAIN s : j <= i - 1 /\ IsTag(s[j])}
<1>1. {j \in DOMAIN s : j <= i /\ IsTag(s[j])} = A \union {i}
  <2>1. \A j \in DOMAIN s : j \in Nat
    OBVIOUS
  <2> QED BY <2>1
<1>2. i \notin A
  OBVIOUS
<1>3. IsFiniteSet(A)
  BY TagsFinite
<1>4. TagsUpTo(s, i) = Cardinality(A \union {i}) /\ TagsUpTo(s, i - 1) = Cardinality(A)
  BY <1>1 DEF TagsUpTo
<1> QED BY <1>2, <1>3, <1>4, FS_AddElement

\* Further on there are not fewer.
LEMMA TagsMonotone ==
  ASSUME NEW s \in Seq(Cells), NEW n \in Nat, NEW m \in Nat, n <= m
  PROVE  TagsUpTo(s, n) <= TagsUpTo(s, m)
<1>1. {i \in DOMAIN s : i <= n /\ IsTag(s[i])} \in SUBSET {i \in DOMAIN s : i <= m /\ IsTag(s[i])}
  <2>1. \A i \in DOMAIN s : i \in Nat
    OBVIOUS
  <2> QED BY <2>1
<1> QED BY <1>1, TagsFinite, FS_Subset DEF TagsUpTo

\* Each tag is counted once more than those before it.
LEMMA TagsStrict ==
  ASSUME NEW s \in Seq(Cells), NEW i \in DOMAIN s, NEW j \in DOMAIN s, i < j, IsTag(s[j])
  PROVE  TagsUpTo(s, i) < TagsUpTo(s, j)
<1>1. i \in Nat /\ j - 1 \in Nat /\ i <= j - 1
  OBVIOUS
<1>2. TagsUpTo(s, i) <= TagsUpTo(s, j - 1)
  BY <1>1, TagsMonotone
<1>3. TagsUpTo(s, j) = TagsUpTo(s, j - 1) + 1
  BY TagsNext
<1>4. TagsUpTo(s, i) \in Nat /\ TagsUpTo(s, j - 1) \in Nat
  BY <1>1, TagsFinite
<1> QED BY <1>2, <1>3, <1>4

\* parse.m finds every tag, and each at its place in the order.
LEMMA MatchesFind ==
  ASSUME NEW s \in Seq(Cells), NEW k \in 1 .. TagsUpTo(s, Len(s))
  PROVE  /\ Matches(s)[k] \in DOMAIN s /\ IsTag(s[Matches(s)[k]])
         /\ TagsUpTo(s, Matches(s)[k]) = k
<1> DEFINE T == {n \in Nat : k <= TagsUpTo(s, n)}
<1>0. k \in Nat /\ k > 0 /\ \A n \in Nat : TagsUpTo(s, n) \in Nat
  <2>1. \A n \in Nat : TagsUpTo(s, n) \in Nat
    BY TagsFinite
  <2> QED BY <2>1
<1>1. Len(s) \in T
  BY <1>0
<1>2. PICK n \in T : \A m \in T : n <= m
  BY <1>1, Least
<1>3. n \in Nat /\ k <= TagsUpTo(s, n) /\ n <= Len(s)
  BY <1>1, <1>2
<1>4. n # 0
  <2>1. {i \in DOMAIN s : i <= 0 /\ IsTag(s[i])} = {}
    OBVIOUS
  <2>2. TagsUpTo(s, 0) = 0
    BY <2>1, FS_EmptySet DEF TagsUpTo
  <2> QED BY <1>0, <1>3, <2>2
<1>5. n - 1 \in Nat /\ ~(k <= TagsUpTo(s, n - 1))
  BY <1>2, <1>3, <1>4
<1>6. n \in DOMAIN s /\ IsTag(s[n])
  <2>1. n \in DOMAIN s
    BY <1>3, <1>4
  <2>2. ASSUME ~IsTag(s[n]) PROVE FALSE
    <3>1. \A i \in DOMAIN s : n - 1 < i /\ i <= n => i = n
      BY <1>3
    <3>2. TagsUpTo(s, n) = TagsUpTo(s, n - 1)
      BY <1>3, <1>5, <2>2, <3>1, TagsSkip
    <3> QED BY <1>3, <1>5, <3>2
  <2> QED BY <2>1, <2>2
<1>7. TagsUpTo(s, n) = k
  BY <1>0, <1>3, <1>5, <1>6, TagsNext
<1>8. Matches(s)[k] = CHOOSE i \in DOMAIN s : IsTag(s[i]) /\ TagsUpTo(s, i) = k
  BY DEF Matches
<1> QED BY <1>6, <1>7, <1>8

\* No other tag has the same place.
LEMMA MatchesUnique ==
  ASSUME NEW s \in Seq(Cells), NEW i \in DOMAIN s, NEW j \in DOMAIN s,
         IsTag(s[i]), IsTag(s[j]), TagsUpTo(s, i) = TagsUpTo(s, j)
  PROVE  i = j
<1>0. i \in Nat /\ j \in Nat
  OBVIOUS
<1>1. TagsUpTo(s, i) \in Nat
  BY <1>0, TagsFinite
<1>2. ~(i < j) /\ ~(j < i)
  BY <1>1, TagsStrict
<1> QED BY <1>0, <1>2

\* The matches come in the order of the file.
LEMMA MatchesRise ==
  ASSUME NEW s \in Seq(Cells), NEW k \in 1 .. TagsUpTo(s, Len(s)),
         NEW l \in 1 .. TagsUpTo(s, Len(s)), k < l
  PROVE  Matches(s)[k] < Matches(s)[l]
<1> DEFINE i == Matches(s)[k]
           j == Matches(s)[l]
<1>1. /\ i \in DOMAIN s /\ IsTag(s[i]) /\ TagsUpTo(s, i) = k
      /\ j \in DOMAIN s /\ IsTag(s[j]) /\ TagsUpTo(s, j) = l
  BY MatchesFind
<1> HIDE DEF i, j
<1>2. i \in Nat /\ j \in Nat /\ k \in Int /\ l \in Int
  BY <1>1, TagsFinite
<1>3. ~(j < i)
  BY <1>1, <1>2, TagsStrict
<1>4. i # j
  BY <1>1, <1>2
<1> QED BY <1>2, <1>3, <1>4 DEF i, j

-----------------------------------------------------------------------------
(* What a batch looks like                                                 *)

\* The cells behind cell i of the file are those of packet p behind its tag.
WholeAt(s, i, p) ==
  /\ i + 3 \in DOMAIN s
  /\ s[i + 1] = Image(p)[2] /\ s[i + 2] = Image(p)[3] /\ s[i + 3] = Image(p)[4]

\* w is packet after packet of ps and then nothing that is part of one.
Lays(w, ps) ==
  /\ 4 * Len(ps) <= Len(w)
  /\ \A k \in 1 .. Len(ps) :
       /\ w[4 * k - 3] = Image(ps[k])[1] /\ w[4 * k - 2] = Image(ps[k])[2]
       /\ w[4 * k - 1] = Image(ps[k])[3] /\ w[4 * k] = Image(ps[k])[4]
  /\ \A i \in 4 * Len(ps) + 1 .. Len(w) : w[i].kind \in {"zero", "false", "junk"}

\* The four cells of packet k.
LEMMA ImagesCells ==
  ASSUME NEW ps \in Seq(PacketsBuilt), NEW k \in 1 .. Len(ps)
  PROVE  /\ Images(ps)[4 * k - 3] = Image(ps[k])[1]
         /\ Images(ps)[4 * k - 2] = Image(ps[k])[2]
         /\ Images(ps)[4 * k - 1] = Image(ps[k])[3]
         /\ Images(ps)[4 * k] = Image(ps[k])[4]
<1> DEFINE Of(i) == ((i - 1) \div 4) + 1
           At(i) == ((i - 1) % 4) + 1
<1>1. /\ Of(4 * k - 3) = k /\ At(4 * k - 3) = 1
      /\ Of(4 * k - 2) = k /\ At(4 * k - 2) = 2
      /\ Of(4 * k - 1) = k /\ At(4 * k - 1) = 3
      /\ Of(4 * k) = k /\ At(4 * k) = 4
  OBVIOUS
<1>2. {4 * k - 3, 4 * k - 2, 4 * k - 1, 4 * k} \subseteq 1 .. 4 * Len(ps)
  OBVIOUS
<1>3. Images(ps) = [i \in 1 .. 4 * Len(ps) |-> Image(ps[Of(i)])[At(i)]]
  BY DEF Images
<1> HIDE DEF Of, At
<1> QED BY <1>1, <1>2, <1>3

\* What TakeOver hands to writeFlash is laid out so.
LEMMA SavingLays ==
  ASSUME NEW ps \in Seq(PacketsBuilt), NEW n, NEW stray \in Strays(n)
  PROVE  Lays(Images(ps) \o stray, ps)
<1> DEFINE w == Images(ps) \o stray
<1>1. /\ Images(ps) \in Seq(Cells) /\ Len(Images(ps)) = 4 * Len(ps) /\ Len(ps) \in Nat
      /\ stray \in Seq(Cells)
  BY ImagesType, StrayType
<1>2. \A i \in DOMAIN stray : stray[i].kind \in {"zero", "false", "junk"}
  BY StrayType
<1>3. /\ Len(w) = 4 * Len(ps) + Len(stray)
      /\ \A i \in 1 .. 4 * Len(ps) + Len(stray) :
           w[i] = IF i <= 4 * Len(ps) THEN Images(ps)[i] ELSE stray[i - 4 * Len(ps)]
  <2>1. /\ Len(w) = Len(Images(ps)) + Len(stray)
        /\ \A i \in 1 .. Len(Images(ps)) + Len(stray) :
             w[i] = IF i <= Len(Images(ps)) THEN Images(ps)[i] ELSE stray[i - Len(Images(ps))]
    BY <1>1, ConcatProperties
  <2> QED BY <1>1, <2>1
<1> HIDE DEF w
<1>4. ASSUME NEW k \in 1 .. Len(ps)
      PROVE  /\ w[4 * k - 3] = Image(ps[k])[1] /\ w[4 * k - 2] = Image(ps[k])[2]
             /\ w[4 * k - 1] = Image(ps[k])[3] /\ w[4 * k] = Image(ps[k])[4]
  <2>1. \A i \in {4 * k - 3, 4 * k - 2, 4 * k - 1, 4 * k} : w[i] = Images(ps)[i]
    BY <1>1, <1>3
  <2> QED BY <2>1, ImagesCells
<1>5. ASSUME NEW i \in 4 * Len(ps) + 1 .. Len(w)
      PROVE  w[i].kind \in {"zero", "false", "junk"}
  <2>1. i - 4 * Len(ps) \in DOMAIN stray /\ w[i] = stray[i - 4 * Len(ps)]
    BY <1>1, <1>3
  <2> QED BY <1>2, <2>1
<1> QED BY SMTT(30), <1>1, <1>3, <1>4, <1>5 DEF Lays, w

\* A tag or a body in it is that of a packet.
LEMMA LaysKinds ==
  ASSUME NEW ps \in Seq(PacketsBuilt), NEW w \in Seq(Cells), Lays(w, ps),
         NEW i \in DOMAIN w
  PROVE  /\ w[i] = Tag => \E k \in 1 .. Len(ps) : i = 4 * k - 3
         /\ w[i].kind = "body" => \E k \in 1 .. Len(ps) : i = 4 * k - 2
<1>1. Tag.kind = "tag"
  BY DEF Tag, Cell
<1>2. CASE i > 4 * Len(ps)
  <2>1. i \in 4 * Len(ps) + 1 .. Len(w)
    BY <1>2
  <2>2. w[i].kind \in {"zero", "false", "junk"}
    BY <2>1 DEF Lays
  <2> QED BY <1>1, <2>2
<1>3. CASE i <= 4 * Len(ps)
  <2>1. PICK k \in 1 .. Len(ps) : i \in {4 * k - 3, 4 * k - 2, 4 * k - 1, 4 * k}
    <3> DEFINE k == ((i - 1) \div 4) + 1
    <3>1. Len(ps) \in Nat /\ i \in Nat /\ i >= 1
      OBVIOUS
    <3>2. ASSUME NEW m \in Nat, NEW j \in Nat, j >= 1, j <= 4 * m
          PROVE  /\ ((j - 1) \div 4) + 1 \in 1 .. m
                 /\ j \in {4 * (((j - 1) \div 4) + 1) - 3, 4 * (((j - 1) \div 4) + 1) - 2,
                           4 * (((j - 1) \div 4) + 1) - 1, 4 * (((j - 1) \div 4) + 1)}
      BY <3>2
    <3>3. k \in 1 .. Len(ps) /\ i \in {4 * k - 3, 4 * k - 2, 4 * k - 1, 4 * k}
      BY <1>3, <3>1, <3>2
    <3> QED BY <3>3
  <2>2. /\ w[4 * k - 3] = Image(ps[k])[1] /\ w[4 * k - 2] = Image(ps[k])[2]
        /\ w[4 * k - 1] = Image(ps[k])[3] /\ w[4 * k] = Image(ps[k])[4]
    BY DEF Lays
  <2>3. /\ Image(ps[k])[1].kind = "tag" /\ Image(ps[k])[2].kind = "body"
        /\ Image(ps[k])[3].kind \in {"false", "rest"} /\ Image(ps[k])[4].kind = "end"
    <3>1. ps[k] \in PacketsBuilt
      OBVIOUS
    <3> QED BY <1>1, <3>1, ImageType
  <2>4. CASE i = 4 * k - 3
    BY <2>2, <2>3, <2>4
  <2>5. CASE i = 4 * k - 2
    BY <1>1, <2>2, <2>3, <2>5
  <2>6. CASE i = 4 * k - 1
    BY <1>1, <2>2, <2>3, <2>6
  <2>7. CASE i = 4 * k
    BY <1>1, <2>2, <2>3, <2>7
  <2> QED BY <2>1, <2>4, <2>5, <2>6, <2>7
<1> QED BY <1>2, <1>3

-----------------------------------------------------------------------------
(* The invariant of what is read                                           *)

\* Nothing more will be written to file f: it is not the one of a running flight, or
\* the chip is full.
Sealed(f) == ~(pc = "flying" /\ f = fn /\ used < Capacity)

\* What is being written is the batch.
SaveInv == Lays(saving, batch)

\* Behind every tag lies its packet, except where a file that nothing more will be
\* written to ends before the packet does.
TagInv ==
  \A f \in Files : \A i \in DOMAIN chip[f] :
    chip[f][i] = Tag =>
      \/ \E p \in PacketsBuilt : WholeAt(chip[f], i, p)
      \/ Sealed(f) /\ i + 3 > Len(chip[f])

\* Each of them is later than those before it.
Rising(ps) == \A i, j \in DOMAIN ps : i < j => ps[i].n < ps[j].n
BodiesRise(s) ==
  \A i, j \in DOMAIN s :
    i < j /\ s[i].kind = "body" /\ s[j].kind = "body" => s[i].n < s[j].n

\* From the file over the batch being written and the buffer to the packet built last,
\* every packet is later than those before it.
OrderInv ==
  /\ \A f \in Files : BodiesRise(chip[f])
  /\ Rising(pending) /\ Rising(batch)
  /\ \A j \in DOMAIN pending :
       pending[j].n <= built /\ \A i \in DOMAIN batch : batch[i].n < pending[j].n
  /\ \A j \in DOMAIN batch : batch[j].n <= built
  /\ pc = "flying" =>
       \A i \in DOMAIN chip[fn] : chip[fn][i].kind = "body" =>
         /\ chip[fn][i].n <= built
         /\ \A j \in DOMAIN batch : chip[fn][i].n < batch[j].n
         /\ \A j \in DOMAIN pending : chip[fn][i].n < pending[j].n

\* The packets of the batches written whole are in the file, in the order they were
\* built in.
KeptInv ==
  \A f \in Files :
    /\ Rising(kept[f])
    /\ \A k \in DOMAIN kept[f] : \E i \in DOMAIN chip[f] :
         chip[f][i] = Tag /\ WholeAt(chip[f], i, kept[f][k])

ReadInv == SaveInv /\ TagInv /\ OrderInv /\ KeptInv

\* A packet that is whole stays so when more is appended.
LEMMA WholeStays ==
  ASSUME NEW s \in Seq(Cells), NEW t \in Seq(Cells), Len(s) <= Len(t),
         \A i \in 1 .. Len(s) : t[i] = s[i],
         NEW i \in DOMAIN s, NEW p, WholeAt(s, i, p)
  PROVE  WholeAt(t, i, p)
<1>1. {i + 1, i + 2, i + 3} \subseteq 1 .. Len(s) /\ i + 3 \in 1 .. Len(t)
  BY DEF WholeAt
<1> QED BY <1>1 DEF WholeAt

\* What every write does to the file of the flight.
LEMMA WriteLays ==
  ASSUME LogInv, pc = "flying", NEW n \in 0 .. Len(saving), used + n <= Capacity,
         Write(SubSeq(saving, 1, n))
  PROVE  /\ fn \in Files /\ saving \in Seq(Cells) /\ batch \in Seq(PacketsBuilt)
         /\ DOMAIN chip' = Files /\ used' = used + n /\ saving' = <<>> /\ batch' = <<>>
         /\ \A f \in Files : chip[f] \in Seq(Cells) /\ chip'[f] \in Seq(Cells)
         /\ \A f \in Files \ {fn} : chip'[f] = chip[f]
         /\ Len(chip'[fn]) = Len(chip[fn]) + n
         /\ \A i \in 1 .. Len(chip[fn]) : chip'[fn][i] = chip[fn][i]
         /\ \A i \in 1 .. n : chip'[fn][Len(chip[fn]) + i] = saving[i]
<1>1. /\ fn \in Files /\ saving \in Seq(Cells) /\ batch \in Seq(PacketsBuilt)
      /\ \A f \in Files : chip[f] \in Seq(Cells)
  BY DEF LogInv, TypeOK, NameInv
<1>2. /\ DOMAIN chip' = Files
      /\ \A f \in Files : chip'[f] \in Seq(Cells)
      /\ \A f \in Files \ {fn} : chip'[f] = chip[f]
      /\ chip'[fn] = chip[fn] \o SubSeq(saving, 1, n)
  BY WriteStep
<1>3. used' = used + n /\ saving' = <<>> /\ batch' = <<>>
  <2>1. Len(SubSeq(saving, 1, n)) = n
    BY <1>1
  <2> QED BY <2>1 DEF Write
<1>4. PICK s \in Seq(Cells) : s = chip[fn]
  BY <1>1
<1>5. PICK t : t = chip'[fn]
  OBVIOUS
<1>6. PICK q \in Seq(Cells) : q = SubSeq(saving, 1, n)
  <2>1. SubSeq(saving, 1, n) \in Seq(Cells)
    BY <1>1
  <2> QED BY <2>1
<1>7. Len(q) = n /\ \A i \in 1 .. n : q[i] = saving[i]
  BY <1>1, <1>6
<1>8. t = s \o q
  BY <1>2, <1>4, <1>5, <1>6, Zenon
<1>9. /\ Len(s \o q) = Len(s) + Len(q)
      /\ \A i \in 1 .. Len(s) + Len(q) :
           (s \o q)[i] = IF i <= Len(s) THEN s[i] ELSE q[i - Len(s)]
  BY ConcatProperties
<1>10. /\ Len(t) = Len(s) + n
       /\ \A i \in 1 .. Len(s) + n : t[i] = IF i <= Len(s) THEN s[i] ELSE q[i - Len(s)]
  BY <1>7, <1>8, <1>9, Zenon
<1>11. Len(s) \in Nat /\ n \in Nat
  BY <1>1, <1>4
<1>12. \A i \in 1 .. Len(s) : t[i] = s[i]
  BY <1>10, <1>11
<1>13. \A i \in 1 .. n : t[Len(s) + i] = saving[i]
  <2>1. \A i \in 1 .. n : /\ Len(s) + i \in 1 .. Len(s) + n /\ ~(Len(s) + i <= Len(s))
                          /\ (Len(s) + i) - Len(s) = i
    BY <1>11
  <2> QED BY <1>7, <1>10, <2>1
<1> QED BY <1>1, <1>2, <1>3, <1>4, <1>5, <1>10, <1>12, <1>13

\* A write leaves a tag without its packet only at the end of a file that is done with.
LEMMA WriteTags ==
  ASSUME LogInv, SaveInv, TagInv, pc = "flying", NEW n \in 0 .. Len(saving),
         used + n <= Capacity, Write(SubSeq(saving, 1, n)),
         \A f \in Files : Sealed(f) => Sealed(f)',
         fn' = fn, n < Len(saving) => Sealed(fn)'
  PROVE  TagInv'
<1> DEFINE s == chip[fn]
           t == chip'[fn]
<1>1. /\ fn \in Files /\ saving \in Seq(Cells) /\ batch \in Seq(PacketsBuilt)
      /\ DOMAIN chip' = Files
      /\ s \in Seq(Cells) /\ t \in Seq(Cells)
      /\ \A f \in Files \ {fn} : chip'[f] = chip[f]
      /\ Len(t) = Len(s) + n
      /\ \A i \in 1 .. Len(s) : t[i] = s[i]
      /\ \A i \in 1 .. n : t[Len(s) + i] = saving[i]
  BY WriteLays
<1>2. Len(s) \in Nat /\ n \in Nat /\ Len(batch) \in Nat /\ Len(saving) \in Nat
      /\ n <= Len(saving) /\ used \in Nat /\ Capacity \in Nat
  BY <1>1, BoundTypes DEF LogInv, TypeOK
<1>3. \A i \in DOMAIN s : s[i] = Tag =>
        \/ \E p \in PacketsBuilt : WholeAt(s, i, p)
        \/ Sealed(fn) /\ i + 3 > Len(s)
  BY <1>1 DEF TagInv
<1> HIDE DEF s, t
<1>4. ASSUME NEW i \in DOMAIN t, t[i] = Tag
      PROVE  \/ \E p \in PacketsBuilt : WholeAt(t, i, p)
             \/ Sealed(fn)' /\ i + 3 > Len(t)
  <2>1. CASE i <= Len(s)
    <3>1. i \in DOMAIN s /\ s[i] = Tag
      BY <1>1, <1>2, <1>4, <2>1
    <3>2. CASE \E p \in PacketsBuilt : WholeAt(s, i, p)
      <4>1. PICK p \in PacketsBuilt : WholeAt(s, i, p)
        BY <3>2
      <4>2. WholeAt(t, i, p)
        <5>1. Len(s) <= Len(t)
          BY <1>1, <1>2
        <5> QED BY <1>1, <3>1, <4>1, <5>1, WholeStays
      <4> QED BY <4>2
    <3>3. CASE Sealed(fn) /\ i + 3 > Len(s)
      <4>1. n = 0
        BY <1>2, <3>3 DEF Sealed
      <4>2. Len(t) = Len(s)
        BY <1>1, <1>2, <4>1
      <4>3. Sealed(fn)'
        BY <1>1, <3>3 DEF Sealed
      <4> QED BY <3>3, <4>2, <4>3
    <3> QED BY <1>3, <3>1, <3>2, <3>3
  <2>2. CASE ~(i <= Len(s))
    <3>1. i \in Nat /\ i - Len(s) \in 1 .. n /\ Len(s) + (i - Len(s)) = i
      BY <1>1, <1>2, <2>2
    <3>2. saving[i - Len(s)] = Tag /\ i - Len(s) \in DOMAIN saving
      BY <1>1, <1>2, <1>4, <3>1
    <3>3. PICK k \in 1 .. Len(batch) : i - Len(s) = 4 * k - 3
      BY <1>1, <3>2, LaysKinds DEF SaveInv
    <3>4. CASE 4 * k <= n
      <4>1. /\ saving[4 * k - 2] = Image(batch[k])[2]
            /\ saving[4 * k - 1] = Image(batch[k])[3] /\ saving[4 * k] = Image(batch[k])[4]
        BY DEF SaveInv, Lays
      <4>2. /\ 4 * k - 2 \in 1 .. n /\ 4 * k - 1 \in 1 .. n /\ 4 * k \in 1 .. n
            /\ i + 1 = Len(s) + (4 * k - 2) /\ i + 2 = Len(s) + (4 * k - 1)
            /\ i + 3 = Len(s) + 4 * k /\ i + 3 \in 1 .. Len(s) + n
        <5>1. k \in Nat /\ k >= 1 /\ Len(s) \in Nat /\ n \in Nat
          BY <1>2, <3>3
        <5>2. i = Len(s) + (4 * k - 3)
          BY <3>1, <3>3
        <5> QED BY <3>4, <5>1, <5>2
      <4>3. i + 3 \in DOMAIN t
        BY <1>1, <4>2
      <4>4. WholeAt(t, i, batch[k])
        <5>1. /\ t[Len(s) + (4 * k - 2)] = saving[4 * k - 2]
              /\ t[Len(s) + (4 * k - 1)] = saving[4 * k - 1]
              /\ t[Len(s) + 4 * k] = saving[4 * k]
          BY <1>1, <4>2, Zenon
        <5>2. /\ t[i + 1] = saving[4 * k - 2] /\ t[i + 2] = saving[4 * k - 1]
              /\ t[i + 3] = saving[4 * k]
          BY <4>2, <5>1, Zenon
        <5> QED BY <4>1, <4>3, <5>2, Zenon DEF WholeAt
      <4>5. batch[k] \in PacketsBuilt
        BY <1>1
      <4> QED BY <4>4, <4>5
    <3>5. CASE ~(4 * k <= n)
      <4>1. 4 * Len(batch) <= Len(saving)
        BY DEF SaveInv, Lays
      <4>2. n < Len(saving)
        BY <1>2, <3>5, <4>1
      <4>3. i + 3 > Len(t)
        <5>1. k \in Nat /\ Len(s) \in Nat /\ n \in Nat
          BY <1>2, <3>3
        <5>2. i = Len(s) + (4 * k - 3) /\ Len(t) = Len(s) + n
          BY <1>1, <1>2, <3>1, <3>3
        <5> QED BY <3>5, <5>1, <5>2
      <4> QED BY <4>2, <4>3
    <3> QED BY <3>4, <3>5
  <2> QED BY <2>1, <2>2
<1>5. ASSUME NEW f \in Files \ {fn}, NEW i \in DOMAIN chip'[f], chip'[f][i] = Tag
      PROVE  \/ \E p \in PacketsBuilt : WholeAt(chip'[f], i, p)
             \/ Sealed(f)' /\ i + 3 > Len(chip'[f])
  <2>1. chip'[f] = chip[f] /\ (Sealed(f) => Sealed(f)')
    BY <1>1
  <2> QED BY <1>5, <2>1 DEF TagInv
<1> HIDE DEF TagInv
<1>6. \A f \in DOMAIN chip' : \A i \in DOMAIN chip'[f] : chip'[f][i] = Tag =>
        \/ \E p \in PacketsBuilt : WholeAt(chip'[f], i, p)
        \/ Sealed(f)' /\ i + 3 > Len(chip'[f])
  BY <1>1, <1>4, <1>5 DEF t, Sealed
<1> QED BY <1>6 DEF TagInv, Files

\* Its packets follow those of the file, and those in the buffer follow them.
LEMMA WriteOrder ==
  ASSUME LogInv, SaveInv, OrderInv, pc = "flying", NEW n \in 0 .. Len(saving),
         used + n <= Capacity, Write(SubSeq(saving, 1, n)),
         \/ pc' = "off" /\ pending' = <<>>
         \/ pc' = pc /\ fn' = fn /\ built' = built /\ pending' = pending
  PROVE  OrderInv'
<1> DEFINE s == chip[fn]
           t == chip'[fn]
<1>1. /\ fn \in Files /\ saving \in Seq(Cells) /\ batch \in Seq(PacketsBuilt)
      /\ DOMAIN chip' = Files /\ batch' = <<>>
      /\ s \in Seq(Cells) /\ t \in Seq(Cells)
      /\ \A f \in Files \ {fn} : chip'[f] = chip[f]
      /\ Len(t) = Len(s) + n
      /\ \A i \in 1 .. Len(s) : t[i] = s[i]
      /\ \A i \in 1 .. n : t[Len(s) + i] = saving[i]
  BY WriteLays
<1>2. Len(s) \in Nat /\ n \in Nat /\ Len(batch) \in Nat /\ Len(saving) \in Nat
      /\ n <= Len(saving)
  BY <1>1
<1>3. /\ BodiesRise(s)
      /\ \A i \in DOMAIN s : s[i].kind = "body" =>
           /\ s[i].n <= built
           /\ \A j \in DOMAIN batch : s[i].n < batch[j].n
           /\ \A j \in DOMAIN pending : s[i].n < pending[j].n
  BY <1>1 DEF OrderInv
<1> HIDE DEF s, t
<1>4. ASSUME NEW i \in DOMAIN t, t[i].kind = "body", ~(i <= Len(s))
      PROVE  \E k \in DOMAIN batch : i = Len(s) + (4 * k - 2) /\ t[i].n = batch[k].n
  <2>1. i \in Nat /\ i - Len(s) \in 1 .. n /\ Len(s) + (i - Len(s)) = i
    BY <1>1, <1>2, <1>4
  <2>2. saving[i - Len(s)] = t[i] /\ i - Len(s) \in DOMAIN saving
    BY <1>1, <1>2, <2>1
  <2>3. PICK k \in 1 .. Len(batch) : i - Len(s) = 4 * k - 2
    BY <1>1, <1>4, <2>2, LaysKinds DEF SaveInv
  <2>4. t[i] = Image(batch[k])[2]
    BY <2>2, <2>3 DEF SaveInv, Lays
  <2>5. k \in DOMAIN batch /\ batch[k] \in PacketsBuilt /\ i = Len(s) + (4 * k - 2)
    BY <1>1, <1>2, <2>1, <2>3
  <2> QED BY <2>4, <2>5, ImageType
<1>5. \A i \in DOMAIN t : i <= Len(s) => i \in DOMAIN s /\ t[i] = s[i]
  BY <1>1, <1>2
<1>6. BodiesRise(t)
  <2> SUFFICES ASSUME NEW i \in DOMAIN t, NEW j \in DOMAIN t, i < j,
                      t[i].kind = "body", t[j].kind = "body"
               PROVE  t[i].n < t[j].n
    BY DEF BodiesRise
  <2>0. i \in Nat /\ j \in Nat
    BY <1>1
  <2>1. CASE j <= Len(s)
    <3>1. i <= Len(s)
      BY <1>2, <2>0, <2>1
    <3> QED BY <1>3, <1>5, <2>1, <3>1 DEF BodiesRise
  <2>2. CASE ~(j <= Len(s)) /\ i <= Len(s)
    BY <1>3, <1>4, <1>5, <2>2
  <2>3. CASE ~(j <= Len(s)) /\ ~(i <= Len(s))
    <3>1. PICK k \in DOMAIN batch : i = Len(s) + (4 * k - 2) /\ t[i].n = batch[k].n
      BY <1>4, <2>3
    <3>2. PICK l \in DOMAIN batch : j = Len(s) + (4 * l - 2) /\ t[j].n = batch[l].n
      BY <1>4, <2>3
    <3>3. k \in Nat /\ l \in Nat
      BY <1>1
    <3>4. k < l
      BY <1>2, <3>1, <3>2, <3>3
    <3> QED BY <3>1, <3>2, <3>4 DEF OrderInv, Rising
  <2> QED BY <2>1, <2>2, <2>3
<1>7. \A i \in DOMAIN t : t[i].kind = "body" =>
        t[i].n <= built /\ \A j \in DOMAIN pending : t[i].n < pending[j].n
  <2> SUFFICES ASSUME NEW i \in DOMAIN t, t[i].kind = "body"
               PROVE  t[i].n <= built /\ \A j \in DOMAIN pending : t[i].n < pending[j].n
    OBVIOUS
  <2>1. CASE i <= Len(s)
    BY <1>3, <1>5, <2>1
  <2>2. CASE ~(i <= Len(s))
    BY <1>4, <2>2 DEF OrderInv
  <2> QED BY <2>1, <2>2
<1>8. \A f \in DOMAIN chip' : BodiesRise(chip'[f])
  BY <1>1, <1>6 DEF OrderInv, t, Files
<1>9. Rising(batch') /\ DOMAIN batch' = {}
  BY <1>1 DEF Rising
<1>10. CASE pc' = "off" /\ pending' = <<>>
  <2>1. Rising(pending') /\ DOMAIN pending' = {}
    BY <1>10 DEF Rising
  <2> QED BY <1>8, <1>9, <1>10, <2>1 DEF OrderInv, Files
<1>11. CASE pc' = pc /\ fn' = fn /\ built' = built /\ pending' = pending
  BY <1>7, <1>8, <1>9, <1>11 DEF OrderInv, Files, t
<1> QED BY <1>10, <1>11

\* The packets kept stay in the file, and those of the batch just written follow them.
LEMMA WriteKept ==
  ASSUME LogInv, SaveInv, OrderInv, KeptInv, pc = "flying", NEW n \in 0 .. Len(saving),
         used + n <= Capacity, Write(SubSeq(saving, 1, n)),
         \/ UNCHANGED kept
         \/ n = Len(saving) /\ kept' = [kept EXCEPT ![fn] = @ \o batch]
  PROVE  KeptInv'
<1> DEFINE s == chip[fn]
           t == chip'[fn]
           Found(u, p) == \E i \in DOMAIN u : u[i] = Tag /\ WholeAt(u, i, p)
           AllFound(u, ps) == Rising(ps) /\ \A k \in DOMAIN ps : Found(u, ps[k])
<1>1. /\ fn \in Files /\ saving \in Seq(Cells) /\ batch \in Seq(PacketsBuilt)
      /\ DOMAIN chip' = Files
      /\ s \in Seq(Cells) /\ t \in Seq(Cells)
      /\ \A f \in Files \ {fn} : chip'[f] = chip[f]
      /\ Len(t) = Len(s) + n
      /\ \A i \in 1 .. Len(s) : t[i] = s[i]
      /\ \A i \in 1 .. n : t[Len(s) + i] = saving[i]
  BY WriteLays
<1>2. /\ Len(s) \in Nat /\ n \in Nat /\ Len(batch) \in Nat /\ Len(saving) \in Nat
      /\ kept[fn] \in Seq(PacketsBuilt) /\ DOMAIN kept = Files
  BY <1>1 DEF LogInv, TypeOK
<1>3. AllFound(s, kept[fn])
  BY <1>1 DEF KeptInv
<1>4. \A i \in DOMAIN s : s[i].kind = "body" => \A j \in DOMAIN batch : s[i].n < batch[j].n
  BY DEF OrderInv
<1> HIDE DEF s, t
<1>5. ASSUME NEW p, Found(s, p)
      PROVE  Found(t, p)
  <2>1. PICK i \in DOMAIN s : s[i] = Tag /\ WholeAt(s, i, p)
    BY <1>5
  <2>2. i \in DOMAIN t /\ t[i] = s[i] /\ Len(s) <= Len(t)
    <3>1. i \in 1 .. Len(s) /\ Len(t) = Len(s) + n /\ DOMAIN t = 1 .. Len(t)
      BY <1>1
    <3> QED BY <1>1, <1>2, <3>1
  <2>3. WholeAt(t, i, p)
    BY <1>1, <2>1, <2>2, WholeStays
  <2> QED BY <2>1, <2>2, <2>3
<1>6. ASSUME NEW f \in Files \ {fn}
      PROVE  AllFound(chip'[f], kept'[f])
  <2>1. chip'[f] = chip[f] /\ kept'[f] = kept[f]
    BY <1>1, <1>2
  <2> QED BY <2>1 DEF KeptInv
<1>7. AllFound(t, kept'[fn])
  <2>1. CASE UNCHANGED kept
    <3>1. \A k \in DOMAIN kept[fn] : Found(t, kept[fn][k])
      BY <1>3, <1>5
    <3> QED BY <1>3, <2>1, <3>1
  <2>2. CASE n = Len(saving) /\ kept' = [kept EXCEPT ![fn] = @ \o batch]
    <3>1. PICK a \in Seq(PacketsBuilt) : a = kept[fn]
      BY <1>2
    <3>2. PICK b \in Seq(PacketsBuilt) : b = batch
      BY <1>1
    <3>3. kept'[fn] = a \o b
      BY <1>1, <1>2, <2>2, <3>1, <3>2
    <3>4. /\ a \o b \in Seq(PacketsBuilt) /\ Len(a \o b) = Len(a) + Len(b)
          /\ Len(a) \in Nat /\ Len(b) \in Nat
          /\ \A k \in 1 .. Len(a) + Len(b) :
               (a \o b)[k] = IF k <= Len(a) THEN a[k] ELSE b[k - Len(a)]
      BY ConcatProperties
    <3>5. PICK u \in Seq(PacketsBuilt) : u = a \o b
      BY <3>4
    <3>6. \A k \in DOMAIN u :
            \/ k \in DOMAIN a /\ u[k] = a[k]
            \/ k > Len(a) /\ k - Len(a) \in DOMAIN b /\ u[k] = b[k - Len(a)]
      <4>1. /\ Len(u) = Len(a) + Len(b)
            /\ \A k \in 1 .. Len(a) + Len(b) :
                 u[k] = IF k <= Len(a) THEN a[k] ELSE b[k - Len(a)]
        BY <3>4, <3>5, Zenon
      <4> QED BY <3>4, <4>1
    <3>7. \A k \in DOMAIN a : Found(t, a[k])
      BY <1>3, <1>5, <3>1
    <3>8. ASSUME NEW k \in DOMAIN b
          PROVE  Found(t, b[k])
      <4> DEFINE i == Len(s) + (4 * k - 3)
      <4>1. /\ saving[4 * k - 3] = Image(b[k])[1] /\ saving[4 * k - 2] = Image(b[k])[2]
            /\ saving[4 * k - 1] = Image(b[k])[3] /\ saving[4 * k] = Image(b[k])[4]
            /\ Image(b[k])[1] = Tag
        <5>1. k \in 1 .. Len(batch) /\ b[k] \in PacketsBuilt
          BY <3>2
        <5> QED BY <3>2, <5>1, ImageType DEF SaveInv, Lays
      <4>2. /\ {4 * k - 3, 4 * k - 2, 4 * k - 1, 4 * k} \subseteq 1 .. n
            /\ i + 1 = Len(s) + (4 * k - 2) /\ i + 2 = Len(s) + (4 * k - 1)
            /\ i + 3 = Len(s) + 4 * k /\ {i, i + 3} \subseteq 1 .. Len(s) + n
        <5>1. 4 * Len(b) <= n /\ k \in 1 .. Len(b)
          BY <2>2, <3>2 DEF SaveInv, Lays
        <5>2. PICK y \in Nat : y = Len(b)
          BY <3>4
        <5>3. PICK l \in Nat : l = Len(s)
          BY <1>2
        <5>4. k \in Nat /\ k >= 1 /\ k <= y /\ 4 * y <= n /\ n \in Nat
          BY <1>2, <5>1, <5>2
        <5>5. 4 * k - 3 \in 1 .. n /\ 4 * k - 2 \in 1 .. n /\ 4 * k - 1 \in 1 .. n /\ 4 * k \in 1 .. n
          BY SMTT(30), <5>4
        <5>6. /\ l + (4 * k - 3) + 1 = l + (4 * k - 2)
              /\ l + (4 * k - 3) + 2 = l + (4 * k - 1)
              /\ l + (4 * k - 3) + 3 = l + 4 * k
          BY SMTT(30), <5>4
        <5>7. l + (4 * k - 3) \in 1 .. l + n /\ l + 4 * k \in 1 .. l + n
          BY SMTT(30), <5>4
        <5> QED BY <5>3, <5>5, <5>6, <5>7
      <4>3. i \in DOMAIN t /\ i + 3 \in DOMAIN t
        BY <1>1, <4>2
      <4>4. t[i] = Tag /\ WholeAt(t, i, b[k])
        <5>1. \A j \in {4 * k - 3, 4 * k - 2, 4 * k - 1, 4 * k} : t[Len(s) + j] = saving[j]
          BY <1>1, <4>2, Zenon
        <5>2. /\ t[i] = saving[4 * k - 3] /\ t[i + 1] = saving[4 * k - 2]
              /\ t[i + 2] = saving[4 * k - 1] /\ t[i + 3] = saving[4 * k]
          BY <4>2, <5>1, Zenon
        <5> QED BY <4>1, <4>3, <5>2, Zenon DEF WholeAt
      <4> QED BY <4>3, <4>4
    <3>9. ASSUME NEW k \in DOMAIN a, NEW l \in DOMAIN b
          PROVE  a[k].n < b[l].n
      <4>1. PICK i \in DOMAIN s : WholeAt(s, i, a[k])
        BY <1>3, <3>1
      <4>2. i + 1 \in DOMAIN s
        BY SMTT(30), <1>1, <4>1 DEF WholeAt
      <4>3. s[i + 1].kind = "body" /\ s[i + 1].n = a[k].n
        <5>1. a[k] \in PacketsBuilt
          OBVIOUS
        <5> QED BY <4>1, <5>1, ImageType DEF WholeAt
      <4> QED BY <1>4, <3>2, <4>2, <4>3
    <3>10. Rising(u)
      <4> SUFFICES ASSUME NEW k \in DOMAIN u, NEW l \in DOMAIN u, k < l
                   PROVE  u[k].n < u[l].n
        BY DEF Rising
      <4>0. k \in Nat /\ l \in Nat /\ Len(a) \in Nat
        BY <3>4
      <4>1. CASE l \in DOMAIN a /\ u[l] = a[l]
        <5>1. k \in DOMAIN a /\ u[k] = a[k]
          BY <3>6, <4>0, <4>1
        <5> QED BY <1>3, <3>1, <4>1, <5>1 DEF Rising
      <4>2. CASE /\ l > Len(a) /\ l - Len(a) \in DOMAIN b /\ u[l] = b[l - Len(a)]
                 /\ k \in DOMAIN a /\ u[k] = a[k]
        BY <3>9, <4>2
      <4>3. CASE /\ l > Len(a) /\ l - Len(a) \in DOMAIN b /\ u[l] = b[l - Len(a)]
                 /\ k > Len(a) /\ k - Len(a) \in DOMAIN b /\ u[k] = b[k - Len(a)]
        <5>1. k - Len(a) < l - Len(a) /\ Rising(b)
          BY <3>2, <4>0 DEF OrderInv
        <5> QED BY <4>3, <5>1 DEF Rising
      <4> QED BY <3>6, <4>1, <4>2, <4>3
    <3>11. \A k \in DOMAIN u : Found(t, u[k])
      BY <3>6, <3>7, <3>8
    <3> QED BY <3>3, <3>5, <3>10, <3>11
  <2> QED BY <2>1, <2>2
<1>8. \A f \in DOMAIN chip' : AllFound(chip'[f], kept'[f])
  <2> HIDE DEF AllFound
  <2> QED BY <1>1, <1>6, <1>7 DEF t
<1> QED BY <1>8 DEF KeptInv, Files, Rising, WholeAt

-----------------------------------------------------------------------------
(* Every step keeps it                                                     *)

\* A step that writes nothing changes nothing of what is read, as long as no file that
\* was done with is written to again.
LEMMA QuietStep ==
  ASSUME TagInv, KeptInv, UNCHANGED <<chip, kept>>, \A f \in Files : Sealed(f) => Sealed(f)'
  PROVE  TagInv' /\ KeptInv'
<1>1. TagInv'
  <2> SUFFICES ASSUME NEW f \in Files, NEW i \in DOMAIN chip[f], chip[f][i] = Tag
               PROVE  \/ \E p \in PacketsBuilt : WholeAt(chip[f], i, p)
                      \/ Sealed(f)' /\ i + 3 > Len(chip[f])
    BY DEF TagInv, Files
  <2> QED BY DEF TagInv
<1>2. KeptInv'
  BY DEF KeptInv, Files, Rising, WholeAt
<1> QED BY <1>1, <1>2

\* While nothing is being written the batch is empty.
LEMMA NoBatch ==
  ASSUME LogInv, SaveInv, saving = <<>>
  PROVE  batch = <<>>
<1>1. batch \in Seq(PacketsBuilt) /\ 4 * Len(batch) <= Len(saving)
  BY DEF LogInv, TypeOK, SaveInv, Lays
<1>2. Len(batch) = 0
  BY <1>1
<1> QED BY <1>1, <1>2

\* No packets are laid out in no cells.
LEMMA LaysNothing == Lays(<<>>, <<>>)
  BY DEF Lays

\* setup() writes no packet, and the file it makes is empty.
LEMMA SetupReads ==
  ASSUME LogInv, ReadInv, Setup
  PROVE  ReadInv'
<1> USE DEF chipVars, bootVars, ramVars, saveVars
<1>1. SaveInv' /\ Rising(pending') /\ Rising(batch')
  <2>1. UNCHANGED <<saving, batch, pending>>
    BY DEF Setup, PowerOn, Mount, Halt, Search, Create
  <2> QED BY <2>1 DEF ReadInv, SaveInv, OrderInv
<1>2. CASE Setup /\ ~Create
  <2>1. /\ UNCHANGED <<chip, kept, used, pending, batch, built>>
        /\ pc # "flying" /\ pc' # "flying"
    BY <1>2 DEF Setup, PowerOn, Mount, Halt, Search
  <2>2. \A f \in Files : Sealed(f)'
    BY <2>1 DEF Sealed
  <2>3. TagInv' /\ KeptInv'
    BY <2>1, <2>2, QuietStep DEF ReadInv
  <2>4. OrderInv'
    BY <1>1, <2>1 DEF ReadInv, OrderInv, Files
  <2> QED BY <1>1, <2>3, <2>4 DEF ReadInv
<1>3. CASE Create
  <2>1. /\ fn \notin Files /\ fn' = fn /\ used' = used /\ pc = "create" /\ pc' = "flying"
        /\ DOMAIN chip' = Files \union {fn} /\ chip'[fn] = <<>>
        /\ DOMAIN kept' = Files \union {fn} /\ kept'[fn] = <<>>
        /\ \A f \in Files : chip'[f] = chip[f] /\ kept'[f] = kept[f]
    BY <1>3 DEF Create, LogInv, TypeOK, NameInv
  <2>2. \A f \in Files : Sealed(f) /\ Sealed(f)'
    BY <2>1 DEF Sealed
  <2>3. TagInv'
    <3> SUFFICES ASSUME NEW f \in DOMAIN chip', NEW i \in DOMAIN chip'[f], chip'[f][i] = Tag
                 PROVE  \/ \E p \in PacketsBuilt : WholeAt(chip'[f], i, p)
                        \/ Sealed(f)' /\ i + 3 > Len(chip'[f])
      BY DEF TagInv, Files
    <3>1. f \in Files /\ chip'[f] = chip[f]
      BY <2>1
    <3> QED BY <2>2, <3>1 DEF ReadInv, TagInv
  <2>4. KeptInv'
    <3> SUFFICES ASSUME NEW f \in DOMAIN chip'
                 PROVE  /\ Rising(kept'[f])
                        /\ \A k \in DOMAIN kept'[f] : \E i \in DOMAIN chip'[f] :
                             chip'[f][i] = Tag /\ WholeAt(chip'[f], i, kept'[f][k])
      BY DEF KeptInv, Files, Rising, WholeAt
    <3>1. CASE f \in Files
      BY <2>1, <3>1 DEF ReadInv, KeptInv
    <3>2. CASE f = fn
      <4>1. DOMAIN kept'[f] = {}
        BY <2>1, <3>2
      <4> QED BY <4>1 DEF Rising
    <3> QED BY <2>1, <3>1, <3>2
  <2>5. OrderInv'
    <3>1. UNCHANGED <<pending, batch, built>>
      BY <1>3 DEF Create
    <3>2. \A f \in DOMAIN chip' : BodiesRise(chip'[f])
      BY <2>1 DEF ReadInv, OrderInv, BodiesRise
    <3>3. DOMAIN chip'[fn'] = {}
      BY <2>1
    <3> QED BY <1>1, <3>1, <3>2, <3>3 DEF ReadInv, OrderInv, Files
  <2> QED BY <1>1, <2>3, <2>4, <2>5 DEF ReadInv
<1> QED BY <1>2, <1>3

\* Packets and cells are numbered.
LEMMA NumbersOf ==
  /\ \A ps \in Seq(PacketsBuilt) : \A i \in DOMAIN ps : ps[i].n \in Nat
  /\ \A s \in Seq(Cells) : \A i \in DOMAIN s : s[i].n \in Nat
<1>1. \A p \in PacketsBuilt : p.n \in Nat
  BY BoundTypes DEF PacketsBuilt
<1>2. \A c \in Cells : c.n \in Nat
  BY BoundTypes DEF Cells
<1> QED BY <1>1, <1>2

\* loop(): packets are built, handed over and written in the order they will be read in.
LEMMA FlyReads ==
  ASSUME LogInv, ReadInv, Fly
  PROVE  ReadInv'
<1> USE DEF chipVars, bootVars, ramVars, saveVars
<1>0. /\ built \in Nat /\ used \in 0 .. Capacity /\ Capacity \in Nat
      /\ pending \in Seq(PacketsBuilt) /\ batch \in Seq(PacketsBuilt) /\ saving \in Seq(Cells)
      /\ pc = "flying" /\ UNCHANGED <<pc, fn>>
  BY BoundTypes DEF LogInv, TypeOK, Fly, Build, TakeOver, CloseFile, OpenFailed
<1>1. ASSUME UNCHANGED <<chip, kept, used>>
      PROVE  TagInv' /\ KeptInv'
  <2>1. \A f \in Files : Sealed(f) => Sealed(f)'
    BY <1>0, <1>1 DEF Sealed
  <2> QED BY <1>1, <2>1, QuietStep DEF ReadInv
<1>6. /\ \A i \in DOMAIN pending : pending[i].n \in Nat
      /\ \A i \in DOMAIN batch : batch[i].n \in Nat
      /\ fn \in Files /\ \A i \in DOMAIN chip[fn] : chip[fn][i].n \in Nat
  <2>1. fn \in Files /\ chip[fn] \in Seq(Cells)
    BY <1>0 DEF LogInv, TypeOK, NameInv
  <2>2. PICK s \in Seq(Cells) : s = chip[fn]
    BY <2>1
  <2> QED BY <1>0, <2>1, <2>2, NumbersOf
<1>2. CASE Build
  <2>1. UNCHANGED <<chip, kept, used, saving, batch>> /\ built' = built + 1
    BY <1>2 DEF Build
  <2>2. SaveInv'
    BY <2>1 DEF ReadInv, SaveInv
  <2>3. CASE UNCHANGED pending
    <3>1. OrderInv'
      <4>1. /\ \A i \in DOMAIN pending : pending[i].n <= built'
            /\ \A i \in DOMAIN batch : batch[i].n <= built'
            /\ \A i \in DOMAIN chip[fn] : chip[fn][i].kind = "body" => chip[fn][i].n <= built'
        BY <1>0, <1>6, <2>1 DEF ReadInv, OrderInv
      <4> QED BY <1>0, <2>1, <2>3, <4>1 DEF ReadInv, OrderInv, Files
    <3> QED BY <1>1, <2>1, <2>2, <3>1 DEF ReadInv
  <2>4. CASE pending' # pending
    <3> DEFINE p == [flight |-> flight, n |-> built']
    <3>1. pending' = Append(pending, p)
      BY <1>2, <2>4 DEF Build
    <3>2. p.n = built + 1
      BY <2>1
    <3> HIDE DEF p
    <3>3. /\ Len(pending') = Len(pending) + 1 /\ Len(pending) \in Nat
          /\ pending'[Len(pending) + 1] = p
          /\ \A i \in 1 .. Len(pending) : pending'[i] = pending[i]
          /\ DOMAIN pending' = 1 .. Len(pending) + 1
          /\ DOMAIN pending = 1 .. Len(pending)
      BY <1>0, <3>1
    <3>4. \A i \in DOMAIN pending' : \/ i \in DOMAIN pending /\ pending'[i] = pending[i]
                                     \/ i = Len(pending) + 1 /\ pending'[i].n = built + 1
      BY <3>2, <3>3
    <3>5. \A i \in DOMAIN pending : pending[i].n \in Nat /\ pending[i].n <= built
      BY <1>6 DEF ReadInv, OrderInv
    <3>6. \A i \in DOMAIN batch : batch[i].n \in Nat /\ batch[i].n <= built
      BY <1>6 DEF ReadInv, OrderInv
    <3>7. /\ fn \in Files
          /\ \A i \in DOMAIN chip[fn] : /\ chip[fn][i].n \in Nat
                                        /\ chip[fn][i].kind = "body" => chip[fn][i].n <= built
      BY <1>0, <1>6 DEF ReadInv, OrderInv
    <3>8. Rising(pending')
      <4> SUFFICES ASSUME NEW i \in DOMAIN pending', NEW j \in DOMAIN pending', i < j
                   PROVE  pending'[i].n < pending'[j].n
        BY DEF Rising
      <4>1. i \in DOMAIN pending /\ pending'[i] = pending[i]
        BY <3>3
      <4>2. CASE j \in DOMAIN pending
        <5>1. pending'[j] = pending[j]
          BY <3>3, <4>2
        <5> QED BY <4>1, <4>2, <5>1 DEF ReadInv, OrderInv, Rising
      <4>3. CASE j = Len(pending) + 1
        BY <1>0, <3>2, <3>3, <3>5, <4>1, <4>3
      <4> QED BY <3>3, <4>2, <4>3
    <3>9. \A j \in DOMAIN pending' :
            pending'[j].n <= built' /\ \A i \in DOMAIN batch : batch[i].n < pending'[j].n
      <4> SUFFICES ASSUME NEW j \in DOMAIN pending'
                   PROVE  /\ pending'[j].n <= built'
                          /\ \A i \in DOMAIN batch : batch[i].n < pending'[j].n
        OBVIOUS
      <4>1. CASE j \in DOMAIN pending /\ pending'[j] = pending[j]
        BY <1>0, <2>1, <3>5, <4>1 DEF ReadInv, OrderInv
      <4>2. CASE pending'[j].n = built + 1
        BY <1>0, <2>1, <3>6, <4>2
      <4> QED BY <3>4, <4>1, <4>2
    <3>10. \A i \in DOMAIN chip[fn] : chip[fn][i].kind = "body" =>
             /\ chip[fn][i].n <= built'
             /\ \A j \in DOMAIN batch : chip[fn][i].n < batch[j].n
             /\ \A j \in DOMAIN pending' : chip[fn][i].n < pending'[j].n
      <4> SUFFICES ASSUME NEW i \in DOMAIN chip[fn], chip[fn][i].kind = "body"
                   PROVE  /\ chip[fn][i].n <= built'
                          /\ \A j \in DOMAIN batch : chip[fn][i].n < batch[j].n
                          /\ \A j \in DOMAIN pending' : chip[fn][i].n < pending'[j].n
        OBVIOUS
      <4>1. chip[fn][i].n <= built + 1 /\ \A j \in DOMAIN batch : chip[fn][i].n < batch[j].n
        BY <1>0, <3>7 DEF ReadInv, OrderInv
      <4>2. \A j \in DOMAIN pending' : chip[fn][i].n < pending'[j].n
        <5> SUFFICES ASSUME NEW j \in DOMAIN pending' PROVE chip[fn][i].n < pending'[j].n
          OBVIOUS
        <5>1. CASE j \in DOMAIN pending /\ pending'[j] = pending[j]
          BY <1>0, <5>1 DEF ReadInv, OrderInv
        <5>2. CASE pending'[j].n = built + 1
          BY <1>0, <3>7, <5>2
        <5> QED BY <3>4, <5>1, <5>2
      <4> QED BY <2>1, <4>1, <4>2
    <3>11. \A j \in DOMAIN batch : batch[j].n <= built'
      BY <1>0, <2>1, <3>6
    <3>12. OrderInv'
      BY <1>0, <2>1, <3>8, <3>9, <3>10, <3>11 DEF ReadInv, OrderInv, Files
    <3> QED BY <1>1, <2>1, <2>2, <3>12 DEF ReadInv
  <2> QED BY <2>3, <2>4
<1>3. CASE TakeOver
  <2>1. /\ UNCHANGED <<chip, kept, used, built>> /\ saving = <<>>
        /\ batch' = pending /\ pending' = <<>>
        /\ \E stray \in Strays(late) : saving' = Images(pending) \o stray
    BY <1>3 DEF TakeOver
  <2>2. SaveInv'
    BY <1>0, <2>1, SavingLays DEF SaveInv
  <2>3. OrderInv'
    <3>1. Rising(pending') /\ DOMAIN pending' = {}
      BY <2>1 DEF Rising
    <3> QED BY <1>0, <2>1, <3>1 DEF ReadInv, OrderInv, Files
  <2> QED BY <1>1, <2>1, <2>2, <2>3 DEF ReadInv
<1>4. CASE CloseFile
  <2>1. PICK n \in 0 .. Len(saving) :
          Fitting(saving) = SubSeq(saving, 1, n) /\ used + n <= Capacity
    BY FittingType DEF LogInv
  <2>2. Len(Fitting(saving)) = n /\ n \in Nat /\ Len(saving) \in Nat
    BY <1>0, <2>1
  <2>3. n < Len(saving) => used + n = Capacity
    <3>1. CASE used + Len(saving) <= Capacity
      BY <2>2, <3>1 DEF Fitting
    <3>2. CASE ~(used + Len(saving) <= Capacity)
      <4>1. Fitting(saving) = SubSeq(saving, 1, Capacity - used)
        BY <3>2 DEF Fitting
      <4>2. Len(Fitting(saving)) = Capacity - used
        BY <1>0, <2>2, <3>2, <4>1
      <4> QED BY <1>0, <2>2, <4>2
    <3> QED BY <3>1, <3>2
  <2>4. /\ Write(SubSeq(saving, 1, n)) /\ saving # <<>>
        /\ kept' = IF Fitting(saving) = saving THEN [kept EXCEPT ![fn] = @ \o batch] ELSE kept
        /\ UNCHANGED <<pc, fn, built, pending>>
    BY <1>4, <2>1 DEF CloseFile
  <2>5. used' = used + n /\ saving' = <<>> /\ batch' = <<>>
    BY <1>0, <2>1, <2>4, WriteLays DEF ReadInv
  <2>6. \A f \in Files : Sealed(f) => Sealed(f)'
    BY <1>0, <2>2, <2>4, <2>5 DEF Sealed
  <2>7. n < Len(saving) => Sealed(fn)'
    BY <1>0, <2>3, <2>5 DEF Sealed
  <2>8. TagInv'
    BY <1>0, <2>1, <2>4, <2>6, <2>7, WriteTags DEF ReadInv
  <2>9. OrderInv'
    BY <1>0, <2>1, <2>4, WriteOrder DEF ReadInv
  <2>10. KeptInv'
    <3>1. CASE n < Len(saving)
      <4>1. Fitting(saving) # saving
        BY <2>2, <3>1
      <4>2. UNCHANGED kept
        BY <2>4, <4>1
      <4> QED BY <1>0, <2>1, <2>4, <4>2, WriteKept DEF ReadInv
    <3>2. CASE n = Len(saving)
      <4>1. Fitting(saving) = saving
        BY <1>0, <2>1, <3>2, SubSeqFull
      <4>2. kept' = [kept EXCEPT ![fn] = @ \o batch]
        BY <2>4, <4>1
      <4> QED BY <1>0, <2>1, <2>4, <3>2, <4>2, WriteKept DEF ReadInv
    <3> QED BY <2>2, <3>1, <3>2
  <2>11. SaveInv'
    BY <2>5, LaysNothing DEF SaveInv
  <2> QED BY <2>8, <2>9, <2>10, <2>11 DEF ReadInv
<1>5. CASE OpenFailed
  <2>1. UNCHANGED <<chip, kept, used, built, pending>> /\ saving' = <<>> /\ batch' = <<>>
    BY <1>5 DEF OpenFailed
  <2>2. SaveInv'
    BY <2>1, LaysNothing DEF SaveInv
  <2>3. OrderInv'
    <3>1. Rising(batch') /\ DOMAIN batch' = {}
      BY <2>1 DEF Rising
    <3> QED BY <1>0, <2>1, <3>1 DEF ReadInv, OrderInv, Files
  <2> QED BY <1>1, <2>1, <2>2, <2>3 DEF ReadInv
<1> QED BY <1>2, <1>3, <1>4, <1>5 DEF Fly

\* Whatever part of the batch has reached the chip when the power goes, it ends the file.
LEMMA PowerOffReads ==
  ASSUME LogInv, ReadInv, PowerOff
  PROVE  ReadInv'
<1> USE DEF chipVars, bootVars, ramVars, saveVars
<1>1. pc' = "off" /\ pending' = <<>> /\ UNCHANGED <<fn, kept>>
  BY DEF PowerOff
<1>2. \A f \in Files : Sealed(f)'
  BY <1>1 DEF Sealed
<1>3. Sealed(fn)'
  BY <1>1 DEF Sealed
<1>4. CASE saving = <<>>
  <2>1. UNCHANGED <<chip, saving, batch>>
    BY <1>4 DEF PowerOff
  <2>2. TagInv' /\ KeptInv'
    BY <1>1, <1>2, <2>1, QuietStep DEF ReadInv
  <2>3. SaveInv'
    BY <2>1 DEF ReadInv, SaveInv
  <2>4. OrderInv'
    <3>1. batch' = <<>>
      BY <1>4, <2>1, NoBatch DEF ReadInv
    <3>2. /\ Rising(pending') /\ DOMAIN pending' = {}
          /\ Rising(batch') /\ DOMAIN batch' = {}
      BY <1>1, <3>1 DEF Rising
    <3> QED BY <1>1, <2>1, <3>2 DEF ReadInv, OrderInv, Files
  <2> QED BY <2>2, <2>3, <2>4 DEF ReadInv
<1>5. CASE saving # <<>>
  <2>1. PICK m \in 0 .. Len(saving) :
          Fitting(saving) = SubSeq(saving, 1, m) /\ used + m <= Capacity
    BY FittingType DEF LogInv
  <2>2. saving \in Seq(Cells) /\ Len(Fitting(saving)) = m
    BY <2>1 DEF LogInv, TypeOK
  <2>3. PICK n \in 0 .. m : Write(SubSeq(saving, 1, n))
    BY <1>5, <2>2 DEF PowerOff
  <2>4. n \in 0 .. Len(saving) /\ used + n <= Capacity /\ pc = "flying"
    <3>1. used \in Nat /\ Capacity \in Nat /\ Len(saving) \in Nat
      BY <2>2, BoundTypes DEF LogInv, TypeOK
    <3>2. pc = "flying"
      BY <1>5 DEF LogInv, OwnerInv
    <3> QED BY <2>1, <3>1, <3>2
  <2>5. TagInv'
    BY <1>1, <1>2, <1>3, <2>3, <2>4, WriteTags DEF ReadInv
  <2>6. OrderInv'
    BY <1>1, <2>3, <2>4, WriteOrder DEF ReadInv
  <2>7. KeptInv'
    BY <1>1, <2>3, <2>4, WriteKept DEF ReadInv
  <2>8. SaveInv'
    BY <2>3, LaysNothing DEF Write, SaveInv
  <2> QED BY <2>5, <2>6, <2>7, <2>8 DEF ReadInv
<1> QED BY <1>4, <1>5

\* The invariant holds in every behaviour.
THEOREM ReadInvariant == Spec => [](LogInv /\ ReadInv)
<1>1. Init => ReadInv
  <2> SUFFICES ASSUME Init PROVE ReadInv
    OBVIOUS
  <2>1. /\ Files = {} /\ saving = <<>> /\ batch = <<>> /\ pending = <<>> /\ pc = "off"
    BY DEF Init, Files
  <2>2. SaveInv
    BY <2>1, LaysNothing DEF SaveInv
  <2>3. TagInv /\ KeptInv
    BY <2>1 DEF TagInv, KeptInv
  <2>4. OrderInv
    BY <2>1 DEF OrderInv, Rising
  <2> QED BY <2>2, <2>3, <2>4 DEF ReadInv
<1>2. LogInv /\ ReadInv /\ [Next]_vars => ReadInv'
  <2> SUFFICES ASSUME LogInv, ReadInv, [Next]_vars PROVE ReadInv'
    OBVIOUS
  <2>1. CASE Next
    BY <2>1, SetupReads, FlyReads, PowerOffReads DEF Next
  <2>2. CASE UNCHANGED vars
    <3>1. UNCHANGED <<chip, used, pc, fn, built, pending, saving, batch, kept>>
      BY <2>2 DEF vars, chipVars, bootVars, ramVars, saveVars
    <3>2. \A f \in Files : Sealed(f) => Sealed(f)'
      BY <3>1 DEF Sealed
    <3>3. TagInv' /\ KeptInv'
      BY <3>1, <3>2, QuietStep DEF ReadInv
    <3>4. SaveInv' /\ OrderInv'
      BY <3>1 DEF ReadInv, SaveInv, OrderInv, Files
    <3> QED BY <3>3, <3>4 DEF ReadInv
  <2> QED BY <2>1, <2>2
<1>3. LogInv /\ [Next]_vars => LogInv'
  BY LogStep
<1> QED BY <1>1, <1>2, <1>3, LogInit, PTL DEF Spec

-----------------------------------------------------------------------------
(* What parse.m reads                                                      *)

\* An entry of a tag behind which a packet is whole is that packet's image.
LEMMA EntryIs ==
  ASSUME NEW s \in Seq(Cells), NEW i \in DOMAIN s, s[i] = Tag,
         NEW p \in PacketsBuilt, WholeAt(s, i, p)
  PROVE  SubSeq(s, i, i + 3) = Image(p)
<1>1. i \in Nat /\ i >= 1 /\ i + 3 <= Len(s) /\ Len(s) \in Nat
  BY DEF WholeAt
<1>2. SubSeq(s, i, i + 3) = [j \in 1 .. 4 |-> s[i + j - 1]]
  BY SMTT(30), <1>1
<1>3. Image(p) = [j \in 1 .. 4 |-> Image(p)[j]] /\ Image(p)[1] = Tag
  <2>1. PICK mid : mid = IF p.n \in Showing THEN False ELSE Cell("rest", p.flight, p.n)
    OBVIOUS
  <2>2. PICK body, end : body = Cell("body", p.flight, p.n) /\ end = Cell("end", p.flight, p.n)
    OBVIOUS
  <2>3. Image(p) = <<Tag, body, mid, end>>
    BY <2>1, <2>2 DEF Image
  <2> QED BY <2>3
<1>4. \A j \in 1 .. 4 : s[i + j - 1] = Image(p)[j]
  <2>1. i + 1 - 1 = i /\ i + 2 - 1 = i + 1 /\ i + 3 - 1 = i + 2 /\ i + 4 - 1 = i + 3
    BY <1>1
  <2>2. \A j \in 1 .. 4 : j = 1 \/ j = 2 \/ j = 3 \/ j = 4
    OBVIOUS
  <2>3. s[i + 1] = Image(p)[2] /\ s[i + 2] = Image(p)[3] /\ s[i + 3] = Image(p)[4]
    BY DEF WholeAt
  <2> QED BY <1>3, <2>1, <2>2, <2>3
<1> QED BY <1>2, <1>3, <1>4, Zenon

\* Every entry is of a match behind which there is a packet's length of file.
LEMMA EntriesType ==
  ASSUME NEW s \in Seq(Cells)
  PROVE  LET c == TagsUpTo(s, Len(s)) IN
         /\ c \in Nat
         /\ \A i : i \in DOMAIN Entries(s) <=>
                     i \in 1 .. c - 1 /\ Matches(s)[i] + 3 <= Len(s)
         /\ \A i \in DOMAIN Entries(s) :
              Entries(s)[i] = SubSeq(s, Matches(s)[i], Matches(s)[i] + 3)
<1> DEFINE c == TagsUpTo(s, Len(s))
           whole == {i \in 1 .. c - 1 : Matches(s)[i] + 3 <= Len(s)}
<1>1. c \in Nat
  <2>1. Len(s) \in Nat
    OBVIOUS
  <2> QED BY <2>1, TagsFinite
<1>2. Len(Matches(s)) = c
  BY <1>1 DEF Matches
<1>3. Entries(s) = [i \in whole |-> SubSeq(s, Matches(s)[i], Matches(s)[i] + 3)]
  BY <1>2 DEF Entries
<1> QED BY <1>1, <1>3

\* A packet that is whole at a tag of its own, with another tag behind it, is read.
LEMMA WholeIsRead ==
  ASSUME NEW s \in Seq(Cells), NEW i \in DOMAIN s, s[i] = Tag,
         NEW p \in PacketsBuilt, WholeAt(s, i, p),
         NEW j \in DOMAIN s, s[j] = Tag, i < j
  PROVE  \E k \in DOMAIN Entries(s) : Entries(s)[k] = Image(p)
<1> DEFINE k == TagsUpTo(s, i)
           l == TagsUpTo(s, j)
           c == TagsUpTo(s, Len(s))
<1>1. IsTag(s[i]) /\ IsTag(s[j])
  BY DEF IsTag, Tag, Cell
<1>2. i \in Nat /\ j \in Nat /\ Len(s) \in Nat /\ j <= Len(s) /\ i - 1 \in Nat
  OBVIOUS
<1>3. k \in Nat /\ l \in Nat /\ c \in Nat /\ k < l /\ l <= c /\ TagsUpTo(s, i - 1) \in Nat
  BY <1>1, <1>2, TagsFinite, TagsStrict, TagsMonotone
<1>4. k = TagsUpTo(s, i - 1) + 1
  BY <1>1, TagsNext
<1> HIDE DEF k, l, c
<1>5. k \in 1 .. c /\ k \in 1 .. c - 1
  BY <1>3, <1>4
<1>6. /\ Matches(s)[k] \in DOMAIN s /\ IsTag(s[Matches(s)[k]])
      /\ TagsUpTo(s, Matches(s)[k]) = k
  BY <1>5, MatchesFind DEF c
<1>7. Matches(s)[k] = i
  BY <1>1, <1>6, MatchesUnique DEF k
<1>8. i + 3 <= Len(s)
  BY <1>2 DEF WholeAt
<1>9. k \in DOMAIN Entries(s) /\ Entries(s)[k] = SubSeq(s, i, i + 3)
  BY <1>5, <1>7, <1>8, EntriesType DEF c
<1> QED BY <1>9, EntryIs

\* What is read at a packet's own tag is that packet, whole, in the order of building,
\* whatever else looks like a tag.
THEOREM PacketsReadWholeHolds == Spec => []PacketsReadWhole
<1>1. LogInv /\ ReadInv => PacketsReadWhole
  <2> SUFFICES ASSUME LogInv, ReadInv, NEW f \in Files
               PROVE  LET e == Entries(chip[f]) IN
                      /\ \A i \in DOMAIN e :
                           e[i][1] = Tag => \E p \in PacketsBuilt : e[i] = Image(p)
                      /\ \A i, j \in DOMAIN e :
                           i < j /\ e[i][1] = Tag /\ e[j][1] = Tag => e[i][2].n < e[j][2].n
    BY DEF PacketsReadWhole
  <2>1. PICK s \in Seq(Cells) : s = chip[f]
    BY DEF LogInv, TypeOK
  <2> DEFINE c == TagsUpTo(s, Len(s))
             m(i) == Matches(s)[i]
             e == Entries(s)
  <2>2. /\ c \in Nat
        /\ \A i \in DOMAIN e : i \in 1 .. c - 1 /\ m(i) + 3 <= Len(s)
        /\ \A i \in DOMAIN e : e[i] = SubSeq(s, m(i), m(i) + 3)
    BY EntriesType
  <2>3. \A i \in 1 .. c : m(i) \in DOMAIN s
    BY MatchesFind
  <2>4. \A i, j \in 1 .. c : i < j => m(i) < m(j)
    BY MatchesRise
  <2> HIDE DEF c, m, e
  <2>5. ASSUME NEW i \in DOMAIN e, e[i][1] = Tag
        PROVE  /\ i \in 1 .. c /\ m(i) \in DOMAIN s
               /\ \E p \in PacketsBuilt : WholeAt(s, m(i), p) /\ e[i] = Image(p)
    <3>1. i \in 1 .. c /\ m(i) \in DOMAIN s /\ m(i) + 3 <= Len(s)
      BY <2>2, <2>3
    <3>2. e[i][1] = s[m(i)]
      <4>1. PICK a \in Nat : a = m(i) /\ a >= 1 /\ a + 3 <= Len(s)
        BY <3>1
      <4>2. SubSeq(s, a, a + 3)[1] = s[a]
        BY <4>1
      <4> QED BY <2>2, <4>1, <4>2
    <3>3. PICK p \in PacketsBuilt : WholeAt(s, m(i), p)
      <4>1. ~(m(i) + 3 > Len(s))
        BY <3>1
      <4> QED BY <2>1, <2>5, <3>1, <3>2, <4>1 DEF ReadInv, TagInv
    <3>4. e[i] = Image(p)
      BY <2>2, <2>5, <3>1, <3>2, <3>3, EntryIs
    <3> QED BY <3>1, <3>3, <3>4
  <2>6. ASSUME NEW i \in DOMAIN e, NEW j \in DOMAIN e, i < j, e[i][1] = Tag, e[j][1] = Tag
        PROVE  e[i][2].n < e[j][2].n
    <3>1. PICK p \in PacketsBuilt : WholeAt(s, m(i), p) /\ e[i] = Image(p)
      BY <2>5, <2>6
    <3>2. PICK q \in PacketsBuilt : WholeAt(s, m(j), q) /\ e[j] = Image(q)
      BY <2>5, <2>6
    <3>3. m(i) < m(j) /\ m(i) \in DOMAIN s /\ m(j) \in DOMAIN s
      BY <2>4, <2>5, <2>6
    <3>4. m(i) + 1 \in DOMAIN s /\ m(j) + 1 \in DOMAIN s /\ m(i) + 1 < m(j) + 1
      BY <3>1, <3>2, <3>3 DEF WholeAt
    <3>5. /\ s[m(i) + 1] = e[i][2] /\ e[i][2].kind = "body"
          /\ s[m(j) + 1] = e[j][2] /\ e[j][2].kind = "body"
      BY <3>1, <3>2, ImageType DEF WholeAt
    <3>6. BodiesRise(s)
      BY <2>1 DEF ReadInv, OrderInv
    <3> QED BY <3>4, <3>5, <3>6 DEF BodiesRise
  <2> QED BY <2>1, <2>5, <2>6 DEF e
<1> QED BY <1>1, ReadInvariant, PTL

\* Every packet of a batch that was written whole is read, the last of the file apart.
THEOREM KeptIsReadHolds == Spec => []KeptIsRead
<1>1. LogInv /\ ReadInv => KeptIsRead
  <2> SUFFICES ASSUME LogInv, ReadInv, NEW f \in Files, NEW k \in 1 .. Len(kept[f]) - 1
               PROVE  \E i \in DOMAIN Entries(chip[f]) :
                        Entries(chip[f])[i] = Image(kept[f][k])
    BY DEF KeptIsRead
  <2>1. PICK s \in Seq(Cells) : s = chip[f]
    BY DEF LogInv, TypeOK
  <2>2. PICK ps \in Seq(PacketsBuilt) : ps = kept[f]
    BY DEF LogInv, TypeOK
  <2>3. k \in DOMAIN ps /\ k + 1 \in DOMAIN ps /\ k < k + 1
    BY <2>2
  <2>4. ps[k] \in PacketsBuilt /\ ps[k + 1] \in PacketsBuilt
    BY <2>3
  <2>5. PICK i \in DOMAIN s : s[i] = Tag /\ WholeAt(s, i, ps[k])
    BY <2>1, <2>2, <2>3 DEF ReadInv, KeptInv
  <2>6. PICK j \in DOMAIN s : s[j] = Tag /\ WholeAt(s, j, ps[k + 1])
    BY <2>1, <2>2, <2>3 DEF ReadInv, KeptInv
  <2>7. ps[k].n < ps[k + 1].n /\ ps[k].n \in Nat /\ ps[k + 1].n \in Nat
    BY <2>2, <2>3, NumbersOf DEF ReadInv, KeptInv, Rising
  <2>8. i < j
    <3>0. i + 3 \in DOMAIN s /\ j + 3 \in DOMAIN s
      BY <2>5, <2>6 DEF WholeAt
    <3>1. i + 1 \in DOMAIN s /\ j + 1 \in DOMAIN s /\ i \in Nat /\ j \in Nat
      BY <3>0
    <3>2. /\ s[i + 1].kind = "body" /\ s[i + 1].n = ps[k].n
          /\ s[j + 1].kind = "body" /\ s[j + 1].n = ps[k + 1].n
      BY SMTT(30), <2>4, <2>5, <2>6, ImageType DEF WholeAt
    <3>3. BodiesRise(s)
      BY <2>1 DEF ReadInv, OrderInv
    <3>4. ~(j < i)
      <4>1. ASSUME j < i PROVE FALSE
        <5>1. j + 1 < i + 1
          BY <3>1, <4>1
        <5>2. ps[k + 1].n < ps[k].n
          BY <3>1, <3>2, <3>3, <5>1 DEF BodiesRise
        <5> QED BY <2>7, <5>2
      <4> QED BY <4>1
    <3>5. i # j
      BY <2>7, <3>2
    <3> QED BY <3>1, <3>4, <3>5
  <2>9. \E l \in DOMAIN Entries(s) : Entries(s)[l] = Image(ps[k])
    BY <2>4, <2>5, <2>6, <2>8, WholeIsRead
  <2> QED BY <2>1, <2>2, <2>9
<1> QED BY <1>1, ReadInvariant, PTL
=============================================================================
