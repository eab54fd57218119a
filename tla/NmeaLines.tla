------------------------------ MODULE NmeaLines -----------------------------
(***************************************************************************)
(* The way of a GPS sentence into a packet: the module sends characters,   *)
(* the serial port keeps those it has room for, each pass of loop() in     *)
(* avionics/avionics.ino lets Adafruit_GPS.cpp read one of them into one   *)
(* of two line buffers, and parses the line in the pass that ends it.      *)
(*                                                                         *)
(* Sentences are shortened: G stands for GPGGA and R for GPRMC, and of the *)
(* fields only the latitude, one digit, is kept, with the status letter    *)
(* that comes before it in an RMC sentence.  The line buffer is shorter in *)
(* proportion, and too short for two sentences, as the real one is.        *)
(*                                                                         *)
(* Operators whose name ends in _ are broken variants of the definition    *)
(* that follows them, used by nothing.                                     *)
(***************************************************************************)
EXTENDS Integers, Sequences, FiniteSets, SequencesExt

CONSTANTS
  MAXLINELENGTH,  \* size of a line buffer
  RxRoom,         \* characters the serial port keeps
  MaxLost,        \* bound: characters lost because it is full
  Latitudes       \* digits that the module reports, one sentence after the other

ASSUME SizeAssumption ==
  /\ MAXLINELENGTH \in 1 .. 255 /\ RxRoom \in Nat \ {0} /\ MaxLost \in Nat
ASSUME LatitudeAssumption == Latitudes \in Seq(1 .. 9) /\ Latitudes # <<>>

VARIABLES
  turn,           \* the sentence being sent
  tx,             \* what is left of it
  dropped,        \* history: lost since the last character the port kept
  lost,           \* how many characters have been lost
  uart,           \* the port's buffer: characters, what was lost before each, and
                  \* the sentence it belongs to
  lines,          \* line1 and line2
  currentline,    \* the one being filled; the other is lastline
  lineidx,        \* where the next character goes
  latitude,       \* what parse() found last
  heard,          \* history: the characters read since the last line end
  missing         \* history: the characters lost among them

wireVars == <<turn, tx, dropped, lost>>
gpsVars == <<lines, currentline, lineidx, latitude>>
vars == <<wireVars, uart, gpsVars, heard, missing>>

-----------------------------------------------------------------------------
NUL == 0   LF == 10   CR == 13   Dollar == 36   Star == 42   Comma == 44
Letter == [A |-> 65, G |-> 71, R |-> 82, V |-> 86]
Digit(d) == 48 + d

\* Whether an odd number of characters has the bit worth b.
Odd(s, b) == Cardinality({k \in DOMAIN s : (s[k] \div b) % 2 = 1}) % 2

\* The exclusive or of characters, bit by bit.
XorAll(s) ==
  Odd(s, 1) + 2 * Odd(s, 2) + 4 * Odd(s, 4) + 8 * Odd(s, 8) + 16 * Odd(s, 16)
    + 32 * Odd(s, 32) + 64 * Odd(s, 64)

HexDigit(n) == IF n < 10 THEN 48 + n ELSE 55 + n

\* The sentence that begins with $ and holds these characters.
Sentence(s) ==
  <<Dollar>> \o s \o
    <<Star, HexDigit(XorAll(s) \div 16), HexDigit(XorAll(s) % 16), CR, LF>>

\* The module is told to send RMC and GGA sentences in turn.
Sentences ==
  [k \in DOMAIN Latitudes |->
     IF k % 2 = 0 THEN Sentence(<<Letter.G, Comma, Digit(Latitudes[k])>>)
     ELSE Sentence(<<Letter.R, Comma, Letter.A, Comma, Digit(Latitudes[k])>>)]

Following(k) == IF k = Len(Latitudes) THEN 1 ELSE k + 1

-----------------------------------------------------------------------------
(* The GPS module and the serial port                                      *)

\* The character just sent is behind us.
Advance ==
  IF Len(tx) > 1 THEN tx' = Tail(tx) /\ UNCHANGED turn
  ELSE turn' = Following(turn) /\ tx' = Sentences[turn']

Keep ==
  /\ Len(uart) < RxRoom
  /\ uart' = Append(uart, [char |-> tx[1], after |-> dropped, of |-> turn])
  /\ dropped' = <<>>
  /\ Advance
  /\ UNCHANGED <<lost, gpsVars, heard, missing>>

Drop ==
  /\ Len(uart) = RxRoom
  /\ lost < MaxLost
  /\ lost' = lost + 1
  /\ dropped' = Append(dropped, tx[1])
  /\ Advance
  /\ UNCHANGED <<uart, gpsVars, heard, missing>>

-----------------------------------------------------------------------------
(* parse()                                                                 *)

\* A line as C reads it: up to the first zero.
String(line) ==
  LET end == SelectInSeq([i \in 1 .. MAXLINELENGTH |-> line[i - 1]], LAMBDA c : c = NUL)
  IN  [i \in 1 .. (IF end = 0 THEN MAXLINELENGTH ELSE end - 1) |-> line[i - 1]]

parseHex(c) ==
  CASE c \in 48 .. 57 -> c - 48 [] c \in 65 .. 70 -> c - 55 [] OTHER -> 0

\* strstr(nmea, "$GPGGA"), strstr(nmea, "$GPRMC")
Mentions(nmea, letter) ==
  \E i \in 1 .. Len(nmea) - 1 : nmea[i] = Dollar /\ nmea[i + 1] = letter

\* Whatever the line says after its checksum.
ChecksumOKAlways_(nmea) == TRUE

\* The $ is taken into the sum.
ChecksumOKFromDollar_(nmea) ==
  LET n == Len(nmea)
  IN  nmea[n - 3] = Star =>
        16 * parseHex(nmea[n - 2]) + parseHex(nmea[n - 1]) = XorAll(SubSeq(nmea, 2, n - 4))

\* A line without a * in its place is not checked.  The first two characters, the
\* line end before and the $, are left out, and so is what follows the *.
ChecksumOK(nmea) ==
  LET n == Len(nmea)
  IN  nmea[n - 3] = Star =>
        16 * parseHex(nmea[n - 2]) + parseHex(nmea[n - 1]) = XorAll(SubSeq(nmea, 3, n - 4))

\* strchr(p, ',') with p at this position; 0 when no comma follows.
strchr(nmea, p) == SelectInSubSeq(nmea, p, Len(nmea), LAMBDA c : c = Comma)

\* What is behind comma k, which is the first or the second.  Without one strchr
\* returns a null pointer and some other memory is read: neither a digit nor a status.
Field(nmea, k) ==
  LET first == strchr(nmea, 1)
      comma == IF k = 1 \/ first = 0 THEN first ELSE strchr(nmea, first + 1)
  IN  IF comma \in 1 .. Len(nmea) - 1 THEN nmea[comma + 1] ELSE NUL

\* atol: 0 of what is no digit.
Number(c) == IF c \in 48 .. 57 THEN c - 48 ELSE 0

\* An empty field leaves the latitude as it was.
LatitudeFrom(c) == IF c = Comma THEN latitude ELSE Number(c)

\* What latitude is once the line has been parsed.  A line too short to have a
\* checksum, for which memory before it is read, is too short for a sentence.
Parsed(nmea) ==
  IF Len(nmea) < 4 \/ ~ChecksumOK(nmea) THEN latitude
  ELSE IF Mentions(nmea, Letter.G) THEN LatitudeFrom(Field(nmea, 1))
  ELSE IF Mentions(nmea, Letter.R) /\ Field(nmea, 1) \in {Letter.A, Letter.V}
  THEN LatitudeFrom(Field(nmea, 2))
  ELSE latitude

-----------------------------------------------------------------------------
(* read(), and the pass of loop() that calls it                            *)

\* One more character and the line would be too long.
BoundedOneLate_(i) == IF i > MAXLINELENGTH THEN MAXLINELENGTH - 1 ELSE i

Bounded(i) == IF i >= MAXLINELENGTH THEN MAXLINELENGTH - 1 ELSE i

\* The line is not ended with a zero.
EndLineUnended_(c) ==
  /\ currentline' = 3 - currentline
  /\ lines' = [lines EXCEPT ![currentline'][0] = c]
  /\ lineidx' = Bounded(1)
  /\ latitude' = Parsed(String(lines'[currentline]))

\* The line end ends one line and is the first character of the next.
EndLine(c) ==
  /\ currentline' = 3 - currentline
  /\ lines' = [lines EXCEPT ![currentline][lineidx] = NUL, ![currentline'][0] = c]
  /\ lineidx' = Bounded(1)
  /\ latitude' = Parsed(String(lines'[currentline]))

Store(c) ==
  /\ lines' = [lines EXCEPT ![currentline][lineidx] = c]
  /\ lineidx' = Bounded(lineidx + 1)
  /\ UNCHANGED <<currentline, latitude>>

\* A pass of loop() that finds a character.
Pass ==
  /\ uart # <<>>
  /\ uart' = Tail(uart)
  /\ LET c == uart[1].char IN
       /\ IF c = LF THEN EndLine(c) ELSE Store(c)
       /\ heard' = IF c = LF THEN <<c>> ELSE Append(heard, c)
       /\ missing' = IF c = LF THEN <<>> ELSE missing \o uart[1].after
  /\ UNCHANGED wireVars

-----------------------------------------------------------------------------
\* The first character heard may be any character of a sentence.
Init ==
  /\ turn = 1
  /\ \E i \in DOMAIN Sentences[1] : tx = SubSeq(Sentences[1], i, Len(Sentences[1]))
  /\ dropped = <<>> /\ lost = 0
  /\ uart = <<>>
  /\ lines = [l \in {1, 2} |-> [i \in 0 .. MAXLINELENGTH - 1 |-> NUL]]
  /\ currentline = 1
  /\ lineidx = 0
  /\ latitude = 0
  /\ heard = <<>> /\ missing = <<>>

Next == Keep \/ Drop \/ Pass

\* Something always goes on: the port has a bounded room and characters are lost a
\* bounded number of times, so the module goes on sending and loop() goes round.
Spec == Init /\ [][Next]_vars /\ WF_vars(Next)
-----------------------------------------------------------------------------
(* Properties                                                              *)

Chars == 0 .. 127

\* Every variable keeps to the values its declaration is meant for: in particular
\* no character is stored behind the end of a line buffer.
TypeOK ==
  /\ turn \in DOMAIN Latitudes
  /\ tx \in Seq(Chars) /\ dropped \in Seq(Chars) /\ heard \in Seq(Chars)
  /\ missing \in Seq(Chars)
  /\ lost \in 0 .. MaxLost
  /\ uart \in Seq([char : Chars, after : Seq(Chars), of : DOMAIN Latitudes])
  /\ Len(uart) <= RxRoom
  /\ lines \in [{1, 2} -> [0 .. MAXLINELENGTH - 1 -> Chars]]
  /\ currentline \in {1, 2}
  /\ lineidx \in 0 .. MAXLINELENGTH - 1
  /\ latitude \in 0 .. 9

LineEnds == currentline' # currentline

\* The line that is parsed is what was read since the line end before, as far as
\* there is room for it: nothing is left over from older and longer lines.
LineIsWhatCame ==
  [][LineEnds =>
       String(lines'[currentline]) =
         SubSeq(heard, 1, IF Len(heard) < MAXLINELENGTH THEN Len(heard) ELSE MAXLINELENGTH - 1)]_vars

\* A line buffer holds a sentence.
LinesFit == \A k \in DOMAIN Latitudes : Len(Sentences[k]) < MAXLINELENGTH

\* A sentence of which nothing is lost is read, whatever was lost before it; a single
\* lost character, unless it is a line end, puts no wrong latitude into the packets:
\* the sentence is rejected or its latitude is right all the same.
OneLossIsSafe ==
  [][LineEnds =>
       LET gone == missing \o uart[1].after
       IN  /\ gone = <<>> /\ heard # <<>> /\ heard[1] = LF =>
                latitude' = Latitudes[uart[1].of]
           /\ Len(gone) <= 1 /\ LF \notin {gone[i] : i \in DOMAIN gone} =>
                latitude' \in {latitude, Latitudes[uart[1].of]}]_vars

\* Losses are got over: however many characters have been lost, in whatever place,
\* the latitude follows what the module reports again.
Recovers == \A k \in DOMAIN Latitudes : []<>(latitude = Latitudes[k])
=============================================================================
