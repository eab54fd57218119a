--------------------------- MODULE NmeaLinesProofs --------------------------
(***************************************************************************)
(* Proofs about NmeaLines, for every size of the line buffers and of the   *)
(* serial port, every number of characters lost and every list of          *)
(* latitudes reported.                                                     *)
(***************************************************************************)
EXTENDS NmeaLines, SequenceTheorems, FiniteSetTheorems, TLAPS

-----------------------------------------------------------------------------
(* What the module sends                                                   *)

\* No sentence holds the character that ends a string in C.
Sendable == 1 .. 127

LEMMA SizeTypes ==
  /\ MAXLINELENGTH \in Nat /\ MAXLINELENGTH >= 1 /\ MaxLost \in Nat
  /\ RxRoom \in Nat /\ RxRoom >= 1
  BY SizeAssumption

\* A bit is 0 or 1.
LEMMA OddType ==
  ASSUME NEW s \in Seq(Chars), NEW b \in Nat
  PROVE  Odd(s, b) \in {0, 1}
<1> DEFINE K == {k \in DOMAIN s : (s[k] \div b) % 2 = 1}
<1>1. IsFiniteSet(1 .. Len(s)) /\ DOMAIN s = 1 .. Len(s)
  BY FS_Interval
<1>4. K \in SUBSET (1 .. Len(s))
  BY <1>1
<1>2. Cardinality(K) \in Nat
  BY <1>1, <1>4, FS_Subset, FS_CardinalityType
<1>3. \A n \in Nat : n % 2 \in {0, 1}
  OBVIOUS
<1> QED BY <1>2, <1>3 DEF Odd

\* The exclusive or of characters is one.
LEMMA XorAllType ==
  ASSUME NEW s \in Seq(Chars)
  PROVE  XorAll(s) \in Chars
<1>1. /\ Odd(s, 1) \in {0, 1} /\ Odd(s, 2) \in {0, 1} /\ Odd(s, 4) \in {0, 1}
      /\ Odd(s, 8) \in {0, 1} /\ Odd(s, 16) \in {0, 1} /\ Odd(s, 32) \in {0, 1}
      /\ Odd(s, 64) \in {0, 1}
  BY OddType
<1>2. \A a \in {0, 1} : a \in Int /\ 0 <= a /\ a <= 1
  OBVIOUS
<1> DEFINE a == Odd(s, 1)  b == Odd(s, 2)  c == Odd(s, 4)  d == Odd(s, 8)
           e == Odd(s, 16)  f == Odd(s, 32)  g == Odd(s, 64)
<1>3. XorAll(s) = a + 2 * b + 4 * c + 8 * d + 16 * e + 32 * f + 64 * g
  BY DEF XorAll
<1>4. /\ a \in Int /\ 0 <= a /\ a <= 1 /\ b \in Int /\ 0 <= b /\ b <= 1
      /\ c \in Int /\ 0 <= c /\ c <= 1 /\ d \in Int /\ 0 <= d /\ d <= 1
      /\ e \in Int /\ 0 <= e /\ e <= 1 /\ f \in Int /\ 0 <= f /\ f <= 1
      /\ g \in Int /\ 0 <= g /\ g <= 1
  BY <1>1, <1>2
<1> HIDE DEF a, b, c, d, e, f, g
<1> QED BY <1>3, <1>4 DEF Chars

\* A sentence is made of characters that can be sent.
LEMMA SentenceType ==
  ASSUME NEW s \in Seq(Sendable)
  PROVE  Sentence(s) \in Seq(Sendable) /\ Sentence(s) # <<>>
<1>1. s \in Seq(Chars)
  BY DEF Sendable, Chars
<1>2. XorAll(s) \in 0 .. 127
  BY <1>1, XorAllType DEF Chars
<1>3. \A n \in 0 .. 127 : n \div 16 \in 0 .. 15 /\ n % 16 \in 0 .. 15
  OBVIOUS
<1>4. \A n \in 0 .. 15 : HexDigit(n) \in Sendable
  BY DEF HexDigit, Sendable
<1> DEFINE tail == <<Star, HexDigit(XorAll(s) \div 16), HexDigit(XorAll(s) % 16), CR, LF>>
<1>5. tail \in Seq(Sendable)
  <2>1. HexDigit(XorAll(s) \div 16) \in Sendable /\ HexDigit(XorAll(s) % 16) \in Sendable
    BY <1>2, <1>3, <1>4
  <2>2. Star \in Sendable /\ CR \in Sendable /\ LF \in Sendable
    BY DEF Star, CR, LF, Sendable
  <2> QED BY <2>1, <2>2
<1> HIDE DEF tail
<1>6. <<Dollar>> \in Seq(Sendable) /\ Len(<<Dollar>>) = 1
  BY DEF Dollar, Sendable
<1>7. <<Dollar>> \o s \in Seq(Sendable) /\ Len(<<Dollar>> \o s) = 1 + Len(s)
  BY <1>6, ConcatProperties
<1>8. /\ <<Dollar>> \o s \o tail \in Seq(Sendable)
      /\ Len(<<Dollar>> \o s \o tail) = 1 + Len(s) + Len(tail)
  BY <1>5, <1>7, ConcatProperties
<1>9. Len(s) \in Nat /\ Len(tail) \in Nat
  BY <1>5
<1>10. <<Dollar>> \o s \o tail # <<>>
  BY <1>8, <1>9
<1> QED BY <1>8, <1>10 DEF Sentence, tail

\* And so are all that the module sends.
LEMMA SentencesType ==
  ASSUME NEW k \in DOMAIN Latitudes
  PROVE  Sentences[k] \in Seq(Sendable) /\ Sentences[k] # <<>>
<1>1. Digit(Latitudes[k]) \in Sendable
  <2>1. Latitudes[k] \in 1 .. 9
    BY LatitudeAssumption
  <2> QED BY <2>1 DEF Digit, Sendable
<1>2. /\ Letter.G \in Sendable /\ Letter.R \in Sendable /\ Letter.A \in Sendable
      /\ Comma \in Sendable
  BY DEF Letter, Comma, Sendable
<1>3. /\ <<Letter.G, Comma, Digit(Latitudes[k])>> \in Seq(Sendable)
      /\ <<Letter.R, Comma, Letter.A, Comma, Digit(Latitudes[k])>> \in Seq(Sendable)
  BY <1>1, <1>2
<1> QED BY <1>3, SentenceType DEF Sentences

-----------------------------------------------------------------------------
(* The inductive invariant                                                 *)

\* Everything on its way to the line buffers can be part of a string, and a sentence
\* being sent is never at its end.
WireInv ==
  /\ tx \in Seq(Sendable) /\ tx # <<>> /\ dropped \in Seq(Sendable)
  /\ uart \in Seq([char : Sendable, after : Seq(Sendable), of : DOMAIN Latitudes])
  /\ heard \in Seq(Sendable) /\ missing \in Seq(Sendable)

\* The line being filled holds what was heard, as far as there is room; the last place
\* of the buffer is written over and over.
FillInv ==
  /\ lineidx = IF Len(heard) < MAXLINELENGTH THEN Len(heard) ELSE MAXLINELENGTH - 1
  /\ \A i \in 1 .. lineidx : lines[currentline][i - 1] = heard[i]

NmeaInv == TypeOK /\ WireInv /\ FillInv

\* The sentences are those of a list that is not empty.
LEMMA TurnType == \A k \in DOMAIN Latitudes : Following(k) \in DOMAIN Latitudes
  BY LatitudeAssumption DEF Following

\* The module goes on to the next character, in this sentence or the next one.
LEMMA AdvanceStep ==
  ASSUME TypeOK, WireInv, Advance
  PROVE  turn' \in DOMAIN Latitudes /\ tx' \in Seq(Sendable) /\ tx' # <<>>
<1>1. turn \in DOMAIN Latitudes /\ tx \in Seq(Sendable)
  BY DEF TypeOK, WireInv
<1>2. CASE Len(tx) > 1
  <2>1. tx' = Tail(tx) /\ turn' = turn
    BY <1>2 DEF Advance
  <2>2. Tail(tx) \in Seq(Sendable) /\ Len(Tail(tx)) = Len(tx) - 1
    BY <1>1, <1>2
  <2>3. Tail(tx) # <<>>
    BY <1>1, <1>2, <2>2
  <2> QED BY <1>1, <2>1, <2>2, <2>3
<1>3. CASE ~(Len(tx) > 1)
  BY <1>1, <1>3, TurnType, SentencesType DEF Advance
<1> QED BY <1>2, <1>3

\* A character that can be sent is one.
LEMMA SendableChars ==
  /\ \A s : s \in Seq(Sendable) => s \in Seq(Chars)
  /\ \A u : u \in Seq([char : Sendable, after : Seq(Sendable), of : DOMAIN Latitudes]) =>
       u \in Seq([char : Chars, after : Seq(Chars), of : DOMAIN Latitudes])
<1>1. \A s : s \in Seq(Sendable) => s \in Seq(Chars)
  BY DEF Sendable, Chars
<1>2. \A x \in [char : Sendable, after : Seq(Sendable), of : DOMAIN Latitudes] :
        x \in [char : Chars, after : Seq(Chars), of : DOMAIN Latitudes]
  BY <1>1 DEF Sendable, Chars
<1> DEFINE S == [char : Sendable, after : Seq(Sendable), of : DOMAIN Latitudes]
           C == [char : Chars, after : Seq(Chars), of : DOMAIN Latitudes]
<1>3. \A x \in S : x \in C
  BY <1>2
<1> HIDE DEF S, C
<1>4. \A u : u \in Seq(S) => u \in Seq(C)
  BY <1>3
<1> QED BY <1>1, <1>4 DEF S, C

\* The module and the port.
LEMMA WireStep ==
  ASSUME NmeaInv, Keep \/ Drop
  PROVE  NmeaInv'
<1> USE SizeTypes DEF NmeaInv, gpsVars
<1>1. turn \in DOMAIN Latitudes /\ tx[1] \in Sendable
  BY DEF TypeOK, WireInv
<1>2. turn' \in DOMAIN Latitudes /\ tx' \in Seq(Sendable) /\ tx' # <<>>
  BY AdvanceStep DEF Keep, Drop
<1>3. UNCHANGED <<lines, currentline, lineidx, latitude, heard, missing>>
  BY DEF Keep, Drop
<1>4. CASE Keep
  <2> DEFINE x == [char |-> tx[1], after |-> dropped, of |-> turn]
  <2>1. uart' = Append(uart, x) /\ Len(uart) < RxRoom /\ dropped' = <<>> /\ lost' = lost
    BY <1>4 DEF Keep
  <2>2. x \in [char : Sendable, after : Seq(Sendable), of : DOMAIN Latitudes]
    BY <1>1 DEF WireInv
  <2> HIDE DEF x
  <2>3. /\ uart' \in Seq([char : Sendable, after : Seq(Sendable), of : DOMAIN Latitudes])
        /\ Len(uart') = Len(uart) + 1 /\ Len(uart) \in Nat
    BY <2>1, <2>2 DEF WireInv
  <2>4. WireInv'
    BY <1>2, <1>3, <2>1, <2>3 DEF WireInv
  <2>5. TypeOK'
    <3>1. /\ tx' \in Seq(Chars) /\ dropped' \in Seq(Chars)
          /\ uart' \in Seq([char : Chars, after : Seq(Chars), of : DOMAIN Latitudes])
      BY <2>4, SendableChars DEF WireInv
    <3>2. Len(uart') <= RxRoom
      BY <2>1, <2>3
    <3> QED BY <1>2, <1>3, <2>1, <3>1, <3>2 DEF TypeOK
  <2> QED BY <1>3, <2>4, <2>5 DEF FillInv
<1>5. CASE Drop
  <2>1. dropped' = Append(dropped, tx[1]) /\ uart' = uart /\ lost' \in 0 .. MaxLost
    BY <1>5 DEF Drop, TypeOK
  <2>2. dropped' \in Seq(Sendable)
    BY <1>1, <2>1 DEF WireInv
  <2>3. WireInv'
    BY <1>2, <1>3, <2>1, <2>2 DEF WireInv
  <2>4. TypeOK'
    BY <1>2, <1>3, <2>1, <2>2, SendableChars DEF TypeOK
  <2> QED BY <1>3, <2>3, <2>4 DEF FillInv
<1> QED BY <1>4, <1>5

\* What parse() finds is a digit, or what it found before.
LEMMA ParsedType ==
  ASSUME NEW nmea, latitude \in 0 .. 9
  PROVE  Parsed(nmea) \in 0 .. 9
<1>1. \A c : Number(c) \in 0 .. 9
  BY DEF Number
<1>2. \A c : LatitudeFrom(c) \in 0 .. 9
  BY <1>1 DEF LatitudeFrom
<1> QED BY <1>2 DEF Parsed

\* A pass that finds a character which is no line end.
LEMMA StoreStep ==
  ASSUME NmeaInv, Pass, uart[1].char # LF
  PROVE  NmeaInv' /\ UNCHANGED currentline
<1> USE SizeTypes DEF NmeaInv, wireVars
<1> DEFINE c == uart[1].char
<1>1. /\ uart \in Seq([char : Sendable, after : Seq(Sendable), of : DOMAIN Latitudes])
      /\ uart # <<>> /\ uart' = Tail(uart)
      /\ lines' = [lines EXCEPT ![currentline][lineidx] = c]
      /\ lineidx' = Bounded(lineidx + 1) /\ UNCHANGED <<currentline, latitude>>
      /\ heard' = Append(heard, c) /\ missing' = missing \o uart[1].after
      /\ UNCHANGED <<turn, tx, dropped, lost>>
  BY DEF Pass, Store, WireInv
<1>2. c \in Sendable /\ uart[1].after \in Seq(Sendable)
  <2> DEFINE S == [char : Sendable, after : Seq(Sendable), of : DOMAIN Latitudes]
  <2>1. uart \in Seq(S) /\ uart # <<>>
    BY <1>1
  <2> HIDE DEF S
  <2>2. uart[1] \in S
    BY <2>1
  <2> QED BY <2>2 DEF S
<1>3. /\ uart' \in Seq([char : Sendable, after : Seq(Sendable), of : DOMAIN Latitudes])
      /\ Len(uart') = Len(uart) - 1 /\ Len(uart) \in Nat
  BY <1>1
<1> HIDE DEF c
<1>4. /\ heard \in Seq(Sendable) /\ heard' \in Seq(Sendable) /\ Len(heard') = Len(heard) + 1
      /\ heard'[Len(heard) + 1] = c /\ \A i \in 1 .. Len(heard) : heard'[i] = heard[i]
  BY <1>1, <1>2 DEF WireInv
<1>5. missing' \in Seq(Sendable)
  BY <1>1, <1>2, ConcatProperties DEF WireInv
<1>6. WireInv'
  BY <1>1, <1>3, <1>4, <1>5 DEF WireInv
<1>7. /\ lineidx \in 0 .. MAXLINELENGTH - 1 /\ currentline \in {1, 2}
      /\ lines \in [{1, 2} -> [0 .. MAXLINELENGTH - 1 -> Chars]]
  BY DEF TypeOK
<1>8. lineidx' = IF lineidx + 1 >= MAXLINELENGTH THEN MAXLINELENGTH - 1 ELSE lineidx + 1
  BY <1>1 DEF Bounded
<1>9. lineidx' \in 0 .. MAXLINELENGTH - 1
  BY <1>7, <1>8
<1>10. /\ lines' \in [{1, 2} -> [0 .. MAXLINELENGTH - 1 -> Chars]]
       /\ lines'[currentline] = [lines[currentline] EXCEPT ![lineidx] = c]
  <2>1. c \in Chars
    BY <1>2 DEF Sendable, Chars
  <2>2. [lines[currentline] EXCEPT ![lineidx] = c] \in [0 .. MAXLINELENGTH - 1 -> Chars]
    BY <1>7, <2>1
  <2> QED BY <1>1, <1>7, <2>2
<1>11. TypeOK'
  <2>1. /\ tx' \in Seq(Chars) /\ dropped' \in Seq(Chars) /\ heard' \in Seq(Chars)
        /\ missing' \in Seq(Chars)
        /\ uart' \in Seq([char : Chars, after : Seq(Chars), of : DOMAIN Latitudes])
    BY <1>6, SendableChars DEF WireInv
  <2>2. Len(uart') <= RxRoom
    BY <1>1, <1>3 DEF TypeOK
  <2> QED BY <1>1, <1>9, <1>10, <2>1, <2>2 DEF TypeOK
<1>12. FillInv'
  <2>1. /\ lineidx = IF Len(heard) < MAXLINELENGTH THEN Len(heard) ELSE MAXLINELENGTH - 1
        /\ \A i \in 1 .. lineidx : lines[currentline][i - 1] = heard[i]
        /\ Len(heard) \in Nat
    BY <1>4 DEF FillInv
  <2>2. lineidx' = IF Len(heard') < MAXLINELENGTH THEN Len(heard') ELSE MAXLINELENGTH - 1
    BY <1>4, <1>8, <2>1
  <2>3. ASSUME NEW i \in 1 .. lineidx'
        PROVE  lines'[currentline][i - 1] = heard'[i]
    <3>1. CASE i <= lineidx
      <4>1. i \in 1 .. lineidx /\ i - 1 # lineidx /\ i \in 1 .. Len(heard)
            /\ i - 1 \in 0 .. MAXLINELENGTH - 1
        BY <1>7, <1>9, <2>1, <3>1
      <4>2. lines'[currentline][i - 1] = lines[currentline][i - 1]
        BY <1>7, <1>10, <4>1
      <4> QED BY <1>4, <2>1, <4>1, <4>2
    <3>2. CASE ~(i <= lineidx)
      <4>1. i = lineidx + 1 /\ lineidx = Len(heard)
        BY <1>7, <1>8, <1>9, <2>1, <3>2
      <4>2. lines'[currentline][i - 1] = c
        BY <1>7, <1>10, <4>1
      <4> QED BY <1>4, <4>1, <4>2
    <3> QED BY <3>1, <3>2
  <2> QED BY <1>1, <2>2, <2>3 DEF FillInv
<1> QED BY <1>1, <1>6, <1>11, <1>12

\* A pass that ends a line: the buffer with the zero behind it, and the other one,
\* which begins with the line end.
LEMMA EndLineLines ==
  ASSUME NmeaInv, EndLine(LF)
  PROVE  /\ currentline' \in {1, 2} \ {currentline}
         /\ lines' \in [{1, 2} -> [0 .. MAXLINELENGTH - 1 -> Chars]]
         /\ lines'[currentline] = [lines[currentline] EXCEPT ![lineidx] = NUL]
         /\ lines'[currentline'][0] = LF
<1>1. /\ lineidx \in 0 .. MAXLINELENGTH - 1 /\ currentline \in {1, 2}
      /\ lines \in [{1, 2} -> [0 .. MAXLINELENGTH - 1 -> Chars]]
  BY DEF NmeaInv, TypeOK
<1>2. /\ currentline' = 3 - currentline
      /\ lines' = [lines EXCEPT ![currentline][lineidx] = NUL, ![currentline'][0] = LF]
  BY DEF EndLine
<1>3. currentline' \in {1, 2} \ {currentline}
  BY <1>1, <1>2
<1>4. LF \in Chars /\ NUL \in Chars /\ 0 \in 0 .. MAXLINELENGTH - 1
  BY SizeTypes DEF LF, NUL, Chars
<1> DEFINE a == [lines[currentline] EXCEPT ![lineidx] = NUL]
           b == [lines[currentline'] EXCEPT ![0] = LF]
<1>5. /\ a \in [0 .. MAXLINELENGTH - 1 -> Chars] /\ b \in [0 .. MAXLINELENGTH - 1 -> Chars]
      /\ b[0] = LF
  BY <1>1, <1>3, <1>4
<1>6. /\ lines'[currentline] = a /\ lines'[currentline'] = b
      /\ lines' = [l \in {1, 2} |-> IF l = currentline THEN a ELSE b]
  <2> DEFINE m == [lines EXCEPT ![currentline][lineidx] = NUL]
  <2>1. m[currentline] = a /\ m[currentline'] = lines[currentline'] /\ DOMAIN m = {1, 2}
    BY <1>1, <1>3
  <2>2. lines' = [m EXCEPT ![currentline'][0] = LF]
    BY <1>2
  <2> HIDE DEF m, a
  <2>3. /\ DOMAIN lines' = {1, 2} /\ lines'[currentline] = a
        /\ lines'[currentline'] = [m[currentline'] EXCEPT ![0] = LF]
    <3>1. currentline \in {1, 2} /\ currentline' # currentline
      BY <1>1, <1>3
    <3>2. lines'[currentline'] = [m[currentline'] EXCEPT ![0] = LF]
      BY <1>3, <2>1, <2>2
    <3>3. lines'[currentline] = m[currentline]
      BY <2>1, <2>2, <3>1
    <3>4. DOMAIN lines' = {1, 2}
      BY <2>1, <2>2
    <3> QED BY <2>1, <3>2, <3>3, <3>4
  <2>4. lines'[currentline'] = b
    BY <2>1, <2>3
  <2>5. \A l \in {1, 2} : l # currentline => l = currentline'
    BY <1>1, <1>3
  <2>6. lines' = [l \in {1, 2} |-> lines'[l]]
    BY <1>1, <1>2, <1>3, <1>4
  <2> QED BY <2>3, <2>4, <2>5, <2>6
<1> HIDE DEF a, b
<1>7. lines' \in [{1, 2} -> [0 .. MAXLINELENGTH - 1 -> Chars]]
  BY <1>5, <1>6
<1> QED BY <1>3, <1>5, <1>6, <1>7 DEF a

LEMMA EndLineStep ==
  ASSUME NmeaInv, Pass, uart[1].char = LF
  PROVE  NmeaInv'
<1> USE SizeTypes DEF NmeaInv, wireVars
<1>1. /\ uart \in Seq([char : Sendable, after : Seq(Sendable), of : DOMAIN Latitudes])
      /\ uart # <<>> /\ uart' = Tail(uart)
      /\ EndLine(LF)
      /\ heard' = <<LF>> /\ missing' = <<>>
      /\ UNCHANGED <<turn, tx, dropped, lost>>
  BY DEF Pass, WireInv
<1>2. /\ uart' \in Seq([char : Sendable, after : Seq(Sendable), of : DOMAIN Latitudes])
      /\ Len(uart') = Len(uart) - 1 /\ Len(uart) \in Nat
  BY <1>1
<1>3. heard' \in Seq(Sendable) /\ missing' \in Seq(Sendable) /\ Len(heard') = 1 /\ heard'[1] = LF
  BY <1>1 DEF LF, Sendable
<1>4. WireInv'
  BY <1>1, <1>2, <1>3 DEF WireInv
<1>5. /\ currentline' \in {1, 2}
      /\ lines' \in [{1, 2} -> [0 .. MAXLINELENGTH - 1 -> Chars]]
      /\ lines'[currentline'][0] = LF
  BY <1>1, EndLineLines
<1>6. lineidx' = IF 1 >= MAXLINELENGTH THEN MAXLINELENGTH - 1 ELSE 1
  BY <1>1 DEF EndLine, Bounded
<1>7. lineidx' \in 0 .. MAXLINELENGTH - 1
  BY <1>6
<1>8. latitude' \in 0 .. 9
  BY <1>1, ParsedType DEF EndLine, TypeOK
<1>9. TypeOK'
  <2>1. /\ tx' \in Seq(Chars) /\ dropped' \in Seq(Chars) /\ heard' \in Seq(Chars)
        /\ missing' \in Seq(Chars)
        /\ uart' \in Seq([char : Chars, after : Seq(Chars), of : DOMAIN Latitudes])
    BY <1>4, SendableChars DEF WireInv
  <2>2. Len(uart') <= RxRoom
    BY <1>1, <1>2 DEF TypeOK
  <2> QED BY <1>1, <1>5, <1>7, <1>8, <2>1, <2>2 DEF TypeOK
<1>10. FillInv'
  <2>1. lineidx' = IF Len(heard') < MAXLINELENGTH THEN Len(heard') ELSE MAXLINELENGTH - 1
    BY <1>3, <1>6
  <2>2. \A i \in 1 .. lineidx' : lines'[currentline'][i - 1] = heard'[i]
    <3>1. \A i \in 1 .. lineidx' : i = 1
      BY <1>6
    <3> QED BY <1>3, <1>5, <3>1
  <2> QED BY <2>1, <2>2 DEF FillInv
<1> QED BY <1>4, <1>9, <1>10

\* A sequence with an element is not empty.
LEMMA LongIsNotEmpty == ASSUME NEW S, NEW q \in Seq(S), Len(q) > 0 PROVE q # <<>>
  OBVIOUS

\* Nothing has been heard yet.
LEMMA NmeaInit == Init => NmeaInv
<1> SUFFICES ASSUME Init PROVE NmeaInv
  OBVIOUS
<1> USE SizeTypes DEF Init
<1>1. 1 \in DOMAIN Latitudes /\ turn = 1
  BY LatitudeAssumption
<1>2. tx \in Seq(Sendable) /\ tx # <<>>
  <2>1. Sentences[1] \in Seq(Sendable)
    BY <1>1, SentencesType
  <2>2. PICK i \in DOMAIN Sentences[1] : tx = SubSeq(Sentences[1], i, Len(Sentences[1]))
    OBVIOUS
  <2>3. PICK s \in Seq(Sendable) : s = Sentences[1]
    BY <2>1
  <2>4. /\ SubSeq(s, i, Len(s)) \in Seq(Sendable)
        /\ Len(SubSeq(s, i, Len(s))) = Len(s) - i + 1 /\ Len(s) - i + 1 > 0
    BY <2>2, <2>3
  <2>5. PICK q \in Seq(Sendable) : q = SubSeq(s, i, Len(s))
    BY <2>4
  <2>6. Len(q) > 0
    BY <2>4, <2>5
  <2>7. tx = q
    BY <2>2, <2>3, <2>5
  <2> QED BY <2>6, <2>7, LongIsNotEmpty
<1>3. <<>> \in Seq(Sendable)
  OBVIOUS
<1>4. WireInv
  BY <1>2, <1>3 DEF WireInv
<1>5. lines \in [{1, 2} -> [0 .. MAXLINELENGTH - 1 -> Chars]]
  BY DEF NUL, Chars
<1>6. TypeOK
  <2>1. /\ tx \in Seq(Chars) /\ dropped \in Seq(Chars) /\ heard \in Seq(Chars)
        /\ missing \in Seq(Chars)
        /\ uart \in Seq([char : Chars, after : Seq(Chars), of : DOMAIN Latitudes])
    BY <1>4, SendableChars DEF WireInv
  <2>2. lost \in 0 .. MaxLost /\ Len(uart) <= RxRoom /\ lineidx \in 0 .. MAXLINELENGTH - 1
    OBVIOUS
  <2> QED BY <1>1, <1>5, <2>1, <2>2 DEF TypeOK
<1>7. FillInv
  BY DEF FillInv
<1> QED BY <1>4, <1>6, <1>7 DEF NmeaInv

\* The invariant holds in every behaviour.
THEOREM Invariant == Spec => []NmeaInv
<1>1. NmeaInv /\ [Next]_vars => NmeaInv'
  <2> SUFFICES ASSUME NmeaInv, [Next]_vars PROVE NmeaInv'
    OBVIOUS
  <2>1. CASE Keep \/ Drop
    BY <2>1, WireStep
  <2>2. CASE Pass
    BY <2>2, StoreStep, EndLineStep
  <2>3. CASE UNCHANGED vars
    BY <2>3 DEF NmeaInv, TypeOK, WireInv, FillInv, vars, wireVars, gpsVars
  <2> QED BY <2>1, <2>2, <2>3 DEF Next
<1> QED BY <1>1, NmeaInit, PTL DEF Spec

-----------------------------------------------------------------------------
(* Safety                                                                  *)

\* No character is ever stored outside a line buffer, and the latitude is a digit.
THEOREM TypeCorrect == Spec => []TypeOK
  BY Invariant, PTL DEF NmeaInv

\* A line with a zero behind its first n characters and none before is those, as C
\* reads it.
LEMMA StringIs ==
  ASSUME NEW line \in [0 .. MAXLINELENGTH - 1 -> Chars], NEW n \in 0 .. MAXLINELENGTH - 1,
         line[n] = NUL, \A i \in 1 .. n : line[i - 1] # NUL
  PROVE  String(line) = [i \in 1 .. n |-> line[i - 1]]
<1> DEFINE s == [i \in 1 .. MAXLINELENGTH |-> line[i - 1]]
           I == {i \in 1 .. Len(s) : s[i] = NUL}
           end == SelectInSeq(s, LAMBDA c : c = NUL)
<1>1. Len(s) = MAXLINELENGTH
  BY SizeTypes
<1>2. n + 1 \in I /\ \A i \in I : n + 1 <= i
  <2>1. n + 1 \in 1 .. MAXLINELENGTH /\ (n + 1) - 1 = n
    BY SizeTypes
  <2>2. \A i \in 1 .. MAXLINELENGTH : i <= n => i \in 1 .. n
    OBVIOUS
  <2>3. s[n + 1] = NUL
    BY <2>1
  <2>4. \A i \in 1 .. MAXLINELENGTH : i <= n => s[i] # NUL
    BY <2>2
  <2> HIDE DEF s
  <2>5. n + 1 \in I
    BY <1>1, <2>1, <2>3
  <2>6. ASSUME NEW i \in I PROVE n + 1 <= i
    <3>1. i \in 1 .. MAXLINELENGTH /\ s[i] = NUL
      BY <1>1
    <3>2. ~(i <= n)
      BY <2>4, <3>1
    <3> QED BY SizeTypes, <3>1, <3>2
  <2> QED BY <2>5, <2>6
<1>3. Min(I) = n + 1
  <2>1. I \subseteq Int
    BY SizeTypes, <1>1
  <2> HIDE DEF I
  <2>2. \A x \in I : (\A y \in I : x <= y) => x = n + 1
    BY <1>2, <2>1
  <2>3. Min(I) = CHOOSE x \in I : \A y \in I : x <= y
    BY DEF Min
  <2> QED BY <1>2, <2>2, <2>3
<1>4. end = n + 1
  <2>1. end = IF I # {} THEN Min(I) ELSE 0
    BY DEF SelectInSeq
  <2> HIDE DEF end, I
  <2> QED BY <1>2, <1>3, <2>1
<1>5. String(line) = [i \in 1 .. (IF end = 0 THEN MAXLINELENGTH ELSE end - 1) |-> line[i - 1]]
  BY DEF String
<1> HIDE DEF end
<1> QED BY <1>4, <1>5

\* What a line end leaves to be parsed.
LEMMA LineParsed ==
  ASSUME NmeaInv, Next, LineEnds
  PROVE  String(lines'[currentline]) =
           SubSeq(heard, 1, IF Len(heard) < MAXLINELENGTH THEN Len(heard) ELSE MAXLINELENGTH - 1)
<1> DEFINE Room == IF Len(heard) < MAXLINELENGTH THEN Len(heard) ELSE MAXLINELENGTH - 1
<1>1. Pass /\ uart[1].char = LF
  BY StoreStep DEF Next, Keep, Drop, LineEnds, gpsVars
<1>2. EndLine(LF)
  BY <1>1 DEF Pass
<1>3. /\ lines'[currentline] = [lines[currentline] EXCEPT ![lineidx] = NUL]
      /\ lines'[currentline] \in [0 .. MAXLINELENGTH - 1 -> Chars]
  BY <1>2, EndLineLines DEF NmeaInv, TypeOK
<1>4. /\ lineidx \in 0 .. MAXLINELENGTH - 1 /\ lineidx = Room /\ heard \in Seq(Sendable)
      /\ lineidx \in 0 .. Len(heard)
      /\ \A i \in 1 .. lineidx : lines[currentline][i - 1] = heard[i]
      /\ lines[currentline] \in [0 .. MAXLINELENGTH - 1 -> Chars]
  BY SizeTypes DEF NmeaInv, TypeOK, WireInv, FillInv
<1> DEFINE line == lines'[currentline]
<1>5. line[lineidx] = NUL /\ \A i \in 1 .. lineidx : line[i - 1] = heard[i]
  <2>1. PICK n \in 0 .. MAXLINELENGTH - 1 : n = lineidx
    BY <1>4
  <2>2. PICK k \in [0 .. MAXLINELENGTH - 1 -> Chars] : k = lines[currentline]
    BY <1>4
  <2>3. line = [k EXCEPT ![n] = NUL]
    BY <1>3, <2>1, <2>2
  <2>4. line[n] = NUL
    BY <2>3
  <2>5. ASSUME NEW i \in 1 .. n PROVE line[i - 1] = heard[i]
    <3>1. k[i - 1] = heard[i]
      BY <1>4, <2>1, <2>2
    <3>2. i - 1 \in 0 .. MAXLINELENGTH - 1 /\ i - 1 # n
      BY SizeTypes
    <3> HIDE DEF line
    <3> QED BY <2>3, <3>1, <3>2
  <2> QED BY <2>1, <2>4, <2>5
<1>6. \A i \in 1 .. lineidx : heard[i] # NUL
  <2>1. \A i \in 1 .. lineidx : heard[i] \in Sendable
    BY <1>4
  <2> QED BY <2>1 DEF Sendable, NUL
<1> HIDE DEF line
<1>7. PICK l \in [0 .. MAXLINELENGTH - 1 -> Chars] : l = line
  BY <1>3 DEF line
<1>8. String(l) = [i \in 1 .. lineidx |-> l[i - 1]]
  <2>1. PICK n \in 0 .. MAXLINELENGTH - 1 : n = lineidx
    BY <1>4
  <2>2. l[n] = NUL
    BY <1>5, <1>7, <2>1
  <2>3. \A i \in 1 .. n : l[i - 1] # NUL
    BY <1>5, <1>6, <1>7, <2>1
  <2>4. String(l) = [i \in 1 .. n |-> l[i - 1]]
    BY <2>2, <2>3, StringIs
  <2> QED BY <2>1, <2>4
<1>9. SubSeq(heard, 1, lineidx) = [i \in 1 .. lineidx |-> heard[i]]
  BY <1>4
<1>10. String(line) = SubSeq(heard, 1, lineidx)
  BY <1>5, <1>7, <1>8, <1>9
<1> QED BY <1>4, <1>10 DEF line

\* The line that is parsed is what has come since the line end before it.
THEOREM LineIsWhatCameHolds == Spec => LineIsWhatCame
<1>1. NmeaInv /\ [Next]_vars
        => [LineEnds =>
              String(lines'[currentline]) =
                SubSeq(heard, 1,
                       IF Len(heard) < MAXLINELENGTH THEN Len(heard) ELSE MAXLINELENGTH - 1)]_vars
  BY LineParsed
<1> QED BY <1>1, Invariant, PTL DEF Spec, LineIsWhatCame

-----------------------------------------------------------------------------
(* The checksum                                                            *)

\* The bit of a character that is worth b.
Bit(c, b) == (c \div b) % 2

LEMMA BitType == \A c \in Chars, b \in Nat \ {0} : Bit(c, b) \in {0, 1}
<1> SUFFICES ASSUME NEW c \in Chars, NEW b \in Nat \ {0} PROVE Bit(c, b) \in {0, 1}
  OBVIOUS
<1>1. c \div b \in Int
  BY DEF Chars
<1>2. \A n \in Int : n % 2 \in {0, 1}
  OBVIOUS
<1> QED BY <1>1, <1>2 DEF Bit

\* No characters have no bits.
LEMMA OddEmpty == \A b : Odd(<<>>, b) = 0
<1> SUFFICES ASSUME NEW b PROVE Odd(<<>>, b) = 0
  OBVIOUS
<1>1. {k \in DOMAIN <<>> : (<<>>[k] \div b) % 2 = 1} = {}
  OBVIOUS
<1>2. Cardinality({}) = 0
  BY FS_EmptySet
<1> QED BY <1>1, <1>2 DEF Odd

\* One more character adds its bit.
LEMMA OddAppend ==
  ASSUME NEW s \in Seq(Chars), NEW c \in Chars, NEW b \in Nat \ {0}
  PROVE  Odd(Append(s, c), b) = (Odd(s, b) + Bit(c, b)) % 2
<1> DEFINE t == Append(s, c)
           n == Len(s) + 1
           K == {k \in DOMAIN s : (s[k] \div b) % 2 = 1}
           L == {k \in DOMAIN t : (t[k] \div b) % 2 = 1}
<1>1. /\ DOMAIN s = 1 .. Len(s) /\ DOMAIN t = 1 .. n /\ t[n] = c /\ Len(s) \in Nat
      /\ \A k \in 1 .. Len(s) : t[k] = s[k]
  OBVIOUS
<1>2. K \in SUBSET (1 .. Len(s)) /\ n \notin K
  BY <1>1
<1>3. IsFiniteSet(K) /\ Cardinality(K) \in Nat
  <2>1. IsFiniteSet(1 .. Len(s))
    BY <1>1, FS_Interval
  <2> HIDE DEF K
  <2> QED BY <1>2, <2>1, FS_Subset, FS_CardinalityType
<1>4. L = IF Bit(c, b) = 1 THEN K \union {n} ELSE K
  <2> HIDE DEF t
  <2>1. \A k : k \in L <=> \/ k \in 1 .. Len(s) /\ (s[k] \div b) % 2 = 1
                           \/ k = n /\ (c \div b) % 2 = 1
    BY <1>1
  <2>2. \A k : k \in K <=> k \in 1 .. Len(s) /\ (s[k] \div b) % 2 = 1
    BY <1>1
  <2> HIDE DEF K, L, n
  <2> QED BY <2>1, <2>2 DEF Bit
<1>5. Cardinality(L) = Cardinality(K) + Bit(c, b)
  <2>1. Bit(c, b) \in {0, 1}
    BY BitType
  <2>2. Cardinality(K \union {n}) = Cardinality(K) + 1
    BY <1>2, <1>3, FS_AddElement
  <2> HIDE DEF K, L, n
  <2> QED BY <1>3, <1>4, <2>1, <2>2
<1>6. \A m \in Nat, x \in {0, 1} : (m + x) % 2 = ((m % 2) + x) % 2
  OBVIOUS
<1>7. Odd(s, b) = Cardinality(K) % 2 /\ Odd(t, b) = Cardinality(L) % 2
  BY DEF Odd
<1>8. Bit(c, b) \in {0, 1}
  BY BitType
<1> HIDE DEF K, L, t
<1> QED BY <1>3, <1>5, <1>6, <1>7, <1>8 DEF t

\* One character, and so on to five.
LEMMA OddOne ==
  ASSUME NEW b \in Nat \ {0}, NEW u \in Chars
  PROVE  Odd(<<u>>, b) = Bit(u, b)
<1>1. <<>> \in Seq(Chars) /\ <<u>> = Append(<<>>, u)
  OBVIOUS
<1>2. Odd(Append(<<>>, u), b) = (Odd(<<>>, b) + Bit(u, b)) % 2
  <2>1. PICK f \in Seq(Chars) : f = <<>>
    BY <1>1
  <2> QED BY <2>1, OddAppend
<1>3. Bit(u, b) \in {0, 1}
  BY BitType
<1> QED BY <1>1, <1>2, <1>3, OddEmpty

LEMMA OddTwo ==
  ASSUME NEW b \in Nat \ {0}, NEW u \in Chars, NEW v \in Chars
  PROVE  Odd(<<u, v>>, b) = (Bit(u, b) + Bit(v, b)) % 2
<1>1. <<u>> \in Seq(Chars) /\ <<u, v>> = Append(<<u>>, v)
  OBVIOUS
<1>2. Odd(Append(<<u>>, v), b) = (Odd(<<u>>, b) + Bit(v, b)) % 2
  <2>1. PICK f \in Seq(Chars) : f = <<u>>
    BY <1>1
  <2> QED BY <2>1, OddAppend
<1>3. Odd(<<u>>, b) = Bit(u, b)
  BY OddOne
<1>4. Bit(u, b) \in Nat /\ Bit(v, b) \in {0, 1}
  <2>1. Bit(u, b) \in {0, 1} /\ Bit(v, b) \in {0, 1}
    BY BitType
  <2> QED BY <2>1
<1>5. \A m \in Nat, n \in {0, 1} : ((m % 2) + n) % 2 = (m + n) % 2
  OBVIOUS
<1> QED BY <1>1, <1>2, <1>3, <1>4, <1>5

LEMMA OddThree ==
  ASSUME NEW b \in Nat \ {0}, NEW u \in Chars, NEW v \in Chars, NEW w \in Chars
  PROVE  Odd(<<u, v, w>>, b) = (Bit(u, b) + Bit(v, b) + Bit(w, b)) % 2
<1>1. <<u, v>> \in Seq(Chars) /\ <<u, v, w>> = Append(<<u, v>>, w)
  OBVIOUS
<1>2. Odd(Append(<<u, v>>, w), b) = (Odd(<<u, v>>, b) + Bit(w, b)) % 2
  <2>1. PICK f \in Seq(Chars) : f = <<u, v>>
    BY <1>1
  <2> QED BY <2>1, OddAppend
<1>3. Odd(<<u, v>>, b) = (Bit(u, b) + Bit(v, b)) % 2
  BY OddTwo
<1>4. Bit(u, b) + Bit(v, b) \in Nat /\ Bit(w, b) \in {0, 1}
  <2>1. Bit(u, b) \in {0, 1} /\ Bit(v, b) \in {0, 1} /\ Bit(w, b) \in {0, 1}
    BY BitType
  <2> QED BY <2>1
<1>5. \A m \in Nat, n \in {0, 1} : ((m % 2) + n) % 2 = (m + n) % 2
  OBVIOUS
<1> QED BY <1>1, <1>2, <1>3, <1>4, <1>5

LEMMA OddFour ==
  ASSUME NEW b \in Nat \ {0}, NEW u \in Chars, NEW v \in Chars, NEW w \in Chars,
         NEW x \in Chars
  PROVE  Odd(<<u, v, w, x>>, b) = (Bit(u, b) + Bit(v, b) + Bit(w, b) + Bit(x, b)) % 2
<1>1. <<u, v, w>> \in Seq(Chars) /\ <<u, v, w, x>> = Append(<<u, v, w>>, x)
  OBVIOUS
<1>2. Odd(Append(<<u, v, w>>, x), b) = (Odd(<<u, v, w>>, b) + Bit(x, b)) % 2
  <2>1. PICK f \in Seq(Chars) : f = <<u, v, w>>
    BY <1>1
  <2> QED BY <2>1, OddAppend
<1>3. Odd(<<u, v, w>>, b) = (Bit(u, b) + Bit(v, b) + Bit(w, b)) % 2
  BY OddThree
<1>4. Bit(u, b) + Bit(v, b) + Bit(w, b) \in Nat /\ Bit(x, b) \in {0, 1}
  <2>1. /\ Bit(u, b) \in {0, 1} /\ Bit(v, b) \in {0, 1} /\ Bit(w, b) \in {0, 1}
        /\ Bit(x, b) \in {0, 1}
    BY BitType
  <2> QED BY <2>1
<1>5. \A m \in Nat, n \in {0, 1} : ((m % 2) + n) % 2 = (m + n) % 2
  OBVIOUS
<1> QED BY <1>1, <1>2, <1>3, <1>4, <1>5

LEMMA OddFive ==
  ASSUME NEW b \in Nat \ {0}, NEW u \in Chars, NEW v \in Chars, NEW w \in Chars,
         NEW x \in Chars, NEW y \in Chars
  PROVE  Odd(<<u, v, w, x, y>>, b) = (Bit(u, b) + Bit(v, b) + Bit(w, b) + Bit(x, b) + Bit(y, b)) % 2
<1>1. <<u, v, w, x>> \in Seq(Chars) /\ <<u, v, w, x, y>> = Append(<<u, v, w, x>>, y)
  OBVIOUS
<1>2. Odd(Append(<<u, v, w, x>>, y), b) = (Odd(<<u, v, w, x>>, b) + Bit(y, b)) % 2
  <2>1. PICK f \in Seq(Chars) : f = <<u, v, w, x>>
    BY <1>1
  <2> QED BY <2>1, OddAppend
<1>3. Odd(<<u, v, w, x>>, b) = (Bit(u, b) + Bit(v, b) + Bit(w, b) + Bit(x, b)) % 2
  BY OddFour
<1>4. Bit(u, b) + Bit(v, b) + Bit(w, b) + Bit(x, b) \in Nat /\ Bit(y, b) \in {0, 1}
  <2>1. /\ Bit(u, b) \in {0, 1} /\ Bit(v, b) \in {0, 1} /\ Bit(w, b) \in {0, 1}
        /\ Bit(x, b) \in {0, 1} /\ Bit(y, b) \in {0, 1}
    BY BitType
  <2> QED BY <2>1
<1>5. \A m \in Nat, n \in {0, 1} : ((m % 2) + n) % 2 = (m + n) % 2
  OBVIOUS
<1> QED BY <1>1, <1>2, <1>3, <1>4, <1>5

\* Equal sums have equal bits.
LEMMA SumBits ==
  ASSUME NEW s \in Seq(Chars), NEW t \in Seq(Chars), XorAll(s) = XorAll(t)
  PROVE  Odd(s, 8) = Odd(t, 8) /\ Odd(s, 16) = Odd(t, 16) /\ Odd(s, 64) = Odd(t, 64)
<1>1. ASSUME NEW r \in Seq(Chars)
      PROVE  /\ Odd(r, 1) \in 0 .. 1 /\ Odd(r, 2) \in 0 .. 1 /\ Odd(r, 4) \in 0 .. 1
             /\ Odd(r, 8) \in 0 .. 1 /\ Odd(r, 16) \in 0 .. 1 /\ Odd(r, 32) \in 0 .. 1
             /\ Odd(r, 64) \in 0 .. 1
  <2>1. \A b \in Nat : Odd(r, b) \in {0, 1}
    BY OddType
  <2> QED BY <2>1
<1> DEFINE a == Odd(s, 1)  b == Odd(s, 2)  c == Odd(s, 4)
           d == Odd(s, 8)  e == Odd(s, 16)  f == Odd(s, 32)  g == Odd(s, 64)
           A == Odd(t, 1)  B == Odd(t, 2)  C == Odd(t, 4)
           D == Odd(t, 8)  E == Odd(t, 16)  F == Odd(t, 32)  G == Odd(t, 64)
<1>2. a + 2 * b + 4 * c + 8 * d + 16 * e + 32 * f + 64 * g
        = A + 2 * B + 4 * C + 8 * D + 16 * E + 32 * F + 64 * G
  BY DEF XorAll
<1>3. /\ a \in 0 .. 1 /\ b \in 0 .. 1 /\ c \in 0 .. 1 /\ d \in 0 .. 1 /\ e \in 0 .. 1
      /\ f \in 0 .. 1 /\ g \in 0 .. 1
      /\ A \in 0 .. 1 /\ B \in 0 .. 1 /\ C \in 0 .. 1 /\ D \in 0 .. 1 /\ E \in 0 .. 1
      /\ F \in 0 .. 1 /\ G \in 0 .. 1
  BY <1>1
<1> HIDE DEF a, b, c, d, e, f, g, A, B, C, D, E, F, G
<1>4. d = D /\ e = E /\ g = G
  BY <1>2, <1>3
<1> QED BY <1>4 DEF d, D, e, E, g, G

\* The two digits behind the * say what the sum is.
LEMMA HexIs ==
  \A x \in Chars : 16 * parseHex(HexDigit(x \div 16)) + parseHex(HexDigit(x % 16)) = x
<1>1. \A n \in 0 .. 15 : parseHex(HexDigit(n)) = n
  BY DEF parseHex, HexDigit
<1>2. \A x \in 0 .. 127 : x \div 16 \in 0 .. 15 /\ x % 16 \in 0 .. 15
  OBVIOUS
<1>3. \A x \in 0 .. 127 : x = 16 * (x \div 16) + (x % 16)
  OBVIOUS
<1> QED BY <1>1, <1>2, <1>3 DEF Chars

-----------------------------------------------------------------------------
(* What a sentence looks like                                              *)

\* Body, marks and digits of a sentence, each in its place.
LEMMA SentenceShape ==
  ASSUME NEW s \in Seq(Sendable)
  PROVE  /\ Len(Sentence(s)) = Len(s) + 6
         /\ Sentence(s)[1] = Dollar
         /\ \A i \in 1 .. Len(s) : Sentence(s)[i + 1] = s[i]
         /\ Sentence(s)[Len(s) + 2] = Star
         /\ Sentence(s)[Len(s) + 3] = HexDigit(XorAll(s) \div 16)
         /\ Sentence(s)[Len(s) + 4] = HexDigit(XorAll(s) % 16)
         /\ Sentence(s)[Len(s) + 5] = CR
         /\ Sentence(s)[Len(s) + 6] = LF
<1> DEFINE n == Len(s)
           h == HexDigit(XorAll(s) \div 16)
           l == HexDigit(XorAll(s) % 16)
           tail == <<Star, h, l, CR, LF>>
           head == <<Dollar>> \o s
<1>1. h \in Sendable /\ l \in Sendable
  <2>1. s \in Seq(Chars)
    BY SendableChars
  <2>2. XorAll(s) \in 0 .. 127
    BY <2>1, XorAllType DEF Chars
  <2>3. \A x \in 0 .. 127 : x \div 16 \in 0 .. 15 /\ x % 16 \in 0 .. 15
    OBVIOUS
  <2>4. \A x \in 0 .. 15 : HexDigit(x) \in Sendable
    BY DEF HexDigit, Sendable
  <2> QED BY <2>2, <2>3, <2>4
<1>0. n \in Nat
  OBVIOUS
<1> HIDE DEF h, l
<1>2. /\ tail \in Seq(Sendable) /\ Len(tail) = 5
      /\ tail[1] = Star /\ tail[2] = h /\ tail[3] = l /\ tail[4] = CR /\ tail[5] = LF
  BY <1>1 DEF Star, CR, LF, Sendable
<1> HIDE DEF tail
<1>3. <<Dollar>> \in Seq(Sendable) /\ Len(<<Dollar>>) = 1 /\ <<Dollar>>[1] = Dollar
  BY DEF Dollar, Sendable
<1>4. /\ head \in Seq(Sendable) /\ Len(head) = n + 1 /\ head[1] = Dollar
      /\ \A i \in 1 .. n : head[i + 1] = s[i]
  BY <1>3, ConcatProperties
<1> HIDE DEF head
<1>5. /\ Len(head \o tail) = n + 6
      /\ \A i \in 1 .. n + 1 : (head \o tail)[i] = head[i]
      /\ \A i \in 1 .. 5 : (head \o tail)[n + 1 + i] = tail[i]
  <2>1. /\ Len(head \o tail) = Len(head) + Len(tail)
        /\ \A i \in 1 .. Len(head) + Len(tail) :
             (head \o tail)[i] = IF i <= Len(head) THEN head[i] ELSE tail[i - Len(head)]
    BY <1>2, <1>4, ConcatProperties
  <2>2. \A i \in 1 .. 5 : /\ n + 1 + i \in 1 .. n + 1 + 5 /\ ~(n + 1 + i <= n + 1)
                        /\ (n + 1 + i) - (n + 1) = i
    OBVIOUS
  <2>3. \A i \in 1 .. n + 1 : i \in 1 .. n + 1 + 5 /\ i <= n + 1
    OBVIOUS
  <2>4. ASSUME NEW i \in 1 .. 5 PROVE (head \o tail)[n + 1 + i] = tail[i]
    BY <1>2, <1>4, <2>1, <2>2
  <2>5. Len(head \o tail) = n + 6
    BY <1>0, <1>2, <1>4, <2>1
  <2>6. ASSUME NEW i \in 1 .. n + 1 PROVE (head \o tail)[i] = head[i]
    BY <1>2, <1>4, <2>1, <2>3
  <2> QED BY <2>4, <2>5, <2>6
<1>6. Sentence(s) = head \o tail
  BY DEF Sentence, head, tail, h, l
<1>7. \A i \in 1 .. n : (head \o tail)[i + 1] = s[i]
  BY <1>4, <1>5
<1>8. (head \o tail)[1] = Dollar
  BY <1>4, <1>5
<1>9. /\ (head \o tail)[n + 2] = Star /\ (head \o tail)[n + 3] = h
      /\ (head \o tail)[n + 4] = l /\ (head \o tail)[n + 5] = CR
      /\ (head \o tail)[n + 6] = LF
  <2> HIDE DEF n
  <2>1. /\ n + 1 + 1 = n + 2 /\ n + 1 + 2 = n + 3 /\ n + 1 + 3 = n + 4
        /\ n + 1 + 4 = n + 5 /\ n + 1 + 5 = n + 6
    BY <1>0
  <2>2. /\ (head \o tail)[n + 1 + 1] = tail[1] /\ (head \o tail)[n + 1 + 2] = tail[2]
        /\ (head \o tail)[n + 1 + 3] = tail[3] /\ (head \o tail)[n + 1 + 4] = tail[4]
        /\ (head \o tail)[n + 1 + 5] = tail[5]
    <3>1. 1 \in 1 .. 5 /\ 2 \in 1 .. 5 /\ 3 \in 1 .. 5 /\ 4 \in 1 .. 5 /\ 5 \in 1 .. 5
      OBVIOUS
    <3> QED BY <1>5, <3>1, Zenon
  <2> QED BY <1>2, <2>1, <2>2
<1> QED BY <1>5, <1>6, <1>7, <1>8, <1>9 DEF h, l

\* The digit of a latitude.
LEMMA DigitIs ==
  ASSUME NEW k \in DOMAIN Latitudes
  PROVE  /\ Latitudes[k] \in 1 .. 9
         /\ Digit(Latitudes[k]) \in 49 .. 57 /\ LatitudeFrom(Digit(Latitudes[k])) = Latitudes[k]
<1>1. Latitudes[k] \in 1 .. 9
  BY LatitudeAssumption
<1> QED BY <1>1 DEF Digit, Number, LatitudeFrom, Comma

\* A place in a sentence where a hexadecimal digit stands.
Hex == (48 .. 57) \union (65 .. 70)

\* The sum of a sentence is what its two digits say.
LEMMA DigitsSay ==
  ASSUME NEW s \in Seq(Sendable)
  PROVE  /\ HexDigit(XorAll(s) \div 16) \in Hex /\ HexDigit(XorAll(s) % 16) \in Hex
         /\ 16 * parseHex(HexDigit(XorAll(s) \div 16)) + parseHex(HexDigit(XorAll(s) % 16))
              = XorAll(s)
<1>1. XorAll(s) \in 0 .. 127
  BY SendableChars, XorAllType DEF Chars
<1>2. \A x \in 0 .. 127 : x \div 16 \in 0 .. 15 /\ x % 16 \in 0 .. 15
  OBVIOUS
<1>3. \A x \in 0 .. 15 : HexDigit(x) \in Hex
  BY DEF HexDigit, Hex
<1>4. XorAll(s) \in Chars
  BY <1>1 DEF Chars
<1> QED BY <1>1, <1>2, <1>3, <1>4, HexIs

\* The shape of a sentence without its line end: t from place o on.
ShapeG(t, o, k) ==
  /\ t[o + 1] = Dollar /\ t[o + 2] = Letter.G /\ t[o + 3] = Comma
  /\ t[o + 4] = Digit(Latitudes[k]) /\ t[o + 5] = Star
  /\ t[o + 6] \in Hex /\ t[o + 7] \in Hex /\ t[o + 8] = CR
  /\ 16 * parseHex(t[o + 6]) + parseHex(t[o + 7])
       = XorAll(<<Letter.G, Comma, Digit(Latitudes[k])>>)

ShapeR(t, o, k) ==
  /\ t[o + 1] = Dollar /\ t[o + 2] = Letter.R /\ t[o + 3] = Comma
  /\ t[o + 4] = Letter.A /\ t[o + 5] = Comma
  /\ t[o + 6] = Digit(Latitudes[k]) /\ t[o + 7] = Star
  /\ t[o + 8] \in Hex /\ t[o + 9] \in Hex /\ t[o + 10] = CR
  /\ 16 * parseHex(t[o + 8]) + parseHex(t[o + 9])
       = XorAll(<<Letter.R, Comma, Letter.A, Comma, Digit(Latitudes[k])>>)

LEMMA SentencesShape ==
  ASSUME NEW k \in DOMAIN Latitudes
  PROVE  /\ k % 2 = 0 => /\ ShapeG(Sentences[k], 0, k)
                         /\ Len(Sentences[k]) = 9 /\ Sentences[k][9] = LF
         /\ k % 2 # 0 => /\ ShapeR(Sentences[k], 0, k)
                         /\ Len(Sentences[k]) = 11 /\ Sentences[k][11] = LF
<1>1. Digit(Latitudes[k]) \in Sendable
  BY DigitIs DEF Sendable
<1>2. /\ Letter.G \in Sendable /\ Letter.R \in Sendable /\ Letter.A \in Sendable
      /\ Comma \in Sendable
  BY DEF Letter, Comma, Sendable
<1> DEFINE d == Digit(Latitudes[k])
<1> HIDE DEF d
<1>3. CASE k % 2 = 0
  <2> DEFINE s == <<Letter.G, Comma, d>>
  <2>1. s \in Seq(Sendable) /\ Len(s) = 3 /\ s[1] = Letter.G /\ s[2] = Comma /\ s[3] = d
    BY <1>1, <1>2 DEF d
  <2>2. Sentences[k] = Sentence(s)
    BY <1>3 DEF Sentences, d
  <2> DEFINE t == Sentence(s)
  <2> HIDE DEF s
  <2>3. /\ Len(t) = 3 + 6 /\ t[1] = Dollar /\ \A i \in 1 .. 3 : t[i + 1] = s[i]
        /\ t[3 + 2] = Star /\ t[3 + 3] = HexDigit(XorAll(s) \div 16)
        /\ t[3 + 4] = HexDigit(XorAll(s) % 16) /\ t[3 + 5] = CR /\ t[3 + 6] = LF
    BY <2>1, SentenceShape
  <2>4. /\ HexDigit(XorAll(s) \div 16) \in Hex /\ HexDigit(XorAll(s) % 16) \in Hex
        /\ 16 * parseHex(HexDigit(XorAll(s) \div 16)) + parseHex(HexDigit(XorAll(s) % 16))
             = XorAll(s)
    BY <2>1, DigitsSay
  <2> HIDE DEF t
  <2>5. /\ Len(t) = 9 /\ t[1] = Dollar /\ t[2] = s[1] /\ t[3] = s[2] /\ t[4] = s[3]
        /\ t[5] = Star /\ t[6] = HexDigit(XorAll(s) \div 16)
        /\ t[7] = HexDigit(XorAll(s) % 16) /\ t[8] = CR /\ t[9] = LF
    <3>1. t[1 + 1] = s[1] /\ t[2 + 1] = s[2] /\ t[3 + 1] = s[3]
      BY <2>3
    <3> QED BY <2>3, <3>1
  <2>6. ShapeG(t, 0, k) /\ Len(t) = 9 /\ t[9] = LF
    BY <2>1, <2>4, <2>5 DEF ShapeG, s, d
  <2>7. Sentences[k] = t
    BY <2>2 DEF t
  <2> QED BY <1>3, <2>6, <2>7
<1>4. CASE k % 2 # 0
  <2> DEFINE s == <<Letter.R, Comma, Letter.A, Comma, d>>
  <2>1. /\ s \in Seq(Sendable) /\ Len(s) = 5 /\ s[1] = Letter.R /\ s[2] = Comma
        /\ s[3] = Letter.A /\ s[4] = Comma /\ s[5] = d
    BY <1>1, <1>2 DEF d
  <2>2. Sentences[k] = Sentence(s)
    BY <1>4 DEF Sentences, d
  <2> DEFINE t == Sentence(s)
  <2> HIDE DEF s
  <2>3. /\ Len(t) = 5 + 6 /\ t[1] = Dollar /\ \A i \in 1 .. 5 : t[i + 1] = s[i]
        /\ t[5 + 2] = Star /\ t[5 + 3] = HexDigit(XorAll(s) \div 16)
        /\ t[5 + 4] = HexDigit(XorAll(s) % 16) /\ t[5 + 5] = CR /\ t[5 + 6] = LF
    BY <2>1, SentenceShape
  <2>4. /\ HexDigit(XorAll(s) \div 16) \in Hex /\ HexDigit(XorAll(s) % 16) \in Hex
        /\ 16 * parseHex(HexDigit(XorAll(s) \div 16)) + parseHex(HexDigit(XorAll(s) % 16))
             = XorAll(s)
    BY <2>1, DigitsSay
  <2> HIDE DEF t
  <2>5. /\ Len(t) = 11 /\ t[1] = Dollar /\ t[2] = s[1] /\ t[3] = s[2] /\ t[4] = s[3]
        /\ t[5] = s[4] /\ t[6] = s[5]
        /\ t[7] = Star /\ t[8] = HexDigit(XorAll(s) \div 16)
        /\ t[9] = HexDigit(XorAll(s) % 16) /\ t[10] = CR /\ t[11] = LF
    <3>1. /\ t[1 + 1] = s[1] /\ t[2 + 1] = s[2] /\ t[3 + 1] = s[3] /\ t[4 + 1] = s[4]
          /\ t[5 + 1] = s[5]
      BY <2>3
    <3> QED BY <2>3, <3>1
  <2>6. ShapeR(t, 0, k) /\ Len(t) = 11 /\ t[11] = LF
    BY <2>1, <2>4, <2>5 DEF ShapeR, s, d
  <2>7. Sentences[k] = t
    BY <2>2 DEF t
  <2> QED BY <1>4, <2>6, <2>7
<1> QED BY <1>3, <1>4

-----------------------------------------------------------------------------
(* What parse() makes of a line                                            *)

\* The least element of a set is what Min chooses.
LEMMA MinIs ==
  ASSUME NEW I \in SUBSET Int, NEW n \in I, \A i \in I : n <= i
  PROVE  Min(I) = n
<1>1. \A x \in I : (\A y \in I : x <= y) => x = n
  OBVIOUS
<1>2. Min(I) = CHOOSE x \in I : \A y \in I : x <= y
  BY DEF Min
<1> QED BY <1>1, <1>2

\* strchr finds the first comma there is.
LEMMA strchrIs ==
  ASSUME NEW h \in Seq(Chars), NEW p \in 1 .. Len(h), NEW c \in p .. Len(h), h[c] = Comma,
         \A i \in p .. Len(h) : i < c => h[i] # Comma
  PROVE  strchr(h, p) = c
<1> DEFINE I == {i \in p .. Len(h) : h[i] = Comma}
<1>1. I \in SUBSET Int /\ c \in I /\ \A i \in I : c <= i
  OBVIOUS
<1>2. strchr(h, p) = IF I # {} THEN Min(I) ELSE 0
  BY DEF strchr, SelectInSubSeq
<1> HIDE DEF I
<1> QED BY <1>1, <1>2, MinIs

LEMMA FieldIs ==
  ASSUME NEW h \in Seq(Chars), NEW c \in 1 .. Len(h) - 1, h[c] = Comma,
         \A i \in 1 .. Len(h) : i < c => h[i] # Comma
  PROVE  /\ Field(h, 1) = h[c + 1]
         /\ \A e \in c + 1 .. Len(h) - 1 :
              h[e] = Comma /\ (\A i \in c + 1 .. Len(h) : i < e => h[i] # Comma)
                => Field(h, 2) = h[e + 1]
<1>1. c \in 1 .. Len(h) /\ 1 \in 1 .. Len(h) /\ c \in Nat /\ c # 0
  OBVIOUS
<1>2. strchr(h, 1) = c
  BY <1>1, strchrIs
<1>3. Field(h, 1) = h[c + 1]
  BY <1>1, <1>2 DEF Field
<1>4. ASSUME NEW e \in c + 1 .. Len(h) - 1, h[e] = Comma,
             \A i \in c + 1 .. Len(h) : i < e => h[i] # Comma
      PROVE  Field(h, 2) = h[e + 1]
  <2>1. c + 1 \in 1 .. Len(h) /\ e \in c + 1 .. Len(h) /\ e \in 1 .. Len(h) - 1
    OBVIOUS
  <2>2. strchr(h, c + 1) = e
    BY <1>4, <2>1, strchrIs
  <2> QED BY <1>1, <1>2, <2>1, <2>2 DEF Field
<1> QED BY <1>3, <1>4

\* The latitude that is found is that of sentence k, or none is.
Safe(h, k) == Parsed(h) \in {latitude, Latitudes[k]}

\* Neither kind of sentence.
LEMMA NotMentioned ==
  ASSUME NEW h, NEW k, ~Mentions(h, Letter.G), ~Mentions(h, Letter.R)
  PROVE  Safe(h, k)
  BY DEF Safe, Parsed

\* The latitude stands behind the first comma.
LEMMA ReadsDigit ==
  ASSUME NEW h, NEW k \in DOMAIN Latitudes, Field(h, 1) = Digit(Latitudes[k])
  PROVE  Safe(h, k)
<1>1. Digit(Latitudes[k]) \notin {Letter.A, Letter.V}
  BY DigitIs DEF Letter
<1> QED BY <1>1, DigitIs DEF Safe, Parsed

\* The line is not that of a GGA sentence, and what stands behind the first comma is
\* no status, or the latitude is behind the second.
LEMMA ReadsStatus ==
  ASSUME NEW h, NEW k \in DOMAIN Latitudes, ~Mentions(h, Letter.G),
         Field(h, 1) \notin {Letter.A, Letter.V} \/ Field(h, 2) = Digit(Latitudes[k])
  PROVE  Safe(h, k)
  BY DigitIs DEF Safe, Parsed

\* The sum is not that of the characters received.
LEMMA BadSum ==
  ASSUME NEW h, NEW k, h[Len(h) - 3] = Star,
         16 * parseHex(h[Len(h) - 2]) + parseHex(h[Len(h) - 1])
           # XorAll(SubSeq(h, 3, Len(h) - 4))
  PROVE  Safe(h, k)
  BY DEF Safe, Parsed, ChecksumOK

\* The bits that tell the characters of a sentence apart.
LEMMA Bits ==
  /\ Bit(Comma, 8) = 1 /\ Bit(Comma, 16) = 0 /\ Bit(Comma, 64) = 0
  /\ Bit(Letter.R, 64) = 1
  /\ \A d \in 49 .. 57 : Bit(d, 16) = 1 /\ Bit(d, 64) = 0
  /\ \A c \in Chars : /\ Bit(c, 8) \in {0, 1} /\ Bit(c, 16) \in {0, 1} /\ Bit(c, 64) \in {0, 1}
<1>1. /\ Bit(Comma, 8) = 1 /\ Bit(Comma, 16) = 0 /\ Bit(Comma, 64) = 0
      /\ Bit(Letter.R, 64) = 1
  BY DEF Bit, Comma, Letter
<1>2. \A d \in 49 .. 57 : Bit(d, 16) = 1 /\ Bit(d, 64) = 0
  BY DEF Bit
<1> QED BY <1>1, <1>2, BitType

\* A sentence without its digit or its last comma has another sum.
LEMMA OtherSum ==
  ASSUME NEW d \in 49 .. 57, NEW l \in Chars, NEW a \in Chars
  PROVE  /\ XorAll(<<l, Comma, d>>) # XorAll(<<l, Comma>>)
         /\ XorAll(<<l, Comma, d>>) # XorAll(<<l, d>>)
         /\ XorAll(<<l, Comma, a, Comma, d>>) # XorAll(<<l, Comma, a, Comma>>)
         /\ XorAll(<<l, Comma, a, Comma, d>>) # XorAll(<<l, Comma, a, d>>)
         /\ XorAll(<<Letter.R, Comma, a, Comma, d>>) # XorAll(<<Comma, a, Comma>>)
         /\ XorAll(<<Letter.R, Comma, a, Comma, d>>) # XorAll(<<Comma, a, d>>)
<1>1. d \in Chars /\ Comma \in Chars /\ Letter.R \in Chars
  BY DEF Chars, Comma, Letter
<1>2. /\ <<l, Comma, d>> \in Seq(Chars) /\ <<l, Comma>> \in Seq(Chars) /\ <<l, d>> \in Seq(Chars)
      /\ <<l, Comma, a, Comma, d>> \in Seq(Chars) /\ <<l, Comma, a, Comma>> \in Seq(Chars)
      /\ <<l, Comma, a, d>> \in Seq(Chars)
      /\ <<Letter.R, Comma, a, Comma, d>> \in Seq(Chars) /\ <<Comma, a, Comma>> \in Seq(Chars)
      /\ <<Comma, a, d>> \in Seq(Chars)
  BY <1>1
<1>3. \A x, y, z, u, v \in {0, 1} :
        /\ (x + y) % 2 # (x + y + 1) % 2
        /\ (x + 1) % 2 # (x + 1 + 1) % 2
  OBVIOUS
<1> DEFINE p == Bit(l, 16)  q == Bit(l, 8)  r == Bit(d, 8)  s == Bit(a, 16)  t == Bit(a, 8)
           w == Bit(a, 64)
<1>4. /\ p \in {0, 1} /\ q \in {0, 1} /\ r \in {0, 1} /\ s \in {0, 1} /\ t \in {0, 1}
      /\ w \in {0, 1}
  BY <1>1, Bits
<1>5. /\ Odd(<<l, Comma, d>>, 16) = (p + 0 + 1) % 2
      /\ Odd(<<l, Comma>>, 16) = (p + 0) % 2
  <2>1. Odd(<<l, Comma, d>>, 16)
          = (Bit(l, 16) + Bit(Comma, 16) + Bit(d, 16)) % 2
    BY <1>1, OddThree
  <2>2. Odd(<<l, Comma>>, 16)
          = (Bit(l, 16) + Bit(Comma, 16)) % 2
    BY <1>1, OddTwo
  <2> QED BY <2>1, <2>2, Bits
<1>6. /\ Odd(<<l, Comma, d>>, 8) = (q + 1 + r) % 2
      /\ Odd(<<l, d>>, 8) = (q + r) % 2
  <2>1. Odd(<<l, Comma, d>>, 8)
          = (Bit(l, 8) + Bit(Comma, 8) + Bit(d, 8)) % 2
    BY <1>1, OddThree
  <2>2. Odd(<<l, d>>, 8)
          = (Bit(l, 8) + Bit(d, 8)) % 2
    BY <1>1, OddTwo
  <2> QED BY <2>1, <2>2, Bits
<1>7. /\ Odd(<<l, Comma, a, Comma, d>>, 16) = (p + 0 + s + 0 + 1) % 2
      /\ Odd(<<l, Comma, a, Comma>>, 16) = (p + 0 + s + 0) % 2
  <2>1. Odd(<<l, Comma, a, Comma, d>>, 16)
          = (Bit(l, 16) + Bit(Comma, 16) + Bit(a, 16) + Bit(Comma, 16) + Bit(d, 16)) % 2
    BY <1>1, OddFive
  <2>2. Odd(<<l, Comma, a, Comma>>, 16)
          = (Bit(l, 16) + Bit(Comma, 16) + Bit(a, 16) + Bit(Comma, 16)) % 2
    BY <1>1, OddFour
  <2> QED BY <2>1, <2>2, Bits
<1>8. /\ Odd(<<l, Comma, a, Comma, d>>, 8) = (q + 1 + t + 1 + r) % 2
      /\ Odd(<<l, Comma, a, d>>, 8) = (q + 1 + t + r) % 2
  <2>1. Odd(<<l, Comma, a, Comma, d>>, 8)
          = (Bit(l, 8) + Bit(Comma, 8) + Bit(a, 8) + Bit(Comma, 8) + Bit(d, 8)) % 2
    BY <1>1, OddFive
  <2>2. Odd(<<l, Comma, a, d>>, 8)
          = (Bit(l, 8) + Bit(Comma, 8) + Bit(a, 8) + Bit(d, 8)) % 2
    BY <1>1, OddFour
  <2> QED BY <2>1, <2>2, Bits
<1>9. /\ Odd(<<Letter.R, Comma, a, Comma, d>>, 64) = (1 + 0 + w + 0 + 0) % 2
      /\ Odd(<<Comma, a, Comma>>, 64) = (0 + w + 0) % 2
      /\ Odd(<<Comma, a, d>>, 64) = (0 + w + 0) % 2
  <2>1. Odd(<<Letter.R, Comma, a, Comma, d>>, 64)
          = (Bit(Letter.R, 64) + Bit(Comma, 64) + Bit(a, 64) + Bit(Comma, 64) + Bit(d, 64)) % 2
    <3>1. PICK c \in Chars : c = Letter.R
      BY <1>1
    <3>2. Odd(<<c, Comma, a, Comma, d>>, 64)
            = (Bit(c, 64) + Bit(Comma, 64) + Bit(a, 64) + Bit(Comma, 64) + Bit(d, 64)) % 2
      BY <1>1, OddFive
    <3> QED BY <3>1, <3>2
  <2>2. Odd(<<Comma, a, Comma>>, 64)
          = (Bit(Comma, 64) + Bit(a, 64) + Bit(Comma, 64)) % 2
    BY <1>1, OddThree
  <2>3. Odd(<<Comma, a, d>>, 64)
          = (Bit(Comma, 64) + Bit(a, 64) + Bit(d, 64)) % 2
    BY <1>1, OddThree
  <2> QED BY <2>1, <2>2, <2>3, Bits
<1> HIDE DEF p, q, r, s, t, w
<1>10. /\ Odd(<<l, Comma, d>>, 16) # Odd(<<l, Comma>>, 16)
       /\ Odd(<<l, Comma, d>>, 8) # Odd(<<l, d>>, 8)
  BY <1>4, <1>5, <1>6
<1>11. /\ Odd(<<l, Comma, a, Comma, d>>, 16) # Odd(<<l, Comma, a, Comma>>, 16)
       /\ Odd(<<l, Comma, a, Comma, d>>, 8) # Odd(<<l, Comma, a, d>>, 8)
  BY <1>4, <1>7, <1>8
<1>12. /\ Odd(<<Letter.R, Comma, a, Comma, d>>, 64) # Odd(<<Comma, a, Comma>>, 64)
       /\ Odd(<<Letter.R, Comma, a, Comma, d>>, 64) # Odd(<<Comma, a, d>>, 64)
  BY <1>4, <1>9
<1>13. ASSUME NEW f \in Seq(Chars), NEW g \in Seq(Chars),
              \/ Odd(f, 8) # Odd(g, 8) \/ Odd(f, 16) # Odd(g, 16) \/ Odd(f, 64) # Odd(g, 64)
       PROVE  XorAll(f) # XorAll(g)
  BY <1>13, SumBits
<1> QED BY <1>2, <1>10, <1>11, <1>12, <1>13

-----------------------------------------------------------------------------
(* A line with a character missing                                         *)

\* h is the first q characters of t without the one in place j; with all when j is 0.
Without(h, t, q, j) ==
  IF j = 0 THEN Len(h) = q /\ \A i \in 1 .. q : h[i] = t[i]
  ELSE Len(h) = q - 1 /\ \A i \in 1 .. q - 1 : h[i] = IF i < j THEN t[i] ELSE t[i + 1]

\* Before the missing character nothing has moved, from there on everything is one earlier.
LEMMA WithoutOne ==
  ASSUME NEW h, NEW t, NEW q \in Nat, NEW j \in 1 .. q, Without(h, t, q, j)
  PROVE  /\ Len(h) = q - 1
         /\ \A i \in 1 .. q - 1 : i < j => h[i] = t[i]
         /\ \A i \in 1 .. q - 1 : j <= i => h[i] = t[i + 1]
<1>1. Len(h) = q - 1 /\ \A i \in 1 .. q - 1 : h[i] = IF i < j THEN t[i] ELSE t[i + 1]
  BY DEF Without
<1>2. \A i \in 1 .. q - 1 : j <= i => ~(i < j)
  OBVIOUS
<1> QED BY <1>1, <1>2

\* Two to five characters in a row.
LEMMA Rows ==
  ASSUME NEW h \in Seq(Chars), NEW n \in 4 .. 7, n <= Len(h)
  PROVE  /\ n = 4 => SubSeq(h, 3, n) = <<h[3], h[4]>>
         /\ n = 5 => SubSeq(h, 3, n) = <<h[3], h[4], h[5]>>
         /\ n = 6 => SubSeq(h, 3, n) = <<h[3], h[4], h[5], h[6]>>
         /\ n = 7 => SubSeq(h, 3, n) = <<h[3], h[4], h[5], h[6], h[7]>>
<1>6. PICK u \in Chars, v \in Chars : u = h[3] /\ v = h[4]
  OBVIOUS
<1>7. PICK w \in Chars : n >= 5 => w = h[5]
  <2>1. 0 \in Chars
    BY DEF Chars
  <2>2. n >= 5 => h[5] \in Chars
    <3>1. n >= 5 => 5 \in 1 .. Len(h)
      OBVIOUS
    <3> QED BY <3>1
  <2> QED BY <2>1, <2>2
<1>8. PICK x \in Chars : n >= 6 => x = h[6]
  <2>1. 0 \in Chars
    BY DEF Chars
  <2>2. n >= 6 => h[6] \in Chars
    <3>1. n >= 6 => 6 \in 1 .. Len(h)
      OBVIOUS
    <3> QED BY <3>1
  <2> QED BY <2>1, <2>2
<1>9. PICK y \in Chars : n >= 7 => y = h[7]
  <2>1. 0 \in Chars
    BY DEF Chars
  <2>2. n >= 7 => h[7] \in Chars
    <3>1. n >= 7 => 7 \in 1 .. Len(h)
      OBVIOUS
    <3> QED BY <3>1
  <2> QED BY <2>1, <2>2
<1>0. 3 \in 1 .. Len(h) /\ n \in Int /\ 3 \in Int /\ \A i \in 3 .. n : h[i] \in Chars
  OBVIOUS
<1>1. PICK s \in Seq(Chars) : /\ s = SubSeq(h, 3, n) /\ Len(s) = n - 2
                              /\ \A i \in 1 .. n - 2 : s[i] = h[3 + i - 1]
  <2>1. /\ SubSeq(h, 3, n) \in Seq(Chars)
        /\ Len(SubSeq(h, 3, n)) = IF 3 <= n THEN n - 3 + 1 ELSE 0
        /\ \A i \in 1 .. n - 3 + 1 : SubSeq(h, 3, n)[i] = h[3 + i - 1]
    BY <1>0, SubSeqProperties
  <2>2. n - 3 + 1 = n - 2 /\ 3 <= n
    OBVIOUS
  <2> QED BY <2>1, <2>2, Zenon
<1>2. CASE n = 4
  <2>0. <<u, v>> \in Seq(Chars)
    OBVIOUS
  <2>1. PICK t \in Seq(Chars) : t = <<u, v>>
    BY <2>0, Zenon
  <2>2. Len(t) = 2 /\ t[1] = u /\ t[2] = v
    BY <2>1
  <2>6. u = h[3] /\ v = h[4]
    BY <1>2, <1>6, <1>7, <1>8, <1>9
  <2>3. Len(s) = 2 /\ s[1] = u /\ s[2] = v
    BY <1>1, <1>2, <2>6
  <2>4. s = t
    <3>1. Len(s) = Len(t) /\ \A i \in 1 .. Len(s) : s[i] = t[i]
      BY <2>2, <2>3
    <3> QED BY <3>1, SeqEqual, Zenon
  <2>5. n # 5 /\ n # 6 /\ n # 7
    BY <1>2
  <2> QED BY <1>1, <1>2, <2>1, <2>4, <2>5, <2>6, Zenon
<1>3. CASE n = 5
  <2>0. <<u, v, w>> \in Seq(Chars)
    OBVIOUS
  <2>1. PICK t \in Seq(Chars) : t = <<u, v, w>>
    BY <2>0, Zenon
  <2>2. Len(t) = 3 /\ t[1] = u /\ t[2] = v /\ t[3] = w
    BY <2>1
  <2>6. u = h[3] /\ v = h[4] /\ w = h[5]
    BY <1>3, <1>6, <1>7, <1>8, <1>9
  <2>3. Len(s) = 3 /\ s[1] = u /\ s[2] = v /\ s[3] = w
    BY <1>1, <1>3, <2>6
  <2>4. s = t
    <3>1. Len(s) = Len(t) /\ \A i \in 1 .. Len(s) : s[i] = t[i]
      BY <2>2, <2>3
    <3> QED BY <3>1, SeqEqual, Zenon
  <2>5. n # 4 /\ n # 6 /\ n # 7
    BY <1>3
  <2> QED BY <1>1, <1>3, <2>1, <2>4, <2>5, <2>6, Zenon
<1>4. CASE n = 6
  <2>0. <<u, v, w, x>> \in Seq(Chars)
    OBVIOUS
  <2>1. PICK t \in Seq(Chars) : t = <<u, v, w, x>>
    BY <2>0, Zenon
  <2>2. Len(t) = 4 /\ t[1] = u /\ t[2] = v /\ t[3] = w /\ t[4] = x
    BY <2>1
  <2>6. u = h[3] /\ v = h[4] /\ w = h[5] /\ x = h[6]
    BY <1>4, <1>6, <1>7, <1>8, <1>9
  <2>3. Len(s) = 4 /\ s[1] = u /\ s[2] = v /\ s[3] = w /\ s[4] = x
    BY <1>1, <1>4, <2>6
  <2>4. s = t
    <3>1. Len(s) = Len(t) /\ \A i \in 1 .. Len(s) : s[i] = t[i]
      BY <2>2, <2>3
    <3> QED BY <3>1, SeqEqual, Zenon
  <2>5. n # 4 /\ n # 5 /\ n # 7
    BY <1>4
  <2> QED BY <1>1, <1>4, <2>1, <2>4, <2>5, <2>6, Zenon
<1>5. CASE n = 7
  <2>0. <<u, v, w, x, y>> \in Seq(Chars)
    OBVIOUS
  <2>1. PICK t \in Seq(Chars) : t = <<u, v, w, x, y>>
    BY <2>0, Zenon
  <2>2. Len(t) = 5 /\ t[1] = u /\ t[2] = v /\ t[3] = w /\ t[4] = x /\ t[5] = y
    BY <2>1
  <2>6. u = h[3] /\ v = h[4] /\ w = h[5] /\ x = h[6] /\ y = h[7]
    BY <1>5, <1>6, <1>7, <1>8, <1>9
  <2>3. Len(s) = 5 /\ s[1] = u /\ s[2] = v /\ s[3] = w /\ s[4] = x /\ s[5] = y
    BY <1>1, <1>5, <2>6
  <2>4. s = t
    <3>1. Len(s) = Len(t) /\ \A i \in 1 .. Len(s) : s[i] = t[i]
      BY <2>2, <2>3
    <3> QED BY <3>1, SeqEqual, Zenon
  <2>5. n # 4 /\ n # 5 /\ n # 6
    BY <1>5
  <2> QED BY <1>1, <1>5, <2>1, <2>4, <2>5, <2>6, Zenon
<1> QED BY <1>2, <1>3, <1>4, <1>5, Zenon

\* A line of a GGA sentence.
LEMMA SafeG ==
  ASSUME NEW k \in DOMAIN Latitudes, NEW t, NEW h \in Seq(Chars),
         NEW j \in {0, 2, 3, 4, 5, 6, 7, 8, 9},
         t[1] = LF, ShapeG(t, 1, k), Without(h, t, 9, j)
  PROVE  Safe(h, k)
<1> DEFINE d == Digit(Latitudes[k])
           G == Letter.G
<1>1. /\ t[1] = LF /\ t[2] = Dollar /\ t[3] = G /\ t[4] = Comma /\ t[5] = d /\ t[6] = Star
      /\ t[7] \in Hex /\ t[8] \in Hex /\ t[9] = CR
      /\ 16 * parseHex(t[7]) + parseHex(t[8]) = XorAll(<<G, Comma, d>>)
  BY DEF ShapeG
<1>2. d \in 49 .. 57 /\ G \in Chars
  BY DigitIs DEF Letter, Chars
<1> HIDE DEF d
<1>3. CASE j \in {0, 6, 7, 8, 9}
  <2>1. /\ Len(h) \in {8, 9}
        /\ h[1] = LF /\ h[2] = Dollar /\ h[3] = G /\ h[4] = Comma /\ h[5] = d
    <3>1. Len(h) \in {8, 9}
      BY <1>3 DEF Without
    <3>2. \A i \in 1 .. 5 : h[i] = t[i]
      <4>1. CASE j = 0
        BY <4>1 DEF Without
      <4>2. CASE j \in {6, 7, 8, 9}
        <5>1. /\ \A i \in 1 .. 8 : h[i] = IF i < j THEN t[i] ELSE t[i + 1]
              /\ \A i \in 1 .. 5 : i \in 1 .. 8 /\ i < j
          BY <4>2 DEF Without
        <5> QED BY <5>1
      <4> QED BY <1>3, <4>1, <4>2
    <3>3. 1 \in 1 .. 5 /\ 2 \in 1 .. 5 /\ 3 \in 1 .. 5 /\ 4 \in 1 .. 5 /\ 5 \in 1 .. 5
      OBVIOUS
    <3> QED BY <1>1, <3>1, <3>2, <3>3, Zenon
  <2>2. \A i \in 1 .. Len(h) : i < 4 => h[i] # Comma
    BY <2>1 DEF LF, Dollar, Comma, Letter
  <2>3. Field(h, 1) = h[4 + 1]
    <3>1. 4 \in 1 .. Len(h) - 1
      BY <2>1
    <3> QED BY <2>1, <2>2, <3>1, FieldIs
  <2> QED BY <2>1, <2>3, ReadsDigit DEF d
<1>4. CASE j \in {2, 3}
  <2>1. /\ Len(h) = 8 /\ h[1] = LF /\ h[2] \in {G, Dollar} /\ h[3] = Comma /\ h[4] = d
        /\ h[5] = Star /\ h[6] \in Hex /\ h[7] \in Hex /\ h[8] = CR
    <3>1. Len(h) = 8 /\ h[1] = t[1] /\ h[2] \in {t[2], t[3]}
      BY <1>4 DEF Without
    <3>4. \A i \in 1 .. 8 : j <= i => h[i] = t[i + 1]
      <4>1. j \in 1 .. 9 /\ 9 \in Nat /\ 9 - 1 = 8
        BY <1>4
      <4> QED BY <4>1, WithoutOne
    <3>5. \A i \in 3 .. 8 : i \in 1 .. 8 /\ j <= i
      BY <1>4
    <3>2. \A i \in 3 .. 8 : h[i] = t[i + 1]
      BY <3>4, <3>5
    <3>3. /\ h[3] = t[4] /\ h[4] = t[5] /\ h[5] = t[6] /\ h[6] = t[7] /\ h[7] = t[8]
          /\ h[8] = t[9]
      BY <3>2
    <3> QED BY <1>1, <3>1, <3>3, Zenon
  <2>2. \A i \in 1 .. 8 : h[i] = Dollar => i = 2
    <3>1. \A x \in Hex : x # Dollar
      BY DEF Hex, Dollar
    <3>2. LF # Dollar /\ Comma # Dollar /\ Star # Dollar /\ CR # Dollar /\ d # Dollar
      BY <1>2 DEF LF, Dollar, Comma, Star, CR
    <3>3. \A i \in 1 .. 8 : i \in {1, 2, 3, 4, 5, 6, 7, 8}
      OBVIOUS
    <3>4. /\ h[1] # Dollar /\ h[3] # Dollar /\ h[4] # Dollar /\ h[5] # Dollar
          /\ h[6] # Dollar /\ h[7] # Dollar /\ h[8] # Dollar
      BY <2>1, <3>1, <3>2, Zenon
    <3> QED BY <3>3, <3>4
  <2>3. h[3] \notin {Letter.G, Letter.R}
    BY <2>1 DEF Comma, Letter
  <2>4. ~Mentions(h, Letter.G) /\ ~Mentions(h, Letter.R)
    BY <2>1, <2>2, <2>3 DEF Mentions
  <2> QED BY <2>4, NotMentioned
<1>5. CASE j \in {4, 5}
  <2>1. /\ Len(h) = 8 /\ h[3] = G /\ h[4] = (IF j = 4 THEN d ELSE Comma)
        /\ h[5] = Star /\ h[6] = t[7] /\ h[7] = t[8]
    <3>1. Len(h) = 8 /\ h[3] = t[3] /\ h[4] = (IF j = 4 THEN t[5] ELSE t[4])
      BY <1>5 DEF Without
    <3>4. \A i \in 1 .. 8 : j <= i => h[i] = t[i + 1]
      <4>1. j \in 1 .. 9 /\ 9 \in Nat /\ 9 - 1 = 8
        BY <1>5
      <4> QED BY <4>1, WithoutOne
    <3>5. \A i \in 5 .. 7 : i \in 1 .. 8 /\ j <= i
      BY <1>5
    <3>2. \A i \in 5 .. 7 : h[i] = t[i + 1]
      BY <3>4, <3>5
    <3>3. h[5] = t[6] /\ h[6] = t[7] /\ h[7] = t[8]
      BY <3>2
    <3> QED BY <1>1, <3>1, <3>3
  <2>2. SubSeq(h, 3, 4) = <<h[3], h[4]>>
    <3>1. 4 \in 4 .. 7 /\ 4 <= Len(h)
      BY <2>1
    <3> QED BY <3>1, Rows
  <2>0. d \in Chars /\ G \in Chars /\ Comma \in Chars /\ h[3] \in {G} /\ h[4] \in {d, Comma}
    BY <1>2, <2>1 DEF Chars, Comma
  <2>5. SubSeq(h, 3, 4) \in {<<G, d>>, <<G, Comma>>}
    BY <2>0, <2>2, Zenon
  <2>3. XorAll(<<G, Comma, d>>) # XorAll(SubSeq(h, 3, 4))
    <3>1. XorAll(<<G, Comma, d>>) # XorAll(<<G, Comma>>)
      BY <1>2, OtherSum
    <3>2. XorAll(<<G, Comma, d>>) # XorAll(<<G, d>>)
      BY <1>2, OtherSum
    <3> QED BY <2>5, <3>1, <3>2, Zenon
  <2>4. /\ Len(h) - 3 = 5 /\ Len(h) - 2 = 6 /\ Len(h) - 1 = 7 /\ Len(h) - 4 = 4
    BY <2>1
  <2> QED BY <1>1, <2>1, <2>3, <2>4, BadSum
<1> QED BY <1>3, <1>4, <1>5

\* A line of an RMC sentence, with the line end before it or without.
LEMMA SafeR ==
  ASSUME NEW k \in DOMAIN Latitudes, NEW t, NEW h \in Seq(Chars), NEW o \in {0, 1},
         NEW j \in {0} \union (o + 1 .. o + 10),
         o = 1 => t[1] = LF, ShapeR(t, o, k), Without(h, t, o + 10, j)
  PROVE  Safe(h, k)
<1> DEFINE d == Digit(Latitudes[k])
           R == Letter.R
           A == Letter.A
<1>1. /\ t[o + 1] = Dollar /\ t[o + 2] = R /\ t[o + 3] = Comma /\ t[o + 4] = A
      /\ t[o + 5] = Comma /\ t[o + 6] = d /\ t[o + 7] = Star
      /\ t[o + 8] \in Hex /\ t[o + 9] \in Hex /\ t[o + 10] = CR
      /\ 16 * parseHex(t[o + 8]) + parseHex(t[o + 9]) = XorAll(<<R, Comma, A, Comma, d>>)
  BY DEF ShapeR
<1>2. d \in 49 .. 57 /\ R \in Chars /\ A \in Chars
  BY DigitIs DEF Letter, Chars
<1> HIDE DEF d
<1>3. Len(h) = IF j = 0 THEN o + 10 ELSE o + 9
  BY DEF Without
<1>4. \A i \in 1 .. Len(h) : h[i] # Letter.G
  <2>1. \A i \in 1 .. o + 10 : t[i] # Letter.G
    <3>1. \A x \in Hex : x # Letter.G
      BY DEF Hex, Letter
    <3>2. /\ LF # Letter.G /\ Dollar # Letter.G /\ Comma # Letter.G /\ Star # Letter.G
          /\ CR # Letter.G /\ d # Letter.G /\ R # Letter.G /\ A # Letter.G
      BY <1>2 DEF LF, Dollar, Comma, Star, CR, Letter
    <3>3. /\ t[o + 1] # Letter.G /\ t[o + 2] # Letter.G /\ t[o + 3] # Letter.G
          /\ t[o + 4] # Letter.G /\ t[o + 5] # Letter.G /\ t[o + 6] # Letter.G
          /\ t[o + 7] # Letter.G /\ t[o + 8] # Letter.G /\ t[o + 9] # Letter.G
          /\ t[o + 10] # Letter.G /\ (o = 1 => t[1] # Letter.G)
      BY <1>1, <3>1, <3>2, Zenon
    <3>4. ASSUME NEW i \in 1 .. o + 10
          PROVE  \/ o = 1 /\ i = 1
                 \/ i \in {o + 1, o + 2, o + 3, o + 4, o + 5, o + 6, o + 7, o + 8, o + 9, o + 10}
      OBVIOUS
    <3> QED BY <3>3, <3>4
  <2> QED BY <1>3, <2>1 DEF Without
<1>5. ~Mentions(h, Letter.G)
  BY <1>3, <1>4 DEF Mentions
<1>6. CASE j = 0 \/ j > o + 6
  <2>1. /\ h[o + 1] = Dollar /\ h[o + 2] = R /\ h[o + 3] = Comma /\ h[o + 4] = A
        /\ h[o + 5] = Comma /\ h[o + 6] = d /\ (o = 1 => h[1] = LF)
    <3>1. \A i \in 1 .. o + 6 : h[i] = t[i]
      BY <1>6 DEF Without
    <3>2. /\ o + 1 \in 1 .. o + 6 /\ o + 2 \in 1 .. o + 6 /\ o + 3 \in 1 .. o + 6
          /\ o + 4 \in 1 .. o + 6 /\ o + 5 \in 1 .. o + 6 /\ o + 6 \in 1 .. o + 6
          /\ 1 \in 1 .. o + 6
      OBVIOUS
    <3> QED BY <1>1, <3>1, <3>2, Zenon
  <2>2. \A i \in 1 .. Len(h) : i < o + 3 => h[i] # Comma
    <3>1. h[o + 1] # Comma /\ h[o + 2] # Comma /\ (o = 1 => h[1] # Comma)
      BY <2>1 DEF LF, Dollar, Comma, Letter
    <3>2. \A i \in 1 .. Len(h) : i < o + 3 => i \in {o + 1, o + 2} \/ (o = 1 /\ i = 1)
      BY <1>3
    <3> QED BY <3>1, <3>2
  <2>3. \A i \in o + 3 + 1 .. Len(h) : i < o + 5 => h[i] # Comma
    <3>1. h[o + 4] # Comma
      BY <2>1 DEF Comma, Letter
    <3>2. \A i \in o + 3 + 1 .. Len(h) : i < o + 5 => i = o + 4
      BY <1>3
    <3> QED BY <3>1, <3>2
  <2>4. o + 3 \in 1 .. Len(h) - 1 /\ o + 5 \in o + 3 + 1 .. Len(h) - 1
    BY <1>3
  <2>5. Field(h, 2) = h[o + 5 + 1]
    BY <2>1, <2>2, <2>3, <2>4, FieldIs
  <2>6. h[o + 5 + 1] = d
    BY <2>1
  <2> QED BY <1>5, <2>5, <2>6, ReadsStatus DEF d
<1>7. CASE j \in {o + 1, o + 2}
  <2>1. /\ h[o + 1] \in {R, Dollar} /\ h[o + 2] = Comma /\ h[o + 3] = A /\ h[o + 4] = Comma
        /\ h[o + 5] = d /\ h[o + 6] = Star /\ h[o + 7] \in Hex /\ h[o + 8] \in Hex
        /\ h[o + 9] = CR /\ (o = 1 => h[1] = LF) /\ Len(h) = o + 9
    <3>1. \A i \in o + 2 .. o + 9 : h[i] = t[i + 1]
      BY <1>7 DEF Without
    <3>2. h[o + 1] \in {t[o + 1], t[o + 1 + 1]} /\ (o = 1 => h[1] = t[1])
      BY <1>7 DEF Without
    <3>3. /\ o + 2 \in o + 2 .. o + 9 /\ o + 3 \in o + 2 .. o + 9 /\ o + 4 \in o + 2 .. o + 9
          /\ o + 5 \in o + 2 .. o + 9 /\ o + 6 \in o + 2 .. o + 9 /\ o + 7 \in o + 2 .. o + 9
          /\ o + 8 \in o + 2 .. o + 9 /\ o + 9 \in o + 2 .. o + 9
      OBVIOUS
    <3>4. /\ o + 1 + 1 = o + 2 /\ o + 2 + 1 = o + 3 /\ o + 3 + 1 = o + 4 /\ o + 4 + 1 = o + 5
          /\ o + 5 + 1 = o + 6 /\ o + 6 + 1 = o + 7 /\ o + 7 + 1 = o + 8 /\ o + 8 + 1 = o + 9
          /\ o + 9 + 1 = o + 10
      OBVIOUS
    <3>5. Len(h) = o + 9
      BY <1>3, <1>7
    <3>6. /\ h[o + 2] = t[o + 3] /\ h[o + 3] = t[o + 4] /\ h[o + 4] = t[o + 5]
          /\ h[o + 5] = t[o + 6] /\ h[o + 6] = t[o + 7] /\ h[o + 7] = t[o + 8]
          /\ h[o + 8] = t[o + 9] /\ h[o + 9] = t[o + 10]
      BY <3>1, <3>3, <3>4, Zenon
    <3> QED BY <1>1, <3>2, <3>4, <3>5, <3>6, Zenon
  <2>2. \A i \in 1 .. o + 9 : h[i] = Dollar => i = o + 1
    <3>1. \A x \in Hex : x # Dollar
      BY DEF Hex, Dollar
    <3>2. /\ LF # Dollar /\ Comma # Dollar /\ Star # Dollar /\ CR # Dollar /\ d # Dollar
          /\ A # Dollar
      BY <1>2 DEF LF, Dollar, Comma, Star, CR, Letter
    <3>3. /\ h[o + 2] # Dollar /\ h[o + 3] # Dollar /\ h[o + 4] # Dollar /\ h[o + 5] # Dollar
          /\ h[o + 6] # Dollar /\ h[o + 7] # Dollar /\ h[o + 8] # Dollar
          /\ h[o + 9] # Dollar /\ (o = 1 => h[1] # Dollar)
      BY <2>1, <3>1, <3>2, Zenon
    <3>4. ASSUME NEW i \in 1 .. o + 9, i # o + 1
          PROVE  \/ o = 1 /\ i = 1
                 \/ i \in {o + 2, o + 3, o + 4, o + 5, o + 6, o + 7, o + 8, o + 9}
      BY <3>4
    <3> QED BY <3>3, <3>4
  <2>3. h[o + 2] # Letter.R
    BY <2>1 DEF Comma, Letter
  <2>4. ~Mentions(h, Letter.R)
    <3>1. ASSUME NEW i \in 1 .. Len(h) - 1, h[i] = Dollar PROVE h[i + 1] # Letter.R
      <4>1. i \in 1 .. o + 9 /\ o + 1 + 1 = o + 2
        BY <2>1
      <4>2. i = o + 1
        BY <2>2, <3>1, <4>1
      <4> QED BY <2>3, <4>1, <4>2
    <3> QED BY <3>1 DEF Mentions
  <2> QED BY <1>5, <2>4, NotMentioned
<1>8. CASE j \in {o + 3, o + 4}
  <2>1. /\ h[o + 1] = Dollar /\ h[o + 2] = R /\ h[o + 3] = (IF j = o + 3 THEN A ELSE Comma)
        /\ h[o + 4] = Comma /\ h[o + 5] = d /\ (o = 1 => h[1] = LF) /\ Len(h) = o + 9
    <3>1. /\ \A i \in 1 .. o + 9 : i < j => h[i] = t[i]
          /\ \A i \in 1 .. o + 9 : j <= i => h[i] = t[i + 1]
      <4>1. PICK q : q = o + 10
        OBVIOUS
      <4>2. q \in Nat /\ j \in 1 .. q /\ q - 1 = o + 9
        BY <1>8, <4>1
      <4>3. Without(h, t, q, j)
        BY <4>1
      <4>4. /\ \A i \in 1 .. q - 1 : i < j => h[i] = t[i]
            /\ \A i \in 1 .. q - 1 : j <= i => h[i] = t[i + 1]
        BY <4>2, <4>3, WithoutOne
      <4> QED BY <4>2, <4>4, Zenon
    <3>2. Len(h) = o + 9
      BY <1>3, <1>8
    <3>3. /\ o + 1 \in 1 .. o + 9 /\ o + 1 < j /\ o + 2 \in 1 .. o + 9 /\ o + 2 < j
          /\ o + 4 \in 1 .. o + 9 /\ j <= o + 4 /\ o + 5 \in 1 .. o + 9 /\ j <= o + 5
          /\ 1 \in 1 .. o + 9 /\ 1 < j /\ o + 3 \in 1 .. o + 9
          /\ (j = o + 3 => j <= o + 3) /\ (j # o + 3 => o + 3 < j)
          /\ o + 4 + 1 = o + 5 /\ o + 5 + 1 = o + 6 /\ o + 3 + 1 = o + 4
      BY <1>8
    <3>4. /\ h[o + 1] = t[o + 1] /\ h[o + 2] = t[o + 2] /\ h[1] = t[1]
          /\ h[o + 4] = t[o + 5] /\ h[o + 5] = t[o + 6]
      BY <3>1, <3>3, Zenon
    <3>5. h[o + 3] = IF j = o + 3 THEN t[o + 4] ELSE t[o + 3]
      BY <3>1, <3>3, Zenon
    <3> QED BY <1>1, <3>2, <3>4, <3>5, Zenon
  <2>2. CASE j = o + 3
    <3>1. \A i \in 1 .. Len(h) : i < o + 4 => h[i] # Comma
      <4>1. /\ h[o + 1] # Comma /\ h[o + 2] # Comma /\ h[o + 3] # Comma
            /\ (o = 1 => h[1] # Comma)
        BY <2>1, <2>2 DEF LF, Dollar, Comma, Letter
      <4>2. \A i \in 1 .. Len(h) : i < o + 4 =>
              i \in {o + 1, o + 2, o + 3} \/ (o = 1 /\ i = 1)
        BY <2>1
      <4> QED BY <4>1, <4>2
    <3>2. o + 4 \in 1 .. Len(h) - 1
      BY <2>1
    <3>3. Field(h, 1) = h[o + 4 + 1]
      BY <2>1, <3>1, <3>2, FieldIs
    <3>4. h[o + 4 + 1] = d
      BY <2>1
    <3> QED BY <3>3, <3>4, ReadsDigit DEF d
  <2>3. CASE j = o + 4
    <3>1. \A i \in 1 .. Len(h) : i < o + 3 => h[i] # Comma
      <4>1. h[o + 1] # Comma /\ h[o + 2] # Comma /\ (o = 1 => h[1] # Comma)
        BY <2>1 DEF LF, Dollar, Comma, Letter
      <4>2. \A i \in 1 .. Len(h) : i < o + 3 => i \in {o + 1, o + 2} \/ (o = 1 /\ i = 1)
        BY <2>1
      <4> QED BY <4>1, <4>2
    <3>2. o + 3 \in 1 .. Len(h) - 1 /\ h[o + 3] = Comma /\ h[o + 3 + 1] = Comma
      BY <2>1, <2>3
    <3>3. Field(h, 1) = Comma
      BY <3>1, <3>2, FieldIs
    <3>4. Comma \notin {Letter.A, Letter.V}
      BY DEF Comma, Letter
    <3> QED BY <1>5, <3>3, <3>4, ReadsStatus
  <2> QED BY <1>8, <2>2, <2>3
<1>9. CASE j \in {o + 5, o + 6}
  <2>1. /\ h[o + 2] = R /\ h[o + 3] = Comma /\ h[o + 4] = A
        /\ h[o + 5] = (IF j = o + 5 THEN d ELSE Comma)
        /\ h[o + 6] = Star /\ h[o + 7] = t[o + 8] /\ h[o + 8] = t[o + 9] /\ Len(h) = o + 9
    <3>1. \A i \in 1 .. o + 4 : h[i] = t[i]
      BY <1>9 DEF Without
    <3>2. \A i \in o + 6 .. o + 9 : h[i] = t[i + 1]
      BY <1>9 DEF Without
    <3>3. h[o + 5] = IF j = o + 5 THEN t[o + 5 + 1] ELSE t[o + 5]
      BY <1>9 DEF Without
    <3>4. /\ o + 2 \in 1 .. o + 4 /\ o + 3 \in 1 .. o + 4 /\ o + 4 \in 1 .. o + 4
          /\ o + 6 \in o + 6 .. o + 9 /\ o + 7 \in o + 6 .. o + 9 /\ o + 8 \in o + 6 .. o + 9
          /\ o + 5 + 1 = o + 6 /\ o + 6 + 1 = o + 7 /\ o + 7 + 1 = o + 8 /\ o + 8 + 1 = o + 9
      OBVIOUS
    <3>5. Len(h) = o + 9
      BY <1>3, <1>9
    <3>6. /\ h[o + 2] = t[o + 2] /\ h[o + 3] = t[o + 3] /\ h[o + 4] = t[o + 4]
          /\ h[o + 6] = t[o + 7] /\ h[o + 7] = t[o + 8] /\ h[o + 8] = t[o + 9]
      BY <3>1, <3>2, <3>4, Zenon
    <3> QED BY <1>1, <3>3, <3>4, <3>5, <3>6, Zenon
  <2>2. XorAll(<<R, Comma, A, Comma, d>>) # XorAll(SubSeq(h, 3, o + 5))
    <3>0. d \in Chars /\ R \in Chars /\ A \in Chars /\ Comma \in Chars
      BY <1>2 DEF Chars, Comma
    <3>1. CASE o = 0
      <4>1. /\ h[3] = Comma /\ h[4] = A /\ h[5] \in {d, Comma} /\ o + 5 = 5
            /\ 5 \in 4 .. 7 /\ 5 <= Len(h)
        BY <2>1, <3>1
      <4>2. SubSeq(h, 3, 5) = <<h[3], h[4], h[5]>>
        BY <4>1, Rows
      <4>3. /\ XorAll(<<R, Comma, A, Comma, d>>) # XorAll(<<Comma, A, Comma>>)
            /\ XorAll(<<R, Comma, A, Comma, d>>) # XorAll(<<Comma, A, d>>)
        BY <1>2, OtherSum
      <4> QED BY <3>0, <4>1, <4>2, <4>3, Zenon
    <3>2. CASE o = 1
      <4>1. /\ h[3] = R /\ h[4] = Comma /\ h[5] = A /\ h[6] \in {d, Comma} /\ o + 5 = 6
            /\ 6 \in 4 .. 7 /\ 6 <= Len(h)
        BY <2>1, <3>2
      <4>2. SubSeq(h, 3, 6) = <<h[3], h[4], h[5], h[6]>>
        BY <4>1, Rows
      <4>3. /\ XorAll(<<R, Comma, A, Comma, d>>) # XorAll(<<R, Comma, A, Comma>>)
            /\ XorAll(<<R, Comma, A, Comma, d>>) # XorAll(<<R, Comma, A, d>>)
        BY <1>2, OtherSum
      <4> QED BY <3>0, <4>1, <4>2, <4>3, Zenon
    <3> QED BY <3>1, <3>2
  <2>3. /\ Len(h) - 3 = o + 6 /\ Len(h) - 2 = o + 7 /\ Len(h) - 1 = o + 8 /\ Len(h) - 4 = o + 5
    BY <2>1
  <2> QED BY <1>1, <2>1, <2>2, <2>3, BadSum
<1> QED BY <1>6, <1>7, <1>8, <1>9

\* Without a $ a line is that of no sentence.
LEMMA SafeNoDollar ==
  ASSUME NEW h \in Seq(Chars), NEW k, \A i \in 1 .. Len(h) : h[i] # Dollar
  PROVE  Safe(h, k)
<1>1. ~Mentions(h, Letter.G) /\ ~Mentions(h, Letter.R)
  BY DEF Mentions
<1> QED BY <1>1, NotMentioned

\* A whole line of a GGA sentence gives its latitude.
LEMMA WholeG ==
  ASSUME NEW k \in DOMAIN Latitudes, NEW h \in Seq(Chars),
         Len(h) = 9, h[1] = LF, ShapeG(h, 1, k)
  PROVE  Parsed(h) = Latitudes[k]
<1> DEFINE d == Digit(Latitudes[k])
           G == Letter.G
<1>1. /\ h[2] = Dollar /\ h[3] = G /\ h[4] = Comma /\ h[5] = d /\ h[6] = Star
      /\ 16 * parseHex(h[7]) + parseHex(h[8]) = XorAll(<<G, Comma, d>>)
  BY DEF ShapeG
<1>2. d \in 49 .. 57 /\ G \in Chars /\ d \in Chars /\ Comma \in Chars
  BY DigitIs DEF Letter, Chars, Comma
<1>3. LatitudeFrom(d) = Latitudes[k]
  BY DigitIs
<1> HIDE DEF d
<1>4. ChecksumOK(h)
  <2>1. 5 \in 4 .. 7 /\ 5 <= Len(h)
    OBVIOUS
  <2>4. SubSeq(h, 3, 5) = <<h[3], h[4], h[5]>>
    BY <2>1, Rows
  <2>2. SubSeq(h, 3, 5) = <<G, Comma, d>>
    BY <1>1, <2>4, Zenon
  <2>3. Len(h) - 3 = 6 /\ Len(h) - 2 = 7 /\ Len(h) - 1 = 8 /\ Len(h) - 4 = 5
    OBVIOUS
  <2> QED BY <1>1, <2>2, <2>3 DEF ChecksumOK
<1>5. Mentions(h, Letter.G)
  <2>1. 2 \in 1 .. Len(h) - 1 /\ 2 + 1 = 3
    OBVIOUS
  <2> QED BY <1>1, <2>1 DEF Mentions
<1>6. Field(h, 1) = d
  <2>1. \A i \in 1 .. Len(h) : i < 4 => h[i] # Comma
    BY <1>1 DEF LF, Dollar, Comma, Letter
  <2>2. 4 \in 1 .. Len(h) - 1
    OBVIOUS
  <2>3. Field(h, 1) = h[4 + 1]
    BY <1>1, <2>1, <2>2, FieldIs
  <2> QED BY <1>1, <2>3
<1>7. ~(Len(h) < 4)
  OBVIOUS
<1> QED BY <1>3, <1>4, <1>5, <1>6, <1>7, Zenon DEF Parsed

\* A whole line of an RMC sentence gives its latitude.
LEMMA WholeR ==
  ASSUME NEW k \in DOMAIN Latitudes, NEW h \in Seq(Chars),
         Len(h) = 11, h[1] = LF, ShapeR(h, 1, k)
  PROVE  Parsed(h) = Latitudes[k]
<1> DEFINE d == Digit(Latitudes[k])
           R == Letter.R
           A == Letter.A
<1>1. /\ h[2] = Dollar /\ h[3] = R /\ h[4] = Comma /\ h[5] = A /\ h[6] = Comma /\ h[7] = d
      /\ h[8] = Star /\ h[9] \in Hex /\ h[10] \in Hex /\ h[11] = CR
      /\ 16 * parseHex(h[9]) + parseHex(h[10]) = XorAll(<<R, Comma, A, Comma, d>>)
  BY DEF ShapeR
<1>2. /\ d \in 49 .. 57 /\ R \in Chars /\ A \in Chars /\ d \in Chars /\ Comma \in Chars
  BY DigitIs DEF Letter, Chars, Comma
<1>3. LatitudeFrom(d) = Latitudes[k]
  BY DigitIs
<1> HIDE DEF d
<1>4. ChecksumOK(h)
  <2>1. 7 \in 4 .. 7 /\ 7 <= Len(h)
    OBVIOUS
  <2>4. SubSeq(h, 3, 7) = <<h[3], h[4], h[5], h[6], h[7]>>
    BY <2>1, Rows
  <2>2. SubSeq(h, 3, 7) = <<R, Comma, A, Comma, d>>
    BY <1>1, <2>4, Zenon
  <2>3. Len(h) - 3 = 8 /\ Len(h) - 2 = 9 /\ Len(h) - 1 = 10 /\ Len(h) - 4 = 7
    OBVIOUS
  <2> QED BY <1>1, <2>2, <2>3 DEF ChecksumOK
<1>5. Mentions(h, Letter.R)
  <2>1. 2 \in 1 .. Len(h) - 1 /\ 2 + 1 = 3
    OBVIOUS
  <2> QED BY <1>1, <2>1 DEF Mentions
<1>6. ~Mentions(h, Letter.G)
  <2>1. \A x \in Hex : x # Letter.G
    BY DEF Hex, Letter
  <2>2. /\ Dollar # Letter.G /\ Comma # Letter.G /\ Star # Letter.G
        /\ CR # Letter.G /\ d # Letter.G /\ R # Letter.G /\ A # Letter.G
    BY <1>2 DEF Dollar, Comma, Star, CR, Letter
  <2>3. /\ h[2] # Letter.G /\ h[3] # Letter.G /\ h[4] # Letter.G /\ h[5] # Letter.G
        /\ h[6] # Letter.G /\ h[7] # Letter.G /\ h[8] # Letter.G /\ h[9] # Letter.G
        /\ h[10] # Letter.G /\ h[11] # Letter.G
    BY <1>1, <2>1, <2>2, Zenon
  <2>4. ASSUME NEW i \in 1 .. Len(h) - 1
        PROVE  i + 1 \in {2, 3, 4, 5, 6, 7, 8, 9, 10, 11}
    OBVIOUS
  <2>5. \A i \in 1 .. Len(h) - 1 : h[i + 1] # Letter.G
    BY <2>3, <2>4
  <2> QED BY <2>5 DEF Mentions
<1>7. Field(h, 1) = A /\ Field(h, 2) = d
  <2>1. \A i \in 1 .. Len(h) : i < 4 => h[i] # Comma
    BY <1>1 DEF LF, Dollar, Comma, Letter
  <2>2. \A i \in 4 + 1 .. Len(h) : i < 6 => h[i] # Comma
    BY <1>1 DEF Comma, Letter
  <2>3. 4 \in 1 .. Len(h) - 1 /\ 6 \in 4 + 1 .. Len(h) - 1
    OBVIOUS
  <2>4. Field(h, 1) = h[4 + 1] /\ Field(h, 2) = h[6 + 1]
    BY <1>1, <2>1, <2>2, <2>3, FieldIs
  <2> QED BY <1>1, <2>4
<1>8. ~(Len(h) < 4)
  OBVIOUS
<1>9. Field(h, 1) \in {Letter.A, Letter.V}
  BY <1>7
<1> QED BY <1>3, <1>4, <1>5, <1>6, <1>7, <1>8, <1>9, Zenon DEF Parsed

-----------------------------------------------------------------------------
(* Places in what the module sends                                         *)

\* A place: a sentence, and how many characters of it are left, the one in this place
\* among them.
Places == {p \in [of : DOMAIN Latitudes, left : Nat \ {0}] : p.left <= Len(Sentences[p.of])}

CharAt(p) == Sentences[p.of][Len(Sentences[p.of]) - p.left + 1]

NextPlace(p) ==
  IF p.left > 1 THEN [of |-> p.of, left |-> p.left - 1]
  ELSE [of |-> Following(p.of), left |-> Len(Sentences[Following(p.of)])]

\* The sentences are short, of characters that can be sent, and end at their LF.
LEMMA SentenceFacts ==
  ASSUME NEW k \in DOMAIN Latitudes
  PROVE  /\ Sentences[k] \in Seq(Sendable) /\ Len(Sentences[k]) \in {9, 11}
         /\ Sentences[k][Len(Sentences[k])] = LF
         /\ \A i \in 1 .. Len(Sentences[k]) - 1 : Sentences[k][i] # LF
         /\ \A i \in 2 .. Len(Sentences[k]) : Sentences[k][i] # Dollar
<1> DEFINE s == Sentences[k]
           d == Digit(Latitudes[k])
<1>1. s \in Seq(Sendable)
  BY SentencesType
<1>2. /\ k % 2 = 0 => ShapeG(s, 0, k) /\ Len(s) = 9 /\ s[9] = LF
      /\ k % 2 # 0 => ShapeR(s, 0, k) /\ Len(s) = 11 /\ s[11] = LF
  BY SentencesShape
<1> HIDE DEF s
<1>3. d \in 49 .. 57
  BY DigitIs
<1> HIDE DEF d
<1> DEFINE Plain(c) == c # LF /\ c # Dollar
<1>4. /\ LF # Dollar /\ Dollar # LF /\ Plain(Letter.G) /\ Plain(Letter.R) /\ Plain(Letter.A)
      /\ Plain(Comma) /\ Plain(Star) /\ Plain(CR) /\ Plain(d) /\ \A x \in Hex : Plain(x)
  BY <1>3 DEF LF, Dollar, Letter, Comma, Star, CR, Hex
<1>5. CASE k % 2 = 0
  <2>1. /\ s[1] = Dollar /\ Plain(s[2]) /\ Plain(s[3]) /\ Plain(s[4]) /\ Plain(s[5])
        /\ Plain(s[6]) /\ Plain(s[7]) /\ Plain(s[8]) /\ s[9] = LF /\ Len(s) = 9
    <3>1. /\ s[0 + 1] = Dollar /\ s[0 + 2] = Letter.G /\ s[0 + 3] = Comma
          /\ s[0 + 4] = d /\ s[0 + 5] = Star
          /\ s[0 + 6] \in Hex /\ s[0 + 7] \in Hex /\ s[0 + 8] = CR
      BY <1>2, <1>5 DEF ShapeG, d
    <3>2. /\ 0 + 1 = 1 /\ 0 + 2 = 2 /\ 0 + 3 = 3 /\ 0 + 4 = 4 /\ 0 + 5 = 5 /\ 0 + 6 = 6
          /\ 0 + 7 = 7 /\ 0 + 8 = 8
      OBVIOUS
    <3> HIDE DEF Plain
    <3> QED BY <1>2, <1>4, <1>5, <3>1, <3>2, Zenon
  <2>2. /\ \A i \in 1 .. 9 - 1 : i \in {1, 2, 3, 4, 5, 6, 7, 8}
        /\ \A i \in 2 .. 9 : i \in {2, 3, 4, 5, 6, 7, 8, 9}
    OBVIOUS
  <2>3. \A i \in 1 .. 9 - 1 : s[i] # LF
    BY <1>4, <2>1, <2>2
  <2>4. \A i \in 2 .. 9 : s[i] # Dollar
    BY <1>4, <2>1, <2>2
  <2> QED BY <1>1, <2>1, <2>3, <2>4 DEF s
<1>6. CASE k % 2 # 0
  <2>1. /\ s[1] = Dollar /\ Plain(s[2]) /\ Plain(s[3]) /\ Plain(s[4]) /\ Plain(s[5])
        /\ Plain(s[6]) /\ Plain(s[7]) /\ Plain(s[8]) /\ Plain(s[9]) /\ Plain(s[10])
        /\ s[11] = LF /\ Len(s) = 11
    <3>1. /\ s[0 + 1] = Dollar /\ s[0 + 2] = Letter.R /\ s[0 + 3] = Comma
          /\ s[0 + 4] = Letter.A /\ s[0 + 5] = Comma /\ s[0 + 6] = d /\ s[0 + 7] = Star
          /\ s[0 + 8] \in Hex /\ s[0 + 9] \in Hex /\ s[0 + 10] = CR
      BY <1>2, <1>6 DEF ShapeR, d
    <3>2. /\ 0 + 1 = 1 /\ 0 + 2 = 2 /\ 0 + 3 = 3 /\ 0 + 4 = 4 /\ 0 + 5 = 5 /\ 0 + 6 = 6
          /\ 0 + 7 = 7 /\ 0 + 8 = 8 /\ 0 + 9 = 9 /\ 0 + 10 = 10
      OBVIOUS
    <3> HIDE DEF Plain
    <3> QED BY <1>2, <1>4, <1>6, <3>1, <3>2, Zenon
  <2>2. /\ \A i \in 1 .. 11 - 1 : i \in {1, 2, 3, 4, 5, 6, 7, 8, 9, 10}
        /\ \A i \in 2 .. 11 : i \in {2, 3, 4, 5, 6, 7, 8, 9, 10, 11}
    OBVIOUS
  <2>3. \A i \in 1 .. 11 - 1 : s[i] # LF
    BY <1>4, <2>1, <2>2
  <2>4. \A i \in 2 .. 11 : s[i] # Dollar
    BY <1>4, <2>1, <2>2
  <2> QED BY <1>1, <2>1, <2>3, <2>4 DEF s
<1> QED BY <1>5, <1>6

\* After a place comes a place; only the last of a sentence holds its line end.
LEMMA PlaceFacts ==
  ASSUME NEW p \in Places
  PROVE  /\ NextPlace(p) \in Places
         /\ CharAt(p) \in Sendable
         /\ CharAt(p) = LF <=> p.left = 1
         /\ p.left > 1 => NextPlace(p) = [of |-> p.of, left |-> p.left - 1]
         /\ p.left = 1 => NextPlace(p) = [of |-> Following(p.of),
                                          left |-> Len(Sentences[Following(p.of)])]
<1> DEFINE s == Sentences[p.of]
           n == Len(s) - p.left + 1
           k == Following(p.of)
<1>1. /\ p \in [of : DOMAIN Latitudes, left : Nat \ {0}] /\ p.of \in DOMAIN Latitudes
      /\ p.left \in Nat \ {0} /\ p.left <= Len(s)
  BY DEF Places
<1>2. /\ s \in Seq(Sendable) /\ Len(s) \in {9, 11} /\ s[Len(s)] = LF
      /\ \A i \in 1 .. Len(s) - 1 : s[i] # LF
  BY <1>1, SentenceFacts
<1>3. k \in DOMAIN Latitudes /\ Len(Sentences[k]) \in {9, 11}
  BY <1>1, SentenceFacts, TurnType
<1> HIDE DEF s, k
<1>4. n \in 1 .. Len(s) /\ (n = Len(s) <=> p.left = 1)
  BY <1>1, <1>2
<1>5. s[n] \in Sendable /\ (s[n] = LF <=> p.left = 1)
  <2>1. n \in 1 .. Len(s) - 1 \/ n = Len(s)
    BY <1>2, <1>4
  <2> HIDE DEF n
  <2> QED BY <1>2, <1>4, <2>1
<1>6. p.left > 1 => [of |-> p.of, left |-> p.left - 1] \in Places
  BY <1>1 DEF Places, s
<1>7. [of |-> k, left |-> Len(Sentences[k])] \in Places
  <2>1. PICK m \in {9, 11} : m = Len(Sentences[k])
    BY <1>3
  <2>2. PICK r \in [of : DOMAIN Latitudes, left : Nat \ {0}] : r = [of |-> k, left |-> m]
    <3>1. m \in Nat \ {0} /\ k \in DOMAIN Latitudes
      BY <1>3
    <3>2. [of |-> k, left |-> m] \in [of : DOMAIN Latitudes, left : Nat \ {0}]
      BY <3>1
    <3> QED BY <3>2
  <2>3. r.of = k /\ r.left = m /\ m <= m
    BY <2>2
  <2>4. r \in Places
    BY <2>1, <2>3 DEF Places
  <2> QED BY <2>1, <2>2, <2>4
<1>8. NextPlace(p) = IF p.left > 1 THEN [of |-> p.of, left |-> p.left - 1]
                     ELSE [of |-> k, left |-> Len(Sentences[k])]
  BY DEF NextPlace, k
<1>9. CharAt(p) = s[n]
  BY DEF CharAt, s
<1>10. p.left > 1 \/ p.left = 1
  BY <1>1
<1> HIDE DEF n
<1> QED BY <1>5, <1>6, <1>7, <1>8, <1>9, <1>10 DEF k

\* From place p on these characters are lost, at most one, and q comes next.
Gap(p, gone, q) ==
  /\ gone = <<>> => q = p
  /\ Len(gone) = 1 => gone[1] = CharAt(p) /\ q = NextPlace(p)

\* The place that comes next, with these characters kept and this one to be read.
Expected(here, at, i) == IF i = 1 THEN here ELSE NextPlace(at[i - 1])

\* The characters u are those of places at, what is lost between them is said, and so
\* it is of the place that is sent now.
Chain(u, gone, sending, here, at) ==
  /\ at \in Seq(Places) /\ Len(at) = Len(u)
  /\ \A i \in 1 .. Len(u) :
       /\ u[i].char = CharAt(at[i]) /\ u[i].of = at[i].of
       /\ Gap(Expected(here, at, i), u[i].after, at[i])
  /\ Gap(Expected(here, at, Len(u) + 1), gone, sending)

LEMMA ChainDrop ==
  ASSUME NEW S, NEW u, NEW gone \in Seq(S), NEW sending, NEW here, NEW at,
         Chain(u, gone, sending, here, at)
  PROVE  Chain(u, Append(gone, CharAt(sending)), NextPlace(sending), here, at)
<1> DEFINE p == Expected(here, at, Len(u) + 1)
           c == CharAt(sending)
<1> HIDE DEF p, c
<1>1. Gap(p, gone, sending)
  BY DEF Chain, p
<1>2. Append(gone, c) # <<>> /\ (Len(Append(gone, c)) = 1 => gone = <<>> /\ Append(gone, c)[1] = c)
  OBVIOUS
<1>3. Gap(p, Append(gone, c), NextPlace(sending))
  BY <1>1, <1>2 DEF Gap, c
<1> QED BY <1>3 DEF Chain, p, c

LEMMA ChainKeep ==
  ASSUME NEW S, NEW u \in Seq(S), NEW gone, NEW sending \in Places, NEW here, NEW at,
         Chain(u, gone, sending, here, at),
         NEW e \in S, e.char = CharAt(sending), e.of = sending.of, e.after = gone
  PROVE  Chain(Append(u, e), <<>>, NextPlace(sending), here, Append(at, sending))
<1> DEFINE u1 == Append(u, e)
           at1 == Append(at, sending)
           n == Len(u)
<1>1. /\ at \in Seq(Places) /\ Len(at) = n
      /\ \A i \in 1 .. n : /\ u[i].char = CharAt(at[i]) /\ u[i].of = at[i].of
                           /\ Gap(Expected(here, at, i), u[i].after, at[i])
      /\ Gap(Expected(here, at, n + 1), gone, sending)
  BY DEF Chain
<1>2. /\ n \in Nat /\ Len(u1) = n + 1 /\ u1[n + 1] = e /\ \A i \in 1 .. n : u1[i] = u[i]
      /\ at1 \in Seq(Places) /\ Len(at1) = n + 1 /\ at1[n + 1] = sending
      /\ \A i \in 1 .. n : at1[i] = at[i]
  BY <1>1
<1> HIDE DEF u1, at1, n
<1>3. \A i \in 1 .. n + 1 : Expected(here, at1, i) = Expected(here, at, i)
  <2> SUFFICES ASSUME NEW i \in 1 .. n + 1 PROVE Expected(here, at1, i) = Expected(here, at, i)
    OBVIOUS
  <2>1. i = 1 \/ i - 1 \in 1 .. n
    BY <1>2
  <2> QED BY <1>2, <2>1 DEF Expected
<1>4. ASSUME NEW i \in 1 .. n + 1
      PROVE  /\ u1[i].char = CharAt(at1[i]) /\ u1[i].of = at1[i].of
             /\ Gap(Expected(here, at1, i), u1[i].after, at1[i])
  <2>1. Expected(here, at1, i) = Expected(here, at, i)
    BY <1>3
  <2>2. CASE i = n + 1
    BY <1>1, <1>2, <2>1, <2>2
  <2>3. CASE i \in 1 .. n
    BY <1>1, <1>2, <2>1, <2>3
  <2> QED BY <1>2, <2>2, <2>3
<1>5. Expected(here, at1, n + 1 + 1) = NextPlace(sending)
  <2>1. n + 1 + 1 # 1 /\ n + 1 + 1 - 1 = n + 1
    BY <1>2
  <2> QED BY <1>2, <2>1 DEF Expected
<1>6. Gap(Expected(here, at1, n + 1 + 1), <<>>, NextPlace(sending))
  <2>1. Len(<<>>) # 1
    OBVIOUS
  <2> QED BY <1>5, <2>1 DEF Gap
<1>7. Chain(u1, <<>>, NextPlace(sending), here, at1)
  BY <1>2, <1>4, <1>6 DEF Chain
<1> QED BY <1>7 DEF u1, at1

LEMMA ChainPass ==
  ASSUME NEW S, NEW u \in Seq(S), u # <<>>, NEW gone, NEW sending, NEW here, NEW at,
         Chain(u, gone, sending, here, at)
  PROVE  /\ at[1] \in Places /\ u[1].char = CharAt(at[1]) /\ u[1].of = at[1].of
         /\ Gap(here, u[1].after, at[1])
         /\ Chain(Tail(u), gone, sending, NextPlace(at[1]), Tail(at))
<1> DEFINE u1 == Tail(u)
           at1 == Tail(at)
           n == Len(u)
<1>1. /\ at \in Seq(Places) /\ Len(at) = n
      /\ \A i \in 1 .. n : /\ u[i].char = CharAt(at[i]) /\ u[i].of = at[i].of
                           /\ Gap(Expected(here, at, i), u[i].after, at[i])
      /\ Gap(Expected(here, at, n + 1), gone, sending)
  BY DEF Chain
<1>2. /\ n \in Nat /\ n >= 1 /\ Len(u1) = n - 1 /\ \A i \in 1 .. n - 1 : u1[i] = u[i + 1]
      /\ at1 \in Seq(Places) /\ Len(at1) = n - 1 /\ at[1] \in Places
      /\ \A i \in 1 .. n - 1 : at1[i] = at[i + 1]
  BY <1>1
<1> HIDE DEF u1, at1, n
<1> DEFINE next == NextPlace(at[1])
<1>3. ASSUME NEW i \in 1 .. n PROVE Expected(next, at1, i) = Expected(here, at, i + 1)
  <2>1. i + 1 # 1 /\ i + 1 - 1 = i
    BY <1>2
  <2>2. CASE i = 1
    BY <2>1, <2>2 DEF Expected
  <2>3. CASE i # 1
    <3>1. i - 1 \in 1 .. n - 1 /\ i - 1 + 1 = i
      BY <1>2, <2>3
    <3> QED BY <1>2, <2>1, <2>3, <3>1 DEF Expected
  <2> QED BY <2>2, <2>3
<1>4. ASSUME NEW i \in 1 .. n - 1
      PROVE  /\ u1[i].char = CharAt(at1[i]) /\ u1[i].of = at1[i].of
             /\ Gap(Expected(next, at1, i), u1[i].after, at1[i])
  <2>1. i \in 1 .. n /\ i + 1 \in 1 .. n
    BY <1>2
  <2>2. Expected(next, at1, i) = Expected(here, at, i + 1)
    BY <1>3, <2>1
  <2> QED BY <1>1, <1>2, <2>1, <2>2
<1>5. Expected(next, at1, n - 1 + 1) = Expected(here, at, n + 1)
  <2>1. n - 1 + 1 = n /\ n \in 1 .. n
    BY <1>2
  <2> QED BY <1>3, <2>1
<1>6. Chain(u1, gone, sending, next, at1)
  BY <1>1, <1>2, <1>4, <1>5 DEF Chain
<1>7. Expected(here, at, 1) = here /\ 1 \in 1 .. n
  BY <1>2 DEF Expected
<1> QED BY <1>1, <1>2, <1>6, <1>7 DEF u1, at1, n

-----------------------------------------------------------------------------
(* What has been heard of a sentence                                       *)

\* What there is to hear up to a line end: the line end before it and the sentence;
\* at first the rest of a sentence.
Texts(k) ==
  {<<LF>> \o Sentences[k]} \union
  {SubSeq(Sentences[1], i, Len(Sentences[1])) : i \in IF k = 1 THEN DOMAIN Sentences[1] ELSE {}}

\* The characters of a text.
LEMMA TextFacts ==
  ASSUME NEW k \in DOMAIN Latitudes, NEW t \in Texts(k)
  PROVE  /\ Len(t) \in 1 .. Len(Sentences[k]) + 1
         /\ \A n \in 1 .. Len(Sentences[k]) :
              n <= Len(t) => t[Len(t) - n + 1] = Sentences[k][Len(Sentences[k]) - n + 1]
<1> DEFINE s == Sentences[k]
           m == Len(s)
<1>1. s \in Seq(Sendable) /\ m \in Nat /\ m >= 1
  <2>1. s \in Seq(Sendable) /\ m \in {9, 11}
    BY SentenceFacts, Zenon
  <2>2. \A x \in {9, 11} : x \in Nat /\ x >= 1
    OBVIOUS
  <2> QED BY <2>1, <2>2, Zenon
<1>2. CASE t = <<LF>> \o s
  <2>1. <<LF>> \in Seq(Sendable) /\ Len(<<LF>>) = 1
    BY DEF LF, Sendable
  <2> HIDE DEF s
  <2>2. Len(t) = m + 1 /\ \A i \in 1 .. m : t[i + 1] = s[i]
    <3>1. /\ Len(<<LF>> \o s) = Len(<<LF>>) + Len(s)
          /\ \A i \in 1 .. Len(<<LF>>) + Len(s) :
               (<<LF>> \o s)[i] = IF i <= Len(<<LF>>) THEN <<LF>>[i] ELSE s[i - Len(<<LF>>)]
      BY <1>1, <2>1, ConcatProperties
    <3>2. ASSUME NEW i \in 1 .. m
          PROVE  i + 1 \in 1 .. 1 + m /\ ~(i + 1 <= 1) /\ i + 1 - 1 = i
      BY <1>1
    <3> QED BY <1>1, <1>2, <2>1, <3>1, <3>2
  <2>3. ASSUME NEW n \in 1 .. m PROVE t[Len(t) - n + 1] = s[m - n + 1]
    <3>1. m - n + 1 \in 1 .. m /\ m + 1 - n + 1 = m - n + 1 + 1
      BY <1>1
    <3> QED BY <2>2, <3>1
  <2> QED BY <1>1, <2>2, <2>3 DEF s
<1>3. CASE /\ k = 1
           /\ \E i \in DOMAIN Sentences[1] : t = SubSeq(Sentences[1], i, Len(Sentences[1]))
  <2>1. PICK i \in 1 .. m : t = SubSeq(s, i, m)
    BY <1>1, <1>3
  <2> HIDE DEF s
  <2>2. Len(t) = m - i + 1 /\ \A j \in 1 .. m - i + 1 : t[j] = s[i + j - 1]
    BY <1>1, <2>1
  <2>3. ASSUME NEW n \in 1 .. m, n <= Len(t) PROVE t[Len(t) - n + 1] = s[m - n + 1]
    <3>1. /\ m - i + 1 - n + 1 \in 1 .. m - i + 1
          /\ i + (m - i + 1 - n + 1) - 1 = m - n + 1
      BY <1>1, <2>2, <2>3
    <3> QED BY <2>2, <3>1
  <2> QED BY <1>1, <2>2, <2>3 DEF s
<1> QED BY <1>2, <1>3 DEF Texts

\* Up to place p, h is what has been heard of some text, and m, when it is one character
\* and no line end, is what is missing of it.
Heard(h, m, p) ==
  m = <<>> \/ (Len(m) = 1 /\ m[1] # LF) =>
    \E t \in Texts(p.of) : \E j \in 0 .. Len(t) - p.left :
      /\ Without(h, t, Len(t) - p.left, j)
      /\ IF m = <<>> THEN j = 0 ELSE j # 0 /\ t[j] = m[1]

\* The character in a place, as that of a text.
LEMMA TextAt ==
  ASSUME NEW p \in Places, NEW t \in Texts(p.of), p.left <= Len(t)
  PROVE  t[Len(t) - p.left + 1] = CharAt(p)
<1>1. p.of \in DOMAIN Latitudes /\ p.left \in 1 .. Len(Sentences[p.of])
  BY SentenceFacts DEF Places
<1>2. PICK n \in 1 .. Len(Sentences[p.of]) : n = p.left
  BY <1>1
<1>3. PICK k \in DOMAIN Latitudes : k = p.of
  BY <1>1
<1>4. \A i \in 1 .. Len(Sentences[k]) :
        i <= Len(t) => t[Len(t) - i + 1] = Sentences[k][Len(Sentences[k]) - i + 1]
  BY <1>3, TextFacts
<1> QED BY <1>2, <1>3, <1>4 DEF CharAt

\* What is lost at p is missing.
LEMMA HeardGap ==
  ASSUME NEW h, NEW m \in Seq(Sendable), NEW gone \in Seq(Sendable), NEW p \in Places, NEW q,
         Heard(h, m, p), Gap(p, gone, q)
  PROVE  Heard(h, m \o gone, q)
<1> SUFFICES ASSUME m \o gone = <<>> \/ (Len(m \o gone) = 1 /\ (m \o gone)[1] # LF)
             PROVE  \E t \in Texts(q.of) : \E j \in 0 .. Len(t) - q.left :
                      /\ Without(h, t, Len(t) - q.left, j)
                      /\ IF m \o gone = <<>> THEN j = 0 ELSE j # 0 /\ t[j] = (m \o gone)[1]
  BY DEF Heard
<1>1. /\ m \o gone \in Seq(Sendable) /\ Len(m \o gone) = Len(m) + Len(gone)
      /\ Len(m) \in Nat /\ Len(gone) \in Nat
      /\ (gone = <<>> => m \o gone = m) /\ (m = <<>> => m \o gone = gone)
      /\ (gone = <<>> <=> Len(gone) = 0) /\ (m = <<>> <=> Len(m) = 0)
      /\ (m \o gone = <<>> <=> Len(m \o gone) = 0)
  OBVIOUS
<1>2. CASE gone = <<>>
  <2>1. m \o gone = m /\ q = p
    BY <1>1, <1>2 DEF Gap
  <2> QED BY <2>1 DEF Heard
<1>3. CASE gone # <<>>
  <2>11. Len(gone) # 0 /\ m \o gone # <<>>
    BY <1>1, <1>3
  <2>12. Len(m \o gone) = 1 /\ (m \o gone)[1] # LF
    BY <2>11
  <2>13. Len(m) = 0 /\ Len(gone) = 1
    <3>1. \A x, y \in Nat : x + y = 1 /\ y # 0 => x = 0 /\ y = 1
      OBVIOUS
    <3>2. Len(m) \in Nat /\ Len(gone) \in Nat /\ Len(m) + Len(gone) = 1
      BY <1>1, <2>12, Zenon
    <3> QED BY <2>11, <3>1, <3>2, Zenon
  <2>1. m = <<>> /\ Len(gone) = 1 /\ m \o gone = gone /\ gone[1] # LF
    BY <1>1, <2>12, <2>13, Zenon
  <2>2. gone[1] = CharAt(p) /\ q = NextPlace(p)
    BY <2>1 DEF Gap
  <2>3. /\ p.left \in Nat /\ p.left > 1 /\ q = [of |-> p.of, left |-> p.left - 1]
        /\ p.of \in DOMAIN Latitudes
    BY <2>1, <2>2, PlaceFacts DEF Places
  <2>4. PICK t \in Texts(p.of) : \E j \in 0 .. Len(t) - p.left :
          Without(h, t, Len(t) - p.left, j) /\ j = 0
    BY <2>1 DEF Heard
  <2>5. Len(t) \in Nat
    BY <2>3, TextFacts
  <2> DEFINE n == Len(t) - p.left
  <2>6. n \in Nat /\ Without(h, t, n, 0) /\ p.left <= Len(t)
    BY <2>3, <2>4, <2>5
  <2>7. Without(h, t, n + 1, n + 1)
    <3>1. n + 1 # 0 /\ n + 1 - 1 = n
      BY <2>6
    <3>2. Len(h) = n /\ \A i \in 1 .. n : h[i] = t[i] /\ i < n + 1
      BY <2>6 DEF Without
    <3> QED BY <3>1, <3>2 DEF Without
  <2>8. t[n + 1] = gone[1]
    BY <2>2, <2>6, TextAt
  <2>9. q.of = p.of /\ Len(t) - q.left = n + 1 /\ n + 1 # 0 /\ n + 1 \in 0 .. n + 1
    BY <2>3, <2>5, <2>6
  <2> HIDE DEF n
  <2>10. /\ t \in Texts(q.of) /\ n + 1 \in 0 .. Len(t) - q.left
         /\ Without(h, t, Len(t) - q.left, n + 1)
         /\ m \o gone # <<>> /\ n + 1 # 0 /\ t[n + 1] = (m \o gone)[1]
    BY <1>3, <2>1, <2>4, <2>7, <2>8, <2>9
  <2> QED BY <2>10
<1> QED BY <1>2, <1>3

\* One more character is heard.
LEMMA HeardStore ==
  ASSUME NEW h \in Seq(Sendable), NEW m \in Seq(Sendable), NEW p \in Places,
         Heard(h, m, p), CharAt(p) # LF
  PROVE  Heard(Append(h, CharAt(p)), m, NextPlace(p))
<1> DEFINE c == CharAt(p)
           h1 == Append(h, c)
           q == NextPlace(p)
<1>1. /\ p.left \in Nat /\ p.left > 1 /\ q = [of |-> p.of, left |-> p.left - 1]
      /\ p.of \in DOMAIN Latitudes
  BY PlaceFacts DEF Places
<1>2. /\ Len(h) \in Nat /\ Len(h1) = Len(h) + 1 /\ h1[Len(h) + 1] = c
      /\ \A i \in 1 .. Len(h) : h1[i] = h[i]
  BY PlaceFacts
<1> HIDE DEF c, h1, q
<1> SUFFICES ASSUME m = <<>> \/ (Len(m) = 1 /\ m[1] # LF)
             PROVE  \E t \in Texts(q.of) : \E j \in 0 .. Len(t) - q.left :
                      /\ Without(h1, t, Len(t) - q.left, j)
                      /\ IF m = <<>> THEN j = 0 ELSE j # 0 /\ t[j] = m[1]
  BY DEF Heard, h1, c, q
<1>13. PICK t \in Texts(p.of) : \E j \in 0 .. Len(t) - p.left :
         /\ Without(h, t, Len(t) - p.left, j)
         /\ IF m = <<>> THEN j = 0 ELSE j # 0 /\ t[j] = m[1]
  BY DEF Heard
<1>3. PICK j \in 0 .. Len(t) - p.left :
        /\ Without(h, t, Len(t) - p.left, j)
        /\ IF m = <<>> THEN j = 0 ELSE j # 0 /\ t[j] = m[1]
  BY <1>13
<1>4. Len(t) \in Nat
  BY <1>1, TextFacts
<1> DEFINE n == Len(t) - p.left
<1>5. n \in Int /\ j \in 0 .. n /\ j \in Nat /\ p.left <= Len(t) /\ n \in Nat
  BY <1>1, <1>3, <1>4
<1>6. t[n + 1] = c
  BY <1>5, TextAt DEF c
<1>7. q.of = p.of /\ Len(t) - q.left = n + 1
  BY <1>1, <1>4
<1>8. Without(h, t, n, j)
  BY <1>3
<1> HIDE DEF n
<1>9. Without(h1, t, n + 1, j)
  <2>1. CASE j = 0
    <3>1. Len(h) = n /\ \A i \in 1 .. n : h[i] = t[i]
      BY <1>8, <2>1 DEF Without
    <3>2. \A i \in 1 .. n + 1 : i \in 1 .. n \/ i = n + 1
      BY <1>5
    <3>3. \A i \in 1 .. n + 1 : h1[i] = t[i]
      BY <1>2, <1>6, <3>1, <3>2
    <3>4. Len(h1) = n + 1
      BY <1>2, <3>1
    <3> QED BY <2>1, <3>3, <3>4 DEF Without
  <2>2. CASE j # 0
    <3>1. Len(h) = n - 1 /\ \A i \in 1 .. n - 1 : h[i] = IF i < j THEN t[i] ELSE t[i + 1]
      BY <1>8, <2>2 DEF Without
    <3>2. /\ n - 1 + 1 = n /\ n + 1 - 1 = n /\ ~(n < j)
          /\ \A i \in 1 .. n : i \in 1 .. n - 1 \/ i = n
      BY <1>5
    <3>3. Len(h1) = n /\ h1[n] = c /\ \A i \in 1 .. n - 1 : h1[i] = h[i]
      BY <1>2, <3>1, <3>2
    <3>4. \A i \in 1 .. n : h1[i] = IF i < j THEN t[i] ELSE t[i + 1]
      BY <1>6, <3>1, <3>2, <3>3
    <3> QED BY <2>2, <3>2, <3>3, <3>4 DEF Without
  <2> QED BY <2>1, <2>2
<1>10. /\ t \in Texts(q.of) /\ j \in 0 .. Len(t) - q.left
       /\ Without(h1, t, Len(t) - q.left, j)
  BY <1>3, <1>5, <1>7, <1>9
<1> QED BY <1>3, <1>10

\* The line end is the first character of the next text.
LEMMA HeardLineEnd ==
  ASSUME NEW k \in DOMAIN Latitudes
  PROVE  Heard(<<LF>>, <<>>, [of |-> k, left |-> Len(Sentences[k])])
<1> DEFINE s == Sentences[k]
           t == <<LF>> \o s
<1>1. s \in Seq(Sendable) /\ Len(s) \in Nat
  BY SentenceFacts
<1>2. PICK f \in Seq(Sendable) : f = <<LF>> /\ Len(f) = 1 /\ f[1] = LF
  <2>1. LF \in Sendable
    BY DEF LF, Sendable
  <2>2. <<LF>> \in Seq(Sendable) /\ Len(<<LF>>) = 1 /\ <<LF>>[1] = LF
    BY <2>1
  <2> QED BY <2>2
<1> HIDE DEF s
<1>3. Len(f \o s) = 1 + Len(s) /\ (f \o s)[1] = LF
  BY <1>1, <1>2
<1>4. t = f \o s
  BY <1>2
<1> HIDE DEF t
<1>5. Len(t) - Len(s) = 1 /\ t[1] = LF
  BY <1>1, <1>3, <1>4
<1>6. Without(f, t, 1, 0)
  BY <1>2, <1>5 DEF Without
<1>7. t \in Texts(k)
  BY DEF Texts, t, s
<1>8. PICK r \in Places : r = [of |-> k, left |-> Len(s)] /\ r.of = k /\ r.left = Len(s)
  <2>1. PICK n \in Nat \ {0} : n = Len(s)
    <3>1. Len(s) \in {9, 11}
      BY SentenceFacts DEF s
    <3>2. \A i \in {9, 11} : i \in Nat \ {0}
      OBVIOUS
    <3>3. Len(s) \in Nat \ {0}
      BY <3>1, <3>2, Zenon
    <3> QED BY <3>3, Zenon
  <2>2. [of |-> k, left |-> n] \in [of : DOMAIN Latitudes, left : Nat \ {0}]
    OBVIOUS
  <2>3. PICK r \in [of : DOMAIN Latitudes, left : Nat \ {0}] : r = [of |-> k, left |-> n]
    BY <2>2
  <2>4. r.of = k /\ r.left = n
    BY <2>3
  <2>5. r \in Places
    BY <2>1, <2>4 DEF Places, s
  <2> QED BY <2>1, <2>3, <2>4, <2>5
<1>9. Heard(f, <<>>, r)
  <2>1. 0 \in 0 .. Len(t) - r.left /\ Without(f, t, Len(t) - r.left, 0)
    BY <1>5, <1>6, <1>8
  <2> QED BY <1>7, <1>8, <2>1 DEF Heard
<1> QED BY <1>2, <1>8, <1>9 DEF s

-----------------------------------------------------------------------------
(* One loss is safe                                                        *)

\* The shape of a sentence one place further on.
LEMMA ShapeShift ==
  ASSUME NEW k, NEW s, NEW t
  PROVE  /\ ShapeG(s, 0, k) /\ (\A i \in 1 .. 9 : t[i + 1] = s[i]) => ShapeG(t, 1, k)
         /\ ShapeR(s, 0, k) /\ (\A i \in 1 .. 11 : t[i + 1] = s[i]) => ShapeR(t, 1, k)
<1>1. ASSUME ShapeG(s, 0, k), \A i \in 1 .. 9 : t[i + 1] = s[i] PROVE ShapeG(t, 1, k)
  <2>1. /\ t[2] = s[1] /\ t[3] = s[2] /\ t[4] = s[3] /\ t[5] = s[4] /\ t[6] = s[5]
        /\ t[7] = s[6] /\ t[8] = s[7] /\ t[9] = s[8]
    BY <1>1
  <2> QED BY <1>1, <2>1 DEF ShapeG
<1>2. ASSUME ShapeR(s, 0, k), \A i \in 1 .. 11 : t[i + 1] = s[i] PROVE ShapeR(t, 1, k)
  <2>1. /\ t[2] = s[1] /\ t[3] = s[2] /\ t[4] = s[3] /\ t[5] = s[4] /\ t[6] = s[5]
        /\ t[7] = s[6] /\ t[8] = s[7] /\ t[9] = s[8] /\ t[10] = s[9] /\ t[11] = s[10]
    BY <1>2
  <2> QED BY <1>2, <2>1 DEF ShapeR
<1> QED BY <1>1, <1>2

\* A text that begins with the line end before it.
LEMMA TextShape ==
  ASSUME NEW k \in DOMAIN Latitudes, NEW t, t = <<LF>> \o Sentences[k]
  PROVE  /\ t[1] = LF /\ Len(t) = Len(Sentences[k]) + 1
         /\ k % 2 = 0 => ShapeG(t, 1, k) /\ Len(t) = 10
         /\ k % 2 # 0 => ShapeR(t, 1, k) /\ Len(t) = 12
<1> DEFINE s == Sentences[k]
<1>1. /\ k % 2 = 0 => ShapeG(s, 0, k) /\ Len(s) = 9
      /\ k % 2 # 0 => ShapeR(s, 0, k) /\ Len(s) = 11
  BY SentencesShape
<1>2. s \in Seq(Sendable)
  BY SentenceFacts
<1>3. PICK f \in Seq(Sendable) : f = <<LF>> /\ Len(f) = 1 /\ f[1] = LF
  <2>1. LF \in Sendable
    BY DEF LF, Sendable
  <2>2. <<LF>> \in Seq(Sendable) /\ Len(<<LF>>) = 1 /\ <<LF>>[1] = LF
    BY <2>1
  <2> QED BY <2>2
<1> HIDE DEF s
<1>4. Len(t) = Len(s) + 1 /\ t[1] = LF /\ \A i \in 1 .. Len(s) : t[i + 1] = s[i]
  <2>1. /\ Len(f \o s) = 1 + Len(s) /\ (f \o s)[1] = LF
        /\ \A i \in 1 .. Len(s) : (f \o s)[i + 1] = s[i]
    BY <1>2, <1>3
  <2>2. t = f \o s
    BY <1>3 DEF s
  <2> QED BY <1>2, <2>1, <2>2
<1>5. CASE k % 2 = 0
  <2>1. ShapeG(s, 0, k) /\ Len(s) = 9
    BY <1>1, <1>5
  <2>2. Len(t) = 10 /\ \A i \in 1 .. 9 : t[i + 1] = s[i]
    <3>1. \A i \in 1 .. 9 : t[i + 1] = s[i]
      BY <1>4, <2>1, Zenon
    <3>2. Len(t) = 9 + 1
      BY <1>4, <2>1, Zenon
    <3> QED BY <3>1, <3>2
  <2>3. ShapeG(t, 1, k)
    BY <2>1, <2>2, ShapeShift
  <2> QED BY <1>4, <1>5, <2>2, <2>3 DEF s
<1>6. CASE k % 2 # 0
  <2>1. ShapeR(s, 0, k) /\ Len(s) = 11
    BY <1>1, <1>6
  <2>2. Len(t) = 12 /\ \A i \in 1 .. 11 : t[i + 1] = s[i]
    <3>1. \A i \in 1 .. 11 : t[i + 1] = s[i]
      BY <1>4, <2>1, Zenon
    <3>2. Len(t) = 11 + 1
      BY <1>4, <2>1, Zenon
    <3> QED BY <3>1, <3>2
  <2>3. ShapeR(t, 1, k)
    BY <2>1, <2>2, ShapeShift
  <2> QED BY <1>4, <1>6, <2>2, <2>3 DEF s
<1> QED BY <1>5, <1>6

\* The end of a sentence has been reached, with one character missing or none.
LEMMA SafeLine ==
  ASSUME NEW h \in Seq(Sendable), NEW m, NEW p \in Places, Heard(h, m, p), p.left = 1,
         m = <<>> \/ (Len(m) = 1 /\ m[1] # LF)
  PROVE  Safe(h, p.of) /\ Len(h) <= Len(Sentences[p.of])
<1>1. PICK k \in DOMAIN Latitudes : k = p.of
  BY DEF Places
<1>2. PICK t \in Texts(k) : \E i \in 0 .. Len(t) - 1 :
        Without(h, t, Len(t) - 1, i) /\ IF m = <<>> THEN i = 0 ELSE i # 0 /\ t[i] = m[1]
  BY <1>1 DEF Heard
<1>3. PICK j \in 0 .. Len(t) - 1 :
        Without(h, t, Len(t) - 1, j) /\ IF m = <<>> THEN j = 0 ELSE j # 0 /\ t[j] = m[1]
  BY <1>2
<1>4. j = 0 \/ t[j] # LF
  BY <1>3
<1> DEFINE s == Sentences[k]
<1>5. /\ k % 2 = 0 => ShapeG(s, 0, k) /\ Len(s) = 9
      /\ k % 2 # 0 => ShapeR(s, 0, k) /\ Len(s) = 11
  BY SentencesShape
<1>6. s \in Seq(Sendable) /\ \A i \in 2 .. Len(s) : s[i] # Dollar
  BY SentenceFacts
<1>7. Len(t) \in 1 .. Len(s) + 1
  BY TextFacts
<1>8. h \in Seq(Chars)
  BY SendableChars
<1>9. \/ t = <<LF>> \o s
      \/ k = 1 /\ \E i \in DOMAIN s : t = SubSeq(s, i, Len(s))
  BY <1>2 DEF Texts
<1> HIDE DEF s
<1>10. Len(h) <= Len(s)
  BY <1>3, <1>6, <1>7 DEF Without
<1>11. CASE t = <<LF>> \o s
  <2>1. /\ t[1] = LF
        /\ k % 2 = 0 => ShapeG(t, 1, k) /\ Len(t) = 10
        /\ k % 2 # 0 => ShapeR(t, 1, k) /\ Len(t) = 12
    BY <1>11, TextShape DEF s
  <2>2. j # 1
    BY <1>4, <2>1
  <2>3. CASE k % 2 = 0
    <3>1. ShapeG(t, 1, k) /\ Len(t) = 10
      BY <2>1, <2>3
    <3>2. Len(t) - 1 = 9 /\ j \in 0 .. 9
      BY <3>1
    <3>3. j \in {0, 2, 3, 4, 5, 6, 7, 8, 9}
      BY <2>2, <3>2
    <3>4. Without(h, t, 9, j)
      BY <1>3, <3>2, Zenon
    <3> QED BY <1>1, <1>8, <1>10, <2>1, <3>1, <3>3, <3>4, SafeG DEF s
  <2>4. CASE k % 2 # 0
    <3>1. ShapeR(t, 1, k) /\ Len(t) = 12
      BY <2>1, <2>4
    <3>2. Len(t) - 1 = 1 + 10 /\ j \in 0 .. 11
      BY <3>1
    <3>3. j \in {0} \union (1 + 1 .. 1 + 10) /\ 1 \in {0, 1}
      BY <2>2, <3>2
    <3>4. Without(h, t, 1 + 10, j)
      BY <1>3, <3>2, Zenon
    <3>5. Safe(h, k)
      BY <1>8, <2>1, <3>1, <3>3, <3>4, SafeR
    <3> QED BY <1>1, <1>10, <3>5 DEF s
  <2> QED BY <2>3, <2>4
<1>12. CASE k = 1 /\ \E i \in DOMAIN s : t = SubSeq(s, i, Len(s))
  <2>1. PICK i \in 1 .. Len(s) : t = SubSeq(s, i, Len(s))
    <3>1. DOMAIN s = 1 .. Len(s)
      BY <1>6
    <3> QED BY <1>12, <3>1, Zenon
  <2>2. ShapeR(s, 0, k) /\ Len(s) = 11
    BY <1>5, <1>12
  <2>3. CASE i = 1
    <3>1. t = s
      BY <1>6, <2>1, <2>3, SubSeqFull
    <3>2. /\ Without(h, s, 0 + 10, j) /\ j \in {0} \union (0 + 1 .. 0 + 10) /\ 0 \in {0, 1}
          /\ 0 # 1
      <4>3. Len(t) = 11
        BY <2>2, <3>1
      <4>1. Len(t) - 1 = 0 + 10 /\ j \in 0 .. 10
        BY <4>3
      <4>2. Without(h, t, Len(t) - 1, j)
        BY <1>3
      <4>4. j \in {0} \union (0 + 1 .. 0 + 10) /\ 0 \in {0, 1} /\ 0 # 1
        BY <4>1
      <4> QED BY <3>1, <4>1, <4>2, <4>4, Zenon
    <3>3. Safe(h, k)
      BY <1>8, <2>2, <3>2, SafeR
    <3> QED BY <1>1, <1>10, <3>3 DEF s
  <2>4. CASE i # 1
    <3>1. Len(t) = Len(s) - i + 1 /\ \A n \in 1 .. Len(s) - i + 1 : t[n] = s[i + n - 1]
      BY <1>6, <2>1
    <3>2. \A n \in 1 .. Len(t) : t[n] # Dollar
      <4> SUFFICES ASSUME NEW n \in 1 .. Len(t) PROVE t[n] # Dollar
        OBVIOUS
      <4>1. i + n - 1 \in 2 .. Len(s)
        BY <1>6, <2>4, <3>1
      <4> QED BY <1>6, <3>1, <4>1
    <3>3. \A n \in 1 .. Len(h) : h[n] # Dollar
      <4> SUFFICES ASSUME NEW n \in 1 .. Len(h) PROVE h[n] # Dollar
        OBVIOUS
      <4>1. CASE j = 0
        <5>1. n \in 1 .. Len(t) /\ h[n] = t[n]
          BY <1>3, <1>7, <4>1 DEF Without
        <5> QED BY <3>2, <5>1
      <4>2. CASE j # 0
        <5>1. n \in 1 .. Len(t) /\ n + 1 \in 1 .. Len(t) /\ h[n] \in {t[n], t[n + 1]}
          BY <1>3, <1>7, <4>2 DEF Without
        <5> QED BY <3>2, <5>1
      <4> QED BY <4>1, <4>2
    <3> QED BY <1>1, <1>8, <1>10, <3>3, SafeNoDollar DEF s
  <2> QED BY <2>3, <2>4
<1> QED BY <1>9, <1>11, <1>12

\* The end of a sentence has been reached, with nothing missing since the line end.
LEMMA WholeLine ==
  ASSUME NEW h \in Seq(Sendable), NEW p \in Places, Heard(h, <<>>, p), p.left = 1,
         h # <<>>, h[1] = LF
  PROVE  Parsed(h) = Latitudes[p.of]
<1>1. PICK k \in DOMAIN Latitudes : k = p.of
  BY DEF Places
<1>2. PICK t \in Texts(k) : Without(h, t, Len(t) - 1, 0)
  BY <1>1 DEF Heard
<1>3. Len(h) = Len(t) - 1 /\ \A i \in 1 .. Len(t) - 1 : h[i] = t[i]
  BY <1>2 DEF Without
<1>4. h \in Seq(Chars) /\ Len(h) >= 1
  BY SendableChars
<1>5. t = <<LF>> \o Sentences[k]
  <2> SUFFICES ASSUME k = 1,
                      NEW i \in DOMAIN Sentences[1],
                      t = SubSeq(Sentences[1], i, Len(Sentences[1]))
               PROVE  FALSE
    BY <1>2 DEF Texts
  <2>1. PICK s \in Seq(Sendable) : s = Sentences[k] /\ \A n \in 1 .. Len(s) - 1 : s[n] # LF
    BY SentenceFacts
  <2>2. i \in 1 .. Len(s) /\ t = SubSeq(s, i, Len(s))
    <3>1. DOMAIN s = 1 .. Len(s)
      OBVIOUS
    <3> QED BY <2>1, <3>1
  <2>3. Len(t) = Len(s) - i + 1 /\ \A n \in 1 .. Len(s) - i + 1 : t[n] = s[i + n - 1]
    BY <2>2
  <2>4. i \in 1 .. Len(s) - 1 /\ t[1] = s[i] /\ h[1] = t[1]
    BY <1>3, <1>4, <2>2, <2>3
  <2> QED BY <2>1, <2>4
<1>6. /\ k % 2 = 0 => ShapeG(t, 1, k) /\ Len(t) = 10
      /\ k % 2 # 0 => ShapeR(t, 1, k) /\ Len(t) = 12
  BY <1>5, TextShape
<1>7. CASE k % 2 = 0
  <2>1. ShapeG(t, 1, k) /\ Len(t) = 10
    BY <1>6, <1>7
  <2>2. Len(h) = 9 /\ \A i \in 1 .. 9 : h[i] = t[i]
    BY <1>3, <2>1
  <2>3. ShapeG(h, 1, k)
    BY <2>1, <2>2 DEF ShapeG
  <2> QED BY <1>1, <1>4, <2>2, <2>3, WholeG
<1>8. CASE k % 2 # 0
  <2>1. ShapeR(t, 1, k) /\ Len(t) = 12
    BY <1>6, <1>8
  <2>2. Len(h) = 11 /\ \A i \in 1 .. 11 : h[i] = t[i]
    BY <1>3, <2>1
  <2>3. ShapeR(h, 1, k)
    BY <2>1, <2>2 DEF ShapeR
  <2> QED BY <1>1, <1>4, <2>2, <2>3, WholeR
<1> QED BY <1>7, <1>8

\* The place the module sends now.
Sending == [of |-> turn, left |-> Len(tx)]

\* What is left of the sentence is its last characters.
RestInv ==
  /\ Len(tx) <= Len(Sentences[turn])
  /\ \A i \in 1 .. Len(tx) : tx[i] = Sentences[turn][Len(Sentences[turn]) - Len(tx) + i]

\* The characters in the port follow on each other and on what has been heard, except
\* for those said to be lost.
StreamInv ==
  \E here \in Places, at \in Seq(Places) :
    Chain(uart, dropped, Sending, here, at) /\ Heard(heard, missing, here)

LossInv == RestInv /\ StreamInv

LEMMA SendingFacts ==
  ASSUME NmeaInv, RestInv
  PROVE  Sending \in Places /\ tx[1] = CharAt(Sending) /\ tx[1] \in Sendable
<1>1. turn \in DOMAIN Latitudes /\ tx \in Seq(Sendable) /\ tx # <<>>
  BY DEF NmeaInv, TypeOK, WireInv
<1>2. PICK k \in DOMAIN Latitudes : k = turn
  BY <1>1
<1>3. PICK n \in Nat \ {0} : n = Len(tx)
  BY <1>1
<1>4. [of |-> k, left |-> n] \in [of : DOMAIN Latitudes, left : Nat \ {0}]
  OBVIOUS
<1>5. PICK r \in [of : DOMAIN Latitudes, left : Nat \ {0}] : r = [of |-> k, left |-> n]
  BY <1>4
<1>6. r.of = k /\ r.left = n /\ r = Sending
  BY <1>2, <1>3, <1>5 DEF Sending
<1>7. Sentences[k] \in Seq(Sendable)
  BY SentenceFacts
<1>8. Sending \in Places
  BY <1>2, <1>3, <1>6 DEF Places, RestInv
<1>9. tx[1] = Sentences[k][Len(Sentences[k]) - n + 1]
  BY <1>2, <1>3 DEF RestInv
<1>10. tx[1] = CharAt(r)
  BY <1>6, <1>9 DEF CharAt
<1> QED BY <1>1, <1>6, <1>8, <1>10

LEMMA AdvanceRest ==
  ASSUME NmeaInv, RestInv, Advance
  PROVE  RestInv' /\ Sending' = NextPlace(Sending)
<1>1. turn \in DOMAIN Latitudes /\ tx \in Seq(Sendable) /\ tx # <<>>
  BY DEF NmeaInv, TypeOK, WireInv
<1>2. PICK s \in Seq(Sendable) : s = tx
  BY <1>1
<1>3. PICK k \in DOMAIN Latitudes : k = turn
  BY <1>1
<1>4. PICK z \in Seq(Sendable) : z = Sentences[k]
  BY SentenceFacts
<1>5. /\ Len(s) \in Nat /\ Len(s) >= 1 /\ Len(s) <= Len(z)
      /\ \A i \in 1 .. Len(s) : s[i] = z[Len(z) - Len(s) + i]
  BY <1>1, <1>2, <1>3, <1>4 DEF RestInv
<1>6. NextPlace(Sending) =
        IF Len(s) > 1 THEN [of |-> k, left |-> Len(s) - 1]
        ELSE [of |-> Following(k), left |-> Len(Sentences[Following(k)])]
  BY <1>2, <1>3 DEF NextPlace, Sending
<1>7. CASE Len(s) > 1
  <2>1. tx' = Tail(s) /\ turn' = k
    BY <1>2, <1>3, <1>7 DEF Advance
  <2>2. Len(Tail(s)) = Len(s) - 1 /\ \A i \in 1 .. Len(s) - 1 : Tail(s)[i] = s[i + 1]
    BY <1>5
  <2>3. \A i \in 1 .. Len(s) - 1 : Tail(s)[i] = z[Len(z) - (Len(s) - 1) + i]
    <3> SUFFICES ASSUME NEW i \in 1 .. Len(s) - 1
                 PROVE  Tail(s)[i] = z[Len(z) - (Len(s) - 1) + i]
      OBVIOUS
    <3>1. /\ i + 1 \in 1 .. Len(s)
          /\ Len(z) - (Len(s) - 1) + i = Len(z) - Len(s) + (i + 1)
      BY <1>5
    <3> QED BY <1>5, <2>2, <3>1
  <2>4. RestInv'
    <3>1. PICK r \in Seq(Sendable) : r = Tail(s)
      BY <1>1, <1>2, HeadTailProperties
    <3>2. /\ Len(r) = Len(s) - 1 /\ Len(r) <= Len(z)
          /\ \A i \in 1 .. Len(r) : r[i] = z[Len(z) - Len(r) + i]
      BY <1>5, <2>2, <2>3, <3>1
    <3> QED BY <1>4, <2>1, <3>1, <3>2 DEF RestInv
  <2>5. Sending' = [of |-> k, left |-> Len(s) - 1]
    BY <2>1, <2>2 DEF Sending
  <2> QED BY <1>6, <1>7, <2>4, <2>5
<1>8. CASE ~(Len(s) > 1)
  <2>1. turn' = Following(k) /\ tx' = Sentences[Following(k)]
    BY <1>2, <1>3, <1>8 DEF Advance
  <2>2. PICK n \in DOMAIN Latitudes : n = Following(k)
    BY TurnType
  <2>3. PICK y \in Seq(Sendable) : y = Sentences[n]
    BY SentenceFacts
  <2>4. RestInv'
    <3>1. Len(y) - Len(y) = 0 /\ \A i \in 1 .. Len(y) : Len(y) - Len(y) + i = i
      OBVIOUS
    <3>2. Len(y) <= Len(y) /\ \A i \in 1 .. Len(y) : y[i] = y[Len(y) - Len(y) + i]
      BY <3>1
    <3> QED BY <2>1, <2>2, <2>3, <3>2 DEF RestInv
  <2>5. Sending' = [of |-> Following(k), left |-> Len(Sentences[Following(k)])]
    BY <2>1 DEF Sending
  <2> QED BY <1>6, <1>8, <2>4, <2>5
<1> QED BY <1>7, <1>8

\* The module sends on, and the port keeps the character.
LEMMA StreamKeep ==
  ASSUME NmeaInv, LossInv, Keep
  PROVE  LossInv'
<1>1. /\ uart \in Seq([char : Sendable, after : Seq(Sendable), of : DOMAIN Latitudes])
      /\ dropped \in Seq(Sendable) /\ turn \in DOMAIN Latitudes
  BY DEF NmeaInv, TypeOK, WireInv
<1>2. RestInv' /\ Sending' = NextPlace(Sending)
  BY AdvanceRest DEF LossInv, Keep
<1>3. Sending \in Places /\ tx[1] = CharAt(Sending) /\ tx[1] \in Sendable
  BY SendingFacts DEF LossInv
<1>4. PICK here \in Places, at \in Seq(Places) :
        Chain(uart, dropped, Sending, here, at) /\ Heard(heard, missing, here)
  BY DEF LossInv, StreamInv
<1>5. PICK e \in [char : Sendable, after : Seq(Sendable), of : DOMAIN Latitudes] :
        /\ e = [char |-> tx[1], after |-> dropped, of |-> turn]
        /\ e.char = CharAt(Sending) /\ e.after = dropped /\ e.of = turn
  <2>1. [char |-> tx[1], after |-> dropped, of |-> turn]
          \in [char : Sendable, after : Seq(Sendable), of : DOMAIN Latitudes]
    BY <1>1, <1>3
  <2> QED BY <1>3, <2>1
<1>6. e.of = Sending.of
  BY <1>5 DEF Sending
<1>7. Chain(Append(uart, e), <<>>, NextPlace(Sending), here, Append(at, Sending))
  BY <1>1, <1>3, <1>4, <1>5, <1>6, ChainKeep
<1>8. /\ uart' = Append(uart, e) /\ dropped' = <<>> /\ heard' = heard /\ missing' = missing
  BY <1>5 DEF Keep
<1>9. Append(at, Sending) \in Seq(Places)
  BY <1>3
<1>10. Chain(uart', dropped', Sending', here, Append(at, Sending)) /\ Heard(heard', missing', here)
  BY <1>2, <1>4, <1>7, <1>8
<1>11. StreamInv'
  BY <1>9, <1>10 DEF StreamInv
<1> QED BY <1>2, <1>11 DEF LossInv

\* The module sends on, and the character is lost.
LEMMA StreamDrop ==
  ASSUME NmeaInv, LossInv, Drop
  PROVE  LossInv'
<1>1. dropped \in Seq(Sendable)
  BY DEF NmeaInv, WireInv
<1>2. RestInv' /\ Sending' = NextPlace(Sending)
  BY AdvanceRest DEF LossInv, Drop
<1>3. tx[1] = CharAt(Sending)
  BY SendingFacts DEF LossInv
<1>4. PICK here \in Places, at \in Seq(Places) :
        Chain(uart, dropped, Sending, here, at) /\ Heard(heard, missing, here)
  BY DEF LossInv, StreamInv
<1>5. Chain(uart, Append(dropped, CharAt(Sending)), NextPlace(Sending), here, at)
  BY <1>1, <1>4, ChainDrop
<1>6. /\ uart' = uart /\ dropped' = Append(dropped, CharAt(Sending))
      /\ heard' = heard /\ missing' = missing
  BY <1>3 DEF Drop
<1>7. Chain(uart', dropped', Sending', here, at) /\ Heard(heard', missing', here)
  BY <1>2, <1>4, <1>5, <1>6
<1>8. StreamInv'
  BY <1>7 DEF StreamInv
<1> QED BY <1>2, <1>8 DEF LossInv

\* What was lost before the first character in the port.
LEMMA FirstAfter ==
  ASSUME NmeaInv, uart # <<>>
  PROVE  uart[1].after \in Seq(Sendable) /\ missing \o uart[1].after \in Seq(Sendable)
<1> DEFINE S == [char : Sendable, after : Seq(Sendable), of : DOMAIN Latitudes]
<1>1. uart \in Seq(S) /\ missing \in Seq(Sendable)
  BY DEF NmeaInv, WireInv
<1> HIDE DEF S
<1>2. PICK u \in Seq(S) : u = uart
  BY <1>1
<1>3. u[1] \in S
  <2>1. u # <<>>
    BY <1>2
  <2>2. Len(u) >= 1 /\ 1 \in 1 .. Len(u)
    BY <2>1
  <2> QED BY <2>2
<1>4. \A e \in S : e.after \in Seq(Sendable)
  BY DEF S
<1>5. PICK g \in Seq(Sendable) : g = uart[1].after
  BY <1>2, <1>3, <1>4
<1>6. missing \o g \in Seq(Sendable)
  BY <1>1, ConcatProperties
<1> QED BY <1>5, <1>6

\* loop() reads the next character: what is in the port still follows on it, and what
\* it leaves heard is said by what was lost before it.
LEMMA StreamRead ==
  ASSUME NmeaInv, LossInv, Pass
  PROVE  \E p \in Places, at \in Seq(Places) :
           /\ uart[1].char = CharAt(p) /\ uart[1].of = p.of
           /\ Heard(heard, missing \o uart[1].after, p)
           /\ Chain(uart', dropped', Sending', NextPlace(p), at)
<1>1. /\ uart \in Seq([char : Sendable, after : Seq(Sendable), of : DOMAIN Latitudes])
      /\ uart # <<>> /\ uart' = Tail(uart) /\ dropped' = dropped /\ turn' = turn /\ tx' = tx
      /\ missing \in Seq(Sendable)
  BY DEF NmeaInv, WireInv, Pass, wireVars
<1>2. uart[1].after \in Seq(Sendable)
  BY <1>1, FirstAfter
<1>3. PICK here \in Places, at \in Seq(Places) :
        Chain(uart, dropped, Sending, here, at) /\ Heard(heard, missing, here)
  BY DEF LossInv, StreamInv
<1>4. /\ at[1] \in Places /\ uart[1].char = CharAt(at[1]) /\ uart[1].of = at[1].of
      /\ Gap(here, uart[1].after, at[1])
      /\ Chain(Tail(uart), dropped, Sending, NextPlace(at[1]), Tail(at))
  BY <1>1, <1>3, ChainPass
<1>5. Heard(heard, missing \o uart[1].after, at[1])
  BY <1>1, <1>2, <1>3, <1>4, HeardGap
<1>6. Sending' = Sending
  BY <1>1 DEF Sending
<1>7. PICK p \in Places : p = at[1]
  BY <1>4
<1>8. Chain(uart', dropped', Sending', NextPlace(p), Tail(at))
  BY <1>1, <1>4, <1>6, <1>7
<1>9. Tail(at) \in Seq(Places)
  BY <1>8 DEF Chain
<1> QED BY <1>4, <1>5, <1>7, <1>8, <1>9

LEMMA StreamPass ==
  ASSUME NmeaInv, LossInv, Pass
  PROVE  LossInv'
<1>1. PICK p \in Places, at \in Seq(Places) :
        /\ uart[1].char = CharAt(p) /\ uart[1].of = p.of
        /\ Heard(heard, missing \o uart[1].after, p)
        /\ Chain(uart', dropped', Sending', NextPlace(p), at)
  BY StreamRead
<1>2. /\ uart \in Seq([char : Sendable, after : Seq(Sendable), of : DOMAIN Latitudes])
      /\ uart # <<>> /\ missing \in Seq(Sendable) /\ heard \in Seq(Sendable)
  BY DEF NmeaInv, WireInv, Pass
<1>3. missing \o uart[1].after \in Seq(Sendable)
  BY <1>2, FirstAfter
<1>4. NextPlace(p) \in Places
  BY PlaceFacts
<1>5. Heard(heard', missing', NextPlace(p))
  <2>1. CASE CharAt(p) = LF
    <3>1. heard' = <<LF>> /\ missing' = <<>>
      BY <1>1, <2>1 DEF Pass
    <3>2. PICK k \in DOMAIN Latitudes : k = Following(p.of)
      BY TurnType DEF Places
    <3>3. NextPlace(p) = [of |-> k, left |-> Len(Sentences[k])]
      BY <2>1, <3>2, PlaceFacts
    <3>4. Heard(<<LF>>, <<>>, [of |-> k, left |-> Len(Sentences[k])])
      BY HeardLineEnd
    <3> QED BY <3>1, <3>3, <3>4
  <2>2. CASE CharAt(p) # LF
    <3>1. heard' = Append(heard, CharAt(p)) /\ missing' = missing \o uart[1].after
      BY <1>1, <2>2 DEF Pass
    <3>2. PICK m \in Seq(Sendable) : m = missing \o uart[1].after
      BY <1>3, Zenon
    <3>3. Heard(Append(heard, CharAt(p)), m, NextPlace(p))
      BY <1>1, <1>2, <2>2, <3>2, HeardStore
    <3> QED BY <3>1, <3>2, <3>3
  <2> QED BY <2>1, <2>2
<1>6. StreamInv'
  BY <1>1, <1>4, <1>5 DEF StreamInv
<1>7. RestInv'
  BY DEF LossInv, RestInv, Pass, wireVars
<1> QED BY <1>6, <1>7 DEF LossInv

LEMMA StreamInit == Init => LossInv
<1> SUFFICES ASSUME Init PROVE LossInv
  OBVIOUS
<1>1. NmeaInv
  BY NmeaInit
<1>2. 1 \in DOMAIN Latitudes /\ turn = 1
  BY LatitudeAssumption DEF Init
<1>3. PICK z \in Seq(Sendable) : z = Sentences[1]
  BY <1>2, SentenceFacts
<1>4. PICK i \in 1 .. Len(z) : tx = SubSeq(z, i, Len(z))
  <2>1. DOMAIN z = 1 .. Len(z)
    BY <1>3
  <2>2. \E i \in DOMAIN z : tx = SubSeq(z, i, Len(z))
    BY <1>3, Zenon DEF Init
  <2> QED BY <2>1, <2>2, Zenon
<1>5. Len(tx) = Len(z) - i + 1 /\ \A n \in 1 .. Len(z) - i + 1 : tx[n] = z[i + n - 1]
  BY <1>3, <1>4
<1>6. RestInv
  <2>1. ASSUME NEW n \in 1 .. Len(tx) PROVE tx[n] = z[Len(z) - Len(tx) + n]
    <3>1. Len(z) - (Len(z) - i + 1) + n = i + n - 1
      BY <1>3, <1>4, <1>5
    <3> QED BY <1>5, <3>1
  <2>2. Len(tx) <= Len(z)
    BY <1>3, <1>4, <1>5
  <2> QED BY <1>2, <1>3, <2>1, <2>2 DEF RestInv
<1>7. Sending \in Places
  BY <1>1, <1>6, SendingFacts
<1>8. PICK p \in Places : p = Sending
  BY <1>7
<1>9. p.of = 1 /\ p.left = Len(tx)
  BY <1>2, <1>8 DEF Sending
<1>10. Heard(<<>>, <<>>, p)
  <2>1. tx \in Texts(1)
    <3>1. i \in DOMAIN z /\ 1 = 1
      BY <1>3
    <3>2. tx \in {SubSeq(z, n, Len(z)) : n \in IF 1 = 1 THEN DOMAIN z ELSE {}}
      BY <1>4, <3>1
    <3> QED BY <1>3, <3>2 DEF Texts
  <2>2. Len(tx) - p.left = 0 /\ 0 \in 0 .. 0
    BY <1>3, <1>4, <1>5, <1>9
  <2>3. Without(<<>>, tx, 0, 0)
    BY DEF Without
  <2>4. tx \in Texts(p.of) /\ 0 \in 0 .. Len(tx) - p.left /\ Without(<<>>, tx, Len(tx) - p.left, 0)
    BY <1>9, <2>1, <2>2, <2>3
  <2> QED BY <2>4 DEF Heard
<1>11. Chain(<<>>, <<>>, p, p, <<>>)
  BY DEF Chain, Gap, Expected
<1>12. <<>> \in Seq(Places)
  OBVIOUS
<1>13. Chain(uart, dropped, Sending, p, <<>>) /\ Heard(heard, missing, p)
  BY <1>8, <1>10, <1>11 DEF Init
<1>14. StreamInv
  BY <1>12, <1>13 DEF StreamInv
<1> QED BY <1>6, <1>14 DEF LossInv

\* When the buffer holds a sentence, one of which nothing is lost is read, and a lost
\* character that is no line end puts no wrong latitude into the packets: the stream says
\* which character is missing of which sentence, and the checksum and the places of the
\* commas do the rest.
THEOREM OneLossIsSafeHolds == ASSUME LinesFit PROVE Spec => OneLossIsSafe
<1>1. NmeaInv /\ LossInv /\ [Next]_vars => LossInv'
  <2> SUFFICES ASSUME NmeaInv, LossInv, [Next]_vars PROVE LossInv'
    OBVIOUS
  <2>1. CASE Next
    BY <2>1, StreamKeep, StreamDrop, StreamPass DEF Next
  <2>2. CASE UNCHANGED vars
    BY <2>2 DEF vars, wireVars, gpsVars, LossInv, RestInv, StreamInv, Sending
  <2> QED BY <2>1, <2>2
<1> DEFINE Gone == missing \o uart[1].after
           Right == LineEnds =>
                      /\ Gone = <<>> /\ heard # <<>> /\ heard[1] = LF =>
                           latitude' = Latitudes[uart[1].of]
                      /\ Len(Gone) <= 1 /\ LF \notin {Gone[i] : i \in DOMAIN Gone} =>
                           latitude' \in {latitude, Latitudes[uart[1].of]}
<1>2. NmeaInv /\ LossInv /\ [Next]_vars => [Right]_vars
  <2> SUFFICES ASSUME NmeaInv, LossInv, Next, LineEnds, Len(Gone) <= 1,
                      LF \notin {Gone[i] : i \in DOMAIN Gone}
               PROVE  /\ latitude' \in {latitude, Latitudes[uart[1].of]}
                      /\ Gone = <<>> /\ heard # <<>> /\ heard[1] = LF =>
                           latitude' = Latitudes[uart[1].of]
    <3>1. Gone = <<>> => Len(Gone) <= 1 /\ LF \notin {Gone[i] : i \in DOMAIN Gone}
      OBVIOUS
    <3> HIDE DEF Gone
    <3> QED BY <3>1, Zenon
  <2>1. Pass /\ uart[1].char = LF
    BY StoreStep DEF Next, Keep, Drop, LineEnds, gpsVars
  <2>2. PICK p \in Places :
          /\ uart[1].char = CharAt(p) /\ uart[1].of = p.of /\ Heard(heard, Gone, p)
    BY <2>1, StreamRead
  <2>3. p.left = 1
    BY <2>1, <2>2, PlaceFacts
  <2>4. /\ uart \in Seq([char : Sendable, after : Seq(Sendable), of : DOMAIN Latitudes])
        /\ uart # <<>> /\ missing \in Seq(Sendable) /\ heard \in Seq(Sendable)
    BY <2>1 DEF NmeaInv, WireInv, Pass
  <2>5. PICK m \in Seq(Sendable) : m = Gone
    BY <2>4, FirstAfter, Zenon
  <2>6. m = <<>> \/ (Len(m) = 1 /\ m[1] # LF)
    <3>1. Len(m) <= 1 /\ \A i \in DOMAIN m : m[i] # LF
      BY <2>5
    <3> HIDE DEF Gone
    <3> QED BY <3>1
  <2>7. Safe(heard, p.of) /\ Len(heard) <= Len(Sentences[p.of])
    BY <2>2, <2>3, <2>4, <2>5, <2>6, SafeLine
  <2>8. Len(heard) < MAXLINELENGTH
    <3>1. p.of \in DOMAIN Latitudes /\ Len(Sentences[p.of]) < MAXLINELENGTH
      BY DEF LinesFit, Places
    <3>2. Len(Sentences[p.of]) \in Nat /\ Len(heard) \in Nat
      BY <2>4, <3>1, SentenceFacts
    <3> QED BY <2>7, <3>1, <3>2, SizeTypes
  <2>9. String(lines'[currentline]) = SubSeq(heard, 1, Len(heard))
    BY <2>8, LineParsed
  <2>10. String(lines'[currentline]) = heard
    BY <2>4, <2>9, SubSeqFull
  <2>11. latitude' = Parsed(heard)
    BY <2>1, <2>10 DEF Pass, EndLine
  <2>12. Gone = <<>> /\ heard # <<>> /\ heard[1] = LF => Parsed(heard) = Latitudes[p.of]
    BY <2>2, <2>3, <2>4, WholeLine
  <2> QED BY <2>2, <2>7, <2>11, <2>12 DEF Safe
<1>3. Spec => []LossInv
  BY <1>1, Invariant, StreamInit, PTL DEF Spec
<1>4. Right = (LineEnds =>
                 LET gone == missing \o uart[1].after
                 IN  /\ gone = <<>> /\ heard # <<>> /\ heard[1] = LF =>
                          latitude' = Latitudes[uart[1].of]
                     /\ Len(gone) <= 1 /\ LF \notin {gone[i] : i \in DOMAIN gone} =>
                          latitude' \in {latitude, Latitudes[uart[1].of]})
  OBVIOUS
<1> QED BY <1>2, <1>3, <1>4, Invariant, PTL DEF Spec, OneLossIsSafe
=============================================================================
