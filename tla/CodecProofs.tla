----------------------------- MODULE CodecProofs ----------------------------
(***************************************************************************)
(* Theorems about the codec.  What is written of a field is read back,     *)
(* whatever its value and wherever in the buffer it stands, and a field    *)
(* that runs over the end of the buffer is noticed.  So is a message,      *)
(* field by field, and the Player takes it as a whole or not at all.       *)
(***************************************************************************)
EXTENDS Codec, SequenceTheorems, TLAPS

\* What a short and an int can be.
ShortRange == {n \in Int : -32768 <= n /\ n < 32768}
IntRange == {n \in Int : -2147483648 <= n /\ n < 2147483648}

\* The bytes of a field are in d, behind its first p.
StandsAt(d, p, field) ==
  /\ p \in Nat /\ Len(d) \in Nat /\ Len(field) \in Nat
  /\ p + Len(field) <= Len(d)
  /\ \A i \in 1..Len(field) : d[p + i] = field[i]

\* Two fields in a row.
LEMMA InARow ==
  ASSUME NEW a \in Seq(Byte), NEW b \in Seq(Byte), NEW d, NEW p, StandsAt(d, p, a \o b)
  PROVE  /\ StandsAt(d, p, a) /\ StandsAt(d, p + Len(a), b)
         /\ Len(a \o b) = Len(a) + Len(b)
<1>1. /\ Len(a \o b) = Len(a) + Len(b)
      /\ Len(a) \in Nat /\ Len(b) \in Nat
      /\ \A i \in 1..Len(a) : (a \o b)[i] = a[i]
      /\ \A i \in 1..Len(b) : (a \o b)[Len(a) + i] = b[i]
  OBVIOUS
<1>2. /\ p \in Nat /\ Len(d) \in Nat /\ p + Len(a \o b) <= Len(d)
      /\ \A i \in 1..Len(a \o b) : d[p + i] = (a \o b)[i]
  BY DEF StandsAt
<1>3. StandsAt(d, p, a)
  BY <1>1, <1>2 DEF StandsAt
<1>4. ASSUME NEW i \in 1..Len(b)
      PROVE  d[(p + Len(a)) + i] = b[i]
  <2>1. Len(a) + i \in 1..Len(a \o b) /\ p + (Len(a) + i) = (p + Len(a)) + i
    BY <1>1, <1>2
  <2>. QED
    BY <1>1, <1>2, <2>1
<1>5. StandsAt(d, p + Len(a), b)
  BY <1>1, <1>2, <1>4 DEF StandsAt
<1>. QED
  BY <1>1, <1>3, <1>5

\* The part of d in which a field stands is the field.
LEMMA StandsAlone ==
  ASSUME NEW d \in Seq(Byte), NEW field \in Seq(Byte), NEW p, StandsAt(d, p, field)
  PROVE  SubSeq(d, p + 1, p + Len(field)) = field
<1>. DEFINE n == Len(field)
            part == SubSeq(d, p + 1, p + n)
<1>1. /\ p \in Nat /\ n \in Nat /\ p + n <= Len(d)
      /\ \A i \in 1..n : d[p + i] = field[i]
  BY DEF StandsAt
<1>. HIDE DEF n, Byte
<1>2. /\ part \in Seq(Byte) /\ Len(part) = n
      /\ \A i \in 1..n : part[i] = d[p + i]
  BY <1>1
<1>. HIDE DEF part
<1>3. \A i \in 1..n : part[i] = field[i]
  BY <1>1, <1>2
<1>4. part = field
  BY <1>2, <1>3 DEF n
<1>. QED
  BY <1>4 DEF part, n

LEMMA LowByte == \A n \in Int : n % 256 \in Byte
<1>1. \A n \in Int : n % 256 \in Int /\ 0 <= n % 256 /\ n % 256 < 256
  BY SMT
<1>2. \A n \in Int : 0 <= n /\ n < 256 => n \in Byte
  BY SMT DEF Byte
<1>. QED
  BY <1>1, <1>2

\* Two bytes make up a short: the sign is that of the higher.
LEMMA ShortArithmetic ==
  \A n \in ShortRange :
    n \in Int /\ n = Signed(((n \div 256) % 256) * 256 + (n % 256), 32768)
<1>1. \A n \in Int : -32768 <= n /\ n < 32768 =>
        LET u == ((n \div 256) % 256) * 256 + (n % 256)
        IN  n = IF u >= 32768 THEN u - 65536 ELSE u
  BY SMT
<1>2. \A n \in ShortRange : n \in Int /\ -32768 <= n /\ n < 32768
  BY SMT DEF ShortRange
<1>. QED
  BY <1>1, <1>2, SMT DEF Signed

\* Four bytes make up an int.
LEMMA IntArithmetic ==
  \A n \in IntRange :
    LET high == (n \div 65536) % 65536
        low == n % 65536
    IN  /\ n \in Int /\ high \in Int /\ low \in Int
        /\ n = Signed((high \div 256) % 256, 128) * 16777216 + (high % 256) * 65536
                + ((low \div 256) % 256) * 256 + (low % 256)
<1>1. \A n \in Int : -2147483648 <= n /\ n < 2147483648 =>
        LET a == (((n \div 65536) % 65536) \div 256) % 256
            b == ((n \div 65536) % 65536) % 256
            c == ((n % 65536) \div 256) % 256
            d == (n % 65536) % 256
        IN n = (IF a >= 128 THEN a - 256 ELSE a) * 16777216 + b * 65536 + c * 256 + d
  BY SMT
<1>2. \A n \in IntRange : n \in Int /\ -2147483648 <= n /\ n < 2147483648
  BY SMT DEF IntRange
<1>. QED
  BY <1>1, <1>2, SMT DEF Signed

LEMMA ShortBytesShape ==
  ASSUME NEW n \in Int
  PROVE  /\ ShortBytes(n) \in Seq(Byte) /\ Len(ShortBytes(n)) = 2
         /\ ShortBytes(n)[1] = (n \div 256) % 256 /\ ShortBytes(n)[2] = n % 256
<1>1. n \div 256 \in Int
  BY SMT
<1>2. (n \div 256) % 256 \in Byte /\ n % 256 \in Byte
  BY <1>1, LowByte
<1>. HIDE DEF Byte
<1>. QED
  BY <1>2 DEF ShortBytes

\* A short is read back, with its sign, wherever in a message it stands.
\* Code: Buffer::writeShort and readShort.
THEOREM ShortsReadBack ==
  ASSUME NEW n \in ShortRange, NEW d, NEW p, StandsAt(d, p, ShortBytes(n))
  PROVE  ReadShort(d, p) = Got(n, p + 2)
<1>1. n \in Int /\ p \in Nat /\ Len(d) \in Nat
  BY ShortArithmetic DEF StandsAt
<1>2. /\ ~(p + 2 > Len(d))
      /\ d[p + 1] = (n \div 256) % 256 /\ d[p + 2] = n % 256
  <2>. DEFINE field == ShortBytes(n)
  <2>1. Len(field) = 2 /\ field[1] = (n \div 256) % 256 /\ field[2] = n % 256
    BY <1>1, ShortBytesShape
  <2>. HIDE DEF field
  <2>2. StandsAt(d, p, field)
    BY DEF field
  <2>. QED
    BY <1>1, <2>1, <2>2 DEF StandsAt
<1>3. Signed(d[p + 1] * 256 + d[p + 2], 32768) = n
  BY <1>2, ShortArithmetic, SMT
<1>. QED
  BY <1>2, <1>3, SMT DEF ReadShort

\* An int is read back, with its sign, wherever in a message it stands.
\* Code: Buffer::writeInt and readInt.
THEOREM IntsReadBack ==
  ASSUME NEW n \in IntRange, NEW d, NEW p, StandsAt(d, p, IntBytes(n))
  PROVE  ReadInt(d, p) = Got(n, p + 4)
<1>. DEFINE high == (n \div 65536) % 65536
            low == n % 65536
            front == ShortBytes(high)
            back == ShortBytes(low)
<1>1. high \in Int /\ low \in Int
  BY IntArithmetic, SMT
<1>2. n = Signed((high \div 256) % 256, 128) * 16777216 + (high % 256) * 65536
            + ((low \div 256) % 256) * 256 + (low % 256)
  BY IntArithmetic, SMT
<1>3. StandsAt(d, p, front \o back)
  BY DEF IntBytes
<1>. HIDE DEF high, low
<1>4. /\ front \in Seq(Byte) /\ Len(front) = 2
      /\ front[1] = (high \div 256) % 256 /\ front[2] = high % 256
  BY <1>1, ShortBytesShape
<1>5. /\ back \in Seq(Byte) /\ Len(back) = 2
      /\ back[1] = (low \div 256) % 256 /\ back[2] = low % 256
  BY <1>1, ShortBytesShape
<1>. HIDE DEF front, back
<1>6. StandsAt(d, p, front) /\ StandsAt(d, p + 2, back)
  BY <1>3, <1>4, <1>5, InARow
<1>7. p \in Nat /\ d[p + 1] = front[1] /\ d[p + 2] = front[2]
  BY <1>4, <1>6 DEF StandsAt
<1>8. ~(p + 4 > Len(d)) /\ d[(p + 2) + 1] = back[1] /\ d[(p + 2) + 2] = back[2]
  BY <1>5, <1>6, <1>7 DEF StandsAt
<1>9. d[p + 3] = back[1] /\ d[p + 4] = back[2]
  BY <1>7, <1>8
<1>10. Signed(d[p + 1], 128) * 16777216 + d[p + 2] * 65536 + d[p + 3] * 256 + d[p + 4] = n
  BY <1>2, <1>4, <1>5, <1>7, <1>9, SMT
<1>. QED
  BY <1>8, <1>10, SMT DEF ReadInt

\* An array of chars is read back, to the last, wherever in a message it stands,
\* as long as its length is a short.  Code: Buffer::writeBytes and readBytes.
THEOREM ArraysReadBack ==
  ASSUME NEW s \in Seq(Byte), Len(s) \in ShortRange,
         NEW d, NEW p, StandsAt(d, p, ArrayBytes(s))
  PROVE  ReadBytes(d, p) = Got(s, (p + 2) + Len(s))
<1>. DEFINE n == Len(s)
<1>1. n \in Nat /\ ShortBytes(n) \in Seq(Byte) /\ Len(ShortBytes(n)) = 2
  BY ShortArithmetic, ShortBytesShape
<1>2. StandsAt(d, p, ShortBytes(n)) /\ StandsAt(d, p + 2, s)
  BY <1>1, InARow DEF ArrayBytes
<1>3. ReadShort(d, p) = Got(n, p + 2)
  BY <1>2, ShortsReadBack
<1>4. /\ p \in Nat /\ Len(d) \in Nat /\ (p + 2) + n <= Len(d)
      /\ \A i \in 1..n : d[(p + 2) + i] = s[i]
  BY <1>2 DEF StandsAt
<1>5. [i \in 1..n |-> IF (p + 2) + i <= Len(d) THEN d[(p + 2) + i] ELSE 0] = s
  <2>1. \A i \in 1..n : (p + 2) + i <= Len(d)
    BY <1>1, <1>4
  <2>2. s = [i \in 1..n |-> s[i]]
    OBVIOUS
  <2>. QED
    BY <1>4, <2>1, <2>2
<1>6. ~(n < 0 \/ n > Len(d))
  BY <1>1, <1>4
<1>. HIDE DEF n
<1>7. LET r == ReadShort(d, p) IN r.ok = TRUE /\ r.value = n /\ r.pos = p + 2
  BY <1>3 DEF Got
<1>8. ReadBytes(d, p) = Got(s, (p + 2) + n)
  BY <1>5, <1>6, <1>7 DEF ReadBytes
<1>. QED
  BY <1>8 DEF n

(***************************************************************************)
(* Strings: every char is two bytes.                                       *)
(***************************************************************************)

ZeroAnd(s) == [i \in 1..2 * Len(s) |-> IF i % 2 = 1 THEN 0 ELSE s[i \div 2]]
HighAndLow(s) ==
  [i \in 1..2 * Len(s) |-> IF i % 2 = 1 THEN s[(i + 1) \div 2] \div 256
                                        ELSE s[i \div 2] % 256]

\* The bytes of char i are those at 2i - 1 and 2i.
LEMMA ZeroAndShape ==
  ASSUME NEW s \in Seq(Byte)
  PROVE  /\ ZeroAnd(s) \in Seq(Byte) /\ Len(ZeroAnd(s)) = 2 * Len(s)
         /\ \A i \in 1..Len(s) :
              2 * i \in 1..2 * Len(s) /\ ZeroAnd(s)[2 * i] = s[i]
<1>. DEFINE n == Len(s)
<1>1. n \in Nat /\ \A i \in 1..n : s[i] \in Byte
  OBVIOUS
<1>2. 0 \in Byte
  BY DEF Byte
<1>. HIDE DEF n, Byte
<1>3. ASSUME NEW i \in 1..2 * n
      PROVE  (IF i % 2 = 1 THEN 0 ELSE s[i \div 2]) \in Byte
  <2>1. i % 2 # 1 => i \div 2 \in 1..n
    BY <1>1
  <2>. QED
    BY <1>1, <1>2, <2>1
<1>4. ZeroAnd(s) \in [1..2 * n -> Byte] /\ 2 * n \in Nat
  BY <1>1, <1>3 DEF ZeroAnd, n
<1>5. ZeroAnd(s) \in Seq(Byte) /\ Len(ZeroAnd(s)) = 2 * n
  BY <1>4, SeqDef
<1>6. ASSUME NEW i \in 1..n
      PROVE  2 * i \in 1..2 * n /\ ZeroAnd(s)[2 * i] = s[i]
  <2>1. 2 * i \in 1..2 * n /\ (2 * i) % 2 = 0 /\ (2 * i) \div 2 = i
    BY <1>1
  <2>. QED
    BY <2>1 DEF ZeroAnd, n
<1>. QED
  BY <1>5, <1>6 DEF n

\* The two bytes of a UTF-16 character.
LEMMA CharArithmetic ==
  \A c \in Unit :
    /\ c \in Nat
    /\ c \div 256 \in Byte /\ c % 256 \in Byte /\ (c \div 256) * 256 + (c % 256) = c
<1>1. \A c \in Unit : c \in Nat /\ c < 65536
  BY DEF Unit
<1>2. \A c \in Nat : c < 65536 => 0 <= c \div 256 /\ c \div 256 < 256
  BY SMT
<1>4. \A c \in Nat : c \div 256 \in Int /\ (c \div 256) * 256 + (c % 256) = c
  BY SMT
<1>3. \A n \in Int : 0 <= n /\ n < 256 => n \in Byte
  BY SMT DEF Byte
<1>. HIDE DEF Byte
<1>. QED
  BY <1>1, <1>2, <1>3, <1>4, LowByte

LEMMA HighAndLowShape ==
  ASSUME NEW s \in Seq(Unit)
  PROVE  /\ HighAndLow(s) \in Seq(Byte) /\ Len(HighAndLow(s)) = 2 * Len(s)
         /\ \A i \in 1..Len(s) :
              /\ 2 * i - 1 \in 1..2 * Len(s) /\ 2 * i \in 1..2 * Len(s)
              /\ HighAndLow(s)[2 * i - 1] * 256 + HighAndLow(s)[2 * i] = s[i]
<1>. DEFINE n == Len(s)
<1>1. n \in Nat /\ \A i \in 1..n : s[i] \in Unit
  OBVIOUS
<1>2. \A c \in Unit :
        c \div 256 \in Byte /\ c % 256 \in Byte /\ (c \div 256) * 256 + (c % 256) = c
  BY CharArithmetic
<1>. HIDE DEF n, Byte
<1>3. ASSUME NEW i \in 1..2 * n
      PROVE  (IF i % 2 = 1 THEN s[(i + 1) \div 2] \div 256 ELSE s[i \div 2] % 256) \in Byte
  <2>1. CASE i % 2 = 1
    <3>1. (i + 1) \div 2 \in 1..n
      BY <1>1, <2>1
    <3>. QED
      BY <1>1, <1>2, <2>1, <3>1
  <2>2. CASE i % 2 # 1
    <3>1. i \div 2 \in 1..n
      BY <1>1, <2>2
    <3>. QED
      BY <1>1, <1>2, <2>2, <3>1
  <2>. QED
    BY <2>1, <2>2
<1>4. HighAndLow(s) \in [1..2 * n -> Byte] /\ 2 * n \in Nat
  BY <1>1, <1>3 DEF HighAndLow, n
<1>5. HighAndLow(s) \in Seq(Byte) /\ Len(HighAndLow(s)) = 2 * n
  BY <1>4, SeqDef
<1>6. ASSUME NEW i \in 1..n
      PROVE  /\ 2 * i - 1 \in 1..2 * n /\ 2 * i \in 1..2 * n
             /\ HighAndLow(s)[2 * i - 1] * 256 + HighAndLow(s)[2 * i] = s[i]
  <2>1. /\ 2 * i \in 1..2 * n /\ (2 * i) % 2 = 0 /\ (2 * i) \div 2 = i
        /\ 2 * i - 1 \in 1..2 * n /\ (2 * i - 1) % 2 = 1 /\ ((2 * i - 1) + 1) \div 2 = i
    BY <1>1
  <2>2. HighAndLow(s)[2 * i - 1] = s[i] \div 256 /\ HighAndLow(s)[2 * i] = s[i] % 256
    BY <2>1 DEF HighAndLow, n
  <2>3. (s[i] \div 256) * 256 + (s[i] % 256) = s[i]
    BY <1>1, <1>2
  <2>. QED
    BY <2>1, <2>2, <2>3
<1>. QED
  BY <1>5, <1>6 DEF n

\* A string is read back, to the last char, wherever in a message it stands, as
\* long as its reader takes one of its length.
\* Code: Buffer::writeString and readString.
THEOREM StringsReadBack ==
  ASSUME NEW s \in Seq(Byte), Len(s) \in ShortRange, NEW max, Len(s) <= max,
         max \in Nat,
         NEW d, NEW p, StandsAt(d, p, StringBytes(s))
  PROVE  ReadString(d, p, max) = Got(s, (p + 2) + 2 * Len(s))
<1>. DEFINE n == Len(s)
            wide == ZeroAnd(s)
<1>1. n \in Nat /\ ShortBytes(n) \in Seq(Byte) /\ Len(ShortBytes(n)) = 2
  BY ShortArithmetic, ShortBytesShape
<1>2. /\ wide \in Seq(Byte) /\ Len(wide) = 2 * n
      /\ \A i \in 1..n : 2 * i \in 1..2 * n /\ wide[2 * i] = s[i]
  BY ZeroAndShape
<1>3. StandsAt(d, p, ShortBytes(n) \o wide)
  BY DEF StringBytes, ZeroAnd
<1>. HIDE DEF wide, Byte
<1>4. StandsAt(d, p, ShortBytes(n)) /\ StandsAt(d, p + 2, wide)
  BY <1>1, <1>2, <1>3, InARow
<1>5. ReadShort(d, p) = Got(n, p + 2)
  BY <1>4, ShortsReadBack
<1>6. /\ p \in Nat /\ Len(d) \in Nat /\ (p + 2) + 2 * n <= Len(d)
      /\ \A i \in 1..2 * n : d[(p + 2) + i] = wide[i]
  BY <1>2, <1>4 DEF StandsAt
<1>7. [i \in 1..n |-> d[(p + 2) + 2 * i]] = s
  <2>1. \A i \in 1..n : d[(p + 2) + 2 * i] = s[i]
    BY <1>2, <1>6
  <2>2. s = [i \in 1..n |-> s[i]]
    OBVIOUS
  <2>. QED
    BY <2>1, <2>2
<1>8. n \in 0..max /\ ~((p + 2) + 2 * n > Len(d))
  BY <1>1, <1>6
<1>. HIDE DEF n
<1>9. LET r == ReadShort(d, p) IN r.ok = TRUE /\ r.value = n /\ r.pos = p + 2
  BY <1>5 DEF Got
<1>10. ReadString(d, p, max) = Got(s, (p + 2) + 2 * n)
  BY <1>7, <1>8, <1>9 DEF ReadString
<1>. QED
  BY <1>10 DEF n

\* A text in UTF-16 is what the client reads, to the last character.
\* Code: Buffer::writeUTF16String.
THEOREM TextsReadBack ==
  ASSUME NEW s \in Seq(Unit), Len(s) \in ShortRange,
         NEW d, NEW p, StandsAt(d, p, TextBytes(s))
  PROVE  ReadText(d, p) = Got(s, (p + 2) + 2 * Len(s))
<1>. DEFINE n == Len(s)
            wide == HighAndLow(s)
<1>1. n \in Nat /\ ShortBytes(n) \in Seq(Byte) /\ Len(ShortBytes(n)) = 2
  BY ShortArithmetic, ShortBytesShape
<1>2. /\ wide \in Seq(Byte) /\ Len(wide) = 2 * n
      /\ \A i \in 1..n : /\ 2 * i - 1 \in 1..2 * n /\ 2 * i \in 1..2 * n
                         /\ wide[2 * i - 1] * 256 + wide[2 * i] = s[i]
  BY HighAndLowShape
<1>3. StandsAt(d, p, ShortBytes(n) \o wide)
  BY DEF TextBytes, HighAndLow
<1>4. s = [i \in 1..n |-> s[i]]
  OBVIOUS
<1>. HIDE DEF wide, Byte
<1>5. StandsAt(d, p, ShortBytes(n)) /\ StandsAt(d, p + 2, wide)
  BY <1>1, <1>2, <1>3, InARow
<1>6. ReadShort(d, p) = Got(n, p + 2)
  BY <1>5, ShortsReadBack
<1>7. /\ p \in Nat /\ Len(d) \in Nat /\ (p + 2) + 2 * n <= Len(d)
      /\ \A i \in 1..2 * n : d[(p + 2) + i] = wide[i]
  BY <1>2, <1>5 DEF StandsAt
<1>8. [i \in 1..n |-> d[(p + 2) + 2 * i - 1] * 256 + d[(p + 2) + 2 * i]] = s
  <2>1. ASSUME NEW i \in 1..n
        PROVE  d[(p + 2) + 2 * i - 1] * 256 + d[(p + 2) + 2 * i] = s[i]
    <3>1. (p + 2) + 2 * i - 1 = (p + 2) + (2 * i - 1)
      BY <1>1, <1>7
    <3>2. d[(p + 2) + 2 * i - 1] = wide[2 * i - 1] /\ d[(p + 2) + 2 * i] = wide[2 * i]
      BY <1>2, <1>7, <3>1
    <3>. QED
      BY <1>2, <3>2
  <2>. QED
    BY <1>4, <2>1, Zenon
<1>9. ~(n < 0 \/ (p + 2) + 2 * n > Len(d))
  BY <1>1, <1>7
<1>. HIDE DEF n
<1>10. LET r == ReadShort(d, p) IN r.ok = TRUE /\ r.value = n /\ r.pos = p + 2
  BY <1>6 DEF Got
<1>11. ReadText(d, p) = Got(s, (p + 2) + 2 * n)
  BY <1>8, <1>9, <1>10 DEF ReadText
<1>. QED
  BY <1>11 DEF n

(***************************************************************************)
(* Fields: what is written of one is read back, and what is missing of one *)
(* is noticed.                                                             *)
(***************************************************************************)

LEMMA TypesAre ==
  /\ Types = {"byte", "bool", "int", "double", "string7", "string16", "string255",
              "text", "bytes"}
  /\ StringTypes = {"string7", "string16", "string255"}
  /\ \A t \in StringTypes : MaxString[t] \in Nat /\ MaxString[t] <= 255
BY DEF Types, Valid, StringTypes, MaxString

LEMMA ValidAre ==
  /\ Valid["byte"] = Byte /\ Valid["bool"] = BOOLEAN
  /\ Valid["double"] = [1..8 -> Byte]
  /\ Valid["int"] = IntRange
  /\ \A t \in StringTypes : Valid[t] = Texts(Byte, MaxString[t])
  /\ Valid["text"] = Texts(Unit, MaxShort) /\ Valid["bytes"] = Texts(Byte, MaxShort)
<1>1. IntRange = {n \in Int : -2147483647 - 1 <= n /\ n <= 2147483647}
  BY SMT DEF IntRange
<1>. HIDE DEF Byte, IntRange
<1>. QED
  BY <1>1, TypesAre DEF Valid, MaxString

\* Which functions write and read a field of each type.
LEMMA BytesAre ==
  ASSUME NEW v
  PROVE  /\ Bytes("byte", v) = <<v>>
         /\ Bytes("bool", v) = IF v THEN <<1>> ELSE <<0>>
         /\ Bytes("int", v) = IntBytes(v)
         /\ Bytes("double", v) = v
         /\ \A t \in StringTypes : Bytes(t, v) = StringBytes(v)
         /\ Bytes("text", v) = TextBytes(v)
         /\ Bytes("bytes", v) = ArrayBytes(v)
BY TypesAre DEF Bytes

LEMMA ReadsAre ==
  ASSUME NEW d, NEW p
  PROVE  /\ Read("byte", d, p) = ReadByte(d, p)
         /\ Read("bool", d, p) = ReadBool(d, p)
         /\ Read("int", d, p) = ReadInt(d, p)
         /\ Read("double", d, p) = ReadDouble(d, p)
         /\ \A t \in StringTypes : Read(t, d, p) = ReadString(d, p, MaxString[t])
         /\ Read("text", d, p) = ReadText(d, p)
         /\ Read("bytes", d, p) = ReadBytes(d, p)
BY TypesAre DEF Read

LEMMA TextsFit ==
  ASSUME NEW S, NEW max \in Nat, max <= MaxShort, NEW s \in Texts(S, max)
  PROVE  /\ s \in Seq(S) /\ Len(s) \in Nat /\ Len(s) <= max
         /\ Len(s) \in ShortRange
<1>1. s \in Seq(S) /\ Len(s) <= max
  BY DEF Texts
<1>2. Len(s) \in Nat
  BY <1>1
<1>. QED
  BY <1>1, <1>2, SMT DEF ShortRange, MaxShort

\* What can be sent: only a string can be more than its reader takes.
LEMMA SendableAre ==
  /\ \A t \in StringTypes : t \in Types /\ Sendable[t] = Texts(Byte, MaxShort)
  /\ \A t \in Types : t \notin StringTypes => Sendable[t] = Valid[t]
<1>1. \A t \in StringTypes : t \in Types
  BY TypesAre
<1>. HIDE DEF Types, StringTypes, Byte, MaxShort
<1>. QED
  BY <1>1 DEF Sendable

LEMMA ShortEnough ==
  ASSUME NEW t \in Types, NEW v \in Sendable[t],
         ~(t \in StringTypes /\ Len(v) > MaxString[t])
  PROVE  v \in Valid[t]
<1>1. CASE t \in StringTypes
  <2>1. v \in Seq(Byte) /\ Len(v) \in Nat
    BY <1>1, SendableAre DEF Texts
  <2>2. MaxString[t] \in Nat /\ Valid[t] = Texts(Byte, MaxString[t])
    BY <1>1, TypesAre, ValidAre
  <2>. DEFINE max == MaxString[t]
  <2>3. Len(v) <= max /\ Valid[t] = Texts(Byte, max)
    BY <1>1, <2>1, <2>2
  <2>. HIDE DEF max, Byte
  <2>. QED
    BY <2>1, <2>3 DEF Texts
<1>2. CASE t \notin StringTypes
  BY <1>2, SendableAre
<1>. QED
  BY <1>1, <1>2

LEMMA Joined ==
  ASSUME NEW S, NEW a \in Seq(S), NEW b \in Seq(S)
  PROVE  a \o b \in Seq(S) /\ Len(a \o b) = Len(a) + Len(b)
OBVIOUS

\* A function of that many arguments is a sequence.
LEMMA FunctionIsSeq ==
  ASSUME NEW S, NEW n \in Nat, NEW f \in [1..n -> S]
  PROVE  f \in Seq(S) /\ Len(f) = n
BY SeqDef

LEMMA IntBytesShape ==
  ASSUME NEW n \in Int
  PROVE  IntBytes(n) \in Seq(Byte) /\ Len(IntBytes(n)) = 4
<1>1. (n \div 65536) % 65536 \in Int /\ n % 65536 \in Int
  BY SMT
<1>. DEFINE front == ShortBytes((n \div 65536) % 65536)
            back == ShortBytes(n % 65536)
<1>2. /\ front \in Seq(Byte) /\ Len(front) = 2
      /\ back \in Seq(Byte) /\ Len(back) = 2
  BY <1>1, ShortBytesShape
<1>3. IntBytes(n) = front \o back
  BY DEF IntBytes
<1>. HIDE DEF Byte, front, back
<1>4. front \o back \in Seq(Byte) /\ Len(front \o back) = Len(front) + Len(back)
  BY <1>2, Joined
<1>5. Len(front) + Len(back) = 4
  BY <1>2
<1>. QED
  BY <1>3, <1>4, <1>5

\* A string and a text are a short and two bytes for each character.
LEMMA StringShape ==
  ASSUME NEW s \in Seq(Byte)
  PROVE  /\ StringBytes(s) = ShortBytes(Len(s)) \o ZeroAnd(s)
         /\ ShortBytes(Len(s)) \in Seq(Byte) /\ Len(ShortBytes(Len(s))) = 2
         /\ ZeroAnd(s) \in Seq(Byte) /\ Len(ZeroAnd(s)) = 2 * Len(s)
         /\ StringBytes(s) \in Seq(Byte) /\ Len(StringBytes(s)) = 2 + 2 * Len(s)
<1>1. StringBytes(s) = ShortBytes(Len(s)) \o ZeroAnd(s)
  BY DEF StringBytes, ZeroAnd
<1>2. /\ ShortBytes(Len(s)) \in Seq(Byte) /\ Len(ShortBytes(Len(s))) = 2
      /\ ZeroAnd(s) \in Seq(Byte) /\ Len(ZeroAnd(s)) = 2 * Len(s)
  BY ShortBytesShape, ZeroAndShape
<1>. QED
  BY <1>1, <1>2, Joined

LEMMA TextShape ==
  ASSUME NEW s \in Seq(Unit)
  PROVE  /\ TextBytes(s) = ShortBytes(Len(s)) \o HighAndLow(s)
         /\ ShortBytes(Len(s)) \in Seq(Byte) /\ Len(ShortBytes(Len(s))) = 2
         /\ HighAndLow(s) \in Seq(Byte) /\ Len(HighAndLow(s)) = 2 * Len(s)
         /\ TextBytes(s) \in Seq(Byte) /\ Len(TextBytes(s)) = 2 + 2 * Len(s)
<1>1. TextBytes(s) = ShortBytes(Len(s)) \o HighAndLow(s)
  BY DEF TextBytes, HighAndLow
<1>2. /\ ShortBytes(Len(s)) \in Seq(Byte) /\ Len(ShortBytes(Len(s))) = 2
      /\ HighAndLow(s) \in Seq(Byte) /\ Len(HighAndLow(s)) = 2 * Len(s)
  BY ShortBytesShape, HighAndLowShape
<1>. QED
  BY <1>1, <1>2, Joined

\* What is written of a field is bytes.
LEMMA FieldShape ==
  ASSUME NEW t \in Types, NEW v \in Valid[t]
  PROVE  Bytes(t, v) \in Seq(Byte)
<1>1. 0 \in Byte /\ 1 \in Byte
  BY DEF Byte
<1>. HIDE DEF Byte
<1>2. CASE t = "byte"
  <2>1. v \in Byte /\ Bytes(t, v) = <<v>>
    BY <1>2, BytesAre, ValidAre
  <2>. QED
    BY <2>1
<1>3. CASE t = "bool"
  <2>1. v \in BOOLEAN /\ Bytes(t, v) = IF v THEN <<1>> ELSE <<0>>
    BY <1>3, BytesAre, ValidAre
  <2>2. <<1>> \in Seq(Byte) /\ <<0>> \in Seq(Byte)
    BY <1>1
  <2>. QED
    BY <2>1, <2>2, Zenon
<1>4. CASE t = "int"
  BY <1>4, BytesAre, ValidAre, IntBytesShape DEF IntRange
<1>5. CASE t = "double"
  <2>1. v \in [1..8 -> Byte]
    BY <1>5, ValidAre
  <2>2. v \in Seq(Byte)
    BY <2>1, FunctionIsSeq, Zenon
  <2>3. Bytes(t, v) = v
    BY <1>5, BytesAre
  <2>. QED
    BY <2>2, <2>3
<1>6. CASE t \in StringTypes
  <2>1. v \in Seq(Byte) /\ Len(v) \in Nat
    BY <1>6, ValidAre, TypesAre, TextsFit DEF MaxShort
  <2>2. StringBytes(v) \in Seq(Byte)
    BY <2>1, StringShape
  <2>3. Bytes(t, v) = StringBytes(v)
    BY <1>6, BytesAre
  <2>. QED
    BY <2>2, <2>3
<1>7. CASE t = "text"
  <2>1. v \in Seq(Unit) /\ Len(v) \in Nat
    BY <1>7, ValidAre, TextsFit DEF MaxShort
  <2>2. TextBytes(v) \in Seq(Byte)
    BY <2>1, TextShape
  <2>3. Bytes(t, v) = TextBytes(v)
    BY <1>7, BytesAre
  <2>. QED
    BY <2>2, <2>3
<1>8. CASE t = "bytes"
  <2>1. v \in Seq(Byte) /\ Len(v) \in Nat
    BY <1>8, ValidAre, TextsFit DEF MaxShort
  <2>2. ShortBytes(Len(v)) \in Seq(Byte)
    BY <2>1, ShortBytesShape
  <2>3. ArrayBytes(v) \in Seq(Byte)
    BY <2>1, <2>2 DEF ArrayBytes
  <2>4. Bytes(t, v) = ArrayBytes(v)
    BY <1>8, BytesAre
  <2>. QED
    BY <2>3, <2>4
<1>. QED
  BY <1>2, <1>3, <1>4, <1>5, <1>6, <1>7, <1>8, TypesAre

\* So is what is sent of a string that is too long.
LEMMA SentShape ==
  ASSUME NEW t \in Types, NEW v \in Sendable[t]
  PROVE  Bytes(t, v) \in Seq(Byte)
<1>. HIDE DEF Byte
<1>1. CASE t \in StringTypes
  <2>1. v \in Seq(Byte)
    BY <1>1, SendableAre DEF Texts
  <2>2. Bytes(t, v) = StringBytes(v)
    BY <1>1, BytesAre
  <2>. QED
    BY <2>1, <2>2, StringShape
<1>2. CASE t \notin StringTypes
  BY <1>2, SendableAre, FieldShape
<1>. QED
  BY <1>1, <1>2

\* A string that is too long is read as an empty one.  Code: Buffer::readString.
THEOREM LongStringsRefused ==
  ASSUME NEW t \in StringTypes, NEW v \in Sendable[t], Len(v) > MaxString[t],
         NEW d \in Seq(Byte), NEW p, StandsAt(d, p, Bytes(t, v))
  PROVE  Read(t, d, p) = Got(<<>>, p + 2)
<1>. DEFINE n == Len(v)
            max == MaxString[t]
<1>1. v \in Texts(Byte, MaxShort) /\ MaxShort \in Nat
  BY SendableAre DEF MaxShort
<1>2. v \in Seq(Byte) /\ n \in Nat /\ n \in ShortRange
  BY <1>1, TextsFit DEF MaxShort
<1>3. Bytes(t, v) = StringBytes(v) /\ Read(t, d, p) = ReadString(d, p, max)
  BY BytesAre, ReadsAre
<1>4. max \in Nat /\ n > max
  BY TypesAre
<1>. HIDE DEF max, Byte
<1>5. StandsAt(d, p, ShortBytes(n))
  <2>1. /\ StringBytes(v) = ShortBytes(n) \o ZeroAnd(v)
        /\ ShortBytes(n) \in Seq(Byte) /\ ZeroAnd(v) \in Seq(Byte)
    BY <1>2, StringShape
  <2>. HIDE DEF n
  <2>. QED
    BY <1>3, <2>1, InARow
<1>. HIDE DEF n
<1>6. ReadShort(d, p) = Got(n, p + 2)
  BY <1>2, <1>5, ShortsReadBack
<1>7. LET r == ReadShort(d, p) IN r.ok = TRUE /\ r.value = n /\ r.pos = p + 2
  BY <1>6 DEF Got
<1>8. n \notin 0..max
  BY <1>2, <1>4
<1>. QED
  BY <1>3, <1>7, <1>8 DEF ReadString

\* Every field is read back as it was written, wherever in a message it stands,
\* and reading it ends where it does.  Code: Buffer's functions, in pairs.
THEOREM FieldsReadBack ==
  ASSUME NEW t \in Types, NEW v \in Valid[t], NEW d \in Seq(Byte), NEW p,
         StandsAt(d, p, Bytes(t, v))
  PROVE  Read(t, d, p) = Got(v, p + Len(Bytes(t, v)))
<1>1. p \in Nat /\ Len(d) \in Nat
  BY DEF StandsAt
<1>. HIDE DEF Byte
<1>2. CASE t = "byte"
  <2>1. Bytes(t, v) = <<v>> /\ Read(t, d, p) = ReadByte(d, p)
    BY <1>2, BytesAre, ReadsAre
  <2>2. Len(<<v>>) = 1 /\ <<v>>[1] = v /\ StandsAt(d, p, <<v>>)
    BY <2>1
  <2>3. p + 1 <= Len(d) /\ d[p + 1] = v
    BY <2>2 DEF StandsAt
  <2>4. ReadByte(d, p) = Got(v, p + 1)
    BY <1>1, <2>3 DEF ReadByte
  <2>. QED
    BY <2>1, <2>2, <2>4
<1>3. CASE t = "bool"
  <2>. DEFINE b == IF v THEN 1 ELSE 0
  <2>1. /\ v \in BOOLEAN /\ Bytes(t, v) = IF v THEN <<1>> ELSE <<0>>
        /\ Read(t, d, p) = ReadBool(d, p)
    BY <1>3, BytesAre, ReadsAre, ValidAre
  <2>2. Bytes(t, v) = <<b>>
    BY <2>1
  <2>3. (b # 0) = v
    BY <2>1
  <2>. HIDE DEF b
  <2>4. Len(<<b>>) = 1 /\ <<b>>[1] = b /\ StandsAt(d, p, <<b>>)
    BY <2>2
  <2>5. p + 1 <= Len(d) /\ d[p + 1] = b
    BY <2>4 DEF StandsAt
  <2>6. ReadByte(d, p) = Got(b, p + 1)
    BY <1>1, <2>5 DEF ReadByte
  <2>7. LET r == ReadByte(d, p) IN r.ok = TRUE /\ r.value = b /\ r.pos = p + 1
    BY <2>6 DEF Got
  <2>8. ReadBool(d, p) = Got(b # 0, p + 1)
    BY <2>7 DEF ReadBool
  <2>. QED
    BY <2>1, <2>2, <2>3, <2>4, <2>8
<1>4. CASE t = "int"
  <2>1. /\ v \in IntRange /\ Bytes(t, v) = IntBytes(v)
        /\ Read(t, d, p) = ReadInt(d, p)
    BY <1>4, BytesAre, ReadsAre, ValidAre
  <2>2. Len(IntBytes(v)) = 4
    BY <2>1, IntBytesShape DEF IntRange
  <2>. QED
    BY <2>1, <2>2, IntsReadBack
<1>5. CASE t = "double"
  <2>1. /\ v \in [1..8 -> Byte] /\ Bytes(t, v) = v
        /\ Read(t, d, p) = ReadDouble(d, p)
    BY <1>5, BytesAre, ReadsAre, ValidAre
  <2>2. v \in Seq(Byte) /\ Len(v) = 8
    BY <2>1, FunctionIsSeq, Zenon
  <2>3. StandsAt(d, p, v)
    BY <2>1
  <2>4. p + 8 <= Len(d)
    BY <2>2, <2>3 DEF StandsAt
  <2>5. SubSeq(d, p + 1, p + 8) = v
    BY <2>2, <2>3, StandsAlone
  <2>6. ReadDouble(d, p) = Got(v, p + 8)
    <3>1. ~(p + 8 > Len(d))
      BY <1>1, <2>4
    <3>. QED
      BY <2>5, <3>1, Zenon DEF ReadDouble
  <2>. QED
    BY <2>1, <2>2, <2>6
<1>6. CASE t \in StringTypes
  <2>. DEFINE max == MaxString[t]
  <2>1. /\ v \in Texts(Byte, max) /\ Bytes(t, v) = StringBytes(v)
        /\ Read(t, d, p) = ReadString(d, p, max)
        /\ max \in Nat /\ max <= 255
    BY <1>6, BytesAre, ReadsAre, ValidAre, TypesAre
  <2>. HIDE DEF max
  <2>2. v \in Seq(Byte) /\ Len(v) \in Nat /\ Len(v) <= max /\ Len(v) \in ShortRange
    BY <2>1, TextsFit DEF MaxShort
  <2>3. ReadString(d, p, max) = Got(v, (p + 2) + 2 * Len(v))
    BY <2>1, <2>2, StringsReadBack
  <2>4. Len(StringBytes(v)) = 2 + 2 * Len(v)
    BY <2>2, StringShape
  <2>5. (p + 2) + 2 * Len(v) = p + (2 + 2 * Len(v))
    BY <1>1, <2>2
  <2>. QED
    BY <2>1, <2>3, <2>4, <2>5
<1>7. CASE t = "text"
  <2>1. /\ v \in Texts(Unit, MaxShort) /\ Bytes(t, v) = TextBytes(v)
        /\ Read(t, d, p) = ReadText(d, p)
    BY <1>7, BytesAre, ReadsAre, ValidAre
  <2>2. v \in Seq(Unit) /\ Len(v) \in Nat /\ Len(v) \in ShortRange
    BY <2>1, TextsFit DEF MaxShort
  <2>3. ReadText(d, p) = Got(v, (p + 2) + 2 * Len(v))
    BY <2>1, <2>2, TextsReadBack
  <2>4. Len(TextBytes(v)) = 2 + 2 * Len(v)
    BY <2>2, TextShape
  <2>5. (p + 2) + 2 * Len(v) = p + (2 + 2 * Len(v))
    BY <1>1, <2>2
  <2>. QED
    BY <2>1, <2>3, <2>4, <2>5
<1>8. CASE t = "bytes"
  <2>1. /\ v \in Texts(Byte, MaxShort) /\ Bytes(t, v) = ArrayBytes(v)
        /\ Read(t, d, p) = ReadBytes(d, p)
    BY <1>8, BytesAre, ReadsAre, ValidAre
  <2>2. v \in Seq(Byte) /\ Len(v) \in Nat /\ Len(v) \in ShortRange
    BY <2>1, TextsFit DEF MaxShort
  <2>3. ReadBytes(d, p) = Got(v, (p + 2) + Len(v))
    BY <2>1, <2>2, ArraysReadBack
  <2>4. Len(ArrayBytes(v)) = 2 + Len(v)
    <3>1. ShortBytes(Len(v)) \in Seq(Byte) /\ Len(ShortBytes(Len(v))) = 2
      BY <2>2, ShortBytesShape
    <3>2. ArrayBytes(v) = ShortBytes(Len(v)) \o v
      BY DEF ArrayBytes
    <3>. QED
      BY <2>2, <3>1, <3>2, Joined
  <2>5. (p + 2) + Len(v) = p + (2 + Len(v))
    BY <1>1, <2>2
  <2>. QED
    BY <2>1, <2>3, <2>4, <2>5
<1>. QED
  BY <1>2, <1>3, <1>4, <1>5, <1>6, <1>7, <1>8, TypesAre

\* Behind the first s bytes of d lie the first n of w.
Holds(d, s, n, w) ==
  /\ d \in Seq(Byte) /\ w \in Seq(Byte)
  /\ s \in Nat /\ n \in Nat
  /\ n <= Len(w) /\ s + n <= Len(d)
  /\ \A i \in 1..n : d[s + i] = w[i]

\* A field that came stands where it came to.
LEMMA CameStands ==
  ASSUME NEW w, NEW d, NEW s, NEW n, Holds(d, s, n, w), NEW p, NEW field \in Seq(Byte),
         StandsAt(w, p, field), p + Len(field) <= n
  PROVE  StandsAt(d, s + p, field)
<1>. HIDE DEF Byte
<1>1. /\ s \in Nat /\ n \in Nat /\ Len(d) \in Nat /\ s + n <= Len(d)
      /\ \A i \in 1..n : d[s + i] = w[i]
  BY DEF Holds
<1>2. /\ p \in Nat /\ Len(field) \in Nat
      /\ \A i \in 1..Len(field) : w[p + i] = field[i]
  BY DEF StandsAt
<1>3. ASSUME NEW i \in 1..Len(field)
      PROVE  d[(s + p) + i] = field[i]
  <2>1. p + i \in 1..n /\ (s + p) + i = s + (p + i)
    BY <1>1, <1>2
  <2>. QED
    BY <1>1, <1>2, <2>1
<1>. QED
  BY <1>1, <1>2, <1>3 DEF StandsAt

\* Of a string or a text the length may be missing, or only what it counts.
LEMMA MissingChars ==
  ASSUME NEW k \in Nat, k \in ShortRange, NEW chars \in Seq(Byte), Len(chars) = 2 * k,
         NEW w, NEW d, NEW s, NEW n, Holds(d, s, n, w), s + n = Len(d),
         NEW p, StandsAt(w, p, ShortBytes(k) \o chars), n < p + (2 + 2 * k)
  PROVE  \/ ReadShort(d, s + p) = Underflow
         \/ ReadShort(d, s + p) = Got(k, (s + p) + 2) /\ ((s + p) + 2) + 2 * k > Len(d)
<1>. DEFINE count == ShortBytes(k)
<1>1. k \in Int
  OBVIOUS
<1>2. count \in Seq(Byte) /\ Len(count) = 2
  BY <1>1, ShortBytesShape
<1>3. StandsAt(w, p, count) /\ p \in Nat /\ Len(d) \in Nat /\ s \in Nat /\ n \in Nat
  <2>. HIDE DEF count, Byte
  <2>1. StandsAt(w, p, count \o chars)
    BY DEF count
  <2>2. StandsAt(w, p, count)
    BY <1>2, <2>1, InARow
  <2>. QED
    BY <2>2 DEF StandsAt, Holds
<1>4. CASE (s + p) + 2 > Len(d)
  BY <1>4 DEF ReadShort
<1>5. CASE ~((s + p) + 2 > Len(d))
  <2>. HIDE DEF Byte
  <2>1. p + Len(count) <= n
    BY <1>2, <1>3, <1>5
  <2>2. StandsAt(d, s + p, count)
    BY <1>2, <1>3, <2>1, CameStands
  <2>3. ReadShort(d, s + p) = Got(k, (s + p) + 2)
    BY <2>2, ShortsReadBack
  <2>4. ((s + p) + 2) + 2 * k > Len(d)
    BY <1>3
  <2>. QED
    BY <2>3, <2>4
<1>. QED
  BY <1>4, <1>5

\* A field that runs over the end of the buffer is not read.  Char arrays are
\* excepted.  Code: the checks of Buffer's read functions.
THEOREM MissingIsNoticed ==
  ASSUME NEW t \in Types, t # "bytes", NEW v \in Valid[t],
         NEW w, NEW d, NEW s, NEW n, Holds(d, s, n, w), s + n = Len(d),
         NEW p, StandsAt(w, p, Bytes(t, v)), n < p + Len(Bytes(t, v))
  PROVE  Read(t, d, s + p) = Underflow
<1>1. /\ p \in Nat /\ s \in Nat /\ n \in Nat /\ s + n = Len(d)
      /\ Len(d) \in Nat /\ d \in Seq(Byte)
  BY DEF StandsAt, Holds
<1>. HIDE DEF Byte
<1>2. CASE t = "byte"
  <2>1. Bytes(t, v) = <<v>> /\ Read(t, d, s + p) = ReadByte(d, s + p) /\ Len(<<v>>) = 1
    BY <1>2, BytesAre, ReadsAre
  <2>2. s + p >= Len(d)
    BY <1>1, <2>1
  <2>. QED
    BY <2>1, <2>2 DEF ReadByte
<1>3. CASE t = "bool"
  <2>1. Bytes(t, v) = (IF v THEN <<1>> ELSE <<0>>) /\ Read(t, d, s + p) = ReadBool(d, s + p)
    BY <1>3, BytesAre, ReadsAre
  <2>2. Len(Bytes(t, v)) = 1
    BY <2>1
  <2>3. s + p >= Len(d)
    BY <1>1, <2>2
  <2>4. ReadByte(d, s + p) = Underflow
    BY <2>3 DEF ReadByte
  <2>. QED
    BY <2>1, <2>4 DEF ReadBool, Underflow
<1>4. CASE t = "int"
  <2>1. v \in Int /\ Bytes(t, v) = IntBytes(v) /\ Read(t, d, s + p) = ReadInt(d, s + p)
    BY <1>4, BytesAre, ReadsAre, ValidAre DEF IntRange
  <2>2. Len(IntBytes(v)) = 4
    BY <2>1, IntBytesShape
  <2>3. (s + p) + 4 > Len(d)
    BY <1>1, <2>1, <2>2
  <2>. QED
    BY <2>1, <2>3 DEF ReadInt
<1>5. CASE t = "double"
  <2>1. /\ v \in [1..8 -> Byte] /\ Bytes(t, v) = v
        /\ Read(t, d, s + p) = ReadDouble(d, s + p)
    BY <1>5, BytesAre, ReadsAre, ValidAre
  <2>. DEFINE eight == 8
  <2>2. Len(v) = eight
    <3>1. eight \in Nat
      OBVIOUS
    <3>. HIDE DEF eight
    <3>2. v \in [1..eight -> Byte]
      BY <2>1 DEF eight
    <3>. QED
      BY <3>1, <3>2, FunctionIsSeq
  <2>3. (s + p) + 8 > Len(d)
    <3>1. n < p + Len(v)
      BY <2>1
    <3>. QED
      BY <1>1, <2>2, <3>1
  <2>. QED
    BY <2>1, <2>3, Zenon DEF ReadDouble
<1>7. CASE t \in StringTypes
  <2>. DEFINE max == MaxString[t]
              k == Len(v)
  <2>1. /\ v \in Texts(Byte, max) /\ Bytes(t, v) = StringBytes(v)
        /\ Read(t, d, s + p) = ReadString(d, s + p, max)
        /\ max \in Nat /\ max <= 255
    BY <1>7, BytesAre, ReadsAre, ValidAre, TypesAre
  <2>. HIDE DEF max
  <2>2. v \in Seq(Byte) /\ k \in Nat /\ k <= max /\ k \in ShortRange
    BY <2>1, TextsFit DEF MaxShort
  <2>3. \/ ReadShort(d, s + p) = Underflow
        \/ ReadShort(d, s + p) = Got(k, (s + p) + 2) /\ ((s + p) + 2) + 2 * k > Len(d)
    <3>1. /\ Bytes(t, v) = ShortBytes(k) \o ZeroAnd(v)
          /\ ZeroAnd(v) \in Seq(Byte) /\ Len(ZeroAnd(v)) = 2 * k
          /\ Len(Bytes(t, v)) = 2 + 2 * k
      BY <2>1, <2>2, StringShape
    <3>2. StandsAt(w, p, ShortBytes(k) \o ZeroAnd(v)) /\ n < p + (2 + 2 * k)
      BY <3>1
    <3>. HIDE DEF k
    <3>. QED
      BY <2>2, <3>1, <3>2, MissingChars
  <2>. HIDE DEF k
  <2>4. CASE ReadShort(d, s + p) = Underflow
    BY <2>1, <2>4 DEF ReadString, Underflow
  <2>5. CASE ReadShort(d, s + p) = Got(k, (s + p) + 2) /\ ((s + p) + 2) + 2 * k > Len(d)
    <3>1. LET r == ReadShort(d, s + p) IN r.ok = TRUE /\ r.value = k /\ r.pos = (s + p) + 2
      BY <2>5 DEF Got
    <3>2. k \in 0..max
      BY <2>1, <2>2
    <3>. QED
      BY <2>1, <2>5, <3>1, <3>2 DEF ReadString
  <2>. QED
    BY <2>3, <2>4, <2>5
<1>8. CASE t = "text"
  <2>. DEFINE k == Len(v)
  <2>1. /\ v \in Texts(Unit, MaxShort) /\ Bytes(t, v) = TextBytes(v)
        /\ Read(t, d, s + p) = ReadText(d, s + p)
    BY <1>8, BytesAre, ReadsAre, ValidAre
  <2>2. v \in Seq(Unit) /\ k \in Nat /\ k \in ShortRange
    BY <2>1, TextsFit DEF MaxShort
  <2>3. \/ ReadShort(d, s + p) = Underflow
        \/ ReadShort(d, s + p) = Got(k, (s + p) + 2) /\ ((s + p) + 2) + 2 * k > Len(d)
    <3>1. /\ Bytes(t, v) = ShortBytes(k) \o HighAndLow(v)
          /\ HighAndLow(v) \in Seq(Byte) /\ Len(HighAndLow(v)) = 2 * k
          /\ Len(Bytes(t, v)) = 2 + 2 * k
      BY <2>1, <2>2, TextShape
    <3>2. StandsAt(w, p, ShortBytes(k) \o HighAndLow(v)) /\ n < p + (2 + 2 * k)
      BY <3>1
    <3>. HIDE DEF k
    <3>. QED
      BY <2>2, <3>1, <3>2, MissingChars
  <2>. HIDE DEF k
  <2>4. CASE ReadShort(d, s + p) = Underflow
    BY <2>1, <2>4 DEF ReadText, Underflow
  <2>5. CASE ReadShort(d, s + p) = Got(k, (s + p) + 2) /\ ((s + p) + 2) + 2 * k > Len(d)
    <3>1. LET r == ReadShort(d, s + p) IN r.ok = TRUE /\ r.value = k /\ r.pos = (s + p) + 2
      BY <2>5 DEF Got
    <3>. QED
      BY <2>1, <2>5, <3>1 DEF ReadText
  <2>. QED
    BY <2>3, <2>4, <2>5
<1>. QED
  BY <1>2, <1>3, <1>4, <1>5, <1>7, <1>8, TypesAre

LEMMA ShortsHold ==
  ASSUME NEW a \in Byte, NEW b \in Byte
  PROVE  /\ Signed(a * 256 + b, 32768) \in Int
         /\ Signed(a * 256 + b, 32768) \in ShortRange
         /\ a * 256 + b \in Unit
<1>1. \A x \in Byte : x \in Int /\ 0 <= x /\ x < 256
  BY DEF Byte
<1>. HIDE DEF Byte
<1>2. a \in Int /\ 0 <= a /\ a < 256 /\ b \in Int /\ 0 <= b /\ b < 256
  BY <1>1
<1>3. a * 256 + b \in Int /\ 0 <= a * 256 + b /\ a * 256 + b < 65536
  BY <1>2, SMT
<1>4. \A n \in Int : 0 <= n /\ n < 65536 =>
        /\ n \in Unit
        /\ Signed(n, 32768) \in Int /\ Signed(n, 32768) \in ShortRange
  BY SMT DEF Signed, ShortRange, Unit
<1>. QED
  BY <1>3, <1>4

\* Where a read ends is a place, whatever the bytes are.
LEMMA ShortEnds ==
  ASSUME NEW d \in Seq(Byte), NEW p \in Nat
  PROVE  \/ ReadShort(d, p) = Underflow
         \/ \E n \in Int : n \in ShortRange /\ ReadShort(d, p) = Got(n, p + 2)
<1>1. CASE p + 2 > Len(d)
  BY <1>1 DEF ReadShort
<1>2. CASE ~(p + 2 > Len(d))
  <2>1. d[p + 1] \in Byte /\ d[p + 2] \in Byte
    <3>. HIDE DEF Byte
    <3>1. p + 1 \in 1..Len(d) /\ p + 2 \in 1..Len(d)
      BY <1>2
    <3>. QED
      BY <3>1
  <2>. DEFINE v == Signed(d[p + 1] * 256 + d[p + 2], 32768)
  <2>2. v \in Int /\ v \in ShortRange
    <3>. DEFINE a == d[p + 1]
                b == d[p + 2]
    <3>1. a \in Byte /\ b \in Byte
      BY <2>1
    <3>. HIDE DEF a, b, Byte
    <3>2. /\ Signed(a * 256 + b, 32768) \in Int
          /\ Signed(a * 256 + b, 32768) \in ShortRange
      BY <3>1, ShortsHold
    <3>. QED
      BY <3>2 DEF a, b
  <2>3. ReadShort(d, p) = Got(v, p + 2)
    BY <1>2 DEF ReadShort
  <2>. HIDE DEF v
  <2>. QED
    BY <2>2, <2>3
<1>. QED
  BY <1>1, <1>2

LEMMA ReadEnds ==
  ASSUME NEW t \in Types, NEW d \in Seq(Byte), NEW p \in Nat, Read(t, d, p).ok
  PROVE  Read(t, d, p).pos \in Nat
<1>1. ~Underflow.ok
  BY DEF Underflow
<1>2. \A v, q : Got(v, q).ok = TRUE /\ Got(v, q).value = v /\ Got(v, q).pos = q
  BY DEF Got
<1>3. CASE t = "byte"
  <2>1. Read(t, d, p) = ReadByte(d, p)
    BY <1>3, ReadsAre
  <2>. QED
    BY <1>1, <1>2, <2>1 DEF ReadByte
<1>4. CASE t = "bool"
  <2>1. Read(t, d, p) = ReadBool(d, p)
    BY <1>4, ReadsAre
  <2>2. ReadByte(d, p) = Underflow \/ ReadByte(d, p) = Got(d[p + 1], p + 1)
    BY DEF ReadByte
  <2>3. ReadBool(d, p).ok => ReadBool(d, p).pos = p + 1
    <3>1. CASE ReadByte(d, p) = Underflow
      BY <1>1, <3>1 DEF ReadBool
    <3>2. CASE ReadByte(d, p) = Got(d[p + 1], p + 1)
      <4>1. LET r == ReadByte(d, p)
            IN  r.ok = TRUE /\ r.value = d[p + 1] /\ r.pos = p + 1
        BY <3>2 DEF Got
      <4>2. ReadBool(d, p) = Got(d[p + 1] # 0, p + 1)
        BY <4>1 DEF ReadBool
      <4>. QED
        BY <4>2 DEF Got
    <3>. QED
      BY <2>2, <3>1, <3>2
  <2>. QED
    BY <2>1, <2>3
<1>5. CASE t = "int"
  <2>1. Read(t, d, p) = ReadInt(d, p)
    BY <1>5, ReadsAre
  <2>. QED
    BY <1>1, <1>2, <2>1 DEF ReadInt
<1>6. CASE t = "double"
  <2>1. Read(t, d, p) = ReadDouble(d, p)
    BY <1>6, ReadsAre
  <2>. QED
    BY <1>1, <1>2, <2>1 DEF ReadDouble
<1>7. ReadShort(d, p).ok =>
        ReadShort(d, p).pos = p + 2 /\ ReadShort(d, p).value \in Int
  BY <1>1, <1>2, ShortEnds
<1>8. CASE t \in StringTypes
  <2>. DEFINE max == MaxString[t]
  <2>1. Read(t, d, p) = ReadString(d, p, max) /\ max \in Nat
    BY <1>8, ReadsAre, TypesAre
  <2>. HIDE DEF max
  <2>2. ReadString(d, p, max).ok => ReadString(d, p, max).pos \in Nat
    <3>1. CASE ~ReadShort(d, p).ok
      BY <1>1, <3>1 DEF ReadString
    <3>2. CASE ReadShort(d, p).ok /\ ReadShort(d, p).value \notin 0..max
      BY <1>2, <1>7, <3>2 DEF ReadString
    <3>3. CASE ReadShort(d, p).ok /\ ReadShort(d, p).value \in 0..max
      BY <1>1, <1>2, <1>7, <2>1, <3>3 DEF ReadString
    <3>. QED
      BY <3>1, <3>2, <3>3
  <2>. QED
    BY <2>1, <2>2
<1>9. CASE t = "text"
  <2>1. Read(t, d, p) = ReadText(d, p)
    BY <1>9, ReadsAre
  <2>2. ReadText(d, p).ok => ReadText(d, p).pos \in Nat
    BY <1>1, <1>2, <1>7 DEF ReadText
  <2>. QED
    BY <2>1, <2>2
<1>10. CASE t = "bytes"
  <2>1. Read(t, d, p) = ReadBytes(d, p)
    BY <1>10, ReadsAre
  <2>2. ReadBytes(d, p).ok => ReadBytes(d, p).pos \in Nat
    BY <1>1, <1>2, <1>7 DEF ReadBytes
  <2>. QED
    BY <2>1, <2>2
<1>. QED
  BY <1>3, <1>4, <1>5, <1>6, <1>8, <1>9, <1>10, TypesAre

\* What a read yields has its type, whatever the bytes are.
LEMMA IntsHold ==
  ASSUME NEW a \in Byte, NEW b \in Byte, NEW c \in Byte, NEW e \in Byte
  PROVE  Signed(a, 128) * 16777216 + b * 65536 + c * 256 + e \in IntRange
<1>1. \A x \in Byte : x \in Int /\ 0 <= x /\ x < 256
  BY DEF Byte
<1>. HIDE DEF Byte
<1>. QED
  BY <1>1, SMT DEF Signed, IntRange

LEMMA ByteAt ==
  ASSUME NEW d \in Seq(Byte), NEW q \in Int, 1 <= q, q <= Len(d)
  PROVE  d[q] \in Byte
<1>. HIDE DEF Byte
<1>1. q \in 1..Len(d)
  OBVIOUS
<1>. QED
  BY <1>1

THEOREM ReadsHold ==
  ASSUME NEW t \in Types, NEW d \in Seq(Byte), NEW p \in Nat, Read(t, d, p).ok
  PROVE  Read(t, d, p).value \in Valid[t]
<1>1. ~Underflow.ok
  BY DEF Underflow
<1>2. \A v, q : Got(v, q).ok = TRUE /\ Got(v, q).value = v /\ Got(v, q).pos = q
  BY DEF Got
<1>3. /\ Len(d) \in Nat
      /\ \A q \in Int : 1 <= q /\ q <= Len(d) => d[q] \in Byte
  <2>. HIDE DEF Byte
  <2>1. Len(d) \in Nat
    OBVIOUS
  <2>. QED
    BY <2>1, ByteAt
<1>4. /\ 0 \in Byte
      /\ \A x \in Byte : x \in Int /\ 0 <= x /\ x < 256
  BY DEF Byte
<1>. HIDE DEF Byte
<1>5. ReadByte(d, p).ok => ReadByte(d, p).value \in Byte
  <2>1. CASE p >= Len(d)
    BY <1>1, <2>1 DEF ReadByte
  <2>2. CASE ~(p >= Len(d))
    <3>1. d[p + 1] \in Byte
      BY <1>3, <2>2
    <3>. QED
      BY <1>2, <2>2, <3>1 DEF ReadByte
  <2>. QED
    BY <2>1, <2>2
<1>6. CASE t = "byte"
  BY <1>5, <1>6, ReadsAre, ValidAre
<1>7. CASE t = "bool"
  <2>1. Read(t, d, p) = ReadBool(d, p) /\ Valid[t] = BOOLEAN
    BY <1>7, ReadsAre, ValidAre
  <2>2. CASE ReadByte(d, p).ok
    <3>1. LET r == ReadByte(d, p) IN ReadBool(d, p) = Got(r.value # 0, r.pos)
      BY <2>2 DEF ReadBool
    <3>2. ReadBool(d, p).value \in BOOLEAN
      BY <1>2, <3>1
    <3>. QED
      BY <2>1, <3>2
  <2>3. CASE ~ReadByte(d, p).ok
    BY <2>1, <2>3 DEF ReadBool
  <2>. QED
    BY <2>2, <2>3
<1>8. CASE t = "int"
  <2>1. Read(t, d, p) = ReadInt(d, p) /\ Valid[t] = IntRange
    BY <1>8, ReadsAre, ValidAre
  <2>2. ~(p + 4 > Len(d))
    BY <1>1, <2>1 DEF ReadInt
  <2>3. d[p + 1] \in Byte /\ d[p + 2] \in Byte /\ d[p + 3] \in Byte /\ d[p + 4] \in Byte
    BY <1>3, <2>2
  <2>4. Signed(d[p + 1], 128) * 16777216 + d[p + 2] * 65536 + d[p + 3] * 256 + d[p + 4]
          \in IntRange
    BY <2>3, IntsHold
  <2>5. ReadInt(d, p).value \in IntRange
    <3>. DEFINE v == Signed(d[p + 1], 128) * 16777216 + d[p + 2] * 65536
                       + d[p + 3] * 256 + d[p + 4]
    <3>1. ReadInt(d, p) = Got(v, p + 4)
      BY <2>2 DEF ReadInt
    <3>. HIDE DEF v
    <3>2. ReadInt(d, p).value = v
      BY <1>2, <3>1
    <3>. QED
      BY <2>4, <3>2 DEF v
  <2>. QED
    BY <2>1, <2>5
<1>9. CASE t = "double"
  <2>. DEFINE eight == 8
              part == SubSeq(d, p + 1, p + eight)
  <2>1. Read(t, d, p) = ReadDouble(d, p) /\ Valid[t] = [1..eight -> Byte]
    BY <1>9, ReadsAre, ValidAre
  <2>2. ~(p + eight > Len(d))
    BY <1>1, <2>1 DEF ReadDouble
  <2>3. ReadDouble(d, p) = Got(part, p + eight)
    BY <2>2, Zenon DEF ReadDouble
  <2>4. eight \in Nat
    OBVIOUS
  <2>. HIDE DEF eight
  <2>5. part \in Seq(Byte) /\ Len(part) = eight
    BY <1>3, <2>2, <2>4
  <2>. HIDE DEF part
  <2>6. part \in [1..eight -> Byte]
    BY <2>5
  <2>7. ReadDouble(d, p).value = part
    BY <1>2, <2>3
  <2>. QED
    BY <2>1, <2>6, <2>7
<1>10. ReadShort(d, p).ok =>
         /\ ReadShort(d, p).pos = p + 2
         /\ ReadShort(d, p).value \in Int /\ ReadShort(d, p).value <= MaxShort
  <2>1. \A n \in ShortRange : n <= MaxShort
    BY DEF ShortRange, MaxShort
  <2>. HIDE DEF MaxShort
  <2>. QED
    BY <1>1, <1>2, <2>1, ShortEnds
<1>. DEFINE n == ReadShort(d, p)
            k == n.value
<1>11. CASE t \in StringTypes
  <2>. DEFINE max == MaxString[t]
              s == [i \in 1..k |-> d[n.pos + 2 * i]]
  <2>1. /\ Read(t, d, p) = ReadString(d, p, max) /\ max \in Nat
        /\ Valid[t] = Texts(Byte, max)
    BY <1>11, ReadsAre, TypesAre, ValidAre
  <2>. HIDE DEF max
  <2>2. n.ok
    BY <1>1, <2>1 DEF ReadString
  <2>3. CASE k \notin 0..max
    <3>1. ReadString(d, p, max) = Got(<<>>, n.pos)
      BY <2>2, <2>3 DEF ReadString
    <3>2. <<>> \in Texts(Byte, max)
      BY <2>1 DEF Texts
    <3>. QED
      BY <1>2, <2>1, <3>1, <3>2
  <2>4. CASE k \in 0..max
    <3>1. ~(n.pos + 2 * k > Len(d))
      BY <1>1, <2>1, <2>2, <2>4 DEF ReadString
    <3>2. ReadString(d, p, max) = Got(s, n.pos + 2 * k)
      BY <2>2, <2>4, <3>1 DEF ReadString
    <3>3. k \in Nat /\ k <= max /\ n.pos \in Nat
      BY <1>10, <2>1, <2>2, <2>4
    <3>4. \A i \in 1..k : d[n.pos + 2 * i] \in Byte
      BY <1>3, <3>1, <3>3
    <3>. HIDE DEF n, k
    <3>5. s \in [1..k -> Byte]
      BY <3>4
    <3>6. s \in Seq(Byte) /\ Len(s) = k
      BY <3>3, <3>5, FunctionIsSeq
    <3>. HIDE DEF s
    <3>7. s \in Texts(Byte, max)
      BY <3>3, <3>6 DEF Texts
    <3>. QED
      BY <1>2, <2>1, <3>2, <3>7
  <2>. QED
    BY <2>3, <2>4
<1>12. CASE t = "text"
  <2>. DEFINE s == [i \in 1..k |-> d[n.pos + 2 * i - 1] * 256 + d[n.pos + 2 * i]]
  <2>1. Read(t, d, p) = ReadText(d, p) /\ Valid[t] = Texts(Unit, MaxShort)
    BY <1>12, ReadsAre, ValidAre
  <2>2. n.ok /\ ~(k < 0 \/ n.pos + 2 * k > Len(d))
    BY <1>1, <2>1 DEF ReadText
  <2>3. ReadText(d, p) = Got(s, n.pos + 2 * k)
    BY <2>2 DEF ReadText
  <2>4. k \in Nat /\ k <= MaxShort /\ n.pos \in Nat
    BY <1>10, <2>2
  <2>5. ASSUME NEW i \in 1..k
        PROVE  d[n.pos + 2 * i - 1] * 256 + d[n.pos + 2 * i] \in Unit
    <3>1. d[n.pos + 2 * i - 1] \in Byte /\ d[n.pos + 2 * i] \in Byte
      BY <1>3, <2>2, <2>4
    <3>. QED
      BY <3>1, ShortsHold
  <2>. HIDE DEF n, k
  <2>6. s \in [1..k -> Unit]
    BY <2>5
  <2>7. s \in Seq(Unit) /\ Len(s) = k
    BY <2>4, <2>6, FunctionIsSeq
  <2>. HIDE DEF s, MaxShort
  <2>8. s \in Texts(Unit, MaxShort)
    BY <2>4, <2>7 DEF Texts
  <2>. QED
    BY <1>2, <2>1, <2>3, <2>8
<1>13. CASE t = "bytes"
  <2>. DEFINE s == [i \in 1..k |-> IF n.pos + i <= Len(d) THEN d[n.pos + i] ELSE 0]
  <2>1. Read(t, d, p) = ReadBytes(d, p) /\ Valid[t] = Texts(Byte, MaxShort)
    BY <1>13, ReadsAre, ValidAre
  <2>2. n.ok /\ ~(k < 0 \/ k > Len(d))
    BY <1>1, <2>1 DEF ReadBytes
  <2>3. ReadBytes(d, p) = Got(s, n.pos + k)
    BY <2>2 DEF ReadBytes
  <2>4. k \in Nat /\ k <= MaxShort /\ n.pos \in Nat
    BY <1>10, <2>2
  <2>5. \A i \in 1..k :
          (IF n.pos + i <= Len(d) THEN d[n.pos + i] ELSE 0) \in Byte
    BY <1>3, <1>4, <2>4
  <2>. HIDE DEF n, k
  <2>6. s \in [1..k -> Byte]
    BY <2>5
  <2>7. s \in Seq(Byte) /\ Len(s) = k
    BY <2>4, <2>6, FunctionIsSeq
  <2>. HIDE DEF s, MaxShort
  <2>8. s \in Texts(Byte, MaxShort)
    BY <2>4, <2>7 DEF Texts
  <2>. QED
    BY <1>2, <2>1, <2>3, <2>8
<1>. QED
  BY <1>6, <1>7, <1>8, <1>9, <1>11, <1>12, <1>13, TypesAre

(***************************************************************************)
(* Messages: the fields of a packet, one behind the other.                 *)
(***************************************************************************)

LEMMA RepeatShape ==
  ASSUME NEW t \in Types, NEW n \in Nat
  PROVE  /\ Repeat(t, n) \in Seq(Types) /\ Len(Repeat(t, n)) = n
         /\ \A i \in 1..n : Repeat(t, n)[i] = t
<1>. HIDE DEF Types
<1>1. Repeat(t, n) \in [1..n -> Types]
  BY DEF Repeat
<1>2. \A i \in 1..n : Repeat(t, n)[i] = t
  BY DEF Repeat
<1>. QED
  BY <1>1, <1>2, FunctionIsSeq, Zenon

LEMMA JoinedLayout ==
  ASSUME NEW a \in Seq(Types), NEW b \in Seq(Types), Len(a) \in Nat \ {0}
  PROVE  a \o b \in Seq(Types) /\ Len(a \o b) \in Nat \ {0}
<1>. HIDE DEF Types
<1>. QED
  OBVIOUS

LEMMA LayoutShape ==
  ASSUME NEW k \in AllKinds
  PROVE  Layout[k] \in Seq(Types) /\ Len(Layout[k]) \in Nat \ {0}
<1>. DEFINE Fits(s) == s \in Seq(Types) /\ Len(s) \in Nat \ {0}
<1>1. /\ "byte" \in Types /\ "bool" \in Types /\ "int" \in Types
      /\ "double" \in Types /\ "string7" \in Types /\ "string16" \in Types
      /\ "string255" \in Types /\ "text" \in Types /\ "bytes" \in Types
  BY TypesAre
<1>. HIDE DEF Types
<1>2. /\ Repeat("double", 4) \in Seq(Types) /\ Len(Repeat("double", 4)) = 4
      /\ Repeat("double", 6) \in Seq(Types) /\ Len(Repeat("double", 6)) = 6
      /\ Repeat("byte", 5) \in Seq(Types)
  <2>1. "double" \in Types /\ 4 \in Nat
    BY <1>1
  <2>2. Repeat("double", 4) \in Seq(Types) /\ Len(Repeat("double", 4)) = 4
    BY <2>1, RepeatShape, Zenon
  <2>3. "double" \in Types /\ 6 \in Nat
    BY <1>1
  <2>4. Repeat("double", 6) \in Seq(Types) /\ Len(Repeat("double", 6)) = 6
    BY <2>3, RepeatShape, Zenon
  <2>5. "byte" \in Types /\ 5 \in Nat
    BY <1>1
  <2>6. Repeat("byte", 5) \in Seq(Types)
    BY <2>5, RepeatShape, Zenon
  <2>. QED
    BY <2>2, <2>4, <2>6
<1>3. /\ Fits(ServerPingFields) /\ Fits(ClientProtocolFields) /\ Fits(SharedKeyFields)
      /\ Fits(ClientInfoFields) /\ Fits(KickFields) /\ Fits(AuthDataFields)
      /\ Fits(SpawnPointFields) /\ Fits(KeepAliveFields)
  <2>1. Fits(ServerPingFields)
    BY <1>1 DEF ServerPingFields
  <2>2. Fits(ClientProtocolFields)
    BY <1>1 DEF ClientProtocolFields
  <2>3. Fits(SharedKeyFields)
    BY <1>1 DEF SharedKeyFields
  <2>4. Fits(ClientInfoFields)
    BY <1>1 DEF ClientInfoFields
  <2>5. Fits(KickFields)
    BY <1>1 DEF KickFields
  <2>6. Fits(AuthDataFields)
    BY <1>1 DEF AuthDataFields
  <2>7. Fits(SpawnPointFields)
    BY <1>1 DEF SpawnPointFields
  <2>8. Fits(KeepAliveFields)
    BY <1>1 DEF KeepAliveFields
  <2>. QED
    BY <2>1, <2>2, <2>3, <2>4, <2>5, <2>6, <2>7, <2>8
<1>4. Fits(ClientPositionFields)
  <2>1. <<"bool">> \in Seq(Types)
    BY <1>1
  <2>. QED
    BY <1>2, <2>1, JoinedLayout DEF ClientPositionFields
<1>5. Fits(LoginFields)
  <2>1. /\ <<"byte", "int", "string16">> \in Seq(Types)
        /\ Len(<<"byte", "int", "string16">>) = 3
    BY <1>1
  <2>. QED
    BY <1>2, <2>1, JoinedLayout DEF LoginFields
<1>6. Fits(PositionFields)
  <2>1. <<"byte">> \in Seq(Types) /\ <<"bool">> \in Seq(Types) /\ Len(<<"byte">>) = 1
    BY <1>1
  <2>2. Fits(<<"byte">> \o Repeat("double", 6))
    BY <1>2, <2>1, JoinedLayout
  <2>. QED
    BY <2>1, <2>2, JoinedLayout DEF PositionFields
<1>. HIDE DEF Fits
<1>7. Fits(Layout[k])
  BY <1>3, <1>4, <1>5, <1>6, SMT DEF AllKinds, Layout
<1>. QED
  BY <1>7 DEF Fits

LEMMA OneMore ==
  ASSUME NEW S, NEW n \in Nat, NEW a \in [1..n -> S], NEW x \in S
  PROVE  /\ Len(a \o <<x>>) = n + 1
         /\ \A i \in 1..n : (a \o <<x>>)[i] = a[i]
         /\ (a \o <<x>>)[n + 1] = x
<1>1. a \in Seq(S) /\ Len(a) = n
  BY FunctionIsSeq
<1>2. a \o <<x>> = Append(a, x)
  BY <1>1
<1>. QED
  BY <1>1, <1>2

\* The fields of the two packets whose contents go to the Player.
LEMMA PlayerLayouts ==
  /\ Len(Layout["ClientInfo"]) = 5 /\ Len(Layout["ClientPosition"]) = 5
  /\ Layout["ClientInfo"][1] = "string7" /\ Layout["ClientInfo"][2] = "int"
  /\ Layout["ClientInfo"][3] = "int" /\ Layout["ClientInfo"][4] = "byte"
  /\ Layout["ClientInfo"][5] = "bool"
  /\ \A i \in 1..4 : Layout["ClientPosition"][i] = "double"
  /\ Layout["ClientPosition"][5] = "bool"
<1>1. Layout["ClientInfo"] = <<"string7", "int", "int", "byte", "bool">>
  BY DEF Layout, ClientInfoFields
<1>2. Layout["ClientPosition"] = Repeat("double", 4) \o <<"bool">>
  BY DEF Layout, ClientPositionFields
<1>. DEFINE doubles == Repeat("double", 4)
<1>3. /\ doubles \in [1..4 -> Types] /\ "bool" \in Types
      /\ \A i \in 1..4 : doubles[i] = "double"
  <2>1. "double" \in Types /\ "bool" \in Types
    BY TypesAre
  <2>. HIDE DEF Types
  <2>. QED
    BY <2>1 DEF Repeat
<1>. DEFINE four == 4
<1>4. four \in Nat /\ four + 1 = 5
  OBVIOUS
<1>. HIDE DEF doubles, Types, four
<1>5. /\ Len(doubles \o <<"bool">>) = four + 1
      /\ \A i \in 1..four : (doubles \o <<"bool">>)[i] = doubles[i]
      /\ (doubles \o <<"bool">>)[four + 1] = "bool"
  <2>1. doubles \in [1..four -> Types] /\ "bool" \in Types
    BY <1>3 DEF four
  <2>. QED
    BY <1>4, <2>1, OneMore
<1>6. \A i \in 1..4 : (doubles \o <<"bool">>)[i] = "double"
  BY <1>3, <1>5 DEF four
<1>. QED
  BY <1>1, <1>2, <1>4, <1>5, <1>6 DEF doubles

\* Where the fields of a message end in its bytes, the first behind es[0].
Laid(k, vs, w, es) ==
  /\ es \in [0..Len(vs) -> Nat]
  /\ es[0] = 0 /\ es[Len(vs)] = Len(w)
  /\ \A i \in 1..Len(vs) :
       LET field == Bytes(Layout[k][i], vs[i])
       IN  StandsAt(w, es[i - 1], field) /\ es[i] = es[i - 1] + Len(field)

IsSeq(s) == \E S : s \in Seq(S)
AnyValue == UNION {Sendable[t] : t \in Types}

LEMMA EmptySequence == \A S : <<>> \in Seq(S) /\ Len(<<>>) = 0
OBVIOUS

LEMMA LaidFirst ==
  ASSUME NEW k
  PROVE  Laid(k, <<>>, <<>>, [i \in {0} |-> 0])
<1>. DEFINE e == [i \in {0} |-> 0]
<1>1. Len(<<>>) = 0
  BY EmptySequence
<1>2. e \in [0..0 -> Nat] /\ e[0] = 0
  OBVIOUS
<1>. HIDE DEF e
<1>3. \A i \in 1..0 : FALSE
  OBVIOUS
<1>4. Laid(k, <<>>, <<>>, e)
  BY <1>1, <1>2, <1>3 DEF Laid
<1>. QED
  BY <1>4 DEF e

LEMMA StandsLonger ==
  ASSUME NEW w \in Seq(Byte), NEW b \in Seq(Byte)
  PROVE  /\ StandsAt(w \o b, Len(w), b)
         /\ \A p, field : StandsAt(w, p, field) => StandsAt(w \o b, p, field)
<1>. HIDE DEF Byte
<1>1. /\ Len(w \o b) = Len(w) + Len(b) /\ Len(w) \in Nat /\ Len(b) \in Nat
      /\ \A i \in 1..Len(w) : (w \o b)[i] = w[i]
      /\ \A i \in 1..Len(b) : (w \o b)[Len(w) + i] = b[i]
  OBVIOUS
<1>2. StandsAt(w \o b, Len(w), b)
  BY <1>1 DEF StandsAt
<1>3. ASSUME NEW p, NEW field, StandsAt(w, p, field)
      PROVE  StandsAt(w \o b, p, field)
  <2>1. /\ p \in Nat /\ Len(field) \in Nat /\ p + Len(field) <= Len(w)
        /\ \A i \in 1..Len(field) : w[p + i] = field[i]
    BY <1>3 DEF StandsAt
  <2>2. \A i \in 1..Len(field) : p + i \in 1..Len(w)
    BY <1>1, <2>1
  <2>3. \A i \in 1..Len(field) : (w \o b)[p + i] = field[i]
    BY <1>1, <2>1, <2>2
  <2>. QED
    BY <1>1, <2>1, <2>3 DEF StandsAt
<1>. QED
  BY <1>2, <1>3

\* One more field, with its bytes b.
NextField(k, S, vs, v, w, b, es, all, longer, e) ==
  /\ vs \in Seq(S) /\ v \in S /\ w \in Seq(Byte) /\ b \in Seq(Byte)
  /\ b = Bytes(Layout[k][Len(vs) + 1], v)
  /\ all = Append(vs, v) /\ longer = w \o b
  /\ e = [i \in 0..Len(vs) + 1 |-> IF i = Len(vs) + 1 THEN Len(longer) ELSE es[i]]

LEMMA LaidNext ==
  ASSUME NEW k, NEW S, NEW vs, NEW v, NEW w, NEW b, NEW es, NEW all, NEW longer, NEW e,
         Laid(k, vs, w, es), NextField(k, S, vs, v, w, b, es, all, longer, e)
  PROVE  Laid(k, all, longer, e)
<1>. USE DEF NextField
<1>. DEFINE n == Len(vs)
<1>1. /\ n \in Nat /\ Len(all) = n + 1 /\ all[n + 1] = v
      /\ \A i \in 1..n : all[i] = vs[i]
  OBVIOUS
<1>2. Len(longer) = Len(w) + Len(b) /\ Len(w) \in Nat /\ Len(b) \in Nat
  <2>. HIDE DEF Byte
  <2>. QED
    BY Joined
<1>3. /\ es \in [0..n -> Nat] /\ es[0] = 0 /\ es[n] = Len(w)
      /\ \A i \in 1..n : /\ StandsAt(w, es[i - 1], Bytes(Layout[k][i], vs[i]))
                         /\ es[i] = es[i - 1] + Len(Bytes(Layout[k][i], vs[i]))
  BY DEF Laid
<1>4. /\ StandsAt(longer, Len(w), b)
      /\ \A p, field : StandsAt(w, p, field) => StandsAt(longer, p, field)
  <2>. HIDE DEF Byte
  <2>. QED
    BY StandsLonger
<1>5. e \in [0..n + 1 -> Nat] /\ e[0] = 0 /\ e[n + 1] = Len(longer)
  <2>1. e = [i \in 0..n + 1 |-> IF i = n + 1 THEN Len(longer) ELSE es[i]]
    OBVIOUS
  <2>. HIDE DEF n
  <2>. QED
    BY <1>1, <1>2, <1>3, <2>1
<1>6. \A i \in 0..n : e[i] = es[i]
  BY <1>1
<1>9. b = Bytes(Layout[k][n + 1], v)
  OBVIOUS
<1>. HIDE DEF n
<1>7. ASSUME NEW i \in 1..n + 1
      PROVE  /\ StandsAt(longer, e[i - 1], Bytes(Layout[k][i], all[i]))
             /\ e[i] = e[i - 1] + Len(Bytes(Layout[k][i], all[i]))
  <2>1. CASE i = n + 1
    <3>1. i - 1 = n /\ n \in 0..n
      BY <1>1, <2>1
    <3>2. Bytes(Layout[k][i], all[i]) = b /\ e[i - 1] = Len(w)
      BY <1>1, <1>3, <1>6, <1>9, <2>1, <3>1
    <3>. QED
      BY <1>2, <1>4, <1>5, <2>1, <3>2
  <2>2. CASE i # n + 1
    <3>1. i \in 1..n /\ i \in 0..n /\ i - 1 \in 0..n
      BY <1>1, <2>2
    <3>2. all[i] = vs[i] /\ e[i] = es[i] /\ e[i - 1] = es[i - 1]
      BY <1>1, <1>6, <3>1
    <3>. QED
      BY <1>3, <1>4, <3>1, <3>2
  <2>. QED
    BY <2>1, <2>2
<1>. QED
  BY <1>1, <1>5, <1>7 DEF Laid

(***************************************************************************)
(* The state: as long as the bytes come and no string is refused, the      *)
(* reader is behind the writer, field by field.                            *)
(***************************************************************************)

WriteInv ==
  /\ kind \in Kinds
  /\ values \in Seq(AnyValue) /\ Len(values) <= Len(Layout[kind])
  /\ \A i \in 1..Len(values) : values[i] \in Values[Layout[kind][i]]
  /\ written \in Seq(Byte)
  /\ Laid(kind, values, written, ends)
  /\ arrived \in BOOLEAN
  /\ arrived => Written /\ Holds(data, start, came, written) /\ ToRead = Layout[kind]
  /\ ~arrived => /\ data = <<>> /\ got = <<>> /\ readPos = 0 /\ thrown = FALSE
                 /\ start = 0 /\ came = 0

\* The packet runs over the end of the buffer, and that is all that is wrong with it.
EndCut ==
  /\ came < Len(written) /\ start + came = Len(data)
  /\ \A i \in 1..Len(values) : Layout[kind][i] # "bytes" /\ ~Refused(i)

ReadInv ==
  /\ IsSeq(got) /\ Len(got) <= Len(values)
  /\ \A i \in 1..Len(got) : got[i] \in Valid[Layout[kind][i]]
  /\ readPos \in Nat /\ thrown \in BOOLEAN
  /\ Came(Len(got)) => readPos = start + ends[Len(got)]
  /\ \A i \in 1..Len(got) : Came(i) => got[i] = values[i]
  /\ \A i \in 1..Len(got) :
       Came(i - 1) /\ ends[i] <= came /\ Refused(i) => got[i] = <<>>
  /\ Whole => thrown = FALSE
  /\ EndCut => Came(Len(got))

PlayerType == [language : Seq(Byte), renderDistance : Int, showCape : BOOLEAN,
               location : [1..3 -> [1..8 -> Byte]]]

CodecInv ==
  /\ WriteInv /\ ReadInv
  /\ player \in PlayerType /\ SettingsAllOrNone /\ PlaceIsSent

\* The fields of a kind, and what they hold.
LEMMA FieldsHold ==
  ASSUME kind \in Kinds
  PROVE  /\ Layout[kind] \in Seq(Types) /\ Len(Layout[kind]) \in Nat \ {0}
         /\ \A i \in 1..Len(Layout[kind]) :
              /\ Layout[kind][i] \in Types
              /\ \A v \in Values[Layout[kind][i]] :
                   v \in Sendable[Layout[kind][i]] /\ v \in AnyValue
<1>1. kind \in AllKinds /\ \A t \in Types : Values[t] \subseteq Sendable[t]
  BY CodecAssumption
<1>. HIDE DEF Types, AllKinds
<1>2. Layout[kind] \in Seq(Types) /\ Len(Layout[kind]) \in Nat \ {0}
  BY <1>1, LayoutShape
<1>. DEFINE layout == Layout[kind]
<1>. HIDE DEF layout
<1>3. \A i \in 1..Len(layout) : layout[i] \in Types
  BY <1>2 DEF layout
<1>4. \A t \in Types : \A v \in Values[t] : v \in Sendable[t] /\ v \in AnyValue
  BY <1>1 DEF AnyValue
<1>. QED
  BY <1>2, <1>3, <1>4 DEF layout

\* Of a message of which the last field came, all fields came.
LEMMA CameAll ==
  ASSUME values \in Seq(AnyValue), written \in Seq(Byte),
         Laid(kind, values, written, ends)
  PROVE  /\ Len(values) \in Nat /\ ends[0] = 0 /\ ends[Len(values)] = Len(written)
         /\ \A i \in 0..Len(values) : ends[i] \in Nat /\ ends[i] <= Len(written)
         /\ \A i \in 1..Len(values) : ends[i - 1] \in Nat /\ ends[i - 1] <= ends[i]
<1>. HIDE DEF Byte, AnyValue
<1>1. /\ Len(values) \in Nat /\ Len(written) \in Nat
      /\ ends \in [0..Len(values) -> Nat] /\ ends[0] = 0 /\ ends[Len(values)] = Len(written)
  BY DEF Laid
<1>2. ASSUME NEW i \in 1..Len(values)
      PROVE  ends[i] <= Len(written) /\ ends[i - 1] <= ends[i] /\ ends[i - 1] \in Nat
  <2>. DEFINE field == Bytes(Layout[kind][i], values[i])
  <2>1. StandsAt(written, ends[i - 1], field) /\ ends[i] = ends[i - 1] + Len(field)
    BY DEF Laid
  <2>. HIDE DEF field
  <2>. QED
    BY <1>1, <2>1 DEF StandsAt
<1>3. ASSUME NEW i \in 0..Len(values)
      PROVE  ends[i] \in Nat /\ ends[i] <= Len(written)
  <2>1. CASE i = 0
    BY <1>1, <2>1
  <2>2. CASE i # 0
    <3>1. i \in 1..Len(values)
      BY <1>1, <2>2
    <3>. QED
      BY <1>1, <1>2, <3>1
  <2>. QED
    BY <2>1, <2>2
<1>. QED
  BY <1>1, <1>2, <1>3

LEMMA CodecInit ==
  ASSUME Init
  PROVE  CodecInv
<1>1. /\ kind \in Kinds /\ values = <<>> /\ written = <<>> /\ ends = [i \in {0} |-> 0]
      /\ arrived = FALSE /\ start = 0 /\ came = 0 /\ data = <<>>
      /\ readPos = 0 /\ got = <<>> /\ thrown = FALSE
      /\ player = NewPlayer
  BY DEF Init
<1>2. Len(Layout[kind]) \in Nat
  BY <1>1, FieldsHold
<1>3. Len(<<>>) = 0 /\ ends[0] = 0
  BY <1>1, EmptySequence
<1>. HIDE DEF Byte, AnyValue
<1>4. WriteInv
  <2>1. values \in Seq(AnyValue) /\ Len(values) = 0 /\ written \in Seq(Byte)
    BY <1>1, EmptySequence
  <2>2. Len(values) <= Len(Layout[kind]) /\ \A i \in 1..Len(values) : FALSE
    BY <1>2, <2>1
  <2>3. Laid(kind, values, written, ends)
    BY <1>1, LaidFirst
  <2>. QED
    BY <1>1, <2>1, <2>2, <2>3 DEF WriteInv
<1>5. ReadInv
  <2>1. IsSeq(got)
    BY <1>1, EmptySequence DEF IsSeq
  <2>2. Len(got) = 0 /\ Len(values) = 0 /\ \A i \in 1..Len(got) : FALSE
    BY <1>1, <1>3
  <2>3. Came(0)
    BY <1>1, <1>3 DEF Came
  <2>. QED
    BY <1>1, <1>3, <2>1, <2>2, <2>3 DEF ReadInv
<1>6. NewPlayer \in PlayerType
  <2>1. Repeat(0, 8) \in [1..8 -> Byte]
    <3>1. 0 \in Byte
      BY DEF Byte
    <3>. QED
      BY <3>1 DEF Repeat
  <2>. DEFINE zero == Repeat(0, 8)
              double == [1..8 -> Byte]
  <2>2. Origin = <<zero, zero, zero>>
    BY DEF Origin, Place
  <2>3. zero \in double
    BY <2>1
  <2>. HIDE DEF zero, double
  <2>4. <<zero, zero, zero>> \in [1..3 -> double]
    BY <2>3
  <2>5. <<>> \in Seq(Byte) /\ 20 \in Int /\ TRUE \in BOOLEAN
    OBVIOUS
  <2>. QED
    BY <2>2, <2>4, <2>5 DEF NewPlayer, PlayerType, double
<1>7. SettingsAllOrNone /\ PlaceIsSent
  BY <1>1 DEF SettingsAllOrNone, PlaceIsSent, NewPlayer
<1>. QED
  BY <1>1, <1>4, <1>5, <1>6, <1>7 DEF CodecInv

\* Before a packet was read to its end the Player is as it was.
LEMMA PlayerAsItWas ==
  ASSUME CodecInv, ~Done, player' = player
  PROVE  player' \in PlayerType /\ SettingsAllOrNone' /\ PlaceIsSent'
BY DEF CodecInv, SettingsAllOrNone, PlaceIsSent, NewPlayer

\* Nothing is read before a message has come, and none comes before it is written.
LEMMA WriteFieldInv ==
  ASSUME CodecInv, WriteField
  PROVE  CodecInv'
<1>. DEFINE n == Len(values)
            type == Layout[kind][n + 1]
<1>1. ~Written /\ UNCHANGED <<kind, arrived, start, came, data, readPos, got, thrown, player>>
  BY DEF WriteField, reader, arrival
<1>2. PICK v \in Values[type] :
        /\ values' = Append(values, v)
        /\ written' = written \o Bytes(type, v)
        /\ ends' = [i \in 0..n + 1 |-> IF i = n + 1 THEN Len(written') ELSE ends[i]]
  BY DEF WriteField
<1>3. WriteInv /\ ReadInv
  BY DEF CodecInv
<1>4. /\ kind \in Kinds /\ values \in Seq(AnyValue) /\ n <= Len(Layout[kind])
      /\ \A i \in 1..n : values[i] \in Values[Layout[kind][i]]
      /\ written \in Seq(Byte) /\ arrived = FALSE
      /\ Laid(kind, values, written, ends)
      /\ data = <<>> /\ got = <<>> /\ readPos = 0 /\ thrown = FALSE
      /\ start = 0 /\ came = 0
  BY <1>1, <1>3 DEF WriteInv
<1>. HIDE DEF Byte, AnyValue
<1>5. n \in Nat /\ Len(Layout[kind]) \in Nat /\ n + 1 \in 1..Len(Layout[kind])
  BY <1>1, <1>4, FieldsHold DEF Written
<1>6. type \in Types /\ v \in Sendable[type] /\ v \in AnyValue
  <2>. HIDE DEF Types
  <2>. QED
    BY <1>2, <1>4, <1>5, FieldsHold
<1>. DEFINE b == Bytes(type, v)
<1>7. b \in Seq(Byte)
  BY <1>6, SentShape
<1>8. /\ values' \in Seq(AnyValue) /\ Len(values') = n + 1
      /\ values'[n + 1] = v /\ \A i \in 1..n : values'[i] = values[i]
  BY <1>2, <1>4, <1>6
<1>9. written' \in Seq(Byte)
  BY <1>2, <1>4, <1>7
<1>10. Laid(kind, values', written', ends')
  <2>1. b = Bytes(Layout[kind][Len(values) + 1], v)
    OBVIOUS
  <2>2. /\ values' = Append(values, v) /\ written' = written \o b
        /\ ends' = [i \in 0..Len(values) + 1 |->
                      IF i = Len(values) + 1 THEN Len(written') ELSE ends[i]]
    BY <1>2
  <2>3. values \in Seq(AnyValue) /\ v \in AnyValue /\ Laid(kind, values, written, ends)
    BY <1>4, <1>6
  <2>. HIDE DEF b, type, n
  <2>4. NextField(kind, AnyValue, values, v, written, b, ends, values', written', ends')
    BY <1>4, <1>7, <2>1, <2>2, <2>3 DEF NextField
  <2>. QED
    BY <2>3, <2>4, LaidNext
<1>11. kind' = kind /\ arrived' = FALSE /\ data' = <<>> /\ got' = <<>>
       /\ readPos' = 0 /\ thrown' = FALSE /\ start' = 0 /\ came' = 0
  BY <1>1, <1>4
<1>12. WriteInv'
  <2>1. ASSUME NEW i \in 1..n + 1
        PROVE  values'[i] \in Values[Layout[kind][i]]
    <3>1. i = n + 1 \/ i \in 1..n
      BY <1>5
    <3>. QED
      BY <1>2, <1>4, <1>8, <3>1
  <2>. HIDE DEF n, type, b
  <2>2. kind' \in Kinds /\ Len(values') <= Len(Layout[kind'])
    BY <1>4, <1>5, <1>8, <1>11
  <2>3. \A i \in 1..Len(values') : values'[i] \in Values[Layout[kind'][i]]
    BY <1>8, <1>11, <2>1
  <2>4. Laid(kind', values', written', ends')
    BY <1>10, <1>11
  <2>. QED
    BY <1>8, <1>9, <1>11, <2>2, <2>3, <2>4 DEF WriteInv
<1>13. ReadInv'
  <2>1. Len(got') = 0 /\ IsSeq(got') /\ \A i \in 1..Len(got') : FALSE
    BY <1>11, EmptySequence DEF IsSeq
  <2>2. ends'[0] = 0
    BY <1>10 DEF Laid
  <2>3. Came(0)'
    BY <1>11, <2>2 DEF Came
  <2>4. Len(got') <= Len(values')
    BY <1>5, <1>8, <2>1
  <2>5. (Came(Len(got)))' /\ (readPos = start + ends[Len(got)])'
    BY <1>11, <2>1, <2>2 DEF Came
  <2>6. readPos' \in Nat /\ thrown' = FALSE
    BY <1>11
  <2>. HIDE DEF n, type, b
  <2>. QED
    BY <2>1, <2>4, <2>5, <2>6 DEF ReadInv
<1>14. ~Done
  BY <1>4 DEF Done
<1>15. player' \in PlayerType /\ SettingsAllOrNone' /\ PlaceIsSent'
  BY <1>1, <1>14, PlayerAsItWas
<1>. QED
  BY <1>12, <1>13, <1>15 DEF CodecInv

\* Before a message came nothing of it is read.
LEMMA NotYet ==
  ASSUME CodecInv, arrived = FALSE
  PROVE  /\ kind \in Kinds /\ values \in Seq(AnyValue) /\ written \in Seq(Byte)
         /\ Laid(kind, values, written, ends) /\ ends[0] = 0
         /\ Len(values) \in Nat /\ Len(written) \in Nat
         /\ data = <<>> /\ got = <<>> /\ readPos = 0 /\ thrown = FALSE
         /\ start = 0 /\ came = 0 /\ ~Done
         /\ Len(Layout[kind]) \in Nat \ {0}
<1>1. WriteInv
  BY DEF CodecInv
<1>. HIDE DEF Byte, AnyValue, Types
<1>2. kind \in Kinds /\ Len(Layout[kind]) \in Nat \ {0}
  BY <1>1, FieldsHold DEF WriteInv
<1>3. /\ values \in Seq(AnyValue) /\ written \in Seq(Byte)
      /\ Laid(kind, values, written, ends)
      /\ data = <<>> /\ got = <<>> /\ readPos = 0 /\ thrown = FALSE
      /\ start = 0 /\ came = 0
  BY <1>1 DEF WriteInv
<1>4. ends[0] = 0
  BY <1>3 DEF Laid
<1>5. Len(values) \in Nat /\ Len(written) \in Nat
  BY <1>3
<1>. QED
  BY <1>2, <1>3, <1>4, <1>5 DEF Done

\* Behind its first byte nothing is read of a message that has just come.
LEMMA JustCame ==
  ASSUME CodecInv, arrived = FALSE, Written, arrived' = TRUE,
         UNCHANGED <<writer, got, thrown, player>>,
         Holds(data', start', came', written), readPos' = start',
         ToRead' = Layout[kind]
  PROVE  CodecInv'
<1>1. /\ kind' = kind /\ values' = values /\ written' = written /\ ends' = ends
      /\ got' = got /\ thrown' = thrown /\ player' = player
  BY DEF writer
<1>2. WriteInv /\ ReadInv
  BY DEF CodecInv
<1>. HIDE DEF Byte, AnyValue, Types
<1>3. ends[0] = 0 /\ got = <<>> /\ thrown = FALSE /\ Len(values) \in Nat
  BY NotYet
<1>4. start' \in Nat /\ came' \in Nat
  BY DEF Holds
<1>5. WriteInv'
  <2>1. Written'
    BY <1>1 DEF Written
  <2>. QED
    BY <1>1, <1>2, <2>1 DEF WriteInv
<1>6. ReadInv'
  <2>1. Len(got') = 0 /\ IsSeq(got') /\ \A i \in 1..Len(got') : FALSE
    BY <1>1, <1>3, EmptySequence DEF IsSeq
  <2>2. Len(got') <= Len(values')
    BY <1>1, <1>3, <2>1
  <2>3. (Came(Len(got)))' /\ (readPos = start + ends[Len(got)])'
    BY <1>1, <1>3, <1>4, <2>1 DEF Came
  <2>4. readPos' \in Nat /\ thrown' = FALSE
    BY <1>1, <1>3, <1>4
  <2>. QED
    BY <2>1, <2>2, <2>3, <2>4 DEF ReadInv
<1>7. player' \in PlayerType /\ SettingsAllOrNone' /\ PlaceIsSent'
  BY <1>1, NotYet, PlayerAsItWas
<1>. QED
  BY <1>5, <1>6, <1>7 DEF CodecInv

LEMMA ReceiveInv ==
  ASSUME CodecInv, Receive
  PROVE  CodecInv'
<1>1. /\ Written /\ arrived = FALSE /\ arrived' = TRUE
      /\ UNCHANGED <<writer, got, thrown, player>>
  BY DEF Receive, CodecInv, WriteInv
<1>2. PICK buffer \in Buffers, s \in Starts : \E n \in 0..Len(written) :
        /\ s + n <= BufferSize
        /\ data' = [i \in 1..BufferSize |->
                      IF i \in s + 1..s + n THEN written[i - s] ELSE buffer[i]]
        /\ start' = s /\ came' = n /\ readPos' = s
  BY DEF Receive
<1>3. PICK n \in 0..Len(written) :
        /\ s + n <= BufferSize
        /\ data' = [i \in 1..BufferSize |->
                      IF i \in s + 1..s + n THEN written[i - s] ELSE buffer[i]]
        /\ start' = s /\ came' = n /\ readPos' = s
  BY <1>2
<1>4. /\ BufferSize \in Nat \ {0} /\ s \in Nat
      /\ buffer \in [1..BufferSize -> Byte]
  BY <1>2, CodecAssumption
<1>. HIDE DEF Byte, AnyValue, Types
<1>5. written \in Seq(Byte) /\ Len(written) \in Nat
  BY <1>1, NotYet
<1>6. data' \in [1..BufferSize -> Byte]
  <2>1. \A i \in s + 1..s + n : written[i - s] \in Byte
    <3>1. \A i \in s + 1..s + n : i - s \in 1..Len(written)
      BY <1>4, <1>5
    <3>. QED
      BY <1>5, <3>1
  <2>. QED
    BY <1>3, <1>4, <2>1
<1>7. data' \in Seq(Byte) /\ Len(data') = BufferSize
  BY <1>4, <1>6, FunctionIsSeq
<1>8. \A i \in 1..n : data'[s + i] = written[i]
  BY <1>3, <1>4, <1>5
<1>9. Holds(data', start', came', written)
  BY <1>3, <1>4, <1>5, <1>7, <1>8 DEF Holds
<1>10. ToRead' = Layout[kind]
  <2>1. data' # <<>>
    BY <1>4, <1>7, EmptySequence
  <2>2. kind' = kind
    BY <1>1 DEF writer
  <2>. QED
    BY <2>1, <2>2 DEF ToRead
<1>. QED
  BY <1>1, <1>3, <1>9, <1>10, JustCame

LEMMA ReceiveByClientInv ==
  ASSUME CodecInv, ReceiveByClient
  PROVE  CodecInv'
<1>1. /\ Written /\ arrived = FALSE /\ arrived' = TRUE
      /\ kind \notin FromClient
      /\ data' = written /\ came' = Len(written)
      /\ UNCHANGED <<writer, start, readPos, got, thrown, player>>
  BY DEF ReceiveByClient, reader, CodecInv, WriteInv
<1>. HIDE DEF Byte, AnyValue, Types
<1>2. written \in Seq(Byte) /\ Len(written) \in Nat /\ start = 0 /\ readPos = 0
  BY <1>1, NotYet
<1>3. Holds(data', start', came', written)
  BY <1>1, <1>2 DEF Holds
<1>4. ToRead' = Layout[kind]
  <2>1. kind' = kind /\ kind # "ServerPing"
    BY <1>1 DEF writer, FromClient
  <2>. QED
    BY <2>1 DEF ToRead
<1>. QED
  BY <1>1, <1>2, <1>3, <1>4, JustCame

\* What reading field i yields where it starts: what was written, an empty string
\* for one that is refused, and nothing of a field that runs over the end.
LEMMA FieldRead ==
  ASSUME CodecInv, arrived = TRUE, NEW i \in 1..Len(values)
  PROVE  LET r == Read(Layout[kind][i], data, start + ends[i - 1])
         IN  /\ ends[i] <= came /\ ~Refused(i) => r = Got(values[i], start + ends[i])
             /\ ends[i] <= came /\ Refused(i) => r.value = <<>>
             /\ ends[i] > came /\ ~Refused(i) /\ Layout[kind][i] # "bytes"
                  /\ start + came = Len(data) => r = Underflow
<1>. DEFINE t == Layout[kind][i]
            v == values[i]
            field == Bytes(t, v)
            p == ends[i - 1]
<1>1. WriteInv
  BY DEF CodecInv
<1>2. /\ kind \in Kinds /\ values \in Seq(AnyValue) /\ written \in Seq(Byte)
      /\ \A j \in 1..Len(values) : values[j] \in Values[Layout[kind][j]]
      /\ Len(values) = Len(Layout[kind]) /\ Holds(data, start, came, written)
      /\ Laid(kind, values, written, ends)
  BY <1>1 DEF WriteInv, Written
<1>3. t \in Types /\ v \in Sendable[t]
  <2>. HIDE DEF Types
  <2>. QED
    BY <1>2, FieldsHold
<1>4. Refused(i) <=> t \in StringTypes /\ Len(v) > MaxString[t]
  BY DEF Refused
<1>. HIDE DEF Byte, AnyValue, Types, StringTypes
<1>5. StandsAt(written, p, field) /\ ends[i] = p + Len(field)
  BY <1>2 DEF Laid
<1>6. /\ field \in Seq(Byte) /\ Len(field) \in Nat /\ p \in Nat /\ came \in Nat
      /\ data \in Seq(Byte) /\ start \in Nat
  <2>1. field \in Seq(Byte)
    BY <1>3, SentShape
  <2>. HIDE DEF field, t, v
  <2>. QED
    BY <1>2, <1>5, <2>1 DEF StandsAt, Holds
<1>. HIDE DEF p, v, t
<1>7. ASSUME ends[i] <= came
      PROVE  StandsAt(data, start + p, field)
  <2>. HIDE DEF field
  <2>. QED
    BY <1>2, <1>5, <1>6, <1>7, CameStands
<1>8. ASSUME ~Refused(i)
      PROVE  v \in Valid[t]
  BY <1>3, <1>4, <1>8, ShortEnough
<1>9. ASSUME ends[i] <= came, ~Refused(i)
      PROVE  Read(t, data, start + p) = Got(v, start + ends[i])
  <2>1. Read(t, data, start + p) = Got(v, (start + p) + Len(field))
    BY <1>3, <1>6, <1>7, <1>8, <1>9, FieldsReadBack
  <2>2. (start + p) + Len(field) = start + ends[i]
    <3>. HIDE DEF field
    <3>. QED
      BY <1>5, <1>6
  <2>. QED
    BY <2>1, <2>2
<1>10. ASSUME ends[i] <= came, Refused(i)
       PROVE  Read(t, data, start + p).value = <<>>
  <2>1. Read(t, data, start + p) = Got(<<>>, (start + p) + 2)
    BY <1>3, <1>4, <1>6, <1>7, <1>10, LongStringsRefused
  <2>. QED
    BY <2>1 DEF Got
<1>11. ASSUME ends[i] > came, ~Refused(i), t # "bytes", start + came = Len(data)
       PROVE  Read(t, data, start + p) = Underflow
  <2>1. came < p + Len(field)
    <3>. HIDE DEF field
    <3>. QED
      BY <1>5, <1>6, <1>11
  <2>. QED
    BY <1>2, <1>3, <1>5, <1>8, <1>11, <2>1, MissingIsNoticed
<1>. QED
  BY <1>9, <1>10, <1>11 DEF p, t, v

\* One more element, of whatever kind.
LEMMA OneMoreGot ==
  ASSUME NEW s, IsSeq(s), NEW x
  PROVE  /\ IsSeq(Append(s, x)) /\ Len(s) \in Nat /\ Len(Append(s, x)) = Len(s) + 1
         /\ \A i \in 1..Len(s) : Append(s, x)[i] = s[i]
         /\ Append(s, x)[Len(s) + 1] = x
<1>1. PICK S : s \in Seq(S)
  BY DEF IsSeq
<1>2. s \in Seq(S \cup {x}) /\ x \in S \cup {x}
  BY <1>1
<1>3. /\ Append(s, x) \in Seq(S \cup {x})
      /\ Len(s) \in Nat /\ Len(Append(s, x)) = Len(s) + 1
      /\ \A i \in 1..Len(s) : Append(s, x)[i] = s[i]
      /\ Append(s, x)[Len(s) + 1] = x
  BY <1>2
<1>. QED
  BY <1>3 DEF IsSeq

\* What came is what ends show of it.
LEMMA CameUpTo ==
  ASSUME CodecInv, arrived = TRUE
  PROVE  /\ Len(values) \in Nat /\ came \in Nat /\ Len(written) \in Nat
         /\ came <= Len(written) /\ ends[Len(values)] = Len(written)
         /\ \A i \in 0..Len(values) : ends[i] \in Nat
         /\ \A i \in 0..Len(values) : Whole => Came(i)
         /\ \A i \in 1..Len(values) : /\ ends[i - 1] \in Nat /\ ends[i - 1] <= ends[i]
                                      /\ Came(i) <=> Came(i - 1) /\ ends[i] <= came /\ ~Refused(i)
<1>1. WriteInv
  BY DEF CodecInv
<1>. HIDE DEF Byte, AnyValue, Types
<1>2. /\ values \in Seq(AnyValue) /\ written \in Seq(Byte)
      /\ Holds(data, start, came, written) /\ Laid(kind, values, written, ends)
  BY <1>1 DEF WriteInv
<1>3. /\ Len(values) \in Nat /\ ends[Len(values)] = Len(written)
      /\ \A i \in 0..Len(values) : ends[i] \in Nat /\ ends[i] <= Len(written)
      /\ \A i \in 1..Len(values) : ends[i - 1] \in Nat /\ ends[i - 1] <= ends[i]
  BY <1>2, CameAll
<1>4. came \in Nat /\ Len(written) \in Nat /\ came <= Len(written)
  BY <1>2 DEF Holds
<1>5. ASSUME Whole, NEW i \in 0..Len(values)
      PROVE  Came(i)
  <2>1. ends[Len(values)] <= came /\ \A j \in 1..Len(values) : ~Refused(j)
    BY <1>5 DEF Whole, Came
  <2>2. ends[i] <= came
    BY <1>3, <1>4, <2>1
  <2>3. \A j \in 1..i : ~Refused(j)
    BY <1>3, <2>1
  <2>. QED
    BY <2>2, <2>3 DEF Came
<1>6. ASSUME NEW i \in 1..Len(values)
      PROVE  Came(i) <=> Came(i - 1) /\ ends[i] <= came /\ ~Refused(i)
  <2>1. ends[i - 1] \in Nat /\ ends[i] \in Nat /\ ends[i - 1] <= ends[i]
    BY <1>3
  <2>2. \A j : j \in 1..i <=> (j \in 1..i - 1 \/ j = i)
    BY <1>3
  <2>. HIDE DEF Refused
  <2>3. (\A j \in 1..i : ~Refused(j)) <=> (\A j \in 1..i - 1 : ~Refused(j)) /\ ~Refused(i)
    BY <2>2
  <2>4. ends[i] <= came => ends[i - 1] <= came
    BY <1>4, <2>1
  <2>. QED
    BY <2>3, <2>4 DEF Came
<1>. QED
  BY <1>3, <1>4, <1>5, <1>6

LEMMA ReadFieldInv ==
  ASSUME CodecInv, ReadField
  PROVE  CodecInv'
<1>. DEFINE n == Len(got)
            m == n + 1
            r == Read(Layout[kind][m], data, readPos)
<1>1. /\ arrived = TRUE /\ thrown = FALSE /\ ~Done
      /\ UNCHANGED <<kind, values, written, ends, arrived, start, came, data, player>>
  BY DEF ReadField, writer, arrival, CodecInv, WriteInv, ReadInv
<1>2. WriteInv /\ ReadInv
  BY DEF CodecInv
<1>3. /\ kind \in Kinds /\ values \in Seq(AnyValue) /\ written \in Seq(Byte)
      /\ Len(values) = Len(Layout[kind]) /\ Holds(data, start, came, written)
      /\ ToRead = Layout[kind]
  BY <1>1, <1>2 DEF WriteInv, Written
<1>4. \/ r.ok /\ got' = Append(got, r.value) /\ readPos' = r.pos /\ thrown' = FALSE
      \/ ~r.ok /\ thrown' = TRUE /\ got' = got /\ readPos' = readPos
  BY <1>1, <1>3 DEF ReadField
<1>. HIDE DEF Byte, AnyValue, Types
<1>5. /\ IsSeq(got) /\ n <= Len(values) /\ readPos \in Nat
      /\ \A i \in 1..n : got[i] \in Valid[Layout[kind][i]]
      /\ Came(n) => readPos = start + ends[n]
      /\ \A i \in 1..n : Came(i) => got[i] = values[i]
      /\ \A i \in 1..n : Came(i - 1) /\ ends[i] <= came /\ Refused(i) => got[i] = <<>>
      /\ EndCut => Came(n)
  BY <1>2 DEF ReadInv
<1>6. n \in Nat /\ Len(values) \in Nat /\ m \in 1..Len(values) /\ m - 1 = n
  <2>1. n \in Nat
    BY <1>5, OneMoreGot
  <2>2. n # Len(values)
    BY <1>1, <1>3 DEF Done
  <2>3. Len(values) \in Nat
    BY <1>3
  <2>. HIDE DEF n
  <2>. QED
    BY <1>5, <2>1, <2>2, <2>3
<1>7. Layout[kind][m] \in Types /\ data \in Seq(Byte)
  BY <1>3, <1>6, FieldsHold DEF Holds
<1>8. /\ \A i \in 0..Len(values) : Whole => Came(i)
      /\ Came(m) <=> Came(n) /\ ends[m] <= came /\ ~Refused(m)
      /\ came \in Nat /\ ends[m] \in Nat
  <2>1. m \in 0..Len(values)
    BY <1>6
  <2>. HIDE DEF m, n
  <2>. QED
    BY <1>1, <1>6, <2>1, CameUpTo
<1>9. ASSUME Came(n)
      PROVE  /\ Came(m) => r = Got(values[m], start + ends[m])
             /\ ends[m] <= came /\ Refused(m) => r.value = <<>>
             /\ EndCut /\ ends[m] > came => r = Underflow
  <2>1. r = Read(Layout[kind][m], data, start + ends[m - 1])
    BY <1>5, <1>6, <1>9
  <2>. DEFINE x == Read(Layout[kind][m], data, start + ends[m - 1])
  <2>2. /\ ends[m] <= came /\ ~Refused(m) => x = Got(values[m], start + ends[m])
        /\ ends[m] <= came /\ Refused(m) => x.value = <<>>
        /\ ends[m] > came /\ ~Refused(m) /\ Layout[kind][m] # "bytes"
             /\ start + came = Len(data) => x = Underflow
    <3>. HIDE DEF m
    <3>. QED
      BY <1>1, <1>6, FieldRead
  <2>. HIDE DEF x, m, r
  <2>3. r = x
    BY <2>1 DEF x
  <2>. QED
    BY <1>6, <1>8, <2>2, <2>3 DEF EndCut
<1>10. ~Underflow.ok /\ \A v, p : LET g == Got(v, p) IN g.ok = TRUE /\ g.value = v /\ g.pos = p
  BY DEF Underflow, Got
<1>11. WriteInv'
  <2>1. ToRead' = ToRead /\ (Written' <=> Written)
    BY <1>1 DEF ToRead, Written
  <2>. QED
    BY <1>1, <1>2, <2>1 DEF WriteInv
<1>12. /\ \A i : Came(i)' <=> Came(i)
       /\ \A i : Refused(i)' <=> Refused(i)
       /\ (Whole' <=> Whole) /\ (EndCut' <=> EndCut)
  <2>1. \A i : Refused(i)' <=> Refused(i)
    BY <1>1 DEF Refused
  <2>2. \A i : Came(i)' <=> Came(i)
    BY <1>1, <2>1 DEF Came
  <2>. QED
    BY <1>1, <2>1, <2>2 DEF Whole, EndCut
<1>13. ReadInv'
  <2>. HIDE DEF r, m
  <2>1. CASE r.ok /\ got' = Append(got, r.value) /\ readPos' = r.pos /\ thrown' = FALSE
    <3>1. /\ IsSeq(got') /\ Len(got') = m /\ got'[m] = r.value
          /\ \A i \in 1..n : got'[i] = got[i]
      BY <1>5, <2>1, OneMoreGot DEF m
    <3>2. r.value \in Valid[Layout[kind][m]] /\ r.pos \in Nat
      BY <1>5, <1>7, <2>1, ReadsHold, ReadEnds DEF r
    <3>3. \A i \in 1..m : i \in 1..n \/ i = m
      BY <1>6 DEF m
    <3>4. \A i \in 1..m : got'[i] \in Valid[Layout[kind][i]]
      BY <1>5, <3>1, <3>2, <3>3
    <3>5. Came(m) => r.value = values[m] /\ r.pos = start + ends[m]
      BY <1>8, <1>9, <1>10
    <3>6. \A i \in 1..m : Came(i) => got'[i] = values[i]
      BY <1>5, <3>1, <3>3, <3>5
    <3>7. \A i \in 1..m : Came(i - 1) /\ ends[i] <= came /\ Refused(i) => got'[i] = <<>>
      BY <1>5, <1>6, <1>9, <3>1, <3>3
    <3>8. EndCut => Came(m)
      <4>1. ASSUME EndCut
            PROVE  ends[m] <= came /\ ~Refused(m)
        BY <1>5, <1>6, <1>8, <1>9, <1>10, <2>1, <4>1 DEF EndCut
      <4>. QED
        BY <1>5, <1>8, <4>1
    <3>9. Len(got') <= Len(values')
      BY <1>1, <1>6, <3>1
    <3>. HIDE DEF n
    <3>10. (Came(Len(got)))' <=> Came(m)
      BY <1>1, <3>1 DEF Came, Refused
    <3>11. (Came(Len(got)) => readPos = start + ends[Len(got)])'
      BY <1>1, <2>1, <3>1, <3>5, <3>10
    <3>12. (EndCut => Came(Len(got)))'
      BY <1>12, <3>8, <3>10
    <3>. QED
      BY <1>1, <1>12, <2>1, <3>1, <3>2, <3>4, <3>6, <3>7, <3>9, <3>11, <3>12 DEF ReadInv
  <2>2. CASE ~r.ok /\ thrown' = TRUE /\ got' = got /\ readPos' = readPos
    <3>1. ~Whole
      <4>1. Whole => Came(m) /\ Came(n)
        BY <1>6, <1>8 DEF m
      <4>. QED
        BY <1>9, <1>10, <2>2, <4>1
    <3>2. (Came(Len(got)))' <=> Came(Len(got))
      BY <1>1, <2>2 DEF Came, Refused
    <3>. QED
      BY <1>1, <1>2, <1>12, <2>2, <3>1, <3>2 DEF ReadInv
  <2>. QED
    BY <1>4, <2>1, <2>2 DEF r
<1>14. player' \in PlayerType /\ SettingsAllOrNone' /\ PlaceIsSent'
  BY <1>1, PlayerAsItWas
<1>. QED
  BY <1>11, <1>13, <1>14 DEF CodecInv

\* What a packet that was read to its end holds.
LEMMA AllRead ==
  ASSUME CodecInv, Done
  PROVE  /\ Len(got) = Len(values) /\ Len(values) = Len(Layout[kind])
         /\ \A i \in 1..Len(values) : /\ got[i] \in Valid[Layout[kind][i]]
                                      /\ Whole => got[i] = values[i]
         /\ Whole => readPos = start + ends[Len(values)]
<1>1. WriteInv /\ ReadInv /\ arrived = TRUE
  BY DEF CodecInv, WriteInv, Done
<1>. HIDE DEF Byte, AnyValue
<1>2. Len(values) = Len(Layout[kind]) /\ Len(got) = Len(Layout[kind])
  BY <1>1 DEF WriteInv, Written, Done
<1>3. \A i \in 0..Len(values) : Whole => Came(i)
  BY <1>1, CameUpTo
<1>4. Len(values) \in Nat
  BY <1>1, CameUpTo
<1>5. \A i \in 1..Len(values) : i \in 0..Len(values)
  BY <1>4
<1>6. Len(values) \in 0..Len(values)
  BY <1>4
<1>. QED
  BY <1>1, <1>2, <1>3, <1>5, <1>6 DEF ReadInv

LEMMA HandlersLeave ==
  ASSUME WriteInv, ReadInv, UNCHANGED <<writer, arrival, reader>>
  PROVE  /\ WriteInv' /\ ReadInv' /\ kind' = kind /\ values' = values /\ got' = got
         /\ (Done' <=> Done) /\ (Whole' <=> Whole)
<1>1. /\ kind' = kind /\ values' = values /\ written' = written /\ ends' = ends
      /\ arrived' = arrived /\ start' = start /\ came' = came /\ data' = data
      /\ readPos' = readPos /\ got' = got /\ thrown' = thrown
  BY DEF writer, arrival, reader
<1>2. WriteInv'
  BY <1>1 DEF WriteInv, Written, ToRead
<1>3. (EndCut' <=> EndCut) /\ (Whole' <=> Whole) /\ (Done' <=> Done)
  BY <1>1 DEF EndCut, Whole, Done, Came, Refused, ToRead
<1>4. /\ \A i : Came(i)' <=> Came(i)
      /\ \A i : Refused(i)' <=> Refused(i)
      /\ (Came(Len(got)))' <=> Came(Len(got))
  BY <1>1 DEF Came, Refused
<1>5. ReadInv'
  BY <1>1, <1>3, <1>4 DEF ReadInv
<1>. QED
  BY <1>1, <1>2, <1>3, <1>5

LEMMA HandleClientInfoInv ==
  ASSUME CodecInv, HandleClientInfo
  PROVE  CodecInv'
<1>1. /\ kind = "ClientInfo" /\ Done
      /\ player' = [player EXCEPT !.language = got[1], !.renderDistance = got[2],
                                  !.showCape = got[5]]
      /\ UNCHANGED <<writer, arrival, reader>>
  BY DEF HandleClientInfo
<1>2. WriteInv /\ ReadInv /\ player \in PlayerType /\ SettingsAllOrNone /\ PlaceIsSent
  BY DEF CodecInv
<1>3. /\ Len(Layout[kind]) = 5
      /\ Layout[kind][1] = "string7" /\ Layout[kind][2] = "int"
      /\ Layout[kind][5] = "bool"
  BY <1>1, PlayerLayouts
<1>4. /\ got[1] \in Valid["string7"] /\ got[2] \in Valid["int"] /\ got[5] \in Valid["bool"]
      /\ Whole => got[1] = values[1] /\ got[2] = values[2] /\ got[5] = values[5]
  <2>1. 1 \in 1..5 /\ 2 \in 1..5 /\ 5 \in 1..5
    OBVIOUS
  <2>. QED
    BY <1>1, <1>3, <2>1, AllRead
<1>5. got[1] \in Seq(Byte) /\ got[2] \in Int /\ got[5] \in BOOLEAN
  <2>1. "string7" \in StringTypes
    BY TypesAre
  <2>2. got[1] \in Seq(Byte)
    <3>1. got[1] \in Texts(Byte, MaxString["string7"])
      BY <1>4, <2>1, ValidAre
    <3>. QED
      BY <3>1 DEF Texts
  <2>. QED
    BY <1>4, <2>2, ValidAre DEF IntRange
<1>6. /\ player' \in PlayerType
      /\ player'.language = got[1] /\ player'.renderDistance = got[2]
      /\ player'.showCape = got[5] /\ player'.location = player.location
  <2>. HIDE DEF Byte
  <2>. DEFINE Places == [1..3 -> [1..8 -> Byte]]
              Languages == Seq(Byte)
  <2>1. player \in [language : Languages, renderDistance : Int, showCape : BOOLEAN,
                    location : Places]
    BY <1>2 DEF PlayerType
  <2>2. got[1] \in Languages
    BY <1>5
  <2>. HIDE DEF Places, Languages
  <2>3. /\ player' \in [language : Languages, renderDistance : Int, showCape : BOOLEAN,
                        location : Places]
        /\ player'.language = got[1] /\ player'.renderDistance = got[2]
        /\ player'.showCape = got[5] /\ player'.location = player.location
    BY <1>1, <1>5, <2>1, <2>2
  <2>. QED
    BY <2>3 DEF PlayerType, Places, Languages
<1>7. /\ WriteInv' /\ ReadInv' /\ kind' = kind /\ values' = values /\ got' = got
      /\ (Done' <=> Done) /\ (Whole' <=> Whole)
  BY <1>1, <1>2, HandlersLeave
<1>8. SettingsAllOrNone'
  <2>1. kind' = "ClientInfo" /\ Done'
    BY <1>1, <1>7
  <2>2. /\ player'.language = got'[1] /\ player'.renderDistance = got'[2]
        /\ player'.showCape = got'[5]
    BY <1>6, <1>7
  <2>3. Whole' => got'[1] = values'[1] /\ got'[2] = values'[2] /\ got'[5] = values'[5]
    BY <1>4, <1>7
  <2>. QED
    BY <2>1, <2>2, <2>3, Zenon DEF SettingsAllOrNone
<1>9. PlaceIsSent'
  BY <1>2, <1>6, <1>7 DEF PlaceIsSent
<1>. QED
  BY <1>6, <1>7, <1>8, <1>9 DEF CodecInv

LEMMA HandlePositionInv ==
  ASSUME CodecInv, HandlePosition
  PROVE  CodecInv'
<1>1. /\ kind = "ClientPosition" /\ Done
      /\ UNCHANGED <<writer, arrival, reader>>
  BY DEF HandlePosition
<1>2. PICK k \in Orders :
        player' = [player EXCEPT !.location = Place(got[k[1]], got[k[2]], got[k[3]])]
  BY DEF HandlePosition, SetLocation
<1>3. WriteInv /\ ReadInv /\ player \in PlayerType /\ SettingsAllOrNone /\ PlaceIsSent
  BY DEF CodecInv
<1>4. Len(Layout[kind]) = 5 /\ \A i \in 1..4 : Layout[kind][i] = "double"
  BY <1>1, PlayerLayouts
<1>. DEFINE double == [1..8 -> Byte]
            place == <<got[k[1]], got[k[2]], got[k[3]]>>
<1>5. \A i \in 1..3 : got[i] \in double /\ (Whole => got[i] = values[i])
  <2>1. Valid["double"] = double
    BY ValidAre
  <2>2. \A i \in 1..3 : i \in 1..4 /\ i \in 1..5
    OBVIOUS
  <2>. HIDE DEF double
  <2>. QED
    BY <1>1, <1>4, <2>1, <2>2, AllRead
<1>6. k[1] \in 1..3 /\ k[2] \in 1..3 /\ k[3] \in 1..3
  BY DEF Orders
<1>7. /\ player' = [player EXCEPT !.location = place]
      /\ place \in [1..3 -> double]
      /\ \A i \in 1..3 : place[i] = got[k[i]] /\ (Whole => place[i] = values[k[i]])
  <2>. HIDE DEF double
  <2>1. got[k[1]] \in double /\ got[k[2]] \in double /\ got[k[3]] \in double
    BY <1>5, <1>6
  <2>2. \A i \in 1..3 : place[i] = got[k[i]] /\ k[i] \in 1..3
    BY <1>6
  <2>. QED
    BY <1>2, <1>5, <2>1, <2>2 DEF Place
<1>8. /\ player' \in PlayerType
      /\ player'.language = player.language
      /\ player'.renderDistance = player.renderDistance
      /\ player'.showCape = player.showCape /\ player'.location = place
  <2>. DEFINE Places == [1..3 -> double]
              Languages == Seq(Byte)
  <2>1. player \in [language : Languages, renderDistance : Int, showCape : BOOLEAN,
                    location : Places]
    BY <1>3 DEF PlayerType
  <2>2. place \in Places
    BY <1>7
  <2>. HIDE DEF Places, Languages, place
  <2>3. /\ player' \in [language : Languages, renderDistance : Int, showCape : BOOLEAN,
                        location : Places]
        /\ player'.language = player.language
        /\ player'.renderDistance = player.renderDistance
        /\ player'.showCape = player.showCape /\ player'.location = place
    BY <1>7, <2>1, <2>2
  <2>. QED
    BY <2>3 DEF PlayerType, Places, Languages
<1>9. /\ WriteInv' /\ ReadInv' /\ kind' = kind /\ values' = values /\ got' = got
      /\ (Done' <=> Done) /\ (Whole' <=> Whole)
  BY <1>1, <1>3, HandlersLeave
<1>10. SettingsAllOrNone'
  BY <1>3, <1>8, <1>9 DEF SettingsAllOrNone
<1>11. PlaceIsSent'
  <2>. HIDE DEF place
  <2>. QED
    BY <1>1, <1>7, <1>8, <1>9 DEF PlaceIsSent
<1>. QED
  BY <1>8, <1>9, <1>10, <1>11 DEF CodecInv

LEMMA StutterInv ==
  ASSUME CodecInv, UNCHANGED vars
  PROVE  CodecInv'
<1>1. UNCHANGED <<writer, arrival, reader>> /\ player' = player
  BY DEF vars
<1>2. WriteInv /\ ReadInv
  BY DEF CodecInv
<1>3. /\ WriteInv' /\ ReadInv' /\ kind' = kind /\ values' = values /\ got' = got
      /\ (Done' <=> Done) /\ (Whole' <=> Whole)
  BY <1>1, <1>2, HandlersLeave
<1>. QED
  BY <1>1, <1>3 DEF CodecInv, SettingsAllOrNone, PlaceIsSent

LEMMA CodecInvariant == Spec => []CodecInv
<1>1. Init => CodecInv
  BY CodecInit
<1>2. CodecInv /\ [Next]_vars => CodecInv'
  BY WriteFieldInv, ReceiveInv, ReceiveByClientInv, ReadFieldInv, HandleClientInfoInv,
     HandlePositionInv, StutterInv DEF Next
<1>. QED
  BY <1>1, <1>2, PTL DEF Spec

\* The fields of a packet have their types throughout, whatever bytes they are read
\* from, and so has what of them goes to the Player.
\* Code: the members of the packets and of Player.
THEOREM CodecTypeCorrect == Spec => []TypeOK
<1>1. CodecInv => TypeOK
  <2>. SUFFICES ASSUME CodecInv
                PROVE  TypeOK
    OBVIOUS
  <2>. HIDE DEF Byte, AnyValue
  <2>1. WriteInv /\ ReadInv /\ player \in PlayerType
    BY DEF CodecInv
  <2>2. values \in Seq(AnyValue) /\ IsSeq(got)
    BY <2>1 DEF WriteInv, ReadInv
  <2>3. \A i \in DOMAIN values : values[i] \in Values[Layout[kind][i]]
    BY <2>1, <2>2 DEF WriteInv
  <2>4. \A i \in DOMAIN got : got[i] \in Valid[Layout[kind][i]]
    <3>1. DOMAIN got = 1..Len(got)
      BY <2>2 DEF IsSeq
    <3>. QED
      BY <2>1, <3>1 DEF ReadInv
  <2>5. data \in Seq(Byte) /\ start \in Nat /\ came \in Nat
    <3>1. CASE arrived
      BY <2>1, <3>1 DEF WriteInv, Holds
    <3>2. CASE ~arrived
      BY <2>1, <3>2, EmptySequence DEF WriteInv
    <3>. QED
      BY <3>1, <3>2
  <2>6. ends \in [0..Len(values) -> Nat]
    BY <2>1 DEF WriteInv, Laid
  <2>. QED
    BY <2>1, <2>3, <2>4, <2>5, <2>6 DEF TypeOK, WriteInv, ReadInv, PlayerType
<1>. QED
  BY <1>1, CodecInvariant, PTL

\* What came is read as it was written, field by field, wherever in the buffer it
\* lies and whatever lies around it: for every kind of packet, all values its
\* fields can hold and every size of the buffer.
\* Code: the read and write functions of Buffer, over mutableBuffer's bytes.
THEOREM MessagesReadBack == Spec => []ReadBack
<1>1. CodecInv => ReadBack
  <2>. SUFFICES ASSUME CodecInv
                PROVE  ReadBack
    OBVIOUS
  <2>. HIDE DEF Byte, AnyValue
  <2>1. WriteInv /\ ReadInv
    BY DEF CodecInv
  <2>2. DOMAIN got = 1..Len(got)
    BY <2>1 DEF ReadInv, IsSeq
  <2>3. Whole /\ Done => readPos = start + Len(written)
    <3>1. ends[Len(values)] = Len(written)
      BY <2>1 DEF WriteInv, Laid
    <3>. QED
      BY <3>1, AllRead
  <2>. QED
    BY <2>1, <2>2, <2>3 DEF ReadBack, ReadInv
<1>. QED
  BY <1>1, CodecInvariant, PTL

\* A packet that runs over the end of the buffer is never read to its end, unless a
\* char array or a string that is too long is in it.
\* Code: the checks of Buffer's read functions.
THEOREM EndsAreNoticed == Spec => []EndNoticed
<1>1. CodecInv => EndNoticed
  <2>. SUFFICES ASSUME CodecInv, Done, came < Len(written), start + came = Len(data),
                       \A i \in DOMAIN values : Layout[kind][i] # "bytes" /\ ~Refused(i)
                PROVE  FALSE
    BY DEF EndNoticed
  <2>. HIDE DEF Byte, AnyValue
  <2>1. WriteInv /\ ReadInv /\ arrived = TRUE
    BY DEF CodecInv, WriteInv, Done
  <2>2. DOMAIN values = 1..Len(values)
    BY <2>1 DEF WriteInv
  <2>3. Came(Len(got))
    <3>1. EndCut
      BY <2>2 DEF EndCut
    <3>. QED
      BY <2>1, <3>1 DEF ReadInv
  <2>4. Len(got) = Len(values)
    BY AllRead
  <2>5. ends[Len(values)] <= came
    BY <2>3, <2>4 DEF Came
  <2>. QED
    BY <2>1, <2>5, CameUpTo
<1>. QED
  BY <1>1, CodecInvariant, PTL

\* A Player takes a client's settings all at once or not at all, wherever reading
\* them throws, and of a packet that came whole those the client sent.
\* Code: readData before the setters in handleClientInfo.
THEOREM SettingsAreWhole == Spec => []SettingsAllOrNone
<1>1. CodecInv => SettingsAllOrNone
  BY DEF CodecInv
<1>. QED
  BY <1>1, CodecInvariant, PTL

\* The place of a Player is made of the first three doubles of one packet that was
\* read to its end, of a packet that came whole those the client sent.
\* Code: PlayerPositionPacket::readData.
THEOREM PlacesAreSent == Spec => []PlaceIsSent
<1>1. CodecInv => PlaceIsSent
  BY DEF CodecInv
<1>. QED
  BY <1>1, CodecInvariant, PTL
=============================================================================
