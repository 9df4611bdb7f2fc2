------------------------- MODULE UTF16StringProofs --------------------------
(***************************************************************************)
(* Theorems about UTF16String, for any number of strings and blocks, any   *)
(* texts and any length: who owns the arrays, and what is in them.         *)
(***************************************************************************)
EXTENDS UTF16String, TLAPS

Heaps == [Blocks -> {Free} \cup Seq(Short)]

\* An array that is there for a string without characters has none.
EmptyArrays ==
  \A s \in Strings :
    Lives(s) /\ Characters(s) # Null /\ Length(s) = 0 => heap[Characters(s)] = <<>>

OwnInv == TypeOK /\ OwnsItsArray /\ EmptyArrays /\ OnlyEmptyLost

LEMMA OwnInit == Init => OwnInv
<1>. SUFFICES ASSUME Init
              PROVE  OwnInv
  OBVIOUS
<1>1. \A s \in Strings : ~Lives(s)
  BY DEF Init, Lives
<1>2. \A b \in Blocks : heap[b] = Free
  BY DEF Init
<1>3. TypeOK
  <2>1. <<>> \in Seq(Char)
    OBVIOUS
  <2>. QED
    BY <2>1 DEF Init, TypeOK
<1>. QED
  BY <1>1, <1>2, <1>3 DEF OwnInv, OwnsItsArray, EmptyArrays, OnlyEmptyLost

\* The members of a string.
LEMMA StringMembers ==
  ASSUME TypeOK, NEW s \in Strings, Lives(s)
  PROVE  /\ Characters(s) \in Blocks \cup {Null} /\ Length(s) \in 0..MaxLength
         /\ object[s] = Members(Characters(s), Length(s))
BY DEF TypeOK, Lives, Characters, Length, Members

LEMMA MembersLive ==
  ASSUME NEW b \in Blocks \cup {Null}, NEW n \in 0..MaxLength
  PROVE  /\ Members(b, n).characters = b /\ Members(b, n).length = n
         /\ Members(b, n) # Gone
         /\ Members(b, n) \in [characters : Blocks \cup {Null}, length : 0..MaxLength]
BY UTF16StringAssumption DEF Members

\* A loop over a string finds as many characters as the string has.
LEMMA SeenLength ==
  ASSUME TypeOK, NEW h \in Heaps, NEW s \in Strings, Lives(s), NEW seen \in Seen(h, s)
  PROVE  seen \in Seq(Short) /\ Len(seen) = Length(s)
<1>. DEFINE b == Characters(s)
<1>1. b \in Blocks \cup {Null} /\ Length(s) \in Nat
  BY StringMembers, UTF16StringAssumption
<1>2. CASE Intact(h, s) /\ Length(s) = 0
  BY <1>2 DEF Seen
<1>3. CASE Intact(h, s) /\ Length(s) # 0
  <2>1. h[b] \in Seq(Short) /\ Len(h[b]) >= Length(s)
    BY <1>1, <1>3 DEF Intact, Heaps
  <2>2. seen = SubSeq(h[b], 1, Length(s))
    BY <1>3 DEF Seen
  <2>. QED
    BY <1>1, <2>1, <2>2
<1>4. CASE ~Intact(h, s)
  <2>1. seen \in [1..Length(s) -> Short]
    BY <1>4, UTF16StringAssumption DEF Seen
  <2>. QED
    BY <1>1, <2>1
<1>. QED
  BY <1>2, <1>3, <1>4

\* An array of a string is deleted, if it has one.
LEMMA WithoutHeap ==
  ASSUME TypeOK, NEW c
  PROVE  /\ Without(c) \in Heaps
         /\ \A b \in Blocks : Without(c)[b] = IF b = c THEN Free ELSE heap[b]
BY DEF TypeOK, Without, Heaps

\* What becomes of the array of s is no concern of another string.
LEMMA OtherString ==
  ASSUME OwnInv, NEW s \in Strings, NEW h,
         h = heap \/ (Lives(s) /\ h = Without(Characters(s))),
         NEW t \in Strings, t # s, Lives(t), Characters(t) # Null
  PROVE  /\ Characters(t) \in Blocks /\ heap[Characters(t)] # Free
         /\ h[Characters(t)] = heap[Characters(t)]
<1>1. Characters(t) \in Blocks
  BY StringMembers DEF OwnInv
<1>2. Lives(s) => Characters(s) # Characters(t)
  BY DEF OwnInv, OwnsItsArray
<1>3. heap[Characters(t)] # Free
  BY DEF OwnInv, OwnsItsArray
<1>. QED
  BY <1>1, <1>2, <1>3, WithoutHeap DEF OwnInv

\* A string that becomes one without a new array gives up the one it had, has
\* none, or keeps it.
LEMMA NoArray ==
  ASSUME OwnInv, NEW s \in Strings, NEW m, NEW chars \in Seq(Char),
         NEW misuse \in BOOLEAN,
         Become(s, m, chars, misuse),
         \/ /\ m = Gone \/ (\E n \in 0..MaxLength : m = Members(Null, n))
            /\ heap' = IF Lives(s) THEN Without(Characters(s)) ELSE heap
         \/ /\ Lives(s) /\ Length(s) = 0
            /\ \E n \in 0..MaxLength : m = Members(Characters(s), n)
            /\ heap' = heap
  PROVE  OwnInv'
<1>. USE UTF16StringAssumption
<1>1. /\ heap \in Heaps /\ DOMAIN object = Strings
      /\ text \in [Strings -> Seq(Char)] /\ misused \in BOOLEAN /\ crashed \in BOOLEAN
  BY DEF OwnInv, TypeOK, Heaps
<1>2. /\ object' = [object EXCEPT ![s] = m] /\ crashed' = crashed
      /\ misused' \in BOOLEAN /\ text' \in [Strings -> Seq(Char)]
  BY <1>1 DEF Become
<1>3. \A t \in Strings : object'[t] = IF t = s THEN m ELSE object[t]
  BY <1>1, <1>2
<1>4. CASE /\ m = Gone \/ (\E n \in 0..MaxLength : m = Members(Null, n))
           /\ heap' = IF Lives(s) THEN Without(Characters(s)) ELSE heap
  <2>1. m # Gone => m.characters = Null
    BY <1>4, MembersLive
  <2>2. TypeOK'
    BY <1>1, <1>2, <1>4, WithoutHeap, MembersLive DEF OwnInv, TypeOK, Heaps
  <2>3. ASSUME NEW t \in Strings, t # s, Lives(t)
        PROVE  /\ Characters(t)' = Characters(t) /\ Length(t)' = Length(t) /\ Lives(t)'
               /\ Characters(t) # Null => heap'[Characters(t)] = heap[Characters(t)]
    <3>1. Characters(t)' = Characters(t) /\ Length(t)' = Length(t) /\ Lives(t)'
      BY <1>3, <2>3 DEF Characters, Length, Lives
    <3>. QED
      BY <1>4, <2>3, <3>1, OtherString
  <2>4. Lives(s)' => Characters(s)' = Null
    BY <1>3, <2>1 DEF Lives, Characters
  <2>5. \A t \in Strings : Lives(t)' => t = s \/ Lives(t)
    BY <1>3 DEF Lives
  <2>6. OwnsItsArray'
    BY <2>3, <2>4, <2>5 DEF OwnInv, OwnsItsArray
  <2>7. EmptyArrays'
    BY <2>3, <2>4, <2>5 DEF OwnInv, EmptyArrays
  <2>8. OnlyEmptyLost'
    <3>. SUFFICES ASSUME NEW b \in Blocks, b \notin Owned'
                  PROVE  heap'[b] \in {Free, <<>>}
      BY DEF OnlyEmptyLost
    <3>1. \A t \in Strings \ {s} : Lives(t) => Characters(t) # b
      BY <2>3 DEF Owned
    <3>2. CASE b \in Owned
      <4>1. Lives(s) /\ Characters(s) = b
        BY <3>1, <3>2 DEF Owned
      <4>. QED
        BY <1>4, <4>1, WithoutHeap DEF OwnInv
    <3>3. CASE b \notin Owned
      BY <1>4, <3>3, WithoutHeap DEF OwnInv, OnlyEmptyLost
    <3>. QED
      BY <3>2, <3>3
  <2>. QED
    BY <2>2, <2>6, <2>7, <2>8 DEF OwnInv
<1>5. CASE /\ Lives(s) /\ Length(s) = 0
           /\ \E n \in 0..MaxLength : m = Members(Characters(s), n)
           /\ heap' = heap
  <2>1. Characters(s) \in Blocks \cup {Null}
    BY <1>5, StringMembers DEF OwnInv
  <2>2. PICK n \in 0..MaxLength : m = Members(Characters(s), n)
    BY <1>5
  <2>3. /\ m.characters = Characters(s) /\ m # Gone
        /\ m \in [characters : Blocks \cup {Null}, length : 0..MaxLength]
    BY <2>1, <2>2, MembersLive
  <2>4. TypeOK'
    BY <1>1, <1>2, <1>5, <2>3 DEF OwnInv, TypeOK, Heaps
  <2>5. \A t \in Strings : (Lives(t)' <=> Lives(t)) /\ Characters(t)' = Characters(t)
    BY <1>3, <1>5, <2>3 DEF Lives, Characters
  <2>6. \A t \in Strings \ {s} : Length(t)' = Length(t)
    BY <1>3 DEF Length
  <2>7. OwnsItsArray'
    BY <1>5, <2>5 DEF OwnInv, OwnsItsArray
  <2>8. EmptyArrays'
    BY <1>5, <2>5, <2>6 DEF OwnInv, EmptyArrays
  <2>9. Owned' = Owned
    BY <2>5 DEF Owned
  <2>10. OnlyEmptyLost'
    BY <1>5, <2>9 DEF OwnInv, OnlyEmptyLost
  <2>. QED
    BY <2>4, <2>7, <2>8, <2>10 DEF OwnInv
<1>. QED
  BY <1>4, <1>5

\* A string that becomes one with a new array gave up the one it had, unless
\* that was empty.
LEMMA NewArray ==
  ASSUME OwnInv, NEW s \in Strings, NEW b \in Blocks, NEW n \in 0..MaxLength,
         NEW array \in Seq(Short), NEW h \in Heaps,
         NEW chars \in Seq(Char), NEW misuse \in BOOLEAN,
         Become(s, Members(b, n), chars, misuse),
         h[b] = Free, heap' = [h EXCEPT ![b] = array], n = 0 => array = <<>>,
         \/ Lives(s) /\ h = Without(Characters(s))
         \/ (Lives(s) => Length(s) = 0 \/ Characters(s) = Null) /\ h = heap
  PROVE  OwnInv'
<1>. USE UTF16StringAssumption
<1>1. /\ heap \in Heaps /\ DOMAIN object = Strings
      /\ text \in [Strings -> Seq(Char)] /\ misused \in BOOLEAN /\ crashed \in BOOLEAN
  BY DEF OwnInv, TypeOK, Heaps
<1>2. /\ object' = [object EXCEPT ![s] = Members(b, n)] /\ crashed' = crashed
      /\ misused' \in BOOLEAN /\ text' \in [Strings -> Seq(Char)]
  BY <1>1 DEF Become
<1>3. /\ \A t \in Strings \ {s} : object'[t] = object[t]
      /\ Lives(s)' /\ Characters(s)' = b /\ Length(s)' = n
  BY <1>1, <1>2, MembersLive DEF Lives, Characters, Length
<1>4. /\ heap' \in Heaps /\ heap'[b] = array /\ array # Free
      /\ \A c \in Blocks : c # b => heap'[c] = h[c]
  BY DEF Heaps
<1>5. TypeOK'
  BY <1>1, <1>2, <1>4, MembersLive DEF OwnInv, TypeOK, Heaps
<1>6. ASSUME NEW t \in Strings, t # s, Lives(t)
      PROVE  /\ Characters(t)' = Characters(t) /\ Length(t)' = Length(t) /\ Lives(t)'
             /\ Characters(t) # Null => /\ Characters(t) # b
                                        /\ heap'[Characters(t)] = heap[Characters(t)]
  <2>1. Characters(t)' = Characters(t) /\ Length(t)' = Length(t) /\ Lives(t)'
    BY <1>3, <1>6 DEF Characters, Length, Lives
  <2>2. Characters(t) # Null => /\ Characters(t) \in Blocks /\ heap[Characters(t)] # Free
                                /\ h[Characters(t)] = heap[Characters(t)]
    BY <1>6, OtherString
  <2>. QED
    BY <1>4, <2>1, <2>2
<1>7. \A t \in Strings : Lives(t)' => t = s \/ Lives(t)
  BY <1>3 DEF Lives
<1>8. OwnsItsArray'
  BY <1>3, <1>4, <1>6, <1>7 DEF OwnInv, OwnsItsArray
<1>9. EmptyArrays'
  BY <1>3, <1>4, <1>6, <1>7 DEF OwnInv, EmptyArrays
<1>10. OnlyEmptyLost'
  <2>. SUFFICES ASSUME NEW c \in Blocks, c \notin Owned'
                PROVE  heap'[c] \in {Free, <<>>}
    BY DEF OnlyEmptyLost
  <2>1. c # b /\ \A t \in Strings \ {s} : Lives(t) => Characters(t) # c
    BY <1>3, <1>6 DEF Owned
  <2>2. heap'[c] = h[c]
    BY <1>4, <2>1
  <2>3. CASE c \in Owned
    <3>1. Lives(s) /\ Characters(s) = c /\ c # Null
      BY <2>1, <2>3 DEF Owned
    <3>2. Length(s) = 0 => heap[c] = <<>>
      BY <3>1 DEF OwnInv, EmptyArrays
    <3>. QED
      BY <2>2, <3>1, <3>2, WithoutHeap DEF OwnInv
  <2>4. CASE c \notin Owned
    BY <2>2, <2>4, WithoutHeap DEF OwnInv, OnlyEmptyLost
  <2>. QED
    BY <2>3, <2>4
<1>. QED
  BY <1>5, <1>8, <1>9, <1>10 DEF OwnInv

-----------------------------------------------------------------------------
(* Characters.                                                             *)

\* The conversions lose neither a char nor the low byte of a character.
LEMMA Numbers ==
  /\ \A c \in Char : /\ ToShort(c) \in Short /\ ToChar(ToShort(c)) = c
                     /\ ToShort(SignedChar(c)) \in Short
                     /\ ToChar(ToShort(SignedChar(c))) = c
  /\ \A n \in Short : /\ ToShort(n) \in Short /\ ToChar(n) \in Char
                      /\ ToChar(ToShort(n)) = ToChar(n)
<1>1. \A n \in Int : 0 <= n /\ n < 65536 => n % 65536 = n
  BY SMT
<1>2. \A n \in Int : 0 <= n /\ n < 256 => /\ n % 256 = n
                                          /\ (n + 65280) % 256 = n
                                          /\ (n - 256) % 65536 = n + 65280
  BY SMT
<1>3. ASSUME NEW c \in Char
      PROVE  ToShort(c) = c /\ ToChar(c) = c /\ c \in Short
  <2>1. c \in Int /\ 0 <= c /\ c < 256 /\ c < 65536
    BY SMT DEF Char
  <2>2. ToShort(c) = c /\ ToChar(c) = c
    BY <1>1, <1>2, <2>1 DEF ToShort, ToChar
  <2>3. c \in Short
    BY SMTT(30) DEF Char, Short
  <2>. QED
    BY <2>2, <2>3
<1>4. ASSUME NEW c \in Char
      PROVE  /\ ToShort(SignedChar(c)) \in Short
             /\ ToChar(ToShort(SignedChar(c))) = c
  <2>1. CASE c < 128
    BY <1>3, <2>1, SMTT(30) DEF Char, SignedChar
  <2>2. CASE c >= 128
    <3>1. ToShort(SignedChar(c)) = c + 65280
      BY <1>2, <2>2, SMTT(30) DEF Char, ToShort, SignedChar
    <3>2. c + 65280 \in Short
      BY SMTT(30) DEF Char, Short
    <3>3. ToChar(c + 65280) = c
      BY <1>2, SMTT(30) DEF Char, ToChar
    <3>. QED
      BY <3>1, <3>2, <3>3
  <2>. QED
    BY <2>1, <2>2, SMTT(30) DEF Char
<1>5. ASSUME NEW n \in Short
      PROVE  ToShort(n) = n /\ ToChar(n) \in Char
  BY <1>1, SMTT(30) DEF Char, Short, ToShort, ToChar
<1>. QED
  BY <1>3, <1>4, <1>5

\* The chars of a std::string, each in the place of a character.
LEMMA WidenedChars ==
  ASSUME NEW chars \in Seq(Char)
  PROVE  /\ Widened(chars) \in Seq(Short) /\ Len(Widened(chars)) = Len(chars)
         /\ Appended(chars) \in Seq(Short) /\ Len(Appended(chars)) = Len(chars)
         /\ \A i \in 1..Len(chars) : /\ ToChar(Widened(chars)[i]) = chars[i]
                                     /\ ToChar(Appended(chars)[i]) = chars[i]
<1>1. \A i \in 1..Len(chars) : chars[i] \in Char
  OBVIOUS
<1>2. DOMAIN chars = 1..Len(chars) /\ Len(chars) \in Nat
  OBVIOUS
<1>3. /\ Widened(chars) \in [1..Len(chars) -> Short]
      /\ Appended(chars) \in [1..Len(chars) -> Short]
  BY <1>1, <1>2, Numbers DEF Widened, Appended
<1>4. \A i \in 1..Len(chars) : /\ ToChar(Widened(chars)[i]) = chars[i]
                               /\ ToChar(Appended(chars)[i]) = chars[i]
  BY <1>1, <1>2, Numbers DEF Widened, Appended
<1>. QED
  BY <1>2, <1>3, <1>4

LEMMA TheTexts ==
  ASSUME TypeOK
  PROVE  /\ heap \in Heaps /\ 0 \in 0..MaxLength /\ <<>> \in Seq(Char)
         /\ FALSE \in BOOLEAN
         /\ \A s \in Strings : text[s] \in Seq(Char)
         /\ \A b \in FreeBlocks : b \in Blocks /\ heap[b] = Free
         /\ \A c \in Texts : c \in Seq(Char) /\ Len(c) \in 0..MaxLength
         /\ \A n \in Codes : n \in Short
BY UTF16StringAssumption DEF TypeOK, Heaps, FreeBlocks

-----------------------------------------------------------------------------
(* The text of a string.                                                   *)

\* The array of s holds its text.
HasText(s) ==
  /\ Length(s) = Len(text[s])
  /\ \/ Length(s) = 0
     \/ /\ Characters(s) # Null
        /\ Len(heap[Characters(s)]) >= Length(s)
        /\ \A i \in 1..Length(s) : ToChar(heap[Characters(s)][i]) = text[s][i]

TextInv == misused \/ (~crashed /\ \A s \in Strings : Lives(s) => HasText(s))

\* What a loop over a string finds is its text, wherever its array is as it was.
LEMMA SeenText ==
  ASSUME OwnInv, NEW s \in Strings, Lives(s), HasText(s), NEW h \in Heaps,
         Characters(s) # Null => h[Characters(s)] = heap[Characters(s)]
  PROVE  /\ Readable(s) /\ Intact(h, s)
         /\ \A seen \in Seen(h, s) : /\ seen \in Seq(Short) /\ Len(seen) = Length(s)
                                     /\ \A i \in 1..Length(s) : ToChar(seen[i]) = text[s][i]
<1>. DEFINE b == Characters(s)
<1>1. b \in Blocks \cup {Null} /\ Length(s) \in Nat
  BY StringMembers, UTF16StringAssumption DEF OwnInv
<1>2. b # Null => heap[b] # Free
  BY DEF OwnInv, OwnsItsArray
<1>3. Readable(s) /\ Intact(h, s)
  BY <1>2 DEF HasText, Readable, Intact
<1>4. ASSUME NEW seen \in Seen(h, s)
      PROVE  /\ seen \in Seq(Short) /\ Len(seen) = Length(s)
             /\ \A i \in 1..Length(s) : ToChar(seen[i]) = text[s][i]
  <2>1. seen \in Seq(Short) /\ Len(seen) = Length(s)
    BY SeenLength DEF OwnInv
  <2>2. CASE Length(s) = 0
    BY <2>1, <2>2
  <2>3. CASE Length(s) # 0
    <3>1. seen = SubSeq(h[b], 1, Length(s)) /\ b # Null /\ h[b] = heap[b]
      BY <1>3, <2>3 DEF Seen, HasText
    <3>2. h[b] \in Seq(Short) /\ Len(h[b]) >= Length(s)
      BY <1>1, <1>2, <2>3, <3>1 DEF Heaps, HasText
    <3>3. \A i \in 1..Length(s) : seen[i] = heap[b][i]
      BY <1>1, <3>1, <3>2
    <3>. QED
      BY <2>1, <2>3, <3>3 DEF HasText
  <2>. QED
    BY <2>2, <2>3
<1>. QED
  BY <1>3, <1>4

\* When s becomes another string, the others keep their texts.
LEMMA TextKept ==
  ASSUME OwnInv, TextInv, NEW s \in Strings, NEW m, NEW chars, NEW misuse \in BOOLEAN,
         Become(s, m, chars, misuse), NEW h,
         h = heap \/ (Lives(s) /\ h = Without(Characters(s))),
         \/ heap' = h
         \/ \E b \in Blocks : h[b] = Free /\ \E array : heap' = [h EXCEPT ![b] = array],
         ~misused /\ ~misuse /\ Lives(s)' => HasText(s)'
  PROVE  TextInv'
<1>. SUFFICES ASSUME ~misused'
              PROVE  ~crashed' /\ \A t \in Strings : Lives(t)' => HasText(t)'
  BY DEF TextInv
<1>1. ~misused /\ ~misuse
  BY DEF Become
<1>2. /\ object' = [object EXCEPT ![s] = m] /\ text' = [text EXCEPT ![s] = chars]
      /\ ~crashed' /\ \A t \in Strings : Lives(t) => HasText(t)
  BY <1>1 DEF Become, TextInv
<1>3. ASSUME NEW t \in Strings, t # s, Lives(t)'
      PROVE  HasText(t)'
  <2>1. object'[t] = object[t] /\ text'[t] = text[t]
    BY <1>2, <1>3 DEF OwnInv, TypeOK
  <2>2. /\ Lives(t) /\ Characters(t)' = Characters(t) /\ Length(t)' = Length(t)
    BY <1>3, <2>1 DEF Lives, Characters, Length
  <2>3. ASSUME Characters(t) # Null
        PROVE  heap'[Characters(t)] = heap[Characters(t)]
    <3>1. /\ Characters(t) \in Blocks /\ heap[Characters(t)] # Free
          /\ h[Characters(t)] = heap[Characters(t)]
      BY <1>3, <2>2, <2>3, OtherString
    <3>2. CASE heap' = h
      BY <3>1, <3>2
    <3>3. CASE \E b \in Blocks : h[b] = Free /\ \E array : heap' = [h EXCEPT ![b] = array]
      <4>1. PICK b \in Blocks : h[b] = Free /\ \E array : heap' = [h EXCEPT ![b] = array]
        BY <3>3
      <4>2. b # Characters(t)
        BY <3>1, <4>1
      <4>3. h \in Heaps
        BY WithoutHeap, TheTexts DEF OwnInv
      <4>. QED
        BY <3>1, <4>1, <4>2, <4>3 DEF Heaps
    <3>. QED
      BY <3>2, <3>3
  <2>. QED
    BY <1>2, <2>1, <2>2, <2>3 DEF HasText
<1>. QED
  BY <1>1, <1>2, <1>3

LEMMA NoArrayText ==
  ASSUME OwnInv, NEW s \in Strings, NEW m, NEW chars, NEW misuse \in BOOLEAN,
         Become(s, m, chars, misuse),
         heap' = heap \/ (Lives(s) /\ heap' = Without(Characters(s))),
         TextInv /\ ~misused /\ ~misuse => m = Gone \/ (m.length = 0 /\ chars = <<>>),
         TextInv
  PROVE  TextInv'
<1>1. ASSUME ~misused, ~misuse, Lives(s)'
      PROVE  HasText(s)'
  <2>1. object'[s] = m /\ text'[s] = chars
    BY <1>1 DEF Become, OwnInv, TypeOK
  <2>2. Length(s)' = 0 /\ Len(text'[s]) = 0
    BY <1>1, <2>1 DEF Lives, Length
  <2>. QED
    BY <2>2 DEF HasText
<1>. QED
  BY <1>1, TextKept

LEMMA NewArrayText ==
  ASSUME OwnInv, NEW s \in Strings, NEW b \in Blocks, NEW n \in 0..MaxLength,
         NEW array, NEW h \in Heaps, NEW chars, NEW misuse \in BOOLEAN,
         Become(s, Members(b, n), chars, misuse),
         h[b] = Free, heap' = [h EXCEPT ![b] = array],
         h = heap \/ (Lives(s) /\ h = Without(Characters(s))),
         TextInv /\ ~misused /\ ~misuse =>
           /\ Len(chars) = n /\ Len(array) = n
           /\ \A i \in 1..n : ToChar(array[i]) = chars[i],
         TextInv
  PROVE  TextInv'
<1>1. ASSUME ~misused, ~misuse
      PROVE  HasText(s)'
  <2>1. object'[s] = Members(b, n) /\ text'[s] = chars /\ heap'[b] = array
    BY <1>1 DEF Become, OwnInv, TypeOK, Heaps
  <2>2. Characters(s)' = b /\ Length(s)' = n /\ b # Null /\ n \in Nat
    BY <2>1, MembersLive, UTF16StringAssumption DEF Characters, Length
  <2>. QED
    BY <1>1, <2>1, <2>2 DEF HasText
<1>. QED
  BY <1>1, TextKept

LEMMA JoinedLength ==
  ASSUME NEW S, NEW a \in Seq(S), NEW b \in Seq(S)
  PROVE  Len(a \o b) = Len(a) + Len(b)
OBVIOUS

\* The characters a give back the chars c.
Spells(a, c) == Len(a) = Len(c) /\ \A i \in 1..Len(a) : ToChar(a[i]) = c[i]

LEMMA JoinedText ==
  ASSUME NEW a \in Seq(Short), NEW b \in Seq(Short),
         NEW c \in Seq(Char), NEW d \in Seq(Char),
         Spells(a, c), Spells(b, d)
  PROVE  Spells(a \o b, c \o d)
<1>1. ASSUME NEW i \in 1..(Len(a) + Len(b))
      PROVE  ToChar((a \o b)[i]) = (c \o d)[i]
  <2>1. CASE i <= Len(a)
    BY <2>1 DEF Spells
  <2>2. CASE i > Len(a)
    <3>1. (a \o b)[i] = b[i - Len(a)] /\ (c \o d)[i] = d[i - Len(a)]
      BY <2>2 DEF Spells
    <3>2. i - Len(a) \in 1..Len(b)
      BY <2>2
    <3>. QED
      BY <3>1, <3>2 DEF Spells
  <2>3. i <= Len(a) \/ i > Len(a)
    OBVIOUS
  <2>. QED
    BY <2>1, <2>2, <2>3, Zenon
<1>2. Len(a \o b) = Len(a) + Len(b) /\ Len(c \o d) = Len(c) + Len(d)
  BY JoinedLength
<1>. QED
  BY <1>1, <1>2 DEF Spells

-----------------------------------------------------------------------------
(* Each operation.                                                         *)

LEMMA DefaultKeeps ==
  ASSUME OwnInv, NEW s \in Strings, Default(s)
  PROVE  OwnInv' /\ (TextInv => TextInv')
<1>1. Become(s, Members(Null, 0), <<>>, FALSE) /\ ~Lives(s) /\ heap' = heap
  BY DEF Default, Set
<1>2. Members(Null, 0).length = 0
  BY TheTexts, MembersLive DEF OwnInv
<1>. QED
  BY <1>1, <1>2, TheTexts, NoArray, NoArrayText DEF OwnInv

LEMMA FromStringKeeps ==
  ASSUME OwnInv, NEW s \in Strings, NEW chars \in Texts, FromString(s, chars)
  PROVE  OwnInv' /\ (TextInv => TextInv')
<1>1. PICK b \in FreeBlocks :
        /\ heap' = [heap EXCEPT ![b] = Widened(chars)]
        /\ Become(s, Members(b, Len(chars)), chars, FALSE)
  BY DEF FromString, Set
<1>2. ~Lives(s)
  BY DEF FromString
<1>3. /\ chars \in Seq(Char) /\ Len(chars) \in 0..MaxLength /\ heap \in Heaps
      /\ b \in Blocks /\ heap[b] = Free
  BY TheTexts DEF OwnInv
<1>4. /\ Widened(chars) \in Seq(Short)
      /\ Len(chars) = 0 => Widened(chars) = <<>>
      /\ Len(Widened(chars)) = Len(chars)
      /\ \A i \in 1..Len(chars) : ToChar(Widened(chars)[i]) = chars[i]
  BY <1>3, WidenedChars
<1>5. OwnInv'
  BY <1>1, <1>2, <1>3, <1>4, NewArray
<1>6. TextInv => TextInv'
  BY <1>1, <1>3, <1>4, NewArrayText
<1>. QED
  BY <1>5, <1>6

LEMMA CreateKeeps ==
  ASSUME OwnInv, NEW s \in Strings, NEW chars \in Texts, CreateUTF16String(s, chars)
  PROVE  OwnInv' /\ (TextInv => TextInv')
<1>1. ~Lives(s)
  BY DEF CreateUTF16String
<1>2. /\ chars \in Seq(Char) /\ Len(chars) \in 0..MaxLength /\ heap \in Heaps
  BY TheTexts DEF OwnInv
<1>3. CASE chars = <<>>
  <2>1. Become(s, Members(Null, 0), chars, FALSE) /\ heap' = heap
    BY <1>3 DEF CreateUTF16String, Set
  <2>2. Members(Null, 0).length = 0
    BY TheTexts, MembersLive DEF OwnInv
  <2>. QED
    BY <1>1, <1>2, <1>3, <2>1, <2>2, TheTexts, NoArray, NoArrayText DEF OwnInv
<1>4. CASE chars # <<>>
  <2>1. PICK b \in FreeBlocks :
          /\ heap' = [heap EXCEPT ![b] = Appended(chars)]
          /\ Become(s, Members(b, Len(chars)), chars, FALSE)
    BY <1>4 DEF CreateUTF16String, Set
  <2>2. b \in Blocks /\ heap[b] = Free
    BY TheTexts DEF OwnInv
  <2>3. /\ Appended(chars) \in Seq(Short) /\ Len(chars) # 0
        /\ Len(Appended(chars)) = Len(chars)
        /\ \A i \in 1..Len(chars) : ToChar(Appended(chars)[i]) = chars[i]
    BY <1>2, <1>4, WidenedChars
  <2>4. OwnInv'
    BY <1>1, <1>2, <2>1, <2>2, <2>3, NewArray
  <2>5. TextInv => TextInv'
    BY <1>2, <2>1, <2>2, <2>3, NewArrayText
  <2>. QED
    BY <2>4, <2>5
<1>. QED
  BY <1>3, <1>4

LEMMA CopyKeeps ==
  ASSUME OwnInv, NEW s \in Strings, NEW t \in Strings, Copy(s, t)
  PROVE  OwnInv' /\ (TextInv => TextInv')
<1>1. PICK b \in FreeBlocks, seen \in Seen(heap, t) :
        /\ heap' = [heap EXCEPT ![b] = seen]
        /\ Become(s, Members(b, Length(t)), text[t], FALSE)
  BY DEF Copy, Set
<1>2. ~Lives(s) /\ Lives(t)
  BY DEF Copy, Readable
<1>3. /\ heap \in Heaps /\ b \in Blocks /\ heap[b] = Free /\ text[t] \in Seq(Char)
  BY TheTexts DEF OwnInv
<1>4. seen \in Seq(Short) /\ Len(seen) = Length(t) /\ Length(t) \in 0..MaxLength
  BY <1>2, <1>3, SeenLength, StringMembers DEF OwnInv
<1>5. Length(t) = 0 => seen = <<>>
  BY <1>4
<1>6. OwnInv'
  BY <1>1, <1>2, <1>3, <1>4, <1>5, NewArray
<1>7. ASSUME TextInv, ~misused
      PROVE  /\ Len(text[t]) = Length(t)
             /\ \A i \in 1..Length(t) : ToChar(seen[i]) = text[t][i]
  <2>1. HasText(t)
    BY <1>2, <1>7 DEF TextInv
  <2>. QED
    BY <1>2, <1>3, <2>1, SeenText DEF HasText
<1>8. TextInv => TextInv'
  BY <1>1, <1>3, <1>4, <1>7, NewArrayText
<1>. QED
  BY <1>6, <1>8

LEMMA DestroyKeeps ==
  ASSUME OwnInv, NEW s \in Strings, Destroy(s)
  PROVE  OwnInv' /\ (TextInv => TextInv')
<1>1. /\ Lives(s) /\ heap' = Without(Characters(s))
      /\ Become(s, Gone, <<>>, FALSE)
  BY DEF Destroy
<1>. QED
  BY <1>1, TheTexts, NoArray, NoArrayText DEF OwnInv

LEMMA AppendStringKeeps ==
  ASSUME OwnInv, NEW s \in Strings, NEW t \in Strings, AppendString(s, t)
  PROVE  OwnInv' /\ (TextInv => TextInv')
<1>. DEFINE h == Without(Characters(s))
            n == Length(s) + Length(t)
<1>1. PICK b \in FreeBlocks, head \in Seen(heap, s), tail \in Seen(h, t) :
        /\ heap' = [h EXCEPT ![b] = head \o tail]
        /\ Become(s, Members(b, n), text[s] \o text[t], s = t)
  BY DEF AppendString
<1>2. Lives(s) /\ Lives(t) /\ Length(t) # 0 /\ n <= MaxLength
  BY DEF AppendString, Readable
<1>3. /\ heap \in Heaps /\ b \in Blocks /\ heap[b] = Free
      /\ text[s] \in Seq(Char) /\ text[t] \in Seq(Char)
  BY TheTexts DEF OwnInv
<1>4. h \in Heaps /\ h[b] = Free
  BY <1>3, WithoutHeap DEF OwnInv
<1>5. head \in Seq(Short) /\ tail \in Seq(Short)
  BY <1>2, <1>3, <1>4, SeenLength DEF OwnInv
<1>6. n \in 0..MaxLength /\ n # 0
  BY <1>2, StringMembers, UTF16StringAssumption DEF OwnInv
<1>7. head \o tail \in Seq(Short) /\ text[s] \o text[t] \in Seq(Char)
  BY <1>3, <1>5
<1>8. (s = t) \in BOOLEAN
  OBVIOUS
<1>9. ASSUME TextInv, ~misused, s # t
      PROVE  LET joined == head \o tail
                 chars == text[s] \o text[t]
             IN  /\ Len(chars) = n /\ Len(joined) = n
                 /\ \A i \in 1..n : ToChar(joined[i]) = chars[i]
  <2>1. HasText(s) /\ HasText(t)
    BY <1>2, <1>9 DEF TextInv
  <2>2. Characters(t) # Null => h[Characters(t)] = heap[Characters(t)]
    BY <1>2, <1>9, OtherString
  <2>3. /\ Len(head) = Length(s) /\ Len(text[s]) = Length(s)
        /\ \A i \in 1..Length(s) : ToChar(head[i]) = text[s][i]
    BY <1>2, <1>3, <2>1, SeenText DEF HasText
  <2>4. /\ Len(tail) = Length(t) /\ Len(text[t]) = Length(t)
        /\ \A i \in 1..Length(t) : ToChar(tail[i]) = text[t][i]
    BY <1>2, <1>4, <2>1, <2>2, SeenText DEF HasText
  <2>5. Spells(head, text[s]) /\ Spells(tail, text[t])
    BY <2>3, <2>4 DEF Spells
  <2>6. Spells(head \o tail, text[s] \o text[t])
    BY <1>3, <1>5, <2>5, JoinedText
  <2>7. Len(head \o tail) = n
    BY <1>5, <2>3, <2>4, JoinedLength
  <2>. QED
    BY <2>6, <2>7 DEF Spells
<1>. HIDE DEF h, n
<1>10. OwnInv'
  BY <1>1, <1>2, <1>3, <1>4, <1>6, <1>7, <1>8, NewArray DEF h
<1>11. TextInv => TextInv'
  BY <1>1, <1>2, <1>3, <1>4, <1>6, <1>8, <1>9, NewArrayText DEF h
<1>. QED
  BY <1>10, <1>11

LEMMA AppendCharKeeps ==
  ASSUME OwnInv, NEW s \in Strings, NEW c \in Codes, AppendChar(s, c)
  PROVE  OwnInv' /\ (TextInv => TextInv')
<1>. DEFINE h == Without(Characters(s))
            n == Length(s) + 1
<1>1. PICK b \in FreeBlocks, head \in Seen(heap, s) :
        /\ heap' = [h EXCEPT ![b] = head \o <<ToShort(c)>>]
        /\ Become(s, Members(b, n), text[s] \o <<ToChar(c)>>, FALSE)
  BY DEF AppendChar, Set
<1>2. Lives(s) /\ Length(s) < MaxLength
  BY DEF AppendChar
<1>3. /\ heap \in Heaps /\ b \in Blocks /\ heap[b] = Free
      /\ text[s] \in Seq(Char) /\ c \in Short
  BY TheTexts DEF OwnInv
<1>4. h \in Heaps /\ h[b] = Free
  BY <1>3, WithoutHeap DEF OwnInv
<1>5. head \in Seq(Short)
  BY <1>2, <1>3, SeenLength DEF OwnInv
<1>6. n \in 0..MaxLength /\ n # 0
  BY <1>2, StringMembers, UTF16StringAssumption DEF OwnInv
<1>7. ToShort(c) \in Short /\ ToChar(c) \in Char
  BY <1>3, Numbers
<1>8. head \o <<ToShort(c)>> \in Seq(Short) /\ text[s] \o <<ToChar(c)>> \in Seq(Char)
  BY <1>3, <1>5, <1>7
<1>9. ASSUME TextInv, ~misused
      PROVE  LET joined == head \o <<ToShort(c)>>
                 chars == text[s] \o <<ToChar(c)>>
             IN  /\ Len(chars) = n /\ Len(joined) = n
                 /\ \A i \in 1..n : ToChar(joined[i]) = chars[i]
  <2>1. HasText(s)
    BY <1>2, <1>9 DEF TextInv
  <2>2. Spells(head, text[s]) /\ Len(head) = Length(s)
    BY <1>2, <1>3, <2>1, SeenText DEF HasText, Spells
  <2>3. Spells(<<ToShort(c)>>, <<ToChar(c)>>)
    BY <1>3, Numbers DEF Spells
  <2>4. /\ <<ToShort(c)>> \in Seq(Short) /\ <<ToChar(c)>> \in Seq(Char)
        /\ Len(<<ToShort(c)>>) = 1
    BY <1>7
  <2>5. Spells(head \o <<ToShort(c)>>, text[s] \o <<ToChar(c)>>)
    BY <1>3, <1>5, <2>2, <2>3, <2>4, JoinedText
  <2>6. Len(head \o <<ToShort(c)>>) = n
    BY <1>5, <2>2, <2>4, JoinedLength
  <2>. QED
    BY <2>5, <2>6 DEF Spells
<1>. HIDE DEF h, n
<1>10. OwnInv'
  BY <1>1, <1>2, <1>3, <1>4, <1>6, <1>8, NewArray DEF h
<1>11. TextInv => TextInv'
  BY <1>1, <1>2, <1>3, <1>4, <1>6, <1>9, NewArrayText DEF h
<1>. QED
  BY <1>10, <1>11

LEMMA PlusKeeps ==
  ASSUME OwnInv, NEW s \in Strings, NEW t \in Strings, NEW u \in Strings, Plus(s, t, u)
  PROVE  OwnInv' /\ (TextInv => TextInv')
<1>. DEFINE n == Length(t) + Length(u)
<1>1. PICK b \in FreeBlocks, head \in Seen(heap, t), tail \in Seen(heap, u) :
        /\ heap' = [heap EXCEPT ![b] = head \o tail]
        /\ Become(s, Members(b, n), text[t] \o text[u], FALSE)
  BY DEF Plus, Set
<1>2. ~Lives(s) /\ Lives(t) /\ Lives(u) /\ n <= MaxLength
  BY DEF Plus, Readable
<1>3. /\ heap \in Heaps /\ b \in Blocks /\ heap[b] = Free
      /\ text[t] \in Seq(Char) /\ text[u] \in Seq(Char)
  BY TheTexts DEF OwnInv
<1>4. /\ head \in Seq(Short) /\ Len(head) = Length(t)
      /\ tail \in Seq(Short) /\ Len(tail) = Length(u)
      /\ Length(t) \in 0..MaxLength /\ Length(u) \in 0..MaxLength
  BY <1>2, <1>3, SeenLength, StringMembers DEF OwnInv
<1>5. n \in 0..MaxLength
  BY <1>2, <1>4, UTF16StringAssumption
<1>6. head \o tail \in Seq(Short) /\ text[t] \o text[u] \in Seq(Char)
  BY <1>3, <1>4
<1>7. n = 0 => head \o tail = <<>>
  <2>1. ASSUME n = 0 PROVE Len(head) = 0 /\ Len(tail) = 0
    BY <1>4, <2>1
  <2>2. ASSUME n = 0 PROVE head = <<>> /\ tail = <<>>
    BY <1>4, <2>1, <2>2
  <2>. QED
    BY <2>2
<1>8. ASSUME TextInv, ~misused
      PROVE  LET joined == head \o tail
                 chars == text[t] \o text[u]
             IN  /\ Len(chars) = n /\ Len(joined) = n
                 /\ \A i \in 1..n : ToChar(joined[i]) = chars[i]
  <2>1. HasText(t) /\ HasText(u)
    BY <1>2, <1>8 DEF TextInv
  <2>2. /\ Len(text[t]) = Length(t)
        /\ \A i \in 1..Length(t) : ToChar(head[i]) = text[t][i]
    BY <1>2, <1>3, <2>1, SeenText DEF HasText
  <2>3. /\ Len(text[u]) = Length(u)
        /\ \A i \in 1..Length(u) : ToChar(tail[i]) = text[u][i]
    BY <1>2, <1>3, <2>1, SeenText DEF HasText
  <2>4. Spells(head, text[t]) /\ Spells(tail, text[u])
    BY <1>4, <2>2, <2>3 DEF Spells
  <2>5. Spells(head \o tail, text[t] \o text[u])
    BY <1>3, <1>4, <2>4, JoinedText
  <2>6. Len(head \o tail) = n
    BY <1>4, JoinedLength
  <2>. QED
    BY <2>5, <2>6 DEF Spells
<1>. HIDE DEF n
<1>9. OwnInv'
  BY <1>1, <1>2, <1>3, <1>5, <1>6, <1>7, NewArray
<1>10. TextInv => TextInv'
  BY <1>1, <1>3, <1>5, <1>8, NewArrayText
<1>. QED
  BY <1>9, <1>10

\* What = makes of the old array.
LEMMA ClearedHeap ==
  ASSUME OwnInv, NEW s \in Strings, Lives(s)
  PROVE  /\ Cleared(s) \in Heaps
         /\ \/ Cleared(s) = Without(Characters(s)) /\ Kept(s) = Null
            \/ Cleared(s) = heap /\ Kept(s) = Characters(s) /\ Length(s) = 0
BY WithoutHeap, TheTexts DEF OwnInv, Cleared, Kept

LEMMA AssignNothingKeeps ==
  ASSUME OwnInv, NEW s \in Strings, NEW t \in Strings, AssignNothing(s, t)
  PROVE  OwnInv' /\ (TextInv => TextInv')
<1>1. /\ Lives(s) /\ Lives(t) /\ heap' = Cleared(s)
      /\ Become(s, Members(Kept(s), Length(t)), text[t], s = t)
  BY DEF AssignNothing
<1>2. /\ Length(t) \in 0..MaxLength /\ text[t] \in Seq(Char) /\ (s = t) \in BOOLEAN
  BY <1>1, TheTexts, StringMembers DEF OwnInv
<1>3. OwnInv'
  BY <1>1, <1>2, ClearedHeap, NoArray
<1>4. ASSUME TextInv, ~misused, s # t
      PROVE  Members(Kept(s), Length(t)).length = 0 /\ text[t] = <<>>
  <2>1. HasText(t)
    BY <1>1, <1>4 DEF TextInv
  <2>2. Length(t) = 0 /\ Len(text[t]) = 0
    BY <1>4, <2>1 DEF AssignNothing, HasText
  <2>. QED
    BY <1>2, <2>2 DEF Members
<1>5. TextInv => TextInv'
  BY <1>1, <1>2, <1>4, ClearedHeap, NoArrayText
<1>. QED
  BY <1>3, <1>5

LEMMA AssignThrowsKeeps ==
  ASSUME OwnInv, NEW s \in Strings, NEW t \in Strings, AssignThrows(s, t)
  PROVE  OwnInv' /\ (TextInv => TextInv')
<1>1. /\ Lives(s) /\ Lives(t) /\ heap' = Cleared(s)
      /\ Become(s, Members(Kept(s), Length(t)), <<>>, TRUE)
  BY DEF AssignThrows
<1>2. Length(t) \in 0..MaxLength /\ <<>> \in Seq(Char)
  BY <1>1, StringMembers DEF OwnInv
<1>3. OwnInv'
  BY <1>1, <1>2, ClearedHeap, NoArray
<1>4. TextInv'
  BY <1>1 DEF Become, TextInv
<1>. QED
  BY <1>3, <1>4

LEMMA AssignKeeps ==
  ASSUME OwnInv, NEW s \in Strings, NEW t \in Strings, Assign(s, t)
  PROVE  OwnInv' /\ (TextInv => TextInv')
<1>1. PICK b \in {c \in Blocks : Cleared(s)[c] = Free}, seen \in Seen(Cleared(s), t) :
        /\ heap' = [Cleared(s) EXCEPT ![b] = seen]
        /\ Become(s, Members(b, Length(t)), text[t], FALSE)
  BY DEF Assign, Set
<1>2. Lives(s) /\ Lives(t) /\ Length(t) # 0
  BY DEF Assign
<1>3. /\ Length(t) \in 0..MaxLength /\ text[t] \in Seq(Char) /\ seen \in Seq(Short)
      /\ Cleared(s) \in Heaps
  BY <1>2, TheTexts, StringMembers, SeenLength, ClearedHeap DEF OwnInv
<1>4. OwnInv'
  BY <1>1, <1>2, <1>3, ClearedHeap, NewArray
<1>5. ASSUME TextInv, ~misused
      PROVE  /\ Len(text[t]) = Length(t) /\ Len(seen) = Length(t)
             /\ \A i \in 1..Length(t) : ToChar(seen[i]) = text[t][i]
  <2>1. HasText(t)
    BY <1>2, <1>5 DEF TextInv
  <2>2. Characters(t) # Null => Cleared(s)[Characters(t)] = heap[Characters(t)]
    BY <1>2, ClearedHeap, OtherString DEF Assign
  <2>. QED
    BY <1>2, <1>3, <2>1, <2>2, SeenText DEF HasText
<1>6. TextInv => TextInv'
  BY <1>1, <1>2, <1>3, <1>5, ClearedHeap, NewArrayText
<1>. QED
  BY <1>4, <1>6

LEMMA StringsNext ==
  OwnInv /\ [Next]_vars => OwnInv' /\ (TextInv => TextInv')
<1>. SUFFICES ASSUME OwnInv, [Next]_vars
              PROVE  OwnInv' /\ (TextInv => TextInv')
  OBVIOUS
<1>1. CASE Crash \/ UNCHANGED vars
  <2>1. OwnInv'
    BY <1>1
    DEF Crash, vars, OwnInv, TypeOK, OwnsItsArray, EmptyArrays, OnlyEmptyLost, Owned,
        Lives, Characters, Length
  <2>2. Crash /\ TextInv => misused
    <3>1. \A s \in Strings : Lives(s) /\ HasText(s) => Readable(s)
      BY DEF HasText, Readable
    <3>. QED
      BY <3>1 DEF Crash, TextInv
  <2>3. TextInv => TextInv'
    BY <1>1, <2>2
    DEF Crash, vars, TextInv, HasText, Lives, Characters, Length
  <2>. QED
    BY <2>1, <2>3
<1>. QED
  BY <1>1, DefaultKeeps, FromStringKeeps, CreateKeeps, CopyKeeps, DestroyKeeps,
     AppendStringKeeps, AppendCharKeeps, PlusKeeps, AssignNothingKeeps, AssignThrowsKeeps,
     AssignKeeps
  DEF Next

LEMMA TextInit == Init => TextInv
BY DEF Init, TextInv, Lives

\* The characters of all strings are unsigned shorts, whatever int is appended
\* and whatever char a string is made from.
THEOREM StringsTypeCorrect == Spec => []TypeOK
<1>1. OwnInv => TypeOK
  BY DEF OwnInv
<1>. QED
  BY OwnInit, StringsNext, <1>1, PTL DEF Spec

\* Whatever is done with the strings, each owns its array: no destructor
\* deletes an array that another string has, or that is gone.
THEOREM StringsOwnTheirArrays == Spec => []OwnsItsArray
<1>1. OwnInv => OwnsItsArray
  BY DEF OwnInv
<1>. QED
  BY OwnInit, StringsNext, <1>1, PTL DEF Spec

\* No array with a character in it is ever lost.
THEOREM OnlyEmptyArraysLost == Spec => []OnlyEmptyLost
<1>1. OwnInv => OnlyEmptyLost
  BY DEF OwnInv
<1>. QED
  BY OwnInit, StringsNext, <1>1, PTL DEF Spec

\* As long as no string is given to its own append or = and = finds memory, every
\* string holds its text, chars above 127 and appended numbers included: every
\* loop over one stays in its array, and nothing dereferences nullptr.
THEOREM StringsHoldTheirTexts == Spec => []HoldsItsText
<1>1. OwnInv /\ TextInv => HoldsItsText
  <2>. SUFFICES ASSUME OwnInv, TextInv, ~misused, NEW s \in Strings, Lives(s)
                PROVE  /\ Length(s) = Len(text[s]) /\ Readable(s) /\ Intact(heap, s)
                       /\ \A seen \in Seen(heap, s) : \A i \in DOMAIN seen :
                            ToChar(seen[i]) = text[s][i]
    BY DEF HoldsItsText, TextInv
  <2>1. HasText(s)
    BY DEF TextInv
  <2>2. heap \in Heaps
    BY TheTexts DEF OwnInv
  <2>3. \A seen \in Seq(Short) : DOMAIN seen = 1..Len(seen)
    OBVIOUS
  <2>. QED
    BY <2>1, <2>2, <2>3, SeenText DEF HasText
<1>. QED
  BY OwnInit, TextInit, StringsNext, <1>1, PTL DEF Spec
=============================================================================
