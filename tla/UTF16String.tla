---------------------------- MODULE UTF16String -----------------------------
(***************************************************************************)
(* utils::UTF16String, a string that manages its own array of characters:  *)
(* its constructors, destructor, append, + and =, and ConsoleUtils's       *)
(* createUTF16String, in any order on a few strings.  The text of a packet *)
(* is built this way: serializeServerInfo appends strings and characters,  *)
(* a vector of strings copies and destroys them as it grows, KickPacket    *)
(* keeps a copy.                                                           *)
(*                                                                         *)
(* The heap is a set of blocks, each free or holding the characters of an  *)
(* array; new may find no memory.  One thread uses the strings.            *)
(***************************************************************************)
EXTENDS Integers, Sequences

Char == 0..255              \* unsigned char
Short == 0..65535           \* unsigned short

CONSTANTS
  Strings,          \* the places of UTF16String objects
  Blocks,           \* bound: the heap
  Free, Null, Gone, \* a free block, nullptr, a place without an object
  Texts,            \* what a std::string may hold (as Chars)
  Codes,            \* what append(int) is called with
  MaxLength         \* bound: the length of a string

ASSUME UTF16StringAssumption ==
  /\ Free \notin Seq(Short) /\ Null \notin Blocks
  /\ Gone \notin [characters : Blocks \cup {Null}, length : 0..MaxLength]
  /\ MaxLength \in Nat
  /\ Texts \subseteq Seq(Char) /\ Codes \subseteq Short
  /\ \A s \in Texts : Len(s) <= MaxLength

VARIABLES
  heap,             \* for each block, Free or the characters in it
  object,           \* for each place, Gone or the members of the string
  text,             \* history: the chars the string stands for
  misused,          \* history: a string met itself, or ran out of memory in =
  crashed           \* nullptr was dereferenced

vars == <<heap, object, text, misused, crashed>>

Init ==
  /\ heap = [b \in Blocks |-> Free]
  /\ object = [s \in Strings |-> Gone]
  /\ text = [s \in Strings |-> <<>>]
  /\ misused = FALSE /\ crashed = FALSE

Lives(s) == object[s] # Gone
Characters(s) == object[s].characters
Length(s) == object[s].length
Members(b, n) == [characters |-> b, length |-> n]
FreeBlocks == {b \in Blocks : heap[b] = Free}

\* delete[]: of nullptr it does nothing.
Without(b) == [c \in Blocks |-> IF c = b THEN Free ELSE heap[c]]

\* What a loop over all characters of s finds: behind the end of an array, and
\* in an array that was deleted, anything.
Intact(h, s) == LET b == Characters(s) IN
  Length(s) = 0 \/ (b # Null /\ h[b] # Free /\ Len(h[b]) >= Length(s))
Seen(h, s) == IF Intact(h, s)
                THEN {IF Length(s) = 0 THEN <<>>
                                       ELSE SubSeq(h[Characters(s)], 1, Length(s))}
                ELSE [1..Length(s) -> Codes]
Readable(s) == Lives(s) /\ (Characters(s) # Null \/ Length(s) = 0)

\* s has become members, and stands for chars; after a misuse it is no use to
\* remember what a string stands for.
Become(s, members, chars, misuse) ==
  /\ object' = [object EXCEPT ![s] = members]
  /\ misused' = (misused \/ misuse)
  /\ text' = IF misused \/ misuse THEN [t \in Strings |-> <<>>]
                                  ELSE [text EXCEPT ![s] = chars]
  /\ UNCHANGED crashed
Set(s, b, n, chars) == Become(s, Members(b, n), chars, FALSE)

-----------------------------------------------------------------------------
(* Characters.  A char is signed on the machines the server is built for.  *)

\* Variant with a bug: the number is stored as it is.
ToAnyNumber(n) == n

ToShort(n) == n % 65536
SignedChar(c) == IF c >= 128 THEN c - 256 ELSE c
ToChar(u) == u % 256

\* UTF16String(const std::string &) goes by way of unsigned char ...
Widened(s) == [i \in DOMAIN s |-> ToShort(s[i])]

\* ... createUTF16String by way of the char itself.
Appended(s) == [i \in DOMAIN s |-> ToShort(SignedChar(s[i]))]

-----------------------------------------------------------------------------
(* Constructors and the destructor.                                        *)

Default(s) ==
  /\ ~Lives(s)
  /\ Set(s, Null, 0, <<>>)
  /\ UNCHANGED heap

\* From a std::string: an array is allocated even for the empty one.  When new
\* throws there is no object, as in every constructor.
FromString(s, chars) ==
  /\ ~Lives(s)
  /\ \E b \in FreeBlocks :
       /\ heap' = [heap EXCEPT ![b] = Widened(chars)]
       /\ Set(s, b, Len(chars), chars)

\* createUTF16String: append, char by char, to an empty string, which is
\* returned; the arrays in between are deleted.
CreateUTF16String(s, chars) ==
  /\ ~Lives(s)
  /\ IF chars = <<>>
       THEN Set(s, Null, 0, chars) /\ UNCHANGED heap
       ELSE \E b \in FreeBlocks :
              /\ heap' = [heap EXCEPT ![b] = Appended(chars)]
              /\ Set(s, b, Len(chars), chars)

Copy(s, t) ==
  /\ ~Lives(s) /\ Readable(t)
  /\ \E b \in FreeBlocks, seen \in Seen(heap, t) :
       /\ heap' = [heap EXCEPT ![b] = seen]
       /\ Set(s, b, Length(t), text[t])

\* Variant with a bug: the destructor frees nothing.
Forget(s) ==
  /\ Lives(s)
  /\ Become(s, Gone, <<>>, FALSE)
  /\ UNCHANGED heap

Destroy(s) ==
  /\ Lives(s)
  /\ heap' = Without(Characters(s))
  /\ Become(s, Gone, <<>>, FALSE)

-----------------------------------------------------------------------------
(* append, += and +.                                                       *)

\* Variant with a bug: the old array is deleted before it is copied.
AppendAfterDelete(s, t) ==
  /\ Readable(s) /\ Readable(t)
  /\ Length(t) # 0
  /\ Length(s) + Length(t) <= MaxLength
  /\ \E b \in FreeBlocks, head \in Seen(Without(Characters(s)), s), tail \in Seen(Without(Characters(s)), t) :
       /\ heap' = [Without(Characters(s)) EXCEPT ![b] = head \o tail]
       /\ Become(s, Members(b, Length(s) + Length(t)), text[s] \o text[t], s = t)

\* The new array is filled from the old one, which is deleted before the
\* characters of t are read: they are the old one's when t is s.
AppendString(s, t) ==
  /\ Readable(s) /\ Readable(t)
  /\ Length(t) # 0
  /\ Length(s) + Length(t) <= MaxLength
  /\ \E b \in FreeBlocks, head \in Seen(heap, s), tail \in Seen(Without(Characters(s)), t) :
       /\ heap' = [Without(Characters(s)) EXCEPT ![b] = head \o tail]
       /\ Become(s, Members(b, Length(s) + Length(t)), text[s] \o text[t], s = t)

\* nullptr is asked for, unlike in the append of a string: nothing is copied then,
\* whatever the length says, and the new array begins with anything.
AppendChar(s, n) ==
  /\ Lives(s)
  /\ Length(s) < MaxLength
  /\ \E b \in FreeBlocks, head \in Seen(heap, s) :
       /\ heap' = [Without(Characters(s)) EXCEPT ![b] = head \o <<ToShort(n)>>]
       /\ Set(s, b, Length(s) + 1, text[s] \o <<ToChar(n)>>)

\* A copy of t to which u is appended; the free function + copies that once
\* more and destroys it.
Plus(s, t, u) ==
  /\ ~Lives(s) /\ Readable(t) /\ Readable(u)
  /\ Length(t) + Length(u) <= MaxLength
  /\ \E b \in FreeBlocks, head \in Seen(heap, t), tail \in Seen(heap, u) :
       /\ heap' = [heap EXCEPT ![b] = head \o tail]
       /\ Set(s, b, Length(t) + Length(u), text[t] \o text[u])

-----------------------------------------------------------------------------
(* operator=: the old array is deleted, the length set, and then a new     *)
(* array is allocated and filled.                                          *)

\* The old array, unless the length says there is none, and the pointer to it.
Cleared(s) == IF Length(s) # 0 THEN Without(Characters(s)) ELSE heap

\* Variant with a bug: the array is deleted, the pointer keeps its value.
KeptDangling(s) == Characters(s)

Kept(s) == IF Length(s) # 0 THEN Null ELSE Characters(s)

\* t has no characters, by now: it is empty, or s itself.
AssignNothing(s, t) ==
  /\ Lives(s) /\ Lives(t)
  /\ Length(t) = 0 \/ (IF s = t THEN Kept(s) ELSE Characters(t)) = Null
  /\ heap' = Cleared(s)
  /\ Become(s, Members(Kept(s), Length(t)), text[t], s = t)

Assign(s, t) ==
  /\ Lives(s) /\ Lives(t) /\ s # t
  /\ Length(t) # 0 /\ Characters(t) # Null
  /\ \E b \in {c \in Blocks : Cleared(s)[c] = Free}, seen \in Seen(Cleared(s), t) :
       /\ heap' = [Cleared(s) EXCEPT ![b] = seen]
       /\ Set(s, b, Length(t), text[t])

\* new throws half way.
AssignThrows(s, t) ==
  /\ Lives(s) /\ Lives(t) /\ s # t
  /\ Length(t) # 0 /\ Characters(t) # Null
  /\ heap' = Cleared(s)
  /\ Become(s, Members(Kept(s), Length(t)), <<>>, TRUE)

\* Any use of characters that are not there.
Crash ==
  /\ \E s \in Strings : Lives(s) /\ ~Readable(s)
  /\ crashed' = TRUE
  /\ UNCHANGED <<heap, object, text, misused>>

Next ==
  /\ ~crashed
  /\ \/ Crash
     \/ \E s \in Strings :
          \/ Default(s) \/ Destroy(s)
          \/ \E chars \in Texts : FromString(s, chars) \/ CreateUTF16String(s, chars)
          \/ \E n \in Codes : AppendChar(s, n)
          \/ \E t \in Strings :
               \/ Copy(s, t) \/ AppendString(s, t)
               \/ AssignNothing(s, t) \/ Assign(s, t) \/ AssignThrows(s, t)
               \/ \E u \in Strings : Plus(s, t, u)

Spec == Init /\ [][Next]_vars

-----------------------------------------------------------------------------
TypeOK ==
  /\ heap \in [Blocks -> {Free} \cup Seq(Short)]
  /\ object \in [Strings -> {Gone} \cup
                   [characters : Blocks \cup {Null}, length : 0..MaxLength]]
  /\ text \in [Strings -> Seq(Char)]
  /\ misused \in BOOLEAN /\ crashed \in BOOLEAN

\* Whatever is done with the strings, a string to itself and a throw in =
\* included, each owns its array: it is allocated, and no other string's, so the
\* destructors delete every array at most once.
\* Code: the order of delete[], new and the assignments of characters.
OwnsItsArray ==
  \A s \in Strings : Lives(s) /\ Characters(s) # Null =>
    /\ heap[Characters(s)] # Free
    /\ \A t \in Strings \ {s} : Lives(t) => Characters(t) # Characters(s)

Owned == {Characters(s) : s \in {t \in Strings : Lives(t)}}

\* The one array an operation can lose is that of an empty string.
\* Code: the tests of length and of characters before delete[].
OnlyEmptyLost == \A b \in Blocks \ Owned : heap[b] \in {Free, <<>>}

\* As long as no string is given to its own append or =, and no = runs out of
\* memory, every string holds its text, and toString gives back the chars that
\* went in.
\* Code: every operation, toString.
HoldsItsText ==
  misused \/ /\ ~crashed
             /\ \A s \in Strings : Lives(s) =>
                  /\ Length(s) = Len(text[s]) /\ Readable(s) /\ Intact(heap, s)
                  /\ \A seen \in Seen(heap, s) : \A i \in DOMAIN seen :
                       ToChar(seen[i]) = text[s][i]

-----------------------------------------------------------------------------
(* What the repository says of the strings and the code does not do.       *)

\* There is no memory leak (README.md:89).
NothingLost == \A b \in Blocks \ Owned : heap[b] = Free

\* A string holds the same text as the chars it was made from, widened
\* (ConsoleUtils.cpp:37).
SameTextWidened ==
  misused \/ \A s \in Strings : Lives(s) => Seen(heap, s) = {Widened(text[s])}
=============================================================================
