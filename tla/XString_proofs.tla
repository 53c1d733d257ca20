------------------------------ MODULE XString_proofs ------------------------------
(***************************************************************************)
(* The string class against basic_string, for buffers of any size and      *)
(* strings of any characters.  A string of n characters is a function on   *)
(* 1 .. n; what an edit makes of it is put together of Cut and Put.        *)
(***************************************************************************)
EXTENDS XStringSearch, SequenceTheorems, WellFoundedInduction, TLAPS

\* The strings of n members of S.
Word(S, n) == [1 .. n -> S]

\* s, of n characters, and behind it t, of m; the characters of s from first to
\* last - 1; and s with chars[i] behind the first + i - 1st of them.
Join(s, n, t, m) == [i \in 1 .. n + m |-> IF i <= n THEN s[i] ELSE t[i - n]]
Slice(s, first, last) == [i \in 1 .. last - first |-> s[i + first]]

\* The n characters of s without those from first to last - 1; and with the m of
\* chars behind the first pos.
Cut(s, n, first, last) ==
    [i \in 1 .. n - (last - first) |-> IF i <= first THEN s[i] ELSE s[i + (last - first)]]
Put(s, n, pos, chars, m) ==
    [i \in 1 .. n + m |-> IF i <= pos THEN s[i]
                          ELSE IF i <= pos + m THEN chars[i - pos] ELSE s[i - m]]

\* What the replacement makes of the text: the range goes and chars comes; and the
\* same put together from the parts.
Respelt(s, n, first, last, chars, m) ==
    Put(Cut(s, n, first, last), n - (last - first), first, chars, m)
FromParts(s, n, first, last, chars) ==
    SubSeq(s, 1, first) \o chars \o SubSeq(s, last + 1, n)

\* Two words joined are a word as long as both.
LEMMA JoinType ==
    ASSUME NEW S, NEW n \in Nat, NEW m \in Nat, NEW s \in Word(S, n), NEW t \in Word(S, m)
    PROVE  Join(s, n, t, m) \in Word(S, n + m)
<1> SUFFICES ASSUME NEW i \in 1 .. n + m PROVE Join(s, n, t, m)[i] \in S
  BY DEF Join, Word
<1> QED BY DEF Join, Word

\* A slice of a word is a word.
LEMMA SliceType ==
    ASSUME NEW S, NEW n \in Nat, NEW first \in 0 .. n, NEW last \in first .. n,
           NEW s \in Word(S, n)
    PROVE  Slice(s, first, last) \in Word(S, last - first)
BY DEF Slice, Word

\* A word with a slice cut out is a word.
LEMMA CutType ==
    ASSUME NEW S, NEW n \in Nat, NEW first \in 0 .. n, NEW last \in first .. n,
           NEW s \in Word(S, n)
    PROVE  n - (last - first) \in Nat /\ Cut(s, n, first, last) \in Word(S, n - (last - first))
<1> SUFFICES ASSUME NEW i \in 1 .. n - (last - first) PROVE Cut(s, n, first, last)[i] \in S
  BY DEF Cut, Word
<1> QED BY DEF Cut, Word

\* A word with characters put in is a word.
LEMMA PutType ==
    ASSUME NEW S, NEW n \in Nat, NEW m \in Nat, NEW pos \in 0 .. n,
           NEW s \in Word(S, n), NEW chars \in Word(S, m)
    PROVE  n + m \in Nat /\ Put(s, n, pos, chars, m) \in Word(S, n + m)
<1> SUFFICES ASSUME NEW i \in 1 .. n + m PROVE Put(s, n, pos, chars, m)[i] \in S
  BY DEF Put, Word
<1> QED BY DEF Put, Word

\* Cutting an empty slice changes nothing.
LEMMA CutNothing ==
    ASSUME NEW S, NEW n \in Nat, NEW first \in 0 .. n, NEW s \in Word(S, n)
    PROVE  Cut(s, n, first, first) = s
BY DEF Cut, Word

\* Putting no characters in changes nothing.
LEMMA PutNothing ==
    ASSUME NEW S, NEW n \in Nat, NEW pos \in 0 .. n, NEW s \in Word(S, n), NEW c
    PROVE  Put(s, n, pos, c, 0) = s
BY DEF Put, Word

\* AtMost is the lesser of two numbers.
LEMMA AtMostIs == ASSUME NEW n \in Int, NEW m \in Int
                  PROVE  AtMost(n, m) = IF n <= m THEN n ELSE m
<1> DEFINE least == IF n <= m THEN n ELSE m
<1>1. least \in {n, m} /\ \A y \in {n, m} : least <= y
  OBVIOUS
<1>2. \A x \in {n, m} : (\A y \in {n, m} : x <= y) => x = least
  OBVIOUS
<1> QED BY <1>1, <1>2 DEF AtMost, Min
-----------------------------------------------------------------------------------
(* Sequences as functions *)

\* A sequence is a word of its own length.
LEMMA SeqIsWord == ASSUME NEW S, NEW s \in Seq(S)
                   PROVE  Len(s) \in Nat /\ s \in Word(S, Len(s))
BY DEF Word

\* A word is a sequence of its length.
LEMMA WordIsSeq == ASSUME NEW S, NEW n \in Nat, NEW s \in Word(S, n)
                   PROVE  Len(s) = n /\ s \in Seq(S) /\ (s = <<>> <=> n = 0)
BY DEF Word

\* Words with the same characters are the same.
LEMMA SameWord ==
    ASSUME NEW S, NEW n \in Nat, NEW s \in Word(S, n), NEW f \in Word(S, n),
           \A i \in 1 .. n : s[i] = f[i]
    PROVE  s = f
BY DEF Word

\* A sequence and a word with the same characters are the same.
LEMMA SameSeq ==
    ASSUME NEW S, NEW k \in Nat, NEW s \in Seq(S), NEW f \in Word(S, k), Len(s) = k,
           \A i \in 1 .. k : s[i] = f[i]
    PROVE  s = f
<1>1. s \in Word(S, k)
  BY DEF Word
<1> QED BY <1>1, SameWord

\* Concatenation joins two words.
LEMMA ConcatIs ==
    ASSUME NEW S, NEW n \in Nat, NEW m \in Nat, NEW s \in Word(S, n), NEW t \in Word(S, m)
    PROVE  s \o t = Join(s, n, t, m)
<1>1. s \in Seq(S) /\ Len(s) = n /\ t \in Seq(S) /\ Len(t) = m
  BY WordIsSeq
<1>2. s \o t \in Seq(S) /\ Len(s \o t) = n + m
  BY <1>1
<1>3. Join(s, n, t, m) \in Word(S, n + m)
  BY JoinType
<1>4. ASSUME NEW i \in 1 .. n + m PROVE (s \o t)[i] = Join(s, n, t, m)[i]
  BY <1>1 DEF Join
<1>5. n + m \in Nat
  OBVIOUS
<1> QED BY <1>2, <1>3, <1>4, <1>5, SameSeq

\* SubSeq takes a slice of a word.
LEMMA SubSeqIs ==
    ASSUME NEW S, NEW n \in Nat, NEW first \in 0 .. n, NEW last \in first .. n,
           NEW s \in Word(S, n)
    PROVE  SubSeq(s, first + 1, last) = Slice(s, first, last)
<1>1. \A i \in first + 1 .. last : s[i] \in S
  BY DEF Word
<1>2. /\ SubSeq(s, first + 1, last) \in Seq(S)
      /\ Len(SubSeq(s, first + 1, last)) = last - first
      /\ \A i \in 1 .. last - first : SubSeq(s, first + 1, last)[i] = s[i + first]
  BY <1>1, SubSeqProperties
<1>3. Slice(s, first, last) \in Word(S, last - first)
  BY SliceType
<1>4. \A i \in 1 .. last - first : SubSeq(s, first + 1, last)[i] = Slice(s, first, last)[i]
  BY <1>2 DEF Slice
<1>5. last - first \in Nat
  OBVIOUS
<1> QED BY <1>2, <1>3, <1>4, <1>5, SameSeq

\* The same for the characters in front of first.
LEMMA FrontIs ==
    ASSUME NEW S, NEW n \in Nat, NEW first \in 0 .. n, NEW s \in Word(S, n)
    PROVE  SubSeq(s, 1, first) = Slice(s, 0, first) /\ Slice(s, 0, first) \in Word(S, first)
<1>1. 0 + 1 = 1 /\ first - 0 = first /\ 0 \in 0 .. n /\ first \in 0 .. n
  OBVIOUS
<1>2. SubSeq(s, 0 + 1, first) = Slice(s, 0, first)
  BY <1>1, SubSeqIs
<1>3. Slice(s, 0, first) \in Word(S, first - 0)
  BY <1>1, SliceType
<1> QED BY <1>1, <1>2, <1>3

\* SubSeq takes the slice up to the end of a word.
LEMMA BackIs ==
    ASSUME NEW S, NEW n \in Nat, NEW last \in 0 .. n, NEW s \in Word(S, n)
    PROVE  SubSeq(s, last + 1, n) = Slice(s, last, n) /\ Slice(s, last, n) \in Word(S, n - last)
<1>1. n \in last .. n
  OBVIOUS
<1> QED BY <1>1, SubSeqIs, SliceType

\* What is left of s, and what is put in its place.
LEMMA CutParts ==
    ASSUME NEW S, NEW n \in Nat, NEW first \in 0 .. n, NEW last \in first .. n,
           NEW s \in Word(S, n)
    PROVE  SubSeq(s, 1, first) \o SubSeq(s, last + 1, n) = Cut(s, n, first, last)
<1>1. SubSeq(s, 1, first) = Slice(s, 0, first) /\ Slice(s, 0, first) \in Word(S, first)
  BY FrontIs
<1>2. last \in 0 .. n
  OBVIOUS
<1>3. SubSeq(s, last + 1, n) = Slice(s, last, n) /\ Slice(s, last, n) \in Word(S, n - last)
  BY <1>2, BackIs
<1>4. first \in Nat /\ n - last \in Nat
  OBVIOUS
<1>5. Slice(s, 0, first) \o Slice(s, last, n) = Join(Slice(s, 0, first), first, Slice(s, last, n), n - last)
  BY <1>1, <1>3, <1>4, ConcatIs
<1>6. Join(Slice(s, 0, first), first, Slice(s, last, n), n - last) = Cut(s, n, first, last)
  <2>1. first + (n - last) = n - (last - first)
    OBVIOUS
  <2>2. ASSUME NEW i \in 1 .. n - (last - first)
        PROVE  (IF i <= first THEN Slice(s, 0, first)[i] ELSE Slice(s, last, n)[i - first])
               = IF i <= first THEN s[i] ELSE s[i + (last - first)]
    BY DEF Slice
  <2> QED BY <2>1, <2>2 DEF Join, Cut
<1> QED BY <1>1, <1>3, <1>5, <1>6

\* The parts around a range, with other characters between, spell the word with the range
\* replaced.
LEMMA PutParts ==
    ASSUME NEW S, NEW n \in Nat, NEW m \in Nat, NEW first \in 0 .. n, NEW last \in first .. n,
           NEW s \in Word(S, n), NEW chars \in Word(S, m)
    PROVE  FromParts(s, n, first, last, chars) = Respelt(s, n, first, last, chars, m)
<1> DEFINE front == Join(Slice(s, 0, first), first, chars, m)
<1>1. SubSeq(s, 1, first) = Slice(s, 0, first) /\ Slice(s, 0, first) \in Word(S, first)
  BY FrontIs
<1>2. last \in 0 .. n
  OBVIOUS
<1>3. SubSeq(s, last + 1, n) = Slice(s, last, n) /\ Slice(s, last, n) \in Word(S, n - last)
  BY <1>2, BackIs
<1>4. first \in Nat /\ n - last \in Nat /\ first + m \in Nat
  OBVIOUS
<1>5. Slice(s, 0, first) \o chars = front
  BY <1>1, <1>4, ConcatIs
<1>6. front \in Word(S, first + m)
  BY <1>1, <1>4, JoinType
<1>7. front \o Slice(s, last, n) = Join(front, first + m, Slice(s, last, n), n - last)
  <2> HIDE DEF front
  <2> QED BY <1>3, <1>4, <1>6, ConcatIs
<1>8. Join(front, first + m, Slice(s, last, n), n - last)
      = Put(Cut(s, n, first, last), n - (last - first), first, chars, m)
  <2>1. (first + m) + (n - last) = (n - (last - first)) + m
    OBVIOUS
  <2>2. ASSUME NEW i \in 1 .. (n - (last - first)) + m
        PROVE  (IF i <= first + m THEN front[i] ELSE Slice(s, last, n)[i - (first + m)])
               = IF i <= first THEN Cut(s, n, first, last)[i]
                 ELSE IF i <= first + m THEN chars[i - first]
                 ELSE Cut(s, n, first, last)[i - m]
    <3>1. CASE i <= first
      BY <3>1 DEF Join, Slice, Cut
    <3>2. CASE ~ (i <= first) /\ i <= first + m
      BY <3>2 DEF Join
    <3>3. CASE ~ (i <= first + m)
      <4>1. /\ i - (first + m) \in 1 .. n - last
            /\ i - m \in 1 .. n - (last - first)
            /\ ~ (i - m <= first) /\ ~ (i <= first)
            /\ (i - (first + m)) + last = (i - m) + (last - first)
        BY <3>3
      <4>2. Slice(s, last, n)[i - (first + m)] = s[(i - m) + (last - first)]
        BY <4>1 DEF Slice
      <4>3. Cut(s, n, first, last)[i - m] = s[(i - m) + (last - first)]
        BY <4>1 DEF Cut
      <4> HIDE DEF front
      <4> QED BY <3>3, <4>1, <4>2, <4>3
    <3> HIDE DEF front
    <3> QED BY <3>1, <3>2, <3>3
  <2> HIDE DEF front
  <2>3. Join(front, first + m, Slice(s, last, n), n - last)
        = [i \in 1 .. (n - (last - first)) + m |->
              IF i <= first + m THEN front[i] ELSE Slice(s, last, n)[i - (first + m)]]
    BY <2>1 DEF Join
  <2> QED BY <2>2, <2>3 DEF Put
<1> QED BY <1>1, <1>3, <1>5, <1>7, <1>8 DEF FromParts, Respelt
-----------------------------------------------------------------------------------
(* The buffer's edits *)

\* insert: nothing to do, no room for a tail to move, the end of the buffer passed,
\* or done.
LEMMA InsertIs ==
    ASSUME NEW S, NEW n \in Nat, NEW m \in Nat, NEW pos \in 0 .. n,
           NEW s \in Word(S, n), NEW chars \in Word(S, m)
    PROVE  insert(s, pos, chars)
           = IF m = 0 THEN Returned(s)
             ELSE IF pos # n /\ n + m >= SIZE THEN Threw(s)
             ELSE IF n + m > SIZE THEN Overrun(s)
             ELSE Returned(Put(s, n, pos, chars, m))
<1>1. Len(s) = n /\ Len(chars) = m
  BY WordIsSeq
<1>2. ASSUME NEW i \in 1 .. n + m
      PROVE  (IF i \in pos + 1 .. pos + m THEN chars[i - pos] ELSE Moved(s, pos, m)[i])
             = IF i <= pos THEN s[i] ELSE IF i <= pos + m THEN chars[i - pos] ELSE s[i - m]
  <2>1. Moved(s, pos, m)[i] = IF i > pos + m THEN s[i - m] ELSE IF i <= n THEN s[i] ELSE Unwritten
    BY <1>1 DEF Moved
  <2> QED BY <2>1
<1>3. [i \in 1 .. n + m |->
          IF i \in pos + 1 .. pos + m THEN chars[i - pos] ELSE Moved(s, pos, m)[i]]
      = Put(s, n, pos, chars, m)
  BY <1>2 DEF Put
<1>4. insert(s, pos, chars)
      = IF m = 0 THEN Returned(s)
        ELSE IF pos # n /\ n + m >= SIZE THEN Threw(s)
        ELSE IF n + m > SIZE THEN Overrun(s)
        ELSE Returned([i \in 1 .. n + m |->
                 IF i \in pos + 1 .. pos + m THEN chars[i - pos] ELSE Moved(s, pos, m)[i]])
  BY <1>1, Zenon DEF insert
<1> QED BY <1>3, <1>4

\* erase of a range of the text, which never fails.
LEMMA EraseIs ==
    ASSUME NEW S, NEW n \in 0 .. SIZE, NEW first \in 0 .. n, NEW last \in first .. n,
           NEW s \in Word(S, n)
    PROVE  erase(s, first, last) = Returned(Cut(s, n, first, last))
<1> n \in Nat
  BY SizeAssumption
<1>1. Len(s) = n
  BY WordIsSeq
<1>2. SubSeq(s, 1, first) \o SubSeq(s, last + 1, n) = Cut(s, n, first, last)
  BY CutParts
<1>3. Cut(s, n, first, last) \in Word(S, n - (last - first)) /\ n - (last - first) \in Nat
  BY CutType
<1>4. Len(Cut(s, n, first, last)) = n - (last - first)
  BY <1>3, WordIsSeq
<1>5. ~ (Len(Cut(s, n, first, last)) > SIZE)
  BY <1>4, SizeAssumption
<1>6. CASE first = last
  <2>1. Cut(s, n, first, first) = s
    BY CutNothing
  <2>2. erase(s, first, last) = Returned(s)
    BY <1>6 DEF erase
  <2> QED BY <1>6, <2>1, <2>2
<1>7. CASE first # last
  BY <1>1, <1>2, <1>5, <1>7, Zenon DEF erase
<1> QED BY <1>6, <1>7

\* What an edit leaves is a text again, if it does not run over the end.
Fits(r) == r.out # "overrun" => \E k \in 0 .. SIZE : r.text \in Word(Chars, k)

\* A text no longer than the buffer is a result that fits; an overrun asks for nothing.
LEMMA FitsSame ==
    /\ \A n \in 0 .. SIZE : \A s \in Word(Chars, n) : Fits(Returned(s)) /\ Fits(Threw(s))
    /\ \A s : Fits(Overrun(s))
<1>1. ASSUME NEW n \in 0 .. SIZE, NEW s \in Word(Chars, n)
      PROVE  Fits(Returned(s)) /\ Fits(Threw(s))
  BY DEF Fits, Returned, Threw
<1>2. ASSUME NEW s PROVE Fits(Overrun(s))
  BY DEF Fits, Overrun
<1> QED BY <1>1, <1>2

\* The empty text fits.
LEMMA FitsEmpty == Fits(Threw(<<>>)) /\ Fits(Returned(<<>>)) /\ <<>> \in Word(Chars, 0)
<1>1. <<>> \in Word(Chars, 0) /\ 0 \in 0 .. SIZE
  BY SizeAssumption DEF Word
<1> QED BY <1>1, FitsSame

\* insert of a range leaves a text that fits.
LEMMA FitsInsert ==
    ASSUME NEW n \in 0 .. SIZE, NEW m \in Nat, NEW pos \in 0 .. n,
           NEW s \in Word(Chars, n), NEW chars \in Word(Chars, m)
    PROVE  Fits(insert(s, pos, chars))
<1> n \in Nat
  BY SizeAssumption
<1>1. insert(s, pos, chars)
           = IF m = 0 THEN Returned(s)
             ELSE IF pos # n /\ n + m >= SIZE THEN Threw(s)
             ELSE IF n + m > SIZE THEN Overrun(s)
             ELSE Returned(Put(s, n, pos, chars, m))
  BY InsertIs
<1>2. Put(s, n, pos, chars, m) \in Word(Chars, n + m)
  BY PutType
<1>3. ~ (n + m > SIZE) => n + m \in 0 .. SIZE
  BY SizeAssumption
<1> QED BY <1>1, <1>2, <1>3, FitsSame

\* The end of the range may stand before its beginning.
LEMMA FitsErase ==
    ASSUME NEW n \in 0 .. SIZE, NEW first \in 0 .. n, NEW last \in 0 .. n,
           NEW s \in Word(Chars, n)
    PROVE  Fits(erase(s, first, last))
<1> n \in Nat
  BY SizeAssumption
<1> DEFINE rest == Join(Slice(s, 0, first), first, Slice(s, last, n), n - last)
<1>1. SubSeq(s, 1, first) = Slice(s, 0, first) /\ Slice(s, 0, first) \in Word(Chars, first)
  BY FrontIs
<1>2. SubSeq(s, last + 1, n) = Slice(s, last, n) /\ Slice(s, last, n) \in Word(Chars, n - last)
  BY BackIs
<1>3. first \in Nat /\ n - last \in Nat /\ first + (n - last) \in Nat
  OBVIOUS
<1>4. Slice(s, 0, first) \o Slice(s, last, n) = rest /\ rest \in Word(Chars, first + (n - last))
  BY <1>1, <1>2, <1>3, ConcatIs, JoinType
<1>5. Len(s) = n /\ Len(rest) = first + (n - last)
  BY <1>3, <1>4, WordIsSeq
<1> HIDE DEF rest
<1>6. erase(s, first, last) = IF first = last THEN Returned(s)
                              ELSE IF Len(rest) > SIZE THEN Overrun(s) ELSE Returned(rest)
  BY <1>1, <1>2, <1>4, <1>5, Zenon DEF erase
<1>7. ~ (first + (n - last) > SIZE) => first + (n - last) \in 0 .. SIZE
  BY <1>3, SizeAssumption
<1> QED BY <1>4, <1>5, <1>6, <1>7, FitsSame
-----------------------------------------------------------------------------------
(* What the edits are given *)

\* Copies of a character are a word.
LEMMA RepeatType ==
    ASSUME NEW S, NEW c \in S, NEW n \in Nat
    PROVE  Repeat(c, n) \in Word(S, n)
BY DEF Repeat, Word

\* A part of a string begins where it is told and ends there or at the end.
LEMMA PartIs ==
    ASSUME NEW S, NEW k \in Nat, NEW s \in Word(S, k), NEW pos \in 0 .. k, NEW n \in Nat
    PROVE  LET m == IF n <= k - pos THEN n ELSE k - pos
           IN  /\ m \in 0 .. k - pos
               /\ Part(s, pos, n) = Slice(s, pos, pos + m)
               /\ Part(s, pos, n) \in Word(S, m)
<1> DEFINE m == IF n <= k - pos THEN n ELSE k - pos
<1>1. m \in 0 .. k - pos /\ pos + m \in pos .. k /\ (pos + m) - pos = m
  OBVIOUS
<1>2. Len(s) = k
  BY WordIsSeq
<1>3. AtMost(n, k - pos) = m
  BY AtMostIs
<1> HIDE DEF m
<1>4. SubSeq(s, pos + 1, pos + m) = Slice(s, pos, pos + m)
  BY <1>1, SubSeqIs
<1>5. Slice(s, pos, pos + m) \in Word(S, (pos + m) - pos)
  BY <1>1, SliceType
<1>6. Part(s, pos, n) = Slice(s, pos, pos + m)
  BY <1>2, <1>3, <1>4, Zenon DEF Part
<1>7. Slice(s, pos, pos + m) \in Word(S, m)
  BY <1>1, <1>5
<1> QED BY <1>1, <1>6, <1>7 DEF m

\* What is read of the text itself, while room is made in it, is of the text: each
\* place up to last holds a character of the text, moved or not.
Own(s, pos, first, last) ==
    [i \in 1 .. last - first |->
        IF i + first > pos + (last - first) THEN s[i + first - (last - first)]
        ELSE s[i + first]]

\* What a string inserts of itself once its tail has moved.
LEMMA OwnIs ==
    ASSUME NEW S, NEW n \in Nat, NEW pos \in 0 .. n, NEW first \in 0 .. n,
           NEW last \in first .. n, NEW s \in Word(S, n)
    PROVE  /\ SubSeq(Moved(s, pos, last - first), first + 1, last) = Own(s, pos, first, last)
           /\ Own(s, pos, first, last) \in Word(S, last - first)
<1> DEFINE x == last - first
           moved == Moved(s, pos, x)
           own == [i \in 1 .. x |->
                      IF i + first > pos + x THEN s[i + first - x] ELSE s[i + first]]
<1>1. Len(s) = n
  BY WordIsSeq
<1>2. ASSUME NEW i \in 1 .. n
      PROVE  moved[i] = (IF i > pos + x THEN s[i - x] ELSE s[i]) /\ moved[i] \in S
  BY <1>1 DEF Moved, Word
<1>3. /\ SubSeq(moved, first + 1, last) \in Seq(S)
      /\ Len(SubSeq(moved, first + 1, last)) = x
      /\ \A i \in 1 .. x : SubSeq(moved, first + 1, last)[i] = moved[i + first]
  <2>1. \A i \in first + 1 .. last : moved[i] \in S
    BY <1>2
  <2> HIDE DEF moved
  <2> QED BY <2>1, SubSeqProperties
<1>4. ASSUME NEW i \in 1 .. x PROVE own[i] = moved[i + first] /\ own[i] \in S
  <2>1. i + first \in 1 .. n
    OBVIOUS
  <2>2. own[i] = IF i + first > pos + x THEN s[i + first - x] ELSE s[i + first]
    OBVIOUS
  <2> HIDE DEF own, moved
  <2> QED BY <2>1, <2>2, <1>2
<1>5. own \in Word(S, x)
  BY <1>4 DEF Word
<1>6. x \in Nat
  OBVIOUS
<1> HIDE DEF own, moved
<1>7. SubSeq(moved, first + 1, last) = own
  BY <1>3, <1>4, <1>5, <1>6, SameSeq
<1> QED BY <1>5, <1>7 DEF own, moved, Own

\* A word written over is as long as before.
LEMMA OverwrittenType ==
    ASSUME NEW S, NEW n \in Nat, NEW m \in Nat, NEW first \in 0 .. n,
           NEW s \in Word(S, n), NEW chars \in Word(S, m)
    PROVE  Overwritten(s, first, chars) \in Word(S, n)
BY DEF Overwritten, Word
-----------------------------------------------------------------------------------
(* Least and greatest members, and functions defined step by step *)

\* A non-empty set of natural numbers has a least member.
LEMMA LeastNumber == ASSUME NEW N \in SUBSET Nat, N # {}
                     PROVE  \E x \in N : \A y \in N : x <= y
<1>1. PICK x \in N : \A y \in N : ~ (<<y, x>> \in OpToRel(<, Nat))
  BY NatLessThanWellFounded, WFMin
<1>2. ASSUME NEW y \in N, y < x PROVE FALSE
  <2>1. <<y, x>> \in OpToRel(<, Nat)
    BY <1>2 DEF OpToRel
  <2> QED BY <1>1, <2>1
<1>3. \A y \in N : x <= y
  BY <1>2
<1> QED BY <1>3

From(M, low) == M \in SUBSET Int /\ low \in Int /\ \A x \in M : low <= x
UpTo(M, high) == M \in SUBSET Int /\ high \in Int /\ \A x \in M : x <= high

\* A non-empty set with a lower bound has a least member, and Min is it.
LEMMA MinIs == ASSUME NEW M, NEW low, From(M, low), M # {}
               PROVE  Min(M) \in M /\ Min(M) \in Int /\ \A y \in M : Min(M) <= y
<1> USE DEF From
<1> DEFINE N == {x - low : x \in M}
<1>1. N \in SUBSET Nat /\ N # {}
  <2>1. \A x \in M : x - low \in Nat
    OBVIOUS
  <2> QED BY <2>1, Zenon
<1>2. PICK z \in N : \A y \in N : z <= y
  BY <1>1, LeastNumber
<1>3. PICK x \in M : z = x - low
  BY <1>2
<1>4. \A y \in M : y - low \in N
  OBVIOUS
<1> HIDE DEF N
<1>5. ASSUME NEW y \in M PROVE x <= y
  <2>1. z <= y - low
    BY <1>2, <1>4
  <2> QED BY <1>3, <2>1
<1> QED BY <1>5 DEF Min

\* A non-empty set with an upper bound has a greatest member, and Max is it.
LEMMA MaxIs == ASSUME NEW M, NEW high, UpTo(M, high), M # {}
               PROVE  Max(M) \in M /\ Max(M) \in Int /\ \A y \in M : y <= Max(M)
<1> USE DEF UpTo
<1> DEFINE N == {high - x : x \in M}
<1>1. N \in SUBSET Nat /\ N # {}
  <2>1. \A x \in M : high - x \in Nat
    OBVIOUS
  <2> QED BY <2>1, Zenon
<1>2. PICK z \in N : \A y \in N : z <= y
  BY <1>1, LeastNumber
<1>3. PICK x \in M : z = high - x
  BY <1>2
<1>4. \A y \in M : high - y \in N
  OBVIOUS
<1> HIDE DEF N
<1>5. ASSUME NEW y \in M PROVE y <= x
  <2>1. z <= high - y
    BY <1>2, <1>4
  <2> QED BY <1>3, <2>1
<1> QED BY <1>5 DEF Max

\* Two functions that start alike and stay alike for a step stay alike.
StepsTo(m, f) == f = [i \in 0 .. m |-> f[i]]

\* Functions with the same start and the same steps are the same.
LEMMA SameSteps ==
    ASSUME NEW m \in Nat, NEW f, NEW g, StepsTo(m, f), StepsTo(m, g),
           f[0] = g[0], \A i \in 1 .. m : f[i - 1] = g[i - 1] => f[i] = g[i]
    PROVE  f = g
<1> DEFINE bad == {i \in 0 .. m : f[i] # g[i]}
<1>1. ASSUME bad # {} PROVE FALSE
  <2>1. bad \in SUBSET Nat
    OBVIOUS
  <2>2. PICK i \in bad : \A j \in bad : i <= j
    BY <1>1, <2>1, LeastNumber
  <2>3. i \in 1 .. m /\ i - 1 \in 0 .. m /\ i - 1 \notin bad
    BY <2>2
  <2> QED BY <2>2, <2>3
<1>2. \A i \in 0 .. m : f[i] = g[i]
  BY <1>1
<1> QED BY <1>2, Zenon DEF StepsTo
-----------------------------------------------------------------------------------
(* Copies of a character, one after the other *)

\* Putting one more copy after m copies puts m + 1 copies.
LEMMA PutOneMore ==
    ASSUME NEW S, NEW n \in Nat, NEW pos \in 0 .. n, NEW m \in Nat,
           NEW s \in Word(S, n), NEW c \in S
    PROVE  Put(Put(s, n, pos, Repeat(c, m), m), n + m, pos + m, <<c>>, 1)
           = Put(s, n, pos, Repeat(c, m + 1), m + 1)
<1> DEFINE P == Put(s, n, pos, Repeat(c, m), m)
<1>1. ASSUME NEW i \in 1 .. n + (m + 1)
      PROVE  (IF i <= pos + m THEN P[i] ELSE IF i <= (pos + m) + 1 THEN <<c>>[i - (pos + m)] ELSE P[i - 1])
             = IF i <= pos THEN s[i]
               ELSE IF i <= pos + (m + 1) THEN Repeat(c, m + 1)[i - pos] ELSE s[i - (m + 1)]
  BY DEF Put, Repeat
<1>2. n + (m + 1) = (n + m) + 1
  OBVIOUS
<1> HIDE DEF P
<1>3. Put(P, n + m, pos + m, <<c>>, 1)
      = [i \in 1 .. n + (m + 1) |->
           IF i <= pos + m THEN P[i]
           ELSE IF i <= (pos + m) + 1 THEN <<c>>[i - (pos + m)] ELSE P[i - 1]]
  BY <1>2 DEF Put
<1>4. Put(P, n + m, pos + m, <<c>>, 1) = Put(s, n, pos, Repeat(c, m + 1), m + 1)
  BY <1>1, <1>3 DEF Put
<1> QED BY <1>4 DEF P

\* How many copies go in before one of them finds no place: before the end of the
\* text one place is always left free.
Room(n, pos) == IF pos = n THEN SIZE - n ELSE IF n < SIZE THEN SIZE - 1 - n ELSE 0

\* The text and the outcome after i of the copies.
AfterCopies(s, n, pos, c, i) ==
    LET full == Put(s, n, pos, Repeat(c, Room(n, pos)), Room(n, pos))
    IN  IF i <= Room(n, pos) THEN Returned(Put(s, n, pos, Repeat(c, i), i))
        ELSE IF pos = n THEN Overrun(full) ELSE Threw(full)

\* The fill inserts one copy more, unless an earlier one threw.
LEMMA OneCopyMore ==
    ASSUME NEW S, NEW n \in 0 .. SIZE, NEW pos \in 0 .. n, NEW i \in Nat,
           NEW s \in Word(S, n), NEW c \in S
    PROVE  AfterCopies(s, n, pos, c, i + 1)
           = LET r == AfterCopies(s, n, pos, c, i)
             IN  IF r.out = "returned" THEN insert(r.text, pos + i, <<c>>) ELSE r
<1> n \in Nat /\ Room(n, pos) \in Nat
  BY SizeAssumption DEF Room
<1> DEFINE P == Put(s, n, pos, Repeat(c, i), i)
           full == Put(s, n, pos, Repeat(c, Room(n, pos)), Room(n, pos))
<1>1. CASE i < Room(n, pos) \/ i = Room(n, pos)
  <2>1. P \in Word(S, n + i) /\ n + i \in Nat
    BY RepeatType, PutType
  <2>2. <<c>> \in Word(S, 1) /\ 1 \in Nat /\ pos + i \in 0 .. n + i
    BY DEF Word
  <2>3. Put(P, n + i, pos + i, <<c>>, 1) = Put(s, n, pos, Repeat(c, i + 1), i + 1)
    BY PutOneMore
  <2>4. AfterCopies(s, n, pos, c, i) = Returned(P)
    BY <1>1 DEF AfterCopies
  <2> HIDE DEF P
  <2>5. insert(P, pos + i, <<c>>)
        = IF 1 = 0 THEN Returned(P)
          ELSE IF pos + i # n + i /\ (n + i) + 1 >= SIZE THEN Threw(P)
          ELSE IF (n + i) + 1 > SIZE THEN Overrun(P)
          ELSE Returned(Put(P, n + i, pos + i, <<c>>, 1))
    BY <2>1, <2>2, InsertIs
  <2>6. CASE i < Room(n, pos)
    <3>1. ~ (pos + i # n + i /\ (n + i) + 1 >= SIZE) /\ ~ ((n + i) + 1 > SIZE)
      BY <2>6, SizeAssumption DEF Room
    <3>2. AfterCopies(s, n, pos, c, i + 1) = Returned(Put(s, n, pos, Repeat(c, i + 1), i + 1))
      BY <2>6 DEF AfterCopies
    <3>3. insert(P, pos + i, <<c>>) = Returned(Put(s, n, pos, Repeat(c, i + 1), i + 1))
      BY <2>3, <2>5, <3>1
    <3> QED BY <2>4, <3>2, <3>3 DEF Returned
  <2>7. CASE i = Room(n, pos)
    <3>1. /\ pos = n => ~ (pos + i # n + i) /\ (n + i) + 1 > SIZE
          /\ pos # n => pos + i # n + i /\ (n + i) + 1 >= SIZE
      BY <2>7, SizeAssumption DEF Room
    <3>2. P = full
      BY <2>7 DEF P
    <3>3. AfterCopies(s, n, pos, c, i + 1) = IF pos = n THEN Overrun(P) ELSE Threw(P)
      BY <2>7, <3>2 DEF AfterCopies
    <3>4. insert(P, pos + i, <<c>>) = IF pos = n THEN Overrun(P) ELSE Threw(P)
      BY <2>5, <3>1
    <3> QED BY <2>4, <3>3, <3>4 DEF Returned
  <2> QED BY <1>1, <2>6, <2>7
<1>2. CASE i > Room(n, pos)
  <2>1. AfterCopies(s, n, pos, c, i) = IF pos = n THEN Overrun(full) ELSE Threw(full)
    BY <1>2 DEF AfterCopies
  <2>2. AfterCopies(s, n, pos, c, i + 1) = IF pos = n THEN Overrun(full) ELSE Threw(full)
    BY <1>2 DEF AfterCopies
  <2> QED BY <2>1, <2>2 DEF Overrun, Threw
<1> QED BY <1>1, <1>2

\* The fold over the copies is the insertion of one after the other.
LEMMA FilledIs ==
    ASSUME NEW S, NEW n \in 0 .. SIZE, NEW pos \in 0 .. n, NEW m \in Nat,
           NEW s \in Word(S, n), NEW c \in S
    PROVE  Filled(s, pos, m, c) = AfterCopies(s, n, pos, c, m)
<1> n \in Nat /\ Room(n, pos) \in Nat
  BY SizeAssumption DEF Room
<1> DEFINE Steps(f) == [i \in 0 .. m |->
               IF i = 0 THEN Returned(s)
               ELSE LET r == f[i - 1]
                    IN  IF r.out = "returned" THEN insert(r.text, pos + i - 1, <<c>>) ELSE r]
           f == CHOOSE f : f = Steps(f)
           g == [i \in 0 .. m |-> AfterCopies(s, n, pos, c, i)]
<1>1. Filled(s, pos, m, c) = f[m]
  BY DEF Filled
<1>2. AfterCopies(s, n, pos, c, 0) = Returned(s)
  <2>1. Put(s, n, pos, Repeat(c, 0), 0) = s
    BY PutNothing
  <2> QED BY <2>1 DEF AfterCopies
<1>3. ASSUME NEW i \in 1 .. m
      PROVE  AfterCopies(s, n, pos, c, i)
             = LET r == AfterCopies(s, n, pos, c, i - 1)
               IN  IF r.out = "returned" THEN insert(r.text, pos + i - 1, <<c>>) ELSE r
  <2>1. i - 1 \in Nat /\ (i - 1) + 1 = i /\ pos + (i - 1) = pos + i - 1
    OBVIOUS
  <2>2. AfterCopies(s, n, pos, c, (i - 1) + 1)
        = LET r == AfterCopies(s, n, pos, c, i - 1)
          IN  IF r.out = "returned" THEN insert(r.text, pos + (i - 1), <<c>>) ELSE r
    BY <2>1, OneCopyMore
  <2> QED BY <2>1, <2>2
<1>4. /\ g = [i \in 0 .. m |-> g[i]]
      /\ \A i \in 0 .. m : g[i] = AfterCopies(s, n, pos, c, i)
  OBVIOUS
<1> HIDE DEF g
<1>5. \A i \in 1 .. m : i - 1 \in 0 .. m /\ i \in 0 .. m /\ i # 0
  OBVIOUS
<1>6. /\ g[0] = Returned(s)
      /\ \A i \in 1 .. m :
            g[i] = LET r == g[i - 1]
                   IN  IF r.out = "returned" THEN insert(r.text, pos + i - 1, <<c>>) ELSE r
  BY <1>2, <1>3, <1>4, <1>5
<1>7. g = Steps(g)
  <2>1. \A i \in 0 .. m : i = 0 \/ i \in 1 .. m
    OBVIOUS
  <2> QED BY <1>4, <1>6, <2>1
<1>8. f = Steps(f)
  <2> HIDE DEF Steps
  <2> QED BY <1>7, Zenon
<1> HIDE DEF f
<1>9. /\ f = [i \in 0 .. m |-> f[i]]
      /\ f[0] = Returned(s)
      /\ \A i \in 1 .. m :
            f[i] = LET r == f[i - 1]
                   IN  IF r.out = "returned" THEN insert(r.text, pos + i - 1, <<c>>) ELSE r
  <2>1. \A i \in 0 .. m :
          f[i] = IF i = 0 THEN Returned(s)
                 ELSE LET r == f[i - 1]
                      IN  IF r.out = "returned" THEN insert(r.text, pos + i - 1, <<c>>) ELSE r
    BY <1>8, Zenon
  <2>2. f = [i \in 0 .. m |-> f[i]]
    BY <1>8, <2>1, Zenon
  <2>3. 0 \in 0 .. m
    OBVIOUS
  <2> QED BY <1>5, <2>1, <2>2, <2>3
<1>10. \A i \in 1 .. m : f[i - 1] = g[i - 1] => f[i] = g[i]
  BY <1>6, <1>9
<1>11. f = g
  <2>1. StepsTo(m, f) /\ StepsTo(m, g)
    BY <1>4, <1>9, Zenon DEF StepsTo
  <2>2. f[0] = g[0]
    BY <1>6, <1>9
  <2> QED BY <2>1, <2>2, <1>10, SameSteps
<1> QED BY <1>1, <1>4, <1>11
-----------------------------------------------------------------------------------
(* Replacement *)

\* s, of n characters, with the m of chars written over those behind the first ones.
Overlay(s, n, first, chars, m) ==
    [i \in 1 .. n |-> IF i > first /\ i <= first + m THEN chars[i - first] ELSE s[i]]

\* A word overlaid is as long as before.
LEMMA OverlayType ==
    ASSUME NEW S, NEW n \in Nat, NEW m \in Nat, NEW first \in 0 .. n, NEW k \in 0 .. m,
           NEW s \in Word(S, n), NEW chars \in Word(S, m)
    PROVE  Overlay(s, n, first, chars, k) \in Word(S, n)
<1> SUFFICES ASSUME NEW i \in 1 .. n PROVE Overlay(s, n, first, chars, k)[i] \in S
  BY DEF Overlay, Word
<1> QED BY DEF Overlay, Word

\* Writing the first k characters over a word overlays it.
LEMMA OverwrittenIs ==
    ASSUME NEW S, NEW n \in Nat, NEW m \in Nat, NEW first \in 0 .. n, NEW k \in 0 .. m,
           NEW s \in Word(S, n), NEW chars \in Word(S, m)
    PROVE  Overwritten(s, first, SubSeq(chars, 1, k)) = Overlay(s, n, first, chars, k)
<1>1. SubSeq(chars, 1, k) = Slice(chars, 0, k)
  BY FrontIs
<1>2. DOMAIN s = 1 .. n /\ DOMAIN Slice(chars, 0, k) = 1 .. k
  BY DEF Word, Slice
<1>3. \A i \in 1 .. k : Slice(chars, 0, k)[i] = chars[i]
  BY DEF Slice
<1>4. Overwritten(s, first, Slice(chars, 0, k))
      = [i \in 1 .. n |-> IF i - first \in 1 .. k THEN Slice(chars, 0, k)[i - first] ELSE s[i]]
  BY <1>2, Zenon DEF Overwritten
<1>5. ASSUME NEW i \in 1 .. n
      PROVE  (IF i - first \in 1 .. k THEN Slice(chars, 0, k)[i - first] ELSE s[i])
             = IF i > first /\ i <= first + k THEN chars[i - first] ELSE s[i]
  BY <1>3
<1> QED BY <1>1, <1>4, <1>5 DEF Overlay

\* A word with a range replaced is a word.
LEMMA RespeltType ==
    ASSUME NEW S, NEW n \in Nat, NEW m \in Nat, NEW first \in 0 .. n, NEW last \in first .. n,
           NEW s \in Word(S, n), NEW chars \in Word(S, m)
    PROVE  /\ n - (last - first) + m \in Nat
           /\ Respelt(s, n, first, last, chars, m) \in Word(S, n - (last - first) + m)
<1>1. n - (last - first) \in Nat /\ Cut(s, n, first, last) \in Word(S, n - (last - first))
  BY CutType
<1>2. first \in 0 .. n - (last - first)
  OBVIOUS
<1> QED BY <1>1, <1>2, PutType DEF Respelt

\* Overwriting and then erasing, or inserting, is replacing.
LEMMA OverlayThenCut ==
    ASSUME NEW S, NEW n \in Nat, NEW m \in Nat, NEW first \in 0 .. n, NEW last \in first .. n,
           NEW s \in Word(S, n), NEW chars \in Word(S, m), m <= last - first
    PROVE  Cut(Overlay(s, n, first, chars, m), n, first + m, last)
           = Respelt(s, n, first, last, chars, m)
<1>1. n - (last - (first + m)) = (n - (last - first)) + m
  OBVIOUS
<1>2. ASSUME NEW i \in 1 .. (n - (last - first)) + m
      PROVE  (IF i <= first + m THEN Overlay(s, n, first, chars, m)[i]
              ELSE Overlay(s, n, first, chars, m)[i + (last - (first + m))])
             = IF i <= first THEN Cut(s, n, first, last)[i]
               ELSE IF i <= first + m THEN chars[i - first] ELSE Cut(s, n, first, last)[i - m]
  <2>1. CASE i <= first
    BY <2>1 DEF Overlay, Cut
  <2>2. CASE ~ (i <= first) /\ i <= first + m
    BY <2>2 DEF Overlay
  <2>3. CASE ~ (i <= first + m)
    <3>1. /\ i + (last - (first + m)) \in 1 .. n /\ ~ (i + (last - (first + m)) <= first + m)
          /\ i - m \in 1 .. n - (last - first) /\ ~ (i - m <= first)
          /\ i + (last - (first + m)) = (i - m) + (last - first)
      BY <2>3
    <3>2. Overlay(s, n, first, chars, m)[i + (last - (first + m))] = s[(i - m) + (last - first)]
      BY <3>1 DEF Overlay
    <3>3. Cut(s, n, first, last)[i - m] = s[(i - m) + (last - first)]
      BY <3>1 DEF Cut
    <3> QED BY <2>3, <3>2, <3>3
  <2> QED BY <2>1, <2>2, <2>3
<1> QED BY <1>1, <1>2 DEF Cut, Put, Respelt

\* Overlaying a range and putting the rest after it replaces the range.
LEMMA OverlayThenPut ==
    ASSUME NEW S, NEW n \in Nat, NEW m \in Nat, NEW first \in 0 .. n, NEW last \in first .. n,
           NEW s \in Word(S, n), NEW chars \in Word(S, m), last - first <= m
    PROVE  Put(Overlay(s, n, first, chars, last - first), n, last,
               Slice(chars, last - first, m), m - (last - first))
           = Respelt(s, n, first, last, chars, m)
<1> DEFINE over == Overlay(s, n, first, chars, last - first)
           rest == Slice(chars, last - first, m)
           cut == Cut(s, n, first, last)
<1>1. /\ n + (m - (last - first)) = (n - (last - first)) + m
      /\ last + (m - (last - first)) = first + m
  OBVIOUS
<1>2. ASSUME NEW i \in 1 .. (n - (last - first)) + m
      PROVE  (IF i <= last THEN over[i] ELSE IF i <= first + m THEN rest[i - last]
              ELSE over[i - (m - (last - first))])
             = IF i <= first THEN cut[i]
               ELSE IF i <= first + m THEN chars[i - first] ELSE cut[i - m]
  <2>1. CASE i <= first
    BY <2>1 DEF Overlay, Cut
  <2>2. CASE ~ (i <= first) /\ i <= last
    BY <2>2 DEF Overlay
  <2>3. CASE ~ (i <= last) /\ i <= first + m
    BY <2>3 DEF Slice
  <2>4. CASE ~ (i <= first + m)
    <3>1. /\ i - (m - (last - first)) \in 1 .. n /\ ~ (i - (m - (last - first)) <= last)
          /\ i - m \in 1 .. n - (last - first) /\ ~ (i - m <= first)
          /\ i - (m - (last - first)) = (i - m) + (last - first)
      BY <2>4
    <3>2. over[i - (m - (last - first))] = s[(i - m) + (last - first)]
      BY <3>1 DEF Overlay
    <3>3. cut[i - m] = s[(i - m) + (last - first)]
      BY <3>1 DEF Cut
    <3> QED BY <2>4, <3>2, <3>3
  <2> HIDE DEF over, rest, cut
  <2> QED BY <2>1, <2>2, <2>3, <2>4
<1> HIDE DEF over, rest, cut
<1>3. Put(over, n, last, rest, m - (last - first))
      = [i \in 1 .. (n - (last - first)) + m |->
           IF i <= last THEN over[i] ELSE IF i <= first + m THEN rest[i - last]
           ELSE over[i - (m - (last - first))]]
  BY <1>1 DEF Put
<1>4. Put(over, n, last, rest, m - (last - first)) = Put(cut, n - (last - first), first, chars, m)
  BY <1>2, <1>3 DEF Put
<1> QED BY <1>4 DEF over, rest, cut, Respelt

\* How the replacement of a range ends.
Replaced(s, n, first, last, chars, m) ==
    LET len == last - first
        over == Overlay(s, n, first, chars, len)
    IN  IF m <= len THEN Returned(Respelt(s, n, first, last, chars, m))
        ELSE IF last # n /\ n + (m - len) >= SIZE THEN Threw(over)
        ELSE IF n + (m - len) > SIZE THEN Overrun(over)
        ELSE Returned(Respelt(s, n, first, last, chars, m))

\* Once the common part is overwritten, the rest of the range goes or that of chars comes.
LEMMA ReplacedIs ==
    ASSUME NEW S, NEW n \in 0 .. SIZE, NEW m \in Nat, NEW first \in 0 .. n,
           NEW last \in first .. n, NEW s \in Word(S, n), NEW chars \in Word(S, m)
    PROVE  /\ m <= last - first =>
                 erase(Overlay(s, n, first, chars, m), first + m, last)
                 = Replaced(s, n, first, last, chars, m)
           /\ last - first < m =>
                 insert(Overlay(s, n, first, chars, last - first), last,
                        SubSeq(chars, (last - first) + 1, m))
                 = Replaced(s, n, first, last, chars, m)
<1> n \in Nat /\ last - first \in Nat
  BY SizeAssumption
<1>1. CASE m <= last - first
  <2>1. m \in 0 .. m /\ first + m \in 0 .. n /\ last \in first + m .. n
    BY <1>1
  <2>2. Overlay(s, n, first, chars, m) \in Word(S, n)
    BY <2>1, OverlayType
  <2>3. erase(Overlay(s, n, first, chars, m), first + m, last)
        = Returned(Cut(Overlay(s, n, first, chars, m), n, first + m, last))
    BY <2>1, <2>2, EraseIs
  <2>4. Cut(Overlay(s, n, first, chars, m), n, first + m, last)
        = Respelt(s, n, first, last, chars, m)
    BY <1>1, OverlayThenCut
  <2> QED BY <1>1, <2>3, <2>4 DEF Replaced
<1>2. CASE last - first < m
  <2> DEFINE over == Overlay(s, n, first, chars, last - first)
             rest == Slice(chars, last - first, m)
  <2>1. last - first \in 0 .. m /\ m \in last - first .. m /\ last \in 0 .. n
        /\ m - (last - first) \in Nat /\ m - (last - first) # 0 /\ last - first <= m
    BY <1>2
  <2>2. over \in Word(S, n)
    BY <2>1, OverlayType
  <2>3. SubSeq(chars, (last - first) + 1, m) = rest /\ rest \in Word(S, m - (last - first))
    BY <2>1, BackIs
  <2>4. Put(over, n, last, rest, m - (last - first)) = Respelt(s, n, first, last, chars, m)
    BY <2>1, OverlayThenPut
  <2> HIDE DEF over, rest
  <2>5. insert(over, last, rest)
        = IF m - (last - first) = 0 THEN Returned(over)
          ELSE IF last # n /\ n + (m - (last - first)) >= SIZE THEN Threw(over)
          ELSE IF n + (m - (last - first)) > SIZE THEN Overrun(over)
          ELSE Returned(Put(over, n, last, rest, m - (last - first)))
    BY <2>1, <2>2, <2>3, InsertIs
  <2>6. ~ (m <= last - first)
    BY <1>2
  <2> QED BY <1>2, <2>1, <2>3, <2>4, <2>5, <2>6 DEF Replaced, over
<1> QED BY <1>1, <1>2

\* replace of a range, computed step by step, is Replaced.
LEMMA ReplaceRangeIs ==
    ASSUME NEW S, NEW n \in 0 .. SIZE, NEW m \in Nat, NEW first \in 0 .. n,
           NEW last \in first .. n, NEW s \in Word(S, n), NEW chars \in Word(S, m)
    PROVE  replace_range(s, first, last, chars) = Replaced(s, n, first, last, chars, m)
<1> n \in Nat /\ last - first \in Nat
  BY SizeAssumption
<1>1. Len(chars) = m
  BY WordIsSeq
<1> DEFINE k == IF last - first <= m THEN last - first ELSE m
<1>2. AtMost(last - first, m) = k /\ k \in 0 .. m
  BY AtMostIs
<1>3. Overwritten(s, first, SubSeq(chars, 1, k)) = Overlay(s, n, first, chars, k)
  BY <1>2, OverwrittenIs
<1>4. replace_range(s, first, last, chars)
      = IF last - first >= m THEN erase(Overlay(s, n, first, chars, k), first + m, last)
        ELSE insert(Overlay(s, n, first, chars, k), last, SubSeq(chars, (last - first) + 1, m))
  <2> HIDE DEF k
  <2> QED BY <1>1, <1>2, <1>3, Zenon DEF replace_range
<1>5. CASE m <= last - first
  <2>1. k = m /\ last - first >= m
    BY <1>5
  <2> HIDE DEF k
  <2> QED BY <1>4, <1>5, <2>1, ReplacedIs
<1>6. CASE last - first < m
  <2>1. k = last - first /\ ~ (last - first >= m)
    BY <1>6
  <2> HIDE DEF k
  <2> QED BY <1>4, <1>6, <2>1, ReplacedIs
<1> QED BY <1>5, <1>6

\* Step by step, the same characters are overwritten.
LEMMA OverlayOneMore ==
    ASSUME NEW S, NEW n \in Nat, NEW m \in Nat, NEW first \in 0 .. n, NEW s \in Word(S, n),
           NEW chars, NEW i \in 1 .. n - first
    PROVE  [Overlay(s, n, first, chars, i - 1) EXCEPT ![first + i] = chars[i]]
           = Overlay(s, n, first, chars, i)
<1> DEFINE sofar == Overlay(s, n, first, chars, i - 1)
<1>1. sofar = [j \in 1 .. n |-> sofar[j]]
  BY DEF Overlay
<1>2. ASSUME NEW j \in 1 .. n
      PROVE  (IF j = first + i THEN chars[i] ELSE sofar[j])
             = IF j > first /\ j <= first + i THEN chars[j - first] ELSE s[j]
  <2>1. CASE j = first + i
    BY <2>1
  <2>2. CASE j # first + i
    BY <2>2 DEF Overlay
  <2> QED BY <2>1, <2>2
<1> HIDE DEF sofar
<1>3. [sofar EXCEPT ![first + i] = chars[i]]
      = [j \in 1 .. n |-> IF j = first + i THEN chars[i] ELSE sofar[j]]
  BY <1>1
<1>4. [sofar EXCEPT ![first + i] = chars[i]] = Overlay(s, n, first, chars, i)
  BY <1>2, <1>3 DEF Overlay
<1> QED BY <1>4 DEF sofar

\* replace from input iterators is Replaced as well.
LEMMA ReplaceInputIs ==
    ASSUME NEW S, NEW n \in 0 .. SIZE, NEW m \in Nat, NEW first \in 0 .. n,
           NEW last \in first .. n, NEW s \in Word(S, n), NEW chars \in Word(S, m)
    PROVE  replace_input(s, first, last, chars) = Replaced(s, n, first, last, chars, m)
<1> n \in Nat /\ last - first \in Nat
  BY SizeAssumption
<1> DEFINE k == AtMost(last - first, Len(chars))
           Steps(f) == [i \in 0 .. k |->
               IF i = 0 THEN s ELSE [f[i - 1] EXCEPT ![first + i] = chars[i]]]
           f == CHOOSE f : f = Steps(f)
           g == [i \in 0 .. k |-> Overlay(s, n, first, chars, i)]
<1>1. Len(chars) = m
  BY WordIsSeq
<1>2. /\ k = IF last - first <= m THEN last - first ELSE m
      /\ k \in 0 .. m /\ k \in Nat /\ k \in 0 .. last - first
  <2>1. AtMost(last - first, m) = IF last - first <= m THEN last - first ELSE m
    BY AtMostIs
  <2> QED BY <1>1, <2>1
<1>3. replace_input(s, first, last, chars)
      = IF k = m THEN erase(f[k], first + k, last)
        ELSE insert(f[k], last, SubSeq(chars, k + 1, m))
  <2>1. replace_input(s, first, last, chars)
        = IF k = Len(chars) THEN erase(f[k], first + k, last)
          ELSE insert(f[k], last, SubSeq(chars, k + 1, Len(chars)))
    BY DEF replace_input
  <2> HIDE DEF f, k
  <2> QED BY <1>1, <2>1
<1> HIDE DEF k
<1>4. \A i \in 1 .. k : /\ i - 1 \in 0 .. k /\ i \in 0 .. k /\ i # 0
                        /\ i \in 1 .. n - first
  BY <1>2
<1>5. Overlay(s, n, first, chars, 0) = s
  BY DEF Overlay, Word
<1>6. \A i \in 1 .. k : [Overlay(s, n, first, chars, i - 1) EXCEPT ![first + i] = chars[i]]
                        = Overlay(s, n, first, chars, i)
  BY <1>4, OverlayOneMore
<1>7. /\ g = [i \in 0 .. k |-> g[i]]
      /\ \A i \in 0 .. k : g[i] = Overlay(s, n, first, chars, i)
      /\ 0 \in 0 .. k /\ k \in 0 .. k
  BY <1>2
<1> HIDE DEF g
<1>8. /\ g[0] = s
      /\ \A i \in 1 .. k : g[i] = [g[i - 1] EXCEPT ![first + i] = chars[i]]
  BY <1>4, <1>5, <1>6, <1>7
<1>9. g = Steps(g)
  <2>1. \A i \in 0 .. k : i = 0 \/ i \in 1 .. k
    BY <1>2
  <2>2. \A i \in 0 .. k : g[i] = IF i = 0 THEN s ELSE [g[i - 1] EXCEPT ![first + i] = chars[i]]
    BY <1>8, <2>1, Zenon
  <2> QED BY <1>7, <2>2, Zenon
<1>10. f = Steps(f)
  <2> HIDE DEF Steps
  <2> QED BY <1>9, Zenon
<1> HIDE DEF f
<1>11. /\ f = [i \in 0 .. k |-> f[i]]
       /\ f[0] = s
       /\ \A i \in 1 .. k : f[i] = [f[i - 1] EXCEPT ![first + i] = chars[i]]
  <2>1. \A i \in 0 .. k : f[i] = IF i = 0 THEN s ELSE [f[i - 1] EXCEPT ![first + i] = chars[i]]
    BY <1>10, Zenon
  <2>2. f = [i \in 0 .. k |-> f[i]]
    BY <1>10, <2>1, Zenon
  <2> QED BY <1>4, <1>7, <2>1, <2>2, Zenon
<1>12. ASSUME NEW i \in 1 .. k, f[i - 1] = g[i - 1] PROVE f[i] = g[i]
  <2>1. f[i] = [f[i - 1] EXCEPT ![first + i] = chars[i]]
    BY <1>11, Zenon
  <2>2. g[i] = [g[i - 1] EXCEPT ![first + i] = chars[i]]
    BY <1>8, Zenon
  <2>3. [f[i - 1] EXCEPT ![first + i] = chars[i]] = [g[i - 1] EXCEPT ![first + i] = chars[i]]
    BY <1>12, Zenon
  <2> QED BY <2>1, <2>2, <2>3, Zenon
<1>13. f = g
  <2>1. StepsTo(k, f) /\ StepsTo(k, g)
    BY <1>7, <1>11, Zenon DEF StepsTo
  <2>2. f[0] = g[0]
    BY <1>8, <1>11
  <2> QED BY <1>2, <2>1, <2>2, <1>12, SameSteps
<1>14. f[k] = Overlay(s, n, first, chars, k)
  BY <1>7, <1>13
<1>15. CASE m <= last - first
  <2>1. k = m
    BY <1>2, <1>15
  <2> QED BY <1>3, <1>14, <1>15, <2>1, ReplacedIs
<1>16. CASE last - first < m
  <2>1. k = last - first /\ k # m
    BY <1>2, <1>16
  <2> QED BY <1>3, <1>14, <1>16, <2>1, ReplacedIs
<1> QED BY <1>15, <1>16
-----------------------------------------------------------------------------------
(* Each edit leaves a text that fits into the buffer *)

\* Every constructor leaves a text that fits.
LEMMA FitsConstruct ==
    ASSUME NEW m \in Nat, NEW chars \in Word(Chars, m)
    PROVE  /\ Fits(range_initialize(<<>>, chars))
           /\ \A pos, k \in Nat : Fits(xstring(chars, pos, k))
           /\ \A k \in Nat, c \in Chars : Fits(element_initialize(<<>>, k, c))
<1>1. ASSUME NEW k \in Nat, NEW t \in Word(Chars, k) PROVE Fits(range_initialize(<<>>, t))
  <2>1. range_initialize(<<>>, t) = IF k >= SIZE THEN Threw(<<>>) ELSE Returned(t)
    BY WordIsSeq DEF range_initialize
  <2>2. ~ (k >= SIZE) => k \in 0 .. SIZE
    BY SizeAssumption
  <2> QED BY <2>1, <2>2, FitsEmpty, FitsSame
<1>2. ASSUME NEW pos \in Nat, NEW k \in Nat PROVE Fits(xstring(chars, pos, k))
  <2>1. Len(chars) = m
    BY WordIsSeq
  <2>2. CASE pos > m
    BY <2>1, <2>2, FitsEmpty DEF xstring
  <2>3. CASE ~ (pos > m)
    <3>1. pos \in 0 .. m
      BY <2>3
    <3>2. PICK x \in 0 .. m - pos : Part(chars, pos, k) \in Word(Chars, x)
      BY <3>1, PartIs
    <3>3. x \in Nat
      BY <3>1
    <3>4. xstring(chars, pos, k) = range_initialize(<<>>, Part(chars, pos, k))
      BY <2>1, <2>3 DEF xstring
    <3> QED BY <3>2, <3>3, <3>4, <1>1
  <2> QED BY <2>2, <2>3
<1>3. ASSUME NEW k \in Nat, NEW c \in Chars PROVE Fits(element_initialize(<<>>, k, c))
  <2>1. Repeat(c, k) \in Word(Chars, k)
    BY RepeatType
  <2>2. element_initialize(<<>>, k, c) = IF k > SIZE THEN Threw(<<>>) ELSE Returned(Repeat(c, k))
    BY DEF element_initialize
  <2>3. ~ (k > SIZE) => k \in 0 .. SIZE
    BY SizeAssumption
  <2> QED BY <2>1, <2>2, <2>3, FitsEmpty, FitsSame
<1> QED BY <1>1, <1>2, <1>3

\* Every overload of insert leaves a text that fits.
LEMMA FitsInsertion ==
    ASSUME NEW n \in 0 .. SIZE, NEW s \in Word(Chars, n), NEW m \in Nat, NEW chars \in Word(Chars, m)
    PROVE  /\ \A pos \in Nat : Fits(insert_string(s, pos, chars))
           /\ \A pos, beg, k \in Nat : Fits(insert_part(s, pos, chars, beg, k))
           /\ \A pos, k \in Nat, c \in Chars : Fits(insert_fill(s, pos, k, c))
           /\ \A pos \in 0 .. n : \A first \in 0 .. n : \A last \in first .. n :
                 Fits(insertOwn(s, pos, first, last))
<1> n \in Nat
  BY SizeAssumption
<1>1. Len(s) = n /\ Len(chars) = m /\ Fits(Threw(s))
  BY WordIsSeq, FitsSame
<1>2. ASSUME NEW pos \in Nat PROVE Fits(insert_string(s, pos, chars))
  <2>1. pos > n \/ pos \in 0 .. n
    OBVIOUS
  <2>2. pos \in 0 .. n => Fits(insert(s, pos, chars))
    BY FitsInsert
  <2> QED BY <1>1, <2>1, <2>2 DEF insert_string
<1>3. ASSUME NEW pos \in Nat, NEW beg \in Nat, NEW k \in Nat
      PROVE  Fits(insert_part(s, pos, chars, beg, k))
  <2>1. CASE pos > n \/ beg > m
    BY <1>1, <2>1 DEF insert_part
  <2>2. CASE ~ (pos > n) /\ ~ (beg > m)
    <3>1. pos \in 0 .. n /\ beg \in 0 .. m
      BY <2>2
    <3>2. PICK x \in 0 .. m - beg : Part(chars, beg, k) \in Word(Chars, x)
      BY <3>1, PartIs
    <3>3. x \in Nat
      BY <3>1
    <3>4. Fits(insert(s, pos, Part(chars, beg, k)))
      BY <3>1, <3>2, <3>3, FitsInsert
    <3> QED BY <1>1, <2>2, <3>4 DEF insert_part
  <2> QED BY <2>1, <2>2
<1>4. ASSUME NEW pos \in Nat, NEW k \in Nat, NEW c \in Chars PROVE Fits(insert_fill(s, pos, k, c))
  <2>1. CASE pos > n
    BY <1>1, <2>1 DEF insert_fill
  <2>2. CASE ~ (pos > n)
    <3>1. pos \in 0 .. n
      BY <2>2
    <3>2. Filled(s, pos, k, c) = AfterCopies(s, n, pos, c, k)
      BY <3>1, FilledIs
    <3>3. Room(n, pos) \in Nat /\ n + Room(n, pos) \in 0 .. SIZE
      BY <3>1, SizeAssumption DEF Room
    <3>4. ASSUME NEW i \in 0 .. Room(n, pos)
          PROVE  Fits(Returned(Put(s, n, pos, Repeat(c, i), i))) /\ Fits(Threw(Put(s, n, pos, Repeat(c, i), i)))
      <4>1. i \in Nat /\ n + i \in 0 .. SIZE
        BY <3>3, SizeAssumption
      <4>2. Repeat(c, i) \in Word(Chars, i)
        BY <4>1, RepeatType
      <4>3. Put(s, n, pos, Repeat(c, i), i) \in Word(Chars, n + i)
        BY <3>1, <4>1, <4>2, PutType
      <4> QED BY <4>1, <4>3, FitsSame
    <3>5. Room(n, pos) \in 0 .. Room(n, pos) /\ (k <= Room(n, pos) => k \in 0 .. Room(n, pos))
      BY <3>3
    <3>6. Fits(AfterCopies(s, n, pos, c, k))
      BY <3>4, <3>5, FitsSame DEF AfterCopies
    <3>7. \/ insert_fill(s, pos, k, c) = Threw(s)
          \/ insert_fill(s, pos, k, c) = AfterCopies(s, n, pos, c, k)
      BY <3>2, Zenon DEF insert_fill
    <3> QED BY <1>1, <3>6, <3>7, Zenon
  <2> QED BY <2>1, <2>2
<1>5. ASSUME NEW pos \in 0 .. n, NEW first \in 0 .. n, NEW last \in first .. n
      PROVE  Fits(insertOwn(s, pos, first, last))
  <2>1. SubSeq(Moved(s, pos, last - first), first + 1, last) = Own(s, pos, first, last)
        /\ Own(s, pos, first, last) \in Word(Chars, last - first)
    BY OwnIs
  <2>2. last - first \in Nat
    OBVIOUS
  <2> QED BY <2>1, <2>2, FitsInsert DEF insertOwn
<1> QED BY <1>2, <1>3, <1>4, <1>5

\* append, resize and push_back leave a text that fits.
LEMMA FitsAppending ==
    ASSUME NEW n \in 0 .. SIZE, NEW s \in Word(Chars, n), NEW m \in Nat, NEW chars \in Word(Chars, m)
    PROVE  /\ Fits(append(s, chars))
           /\ \A pos, k \in Nat : Fits(append_part(s, chars, pos, k))
           /\ \A k \in Nat, c \in Chars : Fits(append_fill(s, k, c)) /\ Fits(resize(s, k, c))
           /\ \A c \in Chars : Fits(push_back(s, c))
<1> n \in Nat
  BY SizeAssumption
<1>1. Len(s) = n /\ Len(chars) = m /\ Fits(Threw(s))
  BY WordIsSeq, FitsSame
<1>2. n \in 0 .. n /\ n \in n .. n
  OBVIOUS
<1>3. ASSUME NEW k \in Nat, NEW t \in Word(Chars, k) PROVE Fits(append(s, t))
  <2>1. Fits(insert(s, n, t))
    BY <1>2, FitsInsert
  <2> QED BY <1>1, <2>1, Zenon DEF append
<1>4. ASSUME NEW pos \in Nat, NEW k \in Nat PROVE Fits(append_part(s, chars, pos, k))
  <2>1. CASE pos > m
    BY <1>1, <2>1 DEF append_part
  <2>2. CASE ~ (pos > m)
    <3>1. pos \in 0 .. m
      BY <2>2
    <3>2. PICK x \in 0 .. m - pos : Part(chars, pos, k) \in Word(Chars, x)
      BY <3>1, PartIs
    <3>3. x \in Nat
      BY <3>1
    <3>4. Fits(append(s, Part(chars, pos, k)))
      BY <3>2, <3>3, <1>3
    <3> QED BY <1>1, <2>2, <3>4 DEF append_part
  <2> QED BY <2>1, <2>2
<1>5. ASSUME NEW k \in Nat, NEW c \in Chars PROVE Fits(append_fill(s, k, c))
  <2>1. Fits(insert_fill(s, n, k, c))
    BY FitsInsertion
  <2> QED BY <1>1, <2>1, Zenon DEF append_fill
<1>6. ASSUME NEW k \in Nat, NEW c \in Chars PROVE Fits(resize(s, k, c))
  <2>1. CASE k <= n
    <3>1. k \in 0 .. n
      BY <2>1
    <3>2. Fits(erase(s, k, n))
      BY <1>2, <3>1, FitsErase
    <3> QED BY <1>1, <2>1, <3>2, Zenon DEF resize
  <2>2. CASE ~ (k <= n)
    <3>1. k - n \in Nat
      BY <2>2
    <3>2. Fits(append_fill(s, k - n, c))
      BY <3>1, <1>5
    <3> QED BY <1>1, <2>2, <3>2, Zenon DEF resize
  <2> QED BY <2>1, <2>2
<1>7. ASSUME NEW c \in Chars PROVE Fits(push_back(s, c))
  <2>1. <<c>> \in Word(Chars, 1) /\ 1 \in Nat
    BY DEF Word
  <2>2. Fits(insert(s, n, <<c>>))
    BY <1>2, <2>1, FitsInsert
  <2> QED BY <1>1, <2>2, Zenon DEF push_back
<1> QED BY <1>3, <1>4, <1>5, <1>6, <1>7

\* pop_back and erase leave a text that fits.
LEMMA FitsErasure ==
    ASSUME NEW n \in 0 .. SIZE, NEW s \in Word(Chars, n)
    PROVE  /\ s # <<>> => Fits(pop_back(s))
           /\ \A pos, k \in Nat : Fits(erase_part(s, pos, k))
<1> n \in Nat
  BY SizeAssumption
<1>1. Len(s) = n /\ Fits(Threw(s)) /\ (s = <<>> <=> n = 0)
  BY WordIsSeq, FitsSame
<1>2. ASSUME s # <<>> PROVE Fits(pop_back(s))
  <2>1. n - 1 \in 0 .. n /\ n \in 0 .. n
    BY <1>1, <1>2
  <2>2. Fits(erase(s, n - 1, n))
    BY <2>1, FitsErase
  <2> QED BY <1>1, <2>2, Zenon DEF pop_back
<1>3. ASSUME NEW pos \in Nat, NEW k \in Nat PROVE Fits(erase_part(s, pos, k))
  <2>1. CASE pos > n
    BY <1>1, <2>1, Zenon DEF erase_part
  <2>2. CASE ~ (pos > n)
    <3>1. pos \in 0 .. n
      BY <2>2
    <3>2. AtMost(k, n - pos) \in 0 .. n
      BY <3>1, AtMostIs
    <3>3. Fits(erase(s, pos, AtMost(k, n - pos)))
      BY <3>1, <3>2, FitsErase
    <3> QED BY <1>1, <2>2, <3>3, Zenon DEF erase_part
  <2> QED BY <2>1, <2>2
<1> QED BY <1>2, <1>3

\* What a replacement leaves fits.
LEMMA FitsReplaced ==
    ASSUME NEW n \in 0 .. SIZE, NEW s \in Word(Chars, n), NEW m \in Nat, NEW chars \in Word(Chars, m),
           NEW first \in 0 .. n, NEW last \in first .. n
    PROVE  Fits(Replaced(s, n, first, last, chars, m))
<1> n \in Nat /\ last - first \in Nat
  BY SizeAssumption
<1> DEFINE len == last - first
           over == Overlay(s, n, first, chars, len)
           new == Respelt(s, n, first, last, chars, m)
<1>1. new \in Word(Chars, n - len + m) /\ n - len + m \in Nat
  BY RespeltType
<1>2. ASSUME m > len PROVE over \in Word(Chars, n)
  <2>1. len \in 0 .. m
    BY <1>2
  <2> QED BY <2>1, OverlayType
<1>3. ~ (m > len /\ n + (m - len) > SIZE) => n - len + m \in 0 .. SIZE
  BY <1>1, SizeAssumption
<1> HIDE DEF new, over
<1>4. \/ m > len /\ Replaced(s, n, first, last, chars, m) = Threw(over)
      \/ m > len /\ Replaced(s, n, first, last, chars, m) = Overrun(over)
      \/ /\ ~ (m > len /\ n + (m - len) > SIZE)
         /\ Replaced(s, n, first, last, chars, m) = Returned(new)
  BY DEF Replaced, new, over
<1> QED BY <1>1, <1>2, <1>3, <1>4, FitsSame

\* Every overload of replace leaves a text that fits.
LEMMA FitsReplacement ==
    ASSUME NEW n \in 0 .. SIZE, NEW s \in Word(Chars, n), NEW m \in Nat, NEW chars \in Word(Chars, m)
    PROVE  /\ \A first \in 0 .. n : \A last \in first .. n :
                 Fits(replace_range(s, first, last, chars)) /\ Fits(replace_input(s, first, last, chars))
           /\ \A pos, k \in Nat : Fits(replace(s, pos, k, chars))
           /\ \A pos, k, pos2, k2 \in Nat : Fits(replace_part(s, pos, k, chars, pos2, k2))
<1> n \in Nat
  BY SizeAssumption
<1>1. Len(s) = n /\ Len(chars) = m /\ Fits(Threw(s))
  BY WordIsSeq, FitsSame
<1>2. ASSUME NEW l \in Nat, NEW t \in Word(Chars, l), NEW first \in 0 .. n, NEW last \in first .. n
      PROVE  Fits(replace_range(s, first, last, t)) /\ Fits(replace_input(s, first, last, t))
  BY ReplaceRangeIs, ReplaceInputIs, FitsReplaced
<1>3. ASSUME NEW l \in Nat, NEW t \in Word(Chars, l), NEW pos \in Nat, NEW k \in Nat
      PROVE  Fits(replace(s, pos, k, t))
  <2>1. CASE pos > n
    BY <1>1, <2>1, Zenon DEF replace
  <2>2. CASE ~ (pos > n)
    <3> DEFINE last == pos + AtMost(k, n - pos)
    <3>1. pos \in 0 .. n /\ last \in pos .. n
      BY <2>2, AtMostIs
    <3>2. Fits(replace_range(s, pos, last, t))
      BY <1>2, <3>1
    <3>3. replace(s, pos, k, t) = Threw(s) \/ replace(s, pos, k, t) = replace_range(s, pos, last, t)
      BY <1>1, Zenon DEF replace
    <3> HIDE DEF last
    <3> QED BY <1>1, <3>2, <3>3, Zenon
  <2> QED BY <2>1, <2>2
<1>4. ASSUME NEW pos \in Nat, NEW k \in Nat, NEW pos2 \in Nat, NEW k2 \in Nat
      PROVE  Fits(replace_part(s, pos, k, chars, pos2, k2))
  <2>1. CASE pos2 > m
    BY <1>1, <2>1, Zenon DEF replace_part
  <2>2. CASE ~ (pos2 > m)
    <3>1. pos2 \in 0 .. m
      BY <2>2
    <3>2. PICK x \in 0 .. m - pos2 : Part(chars, pos2, k2) \in Word(Chars, x)
      BY <3>1, PartIs
    <3>3. x \in Nat
      BY <3>1
    <3>4. Fits(replace(s, pos, k, Part(chars, pos2, k2)))
      BY <3>2, <3>3, <1>3
    <3> QED BY <1>1, <2>2, <3>4, Zenon DEF replace_part
  <2> QED BY <2>1, <2>2
<1> QED BY <1>1, <1>2, <1>3, <1>4

\* swap exchanges two texts that fit.
LEMMA SwapIs ==
    ASSUME NEW n \in 0 .. SIZE, NEW s \in Word(Chars, n),
           NEW m \in 0 .. SIZE, NEW other \in Word(Chars, m)
    PROVE  swap(s, other) = <<other, s>>
<1> DEFINE Cells(t) == [i \in 1 .. SIZE |-> IF i <= Len(t) THEN t[i] ELSE Unwritten]
<1>1. ASSUME NEW k \in 0 .. SIZE, NEW t \in Word(Chars, k)
      PROVE  SubSeq(Cells(t), 1, Len(t)) = t
  <2> k \in Nat
    BY SizeAssumption
  <2> DEFINE cells == Cells(t)
  <2>1. Len(t) = k
    BY WordIsSeq
  <2>2. ASSUME NEW i \in 1 .. k PROVE cells[i] = t[i] /\ t[i] \in Chars
    BY <2>1, SizeAssumption DEF Word
  <2> HIDE DEF cells
  <2>3. \A i \in 1 .. k : cells[i] \in Chars
    BY <2>2
  <2>4. /\ SubSeq(cells, 1, k) \in Seq(Chars)
        /\ Len(SubSeq(cells, 1, k)) = k
        /\ \A i \in 1 .. k : SubSeq(cells, 1, k)[i] = cells[i]
    BY <2>3, SubSeqProperties
  <2>5. SubSeq(cells, 1, k) = t
    BY <2>2, <2>4, SameSeq
  <2> QED BY <2>1, <2>5 DEF cells
<1>2. SubSeq(Cells(s), 1, Len(s)) = s /\ SubSeq(Cells(other), 1, Len(other)) = other
  BY <1>1
<1> QED BY <1>2, Zenon DEF swap
-----------------------------------------------------------------------------------
(* The text fits into the buffer *)

\* What the type of the text says, in terms of words.
LEMMA TextIs == /\ StringTypeOK => Len(text) \in 0 .. SIZE /\ text \in Word(Chars, Len(text))
                /\ \A k \in 0 .. SIZE : text \in Word(Chars, k) => StringTypeOK
<1>1. StringTypeOK => Len(text) \in 0 .. SIZE /\ text \in Word(Chars, Len(text))
  BY SeqIsWord, SizeAssumption DEF StringTypeOK
<1>2. ASSUME NEW k \in 0 .. SIZE, text \in Word(Chars, k) PROVE StringTypeOK
  <2>1. k \in Nat
    BY SizeAssumption
  <2>2. Len(text) = k /\ text \in Seq(Chars)
    BY <1>2, <2>1, WordIsSeq
  <2> QED BY <2>2, SizeAssumption DEF StringTypeOK
<1> QED BY <1>1, <1>2

\* The strings and numbers that an edit is given.
LEMMA ArgumentsAre ==
    /\ \A s \in Others : Len(s) \in Nat /\ s \in Word(Chars, Len(s)) /\ SIZE + Len(s) < W
    /\ \A s \in Strings : s \in Others /\ Len(s) \in 0 .. SIZE
    /\ \A k \in Counts : k \in Nat /\ k < W
<1>1. ASSUME NEW s \in Others PROVE Len(s) \in Nat /\ s \in Word(Chars, Len(s)) /\ SIZE + Len(s) < W
  BY CharsAssumption, WidthAssumption, SeqIsWord
<1>2. ASSUME NEW s \in Strings PROVE s \in Others /\ Len(s) \in 0 .. SIZE
  BY <1>1 DEF Strings
<1>3. \A k \in Counts : k \in Nat /\ k < W
  BY WidthAssumption
<1> QED BY <1>1, <1>2, <1>3

\* A result that fits keeps the type of the text.
LEMMA FitsBecomes == ASSUME NEW r, Fits(r), Becomes(r) PROVE StringTypeOK'
<1>1. PICK k \in 0 .. SIZE : text' \in Word(Chars, k)
  BY DEF Fits, Becomes
<1>2. k \in Nat
  BY SizeAssumption
<1>3. Len(text') = k /\ text' \in Seq(Chars)
  BY <1>1, <1>2, WordIsSeq
<1> QED BY <1>3, SizeAssumption DEF StringTypeOK

\* Every edit keeps the type of the text.
LEMMA TextStays == StringTypeOK /\ StringNext => StringTypeOK'
<1> SUFFICES ASSUME StringTypeOK, StringNext PROVE StringTypeOK'
  OBVIOUS
<1> DEFINE n == Len(text)
<1>1. n \in 0 .. SIZE /\ text \in Word(Chars, n) /\ Places = 0 .. n
  BY TextIs DEF Places
<1>2. /\ \A s \in Others : Len(s) \in Nat /\ s \in Word(Chars, Len(s))
      /\ \A s \in Strings : s \in Others /\ Len(s) \in 0 .. SIZE
      /\ \A k \in Counts : k \in Nat /\ k < W
  BY ArgumentsAre
<1> HIDE DEF n
<1>3. \A first, last \in Places : first <= last => last \in first .. n
  BY <1>1
<1>4. CASE Construct
  <2>1. PICK r : Fits(r) /\ Becomes(r)
    <3>1. CASE \E s \in Strings, pos, k \in Counts : Becomes(xstring(s, pos, k))
      BY <1>2, <3>1, FitsConstruct
    <3>2. CASE \E k \in Counts, c \in Chars : Becomes(element_initialize(<<>>, k, c))
      BY <1>2, <3>2, FitsConstruct, FitsEmpty
    <3> QED BY <1>4, <3>1, <3>2 DEF Construct
  <2> QED BY <2>1, FitsBecomes
<1>5. CASE Assign
  <2>1. PICK r : Fits(r) /\ Becomes(r)
    <3>1. CASE \E s \in Others : Becomes(assign(s))
      BY <1>2, <3>1, FitsConstruct DEF assign
    <3>2. CASE \E k \in Counts, c \in Chars : Becomes(assign_fill(k, c))
      BY <1>2, <3>2, FitsConstruct, FitsEmpty DEF assign_fill
    <3> QED BY <1>5, <3>1, <3>2 DEF Assign
  <2> QED BY <2>1, FitsBecomes
<1>6. CASE Extend
  <2>1. PICK r : Fits(r) /\ Becomes(r)
    <3>1. CASE \E s \in Others : Becomes(append(text, s))
      BY <1>1, <1>2, <3>1, FitsAppending
    <3>2. CASE \E s \in Strings, pos, k \in Counts : Becomes(append_part(text, s, pos, k))
      BY <1>1, <1>2, <3>2, FitsAppending
    <3>3. CASE \E k \in Counts, c \in Chars : Becomes(append_fill(text, k, c))
      BY <1>1, <1>2, <3>3, FitsAppending, FitsEmpty
    <3> QED BY <1>6, <3>1, <3>2, <3>3 DEF Extend
  <2> QED BY <2>1, FitsBecomes
<1>7. CASE PushBack
  <2>1. PICK r : Fits(r) /\ Becomes(r)
    BY <1>1, <1>7, FitsAppending, FitsEmpty DEF PushBack
  <2> QED BY <2>1, FitsBecomes
<1>8. CASE Insert
  <2>1. PICK r : Fits(r) /\ Becomes(r)
    <3>1. CASE \E s \in Others, pos \in Counts : Becomes(insert_string(text, pos, s))
      BY <1>1, <1>2, <3>1, FitsInsertion
    <3>2. CASE \E s \in Strings, pos, beg, k \in Counts :
                  Becomes(insert_part(text, pos, s, beg, k))
      BY <1>1, <1>2, <3>2, FitsInsertion
    <3>3. CASE \E pos, k \in Counts, c \in Chars : Becomes(insert_fill(text, pos, k, c))
      BY <1>1, <1>2, <3>3, FitsInsertion, FitsEmpty
    <3>4. CASE \E pos, first, last \in Places :
                  first <= last /\ Becomes(insertOwn(text, pos, first, last))
      BY <1>1, <1>3, <3>4, FitsInsertion, FitsEmpty
    <3> QED BY <1>8, <3>1, <3>2, <3>3, <3>4 DEF Insert
  <2> QED BY <2>1, FitsBecomes
<1>9. CASE PopBack
  <2>1. PICK r : Fits(r) /\ Becomes(r)
    BY <1>1, <1>9, FitsErasure DEF PopBack
  <2> QED BY <2>1, FitsBecomes
<1>10. CASE Erase
  <2>1. PICK r : Fits(r) /\ Becomes(r)
    <3>1. CASE \E pos, k \in Counts : Becomes(erase_part(text, pos, k))
      BY <1>1, <1>2, <3>1, FitsErasure
    <3>2. CASE \E first, last \in Places : first <= last /\ Becomes(erase(text, first, last))
      BY <1>1, <3>2, FitsErase
    <3> QED BY <1>10, <3>1, <3>2 DEF Erase
  <2> QED BY <2>1, FitsBecomes
<1>11. CASE Resize
  <2>1. PICK r : Fits(r) /\ Becomes(r)
    BY <1>1, <1>2, <1>11, FitsAppending, FitsEmpty DEF Resize
  <2> QED BY <2>1, FitsBecomes
<1>12. CASE Replace
  <2>1. PICK r : Fits(r) /\ Becomes(r)
    <3>1. CASE \E s \in Others, pos, k \in Counts : Becomes(replace(text, pos, k, s))
      BY <1>1, <1>2, <3>1, FitsReplacement
    <3>2. CASE \E s \in Strings, pos1, n1, pos2, n2 \in Counts :
                  Becomes(replace_part(text, pos1, n1, s, pos2, n2))
      BY <1>1, <1>2, <3>2, FitsReplacement
    <3>3. CASE \E s \in Others, first, last \in Places :
                  /\ first <= last
                  /\ \/ Becomes(replace_range(text, first, last, s))
                     \/ Becomes(replace_input(text, first, last, s))
      BY <1>1, <1>2, <1>3, <3>3, FitsReplacement
    <3> QED BY <1>12, <3>1, <3>2, <3>3 DEF Replace
  <2> QED BY <2>1, FitsBecomes
<1>13. CASE Swap
  <2>1. PICK s \in Strings : text' = swap(text, s)[1]
    BY <1>13 DEF Swap
  <2>2. text' = s
    <3>1. swap(text, s) = <<s, text>>
      BY <1>1, <1>2, SwapIs
    <3> QED BY <2>1, <3>1
  <2> QED BY <2>2, CharsAssumption DEF StringTypeOK, Strings
<1> QED BY <1>4, <1>5, <1>6, <1>7, <1>8, <1>9, <1>10, <1>11, <1>12, <1>13 DEF StringNext

\* The text is one of characters and fits into the buffer as long as no edit has run
\* over its end: append and push_back may, and the model does not go on from there.
THEOREM TypeCorrect == StringSpec => []StringTypeOK
<1>1. StringInit => StringTypeOK
  BY SizeAssumption DEF StringInit, StringTypeOK
<1>2. StringTypeOK /\ [StringNext]_text => StringTypeOK'
  BY TextStays DEF StringTypeOK
<1> QED BY <1>1, <1>2, PTL DEF StringSpec
-----------------------------------------------------------------------------------
(* Each edit does what basic_string's does *)

\* Splicing is replacing a range, and how long the outcome is.
LEMMA SplicedIs ==
    ASSUME NEW n \in 0 .. SIZE, text \in Word(Chars, n), NEW first \in 0 .. n,
           NEW last \in first .. n, NEW m \in Nat, NEW chars \in Word(Chars, m)
    PROVE  /\ Spliced(first, last, chars) = Respelt(text, n, first, last, chars, m)
           /\ Len(Spliced(first, last, chars)) = n - (last - first) + m
<1> n \in Nat
  BY SizeAssumption
<1>1. Len(text) = n
  BY WordIsSeq
<1>2. FromParts(text, n, first, last, chars) = Respelt(text, n, first, last, chars, m)
  BY PutParts
<1>3. Spliced(first, last, chars) = Respelt(text, n, first, last, chars, m)
  BY <1>1, <1>2, Zenon DEF Spliced, FromParts
<1>4. /\ n - (last - first) + m \in Nat
      /\ Respelt(text, n, first, last, chars, m) \in Word(Chars, n - (last - first) + m)
  BY RespeltType
<1>5. Len(Respelt(text, n, first, last, chars, m)) = n - (last - first) + m
  <2> DEFINE w == Respelt(text, n, first, last, chars, m)
             len == n - (last - first) + m
  <2>1. len \in Nat /\ w \in Word(Chars, len)
    BY <1>4
  <2> HIDE DEF w, len
  <2>2. Len(w) = len
    BY <2>1, WordIsSeq
  <2> QED BY <2>2 DEF w, len
<1> QED BY <1>3, <1>5

\* Nothing is taken away before an insertion.
LEMMA RespeltNone ==
    ASSUME NEW S, NEW n \in Nat, NEW m \in Nat, NEW pos \in 0 .. n, NEW s \in Word(S, n), NEW chars
    PROVE  Respelt(s, n, pos, pos, chars, m) = Put(s, n, pos, chars, m)
<1>1. Cut(s, n, pos, pos) = s
  BY CutNothing
<1>2. n - (pos - pos) = n
  OBVIOUS
<1> QED BY <1>1, <1>2 DEF Respelt

\* Whether a result agrees with the text wanted, by the length of that text.
LEMMA ReturnedAgrees ==
    /\ \A want, left : Len(want) <= SIZE => Agrees(Returned(want), want, left)
    /\ \A want, left : Len(want) >= SIZE => Agrees(Threw(left), want, left)
    /\ \A want, left, s : Len(want) > SIZE => Agrees(Overrun(s), want, left)
BY DEF Agrees, Returned, Threw, Overrun

\* insert of a range agrees with basic_string.
LEMMA InsertAgrees ==
    ASSUME NEW n \in 0 .. SIZE, text \in Word(Chars, n), NEW pos \in 0 .. n,
           NEW m \in Nat, NEW chars \in Word(Chars, m)
    PROVE  Agrees(insert(text, pos, chars), Spliced(pos, pos, chars), text)
<1> n \in Nat
  BY SizeAssumption
<1> DEFINE want == Spliced(pos, pos, chars)
<1>1. pos \in pos .. n /\ n - (pos - pos) + m = n + m
  OBVIOUS
<1>2. want = Respelt(text, n, pos, pos, chars, m) /\ Len(want) = n - (pos - pos) + m
  BY <1>1, SplicedIs
<1>3. want = Put(text, n, pos, chars, m)
  BY <1>2, RespeltNone
<1>4. Len(want) = n + m
  BY <1>1, <1>2
<1> HIDE DEF want
<1>5. insert(text, pos, chars)
      = IF m = 0 THEN Returned(text)
        ELSE IF pos # n /\ n + m >= SIZE THEN Threw(text)
        ELSE IF n + m > SIZE THEN Overrun(text)
        ELSE Returned(want)
  BY <1>3, InsertIs
<1>6. m = 0 => want = text
  BY <1>3, PutNothing
<1>7. \/ insert(text, pos, chars) = Returned(want) /\ n + m <= SIZE
      \/ insert(text, pos, chars) = Threw(text) /\ n + m >= SIZE
      \/ insert(text, pos, chars) = Overrun(text) /\ n + m > SIZE
  BY <1>5, <1>6, SizeAssumption
<1>8. Agrees(insert(text, pos, chars), want, text)
  BY <1>4, <1>7, ReturnedAgrees
<1> QED BY <1>8 DEF want

\* erase of a range agrees with basic_string.
LEMMA EraseAgrees ==
    ASSUME NEW n \in 0 .. SIZE, text \in Word(Chars, n), NEW first \in 0 .. n,
           NEW last \in first .. n
    PROVE  Agrees(erase(text, first, last), Spliced(first, last, <<>>), text)
<1> n \in Nat
  BY SizeAssumption
<1> DEFINE want == Spliced(first, last, <<>>)
<1>1. <<>> \in Word(Chars, 0) /\ 0 \in Nat
  BY FitsEmpty
<1>2. want = Respelt(text, n, first, last, <<>>, 0) /\ Len(want) = n - (last - first) + 0
  BY <1>1, SplicedIs
<1> HIDE DEF want
<1>3. /\ Cut(text, n, first, last) \in Word(Chars, n - (last - first))
      /\ n - (last - first) \in Nat /\ first \in 0 .. n - (last - first)
  BY CutType
<1>4. Put(Cut(text, n, first, last), n - (last - first), first, <<>>, 0) = Cut(text, n, first, last)
  BY <1>3, PutNothing
<1>5. want = Cut(text, n, first, last)
  BY <1>2, <1>4 DEF Respelt
<1>6. erase(text, first, last) = Returned(want)
  BY <1>5, EraseIs
<1>7. Len(want) <= SIZE
  BY <1>2, SizeAssumption
<1>8. Agrees(erase(text, first, last), want, text)
  BY <1>6, <1>7, ReturnedAgrees
<1> QED BY <1>8 DEF want

\* replace of a range agrees with basic_string.
LEMMA ReplaceRangeAgrees ==
    ASSUME NEW n \in 0 .. SIZE, text \in Word(Chars, n), NEW first \in 0 .. n,
           NEW last \in first .. n, NEW m \in Nat, NEW chars \in Word(Chars, m)
    PROVE  Agrees(replace_range(text, first, last, chars), Spliced(first, last, chars),
                  Overwritten(text, first, SubSeq(chars, 1, last - first)))
<1> n \in Nat /\ last - first \in Nat
  BY SizeAssumption
<1> DEFINE want == Spliced(first, last, chars)
           left == Overwritten(text, first, SubSeq(chars, 1, last - first))
           over == Overlay(text, n, first, chars, last - first)
           len == last - first
<1>1. want = Respelt(text, n, first, last, chars, m) /\ Len(want) = n - (last - first) + m
  BY SplicedIs
<1>2. ASSUME m > len PROVE left = over
  <2>1. last - first \in 0 .. m
    BY <1>2
  <2> QED BY <2>1, OverwrittenIs
<1> HIDE DEF want, left, over
<1>3. replace_range(text, first, last, chars)
      = IF m <= len THEN Returned(want)
        ELSE IF last # n /\ n + (m - len) >= SIZE THEN Threw(over)
        ELSE IF n + (m - len) > SIZE THEN Overrun(over)
        ELSE Returned(want)
  BY <1>1, ReplaceRangeIs DEF Replaced, over
<1>4. \/ replace_range(text, first, last, chars) = Returned(want) /\ n - len + m <= SIZE
      \/ replace_range(text, first, last, chars) = Threw(left) /\ n - len + m >= SIZE
      \/ replace_range(text, first, last, chars) = Overrun(over) /\ n - len + m > SIZE
  BY <1>2, <1>3, SizeAssumption
<1>5. Agrees(replace_range(text, first, last, chars), want, left)
  BY <1>1, <1>4, ReturnedAgrees
<1> QED BY <1>5 DEF want, left

\* A position outside the text is refused; a throw comes of the lack of room only.
LEMMA InsertStringAgrees ==
    ASSUME NEW n \in 0 .. SIZE, text \in Word(Chars, n), NEW pos \in Nat,
           NEW m \in Nat, NEW chars \in Word(Chars, m), SIZE + m < W
    PROVE  /\ pos > n => insert_string(text, pos, chars) = Threw(text)
           /\ pos <= n => Agrees(insert_string(text, pos, chars), Spliced(pos, pos, chars), text)
<1> n \in Nat
  BY SizeAssumption
<1>1. Len(text) = n /\ Len(chars) = m
  BY WordIsSeq
<1>2. CASE pos > n
  <2>1. insert_string(text, pos, chars) = Threw(text)
    BY <1>1, <1>2, Zenon DEF insert_string
  <2> QED BY <1>2, <2>1
<1>3. CASE pos <= n
  <2>1. pos \in 0 .. n /\ pos \in pos .. n /\ n - (pos - pos) + m = n + m
    BY <1>3
  <2>2. Len(Spliced(pos, pos, chars)) = n + m
    BY <2>1, SplicedIs
  <2>3. n > (SIZE - m) % W => n + m >= SIZE
    <3>1. CASE m > SIZE
      BY <3>1, SizeAssumption
    <3>2. CASE m <= SIZE
      <4>1. (SIZE - m) % W = SIZE - m
        BY <3>2, SizeAssumption, WidthAssumption
      <4> QED BY <4>1, SizeAssumption
    <3> QED BY <3>1, <3>2, SizeAssumption
  <2>4. Agrees(insert(text, pos, chars), Spliced(pos, pos, chars), text)
    BY <2>1, InsertAgrees
  <2>5. \/ insert_string(text, pos, chars) = insert(text, pos, chars)
        \/ n > (SIZE - m) % W /\ insert_string(text, pos, chars) = Threw(text)
    <3>1. ~ (pos > n)
      BY <1>3
    <3> QED BY <1>1, <3>1, Zenon DEF insert_string
  <2>6. Agrees(insert_string(text, pos, chars), Spliced(pos, pos, chars), text)
    <3> HIDE DEF Spliced
    <3> QED BY <2>2, <2>3, <2>4, <2>5, ReturnedAgrees
  <2> QED BY <1>3, <2>6
<1> QED BY <1>2, <1>3

\* replace at a position throws beyond the end, and agrees with basic_string otherwise.
LEMMA ReplaceAgrees ==
    ASSUME NEW n \in 0 .. SIZE, text \in Word(Chars, n), NEW pos \in Nat, NEW k \in Nat,
           NEW m \in Nat, NEW chars \in Word(Chars, m)
    PROVE  /\ pos > n => replace(text, pos, k, chars) = Threw(text)
           /\ pos <= n => Agrees(replace(text, pos, k, chars),
                                 Spliced(pos, pos + AtMost(k, n - pos), chars), text)
<1> n \in Nat
  BY SizeAssumption
<1>1. Len(text) = n /\ Len(chars) = m
  BY WordIsSeq
<1>2. CASE pos > n
  <2>1. replace(text, pos, k, chars) = Threw(text)
    BY <1>1, <1>2, Zenon DEF replace
  <2> QED BY <1>2, <2>1
<1>3. CASE pos <= n
  <2> DEFINE len == AtMost(k, n - pos)
             last == pos + len
             over == Overlay(text, n, pos, chars, last - pos)
  <2>1. len \in 0 .. n - pos
    BY <1>3, AtMostIs
  <2> HIDE DEF len
  <2>2. pos \in 0 .. n /\ last \in pos .. n /\ last - pos = len
    BY <1>3, <2>1
  <2>3. /\ Spliced(pos, last, chars) = Respelt(text, n, pos, last, chars, m)
        /\ Len(Spliced(pos, last, chars)) = n - (last - pos) + m
    BY <2>2, SplicedIs
  <2>4. \/ replace(text, pos, k, chars) = replace_range(text, pos, last, chars)
           /\ ~ (m > SIZE) /\ ~ (n - len >= SIZE - m)
        \/ replace(text, pos, k, chars) = Threw(text) /\ (m > SIZE \/ n - len >= SIZE - m)
    <3>1. ~ (pos > n)
      BY <1>3
    <3> QED BY <1>1, <3>1, Zenon DEF replace, len
  <2> HIDE DEF last
  <2>5. CASE /\ replace(text, pos, k, chars) = replace_range(text, pos, last, chars)
             /\ ~ (m > SIZE) /\ ~ (n - len >= SIZE - m)
    <3>1. replace_range(text, pos, last, chars) = Replaced(text, n, pos, last, chars, m)
      BY <2>2, ReplaceRangeIs
    <3>2. /\ ~ (last # n /\ n + (m - (last - pos)) >= SIZE)
          /\ ~ (n + (m - (last - pos)) > SIZE)
          /\ n - (last - pos) + m <= SIZE
      BY <2>1, <2>2, <2>5, SizeAssumption
    <3>3. Replaced(text, n, pos, last, chars, m) = Returned(Respelt(text, n, pos, last, chars, m))
      BY <3>2 DEF Replaced
    <3>4. replace(text, pos, k, chars) = Returned(Spliced(pos, last, chars))
      BY <2>3, <2>5, <3>1, <3>3, Zenon
    <3>5. Len(Spliced(pos, last, chars)) <= SIZE
      BY <2>3, <3>2
    <3>6. Agrees(replace(text, pos, k, chars), Spliced(pos, last, chars), text)
      BY <3>4, <3>5, ReturnedAgrees
    <3>7. ~ (pos > n)
      BY <1>3
    <3> QED BY <3>6, <3>7, Zenon DEF last, len
  <2>6. CASE replace(text, pos, k, chars) = Threw(text) /\ (m > SIZE \/ n - len >= SIZE - m)
    <3>1. n - (last - pos) + m >= SIZE
      BY <2>1, <2>2, <2>6, SizeAssumption
    <3>2. Len(Spliced(pos, last, chars)) >= SIZE
      BY <2>3, <3>1
    <3> QED BY <2>6, <3>2, ReturnedAgrees, Zenon DEF last, len
  <2> QED BY <2>4, <2>5, <2>6
<1> QED BY <1>2, <1>3

\* insert of a part throws beyond an end, and agrees with basic_string otherwise.
LEMMA InsertPartAgrees ==
    ASSUME NEW n \in 0 .. SIZE, text \in Word(Chars, n), NEW pos \in Nat, NEW beg \in Nat,
           NEW k \in Nat, NEW m \in Nat, NEW chars \in Word(Chars, m)
    PROVE  /\ pos > n \/ beg > m => insert_part(text, pos, chars, beg, k) = Threw(text)
           /\ pos <= n /\ beg <= m =>
                 Agrees(insert_part(text, pos, chars, beg, k),
                        Spliced(pos, pos, Part(chars, beg, k)), text)
<1> n \in Nat
  BY SizeAssumption
<1>1. Len(text) = n /\ Len(chars) = m
  BY WordIsSeq
<1>2. CASE pos > n \/ beg > m
  <2>1. insert_part(text, pos, chars, beg, k) = Threw(text)
    BY <1>1, <1>2, Zenon DEF insert_part
  <2> QED BY <1>2, <2>1
<1>3. CASE pos <= n /\ beg <= m
  <2> DEFINE x == IF k <= m - beg THEN k ELSE m - beg
             part == Part(chars, beg, k)
  <2>1. pos \in 0 .. n /\ pos \in pos .. n /\ beg \in 0 .. m
    BY <1>3
  <2>2. part \in Word(Chars, x) /\ x \in Nat
    BY <2>1, PartIs
  <2>3. AtMost(k, m - beg) = x
    BY <2>1, AtMostIs
  <2> HIDE DEF x, part
  <2>4. Len(Spliced(pos, pos, part)) = n - (pos - pos) + x
    BY <2>1, <2>2, SplicedIs
  <2>5. Agrees(insert(text, pos, part), Spliced(pos, pos, part), text)
    BY <2>1, <2>2, InsertAgrees
  <2>6. \/ insert_part(text, pos, chars, beg, k) = insert(text, pos, part)
        \/ n > SIZE - x /\ insert_part(text, pos, chars, beg, k) = Threw(text)
    <3>1. ~ (pos > n) /\ ~ (beg > m)
      BY <1>3
    <3> QED BY <1>1, <2>3, <3>1, Zenon DEF insert_part, part
  <2>7. n > SIZE - x => n - (pos - pos) + x >= SIZE
    BY <2>2, SizeAssumption
  <2>8. n > SIZE - x => Len(Spliced(pos, pos, part)) >= SIZE
    BY <2>4, <2>7
  <2>9. Agrees(insert_part(text, pos, chars, beg, k), Spliced(pos, pos, part), text)
    BY <2>5, <2>6, <2>8, ReturnedAgrees, Zenon
  <2> QED BY <1>3, <2>9 DEF part
<1> QED BY <1>2, <1>3

\* erase of a part throws beyond the end, and otherwise takes out what ends at k.
LEMMA ErasePartAgrees ==
    ASSUME NEW n \in 0 .. SIZE, text \in Word(Chars, n), NEW pos \in Nat, NEW k \in Nat
    PROVE  LET e == AtMost(k, n - pos)
           IN  /\ pos > n => erase_part(text, pos, k) = Threw(text)
               /\ pos <= n => Agrees(erase_part(text, pos, k),
                                     Spliced(pos, pos + e, SubSeq(text, e + 1, e + pos)), text)
<1> n \in Nat
  BY SizeAssumption
<1>1. Len(text) = n
  BY WordIsSeq
<1>2. pos > n => erase_part(text, pos, k) = Threw(text)
  BY <1>1, Zenon DEF erase_part
<1>3. ASSUME pos <= n
      PROVE  LET e == AtMost(k, n - pos)
             IN  Agrees(erase_part(text, pos, k),
                        Spliced(pos, pos + e, SubSeq(text, e + 1, e + pos)), text)
  <2> DEFINE e == AtMost(k, n - pos)
             own == SubSeq(text, e + 1, e + pos)
             want == Spliced(pos, pos + e, own)
             rest == SubSeq(text, 1, pos) \o SubSeq(text, e + 1, n)
  <2>1. e \in 0 .. n - pos
    BY <1>3, AtMostIs
  <2> HIDE DEF e
  <2>2. /\ pos \in 0 .. n /\ pos + e \in pos .. n /\ (pos + e) - pos = e /\ pos + e = e + pos
        /\ e \in 0 .. n /\ e + pos \in e .. n /\ (e + pos) - e = pos /\ ~ (pos > n)
    BY <1>3, <2>1
  <2>3. own = Slice(text, e, e + pos) /\ own \in Word(Chars, pos)
    <3>1. own = Slice(text, e, e + pos)
      BY <2>2, SubSeqIs
    <3>2. Slice(text, e, e + pos) \in Word(Chars, (e + pos) - e)
      BY <2>2, SliceType
    <3> QED BY <2>2, <3>1, <3>2
  <2>4. Len(want) = n - e + pos
    <3> HIDE DEF own
    <3>1. Len(Spliced(pos, pos + e, own)) = n - ((pos + e) - pos) + pos
      BY <2>2, <2>3, SplicedIs
    <3> QED BY <2>2, <3>1
  <2>5. want = rest
    <3> DEFINE tail == SubSeq(text, pos + e + 1, n)
               front == SubSeq(text, 1, pos)
    <3>1. text \in Seq(Chars)
      BY WordIsSeq
    <3>2. front \in Seq(Chars) /\ own \in Seq(Chars) /\ tail \in Seq(Chars)
      <4>1. front \in Word(Chars, pos)
        <5>1. pos \in 0 .. n
          BY <2>2
        <5>2. SubSeq(text, 1, pos) = Slice(text, 0, pos) /\ Slice(text, 0, pos) \in Word(Chars, pos)
          BY <5>1, FrontIs
        <5> QED BY <5>2
      <4>2. pos + e \in 0 .. n /\ n - (pos + e) \in Nat
        BY <2>2
      <4>3. tail \in Word(Chars, n - (pos + e))
        BY <4>2, BackIs
      <4> HIDE DEF front, own, tail
      <4> QED BY <2>3, <4>1, <4>2, <4>3, WordIsSeq
    <3>3. own \o tail = SubSeq(text, e + 1, n)
      <4>1. /\ e + 1 \in 1 .. n + 1 /\ n \in e .. n
            /\ pos + e \in 0 .. n /\ n - (pos + e) \in Nat /\ pos + (n - (pos + e)) = n - e
        BY <2>2
      <4>2. tail = Slice(text, pos + e, n) /\ tail \in Word(Chars, n - (pos + e))
        BY <4>1, BackIs
      <4>3. SubSeq(text, e + 1, n) = Slice(text, e, n)
        BY <2>2, <4>1, SubSeqIs
      <4>4. Join(Slice(text, e, e + pos), pos, Slice(text, pos + e, n), n - (pos + e))
            = Slice(text, e, n)
        <5>1. ASSUME NEW i \in 1 .. n - e
              PROVE  (IF i <= pos THEN Slice(text, e, e + pos)[i]
                      ELSE Slice(text, pos + e, n)[i - pos]) = text[i + e]
          BY <2>2, <4>1 DEF Slice
        <5> QED BY <4>1, <5>1 DEF Join, Slice
      <4> HIDE DEF own, tail
      <4>5. own \o tail = Join(own, pos, tail, n - (pos + e))
        BY <2>3, <4>1, <4>2, ConcatIs, Zenon
      <4> QED BY <2>3, <4>2, <4>3, <4>4, <4>5
    <3>4. want = (front \o own) \o tail
      BY <1>1, Zenon DEF Spliced
    <3> HIDE DEF front, own, tail
    <3>5. (front \o own) \o tail = front \o (own \o tail)
      BY <3>2, ConcatAssociative
    <3>6. want = front \o SubSeq(text, e + 1, n)
      BY <3>3, <3>4, <3>5
    <3> QED BY <3>6 DEF front
  <2>6. erase_part(text, pos, k) = erase(text, pos, e)
    BY <1>1, <2>2, Zenon DEF erase_part, e
  <2> HIDE DEF want, own
  <2>7. CASE pos = e
    <3>1. rest = Cut(text, n, pos, pos)
      <4>1. pos \in 0 .. n /\ pos \in pos .. n
        BY <2>2
      <4>2. SubSeq(text, 1, pos) \o SubSeq(text, pos + 1, n) = Cut(text, n, pos, pos)
        BY <4>1, CutParts
      <4> QED BY <2>7, <4>2
    <3>2. Cut(text, n, pos, pos) = text
      BY <2>2, CutNothing
    <3>3. erase(text, pos, e) = Returned(text)
      BY <2>7 DEF erase
    <3> HIDE DEF rest
    <3>4. erase(text, pos, e) = Returned(want)
      BY <2>5, <3>1, <3>2, <3>3
    <3>5. Len(want) <= SIZE
      BY <2>4, <2>7, SizeAssumption
    <3> QED BY <2>6, <3>4, <3>5, ReturnedAgrees, Zenon DEF want, own, e
  <2>8. CASE pos # e
    <3>1. erase(text, pos, e) = IF Len(want) > SIZE THEN Overrun(text) ELSE Returned(want)
      BY <1>1, <2>5, <2>8, Zenon DEF erase
    <3>2. Len(want) \in Int /\ SIZE \in Int
      BY <2>2, <2>4, SizeAssumption
    <3>3. Agrees(erase(text, pos, e), want, text)
      BY <3>1, <3>2, ReturnedAgrees
    <3> QED BY <2>6, <3>3, Zenon DEF want, own, e
  <2> QED BY <2>7, <2>8
<1> QED BY <1>2, <1>3

\* The characters of the text itself that are inserted into it are those it had, when
\* they all stand before the place or are as many as those behind it.
LEMMA OwnAgrees ==
    ASSUME NEW n \in 0 .. SIZE, text \in Word(Chars, n), NEW pos \in 0 .. n,
           NEW first \in 0 .. n, NEW last \in first .. n,
           last <= pos \/ last - first >= n - pos
    PROVE  Agrees(insertOwn(text, pos, first, last),
                  Spliced(pos, pos, SubSeq(text, first + 1, last)), text)
<1> n \in Nat /\ last - first \in Nat
  BY SizeAssumption
<1>1. SubSeq(text, first + 1, last) = Slice(text, first, last)
      /\ Slice(text, first, last) \in Word(Chars, last - first)
  BY SubSeqIs, SliceType
<1>2. SubSeq(Moved(text, pos, last - first), first + 1, last) = Own(text, pos, first, last)
  BY OwnIs
<1>3. Own(text, pos, first, last) = Slice(text, first, last)
  <2>1. ASSUME NEW i \in 1 .. last - first
        PROVE  (IF i + first > pos + (last - first) THEN text[i + first - (last - first)]
                ELSE text[i + first])
               = text[i + first]
    OBVIOUS
  <2> QED BY <2>1 DEF Own, Slice
<1>4. insertOwn(text, pos, first, last) = insert(text, pos, Slice(text, first, last))
  BY <1>2, <1>3, Zenon DEF insertOwn
<1>5. Agrees(insert(text, pos, Slice(text, first, last)),
             Spliced(pos, pos, Slice(text, first, last)), text)
  BY <1>1, InsertAgrees
<1> QED BY <1>1, <1>4, <1>5

\* The text that remains when the copies find no place.
FillLeft(pos, k, c) ==
    IF Len(text) + k = SIZE \/ k > SIZE
    THEN Spliced(pos, pos, Repeat(c, SIZE - 1 - Len(text))) ELSE text

\* More copies than the buffer holds make max_size() - n wrap to more than the text has.
LEMMA GuardWraps ==
    ASSUME NEW k \in Nat, k < W, k > SIZE
    PROVE  (SIZE - k) % W > SIZE
<1> SIZE \in Nat /\ W \in Nat /\ W > 0
  BY SizeAssumption, WidthAssumption
<1> DEFINE x == SIZE - k + W
<1>1. x \in Nat /\ x > SIZE /\ x < W /\ SIZE - k = x - W
  OBVIOUS
<1> HIDE DEF x
<1>2. (x - W) % W = x
  BY <1>1
<1> QED BY <1>1, <1>2

\* insert of copies agrees with basic_string.
LEMMA InsertFillAgrees ==
    ASSUME NEW n \in 0 .. SIZE, text \in Word(Chars, n), NEW pos \in 0 .. n,
           NEW k \in Nat, k < W, NEW c \in Chars
    PROVE  Agrees(insert_fill(text, pos, k, c), Spliced(pos, pos, Repeat(c, k)),
                  FillLeft(pos, k, c))
<1> n \in Nat /\ k \in Nat /\ SIZE \in Nat /\ Room(n, pos) \in Nat
  BY SizeAssumption DEF Room
<1> DEFINE want == Spliced(pos, pos, Repeat(c, k))
           left == FillLeft(pos, k, c)
           full == Put(text, n, pos, Repeat(c, Room(n, pos)), Room(n, pos))
<1>1. Len(text) = n
  BY WordIsSeq
<1>2. pos \in pos .. n /\ \A i \in Nat : n - (pos - pos) + i = n + i
  OBVIOUS
<1>3. ASSUME NEW i \in Nat
      PROVE  /\ Spliced(pos, pos, Repeat(c, i)) = Put(text, n, pos, Repeat(c, i), i)
             /\ Len(Spliced(pos, pos, Repeat(c, i))) = n + i
  <2>1. Repeat(c, i) \in Word(Chars, i)
    BY RepeatType
  <2>2. /\ Spliced(pos, pos, Repeat(c, i)) = Respelt(text, n, pos, pos, Repeat(c, i), i)
        /\ Len(Spliced(pos, pos, Repeat(c, i))) = n - (pos - pos) + i
    BY <1>2, <2>1, SplicedIs
  <2>3. Respelt(text, n, pos, pos, Repeat(c, i), i) = Put(text, n, pos, Repeat(c, i), i)
    BY RespeltNone
  <2> QED BY <1>2, <2>2, <2>3
<1>4. want = Put(text, n, pos, Repeat(c, k), k) /\ Len(want) = n + k
  BY <1>3
<1>5. Filled(text, pos, k, c) = AfterCopies(text, n, pos, c, k)
  BY FilledIs
<1>6. k <= Room(n, pos) => n + k <= SIZE
  BY DEF Room
<1>7. ASSUME pos # n, k > Room(n, pos), n + k = SIZE \/ k > SIZE PROVE left = full
  <2>1. left = Spliced(pos, pos, Repeat(c, SIZE - 1 - n))
    BY <1>1, <1>7, Zenon DEF FillLeft
  <2>2. Repeat(c, SIZE - 1 - n) = Repeat(c, Room(n, pos))
    BY <1>7 DEF Repeat, Room
  <2>3. Spliced(pos, pos, Repeat(c, Room(n, pos))) = full
    BY <1>3
  <2> HIDE DEF full, left
  <2> QED BY <2>1, <2>2, <2>3
<1>8. n + k # SIZE /\ ~ (k > SIZE) => left = text
  BY <1>1, Zenon DEF FillLeft
<1> HIDE DEF want, left, full
<1>9. CASE n > (SIZE - k) % W
  <2>1. ~ (k > SIZE)
    <3>1. k > SIZE => (SIZE - k) % W > SIZE
      BY GuardWraps
    <3> QED BY <1>9, <3>1, WidthAssumption
  <2>2. (SIZE - k) % W = SIZE - k
    BY <2>1, WidthAssumption
  <2>3. insert_fill(text, pos, k, c) = Threw(text)
    BY <1>1, <1>9, Zenon DEF insert_fill
  <2>4. n + k > SIZE
    BY <1>9, <2>2
  <2>5. Len(want) >= SIZE
    BY <1>4, <2>4
  <2>6. left = text
    BY <1>8, <2>1, <2>4
  <2> QED BY <2>3, <2>5, <2>6, ReturnedAgrees DEF want, left
<1>10. CASE ~ (n > (SIZE - k) % W)
  <2>1. insert_fill(text, pos, k, c) = AfterCopies(text, n, pos, c, k)
    <3>1. ~ (pos > n)
      OBVIOUS
    <3> QED BY <1>1, <1>5, <1>10, <3>1, Zenon DEF insert_fill
  <2>2. n + k <= SIZE \/ k > SIZE
    <3>1. CASE k <= SIZE
      <4>1. (SIZE - k) % W = SIZE - k
        BY <3>1, WidthAssumption
      <4> QED BY <1>10, <4>1
    <3> QED BY <3>1
  <2>3. CASE k <= Room(n, pos)
    <3>1. insert_fill(text, pos, k, c) = Returned(want)
      BY <1>4, <2>1, <2>3, Zenon DEF AfterCopies
    <3>2. Len(want) <= SIZE
      BY <1>4, <1>6, <2>3
    <3> QED BY <3>1, <3>2, ReturnedAgrees DEF want
  <2>4. CASE k > Room(n, pos) /\ pos = n
    <3>1. insert_fill(text, pos, k, c) = Overrun(full)
      BY <2>1, <2>4 DEF AfterCopies, full
    <3>2. n + k > SIZE
      BY <2>4 DEF Room
    <3>3. Len(want) > SIZE
      BY <1>4, <3>2
    <3> QED BY <3>1, <3>3, ReturnedAgrees DEF want
  <2>5. CASE k > Room(n, pos) /\ pos # n
    <3>1. insert_fill(text, pos, k, c) = Threw(full)
      BY <2>1, <2>5 DEF AfterCopies, full
    <3>2. n + k >= SIZE
      BY <2>5 DEF Room
    <3>3. Len(want) >= SIZE
      BY <1>4, <3>2
    <3>4. left = full
      BY <1>7, <2>2, <2>5, <3>2
    <3> QED BY <3>1, <3>3, <3>4, ReturnedAgrees DEF want, left
  <2> QED BY <2>3, <2>4, <2>5
<1> QED BY <1>9, <1>10

\* What is spliced in at the end follows the text.
LEMMA SplicedAtEnd ==
    ASSUME NEW n \in 0 .. SIZE, text \in Word(Chars, n), NEW m \in Nat, NEW chars \in Word(Chars, m)
    PROVE  /\ Spliced(n, n, chars) = text \o chars
           /\ text \o chars = Put(text, n, n, chars, m)
           /\ Len(text \o chars) = n + m
<1> n \in Nat
  BY SizeAssumption
<1>1. n \in 0 .. n /\ n \in n .. n /\ n - (n - n) + m = n + m
  OBVIOUS
<1>2. /\ Spliced(n, n, chars) = Respelt(text, n, n, n, chars, m)
      /\ Len(Spliced(n, n, chars)) = n - (n - n) + m
  BY <1>1, SplicedIs
<1>3. Respelt(text, n, n, n, chars, m) = Put(text, n, n, chars, m)
  BY <1>1, RespeltNone
<1>4. Put(text, n, n, chars, m) = Join(text, n, chars, m)
  <2>1. ASSUME NEW i \in 1 .. n + m
        PROVE  (IF i <= n THEN text[i] ELSE IF i <= n + m THEN chars[i - n] ELSE text[i - m])
               = IF i <= n THEN text[i] ELSE chars[i - n]
    OBVIOUS
  <2> QED BY <2>1 DEF Put, Join
<1>5. text \o chars = Join(text, n, chars, m)
  BY ConcatIs
<1> QED BY <1>1, <1>2, <1>3, <1>4, <1>5

\* append and push_back agree with basic_string.
LEMMA AppendAgrees ==
    ASSUME NEW n \in 0 .. SIZE, text \in Word(Chars, n), NEW m \in Nat, NEW chars \in Word(Chars, m)
    PROVE  Agrees(append(text, chars), text \o chars, text)
<1>1. Len(text) = n /\ n \in 0 .. n
  BY WordIsSeq, SizeAssumption
<1>2. Agrees(insert(text, n, chars), Spliced(n, n, chars), text)
  BY <1>1, InsertAgrees
<1>3. Spliced(n, n, chars) = text \o chars
  BY SplicedAtEnd
<1> QED BY <1>1, <1>2, <1>3, Zenon DEF append

\* append of copies agrees with basic_string: it throws before the first of them.
LEMMA AppendFillAgrees ==
    ASSUME NEW n \in 0 .. SIZE, text \in Word(Chars, n), NEW k \in Nat, k < W, NEW c \in Chars
    PROVE  Agrees(append_fill(text, k, c), text \o Repeat(c, k), text)
<1> n \in Nat /\ SIZE \in Nat
  BY SizeAssumption
<1> DEFINE want == text \o Repeat(c, k)
<1>1. Len(text) = n /\ n \in 0 .. n /\ ~ (n > n)
  BY WordIsSeq
<1>2. Repeat(c, k) \in Word(Chars, k)
  BY RepeatType
<1>3. want = Put(text, n, n, Repeat(c, k), k) /\ Len(want) = n + k
  BY <1>2, SplicedAtEnd
<1>4. Filled(text, n, k, c) = AfterCopies(text, n, n, c, k)
  BY <1>1, FilledIs
<1>5. append_fill(text, k, c) = insert_fill(text, n, k, c)
  BY <1>1, Zenon DEF append_fill
<1> HIDE DEF want
<1>6. CASE n > (SIZE - k) % W
  <2>1. insert_fill(text, n, k, c) = Threw(text)
    BY <1>1, <1>6, Zenon DEF insert_fill
  <2>2. n + k >= SIZE
    <3>1. CASE k > SIZE
      BY <3>1
    <3>2. CASE ~ (k > SIZE)
      <4>1. (SIZE - k) % W = SIZE - k
        BY <3>2, WidthAssumption
      <4> QED BY <1>6, <4>1
    <3> QED BY <3>1, <3>2
  <2>3. Agrees(append_fill(text, k, c), want, text)
    BY <1>3, <1>5, <2>1, <2>2, ReturnedAgrees
  <2> QED BY <2>3 DEF want
<1>7. CASE ~ (n > (SIZE - k) % W)
  <2>1. insert_fill(text, n, k, c) = AfterCopies(text, n, n, c, k)
    BY <1>1, <1>4, <1>7, Zenon DEF insert_fill
  <2>2. Room(n, n) = SIZE - n
    BY DEF Room
  <2>3. CASE k <= Room(n, n)
    <3>1. append_fill(text, k, c) = Returned(want)
      BY <1>3, <1>5, <2>1, <2>3, Zenon DEF AfterCopies
    <3>2. Len(want) <= SIZE
      BY <1>3, <2>2, <2>3
    <3> QED BY <3>1, <3>2, ReturnedAgrees DEF want
  <2>4. CASE ~ (k <= Room(n, n))
    <3>1. PICK full : append_fill(text, k, c) = Overrun(full)
      BY <1>5, <2>1, <2>4, Zenon DEF AfterCopies
    <3>2. Len(want) > SIZE
      BY <1>3, <2>2, <2>4
    <3>3. Agrees(append_fill(text, k, c), want, text)
      BY <3>1, <3>2, ReturnedAgrees
    <3> QED BY <3>3 DEF want
  <2> QED BY <2>3, <2>4
<1> QED BY <1>6, <1>7

\* resize agrees with basic_string.
LEMMA ResizeAgrees ==
    ASSUME NEW n \in 0 .. SIZE, text \in Word(Chars, n), NEW k \in Nat, k < W, NEW c \in Chars
    PROVE  Agrees(resize(text, k, c), [i \in 1 .. k |-> IF i <= Len(text) THEN text[i] ELSE c],
                  text)
<1> n \in Nat /\ SIZE \in Nat
  BY SizeAssumption
<1> DEFINE want == [i \in 1 .. k |-> IF i <= n THEN text[i] ELSE c]
<1>1. Len(text) = n
  BY WordIsSeq
<1>2. want \in Word(Chars, k)
  BY DEF Word
<1>3. Len(want) = k
  BY <1>2, WordIsSeq
<1>4. CASE k <= n
  <2>1. k \in 0 .. n /\ n \in k .. n
    BY <1>4
  <2>2. erase(text, k, n) = Returned(Cut(text, n, k, n))
    BY <2>1, EraseIs
  <2>3. Cut(text, n, k, n) = want
    <3>1. n - (n - k) = k
      OBVIOUS
    <3> QED BY <1>4, <3>1 DEF Cut
  <2> HIDE DEF want
  <2>4. resize(text, k, c) = Returned(want)
    BY <1>1, <1>4, <2>2, <2>3, Zenon DEF resize
  <2>5. Agrees(resize(text, k, c), want, text)
    BY <1>3, <1>4, <2>4, ReturnedAgrees
  <2> QED BY <1>1, <2>5 DEF want
<1>5. CASE k > n
  <2> DEFINE x == k - n
  <2>1. x \in Nat /\ x < W /\ n + x = k
    BY <1>5, WidthAssumption
  <2>2. want = text \o Repeat(c, x)
    <3> HIDE DEF x, want
    <3>1. Repeat(c, x) \in Word(Chars, x)
      BY <2>1, RepeatType
    <3>2. text \o Repeat(c, x) = Join(text, n, Repeat(c, x), x)
      BY <2>1, <3>1, ConcatIs
    <3>3. ASSUME NEW i \in 1 .. n + x
          PROVE  (IF i <= n THEN text[i] ELSE c) = IF i <= n THEN text[i] ELSE Repeat(c, x)[i - n]
      BY <2>1 DEF Repeat
    <3> QED BY <2>1, <3>2, <3>3 DEF Join, want
  <2>3. resize(text, k, c) = append_fill(text, x, c)
    <3>1. ~ (k <= n)
      BY <1>5
    <3> QED BY <1>1, <3>1, Zenon DEF resize
  <2> HIDE DEF want, x
  <2>4. Agrees(append_fill(text, x, c), text \o Repeat(c, x), text)
    BY <2>1, AppendFillAgrees
  <2>5. Agrees(resize(text, k, c), want, text)
    BY <2>2, <2>3, <2>4
  <2> QED BY <1>1, <2>5 DEF want
<1> QED BY <1>4, <1>5

\* What is constructed or assigned agrees with basic_string.
LEMMA ConstructAgrees ==
    ASSUME NEW m \in Nat, NEW chars \in Word(Chars, m)
    PROVE  /\ Agrees(range_initialize(<<>>, chars), chars, <<>>)
           /\ \A pos, k \in Nat :
                 /\ pos > m => xstring(chars, pos, k) = Threw(<<>>)
                 /\ pos <= m => Agrees(xstring(chars, pos, k), Part(chars, pos, k), <<>>)
           /\ \A k \in Nat, c \in Chars : Agrees(element_initialize(<<>>, k, c), Repeat(c, k), <<>>)
<1>1. ASSUME NEW j \in Nat, NEW t \in Word(Chars, j)
      PROVE  Agrees(range_initialize(<<>>, t), t, <<>>)
  <2>1. Len(t) = j
    BY WordIsSeq
  <2>2. range_initialize(<<>>, t) = IF j >= SIZE THEN Threw(<<>>) ELSE Returned(t)
    BY <2>1 DEF range_initialize
  <2>3. ~ (j >= SIZE) => j <= SIZE
    BY SizeAssumption
  <2> QED BY <2>1, <2>2, <2>3, ReturnedAgrees
<1>2. ASSUME NEW pos \in Nat, NEW k \in Nat
      PROVE  /\ pos > m => xstring(chars, pos, k) = Threw(<<>>)
             /\ pos <= m => Agrees(xstring(chars, pos, k), Part(chars, pos, k), <<>>)
  <2>1. Len(chars) = m
    BY WordIsSeq
  <2>2. pos > m => xstring(chars, pos, k) = Threw(<<>>)
    BY <2>1 DEF xstring
  <2>3. ASSUME pos <= m PROVE Agrees(xstring(chars, pos, k), Part(chars, pos, k), <<>>)
    <3>1. pos \in 0 .. m /\ ~ (pos > m)
      BY <2>3
    <3>2. PICK x \in 0 .. m - pos : Part(chars, pos, k) \in Word(Chars, x)
      BY <3>1, PartIs
    <3>3. x \in Nat
      BY <3>1
    <3>4. xstring(chars, pos, k) = range_initialize(<<>>, Part(chars, pos, k))
      BY <2>1, <3>1, Zenon DEF xstring
    <3>5. Agrees(range_initialize(<<>>, Part(chars, pos, k)), Part(chars, pos, k), <<>>)
      BY <1>1, <3>2, <3>3
    <3> QED BY <3>4, <3>5
  <2> QED BY <2>2, <2>3
<1>3. ASSUME NEW k \in Nat, NEW c \in Chars
      PROVE  Agrees(element_initialize(<<>>, k, c), Repeat(c, k), <<>>)
  <2>1. Repeat(c, k) \in Word(Chars, k)
    BY RepeatType
  <2>2. Len(Repeat(c, k)) = k
    BY <2>1, WordIsSeq
  <2>3. element_initialize(<<>>, k, c) = IF k > SIZE THEN Threw(<<>>) ELSE Returned(Repeat(c, k))
    BY DEF element_initialize
  <2>4. (k > SIZE => k >= SIZE) /\ (~ (k > SIZE) => k <= SIZE)
    BY SizeAssumption
  <2> QED BY <2>2, <2>3, <2>4, ReturnedAgrees
<1> QED BY <1>1, <1>2, <1>3

\* In a state of the right type, what the text and the arguments are.
LEMMA Here ==
    ASSUME StringTypeOK
    PROVE  /\ Len(text) \in 0 .. SIZE /\ text \in Word(Chars, Len(text))
           /\ Places = 0 .. Len(text) /\ Len(text) \in Nat
           /\ \A s \in Others : Len(s) \in Nat /\ s \in Word(Chars, Len(s)) /\ SIZE + Len(s) < W
           /\ \A s \in Strings : s \in Others /\ Len(s) \in 0 .. SIZE
           /\ \A k \in Counts : k \in Nat /\ k < W
BY TextIs, ArgumentsAre, SizeAssumption DEF Places

\* Either a position is outside a string or not.
LEMMA OrNot == \A m, k \in Nat : m > k \/ (m <= k /\ ~ (m > k))
OBVIOUS

\* In a state of the right type, each group of edits agrees with basic_string.
LEMMA ConstructionHere == StringTypeOK => ConstructionAgrees
<1> SUFFICES ASSUME StringTypeOK PROVE ConstructionAgrees
  OBVIOUS
<1>1. ASSUME NEW s \in Strings, NEW pos \in Counts, NEW k \in Counts
      PROVE  IF pos > Len(s) THEN xstring(s, pos, k) = Threw(<<>>)
             ELSE Agrees(xstring(s, pos, k), Part(s, pos, k), <<>>)
  <2>1. pos \in Nat /\ k \in Nat /\ Len(s) \in Nat /\ s \in Word(Chars, Len(s))
    BY Here
  <2>2. /\ pos > Len(s) => xstring(s, pos, k) = Threw(<<>>)
        /\ pos <= Len(s) => Agrees(xstring(s, pos, k), Part(s, pos, k), <<>>)
    BY <2>1, ConstructAgrees
  <2> QED BY <2>1, <2>2, OrNot
<1>2. ASSUME NEW k \in Counts, NEW c \in Chars
      PROVE  /\ Agrees(element_initialize(<<>>, k, c), Repeat(c, k), <<>>)
             /\ Agrees(assign_fill(k, c), Repeat(c, k), <<>>)
  <2>1. k \in Nat /\ <<>> \in Word(Chars, 0) /\ 0 \in Nat
    BY Here, FitsEmpty
  <2>2. Agrees(element_initialize(<<>>, k, c), Repeat(c, k), <<>>)
    BY <2>1, ConstructAgrees
  <2> QED BY <2>2, Zenon DEF assign_fill
<1>3. ASSUME NEW s \in Others PROVE Agrees(assign(s), s, <<>>)
  <2>1. Agrees(range_initialize(<<>>, s), s, <<>>)
    BY Here, ConstructAgrees
  <2> QED BY <2>1, Zenon DEF assign
<1> QED BY <1>1, <1>2, <1>3, Zenon DEF ConstructionAgrees

\* What appending does.
LEMMA AppendingHere == StringTypeOK => AppendingAgrees
<1> SUFFICES ASSUME StringTypeOK PROVE AppendingAgrees
  OBVIOUS
<1> DEFINE n == Len(text)
<1>1. n \in 0 .. SIZE /\ text \in Word(Chars, n)
  BY Here
<1> HIDE DEF n
<1>2. ASSUME NEW s \in Others PROVE Agrees(append(text, s), text \o s, text)
  BY <1>1, Here, AppendAgrees
<1>3. ASSUME NEW s \in Strings, NEW pos \in Counts, NEW k \in Counts
      PROVE  IF pos > Len(s) THEN append_part(text, s, pos, k) = Threw(text)
             ELSE Agrees(append_part(text, s, pos, k), text \o Part(s, pos, k), text)
  <2>1. pos \in Nat /\ k \in Nat /\ Len(s) \in Nat /\ s \in Word(Chars, Len(s))
    BY Here
  <2>2. CASE pos > Len(s)
    BY <2>2, Zenon DEF append_part
  <2>3. CASE ~ (pos > Len(s))
    <3>1. pos \in 0 .. Len(s)
      BY <2>1, <2>3
    <3>2. PICK x \in 0 .. Len(s) - pos : Part(s, pos, k) \in Word(Chars, x)
      BY <2>1, <3>1, PartIs
    <3>3. x \in Nat
      BY <2>1, <3>1
    <3>4. Agrees(append(text, Part(s, pos, k)), text \o Part(s, pos, k), text)
      BY <1>1, <3>2, <3>3, AppendAgrees
    <3> QED BY <2>3, <3>4, Zenon DEF append_part
  <2> QED BY <2>2, <2>3
<1>4. ASSUME NEW c \in Chars PROVE Agrees(push_back(text, c), Append(text, c), text)
  <2>1. <<c>> \in Word(Chars, 1) /\ 1 \in Nat
    BY DEF Word
  <2>2. Agrees(append(text, <<c>>), text \o <<c>>, text)
    BY <1>1, <2>1, AppendAgrees
  <2>3. push_back(text, c) = append(text, <<c>>)
    BY Zenon DEF push_back, append
  <2>4. Append(text, c) = text \o <<c>>
    <3>1. text \in Seq(Chars)
      BY DEF StringTypeOK
    <3> QED BY <3>1, AppendIsConcat
  <2> QED BY <2>2, <2>3, <2>4
<1>5. ASSUME NEW c \in Chars, NEW k \in Counts
      PROVE  /\ Agrees(append_fill(text, k, c), text \o Repeat(c, k), text)
             /\ Agrees(resize(text, k, c),
                       [i \in 1 .. k |-> IF i <= Len(text) THEN text[i] ELSE c], text)
  <2>1. k \in Nat /\ k < W
    BY Here
  <2> QED BY <1>1, <2>1, AppendFillAgrees, ResizeAgrees
<1> QED BY <1>2, <1>3, <1>4, <1>5, Zenon DEF AppendingAgrees

\* What inserting does.
LEMMA InsertionHere == StringTypeOK => InsertionAgrees
<1> SUFFICES ASSUME StringTypeOK PROVE InsertionAgrees
  OBVIOUS
<1> DEFINE n == Len(text)
<1>1. n \in 0 .. SIZE /\ text \in Word(Chars, n) /\ Places = 0 .. n /\ n \in Nat
  BY Here
<1> HIDE DEF n
<1>2. OwnTextAgrees
  <2> SUFFICES ASSUME NEW pos \in Places, NEW first \in Places, NEW last \in Places,
                      first <= last, last <= pos \/ last - first >= n - pos
               PROVE  Agrees(insertOwn(text, pos, first, last),
                             Spliced(pos, pos, SubSeq(text, first + 1, last)), text)
    BY Zenon DEF OwnTextAgrees, n
  <2>1. last \in first .. n
    BY <1>1
  <2> QED BY <1>1, <2>1, OwnAgrees
<1>3. ASSUME NEW s \in Others, NEW pos \in Counts
      PROVE  IF pos > n THEN insert_string(text, pos, s) = Threw(text)
             ELSE Agrees(insert_string(text, pos, s), Spliced(pos, pos, s), text)
  <2>1. pos \in Nat /\ Len(s) \in Nat /\ s \in Word(Chars, Len(s)) /\ SIZE + Len(s) < W
    BY Here
  <2>2. /\ pos > n => insert_string(text, pos, s) = Threw(text)
        /\ pos <= n => Agrees(insert_string(text, pos, s), Spliced(pos, pos, s), text)
    BY <1>1, <2>1, InsertStringAgrees
  <2> QED BY <1>1, <2>1, <2>2, OrNot
<1>4. ASSUME NEW s \in Strings, NEW pos \in Counts, NEW beg \in Counts, NEW k \in Counts
      PROVE  IF pos > n \/ beg > Len(s) THEN insert_part(text, pos, s, beg, k) = Threw(text)
             ELSE Agrees(insert_part(text, pos, s, beg, k), Spliced(pos, pos, Part(s, beg, k)), text)
  <2>1. pos \in Nat /\ beg \in Nat /\ k \in Nat /\ Len(s) \in Nat /\ s \in Word(Chars, Len(s))
    BY Here
  <2>2. /\ pos > n \/ beg > Len(s) => insert_part(text, pos, s, beg, k) = Threw(text)
        /\ pos <= n /\ beg <= Len(s) =>
              Agrees(insert_part(text, pos, s, beg, k), Spliced(pos, pos, Part(s, beg, k)), text)
    BY <1>1, <2>1, InsertPartAgrees
  <2> QED BY <1>1, <2>1, <2>2, OrNot
<1>5. ASSUME NEW pos \in Counts, NEW k \in Counts, NEW c \in Chars
      PROVE  IF pos > n THEN insert_fill(text, pos, k, c) = Threw(text)
             ELSE Agrees(insert_fill(text, pos, k, c), Spliced(pos, pos, Repeat(c, k)),
                         FillLeft(pos, k, c))
  <2>1. pos \in Nat /\ k \in Nat /\ k < W
    BY Here
  <2>2. CASE pos > n
    <3>1. insert_fill(text, pos, k, c) = Threw(text)
      BY <2>2, Zenon DEF insert_fill, n
    <3> QED BY <2>2, <3>1
  <2>3. CASE ~ (pos > n)
    <3>1. pos \in 0 .. n
      BY <1>1, <2>1, <2>3
    <3>2. Agrees(insert_fill(text, pos, k, c), Spliced(pos, pos, Repeat(c, k)), FillLeft(pos, k, c))
      BY <1>1, <2>1, <3>1, InsertFillAgrees
    <3> QED BY <2>3, <3>2
  <2> QED BY <2>2, <2>3
<1> QED BY <1>2, <1>3, <1>4, <1>5, Zenon DEF InsertionAgrees, FillLeft, n

\* What erasing does.
LEMMA ErasureHere == StringTypeOK => ErasureAgrees
<1> SUFFICES ASSUME StringTypeOK PROVE ErasureAgrees
  OBVIOUS
<1> DEFINE n == Len(text)
<1>1. n \in 0 .. SIZE /\ text \in Word(Chars, n) /\ Places = 0 .. n /\ n \in Nat
  BY Here
<1> HIDE DEF n
<1>2. ASSUME NEW first \in Places, NEW last \in Places, first <= last
      PROVE  Agrees(erase(text, first, last), Spliced(first, last, <<>>), text)
  <2>1. first \in 0 .. n /\ last \in first .. n
    BY <1>1, <1>2
  <2> QED BY <1>1, <2>1, EraseAgrees
<1>3. ASSUME text # <<>> PROVE Agrees(pop_back(text), Front(text), text)
  <2>1. n - 1 \in 0 .. n /\ n \in n - 1 .. n /\ Len(text) = n /\ n - (n - (n - 1)) = n - 1
        /\ n - 1 \in Nat
    BY <1>1, <1>3, WordIsSeq
  <2>2. erase(text, n - 1, n) = Returned(Cut(text, n, n - 1, n))
    BY <1>1, <2>1, EraseIs
  <2>3. SubSeq(text, 1, n - 1) = Slice(text, 0, n - 1) /\ Slice(text, 0, n - 1) \in Word(Chars, n - 1)
    BY <1>1, <2>1, FrontIs
  <2>4. Slice(text, 0, n - 1) = Cut(text, n, n - 1, n)
    <3>1. (n - 1) - 0 = n - 1 /\ \A i \in 1 .. n - 1 : i <= n - 1 /\ i + 0 = i
      BY <2>1
    <3> QED BY <2>1, <3>1 DEF Slice, Cut
  <2>5. pop_back(text) = Returned(Front(text))
    BY <2>1, <2>2, <2>3, <2>4, Zenon DEF pop_back, Front
  <2>6. Len(Front(text)) <= SIZE
    <3>1. Len(Slice(text, 0, n - 1)) = n - 1
      BY <2>1, <2>3, WordIsSeq
    <3>2. Front(text) = Slice(text, 0, n - 1)
      BY <2>1, <2>3, Zenon DEF Front
    <3> QED BY <1>1, <3>1, <3>2, SizeAssumption
  <2> QED BY <2>5, <2>6, ReturnedAgrees
<1>4. ASSUME NEW pos \in Counts, NEW k \in Counts
      PROVE  LET e == AtMost(k, n - pos)
             IN  IF pos > n THEN erase_part(text, pos, k) = Threw(text)
                 ELSE Agrees(erase_part(text, pos, k),
                             Spliced(pos, pos + e, SubSeq(text, e + 1, e + pos)), text)
  <2> DEFINE e == AtMost(k, n - pos)
  <2>1. pos \in Nat /\ k \in Nat
    BY Here
  <2>2. /\ pos > n => erase_part(text, pos, k) = Threw(text)
        /\ pos <= n => Agrees(erase_part(text, pos, k),
                              Spliced(pos, pos + e, SubSeq(text, e + 1, e + pos)), text)
    BY <1>1, <2>1, ErasePartAgrees
  <2> HIDE DEF e
  <2>3. IF pos > n THEN erase_part(text, pos, k) = Threw(text)
        ELSE Agrees(erase_part(text, pos, k), Spliced(pos, pos + e, SubSeq(text, e + 1, e + pos)), text)
    BY <1>1, <2>1, <2>2, OrNot
  <2> QED BY <2>3 DEF e
<1> QED BY <1>2, <1>3, <1>4, Zenon DEF ErasureAgrees, n

\* What replacing does.
LEMMA ReplacementHere == StringTypeOK => ReplacementAgrees
<1> SUFFICES ASSUME StringTypeOK PROVE ReplacementAgrees
  OBVIOUS
<1> DEFINE n == Len(text)
<1>1. n \in 0 .. SIZE /\ text \in Word(Chars, n) /\ Places = 0 .. n /\ n \in Nat
  BY Here
<1> HIDE DEF n
<1>2. ASSUME NEW s \in Others, NEW pos \in Counts, NEW k \in Counts
      PROVE  IF pos > n THEN replace(text, pos, k, s) = Threw(text)
             ELSE Agrees(replace(text, pos, k, s), Spliced(pos, pos + AtMost(k, n - pos), s), text)
  <2>1. pos \in Nat /\ k \in Nat /\ Len(s) \in Nat /\ s \in Word(Chars, Len(s))
    BY Here
  <2>2. /\ pos > n => replace(text, pos, k, s) = Threw(text)
        /\ pos <= n => Agrees(replace(text, pos, k, s),
                              Spliced(pos, pos + AtMost(k, n - pos), s), text)
    BY <1>1, <2>1, ReplaceAgrees
  <2> QED BY <1>1, <2>1, <2>2, OrNot
<1>3. ASSUME NEW s \in Strings, NEW pos1 \in Counts, NEW n1 \in Counts, NEW pos2 \in Counts,
             NEW n2 \in Counts
      PROVE  IF pos1 > n \/ pos2 > Len(s)
             THEN replace_part(text, pos1, n1, s, pos2, n2) = Threw(text)
             ELSE Agrees(replace_part(text, pos1, n1, s, pos2, n2),
                         Spliced(pos1, pos1 + AtMost(n1, n - pos1), Part(s, pos2, n2)), text)
  <2>1. /\ pos1 \in Nat /\ n1 \in Nat /\ pos2 \in Nat /\ n2 \in Nat
        /\ Len(s) \in Nat /\ s \in Word(Chars, Len(s))
    BY Here
  <2>2. CASE pos2 > Len(s)
    <3>1. replace_part(text, pos1, n1, s, pos2, n2) = Threw(text)
      BY <2>2, Zenon DEF replace_part
    <3> QED BY <2>2, <3>1
  <2>3. CASE ~ (pos2 > Len(s))
    <3>1. replace_part(text, pos1, n1, s, pos2, n2) = replace(text, pos1, n1, Part(s, pos2, n2))
      BY <2>3, Zenon DEF replace_part
    <3>2. pos2 \in 0 .. Len(s)
      BY <2>1, <2>3
    <3>3. PICK x \in 0 .. Len(s) - pos2 : Part(s, pos2, n2) \in Word(Chars, x)
      BY <2>1, <3>2, PartIs
    <3>4. x \in Nat
      BY <2>1, <3>2
    <3> DEFINE part == Part(s, pos2, n2)
    <3>5. part \in Word(Chars, x)
      BY <3>3
    <3> HIDE DEF part
    <3>6. /\ pos1 > n => replace(text, pos1, n1, part) = Threw(text)
          /\ pos1 <= n => Agrees(replace(text, pos1, n1, part),
                                 Spliced(pos1, pos1 + AtMost(n1, n - pos1), part), text)
      BY <1>1, <2>1, <3>4, <3>5, ReplaceAgrees
    <3>7. pos1 > n \/ (pos1 <= n /\ ~ (pos1 > n))
      BY <1>1, <2>1
    <3> QED BY <2>3, <3>1, <3>6, <3>7, Zenon DEF part
  <2> QED BY <2>2, <2>3
<1>4. ASSUME NEW s \in Others, NEW first \in Places, NEW last \in Places, first <= last
      PROVE  /\ Agrees(replace_range(text, first, last, s), Spliced(first, last, s),
                       Overwritten(text, first, SubSeq(s, 1, last - first)))
             /\ replace_input(text, first, last, s) = replace_range(text, first, last, s)
  <2>1. first \in 0 .. n /\ last \in first .. n /\ Len(s) \in Nat /\ s \in Word(Chars, Len(s))
    BY <1>1, <1>4, Here
  <2>2. Agrees(replace_range(text, first, last, s), Spliced(first, last, s),
               Overwritten(text, first, SubSeq(s, 1, last - first)))
    BY <1>1, <2>1, ReplaceRangeAgrees
  <2>3. replace_input(text, first, last, s) = replace_range(text, first, last, s)
    BY <1>1, <2>1, ReplaceRangeIs, ReplaceInputIs
  <2> QED BY <2>2, <2>3
<1> QED BY <1>2, <1>3, <1>4, Zenon DEF ReplacementAgrees, n

\* What swapping does.
LEMMA SwapHere == StringTypeOK => SwapAgrees
<1> SUFFICES ASSUME StringTypeOK, NEW s \in Strings PROVE swap(text, s) = <<s, text>>
  BY DEF SwapAgrees
<1> QED BY Here, SwapIs

\* In a state of the right type, every edit agrees with basic_string as stated.
LEMMA EditsAgreeHere == StringTypeOK => EditsAgree
BY ConstructionHere, AppendingHere, InsertionHere, ErasureHere, ReplacementHere, SwapHere
   DEF EditsAgree

\* Each edit of a string of any characters, in a buffer of any size, leaves the text
\* that basic_string's would, or ends as EditsAgree says.
THEOREM EditsCorrect == StringSpec => []EditsAgree
BY TypeCorrect, EditsAgreeHere, PTL
-----------------------------------------------------------------------------------
(* Searching *)

\* The first of the places, or the end if there is none; the last of them, or -1.
LEMMA FirstFound ==
    ASSUME NEW at, NEW low, NEW end \in Int, From(at, low), \A x \in at : x < end
    PROVE  OrNpos(Min(at \cup {end}), end) = IF at = {} THEN npos ELSE Min(at)
<1> DEFINE all == at \cup {end}
           least == IF low <= end THEN low ELSE end
<1>1. /\ end \in all /\ at \subseteq all
      /\ \A x \in all : x \in at \/ x = end
  OBVIOUS
<1>2. From(all, least)
  BY DEF From
<1> HIDE DEF all, least
<1>3. Min(all) \in all /\ Min(all) \in Int /\ \A y \in all : Min(all) <= y
  BY <1>1, <1>2, MinIs
<1>4. CASE at = {}
  BY <1>1, <1>3, <1>4 DEF OrNpos, all
<1>5. CASE at # {}
  <2>1. Min(at) \in at /\ Min(at) \in Int /\ \A y \in at : Min(at) <= y
    BY <1>5, MinIs
  <2>2. Min(at) < end
    BY <2>1
  <2>3. Min(all) <= Min(at)
    BY <1>1, <1>3, <2>1
  <2>4. Min(all) # end
    BY <1>3, <2>1, <2>2, <2>3
  <2>5. Min(at) <= Min(all)
    BY <1>1, <1>3, <2>1, <2>4
  <2>6. Min(all) = Min(at)
    BY <1>3, <2>1, <2>3, <2>5
  <2> QED BY <1>5, <2>4, <2>6 DEF OrNpos, all
<1> QED BY <1>4, <1>5

\* The greatest place found, or npos where there is none.
LEMMA LatestFound ==
    ASSUME NEW at, NEW high, UpTo(at, high), \A x \in at : -1 < x
    PROVE  OrNpos(Max(at \cup {-1}), -1) = IF at = {} THEN npos ELSE Max(at)
<1> DEFINE all == at \cup {-1}
           greatest == IF high <= -1 THEN -1 ELSE high
<1>1. /\ -1 \in all /\ at \subseteq all
      /\ \A x \in all : x \in at \/ x = -1
  OBVIOUS
<1>2. UpTo(all, greatest)
  BY DEF UpTo
<1> HIDE DEF all, greatest
<1>3. Max(all) \in all /\ Max(all) \in Int /\ \A y \in all : y <= Max(all)
  BY <1>1, <1>2, MaxIs
<1>4. CASE at = {}
  BY <1>1, <1>3, <1>4 DEF OrNpos, all
<1>5. CASE at # {}
  <2>1. Max(at) \in at /\ Max(at) \in Int /\ \A y \in at : y <= Max(at)
    BY <1>5, MaxIs
  <2>2. -1 < Max(at)
    BY <2>1
  <2>3. Max(at) <= Max(all)
    BY <1>1, <1>3, <2>1
  <2>4. Max(all) # -1
    BY <1>3, <2>1, <2>2, <2>3
  <2>5. Max(all) <= Max(at)
    BY <1>1, <1>3, <2>1, <2>4
  <2>6. Max(all) = Max(at)
    BY <1>3, <2>1, <2>3, <2>5
  <2> QED BY <1>5, <2>4, <2>6 DEF OrNpos, all
<1> QED BY <1>4, <1>5

\* A match at a place compares character by character.
LEMMA MatchesAtIs ==
    ASSUME NEW S, NEW n \in Nat, NEW s \in Word(S, n), NEW m \in Nat, NEW chars \in Word(S, m),
           NEW i \in Nat, i + m <= n
    PROVE  MatchesAt(s, i, chars) <=> \A j \in 1 .. m : s[i + j] = chars[j]
<1>1. Len(s) = n /\ Len(chars) = m
  BY WordIsSeq
<1>2. i \in 0 .. n /\ i + m \in i .. n /\ (i + m) - i = m
  OBVIOUS
<1>3. SubSeq(s, i + 1, i + m) = Slice(s, i, i + m) /\ Slice(s, i, i + m) \in Word(S, m)
  <2>1. SubSeq(s, i + 1, i + m) = Slice(s, i, i + m)
    BY <1>2, SubSeqIs
  <2>2. Slice(s, i, i + m) \in Word(S, (i + m) - i)
    BY <1>2, SliceType
  <2> QED BY <1>2, <2>1, <2>2
<1>4. \A j \in 1 .. m : Slice(s, i, i + m)[j] = s[i + j]
  BY <1>2 DEF Slice
<1>5. (Slice(s, i, i + m) = chars) <=> \A j \in 1 .. m : s[i + j] = chars[j]
  <2>1. ASSUME \A j \in 1 .. m : s[i + j] = chars[j] PROVE Slice(s, i, i + m) = chars
    <3>1. \A j \in 1 .. m : Slice(s, i, i + m)[j] = chars[j]
      BY <1>4, <2>1
    <3> QED BY <1>3, <3>1, SameWord
  <2> QED BY <1>4, <2>1
<1> QED BY <1>1, <1>3, <1>5, Zenon DEF MatchesAt

\* A place near the end of what size_type counts wraps when a length is added.
LEMMA PlusWraps ==
    /\ npos \in Nat /\ npos > 2 * SIZE + 1 /\ npos = W - 1
    /\ \A p \in 0 .. npos, m \in 0 .. SIZE :
          /\ p \in Nat
          /\ p + m < W => (p + m) % W = p + m
          /\ p + m >= W => (p + m) % W = p + m - W
<1> SIZE \in Nat /\ W \in Nat /\ W > 0
  BY SizeAssumption, WidthAssumption
<1>1. npos \in Nat /\ npos > 2 * SIZE + 1 /\ npos = W - 1
  BY WidthAssumption DEF npos
<1>2. ASSUME NEW p \in 0 .. npos, NEW m \in 0 .. SIZE
      PROVE  /\ p \in Nat
             /\ p + m < W => (p + m) % W = p + m
             /\ p + m >= W => (p + m) % W = p + m - W
  <2>1. p \in Nat /\ m \in Nat /\ p + m < 2 * W
    BY <1>1
  <2>2. p + m < W => (p + m) % W = p + m
    BY <2>1
  <2>3. ASSUME p + m >= W PROVE (p + m) % W = p + m - W
    <3> DEFINE x == p + m - W
    <3>1. x \in Nat /\ x < W /\ p + m = x + W
      BY <2>1, <2>3
    <3> HIDE DEF x
    <3>2. (x + W) % W = x
      BY <3>1
    <3> QED BY <3>1, <3>2 DEF x
  <2> QED BY <2>1, <2>2, <2>3
<1> QED BY <1>1, <1>2

\* The places from first to last where a string stands, where a character is one of its
\* characters, and where it is none of them; and what a search makes of the places.
PlacesOf(s, first, last) == {i \in first .. last : MatchesAt(text, i, s)}
PlacesIn(s, first, last) == {i \in first .. last : text[i + 1] \in ToSet(s)}
PlacesOut(s, first, last) == {i \in first .. last : text[i + 1] \notin ToSet(s)}
FirstOr(at) == IF at = {} THEN npos ELSE Min(at)
LatestOr(at) == IF at = {} THEN npos ELSE Max(at)

\* What find returns, place by place.
LEMMA FindIs ==
    ASSUME NEW n \in 0 .. SIZE, text \in Word(Chars, n), NEW m \in 0 .. SIZE,
           NEW s \in Word(Chars, m), NEW pos \in 0 .. npos
    PROVE  find(text, s, pos) =
              IF pos + m \in W .. W + n THEN Outside
              ELSE IF m = 0 /\ pos = n THEN npos
              ELSE FirstOr(PlacesOf(s, pos, n - m))
<1> n \in Nat /\ m \in Nat /\ SIZE \in Nat /\ pos \in Nat
  BY SizeAssumption, PlusWraps
<1> DEFINE at == {i \in pos .. n - m : MatchesAt(text, i, s)}
<1>1. Len(text) = n /\ Len(s) = m
  BY WordIsSeq
<1>2. find(text, s, pos) = IF (pos + m) % W > n THEN npos
                           ELSE IF pos > n THEN Outside
                           ELSE OrNpos(Min(at \cup {n}), n)
  BY <1>1, Zenon DEF find, search, size
<1>3. FirstOr(PlacesOf(s, pos, n - m)) = IF at = {} THEN npos ELSE Min(at)
  BY Zenon DEF FirstOr, PlacesOf
<1>4. pos > n - m => at = {}
  OBVIOUS
<1>5. From(at, pos) /\ \A x \in at : x <= n - m
  BY DEF From
<1>6. m = 0 /\ pos < n => pos \in at
  <2> SUFFICES ASSUME m = 0, pos < n PROVE pos \in at
    OBVIOUS
  <2>1. MatchesAt(text, pos, s) <=> \A j \in 1 .. m : text[pos + j] = s[j]
    BY MatchesAtIs
  <2> QED BY <2>1
<1> HIDE DEF at
<1>7. CASE pos + m >= W
  <2>1. (pos + m) % W = pos + m - W /\ W \in Nat
    BY <1>7, PlusWraps, WidthAssumption
  <2>2. pos > n /\ pos > n - m /\ ~ (m = 0 /\ pos = n)
    BY <1>7, WidthAssumption
  <2>3. CASE pos + m - W > n
    <3>1. ~ (pos + m \in W .. W + n)
      BY <2>1, <2>3
    <3> QED BY <1>2, <1>3, <1>4, <2>1, <2>2, <2>3, <3>1, Zenon
  <2>4. CASE ~ (pos + m - W > n)
    <3>1. pos + m \in W .. W + n
      BY <1>7, <2>1, <2>4
    <3> QED BY <1>2, <2>1, <2>2, <2>4, <3>1, Zenon
  <2> QED BY <2>3, <2>4
<1>8. CASE ~ (pos + m >= W)
  <2>1. (pos + m) % W = pos + m /\ ~ (pos + m \in W .. W + n)
    <3>1. W \in Nat /\ pos + m < W
      BY <1>8, WidthAssumption
    <3>2. (pos + m) % W = pos + m
      BY <3>1, PlusWraps
    <3> QED BY <3>1, <3>2
  <2>2. CASE pos + m > n
    <3>1. pos > n - m /\ ~ (m = 0 /\ pos = n)
      BY <2>2
    <3> QED BY <1>2, <1>3, <1>4, <2>1, <2>2, <3>1, Zenon
  <2>3. CASE ~ (pos + m > n)
    <3>1. ~ (pos > n)
      BY <2>3
    <3>2. find(text, s, pos) = OrNpos(Min(at \cup {n}), n)
      BY <1>2, <2>1, <2>3, <3>1, Zenon
    <3>3. CASE m = 0
      <4>1. CASE pos = n
        <5>1. at \cup {n} = {n}
          <6>1. \A x \in at : x = n
            BY <1>5, <3>3, <4>1 DEF From
          <6> QED BY <6>1, Zenon
        <5>2. Min({n}) = n
          BY DEF Min
        <5> QED BY <2>1, <3>2, <3>3, <4>1, <5>1, <5>2 DEF OrNpos
      <4>2. CASE pos # n
        <5>1. pos \in at
          BY <1>6, <3>1, <3>3, <4>2
        <5>2. Min(at) \in Int /\ Min(at) <= pos
          BY <1>5, <5>1, MinIs
        <5>3. Min(at \cup {n}) = Min(at) /\ Min(at) # n
          <6> DEFINE all == at \cup {n}
          <6>1. From(all, pos) /\ pos \in all /\ at \subseteq all /\ \A x \in all : x \in at \/ x = n
            BY <1>5, <3>1, <5>1 DEF From
          <6> HIDE DEF all
          <6>2. Min(all) \in all /\ Min(all) \in Int /\ \A y \in all : Min(all) <= y
            BY <6>1, MinIs
          <6>3. Min(at) \in at /\ Min(at) \in Int /\ \A y \in at : Min(at) <= y
            BY <1>5, <5>1, MinIs
          <6>4. pos < n
            BY <3>1, <4>2
          <6>5. Min(all) <= pos /\ Min(at) <= pos
            BY <5>2, <6>1, <6>2
          <6>6. Min(all) \in at
            BY <6>1, <6>2, <6>4, <6>5
          <6>7. Min(all) = Min(at)
            BY <6>1, <6>2, <6>3, <6>6
          <6>8. Min(at) # n
            BY <6>3, <6>4, <6>5
          <6> QED BY <6>7, <6>8 DEF all
        <5> QED BY <1>3, <2>1, <3>2, <4>2, <5>1, <5>3 DEF OrNpos
      <4> QED BY <4>1, <4>2
    <3>4. CASE m # 0
      <4>1. \A x \in at : x < n
        BY <1>5, <3>4 DEF From
      <4>2. OrNpos(Min(at \cup {n}), n) = IF at = {} THEN npos ELSE Min(at)
        BY <1>5, <4>1, FirstFound
      <4> QED BY <1>3, <2>1, <3>2, <3>4, <4>2, Zenon
    <3> QED BY <3>3, <3>4
  <2> QED BY <2>2, <2>3
<1> QED BY <1>7, <1>8

\* What rfind returns, place by place.
LEMMA RFindIs ==
    ASSUME NEW n \in 0 .. SIZE, text \in Word(Chars, n), NEW m \in 0 .. SIZE,
           NEW s \in Word(Chars, m), NEW pos \in 0 .. npos
    PROVE  rfind(text, s, pos) = LatestOr(PlacesOf(s, 0, AtMost(pos, n - m)))
<1> n \in Nat /\ m \in Nat /\ SIZE \in Nat /\ pos \in Nat
  BY SizeAssumption, PlusWraps
<1> DEFINE last == AtMost(pos, n - m)
           at == {i \in 0 .. last : MatchesAt(text, i, s)}
<1>1. Len(text) = n /\ Len(s) = m
  BY WordIsSeq
<1>2. AtMost(pos, n - m) = (IF pos <= n - m THEN pos ELSE n - m)
      /\ AtMost(n - m, pos) = AtMost(pos, n - m)
  BY AtMostIs
<1>3. last \in Int /\ last <= n - m /\ last <= pos /\ AtMost(n - m, pos) = last
  BY <1>2
<1>4. (AtMost(n - m, pos) + m) - m = last
  BY <1>3
<1>5. LatestOr(PlacesOf(s, 0, AtMost(pos, n - m))) = IF at = {} THEN npos ELSE Max(at)
  BY Zenon DEF LatestOr, PlacesOf
<1>6. rfind(text, s, pos)
      = IF m > n THEN npos ELSE IF m = 0 THEN AtMost(n, pos)
        ELSE OrNpos(Max({i \in 0 .. (AtMost(n - m, pos) + m) - m : MatchesAt(text, i, s)} \cup {-1}), -1)
  <2>1. rfind(text, s, pos)
        = IF Len(s) > n THEN npos ELSE IF Len(s) = 0 THEN AtMost(n, pos)
          ELSE OrNpos(find_end(text, AtMost(n - m, pos) + m, s), -1)
    BY <1>1 DEF rfind, size
  <2>2. find_end(text, AtMost(n - m, pos) + m, s)
        = Max({i \in 0 .. (AtMost(n - m, pos) + m) - m : MatchesAt(text, i, s)} \cup {-1})
    BY <1>1, Zenon DEF find_end
  <2> QED BY <1>1, <2>1, <2>2
<1>7. m > n => at = {}
  BY <1>3
<1>8. UpTo(at, last) /\ \A x \in at : -1 < x
  BY <1>3 DEF UpTo
<1>9. m = 0 => last \in at /\ AtMost(n, pos) = last
  <2> SUFFICES ASSUME m = 0 PROVE last \in at /\ AtMost(n, pos) = last
    OBVIOUS
  <2>1. last \in Nat /\ last + m <= n
    BY <1>2, <1>3
  <2>2. MatchesAt(text, last, s) <=> \A j \in 1 .. m : text[last + j] = s[j]
    <3> HIDE DEF last
    <3> QED BY <2>1, MatchesAtIs
  <2>3. last \in at
    BY <2>1, <2>2
  <2>4. n - m = n
    OBVIOUS
  <2> QED BY <1>3, <2>3, <2>4
<1> HIDE DEF last, at
<1>10. CASE m > n
  BY <1>5, <1>6, <1>7, <1>10, Zenon
<1>11. CASE ~ (m > n) /\ m = 0
  <2>1. Max(at) \in at /\ Max(at) \in Int /\ \A y \in at : y <= Max(at)
    BY <1>8, <1>9, <1>11, MaxIs
  <2>2. Max(at) <= last /\ last <= Max(at)
    BY <1>8, <1>9, <1>11, <2>1 DEF UpTo
  <2>3. Max(at) = last
    BY <1>3, <2>1, <2>2
  <2> QED BY <1>5, <1>6, <1>9, <1>11, <2>3
<1>12. CASE ~ (m > n) /\ m # 0
  <2>1. OrNpos(Max(at \cup {-1}), -1) = IF at = {} THEN npos ELSE Max(at)
    BY <1>8, LatestFound
  <2>2. rfind(text, s, pos) = OrNpos(Max(at \cup {-1}), -1)
    BY <1>4, <1>6, <1>12, Zenon DEF at
  <2> QED BY <1>5, <2>1, <2>2
<1> QED BY <1>10, <1>11, <1>12

\* The places found by a search for one character, of whatever kind, from pos on or up
\* to pos.
Ahead(at, pos, n) == at \in SUBSET (pos .. n - 1)
Behind(at, pos, n) == at \in SUBSET (0 .. AtMost(pos, n - 1))

\* A search forward returns the least place, or npos from the end on.
LEMMA ForwardFound ==
    ASSUME NEW n \in Nat, NEW pos \in Nat, NEW at, Ahead(at, pos, n)
    PROVE  /\ pos >= n => at = {}
           /\ OrNpos(Min(at \cup {n}), n) = IF at = {} THEN npos ELSE Min(at)
<1>1. pos >= n => at = {}
  BY DEF Ahead
<1>2. From(at, pos) /\ \A x \in at : x < n
  BY DEF From, Ahead
<1> QED BY <1>1, <1>2, FirstFound

\* A search backward returns the greatest place, or npos in an empty text.
LEMMA BackwardFound ==
    ASSUME NEW n \in Nat, NEW pos \in Nat, NEW at, Behind(at, pos, n)
    PROVE  /\ n < 1 => at = {}
           /\ OrNpos(Max(at \cup {-1}), -1) = IF at = {} THEN npos ELSE Max(at)
<1> DEFINE last == AtMost(pos, n - 1)
<1>1. last \in Int /\ last <= n - 1
  BY AtMostIs
<1>2. at \in SUBSET (0 .. last)
  BY DEF Behind
<1> HIDE DEF last
<1>3. n < 1 => at = {}
  BY <1>1, <1>2
<1>4. UpTo(at, last) /\ \A x \in at : -1 < x
  BY <1>1, <1>2 DEF UpTo
<1> QED BY <1>3, <1>4, LatestFound

\* The place where a search backward begins.
LEMMA LastAtIs == ASSUME NEW n \in 0 .. SIZE, text \in Word(Chars, n), NEW pos \in Nat
                  PROVE  LastAt(text, pos) - 1 = AtMost(pos, n - 1)
<1>1. n \in Nat /\ Len(text) = n
  BY WordIsSeq, SizeAssumption
<1>2. AtMost(n - 1, pos) = AtMost(pos, n - 1) /\ AtMost(pos, n - 1) \in Int
  BY <1>1, AtMostIs
<1>3. (AtMost(pos, n - 1) + 1) - 1 = AtMost(pos, n - 1)
  BY <1>2
<1> QED BY <1>1, <1>2, <1>3, Zenon DEF LastAt, size

\* What find_first_of and find_first_not_of return, place by place.
LEMMA FirstOfIs ==
    ASSUME NEW n \in 0 .. SIZE, text \in Word(Chars, n), NEW s, NEW pos \in Nat
    PROVE  /\ find_first_of(text, s, pos) = FirstOr(PlacesIn(s, pos, n - 1))
           /\ find_first_not_of(text, s, pos) = FirstOr(PlacesOut(s, pos, n - 1))
<1>1. n \in Nat /\ Len(text) = n
  BY WordIsSeq, SizeAssumption
<1>2. find_first_of(text, s, pos) = FirstOr(PlacesIn(s, pos, n - 1))
  <2> DEFINE at == {i \in pos .. n - 1 : text[i + 1] \in ToSet(s)}
  <2>1. Ahead(at, pos, n)
    BY Zenon DEF Ahead
  <2>2. find_first_of(text, s, pos) = IF pos >= n THEN npos ELSE OrNpos(Min(at \cup {n}), n)
    BY <1>1, Zenon DEF find_first_of, find_if, size
  <2>3. FirstOr(PlacesIn(s, pos, n - 1)) = IF at = {} THEN npos ELSE Min(at)
    BY Zenon DEF FirstOr, PlacesIn
  <2> HIDE DEF at
  <2> QED BY <1>1, <2>1, <2>2, <2>3, ForwardFound
<1>3. find_first_not_of(text, s, pos) = FirstOr(PlacesOut(s, pos, n - 1))
  <2> DEFINE at == {i \in pos .. n - 1 : text[i + 1] \notin ToSet(s)}
  <2>1. Ahead(at, pos, n)
    BY Zenon DEF Ahead
  <2>2. find_first_not_of(text, s, pos) = IF pos > n THEN npos ELSE OrNpos(Min(at \cup {n}), n)
    BY <1>1, Zenon DEF find_first_not_of, find_if, size
  <2>3. FirstOr(PlacesOut(s, pos, n - 1)) = IF at = {} THEN npos ELSE Min(at)
    BY Zenon DEF FirstOr, PlacesOut
  <2> HIDE DEF at
  <2>4. pos > n => pos >= n
    BY <1>1
  <2> QED BY <1>1, <2>1, <2>2, <2>3, <2>4, ForwardFound
<1> QED BY <1>2, <1>3

\* What find_last_of and find_last_not_of return, place by place.
LEMMA LastOfIs ==
    ASSUME NEW n \in 0 .. SIZE, text \in Word(Chars, n), NEW s, NEW pos \in Nat
    PROVE  /\ find_last_of(text, s, pos) = LatestOr(PlacesIn(s, 0, AtMost(pos, n - 1)))
           /\ find_last_not_of(text, s, pos) = LatestOr(PlacesOut(s, 0, AtMost(pos, n - 1)))
<1>1. n \in Nat /\ Len(text) = n /\ LastAt(text, pos) - 1 = AtMost(pos, n - 1)
  BY WordIsSeq, SizeAssumption, LastAtIs
<1>2. find_last_of(text, s, pos) = LatestOr(PlacesIn(s, 0, AtMost(pos, n - 1)))
  <2> DEFINE at == {i \in 0 .. AtMost(pos, n - 1) : text[i + 1] \in ToSet(s)}
  <2>1. Behind(at, pos, n)
    BY Zenon DEF Behind
  <2>2. find_last_of(text, s, pos) = IF n < 1 THEN npos ELSE OrNpos(Max(at \cup {-1}), -1)
    BY <1>1, Zenon DEF find_last_of, rfind_if, size
  <2>3. LatestOr(PlacesIn(s, 0, AtMost(pos, n - 1))) = IF at = {} THEN npos ELSE Max(at)
    BY Zenon DEF LatestOr, PlacesIn
  <2> HIDE DEF at
  <2> QED BY <1>1, <2>1, <2>2, <2>3, BackwardFound
<1>3. find_last_not_of(text, s, pos) = LatestOr(PlacesOut(s, 0, AtMost(pos, n - 1)))
  <2> DEFINE at == {i \in 0 .. AtMost(pos, n - 1) : text[i + 1] \notin ToSet(s)}
  <2>1. Behind(at, pos, n)
    BY Zenon DEF Behind
  <2>2. find_last_not_of(text, s, pos) = IF n < 1 THEN npos ELSE OrNpos(Max(at \cup {-1}), -1)
    BY <1>1, Zenon DEF find_last_not_of, rfind_if, size
  <2>3. LatestOr(PlacesOut(s, 0, AtMost(pos, n - 1))) = IF at = {} THEN npos ELSE Max(at)
    BY Zenon DEF LatestOr, PlacesOut
  <2> HIDE DEF at
  <2> QED BY <1>1, <2>1, <2>2, <2>3, BackwardFound
<1> QED BY <1>2, <1>3

\* The searches for one character are those for a string of one.
LEMMA OneCharIs ==
    ASSUME NEW n \in 0 .. SIZE, text \in Word(Chars, n), NEW s \in Word(Chars, 1), NEW pos \in 0 .. npos
    PROVE  /\ find_char(text, s[1], pos) = find(text, s, AtMost(pos, SIZE))
           /\ rfind_char(text, s[1], pos) = rfind(text, s, pos)
           /\ find_first_not_of_char(text, s[1], pos) = find_first_not_of(text, s, pos)
           /\ find_last_not_of_char(text, s[1], pos) = find_last_not_of(text, s, pos)
<1> SIZE \in Nat /\ pos \in Nat
  BY SizeAssumption, PlusWraps
<1>1. n \in Nat /\ Len(text) = n /\ LastAt(text, pos) - 1 = AtMost(pos, n - 1)
  BY WordIsSeq, LastAtIs
<1>2. AtMost(pos, n - 1) = IF pos <= n - 1 THEN pos ELSE n - 1
  BY <1>1, AtMostIs
<1>3. ASSUME NEW i \in 0 .. n - 1 PROVE MatchesAt(text, i, s) <=> text[i + 1] = s[1]
  <2>1. i \in Nat /\ i + 1 <= n /\ 1 \in Nat
    BY <1>1
  <2>2. MatchesAt(text, i, s) <=> \A j \in 1 .. 1 : text[i + j] = s[j]
    BY <1>1, <2>1, MatchesAtIs
  <2> QED BY <2>2
<1>4. find_char(text, s[1], pos) = find(text, s, AtMost(pos, SIZE))
  <2> DEFINE p == AtMost(pos, SIZE)
             at == {i \in p .. n - 1 : MatchesAt(text, i, s)}
             there == {i \in pos .. n - 1 : text[i + 1] = s[1]}
  <2>1. /\ p = IF pos <= SIZE THEN pos ELSE SIZE
        /\ p \in 0 .. npos /\ ~ (p + 1 \in W .. W + n) /\ 1 \in 0 .. SIZE
    <3>1. p = IF pos <= SIZE THEN pos ELSE SIZE
      BY AtMostIs
    <3>2. p \in 0 .. SIZE
      BY <3>1
    <3> HIDE DEF p
    <3>3. SIZE \in Nat /\ SIZE # 0 /\ W \in Nat /\ 2 * SIZE + 2 < W
      BY SizeAssumption, WidthAssumption
    <3>4. npos \in Nat /\ npos = W - 1
      BY PlusWraps
    <3> QED BY <3>1, <3>2, <3>3, <3>4
  <2>2. find(text, s, p) = FirstOr(PlacesOf(s, p, n - 1))
    <3>1. find(text, s, p) = IF p + 1 \in W .. W + n THEN Outside
                             ELSE IF 1 = 0 /\ p = n THEN npos
                             ELSE FirstOr(PlacesOf(s, p, n - 1))
      <4> HIDE DEF p
      <4> QED BY <2>1, FindIs
    <3>2. 1 # 0
      OBVIOUS
    <3> HIDE DEF p
    <3> QED BY <2>1, <3>1, <3>2, Zenon
  <2>3. FirstOr(PlacesOf(s, p, n - 1)) = IF at = {} THEN npos ELSE Min(at)
    BY Zenon DEF FirstOr, PlacesOf
  <2>4. find_char(text, s[1], pos) = IF pos >= n THEN npos ELSE OrNpos(Min(there \cup {n}), n)
    BY <1>1, Zenon DEF find_char, find_if, size
  <2>5. Ahead(there, pos, n)
    BY Zenon DEF Ahead
  <2>6. at = there
    <3> HIDE DEF p
    <3> QED BY <1>1, <1>3, <2>1
  <2> HIDE DEF p, at, there
  <2>7. find_char(text, s[1], pos) = IF there = {} THEN npos ELSE Min(there)
    BY <1>1, <2>4, <2>5, ForwardFound
  <2>8. find_char(text, s[1], pos) = find(text, s, p)
    BY <2>2, <2>3, <2>6, <2>7, Zenon
  <2> QED BY <2>8 DEF p
<1>5. rfind_char(text, s[1], pos) = rfind(text, s, pos)
  <2> DEFINE at == {i \in 0 .. AtMost(pos, n - 1) : MatchesAt(text, i, s)}
             there == {i \in 0 .. AtMost(pos, n - 1) : text[i + 1] = s[1]}
  <2>1. 1 \in 0 .. SIZE
    BY SizeAssumption
  <2>2. rfind(text, s, pos) = LatestOr(PlacesOf(s, 0, AtMost(pos, n - 1)))
    BY <2>1, RFindIs
  <2>3. LatestOr(PlacesOf(s, 0, AtMost(pos, n - 1))) = IF at = {} THEN npos ELSE Max(at)
    BY Zenon DEF LatestOr, PlacesOf
  <2>4. rfind_char(text, s[1], pos) = IF n < 1 THEN npos ELSE OrNpos(Max(there \cup {-1}), -1)
    BY <1>1, Zenon DEF rfind_char, rfind_if, size
  <2>5. Behind(there, pos, n)
    BY Zenon DEF Behind
  <2>6. at = there
    <3>1. \A i \in 0 .. AtMost(pos, n - 1) : i \in 0 .. n - 1
      BY <1>1, <1>2
    <3> QED BY <1>3, <3>1, Zenon
  <2> HIDE DEF at, there
  <2>7. rfind_char(text, s[1], pos) = IF there = {} THEN npos ELSE Max(there)
    BY <1>1, <2>4, <2>5, BackwardFound
  <2> QED BY <2>2, <2>3, <2>6, <2>7, Zenon
<1>6. \A x : x # s[1] <=> x \notin ToSet(s)
  <2>1. DOMAIN s = 1 .. 1 /\ 1 .. 1 = {1}
    BY DEF Word
  <2>2. ToSet(s) = {s[1]}
    BY <2>1, Zenon DEF ToSet
  <2> QED BY <2>2
<1>7. find_first_not_of_char(text, s[1], pos) = find_first_not_of(text, s, pos)
  BY <1>6, Zenon DEF find_first_not_of_char, find_first_not_of, find_if
<1>8. find_last_not_of_char(text, s[1], pos) = find_last_not_of(text, s, pos)
  BY <1>6, Zenon DEF find_last_not_of_char, find_last_not_of, rfind_if
<1> QED BY <1>4, <1>5, <1>7, <1>8

\* In a state of the right type, every search agrees with basic_string.
LEMMA SearchesAgreeHere == StringTypeOK => SearchesAgree
<1> SUFFICES ASSUME StringTypeOK PROVE SearchesAgree
  OBVIOUS
<1> DEFINE n == Len(text)
<1>1. n \in 0 .. SIZE /\ text \in Word(Chars, n)
  BY TextIs
<1>2. /\ \A s \in Others : s \in Word(Chars, Len(s))
      /\ \A s \in Strings : s \in Others /\ Len(s) \in 0 .. SIZE
  BY ArgumentsAre
<1> HIDE DEF n
<1> SUFFICES ASSUME NEW s \in Strings, NEW pos \in 0 .. npos
    PROVE  /\ find(text, s, pos) =
                 IF pos + Len(s) \in W .. W + n THEN Outside
                 ELSE IF s = <<>> /\ pos = n THEN npos
                 ELSE First(pos, Len(s), LAMBDA i : MatchesAt(text, i, s))
           /\ rfind(text, s, pos) = Latest(pos, Len(s), LAMBDA i : MatchesAt(text, i, s))
           /\ find_first_of(text, s, pos) = First(pos, 1, LAMBDA i : text[i + 1] \in ToSet(s))
           /\ find_last_of(text, s, pos) = Latest(pos, 1, LAMBDA i : text[i + 1] \in ToSet(s))
           /\ find_first_not_of(text, s, pos) = First(pos, 1, LAMBDA i : text[i + 1] \notin ToSet(s))
           /\ find_last_not_of(text, s, pos) = Latest(pos, 1, LAMBDA i : text[i + 1] \notin ToSet(s))
           /\ Len(s) = 1 =>
                 /\ find_char(text, s[1], pos) = find(text, s, AtMost(pos, SIZE))
                 /\ rfind_char(text, s[1], pos) = rfind(text, s, pos)
                 /\ find_first_not_of_char(text, s[1], pos) = find_first_not_of(text, s, pos)
                 /\ find_last_not_of_char(text, s[1], pos) = find_last_not_of(text, s, pos)
  BY Zenon DEF SearchesAgree, size, n
<1> DEFINE m == Len(s)
<1>3. m \in 0 .. SIZE /\ s \in Word(Chars, m) /\ pos \in Nat
  BY <1>2, PlusWraps
<1>4. m \in Nat /\ (s = <<>> <=> m = 0)
  BY <1>3, WordIsSeq, SizeAssumption
<1> HIDE DEF m
<1>5. find(text, s, pos) =
           IF pos + m \in W .. W + n THEN Outside
           ELSE IF m = 0 /\ pos = n THEN npos
           ELSE FirstOr(PlacesOf(s, pos, n - m))
  BY <1>1, <1>3, FindIs
<1>6. rfind(text, s, pos) = LatestOr(PlacesOf(s, 0, AtMost(pos, n - m)))
  BY <1>1, <1>3, RFindIs
<1>7. /\ find_first_of(text, s, pos) = FirstOr(PlacesIn(s, pos, n - 1))
      /\ find_first_not_of(text, s, pos) = FirstOr(PlacesOut(s, pos, n - 1))
  BY <1>1, <1>3, FirstOfIs
<1>8. /\ find_last_of(text, s, pos) = LatestOr(PlacesIn(s, 0, AtMost(pos, n - 1)))
      /\ find_last_not_of(text, s, pos) = LatestOr(PlacesOut(s, 0, AtMost(pos, n - 1)))
  BY <1>1, <1>3, LastOfIs
<1>9. ASSUME m = 1
      PROVE  /\ find_char(text, s[1], pos) = find(text, s, AtMost(pos, SIZE))
             /\ rfind_char(text, s[1], pos) = rfind(text, s, pos)
             /\ find_first_not_of_char(text, s[1], pos) = find_first_not_of(text, s, pos)
             /\ find_last_not_of_char(text, s[1], pos) = find_last_not_of(text, s, pos)
  <2>1. s \in Word(Chars, 1)
    BY <1>3, <1>9
  <2> QED BY <1>1, <2>1, OneCharIs
<1>10. /\ First(pos, m, LAMBDA i : MatchesAt(text, i, s)) = FirstOr(PlacesOf(s, pos, n - m))
       /\ Latest(pos, m, LAMBDA i : MatchesAt(text, i, s))
          = LatestOr(PlacesOf(s, 0, AtMost(pos, n - m)))
  BY Zenon DEF First, Latest, FirstOr, LatestOr, PlacesOf, size, n
<1>11. /\ First(pos, 1, LAMBDA i : text[i + 1] \in ToSet(s)) = FirstOr(PlacesIn(s, pos, n - 1))
       /\ First(pos, 1, LAMBDA i : text[i + 1] \notin ToSet(s)) = FirstOr(PlacesOut(s, pos, n - 1))
       /\ Latest(pos, 1, LAMBDA i : text[i + 1] \in ToSet(s))
          = LatestOr(PlacesIn(s, 0, AtMost(pos, n - 1)))
       /\ Latest(pos, 1, LAMBDA i : text[i + 1] \notin ToSet(s))
          = LatestOr(PlacesOut(s, 0, AtMost(pos, n - 1)))
  BY Zenon DEF First, Latest, FirstOr, LatestOr, PlacesIn, PlacesOut, size, n
<1> QED BY <1>4, <1>5, <1>6, <1>7, <1>8, <1>9, <1>10, <1>11, Zenon DEF m
-----------------------------------------------------------------------------------
(* Comparing *)

\* Two strings of natural numbers: either all that both are long enough for is the
\* same, and their lengths decide, or the first difference does.
LEMMA TraitsCompareIs ==
    ASSUME NEW k \in Nat, NEW s, NEW t
    PROVE  \/ TraitsCompare(s, t, k) = 0 /\ \A i \in 1 .. k : s[i] = t[i]
           \/ \E d \in 1 .. k :
                 /\ s[d] # t[d] /\ \A i \in 1 .. d - 1 : s[i] = t[i]
                 /\ TraitsCompare(s, t, k) = IF s[d] < t[d] THEN -1 ELSE 1
<1> DEFINE differ == {i \in 1 .. k : s[i] # t[i]}
<1>1. TraitsCompare(s, t, k)
      = IF differ = {} THEN 0 ELSE IF s[Min(differ)] < t[Min(differ)] THEN -1 ELSE 1
  BY Zenon DEF TraitsCompare
<1>2. From(differ, 1)
  BY DEF From
<1>3. differ = {} => \A i \in 1 .. k : s[i] = t[i]
  OBVIOUS
<1>4. \A i \in differ : i \in 1 .. k /\ s[i] # t[i]
  OBVIOUS
<1>5. \A i \in 1 .. k : i \notin differ => s[i] = t[i]
  OBVIOUS
<1> HIDE DEF differ
<1>6. CASE differ = {}
  BY <1>1, <1>3, <1>6
<1>7. CASE differ # {}
  <2>1. Min(differ) \in differ /\ Min(differ) \in Int /\ \A y \in differ : Min(differ) <= y
    BY <1>2, <1>7, MinIs
  <2>2. Min(differ) \in 1 .. k /\ s[Min(differ)] # t[Min(differ)]
    BY <1>4, <2>1
  <2>3. ASSUME NEW i \in 1 .. Min(differ) - 1 PROVE s[i] = t[i]
    <3>1. i \in 1 .. k /\ ~ (Min(differ) <= i)
      BY <2>2
    <3> QED BY <1>5, <2>1, <3>1
  <2>4. TraitsCompare(s, t, k) = IF s[Min(differ)] < t[Min(differ)] THEN -1 ELSE 1
    BY <1>1, <1>7, Zenon
  <2> QED BY <2>2, <2>3, <2>4
<1> QED BY <1>6, <1>7

Alike(s, t, k) == \A i \in 1 .. k : s[i] = t[i]

\* Where two words first differ, or which one ends first, decides less and equal.
LEMMA CompareIs ==
    ASSUME NEW n \in Nat, NEW m \in Nat, NEW s \in Word(Nat, n), NEW t \in Word(Nat, m)
    PROVE  LET k == IF n <= m THEN n ELSE m
           IN  \/ /\ Alike(s, t, k)
                  /\ less(s, t) <=> n < m
                  /\ equal(s, t) <=> n = m
               \/ \E d \in 1 .. k :
                     /\ s[d] # t[d] /\ Alike(s, t, d - 1)
                     /\ less(s, t) <=> s[d] < t[d]
                     /\ ~ equal(s, t)
<1> DEFINE k == IF n <= m THEN n ELSE m
<1>1. Len(s) = n /\ Len(t) = m
  BY WordIsSeq
<1>2. AtMost(n, m) = k /\ k \in Nat
  BY AtMostIs
<1>3. n = m => k = n
  OBVIOUS
<1> HIDE DEF k
<1>4. m_compare(s, t) = IF TraitsCompare(s, t, k) # 0 THEN TraitsCompare(s, t, k)
                        ELSE IF n < m THEN -1 ELSE IF n > m THEN 1 ELSE 0
  BY <1>1, <1>2, Zenon DEF m_compare, size
<1>5. equal(s, t) <=> n = m /\ TraitsCompare(s, t, k) = 0
  <2>1. equal(s, t) <=> n = m /\ TraitsCompare(s, t, n) = 0
    BY <1>1, Zenon DEF equal, size
  <2> QED BY <1>3, <2>1
<1>6. less(s, t) <=> m_compare(s, t) < 0
  BY DEF less
<1>7. \/ TraitsCompare(s, t, k) = 0 /\ \A i \in 1 .. k : s[i] = t[i]
      \/ \E d \in 1 .. k :
            /\ s[d] # t[d] /\ \A i \in 1 .. d - 1 : s[i] = t[i]
            /\ TraitsCompare(s, t, k) = IF s[d] < t[d] THEN -1 ELSE 1
  BY <1>2, TraitsCompareIs
<1>8. CASE TraitsCompare(s, t, k) = 0 /\ \A i \in 1 .. k : s[i] = t[i]
  <2>1. Alike(s, t, k)
    BY <1>8 DEF Alike
  <2>2. less(s, t) <=> n < m
    BY <1>4, <1>6, <1>8
  <2> QED BY <1>5, <1>8, <2>1, <2>2 DEF k
<1>9. CASE \E d \in 1 .. k :
              /\ s[d] # t[d] /\ \A i \in 1 .. d - 1 : s[i] = t[i]
              /\ TraitsCompare(s, t, k) = IF s[d] < t[d] THEN -1 ELSE 1
  <2>1. PICK d \in 1 .. k :
              /\ s[d] # t[d] /\ \A i \in 1 .. d - 1 : s[i] = t[i]
              /\ TraitsCompare(s, t, k) = IF s[d] < t[d] THEN -1 ELSE 1
    BY <1>9
  <2>2. Alike(s, t, d - 1)
    BY <2>1 DEF Alike
  <2>3. TraitsCompare(s, t, k) # 0
    BY <2>1
  <2>4. m_compare(s, t) = IF s[d] < t[d] THEN -1 ELSE 1
    BY <1>4, <2>1, <2>3
  <2>5. less(s, t) <=> s[d] < t[d]
    BY <1>6, <2>4
  <2>6. ~ equal(s, t)
    BY <1>5, <2>3
  <2> QED BY <2>1, <2>2, <2>5, <2>6 DEF k
<1> QED BY <1>7, <1>8, <1>9

\* Less is before in the lexicographic order, equal the same, and one of them or
\* greater holds.
LEMMA OrderIs ==
    ASSUME NEW n \in Nat, NEW m \in Nat, NEW s \in Word(Nat, n), NEW t \in Word(Nat, m)
    PROVE  /\ less(s, t) <=> \E j \in 0 .. (IF n <= m THEN n ELSE m) :
                                Alike(s, t, j) /\ j < m /\ (j < n => s[j + 1] < t[j + 1])
           /\ equal(s, t) <=> s = t
           /\ ~ (less(s, t) /\ less(t, s))
           /\ equal(s, t) \/ less(s, t) \/ less(t, s)
           /\ equal(s, t) => ~ less(s, t) /\ ~ less(t, s)
<1> DEFINE k == IF n <= m THEN n ELSE m
           l == IF m <= n THEN m ELSE n
<1>1. k \in Nat /\ l = k /\ k <= n /\ k <= m /\ (k = n \/ k = m)
  OBVIOUS
<1>2. \/ Alike(s, t, k) /\ (less(s, t) <=> n < m) /\ (equal(s, t) <=> n = m)
      \/ \E d \in 1 .. k : /\ s[d] # t[d] /\ Alike(s, t, d - 1)
                           /\ less(s, t) <=> s[d] < t[d]
                           /\ ~ equal(s, t)
  BY CompareIs
<1>3. \/ Alike(t, s, l) /\ (less(t, s) <=> m < n) /\ (equal(t, s) <=> m = n)
      \/ \E d \in 1 .. l : /\ t[d] # s[d] /\ Alike(t, s, d - 1)
                           /\ less(t, s) <=> t[d] < s[d]
                           /\ ~ equal(t, s)
  BY CompareIs
<1>4. /\ \A i \in 1 .. n : s[i] \in Nat
      /\ \A i \in 1 .. m : t[i] \in Nat
  BY DEF Word
<1>5. n = m => (s = t <=> Alike(s, t, n))
  <2> SUFFICES ASSUME n = m PROVE s = t <=> Alike(s, t, n)
    OBVIOUS
  <2>1. Alike(s, t, n) => s = t
    BY SameWord DEF Alike
  <2> QED BY <2>1 DEF Alike
<1>6. n # m => s # t
  BY WordIsSeq
<1> HIDE DEF k, l
<1>7. CASE Alike(s, t, k)
  <2>1. /\ less(s, t) <=> n < m
        /\ equal(s, t) <=> n = m
        /\ less(t, s) <=> m < n
    BY <1>1, <1>2, <1>3, <1>7 DEF Alike
  <2>2. equal(s, t) <=> s = t
    BY <1>1, <1>5, <1>6, <1>7, <2>1
  <2>3. ASSUME n < m
        PROVE  k \in 0 .. k /\ Alike(s, t, k) /\ k < m /\ (k < n => s[k + 1] < t[k + 1])
    BY <1>1, <1>7, <2>3
  <2>4. ASSUME NEW j \in 0 .. k, Alike(s, t, j), j < m, j < n => s[j + 1] < t[j + 1]
        PROVE  n < m
    <3>1. ASSUME j < n PROVE FALSE
      <4>1. j + 1 \in 1 .. k /\ j + 1 \in 1 .. n /\ j + 1 \in 1 .. m
        BY <1>1, <2>4, <3>1
      <4>2. s[j + 1] = t[j + 1] /\ s[j + 1] \in Nat
        BY <1>4, <1>7, <4>1 DEF Alike
      <4> QED BY <2>4, <3>1, <4>2
    <3> QED BY <1>1, <2>4, <3>1
  <2> QED BY <2>1, <2>2, <2>3, <2>4 DEF k
<1>8. CASE ~ Alike(s, t, k)
  <2>1. PICK d \in 1 .. k : /\ s[d] # t[d] /\ Alike(s, t, d - 1)
                            /\ less(s, t) <=> s[d] < t[d]
                            /\ ~ equal(s, t)
    BY <1>2, <1>8
  <2>2. ~ Alike(t, s, l)
    BY <1>1, <1>8 DEF Alike
  <2>3. PICK e \in 1 .. k : /\ t[e] # s[e] /\ Alike(t, s, e - 1)
                            /\ less(t, s) <=> t[e] < s[e]
    BY <1>1, <1>3, <2>2
  <2>4. d = e
    <3>1. ~ (d < e)
      BY <2>1, <2>3 DEF Alike
    <3>2. ~ (e < d)
      BY <2>1, <2>3 DEF Alike
    <3> QED BY <3>1, <3>2
  <2>5. d \in 1 .. n /\ d \in 1 .. m /\ s[d] \in Nat /\ t[d] \in Nat
    BY <1>1, <1>4
  <2>6. ~ (less(s, t) /\ less(t, s)) /\ (less(s, t) \/ less(t, s))
    BY <2>1, <2>3, <2>4, <2>5
  <2>7. s # t
    BY <2>1
  <2>8. ASSUME s[d] < t[d]
        PROVE  /\ d - 1 \in 0 .. k /\ Alike(s, t, d - 1) /\ d - 1 < m
               /\ d - 1 < n => s[(d - 1) + 1] < t[(d - 1) + 1]
    BY <1>1, <2>1, <2>8
  <2>9. ASSUME NEW j \in 0 .. k, Alike(s, t, j), j < m, j < n => s[j + 1] < t[j + 1]
        PROVE  s[d] < t[d]
    <3>1. ~ (d <= j)
      BY <2>1, <2>9 DEF Alike
    <3>2. j < n /\ j + 1 \in 1 .. n /\ j + 1 \in 1 .. m
      BY <2>5, <3>1
    <3>3. s[j + 1] # t[j + 1]
      BY <1>4, <2>9, <3>2
    <3>4. ~ (j + 1 <= d - 1)
      BY <2>1, <3>3 DEF Alike
    <3>5. j + 1 = d
      BY <3>1, <3>4
    <3> QED BY <2>9, <3>2, <3>5
  <2> QED BY <2>1, <2>6, <2>7, <2>8, <2>9 DEF k
<1> QED BY <1>7, <1>8

\* Characters are natural numbers, and so are their strings.
LEMMA CharsAreNumbers == ASSUME NEW n \in Nat, NEW s \in Word(Chars, n) PROVE s \in Word(Nat, n)
BY CharsAssumption DEF Word

\* What + makes of two strings begins with the left one.
LEMMA PlusFollows ==
    ASSUME NEW n \in 0 .. SIZE, NEW s \in Word(Chars, n), NEW m \in Nat, NEW t \in Word(Chars, m)
    PROVE  less_equal(s, plus(s, t).text) \/ plus(s, t).out # "returned"
<1> n \in Nat
  BY SizeAssumption
<1> DEFINE r == range_initialize(<<>>, s)
           long == Put(s, n, n, t, m)
<1>1. Len(s) = n
  BY WordIsSeq
<1>2. r = IF n >= SIZE THEN Threw(<<>>) ELSE Returned(s)
  BY <1>1, Zenon DEF range_initialize
<1>3. plus(s, t) = IF r.out = "returned" THEN append(s, t) ELSE r
  BY Zenon DEF plus
<1>4. append(s, t) = IF m = 0 THEN Returned(s)
                     ELSE IF n # n /\ n + m >= SIZE THEN Threw(s)
                     ELSE IF n + m > SIZE THEN Overrun(s)
                     ELSE Returned(long)
  <2>1. append(s, t) = insert(s, n, t)
    BY <1>1, Zenon DEF append
  <2>2. n \in 0 .. n
    OBVIOUS
  <2> QED BY <2>1, <2>2, InsertIs
<1>5. long \in Word(Chars, n + m) /\ \A i \in 1 .. n : long[i] = s[i]
  <2>1. n \in 0 .. n
    OBVIOUS
  <2>2. long \in Word(Chars, n + m)
    BY <2>1, PutType
  <2> QED BY <2>2 DEF Put
<1>6. s \in Word(Nat, n) /\ long \in Word(Nat, n + m) /\ n + m \in Nat
  BY <1>5, CharsAreNumbers
<1> HIDE DEF r, long
<1>7. ~ less(s, s)
  BY <1>6, OrderIs
<1>8. ~ less(long, s)
  <2>1. ASSUME NEW j \in 0 .. (IF n + m <= n THEN n + m ELSE n),
               j < n, j < n + m => long[j + 1] < s[j + 1]
        PROVE  FALSE
    <3>1. j + 1 \in 1 .. n /\ j < n + m
      BY <2>1
    <3>2. long[j + 1] = s[j + 1] /\ s[j + 1] \in Nat
      BY <1>5, <1>6, <3>1 DEF Word
    <3> QED BY <2>1, <3>1, <3>2
  <2>2. less(long, s) <=> \E j \in 0 .. (IF n + m <= n THEN n + m ELSE n) :
                   Alike(long, s, j) /\ j < n /\ (j < n + m => long[j + 1] < s[j + 1])
    BY <1>6, OrderIs
  <2> QED BY <2>1, <2>2
<1>9. \/ plus(s, t) = Threw(<<>>) \/ plus(s, t) = Overrun(s)
      \/ plus(s, t) = Returned(s) \/ plus(s, t) = Returned(long)
  <2>1. CASE n >= SIZE
    BY <1>2, <1>3, <2>1 DEF Threw
  <2>2. CASE ~ (n >= SIZE)
    <3>1. r.out = "returned"
      BY <1>2, <2>2 DEF Returned
    <3> QED BY <1>3, <1>4, <3>1
  <2> QED BY <2>1, <2>2
<1> QED BY <1>7, <1>8, <1>9 DEF less_equal, Threw, Overrun, Returned

\* A substring of a text is what copy makes of it, and is found where it was taken;
\* it cannot be made if it is as long as the buffer.
LEMMA SubstrAgrees ==
    ASSUME NEW n \in 0 .. SIZE, text \in Word(Chars, n), NEW pos \in 0 .. n, NEW k \in 0 .. npos
    PROVE  IF substr(text, pos, k).out = "returned"
           THEN /\ substr(text, pos, k) = copy(text, k, pos)
                /\ find(text, substr(text, pos, k).text, pos) = pos \/ pos = n
           ELSE n = SIZE /\ pos = 0 /\ k >= SIZE
<1> n \in Nat /\ pos \in Nat /\ SIZE \in Nat /\ k \in Nat
  BY SizeAssumption, PlusWraps
<1> DEFINE m == IF k <= n - pos THEN k ELSE n - pos
           part == Part(text, pos, k)
<1>1. Len(text) = n /\ ~ (pos > n)
  BY WordIsSeq
<1>2. /\ m \in 0 .. n - pos
      /\ part = Slice(text, pos, pos + m)
      /\ part \in Word(Chars, m)
  BY PartIs
<1>3. m = k \/ m = n - pos
  OBVIOUS
<1>4. m >= SIZE => n = SIZE /\ pos = 0 /\ k >= SIZE
  OBVIOUS
<1> HIDE DEF m, part
<1>5. m \in Nat /\ Len(part) = m
  BY <1>2, WordIsSeq
<1>6. substr(text, pos, k) = range_initialize(<<>>, part) /\ copy(text, k, pos) = Returned(part)
  BY <1>1, Zenon DEF substr, xstring, copy, size, part
<1>7. range_initialize(<<>>, part) = IF m >= SIZE THEN Threw(<<>>) ELSE Returned(part)
  BY <1>5, Zenon DEF range_initialize
<1>8. CASE m >= SIZE
  <2>1. substr(text, pos, k) = Threw(<<>>)
    BY <1>6, <1>7, <1>8
  <2> QED BY <1>4, <1>8, <2>1 DEF Threw
<1>9. CASE ~ (m >= SIZE)
  <2>1. substr(text, pos, k) = Returned(part)
    BY <1>6, <1>7, <1>9
  <2>2. ASSUME pos # n PROVE find(text, part, pos) = pos
    <3>1. m \in 0 .. SIZE /\ pos \in 0 .. npos
      BY <1>5, <1>9, PlusWraps
    <3>2. ~ (pos + m \in W .. W + n)
      BY <1>2, WidthAssumption
    <3>3. find(text, part, pos) =
              IF pos + m \in W .. W + n THEN Outside
              ELSE IF m = 0 /\ pos = n THEN npos
              ELSE FirstOr(PlacesOf(part, pos, n - m))
      BY <1>2, <3>1, FindIs
    <3>4. MatchesAt(text, pos, part)
      <4>1. pos + m <= n
        BY <1>2
      <4>2. \A j \in 1 .. m : text[pos + j] = part[j]
        BY <1>2 DEF Slice
      <4>3. part \in Word(Chars, m)
        BY <1>2
      <4>4. MatchesAt(text, pos, part) <=> \A j \in 1 .. m : text[pos + j] = part[j]
        BY <1>5, <4>1, <4>3, MatchesAtIs
      <4> QED BY <4>2, <4>4
    <3> DEFINE at == PlacesOf(part, pos, n - m)
    <3>5. pos \in at /\ From(at, pos)
      BY <1>2, <3>4 DEF PlacesOf, From
    <3> HIDE DEF at
    <3>6. Min(at) \in at /\ Min(at) \in Int /\ \A y \in at : Min(at) <= y
      BY <3>5, MinIs
    <3>7. Min(at) = pos
      BY <3>5, <3>6 DEF From
    <3>8. FirstOr(at) = pos
      BY <3>5, <3>7 DEF FirstOr
    <3> QED BY <2>2, <3>2, <3>3, <3>8, Zenon DEF at
  <2> QED BY <1>6, <2>1, <2>2 DEF Returned
<1> QED BY <1>8, <1>9

\* The beginnings of two strings are the same if their characters are.
LEMMA FrontsAlike ==
    ASSUME NEW S, NEW n \in Nat, NEW m \in Nat, NEW s \in Word(S, n), NEW t \in Word(S, m),
           NEW j \in 0 .. n, j \in 0 .. m
    PROVE  SubSeq(s, 1, j) = SubSeq(t, 1, j) <=> Alike(s, t, j)
<1>1. SubSeq(s, 1, j) = Slice(s, 0, j) /\ Slice(s, 0, j) \in Word(S, j)
  BY FrontIs
<1>2. SubSeq(t, 1, j) = Slice(t, 0, j) /\ Slice(t, 0, j) \in Word(S, j)
  BY FrontIs
<1>3. \A i \in 1 .. j : Slice(s, 0, j)[i] = s[i] /\ Slice(t, 0, j)[i] = t[i]
  BY DEF Slice
<1>4. ASSUME Alike(s, t, j) PROVE Slice(s, 0, j) = Slice(t, 0, j)
  <2>1. \A i \in 1 .. j : Slice(s, 0, j)[i] = Slice(t, 0, j)[i]
    BY <1>3, <1>4 DEF Alike
  <2> QED BY <1>1, <1>2, <2>1, SameWord
<1>5. ASSUME Slice(s, 0, j) = Slice(t, 0, j) PROVE Alike(s, t, j)
  BY <1>3, <1>5 DEF Alike
<1> QED BY <1>1, <1>2, <1>4, <1>5

\* In a state of the right type, every comparison agrees with basic_string.
LEMMA ComparisonsAgreeHere == StringTypeOK => ComparisonsAgree
<1> SUFFICES ASSUME StringTypeOK PROVE ComparisonsAgree
  OBVIOUS
<1> DEFINE n == Len(text)
<1>1. n \in 0 .. SIZE /\ text \in Word(Chars, n)
  BY TextIs
<1>2. /\ \A s \in Others : s \in Word(Chars, Len(s))
      /\ \A s \in Strings : s \in Others /\ Len(s) \in 0 .. SIZE
  BY ArgumentsAre
<1> HIDE DEF n
<1>3. n \in Nat /\ text \in Word(Nat, n)
  BY <1>1, SizeAssumption, CharsAreNumbers
<1> SUFFICES ASSUME NEW s \in Strings
    PROVE  /\ less(text, s) = \E j \in 0 .. AtMost(n, Len(s)) :
                              /\ SubSeq(text, 1, j) = SubSeq(s, 1, j)
                              /\ j < Len(s)
                              /\ j < n => text[j + 1] < s[j + 1]
           /\ equal(text, s) = (text = s)
           /\ unequal(text, s) = (less(text, s) \/ greater(text, s))
           /\ ~ (less(text, s) /\ greater(text, s))
           /\ less_equal(text, s) = (less(text, s) \/ equal(text, s))
           /\ greater_equal(text, s) = less_equal(s, text)
           /\ less_equal(text, plus(text, s).text) \/ plus(text, s).out # "returned"
           /\ \A pos \in 0 .. n, k \in 0 .. npos :
                IF substr(text, pos, k).out = "returned"
                THEN /\ substr(text, pos, k) = copy(text, k, pos)
                     /\ find(text, substr(text, pos, k).text, pos) = pos \/ pos = n
                ELSE n = SIZE /\ pos = 0 /\ k >= SIZE
  BY Zenon DEF ComparisonsAgree, size, Places, n
<1> DEFINE m == Len(s)
<1>4. m \in 0 .. SIZE /\ s \in Word(Chars, m)
  BY <1>2
<1>5. m \in Nat /\ s \in Word(Nat, m)
  BY <1>4, SizeAssumption, CharsAreNumbers
<1> HIDE DEF m
<1>6. /\ less(text, s) <=> \E j \in 0 .. (IF n <= m THEN n ELSE m) :
                              Alike(text, s, j) /\ j < m /\ (j < n => text[j + 1] < s[j + 1])
      /\ equal(text, s) <=> text = s
      /\ ~ (less(text, s) /\ less(s, text))
      /\ equal(text, s) \/ less(text, s) \/ less(s, text)
      /\ equal(text, s) => ~ less(text, s) /\ ~ less(s, text)
  BY <1>3, <1>5, OrderIs
<1>7. less(text, s) <=> \E j \in 0 .. AtMost(n, m) :
                              /\ SubSeq(text, 1, j) = SubSeq(s, 1, j)
                              /\ j < m
                              /\ j < n => text[j + 1] < s[j + 1]
  <2>1. AtMost(n, m) = IF n <= m THEN n ELSE m
    BY <1>3, <1>5, AtMostIs
  <2>2. ASSUME NEW j \in 0 .. (IF n <= m THEN n ELSE m)
        PROVE  SubSeq(text, 1, j) = SubSeq(s, 1, j) <=> Alike(text, s, j)
    <3>1. j \in 0 .. n /\ j \in 0 .. m
      BY <1>3, <1>5
    <3> QED BY <1>3, <1>5, <3>1, FrontsAlike
  <2> QED BY <1>6, <2>1, <2>2, Zenon
<1>8. less_equal(text, plus(text, s).text) \/ plus(text, s).out # "returned"
  BY <1>1, <1>4, <1>5, PlusFollows
<1>9. /\ unequal(text, s) <=> ~ equal(text, s)
      /\ greater(text, s) <=> less(s, text)
      /\ less_equal(text, s) <=> ~ less(s, text)
      /\ greater_equal(text, s) <=> ~ less(text, s)
      /\ less_equal(s, text) <=> ~ less(text, s)
  BY Zenon DEF unequal, greater, less_equal, greater_equal
<1>10. \A pos \in 0 .. n, k \in 0 .. npos :
                IF substr(text, pos, k).out = "returned"
                THEN /\ substr(text, pos, k) = copy(text, k, pos)
                     /\ find(text, substr(text, pos, k).text, pos) = pos \/ pos = n
                ELSE n = SIZE /\ pos = 0 /\ k >= SIZE
  BY <1>1, SubstrAgrees
<1>11. /\ equal(text, s) = (text = s)
       /\ unequal(text, s) = (less(text, s) \/ greater(text, s))
       /\ ~ (less(text, s) /\ greater(text, s))
       /\ less_equal(text, s) = (less(text, s) \/ equal(text, s))
       /\ greater_equal(text, s) = less_equal(s, text)
  <2>1. equal(text, s) = (text = s)
    BY <1>6 DEF equal
  <2>2. unequal(text, s) = (less(text, s) \/ greater(text, s))
    BY <1>6, <1>9 DEF unequal
  <2>3. ~ (less(text, s) /\ greater(text, s))
    BY <1>6, <1>9
  <2>4. less_equal(text, s) = (less(text, s) \/ equal(text, s))
    BY <1>6, <1>9 DEF less_equal
  <2>5. greater_equal(text, s) = less_equal(s, text)
    BY DEF greater_equal, less_equal
  <2> QED BY <2>1, <2>2, <2>3, <2>4, <2>5, Zenon
<1>12. less(text, s) = \E j \in 0 .. AtMost(n, m) :
                              /\ SubSeq(text, 1, j) = SubSeq(s, 1, j)
                              /\ j < m
                              /\ j < n => text[j + 1] < s[j + 1]
  <2> DEFINE Before == \E j \in 0 .. AtMost(n, m) :
                           /\ SubSeq(text, 1, j) = SubSeq(s, 1, j)
                           /\ j < m
                           /\ j < n => text[j + 1] < s[j + 1]
  <2>1. (less(text, s) <=> Before) /\ Before \in BOOLEAN
    BY <1>7, Zenon
  <2> HIDE DEF Before
  <2>2. less(text, s) = Before
    BY <2>1 DEF less
  <2> QED BY <2>2, Zenon DEF Before
<1> QED BY <1>8, <1>10, <1>11, <1>12, Zenon DEF m
-----------------------------------------------------------------------------------

\* Whatever was done to a string, each search of it finds what basic_string's does but
\* for the two cases SearchesAgree names, its comparisons with any other string are
\* one lexicographic order, and a substring that can be made is found where it was.
THEOREM ReadsCorrect == StringSpec => []ReadsAgree
<1>1. StringTypeOK => ReadsAgree
  BY SearchesAgreeHere, ComparisonsAgreeHere DEF ReadsAgree
<1> QED BY <1>1, TypeCorrect, PTL
===================================================================================
