--------------------------------- MODULE XString ---------------------------------
(***************************************************************************)
(* xstring.h over fixed_char_buf: the string interface made of the buffer's *)
(* insert and erase.  The variable is one string; the strings and          *)
(* characters an operation is given are enumerated.                        *)
(***************************************************************************)
EXTENDS FixedCharBuf, SequencesExt, FiniteSetsExt

CONSTANTS
    Chars,      \* characters, as numbers so that they have an order
    Others,     \* the strings passed as arguments
    Counts,     \* the positions and lengths passed as arguments
    W           \* size_type wraps at W

ASSUME CharsAssumption == Chars \subseteq Nat \ {Unwritten} /\ Others \subseteq Seq(Chars)

\* A buffer and a string beside it fit into the memory that size_type can count.
ASSUME WidthAssumption ==
    /\ W \in Nat /\ 2 * SIZE + 2 < W
    /\ Counts \subseteq 0 .. W - 1
    /\ \A s \in Others : SIZE + Len(s) < W

VARIABLE text

\* The largest size_type.
npos == W - 1
AtMost(n, m) == Min({n, m})

\* The characters from pos on, at most n of them.
Part(s, pos, n) == SubSeq(s, pos + 1, pos + AtMost(n, Len(s) - pos))
--------------------------------------------------------------------------------
(* Construction and assignment *)

xstring(s, pos, n) ==
    IF pos > Len(s) THEN Threw(<<>>) ELSE range_initialize(<<>>, Part(s, pos, n))

\* The old text is gone before the new one is known to fit.
assign(s) == range_initialize(<<>>, s)
assign_fill(n, c) == element_initialize(<<>>, n, c)
--------------------------------------------------------------------------------
(* Insertion *)

insert_string(s, pos, chars) ==
    IF pos > Len(s) \/ Len(s) > (SIZE - Len(chars)) % W THEN Threw(s)
    ELSE insert(s, pos, chars)

insert_part(s, pos, chars, beg, n) ==
    IF pos > Len(s) \/ beg > Len(chars) THEN Threw(s)
    ELSE IF Len(s) > SIZE - AtMost(n, Len(chars) - beg) THEN Threw(s)
    ELSE insert(s, pos, Part(chars, beg, n))

\* Character by character: what has gone in when one of them throws stays.
Filled(s, pos, n, c) ==
    LET after[i \in 0 .. n] ==
            IF i = 0 THEN Returned(s)
            ELSE LET r == after[i - 1]
                 IN  IF r.out = "returned" THEN insert(r.text, pos + i - 1, <<c>>) ELSE r
    IN  after[n]
insert_fill(s, pos, n, c) ==
    IF pos > Len(s) \/ Len(s) > (SIZE - n) % W THEN Threw(s) ELSE Filled(s, pos, n, c)

push_back(s, c) == insert(s, Len(s), <<c>>)
append(s, chars) == insert(s, Len(s), chars)
append_part(s, chars, pos, n) ==
    IF pos > Len(chars) THEN Threw(s) ELSE append(s, Part(chars, pos, n))
append_fill(s, n, c) == insert_fill(s, Len(s), n, c)
--------------------------------------------------------------------------------
(* Erasure *)

pop_back(s) == erase(s, Len(s) - 1, Len(s))

\* The end is counted from the beginning of the text, and not from pos.
erase_part(s, pos, n) ==
    IF pos > Len(s) THEN Threw(s) ELSE erase(s, pos, AtMost(n, Len(s) - pos))

resize(s, n, c) ==
    IF n <= Len(s) THEN erase(s, n, Len(s)) ELSE append_fill(s, n - Len(s), c)
--------------------------------------------------------------------------------
(* Replacement *)

\* The first characters of the range are overwritten; then the rest of it is
\* erased or the rest of chars inserted behind it.
Overwritten(s, first, chars) ==
    [i \in DOMAIN s |-> IF i - first \in DOMAIN chars THEN chars[i - first] ELSE s[i]]

\* Mutant: the rest is inserted in front of what was overwritten.
ReplaceInFront(s, first, last, chars) ==
    LET len == last - first
        n == Len(chars)
        start == Overwritten(s, first, SubSeq(chars, 1, AtMost(len, n)))
    IN  IF len >= n THEN erase(start, first + n, last)
        ELSE insert(start, first, SubSeq(chars, len + 1, n))

replace_range(s, first, last, chars) ==
    LET len == last - first
        n == Len(chars)
        start == Overwritten(s, first, SubSeq(chars, 1, AtMost(len, n)))
    IN  IF len >= n THEN erase(start, first + n, last)
        ELSE insert(start, last, SubSeq(chars, len + 1, n))

\* The input iterator's form: step by step, until either end is reached.
replace_input(s, first, last, chars) ==
    LET steps == AtMost(last - first, Len(chars))
        written[i \in 0 .. steps] ==
            IF i = 0 THEN s ELSE [written[i - 1] EXCEPT ![first + i] = chars[i]]
        start == written[steps]
    IN  IF steps = Len(chars) THEN erase(start, first + steps, last)
        ELSE insert(start, last, SubSeq(chars, steps + 1, Len(chars)))

replace(s, pos, n, chars) ==
    LET len == AtMost(n, Len(s) - pos)
    IN  IF pos > Len(s) THEN Threw(s)
        ELSE IF Len(chars) > SIZE \/ Len(s) - len >= SIZE - Len(chars) THEN Threw(s)
        ELSE replace_range(s, pos, pos + len, chars)

replace_part(s, pos1, n1, chars, pos2, n2) ==
    IF pos2 > Len(chars) THEN Threw(s) ELSE replace(s, pos1, n1, Part(chars, pos2, n2))
--------------------------------------------------------------------------------
(* The program *)

Strings == {s \in Others : Len(s) <= SIZE}
Places == 0 .. Len(text)

\* A program that overruns the buffer is not followed further.
Becomes(r) == r.out # "overrun" /\ text' = r.text

StringInit == text = <<>>

\* The string is destroyed and a new one constructed, if its constructor returns.
Construct ==
    \/ \E s \in Strings, pos, n \in Counts :
         LET r == xstring(s, pos, n) IN r.out = "returned" /\ Becomes(r)
    \/ \E n \in Counts, c \in Chars :
         LET r == element_initialize(<<>>, n, c) IN r.out = "returned" /\ Becomes(r)

Assign ==
    \/ \E s \in Others : Becomes(assign(s))
    \/ \E n \in Counts, c \in Chars : Becomes(assign_fill(n, c))

Extend ==
    \/ \E s \in Others : Becomes(append(text, s))
    \/ \E s \in Strings, pos, n \in Counts : Becomes(append_part(text, s, pos, n))
    \/ \E n \in Counts, c \in Chars : Becomes(append_fill(text, n, c))

PushBack == \E c \in Chars : Becomes(push_back(text, c))

Insert ==
    \/ \E s \in Others, pos \in Counts : Becomes(insert_string(text, pos, s))
    \/ \E s \in Strings, pos, beg, n \in Counts :
         Becomes(insert_part(text, pos, s, beg, n))
    \/ \E pos, n \in Counts, c \in Chars : Becomes(insert_fill(text, pos, n, c))
    \/ \E pos, first, last \in Places :
         first <= last /\ Becomes(insertOwn(text, pos, first, last))

PopBack == text # <<>> /\ Becomes(pop_back(text))

Erase ==
    \/ \E pos, n \in Counts : Becomes(erase_part(text, pos, n))
    \/ \E first, last \in Places : first <= last /\ Becomes(erase(text, first, last))

Resize == \E n \in Counts, c \in Chars : Becomes(resize(text, n, c))

Replace ==
    \/ \E s \in Others, pos, n \in Counts : Becomes(replace(text, pos, n, s))
    \/ \E s \in Strings, pos1, n1, pos2, n2 \in Counts :
         Becomes(replace_part(text, pos1, n1, s, pos2, n2))
    \/ \E s \in Others, first, last \in Places :
         /\ first <= last
         /\ \/ Becomes(replace_range(text, first, last, s))
            \/ Becomes(replace_input(text, first, last, s))

Swap == \E s \in Strings : text' = swap(text, s)[1]

StringNext ==
    \/ Construct \/ Assign \/ Extend \/ PushBack \/ Insert
    \/ PopBack \/ Erase \/ Resize \/ Replace \/ Swap

StringSpec == StringInit /\ [][StringNext]_text
--------------------------------------------------------------------------------
(* Properties *)

\* The text fits into the buffer, unless an edit has overrun it.
StringTypeOK == text \in Seq(Chars) /\ Len(text) <= SIZE

\* text with the characters first .. last - 1 replaced by chars.
Spliced(first, last, chars) ==
    SubSeq(text, 1, first) \o chars \o SubSeq(text, last + 1, Len(text))

\* An edit either returns with the right text, or throws and leaves left, or overruns
\* the buffer: it throws only when the result would fill the buffer or exceed it, and
\* overruns only when the result exceeds it.
Agrees(r, want, left) ==
    \/ r.out = "returned" /\ r.text = want /\ Len(want) <= SIZE
    \/ r.out = "threw" /\ r.text = left /\ Len(want) >= SIZE
    \/ r.out = "overrun" /\ Len(want) > SIZE

\* The destination of an insertion may be the string the characters come from:
\* they are still read rightly when all of them stand before the place, or when
\* they are at least as many as those behind it, as for s.insert(pos, s) and
\* s.append(s).
OwnTextAgrees ==
    \A pos, first, last \in Places :
        first <= last /\ (last <= pos \/ last - first >= Len(text) - pos) =>
            LET own == SubSeq(text, first + 1, last)
            IN  Agrees(insertOwn(text, pos, first, last), Spliced(pos, pos, own), text)

\* A new string holds what it is made of and throws only when that fills the buffer
\* or pos is outside the string it is taken from.  Assigning does the same to a
\* string there is: its old text is lost when the new one does not fit.
ConstructionAgrees ==
    /\ \A s \in Strings, pos, n \in Counts :
         IF pos > Len(s) THEN xstring(s, pos, n) = Threw(<<>>)
         ELSE Agrees(xstring(s, pos, n), Part(s, pos, n), <<>>)
    /\ \A n \in Counts, c \in Chars :
         /\ Agrees(element_initialize(<<>>, n, c), Repeat(c, n), <<>>)
         /\ Agrees(assign_fill(n, c), Repeat(c, n), <<>>)
    /\ \A s \in Others : Agrees(assign(s), s, <<>>)

\* What is appended follows the text, or the text stays as it was.
AppendingAgrees ==
    /\ \A s \in Others : Agrees(append(text, s), text \o s, text)
    /\ \A s \in Strings, pos, n \in Counts :
         IF pos > Len(s) THEN append_part(text, s, pos, n) = Threw(text)
         ELSE Agrees(append_part(text, s, pos, n), text \o Part(s, pos, n), text)
    /\ \A c \in Chars :
         /\ Agrees(push_back(text, c), Append(text, c), text)
         /\ \A n \in Counts :
              /\ Agrees(append_fill(text, n, c), text \o Repeat(c, n), text)
              /\ Agrees(resize(text, n, c),
                        [i \in 1 .. n |-> IF i <= Len(text) THEN text[i] ELSE c], text)

\* What is inserted stands between the characters before pos and those from pos on.
\* Copies of a character go in one by one: when one of them throws, those that left
\* a place free are in the text, if the copies were as many as fill the buffer or so
\* many that max_size() - n wraps.
InsertionAgrees ==
    /\ OwnTextAgrees
    /\ \A s \in Others, pos \in Counts :
         IF pos > Len(text) THEN insert_string(text, pos, s) = Threw(text)
         ELSE Agrees(insert_string(text, pos, s), Spliced(pos, pos, s), text)
    /\ \A s \in Strings, pos, beg, n \in Counts :
         IF pos > Len(text) \/ beg > Len(s) THEN insert_part(text, pos, s, beg, n) = Threw(text)
         ELSE Agrees(insert_part(text, pos, s, beg, n), Spliced(pos, pos, Part(s, beg, n)), text)
    /\ \A pos, n \in Counts, c \in Chars :
         IF pos > Len(text) THEN insert_fill(text, pos, n, c) = Threw(text)
         ELSE Agrees(insert_fill(text, pos, n, c), Spliced(pos, pos, Repeat(c, n)),
                     IF Len(text) + n = SIZE \/ n > SIZE
                     THEN Spliced(pos, pos, Repeat(c, SIZE - 1 - Len(text))) ELSE text)

\* What is erased is gone and the rest is left.  erase(pos, n) is basic_string's from
\* the beginning of the text only: elsewhere it erases up to place n, and not pos + n,
\* so that the pos characters from there on stand where none should be left.
ErasureAgrees ==
    /\ \A first, last \in Places :
         first <= last => Agrees(erase(text, first, last), Spliced(first, last, <<>>), text)
    /\ text # <<>> => Agrees(pop_back(text), Front(text), text)
    /\ \A pos, n \in Counts :
         LET e == AtMost(n, Len(text) - pos)
         IN  IF pos > Len(text) THEN erase_part(text, pos, n) = Threw(text)
             ELSE Agrees(erase_part(text, pos, n),
                         Spliced(pos, pos + e, SubSeq(text, e + 1, e + pos)), text)

\* What replaces a range stands in its place.  Between iterators the range has been
\* overwritten when the room for the rest turns out to be missing.
ReplacementAgrees ==
    /\ \A s \in Others, pos, n \in Counts :
         IF pos > Len(text) THEN replace(text, pos, n, s) = Threw(text)
         ELSE Agrees(replace(text, pos, n, s),
                     Spliced(pos, pos + AtMost(n, Len(text) - pos), s), text)
    /\ \A s \in Strings, pos1, n1, pos2, n2 \in Counts :
         IF pos1 > Len(text) \/ pos2 > Len(s)
         THEN replace_part(text, pos1, n1, s, pos2, n2) = Threw(text)
         ELSE Agrees(replace_part(text, pos1, n1, s, pos2, n2),
                     Spliced(pos1, pos1 + AtMost(n1, Len(text) - pos1), Part(s, pos2, n2)), text)
    /\ \A s \in Others, first, last \in Places : first <= last =>
         /\ Agrees(replace_range(text, first, last, s), Spliced(first, last, s),
                   Overwritten(text, first, SubSeq(s, 1, last - first)))
         /\ replace_input(text, first, last, s) = replace_range(text, first, last, s)

\* swap exchanges the texts.
SwapAgrees == \A s \in Strings : swap(text, s) = <<s, text>>

\* The edits of xstring.h have the effect that basic_string defines for them while the
\* result is shorter than the buffer.  Otherwise they may throw, and what is left of
\* the text then is what the parts say, or run over the end of the buffer.  The one
\* whose effect is another is erase(pos, n) with pos above 0.
EditsAgree ==
    /\ ConstructionAgrees /\ AppendingAgrees /\ InsertionAgrees
    /\ ErasureAgrees /\ ReplacementAgrees /\ SwapAgrees
==================================================================================
