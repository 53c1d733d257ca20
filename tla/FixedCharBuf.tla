------------------------------- MODULE FixedCharBuf -------------------------------
(***************************************************************************)
(* fixed_char_buf.h: a text in a buffer of SIZE + 1 characters and a       *)
(* pointer to its end.  Positions count from 0.  An operation yields the   *)
(* text it leaves and how it ends: it is done, it threw, or it ran over    *)
(* the end of the buffer, after which nothing can be said of the program.  *)
(***************************************************************************)
EXTENDS Integers, Sequences

CONSTANT SIZE

ASSUME SizeAssumption == SIZE \in Nat \ {0}

Returned(text) == [text |-> text, out |-> "returned"]
Threw(text) == [text |-> text, out |-> "threw"]
Overrun(text) == [text |-> text, out |-> "overrun"]

Repeat(c, n) == [i \in 1 .. n |-> c]

element_initialize(text, n, c) == IF n > SIZE THEN Threw(text) ELSE Returned(Repeat(c, n))

\* A text of SIZE characters is refused here, although the buffer holds it.
range_initialize(text, chars) == IF Len(chars) >= SIZE THEN Threw(text) ELSE Returned(chars)

\* What a place of the buffer holds that no text has reached yet.
Unwritten == 0

\* The buffer when the tail from pos on has made room for xtra characters.  What
\* stands in the gap is what stood there before, if the text went that far.
Moved(text, pos, xtra) ==
    [i \in 1 .. Len(text) + xtra |->
        IF i > pos + xtra THEN text[i - xtra]
        ELSE IF i <= Len(text) THEN text[i] ELSE Unwritten]

\* The room left is looked at only when there is a tail to move.
insert(text, pos, chars) ==
    LET xtra == Len(chars)
        size == Len(text) + xtra
        moved == Moved(text, pos, xtra)
    IN  IF xtra = 0 THEN Returned(text)
        ELSE IF pos # Len(text) /\ size >= SIZE THEN Threw(text)
        ELSE IF size > SIZE THEN Overrun(text)
        ELSE Returned([i \in 1 .. size |->
                      IF i \in pos + 1 .. pos + xtra THEN chars[i - pos] ELSE moved[i]])

\* The characters first .. last - 1 of the text itself: they are read when the
\* tail has been moved.
insertOwn(text, pos, first, last) ==
    insert(text, pos, SubSeq(Moved(text, pos, last - first), first + 1, last))

\* The tail from last on is moved to first; with last before first that is up.
erase(text, first, last) ==
    LET rest == SubSeq(text, 1, first) \o SubSeq(text, last + 1, Len(text))
    IN  IF first = last THEN Returned(text)
        ELSE IF Len(rest) > SIZE THEN Overrun(text)
        ELSE Returned(rest)

\* All SIZE characters change places, and so do the lengths.
swap(text, other) ==
    LET cells(s) == [i \in 1 .. SIZE |-> IF i <= Len(s) THEN s[i] ELSE Unwritten]
    IN  <<SubSeq(cells(other), 1, Len(other)), SubSeq(cells(text), 1, Len(text))>>
===================================================================================
