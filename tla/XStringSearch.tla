------------------------------- MODULE XStringSearch -------------------------------
(***************************************************************************)
(* The members of xstring.h that read: the find family, substr, copy, at   *)
(* and the comparisons.  Each is the guard and the iterators of the code   *)
(* over the standard algorithm it calls.                                   *)
(***************************************************************************)
EXTENDS XString

size(s) == Len(s)

\* std::search, std::find_if and std::find_end over [from, to) of s: a position, or
\* the end of the range.
MatchesAt(s, i, chars) == i + Len(chars) <= Len(s) /\ SubSeq(s, i + 1, i + Len(chars)) = chars
search(s, from, chars) ==
    Min({i \in from .. size(s) - Len(chars) : MatchesAt(s, i, chars)} \cup {size(s)})
find_end(s, last, chars) ==
    Max({i \in 0 .. last - Len(chars) : MatchesAt(s, i, chars)} \cup {-1})
find_if(s, from, Test(_)) == Min({i \in from .. size(s) - 1 : Test(s[i + 1])} \cup {size(s)})

\* The same over reverse iterators, from the one before last down; rend is -1.
rfind_if(s, last, Test(_)) == Max({i \in 0 .. last - 1 : Test(s[i + 1])} \cup {-1})

OrNpos(i, end) == IF i = end THEN npos ELSE i

\* The search starts outside the text.
Outside == -2

\* For pos near npos, pos + n wraps to a place in the text: the guard lets pos through.
find(s, chars, pos) ==
    IF (pos + Len(chars)) % W > size(s) THEN npos
    ELSE IF pos > size(s) THEN Outside
    ELSE OrNpos(search(s, pos, chars), size(s))
find_char(s, c, pos) ==
    IF pos >= size(s) THEN npos ELSE OrNpos(find_if(s, pos, LAMBDA x : x = c), size(s))

rfind(s, chars, pos) ==
    LET len == size(s)
        n == Len(chars)
    IN  IF n > len THEN npos
        ELSE IF n = 0 THEN AtMost(len, pos)
        ELSE OrNpos(find_end(s, AtMost(len - n, pos) + n, chars), -1)

\* Mutant: the character at pos is left out.
LastBeforePos(s, pos) == AtMost(size(s) - 1, pos)

\* Behind the last position a search from the end looks at.
LastAt(s, pos) == AtMost(size(s) - 1, pos) + 1

rfind_char(s, c, pos) ==
    IF size(s) < 1 THEN npos ELSE OrNpos(rfind_if(s, LastAt(s, pos), LAMBDA x : x = c), -1)

find_first_of(s, chars, pos) ==
    IF pos >= size(s) THEN npos
    ELSE OrNpos(find_if(s, pos, LAMBDA x : x \in ToSet(chars)), size(s))

find_last_of(s, chars, pos) ==
    IF size(s) < 1 THEN npos
    ELSE OrNpos(rfind_if(s, LastAt(s, pos), LAMBDA x : x \in ToSet(chars)), -1)

find_first_not_of(s, chars, pos) ==
    IF pos > size(s) THEN npos
    ELSE OrNpos(find_if(s, pos, LAMBDA x : x \notin ToSet(chars)), size(s))
find_first_not_of_char(s, c, pos) ==
    IF pos > size(s) THEN npos ELSE OrNpos(find_if(s, pos, LAMBDA x : x # c), size(s))

find_last_not_of(s, chars, pos) ==
    IF size(s) < 1 THEN npos
    ELSE OrNpos(rfind_if(s, LastAt(s, pos), LAMBDA x : x \notin ToSet(chars)), -1)
find_last_not_of_char(s, c, pos) ==
    IF size(s) < 1 THEN npos ELSE OrNpos(rfind_if(s, LastAt(s, pos), LAMBDA x : x # c), -1)
--------------------------------------------------------------------------------
(* Substrings and comparison *)

\* substr makes an xstring, which must be shorter than SIZE; copy does not.
substr(s, pos, n) == xstring(s, pos, n)
copy(s, n, pos) == IF pos > size(s) THEN Threw(<<>>) ELSE Returned(Part(s, pos, n))

\* Traits::compare of the first n characters: the sign of the first difference.
TraitsCompare(s, t, n) ==
    LET differ == {i \in 1 .. n : s[i] # t[i]}
    IN  IF differ = {} THEN 0 ELSE IF s[Min(differ)] < t[Min(differ)] THEN -1 ELSE 1

m_compare(s, t) ==
    LET cmp == TraitsCompare(s, t, AtMost(size(s), size(t)))
    IN  IF cmp # 0 THEN cmp
        ELSE IF size(s) < size(t) THEN -1 ELSE IF size(s) > size(t) THEN 1 ELSE 0

equal(s, t) == size(s) = size(t) /\ TraitsCompare(s, t, size(s)) = 0
unequal(s, t) == ~ equal(s, t)
less(s, t) == m_compare(s, t) < 0
greater(s, t) == less(t, s)
less_equal(s, t) == ~ less(t, s)
greater_equal(s, t) == ~ less(s, t)

\* operator+: a copy of the left string, to which the right one is appended.
plus(s, t) ==
    LET r == range_initialize(<<>>, s) IN IF r.out = "returned" THEN append(s, t) ELSE r
--------------------------------------------------------------------------------
(* Properties *)

\* What basic_string says of a search: the first position from pos on, or the last
\* one up to pos, where the text is as required; npos if there is none.
First(pos, n, Fits(_)) ==
    LET at == {i \in pos .. size(text) - n : Fits(i)} IN IF at = {} THEN npos ELSE Min(at)
Latest(pos, n, Fits(_)) ==
    LET at == {i \in 0 .. AtMost(pos, size(text) - n) : Fits(i)}
    IN  IF at = {} THEN npos ELSE Max(at)

\* From any position on, every search finds what basic_string's does, with two
\* exceptions: no empty string is found at the very end, and find of a string starts
\* outside the text from every position so near to npos that pos + n wraps to a
\* place in the text.
SearchesAgree ==
    \A s \in Strings, pos \in 0 .. npos :
        LET at(i) == text[i + 1]
            chars == ToSet(s)
        IN  /\ find(text, s, pos) =
                 IF pos + Len(s) \in W .. W + size(text) THEN Outside
                 ELSE IF s = <<>> /\ pos = size(text) THEN npos
                 ELSE First(pos, Len(s), LAMBDA i : MatchesAt(text, i, s))
            /\ rfind(text, s, pos) = Latest(pos, Len(s), LAMBDA i : MatchesAt(text, i, s))
            /\ find_first_of(text, s, pos) = First(pos, 1, LAMBDA i : at(i) \in chars)
            /\ find_last_of(text, s, pos) = Latest(pos, 1, LAMBDA i : at(i) \in chars)
            /\ find_first_not_of(text, s, pos) = First(pos, 1, LAMBDA i : at(i) \notin chars)
            /\ find_last_not_of(text, s, pos) = Latest(pos, 1, LAMBDA i : at(i) \notin chars)
            /\ Len(s) = 1 =>
                 /\ find_char(text, s[1], pos) = find(text, s, AtMost(pos, SIZE))
                 /\ rfind_char(text, s[1], pos) = rfind(text, s, pos)
                 /\ find_first_not_of_char(text, s[1], pos) = find_first_not_of(text, s, pos)
                 /\ find_last_not_of_char(text, s[1], pos) = find_last_not_of(text, s, pos)

\* The comparisons are one total order, the lexicographic one: with any other
\* string exactly one of <, == and > holds, what + makes is not less than its left
\* operand, and a substring that can be made is found where it was taken from; only
\* one that would fill the buffer cannot be made.
ComparisonsAgree ==
    \A s \in Strings :
        /\ less(text, s) = \E n \in 0 .. AtMost(size(text), size(s)) :
                              /\ SubSeq(text, 1, n) = SubSeq(s, 1, n)
                              /\ n < size(s)
                              /\ n < size(text) => text[n + 1] < s[n + 1]
        /\ equal(text, s) = (text = s)
        /\ unequal(text, s) = (less(text, s) \/ greater(text, s))
        /\ ~ (less(text, s) /\ greater(text, s))
        /\ less_equal(text, s) = (less(text, s) \/ equal(text, s))
        /\ greater_equal(text, s) = less_equal(s, text)
        /\ less_equal(text, plus(text, s).text) \/ plus(text, s).out # "returned"
        /\ \A pos \in Places, n \in 0 .. npos :
             LET sub == substr(text, pos, n)
             IN  IF sub.out = "returned"
                 THEN /\ sub = copy(text, n, pos)
                      /\ find(text, sub.text, pos) = pos \/ pos = size(text)
                 ELSE size(text) = SIZE /\ pos = 0 /\ n >= SIZE

\* What is read from a string is what basic_string would give, but for the cases that
\* the two parts name.
ReadsAgree == SearchesAgree /\ ComparisonsAgree
====================================================================================
