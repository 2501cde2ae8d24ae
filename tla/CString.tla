------------------------------- MODULE CString --------------------------------
(***************************************************************************)
(* The C-string primitives of source/string.c over byte arrays: a buffer  *)
(* is a sequence of characters, ChNul ends a string, and the string at    *)
(* position p is what precedes the first ChNul from p.  A write past the   *)
(* end of a buffer extends the sequence, so an overflow shows as a buffer  *)
(* longer than it was allocated.  Characters are a few small integers.    *)
(***************************************************************************)
EXTENDS Integers, Sequences, SequencesExt

ChNul == 0
ChA == 1
ChB == 2
ChSemi == 3          \* ';'
ChSlash == 4         \* '/'
ChJunk == 9          \* a byte nothing wrote

\* The C string held by buffer b from position p (b holds a ChNul there
\* or after).
CStrAt(b, p) == SubSeq(b, p, SelectInSubSeq(b, p, Len(b), LAMBDA c : c = ChNul) - 1)
CStr(b) == CStrAt(b, 1)

\* memcpy/memset of vals into b at position at.
Store(b, at, vals) ==
    LET n == IF at + Len(vals) - 1 > Len(b) THEN at + Len(vals) - 1 ELSE Len(b)
    IN [k \in 1..n |-> IF k >= at /\ k < at + Len(vals) THEN vals[k - at + 1] ELSE b[k]]

Zeros(n) == [k \in 1..n |-> ChNul]

\* xstrcpy(dst + at - 1, src) of the string s: its bytes and the NUL; the
\* position of the NUL written.
XStrCpy(dst, at, s) == [buf |-> Store(dst, at, s \o <<ChNul>>), ret |-> at + Len(s)]

\* xstrncpy(dst + at - 1, src, maxlen): the bytes before a NUL that memchr
\* finds within maxlen, and NULs to maxlen; or maxlen bytes.  The position
\* after the last byte of the string.
XStrNCpy(dst, at, src, maxlen) ==
    LET p == SelectInSubSeq(src, 1, IF maxlen < Len(src) THEN maxlen ELSE Len(src),
                            LAMBDA c : c = ChNul)
    IN IF p # 0
       THEN [buf |-> Store(dst, at, SubSeq(src, 1, p - 1) \o Zeros(maxlen - (p - 1))),
             ret |-> at + p - 1]
       ELSE [buf |-> Store(dst, at, SubSeq(src, 1, maxlen)), ret |-> at + maxlen]

\* Mutant: the truncation test of xstrlcpy off by one (ret > size).
XStrLCpyOffByOne(dst, src, size) ==
    LET ret == Len(CStr(src))
        len == IF ret > size THEN size - 1 ELSE ret
    IN [buf |-> IF size # 0 THEN Store(dst, 1, SubSeq(src, 1, len) \o <<ChNul>>) ELSE dst,
        ret |-> ret]

\* xstrlcpy(dst, src, size): at most size - 1 bytes and a NUL when size is
\* not 0; strlen(src).
XStrLCpy(dst, src, size) ==
    LET ret == Len(CStr(src))
        len == IF ret >= size THEN size - 1 ELSE ret
    IN [buf |-> IF size # 0 THEN Store(dst, 1, SubSeq(src, 1, len) \o <<ChNul>>) ELSE dst,
        ret |-> ret]

\* xstrjoinex(buffer, first, second, third) on a buffer xrealloc gives the
\* computed length: xstrcpy of each string after the previous; third may be
\* NULL (the empty sequence set apart by hasThird).
XStrJoin(first, second, third, hasThird) ==
    LET size == Len(first) + Len(second) + 1 + (IF hasThird THEN Len(third) ELSE 0)
        b0 == [k \in 1..size |-> ChJunk]
        r1 == XStrCpy(b0, 1, first)
        r2 == XStrCpy(r1.buf, r1.ret, second)
    IN IF hasThird THEN XStrCpy(r2.buf, r2.ret, third).buf ELSE r2.buf

\* xstrstarts and xstrends
XStrStarts(s, prefix) ==
    IF Len(s) < Len(prefix) THEN FALSE ELSE SubSeq(s, 1, Len(prefix)) = prefix
XStrEnds(s, postfix) ==
    IF Len(s) < Len(postfix) THEN FALSE
    ELSE SubSeq(s, Len(s) - Len(postfix) + 1, Len(s)) = postfix

-----------------------------------------------------------------------------
(* struct xstrtok over the string s: prev_chunk a position in s (0 for    *)
(* NULL, Len(s) + 1 for its NUL) and the chunk buffer last filled.        *)

NoToken == [none |-> TRUE]

\* xstrtok_new
XStrTokNew == [prev |-> 1, chunk |-> <<>>]

\* strchr(prev_chunk, c): the position of c in s from p, or 0.
StrChrFrom(s, p, c) == SelectInSubSeq(s, p, Len(s), LAMBDA x : x = c)

\* Mutant: the longest chunk kept (tmp > separator).
XStrTokNextLongest(tk, s, seps) ==
    LET step(sep, c) == LET tmp == StrChrFrom(s, tk.prev, c)
                        IN IF tmp = 0 THEN sep ELSE IF sep = 0 \/ tmp > sep THEN tmp ELSE sep
        separator == FoldLeft(step, 0, seps)
    IN CASE tk.prev = 0 -> [tk |-> tk, ret |-> NoToken]
         [] separator # 0 ->
              LET chunk == SubSeq(s, tk.prev, separator - 1)
              IN [tk |-> [prev |-> separator + 1, chunk |-> chunk], ret |-> [token |-> chunk]]
         [] OTHER -> [tk |-> [tk EXCEPT !.prev = 0], ret |-> [token |-> SubSeq(s, tk.prev, Len(s))]]

\* xstrtok_next(tkzr, separators): the nearest of the separators' first
\* occurrences, each found by strchr in the order given; the chunk before
\* it copied to the chunk buffer, prev_chunk after it; without one, the
\* rest of the string and prev_chunk NULL; after that, NULL.
XStrTokNext(tk, s, seps) ==
    LET step(sep, c) == LET tmp == StrChrFrom(s, tk.prev, c)
                        IN IF tmp = 0 THEN sep ELSE IF sep = 0 \/ tmp < sep THEN tmp ELSE sep
        separator == FoldLeft(step, 0, seps)
    IN CASE tk.prev = 0 -> [tk |-> tk, ret |-> NoToken]
         [] separator # 0 ->
              LET chunk == SubSeq(s, tk.prev, separator - 1)
              IN [tk |-> [prev |-> separator + 1, chunk |-> chunk], ret |-> [token |-> chunk]]
         [] OTHER -> [tk |-> [tk EXCEPT !.prev = 0], ret |-> [token |-> SubSeq(s, tk.prev, Len(s))]]

-----------------------------------------------------------------------------
(* Reference meanings, over every input of a bound.                        *)

TokSeparators == {<<ChSemi>>, <<ChSlash, ChSemi>>, <<ChSemi, ChSlash>>}

\* Every sequence of n calls or fewer of xstrtok_next on s, with any of
\* TokSeparators at each call, from a tokenizer whose unread text is rest
\* (or, when done, that gave all of it): each call returns the text up to
\* the first character of rest that is one of its separators, or all of
\* rest, and NULL ever after.
RECURSIVE TokScripts(_, _, _, _, _)
TokScripts(s, tk, rest, done, n) ==
    n > 0 =>
    \A seps \in TokSeparators :
       LET r == XStrTokNext(tk, s, seps)
           cut == SelectInSeq(rest, LAMBDA c : c \in ToSet(seps))
       IN CASE done -> r.ret = NoToken /\ TokScripts(s, r.tk, rest, TRUE, n - 1)
            [] cut = 0 -> r.ret = [token |-> rest] /\ TokScripts(s, r.tk, <<>>, TRUE, n - 1)
            [] OTHER -> /\ r.ret = [token |-> SubSeq(rest, 1, cut - 1)]
                        /\ TokScripts(s, r.tk, SubSeq(rest, cut + 1, Len(rest)), FALSE, n - 1)

\* The copies, joins and tests on the string src holds (with junk after
\* its NUL), into destinations of every size up to maxSize: xstrlcpy stays
\* inside its size, truncates to size - 1 and returns strlen; xstrncpy,
\* twice in a row as the tests do, writes exactly maxlen bytes each and
\* leaves the string's first bytes; xstrcpy and xstrjoin write the
\* strings; xstrstarts and xstrends say whether the prefix or suffix is one.
CopiesAsSpecified(src, others, maxSize) ==
    LET s == CStr(src) IN
    /\ \A size \in 0..maxSize :
          LET dst == [k \in 1..size |-> ChJunk]
              l == XStrLCpy(dst, src, size)
          IN /\ l.ret = Len(s) /\ Len(l.buf) = size
             /\ size > 0 => CStr(l.buf) = SubSeq(s, 1, IF Len(s) < size THEN Len(s) ELSE size - 1)
    /\ \A k \in 0..Len(s), m \in 0..maxSize :
          LET dst == [i \in 1..k + m |-> ChJunk]
              a == XStrNCpy(dst, 1, src, k)
              b == XStrNCpy(a.buf, a.ret, SubSeq(src, k + 1, Len(src)), m)
              n == IF Len(s) < k + m THEN Len(s) ELSE k + m
          IN /\ Len(b.buf) = k + m
             /\ SubSeq(b.buf, 1, n) = SubSeq(s, 1, n)
             /\ SubSeq(b.buf, n + 1, k + m) = Zeros(k + m - n)
             /\ b.ret = 1 + n
    /\ CStr(XStrCpy(<<ChJunk, ChJunk, ChJunk, ChJunk>>, 1, s).buf) = s
    /\ \A o \in others :
          /\ CStr(XStrJoin(s, o, <<>>, FALSE)) = s \o o
          /\ Len(XStrJoin(s, o, s, TRUE)) = 2 * Len(s) + Len(o) + 1
          /\ CStr(XStrJoin(s, o, s, TRUE)) = s \o o \o s
          /\ XStrStarts(s, o) = IsPrefix(o, s)
          /\ XStrEnds(s, o) = IsSuffix(o, s)
=============================================================================
