--------------------------------- MODULE Text ---------------------------------
(***************************************************************************)
(* C strings and the scanners of source/string.c, at the level of atoms.  *)
(*                                                                         *)
(* A text is a sequence of atoms.  An atom is a separator (space, tab,    *)
(* CR, LF, colon, slash, '@', '?') or a word: a run of printable          *)
(* characters that no separator splits, kept as its lower-case spelling   *)
(* and a case variant.  Every name a scanner looks for is a sequence of   *)
(* whole atoms, so comparing atoms compares the characters: a name that   *)
(* extends another (Sec-WebSocket-Key1, mqtts) is the other's atoms       *)
(* followed by more.  A position is an index into the text; Len + 1 is    *)
(* the terminating NUL, 0 is NULL.                                        *)
(***************************************************************************)
EXTENDS Integers, Sequences

Atom(base, variant) == <<base, variant>>
\* The base of a word is its lower-case spelling; variant 1 is the
\* spelling the library writes, other variants are other clients' cases.
W(base) == Atom(base, 1)
SP == Atom("SP", 0)
HT == Atom("HT", 0)
CR == Atom("CR", 0)
LF == Atom("LF", 0)
COLON == Atom(":", 0)
SLASH == Atom("/", 0)
AT == Atom("@", 0)
QMARK == Atom("?", 0)
NUL == Atom("NUL", 0)

\* isgraph: anything but a blank or a line end.
IsGraph(a) == a \notin {SP, HT, CR, LF, NUL}

\* tolower, as strncasecmp applies it.
Fold(a) == a[1]

\* The character at position i of t.
Char(t, i) == IF i \in 1..Len(t) THEN t[i] ELSE NUL

\* strstr(t + from, pat): the first position at or after from, or 0.
StrStr(t, from, pat) ==
    LET I == {i \in from..Len(t) - Len(pat) + 1 :
                 SubSeq(t, i, i + Len(pat) - 1) = pat}
    IN IF I = {} THEN 0 ELSE CHOOSE i \in I : \A j \in I : i <= j

\* strchr(t + from, c) for c not NUL.
StrChr(t, from, c) == StrStr(t, from, <<c>>)

\* xstr_space_len(t + i, chars): how many characters of chars start there;
\* with chars NULL ({}), how many non-printable ones.
RECURSIVE XStrSpaceLen(_, _, _)
XStrSpaceLen(t, i, chars) ==
    IF Char(t, i) = NUL THEN 0
    ELSE IF (chars = {} /\ ~IsGraph(Char(t, i))) \/ Char(t, i) \in chars
         THEN 1 + XStrSpaceLen(t, i + 1, chars)
         ELSE 0

\* xstr_word_len(t + i, chars): the characters before the first of chars,
\* or with chars NULL ({}) before the first non-printable one.
RECURSIVE XStrWordLen(_, _, _)
XStrWordLen(t, i, chars) ==
    IF Char(t, i) = NUL THEN 0
    ELSE IF (chars = {} /\ ~IsGraph(Char(t, i))) \/ Char(t, i) \in chars
         THEN 0
         ELSE 1 + XStrWordLen(t, i + 1, chars)

\* xstrltrim: skip the non-printable characters.
XStrLTrim(t, i) == i + XStrSpaceLen(t, i, {})
=============================================================================
