------------------------------- MODULE Buffer -------------------------------
(***************************************************************************)
(* The byte buffer of source/buffer.c and include/mx/buffer.h.  A buffer   *)
(* is struct buffer: the allocation mem (offsets 0..size-1), the offset of *)
(* the data pointer into it (start) and the length of the data.  Bytes     *)
(* that were allocated but never written are Uninit: reading them is a    *)
(* read of uninitialized memory.                                           *)
(***************************************************************************)
EXTENDS Integers, Sequences

Uninit == -1

\* The byte at offset i of the allocation; past its end nothing was
\* written there by the buffer.
Mem(b, i) == IF i \in DOMAIN b.mem THEN b.mem[i] ELSE Uninit

\* buffer_init: xmalloc(size), data at the start, empty.
BufferInit(size) ==
    [mem |-> [i \in 0..(size - 1) |-> Uninit], start |-> 0, length |-> 0, size |-> size]

\* The length bytes at the data pointer.
BufferData(b) == [i \in 1..b.length |-> Mem(b, b.start + i - 1)]

\* buffer_rewind: memmove the data to the start of the allocation.
BufferRewind(b) ==
    IF b.start = 0 THEN b
    ELSE [b EXCEPT !.mem = [i \in DOMAIN @ |->
                              IF i < b.length THEN Mem(b, b.start + i) ELSE @[i]],
                   !.start = 0]

\* The growth branch of buffer_resize: xrealloc to length + n bytes, which
\* keeps the old bytes and leaves the new ones uninitialized.
BufferGrow(b, n) ==
    IF b.size >= b.length + n THEN b
    ELSE [b EXCEPT !.size = b.length + n,
                   !.mem = [i \in 0..(b.length + n - 1) |-> Mem(b, i)]]

\* Mutant: resize grows without rewinding first.
BufferResizeNoRewind(b, n) == BufferGrow(b, n)

\* buffer_resize: rewind, then make room for n more bytes.
BufferResize(b, n) == BufferGrow(BufferRewind(b), n)

\* The memcpy of buffer_append to data + length, and the new length.
CopyIn(b, data) ==
    [b EXCEPT !.mem = [i \in DOMAIN @ |->
                         IF b.start + b.length <= i /\ i < b.start + b.length + Len(data)
                         THEN data[i - b.start - b.length + 1] ELSE @[i]],
              !.length = @ + Len(data)]

\* buffer_append
BufferAppend(b, data) == CopyIn(BufferResize(b, Len(data)), data)

\* buffer_cut: advance the data pointer by n bytes.
BufferCut(b, n) == [b EXCEPT !.start = @ + n, !.length = @ - n]

\* buffer_reset: the data pointer back to the allocation, empty.
BufferReset(b) == [b EXCEPT !.start = 0, !.length = 0]

\* buffer_is_empty
BufferIsEmpty(b) == b.length = 0

\* buffer_clean: the allocation freed, alloc and data NULL, nothing held.
BufferClean(b) == [mem |-> [i \in {} |-> Uninit], start |-> 0, length |-> 0, size |-> 0]

\* Mutant: buffer_take copies the chunk out but does not cut it.
BufferTakeNoCut(b, n) ==
    LET chunk == IF b.length < n THEN b.length ELSE n
    IN [got |-> SubSeq(BufferData(b), 1, chunk), buf |-> b]

\* buffer_take: MIN(length, len) bytes copied out from the data pointer
\* and cut; the bytes and the buffer after the call.
BufferTake(b, n) ==
    LET chunk == IF b.length < n THEN b.length ELSE n
    IN [got |-> SubSeq(BufferData(b), 1, chunk),
        buf |-> IF chunk > 0 THEN BufferCut(b, chunk) ELSE b]

\* buffer_copy(self, other): resize self for other's length (rewinding
\* it), memcpy other's data to self's data pointer, take other's length.
BufferCopy(b, o) ==
    LET r == BufferResize(b, o.length)
    IN [r EXCEPT !.mem = [i \in DOMAIN @ |-> IF i < o.length THEN Mem(o, o.start + i) ELSE @[i]],
                 !.length = o.length]

-----------------------------------------------------------------------------
(* Scripts of appends and takes on one buffer (spec.md 8, property 1).    *)

BufferChunks == {<<1>>, <<2, 3>>}
TakeLengths == {1, 2}

\* After appends of BufferChunks and takes of TakeLengths, n calls more,
\* from buffer b into which "appended" went and out of which "taken" came:
\* the taken bytes are the prefix of the appended ones, the buffer holds
\* the rest, and a copy of it into a fresh, a cleaned and a cut buffer
\* holds the same bytes.
RECURSIVE TakeScripts(_, _, _, _)
TakeScripts(b, appended, taken, n) ==
    /\ taken \o BufferData(b) = appended
    /\ \A t \in {BufferInit(1), BufferClean(BufferInit(1)),
                 BufferCut(BufferAppend(BufferInit(2), <<9, 9>>), 1)} :
          BufferData(BufferCopy(t, b)) = BufferData(b)
    /\ n > 0 =>
         /\ \A d \in BufferChunks :
               TakeScripts(BufferAppend(b, d), appended \o d, taken, n - 1)
         /\ \A k \in TakeLengths :
               LET r == BufferTake(b, k) IN TakeScripts(r.buf, appended, taken \o r.got, n - 1)

=============================================================================
