---------------------------- MODULE StreamChain ----------------------------
(***************************************************************************)
(* The write side of a chain of decorated streams (source/stream.c and    *)
(* the TLS layer of source/stream_ssl.c): a base stream "top" decorating  *)
(* either a TLS stream "tls" over the socket stream "sock", or "sock"     *)
(* directly.  Each layer owns an outgoing queue of slices; the socket     *)
(* writes into a kernel send buffer of Cap bytes that the peer drains.    *)
(*                                                                         *)
(* One thread owns the chain (the application and the poller loop); the   *)
(* peer runs in another process, so its steps interleave with the        *)
(* owner's, a flush in progress included.  A call                         *)
(* of the library is one atomic step, except stream_do_flush, whose loop  *)
(* is one step per iteration so that what can interleave with it shows.   *)
(*                                                                         *)
(* Bytes are tokens <<"app", m, i>> (byte i of application message m);   *)
(* the TLS handshake flights are tokens <<"hello", 0, i>> and <<"fin",... >>.  TLS     *)
(* records carry application tokens unchanged: encryption is abstracted.  *)
(***************************************************************************)
EXTENDS Integers, Sequences, SequencesExt

CONSTANTS UseTls,     \* TRUE: top decorates tls decorates sock
          Cap,        \* size of the kernel send buffer, in bytes
          MsgLen,     \* sequence of the lengths of the messages written
          HelloLen,   \* ClientHello, written by stream_ssl_connect
          FinLen,     \* the client's last handshake flight
          AllowFailure \* the connection may be reset by the peer

Chain == IF UseTls THEN <<"top", "tls", "sock">> ELSE <<"top", "sock">>
Layers == ToSet(Chain)
NoLayer == "none"

\* self->decorated, set by stream_init
Decorated(l) == CASE l = "sock"           -> NoLayer
                  [] l = "top" /\ UseTls  -> "tls"
                  [] OTHER                -> "sock"

\* The bytes of message m, and of the two handshake flights.
Payload(m) == [i \in 1..MsgLen[m] |-> <<"app", m, i>>]
Hello == [i \in 1..HelloLen |-> <<"hello", 0, i>>]
Fin == [i \in 1..FinLen |-> <<"fin", 0, i>>]
IsAppByte(b) == b[1] = "app"
AppBytes(s) == SelectSeq(s, IsAppByte)

\* The state of the chain and of the socket under it.
\*   q[l]   outgoing queue of layer l, a sequence of slices
\*   ready  SSL_is_init_finished: the TLS stream's status is READY
\*   hs     the server's handshake flight is in the receive buffer
\*   kbuf   bytes in the kernel send buffer, not yet read by the peer
\*   recv   bytes the peer has read
\*   broken the connection was reset: every write(fd) fails
\*   errno  the thread's errno
VARIABLES st, accepted, next, flushAt, flushRet

vars == <<st, accepted, next, flushAt, flushRet>>

Errnos == {"NONE", "EAGAIN", "EPIPE"}
Result(s, r) == [s |-> s, ret |-> r]
SetErrno(s, e) == [s EXCEPT !.errno = e]
Queue(s, l, buf) == [s EXCEPT !.q[l] = Append(@, buf)]    \* stream_queue_outgoing_data
Status(s, l) == IF l = "tls" /\ ~s.ready THEN "INIT" ELSE "READY"

\* F applied to the result of a call, the call evaluated once.  TLC
\* evaluates a LET definition or an argument again at each of its uses
\* when it computes ENABLED for the fairness conditions; a variable bound
\* by a set is evaluated once, which keeps the nested write path linear.
WithResult(call, F(_)) == CHOOSE v \in {F(r) : r \in {call}} : TRUE

\* write(self->fd, ...) in stream_real_write: the kernel takes what fits.
KernelWrite(s, buf) ==
    LET k == Min({Cap - Len(s.kbuf), Len(buf)}) IN
    CASE s.broken -> Result(SetErrno(s, "EPIPE"), -1)
      [] k = 0    -> Result(SetErrno(s, "EAGAIN"), -1)
      [] OTHER    -> Result([s EXCEPT !.kbuf = @ \o SubSeq(buf, 1, k)], k)

RECURSIVE StreamWrite(_, _, _), RealWrite(_, _, _), SslDoWrite(_, _),
          Handshake(_)

\* Mutant: the remainder is queued whenever ret <= length, so a write
\* taken whole leaves an empty slice behind.
DoWriteEmptySlice(s, l, buf) ==
    IF s.q[l] # <<>> THEN Result(Queue(s, l, buf), Len(buf))
    ELSE WithResult(RealWrite(s, l, buf), LAMBDA r :
         CASE r.ret < 0 /\ r.s.errno = "EAGAIN" ->
                    Result(Queue(r.s, l, buf), Len(buf))
           [] r.ret < 0 -> r
           [] OTHER ->
                    Result(Queue(r.s, l, SubSeq(buf, r.ret + 1, Len(buf))), Len(buf)))

\* stream_do_write: a stream with queued data queues; otherwise it writes
\* through, queues what was not taken, and reports the whole length
\* unless the write failed with an error other than EAGAIN.
DoWrite(s, l, buf) ==
    IF s.q[l] # <<>> THEN Result(Queue(s, l, buf), Len(buf))
    ELSE WithResult(RealWrite(s, l, buf), LAMBDA r :
         CASE r.ret < 0 /\ r.s.errno = "EAGAIN" ->
                    Result(Queue(r.s, l, buf), Len(buf))
           [] r.ret < 0 -> r
           [] r.ret < Len(buf) ->
                    Result(Queue(r.s, l, SubSeq(buf, r.ret + 1, Len(buf))), Len(buf))
           [] OTHER -> Result(r.s, Len(buf)))

\* stream_real_write: write into the decorated stream, or into the fd.
RealWrite(s, l, buf) ==
    IF Decorated(l) = NoLayer THEN KernelWrite(s, buf)
    ELSE StreamWrite(s, Decorated(l), buf)

\* stream_write: the virtual write of the TLS class or of the base class.
StreamWrite(s, l, buf) ==
    IF l = "tls" THEN SslDoWrite(s, buf) ELSE DoWrite(s, l, buf)

\* bio_stream_ssl_write hands a record to the decorated socket stream.
\* SSL_write returns it, or maps a failed BIO write (no retry flag) to
\* SSL_ERROR_SYSCALL, which stream_ssl_do_write returns as 0.
SslWrite(s, buf) ==
    WithResult(StreamWrite(s, "sock", buf), LAMBDA r :
        IF r.ret > 0 THEN r ELSE Result(r.s, 0))

\* BIO_CTRL_FLUSH in bio_stream_ssl_ctrl, which OpenSSL issues after
\* writing a handshake flight: stream_flush of the TLS stream, whose own
\* queue is empty, flushes the socket stream, and stream_do_flush loops on
\* EAGAIN until its queue is in the kernel buffer.  The peer reads while
\* it spins; the state kept is the one where it read no more than the loop
\* needed (PeerRead steps after it give the others).  The result is
\* ignored (ret = 1).
BioFlush(s) ==
    LET all == s.kbuf \o FlattenSeq(s.q["sock"])
        n == Len(all) - Min({Cap, Len(all)})
    IN [s EXCEPT !.q["sock"] = <<>>, !.kbuf = SubSeq(all, n + 1, Len(all)),
                 !.recv = @ \o SubSeq(all, 1, n)]

\* stream_ssl_do_handshake: SSL_do_handshake reads through the BIO; on a
\* reset connection the read fails (SYSCALL, 0).  Without the server's
\* flight it wants to read (errno EAGAIN, -1); with it the client writes
\* its last flight, flushes the BIO and is done, unless that write fails
\* (SYSCALL, 0).
Handshake(s) ==
    IF s.broken THEN Result(s, 0)
    ELSE IF ~s.hs THEN Result(SetErrno(s, "EAGAIN"), -1)
    ELSE WithResult(SslWrite(s, Fin), LAMBDA r :
         IF r.ret = 0 THEN r ELSE Result([BioFlush(r.s) EXCEPT !.ready = TRUE], 1))

\* stream_ssl_do_write
SslDoWrite(s, buf) ==
    IF ~s.ready THEN WithResult(Handshake(s), LAMBDA h :
                        IF h.ret <= 0 THEN h ELSE SslWrite(h.s, buf))
    ELSE SslWrite(s, buf)

\* Mutant: a partly written slice is kept whole (no buffer_cut).
RECURSIVE DrainQueueNoCut(_, _, _)
DrainQueueNoCut(s, l, written) ==
    IF s.q[l] = <<>> THEN Result(s, written)
    ELSE LET slice == Head(s.q[l]) IN
         WithResult(RealWrite(s, l, slice), LAMBDA r :
            CASE r.ret <= 0 -> r
              [] r.ret < Len(slice) -> Result(r.s, written + r.ret)
              [] OTHER -> DrainQueueNoCut([r.s EXCEPT !.q[l] = Tail(@)], l, written + r.ret))

\* The loop of stream_handle_outgoing_data over the queue of layer l:
\* write the head slice, stop on a result <= 0 or when the slice was only
\* partly taken (buffer_cut), and add what was taken to written.
RECURSIVE DrainQueue(_, _, _)
DrainQueue(s, l, written) ==
    IF s.q[l] = <<>> THEN Result(s, written)
    ELSE LET slice == Head(s.q[l]) IN
         WithResult(RealWrite(s, l, slice), LAMBDA r :
            CASE r.ret <= 0 -> r
              [] r.ret < Len(slice) ->
                   Result([r.s EXCEPT !.q[l] =
                              <<SubSeq(slice, r.ret + 1, Len(slice))>> \o Tail(@)],
                          written + r.ret)
              [] OTHER -> DrainQueue([r.s EXCEPT !.q[l] = Tail(@)], l, written + r.ret))

\* stream_handle_outgoing_data: the decorated stream first; its result,
\* whatever its sign, is where written starts.
RECURSIVE HandleOutgoing(_, _)
HandleOutgoing(s, l) ==
    WithResult(IF Decorated(l) = NoLayer THEN Result(s, 0)
               ELSE HandleOutgoing(s, Decorated(l)),
               LAMBDA d : DrainQueue(d.s, l, d.ret))

\* Mutant: only the stream's own queue asks for write interest.
HasOutgoingOwnOnly(s, l) == s.q[l] # <<>>

\* stream_has_outgoing_data: the own queue counts only when there is no
\* decorated stream or the decorated stream is READY.
RECURSIVE HasOutgoing(_, _)
HasOutgoing(s, l) ==
    \/ /\ Decorated(l) = NoLayer \/ Status(s, Decorated(l)) = "READY"
       /\ s.q[l] # <<>>
    \/ Decorated(l) # NoLayer /\ HasOutgoing(s, Decorated(l))

Idle == flushAt = "idle"                \* the owning thread is not in a flush

Init ==
    /\ st = [q |-> [l \in Layers |-> <<>>], ready |-> ~UseTls, hs |-> FALSE,
             kbuf |-> IF UseTls THEN Hello ELSE <<>>, recv |-> <<>>,
             broken |-> FALSE, errno |-> "NONE"]
    /\ accepted = <<>>
    /\ next = 1
    /\ flushAt = "idle"
    /\ flushRet = 1

\* The application writes its next message into the top stream
\* (stream_write_impl = stream_do_write); a write reporting the whole
\* length is accepted.
AppWrite ==
    /\ Idle /\ next <= Len(MsgLen)
    /\ LET r == DoWrite(st, "top", Payload(next)) IN
       /\ st' = r.s
       /\ accepted' = IF r.ret = MsgLen[next] THEN accepted \o Payload(next)
                      ELSE accepted
    /\ next' = next + 1
    /\ UNCHANGED <<flushAt, flushRet>>

\* The application calls stream_flush on the top stream.
AppFlush ==
    /\ Idle
    /\ flushAt' = "top"
    /\ UNCHANGED <<st, accepted, next, flushRet>>

\* One iteration of stream_do_flush at layer flushAt: drain the queue
\* through stream_handle_outgoing_data until it is empty, returning 0 or a
\* non-EAGAIN error at once; an empty queue passes the flush down to the
\* decorated stream, and the socket stream returns 1.
FlushStep ==
    /\ ~Idle
    /\ IF st.q[flushAt] = <<>>
       THEN /\ flushAt' = IF Decorated(flushAt) = NoLayer THEN "idle"
                          ELSE Decorated(flushAt)
            /\ flushRet' = IF Decorated(flushAt) = NoLayer THEN 1 ELSE flushRet
            /\ UNCHANGED st
       ELSE \E r \in {HandleOutgoing(st, flushAt)} :
            /\ st' = r.s
            /\ IF r.ret = 0 \/ (r.ret < 0 /\ r.s.errno # "EAGAIN")
               THEN flushAt' = "idle" /\ flushRet' = r.ret
               ELSE UNCHANGED <<flushAt, flushRet>>
    /\ UNCHANGED <<accepted, next>>

\* The poller reports the socket writable and the chain asks for write
\* interest (idler_prepare); the owner drains it once.
OwnerDrain ==
    /\ Idle
    /\ HasOutgoing(st, "top")
    /\ Len(st.kbuf) < Cap \/ st.broken
    /\ st' = HandleOutgoing(st, "top").s
    /\ UNCHANGED <<accepted, next, flushAt, flushRet>>

\* The socket is readable while the handshake is pending; the owner reads
\* the TLS stream, and stream_ssl_do_read runs the handshake.
TlsRead ==
    /\ Idle /\ UseTls
    /\ ~st.ready /\ st.hs
    /\ st' = Handshake(st).s
    /\ UNCHANGED <<accepted, next, flushAt, flushRet>>

\* The peer reads some of the kernel buffer of a live connection.
PeerRead ==
    /\ ~st.broken
    /\ \E k \in 1..Len(st.kbuf) :
         st' = [st EXCEPT !.recv = @ \o SubSeq(st.kbuf, 1, k),
                          !.kbuf = SubSeq(@, k + 1, Len(@))]
    /\ UNCHANGED <<accepted, next, flushAt, flushRet>>

\* The server, having read the ClientHello, sends its handshake flight.
PeerHandshake ==
    /\ UseTls
    /\ ~st.hs /\ IsPrefix(Hello, st.recv)
    /\ st' = [st EXCEPT !.hs = TRUE]
    /\ UNCHANGED <<accepted, next, flushAt, flushRet>>

\* The peer resets the connection.
PeerReset ==
    /\ AllowFailure /\ ~st.broken
    /\ st' = [st EXCEPT !.broken = TRUE]
    /\ UNCHANGED <<accepted, next, flushAt, flushRet>>

Next ==
    \/ AppWrite \/ AppFlush \/ FlushStep \/ OwnerDrain \/ TlsRead
    \/ PeerRead \/ PeerHandshake \/ PeerReset

\* The owner's loop returns to the poller between calls, so an owner step
\* enabled whenever the thread is idle is taken (strong fairness); the
\* peer process and a started flush loop progress (weak fairness).
Fairness ==
    /\ WF_vars(FlushStep) /\ WF_vars(PeerRead) /\ WF_vars(PeerHandshake)
    /\ SF_vars(OwnerDrain) /\ SF_vars(TlsRead)

Spec == Init /\ [][Next]_vars
FairSpec == Spec /\ Fairness

-----------------------------------------------------------------------------
Byte == ({"app"} \X (DOMAIN MsgLen) \X Nat) \cup ({"hello", "fin"} \X {0} \X Nat)

TypeOK ==
    /\ st.q \in [Layers -> Seq(Seq(Byte))]
    /\ \A l \in Layers : \A i \in DOMAIN st.q[l] : st.q[l][i] # <<>>
    /\ st.ready \in BOOLEAN /\ st.hs \in BOOLEAN /\ st.broken \in BOOLEAN
    /\ st.kbuf \in Seq(Byte) /\ Len(st.kbuf) <= Cap
    /\ st.recv \in Seq(Byte) /\ st.errno \in Errnos
    /\ next \in 1..Len(MsgLen) + 1
    /\ flushAt \in Layers \cup {"idle"}
    /\ flushRet \in {-1, 0, 1}

\* Everything queued along the chain, the socket's queue first.
Queued == FlattenSeq([i \in 1..Len(Chain) |->
                        FlattenSeq(st.q[Chain[Len(Chain) + 1 - i]])])

\* Write preservation (spec.md invariant 2): the application bytes the
\* peer read, those in the kernel and those queued in the socket, TLS and
\* top streams, in that order, are exactly the bytes of the writes the
\* chain accepted; stream_do_write, stream_handle_outgoing_data and the TLS
\* write path never lose, repeat or reorder a byte, even across partial
\* writes, EAGAIN, handshake flights and a reset connection.
WritePreserved == AppBytes(st.recv \o st.kbuf \o Queued) = accepted

\* The chain implements a plain byte stream: ByteStream with the accepted
\* writes as its sent sequence and the application bytes the peer read as
\* its received sequence and the reset as its failure, including its
\* fairness: absent a reset, every accepted byte reaches the peer when the
\* owner serves the poller.
Abstract == INSTANCE ByteStream WITH
                sent <- accepted, received <- AppBytes(st.recv),
                failed <- st.broken,
                Data <- {Payload(m) : m \in DOMAIN MsgLen}
ImplementsByteStream == Abstract!Spec

=============================================================================
