-------------------------------- MODULE Idler --------------------------------
(***************************************************************************)
(* The poller of source/idler.c and the application loop that drives it   *)
(* (spec.md 4.10 and 5: wait, then per stream read-drain and write-drain). *)
(*                                                                         *)
(* The idler keeps its streams in a BSD LIST (queue.h): a head pointer and *)
(* one le_next pointer per stream.  LIST_REMOVE relinks the neighbours and *)
(* leaves the removed element's own le_next as it was, which is what lets *)
(* an iteration continue from a stream removed under it.  read_fds and     *)
(* write_fds are the fd_sets select() left behind.                         *)
(*                                                                         *)
(* A stream is abstracted to what the poller sees of it: whether its       *)
(* socket has data to read, whether its kernel send buffer has room, and   *)
(* how many slices stream_has_outgoing_data finds queued.  Peers and the   *)
(* kernel change these at any time; the application changes them only in   *)
(* its own steps.  One thread runs the application and the idler: each     *)
(* library call is one step.                                               *)
(***************************************************************************)
EXTENDS Integers, FiniteSets, Sequences, SequencesExt

CONSTANTS Streams,     \* the streams the application may register
          Fd,          \* stream -> its descriptor (stream_get_fd), distinct
          NULL,        \* the null stream pointer
          MaxOut       \* most slices a stream's outgoing queue holds here

\* enum idler_status_e
IDLER_ERROR == -2
IDLER_INTERRUPT == -1
IDLER_TIMEOUT == 0
IDLER_OPERATION == 1

\* The status bits of a stream: STREAM_INCOMING_READY, STREAM_OUTGOING_READY.
INCOMING == "incoming"
OUTGOING == "outgoing"

VARIABLES head,       \* LIST_FIRST(&self->streams)
          nxt,        \* stream -> its le_next
          rfds,       \* self->read_fds, as select() left it
          wfds,       \* self->write_fds
          phase,      \* the loop: "idle", "iterating", "serving", "deleted"
          cursor,     \* the stream idler_get_next_stream returned last, or NULL
          status,     \* the status it reported with it
          readable,   \* streams whose socket has data (or EOF) to read
          writable,   \* streams whose kernel send buffer has room
          out,        \* stream -> slices queued in its outgoing queues
          used,       \* streams ever added (a deleted stream is not re-added)
          readyAtWait,\* streams the last wait left ready (history)
          reported    \* streams the current iteration reported (history)

vars == <<head, nxt, rfds, wfds, phase, cursor, status, readable, writable,
          out, used, readyAtWait, reported>>

-----------------------------------------------------------------------------
(* The list                                                                *)

\* The streams reached from p by following le_next, at most n of them.
RECURSIVE ListFrom(_, _, _)
ListFrom(p, next, n) ==
    IF p = NULL \/ n = 0 THEN <<>> ELSE <<p>> \o ListFrom(next[p], next, n - 1)

List == ListFrom(head, nxt, Cardinality(Streams))
Registered == ToSet(List)

\* LIST_INSERT_HEAD in idler_add_stream.
InsertHead(s) ==
    /\ nxt' = [nxt EXCEPT ![s] = head]
    /\ head' = s

\* Mutant: LIST_REMOVE also clears the removed element's le_next, as
\* queue.h builds with QUEUE_MACRO_DEBUG_TRASH do.
ListRemoveTrash(s) ==
    /\ head' = IF head = s THEN nxt[s] ELSE head
    /\ nxt' = [p \in Streams |-> IF p = s THEN NULL
                                 ELSE IF nxt[p] = s THEN nxt[s] ELSE nxt[p]]

\* LIST_REMOVE in idler_remove_stream: the predecessor's le_next (or the
\* head) takes s's le_next; s keeps its own.
ListRemove(s) ==
    /\ head' = IF head = s THEN nxt[s] ELSE head
    /\ nxt' = [p \in Streams |-> IF p # s /\ nxt[p] = s THEN nxt[s] ELSE nxt[p]]

\* idler_find_stream: the first stream of the list with that descriptor.
FindStream(fd) ==
    LET i == SelectInSeq(List, LAMBDA p : Fd[p] = fd)
    IN IF i = 0 THEN NULL ELSE List[i]

-----------------------------------------------------------------------------
(* The poll round                                                          *)

\* Mutant: idler_prepare without the FD_SET on writefds.
PrepareWriteNone == {}

\* idler_prepare: every registered descriptor gets read interest, write
\* interest only when stream_has_outgoing_data.
PrepareRead == {Fd[s] : s \in Registered}
PrepareWrite == {Fd[s] : s \in {p \in Registered : out[p] > 0}}

\* The descriptors whose condition select() finds true.
ReadyFds(set, cond) == {fd \in set : \E s \in cond : Fd[s] = fd}

\* idler_get_stream_status, and the status test in idler_get_next_stream.
StreamStatus(s) ==
    {b \in {INCOMING, OUTGOING} : IF b = INCOMING THEN Fd[s] \in rfds
                                                 ELSE Fd[s] \in wfds}

\* The loop of idler_get_next_stream from current: the first stream with
\* a descriptor in either set, or NULL.
RECURSIVE NextReady(_, _)
NextReady(p, n) ==
    IF p = NULL \/ n = 0 THEN NULL
    ELSE IF StreamStatus(p) # {} THEN p ELSE NextReady(nxt[p], n - 1)

\* idler_get_next_stream: LIST_FIRST without prev, LIST_NEXT(prev) with it.
GetNextStream(prev) ==
    NextReady(IF prev = NULL THEN head ELSE nxt[prev], Cardinality(Streams))

\* The registered streams whose descriptor the wait left in a set.
SelectedStreams(r, w) == {s \in Registered : Fd[s] \in r \cup w}

-----------------------------------------------------------------------------
(* Actions                                                                 *)

\* idler_new: an empty list; the fd_sets are not initialized, and nothing
\* reads them before the first idler_wait.
Init ==
    /\ head = NULL
    /\ nxt \in [Streams -> {NULL}]
    /\ rfds = {} /\ wfds = {}
    /\ phase = "idle" /\ cursor = NULL /\ status = {}
    /\ readable = {} /\ writable = Streams
    /\ out = [s \in Streams |-> 0]
    /\ used = {} /\ readyAtWait = {} /\ reported = {}

\* The application registers a new stream, also during an iteration.
AddStream(s) ==
    /\ phase # "deleted" /\ s \notin used
    /\ InsertHead(s)
    /\ used' = used \cup {s}
    /\ UNCHANGED <<rfds, wfds, phase, cursor, status, readable, writable, out,
                   readyAtWait, reported>>

\* The application looks a stream up by descriptor and unregisters it
\* (the unit test's idler_find_stream, idler_remove_stream).
RemoveByFd(fd) ==
    /\ phase = "idle"
    /\ FindStream(fd) # NULL
    /\ ListRemove(FindStream(fd))
    /\ UNCHANGED <<rfds, wfds, phase, cursor, status, readable, writable, out,
                   used, readyAtWait, reported>>

\* idler_wait: prepare the sets, then select.  select() returns at once
\* when a descriptor is ready and leaves only the ready ones in the sets;
\* otherwise it times out with the sets cleared.  A signal (EINTR) or an
\* error returns -1 and leaves the sets as prepared.  The application
\* iterates after a result >= 0.
Wait ==
    /\ phase = "idle"
    /\ LET R == ReadyFds(PrepareRead, readable)
           W == ReadyFds(PrepareWrite, writable)
       IN \/ /\ R \cup W # {}
             /\ rfds' = R /\ wfds' = W /\ phase' = "iterating"
          \/ /\ R \cup W = {}
             /\ rfds' = {} /\ wfds' = {} /\ phase' = "iterating"
          \/ /\ rfds' = PrepareRead /\ wfds' = PrepareWrite
             /\ phase' = "idle"
    /\ cursor' = NULL
    /\ readyAtWait' = IF phase' = "iterating" THEN SelectedStreams(rfds', wfds') ELSE {}
    /\ reported' = {}
    /\ UNCHANGED <<head, nxt, status, readable, writable, out, used>>

\* idler_get_next_stream(idler, cursor, &status).
GetNext ==
    /\ phase = "iterating"
    /\ LET r == GetNextStream(cursor) IN
       IF r = NULL
       THEN /\ phase' = "idle" /\ cursor' = NULL
            /\ reported' = {} /\ readyAtWait' = {}
            /\ UNCHANGED status
       ELSE /\ phase' = "serving" /\ cursor' = r
            /\ status' = StreamStatus(r)
            /\ reported' = reported \cup {r}
            /\ UNCHANGED readyAtWait
    /\ UNCHANGED <<head, nxt, rfds, wfds, readable, writable, out, used>>

\* The application serves the reported stream: it reads everything on
\* INCOMING, and on OUTGOING calls stream_flush, whose stream_do_flush
\* drains the queue, after which the kernel
\* buffer may be full again; a stream found CLOSING is unregistered.
Serve ==
    /\ phase = "serving"
    /\ readable' = IF INCOMING \in status THEN readable \ {cursor} ELSE readable
    /\ out' = IF OUTGOING \in status /\ out[cursor] > 0
              THEN [out EXCEPT ![cursor] = 0] ELSE out
    /\ \E full \in BOOLEAN :
          writable' = IF OUTGOING \in status /\ full THEN writable \ {cursor}
                      ELSE writable
    /\ \/ ListRemove(cursor)
       \/ UNCHANGED <<head, nxt>>
    /\ phase' = "iterating"
    /\ status' = {}    \* the application's copy is not read again
    /\ UNCHANGED <<rfds, wfds, cursor, used, readyAtWait, reported>>

\* stream_write by the application between poller calls: with an empty
\* queue and room the write goes through or is partly queued as the
\* buffer fills; otherwise it is queued (stream_do_write).
AppWrite(s) ==
    /\ phase \in {"idle", "serving"}
    /\ out[s] < MaxOut
    /\ IF out[s] = 0 /\ s \in writable
       THEN \E queued \in BOOLEAN :
               /\ out' = [out EXCEPT ![s] = IF queued THEN 1 ELSE 0]
               /\ writable' = IF queued THEN writable \ {s} ELSE writable
       ELSE /\ out' = [out EXCEPT ![s] = @ + 1]
            /\ UNCHANGED writable
    /\ UNCHANGED <<head, nxt, rfds, wfds, phase, cursor, status, readable,
                   used, readyAtWait, reported>>

\* The peer sends: the socket becomes readable.
PeerSends(s) ==
    /\ s \notin readable
    /\ readable' = readable \cup {s}
    /\ UNCHANGED <<head, nxt, rfds, wfds, phase, cursor, status, writable, out,
                   used, readyAtWait, reported>>

\* The peer reads: the kernel send buffer has room again.
PeerDrains(s) ==
    /\ s \notin writable
    /\ writable' = writable \cup {s}
    /\ UNCHANGED <<head, nxt, rfds, wfds, phase, cursor, status, readable, out,
                   used, readyAtWait, reported>>

\* idler_delete: every stream leaves the list; the poller loop ends.
Delete ==
    /\ phase = "idle"
    /\ head' = NULL
    /\ phase' = "deleted"
    /\ UNCHANGED <<nxt, rfds, wfds, cursor, status, readable, writable, out,
                   used, readyAtWait, reported>>

Next ==
    \/ Wait \/ GetNext \/ Serve \/ Delete
    \/ \E fd \in {Fd[s] : s \in Streams} : RemoveByFd(fd)
    \/ \E s \in Streams :
          AddStream(s) \/ AppWrite(s) \/ PeerSends(s) \/ PeerDrains(s)

\* The poller loop is the program's main loop and never stops on its own
\* (weak fairness on its steps); a peer connected to a stream keeps
\* reading it.  The application's other calls and the peers' sends need
\* not happen.
Fairness ==
    /\ WF_vars(Wait) /\ WF_vars(GetNext) /\ WF_vars(Serve)
    /\ \A s \in Streams : WF_vars(PeerDrains(s))

Spec == Init /\ [][Next]_vars
FairSpec == Spec /\ Fairness

-----------------------------------------------------------------------------
\* Poller fairness (spec.md invariant 9): when idler_get_next_stream ends
\* an iteration, it has reported every stream whose descriptor the wait
\* found ready and that is still registered, and no other, although the
\* application added streams and removed the served ones
\* (idler_remove_stream) while iterating, so that idler_get_next_stream
\* continued from a stream no longer in the list.
IterationReportsWait ==
    [][GetNext /\ phase' = "idle" =>
         /\ reported \subseteq readyAtWait
         /\ readyAtWait \cap Registered \subseteq reported]_vars

\* Write interest (spec.md 4.10): a registered stream with queued outgoing
\* data is eventually handed to the application as OUTGOING_READY, so that
\* it drains its queue, unless it is unregistered or its queue empties:
\* idler_prepare must ask select() for write readiness exactly then.
OutgoingEventuallyServed ==
    \A s \in Streams :
        (s \in Registered /\ out[s] > 0) ~>
            \/ phase = "serving" /\ cursor = s /\ OUTGOING \in status
            \/ s \notin Registered
            \/ out[s] = 0
=============================================================================
