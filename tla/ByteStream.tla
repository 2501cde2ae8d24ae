----------------------------- MODULE ByteStream -----------------------------
(***************************************************************************)
(* What a writable stream promises its writer (spec.md 4.3 and invariant  *)
(* 2, "write preservation"): every write that reports its whole length as *)
(* written is appended to the byte sequence the stream has accepted, and  *)
(* the peer receives a growing prefix of exactly that sequence: nothing   *)
(* is lost, duplicated or reordered.  Delivery is weakly fair, so what    *)
(* was accepted is eventually received, absent peer failure: once the     *)
(* connection has failed nothing more is promised.                        *)
(*                                                                         *)
(* The detailed chain of decorators in StreamChain implements this        *)
(* specification; the refinement is checked there.                        *)
(***************************************************************************)
EXTENDS Sequences, SequencesExt

CONSTANT Data              \* the chunks a writer may hand to the stream

VARIABLES sent,            \* bytes the stream accepted, in order
          received,        \* bytes the peer has received, in order
          failed           \* the connection has failed

vars == <<sent, received, failed>>

Init == sent = <<>> /\ received = <<>> /\ failed = FALSE

\* A write is accepted whole.
Write == \E d \in Data : sent' = sent \o d /\ UNCHANGED <<received, failed>>

\* Some of the accepted but not yet received bytes reach the peer.
Deliver == /\ ~failed
           /\ \E k \in 1..(Len(sent) - Len(received)) :
                 received' = SubSeq(sent, 1, Len(received) + k)
           /\ UNCHANGED <<sent, failed>>

\* The connection fails.
Fail == ~failed /\ failed' = TRUE /\ UNCHANGED <<sent, received>>

Next == Write \/ Deliver \/ Fail

Spec == Init /\ [][Next]_vars /\ WF_vars(Deliver)

\* The peer only ever holds a prefix of what was accepted.
Prefix == IsPrefix(received, sent)
=============================================================================
