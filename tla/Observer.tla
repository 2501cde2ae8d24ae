------------------------------- MODULE Observer -------------------------------
(***************************************************************************)
(* The observer records of source/observer.c: an observer is an object    *)
(* pointer, a notification type and a handler; an observer list is a BSD *)
(* LIST the caller adds observers to (at the head) and removes them from. *)
(* Objects, handlers and observers are named by their pointers, strings  *)
(* of a small set; the observers are a function from pointer to record.  *)
(***************************************************************************)
EXTENDS Integers, Sequences, SequencesExt

NullPtr == "null"        \* a NULL object, handler or observer pointer

\* observer_init
ObserverInit == [object |-> NullPtr, notify_type |-> 0, notify_handler |-> NullPtr]

\* observer_create(object, type, handler): observer_new, then the fields.
ObserverCreate(object, type, handler) ==
    [object |-> object, notify_type |-> type, notify_handler |-> handler]

\* observer_is_available(o): o is not NULL and has a handler.
ObserverIsAvailable(obs, p) == p # NullPtr /\ obs[p].notify_handler # NullPtr

\* observer_list_init: an empty list.
ObserverListInit == <<>>

\* Mutant: the observer added at the tail of the list.
ObserverListAddTail(l, p) == Append(l, p)

\* observer_list_add_observer: LIST_INSERT_HEAD.
ObserverListAdd(l, p) == <<p>> \o l

\* observer_list_remove_observer: LIST_REMOVE of an observer in the list.
ObserverListRemove(l, p) == SelectSeq(l, LAMBDA q : q # p)

\* The tests of observer_list_find_observer's loop: the object must be
\* the same, the type only when the query's is above 0, the handler only
\* when the query gives one.
ObserverMatches(o, object, type, handler) ==
    /\ o.object = object
    /\ type > 0 => o.notify_type = type
    /\ handler # NullPtr => o.notify_handler = handler

\* observer_list_find_observer: the first observer of the list that
\* matches, or NULL.
ObserverListFind(obs, l, object, type, handler) ==
    LET i == SelectInSeq(l, LAMBDA p : ObserverMatches(obs[p], object, type, handler))
    IN IF i = 0 THEN NullPtr ELSE l[i]

\* observer_list_clean: LIST_FOREACH_SAFE removes and deletes each
\* observer; the pointers deleted and the empty list.
ObserverListClean(l) == [deleted |-> ToSet(l), list |-> <<>>]

\* stream_mqtt_set_observer: an observer of type 0 is created only when
\* the stream has none; the pointer the stream then holds.
StreamMqttSetObserver(current, fresh) == IF current = NullPtr THEN fresh ELSE current

\* stream_mqtt_remove_observer: observer_delete returns NULL.
StreamMqttRemoveObserver(current) == NullPtr

-----------------------------------------------------------------------------
(* Scripts of adds and removes on one list.                               *)

\* The observers a query (object, type, handler) asks for: those of its
\* object, of its type unless that is 0 or less, of its handler unless
\* that is NULL.
Wanted(o, q) ==
    /\ o.object = q.object
    /\ q.type <= 0 \/ o.notify_type = q.type
    /\ q.handler = NullPtr \/ o.notify_handler = q.handler

\* Over every script of n calls or fewer that add an observer not in the
\* list or remove one that is, from list l whose members were added at the
\* times in "at" (time t next): a query for any object, type (0 for any)
\* and handler (NULL for any) finds the observer added last among those in
\* the list that match, and NULL when none does; and cleaning the list
\* deletes exactly its members.
RECURSIVE FindScripts(_, _, _, _, _, _)
FindScripts(obs, queries, l, at, t, n) ==
    /\ \A q \in queries :
          LET M == {p \in ToSet(l) : Wanted(obs[p], q)}
              found == ObserverListFind(obs, l, q.object, q.type, q.handler)
          IN IF M = {} THEN found = NullPtr
             ELSE found \in M /\ \A p \in M : at[p] <= at[found]
    /\ ObserverListClean(l).deleted = ToSet(l)
    /\ n > 0 =>
         \A p \in DOMAIN obs :
            IF p \in ToSet(l)
            THEN FindScripts(obs, queries, ObserverListRemove(l, p), at, t, n - 1)
            ELSE FindScripts(obs, queries, ObserverListAdd(l, p),
                             [at EXCEPT ![p] = t], t + 1, n - 1)
=============================================================================
