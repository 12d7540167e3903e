-------------------------- MODULE TraceMatchQueues ---------------------------
(***************************************************************************)
(* analyze() of the Python GUI searches one list of pending requests; that *)
(* list implements a queue per tag and address (RequestQueues).            *)
(***************************************************************************)
EXTENDS TraceMatch, FiniteSets

KeyOf(r) == <<r.tag, NormAddr[r.addr]>>

Keys == {KeyOf(r) : r \in Row}

\* The elements of a set of rows in ascending order: each stands where as many
\* elements are no greater than it.
Ascending(S) ==
    [n \in 1 .. Cardinality(S) |->
        CHOOSE r \in S : Cardinality({q \in S : q <= r}) = n]

\* The part of the pending list with key k, in list order.
PendingOf(k) == Ascending({r \in pending : KeyOf(rows[r]) = k})

Waiting == [k \in Keys |-> PendingOf(k)]
Answered == {<<pair[c], c>> : c \in {i \in 1 .. Visited : pair[i] \in 1 .. i}}
Refused == {c \in 1 .. Visited : IsCompletion(rows[c]) /\ pair[c] = 0}

Queues == INSTANCE RequestQueues WITH
    Key <- Keys, waiting <- Waiting, answered <- Answered, refused <- Refused,
    last <- Visited

\* The analysis implements the queues: walking the pending list from its
\* front for the first request that fits is taking the head of that
\* completion's queue, also when the live trace starts the walk again
\* (trace.py:189-224).
ImplementsQueues == Queues!Spec
=============================================================================
