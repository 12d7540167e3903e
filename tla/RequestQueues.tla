---------------------------- MODULE RequestQueues ----------------------------
(***************************************************************************)
(* What the pairing of the trace table promises: requests with the same    *)
(* tag and address wait in one queue, and each completion answers the      *)
(* request at the head of its queue or, when the queue is empty, nobody.   *)
(* No request overtakes another with the same key.                         *)
(***************************************************************************)
EXTENDS Naturals, Sequences

CONSTANT Key    \* what a completion must share with its request

VARIABLES
    waiting,    \* waiting[k]: the rows of the open requests with key k
    answered,   \* the pairs <<request row, completion row>>
    refused,    \* the completions that found their queue empty
    last        \* the number of the last row

vars == <<waiting, answered, refused, last>>

Start ==
    /\ waiting' = [k \in Key |-> <<>>]
    /\ answered' = {}
    /\ refused' = {}
    /\ last' = 0

Ask(k) ==
    /\ last' = last + 1
    /\ waiting' = [waiting EXCEPT ![k] = Append(@, last')]
    /\ UNCHANGED <<answered, refused>>

Answer(k) ==
    /\ waiting[k] # <<>>
    /\ last' = last + 1
    /\ waiting' = [waiting EXCEPT ![k] = Tail(@)]
    /\ answered' = answered \union {<<Head(waiting[k]), last'>>}
    /\ UNCHANGED refused

Refuse(k) ==
    /\ waiting[k] = <<>>
    /\ last' = last + 1
    /\ refused' = refused \union {last'}
    /\ UNCHANGED <<waiting, answered>>

\* A row that is neither an open request nor a completion.
Pass ==
    /\ last' = last + 1
    /\ UNCHANGED <<waiting, answered, refused>>

Init ==
    /\ waiting = [k \in Key |-> <<>>]
    /\ answered = {}
    /\ refused = {}
    /\ last = 0

Next == Start \/ Pass \/ \E k \in Key : Ask(k) \/ Answer(k) \/ Refuse(k)

Spec == Init /\ [][Next]_vars
=============================================================================
