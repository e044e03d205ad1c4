---- MODULE MpscQueue ----
(***************************************************************************)
(* The unbounded queue of many producers and one consumer,                 *)
(* window_engine/containers/mpsc_queue.h, as the task pool's injection     *)
(* queue uses it: any thread may ask whether it is empty.                  *)
(*                                                                         *)
(* Nodes are addresses, and the address of a deleted node may be allocated *)
(* again.  Every access to head, tail or a next is one action, except that *)
(* the consumer, alone in moving head, reads it with what follows.         *)
(***************************************************************************)
EXTENDS Integers, Sequences, FiniteSets

CONSTANTS
    Producers,
    Addresses,   \* what the allocator can give out
    Null,        \* nullptr
    MaxElements  \* bound: elements pushed

ASSUME AddressAssumption == Null \notin Addresses /\ Addresses # {}
ASSUME BoundAssumption == MaxElements \in Nat

VARIABLES
    head, tail,  \* the queue's two pointers
    live,        \* nodes allocated and not deleted
    next, data,  \* their fields
    ppc, node,   \* each producer: where it is, its node,
    prev,        \*   and the node that shall point to it
    cpc, old,    \* the consumer: where it is, and its head_node
    opc, first,  \* a thread inside empty(): where it is, the head it loaded,
    answer,      \*   what it returned,
    moved,       \*   whether a pop has moved head since,
    held,        \*   and whether the queue has held an element since
    pushed,      \* exchanges so far; elements are numbered in their order
    popped       \* the elements popped

memory == <<live, next, data>>
producers == <<ppc, node, prev, pushed>>
consumer == <<head, cpc, old, popped>>
observer == <<opc, first, answer, moved, held>>
vars == <<tail, memory, producers, consumer, observer>>

Init ==
    /\ head \in Addresses /\ tail = head /\ live = {head}
    /\ next = [a \in Addresses |-> Null] /\ data = [a \in Addresses |-> 0]
    /\ ppc = [p \in Producers |-> "idle"]
    /\ node = [p \in Producers |-> Null] /\ prev = [p \in Producers |-> Null]
    /\ cpc = "idle" /\ old = Null
    /\ opc = "idle" /\ first = Null /\ answer = FALSE
    /\ moved = FALSE /\ held = FALSE
    /\ pushed = 0 /\ popped = <<>>

-----------------------------------------------------------------------------
(* try_push()                                                              *)

\* A node at some free address.  Without one the push is refused: no step.
Allocate(p) ==
    /\ ppc[p] = "idle"
    /\ pushed + Cardinality({q \in Producers : ppc[q] = "exchange"}) < MaxElements
    /\ \E a \in Addresses \ live :
        /\ live' = live \cup {a}
        /\ next' = [next EXCEPT ![a] = Null]
        /\ data' = [data EXCEPT ![a] = 0]
        /\ node' = [node EXCEPT ![p] = a]
    /\ ppc' = [ppc EXCEPT ![p] = "exchange"]
    /\ UNCHANGED <<tail, prev, pushed, consumer, observer>>

Exchange(p) ==
    /\ ppc[p] = "exchange"
    /\ tail' = node[p] /\ prev' = [prev EXCEPT ![p] = tail]
    /\ pushed' = pushed + 1
    /\ data' = [data EXCEPT ![node[p]] = pushed + 1]
    /\ ppc' = [ppc EXCEPT ![p] = "link"]
    /\ UNCHANGED <<live, next, node, consumer, observer>>

Link(p) ==
    /\ ppc[p] = "link"
    /\ next' = [next EXCEPT ![prev[p]] = node[p]]
    /\ ppc' = [ppc EXCEPT ![p] = "idle"]
    /\ node' = [node EXCEPT ![p] = Null] /\ prev' = [prev EXCEPT ![p] = Null]
    /\ UNCHANGED <<tail, live, data, pushed, consumer, observer>>

-----------------------------------------------------------------------------
(* try_pop(), of the one consumer                                          *)

\* Variant: the head node is deleted before head has left it.
DeleteEarly ==
    /\ cpc = "idle" /\ next[head] # Null
    /\ old' = head
    /\ live' = live \ {head}
    /\ cpc' = "advance"
    /\ UNCHANGED <<tail, next, data, producers, head, popped, observer>>

\* The loads of head and of its next; nothing happens when that is null.
Look ==
    /\ cpc = "idle" /\ next[head] # Null
    /\ old' = head
    /\ cpc' = "advance"
    /\ UNCHANGED <<tail, memory, producers, head, popped, observer>>

\* Variant: head goes to the end of the queue.
AdvanceToTail ==
    /\ cpc = "advance"
    /\ popped' = Append(popped, data[next[old]])
    /\ head' = tail
    /\ cpc' = "delete"
    /\ moved' = TRUE /\ held' = (held /\ pushed > Len(popped'))
    /\ UNCHANGED <<tail, memory, producers, old, opc, first, answer>>

\* The element is moved out, and head to its node, the dummy from now on.
Advance ==
    /\ cpc = "advance"
    /\ popped' = Append(popped, data[next[old]])
    /\ head' = next[old]
    /\ cpc' = "delete"
    /\ moved' = TRUE /\ held' = (held /\ pushed > Len(popped'))
    /\ UNCHANGED <<tail, memory, producers, old, opc, first, answer>>

Delete ==
    /\ cpc = "delete"
    /\ live' = live \ {old}
    /\ old' = Null /\ cpc' = "idle"
    /\ UNCHANGED <<tail, next, data, producers, head, popped, observer>>

-----------------------------------------------------------------------------
(* empty(), by any thread                                                  *)

EmptyHead ==
    /\ opc = "idle"
    /\ first' = head /\ opc' = "tail"
    /\ moved' = FALSE /\ held' = (pushed > Len(popped))
    /\ UNCHANGED <<tail, memory, producers, consumer, answer>>

\* Variant: asks whether the head has a successor.
AskNext ==
    /\ opc = "tail"
    /\ answer' = (next[first] = Null) /\ opc' = "done"
    /\ UNCHANGED <<tail, memory, producers, consumer, first, moved, held>>

EmptyTail ==
    /\ opc = "tail"
    /\ answer' = (first = tail) /\ opc' = "done"
    /\ UNCHANGED <<tail, memory, producers, consumer, first, moved, held>>

EmptyReturns ==
    /\ opc = "done"
    /\ opc' = "idle" /\ first' = Null /\ answer' = FALSE
    /\ moved' = FALSE /\ held' = FALSE
    /\ UNCHANGED <<tail, memory, producers, consumer>>

-----------------------------------------------------------------------------
Push(p) == Allocate(p) \/ Exchange(p) \/ Link(p)
Pop == Look \/ Advance \/ Delete
Empty == EmptyHead \/ EmptyTail \/ EmptyReturns

Next == (\E p \in Producers : Push(p)) \/ Pop \/ Empty

Spec == Init /\ [][Next]_vars

-----------------------------------------------------------------------------
\* Elements come out in the order of the exchanges, each once, however the producers
\* link their nodes (mpsc_queue.h:110-112, 126-133).
PopsInOrder == popped = [i \in 1..Len(popped) |-> i]

\* No thread is about to touch a deleted node: neither the consumer, nor a producer
\* that has the old tail to link to, which may be the head the consumer is at.
NoUseAfterFree ==
    /\ head \in live
    /\ next[head] # Null => next[head] \in live
    /\ \A p \in Producers : ppc[p] = "link" => {prev[p], node[p]} \subseteq live

\* empty() says yes to a queue that held an element all along only if a pop moved head
\* under it: the popping thread is then awake and looks for more, which is what the
\* workers' decision to sleep rests on (task_scheduler.cpp:326-336, 363).
EmptyErrsOnlyUnderAPop == opc = "done" /\ answer /\ held => moved
====
