---- MODULE WorkDeque ----
(***************************************************************************)
(* What a worker's deque promises the pool: a task pushed at the back is   *)
(* handed out once, the newest to the owner or the oldest to a thief.      *)
(* WorkStealingDeque implements this specification.                        *)
(***************************************************************************)
EXTENDS Integers, Sequences, FiniteSets

CONSTANTS Tasks

VARIABLES
    items,       \* the tasks in the deque, oldest first
    taken        \* the tasks handed out

vars == <<items, taken>>

Init == items = <<>> /\ taken = {}

Push(t) ==
    /\ t \notin taken /\ \A i \in DOMAIN items : items[i] # t
    /\ items' = Append(items, t)
    /\ UNCHANGED taken

Pop ==
    /\ items # <<>>
    /\ taken' = taken \cup {items[Len(items)]}
    /\ items' = SubSeq(items, 1, Len(items) - 1)

Steal ==
    /\ items # <<>>
    /\ taken' = taken \cup {Head(items)}
    /\ items' = Tail(items)

Next == (\E t \in Tasks : Push(t)) \/ Pop \/ Steal

Spec == Init /\ [][Next]_vars
====
