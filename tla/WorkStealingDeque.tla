---- MODULE WorkStealingDeque ----
(***************************************************************************)
(* The lock-free deque of the task pool,                                   *)
(* window_engine/containers/work_stealing_deque.h: the owner pushes and    *)
(* pops at the back, thieves steal from the front.  One atomic access is   *)
(* one action.                                                             *)
(*                                                                         *)
(* The engine is built for x64, whose stores wait in a first-in first-out  *)
(* buffer until a locked instruction or a full fence empties it.  Only the *)
(* owner writes bottom_, array_ and the slots, so its buffer is a sequence *)
(* of versions of those three, each the result of one more store: thieves  *)
(* read `shared`, the owner its own latest version.  top_ is written by    *)
(* compare-and-swap alone.                                                 *)
(***************************************************************************)
EXTENDS Integers, Sequences, FiniteSets

CONSTANTS
    Thieves,     \* the other workers
    Capacity,    \* kInitialCapacity, a power of two
    MaxTasks     \* bound: tasks pushed

ASSUME CapacityAssumption == Capacity \in Nat \ {0}
ASSUME BoundAssumption == MaxTasks \in Nat

VARIABLES
    top,         \* top_
    shared,      \* [bottom, array, arrays] as every thread but the owner sees it
    buffer,      \* later versions of it, in the owner's store buffer
    opc, ot,     \* the owner: where it is, its t
    spc, st,     \* each thief: where it is, its t,
    sa, sv,      \*   its array and its value
    pushed,      \* tasks pushed, or being pushed: 1..pushed
    handed       \* how often each was handed out; slot 0 counts an empty one

memory == <<top, shared, buffer>>
owner == <<opc, ot>>
thieves == <<spc, st, sa, sv>>
history == <<pushed, handed>>
vars == <<memory, owner, thieves, history>>

Tasks == 1..MaxTasks
NoTask == 0

HandOut(t) == handed' = [handed EXCEPT ![t] = @ + 1]

EmptyArray(n) == [i \in 0..(n - 1) |-> NoTask]

Init ==
    /\ top = 0
    /\ shared = [bottom |-> 0, array |-> 1, arrays |-> <<EmptyArray(Capacity)>>]
    /\ buffer = <<>>
    /\ opc = "idle" /\ ot = 0
    /\ spc = [s \in Thieves |-> "idle"] /\ st = [s \in Thieves |-> 0]
    /\ sa = [s \in Thieves |-> 1] /\ sv = [s \in Thieves |-> NoTask]
    /\ pushed = 0 /\ handed = [t \in {NoTask} \cup Tasks |-> 0]

-----------------------------------------------------------------------------
(* Memory.                                                                 *)

\* What the owner reads of its own.
Own == IF buffer = <<>> THEN shared ELSE buffer[Len(buffer)]

Write(version) == buffer' = Append(buffer, version) /\ UNCHANGED <<top, shared>>

\* The oldest store in the buffer reaches memory.
Flush ==
    /\ buffer # <<>>
    /\ shared' = Head(buffer) /\ buffer' = Tail(buffer)
    /\ UNCHANGED <<top, owner, thieves, history>>

Cap(version, a) == Cardinality(DOMAIN version.arrays[a])

Get(version, a, i) == version.arrays[a][i % Cap(version, a)]

-----------------------------------------------------------------------------
(* push()                                                                  *)

\* The load of top_; bottom_ and array_ are the owner's own.
PushBegin ==
    /\ opc = "idle" /\ pushed < MaxTasks
    /\ ot' = top
    /\ opc' = "put"
    /\ pushed' = pushed + 1
    /\ UNCHANGED <<memory, thieves, handed>>

\* Variant: one slot too many before the ring counts as full.
FullLate == Own.bottom - ot > Cap(Own, Own.array)

Full == Own.bottom - ot > Cap(Own, Own.array) - 1

\* Variant: grow() forgets the tasks in the old array.
GrowWithoutCopy ==
    /\ opc = "put" /\ Full
    /\ Write([Own EXCEPT !.array = @ + 1,
                         !.arrays = Append(@, EmptyArray(2 * Cap(Own, Own.array)))])
    /\ UNCHANGED <<owner, thieves, history>>

\* grow(): an array of twice the size with the live range copied into it.
Grow ==
    /\ opc = "put" /\ Full
    /\ LET n == 2 * Cap(Own, Own.array)
           live(k) == {i \in ot..(Own.bottom - 1) : i % n = k}
       IN  Write([Own EXCEPT
                    !.array = @ + 1,
                    !.arrays = Append(@, [k \in 0..(n - 1) |->
                        IF live(k) = {} THEN NoTask
                        ELSE Get(Own, Own.array, CHOOSE i \in live(k) : TRUE)])])
    /\ UNCHANGED <<owner, thieves, history>>

Put ==
    /\ opc = "put" /\ ~Full
    /\ Write([Own EXCEPT !.arrays[Own.array][Own.bottom % Cap(Own, Own.array)] = pushed])
    /\ opc' = "publish"
    /\ UNCHANGED <<ot, thieves, history>>

Publish ==
    /\ opc = "publish"
    /\ Write([Own EXCEPT !.bottom = @ + 1])
    /\ opc' = "idle"
    /\ UNCHANGED <<ot, thieves, history>>

-----------------------------------------------------------------------------
(* pop()                                                                   *)

PopBegin ==
    /\ opc = "idle"
    /\ Write([Own EXCEPT !.bottom = @ - 1])
    /\ opc' = "fence"
    /\ UNCHANGED <<ot, thieves, history>>

\* atomic_thread_fence(seq_cst): the buffer is empty.
Fenced == buffer = <<>>

\* The load of top_, and what it decides: nothing is left,
PopNone ==
    /\ opc = "fence" /\ Fenced
    /\ top > Own.bottom
    /\ opc' = "restore"
    /\ UNCHANGED <<memory, ot, thieves, history>>

\* ... more than one task is, and no thief can be at this one,
PopMany ==
    /\ opc = "fence" /\ Fenced
    /\ top < Own.bottom
    /\ HandOut(Get(Own, Own.array, Own.bottom))
    /\ opc' = "idle"
    /\ UNCHANGED <<memory, ot, thieves, pushed>>

\* ... or exactly one, to be raced for.
PopOne ==
    /\ opc = "fence" /\ Fenced
    /\ top = Own.bottom
    /\ ot' = top
    /\ opc' = "race"
    /\ UNCHANGED <<memory, thieves, history>>

\* The compare-and-swap on top_, a locked instruction.
PopRace ==
    /\ opc = "race" /\ buffer = <<>>
    /\ \/ /\ top = ot /\ top' = ot + 1
          /\ HandOut(Get(Own, Own.array, Own.bottom))
       \/ top # ot /\ UNCHANGED <<top, handed>>
    /\ opc' = "restore"
    /\ UNCHANGED <<shared, buffer, ot, thieves, pushed>>

PopRestore ==
    /\ opc = "restore"
    /\ Write([Own EXCEPT !.bottom = @ + 1])
    /\ opc' = "idle"
    /\ UNCHANGED <<ot, thieves, history>>

-----------------------------------------------------------------------------
(* steal()                                                                 *)

StealTop(s) ==
    /\ spc[s] = "idle"
    /\ st' = [st EXCEPT ![s] = top]
    /\ spc' = [spc EXCEPT ![s] = "bottom"]
    /\ UNCHANGED <<memory, owner, sa, sv, history>>

StealBottom(s) ==
    /\ spc[s] = "bottom"
    /\ spc' = [spc EXCEPT ![s] = IF st[s] >= shared.bottom THEN "idle" ELSE "array"]
    /\ UNCHANGED <<memory, owner, st, sa, sv, history>>

StealArray(s) ==
    /\ spc[s] = "array"
    /\ sa' = [sa EXCEPT ![s] = shared.array]
    /\ spc' = [spc EXCEPT ![s] = "slot"]
    /\ UNCHANGED <<memory, owner, st, sv, history>>

StealSlot(s) ==
    /\ spc[s] = "slot"
    /\ sv' = [sv EXCEPT ![s] = Get(shared, sa[s], st[s])]
    /\ spc' = [spc EXCEPT ![s] = "swap"]
    /\ UNCHANGED <<memory, owner, st, sa, history>>

StealSwap(s) ==
    /\ spc[s] = "swap"
    /\ \/ top = st[s] /\ top' = st[s] + 1 /\ HandOut(sv[s])
       \/ top # st[s] /\ UNCHANGED <<top, handed>>
    /\ spc' = [spc EXCEPT ![s] = "idle"]
    /\ UNCHANGED <<shared, buffer, owner, st, sa, sv, pushed>>

-----------------------------------------------------------------------------
PushStep == Grow \/ Put \/ Publish
PopStep == PopNone \/ PopMany \/ PopOne \/ PopRace \/ PopRestore
StealStep(s) == StealTop(s) \/ StealBottom(s) \/ StealArray(s) \/ StealSlot(s)
                \/ StealSwap(s)

Next ==
    \/ Flush
    \/ PushBegin \/ PushStep
    \/ PopBegin \/ PopStep
    \/ \E s \in Thieves : StealStep(s)

Spec == Init /\ [][Next]_vars

\* Stores reach memory, the owner ends what it began, and idle workers keep
\* trying to steal.  The owner need not push or pop.
Fairness ==
    /\ WF_vars(Flush) /\ WF_vars(PushStep \/ PopStep)
    /\ \A s \in Thieves : WF_vars(StealStep(s))

FairSpec == Spec /\ Fairness

-----------------------------------------------------------------------------
(* What is in the deque, for everybody: from top_ to bottom_, plus the     *)
(* slot that a pop has reserved and not yet decided about.                 *)
Reserved == opc \in {"fence", "race", "restore"} /\ buffer = <<>>

Back == IF Reserved THEN shared.bottom + 1 ELSE shared.bottom

Items == [i \in 1..(Back - top) |-> Get(shared, shared.array, top + i - 1)]

\* Every task is handed out in its turn, the newest to the owner, the oldest to a
\* thief: through the race for the last one, growth under a thief that holds the
\* old array, and slots used again (work_stealing_deque.h:101-171).
Deque == INSTANCE WorkDeque WITH items <- Items,
                                 taken <- {t \in Tasks : handed[t] > 0}
ImplementsWorkDeque == Deque!Spec

\* A pushed task is handed out as long as somebody tries to steal.
PushedIsTaken == \A t \in Tasks : pushed >= t ~> handed[t] > 0
====
