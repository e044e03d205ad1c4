---- MODULE LoggingProofs ----
(***************************************************************************)
(* The logger and its service lane for any number of threads, any ring and *)
(* any channel: messages are dispatched in order, once, and none is lost   *)
(* at shutdown; the idle wait, the flush and quiesce() are barriers; and   *)
(* every diagnostic record is accounted for.                               *)
(***************************************************************************)
EXTENDS LoggerService, FiniteSetTheorems, SequenceTheorems, TLAPS

-----------------------------------------------------------------------------
(* The logger's invariant. *)

\* The producers whose message is counted and has no cell yet.
Counted == {p \in Producers : push[p].at \in {"check", "head", "claim", "drop"}}
InHand == worker.at \in {"dispatch", "uncount"}
Window == head .. tail - 1                     \* the messages in the ring

LoggerTypes ==
    /\ head \in Nat /\ tail \in Nat
    /\ ring \in [0 .. Capacity - 1 -> Nat \cup {Hole}]
    /\ push \in [Producers -> [at : {"out", "check", "head", "claim", "write", "drop", "notify"},
                               head : Nat, msg : Nat]]
    /\ worker \in [at : {"poll", "pop", "popped", "dispatch", "uncount", "notify", "last",
                         "exited"}, draining : BOOLEAN, msg : Nat]
    /\ log \in Seq(Nat) /\ promised \in SUBSET Nat
    /\ owner \in {"up", "closing", "stopping", "joining", "down"}

\* in_flight_ counts a message from before its claim until after its dispatch.
CountIsExact ==
    inFlight = Cardinality(Counted) + (tail - head) + (IF InHand THEN 1 ELSE 0)

\* The ring never holds more than its cells, because a producer never compares
\* the tail with a head that is too new.
RingBounds ==
    /\ head <= tail /\ tail <= head + Capacity
    /\ \A p \in Producers : push[p].at = "claim" => push[p].head <= head

\* Each message of the window is in its cell, or with the producer that claimed
\* it, or with the worker that has just taken it; and nothing else is in the ring.
EachSomewhere ==
    \A m \in Window : ring[Cell(m)] = m \/ MidPush(m) \/ (worker.at = "popped" /\ m = head)

CellsHoldTheirs ==
    \A i \in 0 .. Capacity - 1 : ring[i] # Hole => ring[i] \in Window /\ Cell(ring[i]) = i

WritersHaveHoles ==
    \A p \in Producers : push[p].at = "write" =>
        /\ push[p].msg \in Window /\ ring[Cell(push[p].msg)] = Hole
        /\ \A q \in Producers : push[q].at = "write" /\ push[q].msg = push[p].msg => p = q

PoppedIsHead ==
    worker.at = "popped" =>
        worker.msg = head /\ head < tail /\ ring[Cell(head)] = Hole /\ ~MidPush(head)

\* The log is all that was popped, but for the message on its way to the sinks.
LogIsPrefix ==
    /\ InClaimOrder
    /\ worker.at = "dispatch" => worker.msg = head - 1 /\ Len(log) = head - 1
    /\ worker.at # "dispatch" => Len(log) = head

\* How far the shutdown is, and what it keeps.
StopInOrder ==
    /\ ~running => owner \in {"joining", "down"}
    /\ worker.draining => ~running
    /\ worker.at \in {"last", "exited"} => worker.draining
    /\ \A m \in promised : m < tail
    /\ worker.at \in {"last", "exited"} /\ ~gaveUp => \A m \in promised : m < head

LoggerInv ==
    /\ LoggerTypes /\ CountIsExact /\ RingBounds
    /\ EachSomewhere /\ CellsHoldTheirs /\ WritersHaveHoles /\ PoppedIsHead
    /\ LogIsPrefix /\ StopInOrder

-----------------------------------------------------------------------------
(* The lane's invariant. *)

LaneTypes ==
    /\ popped \in Nat /\ drops \in Nat /\ published \in Nat
    /\ slots \in Seq(BOOLEAN) /\ popped <= Len(slots)
    /\ publish \in [Publishers -> [at : {"out", "write", "drop"}, slot : Nat]]
    /\ state \in [count : Nat, reported : Nat, lost : Nat, lostReported : Nat]
    /\ lane \in [at : {"wait", "drain", "drops", "check", "entry", "entryLogged", "loss",
                       "lossLogged", "ack", "notify", "exited"},
                 served : Nat, stopping : BOOLEAN]
    /\ live \in BOOLEAN /\ reporting \in BOOLEAN /\ request \in Nat /\ done \in Nat
    /\ flush \in [Flushers -> [at : {"out", "test", "asleep"}, target : Nat]]
    /\ teardown \in {"running", "finalReport", "silenced", "barrier", "quiesced"}
    /\ owed \in [Flushers -> SUBSET Nat]

\* Every record is in a slot, counted lost, or about to be.
Dropping == {p \in Publishers : publish[p].at = "drop"}
RecordsAddUp ==
    /\ published = Len(slots) + drops + state.lost + Cardinality(Dropping)
    /\ state.count = popped

\* A slot that is not Ready has its publisher, and a lane that stops has none.
HolesHaveWriters ==
    /\ \A i \in 1 .. Len(slots) :
          ~slots[i] => \E p \in Publishers : publish[p].at = "write" /\ publish[p].slot = i
    /\ \A p \in Publishers : publish[p].at = "write" => publish[p].slot \in 1 .. Len(slots)
    /\ ~live => \A p \in Publishers : publish[p].at = "out"

Drained == {"drops", "check", "entry", "entryLogged", "loss", "lossLogged", "ack", "notify",
            "exited"}
Taken == Drained \ {"drops"}
Reporting == {"entry", "entryLogged", "loss", "lossLogged"}

\* The last cycle began when nobody published any more.
LastCycle ==
    /\ lane.stopping => ~live
    /\ lane.at = "exited" => lane.stopping
    /\ lane.stopping /\ lane.at \in Drained => popped = Len(slots)
    /\ lane.stopping /\ lane.at \in Taken => drops = 0 /\ Dropping = {}

\* A cycle serves the requests made before it began, and acknowledges these.
RequestsInOrder ==
    /\ done <= lane.served /\ lane.served <= request
    /\ \A f \in Flushers : flush[f].target <= request

\* What was Ready without a gap stays so, and a later cycle pops it.
OwedIsPopped ==
    \A f \in Flushers :
        /\ \A i \in owed[f] : i \in 1 .. Len(slots) /\ \A j \in 1 .. i : slots[j]
        /\ flush[f].at # "out" /\ done >= flush[f].target => owed[f] \subseteq 1 .. popped
        /\ flush[f].at # "out" /\ lane.served >= flush[f].target /\ lane.at \in Drained =>
              owed[f] \subseteq 1 .. popped

\* quiesce() waits for a cycle that began after reporting_ was cleared.
SilencedInOrder ==
    /\ reporting <=> teardown \in {"running", "finalReport"}
    /\ teardown \in {"barrier", "quiesced"} /\ lane.at \in Reporting =>
          lane.served < flush[Owner].target
    /\ teardown = "barrier" /\ flush[Owner].at = "out" => done >= flush[Owner].target
    /\ teardown = "quiesced" => lane.at \notin Reporting

LaneInv ==
    /\ LaneTypes /\ RecordsAddUp /\ HolesHaveWriters /\ LastCycle
    /\ RequestsInOrder /\ OwedIsPopped /\ SilencedInOrder

USE ThreadsAssumption, RingAssumption, LaneAssumption, PublishersAssumption

-----------------------------------------------------------------------------
(* Cells and counts. *)

\* Messages less than a ring apart have different cells.
LEMMA CellsApart ==
    ASSUME NEW m \in Nat, NEW n \in Nat, m < n, n < m + Capacity
    PROVE  Cell(m) # Cell(n)
  <1> SUFFICES ASSUME Cell(m) = Cell(n) PROVE FALSE OBVIOUS
  <1> DEFINE a == m \div Capacity
             b == n \div Capacity
  <1>1. /\ a \in Int /\ b \in Int
        /\ m = Capacity * a + (m % Capacity) /\ n = Capacity * b + (n % Capacity)
        OBVIOUS
  <1>2. n - m = Capacity * b - Capacity * a BY <1>1 DEF Cell
  <1>3. b - a \in Int BY <1>1
  <1> HIDE DEF a, b
  <1>4. n - m = Capacity * (b - a) BY <1>1, <1>2
  <1>5. b - a > 0 BY <1>1, <1>4
  <1>6. b - a < 1 BY <1>1, <1>4
  <1> QED BY <1>1, <1>5, <1>6

LEMMA CellType == ASSUME NEW m \in Nat PROVE Cell(m) \in 0 .. Capacity - 1
  BY DEF Cell

\* In the window, a cell tells its message.
LEMMA CellsTell ==
    ASSUME LoggerTypes, RingBounds, NEW m \in Window, NEW n \in Window
    PROVE  /\ m \in Nat /\ Cell(m) \in 0 .. Capacity - 1
           /\ Cell(m) = Cell(n) => m = n
  <1>1. m \in Nat /\ n \in Nat /\ m < n + Capacity /\ n < m + Capacity
        BY DEF Window, RingBounds, LoggerTypes
  <1>2. m < n => Cell(m) # Cell(n) BY <1>1, CellsApart
  <1>3. n < m => Cell(m) # Cell(n) BY <1>1, CellsApart
  <1> QED BY <1>1, <1>2, <1>3, CellType

\* A thread enters or leaves a set of threads.
LEMMA Size ==
    ASSUME NEW T, IsFiniteSet(T), NEW S \in SUBSET T
    PROVE  /\ Cardinality(S) \in Nat /\ (Cardinality(S) = 0 <=> S = {})
           /\ \A k \in T \ S : Cardinality(S \cup {k}) = Cardinality(S) + 1
           /\ \A k \in S : Cardinality(S \ {k}) = Cardinality(S) - 1
  <1>1. IsFiniteSet(S) BY FS_Subset
  <1>2. Cardinality(S) \in Nat BY <1>1, FS_CardinalityType
  <1>3. Cardinality(S) = 0 <=> S = {} BY <1>1, FS_EmptySet
  <1>4. \A k \in T \ S : Cardinality(S \cup {k}) = Cardinality(S) + 1 BY <1>1, FS_AddElement
  <1>5. \A k \in S : Cardinality(S \ {k}) = Cardinality(S) - 1 BY <1>1, FS_RemoveElement
  <1> QED BY <1>2, <1>3, <1>4, <1>5

-----------------------------------------------------------------------------
(* The logger, initially and when only its waiters step. *)

LEMMA LoggerStarts == LoggerInit => LoggerInv
  <1> SUFFICES ASSUME LoggerInit PROVE LoggerInv OBVIOUS
  <1> USE DEF LoggerInit, Outside
  <1>1. LoggerTypes BY DEF LoggerTypes
  <1>2. Counted = {} /\ Window = {} BY DEF Counted, Window
  <1>3. CountIsExact BY <1>2, FS_EmptySet DEF CountIsExact, InHand
  <1>4. RingBounds BY DEF RingBounds
  <1>5. EachSomewhere /\ CellsHoldTheirs /\ WritersHaveHoles /\ PoppedIsHead
        BY <1>2 DEF EachSomewhere, CellsHoldTheirs, WritersHaveHoles, PoppedIsHead
  <1>6. LogIsPrefix BY DEF LogIsPrefix, InClaimOrder
  <1>7. StopInOrder BY DEF StopInOrder
  <1> QED BY <1>1, <1>3, <1>4, <1>5, <1>6, <1>7 DEF LoggerInv

\* What a producer has in hand, but for its message, is its own affair.
ringVars == <<ring, head, tail>>
others == <<running, worker, owner, log, promised, gaveUp>>

LEMMA LoggerIdles ==
    ASSUME LoggerInv, UNCHANGED <<ringVars, inFlight, push, others>>
    PROVE  LoggerInv'
  <1> USE DEF LoggerInv, ringVars, others
  <1>1. LoggerTypes' BY DEF LoggerTypes
  <1>2. Counted' = Counted /\ InHand' = InHand BY DEF Counted, InHand
  <1>3. CountIsExact' BY <1>2 DEF CountIsExact
  <1>4. RingBounds' BY DEF RingBounds
  <1>5. EachSomewhere' BY DEF EachSomewhere, Window, MidPush, Cell
  <1>6. CellsHoldTheirs' /\ WritersHaveHoles' BY DEF CellsHoldTheirs, WritersHaveHoles, Window, Cell
  <1>7. PoppedIsHead' BY DEF PoppedIsHead, MidPush, Cell
  <1>8. LogIsPrefix' BY DEF LogIsPrefix, InClaimOrder
  <1>9. StopInOrder' BY DEF StopInOrder
  <1> QED BY <1>1, <1>3, <1>4, <1>5, <1>6, <1>7, <1>8, <1>9

-----------------------------------------------------------------------------
(* push() *)

\* A step of push() outside the claimed cell.
LEMMA PushMoves ==
    ASSUME LoggerInv, UNCHANGED <<ringVars, others>>, NEW p \in Producers,
           push[p].at # "write",
           push' \in [Producers -> [at : {"out", "check", "head", "claim", "write", "drop",
                                         "notify"}, head : Nat, msg : Nat]],
           push'[p].at # "write", push'[p].at = "claim" => push'[p].head <= head,
           \A q \in Producers : q # p => push'[q] = push[q],
           CountIsExact'
    PROVE  LoggerInv'
  <1> USE DEF LoggerInv, ringVars, others
  <1>1. LoggerTypes' BY DEF LoggerTypes
  <1>2. RingBounds' BY DEF RingBounds
  <1>3. \A q \in Producers : /\ push'[q].at = "write" <=> push[q].at = "write"
                             /\ push'[q].at = "write" => push'[q].msg = push[q].msg
        OBVIOUS
  <1>4. \A m : MidPush(m)' <=> MidPush(m) BY <1>3 DEF MidPush
  <1>5. EachSomewhere' BY <1>4 DEF EachSomewhere, Window, Cell
  <1>6. CellsHoldTheirs' BY DEF CellsHoldTheirs, Window, Cell
  <1>7. WritersHaveHoles' BY <1>3 DEF WritersHaveHoles, Window, Cell
  <1>8. PoppedIsHead' BY <1>4 DEF PoppedIsHead, Cell
  <1>9. LogIsPrefix' BY DEF LogIsPrefix, InClaimOrder
  <1>10. StopInOrder' BY DEF StopInOrder
  <1> QED BY <1>1, <1>2, <1>5, <1>6, <1>7, <1>8, <1>9, <1>10

\* The counting of push(): one more, one less, or none.
LEMMA PushCounts ==
    ASSUME LoggerInv, UNCHANGED <<ringVars, others>>, NEW p \in Producers,
           \A q \in Producers : q # p => push'[q] = push[q]
    PROVE  /\ p \in Counted /\ push'[p].at \in {"check", "head", "claim", "drop"}
                /\ inFlight' = inFlight => CountIsExact'
           /\ p \notin Counted /\ push'[p].at \in {"check", "head", "claim", "drop"}
                /\ inFlight' = inFlight + 1 => CountIsExact'
           /\ p \in Counted /\ push'[p].at \in {"out", "notify"}
                /\ inFlight' = inFlight - 1 => CountIsExact'
           /\ p \notin Counted /\ push'[p].at \in {"out", "notify"}
                /\ inFlight' = inFlight => CountIsExact'
  <1> USE DEF LoggerInv, ringVars, others
  <1>1. Counted \in SUBSET Producers BY DEF Counted
  <1>2. /\ Cardinality(Counted) \in Nat
        /\ p \notin Counted => Cardinality(Counted \cup {p}) = Cardinality(Counted) + 1
        /\ p \in Counted => Cardinality(Counted \ {p}) = Cardinality(Counted) - 1
        BY <1>1, Size
  <1>3. push'[p].at \in {"check", "head", "claim", "drop"} => Counted' = Counted \cup {p}
        BY DEF Counted
  <1>4. push'[p].at \in {"out", "notify"} => Counted' = Counted \ {p} BY DEF Counted
  <1>5. p \in Counted => Counted \cup {p} = Counted BY <1>1
  <1>6. p \notin Counted => Counted \ {p} = Counted BY <1>1
  <1>7. InHand' = InHand /\ (tail - head)' = tail - head /\ tail - head \in Int
        BY DEF InHand, LoggerTypes
  <1> DEFINE c == Cardinality(Counted)
             w == tail - head
             h == IF InHand THEN 1 ELSE 0
  <1>8. inFlight = c + w + h /\ c \in Int /\ w \in Int /\ h \in Int
        BY <1>2, <1>7 DEF CountIsExact
  <1>9. CountIsExact' <=> inFlight' = Cardinality(Counted') + w + h BY <1>7 DEF CountIsExact
  <1>10. /\ p \in Counted /\ push'[p].at \in {"check", "head", "claim", "drop"}
              => Cardinality(Counted') = c
         /\ p \notin Counted /\ push'[p].at \in {"check", "head", "claim", "drop"}
              => Cardinality(Counted') = c + 1
         /\ p \in Counted /\ push'[p].at \in {"out", "notify"} => Cardinality(Counted') = c - 1
         /\ p \notin Counted /\ push'[p].at \in {"out", "notify"} => Cardinality(Counted') = c
         BY <1>2, <1>3, <1>4, <1>5, <1>6
  <1> HIDE DEF c, w, h
  <1> QED BY <1>8, <1>9, <1>10

LEMMA PushKeeps ==
    ASSUME LoggerInv, NEW p \in Producers,
           \/ Count(p) \/ CheckAccepting(p) \/ LoadHead(p) \/ Drop(p) \/ DropNotify(p)
           \/ Claim(p) /\ tail - push[p].head >= Capacity
    PROVE  LoggerInv'
  <1> USE DEF GoOn, queue, ringVars, others
  <1>1. UNCHANGED <<ringVars, others>>
        BY DEF Count, CheckAccepting, LoadHead, Drop, DropNotify, Claim
  <1>2. push[p] \in [at : {"out", "check", "head", "claim", "write", "drop", "notify"},
                     head : Nat, msg : Nat] /\ head \in Nat
        BY DEF LoggerInv, LoggerTypes
  <1>3. DOMAIN push = Producers BY DEF LoggerInv, LoggerTypes
  <1>4. /\ push' = [push EXCEPT ![p] = push'[p]]
        /\ push'[p] \in [at : {"out", "check", "head", "claim", "drop", "notify", "write"},
                         head : Nat, msg : Nat]
        /\ push[p].at # "write" /\ push'[p].at # "write"
        /\ push'[p].at = "claim" => push'[p].head <= head
    <2>1. CASE Count(p) BY <1>2, <1>3, <2>1 DEF Count
    <2>2. CASE CheckAccepting(p) BY <1>2, <1>3, <2>2 DEF CheckAccepting
    <2>3. CASE LoadHead(p) BY <1>2, <1>3, <2>3 DEF LoadHead
    <2>4. CASE Drop(p) BY <1>2, <1>3, <2>4 DEF Drop, Outside
    <2>5. CASE DropNotify(p) BY <1>2, <1>3, <2>5 DEF DropNotify
    <2>6. CASE Claim(p) /\ tail - push[p].head >= Capacity BY <1>2, <1>3, <2>6 DEF Claim
    <2> QED BY <2>1, <2>2, <2>3, <2>4, <2>5, <2>6
  <1>5. \A q \in Producers : q # p => push'[q] = push[q] BY <1>3, <1>4
  <1>6. push' \in [Producers -> [at : {"out", "check", "head", "claim", "drop", "notify", "write"},
                                 head : Nat, msg : Nat]]
        BY <1>4 DEF LoggerInv, LoggerTypes
  <1>7. CountIsExact'
    <2>1. p \in Counted <=> push[p].at \in {"check", "head", "claim", "drop"} BY DEF Counted
    <2>2. CASE Count(p) BY <1>1, <1>2, <1>3, <1>5, <2>1, <2>2, PushCounts DEF Count
    <2>3. CASE CheckAccepting(p) \/ LoadHead(p)
          BY <1>1, <1>2, <1>3, <1>5, <2>1, <2>3, PushCounts DEF CheckAccepting, LoadHead
    <2>4. CASE Drop(p) BY <1>1, <1>2, <1>3, <1>5, <2>1, <2>4, PushCounts DEF Drop, Outside
    <2>5. CASE DropNotify(p)
          BY <1>1, <1>2, <1>3, <1>5, <2>1, <2>5, PushCounts DEF DropNotify
    <2>6. CASE Claim(p) /\ tail - push[p].head >= Capacity
          BY <1>1, <1>2, <1>3, <1>5, <2>1, <2>6, PushCounts DEF Claim
    <2> QED BY <2>2, <2>3, <2>4, <2>5, <2>6
  <1> QED BY <1>1, <1>4, <1>5, <1>6, <1>7, PushMoves

\* A cell is claimed: the head the producer read was no newer than the head now.
LEMMA ClaimTakes ==
    ASSUME LoggerInv, NEW p \in Producers, Claim(p), tail - push[p].head < Capacity
    PROVE  LoggerInv'
  <1> USE DEF LoggerInv
  <1>1. /\ head \in Nat /\ tail \in Nat /\ push[p].head \in Nat /\ DOMAIN push = Producers
        /\ Capacity \in Nat
        BY DEF LoggerTypes
  <1>2. /\ push[p].at = "claim" /\ tail' = tail + 1
        /\ push' = [push EXCEPT ![p] = [at |-> "write", head |-> 0, msg |-> tail]]
        /\ UNCHANGED <<ring, head, running, inFlight, worker, owner, log, promised, gaveUp>>
        BY <1>1 DEF Claim
  <1>3. head <= tail /\ tail < head + Capacity BY <1>1, <1>2 DEF RingBounds
  <1>4. Window' = Window \cup {tail} /\ tail \notin Window BY <1>1, <1>2, <1>3 DEF Window
  <1>5. ring[Cell(tail)] = Hole
    <2> SUFFICES ASSUME ring[Cell(tail)] # Hole PROVE FALSE OBVIOUS
    <2> DEFINE m == ring[Cell(tail)]
    <2>1. m \in Window /\ Cell(m) = Cell(tail) BY <1>1, CellType DEF CellsHoldTheirs
    <2>2. m \in Nat /\ m < tail /\ tail < m + Capacity BY <1>1, <1>3, <2>1 DEF Window
    <2> QED BY <1>1, <2>1, <2>2, CellsApart
  <1>6. /\ push'[p] = [at |-> "write", head |-> 0, msg |-> tail]
        /\ \A q \in Producers : q # p => push'[q] = push[q]
        BY <1>1, <1>2
  <1>7. \A m : MidPush(m)' <=> MidPush(m) \/ m = tail BY <1>2, <1>6 DEF MidPush
  <1>8. LoggerTypes' BY <1>1, <1>2 DEF LoggerTypes
  <1>9. CountIsExact'
    <2>1. Counted' = Counted \ {p} /\ p \in Counted /\ Counted \in SUBSET Producers
          BY <1>2, <1>6 DEF Counted
    <2>2. Cardinality(Counted) \in Nat /\ Cardinality(Counted') = Cardinality(Counted) - 1
          BY <2>1, Size
    <2>3. InHand' = InHand BY <1>2 DEF InHand
    <2> DEFINE c == Cardinality(Counted)
               h == IF InHand THEN 1 ELSE 0
    <2>4. inFlight = c + (tail - head) + h /\ c \in Int /\ h \in Int BY <2>2 DEF CountIsExact
    <2>5. CountIsExact' <=> inFlight = Cardinality(Counted') + (tail + 1 - head) + h
          BY <1>1, <1>2, <2>2, <2>3 DEF CountIsExact
    <2>6. Cardinality(Counted') = c - 1 BY <2>2
    <2> HIDE DEF c, h
    <2>7. (c - 1) + (tail + 1 - head) + h = c + (tail - head) + h BY <1>1, <2>4
    <2> QED BY <2>4, <2>5, <2>6, <2>7
  <1>10. RingBounds' BY <1>1, <1>2, <1>3, <1>6 DEF RingBounds
  <1>11. EachSomewhere' BY <1>2, <1>4, <1>7 DEF EachSomewhere, Cell
  <1>12. CellsHoldTheirs' BY <1>2, <1>4 DEF CellsHoldTheirs, Cell
  <1>13. WritersHaveHoles'
    <2>1. \A q \in Producers : push'[q].at = "write" =>
              push'[q].msg \in Window' /\ ring'[Cell(push'[q].msg)] = Hole
          BY <1>2, <1>4, <1>5, <1>6 DEF WritersHaveHoles, Cell
    <2>2. \A q, r \in Producers :
              push'[q].at = "write" /\ push'[r].at = "write" /\ push'[r].msg = push'[q].msg => q = r
          BY <1>2, <1>4, <1>6 DEF WritersHaveHoles
    <2> QED BY <2>1, <2>2 DEF WritersHaveHoles, Cell
  <1>14. PoppedIsHead' BY <1>1, <1>2, <1>7 DEF PoppedIsHead, Cell
  <1>15. LogIsPrefix' BY <1>2 DEF LogIsPrefix, InClaimOrder
  <1>16. StopInOrder' BY <1>1, <1>2 DEF StopInOrder, LoggerTypes
  <1> QED BY <1>8, <1>9, <1>10, <1>11, <1>12, <1>13, <1>14, <1>15, <1>16

\* The cell becomes Ready.
LEMMA PublishKeeps ==
    ASSUME LoggerInv, NEW p \in Producers, Publish(p)
    PROVE  LoggerInv'
  <1> USE DEF LoggerInv
  <1> DEFINE m == push[p].msg
  <1>1. /\ head \in Nat /\ tail \in Nat /\ m \in Nat /\ DOMAIN push = Producers
        /\ DOMAIN ring = 0 .. Capacity - 1
        BY DEF LoggerTypes
  <1>2. /\ push[p].at = "write" /\ ring' = [ring EXCEPT ![Cell(m)] = m]
        /\ push' = [push EXCEPT ![p] = Outside]
        /\ promised' = IF owner = "up" THEN promised \cup {m} ELSE promised
        /\ UNCHANGED <<head, tail, running, inFlight, worker, owner, log, gaveUp>>
        BY DEF Publish
  <1>3. /\ m \in Window /\ Cell(m) \in 0 .. Capacity - 1
        /\ \A n \in Window : Cell(m) = Cell(n) => m = n
        BY <1>2, CellsTell DEF WritersHaveHoles
  <1>4. /\ push'[p].at = "out" /\ Outside \in [at : {"out"}, head : Nat, msg : Nat]
        /\ push'[p] = Outside
        /\ \A q \in Producers : q # p => push'[q] = push[q]
        BY <1>1, <1>2 DEF Outside
  <1>5. /\ ring'[Cell(m)] = m
        /\ \A i \in 0 .. Capacity - 1 : i # Cell(m) => ring'[i] = ring[i]
        BY <1>1, <1>2, <1>3
  <1>6. \A n \in Window : n # m => Cell(n) \in 0 .. Capacity - 1 /\ ring'[Cell(n)] = ring[Cell(n)]
        BY <1>3, <1>5, CellsTell
  <1>7. \A n : MidPush(n)' <=> MidPush(n) /\ n # m
        BY <1>2, <1>4 DEF MidPush, WritersHaveHoles
  <1>8. Window' = Window /\ (\A n : Cell(n)' = Cell(n)) BY <1>2 DEF Window, Cell
  <1> HIDE DEF m
  <1>9. LoggerTypes'
    <2>1. push' \in [Producers -> [at : {"out", "check", "head", "claim", "write", "drop",
                                         "notify"}, head : Nat, msg : Nat]]
          BY <1>1, <1>2, <1>4 DEF LoggerTypes
    <2>2. ring' \in [0 .. Capacity - 1 -> Nat \cup {Hole}] BY <1>1, <1>2, <1>3 DEF LoggerTypes
    <2>3. promised' \in SUBSET Nat BY <1>1, <1>2 DEF LoggerTypes
    <2> QED BY <1>2, <2>1, <2>2, <2>3 DEF LoggerTypes
  <1>10. CountIsExact'
    <2>1. Counted' = Counted BY <1>2, <1>4 DEF Counted
    <2>2. InHand' = InHand BY <1>2 DEF InHand
    <2> QED BY <1>2, <2>1, <2>2 DEF CountIsExact
  <1>11. RingBounds' BY <1>2, <1>4 DEF RingBounds
  <1>12. EachSomewhere' BY <1>2, <1>5, <1>6, <1>7, <1>8 DEF EachSomewhere
  <1>13. CellsHoldTheirs' BY <1>3, <1>5, <1>8 DEF CellsHoldTheirs
  <1>14. WritersHaveHoles'
    <2> SUFFICES ASSUME NEW q \in Producers, push'[q].at = "write"
                 PROVE  /\ push'[q].msg \in Window /\ ring'[Cell(push'[q].msg)] = Hole
                        /\ \A r \in Producers :
                              push'[r].at = "write" /\ push'[r].msg = push'[q].msg => q = r
        BY <1>8 DEF WritersHaveHoles
    <2>1. q # p /\ push'[q] = push[q] BY <1>4
    <2>2. push[q].msg # m BY <1>2, <2>1 DEF WritersHaveHoles, m
    <2>3. push[q].msg \in Window /\ ring[Cell(push[q].msg)] = Hole BY <2>1 DEF WritersHaveHoles
    <2>4. \A r \in Producers : push'[r].at = "write" => r # p /\ push'[r] = push[r] BY <1>4
    <2> QED BY <1>6, <2>1, <2>2, <2>3, <2>4 DEF WritersHaveHoles
  <1>15. PoppedIsHead'
    <2> SUFFICES ASSUME worker.at = "popped" PROVE PoppedIsHead' BY <1>2 DEF PoppedIsHead
    <2>1. worker.msg = head /\ head < tail /\ ring[Cell(head)] = Hole /\ ~MidPush(head)
          BY DEF PoppedIsHead
    <2>2. head \in Window /\ head # m BY <1>1, <1>2, <2>1 DEF Window, MidPush, m
    <2>3. ring'[Cell(head)] = Hole BY <1>6, <2>1, <2>2
    <2> QED BY <1>2, <1>7, <1>8, <2>1, <2>3 DEF PoppedIsHead
  <1>16. LogIsPrefix' BY <1>2 DEF LogIsPrefix, InClaimOrder
  <1>17. StopInOrder'
    <2>1. m < tail BY <1>1, <1>3 DEF Window
    <2>2. owner = "up" => running BY DEF StopInOrder
    <2> QED BY <1>2, <2>1, <2>2 DEF StopInOrder
  <1> QED BY <1>9, <1>10, <1>11, <1>12, <1>13, <1>14, <1>15, <1>16, <1>17

LEMMA ProducerKeeps ==
    ASSUME LoggerInv, NEW p \in Producers, Count(p) \/ PushStep(p)
    PROVE  LoggerInv'
  <1>1. push[p].head \in Nat /\ tail \in Nat /\ Capacity \in Nat
        BY DEF LoggerInv, LoggerTypes
  <1>2. CASE Claim(p) BY <1>1, <1>2, PushKeeps, ClaimTakes
  <1>3. CASE Publish(p) BY <1>3, PublishKeeps
  <1>4. CASE Count(p) \/ CheckAccepting(p) \/ LoadHead(p) \/ Drop(p) \/ DropNotify(p)
        BY <1>4, PushKeeps
  <1> QED BY <1>2, <1>3, <1>4 DEF PushStep

-----------------------------------------------------------------------------
(* run() *)

\* A step of the worker with no message in its hand, before or after.
LEMMA WorkerMoves ==
    ASSUME LoggerInv, UNCHANGED <<ringVars, running, inFlight, push, owner, log, promised>>,
           worker.at \notin {"popped", "dispatch", "uncount"},
           worker' \in [at : {"poll", "pop", "notify", "last", "exited"},
                        draining : BOOLEAN, msg : Nat],
           worker'.draining => ~running,
           worker'.at \in {"last", "exited"} =>
               worker'.draining /\ (~gaveUp' => \A m \in promised : m < head)
    PROVE  LoggerInv'
  <1> USE DEF LoggerInv, ringVars
  <1>1. LoggerTypes' BY DEF LoggerTypes
  <1>2. Counted' = Counted /\ ~InHand /\ ~InHand' BY DEF Counted, InHand
  <1>3. CountIsExact' BY <1>2 DEF CountIsExact
  <1>4. RingBounds' BY DEF RingBounds
  <1>5. EachSomewhere' BY DEF EachSomewhere, Window, MidPush, Cell
  <1>6. CellsHoldTheirs' /\ WritersHaveHoles' BY DEF CellsHoldTheirs, WritersHaveHoles, Window, Cell
  <1>7. PoppedIsHead' BY DEF PoppedIsHead
  <1>8. LogIsPrefix' BY DEF LogIsPrefix, InClaimOrder
  <1>9. StopInOrder' BY DEF StopInOrder
  <1> QED BY <1>1, <1>3, <1>4, <1>5, <1>6, <1>7, <1>8, <1>9

\* When nothing is Ready and nobody has the head's cell in hand, the ring is empty.
LEMMA WorkerIdles ==
    ASSUME LoggerInv, Poll \/ PopNothing \/ WorkerNotify
    PROVE  LoggerInv'
  <1> USE DEF queue, ringVars, WorkerAt
  <1>1. /\ worker \in [at : {"poll", "pop", "popped", "dispatch", "uncount", "notify", "last",
                             "exited"}, draining : BOOLEAN, msg : Nat]
        /\ head \in Nat /\ tail \in Nat
        BY DEF LoggerInv, LoggerTypes
  <1>2. /\ worker.draining => ~running
        /\ \A m \in promised : m < tail
        /\ worker.at \in {"last", "exited"} =>
              worker.draining /\ (~gaveUp => \A m \in promised : m < head)
        BY DEF LoggerInv, StopInOrder
  <1>3. CASE Poll
    <2>1. worker' = [worker EXCEPT !.at = "pop", !.draining = ~running] BY <1>3 DEF Poll
    <2>2. worker'.at = "pop" /\ worker'.draining = ~running /\ worker'.msg = worker.msg
          BY <1>1, <2>1
    <2>3. worker' \in [at : {"poll", "pop", "notify", "last", "exited"},
                       draining : BOOLEAN, msg : Nat]
          BY <1>1, <2>1
    <2> QED BY <1>3, <2>2, <2>3, WorkerMoves DEF Poll
  <1>4. CASE PopNothing
    <2>1. head < tail /\ ~MidPush(head) => Ready
      <3>1. (head < tail => head \in Window) /\ head # Hole BY <1>1 DEF Window
      <3> QED BY <1>4, <3>1 DEF LoggerInv, EachSomewhere, Ready, PopNothing, AtNothing
    <2>2. ~Ready /\ (worker.draining /\ ~gaveUp' => ~MidPush(head))
          BY <1>4 DEF PopNothing, AtNothing
    <2>3. worker.draining /\ ~gaveUp' => \A m \in promised : m < head
      <3>1. worker.draining /\ ~gaveUp' => head = tail
            BY <1>1, <2>1, <2>2 DEF LoggerInv, RingBounds
      <3> QED BY <1>2, <3>1
    <2>4. worker' = [worker EXCEPT !.at = IF worker.draining THEN "last" ELSE "poll"]
          BY <1>4 DEF PopNothing, AtNothing
    <2> QED BY <1>1, <1>2, <1>4, <2>3, <2>4, WorkerMoves DEF PopNothing, AtNothing
  <1>5. CASE WorkerNotify BY <1>1, <1>2, <1>5, WorkerMoves DEF WorkerNotify
  <1> QED BY <1>3, <1>4, <1>5

\* The head's cell is emptied: it held the head.
LEMMA CellPopped ==
    ASSUME LoggerInv, PopReady, worker.at = "pop"
    PROVE  LoggerInv'
  <1> USE DEF LoggerInv
  <1> DEFINE m == ring[Cell(head)]
  <1>1. /\ head \in Nat /\ tail \in Nat /\ DOMAIN ring = 0 .. Capacity - 1
        /\ worker \in [at : {"poll", "pop", "popped", "dispatch", "uncount", "notify", "last",
                             "exited"}, draining : BOOLEAN, msg : Nat]
        BY DEF LoggerTypes
  <1>2. /\ m # Hole /\ worker' = [worker EXCEPT !.at = "popped", !.msg = m]
        /\ ring' = [ring EXCEPT ![Cell(head)] = Hole]
        /\ UNCHANGED <<head, tail, running, inFlight, push, owner, log, promised, gaveUp>>
        BY DEF PopReady, Pop, Ready
  <1>3. Cell(head) \in 0 .. Capacity - 1 BY <1>1, CellType
  <1>4. m \in Window /\ Cell(m) = Cell(head) BY <1>2, <1>3 DEF CellsHoldTheirs
  <1>5. head \in Window /\ head < tail BY <1>1, <1>4 DEF Window
  <1>6. m = head BY <1>4, <1>5, CellsTell
  <1>7. ~MidPush(head) BY <1>2 DEF MidPush, WritersHaveHoles
  <1> HIDE DEF m
  <1>8. /\ worker'.at = "popped" /\ worker'.msg = head /\ worker'.draining = worker.draining
        /\ worker' \in [at : {"popped"}, draining : BOOLEAN, msg : Nat]
        BY <1>1, <1>2, <1>6
  <1>9. /\ ring'[Cell(head)] = Hole
        /\ \A i \in 0 .. Capacity - 1 : i # Cell(head) => ring'[i] = ring[i]
        BY <1>1, <1>2, <1>3
  <1>10. /\ \A n \in Window : n # head => ring'[Cell(n)] = ring[Cell(n)]
         /\ \A n \in Window : ring[Cell(n)] = Hole => ring'[Cell(n)] = Hole
        <2>1. \A n \in Window : Cell(n) \in 0 .. Capacity - 1 /\ (n # head => Cell(n) # Cell(head))
              BY <1>5, CellsTell
        <2> QED BY <1>9, <2>1
  <1>11. Window' = Window /\ (\A n : Cell(n)' = Cell(n)) /\ (\A n : MidPush(n)' <=> MidPush(n))
         BY <1>2 DEF Window, Cell, MidPush
  <1>12. LoggerTypes'
    <2>1. ring' \in [0 .. Capacity - 1 -> Nat \cup {Hole}] BY <1>2 DEF LoggerTypes
    <2> QED BY <1>2, <1>8, <2>1 DEF LoggerTypes
  <1>13. CountIsExact'
    <2>1. Counted' = Counted BY <1>2 DEF Counted
    <2>2. ~InHand /\ ~InHand' BY <1>8 DEF InHand
    <2> QED BY <1>2, <2>1, <2>2 DEF CountIsExact
  <1>14. RingBounds' BY <1>2 DEF RingBounds
  <1>15. EachSomewhere' BY <1>2, <1>8, <1>10, <1>11 DEF EachSomewhere
  <1>16. CellsHoldTheirs' BY <1>9, <1>11 DEF CellsHoldTheirs
  <1>17. WritersHaveHoles' BY <1>2, <1>10, <1>11 DEF WritersHaveHoles
  <1>18. PoppedIsHead' BY <1>2, <1>5, <1>7, <1>8, <1>9, <1>11 DEF PoppedIsHead
  <1>19. LogIsPrefix' BY <1>2, <1>8 DEF LogIsPrefix, InClaimOrder
  <1>20. StopInOrder' BY <1>2, <1>8 DEF StopInOrder
  <1> QED BY <1>12, <1>13, <1>14, <1>15, <1>16, <1>17, <1>18, <1>19, <1>20

\* The head moves on over the cell just emptied.
LEMMA HeadMoves ==
    ASSUME LoggerInv, PopReady, worker.at = "popped"
    PROVE  LoggerInv'
  <1> USE DEF LoggerInv
  <1>1. /\ head \in Nat /\ tail \in Nat /\ Capacity \in Nat
        /\ worker \in [at : {"poll", "pop", "popped", "dispatch", "uncount", "notify", "last",
                             "exited"}, draining : BOOLEAN, msg : Nat]
        BY DEF LoggerTypes
  <1>2. /\ worker' = [worker EXCEPT !.at = "dispatch"] /\ head' = head + 1
        /\ UNCHANGED <<ring, tail, running, inFlight, push, owner, log, promised, gaveUp>>
        BY DEF PopReady, Pop, WorkerAt
  <1>3. worker.msg = head /\ head < tail /\ ring[Cell(head)] = Hole /\ ~MidPush(head)
        BY DEF PoppedIsHead
  <1>4. /\ worker'.at = "dispatch" /\ worker'.msg = head /\ worker'.draining = worker.draining
        /\ worker' \in [at : {"dispatch"}, draining : BOOLEAN, msg : Nat]
        BY <1>1, <1>2, <1>3
  <1>5. Window' = Window \ {head} BY <1>1, <1>2 DEF Window
  <1>6. (\A n : Cell(n)' = Cell(n)) /\ (\A n : MidPush(n)' <=> MidPush(n))
        BY <1>2 DEF Cell, MidPush
  <1>7. LoggerTypes' BY <1>1, <1>2, <1>4 DEF LoggerTypes
  <1>8. CountIsExact'
    <2>1. Counted' = Counted BY <1>2 DEF Counted
    <2>2. ~InHand /\ InHand' BY <1>4 DEF InHand
    <2>3. Cardinality(Counted) \in Int BY Size DEF Counted
    <2>4. CountIsExact' <=> inFlight = Cardinality(Counted) + (tail - (head + 1)) + 1
          BY <1>1, <1>2, <2>1, <2>2, <2>3 DEF CountIsExact
    <2>5. inFlight = Cardinality(Counted) + (tail - head) + 0 BY <2>2 DEF CountIsExact
    <2> QED BY <1>1, <2>3, <2>4, <2>5
  <1>9. RingBounds'
    <2>1. head + 1 <= tail /\ tail <= head + 1 + Capacity BY <1>1, <1>3 DEF RingBounds
    <2>2. \A q \in Producers : push[q].at = "claim" => push[q].head <= head + 1
          BY <1>1 DEF RingBounds, LoggerTypes
    <2> QED BY <1>2, <2>1, <2>2 DEF RingBounds
  <1>10. EachSomewhere' BY <1>2, <1>4, <1>5, <1>6 DEF EachSomewhere
  <1>11. CellsHoldTheirs' BY <1>2, <1>3, <1>5, <1>6 DEF CellsHoldTheirs
  <1>12. WritersHaveHoles' BY <1>2, <1>3, <1>5, <1>6 DEF WritersHaveHoles, MidPush
  <1>13. PoppedIsHead' BY <1>4 DEF PoppedIsHead
  <1>14. LogIsPrefix'
    <2>1. InClaimOrder' BY <1>2 DEF LogIsPrefix, InClaimOrder
    <2>2. Len(log) = head /\ head + 1 - 1 = head BY <1>1 DEF LogIsPrefix
    <2> QED BY <1>2, <1>4, <2>1, <2>2 DEF LogIsPrefix
  <1>15. StopInOrder' BY <1>2, <1>4 DEF StopInOrder
  <1> QED BY <1>7, <1>8, <1>9, <1>10, <1>11, <1>12, <1>13, <1>14, <1>15

\* The message in hand is dispatched, then counted down.
LEMMA HandleKeeps ==
    ASSUME LoggerInv, Dispatch
    PROVE  LoggerInv'
  <1> USE DEF LoggerInv, WorkerAt
  <1>1. /\ head \in Nat /\ tail \in Nat /\ log \in Seq(Nat)
        /\ worker \in [at : {"poll", "pop", "popped", "dispatch", "uncount", "notify", "last",
                             "exited"}, draining : BOOLEAN, msg : Nat]
        BY DEF LoggerTypes
  <1>2. UNCHANGED <<ring, head, tail, running, push, owner, promised, gaveUp>>
        BY DEF Dispatch, queue
  <1>3. /\ worker.at \in {"dispatch", "uncount"}
        /\ worker'.at \in {"uncount", "pop", "notify", "poll"}
        /\ worker' \in [at : {"uncount", "pop", "notify", "poll"}, draining : BOOLEAN, msg : Nat]
        /\ worker'.draining = worker.draining
        BY <1>1 DEF Dispatch, Handle, WhenCounted
  <1>4. Counted' = Counted /\ Cardinality(Counted) \in Int BY <1>2, Size DEF Counted
  <1>5. CountIsExact' /\ log' \in Seq(Nat) /\ LogIsPrefix'
    <2>1. CASE worker.at = "dispatch"
      <3>1. /\ log' = Append(log, worker.msg) /\ inFlight' = inFlight /\ worker'.at = "uncount"
            /\ worker.msg = head - 1 /\ Len(log) = head - 1
            BY <1>1, <2>1 DEF Dispatch, Handle, LogIsPrefix
      <3>2. InHand /\ InHand' BY <2>1, <3>1 DEF InHand
      <3>3. CountIsExact' BY <1>2, <1>4, <3>1, <3>2 DEF CountIsExact
      <3>4. /\ log' \in Seq(Nat) /\ Len(log') = head /\ log'[head] = head - 1
            /\ \A i \in 1 .. head - 1 : log'[i] = log[i]
            BY <1>1, <3>1, AppendProperties
      <3>5. InClaimOrder' BY <1>1, <3>1, <3>4 DEF LogIsPrefix, InClaimOrder
      <3> QED BY <1>2, <3>1, <3>3, <3>4, <3>5 DEF LogIsPrefix
    <2>2. CASE worker.at = "uncount"
      <3>1. /\ log' = log /\ inFlight' = inFlight - 1 /\ worker'.at \in {"pop", "notify", "poll"}
            BY <1>1, <2>2 DEF Dispatch, Handle, WhenCounted
      <3>2. InHand /\ ~InHand' BY <2>2, <3>1 DEF InHand
      <3>3. inFlight = Cardinality(Counted) + (tail - head) + 1 BY <3>2 DEF CountIsExact
      <3>4. inFlight - 1 = Cardinality(Counted) + (tail - head) + 0 BY <1>1, <1>4, <3>3
      <3>5. CountIsExact' BY <1>2, <1>4, <3>1, <3>2, <3>4 DEF CountIsExact
      <3> QED BY <1>1, <1>2, <2>2, <3>1, <3>5 DEF LogIsPrefix, InClaimOrder
    <2> QED BY <1>3, <2>1, <2>2
  <1>6. LoggerTypes' BY <1>2, <1>3, <1>5 DEF LoggerTypes
  <1>7. RingBounds' BY <1>2 DEF RingBounds
  <1>8. EachSomewhere' BY <1>2, <1>3 DEF EachSomewhere, Window, MidPush, Cell
  <1>9. CellsHoldTheirs' /\ WritersHaveHoles'
        BY <1>2 DEF CellsHoldTheirs, WritersHaveHoles, Window, Cell
  <1>10. PoppedIsHead' BY <1>3 DEF PoppedIsHead
  <1>11. StopInOrder' BY <1>2, <1>3 DEF StopInOrder
  <1> QED BY <1>5, <1>6, <1>7, <1>8, <1>9, <1>10, <1>11

LEMMA WorkerKeeps ==
    ASSUME LoggerInv, WorkerStep
    PROVE  LoggerInv'
  <1>1. CASE PopReady BY <1>1, CellPopped, HeadMoves DEF PopReady, Pop
  <1>2. CASE Dispatch BY <1>2, HandleKeeps
  <1>3. CASE Poll \/ PopNothing \/ WorkerNotify BY <1>3, WorkerIdles
  <1> QED BY <1>1, <1>2, <1>3 DEF WorkerStep

-----------------------------------------------------------------------------
(* wait_until_idle() and shutdown_logger() *)

LEMMA WaiterKeeps ==
    ASSUME LoggerInv, NEW w \in Waiters, BeginWait(w) \/ WaitStep(w)
    PROVE  LoggerInv'
  BY LoggerIdles DEF BeginWait, WaitStep, LoadCount, Compare, queue, ringVars, others

\* A step of the shutdown: running_ is cleared on the way to the join.
LEMMA StopKeeps ==
    ASSUME LoggerInv, StopStep \/ ShutdownLogger
    PROVE  LoggerInv'
  <1> USE DEF LoggerInv, StopStep, CloseQueue, StopRunning, Delete, ShutdownLogger, queue
  <1>1. /\ UNCHANGED <<ring, head, tail, inFlight, push, worker, log, promised, gaveUp>>
        /\ owner' \in {"closing", "stopping", "joining", "down"}
        /\ running' => running
        /\ ~running' => owner' \in {"joining", "down"}
        BY DEF StopInOrder
  <1>2. LoggerTypes' BY <1>1 DEF LoggerTypes
  <1>3. Counted' = Counted /\ InHand' = InHand BY <1>1 DEF Counted, InHand
  <1>4. CountIsExact' BY <1>1, <1>3 DEF CountIsExact
  <1>5. RingBounds' BY <1>1 DEF RingBounds
  <1>6. EachSomewhere' BY <1>1 DEF EachSomewhere, Window, MidPush, Cell
  <1>7. CellsHoldTheirs' /\ WritersHaveHoles'
        BY <1>1 DEF CellsHoldTheirs, WritersHaveHoles, Window, Cell
  <1>8. PoppedIsHead' BY <1>1 DEF PoppedIsHead, MidPush, Cell
  <1>9. LogIsPrefix' BY <1>1 DEF LogIsPrefix, InClaimOrder
  <1>10. StopInOrder' BY <1>1 DEF StopInOrder
  <1> QED BY <1>2, <1>4, <1>5, <1>6, <1>7, <1>8, <1>9, <1>10

\* A slot of a channel becomes Ready.
LEMMA Filled ==
    ASSUME NEW s \in Seq(BOOLEAN), NEW k \in 1 .. Len(s), NEW t, t = [s EXCEPT ![k] = TRUE]
    PROVE  /\ t \in Seq(BOOLEAN) /\ Len(t) = Len(s)
           /\ \A i \in 1 .. Len(s) : t[i] <=> (s[i] \/ i = k)
  <1>1. s \in [1 .. Len(s) -> BOOLEAN] /\ Len(s) \in Nat BY LenProperties
  <1>2. t \in [1 .. Len(s) -> BOOLEAN] /\ DOMAIN t = 1 .. Len(s) BY <1>1
  <1>3. t \in Seq(BOOLEAN) BY <1>1, <1>2, SeqDef
  <1>4. Len(t) \in Nat /\ DOMAIN t = 1 .. Len(t) BY <1>3, LenProperties
  <1>5. Len(t) = Len(s) BY <1>1, <1>2, <1>4
  <1>6. \A i \in 1 .. Len(s) : t[i] <=> (s[i] \/ i = k) BY <1>1
  <1> QED BY <1>3, <1>5, <1>6

-----------------------------------------------------------------------------
(* The lane, initially and when it has no part in a step. *)

LEMMA LaneStarts == Init => LaneInv
  <1> SUFFICES ASSUME Init PROVE LaneInv OBVIOUS
  <1> USE DEF Init
  <1>1. LaneTypes BY DEF LaneTypes
  <1>2. Dropping = {} BY DEF Dropping
  <1>3. RecordsAddUp BY <1>2, FS_EmptySet DEF RecordsAddUp
  <1>4. HolesHaveWriters BY DEF HolesHaveWriters
  <1>5. LastCycle BY DEF LastCycle, Drained, Taken
  <1>6. RequestsInOrder BY DEF RequestsInOrder
  <1>7. OwedIsPopped BY DEF OwedIsPopped
  <1>8. SilencedInOrder BY DEF SilencedInOrder, Reporting
  <1> QED BY <1>1, <1>3, <1>4, <1>5, <1>6, <1>7, <1>8 DEF LaneInv

LEMMA LaneIdles ==
    ASSUME LaneInv, UNCHANGED <<channel, flushing, state, lane, live, reporting, teardown>>
    PROVE  LaneInv'
  <1> USE DEF LaneInv, channel, flushing
  <1>1. LaneTypes' BY DEF LaneTypes
  <1>2. Dropping' = Dropping BY DEF Dropping
  <1>3. RecordsAddUp' BY <1>2 DEF RecordsAddUp
  <1>4. HolesHaveWriters' BY DEF HolesHaveWriters
  <1>5. LastCycle' BY <1>2 DEF LastCycle
  <1>6. RequestsInOrder' BY DEF RequestsInOrder
  <1>7. OwedIsPopped' BY DEF OwedIsPopped
  <1>8. SilencedInOrder' BY DEF SilencedInOrder
  <1> QED BY <1>1, <1>3, <1>4, <1>5, <1>6, <1>7, <1>8

-----------------------------------------------------------------------------
(* publish() *)

flushingRest == <<flushing, state, lane, live, reporting, teardown>>

LEMMA ClaimSlotKeeps ==
    ASSUME LaneInv, NEW p \in Publishers, ClaimSlot(p)
    PROVE  LaneInv'
  <1> USE DEF LaneInv, flushingRest, flushing
  <1>1. /\ slots \in Seq(BOOLEAN) /\ Len(slots) \in Nat /\ DOMAIN publish = Publishers
        /\ popped \in Nat /\ popped <= Len(slots) /\ published \in Nat /\ drops \in Nat
        /\ state.lost \in Nat /\ state.count \in Nat
        /\ publish[p] \in [at : {"out", "write", "drop"}, slot : Nat]
        BY DEF LaneTypes
  <1>2. /\ publish[p].at = "out" /\ live /\ published' = published + 1
        /\ UNCHANGED <<popped, drops, flushingRest>>
        BY DEF ClaimSlot
  <1>3. ~lane.stopping BY <1>2 DEF LastCycle
  <1>4. p \notin Dropping /\ Dropping \in SUBSET Publishers BY <1>2 DEF Dropping
  <1>5. /\ Cardinality(Dropping) \in Nat
        /\ Cardinality(Dropping \cup {p}) = Cardinality(Dropping) + 1
        BY <1>4, Size
  <1>6. /\ slots' \in Seq(BOOLEAN) /\ Len(slots') >= Len(slots) /\ Len(slots') \in Nat
        /\ \A i \in 1 .. Len(slots) : slots'[i] = slots[i]
        /\ publish' \in [Publishers -> [at : {"out", "write", "drop"}, slot : Nat]]
        /\ Len(slots') + Cardinality(Dropping') = Len(slots) + Cardinality(Dropping) + 1
        /\ HolesHaveWriters'
    <2>1. CASE Len(slots) - popped < ChannelCapacity
      <3>1. /\ slots' = Append(slots, FALSE)
            /\ publish' = [publish EXCEPT ![p] = [at |-> "write", slot |-> Len(slots) + 1]]
            BY <2>1 DEF ClaimSlot
      <3>2. /\ slots' \in Seq(BOOLEAN) /\ Len(slots') = Len(slots) + 1
            /\ \A i \in 1 .. Len(slots) : slots'[i] = slots[i]
            BY <1>1, <3>1, AppendProperties
      <3>3. /\ publish'[p] = [at |-> "write", slot |-> Len(slots) + 1]
            /\ \A q \in Publishers : q # p => publish'[q] = publish[q]
            BY <1>1, <3>1
      <3>4. publish' \in [Publishers -> [at : {"out", "write", "drop"}, slot : Nat]]
            BY <1>1, <3>1 DEF LaneTypes
      <3>5. Dropping' = Dropping BY <1>2, <3>3 DEF Dropping
      <3>6. HolesHaveWriters'
        <4>1. \A i \in 1 .. Len(slots) : ~slots[i] =>
                  \E q \in Publishers : publish'[q].at = "write" /\ publish'[q].slot = i
              BY <1>2, <3>3 DEF HolesHaveWriters
        <4>2. \E q \in Publishers : publish'[q].at = "write" /\ publish'[q].slot = Len(slots) + 1
              BY <3>3
        <4>3. \A i \in 1 .. Len(slots') : i \in 1 .. Len(slots) \/ i = Len(slots) + 1
              BY <1>1, <3>2
        <4>4. \A q \in Publishers :
                  publish'[q].at = "write" => publish'[q].slot \in 1 .. Len(slots')
          <5>1. Len(slots) + 1 \in 1 .. Len(slots') /\ 1 .. Len(slots) \subseteq 1 .. Len(slots')
                BY <1>1, <3>2
          <5> QED BY <3>3, <5>1 DEF HolesHaveWriters
        <4> QED BY <1>2, <3>2, <4>1, <4>2, <4>3, <4>4 DEF HolesHaveWriters
      <3>7. Len(slots') + Cardinality(Dropping') = Len(slots) + Cardinality(Dropping) + 1
        <4>1. Len(slots') = Len(slots) + 1 BY <3>2
        <4> QED BY <1>1, <1>5, <3>5, <4>1
      <3>8. Len(slots') >= Len(slots) /\ Len(slots') \in Nat BY <1>1, <3>2
      <3> QED BY <3>2, <3>4, <3>6, <3>7, <3>8
    <2>2. CASE ~(Len(slots) - popped < ChannelCapacity)
      <3>1. slots' = slots /\ publish' = [publish EXCEPT ![p].at = "drop"] BY <2>2 DEF ClaimSlot
      <3>2. /\ publish'[p].at = "drop"
            /\ \A q \in Publishers : q # p => publish'[q] = publish[q]
            BY <1>1, <3>1
      <3>3. publish' \in [Publishers -> [at : {"out", "write", "drop"}, slot : Nat]]
            BY <1>1, <3>1 DEF LaneTypes
      <3>4. Dropping' = Dropping \cup {p} BY <3>2 DEF Dropping
      <3>5. HolesHaveWriters' BY <1>2, <3>1, <3>2 DEF HolesHaveWriters
      <3>6. Len(slots') + Cardinality(Dropping') = Len(slots) + Cardinality(Dropping) + 1
            BY <1>1, <1>5, <3>1, <3>4
      <3>7. Len(slots') >= Len(slots) /\ Len(slots') \in Nat BY <1>1, <3>1
      <3> QED BY <1>1, <3>1, <3>3, <3>5, <3>6, <3>7
    <2> QED BY <2>1, <2>2
  <1>7. LaneTypes' BY <1>1, <1>2, <1>6 DEF LaneTypes
  <1>8. RecordsAddUp'
    <2>1. published = Len(slots) + drops + state.lost + Cardinality(Dropping) BY DEF RecordsAddUp
    <2>2. Cardinality(Dropping') \in Int
      <3>1. Dropping' \in SUBSET Publishers BY DEF Dropping
      <3> QED BY <3>1, Size
    <2>3. /\ Len(slots') + Cardinality(Dropping') = Len(slots) + Cardinality(Dropping) + 1
          /\ Len(slots') \in Nat
          BY <1>6
    <2>4. published + 1 = Len(slots') + drops + state.lost + Cardinality(Dropping')
      <3> DEFINE a == Len(slots)
                 b == Len(slots')
                 c == Cardinality(Dropping)
                 d == Cardinality(Dropping')
      <3>1. /\ a \in Int /\ b \in Int /\ c \in Int /\ d \in Int /\ b + d = a + c + 1
            /\ published = a + drops + state.lost + c
            BY <1>1, <1>5, <2>1, <2>2, <2>3
      <3> HIDE DEF a, b, c, d
      <3>2. published + 1 = b + drops + state.lost + d BY <1>1, <3>1
      <3> QED BY <3>2 DEF b, d
    <2> QED BY <1>2, <2>4 DEF RecordsAddUp
  <1>9. LastCycle' BY <1>2, <1>3 DEF LastCycle
  <1>10. RequestsInOrder' BY <1>2 DEF RequestsInOrder
  <1>11. OwedIsPopped'
    <2>1. 1 .. Len(slots) \subseteq 1 .. Len(slots') BY <1>1, <1>6
    <2>2. \A f \in Flushers : \A i \in owed[f] :
              i \in 1 .. Len(slots') /\ \A j \in 1 .. i : slots'[j]
      <3> SUFFICES ASSUME NEW f \in Flushers, NEW i \in owed[f], NEW j \in 1 .. i
                   PROVE  i \in 1 .. Len(slots') /\ slots'[j]
          BY <2>1 DEF OwedIsPopped
      <3>1. i \in 1 .. Len(slots) /\ slots[j] BY DEF OwedIsPopped
      <3>2. j \in 1 .. Len(slots) BY <1>1, <3>1
      <3> QED BY <1>6, <2>1, <3>1, <3>2
    <2> QED BY <1>2, <2>2 DEF OwedIsPopped
  <1>12. SilencedInOrder' BY <1>2 DEF SilencedInOrder
  <1> QED BY <1>6, <1>7, <1>8, <1>9, <1>10, <1>11, <1>12

LEMMA FillSlotKeeps ==
    ASSUME LaneInv, NEW p \in Publishers, FillSlot(p)
    PROVE  LaneInv'
  <1> USE DEF LaneInv, flushingRest, flushing
  <1>1. /\ slots \in Seq(BOOLEAN) /\ Len(slots) \in Nat /\ DOMAIN publish = Publishers
        /\ publish[p] \in [at : {"out", "write", "drop"}, slot : Nat]
        BY DEF LaneTypes
  <1>2. /\ publish[p].at = "write" /\ slots' = [slots EXCEPT ![publish[p].slot] = TRUE]
        /\ publish' = [publish EXCEPT ![p].at = "out"]
        /\ UNCHANGED <<popped, drops, published, flushingRest>>
        BY DEF FillSlot
  <1>3. publish[p].slot \in 1 .. Len(slots) BY <1>2 DEF HolesHaveWriters
  <1>4. /\ slots' \in Seq(BOOLEAN) /\ Len(slots') = Len(slots)
        /\ \A i \in 1 .. Len(slots) : slots'[i] <=> (slots[i] \/ i = publish[p].slot)
        BY <1>1, <1>2, <1>3, Filled
  <1>5. /\ publish'[p].at = "out"
        /\ \A q \in Publishers : q # p => publish'[q] = publish[q]
        BY <1>1, <1>2
  <1>6. Dropping' = Dropping BY <1>2, <1>5 DEF Dropping
  <1>7. publish' \in [Publishers -> [at : {"out", "write", "drop"}, slot : Nat]]
        BY <1>1, <1>2 DEF LaneTypes
  <1>8. LaneTypes' BY <1>2, <1>4, <1>7 DEF LaneTypes
  <1>9. RecordsAddUp' BY <1>2, <1>4, <1>6 DEF RecordsAddUp
  <1>10. HolesHaveWriters' BY <1>2, <1>4, <1>5 DEF HolesHaveWriters
  <1>11. LastCycle' BY <1>2, <1>4, <1>6 DEF LastCycle
  <1>12. RequestsInOrder' BY <1>2 DEF RequestsInOrder
  <1>13. OwedIsPopped' BY <1>1, <1>2, <1>4 DEF OwedIsPopped
  <1>14. SilencedInOrder' BY <1>2 DEF SilencedInOrder
  <1> QED BY <1>8, <1>9, <1>10, <1>11, <1>12, <1>13, <1>14

LEMMA CountDropKeeps ==
    ASSUME LaneInv, NEW p \in Publishers, CountDrop(p)
    PROVE  LaneInv'
  <1> USE DEF LaneInv, flushingRest, flushing
  <1>1. /\ Len(slots) \in Nat /\ DOMAIN publish = Publishers /\ drops \in Nat
        /\ state.lost \in Nat
        /\ publish[p] \in [at : {"out", "write", "drop"}, slot : Nat]
        BY DEF LaneTypes
  <1>2. /\ publish[p].at = "drop" /\ drops' = drops + 1
        /\ publish' = [publish EXCEPT ![p].at = "out"]
        /\ UNCHANGED <<slots, popped, published, flushingRest>>
        BY DEF CountDrop
  <1>3. live /\ ~lane.stopping BY <1>2 DEF HolesHaveWriters, LastCycle
  <1>4. /\ publish'[p].at = "out"
        /\ \A q \in Publishers : q # p => publish'[q] = publish[q]
        BY <1>1, <1>2
  <1>5. Dropping' = Dropping \ {p} /\ p \in Dropping /\ Dropping \in SUBSET Publishers
        BY <1>2, <1>4 DEF Dropping
  <1>6. Cardinality(Dropping) \in Nat /\ Cardinality(Dropping') = Cardinality(Dropping) - 1
        BY <1>5, Size
  <1>7. publish' \in [Publishers -> [at : {"out", "write", "drop"}, slot : Nat]]
        BY <1>1, <1>2 DEF LaneTypes
  <1>8. LaneTypes' BY <1>1, <1>2, <1>7 DEF LaneTypes
  <1>9. RecordsAddUp'
    <2> DEFINE c == Cardinality(Dropping)
    <2>1. published = Len(slots) + drops + state.lost + c /\ c \in Int
          BY <1>6 DEF RecordsAddUp
    <2>2. Cardinality(Dropping') = c - 1 BY <1>6
    <2> HIDE DEF c
    <2>3. published = Len(slots) + (drops + 1) + state.lost + (c - 1) BY <1>1, <2>1
    <2> QED BY <1>2, <2>2, <2>3 DEF RecordsAddUp
  <1>10. HolesHaveWriters' BY <1>2, <1>3, <1>4 DEF HolesHaveWriters
  <1>11. LastCycle' BY <1>2, <1>3 DEF LastCycle
  <1>12. RequestsInOrder' BY <1>2 DEF RequestsInOrder
  <1>13. OwedIsPopped' BY <1>2 DEF OwedIsPopped
  <1>14. SilencedInOrder' BY <1>2 DEF SilencedInOrder
  <1> QED BY <1>8, <1>9, <1>10, <1>11, <1>12, <1>13, <1>14

-----------------------------------------------------------------------------
(* flush_now() and quiesce() *)

\* A request is a step of the teardown or of none.
LEMMA RequestKeeps ==
    ASSUME LaneInv, NEW f \in Flushers, Request(f),
           \/ f # Owner /\ teardown' = teardown
           \/ f = Owner /\ (Teardown("running", "finalReport") \/ Teardown("silenced", "barrier"))
    PROVE  LaneInv'
  <1> USE DEF LaneInv, channel
  <1>1. /\ request \in Nat /\ done \in Nat /\ lane.served \in Nat /\ DOMAIN flush = Flushers
        /\ DOMAIN owed = Flushers /\ slots \in Seq(BOOLEAN) /\ Len(slots) \in Nat
        /\ \A g \in Flushers : flush[g].target \in Nat
        BY DEF LaneTypes
  <1>2. /\ request' = request + 1
        /\ flush' = [flush EXCEPT ![f] = [at |-> "test", target |-> request + 1]]
        /\ owed' = [owed EXCEPT ![f] = ReadyPrefix]
        /\ UNCHANGED <<channel, done, state, lane, live, reporting>>
        BY DEF Request
  <1>3. /\ flush'[f].at = "test" /\ flush'[f].target = request + 1 /\ owed'[f] = ReadyPrefix
        /\ \A g \in Flushers : g # f => flush'[g] = flush[g] /\ owed'[g] = owed[g]
        BY <1>1, <1>2
  <1>4. done <= lane.served /\ lane.served <= request BY DEF RequestsInOrder
  <1>5. ReadyPrefix \in SUBSET Nat /\ \A i \in ReadyPrefix :
            i \in 1 .. Len(slots) /\ \A j \in 1 .. i : slots[j]
        BY <1>1 DEF ReadyPrefix
  <1>6. LaneTypes'
    <2>1. flush' \in [Flushers -> [at : {"out", "test", "asleep"}, target : Nat]]
          BY <1>1, <1>2 DEF LaneTypes
    <2>2. owed' \in [Flushers -> SUBSET Nat] BY <1>1, <1>2, <1>5 DEF LaneTypes
    <2>3. teardown' \in {"running", "finalReport", "silenced", "barrier", "quiesced"}
          BY DEF Teardown, LaneTypes
    <2> QED BY <1>1, <1>2, <2>1, <2>2, <2>3 DEF LaneTypes
  <1>7. Dropping' = Dropping BY <1>2 DEF Dropping
  <1>8. RecordsAddUp' BY <1>2, <1>7 DEF RecordsAddUp
  <1>9. HolesHaveWriters' BY <1>2 DEF HolesHaveWriters
  <1>10. LastCycle' BY <1>2, <1>7 DEF LastCycle
  <1>11. RequestsInOrder' BY <1>1, <1>2, <1>3 DEF RequestsInOrder
  <1>12. OwedIsPopped'
    <2> SUFFICES ASSUME NEW g \in Flushers
                 PROVE  /\ \A i \in owed'[g] : i \in 1 .. Len(slots) /\ \A j \in 1 .. i : slots[j]
                        /\ flush'[g].at # "out" /\ done >= flush'[g].target =>
                              owed'[g] \subseteq 1 .. popped
                        /\ flush'[g].at # "out" /\ lane.served >= flush'[g].target
                              /\ lane.at \in Drained => owed'[g] \subseteq 1 .. popped
        BY <1>2 DEF OwedIsPopped
    <2>1. CASE g = f
      <3>1. ~(done >= request + 1) /\ ~(lane.served >= request + 1) BY <1>1, <1>4
      <3> QED BY <1>3, <1>5, <2>1, <3>1
    <2>2. CASE g # f BY <1>3, <2>2 DEF OwedIsPopped
    <2> QED BY <2>1, <2>2
  <1>13. SilencedInOrder'
    <2>1. CASE f # Owner /\ teardown' = teardown
          BY <1>2, <1>3, <2>1 DEF SilencedInOrder
    <2>2. CASE Teardown("running", "finalReport")
          BY <1>2, <2>2 DEF SilencedInOrder, Teardown
    <2>3. CASE Teardown("silenced", "barrier") /\ f = Owner
          BY <1>1, <1>2, <1>3, <1>4, <2>3 DEF SilencedInOrder, Teardown
    <2> QED BY <2>1, <2>2, <2>3
  <1> QED BY <1>6, <1>8, <1>9, <1>10, <1>11, <1>12, <1>13

\* The flusher's test of what is done.
LEMMA FlushTestKeeps ==
    ASSUME LaneInv, NEW f \in Flushers, FlushTest(f)
    PROVE  LaneInv'
  <1> USE DEF LaneInv, channel
  <1>1. /\ flush[f].at = "test"
        /\ flush' = [flush EXCEPT ![f].at = IF done >= flush[f].target THEN "out" ELSE "asleep"]
        /\ UNCHANGED <<channel, request, done, owed, state, lane, live, reporting, teardown>>
        BY DEF FlushTest
  <1>2. /\ DOMAIN flush = Flushers
        /\ flush[f] \in [at : {"out", "test", "asleep"}, target : Nat]
        BY DEF LaneTypes
  <1>3. /\ flush'[f].target = flush[f].target
        /\ flush'[f].at = "out" => done >= flush[f].target
        /\ flush'[f] \in [at : {"out", "test", "asleep"}, target : Nat]
        /\ \A g \in Flushers : g # f => flush'[g] = flush[g]
        BY <1>1, <1>2
  <1>4. \A g \in Flushers : /\ flush'[g].target = flush[g].target
                            /\ flush'[g].at # "out" => flush[g].at # "out"
        BY <1>1, <1>3
  <1>5. LaneTypes'
    <2>1. flush' \in [Flushers -> [at : {"out", "test", "asleep"}, target : Nat]]
          BY <1>1, <1>2 DEF LaneTypes
    <2> QED BY <1>1, <2>1 DEF LaneTypes
  <1>6. Dropping' = Dropping BY <1>1 DEF Dropping
  <1>7. RecordsAddUp' BY <1>1, <1>6 DEF RecordsAddUp
  <1>8. HolesHaveWriters' BY <1>1 DEF HolesHaveWriters
  <1>9. LastCycle' BY <1>1, <1>6 DEF LastCycle
  <1>10. RequestsInOrder' BY <1>1, <1>4 DEF RequestsInOrder
  <1>11. OwedIsPopped' BY <1>1, <1>4 DEF OwedIsPopped
  <1>12. SilencedInOrder' BY <1>1, <1>3, <1>4 DEF SilencedInOrder
  <1> QED BY <1>5, <1>7, <1>8, <1>9, <1>10, <1>11, <1>12

\* quiesce() between its flushes, and the lane's destructor.
LEMMA TeardownKeeps ==
    ASSUME LaneInv, SilenceReporter \/ Quiesced \/ StopLane
    PROVE  LaneInv'
  <1> USE DEF LaneInv, SilenceReporter, Quiesced, StopLane, Teardown
  <1>1. UNCHANGED <<channel, flushing, state, lane>>
        OBVIOUS
  <1>2. UNCHANGED <<slots, popped, publish, drops, published, request, done, flush, owed,
                    state, lane>>
        BY <1>1 DEF channel, flushing
  <1>3. LaneTypes' BY <1>2 DEF LaneTypes
  <1>4. Dropping' = Dropping BY <1>2 DEF Dropping
  <1>5. RecordsAddUp' BY <1>2, <1>4 DEF RecordsAddUp
  <1>6. HolesHaveWriters' BY <1>2 DEF HolesHaveWriters
  <1>7. LastCycle' BY <1>2, <1>4 DEF LastCycle
  <1>8. RequestsInOrder' BY <1>2 DEF RequestsInOrder
  <1>9. OwedIsPopped' BY <1>2 DEF OwedIsPopped
  <1>10. SilencedInOrder'
    <2>1. CASE SilenceReporter BY <1>2, <2>1 DEF SilencedInOrder
    <2>2. CASE Quiesced
      <3>1. done >= flush[Owner].target /\ done <= lane.served
            BY <2>2 DEF SilencedInOrder, RequestsInOrder
      <3>2. done \in Nat /\ lane.served \in Nat /\ flush[Owner].target \in Nat
            BY DEF LaneTypes
      <3>3. ~(lane.served < flush[Owner].target) BY <3>1, <3>2
      <3> QED BY <1>2, <2>2, <3>3 DEF SilencedInOrder
    <2>3. CASE StopLane BY <1>2, <2>3 DEF SilencedInOrder
    <2> QED BY <2>1, <2>2, <2>3
  <1> QED BY <1>3, <1>5, <1>6, <1>7, <1>8, <1>9, <1>10

-----------------------------------------------------------------------------
(* worker_main() *)

\* A cycle begins: it serves every request made so far.
LEMMA WakeUpKeeps ==
    ASSUME LaneInv, WakeUp
    PROVE  LaneInv'
  <1> USE DEF LaneInv, channel, flushing
  <1>1. /\ lane' = [at |-> "drain", served |-> request, stopping |-> ~live]
        /\ UNCHANGED <<channel, flushing, state, live, reporting, teardown>>
        BY DEF WakeUp
  <1>2. /\ request \in Nat /\ done \in Nat /\ lane.served \in Nat /\ live \in BOOLEAN
        /\ done <= lane.served /\ lane.served <= request
        BY DEF LaneTypes, RequestsInOrder
  <1>3. /\ lane' \in [at : {"drain"}, served : Nat, stopping : BOOLEAN]
        /\ lane'.at = "drain" /\ lane'.served = request /\ lane'.stopping = ~live
        BY <1>1, <1>2
  <1>4. lane'.at \notin Drained /\ lane'.at \notin Taken /\ lane'.at \notin Reporting
        BY <1>3 DEF Drained, Taken, Reporting
  <1>5. LaneTypes' BY <1>1, <1>3 DEF LaneTypes
  <1>6. Dropping' = Dropping BY <1>1 DEF Dropping
  <1>7. RecordsAddUp' BY <1>1, <1>6 DEF RecordsAddUp
  <1>8. HolesHaveWriters' BY <1>1 DEF HolesHaveWriters
  <1>9. LastCycle' BY <1>1, <1>3, <1>4 DEF LastCycle
  <1>10. RequestsInOrder' BY <1>1, <1>2, <1>3 DEF RequestsInOrder
  <1>11. OwedIsPopped' BY <1>1, <1>4 DEF OwedIsPopped, Drained
  <1>12. SilencedInOrder' BY <1>1, <1>4 DEF SilencedInOrder, Reporting
  <1> QED BY <1>5, <1>7, <1>8, <1>9, <1>10, <1>11, <1>12

\* The drain pops what is Ready without a gap, all of it before it ends.
LEMMA IngestKeeps ==
    ASSUME LaneInv, Ingest
    PROVE  LaneInv'
  <1> USE DEF LaneInv, LaneKeeps
  <1>1. /\ slots \in Seq(BOOLEAN) /\ Len(slots) \in Nat /\ popped \in Nat /\ popped <= Len(slots)
        /\ state \in [count : Nat, reported : Nat, lost : Nat, lostReported : Nat]
        /\ lane \in [at : {"wait", "drain", "drops", "check", "entry", "entryLogged", "loss",
                           "lossLogged", "ack", "notify", "exited"},
                     served : Nat, stopping : BOOLEAN]
        BY DEF LaneTypes
  <1>2. /\ lane.at = "drain"
        /\ UNCHANGED <<drops, done, flush, slots, publish, published, request, owed, live,
                       reporting, teardown>>
        BY DEF Ingest
  <1>3. Dropping' = Dropping BY <1>2 DEF Dropping
  <1>4. HolesHaveWriters' BY <1>2 DEF HolesHaveWriters
  <1>5. CASE popped < Len(slots) /\ slots[popped + 1]
    <2>1. popped' = popped + 1 /\ state' = [state EXCEPT !.count = @ + 1] /\ lane' = lane
          BY <1>5 DEF Ingest
    <2>2. /\ state'.count = state.count + 1 /\ state'.lost = state.lost
          /\ state' \in [count : Nat, reported : Nat, lost : Nat, lostReported : Nat]
          BY <1>1, <2>1
    <2>3. LaneTypes'
      <3>1. popped' \in Nat /\ popped' <= Len(slots) BY <1>1, <1>5, <2>1
      <3> QED BY <1>2, <2>1, <2>2, <3>1 DEF LaneTypes
    <2>4. RecordsAddUp' BY <1>2, <1>3, <2>1, <2>2 DEF RecordsAddUp
    <2>5. LastCycle' BY <1>2, <2>1 DEF LastCycle, Drained, Taken
    <2>6. RequestsInOrder' BY <1>2, <2>1 DEF RequestsInOrder
    <2>7. OwedIsPopped'
      <3>1. 1 .. popped \subseteq 1 .. popped' BY <1>1, <2>1
      <3> QED BY <1>2, <2>1, <3>1 DEF OwedIsPopped
    <2>8. SilencedInOrder' BY <1>2, <2>1 DEF SilencedInOrder
    <2> QED BY <1>4, <2>3, <2>4, <2>5, <2>6, <2>7, <2>8
  <1>6. CASE ~(popped < Len(slots) /\ slots[popped + 1])
    <2>1. popped' = popped /\ state' = state /\ lane' = [lane EXCEPT !.at = "drops"]
          BY <1>6 DEF Ingest, LaneAt
    <2>2. /\ lane'.at = "drops" /\ lane'.served = lane.served /\ lane'.stopping = lane.stopping
          /\ lane' \in [at : {"drops"}, served : Nat, stopping : BOOLEAN]
          BY <1>1, <2>1
    <2>3. LaneTypes' BY <1>2, <2>1, <2>2 DEF LaneTypes
    <2>4. RecordsAddUp' BY <1>2, <1>3, <2>1 DEF RecordsAddUp
    <2>5. LastCycle'
      <3>1. lane.stopping => popped = Len(slots)
        <4> SUFFICES ASSUME lane.stopping, popped # Len(slots) PROVE FALSE OBVIOUS
        <4>1. popped + 1 \in 1 .. Len(slots) /\ popped < Len(slots) BY <1>1
        <4>2. ~slots[popped + 1] BY <1>6, <4>1
        <4>3. \A p \in Publishers : publish[p].at = "out" BY DEF LastCycle, HolesHaveWriters
        <4> QED BY <4>1, <4>2, <4>3 DEF HolesHaveWriters
      <3> QED BY <1>2, <2>1, <2>2, <3>1 DEF LastCycle, Taken
    <2>6. RequestsInOrder' BY <1>2, <2>2 DEF RequestsInOrder
    <2>7. OwedIsPopped'
      <3>1. \A f \in Flushers : owed[f] \subseteq 1 .. popped
        <4> SUFFICES ASSUME NEW f \in Flushers, NEW i \in owed[f], i \notin 1 .. popped
                     PROVE  FALSE
            OBVIOUS
        <4>1. i \in 1 .. Len(slots) /\ \A j \in 1 .. i : slots[j] BY DEF OwedIsPopped
        <4>2. popped + 1 \in 1 .. i /\ popped < Len(slots) BY <1>1, <4>1
        <4> QED BY <1>6, <4>1, <4>2
      <3> QED BY <1>2, <2>1, <3>1 DEF OwedIsPopped
    <2>8. SilencedInOrder' BY <1>2, <2>2 DEF SilencedInOrder, Reporting
    <2> QED BY <1>4, <2>3, <2>4, <2>5, <2>6, <2>7, <2>8
  <1> QED BY <1>5, <1>6

\* The losses are taken over; in the last cycle nobody counts another.
LEMMA NoteDropsKeeps ==
    ASSUME LaneInv, NoteDrops
    PROVE  LaneInv'
  <1> USE DEF LaneInv, LaneKeeps
  <1>1. /\ drops \in Nat /\ Len(slots) \in Nat
        /\ state \in [count : Nat, reported : Nat, lost : Nat, lostReported : Nat]
        /\ lane \in [at : {"wait", "drain", "drops", "check", "entry", "entryLogged", "loss",
                           "lossLogged", "ack", "notify", "exited"},
                     served : Nat, stopping : BOOLEAN]
        BY DEF LaneTypes
  <1>2. /\ lane.at = "drops" /\ drops' = 0 /\ state' = [state EXCEPT !.lost = @ + drops]
        /\ lane' = [lane EXCEPT !.at = "check"]
        /\ UNCHANGED <<popped, done, flush, slots, publish, published, request, owed, live,
                       reporting, teardown>>
        BY DEF NoteDrops, TakeDrops, LaneAt
  <1>3. /\ state'.count = state.count /\ state'.lost = state.lost + drops
        /\ state' \in [count : Nat, reported : Nat, lost : Nat, lostReported : Nat]
        /\ lane'.at = "check" /\ lane'.served = lane.served /\ lane'.stopping = lane.stopping
        /\ lane' \in [at : {"check"}, served : Nat, stopping : BOOLEAN]
        BY <1>1, <1>2
  <1>4. Dropping' = Dropping BY <1>2 DEF Dropping
  <1>5. LaneTypes' BY <1>2, <1>3 DEF LaneTypes
  <1>6. RecordsAddUp'
    <2>1. Cardinality(Dropping) \in Int BY Size DEF Dropping
    <2>2. Len(slots) + drops + state.lost + Cardinality(Dropping)
            = Len(slots) + 0 + (state.lost + drops) + Cardinality(Dropping)
          BY <1>1, <2>1
    <2> QED BY <1>2, <1>3, <1>4, <2>2 DEF RecordsAddUp
  <1>7. HolesHaveWriters' BY <1>2 DEF HolesHaveWriters
  <1>8. LastCycle'
    <2>1. lane.stopping => Dropping = {} BY DEF LastCycle, HolesHaveWriters, Dropping
    <2>2. lane.stopping => popped = Len(slots) BY <1>2 DEF LastCycle, Drained
    <2> QED BY <1>2, <1>3, <1>4, <2>1, <2>2 DEF LastCycle
  <1>9. RequestsInOrder' BY <1>2, <1>3 DEF RequestsInOrder
  <1>10. OwedIsPopped' BY <1>2, <1>3 DEF OwedIsPopped, Drained
  <1>11. SilencedInOrder' BY <1>2, <1>3 DEF SilencedInOrder, Reporting
  <1> QED BY <1>5, <1>6, <1>7, <1>8, <1>9, <1>10, <1>11

\* The rest of a cycle: the report, the acknowledgement, and who is told.
LEMMA CycleMoves ==
    ASSUME LaneInv, UNCHANGED <<channel, request, owed, live, reporting, teardown>>,
           lane' \in [at : {"entry", "entryLogged", "loss", "lossLogged", "ack", "notify", "wait",
                            "exited"}, served : Nat, stopping : BOOLEAN],
           lane.at \in Taken, lane'.served = lane.served, lane'.stopping = lane.stopping,
           lane'.at = "exited" => lane.stopping,
           lane'.at \in Reporting => lane.at \in Reporting \/ reporting,
           flush' \in [Flushers -> [at : {"out", "test", "asleep"}, target : Nat]],
           \A f \in Flushers : /\ flush'[f].target = flush[f].target
                               /\ flush'[f].at = "out" <=> flush[f].at = "out",
           done' = done \/ done' = lane.served,
           state' \in [count : Nat, reported : Nat, lost : Nat, lostReported : Nat],
           state'.count = state.count, state'.lost = state.lost
    PROVE  LaneInv'
  <1> USE DEF LaneInv, channel
  <1>1. /\ lane.served \in Nat /\ done \in Nat /\ done <= lane.served /\ lane.served <= request
        /\ request \in Nat
        BY DEF LaneTypes, RequestsInOrder
  <1>2. lane.at \in Drained BY DEF Taken
  <1>3. done' \in Nat /\ done' <= lane.served /\ done <= done' BY <1>1
  <1>4. LaneTypes' BY <1>3 DEF LaneTypes
  <1>5. Dropping' = Dropping BY DEF Dropping
  <1>6. RecordsAddUp' BY <1>5 DEF RecordsAddUp
  <1>7. HolesHaveWriters' BY DEF HolesHaveWriters
  <1>8. LastCycle' BY <1>2, <1>5 DEF LastCycle
  <1>9. RequestsInOrder' BY <1>3 DEF RequestsInOrder
  <1>10. OwedIsPopped' BY <1>2 DEF OwedIsPopped
  <1>11. SilencedInOrder'
    <2>1. Owner \in Flushers /\ flush[Owner].target \in Nat BY DEF LaneTypes
    <2>2. (reporting <=> teardown \in {"running", "finalReport"})' BY DEF SilencedInOrder
    <2>3. teardown \in {"barrier", "quiesced"} /\ lane'.at \in Reporting =>
              lane'.served < flush'[Owner].target
          BY <2>1 DEF SilencedInOrder
    <2>4. teardown = "barrier" /\ flush'[Owner].at = "out" => done' >= flush'[Owner].target
          BY <1>1, <1>3, <2>1 DEF SilencedInOrder
    <2>5. teardown = "quiesced" => lane'.at \notin Reporting BY DEF SilencedInOrder
    <2> QED BY <2>2, <2>3, <2>4, <2>5 DEF SilencedInOrder
  <1> QED BY <1>4, <1>6, <1>7, <1>8, <1>9, <1>10, <1>11

LEMMA CycleKeeps ==
    ASSUME LaneInv, CheckReporting \/ LogLine \/ LineLogged \/ Ack \/ LaneNotify
    PROVE  LaneInv'
  <1> USE DEF LaneKeeps, LaneAt, channel
  <1>1. /\ lane \in [at : {"wait", "drain", "drops", "check", "entry", "entryLogged", "loss",
                           "lossLogged", "ack", "notify", "exited"},
                     served : Nat, stopping : BOOLEAN]
        /\ state \in [count : Nat, reported : Nat, lost : Nat, lostReported : Nat]
        /\ flush \in [Flushers -> [at : {"out", "test", "asleep"}, target : Nat]]
        BY DEF LaneInv, LaneTypes
  <1>2. UNCHANGED <<channel, request, owed, live, reporting, teardown>>
        BY DEF CheckReporting, LogLine, LineLogged, Ack, LaneNotify
  <1>3. CASE CheckReporting
    <2>1. /\ lane.at = "check" /\ UNCHANGED <<done, flush, state>>
          /\ lane' = [lane EXCEPT !.at = IF reporting THEN "entry" ELSE "ack"]
          BY <1>3 DEF CheckReporting
    <2> QED BY <1>1, <1>2, <2>1, CycleMoves DEF Taken, Drained, Reporting
  <1>4. CASE LogLine
    <2>1. /\ lane.at \in {"entry", "loss"} /\ UNCHANGED <<done, flush, state>>
          /\ \E at \in {"entryLogged", "lossLogged", "loss", "ack"} :
                lane' = [lane EXCEPT !.at = at]
          BY <1>4 DEF LogLine, NextLine
    <2> QED BY <1>1, <1>2, <2>1, CycleMoves DEF Taken, Drained, Reporting
  <1>5. CASE LineLogged
    <2>1. /\ lane.at \in {"entryLogged", "lossLogged"} /\ UNCHANGED <<done, flush>>
          /\ \E at \in {"loss", "ack"} : lane' = [lane EXCEPT !.at = at]
          BY <1>5 DEF LineLogged, NextLine
    <2>2. /\ state' \in [count : Nat, reported : Nat, lost : Nat, lostReported : Nat]
          /\ state'.count = state.count /\ state'.lost = state.lost
          BY <1>1, <1>5 DEF LineLogged
    <2> QED BY <1>1, <1>2, <2>1, <2>2, CycleMoves DEF Taken, Drained, Reporting
  <1>6. CASE Ack
    <2>1. /\ lane.at = "ack" /\ done' = lane.served /\ UNCHANGED <<flush, state>>
          /\ lane' = [lane EXCEPT !.at = "notify"]
          BY <1>6 DEF Ack
    <2> QED BY <1>1, <1>2, <2>1, CycleMoves DEF Taken, Drained, Reporting
  <1>7. CASE LaneNotify
    <2>1. /\ lane.at = "notify" /\ UNCHANGED <<done, state>>
          /\ lane' = [lane EXCEPT !.at = IF lane.stopping THEN "exited" ELSE "wait"]
          BY <1>7 DEF LaneNotify
    <2>2. /\ flush' \in [Flushers -> [at : {"out", "test", "asleep"}, target : Nat]]
          /\ \A f \in Flushers : /\ flush'[f].target = flush[f].target
                                 /\ flush'[f].at = "out" <=> flush[f].at = "out"
          BY <1>1, <1>7 DEF LaneNotify, FlushersTold
    <2> QED BY <1>1, <1>2, <2>1, <2>2, CycleMoves DEF Taken, Drained, Reporting
  <1> QED BY <1>3, <1>4, <1>5, <1>6, <1>7

-----------------------------------------------------------------------------
(* Every step, and what follows. *)

Inv == LoggerInv /\ LaneInv

\* A thread pushes, a message at a time; the lane is one of them.
LEMMA PushersKeep ==
    ASSUME Inv, \/ \E p \in Producers : AppPush(p)
                \/ LogLine /\ News
    PROVE  LoggerInv'
  BY ProducerKeeps DEF Inv, AppPush, LogLine

\* A step in which the logger has no part.
LEMMA LoggerUnmoved ==
    ASSUME LoggerInv, UNCHANGED loggerVars
    PROVE  LoggerInv'
  BY LoggerIdles DEF loggerVars, queue, ringVars, others

LEMMA LoggerInductive == Inv /\ [Next]_vars => LoggerInv'
  <1> SUFFICES ASSUME Inv, [Next]_vars PROVE LoggerInv' OBVIOUS
  <1> USE DEF Inv
  <1>1. CASE LoggerStep
        BY <1>1, ProducerKeeps, WorkerKeeps, StopKeeps, WaiterKeeps DEF LoggerStep
  <1>2. CASE LaneStep
    <2>1. CASE LogLine /\ News BY <2>1, PushersKeep
    <2>2. CASE ~(LogLine /\ News)
      <3>1. UNCHANGED loggerVars
            BY <1>2, <2>2 DEF LaneStep, WakeUp, Ingest, NoteDrops, CheckReporting, LogLine,
               LineLogged, Ack, LaneNotify
      <3> QED BY <3>1, LoggerUnmoved
    <2> QED BY <2>1, <2>2
  <1>3. CASE TeardownStep \/ BeginQuiesce \/ StopLane
        BY <1>3, LoggerUnmoved DEF TeardownStep, SilenceReporter, Barrier, Quiesced,
           BeginQuiesce, StopLane, Request
  <1>4. CASE \E p \in Producers : AppPush(p) BY <1>4, PushersKeep
  <1>5. CASE \E w \in Waiters : WaitUntilIdle(w) BY <1>5, WaiterKeeps DEF WaitUntilIdle
  <1>6. CASE \E p \in Publishers : ClaimSlot(p) \/ PublishStep(p)
        BY <1>6, LoggerUnmoved DEF ClaimSlot, PublishStep, FillSlot, CountDrop
  <1>7. CASE \E f \in Flushers : FlushNow(f) \/ FlushTest(f)
        BY <1>7, LoggerUnmoved DEF FlushNow, FlushTest, Request
  <1>8. CASE ShutdownLogger BY <1>8, StopKeeps
  <1>9. CASE UNCHANGED vars BY <1>9, LoggerUnmoved DEF vars
  <1> QED BY <1>1, <1>2, <1>3, <1>4, <1>5, <1>6, <1>7, <1>8, <1>9 DEF Next

LEMMA LaneInductive == Inv /\ [Next]_vars => LaneInv'
  <1> SUFFICES ASSUME Inv, [Next]_vars PROVE LaneInv' OBVIOUS
  <1> USE DEF Inv
  <1>1. CASE LoggerStep \/ ShutdownLogger \/ UNCHANGED vars
        BY <1>1, LaneIdles DEF LoggerStep, ShutdownLogger, vars, laneVars
  <1>2. CASE LaneStep
        BY <1>2, WakeUpKeeps, IngestKeeps, NoteDropsKeeps, CycleKeeps DEF LaneStep
  <1>3. CASE SilenceReporter \/ Quiesced \/ StopLane BY <1>3, TeardownKeeps
  <1>4. CASE Barrier \/ BeginQuiesce BY <1>4, RequestKeeps DEF Barrier, BeginQuiesce
  <1>5. CASE \E p \in Producers : AppPush(p) BY <1>5, LaneIdles DEF AppPush
  <1>6. CASE \E w \in Waiters : WaitUntilIdle(w) BY <1>6, LaneIdles DEF WaitUntilIdle
  <1>7. CASE \E p \in Publishers : ClaimSlot(p) \/ PublishStep(p)
        BY <1>7, ClaimSlotKeeps, FillSlotKeeps, CountDropKeeps DEF PublishStep
  <1>8. CASE \E f \in Flushers : FlushNow(f) \/ FlushTest(f)
        BY <1>8, RequestKeeps, FlushTestKeeps DEF FlushNow
  <1> QED BY <1>1, <1>2, <1>3, <1>4, <1>5, <1>6, <1>7, <1>8 DEF Next, TeardownStep

\* The logger and the lane never leave their invariants.
THEOREM LoggingIsSound == Spec => []Inv
  <1>1. Init => Inv BY LoggerStarts, LaneStarts DEF Inv, Init
  <1>2. Inv /\ [Next]_vars => Inv' BY LoggerInductive, LaneInductive DEF Inv
  <1> QED BY <1>1, <1>2, PTL DEF Spec

\* LoggerState::run(): for any number of threads, a ring of any size and any
\* interleaving, the sinks get every message once and in the order of the claims.
THEOREM DispatchedInClaimOrder == Spec => []InClaimOrder
  <1>1. Inv => InClaimOrder BY DEF Inv, LoggerInv, LogIsPrefix
  <1> QED BY <1>1, LoggingIsSound, PTL

\* LoggerState::wait_until_idle(): whenever in_flight_ is zero, every message that
\* has a place in the ring has been dispatched.
THEOREM IdleMeansDispatched == Spec => []IdleIsABarrier
  <1>1. Inv => IdleIsABarrier
    <2> SUFFICES ASSUME Inv, inFlight = 0 PROVE Len(log) = tail BY DEF IdleIsABarrier
    <2> USE DEF Inv, LoggerInv
    <2>1. Cardinality(Counted) \in Nat
      <3>1. Counted \in SUBSET Producers BY DEF Counted
      <3> QED BY <3>1, Size
    <2>2. /\ head \in Nat /\ tail \in Nat /\ head <= tail
          /\ 0 = Cardinality(Counted) + (tail - head) + (IF InHand THEN 1 ELSE 0)
          BY DEF LoggerTypes, RingBounds, CountIsExact
    <2>3. ~InHand /\ head = tail BY <2>1, <2>2
    <2> QED BY <2>3 DEF InHand, LogIsPrefix
  <1> QED BY <1>1, LoggingIsSound, PTL

\* LoggerState::stop(): when the worker is gone, every message accepted before the
\* shutdown began is with the sinks, unless the drain gave up on a producer.
THEOREM ShutdownLosesNothing == Spec => []NothingLostAtShutdown
  <1>1. Inv => NothingLostAtShutdown
        BY DEF Inv, LoggerInv, NothingLostAtShutdown, StopInOrder, LogIsPrefix
  <1> QED BY <1>1, LoggingIsSound, PTL

\* LoggerServiceLane::quiesce(): once it has returned, no cycle reports, however
\* long ago that cycle read reporting_.
THEOREM QuiesceIsFinal == Spec => []QuiesceSilences
  <1>1. Inv => QuiesceSilences
        BY DEF Inv, LaneInv, QuiesceSilences, SilencedInOrder, Reporting
  <1> QED BY <1>1, LoggingIsSound, PTL

\* LoggerServiceLane::flush_now(): when a flush may return, whatever was Ready
\* without a gap when it was requested has been folded in.
THEOREM FlushIsABarrier == Spec => []FlushDrains
  <1>1. Inv => FlushDrains BY DEF Inv, LaneInv, FlushDrains, OwedIsPopped
  <1> QED BY <1>1, LoggingIsSound, PTL

\* ~LoggerServiceLane(): when the lane's thread is gone, every record published is
\* either folded in or counted as lost, and none is both.
THEOREM NoRecordUncounted == Spec => []EveryOccurrenceCounted
  <1>1. Inv => EveryOccurrenceCounted
    <2> SUFFICES ASSUME Inv, lane.at = "exited" PROVE state.count + state.lost = published
        BY DEF EveryOccurrenceCounted
    <2> USE DEF Inv, LaneInv
    <2>1. lane.stopping /\ popped = Len(slots) /\ drops = 0 /\ Dropping = {}
          BY DEF LastCycle, Drained, Taken
    <2>2. Cardinality(Dropping) = 0 BY <2>1, FS_EmptySet
    <2>3. Len(slots) \in Nat /\ state.lost \in Nat /\ state.count = Len(slots)
          BY <2>1 DEF LaneTypes, RecordsAddUp
    <2>4. published = Len(slots) + 0 + state.lost + 0 BY <2>1, <2>2 DEF RecordsAddUp
    <2> QED BY <2>3, <2>4
  <1> QED BY <1>1, LoggingIsSound, PTL

====
