---- MODULE PoolProofs ----
(***************************************************************************)
(* The task pool.  Its work-stealing deque, with the store buffer of x64,  *)
(* implements the abstract deque for any number of thieves, any initial    *)
(* capacity and any number of tasks.  Its workers, over such deques, the   *)
(* injection queue and the resumable list, lose no task and double none.   *)
(***************************************************************************)
EXTENDS WorkStealingDeque, TaskPool, FiniteSetTheorems, SequenceTheorems, TLAPS

-----------------------------------------------------------------------------
(* The versions of the owner's words: what the others see, and what is yet to reach *)
(* memory, oldest first.  The last is what the owner sees.                          *)

Arrays == UNION {[0 .. n - 1 -> Nat] : n \in Nat \ {0}}
Version == [bottom : Int, array : Nat, arrays : Seq(Arrays)]
Ver(j) == IF j = 0 THEN shared ELSE buffer[j]
Versions == 0 .. Len(buffer)
Content(v, i) == Get(v, v.array, i)            \* the task at index i
OwnCap == Cap(Own, Own.array)

Popping == opc \in {"fence", "race", "restore"}
OwnBack == IF Popping THEN Own.bottom + 1 ELSE Own.bottom
Live == top .. OwnBack - 1                     \* the indices of tasks, a pop's included

DequeTypes ==
    /\ top \in Nat /\ shared \in Version /\ buffer \in Seq(Version)
    /\ opc \in {"idle", "put", "publish", "fence", "race", "restore"} /\ ot \in Nat
    /\ spc \in [Thieves -> {"idle", "bottom", "array", "slot", "swap"}]
    /\ st \in [Thieves -> Nat] /\ sa \in [Thieves -> Nat] /\ sv \in [Thieves -> Nat]
    /\ pushed \in 0 .. MaxTasks /\ handed \in [0 .. MaxTasks -> Nat]

\* An array is written to only while it is the last; the bottom goes up one by one, and
\* down only by the pop that waits for its store to reach memory.
VersionsInOrder ==
    /\ \A j \in Versions : /\ Ver(j).array \in Nat \ {0} /\ Ver(j).array = Len(Ver(j).arrays)
                           /\ top - 1 <= Ver(j).bottom /\ Ver(j).bottom <= OwnBack
    /\ \A j, k \in Versions : j <= k => Ver(j).array <= Ver(k).array
    /\ \A j \in 1 .. Len(buffer) :
          IF j = Len(buffer) /\ opc = "fence"
            THEN Ver(j).bottom = Ver(j - 1).bottom - 1
            ELSE Ver(j).bottom \in {Ver(j - 1).bottom, Ver(j - 1).bottom + 1}
    /\ \A j, k \in Versions : j <= k =>
          IF k = Len(buffer) /\ opc = "fence"
            THEN Ver(j).bottom <= Ver(k).bottom + 1
            ELSE Ver(j).bottom <= Ver(k).bottom
    /\ opc \in {"race", "restore"} => buffer = <<>>

\* Whoever reads a task through an array of an older version finds what the owner finds.
VersionsAgree ==
    \A j, k \in Versions : j <= k =>
        \A i \in top .. Ver(j).bottom - 1 : Get(Ver(k), Ver(j).array, i) = Content(Own, i)

\* The live range fits the array, with room for the task being put.
RangeFits ==
    /\ top <= OwnBack /\ OwnBack - top <= OwnCap
    /\ opc = "put" => ot <= top /\ Own.bottom - ot <= OwnCap
    /\ opc = "publish" => Own.bottom - top < OwnCap /\ Content(Own, Own.bottom) = pushed
    /\ opc = "race" => ot = Own.bottom /\ ot <= top
    /\ opc = "restore" => top = OwnBack

\* A task in the range was pushed, is there once and has not been handed out.
TasksDistinct ==
    /\ \A i \in Live : Content(Own, i) \in 1 .. pushed /\ handed[Content(Own, i)] = 0
    /\ \A i, j \in Live : Content(Own, i) = Content(Own, j) => i = j
    /\ \A t \in 0 .. MaxTasks : t > pushed => handed[t] = 0
    /\ opc \in {"put", "publish"} =>
          /\ pushed >= 1 /\ handed[pushed] = 0
          /\ \A i \in Live : Content(Own, i) # pushed

\* A thief that will win has the oldest task.
ThiefHolds(s) ==
    /\ spc[s] # "idle" => st[s] <= top
    /\ spc[s] = "slot" => sa[s] \in 1 .. shared.array
    /\ spc[s] \in {"array", "slot", "swap"} /\ st[s] = top =>
          /\ top < Back
          /\ spc[s] = "slot" =>
                \A k \in Versions : Get(Ver(k), sa[s], top) = Content(Own, top)
          /\ spc[s] = "swap" => sv[s] = Content(Own, top)

Inv ==
    /\ DequeTypes /\ VersionsInOrder /\ VersionsAgree /\ RangeFits /\ TasksDistinct
    /\ \A s \in Thieves : ThiefHolds(s)

USE CapacityAssumption, BoundAssumption

-----------------------------------------------------------------------------
(* Arrays and their slots. *)

\* Indices less than a ring apart have different slots.
LEMMA SlotsApart ==
    ASSUME NEW n \in Nat \ {0}, NEW i \in Nat, NEW j \in Nat, i # j, i < j + n, j < i + n
    PROVE  i % n # j % n
  <1>1. ASSUME NEW k \in Nat, NEW l \in Nat, k < l, l < k + n PROVE k % n # l % n
    <2> SUFFICES ASSUME k % n = l % n PROVE FALSE OBVIOUS
    <2> DEFINE a == k \div n
               b == l \div n
    <2>1. a \in Int /\ b \in Int /\ k = n * a + (k % n) /\ l = n * b + (l % n) BY <1>1
    <2>2. l - k = n * b - n * a BY <1>1, <2>1
    <2>3. b - a \in Int BY <2>1
    <2> HIDE DEF a, b
    <2>4. l - k = n * (b - a) BY <2>1, <2>2
    <2>5. b - a > 0 BY <1>1, <2>1, <2>4
    <2>6. b - a < 1 BY <1>1, <2>1, <2>4
    <2> QED BY <2>1, <2>5, <2>6
  <1>2. CASE i < j BY <1>1, <1>2
  <1>3. CASE j < i BY <1>1, <1>3
  <1> QED BY <1>2, <1>3

LEMMA ArrayCap ==
    ASSUME NEW n \in Nat \ {0}, NEW x \in [0 .. n - 1 -> Nat]
    PROVE  x \in Arrays /\ DOMAIN x = 0 .. n - 1 /\ Cardinality(DOMAIN x) = n
  <1>1. DOMAIN x = 0 .. n - 1 OBVIOUS
  <1>2. Cardinality(0 .. n - 1) = n BY FS_Interval
  <1> QED BY <1>1, <1>2 DEF Arrays

LEMMA GetType ==
    ASSUME NEW v \in Version, NEW a \in 1 .. Len(v.arrays)
    PROVE  /\ Cap(v, a) \in Nat \ {0} /\ v.arrays[a] \in [0 .. Cap(v, a) - 1 -> Nat]
           /\ \A i \in Nat : i % Cap(v, a) \in 0 .. Cap(v, a) - 1 /\ Get(v, a, i) \in Nat
  <1>1. v.arrays \in Seq(Arrays) BY DEF Version
  <1>2. v.arrays[a] \in Arrays BY <1>1, ElementOfSeq
  <1>3. PICK n \in Nat \ {0} : v.arrays[a] \in [0 .. n - 1 -> Nat] BY <1>2 DEF Arrays
  <1>4. Cap(v, a) = n BY <1>3, ArrayCap DEF Cap
  <1>5. \A i \in Nat : i % n \in 0 .. n - 1 BY <1>3
  <1> QED BY <1>3, <1>4, <1>5 DEF Get

-----------------------------------------------------------------------------
(* Versions. *)

LEMMA OwnIsLast ==
    ASSUME DequeTypes
    PROVE  /\ Len(buffer) \in Nat /\ Len(buffer) \in Versions /\ Own = Ver(Len(buffer))
           /\ \A j \in Versions : Ver(j) \in Version
           /\ buffer = <<>> <=> Len(buffer) = 0
  <1>1. buffer \in Seq(Version) /\ Len(buffer) \in Nat /\ shared \in Version BY DEF DequeTypes
  <1>2. buffer = <<>> <=> Len(buffer) = 0 BY <1>1, EmptySeq
  <1>3. \A j \in Versions : j # 0 => buffer[j] \in Version
        BY <1>1, ElementOfSeq DEF Versions
  <1> QED BY <1>1, <1>2, <1>3 DEF Own, Ver, Versions

LEMMA WriteAdds ==
    ASSUME DequeTypes, NEW v \in Version, Write(v)
    PROVE  /\ buffer' \in Seq(Version) /\ Len(buffer') = Len(buffer) + 1 /\ buffer' # <<>>
           /\ Versions' = Versions \cup {Len(buffer) + 1}
           /\ \A j \in Versions : Ver(j)' = Ver(j)
           /\ \A j : j = Len(buffer) + 1 => Ver(j)' = v
           /\ Own' = v /\ top' = top /\ shared' = shared
  <1>1. buffer \in Seq(Version) /\ Len(buffer) \in Nat BY DEF DequeTypes
  <1>2. buffer' = Append(buffer, v) /\ top' = top /\ shared' = shared BY DEF Write
  <1>3. /\ buffer' \in Seq(Version) /\ Len(buffer') = Len(buffer) + 1 /\ buffer' # <<>>
        /\ \A i \in 1 .. Len(buffer) : buffer'[i] = buffer[i]
        /\ buffer'[Len(buffer) + 1] = v
        BY <1>1, <1>2, AppendProperties
  <1>4. Versions' = Versions \cup {Len(buffer) + 1} BY <1>1, <1>3 DEF Versions
  <1>5. \A j \in Versions : Ver(j)' = Ver(j) BY <1>1, <1>2, <1>3 DEF Ver, Versions
  <1>6. \A j : j = Len(buffer) + 1 => Ver(j)' = v BY <1>1, <1>3 DEF Ver
  <1>7. Own' = v BY <1>3 DEF Own
  <1> QED BY <1>2, <1>3, <1>4, <1>5, <1>6, <1>7

LEMMA FlushShifts ==
    ASSUME DequeTypes, Flush
    PROVE  /\ buffer' \in Seq(Version) /\ Len(buffer') = Len(buffer) - 1 /\ Len(buffer) >= 1
           /\ \A j \in Versions' : j + 1 \in Versions /\ Ver(j)' = Ver(j + 1)
           /\ shared' \in Version /\ shared' = Ver(1) /\ Own' = Own
  <1>1. buffer \in Seq(Version) /\ Len(buffer) \in Nat BY DEF DequeTypes
  <1>2. buffer # <<>> /\ shared' = Head(buffer) /\ buffer' = Tail(buffer) BY DEF Flush
  <1>3. /\ Head(buffer) = buffer[1] /\ Head(buffer) \in Version /\ Tail(buffer) \in Seq(Version)
        /\ Len(Tail(buffer)) = Len(buffer) - 1 /\ Len(buffer) >= 1
        /\ \A i \in 1 .. Len(Tail(buffer)) : Tail(buffer)[i] = buffer[i + 1]
    <2>1. Len(buffer) >= 1 BY <1>1, <1>2, EmptySeq
    <2> QED BY <1>1, <1>2, <2>1, HeadTailProperties
  <1>4. \A j \in Versions' : j + 1 \in Versions /\ Ver(j)' = Ver(j + 1)
        BY <1>1, <1>2, <1>3 DEF Versions, Ver
  <1>5. shared' = Ver(1) BY <1>2, <1>3 DEF Ver
  <1>6. Own' = Own
    <2>1. CASE Len(buffer) = 1
      <3>1. buffer' = <<>> BY <1>2, <1>3, <2>1, EmptySeq
      <3> QED BY <1>2, <1>3, <2>1, <3>1 DEF Own
    <2>2. CASE Len(buffer) > 1
      <3>1. Len(buffer') \in 1 .. Len(Tail(buffer)) BY <1>1, <1>2, <1>3, <2>2
      <3>3. buffer' # <<>> BY <3>1
      <3>2. buffer'[Len(buffer')] = buffer[Len(buffer') + 1] BY <1>2, <1>3, <3>1
      <3> QED BY <1>1, <1>2, <1>3, <3>1, <3>2, <3>3 DEF Own
    <2> QED BY <1>1, <1>3, <2>1, <2>2
  <1> QED BY <1>2, <1>3, <1>4, <1>5, <1>6

\* The two ends of the live range.
LEMMA Ends ==
    ASSUME Inv
    PROVE  /\ top \in Nat /\ Own \in Version /\ shared \in Version /\ Own.bottom \in Int
           /\ shared.bottom \in Int /\ OwnBack \in Int /\ Back \in Int
           /\ Own.array \in Nat \ {0} /\ Own.array = Len(Own.arrays)
           /\ shared.array \in Nat \ {0} /\ shared.array = Len(shared.arrays)
           /\ shared.array <= Own.array
           /\ OwnCap \in Nat \ {0}
           /\ top - 1 <= Back /\ Back <= OwnBack /\ top <= OwnBack
           /\ buffer = <<>> => Back = OwnBack /\ shared = Own
           /\ Live \subseteq Nat /\ top .. Back - 1 \subseteq Live
           /\ \A i \in top .. Back - 1 : Content(shared, i) = Content(Own, i)
  <1> USE DEF Inv
  <1>1. /\ Len(buffer) \in Nat /\ Own = Ver(Len(buffer)) /\ Own \in Version
        /\ 0 \in Versions /\ Len(buffer) \in Versions /\ shared = Ver(0) /\ shared \in Version
        /\ top \in Nat
        BY OwnIsLast DEF Versions, Ver, DequeTypes
  <1>2. /\ Own.bottom \in Int /\ shared.bottom \in Int BY <1>1 DEF Version
  <1>3. /\ Own.array \in Nat \ {0} /\ Own.array = Len(Own.arrays)
        /\ shared.array \in Nat \ {0} /\ shared.array = Len(shared.arrays)
        /\ shared.array <= Own.array
        /\ top - 1 <= shared.bottom /\ shared.bottom <= OwnBack
        BY <1>1 DEF VersionsInOrder, Versions
  <1>4. OwnCap \in Nat \ {0}
    <2>1. Own.array \in 1 .. Len(Own.arrays) BY <1>3
    <2> QED BY <1>1, <2>1, GetType DEF OwnCap
  <1>5. OwnBack \in Int /\ Back \in Int BY <1>2 DEF OwnBack, Back
  <1>6. buffer = <<>> => shared = Own /\ Back = OwnBack
        BY DEF Own, Back, OwnBack, Reserved, Popping
  <1>7. top <= OwnBack BY DEF RangeFits
  <1>8. top - 1 <= Back /\ Back <= OwnBack
        BY <1>1, <1>2, <1>3, <1>5, <1>6, <1>7 DEF Back, Reserved
  <1>9. Live \subseteq Nat /\ top .. Back - 1 \subseteq Live BY <1>1, <1>5, <1>8 DEF Live
  <1>10. \A i \in top .. Back - 1 : Content(shared, i) = Content(Own, i)
    <2>1. CASE buffer = <<>> BY <1>6, <2>1
    <2>2. CASE buffer # <<>>
      <3>1. Back = shared.bottom BY <2>2 DEF Back, Reserved
      <3>2. \A i \in top .. shared.bottom - 1 : Get(Ver(0), Ver(0).array, i) = Content(Own, i)
            BY <1>1 DEF VersionsAgree, Versions
      <3> QED BY <1>1, <3>1, <3>2 DEF Content
    <2> QED BY <2>1, <2>2
  <1> QED BY <1>1, <1>2, <1>3, <1>4, <1>5, <1>6, <1>7, <1>8, <1>9, <1>10

-----------------------------------------------------------------------------
(* Initially. *)

LEMMA InvStarts == Init => Inv
  <1> SUFFICES ASSUME Init PROVE Inv OBVIOUS
  <1> USE DEF Init
  <1>1. EmptyArray(Capacity) \in [0 .. Capacity - 1 -> Nat] BY DEF EmptyArray, NoTask
  <1>2. EmptyArray(Capacity) \in Arrays /\ Cardinality(DOMAIN EmptyArray(Capacity)) = Capacity
        BY <1>1, ArrayCap
  <1>3. <<EmptyArray(Capacity)>> \in Seq(Arrays) /\ Len(<<EmptyArray(Capacity)>>) = 1
        BY <1>2
  <1>4. shared \in Version BY <1>3 DEF Version
  <1>5. buffer \in Seq(Version) /\ Len(buffer) = 0 BY EmptySeq
  <1>6. handed \in [0 .. MaxTasks -> Nat] BY DEF NoTask, Tasks
  <1>7. DequeTypes BY <1>4, <1>5, <1>6 DEF DequeTypes, NoTask
  <1>8. /\ Versions = {0} /\ Ver(0) = shared /\ Own = shared /\ Back = 0 /\ OwnBack = 0
        /\ Live = {} /\ ~Popping /\ 1 .. Len(buffer) = {}
        BY <1>5 DEF Versions, Ver, Own, Back, Reserved, OwnBack, Live, Popping
  <1>9. shared.bottom = 0 /\ shared.array = 1 /\ Len(shared.arrays) = 1 BY <1>3
  <1>10. VersionsInOrder
    <2>1. \A j \in Versions : j = 0 /\ Ver(j) = shared BY <1>8
    <2>2. \A j \in Versions :
             /\ Ver(j).array \in Nat \ {0} /\ Ver(j).array = Len(Ver(j).arrays)
             /\ top - 1 <= Ver(j).bottom /\ Ver(j).bottom <= OwnBack
      <3> TAKE j \in Versions
      <3>1. Ver(j) = shared BY <2>1
      <3>2. top = 0 /\ OwnBack = 0 BY <1>8
      <3>3. /\ shared.array \in Nat \ {0} /\ shared.array = Len(shared.arrays)
            /\ top - 1 <= shared.bottom /\ shared.bottom <= OwnBack
            BY ONLY <1>9, <3>2
      <3> QED BY ONLY <3>1, <3>3
    <2>3. \A j, k \in Versions : j <= k => Ver(j).array <= Ver(k).array BY <1>9, <2>1
    <2>4. \A j \in 1 .. Len(buffer) : FALSE BY <1>8
    <2>5. \A j, k \in Versions : Ver(j).bottom <= Ver(k).bottom BY <1>9, <2>1
    <2>6. opc = "idle" OBVIOUS
    <2> QED BY ONLY <2>2, <2>3, <2>4, <2>5, <2>6 DEF VersionsInOrder
  <1>11. VersionsAgree BY <1>8, <1>9 DEF VersionsAgree
  <1>12. RangeFits
    <2>1. OwnCap = Capacity BY <1>2, <1>8 DEF OwnCap, Cap
    <2> QED BY <1>8, <2>1 DEF RangeFits
  <1>13. TasksDistinct BY <1>8 DEF TasksDistinct, NoTask, Tasks
  <1>14. \A s \in Thieves : ThiefHolds(s) BY DEF ThiefHolds
  <1> QED BY <1>7, <1>10, <1>11, <1>12, <1>13, <1>14 DEF Inv

-----------------------------------------------------------------------------
(* A store of the owner: one more version at the end. *)

LEMMA WriteInOrder ==
    ASSUME Inv, NEW v \in Version, Write(v), opc # "fence",
           opc' \in {"idle", "put", "publish", "fence"}, OwnBack' \in Int,
           IF opc' = "fence" THEN v.bottom = Own.bottom - 1
                             ELSE v.bottom \in {Own.bottom, Own.bottom + 1},
           v.array \in Nat \ {0}, v.array = Len(v.arrays), Own.array <= v.array,
           top - 1 <= v.bottom, v.bottom <= OwnBack', OwnBack <= OwnBack'
    PROVE  VersionsInOrder'
  <1> DEFINE n == Len(buffer)
  <1>1. /\ DequeTypes /\ n \in Nat /\ n \in Versions /\ Own = Ver(n) /\ Versions = 0 .. n
        /\ Versions' = Versions \cup {n + 1} /\ Len(buffer') = n + 1 /\ top' = top
        /\ \A j \in Versions : Ver(j)' = Ver(j) /\ Ver(j) \in Version
        /\ \A j : j = n + 1 => Ver(j)' = v
        BY OwnIsLast, WriteAdds DEF Inv, Versions
  <1>2. /\ top \in Nat /\ OwnBack \in Int /\ v.bottom \in Int /\ Own.bottom \in Int
        /\ \A j \in Versions : Ver(j).bottom \in Int
        BY <1>1, Ends DEF Version
  <1>3. /\ \A j \in Versions : Ver(j).array \in Nat \ {0} /\ Ver(j).array = Len(Ver(j).arrays)
                                /\ top - 1 <= Ver(j).bottom /\ Ver(j).bottom <= OwnBack
        /\ \A j, k \in Versions : j <= k => Ver(j).array <= Ver(k).array
        /\ \A j \in 1 .. n : Ver(j).bottom \in {Ver(j - 1).bottom, Ver(j - 1).bottom + 1}
        /\ \A j, k \in Versions : j <= k => Ver(j).bottom <= Ver(k).bottom
        BY DEF Inv, VersionsInOrder
  <1> HIDE DEF n
  <1>4. \A j \in Versions' : /\ Ver(j)'.array \in Nat \ {0}
                             /\ Ver(j)'.array = Len(Ver(j)'.arrays)
                             /\ top' - 1 <= Ver(j)'.bottom /\ Ver(j)'.bottom <= OwnBack'
    <2> TAKE j \in Versions'
    <2>1. CASE j \in Versions
      <3>1. Ver(j)' = Ver(j) /\ Ver(j).bottom <= OwnBack /\ top - 1 <= Ver(j).bottom
            BY <1>1, <1>3, <2>1
      <3>2. Ver(j).bottom <= OwnBack' BY <1>2, <2>1, <3>1
      <3> QED BY <1>1, <1>3, <2>1, <3>1, <3>2
    <2>2. CASE j = n + 1
      <3>1. Ver(j)' = v BY <1>1, <2>2
      <3> QED BY <1>1, <3>1
    <2> QED BY <1>1, <2>1, <2>2
  <1>5. \A j, k \in Versions' : j <= k => Ver(j)'.array <= Ver(k)'.array
    <2> SUFFICES ASSUME NEW j \in Versions', NEW k \in Versions', j <= k
                 PROVE  Ver(j)'.array <= Ver(k)'.array
        OBVIOUS
    <2>1. CASE k \in Versions BY <1>1, <1>3, <2>1
    <2>2. CASE k = n + 1
      <3>1. Ver(k)' = v BY <1>1, <2>2
      <3>2. CASE j \in Versions
        <4>1. Ver(j).array <= Own.array /\ Ver(j).array \in Nat /\ Own.array \in Nat
              BY <1>1, <1>3, <3>2
        <4>2. Ver(j)' = Ver(j) BY <1>1, <3>2
        <4> QED BY <3>1, <4>1, <4>2
      <3>3. CASE j = n + 1 BY <1>1, <3>1, <3>3
      <3> QED BY <1>1, <3>2, <3>3
    <2> QED BY <1>1, <2>1, <2>2
  <1>6. \A j \in 1 .. Len(buffer') :
           IF j = Len(buffer') /\ opc' = "fence"
             THEN Ver(j)'.bottom = Ver(j - 1)'.bottom - 1
             ELSE Ver(j)'.bottom \in {Ver(j - 1)'.bottom, Ver(j - 1)'.bottom + 1}
    <2> TAKE j \in 1 .. Len(buffer')
    <2>1. CASE j <= n
      <3>1. j \in Versions /\ j - 1 \in Versions /\ j \in 1 .. n /\ j # Len(buffer')
            BY <1>1, <2>1
      <3>2. Ver(j)' = Ver(j) /\ Ver(j - 1)' = Ver(j - 1) BY <1>1, <3>1
      <3> QED BY <1>3, <3>1, <3>2
    <2>2. CASE j = n + 1
      <3>1. j - 1 = n BY <1>1, <2>2
      <3>2. Ver(j)' = v /\ Ver(j - 1)' = Own BY <1>1, <2>2, <3>1
      <3> QED BY <1>1, <2>2, <3>2
    <2> QED BY <1>1, <2>1, <2>2
  <1>7. \A j, k \in Versions' : j <= k =>
           IF k = Len(buffer') /\ opc' = "fence"
             THEN Ver(j)'.bottom <= Ver(k)'.bottom + 1
             ELSE Ver(j)'.bottom <= Ver(k)'.bottom
    <2> SUFFICES ASSUME NEW j \in Versions', NEW k \in Versions', j <= k
                 PROVE  IF k = Len(buffer') /\ opc' = "fence"
                          THEN Ver(j)'.bottom <= Ver(k)'.bottom + 1
                          ELSE Ver(j)'.bottom <= Ver(k)'.bottom
        OBVIOUS
    <2>1. CASE k \in Versions
      <3>1. j \in Versions /\ k # Len(buffer') BY <1>1, <2>1
      <3>2. Ver(j)' = Ver(j) /\ Ver(k)' = Ver(k) BY <1>1, <2>1, <3>1
      <3> QED BY <1>3, <2>1, <3>1, <3>2
    <2>2. CASE k = n + 1
      <3>1. Ver(k)' = v BY <1>1, <2>2
      <3>2. CASE j \in Versions
        <4>1. Ver(j)' = Ver(j) /\ Ver(j).bottom <= Own.bottom /\ Ver(j).bottom \in Int
              BY <1>1, <1>2, <1>3, <3>2
        <4> DEFINE b == Ver(j).bottom
                   o == Own.bottom
        <4>2. b \in Int /\ b <= o /\ o \in Int /\ v.bottom \in Int BY <1>2, <4>1
        <4>3. Ver(j)'.bottom = b /\ Ver(k)'.bottom = v.bottom BY <3>1, <4>1
        <4>4. IF opc' = "fence" THEN v.bottom = o - 1 ELSE v.bottom \in {o, o + 1} OBVIOUS
        <4> HIDE DEF b, o
        <4>5. IF opc' = "fence" THEN b <= v.bottom + 1 ELSE b <= v.bottom
              BY ONLY <4>2, <4>4
        <4> QED BY <1>1, <2>2, <4>3, <4>5
      <3>3. CASE j = n + 1
        <4>1. Ver(j)' = v BY <1>1, <3>3
        <4> QED BY <1>2, <3>1, <4>1
      <3> QED BY <1>1, <3>2, <3>3
    <2> QED BY <1>1, <2>1, <2>2
  <1>8. ~(opc' \in {"race", "restore"}) OBVIOUS
  <1> QED BY ONLY <1>4, <1>5, <1>6, <1>7, <1>8 DEF VersionsInOrder

LEMMA WriteAgrees ==
    ASSUME Inv, NEW v \in Version, Write(v),
           \A a \in 1 .. Own.array : \A i \in Live : Get(v, a, i) = Get(Own, a, i),
           \A i \in Live : Content(v, i) = Content(Own, i)
    PROVE  VersionsAgree'
  <1> DEFINE n == Len(buffer)
  <1>1. /\ DequeTypes /\ n \in Nat /\ n \in Versions /\ Own = Ver(n) /\ Versions = 0 .. n
        /\ Versions' = Versions \cup {n + 1} /\ top' = top /\ Own' = v
        /\ \A j \in Versions : Ver(j)' = Ver(j) /\ Ver(j) \in Version
        /\ \A j : j = n + 1 => Ver(j)' = v
        BY OwnIsLast, WriteAdds DEF Inv, Versions
  <1>2. /\ top \in Nat /\ OwnBack \in Int /\ Own.array \in Nat
        /\ \A j \in Versions : Ver(j).bottom \in Int
        BY <1>1, Ends DEF Version
  <1>3. /\ \A j \in Versions : Ver(j).array \in Nat \ {0} /\ Ver(j).bottom <= OwnBack
        /\ \A j, k \in Versions : j <= k => Ver(j).array <= Ver(k).array
        BY DEF Inv, VersionsInOrder
  <1> HIDE DEF n
  <1> SUFFICES ASSUME NEW j \in Versions', NEW k \in Versions', j <= k,
                      NEW i \in top' .. Ver(j)'.bottom - 1
               PROVE  Get(Ver(k)', Ver(j)'.array, i) = Content(v, i)
      BY <1>1 DEF VersionsAgree
  <1>4. CASE j \in Versions
    <2>1. Ver(j)' = Ver(j) /\ i \in top .. Ver(j).bottom - 1 BY <1>1, <1>4
    <2>2. i \in Live
      <3>1. Ver(j).bottom \in Int /\ Ver(j).bottom <= OwnBack BY <1>2, <1>3, <1>4
      <3> DEFINE b == Ver(j).bottom
      <3>2. i \in top .. b - 1 /\ b \in Int /\ b <= OwnBack BY <2>1, <3>1
      <3> HIDE DEF b
      <3> QED BY <1>2, <3>2 DEF Live
    <2>3. CASE k \in Versions
      <3>1. Ver(k)' = Ver(k) BY <1>1, <2>3
      <3>2. Get(Ver(k), Ver(j).array, i) = Content(Own, i)
            BY <1>4, <2>1, <2>3 DEF Inv, VersionsAgree
      <3> QED BY <2>1, <2>2, <3>1, <3>2
    <2>4. CASE k = n + 1
      <3>1. Ver(k)' = v BY <1>1, <2>4
      <3>2. j <= n BY <1>1, <1>4
      <3>3. Get(Own, Ver(j).array, i) = Content(Own, i)
            BY <1>1, <1>4, <2>1, <3>2 DEF Inv, VersionsAgree
      <3>4. Ver(j).array \in 1 .. Own.array BY <1>1, <1>2, <1>3, <1>4, <3>2
      <3>5. Get(v, Ver(j).array, i) = Get(Own, Ver(j).array, i) BY <2>2, <3>4
      <3> QED BY <2>1, <2>2, <3>1, <3>3, <3>5
    <2> QED BY <1>1, <2>3, <2>4
  <1>5. CASE j = n + 1
    <2>1. k = n + 1 BY <1>1, <1>5
    <2>2. Ver(j)' = v /\ Ver(k)' = v BY <1>1, <1>5, <2>1
    <2> QED BY <2>2 DEF Content
  <1> QED BY <1>1, <1>4, <1>5

LEMMA WriteSparesThieves ==
    ASSUME Inv, NEW v \in Version, Write(v), UNCHANGED thieves,
           opc \in {"idle", "put", "publish", "restore"},
           \A a \in 1 .. Own.array : \A i \in Live : Get(v, a, i) = Get(Own, a, i),
           \A i \in Live : Content(v, i) = Content(Own, i)
    PROVE  \A s \in Thieves : ThiefHolds(s)'
  <1> DEFINE n == Len(buffer)
  <1>1. /\ DequeTypes /\ n \in Nat /\ n \in Versions /\ Own = Ver(n) /\ Versions = 0 .. n
        /\ Versions' = Versions \cup {n + 1} /\ top' = top /\ Own' = v
        /\ shared' = shared /\ buffer' # <<>>
        /\ \A j \in Versions : Ver(j)' = Ver(j)
        /\ \A j : j = n + 1 => Ver(j)' = v
        BY OwnIsLast, WriteAdds DEF Inv, Versions
  <1> HIDE DEF n
  <1>2. spc' = spc /\ st' = st /\ sa' = sa /\ sv' = sv BY DEF thieves
  <1>3. /\ top \in Nat /\ Back \in Int /\ OwnBack \in Int /\ Back <= OwnBack
        /\ shared.array \in Nat /\ Own.array \in Nat /\ shared.array <= Own.array
        BY Ends
  <1>4. Back' = shared.bottom BY <1>1 DEF Back, Reserved
  <1>5. top < Back => top < Back' /\ top \in Live
    <2>1. CASE Reserved
      <3>1. opc = "restore" BY <2>1 DEF Reserved
      <3>2. top = OwnBack BY <3>1 DEF Inv, RangeFits
      <3> QED BY <1>3, <3>2
    <2>2. CASE ~Reserved BY <1>3, <1>4, <2>2 DEF Back, Live
    <2> QED BY <2>1, <2>2
  <1> SUFFICES ASSUME NEW s \in Thieves PROVE ThiefHolds(s)' OBVIOUS
  <1>6. ThiefHolds(s) BY DEF Inv
  <1>7. spc[s] # "idle" => st[s] <= top BY <1>6 DEF ThiefHolds
  <1>8. spc[s] = "slot" => sa[s] \in 1 .. shared.array BY <1>6 DEF ThiefHolds
  <1>9. ASSUME spc[s] \in {"array", "slot", "swap"}, st[s] = top
        PROVE  /\ top < Back'
               /\ spc[s] = "slot" =>
                     \A k \in Versions' : Get(Ver(k)', sa[s], top) = Content(v, top)
               /\ spc[s] = "swap" => sv[s] = Content(v, top)
    <2>1. /\ top < Back
          /\ spc[s] = "slot" =>
                \A k \in Versions : Get(Ver(k), sa[s], top) = Content(Own, top)
          /\ spc[s] = "swap" => sv[s] = Content(Own, top)
          BY <1>6, <1>9 DEF ThiefHolds
    <2>2. top < Back' /\ top \in Live /\ Content(v, top) = Content(Own, top) BY <1>5, <2>1
    <2>3. ASSUME spc[s] = "slot", NEW k \in Versions'
          PROVE  Get(Ver(k)', sa[s], top) = Content(v, top)
      <3>1. sa[s] \in 1 .. Own.array BY <1>3, <1>8, <2>3
      <3>2. CASE k \in Versions
        <4>1. Ver(k)' = Ver(k) BY <1>1, <3>2
        <4> QED BY <2>1, <2>2, <2>3, <3>2, <4>1
      <3>3. CASE k = n + 1
        <4>1. Ver(k)' = v BY <1>1, <3>3
        <4>2. Get(v, sa[s], top) = Get(Own, sa[s], top) BY <2>2, <3>1
        <4>3. Get(Own, sa[s], top) = Content(Own, top) BY <1>1, <2>1, <2>3
        <4> QED BY <2>2, <4>1, <4>2, <4>3
      <3> QED BY <1>1, <3>2, <3>3
    <2> QED BY <2>1, <2>2, <2>3
  <1> QED BY <1>1, <1>2, <1>7, <1>8, <1>9 DEF ThiefHolds

\* A store that leaves the arrays alone.
LEMMA SameArrays ==
    ASSUME NEW v, NEW w, v.arrays = w.arrays, v.array = w.array
    PROVE  /\ \A a, i : Get(v, a, i) = Get(w, a, i)
           /\ \A i : Content(v, i) = Content(w, i)
           /\ \A a : Cap(v, a) = Cap(w, a)
  BY DEF Get, Content, Cap

LEMMA NewBottom ==
    ASSUME NEW v \in Version, NEW b \in Int
    PROVE  /\ [v EXCEPT !.bottom = b] \in Version
           /\ [v EXCEPT !.bottom = b].bottom = b
           /\ [v EXCEPT !.bottom = b].arrays = v.arrays
           /\ [v EXCEPT !.bottom = b].array = v.array
  BY DEF Version

-----------------------------------------------------------------------------
(* Every step keeps the invariant: the owner's stores first. *)

LEMMA PublishKeeps == ASSUME Inv, Publish PROVE Inv'
  <1> DEFINE v == [Own EXCEPT !.bottom = Own.bottom + 1]
  <1>1. /\ opc = "publish" /\ opc' = "idle" /\ Write(v)
        /\ ot' = ot /\ UNCHANGED thieves /\ pushed' = pushed /\ handed' = handed
        BY DEF Publish, history
  <1>2. /\ DequeTypes /\ top \in Nat /\ Own \in Version /\ Own.bottom \in Int
        /\ Own.array \in Nat \ {0} /\ Own.array = Len(Own.arrays) /\ OwnCap \in Nat
        /\ Live \subseteq Nat /\ OwnBack \in Int /\ top <= OwnBack
        BY Ends DEF Inv
  <1>3. /\ v \in Version /\ v.bottom = Own.bottom + 1
        /\ v.arrays = Own.arrays /\ v.array = Own.array
    <2>1. Own.bottom + 1 \in Int BY <1>2
    <2> QED BY <1>2, <2>1, NewBottom
  <1> HIDE DEF v
  <1>4. /\ \A a, i : Get(v, a, i) = Get(Own, a, i)
        /\ \A i : Content(v, i) = Content(Own, i)
        /\ \A a : Cap(v, a) = Cap(Own, a)
        BY <1>3, SameArrays
  <1>5. Own' = v /\ top' = top /\ buffer' \in Seq(Version) /\ shared' = shared
        BY <1>1, <1>2, <1>3, WriteAdds
  <1>6. OwnBack = Own.bottom /\ OwnBack' = Own.bottom + 1 /\ ~Popping'
        BY <1>1, <1>3, <1>5 DEF OwnBack, Popping
  <1>7. OwnCap' = OwnCap BY <1>3, <1>4, <1>5 DEF OwnCap
  <1>8. Live' = Live \cup {Own.bottom} BY <1>2, <1>5, <1>6 DEF Live
  <1>9. /\ Own.bottom - top < OwnCap /\ Content(Own, Own.bottom) = pushed
        /\ pushed >= 1 /\ handed[pushed] = 0 /\ \A i \in Live : Content(Own, i) # pushed
        BY <1>1 DEF Inv, RangeFits, TasksDistinct
  <1>10. DequeTypes' BY <1>1, <1>2, <1>5 DEF DequeTypes, thieves
  <1>11. VersionsInOrder'
    <2>1. opc # "fence" /\ opc' \in {"idle", "put", "publish", "fence"} BY <1>1
    <2>2. OwnBack' \in Int /\ OwnBack <= OwnBack' /\ v.bottom <= OwnBack' /\ top - 1 <= v.bottom
          BY <1>2, <1>3, <1>6
    <2> QED BY <1>1, <1>2, <1>3, <2>1, <2>2, WriteInOrder
  <1>12. VersionsAgree' BY <1>1, <1>3, <1>4, WriteAgrees
  <1>13. RangeFits' BY <1>1, <1>2, <1>5, <1>6, <1>7, <1>9 DEF RangeFits
  <1>14. TasksDistinct'
    <2>1. /\ \A i \in Live : Content(Own, i) \in 1 .. pushed /\ handed[Content(Own, i)] = 0
          /\ \A i, j \in Live : Content(Own, i) = Content(Own, j) => i = j
          /\ \A t \in 0 .. MaxTasks : t > pushed => handed[t] = 0
          BY DEF Inv, TasksDistinct
    <2>2. pushed \in Nat BY <1>2 DEF DequeTypes
    <2>3. \A i \in Live' : Content(Own, i) \in 1 .. pushed /\ handed[Content(Own, i)] = 0
          BY <1>8, <1>9, <2>1, <2>2
    <2>4. \A i, j \in Live' : Content(Own, i) = Content(Own, j) => i = j
          BY <1>8, <1>9, <2>1
    <2> QED BY <1>1, <1>4, <1>5, <2>1, <2>3, <2>4 DEF TasksDistinct
  <1>15. \A s \in Thieves : ThiefHolds(s)' BY <1>1, <1>3, <1>4, WriteSparesThieves
  <1> QED BY <1>10, <1>11, <1>12, <1>13, <1>14, <1>15 DEF Inv

\* pop() lowers the bottom when it begins and puts it back when it found nothing.
LEMMA PopStoreKeeps ==
    ASSUME Inv, UNCHANGED <<ot, thieves, history>>, NEW b \in Int,
           Write([Own EXCEPT !.bottom = b]),
           \/ opc = "idle" /\ opc' = "fence" /\ b = Own.bottom - 1
           \/ opc = "restore" /\ opc' = "idle" /\ b = Own.bottom + 1
    PROVE  Inv'
  <1> DEFINE v == [Own EXCEPT !.bottom = b]
  <1>1. /\ Write(v) /\ ot' = ot /\ UNCHANGED thieves /\ pushed' = pushed /\ handed' = handed
        /\ opc \in {"idle", "restore"} /\ opc' \in {"idle", "fence"}
        BY DEF history
  <1>2. /\ DequeTypes /\ top \in Nat /\ Own \in Version /\ Own.bottom \in Int
        /\ Own.array \in Nat \ {0} /\ Own.array = Len(Own.arrays) /\ OwnCap \in Nat
        /\ OwnBack \in Int /\ top <= OwnBack
        BY Ends DEF Inv
  <1>3. /\ v \in Version /\ v.bottom = b
        /\ v.arrays = Own.arrays /\ v.array = Own.array
        BY <1>2, NewBottom
  <1> HIDE DEF v
  <1>4. /\ \A a, i : Get(v, a, i) = Get(Own, a, i)
        /\ \A i : Content(v, i) = Content(Own, i)
        /\ \A a : Cap(v, a) = Cap(Own, a)
        BY <1>3, SameArrays
  <1>5. Own' = v /\ top' = top /\ buffer' \in Seq(Version) /\ shared' = shared
        BY <1>1, <1>2, <1>3, WriteAdds
  <1>6. OwnBack' = OwnBack /\ OwnBack \in {b, b + 1}
        BY <1>1, <1>2, <1>3, <1>5 DEF OwnBack, Popping
  <1>7. OwnCap' = OwnCap /\ Live' = Live BY <1>3, <1>4, <1>5, <1>6 DEF OwnCap, Live
  <1>8. DequeTypes' BY <1>1, <1>2, <1>5 DEF DequeTypes, thieves
  <1>9. VersionsInOrder'
    <2>1. opc # "fence" /\ opc' \in {"idle", "put", "publish", "fence"} BY <1>1
    <2>2. OwnBack' \in Int /\ OwnBack <= OwnBack' /\ v.bottom <= OwnBack' /\ top - 1 <= v.bottom
          BY <1>2, <1>3, <1>6
    <2>3. IF opc' = "fence" THEN v.bottom = Own.bottom - 1
                            ELSE v.bottom \in {Own.bottom, Own.bottom + 1}
          BY <1>3
    <2> QED BY <1>1, <1>2, <1>3, <2>1, <2>2, <2>3, WriteInOrder
  <1>10. VersionsAgree' BY <1>1, <1>3, <1>4, WriteAgrees
  <1>11. RangeFits'
    <2>1. top <= OwnBack /\ OwnBack - top <= OwnCap BY DEF Inv, RangeFits
    <2> QED BY <1>1, <1>5, <1>6, <1>7, <2>1 DEF RangeFits
  <1>12. TasksDistinct'
    <2>1. TasksDistinct BY DEF Inv
    <2> QED BY <1>1, <1>4, <1>5, <1>7, <2>1 DEF TasksDistinct
  <1>13. \A s \in Thieves : ThiefHolds(s)' BY <1>1, <1>3, <1>4, WriteSparesThieves
  <1> QED BY <1>8, <1>9, <1>10, <1>11, <1>12, <1>13 DEF Inv

LEMMA PopBeginKeeps == ASSUME Inv, PopBegin PROVE Inv'
  <1>1. Own.bottom - 1 \in Int BY Ends
  <1> QED BY <1>1, PopStoreKeeps DEF PopBegin

LEMMA PopRestoreKeeps == ASSUME Inv, PopRestore PROVE Inv'
  <1>1. Own.bottom + 1 \in Int BY Ends
  <1> QED BY <1>1, PopStoreKeeps DEF PopRestore

\* What Put's store of x at index b changes of the last array.
Stored(w, b, x) == [w EXCEPT !.arrays[w.array][b % Cap(w, w.array)] = x]

LEMMA PutStore ==
    ASSUME NEW w \in Version, NEW x \in Nat, NEW b \in Nat, NEW v,
           w.array \in Nat \ {0}, w.array = Len(w.arrays), v = Stored(w, b, x)
    PROVE  /\ v \in Version /\ v.bottom = w.bottom /\ v.array = w.array
           /\ Len(v.arrays) = Len(w.arrays) /\ Cap(v, w.array) = Cap(w, w.array)
           /\ Get(v, w.array, b) = x
           /\ \A a \in 1 .. w.array : \A i \in Nat :
                 a # w.array \/ i % Cap(w, w.array) # b % Cap(w, w.array)
                     => Get(v, a, i) = Get(w, a, i)
  <1> DEFINE m == w.array
             c == Cap(w, m)
             y == [w.arrays[m] EXCEPT ![b % c] = x]
             ys == [w.arrays EXCEPT ![m] = y]
  <1>1. m \in 1 .. Len(w.arrays) OBVIOUS
  <1>2. c \in Nat \ {0} /\ w.arrays[m] \in [0 .. c - 1 -> Nat] /\ b % c \in 0 .. c - 1
        BY <1>1, GetType
  <1>3. w.arrays \in Seq(Arrays) BY DEF Version
  <1>4. v = [w EXCEPT !.arrays = ys] BY DEF Stored
  <1> HIDE DEF c
  <1>5. y \in [0 .. c - 1 -> Nat] /\ y[b % c] = x
        /\ \A k \in 0 .. c - 1 : k # b % c => y[k] = w.arrays[m][k]
        BY <1>2
  <1> HIDE DEF y
  <1>6. y \in Arrays /\ Cardinality(DOMAIN y) = c BY <1>2, <1>5, ArrayCap
  <1>7. ys \in Seq(Arrays) /\ Len(ys) = Len(w.arrays) /\ ys[m] = y
        /\ \A a \in 1 .. Len(w.arrays) : a # m => ys[a] = w.arrays[a]
        BY <1>1, <1>3, <1>6, ExceptSeq
  <1> HIDE DEF ys
  <1>8. v \in Version /\ v.bottom = w.bottom /\ v.array = m /\ v.arrays = ys
        BY <1>4, <1>7 DEF Version
  <1>9. Cap(v, m) = c BY <1>6, <1>7, <1>8 DEF Cap
  <1>10. Get(v, m, b) = x BY <1>5, <1>7, <1>8, <1>9 DEF Get
  <1>11. ASSUME NEW a \in 1 .. m, NEW i \in Nat, a # m \/ i % c # b % c
         PROVE  Get(v, a, i) = Get(w, a, i)
    <2>1. CASE a # m
      <3>1. v.arrays[a] = w.arrays[a] BY <1>1, <1>7, <1>8, <2>1
      <3> QED BY <3>1 DEF Get, Cap
    <2>2. CASE a = m /\ i % c # b % c
      <3>1. i % c \in 0 .. c - 1 BY <1>2
      <3>2. v.arrays[a][i % c] = w.arrays[a][i % c] BY <1>5, <1>7, <1>8, <2>2, <3>1
      <3> QED BY <1>9, <2>2, <3>2 DEF Get, c
    <2> QED BY <1>11, <2>1, <2>2
  <1> QED BY <1>7, <1>8, <1>9, <1>10, <1>11 DEF c

LEMMA PutKeeps == ASSUME Inv, Put PROVE Inv'
  <1> DEFINE v == Stored(Own, Own.bottom, pushed)
  <1>1. /\ opc = "put" /\ opc' = "publish" /\ Write(v) /\ ~Full
        /\ ot' = ot /\ UNCHANGED thieves /\ pushed' = pushed /\ handed' = handed
        BY DEF Put, history, Stored
  <1>2. /\ DequeTypes /\ top \in Nat /\ Own \in Version /\ Own.bottom \in Int
        /\ Own.array \in Nat \ {0} /\ Own.array = Len(Own.arrays) /\ OwnCap \in Nat \ {0}
        /\ Live \subseteq Nat /\ OwnBack = Own.bottom /\ top <= Own.bottom /\ ot \in Nat
        /\ pushed \in Nat
    <2>1. OwnBack = Own.bottom BY <1>1 DEF OwnBack, Popping
    <2>2. DequeTypes /\ pushed \in Nat /\ ot \in Nat BY DEF Inv, DequeTypes
    <2> QED BY <2>1, <2>2, Ends
  <1>3. Own.bottom \in Nat BY <1>2
  <1>17. v = Stored(Own, Own.bottom, pushed) OBVIOUS
  <1> HIDE DEF v
  <1>4. /\ v \in Version /\ v.bottom = Own.bottom /\ v.array = Own.array
        /\ Len(v.arrays) = Len(Own.arrays) /\ Cap(v, Own.array) = OwnCap
        /\ Content(v, Own.bottom) = pushed
        /\ \A a \in 1 .. Own.array : \A i \in Nat :
              i % OwnCap # Own.bottom % OwnCap => Get(v, a, i) = Get(Own, a, i)
    <2>1. OwnCap = Cap(Own, Own.array) BY DEF OwnCap
    <2>2. /\ v \in Version /\ v.bottom = Own.bottom /\ v.array = Own.array
          /\ Len(v.arrays) = Len(Own.arrays) /\ Cap(v, Own.array) = Cap(Own, Own.array)
          /\ Get(v, Own.array, Own.bottom) = pushed
          /\ \A a \in 1 .. Own.array : \A i \in Nat :
                a # Own.array \/ i % Cap(Own, Own.array) # Own.bottom % Cap(Own, Own.array)
                    => Get(v, a, i) = Get(Own, a, i)
          BY ONLY <1>2, <1>3, <1>17, PutStore
    <2> QED BY <2>1, <2>2 DEF Content
  <1>5. Own' = v /\ top' = top /\ buffer' \in Seq(Version) /\ shared' = shared
        BY <1>1, <1>2, <1>4, WriteAdds
  <1>6. OwnBack' = Own.bottom /\ ~Popping' BY <1>1, <1>4, <1>5 DEF OwnBack, Popping
  <1>7. OwnCap' = OwnCap /\ Live' = Live BY <1>2, <1>4, <1>5, <1>6 DEF OwnCap, Live
  <1>8. ot <= top /\ Own.bottom - ot <= OwnCap - 1
    <2>1. ot <= top /\ Own.bottom - ot <= OwnCap BY <1>1 DEF Inv, RangeFits
    <2> QED BY <1>1, <1>2, <2>1 DEF Full, OwnCap
  <1>9. \A i \in Live : i % OwnCap # Own.bottom % OwnCap
    <2> SUFFICES ASSUME NEW i \in Live PROVE i % OwnCap # Own.bottom % OwnCap OBVIOUS
    <2>1. /\ i \in Nat /\ i # Own.bottom /\ i < Own.bottom + OwnCap
          /\ Own.bottom < i + OwnCap
          BY <1>2, <1>8 DEF Live
    <2> QED BY <1>2, <1>3, <2>1, SlotsApart
  <1>10. /\ \A a \in 1 .. Own.array : \A i \in Live : Get(v, a, i) = Get(Own, a, i)
         /\ \A i \in Live : Content(v, i) = Content(Own, i)
    <2>1. \A a \in 1 .. Own.array : \A i \in Live : Get(v, a, i) = Get(Own, a, i)
          BY <1>2, <1>4, <1>9
    <2>2. Own.array \in 1 .. Own.array BY <1>2
    <2> QED BY <1>4, <2>1, <2>2 DEF Content
  <1>11. DequeTypes' BY <1>1, <1>2, <1>5 DEF DequeTypes, thieves
  <1>12. VersionsInOrder'
    <2>1. opc # "fence" /\ opc' \in {"idle", "put", "publish", "fence"} BY <1>1
    <2>2. OwnBack' \in Int /\ OwnBack <= OwnBack' /\ v.bottom <= OwnBack' /\ top - 1 <= v.bottom
          BY <1>2, <1>4, <1>6
    <2>3. IF opc' = "fence" THEN v.bottom = Own.bottom - 1
                            ELSE v.bottom \in {Own.bottom, Own.bottom + 1}
          BY <1>1, <1>4
    <2>4. v.array \in Nat \ {0} /\ v.array = Len(v.arrays) /\ Own.array <= v.array
          BY <1>2, <1>4
    <2> QED BY <1>1, <1>4, <2>1, <2>2, <2>3, <2>4, WriteInOrder
  <1>13. VersionsAgree' BY <1>1, <1>4, <1>10, WriteAgrees
  <1>14. RangeFits'
    <2>1. OwnBack - top <= OwnCap BY DEF Inv, RangeFits
    <2>2. Own.bottom - top < OwnCap BY <1>2, <1>8
    <2>3. Content(v, Own.bottom) = pushed /\ v.bottom = Own.bottom BY <1>4
    <2> QED BY <1>1, <1>2, <1>5, <1>6, <1>7, <2>1, <2>2, <2>3 DEF RangeFits
  <1>15. TasksDistinct'
    <2>1. TasksDistinct BY DEF Inv
    <2> QED BY <1>1, <1>5, <1>7, <1>10, <2>1 DEF TasksDistinct
  <1>16. \A s \in Thieves : ThiefHolds(s)' BY <1>1, <1>4, <1>10, WriteSparesThieves
  <1> QED BY <1>11, <1>12, <1>13, <1>14, <1>15, <1>16 DEF Inv

\* grow(): the array of twice the size, and the version with it.
Copied(w, lo) ==
    LET n == 2 * Cap(w, w.array)
        live(k) == {i \in lo .. (w.bottom - 1) : i % n = k}
    IN  [k \in 0 .. (n - 1) |-> IF live(k) = {} THEN NoTask
                               ELSE Get(w, w.array, CHOOSE i \in live(k) : TRUE)]
Grown(w, lo) == [w EXCEPT !.array = @ + 1, !.arrays = Append(@, Copied(w, lo))]

LEMMA CopyHasAll ==
    ASSUME NEW w \in Version, NEW lo \in Nat, NEW c \in Nat \ {0}, c = Cap(w, w.array),
           w.array \in Nat \ {0}, w.array = Len(w.arrays), w.bottom - lo <= c
    PROVE  /\ Copied(w, lo) \in [0 .. (2 * c) - 1 -> Nat]
           /\ \A i \in lo .. w.bottom - 1 : Copied(w, lo)[i % (2 * c)] = Get(w, w.array, i)
  <1> DEFINE n == 2 * c
             live(k) == {i \in lo .. (w.bottom - 1) : i % n = k}
  <1>1. n \in Nat \ {0} /\ c <= n OBVIOUS
  <1>2. Copied(w, lo) = [k \in 0 .. (n - 1) |-> IF live(k) = {} THEN NoTask
                               ELSE Get(w, w.array, CHOOSE i \in live(k) : TRUE)]
        BY DEF Copied
  <1>3. w.bottom \in Int BY DEF Version
  <1>4. \A i \in Nat : Get(w, w.array, i) \in Nat
    <2>1. w.array \in 1 .. Len(w.arrays) OBVIOUS
    <2> QED BY <2>1, GetType
  <1> HIDE DEF n
  <1>5. \A k : live(k) # {} => (CHOOSE i \in live(k) : TRUE) \in live(k) OBVIOUS
  <1>6. \A k : live(k) \subseteq Nat BY <1>3
  <1>7. Copied(w, lo) \in [0 .. n - 1 -> Nat]
    <2>1. ASSUME NEW k \in 0 .. n - 1
          PROVE  (IF live(k) = {} THEN NoTask
                  ELSE Get(w, w.array, CHOOSE i \in live(k) : TRUE)) \in Nat
      <3>1. NoTask \in Nat BY DEF NoTask
      <3> HIDE DEF live
      <3>2. live(k) # {} => Get(w, w.array, CHOOSE i \in live(k) : TRUE) \in Nat
            BY <1>4, <1>5, <1>6
      <3> QED BY <3>1, <3>2
    <2> HIDE DEF live
    <2> QED BY <1>2, <2>1
  <1>8. ASSUME NEW i \in lo .. w.bottom - 1
        PROVE  Copied(w, lo)[i % n] = Get(w, w.array, i)
    <2>1. i \in Nat /\ i % n \in 0 .. n - 1 BY <1>1, <1>3
    <2>2. i \in live(i % n) OBVIOUS
    <2> DEFINE j == CHOOSE j \in live(i % n) : TRUE
    <2>3. j \in live(i % n) BY <1>5, <2>2
    <2>4. j \in lo .. w.bottom - 1 /\ j % n = i % n BY <2>3
    <2> HIDE DEF j
    <2>5. j = i
      <3> SUFFICES ASSUME j # i PROVE FALSE OBVIOUS
      <3> DEFINE b == w.bottom
      <3>2. b \in Int /\ b - lo <= c /\ i \in lo .. b - 1 /\ j \in lo .. b - 1 BY <1>3, <2>4
      <3> HIDE DEF b
      <3>1. j \in Nat /\ i < j + n /\ j < i + n BY ONLY <1>1, <3>2, lo \in Nat, c \in Nat
      <3> QED BY <1>1, <2>1, <2>4, <3>1, SlotsApart
    <2>6. Copied(w, lo)[i % n] = Get(w, w.array, j)
      <3>1. live(i % n) # {} BY <2>2
      <3> HIDE DEF live
      <3> QED BY <1>2, <2>1, <3>1 DEF j
    <2> QED BY <2>5, <2>6
  <1> QED BY <1>7, <1>8 DEF n

LEMMA GrowStore ==
    ASSUME NEW w \in Version, NEW lo \in Nat, NEW v, v = Grown(w, lo),
           w.array \in Nat \ {0}, w.array = Len(w.arrays), w.bottom - lo <= Cap(w, w.array)
    PROVE  /\ v \in Version /\ v.bottom = w.bottom /\ v.array = w.array + 1
           /\ v.array = Len(v.arrays) /\ Cap(v, v.array) = 2 * Cap(w, w.array)
           /\ \A a \in 1 .. w.array : \A i \in Nat : Get(v, a, i) = Get(w, a, i)
           /\ \A i \in lo .. w.bottom - 1 : Content(v, i) = Content(w, i)
  <1> DEFINE c == Cap(w, w.array)
             n == 2 * c
             x == Copied(w, lo)
             xs == Append(w.arrays, x)
  <1>1. /\ n \in Nat \ {0} /\ x \in [0 .. n - 1 -> Nat]
        /\ \A i \in lo .. w.bottom - 1 : x[i % n] = Content(w, i)
    <2>3. w.array \in 1 .. Len(w.arrays) OBVIOUS
    <2>4. c \in Nat \ {0} BY <2>3, GetType
    <2>1. n \in Nat \ {0} BY <2>4
    <2>2. /\ Copied(w, lo) \in [0 .. (2 * c) - 1 -> Nat]
          /\ \A i \in lo .. w.bottom - 1 : Copied(w, lo)[i % (2 * c)] = Get(w, w.array, i)
          BY <2>4, CopyHasAll
    <2> QED BY <2>1, <2>2 DEF Content
  <1> HIDE DEF c, n, x
  <1>2. x \in Arrays /\ Cardinality(DOMAIN x) = n BY <1>1, ArrayCap
  <1>3. w.arrays \in Seq(Arrays) BY DEF Version
  <1>4. /\ xs \in Seq(Arrays) /\ Len(xs) = Len(w.arrays) + 1 /\ xs[Len(w.arrays) + 1] = x
        /\ \A a \in 1 .. Len(w.arrays) : xs[a] = w.arrays[a]
        BY <1>2, <1>3, AppendProperties
  <1>5. v = [bottom |-> w.bottom, array |-> w.array + 1, arrays |-> xs]
    <2>1. v = [w EXCEPT !.array = w.array + 1, !.arrays = xs] BY DEF Grown, x
    <2> HIDE DEF xs
    <2> QED BY <2>1 DEF Version
  <1> HIDE DEF xs
  <1>6. v \in Version /\ v.bottom = w.bottom /\ v.array = w.array + 1 /\ v.arrays = xs
        BY <1>4, <1>5 DEF Version
  <1>7. v.array = Len(v.arrays) BY <1>4, <1>6
  <1>8. v.arrays[v.array] = x BY <1>4, <1>6
  <1>9. Cap(v, v.array) = n BY <1>2, <1>8 DEF Cap
  <1>10. ASSUME NEW a \in 1 .. w.array, NEW i \in Nat PROVE Get(v, a, i) = Get(w, a, i)
    <2>1. v.arrays[a] = w.arrays[a] BY <1>4, <1>6
    <2> QED BY <2>1 DEF Get, Cap
  <1>11. ASSUME NEW i \in lo .. w.bottom - 1 PROVE Content(v, i) = Content(w, i)
    <2>1. Content(v, i) = x[i % n] BY <1>8, <1>9 DEF Content, Get
    <2> QED BY <1>1, <2>1
  <1> QED BY <1>6, <1>7, <1>9, <1>10, <1>11 DEF n, c

LEMMA GrowKeeps == ASSUME Inv, Grow PROVE Inv'
  <1> DEFINE v == Grown(Own, ot)
  <1>1. /\ opc = "put" /\ opc' = "put" /\ Write(v)
        /\ ot' = ot /\ UNCHANGED thieves /\ pushed' = pushed /\ handed' = handed
    <2>1. /\ opc = "put" /\ UNCHANGED <<owner, thieves, history>> BY DEF Grow
    <2>2. Write(v) BY DEF Grow, Grown, Copied
    <2> QED BY <2>1, <2>2 DEF owner, history
  <1>2. /\ DequeTypes /\ top \in Nat /\ Own \in Version /\ Own.bottom \in Int
        /\ Own.array \in Nat \ {0} /\ Own.array = Len(Own.arrays) /\ OwnCap \in Nat \ {0}
        /\ Live \subseteq Nat /\ OwnBack = Own.bottom /\ top <= Own.bottom /\ ot \in Nat
    <2>1. OwnBack = Own.bottom BY <1>1 DEF OwnBack, Popping
    <2>2. DequeTypes /\ ot \in Nat BY DEF Inv, DequeTypes
    <2> QED BY <2>1, <2>2, Ends
  <1>3. v = Grown(Own, ot) OBVIOUS
  <1> HIDE DEF v
  <1>4. ot <= top /\ Own.bottom - ot <= OwnCap BY <1>1 DEF Inv, RangeFits
  <1>5. /\ v \in Version /\ v.bottom = Own.bottom /\ v.array = Own.array + 1
        /\ v.array = Len(v.arrays) /\ Cap(v, v.array) = 2 * OwnCap
        /\ \A a \in 1 .. Own.array : \A i \in Nat : Get(v, a, i) = Get(Own, a, i)
        /\ \A i \in ot .. Own.bottom - 1 : Content(v, i) = Content(Own, i)
    <2>1. Own.bottom - ot <= Cap(Own, Own.array) BY <1>4 DEF OwnCap
    <2> QED BY <1>2, <1>3, <2>1, GrowStore DEF OwnCap
  <1>6. Own' = v /\ top' = top /\ buffer' \in Seq(Version) /\ shared' = shared
        BY <1>1, <1>2, <1>5, WriteAdds
  <1>7. OwnBack' = Own.bottom /\ ~Popping' BY <1>1, <1>5, <1>6 DEF OwnBack, Popping
  <1>8. OwnCap' = 2 * OwnCap /\ Live' = Live BY <1>2, <1>5, <1>6, <1>7 DEF OwnCap, Live
  <1>9. /\ \A a \in 1 .. Own.array : \A i \in Live : Get(v, a, i) = Get(Own, a, i)
        /\ \A i \in Live : Content(v, i) = Content(Own, i)
    <2>1. Live \subseteq ot .. Own.bottom - 1 BY <1>2, <1>4 DEF Live
    <2> QED BY <1>2, <1>5, <2>1
  <1>10. DequeTypes' BY <1>1, <1>2, <1>6 DEF DequeTypes, thieves
  <1>11. VersionsInOrder'
    <2>1. opc # "fence" /\ opc' \in {"idle", "put", "publish", "fence"} BY <1>1
    <2>2. OwnBack' \in Int /\ OwnBack <= OwnBack' /\ v.bottom <= OwnBack' /\ top - 1 <= v.bottom
          BY <1>2, <1>5, <1>7
    <2>3. IF opc' = "fence" THEN v.bottom = Own.bottom - 1
                            ELSE v.bottom \in {Own.bottom, Own.bottom + 1}
          BY <1>1, <1>5
    <2>4. v.array \in Nat \ {0} /\ Own.array <= v.array BY <1>2, <1>5
    <2> QED BY <1>1, <1>5, <2>1, <2>2, <2>3, <2>4, WriteInOrder
  <1>12. VersionsAgree' BY <1>1, <1>5, <1>9, WriteAgrees
  <1>13. RangeFits'
    <2>1. OwnBack - top <= OwnCap /\ OwnCap <= 2 * OwnCap BY <1>2 DEF Inv, RangeFits
    <2>2. OwnBack - top <= OwnCap' /\ Own.bottom - ot <= OwnCap'
          BY <1>2, <1>4, <1>8, <2>1
    <2> QED BY <1>1, <1>2, <1>4, <1>5, <1>6, <1>7, <2>2 DEF RangeFits
  <1>14. TasksDistinct'
    <2>1. TasksDistinct BY DEF Inv
    <2> QED BY <1>1, <1>6, <1>8, <1>9, <2>1 DEF TasksDistinct
  <1>15. \A s \in Thieves : ThiefHolds(s)' BY <1>1, <1>5, <1>9, WriteSparesThieves
  <1> QED BY <1>10, <1>11, <1>12, <1>13, <1>14, <1>15 DEF Inv

-----------------------------------------------------------------------------
(* A store reaches memory. *)

\* Everybody's back follows the owner's, one task at a time.
LEMMA FlushMoves ==
    ASSUME Inv, Flush
    PROVE  /\ Back' \in {Back, Back + 1} /\ top' = top /\ Own' = Own /\ OwnBack' = OwnBack
           /\ Live' = Live
  <1> DEFINE n == Len(buffer)
  <1>1. /\ DequeTypes /\ Len(buffer') = n - 1 /\ n \in Nat /\ n >= 1
        /\ buffer' \in Seq(Version) /\ shared' = Ver(1) /\ Own' = Own
        BY FlushShifts, OwnIsLast DEF Inv
  <1>2. top' = top /\ opc' = opc /\ buffer # <<>> BY DEF Flush, owner
  <1>3. OwnBack' = OwnBack /\ Live' = Live BY <1>1, <1>2 DEF OwnBack, Popping, Live
  <1>4. /\ shared = Ver(0) /\ opc \notin {"race", "restore"}
        /\ IF n = 1 /\ opc = "fence" THEN Ver(1).bottom = Ver(0).bottom - 1
                                     ELSE Ver(1).bottom \in {Ver(0).bottom, Ver(0).bottom + 1}
        BY <1>1, <1>2 DEF Inv, VersionsInOrder, Ver
  <1>5. shared.bottom \in Int /\ Ver(1).bottom \in Int
    <2>1. shared.bottom \in Int BY Ends
    <2> QED BY <1>4, <2>1
  <1>6. Back = shared.bottom BY <1>2 DEF Back, Reserved
  <1>7. Back' = IF opc = "fence" /\ n = 1 THEN Ver(1).bottom + 1 ELSE Ver(1).bottom
    <2>1. buffer' = <<>> <=> n = 1
      <3>1. buffer' = <<>> <=> Len(buffer') = 0 BY <1>1, EmptySeq
      <3> HIDE DEF n
      <3> QED BY <1>1, <3>1
    <2>2. Reserved' <=> opc = "fence" /\ n = 1 BY <1>2, <1>4, <2>1 DEF Reserved
    <2> HIDE DEF n
    <2> QED BY <1>1, <2>2 DEF Back
  <1> HIDE DEF n
  <1> QED BY <1>1, <1>2, <1>3, <1>4, <1>5, <1>6, <1>7

LEMMA FlushKeeps == ASSUME Inv, Flush PROVE Inv'
  <1> DEFINE n == Len(buffer)
  <1>1. /\ DequeTypes /\ Len(buffer') = n - 1 /\ n \in Nat /\ n >= 1 /\ n \in Versions
        /\ buffer' \in Seq(Version) /\ shared' = Ver(1) /\ shared' \in Version
        /\ \A j \in Versions' : j + 1 \in Versions /\ Ver(j)' = Ver(j + 1)
        BY FlushShifts, OwnIsLast DEF Inv
  <1>2. Versions = 0 .. n /\ Versions' = 0 .. n - 1 BY <1>1 DEF Versions
  <1>3. /\ top' = top /\ opc' = opc /\ ot' = ot /\ UNCHANGED thieves /\ pushed' = pushed
        /\ handed' = handed /\ buffer # <<>>
        BY DEF Flush, owner, history
  <1>4. /\ Own' = Own /\ OwnBack' = OwnBack /\ Live' = Live /\ Back' \in {Back, Back + 1}
        BY FlushMoves
  <1>5. OwnCap' = OwnCap BY <1>4 DEF OwnCap
  <1>6. DequeTypes' BY <1>1, <1>3 DEF DequeTypes, thieves
  <1> HIDE DEF n
  <1>7. VersionsInOrder'
    <2>1. /\ \A j \in Versions : /\ Ver(j).array \in Nat \ {0}
                                 /\ Ver(j).array = Len(Ver(j).arrays)
                                 /\ top - 1 <= Ver(j).bottom /\ Ver(j).bottom <= OwnBack
          /\ \A j, k \in Versions : j <= k => Ver(j).array <= Ver(k).array
          /\ \A j \in 1 .. n :
                IF j = n /\ opc = "fence"
                  THEN Ver(j).bottom = Ver(j - 1).bottom - 1
                  ELSE Ver(j).bottom \in {Ver(j - 1).bottom, Ver(j - 1).bottom + 1}
          /\ \A j, k \in Versions : j <= k =>
                IF k = n /\ opc = "fence"
                  THEN Ver(j).bottom <= Ver(k).bottom + 1
                  ELSE Ver(j).bottom <= Ver(k).bottom
          /\ opc \notin {"race", "restore"}
          BY <1>3 DEF Inv, VersionsInOrder, n
    <2>2. \A j \in Versions' : /\ Ver(j)'.array \in Nat \ {0}
                               /\ Ver(j)'.array = Len(Ver(j)'.arrays)
                               /\ top' - 1 <= Ver(j)'.bottom /\ Ver(j)'.bottom <= OwnBack'
          BY <1>1, <1>3, <1>4, <2>1
    <2>3. ASSUME NEW j \in Versions', NEW k \in Versions', j <= k
          PROVE  /\ Ver(j)'.array <= Ver(k)'.array
                 /\ IF k = Len(buffer') /\ opc' = "fence"
                      THEN Ver(j)'.bottom <= Ver(k)'.bottom + 1
                      ELSE Ver(j)'.bottom <= Ver(k)'.bottom
      <3>1. /\ j + 1 \in Versions /\ k + 1 \in Versions /\ j + 1 <= k + 1
            /\ (k + 1 = n <=> k = Len(buffer'))
            BY <1>1, <1>2, <2>3
      <3>2. Ver(j)' = Ver(j + 1) /\ Ver(k)' = Ver(k + 1) BY <1>1
      <3> QED BY <1>3, <2>1, <3>1, <3>2
    <2>4. ASSUME NEW j \in 1 .. Len(buffer')
          PROVE  IF j = Len(buffer') /\ opc' = "fence"
                   THEN Ver(j)'.bottom = Ver(j - 1)'.bottom - 1
                   ELSE Ver(j)'.bottom \in {Ver(j - 1)'.bottom, Ver(j - 1)'.bottom + 1}
      <3>1. /\ j + 1 \in 1 .. n /\ j \in Versions' /\ j - 1 \in Versions' /\ (j + 1) - 1 = j
            /\ (j - 1) + 1 = j /\ (j + 1 = n <=> j = Len(buffer'))
            BY <1>1, <1>2
      <3>2. Ver(j)' = Ver(j + 1) /\ Ver(j - 1)' = Ver(j) BY <1>1, <3>1
      <3>3. IF j + 1 = n /\ opc = "fence"
              THEN Ver(j + 1).bottom = Ver(j).bottom - 1
              ELSE Ver(j + 1).bottom \in {Ver(j).bottom, Ver(j).bottom + 1}
            BY <2>1, <3>1
      <3> QED BY <1>3, <3>1, <3>2, <3>3
    <2>5. opc' \in {"race", "restore"} => buffer' = <<>> BY <1>3, <2>1
    <2> QED BY ONLY <2>2, <2>3, <2>4, <2>5 DEF VersionsInOrder
  <1>8. VersionsAgree'
    <2> SUFFICES ASSUME NEW j \in Versions', NEW k \in Versions', j <= k,
                        NEW i \in top' .. Ver(j)'.bottom - 1
                 PROVE  Get(Ver(k)', Ver(j)'.array, i) = Content(Own, i)
        BY <1>4 DEF VersionsAgree
    <2>1. j + 1 \in Versions /\ k + 1 \in Versions /\ j + 1 <= k + 1 BY <1>1, <1>2
    <2>2. Ver(j)' = Ver(j + 1) /\ Ver(k)' = Ver(k + 1) BY <1>1
    <2> QED BY <1>3, <2>1, <2>2 DEF Inv, VersionsAgree
  <1>9. RangeFits'
    <2>1. RangeFits BY DEF Inv
    <2> QED BY <1>3, <1>4, <1>5, <2>1 DEF RangeFits
  <1>10. TasksDistinct'
    <2>1. TasksDistinct BY DEF Inv
    <2> QED BY <1>3, <1>4, <2>1 DEF TasksDistinct
  <1>11. ASSUME NEW s \in Thieves PROVE ThiefHolds(s)'
    <2>1. ThiefHolds(s) BY DEF Inv
    <2>2. spc' = spc /\ st' = st /\ sa' = sa /\ sv' = sv BY <1>3 DEF thieves
    <2>3. spc[s] = "slot" => sa[s] \in 1 .. shared'.array
      <3>1. spc[s] = "slot" => sa[s] \in 1 .. shared.array BY <2>1 DEF ThiefHolds
      <3>2. /\ shared = Ver(0) /\ 0 \in Versions /\ 1 \in Versions
            BY <1>1, <1>2 DEF Ver
      <3>3. shared.array \in Nat /\ shared'.array \in Nat /\ shared.array <= shared'.array
            BY <1>1, <3>2 DEF Inv, VersionsInOrder
      <3> QED BY <3>1, <3>3
    <2>4. top < Back => top < Back'
      <3>1. top \in Nat /\ Back \in Int BY Ends
      <3> QED BY <1>4, <3>1
    <2>5. ASSUME NEW k \in Versions', spc[s] = "slot", st[s] = top
          PROVE  Get(Ver(k)', sa[s], top) = Content(Own, top)
      <3>1. k + 1 \in Versions /\ Ver(k)' = Ver(k + 1) BY <1>1
      <3> QED BY <2>1, <2>5, <3>1 DEF ThiefHolds
    <2> QED BY <1>3, <1>4, <2>1, <2>2, <2>3, <2>4, <2>5 DEF ThiefHolds
  <1> QED BY <1>6, <1>7, <1>8, <1>9, <1>10, <1>11 DEF Inv

-----------------------------------------------------------------------------
(* The owner's other steps. *)

\* Memory as it was.
LEMMA SameMemory ==
    ASSUME UNCHANGED <<shared, buffer>>
    PROVE  /\ Versions' = Versions /\ Own' = Own /\ OwnCap' = OwnCap
           /\ \A j : Ver(j)' = Ver(j)
  BY DEF Versions, Own, OwnCap, Ver

\* With an empty buffer there is one version.
LEMMA OneVersion ==
    ASSUME Inv, buffer = <<>>
    PROVE  Versions = {0} /\ Ver(0) = shared /\ Own = shared /\ 1 .. Len(buffer) = {}
  <1>1. Len(buffer) = 0 BY OwnIsLast DEF Inv
  <1> QED BY <1>1 DEF Versions, Ver, Own

LEMMA PushBeginKeeps == ASSUME Inv, PushBegin PROVE Inv'
  <1>1. /\ opc = "idle" /\ opc' = "put" /\ pushed < MaxTasks /\ ot' = top
        /\ pushed' = pushed + 1 /\ UNCHANGED <<top, shared, buffer, thieves, handed>>
        BY DEF PushBegin, memory
  <1>2. /\ DequeTypes /\ top \in Nat /\ Own.bottom \in Int /\ OwnBack = Own.bottom
        /\ OwnCap \in Nat /\ pushed \in Nat
    <2>1. OwnBack = Own.bottom BY <1>1 DEF OwnBack, Popping
    <2>2. DequeTypes /\ pushed \in Nat BY DEF Inv, DequeTypes
    <2> QED BY <2>1, <2>2, Ends
  <1>3. Versions' = Versions /\ Own' = Own /\ OwnCap' = OwnCap /\ \A j : Ver(j)' = Ver(j)
        BY <1>1, SameMemory
  <1>4. OwnBack' = OwnBack /\ Live' = Live /\ Back' = Back
        BY <1>1, <1>3 DEF OwnBack, Popping, Live, Back, Reserved
  <1>5. DequeTypes' BY <1>1, <1>2 DEF DequeTypes, thieves
  <1>6. VersionsInOrder'
    <2>1. VersionsInOrder BY DEF Inv
    <2> QED BY <1>1, <1>3, <1>4, <2>1 DEF VersionsInOrder
  <1>7. VersionsAgree'
    <2>1. VersionsAgree BY DEF Inv
    <2> QED BY <1>1, <1>3, <2>1 DEF VersionsAgree
  <1>8. RangeFits'
    <2>1. top <= OwnBack /\ OwnBack - top <= OwnCap BY DEF Inv, RangeFits
    <2> QED BY <1>1, <1>2, <1>3, <1>4, <2>1 DEF RangeFits
  <1>9. TasksDistinct'
    <2>1. /\ \A i \in Live : Content(Own, i) \in 1 .. pushed /\ handed[Content(Own, i)] = 0
          /\ \A i, j \in Live : Content(Own, i) = Content(Own, j) => i = j
          /\ \A t \in 0 .. MaxTasks : t > pushed => handed[t] = 0
          BY DEF Inv, TasksDistinct
    <2>2. pushed + 1 \in 0 .. MaxTasks /\ pushed + 1 > pushed BY <1>1, <1>2
    <2>3. handed[pushed + 1] = 0 BY <2>1, <2>2
    <2>4. \A i \in Live : Content(Own, i) \in 1 .. pushed + 1 /\ Content(Own, i) # pushed + 1
      <3> TAKE i \in Live
      <3> DEFINE c == Content(Own, i)
      <3>1. c \in 1 .. pushed BY <2>1
      <3> HIDE DEF c
      <3>2. c \in 1 .. pushed + 1 /\ c # pushed + 1 BY <1>2, <3>1
      <3> QED BY <3>2 DEF c
    <2>5. \A t \in 0 .. MaxTasks : t > pushed + 1 => handed[t] = 0 BY <1>2, <2>1
    <2>6. pushed + 1 >= 1 BY <1>2
    <2> QED BY <1>1, <1>3, <1>4, <2>1, <2>3, <2>4, <2>5, <2>6 DEF TasksDistinct
  <1>10. \A s \in Thieves : ThiefHolds(s)'
    <2>1. \A s \in Thieves : ThiefHolds(s) BY DEF Inv
    <2> QED BY <1>1, <1>3, <1>4, <2>1 DEF ThiefHolds, thieves
  <1> QED BY <1>5, <1>6, <1>7, <1>8, <1>9, <1>10 DEF Inv

\* pop() reads top_ behind its fence: nothing left, or one task to race for.
LEMMA PopLooksKeeps == ASSUME Inv, PopNone \/ PopOne PROVE Inv'
  <1>1. /\ opc = "fence" /\ buffer = <<>> /\ UNCHANGED <<top, shared, buffer, thieves, handed>>
        /\ pushed' = pushed
        /\ \/ opc' = "restore" /\ ot' = ot /\ top > Own.bottom
           \/ opc' = "race" /\ ot' = top /\ top = Own.bottom
        BY DEF PopNone, PopOne, memory, Fenced, history
  <1>2. /\ DequeTypes /\ top \in Nat /\ Own.bottom \in Int /\ OwnBack = Own.bottom + 1
        /\ OwnCap \in Nat
    <2>1. OwnBack = Own.bottom + 1 BY <1>1 DEF OwnBack, Popping
    <2>2. DequeTypes BY DEF Inv
    <2> QED BY <2>1, <2>2, Ends
  <1>3. Versions' = Versions /\ Own' = Own /\ OwnCap' = OwnCap /\ \A j : Ver(j)' = Ver(j)
        BY <1>1, SameMemory
  <1>4. OwnBack' = OwnBack /\ Live' = Live /\ Back' = Back
        BY <1>1, <1>3 DEF OwnBack, Popping, Live, Back, Reserved
  <1>5. DequeTypes' BY <1>1, <1>2 DEF DequeTypes, thieves
  <1>6. VersionsInOrder'
    <2>1. VersionsInOrder BY DEF Inv
    <2>2. Versions = {0} /\ 1 .. Len(buffer) = {} BY <1>1, OneVersion
    <2>3. Ver(0).bottom \in Int BY <1>1, Ends, OneVersion
    <2> QED BY <1>1, <1>3, <1>4, <2>1, <2>2, <2>3 DEF VersionsInOrder
  <1>7. VersionsAgree'
    <2>1. VersionsAgree BY DEF Inv
    <2> QED BY <1>1, <1>3, <2>1 DEF VersionsAgree
  <1>8. RangeFits'
    <2>1. top <= OwnBack /\ OwnBack - top <= OwnCap BY DEF Inv, RangeFits
    <2>2. opc' = "restore" => top = OwnBack BY <1>1, <1>2, <2>1
    <2> QED BY <1>1, <1>2, <1>3, <1>4, <2>1, <2>2 DEF RangeFits
  <1>9. TasksDistinct'
    <2>1. TasksDistinct BY DEF Inv
    <2> QED BY <1>1, <1>3, <1>4, <2>1 DEF TasksDistinct
  <1>10. \A s \in Thieves : ThiefHolds(s)'
    <2>1. \A s \in Thieves : ThiefHolds(s) BY DEF Inv
    <2> QED BY <1>1, <1>3, <1>4, <2>1 DEF ThiefHolds, thieves
  <1> QED BY <1>5, <1>6, <1>7, <1>8, <1>9, <1>10 DEF Inv

\* A task leaves the range: the others are as distinct as before.
LEMMA HandOutKeeps ==
    ASSUME Inv, NEW j \in Live, HandOut(Content(Own, j)), pushed' = pushed, Own' = Own,
           Live' \subseteq Live \ {j}, opc' \in {"put", "publish"} => opc' = opc
    PROVE  TasksDistinct' /\ handed' \in [0 .. MaxTasks -> Nat]
  <1> DEFINE t == Content(Own, j)
  <1>1. /\ t \in 1 .. pushed /\ pushed \in 0 .. MaxTasks /\ handed \in [0 .. MaxTasks -> Nat]
        BY DEF Inv, TasksDistinct, DequeTypes
  <1>2. t \in 0 .. MaxTasks BY <1>1
  <1>3. /\ handed' \in [0 .. MaxTasks -> Nat]
        /\ \A u \in 0 .. MaxTasks : u # t => handed'[u] = handed[u]
        BY <1>1, <1>2 DEF HandOut
  <1>4. \A i \in Live' : Content(Own, i) \in 1 .. pushed /\ handed'[Content(Own, i)] = 0
    <2> TAKE i \in Live'
    <2>1. i \in Live /\ i # j OBVIOUS
    <2>2. Content(Own, i) \in 1 .. pushed /\ handed[Content(Own, i)] = 0
          /\ Content(Own, i) # t
          BY <2>1 DEF Inv, TasksDistinct
    <2> HIDE DEF t
    <2> QED BY <1>1, <1>3, <2>2
  <1>5. \A u \in 0 .. MaxTasks : u > pushed => handed'[u] = 0
    <2>1. \A u \in 0 .. MaxTasks : u > pushed => handed[u] = 0 BY DEF Inv, TasksDistinct
    <2> HIDE DEF t
    <2> QED BY <1>1, <1>3, <2>1
  <1>6. opc' \in {"put", "publish"} =>
           /\ pushed >= 1 /\ handed'[pushed] = 0 /\ \A i \in Live' : Content(Own, i) # pushed
    <2> SUFFICES ASSUME opc' \in {"put", "publish"}
                 PROVE  /\ pushed >= 1 /\ handed'[pushed] = 0
                        /\ \A i \in Live' : Content(Own, i) # pushed
        OBVIOUS
    <2>1. /\ pushed >= 1 /\ handed[pushed] = 0 /\ \A i \in Live : Content(Own, i) # pushed
          BY DEF Inv, TasksDistinct
    <2>2. pushed # t BY <2>1
    <2> HIDE DEF t
    <2> QED BY <1>1, <1>3, <2>1, <2>2
  <1>7. \A i, k \in Live' : Content(Own, i) = Content(Own, k) => i = k
        BY DEF Inv, TasksDistinct
  <1> QED BY <1>3, <1>4, <1>5, <1>6, <1>7 DEF TasksDistinct

LEMMA PopManyKeeps == ASSUME Inv, PopMany PROVE Inv'
  <1>1. /\ opc = "fence" /\ buffer = <<>> /\ top < Own.bottom /\ opc' = "idle" /\ ot' = ot
        /\ HandOut(Content(Own, Own.bottom)) /\ pushed' = pushed
        /\ UNCHANGED <<top, shared, buffer, thieves>>
        BY DEF PopMany, memory, Fenced, Content
  <1>2. /\ DequeTypes /\ top \in Nat /\ Own.bottom \in Int /\ OwnBack = Own.bottom + 1
        /\ OwnCap \in Nat /\ Own = shared
    <2>1. OwnBack = Own.bottom + 1 BY <1>1 DEF OwnBack, Popping
    <2>2. DequeTypes BY DEF Inv
    <2> QED BY <1>1, <2>1, <2>2, Ends
  <1>3. Versions' = Versions /\ Own' = Own /\ OwnCap' = OwnCap /\ \A j : Ver(j)' = Ver(j)
        BY <1>1, SameMemory
  <1>4. OwnBack' = Own.bottom /\ Back' = Own.bottom
        BY <1>1, <1>2, <1>3 DEF OwnBack, Popping, Back, Reserved
  <1>5. Own.bottom \in Live /\ Live' \subseteq Live \ {Own.bottom}
        BY <1>1, <1>2, <1>4 DEF Live
  <1>6. TasksDistinct' /\ handed' \in [0 .. MaxTasks -> Nat]
        BY <1>1, <1>3, <1>5, HandOutKeeps
  <1>7. DequeTypes' BY <1>1, <1>2, <1>6 DEF DequeTypes, thieves
  <1>8. VersionsInOrder'
    <2>1. VersionsInOrder BY DEF Inv
    <2>2. Versions = {0} /\ 1 .. Len(buffer) = {} /\ Ver(0) = Own BY <1>1, OneVersion
    <2> QED BY <1>1, <1>2, <1>3, <1>4, <2>1, <2>2 DEF VersionsInOrder
  <1>9. VersionsAgree'
    <2>1. VersionsAgree BY DEF Inv
    <2> QED BY <1>1, <1>3, <2>1 DEF VersionsAgree
  <1>10. RangeFits'
    <2>1. OwnBack - top <= OwnCap BY DEF Inv, RangeFits
    <2> QED BY <1>1, <1>2, <1>3, <1>4, <2>1 DEF RangeFits
  <1>11. \A s \in Thieves : ThiefHolds(s)'
    <2>1. \A s \in Thieves : ThiefHolds(s) BY DEF Inv
    <2>2. top < Back' BY <1>1, <1>4
    <2> QED BY <1>1, <1>3, <2>1, <2>2 DEF ThiefHolds, thieves
  <1> QED BY <1>6, <1>7, <1>8, <1>9, <1>10, <1>11 DEF Inv

\* The oldest task is taken by the swap on top_, the owner's or a thief's.
LEMMA TopAdvances ==
    ASSUME Inv, top < Back, top' = top + 1, HandOut(Content(Own, top)), pushed' = pushed,
           UNCHANGED <<shared, buffer, st, sa, sv>>, OwnBack' = OwnBack,
           \A s \in Thieves : spc'[s] \in {spc[s], "idle"},
           opc' \in {"put", "publish"} => opc' = opc, opc' = "fence" <=> opc = "fence",
           opc' \in {"race", "restore"} => buffer = <<>>
    PROVE  /\ VersionsInOrder' /\ VersionsAgree' /\ TasksDistinct'
           /\ handed' \in [0 .. MaxTasks -> Nat]
           /\ \A s \in Thieves : ThiefHolds(s)'
  <1>1. /\ top \in Nat /\ Back \in Int /\ OwnBack \in Int /\ Back <= OwnBack
        /\ DequeTypes
        BY Ends DEF Inv
  <1>2. Versions' = Versions /\ Own' = Own /\ OwnCap' = OwnCap /\ \A j : Ver(j)' = Ver(j)
        BY SameMemory
  <1>3. top \in Live /\ Live' \subseteq Live \ {top} BY <1>1 DEF Live
  <1>4. TasksDistinct' /\ handed' \in [0 .. MaxTasks -> Nat]
        BY <1>2, <1>3, HandOutKeeps
  <1>5. VersionsInOrder'
    <2>1. VersionsInOrder BY DEF Inv
    <2>2. ASSUME NEW j \in Versions PROVE top <= Ver(j).bottom
      <3>1. CASE Reserved
        <4>1. j = 0 /\ Ver(0) = shared BY <3>1, OneVersion DEF Reserved
        <4>2. Back = shared.bottom + 1 /\ shared.bottom \in Int BY <3>1, Ends DEF Back
        <4> QED BY <1>1, <4>1, <4>2
      <3>2. CASE ~Reserved
        <4>1. Back = Ver(0).bottom BY <3>2 DEF Back, Ver
        <4>2. 0 \in Versions /\ 0 <= j BY OwnIsLast, <1>1 DEF Versions
        <4>3. Ver(0).bottom <= Ver(j).bottom + 1 \/ Ver(0).bottom <= Ver(j).bottom
              BY <2>1, <4>2 DEF VersionsInOrder
        <4>4. Ver(j).bottom \in Int BY <1>1, OwnIsLast DEF Version
        <4> DEFINE b == Ver(j).bottom
        <4> HIDE DEF b
        <4>5. b \in Int /\ (Back <= b + 1 \/ Back <= b) BY <4>1, <4>3, <4>4 DEF b
        <4>6. top <= b BY <1>1, <4>5
        <4> QED BY <4>6 DEF b
      <3> QED BY <3>1, <3>2
    <2>3. \A j \in Versions : top' - 1 <= Ver(j).bottom BY <1>1, <2>2
    <2> QED BY <1>2, <2>1, <2>3 DEF VersionsInOrder
  <1>6. VersionsAgree'
    <2> SUFFICES ASSUME NEW j \in Versions, NEW k \in Versions, j <= k,
                        NEW i \in top' .. Ver(j).bottom - 1
                 PROVE  Get(Ver(k), Ver(j).array, i) = Content(Own, i)
        BY <1>2 DEF VersionsAgree
    <2>1. i \in top .. Ver(j).bottom - 1
      <3>1. Ver(j).bottom \in Int BY <1>1, OwnIsLast DEF Version
      <3> QED BY <1>1, <3>1
    <2> QED BY <2>1 DEF Inv, VersionsAgree
  <1>7. \A s \in Thieves : ThiefHolds(s)'
    <2> TAKE s \in Thieves
    <2>1. ThiefHolds(s) /\ st[s] \in Nat BY <1>1 DEF Inv, DequeTypes
    <2>2. spc'[s] # "idle" => st[s] <= top BY <2>1 DEF ThiefHolds
    <2>3. spc'[s] # "idle" => st[s] <= top' /\ st[s] # top' BY <1>1, <2>1, <2>2
    <2>4. spc'[s] = "slot" => sa[s] \in 1 .. shared.array BY <2>1 DEF ThiefHolds
    <2> QED BY <2>3, <2>4 DEF ThiefHolds
  <1> QED BY <1>4, <1>5, <1>6, <1>7

LEMMA PopRaceKeeps == ASSUME Inv, PopRace PROVE Inv'
  <1>1. /\ opc = "race" /\ buffer = <<>> /\ opc' = "restore" /\ ot' = ot /\ pushed' = pushed
        /\ UNCHANGED <<shared, buffer, thieves>>
        /\ \/ top = ot /\ top' = ot + 1 /\ HandOut(Content(Own, Own.bottom))
           \/ top # ot /\ top' = top /\ handed' = handed
        BY DEF PopRace, Content
  <1>2. /\ DequeTypes /\ top \in Nat /\ Own.bottom \in Int /\ OwnBack = Own.bottom + 1
        /\ OwnCap \in Nat /\ ot = Own.bottom /\ ot <= top /\ top <= OwnBack
        /\ OwnBack - top <= OwnCap /\ Back = OwnBack
    <2>1. OwnBack = Own.bottom + 1 BY <1>1 DEF OwnBack, Popping
    <2>2. DequeTypes BY DEF Inv
    <2>3. ot = Own.bottom /\ ot <= top /\ OwnBack - top <= OwnCap BY <1>1 DEF Inv, RangeFits
    <2> QED BY <1>1, <2>1, <2>2, <2>3, Ends
  <1>3. Versions' = Versions /\ Own' = Own /\ OwnCap' = OwnCap /\ \A j : Ver(j)' = Ver(j)
        BY <1>1, SameMemory
  <1>4. OwnBack' = OwnBack /\ Back' = Back
        BY <1>1, <1>3 DEF OwnBack, Popping, Back, Reserved
  <1>5. CASE top = ot /\ top' = ot + 1 /\ HandOut(Content(Own, Own.bottom))
    <2>1. top < Back /\ top' = top + 1 /\ top = Own.bottom BY <1>2, <1>5
    <2>2. /\ VersionsInOrder' /\ VersionsAgree' /\ TasksDistinct'
          /\ handed' \in [0 .. MaxTasks -> Nat]
          /\ \A s \in Thieves : ThiefHolds(s)'
          BY <1>1, <1>4, <1>5, <2>1, TopAdvances DEF thieves
    <2>5. top' \in Nat /\ top' = OwnBack /\ OwnBack \in Int /\ ot <= top' BY <1>2, <2>1
    <2>3. DequeTypes'
      <3>1. DequeTypes BY DEF Inv
      <3> QED BY <1>1, <2>2, <2>5, <3>1 DEF DequeTypes, thieves
    <2>4. RangeFits'
      <3>1. top' <= OwnBack' /\ OwnBack' - top' <= OwnCap' BY <1>2, <1>3, <1>4, <2>5
      <3> QED BY <1>1, <1>2, <1>3, <1>4, <2>5, <3>1 DEF RangeFits
    <2> QED BY <2>2, <2>3, <2>4 DEF Inv
  <1>6. CASE top # ot /\ top' = top /\ handed' = handed
    <2>1. top = OwnBack BY <1>2, <1>6
    <2>2. DequeTypes' BY <1>1, <1>2, <1>6 DEF DequeTypes, thieves
    <2>3. Live' = Live BY <1>4, <1>6 DEF Live
    <2>4. VersionsInOrder'
      <3>1. VersionsInOrder BY DEF Inv
      <3> QED BY <1>1, <1>3, <1>4, <1>6, <3>1 DEF VersionsInOrder
    <2>5. VersionsAgree'
      <3>1. VersionsAgree BY DEF Inv
      <3> QED BY <1>3, <1>6, <3>1 DEF VersionsAgree
    <2>6. RangeFits' BY <1>1, <1>2, <1>3, <1>4, <1>6, <2>1 DEF RangeFits
    <2>7. TasksDistinct'
      <3>1. TasksDistinct BY DEF Inv
      <3> QED BY <1>1, <1>3, <1>6, <2>3, <3>1 DEF TasksDistinct
    <2>8. \A s \in Thieves : ThiefHolds(s)'
      <3>1. \A s \in Thieves : ThiefHolds(s) BY DEF Inv
      <3> QED BY <1>1, <1>3, <1>4, <1>6, <3>1 DEF ThiefHolds, thieves
    <2> QED BY <2>2, <2>4, <2>5, <2>6, <2>7, <2>8 DEF Inv
  <1> QED BY <1>1, <1>5, <1>6

-----------------------------------------------------------------------------
(* The thieves' steps. *)

\* A thief's read leaves everything but the thief as it was.
LEMMA ThiefReads ==
    ASSUME Inv, NEW s \in Thieves, UNCHANGED <<memory, owner, history>>,
           \A r \in Thieves : r # s => spc'[r] = spc[r] /\ st'[r] = st[r] /\ sa'[r] = sa[r]
                                     /\ sv'[r] = sv[r],
           spc' \in [Thieves -> {"idle", "bottom", "array", "slot", "swap"}],
           st' \in [Thieves -> Nat], sa' \in [Thieves -> Nat], sv' \in [Thieves -> Nat],
           ThiefHolds(s)'
    PROVE  Inv'
  <1>1. /\ UNCHANGED <<top, shared, buffer, opc, ot, pushed, handed>>
        BY DEF memory, owner, history
  <1>2. Versions' = Versions /\ Own' = Own /\ OwnCap' = OwnCap /\ \A j : Ver(j)' = Ver(j)
        BY <1>1, SameMemory
  <1>3. OwnBack' = OwnBack /\ Live' = Live /\ Back' = Back
        BY <1>1, <1>2 DEF OwnBack, Popping, Live, Back, Reserved
  <1>4. DequeTypes' BY <1>1 DEF Inv, DequeTypes
  <1>5. VersionsInOrder'
    <2>1. VersionsInOrder BY DEF Inv
    <2> QED BY <1>1, <1>2, <1>3, <2>1 DEF VersionsInOrder
  <1>6. VersionsAgree'
    <2>1. VersionsAgree BY DEF Inv
    <2> QED BY <1>1, <1>2, <2>1 DEF VersionsAgree
  <1>7. RangeFits'
    <2>1. RangeFits BY DEF Inv
    <2> QED BY <1>1, <1>2, <1>3, <2>1 DEF RangeFits
  <1>8. TasksDistinct'
    <2>1. TasksDistinct BY DEF Inv
    <2> QED BY <1>1, <1>2, <1>3, <2>1 DEF TasksDistinct
  <1>9. ASSUME NEW r \in Thieves PROVE ThiefHolds(r)'
    <2>1. CASE r # s
      <3>1. ThiefHolds(r) BY DEF Inv
      <3> QED BY <1>1, <1>2, <1>3, <2>1, <3>1 DEF ThiefHolds
    <2> QED BY <2>1
  <1> QED BY <1>4, <1>5, <1>6, <1>7, <1>8, <1>9 DEF Inv

LEMMA StealReadsKeep ==
    ASSUME Inv, NEW s \in Thieves, StealTop(s) \/ StealBottom(s) \/ StealArray(s) \/ StealSlot(s)
    PROVE  Inv'
  <1>1. /\ DequeTypes /\ top \in Nat /\ Back \in Int /\ shared.bottom \in Int
        /\ shared.array \in Nat \ {0} /\ shared \in Version
        /\ shared.array = Len(shared.arrays) /\ st[s] \in Nat
        BY Ends DEF Inv, DequeTypes
  <1>2. /\ spc \in [Thieves -> {"idle", "bottom", "array", "slot", "swap"}]
        /\ st \in [Thieves -> Nat] /\ sa \in [Thieves -> Nat] /\ sv \in [Thieves -> Nat]
        BY <1>1 DEF DequeTypes
  <1>3. ThiefHolds(s) BY DEF Inv
  <1>4. ASSUME UNCHANGED <<memory, owner, history>>
        PROVE  /\ top' = top /\ Versions' = Versions /\ Own' = Own /\ Back' = Back
               /\ shared' = shared /\ \A j : Ver(j)' = Ver(j)
    <2>1. UNCHANGED <<shared, buffer, top, opc>> BY <1>4 DEF memory, owner
    <2> QED BY <2>1, SameMemory DEF Back, Reserved
  <1>5. CASE StealTop(s)
    <2>1. /\ UNCHANGED <<memory, owner, history>> /\ sa' = sa /\ sv' = sv
          /\ st' = [st EXCEPT ![s] = top] /\ spc' = [spc EXCEPT ![s] = "bottom"]
          BY <1>5 DEF StealTop
    <2>2. spc'[s] = "bottom" /\ st'[s] = top BY <1>2, <2>1
    <2>3. ThiefHolds(s)' BY <1>1, <1>4, <2>1, <2>2 DEF ThiefHolds
    <2> QED BY <1>1, <1>2, <2>1, <2>3, ThiefReads
  <1>6. CASE StealBottom(s)
    <2>1. /\ UNCHANGED <<memory, owner, history>> /\ sa' = sa /\ sv' = sv /\ st' = st
          /\ spc[s] = "bottom"
          /\ spc' = [spc EXCEPT ![s] = IF st[s] >= shared.bottom THEN "idle" ELSE "array"]
          BY <1>6 DEF StealBottom
    <2>2. \/ spc'[s] = "idle"
          \/ spc'[s] = "array" /\ st[s] < shared.bottom
          BY <1>1, <1>2, <2>1
    <2>3. spc'[s] = "array" /\ st[s] = top => top < Back BY <1>1, <2>2 DEF Back
    <2>4. st[s] <= top BY <1>3, <2>1 DEF ThiefHolds
    <2>5. ThiefHolds(s)' BY <1>4, <2>1, <2>2, <2>3, <2>4 DEF ThiefHolds
    <2> QED BY <1>2, <2>1, <2>5, ThiefReads
  <1>7. CASE StealArray(s)
    <2>1. /\ UNCHANGED <<memory, owner, history>> /\ sv' = sv /\ st' = st
          /\ spc[s] = "array" /\ spc' = [spc EXCEPT ![s] = "slot"]
          /\ sa' = [sa EXCEPT ![s] = shared.array]
          BY <1>7 DEF StealArray
    <2>2. spc'[s] = "slot" /\ sa'[s] = shared.array /\ sa'[s] \in 1 .. shared.array
          BY <1>1, <1>2, <2>1
    <2>3. st[s] <= top /\ (st[s] = top => top < Back) BY <1>3, <2>1 DEF ThiefHolds
    <2>4. ASSUME st[s] = top, NEW k \in Versions
          PROVE  Get(Ver(k), shared.array, top) = Content(Own, top)
      <3>1. CASE Reserved
        <4>1. k = 0 /\ Ver(0) = shared /\ Own = shared BY <3>1, OneVersion DEF Reserved
        <4> QED BY <4>1 DEF Content
      <3>2. CASE ~Reserved
        <4>1. 0 \in Versions /\ 0 <= k /\ Ver(0) = shared BY <1>1, OwnIsLast DEF Versions, Ver
        <4>2. top \in top .. Ver(0).bottom - 1 BY <1>1, <2>3, <2>4, <3>2, <4>1 DEF Back
        <4> QED BY <4>1, <4>2 DEF Inv, VersionsAgree
      <3> QED BY <3>1, <3>2
    <2>5. ThiefHolds(s)' BY <1>4, <2>1, <2>2, <2>3, <2>4 DEF ThiefHolds
    <2> QED BY <1>1, <1>2, <2>1, <2>5, ThiefReads
  <1>8. CASE StealSlot(s)
    <2>1. /\ UNCHANGED <<memory, owner, history>> /\ sa' = sa /\ st' = st
          /\ spc[s] = "slot" /\ spc' = [spc EXCEPT ![s] = "swap"]
          /\ sv' = [sv EXCEPT ![s] = Get(shared, sa[s], st[s])]
          BY <1>8 DEF StealSlot
    <2>2. spc'[s] = "swap" /\ sv'[s] = Get(shared, sa[s], st[s]) BY <1>2, <2>1
    <2>3. st[s] <= top /\ (st[s] = top => top < Back) /\ sa[s] \in 1 .. shared.array
          BY <1>3, <2>1 DEF ThiefHolds
    <2>4. Get(shared, sa[s], st[s]) \in Nat BY <1>1, <2>3, GetType
    <2>5. st[s] = top => sv'[s] = Content(Own, top)
      <3>1. 0 \in Versions /\ Ver(0) = shared BY <1>1, OwnIsLast DEF Versions, Ver
      <3> QED BY <1>3, <2>1, <2>2, <3>1 DEF ThiefHolds
    <2>6. ThiefHolds(s)' BY <1>4, <2>1, <2>2, <2>3, <2>5 DEF ThiefHolds
    <2> QED BY <1>2, <2>1, <2>4, <2>6, ThiefReads
  <1> QED BY <1>5, <1>6, <1>7, <1>8

LEMMA StealSwapKeeps == ASSUME Inv, NEW s \in Thieves, StealSwap(s) PROVE Inv'
  <1>1. /\ spc[s] = "swap" /\ spc' = [spc EXCEPT ![s] = "idle"] /\ pushed' = pushed
        /\ UNCHANGED <<shared, buffer, opc, ot, st, sa, sv>>
        /\ \/ top = st[s] /\ top' = st[s] + 1 /\ HandOut(sv[s])
           \/ top # st[s] /\ UNCHANGED <<top, handed>>
        BY DEF StealSwap, owner
  <1>2. /\ DequeTypes /\ top \in Nat /\ Back \in Int /\ OwnBack \in Int /\ Back <= OwnBack
        /\ Own.bottom \in Int /\ OwnCap \in Nat
        BY Ends DEF Inv
  <1>3. /\ spc' \in [Thieves -> {"idle", "bottom", "array", "slot", "swap"}]
        /\ spc'[s] = "idle" /\ \A r \in Thieves : r # s => spc'[r] = spc[r]
        BY <1>1, <1>2 DEF DequeTypes
  <1>4. Versions' = Versions /\ Own' = Own /\ OwnCap' = OwnCap /\ \A j : Ver(j)' = Ver(j)
        BY <1>1, SameMemory
  <1>5. OwnBack' = OwnBack BY <1>1, <1>4 DEF OwnBack, Popping
  <1>6. CASE top = st[s] /\ top' = st[s] + 1 /\ HandOut(sv[s])
    <2>1. ThiefHolds(s) BY DEF Inv
    <2>2. top < Back /\ sv[s] = Content(Own, top) BY <1>1, <1>6, <2>1 DEF ThiefHolds
    <2>3. /\ RangeFits /\ (opc \in {"race", "restore"} => buffer = <<>>)
          BY DEF Inv, VersionsInOrder
    <2>4. /\ VersionsInOrder' /\ VersionsAgree' /\ TasksDistinct'
          /\ handed' \in [0 .. MaxTasks -> Nat]
          /\ \A r \in Thieves : ThiefHolds(r)'
          BY <1>1, <1>3, <1>5, <1>6, <2>2, <2>3, TopAdvances
    <2>5. top' \in Nat /\ top' = top + 1 /\ top' <= OwnBack BY <1>2, <1>6, <2>2
    <2>6. DequeTypes' BY <1>1, <1>2, <1>3, <2>4, <2>5 DEF DequeTypes
    <2>7. RangeFits'
      <3>1. top < OwnBack BY <1>2, <2>2
      <3>2. opc # "restore" BY <1>2, <2>3, <3>1 DEF RangeFits
      <3>3. OwnBack - top' <= OwnCap BY <1>2, <2>3, <2>5 DEF RangeFits
      <3>4. opc \in {"put", "race"} => ot <= top'
        <4>1. ot \in Nat /\ (opc \in {"put", "race"} => ot <= top)
              BY <1>2, <2>3 DEF RangeFits, DequeTypes
        <4> QED BY <1>2, <2>5, <4>1
      <3>5. opc = "publish" => Own.bottom - top' < OwnCap BY <1>2, <2>3, <2>5 DEF RangeFits
      <3> QED BY <1>1, <1>4, <1>5, <2>3, <2>5, <3>2, <3>3, <3>4, <3>5 DEF RangeFits
    <2> QED BY <2>4, <2>6, <2>7 DEF Inv
  <1>7. CASE top # st[s] /\ UNCHANGED <<top, handed>>
    <2>1. ThiefHolds(s)' BY <1>3 DEF ThiefHolds
    <2>2. UNCHANGED <<memory, owner, history>> BY <1>1, <1>7 DEF memory, owner, history
    <2>3. st' \in [Thieves -> Nat] /\ sa' \in [Thieves -> Nat] /\ sv' \in [Thieves -> Nat]
          BY <1>1, <1>2 DEF DequeTypes
    <2> QED BY <1>1, <1>3, <2>1, <2>2, <2>3, ThiefReads
  <1> QED BY <1>1, <1>6, <1>7

LEMMA StutterKeeps == ASSUME Inv, UNCHANGED vars PROVE Inv'
  <1>1. UNCHANGED <<top, shared, buffer, opc, ot, spc, st, sa, sv, pushed, handed>>
        BY DEF vars, memory, owner, thieves, history
  <1>2. Versions' = Versions /\ Own' = Own /\ OwnCap' = OwnCap /\ \A j : Ver(j)' = Ver(j)
        BY <1>1, SameMemory
  <1>3. OwnBack' = OwnBack /\ Live' = Live /\ Back' = Back
        BY <1>1, <1>2 DEF OwnBack, Popping, Live, Back, Reserved
  <1>4. DequeTypes' BY <1>1 DEF Inv, DequeTypes
  <1>5. VersionsInOrder' BY <1>1, <1>2, <1>3 DEF Inv, VersionsInOrder
  <1>6. VersionsAgree' BY <1>1, <1>2 DEF Inv, VersionsAgree
  <1>7. RangeFits' BY <1>1, <1>2, <1>3 DEF Inv, RangeFits
  <1>8. TasksDistinct' BY <1>1, <1>2, <1>3 DEF Inv, TasksDistinct
  <1>9. \A s \in Thieves : ThiefHolds(s)' BY <1>1, <1>2, <1>3 DEF Inv, ThiefHolds
  <1> QED BY <1>4, <1>5, <1>6, <1>7, <1>8, <1>9 DEF Inv

LEMMA NextKeeps == Inv /\ [Next]_vars => Inv'
  <1> SUFFICES ASSUME Inv, [Next]_vars PROVE Inv' OBVIOUS
  <1>1. CASE Flush BY <1>1, FlushKeeps
  <1>2. CASE PushBegin BY <1>2, PushBeginKeeps
  <1>3. CASE PushStep BY <1>3, GrowKeeps, PutKeeps, PublishKeeps DEF PushStep
  <1>4. CASE PopBegin BY <1>4, PopBeginKeeps
  <1>5. CASE PopStep
        BY <1>5, PopLooksKeeps, PopManyKeeps, PopRaceKeeps, PopRestoreKeeps DEF PopStep
  <1>6. ASSUME NEW s \in Thieves, StealStep(s) PROVE Inv'
        BY <1>6, StealReadsKeep, StealSwapKeeps DEF StealStep
  <1>7. CASE UNCHANGED vars BY <1>7, StutterKeeps
  <1> QED BY <1>1, <1>2, <1>3, <1>4, <1>5, <1>6, <1>7 DEF Next

\* The invariant behind the deque's promise: the live range fits its array, a thief that
\* will win the swap holds the oldest task, no task is in the range twice or after it was
\* handed out (work_stealing_deque.h:101-171).
THEOREM DequeIsSound == Spec => []Inv
  <1>1. Init => Inv BY InvStarts
  <1>2. Inv /\ [Next]_vars => Inv' BY NextKeeps
  <1> QED BY <1>1, <1>2, PTL DEF Spec

-----------------------------------------------------------------------------
(* The refinement: what is between top_ and everybody's back is the abstract deque. *)

Taken == {t \in Tasks : handed[t] > 0}

Size == IF Back < top THEN 0 ELSE Back - top

ItemsSound ==
    /\ Back \in Int /\ Back <= OwnBack
    /\ Items \in Seq(Nat) /\ Len(Items) = Size
    /\ \A i \in 1 .. Size : Items[i] = Content(Own, top + i - 1)

LEMMA ItemsAre == Inv => ItemsSound
  <1> SUFFICES ASSUME Inv PROVE ItemsSound OBVIOUS
  <1>1. /\ top \in Nat /\ Back \in Int /\ Size \in Nat /\ 1 .. (Back - top) = 1 .. Size
        BY Ends DEF Size
  <1>2. ASSUME NEW i \in 1 .. Size
        PROVE  /\ top + i - 1 \in top .. Back - 1
               /\ Get(shared, shared.array, top + i - 1) = Content(Own, top + i - 1)
               /\ Content(Own, top + i - 1) \in Nat
    <2>1. top + i - 1 \in top .. Back - 1 BY <1>1 DEF Size
    <2>2. Content(shared, top + i - 1) = Content(Own, top + i - 1) /\ top + i - 1 \in Live
          BY <2>1, Ends
    <2>3. Content(Own, top + i - 1) \in 1 .. pushed BY <2>2 DEF Inv, TasksDistinct
    <2> QED BY <2>1, <2>2, <2>3 DEF Content
  <1>3. Items = [i \in 1 .. Size |-> Get(shared, shared.array, top + i - 1)] BY <1>1 DEF Items
  <1>4. Items \in [1 .. Size -> Nat] BY <1>2, <1>3
  <1>5. Items \in Seq(Nat) /\ Len(Items) = Size BY <1>1, <1>4, SeqDef, LenProperties
  <1>6. Back <= OwnBack BY Ends
  <1> QED BY <1>1, <1>2, <1>3, <1>5, <1>6 DEF ItemsSound

\* Nothing is added or taken: the abstract deque stutters.
LEMMA Unmoved ==
    ASSUME Inv, ItemsSound, ItemsSound', top' = top, handed' = handed,
           Back' = Back \/ (Back <= top /\ Back' <= top),
           Own' = Own \/ shared' = shared
    PROVE  UNCHANGED Deque!vars
  <1>1. top \in Nat /\ Back \in Int /\ Back' \in Int BY Ends DEF ItemsSound
  <1>2. Size' = Size /\ Size \in Nat
    <2>1. Size = (IF Back < top THEN 0 ELSE Back - top)
          /\ Size' = (IF Back' < top THEN 0 ELSE Back' - top)
          BY DEF Size
    <2>2. CASE Back' = Back BY <1>1, <2>1, <2>2
    <2>3. CASE Back <= top /\ Back' <= top
      <3>1. \A b \in Int : b <= top => (IF b < top THEN 0 ELSE b - top) = 0 BY <1>1
      <3>2. (IF Back < top THEN 0 ELSE Back - top) = 0 BY <1>1, <2>3, <3>1
      <3>3. (IF Back' < top THEN 0 ELSE Back' - top) = 0 BY <1>1, <2>3, <3>1
      <3> QED BY ONLY <2>1, <3>2, <3>3
    <2> QED BY <2>2, <2>3
  <1>3. CASE Own' = Own
    <2>1. \A i \in 1 .. Size : Items'[i] = Items[i]
      <3> TAKE i \in 1 .. Size
      <3>1. Items[i] = Content(Own, top + i - 1) BY DEF ItemsSound
      <3>2. Items'[i] = Content(Own, top + i - 1) BY <1>2, <1>3 DEF ItemsSound
      <3> QED BY <3>1, <3>2
    <2>2. Items' = Items BY <1>2, <2>1, SeqEqual DEF ItemsSound
    <2> QED BY <2>2 DEF Deque!vars
  <1>4. CASE shared' = shared
    <2>1. 1 .. (Back - top) = 1 .. Size /\ 1 .. (Back' - top) = 1 .. Size BY <1>1, <1>2 DEF Size
    <2>2. Items = [i \in 1 .. Size |-> Get(shared, shared.array, top + i - 1)]
          BY <2>1 DEF Items
    <2>3. Items' = [i \in 1 .. Size |-> Get(shared, shared.array, top + i - 1)]
          BY <1>4, <2>1 DEF Items
    <2> QED BY <2>2, <2>3 DEF Deque!vars
  <1> QED BY <1>3, <1>4

\* Handing a task out is what takes it.
LEMMA HandOutTakes ==
    ASSUME Inv, NEW j \in Live, HandOut(Content(Own, j))
    PROVE  Taken' = Taken \cup {Content(Own, j)}
  <1> DEFINE c == Content(Own, j)
  <1>1. c \in 1 .. pushed /\ pushed \in 0 .. MaxTasks /\ handed \in [0 .. MaxTasks -> Nat]
        BY DEF Inv, TasksDistinct, DequeTypes
  <1> HIDE DEF c
  <1>2. c \in Tasks /\ Tasks \subseteq 0 .. MaxTasks BY <1>1 DEF Tasks
  <1>3. handed'[c] > 0 /\ \A t \in Tasks : t # c => handed'[t] = handed[t]
        BY <1>1, <1>2 DEF HandOut, c
  <1> QED BY <1>2, <1>3 DEF Taken, c

\* The swap on top_ takes the oldest.
LEMMA TopIsStolen ==
    ASSUME Inv, ItemsSound, ItemsSound', top < Back, top' = top + 1, Back' = Back, Own' = Own,
           HandOut(Content(Own, top))
    PROVE  Deque!Steal
  <1>1. top \in Nat /\ Back \in Int /\ top \in Live BY Ends
  <1>2. Size \in Nat /\ Size >= 1 /\ Size' = Size - 1 BY <1>1 DEF Size
  <1>3. /\ Items \in Seq(Nat) /\ Items' \in Seq(Nat) /\ Len(Items) = Size
        /\ Len(Items') = Size - 1
        BY <1>2 DEF ItemsSound
  <1>4. Items # <<>> BY <1>2, <1>3, EmptySeq
  <1>5. /\ Head(Items) = Items[1] /\ Tail(Items) \in Seq(Nat) /\ Len(Tail(Items)) = Size - 1
        /\ \A i \in 1 .. Size - 1 : Tail(Items)[i] = Items[i + 1]
        BY <1>2, <1>3, <1>4, HeadTailProperties
  <1>6. Items[1] = Content(Own, top)
    <2>1. 1 \in 1 .. Size /\ top + 1 - 1 = top BY <1>1, <1>2
    <2> QED BY <2>1 DEF ItemsSound
  <1>7. \A i \in 1 .. Size - 1 : Items'[i] = Tail(Items)[i]
    <2> TAKE i \in 1 .. Size - 1
    <2>1. i + 1 \in 1 .. Size /\ top + (i + 1) - 1 = top + 1 + i - 1 BY <1>1, <1>2
    <2>2. Items[i + 1] = Content(Own, top + (i + 1) - 1) BY <2>1 DEF ItemsSound
    <2>3. Items'[i] = Content(Own, top + 1 + i - 1) BY <1>2 DEF ItemsSound
    <2> QED BY <1>5, <2>1, <2>2, <2>3
  <1>8. Items' = Tail(Items) BY <1>2, <1>3, <1>5, <1>7, SeqEqual
  <1>9. Taken' = Taken \cup {Head(Items)} BY <1>1, <1>5, <1>6, HandOutTakes
  <1> QED BY <1>4, <1>8, <1>9 DEF Deque!Steal, Taken

\* The owner, with more than one task left, takes the newest.
LEMMA PopManyPops ==
    ASSUME Inv, ItemsSound, ItemsSound', PopMany
    PROVE  Deque!Pop
  <1>1. /\ opc = "fence" /\ buffer = <<>> /\ top < Own.bottom /\ opc' = "idle"
        /\ HandOut(Content(Own, Own.bottom)) /\ top' = top /\ UNCHANGED <<shared, buffer>>
        BY DEF PopMany, memory, Fenced, Content
  <1>2. top \in Nat /\ Own.bottom \in Int /\ Own = shared BY <1>1, Ends
  <1>3. /\ Own' = Own /\ Back = Own.bottom + 1 /\ Back' = Own.bottom /\ OwnBack = Back
        BY <1>1, <1>2, SameMemory DEF Back, Reserved, OwnBack, Popping
  <1>4. Size \in Nat /\ Size >= 2 /\ Size' = Size - 1 /\ top + Size - 1 = Own.bottom
        BY <1>1, <1>2, <1>3 DEF Size
  <1>5. Own.bottom \in Live BY <1>1, <1>2, <1>3 DEF Live
  <1>6. /\ Items \in Seq(Nat) /\ Items' \in Seq(Nat) /\ Len(Items) = Size
        /\ Len(Items') = Size - 1
        BY <1>4 DEF ItemsSound
  <1>7. Items # <<>> BY <1>4, <1>6, EmptySeq
  <1>8. Items[Len(Items)] = Content(Own, Own.bottom)
    <2>1. Size \in 1 .. Size BY <1>4
    <2>2. Items[Size] = Content(Own, top + Size - 1) BY <2>1 DEF ItemsSound
    <2> QED BY <1>4, <1>6, <2>2
  <1> DEFINE rest == SubSeq(Items, 1, Len(Items) - 1)
  <1>9. /\ rest \in Seq(Nat) /\ Len(rest) = Size - 1
        /\ \A i \in 1 .. Size - 1 : rest[i] = Items[i]
        BY <1>4, <1>6, SubSeqProperties
  <1> HIDE DEF rest
  <1>10. \A i \in 1 .. Size - 1 : Items'[i] = rest[i]
    <2> TAKE i \in 1 .. Size - 1
    <2>1. i \in 1 .. Size BY <1>4
    <2>2. Items[i] = Content(Own, top + i - 1) BY <2>1 DEF ItemsSound
    <2>3. Items'[i] = Content(Own, top + i - 1) BY <1>1, <1>3, <1>4 DEF ItemsSound
    <2> QED BY <1>9, <2>2, <2>3
  <1>11. Items' = rest BY <1>4, <1>6, <1>9, <1>10, SeqEqual
  <1>12. Taken' = Taken \cup {Items[Len(Items)]} BY <1>1, <1>5, <1>8, HandOutTakes
  <1> QED BY <1>7, <1>11, <1>12 DEF Deque!Pop, Taken, rest

\* A task is in the deque once the store of bottom_ reaches memory.
LEMMA FlushPushes ==
    ASSUME Inv, ItemsSound, ItemsSound', Flush
    PROVE  [Deque!Next]_(Deque!vars)
  <1>1. /\ Back' \in {Back, Back + 1} /\ top' = top /\ Own' = Own /\ OwnBack' = OwnBack
        /\ handed' = handed
        BY FlushMoves DEF Flush, history
  <1>2. top \in Nat /\ Back \in Int /\ OwnBack \in Int /\ Back <= OwnBack BY Ends
  <1>3. CASE Back' = Back \/ Back < top
    <2>1. Back' = Back \/ (Back <= top /\ Back' <= top) BY <1>1, <1>2, <1>3
    <2> QED BY <1>1, <2>1, Unmoved
  <1>4. CASE Back' = Back + 1 /\ top <= Back
    <2> DEFINE c == Content(Own, Back)
    <2>1. Back \in Live
      <3>1. Back' <= OwnBack' BY DEF ItemsSound
      <3> QED BY <1>1, <1>2, <1>4, <3>1 DEF Live
    <2>2. Size \in Nat /\ Size' = Size + 1 /\ top + (Size + 1) - 1 = Back
          BY <1>1, <1>2, <1>4 DEF Size
    <2>3. /\ Items \in Seq(Nat) /\ Items' \in Seq(Nat) /\ Len(Items) = Size
          /\ Len(Items') = Size + 1
          BY <2>2 DEF ItemsSound
    <2>4. c \in 1 .. pushed /\ pushed \in 0 .. MaxTasks /\ handed[c] = 0
          BY <2>1 DEF Inv, TasksDistinct, DequeTypes
    <2>5. \A i \in DOMAIN Items : Items[i] # c
      <3>1. DOMAIN Items = 1 .. Size BY <2>3, LenProperties
      <3>2. ASSUME NEW i \in 1 .. Size PROVE Items[i] # c
        <4>1. Items[i] = Content(Own, top + i - 1) BY DEF ItemsSound
        <4>2. top + i - 1 \in Live /\ top + i - 1 # Back BY <1>2, <1>4, <2>2 DEF Live
        <4> QED BY <2>1, <4>1, <4>2 DEF Inv, TasksDistinct
      <3> QED BY <3>1, <3>2
    <2>6. \A i \in 1 .. Size : Items'[i] = Items[i]
      <3> TAKE i \in 1 .. Size
      <3>1. Items[i] = Content(Own, top + i - 1) BY DEF ItemsSound
      <3>2. i \in 1 .. Size' BY <2>2
      <3>3. Items'[i] = Content(Own, top + i - 1) BY <1>1, <3>2 DEF ItemsSound
      <3> QED BY <3>1, <3>3
    <2>7. Items'[Size + 1] = c
      <3>1. Size + 1 \in 1 .. Size' BY <2>2
      <3>2. Items'[Size + 1] = Content(Own, top + (Size + 1) - 1) BY <1>1, <3>1 DEF ItemsSound
      <3> QED BY <2>2, <3>2
    <2> HIDE DEF c
    <2>8. c \in Nat /\ c \in Tasks /\ c \notin Taken BY <2>4 DEF Tasks, Taken
    <2>9. Items' = Append(Items, c)
      <3>1. /\ Append(Items, c) \in Seq(Nat) /\ Len(Append(Items, c)) = Size + 1
            /\ \A i \in 1 .. Size : Append(Items, c)[i] = Items[i]
            /\ Append(Items, c)[Size + 1] = c
            BY <2>3, <2>8, AppendProperties
      <3>2. \A i \in 1 .. Size + 1 : Items'[i] = Append(Items, c)[i]
        <4> TAKE i \in 1 .. Size + 1
        <4>1. i \in 1 .. Size \/ i = Size + 1 BY <2>2
        <4> QED BY <2>6, <2>7, <3>1, <4>1
      <3> QED BY <2>3, <3>1, <3>2, SeqEqual
    <2>10. Deque!Push(c) BY <1>1, <2>5, <2>8, <2>9 DEF Deque!Push, Taken
    <2> QED BY <2>8, <2>10 DEF Deque!Next
  <1> QED BY <1>1, <1>2, <1>3, <1>4

\* What the owner stores waits in the buffer: the deque is as it was for everybody.
LEMMA StoresStutter ==
    ASSUME Inv, ItemsSound, ItemsSound', Grow \/ Put \/ Publish \/ PopBegin \/ PopRestore
    PROVE  UNCHANGED Deque!vars
  <1>1. PICK v : Write(v)
        BY DEF Grow, Put, Publish, PopBegin, PopRestore
  <1>2. /\ top' = top /\ shared' = shared /\ buffer' = Append(buffer, v) BY <1>1 DEF Write
  <1>3. handed' = handed BY DEF Grow, Put, Publish, PopBegin, PopRestore, history
  <1>4. buffer' # <<>>
    <2>1. buffer \in Seq(Version) BY DEF Inv, DequeTypes
    <2>2. buffer \in Seq(Version \cup {v}) /\ v \in Version \cup {v} BY <2>1, SeqMonotonic
    <2> QED BY <1>2, <2>2, AppendProperties
  <1>5. Back' = shared.bottom BY <1>2, <1>4 DEF Back, Reserved
  <1>6. top \in Nat /\ Back \in Int /\ shared.bottom \in Int BY Ends
  <1>7. Back' = Back \/ (Back <= top /\ Back' <= top)
    <2>1. CASE Reserved
      <3>1. opc = "restore"
            BY <2>1 DEF Reserved, Grow, Put, Publish, PopBegin, PopRestore
      <3>2. top = OwnBack /\ Back <= OwnBack BY <3>1, Ends DEF Inv, RangeFits
      <3> QED BY <1>5, <1>6, <2>1, <3>2 DEF Back
    <2>2. CASE ~Reserved BY <1>5, <2>2 DEF Back
    <2> QED BY <2>1, <2>2
  <1> QED BY <1>2, <1>3, <1>7, Unmoved

\* Neither do the reads.
LEMMA ReadsStutter ==
    ASSUME Inv, ItemsSound, ItemsSound',
           \/ PushBegin \/ PopNone \/ PopOne
           \/ \E s \in Thieves : StealTop(s) \/ StealBottom(s) \/ StealArray(s) \/ StealSlot(s)
    PROVE  UNCHANGED Deque!vars
  <1>1. /\ UNCHANGED <<top, shared, buffer, handed>>
        /\ (opc' \in {"fence", "race", "restore"}) = (opc \in {"fence", "race", "restore"})
        BY DEF PushBegin, PopNone, PopOne, StealTop, StealBottom, StealArray, StealSlot, memory,
               owner, history
  <1>2. Back' = Back BY <1>1 DEF Back, Reserved
  <1> QED BY <1>1, <1>2, Unmoved

LEMMA RaceSteals ==
    ASSUME Inv, ItemsSound, ItemsSound', PopRace
    PROVE  [Deque!Next]_(Deque!vars)
  <1>1. /\ opc = "race" /\ buffer = <<>> /\ opc' = "restore" /\ UNCHANGED <<shared, buffer>>
        /\ \/ top = ot /\ top' = ot + 1 /\ HandOut(Content(Own, Own.bottom))
           \/ top # ot /\ top' = top /\ handed' = handed
        BY DEF PopRace, Content
  <1>2. Own' = Own /\ Back' = Back BY <1>1, SameMemory DEF Back, Reserved
  <1>3. CASE top = ot /\ top' = ot + 1 /\ HandOut(Content(Own, Own.bottom))
    <2>1. top \in Nat /\ Own.bottom \in Int /\ Back = OwnBack BY <1>1, Ends
    <2>2. ot = Own.bottom /\ OwnBack = Own.bottom + 1
          BY <1>1 DEF Inv, RangeFits, OwnBack, Popping
    <2>3. top < Back /\ top' = top + 1 /\ HandOut(Content(Own, top)) BY <1>3, <2>1, <2>2
    <2> QED BY <1>2, <2>3, TopIsStolen DEF Deque!Next
  <1>4. CASE top # ot /\ top' = top /\ handed' = handed BY <1>1, <1>2, <1>4, Unmoved
  <1> QED BY <1>1, <1>3, <1>4

LEMMA SwapSteals ==
    ASSUME Inv, ItemsSound, ItemsSound', NEW s \in Thieves, StealSwap(s)
    PROVE  [Deque!Next]_(Deque!vars)
  <1>1. /\ spc[s] = "swap" /\ UNCHANGED <<shared, buffer, opc>>
        /\ \/ top = st[s] /\ top' = st[s] + 1 /\ HandOut(sv[s])
           \/ top # st[s] /\ top' = top /\ handed' = handed
        BY DEF StealSwap, owner
  <1>2. Own' = Own /\ Back' = Back BY <1>1, SameMemory DEF Back, Reserved
  <1>3. CASE top = st[s] /\ top' = st[s] + 1 /\ HandOut(sv[s])
    <2>1. top < Back /\ sv[s] = Content(Own, top) BY <1>1, <1>3 DEF Inv, ThiefHolds
    <2> QED BY <1>2, <1>3, <2>1, TopIsStolen DEF Deque!Next
  <1>4. CASE top # st[s] /\ top' = top /\ handed' = handed BY <1>1, <1>2, <1>4, Unmoved
  <1> QED BY <1>1, <1>3, <1>4

LEMMA StepRefines ==
    Inv /\ ItemsSound /\ ItemsSound' /\ [Next]_vars => [Deque!Next]_(Deque!vars)
  <1> SUFFICES ASSUME Inv, ItemsSound, ItemsSound', [Next]_vars
               PROVE  [Deque!Next]_(Deque!vars)
      OBVIOUS
  <1>1. CASE Flush BY <1>1, FlushPushes
  <1>2. CASE PushBegin \/ PopBegin BY <1>2, ReadsStutter, StoresStutter
  <1>3. CASE PushStep BY <1>3, StoresStutter DEF PushStep
  <1>4. CASE PopStep
    <2>1. CASE PopNone \/ PopOne BY <2>1, ReadsStutter
    <2>2. CASE PopMany BY <2>2, PopManyPops DEF Deque!Next
    <2>3. CASE PopRace BY <2>3, RaceSteals
    <2>4. CASE PopRestore BY <2>4, StoresStutter
    <2> QED BY <1>4, <2>1, <2>2, <2>3, <2>4 DEF PopStep
  <1>5. ASSUME NEW s \in Thieves, StealStep(s) PROVE [Deque!Next]_(Deque!vars)
    <2>1. CASE StealSwap(s) BY <2>1, SwapSteals
    <2>2. CASE StealTop(s) \/ StealBottom(s) \/ StealArray(s) \/ StealSlot(s)
          BY <2>2, ReadsStutter
    <2> QED BY <1>5, <2>1, <2>2 DEF StealStep
  <1>6. CASE UNCHANGED vars
    <2>1. UNCHANGED <<top, shared, buffer, opc, handed>>
          BY <1>6 DEF vars, memory, owner, history
    <2>2. Back' = Back BY <2>1 DEF Back, Reserved
    <2> QED BY <2>1, <2>2, Unmoved
  <1> QED BY <1>1, <1>2, <1>3, <1>4, <1>5, <1>6 DEF Next

LEMMA InitRefines == Init /\ ItemsSound => Deque!Init
  <1> SUFFICES ASSUME Init, ItemsSound PROVE Deque!Init OBVIOUS
  <1>1. top = 0 /\ shared.bottom = 0 /\ ~Reserved BY DEF Init, Reserved
  <1>2. Size = 0 BY <1>1 DEF Size, Back
  <1>3. Items = <<>> BY <1>2, EmptySeq DEF ItemsSound
  <1>4. Taken = {} BY DEF Init, Taken, Tasks, NoTask
  <1> QED BY <1>3, <1>4 DEF Deque!Init, Taken

\* The deque with its races, its growth and its store buffer is the abstract one: each task
\* handed out once, in its turn, to the owner or to one thief
\* (work_stealing_deque.h:101-171).
THEOREM DequeIsAWorkDeque == Spec => ImplementsWorkDeque
  <1>1. Spec => Deque!Spec
        BY DequeIsSound, ItemsAre, StepRefines, InitRefines, PTL DEF Spec, Deque!Spec
  <1> QED BY <1>1 DEF ImplementsWorkDeque

-----------------------------------------------------------------------------
(* The pool.  A task that is not done is in one of five places: the       *)
(* injection queue, the hands of a worker, a deque, the resumable list, or *)
(* parked.                                                                 *)

Hands == {"own", "body", "notify", "resume"}
Drains == {"draining", "advance", "own", "release"}
WorkerPlaces ==
    Hands \cup Drains \cup {"top", "drain", "drainTail", "token", "pop", "steal", "lock",
                            "check", "checkTail", "checkDeques", "asleep", "woken", "out"}

PoolType ==
    /\ running \in BOOLEAN
    /\ resumable \in Seq(Nat)
    /\ nodes \in Seq([task : Nat, by : Submitters, born : Nat])
    /\ linked \subseteq DOMAIN nodes
    /\ head \in 0 .. Len(nodes)
    /\ token \in BOOLEAN
    /\ deque \in [Workers -> Seq(Nat)]
    /\ wk \in [Workers -> WorkerPlaces]
    /\ cur \in [Workers -> Nat]
    /\ seen \in [Workers -> Nat]
    /\ scan \in [Workers -> SUBSET Workers]
    /\ sub \in [Submitters -> {"idle", "link", "notify"}]
    /\ made \in 0 .. TaskLimit
    /\ parent \in [Ids -> Nat]

\* The task in each worker's hands, 0 for none.
hand == [k \in Workers |-> IF wk[k] \in Hands THEN cur[k] ELSE NoId]

Values(f) == {f[k] : k \in DOMAIN f} \ {NoId}
StoredIn(d) == UNION {{d[k][i] : i \in DOMAIN d[k]} : k \in DOMAIN d}
Queue == {nodes[n].task : n \in {m \in DOMAIN nodes : m > head}}
Elements(s) == {s[i] : i \in DOMAIN s}

\* No place holds a task twice.
ValuesOnce(f) == \A k, l \in DOMAIN f : f[k] = f[l] /\ f[k] # NoId => k = l
StoredOnce(d) ==
    \A k, l \in DOMAIN d : \A i \in DOMAIN d[k], j \in DOMAIN d[l] :
        d[k][i] = d[l][j] => k = l /\ i = j
SeqOnce(s) == \A i, j \in DOMAIN s : s[i] = s[j] => i = j
NodesOnce ==
    /\ \A n \in DOMAIN nodes : nodes[n].task \in 1 .. made
    /\ \A m, n \in DOMAIN nodes : nodes[m].task = nodes[n].task => m = n

EachPlaceOnce == NodesOnce /\ ValuesOnce(hand) /\ StoredOnce(deque) /\ SeqOnce(resumable)

\* The six sets A .. F are disjoint, and make up S.
Divides(S, A, B, C, D, E, F) ==
    /\ S = A \cup B \cup C \cup D \cup E \cup F
    /\ A \cap (B \cup C \cup D \cup E \cup F) = {}
    /\ B \cap (C \cup D \cup E \cup F) = {}
    /\ C \cap (D \cup E \cup F) = {}
    /\ D \cap (E \cup F) = {}
    /\ E \cap F = {}

PlacesDivide ==
    Divides(1 .. made, Queue, Values(hand), StoredIn(deque), Elements(resumable), parked, done)

\* A worker's cur is set while it has a task, or is about to pop its node.
CurIsHeld ==
    \A k \in Workers : /\ wk[k] \in Hands => cur[k] # NoId
                       /\ wk[k] \notin Hands \cup {"advance"} => cur[k] = NoId

\* One worker at a time pops nodes, so the head it read is still the head.
OneDrains ==
    /\ \A k \in Workers : wk[k] \in Drains => token
    /\ \A k, l \in Workers : wk[k] \in Drains /\ wk[l] \in Drains => k = l
    /\ \A k \in Workers : wk[k] = "advance" =>
          /\ seen[k] = head /\ head + 1 \in DOMAIN nodes
          /\ cur[k] = nodes[head + 1].task

\* A submitter between the exchange and the link has a node to link.
LinksAreDue ==
    \A u \in Submitters : sub[u] = "link" =>
        \E n \in DOMAIN nodes : nodes[n].by = u /\ n \notin linked

PoolInv ==
    PoolType /\ CurIsHeld /\ OneDrains /\ LinksAreDue /\ EachPlaceOnce /\ PlacesDivide

-----------------------------------------------------------------------------
(* Tasks come and go. *)

\* Slot k of f is set to x, which no slot holds.
LEMMA ValueSet ==
    ASSUME NEW f \in [Workers -> Nat], NEW k \in Workers, NEW x \in Nat,
           ValuesOnce(f), x \notin Values(f)
    PROVE  /\ ValuesOnce([f EXCEPT ![k] = x])
           /\ Values([f EXCEPT ![k] = x]) = (Values(f) \ {f[k]}) \cup ({x} \ {NoId})
  <1> DEFINE g == [f EXCEPT ![k] = x]
  <1>1. DOMAIN f = Workers /\ DOMAIN g = Workers /\ g[k] = x /\ \A l \in Workers \ {k} : g[l] = f[l]
        OBVIOUS
  <1>2. \A l \in Workers : f[l] # NoId => f[l] # x BY DEF Values
  <1>3. \A l \in Workers \ {k} : f[l] # NoId => f[l] # f[k] BY DEF ValuesOnce
  <1> HIDE DEF g
  <1>4. ValuesOnce(g) BY <1>1, <1>2 DEF ValuesOnce
  <1>5. \A y : y \in Values(g) <=> y # NoId /\ \E l \in Workers : y = g[l] BY <1>1 DEF Values
  <1>6. \A y : y \in Values(f) <=> y # NoId /\ \E l \in Workers : y = f[l] BY <1>1 DEF Values
  <1>7. \A y : y \in Values(g) <=> y \in (Values(f) \ {f[k]}) \cup ({x} \ {NoId})
        BY <1>1, <1>3, <1>5, <1>6
  <1>8. Values(g) = (Values(f) \ {f[k]}) \cup ({x} \ {NoId}) BY <1>7
  <1> QED BY <1>4, <1>8 DEF g

\* x, which is in no sequence, is put at the back of d[k].
LEMMA StoredAppend ==
    ASSUME NEW d \in [Workers -> Seq(Nat)], NEW k \in Workers, NEW x \in Nat,
           StoredOnce(d), x \notin StoredIn(d)
    PROVE  /\ StoredOnce([d EXCEPT ![k] = Append(@, x)])
           /\ StoredIn([d EXCEPT ![k] = Append(@, x)]) = StoredIn(d) \cup {x}
  <1> DEFINE e == [d EXCEPT ![k] = Append(@, x)]
             n == Len(d[k])
  <1>1. d[k] \in Seq(Nat) /\ n \in Nat /\ DOMAIN d = Workers /\ DOMAIN e = Workers OBVIOUS
  <1>2. /\ DOMAIN d[k] = 1 .. n /\ DOMAIN e[k] = 1 .. n + 1 /\ e[k][n + 1] = x
        /\ \A i \in 1 .. n : e[k][i] = d[k][i]
        BY <1>1
  <1>3. \A l \in Workers \ {k} : e[l] = d[l] OBVIOUS
  <1>4. \A l \in Workers : \A i \in DOMAIN d[l] : d[l][i] # x BY <1>1 DEF StoredIn
  <1> HIDE DEF e, n
  <1>5. \A l \in Workers : \A i \in DOMAIN e[l] :
            \/ i \in DOMAIN d[l] /\ e[l][i] = d[l][i]
            \/ l = k /\ i = n + 1 /\ e[l][i] = x
        BY <1>1, <1>2, <1>3
  <1>6. StoredOnce(e)
    <2> SUFFICES ASSUME NEW l \in Workers, NEW m \in Workers,
                        NEW i \in DOMAIN e[l], NEW j \in DOMAIN e[m],
                        e[l][i] = e[m][j]
                 PROVE  l = m /\ i = j
        BY <1>1 DEF StoredOnce
    <2>1. \A a \in Workers, b \in Workers : \A p \in DOMAIN d[a], q \in DOMAIN d[b] :
              d[a][p] = d[b][q] => a = b /\ p = q
          BY <1>1 DEF StoredOnce
    <2>2. \/ i \in DOMAIN d[l] /\ e[l][i] = d[l][i]
          \/ l = k /\ i = n + 1 /\ e[l][i] = x
          BY <1>5
    <2>3. \/ j \in DOMAIN d[m] /\ e[m][j] = d[m][j]
          \/ m = k /\ j = n + 1 /\ e[m][j] = x
          BY <1>5
    <2>4. CASE i \in DOMAIN d[l] /\ e[l][i] = d[l][i]
      <3>1. e[m][j] # x BY <1>4, <2>4
      <3> QED BY <2>1, <2>3, <2>4, <3>1
    <2>5. CASE l = k /\ i = n + 1 /\ e[l][i] = x BY <1>4, <2>3, <2>5
    <2> QED BY <2>2, <2>4, <2>5
  <1>7. \A l \in Workers : \A i \in DOMAIN d[l] : i \in DOMAIN e[l] /\ e[l][i] = d[l][i]
        BY <1>1, <1>2, <1>3
  <1>8. n + 1 \in DOMAIN e[k] /\ e[k][n + 1] = x BY <1>1, <1>2
  <1>9. \A y : y \in StoredIn(e) <=> \E l \in Workers : \E i \in DOMAIN e[l] : y = e[l][i]
        BY <1>1 DEF StoredIn
  <1>10. \A y : y \in StoredIn(d) <=> \E l \in Workers : \E i \in DOMAIN d[l] : y = d[l][i]
        BY <1>1 DEF StoredIn
  <1>11. ASSUME NEW y \in StoredIn(e) PROVE y \in StoredIn(d) \cup {x}
    <2>1. PICK l \in Workers : \E i \in DOMAIN e[l] : y = e[l][i] BY <1>9, <1>11
    <2>2. PICK i \in DOMAIN e[l] : y = e[l][i] BY <2>1
    <2> QED BY <1>5, <1>10, <2>2
  <1>12. ASSUME NEW y \in StoredIn(d) PROVE y \in StoredIn(e)
    <2>1. PICK l \in Workers : \E i \in DOMAIN d[l] : y = d[l][i] BY <1>10, <1>12
    <2>2. PICK i \in DOMAIN d[l] : y = d[l][i] BY <2>1
    <2> QED BY <1>7, <1>9, <2>2
  <1>13. x \in StoredIn(e) BY <1>8, <1>9
  <1>14. StoredIn(e) = StoredIn(d) \cup {x} BY <1>11, <1>12, <1>13
  <1> QED BY <1>6, <1>14 DEF e

\* d[k] loses its element at place g, the first or the last.
LEMMA StoredRemove ==
    ASSUME NEW d \in [Workers -> Seq(Nat)], NEW k \in Workers, d[k] # <<>>, NEW s \in Seq(Nat),
           NEW x \in Nat,
           \/ s = Tail(d[k]) /\ x = Head(d[k])
           \/ s = Front(d[k]) /\ x = Last(d[k]),
           StoredOnce(d)
    PROVE  /\ x \in StoredIn(d)
           /\ StoredOnce([d EXCEPT ![k] = s])
           /\ StoredIn([d EXCEPT ![k] = s]) = StoredIn(d) \ {x}
  <1> DEFINE e == [d EXCEPT ![k] = s]
             n == Len(d[k])
  <1>1. /\ d[k] \in Seq(Nat) /\ n \in Nat /\ n > 0 /\ DOMAIN d = Workers /\ DOMAIN e = Workers
        /\ DOMAIN d[k] = 1 .. n
        OBVIOUS
  <1>2. PICK g \in 1 .. n, c \in {0, 1} :
           /\ x = d[k][g] /\ DOMAIN s = 1 .. n - 1
           /\ \A i \in 1 .. n - 1 : s[i] = d[k][i + c]
           /\ (c = 1 /\ g = 1) \/ (c = 0 /\ g = n)
    <2>1. CASE s = Tail(d[k]) /\ x = Head(d[k])
      <3>1. DOMAIN s = 1 .. n - 1 /\ (\A i \in 1 .. n - 1 : s[i] = d[k][i + 1]) /\ x = d[k][1]
            BY <1>1, <2>1
      <3>2. 1 \in 1 .. n /\ 1 \in {0, 1} BY <1>1
      <3> HIDE DEF n
      <3> QED BY <3>1, <3>2
    <2>2. CASE s = Front(d[k]) /\ x = Last(d[k])
      <3>1. s = [i \in 1 .. n - 1 |-> d[k][i]] BY <1>1, <2>2 DEF Front
      <3>2. x = d[k][n] BY <2>2 DEF Last
      <3>3. DOMAIN s = 1 .. n - 1 /\ (\A i \in 1 .. n - 1 : s[i] = d[k][i + 0]) BY <1>1, <3>1
      <3>4. n \in 1 .. n /\ 0 \in {0, 1} BY <1>1
      <3> HIDE DEF n
      <3> QED BY <3>2, <3>3, <3>4
    <2> QED BY <2>1, <2>2
  <1>3. e[k] = s /\ \A l \in Workers \ {k} : e[l] = d[l] OBVIOUS
  <1> HIDE DEF e, n
  <1>4. \A i \in DOMAIN e[k] : i + c \in DOMAIN d[k] /\ e[k][i] = d[k][i + c] /\ i + c # g
    <2> SUFFICES ASSUME NEW i \in 1 .. n - 1 PROVE i + c \in 1 .. n /\ i + c # g
        BY <1>1, <1>2, <1>3
    <2> QED BY <1>1, <1>2
  <1>5. \A i \in DOMAIN d[k] : i # g => i - c \in DOMAIN e[k] /\ e[k][i - c] = d[k][i]
    <2> SUFFICES ASSUME NEW i \in 1 .. n, i # g PROVE i - c \in 1 .. n - 1 /\ s[i - c] = d[k][i]
        BY <1>1, <1>2, <1>3
    <2>1. i - c \in 1 .. n - 1 /\ (i - c) + c = i BY <1>1, <1>2
    <2> QED BY <1>2, <2>1
  <1>6. g \in DOMAIN d[k] /\ d[k][g] = x BY <1>1, <1>2
  <1>7. \A y : y \in StoredIn(e) <=> \E l \in Workers : \E i \in DOMAIN e[l] : y = e[l][i]
        BY <1>1 DEF StoredIn
  <1>8. \A y : y \in StoredIn(d) <=> \E l \in Workers : \E i \in DOMAIN d[l] : y = d[l][i]
        BY <1>1 DEF StoredIn
  <1>9. \A l \in Workers : \A i \in DOMAIN d[l] : d[l][i] = x => l = k /\ i = g
        BY <1>1, <1>6 DEF StoredOnce
  <1>10. StoredOnce(e)
    <2> SUFFICES ASSUME NEW l \in Workers, NEW m \in Workers,
                        NEW i \in DOMAIN e[l], NEW j \in DOMAIN e[m],
                        e[l][i] = e[m][j]
                 PROVE  l = m /\ i = j
        BY <1>1 DEF StoredOnce
    <2> DEFINE a == IF l = k THEN i + c ELSE i
               b == IF m = k THEN j + c ELSE j
    <2>1. a \in DOMAIN d[l] /\ e[l][i] = d[l][a] BY <1>3, <1>4
    <2>2. b \in DOMAIN d[m] /\ e[m][j] = d[m][b] BY <1>3, <1>4
    <2>3. \A p \in DOMAIN d[l], q \in DOMAIN d[m] : d[l][p] = d[m][q] => l = m /\ p = q
          BY <1>1 DEF StoredOnce
    <2>4. l = m /\ a = b
      <3> HIDE DEF a, b
      <3> QED BY <2>1, <2>2, <2>3
    <2>5. CASE l = k
      <3>1. i \in 1 .. n - 1 /\ j \in 1 .. n - 1 /\ i + c = j + c BY <1>2, <1>3, <2>4, <2>5
      <3> QED BY <1>1, <1>2, <2>4, <3>1
    <2>6. CASE l # k BY <2>4, <2>6
    <2> QED BY <2>5, <2>6
  <1>11. ASSUME NEW y \in StoredIn(e) PROVE y \in StoredIn(d) \ {x}
    <2>0. PICK l \in Workers : \E i \in DOMAIN e[l] : y = e[l][i] BY <1>7, <1>11
    <2>1. PICK i \in DOMAIN e[l] : y = e[l][i] BY <2>0
    <2>2. CASE l = k
      <3>1. i + c \in DOMAIN d[k] /\ y = d[k][i + c] /\ i + c # g BY <1>4, <2>1, <2>2
      <3> QED BY <1>8, <1>9, <3>1
    <2>3. CASE l # k BY <1>3, <1>8, <1>9, <2>1, <2>3
    <2> QED BY <2>2, <2>3
  <1>12. ASSUME NEW y \in StoredIn(d) \ {x} PROVE y \in StoredIn(e)
    <2>0. PICK l \in Workers : \E i \in DOMAIN d[l] : y = d[l][i] BY <1>8, <1>12
    <2>1. PICK i \in DOMAIN d[l] : y = d[l][i] BY <2>0
    <2>2. CASE l = k
      <3>1. i # g BY <1>6, <1>12, <2>1, <2>2
      <3>2. i - c \in DOMAIN e[k] /\ y = e[k][i - c] BY <1>5, <2>1, <2>2, <3>1
      <3> QED BY <1>7, <3>2
    <2>3. CASE l # k BY <1>3, <1>7, <2>1, <2>3
    <2> QED BY <2>2, <2>3
  <1>13. x \in StoredIn(d) BY <1>6, <1>8
  <1>14. StoredIn(e) = StoredIn(d) \ {x} BY <1>11, <1>12
  <1> QED BY <1>10, <1>13, <1>14 DEF e

LEMMA ElementsAppend ==
    ASSUME NEW s \in Seq(Nat), NEW x \in Nat, SeqOnce(s), x \notin Elements(s)
    PROVE  SeqOnce(Append(s, x)) /\ Elements(Append(s, x)) = Elements(s) \cup {x}
  <1> DEFINE e == Append(s, x)
             n == Len(s)
  <1>1. n \in Nat /\ DOMAIN s = 1 .. n /\ DOMAIN e = 1 .. n + 1 OBVIOUS
  <1>2. e[n + 1] = x /\ \A i \in 1 .. n : e[i] = s[i] BY <1>1
  <1> HIDE DEF e, n
  <1>3. \A i \in 1 .. n : s[i] # x BY <1>1 DEF Elements
  <1>4. \A i, j \in 1 .. n : s[i] = s[j] => i = j BY <1>1 DEF SeqOnce
  <1>5. \A i \in 1 .. n + 1 : i \in 1 .. n \/ i = n + 1 BY <1>1
  <1>6. SeqOnce(e) BY <1>1, <1>2, <1>3, <1>4, <1>5 DEF SeqOnce
  <1>7. \A y : y \in Elements(e) <=> \E i \in 1 .. n + 1 : y = e[i] BY <1>1 DEF Elements
  <1>8. \A y : y \in Elements(s) <=> \E i \in 1 .. n : y = s[i] BY <1>1 DEF Elements
  <1>9. \A i \in 1 .. n : i \in 1 .. n + 1 BY <1>1
  <1>10. n + 1 \in 1 .. n + 1 BY <1>1
  <1>11. \A y : y \in Elements(e) <=> y \in Elements(s) \cup {x}
         BY <1>2, <1>5, <1>7, <1>8, <1>9, <1>10
  <1>12. Elements(e) = Elements(s) \cup {x} BY <1>11
  <1> QED BY <1>6, <1>12 DEF e

LEMMA ElementsTail ==
    ASSUME NEW s \in Seq(Nat), s # <<>>, SeqOnce(s)
    PROVE  /\ SeqOnce(Tail(s)) /\ Head(s) \in Elements(s)
           /\ Elements(Tail(s)) = Elements(s) \ {Head(s)}
  <1> DEFINE e == Tail(s)
             n == Len(s)
  <1>1. n \in Nat /\ n > 0 /\ DOMAIN s = 1 .. n /\ DOMAIN e = 1 .. n - 1 OBVIOUS
  <1>2. Head(s) = s[1] /\ \A i \in 1 .. n - 1 : e[i] = s[i + 1] BY <1>1
  <1> HIDE DEF e, n
  <1>3. \A i, j \in 1 .. n : s[i] = s[j] => i = j BY <1>1 DEF SeqOnce
  <1>4. \A i \in 1 .. n - 1 : i + 1 \in 1 .. n /\ i + 1 # 1 BY <1>1
  <1>5. \A i, j \in 1 .. n - 1 : i + 1 = j + 1 => i = j BY <1>1
  <1>6. SeqOnce(e) BY <1>1, <1>2, <1>3, <1>4, <1>5 DEF SeqOnce
  <1>7. \A y : y \in Elements(e) <=> \E i \in 1 .. n - 1 : y = e[i] BY <1>1 DEF Elements
  <1>8. \A y : y \in Elements(s) <=> \E i \in 1 .. n : y = s[i] BY <1>1 DEF Elements
  <1>9. \A i \in 1 .. n : i # 1 => i - 1 \in 1 .. n - 1 /\ e[i - 1] = s[i]
    <2> SUFFICES ASSUME NEW i \in 1 .. n, i # 1 PROVE i - 1 \in 1 .. n - 1 /\ e[i - 1] = s[i]
        OBVIOUS
    <2>1. i - 1 \in 1 .. n - 1 /\ (i - 1) + 1 = i BY <1>1
    <2> QED BY <1>2, <2>1
  <1>10. 1 \in 1 .. n BY <1>1
  <1>11. ASSUME NEW y \in Elements(e) PROVE y \in Elements(s) \ {s[1]}
    <2>1. PICK i \in 1 .. n - 1 : y = e[i] BY <1>7, <1>11
    <2>2. y = s[i + 1] /\ i + 1 \in 1 .. n /\ i + 1 # 1 BY <1>2, <1>4, <2>1
    <2> QED BY <1>3, <1>8, <1>10, <2>2
  <1>12. ASSUME NEW y \in Elements(s) \ {s[1]} PROVE y \in Elements(e)
    <2>1. PICK i \in 1 .. n : y = s[i] BY <1>8, <1>12
    <2> QED BY <1>7, <1>9, <1>12, <2>1
  <1>13. Elements(e) = Elements(s) \ {s[1]} BY <1>11, <1>12
  <1>14. s[1] \in Elements(s) BY <1>8, <1>10
  <1> QED BY <1>2, <1>6, <1>13, <1>14 DEF e

-----------------------------------------------------------------------------
(* What a step of one thread leaves alone. *)

Elsewhere(k) ==
    \A l \in Workers \ {k} :
        /\ cur'[l] = cur[l] /\ seen'[l] = seen[l]
        /\ wk'[l] = wk[l] \/ (wk[l] = "asleep" /\ wk'[l] = "woken")

WorkerSteps(k) == Look(k) \/ Doze(k) \/ Work(k) \/ WakeSpuriously(k)

LEMMA GoMoves ==
    ASSUME PoolType, NEW k \in Workers, NEW to \in WorkerPlaces, Go(k, to)
    PROVE  /\ wk' \in [Workers -> WorkerPlaces] /\ wk'[k] = to
           /\ \A l \in Workers \ {k} : wk'[l] = wk[l]
  BY DEF PoolType, Go

LEMMA NotifyMoves ==
    ASSUME PoolType, NEW k, NEW to \in WorkerPlaces, NotifyOne(k, to)
    PROVE  /\ wk' \in [Workers -> WorkerPlaces]
           /\ k \in Workers /\ wk[k] # "asleep" => wk'[k] = to
           /\ \A l \in Workers \ {k} : wk'[l] = wk[l] \/ (wk[l] = "asleep" /\ wk'[l] = "woken")
  <1> DEFINE moved == [l \in Workers |-> IF l = k THEN to ELSE wk[l]]
  <1>1. moved \in [Workers -> WorkerPlaces] BY DEF PoolType
  <1>2. "woken" \in WorkerPlaces BY DEF WorkerPlaces
  <1>3. /\ k \in Workers => moved[k] = to
        /\ \A l \in Workers \ {k} : moved[l] = wk[l]
        OBVIOUS
  <1>4. wk' = moved \/ \E l \in Sleepers : wk' = [moved EXCEPT ![l] = "woken"]
        BY DEF NotifyOne
  <1> HIDE DEF moved
  <1>5. CASE wk' = moved BY <1>1, <1>3, <1>5
  <1>6. ASSUME NEW s \in Sleepers, wk' = [moved EXCEPT ![s] = "woken"]
        PROVE  /\ wk' \in [Workers -> WorkerPlaces]
               /\ k \in Workers /\ wk[k] # "asleep" => wk'[k] = to
               /\ \A l \in Workers \ {k} :
                     wk'[l] = wk[l] \/ (wk[l] = "asleep" /\ wk'[l] = "woken")
    <2>1. s \in Workers /\ wk[s] = "asleep" BY DEF Sleepers
    <2>2. wk' \in [Workers -> WorkerPlaces] BY <1>1, <1>2, <1>6
    <2>3. wk'[s] = "woken" /\ \A l \in Workers \ {s} : wk'[l] = moved[l] BY <1>1, <1>6, <2>1
    <2> QED BY <1>3, <2>1, <2>2, <2>3
  <1> QED BY <1>4, <1>5, <1>6

LEMMA HandAfter ==
    ASSUME PoolType, wk' \in [Workers -> WorkerPlaces], cur' \in [Workers -> Nat],
           NEW k \in Workers, Elsewhere(k)
    PROVE  /\ hand \in [Workers -> Nat]
           /\ hand' = [hand EXCEPT ![k] = IF wk'[k] \in Hands THEN cur'[k] ELSE NoId]
  <1>1. hand \in [Workers -> Nat] BY DEF PoolType, hand, NoId
  <1>2. \A l \in Workers : hand'[l] = IF wk'[l] \in Hands THEN cur'[l] ELSE NoId BY DEF hand
  <1>3. \A l \in Workers : hand[l] = IF wk[l] \in Hands THEN cur[l] ELSE NoId BY DEF hand
  <1>4. "asleep" \notin Hands /\ "woken" \notin Hands BY DEF Hands
  <1>5. \A l \in Workers \ {k} : hand'[l] = hand[l] BY <1>2, <1>3, <1>4 DEF Elsewhere
  <1>6. hand' \in [Workers -> Nat] BY DEF hand, NoId
  <1> DEFINE other == [hand EXCEPT ![k] = IF wk'[k] \in Hands THEN cur'[k] ELSE NoId]
  <1>7. other \in [Workers -> Nat] BY <1>1 DEF NoId
  <1>8. \A l \in Workers : hand'[l] = other[l] BY <1>1, <1>2, <1>5
  <1> HIDE DEF hand, other
  <1>9. hand' = other BY <1>6, <1>7, <1>8
  <1> QED BY <1>1, <1>9 DEF other

LEMMA HeldIsMade ==
    ASSUME PoolType, CurIsHeld, PlacesDivide, NEW k \in Workers, wk[k] \in Hands
    PROVE  hand[k] = cur[k] /\ cur[k] # NoId /\ cur[k] \in Values(hand) /\ cur[k] \in 1 .. made
  <1>1. hand[k] = cur[k] /\ cur[k] # NoId /\ k \in DOMAIN hand BY DEF hand, CurIsHeld
  <1>2. cur[k] \in Values(hand) BY <1>1 DEF Values
  <1> QED BY <1>1, <1>2 DEF PlacesDivide, Divides

LEMMA WorkerTypes ==
    ASSUME PoolType, CurIsHeld, OneDrains, PlacesDivide, NEW k \in Workers, WorkerSteps(k)
    PROVE  PoolType' /\ Elsewhere(k)
  <1> USE DEF PoolType, Elsewhere, injection, locals, fate
  <1>1. \A to \in WorkerPlaces : Go(k, to) =>
           /\ wk' \in [Workers -> WorkerPlaces] /\ wk'[k] = to
           /\ \A l \in Workers \ {k} : wk'[l] = wk[l]
        BY GoMoves
  <1>2. \A to \in WorkerPlaces : NotifyOne(k, to) /\ wk[k] # "asleep" =>
           /\ wk' \in [Workers -> WorkerPlaces] /\ wk'[k] = to
           /\ \A l \in Workers \ {k} : wk'[l] = wk[l] \/ (wk[l] = "asleep" /\ wk'[l] = "woken")
        BY NotifyMoves
  <1>3. \A s \in {"draining", "advance", "own", "release", "body", "notify", "resume", "top",
                  "drain", "drainTail", "token", "pop", "steal", "lock", "check", "checkTail",
                  "checkDeques", "asleep", "woken", "out"} : s \in WorkerPlaces
        BY DEF WorkerPlaces, Hands, Drains
  <1>4. CASE TakeResumable(k)
    <2>1. CASE resumable = <<>> BY <1>1, <1>3, <1>4, <2>1 DEF TakeResumable
    <2>2. CASE resumable # <<>>
      <3>1. Head(resumable) \in Nat /\ Tail(resumable) \in Seq(Nat) BY <2>2
      <3> QED BY <1>1, <1>3, <1>4, <2>2, <3>1 DEF TakeResumable
    <2> QED BY <2>1, <2>2
  <1>5. CASE DrainHead(k) BY <1>1, <1>3, <1>5 DEF DrainHead
  <1>6. CASE DrainTail(k)
    <2>1. Go(k, "pop") \/ Go(k, "token") BY <1>6 DEF DrainTail
    <2> QED BY <1>1, <1>3, <1>6, <2>1 DEF DrainTail
  <1>7. CASE TakeToken(k)
    <2>1. Go(k, "pop") \/ Go(k, "draining") BY <1>7 DEF TakeToken
    <2> QED BY <1>1, <1>3, <1>7, <2>1 DEF TakeToken
  <1>8. CASE DrainRead(k)
    <2>1. CASE head + 1 \in linked
      <3>1. head + 1 \in 1 .. Len(nodes) /\ head \in Nat BY <2>1
      <3>2. nodes[head + 1] \in [task : Nat, by : Submitters, born : Nat]
            BY <3>1, ElementOfSeq
      <3>3. nodes[head + 1].task \in Nat BY <3>2
      <3> QED BY <1>1, <1>3, <1>8, <2>1, <3>1, <3>3 DEF DrainRead
    <2>2. CASE head + 1 \notin linked BY <1>1, <1>3, <1>8, <2>2 DEF DrainRead
    <2> QED BY <2>1, <2>2
  <1>9. CASE DrainAdvance(k)
    <2>1. seen[k] + 1 \in 0 .. Len(nodes) BY <1>9 DEF DrainAdvance, OneDrains
    <2> QED BY <1>1, <1>3, <1>9, <2>1 DEF DrainAdvance
  <1>10. CASE DrainPush(k)
    <2>1. Append(deque[k], cur[k]) \in Seq(Nat) OBVIOUS
    <2> QED BY <1>1, <1>3, <1>10, <2>1 DEF DrainPush, NoId
  <1>11. CASE ReleaseToken(k) BY <1>1, <1>3, <1>11 DEF ReleaseToken
  <1>12. CASE Pop(k)
    <2>1. CASE deque[k] = <<>>
      <3>1. scan' \in [Workers -> SUBSET Workers] BY <1>12, <2>1 DEF Pop
      <3> QED BY <1>1, <1>3, <1>12, <2>1, <3>1 DEF Pop
    <2>2. CASE deque[k] # <<>>
      <3>1. Last(deque[k]) \in Nat /\ Front(deque[k]) \in Seq(Nat) BY <2>2 DEF Last, Front
      <3> QED BY <1>1, <1>3, <1>12, <2>2, <3>1 DEF Pop
    <2> QED BY <2>1, <2>2
  <1>13. CASE Steal(k)
    <2>1. CASE scan[k] = {} /\ Go(k, "lock") /\ UNCHANGED <<deque, cur, scan>>
          BY <1>1, <1>3, <1>13, <2>1 DEF Steal
    <2>2. ASSUME NEW v \in scan[k], deque[v] = <<>>, scan' = [scan EXCEPT ![k] = @ \ {v}],
                 UNCHANGED <<deque, cur, wk>>
          PROVE  PoolType' /\ Elsewhere(k)
          BY <1>13, <2>2 DEF Steal
    <2>3. ASSUME NEW v \in scan[k], deque[v] # <<>>, cur' = [cur EXCEPT ![k] = Head(deque[v])],
                 deque' = [deque EXCEPT ![v] = Tail(@)], scan' = [scan EXCEPT ![k] = {}],
                 Go(k, "body")
          PROVE  PoolType' /\ Elsewhere(k)
      <3>1. Head(deque[v]) \in Nat /\ Tail(deque[v]) \in Seq(Nat) BY <2>3
      <3> QED BY <1>1, <1>3, <1>13, <2>3, <3>1 DEF Steal
    <2> QED BY <1>13, <2>1, <2>2, <2>3 DEF Steal
  <1>14. CASE Lock(k)
    <2>1. Go(k, "check") \/ Go(k, "top") \/ Go(k, "out") BY <1>14 DEF Lock
    <2> QED BY <1>1, <1>3, <1>14, <2>1 DEF Lock
  <1>15. CASE CheckHead(k) BY <1>1, <1>3, <1>15 DEF CheckHead
  <1>16. CASE CheckTail(k)
    <2>1. Go(k, "checkDeques") \/ Go(k, "top") BY <1>16 DEF CheckTail
    <2>2. scan' \in [Workers -> SUBSET Workers] BY <1>16 DEF CheckTail
    <2> QED BY <1>1, <1>3, <1>16, <2>1, <2>2 DEF CheckTail
  <1>17. CASE CheckDeques(k)
    <2>1. Go(k, "asleep") \/ Go(k, "top") \/ wk' = wk BY <1>17 DEF CheckDeques
    <2>2. scan' \in [Workers -> SUBSET Workers] BY <1>17 DEF CheckDeques
    <2> QED BY <1>1, <1>3, <1>17, <2>1, <2>2 DEF CheckDeques
  <1>18. CASE Wake(k) BY <1>1, <1>3, <1>18 DEF Wake
  <1>19. CASE Exit(k) BY <1>1, <1>3, <1>19 DEF Exit
  <1>20. CASE Spawn(k)
    <2>1. /\ made + 1 \in 0 .. TaskLimit /\ made + 1 \in Ids
          /\ Append(deque[k], made + 1) \in Seq(Nat)
          BY <1>20, LimitAssumption DEF Spawn, Ids
    <2> QED BY <1>1, <1>3, <1>20, <2>1 DEF Spawn
  <1>21. CASE NotifySpawn(k) BY <1>2, <1>3, <1>21 DEF NotifySpawn
  <1>22. CASE Park(k) BY <1>1, <1>3, <1>22 DEF Park, NoId
  <1>23. CASE Complete(k)
    <2>1. \E x \in Nat : cur' = [cur EXCEPT ![k] = x]
      <3>1. CASE parent[cur[k]] \in parked /\ Children(parent[cur[k]]) \subseteq done'
        <4>1. wk[k] \in Hands BY <1>23 DEF Complete, Hands
        <4>2. cur[k] \in Ids BY <4>1, HeldIsMade, LimitAssumption DEF Ids
        <4>3. parent[cur[k]] \in Nat BY <4>2
        <4> QED BY <1>23, <3>1, <4>3 DEF Complete
      <3>2. CASE ~(parent[cur[k]] \in parked /\ Children(parent[cur[k]]) \subseteq done')
            BY <1>23, <3>2 DEF Complete, NoId
      <3> QED BY <3>1, <3>2
    <2>2. Go(k, "resume") \/ Go(k, "top") BY <1>23 DEF Complete
    <2> QED BY <1>1, <1>3, <1>23, <2>1, <2>2 DEF Complete
  <1>24. CASE Resume(k)
    <2>1. Append(resumable, cur[k]) \in Seq(Nat) OBVIOUS
    <2> QED BY <1>2, <1>3, <1>24, <2>1 DEF Resume, NoId
  <1>25. CASE WakeSpuriously(k) BY <1>1, <1>3, <1>25 DEF WakeSpuriously
  <1> QED BY <1>4, <1>5, <1>6, <1>7, <1>8, <1>9, <1>10, <1>11, <1>12, <1>13, <1>14, <1>15, <1>16,
             <1>17, <1>18, <1>19, <1>20, <1>21, <1>22, <1>23, <1>24, <1>25
          DEF WorkerSteps, Look, Doze, Work

\* What the threads outside the pool do to its workers.
Undisturbed ==
    /\ UNCHANGED <<cur, seen, token, head>>
    /\ \A l \in Workers : wk'[l] = wk[l] \/ (wk[l] = "asleep" /\ wk'[l] = "woken")

LEMMA NodesAppend ==
    ASSUME PoolType, NEW x \in [task : Nat, by : Submitters, born : Nat],
           nodes' = Append(nodes, x)
    PROVE  /\ nodes' \in Seq([task : Nat, by : Submitters, born : Nat])
           /\ Len(nodes) \in Nat /\ Len(nodes') = Len(nodes) + 1
           /\ DOMAIN nodes = 1 .. Len(nodes) /\ DOMAIN nodes' = 1 .. Len(nodes) + 1
           /\ nodes'[Len(nodes) + 1] = x
           /\ \A n \in DOMAIN nodes : nodes'[n] = nodes[n]
  BY DEF PoolType

LEMMA LinkTakesItsNode ==
    ASSUME PoolType, LinksAreDue, NEW u \in Submitters, Link(u)
    PROVE  \E n \in DOMAIN nodes : nodes[n].by = u /\ n \notin linked /\ linked' = linked \cup {n}
  <1> DEFINE n == CHOOSE m \in DOMAIN nodes : nodes[m].by = u /\ m \notin linked
  <1>1. \E m \in DOMAIN nodes : nodes[m].by = u /\ m \notin linked BY DEF Link, LinksAreDue
  <1>2. n \in DOMAIN nodes /\ nodes[n].by = u /\ n \notin linked BY <1>1
  <1>3. linked' = linked \cup {n} BY DEF Link
  <1> HIDE DEF n
  <1> QED BY <1>2, <1>3

LEMMA OutsideTypes ==
    ASSUME PoolType, LinksAreDue, (\E u \in Submitters : Exchange(u) \/ Submit(u)) \/ Stop
    PROVE  PoolType' /\ Undisturbed
  <1> USE DEF Undisturbed, injection, locals, fate
  <1>1. ASSUME NEW u \in Submitters, Exchange(u) PROVE PoolType' /\ Undisturbed
    <2> DEFINE x == [task |-> made + 1, by |-> u, born |-> head]
    <2>1. /\ x \in [task : Nat, by : Submitters, born : Nat] /\ nodes' = Append(nodes, x)
          /\ made + 1 \in 0 .. TaskLimit
          BY <1>1, LimitAssumption DEF Exchange, PoolType
    <2> HIDE DEF x
    <2>2. /\ nodes' \in Seq([task : Nat, by : Submitters, born : Nat])
          /\ Len(nodes) \in Nat /\ Len(nodes') = Len(nodes) + 1
          /\ DOMAIN nodes = 1 .. Len(nodes) /\ DOMAIN nodes' = 1 .. Len(nodes) + 1
          BY <2>1, NodesAppend
    <2>3. linked \subseteq DOMAIN nodes' /\ head \in 0 .. Len(nodes') BY <2>2 DEF PoolType
    <2> QED BY <1>1, <2>1, <2>2, <2>3 DEF Exchange, PoolType
  <1>2. ASSUME NEW u \in Submitters, Link(u) PROVE PoolType' /\ Undisturbed
    <2>1. linked' \subseteq DOMAIN nodes BY <1>2, LinkTakesItsNode DEF PoolType
    <2> QED BY <1>2, <2>1 DEF Link, PoolType
  <1>3. ASSUME NEW u \in Submitters, Notify(u) PROVE PoolType' /\ Undisturbed
    <2>1. "asleep" \in WorkerPlaces BY DEF WorkerPlaces
    <2>2. /\ wk' \in [Workers -> WorkerPlaces]
          /\ \A l \in Workers : wk'[l] = wk[l] \/ (wk[l] = "asleep" /\ wk'[l] = "woken")
          BY <1>3, <2>1, NotifyMoves, WorkersAssumption DEF Notify
    <2> QED BY <1>3, <2>2 DEF Notify, PoolType
  <1>4. CASE Stop
    <2>1. /\ wk' \in [Workers -> WorkerPlaces]
          /\ \A l \in Workers : wk'[l] = wk[l] \/ (wk[l] = "asleep" /\ wk'[l] = "woken")
          BY <1>4 DEF Stop, Sleepers, PoolType, WorkerPlaces
    <2> QED BY <1>4, <2>1 DEF Stop, PoolType
  <1> QED BY <1>1, <1>2, <1>3, <1>4 DEF Submit

-----------------------------------------------------------------------------
(* Who drains, who links, and what is held. *)

LEMMA WorkersLink ==
    ASSUME LinksAreDue, NEW k \in Workers, WorkerSteps(k)
    PROVE  UNCHANGED <<sub, nodes, linked>> /\ LinksAreDue'
  <1>1. UNCHANGED <<sub, nodes, linked>>
        BY DEF WorkerSteps, Look, Doze, Work, TakeResumable, DrainHead, DrainTail, TakeToken,
               DrainRead, DrainAdvance, DrainPush, ReleaseToken, Pop, Steal, Lock, CheckHead,
               CheckTail, CheckDeques, Wake, Exit, Spawn, NotifySpawn, Park, Complete, Resume,
               WakeSpuriously, injection
  <1> QED BY <1>1 DEF LinksAreDue

LEMMA OutsideLinks ==
    ASSUME PoolType, LinksAreDue, (\E u \in Submitters : Exchange(u) \/ Submit(u)) \/ Stop
    PROVE  LinksAreDue'
  <1>1. ASSUME NEW u \in Submitters, Exchange(u) PROVE LinksAreDue'
    <2> DEFINE x == [task |-> made + 1, by |-> u, born |-> head]
               n == Len(nodes) + 1
    <2>1. /\ x \in [task : Nat, by : Submitters, born : Nat] /\ nodes' = Append(nodes, x)
          /\ x.by = u /\ linked' = linked /\ sub' = [sub EXCEPT ![u] = "link"]
          BY <1>1 DEF Exchange, PoolType
    <2> HIDE DEF x
    <2>2. /\ \A m \in DOMAIN nodes : m \in DOMAIN nodes' /\ nodes'[m] = nodes[m]
          /\ n \in DOMAIN nodes' /\ nodes'[n].by = u /\ n \notin DOMAIN nodes
          BY <2>1, NodesAppend
    <2>3. n \notin linked' BY <2>1, <2>2 DEF PoolType
    <2> HIDE DEF n
    <2>4. ASSUME NEW v \in Submitters, sub'[v] = "link"
          PROVE  \E m \in DOMAIN nodes' : nodes'[m].by = v /\ m \notin linked'
      <3>1. CASE v = u BY <2>2, <2>3, <3>1
      <3>2. CASE v # u
        <4>1. sub[v] = "link" BY <2>1, <2>4, <3>2 DEF PoolType
        <4>2. PICK m \in DOMAIN nodes : nodes[m].by = v /\ m \notin linked
              BY <4>1 DEF LinksAreDue
        <4> QED BY <2>1, <2>2, <4>2
      <3> QED BY <3>1, <3>2
    <2> QED BY <2>4 DEF LinksAreDue
  <1>2. ASSUME NEW u \in Submitters, Link(u) PROVE LinksAreDue'
    <2>1. PICK n \in DOMAIN nodes : nodes[n].by = u /\ linked' = linked \cup {n}
          BY <1>2, LinkTakesItsNode
    <2>2. nodes' = nodes /\ sub' = [sub EXCEPT ![u] = "notify"] BY <1>2 DEF Link
    <2>3. ASSUME NEW v \in Submitters, sub'[v] = "link"
          PROVE  \E m \in DOMAIN nodes' : nodes'[m].by = v /\ m \notin linked'
      <3>1. v # u /\ sub[v] = "link" BY <2>2, <2>3 DEF PoolType
      <3>2. PICK m \in DOMAIN nodes : nodes[m].by = v /\ m \notin linked
            BY <3>1 DEF LinksAreDue
      <3> QED BY <2>1, <2>2, <3>1, <3>2
    <2> QED BY <2>3 DEF LinksAreDue
  <1>3. ASSUME NEW u \in Submitters, Notify(u) PROVE LinksAreDue'
        BY <1>3 DEF Notify, LinksAreDue, PoolType, injection
  <1>4. CASE Stop BY <1>4 DEF Stop, LinksAreDue, injection
  <1> QED BY <1>1, <1>2, <1>3, <1>4 DEF Submit

LEMMA OutsideKeeps ==
    ASSUME PoolType, CurIsHeld, OneDrains, NodesOnce,
           (\E u \in Submitters : Exchange(u) \/ Submit(u)) \/ Stop, Undisturbed
    PROVE  CurIsHeld' /\ OneDrains' /\ hand' = hand
  <1>1. \A l \in Workers : /\ wk'[l] \in Hands <=> wk[l] \in Hands
                           /\ wk'[l] \in Drains <=> wk[l] \in Drains
                           /\ wk'[l] = "advance" <=> wk[l] = "advance"
        BY DEF Undisturbed, Hands, Drains
  <1>2. cur' = cur /\ seen' = seen /\ token' = token /\ head' = head BY DEF Undisturbed
  <1>3. \A n \in DOMAIN nodes : n \in DOMAIN nodes' /\ nodes'[n] = nodes[n]
    <2>1. ASSUME NEW u \in Submitters, Exchange(u)
          PROVE  \A n \in DOMAIN nodes : n \in DOMAIN nodes' /\ nodes'[n] = nodes[n]
      <3> DEFINE x == [task |-> made + 1, by |-> u, born |-> head]
      <3>1. x \in [task : Nat, by : Submitters, born : Nat] /\ nodes' = Append(nodes, x)
            BY <2>1 DEF Exchange, PoolType
      <3> HIDE DEF x
      <3> QED BY <3>1, NodesAppend
    <2>2. ASSUME NEW u \in Submitters, Submit(u) PROVE nodes' = nodes
          BY <2>2 DEF Submit, Link, Notify, injection
    <2>3. CASE Stop BY <2>3 DEF Stop, injection
    <2> QED BY <2>1, <2>2, <2>3
  <1>4. CurIsHeld' BY <1>1, <1>2 DEF CurIsHeld, PoolType
  <1>5. OneDrains' BY <1>1, <1>2, <1>3 DEF OneDrains
  <1>6. hand' = hand BY <1>1, <1>2 DEF hand
  <1> QED BY <1>4, <1>5, <1>6

LEMMA WorkerHolds ==
    ASSUME PoolType, CurIsHeld, OneDrains, NodesOnce, PlacesDivide, NEW k \in Workers,
           WorkerSteps(k), Elsewhere(k)
    PROVE  CurIsHeld'
  <1>1. SUFFICES /\ wk'[k] \in Hands => cur'[k] # NoId
                 /\ wk'[k] \notin Hands \cup {"advance"} => cur'[k] = NoId
    <2> SUFFICES ASSUME NEW l \in Workers \ {k}
                 PROVE  /\ wk'[l] \in Hands => cur'[l] # NoId
                        /\ wk'[l] \notin Hands \cup {"advance"} => cur'[l] = NoId
        BY DEF CurIsHeld
    <2>1. cur'[l] = cur[l] /\ (wk'[l] = wk[l] \/ (wk[l] = "asleep" /\ wk'[l] = "woken"))
          BY DEF Elsewhere
    <2>2. "asleep" \notin Hands \cup {"advance"} /\ "woken" \notin Hands \cup {"advance"}
          BY DEF Hands
    <2> QED BY <2>1, <2>2 DEF CurIsHeld
  <1>2. /\ wk[k] \in Hands => cur[k] # NoId
        /\ wk[k] \notin Hands \cup {"advance"} => cur[k] = NoId
        BY DEF CurIsHeld
  <1>3. \A to : Go(k, to) => wk'[k] = to BY DEF Go, PoolType
  <1>4. \A to : NotifyOne(k, to) /\ wk[k] # "asleep" => wk'[k] = to
    <2> SUFFICES ASSUME NEW to, NotifyOne(k, to), wk[k] # "asleep" PROVE wk'[k] = to
        OBVIOUS
    <2> DEFINE moved == [l \in Workers |-> IF l = k THEN to ELSE wk[l]]
    <2>1. moved[k] = to /\ DOMAIN moved = Workers OBVIOUS
    <2>2. wk' = moved \/ \E l \in Sleepers : wk' = [moved EXCEPT ![l] = "woken"]
          BY DEF NotifyOne
    <2>3. k \notin Sleepers BY DEF Sleepers
    <2> HIDE DEF moved
    <2> QED BY <2>1, <2>2, <2>3
  <1> USE DEF Hands, injection, locals
  <1>5. ASSUME NEW x, cur' = [cur EXCEPT ![k] = x] PROVE cur'[k] = x BY <1>5 DEF PoolType
  <1>6. \A t \in Values(hand) \cup StoredIn(deque) \cup Elements(resumable) \cup parked :
            t \in Nat \ {NoId}
        BY DEF PlacesDivide, Divides, NoId, PoolType
  <1>7. CASE TakeResumable(k)
    <2>1. resumable # <<>> => Head(resumable) \in Elements(resumable)
      <3> SUFFICES ASSUME resumable # <<>> PROVE Head(resumable) \in Elements(resumable)
          OBVIOUS
      <3>1. 1 \in DOMAIN resumable /\ Head(resumable) = resumable[1] BY DEF PoolType
      <3> QED BY <3>1 DEF Elements
    <2> QED BY <1>2, <1>3, <1>5, <1>6, <1>7, <2>1 DEF TakeResumable
  <1>8. CASE DrainHead(k) \/ ReleaseToken(k) \/ CheckHead(k) \/ Wake(k) \/ Exit(k)
             \/ WakeSpuriously(k)
        BY <1>2, <1>3, <1>8 DEF DrainHead, ReleaseToken, CheckHead, Wake, Exit, WakeSpuriously
  <1>9. CASE DrainTail(k) BY <1>2, <1>3, <1>9 DEF DrainTail
  <1>10. CASE TakeToken(k) BY <1>2, <1>3, <1>10 DEF TakeToken
  <1>11. CASE DrainRead(k) BY <1>2, <1>3, <1>11 DEF DrainRead
  <1>12. CASE DrainAdvance(k)
    <2>1. head + 1 \in DOMAIN nodes /\ cur[k] = nodes[head + 1].task
          BY <1>12 DEF DrainAdvance, OneDrains
    <2>2. cur[k] \in 1 .. made BY <2>1 DEF NodesOnce
    <2>3. cur[k] # NoId BY <2>2 DEF NoId
    <2> QED BY <1>3, <1>12, <2>3 DEF DrainAdvance
  <1>13. CASE DrainPush(k) BY <1>3, <1>5, <1>13 DEF DrainPush
  <1>14. CASE Pop(k)
    <2>1. deque[k] # <<>> => Last(deque[k]) \in StoredIn(deque)
      <3> SUFFICES ASSUME deque[k] # <<>> PROVE Last(deque[k]) \in StoredIn(deque)
          OBVIOUS
      <3>1. Len(deque[k]) \in DOMAIN deque[k] /\ k \in DOMAIN deque BY DEF PoolType
      <3> QED BY <3>1 DEF StoredIn, Last
    <2> QED BY <1>2, <1>3, <1>5, <1>6, <1>14, <2>1 DEF Pop
  <1>15. CASE Steal(k)
    <2>1. \A v \in scan[k] : deque[v] # <<>> => Head(deque[v]) \in StoredIn(deque)
      <3> SUFFICES ASSUME NEW v \in Workers, deque[v] # <<>>
                   PROVE  Head(deque[v]) \in StoredIn(deque)
          BY DEF PoolType
      <3>1. 1 \in DOMAIN deque[v] /\ v \in DOMAIN deque /\ Head(deque[v]) = deque[v][1]
            BY DEF PoolType
      <3> QED BY <3>1 DEF StoredIn
    <2> QED BY <1>2, <1>3, <1>5, <1>6, <1>15, <2>1 DEF Steal
  <1>16. CASE Lock(k) BY <1>2, <1>3, <1>16 DEF Lock
  <1>17. CASE CheckTail(k) BY <1>2, <1>3, <1>17 DEF CheckTail
  <1>18. CASE CheckDeques(k) BY <1>2, <1>3, <1>18 DEF CheckDeques
  <1>19. CASE Spawn(k) BY <1>2, <1>3, <1>19 DEF Spawn
  <1>20. CASE NotifySpawn(k) BY <1>2, <1>4, <1>20 DEF NotifySpawn
  <1>21. CASE Park(k) BY <1>3, <1>5, <1>21 DEF Park
  <1>22. CASE Complete(k) BY <1>3, <1>5, <1>6, <1>22 DEF Complete
  <1>23. CASE Resume(k) BY <1>4, <1>5, <1>23 DEF Resume
  <1> QED BY <1>7, <1>8, <1>9, <1>10, <1>11, <1>12, <1>13, <1>14, <1>15, <1>16, <1>17, <1>18,
             <1>19, <1>20, <1>21, <1>22, <1>23 DEF WorkerSteps, Look, Doze, Work

LEMMA WorkerDrains ==
    ASSUME PoolType, OneDrains, NEW k \in Workers, WorkerSteps(k), PoolType', Elsewhere(k)
    PROVE  OneDrains'
  <1> USE DEF Drains, injection, locals
  <1>1. \A l \in Workers \ {k} : /\ wk'[l] \in Drains <=> wk[l] \in Drains
                                 /\ wk'[l] = "advance" <=> wk[l] = "advance"
                                 /\ cur'[l] = cur[l] /\ seen'[l] = seen[l]
        BY DEF Elsewhere
  <1>2. \A to : Go(k, to) => wk'[k] = to BY DEF Go, PoolType
  <1>3. \A to : NotifyOne(k, to) /\ wk[k] # "asleep" /\ to \in WorkerPlaces => wk'[k] = to
        BY NotifyMoves
  <1>4. nodes' = nodes BY WorkersLink
        DEF WorkerSteps, Look, Doze, Work, TakeResumable, DrainHead, DrainTail, TakeToken,
            DrainRead, DrainAdvance, DrainPush, ReleaseToken, Pop, Steal, Lock, CheckHead,
            CheckTail, CheckDeques, Wake, Exit, Spawn, NotifySpawn, Park, Complete, Resume,
            WakeSpuriously
  <1>5. ASSUME wk[k] \notin Drains, wk'[k] \notin Drains, token' = token, head' = head
        PROVE  OneDrains'
        BY <1>1, <1>4, <1>5 DEF OneDrains
  <1>6. CASE TakeToken(k)
    <2>1. CASE token BY <1>2, <1>5, <1>6, <2>1 DEF TakeToken
    <2>2. CASE ~token
      <3>1. \A l \in Workers \ {k} : wk'[l] \notin Drains BY <1>1, <2>2 DEF OneDrains
      <3>2. token' = TRUE /\ wk'[k] # "advance" BY <1>2, <1>6, <2>2 DEF TakeToken
      <3> QED BY <3>1, <3>2 DEF OneDrains
    <2> QED BY <2>1, <2>2
  <1>7. ASSUME wk[k] \in Drains
        PROVE  token /\ \A l \in Workers \ {k} : wk[l] \notin Drains /\ wk'[l] \notin Drains
        BY <1>1, <1>7 DEF OneDrains
  <1>8. CASE DrainRead(k)
    <2>1. wk[k] \in Drains BY <1>8 DEF DrainRead
    <2>2. token' = token /\ head' = head BY <1>8 DEF DrainRead
    <2>3. CASE head + 1 \in linked
      <3>1. seen'[k] = head /\ cur'[k] = nodes[head + 1].task /\ head + 1 \in DOMAIN nodes
            BY <1>8, <2>3 DEF DrainRead, PoolType
      <3> QED BY <1>4, <1>7, <2>1, <2>2, <3>1 DEF OneDrains
    <2>4. CASE head + 1 \notin linked
      <3>1. wk'[k] = "release" BY <1>2, <1>8, <2>4 DEF DrainRead
      <3> QED BY <1>7, <2>1, <2>2, <3>1 DEF OneDrains
    <2> QED BY <2>3, <2>4
  <1>9. CASE DrainAdvance(k)
    <2>1. wk[k] \in Drains /\ wk'[k] = "own" /\ token' = token BY <1>2, <1>9 DEF DrainAdvance
    <2> QED BY <1>7, <2>1 DEF OneDrains
  <1>10. CASE DrainPush(k)
    <2>1. wk[k] \in Drains /\ wk'[k] = "draining" /\ token' = token BY <1>2, <1>10 DEF DrainPush
    <2> QED BY <1>7, <2>1 DEF OneDrains
  <1>11. CASE ReleaseToken(k)
    <2>1. wk[k] \in Drains /\ wk'[k] = "pop" BY <1>2, <1>11 DEF ReleaseToken
    <2> QED BY <1>7, <2>1 DEF OneDrains
  <1>12. CASE TakeResumable(k) BY <1>2, <1>5, <1>12 DEF TakeResumable
  <1>13. CASE DrainHead(k) BY <1>2, <1>5, <1>13 DEF DrainHead
  <1>14. CASE DrainTail(k) BY <1>2, <1>5, <1>14 DEF DrainTail
  <1>15. CASE Pop(k) BY <1>2, <1>5, <1>15 DEF Pop
  <1>16. CASE Steal(k) BY <1>2, <1>5, <1>16 DEF Steal
  <1>17. CASE Lock(k) BY <1>2, <1>5, <1>17 DEF Lock
  <1>18. CASE CheckHead(k) BY <1>2, <1>5, <1>18 DEF CheckHead
  <1>19. CASE CheckTail(k) BY <1>2, <1>5, <1>19 DEF CheckTail
  <1>20. CASE CheckDeques(k) BY <1>2, <1>5, <1>20 DEF CheckDeques
  <1>21. CASE Wake(k) \/ Exit(k) \/ WakeSpuriously(k)
         BY <1>2, <1>5, <1>21 DEF Wake, Exit, WakeSpuriously
  <1>22. CASE Spawn(k) BY <1>2, <1>5, <1>22 DEF Spawn
  <1>23. "body" \in WorkerPlaces /\ "top" \in WorkerPlaces BY DEF WorkerPlaces, Hands
  <1>24. CASE NotifySpawn(k) BY <1>3, <1>5, <1>23, <1>24 DEF NotifySpawn
  <1>25. CASE Park(k) BY <1>2, <1>5, <1>25 DEF Park
  <1>26. CASE Complete(k) BY <1>2, <1>5, <1>26 DEF Complete
  <1>27. CASE Resume(k) BY <1>3, <1>5, <1>23, <1>27 DEF Resume
  <1> QED BY <1>6, <1>8, <1>9, <1>10, <1>11, <1>12, <1>13, <1>14, <1>15, <1>16, <1>17, <1>18,
             <1>19, <1>20, <1>21, <1>22, <1>24, <1>25, <1>26, <1>27
          DEF WorkerSteps, Look, Doze, Work

-----------------------------------------------------------------------------
(* Where the tasks are. *)

Placed == EachPlaceOnce /\ PlacesDivide

LEMMA OutsidePlaces ==
    ASSUME PoolType, Placed, (\E u \in Submitters : Exchange(u) \/ Submit(u)) \/ Stop,
           hand' = hand, head' = head
    PROVE  Placed'
  <1>1. UNCHANGED <<deque, resumable, parked, done>>
        BY DEF Exchange, Submit, Link, Notify, Stop, fate
  <1>2. CASE UNCHANGED <<nodes, made>>
    <2>1. Queue' = Queue BY <1>2 DEF Queue
    <2> HIDE DEF hand
    <2> QED BY <1>1, <1>2, <2>1 DEF Placed, EachPlaceOnce, NodesOnce, PlacesDivide
  <1>3. ASSUME NEW u \in Submitters, Exchange(u) PROVE Placed'
    <2> DEFINE x == [task |-> made + 1, by |-> u, born |-> head]
               n == Len(nodes) + 1
    <2>1. /\ x \in [task : Nat, by : Submitters, born : Nat] /\ nodes' = Append(nodes, x)
          /\ x.task = made + 1 /\ made' = made + 1 /\ made \in Nat
          BY <1>3 DEF Exchange, PoolType
    <2> HIDE DEF x
    <2>2. /\ DOMAIN nodes = 1 .. Len(nodes) /\ DOMAIN nodes' = 1 .. n /\ Len(nodes) \in Nat
          /\ nodes'[n].task = made + 1
          /\ \A m \in 1 .. Len(nodes) : nodes'[m] = nodes[m]
          BY <2>1, NodesAppend
    <2>3. head < n BY <2>2 DEF PoolType
    <2>4. \A m \in 1 .. Len(nodes) : nodes[m].task \in 1 .. made
          BY <2>2 DEF Placed, EachPlaceOnce, NodesOnce
    <2>5. \A m \in 1 .. n : m \in 1 .. Len(nodes) \/ m = n BY <2>2
    <2>6. 1 .. made' = (1 .. made) \cup {made + 1} /\ made + 1 \notin 1 .. made BY <2>1
    <2>7. NodesOnce'
      <3>1. \A m \in 1 .. n : nodes'[m].task \in 1 .. made' BY <2>2, <2>4, <2>5, <2>6
      <3>2. ASSUME NEW m \in 1 .. n, NEW l \in 1 .. n, nodes'[m].task = nodes'[l].task
            PROVE  m = l
        <4>1. CASE m = n /\ l = n BY <4>1
        <4>2. CASE m \in 1 .. Len(nodes) /\ l \in 1 .. Len(nodes)
              BY <2>2, <3>2, <4>2 DEF Placed, EachPlaceOnce, NodesOnce
        <4>3. CASE m \in 1 .. Len(nodes) /\ l = n BY <2>2, <2>4, <2>6, <3>2, <4>3
        <4>4. CASE m = n /\ l \in 1 .. Len(nodes) BY <2>2, <2>4, <2>6, <3>2, <4>4
        <4> QED BY <2>5, <4>1, <4>2, <4>3, <4>4
      <3> QED BY <2>2, <3>1, <3>2 DEF NodesOnce
    <2>8. Queue' = Queue \cup {made + 1}
      <3>1. \A y : y \in Queue <=> \E m \in 1 .. Len(nodes) : m > head /\ y = nodes[m].task
            BY <2>2 DEF Queue
      <3>2. \A y : y \in Queue' <=> \E m \in 1 .. n : m > head /\ y = nodes'[m].task
            BY <2>2 DEF Queue
      <3>3. n \in 1 .. n /\ n > head /\ \A m \in 1 .. Len(nodes) : m \in 1 .. n
            BY <2>2, <2>3 DEF PoolType
      <3> HIDE DEF n
      <3>4. \A y : y \in Queue' <=> y \in Queue \cup {made + 1}
            BY <2>2, <2>5, <3>1, <3>2, <3>3
      <3> QED BY <3>4
    <2>9. Values(hand)' = Values(hand) BY DEF Values
    <2> HIDE DEF hand, n
    <2>10. PlacesDivide'
           BY <1>1, <2>6, <2>8, <2>9 DEF Placed, PlacesDivide, Divides, StoredIn, Elements
    <2> QED BY <1>1, <2>7, <2>10 DEF Placed, EachPlaceOnce
  <1>4. ASSUME NEW u \in Submitters, Submit(u) PROVE Placed'
        BY <1>2, <1>4 DEF Submit, Link, Notify, injection
  <1>5. CASE Stop BY <1>2, <1>5 DEF Stop, injection
  <1> QED BY <1>3, <1>4, <1>5

\* A task goes from one of the places to another, and nothing else changes.
LEMMA Stays ==
    ASSUME Placed, UNCHANGED <<nodes, head, made, deque, resumable, parked, done>>, hand' = hand
    PROVE  Placed'
  <1>1. Queue' = Queue BY DEF Queue
  <1> HIDE DEF hand
  <1> QED BY <1>1 DEF Placed, EachPlaceOnce, NodesOnce, PlacesDivide

LEMMA WorkerPlacesTask ==
    ASSUME PoolType, Placed, CurIsHeld, OneDrains, NEW k \in Workers, WorkerSteps(k),
           PoolType', Elsewhere(k)
    PROVE  Placed'
  <1>1. /\ hand \in [Workers -> Nat]
        /\ hand' = [hand EXCEPT ![k] = IF wk'[k] \in Hands THEN cur'[k] ELSE NoId]
        BY HandAfter DEF PoolType
  <1>2. hand[k] = IF wk[k] \in Hands THEN cur[k] ELSE NoId BY DEF hand
  <1>3. wk[k] \in Hands => hand[k] = cur[k] /\ cur[k] # NoId /\ cur[k] \in Values(hand)
        BY HeldIsMade DEF Placed
  <1>4. \A to : Go(k, to) => wk'[k] = to BY DEF Go, PoolType
  <1>5. \A to : NotifyOne(k, to) /\ wk[k] # "asleep" /\ to \in WorkerPlaces => wk'[k] = to
        BY NotifyMoves
  <1>6. /\ ValuesOnce(hand) /\ StoredOnce(deque) /\ SeqOnce(resumable) /\ NodesOnce
        /\ Divides(1 .. made, Queue, Values(hand), StoredIn(deque), Elements(resumable),
                   parked, done)
        BY DEF Placed, EachPlaceOnce, PlacesDivide
  <1>7. deque \in [Workers -> Seq(Nat)] /\ resumable \in Seq(Nat) /\ made \in Nat
        BY DEF PoolType
  <1>8. NoId \notin 1 .. made /\ NoId \in Nat BY DEF NoId
  <1>9. \A x \in Nat : x \notin Values(hand) =>
           /\ ValuesOnce([hand EXCEPT ![k] = x])
           /\ Values([hand EXCEPT ![k] = x]) = (Values(hand) \ {hand[k]}) \cup ({x} \ {NoId})
        BY <1>1, <1>6, ValueSet
  <1>10. NoId \notin Values(hand) BY DEF Values
  <1> HIDE DEF hand
  \* The same hand, whatever else the step does.
  <1>11. ASSUME UNCHANGED <<nodes, head, made, deque, resumable, parked, done>>,
                (IF wk'[k] \in Hands THEN cur'[k] ELSE NoId) = hand[k]
         PROVE  Placed'
         BY <1>1, <1>11, Stays
  <1>12. ASSUME wk[k] \notin Hands, wk'[k] \notin Hands,
                UNCHANGED <<nodes, head, made, deque, resumable, parked, done>>
         PROVE  Placed'
         BY <1>2, <1>11, <1>12
  \* An empty hand is given a task x that no hand has.
  <1>13. ASSUME wk[k] \notin Hands, wk'[k] \in Hands, cur'[k] \in Nat \ {NoId},
                cur'[k] \notin Values(hand)
         PROVE  ValuesOnce(hand') /\ Values(hand') = Values(hand) \cup {cur'[k]}
    <2>1. hand' = [hand EXCEPT ![k] = cur'[k]] /\ hand[k] = NoId BY <1>1, <1>2, <1>13
    <2>2. ValuesOnce(hand') /\ Values(hand') = (Values(hand) \ {NoId}) \cup ({cur'[k]} \ {NoId})
          BY <1>9, <1>13, <2>1
    <2> QED BY <1>10, <1>13, <2>2
  \* The hand gives its task away.
  <1>14. ASSUME wk[k] \in Hands, wk'[k] \notin Hands
         PROVE  ValuesOnce(hand') /\ Values(hand') = Values(hand) \ {cur[k]}
    <2>1. hand' = [hand EXCEPT ![k] = NoId] /\ hand[k] = cur[k] BY <1>1, <1>3, <1>14
    <2>2. ValuesOnce(hand') /\ Values(hand') = (Values(hand) \ {cur[k]}) \cup ({NoId} \ {NoId})
          BY <1>8, <1>9, <1>10, <2>1
    <2> QED BY <2>2
  <1> USE DEF injection, locals, fate
  <1>15. CASE TakeResumable(k)
    <2>1. wk[k] \notin Hands BY <1>15 DEF TakeResumable, Hands
    <2>2. CASE resumable = <<>>
      <3>1. wk'[k] \notin Hands BY <1>4, <1>15, <2>2 DEF TakeResumable, Hands
      <3> QED BY <1>12, <1>15, <2>1, <2>2, <3>1 DEF TakeResumable
    <2>3. CASE resumable # <<>>
      <3> DEFINE t == Head(resumable)
      <3>1. /\ t \in Elements(resumable) /\ SeqOnce(Tail(resumable))
            /\ Elements(Tail(resumable)) = Elements(resumable) \ {t}
            BY <1>6, <1>7, <2>3, ElementsTail
      <3>2. wk'[k] \in Hands /\ cur'[k] = t /\ resumable' = Tail(resumable)
            BY <1>4, <1>15, <2>3 DEF TakeResumable, Hands, PoolType
      <3>3. UNCHANGED <<nodes, head, made, deque, parked, done>>
            BY <1>15 DEF TakeResumable
      <3> HIDE DEF t
      <3>4. t \in 1 .. made /\ t \notin Values(hand) BY <1>6, <3>1 DEF Divides
      <3>5. ValuesOnce(hand') /\ Values(hand') = Values(hand) \cup {t}
            BY <1>8, <1>13, <2>1, <3>2, <3>4
      <3>6. Queue' = Queue BY <3>3 DEF Queue
      <3>7. PlacesDivide' BY <1>6, <3>1, <3>2, <3>3, <3>5, <3>6 DEF PlacesDivide, Divides
      <3> QED BY <1>6, <3>1, <3>2, <3>3, <3>5, <3>7 DEF Placed, EachPlaceOnce, NodesOnce
    <2> QED BY <2>2, <2>3
  <1>16. CASE DrainAdvance(k)
    <2> DEFINE t == nodes[head + 1].task
    <2>1. /\ head + 1 \in DOMAIN nodes /\ cur[k] = t /\ seen[k] = head
          /\ wk[k] \notin Hands /\ wk'[k] \in Hands
          BY <1>4, <1>16 DEF DrainAdvance, OneDrains, Hands
    <2>2. /\ cur'[k] = t /\ head' = head + 1
          /\ UNCHANGED <<nodes, made, deque, resumable, parked, done>>
          BY <1>16, <2>1 DEF DrainAdvance
    <2>3. head \in Nat /\ DOMAIN nodes = 1 .. Len(nodes) /\ Len(nodes) \in Nat BY DEF PoolType
    <2>4. \A m \in DOMAIN nodes : nodes[m].task = t => m = head + 1
          BY <1>6, <2>1 DEF NodesOnce
    <2>5. t \in Queue BY <2>1, <2>3 DEF Queue
    <2> HIDE DEF t
    <2>6. Queue' = Queue \ {t}
      <3>1. \A y : y \in Queue <=> \E m \in DOMAIN nodes : m > head /\ y = nodes[m].task
            BY DEF Queue
      <3>2. \A y : y \in Queue' <=> \E m \in DOMAIN nodes : m > head + 1 /\ y = nodes[m].task
            BY <2>2 DEF Queue
      <3>3. \A m \in DOMAIN nodes : m > head + 1 <=> m > head /\ m # head + 1 BY <2>3
      <3>4. nodes[head + 1].task = t BY DEF t
      <3>5. \A y : y \in Queue' <=> y \in Queue \ {t}
            BY <2>1, <2>4, <3>1, <3>2, <3>3, <3>4
      <3> QED BY <3>5
    <2>7. t \in 1 .. made /\ t \notin Values(hand) BY <1>6, <2>5 DEF Divides
    <2>8. ValuesOnce(hand') /\ Values(hand') = Values(hand) \cup {t}
          BY <1>8, <1>13, <2>1, <2>2, <2>7
    <2>9. PlacesDivide' BY <1>6, <2>2, <2>5, <2>6, <2>8 DEF PlacesDivide, Divides
    <2> QED BY <1>6, <2>2, <2>8, <2>9 DEF Placed, EachPlaceOnce, NodesOnce
  <1>17. CASE DrainPush(k)
    <2>1. wk[k] \in Hands /\ wk'[k] \notin Hands BY <1>4, <1>17 DEF DrainPush, Hands
    <2>2. deque' = [deque EXCEPT ![k] = Append(@, cur[k])] BY <1>17 DEF DrainPush
    <2>3. UNCHANGED <<nodes, head, made, resumable, parked, done>> BY <1>17 DEF DrainPush
    <2>4. cur[k] \in Nat /\ cur[k] \notin StoredIn(deque) BY <1>3, <1>6, <2>1 DEF Divides, PoolType
    <2>5. StoredOnce(deque') /\ StoredIn(deque') = StoredIn(deque) \cup {cur[k]}
          BY <1>6, <1>7, <2>2, <2>4, StoredAppend
    <2>6. ValuesOnce(hand') /\ Values(hand') = Values(hand) \ {cur[k]} BY <1>14, <2>1
    <2>7. Queue' = Queue BY <2>3 DEF Queue
    <2>8. PlacesDivide' BY <1>3, <1>6, <2>1, <2>3, <2>5, <2>6, <2>7 DEF PlacesDivide, Divides
    <2> QED BY <1>6, <2>3, <2>5, <2>6, <2>8 DEF Placed, EachPlaceOnce, NodesOnce
  \* Pop() and Steal(): a deque loses an element at one end.
  <1>18. ASSUME NEW v \in Workers, deque[v] # <<>>, wk[k] \notin Hands, wk'[k] \in Hands,
                \/ deque' = [deque EXCEPT ![v] = Tail(deque[v])] /\ cur'[k] = Head(deque[v])
                \/ deque' = [deque EXCEPT ![v] = Front(deque[v])] /\ cur'[k] = Last(deque[v]),
                UNCHANGED <<nodes, head, made, resumable, parked, done>>
         PROVE  Placed'
    <2> DEFINE t == cur'[k]
    <2>1. /\ Tail(deque[v]) \in Seq(Nat) /\ Head(deque[v]) \in Nat
          /\ Front(deque[v]) \in Seq(Nat) /\ Last(deque[v]) \in Nat
          BY <1>7, <1>18 DEF Front, Last
    <2>2. /\ t \in StoredIn(deque) /\ StoredOnce(deque')
          /\ StoredIn(deque') = StoredIn(deque) \ {t}
      <3>1. CASE deque' = [deque EXCEPT ![v] = Tail(deque[v])] /\ cur'[k] = Head(deque[v])
        <4>1. /\ Head(deque[v]) \in StoredIn(deque)
              /\ StoredOnce([deque EXCEPT ![v] = Tail(deque[v])])
              /\ StoredIn([deque EXCEPT ![v] = Tail(deque[v])]) =
                    StoredIn(deque) \ {Head(deque[v])}
              BY <1>6, <1>7, <1>18, <2>1, StoredRemove
        <4> QED BY <3>1, <4>1
      <3>2. CASE deque' = [deque EXCEPT ![v] = Front(deque[v])] /\ cur'[k] = Last(deque[v])
        <4>1. /\ Last(deque[v]) \in StoredIn(deque)
              /\ StoredOnce([deque EXCEPT ![v] = Front(deque[v])])
              /\ StoredIn([deque EXCEPT ![v] = Front(deque[v])]) =
                    StoredIn(deque) \ {Last(deque[v])}
              BY <1>6, <1>7, <1>18, <2>1, StoredRemove
        <4> QED BY <3>2, <4>1
      <3> QED BY <1>18, <3>1, <3>2
    <2>3. t \in 1 .. made /\ t \notin Values(hand) BY <1>6, <2>2 DEF Divides
    <2>4. ValuesOnce(hand') /\ Values(hand') = Values(hand) \cup {t}
          BY <1>8, <1>13, <1>18, <2>3
    <2>5. Queue' = Queue BY <1>18 DEF Queue
    <2> HIDE DEF t
    <2>6. PlacesDivide' BY <1>6, <1>18, <2>2, <2>4, <2>5 DEF PlacesDivide, Divides
    <2> QED BY <1>6, <1>18, <2>2, <2>4, <2>6 DEF Placed, EachPlaceOnce, NodesOnce
  <1>19. CASE Pop(k)
    <2>1. wk[k] \notin Hands BY <1>19 DEF Pop, Hands
    <2>2. CASE deque[k] = <<>>
      <3>1. wk'[k] \notin Hands BY <1>4, <1>19, <2>2 DEF Pop, Hands
      <3> QED BY <1>12, <1>19, <2>1, <2>2, <3>1 DEF Pop
    <2>3. CASE deque[k] # <<>>
      <3>1. wk'[k] \in Hands BY <1>4, <1>19, <2>3 DEF Pop, Hands
      <3>2. deque' = [deque EXCEPT ![k] = Front(deque[k])] /\ cur'[k] = Last(deque[k])
            BY <1>19, <2>3 DEF Pop, PoolType
      <3> QED BY <1>18, <1>19, <2>1, <2>3, <3>1, <3>2 DEF Pop
    <2> QED BY <2>2, <2>3
  <1>20. CASE Steal(k)
    <2>1. wk[k] \notin Hands BY <1>20 DEF Steal, Hands
    <2>2. UNCHANGED <<nodes, head, made, resumable, parked, done>> BY <1>20 DEF Steal
    <2>3. CASE deque' = deque /\ (Go(k, "lock") \/ wk' = wk)
      <3>1. wk'[k] \notin Hands BY <1>4, <2>1, <2>3 DEF Hands
      <3> QED BY <1>12, <2>1, <2>2, <2>3, <3>1
    <2>4. ASSUME NEW v \in scan[k], deque[v] # <<>>, cur' = [cur EXCEPT ![k] = Head(deque[v])],
                 deque' = [deque EXCEPT ![v] = Tail(@)], Go(k, "body")
          PROVE  Placed'
      <3>1. v \in Workers /\ wk'[k] \in Hands BY <1>4, <2>4 DEF Hands, PoolType
      <3>2. deque' = [deque EXCEPT ![v] = Tail(deque[v])] /\ cur'[k] = Head(deque[v])
            BY <2>4 DEF PoolType
      <3> QED BY <1>18, <2>1, <2>2, <2>4, <3>1, <3>2
    <2> QED BY <1>20, <2>3, <2>4 DEF Steal
  <1>21. CASE Spawn(k)
    <2> DEFINE t == made + 1
    <2>1. wk[k] \in Hands /\ wk'[k] \in Hands /\ cur' = cur BY <1>4, <1>21 DEF Spawn, Hands
    <2>2. deque' = [deque EXCEPT ![k] = Append(@, t)] /\ made' = t BY <1>21 DEF Spawn
    <2>3. UNCHANGED <<nodes, head, resumable, parked, done>> BY <1>21 DEF Spawn
    <2>4. t \in Nat /\ t \notin 1 .. made /\ 1 .. made' = (1 .. made) \cup {t} BY <1>7, <2>2
    <2> HIDE DEF t
    <2>5. t \notin StoredIn(deque) BY <1>6, <2>4 DEF Divides
    <2>6. StoredOnce(deque') /\ StoredIn(deque') = StoredIn(deque) \cup {t}
          BY <1>6, <1>7, <2>2, <2>4, <2>5, StoredAppend
    <2>7. hand' = hand BY <1>1, <1>3, <2>1
    <2>8. Queue' = Queue BY <2>3 DEF Queue
    <2>9. PlacesDivide' BY <1>6, <2>3, <2>4, <2>6, <2>7, <2>8 DEF PlacesDivide, Divides
    <2>10. NodesOnce' BY <1>6, <2>3, <2>4 DEF NodesOnce
    <2> QED BY <1>6, <2>3, <2>6, <2>7, <2>9, <2>10 DEF Placed, EachPlaceOnce
  <1>22. CASE Park(k)
    <2>1. wk[k] \in Hands /\ wk'[k] \notin Hands BY <1>4, <1>22 DEF Park, Hands
    <2>2. parked' = parked \cup {cur[k]} BY <1>22 DEF Park
    <2>3. UNCHANGED <<nodes, head, made, deque, resumable, done>> BY <1>22 DEF Park
    <2>4. ValuesOnce(hand') /\ Values(hand') = Values(hand) \ {cur[k]} BY <1>14, <2>1
    <2>5. Queue' = Queue BY <2>3 DEF Queue
    <2>6. PlacesDivide' BY <1>3, <1>6, <2>1, <2>2, <2>3, <2>4, <2>5 DEF PlacesDivide, Divides
    <2> QED BY <1>6, <2>3, <2>4, <2>6 DEF Placed, EachPlaceOnce, NodesOnce
  <1>23. CASE Complete(k)
    <2> DEFINE p == parent[cur[k]]
    <2>1. wk[k] \in Hands BY <1>23 DEF Complete, Hands
    <2>2. done' = done \cup {cur[k]} BY <1>23 DEF Complete
    <2>3. UNCHANGED <<nodes, head, made, deque, resumable>> BY <1>23 DEF Complete
    <2>4. Queue' = Queue BY <2>3 DEF Queue
    <2>5. CASE p \in parked /\ Children(p) \subseteq done'
      <3>1. wk'[k] \in Hands /\ cur'[k] = p /\ parked' = parked \ {p}
            BY <1>4, <1>23, <2>5 DEF Complete, Hands, PoolType
      <3> HIDE DEF p
      <3>2. p \in 1 .. made /\ p \notin Values(hand) /\ p # cur[k]
            BY <1>3, <1>6, <2>1, <2>5 DEF Divides
      <3>3. ValuesOnce(hand') /\ Values(hand') = (Values(hand) \ {cur[k]}) \cup {p}
        <4>1. p \in Nat /\ p # NoId BY <1>8, <3>2
        <4>2. hand' = [hand EXCEPT ![k] = p] BY <1>1, <3>1
        <4>3. hand[k] = cur[k] BY <1>3, <2>1
        <4> QED BY <1>9, <3>2, <4>1, <4>2, <4>3
      <3>4. PlacesDivide'
            BY <1>3, <1>6, <2>1, <2>2, <2>3, <2>4, <2>5, <3>1, <3>2, <3>3
            DEF PlacesDivide, Divides
      <3> QED BY <1>6, <2>3, <3>3, <3>4 DEF Placed, EachPlaceOnce, NodesOnce
    <2>6. CASE ~(p \in parked /\ Children(p) \subseteq done')
      <3>1. wk'[k] \notin Hands /\ parked' = parked
            BY <1>4, <1>23, <2>6 DEF Complete, Hands
      <3>2. ValuesOnce(hand') /\ Values(hand') = Values(hand) \ {cur[k]} BY <1>14, <2>1, <3>1
      <3>3. PlacesDivide' BY <1>3, <1>6, <2>1, <2>2, <2>3, <2>4, <3>1, <3>2
            DEF PlacesDivide, Divides
      <3> QED BY <1>6, <2>3, <3>2, <3>3 DEF Placed, EachPlaceOnce, NodesOnce
    <2> QED BY <2>5, <2>6
  <1>24. CASE Resume(k)
    <2>1. wk[k] \in Hands /\ wk[k] # "asleep" /\ "top" \in WorkerPlaces
          BY <1>24 DEF Resume, Hands, WorkerPlaces
    <2>2. wk'[k] \notin Hands BY <1>5, <1>24, <2>1 DEF Resume, Hands
    <2>3. resumable' = Append(resumable, cur[k]) BY <1>24 DEF Resume
    <2>4. UNCHANGED <<nodes, head, made, deque, parked, done>> BY <1>24 DEF Resume
    <2>5. cur[k] \in Nat /\ cur[k] \notin Elements(resumable)
          BY <1>3, <1>6, <2>1 DEF Divides, PoolType
    <2>6. SeqOnce(resumable') /\ Elements(resumable') = Elements(resumable) \cup {cur[k]}
          BY <1>6, <1>7, <2>3, <2>5, ElementsAppend
    <2>7. ValuesOnce(hand') /\ Values(hand') = Values(hand) \ {cur[k]} BY <1>14, <2>1, <2>2
    <2>8. Queue' = Queue BY <2>4 DEF Queue
    <2>9. PlacesDivide' BY <1>3, <1>6, <2>1, <2>4, <2>6, <2>7, <2>8 DEF PlacesDivide, Divides
    <2> QED BY <1>6, <2>4, <2>6, <2>7, <2>9 DEF Placed, EachPlaceOnce, NodesOnce
  <1>25. CASE NotifySpawn(k)
    <2>1. wk[k] = "notify" /\ "body" \in WorkerPlaces BY <1>25 DEF NotifySpawn, WorkerPlaces, Hands
    <2>2. wk[k] \in Hands /\ wk'[k] \in Hands /\ cur' = cur
          BY <1>5, <1>25, <2>1 DEF NotifySpawn, Hands
    <2> QED BY <1>3, <1>11, <1>25, <2>2 DEF NotifySpawn
  <1> USE DEF Hands
  <1>26. CASE DrainHead(k) BY <1>4, <1>12, <1>26 DEF DrainHead
  <1>27. CASE DrainTail(k) BY <1>4, <1>12, <1>27 DEF DrainTail
  <1>28. CASE TakeToken(k) BY <1>4, <1>12, <1>28 DEF TakeToken
  <1>29. CASE DrainRead(k) BY <1>4, <1>12, <1>29 DEF DrainRead
  <1>30. CASE ReleaseToken(k) BY <1>4, <1>12, <1>30 DEF ReleaseToken
  <1>31. CASE Lock(k) BY <1>4, <1>12, <1>31 DEF Lock
  <1>32. CASE CheckHead(k) BY <1>4, <1>12, <1>32 DEF CheckHead
  <1>33. CASE CheckTail(k) BY <1>4, <1>12, <1>33 DEF CheckTail
  <1>34. CASE CheckDeques(k) BY <1>4, <1>12, <1>34 DEF CheckDeques
  <1>35. CASE Wake(k) BY <1>4, <1>12, <1>35 DEF Wake
  <1>36. CASE Exit(k) BY <1>4, <1>12, <1>36 DEF Exit
  <1>37. CASE WakeSpuriously(k) BY <1>4, <1>12, <1>37 DEF WakeSpuriously
  <1> QED BY <1>15, <1>16, <1>17, <1>19, <1>20, <1>21, <1>22, <1>23, <1>24, <1>25, <1>26, <1>27,
             <1>28, <1>29, <1>30, <1>31, <1>32, <1>33, <1>34, <1>35, <1>36, <1>37
          DEF WorkerSteps, Look, Doze, Work

-----------------------------------------------------------------------------
LEMMA PoolInvInit == PoolInit => PoolInv
  <1> SUFFICES ASSUME PoolInit PROVE PoolInv
      OBVIOUS
  <1>1. PoolType
    <2>1. <<>> \in Seq(Nat) /\ nodes \in Seq([task : Nat, by : Submitters, born : Nat])
          /\ Len(nodes) = 0
          BY DEF PoolInit
    <2>2. made \in 0 .. TaskLimit /\ parent \in [Ids -> Nat]
          BY LimitAssumption DEF PoolInit, NoId
    <2>3. /\ wk \in [Workers -> WorkerPlaces] /\ cur \in [Workers -> Nat]
          /\ seen \in [Workers -> Nat] /\ scan \in [Workers -> SUBSET Workers]
          /\ sub \in [Submitters -> {"idle", "link", "notify"}]
          BY DEF PoolInit, NoId, WorkerPlaces
    <2>4. deque \in [Workers -> Seq(Nat)] BY <2>1 DEF PoolInit
    <2>5. running \in BOOLEAN /\ token \in BOOLEAN BY DEF PoolInit
    <2>6. resumable \in Seq(Nat) /\ linked \subseteq DOMAIN nodes BY <2>1 DEF PoolInit
    <2>7. head = 0 /\ Len(nodes) = 0 BY DEF PoolInit
    <2>8. head \in 0 .. Len(nodes) BY <2>7
    <2> QED BY <2>1, <2>2, <2>3, <2>4, <2>5, <2>6, <2>8 DEF PoolType
  <1>2. CurIsHeld BY DEF PoolInit, CurIsHeld, Hands, NoId
  <1>3. OneDrains BY DEF PoolInit, OneDrains, Drains
  <1>4. LinksAreDue BY DEF PoolInit, LinksAreDue
  <1>5. NodesOnce /\ StoredOnce(deque) /\ SeqOnce(resumable)
        BY DEF PoolInit, NodesOnce, StoredOnce, SeqOnce
  <1>6. \A k \in Workers : hand[k] = NoId BY DEF PoolInit, hand, NoId
  <1>7. ValuesOnce(hand) /\ Values(hand) = {} BY <1>6 DEF hand, ValuesOnce, Values
  <1>8. Queue = {} /\ StoredIn(deque) = {} /\ Elements(resumable) = {}
        BY DEF PoolInit, Queue, StoredIn, Elements
  <1>9. 1 .. made = {} /\ parked = {} /\ done = {} BY DEF PoolInit
  <1>10. PlacesDivide BY <1>7, <1>8, <1>9 DEF PlacesDivide, Divides
  <1> QED BY <1>1, <1>2, <1>3, <1>4, <1>5, <1>7, <1>10 DEF PoolInv, EachPlaceOnce

LEMMA PoolInvNext == PoolInv /\ [PoolNext]_poolVars => PoolInv'
  <1> SUFFICES ASSUME PoolInv, [PoolNext]_poolVars PROVE PoolInv'
      OBVIOUS
  <1>1. /\ PoolType /\ CurIsHeld /\ OneDrains /\ LinksAreDue /\ Placed
        /\ NodesOnce /\ PlacesDivide
        BY DEF PoolInv, Placed, EachPlaceOnce
  <1>2. ASSUME NEW k \in Workers, WorkerSteps(k) PROVE PoolInv'
    <2>1. PoolType' /\ Elsewhere(k) BY <1>1, <1>2, WorkerTypes
    <2>2. CurIsHeld' BY <1>1, <1>2, <2>1, WorkerHolds
    <2>3. OneDrains' BY <1>1, <1>2, <2>1, WorkerDrains
    <2>4. LinksAreDue' BY <1>1, <1>2, WorkersLink
    <2>5. Placed' BY <1>1, <1>2, <2>1, WorkerPlacesTask
    <2> QED BY <2>1, <2>2, <2>3, <2>4, <2>5 DEF PoolInv, Placed
  <1>3. CASE (\E u \in Submitters : Exchange(u) \/ Submit(u)) \/ Stop
    <2>1. PoolType' /\ Undisturbed BY <1>1, <1>3, OutsideTypes
    <2>2. CurIsHeld' /\ OneDrains' /\ hand' = hand BY <1>1, <1>3, <2>1, OutsideKeeps
    <2>3. LinksAreDue' BY <1>1, <1>3, OutsideLinks
    <2>4. Placed' BY <1>1, <1>3, <2>1, <2>2, OutsidePlaces DEF Undisturbed
    <2> QED BY <2>1, <2>2, <2>3, <2>4 DEF PoolInv, Placed
  <1>4. CASE UNCHANGED poolVars
    <2>1. UNCHANGED <<running, resumable, nodes, linked, head, token, deque, wk, cur, seen, scan,
                      sub, made, parent, parked, done>>
          BY <1>4 DEF poolVars, injection, locals, fate
    <2>2. hand' = hand /\ Queue' = Queue BY <2>1 DEF hand, Queue
    <2>3. PoolType' BY <1>1, <2>1 DEF PoolType
    <2>4. CurIsHeld' /\ OneDrains' /\ LinksAreDue'
          BY <1>1, <2>1 DEF CurIsHeld, OneDrains, LinksAreDue
    <2>5. Placed' BY <1>1, <2>1, <2>2, Stays
    <2> QED BY <2>3, <2>4, <2>5 DEF PoolInv, Placed
  <1> QED BY <1>2, <1>3, <1>4 DEF PoolNext, WorkerSteps

LEMMA PoolInvHolds == PoolSpec => []PoolInv
  BY PoolInvInit, PoolInvNext, PTL DEF PoolSpec

\* A set with at most one element.
LEMMA AtMostOne ==
    ASSUME NEW S, \A x, y \in S : x = y
    PROVE  Cardinality(S) = IF S = {} THEN 0 ELSE 1
  <1>1. CASE S = {} BY <1>1, FS_EmptySet
  <1>2. CASE S # {}
    <2>1. PICK x \in S : S = {x} BY <1>2
    <2> QED BY <1>2, <2>1, FS_Singleton
  <1> QED BY <1>1, <1>2

\* Every place counts a task at most once, and one of them has it.
LEMMA OnePlace ==
    ASSUME PoolInv, NEW t \in 1 .. made
    PROVE  Places(t) = IF t \in done THEN 0 ELSE 1
  <1> DEFINE InQueue == {n \in DOMAIN nodes : n > head /\ nodes[n].task = t}
             InHand  == {k \in Workers : cur[k] = t /\ wk[k] # "advance"}
             InDeque == UNION {{k} \X {i \in DOMAIN deque[k] : deque[k][i] = t} : k \in Workers}
             InList  == {i \in DOMAIN resumable : resumable[i] = t}
             Waits   == {t} \cap parked
  <1>1. /\ PoolType /\ CurIsHeld /\ NodesOnce /\ ValuesOnce(hand) /\ StoredOnce(deque)
        /\ SeqOnce(resumable)
        /\ Divides(1 .. made, Queue, Values(hand), StoredIn(deque), Elements(resumable),
                   parked, done)
        BY DEF PoolInv, EachPlaceOnce, PlacesDivide
  <1>2. t # NoId BY DEF NoId
  <1>3. Cardinality(InQueue) = IF t \in Queue THEN 1 ELSE 0
    <2>1. \A m, n \in InQueue : m = n BY <1>1 DEF NodesOnce
    <2>2. InQueue = {} <=> t \notin Queue BY DEF Queue
    <2> QED BY <2>1, <2>2, AtMostOne
  <1>4. Cardinality(InHand) = IF t \in Values(hand) THEN 1 ELSE 0
    <2>1. \A k \in Workers : k \in InHand <=> hand[k] = t
          BY <1>1, <1>2 DEF hand, CurIsHeld, Hands
    <2>2. DOMAIN hand = Workers BY DEF hand
    <2>3. \A k, l \in InHand : k = l BY <1>1, <1>2, <2>1, <2>2 DEF ValuesOnce
    <2>4. InHand = {} <=> t \notin Values(hand) BY <1>2, <2>1, <2>2 DEF Values
    <2> QED BY <2>3, <2>4, AtMostOne
  <1>5. Cardinality(InDeque) = IF t \in StoredIn(deque) THEN 1 ELSE 0
    <2>1. DOMAIN deque = Workers BY <1>1 DEF PoolType
    <2>2. \A x \in InDeque : \E k \in Workers : \E i \in DOMAIN deque[k] :
              x = <<k, i>> /\ deque[k][i] = t
          OBVIOUS
    <2>3. \A x, y \in InDeque : x = y
      <3> SUFFICES ASSUME NEW x \in InDeque, NEW y \in InDeque PROVE x = y
          OBVIOUS
      <3>1. PICK k \in Workers : \E i \in DOMAIN deque[k] : x = <<k, i>> /\ deque[k][i] = t
            BY <2>2
      <3>2. PICK i \in DOMAIN deque[k] : x = <<k, i>> /\ deque[k][i] = t BY <3>1
      <3>3. PICK l \in Workers : \E j \in DOMAIN deque[l] : y = <<l, j>> /\ deque[l][j] = t
            BY <2>2
      <3>4. PICK j \in DOMAIN deque[l] : y = <<l, j>> /\ deque[l][j] = t BY <3>3
      <3>5. \A q \in DOMAIN deque[k], r \in DOMAIN deque[l] :
               deque[k][q] = deque[l][r] => k = l /\ q = r
            BY <1>1, <2>1 DEF StoredOnce
      <3> HIDE DEF InDeque
      <3> QED BY <3>2, <3>4, <3>5
    <2>4. InDeque # {} <=> t \in StoredIn(deque)
      <3>1. ASSUME NEW x \in InDeque PROVE t \in StoredIn(deque)
        <4>1. PICK k \in Workers : \E i \in DOMAIN deque[k] : deque[k][i] = t BY <2>2
        <4> QED BY <2>1, <4>1 DEF StoredIn
      <3>2. ASSUME t \in StoredIn(deque) PROVE InDeque # {}
        <4>1. PICK k \in Workers : \E i \in DOMAIN deque[k] : deque[k][i] = t
              BY <2>1, <3>2 DEF StoredIn
        <4>2. PICK i \in DOMAIN deque[k] : deque[k][i] = t BY <4>1
        <4>3. <<k, i>> \in {k} \X {j \in DOMAIN deque[k] : deque[k][j] = t} BY <4>2
        <4>4. <<k, i>> \in InDeque BY <4>3
        <4> QED BY <4>4
      <3> QED BY <3>1, <3>2
    <2> HIDE DEF InDeque
    <2> QED BY <2>3, <2>4, AtMostOne
  <1>6. Cardinality(InList) = IF t \in Elements(resumable) THEN 1 ELSE 0
    <2>1. \A i, j \in InList : i = j BY <1>1 DEF SeqOnce
    <2>2. InList = {} <=> t \notin Elements(resumable) BY DEF Elements
    <2> QED BY <2>1, <2>2, AtMostOne
  <1>7. Cardinality(Waits) = IF t \in parked THEN 1 ELSE 0
    <2>1. \A x, y \in Waits : x = y OBVIOUS
    <2>2. Waits = {} <=> t \notin parked OBVIOUS
    <2> QED BY <2>1, <2>2, AtMostOne
  <1>8. Places(t) = Cardinality(InQueue) + Cardinality(InHand) + Cardinality(InDeque)
                    + Cardinality(InList) + Cardinality(Waits)
        BY DEF Places
  <1> HIDE DEF InQueue, InHand, InDeque, InList, Waits
  <1> QED BY <1>1, <1>3, <1>4, <1>5, <1>6, <1>7, <1>8 DEF Divides

\* A task is in one place until it completes and in none after, for any
\* number of workers, submitters and tasks: the drain lock makes one consumer
\* of all the workers, and each hand-over takes from one place what it puts
\* into the next.
THEOREM TasksInOnePlace == PoolSpec => []EachTaskInOnePlace
  <1>1. PoolInv => EachTaskInOnePlace BY OnePlace DEF EachTaskInOnePlace
  <1> QED BY <1>1, PoolInvHolds, PTL
====
