---- MODULE MpscQueueProofs ----
(***************************************************************************)
(* The injection queue for any number of producers, any allocator and any  *)
(* number of elements: elements come out in the order of the exchanges,    *)
(* no deleted node is touched, and empty() errs only under a pop.          *)
(***************************************************************************)
EXTENDS MpscQueue, SequenceTheorems, TLAPS

\* The nodes allocated and not yet exchanged for the tail; and the chain from the head
\* on, linked up or not, which is what else is allocated but for a node on its way out.
Fresh == {node[p] : p \in {q \in Producers : ppc[q] = "exchange"}}
Chain == (live \ Fresh) \ (IF cpc = "delete" THEN {old} ELSE {})

Types ==
    /\ head \in Addresses /\ tail \in Addresses /\ live \in SUBSET Addresses
    /\ next \in [Addresses -> Addresses \cup {Null}] /\ data \in [Addresses -> Nat]
    /\ ppc \in [Producers -> {"idle", "exchange", "link"}]
    /\ node \in [Producers -> Addresses \cup {Null}]
    /\ prev \in [Producers -> Addresses \cup {Null}]
    /\ cpc \in {"idle", "advance", "delete"}
    /\ opc \in {"idle", "tail", "done"} /\ answer \in BOOLEAN
    /\ moved \in BOOLEAN /\ held \in BOOLEAN
    /\ pushed \in Nat /\ popped \in Seq(Nat)

\* The chain is numbered from what has been popped to what has been pushed, and a
\* link leads to the next number.
Numbered ==
    /\ head \in Chain /\ data[head] = Len(popped)
    /\ tail \in Chain /\ data[tail] = pushed
    /\ \A a \in Chain : Len(popped) <= data[a] /\ data[a] <= pushed
    /\ \A a, b \in Chain : data[a] = data[b] => a = b
    /\ \A a \in Chain : next[a] # Null => next[a] \in Chain /\ data[next[a]] = data[a] + 1

\* A node is fresh with one producer, and points nowhere.
FreshApart ==
    \A p \in Producers : ppc[p] = "exchange" =>
        /\ node[p] \in live /\ next[node[p]] = Null
        /\ cpc = "delete" => node[p] # old
        /\ \A q \in Producers : ppc[q] = "exchange" /\ node[q] = node[p] => q = p

\* A producer about to link has two neighbours of the chain, the first of them not
\* linked yet, and it alone will link it.
LinksPending ==
    \A p \in Producers : ppc[p] = "link" =>
        /\ prev[p] \in Chain /\ node[p] \in Chain
        /\ next[prev[p]] = Null /\ data[node[p]] = data[prev[p]] + 1
        /\ \A q \in Producers : ppc[q] = "link" /\ prev[q] = prev[p] => q = p

ConsumerHolds ==
    /\ cpc = "advance" => old = head /\ next[head] # Null
    /\ cpc = "delete" => old \in live

PoppedInOrder == \A i \in 1 .. Len(popped) : popped[i] = i

\* While no pop moves the head, the asker knows it, and the queue stays as full.
AskerKnows ==
    /\ opc = "tail" /\ ~moved => first = head /\ (held => pushed > Len(popped))
    /\ opc = "done" /\ ~moved /\ held => ~answer

Inv ==
    /\ Types /\ Numbered /\ FreshApart /\ LinksPending
    /\ ConsumerHolds /\ PoppedInOrder /\ AskerKnows

USE AddressAssumption, BoundAssumption

-----------------------------------------------------------------------------
(* Lemmas for the steps. *)

LEMMA InvStarts == Init => Inv
  <1> SUFFICES ASSUME Init PROVE Inv OBVIOUS
  <1> USE DEF Init
  <1>1. Chain = {head} BY DEF Chain, Fresh
  <1>2. popped \in Seq(Nat) /\ Len(popped) = 0 BY EmptySeq
  <1>3. Types BY <1>2 DEF Types
  <1>4. Numbered BY <1>1, <1>2 DEF Numbered
  <1>5. FreshApart /\ LinksPending /\ ConsumerHolds /\ AskerKnows
        BY DEF FreshApart, LinksPending, ConsumerHolds, AskerKnows
  <1>6. PoppedInOrder BY <1>2 DEF PoppedInOrder
  <1> QED BY <1>3, <1>4, <1>5, <1>6 DEF Inv

\* The bounds of the numbers.
LEMMA ChainEnds ==
    ASSUME Inv
    PROVE  /\ Len(popped) \in Nat /\ pushed \in Nat /\ Len(popped) <= pushed
           /\ head \in Chain /\ tail \in Chain /\ Chain \subseteq live /\ live \subseteq Addresses
           /\ next[tail] = Null
           /\ Len(popped) < pushed => head # tail
  <1> USE DEF Inv
  <1>1. Len(popped) \in Nat /\ pushed \in Nat /\ live \subseteq Addresses /\ data[tail] \in Nat
        BY DEF Types
  <1>2. /\ head \in Chain /\ tail \in Chain /\ data[tail] = pushed /\ data[head] = Len(popped)
        /\ Len(popped) <= pushed
        BY DEF Numbered
  <1>3. next[tail] = Null
    <2> SUFFICES ASSUME next[tail] # Null PROVE FALSE OBVIOUS
    <2>1. next[tail] \in Chain /\ data[next[tail]] = pushed + 1 BY <1>2 DEF Numbered
    <2>2. pushed + 1 <= pushed BY <2>1 DEF Numbered
    <2> QED BY <1>1, <2>2
  <1>4. Len(popped) < pushed => head # tail BY <1>1, <1>2
  <1> QED BY <1>1, <1>2, <1>3, <1>4 DEF Chain

\* A step of a thread that only looks.
LEMMA ChainKept ==
    ASSUME Inv, UNCHANGED <<head, tail, live, next, data, ppc, node, prev, pushed, popped>>,
           cpc' = cpc /\ old' = old
    PROVE  Chain' = Chain /\ Numbered' /\ FreshApart' /\ LinksPending' /\ ConsumerHolds'
           /\ PoppedInOrder'
  <1> USE DEF Inv
  <1>1. Chain' = Chain BY DEF Chain, Fresh
  <1>2. Numbered' BY <1>1 DEF Numbered
  <1>3. FreshApart' BY DEF FreshApart
  <1>4. LinksPending' BY <1>1 DEF LinksPending
  <1>5. ConsumerHolds' BY DEF ConsumerHolds
  <1>6. PoppedInOrder' BY DEF PoppedInOrder
  <1> QED BY <1>1, <1>2, <1>3, <1>4, <1>5, <1>6

-----------------------------------------------------------------------------
(* try_push() *)

LEMMA AllocateKeeps ==
    ASSUME Inv, NEW p \in Producers, Allocate(p)
    PROVE  Inv'
  <1> USE DEF Inv, consumer, observer
  <1>1. PICK a \in Addresses \ live :
            /\ live' = live \cup {a} /\ next' = [next EXCEPT ![a] = Null]
            /\ data' = [data EXCEPT ![a] = 0] /\ node' = [node EXCEPT ![p] = a]
        BY DEF Allocate
  <1>2. /\ ppc[p] = "idle" /\ ppc' = [ppc EXCEPT ![p] = "exchange"]
        /\ UNCHANGED <<tail, prev, pushed, consumer, observer>>
        BY DEF Allocate
  <1>3. /\ DOMAIN next = Addresses /\ DOMAIN data = Addresses /\ DOMAIN node = Producers
        /\ DOMAIN ppc = Producers
        BY DEF Types
  <1>4. /\ next'[a] = Null /\ node'[p] = a /\ ppc'[p] = "exchange"
        /\ \A b \in Addresses : b # a => next'[b] = next[b] /\ data'[b] = data[b]
        /\ \A q \in Producers : q # p => node'[q] = node[q] /\ ppc'[q] = ppc[q]
        BY <1>1, <1>2, <1>3
  <1>5. \A b : b \in Fresh' <=> b \in Fresh \/ b = a
        BY <1>2, <1>4 DEF Fresh
  <1>6. Chain' = Chain
        BY <1>1, <1>2, <1>5 DEF Chain
  <1>7. \A b \in Chain : b \in Addresses /\ b # a /\ next'[b] = next[b] /\ data'[b] = data[b]
        BY <1>1, <1>4, ChainEnds
  <1>8. Types' BY <1>1, <1>2 DEF Types
  <1>9. Numbered' BY <1>2, <1>6, <1>7 DEF Numbered
  <1>10. FreshApart'
    <2>1. \A q \in Producers : q # p /\ ppc'[q] = "exchange" =>
              node'[q] = node[q] /\ node[q] \in live /\ node[q] # a /\ next'[node[q]] = Null
          BY <1>1, <1>4 DEF FreshApart, Types
    <2>2. cpc = "delete" => old # a BY <1>1 DEF ConsumerHolds
    <2> QED BY <1>1, <1>2, <1>4, <2>1, <2>2 DEF FreshApart
  <1>11. LinksPending' BY <1>2, <1>4, <1>6, <1>7 DEF LinksPending
  <1>12. ConsumerHolds' BY <1>1, <1>2, <1>7, ChainEnds DEF ConsumerHolds
  <1>13. PoppedInOrder' /\ AskerKnows' BY <1>2 DEF PoppedInOrder, AskerKnows
  <1> QED BY <1>8, <1>9, <1>10, <1>11, <1>12, <1>13

\* The fresh node is the last of the chain.
LEMMA ExchangeKeeps ==
    ASSUME Inv, NEW p \in Producers, Exchange(p)
    PROVE  Inv'
  <1> USE DEF Inv, consumer, observer
  <1> DEFINE a == node[p]
             n == pushed + 1
  <1>1. /\ ppc[p] = "exchange" /\ tail' = a /\ prev' = [prev EXCEPT ![p] = tail]
        /\ pushed' = n /\ data' = [data EXCEPT ![a] = n] /\ ppc' = [ppc EXCEPT ![p] = "link"]
        /\ UNCHANGED <<live, next, node, consumer, observer>>
        BY DEF Exchange
  <1>2. a \in live /\ next[a] = Null /\ a \in Fresh /\ a \notin Chain
        /\ (cpc = "delete" => a # old)
        BY <1>1 DEF FreshApart, Chain, Fresh
  <1>3. /\ pushed \in Nat /\ n \in Nat /\ pushed < n /\ a \in Addresses /\ DOMAIN data = Addresses
        /\ DOMAIN prev = Producers /\ DOMAIN ppc = Producers /\ Len(popped) <= n
        BY <1>2, ChainEnds DEF Types
  <1>4. /\ data'[a] = n /\ prev'[p] = tail /\ ppc'[p] = "link"
        /\ \A b \in Addresses : b # a => data'[b] = data[b]
        /\ \A q \in Producers : q # p => prev'[q] = prev[q] /\ ppc'[q] = ppc[q]
        BY <1>1, <1>3
  <1>5. \A b : b \in Fresh' <=> b \in Fresh /\ b # a
        BY <1>1, <1>4 DEF Fresh, FreshApart
  <1>6. Chain' = Chain \cup {a} BY <1>1, <1>2, <1>5 DEF Chain
  <1>7. \A b \in Chain : b # a /\ data'[b] = data[b] /\ data[b] <= pushed /\ data[b] \in Nat
        BY <1>2, <1>4, ChainEnds DEF Numbered, Types
  <1> HIDE DEF a, n
  <1>8. \A b \in Chain : data'[b] # n /\ data'[b] <= n /\ Len(popped) <= data'[b]
        BY <1>3, <1>7 DEF Numbered
  <1>9. Types' BY <1>1, <1>3 DEF Types
  <1>10. Numbered'
    <2>1. head' \in Chain' /\ data'[head'] = Len(popped)'
          BY <1>1, <1>6, <1>7, ChainEnds DEF Numbered
    <2>2. tail' \in Chain' /\ data'[tail'] = pushed' BY <1>1, <1>4, <1>6
    <2>3. \A b \in Chain' : Len(popped)' <= data'[b] /\ data'[b] <= pushed'
          BY <1>1, <1>3, <1>4, <1>6, <1>8
    <2>4. \A b, c \in Chain' : data'[b] = data'[c] => b = c
          BY <1>4, <1>6, <1>7, <1>8 DEF Numbered
    <2>5. \A b \in Chain' : next'[b] # Null => next'[b] \in Chain' /\ data'[next'[b]] = data'[b] + 1
          BY <1>1, <1>2, <1>6, <1>7 DEF Numbered
    <2> QED BY <2>1, <2>2, <2>3, <2>4, <2>5 DEF Numbered
  <1>11. FreshApart' BY <1>1, <1>4 DEF FreshApart
  <1>12. LinksPending'
    <2>1. /\ prev'[p] \in Chain' /\ node'[p] \in Chain' /\ next'[prev'[p]] = Null
          /\ data'[node'[p]] = data'[prev'[p]] + 1
      <3>1. data'[tail] = pushed /\ tail \in Chain BY <1>7, ChainEnds DEF Numbered
      <3>2. node'[p] = a BY <1>1 DEF a
      <3> QED BY <1>1, <1>4, <1>6, <3>1, <3>2, ChainEnds DEF n
    <2>2. \A q \in Producers : q # p /\ ppc'[q] = "link" =>
              /\ prev'[q] = prev[q] /\ node'[q] = node[q] /\ ppc[q] = "link"
              /\ prev[q] \in Chain /\ node[q] \in Chain
              /\ next[prev[q]] = Null /\ data[node[q]] = data[prev[q]] + 1
          BY <1>1, <1>4 DEF LinksPending
    <2>3. \A q \in Producers : q # p /\ ppc'[q] = "link" => prev[q] # tail
      <3> SUFFICES ASSUME NEW q \in Producers, q # p, ppc'[q] = "link", prev[q] = tail
                   PROVE  FALSE
          OBVIOUS
      <3>1. node[q] \in Chain /\ data[node[q]] = pushed + 1 BY <2>2 DEF Numbered
      <3>2. pushed + 1 <= pushed BY <3>1 DEF Numbered
      <3> QED BY <1>3, <3>2
    <2>4. \A q \in Producers : q # p /\ ppc'[q] = "link" =>
              /\ prev'[q] \in Chain' /\ node'[q] \in Chain'
              /\ next'[prev'[q]] = Null /\ data'[node'[q]] = data'[prev'[q]] + 1
          BY <1>1, <1>6, <1>7, <2>2
    <2>5. \A q, r \in Producers :
              ppc'[q] = "link" /\ ppc'[r] = "link" /\ prev'[r] = prev'[q] => r = q
          BY <1>4, <2>2, <2>3 DEF LinksPending
    <2> QED BY <2>1, <2>4, <2>5 DEF LinksPending
  <1>13. ConsumerHolds' BY <1>1 DEF ConsumerHolds
  <1>14. PoppedInOrder' BY <1>1 DEF PoppedInOrder
  <1>15. AskerKnows'
    <2>1. pushed > Len(popped) => pushed' > Len(popped) BY <1>1, <1>3, ChainEnds
    <2> QED BY <1>1, <2>1 DEF AskerKnows
  <1> QED BY <1>9, <1>10, <1>11, <1>12, <1>13, <1>14, <1>15

\* The chain is linked up in one more place.
LEMMA LinkKeeps ==
    ASSUME Inv, NEW p \in Producers, Link(p)
    PROVE  Inv'
  <1> USE DEF Inv, consumer, observer
  <1>1. /\ ppc[p] = "link" /\ next' = [next EXCEPT ![prev[p]] = node[p]]
        /\ ppc' = [ppc EXCEPT ![p] = "idle"]
        /\ node' = [node EXCEPT ![p] = Null] /\ prev' = [prev EXCEPT ![p] = Null]
        /\ UNCHANGED <<tail, live, data, pushed, consumer, observer>>
        BY DEF Link
  <1>2. /\ prev[p] \in Chain /\ node[p] \in Chain /\ prev[p] \in Addresses /\ node[p] \in Addresses
        /\ data[node[p]] = data[prev[p]] + 1
        BY <1>1, ChainEnds DEF LinksPending
  <1>3. /\ DOMAIN next = Addresses /\ DOMAIN node = Producers /\ DOMAIN ppc = Producers
        /\ DOMAIN prev = Producers
        BY DEF Types
  <1>4. /\ next'[prev[p]] = node[p] /\ ppc'[p] = "idle"
        /\ \A b \in Addresses : b # prev[p] => next'[b] = next[b]
        /\ \A q \in Producers :
              q # p => node'[q] = node[q] /\ prev'[q] = prev[q] /\ ppc'[q] = ppc[q]
        BY <1>1, <1>2, <1>3
  <1>5. Fresh' = Fresh BY <1>1, <1>4 DEF Fresh
  <1>6. Chain' = Chain BY <1>1, <1>5 DEF Chain
  <1>7. Types' BY <1>1, <1>2 DEF Types
  <1>8. Numbered' BY <1>1, <1>2, <1>4, <1>6, ChainEnds DEF Numbered
  <1>9. FreshApart'
    <2>1. \A q \in Producers : ppc'[q] = "exchange" =>
              q # p /\ node'[q] = node[q] /\ node[q] \in live /\ node[q] # prev[p]
          BY <1>2, <1>4 DEF FreshApart, Chain, Fresh
    <2> QED BY <1>1, <1>4, <2>1 DEF FreshApart, Types
  <1>10. LinksPending'
    <2>1. \A q \in Producers : ppc'[q] = "link" =>
              q # p /\ prev'[q] = prev[q] /\ node'[q] = node[q] /\ prev[q] # prev[p]
          BY <1>1, <1>4 DEF LinksPending
    <2> QED BY <1>1, <1>4, <1>6, <2>1, ChainEnds DEF LinksPending
  <1>11. ConsumerHolds' BY <1>1, <1>2, <1>4, ChainEnds DEF ConsumerHolds
  <1>12. PoppedInOrder' /\ AskerKnows' BY <1>1 DEF PoppedInOrder, AskerKnows
  <1> QED BY <1>7, <1>8, <1>9, <1>10, <1>11, <1>12

-----------------------------------------------------------------------------
(* try_pop() *)

LEMMA LookKeeps ==
    ASSUME Inv, Look
    PROVE  Inv'
  <1> USE DEF Inv, memory, producers, observer
  <1>1. /\ cpc = "idle" /\ next[head] # Null /\ old' = head /\ cpc' = "advance"
        /\ UNCHANGED <<tail, memory, producers, head, popped, observer>>
        BY DEF Look
  <1>2. Chain' = Chain BY <1>1 DEF Chain, Fresh
  <1>3. Types' BY <1>1 DEF Types
  <1>4. Numbered' BY <1>1, <1>2 DEF Numbered
  <1>5. FreshApart' BY <1>1 DEF FreshApart
  <1>6. LinksPending' BY <1>1, <1>2 DEF LinksPending
  <1>7. ConsumerHolds' BY <1>1 DEF ConsumerHolds
  <1>8. PoppedInOrder' /\ AskerKnows' BY <1>1 DEF PoppedInOrder, AskerKnows
  <1> QED BY <1>3, <1>4, <1>5, <1>6, <1>7, <1>8

\* The head goes to its successor: the old head, linked up, is nobody's neighbour.
LEMMA AdvanceKeeps ==
    ASSUME Inv, Advance
    PROVE  Inv'
  <1> USE DEF Inv, memory, producers
  <1> DEFINE h == next[head]
             n == Len(popped)
  <1>1. /\ cpc = "advance" /\ old = head /\ h # Null
        /\ popped' = Append(popped, data[h]) /\ head' = h /\ cpc' = "delete"
        /\ moved' = TRUE /\ held' = (held /\ pushed > Len(popped'))
        /\ UNCHANGED <<tail, memory, producers, old, opc, first, answer>>
        BY DEF Advance, ConsumerHolds
  <1>2. /\ head \in Chain /\ data[head] = n /\ h \in Chain /\ data[h] = n + 1 /\ n \in Nat
        /\ h \in Addresses /\ h # head
        BY <1>1, ChainEnds DEF Numbered
  <1>3. /\ popped' \in Seq(Nat) /\ Len(popped') = n + 1 /\ popped'[n + 1] = n + 1
        /\ \A i \in 1 .. n : popped'[i] = popped[i]
        BY <1>1, <1>2, AppendProperties DEF Types
  <1>4. Chain' = Chain \ {head} BY <1>1 DEF Chain, Fresh
  <1> HIDE DEF h, n
  <1>5. \A a \in Chain' : a # head /\ data[a] # n /\ n <= data[a] /\ data[a] \in Nat
    <2>1. \A a \in Chain : a \in Addresses /\ data[a] \in Nat BY ChainEnds DEF Types
    <2> QED BY <1>2, <1>4, <2>1 DEF Numbered, n
  <1>6. Types' BY <1>1, <1>2, <1>3 DEF Types
  <1>7. Numbered'
    <2>1. head' \in Chain' /\ data'[head'] = Len(popped') BY <1>1, <1>2, <1>3, <1>4
    <2>2. tail' \in Chain' /\ data'[tail'] = pushed'
      <3>1. tail # head BY <1>1, ChainEnds DEF h
      <3> QED BY <1>1, <1>4, <3>1 DEF Numbered
    <2>3. \A a \in Chain' : Len(popped') <= data[a] /\ data[a] <= pushed
          BY <1>2, <1>3, <1>4, <1>5 DEF Numbered
    <2>4. \A a, b \in Chain' : data[a] = data[b] => a = b BY <1>4 DEF Numbered
    <2>5. \A a \in Chain' : next[a] # Null => next[a] \in Chain' /\ data[next[a]] = data[a] + 1
      <3> SUFFICES ASSUME NEW a \in Chain', next[a] # Null
                   PROVE  next[a] \in Chain' /\ data[next[a]] = data[a] + 1
          OBVIOUS
      <3>1. next[a] \in Chain /\ data[next[a]] = data[a] + 1 BY <1>4 DEF Numbered
      <3>2. next[a] # head BY <1>2, <1>5, <3>1
      <3> QED BY <1>4, <3>1, <3>2
    <2> QED BY <1>1, <2>1, <2>2, <2>3, <2>4, <2>5 DEF Numbered
  <1>8. FreshApart' BY <1>1, <1>2 DEF FreshApart, Chain, Fresh
  <1>9. LinksPending'
    <2>1. \A p \in Producers : ppc[p] = "link" => prev[p] # head /\ node[p] # head
      <3> SUFFICES ASSUME NEW p \in Producers, ppc[p] = "link"
                   PROVE  prev[p] # head /\ node[p] # head
          OBVIOUS
      <3>1. prev[p] # head BY <1>1 DEF LinksPending, h
      <3>2. prev[p] \in Chain /\ node[p] \in Chain /\ data[node[p]] = data[prev[p]] + 1
            BY DEF LinksPending
      <3>3. n <= data[prev[p]] /\ data[prev[p]] \in Nat BY <1>4, <1>5, <3>1, <3>2
      <3> QED BY <1>2, <3>1, <3>2, <3>3
    <2> QED BY <1>1, <1>4, <2>1 DEF LinksPending
  <1>10. ConsumerHolds' BY <1>1, ChainEnds DEF ConsumerHolds
  <1>11. PoppedInOrder'
    <2>1. \A i \in 1 .. n + 1 : i \in 1 .. n \/ i = n + 1 BY <1>2
    <2> QED BY <1>3, <2>1 DEF PoppedInOrder, n
  <1>12. AskerKnows' BY <1>1 DEF AskerKnows
  <1> QED BY <1>6, <1>7, <1>8, <1>9, <1>10, <1>11, <1>12

LEMMA DeleteKeeps ==
    ASSUME Inv, Delete
    PROVE  Inv'
  <1> USE DEF Inv, producers, observer
  <1>1. /\ cpc = "delete" /\ live' = live \ {old} /\ old' = Null /\ cpc' = "idle"
        /\ UNCHANGED <<tail, next, data, producers, head, popped, observer>>
        BY DEF Delete
  <1>2. Chain' = Chain BY <1>1 DEF Chain, Fresh
  <1>3. Types' BY <1>1 DEF Types
  <1>4. Numbered' BY <1>1, <1>2 DEF Numbered
  <1>5. FreshApart' BY <1>1 DEF FreshApart
  <1>6. LinksPending' BY <1>1, <1>2 DEF LinksPending
  <1>7. ConsumerHolds' BY <1>1 DEF ConsumerHolds
  <1>8. PoppedInOrder' /\ AskerKnows' BY <1>1 DEF PoppedInOrder, AskerKnows
  <1> QED BY <1>3, <1>4, <1>5, <1>6, <1>7, <1>8

-----------------------------------------------------------------------------
(* empty() *)

LEMMA EmptyKeeps ==
    ASSUME Inv, Empty
    PROVE  Inv'
  <1> USE DEF Inv, memory, producers, consumer
  <1>1. UNCHANGED <<tail, memory, producers, consumer>>
        BY DEF Empty, EmptyHead, EmptyTail, EmptyReturns
  <1>2. Types' /\ AskerKnows'
    <2>1. CASE EmptyHead
      <3>1. /\ first' = head /\ opc' = "tail" /\ moved' = FALSE
            /\ held' = (pushed > Len(popped)) /\ answer' = answer
            BY <2>1 DEF EmptyHead
      <3>2. held' \in BOOLEAN /\ (held' => pushed > Len(popped))
        <4>1. held' \in BOOLEAN BY ONLY <3>1
        <4>2. held' => pushed > Len(popped) BY ONLY <3>1
        <4> QED BY <4>1, <4>2
      <3>3. Types' BY <1>1, <3>1, <3>2 DEF Types
      <3>4. AskerKnows' BY <1>1, <3>1, <3>2 DEF AskerKnows
      <3> QED BY <3>3, <3>4
    <2>2. CASE EmptyTail
      <3>1. ~moved /\ held => first # tail BY <2>2, ChainEnds DEF EmptyTail, AskerKnows
      <3> QED BY <1>1, <2>2, <3>1 DEF EmptyTail, Types, AskerKnows
    <2>3. CASE EmptyReturns BY <1>1, <2>3 DEF EmptyReturns, Types, AskerKnows
    <2> QED BY <2>1, <2>2, <2>3 DEF Empty
  <1> QED BY <1>1, <1>2, ChainKept

-----------------------------------------------------------------------------
(* Every step, and what follows. *)

LEMMA InvInductive == Inv /\ [Next]_vars => Inv'
  <1> SUFFICES ASSUME Inv, [Next]_vars PROVE Inv' OBVIOUS
  <1>1. CASE \E p \in Producers : Push(p)
        BY <1>1, AllocateKeeps, ExchangeKeeps, LinkKeeps DEF Push
  <1>2. CASE Pop BY <1>2, LookKeeps, AdvanceKeeps, DeleteKeeps DEF Pop
  <1>3. CASE Empty BY <1>3, EmptyKeeps
  <1>4. CASE UNCHANGED vars
    <2> USE DEF vars, memory, producers, consumer, observer
    <2>1. Types' /\ AskerKnows' BY <1>4 DEF Inv, Types, AskerKnows
    <2> QED BY <1>4, <2>1, ChainKept DEF Inv
  <1> QED BY <1>1, <1>2, <1>3, <1>4 DEF Next

\* The queue never leaves its invariant.
THEOREM QueueIsSound == Spec => []Inv
  BY InvStarts, InvInductive, PTL DEF Spec

\* MPSCQueue::try_pop(): however the producers link their nodes and whatever
\* addresses are used again, elements come out in the order of the exchanges.
THEOREM ElementsInOrder == Spec => []PopsInOrder
  <1>1. Inv => PopsInOrder
    <2> SUFFICES ASSUME Inv PROVE PopsInOrder OBVIOUS
    <2>1. popped \in Seq(Nat) /\ Len(popped) \in Nat BY DEF Inv, Types
    <2>2. popped \in [1 .. Len(popped) -> Nat] BY <2>1, LenProperties
    <2>3. \A i \in 1 .. Len(popped) : popped[i] = i BY DEF Inv, PoppedInOrder
    <2> QED BY <2>2, <2>3 DEF PopsInOrder
  <1> QED BY <1>1, QueueIsSound, PTL

\* No thread is about to touch a node that was deleted: not the consumer at the head
\* or its successor, nor a producer at the old tail.
THEOREM NodesOutliveTheirUsers == Spec => []NoUseAfterFree
  <1>1. Inv => NoUseAfterFree
    <2> SUFFICES ASSUME Inv PROVE NoUseAfterFree OBVIOUS
    <2>1. head \in Chain /\ Chain \subseteq live BY ChainEnds
    <2> QED BY <2>1 DEF NoUseAfterFree, Inv, Numbered, LinksPending
  <1> QED BY <1>1, QueueIsSound, PTL

\* MPSCQueue::empty(): its two loads are not one, yet it answers yes to a queue that
\* was never empty only if a pop moved the head in between.
THEOREM EmptyIsHonest == Spec => []EmptyErrsOnlyUnderAPop
  <1>1. Inv => EmptyErrsOnlyUnderAPop
        BY DEF Inv, AskerKnows, EmptyErrsOnlyUnderAPop
  <1> QED BY <1>1, QueueIsSound, PTL

====
