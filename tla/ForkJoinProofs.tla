---- MODULE ForkJoinProofs ----
(***************************************************************************)
(* The fork-join counter for any number of workers and tasks: it counts    *)
(* exactly, a wait() joins everything, no completion touches a counter     *)
(* that is gone, and the waiting fibre is in exactly one place.            *)
(***************************************************************************)
EXTENDS ForkJoin, FiniteSetTheorems, TLAPS

\* A batch is armed and not yet submitted only inside run(); the slot is cleared
\* while nothing else is outstanding; and the counter dies drained.
BatchInHand ==
    /\ unsent > 0 <=> wpc \in {"reset", "submit"}
    /\ wpc = "reset" => queued = 0 /\ Counted = {}
    /\ wpc = "gone" => outstanding = 0

\* The workers that may claim the slot, or have claimed it and not yet published.
Finishing == {k \in Workers : \/ wk[k] \in {"claimed", "restore"}
                              \/ wk[k] = "loop" /\ v[k] = 1}

\* Of the counted workers at most one has seen the count at one, and nobody
\* writes the slot while it holds a claim.
OneFinisher ==
    /\ \A k, l \in Finishing : k = l
    /\ \A k \in Workers : wk[k] = "restore" => v[k] # 1
    /\ \A k \in Workers : wk[k] \in {"claimed", "restore"} => waiter = Done

\* A claimed fibre is in the hands of a finisher.
ClaimInHand ==
    \A k \in Workers : w[k] = Fibre => wk[k] \in {"claimed", "handoff", "restore"}

\* The engine thread blocks and a fibre parks; a fibre that does neither is
\* switched to by a worker.
WaiterRuns ==
    /\ wpc \in {"wait", "blocked"} => main
    /\ wpc \in {"parking", "parked"} => ~main
    /\ ~main /\ wpc \notin {"parked", "gone"} => Switched # {}

Inductive ==
    /\ TypeOK /\ CountIsExact /\ BatchInHand /\ OneFinisher /\ SlotIsFresh
    /\ ClaimInHand /\ FibreInOnePlace /\ WaiterRuns

USE WorkersAssumption, TasksAssumption

-----------------------------------------------------------------------------
(* Counting. *)

\* How a set of workers grows and shrinks.
LEMMA Size ==
    ASSUME NEW S \in SUBSET Workers
    PROVE  /\ Cardinality(S) \in Nat /\ (Cardinality(S) = 0 <=> S = {})
           /\ \A k \in Workers \ S : Cardinality(S \cup {k}) = Cardinality(S) + 1
           /\ \A k \in S : /\ Cardinality(S \ {k}) = Cardinality(S) - 1 /\ Cardinality(S) > 0
                           /\ Cardinality(S) = 1 => S = {k}
  <1>1. IsFiniteSet(S) BY FS_Subset
  <1>2. Cardinality(S) \in Nat BY <1>1, FS_CardinalityType
  <1>3. Cardinality(S) = 0 <=> S = {} BY <1>1, FS_EmptySet
  <1>4. \A k \in Workers \ S : Cardinality(S \cup {k}) = Cardinality(S) + 1
        BY <1>1, FS_AddElement
  <1>5. ASSUME NEW k \in S
        PROVE  /\ Cardinality(S \ {k}) = Cardinality(S) - 1 /\ Cardinality(S) > 0
               /\ Cardinality(S) = 1 => S = {k}
    <2>1. IsFiniteSet(S \ {k}) /\ Cardinality(S \ {k}) = Cardinality(S) - 1
          BY <1>1, FS_RemoveElement
    <2>2. Cardinality(S \ {k}) = 0 <=> S \ {k} = {} BY <2>1, FS_EmptySet
    <2>3. Cardinality(S) > 0 BY <1>2, <1>3
    <2> QED BY <2>1, <2>2, <2>3
  <1> QED BY <1>2, <1>3, <1>4, <1>5

\* A counted worker keeps the count above zero; at one, nothing else is counted.
LEMMA Sole ==
    ASSUME TypeOK, CountIsExact, NEW k \in Counted
    PROVE  outstanding > 0 /\ (outstanding = 1 => Counted = {k} /\ queued = 0 /\ unsent = 0)
  <1>1. Counted \in SUBSET Workers BY DEF Counted
  <1>2. Cardinality(Counted) \in Nat /\ Cardinality(Counted) > 0
        /\ (Cardinality(Counted) = 1 => Counted = {k})
        BY <1>1, Size
  <1> QED BY <1>2 DEF TypeOK, CountIsExact

\* A fibre that is in one place is in no other.
LEMMA OnePlace ==
    ASSUME TypeOK, FibreInOnePlace
    PROVE  /\ Cardinality(Switched) \in Nat /\ Cardinality(Claimants) \in Nat
           /\ Switched # {} => /\ ~main /\ wpc # "gone" /\ Claimants = {} /\ resumable = 0
                               /\ waiter # Fibre /\ Cardinality(Switched) = 1
           /\ resumable > 0 => ~main /\ wpc # "gone" /\ Switched = {}
           /\ main => waiter # Fibre
  <1>1. Switched \in SUBSET Workers /\ Claimants \in SUBSET Workers
        BY DEF Switched, Claimants
  <1>2. /\ Cardinality(Switched) \in Nat /\ (Cardinality(Switched) = 0 <=> Switched = {})
        /\ Cardinality(Claimants) \in Nat /\ (Cardinality(Claimants) = 0 <=> Claimants = {})
        BY <1>1, Size
  <1> QED BY <1>2 DEF TypeOK, FibreInOnePlace

-----------------------------------------------------------------------------
(* The waiter's steps. *)

LEMMA InductiveInit == Init => Inductive
  <1> SUFFICES ASSUME Init PROVE Inductive OBVIOUS
  <1>1. TypeOK BY DEF Init, TypeOK, Working, Null, Fibre
  <1>2. Counted = {} /\ Claimants = {} /\ Finishing = {}
        BY DEF Init, Counted, Claimants, Finishing, Working, Null, Fibre
  <1>3. Cardinality({}) = 0 BY FS_EmptySet
  <1>4. CountIsExact BY <1>2, <1>3 DEF Init, CountIsExact
  <1>5. BatchInHand /\ SlotIsFresh BY DEF Init, BatchInHand, SlotIsFresh
  <1>6. OneFinisher BY <1>2 DEF Init, OneFinisher, Fibre
  <1>7. ClaimInHand BY DEF Init, ClaimInHand, Null, Fibre
  <1>8. main => Switched = {} BY DEF Init, Switched, Fibre
  <1>9. ~main => \E k \in Workers : Switched = {k} BY DEF Init, Switched, Fibre
  <1>10. \A k \in Workers : Cardinality({k}) = 1 BY FS_Singleton
  <1>11. FibreInOnePlace
         BY <1>2, <1>3, <1>8, <1>9, <1>10 DEF Init, FibreInOnePlace, Null, Fibre
  <1>12. WaiterRuns BY <1>9 DEF Init, WaiterRuns
  <1> QED BY <1>1, <1>4, <1>5, <1>6, <1>7, <1>11, <1>12 DEF Inductive

\* Nothing but the waiter's own place, its batch, the queue and the count moves.
LEMMA WaiterKeeps ==
    ASSUME Inductive,
           \/ \E n \in 1 .. MaxTasks : Arm(n)
           \/ Reset \/ Submit \/ Wait \/ WaitLoad \/ Block \/ UNCHANGED vars
    PROVE  Inductive'
  <1> USE DEF Inductive, Reset, Submit, Wait, WaitLoad, Block, counter, locals, vars
  <1>1. wk' = wk /\ w' = w /\ v' = v /\ main' = main /\ resumable' = resumable BY DEF Arm
  <1>2. Counted' = Counted /\ Switched' = Switched /\ Claimants' = Claimants
        /\ Finishing' = Finishing
        BY <1>1 DEF Counted, Switched, Claimants, Finishing
  <1>3. Cardinality(Counted) \in Nat /\ (Cardinality(Counted) = 0 <=> Counted = {})
        BY Size DEF Counted
  <1>4. TypeOK'
    <2>1. CASE \E n \in 1 .. MaxTasks : Arm(n) BY <2>1 DEF TypeOK, Arm
    <2>2. CASE Submit BY <2>2 DEF TypeOK, BatchInHand
    <2> QED BY <2>1, <2>2 DEF TypeOK, Waiting
  <1>5. CountIsExact' BY <1>2, <1>3 DEF CountIsExact, Arm, TypeOK, BatchInHand
  <1>6. BatchInHand' BY <1>2, <1>3 DEF CountIsExact, Arm, TypeOK, BatchInHand, Waiting
  <1>7. waiter' = waiter \/ (wpc = "reset" /\ waiter' = Null) BY DEF Arm
  <1>8. wpc = "reset" => \A k \in Workers : wk[k] \notin {"claimed", "restore"}
        BY DEF BatchInHand, Counted, Working
  <1>9. OneFinisher' BY <1>1, <1>2, <1>7, <1>8 DEF OneFinisher
  <1>10. SlotIsFresh'
         BY <1>1, <1>3 DEF SlotIsFresh, Arm, TypeOK, Null, Done, CountIsExact, BatchInHand
  <1>11. ClaimInHand' BY <1>1 DEF ClaimInHand
  <1>12. wpc = "reset" => waiter # Fibre
         BY OnePlace DEF WaiterRuns
  <1>13. (wpc # "gone" /\ wpc' # "gone") \/ wpc' = wpc BY DEF Arm
  <1>14. FibreInOnePlace' BY <1>1, <1>2, <1>7, <1>12, <1>13 DEF FibreInOnePlace, Null, Fibre
  <1>15. WaiterRuns' BY <1>1, <1>2 DEF WaiterRuns, Runs, Arm, TypeOK, Switched
  <1> QED BY <1>4, <1>5, <1>6, <1>9, <1>10, <1>11, <1>14, <1>15

\* The counter's frame goes, and with it the fibre.
LEMMA ReturnKeeps == ASSUME Inductive, Return PROVE Inductive'
  <1> USE DEF Inductive, Return, counter, locals
  <1>1. \A k \in Workers : wk'[k] = IF wk[k] = Fibre THEN "idle" ELSE wk[k] OBVIOUS
  <1>2. Counted' = Counted /\ Claimants' = Claimants /\ Finishing' = Finishing /\ Switched' = {}
        BY <1>1 DEF Counted, Claimants, Finishing, Switched, Fibre, Working
  <1>3. TypeOK' BY DEF TypeOK
  <1>4. CountIsExact' /\ BatchInHand' BY <1>2 DEF CountIsExact, BatchInHand
  <1>5. OneFinisher' BY <1>1, <1>2 DEF OneFinisher
  <1>6. SlotIsFresh' BY DEF SlotIsFresh
  <1>7. ClaimInHand' BY <1>1 DEF ClaimInHand, Fibre
  <1>8. Cardinality({}) = 0 BY FS_EmptySet
  <1>9. FibreInOnePlace'
    <2>1. ~main => Cardinality(Switched) = 1
          BY OnePlace DEF Runs, Switched
    <2>2. main => Switched = {} BY OnePlace
    <2> QED BY <1>2, <1>8, <2>1, <2>2, OnePlace DEF FibreInOnePlace, TypeOK
  <1>10. WaiterRuns' BY DEF WaiterRuns
  <1> QED BY <1>3, <1>4, <1>5, <1>6, <1>7, <1>9, <1>10

-----------------------------------------------------------------------------
(* The workers' steps. *)

\* A parked fibre is registered, or sent back when the counter is drained.
LEMMA RegisterKeeps == ASSUME Inductive, NEW k \in Workers, Register(k) PROVE Inductive'
  <1> USE DEF Inductive, Register, locals
  <1>1. \A l \in Workers : wk'[l] = IF l = k THEN "idle" ELSE wk[l] BY DEF TypeOK
  <1>2. Counted' = Counted BY <1>1 DEF Counted, Working, Fibre
  <1>3. k \in Switched /\ Switched' = Switched \ {k} /\ Claimants' = Claimants
        BY <1>1 DEF Switched, Claimants, Fibre
  <1>4. Finishing' = Finishing BY <1>1 DEF Finishing, Fibre
  <1>5. TypeOK' BY DEF TypeOK, Waiting
  <1>6. CountIsExact' /\ BatchInHand' BY <1>2 DEF CountIsExact, BatchInHand
  <1>7. OneFinisher' BY <1>1, <1>4 DEF OneFinisher, Null, Done
  <1>8. SlotIsFresh' BY <1>1 DEF SlotIsFresh, Fibre, Done
  <1>9. ClaimInHand' BY <1>1 DEF ClaimInHand, Fibre
  <1>10. Cardinality(Switched \ {k}) = Cardinality(Switched) - 1
         BY <1>3, Size DEF Switched
  <1>11. \/ (waiter' = waiter /\ resumable' = resumable + 1)
         \/ (waiter' = Fibre /\ resumable' = resumable)
         OBVIOUS
  <1>12. /\ ~main /\ wpc # "gone" /\ Claimants = {} /\ resumable = 0 /\ waiter # Fibre
         /\ Cardinality(Switched) = 1
         BY <1>3, OnePlace
  <1>13. FibreInOnePlace' BY <1>3, <1>10, <1>11, <1>12, Size DEF FibreInOnePlace
  <1>14. WaiterRuns' BY DEF WaiterRuns
  <1> QED BY <1>5, <1>6, <1>7, <1>8, <1>9, <1>13, <1>14

\* A worker switches to the fibre.
LEMMA ResumeKeeps == ASSUME Inductive, NEW k \in Workers, Resume(k) PROVE Inductive'
  <1> USE DEF Inductive, Resume, counter, locals
  <1>1. \A l \in Workers : wk'[l] = IF l = k THEN Fibre ELSE wk[l] BY DEF TypeOK
  <1>2. Counted' = Counted BY <1>1 DEF Counted, Working, Fibre
  <1>3. k \notin Switched /\ Switched' = Switched \cup {k} /\ Claimants' = Claimants
        BY <1>1 DEF Switched, Claimants, Fibre
  <1>4. Finishing' = Finishing BY <1>1 DEF Finishing, Fibre
  <1>5. wpc = "parked" /\ ~main BY OnePlace DEF WaiterRuns
  <1>6. TypeOK' BY DEF TypeOK, Waiting
  <1>7. CountIsExact' /\ BatchInHand' BY <1>2, <1>5 DEF CountIsExact, BatchInHand
  <1>8. OneFinisher' BY <1>1, <1>4 DEF OneFinisher, Fibre
  <1>9. SlotIsFresh' BY <1>1, <1>5 DEF SlotIsFresh
  <1>10. ClaimInHand' BY <1>1 DEF ClaimInHand
  <1>11. Cardinality(Switched \cup {k}) = Cardinality(Switched) + 1
         BY <1>3, Size DEF Switched
  <1>12. FibreInOnePlace' BY <1>2, <1>3, <1>5, <1>11, OnePlace DEF FibreInOnePlace, TypeOK
  <1>13. WaiterRuns' BY <1>3, <1>5 DEF WaiterRuns
  <1> QED BY <1>6, <1>7, <1>8, <1>9, <1>10, <1>12, <1>13

\* A task is taken, to be counted among the workers' instead of the queue's.
LEMMA TakeKeeps == ASSUME Inductive, NEW k \in Workers, Take(k) PROVE Inductive'
  <1> USE DEF Inductive, Take, counter, locals
  <1>1. \A l \in Workers : wk'[l] = IF l = k THEN "body" ELSE wk[l] BY DEF TypeOK
  <1>2. k \notin Counted /\ Counted' = Counted \cup {k} BY <1>1 DEF Counted, Working
  <1>3. Switched' = Switched /\ Claimants' = Claimants /\ Finishing' = Finishing
        BY <1>1 DEF Switched, Claimants, Finishing, Fibre
  <1>4. Cardinality(Counted \cup {k}) = Cardinality(Counted) + 1 /\ Cardinality(Counted) \in Nat
        BY <1>2, Size DEF Counted
  <1>5. TypeOK' BY DEF TypeOK, Working
  <1>6. CountIsExact' BY <1>2, <1>4 DEF CountIsExact, TypeOK
  <1>7. BatchInHand' BY DEF BatchInHand
  <1>8. OneFinisher' /\ SlotIsFresh' BY <1>1, <1>3 DEF OneFinisher, SlotIsFresh
  <1>9. ClaimInHand' BY <1>1 DEF ClaimInHand
  <1>10. FibreInOnePlace' /\ WaiterRuns' BY <1>3 DEF FibreInOnePlace, WaiterRuns
  <1> QED BY <1>5, <1>6, <1>7, <1>8, <1>9, <1>10

\* A counted task adds one, which the waiter cannot have missed: it is counted itself.
LEMMA SpawnKeeps == ASSUME Inductive, NEW k \in Workers, Spawn(k) PROVE Inductive'
  <1> USE DEF Inductive, Spawn, locals
  <1>1. k \in Counted BY DEF Counted, Working
  <1>2. outstanding > 0 BY <1>1, Sole
  <1>3. Counted' = Counted /\ Switched' = Switched /\ Claimants' = Claimants
        /\ Finishing' = Finishing
        BY DEF Counted, Switched, Claimants, Finishing
  <1>4. TypeOK' BY DEF TypeOK
  <1>5. Cardinality(Counted) \in Nat BY Size DEF Counted
  <1>6. CountIsExact' BY <1>3, <1>5 DEF CountIsExact, TypeOK
  <1>7. BatchInHand' BY <1>1, <1>2, <1>3 DEF BatchInHand
  <1>8. OneFinisher' BY <1>3 DEF OneFinisher
  <1>9. SlotIsFresh' /\ ClaimInHand' BY <1>2 DEF SlotIsFresh, ClaimInHand
  <1>10. FibreInOnePlace' /\ WaiterRuns' BY <1>3 DEF FibreInOnePlace, WaiterRuns
  <1> QED BY <1>4, <1>6, <1>7, <1>8, <1>9, <1>10

LEMMA BodyEndsKeeps == ASSUME Inductive, NEW k \in Workers, BodyEnds(k) PROVE Inductive'
  <1> USE DEF Inductive, BodyEnds, counter, locals
  <1>1. \A l \in Workers : wk'[l] = IF l = k THEN "load" ELSE wk[l] BY DEF TypeOK
  <1>2. Counted' = Counted BY <1>1 DEF Counted, Working
  <1>3. Switched' = Switched /\ Claimants' = Claimants /\ Finishing' = Finishing
        BY <1>1 DEF Switched, Claimants, Finishing, Fibre
  <1>4. TypeOK' BY DEF TypeOK, Working
  <1>5. CountIsExact' /\ BatchInHand' BY <1>2 DEF CountIsExact, BatchInHand
  <1>6. OneFinisher' /\ SlotIsFresh' BY <1>1, <1>3 DEF OneFinisher, SlotIsFresh
  <1>7. ClaimInHand' BY <1>1 DEF ClaimInHand
  <1>8. FibreInOnePlace' /\ WaiterRuns' BY <1>3 DEF FibreInOnePlace, WaiterRuns
  <1> QED BY <1>4, <1>5, <1>6, <1>7, <1>8

\* The count is loaded: who finds it at one is the only counted worker.
LEMMA LoadKeeps ==
    ASSUME Inductive, NEW k \in Workers,
           \/ Load(k)
           \/ Decrement(k) /\ outstanding # v[k]
    PROVE  Inductive'
  <1> USE DEF Inductive, Load, Decrement, counter
  <1>1. /\ wk[k] \in {"load", "loop"} /\ (wk[k] = "loop" => v[k] # 1)
        /\ \A l \in Workers : wk'[l] = IF l = k THEN "loop" ELSE wk[l]
        /\ \A l \in Workers : v'[l] = IF l = k THEN outstanding ELSE v[l]
        /\ UNCHANGED <<main, outstanding, waiter, budget, queued, wpc, unsent, seen, w, resumable>>
        BY DEF TypeOK
  <1>2. k \in Counted /\ Counted' = Counted BY <1>1 DEF Counted, Working
  <1>3. Switched' = Switched /\ Claimants' = Claimants
        BY <1>1 DEF Switched, Claimants, Fibre
  <1>4. k \notin Finishing /\ Finishing \subseteq Counted BY <1>1 DEF Finishing, Counted, Working
  <1>5. Finishing' = IF outstanding = 1 THEN Finishing \cup {k} ELSE Finishing
        BY <1>1 DEF Finishing
  <1>6. \A l, m \in Finishing' : l = m
        BY <1>2, <1>4, <1>5, Sole DEF OneFinisher
  <1>7. TypeOK' BY <1>1 DEF TypeOK, Working
  <1>8. CountIsExact' /\ BatchInHand' BY <1>1, <1>2 DEF CountIsExact, BatchInHand
  <1>9. OneFinisher' /\ SlotIsFresh' BY <1>1, <1>6 DEF OneFinisher, SlotIsFresh
  <1>10. ClaimInHand' BY <1>1 DEF ClaimInHand
  <1>11. FibreInOnePlace' /\ WaiterRuns' BY <1>1, <1>3 DEF FibreInOnePlace, WaiterRuns
  <1> QED BY <1>7, <1>8, <1>9, <1>10, <1>11

\* The decrement of a completion that is not the last.
LEMMA DecrementKeeps ==
    ASSUME Inductive, NEW k \in Workers, Decrement(k), outstanding = v[k] PROVE Inductive'
  <1> USE DEF Inductive, Decrement
  <1>1. /\ \A l \in Workers : wk'[l] = IF l = k THEN "idle" ELSE wk[l]
        /\ outstanding' = outstanding - 1 /\ wk[k] = "loop" /\ outstanding # 1
        BY DEF TypeOK
  <1>2. k \in Counted /\ Counted' = Counted \ {k} BY <1>1 DEF Counted, Working
  <1>3. Switched' = Switched /\ Claimants' = Claimants /\ Finishing' = Finishing
        BY <1>1 DEF Switched, Claimants, Finishing, Fibre
  <1>4. Cardinality(Counted \ {k}) = Cardinality(Counted) - 1 /\ Cardinality(Counted) \in Nat
        BY <1>2, Size DEF Counted
  <1>5. outstanding > 0 BY <1>2, Sole
  <1>6. TypeOK' BY <1>1, <1>5 DEF TypeOK
  <1>7. CountIsExact' BY <1>1, <1>2, <1>4 DEF CountIsExact, TypeOK
  <1>8. BatchInHand' BY <1>2, <1>5 DEF BatchInHand
  <1>9. OneFinisher' /\ SlotIsFresh' BY <1>1, <1>3, <1>5 DEF OneFinisher, SlotIsFresh
  <1>10. ClaimInHand' BY <1>1 DEF ClaimInHand
  <1>11. FibreInOnePlace' /\ WaiterRuns' BY <1>3 DEF FibreInOnePlace, WaiterRuns
  <1> QED BY <1>6, <1>7, <1>8, <1>9, <1>10, <1>11

\* The finisher takes what is in the slot.
LEMMA ClaimKeeps == ASSUME Inductive, NEW k \in Workers, Claim(k) PROVE Inductive'
  <1> USE DEF Inductive, Claim
  <1>1. /\ \A l \in Workers : wk'[l] = IF l = k THEN "claimed" ELSE wk[l]
        /\ \A l \in Workers : w'[l] = IF l = k THEN waiter ELSE w[l]
        BY DEF TypeOK
  <1>2. Counted' = Counted /\ Switched' = Switched /\ Finishing' = Finishing
        BY <1>1 DEF Counted, Switched, Finishing, Working, Fibre
  <1>3. k \notin Claimants BY DEF Claimants, ClaimInHand
  <1>4. Claimants' = IF waiter = Fibre THEN Claimants \cup {k} ELSE Claimants
        BY <1>1, <1>3 DEF Claimants
  <1>5. /\ Cardinality(Claimants \cup {k}) = Cardinality(Claimants) + 1
        /\ Cardinality(Claimants) \in Nat
        BY <1>3, Size DEF Claimants
  <1>6. TypeOK' BY DEF TypeOK, Working
  <1>7. CountIsExact' /\ BatchInHand' BY <1>2 DEF CountIsExact, BatchInHand
  <1>8. OneFinisher' BY <1>1, <1>2 DEF OneFinisher
  <1>9. SlotIsFresh' BY <1>1 DEF SlotIsFresh
  <1>10. ClaimInHand' BY <1>1 DEF ClaimInHand
  <1>11. FibreInOnePlace' BY <1>2, <1>4, <1>5, OnePlace DEF FibreInOnePlace, TypeOK, Fibre, Done
  <1>12. WaiterRuns' BY <1>2 DEF WaiterRuns
  <1> QED BY <1>6, <1>7, <1>8, <1>9, <1>10, <1>11, <1>12

\* Zero is published by the only worker there is, or not at all.
LEMMA PublishKeeps == ASSUME Inductive, NEW k \in Workers, Publish(k) PROVE Inductive'
  <1> USE DEF Inductive, Publish
  <1>1. k \in Counted /\ k \in Finishing BY DEF Counted, Finishing, Working
  <1>2. outstanding > 0 BY <1>1, Sole
  <1>3. Claimants' = Claimants BY DEF Claimants
  <1>4. CASE outstanding = 1
    <2>1. /\ \A l \in Workers : wk'[l] = IF l = k THEN "handoff" ELSE wk[l]
          /\ outstanding' = 0 /\ v' = v
          BY <1>4 DEF TypeOK
    <2>2. Counted = {k} /\ queued = 0 /\ unsent = 0 BY <1>1, <1>4, Sole
    <2>3. Counted' = {} BY <2>1, <2>2 DEF Counted, Working
    <2>4. Switched' = Switched /\ Finishing' = Finishing \ {k}
          BY <2>1 DEF Switched, Finishing, Fibre
    <2>5. Cardinality({}) = 0 BY FS_EmptySet
    <2>6. TypeOK' BY <2>1 DEF TypeOK
    <2>7. CountIsExact' BY <2>1, <2>2, <2>3, <2>5 DEF CountIsExact
    <2>8. BatchInHand' BY <1>1, <2>1, <2>3 DEF BatchInHand
    <2>9. OneFinisher' /\ SlotIsFresh' BY <2>1, <2>4 DEF OneFinisher, SlotIsFresh
    <2>10. ClaimInHand' BY <2>1 DEF ClaimInHand
    <2>11. FibreInOnePlace' /\ WaiterRuns' BY <1>3, <2>4 DEF FibreInOnePlace, WaiterRuns
    <2> QED BY <2>6, <2>7, <2>8, <2>9, <2>10, <2>11
  <1>5. CASE outstanding # 1
    <2>1. /\ \A l \in Workers : wk'[l] = IF l = k THEN "restore" ELSE wk[l]
          /\ \A l \in Workers : v'[l] = IF l = k THEN outstanding ELSE v[l]
          /\ outstanding' = outstanding
          BY <1>5 DEF TypeOK
    <2>2. Counted' = Counted /\ Switched' = Switched /\ Finishing' = Finishing
          BY <2>1 DEF Counted, Switched, Finishing, Working, Fibre
    <2>3. TypeOK' BY <1>5, <2>1 DEF TypeOK
    <2>4. CountIsExact' /\ BatchInHand' BY <2>1, <2>2 DEF CountIsExact, BatchInHand
    <2>5. OneFinisher' /\ SlotIsFresh' BY <1>5, <2>1, <2>2 DEF OneFinisher, SlotIsFresh
    <2>6. ClaimInHand' BY <2>1 DEF ClaimInHand
    <2>7. FibreInOnePlace' /\ WaiterRuns' BY <1>3, <2>2 DEF FibreInOnePlace, WaiterRuns
    <2> QED BY <2>3, <2>4, <2>5, <2>6, <2>7
  <1> QED BY <1>4, <1>5

\* A claimed fibre goes from its finisher to the resumable list.
LEMMA GiveBackKeeps ==
    ASSUME Inductive, NEW k \in Workers, GiveBack(k)
    PROVE  /\ Claimants' = Claimants \ {k} /\ resumable' \in Nat
           /\ w' \in [Workers -> {Null, Fibre, Done}]
           /\ Cardinality(Claimants') + resumable' = Cardinality(Claimants) + resumable
           /\ \A l \in Workers : w'[l] = IF l = k THEN Null ELSE w[l]
  <1> USE DEF Inductive, GiveBack
  <1>1. \A l \in Workers : w'[l] = IF l = k THEN Null ELSE w[l] BY DEF TypeOK
  <1>2. Claimants' = Claimants \ {k} BY <1>1 DEF Claimants, Null, Fibre
  <1>3. w[k] = Fibre => k \in Claimants /\ Cardinality(Claimants \ {k}) = Cardinality(Claimants) - 1
        BY Size DEF Claimants
  <1>4. w[k] # Fibre => Claimants \ {k} = Claimants BY DEF Claimants
  <1>5. Cardinality(Claimants) \in Nat BY Size DEF Claimants
  <1>6. resumable' = IF w[k] = Fibre THEN resumable + 1 ELSE resumable OBVIOUS
  <1>7. Cardinality(Claimants') + resumable' = Cardinality(Claimants) + resumable
    <2>1. CASE w[k] = Fibre BY <1>2, <1>3, <1>5, <1>6, <2>1 DEF TypeOK
    <2>2. CASE w[k] # Fibre BY <1>2, <1>4, <1>6, <2>2 DEF TypeOK
    <2> QED BY <2>1, <2>2
  <1> QED BY <1>1, <1>2, <1>7 DEF TypeOK

LEMMA HandoffKeeps == ASSUME Inductive, NEW k \in Workers, Handoff(k) PROVE Inductive'
  <1> USE DEF Inductive, Handoff, counter
  <1>1. \A l \in Workers : wk'[l] = IF l = k THEN "idle" ELSE wk[l] BY DEF TypeOK
  <1>2. Counted' = Counted /\ Switched' = Switched /\ Finishing' = Finishing
        BY <1>1 DEF Counted, Switched, Finishing, Working, Fibre
  <1>3. /\ Claimants' = Claimants \ {k} /\ resumable' \in Nat
        /\ w' \in [Workers -> {Null, Fibre, Done}]
        /\ Cardinality(Claimants') + resumable' = Cardinality(Claimants) + resumable
        /\ \A l \in Workers : w'[l] = IF l = k THEN Null ELSE w[l]
        BY GiveBackKeeps
  <1>4. wpc' = wpc \/ (wpc = "blocked" /\ wpc' = "load") OBVIOUS
  <1>5. TypeOK' BY <1>3, <1>4 DEF TypeOK, Waiting
  <1>6. CountIsExact' /\ BatchInHand' BY <1>2, <1>4 DEF CountIsExact, BatchInHand
  <1>7. OneFinisher' /\ SlotIsFresh' BY <1>1, <1>2, <1>4 DEF OneFinisher, SlotIsFresh
  <1>8. ClaimInHand' BY <1>1, <1>3 DEF ClaimInHand, Null, Fibre
  <1>9. FibreInOnePlace'
    <2>1. Cardinality(Switched) \in Nat /\ Cardinality(Claimants) \in Nat
          /\ Cardinality(Claimants') \in Nat
          BY <1>3, Size DEF Switched, Claimants
    <2> QED BY <1>2, <1>3, <1>4, <2>1 DEF FibreInOnePlace, TypeOK
  <1>10. WaiterRuns' BY <1>2, <1>4 DEF WaiterRuns
  <1> QED BY <1>5, <1>6, <1>7, <1>8, <1>9, <1>10

\* The finisher undoes its claim: the slot is empty again.
LEMMA RestoreKeeps == ASSUME Inductive, NEW k \in Workers, Restore(k) PROVE Inductive'
  <1> USE DEF Inductive, Restore
  <1>1. \A l \in Workers : wk'[l] = IF l = k THEN "loop" ELSE wk[l] BY DEF TypeOK
  <1>2. Counted' = Counted /\ Switched' = Switched
        BY <1>1 DEF Counted, Switched, Working, Fibre
  <1>3. k \in Finishing /\ v[k] # 1 /\ waiter = Done BY DEF Finishing, OneFinisher
  <1>4. Finishing' = {} BY <1>1, <1>3 DEF Finishing, OneFinisher
  <1>5. /\ Claimants' = Claimants \ {k} /\ resumable' \in Nat
        /\ w' \in [Workers -> {Null, Fibre, Done}]
        /\ Cardinality(Claimants') + resumable' = Cardinality(Claimants) + resumable
        /\ \A l \in Workers : w'[l] = IF l = k THEN Null ELSE w[l]
        BY GiveBackKeeps
  <1>6. TypeOK' BY <1>5 DEF TypeOK, Working
  <1>7. CountIsExact' /\ BatchInHand' BY <1>2 DEF CountIsExact, BatchInHand
  <1>8. OneFinisher' BY <1>4 DEF OneFinisher, Finishing
  <1>9. SlotIsFresh' BY DEF SlotIsFresh, Null, Done
  <1>10. ClaimInHand' BY <1>1, <1>5 DEF ClaimInHand, Null, Fibre
  <1>11. FibreInOnePlace'
    <2>1. Cardinality(Switched) \in Nat /\ Cardinality(Claimants) \in Nat
          /\ Cardinality(Claimants') \in Nat
          BY <1>5, Size DEF Switched, Claimants
    <2> QED BY <1>2, <1>3, <1>5, <2>1 DEF FibreInOnePlace, TypeOK, Null, Fibre, Done
  <1>12. WaiterRuns' BY <1>2 DEF WaiterRuns
  <1> QED BY <1>6, <1>7, <1>8, <1>9, <1>10, <1>11, <1>12

LEMMA InductiveNext == Inductive /\ [Next]_vars => Inductive'
  BY WaiterKeeps, ReturnKeeps, RegisterKeeps, ResumeKeeps, TakeKeeps, SpawnKeeps, BodyEndsKeeps,
     LoadKeeps, DecrementKeeps, ClaimKeeps, PublishKeeps, HandoffKeeps, RestoreKeeps
  DEF Next, WaiterStep, Works

LEMMA InductiveHolds == Spec => []Inductive
  BY InductiveInit, InductiveNext, PTL DEF Spec

-----------------------------------------------------------------------------
(* What follows. *)

\* Every variable of the counter, its waiter and its workers keeps its type.
THEOREM TypeCorrect == Spec => []TypeOK
  <1>1. Inductive => TypeOK BY DEF Inductive
  <1> QED BY <1>1, InductiveHolds, PTL

\* The count is exact, whatever is armed, spawned and completed at once.
THEOREM Exact == Spec => []CountIsExact
  <1>1. Inductive => CountIsExact BY DEF Inductive
  <1> QED BY <1>1, InductiveHolds, PTL

\* A wait() that returns has joined every task.
THEOREM Joins == Spec => JoinIsComplete
  <1>1. ASSUME Inductive, [Next]_vars
        PROVE  [wpc = "load" /\ wpc' = "run" => queued = 0 /\ Counted = {}]_vars
    <2>1. ASSUME wpc = "load", wpc' = "run", Next PROVE outstanding = 0
      <3>1. WaitLoad \/ Submit \/ \E k \in Workers : Handoff(k)
            BY <2>1 DEF Next, WaiterStep, Works, Arm, Reset, Wait, Block, Return, Register, Resume,
               Take, Spawn, BodyEnds, Load, Claim, Publish, Restore, Decrement
      <3> QED BY <2>1, <3>1 DEF WaitLoad, Submit, Handoff
    <2>2. Cardinality(Counted) \in Nat /\ (Cardinality(Counted) = 0 <=> Counted = {})
          BY Size DEF Counted
    <2>3. outstanding = unsent + queued + Cardinality(Counted) /\ unsent \in Nat /\ queued \in Nat
          BY <1>1 DEF Inductive, TypeOK, CountIsExact
    <2>4. outstanding = 0 => queued = 0 /\ Cardinality(Counted) = 0 BY <2>2, <2>3
    <2> QED BY <1>1, <2>1, <2>2, <2>4
  <1> QED BY <1>1, InductiveHolds, PTL DEF Spec, JoinIsComplete

\* No completion touches a counter whose frame is gone.
THEOREM NoUseAfterReturn == Spec => []NoTouchAfterFree
  <1>1. ASSUME Inductive PROVE NoTouchAfterFree
    <2>1. Cardinality(Counted) \in Nat /\ (Cardinality(Counted) = 0 <=> Counted = {})
          BY Size DEF Counted
    <2>2. wpc = "gone" => Counted = {}
          BY <1>1, <2>1 DEF Inductive, TypeOK, CountIsExact, BatchInHand
    <2> QED BY <2>2 DEF NoTouchAfterFree, Touching, Counted, Working
  <1> QED BY <1>1, InductiveHolds, PTL

\* The waiting fibre is neither lost nor in two places.
THEOREM OneFibre == Spec => []FibreInOnePlace
  <1>1. Inductive => FibreInOnePlace BY DEF Inductive
  <1> QED BY <1>1, InductiveHolds, PTL

\* A drained counter that is used again has a clear parking slot.
THEOREM FreshSlot == Spec => []SlotIsFresh
  <1>1. Inductive => SlotIsFresh BY DEF Inductive
  <1> QED BY <1>1, InductiveHolds, PTL

====
