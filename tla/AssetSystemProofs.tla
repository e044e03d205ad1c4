---- MODULE AssetSystemProofs ----
(***************************************************************************)
(* The safety of the asset graph's resolve, for any set of keys, any       *)
(* dependency function and any sequence of host operations.                *)
(***************************************************************************)
EXTENDS AssetSystem, SequenceTheorems, TLAPS

-----------------------------------------------------------------------------
(* The call stack. *)

LEMMA StackType ==
    ASSUME TypeOK
    PROVE  /\ deps \in [Keys -> SUBSET Keys]
           /\ stack \in Seq(Frames) /\ Depth \in Nat
           /\ Depth > 0 => Depth \in 1 .. Len(stack) /\ Top \in Frames /\ Key \in Keys
  <1>1. deps \in [Keys -> SUBSET Keys] BY GraphAssumption DEF TypeOK
  <1>2. stack \in Seq(Frames) /\ Depth \in Nat BY DEF TypeOK, Depth
  <1>3. Depth > 0 => Depth \in 1 .. Len(stack) /\ Top \in Frames /\ Key \in Keys
    <2> SUFFICES ASSUME Depth > 0 PROVE Depth \in 1 .. Len(stack) /\ Top \in Frames /\ Key \in Keys
        OBVIOUS
    <2>1. Depth \in 1 .. Len(stack) BY <1>2 DEF Depth
    <2>2. Top \in Frames BY <1>2, <2>1 DEF Top
    <2> QED BY <2>1, <2>2 DEF Key, Frames
  <1> QED BY <1>1, <1>2, <1>3

\* A return leaves the frames below as they were.
LEMMA Popped ==
    ASSUME TypeOK, Depth > 0, NEW bad \in BOOLEAN, Return(bad)
    PROVE  /\ stack' \in Seq(Frames) /\ failed' = bad
           /\ Len(stack') = Depth - 1
           /\ \A i \in 1 .. Depth - 1 : stack'[i] = stack[i]
  <1>1. stack \in Seq(Frames) /\ Depth = Len(stack) /\ Depth \in Nat
        BY StackType DEF Depth
  <1>2. \A i \in 1 .. Depth - 1 : stack[i] \in Frames BY <1>1
  <1>3. /\ SubSeq(stack, 1, Depth - 1) \in Seq(Frames)
        /\ Len(SubSeq(stack, 1, Depth - 1)) = IF 1 <= Depth - 1 THEN Depth - 1 - 1 + 1 ELSE 0
        /\ \A i \in 1 .. Depth - 1 - 1 + 1 : SubSeq(stack, 1, Depth - 1)[i] = stack[1 + i - 1]
        BY <1>1, <1>2, SubSeqProperties
  <1>4. stack' = SubSeq(stack, 1, Depth - 1) /\ failed' = bad BY DEF Return
  <1> QED BY <1>1, <1>3, <1>4

\* A frame that is rewritten leaves those below as they were.
LEMMA Retopped ==
    ASSUME TypeOK, Depth > 0, NEW frame \in Frames
    PROVE  /\ Retop(frame) \in Seq(Frames)
           /\ Len(Retop(frame)) = Depth
           /\ \A i \in 1 .. Depth - 1 : Retop(frame)[i] = stack[i]
           /\ Retop(frame)[Depth] = frame
  <1>1. stack \in Seq(Frames) /\ Depth = Len(stack) /\ Depth \in 1 .. Len(stack)
        BY StackType DEF Depth
  <1> QED BY <1>1 DEF Retop

\* So does one that waits for its prerequisites,
LEMMA Awaiting ==
    ASSUME TypeOK, Depth > 0, AwaitDeps
    PROVE  /\ stack' \in Seq(Frames) /\ failed' = failed
           /\ Len(stack') = Depth
           /\ \A i \in 1 .. Depth - 1 : stack'[i] = stack[i]
           /\ stack'[Depth] = [Top EXCEPT !.phase = "deps", !.todo = deps[Key]]
  <1>1. [Top EXCEPT !.phase = "deps", !.todo = deps[Key]] \in Frames
        BY StackType DEF Frames
  <1> QED BY <1>1, Retopped DEF AwaitDeps

\* and one that calls another.
LEMMA Pushed ==
    ASSUME TypeOK, Depth > 0, NEW frame \in Frames,
           NEW fn \in {"resolve", "node"}, NEW k \in Keys,
           stack' = Append(Retop(frame), Frame(fn, k))
    PROVE  /\ stack' \in Seq(Frames)
           /\ Len(stack') = Depth + 1
           /\ \A i \in 1 .. Depth - 1 : stack'[i] = stack[i]
           /\ stack'[Depth] = frame
           /\ stack'[Depth + 1] = Frame(fn, k)
  <1>1. Frame(fn, k) \in Frames BY DEF Frame, Frames
  <1>2. /\ Retop(frame) \in Seq(Frames) /\ Len(Retop(frame)) = Depth /\ Depth \in Nat
        /\ \A i \in 1 .. Depth - 1 : Retop(frame)[i] = stack[i]
        /\ Retop(frame)[Depth] = frame
        BY Retopped, StackType
  <1>3. /\ stack' \in Seq(Frames) /\ Len(stack') = Depth + 1
        /\ \A i \in 1 .. Depth : stack'[i] = Retop(frame)[i]
        /\ stack'[Depth + 1] = Frame(fn, k)
        BY <1>1, <1>2
  <1> QED BY <1>2, <1>3

-----------------------------------------------------------------------------
(* Types. *)

LEMMA CallTypes ==
    /\ Idle \in Calls
    /\ \A op \in {"resolve", "resolve_all", "resolve_roots", "bind", "rebind"} :
         \A R \in SUBSET Keys, p \in Policies \cup {"none"} : Run(op, R, p) \in Calls
  BY DEF Idle, Run, Calls

LEMMA KeySets ==
    /\ Assets \subseteq Keys /\ Unregistered \subseteq Keys
    /\ \A S \in SUBSET Keys : Terminals(S) \in SUBSET Keys
    /\ TypeOK => \A R : Undemanded(R) \subseteq Keys
  BY DEF Assets, Unregistered, Terminals, Undemanded, TypeOK

LEMMA TableTypes ==
    ASSUME TypeOK
    PROVE  /\ \A S : Evict(S) => /\ cache' \in [Keys -> {"none", "stale", "ours", "foreign"}]
                                 /\ compiled' \subseteq Keys /\ touched' \subseteq Keys
           /\ \A S : Pruned(S) \in [Keys -> {"none", "Pending", "Done", "Failed"}]
           /\ \A k \in Keys, s \in {"Pending", "Done", "Failed"} :
                SetStatus(k, s) => status' \in [Keys -> {"none", "Pending", "Done", "Failed"}]
  BY DEF TypeOK, Evict, Pruned, SetStatus

\* What has been published is resident or was turned down.
Tried == resident \cup refused

LEMMA PublishTries ==
    ASSUME TypeOK, NEW k \in Keys, Publish(k)
    PROVE  /\ resident' \subseteq Keys /\ refused' \subseteq Keys
           /\ Tried' = Tried \cup ({k} \cap Effectful)
  BY DEF TypeOK, Publish, Tried

LEMMA HostTypes == TypeOK /\ HostStep => TypeOK'
  <1> SUFFICES ASSUME TypeOK, HostStep PROVE TypeOK'
      OBVIOUS
  <1> USE DEF Host, fixed, graph, tables, outside, control
  <1>0. ops \in Nat /\ MaxOps \in Nat BY BoundAssumption DEF TypeOK
  <1>1. ASSUME NEW k \in Keys, Register(k) PROVE TypeOK' BY <1>0, <1>1 DEF Register, TypeOK
  <1>2. ASSUME NEW k \in Keys, Deregister(k) PROVE TypeOK' BY <1>0, <1>2 DEF Deregister, TypeOK
  <1>3. ASSUME NEW k \in Keys, Invalidate(k) PROVE TypeOK' BY <1>0, <1>3 DEF Invalidate, TypeOK
  <1>4. ASSUME NEW k \in Keys, StartResolve(k) PROVE TypeOK'
    <2>1. call' \in Calls BY <1>4, CallTypes DEF StartResolve
    <2> QED BY <1>0, <1>4, <2>1 DEF StartResolve, TypeOK
  <1>5. ASSUME NEW k \in Assets, NEW v \in {"stale", "foreign"}, HostWritesCache(k, v) PROVE TypeOK'
        BY <1>0, <1>5, KeySets DEF HostWritesCache, TypeOK
  <1>6. CASE Commit BY <1>0, <1>6, TableTypes DEF Commit, TypeOK
  <1>7. CASE Restart
    <2>1. stack' \in Seq(Frames) BY <1>7 DEF Restart
    <2>2. /\ cache' \in [Keys -> {"none", "stale", "ours", "foreign"}]
          /\ status' \in [Keys -> {"none", "Pending", "Done", "Failed"}]
          BY <1>7 DEF Restart
    <2>3. call' \in Calls BY <1>7, CallTypes DEF Restart
    <2>4. /\ registered' = {} /\ dag' = {} /\ compiled' = {} /\ touched' = {}
          /\ resident' = {} /\ refused' = {} /\ failed' = FALSE /\ ops' \in 0 .. MaxOps
          /\ deps' = deps /\ sealed' = sealed /\ entry' = entry
          BY <1>0, <1>7 DEF Restart
    <2> QED BY <2>1, <2>2, <2>3, <2>4 DEF TypeOK
  <1>8. CASE EvictUnregistered BY <1>0, <1>8, TableTypes DEF EvictUnregistered, TypeOK
  <1>9. CASE StartResolveAll
    <2>1. call' \in Calls BY <1>9, CallTypes DEF StartResolveAll, TypeOK
    <2> QED BY <1>0, <1>9, <2>1 DEF StartResolveAll, TypeOK
  <1>10. ASSUME NEW R \in RootSets \cup {Terminals(dag)}, NEW p \in Policies, StartResolveRoots(R, p)
         PROVE  TypeOK'
    <2>1. R \in SUBSET Keys BY KeySets, GraphAssumption DEF TypeOK
    <2>2. call' \in Calls BY <1>10, <2>1, CallTypes DEF StartResolveRoots
    <2> QED BY <1>0, <1>10, <2>2 DEF StartResolveRoots, TypeOK
  <1>11. ASSUME NEW draft \in SUBSET (Keys \ Extras), NEW glbs \in SUBSET Extras, Bind(draft, glbs)
         PROVE  TypeOK'
    <2>1. draft \in SUBSET Keys /\ draft \cup glbs \in SUBSET Keys BY BoundAssumption
    <2>2. "CachePreferred" \in Policies BY DEF Policies
    <2>3. call' \in Calls BY <1>11, <2>1, <2>2, KeySets, CallTypes DEF Bind
    <2>4. dag' \in SUBSET Keys BY <1>11, <2>1 DEF Bind
    <2>5. registered' \in SUBSET Keys BY <1>11, <2>1 DEF Bind
    <2>6. status' \in [Keys -> {"none", "Pending", "Done", "Failed"}] BY <1>11, TableTypes DEF Bind
    <2> QED BY <1>0, <1>11, <2>3, <2>4, <2>5, <2>6 DEF Bind, TypeOK
  <1> HIDE DEF Host, fixed, graph, tables, outside, control
  <1> QED BY <1>1, <1>2, <1>3, <1>4, <1>5, <1>6, <1>7, <1>8, <1>9, <1>10, <1>11 DEF HostStep

\* Every action of the recursion is taken by the frame at the top.
LEMMA StepTypes == TypeOK /\ Step => TypeOK'
  <1> SUFFICES ASSUME TypeOK, Step PROVE TypeOK'
      OBVIOUS
  <1> USE DEF fixed, graph, tables, outside, control, In, Between
  <1>1. CASE VisitDep
    <2>1. PICK p \in Top.todo : CallInto(p) BY <1>1 DEF VisitDep
    <2>2. Depth > 0 /\ Top \in Frames BY <1>1, StackType DEF VisitDep
    <2>3. p \in Keys /\ Top.fn \in {"resolve", "node"} BY <2>1, <2>2 DEF Frames
    <2>4. [Top EXCEPT !.todo = @ \ {p}] \in Frames BY <2>2 DEF Frames
    <2>5. stack' \in Seq(Frames) BY <2>1, <2>2, <2>3, <2>4, Pushed DEF CallInto
    <2> QED BY <1>1, <2>1, <2>5 DEF VisitDep, CallInto, TypeOK
  <1>2. CASE DepFailed BY <1>2, StackType, Popped, TableTypes DEF DepFailed, TypeOK
  <1>3. CASE ResolveRefused BY <1>3, StackType, Popped, TableTypes DEF ResolveRefused, TypeOK
  <1>4. CASE ResolveHit BY <1>4, StackType, Popped, TableTypes DEF ResolveHit, TypeOK
  <1>5. CASE ResolveBegin BY <1>5, StackType, Awaiting DEF ResolveBegin, Forget, SetStatus, TypeOK
  <1>6. CASE Compile
    <2>1. Depth > 0 /\ Key \in Keys BY <1>6, StackType DEF Compile, Ready
    <2>2. stack' \in Seq(Frames) /\ failed' \in BOOLEAN BY <1>6, <2>1, Popped DEF Compile
    <2>3. call' \in Calls BY <1>6, <2>1 DEF Compile, TypeOK, Calls
    <2>4. entry' \in [Keys -> {"none", "intact", "torn"}]
          BY <1>6, <2>1 DEF Compile, StoreCached, TypeOK
    <2>5. resident' \subseteq Keys /\ refused' \subseteq Keys
          BY <1>6, <2>1, PublishTries DEF Compile, TypeOK
    <2> QED BY <1>6, <2>1, <2>2, <2>3, <2>4, <2>5 DEF Compile, Store, SetStatus, TypeOK
  <1>7. CASE CompileFails BY <1>7, StackType, Popped, TableTypes DEF CompileFails, Ready, TypeOK
  <1>8. CASE NodeKnown BY <1>8, StackType, Popped DEF NodeKnown, TypeOK
  <1>9. CASE NodeHit
    <2>1. Depth > 0 /\ Key \in Keys BY <1>9, StackType DEF NodeHit, Visiting
    <2>2. stack' \in Seq(Frames) /\ failed' \in BOOLEAN BY <1>9, <2>1, Popped DEF NodeHit
    <2>3. call' \in Calls BY <1>9, <2>1 DEF NodeHit, Resolved, TypeOK, Calls
    <2> QED BY <1>9, <2>1, <2>2, <2>3, TableTypes DEF NodeHit, TypeOK
  <1>10. CASE NodeLoad
    <2>1. Depth > 0 /\ Key \in Keys BY <1>10, StackType DEF NodeLoad, Missing, Visiting
    <2>2. stack' \in Seq(Frames) /\ failed' \in BOOLEAN BY <1>10, <2>1, Popped DEF NodeLoad
    <2>3. call' \in Calls BY <1>10, <2>1 DEF NodeLoad, Resolved, TypeOK, Calls
    <2>4. resident' \subseteq Keys /\ refused' \subseteq Keys
          BY <1>10, <2>1, PublishTries DEF NodeLoad, TypeOK
    <2> QED BY <1>10, <2>1, <2>2, <2>3, <2>4 DEF NodeLoad, Store, SetStatus, TypeOK
  <1>11. CASE NodeRefused
    <2>1. Depth > 0 /\ Key \in Keys BY <1>11, StackType DEF NodeRefused, Missing, Visiting
    <2>2. stack' \in Seq(Frames) /\ failed' \in BOOLEAN BY <1>11, <2>1, Popped DEF NodeRefused
    <2>3. /\ cache' \in [Keys -> {"none", "stale", "ours", "foreign"}]
          /\ compiled' \subseteq Keys /\ touched' \subseteq Keys
          BY <1>11, TableTypes DEF NodeRefused, TypeOK
    <2> QED BY <1>11, <2>1, <2>2, <2>3, TableTypes DEF NodeRefused, TypeOK
  <1>12. CASE NodeBegin
    <2>1. Depth > 0 /\ Key \in Keys BY <1>12, StackType DEF NodeBegin, Visiting
    <2>2. stack' \in Seq(Frames) /\ failed' \in BOOLEAN BY <1>12, <2>1, Awaiting DEF NodeBegin, TypeOK
    <2>3. /\ cache' \in [Keys -> {"none", "stale", "ours", "foreign"}]
          /\ compiled' \subseteq Keys /\ touched' \subseteq Keys
          /\ status' \in [Keys -> {"none", "Pending", "Done", "Failed"}]
          BY <1>12, <2>1, TableTypes DEF NodeBegin, TypeOK
    <2> QED BY <1>12, <2>1, <2>2, <2>3 DEF NodeBegin, TypeOK
  <1>13. CASE NodeBuild
    <2>1. Depth > 0 /\ Key \in Keys /\ Top \in Frames BY <1>13, StackType DEF NodeBuild, Ready
    <2>2. [Top EXCEPT !.phase = "build"] \in Frames BY <2>1 DEF Frames
    <2>3. stack' \in Seq(Frames) BY <1>13, <2>1, <2>2, Pushed DEF NodeBuild
    <2> QED BY <1>13, <2>3 DEF NodeBuild, TypeOK
  <1>14. CASE NodeReturn
    <2>1. Depth > 0 /\ Key \in Keys BY <1>14, StackType DEF NodeReturn
    <2>2. stack' \in Seq(Frames) /\ failed' \in BOOLEAN BY <1>14, <2>1, Popped DEF NodeReturn, TypeOK
    <2>3. call' \in Calls BY <1>14, <2>1 DEF NodeReturn, Resolved, TypeOK, Calls
    <2> QED BY <1>14, <2>2, <2>3 DEF NodeReturn, TypeOK
  <1>15. CASE DemandBegin BY <1>15, StackType, Awaiting DEF DemandBegin, TypeOK
  <1>16. CASE DemandReturn BY <1>16, StackType, Popped, TableTypes DEF DemandReturn, Ready, TypeOK
  <1>17. CASE NextRoot
    <2>1. PICK k \in call.todo :
            \/ /\ \/ stack' = <<Frame("resolve", k)>> \/ stack' = <<Frame("node", k)>>
               /\ call' = [call EXCEPT !.todo = @ \ {k}]
               /\ UNCHANGED status
            \/ /\ SetStatus(k, "Failed") /\ UNCHANGED stack
               /\ call' = [call EXCEPT !.todo = @ \ {k}, !.errors = TRUE]
          BY <1>17 DEF NextRoot
    <2>2. k \in Keys BY DEF TypeOK, Calls
    <2>3. Frame("resolve", k) \in Frames /\ Frame("node", k) \in Frames BY <2>2 DEF Frame, Frames
    <2>4. stack' \in Seq(Frames)
      <3>1. stack \in Seq(Frames) BY DEF TypeOK
      <3>2. <<Frame("resolve", k)>> \in Seq(Frames) /\ <<Frame("node", k)>> \in Seq(Frames) BY <2>3
      <3> QED BY <2>1, <3>1, <3>2
    <2>5. call' \in Calls
      <3>1. /\ [call EXCEPT !.todo = @ \ {k}] \in Calls
            /\ [call EXCEPT !.todo = @ \ {k}, !.errors = TRUE] \in Calls
            BY DEF TypeOK, Calls
      <3> QED BY <2>1, <3>1
    <2>6. status' \in [Keys -> {"none", "Pending", "Done", "Failed"}]
          BY <2>1, <2>2, TableTypes DEF TypeOK
    <2> QED BY <1>17, <2>4, <2>5, <2>6 DEF NextRoot, TypeOK
  <1>18. CASE RootFailed
    <2>1. call' \in Calls BY <1>18 DEF RootFailed, TypeOK, Calls
    <2> QED BY <1>18, <2>1 DEF RootFailed, TypeOK
  <1>19. CASE EndCall BY <1>19, CallTypes DEF EndCall, TypeOK
  <1>20. CASE EvictUndemanded
    <2>1. /\ Evict(Undemanded(call.roots))
          /\ call' = IF call.op = "bind" THEN [Idle EXCEPT !.op = "sweep"] ELSE Idle
          /\ status' \in [Keys -> {"none", "Pending", "Done", "Failed"}]
          BY <1>20 DEF EvictUndemanded, TypeOK
    <2>2. call' \in Calls BY <2>1 DEF Idle, Calls
    <2>3. /\ cache' \in [Keys -> {"none", "stale", "ours", "foreign"}]
          /\ compiled' \subseteq Keys /\ touched' \subseteq Keys
          BY <2>1, TableTypes
    <2> QED BY <1>20, <2>1, <2>2, <2>3 DEF EvictUndemanded, TypeOK
  <1>21. CASE Sweep
    <2>1. /\ cache' \in [Keys -> {"none", "stale", "ours", "foreign"}]
          /\ compiled' \subseteq Keys /\ touched' \subseteq Keys
          BY <1>21, TableTypes DEF Sweep
    <2>2. PICK bindings \in SUBSET (Extras \ registered) :
            /\ registered' = registered \cup bindings
            /\ dag' \in {registered \cup bindings, dag}
            /\ status' \in {status, Pruned(dag')}
            /\ call' \in {Idle, Run("rebind", Terminals(dag'), "CachePreferred")}
          BY <1>21 DEF Sweep
    <2>3. registered' \in SUBSET Keys /\ dag' \in SUBSET Keys
          BY <2>2, BoundAssumption DEF TypeOK
    <2>4. status' \in [Keys -> {"none", "Pending", "Done", "Failed"}]
          BY <2>2, TableTypes DEF TypeOK
    <2>5. call' \in Calls BY <2>2, <2>3, KeySets, CallTypes DEF Policies
    <2> QED BY <1>21, <2>1, <2>3, <2>4, <2>5 DEF Sweep, TypeOK
  <1> HIDE DEF fixed, graph, tables, outside, control, In, Between
  <1> QED BY <1>1, <1>2, <1>3, <1>4, <1>5, <1>6, <1>7, <1>8, <1>9, <1>10, <1>11, <1>12, <1>13, <1>14,
             <1>15, <1>16, <1>17, <1>18, <1>19, <1>20, <1>21 DEF Step

-----------------------------------------------------------------------------
(* The two tables and the side effects. *)

LEMMA EvictKeeps ==
    ASSUME TypeOK, HalvesInStep, NEW S, Evict(S)
    PROVE  HalvesInStep' /\ compiled' \subseteq compiled
  BY DEF TypeOK, HalvesInStep, Evict

LEMMA StoreKeeps ==
    ASSUME TypeOK, HalvesInStep, NEW k \in Keys, Store(k)
    PROVE  HalvesInStep' /\ compiled' = compiled \cup {k}
  BY DEF TypeOK, HalvesInStep, Store

\* Whatever a step does to one table it does to the other, and it publishes
\* what it compiles.
LEMMA TablesKept ==
    ASSUME TypeOK, HalvesInStep, HitIsLit, [Next]_vars
    PROVE  HalvesInStep' /\ HitIsLit'
  <1> USE DEF fixed, graph, tables, outside, control, In, Between, Host
  <1> DEFINE Quiet == UNCHANGED <<cache, compiled, touched, resident, refused>>
  <1>0. Quiet => HalvesInStep' /\ HitIsLit' BY DEF HalvesInStep, HitIsLit
  <1>1. CASE UNCHANGED vars BY <1>0, <1>1 DEF vars
  <1>2. CASE VisitDep \/ DepFailed \/ ResolveRefused \/ ResolveHit \/ CompileFails \/ NodeKnown
             \/ NodeHit \/ NodeBuild \/ NodeReturn \/ DemandBegin \/ DemandReturn \/ NextRoot
             \/ RootFailed \/ EndCall
        BY <1>0, <1>2 DEF VisitDep, DepFailed, ResolveRefused, ResolveHit, CompileFails, NodeKnown,
             NodeHit, NodeBuild, NodeReturn, DemandBegin, DemandReturn, NextRoot, RootFailed, EndCall
  <1>3. CASE ResolveBegin BY <1>3 DEF ResolveBegin, Forget, Trusted, Valid, HalvesInStep, HitIsLit, TypeOK
  <1>4. CASE Compile
    <2>1. Key \in Keys BY <1>4, StackType DEF Compile, Ready
    <2> QED BY <1>4, <2>1, StoreKeeps, PublishTries DEF Compile, HitIsLit, Tried
  <1>5. CASE NodeLoad
    <2>1. Key \in Keys BY <1>5, StackType DEF NodeLoad, Missing, Visiting
    <2> QED BY <1>5, <2>1, StoreKeeps, PublishTries DEF NodeLoad, HitIsLit, Tried
  <1>6. CASE NodeRefused BY <1>0, <1>6, EvictKeeps DEF NodeRefused, HitIsLit
  <1>7. CASE NodeBegin BY <1>0, <1>7, EvictKeeps DEF NodeBegin, HitIsLit
  <1>8. CASE EvictUndemanded BY <1>8, EvictKeeps DEF EvictUndemanded, HitIsLit
  <1>9. CASE Sweep
    <2>1. Evict(Unregistered) /\ resident' = resident \cap registered /\ refused' = refused
          BY <1>9 DEF Sweep
    <2>2. compiled' \cap Keys \subseteq registered BY <2>1 DEF Evict, Unregistered
    <2> QED BY <2>1, <2>2, EvictKeeps DEF HitIsLit, TypeOK
  <1>10. ASSUME NEW k \in Keys, Register(k) \/ Deregister(k) \/ StartResolve(k) PROVE HalvesInStep' /\ HitIsLit'
         BY <1>0, <1>10 DEF Register, Deregister, StartResolve
  <1>11. ASSUME NEW k \in Keys, Invalidate(k) PROVE HalvesInStep' /\ HitIsLit'
         BY <1>11 DEF Invalidate, HalvesInStep, HitIsLit, TypeOK
  <1>12. ASSUME NEW k \in Assets, NEW v \in {"stale", "foreign"}, HostWritesCache(k, v)
         PROVE  HalvesInStep' /\ HitIsLit'
         BY <1>12 DEF HostWritesCache, HalvesInStep, HitIsLit, TypeOK
  <1>13. CASE Commit \/ StartResolveAll BY <1>0, <1>13 DEF Commit, StartResolveAll
  <1>14. CASE Restart BY <1>14 DEF Restart, HalvesInStep, HitIsLit
  <1>15. CASE EvictUnregistered BY <1>15, EvictKeeps DEF EvictUnregistered, HitIsLit
  <1>16. ASSUME NEW R, NEW p, StartResolveRoots(R, p) PROVE HalvesInStep' /\ HitIsLit'
         BY <1>0, <1>16 DEF StartResolveRoots
  <1>17. ASSUME NEW draft, NEW glbs, Bind(draft, glbs) PROVE HalvesInStep' /\ HitIsLit'
         BY <1>0, <1>17 DEF Bind
  <1> HIDE DEF fixed, graph, tables, outside, control, In, Between, Host
  <1> QED BY <1>1, <1>2, <1>3, <1>4, <1>5, <1>6, <1>7, <1>8, <1>9, <1>10, <1>11, <1>12, <1>13, <1>14,
             <1>15, <1>16, <1>17 DEF Next, Step, HostStep

-----------------------------------------------------------------------------
(* The recursion. *)

\* Between two calls, and while the sweep runs, nothing is being resolved.
Unwound == call.op \in {"idle", "sweep"} => stack = <<>> /\ call.todo = {}

\* resolve() calls only itself: what resolve_node() may evict under
\* ForceRecompile is never an input of a compile below it.
ResolveCallsResolve ==
    \A i, j \in 1 .. Depth : i < j /\ stack[i].fn = "resolve" => stack[j].fn = "resolve"

\* Of a frame that visits its prerequisites, those it is done with are
\* trusted, but for the one it is inside or the one that has just failed.
Vouched(i, p) ==
    \/ Trusted(p)
    \/ i < Depth /\ stack[i + 1].key = p
    \/ i = Depth /\ failed

InputsTrusted ==
    \A i \in 1 .. Depth : stack[i].fn = "resolve" /\ stack[i].phase = "deps" =>
        \A p \in deps[stack[i].key] \ stack[i].todo : Vouched(i, p)

Recursion == ResolveCallsResolve /\ InputsTrusted

TrustKept == \A p : Trusted(p) => Trusted(p)'

\* No frame of resolve(): nothing to vouch for.
LEMMA NothingToVouch ==
    ASSUME TypeOK, \A i \in 1 .. Depth : stack[i].fn # "resolve" PROVE Recursion
  BY DEF Recursion, ResolveCallsResolve, InputsTrusted

LEMMA NodeOnTop ==
    ASSUME TypeOK, Recursion, Depth > 0, Top.fn # "resolve"
    PROVE  \A i \in 1 .. Depth : stack[i].fn # "resolve"
  BY StackType DEF Recursion, ResolveCallsResolve, Top

\* A frame of resolve() returns, with its key trusted or with an error.
LEMMA PopKeeps ==
    ASSUME TypeOK, Recursion, Depth > 0, NEW bad \in BOOLEAN, Return(bad), UNCHANGED deps,
           Top.fn = "resolve" => TrustKept /\ (~failed' => cache'[Key] = "ours" /\ Key \in compiled')
    PROVE  Recursion'
  <1>1. /\ failed' = bad /\ Len(stack') = Depth - 1 /\ Depth \in Nat /\ Depth' = Depth - 1
        /\ \A i \in 1 .. Depth - 1 : stack'[i] = stack[i]
        BY Popped, StackType DEF Depth
  <1>2. ResolveCallsResolve' BY <1>1 DEF Recursion, ResolveCallsResolve
  <1>3. ASSUME NEW i \in 1 .. Depth - 1, stack[i].fn = "resolve", stack[i].phase = "deps",
               NEW p \in deps[stack[i].key] \ stack[i].todo
        PROVE  Vouched(i, p)'
    <2>1. Top.fn = "resolve" BY <1>1, <1>3, NodeOnTop
    <2>2. Trusted(p) \/ stack[i + 1].key = p BY <1>1, <1>3 DEF Recursion, InputsTrusted, Vouched
    <2>3. CASE Trusted(p) BY <2>1, <2>3 DEF TrustKept, Vouched
    <2>4. CASE stack[i + 1].key = p /\ i = Depth - 1
      <3>1. p = Key BY <1>1, <2>4 DEF Key, Top
      <3>2. failed' \/ Trusted(p)' BY <2>1, <3>1 DEF Trusted
      <3> QED BY <1>1, <2>4, <3>2 DEF Vouched
    <2>5. CASE stack[i + 1].key = p /\ i < Depth - 1 BY <1>1, <2>5 DEF Vouched
    <2> QED BY <1>1, <2>2, <2>3, <2>4, <2>5
  <1>4. InputsTrusted' BY <1>1, <1>3 DEF InputsTrusted, Vouched, Trusted
  <1> QED BY <1>2, <1>4 DEF Recursion

\* A frame turns to its prerequisites: it has visited none.
LEMMA AwaitKeeps ==
    ASSUME TypeOK, Recursion, Depth > 0, AwaitDeps, UNCHANGED deps,
           Top.fn = "resolve" => TrustKept
    PROVE  Recursion'
  <1>1. /\ Len(stack') = Depth /\ Depth \in Nat /\ Depth' = Depth /\ Top \in Frames
        /\ \A i \in 1 .. Depth - 1 : stack'[i] = stack[i]
        /\ stack'[Depth] = [Top EXCEPT !.phase = "deps", !.todo = deps[Key]]
        BY Awaiting, StackType DEF Depth
  <1>2. /\ stack'[Depth].fn = stack[Depth].fn /\ stack'[Depth].key = stack[Depth].key
        /\ stack'[Depth].todo = deps[stack[Depth].key]
        BY <1>1 DEF Frames, Top, Key
  <1>3. ASSUME NEW i \in 1 .. Depth
        PROVE  stack'[i].fn = stack[i].fn /\ stack'[i].key = stack[i].key
    <2>1. CASE i = Depth BY <1>2, <2>1
    <2>2. CASE i # Depth
      <3>1. i \in 1 .. Depth - 1 BY <1>1, <2>2
      <3> QED BY <1>1, <3>1
    <2> QED BY <2>1, <2>2
  <1>4. ResolveCallsResolve' BY <1>1, <1>3 DEF Recursion, ResolveCallsResolve
  <1>5. ASSUME NEW i \in 1 .. Depth, stack'[i].fn = "resolve", stack'[i].phase = "deps",
               NEW p \in deps[stack'[i].key] \ stack'[i].todo
        PROVE  Vouched(i, p)'
    <2>0. i # Depth BY <1>2, <1>5
    <2>1. i \in 1 .. Depth - 1 BY <1>1, <2>0
    <2>2. Top.fn = "resolve" BY <1>3, <1>5, NodeOnTop
    <2>3. Trusted(p) \/ stack[i + 1].key = p
          BY <1>1, <1>5, <2>1 DEF Recursion, InputsTrusted, Vouched
    <2>4. i + 1 \in 1 .. Depth BY <1>1, <2>1
    <2> QED BY <1>1, <1>3, <2>1, <2>2, <2>3, <2>4 DEF TrustKept, Vouched
  <1>6. InputsTrusted' BY <1>1, <1>5 DEF InputsTrusted, Vouched, Trusted
  <1> QED BY <1>4, <1>6 DEF Recursion

\* A frame visits a prerequisite: the frame of that one is above it.
LEMMA VisitKeeps ==
    ASSUME TypeOK, Recursion, VisitDep PROVE Recursion'
  <1>1. PICK p \in Top.todo : CallInto(p) BY DEF VisitDep
  <1>2. Depth > 0 /\ Top \in Frames /\ ~failed /\ Depth \in Nat BY StackType DEF VisitDep
  <1>3. p \in Keys /\ Top.fn \in {"resolve", "node"} BY <1>1, <1>2 DEF Frames
  <1>4. [Top EXCEPT !.todo = @ \ {p}] \in Frames BY <1>2 DEF Frames
  <1>5. /\ Len(stack') = Depth + 1 /\ Depth' = Depth + 1
        /\ \A i \in 1 .. Depth - 1 : stack'[i] = stack[i]
        /\ stack'[Depth] = [Top EXCEPT !.todo = @ \ {p}]
        /\ stack'[Depth + 1] = Frame(Top.fn, p)
        BY <1>1, <1>2, <1>3, <1>4, Pushed DEF CallInto, Depth
  <1>6. /\ stack'[Depth].fn = stack[Depth].fn /\ stack'[Depth].key = stack[Depth].key
        /\ stack'[Depth].phase = stack[Depth].phase /\ stack'[Depth].todo = stack[Depth].todo \ {p}
        BY <1>2, <1>5 DEF Frames, Top
  <1>7. stack'[Depth + 1].fn = stack[Depth].fn /\ stack'[Depth + 1].key = p
        /\ stack'[Depth + 1].phase = "enter"
        BY <1>5 DEF Frame, Top
  <1>8. ASSUME NEW i \in 1 .. Depth
        PROVE  /\ stack'[i].fn = stack[i].fn /\ stack'[i].key = stack[i].key
               /\ stack'[i].phase = stack[i].phase
    <2>1. CASE i = Depth BY <1>6, <2>1
    <2>2. CASE i # Depth
      <3>1. i \in 1 .. Depth - 1 BY <1>2, <2>2
      <3> QED BY <1>5, <3>1
    <2> QED BY <2>1, <2>2
  <1>9. UNCHANGED <<deps, cache, compiled>> BY DEF VisitDep, fixed, tables
  <1>10. ResolveCallsResolve'
    <2> SUFFICES ASSUME NEW i \in 1 .. Depth + 1, NEW j \in 1 .. Depth + 1, i < j,
                        stack'[i].fn = "resolve"
                 PROVE  stack'[j].fn = "resolve"
        BY <1>5 DEF ResolveCallsResolve
    <2>1. i \in 1 .. Depth /\ stack[i].fn = "resolve" BY <1>2, <1>8
    <2>2. stack[Depth].fn = "resolve" BY <1>2, <2>1 DEF Recursion, ResolveCallsResolve
    <2> QED BY <1>2, <1>7, <1>8, <2>1, <2>2 DEF Recursion, ResolveCallsResolve
  <1>11. ASSUME NEW i \in 1 .. Depth + 1, stack'[i].fn = "resolve", stack'[i].phase = "deps",
                NEW q \in deps[stack'[i].key] \ stack'[i].todo
         PROVE  Vouched(i, q)'
    <2>1. i \in 1 .. Depth BY <1>2, <1>7, <1>11
    <2>2. CASE i = Depth
      <3>1. q = p \/ q \in deps[stack[i].key] \ stack[i].todo BY <1>6, <1>11, <2>2
      <3>2. CASE q = p BY <1>5, <1>7, <2>2, <3>2 DEF Vouched
      <3>3. CASE q \in deps[stack[i].key] \ stack[i].todo
        <4>1. Trusted(q) BY <1>2, <1>8, <1>11, <2>1, <2>2, <3>3 DEF Recursion, InputsTrusted, Vouched
        <4> QED BY <1>9, <4>1 DEF Trusted, Vouched
      <3> QED BY <3>1, <3>2, <3>3
    <2>3. CASE i < Depth
      <3>0. i \in 1 .. Depth - 1 BY <1>2, <2>1, <2>3
      <3>1. Vouched(i, q) BY <1>5, <1>9, <1>11, <2>1, <3>0 DEF Recursion, InputsTrusted
      <3>2. i + 1 \in 1 .. Depth BY <1>2, <2>1, <2>3
      <3> QED BY <1>2, <1>5, <1>8, <1>9, <2>3, <3>1, <3>2 DEF Trusted, Vouched
    <2> QED BY <1>2, <2>1, <2>2, <2>3
  <1>12. InputsTrusted' BY <1>5, <1>9, <1>11 DEF InputsTrusted, Vouched, Trusted
  <1> QED BY <1>10, <1>12 DEF Recursion

\* A table or a flag that no frame depends on changes.
LEMMA SameStack ==
    ASSUME TypeOK, Recursion, UNCHANGED <<deps, stack, failed>>, TrustKept
    PROVE  Recursion'
  BY DEF Recursion, ResolveCallsResolve, InputsTrusted, Vouched, TrustKept, Depth

LEMMA EmptyStack == ASSUME stack' = <<>> PROVE Recursion'
  <1>1. Depth' = 0 BY DEF Depth
  <1> QED BY <1>1 DEF Recursion, ResolveCallsResolve, InputsTrusted

\* Only a visit of an untrusted key, a sweep or ForceRecompile takes trust away.
LEMMA RecursionKept ==
    ASSUME TypeOK, Unwound, Recursion, [Next]_vars PROVE Recursion' /\ Unwound'
  <1> USE DEF fixed, graph, tables, outside, control
  <1> DEFINE SameTables == UNCHANGED <<cache, compiled>>
  <1>0. SameTables => TrustKept BY DEF TrustKept, Trusted
  <1>1. CASE UNCHANGED vars
    <2>1. UNCHANGED <<deps, stack, failed, cache, compiled, call>> BY <1>1 DEF vars
    <2> QED BY <1>0, <2>1, SameStack DEF Unwound
  <1>2. CASE VisitDep
    <2>1. stack # <<>> /\ call' = call BY <1>2, StackType DEF VisitDep, Depth
    <2> QED BY <1>2, <2>1, VisitKeeps DEF Unwound
  <1>3. ASSUME Depth > 0, NEW bad \in BOOLEAN, Return(bad), UNCHANGED deps, call'.op = call.op,
               Top.fn = "resolve" => TrustKept /\ (~failed' => cache'[Key] = "ours" /\ Key \in compiled')
        PROVE  Recursion' /\ Unwound'
    <2>1. stack # <<>> BY <1>3, StackType DEF Depth
    <2> QED BY <1>3, <2>1, PopKeeps DEF Unwound
  <1>4. ASSUME Depth > 0, AwaitDeps, UNCHANGED <<deps, call>>, Top.fn = "resolve" => TrustKept
        PROVE  Recursion' /\ Unwound'
    <2>1. stack # <<>> BY <1>4, StackType DEF Depth
    <2> QED BY <1>4, <2>1, AwaitKeeps DEF Unwound
  <1>5. CASE DepFailed \/ ResolveRefused \/ CompileFails
    <2>1. Depth > 0 /\ Return(TRUE) /\ UNCHANGED <<deps, call>> /\ SameTables
          BY <1>5 DEF DepFailed, ResolveRefused, CompileFails, Ready, In
    <2>2. TrustKept BY <1>0, <2>1
    <2>3. failed' /\ \E bad \in BOOLEAN : Return(bad) BY <2>1 DEF Return
    <2>4. Top.fn = "resolve" => TrustKept /\ (~failed' => cache'[Key] = "ours" /\ Key \in compiled')
          BY <2>2, <2>3
    <2>5. call'.op = call.op /\ UNCHANGED deps BY <2>1
    <2> QED BY <1>3, <2>1, <2>3, <2>4, <2>5
  <1>6. CASE ResolveHit
        BY <1>0, <1>3, <1>6 DEF ResolveHit, In, Trusted
  <1>7. CASE ResolveBegin
    <2>1. TrustKept BY <1>7 DEF ResolveBegin, Forget, Trusted, Valid, TrustKept, TypeOK
    <2> QED BY <1>4, <1>7, <2>1 DEF ResolveBegin, In
  <1>8. CASE Compile
    <2>1. Depth > 0 /\ Key \in Keys BY <1>8, StackType DEF Compile, Ready, In
    <2>2. TrustKept /\ cache'[Key] = "ours" /\ Key \in compiled'
          BY <1>8, <2>1 DEF Compile, Store, Trusted, TrustKept, TypeOK
    <2>3. Return(FALSE) /\ UNCHANGED deps /\ call'.op = call.op BY <1>8 DEF Compile, TypeOK, Calls
    <2> QED BY <1>3, <2>1, <2>2, <2>3
  <1>9. ASSUME In("node", "enter") \/ In("node", "build") \/ Ready("node"), NEW bad \in BOOLEAN,
               Return(bad), UNCHANGED deps, call' = call \/ Resolved
        PROVE  Recursion' /\ Unwound'
    <2>1. Depth > 0 /\ Top.fn # "resolve" BY <1>9 DEF In, Ready
    <2>2. call'.op = call.op BY <1>9 DEF Resolved, TypeOK, Calls
    <2> QED BY <1>3, <1>9, <2>1, <2>2
  <1>10. CASE NodeKnown \/ NodeHit \/ NodeLoad \/ NodeRefused \/ NodeReturn \/ DemandReturn
         BY <1>9, <1>10 DEF NodeKnown, NodeHit, NodeLoad, NodeRefused, NodeReturn, DemandReturn,
                            Missing, Visiting, TypeOK
  <1>11. CASE NodeBegin \/ DemandBegin
         BY <1>4, <1>11 DEF NodeBegin, DemandBegin, Visiting, In
  <1>12. CASE NodeBuild
    <2>1. Depth > 0 /\ Depth \in Nat /\ Key \in Keys /\ Top \in Frames /\ Top.fn = "node"
          BY <1>12, StackType DEF NodeBuild, Ready, In
    <2>2. [Top EXCEPT !.phase = "build"] \in Frames BY <2>1 DEF Frames
    <2>3. /\ Len(stack') = Depth + 1 /\ Depth' = Depth + 1
          /\ \A i \in 1 .. Depth - 1 : stack'[i] = stack[i]
          /\ stack'[Depth] = [Top EXCEPT !.phase = "build"]
          /\ stack'[Depth + 1] = Frame("resolve", Key)
          BY <1>12, <2>1, <2>2, Pushed DEF NodeBuild, Depth
    <2>4. \A i \in 1 .. Depth : stack[i].fn # "resolve" BY <2>1, NodeOnTop
    <2>5. stack'[Depth].fn = "node" /\ stack'[Depth + 1].phase = "enter"
          BY <2>1, <2>3 DEF Frames, Frame
    <2>6. \A i \in 1 .. Depth : stack'[i].fn # "resolve"
      <3> SUFFICES ASSUME NEW i \in 1 .. Depth PROVE stack'[i].fn # "resolve"
          OBVIOUS
      <3>1. CASE i = Depth BY <2>5, <3>1
      <3>2. CASE i # Depth
        <4>1. i \in 1 .. Depth - 1 BY <2>1, <3>2
        <4> QED BY <2>3, <2>4, <4>1
      <3> QED BY <3>1, <3>2
    <2>7. Recursion' BY <2>1, <2>3, <2>5, <2>6 DEF Recursion, ResolveCallsResolve, InputsTrusted
    <2>8. stack # <<>> /\ call' = call BY <1>12, <2>1 DEF NodeBuild, Depth
    <2> QED BY <2>7, <2>8 DEF Unwound
  <1>13. CASE NextRoot
    <2>1. PICK k \in call.todo :
            /\ \/ stack' = <<Frame("resolve", k)>> \/ stack' = <<Frame("node", k)>>
               \/ UNCHANGED stack
            /\ call'.op = call.op
          BY <1>13 DEF NextRoot, TypeOK, Calls
    <2>2. Depth = 0 BY <1>13 DEF NextRoot, Between
    <2>3. stack = <<>> BY <2>2 DEF Depth, TypeOK
    <2>4. call.op \notin {"idle", "sweep"} BY <2>1 DEF Unwound
    <2>5. CASE stack' = stack BY <2>1, <2>3, <2>4, <2>5, EmptyStack DEF Unwound
    <2>6. CASE stack' # stack
      <3>1. /\ Depth' = 1 /\ stack'[1].phase = "enter"
            BY <2>1, <2>6 DEF Depth, Frame
      <3> QED BY <2>1, <2>4, <3>1
              DEF Unwound, Recursion, ResolveCallsResolve, InputsTrusted
    <2> QED BY <2>5, <2>6
  <1>14. ASSUME stack = <<>>, UNCHANGED stack, call'.op \in {"idle", "sweep"} => call'.todo = {}
         PROVE  Recursion' /\ Unwound'
         BY <1>14, EmptyStack DEF Unwound
  <1>15. CASE RootFailed
    <2>1. Depth = 0 /\ UNCHANGED stack /\ call'.op = call.op /\ call'.todo = call.todo
          BY <1>15 DEF RootFailed, Between, TypeOK, Calls
    <2>2. stack = <<>> BY <2>1 DEF Depth, TypeOK
    <2> QED BY <1>14, <2>1, <2>2 DEF Unwound
  <1>16. CASE EndCall \/ EvictUndemanded
    <2>1. Depth = 0 /\ UNCHANGED stack /\ call'.todo = {}
          BY <1>16 DEF EndCall, EvictUndemanded, Over, Between, Idle
    <2>2. stack = <<>> BY <2>1 DEF Depth, TypeOK
    <2> QED BY <1>14, <2>1, <2>2
  <1>17. CASE Sweep
    <2>1. stack = <<>> /\ UNCHANGED stack BY <1>17 DEF Sweep, Unwound
    <2>2. call'.op \in {"idle", "sweep"} => call'.todo = {}
          BY <1>17 DEF Sweep, Idle, Run
    <2> QED BY <1>14, <2>1, <2>2
  <1>18. ASSUME Host, UNCHANGED stack,
                \/ UNCHANGED call
                \/ \E op \in {"resolve", "resolve_all", "resolve_roots", "bind"} : call'.op = op
                \/ call' = Idle
         PROVE  Recursion' /\ Unwound'
    <2>1. stack = <<>> /\ call = Idle BY <1>18 DEF Host, Unwound, Idle
    <2> QED BY <1>14, <1>18, <2>1 DEF Idle
  <1>19. CASE \E k \in Keys : Register(k) \/ Deregister(k) \/ Invalidate(k)
         BY <1>18, <1>19 DEF Register, Deregister, Invalidate
  <1>20. CASE \E k \in Keys : StartResolve(k)
         BY <1>18, <1>20 DEF StartResolve, Run, Idle
  <1>21. CASE \E k \in Assets, v \in {"stale", "foreign"} : HostWritesCache(k, v)
         BY <1>18, <1>21 DEF HostWritesCache
  <1>22. CASE Commit \/ EvictUnregistered BY <1>18, <1>22 DEF Commit, EvictUnregistered
  <1>23. CASE Restart BY <1>23, EmptyStack DEF Restart, Unwound, Idle
  <1>24. CASE StartResolveAll BY <1>18, <1>24 DEF StartResolveAll, Run, Idle
  <1>25. ASSUME NEW R, NEW q, StartResolveRoots(R, q) PROVE Recursion' /\ Unwound'
         BY <1>18, <1>25 DEF StartResolveRoots, Run, Idle
  <1>26. ASSUME NEW draft, NEW glbs, Bind(draft, glbs) PROVE Recursion' /\ Unwound'
         BY <1>18, <1>26 DEF Bind, Run, Idle
  <1> HIDE DEF fixed, graph, tables, outside, control
  <1> QED BY <1>1, <1>2, <1>5, <1>6, <1>7, <1>8, <1>10, <1>11, <1>12, <1>13, <1>15, <1>16, <1>17,
             <1>19, <1>20, <1>21, <1>22, <1>23, <1>24, <1>25, <1>26 DEF Next, Step, HostStep

-----------------------------------------------------------------------------
(* What one call builds.  resolve_node() brings every prerequisite up to     *)
(* date before it lets resolve() run on the key, so that resolve() compiles  *)
(* that key and finds the rest; without resolve_node() a key is compiled     *)
(* when it is not trusted, and is trusted from then on.                      *)

\* A frame and the one it has called.
Links(f, g) ==
    \/ f.fn = "resolve" /\ f.phase = "deps" /\ g.fn = "resolve" /\ g.key \in deps[f.key]
    \/ f.fn = "node" /\ f.phase = "deps" /\ g.fn = "node"
    \/ f.fn = "node" /\ f.phase = "build" /\ g.fn = "resolve" /\ g.key = f.key

Linked ==
    /\ \A i \in 1 .. Depth : stack[i].phase = "deps" => stack[i].todo \subseteq deps[stack[i].key]
    /\ \A i \in 1 .. Depth : stack[i].fn = "resolve" => stack[i].phase # "build"
    /\ \A i \in 1 .. Depth - 1 : Links(stack[i], stack[i + 1])

\* A key that resolve() is about to compile is not trusted before it is compiled.
Dark ==
    /\ compiled \subseteq Assets
    /\ \A i \in 1 .. Depth : stack[i].fn = "resolve" /\ stack[i].phase = "deps" =>
           stack[i].key \in Assets /\ ~Trusted(stack[i].key)

\* A call with a policy goes through resolve_node(), any other straight to resolve().
OwnFrames ==
    /\ call.policy = "none" <=> call.op \in {"idle", "sweep", "resolve", "resolve_all"}
    /\ Depth > 0 => (stack[1].fn = "node" <=> call.policy # "none")

BuiltTrusted == \A k \in call.built : Trusted(k)
ResolvedTrusted == \A k \in call.resolved : Trusted(k)
JustBuilt(k) == In("node", "build") /\ ~failed /\ Key = k

\* What resolve_node() has done with.
Visited(i, p) ==
    \/ p \in call.resolved
    \/ stack[i].phase = "deps" /\ i < Depth /\ stack[i + 1].key = p
    \/ stack[i].phase = "deps" /\ i = Depth /\ failed

NodesVisit ==
    \A i \in 1 .. Depth : stack[i].fn = "node" =>
        /\ stack[i].phase = "deps" =>
              \A p \in (deps[stack[i].key] \ stack[i].todo) \cap Assets : Visited(i, p)
        /\ stack[i].phase = "build" => deps[stack[i].key] \cap Assets \subseteq call.resolved

\* Through resolve_node(), resolve() compiles the key it was called for and no other.
OneCompile ==
    call.policy # "none" =>
        /\ \A i \in 1 .. Depth : stack[i].fn = "resolve" /\ stack[i].phase = "deps" =>
              i > 1 /\ stack[i - 1].fn = "node"
        /\ \A k \in call.built : k \in call.resolved \/ JustBuilt(k)
        /\ In("node", "build") /\ ~failed => Trusted(Key)

ForcedAnew ==
    Forced =>
        /\ call.resolved \subseteq call.built
        /\ \A i \in 1 .. Depth : stack[i].fn = "node" /\ stack[i].phase # "enter" =>
              (Trusted(stack[i].key) => stack[i].key \in call.built)

Once ==
    /\ Linked /\ Dark /\ OwnFrames /\ BuiltTrusted /\ ResolvedTrusted
    /\ NodesVisit /\ OneCompile /\ ForcedAnew

\* Below a frame of resolve_node() that is on top, every frame is one that
\* waits for its prerequisites.
LEMMA NodesBelow ==
    ASSUME TypeOK, Recursion, Linked, Depth > 0, Top.fn = "node"
    PROVE  \A i \in 1 .. Depth - 1 : stack[i].fn = "node" /\ stack[i].phase = "deps"
  <1>1. Depth \in Nat BY StackType
  <1>2. \A i \in 1 .. Depth : stack[i].fn # "resolve" BY NodeOnTop
  <1> SUFFICES ASSUME NEW i \in 1 .. Depth - 1
               PROVE  stack[i].fn = "node" /\ stack[i].phase = "deps"
      OBVIOUS
  <1>3. i \in 1 .. Depth /\ i + 1 \in 1 .. Depth BY <1>1
  <1>4. Links(stack[i], stack[i + 1]) BY DEF Linked
  <1>5. stack[i].fn # "resolve" /\ stack[i + 1].fn # "resolve" BY <1>2, <1>3
  <1> QED BY <1>4, <1>5 DEF Links

\* What a frame of resolve() on top was called by.
LEMMA ResolveBelow ==
    ASSUME TypeOK, Linked, Depth > 1, Top.fn = "resolve"
    PROVE  /\ Depth - 1 \in 1 .. Depth /\ Depth - 1 \in 1 .. Depth - 1
           /\ stack[Depth - 1].fn = "resolve" => Key \in deps[stack[Depth - 1].key]
           /\ stack[Depth - 1].fn = "resolve" => stack[Depth - 1].phase = "deps"
           /\ stack[Depth - 1].fn = "node" => stack[Depth - 1].phase = "build"
           /\ stack[Depth - 1].fn = "node" => Key = stack[Depth - 1].key
  <1>1. Depth \in Nat BY StackType
  <1>2. Depth - 1 \in 1 .. Depth /\ Depth - 1 \in 1 .. Depth - 1 BY <1>1
  <1>3. Links(stack[Depth - 1], stack[Depth]) BY <1>1, <1>2 DEF Linked
  <1> QED BY <1>2, <1>3 DEF Links, Top, Key

\* A frame of resolve_node() on top: the call has a policy.
LEMMA NodeMeansPolicy ==
    ASSUME TypeOK, Recursion, Linked, OwnFrames, Depth > 0, Top.fn = "node"
    PROVE  stack[1].fn = "node" /\ call.policy # "none"
  <1>1. Depth \in Nat BY StackType
  <1>2. stack[1].fn = "node"
    <2>1. CASE Depth = 1 BY <2>1 DEF Top
    <2>2. CASE Depth # 1
      <3>1. 1 \in 1 .. Depth - 1 BY <1>1, <2>2
      <3> QED BY <3>1, NodesBelow
    <2> QED BY <2>1, <2>2
  <1> QED BY <1>2 DEF OwnFrames

-----------------------------------------------------------------------------
(* The frames stay linked, whatever is done to the stack. *)

LEMMA LinkedPop ==
    ASSUME TypeOK, Linked, Depth > 0, NEW bad \in BOOLEAN, Return(bad), UNCHANGED deps
    PROVE  Linked'
  <1>1. /\ Depth \in Nat /\ Depth' = Depth - 1
        /\ \A i \in 1 .. Depth - 1 : stack'[i] = stack[i]
        BY Popped, StackType DEF Depth
  <1>2. \A i \in 1 .. Depth - 1 : i \in 1 .. Depth BY <1>1
  <1>3. \A i \in 1 .. Depth - 1 - 1 : i \in 1 .. Depth - 1 /\ i + 1 \in 1 .. Depth - 1 BY <1>1
  <1> QED BY <1>1, <1>2, <1>3 DEF Linked, Links

\* The frame on top is written anew, with the same function and key.
LEMMA LinkedTurn ==
    ASSUME TypeOK, Linked, Depth > 0, AwaitDeps, UNCHANGED deps
    PROVE  Linked'
  <1>1. /\ Depth \in Nat /\ Depth' = Depth /\ Top \in Frames
        /\ \A i \in 1 .. Depth - 1 : stack'[i] = stack[i]
        /\ stack'[Depth] = [Top EXCEPT !.phase = "deps", !.todo = deps[Key]]
        BY Awaiting, StackType DEF Depth
  <1>2. /\ stack'[Depth].fn = stack[Depth].fn /\ stack'[Depth].key = stack[Depth].key
        /\ stack'[Depth].phase = "deps" /\ stack'[Depth].todo = deps[stack[Depth].key]
        BY <1>1 DEF Frames, Top, Key
  <1>3. ASSUME NEW i \in 1 .. Depth
        PROVE  /\ stack'[i].phase = "deps" => stack'[i].todo \subseteq deps[stack'[i].key]
               /\ stack'[i].fn = "resolve" => stack'[i].phase # "build"
    <2>1. CASE i = Depth BY <1>2, <2>1
    <2>2. CASE i # Depth
      <3>1. i \in 1 .. Depth - 1 BY <1>1, <2>2
      <3> QED BY <1>1, <3>1 DEF Linked
    <2> QED BY <2>1, <2>2
  <1>4. ASSUME NEW i \in 1 .. Depth - 1
        PROVE  Links(stack'[i], stack'[i + 1])
    <2>1. Links(stack[i], stack[i + 1]) /\ stack'[i] = stack[i] BY <1>1 DEF Linked
    <2>2. stack'[i + 1].fn = stack[i + 1].fn /\ stack'[i + 1].key = stack[i + 1].key
      <3>1. CASE i + 1 = Depth BY <1>2, <3>1
      <3>2. CASE i + 1 # Depth
        <4>1. i + 1 \in 1 .. Depth - 1 BY <1>1, <3>2
        <4> QED BY <1>1, <4>1
      <3> QED BY <3>1, <3>2
    <2> QED BY <2>1, <2>2 DEF Links
  <1> QED BY <1>1, <1>3, <1>4 DEF Linked, Links

\* A frame above it: linked to the new frame on top of it.
LEMMA LinkedPush ==
    ASSUME TypeOK, Linked, Depth > 0, UNCHANGED deps,
           NEW frame \in Frames, NEW fn \in {"resolve", "node"}, NEW k \in Keys,
           stack' = Append(Retop(frame), Frame(fn, k)),
           frame.fn = Top.fn, frame.key = Key, Links(frame, Frame(fn, k)),
           frame.phase = "deps" => frame.todo \subseteq deps[Key]
    PROVE  Linked'
  <1>1. /\ Depth \in Nat /\ Depth' = Depth + 1
        /\ \A i \in 1 .. Depth - 1 : stack'[i] = stack[i]
        /\ stack'[Depth] = frame /\ stack'[Depth + 1] = Frame(fn, k)
        BY Pushed, StackType DEF Depth
  <1>2. stack'[Depth].fn = stack[Depth].fn /\ stack'[Depth].key = stack[Depth].key
        BY <1>1 DEF Top, Key
  <1>0. Frame(fn, k).phase = "enter" BY DEF Frame
  <1>5. stack'[Depth + 1].phase = "enter" BY <1>0, <1>1
  <1>3. ASSUME NEW i \in 1 .. Depth + 1
        PROVE  /\ stack'[i].phase = "deps" => stack'[i].todo \subseteq deps[stack'[i].key]
               /\ stack'[i].fn = "resolve" => stack'[i].phase # "build"
    <2>1. CASE i = Depth + 1 BY <1>5, <2>1
    <2>2. CASE i = Depth BY <1>1, <2>2 DEF Links
    <2>3. CASE i # Depth /\ i # Depth + 1
      <3>1. i \in 1 .. Depth - 1 /\ i \in 1 .. Depth BY <1>1, <2>3
      <3> QED BY <1>1, <3>1 DEF Linked
    <2> QED BY <2>1, <2>2, <2>3
  <1>4. ASSUME NEW i \in 1 .. Depth
        PROVE  Links(stack'[i], stack'[i + 1])
    <2>1. CASE i = Depth BY <1>1, <2>1
    <2>2. CASE i # Depth
      <3>1. i \in 1 .. Depth - 1 BY <1>1, <2>2
      <3>2. Links(stack[i], stack[i + 1]) /\ stack'[i] = stack[i] BY <1>1, <3>1 DEF Linked
      <3>3. stack'[i + 1].fn = stack[i + 1].fn /\ stack'[i + 1].key = stack[i + 1].key
        <4>1. CASE i + 1 = Depth BY <1>2, <4>1
        <4>2. CASE i + 1 # Depth
          <5>1. i + 1 \in 1 .. Depth - 1 BY <1>1, <3>1, <4>2
          <5> QED BY <1>1, <5>1
        <4> QED BY <4>1, <4>2
      <3> QED BY <3>2, <3>3 DEF Links
    <2> QED BY <2>1, <2>2
  <1>6. \A i \in 1 .. Depth : Links(stack[i], stack[i + 1])' BY <1>4 DEF Links
  <1>7. Depth' - 1 = Depth BY <1>1
  <1> QED BY <1>1, <1>3, <1>6, <1>7 DEF Linked

-----------------------------------------------------------------------------
(* What one call has built, operation by operation of the stack. *)

\* With no frame left only the sets of the call matter.
LEMMA OnceEmpty ==
    ASSUME stack' = <<>>, compiled' \subseteq Assets, BuiltTrusted', ResolvedTrusted',
           (call.policy = "none" <=> call.op \in {"idle", "sweep", "resolve", "resolve_all"})',
           (call.policy # "none" => call.built \subseteq call.resolved)',
           (Forced => call.resolved \subseteq call.built)'
    PROVE  Once'
  <1>1. Depth' = 0 BY DEF Depth
  <1>2. Linked' /\ Dark' /\ OwnFrames' /\ NodesVisit' BY <1>1 DEF Linked, Dark, OwnFrames, NodesVisit
  <1>3. OneCompile' BY <1>1 DEF OneCompile, In
  <1>4. ForcedAnew' BY <1>1 DEF ForcedAnew
  <1> QED BY <1>2, <1>3, <1>4 DEF Once

\* A frame of resolve() returns.  It is only the one that compiled that
\* trusts a key more than before, and no frame below waits for that key.
LEMMA OnceResolvePop ==
    ASSUME TypeOK, Once, Depth > 0, Top.fn = "resolve",
           NEW bad \in BOOLEAN, Return(bad), UNCHANGED deps,
           call'.op = call.op, call'.policy = call.policy, call'.resolved = call.resolved,
           compiled' \subseteq Assets, TrustKept, BuiltTrusted',
           \A k : Trusted(k)' => Trusted(k) \/ k \in call'.built,
           call.built \subseteq call'.built,
           call'.built # call.built => Top.phase = "deps" /\ ~bad /\ call'.built = call.built \cup {Key},
           \A i \in 1 .. Depth - 1, k \in Keys :
               stack[i].fn = "resolve" /\ k = stack[i].key /\ Trusted(k)' => Trusted(k),
           bad \/ (cache'[Key] = "ours" /\ Key \in compiled')
    PROVE  Once'
  <1>1. /\ Depth \in Nat /\ Depth' = Depth - 1 /\ failed' = bad
        /\ \A i \in 1 .. Depth - 1 : stack'[i] = stack[i]
        BY Popped, StackType DEF Depth
  <1>2. \A i \in 1 .. Depth - 1 : i \in 1 .. Depth BY <1>1
  <1>3. Linked' BY LinkedPop DEF Once
  <1>4. Dark'
    <2> SUFFICES ASSUME NEW i \in 1 .. Depth - 1, stack'[i].fn = "resolve", stack'[i].phase = "deps",
                        NEW k, k = stack'[i].key
                 PROVE  k \in Assets /\ ~Trusted(k)'
        BY <1>1 DEF Dark, Trusted
    <2> QED BY <1>1, <1>2, KeySets DEF Once, Dark
  <1>5. OwnFrames' BY <1>1 DEF Once, OwnFrames
  <1>6. ResolvedTrusted' BY DEF Once, ResolvedTrusted, TrustKept
  <1>7. ASSUME Depth' > 0
        PROVE  /\ Depth - 1 \in 1 .. Depth - 1 /\ stack'[Depth - 1] = stack[Depth - 1]
               /\ Top' = stack[Depth - 1] /\ Key' = stack[Depth - 1].key
    <2>1. Depth - 1 \in 1 .. Depth - 1 BY <1>1, <1>7
    <2> QED BY <1>1, <2>1 DEF Top, Key
  <1>8. Depth > 1 /\ stack[Depth - 1].fn = "node" =>
            stack[Depth - 1].phase = "build" /\ Key = stack[Depth - 1].key
        BY ResolveBelow DEF Once
  <1>9. NodesVisit'
    <2> SUFFICES ASSUME NEW i \in 1 .. Depth - 1, stack'[i].fn = "node"
                 PROVE  /\ stack'[i].phase = "deps" =>
                              \A p \in (deps[stack'[i].key] \ stack'[i].todo) \cap Assets : Visited(i, p)'
                        /\ stack'[i].phase = "build" => deps[stack'[i].key] \cap Assets \subseteq call'.resolved
        BY <1>1 DEF NodesVisit
    <2>1. i \in 1 .. Depth /\ stack'[i] = stack[i] BY <1>1
    <2>2. stack[i].phase = "deps" => i # Depth - 1 BY <1>1, <1>8, <2>1
    <2>3. stack[i].phase = "deps" => i + 1 \in 1 .. Depth - 1 BY <1>1, <2>2
    <2>4. ASSUME stack[i].phase = "deps", NEW p \in (deps[stack[i].key] \ stack[i].todo) \cap Assets
          PROVE  Visited(i, p)'
      <3>1. Visited(i, p) BY <2>1, <2>4 DEF Once, NodesVisit
      <3>2. stack'[i + 1] = stack[i + 1] /\ i < Depth' BY <1>1, <2>3, <2>4
      <3> QED BY <1>1, <2>1, <3>1, <3>2 DEF Visited
    <2> QED BY <2>1, <2>4 DEF Once, NodesVisit
  <1>10. OneCompile'
    <2> SUFFICES ASSUME call.policy # "none" PROVE OneCompile'
        BY DEF OneCompile
    <2>1. ASSUME NEW i \in 1 .. Depth - 1, stack'[i].fn = "resolve", stack'[i].phase = "deps"
          PROVE  i > 1 /\ stack'[i - 1].fn = "node"
      <3>1. i > 1 /\ stack[i - 1].fn = "node" BY <1>1, <1>2, <2>1 DEF Once, OneCompile
      <3>2. i - 1 \in 1 .. Depth - 1 BY <1>1, <3>1
      <3> QED BY <1>1, <3>1, <3>2
    <2>2. \A k \in call.built : k \in call.resolved BY DEF Once, OneCompile, JustBuilt, In
    <2>3. ASSUME Top.phase = "deps", ~bad, NEW k, k = Key PROVE JustBuilt(k)'
      <3>1. Depth \in 1 .. Depth BY <1>1
      <3>2. Depth > 1 /\ stack[Depth - 1].fn = "node" BY <2>3, <3>1 DEF Once, OneCompile, Top
      <3> QED BY <1>1, <1>7, <1>8, <2>3, <3>2 DEF JustBuilt, In
    <2>4. ASSUME NEW k \in call'.built PROVE k \in call'.resolved \/ JustBuilt(k)'
      <3>1. CASE k \in call.built BY <2>2, <3>1
      <3>2. CASE k \notin call.built
        <4>1. k = Key /\ Top.phase = "deps" /\ ~bad BY <2>4, <3>2
        <4> QED BY <2>3, <4>1
      <3> QED BY <3>1, <3>2
    <2>5. ASSUME In("node", "build")', ~failed' PROVE Trusted(Key)'
      <3>1. Depth' > 0 /\ stack[Depth - 1].fn = "node" /\ Key' = stack[Depth - 1].key
            BY <1>7, <2>5 DEF In
      <3>2. Key' = Key BY <1>1, <1>8, <3>1
      <3> QED BY <1>1, <2>5, <3>2 DEF Trusted
    <2> QED BY <1>1, <2>1, <2>4, <2>5 DEF OneCompile
  <1>11. ForcedAnew' BY <1>1, <1>2 DEF Once, ForcedAnew, Forced
  <1> QED BY <1>3, <1>4, <1>5, <1>6, <1>9, <1>10, <1>11 DEF Once

\* A frame of resolve_node() returns: nothing was built, and what is now
\* trusted is only what was loaded, never under ForceRecompile.
LEMMA OnceNodePop ==
    ASSUME TypeOK, Recursion, Once, Depth > 0, Top.fn = "node",
           NEW bad \in BOOLEAN, Return(bad), UNCHANGED deps,
           call'.op = call.op, call'.policy = call.policy, call'.built = call.built,
           compiled' \subseteq Assets, TrustKept,
           \A k : Trusted(k)' /\ Forced => Trusted(k),
           call'.resolved # call.resolved => /\ call'.resolved = call.resolved \cup {Key}
                                             /\ cache'[Key] = "ours" /\ Key \in compiled'
                                             /\ Forced => Key \in call.built,
           bad \/ Key \in call'.resolved \/ Key \notin Assets,
           \A k : JustBuilt(k) => k \in call'.resolved
    PROVE  Once'
  <1>1. /\ Depth \in Nat /\ Depth' = Depth - 1 /\ failed' = bad
        /\ \A i \in 1 .. Depth - 1 : stack'[i] = stack[i]
        BY Popped, StackType DEF Depth
  <1>2. \A i \in 1 .. Depth - 1 : i \in 1 .. Depth BY <1>1
  <1>3. \A i \in 1 .. Depth - 1 : stack'[i].fn = "node" /\ stack'[i].phase = "deps"
        BY <1>1, NodesBelow DEF Once
  <1>4. Linked' BY LinkedPop DEF Once
  <1>5. Dark' BY <1>1, <1>3 DEF Dark
  <1>6. OwnFrames' BY <1>1 DEF Once, OwnFrames
  <1>7. call.policy # "none" BY NodeMeansPolicy DEF Once
  <1>8. call.resolved \subseteq call'.resolved OBVIOUS
  <1>9. BuiltTrusted' BY DEF Once, BuiltTrusted, TrustKept
  <1>10. ResolvedTrusted'
    <2> SUFFICES ASSUME NEW k \in call'.resolved PROVE Trusted(k)'
        BY DEF ResolvedTrusted
    <2>1. CASE k \in call.resolved BY <2>1 DEF Once, ResolvedTrusted, TrustKept
    <2>2. CASE k \notin call.resolved BY <2>2 DEF Trusted
    <2> QED BY <2>1, <2>2
  <1>11. NodesVisit'
    <2> SUFFICES ASSUME NEW i \in 1 .. Depth - 1,
                        NEW p \in (deps[stack[i].key] \ stack[i].todo) \cap Assets
                 PROVE  Visited(i, p)'
        BY <1>1, <1>3 DEF NodesVisit
    <2>1. i \in 1 .. Depth /\ i < Depth /\ stack[i].phase = "deps" /\ stack[i].fn = "node"
          BY <1>1, <1>3
    <2>2. p \in call.resolved \/ stack[i + 1].key = p
          BY <1>1, <2>1 DEF Once, NodesVisit, Visited
    <2>3. CASE p \in call.resolved BY <1>8, <2>3 DEF Visited
    <2>4. CASE stack[i + 1].key = p /\ i = Depth - 1
      <3>1. p = Key BY <1>1, <2>4 DEF Key, Top
      <3> QED BY <1>1, <2>1, <2>4, <3>1 DEF Visited
    <2>5. CASE stack[i + 1].key = p /\ i # Depth - 1
      <3>1. i + 1 \in 1 .. Depth - 1 BY <1>1, <2>5
      <3> QED BY <1>1, <2>1, <2>5, <3>1 DEF Visited
    <2> QED BY <2>2, <2>3, <2>4, <2>5
  <1>12. OneCompile'
    <2>1. ~In("node", "build")'
      <3>1. Depth' > 0 => Depth - 1 \in 1 .. Depth - 1 BY <1>1
      <3> QED BY <1>1, <1>3, <3>1 DEF In, Top
    <2>2. \A k \in call.built : k \in call'.resolved BY <1>7, <1>8 DEF Once, OneCompile
    <2> QED BY <1>1, <1>3, <2>1, <2>2 DEF OneCompile
  <1>13. ForcedAnew'
    <2> SUFFICES ASSUME Forced PROVE ForcedAnew'
        BY DEF ForcedAnew, Forced
    <2>1. call'.resolved \subseteq call'.built BY DEF Once, ForcedAnew
    <2>2. ASSUME NEW i \in 1 .. Depth - 1, NEW k, k = stack[i].key, Trusted(k)' PROVE k \in call.built
          BY <1>1, <1>2, <1>3, <2>2 DEF Once, ForcedAnew
    <2> QED BY <1>1, <2>1, <2>2 DEF ForcedAnew, Trusted
  <1> QED BY <1>4, <1>5, <1>6, <1>9, <1>10, <1>11, <1>12, <1>13 DEF Once

\* A frame turns to its prerequisites.  Trust is only lost, and not that of a
\* key which the call has resolved or built.
LEMMA OnceAwait ==
    ASSUME TypeOK, Recursion, Once, Depth > 0, Top.phase = "enter",
           AwaitDeps, UNCHANGED <<deps, call>>, compiled' \subseteq Assets,
           \A k : Trusted(k)' => Trusted(k),
           \A k \in call.built \cup call.resolved : Trusted(k) => Trusted(k)',
           Top.fn = "resolve" => Key \in Assets /\ ~Trusted(Key),
           Top.fn = "node" /\ Forced => cache'[Key] # "ours" \/ Key \notin compiled'
    PROVE  Once'
  <1>1. /\ Depth \in Nat /\ Depth' = Depth /\ Top \in Frames /\ failed' = failed
        /\ \A i \in 1 .. Depth - 1 : stack'[i] = stack[i]
        /\ stack'[Depth] = [Top EXCEPT !.phase = "deps", !.todo = deps[Key]]
        BY Awaiting, StackType DEF Depth
  <1>2. /\ stack'[Depth].fn = stack[Depth].fn /\ stack'[Depth].key = stack[Depth].key
        /\ stack'[Depth].phase = "deps" /\ stack'[Depth].todo = deps[stack[Depth].key]
        /\ Depth \in 1 .. Depth /\ 1 \in 1 .. Depth
        BY <1>1 DEF Frames, Top, Key
  <1>3. \A i \in 1 .. Depth : i # Depth => i \in 1 .. Depth - 1 BY <1>1
  <1>4. \A i \in 1 .. Depth : stack'[i].fn = stack[i].fn /\ stack'[i].key = stack[i].key
        BY <1>1, <1>2, <1>3
  <1>5. Linked' BY LinkedTurn DEF Once
  <1>6. Dark'
    <2> SUFFICES ASSUME NEW i \in 1 .. Depth, stack'[i].fn = "resolve", stack'[i].phase = "deps",
                        NEW k, k = stack[i].key
                 PROVE  k \in Assets /\ ~Trusted(k)
        BY <1>1, <1>4 DEF Dark, Trusted
    <2>1. CASE i = Depth BY <1>4, <2>1 DEF Top, Key
    <2>2. CASE i # Depth BY <1>1, <1>3, <2>2 DEF Once, Dark
    <2> QED BY <2>1, <2>2
  <1>7. OwnFrames' BY <1>1, <1>2, <1>4 DEF Once, OwnFrames
  <1>8. BuiltTrusted' /\ ResolvedTrusted' BY DEF Once, BuiltTrusted, ResolvedTrusted
  <1>9. NodesVisit'
    <2> SUFFICES ASSUME NEW i \in 1 .. Depth, stack'[i].fn = "node"
                 PROVE  /\ stack'[i].phase = "deps" =>
                              \A p \in (deps[stack'[i].key] \ stack'[i].todo) \cap Assets : Visited(i, p)'
                        /\ stack'[i].phase = "build" => deps[stack'[i].key] \cap Assets \subseteq call.resolved
        BY <1>1 DEF NodesVisit
    <2>1. CASE i = Depth BY <1>2, <2>1
    <2>2. CASE i # Depth
      <3>1. i \in 1 .. Depth - 1 /\ i + 1 \in 1 .. Depth /\ stack'[i] = stack[i] BY <1>1, <1>3, <2>2
      <3> QED BY <1>1, <1>4, <3>1 DEF Once, NodesVisit, Visited
    <2> QED BY <2>1, <2>2
  <1>10. OneCompile'
    <2> SUFFICES ASSUME call.policy # "none" PROVE OneCompile'
        BY DEF OneCompile
    <2>1. ~In("node", "build") /\ ~In("node", "build")' BY <1>1, <1>2 DEF In, Top
    <2>2. ASSUME NEW i \in 1 .. Depth, stack'[i].fn = "resolve", stack'[i].phase = "deps"
          PROVE  i > 1 /\ stack'[i - 1].fn = "node"
      <3>1. CASE i # Depth
        <4>1. i \in 1 .. Depth - 1 /\ stack'[i] = stack[i] BY <1>1, <1>3, <3>1
        <4>2. i > 1 /\ stack[i - 1].fn = "node" BY <2>2, <4>1 DEF Once, OneCompile
        <4>3. i - 1 \in 1 .. Depth BY <1>1, <4>2
        <4> QED BY <1>4, <4>2, <4>3
      <3>2. CASE i = Depth
        <4>1. Top.fn = "resolve" /\ stack[1].fn = "node"
              BY <1>1, <1>4, <2>2, <3>2 DEF Top, Once, OwnFrames
        <4>2. Depth > 1 BY <1>1, <4>1 DEF Top
        <4>3. Depth - 1 \in 1 .. Depth /\ stack[Depth - 1].fn \in {"resolve", "node"}
          <5>1. Depth - 1 \in 1 .. Len(stack) BY <1>1, <4>2 DEF Depth
          <5>2. stack[Depth - 1] \in Frames BY <5>1, StackType
          <5> QED BY <1>1, <4>2, <5>2 DEF Frames
        <4>4. stack[Depth - 1].fn # "resolve"
          <5> SUFFICES ASSUME stack[Depth - 1].fn = "resolve" PROVE FALSE
              OBVIOUS
          <5>1. Key \in deps[stack[Depth - 1].key] /\ stack[Depth - 1].phase = "deps"
                BY <4>1, <4>2, ResolveBelow DEF Once
          <5>2. Depth - 1 > 1 /\ stack[Depth - 1 - 1].fn = "node"
                BY <4>3, <5>1 DEF Once, OneCompile
          <5>3. Depth - 1 - 1 \in 1 .. Depth /\ Depth - 1 - 1 \in 1 .. Depth - 1 BY <1>1, <5>2
          <5>4. Links(stack[Depth - 1 - 1], stack[Depth - 1])
            <6>1. Depth - 1 - 1 + 1 = Depth - 1 BY <1>1
            <6> QED BY <5>3, <6>1 DEF Once, Linked
          <5>5. stack[Depth - 1 - 1].phase = "build" /\ stack[Depth - 1].key = stack[Depth - 1 - 1].key
                BY <5>2, <5>4 DEF Links
          <5>6. deps[stack[Depth - 1].key] \cap Assets \subseteq call.resolved
                BY <5>2, <5>3, <5>5 DEF Once, NodesVisit
          <5> QED BY <4>1, <5>1, <5>6 DEF Once, ResolvedTrusted
        <4> QED BY <1>4, <3>2, <4>2, <4>3, <4>4
      <3> QED BY <3>1, <3>2
    <2>3. \A k \in call.built : k \in call.resolved BY <2>1 DEF Once, OneCompile, JustBuilt
    <2> QED BY <1>1, <2>1, <2>2, <2>3 DEF OneCompile
  <1>11. ForcedAnew'
    <2> SUFFICES ASSUME Forced PROVE ForcedAnew'
        BY DEF ForcedAnew, Forced
    <2>1. ASSUME NEW i \in 1 .. Depth, stack[i].fn = "node", stack'[i].phase # "enter",
                 NEW k, k = stack[i].key, Trusted(k)'
          PROVE  k \in call.built
      <3>1. CASE i = Depth BY <2>1, <3>1 DEF Top, Key, Trusted
      <3>2. CASE i # Depth BY <1>1, <1>3, <2>1, <3>2 DEF Once, ForcedAnew
      <3> QED BY <3>1, <3>2
    <2> QED BY <1>1, <1>4, <2>1 DEF Once, ForcedAnew, Trusted
  <1> QED BY <1>5, <1>6, <1>7, <1>8, <1>9, <1>10, <1>11 DEF Once

\* A frame calls another: the tables and the sets of the call are as before.
LEMMA OnceVisit ==
    ASSUME TypeOK, Recursion, Once, VisitDep
    PROVE  Once'
  <1>1. PICK p \in Top.todo : CallInto(p) BY DEF VisitDep
  <1>2. /\ Depth > 0 /\ Depth \in Nat /\ Top \in Frames /\ Top.phase = "deps" /\ ~failed
        /\ Depth \in 1 .. Depth
        BY StackType DEF VisitDep
  <1>3. p \in Keys /\ Top.fn \in {"resolve", "node"} BY <1>1, <1>2 DEF Frames
  <1>4. p \in deps[Key] /\ Top.todo \subseteq deps[Key] BY <1>1, <1>2 DEF Once, Linked, Top, Key
  <1> DEFINE frame == [Top EXCEPT !.todo = @ \ {p}]
  <1>5. /\ frame \in Frames /\ frame.fn = Top.fn /\ frame.key = Key /\ frame.phase = "deps"
        /\ frame.todo = Top.todo \ {p}
        BY <1>2 DEF Frames, Key
  <1>6. Frame(Top.fn, p).fn = Top.fn /\ Frame(Top.fn, p).key = p /\ Frame(Top.fn, p).phase = "enter"
        BY DEF Frame
  <1>7. stack' = Append(Retop(frame), Frame(Top.fn, p)) /\ failed' = failed BY <1>1 DEF CallInto
  <1>8. UNCHANGED <<deps, cache, compiled, call>> BY DEF VisitDep, fixed, tables
  <1> HIDE DEF frame
  <1>9. /\ Depth' = Depth + 1
        /\ \A i \in 1 .. Depth - 1 : stack'[i] = stack[i]
        /\ stack'[Depth] = frame /\ stack'[Depth + 1] = Frame(Top.fn, p)
        BY <1>2, <1>3, <1>5, <1>7, Pushed DEF Depth
  <1>10. Links(frame, Frame(Top.fn, p)) BY <1>3, <1>4, <1>5, <1>6 DEF Links
  <1>11. Linked'
    <2>1. frame.phase = "deps" => frame.todo \subseteq deps[Key] BY <1>4, <1>5
    <2> QED BY <1>2, <1>3, <1>5, <1>7, <1>8, <1>10, <2>1, LinkedPush DEF Once
  <1>12. ASSUME NEW i \in 1 .. Depth
         PROVE  /\ stack'[i].fn = stack[i].fn /\ stack'[i].key = stack[i].key
                /\ stack'[i].phase = stack[i].phase
    <2>1. CASE i = Depth BY <1>2, <1>5, <1>9, <2>1 DEF Top, Key
    <2>2. CASE i # Depth
      <3>1. i \in 1 .. Depth - 1 BY <1>2, <2>2
      <3> QED BY <1>9, <3>1
    <2> QED BY <2>1, <2>2
  <1>13. stack'[Depth + 1].phase = "enter" /\ stack'[Depth + 1].key = p BY <1>6, <1>9
  <1>14. \A i \in 1 .. Depth + 1 : i # Depth + 1 => i \in 1 .. Depth BY <1>2
  <1>15. Dark' BY <1>8, <1>9, <1>12, <1>13, <1>14 DEF Once, Dark, Trusted
  <1>16. OwnFrames'
    <2>1. 1 \in 1 .. Depth BY <1>2
    <2> QED BY <1>2, <1>8, <1>12, <2>1 DEF Once, OwnFrames
  <1>17. BuiltTrusted' /\ ResolvedTrusted'
         BY <1>8 DEF Once, BuiltTrusted, ResolvedTrusted, Trusted
  <1>18. NodesVisit'
    <2> SUFFICES ASSUME NEW i \in 1 .. Depth + 1, stack'[i].fn = "node"
                 PROVE  /\ stack'[i].phase = "deps" =>
                              \A q \in (deps[stack'[i].key] \ stack'[i].todo) \cap Assets : Visited(i, q)'
                        /\ stack'[i].phase = "build" => deps[stack'[i].key] \cap Assets \subseteq call.resolved
        BY <1>8, <1>9 DEF NodesVisit
    <2>1. CASE i = Depth + 1 BY <1>13, <2>1
    <2>2. CASE i = Depth
      <3> SUFFICES ASSUME NEW q \in (deps[stack'[i].key] \ stack'[i].todo) \cap Assets
                   PROVE  Visited(i, q)'
          BY <1>2, <1>12, <2>2 DEF Top
      <3>1. q = p \/ q \in (deps[stack[i].key] \ stack[i].todo) \cap Assets
            BY <1>2, <1>5, <1>9, <1>12, <2>2 DEF Top, Key
      <3>2. CASE q = p BY <1>2, <1>5, <1>9, <1>13, <2>2, <3>2 DEF Visited
      <3>3. CASE q \in (deps[stack[i].key] \ stack[i].todo) \cap Assets
        <4>1. Visited(i, q) BY <1>2, <1>12, <2>2, <3>3 DEF Once, NodesVisit, Top
        <4> QED BY <1>2, <1>8, <2>2, <4>1 DEF Visited
      <3> QED BY <3>1, <3>2, <3>3
    <2>3. CASE i # Depth + 1 /\ i # Depth
      <3>1. i \in 1 .. Depth - 1 /\ i \in 1 .. Depth /\ i + 1 \in 1 .. Depth /\ stack'[i] = stack[i]
            BY <1>2, <1>9, <2>3
      <3> QED BY <1>2, <1>8, <1>9, <1>12, <3>1 DEF Once, NodesVisit, Visited
    <2> QED BY <2>1, <2>2, <2>3
  <1>19. OneCompile'
    <2> SUFFICES ASSUME call.policy # "none" PROVE OneCompile'
        BY <1>8 DEF OneCompile
    <2>1. ~In("node", "build") /\ ~In("node", "build")' BY <1>2, <1>9, <1>13 DEF In, Top
    <2>2. ASSUME NEW i \in 1 .. Depth, stack[i].fn = "resolve", stack[i].phase = "deps"
          PROVE  i > 1 /\ stack'[i - 1].fn = "node"
      <3>1. i > 1 /\ stack[i - 1].fn = "node" BY <2>2 DEF Once, OneCompile
      <3>2. i - 1 \in 1 .. Depth BY <1>2, <3>1
      <3> QED BY <1>12, <3>1, <3>2
    <2>3. \A k \in call.built : k \in call.resolved BY <2>1 DEF Once, OneCompile, JustBuilt
    <2> QED BY <1>8, <1>9, <1>12, <1>13, <1>14, <2>1, <2>2, <2>3 DEF OneCompile
  <1>20. ForcedAnew'
    <2> SUFFICES ASSUME Forced PROVE ForcedAnew'
        BY <1>8 DEF ForcedAnew, Forced
    <2> QED BY <1>8, <1>9, <1>12, <1>13, <1>14 DEF Once, ForcedAnew, Trusted
  <1> QED BY <1>11, <1>15, <1>16, <1>17, <1>18, <1>19, <1>20 DEF Once

\* resolve_node() lets resolve() run on its own key, which it has not built:
\* every prerequisite is resolved.
LEMMA OnceBuild ==
    ASSUME TypeOK, Recursion, Once, NodeBuild
    PROVE  Once'
  <1>1. /\ Depth > 0 /\ Depth \in Nat /\ Top \in Frames /\ Key \in Keys
        /\ Top.fn = "node" /\ Top.phase = "deps" /\ Top.todo = {} /\ ~failed
        /\ Depth \in 1 .. Depth /\ 1 \in 1 .. Depth
        BY StackType DEF NodeBuild, Ready, In
  <1> DEFINE frame == [Top EXCEPT !.phase = "build"]
  <1>2. /\ frame \in Frames /\ frame.fn = "node" /\ frame.key = Key /\ frame.phase = "build"
        BY <1>1 DEF Frames, Key
  <1>3. /\ Frame("resolve", Key).fn = "resolve" /\ Frame("resolve", Key).key = Key
        /\ Frame("resolve", Key).phase = "enter"
        BY DEF Frame
  <1>4. stack' = Append(Retop(frame), Frame("resolve", Key)) BY DEF NodeBuild
  <1>5. UNCHANGED <<deps, cache, compiled, call, failed>> BY DEF NodeBuild, fixed, tables
  <1> HIDE DEF frame
  <1>6. /\ Depth' = Depth + 1
        /\ \A i \in 1 .. Depth - 1 : stack'[i] = stack[i]
        /\ stack'[Depth] = frame /\ stack'[Depth + 1] = Frame("resolve", Key)
        BY <1>1, <1>2, <1>4, Pushed DEF Depth
  <1>7. Links(frame, Frame("resolve", Key)) BY <1>2, <1>3 DEF Links
  <1>8. Linked' BY <1>1, <1>2, <1>4, <1>5, <1>7, LinkedPush DEF Once
  <1>9. \A i \in 1 .. Depth - 1 : stack[i].fn = "node" /\ stack[i].phase = "deps"
        BY <1>1, NodesBelow DEF Once
  <1>10. ASSUME NEW i \in 1 .. Depth
         PROVE  stack'[i].fn = "node" /\ stack'[i].key = stack[i].key /\ stack[i].phase = "deps"
    <2>1. CASE i = Depth BY <1>1, <1>2, <1>6, <2>1 DEF Top, Key
    <2>2. CASE i # Depth
      <3>1. i \in 1 .. Depth - 1 BY <1>1, <2>2
      <3> QED BY <1>6, <1>9, <3>1
    <2> QED BY <2>1, <2>2
  <1>11. stack'[Depth + 1].phase = "enter" /\ stack'[Depth + 1].fn = "resolve" BY <1>3, <1>6
  <1>12. \A i \in 1 .. Depth + 1 : i # Depth + 1 => i \in 1 .. Depth BY <1>1
  <1>13. Dark' BY <1>5, <1>6, <1>10, <1>11, <1>12 DEF Once, Dark
  <1>14. stack[1].fn = "node" /\ stack'[1].fn = "node"
         BY <1>1, <1>10, NodeMeansPolicy DEF Once
  <1>15. OwnFrames' BY <1>1, <1>5, <1>14 DEF Once, OwnFrames
  <1>16. BuiltTrusted' /\ ResolvedTrusted'
         BY <1>5 DEF Once, BuiltTrusted, ResolvedTrusted, Trusted
  <1>17. NodesVisit'
    <2> SUFFICES ASSUME NEW i \in 1 .. Depth + 1, stack'[i].fn = "node"
                 PROVE  /\ stack'[i].phase = "deps" =>
                              \A q \in (deps[stack'[i].key] \ stack'[i].todo) \cap Assets : Visited(i, q)'
                        /\ stack'[i].phase = "build" => deps[stack'[i].key] \cap Assets \subseteq call.resolved
        BY <1>5, <1>6 DEF NodesVisit
    <2>1. CASE i = Depth + 1 BY <1>11, <2>1
    <2>2. CASE i = Depth
      <3>1. \A q \in deps[Key] \cap Assets : Visited(Depth, q)
            BY <1>1 DEF Once, NodesVisit, Top, Key
      <3>2. deps[Key] \cap Assets \subseteq call.resolved BY <1>1, <3>1 DEF Visited
      <3> QED BY <1>2, <1>6, <2>2, <3>2
    <2>3. CASE i # Depth + 1 /\ i # Depth
      <3>1. i \in 1 .. Depth - 1 /\ i \in 1 .. Depth /\ i + 1 \in 1 .. Depth /\ stack'[i] = stack[i]
            BY <1>1, <1>6, <2>3
      <3> QED BY <1>1, <1>5, <1>6, <1>10, <3>1 DEF Once, NodesVisit, Visited
    <2> QED BY <2>1, <2>2, <2>3
  <1>18. OneCompile'
    <2> SUFFICES ASSUME call.policy # "none" PROVE OneCompile'
        BY <1>5 DEF OneCompile
    <2>1. ~In("node", "build") /\ ~In("node", "build")' BY <1>1, <1>6, <1>11 DEF In, Top
    <2>2. \A k \in call.built : k \in call.resolved BY <2>1 DEF Once, OneCompile, JustBuilt
    <2> QED BY <1>5, <1>6, <1>10, <1>11, <1>12, <2>1, <2>2 DEF OneCompile
  <1>19. ForcedAnew'
    <2> SUFFICES ASSUME Forced PROVE ForcedAnew'
        BY <1>5 DEF ForcedAnew, Forced
    <2>1. \A i \in 1 .. Depth : stack[i].fn = "node" BY <1>1, <1>9, <1>12 DEF Top
    <2> QED BY <1>5, <1>6, <1>10, <1>11, <1>12, <2>1 DEF Once, ForcedAnew, Trusted
  <1> QED BY <1>8, <1>13, <1>15, <1>16, <1>17, <1>18, <1>19 DEF Once

\* Nothing but the sets of roots left to do, or the flags of the call, change.
LEMMA OnceBetween ==
    ASSUME TypeOK, Once, stack = <<>>, UNCHANGED <<stack, deps, cache, compiled>>,
           call'.op = call.op, call'.policy = call.policy,
           call'.resolved = call.resolved, call'.built = call.built
    PROVE  Once'
  <1>1. Depth = 0 BY DEF Depth
  <1>2. call.policy # "none" => call.built \subseteq call.resolved
        BY <1>1 DEF Once, OneCompile, JustBuilt, In
  <1>3. BuiltTrusted' /\ ResolvedTrusted' BY DEF Once, BuiltTrusted, ResolvedTrusted, Trusted
  <1> QED BY <1>2, <1>3, OnceEmpty DEF Once, Dark, OwnFrames, ForcedAnew, Forced

\* The first frame of a root.
LEMMA OnceRoot ==
    ASSUME TypeOK, Unwound, Once, NextRoot
    PROVE  Once'
  <1>1. Depth = 0 /\ stack = <<>> /\ call.op # "idle" BY DEF NextRoot, Between, Depth, TypeOK, Idle, Unwound
  <1>2. /\ UNCHANGED <<deps, cache, compiled, failed>>
        /\ call'.op = call.op /\ call'.policy = call.policy
        /\ call'.resolved = call.resolved /\ call'.built = call.built
        BY DEF NextRoot, fixed, tables, TypeOK, Calls
  <1>3. CASE stack' = stack BY <1>1, <1>2, <1>3, OnceBetween
  <1>4. CASE stack' # stack
    <2>1. PICK k \in call.todo : stack' = <<Frame(IF Direct THEN "resolve" ELSE "node", k)>>
          BY <1>4 DEF NextRoot
    <2>2. /\ Depth' = 1 /\ stack'[1].phase = "enter"
          /\ stack'[1].fn = IF Direct THEN "resolve" ELSE "node"
          BY <2>1 DEF Depth, Frame
    <2>3. Linked' /\ Dark' BY <1>2, <2>2 DEF Once, Linked, Dark
    <2>4. OwnFrames'
      <3>1. call.op \notin {"idle", "sweep"} BY <2>1 DEF Unwound
      <3> QED BY <1>2, <2>2, <3>1 DEF Once, OwnFrames, Direct
    <2>5. BuiltTrusted' /\ ResolvedTrusted' BY <1>2 DEF Once, BuiltTrusted, ResolvedTrusted, Trusted
    <2>6. NodesVisit' BY <2>2 DEF NodesVisit
    <2>7. OneCompile'
      <3>1. call.policy # "none" => call.built \subseteq call.resolved
            BY <1>1 DEF Once, OneCompile, JustBuilt, In
      <3>2. ~In("node", "build")' BY <2>2 DEF In, Top
      <3> QED BY <1>2, <2>2, <3>1, <3>2 DEF OneCompile
    <2>8. ForcedAnew' BY <1>2, <2>2 DEF Once, ForcedAnew, Forced
    <2> QED BY <2>3, <2>4, <2>5, <2>6, <2>7, <2>8 DEF Once
  <1> QED BY <1>3, <1>4

\* A compiler ran: no frame below waits for the same key, for it would wait
\* for an input, and the inputs are trusted.
LEMMA OnceCompile ==
    ASSUME TypeOK, Once, CompilerSeesItsInputs, Recursion, Compile
    PROVE  Once'
  <1>1. /\ Depth > 0 /\ Depth \in Nat /\ Depth \in 1 .. Depth /\ Key \in Keys
        /\ Top.fn = "resolve" /\ Top.phase = "deps" /\ Ready("resolve")
        BY StackType DEF Compile, Ready, In
  <1>2. /\ Return(FALSE) /\ UNCHANGED deps
        /\ cache'[Key] = "ours" /\ Key \in compiled'
        /\ compiled' = compiled \cup {Key}
        /\ \A k : k # Key => (Trusted(k)' <=> Trusted(k))
        BY <1>1 DEF Compile, Store, Trusted, fixed, TypeOK
  <1>3. /\ call'.op = call.op /\ call'.policy = call.policy /\ call'.resolved = call.resolved
        /\ call'.built = call.built \cup {Key}
        BY DEF Compile, TypeOK, Calls
  <1>4. Key \in Assets /\ ~Trusted(Key) BY <1>1 DEF Once, Dark, Top, Key
  <1>5. compiled' \subseteq Assets BY <1>2, <1>4 DEF Once, Dark
  <1>6. ASSUME NEW k, Trusted(k) PROVE Trusted(k)' BY <1>2, <1>4, <1>6
  <1>7. TrustKept BY <1>6 DEF TrustKept
  <1>8. ASSUME NEW k, Trusted(k)' PROVE Trusted(k) \/ k \in call'.built BY <1>2, <1>3, <1>8
  <1>9. BuiltTrusted'
    <2>1. ASSUME NEW k, k = Key PROVE Trusted(k)' BY <1>2, <2>1 DEF Trusted
    <2> QED BY <1>3, <1>6, <2>1 DEF Once, BuiltTrusted
  <1>10. ASSUME NEW i \in 1 .. Depth - 1, NEW k \in Keys,
                stack[i].fn = "resolve", k = stack[i].key, Trusted(k)'
         PROVE  Trusted(k)
    <2> SUFFICES ASSUME k = Key PROVE FALSE
        BY <1>2, <1>10
    <2>1. i \in 1 .. Depth /\ i + 1 \in 1 .. Depth /\ i < i + 1 BY <1>1
    <2>2. Links(stack[i], stack[i + 1]) /\ stack[i + 1].fn = "resolve"
          BY <1>10, <2>1 DEF Once, Linked, Recursion, ResolveCallsResolve
    <2>3. stack[i + 1].key \in deps[Key] BY <1>10, <2>2 DEF Links
    <2>4. Trusted(stack[i + 1].key) BY <1>1, <2>3 DEF CompilerSeesItsInputs, Trusted
    <2>5. stack[i + 1].phase = "deps"
      <3>1. CASE i + 1 = Depth BY <1>1, <3>1 DEF Top
      <3>2. CASE i + 1 # Depth
        <4>1. i + 1 \in 1 .. Depth - 1 BY <1>1, <3>2
        <4>2. Links(stack[i + 1], stack[i + 1 + 1]) BY <4>1 DEF Once, Linked
        <4> QED BY <2>2, <4>2 DEF Links
      <3> QED BY <3>1, <3>2
    <2> QED BY <2>1, <2>2, <2>4, <2>5 DEF Once, Dark
  <1>11. call.built \subseteq call'.built
         /\ (call'.built # call.built => Top.phase = "deps" /\ ~FALSE /\ call'.built = call.built \cup {Key})
         BY <1>1, <1>3
  <1> QED BY <1>1, <1>2, <1>3, <1>5, <1>7, <1>8, <1>9, <1>10, <1>11, OnceResolvePop

LEMMA FreshCall ==
    /\ Idle.op = "idle" /\ Idle.policy = "none" /\ Idle.built = {} /\ Idle.resolved = {}
    /\ \A op, R, p : /\ Run(op, R, p).op = op /\ Run(op, R, p).policy = p
                     /\ Run(op, R, p).built = {} /\ Run(op, R, p).resolved = {}
  BY DEF Idle, Run

\* Every action keeps what one call may build.
LEMMA OnceKept ==
    ASSUME TypeOK, Unwound, Recursion, CompilerSeesItsInputs, Once, [Next]_vars
    PROVE  Once'
  <1> USE DEF fixed, graph, tables, outside, control
  <1> DEFINE SameTables == UNCHANGED <<deps, cache, compiled>>
  <1>0. compiled \subseteq Assets BY DEF Once, Dark
  <1>1. CASE UNCHANGED vars
    <2>1. UNCHANGED <<deps, stack, failed, cache, compiled, call>> BY <1>1 DEF vars
    <2> QED BY <2>1 DEF Once, Linked, Links, Dark, OwnFrames, BuiltTrusted, ResolvedTrusted, JustBuilt,
                        Visited, NodesVisit, OneCompile, ForcedAnew, Forced, In, Depth, Top, Key, Trusted
  <1>2. CASE VisitDep BY <1>2, OnceVisit
  <1>3. CASE NodeBuild BY <1>3, OnceBuild
  <1>4. CASE Compile BY <1>4, OnceCompile
  <1>5. CASE NextRoot BY <1>5, OnceRoot
  <1>6. ASSUME Depth > 0, Top.fn = "resolve", NEW bad \in BOOLEAN, Return(bad), SameTables,
               UNCHANGED call, bad \/ Trusted(Key)
        PROVE  Once'
    <2>1. TrustKept /\ BuiltTrusted' BY <1>6 DEF Once, BuiltTrusted, TrustKept, Trusted
    <2>2. \A k : Trusted(k)' => Trusted(k) BY <1>6 DEF Trusted
    <2>3. bad \/ (cache'[Key] = "ours" /\ Key \in compiled') BY <1>6 DEF Trusted
    <2> QED BY <1>0, <1>6, <2>1, <2>2, <2>3, OnceResolvePop
  <1>7. ASSUME Depth > 0, Top.fn = "node", NEW bad \in BOOLEAN, Return(bad), SameTables,
               UNCHANGED call, bad \/ Key \in call.resolved \/ Key \notin Assets,
               \A k : JustBuilt(k) => k \in call.resolved
        PROVE  Once'
    <2>1. TrustKept BY <1>7 DEF TrustKept, Trusted
    <2>2. \A k : Trusted(k)' => Trusted(k) BY <1>7 DEF Trusted
    <2> QED BY <1>0, <1>7, <2>1, <2>2, OnceNodePop
  <1>8. Depth > 0 => Top.fn \in {"resolve", "node"} BY StackType DEF Frames
  <1>9. CASE DepFailed
    <2>1. Depth > 0 /\ Return(TRUE) /\ SameTables /\ UNCHANGED call /\ failed BY <1>9 DEF DepFailed
    <2> QED BY <1>6, <1>7, <1>8, <2>1 DEF JustBuilt
  <1>10. CASE ResolveRefused \/ CompileFails
    <2>1. Depth > 0 /\ Top.fn = "resolve" /\ Return(TRUE) /\ SameTables /\ UNCHANGED call
          BY <1>10 DEF ResolveRefused, CompileFails, Ready, In
    <2> QED BY <1>6, <2>1
  <1>11. CASE ResolveHit BY <1>6, <1>11 DEF ResolveHit, In
  <1>12. CASE ResolveBegin
    <2>1. Depth > 0 /\ Top.fn = "resolve" /\ Top.phase = "enter" /\ Key \in Assets /\ ~Trusted(Key)
          BY <1>12 DEF ResolveBegin, In
    <2>2. /\ \A k : Trusted(k)' => Trusted(k)
          /\ \A k \in call.built \cup call.resolved : Trusted(k) => Trusted(k)'
          /\ compiled' \subseteq Assets
          BY <1>0, <1>12, KeySets DEF ResolveBegin, Forget, Trusted, Valid, TypeOK, Calls
    <2> QED BY <1>12, <2>1, <2>2, OnceAwait DEF ResolveBegin
  <1>13. CASE NodeKnown
    <2>1. Depth > 0 /\ Top.fn = "node" /\ Top.phase = "enter" /\ Key \in call.resolved
          BY <1>13 DEF NodeKnown, In
    <2> QED BY <1>7, <1>13, <2>1 DEF NodeKnown, JustBuilt, In
  <1>14. CASE NodeHit \/ NodeLoad
    <2>1. /\ Depth > 0 /\ Top.fn = "node" /\ Top.phase = "enter" /\ Key \in Assets /\ ~Forced
          /\ Return(FALSE) /\ UNCHANGED deps /\ Resolved
          BY <1>14 DEF NodeHit, NodeLoad, Missing, Visiting, In
    <2>2. /\ call'.op = call.op /\ call'.policy = call.policy /\ call'.built = call.built
          /\ call'.resolved = call.resolved \cup {Key}
          BY <2>1 DEF Resolved, TypeOK, Calls
    <2>3. Key \in Keys BY <2>1, KeySets
    <2>4. /\ TrustKept /\ compiled' \subseteq Assets /\ cache'[Key] = "ours" /\ Key \in compiled'
          BY <1>0, <1>14, <2>1, <2>3 DEF NodeHit, NodeLoad, Store, Trusted, TrustKept, TypeOK
    <2>5. \A k : ~JustBuilt(k) BY <2>1 DEF JustBuilt, In
    <2> QED BY <2>1, <2>2, <2>4, <2>5, OnceNodePop
  <1>15. CASE NodeRefused
    <2>1. /\ Depth > 0 /\ Top.fn = "node" /\ Top.phase = "enter" /\ ~Forced /\ ~Trusted(Key)
          /\ Return(TRUE) /\ UNCHANGED <<deps, call>>
          BY <1>15 DEF NodeRefused, Missing, Visiting, In
    <2>2. TrustKept /\ compiled' \subseteq Assets
          BY <1>0, <1>15, <2>1 DEF NodeRefused, Evict, Trusted, TrustKept, TypeOK
    <2>3. \A k : ~JustBuilt(k) BY <2>1 DEF JustBuilt, In
    <2> QED BY <2>1, <2>2, <2>3, OnceNodePop
  <1>16. CASE NodeBegin
    <2>1. /\ Depth > 0 /\ Top.fn = "node" /\ Top.phase = "enter" /\ Key \in Keys
          /\ Key \notin call.resolved /\ AwaitDeps /\ UNCHANGED <<deps, call>>
          /\ Forced \/ ~Trusted(Key)
          BY <1>16, StackType DEF NodeBegin, Missing, Visiting, In
    <2>3. call.policy # "none" BY <2>1, NodeMeansPolicy DEF Once
    <2>4. Key \notin call.built BY <2>1, <2>3 DEF Once, OneCompile, JustBuilt, In
    <2>5. /\ \A k : Trusted(k)' => Trusted(k)
          /\ \A k \in Keys : k # Key => (Trusted(k) => Trusted(k)')
          /\ compiled' \subseteq Assets
          BY <1>0, <1>16, <2>1 DEF NodeBegin, Evict, Trusted, TypeOK
    <2>6. \A k \in call.built \cup call.resolved : k \in Keys /\ k # Key
          BY <2>1, <2>4 DEF TypeOK, Calls
    <2>7. Forced => Key \notin compiled' BY <1>16 DEF NodeBegin, Evict
    <2> QED BY <2>1, <2>5, <2>6, <2>7, OnceAwait
  <1>17. CASE DemandBegin
    <2>1. /\ Depth > 0 /\ Top.fn = "node" /\ Top.phase = "enter" /\ Key \notin Assets
          /\ AwaitDeps /\ SameTables /\ UNCHANGED call
          BY <1>17 DEF DemandBegin, In, Assets
    <2>2. Key \notin compiled' BY <1>0, <2>1
    <2>3. \A k : Trusted(k)' <=> Trusted(k) BY <2>1 DEF Trusted
    <2> QED BY <1>0, <2>1, <2>2, <2>3, OnceAwait
  <1>18. CASE DemandReturn
    <2>1. /\ Depth > 0 /\ Top.fn = "node" /\ Top.phase = "deps" /\ Key \notin Assets
          /\ Return(FALSE) /\ SameTables /\ UNCHANGED call
          BY <1>18 DEF DemandReturn, Ready, In, Assets
    <2> QED BY <1>7, <2>1 DEF JustBuilt, In
  <1>19. CASE NodeReturn
    <2>1. Depth > 0 /\ Top.fn = "node" /\ Top.phase = "build" /\ Return(failed) /\ SameTables
          BY <1>19 DEF NodeReturn, In
    <2>2. CASE failed
      <3>1. UNCHANGED call BY <1>19, <2>2 DEF NodeReturn
      <3> QED BY <1>7, <2>1, <2>2, <3>1 DEF JustBuilt, TypeOK
    <2>3. CASE ~failed
      <3>1. /\ call'.op = call.op /\ call'.policy = call.policy /\ call'.built = call.built
            /\ call'.resolved = call.resolved \cup {Key}
            BY <1>19, <2>3 DEF NodeReturn, Resolved, TypeOK, Calls
      <3>2. 1 \in 1 .. Depth /\ Depth \in 1 .. Depth /\ Depth \in Nat BY <2>1, StackType
      <3>3. call.policy # "none" BY <2>1, NodeMeansPolicy DEF Once
      <3>4. Trusted(Key) BY <2>1, <2>3, <3>3 DEF Once, OneCompile, In
      <3>5. Forced => Key \in call.built BY <2>1, <3>2, <3>4 DEF Once, ForcedAnew, Top, Key
      <3>6. TrustKept /\ compiled' \subseteq Assets /\ (\A k : Trusted(k)' => Trusted(k))
            BY <1>0, <2>1 DEF TrustKept, Trusted
      <3>7. cache'[Key] = "ours" /\ Key \in compiled' BY <2>1, <3>4 DEF Trusted
      <3>8. \A k : JustBuilt(k) => k \in call'.resolved BY <3>1 DEF JustBuilt
      <3>9. Return(FALSE) BY <2>1, <2>3 DEF TypeOK
      <3> QED BY <2>1, <3>1, <3>5, <3>6, <3>7, <3>8, <3>9, OnceNodePop
    <2> QED BY <2>2, <2>3
  <1>20. CASE RootFailed
    <2>1. Depth = 0 /\ UNCHANGED <<stack, deps, cache, compiled>>
          BY <1>20 DEF RootFailed, Between
    <2>2. stack = <<>> BY <2>1 DEF Depth, TypeOK
    <2>3. /\ call'.op = call.op /\ call'.policy = call.policy
          /\ call'.resolved = call.resolved /\ call'.built = call.built
          BY <1>20 DEF RootFailed, TypeOK, Calls
    <2> QED BY <2>1, <2>2, <2>3, OnceBetween
  <1>21. ASSUME stack' = <<>>, compiled' \subseteq Assets, call'.built = {}, call'.resolved = {},
                (call.policy = "none" <=> call.op \in {"idle", "sweep", "resolve", "resolve_all"})'
         PROVE  Once'
         BY <1>21, OnceEmpty DEF BuiltTrusted, ResolvedTrusted
  <1>22. CASE EndCall \/ EvictUndemanded
    <2>1. Depth = 0 /\ UNCHANGED stack /\ compiled' \subseteq Assets
          BY <1>0, <1>22 DEF EndCall, EvictUndemanded, Over, Between, Evict
    <2>2. stack' = <<>> BY <2>1 DEF Depth, TypeOK
    <2>3. call' \in {Idle, [Idle EXCEPT !.op = "sweep"]} BY <1>22 DEF EndCall, EvictUndemanded
    <2> QED BY <1>21, <2>1, <2>2, <2>3 DEF Idle
  <1>23. CASE Sweep
    <2>1. stack' = <<>> /\ compiled' \subseteq Assets
          BY <1>0, <1>23 DEF Sweep, Unwound, Evict
    <2>2. PICK R : call' \in {Idle, Run("rebind", R, "CachePreferred")} BY <1>23 DEF Sweep
    <2>3. call'.built = {} /\ call'.resolved = {} BY <2>2, FreshCall
    <2>4. call'.policy = "none" <=> call'.op \in {"idle", "sweep", "resolve", "resolve_all"}
          BY <2>2, FreshCall
    <2> QED BY <1>21, <2>1, <2>3, <2>4
  <1>24. ASSUME Host, UNCHANGED <<stack, call>>, compiled' \subseteq compiled PROVE Once'
    <2>1. stack' = <<>> /\ call' = Idle BY <1>24 DEF Host, Unwound, Idle
    <2> QED BY <1>0, <1>21, <1>24, <2>1, FreshCall
  <1>25. ASSUME Host, UNCHANGED <<stack, compiled>>, NEW op, NEW R, NEW p, call' = Run(op, R, p),
                p = "none" <=> op \in {"idle", "sweep", "resolve", "resolve_all"}
         PROVE  Once'
    <2>1. stack' = <<>> BY <1>25 DEF Host, Unwound, Idle
    <2>2. /\ call'.op = op /\ call'.policy = p /\ call'.built = {} /\ call'.resolved = {}
          BY <1>25, FreshCall
    <2> QED BY <1>0, <1>21, <1>25, <2>1, <2>2
  <1>26. CASE \E k \in Keys : Register(k) \/ Deregister(k) \/ Invalidate(k)
         BY <1>24, <1>26 DEF Register, Deregister, Invalidate
  <1>27. ASSUME NEW k, StartResolve(k) PROVE Once' BY <1>25, <1>27 DEF StartResolve
  <1>28. CASE \E k \in Assets, v \in {"stale", "foreign"} : HostWritesCache(k, v)
         BY <1>24, <1>28 DEF HostWritesCache
  <1>29. CASE Commit \/ EvictUnregistered BY <1>24, <1>29 DEF Commit, EvictUnregistered, Evict
  <1>30. CASE Restart BY <1>21, <1>30, FreshCall DEF Restart
  <1>31. CASE StartResolveAll BY <1>25, <1>31 DEF StartResolveAll
  <1>32. ASSUME NEW R, NEW p \in Policies, StartResolveRoots(R, p) PROVE Once'
         BY <1>25, <1>32 DEF StartResolveRoots, Policies
  <1>33. ASSUME NEW draft, NEW glbs, Bind(draft, glbs) PROVE Once'
    <2>1. Host /\ UNCHANGED <<stack, compiled>> BY <1>33 DEF Bind
    <2>2. CASE call' = Idle
      <3>1. call = Idle BY <2>1 DEF Host
      <3> QED BY <1>24, <2>1, <2>2, <3>1
    <2>3. CASE call' # Idle
      <3>1. PICK R : call' = Run("bind", R, "CachePreferred") BY <1>33, <2>3 DEF Bind
      <3> QED BY <1>25, <2>1, <3>1
    <2> QED BY <2>2, <2>3
  <1> HIDE DEF fixed, graph, tables, outside, control
  <1> QED BY <1>1, <1>2, <1>3, <1>4, <1>5, <1>9, <1>10, <1>11, <1>12, <1>13, <1>14, <1>15, <1>16,
             <1>17, <1>18, <1>19, <1>20, <1>22, <1>23, <1>26, <1>27, <1>28, <1>29, <1>30, <1>31,
             <1>32, <1>33 DEF Next, Step, HostStep

LEMMA OnceInit == Init => Once
  <1> SUFFICES ASSUME Init PROVE Once
      OBVIOUS
  <1>1. Depth = 0 /\ call = Idle /\ compiled = {} BY DEF Init, Depth
  <1>2. Linked /\ Dark /\ OwnFrames /\ NodesVisit
        BY <1>1 DEF Linked, Dark, OwnFrames, NodesVisit, Idle
  <1> QED BY <1>1, <1>2 DEF Once, BuiltTrusted, ResolvedTrusted, OneCompile, In, ForcedAnew, Forced, Idle

-----------------------------------------------------------------------------
(* What a bind leaves lit. *)

\* A set of keys that were published, with what its keys were compiled from; a key
\* that the disk cache may have served says nothing of its prerequisites.
Lit(C) ==
    /\ C \cap Effectful \subseteq Tried
    /\ \A j \in C \ Cacheable : deps[j] \subseteq C

Sound == UNION {C \in SUBSET Keys : Lit(C)}

CompiledSound == compiled \subseteq Sound

\* A bind resolves the sinks of the graph it has built, one after another.
BindsSinks ==
    /\ call.op = "bind" => call.roots = Terminals(dag)
    /\ call.op \in {"bind", "sweep"} => dag = registered /\ Buildable(dag)
    /\ call.op = "bind" => \A k \in call.roots :
          \/ k \in call.todo \/ k \in Sound \/ call.errors
          \/ Depth = 0 /\ failed
          \/ Depth > 0 /\ stack[1].key = k
    /\ call.op = "sweep" => ~failed /\ Terminals(dag) \subseteq Sound

LEMMA SoundIsLit == ASSUME TypeOK PROVE Sound \subseteq Keys /\ Lit(Sound)
  <1>1. \A C \in SUBSET Keys : Lit(C) => C \subseteq Sound BY DEF Sound
  <1>2. \A j \in Sound : \E C \in SUBSET Keys : j \in C /\ Lit(C) BY DEF Sound
  <1>3. Sound \subseteq Keys BY <1>2
  <1>4. Sound \cap Effectful \subseteq Tried BY <1>2 DEF Lit
  <1>5. ASSUME NEW j \in Sound \ Cacheable PROVE deps[j] \subseteq Sound
    <2>1. PICK C \in SUBSET Keys : j \in C /\ Lit(C) BY <1>2
    <2> QED BY <1>1, <2>1 DEF Lit
  <1> QED BY <1>3, <1>4, <1>5 DEF Lit

LEMMA LitNext ==
    ASSUME UNCHANGED deps, NEW D \in SUBSET Keys, D \cap Effectful \subseteq Tried',
           \A j \in D \ Cacheable : deps[j] \subseteq D
    PROVE  D \subseteq Sound'
  <1>1. Lit(D)' BY DEF Lit
  <1> QED BY <1>1 DEF Sound

\* What is lit stays so while nothing is torn down,
LEMMA SoundStays ==
    ASSUME TypeOK, UNCHANGED deps, Tried \subseteq Tried'
    PROVE  Sound \subseteq Sound'
  <1> SUFFICES ASSUME NEW C \in SUBSET Keys, Lit(C) PROVE Lit(C)'
      BY DEF Sound
  <1> QED BY DEF Lit

\* ... a key joins when what it was compiled from is lit,
LEMMA SoundGains ==
    ASSUME TypeOK, UNCHANGED deps, Tried \subseteq Tried', NEW k \in Keys,
           k \in Effectful => k \in Tried', k \in Cacheable \/ deps[k] \subseteq Sound
    PROVE  k \in Sound'
  <1> DEFINE C == Sound \cup {k}
  <1>1. C \in SUBSET Keys /\ Lit(Sound) BY SoundIsLit
  <1>2. C \cap Effectful \subseteq Tried' BY <1>1 DEF Lit
  <1>3. \A j \in C \ Cacheable : deps[j] \subseteq C BY <1>1 DEF Lit
  <1> HIDE DEF C
  <1>4. C \subseteq Sound' BY <1>1, <1>2, <1>3, LitNext
  <1> QED BY <1>4 DEF C

\* ... and a sweep leaves lit what is in the graph that it keeps.
LEMMA SoundSwept ==
    ASSUME TypeOK, UNCHANGED deps, NEW R \in SUBSET Keys,
           \A k \in R : deps[k] \subseteq R, resident' = resident \cap R, UNCHANGED refused
    PROVE  Sound \cap R \subseteq Sound'
  <1> DEFINE C == Sound \cap R
  <1>1. C \in SUBSET Keys /\ Lit(Sound) BY SoundIsLit
  <1>2. C \cap Effectful \subseteq Tried' BY <1>1 DEF Lit, Tried
  <1>3. \A j \in C \ Cacheable : deps[j] \subseteq C BY <1>1 DEF Lit
  <1> HIDE DEF C
  <1>4. C \subseteq Sound' BY <1>1, <1>2, <1>3, LitNext
  <1> QED BY <1>4 DEF C

\* No step loses a key that a compiled node stands for.
LEMMA CompiledSoundKept ==
    ASSUME TypeOK, Unwound, Recursion, CompilerSeesItsInputs, Once, CompiledSound, BindsSinks,
           [Next]_vars
    PROVE  CompiledSound'
  <1> USE DEF fixed, graph, tables, outside, control, In, Between, Host
  <1>0. ASSUME UNCHANGED <<deps, resident, refused>>, compiled' \subseteq compiled PROVE CompiledSound'
        BY <1>0, SoundStays DEF CompiledSound, Tried
  <1>1. CASE UNCHANGED vars BY <1>0, <1>1 DEF vars
  <1>2. CASE VisitDep \/ DepFailed \/ ResolveRefused \/ ResolveHit \/ CompileFails \/ NodeKnown
             \/ NodeHit \/ NodeBuild \/ NodeReturn \/ DemandBegin \/ DemandReturn \/ NextRoot
             \/ RootFailed \/ EndCall
        BY <1>0, <1>2 DEF VisitDep, DepFailed, ResolveRefused, ResolveHit, CompileFails, NodeKnown,
             NodeHit, NodeBuild, NodeReturn, DemandBegin, DemandReturn, NextRoot, RootFailed, EndCall
  <1>3. CASE ResolveBegin \/ NodeRefused \/ NodeBegin \/ EvictUndemanded
        BY <1>0, <1>3 DEF ResolveBegin, NodeRefused, NodeBegin, EvictUndemanded, Forget, Evict
  <1>4. CASE Compile
    <2>1. Key \in Keys /\ Ready("resolve") BY <1>4, StackType DEF Compile, Ready
    <2>2. /\ UNCHANGED deps /\ compiled' = compiled \cup {Key}
          /\ Tried' = Tried \cup ({Key} \cap Effectful)
          BY <1>4, <2>1, PublishTries DEF Compile, Store
    <2>3. deps[Key] \subseteq Sound BY <2>1 DEF CompilerSeesItsInputs, CompiledSound
    <2>4. Key \in Sound' BY <2>1, <2>2, <2>3, SoundGains
    <2> QED BY <2>2, <2>4, SoundStays DEF CompiledSound
  <1>5. CASE NodeLoad
    <2>1. Key \in Keys /\ Key \in Cacheable BY <1>5, StackType DEF NodeLoad, Missing, Visiting, Present
    <2>2. /\ UNCHANGED deps /\ compiled' = compiled \cup {Key}
          /\ Tried' = Tried \cup ({Key} \cap Effectful)
          BY <1>5, <2>1, PublishTries DEF NodeLoad, Store
    <2>3. Key \in Sound' BY <2>1, <2>2, SoundGains
    <2> QED BY <2>2, <2>3, SoundStays DEF CompiledSound
  <1>6. CASE Sweep
    <2>1. /\ Evict(Unregistered) /\ resident' = resident \cap registered /\ UNCHANGED <<deps, refused>>
          /\ call.op = "sweep"
          BY <1>6 DEF Sweep
    <2>2. compiled' \subseteq compiled /\ compiled' \cap Keys \subseteq registered
          BY <2>1 DEF Evict, Unregistered
    <2>3. \A k \in registered : deps[k] \subseteq registered BY <2>1 DEF BindsSinks, Buildable
    <2>4. Sound \cap registered \subseteq Sound' BY <2>1, <2>3, SoundSwept DEF TypeOK
    <2> QED BY <2>2, <2>4 DEF CompiledSound, TypeOK
  <1>7. ASSUME NEW k \in Keys, Register(k) \/ Deregister(k) \/ StartResolve(k) \/ Invalidate(k)
        PROVE  CompiledSound'
        BY <1>0, <1>7 DEF Register, Deregister, StartResolve, Invalidate
  <1>8. ASSUME NEW k, NEW v, HostWritesCache(k, v) PROVE CompiledSound'
        BY <1>0, <1>8 DEF HostWritesCache
  <1>9. CASE Commit \/ StartResolveAll BY <1>0, <1>9 DEF Commit, StartResolveAll
  <1>10. CASE Restart BY <1>10 DEF Restart, CompiledSound
  <1>11. CASE EvictUnregistered BY <1>0, <1>11 DEF EvictUnregistered, Evict
  <1>12. ASSUME NEW R, NEW p, StartResolveRoots(R, p) PROVE CompiledSound'
         BY <1>0, <1>12 DEF StartResolveRoots
  <1>13. ASSUME NEW draft, NEW glbs, Bind(draft, glbs) PROVE CompiledSound'
         BY <1>0, <1>13 DEF Bind
  <1> HIDE DEF fixed, graph, tables, outside, control, In, Between, Host
  <1> QED BY <1>1, <1>2, <1>3, <1>4, <1>5, <1>6, <1>7, <1>8, <1>9, <1>10, <1>11, <1>12, <1>13
          DEF Next, Step, HostStep

\* The keys of a bind that are done with, are being resolved, or wait.
LEMMA SinksKept ==
    ASSUME TypeOK, Unwound, BindsSinks, UNCHANGED <<deps, registered, dag>>, Depth > 0,
           Sound \subseteq Sound',
           call'.op = call.op, call'.roots = call.roots, call'.todo = call.todo,
           call'.errors = call.errors,
           \/ Depth' > 0 /\ stack'[1].key = stack[1].key
           \/ Depth' = 0 /\ failed'
           \/ Depth' = 0 /\ (stack[1].key \in Sound' \/ stack[1].key \notin Assets)
    PROVE  BindsSinks'
  <1>1. stack # <<>> BY DEF Depth
  <1>2. call.op # "sweep" BY <1>1 DEF Unwound
  <1>3. Terminals(dag)' = Terminals(dag) /\ Buildable(dag)' = Buildable(dag)
        BY DEF Terminals, Buildable, Sorted
  <1>4. ASSUME call.op = "bind", NEW k \in call.roots
        PROVE  \/ k \in call'.todo \/ k \in Sound' \/ call'.errors
               \/ Depth' = 0 /\ failed'
               \/ Depth' > 0 /\ stack'[1].key = k
    <2>1. k \in Assets BY <1>4 DEF BindsSinks, Terminals
    <2>2. k \in call.todo \/ k \in Sound \/ call.errors \/ stack[1].key = k
          BY <1>4 DEF BindsSinks
    <2> QED BY <2>1, <2>2
  <1> QED BY <1>2, <1>3, <1>4 DEF BindsSinks

LEMMA SinksPop ==
    ASSUME TypeOK, Unwound, BindsSinks, CompiledSound', UNCHANGED <<deps, registered, dag>>,
           Tried \subseteq Tried', Depth > 0, NEW bad \in BOOLEAN, Return(bad),
           call'.op = call.op, call'.roots = call.roots, call'.todo = call.todo,
           call'.errors = call.errors, bad \/ Key \in compiled' \/ Key \notin Assets
    PROVE  BindsSinks'
  <1>1. /\ failed' = bad /\ Depth \in Nat /\ Depth' = Depth - 1
        /\ \A i \in 1 .. Depth - 1 : stack'[i] = stack[i]
        BY Popped, StackType DEF Depth
  <1>2. Sound \subseteq Sound' BY SoundStays
  <1>3. CASE Depth = 1
    <2>1. stack[1].key = Key /\ Depth' = 0 BY <1>1, <1>3 DEF Key, Top
    <2> QED BY <1>1, <1>2, <1>3, <2>1, SinksKept DEF CompiledSound
  <1>4. CASE Depth # 1
    <2>1. 1 \in 1 .. Depth - 1 BY <1>1, <1>4
    <2>2. Depth' > 0 /\ stack'[1].key = stack[1].key BY <1>1, <1>4, <2>1
    <2> QED BY <1>2, <2>2, SinksKept
  <1> QED BY <1>3, <1>4

LEMMA BindsSinksKept ==
    ASSUME TypeOK, Unwound, Recursion, Once, BindsSinks, CompiledSound, CompiledSound',
           [Next]_vars
    PROVE  BindsSinks'
  <1> USE DEF fixed, graph, tables, outside, control
  <1> DEFINE SameCall == UNCHANGED <<deps, registered, dag, resident, refused, call>>
  <1>1. CASE UNCHANGED vars
    <2>1. UNCHANGED <<deps, registered, dag, stack, failed, call, resident, refused>>
          BY <1>1 DEF vars
    <2> QED BY <2>1 DEF BindsSinks, Terminals, Buildable, Sorted, Sound, Lit, Tried, Depth
  <1>2. ASSUME Depth > 0, SameCall, NEW frame \in Frames, frame.key = Key,
               \/ stack' = Retop(frame)
               \/ \E fn \in {"resolve", "node"}, k \in Keys : stack' = Append(Retop(frame), Frame(fn, k))
        PROVE  BindsSinks'
    <2>1. Depth \in Nat /\ Depth \in 1 .. Depth BY <1>2, StackType
    <2>2. /\ Depth' >= Depth /\ Depth' \in Nat
          /\ \A i \in 1 .. Depth - 1 : stack'[i] = stack[i]
          /\ stack'[Depth] = frame
      <3>1. CASE stack' = Retop(frame) BY <1>2, <2>1, <3>1, Retopped DEF Depth
      <3>2. CASE stack' # Retop(frame)
        <4>1. PICK fn \in {"resolve", "node"}, k \in Keys : stack' = Append(Retop(frame), Frame(fn, k))
              BY <1>2, <3>2
        <4>2. /\ stack' \in Seq(Frames) /\ Len(stack') = Depth + 1
              /\ \A i \in 1 .. Depth - 1 : stack'[i] = stack[i]
              /\ stack'[Depth] = frame
              BY <1>2, <4>1, Pushed
        <4> QED BY <2>1, <4>2 DEF Depth
      <3> QED BY <3>1, <3>2
    <2>3. stack'[1].key = stack[1].key
      <3>1. CASE Depth = 1 BY <1>2, <2>2, <3>1 DEF Key, Top
      <3>2. CASE Depth # 1
        <4>1. 1 \in 1 .. Depth - 1 BY <2>1, <3>2
        <4> QED BY <2>2, <4>1
      <3> QED BY <3>1, <3>2
    <2>4. Sound \subseteq Sound' BY <1>2, SoundStays DEF Tried
    <2> QED BY <1>2, <2>1, <2>2, <2>3, <2>4, SinksKept
  <1>3. CASE VisitDep
    <2>1. PICK p \in Top.todo : CallInto(p) BY <1>3 DEF VisitDep
    <2>2. Depth > 0 /\ Top \in Frames BY <1>3, StackType DEF VisitDep
    <2>3. p \in Keys /\ Top.fn \in {"resolve", "node"} BY <2>1, <2>2 DEF Frames
    <2>4. [Top EXCEPT !.todo = @ \ {p}] \in Frames /\ [Top EXCEPT !.todo = @ \ {p}].key = Key
          BY <2>2 DEF Frames, Key
    <2> QED BY <1>2, <1>3, <2>1, <2>2, <2>3, <2>4 DEF VisitDep, CallInto
  <1>4. CASE NodeBuild
    <2>1. Depth > 0 /\ Top \in Frames /\ Key \in Keys BY <1>4, StackType DEF NodeBuild, Ready, In
    <2>2. [Top EXCEPT !.phase = "build"] \in Frames /\ [Top EXCEPT !.phase = "build"].key = Key
          BY <2>1 DEF Frames, Key
    <2> QED BY <1>2, <1>4, <2>1, <2>2 DEF NodeBuild
  <1>5. CASE ResolveBegin \/ NodeBegin \/ DemandBegin
    <2>1. Depth > 0 /\ Top \in Frames /\ Key \in Keys
          BY <1>5, StackType DEF ResolveBegin, NodeBegin, DemandBegin, Visiting, In
    <2>2. deps[Key] \in SUBSET Keys BY <2>1, StackType
    <2>3. /\ [Top EXCEPT !.phase = "deps", !.todo = deps[Key]] \in Frames
          /\ [Top EXCEPT !.phase = "deps", !.todo = deps[Key]].key = Key
          BY <2>1, <2>2 DEF Frames, Key
    <2>4. SameCall /\ AwaitDeps BY <1>5 DEF ResolveBegin, NodeBegin, DemandBegin
    <2> QED BY <1>2, <2>1, <2>3, <2>4 DEF AwaitDeps
  <1>6. CASE DepFailed \/ ResolveRefused \/ CompileFails \/ NodeRefused
    <2>1. Depth > 0 /\ Return(TRUE) /\ SameCall
          BY <1>6 DEF DepFailed, ResolveRefused, CompileFails, NodeRefused, Missing, Visiting, Ready, In
    <2> QED BY <2>1, SinksPop DEF Tried
  <1>7. CASE ResolveHit
    <2>1. Depth > 0 /\ Return(FALSE) /\ SameCall /\ Key \in compiled'
          BY <1>7 DEF ResolveHit, In, Trusted
    <2> QED BY <2>1, SinksPop DEF Tried
  <1>8. CASE Compile
    <2>1. Depth > 0 /\ Key \in Keys BY <1>8, StackType DEF Compile, Ready, In
    <2>2. Return(FALSE) /\ Key \in compiled' /\ Tried \subseteq Tried'
          BY <1>8, <2>1, PublishTries DEF Compile, Store
    <2>3. /\ call'.op = call.op /\ call'.roots = call.roots /\ call'.todo = call.todo
          /\ call'.errors = call.errors /\ UNCHANGED <<deps, registered, dag>>
          BY <1>8 DEF Compile, TypeOK, Calls
    <2> QED BY <2>1, <2>2, <2>3, SinksPop
  <1>9. CASE NodeKnown
    <2>1. Depth > 0 /\ Return(FALSE) /\ SameCall /\ Key \in call.resolved /\ UNCHANGED compiled
          BY <1>9 DEF NodeKnown, In
    <2>2. Key \in compiled' BY <2>1 DEF Once, ResolvedTrusted, Trusted
    <2> QED BY <2>1, <2>2, SinksPop DEF Tried
  <1>10. CASE NodeHit \/ NodeLoad
    <2>1. Depth > 0 /\ Key \in Keys
          BY <1>10, StackType DEF NodeHit, NodeLoad, Missing, Visiting, In
    <2>2. Return(FALSE) /\ Key \in compiled'
          BY <1>10 DEF NodeHit, NodeLoad, Trusted, Store
    <2>3. Tried \subseteq Tried'
      <3>1. CASE NodeHit BY <3>1 DEF NodeHit, Tried
      <3>2. CASE NodeLoad BY <2>1, <3>2, PublishTries DEF NodeLoad
      <3> QED BY <1>10, <3>1, <3>2
    <2>4. /\ call'.op = call.op /\ call'.roots = call.roots /\ call'.todo = call.todo
          /\ call'.errors = call.errors /\ UNCHANGED <<deps, registered, dag>>
          BY <1>10 DEF NodeHit, NodeLoad, Resolved, TypeOK, Calls
    <2> QED BY <2>1, <2>2, <2>3, <2>4, SinksPop
  <1>11. CASE NodeReturn
    <2>1. /\ Depth > 0 /\ Return(failed) /\ UNCHANGED <<deps, registered, dag, compiled>>
          /\ UNCHANGED <<resident, refused>>
          /\ Top.fn = "node" /\ In("node", "build")
          BY <1>11 DEF NodeReturn, In
    <2>2. /\ call'.op = call.op /\ call'.roots = call.roots /\ call'.todo = call.todo
          /\ call'.errors = call.errors
          BY <1>11 DEF NodeReturn, Resolved, TypeOK, Calls
    <2>3. call.policy # "none" BY <2>1, NodeMeansPolicy DEF Once
    <2>4. failed \/ Key \in compiled' BY <2>1, <2>3 DEF Once, OneCompile, Trusted
    <2>5. failed \in BOOLEAN BY DEF TypeOK
    <2> QED BY <2>1, <2>2, <2>4, <2>5, SinksPop DEF Tried
  <1>12. CASE DemandReturn
    <2>1. Depth > 0 /\ Return(FALSE) /\ SameCall /\ Key \notin Assets
          BY <1>12 DEF DemandReturn, Ready, In, Assets
    <2> QED BY <2>1, SinksPop DEF Tried
  <1>13. CASE NextRoot
    <2>1. /\ Depth = 0 /\ ~failed /\ UNCHANGED <<deps, registered, dag, failed, resident, refused>>
          BY <1>13 DEF NextRoot, Between
    <2>2. PICK k \in call.todo :
            \/ /\ \E fn : stack' = <<Frame(fn, k)>>
               /\ call' = [call EXCEPT !.todo = @ \ {k}]
            \/ call' = [call EXCEPT !.todo = @ \ {k}, !.errors = TRUE]
          BY <1>13 DEF NextRoot
    <2>3. /\ call'.op = call.op /\ call'.roots = call.roots /\ call'.todo = call.todo \ {k}
          /\ \/ call'.errors
             \/ call'.errors = call.errors /\ Depth' = 1 /\ stack'[1].key = k
      <3>1. call \in Calls BY DEF TypeOK
      <3>2. CASE call' = [call EXCEPT !.todo = @ \ {k}, !.errors = TRUE]
            BY <3>1, <3>2 DEF Calls
      <3>3. ASSUME NEW fn, stack' = <<Frame(fn, k)>>, call' = [call EXCEPT !.todo = @ \ {k}]
            PROVE  /\ call'.op = call.op /\ call'.roots = call.roots /\ call'.todo = call.todo \ {k}
                   /\ call'.errors = call.errors /\ Depth' = 1 /\ stack'[1].key = k
        <4>1. stack'[1] = Frame(fn, k) /\ Depth' = 1 BY <3>3 DEF Depth
        <4>2. Frame(fn, k).key = k BY DEF Frame
        <4> QED BY <3>1, <3>3, <4>1, <4>2 DEF Calls
      <3> QED BY <2>2, <3>2, <3>3
    <2>4. call.op # "sweep" BY <2>2 DEF Unwound
    <2>5. Sound \subseteq Sound' BY <2>1, SoundStays DEF Tried
    <2>6. Terminals(dag)' = Terminals(dag) /\ Buildable(dag)' = Buildable(dag)
          BY <2>1 DEF Terminals, Buildable, Sorted
    <2>7. ASSUME call.op = "bind", NEW j \in call.roots
          PROVE  \/ j \in call'.todo \/ j \in Sound' \/ call'.errors
                 \/ Depth' > 0 /\ stack'[1].key = j
      <3>1. j \in call.todo \/ j \in Sound \/ call.errors BY <2>1, <2>7 DEF BindsSinks
      <3> QED BY <2>3, <2>5, <3>1
    <2> QED BY <2>1, <2>3, <2>4, <2>6, <2>7 DEF BindsSinks
  <1>14. CASE RootFailed
    <2>1. /\ UNCHANGED <<deps, registered, dag, stack>> /\ failed
          /\ call'.op = call.op /\ call'.roots = call.roots /\ call'.errors
          BY <1>14 DEF RootFailed, TypeOK, Calls
    <2>2. Terminals(dag)' = Terminals(dag) /\ Buildable(dag)' = Buildable(dag)
          BY <2>1 DEF Terminals, Buildable, Sorted
    <2>3. call.op # "sweep" BY <2>1 DEF BindsSinks
    <2> QED BY <2>1, <2>2, <2>3 DEF BindsSinks
  <1>15. ASSUME call'.op \notin {"bind", "sweep"} PROVE BindsSinks' BY <1>15 DEF BindsSinks
  <1>16. CASE EndCall BY <1>15, <1>16 DEF EndCall, Idle
  <1>17. CASE EvictUndemanded
    <2>1. /\ Depth = 0 /\ ~failed /\ ~failed' /\ call.todo = {} /\ ~call.errors
          /\ UNCHANGED <<deps, registered, dag, resident, refused>>
          /\ call'.op = IF call.op = "bind" THEN "sweep" ELSE "idle"
          BY <1>17 DEF EvictUndemanded, Over, Between, Idle
    <2>2. CASE call.op # "bind" BY <1>15, <2>1, <2>2
    <2>3. CASE call.op = "bind"
      <3>1. Terminals(dag) \subseteq Sound BY <2>1, <2>3 DEF BindsSinks
      <3>2. Terminals(dag)' = Terminals(dag) /\ Buildable(dag)' = Buildable(dag)
            BY <2>1 DEF Terminals, Buildable, Sorted
      <3>3. Sound \subseteq Sound' BY <2>1, SoundStays DEF Tried
      <3> QED BY <2>1, <2>3, <3>1, <3>2, <3>3 DEF BindsSinks
    <2> QED BY <2>2, <2>3
  <1>18. CASE Sweep
    <2>1. PICK R : call' \in {Idle, Run("rebind", R, "CachePreferred")} BY <1>18 DEF Sweep
    <2> QED BY <1>15, <2>1, FreshCall
  <1>19. ASSUME Host, UNCHANGED call PROVE BindsSinks'
    <2>1. call'.op = "idle" BY <1>19, FreshCall DEF Host
    <2> QED BY <1>15, <2>1
  <1>20. CASE \E k \in Keys : Register(k) \/ Deregister(k) \/ Invalidate(k)
         BY <1>19, <1>20 DEF Register, Deregister, Invalidate
  <1>21. CASE \E k \in Assets, v \in {"stale", "foreign"} : HostWritesCache(k, v)
         BY <1>19, <1>21 DEF HostWritesCache
  <1>22. CASE Commit \/ EvictUnregistered BY <1>19, <1>22 DEF Commit, EvictUnregistered
  <1>23. CASE Restart BY <1>15, <1>23, FreshCall DEF Restart
  <1>24. ASSUME NEW k, StartResolve(k) PROVE BindsSinks' BY <1>15, <1>24, FreshCall DEF StartResolve
  <1>25. CASE StartResolveAll BY <1>15, <1>25, FreshCall DEF StartResolveAll
  <1>26. ASSUME NEW R, NEW p, StartResolveRoots(R, p) PROVE BindsSinks'
         BY <1>15, <1>26, FreshCall DEF StartResolveRoots
  <1>27. ASSUME NEW draft, NEW glbs, Bind(draft, glbs) PROVE BindsSinks'
    <2>1. CASE call' = Idle BY <1>15, <2>1, FreshCall
    <2>2. CASE call' # Idle
      <3> DEFINE all == draft \cup glbs
      <3>1. /\ Buildable(all) /\ registered' = all /\ dag' = all /\ UNCHANGED deps
            /\ call' = Run("bind", Terminals(all), "CachePreferred")
            BY <1>27, <2>2 DEF Bind
      <3>2. call'.op = "bind" /\ call'.roots = Terminals(all) /\ call'.todo = Terminals(all)
            BY <3>1 DEF Run, Idle
      <3>3. Terminals(dag)' = Terminals(all) /\ Buildable(dag)'
            BY <3>1 DEF Terminals, Buildable, Sorted
      <3> QED BY <3>1, <3>2, <3>3 DEF BindsSinks
    <2> QED BY <2>1, <2>2
  <1> HIDE DEF fixed, graph, tables, outside, control
  <1> QED BY <1>1, <1>3, <1>4, <1>5, <1>6, <1>7, <1>8, <1>9, <1>10, <1>11, <1>12, <1>13, <1>14, <1>16,
             <1>17, <1>18, <1>20, <1>21, <1>22, <1>23, <1>24, <1>25, <1>26, <1>27
          DEF Next, Step, HostStep

\* In a graph that could be ordered, every key not turned down that is not lit has a
\* dependent which the disk cache may have served: otherwise the last such
\* key in the order has a dependent that is lit, or is a sink itself.
LEMMA NothingDark ==
    ASSUME TypeOK, Buildable(dag), Terminals(dag) \subseteq Sound, NEW k \in (dag \cap Effectful) \ refused
    PROVE  k \in resident \/ (Above(k) \ {k}) \cap Cacheable # {}
  <1> SUFFICES ASSUME k \notin resident, (Above(k) \ {k}) \cap Cacheable = {} PROVE FALSE
      OBVIOUS
  <1>1. Lit(Sound) BY SoundIsLit
  <1>2. k \in Assets /\ k \in dag /\ k \in Keys BY KindAssumption DEF Assets
  <1>3. k \notin Sound BY <1>1 DEF Lit, Tried
  <1>4. k \in Above(k) BY <1>2 DEF Above
  <1>5. ASSUME NEW i \in Keys, NEW j \in deps[i] \cap Above(k) PROVE i \in Above(k)
    <2> SUFFICES ASSUME NEW A \in SUBSET Keys, k \in A,
                        \A h \in Keys : deps[h] \cap A # {} => h \in A
                 PROVE  i \in A
        BY DEF Above
    <2>1. j \in A BY DEF Above
    <2> QED BY <2>1
  <1> DEFINE U == {j \in dag \cap Assets \cap Above(k) : j \notin Sound}
  <1>6. U \in SUBSET dag /\ k \in U BY <1>2, <1>3, <1>4
  <1>7. PICK j \in U : \A i \in U : j \notin deps[i] BY <1>6 DEF Buildable, Sorted
  <1>8. PICK i \in dag \cap Assets : j \in deps[i] BY <1>7 DEF Terminals
  <1>9. i \in Above(k) BY <1>5, <1>7, <1>8 DEF TypeOK
  <1>10. i \notin U BY <1>7, <1>8
  <1>11. i \in Sound /\ i # k BY <1>6, <1>8, <1>9, <1>10
  <1>12. deps[i] \subseteq Sound BY <1>1, <1>9, <1>11 DEF Lit
  <1> QED BY <1>7, <1>8, <1>12

\* A sweep tears down what left the graph, and nothing else.
LEMMA ResidencyKept ==
    ASSUME TypeOK, Unwound, call.op = "sweep", Next, ops' = ops
    PROVE  resident \cap registered \subseteq resident'
  <1> USE DEF fixed, graph, tables, outside, control, Host
  <1>1. ops \in Nat BY BoundAssumption DEF TypeOK
  <1>2. ASSUME HostStep PROVE ops' = ops + 1
    <2>1. ASSUME NEW k \in Keys, Register(k) \/ Deregister(k) \/ Invalidate(k) \/ StartResolve(k)
          PROVE  ops' = ops + 1
          BY <2>1 DEF Register, Deregister, Invalidate, StartResolve
    <2>2. ASSUME NEW k, NEW v, HostWritesCache(k, v) PROVE ops' = ops + 1
          BY <2>2 DEF HostWritesCache
    <2>3. CASE Commit \/ Restart \/ EvictUnregistered \/ StartResolveAll
          BY <2>3 DEF Commit, Restart, EvictUnregistered, StartResolveAll
    <2>4. ASSUME NEW R, NEW p, StartResolveRoots(R, p) PROVE ops' = ops + 1
          BY <2>4 DEF StartResolveRoots
    <2>5. ASSUME NEW draft, NEW glbs, Bind(draft, glbs) PROVE ops' = ops + 1
          BY <2>5 DEF Bind
    <2> QED BY <1>2, <2>1, <2>2, <2>3, <2>4, <2>5 DEF HostStep
  <1>3. Depth = 0 /\ call.todo = {} BY DEF Unwound, Depth
  <1>4. ~Over /\ \A fn, phase : ~In(fn, phase) BY <1>3 DEF Over, In
  <1>5. ~Visiting /\ ~Missing /\ \A fn : ~Ready(fn) BY <1>4 DEF Visiting, Missing, Ready
  <1>6. CASE Sweep \/ RootFailed BY <1>6 DEF Sweep, RootFailed
  <1> HIDE DEF fixed, graph, tables, outside, control, Host
  <1>7. Step BY <1>1, <1>2 DEF Next
  <1>8. ~(VisitDep \/ DepFailed \/ NextRoot \/ EndCall \/ EvictUndemanded)
        BY <1>3, <1>4 DEF VisitDep, DepFailed, NextRoot, EndCall, EvictUndemanded
  <1>9. ~(ResolveRefused \/ ResolveHit \/ ResolveBegin \/ Compile \/ CompileFails)
        BY <1>4, <1>5 DEF ResolveRefused, ResolveHit, ResolveBegin, Compile, CompileFails
  <1>10. ~(NodeKnown \/ NodeHit \/ NodeLoad \/ NodeRefused \/ NodeBegin)
         BY <1>4, <1>5 DEF NodeKnown, NodeHit, NodeLoad, NodeRefused, NodeBegin
  <1>11. ~(NodeBuild \/ NodeReturn \/ DemandBegin \/ DemandReturn)
         BY <1>4, <1>5 DEF NodeBuild, NodeReturn, DemandBegin, DemandReturn
  <1> QED BY <1>6, <1>7, <1>8, <1>9, <1>10, <1>11 DEF Step

-----------------------------------------------------------------------------
(* The theorems. *)

\* The inductive invariant: no conjunct but TypeOK is inductive alone.
Inductive ==
    /\ TypeOK /\ HalvesInStep /\ HitIsLit /\ Unwound /\ Recursion /\ Once
    /\ CompiledSound /\ BindsSinks

LEMMA InputsSeen == TypeOK /\ Recursion => CompilerSeesItsInputs
  <1> SUFFICES ASSUME TypeOK, Recursion, Ready("resolve"), NEW p \in deps[Key]
               PROVE  cache[p] = "ours" /\ p \in compiled
      BY DEF CompilerSeesItsInputs
  <1>1. /\ Depth > 0 /\ Depth \in Nat /\ ~failed
        /\ stack[Depth].fn = "resolve" /\ stack[Depth].phase = "deps"
        /\ p \in deps[stack[Depth].key] \ stack[Depth].todo
        BY StackType DEF Ready, In, Top, Key
  <1>2. Vouched(Depth, p) BY <1>1 DEF Recursion, InputsTrusted
  <1> QED BY <1>1, <1>2 DEF Vouched, Trusted

LEMMA InductiveInit == Init => Inductive
  <1> SUFFICES ASSUME Init PROVE Inductive
      OBVIOUS
  <1>1. call \in Calls /\ ops \in 0 .. MaxOps BY CallTypes, BoundAssumption DEF Init
  <1>2. stack \in Seq(Frames) BY DEF Init
  <1>3. /\ cache \in [Keys -> {"none", "stale", "ours", "foreign"}]
        /\ status \in [Keys -> {"none", "Pending", "Done", "Failed"}]
        /\ entry \in [Keys -> {"none", "intact", "torn"}]
        BY DEF Init
  <1>4. /\ deps \in Graphs /\ sealed \in BOOLEAN /\ failed \in BOOLEAN
        /\ registered = {} /\ dag = {} /\ compiled = {} /\ touched = {}
        /\ resident = {} /\ refused = {}
        BY DEF Init
  <1>5. TypeOK BY <1>1, <1>2, <1>3, <1>4 DEF TypeOK
  <1>6. HalvesInStep /\ HitIsLit /\ Unwound BY DEF Init, HalvesInStep, HitIsLit, Unwound, Idle
  <1>7. Recursion BY DEF Init, Recursion, ResolveCallsResolve, InputsTrusted, Depth
  <1>8. CompiledSound /\ BindsSinks BY DEF Init, CompiledSound, BindsSinks, Idle
  <1> QED BY <1>5, <1>6, <1>7, <1>8, OnceInit DEF Inductive

LEMMA InductiveNext == Inductive /\ [Next]_vars => Inductive'
  <1> SUFFICES ASSUME Inductive, [Next]_vars PROVE Inductive'
      OBVIOUS
  <1>1. TypeOK'
    <2>1. CASE UNCHANGED vars
      <3>1. TypeOK BY DEF Inductive
      <3> QED BY <2>1, <3>1 DEF vars, fixed, graph, tables, outside, control, TypeOK
    <2>2. CASE Next BY <2>2, HostTypes, StepTypes DEF Next, Inductive
    <2> QED BY <2>1, <2>2
  <1>2. HalvesInStep' /\ HitIsLit' BY TablesKept DEF Inductive
  <1>3. Unwound' /\ Recursion' BY RecursionKept DEF Inductive
  <1>4. Once' BY InputsSeen, OnceKept DEF Inductive
  <1>5. CompiledSound' BY InputsSeen, CompiledSoundKept DEF Inductive
  <1>6. BindsSinks' BY <1>5, BindsSinksKept DEF Inductive
  <1> QED BY <1>1, <1>2, <1>3, <1>4, <1>5, <1>6 DEF Inductive

LEMMA InductiveHolds == Spec => []Inductive
  BY InductiveInit, InductiveNext, PTL DEF Spec

\* Every variable keeps its type, whatever the host asks for.
THEOREM TypeCorrect == Spec => []TypeOK
  <1>1. Inductive => TypeOK BY DEF Inductive
  <1> QED BY <1>1, InductiveHolds, PTL

\* The cache slot and the compiled node of a key never part, for any graph:
\* only the host's own writes to the cache can separate them.
THEOREM HalvesAgree == Spec => []HalvesInStep
  <1>1. Inductive => HalvesInStep BY DEF Inductive
  <1> QED BY <1>1, InductiveHolds, PTL

\* A compiled node never outlives the side effects of its compiler, and one
\* that has none is one whose last upload the GPU turned down.
THEOREM LitWhileCompiled == Spec => []HitIsLit
  <1>1. Inductive => HitIsLit BY DEF Inductive
  <1> QED BY <1>1, InductiveHolds, PTL

\* compiled_nodes_.at(dep_key) never throws: a compiler finds every input
\* compiled and trusted, for any dependency function.
THEOREM InputsPresent == Spec => []CompilerSeesItsInputs
  <1>1. Inductive => CompilerSeesItsInputs BY InputsSeen DEF Inductive
  <1> QED BY <1>1, InductiveHolds, PTL

\* "No prerequisite is compiled more than once": a key that resolve() is
\* about to compile was not built before in the same host call, for any
\* graph, shared prerequisites and ForceRecompile included.
THEOREM BuildsOnce == Spec => OncePerCall
  <1> DEFINE Fresh == \A k \in Keys : BuildsNow(k) => k \notin call.built
  <1>1. Inductive /\ [Next]_vars => [Fresh]_vars
    <2> SUFFICES ASSUME Inductive, NEW k \in Keys, BuildsNow(k) PROVE k \notin call.built
        OBVIOUS
    <2>1. /\ Depth \in 1 .. Depth /\ stack[Depth].fn = "resolve" /\ stack[Depth].phase = "deps"
          /\ stack[Depth].key = k
          BY StackType DEF Inductive, BuildsNow, Ready, In, Top, Key
    <2>2. ~Trusted(k) BY <2>1 DEF Inductive, Once, Dark
    <2> QED BY <2>2 DEF Inductive, Once, BuiltTrusted
  <1>2. Spec => [][Fresh]_vars BY <1>1, InductiveHolds, PTL DEF Spec
  <1> QED BY <1>2 DEF OncePerCall

\* Under ForceRecompile a compiler only ever reads what this call has built:
\* its frame stands on resolve_node()'s frame of the same key, which resolved
\* every prerequisite, and what is resolved under ForceRecompile was built.
THEOREM ForcedBuilds == Spec => ForcedBuildIsFresh
  <1> DEFINE Fresh == \A k \in Keys : BuildsNow(k) /\ call.policy = "ForceRecompile" =>
                                       deps[k] \subseteq call.built
  <1>1. Inductive /\ [Next]_vars => [Fresh]_vars
    <2> SUFFICES ASSUME Inductive, NEW k \in Keys, BuildsNow(k), call.policy = "ForceRecompile"
                 PROVE  deps[k] \subseteq call.built
        OBVIOUS
    <2>1. /\ Depth \in 1 .. Depth /\ Depth \in Nat
          /\ Top.fn = "resolve" /\ Top.phase = "deps" /\ Key = k /\ Ready("resolve")
          BY StackType DEF Inductive, BuildsNow, Ready, In
    <2>2. Depth > 1 /\ stack[Depth - 1].fn = "node"
          BY <2>1 DEF Inductive, Once, OneCompile, Top
    <2>3. /\ Depth - 1 \in 1 .. Depth
          /\ stack[Depth - 1].phase = "build" /\ stack[Depth - 1].key = k
          BY <2>1, <2>2, ResolveBelow DEF Inductive, Once
    <2>4. deps[k] \cap Assets \subseteq call.resolved
          BY <2>2, <2>3 DEF Inductive, Once, NodesVisit
    <2>5. deps[k] \subseteq Assets
          BY <2>1, InputsSeen DEF Inductive, Once, Dark, CompilerSeesItsInputs
    <2>6. call.resolved \subseteq call.built BY DEF Inductive, Once, ForcedAnew, Forced
    <2> QED BY <2>4, <2>5, <2>6
  <1>2. Spec => [][Fresh]_vars BY <1>1, InductiveHolds, PTL DEF Spec
  <1> QED BY <1>2 DEF ForcedBuildIsFresh

\* A bind that resolved the sinks of its graph has lit, after its sweep, all
\* that has side effects, but for what the GPU turned down and what the disk cache
\* made unnecessary.
THEOREM BindLights == Spec => BindLeavesNothingDark
  <1> DEFINE NoneDark ==
        call.op = "sweep" /\ ops' = ops =>
            \A k \in (dag \cap Effectful) \ refused :
                k \in resident' \/ (Above(k) \ {k}) \cap Cacheable # {}
  <1>1. Inductive /\ [Next]_vars => [NoneDark]_vars
    <2> SUFFICES ASSUME Inductive, Next, call.op = "sweep", ops' = ops,
                        NEW k \in (dag \cap Effectful) \ refused
                 PROVE  k \in resident' \/ (Above(k) \ {k}) \cap Cacheable # {}
        OBVIOUS
    <2>1. Buildable(dag) /\ dag = registered /\ Terminals(dag) \subseteq Sound
          BY DEF Inductive, BindsSinks
    <2>2. k \in resident \/ (Above(k) \ {k}) \cap Cacheable # {}
          BY <2>1, NothingDark DEF Inductive
    <2>3. resident \cap registered \subseteq resident' BY ResidencyKept DEF Inductive
    <2> QED BY <2>1, <2>2, <2>3
  <1>2. Spec => [][NoneDark]_vars BY <1>1, InductiveHolds, PTL DEF Spec
  <1> QED BY <1>2 DEF BindLeavesNothingDark

====
