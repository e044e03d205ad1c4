---- MODULE AssetSystem ----
(***************************************************************************)
(* The asset graph: wz::asset::AssetSystem (src/assets/system.cpp,         *)
(* asset/system.h, asset/cache.h), the disk cache it resolves through      *)
(* (engine_disk_cache_provider.cpp and the compilers' store_cached), the   *)
(* engine library's drivers (engine_asset_library.cpp) and the bind that   *)
(* the application runs on every graph edit (wozzits_app_v1.cpp).          *)
(*                                                                         *)
(* One thread runs all of it.  What is hard is the recursion: resolve()    *)
(* and resolve_node() re-enter themselves over the prerequisites and, at   *)
(* every level, read and erase the tables the levels above rely on.  The   *)
(* call stack is therefore a variable, one action per visit of a frame.    *)
(*                                                                         *)
(* A key is content addressed, or stands for a file's path and has no      *)
(* prerequisites; either way these never change: deps is chosen once.  A   *)
(* compiled handle is abstracted to whether the cache's entry is the one   *)
(* the compiled node holds.  A compiler is a fair coin, for sources come   *)
(* and go between two compiles, and so is the upload that follows it.      *)
(***************************************************************************)
EXTENDS Naturals, Sequences, FiniteSets

CONSTANTS
    Keys,         \* asset keys
    DemandRoots,  \* the keys of nodes of kind DemandRoot: no compiler
    Cacheable,    \* keys whose (schema, type) has a disk_cache_spec
    Effectful,    \* keys whose compiler registers RHI programs or buffers
    Evictable,    \* keys with residency CompileOnly or Transient
    Extras,       \* keys the application registers itself, never in a draft
    RootSets,     \* bound: the sets of roots that are resolved
    Graphs,       \* the dependency functions a behaviour may start with
    MaxOps        \* bound: host operations in a behaviour

ASSUME KindAssumption ==
    /\ DemandRoots \subseteq Keys /\ Cacheable \subseteq Keys \ DemandRoots
    /\ Effectful \subseteq Keys \ DemandRoots /\ Evictable \subseteq Keys
ASSUME GraphAssumption == Graphs \subseteq [Keys -> SUBSET Keys] /\ RootSets \subseteq SUBSET Keys
ASSUME BoundAssumption == MaxOps \in Nat /\ Extras \subseteq Keys

VARIABLES
    deps, sealed,     \* the prerequisites of each key; the cache is sealed: both fixed
    registered, dag,  \* registered_ and the nodes of the committed graph
    cache,            \* cache_: "none", "stale", "ours" or the host's "foreign" handle
    compiled,         \* keys of compiled_nodes_
    status,           \* node_resolve_states_
    entry,            \* disk entries: "none", "intact", "torn"
    resident,         \* keys whose RHI side effects stand
    stack, failed,    \* frames of resolve() and resolve_node(); the last one returned an error
    call,             \* the host call that runs
    ops,              \* host operations so far
    touched,          \* ghost: keys whose cache slot the host wrote behind the system
    refused           \* ghost: keys whose last upload or registration failed

fixed == <<deps, sealed>>
graph == <<registered, dag>>
tables == <<cache, compiled, status, touched>>
outside == <<entry, resident, refused>>
control == <<stack, failed, call>>
vars == <<fixed, graph, tables, outside, control, ops>>

Policies == {"CacheRequired", "CachePreferred", "ForceRecompile"}
Assets == Keys \ DemandRoots
Idle == [op |-> "idle", todo |-> {}, policy |-> "none", roots |-> {}, resolved |-> {}, built |-> {}, errors |-> FALSE]

Init ==
    /\ deps \in Graphs /\ sealed \in BOOLEAN
    /\ registered = {} /\ dag = {}
    /\ cache = [k \in Keys |-> "none"] /\ compiled = {}
    /\ status = [k \in Keys |-> "none"] /\ touched = {}
    /\ entry = [k \in Keys |-> "none"] /\ resident = {} /\ refused = {}
    /\ stack = <<>> /\ failed = FALSE /\ call = Idle /\ ops = 0

-----------------------------------------------------------------------------
(* The committed graph. *)

\* kahn_topo orders every node of S unless some are on a cycle: there is one
\* in every set whose keys are all prerequisites of keys of the set
Sorted(S) == \A T \in SUBSET S : T # {} => \E k \in T : \A j \in T : k \notin deps[j]

Buildable(S) == (\A k \in S : deps[k] \subseteq S) /\ Sorted(S)
Pruned(S) == [k \in Keys |-> IF k \in S THEN status[k] ELSE "none"]
Terminals(S) == {k \in S \cap Assets : \A j \in S \cap Assets : k \notin deps[j]}

Host == call = Idle /\ ops < MaxOps /\ ops' = ops + 1

Register(k) ==
    /\ Host /\ k \notin registered
    /\ registered' = registered \cup {k}
    /\ UNCHANGED <<fixed, dag, tables, outside, control>>

Deregister(k) ==
    /\ Host /\ k \in registered
    /\ registered' = registered \ {k}
    /\ UNCHANGED <<fixed, dag, tables, outside, control>>

Commit ==
    /\ Host /\ Buildable(registered)
    /\ dag' = registered /\ status' = Pruned(registered)
    /\ UNCHANGED <<fixed, registered, cache, compiled, touched, outside, control>>

\* The process dies and is started again: only the disk cache is left.
Restart ==
    /\ ops < MaxOps /\ ops' = ops + 1
    /\ registered' = {} /\ dag' = {}
    /\ cache' = [k \in Keys |-> "none"] /\ compiled' = {}
    /\ status' = [k \in Keys |-> "none"] /\ touched' = {}
    /\ resident' = {} /\ refused' = {} /\ stack' = <<>> /\ failed' = FALSE /\ call' = Idle
    /\ UNCHANGED <<fixed, entry>>

-----------------------------------------------------------------------------
(* The two tables. *)

Valid(k) == cache[k] \in {"ours", "foreign"}

\* Variant: the cache alone is believed
Believed(k) == Valid(k)

Trusted(k) == cache[k] = "ours" /\ k \in compiled
Evict(S) ==
    /\ cache' = [k \in Keys |-> IF k \in S THEN "none" ELSE cache[k]]
    /\ compiled' = compiled \ S
    /\ touched' = touched \ S
SetStatus(k, s) == status' = [status EXCEPT ![k] = s]
Store(k) ==
    /\ cache' = [cache EXCEPT ![k] = "ours"]
    /\ compiled' = compiled \cup {k}
    /\ touched' = touched \ {k}
    /\ SetStatus(k, "Done")

\* Variant: the cache half only
InvalidateSlot(k) ==
    /\ Host
    /\ cache' = [cache EXCEPT ![k] = IF @ = "none" THEN "none" ELSE "stale"]
    /\ touched' = touched \ {k}
    /\ UNCHANGED <<fixed, graph, compiled, status, outside, control>>

Invalidate(k) ==
    /\ Host
    /\ cache' = [cache EXCEPT ![k] = IF @ = "none" THEN "none" ELSE "stale"]
    /\ compiled' = compiled \ {k} /\ touched' = touched \ {k}
    /\ UNCHANGED <<fixed, graph, status, outside, control>>

\* cache() hands the host the cache itself: it may invalidate or store there
HostWritesCache(k, v) ==
    /\ Host /\ (v = "stale" => cache[k] # "none")
    /\ cache' = [cache EXCEPT ![k] = v]
    /\ touched' = touched \cup {k}
    /\ UNCHANGED <<fixed, graph, compiled, status, outside, control>>

Demanded(R) == (R \cap Assets) \cup UNION {deps[r] \cap Assets : r \in R \cap DemandRoots}
Undemanded(R) == (compiled \cap Evictable) \ Demanded(R \cap dag)

\* Variant: departed keys keep their compiled state
Nothing == {}

Unregistered == {k \in Keys : (cache[k] # "none" \/ k \in compiled) /\ k \notin registered}

EvictUnregistered ==
    /\ Host /\ Unregistered # {}
    /\ Evict(Unregistered)
    /\ UNCHANGED <<fixed, graph, status, outside, control>>

-----------------------------------------------------------------------------
(* Host calls that resolve. *)

Run(op, R, policy) == [Idle EXCEPT !.op = op, !.todo = R, !.roots = R, !.policy = policy]

StartResolve(k) ==
    /\ Host /\ call' = Run("resolve", {k}, "none")
    /\ UNCHANGED <<fixed, graph, tables, outside, stack, failed>>

StartResolveAll ==
    /\ Host /\ dag # {} /\ call' = Run("resolve_all", dag \cap Assets, "none")
    /\ UNCHANGED <<fixed, graph, tables, outside, stack, failed>>

StartResolveRoots(R, policy) ==
    /\ Host /\ call' = Run("resolve_roots", R, policy)
    /\ UNCHANGED <<fixed, graph, tables, outside, stack, failed>>

\* bind_asset_graph(): replace the registered set by the draft's, re-register
\* the GLB scenes, rebuild the graph and resolve its sinks
Bind(draft, glbs) ==
    LET all == draft \cup glbs IN
    /\ Host /\ Buildable(draft)
    /\ registered' = all
    /\ dag' = IF Buildable(all) THEN all ELSE draft
    /\ status' = Pruned(draft)
    /\ call' = IF Buildable(all) THEN Run("bind", Terminals(all), "CachePreferred") ELSE Idle
    /\ UNCHANGED <<fixed, cache, compiled, touched, outside, stack, failed>>

-----------------------------------------------------------------------------
(* resolve() and resolve_node(), frame by frame. *)

Frame(fn, k) == [fn |-> fn, key |-> k, phase |-> "enter", todo |-> {}]
Depth == Len(stack)
Top == stack[Depth]
Key == Top.key
In(fn, phase) == Depth > 0 /\ Top.fn = fn /\ Top.phase = phase
Ready(fn) == In(fn, "deps") /\ Top.todo = {} /\ ~failed

Return(bad) == stack' = SubSeq(stack, 1, Depth - 1) /\ failed' = bad
Retop(frame) == [stack EXCEPT ![Depth] = frame]
AwaitDeps == stack' = Retop([Top EXCEPT !.phase = "deps", !.todo = deps[Key]]) /\ UNCHANGED failed
CallInto(p) == stack' = Append(Retop([Top EXCEPT !.todo = @ \ {p}]), Frame(Top.fn, p)) /\ UNCHANGED failed

\* Variant: the call does not remember what it resolved
Forgotten == UNCHANGED call

Resolved == call' = [call EXCEPT !.resolved = @ \cup {Key}]

\* the loops over the prerequisites of both functions
VisitDep ==
    /\ Depth > 0 /\ Top.phase = "deps" /\ ~failed
    /\ \E p \in Top.todo : CallInto(p)
    /\ UNCHANGED <<fixed, graph, tables, outside, call, ops>>

DepFailed ==
    /\ Depth > 0 /\ Top.phase = "deps" /\ failed
    /\ SetStatus(Key, "Failed") /\ Return(TRUE)
    /\ UNCHANGED <<fixed, graph, cache, compiled, touched, outside, call, ops>>

\* NodeNotFound, CompilerNotFound
ResolveRefused ==
    /\ In("resolve", "enter") /\ (Key \notin dag \/ Key \in DemandRoots)
    /\ SetStatus(Key, "Failed") /\ Return(TRUE)
    /\ UNCHANGED <<fixed, graph, cache, compiled, touched, outside, call, ops>>

ResolveHit ==
    /\ In("resolve", "enter") /\ Key \in dag \cap Assets /\ Trusted(Key)
    /\ SetStatus(Key, "Done") /\ Return(FALSE)
    /\ UNCHANGED <<fixed, graph, cache, compiled, touched, outside, call, ops>>

\* evict what cannot be trusted; erase what a failure must not leave visible
Forget(k) ==
    /\ cache' = [cache EXCEPT ![k] = IF Valid(k) THEN "none" ELSE @]
    /\ compiled' = compiled \ {k}
    /\ touched' = touched \ {k}
    /\ SetStatus(k, "Pending")

ResolveBegin ==
    /\ In("resolve", "enter") /\ Key \in dag \cap Assets /\ ~Trusted(Key)
    /\ Forget(Key) /\ AwaitDeps
    /\ UNCHANGED <<fixed, graph, outside, call, ops>>

\* A compiler that succeeds stores what it built, unless it found it on disk;
\* write_file() is no atomic replace: the entry may be torn.
StoreCached(k) ==
    IF k \in Cacheable /\ entry[k] # "intact"
    THEN \E e \in {"intact", "torn", entry[k]} : entry' = [entry EXCEPT ![k] = e]
    ELSE UNCHANGED entry

\* Best effort: an upload that fails releases what it acquired, also what an
\* earlier one left resident, and the compile or the load succeeds all the same.
Publish(k) ==
    LET effects == {k} \cap Effectful IN
    \/ resident' = resident \cup effects /\ refused' = refused \ effects
    \/ resident' = resident \ effects /\ refused' = refused \cup effects

Compile ==
    /\ Ready("resolve")
    /\ Store(Key) /\ StoreCached(Key) /\ Publish(Key)
    /\ call' = [call EXCEPT !.built = @ \cup {Key}]
    /\ Return(FALSE)
    /\ UNCHANGED <<fixed, graph, ops>>

CompileFails ==
    /\ Ready("resolve")
    /\ SetStatus(Key, "Failed") /\ Return(TRUE)
    /\ UNCHANGED <<fixed, graph, cache, compiled, touched, outside, call, ops>>

-----------------------------------------------------------------------------
(* resolve_node(): what resolve_roots() does before it lets resolve() run. *)

Visiting == In("node", "enter") /\ Key \in Assets \ call.resolved

\* Variant: every policy trusts the tables
Never == FALSE

Forced == call.policy = "ForceRecompile"
Missing == Visiting /\ ~Forced /\ ~Trusted(Key)
Present(k) == k \in Cacheable /\ entry[k] # "none"
Refused(k) ==
    IF Present(k) THEN entry[k] = "torn" /\ call.policy = "CacheRequired"
                  ELSE call.policy = "CacheRequired" \/ (sealed /\ k \in Cacheable)

NodeKnown ==
    /\ In("node", "enter") /\ Key \in call.resolved
    /\ Return(FALSE)
    /\ UNCHANGED <<fixed, graph, tables, outside, call, ops>>

NodeHit ==
    /\ Visiting /\ ~Forced /\ Trusted(Key)
    /\ SetStatus(Key, "Done") /\ Resolved /\ Return(FALSE)
    /\ UNCHANGED <<fixed, graph, cache, compiled, touched, outside, ops>>

\* Variant: what is loaded does not publish its residency
NodeLoadDark ==
    /\ Missing /\ Present(Key) /\ entry[Key] = "intact"
    /\ Store(Key) /\ Resolved /\ Return(FALSE)
    /\ UNCHANGED <<fixed, graph, outside, ops>>

NodeLoad ==
    /\ Missing /\ Present(Key) /\ entry[Key] = "intact"
    /\ Store(Key) /\ Resolved /\ Return(FALSE) /\ Publish(Key)
    /\ UNCHANGED <<fixed, graph, entry, ops>>

\* ExternalCacheMiss, ExternalCacheLoadFailed
NodeRefused ==
    /\ Missing /\ Refused(Key)
    /\ IF Valid(Key) THEN Evict({Key}) ELSE UNCHANGED <<cache, compiled, touched>>
    /\ SetStatus(Key, "Failed") /\ Return(TRUE)
    /\ UNCHANGED <<fixed, graph, outside, call, ops>>

NodeBegin ==
    /\ Visiting
    /\ Forced \/ (Missing /\ ~Refused(Key) /\ ~(Present(Key) /\ entry[Key] = "intact"))
    /\ IF Forced \/ Valid(Key) THEN Evict({Key}) /\ SetStatus(Key, "Pending") ELSE UNCHANGED tables
    /\ AwaitDeps
    /\ UNCHANGED <<fixed, graph, outside, call, ops>>

NodeBuild ==
    /\ Ready("node") /\ Key \in Assets
    /\ stack' = Append(Retop([Top EXCEPT !.phase = "build"]), Frame("resolve", Key))
    /\ UNCHANGED <<fixed, graph, tables, outside, failed, call, ops>>

NodeReturn ==
    /\ In("node", "build")
    /\ IF failed THEN UNCHANGED call ELSE Resolved
    /\ Return(failed)
    /\ UNCHANGED <<fixed, graph, tables, outside, ops>>

DemandBegin ==
    /\ In("node", "enter") /\ Key \in DemandRoots
    /\ AwaitDeps
    /\ UNCHANGED <<fixed, graph, tables, outside, call, ops>>

DemandReturn ==
    /\ Ready("node") /\ Key \in DemandRoots
    /\ SetStatus(Key, "Done") /\ Return(FALSE)
    /\ UNCHANGED <<fixed, graph, cache, compiled, touched, outside, call, ops>>

-----------------------------------------------------------------------------
(* The drivers: one root after another, then what follows the resolve. *)

Between == call # Idle /\ Depth = 0
Direct == call.op \in {"resolve", "resolve_all"}
InOrder(k) == call.op = "resolve_all" => deps[k] \cap call.todo = {}

NextRoot ==
    /\ Between /\ ~failed
    /\ \E k \in call.todo :
        /\ InOrder(k)
        /\ IF Direct \/ k \in dag
           THEN /\ stack' = <<Frame(IF Direct THEN "resolve" ELSE "node", k)>>
                /\ call' = [call EXCEPT !.todo = @ \ {k}]
                /\ UNCHANGED status
           ELSE /\ SetStatus(k, "Failed")
                /\ call' = [call EXCEPT !.todo = @ \ {k}, !.errors = TRUE]
                /\ UNCHANGED stack
    /\ UNCHANGED <<fixed, graph, cache, compiled, touched, outside, failed, ops>>

RootFailed ==
    /\ Between /\ failed
    /\ failed' = FALSE /\ call' = [call EXCEPT !.errors = TRUE]
    /\ UNCHANGED <<fixed, graph, tables, outside, stack, ops>>

Over == Between /\ ~failed /\ call.todo = {} /\ call.op # "sweep"

EndCall ==
    /\ Over /\ (Direct \/ call.errors)
    /\ call' = Idle
    /\ UNCHANGED <<fixed, graph, tables, outside, stack, failed, ops>>

EvictUndemanded ==
    LET gone == Undemanded(call.roots) IN
    /\ Over /\ ~Direct /\ ~call.errors
    /\ Evict(gone)
    /\ status' = [k \in Keys |-> IF k \in gone THEN "Pending" ELSE status[k]]
    /\ call' = IF call.op = "bind" THEN [Idle EXCEPT !.op = "sweep"] ELSE Idle
    /\ UNCHANGED <<fixed, graph, outside, stack, failed, ops>>

\* A bind that resolved tears down what left the graph, both halves: the RHI
\* registrations and the compiled state; then it registers and resolves the
\* renderables the scene's bindings ask for.
Sweep ==
    /\ call.op = "sweep"
    /\ resident' = resident \cap registered
    /\ Evict(Unregistered)
    /\ \E bindings \in SUBSET (Extras \ registered) :
        LET all == registered \cup bindings
            set == IF bindings # {} /\ Buildable(all) THEN all ELSE dag
        IN  /\ registered' = all /\ dag' = set
            /\ status' = IF set = dag THEN status ELSE Pruned(set)
            /\ call' = IF bindings = {} THEN Idle ELSE Run("rebind", Terminals(set), "CachePreferred")
    /\ UNCHANGED <<fixed, entry, refused, stack, failed, ops>>

Step ==
    \/ VisitDep \/ DepFailed
    \/ ResolveRefused \/ ResolveHit \/ ResolveBegin \/ Compile \/ CompileFails
    \/ NodeKnown \/ NodeHit \/ NodeLoad \/ NodeRefused \/ NodeBegin \/ NodeBuild \/ NodeReturn
    \/ DemandBegin \/ DemandReturn
    \/ NextRoot \/ RootFailed \/ EndCall \/ EvictUndemanded \/ Sweep

HostStep ==
    \/ \E k \in Keys : Register(k) \/ Deregister(k) \/ Invalidate(k) \/ StartResolve(k)
    \/ \E k \in Assets, v \in {"stale", "foreign"} : HostWritesCache(k, v)
    \/ Commit \/ Restart \/ EvictUnregistered \/ StartResolveAll
    \/ \E R \in RootSets \cup {Terminals(dag)}, p \in Policies : StartResolveRoots(R, p)
    \/ \E draft \in SUBSET (Keys \ Extras), glbs \in SUBSET Extras : Bind(draft, glbs)

Next == Step \/ HostStep

Spec == Init /\ [][Next]_vars

-----------------------------------------------------------------------------
(* Correctness. *)

Frames ==
    [fn : {"resolve", "node"}, key : Keys, phase : {"enter", "deps", "build"}, todo : SUBSET Keys]

Calls ==
    [op : {"idle", "resolve", "resolve_all", "resolve_roots", "bind", "sweep", "rebind"},
     policy : Policies \cup {"none"}, todo : SUBSET Keys, roots : SUBSET Keys,
     resolved : SUBSET Keys, built : SUBSET Keys, errors : BOOLEAN]

TypeOK ==
    /\ deps \in Graphs /\ sealed \in BOOLEAN
    /\ registered \subseteq Keys /\ dag \subseteq Keys
    /\ cache \in [Keys -> {"none", "stale", "ours", "foreign"}]
    /\ compiled \subseteq Keys /\ touched \subseteq Keys
    /\ status \in [Keys -> {"none", "Pending", "Done", "Failed"}]
    /\ entry \in [Keys -> {"none", "intact", "torn"}] /\ resident \subseteq Keys
    /\ refused \subseteq Keys
    /\ stack \in Seq(Frames)
    /\ failed \in BOOLEAN /\ ops \in 0 .. MaxOps
    /\ call \in Calls

(* The cache slot and the compiled node of a key agree, except where the
   host wrote the cache itself: every path of every operation updates both
   (asset/system.h, invalidate(): "keeping BOTH halves ... in step"). *)
HalvesInStep == \A k \in Keys \ touched : cache[k] = "ours" <=> k \in compiled

(* When a compiler runs, every prerequisite has a compiled node that the
   cache vouches for: compiled_nodes_.at(dep_key) never throws, whatever the
   recursion over the later prerequisites evicted and erased. *)
CompilerSeesItsInputs ==
    Ready("resolve") => \A p \in deps[Key] : cache[p] = "ours" /\ p \in compiled

(* A compiled node still has the side effects of its compiler, unless the GPU
   turned its last upload down: a cache hit never stands for RHI state that a
   sweep has torn down (issue #311), nor for one that nobody published. *)
HitIsLit == compiled \cap Effectful \subseteq resident \cup refused

BuildsNow(k) == Ready("resolve") /\ Key = k /\ cache'[k] = "ours" /\ Len(stack') < Depth

(* "No prerequisite is compiled more than once": one host call builds a key
   at most once, also under ForceRecompile and through a diamond. *)
OncePerCall == [][\A k \in Keys : BuildsNow(k) => k \notin call.built]_vars

(* Under ForceRecompile nothing is built from what an earlier call left:
   every prerequisite was built again first. *)
ForcedBuildIsFresh ==
    [][\A k \in Keys : BuildsNow(k) /\ call.policy = "ForceRecompile" => deps[k] \subseteq call.built]_vars

\* k and what depends on it, directly or not
Above(k) ==
    {j \in Keys : \A A \in SUBSET Keys :
        k \in A /\ (\A i \in Keys : deps[i] \cap A # {} => i \in A) => j \in A}

(* After a bind that succeeded, every asset whose compiler has side effects
   is lit, unless the GPU turned its last upload down or a cache-served
   dependent made it unnecessary. *)
BindLeavesNothingDark ==
    [][call.op = "sweep" /\ ops' = ops =>
        \A k \in (dag \cap Effectful) \ refused :
            k \in resident' \/ (Above(k) \ {k}) \cap Cacheable # {}]_vars

====
