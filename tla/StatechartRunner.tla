---- MODULE StatechartRunner ----
(***************************************************************************)
(* The interpreter of cognition statecharts: StatechartRunnerStore, a      *)
(* process-wide store of parsed charts and of the runtimes that run them,  *)
(* and the builtin behaviour module whose instances hold a handle into it. *)
(*                                                                         *)
(* A chart is what tick() indexes: its regions (each its initial state),   *)
(* its states with their transitions, the number of its pure operations.   *)
(* What the world answers a guard or an agent read is an input of a tick;  *)
(* what effects do to the world is left out.                               *)
(***************************************************************************)
EXTENDS Integers, SequencesExt

CONSTANTS
    Instances,   \* behaviour bindings of the module, by binding id
    Names,       \* chart names
    Irs,         \* IR texts
    Parse,       \* what parse_chart makes of each text; NoChart when it refuses it
    NoChart, NoIr,
    Outcomes,    \* what an agent can have committed to; -1 is undecided
    MaxElapsed,  \* bound: time in a state, where it saturates
    MaxCreated   \* bound: runtimes created

VARIABLES
    config,      \* the name and the text the editor embedded in each instance
    started,     \* started_bindings: instances self.start has been sent to
    handle,      \* StatechartRunnerState::handle, 0 before it is built
    charts,      \* charts_: the text under each name
    runtimes,    \* runtimes_: handle |-> Runtime
    next         \* next_

store == <<charts, runtimes, next>>
vars == <<config, started, handle, store>>

Init ==
    /\ config \in [Instances -> Names \X Irs]
    /\ started = {} /\ handle = [i \in Instances |-> 0]
    /\ charts = [n \in Names |-> NoIr] /\ runtimes = <<>> /\ next = 1

\* A runtime holds a pointer to the slot of its name, not to the text it was built from.
ChartOf(rt) == Parse[charts[rt.name]]

\* The (agent, slot) pairs that commit triggers name, in order of appearance, once.
CommitRefs(chart) ==
    LET transitions == FlattenSeq([s \in DOMAIN chart.states |-> chart.states[s]])
        commits == SelectSeq(transitions, LAMBDA t : t.kind = "commit")
    IN  FoldLeft(LAMBDA refs, t : IF Contains(refs, t.ref) THEN refs ELSE Append(refs, t.ref),
                 <<>>, commits)

Fresh(name, chart) ==
    LET refs == CommitRefs(chart)
    IN  [name |-> name, active |-> chart.regions,
         elapsed |-> [r \in DOMAIN chart.regions |-> 0],
         refs |-> refs, last |-> [j \in DOMAIN refs |-> -2], pure |-> chart.pure]

\* self.start, once for each binding: load(), which replaces the text under the
\* name when it differs, then create().
SelfStart(i) ==
    /\ i \notin started /\ next <= MaxCreated
    /\ started' = started \cup {i}
    /\ UNCHANGED config
    /\ LET name == config[i][1]
           ir == config[i][2]
       IN  IF handle[i] # 0 \/ Parse[ir] = NoChart
             THEN UNCHANGED <<handle, store>>
             ELSE /\ charts' = [charts EXCEPT ![name] = ir]
                  /\ runtimes' = [h \in 1..next |->
                       IF h = next THEN Fresh(name, Parse[ir]) ELSE runtimes[h]]
                  /\ handle' = [handle EXCEPT ![i] = next]
                  /\ next' = next + 1

\* The editor attaches another text to a node, or embeds an edited chart again.
Embed(i, name, ir) ==
    /\ config' = [config EXCEPT ![i] = <<name, ir>>]
    /\ UNCHANGED <<started, handle, store>>

\* The node leaves the scene, or the scene is swapped: a rebuild prunes the
\* binding's state and its self.start mark. Nobody calls destroy() or retain().
Prune(i) ==
    /\ i \in started
    /\ started' = started \ {i}
    /\ handle' = [handle EXCEPT ![i] = 0]
    /\ UNCHANGED <<config, store>>

\* What tick() indexes is there: the vectors of the runtime were sized for this
\* chart. Outside them the behaviour is undefined, and the model has no step.
Fits(rt) ==
    LET c == ChartOf(rt)
    IN  /\ Len(rt.active) >= Len(c.regions)
        /\ \A r \in DOMAIN c.regions : rt.active[r] \in DOMAIN c.states
        /\ rt.pure >= c.pure

\* A trigger against the snapshot of this frame; world has the guards that hold
\* and the events that were delivered.
Fires(t, rt, r, cur, world) ==
    CASE t.kind = "commit" -> \E j \in DOMAIN rt.refs :
                                  /\ rt.refs[j] = t.ref
                                  /\ cur[j] >= 0 /\ rt.last[j] < 0
                                  /\ t.outcome < 0 \/ cur[j] = t.outcome
      [] t.kind = "after" -> rt.elapsed[r] >= t.seconds
      [] OTHER -> t.cond \in world

\* The transitions of the region's state that fire; the first of them is taken.
Firing(rt, r, cur, world) ==
    LET c == ChartOf(rt)
        ts == IF r \in DOMAIN c.regions THEN c.states[rt.active[r]] ELSE <<>>
    IN  SelectSeq(ts, LAMBDA t : Fires(t, rt, r, cur, world))

\* frame.update: the control step of every region on one snapshot of the
\* decisions, then the clocks and the edge detectors advance.
Tick(i, dt) ==
    /\ i \in started /\ handle[i] # 0
    /\ LET rt == runtimes[handle[i]]
           conds == {t.cond : t \in {t \in UNION {Range(ts) : ts \in Range(ChartOf(rt).states)} :
                                       t.kind \in {"guard", "event"}}}
       IN  /\ Fits(rt)
           /\ \E cur \in [DOMAIN rt.refs -> Outcomes], world \in SUBSET conds :
                LET fired(r) == Firing(rt, r, cur, world)
                    clock(r) == IF fired(r) = <<>> THEN rt.elapsed[r] ELSE 0
                IN  runtimes' = [runtimes EXCEPT ![handle[i]] =
                      [rt EXCEPT !.active = [r \in DOMAIN @ |->
                                   IF fired(r) = <<>> THEN @[r] ELSE Head(fired(r)).target],
                                 !.elapsed = [r \in DOMAIN @ |->
                                   IF clock(r) + dt > MaxElapsed THEN MaxElapsed
                                                                 ELSE clock(r) + dt],
                                 !.last = cur]]
    /\ UNCHANGED <<config, started, handle, charts, next>>

Next ==
    \E i \in Instances :
        \/ SelfStart(i) \/ Prune(i) \/ (\E dt \in 0..1 : Tick(i, dt))
        \/ (\E n \in Names, ir \in Irs : Embed(i, n, ir))

Spec == Init /\ [][Next]_vars

-----------------------------------------------------------------------------
\* "Insert or REPLACE ... Safe because load runs on self.start (fresh runtimes);
\* prior runtimes were destroyed on the previous scene teardown": a runtime that
\* an instance of the scene runs still fits the chart under its name.
ReplaceIsSafe == \A i \in Instances : handle[i] # 0 => Fits(runtimes[handle[i]])
====
