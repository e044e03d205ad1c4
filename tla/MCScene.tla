---- MODULE MCScene ----
(* The save path, small: what the owner threads may do in a behaviour.     *)
EXTENDS SceneSave

CONSTANTS c1, c2, main, side, e1, e2

Plan(callers, scenes, edits, pose, posed, saves, opens) ==
    [callers |-> callers, scenes |-> scenes, edits |-> edits, pose |-> pose,
     posed |-> posed, save |-> saves, open |-> opens]

\* Two threads save; one saves and opens scenes; one saves while the camera
\* moves, and opens the scene again.
SavePlans ==
    {Plan({c1, c2}, {main}, {e1}, 1, {}, 2, 0),
     Plan({c1}, {main, side}, {e1, e2}, 0, {main}, 2, 1),
     Plan({c1}, {main}, {e1}, 1, {main}, 1, 1)}

\* A save and an open are inside when the runtime is stopped.
StopPlans == {Plan({c1, c2}, {main}, {e1}, 0, {main}, 1, 1)}

\* One thread posts an edit and saves.
PostPlans == {Plan({c1}, {main}, {e1}, 0, {main}, 1, 0)}
====
