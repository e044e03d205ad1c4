---- MODULE MCStatechart ----
(* Two nodes and two versions of one chart, of which the later has one     *)
(* region and one pure operation more, and a text that does not parse.     *)
EXTENDS StatechartRunner

CONSTANTS v1, v2, bad

Commit(target) == [kind |-> "commit", ref |-> <<0, 0>>, outcome |-> -2, target |-> target]
After(target) == [kind |-> "after", seconds |-> 1, target |-> target]
Guard(target) == [kind |-> "guard", cond |-> "near", target |-> target]

Charts ==
    [ir \in {v1, v2, bad} |->
        IF ir = bad THEN NoChart
        ELSE IF ir = v1
          THEN [regions |-> <<1>>, states |-> << <<Commit(2)>>, <<After(1)>> >>, pure |-> 0]
          ELSE [regions |-> <<1, 3>>,
                states |-> << <<Commit(2)>>, <<After(1)>>, <<Guard(3)>> >>, pure |-> 1]]

Decisions == {-1, 0}
====
