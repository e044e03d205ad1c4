---- MODULE MCLogging ----
(* The logger and its service lane, small: each workload brings about one *)
(* kind of race, most of them together with the teardown of both.         *)
EXTENDS LoggerService

Load(p, r, w, f, c, t) ==
    [pushes |-> p, records |-> r, waits |-> w, flushes |-> f, cadences |-> c, teardowns |-> t]

MCWorkloads ==
    {Load(4, 0, 1, 0, 0, 0), Load(2, 0, 0, 0, 0, 1), Load(1, 0, 1, 0, 0, 1),
     Load(1, 1, 0, 0, 0, 1), Load(0, 2, 0, 0, 1, 1), Load(0, 1, 0, 1, 0, 1)}
====
