----------------------------- MODULE MCIOWorker -----------------------------
(* IOWorker on small argument records: counted, timed, throttled, replayed,
   with and without the io log and the per-second counters. *)
EXTENDS IOWorker, TLC

Default == [qdepth |-> 3, io_count |-> 0, seconds |-> 2, delay |-> 0,
            io_sequence |-> <<>>, cmdlog_len |-> 0, per_second |-> FALSE,
            oversize |-> FALSE]

MCArgs == {
    Default,
    [Default EXCEPT !.io_count = 1],
    [Default EXCEPT !.io_count = 3],
    [Default EXCEPT !.qdepth = 2, !.cmdlog_len = 2],
    [Default EXCEPT !.io_count = 3, !.cmdlog_len = 2],
    [Default EXCEPT !.delay = 1],
    [Default EXCEPT !.per_second = TRUE],
    [Default EXCEPT !.oversize = TRUE],
    [Default EXCEPT !.io_sequence = <<0>>],
    [Default EXCEPT !.io_sequence = <<0, 1, 1, 2>>] }
=============================================================================
