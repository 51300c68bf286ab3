------------------------------- MODULE Report -------------------------------
(***************************************************************************)
(* What close() makes of the tables an io worker sends back (class         *)
(* _IOWorker of src/driver_wrap.pyx): percentile latencies, IOPS per       *)
(* second and their consistency, counts per opcode, the name of the error. *)
(***************************************************************************)
EXTENDS Integers, Sequences, SequencesExt

CONSTANT Outcomes   \* what workers have done

VARIABLES outcome,  \* what the worker process has sent
          report    \* what close has returned, or NoReport

repvars == <<outcome, report>>

NoReport == [done |-> FALSE]

(* An outcome has: error (0 or negative), status (of the device), mseconds,
   seconds (commands completed in each), latency (commands for every latency,
   from 0), percentage and sent (for every opcode, what the script asked for
   and what was sent), percentiles (asked for), and collect, whether the
   script gave a list for the counts per second. *)
ReportInit ==
    /\ outcome \in Outcomes
    /\ report = NoReport

SumOf(s) == FoldSeq(LAMBDA x, y : x + y, 0, s)

Cumulated(s, l) == SumOf(SubSeq(s, 1, l + 1))

-----------------------------------------------------------------------------
(* find_percentile_latency: the first latency at which the commands reach the
   target. *)
find_percentile_latency(k, counts) ==
    LET target == (SumOf(counts) * k) \div 100
    IN  CHOOSE l \in 0 .. Len(counts) - 1 :
            /\ Cumulated(counts, l) >= target
            /\ \A m \in 0 .. l - 1 : Cumulated(counts, m) < target

(* ioworker_entry counts on from the percentages that are in op_counter. *)
MutOpCounter_FromZero == outcome.sent

op_counter == [op \in DOMAIN outcome.percentage |->
                  outcome.percentage[op] + outcome.sent[op]]

(* output_io_per_second[:mseconds//1000]. *)
PerSecond == SubSeq(outcome.seconds, 1,
                    IF outcome.mseconds \div 1000 < Len(outcome.seconds)
                    THEN outcome.mseconds \div 1000 ELSE Len(outcome.seconds))

(* iops_consistency: the slowest second but one in a thousand, as a fraction
   of the average, numerator and denominator. *)
Descending(s) == SortSeq(s, LAMBDA x, y : x > y)

iops_consistency(s) ==
    LET i == ((999 * Len(s)) \div 10) \div 100
    IN  <<Descending(s)[i + 1] * Len(s), SumOf(s)>>

(* close.  A worker of less than a second leaves no counts, and a worker
   without a completion an average of zero: the call raises. *)
Raises == outcome.collect /\ (PerSecond = <<>> \/ SumOf(PerSecond) = 0)

ErrorName(e) == IF -e > 7 THEN 8 ELSE -e

close ==
    /\ report = NoReport
    /\ report' =
         IF Raises THEN [done |-> TRUE, raised |-> TRUE]
         ELSE [done |-> TRUE, raised |-> FALSE,
               error |-> ErrorName(outcome.error),
               per_second |-> IF outcome.collect THEN PerSecond ELSE <<>>,
               consistency |-> IF outcome.collect
                               THEN iops_consistency(PerSecond) ELSE <<1, 1>>,
               percentile |-> [k \in outcome.percentiles |->
                                  find_percentile_latency(k, outcome.latency)],
               counts |-> [op \in DOMAIN outcome.percentage |->
                              op_counter[op] - outcome.percentage[op]]]
    /\ UNCHANGED outcome

(* What the script reads is what the worker did: per opcode the commands sent
   and not the percentages they were counted on; for each percentile k the
   smallest latency within which no fewer than k commands in a hundred were
   completed, rounded down to a whole command; no second that the worker did
   not run; and a consistency that is never above one when no second is
   slower than the slowest. *)
ReportsTheRun ==
    report.done =>
      \/ report.raised /\ outcome.collect
      \/ /\ ~report.raised
         /\ report.counts = outcome.sent
         /\ \A k \in outcome.percentiles :
              LET within(l) == Cumulated(outcome.latency, l)
                  all       == SumOf(outcome.latency)
                  p         == report.percentile[k]
              IN  /\ 100 * (within(p) + 1) > all * k
                  /\ p > 0 => 100 * within(p - 1) < all * k
         /\ Len(report.per_second) * 1000 <= outcome.mseconds
         /\ report.consistency[1] <= report.consistency[2]
         /\ outcome.error < 0 <=> report.error # 0
=============================================================================
