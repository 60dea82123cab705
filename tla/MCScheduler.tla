----------------------------- MODULE MCScheduler -----------------------------
\* Counters that advance, go back, or do one and the other.
EXTENDS Scheduler

MCReadings == {[idle |-> 1, busy |-> 0], [idle |-> 0, busy |-> 1],
               [idle |-> 1, busy |-> 2]}
=============================================================================
