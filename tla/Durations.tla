------------------------------ MODULE Durations ------------------------------
(* time.Duration: the milliseconds of a flag or a job as an int64 of       *)
(* nanoseconds.                                                            *)
EXTENDS FixedWidth

CONSTANT NsPerMs    \* 1000000

ASSUME NsPerMsAssumption == NsPerMs \in Nat \ {0}

\* time.Duration(ms) * time.Millisecond.
Duration(ms) == Wrap(ms * NsPerMs)
=============================================================================
