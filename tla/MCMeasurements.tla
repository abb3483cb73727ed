--------------------------- MODULE MCMeasurements ---------------------------
(* Measurements on small instances. *)
EXTENDS Measurements

\* Two latencies to a bucket.
MCBucket(t) == t \div 2
=============================================================================
