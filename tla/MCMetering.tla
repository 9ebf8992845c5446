------------------------------ MODULE MCMetering ------------------------------
(* Metering for TLC. *)
EXTENDS Metering

CONSTANTS t1, t2, t3, k1, hour, week

MCTurns == {t1, t2, t3}
\* The first two deliveries are one request, sent twice.
MCKey == [t \in Turns |-> IF t = t3 THEN NoKey ELSE k1]
MCSeries == <<hour, week>>
\* The week refuses what the hour would still admit.
MCLimit == [s \in {hour, week} |-> IF s = hour THEN 4 ELSE 3]
\* Room for both deliveries.
MCWideLimit == [s \in {hour, week} |-> 9]
===============================================================================
