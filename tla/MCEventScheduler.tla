-------------------------- MODULE MCEventScheduler --------------------------
EXTENDS EventScheduler

CONSTANTS r1, r2, w1, w2, start_a, none_b

Affected == [e \in 1 .. MaxEvents |-> IF e = 1 THEN {r1} ELSE Run]
\* The first event affects task a or none, the second a task b as well.
Returned == [e \in 1 .. MaxEvents |-> IF e = 1 THEN {{start_a}, {}} ELSE {{start_a, none_b}}]
Events == 1 .. MaxEvents
=============================================================================
