---------------------------- MODULE MCSpscQueue ----------------------------
(* Model checking of the ring with a capacity the constructor rounds up.   *)
EXTENDS SpscQueue

CONSTANT RequestedCapacity  \* the constructor's argument

\* The loop of round_up_power_of_two; it ends by the time power reaches
\* 2 * RequestedCapacity.
round_up_power_of_two ==
    LET doubled[power \in 1 .. 2 * RequestedCapacity] ==
            IF power < RequestedCapacity THEN doubled[2 * power] ELSE power
    IN  doubled[1]

=============================================================================
