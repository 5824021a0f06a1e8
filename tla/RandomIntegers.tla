--------------------------- MODULE RandomIntegers ---------------------------
(***************************************************************************)
(* GenerateRandomIntegers (libtasquake/src/utils.cpp): `number' integers    *)
(* in [min, max], in increasing order, any two at least minGap apart.  The  *)
(* optimizer places its random shots with it (RNGShooter) and the editor    *)
(* its random shots and toggles.                                            *)
(*                                                                          *)
(* The function fills the slots 0 .. number-1 in a random order.  For every *)
(* slot it keeps the interval [mins, maxs] its value may still come from;   *)
(* placing a value narrows the intervals of the slots on both sides with    *)
(* two loops that stop at the first slot that needs no change.  Every loop  *)
(* iteration is a step here, because the two loops stopping early is what   *)
(* could go wrong.                                                          *)
(***************************************************************************)
EXTENDS Integers, FiniteSets

CONSTANTS
    Args,   \* the argument lists the function may be called with
    MAX_N   \* capacity of the static arrays (99 in the code)

\* minGap is 1, 36 or a weapon delay in the callers: never negative.
ASSUME ArgsAssumption ==
    /\ Args \subseteq [number : Int, min : Int, max : Int, minGap : Nat]
    /\ MAX_N \in Nat

VARIABLES
    arg,                  \* the arguments of the call
    result, mins, maxs,   \* the three static arrays, indices below number
    i, next, u,           \* the local variables of the loops
    pc                    \* where the function is

randomVars == <<arg, result, mins, maxs, i, next, u, pc>>

number   == arg.number
min      == arg.min
max      == arg.max
minGap   == arg.minGap
Slots    == 0 .. number - 1
sentinel == min - 1
free_frames == (max - min) - (number - 1) * minGap

RandomInit ==
    /\ arg \in Args
    /\ result = <<>> /\ mins = <<>> /\ maxs = <<>>
    /\ i = 0 /\ next = 0 /\ u = 0
    /\ pc = "entry"

Refused == number <= 0 \/ free_frames < 0 \/ number > MAX_N

\* The three early returns of nullptr.
Refuse ==
    /\ pc = "entry" /\ Refused
    /\ pc' = "refused"
    /\ UNCHANGED <<arg, result, mins, maxs, i, next, u>>

\* The two initialisation loops.
Fill ==
    /\ pc = "entry" /\ ~Refused
    /\ result' = [k \in Slots |-> sentinel]
    /\ mins' = [k \in Slots |-> k * minGap + min]
    /\ maxs' = [k \in Slots |-> max - (number - k - 1) * minGap]
    /\ pc' = "pick"
    /\ UNCHANGED <<arg, i, next, u>>

\* index_dist draws from the closed interval [0, number].
Pick ==
    /\ pc = "pick" /\ i < number
    /\ \E draw \in 0 .. number : next' = draw % number
    /\ pc' = "probe"
    /\ UNCHANGED <<arg, result, mins, maxs, i, u>>

Return ==
    /\ pc = "pick" /\ i >= number
    /\ pc' = "done"
    /\ UNCHANGED <<arg, result, mins, maxs, i, next, u>>

\* while (result[next] != sentinel)
Probe_Bug ==
    /\ pc = "probe" /\ result[next] # sentinel
    /\ next' = (next + 2) % number
    /\ UNCHANGED <<arg, result, mins, maxs, i, u, pc>>

Probe ==
    /\ pc = "probe" /\ result[next] # sentinel
    /\ next' = (next + 1) % number
    /\ UNCHANGED <<arg, result, mins, maxs, i, u, pc>>

Place ==
    /\ pc = "probe" /\ result[next] = sentinel
    /\ \E value \in mins[next] .. maxs[next] :
          /\ result' = [result EXCEPT ![next] = value]
          /\ mins' = [mins EXCEPT ![next] = value]
          /\ maxs' = [maxs EXCEPT ![next] = value]
    /\ u' = next - 1
    /\ pc' = "lower"
    /\ UNCHANGED <<arg, i, next>>

\* The loop towards slot 0: its condition and its body.
MustLower_Bug == u > 0 /\ maxs[u] > maxs[u + 1] - minGap
MustLower == u >= 0 /\ maxs[u] > maxs[u + 1] - minGap

Lower ==
    /\ pc = "lower"
    /\ IF MustLower
       THEN /\ maxs' = [maxs EXCEPT ![u] = maxs[u + 1] - minGap]
            /\ u' = u - 1
            /\ pc' = pc
       ELSE /\ u' = next + 1
            /\ pc' = "raise"
            /\ UNCHANGED maxs
    /\ UNCHANGED <<arg, result, mins, i, next>>

\* The loop towards slot number - 1.
MustRaise_Bug == u < number /\ mins[u] < mins[u - 1]
MustRaise == u < number /\ mins[u] < mins[u - 1] + minGap

Raise ==
    /\ pc = "raise"
    /\ IF MustRaise
       THEN /\ mins' = [mins EXCEPT ![u] = mins[u - 1] + minGap]
            /\ u' = u + 1
            /\ UNCHANGED <<i, pc>>
       ELSE /\ i' = i + 1
            /\ pc' = "pick"
            /\ UNCHANGED <<mins, u>>
    /\ UNCHANGED <<arg, result, maxs, next>>

Returned == pc \in {"done", "refused"} /\ UNCHANGED randomVars

RandomNext == Refuse \/ Fill \/ Pick \/ Return \/ Probe \/ Place \/ Lower \/ Raise \/ Returned

\* A single-threaded function: it keeps running once called.
RandomSpec == RandomInit /\ [][RandomNext]_randomVars /\ WF_randomVars(RandomNext)

-----------------------------------------------------------------------------
Arrays == pc \notin {"entry", "refused"}

RandomTypeOK ==
    /\ arg \in Args
    /\ pc \in {"entry", "refused", "pick", "probe", "lower", "raise", "done"}
    /\ i \in Nat /\ next \in Int /\ u \in Int
    /\ Arrays => /\ ~Refused
                 /\ result \in [Slots -> Int]
                 /\ mins \in [Slots -> Int]
                 /\ maxs \in [Slots -> Int]
                 /\ i <= number
    /\ pc \in {"probe", "lower", "raise"} => next \in Slots /\ i < number
    /\ pc = "lower" => u \in -1 .. next - 1
    /\ pc = "raise" => u \in next + 1 .. number

\* The interval frame_dist draws from (utils.cpp:411) is never empty, whatever
\* slot is probed next: std::uniform_int_distribution requires a <= b.
DrawIntervalNonempty ==
    Arrays => \A k \in Slots : mins[k] <= maxs[k]

\* What the callers rely on: the returned frames lie in [min, max], increase,
\* and leave minGap frames between any two (RNGShooter: no shot before the
\* weapon is ready again).
ResultSpaced ==
    pc = "done" =>
       /\ \A k \in Slots : result[k] \in min .. max
       /\ \A k \in Slots : k + 1 \in Slots => result[k] + minGap <= result[k + 1]

\* Probing for a free slot and both narrowing loops come to an end.
Terminates == <>(pc \in {"done", "refused"})

=============================================================================
