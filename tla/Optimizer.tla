----------------------------- MODULE Optimizer ------------------------------
(***************************************************************************)
(* The optimizer (libtasquake/src/optimizer.cpp) as the simulator drives it *)
(* between host frames (SimOptimizer_Frame, Source/tas/optimizer_quake.cpp):*)
(* a script is played over and over, each run is given an efficacy, the best*)
(* run is kept, and one of six algorithms changes the script before the next*)
(* run.                                                                     *)
(*                                                                          *)
(* What a run achieves is physics.  Here an unknown objective, chosen in    *)
(* Init, gives the efficacy of a script; goal and run conditions, which the *)
(* first run settles, are part of it.  Angles are integers on a circle of   *)
(* Circle points, and random numbers are any of a small set.  Every run has *)
(* as many frames as the first: no run is cut short by m_dMaxTime, since a  *)
(* simulated frame always takes the same time.                              *)
(***************************************************************************)
EXTENDS Script, SequencesExt

CONSTANTS
    Scripts,            \* scripts the user has or edits to, with the current frame
    Objectives,         \* records: final yaw -> value, and weight of the last frame
    GiveUps,            \* values of m_uGiveUpAfterNoProgress
    ResetToBest,        \* m_uResetToBestIterations
    MaxLength,          \* tas_predict_maxlength and
    EndOffset,          \* tas_predict_endoffset, in frames
    Reach,              \* how far the last block may be moved to the right (36)
    ShotGap,            \* frames between random shots (36), and
    MAX_N,              \* how many GenerateRandomIntegers places (99)
    Circle,             \* 360 degrees
    INVALID_ANGLE,
    RandomYaws,         \* what Random(0, 360) may return
    SmallYaws,          \* what Random(-5, 5), and the increments of StrafeBounds, may be
    SearchMaxs,         \* what Random(-90, 90) may return
    MappingIterations,  \* m_uMappingIterations (5)
    EPS,
    MaxCount,           \* the counter of runs without progress stops here
    MaxPicks,           \* algorithms picked, and
    MaxEdits            \* edits of the user, in a behaviour

VARIABLES
    objective,
    giveUp,
    source,     \* the user's script and current frame
    opt,        \* struct Optimizer, the algorithms included
    sim,        \* the statics of optimizer_quake.cpp
    picks, edits,
    search      \* history: the last search of the turn optimizer that ended, if any

vars == <<objective, giveUp, source, opt, sim, picks, edits, search>>

Lowest == -1000     \* std::numeric_limits<double>::lowest()
None == 0       \* the -1 of the block indices, which are one-based here

Half == Circle \div 2
NormalizeDeg(yaw) == ((yaw + Half) % Circle) - Half
Abs(n) == IF n < 0 THEN -n ELSE n
HasYaw(block) == "tas_strafe_yaw" \in DOMAIN block.convars
Yaw(block) == block.convars["tas_strafe_yaw"]
SetYaw(script, i, yaw) ==
    [script EXCEPT ![i].convars = With(@, "tas_strafe_yaw", NormalizeDeg(yaw))]

FinalYaw(script) ==
    LET i == SelectLastInSeq(script, HasYaw) IN IF i = 0 THEN 0 ELSE Yaw(script[i])

\* CalculateEfficacy.
Efficacy(script) ==
    LET value == objective.value[FinalYaw(script)]
    IN  IF value = Lowest THEN Lowest
        ELSE value + objective.weight * Get_Last_Frame(script)

NewRun(script) == [script |-> script, frames |-> 0, efficacy |-> Lowest]

IsBetterThan(run, best) ==
    run.frames > 0 /\ (best.frames = 0 \/ run.efficacy > best.efficacy)

-----------------------------------------------------------------------------
\* struct RollingStone

NewStone == [prev |-> 0, value |-> 0, delta |-> 0, max |-> 0]

ShouldContinue(stone, efficacy) == efficacy > stone.prev /\ stone.value # stone.max

NextValue(stone) ==
    LET delta == 2 * stone.delta
        value == stone.value + delta
    IN  [stone EXCEPT !.delta = delta,
                      !.value = IF delta < 0 THEN MaxOf(value, stone.max)
                                ELSE MinOf(value, stone.max)]

-----------------------------------------------------------------------------
\* struct CliffFinder and struct BinSearcher

NewCliff == [state |-> "NotCliffing", edge |-> 0, edgeEfficacy |-> 0,
             ground |-> 0, groundEfficacy |-> 0]

\* The drops of CliffFinder::Init: where the value before one was the largest so
\* far, seen from the left (step 1) or from the right (step -1).
Drops(vec, step) ==
    {i \in DOMAIN vec :
        /\ i + step \in DOMAIN vec
        /\ vec[i + step].efficacy < vec[i].efficacy
        /\ \A k \in DOMAIN vec : step * k <= step * i => vec[k].efficacy <= vec[i].efficacy}

DropOf(vec, step, i) == vec[i].efficacy - vec[i + step].efficacy

\* The first of the deepest drops in the order of the loop, as a set.
Deepest(vec, step) ==
    {i \in Drops(vec, step) : \A k \in Drops(vec, step) :
        \/ DropOf(vec, step, i) > DropOf(vec, step, k)
        \/ DropOf(vec, step, i) = DropOf(vec, step, k) /\ step * i <= step * k}

Depth(vec, step) ==
    IF Deepest(vec, step) = {} THEN 0
    ELSE DropOf(vec, step, CHOOSE i \in Deepest(vec, step) : TRUE)

\* Without a drop, or with two that are equally deep, there is no cliff to find.
CliffFinder_Init(vec) ==
    LET step == IF Depth(vec, 1) > Depth(vec, -1) THEN 1 ELSE -1
        i    == CHOOSE k \in Deepest(vec, step) : TRUE
    IN  IF Depth(vec, 1) = Depth(vec, -1) THEN NewCliff
        ELSE [state |-> "InProgress",
              edge |-> vec[i].value, edgeEfficacy |-> vec[i].efficacy,
              ground |-> vec[i + step].value, groundEfficacy |-> vec[i + step].efficacy]

CliffFinder_GetValue(cliff) ==
    IF cliff.state = "Finished" THEN cliff.edge ELSE (cliff.edge + cliff.ground) \div 2

\* Mutant: a run that is worse moves the edge.
CliffFinder_Report_Bug(cliff, result) ==
    LET value == CliffFinder_GetValue(cliff)
        c     == IF result < cliff.edgeEfficacy
                 THEN [cliff EXCEPT !.edge = value, !.edgeEfficacy = result]
                 ELSE [cliff EXCEPT !.ground = value, !.groundEfficacy = result]
    IN  IF Abs(c.edge - c.ground) < EPS THEN [c EXCEPT !.state = "Finished"] ELSE c

CliffFinder_Report(cliff, result) ==
    LET value == CliffFinder_GetValue(cliff)
        c     == IF result >= cliff.edgeEfficacy
                 THEN [cliff EXCEPT !.edge = value, !.edgeEfficacy = result]
                 ELSE [cliff EXCEPT !.ground = value, !.groundEfficacy = result]
    IN  IF Abs(c.edge - c.ground) < EPS THEN [c EXCEPT !.state = "Finished"] ELSE c

\* Reset leaves the mapping behind; Init empties it before it is read.
NewSearcher == [state |-> "NoSearch", orig |-> 0, max |-> 0, mapping |-> <<>>,
                iteration |-> 0, cliff |-> NewCliff]

BinSearcher_Init(s, orig, efficacy, max) ==
    [s EXCEPT !.state = "MappingSpace", !.cliff = NewCliff, !.orig = orig, !.max = max,
              !.mapping = <<[value |-> orig, efficacy |-> efficacy]>>]

BinSearcher_GetValue(s) ==
    CASE s.state = "MappingSpace" ->
            s.orig + (s.max - s.orig) \div 2^(MappingIterations - s.iteration)
      [] s.state = "BinarySearch" -> CliffFinder_GetValue(s.cliff)
      [] s.state = "Finished" ->
            IF s.cliff.state = "Finished" THEN s.cliff.edge ELSE s.orig

BinSearcher_Report(s, result) ==
    LET mapping == Append(s.mapping,
                          [value |-> BinSearcher_GetValue(s), efficacy |-> result])
        cliff   == CliffFinder_Report(s.cliff, result)
    IN  CASE s.state = "MappingSpace" /\ s.iteration = MappingIterations ->
                [s EXCEPT !.mapping = mapping, !.state = "BinarySearch",
                          !.cliff = CliffFinder_Init(mapping)]
          [] s.state = "MappingSpace" /\ s.iteration # MappingIterations ->
                [s EXCEPT !.mapping = mapping, !.iteration = @ + 1]
          [] OTHER ->
                [s EXCEPT !.cliff = cliff,
                          !.state = IF cliff.state = "Finished" THEN "Finished" ELSE @]

-----------------------------------------------------------------------------
\* The algorithms.  Mutate returns the optimizers it may leave behind, one for
\* every random choice.

\* FindSuitableBlock: any block that satisfies the predicate, else None.
FindSuitableBlock(suitable) == IF suitable = {} THEN {None} ELSE suitable

MovableBlocks(script) ==
    LET Movable(i) == \/ i = Len(script)
                      \/ script[i + 1].frame > script[i].frame + 1
                      \/ i > 1 /\ script[i - 1].frame < script[i].frame - 1
    IN  {i \in DOMAIN script : Movable(i)}

\* find_block_minmax
MinFrame(script, i) == IF i = 1 THEN 0 ELSE script[i - 1].frame + 1
MaxFrame(script, i, lastFrame) ==
    IF i = Len(script) THEN MinOf(lastFrame - 1, script[i].frame + Reach)
    ELSE script[i + 1].frame - 1

\* Mutant: the frame of the next block but one is a choice too.
RandomFrames_Bug(min, max) == MinOf(min, max + 2) .. MaxOf(min, max + 2)

\* Random(min, max + 1) counts down when the blocks lie behind the last frame.
RandomFrames(min, max) == MinOf(min, max + 1) .. MaxOf(min, max + 1)

RNGBlockMover_Mutate(script, lastFrame) ==
    UNION {LET min == MinFrame(script, i)
               max == MaxFrame(script, i, lastFrame)
               Target(r) == IF r # 0 THEN r
                            ELSE IF min < script[i].frame THEN min ELSE max
               targets == {Target(r) : r \in RandomFrames(min, max)}
           IN  {ShiftBlocks(script, i, t - script[i].frame) : t \in targets}
                   \cup {[script EXCEPT ![i].frame = t] : t \in targets}
           : i \in FindSuitableBlock(MovableBlocks(script))}

RNGStrafer_Mutate(script) ==
    UNION {{SetYaw(script, i, yaw) : yaw \in
               RandomYaws \cup (IF HasYaw(script[i])
                                THEN {Yaw(script[i]) + d : d \in SmallYaws} ELSE {})}
           : i \in DOMAIN script}

\* GenerateRandomIntegers: RandomIntegers has its algorithm.
RandomIntegerSets(number, max) ==
    {S \in kSubset(number, 0 .. max) : \A a, b \in S : a < b => b - a >= ShotGap}

AddRandomShot(script, frame) ==
    AddToggle(AddToggle(script, "attack", TRUE, frame), "attack", FALSE, frame + 1)

\* For more shots than MAX_N there are no integers, and the script has lost its toggles.
RNGShooter_Mutate(script, lastFrame) ==
    LET without == RemoveTogglesFromRange(script, "attack", 0, lastFrame)
        counts  == 1 .. (lastFrame \div ShotGap) + 1
    IN  {FoldLeft(AddRandomShot, without, SetToSortSeq(S, <)) :
            S \in UNION {RandomIntegerSets(n, lastFrame) : n \in {n \in counts : n <= MAX_N}}}
        \cup {without : n \in {n \in counts : n > MAX_N}}

\* StrafeBounds: the angles at which the path changes are in the data of the run.
\* The branch that is taken when one of the two is invalid picks the invalid one.
StrafeAdjuster_Starts(yaw, efficacy) ==
    LET mins == {-INVALID_ANGLE} \cup {d \in SmallYaws : d < 0}
        maxs == {INVALID_ANGLE} \cup {d \in SmallYaws : d > 0}
        Up(max) == [prev |-> efficacy, value |-> yaw + max, delta |-> max,
                    max |-> yaw + Half]
        Down(min) == [prev |-> efficacy, value |-> yaw + min, delta |-> min,
                      max |-> yaw - Half]
        Picked(min, max) ==
            CASE min = -INVALID_ANGLE -> {Down(min)}
              [] min # -INVALID_ANGLE /\ max = INVALID_ANGLE -> {Up(max)}
              [] OTHER -> {Up(max), Down(min)}
    IN  UNION {Picked(m[1], m[2]) : m \in (mins \X maxs) \ {<<-INVALID_ANGLE, INVALID_ANGLE>>}}

YawBlocks(script) == {i \in DOMAIN script : HasYaw(script[i])}

\* The search starts from the efficacy of the last run, also when the script has
\* been reset to that of the best run since.
StrafeAdjuster_Mutate(o) ==
    LET script == o.run.script
        Rolled(a) == [o EXCEPT !.adjuster = a,
                               !.run.script = SetYaw(script, a.index, a.stone.value)]
    IN  IF o.adjuster.index # None THEN {Rolled(o.adjuster)}
        ELSE {o} \cup
             {Rolled(a) : a \in UNION {[index : {i}, stone : StrafeAdjuster_Starts(Yaw(script[i]), o.run.efficacy)]
                                       : i \in FindSuitableBlock(YawBlocks(script)) \ {None}}}

FrameBlockMover_Starts(o, i) ==
    LET script == o.run.script
        frame  == script[i].frame
        Start(delta, max) == [prev |-> o.run.efficacy, value |-> frame + delta,
                              delta |-> delta, max |-> max]
        min == MinFrame(script, i)
        max == MaxFrame(script, i, o.lastFrame)
    IN  (IF max # frame THEN {Start(1, max)} ELSE {})
            \cup (IF min # frame THEN {Start(-1, min)} ELSE {})

\* Mutant: the algorithm keeps the block when the stone stops.
Roll_Bug(a, efficacy) ==
    IF ShouldContinue(a.stone, efficacy) THEN [a EXCEPT !.stone = NextValue(@)] ELSE a

\* ReportResult of the two algorithms that roll a stone.
Roll(a, efficacy) ==
    IF ShouldContinue(a.stone, efficacy) THEN [a EXCEPT !.stone = NextValue(@)]
    ELSE [a EXCEPT !.index = None]

\* A block that can move neither way stays picked, with the stone of an earlier one.
FrameBlockMover_Mutate(o) ==
    LET script == o.run.script
        Rolled(a) == [o EXCEPT !.mover = a,
                               !.run.script = ShiftBlocks(script, a.index,
                                                  a.stone.value - script[a.index].frame)]
        Begin(i) == IF FrameBlockMover_Starts(o, i) = {} THEN {[o EXCEPT !.mover.index = i]}
                    ELSE {Rolled([index |-> i, stone |-> t]) : t \in FrameBlockMover_Starts(o, i)}
    IN  IF o.mover.index # None THEN {Rolled(o.mover)}
        ELSE UNION {Begin(i) : i \in FindSuitableBlock(MovableBlocks(script))}

NewTurn == [turn |-> None, strafe |-> None, orig |-> 0, searchMax |-> 0,
            searcher |-> NewSearcher]

FindStrafeBlock(script, turn) ==
    LET i == SelectLastInSubSeq(script, 1, turn - 1, HasYaw) IN IF i = 0 THEN turn ELSE i

TurnFrameBlocks(script) == {i \in YawBlocks(script) : FindStrafeBlock(script, i) # i}

\* TurnOptimizer::Init moves the turn by a frame, if it can, and Mutate tries
\* another yaw before or after the turn in each of the runs that follow.
TurnOptimizer_Init(o) ==
    LET script == o.run.script
        Begin(turn, strafe, delta, max) ==
            LET shifted == ShiftBlocks(script, turn, delta)
            IN  IF shifted = script THEN o
                ELSE [o EXCEPT !.run.script = shifted,
                               !.turn = [@ EXCEPT !.turn = turn, !.strafe = strafe,
                                                  !.orig = Yaw(script[strafe]),
                                                  !.searchMax = max]]
    IN  UNION {IF turn = None THEN {o}
               ELSE {Begin(turn, strafe, delta, max) :
                        strafe \in {turn, FindStrafeBlock(script, turn)},
                        delta \in {-1, 1}, max \in SearchMaxs}
               : turn \in FindSuitableBlock(TurnFrameBlocks(script))}

TurnOptimizer_Mutate(o) ==
    IF o.turn.turn = None THEN TurnOptimizer_Init(o)
    ELSE {[o EXCEPT !.run.script =
              SetYaw(@, o.turn.strafe, BinSearcher_GetValue(o.turn.searcher))]}

TurnOptimizer_ReportResult(t, efficacy) ==
    [t EXCEPT !.searcher =
        IF @.state = "NoSearch" THEN BinSearcher_Init(@, t.orig, efficacy, t.orig + t.searchMax)
        ELSE BinSearcher_Report(@, efficacy)]

Algorithms == {"RNGBlockMover", "RNGStrafer", "RNGShooter", "StrafeAdjuster",
               "FrameBlockMover", "TurnOptimizer"}

Mutate(o) ==
    CASE o.current = "RNGBlockMover" ->
            {[o EXCEPT !.run.script = s] : s \in RNGBlockMover_Mutate(o.run.script, o.lastFrame)}
      [] o.current = "RNGStrafer" ->
            {[o EXCEPT !.run.script = s] : s \in RNGStrafer_Mutate(o.run.script)}
      [] o.current = "RNGShooter" ->
            {[o EXCEPT !.run.script = s] : s \in RNGShooter_Mutate(o.run.script, o.lastFrame)}
      [] o.current = "StrafeAdjuster" -> StrafeAdjuster_Mutate(o)
      [] o.current = "FrameBlockMover" -> FrameBlockMover_Mutate(o)
      [] o.current = "TurnOptimizer" -> TurnOptimizer_Mutate(o)

ReportResult(o) ==
    CASE o.current = "StrafeAdjuster" -> [o EXCEPT !.adjuster = Roll(@, o.run.efficacy)]
      [] o.current = "FrameBlockMover" -> [o EXCEPT !.mover = Roll(@, o.run.efficacy)]
      [] o.current = "TurnOptimizer" ->
            [o EXCEPT !.turn = TurnOptimizer_ReportResult(@, o.run.efficacy)]
      [] OTHER -> o

WantsToContinue(o) ==
    \/ o.current = "StrafeAdjuster" /\ o.adjuster.index # None
    \/ o.current = "FrameBlockMover" /\ o.mover.index # None
    \/ /\ o.current = "TurnOptimizer"
       /\ o.turn.turn # None
       /\ o.turn.searcher.state # "Finished"

\* Reset of the algorithm that has ended.
Reset(o) ==
    [o EXCEPT !.current = "none",
              !.adjuster.index = IF o.current = "StrafeAdjuster" THEN None ELSE @,
              !.turn = IF o.current = "TurnOptimizer" THEN NewTurn ELSE @]

-----------------------------------------------------------------------------
\* _FinishIteration, in the parts that its early return divides.

\* Mutant: the best run takes the script without its efficacy.
Evaluated_Bug(o) ==
    LET run == [o.run EXCEPT !.efficacy = Efficacy(o.run.script)]
    IN  IF IsBetterThan(run, o.best)
        THEN [o EXCEPT !.run = run, !.best = [run EXCEPT !.efficacy = o.best.efficacy],
                       !.noProgress = 0]
        ELSE [o EXCEPT !.run = run, !.noProgress = MinOf(MaxCount, @ + 1)]

Evaluated(o) ==
    LET run == [o.run EXCEPT !.efficacy = Efficacy(o.run.script)]
    IN  IF IsBetterThan(run, o.best)
        THEN [o EXCEPT !.run = run, !.best = run, !.noProgress = 0]
        ELSE [o EXCEPT !.run = run, !.noProgress = MinOf(MaxCount, @ + 1)]

\* The algorithm learns the result and continues, or ends and gives way to another.
Reported(o) ==
    LET told == ReportResult(o)
    IN  IF o.current = "none" \/ WantsToContinue(told) THEN told
        ELSE [Reset(told) EXCEPT !.run.script = IF o.noProgress >= ResetToBest
                                                THEN o.best.script ELSE @]

\* RandomizeIndex picks any algorithm; WantsToRun is never asked.
Selected(o) ==
    IF o.current # "none" THEN {o} ELSE {[o EXCEPT !.current = a] : a \in Algorithms}

\* Mutant: the first run is shown for good.
InitNewIteration_Bug(s) ==
    IF s.first THEN [s EXCEPT !.bestEfficacy = opt.best.efficacy, !.first = FALSE] ELSE s

\* InitNewIteration keeps the efficacy of the best run for display.
InitNewIteration(s) ==
    CASE s.first -> [s EXCEPT !.bestEfficacy = opt.best.efficacy, !.first = FALSE]
      [] ~s.first /\ opt.run.efficacy > s.bestEfficacy -> [s EXCEPT !.bestEfficacy = opt.run.efficacy]
      [] OTHER -> s

\* Optimizer::Init takes the script from the current frame on.
OptimizerInit(script, frame) ==
    LET best == NewRun(IF frame = 0 THEN script ELSE GetTimeShiftedVersion(script, frame))
        diffy == MaxOf(2, Get_Last_Frame(script) + EndOffset - frame)
    IN  [best |-> best, run |-> best, noProgress |-> 0, current |-> "none",
         lastFrame |-> MinOf(MaxLength, diffy),
         adjuster |-> [index |-> None, stone |-> NewStone],
         mover |-> [index |-> None, stone |-> NewStone],
         turn |-> NewTurn]

Init ==
    /\ objective \in Objectives
    /\ giveUp \in GiveUps
    /\ source \in Scripts
    /\ opt = OptimizerInit(<<>>, 0)
    /\ sim = [state |-> "Stop", first |-> FALSE, bestEfficacy |-> 0, edited |-> TRUE]
    /\ picks = 0 /\ edits = 0
    /\ search = {}

\* The user edits the script or goes to another frame.
Edit ==
    /\ edits < MaxEdits
    /\ source' \in Scripts \ {source}
    /\ sim' = [sim EXCEPT !.edited = TRUE]
    /\ edits' = edits + 1
    /\ UNCHANGED <<objective, giveUp, opt, picks, search>>

InitOptimizer ==
    /\ sim.edited
    /\ opt' = OptimizerInit(source.script, source.frame)
    /\ sim' = [sim EXCEPT !.edited = FALSE, !.first = TRUE, !.state = "ContinueIteration"]
    /\ search' = {}
    /\ UNCHANGED <<objective, giveUp, source, picks, edits>>

\* The loop of SimOptimizer_Frame: ResetIteration if a run begins, a frame of the
\* simulator, and OnRunnerFrame.
ToRun == IF sim.state = "NewIteration" THEN NewRun(opt.run.script) ELSE opt.run
Ran == [opt EXCEPT !.run = [ToRun EXCEPT !.frames = @ + 1]]
Begun == IF sim.state = "NewIteration" THEN InitNewIteration(sim) ELSE sim

RunFrame ==
    /\ ~sim.edited /\ sim.state # "Stop"
    /\ Ran.run.frames < opt.lastFrame
    /\ opt' = Ran
    /\ sim' = [Begun EXCEPT !.state = "ContinueIteration"]
    /\ UNCHANGED <<objective, giveUp, source, picks, edits, search>>

GiveUp(o) ==
    /\ o.noProgress >= giveUp
    /\ opt' = o
    /\ sim' = [Begun EXCEPT !.state = "Stop"]
    /\ UNCHANGED <<objective, giveUp, source, picks, edits, search>>

NextIteration(o) ==
    /\ o.noProgress < giveUp
    /\ \E q \in {Reported(o)} :
          /\ q.current = "none" => picks < MaxPicks
          /\ picks' = IF q.current = "none" THEN picks + 1 ELSE picks
          /\ \E m \in Selected(q) : opt' \in Mutate(m)
          /\ search' = IF q.current = "none" /\ o.turn.turn # None
                       THEN {[script |-> o.run.script, turn |-> o.turn]} ELSE search
    /\ sim' = [Begun EXCEPT !.state = "NewIteration"]
    /\ UNCHANGED <<objective, giveUp, source, edits>>

LastRunFrame ==
    /\ ~sim.edited /\ sim.state # "Stop"
    /\ Ran.run.frames = opt.lastFrame
    /\ \E o \in {Evaluated(Ran)} : GiveUp(o) \/ NextIteration(o)

SimOptimizer_Frame == InitOptimizer \/ RunFrame \/ LastRunFrame

Next == Edit \/ SimOptimizer_Frame

Spec == Init /\ [][Next]_vars

\* Weak fairness of SimOptimizer_Frame, with its guard written out: its steps are those
\* that are not edits.  Nothing is asked of the last algorithm within the bound.
Awake == (sim.edited \/ sim.state # "Stop") /\ picks < MaxPicks
LiveSpec == Spec /\ ([]<>~Awake \/ []<><<edits' = edits>>_vars)

-----------------------------------------------------------------------------
\* What the optimizer offers (GetOptimizedVersion) achieves the efficacy that is
\* reported for it: the script of the best run is never one that was changed after
\* it was played; and no run that has ended since the last edit was better.  While a
\* run goes on, the efficacy on display is that of the best run.
BestReproducible ==
    /\ opt.best.frames > 0 => opt.best.efficacy = Efficacy(opt.best.script)
    /\ ~sim.edited /\ sim.state # "ContinueIteration" => opt.run.efficacy <= opt.best.efficacy
    /\ ~sim.edited /\ ~sim.first /\ sim.state = "ContinueIteration" =>
         sim.bestEfficacy = opt.best.efficacy

InOrder(script) ==
    \A i, k \in DOMAIN script : i < k => script[i].frame <= script[k].frame

\* All but the last block are played.
WithinRange(script) ==
    Len(script) > 1 => script[Len(script) - 1].frame <= opt.lastFrame

\* No algorithm puts a block before its predecessor.  (The block mover does when the
\* last two blocks have come to lie behind the last frame that is played.)
OrderKept ==
    [][~sim.edited /\ InOrder(opt.run.script) /\ WithinRange(opt.run.script)
          => InOrder(opt'.run.script)]_vars

\* The yaws that a search of the turn optimizer ranges over include a cliff: the
\* objective rises to it, and is the lowest behind it.
CliffInRange(t) ==
    /\ t.orig + t.searchMax \in -Half .. Half - 1
    /\ objective.cliff >= MinOf(t.orig, t.orig + t.searchMax)
    /\ objective.cliff < MaxOf(t.orig, t.orig + t.searchMax)

\* A search of the turn optimizer finds the edge of a cliff in its range ("we expect
\* the function to rise until it falls off a cliff", optimizer.hpp:39): afterwards
\* the best run is at least as good as the one that ends on the edge.
CliffFound ==
    \A s \in search :
        LET AtEdge == SetYaw(s.script, s.turn.strafe, objective.cliff)
        IN  CliffInRange(s.turn) /\ FinalYaw(AtEdge) = objective.cliff =>
                opt.best.efficacy >= Efficacy(AtEdge)

\* Every algorithm gives way to the next, whatever the runs achieve: searches come
\* to an end.
SearchesEnd ==
    \A k \in 0 .. MaxPicks - 1 : picks = k ~> (picks > k \/ sim.state = "Stop")
====
