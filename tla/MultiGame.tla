----------------------------- MODULE MultiGame -----------------------------
(***************************************************************************)
(* Several games search for a better script together                       *)
(* (Source/tas/optimizer_quake.cpp), and the first of them also predicts    *)
(* the path of the player (ipc_prediction.cpp, real_prediction.cpp). The    *)
(* user edits in the server game. Its frame hook asks a client for a        *)
(* prediction of the edited script and, once that is there, sends all       *)
(* clients the task of optimizing it. Messages travel over the channels of  *)
(* MessageChannel: whole, once, in order, after any delay.                  *)
(*                                                                          *)
(* A script is the number of the edit that made it. A run is its task and   *)
(* its efficacy.                                                            *)
(***************************************************************************)
EXTENDS Integers, Sequences

CONSTANTS
    Client,
    Predictor,       \* the client of the first session
    Efficacy,        \* positive numbers
    LastFrame,       \* frames the user goes to: 1 .. LastFrame
    ScriptEnd,       \* frame at which a prediction ends
    MAX_LENGTH,      \* frames it covers at most
    MaxEvents        \* commands of the user, runs of the clients and pauses during them

ASSUME MultiGameAssumption ==
    /\ Predictor \in Client /\ Efficacy \subseteq Int
    /\ LastFrame \in Nat /\ ScriptEnd \in Int /\ MAX_LENGTH \in Int /\ MaxEvents \in Nat

VARIABLES
    sv,        \* the server game; hasty is history: the user did not wait for a prediction
    cl,        \* client -> its game; found is history: its own best run in the task
    down, up,  \* client -> messages to it and from it
    pc,        \* the part of the server's frame that comes next
    events

vars == <<sv, cl, down, up, pc, events>>

None == [task |-> 0, efficacy |-> 0]

Init ==
    /\ sv = [now |-> 1, script |-> 0, last_edited |-> 1, frame |-> 1, paused |-> TRUE,
             num |-> 1, running |-> FALSE, first |-> FALSE, best |-> None, goal |-> 0,
             last_updated |-> 0, startFrame |-> -1, counts |-> [c \in Client |-> 0],
             last_request |-> 0, current_line_time |-> 0, hasty |-> FALSE,
             line |-> [script |-> -1, start |-> 0, end |-> 0, mixed |-> FALSE]]
    /\ cl = [c \in Client |->
               [id |-> 0, running |-> FALSE, first |-> FALSE, best |-> None, bestEfficacy |-> 0,
                state |-> "Continue", iterations |-> 0, found |-> None, ipc_request_finished |-> TRUE,
                data |-> [script |-> -1, start |-> 0, end |-> 0, mixed |-> FALSE], points |-> FALSE]]
    /\ down = [c \in Client |-> <<>>] /\ up = [c \in Client |-> <<>>]
    /\ pc = "predict" /\ events = 0

-----------------------------------------------------------------------------
SV_BroadCastMessage(m) == [c \in Client |-> Append(down[c], m)]

\* SV_StopMultiGameOpt, in two parts: what it sends, and the server after it.
StopMessages == IF sv.running THEN SV_BroadCastMessage([type |-> "Stop"]) ELSE down
Stopped(s) == [s EXCEPT !.running = FALSE]

\* Get_Prediction_Frames: at least two frames.
EndFrame(frame) ==
    LET frames == IF ScriptEnd - frame < 2 THEN 2 ELSE ScriptEnd - frame
    IN  frame + IF frames > MAX_LENGTH THEN MAX_LENGTH ELSE frames

\* Mutant: the age of the line is not looked at.
IPC_Prediction_HasLine_Bug ==
    EndFrame(sv.frame) <= sv.line.end /\ sv.frame >= sv.line.start

IPC_Prediction_HasLine ==
    /\ sv.current_line_time >= sv.last_edited
    /\ EndFrame(sv.frame) <= sv.line.end
    /\ sv.frame >= sv.line.start

\* Mutant: only an edit makes a new request.
Should_Predict_Bug == sv.paused /\ sv.last_request < sv.last_edited

Should_Predict ==
    /\ sv.paused
    /\ \/ sv.last_request < sv.last_edited
       \/ sv.current_line_time = sv.last_request /\ ~IPC_Prediction_HasLine

\* A prediction is asked for, is made, or is on its way back.
Outstanding ==
    \/ ~cl[Predictor].ipc_request_finished
    \/ \E i \in DOMAIN down[Predictor] : down[Predictor][i].type = "Predict"
    \/ \E i \in DOMAIN up[Predictor] : up[Predictor][i].type = "Predict"

\* The range of the old line stays, its points do not. Every request has id 0.
Request ==
    /\ Should_Predict
    /\ sv' = Stopped([sv EXCEPT !.now = @ + 1, !.last_request = sv.now + 1,
                               !.line.script = -1, !.hasty = @ /\ Outstanding])
    /\ down' = [StopMessages EXCEPT ![Predictor] =
                   Append(@, [type |-> "Predict", script |-> sv.script,
                              start |-> sv.frame, end |-> EndFrame(sv.frame)])]

IPC_Prediction_Frame_Hook ==
    /\ pc = "predict" /\ pc' = "optimize"
    /\ \/ Request
       \/ ~Should_Predict /\ UNCHANGED <<sv, down>>
    /\ UNCHANGED <<cl, up, events>>

-----------------------------------------------------------------------------
\* The search on the server.

SV_StartMultiGameOpt ==
    /\ sv' = [sv EXCEPT !.startFrame = sv.frame, !.running = TRUE, !.first = TRUE, !.goal = 0,
                        !.counts = [c \in Client |-> 0], !.num = @ + 1, !.last_updated = sv.now]
    /\ down' = SV_BroadCastMessage([type |-> "Task", id |-> sv.num + 1])

\* Mutant: the search does not wait for the prediction.
StartsSearch_Bug ==
    sv.paused /\ (~sv.running \/ sv.last_edited > sv.last_updated)

StartsSearch ==
    /\ sv.paused
    /\ ~sv.running \/ sv.last_edited > sv.last_updated
    /\ IPC_Prediction_HasLine

MultiGameOpt_Frame ==
    /\ pc = "optimize" /\ pc' = "messages"
    /\ \/ ~sv.paused /\ sv.startFrame # -1
          /\ down' = StopMessages /\ sv' = Stopped([sv EXCEPT !.startFrame = -1])
       \/ StartsSearch /\ SV_StartMultiGameOpt
       \/ ~StartsSearch /\ (sv.paused \/ sv.startFrame = -1) /\ UNCHANGED <<sv, down>>
    /\ UNCHANGED <<cl, up, events>>

-----------------------------------------------------------------------------
\* Handle_Server_Message. Runs, progress and goals of another task are dropped.

\* Mutant: a run of any task is taken.
IsCurrent_Bug(m) == TRUE

IsCurrent(m) == m.id = sv.num

MultiGame_ReceiveRun(m) ==
    /\ m.type = "Run"
    /\ IF IsCurrent(m) /\ (sv.first \/ m.run.efficacy > sv.best.efficacy)
       THEN /\ sv' = [sv EXCEPT !.best = m.run, !.first = FALSE]
            /\ down' = SV_BroadCastMessage([type |-> "Run", id |-> sv.num, run |-> m.run])
       ELSE UNCHANGED <<sv, down>>

MultiGame_ReceiveProgress(c, m) ==
    /\ m.type = "Progress"
    /\ sv' = IF IsCurrent(m) THEN [sv EXCEPT !.counts[c] = m.iterations] ELSE sv
    /\ UNCHANGED down

MultiGame_ReceiveGoal(m) ==
    /\ m.type = "Goal"
    /\ sv' = IF IsCurrent(m) THEN [sv EXCEPT !.goal = m.id] ELSE sv
    /\ UNCHANGED down

\* The answer is dated by the latest request.
IPC_Prediction_Read_Response(m) ==
    /\ m.type = "Predict"
    /\ sv' = [sv EXCEPT !.line = m.data, !.current_line_time = sv.last_request]
    /\ UNCHANGED down

Handle_Server_Message(c) ==
    /\ pc = "messages" /\ up[c] # <<>>
    /\ LET m == Head(up[c])
       IN  \/ MultiGame_ReceiveRun(m) \/ MultiGame_ReceiveProgress(c, m)
           \/ MultiGame_ReceiveGoal(m) \/ IPC_Prediction_Read_Response(m)
    /\ up' = [up EXCEPT ![c] = Tail(@)]
    /\ UNCHANGED <<cl, pc, events>>

-----------------------------------------------------------------------------
\* The user of the server game, between two frames.

MayAct ==
    /\ pc = "messages" /\ pc' = "predict"
    /\ events < MaxEvents
    /\ events' = events + 1
    /\ UNCHANGED <<cl, up>>

Edit ==
    /\ MayAct /\ sv.paused
    /\ sv' = [sv EXCEPT !.script = @ + 1, !.now = @ + 1, !.last_edited = sv.now + 1,
                        !.hasty = @ \/ Outstanding]
    /\ UNCHANGED down

\* The best run replaces the script from the current frame on.
Cmd_TAS_Optimizer_Accept ==
    /\ MayAct /\ sv.paused
    /\ sv' = Stopped([sv EXCEPT !.script = @ + 1, !.now = @ + 1, !.last_edited = sv.now + 1,
                                !.hasty = @ \/ Outstanding])
    /\ down' = StopMessages

Optimizer_Var_Updated ==
    /\ MayAct
    /\ sv' = Stopped([sv EXCEPT !.last_updated = 0])
    /\ down' = StopMessages

\* Going to another frame takes many frames in which the game is not paused.
Skip ==
    /\ MayAct /\ sv.paused
    /\ sv' = [sv EXCEPT !.paused = FALSE, !.hasty = @ \/ Outstanding]
    /\ UNCHANGED down

Arrive(frame) ==
    /\ pc = "messages" /\ pc' = "predict"
    /\ ~sv.paused
    /\ sv' = [sv EXCEPT !.paused = TRUE, !.frame = frame]
    /\ UNCHANGED <<cl, down, up, events>>

No_Command ==
    /\ pc = "messages" /\ pc' = "predict"
    /\ UNCHANGED <<sv, cl, down, up, events>>

-----------------------------------------------------------------------------
\* The clients.

CL_SendMessages(c, ms) == up' = [up EXCEPT ![c] = @ \o ms]

\* A run of the script collects points for a prediction that is not finished.
Run_Script(g) ==
    IF g.ipc_request_finished THEN g ELSE [g EXCEPT !.data.mixed = @ \/ g.points]

Receive_Optimizer_Task(g, m) ==
    Run_Script([g EXCEPT !.id = m.id, !.running = TRUE, !.first = TRUE, !.iterations = 0, !.found = None,
                         !.best = None, !.state = "Continue"])

IsBetterThan(run, best) == best = None \/ run.efficacy > best.efficacy

\* Mutant: a run found elsewhere replaces a better one found here.
Receive_Optimizer_Run_Bug(g, m) ==
    IF m.id = g.id
    THEN [g EXCEPT !.best = m.run, !.bestEfficacy = m.run.efficacy]
    ELSE g

Receive_Optimizer_Run(g, m) ==
    IF m.id = g.id /\ IsBetterThan(m.run, g.best)
    THEN [g EXCEPT !.best = m.run, !.bestEfficacy = m.run.efficacy]
    ELSE g

Receive_Optimizer_Stop(g) == [g EXCEPT !.running = FALSE]

GamePrediction_Receive_IPC(g, m) ==
    [g EXCEPT !.data = [script |-> m.script, start |-> m.start, end |-> m.end, mixed |-> FALSE],
              !.points = FALSE, !.ipc_request_finished = FALSE]

Handle_Client_Message(c) ==
    /\ down[c] # <<>>
    /\ LET m == Head(down[c])
       IN  cl' = [cl EXCEPT ![c] =
               CASE m.type = "Task" -> Receive_Optimizer_Task(@, m)
                 [] m.type = "Run" -> Receive_Optimizer_Run(@, m)
                 [] m.type = "Stop" -> Receive_Optimizer_Stop(@)
                 [] m.type = "Predict" -> GamePrediction_Receive_IPC(@, m)]
    /\ down' = [down EXCEPT ![c] = Tail(@)]
    /\ UNCHANGED <<sv, up, pc, events>>

\* The frames of a run: points are collected and, at the last one, sent.
GamePrediction_Frame_Hook(c) ==
    /\ ~cl[c].ipc_request_finished
    /\ \/ ~cl[c].points /\ cl' = [cl EXCEPT ![c].points = TRUE] /\ UNCHANGED up
       \/ cl[c].points /\ cl' = [cl EXCEPT ![c].ipc_request_finished = TRUE]
          /\ CL_SendMessages(c, <<[type |-> "Predict", data |-> cl[c].data]>>)
    /\ UNCHANGED <<sv, down, pc, events>>

\* The optimizer finishes an iteration: it goes on, or gives up after one that was
\* no better.
OnRunnerFrame(c, efficacy) ==
    /\ cl[c].running /\ cl[c].state = "Continue" /\ events < MaxEvents
    /\ events' = events + 1
    /\ LET run == [task |-> cl[c].id, efficacy |-> efficacy]
           better == IsBetterThan(run, cl[c].best)
       IN  \E s \in IF better THEN {"NewIteration"} ELSE {"NewIteration", "Stop"} :
             cl' = [cl EXCEPT ![c].state = s, ![c].best = IF better THEN run ELSE @,
                              ![c].found = IF IsBetterThan(run, @) THEN run ELSE @]
    /\ UNCHANGED <<sv, down, up, pc>>

GameOpt_NewIteration(c) ==
    LET g == cl[c]
        report == g.first \/ g.best.efficacy > g.bestEfficacy
    IN  /\ CL_SendMessages(c,
             <<[type |-> "Progress", id |-> g.id, iterations |-> g.iterations + 1]>>
             \o (IF g.first THEN <<[type |-> "Goal", id |-> g.id]>> ELSE <<>>)
             \o (IF report THEN <<[type |-> "Run", id |-> g.id, run |-> g.best]>> ELSE <<>>))
        /\ cl' = [cl EXCEPT ![c] = Run_Script([g EXCEPT !.first = FALSE, !.iterations = @ + 1,
                    !.bestEfficacy = IF report THEN g.best.efficacy ELSE @, !.state = "Continue"])]

\* In the last case the game was paused before the iteration was over.
Game_Opt_Ended(c) ==
    /\ cl[c].running
    /\ \/ cl[c].state = "NewIteration" /\ GameOpt_NewIteration(c) /\ UNCHANGED events
       \/ /\ cl[c].state = "Stop" /\ UNCHANGED <<up, events>>
          /\ cl' = [cl EXCEPT ![c] = Run_Script([@ EXCEPT !.running = FALSE])]
       \/ /\ cl[c].state = "Continue" /\ events < MaxEvents /\ events' = events + 1
          /\ cl' = [cl EXCEPT ![c].running = FALSE] /\ UNCHANGED up
    /\ UNCHANGED <<sv, down, pc>>

-----------------------------------------------------------------------------
Server_Frame ==
    \/ IPC_Prediction_Frame_Hook \/ MultiGameOpt_Frame
    \/ No_Command \/ \E c \in Client : Handle_Server_Message(c)

User ==
    \/ Edit \/ Cmd_TAS_Optimizer_Accept \/ Optimizer_Var_Updated \/ Skip

Client_Frame(c) ==
    \/ Handle_Client_Message(c) \/ GamePrediction_Frame_Hook(c) \/ Game_Opt_Ended(c)
    \/ \E e \in Efficacy : OnRunnerFrame(c, e)

Next ==
    \/ Server_Frame
    \/ User
    \/ \E f \in 1 .. LastFrame : Arrive(f)
    \/ \E c \in Client : Client_Frame(c)

Spec == Init /\ [][Next]_vars

\* All games go on from frame to frame and read their messages, and going to a
\* frame ends. Nothing is assumed of the user.
Fairness ==
    /\ WF_vars(IPC_Prediction_Frame_Hook) /\ WF_vars(MultiGameOpt_Frame)
    /\ SF_vars(No_Command)
    /\ \A c \in Client : SF_vars(Handle_Server_Message(c)) /\ WF_vars(Handle_Client_Message(c))
    /\ \A c \in Client : WF_vars(GamePrediction_Frame_Hook(c))
    /\ SF_vars(\E f \in 1 .. LastFrame : Arrive(f))

LiveSpec == Spec /\ Fairness

-----------------------------------------------------------------------------
\* The client works on the task of the server, or that task is on its way.
HasTask(c) == cl[c].id = sv.num \/ \E i \in DOMAIN down[c] : down[c][i] = [type |-> "Task", id |-> sv.num]

\* What the server shows belongs to the task it shows: the best run is one of the
\* current task, its goal is known by then, and no progress is counted that a
\* client made in another task.
ShownIsCurrent ==
    sv.running =>
        /\ ~sv.first => sv.best.task = sv.num /\ sv.goal = sv.num
        /\ \A c \in Client : /\ HasTask(c)
                             /\ sv.counts[c] > 0 => cl[c].id = sv.num /\ sv.counts[c] <= cl[c].iterations

\* No improvement is lost. The best run of the server has reached every client or
\* is on its way behind the task, and the best run a client found in the task
\* has reached the server, is on its way, or goes with the client's next report,
\* which only the end of the search on the server can prevent.
BestRunSpreads ==
    ~sv.first /\ sv.num > 1 => \A c \in Client :
        /\ \/ cl[c].best.task = sv.num /\ cl[c].best.efficacy >= sv.best.efficacy
           \/ \E i \in DOMAIN down[c] :
                /\ down[c][i] = [type |-> "Run", id |-> sv.num, run |-> sv.best]
                /\ cl[c].id = sv.num
                   \/ \E j \in 1 .. i : down[c][j] = [type |-> "Task", id |-> sv.num]
        /\ cl[c].found.task = sv.num =>
             \/ cl[c].found.efficacy <= sv.best.efficacy
             \/ /\ cl[c].state = "NewIteration" /\ cl[c].found.efficacy <= cl[c].best.efficacy
                /\ sv.running => cl[c].running
             \/ \E i \in DOMAIN up[c] : /\ up[c][i].type = "Run" /\ up[c][i].id = sv.num
                                         /\ up[c][i].run.efficacy >= cl[c].found.efficacy

\* When the line is taken for up to date it is that of the current script, made by
\* one uninterrupted run, if the user waited for the prediction. Where the user edited
\* or left the frame before the answer was there, an answer is dated by a request it
\* does not belong to, and the line may be wrong until the next request after it.
LineFaithful ==
    ~sv.hasty /\ IPC_Prediction_HasLine => sv.line.script = sv.script /\ ~sv.line.mixed

\* optimizer_quake.cpp:425: a new task waits until the prediction has finished.
TasksWait == [][sv'.num # sv.num => ~Outstanding]_vars

\* It does if the user waits for the prediction too.
TaskAfterPrediction == [][sv'.num # sv.num => ~Outstanding \/ sv.hasty]_vars

\* Whatever the user did, a paused game gets its line and its search again.
SearchResumes == []<>(~sv.paused \/ (IPC_Prediction_HasLine /\ sv.running))

=============================================================================
