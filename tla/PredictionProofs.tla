-------------------------- MODULE PredictionProofs --------------------------
(***************************************************************************)
(* The line a server shows belongs to its current script, and no search    *)
(* starts before it is there, for any number of clients, edits and runs    *)
(* and any delay of the messages, from each request made while none was    *)
(* outstanding until the user next acts without waiting for the answer.    *)
(***************************************************************************)
EXTENDS MultiGameProofs

(* No message of a sequence is about a prediction.                         *)
NoPredict(s) == \A i \in DOMAIN s : s[i].type # "Predict"

(* A client has nothing to do with a prediction.                           *)
NoPrediction(g, d, u) == g.ipc_request_finished /\ NoPredict(d) /\ NoPredict(u)

(* A client without a search, or that will be without one when it has read *)
(* its messages.                                                           *)
NoTask(d) == \A i \in DOMAIN d : d[i].type # "Task"

Stops(d) == \E i \in DOMAIN d :
  d[i].type = "Stop" /\ \A j \in DOMAIN d : j > i => d[j].type # "Task"

Quiet(g, d) == (~g.running /\ NoTask(d)) \/ Stops(d)

(* The prediction of script s is asked for, is made, or has been made.     *)
Asked(d, s) == \E p \in DOMAIN d :
  /\ d[p].type = "Predict" /\ d[p].script = s
  /\ \A j \in DOMAIN d : /\ j < p => d[j].type # "Predict"
                         /\ j > p => d[j].type = "Run"

OnlyRuns(d) == \A i \in DOMAIN d : d[i].type = "Run"

Working(g, d, s) ==
  /\ ~g.ipc_request_finished /\ g.data.script = s /\ ~g.data.mixed /\ ~g.running
  /\ OnlyRuns(d)

Answered(u, s) == \E p \in DOMAIN u :
  /\ u[p].type = "Predict" /\ u[p].data.script = s /\ ~u[p].data.mixed
  /\ \A j \in DOMAIN u : j # p => u[j].type # "Predict"

Pending(g, d, u, s) ==
  \/ g.ipc_request_finished /\ NoPredict(u) /\ Asked(d, s)
  \/ Working(g, d, s) /\ NoPredict(u)
  \/ g.ipc_request_finished /\ NoPredict(d) /\ Answered(u, s)

(* The times of the server's line.                                         *)
Times ==
  /\ sv.current_line_time <= sv.last_request
  /\ sv.last_request <= sv.now /\ sv.last_edited <= sv.now

(* There is a line and no request, or a request and no line.               *)
Predicted ==
  IF sv.current_line_time = sv.last_request
  THEN /\ NoPrediction(cl[Predictor], down[Predictor], up[Predictor])
       /\ sv.last_edited <= sv.last_request => sv.line.script = sv.script /\ ~sv.line.mixed
  ELSE /\ sv.paused /\ ~sv.running /\ ~IPC_Prediction_HasLine
       /\ sv.last_edited <= sv.last_request
       /\ Pending(cl[Predictor], down[Predictor], up[Predictor], sv.script)

PredInv ==
  /\ Times
  /\ ~sv.running => Quiet(cl[Predictor], down[Predictor])
  /\ \A c \in Client \ {Predictor} : NoPrediction(cl[c], down[c], up[c])
  /\ ~sv.hasty => Predicted

(* What is outstanding is a request, its run or its answer.                *)
LEMMA OutstandingFacts ==
  /\ ~Outstanding <=> NoPrediction(cl[Predictor], down[Predictor], up[Predictor])
  /\ \A s : Pending(cl[Predictor], down[Predictor], up[Predictor], s) => Outstanding
BY DEF Outstanding, NoPrediction, NoPredict, Pending, Asked, Working, Answered

-----------------------------------------------------------------------------
(* A message is sent.                                                      *)
LEMMA Sent ==
  ASSUME NEW S, NEW d \in Seq(S), NEW m, NEW e, e = Append(d, m)
  PROVE  /\ NoPredict(d) /\ m.type # "Predict" => NoPredict(e)
         /\ NoTask(d) /\ m.type # "Task" => NoTask(e)
         /\ Stops(d) /\ m.type # "Task" => Stops(e)
         /\ m.type = "Stop" => Stops(e)
         /\ NoPredict(d) /\ m.type = "Predict" => Asked(e, m.script)
         /\ \A s : Asked(d, s) /\ m.type = "Run" => Asked(e, s)
         /\ OnlyRuns(d) /\ m.type = "Run" => OnlyRuns(e)
<1>1. /\ Len(d) \in Nat /\ DOMAIN d = 1 .. Len(d) /\ DOMAIN e = 1 .. Len(d) + 1
      /\ e[Len(d) + 1] = m /\ \A i \in 1 .. Len(d) : e[i] = d[i]
  OBVIOUS
<1>2. /\ Len(d) + 1 \in DOMAIN e
      /\ \A i \in DOMAIN d : i \in DOMAIN e /\ e[i] = d[i] /\ i < Len(d) + 1
      /\ \A i \in DOMAIN e : (i \in DOMAIN d /\ e[i] = d[i]) \/ (i = Len(d) + 1 /\ e[i] = m)
      /\ \A j \in DOMAIN e : ~ (j > Len(d) + 1)
  BY <1>1
<1>3. NoPredict(d) /\ m.type # "Predict" => NoPredict(e)
  BY <1>2 DEF NoPredict
<1>4. NoTask(d) /\ m.type # "Task" => NoTask(e)
  BY <1>2 DEF NoTask
<1>5. Stops(d) /\ m.type # "Task" => Stops(e)
  BY <1>2 DEF Stops
<1>6. m.type = "Stop" => Stops(e)
  BY <1>1, <1>2 DEF Stops
<1>7. ASSUME NoPredict(d), m.type = "Predict"
      PROVE  Asked(e, m.script)
  <2>1. /\ e[Len(d) + 1].type = "Predict" /\ e[Len(d) + 1].script = m.script
        /\ \A j \in DOMAIN e : /\ j < Len(d) + 1 => e[j].type # "Predict"
                               /\ j > Len(d) + 1 => e[j].type = "Run"
    BY <1>1, <1>2, <1>7 DEF NoPredict
  <2>. QED
    BY <1>2, <2>1, Zenon DEF Asked
<1>8. ASSUME NEW s, Asked(d, s), m.type = "Run"
      PROVE  Asked(e, s)
  <2>1. PICK p \in DOMAIN d :
          /\ d[p].type = "Predict" /\ d[p].script = s
          /\ \A j \in DOMAIN d : /\ j < p => d[j].type # "Predict"
                                 /\ j > p => d[j].type = "Run"
    BY <1>8 DEF Asked
  <2>2. \A j \in DOMAIN e : /\ j < p => e[j].type # "Predict"
                            /\ j > p => e[j].type = "Run"
    BY <1>2, <1>8, <2>1
  <2>3. p \in DOMAIN e /\ e[p].type = "Predict" /\ e[p].script = s
    BY <1>2, <2>1
  <2>. QED
    BY <2>2, <2>3, Zenon DEF Asked
<1>9. OnlyRuns(d) /\ m.type = "Run" => OnlyRuns(e)
  BY <1>2 DEF OnlyRuns
<1>. QED
  BY <1>3, <1>4, <1>5, <1>6, <1>7, <1>8, <1>9

(* A message is read.                                                      *)
LEMMA Read ==
  ASSUME NEW S, NEW d \in Seq(S), d # <<>>, NEW m, m = Head(d), NEW e, e = Tail(d)
  PROVE  /\ NoPredict(d) => NoPredict(e) /\ m.type # "Predict"
         /\ NoTask(d) => NoTask(e) /\ m.type # "Task"
         /\ Stops(d) => Stops(e) \/ (m.type = "Stop" /\ NoTask(e))
         /\ OnlyRuns(d) => OnlyRuns(e) /\ m.type = "Run"
<1>1. /\ Len(d) \in Nat \ {0} /\ DOMAIN d = 1 .. Len(d) /\ DOMAIN e = 1 .. Len(d) - 1
      /\ m = d[1] /\ \A i \in DOMAIN e : e[i] = d[i + 1]
  OBVIOUS
<1>2. /\ 1 \in DOMAIN d
      /\ \A i \in DOMAIN e : i + 1 \in DOMAIN d /\ e[i] = d[i + 1]
  BY <1>1
<1>3. NoPredict(d) => NoPredict(e) /\ m.type # "Predict"
  BY <1>1, <1>2 DEF NoPredict
<1>4. NoTask(d) => NoTask(e) /\ m.type # "Task"
  BY <1>1, <1>2 DEF NoTask
<1>5. OnlyRuns(d) => OnlyRuns(e) /\ m.type = "Run"
  BY <1>1, <1>2 DEF OnlyRuns
<1>6. ASSUME Stops(d)
      PROVE  Stops(e) \/ (m.type = "Stop" /\ NoTask(e))
  <2>1. PICK i \in DOMAIN d :
          d[i].type = "Stop" /\ \A j \in DOMAIN d : j > i => d[j].type # "Task"
    BY <1>6 DEF Stops
  <2>2. CASE i = 1
    <3>1. \A j \in DOMAIN e : j + 1 > 1
      BY <1>1
    <3>. QED
      BY <1>1, <1>2, <2>1, <2>2, <3>1 DEF NoTask
  <2>3. CASE i # 1
    <3>1. i - 1 \in DOMAIN e /\ (i - 1) + 1 = i /\ \A j \in DOMAIN e : j > i - 1 => j + 1 > i
      BY <1>1, <2>3
    <3>2. e[i - 1].type = "Stop" /\ \A j \in DOMAIN e : j > i - 1 => e[j].type # "Task"
      BY <1>2, <2>1, <3>1
    <3>. QED
      BY <3>1, <3>2, Zenon DEF Stops
  <2>. QED
    BY <2>2, <2>3
<1>. QED
  BY <1>3, <1>4, <1>5, <1>6

(* The request is read, or something before it.                            *)
LEMMA ReadAsked ==
  ASSUME NEW S, NEW d \in Seq(S), NEW s, Asked(d, s), NEW m, m = Head(d), NEW e, e = Tail(d)
  PROVE  \/ m.type # "Predict" /\ Asked(e, s)
         \/ m.type = "Predict" /\ m.script = s /\ OnlyRuns(e) /\ ~Stops(d)
<1>0. PICK p \in DOMAIN d :
        /\ d[p].type = "Predict" /\ d[p].script = s
        /\ \A j \in DOMAIN d : /\ j < p => d[j].type # "Predict"
                               /\ j > p => d[j].type = "Run"
  BY DEF Asked
<1>1. /\ Len(d) \in Nat \ {0} /\ DOMAIN d = 1 .. Len(d) /\ DOMAIN e = 1 .. Len(d) - 1
      /\ m = d[1] /\ \A i \in DOMAIN e : e[i] = d[i + 1]
  BY <1>0
<1>2. /\ 1 \in DOMAIN d
      /\ \A i \in DOMAIN e : i + 1 \in DOMAIN d /\ e[i] = d[i + 1] /\ i + 1 > 1
      /\ \A i \in DOMAIN d : i = 1 \/ i > 1
  BY <1>1
<1>3. CASE p = 1
  <2>1. OnlyRuns(e)
    BY <1>0, <1>2, <1>3 DEF OnlyRuns
  <2>2. ~Stops(d)
    BY <1>0, <1>2, <1>3 DEF Stops
  <2>. QED
    BY <1>0, <1>1, <1>3, <2>1, <2>2
<1>4. CASE p # 1
  <2>1. /\ p - 1 \in DOMAIN e /\ (p - 1) + 1 = p /\ 1 < p
        /\ \A j \in DOMAIN e : (j > p - 1 => j + 1 > p) /\ (j < p - 1 => j + 1 < p)
    BY <1>1, <1>4
  <2>2. e[p - 1].type = "Predict" /\ e[p - 1].script = s
    BY <1>0, <1>2, <2>1
  <2>3. \A j \in DOMAIN e : /\ j < p - 1 => e[j].type # "Predict"
                            /\ j > p - 1 => e[j].type = "Run"
    BY <1>0, <1>2, <2>1
  <2>4. m.type # "Predict"
    BY <1>0, <1>1, <1>2, <2>1
  <2>. QED
    BY <2>1, <2>2, <2>3, <2>4, Zenon DEF Asked
<1>. QED
  BY <1>3, <1>4

(* The answer is read, or something before it.                             *)
LEMMA ReadAnswered ==
  ASSUME NEW d \in Seq(UpMessage), NEW s, Answered(d, s), NEW m, m = Head(d), NEW e, e = Tail(d)
  PROVE  \/ m.type # "Predict" /\ Answered(e, s)
         \/ m.type = "Predict" /\ m.data.script = s /\ ~m.data.mixed /\ NoPredict(e)
<1>0. PICK p \in DOMAIN d :
        /\ d[p].type = "Predict" /\ d[p].data.script = s /\ ~d[p].data.mixed
        /\ \A j \in DOMAIN d : j # p => d[j].type # "Predict"
  BY DEF Answered
<1>1. /\ Len(d) \in Nat \ {0} /\ DOMAIN d = 1 .. Len(d) /\ DOMAIN e = 1 .. Len(d) - 1
      /\ m = d[1] /\ \A i \in DOMAIN e : e[i] = d[i + 1]
  BY <1>0
<1>2. /\ 1 \in DOMAIN d
      /\ \A i \in DOMAIN e : i + 1 \in DOMAIN d /\ e[i] = d[i + 1] /\ i + 1 # 1
  BY <1>1
<1>3. CASE p = 1
  <2>1. NoPredict(e)
    BY <1>0, <1>2, <1>3 DEF NoPredict
  <2>. QED
    BY <1>0, <1>1, <1>3, <2>1
<1>4. CASE p # 1
  <2>1. /\ p - 1 \in DOMAIN e /\ (p - 1) + 1 = p
        /\ \A j \in DOMAIN e : j # p - 1 => j + 1 # p
    BY <1>1, <1>4
  <2>2. e[p - 1].type = "Predict" /\ e[p - 1].data.script = s /\ ~e[p - 1].data.mixed
    BY <1>0, <1>2, <2>1
  <2>3. \A j \in DOMAIN e : j # p - 1 => e[j].type # "Predict"
    BY <1>0, <1>2, <2>1
  <2>4. m.type # "Predict"
    BY <1>0, <1>1, <1>2, <1>4
  <2>. QED
    BY <2>1, <2>2, <2>3, <2>4, Zenon DEF Answered
<1>. QED
  BY <1>3, <1>4

(* A client reports.                                                       *)
LEMMA Reports ==
  ASSUME NEW u \in Seq(UpMessage), NEW ms \in Seq(UpMessage), NEW v, v = u \o ms
  PROVE  /\ NoPredict(u) /\ NoPredict(ms) => NoPredict(v)
         /\ \A s : Answered(u, s) /\ NoPredict(ms) => Answered(v, s)
         /\ \A s : NoPredict(u) /\ Answered(ms, s) => Answered(v, s)
<1>1. /\ Len(u) \in Nat /\ Len(ms) \in Nat /\ DOMAIN u = 1 .. Len(u) /\ DOMAIN ms = 1 .. Len(ms)
      /\ DOMAIN v = 1 .. Len(u) + Len(ms)
      /\ \A i \in 1 .. Len(u) : v[i] = u[i]
      /\ \A i \in 1 .. Len(u) + Len(ms) : i > Len(u) => v[i] = ms[i - Len(u)]
  OBVIOUS
<1>2. /\ \A i \in DOMAIN u : i \in DOMAIN v /\ v[i] = u[i]
      /\ \A i \in DOMAIN ms : i + Len(u) \in DOMAIN v /\ v[i + Len(u)] = ms[i]
                              /\ i + Len(u) \notin DOMAIN u
      /\ \A i \in DOMAIN v : \/ i \in DOMAIN u /\ v[i] = u[i]
                             \/ /\ i - Len(u) \in DOMAIN ms /\ v[i] = ms[i - Len(u)]
                                /\ i = (i - Len(u)) + Len(u)
  BY <1>1
<1>3. NoPredict(u) /\ NoPredict(ms) => NoPredict(v)
  BY <1>2 DEF NoPredict
<1>4. ASSUME NEW s, Answered(u, s), NoPredict(ms)
      PROVE  Answered(v, s)
  <2>1. PICK p \in DOMAIN u :
          /\ u[p].type = "Predict" /\ u[p].data.script = s /\ ~u[p].data.mixed
          /\ \A j \in DOMAIN u : j # p => u[j].type # "Predict"
    BY <1>4 DEF Answered
  <2>2. \A j \in DOMAIN v : j # p => v[j].type # "Predict"
    BY <1>2, <1>4, <2>1 DEF NoPredict
  <2>. QED
    BY <1>2, <2>1, <2>2 DEF Answered
<1>5. ASSUME NEW s, NoPredict(u), Answered(ms, s)
      PROVE  Answered(v, s)
  <2>1. PICK p \in DOMAIN ms :
          /\ ms[p].type = "Predict" /\ ms[p].data.script = s /\ ~ms[p].data.mixed
          /\ \A j \in DOMAIN ms : j # p => ms[j].type # "Predict"
    BY <1>5 DEF Answered
  <2>2. PICK q : q = p + Len(u)
    OBVIOUS
  <2>3. q \in DOMAIN v /\ v[q] = ms[p]
    BY <1>2, <2>2
  <2>4. ASSUME NEW j \in DOMAIN v, j # q
        PROVE  v[j].type # "Predict"
    <3>1. CASE j \in DOMAIN u /\ v[j] = u[j]
      BY <1>5, <3>1 DEF NoPredict
    <3>2. CASE j - Len(u) \in DOMAIN ms /\ v[j] = ms[j - Len(u)] /\ j = (j - Len(u)) + Len(u)
      <4>1. j - Len(u) # p
        BY <2>2, <2>4, <3>2, Zenon
      <4>. QED
        BY <2>1, <3>2, <4>1
    <3>. QED
      BY <1>2, <3>1, <3>2
  <2>. QED
    BY <2>1, <2>3, <2>4 DEF Answered
<1>. QED
  BY <1>3, <1>4, <1>5

-----------------------------------------------------------------------------
(* The part of the server the prediction depends on.                       *)
SameLine ==
  /\ sv'.current_line_time = sv.current_line_time /\ sv'.last_request = sv.last_request
  /\ sv'.last_edited = sv.last_edited /\ sv'.now = sv.now /\ sv'.running = sv.running
  /\ sv'.paused = sv.paused /\ sv'.line = sv.line /\ sv'.script = sv.script
  /\ sv'.frame = sv.frame /\ sv'.hasty = sv.hasty

(* A step that leaves that part alone, and the requests and the clients'   *)
(* work on them sound.                                                     *)
LEMMA PredStep ==
  ASSUME PredInv, SameLine,
         \A c \in Client :
           NoPrediction(cl[c], down[c], up[c]) => NoPrediction(cl'[c], down'[c], up'[c]),
         Quiet(cl[Predictor], down[Predictor]) => Quiet(cl'[Predictor], down'[Predictor]),
         \A s : Quiet(cl[Predictor], down[Predictor])
                /\ Pending(cl[Predictor], down[Predictor], up[Predictor], s) =>
                  Pending(cl'[Predictor], down'[Predictor], up'[Predictor], s)
  PROVE  PredInv'
<1>0. Predictor \in Client
  BY MultiGameAssumption
<1>1. Times'
  BY DEF PredInv, Times, SameLine
<1>2. ~sv'.running => Quiet(cl'[Predictor], down'[Predictor])
  BY DEF PredInv, SameLine
<1>3. \A c \in Client \ {Predictor} : NoPrediction(cl'[c], down'[c], up'[c])
  BY DEF PredInv
<1>4. ASSUME ~sv.hasty, sv.current_line_time = sv.last_request
      PROVE  Predicted'
  <2>1. NoPrediction(cl'[Predictor], down'[Predictor], up'[Predictor])
    BY <1>0, <1>4 DEF PredInv, Predicted
  <2>. QED
    BY <1>4, <2>1 DEF PredInv, Predicted, SameLine
<1>5. ASSUME ~sv.hasty, sv.current_line_time # sv.last_request
      PROVE  Predicted'
  <2>1. Pending(cl'[Predictor], down'[Predictor], up'[Predictor], sv.script)
    BY <1>5 DEF PredInv, Predicted
  <2>2. ~IPC_Prediction_HasLine'
    BY <1>5 DEF PredInv, Predicted, SameLine, IPC_Prediction_HasLine, EndFrame
  <2>. QED
    BY <1>5, <2>1, <2>2 DEF PredInv, Predicted, SameLine
<1>. QED
  BY <1>1, <1>2, <1>3, <1>4, <1>5 DEF PredInv, SameLine

(* A step of one client.                                                   *)
LEMMA PredClient ==
  ASSUME IInv, PredInv, UNCHANGED sv, NEW c \in Client, NEW h, NEW e, NEW v,
         cl' = [cl EXCEPT ![c] = h], down' = [down EXCEPT ![c] = e],
         up' = [up EXCEPT ![c] = v],
         NoPrediction(cl[c], down[c], up[c]) => NoPrediction(h, e, v),
         Quiet(cl[c], down[c]) => Quiet(h, e),
         \A s : Quiet(cl[c], down[c]) /\ Pending(cl[c], down[c], up[c], s) =>
                  Pending(h, e, v, s)
  PROVE  PredInv'
<1>1. SameLine
  BY DEF SameLine
<1>2. /\ cl'[c] = h /\ down'[c] = e /\ up'[c] = v
      /\ \A x \in Client : x # c => cl'[x] = cl[x] /\ down'[x] = down[x] /\ up'[x] = up[x]
  BY DEF IInv, Types
<1>3. \A x \in Client :
        NoPrediction(cl[x], down[x], up[x]) => NoPrediction(cl'[x], down'[x], up'[x])
  BY <1>2
<1>4. Quiet(cl[Predictor], down[Predictor]) => Quiet(cl'[Predictor], down'[Predictor])
  BY <1>2, MultiGameAssumption
<1>5. \A s : Quiet(cl[Predictor], down[Predictor])
             /\ Pending(cl[Predictor], down[Predictor], up[Predictor], s) =>
               Pending(cl'[Predictor], down'[Predictor], up'[Predictor], s)
  BY <1>2, MultiGameAssumption
<1>. QED
  BY <1>1, <1>3, <1>4, <1>5, PredStep

(* What a message does to the client's prediction and search.              *)
LEMMA HandledPrediction ==
  ASSUME NEW g \in Game, NEW m \in DownMessage, NEW h, h = Handled(g, m)
  PROVE  /\ m.type # "Predict" /\ g.ipc_request_finished => h.ipc_request_finished
         /\ m.type = "Run" => /\ h.ipc_request_finished = g.ipc_request_finished
                              /\ h.running = g.running /\ h.data = g.data
         /\ m.type = "Stop" => ~h.running
         /\ m.type = "Predict" => /\ ~h.ipc_request_finished /\ h.running = g.running
                                  /\ h.data.script = m.script /\ ~h.data.mixed
<1>1. CASE m.type = "Task"
  <2>1. PICK k : k = [g EXCEPT !.id = m.id, !.running = TRUE, !.first = TRUE,
                               !.iterations = 0, !.found = None, !.best = None,
                               !.state = "Continue"]
    BY Zenon
  <2>2. h = Run_Script(k)
    BY <1>1, <2>1 DEF Handled, Receive_Optimizer_Task
  <2>3. k.ipc_request_finished = g.ipc_request_finished
    BY <2>1 DEF Game
  <2>4. g.ipc_request_finished => h.ipc_request_finished
    BY <2>2, <2>3, Zenon DEF Run_Script
  <2>. QED
    BY <1>1, <2>4
<1>2. CASE m.type = "Run"
  <2>1. h = Receive_Optimizer_Run(g, m)
    BY <1>2 DEF Handled
  <2>. QED
    BY <1>2, <2>1 DEF Receive_Optimizer_Run, Game
<1>3. CASE m.type = "Stop"
  <2>1. h = [g EXCEPT !.running = FALSE]
    BY <1>3 DEF Handled, Receive_Optimizer_Stop
  <2>. QED
    BY <1>3, <2>1 DEF Game
<1>4. CASE m.type = "Predict"
  <2>1. PICK d : d = [script |-> m.script, start |-> m.start, end |-> m.end, mixed |-> FALSE]
    BY Zenon
  <2>2. h = [g EXCEPT !.data = d, !.points = FALSE, !.ipc_request_finished = FALSE]
    BY <1>4, <2>1 DEF Handled, GamePrediction_Receive_IPC
  <2>3. d.script = m.script /\ d.mixed = FALSE
    BY <2>1
  <2>4. h.data = d /\ h.ipc_request_finished = FALSE /\ h.running = g.running
    BY <2>2 DEF Game
  <2>. QED
    BY <1>4, <2>3, <2>4
<1>. QED
  BY <1>1, <1>2, <1>3, <1>4, DownKinds

(* A client reads a message.                                               *)
LEMMA PredReads ==
  ASSUME IInv, PredInv, NEW c \in Client, Handle_Client_Message(c)
  PROVE  PredInv'
<1>1. PICK g, d, u : g = cl[c] /\ d = down[c] /\ u = up[c]
  OBVIOUS
<1>2. PICK m, h, e : m = Head(d) /\ h = Handled(g, m) /\ e = Tail(d)
  BY Zenon
<1>3. /\ UNCHANGED sv /\ cl' = [cl EXCEPT ![c] = h] /\ down' = [down EXCEPT ![c] = e]
      /\ up' = [up EXCEPT ![c] = u] /\ d # <<>>
  BY <1>1, <1>2 DEF Handle_Client_Message, Handled, IInv, Types
<1>4. g \in Game /\ d \in Seq(DownMessage) /\ m \in DownMessage
  BY <1>1, <1>2, <1>3 DEF IInv, Types
<1>5. /\ m.type # "Predict" /\ g.ipc_request_finished => h.ipc_request_finished
      /\ m.type = "Run" => /\ h.ipc_request_finished = g.ipc_request_finished
                           /\ h.running = g.running /\ h.data = g.data
      /\ m.type = "Stop" => ~h.running
      /\ m.type = "Predict" => /\ ~h.ipc_request_finished /\ h.running = g.running
                               /\ h.data.script = m.script /\ ~h.data.mixed
  BY <1>2, <1>4, HandledPrediction
<1>6. /\ NoPredict(d) => NoPredict(e) /\ m.type # "Predict"
      /\ NoTask(d) => NoTask(e) /\ m.type # "Task"
      /\ Stops(d) => Stops(e) \/ (m.type = "Stop" /\ NoTask(e))
      /\ OnlyRuns(d) => OnlyRuns(e) /\ m.type = "Run"
  BY <1>2, <1>3, <1>4, Read, Zenon
<1>7. m.type \in {"Task", "Run", "Stop", "Predict"}
  BY <1>4, DownKinds
<1>8. NoPrediction(g, d, u) => NoPrediction(h, e, u)
  BY <1>5, <1>6 DEF NoPrediction
<1>9. Quiet(g, d) => Quiet(h, e)
  BY <1>5, <1>6, <1>7 DEF Quiet
<1>10. ASSUME NEW s, Quiet(g, d), Pending(g, d, u, s)
       PROVE  Pending(h, e, u, s)
  <2>1. CASE g.ipc_request_finished /\ NoPredict(u) /\ Asked(d, s)
    <3>1. \/ m.type # "Predict" /\ Asked(e, s)
          \/ m.type = "Predict" /\ m.script = s /\ OnlyRuns(e) /\ ~Stops(d)
      BY <1>2, <1>4, <2>1, ReadAsked, Zenon
    <3>2. CASE m.type # "Predict" /\ Asked(e, s)
      BY <1>5, <2>1, <3>2 DEF Pending
    <3>3. CASE m.type = "Predict" /\ m.script = s /\ OnlyRuns(e) /\ ~Stops(d)
      BY <1>5, <1>10, <2>1, <3>3 DEF Pending, Working, Quiet
    <3>. QED
      BY <3>1, <3>2, <3>3
  <2>2. CASE Working(g, d, s) /\ NoPredict(u)
    BY <1>5, <1>6, <2>2 DEF Pending, Working
  <2>3. CASE g.ipc_request_finished /\ NoPredict(d) /\ Answered(u, s)
    BY <1>5, <1>6, <2>3 DEF Pending
  <2>. QED
    BY <1>10, <2>1, <2>2, <2>3 DEF Pending
<1>. QED
  BY <1>1, <1>3, <1>8, <1>9, <1>10, PredClient, Zenon

(* A client collects points and sends them.                                *)
LEMMA PredPoints ==
  ASSUME IInv, PredInv, NEW c \in Client, GamePrediction_Frame_Hook(c)
  PROVE  PredInv'
<1>1. PICK g, d, u : g = cl[c] /\ d = down[c] /\ u = up[c]
  OBVIOUS
<1>2. /\ g \in Game /\ ~g.ipc_request_finished /\ u \in Seq(UpMessage) /\ g.data \in Line
      /\ UNCHANGED sv /\ down' = [down EXCEPT ![c] = d]
  BY <1>1 DEF GamePrediction_Frame_Hook, IInv, Types, Game
<1>3. ~NoPrediction(g, d, u)
  BY <1>2 DEF NoPrediction
<1>4. CASE cl' = [cl EXCEPT ![c].points = TRUE] /\ UNCHANGED up
  <2>1. PICK h : h = [g EXCEPT !.points = TRUE]
    BY Zenon
  <2>2. /\ cl' = [cl EXCEPT ![c] = h] /\ up' = [up EXCEPT ![c] = u]
        /\ h.ipc_request_finished = g.ipc_request_finished /\ h.data = g.data
        /\ h.running = g.running
    BY <1>1, <1>2, <1>4, <2>1 DEF IInv, Types, Game
  <2>3. Quiet(g, d) => Quiet(h, d)
    BY <2>2 DEF Quiet
  <2>4. \A s : Pending(g, d, u, s) => Pending(h, d, u, s)
    BY <2>2 DEF Pending, Working
  <2>. QED
    BY <1>1, <1>2, <1>3, <2>2, <2>3, <2>4, PredClient, Zenon
<1>5. CASE /\ cl' = [cl EXCEPT ![c].ipc_request_finished = TRUE]
           /\ CL_SendMessages(c, <<[type |-> "Predict", data |-> cl[c].data]>>)
  <2>1. PICK h : h = [g EXCEPT !.ipc_request_finished = TRUE]
    BY Zenon
  <2>2. PICK m : m = [type |-> "Predict", data |-> g.data]
    BY Zenon
  <2>3. PICK ms : ms = <<m>>
    BY Zenon
  <2>4. m \in UpMessage /\ m.type = "Predict" /\ m.data = g.data
    BY <1>2, <2>2 DEF UpMessage
  <2>5. ms \in Seq(UpMessage) /\ DOMAIN ms = {1} /\ ms[1] = m
    BY <2>3, <2>4
  <2>6. /\ cl' = [cl EXCEPT ![c] = h] /\ up' = [up EXCEPT ![c] = u \o ms]
        /\ h.ipc_request_finished /\ h.running = g.running
    BY <1>1, <1>2, <1>5, <2>1, <2>2, <2>3 DEF CL_SendMessages, IInv, Types, Game
  <2>7. Quiet(g, d) => Quiet(h, d)
    BY <2>6 DEF Quiet
  <2>8. ASSUME NEW s, Pending(g, d, u, s)
        PROVE  Pending(h, d, u \o ms, s)
    <3>1. Working(g, d, s) /\ NoPredict(u)
      BY <1>2, <2>8 DEF Pending
    <3>2. Answered(ms, s)
      BY <2>4, <2>5, <3>1 DEF Answered, Working
    <3>3. Answered(u \o ms, s)
      BY <1>2, <2>5, <3>1, <3>2, Reports, Zenon
    <3>4. NoPredict(d)
      BY <3>1 DEF NoPredict, Working, OnlyRuns
    <3>. QED
      BY <2>6, <3>3, <3>4 DEF Pending
  <2>. QED
    BY <1>1, <1>2, <1>3, <2>6, <2>7, <2>8, PredClient, Zenon
<1>. QED
  BY <1>4, <1>5 DEF GamePrediction_Frame_Hook

(* A client with a search, whose prediction stays as it is.                *)
LEMMA PredSearch ==
  ASSUME IInv, PredInv, UNCHANGED sv, NEW c \in Client, cl[c].running, NEW h, NEW ms,
         ms \in Seq(UpMessage), NoPredict(ms),
         cl' = [cl EXCEPT ![c] = h], UNCHANGED down, up' = [up EXCEPT ![c] = up[c] \o ms],
         cl[c].ipc_request_finished => h.ipc_request_finished
  PROVE  PredInv'
<1>1. PICK g, d, u : g = cl[c] /\ d = down[c] /\ u = up[c]
  OBVIOUS
<1>2. down' = [down EXCEPT ![c] = d] /\ u \in Seq(UpMessage)
  BY <1>1 DEF IInv, Types
<1>3. PICK v : v = u \o ms
  BY Zenon
<1>4. (NoPredict(u) => NoPredict(v)) /\ \A s : Answered(u, s) => Answered(v, s)
  BY <1>2, <1>3, Reports, Zenon
<1>5. NoPrediction(g, d, u) => NoPrediction(h, d, v)
  BY <1>1, <1>4 DEF NoPrediction
<1>6. Quiet(g, d) => Quiet(h, d)
  BY <1>1 DEF Quiet
<1>7. \A s : Pending(g, d, u, s) => Pending(h, d, v, s)
  BY <1>1, <1>4 DEF Pending, Working
<1>. QED
  BY <1>1, <1>2, <1>3, <1>5, <1>6, <1>7, PredClient, Zenon

(* A client ends a run of its search.                                      *)
LEMMA PredRuns ==
  ASSUME IInv, PredInv, NEW c \in Client, NEW e \in Efficacy, OnRunnerFrame(c, e)
  PROVE  PredInv'
<1>1. PICK g, run : g = cl[c] /\ run = [task |-> g.id, efficacy |-> e]
  BY Zenon
<1>2. PICK h : Iterated(g, run, h) /\ cl' = [cl EXCEPT ![c] = h]
  BY <1>1, RunnerGame
<1>3. up[c] \in Seq(UpMessage)
  BY ClientFacts
<1>4. h.ipc_request_finished = g.ipc_request_finished
  BY <1>2 DEF Iterated
<1>5. cl[c].running /\ UNCHANGED <<sv, down, up>>
  BY DEF OnRunnerFrame
<1>6. up' = [up EXCEPT ![c] = up[c] \o << >>]
  BY <1>3, <1>5 DEF IInv, Types
<1>7. << >> \in Seq(UpMessage) /\ NoPredict(<< >>)
  BY DEF NoPredict
<1>. QED
  BY <1>1, <1>2, <1>4, <1>5, <1>6, <1>7, PredSearch, Zenon

(* A client starts its next iteration or ends its search.                  *)
LEMMA PredEnds ==
  ASSUME IInv, PredInv, NEW c \in Client, Game_Opt_Ended(c)
  PROVE  PredInv'
<1>1. cl[c] \in Game /\ up[c] \in Seq(UpMessage) /\ cl[c].running /\ UNCHANGED <<sv, down>>
  BY DEF IInv, Types, Game_Opt_Ended
<1>2. ASSUME NEW h, cl' = [cl EXCEPT ![c] = h], Ended(cl[c], h), UNCHANGED up
      PROVE  PredInv'
  <2>1. cl[c].ipc_request_finished => h.ipc_request_finished
    <3>1. PICK k : k = [cl[c] EXCEPT !.running = FALSE]
      BY Zenon
    <3>2. k.ipc_request_finished = cl[c].ipc_request_finished
      BY <1>1, <3>1 DEF Game
    <3>3. h = Run_Script(k) \/ h = k
      BY <1>2, <3>1 DEF Ended
    <3>. QED
      BY <3>2, <3>3, Zenon DEF Run_Script
  <2>2. up[c] \o << >> = up[c] /\ up' = [up EXCEPT ![c] = up[c] \o << >>]
    BY <1>1, <1>2 DEF IInv, Types
  <2>3. << >> \in Seq(UpMessage) /\ NoPredict(<< >>)
    BY DEF NoPredict
  <2>. QED
    BY <1>1, <1>2, <2>1, <2>2, <2>3, PredSearch, Zenon
<1>3. CASE cl[c].state = "NewIteration" /\ GameOpt_NewIteration(c)
  <2>1. PICK g : g = cl[c]
    OBVIOUS
  <2>2. PICK k : k = [g EXCEPT !.first = FALSE, !.iterations = @ + 1,
                        !.bestEfficacy = IF g.first \/ g.best.efficacy > g.bestEfficacy
                                         THEN g.best.efficacy ELSE @, !.state = "Continue"]
    OBVIOUS
  <2>3. PICK h, ms : h = Run_Script(k) /\ ms = Report(g)
    OBVIOUS
  <2>4. /\ cl' = [cl EXCEPT ![c] = h] /\ up' = [up EXCEPT ![c] = up[c] \o ms]
    BY <1>3, <2>1, <2>2, <2>3 DEF GameOpt_NewIteration, CL_SendMessages, Report,
                                 ProgressOf, GoalOf, RunOf
  <2>5. k.ipc_request_finished = g.ipc_request_finished
    BY <1>1, <2>1, <2>2 DEF Game
  <2>6. g.ipc_request_finished => h.ipc_request_finished
    BY <2>3, <2>5, Zenon DEF Run_Script
  <2>7. ms \in Seq(UpMessage) /\ NoPredict(ms)
    BY <1>1, <2>1, <2>3, ReportKinds DEF NoPredict
  <2>. QED
    BY <1>1, <2>1, <2>4, <2>6, <2>7, PredSearch, Zenon
<1>. QED
  BY <1>2, <1>3, EndsOrGoesOn, Zenon

-----------------------------------------------------------------------------
(* A step of the server while no prediction is asked for.                  *)
LEMMA PredCalm ==
  ASSUME PredInv, UNCHANGED <<cl, up>>,
         sv'.current_line_time = sv.current_line_time, sv'.last_request = sv.last_request,
         sv'.last_request <= sv'.now, sv'.last_edited <= sv'.now,
         ~sv'.hasty =>
           /\ ~sv.hasty /\ sv.current_line_time = sv.last_request
           /\ sv'.last_edited <= sv.last_request => sv'.line.script = sv'.script /\ ~sv'.line.mixed,
         \A c \in Client : NoPredict(down[c]) => NoPredict(down'[c]),
         ~sv'.running => Quiet(cl[Predictor], down'[Predictor])
  PROVE  PredInv'
<1>1. Times'
  BY DEF PredInv, Times
<1>2. \A c \in Client \ {Predictor} : NoPrediction(cl'[c], down'[c], up'[c])
  BY DEF PredInv, NoPrediction
<1>3. ASSUME ~sv'.hasty PROVE Predicted'
  <2>1. NoPrediction(cl'[Predictor], down'[Predictor], up'[Predictor])
    BY <1>3, MultiGameAssumption DEF PredInv, Predicted, NoPrediction
  <2>. QED
    BY <1>3, <2>1 DEF Predicted
<1>. QED
  BY <1>1, <1>2, <1>3 DEF PredInv

(* What stopping the search sends.                                         *)
LEMMA PredStops ==
  ASSUME IInv, PredInv
  PROVE  /\ \A c \in Client : NoPredict(down[c]) => NoPredict(StopMessages[c])
         /\ Quiet(cl[Predictor], StopMessages[Predictor])
         /\ StopMessages \in [Client -> Seq(DownMessage)]
<1>1. StopMessages \in [Client -> Seq(DownMessage)]
  BY Stopping
<1>2. CASE sv.running
  <2>1. PICK m : m = [type |-> "Stop"]
    BY Zenon
  <2>2. m.type = "Stop" /\ \A c \in Client : StopMessages[c] = Append(down[c], m)
    BY <1>2, <2>1 DEF StopMessages, SV_BroadCastMessage
  <2>3. ASSUME NEW c \in Client
        PROVE  (NoPredict(down[c]) => NoPredict(StopMessages[c])) /\ Stops(StopMessages[c])
    <3>1. down[c] \in Seq(DownMessage)
      BY DEF IInv, Types
    <3>. QED
      BY <2>2, <3>1, Sent
  <2>. QED
    BY <1>1, <2>3, MultiGameAssumption DEF Quiet
<1>3. CASE ~sv.running
  BY <1>1, <1>3 DEF StopMessages, PredInv
<1>. QED
  BY <1>2, <1>3

(* The server asks for a prediction, of the script as it is.               *)
LEMMA PredRequest ==
  ASSUME IInv, PredInv, IPC_Prediction_Frame_Hook
  PROVE  PredInv'
<1>1. CASE Request
  <2>0. /\ Should_Predict /\ UNCHANGED <<cl, up>> /\ Predictor \in Client
        /\ Times /\ sv.last_request \in Nat /\ sv.current_line_time \in Nat
        /\ sv.last_edited \in Nat /\ sv.now \in Nat /\ sv \in Server /\ sv.line \in Line
    BY <1>1, MultiGameAssumption DEF Request, IPC_Prediction_Frame_Hook, IInv, Types, Server, PredInv
  <2>1. (sv.hasty /\ Outstanding) \/ NoPrediction(cl[Predictor], down[Predictor], up[Predictor])
    <3>1. CASE ~sv.hasty /\ sv.current_line_time # sv.last_request
      BY <2>0, <3>1 DEF PredInv, Predicted, Should_Predict
    <3>2. CASE ~sv.hasty /\ sv.current_line_time = sv.last_request
      BY <3>2 DEF PredInv, Predicted
    <3>. QED
      BY <3>1, <3>2, OutstandingFacts
  <2>2. PICK l : l = [sv.line EXCEPT !.script = -1]
    BY Zenon
  <2>3. l.start = sv.line.start /\ l.end = sv.line.end
    BY <2>0, <2>2 DEF Line
  <2>4. /\ sv'.current_line_time = sv.current_line_time /\ sv'.last_request = sv.now + 1
        /\ sv'.now = sv.now + 1 /\ sv'.last_edited = sv.last_edited /\ sv'.running = FALSE
        /\ sv'.paused = sv.paused /\ sv'.line = l /\ sv'.script = sv.script
        /\ sv'.frame = sv.frame /\ sv'.hasty = (sv.hasty /\ Outstanding)
    <3>1. sv' = [[sv EXCEPT !.now = sv.now + 1, !.last_request = sv.now + 1, !.line = l,
                            !.hasty = (sv.hasty /\ Outstanding)] EXCEPT !.running = FALSE]
      BY <1>1, <2>2 DEF Request, Stopped
    <3>. QED
      BY <2>0, <3>1 DEF Server
  <2>5. sv'.current_line_time # sv'.last_request /\ Times' /\ sv'.last_edited <= sv'.last_request
    BY <2>0, <2>4 DEF Times
  <2>6. ~IPC_Prediction_HasLine'
    <3>1. CASE sv.last_request < sv.last_edited
      <4>1. ~(sv'.current_line_time >= sv'.last_edited)
        BY <2>0, <2>4, <3>1 DEF Times
      <4>. QED
        BY <4>1 DEF IPC_Prediction_HasLine
    <3>2. CASE ~IPC_Prediction_HasLine
      BY <2>3, <2>4, <3>2 DEF IPC_Prediction_HasLine, EndFrame
    <3>. QED
      BY <2>0, <3>1, <3>2 DEF Should_Predict
  <2>7. PICK m : m = [type |-> "Predict", script |-> sv.script, start |-> sv.frame,
                      end |-> EndFrame(sv.frame)]
    BY Zenon
  <2>8. m.type = "Predict" /\ m.script = sv.script
    BY <2>7
  <2>9. PICK D : D = StopMessages
    OBVIOUS
  <2>10. /\ D \in [Client -> Seq(DownMessage)] /\ Quiet(cl[Predictor], D[Predictor])
         /\ \A c \in Client : NoPredict(down[c]) => NoPredict(D[c])
    BY <2>9, PredStops
  <2>11. /\ down'[Predictor] = Append(D[Predictor], m)
         /\ \A c \in Client : c # Predictor => down'[c] = D[c]
    <3>1. down' = [D EXCEPT ![Predictor] = Append(D[Predictor], m)]
      BY <1>1, <2>7, <2>9 DEF Request
    <3>. QED
      BY <2>0, <2>10, <3>1
  <2>12. D[Predictor] \in Seq(DownMessage)
    BY <2>0, <2>10
  <2>13. ASSUME ~sv'.hasty
         PROVE  Pending(cl'[Predictor], down'[Predictor], up'[Predictor], sv'.script)
    <3>1. NoPrediction(cl[Predictor], down[Predictor], up[Predictor])
      BY <2>1, <2>4, <2>13, Zenon
    <3>2. NoPredict(D[Predictor])
      BY <2>0, <2>10, <3>1 DEF NoPrediction
    <3>3. Asked(down'[Predictor], sv.script)
      BY <2>8, <2>11, <2>12, <3>2, Sent, Zenon
    <3>. QED
      BY <2>0, <2>4, <3>1, <3>3 DEF Pending, NoPrediction
  <2>16. Quiet(cl'[Predictor], down'[Predictor])
    <3>1. /\ NoTask(D[Predictor]) => NoTask(down'[Predictor])
          /\ Stops(D[Predictor]) => Stops(down'[Predictor])
      BY <2>8, <2>11, <2>12, Sent, Zenon
    <3>. QED
      BY <2>0, <2>10, <3>1 DEF Quiet
  <2>17. \A c \in Client \ {Predictor} : NoPrediction(cl'[c], down'[c], up'[c])
    BY <2>0, <2>10, <2>11 DEF PredInv, NoPrediction
  <2>18. sv'.paused
    BY <2>0, <2>4 DEF Should_Predict
  <2>. QED
    BY <2>4, <2>5, <2>6, <2>13, <2>16, <2>17, <2>18 DEF PredInv, Predicted
<1>2. CASE UNCHANGED <<sv, down>>
  <2>1. UNCHANGED <<sv, cl, down, up>>
    BY <1>2 DEF IPC_Prediction_Frame_Hook
  <2>. QED
    BY <2>1 DEF PredInv, Predicted, Times, IPC_Prediction_HasLine, EndFrame
<1>. QED
  BY <1>1, <1>2 DEF IPC_Prediction_Frame_Hook

(* The server starts or stops the search: only with a line.                *)
LEMMA PredFrame ==
  ASSUME IInv, PredInv, MultiGameOpt_Frame
  PROVE  PredInv'
<1>0. /\ UNCHANGED <<cl, up>> /\ Predictor \in Client /\ Times /\ sv \in Server
      /\ sv.last_request \in Nat /\ sv.current_line_time \in Nat
  BY MultiGameAssumption DEF MultiGameOpt_Frame, IInv, Types, Server, PredInv
<1>1. CASE /\ ~sv.paused /\ down' = StopMessages
           /\ sv' = Stopped([sv EXCEPT !.startFrame = -1])
  <2>1. ~sv.hasty => sv.current_line_time = sv.last_request
    BY <1>1 DEF PredInv, Predicted
  <2>2. /\ sv'.current_line_time = sv.current_line_time /\ sv'.last_request = sv.last_request
        /\ sv'.last_edited = sv.last_edited /\ sv'.now = sv.now
        /\ sv'.line = sv.line /\ sv'.script = sv.script /\ sv'.hasty = sv.hasty
    BY <1>0, <1>1 DEF Stopped, Server
  <2>3. /\ \A c \in Client : NoPredict(down[c]) => NoPredict(down'[c])
        /\ Quiet(cl[Predictor], down'[Predictor])
    BY <1>1, PredStops
  <2>4. ~sv.hasty /\ sv'.last_edited <= sv.last_request =>
          sv'.line.script = sv'.script /\ ~sv'.line.mixed
    BY <2>1, <2>2 DEF PredInv, Predicted
  <2>5. sv'.last_request <= sv'.now /\ sv'.last_edited <= sv'.now
    BY <1>0, <2>2 DEF Times
  <2>. QED
    BY <1>0, <2>1, <2>2, <2>3, <2>4, <2>5, PredCalm
<1>2. CASE StartsSearch /\ SV_StartMultiGameOpt
  <2>1. ~sv.hasty => sv.current_line_time = sv.last_request
    BY <1>2 DEF StartsSearch, PredInv, Predicted
  <2>2. /\ sv'.current_line_time = sv.current_line_time /\ sv'.last_request = sv.last_request
        /\ sv'.last_edited = sv.last_edited /\ sv'.now = sv.now
        /\ sv'.line = sv.line /\ sv'.script = sv.script /\ sv'.running = TRUE
        /\ sv'.hasty = sv.hasty
    <3>1. PICK z, n : sv' = [sv EXCEPT !.startFrame = sv.frame, !.running = TRUE, !.first = TRUE,
                               !.goal = 0, !.counts = z, !.num = n, !.last_updated = sv.now]
      BY <1>2, Zenon DEF SV_StartMultiGameOpt
    <3>. QED
      BY <1>0, <3>1 DEF Server
  <2>3. ASSUME NEW c \in Client, NoPredict(down[c])
        PROVE  NoPredict(down'[c])
    <3>1. PICK m : m = [type |-> "Task", id |-> sv.num + 1]
      BY Zenon
    <3>2. m.type = "Task" /\ down'[c] = Append(down[c], m) /\ down[c] \in Seq(DownMessage)
      BY <1>2, <3>1 DEF SV_StartMultiGameOpt, SV_BroadCastMessage, IInv, Types
    <3>. QED
      BY <2>3, <3>2, Sent, Zenon
  <2>4. ~sv.hasty /\ sv'.last_edited <= sv.last_request =>
          sv'.line.script = sv'.script /\ ~sv'.line.mixed
    BY <2>1, <2>2 DEF PredInv, Predicted
  <2>5. sv'.last_request <= sv'.now /\ sv'.last_edited <= sv'.now
    BY <1>0, <2>2 DEF Times
  <2>. QED
    BY <1>0, <2>1, <2>2, <2>3, <2>4, <2>5, PredCalm
<1>3. CASE UNCHANGED <<sv, down>>
  BY <1>0, <1>3 DEF PredInv, Predicted, Times, IPC_Prediction_HasLine, EndFrame
<1>. QED
  BY <1>1, <1>2, <1>3 DEF MultiGameOpt_Frame

(* The user: hasty with an edit or a jump while a prediction is made.      *)
LEMMA PredUser ==
  ASSUME IInv, PredInv, User
  PROVE  PredInv'
<1>0. /\ Times /\ sv \in Server /\ sv.last_request \in Nat /\ sv.current_line_time \in Nat
      /\ sv.last_edited \in Nat /\ sv.now \in Nat
  BY DEF IInv, Types, Server, PredInv
<1>1. UNCHANGED <<cl, up>>
  BY DEF User, Edit, Cmd_TAS_Optimizer_Accept, Optimizer_Var_Updated, Skip, MayAct
<1>2. ~sv.hasty /\ ~Outstanding =>
        /\ sv.current_line_time = sv.last_request
        /\ sv.last_edited <= sv.last_request => sv.line.script = sv.script /\ ~sv.line.mixed
  BY OutstandingFacts DEF PredInv, Predicted
<1>3. /\ \A c \in Client : NoPredict(down[c]) => NoPredict(StopMessages[c])
      /\ Quiet(cl[Predictor], StopMessages[Predictor])
  BY PredStops
<1>4. /\ \A c \in Client : NoPredict(down[c]) => NoPredict(down'[c])
      /\ ~sv'.running => Quiet(cl[Predictor], down'[Predictor])
  <2>1. CASE down' = StopMessages
    BY <1>3, <2>1
  <2>2. CASE UNCHANGED down /\ (Edit \/ Skip)
    <3>1. sv'.running = sv.running
      BY <1>0, <2>2, Zenon DEF Edit, Skip, Server
    <3>. QED
      BY <2>2, <3>1 DEF PredInv
  <2>. QED
    BY <2>1, <2>2 DEF User, Edit, Cmd_TAS_Optimizer_Accept, Optimizer_Var_Updated, Skip
<1>5. CASE Edit \/ Cmd_TAS_Optimizer_Accept
  <2>1. /\ sv'.current_line_time = sv.current_line_time /\ sv'.last_request = sv.last_request
        /\ sv'.last_edited = sv.now + 1 /\ sv'.now = sv.now + 1
        /\ sv'.hasty = (sv.hasty \/ Outstanding)
    BY <1>0, <1>5, Zenon DEF Edit, Cmd_TAS_Optimizer_Accept, Stopped, Server
  <2>2. sv'.last_request <= sv'.now /\ sv'.last_edited <= sv'.now /\ ~(sv'.last_edited <= sv.last_request)
    BY <1>0, <2>1 DEF Times
  <2>3. ~sv'.hasty => ~sv.hasty /\ ~Outstanding
    BY <2>1, Zenon
  <2>. QED
    BY <1>1, <1>2, <1>4, <2>1, <2>2, <2>3, PredCalm
<1>6. CASE Skip
  <2>1. /\ sv'.current_line_time = sv.current_line_time /\ sv'.last_request = sv.last_request
        /\ sv'.last_edited = sv.last_edited /\ sv'.now = sv.now
        /\ sv'.line = sv.line /\ sv'.script = sv.script
        /\ sv'.hasty = (sv.hasty \/ Outstanding)
    BY <1>0, <1>6, Zenon DEF Skip, Server
  <2>2. sv'.last_request <= sv'.now /\ sv'.last_edited <= sv'.now
    BY <1>0, <2>1 DEF Times
  <2>3. ~sv'.hasty => ~sv.hasty /\ ~Outstanding
    BY <2>1, Zenon
  <2>. QED
    BY <1>1, <1>2, <1>4, <2>1, <2>2, <2>3, PredCalm
<1>7. CASE Optimizer_Var_Updated
  <2>1. /\ sv'.current_line_time = sv.current_line_time /\ sv'.last_request = sv.last_request
        /\ sv'.last_edited = sv.last_edited /\ sv'.now = sv.now
        /\ sv'.line = sv.line /\ sv'.script = sv.script /\ sv'.hasty = sv.hasty
        /\ sv'.paused = sv.paused /\ sv'.frame = sv.frame /\ sv'.running = FALSE
    BY <1>0, <1>7, Zenon DEF Optimizer_Var_Updated, Stopped, Server
  <2>2. CASE sv.hasty \/ sv.current_line_time = sv.last_request
    <3>1. sv'.last_request <= sv'.now /\ sv'.last_edited <= sv'.now
      BY <1>0, <2>1 DEF Times
    <3>2. ~sv.hasty => /\ sv.current_line_time = sv.last_request
                       /\ sv.last_edited <= sv.last_request => sv.line.script = sv.script /\ ~sv.line.mixed
      BY <2>2 DEF PredInv, Predicted
    <3>. QED
      BY <1>1, <1>4, <2>1, <3>1, <3>2, PredCalm
  <2>3. CASE ~sv.hasty /\ sv.current_line_time # sv.last_request
    <3>1. sv.running = FALSE
      <4>1. ~sv.running /\ sv.running \in BOOLEAN
        BY <1>0, <2>3 DEF PredInv, Predicted, Server
      <4>. QED
        BY <4>1
    <3>2. UNCHANGED down
      BY <1>7, <3>1 DEF Optimizer_Var_Updated, StopMessages
    <3>3. SameLine
      BY <2>1, <3>1, Zenon DEF SameLine
    <3>. QED
      BY <1>1, <3>2, <3>3, PredStep
  <2>. QED
    BY <2>2, <2>3
<1>. QED
  BY <1>5, <1>6, <1>7 DEF User

(* The game of the server gets to a frame.                                 *)
LEMMA PredArrive ==
  ASSUME IInv, PredInv, NEW f, Arrive(f)
  PROVE  PredInv'
<1>0. /\ Times /\ sv \in Server /\ UNCHANGED <<cl, down, up>>
      /\ ~sv.hasty => sv.current_line_time = sv.last_request
  BY DEF IInv, Types, PredInv, Predicted, Arrive
<1>1. /\ sv'.current_line_time = sv.current_line_time /\ sv'.last_request = sv.last_request
      /\ sv'.last_edited = sv.last_edited /\ sv'.now = sv.now /\ sv'.running = sv.running
      /\ sv'.line = sv.line /\ sv'.script = sv.script /\ sv'.hasty = sv.hasty
  BY <1>0 DEF Arrive, Server
<1>2. sv'.last_request <= sv'.now /\ sv'.last_edited <= sv'.now
  BY <1>0, <1>1 DEF Times
<1>3. ~sv.hasty /\ sv'.last_edited <= sv.last_request =>
        sv'.line.script = sv'.script /\ ~sv'.line.mixed
  BY <1>0, <1>1 DEF PredInv, Predicted
<1>4. ~sv'.running => Quiet(cl[Predictor], down'[Predictor])
  BY <1>0, <1>1 DEF PredInv
<1>5. \A c \in Client : NoPredict(down[c]) => NoPredict(down'[c])
  BY <1>0
<1>. QED
  BY <1>0, <1>1, <1>2, <1>3, <1>4, <1>5, PredCalm

(* The server reads something that is not a prediction.                    *)
LEMMA PredReport ==
  ASSUME IInv, PredInv, NEW c \in Client, Handle_Server_Message(c), Head(up[c]).type # "Predict"
  PROVE  PredInv'
<1>0. /\ UNCHANGED cl /\ sv \in Server /\ up[c] # <<>> /\ up' = [up EXCEPT ![c] = Tail(up[c])]
      /\ Predictor \in Client /\ up \in [Client -> Seq(UpMessage)] /\ down \in [Client -> Seq(DownMessage)]
  BY MultiGameAssumption DEF IInv, Types, Handle_Server_Message
<1>1. PICK m : m = Head(up[c])
  OBVIOUS
<1>2. /\ \/ MultiGame_ReceiveRun(m) \/ MultiGame_ReceiveProgress(c, m) \/ MultiGame_ReceiveGoal(m)
      /\ m.type # "Predict"
  BY <1>1 DEF Handle_Server_Message, IPC_Prediction_Read_Response
<1>3. SameLine
  BY <1>0, <1>2, ZenonT(30) DEF MultiGame_ReceiveRun, MultiGame_ReceiveProgress, MultiGame_ReceiveGoal,
                    SameLine, Server
<1>4. \/ UNCHANGED down
      \/ \E k : k.type = "Run" /\ \A x \in Client : down'[x] = Append(down[x], k)
  <2>1. CASE MultiGame_ReceiveRun(m) /\ ~UNCHANGED down
    <3>1. PICK k : k = [type |-> "Run", id |-> sv.num, run |-> m.run]
      BY Zenon
    <3>2. k.type = "Run" /\ \A x \in Client : down'[x] = Append(down[x], k)
      BY <2>1, <3>1 DEF MultiGame_ReceiveRun, SV_BroadCastMessage
    <3>. QED
      BY <3>2
  <2>. QED
    BY <1>2, <2>1 DEF MultiGame_ReceiveProgress, MultiGame_ReceiveGoal, MultiGame_ReceiveRun
<1>5. ASSUME NEW x \in Client
      PROVE  /\ NoPredict(down[x]) => NoPredict(down'[x])
             /\ NoTask(down[x]) => NoTask(down'[x])
             /\ Stops(down[x]) => Stops(down'[x])
             /\ OnlyRuns(down[x]) => OnlyRuns(down'[x])
             /\ \A s : Asked(down[x], s) => Asked(down'[x], s)
  <2>1. CASE UNCHANGED down
    BY <2>1
  <2>2. ASSUME NEW k, k.type = "Run", down'[x] = Append(down[x], k)
        PROVE  /\ NoPredict(down[x]) => NoPredict(down'[x])
               /\ NoTask(down[x]) => NoTask(down'[x])
               /\ Stops(down[x]) => Stops(down'[x])
               /\ OnlyRuns(down[x]) => OnlyRuns(down'[x])
               /\ \A s : Asked(down[x], s) => Asked(down'[x], s)
    <3>1. down[x] \in Seq(DownMessage) /\ k.type # "Predict" /\ k.type # "Task"
      BY <1>0, <2>2
    <3>. QED
      BY <2>2, <3>1, Sent, Zenon
  <2>. QED
    BY <1>4, <2>1, <2>2
<1>6. ASSUME NEW x \in Client
      PROVE  /\ NoPredict(up[x]) => NoPredict(up'[x])
             /\ \A s : Answered(up[x], s) => Answered(up'[x], s)
  <2>1. CASE x = c
    <3>1. up[x] \in Seq(UpMessage) /\ up[x] # <<>> /\ m = Head(up[x]) /\ up'[x] = Tail(up[x])
      BY <1>0, <1>1, <2>1
    <3>2. NoPredict(up[x]) => NoPredict(up'[x])
      BY <3>1, Read, Zenon
    <3>3. ASSUME NEW s, Answered(up[x], s)
          PROVE  Answered(up'[x], s)
      <4>1. PICK d, e : d = up[x] /\ e = up'[x]
        OBVIOUS
      <4>2. d \in Seq(UpMessage) /\ Answered(d, s) /\ m = Head(d) /\ e = Tail(d) /\ m.type # "Predict"
        BY <1>2, <3>1, <3>3, <4>1
      <4>3. Answered(e, s)
        BY <4>2, ReadAnswered, Zenon
      <4>. QED
        BY <4>1, <4>3
    <3>. QED
      BY <3>2, <3>3
  <2>2. CASE x # c
    BY <1>0, <2>2
  <2>. QED
    BY <2>1, <2>2
<1>7. \A x \in Client :
        NoPrediction(cl[x], down[x], up[x]) => NoPrediction(cl'[x], down'[x], up'[x])
  BY <1>0, <1>5, <1>6 DEF NoPrediction
<1>8. Quiet(cl[Predictor], down[Predictor]) => Quiet(cl'[Predictor], down'[Predictor])
  BY <1>0, <1>5 DEF Quiet
<1>9. \A s : Pending(cl[Predictor], down[Predictor], up[Predictor], s) =>
               Pending(cl'[Predictor], down'[Predictor], up'[Predictor], s)
  BY <1>0, <1>5, <1>6 DEF Pending, Working
<1>. QED
  BY <1>3, <1>7, <1>8, <1>9, PredStep

(* The server reads a prediction: the one it asked for if nobody was hasty. *)
LEMMA PredAnswer ==
  ASSUME IInv, PredInv, NEW c \in Client, Handle_Server_Message(c), Head(up[c]).type = "Predict"
  PROVE  PredInv'
<1>0. /\ UNCHANGED cl /\ sv \in Server /\ up[c] # <<>> /\ up' = [up EXCEPT ![c] = Tail(up[c])]
      /\ Predictor \in Client /\ up \in [Client -> Seq(UpMessage)] /\ Times
      /\ sv.last_request \in Nat
  BY MultiGameAssumption, Zenon DEF IInv, Types, Server, Handle_Server_Message, PredInv
<1>1. PICK m, e : m = Head(up[c]) /\ e = Tail(up[c])
  BY Zenon
<1>2. /\ m.type = "Predict" /\ UNCHANGED down
      /\ sv' = [sv EXCEPT !.line = m.data, !.current_line_time = sv.last_request]
  BY <1>1 DEF Handle_Server_Message, MultiGame_ReceiveRun, MultiGame_ReceiveProgress,
              MultiGame_ReceiveGoal, IPC_Prediction_Read_Response
<1>3. up[c] \in Seq(UpMessage) /\ up[c] # <<>>
  BY <1>0
<1>4. ~NoPredict(up[c])
  BY <1>1, <1>2, <1>3, Read
<1>5. c = Predictor
  BY <1>4 DEF PredInv, NoPrediction
<1>6. /\ sv'.current_line_time = sv.last_request /\ sv'.last_request = sv.last_request
      /\ sv'.last_edited = sv.last_edited /\ sv'.now = sv.now /\ sv'.running = sv.running
      /\ sv'.line = m.data /\ sv'.script = sv.script /\ sv'.hasty = sv.hasty
  BY <1>0, <1>2 DEF Server
<1>7. Times'
  BY <1>0, <1>6 DEF Times
<1>8. up'[c] = e /\ \A x \in Client \ {Predictor} : up'[x] = up[x]
  BY <1>0, <1>1, <1>5
<1>9. \A x \in Client \ {Predictor} : NoPrediction(cl'[x], down'[x], up'[x])
  BY <1>0, <1>2, <1>8, Zenon DEF PredInv
<1>10. ~sv'.running => Quiet(cl'[Predictor], down'[Predictor])
  BY <1>0, <1>2, <1>6 DEF PredInv
<1>11. ASSUME ~sv.hasty PROVE Predicted'
  <2>1. sv.current_line_time # sv.last_request
    BY <1>4, <1>5, <1>11 DEF PredInv, Predicted, NoPrediction
  <2>2. /\ cl[c].ipc_request_finished /\ NoPredict(down[c]) /\ Answered(up[c], sv.script)
    BY <1>4, <1>5, <1>11, <2>1 DEF PredInv, Predicted, Pending
  <2>3. PICK d, s : d = up[c] /\ s = sv.script
    OBVIOUS
  <2>4. d \in Seq(UpMessage) /\ Answered(d, s) /\ m = Head(d) /\ e = Tail(d)
    BY <1>1, <1>3, <2>2, <2>3
  <2>5. \/ m.type # "Predict" /\ Answered(e, s)
        \/ m.type = "Predict" /\ m.data.script = s /\ ~m.data.mixed /\ NoPredict(e)
    BY <2>4, ReadAnswered, Zenon
  <2>6. m.data.script = sv.script /\ ~m.data.mixed /\ NoPredict(e)
    BY <1>2, <2>3, <2>5, Zenon
  <2>7. NoPrediction(cl'[Predictor], down'[Predictor], up'[Predictor])
    BY <1>0, <1>2, <1>5, <1>8, <2>2, <2>6, Zenon DEF NoPrediction
  <2>. QED
    BY <1>6, <2>6, <2>7 DEF Predicted
<1>. QED
  BY <1>6, <1>7, <1>9, <1>10, <1>11 DEF PredInv

-----------------------------------------------------------------------------
(* At the start there is no line, and nobody has been asked for one.       *)
LEMMA PredInit ==
  ASSUME Init
  PROVE  PredInv
<1>1. Times /\ sv.current_line_time = sv.last_request /\ ~(sv.last_edited <= sv.last_request)
  BY SMTT(30) DEF Init, Times
<1>2. \A c \in Client : NoPrediction(cl[c], down[c], up[c]) /\ Quiet(cl[c], down[c])
  <2>. TAKE c \in Client
  <2>1. /\ cl[c].ipc_request_finished = TRUE /\ cl[c].running = FALSE
        /\ down[c] = <<>> /\ up[c] = <<>>
    BY DEF Init
  <2>2. NoPredict(<<>>) /\ NoTask(<<>>)
    BY DEF NoPredict, NoTask
  <2>. QED
    BY <2>1, <2>2 DEF NoPrediction, Quiet
<1>. QED
  BY <1>1, <1>2, MultiGameAssumption DEF PredInv, Predicted

(* Every step keeps it.                                                    *)
LEMMA PredNext ==
  ASSUME IInv, PredInv, [Next]_vars
  PROVE  PredInv'
<1>1. CASE UNCHANGED <<sv, cl, down, up>>
  BY <1>1 DEF PredInv, Predicted, Times, IPC_Prediction_HasLine, EndFrame
<1>2. CASE Server_Frame
  BY <1>1, <1>2, PredRequest, PredFrame, PredReport, PredAnswer DEF Server_Frame, No_Command
<1>3. CASE User
  BY <1>3, PredUser
<1>4. ASSUME NEW f, Arrive(f)
      PROVE  PredInv'
  BY <1>4, PredArrive
<1>5. ASSUME NEW c \in Client, Client_Frame(c)
      PROVE  PredInv'
  BY <1>5, PredReads, PredPoints, PredRuns, PredEnds DEF Client_Frame
<1>. QED
  BY <1>1, <1>2, <1>3, <1>4, <1>5 DEF Next, vars

(* The answer to a request carries nothing that tells which request it     *)
(* answers: it is dated by the latest one. The line is that of the current *)
(* script, made by one uninterrupted run, from every request made while    *)
(* none was outstanding until the user edits or leaves the frame without   *)
(* waiting for the answer.                                                 *)
THEOREM LineStaysFaithful == Spec => []LineFaithful
<1>1. IInv /\ PredInv => LineFaithful
  <2>. SUFFICES ASSUME IInv, PredInv, ~sv.hasty, IPC_Prediction_HasLine
                PROVE  sv.line.script = sv.script /\ ~sv.line.mixed
    BY DEF LineFaithful
  <2>1. sv.current_line_time = sv.last_request
    BY DEF PredInv, Predicted
  <2>. QED
    BY <2>1 DEF PredInv, Predicted, IPC_Prediction_HasLine
<1>2. Init => IInv /\ PredInv
  BY InitInv, PredInit
<1>3. IInv /\ PredInv /\ [Next]_vars => (IInv /\ PredInv)'
  BY StepInv, PredNext
<1>. QED
  BY <1>1, <1>2, <1>3, PTL DEF Spec

(* A search starts only when the prediction is finished and nothing of it  *)
(* is on its way, so that the runs of the search cannot get among its      *)
(* points, unless the user did not wait for the prediction either.         *)
THEOREM TasksFollowPredictions == Spec => TaskAfterPrediction
<1>1. ASSUME IInv, PredInv, [Next]_vars, sv'.num # sv.num, ~sv.hasty
      PROVE  ~Outstanding
  <2>0. sv \in Server
    BY <1>1 DEF IInv, Types
  <2>1. StartsSearch
    BY <1>1, <2>0, ZenonT(30) DEF Next, vars, Server_Frame, User, Client_Frame, Server,
         IPC_Prediction_Frame_Hook, Request, MultiGameOpt_Frame, No_Command,
         Handle_Server_Message, MultiGame_ReceiveRun, MultiGame_ReceiveProgress,
         MultiGame_ReceiveGoal, IPC_Prediction_Read_Response, Edit, Cmd_TAS_Optimizer_Accept,
         Optimizer_Var_Updated, Skip, Arrive, Handle_Client_Message, GamePrediction_Frame_Hook,
         Game_Opt_Ended, OnRunnerFrame, Stopped
  <2>2. NoPrediction(cl[Predictor], down[Predictor], up[Predictor])
    BY <1>1, <2>1 DEF StartsSearch, PredInv, Predicted
  <2>. QED
    BY <2>2, OutstandingFacts
<1>2. Init => IInv /\ PredInv
  BY InitInv, PredInit
<1>3. IInv /\ PredInv /\ [Next]_vars => (IInv /\ PredInv)'
  BY StepInv, PredNext
<1>4. IInv /\ PredInv /\ [Next]_vars => [sv'.num # sv.num => ~Outstanding \/ sv.hasty]_vars
  BY <1>1
<1>. QED
  BY <1>2, <1>3, <1>4, PTL DEF Spec, TaskAfterPrediction

=============================================================================
