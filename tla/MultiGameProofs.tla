-------------------------- MODULE MultiGameProofs --------------------------
(***************************************************************************)
(* What the server of a multi-game optimization shows belongs to its       *)
(* current task, for any number of clients, edits and runs and any delay   *)
(* of the messages between them.                                           *)
(***************************************************************************)
EXTENDS MultiGame, TLAPS

OptRun == [task : Nat, efficacy : Int]

Line == [script : Int, start : Int, end : Int, mixed : BOOLEAN]

Game ==
  [id : Nat, running : BOOLEAN, first : BOOLEAN, best : OptRun,
   bestEfficacy : Int, state : {"Continue", "NewIteration", "Stop"},
   iterations : Nat, found : OptRun, ipc_request_finished : BOOLEAN,
   data : Line, points : BOOLEAN]

DownMessage ==
  [type : {"Task"}, id : Nat] \cup [type : {"Run"}, id : Nat, run : OptRun]
  \cup [type : {"Stop"}]
  \cup [type : {"Predict"}, script : Int, start : Int, end : Int]

UpMessage ==
  [type : {"Run"}, id : Nat, run : OptRun]
  \cup [type : {"Progress"}, id : Nat, iterations : Nat]
  \cup [type : {"Goal"}, id : Nat] \cup [type : {"Predict"}, data : Line]

-----------------------------------------------------------------------------
(* A client g with messages d on their way to it.  Tasks come in the order *)
(* of their ids, later than the one the client has, and the last of them   *)
(* is task num of the server.                                              *)
DownInv(g, d, num) ==
  /\ g.id <= num
  /\ num > 1 => g.id = num \/ \E i \in DOMAIN d : d[i] = [type |-> "Task", id |-> num]
  /\ \A i \in DOMAIN d : d[i].type = "Task" => g.id < d[i].id /\ d[i].id <= num
  /\ \A i, j \in DOMAIN d :
       i < j /\ d[i].type = "Task" /\ d[j].type = "Task" => d[i].id < d[j].id
  /\ \A i \in DOMAIN d : d[i].type = "Run" => d[i].run.task = d[i].id

(* Its best run is one of its task.                                        *)
BestInv(g) ==
  /\ g.best = None \/ g.best.task = g.id
  /\ g.state = "NewIteration" => g.best.task = g.id

(* Its reports u are of its task or of earlier ones, and the progress in   *)
(* its task is not ahead of it.                                            *)
UpInv(g, u) ==
  \A i \in DOMAIN u :
    /\ u[i].type # "Predict" => u[i].id <= g.id
    /\ u[i].type = "Progress" /\ u[i].id = g.id => u[i].iterations <= g.iterations
    /\ u[i].type = "Run" => u[i].run.task = u[i].id

(* The goal of the task reaches the server before any run of it.           *)
IsGoal(m, num) == m.type = "Goal" /\ m.id = num

GoalInv(g, u, num, goal) ==
  /\ \A i \in DOMAIN u : u[i].type = "Run" /\ u[i].id = num =>
       goal = num \/ \E j \in 1 .. i : IsGoal(u[j], num)
  /\ g.id = num /\ ~g.first => goal = num \/ \E j \in DOMAIN u : IsGoal(u[j], num)

ClientInv(g, d, u, num, goal) ==
  DownInv(g, d, num) /\ BestInv(g) /\ UpInv(g, u) /\ GoalInv(g, u, num, goal)

Counted(g, count, num) == count > 0 => g.id = num /\ count <= g.iterations

-----------------------------------------------------------------------------
(* What the messages to a client hold.                                     *)
LEMMA DownKinds ==
  ASSUME NEW m \in DownMessage
  PROVE  /\ m.type \in {"Task", "Run", "Stop", "Predict"}
         /\ m.type = "Task" => m.id \in Nat
         /\ m.type = "Run" => m.id \in Nat /\ m.run \in OptRun
         /\ m.type = "Predict" => m.script \in Int /\ m.start \in Int /\ m.end \in Int
BY DEF DownMessage

(* What the messages to the server hold.                                   *)
LEMMA UpKinds ==
  ASSUME NEW m \in UpMessage
  PROVE  /\ m.type \in {"Run", "Progress", "Goal", "Predict"}
         /\ m.type # "Predict" => m.id \in Nat
         /\ m.type = "Progress" => m.iterations \in Nat
         /\ m.type = "Run" => m.run \in OptRun
         /\ m.type = "Predict" => m.data \in Line
BY DEF UpMessage

(* A new task goes to a client: no report is of that task yet.             *)
LEMMA NewTask ==
  ASSUME NEW g \in Game, NEW d \in Seq(DownMessage), NEW u \in Seq(UpMessage),
         NEW num \in Nat, num > 0, NEW goal \in Nat, ClientInv(g, d, u, num, goal)
  PROVE  /\ Append(d, [type |-> "Task", id |-> num + 1]) \in Seq(DownMessage)
         /\ ClientInv(g, Append(d, [type |-> "Task", id |-> num + 1]), u, num + 1, 0)
<1>1. PICK m : m = [type |-> "Task", id |-> num + 1]
  BY Zenon
<1>2. m \in DownMessage /\ m.type = "Task" /\ m.id = num + 1
  BY <1>1 DEF DownMessage
<1>3. PICK e : e = Append(d, m)
  BY Zenon
<1>4. /\ e \in Seq(DownMessage) /\ Len(e) = Len(d) + 1
      /\ DOMAIN e = 1 .. Len(e) /\ DOMAIN d = 1 .. Len(d)
      /\ e[Len(d) + 1] = m
      /\ \A i \in DOMAIN d : e[i] = d[i]
  BY <1>2, <1>3
<1>5. g.id \in Nat /\ g.id <= num
  BY DEF ClientInv, DownInv, Game
<1>6. DownInv(g, e, num + 1)
  <2>1. \E i \in DOMAIN e : e[i] = [type |-> "Task", id |-> num + 1]
    BY <1>1, <1>4
  <2>2. ASSUME NEW i \in DOMAIN e, e[i].type = "Task"
        PROVE  g.id < e[i].id /\ e[i].id <= num + 1
    <3>1. CASE i \in DOMAIN d
      <4>1. e[i] = d[i] /\ d[i].id \in Nat
        BY <1>4, <2>2, <3>1, DownKinds
      <4>. QED
        BY <2>2, <3>1, <4>1 DEF ClientInv, DownInv
    <3>2. CASE i = Len(d) + 1
      BY <1>2, <1>4, <1>5, <3>2
    <3>. QED
      BY <1>4, <3>1, <3>2
  <2>3. ASSUME NEW i \in DOMAIN e, NEW j \in DOMAIN e, i < j,
               e[i].type = "Task", e[j].type = "Task"
        PROVE  e[i].id < e[j].id
    <3>1. i \in DOMAIN d /\ e[i] = d[i]
      BY <1>4, <2>3
    <3>2. d[i].id \in Nat /\ d[i].id <= num
      BY <2>3, <3>1, DownKinds DEF ClientInv, DownInv
    <3>3. CASE j \in DOMAIN d
      BY <1>4, <2>3, <3>1, <3>3 DEF ClientInv, DownInv
    <3>4. CASE j = Len(d) + 1
      BY <1>2, <1>4, <3>1, <3>2, <3>4
    <3>. QED
      BY <1>4, <3>3, <3>4
  <2>4. ASSUME NEW i \in DOMAIN e, e[i].type = "Run"
        PROVE  e[i].run.task = e[i].id
    <3>1. i # Len(d) + 1
      BY <1>2, <1>4, <2>4
    <3>2. i \in DOMAIN d /\ e[i] = d[i]
      BY <1>4, <3>1
    <3>3. \A k \in DOMAIN d : d[k].type = "Run" => d[k].run.task = d[k].id
      BY DEF ClientInv, DownInv
    <3>. QED
      BY <2>4, <3>2, <3>3
  <2>. QED
    BY <1>5, <2>1, <2>2, <2>3, <2>4 DEF DownInv
<1>7. \A i \in DOMAIN u : u[i].type # "Predict" => u[i].id \in Nat /\ u[i].id <= num
  <2>. SUFFICES ASSUME NEW i \in DOMAIN u, u[i].type # "Predict"
                PROVE  u[i].id \in Nat /\ u[i].id <= num
    OBVIOUS
  <2>1. u[i].id \in Nat
    BY UpKinds
  <2>2. u[i].id <= g.id
    BY DEF ClientInv, UpInv
  <2>. QED
    BY <1>5, <2>1, <2>2
<1>8. GoalInv(g, u, num + 1, 0)
  <2>1. ASSUME NEW i \in DOMAIN u, u[i].type = "Run", u[i].id = num + 1
        PROVE  FALSE
    BY <1>7, <2>1
  <2>. QED
    BY <1>5, <2>1 DEF GoalInv
<1>. QED
  BY <1>1, <1>3, <1>4, <1>6, <1>8 DEF ClientInv

(* Any other message to a client changes nothing about its tasks.          *)
LEMMA OtherMessage ==
  ASSUME NEW g \in Game, NEW d \in Seq(DownMessage), NEW num \in Nat,
         DownInv(g, d, num), NEW m \in DownMessage, m.type # "Task",
         m.type = "Run" => m.run.task = m.id
  PROVE  Append(d, m) \in Seq(DownMessage) /\ DownInv(g, Append(d, m), num)
<1>1. PICK e : e = Append(d, m)
  BY Zenon
<1>2. /\ e \in Seq(DownMessage) /\ Len(e) = Len(d) + 1
      /\ DOMAIN e = 1 .. Len(e) /\ DOMAIN d = 1 .. Len(d)
      /\ e[Len(d) + 1] = m
      /\ \A i \in DOMAIN d : e[i] = d[i]
  BY <1>1
<1>3. \A i \in DOMAIN d : i \in DOMAIN e
  BY <1>2
<1>4. \A i \in DOMAIN e : e[i].type = "Task" => i \in DOMAIN d
  BY <1>2
<1>5. num > 1 => g.id = num \/ \E i \in DOMAIN e : e[i] = [type |-> "Task", id |-> num]
  BY <1>2, <1>3 DEF DownInv
<1>6. ASSUME NEW i \in DOMAIN e, e[i].type = "Run"
      PROVE  e[i].run.task = e[i].id
  <2>1. CASE i \in DOMAIN d
    BY <1>2, <1>6, <2>1 DEF DownInv
  <2>2. CASE i = Len(d) + 1
    BY <1>2, <1>6, <2>2
  <2>. QED
    BY <1>2, <2>1, <2>2
<1>7. DownInv(g, e, num)
  BY <1>2, <1>4, <1>5, <1>6 DEF DownInv
<1>. QED
  BY <1>1, <1>2, <1>7

(* A client that goes on with its task keeps what is said of its messages. *)
LEMMA SameTask ==
  ASSUME NEW g \in Game, NEW d, NEW u \in Seq(UpMessage), NEW num, NEW goal,
         ClientInv(g, d, u, num, goal),
         NEW h \in Game, h.id = g.id, g.iterations <= h.iterations,
         h.first = g.first, BestInv(h)
  PROVE  ClientInv(h, d, u, num, goal)
<1>1. DownInv(h, d, num)
  BY DEF ClientInv, DownInv
<1>2. UpInv(h, u)
  <2>. SUFFICES ASSUME NEW i \in DOMAIN u
                PROVE  /\ u[i].type # "Predict" => u[i].id <= h.id
                       /\ u[i].type = "Progress" /\ u[i].id = h.id =>
                            u[i].iterations <= h.iterations
                       /\ u[i].type = "Run" => u[i].run.task = u[i].id
    BY DEF UpInv
  <2>1. /\ u[i].type # "Predict" => u[i].id <= g.id
        /\ u[i].type = "Progress" /\ u[i].id = g.id => u[i].iterations <= g.iterations
        /\ u[i].type = "Run" => u[i].run.task = u[i].id
    BY DEF ClientInv, UpInv
  <2>2. u[i].type = "Progress" => u[i].iterations \in Nat
    BY UpKinds
  <2>3. g.iterations \in Nat /\ h.iterations \in Nat
    BY DEF Game
  <2>. QED
    BY <2>1, <2>2, <2>3
<1>3. GoalInv(h, u, num, goal)
  BY DEF ClientInv, GoalInv
<1>. QED
  BY <1>1, <1>2, <1>3 DEF ClientInv

(* Starting a run of the script touches only the prediction.               *)
LEMMA RunScript ==
  ASSUME NEW g \in Game, NEW h, h = Run_Script(g)
  PROVE  /\ h \in Game /\ h.id = g.id /\ h.first = g.first
         /\ h.iterations = g.iterations /\ h.best = g.best /\ h.state = g.state
         /\ h.found = g.found /\ h.bestEfficacy = g.bestEfficacy /\ h.running = g.running
<1>1. CASE g.ipc_request_finished
  BY <1>1 DEF Run_Script
<1>2. CASE ~g.ipc_request_finished
  <2>1. h = [g EXCEPT !.data.mixed = @ \/ g.points]
    BY <1>2 DEF Run_Script
  <2>2. PICK b \in BOOLEAN : b = (g.data.mixed \/ g.points)
    BY Zenon
  <2>3. g.data \in Line /\ [g.data EXCEPT !.mixed = b] \in Line
    BY DEF Game, Line
  <2>4. h = [g EXCEPT !.data = [g.data EXCEPT !.mixed = b]]
    BY <2>1, <2>2
  <2>. QED
    BY <2>3, <2>4 DEF Game
<1>. QED
  BY <1>1, <1>2

(* The game h of a client after its search has ended in game g: it plays   *)
(* the script to its start, or not.                                        *)
Ended(g, h) ==
  \/ h = Run_Script([g EXCEPT !.running = FALSE])
  \/ h = [g EXCEPT !.running = FALSE]

(* A client that ends its search keeps its runs.                           *)
LEMMA EndedGame ==
  ASSUME NEW g \in Game, NEW h, Ended(g, h)
  PROVE  /\ h \in Game /\ h.id = g.id /\ h.first = g.first
         /\ h.iterations = g.iterations /\ h.best = g.best /\ h.state = g.state
         /\ h.found = g.found /\ h.bestEfficacy = g.bestEfficacy /\ ~h.running
<1>1. PICK k : k = [g EXCEPT !.running = FALSE]
  BY Zenon
<1>2. /\ k \in Game /\ k.id = g.id /\ k.first = g.first
      /\ k.iterations = g.iterations /\ k.best = g.best /\ k.state = g.state
      /\ k.found = g.found /\ k.bestEfficacy = g.bestEfficacy /\ ~k.running
  BY <1>1, Zenon DEF Game
<1>3. h = Run_Script(k) \/ h = k
  BY <1>1 DEF Ended
<1>. QED
  BY <1>2, <1>3, RunScript

(* The two ways a client's search ends without another iteration.          *)
LEMMA EndsOrGoesOn ==
  ASSUME NEW c \in Client, Game_Opt_Ended(c)
  PROVE  \/ cl[c].state = "NewIteration" /\ GameOpt_NewIteration(c)
         \/ /\ UNCHANGED up /\ cl[c].state # "NewIteration"
            /\ \E h : cl' = [cl EXCEPT ![c] = h] /\ Ended(cl[c], h)
<1>1. CASE cl[c].state = "Stop" /\ UNCHANGED up
           /\ cl' = [cl EXCEPT ![c] = Run_Script([@ EXCEPT !.running = FALSE])]
  BY <1>1, Zenon DEF Ended
<1>2. CASE cl[c].state = "Continue" /\ UNCHANGED up /\ cl' = [cl EXCEPT ![c].running = FALSE]
  BY <1>2, Zenon DEF Ended
<1>. QED
  BY <1>1, <1>2 DEF Game_Opt_Ended

-----------------------------------------------------------------------------
(* A message is read: the client's task becomes that of a task message.    *)
LEMMA DownTail ==
  ASSUME NEW g \in Game, NEW d \in Seq(DownMessage), d # <<>>, NEW num \in Nat,
         DownInv(g, d, num), NEW h \in Game,
         IF Head(d).type = "Task" THEN h.id = Head(d).id ELSE h.id = g.id
  PROVE  Tail(d) \in Seq(DownMessage) /\ DownInv(h, Tail(d), num)
<1>1. PICK e : e = Tail(d)
  BY Zenon
<1>2. /\ e \in Seq(DownMessage) /\ DOMAIN e = 1 .. Len(d) - 1
      /\ DOMAIN d = 1 .. Len(d) /\ Len(d) \in Nat \ {0}
      /\ \A i \in DOMAIN e : i + 1 \in DOMAIN d /\ e[i] = d[i + 1]
      /\ Head(d) = d[1] /\ 1 \in DOMAIN d
  BY <1>1
<1>3. g.id \in Nat /\ h.id \in Nat
  BY DEF Game
<1>4. \A i \in DOMAIN d : d[i].type = "Task" => d[i].id \in Nat
  BY DownKinds
<1>5. h.id <= num
  BY <1>2 DEF DownInv
<1>6. num > 1 => h.id = num \/ \E i \in DOMAIN e : e[i] = [type |-> "Task", id |-> num]
  <2>. SUFFICES ASSUME num > 1, h.id # num
                PROVE  \E i \in DOMAIN e : e[i] = [type |-> "Task", id |-> num]
    OBVIOUS
  <2>1. g.id # num
    <3>1. CASE Head(d).type = "Task"
      BY <1>2, <1>3, <1>5, <3>1 DEF DownInv
    <3>. QED
      BY <3>1
  <2>2. PICK i \in DOMAIN d : d[i] = [type |-> "Task", id |-> num]
    BY <2>1 DEF DownInv
  <2>3. d[i].type = "Task" /\ d[i].id = num
    BY <2>2
  <2>4. i # 1
    BY <1>2, <2>3
  <2>5. i - 1 \in DOMAIN e /\ e[i - 1] = d[i]
    BY <1>2, <2>4
  <2>. QED
    BY <2>2, <2>5
<1>7. ASSUME NEW i \in DOMAIN e, e[i].type = "Task"
      PROVE  h.id < e[i].id /\ e[i].id <= num
  <2>1. i + 1 \in DOMAIN d /\ e[i] = d[i + 1] /\ 1 < i + 1
    BY <1>2
  <2>2. CASE Head(d).type = "Task"
    BY <1>2, <1>7, <2>1, <2>2 DEF DownInv
  <2>3. CASE Head(d).type # "Task"
    BY <1>7, <2>1, <2>3 DEF DownInv
  <2>. QED
    BY <2>2, <2>3
<1>8. ASSUME NEW i \in DOMAIN e, NEW j \in DOMAIN e, i < j,
             e[i].type = "Task", e[j].type = "Task"
      PROVE  e[i].id < e[j].id
  <2>1. /\ i + 1 \in DOMAIN d /\ e[i] = d[i + 1]
        /\ j + 1 \in DOMAIN d /\ e[j] = d[j + 1] /\ i + 1 < j + 1
    BY <1>2, <1>8
  <2>. QED
    BY <1>8, <2>1 DEF DownInv
<1>9. \A i \in DOMAIN e : e[i].type = "Run" => e[i].run.task = e[i].id
  BY <1>2 DEF DownInv
<1>. QED
  BY <1>1, <1>2, <1>5, <1>6, <1>7, <1>8, <1>9 DEF DownInv

(* A client handles a message.                                             *)
Handled(g, m) ==
  CASE m.type = "Task" -> Receive_Optimizer_Task(g, m)
    [] m.type = "Run" -> Receive_Optimizer_Run(g, m)
    [] m.type = "Stop" -> Receive_Optimizer_Stop(g)
    [] m.type = "Predict" -> GamePrediction_Receive_IPC(g, m)

(* What becomes of the client's task, from g to h.                         *)
Takes(g, m, h) ==
  /\ m.type = "Task" => h.id = m.id /\ h.first /\ h.iterations = 0
  /\ m.type # "Task" =>
       h.id = g.id /\ h.first = g.first /\ h.iterations = g.iterations

(* A task starts a client over; any other message leaves it at its task.   *)
LEMMA HandledGame ==
  ASSUME NEW g \in Game, BestInv(g), NEW m \in DownMessage,
         m.type = "Run" => m.run.task = m.id, NEW h, h = Handled(g, m)
  PROVE  h \in Game /\ BestInv(h) /\ Takes(g, m, h)
<1>1. CASE m.type = "Task"
  <2>1. PICK k : k = [g EXCEPT !.id = m.id, !.running = TRUE, !.first = TRUE,
                               !.iterations = 0, !.found = None, !.best = None,
                               !.state = "Continue"]
    OBVIOUS
  <2>2. m.id \in Nat /\ None \in OptRun /\ 0 \in Int
    BY <1>1, DownKinds DEF None, OptRun
  <2>3. /\ k \in Game /\ k.id = m.id /\ k.first = TRUE /\ k.iterations = 0
        /\ k.best = None /\ k.state = "Continue"
    BY <2>1, <2>2, Zenon DEF Game
  <2>4. h = Run_Script(k)
    BY <1>1, <2>1 DEF Handled, Receive_Optimizer_Task
  <2>5. /\ h \in Game /\ h.id = k.id /\ h.first = k.first
        /\ h.iterations = k.iterations /\ h.best = k.best /\ h.state = k.state
    BY <2>3, <2>4, RunScript
  <2>. QED
    BY <1>1, <2>3, <2>5 DEF BestInv, Takes
<1>2. CASE m.type = "Run"
  <2>1. h = Receive_Optimizer_Run(g, m)
    BY <1>2 DEF Handled
  <2>2. CASE m.id = g.id /\ IsBetterThan(m.run, g.best)
    <3>1. h = [g EXCEPT !.best = m.run, !.bestEfficacy = m.run.efficacy]
      BY <2>1, <2>2 DEF Receive_Optimizer_Run
    <3>2. m.run \in OptRun /\ m.run.efficacy \in Int
      BY <1>2, DownKinds DEF OptRun
    <3>3. /\ h \in Game /\ h.id = g.id /\ h.first = g.first
          /\ h.iterations = g.iterations /\ h.best = m.run
      BY <3>1, <3>2, Zenon DEF Game
    <3>. QED
      BY <1>2, <2>2, <3>3 DEF BestInv, Takes
  <2>3. CASE ~(m.id = g.id /\ IsBetterThan(m.run, g.best))
    BY <1>2, <2>1, <2>3 DEF Receive_Optimizer_Run, Takes
  <2>. QED
    BY <2>2, <2>3
<1>3. CASE m.type = "Stop"
  <2>1. h = [g EXCEPT !.running = FALSE]
    BY <1>3 DEF Handled, Receive_Optimizer_Stop
  <2>2. /\ h \in Game /\ h.id = g.id /\ h.first = g.first /\ h.best = g.best
        /\ h.iterations = g.iterations /\ h.state = g.state
    BY <2>1, Zenon DEF Game
  <2>. QED
    BY <1>3, <2>2 DEF BestInv, Takes
<1>4. CASE m.type = "Predict"
  <2>1. PICK data : data = [script |-> m.script, start |-> m.start, end |-> m.end,
                            mixed |-> FALSE]
    BY Zenon
  <2>2. data \in Line
    BY <1>4, <2>1, DownKinds DEF Line
  <2>3. h = [g EXCEPT !.data = data, !.points = FALSE, !.ipc_request_finished = FALSE]
    BY <1>4, <2>1 DEF Handled, GamePrediction_Receive_IPC
  <2>4. /\ h \in Game /\ h.id = g.id /\ h.first = g.first /\ h.best = g.best
        /\ h.iterations = g.iterations /\ h.state = g.state
    BY <2>2, <2>3, Zenon DEF Game
  <2>. QED
    BY <1>4, <2>4 DEF BestInv, Takes
<1>. QED
  BY <1>1, <1>2, <1>3, <1>4, DownKinds

(* Handling a message keeps what is known of a client.                     *)
LEMMA HandledInv ==
  ASSUME NEW g \in Game, NEW d \in Seq(DownMessage), NEW u \in Seq(UpMessage),
         NEW num \in Nat, NEW goal \in Nat, ClientInv(g, d, u, num, goal),
         d # <<>>, NEW count \in Nat, Counted(g, count, num),
         NEW h, h = Handled(g, Head(d))
  PROVE  /\ h \in Game /\ Tail(d) \in Seq(DownMessage)
         /\ ClientInv(h, Tail(d), u, num, goal) /\ Counted(h, count, num)
<1>1. PICK m : m = Head(d)
  OBVIOUS
<1>2. m \in DownMessage /\ 1 \in DOMAIN d /\ m = d[1]
  BY <1>1
<1>3. m.type = "Run" => m.run.task = m.id
  BY <1>2 DEF ClientInv, DownInv
<1>4. h \in Game /\ BestInv(h) /\ Takes(g, m, h)
  <2>1. h = Handled(g, m) /\ BestInv(g)
    BY <1>1 DEF ClientInv
  <2>. QED
    BY <1>2, <1>3, <2>1, HandledGame
<1>5. Tail(d) \in Seq(DownMessage) /\ DownInv(h, Tail(d), num)
  <2>1. IF Head(d).type = "Task" THEN h.id = Head(d).id ELSE h.id = g.id
    BY <1>1, <1>4 DEF Takes
  <2>. QED
    BY <1>4, <2>1, DownTail DEF ClientInv
<1>6. g.id \in Nat /\ h.id \in Nat /\ g.iterations \in Nat /\ h.iterations \in Nat
  BY <1>4 DEF Game
<1>7. CASE m.type = "Task"
  <2>1. g.id < h.id /\ h.id <= num
    BY <1>2, <1>4, <1>7 DEF ClientInv, DownInv, Takes
  <2>2. UpInv(h, u)
    <3>. SUFFICES ASSUME NEW i \in DOMAIN u
                  PROVE  /\ u[i].type # "Predict" => u[i].id <= h.id /\ u[i].id # h.id
                         /\ u[i].type = "Run" => u[i].run.task = u[i].id
      BY UpKinds DEF UpInv
    <3>1. u[i].type # "Predict" => u[i].id \in Nat /\ u[i].id <= g.id
      BY UpKinds DEF ClientInv, UpInv
    <3>2. u[i].type = "Run" => u[i].run.task = u[i].id
      BY DEF ClientInv, UpInv
    <3>. QED
      BY <1>6, <2>1, <3>1, <3>2
  <2>3. GoalInv(h, u, num, goal)
    BY <1>4, <1>7 DEF ClientInv, GoalInv, Takes
  <2>4. Counted(h, count, num)
    BY <1>6, <2>1 DEF Counted
  <2>. QED
    BY <1>4, <1>5, <2>2, <2>3, <2>4 DEF ClientInv
<1>8. CASE m.type # "Task"
  <2>1. h.id = g.id /\ h.first = g.first /\ h.iterations = g.iterations
    BY <1>4, <1>8 DEF Takes
  <2>2. ClientInv(h, d, u, num, goal)
    BY <1>4, <1>6, <2>1, SameTask
  <2>. QED
    BY <1>4, <1>5, <2>1, <2>2 DEF ClientInv, Counted
<1>. QED
  BY <1>7, <1>8

(* The server reads a report; if it is a goal, the goal is known now.      *)
LEMMA UpTail ==
  ASSUME NEW g \in Game, NEW u \in Seq(UpMessage), NEW num \in Nat,
         NEW goal \in Nat, UpInv(g, u), GoalInv(g, u, num, goal), u # <<>>,
         NEW new, new = IF IsGoal(Head(u), num) THEN num ELSE goal
  PROVE  /\ Tail(u) \in Seq(UpMessage) /\ UpInv(g, Tail(u))
         /\ GoalInv(g, Tail(u), num, new)
<1>1. PICK w : w = Tail(u)
  BY Zenon
<1>2. /\ w \in Seq(UpMessage) /\ DOMAIN w = 1 .. Len(u) - 1
      /\ DOMAIN u = 1 .. Len(u) /\ Len(u) \in Nat \ {0}
      /\ \A i \in DOMAIN w : i + 1 \in DOMAIN u /\ w[i] = u[i + 1]
      /\ Head(u) = u[1] /\ 1 \in DOMAIN u
  BY <1>1
<1>3. UpInv(g, w)
  BY <1>2 DEF UpInv
<1>4. ASSUME new # num, NEW k \in DOMAIN u, NEW j \in 1 .. k, IsGoal(u[j], num)
      PROVE  k - 1 \in DOMAIN w /\ j - 1 \in 1 .. k - 1 /\ IsGoal(w[j - 1], num)
  <2>1. j # 1
    BY <1>2, <1>4
  <2>2. k \in 2 .. Len(u) /\ j \in 2 .. k
    BY <1>2, <1>4, <2>1
  <2>3. k - 1 \in DOMAIN w /\ j - 1 \in DOMAIN w /\ j - 1 \in 1 .. k - 1 /\ (j - 1) + 1 = j
    BY <1>2, <2>2
  <2>4. w[j - 1] = u[j]
    BY <1>2, <2>3
  <2>. QED
    BY <1>4, <2>3, <2>4
<1>5. ASSUME NEW i \in DOMAIN w, w[i].type = "Run", w[i].id = num, new # num
      PROVE  \E j \in 1 .. i : IsGoal(w[j], num)
  <2>1. i + 1 \in DOMAIN u /\ w[i] = u[i + 1] /\ goal # num /\ (i + 1) - 1 = i
    BY <1>2, <1>5
  <2>2. PICK j \in 1 .. i + 1 : IsGoal(u[j], num)
    BY <1>5, <2>1 DEF GoalInv
  <2>. QED
    BY <1>4, <1>5, <2>1, <2>2
<1>6. ASSUME g.id = num, ~g.first, new # num
      PROVE  \E j \in DOMAIN w : IsGoal(w[j], num)
  <2>1. PICK k \in DOMAIN u : IsGoal(u[k], num)
    BY <1>6 DEF GoalInv
  <2>2. k \in 1 .. k
    BY <1>2
  <2>. QED
    BY <1>4, <1>6, <2>1, <2>2
<1>7. GoalInv(g, w, num, new)
  BY <1>5, <1>6 DEF GoalInv
<1>. QED
  BY <1>1, <1>2, <1>3, <1>7

(* A client reports: in a task's first report the goal comes before the    *)
(* run.                                                                    *)
LEMMA Reported ==
  ASSUME NEW g \in Game, NEW u \in Seq(UpMessage), NEW num \in Nat,
         NEW goal \in Nat, UpInv(g, u), GoalInv(g, u, num, goal),
         NEW h \in Game, h.id = g.id, g.iterations <= h.iterations,
         NEW ms \in Seq(UpMessage), UpInv(h, ms),
         \A i \in DOMAIN ms : ms[i].type = "Run" => ms[i].id = g.id,
         g.first => \E j \in DOMAIN ms : IsGoal(ms[j], g.id)
                      /\ \A i \in DOMAIN ms : ms[i].type = "Run" => j <= i
  PROVE  /\ u \o ms \in Seq(UpMessage) /\ UpInv(h, u \o ms)
         /\ GoalInv(h, u \o ms, num, goal)
<1>1. PICK w : w = u \o ms
  BY Zenon
<1>2. /\ w \in Seq(UpMessage) /\ Len(w) = Len(u) + Len(ms)
      /\ DOMAIN w = 1 .. Len(w) /\ DOMAIN u = 1 .. Len(u) /\ DOMAIN ms = 1 .. Len(ms)
      /\ Len(u) \in Nat /\ Len(ms) \in Nat
      /\ \A i \in DOMAIN u : i \in DOMAIN w /\ w[i] = u[i]
      /\ \A i \in DOMAIN ms : Len(u) + i \in DOMAIN w /\ w[Len(u) + i] = ms[i]
  BY <1>1
<1>3. ASSUME NEW i \in DOMAIN w
      PROVE  \/ i \in DOMAIN u /\ w[i] = u[i]
             \/ i \in Nat /\ i - Len(u) \in DOMAIN ms /\ w[i] = ms[i - Len(u)]
  <2>1. CASE i <= Len(u)
    BY <1>2, <2>1
  <2>2. CASE i > Len(u)
    <3>1. i - Len(u) \in DOMAIN ms /\ Len(u) + (i - Len(u)) = i /\ i \in Nat
      BY <1>2, <2>2
    <3>. QED
      BY <1>2, <3>1
  <2>. QED
    BY <1>2, <2>1, <2>2
<1>4. UpInv(h, w)
  <2>. SUFFICES ASSUME NEW i \in DOMAIN w
                PROVE  /\ w[i].type # "Predict" => w[i].id <= h.id
                       /\ w[i].type = "Progress" /\ w[i].id = h.id =>
                            w[i].iterations <= h.iterations
                       /\ w[i].type = "Run" => w[i].run.task = w[i].id
    BY DEF UpInv
  <2>1. CASE i \in DOMAIN u /\ w[i] = u[i]
    <3>1. /\ u[i].type # "Predict" => u[i].id <= g.id
          /\ u[i].type = "Progress" /\ u[i].id = g.id => u[i].iterations <= g.iterations
          /\ u[i].type = "Run" => u[i].run.task = u[i].id
      BY <2>1 DEF UpInv
    <3>2. u[i].type = "Progress" => u[i].iterations \in Nat
      BY <2>1, UpKinds
    <3>3. g.iterations \in Nat /\ h.iterations \in Nat
      BY DEF Game
    <3>. QED
      BY <2>1, <3>1, <3>2, <3>3
  <2>2. CASE i - Len(u) \in DOMAIN ms /\ w[i] = ms[i - Len(u)]
    BY <2>2 DEF UpInv
  <2>. QED
    BY <1>3, <2>1, <2>2
<1>5. ASSUME g.id = num, goal # num
      PROVE  \/ \E k \in DOMAIN u : IsGoal(u[k], num)
             \/ \E k \in DOMAIN ms : IsGoal(ms[k], num)
                  /\ \A i \in DOMAIN ms : ms[i].type = "Run" => k <= i
  BY <1>5 DEF GoalInv
<1>6. ASSUME NEW i \in DOMAIN w, w[i].type = "Run", w[i].id = num, goal # num
      PROVE  \E j \in 1 .. i : IsGoal(w[j], num)
  <2>1. CASE i \in DOMAIN u /\ w[i] = u[i]
    <3>1. PICK j \in 1 .. i : IsGoal(u[j], num)
      BY <1>6, <2>1 DEF GoalInv
    <3>2. w[j] = u[j]
      BY <1>2, <2>1, <3>1
    <3>. QED
      BY <3>1, <3>2
  <2>2. CASE i \in Nat /\ i - Len(u) \in DOMAIN ms /\ w[i] = ms[i - Len(u)]
    <3>1. g.id = num
      BY <1>6, <2>2
    <3>2. CASE \E k \in DOMAIN u : IsGoal(u[k], num)
      <4>1. PICK k \in DOMAIN u : IsGoal(u[k], num)
        BY <3>2
      <4>2. k \in 1 .. i /\ w[k] = u[k]
        BY <1>2, <2>2, <4>1
      <4>. QED
        BY <4>1, <4>2
    <3>3. CASE \E k \in DOMAIN ms : IsGoal(ms[k], num)
                 /\ \A l \in DOMAIN ms : ms[l].type = "Run" => k <= l
      <4>1. PICK k \in DOMAIN ms : IsGoal(ms[k], num)
                   /\ \A l \in DOMAIN ms : ms[l].type = "Run" => k <= l
        BY <3>3
      <4>2. k <= i - Len(u)
        BY <1>6, <2>2, <4>1
      <4>3. Len(u) + k \in 1 .. i /\ w[Len(u) + k] = ms[k]
        BY <1>2, <2>2, <4>1, <4>2
      <4>. QED
        BY <4>1, <4>3
    <3>. QED
      BY <1>5, <1>6, <3>1, <3>2, <3>3
  <2>. QED
    BY <1>3, <2>1, <2>2
<1>7. ASSUME h.id = num, goal # num
      PROVE  \E j \in DOMAIN w : IsGoal(w[j], num)
  BY <1>2, <1>5, <1>7
<1>8. GoalInv(h, w, num, goal)
  BY <1>6, <1>7 DEF GoalInv
<1>. QED
  BY <1>1, <1>2, <1>4, <1>8

-----------------------------------------------------------------------------
Server ==
  [now : Nat, script : Nat, last_edited : Nat, frame : Int, paused : BOOLEAN,
   num : Nat, running : BOOLEAN, first : BOOLEAN, best : OptRun, goal : Nat,
   last_updated : Nat, startFrame : Int, counts : [Client -> Nat],
   last_request : Nat, current_line_time : Nat, hasty : BOOLEAN, line : Line]

Types ==
  /\ sv \in Server
  /\ cl \in [Client -> Game]
  /\ down \in [Client -> Seq(DownMessage)]
  /\ up \in [Client -> Seq(UpMessage)]

(* Once there has been a task, what the server keeps of it is that task's. *)
ServerInv ==
  /\ sv.num > 0
  /\ sv.running => sv.num > 1
  /\ sv.num > 1 /\ ~sv.first => sv.best.task = sv.num /\ sv.goal = sv.num

IInv ==
  /\ Types
  /\ ServerInv
  /\ \A c \in Client : ClientInv(cl[c], down[c], up[c], sv.num, sv.goal)
  /\ \A c \in Client : Counted(cl[c], sv.counts[c], sv.num)

-----------------------------------------------------------------------------
(* The invariant holds at the start: the first task has number 2.          *)
LEMMA InitInv == Init => IInv
<1>. SUFFICES ASSUME Init PROVE IInv
  OBVIOUS
<1>1. None \in OptRun
  BY DEF None, OptRun
<1>2. Types
  <2>1. sv \in Server
    BY <1>1 DEF Init, Server, Line
  <2>2. cl \in [Client -> Game]
    BY <1>1 DEF Init, Game, Line
  <2>3. down \in [Client -> Seq(DownMessage)] /\ up \in [Client -> Seq(UpMessage)]
    BY DEF Init
  <2>. QED
    BY <2>1, <2>2, <2>3 DEF Types
<1>3. sv.num = 1 /\ ~sv.running
  BY DEF Init
<1>4. ASSUME NEW c \in Client
      PROVE  ClientInv(cl[c], down[c], up[c], sv.num, sv.goal)
             /\ Counted(cl[c], sv.counts[c], sv.num)
  <2>1. /\ cl[c].id = 0 /\ cl[c].best = None /\ cl[c].state = "Continue"
        /\ DOMAIN down[c] = {} /\ DOMAIN up[c] = {} /\ sv.counts[c] = 0
    BY DEF Init
  <2>. QED
    BY <1>3, <2>1 DEF ClientInv, DownInv, BestInv, UpInv, GoalInv, Counted
<1>. QED
  BY <1>2, <1>3, <1>4 DEF IInv, ServerInv

(* A step of one client, or of a message to or from it.                    *)
LEMMA OneClient ==
  ASSUME IInv, UNCHANGED sv, NEW c \in Client,
         NEW h \in Game, cl' = [cl EXCEPT ![c] = h],
         NEW d \in Seq(DownMessage), down' = [down EXCEPT ![c] = d],
         NEW u \in Seq(UpMessage), up' = [up EXCEPT ![c] = u],
         ClientInv(h, d, u, sv.num, sv.goal), Counted(h, sv.counts[c], sv.num)
  PROVE  IInv'
<1>1. Types'
  BY DEF IInv, Types
<1>2. ServerInv'
  BY DEF IInv, ServerInv
<1>3. ASSUME NEW x \in Client
      PROVE  /\ ClientInv(cl'[x], down'[x], up'[x], sv'.num, sv'.goal)
             /\ Counted(cl'[x], sv'.counts[x], sv'.num)
  <2>1. CASE x = c
    <3>1. cl'[x] = h /\ down'[x] = d /\ up'[x] = u
      BY <2>1 DEF IInv, Types
    <3>. QED
      BY <2>1, <3>1
  <2>2. CASE x # c
    <3>1. cl'[x] = cl[x] /\ down'[x] = down[x] /\ up'[x] = up[x]
      BY <2>2 DEF IInv, Types
    <3>. QED
      BY <3>1 DEF IInv
  <2>. QED
    BY <2>1, <2>2
<1>. QED
  BY <1>1, <1>2, <1>3 DEF IInv

(* A step of the server that leaves its task and what it shows of it.      *)
QuietStep ==
  /\ sv' \in Server
  /\ sv'.num = sv.num /\ sv'.goal = sv.goal /\ sv'.counts = sv.counts
  /\ sv'.first = sv.first /\ sv'.best = sv.best
  /\ sv'.running => sv.running

(* Such a step keeps the invariant, whatever it sends that is no task.     *)
LEMMA QuietServer ==
  ASSUME IInv, QuietStep, UNCHANGED <<cl, up>>,
         down' \in [Client -> Seq(DownMessage)],
         \A c \in Client : DownInv(cl[c], down'[c], sv.num)
  PROVE  IInv'
<1>1. Types'
  BY DEF IInv, Types, QuietStep
<1>2. ServerInv'
  BY DEF IInv, ServerInv, QuietStep
<1>3. ASSUME NEW x \in Client
      PROVE  /\ ClientInv(cl'[x], down'[x], up'[x], sv'.num, sv'.goal)
             /\ Counted(cl'[x], sv'.counts[x], sv'.num)
  <2>1. ClientInv(cl[x], down[x], up[x], sv.num, sv.goal) /\ Counted(cl[x], sv.counts[x], sv.num)
    BY DEF IInv
  <2>2. ClientInv(cl[x], down'[x], up[x], sv.num, sv.goal)
    BY <2>1 DEF ClientInv
  <2>. QED
    BY <2>1, <2>2 DEF QuietStep
<1>. QED
  BY <1>1, <1>2, <1>3 DEF IInv

(* Stopping a search sends no task.                                        *)
LEMMA Stopping ==
  ASSUME IInv
  PROVE  /\ StopMessages \in [Client -> Seq(DownMessage)]
         /\ \A c \in Client : DownInv(cl[c], StopMessages[c], sv.num)
<1>1. PICK m : m = [type |-> "Stop"]
  BY Zenon
<1>2. m \in DownMessage /\ m.type = "Stop"
  BY <1>1 DEF DownMessage
<1>3. ASSUME NEW c \in Client
      PROVE  /\ down[c] \in Seq(DownMessage) /\ DownInv(cl[c], down[c], sv.num)
             /\ Append(down[c], m) \in Seq(DownMessage)
             /\ DownInv(cl[c], Append(down[c], m), sv.num)
  <2>1. /\ down[c] \in Seq(DownMessage) /\ DownInv(cl[c], down[c], sv.num)
        /\ cl[c] \in Game /\ sv.num \in Nat
    BY DEF IInv, Types, ClientInv, Server
  <2>. QED
    BY <1>2, <2>1, OtherMessage
<1>4. CASE sv.running
  <2>1. StopMessages = [c \in Client |-> Append(down[c], m)]
    BY <1>1, <1>4 DEF StopMessages, SV_BroadCastMessage
  <2>. QED
    BY <1>3, <2>1
<1>5. CASE ~sv.running
  <2>1. StopMessages = down
    BY <1>5 DEF StopMessages
  <2>. QED
    BY <1>3, <2>1 DEF IInv, Types
<1>. QED
  BY <1>4, <1>5

-----------------------------------------------------------------------------
(* The server's frame hook for predictions.                                *)
LEMMA PredictionFrame ==
  ASSUME IInv, IPC_Prediction_Frame_Hook
  PROVE  IInv'
<1>1. CASE Request
  <2>1. sv \in Server /\ sv.line \in Line /\ sv.now \in Nat /\ sv.frame \in Int /\ sv.script \in Int
    BY DEF IInv, Types, Server
  <2>2. PICK l : l = [sv.line EXCEPT !.script = -1]
    BY Zenon
  <2>3. l \in Line
    BY <2>1, <2>2 DEF Line
  <2>4. PICK n \in Nat : n = sv.now + 1
    BY <2>1
  <2>5. PICK b \in BOOLEAN : b = (sv.hasty /\ Outstanding)
    BY Zenon
  <2>6. QuietStep
    <3>1. sv' = [[sv EXCEPT !.now = n, !.last_request = n, !.line = l, !.hasty = b]
                   EXCEPT !.running = FALSE]
      BY <1>1, <2>2, <2>4, <2>5 DEF Request, Stopped
    <3>. QED
      BY <2>1, <2>3, <3>1, Zenon DEF QuietStep, Server
  <2>7. EndFrame(sv.frame) \in Int
    BY <2>1, MultiGameAssumption DEF EndFrame
  <2>8. PICK m : m = [type |-> "Predict", script |-> sv.script, start |-> sv.frame,
                      end |-> EndFrame(sv.frame)]
    BY Zenon
  <2>9. m \in DownMessage /\ m.type = "Predict"
    BY <2>1, <2>7, <2>8 DEF DownMessage
  <2>10. PICK D \in [Client -> Seq(DownMessage)] :
           D = StopMessages /\ \A c \in Client : DownInv(cl[c], D[c], sv.num)
    BY Stopping
  <2>11. down' = [D EXCEPT ![Predictor] = Append(D[Predictor], m)]
    BY <1>1, <2>8, <2>10 DEF Request
  <2>12. ASSUME NEW c \in Client
         PROVE  Append(D[c], m) \in Seq(DownMessage) /\ DownInv(cl[c], Append(D[c], m), sv.num)
    <3>1. cl[c] \in Game /\ sv.num \in Nat /\ DownInv(cl[c], D[c], sv.num)
      BY <2>10 DEF IInv, Types, Server
    <3>. QED
      BY <2>9, <2>10, <3>1, OtherMessage
  <2>13. down' \in [Client -> Seq(DownMessage)]
    BY <2>11, <2>12, MultiGameAssumption
  <2>14. \A c \in Client : DownInv(cl[c], down'[c], sv.num)
    BY <2>10, <2>11, <2>12
  <2>15. UNCHANGED <<cl, up>>
    BY DEF IPC_Prediction_Frame_Hook
  <2>. QED
    BY <2>6, <2>13, <2>14, <2>15, QuietServer
<1>2. CASE UNCHANGED <<sv, down>>
  BY <1>2 DEF IPC_Prediction_Frame_Hook, IInv, Types, ServerInv
<1>. QED
  BY <1>1, <1>2 DEF IPC_Prediction_Frame_Hook

(* The user's commands: none of them sends a task.                         *)
LEMMA UserInv ==
  ASSUME IInv, User \/ No_Command \/ \E f \in 1 .. LastFrame : Arrive(f)
  PROVE  IInv'
<1>1. UNCHANGED <<cl, up>>
  BY Zenon DEF User, Edit, Cmd_TAS_Optimizer_Accept, Optimizer_Var_Updated, Skip, MayAct,
         No_Command, Arrive
<1>2. sv \in Server /\ sv.now \in Nat /\ sv.script \in Nat
  BY DEF IInv, Types, Server
<1>3. QuietStep
  <2>. PICK n \in Nat, k \in Nat : n = sv.now + 1 /\ k = sv.script + 1
    BY <1>2
  <2>. PICK b \in BOOLEAN : b = (sv.hasty \/ Outstanding)
    BY Zenon
  <2>1. CASE Edit
    <3>1. sv' = [sv EXCEPT !.script = k, !.now = n, !.last_edited = n, !.hasty = b]
      BY <2>1 DEF Edit
    <3>. QED
      BY <1>2, <3>1, Zenon DEF QuietStep, Server
  <2>2. CASE Cmd_TAS_Optimizer_Accept
    <3>1. sv' = [[sv EXCEPT !.script = k, !.now = n, !.last_edited = n, !.hasty = b]
                   EXCEPT !.running = FALSE]
      BY <2>2 DEF Cmd_TAS_Optimizer_Accept, Stopped
    <3>. QED
      BY <1>2, <3>1, ZenonT(30) DEF QuietStep, Server
  <2>3. CASE Optimizer_Var_Updated
    BY <1>2, <2>3, Zenon DEF Optimizer_Var_Updated, Stopped, QuietStep, Server
  <2>4. CASE Skip
    <3>1. sv' = [sv EXCEPT !.paused = FALSE, !.hasty = b]
      BY <2>4 DEF Skip
    <3>. QED
      BY <1>2, <3>1, Zenon DEF QuietStep, Server
  <2>5. CASE No_Command
    BY <1>2, <2>5 DEF No_Command, QuietStep
  <2>6. ASSUME NEW f \in 1 .. LastFrame, Arrive(f)
        PROVE  QuietStep
    <3>1. f \in Int
      BY MultiGameAssumption
    <3>. QED
      BY <1>2, <2>6, <3>1, Zenon DEF Arrive, QuietStep, Server
  <2>. QED
    BY <2>1, <2>2, <2>3, <2>4, <2>5, <2>6 DEF User
<1>4. down' = down \/ down' = StopMessages
  BY Zenon DEF User, Edit, Cmd_TAS_Optimizer_Accept, Optimizer_Var_Updated, Skip, No_Command, Arrive
<1>5. /\ down' \in [Client -> Seq(DownMessage)]
      /\ \A c \in Client : DownInv(cl[c], down'[c], sv.num)
  BY <1>4, Stopping DEF IInv, Types, ClientInv
<1>. QED
  BY <1>1, <1>3, <1>5, QuietServer

(* The server's frame hook for the search: every client gets the new task. *)
LEMMA SearchFrame ==
  ASSUME IInv, MultiGameOpt_Frame
  PROVE  IInv'
<1>1. sv \in Server /\ sv.num \in Nat /\ sv.goal \in Nat /\ sv.num > 0 /\ UNCHANGED <<cl, up>>
  BY DEF IInv, Types, Server, ServerInv, MultiGameOpt_Frame
<1>2. CASE down' = StopMessages /\ sv' = Stopped([sv EXCEPT !.startFrame = -1])
  <2>1. PICK f \in Int : f = -1
    OBVIOUS
  <2>2. sv' = [[sv EXCEPT !.startFrame = f] EXCEPT !.running = FALSE]
    BY <1>2, <2>1 DEF Stopped
  <2>3. QuietStep
    BY <1>1, <2>2, Zenon DEF QuietStep, Server
  <2>. QED
    BY <1>1, <1>2, <2>3, Stopping, QuietServer
<1>3. CASE SV_StartMultiGameOpt
  <2>1. PICK z : z = [c \in Client |-> 0]
    BY Zenon
  <2>2. z \in [Client -> Nat] /\ \A c \in Client : z[c] = 0
    BY <2>1
  <2>3. PICK n \in Nat : n = sv.num + 1
    BY <1>1
  <2>4. /\ sv' \in Server /\ sv'.num = n /\ sv'.goal = 0 /\ sv'.counts = z
        /\ sv'.first
    <3>1. sv' = [sv EXCEPT !.startFrame = sv.frame, !.running = TRUE, !.first = TRUE, !.goal = 0,
                           !.counts = z, !.num = n, !.last_updated = sv.now]
      BY <1>3, <2>1, <2>3 DEF SV_StartMultiGameOpt
    <3>2. sv.frame \in Int /\ sv.now \in Nat
      BY <1>1 DEF Server
    <3>3. sv'.num = n /\ sv'.goal = 0 /\ sv'.counts = z /\ sv'.first
      BY <1>1, <3>1 DEF Server
    <3>4. sv' \in Server
      BY <1>1, <2>2, <3>1, <3>2, Zenon DEF Server
    <3>. QED
      BY <3>3, <3>4
  <2>5. ServerInv'
    BY <1>1, <2>3, <2>4 DEF ServerInv
  <2>6. ASSUME NEW c \in Client
        PROVE  /\ down'[c] \in Seq(DownMessage)
               /\ ClientInv(cl[c], down'[c], up[c], sv.num + 1, 0)
    <3>1. down'[c] = Append(down[c], [type |-> "Task", id |-> sv.num + 1])
      BY <1>3 DEF SV_StartMultiGameOpt, SV_BroadCastMessage
    <3>2. /\ cl[c] \in Game /\ down[c] \in Seq(DownMessage) /\ up[c] \in Seq(UpMessage)
          /\ ClientInv(cl[c], down[c], up[c], sv.num, sv.goal)
      BY DEF IInv, Types
    <3>. QED
      BY <1>1, <3>1, <3>2, NewTask
  <2>7. down' \in [Client -> Seq(DownMessage)]
    <3>1. down' = [c \in Client |-> down'[c]]
      BY <1>3 DEF SV_StartMultiGameOpt, SV_BroadCastMessage
    <3>. QED
      BY <2>6, <3>1
  <2>8. Types'
    BY <1>1, <2>4, <2>7 DEF IInv, Types
  <2>9. \A c \in Client : Counted(cl'[c], sv'.counts[c], sv'.num)
    BY <2>2, <2>4 DEF Counted
  <2>. QED
    BY <1>1, <2>3, <2>4, <2>5, <2>6, <2>8, <2>9 DEF IInv
<1>4. CASE UNCHANGED <<sv, down>>
  BY <1>1, <1>4 DEF IInv, Types, ServerInv
<1>. QED
  BY <1>2, <1>3, <1>4 DEF MultiGameOpt_Frame

-----------------------------------------------------------------------------
(* The server takes message m of client c off the channel.                 *)
ReadStep(c, m) ==
  /\ m = Head(up[c]) /\ up[c] # <<>>
  /\ up' = [up EXCEPT ![c] = Tail(up[c])] /\ UNCHANGED cl
  /\ sv' \in Server /\ sv'.num = sv.num
  /\ sv'.goal = IF IsGoal(m, sv.num) THEN sv.num ELSE sv.goal

(* What is left of the invariant when a message has been read.             *)
LEMMA ServerReads ==
  ASSUME IInv, NEW c \in Client, NEW m, ReadStep(c, m), ServerInv',
         down' \in [Client -> Seq(DownMessage)],
         \A x \in Client : DownInv(cl[x], down'[x], sv.num),
         \A x \in Client : Counted(cl[x], sv'.counts[x], sv.num)
  PROVE  IInv'
<1>1. PICK new : new = IF IsGoal(m, sv.num) THEN sv.num ELSE sv.goal
  OBVIOUS
<1>2. sv'.num = sv.num /\ sv'.goal = new /\ UNCHANGED cl
  BY <1>1 DEF ReadStep
<1>3. ASSUME NEW x \in Client
      PROVE  /\ up'[x] \in Seq(UpMessage) /\ UpInv(cl[x], up'[x])
             /\ GoalInv(cl[x], up'[x], sv.num, new)
  <2>1. /\ cl[x] \in Game /\ up[x] \in Seq(UpMessage) /\ sv.num \in Nat /\ sv.goal \in Nat
        /\ UpInv(cl[x], up[x]) /\ GoalInv(cl[x], up[x], sv.num, sv.goal)
    BY DEF IInv, Types, Server, ClientInv
  <2>2. CASE x = c
    <3>1. /\ up'[x] = Tail(up[x]) /\ up[x] # <<>>
          /\ new = IF IsGoal(Head(up[x]), sv.num) THEN sv.num ELSE sv.goal
      BY <1>1, <2>2 DEF ReadStep, IInv, Types
    <3>. QED
      BY <2>1, <3>1, UpTail, Zenon
  <2>3. CASE x # c
    <3>1. up'[x] = up[x]
      BY <2>3 DEF ReadStep, IInv, Types
    <3>2. GoalInv(cl[x], up[x], sv.num, new)
      BY <1>1, <2>1 DEF GoalInv
    <3>. QED
      BY <2>1, <3>1, <3>2
  <2>. QED
    BY <2>2, <2>3
<1>4. up' \in [Client -> Seq(UpMessage)]
  <2>1. up' = [x \in Client |-> up'[x]]
    BY Zenon DEF ReadStep, IInv, Types
  <2>. QED
    BY <1>3, <2>1
<1>5. Types'
  BY <1>4 DEF ReadStep, IInv, Types
<1>6. ASSUME NEW x \in Client
      PROVE  ClientInv(cl[x], down'[x], up'[x], sv.num, new)
  <2>1. BestInv(cl[x])
    BY DEF IInv, ClientInv
  <2>. QED
    BY <1>3, <2>1 DEF ClientInv
<1>. QED
  BY <1>2, <1>5, <1>6 DEF IInv

(* A run of the current task is read: its goal is known by then.           *)
LEMMA ReadRun ==
  ASSUME IInv, NEW c \in Client, Handle_Server_Message(c),
         MultiGame_ReceiveRun(Head(up[c]))
  PROVE  IInv'
<1>1. PICK m : m = Head(up[c])
  OBVIOUS
<1>2. PICK u : u = up[c]
  OBVIOUS
<1>3. /\ sv \in Server /\ sv.num \in Nat /\ sv.goal \in Nat
      /\ u \in Seq(UpMessage) /\ u # <<>>
      /\ up' = [up EXCEPT ![c] = Tail(up[c])] /\ UNCHANGED cl
  BY <1>2 DEF IInv, Types, Server, Handle_Server_Message
<1>4. m \in UpMessage /\ m.type = "Run" /\ 1 \in DOMAIN u /\ m = u[1]
  BY <1>1, <1>2, <1>3 DEF MultiGame_ReceiveRun
<1>5. m.run \in OptRun /\ m.run.task = m.id /\ ~IsGoal(m, sv.num)
  <2>1. m.run \in OptRun
    BY <1>4, UpKinds
  <2>2. UpInv(cl[c], u)
    BY <1>2 DEF IInv, ClientInv
  <2>. QED
    BY <1>4, <2>1, <2>2 DEF UpInv, IsGoal
<1>6. CASE IsCurrent(m) /\ (sv.first \/ m.run.efficacy > sv.best.efficacy)
  <2>1. sv' = [sv EXCEPT !.best = m.run, !.first = FALSE]
    BY <1>1, <1>6 DEF MultiGame_ReceiveRun
  <2>2. PICK b : b = [type |-> "Run", id |-> sv.num, run |-> m.run]
    BY Zenon
  <2>3. down' = [x \in Client |-> Append(down[x], b)]
    BY <1>1, <1>6, <2>2 DEF MultiGame_ReceiveRun, SV_BroadCastMessage
  <2>4. m.id = sv.num
    BY <1>6 DEF IsCurrent
  <2>5. b \in DownMessage /\ b.type = "Run" /\ b.run.task = b.id
    BY <1>3, <1>5, <2>2, <2>4 DEF DownMessage
  <2>6. ASSUME NEW x \in Client
        PROVE  /\ Append(down[x], b) \in Seq(DownMessage)
               /\ DownInv(cl[x], Append(down[x], b), sv.num)
    <3>1. cl[x] \in Game /\ down[x] \in Seq(DownMessage) /\ DownInv(cl[x], down[x], sv.num)
      BY DEF IInv, Types, ClientInv
    <3>. QED
      BY <1>3, <2>5, <3>1, OtherMessage
  <2>7. /\ sv' \in Server /\ sv'.num = sv.num /\ sv'.goal = sv.goal /\ sv'.counts = sv.counts
        /\ sv'.best = m.run /\ sv'.running = sv.running
    BY <1>3, <1>5, <2>1, Zenon DEF Server
  <2>8. sv.goal = sv.num
    <3>1. GoalInv(cl[c], u, sv.num, sv.goal)
      BY <1>2 DEF IInv, ClientInv
    <3>2. sv.goal = sv.num \/ \E j \in 1 .. 1 : IsGoal(u[j], sv.num)
      BY <1>4, <2>4, <3>1 DEF GoalInv
    <3>. QED
      BY <1>4, <1>5, <3>2
  <2>9. ServerInv'
    BY <1>5, <2>4, <2>7, <2>8 DEF ServerInv, IInv
  <2>10. ReadStep(c, m)
    BY <1>1, <1>2, <1>3, <1>5, <2>7 DEF ReadStep
  <2>11. \A x \in Client : Counted(cl[x], sv'.counts[x], sv.num)
    BY <2>7 DEF IInv
  <2>. QED
    BY <2>3, <2>6, <2>9, <2>10, <2>11, ServerReads
<1>7. CASE UNCHANGED <<sv, down>>
  <2>1. ReadStep(c, m)
    BY <1>1, <1>2, <1>3, <1>5, <1>7 DEF ReadStep
  <2>2. /\ ServerInv' /\ down' \in [Client -> Seq(DownMessage)]
        /\ \A x \in Client : DownInv(cl[x], down'[x], sv.num)
        /\ \A x \in Client : Counted(cl[x], sv'.counts[x], sv.num)
    BY <1>7 DEF IInv, Types, ClientInv, ServerInv
  <2>. QED
    BY <2>1, <2>2, ServerReads
<1>. QED
  BY <1>1, <1>6, <1>7 DEF MultiGame_ReceiveRun

(* Progress is counted for the task the client works on.                   *)
LEMMA ReadProgress ==
  ASSUME IInv, NEW c \in Client, Handle_Server_Message(c),
         MultiGame_ReceiveProgress(c, Head(up[c]))
  PROVE  IInv'
<1>1. PICK m : m = Head(up[c])
  OBVIOUS
<1>2. PICK u : u = up[c]
  OBVIOUS
<1>3. /\ sv \in Server /\ sv.num \in Nat /\ sv.goal \in Nat /\ sv.counts \in [Client -> Nat]
      /\ u \in Seq(UpMessage) /\ u # <<>>
      /\ up' = [up EXCEPT ![c] = Tail(up[c])] /\ UNCHANGED <<cl, down>>
  BY <1>2 DEF IInv, Types, Server, Handle_Server_Message, MultiGame_ReceiveProgress
<1>4. m \in UpMessage /\ m.type = "Progress" /\ 1 \in DOMAIN u /\ m = u[1]
  BY <1>1, <1>2, <1>3 DEF MultiGame_ReceiveProgress
<1>5. m.iterations \in Nat /\ m.id \in Nat /\ ~IsGoal(m, sv.num)
  BY <1>4, UpKinds DEF IsGoal
<1>6. PICK k \in [Client -> Nat] :
        /\ k = IF m.id = sv.num THEN [sv.counts EXCEPT ![c] = m.iterations] ELSE sv.counts
        /\ sv' = [sv EXCEPT !.counts = k]
  <2>1. CASE m.id = sv.num
    <3>1. sv' = [sv EXCEPT !.counts = [sv.counts EXCEPT ![c] = m.iterations]]
      BY <1>1, <2>1 DEF MultiGame_ReceiveProgress, IsCurrent
    <3>. QED
      BY <1>3, <1>5, <2>1, <3>1, Zenon
  <2>2. CASE m.id # sv.num
    <3>1. sv' = [sv EXCEPT !.counts = sv.counts]
      BY <1>1, <1>3, <2>2 DEF MultiGame_ReceiveProgress, IsCurrent, Server
    <3>. QED
      BY <1>3, <2>2, <3>1, Zenon
  <2>. QED
    BY <2>1, <2>2
<1>7. /\ sv' \in Server /\ sv'.num = sv.num /\ sv'.goal = sv.goal /\ sv'.counts = k
      /\ sv'.best = sv.best /\ sv'.first = sv.first /\ sv'.running = sv.running
  BY <1>3, <1>6, Zenon DEF Server
<1>8. ASSUME NEW x \in Client
      PROVE  Counted(cl[x], k[x], sv.num)
  <2>1. CASE m.id = sv.num /\ x = c
    <3>1. k[x] = m.iterations
      BY <1>3, <1>6, <2>1
    <3>2. cl[c].id \in Nat /\ cl[c].id <= sv.num
      BY Zenon DEF IInv, Types, Game, ClientInv, DownInv
    <3>3. UpInv(cl[c], u)
      BY <1>2 DEF IInv, ClientInv
    <3>4. m.id <= cl[c].id /\ (m.id = cl[c].id => m.iterations <= cl[c].iterations)
      BY <1>4, <3>3 DEF UpInv
    <3>. QED
      BY <1>3, <1>5, <2>1, <3>1, <3>2, <3>4, SMTT(30) DEF Counted
  <2>2. CASE ~(m.id = sv.num /\ x = c)
    <3>1. k[x] = sv.counts[x]
      BY <1>3, <1>6, <2>2
    <3>. QED
      BY <3>1 DEF IInv
  <2>. QED
    BY <2>1, <2>2
<1>9. ReadStep(c, m)
  BY <1>1, <1>2, <1>3, <1>5, <1>7 DEF ReadStep
<1>10. /\ ServerInv' /\ down' \in [Client -> Seq(DownMessage)]
       /\ \A x \in Client : DownInv(cl[x], down'[x], sv.num)
  BY <1>3, <1>7, Zenon DEF IInv, Types, ClientInv, ServerInv
<1>. QED
  BY <1>7, <1>8, <1>9, <1>10, ServerReads

(* A goal or the points of a prediction are read.                          *)
LEMMA ReadOther ==
  ASSUME IInv, NEW c \in Client, Handle_Server_Message(c),
         \/ MultiGame_ReceiveGoal(Head(up[c]))
         \/ IPC_Prediction_Read_Response(Head(up[c]))
  PROVE  IInv'
<1>1. PICK m : m = Head(up[c])
  OBVIOUS
<1>2. /\ sv \in Server /\ sv.num \in Nat /\ sv.goal \in Nat /\ sv.last_request \in Nat
      /\ up[c] \in Seq(UpMessage) /\ up[c] # <<>>
      /\ up' = [up EXCEPT ![c] = Tail(up[c])] /\ UNCHANGED <<cl, down>>
  BY DEF IInv, Types, Server, Handle_Server_Message, MultiGame_ReceiveGoal,
         IPC_Prediction_Read_Response
<1>3. m \in UpMessage
  BY <1>1, <1>2
<1>4. /\ sv' \in Server /\ sv'.num = sv.num /\ sv'.counts = sv.counts
      /\ sv'.goal = IF IsGoal(m, sv.num) THEN sv.num ELSE sv.goal
      /\ sv'.best = sv.best /\ sv'.first = sv.first /\ sv'.running = sv.running
  <2>1. CASE MultiGame_ReceiveGoal(m)
    <3>1. CASE m.id = sv.num
      <4>1. sv' = [sv EXCEPT !.goal = sv.num] /\ IsGoal(m, sv.num)
        BY <2>1, <3>1 DEF MultiGame_ReceiveGoal, IsCurrent, IsGoal
      <4>. QED
        BY <1>2, <4>1, Zenon DEF Server
    <3>2. CASE m.id # sv.num
      <4>1. sv' = sv /\ ~IsGoal(m, sv.num)
        BY <2>1, <3>2 DEF MultiGame_ReceiveGoal, IsCurrent, IsGoal
      <4>. QED
        BY <1>2, <4>1
    <3>. QED
      BY <3>1, <3>2
  <2>2. CASE IPC_Prediction_Read_Response(m)
    <3>1. /\ sv' = [sv EXCEPT !.line = m.data, !.current_line_time = sv.last_request]
          /\ m.type = "Predict" /\ ~IsGoal(m, sv.num)
      BY <2>2 DEF IPC_Prediction_Read_Response, IsGoal
    <3>2. m.data \in Line
      BY <1>3, <3>1, UpKinds
    <3>. QED
      BY <1>2, <3>1, <3>2, Zenon DEF Server
  <2>. QED
    BY <1>1, <2>1, <2>2
<1>5. ReadStep(c, m)
  BY <1>1, <1>2, <1>4 DEF ReadStep
<1>6. /\ ServerInv' /\ down' \in [Client -> Seq(DownMessage)]
      /\ \A x \in Client : DownInv(cl[x], down'[x], sv.num)
      /\ \A x \in Client : Counted(cl[x], sv'.counts[x], sv.num)
  BY <1>2, <1>4 DEF IInv, Types, ClientInv, ServerInv
<1>. QED
  BY <1>5, <1>6, ServerReads, Zenon

-----------------------------------------------------------------------------
(* The points of a prediction are no report of the search.                 *)
LEMMA PointsSent ==
  ASSUME NEW g \in Game, NEW u \in Seq(UpMessage), NEW num, NEW goal,
         UpInv(g, u), GoalInv(g, u, num, goal), NEW m \in UpMessage, m.type = "Predict"
  PROVE  /\ u \o <<m>> \in Seq(UpMessage) /\ UpInv(g, u \o <<m>>)
         /\ GoalInv(g, u \o <<m>>, num, goal)
<1>1. PICK w : w = u \o <<m>>
  BY Zenon
<1>2. /\ w \in Seq(UpMessage) /\ Len(w) = Len(u) + 1
      /\ DOMAIN w = 1 .. Len(w) /\ DOMAIN u = 1 .. Len(u)
      /\ w[Len(u) + 1] = m
      /\ \A i \in DOMAIN u : i \in DOMAIN w /\ w[i] = u[i]
  BY <1>1
<1>3. \A i \in DOMAIN w : (i \in DOMAIN u /\ w[i] = u[i]) \/ w[i] = m
  BY <1>2
<1>4. UpInv(g, w)
  BY <1>3 DEF UpInv
<1>5. \A i \in DOMAIN u : \A j \in 1 .. i : w[j] = u[j]
  BY <1>2
<1>6. GoalInv(g, w, num, goal)
  <2>1. ASSUME NEW i \in DOMAIN w, w[i].type = "Run", w[i].id = num, goal # num
        PROVE  \E j \in 1 .. i : IsGoal(w[j], num)
    <3>1. i \in DOMAIN u /\ w[i] = u[i]
      BY <1>3, <2>1
    <3>. QED
      BY <1>5, <2>1, <3>1 DEF GoalInv
  <2>2. ASSUME g.id = num, ~g.first, goal # num
        PROVE  \E j \in DOMAIN w : IsGoal(w[j], num)
    BY <1>2, <2>2 DEF GoalInv
  <2>. QED
    BY <2>1, <2>2 DEF GoalInv
<1>. QED
  BY <1>1, <1>2, <1>4, <1>6

(* What is known of a client before its step.                              *)
LEMMA ClientFacts ==
  ASSUME IInv, NEW c \in Client
  PROVE  /\ cl[c] \in Game /\ down[c] \in Seq(DownMessage) /\ up[c] \in Seq(UpMessage)
         /\ sv.num \in Nat /\ sv.goal \in Nat /\ sv.counts[c] \in Nat
         /\ ClientInv(cl[c], down[c], up[c], sv.num, sv.goal)
         /\ Counted(cl[c], sv.counts[c], sv.num)
BY DEF IInv, Types, Server

(* A client reads a message.                                               *)
LEMMA ClientReads ==
  ASSUME IInv, NEW c \in Client, Handle_Client_Message(c)
  PROVE  IInv'
<1>1. PICK h : h = Handled(cl[c], Head(down[c]))
  OBVIOUS
<1>2. /\ UNCHANGED sv /\ down[c] # <<>> /\ cl' = [cl EXCEPT ![c] = h]
      /\ down' = [down EXCEPT ![c] = Tail(down[c])]
      /\ up' = [up EXCEPT ![c] = up[c]]
  BY <1>1 DEF Handle_Client_Message, Handled, IInv, Types
<1>3. /\ h \in Game /\ Tail(down[c]) \in Seq(DownMessage)
      /\ ClientInv(h, Tail(down[c]), up[c], sv.num, sv.goal)
      /\ Counted(h, sv.counts[c], sv.num)
  BY <1>1, <1>2, ClientFacts, HandledInv
<1>. QED
  BY <1>2, <1>3, ClientFacts, OneClient, Zenon

(* A client that goes on with its task and reports nothing.                *)
LEMMA SilentStep ==
  ASSUME IInv, NEW c \in Client, UNCHANGED <<sv, down, up>>,
         NEW h \in Game, cl' = [cl EXCEPT ![c] = h],
         h.id = cl[c].id, h.iterations = cl[c].iterations, h.first = cl[c].first, BestInv(h)
  PROVE  IInv'
<1>1. cl[c].iterations \in Nat
  BY ClientFacts DEF Game
<1>2. ClientInv(h, down[c], up[c], sv.num, sv.goal)
  BY <1>1, ClientFacts, SameTask, SMTT(30)
<1>3. Counted(h, sv.counts[c], sv.num)
  BY ClientFacts DEF Counted
<1>4. down' = [down EXCEPT ![c] = down[c]] /\ up' = [up EXCEPT ![c] = up[c]]
  BY DEF IInv, Types
<1>. QED
  BY <1>2, <1>3, <1>4, ClientFacts, OneClient, Zenon

(* A client collects the points of a prediction, and sends them.           *)
LEMMA ClientPredicts ==
  ASSUME IInv, NEW c \in Client, GamePrediction_Frame_Hook(c)
  PROVE  IInv'
<1>1. PICK g \in Game : g = cl[c] /\ BestInv(g)
  BY ClientFacts DEF ClientInv
<1>2. CASE cl' = [cl EXCEPT ![c].points = TRUE] /\ UNCHANGED up
  <2>1. PICK h : h = [g EXCEPT !.points = TRUE]
    BY Zenon
  <2>2. /\ h \in Game /\ h.id = g.id /\ h.iterations = g.iterations /\ h.first = g.first
        /\ h.best = g.best /\ h.state = g.state
    BY <2>1, Zenon DEF Game
  <2>3. cl' = [cl EXCEPT ![c] = h] /\ UNCHANGED <<sv, down, up>>
    BY <1>1, <1>2, <2>1 DEF GamePrediction_Frame_Hook
  <2>4. BestInv(h)
    BY <1>1, <2>2 DEF BestInv
  <2>. QED
    BY <1>1, <2>2, <2>3, <2>4, SilentStep, Zenon
<1>3. CASE /\ cl' = [cl EXCEPT ![c].ipc_request_finished = TRUE]
           /\ CL_SendMessages(c, <<[type |-> "Predict", data |-> cl[c].data]>>)
  <2>1. PICK h : h = [g EXCEPT !.ipc_request_finished = TRUE]
    BY Zenon
  <2>2. /\ h \in Game /\ h.id = g.id /\ h.iterations = g.iterations /\ h.first = g.first
        /\ h.best = g.best /\ h.state = g.state /\ g.iterations \in Nat /\ g.data \in Line
    BY <2>1, Zenon DEF Game
  <2>3. PICK m : m = [type |-> "Predict", data |-> g.data]
    BY Zenon
  <2>4. m \in UpMessage /\ m.type = "Predict"
    BY <2>2, <2>3 DEF UpMessage
  <2>5. /\ cl' = [cl EXCEPT ![c] = h] /\ UNCHANGED sv
        /\ down' = [down EXCEPT ![c] = down[c]] /\ up' = [up EXCEPT ![c] = up[c] \o <<m>>]
    BY <1>1, <1>3, <2>1, <2>3 DEF GamePrediction_Frame_Hook, CL_SendMessages, IInv, Types
  <2>6. BestInv(h)
    BY <1>1, <2>2 DEF BestInv
  <2>7. ClientInv(h, down[c], up[c], sv.num, sv.goal)
    BY <1>1, <2>2, <2>6, ClientFacts, SameTask, SMTT(30)
  <2>8. /\ up[c] \o <<m>> \in Seq(UpMessage) /\ UpInv(h, up[c] \o <<m>>)
        /\ GoalInv(h, up[c] \o <<m>>, sv.num, sv.goal)
    BY <2>2, <2>4, <2>7, ClientFacts, PointsSent, Zenon DEF ClientInv
  <2>9. ClientInv(h, down[c], up[c] \o <<m>>, sv.num, sv.goal)
    BY <2>7, <2>8 DEF ClientInv
  <2>10. Counted(h, sv.counts[c], sv.num)
    BY <1>1, <2>2, ClientFacts DEF Counted
  <2>. QED
    BY <2>2, <2>5, <2>8, <2>9, <2>10, ClientFacts, OneClient, Zenon
<1>. QED
  BY <1>2, <1>3 DEF GamePrediction_Frame_Hook

(* A client g at the end of an iteration, with its run, becomes h.         *)
Iterated(g, run, h) ==
  /\ h \in Game /\ h.id = g.id /\ h.iterations = g.iterations /\ h.first = g.first
  /\ h.running = g.running
  /\ h.bestEfficacy = g.bestEfficacy /\ h.ipc_request_finished = g.ipc_request_finished
  /\ h.best = IF IsBetterThan(run, g.best) THEN run ELSE g.best
  /\ h.found = IF IsBetterThan(run, g.found) THEN run ELSE g.found
  /\ IsBetterThan(run, g.best) => h.state = "NewIteration"

(* OnRunnerFrame.                                                          *)
LEMMA RunnerGame ==
  ASSUME IInv, NEW c \in Client, NEW e \in Efficacy, OnRunnerFrame(c, e),
         NEW g, g = cl[c], NEW run, run = [task |-> g.id, efficacy |-> e]
  PROVE  /\ g \in Game /\ g.running /\ run \in OptRun /\ run.task = g.id /\ run.efficacy = e
         /\ \E h : Iterated(g, run, h) /\ cl' = [cl EXCEPT ![c] = h]
<1>1. g \in Game /\ g.running
  BY ClientFacts DEF OnRunnerFrame
<1>2. g.id \in Nat /\ e \in Int /\ g.best \in OptRun /\ g.found \in OptRun
  BY <1>1, MultiGameAssumption DEF Game
<1>3. run \in OptRun /\ run.task = g.id /\ run.efficacy = e
  BY <1>2 DEF OptRun
<1>4. PICK b \in OptRun : b = IF IsBetterThan(run, g.best) THEN run ELSE g.best
  BY <1>2, <1>3
<1>5. PICK f \in OptRun : f = IF IsBetterThan(run, g.found) THEN run ELSE g.found
  BY <1>2, <1>3
<1>6. PICK s \in IF IsBetterThan(run, g.best) THEN {"NewIteration"} ELSE {"NewIteration", "Stop"} :
        cl' = [cl EXCEPT ![c].state = s,
                         ![c].best = IF IsBetterThan(run, cl[c].best) THEN run ELSE @,
                         ![c].found = IF IsBetterThan(run, @) THEN run ELSE @]
  BY Zenon DEF OnRunnerFrame
<1>7. s \in {"NewIteration", "Stop"} /\ (IsBetterThan(run, g.best) => s = "NewIteration")
  BY <1>6
<1>8. PICK h : h = [g EXCEPT !.state = s, !.best = b, !.found = f]
  OBVIOUS
<1>9. cl' = [cl EXCEPT ![c] = h]
  BY <1>4, <1>5, <1>6, <1>8, Zenon DEF IInv, Types, Game
<1>10. h \in Game
  BY <1>1, <1>7, <1>8, Zenon DEF Game
<1>11. /\ h.id = g.id /\ h.iterations = g.iterations /\ h.first = g.first
       /\ h.bestEfficacy = g.bestEfficacy /\ h.ipc_request_finished = g.ipc_request_finished
       /\ h.best = b /\ h.found = f /\ h.state = s /\ h.running = g.running
  BY <1>1, <1>8, Zenon DEF Game
<1>12. Iterated(g, run, h)
  BY <1>3, <1>4, <1>5, <1>7, <1>10, <1>11 DEF Iterated
<1>. QED
  BY <1>1, <1>3, <1>9, <1>12, Zenon

(* It keeps the invariant.                                                 *)
LEMMA IterationEnds ==
  ASSUME IInv, NEW c \in Client, NEW e \in Efficacy, OnRunnerFrame(c, e)
  PROVE  IInv'
<1>1. PICK g, run : g = cl[c] /\ run = [task |-> g.id, efficacy |-> e]
  BY Zenon
<1>2. PICK h : Iterated(g, run, h) /\ cl' = [cl EXCEPT ![c] = h]
  BY <1>1, RunnerGame
<1>3. g \in Game /\ run.task = g.id /\ BestInv(g)
  BY <1>1, RunnerGame, ClientFacts DEF ClientInv
<1>4. h \in Game /\ h.id = g.id /\ h.iterations = g.iterations /\ h.first = g.first
  BY <1>2 DEF Iterated
<1>5. BestInv(h)
  BY <1>2, <1>3 DEF Iterated, BestInv, IsBetterThan
<1>6. UNCHANGED <<sv, down, up>>
  BY DEF OnRunnerFrame
<1>. QED
  BY <1>1, <1>2, <1>4, <1>5, <1>6, SilentStep, Zenon

(* A sequence of one message.                                              *)
LEMMA OneMessage ==
  ASSUME NEW m \in UpMessage
  PROVE  <<m>> \in Seq(UpMessage) /\ Len(<<m>>) = 1 /\ <<m>>[1] = m
OBVIOUS

(* One more message at the end.                                            *)
LEMMA MoreMessages ==
  ASSUME NEW s \in Seq(UpMessage), NEW m \in UpMessage
  PROVE  /\ s \o <<m>> \in Seq(UpMessage) /\ Len(s \o <<m>>) = Len(s) + 1
         /\ (s \o <<m>>)[Len(s) + 1] = m
         /\ \A i \in 1 .. Len(s) : (s \o <<m>>)[i] = s[i]
OBVIOUS

(* What a client reports at the end of an iteration.                       *)
ProgressOf(g) == [type |-> "Progress", id |-> g.id, iterations |-> g.iterations + 1]
GoalOf(g) == [type |-> "Goal", id |-> g.id]
RunOf(g) == [type |-> "Run", id |-> g.id, run |-> g.best]

Report(g) ==
  <<ProgressOf(g)>> \o (IF g.first THEN <<GoalOf(g)>> ELSE <<>>)
  \o (IF g.first \/ g.best.efficacy > g.bestEfficacy THEN <<RunOf(g)>> ELSE <<>>)

(* The messages of a report.                                               *)
LEMMA ReportParts ==
  ASSUME NEW g \in Game, NEW ms, ms = Report(g)
  PROVE  /\ ms \in Seq(UpMessage)
         /\ \A i \in DOMAIN ms : ms[i] \in {ProgressOf(g), GoalOf(g), RunOf(g)}
         /\ g.first => DOMAIN ms = 1 .. 3 /\ ms[2] = GoalOf(g) /\ ms[3] = RunOf(g)
                       /\ ms[1] = ProgressOf(g)
         /\ ~g.first /\ g.best.efficacy > g.bestEfficacy =>
              DOMAIN ms = 1 .. 2 /\ ms[2] = RunOf(g)
<1>1. PICK P, G, R : P = ProgressOf(g) /\ G = GoalOf(g) /\ R = RunOf(g)
  BY Zenon
<1>2. g.id \in Nat /\ g.iterations \in Nat /\ g.best \in OptRun
  BY DEF Game
<1>3. P \in UpMessage /\ G \in UpMessage /\ R \in UpMessage
  <2>1. P \in UpMessage
    BY <1>1, <1>2 DEF UpMessage, ProgressOf
  <2>2. G \in UpMessage
    BY <1>1, <1>2 DEF UpMessage, GoalOf
  <2>3. R \in UpMessage
    BY <1>1, <1>2 DEF UpMessage, RunOf
  <2>. QED
    BY <2>1, <2>2, <2>3
<1>4. /\ ms \in Seq(UpMessage)
      /\ \/ g.first /\ Len(ms) = 3 /\ ms[1] = P /\ ms[2] = G /\ ms[3] = R
         \/ Len(ms) = 2 /\ ms[1] = P /\ ms[2] = R /\ ~g.first
         \/ /\ Len(ms) = 1 /\ ms[1] = P /\ ~g.first
            /\ ~(g.best.efficacy > g.bestEfficacy)
  <2>1. ms = <<P>> \o (IF g.first THEN <<G>> ELSE <<>>)
             \o (IF g.first \/ g.best.efficacy > g.bestEfficacy THEN <<R>> ELSE <<>>)
    BY <1>1 DEF Report
  <2>2. PICK p \in Seq(UpMessage) : p = <<P>> /\ Len(p) = 1 /\ p[1] = P
    BY <1>3, OneMessage, Zenon
  <2>3. CASE g.first
    <3>1. PICK q : q = p \o <<G>>
      BY Zenon
    <3>2. q \in Seq(UpMessage) /\ Len(q) = 2 /\ q[1] = P /\ q[2] = G
      <4>1. /\ q \in Seq(UpMessage) /\ Len(q) = 1 + 1
            /\ q[1 + 1] = G /\ \A i \in 1 .. 1 : q[i] = p[i]
        BY <1>3, <2>2, <3>1, MoreMessages
      <4>. QED
        BY <2>2, <4>1
    <3>3. ms = q \o <<R>>
      BY <2>1, <2>2, <2>3, <3>1
    <3>4. /\ ms \in Seq(UpMessage) /\ Len(ms) = Len(q) + 1 /\ ms[Len(q) + 1] = R
          /\ \A i \in 1 .. Len(q) : ms[i] = q[i]
      <4>1. R \in UpMessage /\ q \in Seq(UpMessage)
        BY <1>3, <3>2
      <4>. QED
        BY <3>3, <4>1, MoreMessages
    <3>. QED
      BY <2>3, <3>2, <3>4
  <2>4. CASE ~g.first
    <3>1. p \o <<>> = p
      OBVIOUS
    <3>2. ms = p \o <<R>> \/ (ms = p /\ ~(g.best.efficacy > g.bestEfficacy))
      BY <2>1, <2>2, <2>4, <3>1, Zenon
    <3>3. CASE ms = p \o <<R>>
      <4>1. /\ ms \in Seq(UpMessage) /\ Len(ms) = 1 + 1 /\ ms[1 + 1] = R
            /\ \A i \in 1 .. 1 : ms[i] = p[i]
        BY <1>3, <2>2, <3>3, MoreMessages
      <4>. QED
        BY <2>2, <2>4, <4>1
    <3>. QED
      BY <2>2, <2>4, <3>2, <3>3, Zenon
  <2>. QED
    BY <2>3, <2>4
<1>5. DOMAIN ms = 1 .. Len(ms)
  BY <1>4
<1>6. \A i \in DOMAIN ms : ms[i] \in {P, G, R}
  BY <1>4, <1>5
<1>. QED
  BY <1>1, <1>4, <1>5, <1>6

(* Its messages are no predictions.                                        *)
LEMMA ReportKinds ==
  ASSUME NEW g \in Game, NEW ms, ms = Report(g)
  PROVE  ms \in Seq(UpMessage) /\ \A i \in DOMAIN ms : ms[i].type # "Predict"
<1>1. /\ ms \in Seq(UpMessage)
      /\ \A i \in DOMAIN ms : ms[i] \in {ProgressOf(g), GoalOf(g), RunOf(g)}
  BY ReportParts
<1>. QED
  BY <1>1 DEF ProgressOf, GoalOf, RunOf

(* The report is of the client's task, and the first one holds the goal    *)
(* before the run.                                                         *)
LEMMA ReportInv ==
  ASSUME NEW g \in Game, g.best.task = g.id,
         NEW h \in Game, h.id = g.id, h.iterations = g.iterations + 1,
         NEW ms, ms = Report(g)
  PROVE  /\ ms \in Seq(UpMessage) /\ UpInv(h, ms)
         /\ \A i \in DOMAIN ms : ms[i].type = "Run" => ms[i].id = g.id
         /\ g.first => \E j \in DOMAIN ms : IsGoal(ms[j], g.id)
                         /\ \A i \in DOMAIN ms : ms[i].type = "Run" => j <= i
<1>1. PICK P, G, R : P = ProgressOf(g) /\ G = GoalOf(g) /\ R = RunOf(g)
  BY Zenon
<1>2. g.id \in Nat /\ g.iterations \in Nat
  BY DEF Game
<1>3. /\ P.type = "Progress" /\ P.id = g.id /\ P.iterations = g.iterations + 1
      /\ G.type = "Goal" /\ G.id = g.id
      /\ R.type = "Run" /\ R.id = g.id /\ R.run = g.best
  BY <1>1 DEF ProgressOf, GoalOf, RunOf
<1>4. /\ ms \in Seq(UpMessage) /\ \A i \in DOMAIN ms : ms[i] \in {P, G, R}
      /\ g.first => DOMAIN ms = 1 .. 3 /\ ms[1] = P /\ ms[2] = G /\ ms[3] = R
  BY <1>1, ReportParts
<1>5. UpInv(h, ms)
  BY <1>2, <1>3, <1>4 DEF UpInv
<1>6. \A i \in DOMAIN ms : ms[i].type = "Run" => ms[i].id = g.id
  BY <1>3, <1>4
<1>7. ASSUME g.first
      PROVE  \E j \in DOMAIN ms : IsGoal(ms[j], g.id)
                /\ \A i \in DOMAIN ms : ms[i].type = "Run" => j <= i
  <2>1. DOMAIN ms = 1 .. 3 /\ ms[1] = P /\ ms[2] = G /\ ms[3] = R
    BY <1>4, <1>7
  <2>2. IsGoal(ms[2], g.id)
    BY <1>3, <2>1 DEF IsGoal
  <2>3. \A i \in DOMAIN ms : ms[i].type = "Run" => 2 <= i
    BY <1>3, <2>1
  <2>. QED
    BY <2>1, <2>2, <2>3
<1>. QED
  BY <1>4, <1>5, <1>6, <1>7

(* A client starts its next iteration or ends its search.                  *)
LEMMA RunEnds ==
  ASSUME IInv, NEW c \in Client, Game_Opt_Ended(c)
  PROVE  IInv'
<1>1. PICK g \in Game : g = cl[c] /\ BestInv(g)
  BY ClientFacts DEF ClientInv
<1>2. ASSUME NEW h, cl' = [cl EXCEPT ![c] = h], Ended(g, h), UNCHANGED up
      PROVE  IInv'
  <2>1. /\ h \in Game /\ h.id = g.id /\ h.iterations = g.iterations /\ h.first = g.first
        /\ h.best = g.best /\ h.state = g.state
    BY <1>2, EndedGame
  <2>2. UNCHANGED <<sv, down, up>>
    BY <1>2 DEF Game_Opt_Ended
  <2>3. BestInv(h)
    BY <1>1, <2>1 DEF BestInv
  <2>. QED
    BY <1>1, <1>2, <2>1, <2>2, <2>3, SilentStep, Zenon
<1>3. CASE cl[c].state = "NewIteration" /\ GameOpt_NewIteration(c)
  <2>1. g.iterations \in Nat /\ g.best \in OptRun /\ g.bestEfficacy \in Int
    BY DEF Game
  <2>2. PICK b \in Int : b = IF g.first \/ g.best.efficacy > g.bestEfficacy
                             THEN g.best.efficacy ELSE g.bestEfficacy
    BY <2>1 DEF OptRun
  <2>3. PICK n \in Nat : n = g.iterations + 1
    BY <2>1
  <2>4. PICK k : k = [g EXCEPT !.first = FALSE, !.iterations = n, !.bestEfficacy = b,
                               !.state = "Continue"]
    OBVIOUS
  <2>5. /\ k \in Game /\ k.id = g.id /\ k.iterations = n /\ k.best = g.best
        /\ k.state = "Continue"
    BY <2>4, Zenon DEF Game
  <2>6. PICK h : h = Run_Script(k)
    OBVIOUS
  <2>7. /\ h \in Game /\ h.id = g.id /\ h.iterations = n /\ h.best = g.best
        /\ h.state = "Continue"
    BY <2>5, <2>6, RunScript
  <2>8. PICK ms : ms = Report(g)
    OBVIOUS
  <2>9. cl' = [cl EXCEPT ![c] = h]
    <3>1. k = [g EXCEPT !.first = FALSE, !.iterations = @ + 1,
                 !.bestEfficacy = IF g.first \/ g.best.efficacy > g.bestEfficacy
                                  THEN g.best.efficacy ELSE @, !.state = "Continue"]
      BY <2>2, <2>3, <2>4
    <3>. QED
      BY <1>1, <1>3, <2>6, <3>1 DEF GameOpt_NewIteration
  <2>10. /\ UNCHANGED sv /\ down' = [down EXCEPT ![c] = down[c]]
         /\ up' = [up EXCEPT ![c] = up[c] \o ms]
    BY <1>1, <1>3, <2>8 DEF Game_Opt_Ended, GameOpt_NewIteration, CL_SendMessages, Report,
                            ProgressOf, GoalOf, RunOf, IInv, Types
  <2>11. g.best.task = g.id
    BY <1>1, <1>3 DEF BestInv
  <2>12. /\ ms \in Seq(UpMessage) /\ UpInv(h, ms)
         /\ \A i \in DOMAIN ms : ms[i].type = "Run" => ms[i].id = g.id
         /\ g.first => \E j \in DOMAIN ms : IsGoal(ms[j], g.id)
                         /\ \A i \in DOMAIN ms : ms[i].type = "Run" => j <= i
    BY <2>3, <2>7, <2>8, <2>11, ReportInv, SMTT(30)
  <2>13. UpInv(g, up[c]) /\ GoalInv(g, up[c], sv.num, sv.goal) /\ DownInv(g, down[c], sv.num)
    BY <1>1, ClientFacts DEF ClientInv
  <2>14. g.iterations <= h.iterations
    BY <2>1, <2>3, <2>7
  <2>15. /\ up[c] \o ms \in Seq(UpMessage) /\ UpInv(h, up[c] \o ms)
         /\ GoalInv(h, up[c] \o ms, sv.num, sv.goal)
    BY <2>7, <2>12, <2>13, <2>14, ClientFacts, Reported, Zenon
  <2>16. DownInv(h, down[c], sv.num)
    BY <2>7, <2>13, Zenon DEF DownInv
  <2>17. BestInv(h)
    BY <2>7, <2>11 DEF BestInv
  <2>18. ClientInv(h, down[c], up[c] \o ms, sv.num, sv.goal)
    BY <2>15, <2>16, <2>17 DEF ClientInv
  <2>19. Counted(h, sv.counts[c], sv.num)
    BY <1>1, <2>1, <2>3, <2>7, ClientFacts, SMTT(30) DEF Counted
  <2>. QED
    BY <2>7, <2>9, <2>10, <2>15, <2>18, <2>19, ClientFacts, OneClient, Zenon
<1>. QED
  BY <1>1, <1>2, <1>3, EndsOrGoesOn, Zenon

-----------------------------------------------------------------------------
(* Every step keeps the invariant.                                         *)
LEMMA StepInv == IInv /\ [Next]_vars => IInv'
<1>. SUFFICES ASSUME IInv, [Next]_vars PROVE IInv'
  OBVIOUS
<1>1. CASE Server_Frame
  <2>1. CASE IPC_Prediction_Frame_Hook
    BY <2>1, PredictionFrame
  <2>2. CASE MultiGameOpt_Frame
    BY <2>2, SearchFrame
  <2>3. CASE No_Command
    BY <2>3, UserInv
  <2>4. ASSUME NEW c \in Client, Handle_Server_Message(c)
        PROVE  IInv'
    <3>1. \/ MultiGame_ReceiveRun(Head(up[c])) \/ MultiGame_ReceiveProgress(c, Head(up[c]))
          \/ MultiGame_ReceiveGoal(Head(up[c])) \/ IPC_Prediction_Read_Response(Head(up[c]))
      BY <2>4 DEF Handle_Server_Message
    <3>. QED
      BY <2>4, <3>1, ReadRun, ReadProgress, ReadOther
  <2>. QED
    BY <1>1, <2>1, <2>2, <2>3, <2>4 DEF Server_Frame
<1>2. CASE User \/ \E f \in 1 .. LastFrame : Arrive(f)
  BY <1>2, UserInv
<1>3. ASSUME NEW c \in Client, Client_Frame(c)
      PROVE  IInv'
  BY <1>3, ClientReads, ClientPredicts, RunEnds, IterationEnds DEF Client_Frame
<1>4. CASE UNCHANGED vars
  BY <1>4 DEF vars, IInv, Types, ServerInv
<1>. QED
  BY <1>1, <1>2, <1>3, <1>4 DEF Next

(* What the server of a multi-game optimization shows belongs to its       *)
(* current task, whatever the delays of the messages and whenever the user *)
(* edits: the best run is one of the task, its goal is known by then,      *)
(* every client works on the task or will be told of it, and no progress   *)
(* is counted that was made in an earlier one (MultiGame_ReceiveRun,       *)
(* _ReceiveProgress and _ReceiveGoal in Source/tas/optimizer_quake.cpp).   *)
THEOREM ShownStaysCurrent == Spec => []ShownIsCurrent
<1>1. IInv => ShownIsCurrent
  <2>. SUFFICES ASSUME IInv, sv.running PROVE ShownIsCurrent
    BY DEF ShownIsCurrent
  <2>1. sv.num > 1 /\ (~sv.first => sv.best.task = sv.num /\ sv.goal = sv.num)
    BY DEF IInv, ServerInv
  <2>2. \A c \in Client : HasTask(c)
    BY <2>1, Zenon DEF IInv, ClientInv, DownInv, HasTask
  <2>3. \A c \in Client : sv.counts[c] > 0 => cl[c].id = sv.num /\ sv.counts[c] <= cl[c].iterations
    BY DEF IInv, Counted
  <2>. QED
    BY <2>1, <2>2, <2>3 DEF ShownIsCurrent
<1>. QED
  BY <1>1, InitInv, StepInv, PTL DEF Spec

=============================================================================
