---------------------------- MODULE SpreadProofs ----------------------------
(***************************************************************************)
(* The best run of a task reaches the server and every client, for any     *)
(* number of clients and runs and any delay of the messages.               *)
(***************************************************************************)
EXTENDS MultiGameProofs

(* The server s has a run at least as good as e, or one is on its way to   *)
(* it.                                                                     *)
Known(u, s, e) ==
  \/ ~s.first /\ e <= s.best.efficacy
  \/ \E i \in DOMAIN u : u[i].type = "Run" /\ u[i].id = s.num /\ u[i].run.efficacy >= e

(* No run on its way to a client is better than the server's.              *)
Sends(d, s) ==
  \A i \in DOMAIN d : d[i].type = "Run" =>
    d[i].id <= s.num /\ (d[i].id = s.num => ~s.first /\ d[i].run.efficacy <= s.best.efficacy)

(* The best run of the server has reached the client, or is on its way.    *)
Brings(g, d, s, i) ==
  /\ d[i] = [type |-> "Run", id |-> s.num, run |-> s.best]
  /\ g.id = s.num \/ \E j \in 1 .. i : d[j] = [type |-> "Task", id |-> s.num]

Gets(g, d, s) ==
  ~s.first /\ s.num > 1 =>
    \/ g.best.task = s.num /\ g.best.efficacy >= s.best.efficacy
    \/ \E i \in DOMAIN d : Brings(g, d, s, i)

(* The client's best run is at least as good as the best it found itself.  *)
Found(g) ==
  g.found # None =>
    /\ g.found.task = g.id
    /\ g.id > 0 => g.best # None /\ g.found.efficacy <= g.best.efficacy

(* The server knows of the client's best run, or will with the client's    *)
(* next report; and of every run the client will not report again.         *)
Tells(g, u, s) ==
  g.id = s.num =>
    /\ g.best # None => g.state = "NewIteration" \/ Known(u, s, g.best.efficacy)
    /\ ~g.first => Known(u, s, g.bestEfficacy)

Spread(g, d, u, s) == Sends(d, s) /\ Gets(g, d, s) /\ Found(g) /\ Tells(g, u, s)

SpreadInv == \A c \in Client : Spread(cl[c], down[c], up[c], sv)

-----------------------------------------------------------------------------
(* A better run of the server, or the same one.                            *)
Better(s, t) ==
  /\ t.num = s.num /\ t.best.efficacy \in Int
  /\ ~s.first => ~t.first /\ s.best.efficacy <= t.best.efficacy

(* Better runs and more reports keep a run known.                          *)
LEMMA KnownMore ==
  ASSUME NEW u \in Seq(UpMessage), NEW ms \in Seq(UpMessage), NEW v, v = u \o ms,
         NEW s, NEW e \in Int
  PROVE  /\ Known(u, s, e) => Known(v, s, e)
         /\ Known(ms, s, e) => Known(v, s, e)
<1>1. /\ Len(u) \in Nat /\ Len(ms) \in Nat /\ DOMAIN u = 1 .. Len(u) /\ DOMAIN ms = 1 .. Len(ms)
      /\ DOMAIN v = 1 .. Len(u) + Len(ms)
      /\ \A i \in 1 .. Len(u) : v[i] = u[i]
      /\ \A i \in 1 .. Len(ms) : v[i + Len(u)] = ms[i]
  OBVIOUS
<1>2. /\ \A i \in DOMAIN u : i \in DOMAIN v /\ v[i] = u[i]
      /\ \A i \in DOMAIN ms : i + Len(u) \in DOMAIN v /\ v[i + Len(u)] = ms[i]
  BY <1>1
<1>3. Known(u, s, e) => Known(v, s, e)
  BY <1>2 DEF Known
<1>4. Known(ms, s, e) => Known(v, s, e)
  BY <1>2, ZenonT(30) DEF Known
<1>. QED
  BY <1>3, <1>4

(* A run stays known when the server has a better one.                     *)
LEMMA KnownBetter ==
  ASSUME NEW u, NEW s, NEW t, Better(s, t), s.best.efficacy \in Int, NEW e \in Int, Known(u, s, e)
  PROVE  Known(u, t, e)
BY DEF Known, Better

(* A worse run is known, too.                                              *)
LEMMA KnownWorse ==
  ASSUME NEW u \in Seq(UpMessage), NEW s, s.best.efficacy \in Int, NEW e \in Int, Known(u, s, e),
         NEW f \in Int, f <= e
  PROVE  Known(u, s, f)
<1>1. CASE ~s.first /\ e <= s.best.efficacy
  BY <1>1 DEF Known
<1>2. ASSUME NEW i \in DOMAIN u, u[i].type = "Run", u[i].id = s.num, u[i].run.efficacy >= e
      PROVE  Known(u, s, f)
  <2>1. u[i] \in UpMessage
    BY <1>2
  <2>2. u[i].run.efficacy \in Int
    BY <1>2, <2>1, UpKinds DEF OptRun
  <2>3. u[i].run.efficacy >= f
    BY <1>2, <2>2
  <2>. QED
    BY <1>2, <2>3 DEF Known
<1>. QED
  BY <1>1, <1>2 DEF Known

(* A report is read: if it was the run that made another one known, the    *)
(* server has it now.                                                      *)
LEMMA KnownRead ==
  ASSUME NEW u \in Seq(UpMessage), u # <<>>, NEW m, m = Head(u), NEW v, v = Tail(u),
         NEW s, NEW t, Better(s, t), s.best.efficacy \in Int,
         m.type = "Run" /\ m.id = s.num => ~t.first /\ m.run.efficacy <= t.best.efficacy,
         NEW e \in Int, Known(u, s, e)
  PROVE  Known(v, t, e)
<1>1. CASE ~s.first /\ e <= s.best.efficacy
  BY <1>1 DEF Known, Better
<1>2. ASSUME NEW i \in DOMAIN u, u[i].type = "Run", u[i].id = s.num, u[i].run.efficacy >= e
      PROVE  Known(v, t, e)
  <2>1. /\ Len(u) \in Nat \ {0} /\ DOMAIN u = 1 .. Len(u) /\ DOMAIN v = 1 .. Len(u) - 1
        /\ m = u[1] /\ \A k \in DOMAIN v : v[k] = u[k + 1]
    OBVIOUS
  <2>2. CASE i = 1
    <3>1. m \in UpMessage /\ m.type = "Run" /\ m.id = s.num /\ m.run.efficacy >= e
      BY <1>2, <2>1, <2>2
    <3>2. m.run.efficacy \in Int
      BY <3>1, UpKinds DEF OptRun
    <3>3. ~t.first /\ e <= t.best.efficacy
      BY <3>1, <3>2 DEF Better
    <3>. QED
      BY <3>3 DEF Known
  <2>3. CASE i # 1
    <3>1. i - 1 \in DOMAIN v /\ v[i - 1] = u[i]
      BY <2>1, <2>3
    <3>. QED
      BY <1>2, <3>1 DEF Known, Better
  <2>. QED
    BY <2>2, <2>3
<1>. QED
  BY <1>1, <1>2 DEF Known

(* A message that is no run is sent to a client.                           *)
LEMMA SpreadSent ==
  ASSUME NEW d \in Seq(DownMessage), NEW m, m.type # "Run", NEW e, e = Append(d, m), NEW g, NEW s
  PROVE  /\ Sends(d, s) => Sends(e, s)
         /\ Gets(g, d, s) => Gets(g, e, s)
<1>1. /\ Len(d) \in Nat /\ DOMAIN d = 1 .. Len(d) /\ DOMAIN e = 1 .. Len(d) + 1
      /\ e[Len(d) + 1] = m /\ \A i \in 1 .. Len(d) : e[i] = d[i]
  OBVIOUS
<1>2. /\ \A i \in DOMAIN d : /\ i \in DOMAIN e /\ e[i] = d[i]
                             /\ \A j \in 1 .. i : e[j] = d[j]
      /\ \A i \in DOMAIN e : (i \in DOMAIN d /\ e[i] = d[i]) \/ e[i] = m
  BY <1>1
<1>3. Sends(d, s) => Sends(e, s)
  BY <1>2 DEF Sends
<1>4. \A i \in DOMAIN d : Brings(g, d, s, i) => Brings(g, e, s, i)
  BY <1>2 DEF Brings
<1>5. Gets(g, d, s) => Gets(g, e, s)
  BY <1>2, <1>4 DEF Gets
<1>. QED
  BY <1>3, <1>5

-----------------------------------------------------------------------------
(* The part of the server the runs depend on.                              *)
SameBest(s, t) == t.num = s.num /\ t.first = s.first /\ t.best = s.best

LEMMA SpreadSame ==
  ASSUME NEW g, NEW d, NEW u, NEW s, NEW t, SameBest(s, t), Spread(g, d, u, s)
  PROVE  Spread(g, d, u, t)
<1>1. Sends(d, t) /\ Gets(g, d, t)
  BY DEF Spread, SameBest, Sends, Gets, Brings
<1>2. Tells(g, u, t)
  BY DEF Spread, SameBest, Tells, Known
<1>. QED
  BY <1>1, <1>2 DEF Spread

(* A step of the server that changes nothing of it.                        *)
LEMMA SpreadQuiet ==
  ASSUME IInv, SpreadInv, UNCHANGED <<cl, up>>, SameBest(sv, sv'),
         \A c \in Client : \A g : (Sends(down[c], sv) => Sends(down'[c], sv))
                              /\ (Gets(g, down[c], sv) => Gets(g, down'[c], sv))
  PROVE  SpreadInv'
<1>. SUFFICES ASSUME NEW c \in Client PROVE Spread(cl[c], down'[c], up[c], sv')
  BY DEF SpreadInv
<1>1. Spread(cl[c], down'[c], up[c], sv)
  BY DEF SpreadInv, Spread
<1>. QED
  BY <1>1, SpreadSame

(* Stopping the search sends no run.                                       *)
LEMMA SpreadStops ==
  ASSUME IInv
  PROVE  \A c \in Client : \A g : (Sends(down[c], sv) => Sends(StopMessages[c], sv))
                              /\ (Gets(g, down[c], sv) => Gets(g, StopMessages[c], sv))
<1>. SUFFICES ASSUME NEW c \in Client, NEW g
              PROVE  /\ Sends(down[c], sv) => Sends(StopMessages[c], sv)
                     /\ Gets(g, down[c], sv) => Gets(g, StopMessages[c], sv)
  OBVIOUS
<1>1. CASE sv.running
  <2>1. PICK m : m = [type |-> "Stop"]
    BY Zenon
  <2>2. m.type # "Run" /\ StopMessages[c] = Append(down[c], m) /\ down[c] \in Seq(DownMessage)
    BY <1>1, <2>1 DEF StopMessages, SV_BroadCastMessage, IInv, Types
  <2>. QED
    BY <2>2, SpreadSent, Zenon
<1>2. CASE ~sv.running
  BY <1>2 DEF StopMessages
<1>. QED
  BY <1>1, <1>2

(* The frame hook for predictions.                                         *)
LEMMA SpreadRequest ==
  ASSUME IInv, SpreadInv, IPC_Prediction_Frame_Hook
  PROVE  SpreadInv'
<1>0. UNCHANGED <<cl, up>> /\ sv \in Server /\ Predictor \in Client
  BY MultiGameAssumption DEF IPC_Prediction_Frame_Hook, IInv, Types
<1>1. CASE Request
  <2>1. SameBest(sv, sv')
    BY <1>0, <1>1 DEF Request, Stopped, SameBest, Server
  <2>2. PICK m : m = [type |-> "Predict", script |-> sv.script, start |-> sv.frame,
                      end |-> EndFrame(sv.frame)]
    BY Zenon
  <2>3. PICK D : D = StopMessages
    OBVIOUS
  <2>4. D \in [Client -> Seq(DownMessage)]
    BY <2>3, Stopping
  <2>5. /\ m.type # "Run" /\ down'[Predictor] = Append(D[Predictor], m)
        /\ \A c \in Client : c # Predictor => down'[c] = D[c]
    <3>1. down' = [D EXCEPT ![Predictor] = Append(D[Predictor], m)]
      BY <1>1, <2>2, <2>3 DEF Request
    <3>. QED
      BY <1>0, <2>2, <2>4, <3>1
  <2>6. ASSUME NEW c \in Client, NEW g
        PROVE  /\ Sends(D[c], sv) => Sends(down'[c], sv)
               /\ Gets(g, D[c], sv) => Gets(g, down'[c], sv)
    <3>1. CASE c = Predictor
      <4>1. D[c] \in Seq(DownMessage) /\ down'[c] = Append(D[c], m)
        BY <2>4, <2>5, <3>1
      <4>. QED
        BY <2>5, <4>1, SpreadSent, Zenon
    <3>. QED
      BY <2>5, <3>1
  <2>7. \A c \in Client : \A g : (Sends(down[c], sv) => Sends(D[c], sv))
                             /\ (Gets(g, down[c], sv) => Gets(g, D[c], sv))
    BY <2>3, SpreadStops
  <2>. QED
    BY <1>0, <2>1, <2>6, <2>7, SpreadQuiet
<1>2. CASE UNCHANGED <<sv, down>>
  BY <1>0, <1>2 DEF SpreadInv
<1>. QED
  BY <1>1, <1>2 DEF IPC_Prediction_Frame_Hook

(* The user's commands.                                                    *)
LEMMA SpreadUser ==
  ASSUME IInv, SpreadInv, User \/ No_Command \/ \E f \in 1 .. LastFrame : Arrive(f)
  PROVE  SpreadInv'
<1>1. UNCHANGED <<cl, up>> /\ (UNCHANGED down \/ down' = StopMessages)
  BY Zenon DEF User, Edit, Cmd_TAS_Optimizer_Accept, Optimizer_Var_Updated, Skip, MayAct,
         No_Command, Arrive
<1>2. sv \in Server
  BY DEF IInv, Types
<1>3. SameBest(sv, sv')
  BY <1>2, Zenon DEF User, Edit, Cmd_TAS_Optimizer_Accept, Optimizer_Var_Updated, Skip, MayAct,
         No_Command, Arrive, SameBest, Stopped, Server
<1>4. \A c \in Client : \A g : (Sends(down[c], sv) => Sends(down'[c], sv))
                           /\ (Gets(g, down[c], sv) => Gets(g, down'[c], sv))
  BY <1>1, SpreadStops
<1>. QED
  BY <1>1, <1>3, <1>4, SpreadQuiet

(* The frame hook for the search: nothing is known of a new task yet.      *)
LEMMA SpreadFrame ==
  ASSUME IInv, SpreadInv, MultiGameOpt_Frame
  PROVE  SpreadInv'
<1>0. UNCHANGED <<cl, up>> /\ sv \in Server /\ sv.num \in Nat
  BY DEF MultiGameOpt_Frame, IInv, Types, Server
<1>1. CASE down' = StopMessages /\ sv' = Stopped([sv EXCEPT !.startFrame = -1])
  <2>1. SameBest(sv, sv')
    BY <1>0, <1>1 DEF Stopped, SameBest, Server
  <2>. QED
    BY <1>0, <1>1, <2>1, SpreadStops, SpreadQuiet
<1>2. CASE SV_StartMultiGameOpt
  <2>1. sv'.num = sv.num + 1 /\ sv'.first = TRUE
    BY <1>0, <1>2 DEF SV_StartMultiGameOpt, Server
  <2>2. ASSUME NEW c \in Client
        PROVE  Spread(cl[c], down'[c], up[c], sv')
    <3>1. /\ cl[c] \in Game /\ down[c] \in Seq(DownMessage) /\ cl[c].id \in Nat /\ cl[c].id <= sv.num
      BY ClientFacts DEF ClientInv, DownInv, Game
    <3>2. Sends(down[c], sv')
      <4>. SUFFICES ASSUME NEW i \in DOMAIN down[c], down[c][i].type = "Run"
                    PROVE  down[c][i].id <= sv'.num /\ down[c][i].id # sv'.num
        BY DEF Sends
      <4>1. down[c][i] \in DownMessage
        BY <3>1
      <4>2. down[c][i].id \in Nat /\ down[c][i].id <= sv.num
        BY <4>1, DownKinds DEF SpreadInv, Spread, Sends
      <4>. QED
        BY <1>0, <2>1, <4>2
    <3>3. PICK m : m = [type |-> "Task", id |-> sv.num + 1]
      BY Zenon
    <3>4. m.type # "Run" /\ down'[c] = Append(down[c], m)
      BY <1>2, <3>3 DEF SV_StartMultiGameOpt, SV_BroadCastMessage
    <3>5. Sends(down'[c], sv')
      BY <3>1, <3>2, <3>4, SpreadSent, Zenon
    <3>6. Gets(cl[c], down'[c], sv') /\ Tells(cl[c], up[c], sv')
      BY <1>0, <2>1, <3>1 DEF Gets, Tells
    <3>. QED
      BY <3>5, <3>6 DEF SpreadInv, Spread
  <2>. QED
    BY <1>0, <2>2 DEF SpreadInv
<1>3. CASE UNCHANGED <<sv, down>>
  BY <1>0, <1>3 DEF SpreadInv
<1>. QED
  BY <1>1, <1>2, <1>3 DEF MultiGameOpt_Frame

(* The server's new best run is sent to a client.                          *)
LEMMA SpreadRun ==
  ASSUME NEW g, NEW d \in Seq(DownMessage), NEW s, NEW t, Better(s, t), ~t.first,
         s.best.efficacy \in Int, s.num \in Nat, DownInv(g, d, s.num), Sends(d, s),
         NEW m, m = [type |-> "Run", id |-> t.num, run |-> t.best], NEW e, e = Append(d, m)
  PROVE  Sends(e, t) /\ Gets(g, e, t)
<1>1. /\ Len(d) \in Nat /\ DOMAIN d = 1 .. Len(d) /\ DOMAIN e = 1 .. Len(d) + 1
      /\ e[Len(d) + 1] = m /\ \A i \in 1 .. Len(d) : e[i] = d[i]
  OBVIOUS
<1>2. m.type = "Run" /\ m.id = t.num /\ m.run = t.best
  OBVIOUS
<1>3. Sends(e, t)
  <2>. SUFFICES ASSUME NEW i \in DOMAIN e, e[i].type = "Run"
                PROVE  /\ e[i].id <= t.num
                       /\ e[i].id = t.num => ~t.first /\ e[i].run.efficacy <= t.best.efficacy
    BY DEF Sends
  <2>1. CASE i \in DOMAIN d
    <3>1. e[i] = d[i] /\ d[i] \in DownMessage
      BY <1>1, <2>1
    <3>2. d[i].id \in Nat /\ d[i].run.efficacy \in Int
      BY <3>1, DownKinds DEF OptRun
    <3>3. /\ d[i].id <= s.num
          /\ d[i].id = s.num => ~s.first /\ d[i].run.efficacy <= s.best.efficacy
      BY <2>1, <3>1 DEF Sends
    <3>. QED
      BY <3>1, <3>2, <3>3 DEF Better
  <2>2. CASE i = Len(d) + 1
    BY <1>1, <1>2, <2>2 DEF Better
  <2>. QED
    BY <1>1, <2>1, <2>2
<1>4. ASSUME t.num > 1
      PROVE  Brings(g, e, t, Len(d) + 1)
  <2>1. g.id = t.num \/ \E j \in DOMAIN d : d[j] = [type |-> "Task", id |-> t.num]
    BY <1>4 DEF Better, DownInv
  <2>2. g.id = t.num \/ \E j \in 1 .. Len(d) + 1 : e[j] = [type |-> "Task", id |-> t.num]
    <3>1. ASSUME NEW j \in DOMAIN d, d[j] = [type |-> "Task", id |-> t.num]
          PROVE  j \in 1 .. Len(d) + 1 /\ e[j] = [type |-> "Task", id |-> t.num]
      BY <1>1, <3>1
    <3>. QED
      BY <2>1, <3>1
  <2>. QED
    BY <1>1, <2>2 DEF Brings
<1>5. Gets(g, e, t)
  BY <1>1, <1>4 DEF Gets
<1>. QED
  BY <1>3, <1>5

(* The server reads a message.                                             *)
LEMMA SpreadReads ==
  ASSUME IInv, SpreadInv, NEW c \in Client, NEW m, m = Head(up[c]), up[c] # <<>>,
         UNCHANGED cl, up' = [up EXCEPT ![c] = Tail(up[c])], Better(sv, sv'),
         m.type = "Run" /\ m.id = sv.num => ~sv'.first /\ m.run.efficacy <= sv'.best.efficacy,
         \A x \in Client : Sends(down'[x], sv') /\ Gets(cl[x], down'[x], sv')
  PROVE  SpreadInv'
<1>1. sv.best.efficacy \in Int /\ sv'.num = sv.num
  BY DEF Better, IInv, Types, Server, OptRun
<1>2. ASSUME NEW x \in Client, NEW e \in Int, Known(up[x], sv, e)
      PROVE  Known(up'[x], sv', e)
  <2>1. CASE x = c
    <3>1. PICK u, v : u = up[c] /\ v = Tail(u)
      BY Zenon
    <3>2. u \in Seq(UpMessage) /\ u # <<>> /\ up'[x] = v /\ m = Head(u) /\ Known(u, sv, e)
      BY <1>2, <2>1, <3>1 DEF IInv, Types
    <3>3. Known(v, sv', e)
      BY <1>1, <3>1, <3>2, KnownRead, Zenon
    <3>. QED
      BY <3>2, <3>3, Zenon
  <2>2. CASE x # c
    <3>1. up'[x] = up[x]
      BY <2>2 DEF IInv, Types
    <3>. QED
      BY <1>1, <1>2, <3>1, KnownBetter
  <2>. QED
    BY <2>1, <2>2
<1>3. ASSUME NEW x \in Client
      PROVE  Tells(cl[x], up'[x], sv')
  <2>1. cl[x].best.efficacy \in Int /\ cl[x].bestEfficacy \in Int
    BY ClientFacts DEF Game, OptRun
  <2>2. Tells(cl[x], up[x], sv)
    BY DEF SpreadInv, Spread
  <2>. QED
    BY <1>1, <1>2, <2>1, <2>2 DEF Tells
<1>. QED
  BY <1>3 DEF SpreadInv, Spread

(* Whatever it is.                                                         *)
LEMMA SpreadHandled ==
  ASSUME IInv, SpreadInv, NEW c \in Client, Handle_Server_Message(c)
  PROVE  SpreadInv'
<1>0. /\ sv \in Server /\ sv.best \in OptRun /\ sv.best.efficacy \in Int /\ sv.num \in Nat
      /\ UNCHANGED cl /\ up[c] # <<>> /\ up' = [up EXCEPT ![c] = Tail(up[c])]
      /\ up[c] \in Seq(UpMessage)
  BY DEF IInv, Types, Server, OptRun, Handle_Server_Message
<1>1. PICK m : m = Head(up[c])
  OBVIOUS
<1>2. m \in UpMessage
  BY <1>0, <1>1
<1>3. \A x \in Client : /\ Sends(down[x], sv) /\ Gets(cl[x], down[x], sv)
                        /\ down[x] \in Seq(DownMessage) /\ DownInv(cl[x], down[x], sv.num)
  BY ClientFacts DEF SpreadInv, Spread, ClientInv
<1>4. CASE MultiGame_ReceiveRun(m) /\ sv' # sv
  <2>1. /\ m.type = "Run" /\ m.id = sv.num /\ (sv.first \/ m.run.efficacy > sv.best.efficacy)
        /\ sv' = [sv EXCEPT !.best = m.run, !.first = FALSE]
        /\ down' = SV_BroadCastMessage([type |-> "Run", id |-> sv.num, run |-> m.run])
    BY <1>4 DEF MultiGame_ReceiveRun, IsCurrent
  <2>2. m.run \in OptRun /\ m.run.efficacy \in Int
    BY <1>2, <2>1, UpKinds DEF OptRun
  <2>3. sv'.num = sv.num /\ sv'.first = FALSE /\ sv'.best = m.run
    BY <1>0, <2>1 DEF Server
  <2>4. Better(sv, sv')
    BY <1>0, <2>1, <2>2, <2>3 DEF Better
  <2>5. ASSUME NEW x \in Client
        PROVE  Sends(down'[x], sv') /\ Gets(cl[x], down'[x], sv')
    <3>1. PICK k, d, e : /\ k = [type |-> "Run", id |-> sv'.num, run |-> sv'.best]
                         /\ d = down[x] /\ e = down'[x]
      BY Zenon
    <3>2. e = Append(d, k)
      BY <2>1, <2>3, <3>1 DEF SV_BroadCastMessage
    <3>3. d \in Seq(DownMessage) /\ DownInv(cl[x], d, sv.num) /\ Sends(d, sv)
      BY <1>3, <3>1
    <3>4. Sends(e, sv') /\ Gets(cl[x], e, sv')
      BY <1>0, <2>3, <2>4, <3>1, <3>2, <3>3, SpreadRun, Zenon
    <3>. QED
      BY <3>1, <3>4
  <2>6. ~sv'.first /\ m.run.efficacy <= sv'.best.efficacy
    BY <2>2, <2>3
  <2>. QED
    BY <1>0, <1>1, <2>4, <2>5, <2>6, SpreadReads, Zenon
<1>5. CASE /\ UNCHANGED down /\ SameBest(sv, sv')
           /\ m.type = "Run" /\ m.id = sv.num => ~sv.first /\ m.run.efficacy <= sv.best.efficacy
  <2>1. Better(sv, sv')
    BY <1>0, <1>5 DEF Better, SameBest
  <2>2. \A x \in Client : Sends(down'[x], sv') /\ Gets(cl[x], down'[x], sv')
    <3>1. \A x \in Client : Sends(down[x], sv') /\ Gets(cl[x], down[x], sv')
      BY <1>3, <1>5 DEF SameBest, Sends, Gets, Brings
    <3>. QED
      BY <1>5, <3>1
  <2>3. m.type = "Run" /\ m.id = sv.num => ~sv'.first /\ m.run.efficacy <= sv'.best.efficacy
    BY <1>5 DEF SameBest
  <2>. QED
    BY <1>0, <1>1, <2>1, <2>2, <2>3, SpreadReads, Zenon
<1>6. CASE MultiGame_ReceiveRun(m) /\ sv' = sv
  <2>1. CASE IsCurrent(m) /\ (sv.first \/ m.run.efficacy > sv.best.efficacy)
    <3>1. sv'.first = FALSE /\ sv'.best = m.run /\ m.type = "Run"
      BY <1>0, <1>6, <2>1, Zenon DEF MultiGame_ReceiveRun, Server
    <3>2. m.run.efficacy \in Int
      BY <1>2, <3>1, UpKinds DEF OptRun
    <3>. QED
      BY <1>6, <2>1, <3>1, <3>2
  <2>2. CASE ~(IsCurrent(m) /\ (sv.first \/ m.run.efficacy > sv.best.efficacy))
    <3>1. UNCHANGED down /\ SameBest(sv, sv') /\ m.type = "Run"
      BY <1>6, <2>2 DEF MultiGame_ReceiveRun, SameBest
    <3>2. m.run.efficacy \in Int
      BY <1>2, <3>1, UpKinds DEF OptRun
    <3>3. m.id = sv.num => ~sv.first /\ m.run.efficacy <= sv.best.efficacy
      BY <1>0, <2>2, <3>2 DEF IsCurrent
    <3>. QED
      BY <1>5, <3>1, <3>3
  <2>. QED
    BY <2>1, <2>2
<1>7. CASE MultiGame_ReceiveProgress(c, m) \/ MultiGame_ReceiveGoal(m) \/ IPC_Prediction_Read_Response(m)
  <2>1. UNCHANGED down /\ SameBest(sv, sv') /\ m.type # "Run"
    BY <1>0, <1>7, Zenon DEF MultiGame_ReceiveProgress, MultiGame_ReceiveGoal,
         IPC_Prediction_Read_Response, SameBest, Server
  <2>. QED
    BY <1>5, <2>1
<1>. QED
  BY <1>1, <1>4, <1>6, <1>7 DEF Handle_Server_Message

-----------------------------------------------------------------------------
(* What becomes of a client's runs when it handles a message.              *)
KeepsRuns(g, h) ==
  /\ h.id = g.id /\ h.best = g.best /\ h.bestEfficacy = g.bestEfficacy /\ h.found = g.found
  /\ h.first = g.first /\ h.state = g.state

TakesRun(g, m, h) ==
  /\ h.id = g.id /\ h.best = m.run /\ h.bestEfficacy = m.run.efficacy /\ h.found = g.found
  /\ h.first = g.first /\ h.state = g.state

LEMMA HandledRuns ==
  ASSUME NEW g \in Game, NEW m \in DownMessage, NEW h, h = Handled(g, m)
  PROVE  IF m.type = "Task" THEN /\ h.id = m.id /\ h.best = None /\ h.found = None /\ h.first
                                 /\ h.state = "Continue"
         ELSE IF m.type = "Run" /\ m.id = g.id /\ IsBetterThan(m.run, g.best) THEN TakesRun(g, m, h)
         ELSE KeepsRuns(g, h)
<1>1. CASE m.type = "Task"
  <2>1. PICK k : k = [g EXCEPT !.id = m.id, !.running = TRUE, !.first = TRUE,
                               !.iterations = 0, !.found = None, !.best = None,
                               !.state = "Continue"]
    BY Zenon
  <2>2. m.id \in Nat /\ None \in OptRun
    BY <1>1, DownKinds DEF None, OptRun
  <2>3. /\ k \in Game /\ k.id = m.id /\ k.best = None /\ k.found = None /\ k.first = TRUE
        /\ k.state = "Continue"
    BY <2>1, <2>2, Zenon DEF Game
  <2>4. h = Run_Script(k)
    BY <1>1, <2>1 DEF Handled, Receive_Optimizer_Task
  <2>5. h.id = m.id /\ h.best = None /\ h.found = None /\ h.first /\ h.state = "Continue"
    BY <2>3, <2>4, RunScript
  <2>. QED
    BY <1>1, <2>5
<1>2. CASE m.type = "Run"
  <2>1. h = Receive_Optimizer_Run(g, m)
    BY <1>2 DEF Handled
  <2>2. CASE m.id = g.id /\ IsBetterThan(m.run, g.best)
    <3>1. h = [g EXCEPT !.best = m.run, !.bestEfficacy = m.run.efficacy]
      BY <2>1, <2>2 DEF Receive_Optimizer_Run
    <3>2. TakesRun(g, m, h)
      BY <3>1 DEF TakesRun, Game
    <3>. QED
      BY <1>2, <2>2, <3>2
  <2>3. CASE ~(m.id = g.id /\ IsBetterThan(m.run, g.best))
    BY <1>2, <2>1, <2>3 DEF Receive_Optimizer_Run, KeepsRuns
  <2>. QED
    BY <2>2, <2>3
<1>3. CASE m.type = "Stop"
  <2>1. h = [g EXCEPT !.running = FALSE]
    BY <1>3 DEF Handled, Receive_Optimizer_Stop
  <2>. QED
    BY <1>3, <2>1 DEF KeepsRuns, Game
<1>4. CASE m.type = "Predict"
  <2>1. PICK d : d = [script |-> m.script, start |-> m.start, end |-> m.end, mixed |-> FALSE]
    BY Zenon
  <2>2. h = [g EXCEPT !.data = d, !.points = FALSE, !.ipc_request_finished = FALSE]
    BY <1>4, <2>1 DEF Handled, GamePrediction_Receive_IPC
  <2>. QED
    BY <1>4, <2>2 DEF KeepsRuns, Game
<1>. QED
  BY <1>1, <1>2, <1>3, <1>4, DownKinds

(* A step of one client.                                                   *)
LEMMA SpreadClient ==
  ASSUME IInv, SpreadInv, UNCHANGED sv, NEW c \in Client, NEW h, NEW e, NEW v,
         cl' = [cl EXCEPT ![c] = h], down' = [down EXCEPT ![c] = e], up' = [up EXCEPT ![c] = v],
         Spread(h, e, v, sv)
  PROVE  SpreadInv'
<1>. SUFFICES ASSUME NEW x \in Client PROVE Spread(cl'[x], down'[x], up'[x], sv)
  BY DEF SpreadInv
<1>1. CASE x = c
  BY <1>1 DEF IInv, Types
<1>2. CASE x # c
  BY <1>2 DEF IInv, Types, SpreadInv
<1>. QED
  BY <1>1, <1>2

(* What becomes of the server's best run when a client reads a message.    *)
LEMMA GetsRead ==
  ASSUME NEW g \in Game, NEW d \in Seq(DownMessage), d # <<>>, NEW s \in Server,
         s.num > 1 /\ ~s.first => s.best.task = s.num,
         BestInv(g), DownInv(g, d, s.num), Gets(g, d, s),
         NEW m, m = Head(d), NEW h, h = Handled(g, m), NEW e, e = Tail(d)
  PROVE  Gets(h, e, s)
<1>0. /\ Len(d) \in Nat \ {0} /\ DOMAIN d = 1 .. Len(d) /\ DOMAIN e = 1 .. Len(d) - 1
      /\ m = d[1] /\ \A i \in DOMAIN e : e[i] = d[i + 1]
  OBVIOUS
<1>1. m \in DownMessage /\ g.best \in OptRun /\ g.id \in Nat /\ s.num \in Nat /\ s.best \in OptRun
  BY <1>0 DEF Game, Server
<1>2. g.best.efficacy \in Int /\ s.best.efficacy \in Int /\ None.task = 0
  BY <1>1 DEF OptRun, None
<1>. SUFFICES ASSUME ~s.first, s.num > 1
              PROVE  \/ h.best.task = s.num /\ h.best.efficacy >= s.best.efficacy
                     \/ \E i \in DOMAIN e : Brings(h, e, s, i)
  BY DEF Gets
<1>3. ASSUME g.id = s.num
      PROVE  /\ m.type # "Task" /\ h.id = s.num
             /\ \/ h.best = g.best
                \/ m.type = "Run" /\ h.best = m.run /\ m.run.task = s.num /\ IsBetterThan(m.run, g.best)
  <2>1. m.type # "Task"
    <3>1. m.type = "Task" => m.id \in Nat /\ g.id < m.id /\ m.id <= s.num
      BY <1>0, <1>1, DownKinds, SMTT(30) DEF DownInv
    <3>. QED
      BY <1>1, <1>3, <3>1
  <2>2. m.type = "Run" => m.run.task = m.id
    BY <1>0, SMTT(30) DEF DownInv
  <2>3. \/ m.type = "Run" /\ m.id = g.id /\ IsBetterThan(m.run, g.best) /\ TakesRun(g, m, h)
        \/ KeepsRuns(g, h)
    BY <1>1, <2>1, HandledRuns
  <2>. QED
    BY <1>3, <2>1, <2>2, <2>3 DEF TakesRun, KeepsRuns
<1>4. CASE g.best.task = s.num /\ g.best.efficacy >= s.best.efficacy
  <2>1. g.id = s.num /\ g.best # None
    BY <1>2, <1>4 DEF BestInv
  <2>2. CASE h.best = g.best
    BY <1>4, <2>2
  <2>3. CASE m.type = "Run" /\ h.best = m.run /\ m.run.task = s.num /\ IsBetterThan(m.run, g.best)
    <3>1. m.run.efficacy \in Int
      BY <1>1, <2>3, DownKinds DEF OptRun
    <3>2. m.run.efficacy > g.best.efficacy
      BY <2>1, <2>3 DEF IsBetterThan
    <3>. QED
      BY <1>2, <1>4, <2>3, <3>1, <3>2, SMTT(30)
  <2>. QED
    BY <1>3, <2>1, <2>2, <2>3
<1>5. ASSUME NEW i \in DOMAIN d, Brings(g, d, s, i)
      PROVE  \/ h.best.task = s.num /\ h.best.efficacy >= s.best.efficacy
             \/ \E k \in DOMAIN e : Brings(h, e, s, k)
  <2>1. CASE i = 1
    <3>1. m = [type |-> "Run", id |-> s.num, run |-> s.best]
      BY <1>0, <1>5, <2>1 DEF Brings
    <3>2. m.type = "Run" /\ m.id = s.num /\ m.run = s.best /\ m.type # "Task"
      BY <3>1, SMTT(30)
    <3>3. g.id = s.num
      <4>1. ASSUME NEW j \in 1 .. i, d[j] = [type |-> "Task", id |-> s.num]
            PROVE  FALSE
        <5>1. j = 1
          BY <2>1
        <5>. QED
          BY <1>0, <3>2, <4>1, <5>1
      <4>. QED
        BY <1>5, <4>1 DEF Brings
    <3>4. CASE IsBetterThan(m.run, g.best)
      <4>1. h.best = s.best
        BY <1>1, <3>2, <3>3, <3>4, HandledRuns DEF TakesRun
      <4>. QED
        BY <1>2, <4>1
    <3>5. CASE ~IsBetterThan(m.run, g.best)
      <4>1. h.best = g.best /\ g.best # None /\ s.best.efficacy <= g.best.efficacy
        BY <1>2, <1>3, <3>2, <3>3, <3>5 DEF IsBetterThan
      <4>. QED
        BY <1>2, <3>3, <4>1 DEF BestInv
    <3>. QED
      BY <3>4, <3>5
  <2>2. CASE i # 1
    <3>1. i - 1 \in DOMAIN e /\ e[i - 1] = d[i]
      BY <1>0, <2>2
    <3>2. h.id = s.num \/ \E j \in 1 .. (i - 1) : e[j] = [type |-> "Task", id |-> s.num]
      <4>1. ASSUME NEW j \in 1 .. i, d[j] = [type |-> "Task", id |-> s.num]
            PROVE  h.id = s.num \/ \E k \in 1 .. (i - 1) : e[k] = [type |-> "Task", id |-> s.num]
        <5>1. CASE j = 1
          <6>1. m.type = "Task" /\ m.id = s.num
            BY <1>0, <4>1, <5>1, SMTT(30)
          <6>. QED
            BY <1>1, <6>1, HandledRuns
        <5>2. CASE j # 1
          <6>1. j - 1 \in 1 .. (i - 1) /\ e[j - 1] = d[j]
            BY <1>0, <4>1, <5>2
          <6>. QED
            BY <4>1, <6>1
        <5>. QED
          BY <5>1, <5>2, Zenon
      <4>. QED
        BY <1>3, <1>5, <4>1 DEF Brings
    <3>3. Brings(h, e, s, i - 1)
      BY <1>5, <3>1, <3>2 DEF Brings
    <3>. QED
      BY <3>1, <3>3
  <2>. QED
    BY <2>1, <2>2
<1>. QED
  BY <1>4, <1>5 DEF Gets

(* The message that is read, and those that stay.                          *)
LEMMA ReadFirst ==
  ASSUME NEW d \in Seq(DownMessage), d # <<>>, NEW m, m = Head(d), NEW e, e = Tail(d)
  PROVE  /\ 1 \in DOMAIN d /\ m = d[1] /\ m \in DownMessage
         /\ \A i \in DOMAIN e : i + 1 \in DOMAIN d /\ e[i] = d[i + 1]
<1>1. /\ Len(d) \in Nat \ {0} /\ DOMAIN d = 1 .. Len(d) /\ DOMAIN e = 1 .. Len(d) - 1
      /\ m = d[1] /\ \A i \in DOMAIN e : e[i] = d[i + 1]
  OBVIOUS
<1>2. 1 \in DOMAIN d /\ \A i \in DOMAIN e : i + 1 \in DOMAIN d
  BY <1>1
<1>. QED
  BY <1>1, <1>2

(* A client reads a message.                                               *)
LEMMA SpreadMessage ==
  ASSUME IInv, SpreadInv, NEW c \in Client, Handle_Client_Message(c)
  PROVE  SpreadInv'
<1>1. PICK g, d, u : g = cl[c] /\ d = down[c] /\ u = up[c]
  OBVIOUS
<1>2. PICK m, h, e : m = Head(d) /\ h = Handled(g, m) /\ e = Tail(d)
  BY Zenon
<1>3. /\ UNCHANGED sv /\ cl' = [cl EXCEPT ![c] = h] /\ down' = [down EXCEPT ![c] = e]
      /\ up' = [up EXCEPT ![c] = u] /\ d # <<>>
  BY <1>1, <1>2 DEF Handle_Client_Message, Handled, IInv, Types
<1>4. /\ g \in Game /\ d \in Seq(DownMessage) /\ u \in Seq(UpMessage) /\ sv \in Server
      /\ DownInv(g, d, sv.num) /\ BestInv(g) /\ Spread(g, d, u, sv)
      /\ sv.num > 1 /\ ~sv.first => sv.best.task = sv.num
  BY <1>1, ClientFacts DEF ClientInv, IInv, Types, ServerInv, SpreadInv
<1>5. Gets(h, e, sv)
  BY <1>2, <1>3, <1>4, GetsRead, Zenon DEF Spread
<1>7. /\ 1 \in DOMAIN d /\ m = d[1] /\ m \in DownMessage
      /\ \A i \in DOMAIN e : i + 1 \in DOMAIN d /\ e[i] = d[i + 1]
  BY <1>2, <1>3, <1>4, ReadFirst, Zenon
<1>8. Sends(e, sv)
  BY <1>4, <1>7 DEF Spread, Sends
<1>9. Found(g) /\ Tells(g, u, sv) /\ g.id \in Nat /\ g.best \in OptRun /\ g.found \in OptRun
  BY <1>4 DEF Spread, Game
<1>10. Found(h) /\ Tells(h, u, sv)
  <2>1. CASE m.type = "Task"
    BY <1>2, <1>4, <1>7, <2>1, HandledRuns DEF Found, Tells
  <2>2. CASE m.type = "Run" /\ m.id = g.id /\ IsBetterThan(m.run, g.best)
    <3>1. TakesRun(g, m, h)
      BY <1>2, <1>4, <1>7, <2>2, HandledRuns
    <3>2. m.run.efficacy \in Int /\ m.run.task = g.id /\ g.best.efficacy \in Int /\ g.found.efficacy \in Int
      BY <1>4, <1>7, <1>9, <2>2, DownKinds DEF OptRun, DownInv
    <3>3. g.id > 0 => m.run # None
      BY <3>2, SMTT(30) DEF None
    <3>4. g.found # None /\ g.id > 0 => g.found.efficacy <= m.run.efficacy
      BY <1>9, <2>2, <3>2 DEF Found, IsBetterThan
    <3>5. Found(h)
      BY <1>9, <3>1, <3>3, <3>4 DEF Found, TakesRun
    <3>6. g.id = sv.num => ~sv.first /\ m.run.efficacy <= sv.best.efficacy
      BY <1>4, <1>7, <2>2 DEF Spread, Sends
    <3>7. g.id = sv.num => Known(u, sv, m.run.efficacy)
      BY <3>6 DEF Known
    <3>8. Tells(h, u, sv)
      BY <3>1, <3>7 DEF Tells, TakesRun
    <3>. QED
      BY <3>5, <3>8
  <2>3. CASE m.type # "Task" /\ ~(m.type = "Run" /\ m.id = g.id /\ IsBetterThan(m.run, g.best))
    <3>1. KeepsRuns(g, h)
      BY <1>2, <1>4, <1>7, <2>3, HandledRuns
    <3>. QED
      BY <1>9, <3>1 DEF KeepsRuns, Found, Tells
  <2>. QED
    BY <2>1, <2>2, <2>3
<1>11. Spread(h, e, u, sv)
  BY <1>5, <1>8, <1>10 DEF Spread
<1>. QED
  BY <1>3, <1>11, SpreadClient, Zenon

(* A client goes on and its runs are the same, whatever it sends.          *)
LEMMA SpreadKept ==
  ASSUME NEW g \in Game, NEW d, NEW u \in Seq(UpMessage), NEW s, Spread(g, d, u, s),
         NEW h, KeepsRuns(g, h), NEW ms \in Seq(UpMessage), NEW v, v = u \o ms
  PROVE  Spread(h, d, v, s)
<1>1. Found(h) /\ Sends(d, s)
  BY DEF Spread, Found, KeepsRuns
<1>2. Gets(h, d, s)
  BY Zenon DEF Spread, Gets, Brings, KeepsRuns
<1>3. g.best.efficacy \in Int /\ g.bestEfficacy \in Int
  BY DEF Game, OptRun
<1>4. /\ Known(u, s, g.best.efficacy) => Known(v, s, g.best.efficacy)
      /\ Known(u, s, g.bestEfficacy) => Known(v, s, g.bestEfficacy)
  BY <1>3, KnownMore, Zenon
<1>5. Tells(h, v, s)
  BY <1>4 DEF Spread, Tells, KeepsRuns
<1>. QED
  BY <1>1, <1>2, <1>5 DEF Spread

(* A client collects the points of a prediction, and sends them.           *)
LEMMA SpreadPoints ==
  ASSUME IInv, SpreadInv, NEW c \in Client, GamePrediction_Frame_Hook(c)
  PROVE  SpreadInv'
<1>1. PICK g, d, u : g = cl[c] /\ d = down[c] /\ u = up[c]
  OBVIOUS
<1>2. /\ g \in Game /\ u \in Seq(UpMessage) /\ g.data \in Line /\ Spread(g, d, u, sv)
      /\ UNCHANGED sv /\ down' = [down EXCEPT ![c] = d]
  BY <1>1 DEF GamePrediction_Frame_Hook, IInv, Types, Game, SpreadInv
<1>3. CASE cl' = [cl EXCEPT ![c].points = TRUE] /\ UNCHANGED up
  <2>1. PICK h : h = [g EXCEPT !.points = TRUE]
    BY Zenon
  <2>2. cl' = [cl EXCEPT ![c] = h] /\ KeepsRuns(g, h) /\ up' = [up EXCEPT ![c] = u]
    BY <1>1, <1>2, <1>3, <2>1 DEF KeepsRuns, Game, IInv, Types
  <2>3. <<>> \in Seq(UpMessage) /\ u = u \o <<>>
    BY <1>2
  <2>4. Spread(h, d, u, sv)
    BY <1>2, <2>2, <2>3, SpreadKept, Zenon
  <2>. QED
    BY <1>2, <2>2, <2>4, SpreadClient, Zenon
<1>4. CASE /\ cl' = [cl EXCEPT ![c].ipc_request_finished = TRUE]
           /\ CL_SendMessages(c, <<[type |-> "Predict", data |-> cl[c].data]>>)
  <2>1. PICK h, m, v : /\ h = [g EXCEPT !.ipc_request_finished = TRUE]
                       /\ m = [type |-> "Predict", data |-> g.data] /\ v = u \o <<m>>
    BY Zenon
  <2>2. /\ cl' = [cl EXCEPT ![c] = h] /\ KeepsRuns(g, h)
        /\ up' = [up EXCEPT ![c] = v]
    BY <1>1, <1>2, <1>4, <2>1 DEF KeepsRuns, Game, IInv, Types, CL_SendMessages
  <2>3. m \in UpMessage
    BY <1>2, <2>1 DEF UpMessage
  <2>4. <<m>> \in Seq(UpMessage)
    BY <2>3
  <2>5. Spread(h, d, v, sv)
    BY <1>2, <2>1, <2>2, <2>4, SpreadKept, Zenon
  <2>. QED
    BY <1>2, <2>2, <2>5, SpreadClient, Zenon
<1>. QED
  BY <1>3, <1>4 DEF GamePrediction_Frame_Hook

(* An iteration ends: a better run goes with the next report, and any      *)
(* other one is no better than what the server knows of.                   *)
LEMMA SpreadIterates ==
  ASSUME IInv, SpreadInv, NEW c \in Client, NEW e \in Efficacy, OnRunnerFrame(c, e)
  PROVE  SpreadInv'
<1>1. PICK g, run, d, u : /\ g = cl[c] /\ run = [task |-> g.id, efficacy |-> e]
                          /\ d = down[c] /\ u = up[c]
  BY Zenon
<1>2. PICK h : Iterated(g, run, h) /\ cl' = [cl EXCEPT ![c] = h]
  BY <1>1, RunnerGame
<1>3. g \in Game /\ run \in OptRun /\ run.task = g.id /\ g.state = "Continue" /\ Spread(g, d, u, sv)
  <2>1. g \in Game /\ run \in OptRun /\ run.task = g.id
    BY <1>1, RunnerGame
  <2>2. g.state = "Continue" /\ Spread(g, d, u, sv)
    BY <1>1 DEF OnRunnerFrame, SpreadInv
  <2>. QED
    BY <2>1, <2>2
<1>4. UNCHANGED sv /\ down' = [down EXCEPT ![c] = d] /\ up' = [up EXCEPT ![c] = u]
  BY <1>1 DEF OnRunnerFrame, IInv, Types
<1>5. /\ g.best \in OptRun /\ g.found \in OptRun /\ g.id \in Nat /\ run.efficacy \in Int
      /\ g.best.efficacy \in Int /\ g.found.efficacy \in Int /\ None.task = 0
      /\ sv.best.efficacy \in Int /\ sv.num \in Nat
      /\ BestInv(g)
  BY <1>1, <1>3, ClientFacts, Zenon DEF Game, OptRun, None, ClientInv, IInv, Types, Server
<1>6. Found(h)
  <2>1. h.found # None => h.found.task = h.id
    BY <1>2, <1>3 DEF Iterated, Spread, Found
  <2>2. ASSUME h.found # None, h.id > 0
        PROVE  h.best # None /\ h.found.efficacy <= h.best.efficacy
    <3>1. g.id > 0 /\ run # None
      <4>1. h.id = g.id
        BY <1>2, Zenon DEF Iterated
      <4>2. g.id > 0 /\ g.id # 0
        BY <1>5, <2>2, <4>1
      <4>. QED
        BY <1>3, <1>5, <4>2, Zenon
    <3>2. g.found # None => g.best # None /\ g.found.efficacy <= g.best.efficacy
      BY <1>3, <3>1 DEF Spread, Found
    <3>3. CASE IsBetterThan(run, g.best)
      <4>1. h.best = run
        BY <1>2, <3>3 DEF Iterated
      <4>2. h.found = run \/ (h.found = g.found /\ g.found # None)
        BY <1>2, <2>2 DEF Iterated
      <4>. QED
        BY <1>5, <3>1, <3>2, <3>3, <4>1, <4>2 DEF IsBetterThan
    <3>4. CASE ~IsBetterThan(run, g.best)
      <4>1. h.best = g.best /\ g.best # None /\ run.efficacy <= g.best.efficacy
        BY <1>2, <1>5, <3>4 DEF Iterated, IsBetterThan
      <4>2. h.found = run \/ (h.found = g.found /\ g.found # None)
        BY <1>2, <2>2 DEF Iterated
      <4>. QED
        BY <3>2, <4>1, <4>2
    <3>. QED
      BY <3>3, <3>4
  <2>. QED
    BY <2>1, <2>2 DEF Found
<1>7. Gets(h, d, sv)
  <2>. SUFFICES ASSUME ~sv.first, sv.num > 1
                PROVE  \/ h.best.task = sv.num /\ h.best.efficacy >= sv.best.efficacy
                       \/ \E i \in DOMAIN d : Brings(h, d, sv, i)
    BY DEF Gets
  <2>1. CASE g.best.task = sv.num /\ g.best.efficacy >= sv.best.efficacy
    <3>1. g.best # None /\ g.id = sv.num
      BY <1>5, <2>1 DEF BestInv
    <3>2. h.best = g.best \/ (h.best = run /\ run.efficacy > g.best.efficacy)
      BY <1>2, <3>1 DEF Iterated, IsBetterThan
    <3>. QED
      BY <1>3, <1>5, <2>1, <3>1, <3>2, SMTT(30)
  <2>2. \A i \in DOMAIN d : Brings(g, d, sv, i) => Brings(h, d, sv, i)
    BY <1>2 DEF Iterated, Brings
  <2>. QED
    BY <1>3, <2>1, <2>2 DEF Spread, Gets
<1>8. Tells(h, u, sv)
  BY <1>2, <1>3 DEF Spread, Tells, Iterated, IsBetterThan
<1>9. Spread(h, d, u, sv)
  BY <1>3, <1>6, <1>7, <1>8 DEF Spread
<1>. QED
  BY <1>2, <1>4, <1>9, SpreadClient, Zenon

(* A client starts its next iteration, and reports, or ends its search.    *)
LEMMA SpreadEnds ==
  ASSUME IInv, SpreadInv, NEW c \in Client, Game_Opt_Ended(c)
  PROVE  SpreadInv'
<1>1. PICK g, d, u : g = cl[c] /\ d = down[c] /\ u = up[c]
  OBVIOUS
<1>2. /\ g \in Game /\ u \in Seq(UpMessage) /\ Spread(g, d, u, sv)
      /\ UNCHANGED sv /\ down' = [down EXCEPT ![c] = d]
  BY <1>1 DEF Game_Opt_Ended, IInv, Types, SpreadInv
<1>3. ASSUME NEW h, cl' = [cl EXCEPT ![c] = h], Ended(g, h), UNCHANGED up
      PROVE  SpreadInv'
  <2>1. /\ h.id = g.id /\ h.first = g.first /\ h.best = g.best /\ h.state = g.state
        /\ h.found = g.found /\ h.bestEfficacy = g.bestEfficacy
    BY <1>2, <1>3, EndedGame
  <2>2. KeepsRuns(g, h) /\ up' = [up EXCEPT ![c] = u]
    BY <1>1, <1>3, <2>1 DEF KeepsRuns, IInv, Types
  <2>3. <<>> \in Seq(UpMessage) /\ u = u \o <<>>
    BY <1>2
  <2>4. Spread(h, d, u, sv)
    BY <1>2, <2>2, <2>3, SpreadKept, Zenon
  <2>. QED
    BY <1>2, <1>3, <2>2, <2>4, SpreadClient, Zenon
<1>4. CASE cl[c].state = "NewIteration" /\ GameOpt_NewIteration(c)
  <2>1. /\ g.iterations \in Nat /\ g.best \in OptRun /\ g.bestEfficacy \in Int
        /\ g.best.efficacy \in Int
    BY <1>2 DEF Game, OptRun
  <2>2. PICK b \in Int : b = IF g.first \/ g.best.efficacy > g.bestEfficacy
                             THEN g.best.efficacy ELSE g.bestEfficacy
    BY <2>1
  <2>3. PICK n \in Nat : n = g.iterations + 1
    BY <2>1
  <2>4. PICK k : k = [g EXCEPT !.first = FALSE, !.iterations = n, !.bestEfficacy = b,
                               !.state = "Continue"]
    OBVIOUS
  <2>5. /\ k \in Game /\ k.id = g.id /\ k.best = g.best /\ k.found = g.found
        /\ k.bestEfficacy = b
    BY <1>2, <2>4, Zenon DEF Game
  <2>6. PICK h, ms, v : h = Run_Script(k) /\ ms = Report(g) /\ v = u \o ms
    BY Zenon
  <2>7. h.id = g.id /\ h.best = g.best /\ h.found = g.found /\ h.bestEfficacy = b
    BY <2>5, <2>6, RunScript
  <2>8. cl' = [cl EXCEPT ![c] = h]
    <3>1. k = [g EXCEPT !.first = FALSE, !.iterations = @ + 1,
                 !.bestEfficacy = IF g.first \/ g.best.efficacy > g.bestEfficacy
                                  THEN g.best.efficacy ELSE @, !.state = "Continue"]
      BY <2>2, <2>3, <2>4
    <3>. QED
      BY <1>1, <1>4, <2>6, <3>1 DEF GameOpt_NewIteration
  <2>9. up' = [up EXCEPT ![c] = v]
    BY <1>1, <1>4, <2>6 DEF GameOpt_NewIteration, CL_SendMessages, Report,
                           ProgressOf, GoalOf, RunOf, IInv, Types
  <2>10. ms \in Seq(UpMessage)
    BY <1>2, <2>6, ReportParts
  <2>11. ASSUME g.id = sv.num
         PROVE  Known(v, sv, g.best.efficacy) /\ Known(v, sv, b)
    <3>1. CASE g.first \/ g.best.efficacy > g.bestEfficacy
      <4>1. \E j \in DOMAIN ms : ms[j] = RunOf(g)
        <5>1. /\ g.first => DOMAIN ms = 1 .. 3 /\ ms[3] = RunOf(g)
              /\ ~g.first /\ g.best.efficacy > g.bestEfficacy =>
                   DOMAIN ms = 1 .. 2 /\ ms[2] = RunOf(g)
          BY <1>2, <2>6, ReportParts, Zenon
        <5>. QED
          BY <3>1, <5>1
      <4>2. /\ RunOf(g).type = "Run" /\ RunOf(g).id = sv.num
            /\ RunOf(g).run.efficacy >= g.best.efficacy
        BY <2>1, <2>11 DEF RunOf
      <4>3. Known(ms, sv, g.best.efficacy)
        BY <4>1, <4>2 DEF Known
      <4>4. Known(v, sv, g.best.efficacy)
        <5>1. PICK f \in Int : f = g.best.efficacy
          BY <2>1
        <5>2. Known(ms, sv, f)
          BY <4>3, <5>1
        <5>3. Known(v, sv, f)
          BY <1>2, <2>6, <2>10, <5>2, KnownMore, Zenon
        <5>. QED
          BY <5>1, <5>3
      <4>. QED
        BY <2>2, <3>1, <4>4
    <3>2. CASE ~(g.first \/ g.best.efficacy > g.bestEfficacy)
      <4>1. Known(u, sv, g.bestEfficacy) /\ b = g.bestEfficacy /\ g.best.efficacy <= b
        <5>1. ~g.first /\ ~(g.best.efficacy > g.bestEfficacy)
          BY <3>2, Zenon
        <5>2. Known(u, sv, g.bestEfficacy)
          BY <1>2, <2>11, <5>1, Zenon DEF Spread, Tells
        <5>3. b = g.bestEfficacy /\ g.best.efficacy <= b
          BY <2>1, <2>2, <5>1
        <5>. QED
          BY <5>2, <5>3, Zenon
      <4>2. Known(v, sv, b)
        BY <1>2, <2>6, <2>10, <4>1, KnownMore, Zenon
      <4>3. sv.best.efficacy \in Int /\ v \in Seq(UpMessage)
        BY <1>2, <2>6, <2>10 DEF IInv, Types, Server, OptRun
      <4>4. Known(v, sv, g.best.efficacy)
        BY <2>1, <4>1, <4>2, <4>3, KnownWorse
      <4>. QED
        BY <4>2, <4>4
    <3>. QED
      BY <3>1, <3>2
  <2>12. Tells(h, v, sv)
    BY <2>7, <2>11 DEF Tells
  <2>13. Found(h) /\ Sends(d, sv)
    BY <1>2, <2>7 DEF Spread, Found
  <2>14. Gets(h, d, sv)
    BY <1>2, <2>7 DEF Spread, Gets, Brings
  <2>15. Spread(h, d, v, sv)
    BY <2>12, <2>13, <2>14 DEF Spread
  <2>. QED
    BY <1>2, <2>8, <2>9, <2>15, SpreadClient, Zenon
<1>. QED
  BY <1>1, <1>3, <1>4, EndsOrGoesOn, Zenon

-----------------------------------------------------------------------------
(* At the start there are no runs.                                         *)
LEMMA SpreadInit ==
  ASSUME Init
  PROVE  SpreadInv
<1>. SUFFICES ASSUME NEW c \in Client PROVE Spread(cl[c], down[c], up[c], sv)
  BY Zenon DEF SpreadInv
<1>1. cl[c].id = 0 /\ cl[c].found = None /\ down[c] = <<>> /\ sv.num = 1
  BY DEF Init
<1>. QED
  <2>1. Sends(down[c], sv)
    BY <1>1 DEF Sends
  <2>2. Gets(cl[c], down[c], sv)
    BY <1>1 DEF Gets
  <2>3. Found(cl[c]) /\ Tells(cl[c], up[c], sv)
    BY <1>1 DEF Found, Tells
  <2>. QED
    BY <2>1, <2>2, <2>3 DEF Spread

(* Every step keeps it.                                                    *)
LEMMA SpreadNext ==
  ASSUME IInv, SpreadInv, [Next]_vars
  PROVE  SpreadInv'
<1>1. CASE UNCHANGED <<sv, cl, down, up>>
  BY <1>1 DEF SpreadInv
<1>2. CASE Server_Frame
  BY <1>2, SpreadRequest, SpreadFrame, SpreadUser, SpreadHandled DEF Server_Frame
<1>3. CASE User \/ \E f \in 1 .. LastFrame : Arrive(f)
  BY <1>3, SpreadUser
<1>4. ASSUME NEW c \in Client, Client_Frame(c)
      PROVE  SpreadInv'
  BY <1>4, SpreadMessage, SpreadPoints, SpreadIterates, SpreadEnds DEF Client_Frame
<1>. QED
  BY <1>1, <1>2, <1>3, <1>4 DEF Next, vars

-----------------------------------------------------------------------------
(* While the search of the server runs, a task follows every Stop that is  *)
(* on its way to a client, and a client that has the task and a run to     *)
(* report goes on.                                                         *)
Lasts(g, d, s) ==
  s.running =>
    /\ \A i \in DOMAIN d : d[i].type = "Stop" => \E j \in DOMAIN d : j > i /\ d[j].type = "Task"
    /\ g.id = s.num => g.running \/ g.state # "NewIteration"

LastsInv == \A c \in Client : Lasts(cl[c], down[c], sv)

(* A task or a run is sent to a client.                                    *)
LEMMA LastsSent ==
  ASSUME NEW g \in Game, NEW d \in Seq(DownMessage), NEW s \in Server, NEW t \in Server, NEW m,
         \/ m.type = "Run" /\ Lasts(g, d, s) /\ s.running = t.running /\ s.num = t.num
         \/ m.type = "Task" /\ g.id # t.num,
         NEW e, e = Append(d, m)
  PROVE  Lasts(g, e, t)
<1>1. /\ Len(d) \in Nat /\ DOMAIN d = 1 .. Len(d) /\ DOMAIN e = 1 .. Len(d) + 1
      /\ e[Len(d) + 1] = m /\ \A i \in DOMAIN d : e[i] = d[i]
  OBVIOUS
<1>2. /\ Len(d) + 1 \in DOMAIN e /\ \A i \in DOMAIN d : i \in DOMAIN e /\ i < Len(d) + 1
      /\ \A i \in DOMAIN e : i \in DOMAIN d \/ i = Len(d) + 1
  BY <1>1
<1>3. CASE m.type = "Task" /\ g.id # t.num
  <2>1. ASSUME NEW i \in DOMAIN e, e[i].type = "Stop"
        PROVE  \E j \in DOMAIN e : j > i /\ e[j].type = "Task"
    <3>1. i # Len(d) + 1
      BY <1>1, <1>3, <2>1
    <3>2. Len(d) + 1 > i
      BY <1>1, <1>2, <3>1
    <3>. QED
      BY <1>1, <1>2, <1>3, <3>2
  <2>. QED
    BY <1>3, <2>1 DEF Lasts
<1>4. CASE m.type = "Run" /\ Lasts(g, d, s) /\ s.running = t.running /\ s.num = t.num
  <2>1. ASSUME t.running, NEW i \in DOMAIN e, e[i].type = "Stop"
        PROVE  \E j \in DOMAIN e : j > i /\ e[j].type = "Task"
    <3>1. i \in DOMAIN d /\ d[i].type = "Stop"
      BY <1>1, <1>2, <1>4, <2>1
    <3>2. PICK j \in DOMAIN d : j > i /\ d[j].type = "Task"
      BY <1>4, <2>1, <3>1 DEF Lasts
    <3>. QED
      BY <1>1, <1>2, <3>2
  <2>. QED
    BY <1>4, <2>1 DEF Lasts
<1>. QED
  BY <1>3, <1>4

(* The server and its user.                                                *)
LEMMA LastsServer ==
  ASSUME IInv, IInv', LastsInv, Server_Frame \/ User \/ \E f \in 1 .. LastFrame : Arrive(f)
  PROVE  LastsInv'
<1>1. /\ sv \in Server /\ sv' \in Server /\ sv.num \in Nat /\ UNCHANGED cl
      /\ \A c \in Client : /\ cl[c] \in Game /\ down[c] \in Seq(DownMessage)
                           /\ DownInv(cl[c], down[c], sv.num)
  <2>1. sv \in Server /\ sv' \in Server /\ sv.num \in Nat
    BY Zenon DEF IInv, Types, Server
  <2>2. UNCHANGED cl
    BY Zenon DEF Server_Frame, IPC_Prediction_Frame_Hook, MultiGameOpt_Frame, No_Command,
                 Handle_Server_Message, User, Edit, Cmd_TAS_Optimizer_Accept,
                 Optimizer_Var_Updated, Skip, MayAct, Arrive
  <2>. QED
    BY <2>1, <2>2, ClientFacts DEF ClientInv
<1>2. CASE ~sv'.running
  BY <1>2 DEF LastsInv, Lasts
<1>3. CASE UNCHANGED down /\ sv'.num = sv.num /\ sv'.running = sv.running
  <2>1. ASSUME NEW c \in Client PROVE Lasts(cl[c], down[c], sv')
    BY <1>3, SMT DEF LastsInv, Lasts
  <2>. QED
    BY <1>1, <1>3, <2>1, Zenon DEF LastsInv
<1>4. CASE SV_StartMultiGameOpt
  <2>1. PICK m : m = [type |-> "Task", id |-> sv.num + 1]
    BY Zenon
  <2>2. /\ m.type = "Task" /\ sv'.num = sv.num + 1
        /\ \A c \in Client : down'[c] = Append(down[c], m)
    BY <1>1, <1>4, <2>1, Zenon DEF SV_StartMultiGameOpt, SV_BroadCastMessage, Server
  <2>3. ASSUME NEW c \in Client PROVE cl[c].id # sv'.num
    BY <1>1, <2>2 DEF DownInv, Game
  <2>4. ASSUME NEW c \in Client PROVE Lasts(cl[c], down'[c], sv')
    BY <1>1, <2>2, <2>3, LastsSent, Zenon
  <2>. QED
    BY <1>1, <2>4 DEF LastsInv
<1>5. ASSUME NEW r, sv' = [sv EXCEPT !.best = r, !.first = FALSE],
             down' = SV_BroadCastMessage([type |-> "Run", id |-> sv.num, run |-> r])
      PROVE  LastsInv'
  <2>1. PICK m : m = [type |-> "Run", id |-> sv.num, run |-> r]
    BY Zenon
  <2>2. /\ m.type = "Run" /\ sv'.num = sv.num /\ sv'.running = sv.running
        /\ \A c \in Client : down'[c] = Append(down[c], m)
    BY <1>1, <1>5, <2>1, Zenon DEF SV_BroadCastMessage, Server
  <2>3. ASSUME NEW c \in Client PROVE Lasts(cl[c], down'[c], sv')
    BY <1>1, <2>2, LastsSent, Zenon DEF LastsInv
  <2>. QED
    BY <1>1, <2>3 DEF LastsInv
<1>6. CASE IPC_Prediction_Frame_Hook
  BY <1>1, <1>2, <1>3, <1>6, Zenon DEF IPC_Prediction_Frame_Hook, Request, Stopped, Server
<1>7. CASE MultiGameOpt_Frame
  BY <1>1, <1>2, <1>3, <1>4, <1>7, Zenon DEF MultiGameOpt_Frame, Stopped, Server
<1>8. ASSUME NEW c \in Client, Handle_Server_Message(c)
      PROVE  LastsInv'
  <2>1. CASE MultiGame_ReceiveRun(Head(up[c]))
    BY <1>3, <1>5, <2>1, Zenon DEF MultiGame_ReceiveRun
  <2>2. CASE \/ MultiGame_ReceiveProgress(c, Head(up[c])) \/ MultiGame_ReceiveGoal(Head(up[c]))
             \/ IPC_Prediction_Read_Response(Head(up[c]))
    BY <1>1, <1>3, <2>2, Zenon DEF MultiGame_ReceiveProgress, MultiGame_ReceiveGoal,
                            IPC_Prediction_Read_Response, Server
  <2>. QED
    BY <1>8, <2>1, <2>2 DEF Handle_Server_Message
<1>9. CASE User \/ No_Command \/ \E f \in 1 .. LastFrame : Arrive(f)
  BY <1>1, <1>2, <1>3, <1>9, Zenon DEF User, Edit, Cmd_TAS_Optimizer_Accept, Optimizer_Var_Updated,
                                Skip, No_Command, Arrive, Stopped, Server
<1>. QED
  BY <1>6, <1>7, <1>8, <1>9 DEF Server_Frame

(* A client has read its first message m.                                  *)
LEMMA LastsRead ==
  ASSUME NEW g \in Game, NEW d \in Seq(DownMessage), d # <<>>, NEW s \in Server,
         DownInv(g, d, s.num), Lasts(g, d, s),
         NEW m, m = Head(d), NEW h, h = Handled(g, m), NEW e, e = Tail(d)
  PROVE  Lasts(h, e, s)
<1>1. /\ Len(d) \in Nat \ {0} /\ DOMAIN d = 1 .. Len(d) /\ DOMAIN e = 1 .. Len(d) - 1
      /\ m = d[1] /\ \A i \in DOMAIN e : e[i] = d[i + 1]
  OBVIOUS
<1>2. /\ 1 \in DOMAIN d /\ \A i \in DOMAIN e : i + 1 \in DOMAIN d
      /\ \A j \in DOMAIN d : j > 1 => j - 1 \in DOMAIN e /\ e[j - 1] = d[j]
  BY <1>1
<1>3. ASSUME s.running, NEW i \in DOMAIN e, e[i].type = "Stop"
      PROVE  \E j \in DOMAIN e : j > i /\ e[j].type = "Task"
  <2>1. PICK j \in DOMAIN d : j > i + 1 /\ d[j].type = "Task"
    BY <1>1, <1>2, <1>3 DEF Lasts
  <2>2. j - 1 > i /\ j > 1
    BY <1>1, <1>3, <2>1
  <2>. QED
    BY <1>2, <2>1, <2>2
<1>4. ASSUME s.running, h.id = s.num PROVE h.running \/ h.state # "NewIteration"
  <2>1. m \in DownMessage /\ s.num \in Nat /\ g.id \in Nat
    BY <1>1, <1>2 DEF Server, Game
  <2>2. CASE m.type = "Task"
    <3>1. h.state = "Continue"
      BY <2>1, <2>2, HandledRuns
    <3>. QED
      BY <3>1
  <2>3. CASE m.type = "Stop"
    <3>1. PICK j \in DOMAIN d : d[j].type = "Task"
      BY <1>1, <1>2, <1>4, <2>3 DEF Lasts
    <3>2. g.id < d[j].id /\ d[j].id <= s.num /\ d[j].id \in Nat
      <4>1. d[j] \in DownMessage
        BY <3>1
      <4>. QED
        BY <3>1, <4>1, DownKinds DEF DownInv
    <3>3. g.id # s.num
      BY <2>1, <3>2
    <3>4. h.id = g.id
      BY <2>3 DEF Handled, Receive_Optimizer_Stop, Game
    <3>. QED
      BY <1>4, <3>3, <3>4
  <2>4. CASE m.type = "Run" \/ m.type = "Predict"
    <3>1. h.id = g.id /\ h.running = g.running /\ h.state = g.state
      BY <2>4 DEF Handled, Receive_Optimizer_Run, GamePrediction_Receive_IPC, Game
    <3>. QED
      BY <1>4, <3>1 DEF Lasts
  <2>. QED
    BY <2>1, <2>2, <2>3, <2>4, DownKinds
<1>. QED
  BY <1>3, <1>4 DEF Lasts

(* The clients.                                                            *)
LEMMA LastsClient ==
  ASSUME IInv, LastsInv, NEW c \in Client, Client_Frame(c)
  PROVE  LastsInv'
<1>1. /\ cl \in [Client -> Game] /\ cl[c] \in Game /\ down \in [Client -> Seq(DownMessage)]
      /\ sv \in Server /\ DownInv(cl[c], down[c], sv.num) /\ Lasts(cl[c], down[c], sv)
  BY ClientFacts DEF ClientInv, IInv, Types, LastsInv
<1>2. UNCHANGED sv
  BY Zenon DEF Client_Frame, Handle_Client_Message, GamePrediction_Frame_Hook, Game_Opt_Ended,
               OnRunnerFrame
<1>3. ASSUME NEW h, cl' = [cl EXCEPT ![c] = h], NEW e, down' = [down EXCEPT ![c] = e],
             Lasts(h, e, sv)
      PROVE  LastsInv'
  <2>. SUFFICES ASSUME NEW x \in Client PROVE Lasts(cl'[x], down'[x], sv)
    BY <1>2 DEF LastsInv
  <2>1. CASE x = c
    BY <1>1, <1>3, <2>1
  <2>2. CASE x # c
    BY <1>1, <1>3, <2>2 DEF LastsInv
  <2>. QED
    BY <2>1, <2>2
<1>4. CASE Handle_Client_Message(c)
  <2>1. PICK m, h, e : m = Head(down[c]) /\ h = Handled(cl[c], m) /\ e = Tail(down[c])
    BY Zenon
  <2>2. cl' = [cl EXCEPT ![c] = h] /\ down' = [down EXCEPT ![c] = e] /\ down[c] # <<>>
    BY <1>4, <2>1 DEF Handle_Client_Message, Handled
  <2>3. Lasts(h, e, sv)
    BY <1>1, <2>1, <2>2, LastsRead, Zenon
  <2>. QED
    BY <1>3, <2>2, <2>3, Zenon
<1>5. ASSUME NEW h, cl' = [cl EXCEPT ![c] = h], UNCHANGED down, h.id = cl[c].id,
             \/ h.running = cl[c].running /\ h.state = cl[c].state
             \/ h.running \/ h.state # "NewIteration"
      PROVE  LastsInv'
  <2>1. Lasts(h, down[c], sv)
    BY <1>1, <1>5 DEF Lasts
  <2>2. down' = [down EXCEPT ![c] = down[c]]
    BY <1>1, <1>5
  <2>. QED
    BY <1>3, <1>5, <2>1, <2>2, Zenon
<1>6. CASE GamePrediction_Frame_Hook(c)
  <2>1. CASE cl' = [cl EXCEPT ![c].points = TRUE]
    BY <1>1, <1>5, <1>6, <2>1, Zenon DEF GamePrediction_Frame_Hook, Game
  <2>2. CASE cl' = [cl EXCEPT ![c].ipc_request_finished = TRUE]
    BY <1>1, <1>5, <1>6, <2>2, Zenon DEF GamePrediction_Frame_Hook, Game
  <2>. QED
    BY <1>6, <2>1, <2>2 DEF GamePrediction_Frame_Hook
<1>7. CASE Game_Opt_Ended(c)
  <2>1. CASE cl[c].state = "NewIteration" /\ GameOpt_NewIteration(c)
    <3>1. PICK k : k = [cl[c] EXCEPT !.first = FALSE, !.iterations = @ + 1,
                          !.bestEfficacy = IF cl[c].first \/ cl[c].best.efficacy > cl[c].bestEfficacy
                                           THEN cl[c].best.efficacy ELSE @, !.state = "Continue"]
      BY Zenon
    <3>2. k \in Game /\ k.id = cl[c].id /\ k.state = "Continue"
      <4>1. PICK b \in Int : b = IF cl[c].first \/ cl[c].best.efficacy > cl[c].bestEfficacy
                                 THEN cl[c].best.efficacy ELSE cl[c].bestEfficacy
        BY <1>1 DEF Game, OptRun
      <4>2. PICK n \in Nat : n = cl[c].iterations + 1
        BY <1>1 DEF Game
      <4>3. k = [cl[c] EXCEPT !.first = FALSE, !.iterations = n, !.bestEfficacy = b,
                              !.state = "Continue"]
        BY <3>1, <4>1, <4>2
      <4>. QED
        BY <1>1, <4>3, Zenon DEF Game
    <3>3. PICK h : h = Run_Script(k)
      BY Zenon
    <3>4. h.id = cl[c].id /\ h.state = "Continue"
      BY <3>2, <3>3, RunScript
    <3>5. cl' = [cl EXCEPT ![c] = h] /\ UNCHANGED down
      BY <1>7, <2>1, <3>1, <3>3 DEF Game_Opt_Ended, GameOpt_NewIteration
    <3>. QED
      BY <1>5, <3>4, <3>5, Zenon
  <2>2. ASSUME cl[c].state # "NewIteration", NEW h, cl' = [cl EXCEPT ![c] = h], Ended(cl[c], h)
        PROVE  LastsInv'
    <3>1. h.id = cl[c].id /\ h.state # "NewIteration"
      BY <1>1, <2>2, EndedGame
    <3>. QED
      BY <1>5, <1>7, <2>2, <3>1, Zenon DEF Game_Opt_Ended
  <2>. QED
    BY <1>7, <2>1, <2>2, EndsOrGoesOn, Zenon
<1>8. ASSUME NEW ef \in Efficacy, OnRunnerFrame(c, ef)
      PROVE  LastsInv'
  <2>1. PICK run : run = [task |-> cl[c].id, efficacy |-> ef]
    BY Zenon
  <2>2. PICK h : Iterated(cl[c], run, h) /\ cl' = [cl EXCEPT ![c] = h]
    BY <1>8, <2>1, RunnerGame
  <2>3. h.id = cl[c].id /\ h.running = cl[c].running /\ cl[c].running
    BY <1>8, <2>2, Zenon DEF OnRunnerFrame, Iterated
  <2>. QED
    BY <1>5, <1>8, <2>2, <2>3, Zenon DEF OnRunnerFrame
<1>. QED
  BY <1>4, <1>6, <1>7, <1>8 DEF Client_Frame

(* Every step keeps it.                                                    *)
LEMMA LastsNext ==
  ASSUME IInv, IInv', LastsInv, [Next]_vars
  PROVE  LastsInv'
<1>1. CASE UNCHANGED <<sv, cl, down, up>>
  BY <1>1 DEF LastsInv
<1>. QED
  BY <1>1, LastsServer, LastsClient DEF Next, vars

(* No improvement is lost between the games, for any number of clients and *)
(* any delay and order of tasks, runs and reports: the best run of the     *)
(* server reaches every client, and that of a client the server unless the *)
(* server's search ends first.                                             *)
THEOREM BestRunAlwaysSpreads == Spec => []BestRunSpreads
<1>1. IInv /\ SpreadInv /\ LastsInv => BestRunSpreads
  <2>. SUFFICES ASSUME IInv, SpreadInv, LastsInv, ~sv.first, sv.num > 1, NEW c \in Client
                PROVE  /\ \/ cl[c].best.task = sv.num /\ cl[c].best.efficacy >= sv.best.efficacy
                          \/ \E i \in DOMAIN down[c] : Brings(cl[c], down[c], sv, i)
                       /\ cl[c].found.task = sv.num =>
                            \/ cl[c].found.efficacy <= sv.best.efficacy
                            \/ /\ cl[c].state = "NewIteration"
                               /\ cl[c].found.efficacy <= cl[c].best.efficacy
                               /\ sv.running => cl[c].running
                            \/ \E i \in DOMAIN up[c] :
                                 /\ up[c][i].type = "Run" /\ up[c][i].id = sv.num
                                 /\ up[c][i].run.efficacy >= cl[c].found.efficacy
    BY Zenon DEF BestRunSpreads, Brings
  <2>1. Spread(cl[c], down[c], up[c], sv)
    BY DEF SpreadInv
  <2>2. \/ cl[c].best.task = sv.num /\ cl[c].best.efficacy >= sv.best.efficacy
        \/ \E i \in DOMAIN down[c] : Brings(cl[c], down[c], sv, i)
    BY <2>1 DEF Spread, Gets
  <2>3. ASSUME cl[c].found.task = sv.num
        PROVE  \/ /\ cl[c].state = "NewIteration" /\ cl[c].found.efficacy <= cl[c].best.efficacy
                  /\ sv.running => cl[c].running
               \/ Known(up[c], sv, cl[c].found.efficacy)
    <3>1. /\ up[c] \in Seq(UpMessage) /\ cl[c].best.efficacy \in Int /\ cl[c].found.efficacy \in Int
          /\ sv.best.efficacy \in Int /\ sv.num \in Nat
      BY Zenon DEF IInv, Types, Server, Game, OptRun
    <3>2. cl[c].found # None
      BY <2>3, <3>1 DEF None
    <3>3. cl[c].id = sv.num /\ cl[c].best # None /\ cl[c].found.efficacy <= cl[c].best.efficacy
      <4>1. cl[c].id = sv.num
        BY <2>1, <2>3, <3>2, Zenon DEF Spread, Found
      <4>2. cl[c].id > 0
        BY <3>1, <4>1
      <4>. QED
        BY <2>1, <3>2, <4>1, <4>2, Zenon DEF Spread, Found
    <3>4. CASE cl[c].state = "NewIteration"
      BY <3>3, <3>4 DEF LastsInv, Lasts
    <3>5. CASE Known(up[c], sv, cl[c].best.efficacy)
      BY <3>1, <3>3, <3>5, KnownWorse
    <3>. QED
      BY <2>1, <3>3, <3>4, <3>5, Zenon DEF Spread, Tells
  <2>. QED
    BY <2>2, <2>3 DEF Known
<1>2. Init => IInv /\ SpreadInv /\ LastsInv
  BY InitInv, SpreadInit DEF Init, LastsInv, Lasts
<1>3. IInv /\ SpreadInv /\ LastsInv /\ [Next]_vars => (IInv /\ SpreadInv /\ LastsInv)'
  BY StepInv, SpreadNext, LastsNext
<1>. QED
  BY <1>1, <1>2, <1>3, PTL DEF Spec

=============================================================================
