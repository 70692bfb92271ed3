----------------------------- MODULE PongMatch -------------------------------
(***************************************************************************)
(* The Pong match (examples/pong/game.go): phases and scores, paddles moved *)
(* by controls or bots, and a ball that advances in substeps.  Lengths and *)
(* times are integers; what a bounce angle does to the velocity is left    *)
(* open.  The hub's first system restarts matches and sets controls in the *)
(* tick that is then played (see PongHub).                                 *)
(***************************************************************************)
EXTENDS Integers

CONSTANTS
  Width, Height, PaddleX,   \* the court, and how far the paddles are from the ends
  HalfWidth, HalfHeight,    \* half of paddleWidth and of paddleHeight
  Radius,                   \* ballRadius
  Speeds, Slopes,           \* horizontal speeds of the ball, and vertical ones
  PaddleSpeed, BotSpeed,
  Sub,                      \* the longest substep: 1/240 s
  TickLen,                  \* the length of a tick
  ServeLen,                 \* the countdown of a serve: 1.1 s
  InputTimeout,             \* inputTimeout
  WinningScore,
  Inputs,                   \* what browsers send: an axis in -1..1, a target or None
  None

Reach == HalfWidth + Radius
ReachY == HalfHeight + Radius
Sides == 0..1
Other(s) == 1 - s
X(s) == IF s = 0 THEN PaddleX ELSE Width - PaddleX

\* The faces of the paddles do not reach each other, the middle or the ends, and
\* no substep carries the ball across a paddle's reach.
ASSUME PongMatchAssumption ==
  /\ {Width, Height, PaddleX, HalfWidth, HalfHeight, Radius, PaddleSpeed, BotSpeed, InputTimeout} \subseteq Nat
  /\ {Sub, TickLen, ServeLen, WinningScore} \subseteq Nat \ {0}
  /\ Speeds \subseteq Nat \ {0} /\ Speeds # {} /\ Slopes \subseteq Nat
  /\ \A v \in Speeds, d \in 1..Sub : v * d <= 2 * Reach
  /\ PaddleX + Reach < Width \div 2 /\ Width \div 2 < Width - PaddleX - Reach
  /\ Reach <= PaddleX + Radius
  /\ None \notin Sides

VARIABLES
  humans,     \* Humans: the sides that people play
  controls,   \* Controls: each side's newest input and its age, None once it expired
  score, phase, countdown, winner,
  paddleY,    \* each paddle's Y
  ball,       \* the ball's position and velocity
  remaining,  \* what update has left of the tick
  passed      \* history: the sides whose paddle the coming ball has passed

matchVars == <<humans, controls, score, phase, countdown, winner>>
vars == <<matchVars, paddleY, ball, remaining, passed>>

Phases == {"waiting", "serve", "playing", "finished"}

Centre == [x |-> Width \div 2, y |-> Height \div 2, vx |-> 0, vy |-> 0]

Middle == [s \in Sides |-> Height \div 2]

\* newGame.
Init ==
  /\ humans = {} /\ controls = [s \in Sides |-> None]
  /\ score = [s \in Sides |-> 0] /\ phase = "waiting" /\ countdown = 0 /\ winner = None
  /\ paddleY = Middle /\ ball = Centre
  /\ remaining = 0 /\ passed = {}

Sign(n) == IF n > 0 THEN 1 ELSE IF n < 0 THEN -1 ELSE 0

Clamp(value, low, high) == IF value < low THEN low ELSE IF value > high THEN high ELSE value

\* serve: the ball stands ready in the middle, at one of a few angles.
Serve(direction) ==
  /\ \E v \in Speeds, u \in Slopes, up \in {-1, 1} :
       ball' = [Centre EXCEPT !.vx = direction * v, !.vy = up * u]
  /\ passed' = {}

-----------------------------------------------------------------------------
(* The hub's actions *)

\* Mutant: a match of two bots is served too.
RestartServing(people) ==
  /\ remaining = 0
  /\ humans' = people /\ controls' = [s \in Sides |-> None]
  /\ score' = [s \in Sides |-> 0] /\ winner' = None
  /\ paddleY' = Middle
  /\ Serve(-1)
  /\ phase' = "serve" /\ countdown' = ServeLen
  /\ UNCHANGED remaining

\* restart, with the sides that people play from now on: by assignSeats, or by
\* POST /api/restart with the same.
Restart(people) ==
  /\ remaining = 0
  /\ humans' = people /\ controls' = [s \in Sides |-> None]
  /\ score' = [s \in Sides |-> 0] /\ winner' = None
  /\ paddleY' = Middle
  /\ Serve(-1)
  /\ phase' = IF people = {} THEN "waiting" ELSE "serve"
  /\ countdown' = ServeLen
  /\ UNCHANGED remaining

\* apply's newer input of a player.
Input(s) ==
  /\ remaining = 0 /\ s \in humans
  /\ \E i \in Inputs :
       controls' = [controls EXCEPT ![s] = [axis |-> i.axis, target |-> i.target, age |-> 0]]
  /\ UNCHANGED <<humans, score, phase, countdown, winner, paddleY, ball, remaining, passed>>

-----------------------------------------------------------------------------
(* update *)

\* The clock moves on to the next tick; an input that is older than
\* inputTimeout moves nothing any more, as if there had been none.
Aged(c) == IF c = None \/ c.age + TickLen > InputTimeout THEN None ELSE [c EXCEPT !.age = @ + TickLen]

TimePasses == controls' = IF remaining' = 0 THEN [s \in Sides |-> Aged(controls[s])] ELSE controls

\* update in a tick: nothing to play, or its substeps begin.
Update ==
  /\ remaining = 0
  /\ remaining' = IF phase \in {"waiting", "finished"} THEN 0 ELSE TickLen
  /\ TimePasses
  /\ UNCHANGED <<humans, score, phase, countdown, winner, paddleY, ball, passed>>

Toward(b, s) == IF s = 0 THEN b.vx < 0 ELSE b.vx > 0

\* How far a paddle wants to go in dt, and may.
PersonMoves(s, dt) ==
  LET c == controls[s]
      wish == IF c = None THEN 0
              ELSE IF c.target # None THEN c.target - paddleY[s]
              ELSE c.axis * PaddleSpeed * dt
  IN  Clamp(wish, -(PaddleSpeed * dt), PaddleSpeed * dt)

BotMoves(s, dt) ==
  LET target == IF phase = "playing" /\ Toward(ball, s) THEN ball.y ELSE Height \div 2
  IN  Clamp(target - paddleY[s], -(BotSpeed * dt), BotSpeed * dt)

MovePaddles(dt) == paddleY' = [s \in Sides |->
  Clamp(paddleY[s] + (IF s \in humans THEN PersonMoves(s, dt) ELSE BotMoves(s, dt)),
        HalfHeight, Height - HalfHeight)]

\* The ball after dt, reflected by the upper and lower walls.
Flown(dt) ==
  LET x == ball.x + ball.vx * dt
      y == ball.y + ball.vy * dt
      speed == ball.vy * Sign(ball.vy)
  IN  IF y < Radius THEN [ball EXCEPT !.x = x, !.y = 2 * Radius - y, !.vy = speed]
      ELSE IF y > Height - Radius THEN [ball EXCEPT !.x = x, !.y = 2 * (Height - Radius) - y, !.vy = -speed]
      ELSE [ball EXCEPT !.x = x, !.y = y]

\* The ball comes at the paddle of s within its horizontal reach, and hits it.
InReach(b, s) == Toward(b, s) /\ b.x - X(s) \in -Reach..Reach
Meets(b, s) == InReach(b, s) /\ b.y - paddleY'[s] \in -ReachY..ReachY

\* The ball comes back from in front of the paddle, faster or slower, up or
\* down as the paddle was met below or above its middle.
Return(b, s) ==
  /\ LET direction == IF s = 0 THEN 1 ELSE -1
     IN  \E v \in Speeds, u \in Slopes :
           ball' = [b EXCEPT !.x = X(s) + direction * Reach, !.vx = direction * v,
                             !.vy = Sign(b.y - paddleY'[s]) * u]
  /\ passed' = {}

\* Beyond the end that s defends.
Out(b, s) == IF s = 0 THEN b.x < -Radius ELSE b.x > Width + Radius

\* point: s scores.  The last point leaves the ball where it is.
Point(b, s) ==
  /\ score' = [score EXCEPT ![s] = @ + 1]
  /\ IF score'[s] = WinningScore
     THEN /\ phase' = "finished" /\ winner' = s
          /\ ball' = b /\ UNCHANGED <<countdown, passed>>
     ELSE /\ phase' = "serve" /\ countdown' = ServeLen /\ UNCHANGED winner
          /\ Serve(IF s = 1 THEN -1 ELSE 1)

MoveBall(dt) ==
  LET b == Flown(dt)
  IN  \/ /\ \E s \in Sides : Meets(b, s) /\ Return(b, s)
         /\ UNCHANGED <<score, phase, countdown, winner>>
      \/ /\ \A s \in Sides : ~Meets(b, s) /\ ~Out(b, s)
         /\ ball' = b
         /\ passed' = passed \cup {s \in Sides : InReach(b, s)}
         /\ UNCHANGED <<score, phase, countdown, winner>>
      \/ /\ \A s \in Sides : ~Meets(b, s)
         /\ \E s \in Sides : Out(b, s) /\ Point(b, Other(s))

Lesser(m, n) == IF m < n THEN m ELSE n

CountDown(dt) ==
  /\ countdown' = Clamp(countdown - dt, 0, ServeLen)
  /\ phase' = IF countdown' = 0 THEN "playing" ELSE "serve"
  /\ UNCHANGED <<score, winner, ball, passed>>

\* Mutant: the rest of the tick in one step.
WholeStep(left) == left

\* The length of the next substep.
Dt(left) == Lesser(left, Sub)

\* One round of update's loop, which a finished match leaves.
Substep ==
  /\ remaining > 0
  /\ MovePaddles(Dt(remaining))
  /\ IF phase = "serve" THEN CountDown(Dt(remaining)) ELSE MoveBall(Dt(remaining))
  /\ remaining' = IF phase' = "finished" THEN 0 ELSE remaining - Dt(remaining)
  /\ TimePasses
  /\ UNCHANGED humans

Next ==
  \/ \E people \in SUBSET Sides : Restart(people)
  \/ \E s \in Sides : Input(s)
  \/ Update
  \/ Substep

Spec == Init /\ [][Next]_vars

-----------------------------------------------------------------------------
(* Properties *)

\* The phase, the scores, the winner and the players tell the same story: bots
\* alone do not play, a match is over exactly when one side, the winner, has the
\* winning score, and while a serve counts down the ball stands in the middle.
MatchConsistent ==
  /\ phase = "waiting" <=> humans = {}
  /\ \A s \in Sides : score[s] = WinningScore <=> winner = s
  /\ phase = "finished" <=> winner # None
  /\ \A s \in Sides : score[s] <= WinningScore
  /\ phase = "serve" => countdown > 0 /\ ball.x = Centre.x /\ ball.y = Centre.y /\ passed = {}
  /\ remaining > 0 => phase \in {"serve", "playing"}

\* A side concedes a point only for a ball that its paddle could have met: at
\* the end of some substep the ball was within the paddle's reach, and the
\* paddle was elsewhere ("Small physics steps prevent fast balls tunnelling
\* through paddles", update).
NoTunnelling == [][\A s \in Sides : score'[Other(s)] > score[Other(s)] => s \in passed]_vars
=============================================================================
