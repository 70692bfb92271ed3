--------------------------- MODULE PongMatchProofs ---------------------------
(***************************************************************************)
(* No point for a ball that jumped over a paddle, and a consistent match,  *)
(* for every court, every set of speeds and every tick length that         *)
(* PongMatchAssumption admits.                                             *)
(***************************************************************************)
EXTENDS PongMatch, TLAPS

TypeOK ==
  /\ humans \subseteq Sides
  /\ score \in [Sides -> Nat]
  /\ phase \in Phases
  /\ countdown \in 0..ServeLen
  /\ winner \in Sides \cup {None}
  /\ ball \in [x : Int, y : Int, vx : Int, vy : Int]
  /\ remaining \in Nat
  /\ passed \subseteq Sides

\* The ball moves at one of the speeds, or did not move yet.
SpeedOK == ball.vx = 0 \/ ball.vx \in Speeds \/ -ball.vx \in Speeds

\* A coming ball that is not in front of a paddle any more had its chance.
PassedOK ==
  /\ ball.vx < 0 /\ ball.x <= PaddleX + Reach => 0 \in passed
  /\ ball.vx > 0 /\ ball.x >= Width - PaddleX - Reach => 1 \in passed

\* And a ball in play is between the ends.
InPlay == phase \in {"serve", "playing"} => PassedOK /\ ~Out(ball, 0) /\ ~Out(ball, 1)

BallOK == SpeedOK /\ InPlay

IInv == TypeOK /\ BallOK /\ MatchConsistent

-----------------------------------------------------------------------------
(* Lengths *)

LEMMA Lengths ==
  /\ Width \in Nat /\ Height \in Nat /\ PaddleX \in Nat /\ Radius \in Nat /\ Reach \in Nat
  /\ Centre.x \in Int /\ Centre.y \in Int /\ Centre.vx = 0
  /\ PaddleX + Reach < Centre.x /\ Centre.x < Width - PaddleX - Reach
  /\ Reach <= PaddleX + Radius
  /\ ServeLen \in Nat \ {0} /\ TickLen \in Nat \ {0} /\ WinningScore \in Nat \ {0}
<1>1. /\ Width \in Nat /\ Height \in Nat /\ PaddleX \in Nat /\ HalfWidth \in Nat /\ Radius \in Nat
      /\ ServeLen \in Nat \ {0} /\ TickLen \in Nat \ {0} /\ WinningScore \in Nat \ {0}
  BY PongMatchAssumption
<1>2. Reach \in Nat
  BY <1>1 DEF Reach
<1>3. /\ PaddleX + Reach < Width \div 2 /\ Width \div 2 < Width - PaddleX - Reach
      /\ Reach <= PaddleX + Radius
  BY PongMatchAssumption
<1>4. Width \div 2 \in Int /\ Height \div 2 \in Int
  BY <1>1
<1> QED
  BY <1>1, <1>2, <1>3, <1>4 DEF Centre

\* A substep takes time, and no more than there is left.
LEMMA SubstepLength ==
  ASSUME NEW left \in Nat, left > 0
  PROVE  Dt(left) \in 1..Sub /\ left - Dt(left) \in Nat
  BY PongMatchAssumption DEF Dt, Lesser

\* In a substep the ball keeps its direction and crosses at most one reach.
LEMMA Flight ==
  ASSUME TypeOK, SpeedOK, NEW dt \in 1..Sub
  PROVE  /\ Flown(dt) \in [x : Int, y : Int, vx : Int, vy : Int]
         /\ Flown(dt).vx = ball.vx
         /\ ball.vx = 0 => Flown(dt).x = ball.x
         /\ ball.vx > 0 => Flown(dt).x - ball.x \in 0..(2 * Reach)
         /\ ball.vx < 0 => ball.x - Flown(dt).x \in 0..(2 * Reach)
<1> DEFINE w == ball.vx * dt
<1>1. Sub \in Nat /\ dt \in Nat /\ dt > 0 /\ Speeds \subseteq Nat \ {0} /\ Reach \in Nat
  BY PongMatchAssumption, Lengths
<1>2. ball.x \in Int /\ ball.y \in Int /\ ball.vx \in Int /\ ball.vy \in Int
  BY DEF TypeOK
<1>3. w \in Int
  BY <1>1, <1>2
<1>4. ball.vx = 0 => w = 0
  BY <1>1
<1>5. ASSUME ball.vx > 0 PROVE w \in 0..(2 * Reach)
  <2>1. ball.vx \in Speeds
    BY <1>1, <1>2, <1>5 DEF SpeedOK
  <2>2. w <= 2 * Reach
    BY <2>1, PongMatchAssumption
  <2>3. w >= 0
    BY <1>1, <1>2, <1>5, Z3
  <2> QED
    BY <1>1, <1>3, <2>2, <2>3
<1>6. ASSUME ball.vx < 0 PROVE -w \in 0..(2 * Reach)
  <2>1. -ball.vx \in Speeds
    BY <1>1, <1>2, <1>6 DEF SpeedOK
  <2>2. (-ball.vx) * dt <= 2 * Reach
    BY <2>1, PongMatchAssumption
  <2>3. (-ball.vx) * dt = -w
    BY <1>1, <1>2, Z3
  <2>4. -w >= 0
    BY <1>1, <1>2, <1>6, Z3
  <2> QED
    BY <1>1, <1>3, <2>2, <2>3, <2>4
<1>7. /\ Flown(dt) \in [x : Int, y : Int, vx : Int, vy : Int]
      /\ Flown(dt).vx = ball.vx /\ Flown(dt).x = ball.x + w
  <2>1. ball.y + ball.vy * dt \in Int
    BY <1>1, <1>2
  <2>2. ball.vy * Sign(ball.vy) \in Int
    BY <1>2 DEF Sign
  <2>3. Height \in Nat /\ Radius \in Nat
    BY Lengths
  <2> DEFINE y == ball.y + ball.vy * dt
             v == ball.vy * Sign(ball.vy)
  <2>4. Flown(dt) = IF y < Radius THEN [ball EXCEPT !.x = ball.x + w, !.y = 2 * Radius - y, !.vy = v]
                    ELSE IF y > Height - Radius
                    THEN [ball EXCEPT !.x = ball.x + w, !.y = 2 * (Height - Radius) - y, !.vy = -v]
                    ELSE [ball EXCEPT !.x = ball.x + w, !.y = y]
    BY DEF Flown
  <2> HIDE DEF w, y, v
  <2>5. y \in Int /\ v \in Int
    BY <2>1, <2>2 DEF y, v
  <2>6. 2 * Radius - y \in Int /\ 2 * (Height - Radius) - y \in Int /\ -v \in Int /\ ball.x + w \in Int
    BY <1>2, <1>3, <2>3, <2>5
  <2> QED
    BY <1>2, <2>4, <2>5, <2>6 DEF TypeOK
<1> HIDE DEF w
<1> QED
  BY <1>1, <1>2, <1>3, <1>4, <1>5, <1>6, <1>7

\* A served ball is in play and in front of both paddles.
LEMMA Served ==
  ASSUME NEW d \in {-1, 1}, Serve(d)
  PROVE  /\ ball' \in [x : Int, y : Int, vx : Int, vy : Int]
         /\ ball'.x = Centre.x /\ ball'.y = Centre.y
         /\ SpeedOK' /\ PassedOK' /\ passed' = {}
         /\ ~Out(ball', 0) /\ ~Out(ball', 1)
<1>1. PICK v \in Speeds, u \in Slopes, up \in {-1, 1} :
        ball' = [Centre EXCEPT !.vx = d * v, !.vy = up * u]
  BY DEF Serve
<1>2. v \in Nat \ {0} /\ u \in Nat
  BY PongMatchAssumption
<1>3. /\ d * v \in Int /\ up * u \in Int
      /\ d * v = v \/ -(d * v) = v
  BY <1>2
<1>4. /\ ball'.x = Centre.x /\ ball'.y = Centre.y /\ ball'.vx = d * v /\ ball'.vy = up * u
      /\ ball' \in [x : Int, y : Int, vx : Int, vy : Int]
  BY <1>1, <1>3, Lengths DEF Centre
<1>5. SpeedOK'
  BY <1>3, <1>4 DEF SpeedOK
<1>6. PassedOK'
  BY <1>4, Lengths DEF PassedOK
<1>7. ~Out(ball', 0) /\ ~Out(ball', 1)
  BY <1>4, Lengths DEF Out
<1> QED
  BY <1>4, <1>5, <1>6, <1>7 DEF Serve

-----------------------------------------------------------------------------
(* The ball in play *)

\* A ball that leaves the court at the end of s was passed by the paddle of s.
LEMMA ConcededWasPassed ==
  ASSUME IInv, phase = "playing", NEW dt \in 1..Sub, NEW s \in Sides, Out(Flown(dt), s)
  PROVE  s \in passed
<1>1. ball.x \in Int /\ ball.vx \in Int /\ Flown(dt).x \in Int /\ Flown(dt).vx = ball.vx
  BY Flight DEF IInv, TypeOK, BallOK
<1>2. ~Out(ball, 0) /\ ~Out(ball, 1)
  BY DEF IInv, BallOK, InPlay
<1>3. CASE s = 0
  <2>1. Flown(dt).x < -Radius /\ ball.x >= -Radius
    BY <1>1, <1>2, <1>3, Lengths DEF Out
  <2>2. ball.vx < 0 /\ ball.x - Flown(dt).x <= 2 * Reach
    BY <1>1, <2>1, Flight, Lengths DEF IInv, BallOK
  <2>3. ball.x <= PaddleX + Reach
    BY <1>1, <2>1, <2>2, Lengths
  <2> QED
    BY <1>3, <2>2, <2>3 DEF IInv, BallOK, InPlay, PassedOK
<1>4. CASE s = 1
  <2>1. Flown(dt).x > Width + Radius /\ ball.x <= Width + Radius
    BY <1>1, <1>2, <1>4, Lengths DEF Out
  <2>2. ball.vx > 0 /\ Flown(dt).x - ball.x <= 2 * Reach
    BY <1>1, <2>1, Flight, Lengths DEF IInv, BallOK
  <2>3. ball.x >= Width - PaddleX - Reach
    BY <1>1, <2>1, <2>2, Lengths
  <2> QED
    BY <1>4, <2>2, <2>3 DEF IInv, BallOK, InPlay, PassedOK
<1> QED
  BY <1>3, <1>4 DEF Sides

\* A ball that flies on without meeting a paddle.
LEMMA FliesOn ==
  ASSUME IInv, phase = "playing", NEW dt \in 1..Sub, ball' = Flown(dt),
         passed' = passed \cup {s \in Sides : InReach(Flown(dt), s)}
  PROVE  SpeedOK' /\ PassedOK' /\ passed' \subseteq Sides
<1> DEFINE b == Flown(dt)
<1>1. ball.x \in Int /\ ball.vx \in Int /\ b.x \in Int /\ b.vx = ball.vx
  BY Flight DEF IInv, TypeOK, BallOK
<1>2. SpeedOK'
  BY <1>1 DEF SpeedOK, IInv, BallOK
<1>3. ASSUME b.vx < 0, b.x <= PaddleX + Reach PROVE 0 \in passed'
  <2>1. CASE ball.x <= PaddleX + Reach
    BY <1>1, <1>3, <2>1 DEF IInv, BallOK, InPlay, PassedOK
  <2>2. CASE ball.x > PaddleX + Reach
    <3>1. ball.x - b.x <= 2 * Reach
      BY <1>1, <1>3, Flight, Lengths DEF IInv, BallOK
    <3>2. b.x - PaddleX \in -Reach..Reach
      BY <1>1, <1>3, <2>2, <3>1, Lengths
    <3> QED
      BY <1>3, <3>2 DEF InReach, Toward, X, Sides
  <2> QED
    BY <1>1, <2>1, <2>2, Lengths
<1>4. ASSUME b.vx > 0, b.x >= Width - PaddleX - Reach PROVE 1 \in passed'
  <2>1. CASE ball.x >= Width - PaddleX - Reach
    BY <1>1, <1>4, <2>1 DEF IInv, BallOK, InPlay, PassedOK
  <2>2. CASE ball.x < Width - PaddleX - Reach
    <3>1. b.x - ball.x <= 2 * Reach
      BY <1>1, <1>4, Flight, Lengths DEF IInv, BallOK
    <3>2. b.x - (Width - PaddleX) \in -Reach..Reach
      BY <1>1, <1>4, <2>2, <3>1, Lengths
    <3> QED
      BY <1>4, <3>2 DEF InReach, Toward, X, Sides
  <2> QED
    BY <1>1, <2>1, <2>2, Lengths
<1> QED
  BY <1>2, <1>3, <1>4 DEF PassedOK, IInv, TypeOK

\* A ball that comes back from the paddle of s.
LEMMA ComesBack ==
  ASSUME NEW b \in [x : Int, y : Int, vx : Int, vy : Int], NEW s \in Sides, Return(b, s)
  PROVE  /\ ball' \in [x : Int, y : Int, vx : Int, vy : Int]
         /\ SpeedOK' /\ PassedOK'
         /\ ~Out(ball', 0) /\ ~Out(ball', 1)
<1> DEFINE d == IF s = 0 THEN 1 ELSE -1
           y == Sign(b.y - paddleY'[s])
<1>1. d \in {-1, 1} /\ y \in {-1, 0, 1}
  BY DEF Sign
<1>2. PICK v \in Speeds, u \in Slopes :
        ball' = [b EXCEPT !.x = X(s) + d * Reach, !.vx = d * v, !.vy = y * u]
  BY DEF Return
<1> HIDE DEF y
<1>3. v \in Nat \ {0} /\ u \in Nat /\ Reach \in Nat /\ X(s) \in Int
  BY PongMatchAssumption, Lengths DEF X
<1>4. /\ X(s) + d * Reach \in Int /\ d * v \in Int /\ y * u \in Int
      /\ d * v = v \/ -(d * v) = v
  BY <1>1, <1>3
<1>5. /\ ball' \in [x : Int, y : Int, vx : Int, vy : Int]
      /\ ball'.x = X(s) + d * Reach /\ ball'.vx = d * v
  BY <1>2, <1>4
<1>6. SpeedOK'
  BY <1>4, <1>5 DEF SpeedOK
<1>7. PassedOK' /\ ~Out(ball', 0) /\ ~Out(ball', 1)
  <2>1. CASE s = 0
    <3>1. ball'.x = PaddleX + Reach /\ ball'.vx > 0
      BY <1>3, <1>5, <2>1, Lengths DEF X
    <3> QED
      BY <1>5, <3>1, Lengths DEF PassedOK, Out
  <2>2. CASE s = 1
    <3>1. ball'.x = Width - PaddleX - Reach /\ ball'.vx < 0
      BY <1>3, <1>5, <2>2, Lengths DEF X
    <3> QED
      BY <1>5, <3>1, Lengths DEF PassedOK, Out
  <2> QED
    BY <2>1, <2>2 DEF Sides
<1> QED
  BY <1>5, <1>6, <1>7

-----------------------------------------------------------------------------
(* The actions *)

LEMMA InitIInv == Init => IInv
<1> SUFFICES ASSUME Init PROVE IInv
  OBVIOUS
<1>1. TypeOK
  BY Lengths DEF Init, TypeOK, Phases, Centre
<1>2. BallOK
  BY Lengths DEF Init, BallOK, SpeedOK, PassedOK, InPlay, Out, Centre
<1>3. MatchConsistent
  BY Lengths, PongMatchAssumption DEF Init, MatchConsistent, Phases, Sides
<1> QED
  BY <1>1, <1>2, <1>3 DEF IInv

\* A new match: nobody has a point, and the ball is served.
LEMMA RestartIInv ==
  ASSUME IInv, NEW people \in SUBSET Sides, Restart(people)
  PROVE  IInv'
<1>1. /\ ball' \in [x : Int, y : Int, vx : Int, vy : Int]
      /\ ball'.x = Centre.x /\ ball'.y = Centre.y
      /\ SpeedOK' /\ PassedOK' /\ passed' = {}
      /\ ~Out(ball', 0) /\ ~Out(ball', 1)
  BY Served DEF Restart
<1>2. TypeOK'
  BY <1>1, Lengths DEF Restart, IInv, TypeOK, Phases
<1>3. BallOK'
  BY <1>1 DEF BallOK, InPlay
<1>4. MatchConsistent'
  BY <1>1, Lengths, PongMatchAssumption DEF Restart, IInv, TypeOK, MatchConsistent, Sides
<1> QED
  BY <1>2, <1>3, <1>4 DEF IInv

LEMMA InputIInv ==
  ASSUME IInv, NEW s \in Sides, Input(s)
  PROVE  IInv'
<1>1. UNCHANGED <<humans, score, phase, countdown, winner, paddleY, ball, remaining, passed>>
  BY DEF Input
<1> QED
  BY <1>1 DEF IInv, TypeOK, BallOK, SpeedOK, PassedOK, InPlay, MatchConsistent, Out

LEMMA UpdateIInv ==
  ASSUME IInv, Update
  PROVE  IInv'
<1>1. /\ UNCHANGED <<humans, score, phase, countdown, winner, paddleY, ball, passed>>
      /\ remaining' = IF phase \in {"waiting", "finished"} THEN 0 ELSE TickLen
  BY DEF Update
<1>2. TypeOK'
  BY <1>1, Lengths DEF IInv, TypeOK
<1>3. BallOK'
  BY <1>1 DEF IInv, BallOK, SpeedOK, PassedOK, InPlay, Out
<1>4. MatchConsistent'
  BY <1>1 DEF IInv, TypeOK, MatchConsistent, Phases
<1> QED
  BY <1>2, <1>3, <1>4 DEF IInv

-----------------------------------------------------------------------------
(* A substep *)

\* The countdown of a serve: the ball stands until the match goes on.
LEMMA CountDownIInv ==
  ASSUME IInv, phase = "serve", NEW dt \in 1..Sub, CountDown(dt), humans' = humans,
         remaining' \in Nat
  PROVE  IInv'
<1>1. countdown' \in 0..ServeLen
  BY Lengths DEF CountDown, Clamp, IInv, TypeOK
<1>2. /\ UNCHANGED <<humans, score, winner, ball, passed>>
      /\ phase' = IF countdown' = 0 THEN "playing" ELSE "serve"
  BY DEF CountDown
<1>3. TypeOK'
  BY <1>1, <1>2 DEF IInv, TypeOK, Phases
<1>4. BallOK'
  BY <1>2 DEF IInv, BallOK, SpeedOK, PassedOK, InPlay, Out
<1>5. MatchConsistent'
  BY <1>1, <1>2, <1>3 DEF IInv, TypeOK, MatchConsistent
<1> QED
  BY <1>3, <1>4, <1>5 DEF IInv

\* A point ends the match or is followed by a serve.
LEMMA PointIInv ==
  ASSUME IInv, phase = "playing", NEW s \in Sides, NEW dt \in 1..Sub, Point(Flown(dt), s),
         humans' = humans,
         remaining' \in Nat, phase' = "finished" => remaining' = 0
  PROVE  IInv'
<1>1. score' = [score EXCEPT ![s] = @ + 1] /\ score \in [Sides -> Nat] /\ WinningScore \in Nat \ {0}
  BY Lengths DEF Point, IInv, TypeOK
<1>2. winner = None /\ \A t \in Sides : score[t] < WinningScore
  BY Lengths, PongMatchAssumption DEF IInv, TypeOK, MatchConsistent
<1>3. score' \in [Sides -> Nat] /\ score'[s] <= WinningScore
      /\ \A t \in Sides : t # s => score'[t] = score[t]
  BY <1>1, <1>2
<1>4. humans # {}
  BY DEF IInv, MatchConsistent
<1>5. CASE score'[s] = WinningScore
  <2>1. /\ phase' = "finished" /\ winner' = s /\ ball' = Flown(dt)
        /\ UNCHANGED <<countdown, passed>>
    BY <1>5 DEF Point
  <2>2. TypeOK'
    BY <1>3, <2>1, Flight DEF IInv, BallOK, TypeOK, Phases
  <2>3. BallOK'
    <3>1. SpeedOK'
      BY <2>1, Flight DEF IInv, BallOK, SpeedOK
    <3> QED
      BY <2>1, <3>1 DEF BallOK, InPlay
  <2>4. MatchConsistent'
    BY <1>2, <1>3, <1>4, <1>5, <2>1, PongMatchAssumption DEF MatchConsistent, IInv, TypeOK
  <2> QED
    BY <2>2, <2>3, <2>4 DEF IInv
<1>6. CASE score'[s] # WinningScore
  <2>1. /\ phase' = "serve" /\ countdown' = ServeLen /\ winner' = winner
        /\ Serve(IF s = 1 THEN -1 ELSE 1)
    BY <1>6 DEF Point
  <2>2. /\ ball' \in [x : Int, y : Int, vx : Int, vy : Int]
        /\ ball'.x = Centre.x /\ ball'.y = Centre.y
        /\ SpeedOK' /\ PassedOK' /\ passed' = {}
        /\ ~Out(ball', 0) /\ ~Out(ball', 1)
    BY <2>1, Served
  <2>3. TypeOK'
    BY <1>3, <2>1, <2>2, Lengths DEF IInv, TypeOK, Phases
  <2>4. BallOK'
    BY <2>2 DEF BallOK, InPlay
  <2>5. MatchConsistent'
    BY <1>2, <1>3, <1>4, <1>6, <2>1, <2>2, Lengths, PongMatchAssumption DEF MatchConsistent, IInv, TypeOK
  <2> QED
    BY <2>3, <2>4, <2>5 DEF IInv
<1> QED
  BY <1>5, <1>6

\* The ball is hit, or flies on, or somebody scores.
LEMMA MoveBallIInv ==
  ASSUME IInv, phase = "playing", NEW dt \in 1..Sub, MoveBall(dt), humans' = humans,
         remaining' \in Nat, phase' = "finished" => remaining' = 0
  PROVE  IInv'
<1> DEFINE b == Flown(dt)
<1>1. b \in [x : Int, y : Int, vx : Int, vy : Int]
  BY Flight DEF IInv, BallOK
<1>2. ASSUME UNCHANGED <<score, phase, countdown, winner>>,
             ball' \in [x : Int, y : Int, vx : Int, vy : Int], passed' \subseteq Sides,
             SpeedOK', PassedOK', ~Out(ball', 0), ~Out(ball', 1)
      PROVE  IInv'
  <2>1. TypeOK'
    BY <1>2 DEF IInv, TypeOK
  <2>2. BallOK'
    BY <1>2 DEF BallOK, InPlay
  <2>3. MatchConsistent'
    BY <1>2 DEF IInv, MatchConsistent
  <2> QED
    BY <2>1, <2>2, <2>3 DEF IInv
<1>3. ASSUME NEW s \in Sides, Return(b, s), UNCHANGED <<score, phase, countdown, winner>>
      PROVE  IInv'
  <2>1. passed' = {}
    BY <1>3 DEF Return
  <2> HIDE DEF b
  <2> QED
    BY <1>1, <1>2, <1>3, <2>1, ComesBack
<1>4. ASSUME \A s \in Sides : ~Out(b, s), ball' = b,
             passed' = passed \cup {s \in Sides : InReach(b, s)},
             UNCHANGED <<score, phase, countdown, winner>>
      PROVE  IInv'
  <2>1. SpeedOK' /\ PassedOK' /\ passed' \subseteq Sides
    BY <1>4, FliesOn
  <2>2. ~Out(ball', 0) /\ ~Out(ball', 1)
    BY <1>4 DEF Sides
  <2> QED
    BY <1>1, <1>2, <1>4, <2>1, <2>2
<1>5. ASSUME NEW s \in Sides, Point(b, Other(s))
      PROVE  IInv'
  <2>1. Other(s) \in Sides
    BY DEF Other, Sides
  <2> QED
    BY <1>5, <2>1, PointIInv
<1> QED
  BY <1>3, <1>4, <1>5 DEF MoveBall

LEMMA SubstepIInv ==
  ASSUME IInv, Substep
  PROVE  IInv'
<1> DEFINE dt == Dt(remaining)
<1>1. remaining \in Nat /\ remaining > 0
  BY DEF Substep, IInv, TypeOK
<1>2. dt \in 1..Sub /\ remaining - dt \in Nat
  BY <1>1, SubstepLength
<1>3. /\ humans' = humans
      /\ remaining' = IF phase' = "finished" THEN 0 ELSE remaining - dt
      /\ IF phase = "serve" THEN CountDown(dt) ELSE MoveBall(dt)
  BY DEF Substep
<1>4. phase \in {"serve", "playing"}
  BY <1>1 DEF IInv, MatchConsistent
<1> HIDE DEF dt
<1>5. remaining' \in Nat /\ (phase' = "finished" => remaining' = 0)
  BY <1>2, <1>3
<1>6. CASE phase = "serve"
  BY <1>2, <1>3, <1>5, <1>6, CountDownIInv
<1>7. CASE phase = "playing"
  BY <1>2, <1>3, <1>5, <1>7, MoveBallIInv
<1> QED
  BY <1>4, <1>6, <1>7

-----------------------------------------------------------------------------
(* The theorems *)

\* Every step keeps the invariant (restart, apply's inputs, update and its
\* substeps).
LEMMA NextIInv == IInv /\ [Next]_vars => IInv'
<1> SUFFICES ASSUME IInv, [Next]_vars PROVE IInv'
  OBVIOUS
<1>1. ASSUME NEW people \in SUBSET Sides, Restart(people) PROVE IInv'
  BY <1>1, RestartIInv
<1>2. ASSUME NEW s \in Sides, Input(s) PROVE IInv'
  BY <1>2, InputIInv
<1>3. CASE Update
  BY <1>3, UpdateIInv
<1>4. CASE Substep
  BY <1>4, SubstepIInv
<1>5. CASE UNCHANGED vars
  BY <1>5 DEF vars, matchVars, IInv, TypeOK, BallOK, SpeedOK, PassedOK, InPlay, MatchConsistent, Out
<1> QED
  BY <1>1, <1>2, <1>3, <1>4, <1>5 DEF Next

\* A match keeps its types, its ball keeps one of the speeds, and in play the
\* ball is between the ends, past no paddle that had no chance to meet it.
THEOREM MatchInvariant == Spec => []IInv
<1> QED
  BY InitIInv, NextIInv, PTL DEF Spec

\* Phase, scores, winner and players agree, whatever is restarted and input
\* (restart, update and point of game.go).
THEOREM MatchStaysConsistent == Spec => []MatchConsistent
<1>1. IInv => MatchConsistent
  BY DEF IInv
<1> QED
  BY <1>1, MatchInvariant, PTL

\* No side concedes a point for a ball that jumped over its paddle: the
\* substeps of update are short enough for every speed that moveBall allows.
THEOREM MatchNoTunnelling == Spec => NoTunnelling
<1> DEFINE Conceded == \A s \in Sides : score'[Other(s)] > score[Other(s)] => s \in passed
<1>1. ASSUME IInv, [Next]_vars PROVE [Conceded]_vars
  <2> SUFFICES ASSUME Next PROVE Conceded
    BY <1>1
  <2>0. score \in [Sides -> Nat] /\ \A s \in Sides : Other(s) \in Sides
    BY <1>1 DEF IInv, TypeOK, Other, Sides
  <2>1. ASSUME score' = score PROVE Conceded
    BY <2>0, <2>1
  <2>2. ASSUME NEW people \in SUBSET Sides, Restart(people) PROVE Conceded
    BY <2>0, <2>2 DEF Restart
  <2>3. ASSUME NEW s \in Sides, Input(s) PROVE Conceded
    BY <2>1, <2>3 DEF Input
  <2>4. CASE Update
    BY <2>1, <2>4 DEF Update
  <2>5. CASE Substep
    <3> DEFINE dt == Dt(remaining)
    <3>1. dt \in 1..Sub
      BY <1>1, <2>5, SubstepLength DEF Substep, IInv, TypeOK
    <3>2. phase \in {"serve", "playing"} /\ IF phase = "serve" THEN CountDown(dt) ELSE MoveBall(dt)
      BY <1>1, <2>5 DEF Substep, IInv, MatchConsistent
    <3> HIDE DEF dt
    <3>3. CASE score' = score
      BY <2>1, <3>3
    <3>4. CASE phase = "playing" /\ \E s \in Sides : Out(Flown(dt), s) /\ Point(Flown(dt), Other(s))
      <4>1. PICK s \in Sides : Out(Flown(dt), s) /\ Point(Flown(dt), Other(s))
        BY <3>4
      <4>2. s \in passed
        BY <1>1, <3>1, <3>4, <4>1, ConcededWasPassed
      <4>3. score' = [score EXCEPT ![Other(s)] = @ + 1]
        BY <4>1 DEF Point
      <4> QED
        BY <2>0, <4>2, <4>3 DEF Other, Sides
    <3> QED
      BY <3>2, <3>3, <3>4 DEF CountDown, MoveBall
  <2> QED
    BY <2>2, <2>3, <2>4, <2>5 DEF Next
<1> QED
  BY <1>1, MatchInvariant, PTL DEF Spec, NoTunnelling
=============================================================================
