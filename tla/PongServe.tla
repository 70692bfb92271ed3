----------------------------- MODULE PongServe -------------------------------
(***************************************************************************)
(* The Pong server as a whole: serve (examples/pong/main.go) with the hub, *)
(* the handlers and the HTTP server as its goroutines.  It waits for an    *)
(* interrupt or for one of the two to end, and then takes everything down  *)
(* in an order that lets each wait end.                                    *)
(***************************************************************************)
EXTENDS PongHub

\* nil is no error.
ASSUME PongServeAssumption == None \notin {"canceled", "failed", "closed", "timeout"}

VARIABLES
  main,         \* where serve is: see MainPlaces
  interrupted,  \* parent is cancelled
  runError,     \* what h.run returns, once it stops
  http,         \* what server.Serve did: see HttpPlaces
  result,       \* the variable result
  taken         \* the goroutines whose result was received: see Goroutines

mainVars == <<main, interrupted, runError, http, result, taken>>
serveVars == <<vars, mainVars>>

\* "shutdown": inside server.Shutdown.  "wait": receiving from the goroutines.
MainPlaces == {"select", "shutdown", "wait", "returned"}
HttpPlaces == {"serving", "failed", "closed"}
Goroutines == {"game", "http"}

ServeInit ==
  /\ Init
  /\ main = "select" /\ interrupted = FALSE
  /\ runError = None /\ http = "serving"
  /\ result = None /\ taken = {}

\* Mutant: serve does not cancel the context itself.
OnlyInterrupted == interrupted

\* The context the hub runs under, a child of the one that is interrupted.
CtxCancelled == interrupted \/ main # "select"

-----------------------------------------------------------------------------
(* The goroutines of the hub, of HTTP and of the handlers *)

\* The context is looked at before each tick.
HubRuns ==
  /\ at = "idle" => ~CtxCancelled
  /\ HubStep
  /\ UNCHANGED mainVars

\* Cancelled, or failed: simulation time is used up.
HubStops ==
  /\ Stop
  /\ runError' = IF CtxCancelled THEN "canceled" ELSE "failed"
  /\ UNCHANGED <<main, interrupted, http, result, taken>>

\* The listener fails, and Serve returns.
HttpFails ==
  /\ main = "select" /\ http = "serving"
  /\ http' = "failed"
  /\ UNCHANGED <<vars, main, interrupted, runError, result, taken>>

\* Connections that are open bring requests also when the listener failed, and
\* those accepted before Shutdown closed it until Shutdown returns.
Requests == main \in {"select", "shutdown"} /\ Arrivals /\ UNCHANGED mainVars

Handlers == HandlerStep /\ UNCHANGED mainVars

Interrupt ==
  /\ main = "select" /\ ~interrupted
  /\ interrupted' = TRUE
  /\ UNCHANGED <<vars, main, runError, http, result, taken>>

-----------------------------------------------------------------------------
(* serve *)

\* The select takes any of the three that is ready; a goroutine's channel has
\* room for its result, so that it is ready as soon as the goroutine ends.  Then
\* cancel(), and Shutdown closes the listener, on which Serve returns.
Select ==
  /\ main = "select"
  /\ \/ interrupted /\ UNCHANGED <<result, taken>>
     \/ at = "stopped" /\ result' = runError /\ taken' = {"game"}
     \/ http = "failed" /\ result' = http /\ taken' = {"http"}
  /\ main' = "shutdown"
  /\ http' = IF http = "serving" THEN "closed" ELSE http
  /\ UNCHANGED <<vars, interrupted, runError>>

ShutdownCompletes ==
  /\ main = "shutdown" /\ ~HandlersActive
  /\ main' = "wait"
  /\ UNCHANGED <<vars, interrupted, runError, http, result, taken>>

\* Five seconds are over: the connections are closed, which no handler need
\* notice at once.
ShutdownTimesOut ==
  /\ main = "shutdown" /\ HandlersActive
  /\ main' = "wait"
  /\ result' = IF result = None THEN "timeout" ELSE result
  /\ UNCHANGED <<vars, interrupted, runError, http, taken>>

\* Mutant: what is received overwrites result.
LastOf(old, received) == IF received = None THEN old ELSE received

\* if result == nil { result = err }.
FirstOf(old, received) == IF old = None THEN received ELSE old

\* The goroutines that were not received from are, the game first.
Return ==
  /\ main = "wait" /\ ("game" \notin taken => at = "stopped")
  /\ main' = "returned" /\ taken' = Goroutines
  /\ LET game == IF "game" \in taken THEN result ELSE FirstOf(result, runError)
     IN  result' = IF "http" \in taken THEN game ELSE FirstOf(game, http)
  /\ UNCHANGED <<vars, interrupted, runError, http>>

\* Canceled and ErrServerClosed count as success.
ReturnsNil == main = "returned" /\ result \in {"canceled", "closed"}

Main == Select \/ ShutdownCompletes \/ ShutdownTimesOut \/ Return

ServeNext == HubRuns \/ HubStops \/ HttpFails \/ Requests \/ Handlers \/ Interrupt \/ Main

ServeSpec == ServeInit /\ [][ServeNext]_serveVars

\* The listener need not fail, nor the simulation's time run out, nor anybody
\* interrupt.  Shutdown's timer of five seconds fires.
ServeFairSpec ==
  /\ ServeSpec
  /\ WF_serveVars(HubRuns) /\ WF_serveVars(CtxCancelled /\ HubStops)
  /\ WF_serveVars(Main)
  /\ HandlerFairness

-----------------------------------------------------------------------------
(* Properties *)

\* serve returns once it is interrupted or one of its goroutines ended, however
\* many streams, queued actions and requests the shutdown meets ("End event
\* streams before waiting for HTTP shutdown").
ServeReturns == interrupted \/ at = "stopped" \/ http # "serving" ~> main = "returned"

\* When serve returns both goroutines have ended; and it reports success only
\* if it was interrupted and the simulation did not fail, whichever result the
\* select took first and whatever the shutdown did.
NilMeansInterrupted ==
  /\ main = "returned" => at = "stopped" /\ http # "serving"
  /\ ReturnsNil => interrupted /\ runError = "canceled"
=============================================================================
