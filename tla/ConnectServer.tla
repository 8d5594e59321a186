---------------------------- MODULE ConnectServer ----------------------------
(***************************************************************************)
(* internal/server/server.go: Start runs the HTTP server in a goroutine,   *)
(* waits for a listen error on a channel or for the manager to cancel the  *)
(* context, and then shuts the server down within shutdownTimeout.         *)
(*                                                                         *)
(* http.Server is modelled as Start uses it: ListenAndServe returns        *)
(* ErrServerClosed once Shutdown was called and another error when it      *)
(* cannot listen or accept; Shutdown stops the listener at once, and       *)
(* returns when no request is in progress or when its context is done.     *)
(***************************************************************************)
EXTENDS Naturals, Sequences

CONSTANT Requests   \* requests that may arrive

ErrChCapacity == 1

VARIABLES
  start,        \* where Start is
  result,       \* what Start returned
  listener,     \* where the goroutine is
  errCh,        \* the errors in the channel
  closed,       \* the channel is closed
  ctxDone,      \* the manager has cancelled the context
  inShutdown,   \* Shutdown was called
  request       \* the state of each request

vars == <<start, result, listener, errCh, closed, ctxDone, inShutdown, request>>

ServerTypeOK ==
  /\ start \in {"select", "shutdown", "returned"}
  /\ result \in {"none", "nil", "listen error", "deadline exceeded"}
  /\ listener \in {"begin", "serving", "failed", "close", "ended"}
  /\ errCh \in Seq({"listen error"})
  /\ closed \in BOOLEAN /\ ctxDone \in BOOLEAN /\ inShutdown \in BOOLEAN
  /\ request \in [Requests -> {"waiting", "active", "answered"}]

Init ==
  /\ start = "select" /\ result = "none" /\ listener = "begin"
  /\ errCh = <<>> /\ closed = FALSE /\ ctxDone = FALSE /\ inShutdown = FALSE
  /\ request = [r \in Requests |-> "waiting"]

-----------------------------------------------------------------------------
(* The goroutine and the HTTP server.                                      *)

\* ListenAndServe listens, or returns because of Shutdown or of an error.
Listen ==
  /\ listener = "begin"
  /\ \/ ~inShutdown /\ listener' = "serving"
     \/ inShutdown /\ listener' = "close"
     \/ listener' = "failed"
  /\ UNCHANGED <<start, result, errCh, closed, ctxDone, inShutdown, request>>

StopServing ==
  /\ listener = "serving"
  /\ \/ inShutdown /\ listener' = "close"
     \/ ~inShutdown /\ listener' = "failed"
  /\ UNCHANGED <<start, result, errCh, closed, ctxDone, inShutdown, request>>

\* Mistake: every error is taken for http.ErrServerClosed.
SendNothing ==
  /\ listener = "failed"
  /\ listener' = "close"
  /\ UNCHANGED <<start, result, errCh, closed, ctxDone, inShutdown, request>>

\* Mistake: the channel has no buffer, so someone must be receiving.
SendUnbuffered ==
  /\ listener = "failed" /\ start = "select"
  /\ errCh' = Append(errCh, "listen error")
  /\ listener' = "close"
  /\ UNCHANGED <<start, result, closed, ctxDone, inShutdown, request>>

SendError ==
  /\ listener = "failed" /\ Len(errCh) < ErrChCapacity
  /\ errCh' = Append(errCh, "listen error")
  /\ listener' = "close"
  /\ UNCHANGED <<start, result, closed, ctxDone, inShutdown, request>>

CloseChannel ==
  /\ listener = "close"
  /\ closed' = TRUE /\ listener' = "ended"
  /\ UNCHANGED <<start, result, errCh, ctxDone, inShutdown, request>>

Accept(r) ==
  /\ listener = "serving" /\ ~inShutdown /\ request[r] = "waiting"
  /\ request' = [request EXCEPT ![r] = "active"]
  /\ UNCHANGED <<start, result, listener, errCh, closed, ctxDone, inShutdown>>

\* A handler returns; handlers take as long as the API server makes them.
Finish(r) ==
  /\ request[r] = "active"
  /\ request' = [request EXCEPT ![r] = "answered"]
  /\ UNCHANGED <<start, result, listener, errCh, closed, ctxDone, inShutdown>>

-----------------------------------------------------------------------------
(* Start.                                                                  *)

ReturnFromStart(res) == start' = "returned" /\ result' = res

\* The first case of the select; a closed and empty channel yields nil.
ReceiveError ==
  /\ start = "select"
  /\ \/ /\ errCh # <<>>
        /\ errCh' = Tail(errCh) /\ ReturnFromStart(Head(errCh))
     \/ /\ errCh = <<>> /\ closed
        /\ ReturnFromStart("nil") /\ UNCHANGED errCh
  /\ UNCHANGED <<listener, closed, ctxDone, inShutdown, request>>

\* The second case: Shutdown begins.
BeginShutdown ==
  /\ start = "select" /\ ctxDone
  /\ start' = "shutdown" /\ inShutdown' = TRUE
  /\ UNCHANGED <<result, listener, errCh, closed, ctxDone, request>>

ShutdownDrained ==
  /\ start = "shutdown" /\ \A r \in Requests : request[r] # "active"
  /\ ReturnFromStart("nil")
  /\ UNCHANGED <<listener, errCh, closed, ctxDone, inShutdown, request>>

\* Mistake: Shutdown is given a context without deadline.
NoDeadline == FALSE /\ UNCHANGED vars

ShutdownTimeout ==
  /\ start = "shutdown"
  /\ ReturnFromStart("deadline exceeded")
  /\ UNCHANGED <<listener, errCh, closed, ctxDone, inShutdown, request>>

\* The manager stops.
Cancel ==
  /\ ~ctxDone
  /\ ctxDone' = TRUE
  /\ UNCHANGED <<start, result, listener, errCh, closed, inShutdown, request>>

StartStep == ReceiveError \/ BeginShutdown \/ ShutdownDrained \/ ShutdownTimeout
ListenerStep ==
  Listen \/ (inShutdown /\ StopServing) \/ SendError \/ CloseChannel

Next ==
  \/ ReceiveError \/ BeginShutdown \/ ShutdownDrained \/ ShutdownTimeout
  \/ Listen \/ StopServing \/ SendError \/ CloseChannel
  \/ \E r \in Requests : Accept(r) \/ Finish(r)
  \/ Cancel

Spec == Init /\ [][Next]_vars

(* Fairness: both goroutines run, and the five seconds pass. Handlers, the *)
(* manager and failures of the listener owe nothing.                       *)
FairSpec == Spec /\ WF_vars(StartStep) /\ WF_vars(ListenerStep)

-----------------------------------------------------------------------------

\* Start returns nil only after the manager cancelled the context, with every
\* accepted request answered and the server no longer accepting: neither a
\* listen error nor the closed channel of the select is taken for a shutdown.
NilMeansGraceful ==
  result = "nil" =>
    /\ ctxDone /\ inShutdown
    /\ \A r \in Requests : request[r] # "active"

\* Start does not outlive a cancelled context or a failed listener, however
\* long a handler takes.
StartReturns ==
  (ctxDone \/ listener \in {"failed", "ended"}) ~> start = "returned"

\* The goroutine ends although nobody receives its error when the select took
\* the other case.
GoroutineEnds == start = "returned" ~> listener = "ended"
=============================================================================
