------------------------- MODULE ConnectServerProofs -------------------------
(***************************************************************************)
(* Start returns nil only after a graceful shutdown, for any set of        *)
(* requests.                                                               *)
(***************************************************************************)
EXTENDS ConnectServer, SequenceTheorems, TLAPS

\* The error channel of server.go holds listen errors only and is closed
\* empty only when Shutdown was called; Shutdown is called only by Start.
ServerInv ==
  /\ ServerTypeOK
  /\ inShutdown => ctxDone
  /\ inShutdown <=> start = "shutdown" \/ result \in {"nil", "deadline exceeded"}
  /\ result # "none" <=> start = "returned"
  /\ listener \in {"close", "ended"} => inShutdown \/ errCh # <<>> \/ start = "returned"
  /\ closed => listener = "ended"
  /\ NilMeansGraceful

\* Every state of ConnectServer satisfies the strengthened invariant initially.
LEMMA ServerInit == Init => ServerInv
<1> SUFFICES ASSUME Init PROVE ServerInv
  OBVIOUS
<1>1. ServerTypeOK
  <2>1. errCh \in Seq({"listen error"})
    BY DEF Init
  <2>2. closed \in BOOLEAN /\ ctxDone \in BOOLEAN /\ inShutdown \in BOOLEAN
    BY Zenon DEF Init
  <2> QED
    BY <2>1, <2>2 DEF Init, ServerTypeOK
<1>2. ~inShutdown /\ ~closed /\ ~ctxDone
  BY Zenon DEF Init
<1> QED
  BY <1>1, <1>2 DEF Init, ServerInv, NilMeansGraceful

\* Every step of Start, of the goroutine, of a request and of the manager
\* keeps it.
LEMMA ServerStep == ServerInv /\ [Next]_vars => ServerInv'
<1> SUFFICES ASSUME ServerInv, [Next]_vars PROVE ServerInv'
  OBVIOUS
<1> USE DEF ServerInv, ServerTypeOK, NilMeansGraceful
<1>1. CASE ReceiveError
  <2>1. CASE errCh # <<>> /\ errCh' = Tail(errCh) /\ ReturnFromStart(Head(errCh))
    <3>1. Head(errCh) = "listen error" /\ errCh' \in Seq({"listen error"})
      <4> HIDE DEF ServerInv, ServerTypeOK
      <4>1. errCh \in Seq({"listen error"}) /\ errCh # <<>>
        BY <2>1 DEF ServerInv, ServerTypeOK
      <4>2. Head(errCh) \in {"listen error"} /\ Tail(errCh) \in Seq({"listen error"})
        BY <4>1, HeadTailProperties
      <4> QED
        BY <2>1, <4>2
    <3> QED
      BY <1>1, <2>1, <3>1 DEF ReceiveError, ReturnFromStart
  <2>2. CASE errCh = <<>> /\ closed /\ ReturnFromStart("nil") /\ UNCHANGED errCh
    BY <1>1, <2>2, Zenon DEF ReceiveError, ReturnFromStart
  <2> QED
    BY <1>1, <2>1, <2>2 DEF ReceiveError
<1>2. CASE BeginShutdown
  BY <1>2 DEF BeginShutdown
<1>3. CASE ShutdownDrained
  BY <1>3 DEF ShutdownDrained, ReturnFromStart
<1>4. CASE ShutdownTimeout
  BY <1>4 DEF ShutdownTimeout, ReturnFromStart
<1>5. CASE Listen
  BY <1>5 DEF Listen
<1>6. CASE StopServing
  BY <1>6 DEF StopServing
<1>7. CASE SendError
  <2>1. errCh' \in Seq({"listen error"}) /\ errCh' # <<>>
    <3> HIDE DEF ServerInv, ServerTypeOK
    <3>1. errCh \in Seq({"listen error"}) /\ errCh' = Append(errCh, "listen error")
      BY <1>7 DEF SendError, ServerInv, ServerTypeOK
    <3>2. "listen error" \in {"listen error"}
      OBVIOUS
    <3>3. Append(errCh, "listen error") \in Seq({"listen error"})
            /\ Append(errCh, "listen error") # <<>>
      BY <3>1, <3>2, AppendProperties
    <3> QED
      BY <3>1, <3>3
  <2> QED
    BY <1>7, <2>1 DEF SendError
<1>8. CASE CloseChannel
  <2>1. closed' \in BOOLEAN
    BY <1>8, Zenon DEF CloseChannel
  <2> QED
    BY <1>8, <2>1 DEF CloseChannel
<1>9. CASE \E r \in Requests : Accept(r) \/ Finish(r)
  <2>1. PICK r \in Requests : Accept(r) \/ Finish(r)
    BY <1>9
  <2>2. CASE Accept(r)
    BY <2>2 DEF Accept
  <2>3. CASE Finish(r)
    BY <2>3 DEF Finish
  <2> QED
    BY <2>1, <2>2, <2>3
<1>10. CASE Cancel
  BY <1>10 DEF Cancel
<1>11. CASE UNCHANGED vars
  BY <1>11 DEF vars
<1> QED
  BY <1>1, <1>2, <1>3, <1>4, <1>5, <1>6, <1>7, <1>8, <1>9, <1>10, <1>11
     DEF Next

\* Start of server.go returns nil only after the context was cancelled, with
\* every accepted request answered.
THEOREM NilIsGraceful == Spec => []NilMeansGraceful
<1>1. ServerInv => NilMeansGraceful
  BY DEF ServerInv
<1> QED
  BY ServerInit, ServerStep, <1>1, PTL DEF Spec
=============================================================================
