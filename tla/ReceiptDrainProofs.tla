-------------------------- MODULE ReceiptDrainProofs --------------------------
(***************************************************************************)
(* Proofs about ReceiptDrain for every capacity of the channel and every   *)
(* number of messages.                                                     *)
(*                                                                         *)
(* The receipts are numbered 1, 2, ... in the order of admission.  The     *)
(* invariant splits them into those whose turn was only committed, those   *)
(* in the channel, those the drain awaits and those it has taken.          *)
(***************************************************************************)
EXTENDS ReceiptDrain, TLAPS

\* Receipts the drain has received, and those whose result it has taken
Received == Sent - Len(stream)
Taken    == (1..Received) \ pending

\* The session loop: what it admits fits in the bound, what it sends in the channel.
SessionInv ==
    /\ session \in {"reserving", "reserved"} => admitted < MaxMessages
    /\ session = "committed" => admitted > 0
    /\ Len(stream) + Permits <= Capacity

\* The channel is closed with the disposition, and its end is seen only when no
\* permit is out.
CloseInv ==
    /\ disposition # None => ~open
    /\ drain # "selecting" => disposition # None
    /\ drain # "done" => disposition # "timed_out"
    /\ deadline => disposition # None
    /\ ~isStreamOpen => ~open /\ stream = <<>> /\ Permits = 0

\* The channel holds the receipts after the received ones, in their order.
StreamInv ==
    drain # "done" =>
        /\ Len(stream) <= Sent
        /\ \A k \in 1..Len(stream) : stream[k] = Received + k
        /\ identity = IF Received = 0 THEN None ELSE Received

\* A received receipt is awaited or taken with its turn ended; the latest taken one
\* is remembered.
ResultInv ==
    drain # "done" =>
        /\ pending \subseteq 1..Received
        /\ Taken \cap running = {}
        /\ Taken = {} => final = None
        /\ Taken # {} => final \in Taken /\ \A i \in Taken : i <= final

IInv == TypeOK /\ SessionInv /\ CloseInv /\ StreamInv /\ ResultInv /\ SettlementIsComplete

----------------------------------------------------------------------------
\* Sequences of receipts: the empty channel.
LEMMA EmptySequence ==
    ASSUME NEW S PROVE <<>> \in Seq(S) /\ Len(<<>>) = 0
  OBVIOUS

\* Append adds one receipt and moves none.
LEMMA AppendFacts ==
    ASSUME NEW S, NEW s \in Seq(S), NEW e \in S
    PROVE  /\ Append(s, e) \in Seq(S) /\ Len(Append(s, e)) = Len(s) + 1
           /\ \A k \in 1..Len(s) : Append(s, e)[k] = s[k]
           /\ Append(s, e)[Len(s) + 1] = e
  OBVIOUS

\* Tail drops the head and moves the others down by one.
LEMMA TailFacts ==
    ASSUME NEW S, NEW s \in Seq(S), s # <<>>
    PROVE  /\ Len(s) \in Nat \ {0} /\ Head(s) = s[1] /\ s[1] \in S
           /\ Tail(s) \in Seq(S) /\ Len(Tail(s)) = Len(s) - 1
           /\ \A k \in 1..(Len(s) - 1) : Tail(s)[k] = s[k + 1]
  OBVIOUS

\* The invariant holds initially.
LEMMA InitIInv == Init => IInv
  <1> SUFFICES ASSUME Init PROVE IInv
    OBVIOUS
  <1>1. stream \in Seq(Messages) /\ Len(stream) = 0
    BY EmptySequence DEF Init
  <1>2. /\ running = {} /\ pending = {} /\ admitted = 0 /\ session = "idle"
        /\ drain = "selecting" /\ disposition = None /\ finalization = None
        /\ identity = None /\ final = None
        /\ open \in BOOLEAN /\ cancelled \in BOOLEAN /\ isStreamOpen \in BOOLEAN /\ deadline \in BOOLEAN
    BY DEF Init
  <1>3. TypeOK
    BY <1>1, <1>2, ReceiptAssumption DEF TypeOK
  <1>4. Sent = 0 /\ Received = 0
    BY <1>1, <1>2 DEF Sent, Received
  <1>5. SessionInv /\ CloseInv /\ SettlementIsComplete
    BY <1>1, ReceiptAssumption DEF Init, SessionInv, CloseInv, SettlementIsComplete, Permits
  <1>6. StreamInv
    BY <1>1, <1>2, <1>4 DEF StreamInv
  <1>7. Taken = {}
    BY <1>4 DEF Taken
  <1>8. ResultInv
    BY <1>2, <1>7 DEF ResultInv
  <1> QED
    BY <1>3, <1>5, <1>6, <1>8 DEF IInv

\* A delivery reaches the session loop: it may still be rejected.
LEMMA DeliverIInv ==
    ASSUME IInv, Deliver PROVE IInv'
  <1> USE ReceiptAssumption DEF IInv, Deliver
  <1>1. TypeOK'
    BY DEF TypeOK, drainVars
  <1>2. SessionInv' /\ CloseInv'
    BY DEF SessionInv, CloseInv, Permits, drainVars
  <1>3. StreamInv'
    BY DEF StreamInv, Sent, Received, drainVars
  <1>4. ResultInv'
    BY DEF ResultInv, Taken, Sent, Received, drainVars
  <1>5. SettlementIsComplete'
    BY DEF SettlementIsComplete, drainVars
  <1> QED
    BY <1>1, <1>2, <1>3, <1>4, <1>5

\* A permit is taken only while the channel is open and has a free place.
LEMMA ReserveIInv ==
    ASSUME IInv, Reserve PROVE IInv'
  <1> USE ReceiptAssumption DEF IInv, Reserve
  <1>1. TypeOK'
    BY DEF TypeOK, drainVars
  <1>2. SessionInv' /\ CloseInv'
    BY DEF SessionInv, CloseInv, Permits, drainVars
  <1>3. StreamInv'
    BY DEF StreamInv, Sent, Received, drainVars
  <1>4. ResultInv'
    BY DEF ResultInv, Taken, Sent, Received, drainVars
  <1>5. SettlementIsComplete'
    BY DEF CloseInv, SettlementIsComplete, drainVars
  <1> QED
    BY <1>1, <1>2, <1>3, <1>4, <1>5

\* The permit is given back.
LEMMA RejectIInv ==
    ASSUME IInv, Reject PROVE IInv'
  <1> USE ReceiptAssumption DEF IInv, Reject
  <1>1. TypeOK'
    BY DEF TypeOK, drainVars
  <1>2. SessionInv' /\ CloseInv'
    BY DEF SessionInv, CloseInv, Permits, drainVars
  <1>3. StreamInv'
    BY DEF StreamInv, Sent, Received, drainVars
  <1>4. ResultInv'
    BY DEF ResultInv, Taken, Sent, Received, drainVars
  <1>5. SettlementIsComplete'
    BY DEF SettlementIsComplete, drainVars
  <1> QED
    BY <1>1, <1>2, <1>3, <1>4, <1>5

\* The message is admitted; its receipt is not sent yet.
LEMMA CommitIInv ==
    ASSUME IInv, Commit PROVE IInv'
  <1> USE ReceiptAssumption DEF IInv, Commit
  <1>1. TypeOK'
    BY DEF TypeOK, Messages, SessionInv, drainVars
  <1>2. SessionInv' /\ CloseInv'
    BY DEF TypeOK, SessionInv, CloseInv, Permits, drainVars
  <1>3. StreamInv'
    BY DEF TypeOK, StreamInv, Sent, Received, drainVars
  <1>4. ResultInv'
    BY DEF TypeOK, StreamInv, ResultInv, Taken, Sent, Received, drainVars
  <1>5. SettlementIsComplete'
    BY DEF SettlementIsComplete, drainVars
  <1> QED
    BY <1>1, <1>2, <1>3, <1>4, <1>5

\* The receipt joins the end of the channel, in the place its permit kept.
LEMMA SendReceiptIInv ==
    ASSUME IInv, SendReceipt PROVE IInv'
  <1> USE ReceiptAssumption DEF IInv, SendReceipt
  <1>1. CASE drain = "done"
    BY <1>1 DEF TypeOK, SessionInv, CloseInv, StreamInv, ResultInv, SettlementIsComplete,
                drainVars, Permits
  <1>2. CASE drain # "done"
    <2>1. stream' = Append(stream, admitted) /\ admitted \in Messages /\ stream \in Seq(Messages)
      BY <1>2 DEF TypeOK, SessionInv, Messages
    <2>2. /\ stream' \in Seq(Messages) /\ Len(stream') = Len(stream) + 1 /\ Len(stream) \in Nat
          /\ \A k \in 1..Len(stream) : stream'[k] = stream[k]
          /\ stream'[Len(stream) + 1] = admitted
      BY <2>1, AppendFacts
    <2>3. TypeOK' /\ SessionInv'
      BY <2>2 DEF TypeOK, SessionInv, drainVars, Permits, Messages
    <2>4. CloseInv' /\ SettlementIsComplete'
      BY <1>2 DEF TypeOK, CloseInv, SettlementIsComplete, drainVars, Permits
    <2>5. Sent = admitted - 1 /\ Sent' = admitted /\ Received' = Received
      BY <2>2 DEF TypeOK, Sent, Received
    <2>6. StreamInv'
      <3>1. ASSUME NEW k \in 1..Len(stream') PROVE stream'[k] = Received' + k
        BY <1>2, <2>2, <2>5 DEF TypeOK, StreamInv, Received
      <3> QED
        BY <1>2, <2>2, <2>5, <3>1 DEF TypeOK, StreamInv, drainVars
    <2>7. ResultInv'
      BY <1>2, <2>5 DEF ResultInv, Taken, drainVars
    <2> QED
      BY <2>3, <2>4, <2>6, <2>7
  <1> QED
    BY <1>1, <1>2

\* A turn ends: a receipt can only become ready.
LEMMA TurnEndsIInv ==
    ASSUME IInv, NEW i \in running, TurnEnds(i) PROVE IInv'
  <1> USE ReceiptAssumption DEF IInv, TurnEnds
  <1>1. TypeOK'
    BY DEF TypeOK, drainVars
  <1>2. SessionInv' /\ CloseInv'
    BY DEF SessionInv, CloseInv, Permits, drainVars
  <1>3. StreamInv'
    BY DEF StreamInv, Sent, Received, drainVars
  <1>4. ResultInv'
    BY DEF ResultInv, Taken, Sent, Received, drainVars
  <1>5. SettlementIsComplete'
    BY DEF SettlementIsComplete, drainVars
  <1> QED
    BY <1>1, <1>2, <1>3, <1>4, <1>5

\* settle() only leaves a word for the drain.
LEMMA SettleIInv ==
    ASSUME IInv, NEW kind \in {"settled", "uncertain"}, Settle(kind) PROVE IInv'
  <1> USE ReceiptAssumption DEF IInv, Settle
  <1>1. TypeOK'
    BY DEF TypeOK, sessionVars, drainVars
  <1>2. SessionInv' /\ CloseInv'
    BY DEF SessionInv, CloseInv, Permits, sessionVars, drainVars
  <1>3. StreamInv'
    BY DEF StreamInv, Sent, Received, sessionVars, drainVars
  <1>4. ResultInv'
    BY DEF ResultInv, Taken, Sent, Received, sessionVars, drainVars
  <1>5. SettlementIsComplete'
    BY DEF SettlementIsComplete, sessionVars, drainVars
  <1> QED
    BY <1>1, <1>2, <1>3, <1>4, <1>5

\* So does a cancellation.
LEMMA CancelChildIInv ==
    ASSUME IInv, CancelChild PROVE IInv'
  <1> USE ReceiptAssumption DEF IInv, CancelChild
  <1>1. TypeOK'
    BY DEF TypeOK, sessionVars, drainVars
  <1>2. SessionInv' /\ CloseInv'
    BY DEF SessionInv, CloseInv, Permits, sessionVars, drainVars
  <1>3. StreamInv'
    BY DEF StreamInv, Sent, Received, sessionVars, drainVars
  <1>4. ResultInv'
    BY DEF ResultInv, Taken, Sent, Received, sessionVars, drainVars
  <1>5. SettlementIsComplete'
    BY DEF SettlementIsComplete, sessionVars, drainVars
  <1> QED
    BY <1>1, <1>2, <1>3, <1>4, <1>5

\* The drain returns: nothing is in the channel, awaited, or on its way.
LEMMA ReturnIInv ==
    ASSUME IInv, Return PROVE IInv'
  <1> USE ReceiptAssumption DEF IInv, Return, Returns
  <1>1. TypeOK' /\ SessionInv' /\ CloseInv' /\ StreamInv' /\ ResultInv'
    BY DEF TypeOK, SessionInv, CloseInv, StreamInv, ResultInv, Permits, sessionVars
  <1>2. /\ session \in {"idle", "reserving"} /\ Sent = admitted /\ Received = admitted
        /\ admitted \in Nat /\ running \subseteq 1..admitted
    BY EmptySequence DEF TypeOK, CloseInv, Permits, Sent, Received
  <1>3. Taken = 1..admitted
    BY <1>2 DEF Taken
  <1>4. running = {}
    BY <1>2, <1>3 DEF ResultInv
  <1>5. final = IF admitted = 0 THEN None ELSE admitted
    <2>1. CASE admitted = 0
      BY <1>3, <2>1 DEF ResultInv
    <2>2. CASE admitted # 0
      BY <1>2, <1>3, <2>2 DEF ResultInv
    <2> QED
      BY <2>1, <2>2
  <1> QED
    BY <1>1, <1>2, <1>4, <1>5 DEF SettlementIsComplete, sessionVars

\* The channel is closed with the disposition.
LEMMA FinalizeIInv ==
    ASSUME IInv, Finalize PROVE IInv'
  <1> USE ReceiptAssumption DEF IInv, Finalize, Selecting, FinalizationReady
  <1>1. TypeOK'
    BY DEF TypeOK, sessionVars
  <1>2. SessionInv' /\ CloseInv'
    BY DEF SessionInv, CloseInv, Permits, sessionVars
  <1>3. StreamInv'
    BY DEF StreamInv, Sent, Received, sessionVars
  <1>4. ResultInv'
    BY DEF ResultInv, Taken, Sent, Received, sessionVars
  <1>5. SettlementIsComplete'
    BY DEF SettlementIsComplete, sessionVars
  <1> QED
    BY <1>1, <1>2, <1>3, <1>4, <1>5

\* A cancellation after a clean finalization.
LEMMA NoticeCancelIInv ==
    ASSUME IInv, NoticeCancel PROVE IInv'
  <1> USE ReceiptAssumption DEF IInv, NoticeCancel, Selecting, CancelReady
  <1>1. TypeOK'
    BY DEF TypeOK, sessionVars
  <1>2. SessionInv' /\ CloseInv'
    BY DEF SessionInv, CloseInv, Permits, sessionVars
  <1>3. StreamInv'
    BY DEF StreamInv, Sent, Received, sessionVars
  <1>4. ResultInv'
    BY DEF ResultInv, Taken, Sent, Received, sessionVars
  <1>5. SettlementIsComplete'
    BY DEF SettlementIsComplete, sessionVars
  <1> QED
    BY <1>1, <1>2, <1>3, <1>4, <1>5

\* The head of the channel is the receipt after the last received one.
LEMMA ReceiveIInv ==
    ASSUME IInv, Receive PROVE IInv'
  <1> USE ReceiptAssumption DEF IInv, Receive, Selecting
  <1>0. drain = "selecting" /\ drain' = "selecting"
    OBVIOUS
  <1>1. CASE stream = <<>>
    <2>1. ~open /\ Permits = 0
      BY <1>1 DEF RecvReady
    <2>2. TypeOK' /\ SessionInv'
      <3>1. TypeOK'
        BY ZenonT(60), <1>1 DEF TypeOK, sessionVars
      <3>2. SessionInv'
        BY <1>1 DEF TypeOK, SessionInv, sessionVars, Permits
      <3> QED
        BY <3>1, <3>2
    <2>3. CloseInv' /\ SettlementIsComplete'
      BY <1>0, <1>1, <2>1 DEF TypeOK, CloseInv, SettlementIsComplete, sessionVars, Permits
    <2>4. StreamInv' /\ ResultInv'
      BY <1>0, <1>1 DEF StreamInv, ResultInv, Sent, Received, Taken, sessionVars
    <2> QED
      BY <2>2, <2>3, <2>4
  <1>2. CASE stream # <<>>
    <2>1. stream \in Seq(Messages)
      BY DEF TypeOK
    <2>2. /\ Len(stream) \in Nat \ {0} /\ Head(stream) = stream[1] /\ stream[1] \in Messages
          /\ stream' \in Seq(Messages) /\ Len(stream') = Len(stream) - 1
          /\ \A k \in 1..(Len(stream) - 1) : stream'[k] = stream[k + 1]
      BY <1>2, <2>1, TailFacts
    <2>3. Sent' = Sent /\ Received' = Received + 1 /\ Sent \in Nat /\ Received \in Nat
          /\ Received' \in 1..admitted
      BY <1>0, <2>2 DEF TypeOK, SessionInv, StreamInv, Sent, Received, sessionVars
    <2>4. Head(stream) = Received' /\ identity' = Received' /\ pending' = pending \cup {Received'}
      BY <1>0, <1>2, <2>2, <2>3 DEF StreamInv
    <2>5. TypeOK'
      BY <1>2, <2>2, <2>3, <2>4 DEF TypeOK, Messages, sessionVars
    <2>6. SessionInv' /\ CloseInv' /\ SettlementIsComplete'
      BY <1>0, <1>2, <2>2 DEF TypeOK, SessionInv, CloseInv, SettlementIsComplete, sessionVars, Permits
    <2>7. StreamInv'
      <3>1. ASSUME NEW k \in 1..Len(stream') PROVE stream'[k] = Received' + k
        BY <1>0, <2>2, <2>3 DEF StreamInv
      <3> QED
        BY <1>0, <2>2, <2>3, <2>4, <3>1 DEF StreamInv, Received
    <2>8. Taken' = Taken
      BY <2>3, <2>4 DEF Taken
    <2>9. ResultInv'
      BY <1>0, <2>3, <2>4, <2>8 DEF ResultInv, sessionVars
    <2> QED
      BY <2>5, <2>6, <2>7, <2>9
  <1> QED
    BY <1>1, <1>2

\* The latest taken receipt is kept, in whatever order results come.
LEMMA TakeResultIInv ==
    ASSUME IInv, NEW i \in pending, TakeResult(i) PROVE IInv'
  <1> USE ReceiptAssumption DEF IInv, TakeResult, Selecting
  <1>1. TypeOK'
    BY DEF TypeOK, Messages, Latest, sessionVars
  <1>2. SessionInv' /\ CloseInv' /\ StreamInv'
    BY DEF SessionInv, CloseInv, StreamInv, Sent, Received, Permits, sessionVars
  <1>3. SettlementIsComplete'
    BY DEF SettlementIsComplete
  <1>4. ResultInv'
    <2>1. /\ drain # "done" /\ Received' = Received
          /\ Received \in Nat /\ i \in 1..Received /\ i \notin running
      BY DEF TypeOK, SessionInv, StreamInv, ResultInv, Sent, Received, sessionVars
    <2>2. Taken' = Taken \cup {i} /\ Taken \subseteq Nat
      BY <2>1 DEF Taken, ResultInv
    <2>3. final' = Latest(i) /\ i \in Nat
      BY <2>1
    <2>4. final' \in Taken' /\ \A j \in Taken' : j <= final'
      <3>1. CASE Taken = {}
        BY <2>1, <2>2, <2>3, <3>1 DEF ResultInv, Latest
      <3>2. CASE Taken # {}
        <4>1. final \in Taken /\ final \in Nat /\ final # None /\ \A j \in Taken : j <= final
          BY <2>1, <2>2, <3>2 DEF ResultInv
        <4> QED
          BY <2>2, <2>3, <4>1 DEF Latest
      <3> QED
        BY <3>1, <3>2
    <2> QED
      BY <2>1, <2>2, <2>4 DEF ResultInv, sessionVars
  <1> QED
    BY <1>1, <1>2, <1>3, <1>4

\* The deadline is seen.
LEMMA ExpireIInv ==
    ASSUME IInv, Expire PROVE IInv'
  <1> USE ReceiptAssumption DEF IInv, Expire, Selecting
  <1>1. TypeOK'
    BY DEF TypeOK, sessionVars
  <1>2. SessionInv' /\ CloseInv'
    BY DEF SessionInv, CloseInv, Permits, sessionVars
  <1>3. StreamInv'
    BY DEF StreamInv, Sent, Received, sessionVars
  <1>4. ResultInv'
    BY DEF ResultInv, Taken, Sent, Received, sessionVars
  <1>5. SettlementIsComplete'
    BY DEF SettlementIsComplete, sessionVars
  <1> QED
    BY <1>1, <1>2, <1>3, <1>4, <1>5

\* The settlement that is forced.
LEMMA ForceTimeoutIInv ==
    ASSUME IInv, ForceTimeout PROVE IInv'
  <1> USE ReceiptAssumption DEF IInv, ForceTimeout
  <1>1. TypeOK'
    BY DEF TypeOK, sessionVars
  <1>2. SessionInv' /\ CloseInv'
    BY DEF SessionInv, CloseInv, Permits, sessionVars
  <1>3. StreamInv'
    BY DEF StreamInv, Sent, Received, sessionVars
  <1>4. ResultInv'
    BY DEF ResultInv, Taken, Sent, Received, sessionVars
  <1>5. SettlementIsComplete'
    BY DEF SettlementIsComplete, sessionVars
  <1> QED
    BY <1>1, <1>2, <1>3, <1>4, <1>5

----------------------------------------------------------------------------
\* Steps of nobody
LEMMA StutterIInv ==
    ASSUME IInv, UNCHANGED vars PROVE IInv'
  BY DEF IInv, vars, TypeOK, SessionInv, CloseInv, StreamInv, ResultInv, SettlementIsComplete,
         Sent, Received, Taken, Permits

\* Every step keeps the invariant.
LEMMA NextIInv ==
    ASSUME IInv, [Next]_vars PROVE IInv'
  <1>1. CASE SessionLoop
    BY <1>1, ReserveIInv, RejectIInv, CommitIInv, SendReceiptIInv DEF SessionLoop
  <1>2. CASE Deliver
    BY <1>2, DeliverIInv
  <1>3. CASE \E i \in running : TurnEnds(i)
    BY <1>3, TurnEndsIInv
  <1>4. CASE \E kind \in {"settled", "uncertain"} : Settle(kind)
    BY <1>4, SettleIInv
  <1>5. CASE CancelChild
    BY <1>5, CancelChildIInv
  <1>6. CASE Drain
    BY <1>6, ReturnIInv, FinalizeIInv, NoticeCancelIInv, ReceiveIInv, ExpireIInv, ForceTimeoutIInv,
       TakeResultIInv DEF Drain
  <1>7. CASE UNCHANGED vars
    BY <1>7, StutterIInv
  <1> QED
    BY <1>1, <1>2, <1>3, <1>4, <1>5, <1>6, <1>7 DEF Next

\* The inductive invariant holds of the receipt protocol, for every capacity of the
\* channel and every number of messages.
THEOREM Invariance == Spec => []IInv
  BY InitIInv, NextIInv, PTL DEF Spec

\* Type correctness of the drain, the channel's capacity included: a permit is taken
\* before a message is admitted, so a receipt always finds its place.
THEOREM TypeCorrect == Spec => []TypeOK
  <1>1. IInv => TypeOK
    BY DEF IInv
  <1> QED
    BY <1>1, Invariance, PTL

\* When drain_prompt_turn_receipts returns without a timeout, the turn of every
\* message the session admitted has ended and the settlement names the last one.
THEOREM SettlementCorrect == Spec => []SettlementIsComplete
  <1>1. IInv => SettlementIsComplete
    BY DEF IInv
  <1> QED
    BY <1>1, Invariance, PTL

\* force_receipt_settlement_timeout names the last message whose receipt was sent.
THEOREM TimeoutCorrect == Spec => TimeoutNamesLatest
  <1>1. IInv /\ [Next]_vars =>
          [drain # "done" /\ disposition' = "timed_out" =>
             final' = IF Sent = 0 THEN None ELSE Sent]_vars
    <2> SUFFICES ASSUME IInv, Next, drain # "done", disposition' = "timed_out"
                 PROVE  final' = IF Sent = 0 THEN None ELSE Sent
      OBVIOUS
    <2>1. disposition # "timed_out"
      BY DEF IInv, CloseInv
    <2>2. ForceTimeout
      BY <2>1 DEF Next, SessionLoop, Deliver, Reserve, Reject, Commit, SendReceipt, TurnEnds,
         Settle, CancelChild, Drain, Return, Finalize, NoticeCancel, Receive, TakeResult, Expire,
         drainVars
    <2>3. final' = identity' /\ stream \in Seq(Messages) /\ Len(stream) \in Nat /\ Sent \in Nat
      BY <2>2 DEF ForceTimeout, IInv, TypeOK, SessionInv, Sent
    <2>4. CASE stream = <<>>
      <3>1. identity = IF Sent = 0 THEN None ELSE Sent
        BY <2>3, <2>4, EmptySequence DEF IInv, StreamInv, Received
      <3> QED
        BY <2>2, <2>3, <2>4, <3>1 DEF ForceTimeout
    <2>5. CASE stream # <<>>
      <3>1. Len(stream) \in Nat \ {0} /\ Len(stream) <= Sent
        BY <2>3, <2>5, TailFacts DEF IInv, StreamInv
      <3>2. stream[Len(stream)] = Sent
        BY <2>3, <3>1 DEF IInv, StreamInv, Received
      <3> QED
        BY <2>2, <2>3, <2>5, <3>1, <3>2 DEF ForceTimeout
    <2> QED
      BY <2>4, <2>5
  <1> QED
    BY <1>1, Invariance, PTL DEF Spec, TimeoutNamesLatest
===============================================================================
