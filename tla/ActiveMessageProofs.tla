------------------------- MODULE ActiveMessageProofs -------------------------
(***************************************************************************)
(* Proofs about ActiveMessage, for any set of children, any finite set of  *)
(* messages and any limits.  The inductive invariant IInv ties together    *)
(* what the coordinator remembers of a message (stage, reply), the lease,  *)
(* the host thread's progress and the row, and counts futures and permits. *)
(***************************************************************************)
EXTENDS ActiveMessage, FiniteSetTheorems, TLAPS

Holders == {m \in Messages : HoldsPermit(m)}

\* What each stage of a message says about its lease, its row and its reply.
StageInv ==
    \A m \in Messages :
        /\ stage[m] \in {"unsent", "ingress", "parked"} =>
              reply[m] = "none" /\ host[m] = "none"
        /\ stage[m] \in {"future"} \cup Polled => reply[m] = "none" /\ host[m] # "none"
        /\ stage[m] = "Ready" => host[m] \in Admissions
        /\ stage[m] = "done" => reply[m] # "none" /\ lease[m] # "Open"
        /\ stage[m] = "parked" => to[m].owned /\ to[m].child \notin WorkflowChildren

\* How far the host can be for each state of the lease, and whether the row is in.
HostInv ==
    \A m \in Messages :
        /\ host[m] = "none" => lease[m] = "None" /\ ~row[m]
        /\ host[m] = "offered" => lease[m] \in {"Open", "Revoked"} /\ ~row[m]
        /\ host[m] = "claimed" => lease[m] = "Claimed" /\ ~row[m]
        /\ host[m] = "inserted" => lease[m] = "Claimed" /\ row[m]
        /\ host[m] \in {"committed", "Admitted"} => lease[m] = "Committed" /\ row[m]
        /\ host[m] \in Refusals =>
              \/ lease[m] \in {"Open", "Revoked"} /\ ~row[m]
              \/ lease[m] \in {"Claimed", "Committed"}

\* A definite reply was given only on a settled lease.
ReplyInv ==
    \A m \in Messages :
        /\ reply[m] = "Accepted" => lease[m] = "Committed" /\ row[m]
        /\ reply[m] \in DefiniteRefusals => lease[m] \in {"None", "Revoked"}

\* in_flight counts the futures; a child that is not active, and a dropped
\* coordinator, have none.
CountFor(c) ==
    /\ lifecycle[c].in_flight <= MaxPerChild
    /\ alive => lifecycle[c].in_flight = Cardinality(InFlight(c))
    /\ ~alive \/ child[c] # "active" => InFlight(c) = {}

CountInv == \A c \in Children : CountFor(c)

PermitInv == permits + Cardinality(Holders) = Capacity

\* A clean disposition means that no caller was told AdmissionUncertain.
CleanFor(c) ==
    /\ alive /\ lifecycle[c].disposition = "Clean" =>
          \A m \in Messages : to[m].child = c => reply[m] # "AdmissionUncertain"
    /\ output[c] \in {"ok", "cancelled"} <=> child[c] = "gone"
    /\ child[c] = "spawning" => lifecycle[c].disposition = "Clean"
    /\ output[c] = "ok" \/ finalizing[c] = "clean" =>
          /\ InFlight(c) = {}
          /\ child[c] # "spawning"
          /\ child[c] = "active" => lifecycle[c].phase = "Finalizing"
          /\ \A m \in Messages : to[m].child = c => reply[m] # "AdmissionUncertain"

CleanInv == \A c \in Children : CleanFor(c)

IInv ==
    TypeOK /\ StageInv /\ HostInv /\ ReplyInv /\ CountInv /\ PermitInv /\ CleanInv

----------------------------------------------------------------------------
\* Counting futures and permits

\* A message that is a future of c and the set of messages not one any more.
Futures == {"future"} \cup Polled

\* The sets that are counted are finite, and their sizes are naturals.
LEMMA CountsFinite ==
    /\ \A c \in Children : IsFiniteSet(InFlight(c)) /\ Cardinality(InFlight(c)) \in Nat
    /\ IsFiniteSet(Holders) /\ Cardinality(Holders) \in Nat
<1>1. ASSUME NEW c \in Children
      PROVE  IsFiniteSet(InFlight(c)) /\ Cardinality(InFlight(c)) \in Nat
  <2>1. InFlight(c) \in SUBSET Messages
    BY DEF InFlight
  <2> QED
    BY <2>1, MessagesAssumption, FS_Subset, FS_CardinalityType
<1>2. IsFiniteSet(Holders) /\ Cardinality(Holders) \in Nat
  <2>1. Holders \in SUBSET Messages
    BY DEF Holders
  <2> QED
    BY <2>1, MessagesAssumption, FS_Subset, FS_CardinalityType
<1> QED
  BY <1>1, <1>2

\* While the coordinator lives, a zero count means no future.
LEMMA NoneInFlight ==
    ASSUME IInv, alive, NEW c \in Children, lifecycle[c].in_flight = 0
    PROVE  InFlight(c) = {}
  BY CountsFinite, FS_EmptySet DEF IInv, CountInv, CountFor

\* A step that moves no message into or out of a permit-holding stage
\* changes neither count.
LEMMA SameHolders ==
    ASSUME to' = to,
           \A m \in Messages : (stage'[m] \in Futures) <=> (stage[m] \in Futures),
           \A m \in Messages : (stage'[m] = "ingress") <=> (stage[m] = "ingress")
    PROVE  Holders' = Holders /\ \A c \in Children : InFlight(c)' = InFlight(c)
<1>1. ASSUME NEW c \in Children PROVE InFlight(c)' = InFlight(c)
  BY DEF InFlight, Futures
<1>2. Holders' = Holders
  BY DEF Holders, HoldsPermit, Futures
<1> QED
  BY <1>1, <1>2

\* A future that is answered leaves the futures of its child, and only those.
LEMMA FutureEnds ==
    ASSUME IInv, NEW m \in Messages, stage[m] \in Futures, to' = to,
           stage' = [n \in Messages |-> IF n \in {m} THEN "done" ELSE stage[n]]
    PROVE  /\ \A c \in Children : c # to[m].child => InFlight(c)' = InFlight(c)
           /\ InFlight(to[m].child)' = InFlight(to[m].child) \ {m}
           /\ Cardinality(InFlight(to[m].child)') = Cardinality(InFlight(to[m].child)) - 1
           /\ Cardinality(InFlight(to[m].child)) \in Nat \ {0}
           /\ Cardinality(Holders') = Cardinality(Holders) - 1
           /\ Cardinality(Holders) \in Nat \ {0}
<1> DEFINE k == to[m].child
<1>0. k \in Children
  BY DEF IInv, TypeOK, Envelopes
<1>1. ASSUME NEW c \in Children, c # k PROVE InFlight(c)' = InFlight(c)
  BY <1>1 DEF InFlight, Polled
<1>2. InFlight(k)' = InFlight(k) \ {m} /\ m \in InFlight(k)
  BY DEF InFlight, Polled, Futures
<1>3. Holders' = Holders \ {m} /\ m \in Holders
  BY DEF Holders, HoldsPermit, Polled, Futures
<1>4. Cardinality(InFlight(k) \ {m}) = Cardinality(InFlight(k)) - 1
  BY <1>0, <1>2, CountsFinite, FS_RemoveElement
<1>5. Cardinality(Holders \ {m}) = Cardinality(Holders) - 1
  BY <1>3, CountsFinite, FS_RemoveElement
<1>6. Cardinality(InFlight(k)) \in Nat \ {0}
  BY <1>0, <1>2, CountsFinite, FS_EmptySet
<1>7. Cardinality(Holders) \in Nat \ {0}
  BY <1>3, CountsFinite, FS_EmptySet
<1> QED
  BY <1>1, <1>2, <1>3, <1>4, <1>5, <1>6, <1>7

\* A refusal of a message still holding its ingress permit returns one permit.
LEMMA IngressEnds ==
    ASSUME IInv, NEW m \in Messages, stage[m] = "ingress", to' = to,
           \A n \in Messages \ {m} : stage'[n] = stage[n],
           stage'[m] \in {"done", "parked"}
    PROVE  /\ \A c \in Children : InFlight(c)' = InFlight(c)
           /\ Cardinality(Holders') = Cardinality(Holders) - 1
           /\ Cardinality(Holders) \in Nat \ {0}
<1>1. ASSUME NEW c \in Children PROVE InFlight(c)' = InFlight(c)
  BY DEF InFlight, Polled
<1>2. Holders' = Holders \ {m} /\ m \in Holders
  BY DEF Holders, HoldsPermit, Polled
<1>3. Cardinality(Holders \ {m}) = Cardinality(Holders) - 1
  BY <1>2, CountsFinite, FS_RemoveElement
<1>4. Cardinality(Holders) \in Nat \ {0}
  BY <1>2, CountsFinite, FS_EmptySet
<1> QED
  BY <1>1, <1>2, <1>3, <1>4

----------------------------------------------------------------------------
\* Every action preserves the inductive invariant

\* The first half of a poll, whatever it observes, preserves the invariant.
LEMMA PollStep ==
    ASSUME IInv, NEW m \in Messages, PollReady(m) \/ PollCancelled(m) \/ PollDeadline(m)
    PROVE  IInv'
<1>1. Holders' = Holders /\ \A k \in Children : InFlight(k)' = InFlight(k)
  BY SameHolders DEF IInv, TypeOK, Futures, Polled, PollReady, PollCancelled,
     PollDeadline, Polls, Idle, coordVars
<1>2. TypeOK'
  BY DEF IInv, TypeOK, PermitInv, Stages, Polled, Outcomes, Admissions, Refusals,
     LeaseStates, PollReady, PollCancelled, PollDeadline, Polls, Idle, coordVars
<1>3. StageInv'
  BY DEF IInv, TypeOK, StageInv, HostInv, Polled, Admissions, Refusals, PollReady,
     PollCancelled, PollDeadline, Polls, Idle, coordVars
<1>4. HostInv'
  BY DEF IInv, TypeOK, HostInv, StageInv, Refusals, Admissions, Polled, PollReady,
     PollCancelled, PollDeadline, Polls, Idle, coordVars
<1>5. ReplyInv'
  BY DEF IInv, TypeOK, ReplyInv, StageInv, HostInv, Polled, Outcomes, DefiniteRefusals,
     Refusals, Admissions, PollReady, PollCancelled, PollDeadline, Polls, Idle, coordVars
<1>6. CountInv'
  BY <1>1 DEF IInv, TypeOK, CountInv, CountFor, CleanInv, CleanFor, PollReady,
     PollCancelled, PollDeadline, Polls, Idle, coordVars
<1>7. PermitInv'
  BY <1>1, CountsFinite, LimitsAssumption DEF IInv, TypeOK, PermitInv, PollReady,
     PollCancelled, PollDeadline, Polls, Idle, coordVars
<1>8. CleanInv'
  BY <1>1 DEF IInv, TypeOK, CleanInv, CleanFor, StageInv, CountInv, CountFor, PollReady,
     PollCancelled, PollDeadline, Polls, Idle, coordVars
<1> QED
  BY <1>2, <1>3, <1>4, <1>5, <1>6, <1>7, <1>8 DEF IInv

\* A message that leaves the ingress queue without a future preserves the invariant.
LEMMA LeaveIngressStep ==
    ASSUME IInv, NEW m \in Messages, RefuseActive(m) \/ RefuseInactive(m) \/ Park(m)
    PROVE  IInv'
<1>1. /\ \A k \in Children : InFlight(k)' = InFlight(k)
      /\ Cardinality(Holders') = Cardinality(Holders) - 1
      /\ Cardinality(Holders) \in Nat \ {0}
  BY IngressEnds DEF IInv, TypeOK, RefuseActive, RefuseInactive, Park, AdmitRefusal,
     Answer, ReleasePermit, Idle, coordVars
<1>2. TypeOK'
  <2>1. CASE RefuseActive(m)
    BY <2>1, <1>1, CountsFinite, LimitsAssumption DEF IInv, TypeOK, PermitInv, Stages,
       Outcomes, Admissions, Refusals, LeaseStates, RefuseActive, AdmitRefusal, Answer,
       ReleasePermit, coordVars
  <2>2. CASE RefuseInactive(m)
    BY <2>2, <1>1, CountsFinite, LimitsAssumption DEF IInv, TypeOK, PermitInv, Stages,
       Outcomes, Admissions, Refusals, LeaseStates, RefuseInactive, Answer,
       ReleasePermit, coordVars
  <2>3. CASE Park(m)
    BY <2>3, <1>1, CountsFinite, LimitsAssumption DEF IInv, TypeOK, PermitInv, Stages,
       Outcomes, Admissions, Refusals, LeaseStates, Park, ReleasePermit, coordVars
  <2> QED
    BY <2>1, <2>2, <2>3
<1>3. StageInv'
  BY DEF IInv, TypeOK, StageInv, HostInv, Polled, Admissions, Refusals, RefuseActive,
     RefuseInactive, Park, AdmitRefusal, Answer, ReleasePermit, Idle, coordVars
<1>4. HostInv'
  BY DEF IInv, TypeOK, HostInv, StageInv, Refusals, Admissions, Polled, RefuseActive,
     RefuseInactive, Park, AdmitRefusal, Answer, ReleasePermit, Idle, coordVars
<1>5. ReplyInv'
  BY DEF IInv, TypeOK, ReplyInv, StageInv, HostInv, Polled, Outcomes, DefiniteRefusals,
     Refusals, Admissions, RefuseActive, RefuseInactive, Park, AdmitRefusal, Answer,
     ReleasePermit, Idle, coordVars
<1>6. CountInv'
  BY <1>1 DEF IInv, TypeOK, CountInv, CountFor, CleanInv, CleanFor, RefuseActive,
     RefuseInactive, Park, AdmitRefusal, Answer, ReleasePermit, Idle, coordVars
<1>7. PermitInv'
  BY <1>1, CountsFinite, LimitsAssumption DEF IInv, TypeOK, PermitInv, RefuseActive,
     RefuseInactive, Park, AdmitRefusal, Answer, ReleasePermit, Idle, coordVars
<1>8. CleanInv'
  BY <1>1 DEF IInv, TypeOK, CleanInv, CleanFor, StageInv, CountInv, CountFor,
     RefuseActive, RefuseInactive, Park, AdmitRefusal, Answer, ReleasePermit, Idle,
     coordVars
<1> QED
  BY <1>2, <1>3, <1>4, <1>5, <1>6, <1>7, <1>8 DEF IInv

\* Expiry of a parked message preserves the invariant.
LEMMA ExpireParkedStep ==
    ASSUME IInv, NEW m \in Messages, ExpireParked(m)
    PROVE  IInv'
<1>1. Holders' = Holders /\ \A k \in Children : InFlight(k)' = InFlight(k)
  BY SameHolders DEF IInv, TypeOK, Futures, Polled, ExpireParked, Answer, Idle, coordVars
<1>2. TypeOK'
  BY DEF IInv, TypeOK, PermitInv, Stages, Polled, Outcomes, Admissions, Refusals,
     LeaseStates, ExpireParked, Answer, Idle, coordVars
<1>3. StageInv'
  BY DEF IInv, TypeOK, StageInv, HostInv, Polled, Admissions, Refusals, ExpireParked,
     Answer, Idle, coordVars
<1>4. HostInv'
  BY DEF IInv, TypeOK, HostInv, StageInv, Refusals, Admissions, Polled, ExpireParked,
     Answer, Idle, coordVars
<1>5. ReplyInv'
  BY DEF IInv, TypeOK, ReplyInv, StageInv, HostInv, Polled, Outcomes, DefiniteRefusals,
     Refusals, Admissions, ExpireParked, Answer, Idle, coordVars
<1>6. CountInv'
  BY <1>1 DEF IInv, TypeOK, CountInv, CountFor, CleanInv, CleanFor, ExpireParked, Answer,
     Idle, coordVars
<1>7. PermitInv'
  BY <1>1, CountsFinite, LimitsAssumption DEF IInv, TypeOK, PermitInv, ExpireParked,
     Answer, Idle, coordVars
<1>8. CleanInv'
  BY <1>1 DEF IInv, TypeOK, CleanInv, CleanFor, StageInv, CountInv, CountFor,
     ExpireParked, Answer, Idle, coordVars
<1> QED
  BY <1>2, <1>3, <1>4, <1>5, <1>6, <1>7, <1>8 DEF IInv

\* Every step of the host thread preserves the invariant.
LEMMA HostThreadStep ==
    ASSUME IInv, NEW m \in Messages, Host(m)
    PROVE  IInv'
<1>1. Holders' = Holders /\ \A k \in Children : InFlight(k)' = InFlight(k)
  BY SameHolders DEF IInv, TypeOK, Futures, Polled, Host, HostClaim, HostClaimFails,
     HostInsert, HostCommit, HostAdmitted, HostRefuse, HostDies, HostStep, coordVars
<1>2. TypeOK'
  <2>1. CASE HostClaim(m)
    BY <2>1 DEF IInv, TypeOK, PermitInv, Stages, Outcomes, Admissions, Refusals,
       LeaseStates, HostClaim, HostStep, coordVars
  <2>2. CASE HostClaimFails(m)
    BY <2>2 DEF IInv, TypeOK, PermitInv, Stages, Outcomes, Admissions, Refusals,
       LeaseStates, HostClaimFails, HostStep, coordVars
  <2>3. CASE HostInsert(m)
    BY <2>3 DEF IInv, TypeOK, PermitInv, Stages, Outcomes, Admissions, Refusals,
       LeaseStates, HostInsert, HostStep, coordVars
  <2>4. CASE HostCommit(m)
    BY <2>4 DEF IInv, TypeOK, PermitInv, Stages, Outcomes, Admissions, Refusals,
       LeaseStates, HostCommit, HostStep, coordVars
  <2>5. CASE HostAdmitted(m)
    BY <2>5 DEF IInv, TypeOK, PermitInv, Stages, Outcomes, Admissions, Refusals,
       LeaseStates, HostAdmitted, HostStep, coordVars
  <2>6. CASE HostRefuse(m)
    BY <2>6 DEF IInv, TypeOK, PermitInv, Stages, Outcomes, Admissions, Refusals,
       LeaseStates, HostRefuse, HostStep, coordVars
  <2>7. CASE HostDies(m)
    BY <2>7 DEF IInv, TypeOK, PermitInv, Stages, Outcomes, Admissions, Refusals,
       LeaseStates, HostDies, HostStep, coordVars
  <2> QED
    BY <2>1, <2>2, <2>3, <2>4, <2>5, <2>6, <2>7 DEF Host
<1>3. StageInv'
  BY DEF IInv, TypeOK, StageInv, HostInv, Polled, Admissions, Refusals, Host, HostClaim,
     HostClaimFails, HostInsert, HostCommit, HostAdmitted, HostRefuse, HostDies, HostStep,
     coordVars
<1>4. HostInv'
  BY DEF IInv, TypeOK, HostInv, StageInv, Refusals, Admissions, Polled, Host, HostClaim,
     HostClaimFails, HostInsert, HostCommit, HostAdmitted, HostRefuse, HostDies, HostStep,
     coordVars
<1>5. ReplyInv'
  BY DEF IInv, TypeOK, ReplyInv, StageInv, HostInv, Polled, Outcomes, DefiniteRefusals,
     Refusals, Admissions, Host, HostClaim, HostClaimFails, HostInsert, HostCommit,
     HostAdmitted, HostRefuse, HostDies, HostStep, coordVars
<1>6. CountInv'
  BY <1>1 DEF IInv, TypeOK, CountInv, CountFor, CleanInv, CleanFor, Host, HostClaim,
     HostClaimFails, HostInsert, HostCommit, HostAdmitted, HostRefuse, HostDies, HostStep,
     coordVars
<1>7. PermitInv'
  BY <1>1, CountsFinite, LimitsAssumption DEF IInv, TypeOK, PermitInv, Host, HostClaim,
     HostClaimFails, HostInsert, HostCommit, HostAdmitted, HostRefuse, HostDies, HostStep,
     coordVars
<1>8. CleanInv'
  BY <1>1 DEF IInv, TypeOK, CleanInv, CleanFor, StageInv, CountInv, CountFor, Host,
     HostClaim, HostClaimFails, HostInsert, HostCommit, HostAdmitted, HostRefuse,
     HostDies, HostStep, coordVars
<1> QED
  BY <1>2, <1>3, <1>4, <1>5, <1>6, <1>7, <1>8 DEF IInv

\* The steps of a child that touch no admission in flight preserve the invariant.
LEMMA QuietChildStep ==
    ASSUME IInv, NEW c \in Children, StartedTooLate(c) \/ Cancel(c) \/ CancelToken(c)
              \/ FinalizingTimeout(c) \/ RunEndsPending(c)
    PROVE  IInv'
<1>1. Holders' = Holders /\ \A k \in Children : InFlight(k)' = InFlight(k)
  BY SameHolders DEF IInv, TypeOK, Futures, Polled, StartedTooLate, Cancel, CancelToken,
     FinalizingTimeout, RunEndsPending, Answer, ParkedFor, Idle, coordVars, msgVars
<1>2. TypeOK'
  <2>1. CASE StartedTooLate(c)
    BY <2>1 DEF IInv, TypeOK, PermitInv, Stages, Outcomes, Admissions, Refusals,
       LeaseStates, StartedTooLate, Answer, coordVars
  <2>2. CASE Cancel(c)
    BY <2>2 DEF IInv, TypeOK, PermitInv, Stages, Outcomes, Admissions, Refusals,
       LeaseStates, Cancel, Answer
  <2>3. CASE CancelToken(c)
    BY <2>3 DEF IInv, TypeOK, PermitInv, Stages, Outcomes, Admissions, Refusals,
       LeaseStates, CancelToken, msgVars
  <2>4. CASE FinalizingTimeout(c)
    BY <2>4 DEF IInv, TypeOK, PermitInv, Stages, Outcomes, Admissions, Refusals,
       LeaseStates, FinalizingTimeout, msgVars
  <2>5. CASE RunEndsPending(c)
    BY <2>5 DEF IInv, TypeOK, PermitInv, Stages, Outcomes, Admissions, Refusals,
       LeaseStates, RunEndsPending, Answer
  <2> QED
    BY <2>1, <2>2, <2>3, <2>4, <2>5
<1>3. StageInv'
  BY DEF IInv, TypeOK, StageInv, HostInv, Polled, Admissions, Refusals, StartedTooLate,
     Cancel, CancelToken, FinalizingTimeout, RunEndsPending, Answer, ParkedFor, Idle,
     coordVars, msgVars
<1>4. HostInv'
  BY DEF IInv, TypeOK, HostInv, StageInv, Refusals, Admissions, Polled, StartedTooLate,
     Cancel, CancelToken, FinalizingTimeout, RunEndsPending, Answer, ParkedFor, Idle,
     coordVars, msgVars
<1>5. ReplyInv'
  BY DEF IInv, TypeOK, ReplyInv, StageInv, HostInv, Polled, Outcomes, DefiniteRefusals,
     Refusals, Admissions, StartedTooLate, Cancel, CancelToken, FinalizingTimeout,
     RunEndsPending, Answer, ParkedFor, Idle, coordVars, msgVars
<1>6. CountInv'
  BY <1>1 DEF IInv, TypeOK, CountInv, CountFor, CleanInv, CleanFor, StartedTooLate,
     Cancel, CancelToken, FinalizingTimeout, RunEndsPending, Answer, ParkedFor, Idle,
     coordVars, msgVars
<1>7. PermitInv'
  BY <1>1, CountsFinite, LimitsAssumption DEF IInv, TypeOK, PermitInv, StartedTooLate,
     Cancel, CancelToken, FinalizingTimeout, RunEndsPending, Answer, ParkedFor, Idle,
     coordVars, msgVars
<1>8. CleanInv'
  BY <1>1 DEF IInv, TypeOK, CleanInv, CleanFor, StageInv, CountInv, CountFor,
     StartedTooLate, Cancel, CancelToken, FinalizingTimeout, RunEndsPending, Answer,
     ParkedFor, Idle, coordVars, msgVars
<1> QED
  BY <1>2, <1>3, <1>4, <1>5, <1>6, <1>7, <1>8 DEF IInv

\* The runner's finalizing() call preserves the invariant.
LEMMA BeginFinalizingStep ==
    ASSUME IInv, NEW c \in Children, BeginFinalizing(c)
    PROVE  IInv'
<1>1. Holders' = Holders /\ \A k \in Children : InFlight(k)' = InFlight(k)
  BY SameHolders DEF IInv, TypeOK, Futures, Polled, BeginFinalizing, Terminalize,
     Disposition, Idle, msgVars
<1>2. TypeOK'
  BY DEF IInv, TypeOK, PermitInv, Stages, Polled, Outcomes, Admissions, Refusals,
     LeaseStates, BeginFinalizing, Terminalize, Disposition, Idle, msgVars
<1>3. StageInv'
  BY DEF IInv, TypeOK, StageInv, HostInv, Polled, Admissions, Refusals, BeginFinalizing,
     Terminalize, Disposition, Idle, msgVars
<1>4. HostInv'
  BY DEF IInv, TypeOK, HostInv, StageInv, Refusals, Admissions, Polled, BeginFinalizing,
     Terminalize, Disposition, Idle, msgVars
<1>5. ReplyInv'
  BY DEF IInv, TypeOK, ReplyInv, StageInv, HostInv, Polled, Outcomes, DefiniteRefusals,
     Refusals, Admissions, BeginFinalizing, Terminalize, Disposition, Idle, msgVars
<1>6. CountInv'
  BY <1>1 DEF IInv, TypeOK, CountInv, CountFor, CleanInv, CleanFor, BeginFinalizing,
     Terminalize, Disposition, Idle, msgVars
<1>7. PermitInv'
  BY <1>1, CountsFinite, LimitsAssumption DEF IInv, TypeOK, PermitInv, BeginFinalizing,
     Terminalize, Disposition, Idle, msgVars
<1>8. CleanInv'
  BY <1>1, NoneInFlight DEF IInv, TypeOK, CleanInv, CleanFor, StageInv, CountInv,
     CountFor, BeginFinalizing, Terminalize, Disposition, Idle, msgVars
<1> QED
  BY <1>2, <1>3, <1>4, <1>5, <1>6, <1>7, <1>8 DEF IInv

\* RunEndsActive preserves the invariant.
LEMMA RunEndsActiveStep ==
    ASSUME IInv, NEW c \in Children, RunEndsActive(c)
    PROVE  IInv'
<1>0. output'[c] \in {"ok", "cancelled", "buffered"} /\ output' = [output EXCEPT ![c] = output'[c]]
  BY DEF IInv, TypeOK, RunEndsActive, Result
<1>1. Holders' = Holders /\ \A k \in Children : InFlight(k)' = InFlight(k)
  BY SameHolders DEF IInv, TypeOK, Futures, Polled, RunEndsActive, Terminalize, Idle, msgVars
<1>2. TypeOK'
  BY SMTT(30), <1>0 DEF IInv, TypeOK, PermitInv, Stages, Polled, Outcomes, Admissions, Refusals,
     LeaseStates, RunEndsActive, Terminalize, Idle, msgVars
<1>3. StageInv'
  BY DEF IInv, TypeOK, StageInv, HostInv, Polled, Admissions, Refusals, RunEndsActive,
     Terminalize, Idle, msgVars
<1>4. HostInv'
  BY DEF IInv, TypeOK, HostInv, StageInv, Refusals, Admissions, Polled, RunEndsActive,
     Terminalize, Idle, msgVars
<1>5. ReplyInv'
  BY DEF IInv, TypeOK, ReplyInv, StageInv, HostInv, Polled, Outcomes, DefiniteRefusals,
     Refusals, Admissions, RunEndsActive, Terminalize, Idle, msgVars
<1>6. CountInv'
  BY <1>1, NoneInFlight DEF IInv, TypeOK, CountInv, CountFor, CleanInv, CleanFor,
     RunEndsActive, Terminalize, Idle, msgVars
<1>7. PermitInv'
  BY <1>1, CountsFinite, LimitsAssumption DEF IInv, TypeOK, PermitInv, RunEndsActive,
     Terminalize, Idle, msgVars
<1>8. CleanInv'
  BY <1>1, <1>0, NoneInFlight DEF IInv, TypeOK, CleanInv, CleanFor, StageInv, CountInv,
     CountFor, RunEndsActive, Result, Terminalize, Idle, msgVars
<1> QED
  BY <1>2, <1>3, <1>4, <1>5, <1>6, <1>7, <1>8 DEF IInv

\* A caller's send preserves the invariant.
LEMMA SendStep ==
    ASSUME IInv, NEW m \in Messages, Send(m)
    PROVE  IInv'
<1>1. /\ \A k \in Children : InFlight(k)' = InFlight(k)
      /\ permits' + Cardinality(Holders') = permits + Cardinality(Holders)
      /\ permits' \in 0 .. Capacity
  <2>1. CASE stage'[m] = "done"
    <3>1. Holders' = Holders /\ \A k \in Children : InFlight(k)' = InFlight(k)
      BY <2>1, SameHolders DEF IInv, TypeOK, Futures, Polled, Send, Answer, coordVars
    <3>2. permits' = permits
      BY <2>1 DEF IInv, TypeOK, Send, Answer
    <3> QED
      BY <3>1, <3>2 DEF IInv, TypeOK
  <2>2. CASE stage'[m] = "ingress"
    <3>1. stage' = [stage EXCEPT ![m] = "ingress"] /\ permits' = permits - 1 /\ permits # 0
      BY <2>2 DEF IInv, TypeOK, Send, Answer
    <3>2. \A k \in Children : InFlight(k)' = InFlight(k)
      BY <3>1 DEF IInv, TypeOK, InFlight, Polled, Send, coordVars
    <3>3. Holders' = Holders \cup {m} /\ m \notin Holders
      BY <3>1 DEF IInv, TypeOK, Holders, HoldsPermit, Polled, Send
    <3>4. Cardinality(Holders \cup {m}) = Cardinality(Holders) + 1
      BY <3>3, CountsFinite, FS_AddElement
    <3> QED
      BY <3>1, <3>2, <3>3, <3>4, CountsFinite, LimitsAssumption DEF IInv, TypeOK
  <2> QED
    BY <2>1, <2>2 DEF IInv, TypeOK, Send, Answer
<1>2. TypeOK'
  BY <1>1 DEF IInv, TypeOK, PermitInv, Stages, Polled, Outcomes, Admissions, Refusals,
     LeaseStates, Send, Answer, coordVars
<1>3. StageInv'
  BY DEF IInv, TypeOK, StageInv, HostInv, Polled, Admissions, Refusals, Send, Answer, coordVars
<1>4. HostInv'
  BY DEF IInv, TypeOK, HostInv, StageInv, Refusals, Admissions, Polled, Send, Answer, coordVars
<1>5. ReplyInv'
  BY DEF IInv, TypeOK, ReplyInv, StageInv, HostInv, Polled, Outcomes, DefiniteRefusals,
     Refusals, Admissions, Send, Answer, coordVars
<1>6. CountInv'
  BY <1>1 DEF IInv, TypeOK, CountInv, CountFor, CleanInv, CleanFor, Send, Answer, coordVars
<1>7. PermitInv'
  BY <1>1, CountsFinite, LimitsAssumption DEF IInv, TypeOK, PermitInv, Send, Answer, coordVars
<1>8. CleanInv'
  BY <1>1 DEF IInv, TypeOK, CleanInv, CleanFor, StageInv, CountInv, CountFor, Send,
     Answer, coordVars
<1> QED
  BY <1>2, <1>3, <1>4, <1>5, <1>6, <1>7, <1>8 DEF IInv

\* Admission at the active child preserves the invariant.
LEMMA AdmitActiveStep ==
    ASSUME IInv, NEW m \in Messages, AdmitActive(m)
    PROVE  IInv'
<1>0. to[m].child \in Children /\ lifecycle[to[m].child].in_flight \in Nat
  BY DEF IInv, TypeOK, Envelopes
<1>1. /\ \A k \in Children : k # to[m].child => InFlight(k)' = InFlight(k)
      /\ Cardinality(InFlight(to[m].child)') = Cardinality(InFlight(to[m].child)) + 1
      /\ Holders' = Holders
  <2>1. \A k \in Children : k # to[m].child => InFlight(k)' = InFlight(k)
    BY DEF IInv, TypeOK, InFlight, Polled, AdmitActive
  <2>2. InFlight(to[m].child)' = InFlight(to[m].child) \cup {m} /\ m \notin InFlight(to[m].child)
    BY DEF IInv, TypeOK, InFlight, Polled, AdmitActive
  <2>3. Cardinality(InFlight(to[m].child) \cup {m}) = Cardinality(InFlight(to[m].child)) + 1
    BY <1>0, <2>2, CountsFinite, FS_AddElement
  <2>4. Holders' = Holders
    BY DEF IInv, TypeOK, Holders, HoldsPermit, Polled, AdmitActive
  <2> QED
    BY <2>1, <2>2, <2>3, <2>4
<1>2. TypeOK'
  BY <1>0 DEF IInv, TypeOK, PermitInv, Stages, Polled, Outcomes, Admissions, Refusals,
     LeaseStates, AdmitActive, Admissible, Offer, BeginAdmission, Idle
<1>3. StageInv'
  BY DEF IInv, TypeOK, StageInv, HostInv, Polled, Admissions, Refusals, AdmitActive,
     Admissible, Offer, BeginAdmission, Idle
<1>4. HostInv'
  BY DEF IInv, TypeOK, HostInv, StageInv, Refusals, Admissions, Polled, AdmitActive,
     Admissible, Offer, BeginAdmission, Idle
<1>5. ReplyInv'
  BY DEF IInv, TypeOK, ReplyInv, StageInv, HostInv, Polled, Outcomes, DefiniteRefusals,
     Refusals, Admissions, AdmitActive, Admissible, Offer, BeginAdmission, Idle
<1>6. CountInv'
  BY <1>1, <1>0, LimitsAssumption DEF IInv, TypeOK, CountInv, CountFor, CleanInv,
     CleanFor, AdmitActive, Admissible, Offer, BeginAdmission, Idle
<1>7. PermitInv'
  BY <1>1, CountsFinite, LimitsAssumption DEF IInv, TypeOK, PermitInv, AdmitActive,
     Admissible, Offer, BeginAdmission, Idle
<1>8. CleanInv'
  BY <1>1, <1>0 DEF IInv, TypeOK, CleanInv, CleanFor, StageInv, CountInv, CountFor,
     AdmitActive, Admissible, Offer, BeginAdmission, Idle
<1> QED
  BY <1>2, <1>3, <1>4, <1>5, <1>6, <1>7, <1>8 DEF IInv

\* The completion of a future preserves the invariant: the child is still
\* active, and the last completion leaves it without futures.
LEMMA FinishActiveMessageStep ==
    ASSUME IInv, NEW m \in Messages, FinishActiveMessage(m)
    PROVE  IInv'
<1>k. PICK k \in Children : k = to[m].child
  BY DEF IInv, TypeOK, Envelopes
<1>l. PICK lc : lc = FinishAdmission(lifecycle[k], IsSettled(m))
  OBVIOUS
<1>0. k \in Children /\ m \in InFlight(k) /\ child[k] = "active" /\ alive
  BY <1>k DEF IInv, TypeOK, Envelopes, CountInv, CountFor, InFlight, FinishActiveMessage
<1>1. /\ lease' = [lease EXCEPT ![m] = SettledLease(m)]
      /\ permits' = permits + 1
      /\ reply' = [n \in Messages |-> IF n \in {m} THEN CompletionOutcome(m) ELSE reply[n]]
      /\ stage' = [n \in Messages |-> IF n \in {m} THEN "done" ELSE stage[n]]
      /\ lifecycle' = [lifecycle EXCEPT ![k] = lc]
      /\ finalizing' = [finalizing EXCEPT ![k] =
                          IF LastAdmission(lc) /\ @ = "waiting" THEN Disposition(lc) ELSE @]
      /\ UNCHANGED <<alive, cancelled, to, host, row>>
  BY <1>0, <1>k, <1>l DEF FinishActiveMessage, Answer, ReleasePermit
<1>2. \/ UNCHANGED <<child, output>>
      \/ /\ LastAdmission(lc)
         /\ child' = [child EXCEPT ![k] = "gone"]
         /\ \E r \in {"ok", "cancelled"} : output' = [output EXCEPT ![k] = Result(lc, r)]
  BY <1>0, <1>k, <1>l DEF FinishActiveMessage
<1>3. /\ \A c \in Children : c # k => InFlight(c)' = InFlight(c)
      /\ InFlight(k)' = InFlight(k) \ {m}
      /\ Cardinality(InFlight(k)') = Cardinality(InFlight(k)) - 1
      /\ Cardinality(InFlight(k)) \in Nat \ {0}
      /\ Cardinality(Holders') = Cardinality(Holders) - 1
      /\ Cardinality(Holders) \in Nat \ {0}
  <2>1. stage[m] \in Futures
    BY DEF FinishActiveMessage, Futures
  <2> QED
    BY <1>1, <1>k, <2>1, FutureEnds
<1>4. /\ lc.in_flight = lifecycle[k].in_flight - 1 /\ lifecycle[k].in_flight \in Nat \ {0}
      /\ lc.phase = lifecycle[k].phase
      /\ lc.disposition = IF IsSettled(m) THEN lifecycle[k].disposition ELSE "Uncertain"
      /\ lc \in [phase : {"Open", "Finalizing"}, in_flight : Nat, disposition : {"Clean", "Uncertain"}]
      /\ lc.in_flight = Cardinality(InFlight(k)')
  <2>1. /\ lifecycle[k] \in [phase : {"Open", "Finalizing"}, in_flight : Nat,
                            disposition : {"Clean", "Uncertain"}]
        /\ lifecycle[k].in_flight = Cardinality(InFlight(k))
    BY <1>0 DEF IInv, TypeOK, CountInv, CountFor
  <2>2. lifecycle[k].in_flight \in Nat \ {0}
    BY <1>3, <2>1
  <2>3. lc = [phase |-> lifecycle[k].phase, in_flight |-> lifecycle[k].in_flight - 1,
              disposition |-> IF IsSettled(m) THEN lifecycle[k].disposition ELSE "Uncertain"]
    <3>1. CASE IsSettled(m)
      BY <3>1, <1>l, <2>1 DEF FinishAdmission
    <3>2. CASE ~IsSettled(m)
      BY <3>2, <1>l, <2>1 DEF FinishAdmission
    <3> QED
      BY <3>1, <3>2
  <2>4. lc.in_flight \in Nat /\ lc.in_flight = Cardinality(InFlight(k)')
    BY <1>3, <2>1, <2>2, <2>3
  <2> QED
    BY <2>1, <2>2, <2>3, <2>4
<1>5. /\ CompletionOutcome(m) \in Outcomes
      /\ CompletionOutcome(m) = "AdmissionUncertain" <=> ~IsSettled(m)
      /\ CompletionOutcome(m) = "Accepted" => host[m] = "Admitted"
      /\ CompletionOutcome(m) \in DefiniteRefusals => lease[m] \in {"Open", "Revoked"}
      /\ stage[m] \in Polled
  <2>1. stage[m] \in Polled /\ (stage[m] = "Ready" => host[m] \in Admissions)
    BY DEF IInv, StageInv, FinishActiveMessage
  <2>2. CASE ~IsSettled(m)
    BY <2>1, <2>2 DEF CompletionOutcome, Outcomes, DefiniteRefusals
  <2>3. CASE IsSettled(m) /\ stage[m] # "Ready"
    BY <2>1, <2>3 DEF CompletionOutcome, Outcomes, DefiniteRefusals, IsSettled
  <2>4. CASE IsSettled(m) /\ stage[m] = "Ready"
    BY <2>1, <2>4 DEF CompletionOutcome, Outcomes, DefiniteRefusals, IsSettled,
       Admissions, Refusals
  <2> QED
    BY <2>2, <2>3, <2>4
<1>6. SettledLease(m) \in LeaseStates \ {"Open"} /\ (lease[m] # "Open" => SettledLease(m) = lease[m])
      /\ (lease[m] = "Open" => SettledLease(m) = "Revoked")
  BY DEF IInv, TypeOK, LeaseStates, SettledLease
<1>7. /\ output' \in [Children -> {"running", "buffered", "ok", "cancelled"}]
      /\ child' \in [Children -> {"spawning", "active", "gone"}]
      /\ \A c \in Children : c # k => output'[c] = output[c] /\ child'[c] = child[c]
      /\ output'[k] = "ok" => child'[k] = "gone"
      /\ child'[k] # "spawning"
      /\ child'[k] = "gone" => LastAdmission(lc) /\ output'[k] \in {"ok", "cancelled"}
      /\ child'[k] # "gone" => output'[k] = output[k]
      /\ output'[k] = "ok" => lc.disposition = "Clean"
  <2>1. CASE UNCHANGED <<child, output>>
    BY <2>1, <1>0 DEF IInv, TypeOK, CleanInv, CleanFor
  <2>2. CASE /\ LastAdmission(lc)
             /\ child' = [child EXCEPT ![k] = "gone"]
             /\ \E r \in {"ok", "cancelled"} : output' = [output EXCEPT ![k] = Result(lc, r)]
    BY <2>2, <1>0 DEF IInv, TypeOK, Result
  <2> QED
    BY <2>1, <2>2, <1>2
<1>8. TypeOK'
  <2>1. lifecycle' \in [Children -> [phase : {"Open", "Finalizing"}, in_flight : Nat,
                                    disposition : {"Clean", "Uncertain"}]]
    BY <1>1, <1>4 DEF IInv, TypeOK
  <2>2. finalizing' \in [Children -> {"none", "waiting", "clean", "unclean"}]
    BY <1>1 DEF IInv, TypeOK, Disposition
  <2>3. permits' \in 0 .. Capacity
    <3>1. /\ permits \in Nat /\ Capacity \in Nat
          /\ permits + Cardinality(Holders) = Capacity
      BY LimitsAssumption DEF IInv, TypeOK, PermitInv
    <3>2. Cardinality(Holders) \in Nat \ {0} /\ permits' = permits + 1
      BY <1>1, <1>3
    <3> QED
      BY <3>1, <3>2
  <2>4. /\ stage' \in [Messages -> Stages] /\ lease' \in [Messages -> LeaseStates]
        /\ reply' \in [Messages -> Outcomes \cup {"none"}]
    BY <1>1, <1>5, <1>6 DEF IInv, TypeOK, Stages
  <2> QED
    BY <2>1, <2>2, <2>3, <2>4, <1>1, <1>7 DEF IInv, TypeOK
<1>9. StageInv'
  BY <1>1, <1>5, <1>6 DEF IInv, TypeOK, StageInv, Outcomes, Polled
<1>10. HostInv'
  BY <1>1, <1>6 DEF IInv, TypeOK, HostInv, Refusals
<1>11. ReplyInv'
  BY <1>1, <1>5, <1>6 DEF IInv, TypeOK, ReplyInv, HostInv, StageInv
<1>12. CountInv'
  <2>1. LastAdmission(lc) => InFlight(k)' = {}
    BY <1>0, <1>3, <1>4, CountsFinite, FS_EmptySet, FS_RemoveElement DEF LastAdmission
  <2>2. ASSUME NEW c \in Children, c # k PROVE CountFor(c)'
    BY <2>2, <1>0, <1>1, <1>3, <1>7 DEF IInv, TypeOK, CountInv, CountFor
  <2>3. lifecycle'[k] = lc /\ lc.in_flight <= MaxPerChild
    BY <1>0, <1>1, <1>4, LimitsAssumption DEF IInv, TypeOK, CountInv, CountFor
  <2>4. CountFor(k)'
    BY <2>1, <2>3, <1>0, <1>1, <1>4, <1>7 DEF IInv, TypeOK, CountFor
  <2> QED
    BY <2>2, <2>4 DEF CountInv
<1>13. PermitInv'
  BY <1>1, <1>3, CountsFinite, LimitsAssumption DEF IInv, TypeOK, PermitInv
<1>14. CleanInv'
  <2>1. LastAdmission(lc) => InFlight(k)' = {} /\ lc.phase = "Finalizing"
    BY <1>0, <1>3, <1>4, CountsFinite, FS_EmptySet, FS_RemoveElement DEF LastAdmission
  <2>2. ASSUME NEW c \in Children, c # k PROVE CleanFor(c)'
    BY <2>2, <1>k, <1>0, <1>1, <1>3, <1>5, <1>7 DEF IInv, TypeOK, CleanInv, CleanFor
  <2>3. lc.disposition = "Clean" =>
          \A n \in Messages : to[n].child = k => reply'[n] # "AdmissionUncertain"
    BY <1>k, <1>0, <1>1, <1>4, <1>5 DEF IInv, TypeOK, CleanInv, CleanFor
  <2>4. finalizing'[k] = "clean" => lc.disposition = "Clean" /\ LastAdmission(lc)
    BY <1>0, <1>1, <1>3 DEF IInv, TypeOK, CleanInv, CleanFor, Disposition
  <2>5. CleanFor(k)'
    BY <2>1, <2>3, <2>4, <1>0, <1>1, <1>3, <1>4, <1>7 DEF IInv, TypeOK, CleanInv, CleanFor
  <2> QED
    BY <2>2, <2>5 DEF CleanInv
<1> QED
  BY <1>8, <1>9, <1>10, <1>11, <1>12, <1>13, <1>14 DEF IInv

\* Promotion preserves the invariant: the child had no future, and the parked
\* messages it takes over find a permit each.
LEMMA StartedStep ==
    ASSUME IInv, NEW c \in Children, Started(c)
    PROVE  IInv'
<1>1. PICK S \in SUBSET ParkedFor(c) :
        LET started == IF Cardinality(ParkedFor(c)) <= permits
                       THEN Cardinality(ParkedFor(c)) ELSE permits
        IN
        /\ Cardinality(S) = IF started <= MaxPerChild THEN started ELSE MaxPerChild
        /\ Offer(S)
        /\ lifecycle' = [lifecycle EXCEPT ![c] = BeginAdmission(@, Cardinality(S))]
        /\ permits' = permits - Cardinality(S)
        /\ stage' = [m \in Messages |-> IF m \in S THEN "future"
                                        ELSE IF m \in ParkedFor(c) THEN "done" ELSE stage[m]]
        /\ reply' = [m \in Messages |-> IF m \in ParkedFor(c) \ S THEN "Saturated" ELSE reply[m]]
  BY DEF Started
<1>2. /\ Idle /\ child[c] = "spawning" /\ output[c] = "running"
      /\ child' = [child EXCEPT ![c] = "active"]
      /\ UNCHANGED <<alive, cancelled, finalizing, output, to, row>>
  BY DEF Started
<1>3. S \subseteq Messages /\ \A m \in S : stage[m] = "parked" /\ to[m].child = c
  BY <1>1 DEF ParkedFor
<1>4. /\ IsFiniteSet(S) /\ Cardinality(S) \in Nat
      /\ Cardinality(S) <= permits /\ Cardinality(S) <= MaxPerChild
  <2>1. ParkedFor(c) \subseteq Messages
    BY DEF ParkedFor
  <2>2. /\ IsFiniteSet(S) /\ Cardinality(S) \in Nat
        /\ Cardinality(ParkedFor(c)) \in Nat
    BY <1>1, <1>3, <2>1, MessagesAssumption, FS_Subset, FS_CardinalityType
  <2> QED
    BY <1>1, <2>2, LimitsAssumption DEF IInv, TypeOK
<1>5. /\ InFlight(c) = {} /\ InFlight(c)' = S
      /\ \A k \in Children : k # c => InFlight(k)' = InFlight(k)
  <2>1. InFlight(c) = {}
    BY <1>2 DEF IInv, CountInv, CountFor
  <2>2. InFlight(c)' = S
    BY <2>1, <1>1, <1>2, <1>3 DEF IInv, TypeOK, InFlight, ParkedFor, Polled
  <2>3. ASSUME NEW k \in Children, k # c PROVE InFlight(k)' = InFlight(k)
    BY <2>3, <1>1, <1>2, <1>3 DEF IInv, TypeOK, InFlight, ParkedFor, Polled
  <2> QED
    BY <2>1, <2>2, <2>3
<1>6. Cardinality(Holders') = Cardinality(Holders) + Cardinality(S)
  <2>1. Holders' = Holders \cup S
    BY <1>1, <1>2, <1>3 DEF IInv, TypeOK, Holders, HoldsPermit, ParkedFor, Polled
  <2>2. Holders \cap S = {}
    BY <1>3 DEF Holders, HoldsPermit, Polled
  <2>3. Cardinality(Holders \cap S) = 0
    BY <2>2, FS_EmptySet
  <2>4. Cardinality(Holders \cup S) =
          Cardinality(Holders) + Cardinality(S) - Cardinality(Holders \cap S)
    BY <1>4, CountsFinite, FS_Union
  <2>5. Cardinality(Holders) \in Nat /\ Cardinality(S) \in Nat
    BY <1>4, CountsFinite
  <2> QED
    BY <2>1, <2>3, <2>4, <2>5
<1>7. /\ lifecycle[c].in_flight = 0
      /\ lifecycle'[c].in_flight = Cardinality(S)
      /\ lifecycle'[c].disposition = lifecycle[c].disposition
      /\ lifecycle'[c].phase = lifecycle[c].phase
      /\ \A k \in Children : k # c => lifecycle'[k] = lifecycle[k]
      /\ lifecycle' \in [Children -> [phase : {"Open", "Finalizing"}, in_flight : Nat,
                                      disposition : {"Clean", "Uncertain"}]]
  <2>1. lifecycle[c].in_flight = 0
    BY <1>2, <1>5, FS_EmptySet DEF IInv, CountInv, CountFor, Idle
  <2> QED
    BY SMTT(30), <2>1, <1>1, <1>4 DEF IInv, TypeOK, BeginAdmission
<1>8. TypeOK'
  <2>1. permits' \in 0 .. Capacity
    BY <1>1, <1>4, LimitsAssumption DEF IInv, TypeOK
  <2>2. child' \in [Children -> {"spawning", "active", "gone"}]
    BY <1>2 DEF IInv, TypeOK
  <2>3. /\ stage' \in [Messages -> Stages]
        /\ reply' \in [Messages -> Outcomes \cup {"none"}]
        /\ lease' \in [Messages -> LeaseStates]
        /\ host' \in [Messages -> {"none", "offered", "claimed", "inserted", "committed"} \cup Admissions]
    BY <1>1 DEF IInv, TypeOK, Stages, Outcomes, LeaseStates, Offer
  <2> QED
    BY <2>1, <2>2, <2>3, <1>2, <1>7 DEF IInv, TypeOK
<1>9. StageInv'
  BY <1>1, <1>2, <1>3 DEF IInv, TypeOK, StageInv, HostInv, ParkedFor, Offer, Polled, Admissions
<1>10. HostInv'
  BY <1>1, <1>2, <1>3 DEF IInv, TypeOK, HostInv, StageInv, Offer, Refusals
<1>11. ReplyInv'
  BY <1>1, <1>2, <1>3 DEF IInv, TypeOK, ReplyInv, StageInv, HostInv, ParkedFor, Offer,
     Outcomes, DefiniteRefusals
<1>12. CountInv'
  BY <1>2, <1>4, <1>5, <1>7 DEF IInv, TypeOK, CountInv, CountFor, Idle
<1>13. PermitInv'
  BY <1>1, <1>4, <1>6, CountsFinite, LimitsAssumption DEF IInv, TypeOK, PermitInv
<1>14. CleanInv'
  <2>1. \A m \in Messages : reply'[m] = "AdmissionUncertain" => reply[m] = "AdmissionUncertain"
    BY <1>1
  <2>2. ASSUME NEW k \in Children, k # c PROVE CleanFor(k)'
    <3>1. /\ lifecycle'[k] = lifecycle[k] /\ child'[k] = child[k] /\ InFlight(k)' = InFlight(k)
          /\ CleanFor(k)
      BY <2>2, <1>2, <1>5, <1>7 DEF IInv, TypeOK, CleanInv
    <3> QED
      BY <2>1, <3>1, <1>2 DEF CleanFor
  <2>3. CleanFor(c)'
    <3>1. child'[c] = "active" /\ CleanFor(c)
      BY <1>2 DEF IInv, TypeOK, CleanInv
    <3> QED
      BY <2>1, <3>1, <1>2, <1>7 DEF CleanFor
  <2> QED
    BY <2>2, <2>3 DEF CleanInv
<1> QED
  BY <1>8, <1>9, <1>10, <1>11, <1>12, <1>13, <1>14 DEF IInv

\* Dropping the coordinator preserves the invariant: every future revokes its
\* lease or reports that it could not.
LEMMA DropCoordinatorStep ==
    ASSUME IInv, DropCoordinator
    PROVE  IInv'
<1>1. /\ Holders' = {} /\ Cardinality(Holders') = 0
      /\ \A c \in Children : InFlight(c)' = {}
  <2>1. \A m \in Messages : stage'[m] \in {"unsent", "done"}
    BY DEF DropCoordinator
  <2>2. Holders' = {}
    BY <2>1 DEF Holders, HoldsPermit, Polled
  <2>3. ASSUME NEW c \in Children PROVE InFlight(c)' = {}
    BY <2>1 DEF InFlight, Polled
  <2> QED
    BY <2>2, <2>3, FS_EmptySet
<1>2. TypeOK'
  <2>1. permits' \in 0 .. Capacity
    BY LimitsAssumption DEF DropCoordinator
  <2>2. lease' \in [Messages -> LeaseStates] /\ stage' \in [Messages -> Stages]
    BY DEF IInv, TypeOK, DropCoordinator, SettledLease, Stages, LeaseStates
  <2>3. reply' \in [Messages -> Outcomes \cup {"none"}]
    BY DEF IInv, TypeOK, DropCoordinator, Outcomes
  <2>4. finalizing' \in [Children -> {"none", "waiting", "clean", "unclean"}]
    BY DEF IInv, TypeOK, DropCoordinator
  <2> QED
    BY <2>1, <2>2, <2>3, <2>4 DEF IInv, TypeOK, DropCoordinator
<1>3. StageInv'
  BY DEF IInv, TypeOK, StageInv, HostInv, DropCoordinator, SettledLease, Idle, Stages, Polled
<1>4. HostInv'
  BY DEF IInv, TypeOK, HostInv, DropCoordinator, SettledLease, Refusals
<1>5. ReplyInv'
  BY DEF IInv, TypeOK, ReplyInv, StageInv, HostInv, DropCoordinator, SettledLease, Idle,
     Stages, Polled, Outcomes, DefiniteRefusals, LeaseStates
<1>6. CountInv'
  BY <1>1 DEF IInv, TypeOK, CountInv, CountFor, DropCoordinator
<1>7. PermitInv'
  BY <1>1, LimitsAssumption DEF PermitInv, DropCoordinator
<1>8. CleanInv'
  BY <1>1 DEF IInv, TypeOK, CleanInv, CleanFor, InFlight, DropCoordinator, Polled
<1> QED
  BY <1>2, <1>3, <1>4, <1>5, <1>6, <1>7, <1>8 DEF IInv

----------------------------------------------------------------------------
\* The theorems

\* IInv holds initially.
LEMMA InitIInv == Init => IInv
<1> SUFFICES ASSUME Init PROVE IInv
  OBVIOUS
<1>1. /\ Holders = {} /\ Cardinality(Holders) = 0
      /\ \A c \in Children : InFlight(c) = {} /\ Cardinality(InFlight(c)) = 0
  <2>1. Holders = {}
    BY DEF Init, Holders, HoldsPermit, Polled
  <2>2. ASSUME NEW c \in Children PROVE InFlight(c) = {}
    BY DEF Init, InFlight, Polled
  <2> QED
    BY <2>1, <2>2, FS_EmptySet
<1>2. TypeOK
  BY LimitsAssumption DEF Init, TypeOK, Stages, LeaseStates, Outcomes
<1>3. StageInv /\ HostInv /\ ReplyInv
  BY DEF Init, StageInv, HostInv, ReplyInv, Polled, Outcomes, DefiniteRefusals, Refusals
<1>4. CountInv /\ PermitInv /\ CleanInv
  BY <1>1, LimitsAssumption DEF Init, CountInv, CountFor, PermitInv, CleanInv, CleanFor
<1> QED
  BY <1>2, <1>3, <1>4 DEF IInv

\* Every step preserves IInv.
LEMMA NextIInv == IInv /\ [Next]_vars => IInv'
<1> SUFFICES ASSUME IInv, [Next]_vars PROVE IInv'
  OBVIOUS
<1>1. CASE \E m \in Messages : Send(m) \/ CoordinatorMessage(m) \/ Host(m)
  <2>1. PICK m \in Messages : Send(m) \/ CoordinatorMessage(m) \/ Host(m)
    BY <1>1
  <2> QED
    BY <2>1, SendStep, AdmitActiveStep, LeaveIngressStep, ExpireParkedStep, PollStep,
       FinishActiveMessageStep, HostThreadStep DEF CoordinatorMessage
<1>2. CASE \E c \in Children : CoordinatorChild(c)
  <2>1. PICK c \in Children : CoordinatorChild(c)
    BY <1>2
  <2> QED
    BY <2>1, StartedStep, QuietChildStep, BeginFinalizingStep, RunEndsActiveStep
       DEF CoordinatorChild
<1>3. CASE DropCoordinator
  BY <1>3, DropCoordinatorStep
<1>4. CASE UNCHANGED vars
  <2>1. Holders' = Holders /\ \A c \in Children : InFlight(c)' = InFlight(c)
    BY <1>4, SameHolders DEF vars
  <2> QED
    BY <2>1, <1>4 DEF vars, IInv, TypeOK, StageInv, HostInv, ReplyInv, CountInv, CountFor,
       PermitInv, CleanInv, CleanFor
<1> QED
  BY <1>1, <1>2, <1>3, <1>4 DEF Next, Done

\* The inductive invariant is an invariant.
THEOREM Invariance == Spec => []IInv
  BY InitIInv, NextIInv, PTL DEF Spec

\* Type correctness.
THEOREM TypeCorrect == Spec => []TypeOK
<1>1. IInv => TypeOK
  BY DEF IInv
<1> QED
  BY <1>1, Invariance, PTL

\* A sender told Accepted has its row in the child's state: finish_active_message
\* answers Accepted only when the lease it settles is Committed.
THEOREM AcceptedSafe == Spec => []AcceptedIsInserted
<1>1. IInv => AcceptedIsInserted
  BY DEF IInv, ReplyInv, AcceptedIsInserted
<1> QED
  BY <1>1, Invariance, PTL

\* A sender told that its message was refused, for any reason, never sees the
\* host insert it afterwards: the coordinator answers so only on a lease that it
\* has revoked, or for a message that was never offered.
THEOREM RefusedSafe == Spec => []RefusedIsNeverInserted
<1>1. IInv => RefusedIsNeverInserted
  BY DEF IInv, ReplyInv, HostInv, TypeOK, RefusedIsNeverInserted, Admissions, Refusals
<1> QED
  BY <1>1, Invariance, PTL

\* What a sender is told is true of its row, now and for ever after.
THEOREM AnswersCorrect == Spec => []AnswersAreTrue
<1>1. AcceptedIsInserted /\ RefusedIsNeverInserted => AnswersAreTrue
  BY DEF AnswersAreTrue
<1> QED
  BY <1>1, AcceptedSafe, RefusedSafe, PTL

\* The in_flight counter of a child is the number of its futures, whatever the
\* limits and however many messages are sent; no future outlives its child.
THEOREM InFlightCorrect == Spec => []InFlightExact
<1>1. IInv => InFlightExact
  BY DEF IInv, CountInv, CountFor, InFlightExact
<1> QED
  BY <1>1, Invariance, PTL

\* Ingress permits are conserved.
THEOREM PermitsCorrect == Spec => []PermitsConserved
<1>1. IInv => PermitsConserved
  BY DEF IInv, PermitInv, Holders, PermitsConserved
<1> QED
  BY <1>1, Invariance, PTL

\* Both counters that bound admission are exact.
THEOREM CountersCorrect == Spec => []CountersExact
<1>1. InFlightExact /\ PermitsConserved => CountersExact
  BY DEF CountersExact
<1> QED
  BY <1>1, InFlightCorrect, PermitsCorrect, PTL

\* A child whose result was not replaced by a cancelled one agrees with every
\* sender about which messages it holds.
THEOREM ResultsAgree == Spec => []OkResultMeansAgreement
<1>1. IInv => OkResultMeansAgreement
  <2> SUFFICES ASSUME IInv, NEW c \in Children, output[c] = "ok",
                      NEW m \in Messages, to[m].child = c
               PROVE  row[m] <=> reply[m] = "Accepted"
    BY DEF OkResultMeansAgreement
  <2>1. /\ m \notin InFlight(c) /\ child[c] = "gone"
        /\ reply[m] # "AdmissionUncertain"
    BY DEF IInv, CleanInv, CleanFor
  <2>2. stage[m] \in {"unsent", "ingress", "parked", "done"}
    BY <2>1 DEF IInv, TypeOK, InFlight, Stages, Polled
  <2> QED
    BY <2>1, <2>2 DEF IInv, TypeOK, StageInv, HostInv, ReplyInv, DefiniteRefusals, Outcomes,
       Admissions, Refusals
<1> QED
  BY <1>1, Invariance, PTL

\* After finalizing() has answered true, the rows of the child never change.
THEOREM CleanIsFinal == Spec => CleanFinalizingIsFinal
<1>1. IInv /\ [Next]_vars => [\A c \in Children : finalizing[c] = "clean" =>
         \A m \in Messages : to[m].child = c => row'[m] = row[m]]_vars
  <2> SUFFICES ASSUME IInv, Next, NEW c \in Children, finalizing[c] = "clean",
                      NEW m \in Messages, to[m].child = c
               PROVE  row'[m] = row[m]
    OBVIOUS
  <2>1. host[m] # "claimed"
    BY DEF IInv, TypeOK, CleanInv, CleanFor, InFlight, StageInv, HostInv, ReplyInv, Stages,
       Polled, DefiniteRefusals, Outcomes
  <2>2. row' = row \/ \E n \in Messages : HostInsert(n)
    BY DEF Next, CoordinatorMessage, CoordinatorChild, Host, Send, AdmitActive, RefuseActive,
       RefuseInactive, Park, ExpireParked, PollReady, PollCancelled, PollDeadline, Polls,
       FinishActiveMessage, Started, StartedTooLate, Cancel, CancelToken, BeginFinalizing,
       FinalizingTimeout, RunEndsPending, RunEndsActive, DropCoordinator, Done, HostClaim,
       HostClaimFails, HostCommit, HostAdmitted, HostRefuse, HostDies, msgVars, vars
  <2> QED
    BY <2>1, <2>2 DEF IInv, TypeOK, HostInsert, HostStep
<1> QED
  BY <1>1, Invariance, PTL DEF Spec, CleanFinalizingIsFinal
==============================================================================
